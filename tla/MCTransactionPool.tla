--------------------------- MODULE MCTransactionPool ---------------------------
(***************************************************************************)
(* Small instances of TransactionPool.  With an initial capacity of one,   *)
(* two pooled transactions are enough to reach a tend that does something, *)
(* three to make one that reclaims some and keeps others.  Capacities that *)
(* are not checked may add up to less than nothing (-1.5 and -0.5), or to  *)
(* no number at all.                                                       *)
(***************************************************************************)
EXTENDS TransactionPool, TLC

Unchecked == {-2, Astray}

\* No action and no property reads how a call ended.
View == <<transactions, capacity, totalReadsAndWrites, size, native, destroyed, state,
          request, outcome.call>>

Symmetry == Permutations(Txns) \cup Permutations(Cmds)
===============================================================================
