---------------------------- MODULE MCQueryForeach ----------------------------
(***************************************************************************)
(* Small instances of QueryForeach: five results through a queue of two    *)
(* with a signal for every second one, so that the queue fills, a push     *)
(* comes late and signals merge.                                           *)
(***************************************************************************)
EXTENDS QueryForeach
===============================================================================
