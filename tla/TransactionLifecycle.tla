------------------------- MODULE TransactionLifecycle -------------------------
(***************************************************************************)
(* What an application may rely on about its multi-record transactions,    *)
(* whatever the client does to reclaim their native memory: the state it   *)
(* reads with Transaction.getState(), whether an object has been           *)
(* destroyed, and which abort and commit commands are under way.  The pool *)
(* (array, capacity, limit) does not appear; TransactionPool implements    *)
(* this specification.                                                     *)
(***************************************************************************)

CONSTANTS Txns,   \* the Transaction objects the application ever makes
          Cmds    \* slots for abort and commit commands under way

VARIABLES seen,      \* seen[t]: what t.getState() answers, "none" before new
          closed,    \* the objects whose getDestroyed() answers true
          request,   \* request[c]: the command in slot c, or NoRequest
          call       \* the latest of the four entry points that was called

vars == <<seen, closed, request, call>>

NoRequest  == [txn |-> "none", op |-> "none"]
Finished   == {"COMMITTED", "ABORTED"}
Unfinished == {"OPEN", "VERIFIED"}

Init ==
    /\ seen = [t \in Txns |-> "none"]
    /\ closed = {}
    /\ request = [c \in Cmds |-> NoRequest]
    /\ call = "none"

(***************************************************************************)
(* Any entry point may reclaim finished transactions on the way, and no    *)
(* other transaction.                                                      *)
(***************************************************************************)
ReclaimFinished ==
    \E S \in SUBSET {t \in Txns \ closed : seen[t] \in Finished} :
        closed' = closed \cup S

Construct ==
    /\ ReclaimFinished
    /\ \/ \E t \in Txns : /\ seen[t] = "none"
                          /\ seen' = [seen EXCEPT ![t] = "OPEN"]
       \/ seen' = seen
    /\ call' = "construct"
    /\ UNCHANGED request

(***************************************************************************)
(* A command is put under way only for a transaction that is not finished  *)
(* and has not been destroyed; an answer that needs no command starts none.*)
(***************************************************************************)
Ask(op) ==
    /\ ReclaimFinished
    /\ \/ \E c \in Cmds, t \in Txns :
              /\ request[c] = NoRequest
              /\ seen[t] \in Unfinished /\ t \notin closed
              /\ request' = [request EXCEPT ![c] = [txn |-> t, op |-> op]]
       \/ request' = request
    /\ call' = op
    /\ UNCHANGED seen

DestroyAll ==
    /\ \E S \in SUBSET {t \in Txns : seen[t] # "none"} : closed' = closed \cup S
    /\ call' = "destroyAll"
    /\ UNCHANGED <<seen, request>>

(***************************************************************************)
(* The state of a transaction moves forward only, only on behalf of a      *)
(* command, and never again once its object is destroyed.                  *)
(***************************************************************************)
Advance ==
    \E c \in Cmds, t \in Txns \ closed, to \in {"VERIFIED"} \cup Finished :
        /\ request[c] # NoRequest /\ request[c].txn = t
        /\ seen[t] \in Unfinished /\ seen[t] # to
        /\ seen' = [seen EXCEPT ![t] = to]
        /\ UNCHANGED <<closed, request, call>>

Answer ==
    \E c \in Cmds :
        /\ request[c] # NoRequest
        /\ request' = [request EXCEPT ![c] = NoRequest]
        /\ UNCHANGED <<seen, closed, call>>

Next == Construct \/ Ask("abort") \/ Ask("commit") \/ DestroyAll \/ Advance \/ Answer

Spec == Init /\ [][Next]_vars
===============================================================================
