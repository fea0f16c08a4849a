---------------------------- MODULE ResultDelivery ----------------------------
(***************************************************************************)
(* What a stream of query results promises the application: the results in *)
(* the order the query makes them, each once, then the end, which comes    *)
(* only when all results were given, or an error in its place.  As long as *)
(* nobody aborts the stream, that end is the only one and the last event.  *)
(* abort() stops nothing: an end of its own is the next event, whatever    *)
(* was given so far, and the other results and the end or the error of the *)
(* query may still follow it.                                              *)
(***************************************************************************)
EXTENDS Naturals, Sequences

VARIABLES made,     \* how many results the query has made
          done,     \* the query will make no more
          given,    \* the results given to the application, by number
          outcome,  \* how the query ended: "none", "end" or "error"
          abortEnd  \* the end event of an abort: "none", "due" or "emitted"

vars == <<made, done, given, outcome, abortEnd>>

Init ==
    /\ made = 0 /\ done = FALSE /\ given = <<>>
    /\ outcome = "none" /\ abortEnd = "none"

Make ==
    /\ ~done
    /\ made' = made + 1
    /\ UNCHANGED <<done, given, outcome, abortEnd>>

Stop ==
    /\ done' = TRUE
    /\ UNCHANGED <<made, given, outcome, abortEnd>>

Give ==
    /\ outcome = "none" /\ abortEnd # "due"
    /\ Len(given) < made
    /\ given' = Append(given, Len(given) + 1)
    /\ UNCHANGED <<made, done, outcome, abortEnd>>

End ==
    /\ outcome = "none" /\ abortEnd # "due"
    /\ done /\ Len(given) = made
    /\ outcome' = "end"
    /\ UNCHANGED <<made, done, given, abortEnd>>

Fail ==
    /\ outcome = "none" /\ abortEnd # "due"
    /\ done
    /\ outcome' = "error"
    /\ UNCHANGED <<made, done, given, abortEnd>>

Abort ==
    /\ abortEnd = "none"
    /\ abortEnd' = "due"
    /\ UNCHANGED <<made, done, given, outcome>>

AbortEnd ==
    /\ abortEnd = "due"
    /\ abortEnd' = "emitted"
    /\ UNCHANGED <<made, done, given, outcome>>

Next == Make \/ Stop \/ Give \/ End \/ Fail \/ Abort \/ AbortEnd

Spec == Init /\ [][Next]_vars
===============================================================================
