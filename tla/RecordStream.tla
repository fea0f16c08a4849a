------------------------------ MODULE RecordStream ------------------------------
(***************************************************************************)
(* Record streams: Scan.foreach and Query.foreach, paginated or not.       *)
(*                                                                         *)
(* A stream command (lib/commands/stream_command.js) turns each call of    *)
(* its native callback into one event of a RecordStream and returns        *)
(* whether the scan goes on; the listeners of src/main/async.cc call it    *)
(* for every record, at the end of a page with the serialized progress of  *)
(* the scan, and at the end.  RecordStream.abort only sets a flag the next *)
(* callback returns and schedules an 'end' of its own.  The application    *)
(* hands the argument of 'end' to nextPage() and starts the next page when *)
(* a stream has ended or failed, as the examples of lib/scan.js do.        *)
(*                                                                         *)
(* External: the C client passes records one at a time, remembers the      *)
(* records a listener answered true for, and calls a listener no more      *)
(* after an error or an answer false (the pages listeners rely on it: they *)
(* free what they use and return false).                                   *)
(***************************************************************************)
EXTENDS Naturals, Sequences, FiniteSets

CONSTANTS Streams,      \* the RecordStream objects, one per foreach()
          Records,      \* the records of the set
          Paginated,    \* Scan.paginate, Query.paginate
          PageSize,     \* maxRecords of a paginated scan
          MaxAborts     \* bound: calls of abort()

ASSUME SetsAssumption == IsFiniteSet(Streams) /\ IsFiniteSet(Records)
ASSUME PageAssumption == Paginated \in BOOLEAN /\ PageSize \in Nat \ {0}
ASSUME AbortsAssumption == MaxAborts \in Nat

VARIABLES
    connected,  \* Client.connected
    scanState,  \* Scan.scanState: <<>> for undefined, <<S>> for progress S
    current,    \* the latest stream, as a sequence of at most one
    seen,       \* history: records given since the scan last began anew
    scan,       \* scan[s]: the native side, see NoScan
    aborted,    \* aborted[s]: RecordStream.aborted
    ticks,      \* process.nextTick queue: <<stream, event>>
    events      \* history: events[s], what stream s emitted, and "abort"

vars == <<connected, scanState, current, seen, scan, aborted, ticks, events>>

(***************************************************************************)
(* at: "none" before foreach(), "refused" or "failed" in foreach(), then   *)
(* "scanning" until "over"; passed: the progress the C client would        *)
(* serialize; count: records of this page; object: the native command.     *)
(***************************************************************************)
NoScan == [at |-> "none", passed |-> {}, count |-> 0, object |-> "none"]

TurnOver == ticks = <<>>

Has(s, e) == \E i \in DOMAIN events[s] : events[s][i] = e
Finished(s) == Has(s, "end") \/ Has(s, "error")
Aborts == Cardinality({s \in Streams : aborted[s]})

-------------------------------------------------------------------------------
(* foreach                                                                 *)

\* The application waits for the stream before it starts the next one.
Ready(s) ==
    /\ scan[s].at = "none"
    /\ \A t \in Streams : scan[t].at \in {"scanning", "over", "failed"} => Finished(t)

\* A scan with saved progress goes on, one without begins anew.
StartFrom(s) ==
    /\ current' = <<s>>
    /\ seen' = IF scanState = <<>> THEN {} ELSE seen

(***************************************************************************)
(* Not connected: sendError() schedules the method callback itself, not    *)
(* bound to the command, which then cannot find its stream.                *)
(***************************************************************************)
ForeachRefused(s) ==
    /\ Ready(s)
    /\ ~connected
    /\ scan' = [scan EXCEPT ![s].at = "refused"]
    /\ ticks' = Append(ticks, <<s, "unbound">>)
    /\ UNCHANGED <<connected, scanState, current, seen, aborted, events>>

\* The native method calls back at once: a bound callback is scheduled.
ForeachFails(s) ==
    /\ Ready(s)
    /\ connected
    /\ StartFrom(s)
    /\ scan' = [scan EXCEPT ![s].at = "failed", ![s].object = "freed"]
    /\ ticks' = Append(ticks, <<s, "error">>)
    /\ UNCHANGED <<connected, scanState, aborted, events>>

\* The C client accepts the scan, with the saved progress if there is one.
Foreach(s) ==
    /\ Ready(s)
    /\ connected
    /\ StartFrom(s)
    /\ scan' = [scan EXCEPT ![s] =
                  [at |-> "scanning", count |-> 0, object |-> "held",
                   passed |-> IF Paginated /\ scanState # <<>> THEN scanState[1] ELSE {}]]
    /\ UNCHANGED <<connected, scanState, aborted, ticks, events>>

-------------------------------------------------------------------------------
(* Events                                                                  *)

Emit(s, e) == events' = [events EXCEPT ![s] = Append(@, e)]

\* The 'end' handler of the application: nextPage(state).
EmitEnd(s, state) ==
    /\ Emit(s, "end")
    /\ scanState' = state

\* Slip: abort() leaves the 'end' event to the scan.
Abort_NoEnd(s) ==
    /\ ~aborted[s] /\ Aborts < MaxAborts
    /\ scan[s].at \in {"scanning", "over", "failed"}
    /\ aborted' = [aborted EXCEPT ![s] = TRUE]
    /\ Emit(s, "abort")
    /\ UNCHANGED <<connected, scanState, current, seen, scan, ticks>>

\* RecordStream.abort, from a handler of another event or a timer.
Abort(s) ==
    /\ ~aborted[s] /\ Aborts < MaxAborts
    /\ scan[s].at \in {"scanning", "over", "failed"}
    /\ aborted' = [aborted EXCEPT ![s] = TRUE]
    /\ Emit(s, "abort")
    /\ ticks' = Append(ticks, <<s, "end">>)
    /\ UNCHANGED <<connected, scanState, current, seen, scan>>

\* The next of process.nextTick: abort's 'end', an early error, or the unbound
\* callback, which throws and emits nothing.
Tick ==
    /\ ticks # <<>>
    /\ ticks' = Tail(ticks)
    /\ LET s == Head(ticks)[1]
           e == Head(ticks)[2]
       IN  \/ e = "end" /\ EmitEnd(s, <<>>)
           \/ e = "error" /\ Emit(s, "error") /\ UNCHANGED scanState
           \/ e = "unbound" /\ UNCHANGED <<events, scanState>>
    /\ UNCHANGED <<connected, current, seen, scan, aborted>>

-------------------------------------------------------------------------------
(* The listeners, on the main thread                                       *)

Listening(s) == scan[s].at = "scanning" /\ TurnOver

\* su->count >= su->max_records.
Full(s) == Paginated /\ scan[s].count >= PageSize

\* What the stream callback returns after its handlers ran: !stream.aborted.
GoesOn(s) == ~aborted'[s]

\* The record is counted, and passed; or it is counted and the scan is over.
WithRecord(old, r) == [old EXCEPT !.passed = @ \cup {r}, !.count = @ + 1]
AtRecord(old) == [old EXCEPT !.at = "over", !.count = @ + 1]

(***************************************************************************)
(* A record: 'data' is emitted, its handler may abort the stream, and the  *)
(* record is passed if the callback answers that the scan goes on.         *)
(***************************************************************************)
RecordEvent(s, r) ==
    /\ Listening(s)
    /\ ~Full(s)
    /\ r \in Records \ scan[s].passed
    /\ seen' = IF current = <<s>> THEN seen \cup {r} ELSE seen
    /\ \/ /\ Emit(s, "data")
          /\ UNCHANGED <<aborted, ticks>>
       \/ /\ ~aborted[s] /\ Aborts < MaxAborts
          /\ events' = [events EXCEPT ![s] = @ \o <<"data", "abort">>]
          /\ aborted' = [aborted EXCEPT ![s] = TRUE]
          /\ ticks' = Append(ticks, <<s, "end">>)
    /\ scan' = [scan EXCEPT ![s] = IF GoesOn(s) THEN WithRecord(@, r) ELSE AtRecord(@)]
    /\ UNCHANGED <<connected, scanState, current>>

LeaveScan(s) == scan' = [scan EXCEPT ![s].at = "over", ![s].object = "freed"]

\* Slip: the listener answers true after the page.
PageEnd_GoesOn(s) ==
    /\ Listening(s) /\ Full(s)
    /\ EmitEnd(s, <<scan[s].passed>>)
    /\ scan' = [scan EXCEPT ![s].count = 0]
    /\ UNCHANGED <<connected, current, seen, aborted, ticks>>

(***************************************************************************)
(* The listener is called, with a record or at the end, when the page is   *)
(* full: the progress goes out with 'end', all is freed.                   *)
(***************************************************************************)
EndOfPage(s, progress) ==
    /\ Listening(s) /\ Full(s)
    /\ EmitEnd(s, progress)
    /\ LeaveScan(s)
    /\ UNCHANGED <<connected, current, seen, aborted, ticks>>

\* Slip: the record that finds the page full is passed over.
PageEnd_PassesRecord(s) == \E r \in Records : EndOfPage(s, <<scan[s].passed \cup {r}>>)

\* Slip: the last record of the page is answered false and so does not count as passed.
PageEnd_LastNotPassed(s) == \E r \in scan[s].passed : EndOfPage(s, <<scan[s].passed \ {r}>>)

\* Slip: the page ends like the scan does, without its progress.
PageEnd_NoState(s) == EndOfPage(s, <<>>)

\* The progress is that of the records passed; the record that found it full is not.
PageEnd(s) == EndOfPage(s, <<scan[s].passed>>)

\* No record is left: 'end' without progress.
ScanEnd(s) ==
    /\ Listening(s)
    /\ ~Full(s)
    /\ Records \subseteq scan[s].passed
    /\ EmitEnd(s, <<>>)
    /\ LeaveScan(s)
    /\ UNCHANGED <<connected, current, seen, aborted, ticks>>

\* The scan fails: 'error'; the command object is not deleted.
ScanError(s) ==
    /\ Listening(s)
    /\ Emit(s, "error")
    /\ scan' = [scan EXCEPT ![s].at = "over"]
    /\ UNCHANGED <<connected, scanState, current, seen, aborted, ticks>>

\* Client.close; scans under way go on until the C client has closed.
CloseClient ==
    /\ connected
    /\ connected' = FALSE
    /\ UNCHANGED <<scanState, current, seen, scan, aborted, ticks, events>>

-------------------------------------------------------------------------------
Init ==
    /\ connected \in BOOLEAN
    /\ scanState = <<>>
    /\ current = <<>>
    /\ seen = {}
    /\ scan = [s \in Streams |-> NoScan]
    /\ aborted = [s \in Streams |-> FALSE]
    /\ ticks = <<>>
    /\ events = [s \in Streams |-> <<>>]

Listener(s) ==
    \/ \E r \in Records : RecordEvent(s, r)
    \/ PageEnd(s)
    \/ ScanEnd(s)
    \/ ScanError(s)

Next ==
    \/ \E s \in Streams : ForeachRefused(s)
    \/ \E s \in Streams : ForeachFails(s)
    \/ \E s \in Streams : Foreach(s)
    \/ \E s \in Streams : Abort(s)
    \/ \E s \in Streams : Listener(s)
    \/ Tick
    \/ CloseClient

Spec == Init /\ [][Next]_vars

\* The C client answers every scan it accepted, node runs its nextTick queue.
Fairness == WF_vars(Tick) /\ \A s \in Streams : WF_vars(Listener(s))

FairSpec == Spec /\ Fairness

-------------------------------------------------------------------------------
(* Properties                                                              *)

\* Type correctness; the history variables included.
TypeOK ==
    /\ connected \in BOOLEAN
    /\ scanState \in {<<>>} \cup {<<S>> : S \in SUBSET Records}
    /\ current \in {<<>>} \cup {<<s>> : s \in Streams}
    /\ seen \in SUBSET Records
    /\ scan \in [Streams -> [at : {"none", "refused", "failed", "scanning", "over"},
                             passed : SUBSET Records,
                             count : Nat,
                             object : {"none", "held", "freed"}]]
    /\ aborted \in [Streams -> BOOLEAN]
    /\ ticks \in Seq(Streams \X {"end", "error", "unbound"})
    /\ events \in [Streams -> Seq({"data", "end", "error", "abort"})]

Count(s, e, from) == Cardinality({i \in from .. Len(events[s]) : events[s][i] = e})

\* A stream nobody aborts emits data, no more than maxRecords if it has pages
\* (the counter of the listeners runs across the nodes of the cluster), then one
\* 'end' or one 'error', and then nothing.  After abort() at most one more record
\* comes through: the next callback answers false and the scan stops
\* (StreamCommand.callback).
Orderly ==
    \A s \in Streams :
        /\ Paginated => Count(s, "data", 1) <= PageSize
        /\ \A i \in DOMAIN events[s] :
            /\ events[s][i] \in {"end", "error"} /\ ~aborted[s] => i = Len(events[s])
            /\ events[s][i] = "abort" => Count(s, "data", i) <= 1

NobodyAborted == \A s \in Streams : ~aborted[s]
NobodyFailed == \A s \in Streams : ~Has(s, "error")

\* Saved progress never passes over a record the application was not given:
\* whatever pages fail and are repeated, nothing is skipped.
NothingSkipped == NobodyAborted /\ scanState # <<>> => scanState[1] \subseteq seen

\* While no page fails, no record is given twice.
NoRecordTwice ==
    [][NobodyFailed /\ NobodyAborted' =>
         \A s \in Streams : Count(s, "data", 1)' > Count(s, "data", 1) => seen' # seen]_vars

\* When a scan ends without progress to go on from, and nobody aborted it, the
\* application has been given every record (Scan.hasNextPage).
CompleteMeansAll ==
    [][NobodyAborted /\ scanState' = <<>> =>
         \A s \in Streams : Count(s, "end", 1)' > Count(s, "end", 1) => seen = Records]_vars

\* Every stream whose scan was started ends or fails, aborted or not.
StreamFinishes ==
    \A s \in Streams : scan[s].at \in {"scanning", "failed"} ~> Finished(s)
===============================================================================
