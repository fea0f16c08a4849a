----------------------------- MODULE QueryForeach -----------------------------
(***************************************************************************)
(* Query.foreach with a stream UDF: src/main/commands/query_foreach.cc.    *)
(*                                                                         *)
(* The results are made on a worker thread, where no JavaScript can run.   *)
(* execute() runs the query there; its callback clones each result into a  *)
(* queue and now and then signals the main thread (uv_async_send), whose   *)
(* async_callback empties the queue into the stream.  respond(), on the    *)
(* main thread after execute() has returned, empties what is left, reports *)
(* the end or the error and closes the signal handle; the command is       *)
(* deleted when the handle is closed.  An action is one access of a thread *)
(* to what they share.                                                     *)
(*                                                                         *)
(* External: uv_async_send calls that find one pending are merged, a       *)
(* handle that is closing calls back no more, and respond() runs after     *)
(* execute() has returned.                                                 *)
(***************************************************************************)
EXTENDS Naturals, Sequences

CONSTANTS MaxResults,   \* bound: results a query makes
          QueueSize,    \* QUEUE_SZ
          SignalEvery   \* max_q_size / 20

ASSUME ResultsAssumption == MaxResults \in Nat
ASSUME QueueAssumption == QueueSize \in Nat \ {0} /\ SignalEvery \in Nat \ {0}

VARIABLES
    worker,     \* "idle", "queued", "query", "holding", "sleeping", "returned"
    main,       \* "loop", "draining" (async_callback), "responding", "closed"
    open,       \* as->cluster is not NULL
    failed,     \* cmd->err is set
    made,       \* results the query has made; a result is its number
    results,    \* cmd->results
    interval,   \* cmd->signal_interval
    signalled,  \* an uv_async_send is pending
    handle,     \* async_handle: "none", "open", "closing", "closed", "undefined"
    object,     \* the command object: "none", "held", "freed"
    given,      \* the results emitted by the stream
    outcome,    \* of the query: "none", "end" or "error", emitted by the stream
    abortEnd    \* the end event of abort(): "none", "due" (nextTick), "emitted"

shared == <<results, signalled, made, interval>>
stream == <<given, outcome, abortEnd>>
vars == <<worker, main, open, failed, shared, handle, object, stream>>

Free == main = "loop"

\* A process.nextTick callback runs before the main thread does anything else.
Ticked == abortEnd # "due"

-------------------------------------------------------------------------------
(* The native method, on the main thread                                   *)

\* prepare(): the command, its queue and its signal handle.
Prepare ==
    /\ worker = "idle" /\ Free /\ open
    /\ worker' = "queued"
    /\ object' = "held"
    /\ handle' = "open"
    /\ UNCHANGED <<main, open, failed, shared, stream>>

\* prepare() with an invalid policy returns before the handle is initialized.
PrepareFails ==
    /\ worker = "idle" /\ Free /\ open
    /\ worker' = "queued"
    /\ object' = "held"
    /\ failed' = TRUE
    /\ UNCHANGED <<main, open, handle, shared, stream>>

-------------------------------------------------------------------------------
(* The worker thread                                                       *)

\* execute(): returns at once after an error or when the client was closed.
StartQuery ==
    /\ worker = "queued"
    /\ worker' = IF ~failed /\ open THEN "query" ELSE "returned"
    /\ UNCHANGED <<main, open, failed, shared, handle, object, stream>>

\* async_queue_populate: the result is cloned; a full queue makes it sleep once.
Populate ==
    /\ worker = "query"
    /\ made < MaxResults
    /\ worker' = IF Len(results) >= QueueSize THEN "sleeping" ELSE "holding"
    /\ UNCHANGED <<main, open, failed, shared, handle, object, stream>>

Awake ==
    /\ worker = "sleeping"
    /\ worker' = "holding"
    /\ UNCHANGED <<main, open, failed, shared, handle, object, stream>>

\* Slip: a result that still finds the queue full is dropped.
Push_DropsWhenFull ==
    /\ worker = "holding"
    /\ worker' = "query"
    /\ made' = made + 1
    /\ results' = IF Len(results) >= QueueSize THEN results ELSE Append(results, made')
    /\ UNCHANGED <<main, open, failed, interval, signalled, handle, object, stream>>

\* The clone is pushed, full or not; every SignalEvery results signal main.
Push ==
    /\ worker = "holding"
    /\ worker' = "query"
    /\ made' = made + 1
    /\ results' = Append(results, made')
    /\ interval' = IF (interval + 1) % SignalEvery = 0 THEN 0 ELSE interval + 1
    /\ signalled' = (signalled \/ interval' = 0)
    /\ UNCHANGED <<main, open, failed, handle, object, stream>>

\* aerospike_query_foreach returns, with cmd->err set or not; a last signal.
EndQuery ==
    /\ worker = "query"
    /\ worker' = "returned"
    /\ failed' \in BOOLEAN
    /\ signalled' = TRUE
    /\ UNCHANGED <<main, open, made, results, interval, handle, object, stream>>

-------------------------------------------------------------------------------
(* The main thread                                                         *)

\* async_callback is called for a pending signal.
AsyncCallback ==
    /\ Ticked
    /\ Free
    /\ handle = "open" /\ signalled
    /\ signalled' = FALSE
    /\ main' = "draining"
    /\ UNCHANGED <<worker, open, failed, made, results, interval, handle, object, stream>>

\* async_queue_process: the oldest result is popped and the callback called; its
\* answer, whether the stream was aborted, is not looked at.
Process ==
    /\ Ticked
    /\ main \in {"draining", "responding"}
    /\ results # <<>>
    /\ given' = Append(given, Head(results))
    /\ results' = Tail(results)
    /\ UNCHANGED <<worker, main, open, failed, made, interval, signalled, handle, object,
                   outcome, abortEnd>>

\* async_queue_process finds the queue empty and async_callback returns.
Drained ==
    /\ Ticked
    /\ main = "draining"
    /\ results = <<>>
    /\ main' = "loop"
    /\ UNCHANGED <<worker, open, failed, shared, handle, object, stream>>

\* Slip: respond() trusts the last signal to have emptied the queue.
Respond_NoDrain ==
    /\ Ticked
    /\ Free
    /\ worker = "returned" /\ outcome = "none"
    /\ main' = "closed"
    /\ outcome' = IF failed THEN "error" ELSE "end"
    /\ handle' = IF handle = "open" THEN "closing" ELSE "undefined"
    /\ UNCHANGED <<worker, open, failed, shared, object, given, abortEnd>>

\* respond() without an error empties the queue first.
Respond ==
    /\ Ticked
    /\ Free
    /\ worker = "returned" /\ outcome = "none"
    /\ ~failed
    /\ main' = "responding"
    /\ UNCHANGED <<worker, open, failed, shared, handle, object, stream>>

\* Slip: an error is reported and the handle forgotten.
RespondError_NoClose ==
    /\ Ticked
    /\ Free
    /\ worker = "returned" /\ outcome = "none"
    /\ failed
    /\ outcome' = "error"
    /\ main' = "closed"
    /\ UNCHANGED <<worker, open, failed, shared, handle, object, given, abortEnd>>

\* respond() with an error reports it; results still queued are given up.
\* uv_close on a handle never initialized is undefined.
RespondError ==
    /\ Ticked
    /\ Free
    /\ worker = "returned" /\ outcome = "none"
    /\ failed
    /\ outcome' = "error"
    /\ main' = "closed"
    /\ handle' = IF handle = "open" THEN "closing" ELSE "undefined"
    /\ UNCHANGED <<worker, open, failed, shared, object, given, abortEnd>>

\* Slip: the command is deleted by respond().
RespondEnd_Deletes ==
    /\ Ticked
    /\ main = "responding"
    /\ results = <<>>
    /\ outcome' = "end"
    /\ main' = "closed"
    /\ handle' = IF handle = "open" THEN "closing" ELSE "undefined"
    /\ object' = "freed"
    /\ UNCHANGED <<worker, open, failed, shared, given, abortEnd>>

\* The queue is empty: the end is reported and the handle begins to close.
RespondEnd ==
    /\ Ticked
    /\ main = "responding"
    /\ results = <<>>
    /\ outcome' = "end"
    /\ main' = "closed"
    /\ handle' = IF handle = "open" THEN "closing" ELSE "undefined"
    /\ UNCHANGED <<worker, open, failed, shared, object, given, abortEnd>>

\* release_handle: the handle is closed, the command is deleted.
Release ==
    /\ Ticked
    /\ handle = "closing"
    /\ handle' = "closed"
    /\ object' = "freed"
    /\ UNCHANGED <<worker, main, open, failed, shared, stream>>

\* The application, between two callbacks or in one: stream.abort(), which schedules an end.
Abort ==
    /\ abortEnd = "none" /\ worker # "idle"
    /\ abortEnd' = "due"
    /\ UNCHANGED <<worker, main, open, failed, shared, handle, object, given, outcome>>

\* The stream emits the end abort() has scheduled; the query goes on.
AbortEnd ==
    /\ abortEnd = "due"
    /\ abortEnd' = "emitted"
    /\ UNCHANGED <<worker, main, open, failed, shared, handle, object, given, outcome>>

\* The application, between two callbacks or in one: client.close().
CloseClient ==
    /\ open
    /\ open' = FALSE
    /\ UNCHANGED <<worker, main, failed, shared, handle, object, stream>>

-------------------------------------------------------------------------------
Init ==
    /\ worker = "idle" /\ main = "loop"
    /\ open = TRUE /\ failed = FALSE
    /\ made = 0 /\ results = <<>> /\ interval = 0 /\ signalled = FALSE
    /\ handle = "none" /\ object = "none"
    /\ given = <<>> /\ outcome = "none"
    /\ abortEnd = "none"

WorkerStep == StartQuery \/ Populate \/ Awake \/ Push \/ EndQuery
MainStep ==
    \/ AsyncCallback \/ Process \/ Drained
    \/ Respond \/ RespondError \/ RespondEnd \/ Release
    \/ AbortEnd

Next ==
    \/ Prepare \/ PrepareFails
    \/ StartQuery \/ Populate \/ Awake \/ Push \/ EndQuery
    \/ AsyncCallback \/ Process \/ Drained
    \/ Respond \/ RespondError \/ RespondEnd \/ Release
    \/ Abort \/ AbortEnd \/ CloseClient

Spec == Init /\ [][Next]_vars

(***************************************************************************)
(* Both threads are scheduled; the query, being finite, returns.           *)
(***************************************************************************)
Fairness == WF_vars(WorkerStep) /\ WF_vars(MainStep)

FairSpec == Spec /\ Fairness

-------------------------------------------------------------------------------
(* Properties                                                              *)

\* Type correctness of every variable.
TypeOK ==
    /\ worker \in {"idle", "queued", "query", "holding", "sleeping", "returned"}
    /\ main \in {"loop", "draining", "responding", "closed"}
    /\ open \in BOOLEAN /\ failed \in BOOLEAN /\ signalled \in BOOLEAN
    /\ made \in Nat
    /\ interval \in 0 .. SignalEvery - 1
    /\ results \in Seq(Nat) /\ given \in Seq(Nat)
    /\ handle \in {"none", "open", "closing", "closed", "undefined"}
    /\ object \in {"none", "held", "freed"}
    /\ outcome \in {"none", "end", "error"}
    /\ abortEnd \in {"none", "due", "emitted"}

\* The results the stream gave and those in the queue are the results the query
\* made, in their order: none is lost, repeated or overtaken between the threads.
InOrder ==
    /\ made = Len(given) + Len(results)
    /\ \A i \in 1 .. Len(given) : given[i] = i
    /\ \A i \in 1 .. Len(results) : results[i] = Len(given) + i

\* The command object is there while a thread is in its callbacks or libuv may
\* still call one, and is deleted only behind respond().
ObjectInUse ==
    /\ worker \in {"queued", "query", "holding", "sleeping"} => object = "held"
    /\ main \in {"draining", "responding"} \/ handle \in {"open", "closing"} => object = "held"
    /\ object = "freed" => worker = "returned" /\ outcome # "none" /\ handle = "closed"

Delivery == INSTANCE ResultDelivery WITH done <- worker = "returned"

\* The two threads together implement the delivery of results the application relies on: in
\* order, each once, the end after the last; abort() adds an end of its own before the next.
ImplementsDelivery == Delivery!Spec

\* A query that was started ends or fails, and then its command is deleted, but
\* for one whose handle was never initialized.
Finishes ==
    worker # "idle" ~> outcome # "none" /\ (object = "freed" \/ handle = "undefined")
===============================================================================
