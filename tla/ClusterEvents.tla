----------------------------- MODULE ClusterEvents -----------------------------
(***************************************************************************)
(* Cluster events from the tend thread to the application:                 *)
(* src/main/events.cc with AerospikeClient::SetupEventCb and Close.        *)
(*                                                                         *)
(* The C client calls cluster_event_callback on its tend thread when a     *)
(* node comes or goes; the callback pushes the event into a queue and      *)
(* signals the main thread, whose cluster_event_async pops every event and *)
(* calls the client's event handlers.  AerospikeClient::Close detaches the *)
(* queue, closes the signal handle and then lets the C client stop its     *)
(* tend thread; a handler may call it.  An action is one access of a       *)
(* thread to what they share.                                              *)
(*                                                                         *)
(* External: the cluster keeps the user data it was connected with, the    *)
(* signals of a handle are merged, and aerospike_close waits for the tend  *)
(* thread.                                                                 *)
(***************************************************************************)
EXTENDS Naturals, Sequences

CONSTANT MaxEvents  \* bound: events the cluster raises

ASSUME EventsAssumption == MaxEvents \in Nat

VARIABLES
    tend,       \* the tend thread: see Tends
    closing,    \* AerospikeClient::Close: "no", "waiting" for the tend thread, "done"
    processing, \* the main thread is in EventQueue::process
    data,       \* handle->data is the queue, not NULL
    handle,     \* the uv_async_t: "none", "open", "closing", "freed"
    queue,      \* the EventQueue object: "none", "alive"
    log,        \* client->log: "alive", "freed"
    raised,     \* events raised so far; an event is its number
    events,     \* EventQueue::events
    signalled,  \* an uv_async_send is pending
    emitted     \* the events the client has emitted

main == <<closing, processing, emitted>>
memory == <<data, handle, queue, log>>
vars == <<tend, main, memory, raised, events, signalled>>

(***************************************************************************)
(* "none" before and after its life, "idle" in the C client, "attached"    *)
(* with a queue that was found attached, "pushed" before the signal,       *)
(* "crashed" through a NULL queue.                                         *)
(***************************************************************************)
Tends == {"none", "idle", "attached", "pushed", "crashed"}

Running == tend # "crashed" /\ closing # "waiting"
Free == Running /\ ~processing

-------------------------------------------------------------------------------
(* The main thread: connecting                                             *)

\* SetupEventCb and Connect; a failed connect leaves no tend thread.
Connect ==
    /\ Free
    /\ handle = "none"
    /\ handle' = "open" /\ data' = TRUE /\ queue' = "alive"
    /\ tend' \in {"idle", "none"}
    /\ UNCHANGED <<main, log, raised, events, signalled>>

-------------------------------------------------------------------------------
(* The tend thread: cluster_event_callback                                 *)

\* An event is raised; it goes no further once handle->data is NULL.
Raise ==
    /\ tend = "idle"
    /\ raised < MaxEvents
    /\ raised' = raised + 1
    /\ tend' = IF data THEN "attached" ELSE "idle"
    /\ UNCHANGED <<main, memory, events, signalled>>

\* Slip: the initial capacity of the queue is taken for a limit.
Push_Bounded ==
    /\ tend = "attached"
    /\ tend' = "pushed"
    /\ events' = IF Len(events) = 1 THEN events ELSE Append(events, raised)
    /\ UNCHANGED <<main, memory, raised, signalled>>

\* The event is pushed into the queue handle->data pointed to when it was tested.
Push ==
    /\ tend = "attached"
    /\ tend' = "pushed"
    /\ events' = Append(events, raised)
    /\ UNCHANGED <<main, memory, raised, signalled>>

\* handle->data is not atomic: a build that reads it again finds what Close put there.
PushIntoNull ==
    /\ tend = "attached"
    /\ ~data
    /\ tend' = "crashed"
    /\ UNCHANGED <<main, memory, raised, events, signalled>>

\* uv_async_send, which does nothing for a handle that is closing.
Signal ==
    /\ tend = "pushed"
    /\ tend' = "idle"
    /\ signalled' = (signalled \/ handle = "open")
    /\ UNCHANGED <<main, memory, raised, events>>

-------------------------------------------------------------------------------
(* The main thread: cluster_event_async                                    *)

\* A pending signal; the handle is open, so its queue is attached.
AsyncCallback ==
    /\ Free
    /\ handle = "open" /\ signalled
    /\ signalled' = FALSE
    /\ processing' = data
    /\ UNCHANGED <<tend, memory, raised, events, closing, emitted>>

\* Slip: one event for each signal.
Process_One ==
    /\ Running
    /\ processing /\ events # <<>>
    /\ events' = Tail(events)
    /\ emitted' = Append(emitted, Head(events))
    /\ processing' = FALSE
    /\ UNCHANGED <<tend, memory, raised, signalled, closing>>

\* EventQueue::process pops an event and calls the handlers of the client.
Process ==
    /\ Running
    /\ processing /\ events # <<>>
    /\ events' = Tail(events)
    /\ emitted' = Append(emitted, Head(events))
    /\ UNCHANGED <<tend, memory, raised, signalled, closing, processing>>

\* It finds the queue empty.
Processed ==
    /\ Running
    /\ processing /\ events = <<>>
    /\ processing' = FALSE
    /\ UNCHANGED <<tend, memory, raised, events, signalled, closing, emitted>>

-------------------------------------------------------------------------------
(* The main thread: AerospikeClient::Close, from a handler or elsewhere    *)

\* Slip: the queue is deleted at once (events_callback_close had such a line).
DetachQueue_Deletes ==
    /\ Running
    /\ closing = "no" /\ handle = "open"
    /\ closing' = "waiting"
    /\ data' = FALSE
    /\ handle' = "closing"
    /\ queue' = "deleted"
    /\ UNCHANGED <<tend, processing, emitted, log, raised, events, signalled>>

\* Slip: the handle is forgotten, not closed.
DetachQueue_NoClose ==
    /\ Running
    /\ closing = "no" /\ handle = "open"
    /\ closing' = "waiting"
    /\ data' = FALSE
    /\ UNCHANGED <<tend, processing, emitted, handle, queue, log, raised, events, signalled>>

\* events_callback_close: the queue is detached, and left to the leak its
\* other users need; uv_close is called.
DetachQueue ==
    /\ Running
    /\ closing = "no" /\ handle = "open"
    /\ closing' = "waiting"
    /\ data' = FALSE
    /\ handle' = "closing"
    /\ UNCHANGED <<tend, processing, emitted, queue, log, raised, events, signalled>>

\* aerospike_close returns when the tend thread has; the log is freed.
CloseCluster ==
    /\ closing = "waiting"
    /\ tend \in {"idle", "none"}
    /\ closing' = "done"
    /\ tend' = "none"
    /\ log' = "freed"
    /\ UNCHANGED <<processing, emitted, data, handle, queue, raised, events, signalled>>

\* events_async_close, when the main thread is back in its loop.
HandleClosed ==
    /\ Free
    /\ handle = "closing"
    /\ handle' = "freed"
    /\ UNCHANGED <<tend, main, data, queue, log, raised, events, signalled>>

-------------------------------------------------------------------------------
Init ==
    /\ tend = "none"
    /\ closing = "no" /\ processing = FALSE /\ emitted = <<>>
    /\ data = FALSE /\ handle = "none" /\ queue = "none" /\ log = "alive"
    /\ raised = 0 /\ events = <<>> /\ signalled = FALSE

TendStep == Push \/ Signal
MainStep == AsyncCallback \/ Process \/ Processed \/ CloseCluster \/ HandleClosed

Next ==
    \/ Connect
    \/ Raise \/ Push \/ PushIntoNull \/ Signal
    \/ AsyncCallback \/ Process \/ Processed
    \/ DetachQueue \/ CloseCluster \/ HandleClosed

Spec == Init /\ [][Next]_vars

(***************************************************************************)
(* Both threads are scheduled; nothing makes nodes come and go or the      *)
(* application close its client.                                           *)
(***************************************************************************)
FairSpec == Spec /\ WF_vars(TendStep) /\ WF_vars(MainStep)

-------------------------------------------------------------------------------
(* Properties                                                              *)

\* Type correctness of every variable; the queue is never deleted.
TypeOK ==
    /\ tend \in Tends
    /\ closing \in {"no", "waiting", "done"}
    /\ processing \in BOOLEAN /\ data \in BOOLEAN /\ signalled \in BOOLEAN
    /\ handle \in {"none", "open", "closing", "freed"}
    /\ queue \in {"none", "alive"}
    /\ log \in {"alive", "freed"}
    /\ raised \in 0 .. MaxEvents
    /\ events \in Seq(1 .. MaxEvents) /\ emitted \in Seq(1 .. MaxEvents)

\* What a thread is about to use is still there, however Close comes between
\* its steps: handle, queue and log for the tend thread, the queue for process().
MemoryInUse ==
    /\ tend \in {"attached", "pushed"} => handle \in {"open", "closing"}
    /\ tend = "attached" => queue = "alive" /\ log = "alive"
    /\ processing => queue = "alive"

\* The events raised and not given up by Close are emitted in their order, each
\* once: emitted and queued events together are the first ones raised.
NoneLost ==
    /\ \A i \in 1 .. Len(emitted) : emitted[i] = i
    /\ \A i \in 1 .. Len(events) : events[i] = Len(emitted) + i
    /\ tend = "attached" => Len(emitted) + Len(events) + 1 = raised
    /\ data /\ tend # "attached" => Len(emitted) + Len(events) = raised

\* A queued event is emitted, unless the client is closed first: no signal is
\* merged away with an event nobody looks for.
EventsAreEmitted == events # <<>> ~> events = <<>> \/ closing # "no"

\* A closed client keeps no open handle, so node can exit (test/client.js).
HandleIsReleased == closing # "no" ~> handle = "freed" \/ tend = "crashed"
===============================================================================
