---------------------------- MODULE ClientLifecycle ----------------------------
(***************************************************************************)
(* Clients sharing the one event loop of the process.                      *)
(*                                                                         *)
(* Client.connect and Client.close (lib/client.js) keep a per-client flag  *)
(* and a process-wide counter of connected clients; lib/event_loop.js      *)
(* registers, references, unreferences and releases the libuv handles the  *)
(* C client needs; src/main/client.cc and src/main/aerospike.cc are the    *)
(* native halves.  Native connect is synchronous, but its outcome reaches  *)
(* the JavaScript state through the reactions of a promise, so application *)
(* code can run between the two.  An action is one run of JavaScript up to *)
(* the point where other code of the same turn may run: microtasks before  *)
(* timers and libuv callbacks.                                             *)
(***************************************************************************)
EXTENDS Integers, FiniteSets

CONSTANTS Clients,
          MaxConnects,        \* how often connect() is called on one client
          MaxCloses,          \* how often close() is called on one client
          ThrowingClients     \* clients whose connect callback may throw

ASSUME ClientsAssumption == IsFiniteSet(Clients)
ASSUME BoundsAssumption == MaxConnects \in Nat /\ MaxCloses \in Nat
ASSUME ThrowAssumption == ThrowingClients \subseteq Clients

VARIABLES
    connected,      \* connected[c]: the JavaScript flag this.connected
    thens,          \* thens[c]: queued .then reactions of connect()
    catches,        \* catches[c]: queued .catch reactions of connect()
    connects,       \* connects[c]: calls of connect() so far
    closes,         \* closes[c]: calls of close() so far
    settled,        \* settled[c]: close() was called since connect() settled
    cluster,        \* cluster[c]: the native client, see ClusterStates
    crashed,        \* the client whose second native close ended the process
    handles,        \* handles[c]: open uv_async handles for cluster events
    draining,       \* clusters closed by the application, still counted
    counter,        \* _connectedClients
    initialized,    \* _eventLoopInitialized
    released,       \* _eventLoopReleased
    referenced,     \* the wakeup handle of the event loop keeps node alive
    timers,         \* pending setTimeout(releaseEventLoop, 5)
    threw           \* the latest close() threw

client == <<connected, thens, catches, connects, closes, settled>>
native == <<cluster, crashed, handles, draining>>
loop   == <<initialized, released, referenced, timers>>
vars   == <<client, native, counter, loop, threw>>

ClusterStates == {"new", "open", "failed", "closed"}

\* No step is taken after the process has crashed.
Running == crashed = {}

-------------------------------------------------------------------------------
(* Event loop                                                              *)

\* What as_async_get_cluster_count counts.
Registered == {c \in Clients : cluster[c] = "open"} \cup draining

Microtasks == \E c \in Clients : thens[c] + catches[c] > 0

\* registerASEventLoop() when it does not throw: register once, then reference.
RegisterEventLoop ==
    /\ ~released
    /\ initialized' = TRUE
    /\ referenced' = TRUE
    /\ UNCHANGED <<released, timers>>

\* Slip: the cluster count is not asked.
ReleaseEventLoop_NoClusterCheck(counted) ==
    IF released
    THEN UNCHANGED loop
    ELSE released' = TRUE /\ referenced' = FALSE /\ UNCHANGED <<initialized, timers>>

\* releaseEventLoop(), with the clusters the C client counts at that moment.
ReleaseEventLoop(counted) ==
    \/ released /\ UNCHANGED loop
    \/ /\ ~released /\ counted # {}
       /\ timers' = timers + 1
       /\ UNCHANGED <<initialized, released, referenced>>
    \/ /\ ~released /\ counted = {}
       /\ released' = TRUE /\ referenced' = FALSE
       /\ UNCHANGED <<initialized, timers>>

\* unreferenceEventLoop() when it does not throw.
UnreferenceEventLoop ==
    /\ initialized /\ ~released
    /\ referenced' = FALSE
    /\ UNCHANGED <<initialized, released, timers>>

\* Slip: the timer is not set again when clusters are still closing.
ReleaseTimer_LooksOnce ==
    /\ Running
    /\ timers > 0
    /\ ~Microtasks
    /\ timers' = timers - 1
    /\ IF released \/ Registered # {}
       THEN UNCHANGED <<initialized, released, referenced>>
       ELSE released' = TRUE /\ referenced' = FALSE /\ UNCHANGED initialized
    /\ UNCHANGED <<client, native, counter, threw>>

\* The timer of releaseEventLoop(): it looks again, and waits again or releases.
ReleaseTimer ==
    /\ Running
    /\ timers > 0
    /\ ~Microtasks
    /\ \/ /\ released
          /\ timers' = timers - 1
          /\ UNCHANGED <<initialized, released, referenced>>
       \/ /\ ~released /\ Registered # {}
          /\ UNCHANGED loop
       \/ /\ ~released /\ Registered = {}
          /\ timers' = timers - 1 /\ released' = TRUE /\ referenced' = FALSE
          /\ UNCHANGED initialized
    /\ UNCHANGED <<client, native, counter, threw>>

-------------------------------------------------------------------------------
(* The native client                                                       *)

(***************************************************************************)
(* AerospikeClient::Close: the events handle that the configuration still  *)
(* knows is closed and the cluster begins to close; it is counted until    *)
(* its last connection is gone.  Closed again, the client reads what the   *)
(* first close freed, and events_callback_close writes through the handle  *)
(* that is no longer there: the process ends.                              *)
(***************************************************************************)
NativeClose(c) ==
    \/ /\ cluster[c] # "closed"
       /\ handles' = [handles EXCEPT ![c] = IF @ > 0 THEN @ - 1 ELSE 0]
       /\ draining' = IF cluster[c] = "open" THEN draining \cup {c} ELSE draining
       /\ cluster' = [cluster EXCEPT ![c] = "closed"]
       /\ UNCHANGED crashed
    \/ /\ cluster[c] = "closed"
       /\ crashed' = crashed \cup {c}
       /\ UNCHANGED <<cluster, handles, draining>>

\* The C client has closed the last connection of a cluster.
Drained(c) ==
    /\ Running
    /\ c \in draining
    /\ ~Microtasks
    /\ draining' = draining \ {c}
    /\ UNCHANGED <<client, cluster, crashed, handles, counter, loop, threw>>

-------------------------------------------------------------------------------
(* Client.connect                                                          *)

(***************************************************************************)
(* The event loop is registered or referenced, the events handle made and  *)
(* the native connect runs to its end; its outcome is a queued reaction.   *)
(* On a client that is connected already the native connect succeeds.      *)
(***************************************************************************)
Connect(c) ==
    /\ Running
    /\ connects[c] < MaxConnects
    /\ cluster[c] \in {"new", "open"}
    /\ catches[c] = 0
    /\ RegisterEventLoop
    /\ connects' = [connects EXCEPT ![c] = @ + 1]
    /\ settled' = [settled EXCEPT ![c] = FALSE]
    /\ handles' = [handles EXCEPT ![c] = @ + 1]
    /\ \/ /\ cluster' = [cluster EXCEPT ![c] = "open"]
          /\ thens' = [thens EXCEPT ![c] = @ + 1]
          /\ UNCHANGED catches
       \/ /\ cluster[c] = "new"
          /\ cluster' = [cluster EXCEPT ![c] = "failed"]
          /\ catches' = [catches EXCEPT ![c] = @ + 1]
          /\ UNCHANGED thens
    /\ UNCHANGED <<connected, closes, crashed, draining, counter, threw>>

\* connect() after the release throws, before it does anything.
ConnectRefused(c) ==
    /\ Running
    /\ connects[c] < MaxConnects
    /\ cluster[c] = "new"
    /\ released
    /\ connects' = [connects EXCEPT ![c] = @ + 1]
    /\ UNCHANGED <<connected, thens, catches, closes, settled, native, counter, loop, threw>>

\* Slip: the counter is not increased.
OnConnected_NotCounted(c) ==
    /\ Running
    /\ thens[c] > 0
    /\ thens' = [thens EXCEPT ![c] = @ - 1]
    /\ connected' = [connected EXCEPT ![c] = TRUE]
    /\ catches' = catches
    /\ UNCHANGED <<connects, closes, settled, native, counter, loop, threw>>

(***************************************************************************)
(* The .then reaction: the client counts as connected and its callback is  *)
(* called; an error thrown by the callback rejects the promise the .catch  *)
(* reaction is waiting for.                                                *)
(***************************************************************************)
OnConnected(c) ==
    /\ Running
    /\ thens[c] > 0
    /\ thens' = [thens EXCEPT ![c] = @ - 1]
    /\ connected' = [connected EXCEPT ![c] = TRUE]
    /\ counter' = counter + 1
    /\ \/ catches' = catches
       \/ c \in ThrowingClients /\ catches' = [catches EXCEPT ![c] = @ + 1]
    /\ UNCHANGED <<connects, closes, settled, native, loop, threw>>

\* Slip: the native client of a failed connect is not closed.
OnConnectError_NoNativeClose(c) ==
    /\ Running
    /\ catches[c] > 0
    /\ catches' = [catches EXCEPT ![c] = @ - 1]
    /\ UNCHANGED <<connected, thens, connects, closes, settled, native, counter, loop, threw>>

\* The .catch reaction: the native client is closed, the flag is left alone.
OnConnectError(c) ==
    /\ Running
    /\ catches[c] > 0
    /\ catches' = [catches EXCEPT ![c] = @ - 1]
    /\ NativeClose(c)
    /\ UNCHANGED <<connected, thens, connects, closes, settled, counter, loop, threw>>

-------------------------------------------------------------------------------
(* Client.close                                                            *)

\* Slip: close() does not look whether the client is connected.
CloseClient_Always(c) ==
    /\ NativeClose(c)
    /\ connected' = [connected EXCEPT ![c] = FALSE]
    /\ counter' = counter - 1

\* The first half of close(): a connected client is closed and counted out, if the
\* process is there to do it.
CloseClient(c) ==
    \/ /\ connected[c]
       /\ NativeClose(c)
       /\ IF crashed' = {}
          THEN /\ connected' = [connected EXCEPT ![c] = FALSE]
               /\ counter' = counter - 1
          ELSE UNCHANGED <<connected, counter>>
    \/ /\ ~connected[c]
       /\ UNCHANGED <<connected, native, counter>>

\* The second half: what happens to the event loop when nobody is connected.
LeaveLoop(releaseEventLoop) ==
    IF counter' # 0
    THEN threw' = FALSE /\ UNCHANGED loop
    ELSE IF releaseEventLoop
    THEN threw' = FALSE /\ ReleaseEventLoop(Registered')
    ELSE \/ threw' = FALSE /\ UnreferenceEventLoop
         \/ threw' = TRUE /\ (~initialized \/ released) /\ UNCHANGED loop

(***************************************************************************)
(* close(releaseEventLoop): any number of times, also while a connect() is *)
(* being settled.                                                          *)
(***************************************************************************)
Close(c, releaseEventLoop) ==
    /\ Running
    /\ closes[c] < MaxCloses
    /\ CloseClient(c)
    /\ \/ /\ crashed' = {}
          /\ closes' = [closes EXCEPT ![c] = @ + 1]
          /\ settled' = [settled EXCEPT ![c] = connects[c] > 0 /\ thens[c] + catches[c] = 0]
          /\ LeaveLoop(releaseEventLoop)
       \/ /\ crashed' # {}
          /\ UNCHANGED <<closes, settled, loop, threw>>
    /\ UNCHANGED <<thens, catches, connects>>

-------------------------------------------------------------------------------
Init ==
    /\ connected = [c \in Clients |-> FALSE]
    /\ thens = [c \in Clients |-> 0]
    /\ catches = [c \in Clients |-> 0]
    /\ connects = [c \in Clients |-> 0]
    /\ closes = [c \in Clients |-> 0]
    /\ settled = [c \in Clients |-> FALSE]
    /\ cluster = [c \in Clients |-> "new"]
    /\ crashed = {}
    /\ handles = [c \in Clients |-> 0]
    /\ draining = {}
    /\ counter = 0
    /\ initialized = FALSE
    /\ released = FALSE
    /\ referenced = FALSE
    /\ timers = 0
    /\ threw = FALSE

Next ==
    \/ \E c \in Clients :
          \/ Connect(c) \/ ConnectRefused(c)
          \/ OnConnected(c) \/ OnConnectError(c)
          \/ \E release \in BOOLEAN : Close(c, release)
          \/ Drained(c)
    \/ ReleaseTimer

(***************************************************************************)
(* Node runs every queued microtask and every expired timer, and the C     *)
(* client closes its connections; nothing makes the application call.      *)
(***************************************************************************)
Fairness ==
    /\ \A c \in Clients : WF_vars(OnConnected(c)) /\ WF_vars(OnConnectError(c))
                          /\ WF_vars(Drained(c))
    /\ WF_vars(ReleaseTimer)

Spec == Init /\ [][Next]_vars

FairSpec == Spec /\ Fairness

-------------------------------------------------------------------------------
(* Properties                                                              *)

\* The type of every variable.
TypeOK ==
    /\ connected \in [Clients -> BOOLEAN]
    /\ thens \in [Clients -> Nat] /\ catches \in [Clients -> Nat]
    /\ connects \in [Clients -> Nat] /\ closes \in [Clients -> Nat]
    /\ settled \in [Clients -> BOOLEAN]
    /\ cluster \in [Clients -> ClusterStates]
    /\ handles \in [Clients -> Nat]
    /\ crashed \subseteq Clients /\ draining \subseteq Clients
    /\ counter \in Nat /\ timers \in Nat
    /\ initialized \in BOOLEAN /\ released \in BOOLEAN
    /\ referenced \in BOOLEAN /\ threw \in BOOLEAN

(***************************************************************************)
(* The counter that decides when the last client has gone is the number of *)
(* clients whose flag says connected, whatever order connects, failures,   *)
(* callbacks that throw and repeated closes come in (one connect() per     *)
(* client).                                                                *)
(***************************************************************************)
CounterMatches == counter = Cardinality({c \in Clients : connected[c]})

(***************************************************************************)
(* A client that says it is connected has an open native client, and no    *)
(* native client is closed twice, which would end the process: whatever    *)
(* order failed connects, their reactions and repeated closes come in.  A  *)
(* connect callback that throws spoils this, for its own client and no     *)
(* other.                                                                  *)
(***************************************************************************)
NativeMatches ==
    /\ \A c \in Clients \ ThrowingClients : connected[c] => cluster[c] = "open"
    /\ crashed \subseteq ThrowingClients

(***************************************************************************)
(* The event loop is released only once no native cluster can use it, and  *)
(* none can begin to use it afterwards.                                    *)
(***************************************************************************)
ReleasedMeansUnused == released => Registered = {}

(***************************************************************************)
(* Node can exit once the application has closed every client whose        *)
(* connect() was settled, failed ones included: the loop is unreferenced,  *)
(* or a timer is about to release it, and no events handle is left open.   *)
(* test/client.js:79 "should allow exit when all clients are closed".  A   *)
(* client whose connect callback threw cannot be closed (the close() ends  *)
(* the process), is never settled here and holds the loop.                 *)
(***************************************************************************)
ExitAllowed ==
    ((\A c \in Clients : connects[c] > 0 /\ cluster[c] # "new" => settled[c])
        => /\ ~referenced \/ timers > 0
           /\ \A c \in Clients : handles[c] = 0)

(***************************************************************************)
(* A release that was asked for happens once the clusters are closed for   *)
(* good, even when other clients connected and closed in between, unless   *)
(* the process crashes first.                                              *)
(***************************************************************************)
ReleaseHappens == <>[](Registered = {}) => (timers > 0 ~> released \/ ~Running)

(***************************************************************************)
(* lib/event_loop.js:60-63 says that with several clients the event loop   *)
(* resources "will be managed automatically, as long as at least once      *)
(* client instance is active at any given time".                           *)
(***************************************************************************)
ActiveClientKeepsLoop == (\E c \in Clients : connected[c]) => referenced
===============================================================================
