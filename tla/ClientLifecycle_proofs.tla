------------------------ MODULE ClientLifecycle_proofs ------------------------
(***************************************************************************)
(* The safety of the client life cycle for every number of clients and of  *)
(* closes, whichever connect callbacks throw.  Some of it holds however    *)
(* often connect() is called on a client.  The rest needs the assumption   *)
(* stated with it, that it is called once: a second connect() counts the   *)
(* client twice and leaves an events handle behind.                        *)
(***************************************************************************)
EXTENDS ClientLifecycle, FiniteSetTheorems, TLAPS

ConnectedClients == {c \in Clients : connected[c]}

(***************************************************************************)
(* The counter is never short of a connected client, so that close() never *)
(* tidies up while one is left.                                            *)
(***************************************************************************)
CounterCovers == Cardinality(ConnectedClients) <= counter

\* The inductive invariant for any number of calls of connect().
GeneralInv == TypeOK /\ CounterCovers /\ ReleasedMeansUnused

-------------------------------------------------------------------------------
(* The counter                                                             *)

LEMMA ConnectedFinite == IsFiniteSet(ConnectedClients) /\ Cardinality(ConnectedClients) \in Nat
  <1>1. ConnectedClients \subseteq Clients
    BY DEF ConnectedClients
  <1>2. IsFiniteSet(ConnectedClients)
    BY <1>1, ClientsAssumption, FS_Subset
  <1> QED BY <1>2, FS_CardinalityType

\* Setting a flag makes at most one more connected client, one if it was clear.
LEMMA OneMore ==
    ASSUME TypeOK, NEW c \in Clients, connected' = [connected EXCEPT ![c] = TRUE]
    PROVE  LET n == Cardinality(ConnectedClients)
           IN  Cardinality(ConnectedClients)' = IF connected[c] THEN n ELSE n + 1
  <1>1. ConnectedClients' = ConnectedClients \cup {c}
    BY DEF ConnectedClients, TypeOK
  <1>2. c \in ConnectedClients <=> connected[c]
    BY DEF ConnectedClients
  <1> QED BY <1>1, <1>2, ConnectedFinite, FS_AddElement

\* Clearing a flag that is set makes one less.
LEMMA OneLess ==
    ASSUME TypeOK, NEW c \in Clients, connected[c],
           connected' = [connected EXCEPT ![c] = FALSE]
    PROVE  /\ Cardinality(ConnectedClients)' = Cardinality(ConnectedClients) - 1
           /\ Cardinality(ConnectedClients)' \in Nat
  <1>1. ConnectedClients' = ConnectedClients \ {c} /\ c \in ConnectedClients
    BY DEF ConnectedClients, TypeOK
  <1>2. Cardinality(ConnectedClients \ {c}) = Cardinality(ConnectedClients) - 1
    BY <1>1, ConnectedFinite, FS_RemoveElement
  <1>3. Cardinality(ConnectedClients \ {c}) \in Nat
    BY ConnectedFinite, FS_RemoveElement, FS_CardinalityType
  <1> QED BY <1>1, <1>2, <1>3

-------------------------------------------------------------------------------
(* However often connect() is called                                       *)

LEMMA InitGeneral == Init => GeneralInv
  <1> SUFFICES ASSUME Init PROVE GeneralInv
    OBVIOUS
  <1>1. TypeOK
    BY DEF Init, TypeOK, ClusterStates
  <1>2. CounterCovers
    <2>1. ConnectedClients = {}
      BY DEF Init, ConnectedClients
    <2> QED BY <2>1, FS_EmptySet DEF Init, CounterCovers
  <1> QED BY <1>1, <1>2 DEF Init, GeneralInv, ReleasedMeansUnused

\* Closing a native client leaves its cluster registered, and opens none.
LEMMA NativeCloseTypes ==
    ASSUME TypeOK, NEW c \in Clients, NativeClose(c)
    PROVE  /\ cluster' \in [Clients -> ClusterStates] /\ draining' \subseteq Clients
           /\ crashed' \subseteq Clients /\ handles' \in [Clients -> Nat]
           /\ Registered' = Registered
  <1>1. cluster' \in [Clients -> ClusterStates] /\ draining' \subseteq Clients
    BY DEF TypeOK, NativeClose, ClusterStates
  <1>2. crashed' \subseteq Clients
    BY DEF TypeOK, NativeClose
  <1>3. handles' \in [Clients -> Nat]
    <2>1. (IF handles[c] > 0 THEN handles[c] - 1 ELSE 0) \in Nat
      BY DEF TypeOK
    <2> QED BY <2>1 DEF TypeOK, NativeClose
  <1>4. Registered' = Registered
    BY DEF TypeOK, NativeClose, Registered
  <1> QED BY <1>1, <1>2, <1>3, <1>4

LEMMA ConnectGeneral ==
    ASSUME GeneralInv, NEW c \in Clients, Connect(c) \/ ConnectRefused(c)
    PROVE  GeneralInv'
  <1> USE DEF GeneralInv
  <1>1. CASE Connect(c)
    <2>1. TypeOK'
      BY <1>1 DEF TypeOK, Connect, RegisterEventLoop, ClusterStates
    <2>2. CounterCovers'
      BY <1>1 DEF CounterCovers, ConnectedClients, Connect
    <2>3. ReleasedMeansUnused'
      BY <1>1 DEF Connect, RegisterEventLoop, ReleasedMeansUnused
    <2> QED BY <2>1, <2>2, <2>3
  <1>2. CASE ConnectRefused(c)
    <2>1. UNCHANGED <<connected, thens, catches, closes, settled, cluster, crashed, handles,
                      draining, counter, initialized, released, referenced, timers, threw>>
      BY <1>2 DEF ConnectRefused, native, loop
    <2>2. TypeOK'
      BY <1>2, <2>1 DEF TypeOK, ConnectRefused
    <2> QED BY <2>1, <2>2 DEF CounterCovers, ConnectedClients, ReleasedMeansUnused, Registered
  <1> QED BY <1>1, <1>2

LEMMA OnConnectedGeneral ==
    ASSUME GeneralInv, NEW c \in Clients, OnConnected(c)
    PROVE  GeneralInv'
  <1> USE DEF GeneralInv
  <1>1. UNCHANGED <<connects, closes, settled, cluster, crashed, handles,
                    draining, initialized, released, referenced, timers, threw>>
    BY DEF OnConnected, native, loop
  <1>2. CounterCovers'
    <2>1. connected' = [connected EXCEPT ![c] = TRUE] /\ counter' = counter + 1 /\ counter \in Nat
      BY DEF OnConnected, TypeOK
    <2>2. Cardinality(ConnectedClients)' \in {Cardinality(ConnectedClients),
                                              Cardinality(ConnectedClients) + 1}
      BY <2>1, OneMore
    <2> QED BY <2>1, <2>2, ConnectedFinite DEF CounterCovers
  <1>3. TypeOK'
    <2>1. thens' \in [Clients -> Nat]
      BY DEF TypeOK, OnConnected
    <2>2. catches' \in [Clients -> Nat] /\ connected' \in [Clients -> BOOLEAN] /\ counter' \in Nat
      BY DEF TypeOK, OnConnected
    <2> QED BY <1>1, <2>1, <2>2 DEF TypeOK
  <1> QED BY <1>1, <1>2, <1>3 DEF ReleasedMeansUnused, Registered

LEMMA OnConnectErrorGeneral ==
    ASSUME GeneralInv, NEW c \in Clients, OnConnectError(c)
    PROVE  GeneralInv'
  <1> USE DEF GeneralInv
  <1>1. UNCHANGED <<connected, thens, connects, closes, settled, counter,
                    initialized, released, referenced, timers, threw>>
    BY DEF OnConnectError, loop
  <1>2. catches' \in [Clients -> Nat]
    BY DEF TypeOK, OnConnectError
  <1>3. /\ cluster' \in [Clients -> ClusterStates] /\ draining' \subseteq Clients
        /\ crashed' \subseteq Clients /\ handles' \in [Clients -> Nat]
        /\ Registered' = Registered
    BY NativeCloseTypes DEF OnConnectError
  <1>4. TypeOK'
    BY <1>1, <1>2, <1>3 DEF TypeOK
  <1> QED BY <1>1, <1>3, <1>4 DEF CounterCovers, ConnectedClients, ReleasedMeansUnused

\* What closing the client does, before the event loop is looked at.
LEMMA CloseClientGeneral ==
    ASSUME GeneralInv, NEW c \in Clients, CloseClient(c)
    PROVE  /\ connected' \in [Clients -> BOOLEAN] /\ counter' \in Nat
           /\ cluster' \in [Clients -> ClusterStates] /\ draining' \subseteq Clients
           /\ crashed' \subseteq Clients /\ handles' \in [Clients -> Nat]
           /\ CounterCovers'
           /\ Registered' = Registered
  <1> USE DEF GeneralInv
  <1>1. CASE connected[c]
    <2>1. NativeClose(c)
      BY <1>1 DEF CloseClient
    <2>2. CASE crashed' = {}
      <3>1. connected' = [connected EXCEPT ![c] = FALSE] /\ counter' = counter - 1
        BY <1>1, <2>2 DEF CloseClient
      <3>2. /\ Cardinality(ConnectedClients)' = Cardinality(ConnectedClients) - 1
            /\ Cardinality(ConnectedClients)' \in Nat
        BY <1>1, <3>1, OneLess
      <3>3. CounterCovers' /\ counter' \in Nat
        BY <3>1, <3>2, ConnectedFinite DEF CounterCovers, TypeOK
      <3>4. connected' \in [Clients -> BOOLEAN]
        BY <3>1 DEF TypeOK
      <3> QED BY <2>1, <3>3, <3>4, NativeCloseTypes
    <2>3. CASE crashed' # {}
      <3>1. UNCHANGED <<connected, counter>>
        BY <1>1, <2>3 DEF CloseClient
      <3>2. CounterCovers'
        BY <3>1 DEF CounterCovers, ConnectedClients
      <3> QED BY <2>1, <3>1, <3>2, NativeCloseTypes DEF TypeOK
    <2> QED BY <2>2, <2>3
  <1>2. CASE ~connected[c]
    <2>1. UNCHANGED <<connected, cluster, crashed, handles, draining, counter>>
      BY <1>2 DEF CloseClient, native
    <2> QED BY <2>1 DEF TypeOK, CounterCovers, ConnectedClients, Registered
  <1> QED BY <1>1, <1>2

LEMMA CloseGeneral ==
    ASSUME GeneralInv, NEW c \in Clients, NEW r \in BOOLEAN, Close(c, r)
    PROVE  GeneralInv'
  <1> USE DEF GeneralInv
  <1>1. /\ connected' \in [Clients -> BOOLEAN] /\ counter' \in Nat
        /\ cluster' \in [Clients -> ClusterStates] /\ draining' \subseteq Clients
        /\ crashed' \subseteq Clients /\ handles' \in [Clients -> Nat]
        /\ CounterCovers'
        /\ Registered' = Registered
    BY CloseClientGeneral DEF Close
  <1>2. TypeOK'
    <2>1. /\ thens' \in [Clients -> Nat] /\ catches' \in [Clients -> Nat]
          /\ connects' \in [Clients -> Nat] /\ closes' \in [Clients -> Nat]
          /\ settled' \in [Clients -> BOOLEAN]
      <3>1. /\ thens' \in [Clients -> Nat] /\ catches' \in [Clients -> Nat]
            /\ connects' \in [Clients -> Nat]
        BY DEF TypeOK, Close
      <3>2. closes' \in [Clients -> Nat]
        BY DEF TypeOK, Close
      <3>3. settled' \in [Clients -> BOOLEAN]
        BY DEF TypeOK, Close
      <3> QED BY <3>1, <3>2, <3>3
    <2>2. timers' \in Nat
      BY DEF TypeOK, Close, LeaveLoop, ReleaseEventLoop, UnreferenceEventLoop, loop
    <2>3. /\ initialized' \in BOOLEAN /\ released' \in BOOLEAN
          /\ referenced' \in BOOLEAN /\ threw' \in BOOLEAN
      BY DEF TypeOK, Close, LeaveLoop, ReleaseEventLoop, UnreferenceEventLoop, loop
    <2> QED BY <1>1, <2>1, <2>2, <2>3 DEF TypeOK
  <1>3. ReleasedMeansUnused'
    BY <1>1 DEF ReleasedMeansUnused, Close, LeaveLoop, ReleaseEventLoop,
                UnreferenceEventLoop, loop
  <1> QED BY <1>1, <1>2, <1>3

LEMMA DrainedGeneral ==
    ASSUME GeneralInv, NEW c \in Clients, Drained(c)
    PROVE  GeneralInv'
  <1>1. UNCHANGED <<connected, thens, catches, connects, closes, settled, cluster,
                    crashed, handles, counter, initialized, released, referenced,
                    timers, threw>>
    BY DEF Drained, client, loop
  <1> QED BY <1>1 DEF GeneralInv, TypeOK, CounterCovers, ConnectedClients, ReleasedMeansUnused,
                      Registered, Drained

LEMMA ReleaseTimerGeneral ==
    ASSUME GeneralInv, ReleaseTimer
    PROVE  GeneralInv'
  <1>1. UNCHANGED <<connected, thens, catches, connects, closes, settled, cluster,
                    crashed, handles, draining, counter, initialized, threw>>
    BY DEF ReleaseTimer, client, native, loop
  <1>2. timers' \in Nat
    BY DEF GeneralInv, TypeOK, ReleaseTimer, loop
  <1>3. released' \in BOOLEAN /\ referenced' \in BOOLEAN
    BY DEF GeneralInv, TypeOK, ReleaseTimer, loop
  <1>4. TypeOK'
    BY <1>1, <1>2, <1>3 DEF GeneralInv, TypeOK, ClusterStates
  <1>5. ReleasedMeansUnused'
    BY <1>1 DEF GeneralInv, ReleasedMeansUnused, Registered, ReleaseTimer, loop
  <1> QED BY <1>1, <1>4, <1>5 DEF GeneralInv, CounterCovers, ConnectedClients

LEMMA StepGeneral == GeneralInv /\ [Next]_vars => GeneralInv'
  <1> SUFFICES ASSUME GeneralInv, [Next]_vars PROVE GeneralInv'
    OBVIOUS
  <1>1. CASE UNCHANGED vars
    BY <1>1 DEF vars, client, native, loop, GeneralInv, TypeOK, CounterCovers, ConnectedClients,
                ReleasedMeansUnused, Registered
  <1> QED BY <1>1, ConnectGeneral, OnConnectedGeneral, OnConnectErrorGeneral, CloseGeneral,
             DrainedGeneral, ReleaseTimerGeneral DEF Next

LEMMA General == Spec => []GeneralInv
BY InitGeneral, StepGeneral, PTL DEF Spec

-------------------------------------------------------------------------------
(***************************************************************************)
(* The event loop is released only when no cluster is registered with it,  *)
(* and no connect registers one afterwards.                                *)
(***************************************************************************)
THEOREM ReleaseIsSafe == Spec => []ReleasedMeansUnused
  <1>1. GeneralInv => ReleasedMeansUnused
    BY DEF GeneralInv
  <1> QED BY <1>1, General, PTL

(***************************************************************************)
(* Type correctness, and the counter that close() and the release of the   *)
(* event loop go by (lib/client.js:1920) never misses a connected client.  *)
(***************************************************************************)
THEOREM NobodyIsMissed == Spec => [](TypeOK /\ CounterCovers)
  <1>1. GeneralInv => TypeOK /\ CounterCovers
    BY DEF GeneralInv
  <1> QED BY <1>1, General, PTL

(***************************************************************************)
(* No step that lets go of the event loop, be it a close() or the timer of *)
(* a release, leaves behind a client that says it is connected and is:     *)
(* what the finding client_active_loop shows takes a connect() whose       *)
(* reaction is still queued.                                               *)
(***************************************************************************)
LoopIsLeftByAll ==
    [][referenced /\ ~referenced' =>
          \A c \in Clients : ~(connected'[c] /\ cluster'[c] = "open")]_vars

THEOREM LoopIsKept == Spec => LoopIsLeftByAll
  <1> DEFINE Left == referenced /\ ~referenced' =>
                         \A c \in Clients : ~(connected'[c] /\ cluster'[c] = "open")
  <1>1. GeneralInv /\ GeneralInv' /\ [Next]_vars => Left
    <2> SUFFICES ASSUME GeneralInv, GeneralInv', [Next]_vars, referenced, ~referenced',
                        NEW c \in Clients
                 PROVE  ~(connected'[c] /\ cluster'[c] = "open")
      OBVIOUS
    <2>1. ASSUME NEW d \in Clients, NEW r \in BOOLEAN, Close(d, r)
          PROVE  ~connected'[c]
      <3>1. counter' = 0
        BY <2>1 DEF Close, LeaveLoop, loop
      <3>2. Cardinality(ConnectedClients)' = 0
        <4>1. Cardinality(ConnectedClients') \in Nat
          <5>1. ConnectedClients' \subseteq Clients
            BY DEF ConnectedClients
          <5> QED BY <5>1, ClientsAssumption, FS_Subset, FS_CardinalityType
        <4> QED BY <3>1, <4>1 DEF GeneralInv, CounterCovers
      <3>3. ConnectedClients' = {}
        <4>1. ConnectedClients' \subseteq Clients
          BY DEF ConnectedClients
        <4> QED BY <3>2, <4>1, ClientsAssumption, FS_Subset, FS_EmptySet
      <3> QED BY <3>3 DEF ConnectedClients
    <2>2. CASE ReleaseTimer
      <3>1. Registered = {} /\ cluster' = cluster
        BY <2>2 DEF ReleaseTimer, loop, native
      <3> QED BY <3>1 DEF Registered
    <2>3. ASSUME NEW d \in Clients,
                 \/ Connect(d) \/ ConnectRefused(d) \/ OnConnected(d)
                 \/ OnConnectError(d) \/ Drained(d)
          PROVE  FALSE
      BY <2>3 DEF Connect, ConnectRefused, OnConnected, OnConnectError, Drained,
                  RegisterEventLoop, loop, GeneralInv, TypeOK
    <2>4. ~UNCHANGED vars
      BY DEF vars, loop
    <2> QED BY <2>1, <2>2, <2>3, <2>4 DEF Next
  <1>2. GeneralInv /\ [Next]_vars => Left
    BY <1>1, StepGeneral
  <1> QED BY <1>2, General, PTL DEF Spec, LoopIsLeftByAll

-------------------------------------------------------------------------------
(* When connect() is called once on each client                            *)

Once == MaxConnects = 1

(***************************************************************************)
(* Where a client is: its native client is open exactly from the native    *)
(* connect to the native close, the reaction of connect() is queued until  *)
(* it has run, and an unclosed client is not settled.  A callback that     *)
(* throws queues a second reaction, which closes the native client under a *)
(* client that says it is connected, or ends the process after close().    *)
(***************************************************************************)
Phase(c) ==
    \/ /\ cluster[c] = "new"
       /\ ~connected[c] /\ thens[c] = 0 /\ catches[c] = 0
       /\ handles[c] = 0
    \/ /\ cluster[c] = "open"
       /\ connects[c] = 1 /\ ~settled[c]
       /\ thens[c] = IF connected[c] THEN 0 ELSE 1
       /\ catches[c] = 0 \/ (c \in ThrowingClients /\ connected[c] /\ catches[c] = 1)
       /\ handles[c] = 1
    \/ /\ cluster[c] = "failed"
       /\ connects[c] = 1 /\ ~settled[c]
       /\ ~connected[c] /\ thens[c] = 0 /\ catches[c] = 1
       /\ handles[c] = 1
    \/ /\ cluster[c] = "closed"
       /\ connects[c] = 1
       /\ thens[c] = 0 /\ handles[c] = 0
       /\ \/ ~connected[c] /\ catches[c] = 0
          \/ c \in ThrowingClients /\ ~connected[c] /\ catches[c] = 1
          \/ c \in ThrowingClients /\ connected[c] /\ ~settled[c] /\ catches[c] = 0

Phases == \A c \in Clients : Phase(c)

\* Only a connect callback that throws has a native client closed again.
Blamed == crashed \subseteq ThrowingClients

\* A loop that keeps node alive waits for a timer or for an unsettled client.
LoopHeld ==
    /\ referenced => initialized
    /\ released => ~referenced
    /\ referenced /\ timers = 0
           => \E c \in Clients : connects[c] > 0 /\ cluster[c] # "new" /\ ~settled[c]

IInv == GeneralInv /\ CounterMatches /\ Phases /\ LoopHeld /\ Blamed

LEMMA InitInv == Init => IInv
  <1> SUFFICES ASSUME Init PROVE IInv
    OBVIOUS
  <1>1. CounterMatches
    <2>1. ConnectedClients = {}
      BY DEF Init, ConnectedClients
    <2> QED BY <2>1, FS_EmptySet DEF Init, CounterMatches, ConnectedClients
  <1>2. Phases /\ LoopHeld /\ Blamed
    BY DEF Init, Phases, Phase, LoopHeld, Blamed
  <1> QED BY <1>1, <1>2, InitGeneral DEF IInv

LEMMA ConnectInv ==
    ASSUME Once, IInv, NEW c \in Clients, Connect(c)
    PROVE  CounterMatches' /\ Phases' /\ LoopHeld'
  <1> USE DEF GeneralInv
  <1>1. Phase(c) /\ cluster[c] = "new"
    BY DEF Once, IInv, TypeOK, Phases, Phase, Connect
  <1>2. CounterMatches'
    BY DEF IInv, CounterMatches, Connect
  <1>3. Phases'
    <2>1. Phase(c)'
      BY <1>1 DEF IInv, TypeOK, Connect, Phase, Once
    <2>2. ASSUME NEW d \in Clients, d # c PROVE Phase(d)'
      BY <2>2 DEF IInv, TypeOK, Phases, Phase, Connect
    <2> QED BY <2>1, <2>2 DEF Phases
  <1>4. LoopHeld'
    <2>1. connects'[c] > 0 /\ cluster'[c] # "new" /\ ~settled'[c]
      BY DEF IInv, TypeOK, Connect
    <2> QED BY <2>1 DEF Connect, RegisterEventLoop, LoopHeld
  <1> QED BY <1>2, <1>3, <1>4

LEMMA ConnectRefusedInv ==
    ASSUME Once, IInv, NEW c \in Clients, ConnectRefused(c)
    PROVE  CounterMatches' /\ Phases' /\ LoopHeld'
  <1> USE DEF GeneralInv
  <1>1. UNCHANGED <<connected, thens, catches, closes, settled, cluster, crashed, handles,
                    draining, counter, initialized, released, referenced, timers, threw>>
    BY DEF ConnectRefused, native, loop
  <1>2. CounterMatches'
    BY <1>1 DEF IInv, CounterMatches
  <1>3. Phases'
    BY <1>1 DEF IInv, TypeOK, Phases, Phase, ConnectRefused
  <1>4. LoopHeld'
    BY <1>1 DEF IInv, LoopHeld, ConnectRefused
  <1> QED BY <1>2, <1>3, <1>4

LEMMA OnConnectedInv ==
    ASSUME Once, IInv, NEW c \in Clients, OnConnected(c)
    PROVE  CounterMatches' /\ Phases' /\ LoopHeld'
  <1> USE DEF GeneralInv
  <1>1. /\ cluster[c] = "open" /\ ~connected[c] /\ thens[c] = 1
        /\ catches[c] = 0
    BY DEF IInv, TypeOK, Phases, Phase, OnConnected
  <1>2. UNCHANGED <<connects, closes, settled, cluster, crashed, handles,
                    draining, initialized, released, referenced, timers, threw>>
    BY DEF OnConnected, native, loop
  <1>3. CounterMatches'
    BY <1>1, OneMore, ConnectedFinite DEF OnConnected, IInv, CounterMatches, ConnectedClients
  <1>4. Phases'
    <2>1. Phase(c)'
      BY <1>1, <1>2 DEF IInv, TypeOK, Phases, Phase, OnConnected
    <2>2. ASSUME NEW d \in Clients, d # c PROVE Phase(d)'
      BY <1>2, <2>2 DEF IInv, TypeOK, Phases, Phase, OnConnected
    <2> QED BY <2>1, <2>2 DEF Phases
  <1>5. LoopHeld'
    BY <1>2 DEF IInv, LoopHeld
  <1> QED BY <1>3, <1>4, <1>5

LEMMA OnConnectErrorInv ==
    ASSUME Once, IInv, NEW c \in Clients, OnConnectError(c)
    PROVE  CounterMatches' /\ Phases' /\ LoopHeld'
  <1> USE DEF GeneralInv
  <1>1. /\ Phase(c) /\ catches[c] = 1 /\ cluster[c] \in {"open", "failed", "closed"}
        /\ cluster[c] \in {"open", "closed"} => c \in ThrowingClients
    BY DEF IInv, TypeOK, Phases, Phase, OnConnectError
  <1>2. UNCHANGED <<connected, thens, connects, closes, settled, counter,
                    initialized, released, referenced, timers, threw>>
    BY DEF OnConnectError, loop
  <1>3. CounterMatches'
    BY <1>2 DEF IInv, CounterMatches
  <1>4. Phases'
    <2>1. CASE cluster[c] = "closed"
      <3>1. catches' = [catches EXCEPT ![c] = @ - 1] /\ UNCHANGED <<cluster, handles, draining>>
        BY <2>1 DEF OnConnectError, NativeClose
      <3>2. Phase(c)'
        BY <1>1, <1>2, <2>1, <3>1 DEF IInv, TypeOK, Phase
      <3>3. ASSUME NEW d \in Clients, d # c PROVE Phase(d)'
        BY <1>2, <3>1, <3>3 DEF IInv, TypeOK, Phases, Phase
      <3> QED BY <3>2, <3>3 DEF Phases
    <2>2. CASE cluster[c] # "closed"
      <3>1. /\ catches' = [catches EXCEPT ![c] = @ - 1]
            /\ cluster' = [cluster EXCEPT ![c] = "closed"]
            /\ handles' = [handles EXCEPT ![c] = IF @ > 0 THEN @ - 1 ELSE 0]
        BY <2>2 DEF OnConnectError, NativeClose
      <3>2. Phase(c)'
        BY <1>1, <1>2, <2>2, <3>1 DEF IInv, TypeOK, Phase
      <3>3. ASSUME NEW d \in Clients, d # c PROVE Phase(d)'
        BY <1>2, <3>1, <3>3 DEF IInv, TypeOK, Phases, Phase
      <3> QED BY <3>2, <3>3 DEF Phases
    <2> QED BY <2>1, <2>2
  <1>5. LoopHeld'
    BY <1>1, <1>2 DEF IInv, TypeOK, LoopHeld, OnConnectError, NativeClose
  <1> QED BY <1>3, <1>4, <1>5

(***************************************************************************)
(* The close() that ends the process changes nothing else; any other does  *)
(* what it should to the client.                                           *)
(***************************************************************************)
LEMMA CrashInv ==
    ASSUME IInv, NEW c \in Clients, NEW r \in BOOLEAN, Close(c, r), crashed' # {}
    PROVE  CounterMatches' /\ Phases' /\ LoopHeld'
  <1>1. crashed = {} /\ CloseClient(c)
    BY DEF Close, Running
  <1>2. NativeClose(c) /\ UNCHANGED <<connected, counter>>
    BY <1>1 DEF CloseClient, native
  <1>3. UNCHANGED <<cluster, handles, draining>>
    BY <1>1, <1>2 DEF NativeClose
  <1>4. UNCHANGED <<thens, catches, connects, closes, settled, initialized, released,
                    referenced, timers, threw>>
    BY DEF Close, loop
  <1>5. CounterMatches'
    BY <1>2 DEF IInv, CounterMatches
  <1>6. Phases' /\ LoopHeld'
    BY <1>2, <1>3, <1>4 DEF IInv, Phases, Phase, LoopHeld
  <1> QED BY <1>5, <1>6

LEMMA CloseClientInv ==
    ASSUME Once, IInv, NEW c \in Clients, NEW r \in BOOLEAN, Close(c, r), crashed' = {}
    PROVE  /\ CounterMatches' /\ Phases'
           /\ \A d \in Clients : (cluster'[d] = "new") = (cluster[d] = "new")
  <1> USE DEF GeneralInv
  <1>1. /\ UNCHANGED <<thens, catches, connects>> /\ CloseClient(c)
        /\ settled' = [settled EXCEPT ![c] = connects[c] > 0 /\ thens[c] + catches[c] = 0]
    BY DEF Close
  <1>2. CASE connected[c]
    <2>1. /\ connected' = [connected EXCEPT ![c] = FALSE] /\ counter' = counter - 1
          /\ NativeClose(c)
      BY <1>1, <1>2 DEF CloseClient
    <2>2. CounterMatches'
      BY <1>2, <2>1, OneLess, ConnectedFinite DEF IInv, CounterMatches, ConnectedClients
    <2>3. /\ cluster[c] \notin {"new", "closed"}
          /\ cluster' = [cluster EXCEPT ![c] = "closed"]
      <3>1. cluster[c] # "closed"
        BY <2>1 DEF NativeClose
      <3>2. cluster[c] # "new"
        BY <1>2 DEF IInv, Phases, Phase
      <3> QED BY <2>1, <3>1, <3>2 DEF NativeClose
    <2>4. handles' = [handles EXCEPT ![c] = IF @ > 0 THEN @ - 1 ELSE 0]
      BY <2>1, <2>3 DEF NativeClose
    <2>5. Phase(c)'
      BY <1>1, <1>2, <2>1, <2>3, <2>4 DEF IInv, TypeOK, Phases, Phase
    <2>6. ASSUME NEW d \in Clients, d # c PROVE Phase(d)'
      BY <1>1, <2>1, <2>3, <2>4, <2>6 DEF IInv, TypeOK, Phases, Phase
    <2> QED BY <2>2, <2>3, <2>5, <2>6 DEF Phases, IInv, TypeOK
  <1>3. CASE ~connected[c]
    <2>1. UNCHANGED <<connected, cluster, crashed, handles, draining, counter>>
      BY <1>1, <1>3 DEF CloseClient, native
    <2>2. Phases'
      <3>1. Phase(c)'
        BY <1>1, <1>3, <2>1 DEF IInv, TypeOK, Phases, Phase
      <3>2. ASSUME NEW d \in Clients, d # c PROVE Phase(d)'
        BY <1>1, <2>1, <3>2 DEF IInv, TypeOK, Phases, Phase
      <3> QED BY <3>1, <3>2 DEF Phases
    <2> QED BY <2>1, <2>2 DEF IInv, CounterMatches
  <1> QED BY <1>2, <1>3

LEMMA CloseInv ==
    ASSUME Once, IInv, NEW c \in Clients, NEW r \in BOOLEAN, Close(c, r)
    PROVE  CounterMatches' /\ Phases' /\ LoopHeld'
  <1> USE DEF GeneralInv
  <1> SUFFICES ASSUME crashed' = {} PROVE CounterMatches' /\ Phases' /\ LoopHeld'
    BY CrashInv
  <1>1. /\ CounterMatches' /\ Phases'
        /\ \A d \in Clients : (cluster'[d] = "new") = (cluster[d] = "new")
    BY CloseClientInv
  <1>2. LoopHeld'
    <2>1. CASE counter' # 0
      <3>1. PICK d \in Clients : connected'[d]
        <4>1. ConnectedClients' # {}
          BY <1>1, <2>1, FS_EmptySet DEF CounterMatches, ConnectedClients
        <4> QED BY <4>1 DEF ConnectedClients
      <3>2. connects'[d] > 0 /\ cluster'[d] # "new" /\ ~settled'[d]
        BY <1>1, <3>1 DEF Phases, Phase
      <3>3. UNCHANGED loop
        BY <2>1 DEF Close, LeaveLoop
      <3> QED BY <3>2, <3>3 DEF IInv, LoopHeld, loop
    <2>2. CASE counter' = 0
      <3>1. /\ referenced' => initialized'
            /\ released' => ~referenced'
            /\ ~referenced' \/ timers' # 0
        BY <2>2 DEF IInv, TypeOK, LoopHeld, Close, LeaveLoop, ReleaseEventLoop,
                    UnreferenceEventLoop, loop
      <3> QED BY <3>1 DEF LoopHeld
    <2> QED BY <2>1, <2>2
  <1> QED BY <1>1, <1>2

\* The client that is closed again is in a phase only its own callback leads to.
LEMMA BlamedStep == IInv /\ [Next]_vars => Blamed'
  <1> SUFFICES ASSUME IInv, [Next]_vars PROVE Blamed'
    OBVIOUS
  <1>1. ASSUME NEW c \in Clients, NativeClose(c), catches[c] > 0 \/ connected[c]
        PROVE  Blamed'
    <2>1. cluster[c] = "closed" => c \in ThrowingClients
      BY <1>1 DEF IInv, Phases, Phase
    <2> QED BY <1>1, <2>1 DEF NativeClose, IInv, Blamed
  <1>2. ASSUME crashed' = crashed PROVE Blamed'
    BY <1>2 DEF IInv, Blamed
  <1>3. ASSUME NEW c \in Clients, NEW r \in BOOLEAN, Close(c, r) PROVE Blamed'
    BY <1>1, <1>2, <1>3 DEF Close, CloseClient, native
  <1>4. ASSUME NEW c \in Clients, OnConnectError(c) PROVE Blamed'
    BY <1>1, <1>4 DEF OnConnectError
  <1> QED BY <1>2, <1>3, <1>4
          DEF Next, vars, native, Connect, ConnectRefused, OnConnected, Drained, ReleaseTimer

LEMMA DrainedInv ==
    ASSUME IInv, NEW c \in Clients, Drained(c)
    PROVE  CounterMatches' /\ Phases' /\ LoopHeld'
  <1>1. UNCHANGED <<connected, thens, catches, connects, closes, settled, cluster,
                    crashed, handles, counter, initialized, released, referenced,
                    timers, threw>>
    BY DEF Drained, client, loop
  <1> QED BY <1>1 DEF IInv, CounterMatches, Phases, Phase, LoopHeld

LEMMA ReleaseTimerInv ==
    ASSUME IInv, ReleaseTimer
    PROVE  CounterMatches' /\ Phases' /\ LoopHeld'
  <1>1. UNCHANGED <<connected, thens, catches, connects, closes, settled, cluster,
                    crashed, handles, draining, counter, initialized, threw>>
    BY DEF ReleaseTimer, client, native, loop
  <1>2. CounterMatches' /\ Phases'
    BY <1>1 DEF IInv, CounterMatches, Phases, Phase
  <1>3. LoopHeld'
    BY <1>1 DEF IInv, GeneralInv, TypeOK, LoopHeld, ReleaseTimer, loop
  <1> QED BY <1>2, <1>3

LEMMA StepInv == Once /\ IInv /\ [Next]_vars => IInv'
  <1> SUFFICES ASSUME Once, IInv, [Next]_vars PROVE CounterMatches' /\ Phases' /\ LoopHeld'
    BY StepGeneral, BlamedStep DEF IInv
  <1>1. CASE UNCHANGED vars
    BY <1>1 DEF vars, client, native, loop, IInv, CounterMatches, Phases, Phase, LoopHeld
  <1> QED BY <1>1, ConnectInv, ConnectRefusedInv, OnConnectedInv, OnConnectErrorInv, CloseInv,
             DrainedInv, ReleaseTimerInv DEF Next

LEMMA Invariance == ASSUME Once PROVE Spec => []IInv
  <1>1. IInv /\ [Next]_vars => IInv'
    BY StepInv
  <1> QED BY <1>1, InitInv, PTL DEF Spec

-------------------------------------------------------------------------------
(***************************************************************************)
(* The counter is the number of connected clients, so close() tidies up    *)
(* exactly when nobody is connected.                                       *)
(***************************************************************************)
THEOREM CounterIsExact == ASSUME Once PROVE Spec => []CounterMatches
  <1>1. IInv => CounterMatches
    BY DEF IInv
  <1> QED BY <1>1, Invariance, PTL

(***************************************************************************)
(* A connected client has an open native client, and AerospikeClient::Close*)
(* runs at most once on it: failed connects and repeated closes together   *)
(* never destroy the aerospike object twice, unless its own connect        *)
(* callback threw.                                                         *)
(***************************************************************************)
THEOREM NativeIsSound == ASSUME Once PROVE Spec => []NativeMatches
  <1>1. IInv => NativeMatches
    BY DEF IInv, GeneralInv, TypeOK, Phases, Phase, Blamed, NativeMatches
  <1> QED BY <1>1, Invariance, PTL

(***************************************************************************)
(* When every client whose connect() was settled has been closed, neither  *)
(* the loop nor an events handle keeps the process alive, or the timer     *)
(* that releases the loop is pending.                                      *)
(***************************************************************************)
THEOREM ExitIsPossible == ASSUME Once PROVE Spec => []ExitAllowed
  <1>1. IInv => ExitAllowed
    <2> SUFFICES ASSUME IInv,
                        \A c \in Clients : connects[c] > 0 /\ cluster[c] # "new" => settled[c]
                 PROVE  /\ ~referenced \/ timers > 0
                        /\ \A c \in Clients : handles[c] = 0
      BY DEF ExitAllowed
    <2>1. ~referenced \/ timers > 0
      BY DEF IInv, GeneralInv, TypeOK, LoopHeld
    <2>2. \A c \in Clients : handles[c] = 0
      BY DEF IInv, Phases, Phase
    <2> QED BY <2>1, <2>2
  <1> QED BY <1>1, Invariance, PTL
===============================================================================
