------------------------- MODULE ClusterEvents_proofs -------------------------
(***************************************************************************)
(* Proofs about ClusterEvents, for any number of events.                   *)
(***************************************************************************)
EXTENDS ClusterEvents, SequenceTheorems, TLAPS

(***************************************************************************)
(* What relates the two threads: the queue is attached as long as the      *)
(* handle is open, the tend thread is gone before the log is, and the      *)
(* handle is freed only behind both.                                       *)
(***************************************************************************)
Stages ==
    /\ handle = "none" => ~data /\ tend = "none" /\ ~processing /\ raised = 0
                          /\ events = <<>> /\ emitted = <<>>
    /\ handle # "none" => queue = "alive"
    /\ data <=> handle = "open"
    /\ closing = "no" <=> handle \in {"none", "open"}
    /\ closing = "done" => tend = "none"
    /\ closing # "done" => log = "alive"
    /\ handle = "freed" => closing = "done"

IInv == TypeOK /\ NoneLost /\ Stages

\* What Append does to a sequence of events.
LEMMA AppendFacts ==
    ASSUME NEW s \in Seq(1 .. MaxEvents), NEW n \in 1 .. MaxEvents
    PROVE  /\ Append(s, n) \in Seq(1 .. MaxEvents)
           /\ Len(s) \in Nat
           /\ Len(Append(s, n)) = Len(s) + 1
           /\ Append(s, n)[Len(s) + 1] = n
           /\ \A i \in 1 .. Len(s) : Append(s, n)[i] = s[i]
OBVIOUS

\* What Head and Tail take from a sequence of events.
LEMMA TailFacts ==
    ASSUME NEW s \in Seq(1 .. MaxEvents), s # <<>>
    PROVE  /\ Len(s) \in Nat /\ Len(s) > 0
           /\ Head(s) = s[1] /\ Head(s) \in 1 .. MaxEvents
           /\ Tail(s) \in Seq(1 .. MaxEvents)
           /\ Len(Tail(s)) = Len(s) - 1
           /\ \A i \in 1 .. Len(s) - 1 : Tail(s)[i] = s[i + 1]
<1>1. Len(s) \in Nat /\ Len(s) > 0
  OBVIOUS
<1>2. Head(s) = s[1]
  OBVIOUS
<1>3. Head(s) \in 1 .. MaxEvents
  BY HeadTailProperties
<1>4. Tail(s) \in Seq(1 .. MaxEvents) /\ Len(Tail(s)) = Len(s) - 1
  BY HeadTailProperties
<1>5. \A i \in 1 .. Len(s) - 1 : Tail(s)[i] = s[i + 1]
  BY <1>4, HeadTailProperties
<1> QED BY <1>1, <1>2, <1>3, <1>4, <1>5

\* Before the client is connected there is nothing.
LEMMA InitIInv == Init => IInv
<1> SUFFICES ASSUME Init PROVE IInv
  OBVIOUS
<1>1. TypeOK
  <2>1. <<>> \in Seq(1 .. MaxEvents) /\ 0 \in 0 .. MaxEvents
    BY EventsAssumption
  <2> QED BY <2>1 DEF Init, TypeOK, Tends
<1>2. NoneLost
  BY DEF Init, NoneLost
<1>3. Stages
  BY DEF Init, Stages
<1> QED BY <1>1, <1>2, <1>3 DEF IInv

\* Connecting attaches an empty queue.
LEMMA ConnectIInv == IInv /\ Connect => IInv'
<1> SUFFICES ASSUME IInv, Connect PROVE IInv'
  OBVIOUS
<1> USE DEF main, memory
<1>1. TypeOK'
  BY DEF IInv, TypeOK, Tends, Connect
<1>2. NoneLost'
  <2>1. events = <<>> /\ emitted = <<>> /\ raised = 0
    BY DEF IInv, Stages, Connect
  <2>2. tend' # "attached"
    BY DEF Connect
  <2> QED BY <2>1, <2>2 DEF NoneLost, Connect
<1>3. Stages'
  BY DEF IInv, TypeOK, Stages, Connect, Free, Running
<1> QED BY <1>1, <1>2, <1>3 DEF IInv

\* An event is raised: it is the next one, if there still is a queue for it.
LEMMA RaiseIInv == IInv /\ Raise => IInv'
<1> SUFFICES ASSUME IInv, Raise PROVE IInv'
  OBVIOUS
<1> USE DEF main, memory
<1>0. raised \in Nat /\ raised' = raised + 1 /\ raised' \in 0 .. MaxEvents
  BY EventsAssumption DEF IInv, TypeOK, Raise
<1>1. TypeOK'
  BY <1>0 DEF IInv, TypeOK, Tends, Raise
<1>2. NoneLost'
  <2>1. emitted \in Seq(1 .. MaxEvents) /\ events \in Seq(1 .. MaxEvents)
    BY DEF IInv, TypeOK
  <2>2. tend' = "attached" => data
    BY DEF Raise
  <2>3. data => Len(emitted) + Len(events) = raised
    BY DEF IInv, NoneLost, Raise
  <2>4. data' /\ tend' # "attached" => FALSE
    BY DEF Raise
  <2> QED BY <1>0, <2>1, <2>2, <2>3, <2>4 DEF IInv, NoneLost, Raise
<1>3. Stages'
  BY DEF IInv, TypeOK, Stages, Raise
<1> QED BY <1>1, <1>2, <1>3 DEF IInv

\* The event that was raised joins the end of the queue.
LEMMA PushIInv == IInv /\ Push => IInv'
<1> SUFFICES ASSUME IInv, Push PROVE IInv'
  OBVIOUS
<1> USE DEF main, memory
<1>1. /\ events \in Seq(1 .. MaxEvents) /\ emitted \in Seq(1 .. MaxEvents)
      /\ raised \in 0 .. MaxEvents
      /\ Len(emitted) + Len(events) + 1 = raised
  BY DEF IInv, TypeOK, NoneLost, Push
<1>2. raised \in 1 .. MaxEvents /\ Len(emitted) \in Nat /\ Len(events) \in Nat
  BY <1>1, EventsAssumption
<1>3. events' = Append(events, raised) /\ emitted' = emitted /\ raised' = raised
  BY DEF Push
<1>4. TypeOK'
  BY <1>1, <1>2, <1>3, AppendFacts DEF IInv, TypeOK, Tends, Push
<1>5. NoneLost'
  <2>1. Len(events') = Len(events) + 1
    BY <1>1, <1>2, <1>3, AppendFacts
  <2>2. \A i \in 1 .. Len(emitted') : emitted'[i] = i
    BY <1>3 DEF IInv, NoneLost
  <2>3. ASSUME NEW i \in 1 .. Len(events')
        PROVE  events'[i] = Len(emitted') + i
    <3>1. CASE i \in 1 .. Len(events)
      BY <1>1, <1>2, <1>3, <3>1, AppendFacts DEF IInv, NoneLost
    <3>2. CASE i = Len(events) + 1
      BY <1>1, <1>2, <1>3, <3>2, AppendFacts
    <3> QED BY <1>2, <2>1, <3>1, <3>2
  <2>4. tend' # "attached"
    BY DEF Push
  <2> QED BY <1>1, <1>2, <1>3, <2>1, <2>2, <2>3, <2>4 DEF NoneLost
<1>6. Stages'
  BY DEF IInv, TypeOK, Stages, Push
<1> QED BY <1>4, <1>5, <1>6 DEF IInv

\* The head of the queue is the event to emit next.
LEMMA ProcessIInv == IInv /\ Process => IInv'
<1> SUFFICES ASSUME IInv, Process PROVE IInv'
  OBVIOUS
<1> USE DEF main, memory
<1>1. events \in Seq(1 .. MaxEvents) /\ emitted \in Seq(1 .. MaxEvents) /\ events # <<>>
  BY DEF IInv, TypeOK, Process
<1>2. /\ events' = Tail(events) /\ emitted' = Append(emitted, Head(events))
      /\ raised' = raised /\ tend' = tend /\ data' = data
  BY DEF Process
<1>3. Head(events) = Len(emitted) + 1 /\ Head(events) \in 1 .. MaxEvents
  BY <1>1, TailFacts DEF IInv, NoneLost
<1>4. /\ Len(emitted') = Len(emitted) + 1 /\ Len(events') = Len(events) - 1
      /\ Len(emitted) \in Nat /\ Len(events) \in Nat
  BY <1>1, <1>2, <1>3, AppendFacts, TailFacts
<1>5. TypeOK'
  BY <1>1, <1>2, <1>3, AppendFacts, TailFacts DEF IInv, TypeOK, Tends, Process
<1>6. NoneLost'
  <2>1. \A i \in 1 .. Len(emitted') : emitted'[i] = i
    BY <1>1, <1>2, <1>3, <1>4, AppendFacts DEF IInv, NoneLost
  <2>2. \A i \in 1 .. Len(events') : events'[i] = Len(emitted') + i
    <3> SUFFICES ASSUME NEW i \in 1 .. Len(events') PROVE events'[i] = Len(emitted') + i
      OBVIOUS
    <3>1. i \in 1 .. Len(events) - 1 /\ i + 1 \in 1 .. Len(events)
      BY <1>4
    <3>2. events'[i] = events[i + 1]
      BY <1>1, <1>2, <3>1, TailFacts
    <3>3. events[i + 1] = Len(emitted) + (i + 1)
      BY <3>1 DEF IInv, NoneLost
    <3> QED BY <1>4, <3>1, <3>2, <3>3
  <2>3. Len(emitted') + Len(events') = Len(emitted) + Len(events)
    BY <1>4
  <2> QED BY <1>2, <1>4, <2>1, <2>2, <2>3 DEF IInv, NoneLost
<1>7. Stages'
  BY DEF IInv, TypeOK, Stages, Process
<1> QED BY <1>5, <1>6, <1>7 DEF IInv

\* The other steps leave events and counter alone.
LEMMA OtherIInv ==
    IInv /\ (\/ PushIntoNull \/ Signal \/ AsyncCallback \/ Processed
             \/ DetachQueue \/ CloseCluster \/ HandleClosed \/ UNCHANGED vars) => IInv'
<1> SUFFICES ASSUME IInv,
                    \/ PushIntoNull \/ Signal \/ AsyncCallback \/ Processed
                    \/ DetachQueue \/ CloseCluster \/ HandleClosed \/ UNCHANGED vars
             PROVE  IInv'
  OBVIOUS
<1> USE DEF main, memory, vars, PushIntoNull, Signal, AsyncCallback, Processed,
            DetachQueue, CloseCluster, HandleClosed, Running, Free
<1>1. TypeOK'
  BY DEF IInv, TypeOK, Tends
<1>2. NoneLost'
  <2>1. events' = events /\ emitted' = emitted /\ raised' = raised
    OBVIOUS
  <2>2. tend' = "attached" => tend = "attached"
    OBVIOUS
  <2>3. data' /\ tend' # "attached" => data /\ tend # "attached"
    OBVIOUS
  <2> QED BY <2>1, <2>2, <2>3 DEF IInv, NoneLost
<1>3. Stages'
  BY DEF IInv, TypeOK, Stages
<1> QED BY <1>1, <1>2, <1>3 DEF IInv

\* The invariant is inductive.
LEMMA NextIInv == IInv /\ [Next]_vars => IInv'
BY ConnectIInv, RaiseIInv, PushIInv, ProcessIInv, OtherIInv DEF Next

\* Every reachable state satisfies the invariant.
THEOREM Invariant == Spec => []IInv
BY InitIInv, NextIInv, PTL DEF Spec

\* Type correctness, which includes that the queue is never deleted.
THEOREM TypeCorrect == Spec => []TypeOK
BY Invariant, PTL DEF IInv

\* No thread is about to use memory that is gone, whenever Close comes.
THEOREM MemoryIsSafe == Spec => []MemoryInUse
<1>1. IInv => MemoryInUse
  BY DEF IInv, TypeOK, Stages, MemoryInUse
<1> QED BY <1>1, Invariant, PTL

\* No event is lost, repeated or overtaken on its way to the application.
THEOREM EventsAreInOrder == Spec => []NoneLost
BY Invariant, PTL DEF IInv
===============================================================================
