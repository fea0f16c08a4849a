-------------------------- MODULE QueryForeach_proofs --------------------------
(***************************************************************************)
(* Proofs about QueryForeach, for any number of results, any queue size    *)
(* and any signal interval.                                                *)
(***************************************************************************)
EXTENDS QueryForeach, TLAPS

(***************************************************************************)
(* What relates the threads: the main thread responds only behind the      *)
(* worker, an outcome is the last thing it does, and the handle is open    *)
(* from prepare() to respond() unless prepare() failed, in which case the  *)
(* worker does nothing.                                                    *)
(***************************************************************************)
Threads ==
    /\ main = "responding" => worker = "returned" /\ ~failed
    /\ main = "draining" => handle = "open"
    /\ outcome = "none" <=> main # "closed"
    /\ handle = "open" => outcome = "none" /\ worker # "idle"
    /\ outcome # "none" => worker = "returned" /\ handle \in {"closing", "closed", "undefined"}
    /\ outcome = "none" => handle \in {"none", "open"}
    /\ worker = "idle" => handle = "none" /\ object = "none" /\ main = "loop"
    /\ worker # "idle" /\ handle # "closed" => object = "held"
    /\ worker # "idle" /\ handle = "none" => failed
    /\ worker \in {"query", "holding", "sleeping"} => handle = "open"

IInv == TypeOK /\ InOrder /\ Threads

\* What Append does to a sequence.
LEMMA AppendFacts ==
    ASSUME NEW s \in Seq(Nat), NEW n \in Nat
    PROVE  /\ Append(s, n) \in Seq(Nat)
           /\ Len(Append(s, n)) = Len(s) + 1
           /\ Append(s, n)[Len(s) + 1] = n
           /\ \A i \in 1 .. Len(s) : Append(s, n)[i] = s[i]
OBVIOUS

\* What Head and Tail take from a sequence.
LEMMA TailFacts ==
    ASSUME NEW s \in Seq(Nat), s # <<>>
    PROVE  /\ Len(s) \in Nat /\ Len(s) > 0
           /\ Head(s) = s[1] /\ Head(s) \in Nat
           /\ Tail(s) \in Seq(Nat)
           /\ Len(Tail(s)) = Len(s) - 1
           /\ \A i \in 1 .. Len(s) - 1 : Tail(s)[i] = s[i + 1]
OBVIOUS

\* Nothing is made, queued or given before the query is started.
LEMMA InitIInv == Init => IInv
<1> SUFFICES ASSUME Init PROVE IInv
  OBVIOUS
<1>1. TypeOK
  <2>1. <<>> \in Seq(Nat) /\ 0 \in 0 .. SignalEvery - 1
    BY QueueAssumption
  <2> QED BY <2>1 DEF Init, TypeOK
<1>2. InOrder
  BY DEF Init, InOrder
<1>3. Threads
  BY DEF Init, Threads
<1> QED BY <1>1, <1>2, <1>3 DEF IInv

\* prepare() hands a held command and, if it does not fail, an open handle on.
LEMMA PrepareIInv == IInv /\ (Prepare \/ PrepareFails) => IInv'
<1> SUFFICES ASSUME IInv, Prepare \/ PrepareFails PROVE IInv'
  OBVIOUS
<1>1. TypeOK'
  BY DEF IInv, TypeOK, Prepare, PrepareFails, shared, stream
<1>2. InOrder'
  BY DEF IInv, InOrder, Prepare, PrepareFails, shared, stream
<1>3. Threads'
  BY DEF IInv, TypeOK, Threads, Prepare, PrepareFails, Free, shared, stream
<1> QED BY <1>1, <1>2, <1>3 DEF IInv

\* The worker between two pushes.
LEMMA WorkerIInv == IInv /\ (StartQuery \/ Populate \/ Awake \/ EndQuery) => IInv'
<1> SUFFICES ASSUME IInv, StartQuery \/ Populate \/ Awake \/ EndQuery PROVE IInv'
  OBVIOUS
<1>1. TypeOK'
  BY DEF IInv, TypeOK, StartQuery, Populate, Awake, EndQuery, shared, stream
<1>2. InOrder'
  BY DEF IInv, InOrder, StartQuery, Populate, Awake, EndQuery, shared, stream
<1>3. Threads'
  BY DEF IInv, TypeOK, Threads, StartQuery, Populate, Awake, EndQuery, shared, stream
<1> QED BY <1>1, <1>2, <1>3 DEF IInv

\* A push appends the number of the result it makes.
LEMMA PushIInv == IInv /\ Push => IInv'
<1> SUFFICES ASSUME IInv, Push PROVE IInv'
  OBVIOUS
<1>1. results \in Seq(Nat) /\ made \in Nat /\ given \in Seq(Nat) /\ interval \in 0 .. SignalEvery - 1
  BY DEF IInv, TypeOK
<1>2. made' = made + 1 /\ results' = Append(results, made + 1) /\ given' = given
  BY DEF Push, stream
<1>3. interval' \in 0 .. SignalEvery - 1
  <2>1. CASE interval + 1 = SignalEvery
    <3>1. (interval + 1) % SignalEvery = 0
      BY <2>1, QueueAssumption
    <3> QED BY <3>1, QueueAssumption DEF Push
  <2>2. CASE interval + 1 < SignalEvery
    <3>1. interval' = 0 \/ interval' = interval + 1
      BY DEF Push
    <3> QED BY <1>1, <2>2, <3>1, QueueAssumption
  <2> QED BY <1>1, <2>1, <2>2, QueueAssumption
<1>4. signalled' \in BOOLEAN
  BY DEF Push
<1>5. TypeOK'
  BY <1>1, <1>2, <1>3, <1>4 DEF IInv, TypeOK, Push, stream
<1>6. InOrder'
  <2>1. Len(results') = Len(results) + 1 /\ Len(results) \in Nat /\ Len(given) \in Nat
    BY <1>1, <1>2, AppendFacts
  <2>2. made' = Len(given') + Len(results')
    BY <1>2, <2>1 DEF IInv, InOrder
  <2>3. \A i \in 1 .. Len(given') : given'[i] = i
    BY <1>2 DEF IInv, InOrder
  <2>4. ASSUME NEW i \in 1 .. Len(results')
        PROVE  results'[i] = Len(given') + i
    <3>1. CASE i \in 1 .. Len(results)
      BY <1>1, <1>2, <3>1, AppendFacts DEF IInv, InOrder
    <3>2. CASE i = Len(results) + 1
      <4>1. results'[i] = made + 1
        BY <1>1, <1>2, <3>2, AppendFacts
      <4>2. made = Len(given) + Len(results)
        BY DEF IInv, InOrder
      <4> QED BY <1>2, <2>1, <3>2, <4>1, <4>2
    <3> QED BY <2>1, <3>1, <3>2
  <2> QED BY <2>2, <2>3, <2>4 DEF InOrder
<1>7. Threads'
  BY DEF IInv, TypeOK, Threads, Push, stream
<1> QED BY <1>5, <1>6, <1>7 DEF IInv

\* A result is moved from the head of the queue to the end of what was given.
LEMMA ProcessIInv == IInv /\ Process => IInv'
<1> SUFFICES ASSUME IInv, Process PROVE IInv'
  OBVIOUS
<1>1. results \in Seq(Nat) /\ made \in Nat /\ given \in Seq(Nat) /\ results # <<>>
  BY DEF IInv, TypeOK, Process
<1>2. made' = made /\ results' = Tail(results) /\ given' = Append(given, Head(results))
  BY DEF Process
<1>3. Head(results) = Len(given) + 1
  BY <1>1, TailFacts DEF IInv, InOrder
<1>4. TypeOK'
  BY <1>1, <1>2, AppendFacts, TailFacts DEF IInv, TypeOK, Process
<1>5. InOrder'
  BY <1>1, <1>2, <1>3, AppendFacts, TailFacts DEF IInv, InOrder
<1>6. Threads'
  BY DEF IInv, TypeOK, Threads, Process
<1> QED BY <1>4, <1>5, <1>6 DEF IInv

\* The other steps of the main thread leave the results alone.
LEMMA MainIInv ==
    IInv /\ (AsyncCallback \/ Drained \/ Respond \/ RespondError \/ RespondEnd \/ Release) => IInv'
<1> SUFFICES ASSUME IInv,
                    AsyncCallback \/ Drained \/ Respond \/ RespondError \/ RespondEnd \/ Release
             PROVE  IInv'
  OBVIOUS
<1> USE DEF Free, shared, stream
<1>1. TypeOK'
  BY DEF IInv, TypeOK, AsyncCallback, Drained, Respond, RespondError, RespondEnd, Release
<1>2. InOrder'
  BY DEF IInv, InOrder, AsyncCallback, Drained, Respond, RespondError, RespondEnd, Release
<1>3. Threads'
  BY DEF IInv, TypeOK, Threads, AsyncCallback, Drained, Respond, RespondError, RespondEnd, Release
<1> QED BY <1>1, <1>2, <1>3 DEF IInv

\* abort() schedules and the stream emits an end, close() sets a flag; a stuttering step does
\* nothing.
LEMMA OtherIInv == IInv /\ (Abort \/ AbortEnd \/ CloseClient \/ UNCHANGED vars) => IInv'
<1> SUFFICES ASSUME IInv, Abort \/ AbortEnd \/ CloseClient \/ UNCHANGED vars PROVE IInv'
  OBVIOUS
<1> USE DEF shared, stream
<1>1. TypeOK'
  BY DEF IInv, TypeOK, Abort, AbortEnd, CloseClient, vars
<1>2. InOrder'
  BY DEF IInv, InOrder, Abort, AbortEnd, CloseClient, vars
<1>3. Threads'
  BY DEF IInv, TypeOK, Threads, Abort, AbortEnd, CloseClient, vars
<1> QED BY <1>1, <1>2, <1>3 DEF IInv

\* The invariant is inductive.
LEMMA NextIInv == IInv /\ [Next]_vars => IInv'
BY PrepareIInv, WorkerIInv, PushIInv, ProcessIInv, MainIInv, OtherIInv DEF Next

\* Every reachable state satisfies the invariant.
THEOREM Invariant == Spec => []IInv
BY InitIInv, NextIInv, PTL DEF Spec

\* Type correctness.
THEOREM TypeCorrect == Spec => []TypeOK
BY Invariant, PTL DEF IInv

\* No result is lost, repeated or overtaken between the worker and the stream.
THEOREM ResultsAreInOrder == Spec => []InOrder
BY Invariant, PTL DEF IInv

\* The command object outlives every callback that may still use it.
THEOREM ObjectIsSafe == Spec => []ObjectInUse
<1>1. IInv => ObjectInUse
  BY DEF IInv, TypeOK, Threads, ObjectInUse
<1> QED BY <1>1, Invariant, PTL

\* The two threads implement the delivery of results: the end of the query
\* comes after the last result and nothing of the query comes after it; an
\* aborted stream has one more end, emitted before anything else.
THEOREM Implementation == Spec => ImplementsDelivery
<1> DEFINE done == worker = "returned"
           dvars == <<made, done, given, outcome, abortEnd>>
<1>1. Init => Delivery!Init
  BY DEF Init, Delivery!Init
<1>2. IInv /\ [Next]_vars => [Delivery!Next]_dvars
  <2> SUFFICES ASSUME IInv, [Next]_vars PROVE [Delivery!Next]_dvars
    OBVIOUS
  <2> USE DEF shared, stream, Ticked
  <2>1. CASE Push
    BY <2>1 DEF Push, Delivery!Next, Delivery!Make
  <2>2. CASE Process
    <3>1. results \in Seq(Nat) /\ given \in Seq(Nat) /\ made \in Nat /\ results # <<>>
      BY <2>2 DEF Process, IInv, TypeOK
    <3>2. Head(results) = Len(given) + 1 /\ Len(given) < made
      BY <3>1, AppendFacts, TailFacts DEF IInv, InOrder
    <3>3. outcome = "none"
      BY <2>2 DEF Process, IInv, TypeOK, Threads
    <3> QED BY <2>2, <3>2, <3>3 DEF Process, Delivery!Next, Delivery!Give
  <2>3. CASE RespondEnd
    <3>1. Len(given) = made
      BY <2>3 DEF RespondEnd, IInv, TypeOK, InOrder
    <3>2. worker = "returned" /\ outcome = "none"
      BY <2>3 DEF RespondEnd, IInv, TypeOK, Threads
    <3> QED BY <2>3, <3>1, <3>2 DEF RespondEnd, Delivery!Next, Delivery!End
  <2>4. CASE RespondError
    BY <2>4 DEF RespondError, Delivery!Next, Delivery!Fail
  <2>5. CASE StartQuery \/ EndQuery
    BY <2>5 DEF StartQuery, EndQuery, Delivery!Next, Delivery!Stop
  <2>6. CASE Prepare \/ PrepareFails \/ Populate \/ Awake
    BY <2>6 DEF Prepare, PrepareFails, Populate, Awake
  <2>7. CASE AsyncCallback \/ Drained \/ Respond \/ Release
    BY <2>7 DEF AsyncCallback, Drained, Respond, Release
  <2>8. CASE Abort \/ AbortEnd
    BY <2>8 DEF Abort, AbortEnd, Delivery!Next, Delivery!Abort, Delivery!AbortEnd
  <2>9. CASE CloseClient \/ UNCHANGED vars
    BY <2>9 DEF CloseClient, vars
  <2> QED BY <2>1, <2>2, <2>3, <2>4, <2>5, <2>6, <2>7, <2>8, <2>9 DEF Next
<1> QED BY <1>1, <1>2, Invariant, PTL DEF Spec, ImplementsDelivery, Delivery!Spec, Delivery!vars
===============================================================================
