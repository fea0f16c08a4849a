----------------------- MODULE CommandExecution_proofs -----------------------
(***************************************************************************)
(* Proofs about CommandExecution, for any set of commands and any number   *)
(* of worker threads, and about the commands a job polls the nodes with    *)
(* (JobPoll), for any set of nodes and any number of polls that overlap.   *)
(***************************************************************************)
EXTENDS CommandExecution, JobPoll, FiniteSetTheorems, TLAPS

(***************************************************************************)
(* The inductive invariant: what is held and what was told depend on the   *)
(* stage of a command and on nothing else.                                 *)
(***************************************************************************)
IInv == TypeOK /\ ObjectWhileOut /\ ToldOnce

\* The invariant holds before any command is issued.
LEMMA InitIInv == Init => IInv
BY DEF Init, IInv, TypeOK, ObjectWhileOut, ToldOnce, Out, Outcomes, Stages

\* execute() of one command, on every path it may take before it returns.
LEMMA ExecuteIInv ==
    ASSUME IInv, NEW c \in Commands, NEW s \in {"callback", "promise"}, Execute(c, s)
    PROVE  IInv'
<1> USE DEF IInv, Begin, CallbackDuringExecute
<1>1. TypeOK'
  <2>1. CASE RefuseNotConnected(c, s)
    BY <2>1 DEF RefuseNotConnected, TypeOK, Outcomes, Stages
  <2>2. CASE RejectTypes(c, s)
    BY <2>2 DEF RejectTypes, TypeOK, ToldOnce, Outcomes, Stages
  <2>3. CASE AsyncFails(c, s)
    BY <2>3 DEF AsyncFails, TypeOK, Outcomes, Stages
  <2>4. CASE AsyncSent(c, s)
    BY <2>4 DEF AsyncSent, TypeOK, Outcomes, Stages
  <2>5. CASE WorkQueued(c, s)
    BY <2>5 DEF WorkQueued, TypeOK, Outcomes, Stages
  <2>6. CASE BlockingCommand(c, s)
    BY <2>6 DEF BlockingCommand, TypeOK, Outcomes, Stages
  <2> QED BY <2>1, <2>2, <2>3, <2>4, <2>5, <2>6 DEF Execute
<1>2. ObjectWhileOut'
  BY DEF Execute, RefuseNotConnected, RejectTypes, AsyncFails, AsyncSent, WorkQueued, BlockingCommand,
         TypeOK, ObjectWhileOut, Out
<1>3. ToldOnce'
  <2>1. CASE RefuseNotConnected(c, s)
    BY <2>1 DEF RefuseNotConnected, TypeOK, ToldOnce
  <2>2. CASE RejectTypes(c, s)
    BY <2>2 DEF RejectTypes, TypeOK, ToldOnce
  <2>3. CASE AsyncFails(c, s)
    BY <2>3 DEF AsyncFails, TypeOK, ToldOnce
  <2>4. CASE AsyncSent(c, s)
    BY <2>4 DEF AsyncSent, TypeOK, ToldOnce
  <2>5. CASE WorkQueued(c, s)
    BY <2>5 DEF WorkQueued, TypeOK, ToldOnce
  <2>6. CASE BlockingCommand(c, s)
    BY <2>6 DEF BlockingCommand, TypeOK, ToldOnce
  <2> QED BY <2>1, <2>2, <2>3, <2>4, <2>5, <2>6 DEF Execute
<1> QED BY <1>1, <1>2, <1>3

\* The worker thread: nothing is told and nothing is deleted there.
LEMMA WorkIInv ==
    ASSUME IInv, NEW c \in Commands, StartWork(c) \/ FinishWork(c)
    PROVE  IInv'
<1> USE DEF IInv
<1>1. TypeOK'
  <2>1. CanExecute(c) \in BOOLEAN
    BY DEF CanExecute, TypeOK
  <2> QED BY <2>1 DEF StartWork, FinishWork, TypeOK, Stages
<1>2. ObjectWhileOut'
  BY DEF StartWork, FinishWork, TypeOK, ObjectWhileOut, Out
<1>3. ToldOnce'
  BY DEF StartWork, FinishWork, TypeOK, ToldOnce
<1> QED BY <1>1, <1>2, <1>3

\* respond() and the listeners: the object is deleted, the application told
\* at once or by a promise, once.
LEMMA AnswerIInv ==
    ASSUME IInv, NEW c \in Commands, Respond(c) \/ Listener(c)
    PROVE  IInv'
<1>1. PICK result \in {"ok", "error"} :
        /\ stage[c] \in {"worked", "listening"}
        /\ scheduled[c] = "none"
        /\ stage' = [stage EXCEPT ![c] = "over"]
        /\ object' = [object EXCEPT ![c] = "freed"]
        /\ CallbackLater(c, result)
  BY DEF Respond, Listener, TurnOver
<1>2. /\ failed' \in [Commands -> BOOLEAN]
      /\ UNCHANGED <<connected, open, style, sent>>
  BY DEF Respond, Listener, IInv, TypeOK
<1>3. TypeOK'
  <2>1. stage' \in [Commands -> Stages] /\ object' \in [Commands -> {"none", "held", "freed"}]
    BY <1>1 DEF IInv, TypeOK, Stages
  <2>2. /\ scheduled' \in [Commands -> Outcomes]
        /\ outcome' \in [Commands -> Outcomes]
        /\ told' \in [Commands -> 0..1]
    BY <1>1 DEF CallbackLater, IInv, TypeOK, ToldOnce, Outcomes
  <2> QED BY <1>2, <2>1, <2>2 DEF IInv, TypeOK
<1>4. ObjectWhileOut'
  BY <1>1 DEF IInv, TypeOK, ObjectWhileOut, Out
<1>5. ToldOnce'
  BY <1>1 DEF CallbackLater, IInv, TypeOK, ToldOnce
<1> QED BY <1>3, <1>4, <1>5 DEF IInv

\* A scheduled outcome is delivered.
LEMMA ScheduledIInv ==
    ASSUME IInv, NEW c \in Commands, Scheduled(c)
    PROVE  IInv'
BY DEF Scheduled, IInv, TypeOK, ObjectWhileOut, ToldOnce, Out, Outcomes

\* close() touches no command, and a stuttering step nothing at all.
LEMMA OtherIInv ==
    ASSUME IInv, CloseClient \/ UNCHANGED vars
    PROVE  IInv'
BY DEF CloseClient, vars, perCommand, IInv, TypeOK, ObjectWhileOut, ToldOnce, Out

\* The invariant is inductive.
LEMMA NextIInv == IInv /\ [Next]_vars => IInv'
BY ExecuteIInv, WorkIInv, AnswerIInv, ScheduledIInv, OtherIInv DEF Next

\* Every reachable state satisfies the invariant.
THEOREM Invariant == Spec => []IInv
BY InitIInv, NextIInv, PTL DEF Spec

\* Type correctness, for every set of commands.
THEOREM TypeCorrect == Spec => []TypeOK
BY Invariant, PTL DEF IInv

\* No command object is deleted while native code can reach it, and none is
\* kept afterwards, on any path through execute(), respond() or a listener.
THEOREM ObjectsAreKeptAndFreed == Spec => []ObjectWhileOut
BY Invariant, PTL DEF IInv

\* The application is told the outcome of a command at most once, and not
\* before the command is over.
THEOREM CallbacksAreCalledOnce == Spec => []ToldOnce
BY Invariant, PTL DEF IInv

\* No callback runs while execute() is on the stack.
THEOREM CallbacksAreAsynchronous == Spec => NeverDuringExecute
<1> DEFINE Quiet == \A c \in Commands :
              stage[c] = "idle" /\ stage'[c] # "idle" /\ told'[c] > told[c]
                 => outcome'[c] = "thrown"
<1>1. IInv /\ [Next]_vars => Quiet
  <2> SUFFICES ASSUME IInv, [Next]_vars, NEW c \in Commands,
                      stage[c] = "idle", stage'[c] # "idle", told'[c] > told[c]
               PROVE  outcome'[c] = "thrown"
    OBVIOUS
  <2>1. PICK s \in {"callback", "promise"} : Execute(c, s)
    <3>1. ASSUME NEW d \in Commands, NEW s \in {"callback", "promise"}, Execute(d, s), d # c
          PROVE  FALSE
      BY <3>1 DEF Execute, RefuseNotConnected, RejectTypes, AsyncFails, AsyncSent, WorkQueued, BlockingCommand,
                  Begin, IInv, TypeOK
    <3>2. ASSUME NEW d \in Commands,
                 StartWork(d) \/ FinishWork(d) \/ Respond(d) \/ Listener(d) \/ Scheduled(d)
          PROVE  FALSE
      BY <3>2 DEF StartWork, FinishWork, Respond, Listener, Scheduled, IInv, TypeOK
    <3>3. ~CloseClient /\ ~UNCHANGED vars
      BY DEF CloseClient, vars, perCommand
    <3> QED BY <3>1, <3>2, <3>3 DEF Next
  <2>2. told[c] \in Nat
    BY DEF IInv, TypeOK
  <2>3. CASE RejectTypes(c, s)
    BY <2>2, <2>3 DEF RejectTypes, Begin, IInv, TypeOK
  <2>4. CASE ~RejectTypes(c, s)
    BY <2>1, <2>2, <2>4 DEF Execute, RefuseNotConnected, AsyncFails, AsyncSent, WorkQueued, BlockingCommand,
                            CallbackDuringExecute
  <2> QED BY <2>3, <2>4
<1> QED BY <1>1, Invariant, PTL DEF Spec, NeverDuringExecute

(***************************************************************************)
(* While the client is open, whatever is or is about to become a success   *)
(* was sent.                                                               *)
(***************************************************************************)
SentWhileOpen ==
    \A c \in Commands :
        /\ stage[c] \in {"running", "listening"} => sent[c]
        /\ open /\ stage[c] = "worked" /\ ~failed[c] => sent[c]
        /\ "ok" \in {scheduled[c], outcome[c]} => stage[c] = "over" /\ (open => sent[c])

\* One command at a time, and no closed client is opened again.
LEMMA SentWhileOpenKept == IInv /\ SentWhileOpen /\ [Next]_vars => SentWhileOpen'
<1> SUFFICES ASSUME IInv, SentWhileOpen, [Next]_vars PROVE SentWhileOpen'
  OBVIOUS
<1> USE DEF IInv, TypeOK, SentWhileOpen, Out
<1>1. ASSUME NEW d \in Commands, NEW s \in {"callback", "promise"}, Execute(d, s)
      PROVE  SentWhileOpen'
  <2>1. CASE RefuseNotConnected(d, s)
    BY <2>1 DEF RefuseNotConnected, Begin, CallbackDuringExecute
  <2>2. CASE RejectTypes(d, s)
    BY <2>2 DEF RejectTypes, Begin
  <2>3. CASE AsyncFails(d, s)
    BY <2>3 DEF AsyncFails, Begin, CallbackDuringExecute
  <2>4. CASE AsyncSent(d, s)
    BY <2>4 DEF AsyncSent, Begin
  <2>5. CASE WorkQueued(d, s)
    BY <2>5 DEF WorkQueued, Begin
  <2>6. CASE BlockingCommand(d, s)
    <3>1. /\ stage' = [stage EXCEPT ![d] = "over"] /\ sent' = [sent EXCEPT ![d] = TRUE]
          /\ \A c \in Commands \ {d} : scheduled'[c] = scheduled[c]
          /\ UNCHANGED <<open, outcome>>
          /\ \A c \in Commands \ {d} : failed'[c] = failed[c]
      BY <2>6 DEF BlockingCommand, CallbackDuringExecute
    <3> QED BY <3>1
  <2> QED BY <1>1, <2>1, <2>2, <2>3, <2>4, <2>5, <2>6 DEF Execute
<1>2. ASSUME NEW d \in Commands, StartWork(d) PROVE SentWhileOpen'
  BY <1>2, CanExecute(d) \in BOOLEAN DEF StartWork, CanExecute
<1>3. ASSUME NEW d \in Commands, FinishWork(d) PROVE SentWhileOpen'
  BY <1>3 DEF FinishWork
<1>4. ASSUME NEW d \in Commands, Respond(d) PROVE SentWhileOpen'
  BY <1>4 DEF Respond, CallbackLater
<1>5. ASSUME NEW d \in Commands, Listener(d) PROVE SentWhileOpen'
  BY <1>5 DEF Listener, CallbackLater
<1>6. ASSUME NEW d \in Commands, Scheduled(d) PROVE SentWhileOpen'
  BY <1>6 DEF Scheduled
<1>7. CASE CloseClient \/ UNCHANGED vars
  BY <1>7 DEF CloseClient, vars, perCommand
<1> QED BY <1>1, <1>2, <1>3, <1>4, <1>5, <1>6, <1>7 DEF Next

\* A success that was never sent, which SuccessMeansSent finds, takes a close: as
\* long as the client is open, "ok" means that the C client was asked to execute
\* the command (CanExecute, src/main/command.cc:42).
THEOREM SkippedOnlyByClose == Spec => [](open => SuccessMeansSent)
<1>1. Init => SentWhileOpen
  BY DEF Init, SentWhileOpen
<1>2. SentWhileOpen => (open => SuccessMeansSent)
  BY DEF SentWhileOpen, SuccessMeansSent
<1> QED BY <1>1, <1>2, SentWhileOpenKept, Invariant, PTL DEF Spec

-------------------------------------------------------------------------------
(* Every command is answered, up to fairness                               *)

\* How many steps of its own a command still has before it, at most.
StepsLeft(c) ==
    CASE stage[c] = "queued" -> 4
      [] stage[c] = "running" -> 3
      [] stage[c] \in {"worked", "listening"} -> 2
      [] stage[c] = "over" /\ scheduled[c] # "none" -> 1
      [] OTHER -> 0

\* What StartWork, FinishWork, Respond, Listener and Scheduled, the steps under
\* fairness, ask for.
Ready(c) ==
    \/ stage[c] = "queued" /\ Cardinality({d \in Commands : stage[d] = "running"}) < Workers
    \/ stage[c] = "running"
    \/ stage[c] \in {"worked", "listening"} /\ TurnOver
    \/ scheduled[c] # "none"

\* A command that was issued either stays where it is or comes nearer to its answer.
OnlyNearer ==
    \A c \in Commands :
        stage[c] # "idle" =>
            \/ StepsLeft(c)' < StepsLeft(c)
            \/ stage'[c] = stage[c] /\ scheduled'[c] = scheduled[c] /\ told'[c] = told[c]

\* Commands do not wait for one another for good: while one is not answered, one
\* of those that are not has a step it can take.
SomeoneIsReady ==
    (\E c \in Commands : stage[c] # "idle" /\ told[c] = 0) =>
        \E d \in Commands : stage[d] # "idle" /\ told[d] = 0 /\ Ready(d)

\* The commands a full pool works on are there to be finished.
LEMMA FullPoolRuns ==
    ASSUME Cardinality({d \in Commands : stage[d] = "running"}) >= Workers
    PROVE  \E d \in Commands : stage[d] = "running"
<1> DEFINE R == {d \in Commands : stage[d] = "running"}
<1>1. Cardinality({}) = 0 BY FS_EmptySet
<1>2. R # {} BY <1>1, WorkersAssumption
<1> QED BY <1>2

\* No deadlock of commands, whatever the size of the pool.
LEMMA InvReady == IInv => SomeoneIsReady
<1> SUFFICES ASSUME IInv, NEW c \in Commands, stage[c] # "idle", told[c] = 0
             PROVE  \E d \in Commands : stage[d] # "idle" /\ told[d] = 0 /\ Ready(d)
  BY DEF SomeoneIsReady
<1>1. ASSUME NEW d \in Commands
      PROVE  /\ scheduled[d] # "none" => stage[d] = "over" /\ told[d] = 0
             /\ stage[d] # "over" => told[d] = 0 /\ scheduled[d] = "none"
             /\ stage[d] = "over" /\ told[d] = 0 => scheduled[d] # "none"
             /\ stage[d] \in Stages
  BY DEF IInv, ToldOnce, TypeOK
<1>2. CASE \E d \in Commands : scheduled[d] # "none"
  <2>1. PICK d \in Commands : scheduled[d] # "none" BY <1>2
  <2>2. stage[d] = "over" /\ told[d] = 0 /\ Ready(d) BY <1>1, <2>1 DEF Ready
  <2> QED BY <2>2
<1>3. CASE \A d \in Commands : scheduled[d] = "none"
  <2>1. TurnOver BY <1>3 DEF TurnOver
  <2>2. stage[c] \in {"queued", "running", "worked", "listening"} BY <1>1, <1>3 DEF Stages
  <2>3. CASE stage[c] \in {"running", "worked", "listening"} BY <2>1, <2>3 DEF Ready
  <2>4. CASE stage[c] = "queued" /\ Cardinality({d \in Commands : stage[d] = "running"}) < Workers
    BY <2>4 DEF Ready
  <2>5. CASE stage[c] = "queued" /\ ~(Cardinality({d \in Commands : stage[d] = "running"}) < Workers)
    <3>1. Cardinality({d \in Commands : stage[d] = "running"}) \in Nat
      <4>1. IsFiniteSet({d \in Commands : stage[d] = "running"})
        BY CommandsAssumption, FS_Subset
      <4> QED BY <4>1, FS_CardinalityType
    <3>2. PICK d \in Commands : stage[d] = "running"
      BY <2>5, <3>1, FullPoolRuns, WorkersAssumption
    <3>3. told[d] = 0 /\ Ready(d) BY <1>1, <3>2 DEF Ready
    <3> QED BY <3>2, <3>3
  <2> QED BY <2>2, <2>3, <2>4, <2>5
<1> QED BY <1>2, <1>3

\* Every step of a command that was issued lowers what it has left.
LEMMA NextNearer == IInv /\ [Next]_vars => OnlyNearer
<1> SUFFICES ASSUME IInv, [Next]_vars, NEW c \in Commands, stage[c] # "idle"
             PROVE  \/ StepsLeft(c)' < StepsLeft(c)
                    \/ stage'[c] = stage[c] /\ scheduled'[c] = scheduled[c] /\ told'[c] = told[c]
  BY DEF OnlyNearer
<1> USE DEF IInv, TypeOK
<1>1. stage[c] = "over" \/ scheduled[c] = "none" BY DEF ToldOnce
<1>2. ASSUME NEW d \in Commands, NEW s \in {"callback", "promise"}, Execute(d, s)
      PROVE  stage'[c] = stage[c] /\ scheduled'[c] = scheduled[c] /\ told'[c] = told[c]
  <2>1. d # c BY <1>2 DEF Execute, RefuseNotConnected, RejectTypes, AsyncFails, AsyncSent, WorkQueued,
                          BlockingCommand, Begin
  <2> QED BY <1>2, <2>1 DEF Execute, RefuseNotConnected, RejectTypes, AsyncFails, AsyncSent, WorkQueued,
                            BlockingCommand, CallbackDuringExecute
<1>3. ASSUME NEW d \in Commands, d # c,
             StartWork(d) \/ FinishWork(d) \/ Respond(d) \/ Listener(d) \/ Scheduled(d)
      PROVE  stage'[c] = stage[c] /\ scheduled'[c] = scheduled[c] /\ told'[c] = told[c]
  BY <1>3 DEF StartWork, FinishWork, Respond, Listener, Scheduled, CallbackLater
<1>4. CASE StartWork(c)
  <2>1. stage[c] = "queued" /\ stage'[c] \in {"running", "worked"} BY <1>4 DEF StartWork
  <2> QED BY <2>1 DEF StepsLeft
<1>5. CASE FinishWork(c)
  <2>1. stage[c] = "running" /\ stage'[c] = "worked" BY <1>5 DEF FinishWork
  <2> QED BY <2>1 DEF StepsLeft
<1>6. CASE Respond(c) \/ Listener(c)
  <2>1. stage[c] \in {"worked", "listening"} /\ stage'[c] = "over" BY <1>6 DEF Respond, Listener
  <2> QED BY <2>1 DEF StepsLeft
<1>7. CASE Scheduled(c)
  <2>1. /\ stage[c] = "over" /\ scheduled[c] # "none" /\ stage'[c] = "over" /\ scheduled'[c] = "none"
    BY <1>1, <1>7 DEF Scheduled
  <2> QED BY <2>1 DEF StepsLeft
<1>8. CASE CloseClient \/ UNCHANGED vars BY <1>8 DEF CloseClient, vars, perCommand
<1> QED BY <1>2, <1>3, <1>4, <1>5, <1>6, <1>7, <1>8 DEF Next

\* A command that was issued has at most four steps left, loses one with each it
\* takes, has none left only when it is answered, and never waits for others that
\* all wait: what is left of EveryCommandIsAnswered is that steps that can be taken
\* are taken, which is its fairness.
THEOREM AnswersAreDue ==
    Spec => /\ []SomeoneIsReady
            /\ [](\A c \in Commands : stage[c] # "idle" => (StepsLeft(c) = 0 <=> told[c] = 1))
            /\ [][OnlyNearer]_vars
<1>1. IInv => \A c \in Commands : stage[c] # "idle" => (StepsLeft(c) = 0 <=> told[c] = 1)
  <2> SUFFICES ASSUME IInv, NEW c \in Commands, stage[c] # "idle"
               PROVE  StepsLeft(c) = 0 <=> told[c] = 1
    OBVIOUS
  <2>1. stage[c] \in Stages /\ told[c] \in 0 .. 1 /\ (scheduled[c] # "none" => told[c] = 0)
        /\ (stage[c] # "over" => told[c] = 0)
        /\ (stage[c] = "over" /\ scheduled[c] = "none" => told[c] = 1)
    BY DEF IInv, TypeOK, ToldOnce
  <2> QED BY <2>1 DEF StepsLeft, Stages
<1> QED BY <1>1, InvReady, NextNearer, Invariant, PTL DEF Spec

-------------------------------------------------------------------------------
(* The polls of a job: JobPoll                                             *)

(***************************************************************************)
(* Until there is a timer there is one poll, and the answer that settles   *)
(* the promise without one is the only one there will be.                  *)
(***************************************************************************)
Alone ==
    timer = "none" =>
        /\ \A s, t \in Slot : phase[s] # "free" /\ phase[t] # "free" => s = t
        /\ promise # "pending" => \A s \in Slot : phase[s] = "free"

\* The inductive invariant of the polls.
PollIInv ==
    /\ JobTypeOK /\ PositiveIsTrue /\ Alone
    /\ ResolvedMeansDone /\ TimerOnlyWhilePending /\ OneAnswer

USE DEF server, poll

\* One poll, no timer, nothing answered.
LEMMA PollInit == JobInit => PollIInv
<1> SUFFICES ASSUME JobInit PROVE PollIInv
  OBVIOUS
<1>1. PICK s \in Slot : phase = [t \in Slot |-> IF t = s THEN "queued" ELSE "free"]
  BY DEF JobInit
<1>2. JobTypeOK
  BY <1>1 DEF JobInit, JobTypeOK
<1>3. PositiveIsTrue
  BY <1>1 DEF JobInit, PositiveIsTrue
<1>4. Alone
  BY <1>1 DEF JobInit, Alone
<1> QED BY <1>2, <1>3, <1>4 DEF JobInit, PollIInv, ResolvedMeansDone,
                                TimerOnlyWhilePending, OneAnswer

\* The nodes only make progress, which takes nothing back.
LEMMA NodeStep ==
    ASSUME PollIInv, \E n \in Node : TakeUp(n) \/ Finish(n)
    PROVE  PollIInv'
<1>1. PICK n \in Node : TakeUp(n) \/ Finish(n)
  OBVIOUS
<1>2. /\ work' \in [Node -> {"unknown", "busy", "done"}]
      /\ \A m \in Node : work[m] = "done" => work'[m] = "done"
      /\ UNCHANGED <<kind, clientOpen, timer, phase, asked, positive, promise, throws, answers, skipped>>
  BY <1>1 DEF PollIInv, JobTypeOK, TakeUp, Finish
<1>3. Finished => Finished'
  BY <1>2 DEF Finished
<1>4. JobTypeOK'
  BY <1>2 DEF PollIInv, JobTypeOK
<1>5. PositiveIsTrue'
  BY <1>2, <1>3 DEF PollIInv, JobTypeOK, PositiveIsTrue
<1>6. ResolvedMeansDone'
  BY <1>2, <1>3 DEF PollIInv, ResolvedMeansDone
<1> QED BY <1>2, <1>4, <1>5, <1>6 DEF PollIInv, TimerOnlyWhilePending, Alone,
                                      OneAnswer

\* A poll starts by the timer only, so that it need not be alone.
LEMMA PollStartStep ==
    ASSUME PollIInv, NEW s \in Slot, TimerFires(s)
    PROVE  PollIInv'
<1>1. JobTypeOK'
  BY DEF PollIInv, JobTypeOK, TimerFires, StartPoll
<1>2. PositiveIsTrue'
  BY DEF PollIInv, JobTypeOK, PositiveIsTrue, Finished, TimerFires,
         StartPoll
<1>3. UNCHANGED <<kind, work, timer, promise, throws, answers, skipped>> /\ timer = "running"
  BY DEF TimerFires
<1>4. ResolvedMeansDone' /\ TimerOnlyWhilePending' /\ Alone' /\ OneAnswer'
  BY <1>3 DEF PollIInv, ResolvedMeansDone, Finished,
              TimerOnlyWhilePending, Alone, OneAnswer
<1> QED BY <1>1, <1>2, <1>4 DEF PollIInv

\* The steps of a poll that is under way; it stays under way.
LEMMA PollStep ==
    ASSUME PollIInv, NEW s \in Slot,
           ExecutePoll(s) \/ Complete(s) \/ Fail(s) \/ \E n \in Node : AskNode(s, n)
    PROVE  PollIInv'
<1>1. /\ phase[s] # "free" /\ phase'[s] # "free"
      /\ phase' \in [Slot -> {"free", "queued", "asking", "yes", "no", "error"}]
      /\ \A t \in Slot \ {s} : phase'[t] = phase[t]
      /\ UNCHANGED <<kind, work, clientOpen, timer, promise, throws, answers>>
      /\ skipped' \in BOOLEAN
      /\ skipped => skipped'
  BY DEF PollIInv, JobTypeOK, ExecutePoll, Complete, Fail, AskNode
<1>2. /\ asked' \in [Slot -> SUBSET Node] /\ positive' \in [Slot -> SUBSET Node]
      /\ \A t \in Slot : positive'[t] \subseteq asked'[t]
      /\ \A t \in Slot : \A n \in positive'[t] : work[n] = "done"
  <2>1. CASE \E n \in Node : AskNode(s, n)
    BY <2>1 DEF PollIInv, JobTypeOK, PositiveIsTrue, AskNode
  <2>2. CASE ExecutePoll(s) \/ Complete(s) \/ Fail(s)
    BY <2>2 DEF PollIInv, JobTypeOK, PositiveIsTrue, ExecutePoll, Complete,
                Fail
  <2> QED BY <2>1, <2>2
<1>3. phase'[s] = "yes" => Finished \/ (skipped' /\ kind # "index")
  <2>1. CASE ExecutePoll(s)
    BY <2>1 DEF PollIInv, JobTypeOK, ExecutePoll, HasCompleted
  <2>2. CASE Complete(s)
    <3>1. phase'[s] = "yes" => positive[s] = Node
      BY <2>2 DEF PollIInv, JobTypeOK, Complete, HasCompleted
    <3> QED BY <3>1 DEF PollIInv, PositiveIsTrue, Finished
  <2>3. CASE Fail(s) \/ \E n \in Node : AskNode(s, n)
    BY <2>3 DEF PollIInv, JobTypeOK, Fail, AskNode
  <2> QED BY <2>1, <2>2, <2>3
<1>4. JobTypeOK'
  BY <1>1, <1>2 DEF PollIInv, JobTypeOK
<1>5. PositiveIsTrue'
  BY <1>1, <1>2, <1>3 DEF PollIInv, PositiveIsTrue, Finished
<1>6. Alone'
  BY <1>1 DEF PollIInv, Alone
<1>7. ResolvedMeansDone' /\ TimerOnlyWhilePending' /\ OneAnswer'
  BY <1>1 DEF PollIInv, ResolvedMeansDone, Finished,
              TimerOnlyWhilePending, OneAnswer
<1> QED BY <1>4, <1>5, <1>6, <1>7 DEF PollIInv

\* The reactions: the poll is over, and a timer is started only by the one
\* poll there is, while the promise is pending.
LEMMA PollReactStep ==
    ASSUME PollIInv, NEW s \in Slot, React(s)
    PROVE  PollIInv'
<1>1. /\ phase' = [phase EXCEPT ![s] = "free"]
      /\ phase[s] # "free"
      /\ UNCHANGED <<kind, work, clientOpen, asked, positive, throws, answers, skipped>>
  BY DEF React, ReactDone, ReactNotDone, ReactError
<1>2. /\ timer' \in {"none", "running", "cleared"}
      /\ promise' \in {"pending", "resolved", "rejected"}
      /\ promise # "pending" => promise' = promise
      /\ timer' = "none" => timer = "none"
  BY DEF PollIInv, JobTypeOK, React, ReactDone, ReactNotDone,
         ReactError, ClearTimer, Settle
<1>3. JobTypeOK'
  BY <1>1, <1>2 DEF PollIInv, JobTypeOK
<1>4. PositiveIsTrue'
  BY <1>1 DEF PollIInv, JobTypeOK, PositiveIsTrue, Finished
<1>5. ResolvedMeansDone'
  <2>1. CASE promise' = promise
    BY <1>1, <2>1 DEF PollIInv, ResolvedMeansDone, Finished
  <2>2. CASE promise' # promise /\ ReactDone(s)
    BY <1>1, <2>2 DEF PollIInv, ResolvedMeansDone, PositiveIsTrue,
                      Finished, ReactDone
  <2>3. CASE promise' # promise /\ (ReactNotDone(s) \/ ReactError(s))
    BY <2>3 DEF ReactNotDone, ReactError, Settle, ResolvedMeansDone
  <2> QED BY <2>1, <2>2, <2>3 DEF React
<1>6. TimerOnlyWhilePending'
  BY <1>1 DEF PollIInv, JobTypeOK, TimerOnlyWhilePending, Alone,
              React, ReactDone, ReactNotDone, ReactError, ClearTimer, Settle
<1>7. Alone'
  BY <1>1, <1>2 DEF PollIInv, JobTypeOK, Alone
<1>8. OneAnswer'
  BY <1>1, <1>2 DEF PollIInv, OneAnswer
<1> QED BY <1>3, <1>4, <1>5, <1>6, <1>7, <1>8 DEF PollIInv

\* The callback and a close change nothing of the polls.
LEMMA PollCallbackStep ==
    ASSUME PollIInv, ClientCloses \/ Tell
    PROVE  PollIInv'
<1>1. /\ UNCHANGED <<kind, work, timer, phase, asked, positive, promise, throws, skipped>>
      /\ clientOpen' \in BOOLEAN
      /\ answers' \in {<<>>, <<"error">>, <<"result">>, <<"result", "error">>}
  BY DEF PollIInv, JobTypeOK, ClientCloses, Tell
<1>2. JobTypeOK'
  BY <1>1 DEF PollIInv, JobTypeOK
<1>3. OneAnswer'
  <2>1. CASE ClientCloses
    BY <2>1 DEF PollIInv, OneAnswer, ClientCloses
  <2>2. CASE Tell
    <3>1. answers' = <<"result", "error">> => promise # "rejected" /\ throws
      BY <2>2 DEF Tell
    <3> QED BY <1>1, <2>2, <3>1 DEF PollIInv, JobTypeOK, OneAnswer, Tell
  <2> QED BY <2>1, <2>2
<1> QED BY <1>1, <1>2, <1>3 DEF PollIInv, PositiveIsTrue, ResolvedMeansDone,
                                Finished,
                                TimerOnlyWhilePending, Alone

\* The invariant of the polls holds in every reachable state.
LEMMA PollInvariant == JobSpec => []PollIInv
<1>1. ASSUME PollIInv, [JobNext]_pollVars PROVE PollIInv'
  <2>1. CASE UNCHANGED pollVars
    BY <1>1, <2>1 DEF pollVars, PollIInv, JobTypeOK, PositiveIsTrue,
                      ResolvedMeansDone, Finished,
                      TimerOnlyWhilePending, Alone, OneAnswer
  <2>2. CASE JobNext
    BY <1>1, <2>2, NodeStep, PollStartStep, PollStep, PollReactStep, PollCallbackStep
       DEF JobNext
  <2> QED BY <1>1, <2>1, <2>2
<1> QED BY PollInit, <1>1, PTL DEF JobSpec

\* Every variable has its type, for any nodes and any number of polls.
THEOREM PollsTypeCorrect == JobSpec => []JobTypeOK
BY PollInvariant, PTL DEF PollIInv

\* wait() resolves only when the work is done everywhere, but for a command
\* skipped after a close (lib/job.js:49-71, lib/index_job.js:93-99).
THEOREM ResolvedIsDone == JobSpec => []ResolvedMeansDone
BY PollInvariant, PTL DEF PollIInv

\* What a poll has counted stays true while it is under way.
THEOREM PollsAreTrue == JobSpec => []PositiveIsTrue
BY PollInvariant, PTL DEF PollIInv

\* No timer runs, and so no poll starts, after the promise is settled,
\* however many polls overlap (lib/job.js:57-67).
THEOREM TimerStops == JobSpec => []TimerOnlyWhilePending
BY PollInvariant, PTL DEF PollIInv

\* The callback gets a second call only after it threw.
THEOREM CallbackHasOneAnswer == JobSpec => []OneAnswer
BY PollInvariant, PTL DEF PollIInv
================================================================================
