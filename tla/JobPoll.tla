-------------------------------- MODULE JobPoll --------------------------------
(***************************************************************************)
(* Waiting for the work the cluster does in the background: Job of         *)
(* lib/job.js with IndexJob and UdfJob.                                    *)
(*                                                                         *)
(* wait() polls the nodes until one poll says that the work is done.  The  *)
(* first poll starts at once; the first answer "not yet" starts an         *)
(* interval timer, and from then on polls start whether or not the ones    *)
(* before have been answered: answers overlap and overtake each other.     *)
(* Whichever answer comes first decides the promise and stops the timer;   *)
(* later ones must change nothing.                                         *)
(*                                                                         *)
(* External: the nodes, which finish in any order, and the info protocol,  *)
(* which asks one node after the other.  A promise keeps its first result. *)
(***************************************************************************)
EXTENDS FiniteSets

CONSTANTS Node,   \* the nodes of the cluster
          Slot    \* bound: polls that may be under way at once

ASSUME NodeAssumption == IsFiniteSet(Node) /\ Node # {}

VARIABLES
    kind,       \* "query" (Job), "index" (IndexJob) or "udf" (UdfJob)
    work,       \* work[n]: "unknown" to the node, "busy" or "done"
    clientOpen, \* the client is connected
    timer,      \* "none", "running" or "cleared"
    phase,      \* phase[s]: "free", "queued", "asking", "yes", "no" or "error"
    asked,      \* asked[s]: the nodes that have answered poll s
    positive,   \* positive[s]: those that said they are done
    promise,    \* "pending", "resolved" or "rejected"
    throws,     \* the callback given to wait() throws
    answers,    \* what that callback was called with: "result", "error"
    skipped     \* history: a poll was executed after the client was closed

server == <<kind, work>>
poll == <<phase, asked, positive>>
pollVars == <<server, clientOpen, timer, poll, promise, throws, answers, skipped>>

Finished == \A n \in Node : work[n] = "done"

-------------------------------------------------------------------------------
(* The cluster                                                             *)

\* Only a secondary index is asked for before every node has heard of it.
TakeUp(n) ==
    /\ work[n] = "unknown"
    /\ work' = [work EXCEPT ![n] = "busy"]
    /\ UNCHANGED <<kind, clientOpen, timer, poll, promise, throws, answers, skipped>>

Finish(n) ==
    /\ work[n] = "busy"
    /\ work' = [work EXCEPT ![n] = "done"]
    /\ UNCHANGED <<kind, clientOpen, timer, poll, promise, throws, answers, skipped>>

ClientCloses ==
    /\ clientOpen
    /\ clientOpen' = FALSE
    /\ UNCHANGED <<server, timer, poll, promise, throws, answers, skipped>>

-------------------------------------------------------------------------------
(* A poll: statusFunction(), which is checkStatus()                        *)

\* A command of a client that is not connected is refused.
StartPoll(s) ==
    /\ phase[s] = "free"
    /\ phase' = [phase EXCEPT ![s] = IF clientOpen THEN "queued" ELSE "error"]
    /\ asked' = [asked EXCEPT ![s] = {}]
    /\ positive' = [positive EXCEPT ![s] = {}]

\* setInterval(poll, pollInterval)
TimerFires(s) ==
    /\ timer = "running"
    /\ StartPoll(s)
    /\ UNCHANGED <<server, clientOpen, timer, promise, throws, answers, skipped>>

\* Slip: an index job without its test for an empty answer.
HasCompleted_NoLength(k, nodes, ready) == ready = nodes

\* hasCompleted() of the three kinds, of the answers of a set of nodes.
HasCompleted(k, nodes, ready) ==
    /\ ready = nodes
    /\ k # "udf" => nodes # {}

\* The worker thread.  After a close the command is skipped and still answers:
\* infoAll with no responses, JobInfo with a job_info nobody has written.
ExecutePoll(s) ==
    /\ phase[s] = "queued"
    /\ \/ /\ clientOpen
          /\ phase' = [phase EXCEPT ![s] = "asking"]
          /\ UNCHANGED skipped
       \/ /\ ~clientOpen
          /\ \E answer \in IF kind = "query" THEN {"yes", "no"}
                           ELSE {IF HasCompleted(kind, {}, {}) THEN "yes" ELSE "no"} :
                phase' = [phase EXCEPT ![s] = answer]
          /\ skipped' = TRUE
    /\ UNCHANGED <<server, clientOpen, timer, asked, positive, promise, throws, answers>>

\* A node answers; one that does not know the index fails the whole request,
\* which IndexJob.info() takes for one response with load_pct 0.
AskNode(s, n) ==
    /\ phase[s] = "asking" /\ n \notin asked[s]
    /\ IF work[n] = "unknown"
       THEN /\ phase' = [phase EXCEPT ![s] = "no"]
            /\ UNCHANGED <<asked, positive>>
       ELSE /\ asked' = [asked EXCEPT ![s] = @ \cup {n}]
            /\ positive' = [positive EXCEPT ![s] = IF work[n] = "done" THEN @ \cup {n} ELSE @]
            /\ UNCHANGED phase
    /\ UNCHANGED <<server, clientOpen, timer, promise, throws, answers, skipped>>

\* Every node has answered.
Complete(s) ==
    /\ phase[s] = "asking" /\ asked[s] = Node
    /\ phase' = [phase EXCEPT ![s] =
                    IF HasCompleted(kind, asked[s], positive[s]) THEN "yes" ELSE "no"]
    /\ UNCHANGED <<server, clientOpen, timer, asked, positive, promise, throws, answers, skipped>>

\* A node cannot be reached, or its answer cannot be parsed.
Fail(s) ==
    /\ phase[s] = "asking"
    /\ phase' = [phase EXCEPT ![s] = "error"]
    /\ UNCHANGED <<server, clientOpen, timer, asked, positive, promise, throws, answers, skipped>>

-------------------------------------------------------------------------------
(* The reactions of pollUntilDone                                          *)

\* Slip: the timer variable is set back to null.
ClearTimer_Resets == timer' = "none"

ClearTimer == timer' = IF timer = "none" THEN timer ELSE "cleared"

Settle(result) == promise' = IF promise = "pending" THEN result ELSE promise

\* The branch of .then for a poll that found the work done.
ReactDone(s) ==
    /\ phase[s] = "yes"
    /\ phase' = [phase EXCEPT ![s] = "free"]
    /\ ClearTimer
    /\ Settle("resolved")
    /\ UNCHANGED <<server, clientOpen, asked, positive, throws, answers, skipped>>

\* Slip: only the first "not yet" is looked at, and it does not start the timer.
ReactNotDone_NoTimer(s) ==
    /\ phase[s] = "no"
    /\ phase' = [phase EXCEPT ![s] = "free"]
    /\ UNCHANGED <<server, clientOpen, timer, asked, positive, promise, throws, answers, skipped>>

\* The branch for "not yet": a timer that was cleared is still not null.
ReactNotDone(s) ==
    /\ phase[s] = "no"
    /\ phase' = [phase EXCEPT ![s] = "free"]
    /\ timer' = IF timer = "none" THEN "running" ELSE timer
    /\ UNCHANGED <<server, clientOpen, asked, positive, promise, throws, answers, skipped>>

\* .catch
ReactError(s) ==
    /\ phase[s] = "error"
    /\ phase' = [phase EXCEPT ![s] = "free"]
    /\ ClearTimer
    /\ Settle("rejected")
    /\ UNCHANGED <<server, clientOpen, asked, positive, throws, answers, skipped>>

\* Job.wait: the callback sits in .then, and .catch behind it also catches
\* what the callback throws.
Tell ==
    /\ promise # "pending" /\ answers = <<>>
    /\ answers' = IF promise = "rejected" THEN <<"error">>
               ELSE IF throws THEN <<"result", "error">> ELSE <<"result">>
    /\ UNCHANGED <<server, clientOpen, timer, poll, promise, throws, skipped>>

-------------------------------------------------------------------------------
(* wait() has just started its first poll.  A query or a module is known to *)
(* the nodes by then, an index perhaps not.                                *)
JobInit ==
    /\ kind \in {"query", "index", "udf"}
    /\ work \in [Node -> IF kind = "index" THEN {"unknown", "busy", "done"} ELSE {"busy", "done"}]
    /\ clientOpen = TRUE
    /\ timer = "none"
    /\ \E s \in Slot : phase = [t \in Slot |-> IF t = s THEN "queued" ELSE "free"]
    /\ asked = [s \in Slot |-> {}]
    /\ positive = [s \in Slot |-> {}]
    /\ promise = "pending"
    /\ throws \in BOOLEAN
    /\ answers = <<>>
    /\ skipped = FALSE

React(s) == ReactDone(s) \/ ReactNotDone(s) \/ ReactError(s)

JobNext ==
    \/ \E n \in Node : TakeUp(n) \/ Finish(n)
    \/ ClientCloses
    \/ Tell
    \/ \E s \in Slot : TimerFires(s) \/ ExecutePoll(s) \/ Complete(s) \/ Fail(s) \/ React(s)
    \/ \E s \in Slot, n \in Node : AskNode(s, n)

JobSpec == JobInit /\ [][JobNext]_pollVars

\* The nodes do their work, the timer fires, a thread of the pool takes every
\* request, every node answers and every reaction is run.  Nothing forces a
\* failure or a close.
JobFairness ==
    /\ \A n \in Node : WF_pollVars(TakeUp(n)) /\ WF_pollVars(Finish(n))
    /\ WF_pollVars(\E s \in Slot : TimerFires(s))
    /\ \A s \in Slot : WF_pollVars(ExecutePoll(s)) /\ WF_pollVars(Complete(s)) /\ WF_pollVars(React(s))
    /\ \A s \in Slot, n \in Node : WF_pollVars(AskNode(s, n))
    /\ WF_pollVars(Tell)

FairJobSpec == JobSpec /\ JobFairness

-------------------------------------------------------------------------------
(* Properties                                                              *)

\* Type correctness.
JobTypeOK ==
    /\ kind \in {"query", "index", "udf"}
    /\ work \in [Node -> {"unknown", "busy", "done"}]
    /\ clientOpen \in BOOLEAN
    /\ timer \in {"none", "running", "cleared"}
    /\ phase \in [Slot -> {"free", "queued", "asking", "yes", "no", "error"}]
    /\ asked \in [Slot -> SUBSET Node]
    /\ positive \in [Slot -> SUBSET Node]
    /\ promise \in {"pending", "resolved", "rejected"}
    /\ throws \in BOOLEAN
    /\ answers \in {<<>>, <<"error">>, <<"result">>, <<"result", "error">>}
    /\ skipped \in BOOLEAN

\* wait() resolves only when every node has done the work (UDF modules and
\* indexes, lib/index_job.js:96, lib/udf_job.js:67).  The exception is real: a
\* close between a poll and its turn on a worker makes a UDF job, whose every()
\* over no nodes is true, and a query job complete on an answer no node gave;
\* an index job is kept from that by its test for an empty answer.
ResolvedMeansDone ==
    promise = "resolved" => Finished \/ (skipped /\ kind # "index")

\* A poll under way is stale, not wrong: what it counts as done is done.
PositiveIsTrue ==
    \A s \in Slot :
        /\ positive[s] \subseteq asked[s]
        /\ \A n \in positive[s] : work[n] = "done"
        /\ phase[s] = "yes" => Finished \/ (skipped /\ kind # "index")

\* Once the promise is settled the timer is off and stays off, whatever late
\* polls still answer, so that no further poll starts: "not yet" after "done"
\* must not start another timer, which nothing would ever clear
\* (lib/job.js:57-61).
TimerOnlyWhilePending ==
    timer = "running" => promise = "pending"

\* The callback of wait() gets one answer; a second one, an error, only if it
\* threw when it was given the result (lib/job.js:163-165).
OneAnswer ==
    answers = <<"result", "error">> => throws /\ promise = "resolved"

\* Waiting ends: under fairness the promise is settled and its callback told.
WaitEnds == <>(answers # <<>>)

===============================================================================
