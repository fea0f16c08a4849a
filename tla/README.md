# The Aerospike Node.js client, specified

TLA+ specifications of the client in `src/` (the JavaScript of `lib/` and the native add-on of
`src/main/`), the configurations that check them with TLC, and proofs that TLAPS checks. Paths below
are relative to `src/`: `lib/client.js` is `src/lib/client.js` and `src/main/async.cc` is
`src/src/main/async.cc` of the checkout.

`PROJECT.json` is the index: components, runs, the lines every definition stands for (`map`), the
hazards of the code and the properties that cover them, the findings and the theorems.

1. [The system](#1-the-system)
2. [Modules and the code they model](#2-modules-and-the-code-they-model)
3. [Runs, bounds and fairness](#3-runs-bounds-and-fairness)
4. [Proofs](#4-proofs)
5. [Findings](#5-findings)
6. [What is assumed of code outside the repository](#6-what-is-assumed-of-code-outside-the-repository)
7. [What is not modelled](#7-what-is-not-modelled)
8. [Plan](#8-plan)

## 1. The system

The client is a JavaScript library over a C++ add-on over the Aerospike C client. Four kinds of
threads meet in it:

* the **main thread** of node, which runs the JavaScript, the native methods, the listeners of
  asynchronous commands and every libuv callback. Within one turn node first empties the
  `process.nextTick` queue, then the promise reactions, before the next libuv event;
* the **worker threads** of libuv, which run the `execute` part of the commands the C client has only
  in blocking form;
* the **tend thread** of the C client, which raises cluster events and calls the metrics listeners;
* the **event loop** of the C client, which is node's own loop: its wakeup handle keeps node alive
  until it is unreferenced or released.

| Component | State it keeps | Operations | Hard behaviour | What makes it correct |
|---|---|---|---|---|
| **Transactions and their pool** (`lib/transaction.js`, `lib/transaction_pool.js`, `Client.abort/commit`) | a process-wide array of Transaction objects, a capacity, a counter of sizes; per object a native `as_txn`, a destroyed flag and a kept state | construct, tend, abort, commit, destroyAll | objects are reclaimed on the way into every entry point, while the C client moves the native state | nothing read after it was freed or freed twice; open transactions are not reclaimed; the limit holds where capacities are checked; commands start only for live unfinished transactions |
| **Client life cycle and event loop** (`lib/client.js`, `lib/event_loop.js`, `src/main/client.cc`, `src/main/aerospike.cc`) | per client the flag `connected` and the native client; for the process a counter of connected clients, the event loop's registered, released and referenced state, a timer | connect, close, releaseEventLoop | native connect is synchronous, its outcome is not; clients come and go independently; the release is retried by timer | the counter is exact; each native client is closed once; the loop is released only behind the last cluster; node can exit |
| **Command execution** (`lib/commands/command.js`, `src/main/command.cc`, `src/main/async.cc`, `src/main/commands/*.cc`) | per command a native object, a callback or promise, an error record | execute, listeners, worker `execute`/`respond`, close in between | three ways of calling back, one of them during `execute()`; worker threads race close | one answer per command, never during the call; the object lives exactly as long as native code can reach it |
| **Record streams** (`lib/record_stream.js`, `lib/commands/stream_command.js`, `lib/scan.js`, `lib/query.js`, listeners in `async.cc`) | the stream's aborted flag, the saved progress of a paginated scan, native counters | foreach, abort, nextPage, record, end of page, end, error | aborting, pages that fail and are repeated, a page found full only by the next record | nothing skipped, nothing twice, an ordered stream that ends |
| **Aggregation results** (`src/main/commands/query_foreach.cc`) | a queue between two threads, a signal handle, a counter | prepare, populate, signal, process, respond, release | merged signals, a full queue, deletion behind a closing handle | results in order, each once, the end behind the last; the command outlives its callbacks |
| **Cluster events** (`src/main/events.cc`, `AerospikeClient::Close`) | a queue, an `uv_async_t`, `handle->data` shared by two threads without a lock | raise, push, signal, process, close | close between any two steps of the tend thread, close from a handler | memory is there when it is used; no event lost before the close |
| **Jobs** (`lib/job.js`, `lib/index_job.js`, `lib/udf_job.js`) | per wait a promise, an interval timer, the polls under way | wait, poll, answer, failure, timer | polls overlap and their answers overtake each other; the client may close between two polls | resolved only when every node is done; the timer stops for good; the callback gets one answer; waiting ends |
| **Operation builders** (`lib/lists.js`, `maps.js`, `bitwise.js`, `hll.js`, `operations.js`, `exp_operations.js`, `cdt_context.js`; `src/main/*_operations.cc`, `cdt_ctx.cc`) | operation objects and a context that is shared by reference; while converting: allocated bins, contexts and items | build, chain an option, add a context step, serialize, convert | nothing is checked until the add-on converts, property by property, and stops half way | what is documented is accepted, nothing is dropped, exchanged or missing; what is refused is given back |
| **Public calls** (`lib/client.js`, `lib/query.js`, `lib/scan.js`, the argument lists in `lib/commands/`, the type checks of the native methods) | the properties of a query or scan; predicates shared between queries; the options of the index methods | 62 methods in all their documented forms; where, setUdf, foreach, apply, background, operate; the answers that make jobs | callbacks are found by `typeof`; objects are filled in, sent, changed and sent again, and read again when the answer comes | arguments arrive in their place; a request carries what it was given; the job of an answer is that of its request |
| **Metrics** (`src/main/commands/enable_metrics.cc`) | one native command shared by the tend thread and queued work | enable, snapshot, node close, disable | writes and reads without a lock, deletion by the disable work | not modelled, see section 7 |
| **Native commands** (about sixty files in `src/main/commands/`) | records, keys, policies, partial allocations | convert, allocate, hand over, release | every step may fail | their type checks and their life as commands are modelled, their conversions are not |
| **Configuration, policies, conversions, expressions, values, constants, statistics** | none between calls | copy options and data between V8 and C | value ranges | not modelled, see section 7 |

How they interact: every *public call* becomes a command and goes through *command execution*, which
reads `Client.connected`; `operate()` takes what the *operation builders* made. The answer to an index
call or a background request makes a *job*, whose polls are commands again. *Streams* and *aggregation*
are commands whose callback is called many times. `Client.close` reaches into all of them: it clears the
flag new commands look at and the pointer (`as->cluster`) queued work looks at, closes the events handle,
destroys all transactions with the last client, and leaves the event loop. Transactions are shared by all
clients of the process.

## 2. Modules and the code they model

```
TransactionLifecycle  <-- implemented by --  TransactionPool   <- TransactionPool_proofs
                                             ClientLifecycle   <- ClientLifecycle_proofs
                                             CommandExecution  <- CommandExecution_proofs
                                             RecordStream      <- RecordStream_proofs
ResultDelivery        <-- implemented by --  QueryForeach      <- QueryForeach_proofs
                                             ClusterEvents     <- ClusterEvents_proofs
                                             JobPoll           <- CommandExecution_proofs
ClientMethods         <-- extended by -----  PublicCalls       <- PublicCalls_proofs
OperationBuilders, NativeOperations,
CdtContext            <-- extended by -----  Operations        <- Operations_proofs
                                                |
                          OperationTables, BoundedOperations
PublicCalls           <-- extended by -----  MethodTables      <- PublicCalls_proofs
```

Each component has a module of its own, an `MC…` module with `.cfg` files for TLC, and a `…_proofs`
module; the proofs about the polls of a job, which are commands, stand with those about commands. An action is one uninterrupted run of JavaScript, of a libuv
callback, or one access of a native thread to something shared. Definitions introduced by a comment
that begins with *Slip* are not part of any specification: each is a plausible mistake in the
definition it precedes, and is there to show that a property notices it.

### TransactionPool, TransactionLifecycle

`transactions`, `capacity` and `totalReadsAndWrites` are the fields of `TransactionPool`;
`native[t]` is the state of the `as_txn`, `destroyed[t]` and `state[t]` the fields of the object.
`Construct`, `ConstructAfterTend` and `ConstructRefused` are the three ways through the constructor
and `pushTransaction`. `Sizes` are the sums of two capacities the constructor checks; when neither is an
integer it checks nothing and counts them as they are (`lib/transaction.js:78-85`): `UncheckedSizes`
are their sums, which may be negative or `Astray`, the value of a counter that a NaN or a text was added to
(`Plus`). An astray counter compares with the limit either way (`MayBeAbove`, `MayBeWithin`).
`Tend` is `tendTransactions` with the `close()` of everything it reaps;
`DestroyAll` is `removeAllTransactions`. `AskForNothing`, `AlreadyDone`, `Conflict`,
`AskedDestroyed`, `Send` and `SendFailed` are the exits of `Client.abort` and `Client.commit`, each
after the tend they begin with. `NativeStep` is the C client at work, `Listener` is
`async_mrt_listener`. The array is a set: its order only matters to the indices
`removeTransactions` splices out from the last to the first.

`TransactionLifecycle` is what the application may rely on: states only move forward and only for a
command, reclaiming takes finished transactions only, no command starts for a finished or destroyed
one. It does not know the pool.

### ClientLifecycle

`connected[c]` is the JavaScript flag, `cluster[c]` the native client, `counter` is
`_connectedClients`; `initialized`, `released`, `referenced` and `timers` are `lib/event_loop.js`.
`Connect` is the whole synchronous part of `connect()`, with the native connect; `OnConnected` and
`OnConnectError` are its promise reactions; `Close` is all of `close()`, with the native `Close` and
what happens to the event loop; `crashed` holds the client that was closed natively a second time,
which ends the process (`NativeClose`, `src/main/events.cc:142-147`): no step follows (`Running`). `Connect`
is not asked of a client that was closed natively: what the C client makes of it is not known here.
`ReleaseTimer` is the timer of `releaseEventLoop`. Microtasks come before timers and native callbacks, but application code of the same turn may run before either.

### CommandExecution

`stage[c]` follows a command: `queued`, `running` and `worked` on the way through the libuv pool,
`listening` while the C client has it, `over`. `object[c]` is the native command, `scheduled[c]` an
outcome left to `process.nextTick` or a promise reaction, `told[c]` how often the application heard.
`RefuseNotConnected`, `RejectTypes`, `AsyncFails`, `AsyncSent`, `WorkQueued` and `BlockingCommand` are
the exits of `execute()`; `StartWork` evaluates `CanExecute` on the worker; `Respond` and `Listener`
answer and delete.

### RecordStream

`scan[s]` is the native side of a stream, `scanState` the progress `nextPage()` was given,
`ticks` the `process.nextTick` queue, `events[s]` everything stream *s* emitted. `Foreach`,
`ForeachRefused` and `ForeachFails` are the exits of `foreach()`; `RecordEvent`, `PageEnd`, `ScanEnd`
and `ScanError` are the branches of `async_scan_listener` and the pages listeners with the stream
callback they call (and a handler that may abort); `Tick` is node.

### QueryForeach, ResultDelivery

`worker` and `main` are the program counters of the two threads, `results` the queue, `signalled` the
pending `uv_async_send`, `handle` and `object` what has to be closed and deleted. Worker: `StartQuery`,
`Populate`, `Awake`, `Push`, `EndQuery`. Main: `AsyncCallback`, `Process`, `Drained`, `Respond`,
`RespondError`, `RespondEnd`, `Release`. `Abort` schedules an `end` that the stream emits before anything
else happens on the main thread (`AbortEnd`, `Ticked`); the query does not hear of it. `ResultDelivery`
is the promise to the application: results in the order they are made, each once, then one end or one error,
the last event of a stream nobody aborts. After `abort()` an end comes next, and results and the query's own
end or error may follow it, because that is all the code keeps of the promise then.

### ClusterEvents

`tend` is the position of the tend thread in `cluster_event_callback`: its test of `handle->data`, the
push and the signal are separate steps, and so are `DetachQueue`, `CloseCluster` and `HandleClosed` of
the close. The second, unsynchronized read of `handle->data` is a data race; `PushIntoNull` is the
outcome in which it finds NULL.

### JobPoll

`promise` is that of `wait()`, `timer` its interval timer, `phase[s]` a poll under way: queued for
a worker, asking the nodes one after the other (`asked`, `positive`), answered. `TimerFires` starts a poll
whether or not those before it have been answered; `ExecutePoll` is the worker, which skips the poll of a
closed client, `AskNode` one answer of a node; `Complete` and `Fail` end the info command; `React` is the
`then` of one poll, with the decision of `IndexJob`, `UdfJob` or `Job` and what it does to timer and
promise; `Tell` calls the callback of `wait()`.

### OperationBuilders, NativeOperations, CdtContext, Operations, OperationTables

`Builders` has an entry for every function that builds an operation: its class, its opcode, and the
properties it sets with what its documentation asks of each argument. `Reads` has an entry for every
opcode: the properties its converter reads, in order, and the getter it uses for each. `CdtContext` is the
context class: codes with two flag bits, serialization and the way back. `Operations` puts them together:
`Build`, the options chained to what was built (`InvertSelection`, `AndReturn`, `WithContext`,
`WithPolicy`, `OnOverflow`), `AddStep` and `StoreAndLoad` of the context, then `Operate` and the
conversion: `ReadProperty` for every getter that accepts, `RefuseProperty` for the one that does not,
`CallClient` for the call of the C client, `Done`. `held`, `owned` and `leaked` follow what the
converters allocate. A call that throws ends the building: `culprit` names the builder, the call and
whether its documentation allows it. `Selections` are the list operations whose documentation sends to
`invertSelection`, whatever class their builder makes; `Uninvertible` are the four it throws for. Nothing
limits lists, options or contexts there: `BoundedOperations` has the
same actions under the bounds of the runs.

`OperationTables` states what the two tables have to do with each other: every opcode has a converter,
its getters accept what the documentation allows (`LegalValues`), they read what builders and options
leave, and they insist on what cannot be missing. The proofs start from these facts.

### ClientMethods, PublicCalls, MethodTables

`Methods` has an entry for every public method: its parameters, which may be left out, the tests that
find a callback given early, and the arguments of the command. `Native` has the type checks at the
head of every native method. The lines these tables stand for include the comments that declare the
documented forms of each call, because the entries state those forms.

`PublicCalls` makes the calls. `Documented(name)` are the ways the documentation allows a call to be
written, `Shifted` and `Parameters` what the method makes of its arguments, `Sent` what arrives.
`ClientCall` and `IndexCall` are methods of the client. `Create`, `Where`, `SetUdf`, `NextPage`,
`Foreach`, `QueryApplyCall`, `BackgroundCall` and `OperateCall` are the methods of one query or scan, `Create`
with the options it may be given (at most one filter, which the add-on supports, a UDF, `paginate`),
`WhereElsewhere` another query that is given the same predicate, and `Answer` is `convertResult`, which
makes a job. A predicate is an object of its own: `whereWithExp()` and
`whereWithIndexName()` write into it (`given`), and the add-on looks at what it finds there
(`ConvertedFilter`).

`MethodTables` states what an entry has to be like for every documented call to arrive: parameters have
different names; wherever a callback may come early the method looks for it, and puts in its place
something that may stand there; what is required is given before a callback can come; and what is sent
is of the name and the sort that the native method checks. The proof starts from these facts.

## 3. Runs, bounds and fairness

| Run | What it shows | Bounds and why they are enough |
|---|---|---|
| `txn_pool` | the pool is sound, its counter is the size of what it holds unless unchecked capacities made it no number, and the limit binds while all were checked; open transactions are never reclaimed; the capacity grows only when it must; `TransactionLifecycle` is implemented | 3 transactions, 2 commands, initial capacity 1, limit 3, a checked size 3, unchecked ones -2 (two negative fractions) and astray: the pool goes above its capacity with finished and unfinished members, doubles, passes the limit, reclaims, refuses, and a counter that is no number is reached, kept and carried along; two commands may race for one transaction. The `VIEW` leaves out how a call ended, which no action and no property reads |
| `client_safety` | exact counter, one native close per client, release only behind the last cluster, node can exit, a requested release happens | 3 clients, 1 `connect()` and 2 `close()` each: a connect, a failed connect and a close of three different clients in any order, a second close of each, a connect callback that throws and the crash its client can then cause |
| `command_safety` | object lifetime, one answer, no callback during the call, every command answered | 3 commands, 1 worker: one runs, one waits, one goes another way |
| `stream_pages` | order of events, page bound, one record at most after `abort()`, nothing skipped or repeated, completeness, every stream finishes | 3 records, pages of 2, 3 streams, 1 abort: a full page, a short page, a failed page and its repetition, two streams at once after an abort |
| `foreach_safety` | order of results, object lifetime, `ResultDelivery` is implemented, aborted or not, the query finishes | 5 results, queue of 2, a signal every 2: the queue fills and overflows, several signals merge, a rest is left for `respond()` |
| `events` | memory is there when used, no event lost, queued events emitted, the handle released | 4 events: some emitted, some queued, one in the hands of the tend thread when close comes |
| `job_poll` | a job resolves only when it is done, the timer stops for good, waiting ends | 2 nodes that finish in any order, 2 polls at a time, the three kinds of job: a late "not yet" behind a "done", a close in between |
| `operations` | documented calls do not throw (the inversion of four list operations apart) and are converted, completely, in order, with the context that was meant; incomplete ones are refused and release what they hold; the facts of `OperationTables` | every builder, alone and before or after `lists.append`, `bitwise.insert` and `expop.write`, which leave different things with the as_operations; up to 2 arguments or options that are not plain; contexts of up to 2 steps, with indices of 4 bits where the code has 32, `Half = 8` for 2^31 (what matters is the ends of the range) |
| `public_calls` | every documented way to write every call arrives; requests carry what they were given; jobs are those of their requests; the facts of `MethodTables` | a predicate made with a bin and one without, 2 UDFs, 1 list of operations, 2 requests: something can be left behind and replaced, mixed up or shared, and two answers can be out when the object changes |
| `client_active_loop`, `command_skipped`, `bit_lscan` | the findings of section 5 | the smallest instances that show them |

Every property of a passing run is paired with a slip that TLC finds violating it (`mutants`).

`CHECK_DEADLOCK FALSE` wherever an application that has nothing left to ask may stop, or the tend
thread may crash. `txn_pool` and `operations` are checked for deadlock as well.

**Bounds in the modules.** `MaxConnects`, `MaxCloses`, `MaxAborts`, `MaxResults`, `MaxEvents`, `Slot`,
`MaxOdd`, `MaxSteps` and `MaxRequests` limit what the application, the query or the cluster does; the code
has no such limits. `MaxConnects = 1` is more than a bound: a second `connect()` on one client leaks a
handle and is counted twice (below). In `client_safety` the connect callback of one client of the three may throw (`ThrowingClients`): that leaves
this client connected with its native client closed, and its `close()` ends the process (below).
`NativeMatches` therefore claims one native close of the others only, and that nobody else ends the process.
`ExitAllowed` says nothing of a client whose callback threw, which is never settled; `ReleaseHappens` asks for
the release unless the process has ended. The counter is claimed of all. `PublicCalls` varies how a call is written only while nothing else was done to the
object it is made on (`Untouched`): how arguments are bound to parameters does not depend on the
object. `BoundedOperations` explores lists of two operations, since the converters share nothing but the
as_operations, and varies one of them; its behaviours are behaviours of `Operations` (theorem
`BoundedBehaviours`), which has no bounds.

**Fairness.**
* Node runs what it has queued: ticks, reactions, expired timers, signalled handles
  (`OnConnected`, `OnConnectError`, `ReleaseTimer`, `Scheduled`, `Respond`, `Tick`, `MainStep`,
  `TimerFires`, `React`, `Tell`).
* libuv runs queued work when a thread is free (`StartWork`, `ExecutePoll`), and the operating system schedules
  threads (`WorkerStep`, `TendStep`, `MainStep`).
* The C client answers every command it has accepted, because of its total timeouts, returns from
  blocking calls, and closes its connections (`Listener`, `FinishWork`, `Drained`, `AskNode`, `Complete`).
* The cluster does the work a job waits for (`TakeUp`, `Finish`); without it no wait need end.
* Nothing makes an application call, a node come or go, a command fail or a client close: `Execute`,
  `Connect`, `Close`, `Abort`, `Raise`, `DetachQueue`, `CloseClient`, `ClientCloses` and `Fail` are under no fairness of their own.

Weak fairness is enough: each of these steps stays enabled until it is taken, or is disabled only by
another step of the same thread.

## 4. Proofs

| Module | Theorems | Inductive invariant |
|---|---|---|
| `TransactionPool_proofs` | `TypeCorrect`, `PoolIsSound`, `SendsAreSafe`, `ReclaimIsSafe`, `GrowthIsForced`, `CounterIsAccounted`, `Implementation` | `TypeOK /\ PoolSound`, and with them `Accounted` |
| `ClientLifecycle_proofs`, for any number of `connect()` | `ReleaseIsSafe`, `NobodyIsMissed`, `LoopIsKept` | `TypeOK /\ CounterCovers /\ ReleasedMeansUnused` |
| `ClientLifecycle_proofs`, for one `connect()` per client | `CounterIsExact`, `NativeIsSound`, `ExitIsPossible` | these, and `CounterMatches /\ Phases /\ LoopHeld /\ Blamed` |
| `CommandExecution_proofs` | `TypeCorrect`, `ObjectsAreKeptAndFreed`, `CallbacksAreCalledOnce`, `CallbacksAreAsynchronous`, `SkippedOnlyByClose`, `AnswersAreDue` | `TypeOK /\ ObjectWhileOut /\ ToldOnce`, and `SentWhileOpen` for `SkippedOnlyByClose` |
| `CommandExecution_proofs`, of `JobPoll` | `PollsTypeCorrect`, `ResolvedIsDone`, `PollsAreTrue`, `TimerStops`, `CallbackHasOneAnswer` | `JobTypeOK /\ PositiveIsTrue /\ ResolvedMeansDone /\ TimerOnlyWhilePending /\ Alone /\ OneAnswer` |
| `RecordStream_proofs` | `TypeCorrect`, `PagesSkipNothing`, `RecordsComeOnce`, `EndsAreComplete`, `StreamsAreOrderly` | `TypeOK /\ TicksMatch /\ ProgressOfPages /\ Fresh /\ OneAtATime /\ PassedWasGiven /\ NothingSkipped /\ GivenWasPassed`, and for `Orderly` also `StreamsSound /\ ErrorsAreFirst` |
| `QueryForeach_proofs` | `TypeCorrect`, `ResultsAreInOrder`, `ObjectIsSafe`, `Implementation` | `TypeOK /\ InOrder /\ Threads` |
| `ClusterEvents_proofs` | `TypeCorrect`, `MemoryIsSafe`, `EventsAreInOrder` | `TypeOK /\ NoneLost /\ Stages` |
| `Operations_proofs` | `LegalListsAreAccepted`, `CallsAreInOrder`, `NothingIsDropped`, `NothingIsMissing`, `RefusalsRelease`, `ContextsAreMeant`, `BoundedBehaviours` | `Built /\ Called /\ Progress /\ Stopped`, and for contexts `ContextKept` |
| `PublicCalls_proofs` | `TypeCorrect`, `RequestsAreSound`, `JobsAreSound`, `CallsArrive` | `TypeOK /\ ObjectOfRequests /\ StillMeant /\ JobIsOfItsRequest /\ RequestsAreTheirOwn`, and `CallShape` for the last |

* **TransactionPool.** `PoolSound` is inductive with the types: tending and destroying act only on
  members of the pool, which are alive, so that "destroyed" and "freed" change together. The action
  properties and the refinement follow one action at a time; a `Construct`, `Send` or `Listener` maps
  to the abstract action of its name, every path through the tend to `ReclaimFinished`. `Accounted` compares
  the counter with a sum over the pool. That sum is a recursion over sets, and what the proof needs of it
  (adding, removing, splitting, bounding) are inductions; the library's induction theorems take the
  claim as an operator, which the provers cannot instantiate, so the induction is stated for a *set* of
  good values instead (`NatSetInduction`, `SubsetInduction`, from the well-foundedness of `<`), and each
  claim is the set of numbers or sets it holds of. Nothing is assumed of
  unchecked sizes but that they are integers or `Astray` (which is no integer): the first three conjuncts of
  `Accounted` hold for all of them, since an astray counter stays so and one that is not is a sum of integers.
  The fourth is about checked sizes only: a construction is admitted below the limit and may pass it by its
  own size, and `SizesAssumption`, which the constructor's test for a uint32 justifies, says that there is a
  largest. It says what the limit is worth, not that it binds whatever capacities are given: it does not.
* **ClientLifecycle.** For any number of clients and closes, whichever connect callbacks throw. However often
  `connect()` is called, the counter is never short of a connected client (`CounterCovers`), the release of
  the loop is safe, and whatever lets go of the loop leaves no connected client behind (`LoopIsKept`): what
  `client_active_loop` shows takes a client whose connect reaction is still queued. That the counter is exact, that clients
  are closed natively once and that node can exit has the hypothesis `Once` (`MaxConnects = 1`); without it
  TLC refutes all three, as section 5 says. `Phases` says which reactions, flags and handles go with
  which state of the native client, a throwing callback included. It is needed because `counter` changes in
  reactions and the native client before them. `LoopHeld` says that the wakeup handle is referenced only by
  someone who will let go of it. `Blamed` says that the process ends only by a client whose callback may throw:
  the first native close leaves the others not connected and without reactions that would close again.
* **CommandExecution.** `stage` determines both the object and the number of answers; the invariant
  ties them together and is preserved by each exit of `execute()` separately. `NeverDuringExecute` needs
  no invariant, only the actions. `SkippedOnlyByClose` bounds the finding `command_skipped`: while the client
  is open, every success was sent.
  `AnswersAreDue` is what `EveryCommandIsAnswered` needs besides fairness, for any number of commands and any
  pool: a command that was issued has at most four steps left, loses one with each it takes, has none left
  exactly when it is answered, and while one is not answered some command has a step to take (a full pool is
  full of commands that run, and a loop that is busy has a callback to call).
* **RecordStream.** For any number of records and streams and any page size. `PassedWasGiven` is the heart
  of it: while nobody aborts, what the running scan counts as passed, which is what the next page's
  progress is made of, has been given. `GivenWasPassed` is the converse while no page fails, and so no record
  comes twice. Both need that one scan runs at a time (`OneAtATime`), which needs to know what node has
  queued (`TicksMatch`). For `Orderly`, `StreamsSound` says of each stream what its events, their count, its
  abort and the scan that feeds it have to do with one another, and `ErrorsAreFirst` that a queued error is
  the only one of its stream, which has not ended unless it was aborted. The two action properties count
  the events of a stream; the lemmas on counting say which actions can make a count grow.
* **QueryForeach.** `Threads` says which positions of the two threads go together: `respond()` only
  after `execute()` returned, `given` frozen once an outcome was reported, the handle open while
  anybody may signal it. The lemmas about appending and taking the head of a numbered queue are stated
  once. The refinement maps `done` to `worker = "returned"` and everything else to itself, the end of `abort()`
  included: what waits for a tick (`Ticked`) is every step that gives something to the application.
* **ClusterEvents.** `Stages` relates the position of the tend thread to the close: once the main thread
  has detached the queue, a tend thread that tested earlier still holds handle and log, because
  `CloseCluster` waits for it and `HandleClosed` needs the main thread back in its loop.
* **JobPoll.** For any set of nodes and any number of polls at once. `PositiveIsTrue`: a poll may be stale,
  but what it counts as done is done, because no node takes its work back. `Alone` says that until there
  is a timer there is one poll; it is why the timer is set once.
* **Operations.** For any list of operations with any options, contexts of any length and depth. `Built`: an
  operation is `Sound` from the moment it is built, whatever is chained to it, which says that each of
  its properties holds a legal value as long as the documentation has been followed. `Progress`: a list
  is refused only at an operation that is not legal. `Stopped`: a call that threw was not legal either, or is the
  inversion of one of `Uninvertible`; that the other `Selections` are of the class that can be inverted is the fact
  `SelectionsAreInvertible` of the tables. `Progress`, together with the tables, gives the order and the
  completeness of the calls and what is released. The facts about the tables are assumptions of
  `OperationTables`; they are closed formulas, without a constant or a variable in them, so that TLC, which
  evaluates them in `operations`, decides them outright. For contexts: `ContextKept` says that the items are
  those of the steps; that an index survives `BackToInt32` is arithmetic of remainders for any `Half`
  (`ComesBack`), `MeantItem` that each code is one the switch knows, with the right meaning, and `NoneLeftOut`
  that the loop over the items leaves none out, by the least index at which it would.
* **PublicCalls.** For any predicates, UDFs, operations and number of requests. `StillMeant` ties an
  unanswered, undisturbed request to the object or options its answer will be read from; each method
  either leaves what a job is made of alone or disturbs the requests. `Converted` says what
  `setup_options` makes of a predicate, and that it makes none only of a query without a filter, which is
  why `moduleName()` agrees with what was sent. `CallsArrive` takes a call from its documented form to the
  native method. Its arguments are the first parameters, in their positions, and perhaps a callback
  behind them (`DocumentedForms`, `BoundForms`). The first test that finds a function finds the callback,
  in the parameter it stands in the place of, and clears that one and those behind it (`EarlyIsShifted`):
  each parameter then holds what the call meant for it (`Meant`). `udfRegister`, which goes on after that, and
  the creation of queries and scans are cases of their own. What `Meant` says is enough for the checks of the
  native method (`SentIsAccepted`) and for every argument to arrive (`GivenArrives`). The facts about the
  methods are those of `MethodTables`: closed formulas again, which TLC decides in `public_calls`. The proof
  never looks at how many entries there are: it holds of any table with those facts. `Misread` leaves out the
  three forms of section 5.

**Assumptions on constants.** Sets of commands and transactions and the set of nodes are finite; limits, capacities, page
sizes and queue sizes are natural numbers, positive where the code makes them so (`…Assumption` in each
module). `SizesAssumption`: the sums of checked
capacities are natural numbers and one is the largest. `UncheckedAssumption`, `AstrayAssumption`: those of
unchecked ones are integers or `Astray`, which is no integer; a fraction that is added without
rounding is an integer of a smaller unit. `HalfAssumption`: a positive
number. `StepAssumption`: an index or a rank is an integer, and an order is one the class knows.

**Model-checked only:** the liveness properties, which need fairness and ENABLED. Every invariant and
every action property of the runs is a theorem, those of the runs that expect a violation apart. For
the commands, `AnswersAreDue` proves the part of liveness that no fairness is needed for.

## 5. Findings

Each is a run that ends in a counterexample, and a disagreement between the code and what the
repository says of it.

* `client_active_loop`: another client's `close()` between a native connect and the reaction that counts
  it sees a counter of zero and unreferences the loop (and destroys all transactions) under the
  connecting client; `lib/event_loop.js:60-63` promises that the loop is managed as long as a client is
  active.
* `command_skipped`: a worker-thread command whose client was closed before its turn is skipped, and
  reported as success. It takes the close: `SkippedOnlyByClose` proves that an open client reports no such
  success.
* `bit_lscan`: the converter of `bitwise.lscan` calls `as_operations_bit_rscan`
  (`src/main/bit_operations.cc:403`), so that a scan from the left is carried out as one from the right,
  against `lib/bitwise.js:418`.

Seen while modelling; the models follow the code in most of these, but no run is about them.

*Life cycle, transactions and threads*

* `close()` without `releaseEventLoop` never releases the event loop (`lib/event_loop.js:54-58` says that
  the last close releases it and that this is the default); it is only unreferenced. After a release, a further
  `close()` throws out of `unreferenceEventLoop`, though `test/client.js:69` expects that closing twice
  is allowed.
* A second `connect()` on a connected client makes a second events handle that is never closed, and
  counts the client twice.
* Above the limit a construction is refused even with every pooled transaction finished, as long as the
  pool is not longer than its capacity: nothing is reclaimed then.
* An aborted stream may emit `end` twice, once from `abort()` and once from the scan. The
  `end` of `abort()` carries no progress, so that `nextPage()` after it starts anew (`lib/scan.js:324`): the
  next page may repeat records or pass over them. `NothingSkipped`, `NoRecordTwice` and
  `CompleteMeansAll` are therefore stated while nobody aborts, and no property covers that hazard.
* `async_scan_listener` deletes its command only at the regular end; after an error or an abort nobody
  does. A `query_foreach` with an invalid policy closes a handle it never initialized.
* `close()` frees the native log while listeners of commands under way may still hold it.
* `cluster_event_callback` reads `handle->data` twice without synchronization; `close()` may set it to
  NULL in between.
* A query of a closed client that was waiting for a worker ends without an error, for the same reason
  as `command_skipped`.
* A construction that has to tend the pool first goes on without being counted or kept
  (`lib/transaction_pool.js:46-58`); `destroyAll` then misses the transaction, although
  `typings/index.d.ts:531` says that it destroys all of them. `destroyAll` and the last close also free
  open native transactions whose commands may still be under way.
* A connect callback that throws is handled as a failed connection (`lib/client.js:1995`): the native
  client is closed, the callback called again, `connected` stays true. The next `close()` closes the native
  client a second time: `events_callback_close` finds no handle and writes through a null pointer
  (`src/main/events.cc:142-147`), before the counter is changed. A `close()` between the callback and
  the reaction it leaves queued ends the same way.
* Two capacities neither of which is an integer (1.5, NaN, texts) are not refused: the constructor counts
  them unchecked (`lib/transaction.js:78-85`). With one NaN the counter is NaN for good and the limit, which
  `lib/transaction_pool.js:21-23` calls a safeguard against over-allocation, is never enforced again.
* A stream command that is refused because the client is not connected never emits its error: the
  callback is scheduled without its object (`lib/commands/command.js:176`).
* `abort()` does not stop the results of an aggregation (`query_foreach.cc:115` ignores the answer of the
  stream): the stream emits the `end` of `abort()`, then the other results, then a second `end`. No property
  covers it: `ResultDelivery` allows it.
* A job's callback that throws when it is given the result is called again with the error
  (`lib/job.js:163-165`). A close between a poll and its turn on a worker completes UDF and query jobs.
* The metrics command (`enable_metrics.cc`) is written by the tend thread and read by work on the main
  thread without a lock (lines 372 and 342), and deleted by `respond_disable` (313).

*Operations*
* `OperateAsync` gives the as_operations back only after a successful conversion; values converted before
  a later bad property, the bin of a bit operation with a bad policy and that of an expression operation
  with bad flags are not given back at all.
* An expression that is no array becomes a NULL expression; `touch` ignores a bad time to live;
  `withContext` of maps ignores what is no object.
* `removeByIndex`, `removeByRank`, `getByIndex` and `getByRank` are documented with
  `ListOperation#invertSelection` (`lib/lists.js:748, 993, 1337, 1578`), but make operations for which
  it throws (`lib/lists.js:109`). `LegalCallsAccepted` names them (`Uninvertible`) as its exception.
* `removeByRankRange` is documented with an index and takes a rank; `insertItems` takes a policy its
  comment does not mention.

*Public calls* (`Misread` names the first three, which `DocumentedCallsArrive` therefore leaves out)
* `Query.operate(ops, callback)` and `(ops, policy, callback)`, declared at `typings/index.d.ts:1524` and
  1533, lose the callback.
* `udfRegister(path, null, policy)` takes the null for the policy (`typings/index.d.ts:6259`).
* `client.query(ns, null, options)` drops the options (`lib/query.js:202`); `client.scan(ns, null)`
  throws.
* The comments on `grantRoles` and `revokeRoles` call the roles optional (`lib/client.js:723, 1035`); the native
  check and `typings/index.d.ts` require them, and so does `Methods`.
* The documented use of `whereWithExp()` and `whereWithIndexName()` with a predicate made for a bin is
  refused by `setup_options` (`query.cc:111-127`), which throws but goes on, so that the query is sent
  all the same. The two methods write into the predicate, which another query may hold.
* The operations and the UDF of an earlier call stay in a query and are sent along with the next
  `background()` or `operate()`. `foreach()` never passes a context (`lib/query.js:613`).
* The bin name in `query.cc:323-329` is never freed. Pages that go on from saved progress allocate their
  query or scan twice, and `scan_pages.cc:61` leaves them behind when it fails; it also dereferences a policy that may be null.
* `truncate` for a promise needs `beforeNanos`; `batchApply` with an early callback resets both
  policies; the typed index methods write `datatype` into the caller's options.
* A request of `info` as long as its buffer is cut (`info_foreach.cc`, `as_strlcpy`).

## 6. What is assumed of code outside the repository

* The C client calls a scan listener no more after an error or after the listener answered false (the
  pages listeners rely on it: they free what they use); it passes records one at a time and serializes
  the progress of those the listener answered true for.
* `as->cluster` is NULL once `aerospike_close` has returned (a worker that looks before counts as before
  the close); `aerospike_close` returns when the tend thread
  has ended; the cluster is counted by `as_async_get_cluster_count` until its connections are closed.
* The nodes of a cluster finish an index, a UDF registration or a background scan in any order and never
  take it back.
* The C client takes over what it is handed with an operation, and calls nothing back.
* A cluster calls its event callback with the user data it was connected with.
* A commit verifies and then commits or aborts, an abort aborts, and a command changes nothing that can
  still be read once its transaction is destroyed.
* Calls of `uv_async_send` are merged while one is pending, do nothing on a closing handle, and no
  callback of a handle follows `uv_close`.

## 7. What is not modelled

* Configuration, policies, conversions, expressions, value classes, error objects, the parser of info
  answers, constants and type declarations: pure functions from data to data, most of them recursive
  over V8 values, without state between calls. An expression is an opaque value in `Operations` and
  `PublicCalls`.
* Statistics, logging, node lists and seed hosts: single calls into the C client.
* The partitions and policies of scans and queries; what an event, a record or a result contains.
* What the C client does with memory it was given, beyond section 6.
* Metrics. What can go wrong there depends on how the C client and libuv order calls from the tend
  thread, work of several pool threads and the close of the cluster, none of which this repository
  decides; the hazard is listed.
* What each native command converts and allocates before it hands over; `CommandExecution` has each
  style of command once.

## 8. Plan

Done, in this order: `TransactionPool` implementing `TransactionLifecycle`, `ClientLifecycle`,
`CommandExecution`, `RecordStream`, `QueryForeach` implementing `ResultDelivery`, `ClusterEvents`,
`JobPoll`, `Operations`, `PublicCalls`.

Left, the most valuable first:

1. `NativeCommands`: the steps every native command goes through (conversions that may fail, allocation,
   handing over, release on each exit), in families: single record, batch, scan, query, worker thread,
   blocking. To show: each resource is released once on every exit, and that it implements
   `CommandExecution`.
2. `Metrics`, with the orders of libuv and the C client as assumptions.
3. The expression builders as a table like `Builders`, with what `expressions.cc` makes of them.

Compositions worth having: `ClientLifecycle` with `CommandExecution` (close and the counter against
commands in the pool), and with `TransactionPool` (the last close destroys all transactions); `JobPoll` with
`PublicCalls` (the job made of an answer that came late).
