---------------------------- MODULE TransactionPool ----------------------------
(***************************************************************************)
(* The process-wide pool of multi-record transactions.                     *)
(*                                                                         *)
(* lib/transaction.js makes a Transaction object around a native as_txn,   *)
(* lib/transaction_pool.js keeps the objects so that the native memory of  *)
(* finished ones can be reclaimed, and Client.abort and Client.commit      *)
(* (lib/client.js) reclaim on the way and then hand the native transaction *)
(* to the C client, which changes its state while the command is under way *)
(* and answers through async_mrt_listener (src/main/async.cc).             *)
(*                                                                         *)
(* Every action is one uninterrupted run of JavaScript or of a libuv       *)
(* callback.  The array of the pool is the set of its elements: its order  *)
(* only matters to the indices removeTransactions splices out, from the    *)
(* last to the first.  A transaction's size is its reads plus its writes   *)
(* capacity.  The constructor checks the range of two integers and refuses *)
(* an integer with something else, but keeps two capacities neither of     *)
(* which is an integer as they are: fractions, negative ones too, null,    *)
(* NaN, infinities, texts.                                                 *)
(***************************************************************************)
EXTENDS Integers, FiniteSets, FiniteSetsExt

CONSTANTS Txns,             \* the Transaction objects ever made
          Cmds,             \* slots for abort and commit commands under way
          Sizes,            \* the sizes of two capacities that are checked
          UncheckedSizes,   \* what two capacities that are not may add up to
          Astray,           \* a sum that is no exact number, see Plus
          ReadWriteLimit,   \* readWriteLimit, 500_000 in the code
          InitialCapacity   \* the default capacity, 128 in the code

\* Two capacities that are checked are in the range of a uint32: there is a largest size.
ASSUME SizesAssumption == Sizes \subseteq Nat /\ \E m \in Sizes : \A s \in Sizes : s <= m
ASSUME UncheckedAssumption == UncheckedSizes \subseteq Int \cup {Astray}
ASSUME AstrayAssumption == Astray \notin Int
ASSUME LimitAssumption == ReadWriteLimit \in Nat
ASSUME CapacityAssumption == InitialCapacity \in Nat \ {0}
ASSUME TxnsAssumption == IsFiniteSet(Txns)

VARIABLES
    transactions,         \* the pooled objects
    capacity,             \* the length above which the pool reclaims
    totalReadsAndWrites,  \* the counter compared with the limit
    size,                 \* size[t]: readsCapacity + writesCapacity
    native,               \* native[t]: state of the as_txn, "none" or "freed"
    destroyed,            \* destroyed[t]: the JavaScript flag
    state,                \* state[t]: the state kept when t was destroyed
    request,              \* request[c]: the native command in slot c
    outcome               \* the latest entry point called and how it ended

vars == <<transactions, capacity, totalReadsAndWrites, size, native, destroyed,
          state, request, outcome>>

Live       == {"OPEN", "VERIFIED", "COMMITTED", "ABORTED"}
Finished   == {"COMMITTED", "ABORTED"}
Unfinished == {"OPEN", "VERIFIED"}
NoRequest  == [txn |-> "none", op |-> "none"]
Requests   == [txn : Txns, op : {"abort", "commit"}]
Outcomes   == [call : {"none", "construct", "abort", "commit", "destroyAll"},
               how  : {"none", "constructed", "refused", "returned", "threw", "sent",
                       "failed", "done"}]

Ended(call, how) == outcome' = [call |-> call, how |-> how]

-------------------------------------------------------------------------------
(* Transaction objects                                                     *)

\* Slip: asking the native transaction whether or not it still exists.
GetState_AlwaysNative(t) == native[t]

GetState(t) == IF destroyed[t] THEN state[t] ELSE native[t]

TotalSize(S) == MapThenSumSet(LAMBDA t : size[t], S)

(***************************************************************************)
(* JavaScript's + and - on sizes.  A sum with a NaN, an infinity or a      *)
(* fraction that is rounded is no longer the sum, and a text is appended,  *)
(* to be read as another number by the next subtraction: from then on the  *)
(* counter is any value at all.  (What cannot be added, a BigInt or a      *)
(* Symbol, throws before it changes anything.)                             *)
(***************************************************************************)
Plus(a, b) == IF Astray \in {a, b} THEN Astray ELSE a + b

\* How a counter may compare with the limit: one that is astray either way (NaN and most
\* texts are not above it).
MayBeAbove(total)  == total # Astray => total > ReadWriteLimit
MayBeWithin(total) == total # Astray => total <= ReadWriteLimit

(***************************************************************************)
(* Transaction.close() of every member of S: the state is kept, the sizes  *)
(* are given back and the native transaction is destroyed, each only for   *)
(* an object not destroyed before.                                         *)
(***************************************************************************)
Closing(S) == {t \in S : ~destroyed[t]}

\* Slip: prepareToClose without the subtraction.
TotalAfterClose_NothingGivenBack(S) == totalReadsAndWrites

TotalAfterClose(S) ==
    IF totalReadsAndWrites = Astray \/ \E t \in Closing(S) : size[t] = Astray
    THEN Astray
    ELSE totalReadsAndWrites - TotalSize(Closing(S))

NativeAfterClose(S) == [t \in Txns |-> IF t \in Closing(S) THEN "freed" ELSE native[t]]

CloseObjects(S) ==
    /\ destroyed' = [t \in Txns |-> destroyed[t] \/ t \in S]
    /\ state' = [t \in Txns |-> IF t \in Closing(S) THEN native[t] ELSE state[t]]

-------------------------------------------------------------------------------
(* The pool                                                                *)

\* Slip: a verified transaction counts as completed.
Reaped_NotOpen ==
    IF Cardinality(transactions) > capacity
    THEN {t \in transactions : GetState(t) # "OPEN"}
    ELSE {}

(***************************************************************************)
(* What tendTransactions() closes and removes: nothing while the pool is   *)
(* within its capacity, its finished members above it.  A pool that is     *)
(* still too long doubles its capacity.                                    *)
(***************************************************************************)
Reaped ==
    IF Cardinality(transactions) > capacity
    THEN {t \in transactions : GetState(t) \in Finished}
    ELSE {}

\* Slip: the length is compared before the finished ones are removed.
CapacityAfterTend_BeforeRemoval ==
    IF Cardinality(transactions) > capacity THEN 2 * capacity ELSE capacity

CapacityAfterTend ==
    IF Cardinality(transactions \ Reaped) > capacity THEN 2 * capacity ELSE capacity

\* tendTransactions(), and the native transactions created right after it.
Tend(born) ==
    /\ CloseObjects(Reaped)
    /\ capacity' = CapacityAfterTend
    /\ transactions' = transactions \ Reaped
    /\ totalReadsAndWrites' = TotalAfterClose(Reaped)
    /\ native' = [t \in Txns |-> IF t \in born THEN "OPEN" ELSE NativeAfterClose(Reaped)[t]]

\* The size is counted, the object is kept and its native transaction created, with the
\* capacities that were checked or with the native defaults.
Keep(t, s) ==
    /\ native[t] = "none"
    /\ totalReadsAndWrites' = Plus(totalReadsAndWrites, s)
    /\ transactions' = transactions \cup {t}
    /\ size' = [size EXCEPT ![t] = s]
    /\ native' = [native EXCEPT ![t] = "OPEN"]
    /\ Ended("construct", "constructed")
    /\ UNCHANGED <<capacity, destroyed, state, request>>

(***************************************************************************)
(* new Transaction(reads, writes) while the counter is within the limit:   *)
(* pushTransaction counts the sizes and keeps the object, and the          *)
(* constructor then creates the native transaction.                        *)
(***************************************************************************)
Construct(t, s) ==
    /\ MayBeWithin(totalReadsAndWrites)
    /\ Keep(t, s)

(***************************************************************************)
(* Above the limit pushTransaction tends the pool; when that brings the    *)
(* counter down the constructor goes on, but the branch that counts and    *)
(* keeps the object is the other one.                                      *)
(***************************************************************************)
ConstructAfterTend(t, s) ==
    /\ native[t] = "none"
    /\ MayBeAbove(totalReadsAndWrites)
    /\ Reaped # {}
    /\ MayBeWithin(TotalAfterClose(Reaped))
    /\ Tend({t})
    /\ size' = [size EXCEPT ![t] = s]
    /\ Ended("construct", "constructed")
    /\ UNCHANGED request

\* Still above the limit: RangeError, and no object.
ConstructRefused ==
    /\ MayBeAbove(totalReadsAndWrites)
    /\ MayBeAbove(TotalAfterClose(Reaped))
    /\ Tend({})
    /\ Ended("construct", "refused")
    /\ UNCHANGED <<size, request>>

\* Slip: resetTransactions() left out.
DestroyAll_KeepsArray ==
    /\ CloseObjects(transactions)
    /\ totalReadsAndWrites' = TotalAfterClose(transactions)
    /\ native' = NativeAfterClose(transactions)
    /\ Ended("destroyAll", "done")
    /\ UNCHANGED <<transactions, capacity, size, request>>

\* removeAllTransactions(), from Transaction.destroyAll() or the last Client.close().
DestroyAll ==
    /\ CloseObjects(transactions)
    /\ totalReadsAndWrites' = TotalAfterClose(transactions)
    /\ native' = NativeAfterClose(transactions)
    /\ transactions' = {}
    /\ Ended("destroyAll", "done")
    /\ UNCHANGED <<capacity, size, request>>

-------------------------------------------------------------------------------
(* Client.abort and Client.commit                                          *)

Outcome(op) == IF op = "abort" THEN "ABORTED" ELSE "COMMITTED"

\* The pool is tended first, so the checks read the state after it.
Asked(op, how) ==
    /\ Tend({})
    /\ Ended(op, how)
    /\ UNCHANGED size

AskForNothing(op) ==
    /\ Asked(op, "threw")
    /\ UNCHANGED request

AlreadyDone(op, t) ==
    /\ GetState(t) = Outcome(op)
    /\ Asked(op, "returned")
    /\ UNCHANGED request

Conflict(op, t) ==
    /\ GetState(t) \in Finished \ {Outcome(op)}
    /\ Asked(op, "threw")
    /\ UNCHANGED request

AskedDestroyed(op, t) ==
    /\ GetState(t) \in Unfinished
    /\ destroyed[t]
    /\ Asked(op, "threw")
    /\ UNCHANGED request

\* Slip: no getDestroyed() check.
Send_NoDestroyedCheck(op, t, c) ==
    /\ GetState(t) \in Unfinished
    /\ request[c] = NoRequest
    /\ request' = [request EXCEPT ![c] = [txn |-> t, op |-> op]]
    /\ Asked(op, "sent")

(***************************************************************************)
(* The command reaches the C client and is under way, or it is answered    *)
(* with an error at once (not connected, or a status other than OK).       *)
(***************************************************************************)
Send(op, t, c) ==
    /\ GetState(t) \in Unfinished
    /\ ~destroyed[t]
    /\ request[c] = NoRequest
    /\ request' = [request EXCEPT ![c] = [txn |-> t, op |-> op]]
    /\ Asked(op, "sent")

SendFailed(op, t) ==
    /\ GetState(t) \in Unfinished
    /\ ~destroyed[t]
    /\ Asked(op, "failed")
    /\ UNCHANGED request

-------------------------------------------------------------------------------
(* The C client                                                            *)

(***************************************************************************)
(* The native state moves while a command is under way: a commit verifies  *)
(* and then commits or gives up by aborting, an abort aborts.  A command   *)
(* whose transaction was destroyed meanwhile changes nothing that can      *)
(* still be read.                                                          *)
(***************************************************************************)
NativeStep(c) ==
    /\ request[c] # NoRequest
    /\ LET t == request[c].txn IN
          \/ /\ request[c].op = "commit"
             /\ \/ native[t] = "OPEN" /\ native' = [native EXCEPT ![t] = "VERIFIED"]
                \/ native[t] = "VERIFIED" /\ native' = [native EXCEPT ![t] = "COMMITTED"]
          \/ /\ native[t] \in Unfinished
             /\ native' = [native EXCEPT ![t] = "ABORTED"]
    /\ UNCHANGED <<transactions, capacity, totalReadsAndWrites, size, destroyed, state,
                   request, outcome>>

\* async_mrt_listener: the callback is called and the command deleted.
Listener(c) ==
    /\ request[c] # NoRequest
    /\ request' = [request EXCEPT ![c] = NoRequest]
    /\ UNCHANGED <<transactions, capacity, totalReadsAndWrites, size, native, destroyed,
                   state, outcome>>

-------------------------------------------------------------------------------
Init ==
    /\ transactions = {}
    /\ capacity = InitialCapacity
    /\ totalReadsAndWrites = 0
    /\ size = [t \in Txns |-> 0]
    /\ native = [t \in Txns |-> "none"]
    /\ destroyed = [t \in Txns |-> FALSE]
    /\ state = [t \in Txns |-> "none"]
    /\ request = [c \in Cmds |-> NoRequest]
    /\ outcome = [call |-> "none", how |-> "none"]

Next ==
    \/ \E t \in Txns, s \in Sizes \cup UncheckedSizes : Construct(t, s) \/ ConstructAfterTend(t, s)
    \/ ConstructRefused
    \/ DestroyAll
    \/ \E op \in {"abort", "commit"} :
          \/ AskForNothing(op)
          \/ \E t \in Txns :
                \/ AlreadyDone(op, t)
                \/ Conflict(op, t)
                \/ AskedDestroyed(op, t)
                \/ \E c \in Cmds : Send(op, t, c)
                \/ SendFailed(op, t)
    \/ \E c \in Cmds : NativeStep(c) \/ Listener(c)

Spec == Init /\ [][Next]_vars

-------------------------------------------------------------------------------
(* Properties                                                              *)

\* The type of every variable but the counter, which Accounted fixes.
TypeOK ==
    /\ transactions \subseteq Txns
    /\ capacity \in Nat
    /\ size \in [Txns -> Int \cup {Astray}]
    /\ native \in [Txns -> Live \cup {"none", "freed"}]
    /\ destroyed \in [Txns -> BOOLEAN]
    /\ state \in [Txns -> Live \cup {"none"}]
    /\ request \in [Cmds -> Requests \cup {NoRequest}]
    /\ outcome \in Outcomes

(***************************************************************************)
(* A pooled object has a native transaction behind it, and an object says  *)
(* it is destroyed exactly when its native transaction is gone: whatever   *)
(* order reclaiming, destroying and committing come in, getState() never   *)
(* reads a freed as_txn and close() never frees one twice.                 *)
(***************************************************************************)
PoolSound ==
    /\ \A t \in transactions : native[t] \in Live
    /\ \A t \in Txns : destroyed[t] <=> native[t] = "freed"
    /\ \A t \in Txns : native[t] = "none" => state[t] = "none"

\* The transactions that were constructed.
Made == {t \in Txns : native[t] # "none"}

(***************************************************************************)
(* The counter that is compared with the limit is the size of what the     *)
(* pool holds, after any sequence of constructions, reclaims and           *)
(* destructions (pushTransaction adds, prepareToClose subtracts), or it    *)
(* has gone astray, as it does when a transaction is kept whose capacities *)
(* were not checked and add up to no number, and only then.  The limit is  *)
(* tested before the new sizes are added: while every transaction was made *)
(* with capacities that are checked, the pool may pass it by one of them   *)
(* at most.                                                                *)
(***************************************************************************)
Accounted ==
    /\ \A t \in transactions : size[t] = Astray => totalReadsAndWrites = Astray
    /\ totalReadsAndWrites = Astray => \E t \in Made : size[t] = Astray
    /\ totalReadsAndWrites # Astray => totalReadsAndWrites = TotalSize(transactions)
    /\ (\A t \in Made : size[t] \in Sizes)
          => TotalSize(transactions) <= ReadWriteLimit + Max(Sizes)

(***************************************************************************)
(* Client.abort and Client.commit hand a native transaction to the C       *)
(* client only while it exists and is not finished, although they tend the *)
(* pool, which destroys transactions, before they look at it.              *)
(***************************************************************************)
SentOnlyUnfinished ==
    [][\A c \in Cmds :
          request[c] = NoRequest /\ request'[c] # NoRequest
              => native'[request'[c].txn] \in Unfinished]_vars

(***************************************************************************)
(* Reclaiming never takes a transaction that is still in use: an object    *)
(* that is open or verified is destroyed only when the application (or the *)
(* last close) destroys all of them.                                       *)
(***************************************************************************)
ReclaimSparesOpen ==
    [][(\E t \in Txns : native[t] \in Unfinished /\ destroyed'[t])
          => transactions' = {} /\ outcome'.call = "destroyAll"]_vars

(***************************************************************************)
(* The pool doubles its capacity only when it is full of transactions that *)
(* cannot be reclaimed, so a workload that finishes its transactions never *)
(* makes it grow.                                                          *)
(***************************************************************************)
GrowsOnlyWhenFullOfOpen ==
    [][capacity' # capacity
          => /\ capacity' = 2 * capacity
             /\ Cardinality(transactions') > capacity
             /\ \A t \in transactions' : native'[t] \in Unfinished]_vars

(***************************************************************************)
(* What the application sees of its transactions is TransactionLifecycle:  *)
(* states only move forward, reclaiming is invisible but for               *)
(* getDestroyed(), no command starts for a finished transaction.           *)
(***************************************************************************)
Lifecycle ==
    INSTANCE TransactionLifecycle WITH
        seen   <- [t \in Txns |-> GetState(t)],
        closed <- {t \in Txns : destroyed[t]},
        call   <- outcome.call

ImplementsLifecycle == Lifecycle!Spec
===============================================================================
