------------------------ MODULE TransactionPool_proofs ------------------------
(***************************************************************************)
(* What holds of the transaction pool for every set of transactions, every *)
(* limit and every capacity.  The inductive invariant is TypeOK together   *)
(* with PoolSound, and with Accounted for the counter of reads and writes. *)
(* That counter is a sum over a set: the laws of such sums are proved      *)
(* first, by induction over the size of the set.                           *)
(***************************************************************************)
EXTENDS TransactionPool, FiniteSetTheorems, WellFoundedInduction, TLAPS

IInv == TypeOK /\ PoolSound

-------------------------------------------------------------------------------
(***************************************************************************)
(* Tending keeps the object variables typed and closes exactly the reaped  *)
(* objects, each of which was pooled and finished: close() finds their     *)
(* native transaction still there.                                         *)
(***************************************************************************)
LEMMA ReapedFinished ==
    ASSUME IInv
    PROVE  /\ Reaped \subseteq transactions
           /\ Closing(Reaped) = Reaped
           /\ \A t \in Reaped : native[t] \in Finished
  BY DEF IInv, TypeOK, PoolSound, Reaped, Closing, GetState, Live, Finished

LEMMA TendKeepsInv ==
    ASSUME IInv, NEW born \in SUBSET Txns, Tend(born),
           \A t \in born : native[t] = "none"
    PROVE  /\ transactions' \subseteq Txns
           /\ capacity' \in Nat
           /\ native' \in [Txns -> Live \cup {"none", "freed"}]
           /\ destroyed' \in [Txns -> BOOLEAN]
           /\ state' \in [Txns -> Live \cup {"none"}]
           /\ PoolSound'
  <1>1. /\ Reaped \subseteq transactions
        /\ Closing(Reaped) = Reaped
        /\ \A t \in Reaped : native[t] \in Finished
    BY ReapedFinished
  <1>2. \A t \in Txns : native'[t] = IF t \in born THEN "OPEN"
                                     ELSE IF t \in Reaped THEN "freed" ELSE native[t]
    BY <1>1 DEF Tend, NativeAfterClose
  <1>3. \A t \in Txns : destroyed'[t] = (destroyed[t] \/ t \in Reaped)
    BY DEF Tend, CloseObjects
  <1>4. \A t \in Txns : state'[t] = IF t \in Reaped THEN native[t] ELSE state[t]
    BY <1>1 DEF Tend, CloseObjects
  <1>5. transactions' = transactions \ Reaped
    BY DEF Tend
  <1>6. capacity' \in Nat
    BY DEF Tend, CapacityAfterTend, IInv, TypeOK
  <1>7. native' \in [Txns -> Live \cup {"none", "freed"}]
    BY <1>1 DEF Tend, NativeAfterClose, IInv, TypeOK, Live
  <1>8. destroyed' \in [Txns -> BOOLEAN]
    BY DEF Tend, CloseObjects, IInv, TypeOK
  <1>9. state' \in [Txns -> Live \cup {"none"}]
    BY <1>1 DEF Tend, CloseObjects, IInv, TypeOK, Finished, Live
  <1>10. PoolSound'
    BY <1>1, <1>2, <1>3, <1>4, <1>5 DEF IInv, TypeOK, PoolSound, Live, Finished
  <1> QED BY <1>5, <1>6, <1>7, <1>8, <1>9, <1>10 DEF IInv, TypeOK

\* The invariant holds of the empty pool.
LEMMA InitInv == Init => IInv
  BY CapacityAssumption
     DEF Init, IInv, TypeOK, PoolSound, Live, Requests, NoRequest, Outcomes

-------------------------------------------------------------------------------
(* One lemma per action                                                    *)

LEMMA KeepInv ==
    ASSUME IInv, NEW t \in Txns, NEW s \in Sizes \cup UncheckedSizes, Keep(t, s)
    PROVE  IInv'
  <1>1. TypeOK'
    BY SizesAssumption, UncheckedAssumption DEF IInv, TypeOK, Keep, Ended, Live, Outcomes
  <1>2. PoolSound'
    BY DEF IInv, TypeOK, PoolSound, Keep, Live
  <1> QED BY <1>1, <1>2 DEF IInv

LEMMA ConstructAfterTendInv ==
    ASSUME IInv, NEW t \in Txns, NEW s \in Sizes \cup UncheckedSizes, ConstructAfterTend(t, s)
    PROVE  IInv'
  <1>1. Tend({t}) /\ {t} \in SUBSET Txns /\ \A u \in {t} : native[u] = "none"
    BY DEF ConstructAfterTend
  <1>2. size' \in [Txns -> Int \cup {Astray}]
    BY SizesAssumption, UncheckedAssumption DEF ConstructAfterTend, IInv, TypeOK
  <1>3. request' \in [Cmds -> Requests \cup {NoRequest}] /\ outcome' \in Outcomes
    BY DEF ConstructAfterTend, IInv, TypeOK, Ended, Outcomes
  <1> QED BY <1>1, <1>2, <1>3, TendKeepsInv DEF IInv, TypeOK

LEMMA AskedInv ==
    ASSUME IInv, Tend({}), size' = size,
           request' \in [Cmds -> Requests \cup {NoRequest}], outcome' \in Outcomes
    PROVE  IInv'
  <1>1. {} \in SUBSET Txns /\ \A u \in {} : native[u] = "none"
    OBVIOUS
  <1> QED BY <1>1, TendKeepsInv DEF IInv, TypeOK

LEMMA DestroyAllInv ==
    ASSUME IInv, DestroyAll
    PROVE  IInv'
  <1>1. Closing(transactions) = transactions
    BY DEF IInv, TypeOK, PoolSound, Closing, Live
  <1>2. TypeOK'
    BY <1>1 DEF IInv, TypeOK, PoolSound, DestroyAll, CloseObjects, NativeAfterClose,
                Ended, Outcomes, Live
  <1>3. PoolSound'
    BY <1>1 DEF IInv, TypeOK, PoolSound, DestroyAll, CloseObjects, NativeAfterClose, Live
  <1> QED BY <1>2, <1>3 DEF IInv

LEMMA NativeStepInv ==
    ASSUME IInv, NEW c \in Cmds, NativeStep(c)
    PROVE  IInv'
  <1>1. PICK u \in Txns, to \in Live :
            /\ native[u] \in Unfinished
            /\ native' = [native EXCEPT ![u] = to]
    BY DEF NativeStep, IInv, TypeOK, Requests, NoRequest, Unfinished, Live
  <1>2. UNCHANGED <<transactions, capacity, size, destroyed, state, request, outcome>>
    BY DEF NativeStep
  <1>3. TypeOK'
    BY <1>1, <1>2 DEF IInv, TypeOK, Live
  <1>4. PoolSound'
    BY <1>1, <1>2 DEF IInv, TypeOK, PoolSound, Live, Unfinished
  <1> QED BY <1>3, <1>4 DEF IInv

LEMMA ListenerInv ==
    ASSUME IInv, NEW c \in Cmds, Listener(c)
    PROVE  IInv'
  BY DEF IInv, TypeOK, PoolSound, Listener

LEMMA StepInv == IInv /\ [Next]_vars => IInv'
  <1> SUFFICES ASSUME IInv, [Next]_vars PROVE IInv'
    OBVIOUS
  <1>1. ASSUME NEW t \in Txns, NEW s \in Sizes \cup UncheckedSizes, Construct(t, s) PROVE IInv'
    BY <1>1, KeepInv DEF Construct
  <1>2. ASSUME NEW t \in Txns, NEW s \in Sizes \cup UncheckedSizes, ConstructAfterTend(t, s) PROVE IInv'
    BY <1>2, ConstructAfterTendInv
  <1>3. CASE ConstructRefused
    BY <1>3, AskedInv DEF ConstructRefused, Ended, Outcomes, IInv, TypeOK
  <1>4. CASE DestroyAll
    BY <1>4, DestroyAllInv
  <1>5. ASSUME NEW op \in {"abort", "commit"}, NEW how \in {"returned", "threw", "failed"},
               Asked(op, how), UNCHANGED request
        PROVE  IInv'
    BY <1>5, AskedInv DEF Asked, Ended, Outcomes, IInv, TypeOK
  <1>6. ASSUME NEW op \in {"abort", "commit"}, NEW t \in Txns, NEW c \in Cmds,
               Send(op, t, c)
        PROVE  IInv'
    <2>1. Tend({}) /\ size' = size
      BY <1>6 DEF Send, Asked
    <2>2. request' \in [Cmds -> Requests \cup {NoRequest}]
      BY <1>6 DEF Send, IInv, TypeOK, Requests
    <2>3. outcome' \in Outcomes
      BY <1>6 DEF Send, Asked, Ended, Outcomes
    <2> QED BY <2>1, <2>2, <2>3, AskedInv
  <1>7. ASSUME NEW c \in Cmds, NativeStep(c) PROVE IInv'
    BY <1>7, NativeStepInv
  <1>8. ASSUME NEW c \in Cmds, Listener(c) PROVE IInv'
    BY <1>8, ListenerInv
  <1>9. CASE UNCHANGED vars
    BY <1>9 DEF vars, IInv, TypeOK, PoolSound
  <1> QED
    BY <1>1, <1>2, <1>3, <1>4, <1>5, <1>6, <1>7, <1>8, <1>9
       DEF Next, AskForNothing, AlreadyDone, Conflict, AskedDestroyed, SendFailed

\* Together they are an invariant of the specification.
LEMMA Invariance == Spec => []IInv
  <1>1. Init => IInv
    BY InitInv
  <1>2. IInv /\ [Next]_vars => IInv'
    BY StepInv
  <1> QED BY <1>1, <1>2, PTL DEF Spec
(***************************************************************************)
(* Every variable keeps its type: tending, constructing, destroying and    *)
(* the C client's steps only ever put states in the state variables.       *)
(***************************************************************************)
THEOREM TypeCorrect == Spec => []TypeOK
  <1>1. IInv => TypeOK
    BY DEF IInv
  <1> QED BY <1>1, Invariance, PTL

(***************************************************************************)
(* A pooled object always has its native transaction, and an object is     *)
(* marked destroyed exactly when its native transaction is freed, so       *)
(* close() frees once and getState() never asks a freed transaction.       *)
(***************************************************************************)
THEOREM PoolIsSound == Spec => []PoolSound
  <1>1. IInv => PoolSound
    BY DEF IInv
  <1> QED BY <1>1, Invariance, PTL

-------------------------------------------------------------------------------
(* Sums over finite sets.  An induction is over a set here, the set of      *)
(* what the claim holds of; a claim itself cannot be a parameter.           *)

\* A nonempty set of naturals has a least member.
LEMMA NatLeast ==
    ASSUME NEW T \in SUBSET Nat, T # {}
    PROVE  \E n \in T : \A m \in T : n <= m
  <1> DEFINE R == OpToRel(<, Nat)
  <1>1. IsWellFoundedOn(R, Nat)
    BY NatLessThanWellFounded, Zenon
  <1>2. \E x \in T : \A y \in T : ~ (<<y, x>> \in R)
    <2> HIDE DEF R
    <2> QED BY <1>1, WFMin
  <1>3. \E x \in T : \A y \in T : ~ (y < x)
    BY <1>2, Zenon DEF OpToRel
  <1> QED BY <1>3

\* Induction over the naturals, for a set.
LEMMA NatSetInduction ==
    ASSUME NEW Good \in SUBSET Nat, 0 \in Good, \A n \in Good : n + 1 \in Good
    PROVE  Good = Nat
  <1> SUFFICES ASSUME Nat \ Good # {} PROVE FALSE
    OBVIOUS
  <1>1. PICK n \in Nat \ Good : \A m \in Nat \ Good : n <= m
    <2>1. Nat \ Good \in SUBSET Nat OBVIOUS
    <2> QED BY <2>1, NatLeast
  <1>2. n - 1 \in Nat /\ n - 1 \notin Good
    BY <1>1
  <1> QED BY <1>1, <1>2

\* Induction over the subsets of a finite set, by their size.
LEMMA SubsetInduction ==
    ASSUME NEW S, IsFiniteSet(S), NEW Good,
           \A s \in SUBSET S :
                (\A t \in SUBSET S : Cardinality(t) < Cardinality(s) => t \in Good) => s \in Good
    PROVE  SUBSET S \subseteq Good
  <1> DEFINE Counts == {n \in Nat : \E s \in SUBSET S : Cardinality(s) = n /\ s \notin Good}
  <1>1. \A s \in SUBSET S : Cardinality(s) \in Nat
    BY FS_Subset, FS_CardinalityType
  <1>2. Counts = {}
    <2> SUFFICES ASSUME Counts # {} PROVE FALSE
      OBVIOUS
    <2>1. PICK n \in Counts : \A m \in Counts : n <= m
      <3>1. Counts \in SUBSET Nat OBVIOUS
      <3> HIDE DEF Counts
      <3> QED BY <3>1, NatLeast
    <2>2. PICK s \in SUBSET S : Cardinality(s) = n /\ s \notin Good
      OBVIOUS
    <2>3. PICK t \in SUBSET S : Cardinality(t) < n /\ t \notin Good
      BY <2>2
    <2> QED BY <1>1, <2>1, <2>3
  <1> QED BY <1>1, <1>2

Pick(s) == CHOOSE x \in s : TRUE

\* g is the function MapThenSumSet recurses with: g[s] is the sum of f over s.
Adds(f, g, D) ==
    g = [s \in D |-> IF s = {} THEN 0 ELSE f[Pick(s)] + g[s \ {Pick(s)}]]

Sum(f, S) == (CHOOSE g : Adds(f, g, SUBSET S))[S]

LEMMA Removed ==
    ASSUME NEW s, IsFiniteSet(s), NEW x \in s
    PROVE  /\ IsFiniteSet(s \ {x})
           /\ Cardinality(s) \in Nat /\ Cardinality(s \ {x}) \in Nat
           /\ Cardinality(s \ {x}) = Cardinality(s) - 1
  BY FS_RemoveElement, FS_CardinalityType

\* There is one such function over the subsets of a finite set: level by level.
LEMMA SumExists ==
    ASSUME NEW f, NEW S, IsFiniteSet(S)
    PROVE  \E g : Adds(f, g, SUBSET S)
  <1> DEFINE Level(n) == {s \in SUBSET S : Cardinality(s) <= n}
             Good == {n \in Nat : \E g : Adds(f, g, Level(n))}
  <1>1. \A s \in SUBSET S : IsFiniteSet(s) /\ Cardinality(s) \in Nat
    BY FS_Subset, FS_CardinalityType
  <1>2. 0 \in Good
    <2>1. \A s \in Level(0) : s = {}
      BY <1>1, FS_EmptySet
    <2>2. Adds(f, [s \in Level(0) |-> 0], Level(0))
      BY <2>1 DEF Adds
    <2> QED BY <2>2
  <1>3. ASSUME NEW n \in Good PROVE n + 1 \in Good
    <2>1. PICK g : Adds(f, g, Level(n))
      OBVIOUS
    <2> DEFINE h == [s \in Level(n + 1) |->
                        IF s = {} THEN 0 ELSE f[Pick(s)] + g[s \ {Pick(s)}]]
    <2>2. ASSUME NEW s \in Level(n + 1), s # {}
          PROVE  s \ {Pick(s)} \in Level(n)
      <3>1. Pick(s) \in s
        BY <2>2 DEF Pick
      <3> QED BY <1>1, <3>1, Removed
    <2>3. \A s \in Level(n) : s \in Level(n + 1)
      BY <1>1
    <2>4. \A s \in Level(n) : g[s] = IF s = {} THEN 0 ELSE f[Pick(s)] + g[s \ {Pick(s)}]
      <3> HIDE DEF Level
      <3> QED BY <2>1 DEF Adds
    <2>5. \A s \in Level(n) : h[s] = g[s]
      BY <2>3, <2>4
    <2>6. \A s \in Level(n + 1) : s # {} => h[s \ {Pick(s)}] = g[s \ {Pick(s)}]
      <3> HIDE DEF Level, h
      <3> QED BY <2>2, <2>5
    <2>7. Adds(f, h, Level(n + 1))
      <3> HIDE DEF Level
      <3> QED BY <2>6 DEF Adds
    <2>8. n + 1 \in Nat /\ \E k : Adds(f, k, Level(n + 1))
      <3> HIDE DEF Level, h
      <3> QED BY <2>7
    <2> QED BY <2>8
  <1>4. Good = Nat
    <2>1. Good \in SUBSET Nat OBVIOUS
    <2> HIDE DEF Good
    <2> QED BY <1>2, <1>3, <2>1, NatSetInduction
  <1>5. Cardinality(S) \in Nat /\ Level(Cardinality(S)) = SUBSET S
    BY FS_Subset, FS_CardinalityType
  <1>6. \E g : Adds(f, g, Level(Cardinality(S)))
    <2> HIDE DEF Level
    <2> QED BY <1>4, <1>5
  <1> QED BY <1>5, <1>6

LEMMA SumUnique ==
    ASSUME NEW f, NEW S, IsFiniteSet(S), NEW g, NEW h,
           Adds(f, g, SUBSET S), Adds(f, h, SUBSET S)
    PROVE  g = h
  <1> DEFINE Good == {s \in SUBSET S : g[s] = h[s]}
  <1>1. ASSUME NEW s \in SUBSET S,
               \A t \in SUBSET S : Cardinality(t) < Cardinality(s) => t \in Good
        PROVE  s \in Good
    <2>1. CASE s = {}
      BY <2>1 DEF Adds
    <2>2. CASE s # {}
      <3>1. Pick(s) \in s /\ IsFiniteSet(s)
        BY <2>2, FS_Subset DEF Pick
      <3>2. s \ {Pick(s)} \in Good
        BY <1>1, <3>1, Removed
      <3> QED BY <2>2, <3>2 DEF Adds
    <2> QED BY <2>1, <2>2
  <1>2. SUBSET S \subseteq Good
    <2> HIDE DEF Good
    <2> QED BY <1>1, SubsetInduction
  <1>3. \A s \in SUBSET S : g[s] = h[s]
    BY <1>2
  <1> QED BY <1>3 DEF Adds

\* The equation of the sum.
LEMMA SumStep ==
    ASSUME NEW f, NEW S, IsFiniteSet(S)
    PROVE  Sum(f, S) = IF S = {} THEN 0 ELSE f[Pick(S)] + Sum(f, S \ {Pick(S)})
  <1> DEFINE g == CHOOSE h : Adds(f, h, SUBSET S)
             U == S \ {Pick(S)}
             u == [s \in SUBSET U |-> g[s]]
  <1>1. Adds(f, g, SUBSET S)
    BY SumExists
  <1>2. g[S] = IF S = {} THEN 0 ELSE f[Pick(S)] + g[U]
    <2> HIDE DEF g
    <2> QED BY <1>1 DEF Adds
  <1>3. Adds(f, u, SUBSET U)
    <2> HIDE DEF g
    <2>1. \A s \in SUBSET U : s \in SUBSET S /\ s \ {Pick(s)} \in SUBSET U
      OBVIOUS
    <2> QED BY <1>1, <2>1 DEF Adds
  <1>4. IsFiniteSet(U)
    BY FS_RemoveElement
  <1>5. Sum(f, U) = u[U]
    <2> HIDE DEF u, U
    <2>1. Adds(f, CHOOSE h : Adds(f, h, SUBSET U), SUBSET U)
      BY <1>3
    <2>2. (CHOOSE h : Adds(f, h, SUBSET U)) = u
      BY <1>3, <1>4, <2>1, SumUnique
    <2> QED BY <2>2 DEF Sum
  <1> QED BY <1>2, <1>5 DEF Sum

\* Sums stay among numbers that include 0 and are closed under addition.
LEMMA SumWithin ==
    ASSUME NEW S, IsFiniteSet(S), NEW f, NEW D, 0 \in D, \A a, b \in D : a + b \in D,
           \A x \in S : f[x] \in D
    PROVE  Sum(f, S) \in D
  <1> DEFINE Good == {s \in SUBSET S : Sum(f, s) \in D}
  <1>1. ASSUME NEW s \in SUBSET S,
               \A t \in SUBSET S : Cardinality(t) < Cardinality(s) => t \in Good
        PROVE  s \in Good
    <2>1. IsFiniteSet(s)
      BY FS_Subset
    <2>2. CASE s = {}
      <3>1. Sum(f, s) = 0
        BY <2>1, <2>2, SumStep
      <3> QED BY <3>1
    <2>3. CASE s # {}
      <3>1. Pick(s) \in s
        BY <2>3 DEF Pick
      <3>2. s \ {Pick(s)} \in Good
        BY <1>1, <2>1, <3>1, Removed
      <3>3. Sum(f, s) = f[Pick(s)] + Sum(f, s \ {Pick(s)})
        BY <2>1, <2>3, SumStep
      <3> QED BY <3>1, <3>2, <3>3
    <2> QED BY <2>2, <2>3
  <1>2. SUBSET S \subseteq Good
    <2> HIDE DEF Good
    <2> QED BY <1>1, SubsetInduction
  <1> QED BY <1>2

LEMMA SumInt ==
    ASSUME NEW S, IsFiniteSet(S), NEW f, \A x \in S : f[x] \in Int
    PROVE  Sum(f, S) \in Int
  <1>1. 0 \in Int /\ \A a, b \in Int : a + b \in Int
    OBVIOUS
  <1> QED BY <1>1, SumWithin

LEMMA SumNat ==
    ASSUME NEW S, IsFiniteSet(S), NEW f, \A x \in S : f[x] \in Nat
    PROVE  Sum(f, S) \in Nat
  <1>1. 0 \in Nat /\ \A a, b \in Nat : a + b \in Nat
    OBVIOUS
  <1> QED BY <1>1, SumWithin

\* Any member can be taken out first.
LEMMA SumRemove ==
    ASSUME NEW S, IsFiniteSet(S), NEW f, \A x \in S : f[x] \in Int
    PROVE  \A x \in S : Sum(f, S) = f[x] + Sum(f, S \ {x})
  <1> DEFINE Good == {s \in SUBSET S : \A x \in s : Sum(f, s) = f[x] + Sum(f, s \ {x})}
  <1>1. ASSUME NEW s \in SUBSET S, NEW x \in s,
               \A t \in SUBSET S : Cardinality(t) < Cardinality(s) => t \in Good
        PROVE  Sum(f, s) = f[x] + Sum(f, s \ {x})
    <2> DEFINE p == Pick(s)
    <2>1. p \in s /\ IsFiniteSet(s) /\ f[x] \in Int
      BY FS_Subset DEF Pick
    <2>2. Sum(f, s) = f[p] + Sum(f, s \ {p})
      BY <2>1, SumStep
    <2>3. f[p] \in Int
      BY <2>1
    <2> HIDE DEF p
    <2>4. CASE x = p
      BY <2>2, <2>4
    <2>5. CASE x # p
      <3>1. ASSUME NEW y \in s PROVE s \ {y} \in Good
        <4>1. Cardinality(s \ {y}) < Cardinality(s)
          BY <2>1, Removed
        <4> QED BY <1>1, <4>1
      <3>2. Sum(f, s \ {p}) = f[x] + Sum(f, (s \ {p}) \ {x})
        <4>1. x \in s \ {p} BY <2>5
        <4> QED BY <2>1, <3>1, <4>1
      <3>3. Sum(f, s \ {x}) = f[p] + Sum(f, (s \ {x}) \ {p})
        <4>1. p \in s \ {x} BY <2>1, <2>5
        <4> QED BY <3>1, <4>1
      <3>4. Sum(f, (s \ {p}) \ {x}) = Sum(f, (s \ {x}) \ {p})
        <4>1. (s \ {p}) \ {x} = (s \ {x}) \ {p} OBVIOUS
        <4> QED BY <4>1
      <3>5. Sum(f, (s \ {x}) \ {p}) \in Int
        <4>1. IsFiniteSet((s \ {x}) \ {p}) /\ \A z \in (s \ {x}) \ {p} : f[z] \in Int
          BY <2>1, FS_Subset
        <4> QED BY <4>1, SumInt
      <3> QED BY <2>1, <2>2, <2>3, <3>2, <3>3, <3>4, <3>5
    <2> QED BY <2>4, <2>5
  <1>2. SUBSET S \subseteq Good
    <2>1. \A s \in SUBSET S :
            (\A t \in SUBSET S : Cardinality(t) < Cardinality(s) => t \in Good) => s \in Good
      BY <1>1
    <2> HIDE DEF Good
    <2> QED BY <2>1, SubsetInduction
  <1> QED BY <1>2
\* Functions that agree on a set have the same sum over it.
LEMMA SumSame ==
    ASSUME NEW S, IsFiniteSet(S), NEW f, NEW h, \A x \in S : f[x] = h[x]
    PROVE  Sum(f, S) = Sum(h, S)
  <1> DEFINE Good == {s \in SUBSET S : Sum(f, s) = Sum(h, s)}
  <1>1. ASSUME NEW s \in SUBSET S,
               \A t \in SUBSET S : Cardinality(t) < Cardinality(s) => t \in Good
        PROVE  s \in Good
    <2>1. IsFiniteSet(s)
      BY FS_Subset
    <2>2. CASE s = {}
      <3>1. Sum(f, s) = 0 /\ Sum(h, s) = 0
        BY <2>1, <2>2, SumStep
      <3> QED BY <3>1
    <2>3. CASE s # {}
      <3>1. Pick(s) \in s
        BY <2>3 DEF Pick
      <3>2. s \ {Pick(s)} \in Good
        BY <1>1, <2>1, <3>1, Removed
      <3>3. /\ Sum(f, s) = f[Pick(s)] + Sum(f, s \ {Pick(s)})
            /\ Sum(h, s) = h[Pick(s)] + Sum(h, s \ {Pick(s)})
        BY <2>1, <2>3, SumStep
      <3> QED BY <3>1, <3>2, <3>3
    <2> QED BY <2>2, <2>3
  <1>2. SUBSET S \subseteq Good
    <2> HIDE DEF Good
    <2> QED BY <1>1, SubsetInduction
  <1> QED BY <1>2

\* The sum over a set is that over a part of it and that over the rest.
LEMMA SumSplit ==
    ASSUME NEW S, IsFiniteSet(S), NEW f, \A x \in S : f[x] \in Int, NEW R \in SUBSET S
    PROVE  Sum(f, S) = Sum(f, R) + Sum(f, S \ R)
  <1> DEFINE Good == {s \in SUBSET S : Sum(f, S) = Sum(f, s) + Sum(f, S \ s)}
  <1>1. ASSUME NEW s \in SUBSET S,
               \A t \in SUBSET S : Cardinality(t) < Cardinality(s) => t \in Good
        PROVE  s \in Good
    <2>1. IsFiniteSet(s) /\ Sum(f, S) \in Int
      BY FS_Subset, SumInt
    <2>2. CASE s = {}
      <3>1. Sum(f, s) = 0
        BY <2>1, <2>2, SumStep
      <3>2. S \ s = S
        BY <2>2
      <3>3. Sum(f, S) = 0 + Sum(f, S)
        BY <2>1
      <3> QED BY <3>1, <3>2, <3>3
    <2>3. CASE s # {}
      <3>1. PICK x \in s : TRUE
        BY <2>3
      <3> DEFINE t == s \ {x}
      <3>2. Sum(f, S) = Sum(f, t) + Sum(f, S \ t)
        <4>1. t \in SUBSET S /\ Cardinality(t) < Cardinality(s)
          BY <2>1, Removed
        <4>2. t \in Good
          <5> HIDE DEF Good, t
          <5> QED BY <1>1, <4>1
        <4> QED BY <4>2
      <3>3. Sum(f, s) = f[x] + Sum(f, t)
        BY <2>1, SumRemove
      <3>4. Sum(f, S \ t) = f[x] + Sum(f, S \ s)
        <4>1. x \in S \ t /\ (S \ t) \ {x} = S \ s
          OBVIOUS
        <4>2. IsFiniteSet(S \ t) /\ \A y \in S \ t : f[y] \in Int
          BY FS_Subset
        <4>3. Sum(f, S \ t) = f[x] + Sum(f, (S \ t) \ {x})
          <5> HIDE DEF t
          <5> QED BY <4>1, <4>2, SumRemove
        <4> QED BY <4>1, <4>3
      <3>5. f[x] \in Int /\ Sum(f, t) \in Int /\ Sum(f, S \ s) \in Int
        <4>1. /\ IsFiniteSet(t) /\ \A y \in t : f[y] \in Int
              /\ IsFiniteSet(S \ s) /\ \A y \in S \ s : f[y] \in Int
          BY FS_Subset
        <4> QED BY <4>1, SumInt
      <3> HIDE DEF t
      <3>6. Sum(f, S) = Sum(f, s) + Sum(f, S \ s)
        BY <3>2, <3>3, <3>4, <3>5
      <3> QED BY <3>6
    <2> QED BY <2>2, <2>3
  <1>2. SUBSET S \subseteq Good
    <2> HIDE DEF Good
    <2> QED BY <1>1, SubsetInduction
  <1> QED BY <1>2

-------------------------------------------------------------------------------
(* The counter of reads and writes                                         *)

\* Now and after a step, TotalSize is that sum.
LEMMA TotalIsSum == \A S : TotalSize(S) = Sum(size, S)
  BY DEF TotalSize, MapThenSumSet, MapThenFoldSet, Sum, Adds, Pick

LEMMA NextTotalIsSum == TotalSize(transactions)' = Sum(size', transactions')
  BY DEF TotalSize, MapThenSumSet, MapThenFoldSet, Sum, Adds, Pick

LEMMA LargestSize == Max(Sizes) \in Nat /\ \A s \in Sizes : s <= Max(Sizes)
  BY SizesAssumption DEF Max

\* While the counter is a number, so are the sizes of what is pooled.
LEMMA PooledFinite ==
    ASSUME IInv, Accounted, totalReadsAndWrites # Astray
    PROVE  \A S \in SUBSET transactions :
              IsFiniteSet(S) /\ (\A t \in S : size[t] \in Int) /\ Sum(size, S) \in Int
  <1>1. ASSUME NEW S \in SUBSET transactions
        PROVE  IsFiniteSet(S) /\ \A t \in S : size[t] \in Int
    BY TxnsAssumption, FS_Subset DEF IInv, TypeOK, Accounted
  <1> QED BY <1>1, SumInt

\* While every size was checked, the counter is a number and no sum is negative.
Checked == \A t \in Made : size[t] \in Sizes

LEMMA CheckedCounts ==
    ASSUME IInv, Accounted, Checked
    PROVE  /\ totalReadsAndWrites # Astray
           /\ \A S \in SUBSET transactions : Sum(size, S) \in Nat
  <1>1. totalReadsAndWrites # Astray
    <2>1. \A n \in Nat : n \in Int
      OBVIOUS
    <2>2. Astray \notin Sizes
      BY <2>1, SizesAssumption, AstrayAssumption, Zenon
    <2> QED BY <2>2 DEF Accounted, Checked
  <1>2. \A t \in transactions : size[t] \in Nat
    BY SizesAssumption DEF IInv, TypeOK, PoolSound, Checked, Made, Live
  <1>3. ASSUME NEW S \in SUBSET transactions PROVE Sum(size, S) \in Nat
    <2>1. IsFiniteSet(S) /\ \A t \in S : size[t] \in Nat
      BY <1>2, TxnsAssumption, FS_Subset DEF IInv, TypeOK
    <2> QED BY <2>1, SumNat
  <1> QED BY <1>1, <1>3

\* A numeric counter after closing S: it was one before, and S had numbers for sizes.
LEMMA ClosingAccounts ==
    ASSUME IInv, Accounted, NEW S \in SUBSET transactions, Closing(S) = S,
           TotalAfterClose(S) # Astray
    PROVE  /\ totalReadsAndWrites # Astray
           /\ TotalAfterClose(S) = Sum(size, transactions \ S)
  <1>1. /\ totalReadsAndWrites # Astray
        /\ TotalAfterClose(S) = totalReadsAndWrites - Sum(size, S)
    BY TotalIsSum DEF TotalAfterClose
  <1>2. totalReadsAndWrites = Sum(size, transactions)
    BY <1>1, TotalIsSum DEF Accounted
  <1>3. Sum(size, transactions) = Sum(size, S) + Sum(size, transactions \ S)
    BY <1>1, PooledFinite, SumSplit
  <1>4. Sum(size, S) \in Int /\ Sum(size, transactions \ S) \in Int
    BY <1>1, PooledFinite
  <1> QED BY <1>1, <1>2, <1>3, <1>4

\* A counter goes astray on closing only if it was, or a size is, astray.
LEMMA ClosingAstray ==
    ASSUME IInv, Accounted, NEW S \in SUBSET transactions,
           TotalAfterClose(S) = Astray
    PROVE  totalReadsAndWrites = Astray
  <1> SUFFICES ASSUME totalReadsAndWrites # Astray PROVE FALSE
    OBVIOUS
  <1>1. Closing(S) \in SUBSET transactions
    BY DEF Closing
  <1>2. \A t \in Closing(S) : size[t] # Astray
    BY <1>1 DEF Accounted
  <1>3. TotalAfterClose(S) = Sum(size, transactions) - Sum(size, Closing(S))
    BY <1>2, TotalIsSum DEF TotalAfterClose, Accounted
  <1>4. Sum(size, transactions) \in Int /\ Sum(size, Closing(S)) \in Int
    BY <1>1, PooledFinite
  <1> QED BY <1>3, <1>4, AstrayAssumption

(***************************************************************************)
(* Closing S and taking it out of the pool, whatever else is born in the   *)
(* step, keeps the books.                                                  *)
(***************************************************************************)
LEMMA LeavingAccounted ==
    ASSUME IInv, IInv', Accounted, NEW S \in SUBSET transactions, Closing(S) = S,
           totalReadsAndWrites' = TotalAfterClose(S),
           transactions' = transactions \ S,
           \A t \in Txns : native[t] # "none" => native'[t] # "none" /\ size'[t] = size[t]
    PROVE  Accounted'
  <1>1. \A t \in transactions : t \in Made /\ size'[t] = size[t]
    BY DEF IInv, TypeOK, PoolSound, Made, Live
  <1>2. \A t \in Made : t \in Made' /\ size'[t] = size[t]
    BY DEF Made
  <1>3. Sum(size', transactions') = Sum(size, transactions')
    <2>1. IsFiniteSet(transactions') /\ \A t \in transactions' : size'[t] = size[t]
      BY <1>1, TxnsAssumption, FS_Subset DEF IInv, TypeOK
    <2> QED BY <2>1, SumSame
  <1>4. ASSUME NEW t \in transactions', size'[t] = Astray
        PROVE  totalReadsAndWrites' = Astray
    BY <1>1, <1>4 DEF Accounted, TotalAfterClose
  <1>5. ASSUME totalReadsAndWrites' = Astray
        PROVE  \E t \in Made' : size'[t] = Astray
    BY <1>2, <1>5, ClosingAstray DEF Accounted
  <1>6. ASSUME totalReadsAndWrites' # Astray
        PROVE  totalReadsAndWrites' = TotalSize(transactions)'
    BY <1>3, <1>6, ClosingAccounts, NextTotalIsSum
  <1>7. ASSUME Checked'
        PROVE  TotalSize(transactions)' <= ReadWriteLimit + Max(Sizes)
    <2>1. Checked
      BY <1>2, <1>7 DEF Checked
    <2>2. /\ totalReadsAndWrites # Astray
          /\ Sum(size, S) \in Nat /\ Sum(size, transactions \ S) \in Nat
      BY <2>1, CheckedCounts
    <2>3. Sum(size, transactions) = Sum(size, S) + Sum(size, transactions \ S)
      BY <2>2, PooledFinite, SumSplit
    <2>4. Sum(size, transactions) <= ReadWriteLimit + Max(Sizes)
      BY <2>1, TotalIsSum DEF Accounted, Checked
    <2> QED BY <1>3, <2>2, <2>3, <2>4, NextTotalIsSum, LargestSize, LimitAssumption
  <1> QED BY <1>4, <1>5, <1>6, <1>7 DEF Accounted, Checked

LEMMA KeepAccounted ==
    ASSUME IInv, Accounted, NEW t \in Txns, NEW s \in Sizes \cup UncheckedSizes,
           Construct(t, s)
    PROVE  Accounted'
  <1>1. t \notin transactions /\ transactions' = transactions \cup {t}
    BY DEF IInv, PoolSound, Construct, Keep, Live
  <1>2. /\ totalReadsAndWrites' = Plus(totalReadsAndWrites, s)
        /\ MayBeWithin(totalReadsAndWrites)
        /\ s \in Int \cup {Astray}
    <2>1. Nat \subseteq Int
      OBVIOUS
    <2>2. s \in Int \cup {Astray}
      BY <2>1, SizesAssumption, UncheckedAssumption
    <2> QED BY <2>2 DEF Construct, Keep
  <1>3. size'[t] = s /\ \A u \in Txns \ {t} : size'[u] = size[u]
    BY DEF IInv, TypeOK, Construct, Keep
  <1>4. Made' = Made \cup {t} /\ t \notin Made
    BY DEF IInv, TypeOK, Construct, Keep, Made
  <1>5. ASSUME totalReadsAndWrites # Astray, s # Astray
        PROVE  /\ TotalSize(transactions)' = s + Sum(size, transactions)
               /\ totalReadsAndWrites' = s + totalReadsAndWrites
               /\ totalReadsAndWrites = Sum(size, transactions)
               /\ s \in Int /\ totalReadsAndWrites \in Int
    <2>1. IsFiniteSet(transactions) /\ Sum(size, transactions) \in Int
          /\ \A u \in transactions : u \in Txns \ {t} /\ size[u] \in Int
      BY <1>1, <1>5, PooledFinite DEF IInv, TypeOK
    <2>2. IsFiniteSet(transactions') /\ (\A u \in transactions' : size'[u] \in Int)
      BY <1>1, <1>2, <1>3, <1>5, <2>1, FS_AddElement
    <2>3. t \in transactions' /\ transactions' \ {t} = transactions
      BY <1>1
    <2>4. Sum(size', transactions') = size'[t] + Sum(size', transactions' \ {t})
      BY <2>2, <2>3, SumRemove
    <2>5. Sum(size', transactions) = Sum(size, transactions)
      BY <1>3, <2>1, SumSame
    <2>6. totalReadsAndWrites = Sum(size, transactions)
      BY <1>5, TotalIsSum DEF Accounted
    <2>7. totalReadsAndWrites' = totalReadsAndWrites + s /\ s \in Int
      BY <1>2, <1>5 DEF Plus
    <2>8. TotalSize(transactions)' = s + Sum(size, transactions)
      BY <1>3, <2>3, <2>4, <2>5, NextTotalIsSum
    <2> QED BY <2>1, <2>6, <2>7, <2>8
  <1>6. ASSUME NEW u \in transactions', size'[u] = Astray
        PROVE  totalReadsAndWrites' = Astray
    BY <1>1, <1>2, <1>3, <1>6 DEF Accounted, Plus, IInv, TypeOK
  <1>7. ASSUME totalReadsAndWrites' = Astray
        PROVE  \E u \in Made' : size'[u] = Astray
    <2>1. CASE totalReadsAndWrites = Astray
      BY <1>3, <1>4, <2>1 DEF Accounted, Made
    <2>2. CASE s = Astray
      BY <1>3, <1>4, <2>2
    <2>3. CASE totalReadsAndWrites # Astray /\ s # Astray
      BY <1>5, <1>7, <2>3, AstrayAssumption
    <2> QED BY <2>1, <2>2, <2>3
  <1>8. ASSUME totalReadsAndWrites' # Astray
        PROVE  totalReadsAndWrites' = TotalSize(transactions)'
    <2>1. totalReadsAndWrites # Astray /\ s # Astray
      BY <1>2, <1>8 DEF Plus
    <2> QED BY <1>5, <2>1
  <1>9. ASSUME Checked'
        PROVE  TotalSize(transactions)' <= ReadWriteLimit + Max(Sizes)
    <2>1. Checked /\ s \in Sizes
      BY <1>3, <1>4, <1>9 DEF Checked, Made
    <2>2. totalReadsAndWrites # Astray /\ s # Astray
      BY <2>1, CheckedCounts, SizesAssumption, AstrayAssumption
    <2>3. totalReadsAndWrites <= ReadWriteLimit
      BY <1>2, <1>5, <2>2, LimitAssumption DEF MayBeWithin
    <2>4. s <= Max(Sizes) /\ Max(Sizes) \in Nat
      BY <2>1, LargestSize
    <2> QED BY <1>5, <2>2, <2>3, <2>4, LimitAssumption
  <1> QED BY <1>6, <1>7, <1>8, <1>9 DEF Accounted, Checked

\* What tending does to the pool, and what is born in the same step.
LEMMA TendingAccounted ==
    ASSUME IInv, IInv', Accounted, NEW born, Tend(born),
           \A t \in Txns : native[t] # "none" => size'[t] = size[t]
    PROVE  Accounted'
  <1>1. Reaped \in SUBSET transactions /\ Closing(Reaped) = Reaped
    BY ReapedFinished
  <1>2. \A t \in Txns : native[t] # "none" => native'[t] # "none"
    BY DEF Tend, NativeAfterClose
  <1> QED BY <1>1, <1>2, LeavingAccounted DEF Tend

LEMMA DestroyAllAccounted ==
    ASSUME IInv, IInv', Accounted, DestroyAll
    PROVE  Accounted'
  <1>1. Closing(transactions) = transactions
    BY DEF IInv, TypeOK, PoolSound, Closing, Live
  <1>2. /\ transactions \in SUBSET transactions
        /\ totalReadsAndWrites' = TotalAfterClose(transactions)
        /\ transactions' = transactions \ transactions
        /\ \A t \in Txns : native[t] # "none" => native'[t] # "none" /\ size'[t] = size[t]
    BY DEF DestroyAll, NativeAfterClose
  <1> QED BY <1>1, <1>2, LeavingAccounted

\* The invariant with the counter.
LEMMA AccountedStep == IInv /\ Accounted /\ [Next]_vars => Accounted'
  <1> SUFFICES ASSUME IInv, Accounted, [Next]_vars PROVE Accounted'
    OBVIOUS
  <1> IInv'
    BY StepInv
  <1>1. ASSUME NEW t \in Txns, NEW s \in Sizes \cup UncheckedSizes, Construct(t, s)
        PROVE  Accounted'
    BY <1>1, KeepAccounted
  <1>2. ASSUME NEW t \in Txns, NEW s \in Sizes \cup UncheckedSizes,
               ConstructAfterTend(t, s)
        PROVE  Accounted'
    <2>1. \A u \in Txns : native[u] # "none" => size'[u] = size[u]
      BY <1>2 DEF IInv, TypeOK, ConstructAfterTend
    <2> QED BY <1>2, <2>1, TendingAccounted DEF ConstructAfterTend
  <1>3. CASE ConstructRefused
    BY <1>3, TendingAccounted DEF ConstructRefused
  <1>4. CASE DestroyAll
    BY <1>4, DestroyAllAccounted
  <1>5. ASSUME NEW op, NEW how, Asked(op, how) PROVE Accounted'
    BY <1>5, TendingAccounted DEF Asked
  <1>6. ASSUME NEW c \in Cmds, NativeStep(c) \/ Listener(c) PROVE Accounted'
    <2>1. UNCHANGED <<transactions, totalReadsAndWrites, size>> /\ Made' = Made
      BY <1>6 DEF NativeStep, Listener, Made, IInv, TypeOK, Requests, NoRequest, Unfinished
    <2> QED BY <2>1, TotalIsSum, NextTotalIsSum DEF Accounted
  <1>7. CASE UNCHANGED vars
    <2>1. UNCHANGED <<transactions, totalReadsAndWrites, size>> /\ Made' = Made
      BY <1>7 DEF vars, Made
    <2> QED BY <2>1, TotalIsSum, NextTotalIsSum DEF Accounted
  <1> QED
    BY <1>1, <1>2, <1>3, <1>4, <1>5, <1>6, <1>7
       DEF Next, AskForNothing, AlreadyDone, Conflict, AskedDestroyed, Send, SendFailed

(***************************************************************************)
(* The counter that the limit is compared with is the size of what the     *)
(* pool holds, whatever was constructed, reclaimed and destroyed           *)
(* (pushTransaction, prepareToClose), and it goes astray only by a         *)
(* transaction whose capacities the constructor did not check.  While all  *)
(* of them were checked, what the pool holds exceeds the limit by the      *)
(* sizes of one transaction at most.                                       *)
(***************************************************************************)
THEOREM CounterIsAccounted == Spec => []Accounted
  <1>1. Init => Accounted
    <2> SUFFICES ASSUME Init PROVE Accounted
      OBVIOUS
    <2>1. TotalSize(transactions) = 0
      BY TotalIsSum, SumStep, FS_EmptySet DEF Init
    <2>2. totalReadsAndWrites = 0 /\ totalReadsAndWrites # Astray /\ transactions = {}
      BY AstrayAssumption DEF Init
    <2> QED BY <2>1, <2>2, LargestSize, LimitAssumption DEF Accounted
  <1> QED BY <1>1, AccountedStep, Invariance, PTL DEF Spec

-------------------------------------------------------------------------------
(* Action properties                                                       *)

(***************************************************************************)
(* Client.abort and Client.commit start a native command only on a         *)
(* transaction that exists and is not finished, even though tending may    *)
(* destroy transactions in the same call.                                  *)
(***************************************************************************)
THEOREM SendsAreSafe == Spec => SentOnlyUnfinished
  <1> DEFINE Sent(c) == request[c] = NoRequest /\ request'[c] # NoRequest
                           => native'[request'[c].txn] \in Unfinished
  <1>1. ASSUME IInv, [Next]_vars, NEW c \in Cmds,
               request[c] = NoRequest, request'[c] # NoRequest
        PROVE  native'[request'[c].txn] \in Unfinished
    <2>1. PICK op \in {"abort", "commit"}, t \in Txns, d \in Cmds : Send(op, t, d)
      <3>1. request' # request
        BY <1>1
      <3>2. ~ \E d \in Cmds : Listener(d)
        BY <1>1 DEF Listener, IInv, TypeOK
      <3> QED BY <1>1, <3>1, <3>2
              DEF Next, vars, Construct, Keep, ConstructAfterTend, ConstructRefused,
                  DestroyAll, AskForNothing, AlreadyDone, Conflict, AskedDestroyed,
                  SendFailed, NativeStep
    <2>2. d = c /\ request'[c].txn = t
      BY <1>1, <2>1 DEF Send, IInv, TypeOK
    <2>3. native[t] \in Unfinished
      BY <2>1 DEF Send, GetState
    <2>4. t \notin Reaped
      BY <1>1, <2>3, ReapedFinished DEF Unfinished, Finished
    <2>5. native'[t] = native[t]
      BY <2>1, <2>4 DEF Send, Asked, Tend, NativeAfterClose, Closing
    <2> QED BY <2>2, <2>3, <2>5
  <1>2. IInv /\ [Next]_vars => [\A c \in Cmds : Sent(c)]_vars
    BY <1>1
  <1> QED BY <1>2, Invariance, PTL DEF Spec, SentOnlyUnfinished

(***************************************************************************)
(* Reclaiming destroys finished transactions only: an open or verified one *)
(* goes only when the application, or the last close, destroys them all.   *)
(***************************************************************************)
THEOREM ReclaimIsSafe == Spec => ReclaimSparesOpen
  <1> DEFINE Spared == (\E t \in Txns : native[t] \in Unfinished /\ destroyed'[t])
                          => transactions' = {} /\ outcome'.call = "destroyAll"
  <1>1. ASSUME IInv, [Next]_vars, NEW t \in Txns,
               native[t] \in Unfinished, destroyed'[t]
        PROVE  DestroyAll
    <2>1. ~destroyed[t]
      BY <1>1 DEF IInv, PoolSound, Unfinished
    <2>2. ASSUME NEW born, Tend(born) PROVE FALSE
      <3>1. t \in Reaped
        BY <1>1, <2>1, <2>2 DEF Tend, CloseObjects
      <3> QED BY <1>1, <3>1, ReapedFinished DEF Unfinished, Finished
    <2> QED BY <1>1, <2>1, <2>2
            DEF Next, vars, Construct, Keep, ConstructAfterTend, ConstructRefused,
                AskForNothing, AlreadyDone, Conflict, AskedDestroyed, Send,
                SendFailed, Asked, NativeStep, Listener
  <1>2. DestroyAll => transactions' = {} /\ outcome'.call = "destroyAll"
    BY DEF DestroyAll, Ended
  <1>3. IInv /\ [Next]_vars => [Spared]_vars
    BY <1>1, <1>2
  <1> QED BY <1>3, Invariance, PTL DEF Spec, ReclaimSparesOpen

(***************************************************************************)
(* The pool doubles its capacity only when, after reclaiming, it is longer *)
(* than it and every member is still open or verified.                     *)
(***************************************************************************)
THEOREM GrowthIsForced == Spec => GrowsOnlyWhenFullOfOpen
  <1> DEFINE Forced == capacity' # capacity
                         => /\ capacity' = 2 * capacity
                            /\ Cardinality(transactions') > capacity
                            /\ \A t \in transactions' : native'[t] \in Unfinished
  <1>1. ASSUME IInv, NEW born \in SUBSET Txns, Tend(born),
               \A t \in born : native[t] = "none", capacity' # capacity
        PROVE  Forced
    <2>1. capacity' = 2 * capacity /\ Cardinality(transactions') > capacity
      BY <1>1 DEF Tend, CapacityAfterTend
    <2>2. Cardinality(transactions) > capacity
      <3>1. CASE Reaped = {}
        <4>1. transactions' = transactions
          BY <1>1, <3>1 DEF Tend
        <4> QED BY <2>1, <4>1
      <3>2. CASE Reaped # {}
        BY <3>2 DEF Reaped
      <3> QED BY <3>1, <3>2
    <2>3. ASSUME NEW t \in transactions' PROVE native'[t] \in Unfinished
      <3>1. t \in transactions /\ t \notin Reaped
        BY <1>1, <2>3 DEF Tend
      <3>2. t \in Txns /\ t \notin born /\ native[t] \in Unfinished
        BY <1>1, <2>2, <3>1
           DEF IInv, TypeOK, PoolSound, Reaped, GetState, Live, Finished, Unfinished
      <3>3. native'[t] = native[t]
        BY <1>1, <3>1, <3>2 DEF Tend, NativeAfterClose, Closing
      <3> QED BY <3>2, <3>3
    <2> QED BY <2>1, <2>3
  <1>2. ASSUME IInv, [Next]_vars, capacity' # capacity PROVE Forced
    <2>1. PICK born \in SUBSET Txns : Tend(born) /\ \A t \in born : native[t] = "none"
      <3>1. ASSUME NEW t \in Txns, NEW s \in Sizes \cup UncheckedSizes, ConstructAfterTend(t, s)
            PROVE  Tend({t}) /\ native[t] = "none"
        BY <3>1 DEF ConstructAfterTend
      <3>2. {} \in SUBSET Txns /\ \A t \in {} : native[t] = "none"
        OBVIOUS
      <3> QED BY <1>2, <3>1, <3>2
              DEF Next, vars, Construct, Keep, ConstructRefused, DestroyAll,
                  AskForNothing, AlreadyDone, Conflict, AskedDestroyed, Send,
                  SendFailed, Asked, NativeStep, Listener
    <2> QED BY <1>1, <1>2, <2>1
  <1>3. IInv /\ [Next]_vars => [Forced]_vars
    BY <1>2
  <1> QED BY <1>3, Invariance, PTL DEF Spec, GrowsOnlyWhenFullOfOpen

-------------------------------------------------------------------------------
(* Refinement                                                              *)

seenBar   == [t \in Txns |-> GetState(t)]
closedBar == {t \in Txns : destroyed[t]}

(***************************************************************************)
(* Tending destroys only objects whose state is final, and keeps that      *)
(* state readable.                                                         *)
(***************************************************************************)
LEMMA TendMapped ==
    ASSUME IInv, NEW born \in SUBSET Txns, Tend(born),
           \A t \in born : native[t] = "none"
    PROVE  /\ Reaped \subseteq {t \in Txns \ closedBar : seenBar[t] \in Finished}
           /\ closedBar' = closedBar \cup Reaped
           /\ seenBar' = [t \in Txns |-> IF t \in born THEN "OPEN" ELSE seenBar[t]]
  <1>1. /\ Reaped \subseteq transactions
        /\ Closing(Reaped) = Reaped
        /\ \A t \in Reaped : native[t] \in Finished
    BY ReapedFinished
  <1>2. \A t \in Reaped : t \in Txns /\ ~destroyed[t]
    BY <1>1 DEF IInv, TypeOK, PoolSound, Finished
  <1>3. closedBar' = closedBar \cup Reaped
    BY <1>2 DEF Tend, CloseObjects, closedBar
  <1>4. ASSUME NEW t \in Txns
        PROVE  GetState(t)' = IF t \in born THEN "OPEN" ELSE GetState(t)
    <2>1. destroyed'[t] = (destroyed[t] \/ t \in Reaped)
      BY DEF Tend, CloseObjects
    <2>2. state'[t] = IF t \in Reaped THEN native[t] ELSE state[t]
      BY <1>1 DEF Tend, CloseObjects
    <2>3. native'[t] = IF t \in born THEN "OPEN"
                       ELSE IF t \in Reaped THEN "freed" ELSE native[t]
      BY <1>1 DEF Tend, NativeAfterClose
    <2>4. t \in born => ~destroyed[t] /\ t \notin Reaped
      BY <1>1 DEF IInv, PoolSound, Finished
    <2> QED BY <1>2, <2>1, <2>2, <2>3, <2>4 DEF GetState
  <1>5. seenBar' = [t \in Txns |-> IF t \in born THEN "OPEN" ELSE seenBar[t]]
    BY <1>4 DEF seenBar
  <1>6. Reaped \subseteq {t \in Txns \ closedBar : seenBar[t] \in Finished}
    BY <1>1, <1>2 DEF closedBar, seenBar, GetState
  <1> QED BY <1>3, <1>5, <1>6

\* A call that only tends the pool reclaims finished transactions.
LEMMA TendOnlyMapped ==
    ASSUME IInv, Tend({})
    PROVE  /\ Lifecycle!ReclaimFinished
           /\ seenBar' = seenBar
  <1>1. {} \in SUBSET Txns /\ \A t \in {} : native[t] = "none"
    OBVIOUS
  <1>2. /\ Reaped \subseteq {t \in Txns \ closedBar : seenBar[t] \in Finished}
        /\ closedBar' = closedBar \cup Reaped
        /\ seenBar' = [t \in Txns |-> IF t \in {} THEN "OPEN" ELSE seenBar[t]]
    BY <1>1, TendMapped
  <1>3. seenBar' = seenBar
    BY <1>2 DEF seenBar
  <1>4. Lifecycle!ReclaimFinished
    BY <1>2 DEF Lifecycle!ReclaimFinished, Lifecycle!Finished, Finished, seenBar, closedBar
  <1> QED BY <1>3, <1>4

LEMMA KeepMapped ==
    ASSUME IInv, NEW t \in Txns, NEW s \in Sizes \cup UncheckedSizes, Keep(t, s)
    PROVE  Lifecycle!Construct
  <1>1. closedBar' = closedBar \cup {}
    BY DEF Keep, closedBar
  <1>2. seenBar[t] = "none" /\ seenBar' = [seenBar EXCEPT ![t] = "OPEN"]
    <2>1. ~destroyed[t]
      BY DEF IInv, PoolSound, Keep
    <2>2. \A u \in Txns : GetState(u)' = IF u = t THEN "OPEN" ELSE GetState(u)
      BY <2>1 DEF IInv, TypeOK, Keep, GetState
    <2> QED BY <2>1, <2>2 DEF seenBar, GetState, Keep
  <1>3. outcome'.call = "construct" /\ request' = request
    BY DEF Keep, Ended
  <1> QED BY <1>1, <1>2, <1>3 DEF Lifecycle!Construct, Lifecycle!ReclaimFinished,
                                  Lifecycle!Finished, seenBar, closedBar

LEMMA ConstructAfterTendMapped ==
    ASSUME IInv, NEW t \in Txns, NEW s \in Sizes \cup UncheckedSizes, ConstructAfterTend(t, s)
    PROVE  Lifecycle!Construct
  <1>1. Tend({t}) /\ {t} \in SUBSET Txns /\ \A u \in {t} : native[u] = "none"
    BY DEF ConstructAfterTend
  <1>2. /\ Reaped \subseteq {u \in Txns \ closedBar : seenBar[u] \in Finished}
        /\ closedBar' = closedBar \cup Reaped
        /\ seenBar' = [u \in Txns |-> IF u \in {t} THEN "OPEN" ELSE seenBar[u]]
    BY <1>1, TendMapped
  <1>3. seenBar' = [seenBar EXCEPT ![t] = "OPEN"]
    BY <1>2 DEF seenBar
  <1>4. seenBar[t] = "none"
    BY <1>1 DEF IInv, PoolSound, seenBar, GetState
  <1>5. outcome'.call = "construct" /\ request' = request
    BY DEF ConstructAfterTend, Ended
  <1> QED BY <1>2, <1>3, <1>4, <1>5
          DEF Lifecycle!Construct, Lifecycle!ReclaimFinished, Lifecycle!Finished,
              Finished, seenBar, closedBar

LEMMA SendMapped ==
    ASSUME IInv, NEW op \in {"abort", "commit"}, NEW t \in Txns, NEW c \in Cmds,
           Send(op, t, c)
    PROVE  Lifecycle!Ask(op)
  <1>1. Lifecycle!ReclaimFinished /\ seenBar' = seenBar
    BY TendOnlyMapped DEF Send, Asked
  <1>2. outcome'.call = op
    BY DEF Send, Asked, Ended
  <1>3. /\ request[c] = Lifecycle!NoRequest
        /\ seenBar[t] \in Lifecycle!Unfinished /\ t \notin closedBar
        /\ request' = [request EXCEPT ![c] = [txn |-> t, op |-> op]]
    BY DEF Send, NoRequest, Lifecycle!NoRequest, Lifecycle!Unfinished, Unfinished,
           seenBar, closedBar
  <1> QED BY <1>1, <1>2, <1>3 DEF Lifecycle!Ask, seenBar, closedBar

LEMMA DestroyAllMapped ==
    ASSUME IInv, DestroyAll
    PROVE  Lifecycle!DestroyAll
  <1>1. closedBar' = closedBar \cup transactions
    BY DEF DestroyAll, CloseObjects, closedBar, IInv, TypeOK
  <1>2. \A t \in Txns : GetState(t)' = GetState(t)
    BY DEF DestroyAll, CloseObjects, Closing, NativeAfterClose, GetState, IInv, TypeOK
  <1>3. seenBar' = seenBar
    BY <1>2 DEF seenBar
  <1>4. \A t \in transactions : t \in Txns /\ seenBar[t] # "none"
    BY DEF IInv, TypeOK, PoolSound, Live, seenBar, GetState
  <1>5. outcome'.call = "destroyAll" /\ request' = request
    BY DEF DestroyAll, Ended
  <1> QED BY <1>1, <1>3, <1>4, <1>5 DEF Lifecycle!DestroyAll, seenBar, closedBar

LEMMA NativeStepMapped ==
    ASSUME IInv, NEW c \in Cmds, NativeStep(c)
    PROVE  Lifecycle!Advance
  <1>1. PICK to \in {"VERIFIED", "COMMITTED", "ABORTED"} :
            /\ native[request[c].txn] \in Unfinished
            /\ native[request[c].txn] # to
            /\ native' = [native EXCEPT ![request[c].txn] = to]
    BY DEF NativeStep, Unfinished
  <1> DEFINE t == request[c].txn
  <1>2. t \in Txns /\ request[c] # Lifecycle!NoRequest
    BY DEF NativeStep, IInv, TypeOK, Requests, NoRequest, Lifecycle!NoRequest
  <1>3. UNCHANGED <<destroyed, state, request, outcome>>
    BY DEF NativeStep
  <1>4. ~destroyed[t]
    BY <1>1, <1>2 DEF IInv, PoolSound, Unfinished
  <1>5. \A u \in Txns : GetState(u)' = IF u = t THEN to ELSE GetState(u)
    BY <1>1, <1>2, <1>3, <1>4 DEF IInv, TypeOK, GetState
  <1>6. seenBar' = [seenBar EXCEPT ![t] = to] /\ closedBar' = closedBar
    BY <1>2, <1>3, <1>5 DEF seenBar, closedBar
  <1>7. seenBar[t] \in Lifecycle!Unfinished /\ seenBar[t] # to /\ t \notin closedBar
    BY <1>1, <1>2, <1>4 DEF seenBar, closedBar, GetState, Unfinished, Lifecycle!Unfinished
  <1> QED BY <1>1, <1>2, <1>3, <1>6, <1>7
          DEF Lifecycle!Advance, Lifecycle!Finished, seenBar, closedBar

LEMMA ListenerMapped ==
    ASSUME NEW c \in Cmds, Listener(c)
    PROVE  Lifecycle!Answer
  BY DEF Listener, Lifecycle!Answer, NoRequest, Lifecycle!NoRequest, GetState

\* Every step of the pool is a step of the life cycle, or a stutter.
LEMMA StepMapped == IInv /\ [Next]_vars => [Lifecycle!Next]_(Lifecycle!vars)
  <1> SUFFICES ASSUME IInv, [Next]_vars PROVE [Lifecycle!Next]_(Lifecycle!vars)
    OBVIOUS
  <1>1. ASSUME NEW t \in Txns, NEW s \in Sizes \cup UncheckedSizes, Construct(t, s) PROVE Lifecycle!Next
    BY <1>1, KeepMapped DEF Construct, Lifecycle!Next
  <1>2. ASSUME NEW t \in Txns, NEW s \in Sizes \cup UncheckedSizes, ConstructAfterTend(t, s)
        PROVE  Lifecycle!Next
    BY <1>2, ConstructAfterTendMapped DEF Lifecycle!Next
  <1>3. CASE ConstructRefused
    <2>1. Lifecycle!ReclaimFinished /\ seenBar' = seenBar
      BY <1>3, TendOnlyMapped DEF ConstructRefused
    <2>2. outcome'.call = "construct" /\ request' = request
      BY <1>3 DEF ConstructRefused, Ended
    <2> QED BY <2>1, <2>2 DEF Lifecycle!Next, Lifecycle!Construct, seenBar
  <1>4. CASE DestroyAll
    BY <1>4, DestroyAllMapped DEF Lifecycle!Next
  <1>5. ASSUME NEW op \in {"abort", "commit"}, NEW how, Asked(op, how), UNCHANGED request
        PROVE  Lifecycle!Next
    <2>1. Lifecycle!ReclaimFinished /\ seenBar' = seenBar
      BY <1>5, TendOnlyMapped DEF Asked
    <2>2. outcome'.call = op
      BY <1>5 DEF Asked, Ended
    <2>3. Lifecycle!Ask(op)
      BY <1>5, <2>1, <2>2 DEF Lifecycle!Ask, seenBar
    <2> QED BY <2>3 DEF Lifecycle!Next
  <1>6. ASSUME NEW op \in {"abort", "commit"}, NEW t \in Txns, NEW c \in Cmds,
               Send(op, t, c)
        PROVE  Lifecycle!Next
    BY <1>6, SendMapped DEF Lifecycle!Next
  <1>7. ASSUME NEW c \in Cmds, NativeStep(c) PROVE Lifecycle!Next
    BY <1>7, NativeStepMapped DEF Lifecycle!Next
  <1>8. ASSUME NEW c \in Cmds, Listener(c) PROVE Lifecycle!Next
    BY <1>8, ListenerMapped DEF Lifecycle!Next
  <1>9. CASE UNCHANGED vars
    BY <1>9 DEF vars, Lifecycle!vars, GetState
  <1> QED
    BY <1>1, <1>2, <1>3, <1>4, <1>5, <1>6, <1>7, <1>8, <1>9
       DEF Next, AskForNothing, AlreadyDone, Conflict, AskedDestroyed, SendFailed

(***************************************************************************)
(* Whatever the pool does with memory, the application sees transactions   *)
(* that behave as TransactionLifecycle says.                               *)
(***************************************************************************)
THEOREM Implementation == Spec => ImplementsLifecycle
  <1>1. Init => Lifecycle!Init
    BY DEF Init, Lifecycle!Init, GetState, NoRequest, Lifecycle!NoRequest
  <1>2. IInv /\ [Next]_vars => [Lifecycle!Next]_(Lifecycle!vars)
    BY StepMapped
  <1> QED BY <1>1, <1>2, Invariance, PTL DEF Spec, ImplementsLifecycle, Lifecycle!Spec
===============================================================================
