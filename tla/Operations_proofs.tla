--------------------------- MODULE Operations_proofs ---------------------------
(***************************************************************************)
(* Proofs about Operations, for lists of any operations with any options,  *)
(* lists and contexts of any length and any range of an index.             *)
(*                                                                         *)
(* What an operation may hold is settled when it is built, what converters *)
(* accept by the tables; the facts of OperationTables join the two.  The   *)
(* way of a context is proved apart, in the second half of the module.     *)
(***************************************************************************)
EXTENDS OperationTables, BoundedOperations, SequenceTheorems, WellFoundedInduction, TLAPS

\* A sequence, whatever its members are.
IsSeq(s) == s \in Seq({s[i] : i \in 1..Len(s)})

\* The getters of an operation have accepted what it holds, up to the n-th.
Holds(o, getter) ==
    IF getter.field = "bin" THEN "string" ELSE Given(o, getter.field)

AcceptsUpTo(o, n) ==
    \A k \in 1..n : Holds(o, Reads[o.op][k]) \in Accepts(Reads[o.op][k])

(***************************************************************************)
(* What is true of an operation as soon as it is built, and stays true     *)
(* whatever options are chained to it: it is of the class and the opcode   *)
(* of its builder, has no property but those of the two, and, as long as   *)
(* the documentation has been followed, each of them holds a legal value.  *)
(***************************************************************************)
Sound(o) ==
    /\ o = [builder |-> o.builder, class |-> o.class, op |-> o.op,
            odd |-> o.odd, legal |-> o.legal, fields |-> o.fields]
    /\ o.builder \in DOMAIN Builders /\ o.legal \in BOOLEAN
    /\ o.class = Builders[o.builder].class /\ o.op = Builders[o.builder].op
    /\ DOMAIN o.fields \subseteq FieldsOf(o.builder) \cup OptionsOf(o.class)
    /\ o.legal => \A f \in ReadBy(o.op) :
                      Given(o, f) \in LegalValues(o.builder, f)
    /\ IsBit(o.op) => Given(o, "policy") \in {"undefined", "policy", "broken"}

\* The operations of the list are sound.
Built == IsSeq(ops) /\ \A i \in 1..Len(ops) : Sound(ops[i])

\* Each call made is that of its operation, all of whose getters have accepted.
Called ==
    /\ IsSeq(calls)
    /\ \A i \in 1..Len(calls) :
        /\ calls[i].op = Calls(ops[i].op) /\ calls[i].read = ReadBy(ops[i].op)
        /\ AcceptsUpTo(ops[i], Len(Reads[ops[i].op]))

\* The operations that do not give everything back.
Excused(o) ==
    \/ IsExpression(o.op)
    \/ IsBit(o.op) /\ Given(o, "policy") = "broken"

(***************************************************************************)
(* How far operate() is.  Nothing is converted before, the getters passed  *)
(* have accepted, and a list is refused at an operation that is not legal. *)
(***************************************************************************)
Progress ==
    /\ stage \in {"building", "thrown", "converting", "sent", "refused"}
    /\ stage \in {"building", "thrown"} =>
          calls = <<>> /\ getters = 0 /\ held = {} /\ owned = {}
    /\ stage = "converting" =>
          /\ Len(calls) < Len(ops)
          /\ getters \in 0..Len(Reads[Current.op]) /\ AcceptsUpTo(Current, getters)
          /\ \A o \in owned : o[1] \in 1..Len(calls)
    /\ stage = "sent" => Len(calls) = Len(ops)
    /\ stage = "refused" =>
          \/ ops = <<>> /\ calls = <<>> /\ leaked = {}
          \/ /\ Len(calls) < Len(ops) /\ ~Current.legal
             /\ \A leak \in leaked :
                  (leak[1] = Position /\ leak[2] \in {"bin", "context"})
                      => Excused(Current)
    /\ stage # "refused" => leaked = {}

\* A call that threw was not as documented, the known inversions apart.
Stopped ==
    stage = "thrown" /\ culprit.legal =>
        culprit.call = "invertSelection" /\ culprit.builder \in Uninvertible

\* The inductive invariant.
IInv == Built /\ Called /\ Progress /\ Stopped

-------------------------------------------------------------------------------
(* Sequences                                                               *)

\* Appending to a sequence of anything.
LEMMA Appended ==
    ASSUME NEW s, NEW e, IsSeq(s)
    PROVE  /\ IsSeq(Append(s, e)) /\ Len(s) \in Nat
           /\ Len(Append(s, e)) = Len(s) + 1
           /\ Append(s, e)[Len(s) + 1] = e
           /\ \A i \in 1..Len(s) : Append(s, e)[i] = s[i]
<1> DEFINE t == Append(s, e)
           R == {s[i] : i \in 1..Len(s)}
           T == {t[i] : i \in 1..Len(t)}
<1>1. s \in Seq(R \cup {e})
  <2>1. s \in Seq(R)
    BY DEF IsSeq
  <2> QED BY <2>1, SeqMonotonic
<1>2. /\ t \in Seq(R \cup {e}) /\ Len(s) \in Nat /\ Len(t) = Len(s) + 1
      /\ t[Len(s) + 1] = e /\ \A i \in 1..Len(s) : t[i] = s[i]
  BY <1>1, AppendProperties, LenProperties
<1>3. t \in [1..Len(t) -> T] /\ Len(t) \in Nat
  <2>1. t \in [1..Len(t) -> R \cup {e}] /\ Len(t) \in Nat
    BY <1>2, LenProperties
  <2> QED BY <2>1
<1>4. t \in Seq(T)
  BY <1>3, SeqDef, Zenon
<1> QED BY <1>2, <1>4 DEF IsSeq

\* Replacing the last member of one.
ReplaceLast(s, e) == [s EXCEPT ![Len(s)] = e]

LEMMA Replaced ==
    ASSUME NEW s, NEW e, IsSeq(s), s # <<>>
    PROVE  /\ IsSeq(ReplaceLast(s, e)) /\ Len(s) \in Nat \ {0}
           /\ Len(ReplaceLast(s, e)) = Len(s)
           /\ ReplaceLast(s, e)[Len(s)] = e
           /\ \A i \in 1..Len(s) - 1 : ReplaceLast(s, e)[i] = s[i]
<1> DEFINE n == Len(s)
           t == ReplaceLast(s, e)
           R == {s[i] : i \in 1..n}
           T == {t[i] : i \in 1..Len(t)}
<1>1. s \in Seq(R) /\ s \in Seq(R \cup {e})
  <2>1. s \in Seq(R)
    BY DEF IsSeq
  <2> QED BY <2>1, SeqMonotonic
<1>2. n \in Nat \ {0}
  BY <1>1, EmptySeq
<1>3. /\ t \in Seq(R \cup {e}) /\ Len(t) = n
      /\ \A j \in 1..n : t[j] = IF j = n THEN e ELSE s[j]
  BY <1>1, <1>2, ExceptSeq DEF ReplaceLast
<1>4. t \in [1..n -> T]
  <2>1. t \in [1..n -> R \cup {e}]
    BY <1>3, LenProperties
  <2> QED BY <1>3, <2>1
<1>5. t \in UNION {[1..m -> T] : m \in Nat}
  BY <1>2, <1>4, Zenon
<1>6. t \in Seq(T)
  BY <1>5, SeqDef, Zenon
<1>7. IsSeq(t)
  BY <1>6, Zenon DEF IsSeq
<1> QED BY <1>2, <1>3, <1>7

-------------------------------------------------------------------------------
(* Operations while they are built                                         *)

\* The three sources of a legal value.
LEMMA LegalSources ==
    ASSUME NEW name, NEW field, NEW v,
           \/ \E i \in DOMAIN Builders[name].params :
                /\ Builders[name].params[i].field = field
                /\ v \in FromArgument(Builders[name].params[i])
           \/ v \in FromOption(Builders[name].class, field)
           \/ v \in Untouched(name, field)
    PROVE  v \in LegalValues(name, field)
<1>1. ASSUME NEW i \in DOMAIN Builders[name].params,
             Builders[name].params[i].field = field,
             v \in FromArgument(Builders[name].params[i])
      PROVE  v \in FromArguments(name, field)
  BY <1>1, Zenon DEF FromArguments
<1> QED BY <1>1, Zenon DEF LegalValues

\* Arguments the documentation allows leave what the table says, and an operation
\* on bits starts out without a policy.
LEMMA NewIsSound ==
    ASSUME NEW name \in DOMAIN Builders,
           NEW args \in [DOMAIN Builders[name].params -> Choice]
    PROVE  Sound(NewOperation(name, args))
<1> DEFINE b == Builders[name]
           o == NewOperation(name, args)
           At(f) == CHOOSE i \in DOMAIN b.params : b.params[i].field = f
           F == FieldsOf(name) \cup IF b.class = "OverflowBit"
                                   THEN {"overflowAction"} ELSE {}
<1>1. o = [builder |-> name, class |-> b.class, op |-> b.op,
           odd |-> Cardinality(Odd(args)),
           legal |-> \A i \in DOMAIN b.params : Documented(b.params[i], args[i]),
           fields |-> [f \in F |-> IF f = "overflowAction" THEN OverflowAction
                                   ELSE Property(b.params[At(f)], args[At(f)])]]
  BY Zenon DEF NewOperation, Properties, FieldsOf
<1>2. /\ o.builder = name /\ o.class = b.class /\ o.op = b.op /\ o.legal \in BOOLEAN
      /\ o = [builder |-> o.builder, class |-> o.class, op |-> o.op,
              odd |-> o.odd, legal |-> o.legal, fields |-> o.fields]
      /\ o.legal => \A i \in DOMAIN b.params : Documented(b.params[i], args[i])
      /\ DOMAIN o.fields = F
      /\ \A f \in F : o.fields[f] = IF f = "overflowAction" THEN OverflowAction
                                   ELSE Property(b.params[At(f)], args[At(f)])
  BY <1>1
<1>3. \A f \in FieldsOf(name) :
        /\ At(f) \in DOMAIN b.params /\ b.params[At(f)].field = f
        /\ f # "overflowAction" /\ f # "bin"
  BY BinAndPolicy DEF FieldsOf
<1>4. DOMAIN o.fields \subseteq FieldsOf(o.builder) \cup OptionsOf(o.class)
  BY <1>2 DEF OptionsOf
<1>5. ASSUME o.legal, NEW f PROVE Given(o, f) \in LegalValues(o.builder, f)
  <2>1. CASE f \in FieldsOf(name)
    <3>1. Given(o, f) = Property(b.params[At(f)], args[At(f)])
      BY <2>1, <1>2, <1>3 DEF Given
    <3>2. Documented(b.params[At(f)], args[At(f)]) /\ args[At(f)] \in Choice
      BY <2>1, <1>2, <1>3, <1>5
    <3>3. Given(o, f) \in FromArgument(b.params[At(f)])
      BY <3>1, <3>2 DEF FromArgument
    <3> HIDE DEF At
    <3>4. \E i \in DOMAIN b.params :
             b.params[i].field = f /\ Given(o, f) \in FromArgument(b.params[i])
      BY <3>3, <2>1, <1>3
    <3> QED BY <3>4, <1>2, LegalSources
  <2>2. CASE f \notin FieldsOf(name)
    <3>1. Given(o, f) \in Untouched(name, f)
      BY <2>2, <1>2 DEF Given, Untouched
    <3> QED BY <3>1, <1>2, LegalSources
  <2> QED BY <2>1, <2>2
<1>6. IsBit(o.op) => Given(o, "policy") = "undefined"
  BY <1>2, BinAndPolicy DEF Given
<1> QED BY <1>2, <1>4, <1>5, <1>6 DEF Sound

\* An option leaves an operation sound when it is one of its class, and legal
\* only with a value its documentation allows.
LEMMA OptionIsSound ==
    ASSUME NEW o, Sound(o), NEW field, NEW value, NEW legal \in BOOLEAN,
           field \in OptionsOf(o.class),
           legal => value \in FromOption(o.class, field),
           field = "policy" => value \in {"policy", "broken"}
    PROVE  Sound(WithProperty(o, field, value, legal))
<1> DEFINE p == WithProperty(o, field, value, legal)
<1> DEFINE F == [f \in DOMAIN o.fields \cup {field} |->
                   IF f = field THEN value ELSE o.fields[f]]
<1>0. p = [builder |-> o.builder, class |-> o.class, op |-> o.op, odd |-> o.odd + 1,
           legal |-> o.legal /\ legal, fields |-> F]
  <2>1. p = [o EXCEPT !.fields = F, !.odd = @ + 1, !.legal = @ /\ legal]
    BY DEF WithProperty
  <2> HIDE DEF p, F
  <2> QED BY <2>1 DEF Sound
<1>1. /\ p.builder = o.builder /\ p.class = o.class /\ p.op = o.op
      /\ p.legal \in BOOLEAN /\ (p.legal => o.legal) /\ (p.legal => legal)
      /\ p.fields = F
      /\ p = [builder |-> p.builder, class |-> p.class, op |-> p.op,
              odd |-> p.odd, legal |-> p.legal, fields |-> p.fields]
  <2> HIDE DEF p, F
  <2> QED BY <1>0 DEF Sound
<1> HIDE DEF p
<1>2. /\ DOMAIN p.fields = {field} \cup DOMAIN o.fields
      /\ \A f : Given(p, f) = IF f = field THEN value ELSE Given(o, f)
  BY <1>1 DEF Given
<1>3. ASSUME p.legal, NEW f \in ReadBy(p.op)
      PROVE  Given(p, f) \in LegalValues(p.builder, f)
  <2>1. CASE f = field
    <3>1. Given(p, f) = value /\ value \in FromOption(o.class, field)
      BY <2>1, <1>1, <1>2, <1>3
    <3>2. o.class = Builders[p.builder].class
      BY <1>1 DEF Sound
    <3>3. Given(p, f) \in FromOption(Builders[p.builder].class, f)
      BY <2>1, <3>1, <3>2
    <3> QED BY <3>3, LegalSources
  <2>2. CASE f # field
    BY <2>2, <1>1, <1>2, <1>3 DEF Sound
  <2> QED BY <2>1, <2>2
<1>4. DOMAIN p.fields \subseteq FieldsOf(p.builder) \cup OptionsOf(p.class)
  BY <1>1, <1>2 DEF Sound
<1>5. IsBit(p.op) => Given(p, "policy") \in {"undefined", "policy", "broken"}
  <2>1. Given(p, "policy") = IF field = "policy" THEN value ELSE Given(o, "policy")
    BY <1>2
  <2>2. IsBit(o.op) => Given(o, "policy") \in {"undefined", "policy", "broken"}
    BY DEF Sound
  <2> QED BY <1>1, <2>1, <2>2
<1>6. /\ p.builder \in DOMAIN Builders
      /\ p.class = Builders[p.builder].class /\ p.op = Builders[p.builder].op
  BY <1>1 DEF Sound
<1>7. Sound(p)
  BY <1>1, <1>3, <1>4, <1>5, <1>6 DEF Sound
<1> QED BY <1>7 DEF p

-------------------------------------------------------------------------------
(* The actions                                                             *)

\* The empty list satisfies the invariant.
LEMMA InitIInv == Init => IInv
BY DEF Init, IInv, Built, Called, Progress, Stopped, IsSeq

\* Nothing has been converted while the list is being built, so that it may
\* change as long as its operations stay sound.
LEMMA BuildingIInv ==
    ASSUME IInv, stage = "building", stage' \in {"building", "thrown"},
           UNCHANGED native, Built', Stopped'
    PROVE  IInv'
BY DEF IInv, Called, Progress, native, IsSeq

\* A builder is called.
LEMMA BuildIInv ==
    ASSUME IInv, NEW name \in DOMAIN Builders,
           NEW args \in [DOMAIN Builders[name].params -> Choice],
           Build(name, args)
    PROVE  IInv'
<1> DEFINE o == NewOperation(name, args)
<1>1. /\ stage = "building" /\ stage' \in {"building", "thrown"} /\ UNCHANGED native
      /\ UNCHANGED ops \/ ops' = Append(ops, NewOperation(name, args))
  BY DEF Build, Throw
<1>2. Built'
  <2>1. CASE UNCHANGED ops
    BY <2>1 DEF IInv, Built
  <2>2. CASE ops' = Append(ops, NewOperation(name, args))
    <3>1. Sound(NewOperation(name, args))
      BY NewIsSound
    <3>2. /\ IsSeq(ops') /\ Len(ops) \in Nat /\ Len(ops') = Len(ops) + 1
          /\ ops'[Len(ops) + 1] = NewOperation(name, args)
          /\ \A i \in 1..Len(ops) : ops'[i] = ops[i]
      BY <2>2, Appended DEF IInv, Built
    <3> QED BY <3>1, <3>2 DEF IInv, Built
  <2> QED BY <1>1, <2>1, <2>2
<1>3. Stopped'
  <2>1. CASE RefusesArguments(name, args)
    <3>1. o.legal = (\A i \in DOMAIN Builders[name].params :
                        Documented(Builders[name].params[i], args[i]))
      BY DEF NewOperation
    <3>2. ~o.legal
      BY <2>1, <3>1 DEF RefusesArguments, Documented
    <3>3. culprit' = [builder |-> name, call |-> "build", legal |-> o.legal]
      BY <2>1 DEF Build, Throw
    <3> HIDE DEF o
    <3> QED BY <3>2, <3>3 DEF Stopped
  <2>2. CASE ~RefusesArguments(name, args)
    <3>1. UNCHANGED stage
      BY <2>2 DEF Build
    <3> QED BY <1>1, <3>1 DEF Stopped
  <2> QED BY <2>1, <2>2
<1> QED BY <1>1, <1>2, <1>3, BuildingIInv

\* An option of the operation built last.
LEMMA SetPropertyIInv ==
    ASSUME IInv, stage = "building", ops # <<>>,
           NEW field, NEW value, NEW legal \in BOOLEAN,
           field \in OptionsOf(Latest.class),
           legal => value \in FromOption(Latest.class, field),
           field = "policy" => value \in {"policy", "broken"},
           SetProperty(field, value, legal)
    PROVE  IInv'
<1> DEFINE p == WithProperty(Latest, field, value, legal)
<1>1. ops' = ReplaceLast(ops, p) /\ UNCHANGED <<stage, native>>
  BY DEF SetProperty, ReplaceLast
<1>2. /\ IsSeq(ops') /\ Len(ops') = Len(ops) /\ Len(ops) \in Nat \ {0}
      /\ ops'[Len(ops)] = p /\ \A i \in 1..Len(ops) - 1 : ops'[i] = ops[i]
  <2> HIDE DEF p
  <2> QED BY <1>1, Replaced DEF IInv, Built
<1>3. Sound(p)
  <2>1. Sound(Latest)
    BY <1>2 DEF IInv, Built, Latest
  <2> QED BY <2>1, OptionIsSound
<1>4. Built'
  <2> HIDE DEF p
  <2> QED BY <1>2, <1>3 DEF IInv, Built
<1>5. Stopped'
  BY <1>1 DEF Stopped
<1> QED BY <1>1, <1>4, <1>5, BuildingIInv

\* A call that throws leaves the list as it was.
LEMMA ThrowIInv ==
    ASSUME IInv, stage = "building", NEW call, NEW legal, RefuseOption(call, legal),
           legal => call = "invertSelection" /\ Latest.builder \in Uninvertible
    PROVE  IInv'
<1>1. /\ stage' = "thrown" /\ UNCHANGED <<ops, native>>
      /\ culprit' = [builder |-> Latest.builder, call |-> call, legal |-> legal]
  BY DEF RefuseOption, Throw
<1>2. Built' /\ Stopped'
  BY <1>1 DEF IInv, Built, Stopped
<1> QED BY <1>1, <1>2, BuildingIInv

\* The options, each on the classes that have it.
LEMMA OptionIInv ==
    ASSUME IInv, Option
    PROVE  IInv' \/ UNCHANGED vars
<1>1. stage = "building" /\ ops # <<>>
  BY DEF Option, InvertSelection, AndReturn, WithContext, WithPolicy, OnOverflow, Chain
<1>2. CASE InvertSelection
  <2> DEFINE legal == Latest.builder \in Selections
  <2>1. CASE Latest.class = "List" /\ RefuseOption("invertSelection", legal)
    <3>1. Sound(Latest)
      BY <1>1, EmptySeq DEF IInv, Built, IsSeq, Latest
    <3>2. legal => Latest.builder \in Uninvertible
      BY <2>1, <3>1, SelectionsAreInvertible DEF Sound
    <3> HIDE DEF legal
    <3> QED BY <1>1, <2>1, <3>2, ThrowIInv
  <2>2. CASE Latest.class = "InvertibleList" /\ SetProperty("inverted", "bool", legal)
    <3>1. "inverted" \in OptionsOf(Latest.class)
          /\ "bool" \in FromOption(Latest.class, "inverted")
      BY <2>2 DEF OptionsOf, FromOption
    <3>2. legal \in BOOLEAN
      OBVIOUS
    <3> HIDE DEF legal
    <3> QED BY <1>1, <2>2, <3>1, <3>2, SetPropertyIInv
  <2> QED BY <1>2, <2>1, <2>2 DEF InvertSelection, Chain
<1>3. ASSUME NEW value \in {"int", "null"}, AndReturn(value) PROVE IInv'
  <2>1. /\ "returnType" \in OptionsOf(Latest.class)
        /\ value = "int" => value \in FromOption(Latest.class, "returnType")
    BY <1>3 DEF AndReturn, Chain, OptionsOf, FromOption
  <2> QED BY <1>1, <1>3, <2>1, SetPropertyIInv DEF AndReturn
<1>4. ASSUME NEW value \in {"context", "null", "string"}, WithContext(value)
      PROVE  IInv' \/ UNCHANGED vars
  <2>1. /\ "context" \in OptionsOf(Latest.class)
        /\ {"context", "null"} \subseteq FromOption(Latest.class, "context")
    BY <1>4 DEF WithContext, Chain, OptionsOf, FromOption
  <2>2. ASSUME NEW v \in {"context", "null"}, SetProperty("context", v, TRUE)
        PROVE  IInv'
    BY <1>1, <2>1, <2>2, SetPropertyIInv
  <2>3. CASE RefuseOption("withContext", FALSE)
    BY <1>1, <2>3, ThrowIInv
  <2> QED BY <1>4, <2>2, <2>3 DEF WithContext
<1>5. ASSUME NEW value \in {"policy", "broken"}, WithPolicy(value) PROVE IInv'
  <2>1. /\ "policy" \in OptionsOf(Latest.class)
        /\ value = "policy" => value \in FromOption(Latest.class, "policy")
    BY <1>5 DEF WithPolicy, Chain, OptionsOf, FromOption
  <2> QED BY <1>1, <1>5, <2>1, SetPropertyIInv DEF WithPolicy
<1>6. ASSUME NEW value \in {"int", "string"}, OnOverflow(value) PROVE IInv'
  <2>1. /\ "overflowAction" \in OptionsOf(Latest.class)
        /\ value = "int" => value \in FromOption(Latest.class, "overflowAction")
    BY <1>6 DEF OnOverflow, Chain, OptionsOf, FromOption
  <2> QED BY <1>1, <1>6, <2>1, SetPropertyIInv DEF OnOverflow
<1> QED BY <1>2, <1>3, <1>4, <1>5, <1>6 DEF Option

\* The context changes without the list.
LEMMA ContextIInv ==
    ASSUME IInv, (\E step \in Step : AddStep(step)) \/ StoreAndLoad
    PROVE  IInv'
<1>1. /\ stage = "building" /\ stage' \in {"building", "thrown"}
      /\ UNCHANGED ops /\ UNCHANGED native
  BY DEF AddStep, Throw, StoreAndLoad, built
<1>2. Built'
  BY <1>1 DEF IInv, Built
<1>3. Stopped'
  <2>1. ASSUME NEW step \in Step, AddStep(step) PROVE Stopped'
    <3>1. CASE Overflows(step)
      <4>1. culprit' = [builder |-> "context", call |-> step.method,
                        legal |-> Supported(step)]
        BY <2>1, <3>1 DEF AddStep, Throw
      <4>2. Supported(step) = FALSE
        BY <3>1, StepAssumption, HalfAssumption
           DEF Overflows, Supported, Int32Min, Int32Max
      <4> QED BY <4>1, <4>2 DEF Stopped
    <3>2. CASE ~Overflows(step)
      BY <1>1, <2>1, <3>2 DEF AddStep, Stopped
    <3> QED BY <3>1, <3>2
  <2>2. CASE StoreAndLoad
    BY <1>1, <2>2 DEF StoreAndLoad, built, Stopped
  <2> QED BY <2>1, <2>2
<1> QED BY <1>1, <1>2, <1>3, BuildingIInv

\* The operation under way is sound, and its converter reads finitely many
\* properties.
LEMMA UnderWay ==
    ASSUME IInv, stage = "converting"
    PROVE  /\ Position \in 1..Len(ops) /\ Len(ops) \in Nat /\ Len(calls) \in Nat
           /\ Sound(Current)
           /\ Len(Reads[Current.op]) \in Nat
           /\ DOMAIN Reads[Current.op] = 1..Len(Reads[Current.op])
<1>1. Len(ops) \in Nat /\ Len(calls) \in Nat
  BY DEF IInv, Built, Called, IsSeq
<1>2. Position \in 1..Len(ops)
  BY <1>1 DEF IInv, Progress, Position
<1>3. Sound(Current)
  BY <1>2 DEF IInv, Built, Current
<1> QED BY <1>1, <1>2, <1>3, EveryOpcodeHasAConverter DEF Sound

\* operate(): the conversion begins unless the list is empty.
LEMMA OperateIInv ==
    ASSUME IInv, Operate
    PROVE  IInv'
<1>1. /\ stage = "building" /\ UNCHANGED <<ops, native>>
      /\ stage' = IF ops = <<>> THEN "refused" ELSE "converting"
  BY DEF Operate
<1>2. /\ calls = <<>> /\ getters = 0 /\ held = {} /\ owned = {} /\ leaked = {}
      /\ Len(calls) = 0
  BY <1>1 DEF IInv, Progress
<1>3. Built' /\ Called'
  BY <1>1 DEF IInv, Built, Called, native
<1>4. CASE ops = <<>>
  BY <1>1, <1>2, <1>3, <1>4 DEF IInv, Progress, Stopped, native
<1>5. CASE ops # <<>>
  <2>1. Len(ops) \in Nat \ {0}
    BY <1>5, EmptySeq DEF IInv, Built, IsSeq
  <2>2. Sound(Current) /\ Current' = Current
    BY <1>1, <1>2, <2>1 DEF IInv, Built, Current, Position, native
  <2>3. Len(Reads[Current.op]) \in Nat
    BY <2>2, EveryOpcodeHasAConverter DEF Sound
  <2>4. AcceptsUpTo(Current, 0)
    BY DEF AcceptsUpTo
  <2>5. Progress'
    BY <1>1, <1>2, <1>5, <2>1, <2>2, <2>3, <2>4 DEF Progress, Position, native
  <2> QED BY <1>1, <1>3, <1>5, <2>5 DEF IInv, Stopped
<1> QED BY <1>4, <1>5

\* A getter accepts what it finds.
LEMMA ReadIInv ==
    ASSUME IInv, ReadProperty
    PROVE  IInv'
<1>1. /\ stage = "converting" /\ Remaining /\ Found(Getting) \in Accepts(Getting)
      /\ getters' = getters + 1 /\ UNCHANGED <<stage, ops, owned, leaked, calls>>
  BY DEF ReadProperty, built
<1>2. UNCHANGED Current /\ UNCHANGED Position
  BY <1>1 DEF Current, Position
<1>3. Built' /\ Called'
  BY <1>1 DEF IInv, Built, Called
<1>4. getters \in 0..Len(Reads[Current.op]) /\ AcceptsUpTo(Current, getters)
  BY <1>1 DEF IInv, Progress
<1>5. getters + 1 \in 0..Len(Reads[Current.op])
  BY <1>1, <1>4, UnderWay DEF Remaining
<1>6. Holds(Current, Getting) \in Accepts(Getting)
  BY <1>1 DEF Found, Holds
<1>7. AcceptsUpTo(Current, getters + 1)
  BY <1>4, <1>6 DEF AcceptsUpTo, Getting
<1>8. Progress'
  BY <1>1, <1>2, <1>5, <1>7 DEF IInv, Progress
<1> QED BY <1>1, <1>3, <1>8 DEF IInv, Stopped

\* A getter refuses: the operation is not what its documentation asks for, and
\* its bin and its context are given back, unless it is excused.
LEMMA RefuseIInv ==
    ASSUME IInv, RefuseProperty
    PROVE  IInv'
<1> DEFINE g == Getting
<1>1. PICK got : /\ stage = "converting" /\ Remaining /\ Found(g) \notin Accepts(g)
                 /\ stage' = "refused" /\ UNCHANGED <<ops, calls>>
                 /\ leaked' = leaked \cup owned \cup
                      {<<Position, f>> : f \in got \ ReleasedOnFailure(Current.op, g.field)}
  BY DEF RefuseProperty
<1>2. /\ Len(calls) < Len(ops) /\ leaked = {} /\ \A o \in owned : o[1] \in 1..Len(calls)
      /\ getters \in Nat
  BY <1>1 DEF IInv, Progress
<1>3. /\ Built' /\ Called' /\ UNCHANGED Current /\ UNCHANGED Position
  BY <1>1 DEF IInv, Built, Called, Current, Position
<1>4. /\ Sound(Current) /\ getters + 1 \in DOMAIN Reads[Current.op]
      /\ g.field \in ReadBy(Current.op) /\ g = Reads[Current.op][getters + 1]
  BY <1>1, <1>2, UnderWay DEF Remaining, Getting, ReadBy
<1>5. g.field # "bin" /\ Given(Current, g.field) \notin Accepts(g)
  BY <1>1, <1>4, DocumentedIsAccepted DEF Found, Sound
<1>6. ~Current.legal
  BY <1>4, <1>5, DocumentedIsAccepted DEF Sound
<1>7. ASSUME NEW leak \in leaked', leak[1] = Position, leak[2] \in {"bin", "context"}
      PROVE  Excused(Current)
  <2>1. Position = Len(calls) + 1 /\ Len(calls) \in Nat
    BY <1>1, UnderWay DEF Position
  <2>2. PICK f \in got \ ReleasedOnFailure(Current.op, g.field) : leak = <<Position, f>>
    BY <1>1, <1>2, <1>7, <2>1
  <2>3. CASE IsExpression(Current.op)
    BY <2>3 DEF Excused
  <2>4. CASE IsBit(Current.op) /\ g.field = "policy"
    <3>1. {"policy", "undefined"} \subseteq Accepts(g)
      BY <1>4, <2>4, BinAndPolicy DEF Sound
    <3> QED BY <1>4, <1>5, <2>4, <3>1 DEF Sound, Excused
  <2> QED BY <1>7, <2>2, <2>3, <2>4 DEF ReleasedOnFailure
<1>8. Progress'
  BY <1>1, <1>2, <1>3, <1>6, <1>7 DEF Progress, Position
<1> QED BY <1>1, <1>3, <1>8 DEF IInv, Stopped

\* The C client is called when every getter has accepted.
LEMMA CallIInv ==
    ASSUME IInv, CallClient
    PROVE  IInv'
<1>1. PICK c : /\ stage = "converting" /\ ~Remaining /\ UNCHANGED ops
               /\ calls' = Append(calls, c) /\ c.op = Calls(Current.op)
               /\ c.read = ReadBy(Current.op)
               /\ getters' = 0 /\ UNCHANGED leaked
               /\ IF Position = Len(ops)
                  THEN stage' = "sent" /\ owned' = {}
                  ELSE /\ owned' = owned \cup
                            {<<Position, f>> : f \in held \ ReleasedAfterCall(Current.op)}
                       /\ UNCHANGED stage
  BY DEF CallClient, ReadBy
<1>2. /\ IsSeq(calls') /\ Len(calls) \in Nat /\ Len(calls') = Len(calls) + 1
      /\ calls'[Position] = c /\ \A i \in 1..Len(calls) : calls'[i] = calls[i]
  BY <1>1, Appended DEF IInv, Called, Position
<1>3. /\ leaked = {} /\ AcceptsUpTo(Current, Len(Reads[Current.op]))
      /\ \A o \in owned : o[1] \in 1..Len(calls)
  BY <1>1, UnderWay DEF IInv, Progress, Remaining
<1>4. Built'
  BY <1>1 DEF IInv, Built
<1>5. Called'
  BY <1>1, <1>2, <1>3 DEF IInv, Called, Position, Current
<1>6. CASE Position = Len(ops)
  BY <1>1, <1>2, <1>3, <1>4, <1>5, <1>6 DEF IInv, Progress, Stopped, Position
<1>7. CASE Position # Len(ops)
  <2>1. Position' \in 1..Len(ops) /\ Position' = Position + 1 /\ Len(calls') < Len(ops)
    BY <1>1, <1>2, <1>7, UnderWay DEF Position
  <2>2. Sound(Current')
    BY <1>1, <2>1 DEF IInv, Built, Current
  <2>3. Len(Reads[Current'.op]) \in Nat /\ AcceptsUpTo(Current', 0)
    BY <2>2, EveryOpcodeHasAConverter DEF Sound, AcceptsUpTo
  <2>4. \A o \in owned' : o[1] \in 1..Len(calls')
    BY <1>1, <1>2, <1>3, <1>7, <2>1, UnderWay DEF Position
  <2>5. Progress'
    BY <1>1, <1>3, <1>7, <2>1, <2>3, <2>4 DEF Progress, IInv
  <2> QED BY <1>1, <1>4, <1>5, <1>7, <2>5 DEF IInv, Progress, Stopped
<1> QED BY <1>6, <1>7

\* The invariant is inductive.
LEMMA NextIInv == IInv /\ [Next]_vars => IInv'
<1> SUFFICES ASSUME IInv, [Next]_vars PROVE IInv'
  OBVIOUS
<1>1. CASE UNCHANGED vars
  BY <1>1 DEF vars, built, path, native, IInv, Built, Called, Progress, Stopped, Position, Current
<1>2. CASE Next
  <2>1. ASSUME NEW name \in DOMAIN Builders, NEW args \in Arguments(name),
               Build(name, args)
        PROVE  IInv'
    <3>1. args \in [DOMAIN Builders[name].params -> Choice]
      BY DEF Arguments
    <3> QED BY <2>1, <3>1, BuildIInv
  <2>2. CASE Done
    BY <1>1, <2>2 DEF Done
  <2> QED BY <1>1, <1>2, <2>1, <2>2, OptionIInv, ContextIInv, OperateIInv, ReadIInv,
             RefuseIInv, CallIInv DEF Next
<1> QED BY <1>1, <1>2

\* Every reachable state satisfies the invariant.
THEOREM Invariant == Spec => []IInv
BY InitIInv, NextIInv, PTL DEF Spec

-------------------------------------------------------------------------------
(* What follows                                                            *)

\* Whatever the documentation of builders, options and contexts allows is built
\* and converted: a list is refused only for an operation that departs from its
\* documentation, and calls that throw depart from theirs, the inversion of four
\* list operations apart.
THEOREM LegalListsAreAccepted == Spec => []LegalCallsAccepted
<1>1. IInv => LegalCallsAccepted
  <2> SUFFICES ASSUME IInv, stage = "refused", ops # <<>>
               PROVE  \E i \in DOMAIN ops : ~ops[i].legal
    BY DEF LegalCallsAccepted, IInv, Stopped
  <2>1. Len(calls) < Len(ops) /\ ~Current.legal
    BY DEF IInv, Progress
  <2>2. Position \in DOMAIN ops
    BY <2>1, LenProperties DEF IInv, Built, Called, IsSeq, Position
  <2> QED BY <2>1, <2>2 DEF Current
<1> QED BY <1>1, Invariant, PTL

\* The calls of the C client are those of the operations, in their order, all of
\* them once the list is sent; lscan is the exception.
THEOREM CallsAreInOrder == Spec => []CalledInListOrder
<1>1. IInv => CalledInListOrder
  <2> SUFFICES ASSUME IInv PROVE CalledInListOrder
    OBVIOUS
  <2>1. DOMAIN calls = 1..Len(calls)
    BY LenProperties DEF IInv, Called, IsSeq
  <2> QED BY <2>1 DEF IInv, Called, Progress, CalledInListOrder, Calls
<1> QED BY <1>1, Invariant, PTL

\* Where the operations called so far are in the list.
LEMMA CalledAreSound ==
    ASSUME IInv, NEW i \in DOMAIN calls
    PROVE  /\ i \in 1..Len(calls) /\ i \in 1..Len(ops) /\ Sound(ops[i])
           /\ Builders[ops[i].builder].op = ops[i].op
<1>1. i \in 1..Len(calls) /\ Len(calls) \in Nat /\ Len(ops) \in Nat
  BY LenProperties DEF IInv, Built, Called, IsSeq
<1>2. Len(calls) <= Len(ops)
  BY <1>1 DEF IInv, Progress
<1>3. i \in 1..Len(ops) /\ Sound(ops[i])
  BY <1>1, <1>2 DEF IInv, Built
<1> QED BY <1>1, <1>3 DEF Sound

\* What a builder was given, an inversion, a context and the action for an
\* overflow have been read by the time the operation is called.
THEOREM NothingIsDropped == Spec => []NothingIgnored
<1>1. IInv => NothingIgnored
  <2> SUFFICES ASSUME IInv, NEW i \in DOMAIN calls
               PROVE  /\ FieldsOf(ops[i].builder) \subseteq calls[i].read
                      /\ \A option \in {"inverted", "context", "overflowAction"} :
                           Given(ops[i], option) # "undefined" => option \in calls[i].read
    BY DEF NothingIgnored, FieldsOf
  <2> DEFINE o == ops[i]
  <2>1. Sound(o) /\ calls[i].read = ReadBy(o.op)
    BY CalledAreSound DEF IInv, Called
  <2>2. FieldsOf(o.builder) \cup (OptionsOf(o.class) \ {"policy", "returnType"})
            \subseteq ReadBy(o.op)
    BY <2>1, GivenIsRead DEF Sound
  <2>3. ASSUME NEW option, Given(o, option) # "undefined"
        PROVE  option \in FieldsOf(o.builder) \cup OptionsOf(o.class)
    BY <2>1, <2>3 DEF Given, Sound
  <2> QED BY <2>1, <2>2, <2>3
<1> QED BY <1>1, Invariant, PTL

\* An operation is called only with everything it cannot do without, expressions
\* and policies apart.
THEOREM NothingIsMissing == Spec => []NothingMissing
<1>1. IInv => NothingMissing
  <2> SUFFICES ASSUME IInv, NEW i \in DOMAIN calls,
                      NEW j \in DOMAIN Builders[ops[i].builder].params,
                      Builders[ops[i].builder].params[j].kind
                          \in {"required", "checked", "preset"},
                      Builders[ops[i].builder].params[j].sort
                          \notin {"expression", "policy"}
               PROVE  Given(ops[i], Builders[ops[i].builder].params[j].field) # "undefined"
    BY DEF NothingMissing
  <2> DEFINE o == ops[i]
             field == Builders[o.builder].params[j].field
  <2>1. /\ Sound(o) /\ o.builder \in DOMAIN Builders
        /\ Builders[o.builder].op = o.op /\ AcceptsUpTo(o, Len(Reads[o.op]))
    BY CalledAreSound DEF IInv, Called, Sound
  <2>2. PICK k \in DOMAIN Reads[o.op] :
            Reads[o.op][k].field = field /\ "undefined" \notin Accepts(Reads[o.op][k])
    BY <2>1, NeededIsDemanded
  <2>3. Holds(o, Reads[o.op][k]) \in Accepts(Reads[o.op][k])
    BY <2>1, EveryOpcodeHasAConverter DEF AcceptsUpTo
  <2>4. field # "bin"
    BY <2>1, BinAndPolicy DEF FieldsOf
  <2> QED BY <2>2, <2>3, <2>4 DEF Holds
<1> QED BY <1>1, Invariant, PTL

\* An operation that is refused gives its bin and its context back, that of an
\* expression and that of bits with a bad policy excepted.
THEOREM RefusalsRelease == Spec => []FailureReleases
<1>1. IInv => FailureReleases
  BY DEF IInv, Progress, FailureReleases, Excused
<1> QED BY <1>1, Invariant, PTL

-------------------------------------------------------------------------------
(* The way of a context                                                    *)

\* Division with remainder by a positive number.
LEMMA Remainder ==
    ASSUME NEW h \in Nat \ {0}, NEW q \in Int, NEW r \in 0..h - 1
    PROVE  (q * h + r) % h = r
<1> DEFINE x == q * h + r
           d == x \div h
           m == x % h
<1>1. x \in Int /\ d \in Int /\ m \in 0..h - 1 /\ x = h * d + m
  OBVIOUS
<1>2. h * (q - d) = m - r /\ m - r < h /\ m - r > -h
  <2> HIDE DEF d, m
  <2>1. h * (q - d) = h * q - h * d
    BY <1>1
  <2> QED BY <1>1, <2>1
<1>3. q - d = 0
  <2> HIDE DEF d, m
  <2> DEFINE e == q - d
  <2>1. e \in Int /\ h * e < h /\ h * e > -h
    BY <1>1, <1>2
  <2> HIDE DEF e
  <2>2. ~(e >= 1)
    <3>1. ASSUME e >= 1 PROVE h * e >= h
      BY <2>1, <3>1
    <3> QED BY <2>1, <3>1
  <2>3. ~(e <= -1)
    <3>1. ASSUME e <= -1 PROVE h * e <= -h
      BY <2>1, <3>1
    <3> QED BY <2>1, <3>1
  <2>4. e = 0
    BY <2>1, <2>2, <2>3
  <2> QED BY <2>4 DEF e
<1>4. m = r
  <2> HIDE DEF d, m
  <2> QED BY <1>1, <1>2, <1>3
<1> QED BY <1>4

\* A number below the divisor is its own remainder.
LEMMA SmallRemainder ==
    ASSUME NEW h \in Nat \ {0}, NEW r \in 0..h - 1
    PROVE  r % h = r
OBVIOUS

\* An index of 32 bits survives being stored in 64.
LEMMA ComesBack ==
    ASSUME NEW n \in Int32Min..Int32Max
    PROVE  BackToInt32(n) = n
<1> DEFINE H == Half
           M == 4 * H * H
<1>1. H \in Nat \ {0} /\ n \in Int /\ -H <= n /\ n < H
  BY HalfAssumption DEF Int32Min, Int32Max
<1>2. H <= H * H /\ H * H \in Nat /\ M \in Nat \ {0} /\ M = 4 * (H * H)
  <2> HIDE DEF H
  <2>1. H * 1 <= H * H
    BY <1>1
  <2> QED BY <1>1, <2>1
<1>3. CASE n >= 0
  <2>1. n % M = n
    <3> HIDE DEF M
    <3>1. n \in 0..M - 1
      BY <1>1, <1>2, <1>3
    <3> QED BY <1>2, <3>1, SmallRemainder
  <2>2. n % H = n
    <3>1. n \in 0..H - 1
      BY <1>1, <1>3
    <3> QED BY <1>1, <3>1, SmallRemainder
  <2>3. n < 2 * H * H
    BY <1>1, <1>2
  <2> QED BY <1>1, <2>1, <2>2, <2>3 DEF BackToInt32
<1>4. CASE n < 0
  <2>1. n % M = M + n
    <3> HIDE DEF M
    <3>1. M + n \in 0..M - 1 /\ -1 \in Int
      BY <1>1, <1>2, <1>4
    <3>2. ((-1) * M + (M + n)) % M = M + n
      BY <1>2, <3>1, Remainder
    <3> QED BY <1>1, <1>2, <3>2
  <2>2. (M + n) % H = H + n
    <3>1. H + n \in 0..H - 1 /\ 4 * H - 1 \in Int
      BY <1>1, <1>4
    <3>2. ((4 * H - 1) * H + (H + n)) % H = H + n
      BY <1>1, <3>1, Remainder
    <3>3. (4 * H - 1) * H = M - H
      BY <1>1
    <3> QED BY <1>1, <1>2, <3>2, <3>3
  <2>3. M + n >= 2 * H * H
    BY <1>1, <1>2
  <2> QED BY <1>1, <2>1, <2>2, <2>3 DEF BackToInt32
<1> QED BY <1>1, <1>3, <1>4

\* Steps that satisfy StepAssumption and were not refused.
Fits(step) ==
    /\ step.method \in Methods
    /\ step.method \in ByPosition => step.at \in Int32Min..Int32Max
    /\ step.method = "addListIndexCreate" =>
          step.order \in {0, 1} /\ step.pad \in BOOLEAN
    /\ step.method = "addMapKeyCreate" => step.order \in {0, 1, 3}

\* An item with an index or a rank is stored and loaded unharmed.
LEMMA StoredItem ==
    ASSUME NEW step, Fits(step)
    PROVE  /\ (Item(step).code % 16 <= 1) => BackToInt32(Item(step).at) = Item(step).at
           /\ Item(step).code \in Int
           /\ Item(step).code % 16 > 1 \/ Item(step).code % 16 <= 1
<1>1. CASE step.method \in ByPosition
  <2>1. BackToInt32(step.at) = step.at
    BY <1>1, ComesBack DEF Fits
  <2> QED BY <1>1, <2>1 DEF Item, Fits, ByPosition, Base, CreateFlag
<1>2. CASE step.method \in {"addListValue", "addMapKey", "addMapValue"}
  BY <1>2 DEF Item, Fits, ByPosition, Base, CreateFlag
<1>3. CASE step.method = "addMapKeyCreate"
  BY <1>3 DEF Item, Fits, ByPosition, Base, CreateFlag
<1> QED BY <1>1, <1>2, <1>3 DEF Fits, Methods, ByPosition

\* Every base is a number.
LEMMA Bases == \A m \in Methods : Base(m) \in {16, 17, 19, 32, 33, 34, 35}
<1> SUFFICES ASSUME NEW m \in Methods PROVE Base(m) \in {16, 17, 19, 32, 33, 34, 35}
  OBVIOUS
<1>1. CASE m \in {"addListIndex", "addListIndexCreate"}
  BY <1>1 DEF Base
<1>2. CASE m \notin {"addListIndex", "addListIndexCreate"}
  BY <1>2 DEF Methods, Base
<1> QED BY <1>1, <1>2

\* The cases of the switch.
LEMMA Switched ==
    /\ Switch(16) = Plain("list_index") /\ Switch(17) = Plain("list_rank")
    /\ Switch(19) = Plain("list_value") /\ Switch(32) = Plain("map_index")
    /\ Switch(33) = Plain("map_rank") /\ Switch(34) = Plain("map_key")
    /\ Switch(35) = Plain("map_value")
    /\ Switch(80) = Target("list_index_create", 0, FALSE)
    /\ Switch(144) = Target("list_index_create", 0, TRUE)
    /\ Switch(208) = Target("list_index_create", 1, FALSE)
    /\ Switch(98) = Target("map_key_create", 0, FALSE)
    /\ Switch(162) = Target("map_key_create", 1, FALSE)
    /\ Switch(226) = Target("map_key_create", 3, FALSE)
BY DEF Switch

\* The code of a step is one the switch knows, and stands for what was meant;
\* its bit 16 tells lists from maps.
LEMMA MeantItem ==
    ASSUME NEW step, Fits(step)
    PROVE  /\ Item(step).code \in Known
           /\ Call(Item(step)) = [to |-> Meaning(step), at |-> step.at]
           /\ (Item(step).code \div 16) % 2 =
                IF step.method \in {"addListIndex", "addListIndexCreate",
                                   "addListRank", "addListValue"} THEN 1 ELSE 0
<1> DEFINE m == step.method
           code == Item(step).code
           target == Switch(code)
<1>1. CASE m = "addListIndexCreate"
  <2>1. code = IF step.order # 0 THEN 208 ELSE IF step.pad THEN 144 ELSE 80
    BY <1>1 DEF Item, Base, CreateFlag
  <2>2. step.order \in {0, 1} /\ step.pad \in BOOLEAN
    BY <1>1 DEF Fits
  <2>3. code \in Known /\ (code \div 16) % 2 = 1
    BY <2>1 DEF Known
  <2>4. target = Target("list_index_create", step.order, step.pad /\ step.order = 0)
    <3>1. CASE step.order = 1
      <4>1. code = 208 /\ (step.pad /\ step.order = 0) = FALSE
        BY <2>1, <2>2, <3>1
      <4> QED BY <3>1, <4>1, Switched
    <3>2. CASE step.order = 0 /\ step.pad = TRUE
      <4>1. code = 144 /\ (step.pad /\ step.order = 0) = TRUE
        BY <2>1, <3>2
      <4> QED BY <3>2, <4>1, Switched
    <3>3. CASE step.order = 0 /\ step.pad = FALSE
      <4>1. code = 80 /\ (step.pad /\ step.order = 0) = FALSE
        BY <2>1, <3>3
      <4> QED BY <3>3, <4>1, Switched
    <3> QED BY <2>2, <3>1, <3>2, <3>3
  <2> QED BY <1>1, <2>3, <2>4 DEF Item, Call, Meaning
<1>2. CASE m = "addMapKeyCreate"
  <2>1. code = IF step.order = 0 THEN 98 ELSE IF step.order = 1 THEN 162 ELSE 226
    BY <1>2 DEF Item, Base, CreateFlag
  <2>2. step.order \in {0, 1, 3}
    BY <1>2 DEF Fits
  <2>3. code \in Known /\ (code \div 16) % 2 = 0
    BY <2>1 DEF Known
  <2>4. target = Target("map_key_create", step.order, FALSE)
    BY <2>1, <2>2, Switched
  <2> QED BY <1>2, <2>3, <2>4 DEF Item, Call, Meaning
<1>3. CASE m \in Methods \ {"addListIndexCreate", "addMapKeyCreate"}
  <2>1. code = Base(m)
    BY <1>3, Bases DEF Item, CreateFlag
  <2>2. code \in Known
    BY <1>3, <2>1 DEF Methods, Base, Known
  <2>3. target = Meaning(step)
    <3>1. CASE m = "addListIndex"
      BY <2>1, <3>1, Switched DEF Base, Meaning
    <3>2. CASE m = "addListRank"
      BY <2>1, <3>2, Switched DEF Base, Meaning
    <3>3. CASE m = "addListValue"
      BY <2>1, <3>3, Switched DEF Base, Meaning
    <3>4. CASE m = "addMapIndex"
      BY <2>1, <3>4, Switched DEF Base, Meaning
    <3>5. CASE m = "addMapRank"
      BY <2>1, <3>5, Switched DEF Base, Meaning
    <3>6. CASE m = "addMapKey"
      BY <2>1, <3>6, Switched DEF Base, Meaning
    <3>7. CASE m = "addMapValue"
      BY <2>1, <3>7, Switched DEF Base, Meaning
    <3> QED BY <1>3, <3>1, <3>2, <3>3, <3>4, <3>5, <3>6, <3>7 DEF Methods
  <2>4. (code \div 16) % 2 =
            IF m \in {"addListIndex", "addListRank", "addListValue"} THEN 1 ELSE 0
    BY <1>3, <2>1 DEF Methods, Base
  <2> QED BY <1>3, <2>2, <2>3, <2>4 DEF Item, Call
<1> QED BY <1>1, <1>2, <1>3 DEF Fits

\* A set of natural numbers has a least member.
LEMMA NatLeast ==
    ASSUME NEW T \in SUBSET Nat, T # {}
    PROVE  \E n \in T : \A m \in T : n <= m
<1> DEFINE R == OpToRel(<, Nat)
<1>1. IsWellFoundedOn(R, Nat)
  BY NatLessThanWellFounded, Zenon
<1>2. \E x \in T : \A y \in T : ~ (<<y, x>> \in R)
  <2> HIDE DEF R
  <2> QED BY <1>1, WFMin
<1>3. \E x \in T : \A y \in T : ~ (y < x)
  BY <1>2, Zenon DEF OpToRel
<1> QED BY <1>3

\* What the loop over the items computes: added[n] is the context after n items.
Adds(items, added) ==
    added = [n \in 0..Len(items) |->
               IF n = 0 THEN <<>>
               ELSE IF items[n].code \in Known
                    THEN Append(added[n - 1], Call(items[n]))
                    ELSE added[n - 1]]

\* The context is what the loop has after the last item.
LEMMA LoopIsAdds ==
    ASSUME NEW items
    PROVE  NativeContext(items) = (CHOOSE added : Adds(items, added))[Len(items)]
BY DEF NativeContext, Adds

\* The context of the first n items.
FirstCalls(items, n) == [i \in 1..n |-> Call(items[i])]

\* One more item is one more call at the end.
LEMMA OneMore ==
    ASSUME NEW items, NEW n \in Nat \ {0}
    PROVE  Append(FirstCalls(items, n - 1), Call(items[n])) = FirstCalls(items, n)
<1> DEFINE s == FirstCalls(items, n - 1)
           t == FirstCalls(items, n)
           c == Call(items[n])
           R == {Call(items[i]) : i \in 1..n}
<1>1. s \in [1..n - 1 -> R] /\ t \in [1..n -> R] /\ c \in R /\ n - 1 \in Nat
  BY DEF FirstCalls
<1>2. \A i \in 1..n : t[i] = IF i = n THEN c ELSE s[i]
  BY DEF FirstCalls
<1> HIDE DEF s, t, c, R
<1>3. s \in Seq(R) /\ t \in Seq(R)
  <2>1. s \in UNION {[1..m -> R] : m \in Nat} /\ t \in UNION {[1..m -> R] : m \in Nat}
    BY <1>1, Zenon
  <2> QED BY <2>1, SeqDef, Zenon
<1>4. Len(s) = n - 1 /\ Len(t) = n
  <2>1. DOMAIN s = 1..n - 1 /\ DOMAIN t = 1..n
    BY <1>1
  <2>2. /\ Len(s) \in Nat /\ DOMAIN s = 1..Len(s)
        /\ Len(t) \in Nat /\ DOMAIN t = 1..Len(t)
    BY <1>3, LenProperties
  <2> QED BY <2>1, <2>2
<1>5. /\ Append(s, c) \in Seq(R) /\ Len(Append(s, c)) = n
      /\ \A i \in 1..n : Append(s, c)[i] = IF i = n THEN c ELSE s[i]
  BY <1>1, <1>3, <1>4, AppendProperties
<1>6. Append(s, c) = t
  BY <1>2, <1>3, <1>4, <1>5, SeqEqual
<1> QED BY <1>6 DEF s, t, c

\* A context with codes the switch knows is taken over item by item.
LEMMA NoneLeftOut ==
    ASSUME NEW items, Len(items) \in Nat,
           \A i \in 1..Len(items) : items[i].code \in Known
    PROVE  NativeContext(items) = FirstCalls(items, Len(items))
<1> DEFINE N == Len(items)
           g == [n \in 0..N |-> FirstCalls(items, n)]
           f == CHOOSE added : Adds(items, added)
<1>1. Adds(items, g)
  <2>1. FirstCalls(items, 0) = <<>>
    BY DEF FirstCalls
  <2>2. ASSUME NEW n \in 0..N, n # 0
        PROVE  g[n] = Append(g[n - 1], Call(items[n]))
    <3>1. n \in Nat \ {0} /\ n - 1 \in 0..N
      BY <2>2
    <3> QED BY <3>1, OneMore
  <2> QED BY <2>1, <2>2 DEF Adds
<1>2. Adds(items, f)
  BY <1>1
<1> HIDE DEF f
<1>3. \A n \in 0..N : f[n] = g[n]
  <2> DEFINE Differing == {n \in 0..N : f[n] # g[n]}
  <2> SUFFICES ASSUME Differing # {} PROVE FALSE
    OBVIOUS
  <2>1. PICK n \in Differing : \A m \in Differing : n <= m
    <3>1. Differing \in SUBSET Nat
      OBVIOUS
    <3> QED BY <3>1, NatLeast
  <2>2. CASE n = 0
    <3> HIDE DEF g
    <3>1. 0 \in 0..N
      OBVIOUS
    <3>2. f[0] = <<>> /\ g[0] = <<>>
      BY <1>1, <1>2, <3>1 DEF Adds
    <3> QED BY <2>1, <2>2, <3>2
  <2>3. CASE n # 0
    <3>1. n - 1 \in 0..N /\ n - 1 \notin Differing /\ n \in 1..N
      BY <2>1, <2>3
    <3>2. f[n] = Append(f[n - 1], Call(items[n])) /\ g[n] = Append(g[n - 1], Call(items[n]))
      <4> HIDE DEF g
      <4> QED BY <1>1, <1>2, <3>1 DEF Adds
    <3> QED BY <2>1, <3>1, <3>2
  <2> QED BY <2>2, <2>3
<1>4. NativeContext(items) = f[N]
  BY LoopIsAdds DEF f
<1> QED BY <1>3, <1>4

\* The items of the context are those of the steps asked for, in their order, and
\* operations that have been called were given all of them.
ContextKept ==
    /\ IsSeq(context) /\ IsSeq(asked) /\ Len(context) = Len(asked)
    /\ \A j \in 1..Len(asked) : Fits(asked[j]) /\ context[j] = Item(asked[j])
    /\ \A i \in 1..Len(calls) :
          Given(ops[i], "context") = "context" =>
              calls[i].context = NativeContext(context)

\* There is no context to begin with.
LEMMA InitContextKept == Init => ContextKept
BY DEF Init, ContextKept, IsSeq

\* A step is added.
LEMMA AddStepKept ==
    ASSUME IInv, ContextKept, NEW step \in Step, AddStep(step)
    PROVE  ContextKept'
<1>1. calls = <<>> /\ UNCHANGED <<ops, calls>> /\ Len(calls) = 0
  BY DEF AddStep, IInv, Progress, native
<1>2. CASE UNCHANGED path
  BY <1>1, <1>2 DEF ContextKept, path
<1>3. CASE /\ ~Overflows(step) /\ context' = Append(context, Item(step))
           /\ asked' = Append(asked, step)
  <2>1. Fits(step)
    BY <1>3, StepAssumption DEF Fits, Overflows
  <2>2. /\ IsSeq(context') /\ Len(context') = Len(context) + 1
        /\ context'[Len(context) + 1] = Item(step)
        /\ \A i \in 1..Len(context) : context'[i] = context[i]
    BY <1>3, Appended DEF ContextKept
  <2>3. /\ IsSeq(asked') /\ Len(asked') = Len(asked) + 1 /\ Len(asked) \in Nat
        /\ asked'[Len(asked) + 1] = step
        /\ \A i \in 1..Len(asked) : asked'[i] = asked[i]
    BY <1>3, Appended DEF ContextKept
  <2> QED BY <1>1, <2>1, <2>2, <2>3 DEF ContextKept
<1> QED BY <1>2, <1>3 DEF AddStep

\* A context that is stored and loaded is the same.
LEMMA StoredIsSame ==
    ASSUME ContextKept
    PROVE  FromBase64(context) = context
<1>1. context = [i \in 1..Len(context) |-> context[i]]
  BY LenProperties DEF ContextKept, IsSeq
<1>2. ASSUME NEW i \in 1..Len(context)
      PROVE  (IF context[i].code % 16 > 1 THEN context[i]
              ELSE [context[i] EXCEPT !.at = BackToInt32(@)]) = context[i]
  <2>1. Fits(asked[i]) /\ context[i] = Item(asked[i])
    BY DEF ContextKept
  <2>2. context[i] = [code |-> context[i].code, at |-> context[i].at]
    BY <2>1 DEF Item
  <2>3. CASE context[i].code % 16 > 1
    BY <2>3
  <2>4. CASE context[i].code % 16 <= 1
    <3>1. BackToInt32(context[i].at) = context[i].at
      BY <2>1, <2>4, StoredItem
    <3> QED BY <2>2, <3>1
  <2> QED BY <2>1, <2>3, <2>4, StoredItem
<1>3. FromBase64(context) = [i \in 1..Len(context) |-> context[i]]
  BY <1>2 DEF FromBase64
<1> QED BY <1>1, <1>3

\* A call is made with the context as it is, if the operation was given one.
LEMMA CallKept ==
    ASSUME IInv, ContextKept, CallClient
    PROVE  ContextKept'
<1>1. PICK c : /\ UNCHANGED <<ops, path>> /\ calls' = Append(calls, c)
               /\ c.context = IF Given(Current, "context") = "context"
                              THEN NativeContext(context) ELSE <<>>
  BY DEF CallClient
<1>2. /\ Len(calls) \in Nat /\ Len(calls') = Len(calls) + 1
      /\ calls'[Position] = c /\ \A i \in 1..Len(calls) : calls'[i] = calls[i]
  BY <1>1, Appended DEF IInv, Called, Position
<1> QED BY <1>1, <1>2 DEF ContextKept, path, Position, Current

\* Whatever else happens, contexts stay what they are once a call has been made.
LEMMA NextContextKept == IInv /\ ContextKept /\ [Next]_vars => ContextKept'
<1> SUFFICES ASSUME IInv, ContextKept, [Next]_vars PROVE ContextKept'
  OBVIOUS
<1>1. ASSUME UNCHANGED <<path, calls>>, calls = <<>> \/ UNCHANGED ops
      PROVE  ContextKept'
  BY <1>1 DEF ContextKept, path
<1>2. ASSUME stage = "building" PROVE calls = <<>>
  BY <1>2 DEF IInv, Progress
<1>3. ASSUME NEW name, NEW args, Build(name, args) PROVE ContextKept'
  BY <1>1, <1>2, <1>3 DEF Build, native
<1>4. ASSUME NEW field, NEW value, NEW legal, stage = "building",
             SetProperty(field, value, legal)
      PROVE  ContextKept'
  BY <1>1, <1>2, <1>4 DEF SetProperty, native
<1>5. CASE UNCHANGED vars \/ Operate \/ ReadProperty \/ RefuseProperty \/ Done
  BY <1>1, <1>5 DEF Operate, ReadProperty, RefuseProperty, Done, vars, built, native
<1>6. CASE Option
  <2>1. ASSUME NEW call, NEW legal, RefuseOption(call, legal) PROVE ContextKept'
    BY <1>1, <2>1 DEF RefuseOption, native
  <2>2. CASE InvertSelection
    BY <1>4, <2>1, <2>2 DEF InvertSelection, Chain
  <2>3. ASSUME NEW value, WithContext(value) PROVE ContextKept'
    BY <1>4, <1>5, <2>1, <2>3 DEF WithContext, Chain
  <2> QED BY <1>4, <1>6, <2>2, <2>3
     DEF Option, AndReturn, WithPolicy, OnOverflow, Chain
<1>7. CASE StoreAndLoad
  BY <1>1, <1>7, StoredIsSame DEF StoreAndLoad, path, built, native
<1> QED BY <1>3, <1>5, <1>6, <1>7, AddStepKept, CallKept DEF Next

\* The items of a context are those of its steps in every reachable state.
THEOREM ContextInvariant == Spec => []ContextKept
<1>1. Init => IInv /\ ContextKept
  BY InitIInv, InitContextKept
<1>2. (IInv /\ ContextKept) /\ [Next]_vars => (IInv /\ ContextKept)'
  BY NextIInv, NextContextKept
<1> QED BY <1>1, <1>2, PTL DEF Spec

\* Every operation with a context is called with the path the application asked
\* for, step by step, and an expression that reads there assumes the right type.
THEOREM ContextsAreMeant == Spec => []ContextMeant
<1>1. IInv /\ ContextKept => ContextMeant
  <2> SUFFICES ASSUME IInv, ContextKept PROVE ContextMeant
    OBVIOUS
  <2>1. /\ Len(asked) \in Nat /\ DOMAIN asked = 1..Len(asked)
        /\ Len(context) = Len(asked) /\ DOMAIN calls = 1..Len(calls)
        /\ asked # <<>> => Len(asked) \in 1..Len(asked)
    BY LenProperties, EmptySeq DEF ContextKept, IInv, Called, IsSeq
  <2>2. \A j \in 1..Len(asked) : Fits(asked[j]) /\ context[j] = Item(asked[j])
    BY DEF ContextKept
  <2>3. NativeContext(context) =
          [j \in DOMAIN asked |-> [to |-> Meaning(asked[j]), at |-> asked[j].at]]
    <3>1. \A j \in 1..Len(asked) :
             /\ context[j].code \in Known
             /\ Call(context[j]) = [to |-> Meaning(asked[j]), at |-> asked[j].at]
      BY <2>2, MeantItem
    <3>2. NativeContext(context) = FirstCalls(context, Len(context))
      BY <2>1, <3>1, NoneLeftOut
    <3> QED BY <2>1, <3>1, <3>2 DEF FirstCalls
  <2>4. ASSUME NEW i \in DOMAIN calls, Given(ops[i], "context") = "context"
        PROVE  calls[i].context =
                 [j \in DOMAIN asked |-> [to |-> Meaning(asked[j]), at |-> asked[j].at]]
    BY <2>1, <2>3, <2>4 DEF ContextKept
  <2>5. ASSUME asked # <<>>
        PROVE  ContextType(context) =
                 IF asked[Len(asked)].method \in
                      {"addListIndex", "addListIndexCreate", "addListRank", "addListValue"}
                 THEN "LIST" ELSE "MAP"
    BY <2>1, <2>2, <2>5, MeantItem DEF ContextType
  <2> QED BY <2>4, <2>5 DEF ContextMeant
<1> QED BY <1>1, Invariant, ContextInvariant, PTL

-------------------------------------------------------------------------------
(* The runs                                                                *)

\* What the runs explore (BoundedOperations) are behaviours of Operations, so that
\* what is proved of those holds of what TLC has seen.
THEOREM BoundedBehaviours == BoundedSpec => Spec
<1>1. BoundedNext => Next
  <2>1. ASSUME NEW name \in Subject, NEW args \in Offered(name), Build(name, args)
        PROVE  Next
    <3>1. name \in DOMAIN Builders /\ AllPlain(name) \in Arguments(name)
      BY BoundsAssumption DEF Arguments, AllPlain, Odd, Choice
    <3>2. args \in Arguments(name)
      BY <3>1 DEF Offered
    <3> QED BY <2>1, <3>1, <3>2 DEF Next
  <2>2. ASSUME NEW name \in Companion, Build(name, AllPlain(name)) PROVE Next
    <3>1. name \in DOMAIN Builders /\ AllPlain(name) \in Arguments(name)
      BY BoundsAssumption DEF Arguments, AllPlain, Odd, Choice
    <3> QED BY <2>2, <3>1 DEF Next
  <2> QED BY <2>1, <2>2 DEF BoundedNext, Next
<1> QED BY <1>1, PTL DEF BoundedSpec, Spec
================================================================================
