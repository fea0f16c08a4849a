------------------------------ MODULE Operations -------------------------------
(***************************************************************************)
(* Building a list of operations and handing it to operate(): the objects  *)
(* of lib/lists.js, maps.js, bitwise.js, hll.js, operations.js and         *)
(* exp_operations.js with the options that are chained to them, and        *)
(* OperateAsync, which converts the list operation by operation and        *)
(* property by property (NativeOperations) and stops at the first property *)
(* it cannot use.                                                          *)
(*                                                                         *)
(* A context is one object: operations keep a reference to it, and steps   *)
(* added to it later are steps of the context of all of them.              *)
(*                                                                         *)
(* Followed through the conversion: what has been allocated for the        *)
(* operation under way, what the as_operations structure has taken over,   *)
(* and what nobody will ever free.                                         *)
(***************************************************************************)
EXTENDS OperationBuilders, NativeOperations, CdtContext, FiniteSets

CONSTANT Step    \* the steps an application may ask a context for

\* The methods of a context are called with an index or a rank that is a number,
\* and with the orders that lists and maps can have.
ASSUME StepAssumption ==
    \A step \in Step :
        /\ step.method \in Methods
        /\ step.method \in ByPosition => step.at \in Int
        /\ step.method = "addListIndexCreate" =>
              step.order \in {0, 1} /\ step.pad \in BOOLEAN
        /\ step.method = "addMapKeyCreate" => step.order \in {0, 1, 3}

VARIABLES
    stage,    \* "building", "thrown", "converting", "sent" or "refused"
    ops,      \* the operations built: class, opcode, properties, arguments
    culprit,  \* the call that threw, and whether its documentation allows it
    context,  \* the items of the Context object
    asked,    \* the steps the application asked that object for
    getters,  \* how many getters have run for the operation under way
    held,     \* what has been allocated for it
    owned,    \* <<position, field>>: what the as_operations owns
    leaked,   \* <<position, field>>: what nobody frees
    calls     \* the calls of the C client, in order

built == <<stage, ops, culprit>>
path == <<context, asked>>
native == <<getters, held, owned, leaked, calls>>
vars == <<built, path, native>>

Given(op, field) ==
    IF field \in DOMAIN op.fields THEN op.fields[field] ELSE "undefined"

-------------------------------------------------------------------------------
(* Building                                                                *)

\* What an application may pass for a parameter: what the documentation asks
\* for, a value of another type, undefined or null.
Choice == {"plain", "wrong", "undefined", "null"}

Wrong(sort) ==
    CASE sort \in {"any", "list", "object", "policy", "expression"} -> "broken"
      [] sort = "string" -> "int"
      [] OTHER -> "string"

Passed(param, choice) ==
    CASE choice = "plain" -> param.sort
      [] choice = "wrong" -> Wrong(param.sort)
      [] OTHER -> choice

\* The arguments the documentation of the builder allows.
Documented(param, choice) ==
    \/ choice = "plain"
    \/ /\ param.kind \in {"optional", "nullable", "default"}
       /\ choice = "undefined"
    \/ /\ param.kind = "nullable"
       /\ choice = "null"

AllPlain(name) == [i \in DOMAIN Builders[name].params |-> "plain"]

Odd(args) == {i \in DOMAIN args : args[i] # "plain"}

\* What a builder presets is no argument of it.
Arguments(name) ==
    LET params == Builders[name].params
    IN  {args \in [DOMAIN params -> Choice] :
            \A i \in Odd(args) : params[i].kind # "preset"}

Property(param, choice) ==
    IF param.kind = "default" /\ choice = "undefined" THEN param.sort
    ELSE Passed(param, choice)

OverflowAction == "int"

\* Slip: the constructor leaves out the action for an overflow.
Properties_NoOverflowAction(name, args) ==
    LET params == Builders[name].params
        At(f) == CHOOSE i \in DOMAIN params : params[i].field = f
    IN  [f \in {params[i].field : i \in DOMAIN params} |->
            Property(params[At(f)], args[At(f)])]

\* A builder's parameters become properties of the operation.  An operation
\* that can overflow starts out with the action for it.
Properties(name, args) ==
    LET b == Builders[name]
        At(f) == CHOOSE i \in DOMAIN b.params : b.params[i].field = f
    IN  [f \in {b.params[i].field : i \in DOMAIN b.params}
                \cup IF b.class = "OverflowBit" THEN {"overflowAction"} ELSE {}
            |-> IF f = "overflowAction" THEN OverflowAction
                ELSE Property(b.params[At(f)], args[At(f)])]

NewOperation(name, args) ==
    LET b == Builders[name]
    IN  [builder |-> name, class |-> b.class, op |-> b.op,
         odd |-> Cardinality(Odd(args)),
         legal |-> \A i \in DOMAIN b.params : Documented(b.params[i], args[i]),
         fields |-> Properties(name, args)]

\* A call that throws ends the building: the list never gets to operate().
NoCulprit == [builder |-> "none", call |-> "none", legal |-> FALSE]

Throw(name, call, legal) ==
    /\ stage' = "thrown"
    /\ culprit' = [builder |-> name, call |-> call, legal |-> legal]

\* bitwise.set throws a TypeError; nothing has been built then.
RefusesArguments(name, args) ==
    \E i \in DOMAIN args :
        Builders[name].params[i].kind = "checked" /\ args[i] # "plain"

Build(name, args) ==
    /\ stage = "building"
    /\ IF RefusesArguments(name, args)
       THEN /\ Throw(name, "build", NewOperation(name, args).legal)
            /\ UNCHANGED ops
       ELSE /\ ops' = Append(ops, NewOperation(name, args))
            /\ UNCHANGED <<stage, culprit>>
    /\ UNCHANGED <<path, native>>

-------------------------------------------------------------------------------
(* The options chained to the operation built last                         *)

Latest == ops[Len(ops)]
IsList == Latest.class \in {"List", "InvertibleList"}
IsMap == Latest.class = "Map"

Chain(classes) ==
    /\ stage = "building" /\ ops # <<>>
    /\ Latest.class \in classes

WithProperty(op, field, value, legal) ==
    [op EXCEPT !.fields = [f \in DOMAIN @ \cup {field} |->
                              IF f = field THEN value ELSE @[f]],
               !.odd = @ + 1,
               !.legal = @ /\ legal]

SetProperty(field, value, legal) ==
    /\ ops' = [ops EXCEPT ![Len(ops)] = WithProperty(Latest, field, value, legal)]
    /\ UNCHANGED <<stage, culprit, path, native>>

RefuseOption(call, legal) ==
    Throw(Latest.builder, call, legal) /\ UNCHANGED <<ops, path, native>>

\* Slip: any list operation lets its selection be inverted.
InvertSelection_Any ==
    /\ Chain({"List", "InvertibleList"})
    /\ SetProperty("inverted", "bool", Latest.builder \in Selections)

\* The constructor of InvertibleListOp sets inverted to false, which the add-on
\* takes as it takes an operation without it.  What is legal is what the builder's
\* documentation says, not what the class of its operation has.
InvertSelection ==
    /\ Chain({"List", "InvertibleList"})
    /\ LET legal == Latest.builder \in Selections
       IN  IF Latest.class = "List" THEN RefuseOption("invertSelection", legal)
           ELSE SetProperty("inverted", "bool", legal)

AndReturn(value) ==
    /\ Chain({"List", "InvertibleList", "Map"})
    /\ SetProperty("returnType", value, value = "int")

\* A list operation insists on a Context or a function that fills one in; a map
\* operation takes any object, null included, and ignores the rest.
WithContext(value) ==
    /\ Chain({"List", "InvertibleList", "Map"})
    /\ CASE value = "context" -> SetProperty("context", "context", TRUE)
         [] value = "null" /\ IsMap -> SetProperty("context", "null", TRUE)
         [] value # "context" /\ IsList -> RefuseOption("withContext", FALSE)
         [] OTHER -> UNCHANGED vars

WithPolicy(value) ==
    /\ Chain({"Bit", "OverflowBit", "HLL"})
    /\ SetProperty("policy", value, value = "policy")

OnOverflow(value) ==
    /\ Chain({"OverflowBit"})
    /\ SetProperty("overflowAction", value, value = "int")

Option ==
    \/ InvertSelection
    \/ \E value \in {"int", "null"} : AndReturn(value)
    \/ \E value \in {"context", "null", "string"} : WithContext(value)
    \/ \E value \in {"policy", "broken"} : WithPolicy(value)
    \/ \E value \in {"int", "string"} : OnOverflow(value)

-------------------------------------------------------------------------------
(* The context                                                             *)

\* Indices and ranks are numbers of 32 bits.
Supported(step) ==
    step.method \in ByPosition => Int32Min <= step.at /\ step.at <= Int32Max

AddStep(step) ==
    /\ stage = "building"
    /\ IF Overflows(step)
       THEN Throw("context", step.method, Supported(step)) /\ UNCHANGED path
       ELSE /\ context' = Append(context, Item(step))
            /\ asked' = Append(asked, step)
            /\ UNCHANGED <<stage, culprit>>
    /\ UNCHANGED <<ops, native>>

\* contextToBase64, kept somewhere, and contextFromBase64: another object.
StoreAndLoad ==
    /\ stage = "building" /\ ops = <<>> /\ context # <<>>
    /\ context' = FromBase64(context)
    /\ UNCHANGED <<built, asked, native>>

-------------------------------------------------------------------------------
(* operate(): OperateAsync and operations_from_jsarray                     *)

Position == Len(calls) + 1
Current == ops[Position]

Operate ==
    /\ stage = "building"
    /\ stage' = IF ops = <<>> THEN "refused" ELSE "converting"
    /\ UNCHANGED <<ops, culprit, path, native>>

Remaining == getters < Len(Reads[Current.op])
Getting == Reads[Current.op][getters + 1]

\* The value a getter finds; every operation of the model has a bin.
Found(getter) ==
    IF getter.field = "bin" THEN "string" ELSE Given(Current, getter.field)

\* Slip: what is undefined is passed over.
ReadProperty_SkipsUndefined ==
    /\ stage = "converting" /\ Remaining
    /\ LET g == Getting
       IN
        /\ Found(g) \in Accepts(g) \cup {"undefined"}
        /\ getters' = getters + 1
        /\ held' = held \cup (IF Allocates(g, Found(g)) THEN {g.field} ELSE {})
        /\ UNCHANGED <<built, path, owned, leaked, calls>>

ReadProperty ==
    /\ stage = "converting" /\ Remaining
    /\ LET g == Getting
       IN
        /\ Found(g) \in Accepts(g)
        /\ getters' = getters + 1
        /\ held' = held \cup (IF Allocates(g, Found(g)) THEN {g.field} ELSE {})
        /\ UNCHANGED <<built, path, owned, leaked, calls>>

\* The operations added before are not given back either: OperateAsync destroys
\* the as_operations only when the whole conversion has succeeded.
RefuseProperty ==
    /\ stage = "converting" /\ Remaining
    /\ LET g == Getting
           got == held \cup (IF Allocates(g, Found(g)) THEN {g.field} ELSE {})
       IN
        /\ Found(g) \notin Accepts(g)
        /\ stage' = "refused"
        /\ leaked' = leaked \cup owned \cup
            {<<Position, f>> : f \in got \ ReleasedOnFailure(Current.op, g.field)}
        /\ held' = {} /\ owned' = {} /\ getters' = 0
        /\ UNCHANGED <<ops, culprit, path, calls>>

CallClient ==
    /\ stage = "converting" /\ ~Remaining
    /\ calls' = Append(calls,
        [op |-> Calls(Current.op),
         read |-> {Reads[Current.op][i].field :
                        i \in DOMAIN Reads[Current.op]},
         context |-> IF Given(Current, "context") = "context"
                     THEN NativeContext(context) ELSE <<>>])
    /\ held' = {} /\ getters' = 0
    /\ IF Position = Len(ops)
       THEN stage' = "sent" /\ owned' = {}
       ELSE /\ owned' = owned \cup
                {<<Position, f>> : f \in held \ ReleasedAfterCall(Current.op)}
            /\ UNCHANGED stage
    /\ UNCHANGED <<ops, culprit, path, leaked>>

Done == stage \in {"thrown", "sent", "refused"} /\ UNCHANGED vars

-------------------------------------------------------------------------------
Init ==
    /\ stage = "building" /\ ops = <<>> /\ culprit = NoCulprit
    /\ context = <<>> /\ asked = <<>>
    /\ getters = 0 /\ held = {} /\ owned = {} /\ leaked = {} /\ calls = <<>>

Next ==
    \/ \E name \in DOMAIN Builders : \E args \in Arguments(name) : Build(name, args)
    \/ Option
    \/ \E step \in Step : AddStep(step)
    \/ StoreAndLoad
    \/ Operate
    \/ ReadProperty
    \/ RefuseProperty
    \/ CallClient
    \/ Done

Spec == Init /\ [][Next]_vars

-------------------------------------------------------------------------------
(* Properties                                                              *)

\* The list operations of one index or one rank are of the class that cannot be
\* inverted, but their documentation sends to invertSelection, which throws.
Uninvertible == {"lists.removeByIndex", "lists.removeByRank",
                 "lists.getByIndex", "lists.getByRank"}

\* Whatever the documentation of the builders, of their options and of the steps
\* of a context allows can be built and converted: operate() refuses a list only
\* when some argument or option is not what its documentation asks for, or when
\* the list is empty, and a call that throws is not what its documentation asks
\* for either.  The exception is the inversion of the four operations above.
LegalCallsAccepted ==
    /\ stage = "refused" /\ ops # <<>> => \E i \in DOMAIN ops : ~ops[i].legal
    /\ stage = "thrown" /\ culprit.legal =>
          culprit.call = "invertSelection" /\ culprit.builder \in Uninvertible

\* The C client is asked for the operations that were built, in that order;
\* the exception is the scan from the left (see RightOperation).
CalledInListOrder ==
    /\ stage = "sent" => Len(calls) = Len(ops)
    /\ \A i \in DOMAIN calls :
        ops[i].op # "BIT_LSCAN" => calls[i].op = ops[i].op

\* The documentation of bitwise.lscan and all the others: each operation does
\* what its opcode says.
RightOperation == \A i \in DOMAIN calls : calls[i].op = ops[i].op

\* What the builder was given, an inversion and a context have been looked at
\* by the time the operation is called: none is dropped in silence.
NothingIgnored ==
    \A i \in DOMAIN calls :
        LET params == Builders[ops[i].builder].params
        IN  /\ {params[j].field : j \in DOMAIN params} \subseteq calls[i].read
            /\ \A option \in {"inverted", "context", "overflowAction"} :
                 Given(ops[i], option) # "undefined" => option \in calls[i].read

\* No operation reaches the C client without an argument it cannot do without.
\* An expression is the exception: without one, a null pointer is passed on.
NothingMissing ==
    \A i \in DOMAIN calls :
        LET params == Builders[ops[i].builder].params
        IN  \A j \in DOMAIN params :
                /\ params[j].kind \in {"required", "checked", "preset"}
                /\ params[j].sort \notin {"expression", "policy"}
                => Given(ops[i], params[j].field) # "undefined"

\* What a step means: lists can be created ordered or not, and only a list that
\* is not ordered can be padded.
Meaning(step) ==
    CASE step.method = "addListIndex" -> Plain("list_index")
      [] step.method = "addListRank" -> Plain("list_rank")
      [] step.method = "addListValue" -> Plain("list_value")
      [] step.method = "addMapIndex" -> Plain("map_index")
      [] step.method = "addMapRank" -> Plain("map_rank")
      [] step.method = "addMapKey" -> Plain("map_key")
      [] step.method = "addMapValue" -> Plain("map_value")
      [] step.method = "addListIndexCreate" ->
            Target("list_index_create", step.order, step.pad /\ step.order = 0)
      [] OTHER -> Target("map_key_create", step.order, FALSE)

\* An operation is called with the context the application asked for, step by
\* step and number by number, a context that was stored and loaded included;
\* and the type an expression assumes at the end of the path is the right one.
ContextMeant ==
    /\ \A i \in DOMAIN calls :
        Given(ops[i], "context") = "context" =>
            calls[i].context = [j \in DOMAIN asked |->
                                  [to |-> Meaning(asked[j]), at |-> asked[j].at]]
    /\ asked # <<>> =>
        ContextType(context) =
            IF asked[Len(asked)].method \in
                {"addListIndex", "addListIndexCreate", "addListRank",
                 "addListValue"}
            THEN "LIST" ELSE "MAP"

\* An operation that is refused gives its bin, its context and its list of
\* items back, whichever of its properties was at fault; not so the bin of an
\* expression, nor the bin of a bit operation whose policy is.
FailureReleases ==
    \A leak \in leaked :
        leak[1] = Position /\ leak[2] \in {"bin", "context"} =>
            \/ IsExpression(Current.op)
            \/ IsBit(Current.op) /\ Given(Current, "policy") = "broken"

===============================================================================
