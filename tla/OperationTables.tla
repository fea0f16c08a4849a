---------------------------- MODULE OperationTables ----------------------------
(***************************************************************************)
(* What the tables of Operations have to do with one another: the builders *)
(* of lib/ with the options that are chained to them on one side, the      *)
(* converters of the add-on on the other.  The tables are written out, so  *)
(* that each of these facts is a closed formula: TLC decides it once and   *)
(* for all, and the proofs about Operations start from it.                 *)
(***************************************************************************)
EXTENDS Operations

FieldsOf(name) ==
    {Builders[name].params[i].field : i \in DOMAIN Builders[name].params}

OptionsOf(class) ==
    CASE class = "List" -> {"returnType", "context"}
      [] class = "InvertibleList" -> {"returnType", "context", "inverted"}
      [] class = "Map" -> {"returnType", "context"}
      [] class \in {"Bit", "HLL"} -> {"policy"}
      [] class = "OverflowBit" -> {"policy", "overflowAction"}
      [] OTHER -> {}

\* The properties the converter of an opcode reads.
ReadBy(op) == {Reads[op][i].field : i \in DOMAIN Reads[op]}

-------------------------------------------------------------------------------
\* What a property may hold when the documentation of the builder and of the
\* options has been followed: what an argument leaves there, what an option puts
\* there, and without either nothing, or the action an overflow starts out with.
FromArgument(param) ==
    {Property(param, choice) : choice \in {c \in Choice : Documented(param, c)}}

FromOption(class, field) ==
    CASE field \notin OptionsOf(class) -> {}
      [] field \in {"returnType", "overflowAction"} -> {"int"}
      [] field = "inverted" -> {"bool"}
      [] field = "context" -> {"context", "null"}
      [] OTHER -> {"policy"}

Untouched(name, field) ==
    IF field \in FieldsOf(name) THEN {}
    ELSE IF Builders[name].class = "OverflowBit" /\ field = "overflowAction"
         THEN {OverflowAction} ELSE {"undefined"}

FromArguments(name, field) ==
    UNION {FromArgument(Builders[name].params[i]) :
             i \in {j \in DOMAIN Builders[name].params :
                     Builders[name].params[j].field = field}}

LegalValues(name, field) ==
    FromArguments(name, field) \cup FromOption(Builders[name].class, field)
        \cup Untouched(name, field)

-------------------------------------------------------------------------------
(* The facts                                                               *)

\* Every builder makes operations the add-on has a converter for.
ASSUME EveryOpcodeHasAConverter ==
    \A name \in DOMAIN Builders :
        LET op == Builders[name].op
        IN  /\ op \in DOMAIN Reads
            /\ Len(Reads[op]) \in Nat /\ DOMAIN Reads[op] = 1..Len(Reads[op])

\* The getters accept what the documentation allows, and a bin's name.
ASSUME DocumentedIsAccepted ==
    \A name \in DOMAIN Builders :
        LET reads == Reads[Builders[name].op]
        IN  \A i \in DOMAIN reads :
                IF reads[i].field = "bin" THEN "string" \in Accepts(reads[i])
                ELSE LegalValues(name, reads[i].field) \subseteq Accepts(reads[i])

\* The converters read what the builders set, an inversion, a context and the
\* action for an overflow.
ASSUME GivenIsRead ==
    \A name \in DOMAIN Builders :
        LET b == Builders[name]
        IN  FieldsOf(name) \cup (OptionsOf(b.class) \ {"policy", "returnType"})
                \subseteq ReadBy(b.op)

\* A property an operation cannot do without is read by a getter that insists
\* on it, expressions and policies apart.
ASSUME NeededIsDemanded ==
    \A name \in DOMAIN Builders :
        LET b == Builders[name]
        IN  \A j \in DOMAIN b.params :
                /\ b.params[j].kind \in {"required", "checked", "preset"}
                /\ b.params[j].sort \notin {"expression", "policy"}
                => \E i \in DOMAIN Reads[b.op] :
                      /\ Reads[b.op][i].field = b.params[j].field
                      /\ "undefined" \notin Accepts(Reads[b.op][i])

\* No builder sets the bin, which every operation has, a second time, nor the
\* action for an overflow.  The policy of an operation on bits comes from
\* withPolicy alone.
ASSUME BinAndPolicy ==
    \A name \in DOMAIN Builders :
        LET b == Builders[name]
        IN  /\ {"bin", "overflowAction"} \cap FieldsOf(name) = {}
            /\ IsBit(b.op) => /\ b.class \in {"Bit", "OverflowBit"}
                              /\ "policy" \notin FieldsOf(name)
                              /\ \A i \in DOMAIN Reads[b.op] :
                                    Reads[b.op][i].field = "policy" =>
                                      {"policy", "undefined"} \subseteq
                                          Accepts(Reads[b.op][i])

\* The selections that are not of the class that can be inverted are known.
ASSUME SelectionsAreInvertible ==
    \A name \in Selections :
        name \in Uninvertible \/ Builders[name].class # "List"

===============================================================================
