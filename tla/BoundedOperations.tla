--------------------------- MODULE BoundedOperations ----------------------------
(***************************************************************************)
(* The part of Operations that is explored: lists of one operation that    *)
(* varies and one that does not, before it or behind it.                   *)
(***************************************************************************)
EXTENDS Operations

CONSTANTS Subject,    \* the builders whose operations vary
          Companion,  \* those whose operations come before or behind them
          MaxOdd,     \* bound: of an operation, the arguments that are not plain
                      \* and the options, together
          MaxSteps    \* bound: steps of the context

ASSUME BoundsAssumption ==
    /\ Subject \cup Companion \subseteq DOMAIN Builders
    /\ MaxOdd \in Nat /\ MaxSteps \in Nat

IsCompanion(op) ==
    /\ op.builder \in Companion
    /\ op = NewOperation(op.builder, AllPlain(op.builder))

\* A call varies in its arguments or in its context; only a companion has a
\* context of more than one step; the second operation varies less.
Offered(name) ==
    IF asked = <<>>
    THEN {args \in Arguments(name) : Cardinality(Odd(args)) + Len(ops) <= MaxOdd}
    ELSE IF Len(asked) + Len(ops) <= 1 \/ name \in Companion
         THEN {AllPlain(name)} ELSE {}

MayBegin == (ops = <<>>) \/ (Len(ops) = 1 /\ IsCompanion(ops[1]))
MayFollow == Len(ops) = 1 /\ ops[1].odd < MaxOdd
MayVary == ops # <<>> /\ Latest.odd + Len(ops) <= MaxOdd

MayDeepen ==
    /\ Len(asked) < MaxSteps
    /\ \A i \in DOMAIN ops :
         ops[i].builder \in Companion /\ Given(ops[i], "context") = "context"

BoundedNext ==
    \/ \E name \in Subject :
            /\ stage = "building" /\ MayBegin
            /\ \E args \in Offered(name) : Build(name, args)
    \/ \E name \in Companion : MayFollow /\ Build(name, AllPlain(name))
    \/ MayVary /\ Option
    \/ \E step \in Step : MayDeepen /\ AddStep(step)
    \/ StoreAndLoad
    \/ Operate
    \/ ReadProperty
    \/ RefuseProperty
    \/ CallClient
    \/ Done

BoundedSpec == Init /\ [][BoundedNext]_vars

===============================================================================
