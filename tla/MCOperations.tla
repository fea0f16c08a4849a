------------------------------ MODULE MCOperations -----------------------------
(* Every builder, alone or before or after a companion; contexts of up to   *)
(* two of the steps the Context class offers, at the ends of the range of   *)
(* an index, inside it and outside it.                                      *)
EXTENDS OperationTables, BoundedOperations

At(method, n) == [method |-> method, at |-> n, order |-> 0, pad |-> FALSE]
Create(method, o, p) == [method |-> method, at |-> -1, order |-> o, pad |-> p]

AllBuilders == DOMAIN Builders
\* Families that leave different things with the as_operations.
Companions == {"lists.append", "bitwise.insert", "expop.write"}

Steps ==
    {At("addListIndex", n) : n \in {Int32Min, 1, Int32Max, Int32Max + 1}}
    \cup {At(m, -1) : m \in {"addListRank", "addListValue", "addMapIndex",
                             "addMapRank", "addMapKey", "addMapValue"}}
    \cup {At("addMapKey", Int32Max + 1), At("addMapRank", Int32Min - 1)}
    \cup {Create("addListIndexCreate", o, p) : o \in {0, 1}, p \in BOOLEAN}
    \cup {Create("addMapKeyCreate", o, FALSE) : o \in {0, 1, 3}}
===============================================================================
