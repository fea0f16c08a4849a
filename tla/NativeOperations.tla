--------------------------- MODULE NativeOperations ----------------------------
(***************************************************************************)
(* The converters of the add-on, src/main/*_operations.cc: for every opcode*)
(* the properties its add_..._op function reads from the operation, in the *)
(* order it reads them, and the getter it reads each one with.  A getter   *)
(* accepts some types of value and may allocate; the function leaves with  *)
(* the first getter that does not accept what it finds.                    *)
(*                                                                         *)
(* The value of a property is the name of its type.  "broken" is an array  *)
(* or an object that holds something which has no Aerospike type, such as  *)
(* undefined: converting it fails half way.                                *)
(***************************************************************************)
EXTENDS Sequences, TLC

Sort == {"int", "bool", "any", "list", "object", "bytes", "string",
         "policy", "expression", "context"}
ValueState == Sort \cup {"undefined", "null", "broken"}

Getter(kind, field) == [kind |-> kind, field |-> field]

Number(field) == Getter("number", field)
OptionalNumber(field) == Getter("optionalNumber", field)
Bool(field) == Getter("bool", field)
AsVal(field) == Getter("asval", field)
OptionalAsVal(field) == Getter("optionalAsval", field)
List(field) == Getter("list", field)
ItemsOf(field) == Getter("items", field)
Bytes(field) == Getter("bytes", field)
Text(field) == Getter("text", field)
TTL(field) == Getter("ttl", field)
ExpOf(field) == Getter("expression", field)

ListPolicy == Getter("listPolicy", "policy")
OtherPolicy == Getter("policy", "policy")
Return == Getter("returnType", "returnType")
Inverted == Getter("optionalBool", "inverted")

\* What each getter accepts.  A list policy that is no object is no policy;
\* an expression that is no array is no expression, and touch takes any TTL.
Accepts(getter) ==
    CASE getter.kind = "number" -> {"int"}
      [] getter.kind = "optionalNumber" -> {"int", "undefined", "null"}
      [] getter.kind = "bool" -> {"bool"}
      [] getter.kind = "optionalBool" -> {"bool", "undefined", "null"}
      [] getter.kind = "asval" -> Sort \cup {"null"}
      [] getter.kind = "optionalAsval" -> Sort \cup {"undefined", "null"}
      [] getter.kind = "list" -> {"list"}
      [] getter.kind = "items" -> {"object"}
      [] getter.kind = "bytes" -> {"bytes"}
      [] getter.kind = "text" -> {"string", "bytes"}
      [] getter.kind = "listPolicy" -> ValueState \ {"broken"}
      [] getter.kind = "policy" -> {"policy", "undefined"}
      [] getter.kind = "returnType" -> {"int", "undefined"}
      [] getter.kind = "context" -> {"context", "undefined", "null"}
      [] getter.kind = "expression" -> ValueState \ {"broken"}
      [] OTHER -> ValueState

\* A getter that finds a value to convert allocates what it converts it to,
\* and a conversion that fails half way leaves what it has got so far.
Allocates(getter, value) ==
    /\ getter.kind \in {"asval", "optionalAsval", "list", "items", "bytes",
                        "text", "context", "expression"}
    /\ value \notin {"undefined", "null"}
    /\ value \in Accepts(getter) \cup {"broken"}

-------------------------------------------------------------------------------
ListWrites ==
    "LIST_SET_ORDER" :> <<Number("order")>> @@
    "LIST_SORT" :> <<Number("flags")>> @@
    "LIST_APPEND" :> <<AsVal("value"), ListPolicy>> @@
    "LIST_APPEND_ITEMS" :> <<List("list"), ListPolicy>> @@
    "LIST_INSERT" :> <<Number("index"), AsVal("value"), ListPolicy>> @@
    "LIST_INSERT_ITEMS" :> <<Number("index"), List("list"), ListPolicy>>

ListRemovals ==
    "LIST_POP" :> <<Number("index")>> @@
    "LIST_POP_RANGE" :> <<Number("index"), OptionalNumber("count")>> @@
    "LIST_REMOVE" :> <<Number("index")>> @@
    "LIST_REMOVE_RANGE" :> <<Number("index"), OptionalNumber("count")>> @@
    "LIST_REMOVE_BY_INDEX" :> <<Number("index"), Return, Inverted>> @@
    "LIST_REMOVE_BY_INDEX_RANGE" :>
        <<Number("index"), OptionalNumber("count"), Return, Inverted>> @@
    "LIST_REMOVE_BY_VALUE" :> <<AsVal("value"), Return, Inverted>> @@
    "LIST_REMOVE_BY_VALUE_LIST" :> <<List("values"), Return, Inverted>> @@
    "LIST_REMOVE_BY_VALUE_RANGE" :>
        <<OptionalAsVal("begin"), OptionalAsVal("end"), Return, Inverted>> @@
    "LIST_REMOVE_BY_VALUE_REL_RANK_RANGE" :>
        <<AsVal("value"), Number("rank"), OptionalNumber("count"),
          Return, Inverted>> @@
    "LIST_REMOVE_BY_RANK" :> <<Number("rank"), Return, Inverted>> @@
    "LIST_REMOVE_BY_RANK_RANGE" :>
        <<Number("rank"), OptionalNumber("count"), Return, Inverted>>

ListEdits ==
    "LIST_CLEAR" :> <<>> @@
    "LIST_SET" :> <<Number("index"), AsVal("value"), ListPolicy>> @@
    "LIST_TRIM" :> <<Number("index"), Number("count")>> @@
    "LIST_INCREMENT" :>
        <<Number("index"), OptionalAsVal("value"), ListPolicy>> @@
    "LIST_CREATE" :> <<Number("order"), Bool("pad"), Bool("persistIndex")>> @@
    "LIST_SIZE" :> <<>>

ListReads ==
    "LIST_GET" :> <<Number("index")>> @@
    "LIST_GET_RANGE" :> <<Number("index"), OptionalNumber("count")>> @@
    "LIST_GET_BY_INDEX" :> <<Number("index"), Return, Inverted>> @@
    "LIST_GET_BY_INDEX_RANGE" :>
        <<Number("index"), OptionalNumber("count"), Return, Inverted>> @@
    "LIST_GET_BY_VALUE" :> <<AsVal("value"), Return, Inverted>> @@
    "LIST_GET_BY_VALUE_LIST" :> <<List("values"), Return, Inverted>> @@
    "LIST_GET_BY_VALUE_RANGE" :>
        <<OptionalAsVal("begin"), OptionalAsVal("end"), Return, Inverted>> @@
    "LIST_GET_BY_VALUE_REL_RANK_RANGE" :>
        <<AsVal("value"), Number("rank"), OptionalNumber("count"),
          Return, Inverted>> @@
    "LIST_GET_BY_RANK" :> <<Number("rank"), Return, Inverted>> @@
    "LIST_GET_BY_RANK_RANGE" :>
        <<Number("rank"), OptionalNumber("count"), Return, Inverted>>

MapWrites ==
    "MAP_SET_POLICY" :> <<OtherPolicy>> @@
    "MAP_PUT" :> <<AsVal("key"), AsVal("value"), OtherPolicy>> @@
    "MAP_PUT_ITEMS" :> <<ItemsOf("items"), OtherPolicy>> @@
    "MAP_INCREMENT" :> <<AsVal("key"), AsVal("incr"), OtherPolicy>> @@
    "MAP_DECREMENT" :> <<AsVal("key"), AsVal("decr"), OtherPolicy>> @@
    "MAP_CLEAR" :> <<>> @@
    "MAP_CREATE" :> <<Number("order"), Bool("persistIndex")>> @@
    "MAP_SIZE" :> <<>>

MapRemovals ==
    "MAP_REMOVE_BY_KEY" :> <<AsVal("key"), Return>> @@
    "MAP_REMOVE_BY_KEY_LIST" :> <<List("keys"), Return>> @@
    "MAP_REMOVE_BY_KEY_RANGE" :>
        <<OptionalAsVal("begin"), OptionalAsVal("end"), Return>> @@
    "MAP_REMOVE_BY_KEY_REL_INDEX_RANGE" :>
        <<AsVal("key"), Number("index"), OptionalNumber("count"), Return>> @@
    "MAP_REMOVE_BY_VALUE" :> <<AsVal("value"), Return>> @@
    "MAP_REMOVE_BY_VALUE_LIST" :> <<List("values"), Return>> @@
    "MAP_REMOVE_BY_VALUE_RANGE" :>
        <<OptionalAsVal("begin"), OptionalAsVal("end"), Return>> @@
    "MAP_REMOVE_BY_VALUE_REL_RANK_RANGE" :>
        <<AsVal("value"), Number("rank"), OptionalNumber("count"), Return>> @@
    "MAP_REMOVE_BY_INDEX" :> <<Number("index"), Return>> @@
    "MAP_REMOVE_BY_INDEX_RANGE" :>
        <<Number("index"), OptionalNumber("count"), Return>> @@
    "MAP_REMOVE_BY_RANK" :> <<Number("rank"), Return>> @@
    "MAP_REMOVE_BY_RANK_RANGE" :>
        <<Number("rank"), OptionalNumber("count"), Return>>

MapReads ==
    "MAP_GET_BY_KEY" :> <<AsVal("key"), Return>> @@
    "MAP_GET_BY_KEY_LIST" :> <<List("keys"), Return>> @@
    "MAP_GET_BY_KEY_RANGE" :>
        <<OptionalAsVal("begin"), OptionalAsVal("end"), Return>> @@
    "MAP_GET_BY_KEY_REL_INDEX_RANGE" :>
        <<AsVal("key"), Number("index"), OptionalNumber("count"), Return>> @@
    "MAP_GET_BY_VALUE" :> <<AsVal("value"), Return>> @@
    "MAP_GET_BY_VALUE_LIST" :> <<List("values"), Return>> @@
    "MAP_GET_BY_VALUE_RANGE" :>
        <<OptionalAsVal("begin"), OptionalAsVal("end"), Return>> @@
    "MAP_GET_BY_VALUE_REL_RANK_RANGE" :>
        <<AsVal("value"), Number("rank"), OptionalNumber("count"), Return>> @@
    "MAP_GET_BY_INDEX" :> <<Number("index"), Return>> @@
    "MAP_GET_BY_INDEX_RANGE" :>
        <<Number("index"), OptionalNumber("count"), Return>> @@
    "MAP_GET_BY_RANK" :> <<Number("rank"), Return>> @@
    "MAP_GET_BY_RANK_RANGE" :>
        <<Number("rank"), OptionalNumber("count"), Return>>

BitChanges ==
    "BIT_RESIZE" :> <<Number("size"), Number("flags")>> @@
    "BIT_INSERT" :> <<Number("offset"), Bytes("value")>> @@
    "BIT_REMOVE" :> <<Number("offset"), Number("size")>> @@
    "BIT_SET" :> <<Number("bitOffset"), Number("bitSize"), Bytes("value")>> @@
    "BIT_OR" :> <<Number("bitOffset"), Number("bitSize"), Bytes("value")>> @@
    "BIT_XOR" :> <<Number("bitOffset"), Number("bitSize"), Bytes("value")>> @@
    "BIT_AND" :> <<Number("bitOffset"), Number("bitSize"), Bytes("value")>> @@
    "BIT_NOT" :> <<Number("offset"), Number("size")>> @@
    "BIT_LSHIFT" :>
        <<Number("bitOffset"), Number("bitSize"), Number("shift")>> @@
    "BIT_RSHIFT" :>
        <<Number("bitOffset"), Number("bitSize"), Number("shift")>> @@
    "BIT_ADD" :>
        <<Number("bitOffset"), Number("bitSize"), Number("value"),
          Bool("sign"), Number("overflowAction")>> @@
    "BIT_SUBTRACT" :>
        <<Number("bitOffset"), Number("bitSize"), Number("value"),
          Bool("sign"), Number("overflowAction")>> @@
    "BIT_SET_INT" :>
        <<Number("bitOffset"), Number("bitSize"), Number("value")>>

BitReads ==
    "BIT_GET" :> <<Number("bitOffset"), Number("bitSize")>> @@
    "BIT_LSCAN" :> <<Number("bitOffset"), Number("bitSize"), Bool("value")>> @@
    "BIT_RSCAN" :> <<Number("bitOffset"), Number("bitSize"), Bool("value")>> @@
    "BIT_GET_INT" :>
        <<Number("bitOffset"), Number("bitSize"), Bool("sign")>>

HllCalls ==
    "HLL_INIT" :>
        <<Number("indexBits"), Number("minhashBits"), OtherPolicy>> @@
    "HLL_ADD" :>
        <<Number("indexBits"), Number("minhashBits"), OtherPolicy,
          List("list")>> @@
    "HLL_SET_UNION" :> <<OtherPolicy, List("list")>> @@
    "HLL_REFRESH_COUNT" :> <<>> @@
    "HLL_FOLD" :> <<Number("indexBits")>> @@
    "HLL_READ" :> <<Number("command")>> @@
    "HLL_READ_LIST" :> <<Number("command"), List("list")>>

ScalarCalls ==
    "READ" :> <<>> @@
    "WRITE" :> <<AsVal("value")>> @@
    "INCR" :> <<Number("value")>> @@
    "APPEND" :> <<Text("value")>> @@
    "PREPEND" :> <<Text("value")>> @@
    "TOUCH" :> <<TTL("ttl")>> @@
    "DELETE" :> <<>>

ExpressionCalls ==
    "EXP_READ" :> <<Number("flags"), ExpOf("exp")>> @@
    "EXP_WRITE" :> <<Number("flags"), ExpOf("exp")>>

Converters ==
    ListWrites @@ ListRemovals @@ ListEdits @@ ListReads @@
    MapWrites @@ MapRemovals @@ MapReads @@
    BitChanges @@ BitReads @@ HllCalls @@ ScalarCalls @@ ExpressionCalls

-------------------------------------------------------------------------------
\* Slip: subtract calls the function of add.
Calls_Subtract(op) ==
    CASE op = "BIT_LSCAN" -> "BIT_RSCAN"
      [] op = "BIT_SUBTRACT" -> "BIT_ADD"
      [] OTHER -> op

\* The C function a converter calls has the name of the opcode, except that
\* lscan calls the one of rscan.
Calls(op) == IF op = "BIT_LSCAN" THEN "BIT_RSCAN" ELSE op

ListOrMapOps ==
    DOMAIN (ListWrites @@ ListRemovals @@ ListEdits @@ ListReads @@
            MapWrites @@ MapRemovals @@ MapReads)
BitOps == DOMAIN (BitChanges @@ BitReads)

IsListOrMap(op) == op \in ListOrMapOps
IsBit(op) == op \in BitOps
IsExpression(op) == op \in {"EXP_READ", "EXP_WRITE"}

\* What add_list_op, add_map_op, add_bit_op, add_hll_op, add_scalar_op and
\* add_exp_op read before they call the converter: the bin, which they copy,
\* and the context or the policy.
Bin == Getter("text", "bin")
Prelude(op) ==
    IF IsListOrMap(op) THEN <<Bin, Getter("context", "context")>>
    ELSE IF IsBit(op) THEN <<Bin, OtherPolicy>>
    ELSE IF op \in {"TOUCH", "DELETE"} THEN <<>> ELSE <<Bin>>

Reads == [op \in DOMAIN Converters |-> Prelude(op) \o Converters[op]]

ReadsItems(op) ==
    op \in {"LIST_APPEND_ITEMS", "LIST_INSERT_ITEMS", "HLL_ADD",
            "HLL_SET_UNION", "HLL_READ_LIST"}

\* Slip: the context is destroyed only after the call.
ReleasedOnFailure_NoContext(op, field) ==
    IF IsExpression(op) \/ (IsBit(op) /\ field = "policy") THEN {}
    ELSE {"bin"} \cup (IF ReadsItems(op) THEN {"list"} ELSE {})

\* What is given back when the getter of a field refuses its value.  The bin
\* of a bit operation with a bad policy and of an expression is not; of the
\* values, only the list of the functions above is.
ReleasedOnFailure(op, field) ==
    IF IsExpression(op) \/ (IsBit(op) /\ field = "policy") THEN {}
    ELSE {"bin", "context"} \cup (IF ReadsItems(op) THEN {"list"} ELSE {})

\* What is given back after the call: the rest belongs to the as_operations.
ReleasedAfterCall(op) ==
    {"bin", "context"}
        \cup (IF IsBit(op) THEN {"value"} ELSE {})
        \cup (IF op \in DOMAIN HllCalls THEN {"list"} ELSE {})
        \cup (IF IsExpression(op) THEN {"exp"} ELSE {})

===============================================================================
