-------------------------- MODULE OperationBuilders ---------------------------
(***************************************************************************)
(* The functions applications build operations with: lists, maps, bitwise, *)
(* hll, operations and exp_operations under lib/.  None of them looks at   *)
(* what it is given, bitwise.set excepted: an argument that is missing or  *)
(* of another type becomes a property of the operation all the same, and   *)
(* is found out when the add-on converts the operation.                    *)
(*                                                                         *)
(* For every builder: the class of the operation, which says the options   *)
(* it has, the opcode, and the properties it sets from its arguments, each *)
(* with what the documentation of the builder demands of the argument.     *)
(* The name of the bin is left out: every builder takes it.  The two       *)
(* halves of bitwise.set are two builders here.                            *)
(***************************************************************************)
EXTENDS TLC

\* A required argument, an optional one, one that may also be null, one with
\* a default value in the signature, one whose type the builder itself checks,
\* and a property the builder sets on its own.
Req(field, sort) == [field |-> field, sort |-> sort, kind |-> "required"]
Opt(field, sort) == [field |-> field, sort |-> sort, kind |-> "optional"]
Null(field, sort) == [field |-> field, sort |-> sort, kind |-> "nullable"]
Default(field, sort) == [field |-> field, sort |-> sort, kind |-> "default"]
Checked(field, sort) == [field |-> field, sort |-> sort, kind |-> "checked"]
Preset(field, sort) == [field |-> field, sort |-> sort, kind |-> "preset"]

ReturnType       == Opt("returnType", "int")
Index            == Req("index", "int")
Count            == Opt("count", "int")
Value            == Req("value", "any")
BitOffset        == Req("bitOffset", "int")
BitSize          == Req("bitSize", "int")
Rank             == Req("rank", "int")
Policy           == Opt("policy", "policy")
ItemList         == Req("list", "list")
Key              == Req("key", "any")
Begin            == Null("begin", "any")
End              == Null("end", "any")
Command          == Preset("command", "int")
Values           == Req("values", "list")
BytesValue       == Req("value", "bytes")
IntegerValue     == Req("value", "int")
Order            == Req("order", "int")
Flags            == Req("flags", "int")
ByteSize         == Req("size", "int")
Offset           == Req("offset", "int")
Sign             == Req("sign", "bool")
PersistIndex     == Default("persistIndex", "bool")
RequiredCount    == Req("count", "int")
Keys             == Req("keys", "list")
Shift            == Req("shift", "int")
FlagValue        == Req("value", "bool")
IndexBits        == Req("indexBits", "int")
MinhashBits      == Default("minhashBits", "int")
TextValue        == Req("value", "string")
Exp              == Req("exp", "expression")
Pad              == Default("pad", "bool")
OptionalValue    == Opt("value", "int")
NewPolicy        == Req("policy", "policy")
Items            == Req("items", "object")
Incr             == Req("incr", "int")
Decr             == Req("decr", "int")
DefaultFlags     == Default("flags", "int")
CheckedBytes     == Checked("value", "bytes")
CheckedInteger   == Checked("value", "int")
DefaultIndexBits == Default("indexBits", "int")
Ttl              == Opt("ttl", "int")

Builder(class, op, params) == [class |-> class, op |-> op, params |-> params]

ListOperation(op, params) == Builder("List", op, params)
InvertibleListOp(op, params) == Builder("InvertibleList", op, params)
MapOperation(op, params) == Builder("Map", op, params)
BitwiseOperation(op, params) == Builder("Bit", op, params)
OverflowableBitwiseOp(op, params) == Builder("OverflowBit", op, params)
HLLOperation(op, params) == Builder("HLL", op, params)
Operation(op, params) == Builder("Scalar", op, params)
ExpOperation(op, params) == Builder("Expression", op, params)

-------------------------------------------------------------------------------
(* lib/lists.js                                                            *)
ListOrderOps ==
    "lists.setOrder" :> ListOperation("LIST_SET_ORDER", <<Order>>) @@
    "lists.sort" :> ListOperation("LIST_SORT", <<Flags>>)

ListAppendOps ==
    "lists.append" :> ListOperation("LIST_APPEND", <<Value, Policy>>) @@
    "lists.appendItems" :>
        ListOperation("LIST_APPEND_ITEMS", <<ItemList, Policy>>)

ListInsertOps ==
    "lists.insert" :> ListOperation("LIST_INSERT", <<Index, Value, Policy>>) @@
    "lists.insertItems" :>
        ListOperation("LIST_INSERT_ITEMS", <<Index, ItemList, Policy>>)

ListPopOps ==
    "lists.pop" :> ListOperation("LIST_POP", <<Index>>) @@
    "lists.popRange" :> ListOperation("LIST_POP_RANGE", <<Index, Count>>)

ListRemoveOps ==
    "lists.remove" :> ListOperation("LIST_REMOVE", <<Index>>) @@
    "lists.removeRange" :> ListOperation("LIST_REMOVE_RANGE", <<Index, Count>>)

ListRemoveByIndexOps ==
    "lists.removeByIndex" :>
        ListOperation("LIST_REMOVE_BY_INDEX", <<Index, ReturnType>>) @@
    "lists.removeByIndexRange" :>
        InvertibleListOp("LIST_REMOVE_BY_INDEX_RANGE",
                         <<Index, Count, ReturnType>>)

ListRemoveByValueOps ==
    "lists.removeByValue" :>
        InvertibleListOp("LIST_REMOVE_BY_VALUE", <<Value, ReturnType>>) @@
    "lists.removeByValueList" :>
        InvertibleListOp("LIST_REMOVE_BY_VALUE_LIST", <<Values, ReturnType>>) @@
    "lists.removeByValueRange" :>
        InvertibleListOp("LIST_REMOVE_BY_VALUE_RANGE",
                         <<Begin, End, ReturnType>>)

ListRemoveRelativeOps ==
    "lists.removeByValueRelRankRange" :>
        InvertibleListOp("LIST_REMOVE_BY_VALUE_REL_RANK_RANGE",
                         <<Value, Rank, Count, ReturnType>>)

ListRemoveByRankOps ==
    "lists.removeByRank" :>
        ListOperation("LIST_REMOVE_BY_RANK", <<Rank, ReturnType>>) @@
    "lists.removeByRankRange" :>
        InvertibleListOp("LIST_REMOVE_BY_RANK_RANGE",
                         <<Rank, Count, ReturnType>>)

ListCreateOps ==
    "lists.clear" :> ListOperation("LIST_CLEAR", <<>>) @@
    "lists.create" :>
        ListOperation("LIST_CREATE", <<Order, Pad, PersistIndex>>)

ListSetOps ==
    "lists.set" :> ListOperation("LIST_SET", <<Index, Value, Policy>>) @@
    "lists.trim" :> ListOperation("LIST_TRIM", <<Index, RequiredCount>>)

ListGetOps ==
    "lists.get" :> ListOperation("LIST_GET", <<Index>>) @@
    "lists.getRange" :> ListOperation("LIST_GET_RANGE", <<Index, Count>>)

ListGetByIndexOps ==
    "lists.getByIndex" :>
        ListOperation("LIST_GET_BY_INDEX", <<Index, ReturnType>>) @@
    "lists.getByIndexRange" :>
        InvertibleListOp("LIST_GET_BY_INDEX_RANGE",
                         <<Index, Count, ReturnType>>)

ListGetByValueOps ==
    "lists.getByValue" :>
        InvertibleListOp("LIST_GET_BY_VALUE", <<Value, ReturnType>>) @@
    "lists.getByValueList" :>
        InvertibleListOp("LIST_GET_BY_VALUE_LIST", <<Values, ReturnType>>) @@
    "lists.getByValueRange" :>
        InvertibleListOp("LIST_GET_BY_VALUE_RANGE", <<Begin, End, ReturnType>>)

ListGetRelativeOps ==
    "lists.getByValueRelRankRange" :>
        InvertibleListOp("LIST_GET_BY_VALUE_REL_RANK_RANGE",
                         <<Value, Rank, Count, ReturnType>>)

ListGetByRankOps ==
    "lists.getByRank" :>
        ListOperation("LIST_GET_BY_RANK", <<Rank, ReturnType>>) @@
    "lists.getByRankRange" :>
        InvertibleListOp("LIST_GET_BY_RANK_RANGE", <<Rank, Count, ReturnType>>)

ListIncrementOps ==
    "lists.increment" :>
        ListOperation("LIST_INCREMENT", <<Index, OptionalValue, Policy>>) @@
    "lists.size" :> ListOperation("LIST_SIZE", <<>>)

\* The list operations whose documentation sends to invertSelection: all that
\* get or remove items they select, whatever the class of the operation.
Selections ==
    {"lists.removeByIndex", "lists.removeByIndexRange", "lists.removeByValue",
     "lists.removeByValueList", "lists.removeByValueRange",
     "lists.removeByValueRelRankRange", "lists.removeByRank",
     "lists.removeByRankRange", "lists.getByIndex", "lists.getByIndexRange",
     "lists.getByValue", "lists.getByValueList", "lists.getByValueRange",
     "lists.getByValueRelRankRange", "lists.getByRank", "lists.getByRankRange"}

-------------------------------------------------------------------------------
(* lib/maps.js                                                             *)
MapPutOps ==
    "maps.setPolicy" :> MapOperation("MAP_SET_POLICY", <<NewPolicy>>) @@
    "maps.put" :> MapOperation("MAP_PUT", <<Key, Value, Policy>>) @@
    "maps.putItems" :> MapOperation("MAP_PUT_ITEMS", <<Items, Policy>>)

MapIncrementOps ==
    "maps.increment" :> MapOperation("MAP_INCREMENT", <<Key, Incr, Policy>>) @@
    "maps.decrement" :> MapOperation("MAP_DECREMENT", <<Key, Decr, Policy>>)

MapRemoveByKeyOps ==
    "maps.clear" :> MapOperation("MAP_CLEAR", <<>>) @@
    "maps.removeByKey" :>
        MapOperation("MAP_REMOVE_BY_KEY", <<Key, ReturnType>>) @@
    "maps.removeByKeyList" :>
        MapOperation("MAP_REMOVE_BY_KEY_LIST", <<Keys, ReturnType>>) @@
    "maps.removeByKeyRange" :>
        MapOperation("MAP_REMOVE_BY_KEY_RANGE", <<Begin, End, ReturnType>>)

MapRemoveNearKeyOps ==
    "maps.removeByKeyRelIndexRange" :>
        MapOperation("MAP_REMOVE_BY_KEY_REL_INDEX_RANGE",
                         <<Key, Index, Count, ReturnType>>)

MapRemoveByValueOps ==
    "maps.removeByValue" :>
        MapOperation("MAP_REMOVE_BY_VALUE", <<Value, ReturnType>>) @@
    "maps.removeByValueList" :>
        MapOperation("MAP_REMOVE_BY_VALUE_LIST", <<Values, ReturnType>>) @@
    "maps.removeByValueRange" :>
        MapOperation("MAP_REMOVE_BY_VALUE_RANGE", <<Begin, End, ReturnType>>)

MapRemoveNearValueOps ==
    "maps.removeByValueRelRankRange" :>
        MapOperation("MAP_REMOVE_BY_VALUE_REL_RANK_RANGE",
                         <<Value, Rank, Count, ReturnType>>)

MapRemoveByIndexOps ==
    "maps.removeByIndex" :>
        MapOperation("MAP_REMOVE_BY_INDEX", <<Index, ReturnType>>) @@
    "maps.removeByIndexRange" :>
        MapOperation("MAP_REMOVE_BY_INDEX_RANGE",
                     <<Index, Count, ReturnType>>) @@
    "maps.removeByRank" :>
        MapOperation("MAP_REMOVE_BY_RANK", <<Rank, ReturnType>>) @@
    "maps.removeByRankRange" :>
        MapOperation("MAP_REMOVE_BY_RANK_RANGE", <<Rank, Count, ReturnType>>)

MapGetByKeyOps ==
    "maps.size" :> MapOperation("MAP_SIZE", <<>>) @@
    "maps.getByKey" :> MapOperation("MAP_GET_BY_KEY", <<Key, ReturnType>>) @@
    "maps.getByKeyList" :>
        MapOperation("MAP_GET_BY_KEY_LIST", <<Keys, ReturnType>>) @@
    "maps.getByKeyRange" :>
        MapOperation("MAP_GET_BY_KEY_RANGE", <<Begin, End, ReturnType>>)

MapGetNearKeyOps ==
    "maps.getByKeyRelIndexRange" :>
        MapOperation("MAP_GET_BY_KEY_REL_INDEX_RANGE",
                         <<Key, Index, Count, ReturnType>>)

MapGetByValueOps ==
    "maps.getByValue" :>
        MapOperation("MAP_GET_BY_VALUE", <<Value, ReturnType>>) @@
    "maps.getByValueList" :>
        MapOperation("MAP_GET_BY_VALUE_LIST", <<Values, ReturnType>>) @@
    "maps.getByValueRange" :>
        MapOperation("MAP_GET_BY_VALUE_RANGE", <<Begin, End, ReturnType>>)

MapGetNearValueOps ==
    "maps.getByValueRelRankRange" :>
        MapOperation("MAP_GET_BY_VALUE_REL_RANK_RANGE",
                         <<Value, Rank, Count, ReturnType>>)

MapGetByIndexOps ==
    "maps.getByIndex" :>
        MapOperation("MAP_GET_BY_INDEX", <<Index, ReturnType>>) @@
    "maps.getByIndexRange" :>
        MapOperation("MAP_GET_BY_INDEX_RANGE", <<Index, Count, ReturnType>>) @@
    "maps.getByRank" :> MapOperation("MAP_GET_BY_RANK", <<Rank, ReturnType>>) @@
    "maps.getByRankRange" :>
        MapOperation("MAP_GET_BY_RANK_RANGE",
                         <<Rank, Count, ReturnType>>)

MapCreateOps ==
    "maps.create" :> MapOperation("MAP_CREATE", <<Order, PersistIndex>>)

-------------------------------------------------------------------------------
(* lib/bitwise.js                                                          *)
BitResizeOps ==
    "bitwise.resize" :>
        BitwiseOperation("BIT_RESIZE", <<ByteSize, DefaultFlags>>) @@
    "bitwise.insert" :>
        BitwiseOperation("BIT_INSERT", <<Offset, BytesValue>>) @@
    "bitwise.remove" :> BitwiseOperation("BIT_REMOVE", <<Offset, ByteSize>>)

BitSetOps ==
    "bitwise.setBytes" :>
        BitwiseOperation("BIT_SET", <<BitOffset, BitSize, CheckedBytes>>) @@
    "bitwise.setInteger" :>
        BitwiseOperation("BIT_SET_INT", <<BitOffset, BitSize, CheckedInteger>>)

BitLogicOps ==
    "bitwise.or" :>
        BitwiseOperation("BIT_OR", <<BitOffset, BitSize, BytesValue>>) @@
    "bitwise.xor" :>
        BitwiseOperation("BIT_XOR", <<BitOffset, BitSize, BytesValue>>) @@
    "bitwise.and" :>
        BitwiseOperation("BIT_AND", <<BitOffset, BitSize, BytesValue>>)

BitShiftOps ==
    "bitwise.not" :> BitwiseOperation("BIT_NOT", <<Offset, ByteSize>>) @@
    "bitwise.lshift" :>
        BitwiseOperation("BIT_LSHIFT", <<BitOffset, BitSize, Shift>>) @@
    "bitwise.rshift" :>
        BitwiseOperation("BIT_RSHIFT", <<BitOffset, BitSize, Shift>>)

BitMathOps ==
    "bitwise.add" :>
        OverflowableBitwiseOp("BIT_ADD",
                         <<BitOffset, BitSize, IntegerValue, Sign>>) @@
    "bitwise.subtract" :>
        OverflowableBitwiseOp("BIT_SUBTRACT",
                         <<BitOffset, BitSize, IntegerValue, Sign>>)

BitReadOps ==
    "bitwise.get" :> BitwiseOperation("BIT_GET", <<BitOffset, BitSize>>) @@
    "bitwise.getInt" :>
        BitwiseOperation("BIT_GET_INT", <<BitOffset, BitSize, Sign>>)

BitScanOps ==
    "bitwise.lscan" :>
        BitwiseOperation("BIT_LSCAN", <<BitOffset, BitSize, FlagValue>>) @@
    "bitwise.rscan" :>
        BitwiseOperation("BIT_RSCAN", <<BitOffset, BitSize, FlagValue>>)

-------------------------------------------------------------------------------
(* lib/hll.js                                                              *)
HllWriteOps ==
    "hll.init" :> HLLOperation("HLL_INIT", <<IndexBits, MinhashBits>>) @@
    "hll.add" :>
        HLLOperation("HLL_ADD", <<ItemList, DefaultIndexBits, MinhashBits>>) @@
    "hll.setUnion" :> HLLOperation("HLL_SET_UNION", <<ItemList>>)

HllReadOps ==
    "hll.refreshCount" :> HLLOperation("HLL_REFRESH_COUNT", <<>>) @@
    "hll.fold" :> HLLOperation("HLL_FOLD", <<IndexBits>>) @@
    "hll.getCount" :> HLLOperation("HLL_READ", <<Command>>) @@
    "hll.getUnion" :> HLLOperation("HLL_READ_LIST", <<ItemList, Command>>) @@
    "hll.getUnionCount" :>
        HLLOperation("HLL_READ_LIST", <<ItemList, Command>>) @@
    "hll.getIntersectCount" :>
        HLLOperation("HLL_READ_LIST", <<ItemList, Command>>) @@
    "hll.getSimilarity" :>
        HLLOperation("HLL_READ_LIST", <<ItemList, Command>>) @@
    "hll.describe" :> HLLOperation("HLL_READ", <<Command>>)

-------------------------------------------------------------------------------
(* lib/operations.js                                                       *)
ScalarOps ==
    "operations.read" :> Operation("READ", <<>>) @@
    "operations.write" :> Operation("WRITE", <<Value>>) @@
    "operations.add" :> Operation("INCR", <<IntegerValue>>) @@
    "operations.incr" :> Operation("INCR", <<IntegerValue>>) @@
    "operations.append" :> Operation("APPEND", <<TextValue>>) @@
    "operations.prepend" :> Operation("PREPEND", <<TextValue>>) @@
    "operations.touch" :> Operation("TOUCH", <<Ttl>>) @@
    "operations.delete" :> Operation("DELETE", <<>>)

-------------------------------------------------------------------------------
(* lib/exp_operations.js                                                   *)
ExpressionOps ==
    "expop.read" :> ExpOperation("EXP_READ", <<Flags, Exp>>) @@
    "expop.write" :> ExpOperation("EXP_WRITE", <<Flags, Exp>>)

-------------------------------------------------------------------------------
Builders ==
    ListOrderOps @@ ListAppendOps @@ ListInsertOps @@ ListPopOps @@
    ListRemoveOps @@ ListRemoveByIndexOps @@ ListRemoveByValueOps @@
    ListRemoveRelativeOps @@ ListRemoveByRankOps @@ ListCreateOps @@
    ListSetOps @@ ListGetOps @@ ListGetByIndexOps @@ ListGetByValueOps @@
    ListGetRelativeOps @@ ListGetByRankOps @@ ListIncrementOps @@ MapPutOps @@
    MapIncrementOps @@ MapRemoveByKeyOps @@ MapRemoveNearKeyOps @@
    MapRemoveByValueOps @@ MapRemoveNearValueOps @@ MapRemoveByIndexOps @@
    MapGetByKeyOps @@ MapGetNearKeyOps @@ MapGetByValueOps @@
    MapGetNearValueOps @@ MapGetByIndexOps @@ MapCreateOps @@ BitResizeOps @@
    BitSetOps @@ BitLogicOps @@ BitShiftOps @@ BitMathOps @@ BitReadOps @@
    BitScanOps @@ HllWriteOps @@ HllReadOps @@ ScalarOps @@ ExpressionOps

===============================================================================
