------------------------------ MODULE CdtContext -------------------------------
(***************************************************************************)
(* The path into a nested list or map: the CdtContext class of             *)
(* lib/cdt_context.js, the C context the add-on makes of it in             *)
(* src/main/cdt_ctx.cc, and the way back from a serialized context.        *)
(*                                                                         *)
(* A context is a sequence of items, each a code and an index, a rank, a   *)
(* key or a value.  A code is one of seven bases, with a flag added in the *)
(* two high bits for the steps that create what they do not find.          *)
(* Half stands for 2^31: numbers of 32 bits are those from -Half up to     *)
(* Half - 1, and those of 64 bits wrap around at 4 * Half^2.               *)
(***************************************************************************)
EXTENDS Integers, Sequences

CONSTANT Half

ASSUME HalfAssumption == Half \in Nat \ {0}

Int32Max == Half - 1
Int32Min == -Half

Methods == {"addListIndex", "addListIndexCreate", "addListRank", "addListValue",
            "addMapIndex", "addMapRank", "addMapKey", "addMapKeyCreate",
            "addMapValue"}

\* The bases, and what each selects by.
Base(method) ==
    CASE method \in {"addListIndex", "addListIndexCreate"} -> 16
      [] method = "addListRank" -> 17
      [] method = "addListValue" -> 19
      [] method = "addMapIndex" -> 32
      [] method = "addMapRank" -> 33
      [] method \in {"addMapKey", "addMapKeyCreate"} -> 34
      [] method = "addMapValue" -> 35

ByPosition == {"addListIndex", "addListIndexCreate", "addListRank",
               "addMapIndex", "addMapRank"}

\* A step an application asks for: the method, where (a number, or a value),
\* and for the methods that create, the order and the padding.
Overflows(step) ==
    step.method \in ByPosition /\ step.at \notin Int32Min..Int32Max

\* Slip: the order of a list to be created is not looked at.
CreateFlag_NoOrder(step) ==
    CASE step.method = "addListIndexCreate" -> IF step.pad THEN 128 ELSE 64
      [] step.method = "addMapKeyCreate" ->
            IF step.order = 0 THEN 64 ELSE IF step.order = 1 THEN 128 ELSE 192
      [] OTHER -> 0

CreateFlag(step) ==
    CASE step.method = "addListIndexCreate" ->
            IF step.order # 0 THEN 192 ELSE IF step.pad THEN 128 ELSE 64
      [] step.method = "addMapKeyCreate" ->
            IF step.order = 0 THEN 64 ELSE IF step.order = 1 THEN 128 ELSE 192
      [] OTHER -> 0

Item(step) == [code |-> Base(step.method) + CreateFlag(step), at |-> step.at]

\* exp.type for the expression that reads at the end of the path: bit 0x10 of
\* the last code.
ContextType(items) ==
    IF (items[Len(items)].code \div 16) % 2 = 0 THEN "MAP" ELSE "LIST"

-------------------------------------------------------------------------------
(* get_optional_cdt_context: the call of the C client each code stands for,*)
(* with the order and the padding it passes.  Codes the switch does not    *)
(* know are left out without an error.                                     *)
Target(call, order, pad) == [call |-> call, order |-> order, pad |-> pad]
Plain(call) == Target(call, 0, FALSE)

Known == {16, 17, 19, 32, 33, 34, 35, 80, 98, 144, 162, 208, 226}

Switch(code) ==
    CASE code = 16 -> Plain("list_index")
      [] code = 17 -> Plain("list_rank")
      [] code = 19 -> Plain("list_value")
      [] code = 32 -> Plain("map_index")
      [] code = 33 -> Plain("map_rank")
      [] code = 34 -> Plain("map_key")
      [] code = 35 -> Plain("map_value")
      [] code = 80 -> Target("list_index_create", 0, FALSE)
      [] code = 98 -> Target("map_key_create", 0, FALSE)
      [] code = 144 -> Target("list_index_create", 0, TRUE)
      [] code = 162 -> Target("map_key_create", 1, FALSE)
      [] code = 208 -> Target("list_index_create", 1, FALSE)
      [] code = 226 -> Target("map_key_create", 3, FALSE)

Call(item) == [to |-> Switch(item.code), at |-> item.at]

\* The loop over the items.
NativeContext(items) ==
    LET added[n \in 0..Len(items)] ==
            IF n = 0 THEN <<>>
            ELSE IF items[n].code \in Known
                 THEN Append(added[n - 1], Call(items[n]))
                 ELSE added[n - 1]
    IN  added[Len(items)]

\* get_v8_cdt_context: an index or a rank comes back as 32 bits put together
\* from the low 31 bits and the sign of 64; keys and values as they are.
BackToInt32(n) ==
    LET bits == n % (4 * Half * Half)
        low == bits % Half
    IN  IF bits >= 2 * Half * Half THEN low - Half ELSE low

FromBase64(items) ==
    [i \in 1..Len(items) |->
        IF items[i].code % 16 > 1 THEN items[i]
        ELSE [items[i] EXCEPT !.at = BackToInt32(@)]]

===============================================================================
