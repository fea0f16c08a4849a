----------------------------- MODULE MethodTables -----------------------------
(***************************************************************************)
(* How a method of ClientMethods has to be written so that every way to    *)
(* call it arrives.  The tables are written out, so that each of these     *)
(* facts is a closed formula: TLC decides it once and for all, and the     *)
(* proof that documented calls arrive starts from it.                      *)
(***************************************************************************)
EXTENDS PublicCalls

Checks(name) == Native[Methods[name].native]

\* Sequences of parameters, of tests and of arguments.
ASSUME TablesAreLists ==
    \A name \in DOMAIN Methods :
        LET m == Methods[name] IN
        /\ m.formals \in Seq(ToSet(m.formals)) /\ m.sends \in Seq(ToSet(m.sends))
        /\ Len(m.shifts) \in Nat /\ DOMAIN m.shifts = 1 .. Len(m.shifts)
        /\ Len(Checks(name)) = Len(m.sends) /\ DOMAIN Checks(name) = DOMAIN m.sends

\* Parameters have different names.  At least so many are given, and a callback
\* can be early only behind a parameter or at its place.
ASSUME ParametersAreNamed ==
    \A name \in DOMAIN Methods :
        LET m == Methods[name] IN
        /\ \A i, j \in DOMAIN m.formals : m.formals[i] = m.formals[j] => i = j
        /\ ToSet(m.formals) \cap (Nothing \cup DOMAIN From \cup {"callback"}) = {}
        /\ m.least \in 0 .. Len(m.formals) /\ m.early \subseteq 0 .. Len(m.formals)

\* Wherever a callback may come early, the method looks for it, but for
\* Query.operate.
ASSUME EarlyIsLookedFor ==
    \A name \in DOMAIN Methods :
        LET m == Methods[name] IN
        IF name = "QueryOperate" THEN Len(m.formals) = 3 /\ m.shifts = <<>>
        ELSE \A k \in m.early :
                k < Len(m.formals) =>
                    \E j \in DOMAIN m.shifts : m.shifts[j].at = m.formals[k + 1]

\* Where it is found something else is put, there and perhaps behind.
ASSUME ShiftsClear ==
    \A name \in DOMAIN Methods :
        LET m == Methods[name] IN
        \A j \in DOMAIN m.shifts :
            LET shift == m.shifts[j] IN
            \E i \in DOMAIN m.formals :
                /\ shift.at = m.formals[i] /\ shift.at \in DOMAIN shift.sets
                /\ \A f \in DOMAIN shift.sets :
                    /\ \E l \in DOMAIN m.formals : i <= l /\ f = m.formals[l]
                    /\ \/ shift.sets[f] \in Nothing /\ f \in m.optional
                       \/ shift.sets[f] = "zero" /\ f = "beforeNanos"

\* What is required is given before a callback can come, or set where it is found.
ASSUME RequiredIsGiven ==
    \A name \in DOMAIN Methods :
        LET m == Methods[name] IN
        \A i \in DOMAIN m.formals :
            m.formals[i] \notin m.optional =>
                /\ i <= m.least
                /\ \A k \in m.early :
                    \/ i <= k
                    \/ \A j \in DOMAIN m.shifts :
                        m.shifts[j].at = m.formals[k + 1] => m.formals[i] \in DOMAIN m.shifts[j].sets

\* Each argument that is sent is of the name and of the sort that is checked, or
\* is nothing where that is accepted; what may be left out is not insisted on.
ASSUME SentIsChecked ==
    \A name \in DOMAIN Methods :
        LET m == Methods[name] IN
        \A i \in DOMAIN m.sends :
            LET check == Checks(name)[i] IN
            /\ m.sends[i] \in {check.name} \cup Nothing
            /\ m.sends[i] \in Nothing \cup m.optional \cup DOMAIN From => ~check.required
            /\ Is(check.name, check.sort) /\ check.name \notin Nothing \cup {"callback"}
            /\ check.name \in {"beforeNanos", "jobID"} => check.sort = "number"
            /\ m.sends[i] = "jobID" => "jobID" \in ToSet(m.formals)

\* What stands for a parameter that is not sent itself.
ReadFrom == [options |-> "options.ns", node |-> "node.name", record |-> "operations"]

\* Every parameter is sent, or something that was read from it.
ASSUME EveryParameterIsSent ==
    \A name \in DOMAIN Methods :
        LET m == Methods[name] IN
        \A f \in ToSet(m.formals) :
            \/ f \in ToSet(m.sends)
            \/ /\ f \in DOMAIN ReadFrom /\ ReadFrom[f] \in ToSet(m.sends)
               /\ ReadFrom[f] \notin ToSet(m.formals)

\* udfRegister() is the method that goes on after it has looked for its callback.
ASSUME UdfRegisterIsSo ==
    LET m == Methods["udfRegister"] IN
    /\ m.formals = <<"udfPath", "udfType", "policy">>
    /\ m.optional = {"udfType", "policy"}
    /\ DOMAIN m.shifts = {1, 2} /\ m.shifts[1] = Shift("udfType") /\ m.shifts[2] = Shift("policy")

\* The methods of the actions are in the table.
ASSUME MethodsAreNamed ==
    /\ IndexMethods \cup ObjectMethods \cup {"udfRegister"} \subseteq DOMAIN Methods
    /\ {"query", "scan", "none"} \cap DOMAIN Methods = {}
===============================================================================
