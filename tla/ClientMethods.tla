---------------------------- MODULE ClientMethods ----------------------------
(***************************************************************************)
(* The public methods that become a command: how each is documented to be  *)
(* called, what it makes of its arguments, and what the native method      *)
(* accepts.                                                                *)
(*                                                                         *)
(* Every method takes its callback last but lets the caller leave out      *)
(* optional parameters before it, or the callback altogether for a         *)
(* promise.  It finds the callback again with typeof and moves it to its   *)
(* place.  A value stands for the parameter the caller meant it for        *)
(* ("policy" is a policy), "callback" for a function, and "null" and       *)
(* "undefined" for themselves; so the place a value ends up at shows       *)
(* whether it was taken for what it is.                                    *)
(***************************************************************************)
EXTENDS Integers, Sequences, SequencesExt, FiniteSets

Nothing == {"null", "undefined"}

(***************************************************************************)
(* formals: the parameters before the callback.  optional: those that may  *)
(* be null or undefined.  least: how many a call without callback needs.   *)
(* early: after how many of them the callback may come.  shifts: the       *)
(* tests for a function, in their order, with what each sets.  sends: the  *)
(* arguments of the command.  native: the method that gets them.           *)
(***************************************************************************)
Method(formals, optional, least, early, shifts, sends, native) ==
    [formals |-> formals, optional |-> optional, least |-> least, early |-> early,
     shifts |-> shifts, sends |-> sends, native |-> native]

\* if (typeof at === 'function') { callback = at; at = null }
Shift(at) == [at |-> at, sets |-> [f \in {at} |-> "null"]]

\* The usual method: a policy last, which may be left out.
PolicyLast(others, optional, least, early, native) ==
    Method(Append(others, "policy"), optional \cup {"policy"}, least, early,
           <<Shift("policy")>>, Append(others, "policy"), native)

\* All before the policy are required.
Simple(others, native) ==
    PolicyLast(others, {}, Len(others), {Len(others), Len(others) + 1}, native)

\* A command that puts the key before its arguments (ReadRecordCommand,
\* WriteRecordCommand, and ExistsCommand when it is given the key).
KeyFirst(args) == <<"key">> \o args

-------------------------------------------------------------------------------
(* lib/client.js, in its order                                             *)

Metrics ==
    [enableMetrics |->
        Method(<<"policy">>, {"policy"}, 0, {0, 1}, <<Shift("policy")>>,
               <<"policy", "enableListener", "snapshotListener", "nodeCloseListener",
                 "disableListener">>, "enableMetrics"),
     disableMetrics |-> Method(<<>>, {}, 0, {0}, <<>>, <<>>, "disableMetrics"),
     setXDRFilter |->
        PolicyLast(<<"expression", "dataCenter", "namespace">>, {"expression"}, 3, {3, 4},
                   "setXDRFilter")]

CurrentUser(method) == [method EXCEPT !.sends = Append(@, "config.user")]

Users ==
    [changePassword |-> CurrentUser(Simple(<<"user", "password">>, "changePassword")),
     createUser |->
        PolicyLast(<<"user", "password", "roles">>, {"roles"}, 2, {3, 4}, "userCreate"),
     createPKIUser |-> PolicyLast(<<"user", "roles">>, {"roles"}, 1, {2, 3}, "userCreatePKI")]

\* createRole() looks for its callback nowhere but at its place.
Roles ==
    LET formals == <<"roleName", "privileges", "policy", "whitelist", "readQuota", "writeQuota">>
    IN  [createRole |->
            Method(formals, {"policy", "whitelist", "readQuota", "writeQuota"}, 2, {6}, <<>>,
                   formals, "roleCreate"),
         dropRole |-> Simple(<<"roleName">>, "roleDrop")]

Grants ==
    [dropUser |-> Simple(<<"user">>, "userDrop"),
     grantPrivileges |-> Simple(<<"roleName", "privileges">>, "privilegeGrant")]

RoleQueries ==
    [grantRoles |-> Simple(<<"user", "roles">>, "roleGrant"),
     queryRole |-> Simple(<<"roleName">>, "queryRole")]

UserQueries ==
    [queryRoles |-> Simple(<<>>, "queryRoles"), queryUser |-> Simple(<<"user">>, "queryUser")]

Revocations ==
    [queryUsers |-> Simple(<<>>, "queryUsers"),
     revokePrivileges |-> Simple(<<"roleName", "privileges">>, "privilegeRevoke")]

Settings ==
    [revokeRoles |-> Simple(<<"user", "roles">>, "roleRevoke"),
     setPassword |-> CurrentUser(Simple(<<"user", "password">>, "setPassword")),
     setQuotas |-> Simple(<<"roleName", "readQuota", "writeQuota">>, "roleSetQuotas")]

Whitelists ==
    [setWhitelist |->
        PolicyLast(<<"roleName", "whitelist">>, {"whitelist"}, 2, {2, 3}, "roleSetWhitelist")]

BatchReads ==
    [batchExists |-> Simple(<<"keys">>, "batchExists"), batchGet |-> Simple(<<"keys">>, "batchGet")]

BatchRecordReads == [batchRead |-> Simple(<<"records">>, "batchRead")]
BatchRecordWrites == [batchWrite |-> Simple(<<"records">>, "batchWrite")]

\* The two policies of a batch: the callback may stand for the first, which
\* takes the second with it.
TwoPolicies(others, second, native) ==
    LET formals == others \o <<"batchPolicy", second>>
    IN  Method(formals, {"batchPolicy", second}, Len(others), Len(others) .. Len(formals),
               <<[at |-> "batchPolicy", sets |-> [f \in {"batchPolicy", second} |-> "null"]],
                 Shift(second)>>,
               formals, native)

BatchApply == [batchApply |-> TwoPolicies(<<"keys", "udf">>, "batchApplyPolicy", "batchApply")]
BatchRemove == [batchRemove |-> TwoPolicies(<<"keys">>, "batchRemovePolicy", "batchRemove")]
BatchSelect == [batchSelect |-> Simple(<<"keys", "bins">>, "batchSelect")]

\* createIndex() and createExpIndex() take their arguments from an options object
\* and make an IndexJob of the answer.
CreatesIndex(on) ==
    [Simple(<<"options">>, "indexCreate") EXCEPT !.sends =
        <<"options.ns", "options.set", IF on = "bin" THEN "options.bin" ELSE "null",
          IF on = "bin" THEN "null" ELSE "options.exp", "options.index", "options.type",
          "options.datatype", "options.context", "policy">>]

CreateIndex == [createIndex |-> CreatesIndex("bin"), createExpIndex |-> CreatesIndex("exp")]

\* The typed ones set options.datatype and call one of the two.
NumberIndexes ==
    [createIntegerIndex |-> CreatesIndex("bin"), createExpIntegerIndex |-> CreatesIndex("exp")]
StringIndexes ==
    [createStringIndex |-> CreatesIndex("bin"), createExpStringIndex |-> CreatesIndex("exp")]
GeoIndexes ==
    [createGeo2DSphereIndex |-> CreatesIndex("bin"),
     createExpGeo2DSphereIndex |-> CreatesIndex("exp")]
BlobIndexes ==
    [createBlobIndex |-> CreatesIndex("bin"), createExpBlobIndex |-> CreatesIndex("exp")]

ApplyUdf == [apply |-> Simple(<<"key", "udf">>, "applyAsync")]

RecordReads ==
    [exists |-> Simple(<<"key">>, "existsAsync"),
     existsWithMetadata |->
        [Simple(<<"key">>, "existsAsync") EXCEPT !.sends = KeyFirst(<<"policy">>)],
     get |-> [Simple(<<"key">>, "getAsync") EXCEPT !.sends = KeyFirst(<<"policy">>)]]

\* info() parses a host given as a string.
IndexAndInfo ==
    [indexRemove |-> Simple(<<"namespace", "index">>, "indexRemove"),
     info |-> PolicyLast(<<"request", "host">>, {"request"}, 2, {2, 3}, "infoHost")]

AskAny(native) ==
    Method(<<"request", "policy">>, {"request", "policy"}, 0, 0 .. 2,
           <<[at |-> "request", sets |-> [f \in {"request", "policy"} |-> "null"]],
             Shift("policy")>>,
           <<"request", "policy">>, native)

InfoAny == [infoAny |-> AskAny("infoAny"), infoAll |-> AskAny("infoForeach")]

InfoNode ==
    [infoNode |->
        [PolicyLast(<<"request", "node">>, {"request"}, 2, {2, 3}, "infoNode")
            EXCEPT !.sends = <<"request", "node.name", "policy">>]]

\* Client.operate() and put() look for the function in different orders.
Operates(second) ==
    Method(<<"key", second, "metadata", "policy">>, {"metadata", "policy"}, 2, 2 .. 4,
           <<Shift("policy"), Shift("metadata")>>,
           KeyFirst(<<"operations", "metadata", "policy">>), "operateAsync")

Operate == [operate |-> Operates("operations")]

\* One operation for each bin, then operate().
Shortcuts ==
    [append |-> Operates("record"), prepend |-> Operates("record"), add |-> Operates("record"),
     incr |-> Operates("record")]

PutRecord ==
    [put |->
        Method(<<"key", "record", "metadata", "policy">>, {"metadata", "policy"}, 2, 2 .. 4,
               <<Shift("metadata"), Shift("policy")>>,
               KeyFirst(<<"record", "metadata", "policy">>), "putAsync")]

RemoveRecord == [remove |-> [Simple(<<"key">>, "removeAsync") EXCEPT !.sends = KeyFirst(<<"policy">>)]]

SelectBins ==
    [select |->
        [Simple(<<"key", "bins">>, "selectAsync") EXCEPT !.sends = KeyFirst(<<"bins", "policy">>)]]

Truncate ==
    LET formals == <<"ns", "set", "beforeNanos", "policy">>
        since == [beforeNanos |-> "zero", policy |-> "null"]
    IN  [truncate |->
            Method(formals, {"set", "policy"}, 3, 1 .. 4,
                   <<[at |-> "set", sets |-> [set |-> "null"] @@ since],
                     [at |-> "beforeNanos", sets |-> since],
                     Shift("policy")>>,
                   formals, "truncate")]

UdfRegister ==
    LET formals == <<"udfPath", "udfType", "policy">>
    IN  [udfRegister |->
            Method(formals, {"udfType", "policy"}, 1, 1 .. 3, <<Shift("udfType"), Shift("policy")>>,
                   formals, "udfRegister")]

UdfRemove == [udfRemove |-> Simple(<<"udfModule">>, "udfRemove")]

-------------------------------------------------------------------------------
(* lib/query.js and lib/scan.js                                            *)

Of(args) == <<"this.ns", "this.set", "this", "policy">> \o args

\* The UDF is left in the object, where the native method reads it.
UdfCall == <<"udfModule", "udfFunction", "udfArgs">>

QueryApply ==
    [QueryApply |->
        Method(Append(UdfCall, "policy"), {"udfArgs", "policy"}, 2, 2 .. 4,
               <<Shift("policy"), Shift("udfArgs")>>, Of(<<>>) \o UdfCall, "queryApply")]

Background(native) ==
    Method(UdfCall \o <<"policy", "jobID">>, {"udfArgs", "policy", "jobID"}, 2, 2 .. 5,
           <<Shift("udfArgs"), Shift("policy"), Shift("jobID")>>,
           Of(<<"jobID">>) \o UdfCall, native)

\* operate() has default values for what is left out and looks for no function;
\* the declarations of Query.operate have the callback behind each parameter.
OperateOn(early, native) ==
    Method(<<"operations", "policy", "jobID">>, {"policy", "jobID"}, 1, early, <<>>,
           Of(<<"jobID", "operations">>), native)

QueryBackground == [QueryBackground |-> Background("queryBackground")]
ScanBackground == [ScanBackground |-> Background("scanBackground")]
QueryOperate == [QueryOperate |-> OperateOn(1 .. 3, "queryOperate")]
ScanOperate == [ScanOperate |-> OperateOn({3}, "scanOperate")]

Methods ==
    Metrics @@ Users @@ Roles @@ Grants @@ RoleQueries @@ UserQueries @@ Revocations @@ Settings
    @@ Whitelists @@ BatchReads @@ BatchRecordReads @@ BatchRecordWrites @@ BatchApply
    @@ BatchRemove @@ BatchSelect @@ CreateIndex @@ NumberIndexes @@ StringIndexes @@ GeoIndexes
    @@ BlobIndexes @@ ApplyUdf @@ RecordReads @@ IndexAndInfo @@ InfoAny @@ InfoNode @@ Operate
    @@ Shortcuts @@ PutRecord @@ RemoveRecord @@ SelectBins @@ Truncate @@ UdfRegister @@ UdfRemove
    @@ QueryApply @@ QueryBackground @@ ScanBackground @@ QueryOperate @@ ScanOperate

-------------------------------------------------------------------------------
(* What the native methods accept                                          *)

Req(name, sort) == [name |-> name, sort |-> sort, required |-> TRUE]
Opt(name, sort) == [name |-> name, sort |-> sort, required |-> FALSE]
Policy == Opt("policy", "object")

OfRecord(args) == <<Req("key", "object")>> \o args
OfRole(args) == <<Req("roleName", "string")>> \o args
OfUser(args) == <<Req("user", "string")>> \o args
OfKeys(args) == <<Req("keys", "array")>> \o args
OfRecords(args) == <<Req("records", "array")>> \o args
OfStream(args) ==
    <<Req("this.ns", "string"), Opt("this.set", "string"), Opt("this", "object"), Policy>> \o args
OfUdf == <<Req("udfModule", "string"), Req("udfFunction", "string"), Opt("udfArgs", "array")>>

(***************************************************************************)
(* TYPE_CHECK_REQ and TYPE_CHECK_OPT at the head of the native methods;    *)
(* OfUdf is udfargs_from_jsobject.                                         *)
(***************************************************************************)
Native ==
    [enableMetrics |->
        <<Policy>> \o [i \in 1 .. 4 |->
            Opt(<<"enableListener", "snapshotListener", "nodeCloseListener", "disableListener">>[i],
                "function")],
     disableMetrics |-> <<>>,
     setXDRFilter |-> <<Opt("expression", "array"), Req("dataCenter", "string"),
                        Req("namespace", "string"), Policy>>,
     changePassword |-> OfUser(<<Req("password", "string"), Policy, Opt("config.user", "string")>>),
     setPassword |-> OfUser(<<Req("password", "string"), Policy, Opt("config.user", "string")>>),
     userCreate |-> OfUser(<<Req("password", "string"), Opt("roles", "array"), Policy>>),
     userCreatePKI |-> OfUser(<<Opt("roles", "array"), Policy>>),
     userDrop |-> OfUser(<<Policy>>),
     roleCreate |-> OfRole(<<Req("privileges", "array"), Policy, Opt("whitelist", "array"),
                             Opt("readQuota", "number"), Opt("writeQuota", "number")>>),
     roleDrop |-> OfRole(<<Policy>>),
     privilegeGrant |-> OfRole(<<Req("privileges", "array"), Policy>>),
     privilegeRevoke |-> OfRole(<<Req("privileges", "array"), Policy>>),
     roleGrant |-> OfUser(<<Req("roles", "array"), Policy>>),
     roleRevoke |-> OfUser(<<Req("roles", "array"), Policy>>),
     queryRole |-> OfRole(<<Policy>>),
     queryRoles |-> <<Policy>>,
     queryUser |-> OfUser(<<Policy>>),
     queryUsers |-> <<Policy>>,
     roleSetQuotas |-> OfRole(<<Opt("readQuota", "number"), Opt("writeQuota", "number"), Policy>>),
     roleSetWhitelist |-> OfRole(<<Opt("whitelist", "array"), Policy>>),
     batchExists |-> OfKeys(<<Policy>>),
     batchGet |-> OfKeys(<<Policy>>),
     batchRead |-> OfRecords(<<Policy>>),
     batchWrite |-> OfRecords(<<Policy>>),
     batchApply |-> OfKeys(<<Opt("udf", "object"), Opt("batchPolicy", "object"),
                             Opt("batchApplyPolicy", "object")>>),
     batchRemove |-> OfKeys(<<Opt("batchPolicy", "object"), Opt("batchRemovePolicy", "object")>>),
     batchSelect |-> OfKeys(<<Req("bins", "array"), Policy>>),
     indexCreate |-> <<Req("options.ns", "string"), Opt("options.set", "string"),
                       Opt("options.bin", "string"), Opt("options.exp", "array"),
                       Req("options.index", "string"), Req("options.type", "number"),
                       Req("options.datatype", "number"), Opt("options.context", "object"), Policy>>,
     indexRemove |-> <<Req("namespace", "string"), Req("index", "string"), Policy>>,
     applyAsync |-> OfRecord(<<Req("udf", "object"), Policy>>),
     existsAsync |-> OfRecord(<<Policy>>),
     getAsync |-> OfRecord(<<Policy>>),
     removeAsync |-> OfRecord(<<Policy>>),
     selectAsync |-> OfRecord(<<Req("bins", "array"), Policy>>),
     putAsync |-> OfRecord(<<Req("record", "object"), Opt("metadata", "object"), Policy>>),
     operateAsync |-> OfRecord(<<Req("operations", "array"), Opt("metadata", "object"), Policy>>),
     infoHost |-> <<Opt("request", "string"), Req("host", "object"), Policy>>,
     infoAny |-> <<Opt("request", "string"), Policy>>,
     infoForeach |-> <<Opt("request", "string"), Policy>>,
     infoNode |-> <<Opt("request", "string"), Req("node.name", "string"), Policy>>,
     truncate |-> <<Req("ns", "string"), Opt("set", "string"), Req("beforeNanos", "number"), Policy>>,
     udfRegister |-> <<Req("udfPath", "string"), Opt("udfType", "number"), Policy>>,
     udfRemove |-> <<Req("udfModule", "string"), Policy>>,
     queryApply |-> OfStream(OfUdf),
     queryBackground |-> OfStream(<<Opt("jobID", "number")>> \o OfUdf),
     scanBackground |-> OfStream(<<Opt("jobID", "number")>> \o OfUdf),
     queryOperate |-> OfStream(<<Opt("jobID", "number"), Opt("operations", "array")>>),
     scanOperate |-> OfStream(<<Opt("jobID", "number"), Opt("operations", "array")>>)]
===============================================================================
