----------------------------- MODULE PublicCalls -----------------------------
(***************************************************************************)
(* The public calls: methods of Client, Query and Scan as an application   *)
(* calls them, down to what the native method is given.                    *)
(*                                                                         *)
(* Client methods take all they need as arguments (ClientMethods); the     *)
(* index methods take an options object they read, and some write.  Query  *)
(* and Scan are objects the application fills in and sends again and       *)
(* again: where*(), setUdf(), apply(), background(), operate() leave what  *)
(* they are given in the object, the native method reads the object when   *)
(* the command is sent, and the Job of an answer is made from the object   *)
(* as it is by then.                                                       *)
(*                                                                         *)
(* The client is connected.  A filter predicate is an object of its own,   *)
(* which two queries, or two where*() of one, may share.                   *)
(***************************************************************************)
EXTENDS ClientMethods

CONSTANTS WithBin,      \* predicates made with a bin (lib/filter.js)
          WithoutBin,   \* predicates made with null for the bin
          Udfs,         \* UDFs
          Ops,          \* lists of operations
          MaxRequests   \* bound: requests whose answer makes a job

ASSUME PredicatesAssumption == WithBin \cap WithoutBin = {}
ASSUME LeftInObjectAssumption == "none" \notin Udfs \cup Ops
ASSUME RequestsAssumption == MaxRequests \in Nat

Predicates == WithBin \cup WithoutBin

VARIABLES
    call,       \* the latest call: method, actual arguments, what was sent
    options,    \* the options object of the index methods
    object,     \* the query or scan
    given,      \* given[p]: the where*() that predicate p was passed to; "bin" if
                \* it came with the options
    read,       \* what a native method read from the object in the latest step
    requests    \* requests for jobs: what for, and the job of the answer

vars == <<call, options, object, given, read, requests>>

Strings == {"user", "password", "config.user", "roleName", "namespace", "index", "dataCenter",
            "ns", "set", "options.ns", "options.set", "options.bin", "options.index", "udfPath",
            "udfModule", "udfFunction", "request", "node.name", "this.ns", "this.set"}
Arrays == {"roles", "privileges", "whitelist", "keys", "records", "bins", "operations", "expression",
           "options.exp", "udfArgs"}
Numbers == {"readQuota", "writeQuota", "beforeNanos", "zero", "udfType", "jobID", "randomID",
            "options.type", "options.datatype"}
Functions == {"callback", "enableListener", "snapshotListener", "nodeCloseListener",
              "disableListener"}

\* V8: an array and a function are objects, too.
Is(value, sort) ==
    CASE sort = "string" -> value \in Strings
      [] sort = "array" -> value \in Arrays
      [] sort = "number" -> value \in Numbers
      [] sort = "function" -> value \in Functions
      [] sort = "object" -> value \notin Strings \cup Numbers \cup Nothing

Accepts(check, value) ==
    Is(value, check.sort) \/ (~check.required /\ value \in Nothing)

-------------------------------------------------------------------------------
(* One call: from the actual arguments to those of the native method       *)

\* The ways to give the first k arguments.
Given(m, k) ==
    LET forms == [1 .. k -> Nothing \cup {"itself"}]
        Form(i, f) == IF f = "itself" THEN m.formals[i] ELSE f
    IN  {[i \in 1 .. k |-> Form(i, s[i])] :
            s \in {t \in forms : \A i \in 1 .. k : t[i] = "itself" \/ m.formals[i] \in m.optional}}

\* udfRegister() may be called with a policy right after the path.
Skipping(name) ==
    IF name = "udfRegister" THEN {<<"udfPath", "policy">>, <<"udfPath", "policy", "callback">>}
    ELSE {}

\* The calls typings/index.d.ts and the JSDoc of the method declare.
Documented(name) ==
    LET m == Methods[name] IN
    (UNION {Given(m, k) : k \in m.least .. Len(m.formals)})
    \cup (UNION {{Append(s, "callback") : s \in Given(m, k)} : k \in m.early})
    \cup Skipping(name)

\* Arguments are bound to parameters; what is not given is undefined.
Bound(m, actuals) ==
    [f \in ToSet(m.formals) \cup {"callback"} |->
        LET i == CHOOSE j \in 1 .. Len(m.formals) + 1 : Append(m.formals, "callback")[j] = f
        IN  IF i <= Len(actuals) THEN actuals[i] ELSE "undefined"]

\* Assignments to parameters.
Assigned(bound, values) ==
    [f \in DOMAIN bound |-> IF f \in DOMAIN values THEN values[f] ELSE bound[f]]

\* Slip: the callback is taken, and left where it was.
Shifted_NotCleared(m, bound) ==
    LET hit == SelectInSeq(m.shifts, LAMBDA test : bound[test.at] = "callback")
    IN  IF hit = 0 THEN bound ELSE [bound EXCEPT !.callback = "callback"]

\* The first parameter that is found to be a function is the callback.
Shifted(m, bound) ==
    LET hit == SelectInSeq(m.shifts, LAMBDA test : bound[test.at] = "callback")
    IN  IF hit = 0 THEN bound
        ELSE Assigned([bound EXCEPT !.callback = "callback"], m.shifts[hit].sets)

\* udfRegister() goes on: a type that is an object, null included, is the policy.
TypeOrPolicy(bound) ==
    IF bound.udfType \in {"policy", "null"}
    THEN [bound EXCEPT !.policy = bound.udfType, !.udfType = "null"]
    ELSE bound

Parameters(name, actuals) ==
    LET shifted == Shifted(Methods[name], Bound(Methods[name], actuals))
    IN  IF name = "udfRegister" THEN TypeOrPolicy(shifted) ELSE shifted

\* What is read from a parameter, and is missing if that is.
From == [enableListener |-> "policy", snapshotListener |-> "policy", nodeCloseListener |-> "policy",
         disableListener |-> "policy"]

\* An argument of the command; a job ID that was not given is drawn at random.
Argument(bound, v) ==
    IF v = "jobID" /\ bound[v] \in Nothing THEN "randomID"
    ELSE IF v \in DOMAIN bound THEN bound[v]
    ELSE IF v \in DOMAIN From /\ bound[From[v]] # From[v] THEN "null"
    ELSE v

Sent(name, actuals) ==
    LET m == Methods[name]
        bound == Parameters(name, actuals)
    IN  [args |-> [i \in 1 .. Len(m.sends) |-> Argument(bound, m.sends[i])],
         callback |-> bound.callback = "callback"]

-------------------------------------------------------------------------------
(* Client methods                                                          *)

IndexMethods == DOMAIN CreateIndex \cup DOMAIN NumberIndexes \cup DOMAIN StringIndexes
                \cup DOMAIN GeoIndexes \cup DOMAIN BlobIndexes
ObjectMethods == {"QueryApply", "QueryBackground", "QueryOperate", "ScanBackground", "ScanOperate"}
ClientMethodNames == DOMAIN Methods \ (IndexMethods \cup ObjectMethods)

NoObject == [kind |-> "none"]
Nowhere == [by |-> "none"]
NoCall == [method |-> "none"]

DocumentedCalls == [name \in DOMAIN Methods |-> Documented(name)]

Calls(name, actuals) == call' = [method |-> name, actuals |-> actuals, sent |-> Sent(name, actuals)]

\* Nothing is called, and nothing is read from the object.
Quiet == call' = NoCall /\ read' = Nowhere

\* Bound: the ways to write a call are varied before anything else was done with
\* the object it is made on.  How arguments are bound does not depend on that.
Untouched == call.method \in {"none", "query", "scan"} /\ requests = <<>> /\ given = [p \in Predicates |-> {}]
Forms(name, untouched) == IF untouched THEN DocumentedCalls[name] ELSE {Methods[name].formals}

\* They keep nothing, so that one call says all about the method.
ClientCall(name, actuals) ==
    /\ object = NoObject /\ Untouched
    /\ Calls(name, actuals)
    /\ UNCHANGED <<options, object, given, read, requests>>

\* The typed methods write the data type into the options they were given.
DataType(name) ==
    CASE name \in DOMAIN NumberIndexes -> "NUMERIC"
      [] name \in DOMAIN StringIndexes -> "STRING"
      [] name \in DOMAIN GeoIndexes -> "GEO2DSPHERE"
      [] name \in DOMAIN BlobIndexes -> "BLOB"
      [] OTHER -> options.datatype

Request(for, of) ==
    requests' = Append(requests, [for |-> for, of |-> of, job |-> "none", disturbed |-> FALSE])

\* The object a request was made from changes before its answer.
Disturb == [i \in DOMAIN requests |-> [requests[i] EXCEPT !.disturbed = @ \/ requests[i].job = "none"]]

\* createIndex() and the methods that call it.
IndexCall(name, actuals) ==
    /\ object = NoObject /\ Len(requests) < MaxRequests
    /\ DataType(name) # "undefined"
    /\ Calls(name, actuals)
    /\ options' = [options EXCEPT !.datatype = DataType(name)]
    /\ Request("index", options.index)
    /\ UNCHANGED <<object, given, read>>

\* The application uses its options object for the next index.
NextIndex(index) ==
    /\ object = NoObject /\ index # options.index
    /\ options' = [options EXCEPT !.index = index]
    /\ requests' = Disturb
    /\ Quiet
    /\ UNCHANGED <<object, given>>

-------------------------------------------------------------------------------
(* Query and Scan                                                          *)

\* Client.query(ns, set, options) and scan(): a set that is an object, null
\* included, is taken for the options.
Constructed(actuals) ==
    LET At(i) == IF i <= Len(actuals) THEN actuals[i] ELSE "null"
    IN  IF At(2) \in {"options", "null"} THEN <<"ns", "null", At(2)>> ELSE <<"ns", "set", At(3)>>

\* A query may be given null for the set.
Creations(kind) ==
    {<<"ns">>, <<"ns", "options">>, <<"ns", "set">>, <<"ns", "set", "options">>}
    \cup (IF kind = "query" THEN {<<"ns", "null">>, <<"ns", "null", "options">>} ELSE {})

\* What the options of a new object may hold.  A query can be given a filter, which
\* then stands where where() would have put it, and a UDF; a scan looks for neither.
NoOptions == [filters |-> <<>>, udf |-> "none", paginate |-> FALSE]

CreationOptions(kind) ==
    [filters : IF kind = "query" THEN {<<>>} \cup {<<p>> : p \in Predicates} ELSE {<<>>},
     udf : IF kind = "query" THEN Udfs \cup {"none"} ELSE {"none"},
     paginate : BOOLEAN]

Create(kind, actuals, chosen) ==
    LET o == IF Constructed(actuals)[3] = "options" THEN chosen ELSE NoOptions
    IN
    /\ object = NoObject /\ call = NoCall /\ requests = <<>>
    /\ call' = [method |-> kind, actuals |-> actuals,
                sent |-> [args |-> Constructed(actuals), callback |-> FALSE]]
    /\ object' = [kind |-> kind, filters |-> o.filters,
                  where |-> IF o.filters = <<>> THEN "none" ELSE "bin",
                  udf |-> o.udf, ops |-> "none", paginate |-> o.paginate, saved |-> FALSE]
    /\ given' = [p \in Predicates |->
                    IF o.filters = <<p>> THEN given[p] \cup {"bin"} ELSE given[p]]
    /\ UNCHANGED <<options, read, requests>>

\* Three methods put a filter into the query; a predicate has a property of the
\* same name for each.
Wheres == {"bin", "exp", "indexName"}

\* The properties of a predicate that setup_options looks at: whereWithExp() and
\* whereWithIndexName() write theirs into the predicate they are given.
Has(p, property) ==
    IF property = "bin" THEN p \in WithBin ELSE property \in given[p]

\* where(), whereWithExp(), whereWithIndexName(): in place of what was there.
Where(p, by) ==
    /\ object.kind = "query"
    /\ object' = [object EXCEPT !.filters = <<p>>, !.where = by]
    /\ given' = [given EXCEPT ![p] = @ \cup {by}]
    /\ requests' = IF object.filters = <<>> THEN Disturb ELSE requests
    /\ Quiet
    /\ UNCHANGED options

\* Another query of the application is given the same predicate.
WhereElsewhere(p, by) ==
    /\ object.kind = "query"
    /\ given' = [given EXCEPT ![p] = @ \cup {by}]
    /\ Quiet
    /\ UNCHANGED <<options, object, requests>>

SetUdf(udf) ==
    /\ object.kind = "query"
    /\ object' = [object EXCEPT !.udf = udf]
    /\ Quiet
    /\ UNCHANGED <<options, given, requests>>

\* nextPage(), and the 'end' listener of results().
NextPage(state) ==
    /\ object # NoObject /\ object.paginate
    /\ object' = [object EXCEPT !.saved = state]
    /\ Quiet
    /\ UNCHANGED <<options, given, requests>>

\* setup_options: one of expression, index name and bin, or it throws.
ConvertedFilter(o) ==
    IF o.filters = <<>> THEN "none"
    ELSE LET has == {c \in Wheres : Has(o.filters[1], c)}
         IN  IF Cardinality(has) = 1 THEN CHOOSE c \in has : TRUE ELSE "refused"

\* What a native method reads from the object.
Reads(by, own, native, o) ==
    [by |-> by, own |-> own, native |-> native, udf |-> o.udf, ops |-> o.ops,
     filter |-> ConvertedFilter(o)]

\* setup_query_pages, setup_scan_pages: one that goes on from saved progress
\* reads nothing else.
ReadsProgress(native) ==
    [by |-> "foreach", own |-> "none", native |-> native, udf |-> "none", ops |-> "none",
     filter |-> "saved"]

\* Slip: a paginated query is sent as pages whether or not it has a UDF.
QueryCommand_PagesFirst(o) ==
    IF o.paginate THEN "queryPages"
    ELSE IF o.udf # "none" THEN "queryForeach" ELSE "queryAsync"

\* foreach() chooses the command by what the object holds, or throws.
QueryCommand(o) ==
    IF o.udf # "none"
    THEN IF o.paginate THEN "throws" ELSE "queryForeach"
    ELSE IF o.paginate THEN "queryPages" ELSE "queryAsync"

ScanCommand(o) ==
    IF o.udf # "none" THEN "throws"
    ELSE IF o.paginate THEN "scanPages" ELSE "scanAsync"

Command(o) == IF o.kind = "query" THEN QueryCommand(o) ELSE ScanCommand(o)

\* foreach() and results(), which calls it.
Foreach ==
    /\ object # NoObject
    /\ Command(object) # "throws"
    /\ read' = IF Command(object) \in {"queryPages", "scanPages"} /\ object.saved
               THEN ReadsProgress(Command(object))
               ELSE Reads("foreach", "none", Command(object), object)
    /\ call' = NoCall
    /\ UNCHANGED <<options, object, given, requests>>

\* Query.apply()
QueryApplyCall(actuals, udf) ==
    /\ object.kind = "query"
    /\ Calls("QueryApply", actuals)
    /\ object' = [object EXCEPT !.udf = udf]
    /\ read' = Reads("apply", udf, "queryApply", object')
    /\ UNCHANGED <<options, given, requests>>

\* Slip: the job of a query always asks for a query.
ModuleName_Kind(o) == o.kind

\* moduleName(): what the job of an answer will ask the servers for.
ModuleName(o) == IF o.filters # <<>> THEN "query" ELSE "scan"

\* What the servers run: a query that was sent without a filter is a scan.
Runs(filter) == IF filter = "none" THEN "scan" ELSE "query"

Requesting(name, actuals, by, own) ==
    /\ Len(requests) < MaxRequests
    /\ Calls(name, actuals)
    /\ read' = Reads(by, own, Methods[name].native, object')
    /\ Request("job", Runs(read'.filter))
    /\ UNCHANGED <<options, given>>

BackgroundOf(kind) == IF kind = "query" THEN "QueryBackground" ELSE "ScanBackground"
OperateOf(kind) == IF kind = "query" THEN "QueryOperate" ELSE "ScanOperate"

BackgroundCall(kind, actuals, udf) ==
    /\ object.kind = kind
    /\ object' = [object EXCEPT !.udf = udf]
    /\ Requesting(BackgroundOf(kind), actuals, "background", udf)

OperateCall(kind, actuals, ops) ==
    /\ object.kind = kind
    /\ object' = [object EXCEPT !.ops = ops]
    /\ Requesting(OperateOf(kind), actuals, "operate", ops)

\* An answer comes: convertResult makes the job.
Answer(i) ==
    /\ requests[i].job = "none"
    /\ requests' = [requests EXCEPT ![i].job =
                        IF requests[i].for = "index" THEN options.index ELSE ModuleName(object)]
    /\ Quiet
    /\ UNCHANGED <<options, object, given>>

-------------------------------------------------------------------------------
Init ==
    /\ call = NoCall
    /\ options = [index |-> "index1", datatype |-> "undefined"]
    /\ object = NoObject
    /\ given = [p \in Predicates |-> {}]
    /\ read = Nowhere
    /\ requests = <<>>

NextClient ==
    \/ \E name \in ClientMethodNames : \E actuals \in DocumentedCalls[name] : ClientCall(name, actuals)
    \/ \E name \in IndexMethods : \E actuals \in Forms(name, call = NoCall /\ Untouched) :
            IndexCall(name, actuals)
    \/ \E index \in {"index1", "index2"} : NextIndex(index)

NextObject ==
    \/ \E kind \in {"query", "scan"} : \E actuals \in Creations(kind),
            chosen \in CreationOptions(kind) : Create(kind, actuals, chosen)
    \/ \E p \in Predicates, by \in Wheres : Where(p, by) \/ WhereElsewhere(p, by)
    \/ \E udf \in Udfs : SetUdf(udf)
    \/ \E state \in BOOLEAN : NextPage(state)
    \/ Foreach
    \/ \E actuals \in Forms("QueryApply", Untouched), udf \in Udfs : QueryApplyCall(actuals, udf)
    \/ \E kind \in {"query", "scan"} :
        \/ \E actuals \in Forms(BackgroundOf(kind), Untouched), udf \in Udfs :
                BackgroundCall(kind, actuals, udf)
        \/ \E actuals \in Forms(OperateOf(kind), Untouched), ops \in Ops :
                OperateCall(kind, actuals, ops)

Next ==
    \/ NextClient
    \/ NextObject
    \/ \E i \in DOMAIN requests : Answer(i)

Spec == Init /\ [][Next]_vars

-------------------------------------------------------------------------------
(* Properties                                                              *)

\* Type correctness.
TypeOK ==
    /\ options \in [index : {"index1", "index2"},
                    datatype : {"undefined", "NUMERIC", "STRING", "GEO2DSPHERE", "BLOB"}]
    /\ object \in {NoObject} \cup
                  [kind : {"query", "scan"}, filters : {<<>>} \cup {<<p>> : p \in Predicates},
                   where : Wheres \cup {"none"}, udf : Udfs \cup {"none"}, ops : Ops \cup {"none"},
                   paginate : BOOLEAN, saved : BOOLEAN]
    /\ given \in [Predicates -> SUBSET Wheres]
    /\ requests \in Seq([for : {"index", "job"}, of : {"index1", "index2", "query", "scan"},
                         job : {"none", "index1", "index2", "query", "scan"}, disturbed : BOOLEAN])

\* Where the code departs from the declarations: operate() of a query does not
\* look for a callback before its last place; udfRegister() takes a null type
\* for the policy that follows it; a query made with a null set loses its options.
Misread(name, actuals) ==
    \/ name = "QueryOperate" /\ Len(actuals) < 4 /\ "callback" \in ToSet(actuals)
    \/ name = "udfRegister" /\ Len(actuals) >= 3 /\ actuals[2] = "null" /\ actuals[3] = "policy"
    \/ name = "query" /\ Len(actuals) = 3 /\ actuals[2] = "null"

\* What arrives in the place of a parameter is the argument given for it, or
\* what stands for one that was left out.
InPlace(check, value) ==
    value \in {check.name} \cup Nothing
              \cup (CASE check.name = "beforeNanos" -> {"zero"}
                      [] check.name = "jobID" -> {"randomID"}
                      [] OTHER -> {})

\* No argument is lost: it is sent, or read from by what is sent.
Arrives(value, args) ==
    \/ value \in Nothing \cup {"callback"} \cup ToSet(args)
    \/ value = "options" /\ "options.ns" \in ToSet(args)
    \/ value = "node" /\ "node.name" \in ToSet(args)
    \/ value = "record" /\ "operations" \in ToSet(args)

\* However a documented call is written, with or without callback and with any
\* of its optional arguments left out, the native method accepts what it is
\* given, every argument arrives in its place, and the answer goes to the
\* callback if there is one (and to a promise if not).  So with the arguments
\* of query() and scan() and the object they make.
DocumentedCallsArrive ==
    call # NoCall /\ ~Misread(call.method, call.actuals) =>
        LET sent == call.sent
            checks == IF call.method \in DOMAIN Methods THEN Native[Methods[call.method].native]
                      ELSE <<Req("ns", "string"), Opt("set", "string"), Opt("options", "object")>>
        IN  /\ Len(sent.args) = Len(checks)
            /\ \A i \in DOMAIN checks :
                Accepts(checks[i], sent.args[i]) /\ InPlace(checks[i], sent.args[i])
            /\ \A i \in DOMAIN call.actuals : Arrives(call.actuals[i], sent.args)
            /\ sent.callback <=> "callback" \in ToSet(call.actuals)

\* A predicate that can only be meant one way: it was made with a bin for where()
\* and without for the others, and was given to no other where*(), not even
\* that of another query.
Plain(p, where) == given[p] = {where} /\ (p \in WithBin <=> where = "bin")

\* What a request finds in the object that carries the leavings of earlier calls:
\* its own UDF or operations; no UDF, if records are streamed by listeners that
\* cannot deliver what one returns; and the filter as the last where*() meant it,
\* unless the request goes on from saved progress.
RequestsAreTheirOwn ==
    read # Nowhere =>
        /\ read.by = "foreach" /\ read.native # "queryForeach" => read.udf = "none"
        /\ read.by \in {"apply", "background"} => read.udf = read.own
        /\ read.by = "operate" => read.ops = read.own
        /\ \A p \in Predicates :
            object.filters # <<>> /\ Last(object.filters) = p /\ Plain(p, object.where) =>
                read.filter \in {object.where, "saved"}

\* The job of an answer asks for the index, or for the kind of background
\* process, that the request started, unless the object it was made from was
\* changed before the answer.
JobIsOfItsRequest ==
    \A i \in DOMAIN requests :
        requests[i].job # "none" /\ ~requests[i].disturbed => requests[i].job = requests[i].of
===============================================================================
