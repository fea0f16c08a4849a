-------------------------- MODULE PublicCalls_proofs --------------------------
(***************************************************************************)
(* Proofs about PublicCalls, for any predicates, UDFs and operations and   *)
(* any number of requests.                                                 *)
(***************************************************************************)
EXTENDS MethodTables, FiniteSetTheorems, WellFoundedInduction, TLAPS

\* What the job of an answer would be if the answer came now.
JobNow(r) == IF r.for = "index" THEN options.index ELSE ModuleName(object)

\* An object is made before it sends anything; index methods need none.
ObjectOfRequests ==
    /\ object = NoObject => read = Nowhere
    /\ \A i \in DOMAIN requests : requests[i].for = "index" <=> object = NoObject

\* Nothing a job is made of has changed since the request.
StillMeant ==
    \A i \in DOMAIN requests :
        requests[i].job = "none" /\ ~requests[i].disturbed => requests[i].of = JobNow(requests[i])

IInv == TypeOK /\ ObjectOfRequests /\ StillMeant /\ JobIsOfItsRequest /\ RequestsAreTheirOwn

Objects ==
    [kind : {"query", "scan"}, filters : {<<>>} \cup {<<p>> : p \in Predicates},
     where : Wheres \cup {"none"}, udf : Udfs \cup {"none"}, ops : Ops \cup {"none"},
     paginate : BOOLEAN, saved : BOOLEAN]

Requests == [for : {"index", "job"}, of : {"index1", "index2", "query", "scan"},
             job : {"none", "index1", "index2", "query", "scan"}, disturbed : BOOLEAN]

\* The last part of RequestsAreTheirOwn.
FilterMeant ==
    \A p \in Predicates :
        object.filters # <<>> /\ Last(object.filters) = p /\ Plain(p, object.where) =>
            read.filter \in {object.where, "saved"}

\* What is converted is nothing, a property of the predicate, or refused.
LEMMA Converted ==
    ASSUME NEW o \in Objects
    PROVE  /\ ConvertedFilter(o) = "none" <=> o.filters = <<>>
           /\ \A p \in Predicates :
                o.filters = <<p>> /\ given[p] \subseteq Wheres /\ Plain(p, o.where) =>
                    ConvertedFilter(o) = o.where
<1> DEFINE has == {c \in Wheres : Has(o.filters[1], c)}
<1>1. Cardinality(has) = 1 => \E c \in Wheres : has = {c}
  <2> SUFFICES ASSUME Cardinality(has) = 1 PROVE \E c \in Wheres : has = {c} OBVIOUS
  <2>1. IsFiniteSet(Wheres)
    <3>1. IsFiniteSet({"bin"}) BY FS_Singleton
    <3>2. IsFiniteSet({"bin"} \cup {"exp"}) BY <3>1, FS_AddElement
    <3>3. IsFiniteSet({"bin"} \cup {"exp"} \cup {"indexName"}) BY <3>2, FS_AddElement
    <3>4. Wheres = {"bin"} \cup {"exp"} \cup {"indexName"} BY DEF Wheres
    <3> QED BY <3>3, <3>4
  <2>2. IsFiniteSet(has) BY <2>1, FS_Subset
  <2>3. \E c : has = {c} BY <2>2, FS_Singleton
  <2> QED BY <2>3
<1>2. ConvertedFilter(o) = "none" <=> o.filters = <<>>
  <2>1. CASE o.filters = <<>> BY <2>1 DEF ConvertedFilter
  <2>2. CASE o.filters # <<>> /\ Cardinality(has) # 1 BY <2>2 DEF ConvertedFilter
  <2>3. CASE o.filters # <<>> /\ Cardinality(has) = 1
    <3>1. ConvertedFilter(o) = CHOOSE c \in has : TRUE BY <2>3 DEF ConvertedFilter
    <3>2. PICK c \in Wheres : has = {c} BY <1>1, <2>3
    <3>3. ConvertedFilter(o) = c BY <3>1, <3>2
    <3> QED BY <2>3, <3>3 DEF Wheres
  <2> QED BY <2>1, <2>2, <2>3
<1>3. ASSUME NEW p \in Predicates, o.filters = <<p>>, given[p] \subseteq Wheres, Plain(p, o.where)
      PROVE  ConvertedFilter(o) = o.where
  <2>1. o.filters # <<>> /\ o.filters[1] = p BY <1>3
  <2>2. o.where \in Wheres /\ has = {o.where} BY <1>3, <2>1 DEF Plain, Has, Wheres
  <2>3. Cardinality(has) = 1 BY <2>2, FS_Singleton
  <2>4. ConvertedFilter(o) = CHOOSE c \in has : TRUE BY <2>1, <2>3 DEF ConvertedFilter
  <2> QED BY <2>2, <2>4
<1> QED BY <1>2, <1>3

\* The types, with the records named.
LEMMA Types ==
    TypeOK <=>
        /\ options \in [index : {"index1", "index2"},
                        datatype : {"undefined", "NUMERIC", "STRING", "GEO2DSPHERE", "BLOB"}]
        /\ object \in {NoObject} \cup Objects
        /\ given \in [Predicates -> SUBSET Wheres]
        /\ requests \in Seq(Requests)
BY DEF TypeOK, Objects, Requests

LEMMA NoObjectIsNone == NoObject \notin Objects
<1>1. NoObject.kind = "none" BY DEF NoObject
<1>2. \A o \in Objects : o.kind \in {"query", "scan"} BY DEF Objects
<1> QED BY <1>1, <1>2

LEMMA InitIInv == Init => IInv
<1> SUFFICES ASSUME Init PROVE IInv OBVIOUS
<1> USE DEF Init
<1>1. TypeOK BY Types
<1>2. ObjectOfRequests /\ StillMeant /\ JobIsOfItsRequest /\ RequestsAreTheirOwn
  BY DEF ObjectOfRequests, StillMeant, JobIsOfItsRequest, RequestsAreTheirOwn
<1> QED BY <1>1, <1>2 DEF IInv

\* What holds of every request holds of them and one more.
LEMMA OneMore ==
    ASSUME requests \in Seq(Requests), NEW r \in Requests, requests' = Append(requests, r)
    PROVE  /\ requests' \in Seq(Requests)
           /\ \A i \in DOMAIN requests' :
                (i \in DOMAIN requests /\ requests'[i] = requests[i]) \/ requests'[i] = r
<1>1. /\ Append(requests, r) \in Seq(Requests)
      /\ DOMAIN Append(requests, r) = 1 .. Len(requests) + 1 /\ DOMAIN requests = 1 .. Len(requests)
      /\ Len(requests) \in Nat
      /\ \A i \in 1 .. Len(requests) : Append(requests, r)[i] = requests[i]
      /\ Append(requests, r)[Len(requests) + 1] = r
  OBVIOUS
<1>2. \A i \in 1 .. Len(requests) + 1 : i \in 1 .. Len(requests) \/ i = Len(requests) + 1
  BY <1>1
<1> QED BY <1>1, <1>2

\* Disturbed requests are the same requests.
LEMMA Disturbed ==
    ASSUME requests \in Seq(Requests)
    PROVE  /\ Disturb \in Seq(Requests) /\ DOMAIN Disturb = DOMAIN requests
           /\ \A i \in DOMAIN requests :
                /\ Disturb[i].for = requests[i].for /\ Disturb[i].of = requests[i].of
                /\ Disturb[i].job = requests[i].job
                /\ Disturb[i].disturbed = (requests[i].disturbed \/ requests[i].job = "none")
<1>1. DOMAIN requests = 1 .. Len(requests) /\ Len(requests) \in Nat OBVIOUS
<1>2. \A i \in DOMAIN requests : requests[i] \in Requests OBVIOUS
<1>3. ASSUME NEW r \in Requests, NEW b \in BOOLEAN
      PROVE  LET d == [r EXCEPT !.disturbed = b]
             IN  d \in Requests /\ d.for = r.for /\ d.of = r.of /\ d.job = r.job /\ d.disturbed = b
  BY DEF Requests
<1>4. ASSUME NEW i \in DOMAIN requests
      PROVE  /\ Disturb[i] \in Requests
             /\ Disturb[i].for = requests[i].for /\ Disturb[i].of = requests[i].of
             /\ Disturb[i].job = requests[i].job
             /\ Disturb[i].disturbed = (requests[i].disturbed \/ requests[i].job = "none")
  <2> DEFINE b == requests[i].disturbed \/ requests[i].job = "none"
  <2>1. Disturb[i] = [requests[i] EXCEPT !.disturbed = b] BY DEF Disturb
  <2>2. b \in BOOLEAN OBVIOUS
  <2> HIDE DEF b
  <2>3. /\ [requests[i] EXCEPT !.disturbed = b] \in Requests
        /\ [requests[i] EXCEPT !.disturbed = b].for = requests[i].for
        /\ [requests[i] EXCEPT !.disturbed = b].of = requests[i].of
        /\ [requests[i] EXCEPT !.disturbed = b].job = requests[i].job
        /\ [requests[i] EXCEPT !.disturbed = b].disturbed = b
    BY <1>2, <1>3, <2>2
  <2> QED BY <2>1, <2>3 DEF b
<1>5. DOMAIN Disturb = DOMAIN requests BY DEF Disturb
<1>6. Disturb \in [1 .. Len(requests) -> Requests] BY <1>1, <1>4, <1>5 DEF Disturb
<1>7. Disturb \in Seq(Requests) BY <1>1, <1>6
<1> QED BY <1>4, <1>5, <1>7

-------------------------------------------------------------------------------
(* The steps                                                               *)

\* Nothing a job is made of changes, and perhaps one more request is sent.
LEMMA RequestsKept ==
    ASSUME IInv, options'.index = options.index, ModuleName(object') = ModuleName(object),
           \/ requests' = requests
           \/ \E r \in Requests :
                /\ requests' = Append(requests, r)
                /\ r.job = "none"
                /\ r.of = JobNow(r)'
    PROVE  requests' \in Seq(Requests) /\ StillMeant' /\ JobIsOfItsRequest'
<1> USE DEF IInv
<1>1. \A r \in Requests : JobNow(r)' = JobNow(r) BY DEF JobNow
<1>2. requests \in Seq(Requests) /\ \A i \in DOMAIN requests : requests[i] \in Requests BY Types
<1>3. CASE requests' = requests BY <1>1, <1>2, <1>3 DEF StillMeant, JobIsOfItsRequest
<1>4. ASSUME NEW r \in Requests, requests' = Append(requests, r), r.job = "none", r.of = JobNow(r)'
      PROVE  requests' \in Seq(Requests) /\ StillMeant' /\ JobIsOfItsRequest'
  <2>1. /\ requests' \in Seq(Requests)
        /\ \A i \in DOMAIN requests' :
                (i \in DOMAIN requests /\ requests'[i] = requests[i]) \/ requests'[i] = r
    BY <1>2, <1>4, OneMore
  <2>2. StillMeant' BY <1>1, <1>2, <1>4, <2>1 DEF StillMeant
  <2>3. JobIsOfItsRequest' BY <1>4, <2>1 DEF JobIsOfItsRequest
  <2> QED BY <2>1, <2>2, <2>3
<1> QED BY <1>3, <1>4

\* The unanswered requests are disturbed.
LEMMA RequestsDisturbed ==
    ASSUME IInv, requests' = Disturb
    PROVE  /\ requests' \in Seq(Requests) /\ StillMeant' /\ JobIsOfItsRequest'
           /\ DOMAIN requests' = DOMAIN requests
           /\ \A i \in DOMAIN requests : requests'[i].for = requests[i].for
<1>1. requests \in Seq(Requests) BY Types DEF IInv
<1>2. /\ Disturb \in Seq(Requests) /\ DOMAIN Disturb = DOMAIN requests
      /\ \A i \in DOMAIN requests :
            /\ Disturb[i].for = requests[i].for /\ Disturb[i].of = requests[i].of
            /\ Disturb[i].job = requests[i].job
            /\ Disturb[i].disturbed = (requests[i].disturbed \/ requests[i].job = "none")
  BY <1>1, Disturbed
<1>3. StillMeant' BY <1>2 DEF StillMeant
<1>4. JobIsOfItsRequest' BY <1>2 DEF JobIsOfItsRequest, IInv
<1> QED BY <1>2, <1>3, <1>4

\* A method of the client.
LEMMA ClientIInv ==
    ASSUME IInv, object = NoObject,
           \/ \E name, actuals : ClientCall(name, actuals) \/ IndexCall(name, actuals)
           \/ \E index \in {"index1", "index2"} : NextIndex(index)
    PROVE  IInv'
<1> USE DEF IInv
<1>1. ASSUME NEW name, NEW actuals, ClientCall(name, actuals) PROVE IInv'
  <2> USE <1>1 DEF ClientCall
  <2>1. requests' \in Seq(Requests) /\ StillMeant' /\ JobIsOfItsRequest' BY RequestsKept
  <2>2. TypeOK' BY DEF TypeOK
  <2>3. ObjectOfRequests' BY DEF ObjectOfRequests
  <2>4. RequestsAreTheirOwn' BY DEF ObjectOfRequests, RequestsAreTheirOwn
  <2> QED BY <2>1, <2>2, <2>3, <2>4
<1>2. ASSUME NEW name, NEW actuals, IndexCall(name, actuals) PROVE IInv'
  <2>1. /\ options.index \in {"index1", "index2"}
        /\ options.datatype \in {"undefined", "NUMERIC", "STRING", "GEO2DSPHERE", "BLOB"}
    BY Types
  <2>2. DataType(name) \in {"undefined", "NUMERIC", "STRING", "GEO2DSPHERE", "BLOB"}
    BY <2>1 DEF DataType
  <2>3. /\ options' \in [index : {"index1", "index2"},
                         datatype : {"undefined", "NUMERIC", "STRING", "GEO2DSPHERE", "BLOB"}]
        /\ options'.index = options.index
    BY <1>2, <2>2, Types DEF IndexCall
  <2>4. PICK r \in Requests : /\ r.for = "index" /\ r.job = "none" /\ r.of = options.index
                              /\ requests' = Append(requests, r)
    BY <1>2, <2>1 DEF IndexCall, Request, Requests
  <2>6. UNCHANGED <<object, given, read>> BY <1>2 DEF IndexCall
  <2>7. r.of = JobNow(r)' BY <2>3, <2>4 DEF JobNow
  <2>8. requests' \in Seq(Requests) /\ StillMeant' /\ JobIsOfItsRequest'
    BY <2>3, <2>4, <2>6, <2>7, RequestsKept
  <2>9. TypeOK'
    <3>1. given \in [Predicates -> SUBSET Wheres] /\ object \in {NoObject} \cup Objects BY Types
    <3> QED BY <2>3, <2>6, <2>8, <3>1 DEF TypeOK, Requests, Objects
  <2>10. requests \in Seq(Requests) BY Types
  <2>11. ObjectOfRequests' BY <2>4, <2>6, <2>10, OneMore DEF ObjectOfRequests
  <2>12. RequestsAreTheirOwn' BY <2>6 DEF ObjectOfRequests, RequestsAreTheirOwn
  <2> QED BY <2>8, <2>9, <2>11, <2>12
<1>3. ASSUME NEW index \in {"index1", "index2"}, NextIndex(index) PROVE IInv'
  <2> USE <1>3 DEF NextIndex, Quiet
  <2>1. /\ requests' \in Seq(Requests) /\ StillMeant' /\ JobIsOfItsRequest'
        /\ DOMAIN requests' = DOMAIN requests
        /\ \A i \in DOMAIN requests : requests'[i].for = requests[i].for
    BY RequestsDisturbed
  <2>2. TypeOK' BY <2>1 DEF TypeOK, Requests
  <2>3. ObjectOfRequests' BY <2>1 DEF ObjectOfRequests
  <2>4. RequestsAreTheirOwn' BY DEF RequestsAreTheirOwn
  <2> QED BY <2>1, <2>2, <2>3, <2>4
<1> QED BY <1>1, <1>2, <1>3

\* The properties an object keeps its type with.
LEMMA ObjectsKept ==
    ASSUME object \in Objects, NEW o, object' = o,
           \/ o = [object EXCEPT !.saved = o.saved] /\ o.saved \in BOOLEAN
           \/ o = [object EXCEPT !.udf = o.udf] /\ o.udf \in Udfs \cup {"none"}
           \/ o = [object EXCEPT !.ops = o.ops] /\ o.ops \in Ops \cup {"none"}
           \/ /\ o = [object EXCEPT !.filters = o.filters, !.where = o.where]
              /\ o.filters \in {<<p>> : p \in Predicates} /\ o.where \in Wheres
    PROVE  o \in Objects
BY DEF Objects

\* A query or a scan is made.
LEMMA CreateIInv ==
    ASSUME IInv, NEW kind \in {"query", "scan"}, NEW actuals, NEW chosen \in CreationOptions(kind),
           Create(kind, actuals, chosen)
    PROVE  IInv'
<1> USE DEF IInv, Create
<1> DEFINE o == IF Constructed(actuals)[3] = "options" THEN chosen ELSE NoOptions
<1>0. /\ o.filters \in {<<>>} \cup {<<p>> : p \in Predicates} /\ o.udf \in Udfs \cup {"none"}
      /\ o.paginate \in BOOLEAN
  BY DEF CreationOptions, NoOptions
<1>1. object' \in Objects /\ given' \in [Predicates -> SUBSET Wheres]
  <2>1. given \in [Predicates -> SUBSET Wheres] BY Types
  <2> HIDE DEF o
  <2>2. object' = [kind |-> kind, filters |-> o.filters,
                   where |-> IF o.filters = <<>> THEN "none" ELSE "bin",
                   udf |-> o.udf, ops |-> "none", paginate |-> o.paginate, saved |-> FALSE]
    BY DEF o
  <2>3. given' = [p \in Predicates |->
                    IF o.filters = <<p>> THEN given[p] \cup {"bin"} ELSE given[p]]
    BY DEF o
  <2> QED BY <1>0, <2>1, <2>2, <2>3 DEF Objects, Wheres
<1>2. requests' = <<>> /\ object' # NoObject BY <1>1, NoObjectIsNone
<1>3. TypeOK' BY <1>1 DEF TypeOK, Objects
<1>4. ObjectOfRequests' BY <1>2 DEF ObjectOfRequests
<1>5. StillMeant' /\ JobIsOfItsRequest' BY <1>2 DEF StillMeant, JobIsOfItsRequest
<1>6. RequestsAreTheirOwn' BY DEF ObjectOfRequests, RequestsAreTheirOwn
<1> QED BY <1>3, <1>4, <1>5, <1>6

\* The object is changed and nothing is read.
LEMMA FillIInv ==
    ASSUME IInv, object # NoObject,
           \/ \E p \in Predicates, by \in Wheres : Where(p, by) \/ WhereElsewhere(p, by)
           \/ \E udf \in Udfs : SetUdf(udf)
           \/ \E state \in BOOLEAN : NextPage(state)
    PROVE  IInv'
<1> USE DEF IInv
<1>1. object \in Objects /\ given \in [Predicates -> SUBSET Wheres] BY Types
<1>2. ASSUME read' = Nowhere, object' \in Objects, given' \in [Predicates -> SUBSET Wheres],
             UNCHANGED options,
             requests' = Disturb \/ (requests' = requests /\ ModuleName(object') = ModuleName(object))
      PROVE  IInv'
  <2>1. /\ requests' \in Seq(Requests) /\ StillMeant' /\ JobIsOfItsRequest'
        /\ DOMAIN requests' = DOMAIN requests
        /\ \A i \in DOMAIN requests : requests'[i].for = requests[i].for
    BY <1>2, RequestsDisturbed, RequestsKept
  <2>2. TypeOK' BY <1>2, <2>1 DEF TypeOK, Requests, Objects
  <2>3. ObjectOfRequests' BY <1>2, <2>1, NoObjectIsNone DEF ObjectOfRequests
  <2>4. RequestsAreTheirOwn' BY <1>2 DEF RequestsAreTheirOwn
  <2> QED BY <2>1, <2>2, <2>3, <2>4
<1>3. ASSUME NEW p \in Predicates, NEW by \in Wheres, Where(p, by) PROVE IInv'
  <2>1. object' = [object EXCEPT !.filters = <<p>>, !.where = by] BY <1>3 DEF Where
  <2>2. object' \in Objects /\ object'.filters # <<>> BY <1>1, <2>1, ObjectsKept DEF Objects
  <2>3. given' \in [Predicates -> SUBSET Wheres] BY <1>1, <1>3 DEF Where
  <2>4. requests' = Disturb \/ (requests' = requests /\ ModuleName(object') = ModuleName(object))
    BY <1>3, <2>2 DEF Where, ModuleName
  <2> QED BY <1>2, <1>3, <2>2, <2>3, <2>4 DEF Where, Quiet
<1>4. ASSUME NEW p \in Predicates, NEW by \in Wheres, WhereElsewhere(p, by) PROVE IInv'
  BY <1>1, <1>2, <1>4 DEF WhereElsewhere, Quiet
<1>5. ASSUME NEW udf \in Udfs, SetUdf(udf) PROVE IInv'
  <2>1. object' = [object EXCEPT !.udf = udf] BY <1>5 DEF SetUdf
  <2>2. object' \in Objects /\ ModuleName(object') = ModuleName(object)
    BY <1>1, <2>1 DEF Objects, ModuleName
  <2> QED BY <1>1, <1>2, <1>5, <2>2 DEF SetUdf, Quiet
<1>6. ASSUME NEW state \in BOOLEAN, NextPage(state) PROVE IInv'
  <2>1. object' = [object EXCEPT !.saved = state] BY <1>6 DEF NextPage
  <2>2. object' \in Objects /\ ModuleName(object') = ModuleName(object)
    BY <1>1, <2>1 DEF Objects, ModuleName
  <2> QED BY <1>1, <1>2, <1>6, <2>2 DEF NextPage, Quiet
<1> QED BY <1>3, <1>4, <1>5, <1>6

\* The filter that is read is the one that was meant, and none only if there is none.
LEMMA FilterRead ==
    ASSUME IInv, object' \in Objects, given' = given, NEW by, NEW own, NEW native,
           read' = Reads(by, own, native, object')
    PROVE  Runs(read'.filter) = ModuleName(object') /\ FilterMeant'
<1>1. read'.filter = ConvertedFilter(object') BY DEF Reads
<1>2. Runs(read'.filter) = ModuleName(object') BY <1>1, Converted DEF Runs, ModuleName
<1>3. ASSUME NEW p \in Predicates, object'.filters # <<>>, Last(object'.filters) = p,
             Plain(p, object.where)'
      PROVE  read'.filter = object'.where
  <2>1. \E q \in Predicates : object'.filters = <<q>> BY <1>3 DEF Objects
  <2>2. object'.filters = <<p>> BY <1>3, <2>1 DEF Last
  <2>3. given[p] \subseteq Wheres BY Types DEF IInv
  <2>4. Plain(p, object'.where) BY <1>3 DEF Plain
  <2> QED BY <1>1, <2>2, <2>3, <2>4, Converted
<1> QED BY <1>2, <1>3 DEF FilterMeant

\* foreach() and results().
LEMMA ForeachIInv == IInv /\ Foreach => IInv'
<1> SUFFICES ASSUME IInv, Foreach PROVE IInv' OBVIOUS
<1> USE DEF IInv
<1>1. object \in Objects /\ UNCHANGED <<options, object, given, requests>> BY Types DEF Foreach
<1>2. TypeOK' BY <1>1 DEF TypeOK
<1>3. ObjectOfRequests' BY <1>1, NoObjectIsNone DEF ObjectOfRequests
<1>4. StillMeant' /\ JobIsOfItsRequest' BY <1>1, RequestsKept
<1>5. RequestsAreTheirOwn'
  <2>1. CASE read' = ReadsProgress(Command(object))
    BY <2>1 DEF ReadsProgress, RequestsAreTheirOwn
  <2>2. CASE read' = Reads("foreach", "none", Command(object), object)
    <3>1. FilterMeant'
      BY <1>1, <2>2, FilterRead
    <3>2. /\ read'.by = "foreach" /\ read'.udf = object.udf /\ read'.native = Command(object)
          /\ Command(object) # "throws"
      BY <2>2 DEF Reads, Foreach
    <3>3. Command(object) # "queryForeach" => object.udf = "none"
      BY <3>2 DEF Command, QueryCommand, ScanCommand
    <3> QED BY <3>1, <3>2, <3>3 DEF RequestsAreTheirOwn, FilterMeant
  <2> QED BY <2>1, <2>2 DEF Foreach
<1> QED BY <1>2, <1>3, <1>4, <1>5

\* Query.apply().
LEMMA ApplyIInv ==
    ASSUME IInv, object # NoObject, NEW actuals, NEW udf \in Udfs, QueryApplyCall(actuals, udf)
    PROVE  IInv'
<1> USE DEF IInv
<1>1. object \in Objects BY Types
<1>2. /\ object' = [object EXCEPT !.udf = udf] /\ UNCHANGED <<options, given, requests>>
      /\ read' = Reads("apply", udf, "queryApply", object')
  BY DEF QueryApplyCall
<1>3. object' \in Objects /\ object'.udf = udf /\ ModuleName(object') = ModuleName(object)
  BY <1>1, <1>2 DEF Objects, ModuleName
<1>4. TypeOK' BY <1>2, <1>3 DEF TypeOK, Objects
<1>5. ObjectOfRequests' BY <1>2, <1>3, NoObjectIsNone DEF ObjectOfRequests
<1>6. StillMeant' /\ JobIsOfItsRequest' BY <1>2, <1>3, RequestsKept
<1>7. RequestsAreTheirOwn'
  <2>1. read'.by = "apply" /\ read'.own = udf /\ read'.udf = udf BY <1>2, <1>3 DEF Reads
  <2>2. FilterMeant'
    BY <1>2, <1>3, FilterRead
  <2> QED BY <2>1, <2>2 DEF RequestsAreTheirOwn, FilterMeant
<1> QED BY <1>4, <1>5, <1>6, <1>7

\* background() and operate(): a request whose answer makes a job.
LEMMA RequestingIInv ==
    ASSUME IInv, object # NoObject, object' \in Objects, ModuleName(object') = ModuleName(object),
           NEW name, NEW actuals, NEW by, NEW own, Requesting(name, actuals, by, own),
           \/ by = "background" /\ object'.udf = own
           \/ by = "operate" /\ object'.ops = own
    PROVE  IInv'
<1> USE DEF IInv
<1>1. UNCHANGED <<options, given>> BY DEF Requesting
<1>2. PICK native : read' = Reads(by, own, native, object') BY DEF Requesting
<1>3. /\ Runs(read'.filter) = ModuleName(object')
      /\ FilterMeant'
  BY <1>1, <1>2, FilterRead
<1>4. PICK r \in Requests : /\ r.for = "job" /\ r.job = "none" /\ r.of = Runs(read'.filter)
                            /\ requests' = Append(requests, r)
  <2>1. Runs(read'.filter) \in {"query", "scan"} BY DEF Runs
  <2>2. requests' = Append(requests, [for |-> "job", of |-> Runs(read'.filter), job |-> "none",
                                      disturbed |-> FALSE])
    BY DEF Requesting, Request
  <2> QED BY <2>1, <2>2 DEF Requests
<1>5. r.of = JobNow(r)' BY <1>3, <1>4 DEF JobNow, ModuleName
<1>6. requests' \in Seq(Requests) /\ StillMeant' /\ JobIsOfItsRequest'
  BY <1>1, <1>4, <1>5, RequestsKept
<1>7. TypeOK'
  <2>1. given \in [Predicates -> SUBSET Wheres] BY Types
  <2> QED BY <1>1, <1>6, <2>1 DEF TypeOK, Requests, Objects
<1>8. ObjectOfRequests'
  <2>1. requests \in Seq(Requests) BY Types
  <2> QED BY <1>4, <2>1, OneMore, NoObjectIsNone DEF ObjectOfRequests
<1>9. RequestsAreTheirOwn'
  <2>1. read'.by = by /\ read'.own = own /\ read'.udf = object'.udf /\ read'.ops = object'.ops
    BY <1>2 DEF Reads
  <2> QED BY <1>3, <2>1 DEF RequestsAreTheirOwn, FilterMeant
<1> QED BY <1>6, <1>7, <1>8, <1>9

\* An answer comes.
LEMMA AnswerIInv ==
    ASSUME IInv, NEW i \in DOMAIN requests, Answer(i)
    PROVE  IInv'
<1> USE DEF IInv
<1>1. /\ requests[i].job = "none" /\ UNCHANGED <<options, object, given>> /\ read' = Nowhere
      /\ requests' = [requests EXCEPT ![i].job = JobNow(requests[i])]
  BY DEF Answer, Quiet, JobNow
<1>2. requests \in Seq(Requests) /\ requests[i] \in Requests
  <2>1. requests \in Seq(Requests) BY Types
  <2> QED BY <2>1
<1>3. JobNow(requests[i]) \in {"index1", "index2", "query", "scan"}
  BY Types DEF JobNow, ModuleName
<1>4. PICK r \in Requests : /\ r.job = JobNow(requests[i]) /\ r.of = requests[i].of
                            /\ r.for = requests[i].for /\ r.disturbed = requests[i].disturbed
                            /\ requests' = [requests EXCEPT ![i] = r]
  <2>1. /\ [requests[i] EXCEPT !.job = JobNow(requests[i])] \in Requests
        /\ requests' = [requests EXCEPT ![i] = [requests[i] EXCEPT !.job = JobNow(requests[i])]]
    BY <1>1, <1>2, <1>3 DEF Requests
  <2> QED BY <1>2, <2>1 DEF Requests
<1>5. /\ requests' \in Seq(Requests) /\ DOMAIN requests' = DOMAIN requests
      /\ requests'[i] = r /\ \A k \in DOMAIN requests \ {i} : requests'[k] = requests[k]
  BY <1>2, <1>4
<1>6. TypeOK' BY <1>1, <1>5 DEF TypeOK, Requests, Objects
<1>7. ObjectOfRequests' BY <1>1, <1>4, <1>5 DEF ObjectOfRequests
<1>8. \A k \in DOMAIN requests : JobNow(requests[k])' = JobNow(requests'[k])
  BY <1>1 DEF JobNow, ModuleName
<1>9. r.job # "none" BY <1>3, <1>4
<1>10. StillMeant'
  <2> SUFFICES ASSUME NEW k \in DOMAIN requests', requests'[k].job = "none", ~requests'[k].disturbed
               PROVE  requests'[k].of = JobNow(requests[k])'
    BY DEF StillMeant
  <2>1. k # i /\ requests'[k] = requests[k] BY <1>5, <1>9
  <2> QED BY <1>5, <1>8, <2>1 DEF StillMeant
<1>11. JobIsOfItsRequest'
  <2> SUFFICES ASSUME NEW k \in DOMAIN requests', requests'[k].job # "none", ~requests'[k].disturbed
               PROVE  requests'[k].job = requests'[k].of
    BY DEF JobIsOfItsRequest
  <2>1. CASE k = i BY <1>1, <1>4, <1>5, <2>1 DEF StillMeant
  <2>2. CASE k # i BY <1>5, <2>2 DEF JobIsOfItsRequest
  <2> QED BY <2>1, <2>2
<1>12. RequestsAreTheirOwn' BY <1>1 DEF RequestsAreTheirOwn
<1> QED BY <1>6, <1>7, <1>10, <1>11, <1>12

LEMMA NextIInv == IInv /\ [Next]_vars => IInv'
<1> SUFFICES ASSUME IInv, [Next]_vars PROVE IInv' OBVIOUS
<1>1. CASE NextClient
  <2>1. object = NoObject BY <1>1 DEF NextClient, ClientCall, IndexCall, NextIndex
  <2>2. \/ \E name, actuals : ClientCall(name, actuals) \/ IndexCall(name, actuals)
        \/ \E index \in {"index1", "index2"} : NextIndex(index)
    BY <1>1 DEF NextClient
  <2> QED BY <2>1, <2>2, ClientIInv
<1>2. CASE NextObject
  <2>1. CASE \E kind \in {"query", "scan"} : \E actuals \in Creations(kind),
               chosen \in CreationOptions(kind) : Create(kind, actuals, chosen)
    BY <2>1, CreateIInv
  <2>2. ASSUME \/ \E p \in Predicates, by \in Wheres : Where(p, by) \/ WhereElsewhere(p, by)
               \/ \E udf \in Udfs : SetUdf(udf)
               \/ \E state \in BOOLEAN : NextPage(state)
        PROVE  IInv'
    <3>1. NoObject.kind # "query" BY DEF NoObject
    <3>2. object # NoObject BY <2>2, <3>1 DEF Where, WhereElsewhere, SetUdf, NextPage
    <3> QED BY <2>2, <3>2, FillIInv
  <2>3. CASE Foreach BY <2>3, ForeachIInv
  <2>4. ASSUME NEW actuals, NEW udf \in Udfs, QueryApplyCall(actuals, udf) PROVE IInv'
    <3>1. object # NoObject BY <2>4 DEF QueryApplyCall, NoObject
    <3> QED BY <2>4, <3>1, ApplyIInv
  <2>5. ASSUME NEW kind \in {"query", "scan"}, NEW actuals, NEW udf \in Udfs,
               BackgroundCall(kind, actuals, udf)
        PROVE  IInv'
    <3>1. object # NoObject /\ object' = [object EXCEPT !.udf = udf]
      BY <2>5 DEF BackgroundCall, NoObject
    <3>2. object \in Objects BY <3>1, Types DEF IInv
    <3>3. object' \in Objects /\ object'.udf = udf /\ ModuleName(object') = ModuleName(object)
      BY <3>1, <3>2 DEF Objects, ModuleName
    <3>4. Requesting(BackgroundOf(kind), actuals, "background", udf) BY <2>5 DEF BackgroundCall
    <3> QED BY <3>1, <3>3, <3>4, RequestingIInv
  <2>6. ASSUME NEW kind \in {"query", "scan"}, NEW actuals, NEW ops \in Ops,
               OperateCall(kind, actuals, ops)
        PROVE  IInv'
    <3>1. object # NoObject /\ object' = [object EXCEPT !.ops = ops]
      BY <2>6 DEF OperateCall, NoObject
    <3>2. object \in Objects BY <3>1, Types DEF IInv
    <3>3. object' \in Objects /\ object'.ops = ops /\ ModuleName(object') = ModuleName(object)
      BY <3>1, <3>2 DEF Objects, ModuleName
    <3>4. Requesting(OperateOf(kind), actuals, "operate", ops) BY <2>6 DEF OperateCall
    <3> QED BY <3>1, <3>3, <3>4, RequestingIInv
  <2> QED BY <1>2, <2>1, <2>2, <2>3, <2>4, <2>5, <2>6 DEF NextObject
<1>3. CASE \E i \in DOMAIN requests : Answer(i) BY <1>3, AnswerIInv
<1>4. CASE UNCHANGED vars
  <2> USE <1>4 DEF vars, IInv
  <2>1. TypeOK' BY DEF TypeOK
  <2>2. ObjectOfRequests' /\ RequestsAreTheirOwn' BY DEF ObjectOfRequests, RequestsAreTheirOwn, Plain
  <2>3. StillMeant' /\ JobIsOfItsRequest' BY DEF StillMeant, JobIsOfItsRequest, JobNow, ModuleName
  <2> QED BY <2>1, <2>2, <2>3
<1> QED BY <1>1, <1>2, <1>3, <1>4 DEF Next

LEMMA Invariance == Spec => []IInv
<1> QED BY InitIInv, NextIInv, PTL DEF Spec

-------------------------------------------------------------------------------
(* Documented calls arrive                                                 *)

(***************************************************************************)
(* What the parameters of a method hold for the call it was meant to be:   *)
(* every parameter itself, or nothing if it may be left out; every         *)
(* argument in the parameter it was given for; and the callback, if there  *)
(* was one.                                                                *)
(***************************************************************************)
Stands(m, f, value) ==
    value = f \/ (value \in Nothing /\ f \in m.optional) \/ (value = "zero" /\ f = "beforeNanos")

Meant(m, actuals, bound) ==
    /\ DOMAIN bound = ToSet(m.formals) \cup {"callback"}
    /\ \A f \in ToSet(m.formals) : Stands(m, f, bound[f])
    /\ \A value \in ToSet(actuals) :
        value \in Nothing \cup {"callback"} \/ (value \in ToSet(m.formals) /\ bound[value] = value)
    /\ bound.callback = "callback" <=> "callback" \in ToSet(actuals)

Values(m) == ToSet(m.formals) \cup Nothing \cup {"callback"}

\* Arguments but the callback, which is the last, are in their parameters.
InPosition(m, actuals, bound) ==
    \A i \in DOMAIN actuals :
        IF actuals[i] = "callback" THEN i = Len(actuals)
        ELSE i \in DOMAIN m.formals /\ bound[m.formals[i]] = actuals[i]

\* The first k parameters, as they may be given.
IsGiven(m, k, s) ==
    /\ k \in 0 .. Len(m.formals)
    /\ s \in Seq(Values(m)) /\ Len(s) = k
    /\ \A i \in 1 .. k : s[i] = m.formals[i] \/ (m.formals[i] \in m.optional /\ s[i] \in Nothing)

\* The parameters of a method are a sequence of different names.
LEMMA ParametersOf ==
    ASSUME NEW name \in DOMAIN Methods
    PROVE  LET formals == Methods[name].formals
           IN  /\ formals \in Seq(ToSet(formals)) /\ Len(formals) \in Nat
               /\ DOMAIN formals = 1 .. Len(formals)
               /\ ToSet(formals) = {formals[i] : i \in DOMAIN formals}
               /\ \A i, j \in DOMAIN formals : formals[i] = formals[j] => i = j
               /\ \A i \in DOMAIN formals : /\ formals[i] \in ToSet(formals)
                                           /\ formals[i] # "callback" /\ formals[i] \notin Nothing
                                           /\ formals[i] \notin DOMAIN From
<1> DEFINE formals == Methods[name].formals
<1>1. formals \in Seq(ToSet(formals)) BY TablesAreLists
<1>2. \A i, j \in DOMAIN formals : formals[i] = formals[j] => i = j BY ParametersAreNamed
<1>3. ToSet(formals) \cap (Nothing \cup DOMAIN From \cup {"callback"}) = {} BY ParametersAreNamed
<1>4. ToSet(formals) = {formals[i] : i \in DOMAIN formals} BY DEF ToSet
<1> HIDE DEF formals
<1>5. \A i \in DOMAIN formals : formals[i] \in ToSet(formals) BY <1>4
<1>6. Len(formals) \in Nat /\ DOMAIN formals = 1 .. Len(formals) BY <1>1
<1>7. \A i \in DOMAIN formals : formals[i] # "callback" /\ formals[i] \notin Nothing
                                /\ formals[i] \notin DOMAIN From
  BY <1>3, <1>5
<1> QED BY <1>1, <1>2, <1>4, <1>5, <1>6, <1>7 DEF formals

LEMMA GivenForms ==
    ASSUME NEW name \in DOMAIN Methods, NEW k \in 0 .. Len(Methods[name].formals),
           NEW s \in Given(Methods[name], k)
    PROVE  IsGiven(Methods[name], k, s)
<1> DEFINE m == Methods[name]
           Form(i, f) == IF f = "itself" THEN m.formals[i] ELSE f
<1>1. /\ m.formals \in Seq(ToSet(m.formals))
      /\ \A i \in DOMAIN m.formals : m.formals[i] \in Values(m)
  BY ParametersOf DEF Values
<1>2. PICK t \in [1 .. k -> Nothing \cup {"itself"}] :
        /\ \A i \in 1 .. k : t[i] = "itself" \/ m.formals[i] \in m.optional
        /\ s = [i \in 1 .. k |-> Form(i, t[i])]
  BY DEF Given
<1>3. k \in Nat /\ \A i \in 1 .. k : i \in DOMAIN m.formals BY <1>1
<1>4. \A i \in 1 .. k : /\ s[i] \in Values(m)
                        /\ s[i] = m.formals[i] \/ (m.formals[i] \in m.optional /\ s[i] \in Nothing)
  <2> SUFFICES ASSUME NEW i \in 1 .. k
               PROVE  /\ s[i] \in Values(m)
                      /\ s[i] = m.formals[i] \/ (m.formals[i] \in m.optional /\ s[i] \in Nothing)
    OBVIOUS
  <2>1. s[i] = Form(i, t[i]) /\ t[i] \in Nothing \cup {"itself"} BY <1>2
  <2>2. m.formals[i] \in Values(m) BY <1>1, <1>3
  <2>3. CASE t[i] = "itself" BY <2>1, <2>2, <2>3
  <2>4. CASE t[i] # "itself"
    <3>1. m.formals[i] \in m.optional BY <1>2, <2>4
    <3>2. t[i] \in Nothing /\ s[i] = t[i] BY <2>1, <2>4
    <3>3. Nothing \subseteq Values(m) BY DEF Values
    <3>4. s[i] \in Nothing /\ s[i] \in Values(m) BY <3>2, <3>3
    <3> QED BY <3>1, <3>4
  <2> QED BY <2>3, <2>4
<1>5. s \in [1 .. k -> Values(m)]
  BY <1>2, <1>4
<1>6. s \in Seq(Values(m)) /\ Len(s) = k
  BY <1>3, <1>5
<1> QED BY <1>4, <1>6 DEF IsGiven

\* A documented call gives some parameters, and perhaps a callback behind them.
LEMMA DocumentedForms ==
    ASSUME NEW name \in DOMAIN Methods, NEW actuals \in Documented(name),
           actuals \notin Skipping(name)
    PROVE  \E k \in 0 .. Len(Methods[name].formals) : \E s :
             /\ IsGiven(Methods[name], k, s)
             /\ \/ actuals = s /\ k >= Methods[name].least
                \/ actuals = Append(s, "callback") /\ k \in Methods[name].early
<1> DEFINE m == Methods[name]
<1>1. m.least \in 0 .. Len(m.formals) /\ m.early \subseteq 0 .. Len(m.formals)
  BY ParametersAreNamed
<1>2. CASE \E k \in m.least .. Len(m.formals) : actuals \in Given(m, k)
  <2>1. PICK k \in m.least .. Len(m.formals) : actuals \in Given(m, k) BY <1>2
  <2>2. k \in 0 .. Len(m.formals) /\ k >= m.least BY <1>1
  <2> QED BY <2>1, <2>2, GivenForms
<1>3. CASE \E k \in m.early : \E s \in Given(m, k) : actuals = Append(s, "callback")
  BY <1>1, <1>3, GivenForms
<1>4. \/ \E k \in m.least .. Len(m.formals) : actuals \in Given(m, k)
      \/ \E k \in m.early : \E s \in Given(m, k) : actuals = Append(s, "callback")
  BY DEF Documented
<1> QED BY <1>2, <1>3, <1>4

\* Each parameter is bound to the argument in its place.
LEMMA BoundTo ==
    ASSUME NEW name \in DOMAIN Methods, NEW actuals
    PROVE  LET m == Methods[name]
               b == Bound(m, actuals)
               n == Len(m.formals)
           IN  /\ DOMAIN b = ToSet(m.formals) \cup {"callback"}
               /\ \A i \in DOMAIN m.formals :
                    b[m.formals[i]] = IF i <= Len(actuals) THEN actuals[i] ELSE "undefined"
               /\ b.callback = IF n + 1 <= Len(actuals) THEN actuals[n + 1] ELSE "undefined"
<1> DEFINE m == Methods[name]
           b == Bound(m, actuals)
           n == Len(m.formals)
           P == Append(m.formals, "callback")
           At(i) == IF i <= Len(actuals) THEN actuals[i] ELSE "undefined"
           I(f) == CHOOSE j \in 1 .. n + 1 : P[j] = f
<1>1. /\ m.formals \in Seq(ToSet(m.formals)) /\ n \in Nat /\ DOMAIN m.formals = 1 .. n
      /\ \A i, j \in DOMAIN m.formals : m.formals[i] = m.formals[j] => i = j
      /\ \A i \in DOMAIN m.formals : m.formals[i] # "callback"
  BY ParametersOf
<1>2. /\ \A i \in 1 .. n : P[i] = m.formals[i]
      /\ P[n + 1] = "callback"
  BY <1>1
<1>3. \A i, j \in 1 .. n + 1 : P[i] = P[j] => i = j
  <2> SUFFICES ASSUME NEW i \in 1 .. n + 1, NEW j \in 1 .. n + 1, P[i] = P[j] PROVE i = j
    OBVIOUS
  <2>1. CASE i \in 1 .. n /\ j \in 1 .. n BY <1>1, <1>2, <2>1
  <2>2. CASE i = n + 1 /\ j \in 1 .. n
    <3>1. P[i] = "callback" BY <1>2, <2>2
    <3>2. P[j] = m.formals[j] BY <1>2, <2>2
    <3> QED BY <1>1, <2>2, <3>1, <3>2
  <2>3. CASE i \in 1 .. n /\ j = n + 1
    <3>1. P[j] = "callback" BY <1>2, <2>3
    <3>2. P[i] = m.formals[i] BY <1>2, <2>3
    <3> QED BY <1>1, <2>3, <3>1, <3>2
  <2> QED BY <1>1, <2>1, <2>2, <2>3
<1>4. \A i \in 1 .. n + 1 : I(P[i]) = i
  BY <1>3
<1>5. /\ DOMAIN b = ToSet(m.formals) \cup {"callback"}
      /\ \A f \in ToSet(m.formals) \cup {"callback"} :
            b[f] = IF I(f) <= Len(actuals) THEN actuals[I(f)] ELSE "undefined"
  BY DEF Bound
<1>6. ASSUME NEW i \in DOMAIN m.formals PROVE b[m.formals[i]] = At(i)
  <2>1. m.formals[i] \in ToSet(m.formals) BY DEF ToSet
  <2>2. I(m.formals[i]) = i BY <1>1, <1>2, <1>4
  <2> QED BY <1>5, <2>1, <2>2
<1>7. b.callback = At(n + 1)
  <2>1. n + 1 \in 1 .. n + 1 BY <1>1
  <2>2. I("callback") = n + 1 BY <1>2, <1>4, <2>1
  <2>3. b["callback"] = IF I("callback") <= Len(actuals) THEN actuals[I("callback")]
                        ELSE "undefined"
    BY <1>5
  <2> QED BY <2>2, <2>3
<1> QED BY <1>5, <1>6, <1>7

\* A callback may be written behind them.
Written(s, early) == IF early THEN Append(s, "callback") ELSE s

\* The arguments of a call that gives the first k parameters.
LEMMA WrittenSo ==
    ASSUME NEW name \in DOMAIN Methods, NEW k, NEW s, IsGiven(Methods[name], k, s),
           NEW early \in BOOLEAN
    PROVE  LET actuals == Written(s, early)
           IN  /\ k \in 0 .. Len(Methods[name].formals)
               /\ Len(actuals) = IF early THEN k + 1 ELSE k
               /\ DOMAIN actuals = IF early THEN 1 .. k + 1 ELSE 1 .. k
               /\ \A i \in 1 .. k : actuals[i] = s[i] /\ s[i] # "callback"
               /\ early => actuals[k + 1] = "callback"
<1> DEFINE m == Methods[name]
           n == Len(m.formals)
           actuals == Written(s, early)
<1>1. n \in Nat /\ DOMAIN m.formals = 1 .. n BY ParametersOf
<1>2. k \in 0 .. n /\ s \in Seq(Values(m)) /\ Len(s) = k /\ "callback" \in Values(m)
  BY DEF IsGiven, Values
<1>3. /\ actuals \in Seq(Values(m)) /\ Len(actuals) = IF early THEN k + 1 ELSE k
      /\ \A i \in 1 .. k : actuals[i] = s[i]
      /\ early => actuals[k + 1] = "callback"
  <2>1. CASE early
    <3> DEFINE V == Values(m)
    <3>1. actuals = Append(s, "callback") BY <2>1 DEF Written
    <3>2. k \in Nat /\ s \in Seq(V) /\ Len(s) = k /\ "callback" \in V BY <1>1, <1>2
    <3> HIDE DEF V, actuals
    <3>3. /\ actuals \in Seq(V) /\ Len(actuals) = k + 1 /\ actuals[k + 1] = "callback"
          /\ \A i \in 1 .. k : actuals[i] = s[i]
      BY <3>1, <3>2
    <3> QED BY <2>1, <3>3 DEF V
  <2>2. CASE ~early
    <3>1. actuals = s BY <2>2 DEF Written
    <3> QED BY <1>2, <2>2, <3>1
  <2> QED BY <2>1, <2>2
<1>4. DOMAIN actuals = IF early THEN 1 .. k + 1 ELSE 1 .. k BY <1>2, <1>3
<1>5. \A i \in 1 .. k : s[i] # "callback"
  <2> SUFFICES ASSUME NEW i \in 1 .. k PROVE s[i] # "callback" OBVIOUS
  <2>1. i \in DOMAIN m.formals BY <1>1, <1>2
  <2>2. m.formals[i] # "callback" BY <2>1, ParametersOf
  <2>3. s[i] \in {m.formals[i]} \cup Nothing BY DEF IsGiven
  <2> QED BY <2>2, <2>3 DEF Nothing
<1> QED BY <1>2, <1>3, <1>4, <1>5

\* Its parameters and its callback.
IsBound(m, k, s, early, b) ==
    /\ DOMAIN b = ToSet(m.formals) \cup {"callback"}
    /\ \A i \in 1 .. k : b[m.formals[i]] = s[i]
    /\ \A i \in k + 1 .. Len(m.formals) :
        b[m.formals[i]] = IF early /\ i = k + 1 THEN "callback" ELSE "undefined"
    /\ b.callback = IF early /\ k = Len(m.formals) THEN "callback" ELSE "undefined"

LEMMA BoundForms ==
    ASSUME NEW name \in DOMAIN Methods, NEW k, NEW s, IsGiven(Methods[name], k, s),
           NEW early \in BOOLEAN
    PROVE  IsBound(Methods[name], k, s, early, Bound(Methods[name], Written(s, early)))
<1> DEFINE m == Methods[name]
           actuals == Written(s, early)
           b == Bound(m, actuals)
           n == Len(m.formals)
           At(i) == IF i <= Len(actuals) THEN actuals[i] ELSE "undefined"
<1>1. n \in Nat /\ DOMAIN m.formals = 1 .. n BY ParametersOf
<1>2. /\ k \in 0 .. n
      /\ Len(actuals) = IF early THEN k + 1 ELSE k
      /\ \A i \in 1 .. k : actuals[i] = s[i]
      /\ early => actuals[k + 1] = "callback"
  BY WrittenSo
<1>3. /\ DOMAIN b = ToSet(m.formals) \cup {"callback"}
      /\ \A i \in DOMAIN m.formals : b[m.formals[i]] = At(i)
      /\ b.callback = At(n + 1)
  <2> HIDE DEF b, m
  <2> QED BY BoundTo DEF b, m
<1>4. \A i \in 1 .. k : b[m.formals[i]] = s[i]
  <2> SUFFICES ASSUME NEW i \in 1 .. k PROVE b[m.formals[i]] = s[i] OBVIOUS
  <2>1. i \in DOMAIN m.formals /\ i <= Len(actuals) BY <1>1, <1>2
  <2> QED BY <1>2, <1>3, <2>1
<1>5. \A i \in k + 1 .. n : b[m.formals[i]] = IF early /\ i = k + 1 THEN "callback" ELSE "undefined"
  <2> SUFFICES ASSUME NEW i \in k + 1 .. n
               PROVE  b[m.formals[i]] = IF early /\ i = k + 1 THEN "callback" ELSE "undefined"
    OBVIOUS
  <2>1. i \in DOMAIN m.formals BY <1>1, <1>2
  <2>2. b[m.formals[i]] = At(i) BY <1>3, <2>1
  <2>3. At(i) = IF early /\ i = k + 1 THEN "callback" ELSE "undefined" BY <1>1, <1>2
  <2> QED BY <2>2, <2>3
<1>6. b.callback = IF early /\ k = n THEN "callback" ELSE "undefined"
  <2>1. At(n + 1) = IF early /\ k = n THEN "callback" ELSE "undefined" BY <1>1, <1>2
  <2> QED BY <1>3, <2>1
<1> QED BY <1>3, <1>4, <1>5, <1>6 DEF IsBound

\* A set of naturals that is not empty has a least element.
LEMMA NatLeast ==
    ASSUME NEW T \in SUBSET Nat, T # {}
    PROVE  \E n \in T : \A l \in T : n <= l
<1> DEFINE R == OpToRel(<, Nat)
<1>1. IsWellFoundedOn(R, Nat) BY NatLessThanWellFounded, Zenon
<1>2. \E n \in T : \A l \in T : <<l, n>> \notin R
  <2> HIDE DEF R
  <2> QED BY <1>1, WFMin
<1>3. \E n \in T : \A l \in T : ~(l < n) BY <1>2, Zenon DEF OpToRel
<1> QED BY <1>3

\* The test that finds the callback, if one does.
LEMMA FirstHit ==
    ASSUME NEW m, NEW b, Len(m.shifts) \in Nat, DOMAIN m.shifts = 1 .. Len(m.shifts)
    PROVE  LET hit == SelectInSeq(m.shifts, LAMBDA test : b[test.at] = "callback")
           IN  \/ /\ hit = 0
                  /\ \A j \in DOMAIN m.shifts : b[m.shifts[j].at] # "callback"
                  /\ Shifted(m, b) = b
               \/ /\ hit \in DOMAIN m.shifts /\ b[m.shifts[hit].at] = "callback"
                  /\ \A j \in DOMAIN m.shifts : b[m.shifts[j].at] = "callback" => hit <= j
                  /\ Shifted(m, b) = Assigned([b EXCEPT !.callback = "callback"], m.shifts[hit].sets)
<1> DEFINE hits == {j \in 1 .. Len(m.shifts) : b[m.shifts[j].at] = "callback"}
           hit == SelectInSeq(m.shifts, LAMBDA test : b[test.at] = "callback")
<1>1. hit = IF hits # {} THEN Min(hits) ELSE 0 BY DEF SelectInSeq
<1>2. hits # {} => hit \in hits /\ \A j \in hits : hit <= j
  <2> SUFFICES ASSUME hits # {} PROVE hit \in hits /\ \A j \in hits : hit <= j OBVIOUS
  <2>1. hits \in SUBSET Nat OBVIOUS
  <2> HIDE DEF hits
  <2>2. \E j \in hits : \A l \in hits : j <= l BY <2>1, NatLeast
  <2> QED BY <1>1, <2>2 DEF Min
<1>3. Shifted(m, b) =
        IF hit = 0 THEN b ELSE Assigned([b EXCEPT !.callback = "callback"], m.shifts[hit].sets)
  BY DEF Shifted
<1>4. CASE hits = {}
  <2>1. hit = 0 /\ \A j \in DOMAIN m.shifts : b[m.shifts[j].at] # "callback" BY <1>1, <1>4
  <2>2. Shifted(m, b) = b BY <1>3, <2>1
  <2> QED BY <2>1, <2>2
<1>5. CASE hits # {}
  <2>1. /\ hit \in DOMAIN m.shifts /\ b[m.shifts[hit].at] = "callback" /\ hit # 0
        /\ \A j \in DOMAIN m.shifts : b[m.shifts[j].at] = "callback" => hit <= j
    <3>1. hit \in hits /\ \A j \in hits : hit <= j BY <1>2, <1>5
    <3> HIDE DEF hit
    <3> QED BY <3>1
  <2>2. Shifted(m, b) = Assigned([b EXCEPT !.callback = "callback"], m.shifts[hit].sets)
    BY <1>3, <2>1
  <2> QED BY <2>1, <2>2
<1> QED BY <1>4, <1>5

\* What is in its position was meant.
LEMMA PositionIsMeant ==
    ASSUME NEW name \in DOMAIN Methods, NEW bound, NEW k, NEW s, IsGiven(Methods[name], k, s),
           NEW early \in BOOLEAN,
           DOMAIN bound = ToSet(Methods[name].formals) \cup {"callback"},
           \A i \in 1 .. k : bound[Methods[name].formals[i]] = s[i],
           \A i \in k + 1 .. Len(Methods[name].formals) :
                Stands(Methods[name], Methods[name].formals[i], bound[Methods[name].formals[i]]),
           bound.callback = IF early THEN "callback" ELSE "undefined"
    PROVE  /\ Meant(Methods[name], Written(s, early), bound)
           /\ InPosition(Methods[name], Written(s, early), bound)
<1> DEFINE m == Methods[name]
           n == Len(m.formals)
           actuals == Written(s, early)
<1>1. /\ n \in Nat /\ DOMAIN m.formals = 1 .. n
      /\ DOMAIN actuals = IF early THEN 1 .. k + 1 ELSE 1 .. k
      /\ \A i \in 1 .. k : actuals[i] = s[i] /\ s[i] # "callback"
      /\ early => actuals[k + 1] = "callback" /\ Len(actuals) = k + 1
  <2>1. /\ DOMAIN actuals = IF early THEN 1 .. k + 1 ELSE 1 .. k
        /\ \A i \in 1 .. k : actuals[i] = s[i] /\ s[i] # "callback"
        /\ early => actuals[k + 1] = "callback" /\ Len(actuals) = k + 1
    BY WrittenSo
  <2> QED BY <2>1, ParametersOf
<1>2. /\ k \in 0 .. n /\ Len(s) = k /\ s \in Seq(Values(m))
      /\ \A i \in 1 .. k : s[i] = m.formals[i] \/ (m.formals[i] \in m.optional /\ s[i] \in Nothing)
  BY DEF IsGiven
<1>3. /\ ToSet(m.formals) = {m.formals[i] : i \in 1 .. n}
      /\ \A i \in 1 .. n : m.formals[i] \in ToSet(m.formals)
  BY <1>1, ParametersOf
<1> HIDE DEF m, actuals
<1>4. \A i \in 1 .. k : bound[m.formals[i]] = s[i] BY DEF m
<1>5. \A f \in ToSet(m.formals) : Stands(m, f, bound[f])
  <2> SUFFICES ASSUME NEW i \in 1 .. n PROVE Stands(m, m.formals[i], bound[m.formals[i]])
    BY <1>3
  <2>1. CASE i \in 1 .. k
    <3>1. bound[m.formals[i]] = s[i] BY <1>4, <2>1
    <3>2. s[i] = m.formals[i] \/ (m.formals[i] \in m.optional /\ s[i] \in Nothing) BY <1>2, <2>1
    <3> QED BY <3>1, <3>2 DEF Stands
  <2>2. CASE i \in k + 1 .. n BY <2>2 DEF m
  <2> QED BY <1>1, <1>2, <2>1, <2>2
<1>6. \A i \in DOMAIN actuals :
        \/ i \in 1 .. k /\ actuals[i] = s[i] /\ s[i] # "callback"
        \/ early /\ i = k + 1 /\ actuals[i] = "callback"
  BY <1>1, <1>2
<1>7. early => Len(actuals) = k + 1 BY <1>1
<1>8. InPosition(m, actuals, bound)
  <2> SUFFICES ASSUME NEW i \in DOMAIN actuals
               PROVE  IF actuals[i] = "callback" THEN i = Len(actuals)
                      ELSE i \in DOMAIN m.formals /\ bound[m.formals[i]] = actuals[i]
    BY DEF InPosition
  <2>1. CASE i \in 1 .. k /\ actuals[i] = s[i] /\ s[i] # "callback"
    <3>1. i \in DOMAIN m.formals BY <1>1, <1>2, <2>1 DEF m
    <3> QED BY <1>4, <2>1, <3>1
  <2>2. CASE early /\ i = k + 1 /\ actuals[i] = "callback" BY <1>7, <2>2
  <2> QED BY <1>6, <2>1, <2>2
<1>9. ToSet(actuals) = {actuals[i] : i \in DOMAIN actuals} BY DEF ToSet
<1>10. \A value \in ToSet(actuals) :
         value \in Nothing \cup {"callback"} \/ (value \in ToSet(m.formals) /\ bound[value] = value)
  <2> SUFFICES ASSUME NEW i \in 1 .. k, s[i] \notin Nothing
               PROVE  s[i] \in ToSet(m.formals) /\ bound[s[i]] = s[i]
    BY <1>6, <1>9
  <2>1. s[i] = m.formals[i] BY <1>2
  <2>2. i \in 1 .. n BY <1>1, <1>2
  <2> QED BY <1>3, <1>4, <2>1, <2>2
<1>11. bound.callback = "callback" <=> "callback" \in ToSet(actuals)
  <2>1. CASE early
    <3>1. k + 1 \in DOMAIN actuals /\ actuals[k + 1] = "callback" BY <1>1, <1>2, <2>1
    <3>2. "callback" \in ToSet(actuals) BY <1>9, <3>1
    <3> QED BY <2>1, <3>2
  <2>2. CASE ~early
    <3>1. \A i \in DOMAIN actuals : actuals[i] # "callback" BY <1>6, <2>2
    <3> QED BY <1>9, <2>2, <3>1
  <2> QED BY <2>1, <2>2
<1>12. DOMAIN bound = ToSet(m.formals) \cup {"callback"} BY DEF m
<1> QED BY <1>5, <1>8, <1>10, <1>11, <1>12 DEF Meant, m, actuals

\* A parameter that is not given may be left out, whether it is behind the
\* callback, which was taken for another, or there is no callback.
LEMMA LeftOut ==
    ASSUME NEW name \in DOMAIN Methods, NEW k \in Nat, NEW i \in DOMAIN Methods[name].formals,
           i > k,
           \/ k >= Methods[name].least
           \/ /\ k \in Methods[name].early
              /\ \E j \in DOMAIN Methods[name].shifts :
                    /\ Methods[name].shifts[j].at = Methods[name].formals[k + 1]
                    /\ Methods[name].formals[i] \notin DOMAIN Methods[name].shifts[j].sets
    PROVE  Methods[name].formals[i] \in Methods[name].optional
<1> DEFINE m == Methods[name]
<1>1. m.least \in Nat /\ m.early \subseteq Nat /\ DOMAIN m.formals \subseteq Nat
  <2>1. m.least \in 0 .. Len(m.formals) /\ m.early \subseteq 0 .. Len(m.formals) BY ParametersAreNamed
  <2>2. Len(m.formals) \in Nat /\ DOMAIN m.formals = 1 .. Len(m.formals) BY ParametersOf
  <2> QED BY <2>1, <2>2
<1>2. m.formals[i] \notin m.optional =>
        /\ i <= m.least
        /\ \A l \in m.early :
            \/ i <= l
            \/ \A j \in DOMAIN m.shifts :
                m.shifts[j].at = m.formals[l + 1] => m.formals[i] \in DOMAIN m.shifts[j].sets
  BY RequiredIsGiven
<1> HIDE DEF m
<1>3. \/ k >= m.least
      \/ /\ k \in m.early
         /\ \E j \in DOMAIN m.shifts :
                m.shifts[j].at = m.formals[k + 1] /\ m.formals[i] \notin DOMAIN m.shifts[j].sets
  BY DEF m
<1>4. i \in DOMAIN m.formals BY DEF m
<1>5. m.formals[i] \in m.optional BY <1>1, <1>2, <1>3, <1>4
<1> QED BY <1>5 DEF m

\* Where no test finds the callback, because none is early, nothing is shifted.
LEMMA NothingIsShifted ==
    ASSUME NEW name \in DOMAIN Methods, NEW b,
           \A i \in DOMAIN Methods[name].formals : b[Methods[name].formals[i]] # "callback"
    PROVE  Shifted(Methods[name], b) = b
<1> DEFINE m == Methods[name]
<1>1. Len(m.shifts) \in Nat /\ DOMAIN m.shifts = 1 .. Len(m.shifts) BY TablesAreLists
<1>2. \A j \in DOMAIN m.shifts : \E i \in DOMAIN m.formals : m.shifts[j].at = m.formals[i]
  BY ShiftsClear
<1>3. \A j \in DOMAIN m.shifts : b[m.shifts[j].at] # "callback" BY <1>2
<1> HIDE DEF m
<1>4. Shifted(m, b) = b BY <1>1, <1>3, FirstHit
<1> QED BY <1>4 DEF m

\* The callback of a call that gives the first k parameters is found: what was
\* given stays, and the rest is as if it had been left out.
LEMMA EarlyIsShifted ==
    ASSUME NEW name \in DOMAIN Methods, name # "QueryOperate", NEW k \in Methods[name].early,
           NEW s, IsGiven(Methods[name], k, s), k < Len(Methods[name].formals)
    PROVE  LET m == Methods[name]
               r == Shifted(m, Bound(m, Written(s, TRUE)))
           IN  /\ DOMAIN r = ToSet(m.formals) \cup {"callback"}
               /\ \A i \in 1 .. k : r[m.formals[i]] = s[i]
               /\ \A i \in k + 1 .. Len(m.formals) : Stands(m, m.formals[i], r[m.formals[i]])
               /\ r.callback = "callback"
<1> DEFINE m == Methods[name]
           n == Len(m.formals)
           b == Bound(m, Written(s, TRUE))
           r == Shifted(m, b)
<1>1. /\ n \in Nat /\ DOMAIN m.formals = 1 .. n
      /\ \A i, j \in 1 .. n : m.formals[i] = m.formals[j] => i = j
      /\ \A i \in 1 .. n : m.formals[i] \in ToSet(m.formals) /\ m.formals[i] # "callback"
  BY ParametersOf
<1>2. k \in 0 .. n BY DEF IsGiven
<1>3. /\ DOMAIN b = ToSet(m.formals) \cup {"callback"}
      /\ \A i \in 1 .. k : b[m.formals[i]] = s[i]
      /\ \A i \in k + 1 .. n :
            b[m.formals[i]] = IF i = k + 1 THEN "callback" ELSE "undefined"
  <2> DEFINE early == TRUE
             e == Bound(m, Written(s, early))
  <2>1. early \in BOOLEAN /\ early OBVIOUS
  <2>2. b = e OBVIOUS
  <2> HIDE DEF early
  <2>3. /\ DOMAIN e = ToSet(m.formals) \cup {"callback"}
        /\ \A i \in 1 .. k : e[m.formals[i]] = s[i]
        /\ \A i \in k + 1 .. n :
            e[m.formals[i]] = IF early /\ i = k + 1 THEN "callback" ELSE "undefined"
    <3>1. IsBound(Methods[name], k, s, early, Bound(Methods[name], Written(s, early)))
      BY <2>1, BoundForms
    <3> QED BY <3>1 DEF IsBound
  <2> HIDE DEF b, e
  <2> QED BY <2>1, <2>2, <2>3
<1>4. \A i \in 1 .. k : s[i] # "callback"
  <2> DEFINE early == TRUE
  <2>1. early \in BOOLEAN OBVIOUS
  <2> HIDE DEF early
  <2> QED BY <2>1, WrittenSo
<1>5. Len(m.shifts) \in Nat /\ DOMAIN m.shifts = 1 .. Len(m.shifts) BY TablesAreLists
<1>6. \E j \in DOMAIN m.shifts : m.shifts[j].at = m.formals[k + 1] BY EarlyIsLookedFor
<1>7. k + 1 \in 1 .. n BY <1>1, <1>2
<1> HIDE DEF m, b, n
<1>8. b[m.formals[k + 1]] = "callback" BY <1>2, <1>3, <1>7
<1>9. PICK hit \in DOMAIN m.shifts :
        /\ b[m.shifts[hit].at] = "callback"
        /\ r = Assigned([b EXCEPT !.callback = "callback"], m.shifts[hit].sets)
  BY <1>5, <1>6, <1>8, FirstHit
<1> DEFINE shift == m.shifts[hit]
<1>10. PICK i \in DOMAIN m.formals :
        /\ shift.at = m.formals[i] /\ shift.at \in DOMAIN shift.sets
        /\ \A f \in DOMAIN shift.sets :
            /\ \E l \in DOMAIN m.formals : i <= l /\ f = m.formals[l]
            /\ \/ shift.sets[f] \in Nothing /\ f \in m.optional
               \/ shift.sets[f] = "zero" /\ f = "beforeNanos"
  BY ShiftsClear DEF m
<1>11. i = k + 1
  <2>1. b[m.formals[i]] = "callback" BY <1>9, <1>10
  <2>2. i \in 1 .. n BY <1>1, <1>10
  <2>3. CASE i \in 1 .. k BY <1>3, <1>4, <2>1, <2>3
  <2>4. CASE i \in k + 1 .. n /\ i # k + 1 BY <1>3, <2>1, <2>4
  <2> QED BY <1>2, <2>2, <2>3, <2>4
<1>12. /\ DOMAIN r = ToSet(m.formals) \cup {"callback"}
       /\ \A f \in ToSet(m.formals) \cup {"callback"} :
            r[f] = IF f \in DOMAIN shift.sets THEN shift.sets[f]
                   ELSE IF f = "callback" THEN "callback" ELSE b[f]
  BY <1>3, <1>9 DEF Assigned
<1>13. \A l \in 1 .. k : r[m.formals[l]] = s[l]
  <2> SUFFICES ASSUME NEW l \in 1 .. k PROVE r[m.formals[l]] = s[l] OBVIOUS
  <2>1. l \in 1 .. n /\ l < i BY <1>1, <1>2, <1>11
  <2>2. m.formals[l] \notin DOMAIN shift.sets BY <1>1, <1>10, <2>1
  <2> QED BY <1>1, <1>3, <1>12, <2>1, <2>2
<1>14. ASSUME NEW l \in k + 1 .. n PROVE Stands(m, m.formals[l], r[m.formals[l]])
  <2>1. l \in 1 .. n /\ l \in DOMAIN m.formals /\ l > k /\ k \in Nat BY <1>1, <1>2
  <2>2. CASE m.formals[l] \in DOMAIN shift.sets
    <3>1. r[m.formals[l]] = shift.sets[m.formals[l]] BY <1>1, <1>12, <2>1, <2>2
    <3> QED BY <1>10, <2>2, <3>1 DEF Stands
  <2>3. CASE m.formals[l] \notin DOMAIN shift.sets
    <3>1. l # i BY <1>10, <2>3
    <3>2. r[m.formals[l]] = "undefined" BY <1>1, <1>3, <1>11, <1>12, <2>1, <2>3, <3>1
    <3>3. \E j \in DOMAIN m.shifts : m.shifts[j].at = m.formals[k + 1]
                                     /\ m.formals[l] \notin DOMAIN m.shifts[j].sets
      BY <1>9, <1>10, <1>11, <2>3
    <3>4. m.formals[l] \in m.optional BY <2>1, <3>3, LeftOut DEF m
    <3> QED BY <3>2, <3>4 DEF Stands, Nothing
  <2> QED BY <2>2, <2>3
<1>15. r.callback = "callback"
  <2>1. "callback" \notin DOMAIN shift.sets BY <1>1, <1>10
  <2>2. r["callback"] = "callback" BY <1>12, <2>1
  <2> QED BY <2>2
<1> QED BY <1>12, <1>13, <1>14, <1>15 DEF m, b, n

\* However a documented call that is not misread is written, its arguments end
\* up in the parameters they were given for.
LEMMA ShiftedIsMeant ==
    ASSUME NEW name \in DOMAIN Methods, NEW actuals \in Documented(name),
           actuals \notin Skipping(name),
           name = "QueryOperate" => ~Misread(name, actuals)
    PROVE  LET m == Methods[name]
               r == Shifted(m, Bound(m, actuals))
           IN  Meant(m, actuals, r) /\ InPosition(m, actuals, r)
<1> DEFINE m == Methods[name]
           n == Len(m.formals)
           r == Shifted(m, Bound(m, actuals))
<1>0. PICK k \in 0 .. n :
        \E s : /\ IsGiven(m, k, s)
               /\ \/ actuals = s /\ k >= m.least
                  \/ actuals = Append(s, "callback") /\ k \in m.early
  BY DocumentedForms
<1>1. PICK s : /\ IsGiven(m, k, s)
               /\ \/ actuals = s /\ k >= m.least
                  \/ actuals = Append(s, "callback") /\ k \in m.early
  BY <1>0
<1>2. /\ n \in Nat /\ DOMAIN m.formals = 1 .. n
  BY ParametersOf
<1>3. PICK early \in BOOLEAN : /\ actuals = Written(s, early)
                               /\ IF early THEN k \in m.early ELSE k >= m.least
  BY <1>1 DEF Written
<1>4. /\ DOMAIN Bound(m, actuals) = ToSet(m.formals) \cup {"callback"}
      /\ \A i \in 1 .. k : Bound(m, actuals)[m.formals[i]] = s[i]
      /\ \A i \in k + 1 .. n :
            Bound(m, actuals)[m.formals[i]] = IF early /\ i = k + 1 THEN "callback" ELSE "undefined"
      /\ Bound(m, actuals).callback = IF early /\ k = n THEN "callback" ELSE "undefined"
  <2> DEFINE e == Bound(m, Written(s, early))
  <2>1. /\ DOMAIN e = ToSet(m.formals) \cup {"callback"}
        /\ \A i \in 1 .. k : e[m.formals[i]] = s[i]
        /\ \A i \in k + 1 .. n :
            e[m.formals[i]] = IF early /\ i = k + 1 THEN "callback" ELSE "undefined"
        /\ e.callback = IF early /\ k = n THEN "callback" ELSE "undefined"
    <3>1. IsBound(Methods[name], k, s, early, Bound(Methods[name], Written(s, early)))
      BY <1>1, BoundForms
    <3> QED BY <3>1 DEF IsBound
  <2>2. Bound(m, actuals) = e BY <1>3
  <2> HIDE DEF e
  <2> QED BY <2>1, <2>2
<1>5. \A i \in 1 .. k : s[i] # "callback" BY <1>1, <1>3, WrittenSo
<1>6. CASE ~early \/ k = n
  <2>1. \A i \in DOMAIN m.formals : Bound(m, actuals)[m.formals[i]] # "callback"
    <3> SUFFICES ASSUME NEW i \in 1 .. n PROVE Bound(m, actuals)[m.formals[i]] # "callback" BY <1>2
    <3>1. CASE i \in 1 .. k BY <1>4, <1>5, <3>1
    <3>2. CASE i \in k + 1 .. n BY <1>2, <1>4, <1>6, <3>2
    <3> QED BY <1>2, <3>1, <3>2
  <2>2. r = Bound(m, actuals) BY <2>1, NothingIsShifted
  <2>3. \A i \in k + 1 .. n : Stands(m, m.formals[i], r[m.formals[i]])
    <3> SUFFICES ASSUME NEW i \in k + 1 .. n PROVE Stands(m, m.formals[i], r[m.formals[i]]) OBVIOUS
    <3>1. ~early BY <1>2, <1>6
    <3>2. r[m.formals[i]] = "undefined" BY <1>4, <2>2, <3>1
    <3>3. i \in DOMAIN m.formals /\ i > k /\ k >= m.least /\ k \in Nat BY <1>2, <1>3, <3>1
    <3>4. m.formals[i] \in m.optional BY <3>3, LeftOut
    <3> QED BY <3>2, <3>4 DEF Stands, Nothing
  <2>4. r.callback = IF early THEN "callback" ELSE "undefined" BY <1>4, <1>6, <2>2
  <2>5. /\ DOMAIN r = ToSet(m.formals) \cup {"callback"}
        /\ \A i \in 1 .. k : r[m.formals[i]] = s[i]
    BY <1>4, <2>2
  <2> HIDE DEF r
  <2>6. Meant(m, Written(s, early), r) /\ InPosition(m, Written(s, early), r)
    BY <1>1, <2>3, <2>4, <2>5, PositionIsMeant
  <2> QED BY <1>3, <2>6 DEF r
<1>7. CASE early /\ k < n
  <2>1. name # "QueryOperate"
    <3> SUFFICES ASSUME name = "QueryOperate" PROVE FALSE OBVIOUS
    <3>1. n = 3 BY EarlyIsLookedFor
    <3>2. /\ Len(actuals) = k + 1 /\ DOMAIN actuals = 1 .. k + 1
          /\ actuals[k + 1] = "callback"
      <4>1. LET a == Written(s, early)
            IN  /\ Len(a) = IF early THEN k + 1 ELSE k
                /\ DOMAIN a = IF early THEN 1 .. k + 1 ELSE 1 .. k
                /\ early => a[k + 1] = "callback"
        BY <1>1, WrittenSo
      <4> QED BY <1>3, <1>7, <4>1
    <3>3. Len(actuals) < 4 BY <1>7, <3>1, <3>2
    <3>4. k + 1 \in DOMAIN actuals BY <3>2
    <3>5. "callback" \in ToSet(actuals) BY <3>2, <3>4 DEF ToSet
    <3> QED BY <3>3, <3>5 DEF Misread
  <2>2. actuals = Written(s, TRUE) /\ k \in m.early BY <1>3, <1>7
  <2>3. /\ DOMAIN r = ToSet(m.formals) \cup {"callback"}
        /\ \A i \in 1 .. k : r[m.formals[i]] = s[i]
        /\ \A i \in k + 1 .. n : Stands(m, m.formals[i], r[m.formals[i]])
        /\ r.callback = "callback"
    <3> DEFINE e == Shifted(m, Bound(m, Written(s, TRUE)))
    <3>1. /\ DOMAIN e = ToSet(m.formals) \cup {"callback"}
          /\ \A i \in 1 .. k : e[m.formals[i]] = s[i]
          /\ \A i \in k + 1 .. n : Stands(m, m.formals[i], e[m.formals[i]])
          /\ e.callback = "callback"
      BY <1>1, <1>7, <2>1, <2>2, EarlyIsShifted
    <3>2. r = e BY <2>2
    <3> HIDE DEF r, e
    <3> QED BY <3>1, <3>2
  <2> HIDE DEF r
  <2>4. r.callback = IF early THEN "callback" ELSE "undefined" BY <1>7, <2>3
  <2>5. Meant(m, Written(s, early), r) /\ InPosition(m, Written(s, early), r)
    BY <1>1, <2>3, <2>4, PositionIsMeant
  <2> QED BY <1>3, <2>5 DEF r
<1> QED BY <1>1, <1>2, <1>6, <1>7

\* udfRegister() with all before its policy.
LEMMA TypeIsNull ==
    ASSUME NEW actuals, NEW r, ~Misread("udfRegister", actuals), Len(actuals) \in Nat,
           DOMAIN actuals = 1 .. Len(actuals),
           Meant(Methods["udfRegister"], actuals, r), InPosition(Methods["udfRegister"], actuals, r)
    PROVE  Meant(Methods["udfRegister"], actuals, TypeOrPolicy(r))
<1> DEFINE m == Methods["udfRegister"]
           u == TypeOrPolicy(r)
<1>1. m.formals = <<"udfPath", "udfType", "policy">> /\ m.optional = {"udfType", "policy"}
  BY UdfRegisterIsSo
<1>2. ToSet(m.formals) = {"udfPath", "udfType", "policy"} /\ DOMAIN m.formals = {1, 2, 3}
  <2>1. ToSet(m.formals) = {m.formals[i] : i \in DOMAIN m.formals} BY DEF ToSet
  <2>2. DOMAIN m.formals = {1, 2, 3} BY <1>1
  <2>3. m.formals[1] = "udfPath" /\ m.formals[2] = "udfType" /\ m.formals[3] = "policy" BY <1>1
  <2> QED BY <2>1, <2>2, <2>3
<1>3. m.formals[1] = "udfPath" /\ m.formals[2] = "udfType" /\ m.formals[3] = "policy" BY <1>1
<1> HIDE DEF m
<1>4. /\ DOMAIN r = {"udfPath", "udfType", "policy", "callback"}
      /\ \A f \in {"udfPath", "udfType", "policy"} : Stands(m, f, r[f])
      /\ \A value \in ToSet(actuals) :
            value \in Nothing \cup {"callback"}
            \/ (value \in {"udfPath", "udfType", "policy"} /\ r[value] = value)
      /\ r["callback"] = "callback" <=> "callback" \in ToSet(actuals)
  BY <1>2 DEF Meant, m
<1>5. CASE r["udfType"] \notin {"policy", "null"}
  <2>1. u = r BY <1>5 DEF TypeOrPolicy
  <2> QED BY <2>1
<1>6. CASE r["udfType"] \in {"policy", "null"}
  <2>1. r["udfType"] = "null" BY <1>4, <1>6 DEF Stands, Nothing
  <2>2. u = [r EXCEPT !["policy"] = "null", !["udfType"] = "null"] BY <2>1 DEF TypeOrPolicy
  <2> HIDE DEF u
  <2>3. /\ DOMAIN u = {"udfPath", "udfType", "policy", "callback"}
        /\ u["udfPath"] = r["udfPath"] /\ u["udfType"] = "null" /\ u["policy"] = "null"
        /\ u["callback"] = r["callback"]
    BY <1>4, <2>2
  <2>4. \A f \in {"udfPath", "udfType", "policy"} : Stands(m, f, u[f])
    <3>1. Stands(m, "udfPath", u["udfPath"]) BY <1>4, <2>3
    <3>2. Stands(m, "udfType", u["udfType"]) /\ Stands(m, "policy", u["policy"])
      BY <1>1, <2>3 DEF Stands, Nothing, m
    <3> QED BY <3>1, <3>2
  <2>5. "policy" \notin ToSet(actuals)
    <3> SUFFICES ASSUME NEW i \in DOMAIN actuals, actuals[i] = "policy" PROVE FALSE BY DEF ToSet
    <3>1. i \in {1, 2, 3} /\ r[m.formals[i]] = "policy" BY <1>2 DEF InPosition, m
    <3>2. i = 3
      <4>1. r["udfPath"] # "policy" BY <1>1, <1>4 DEF Stands, Nothing, m
      <4> QED BY <1>3, <2>1, <3>1, <4>1
    <3>3. 2 \in DOMAIN actuals /\ Len(actuals) >= 3 BY <3>2
    <3>4. actuals[2] = "null"
      <4>1. actuals[2] # "callback" BY <3>3 DEF InPosition
      <4>2. r[m.formals[2]] = actuals[2] BY <3>3, <4>1 DEF InPosition, m
      <4> QED BY <1>3, <2>1, <4>2
    <3> QED BY <3>2, <3>3, <3>4 DEF Misread
  <2>6. "udfType" \notin ToSet(actuals) BY <1>4, <2>1 DEF Nothing
  <2>7. \A value \in ToSet(actuals) :
            value \in Nothing \cup {"callback"} \/ (value \in ToSet(m.formals) /\ u[value] = value)
    <3> SUFFICES ASSUME NEW value \in ToSet(actuals), value \notin Nothing \cup {"callback"}
                 PROVE  value \in ToSet(m.formals) /\ u[value] = value
      OBVIOUS
    <3>1. value = "udfPath" /\ r[value] = value BY <1>4, <2>5, <2>6
    <3> QED BY <1>2, <2>3, <3>1 DEF m
  <2>8. u.callback = "callback" <=> "callback" \in ToSet(actuals) BY <1>4, <2>3
  <2>9. DOMAIN u = ToSet(m.formals) \cup {"callback"} BY <1>2, <2>3 DEF m
  <2>10. \A f \in ToSet(m.formals) : Stands(m, f, u[f]) BY <1>2, <2>4 DEF m
  <2> QED BY <2>7, <2>8, <2>9, <2>10 DEF Meant, m, u
<1> QED BY <1>5, <1>6

\* udfRegister() with a policy right after the path.
LEMMA TypeIsSkipped ==
    ASSUME NEW actuals \in Skipping("udfRegister")
    PROVE  Meant(Methods["udfRegister"], actuals, Parameters("udfRegister", actuals))
<1> DEFINE m == Methods["udfRegister"]
           b == Bound(m, actuals)
           r == Shifted(m, b)
           u == TypeOrPolicy(r)
<1>1. m.formals = <<"udfPath", "udfType", "policy">> /\ m.optional = {"udfType", "policy"}
  BY UdfRegisterIsSo
<1>2. /\ DOMAIN m.shifts = {1, 2} /\ m.shifts[1].at = "udfType" /\ m.shifts[2].at = "policy"
      /\ m.shifts[2].sets = [f \in {"policy"} |-> "null"]
  BY UdfRegisterIsSo DEF Shift
<1>3. Len(m.shifts) \in Nat /\ DOMAIN m.shifts = 1 .. Len(m.shifts)
  <2>1. "udfRegister" \in DOMAIN Methods BY MethodsAreNamed
  <2> QED BY <2>1, TablesAreLists
<1>4. actuals = <<"udfPath", "policy">> \/ actuals = <<"udfPath", "policy", "callback">>
  BY DEF Skipping
<1>5. /\ DOMAIN b = ToSet(m.formals) \cup {"callback"}
      /\ \A i \in DOMAIN m.formals :
            b[m.formals[i]] = IF i <= Len(actuals) THEN actuals[i] ELSE "undefined"
      /\ b.callback = IF Len(m.formals) + 1 <= Len(actuals) THEN actuals[Len(m.formals) + 1]
                      ELSE "undefined"
  <2>1. "udfRegister" \in DOMAIN Methods BY MethodsAreNamed
  <2> HIDE DEF b, m
  <2> QED BY <2>1, BoundTo DEF b, m
<1>6. ToSet(m.formals) = {"udfPath", "udfType", "policy"}
  <2>1. ToSet(m.formals) = {m.formals[i] : i \in DOMAIN m.formals} BY DEF ToSet
  <2>2. DOMAIN m.formals = {1, 2, 3} BY <1>1
  <2>3. m.formals[1] = "udfPath" /\ m.formals[2] = "udfType" /\ m.formals[3] = "policy" BY <1>1
  <2> QED BY <2>1, <2>2, <2>3
<1> HIDE DEF m
<1>7. /\ DOMAIN b = {"udfPath", "udfType", "policy", "callback"}
      /\ b["udfPath"] = "udfPath" /\ b["udfType"] = "policy"
      /\ b["policy"] = IF Len(actuals) = 3 THEN "callback" ELSE "undefined"
      /\ b["callback"] = "undefined"
  <2>1. Len(actuals) \in {2, 3} /\ actuals[1] = "udfPath" /\ actuals[2] = "policy"
    BY <1>4
  <2>2. Len(actuals) = 3 => actuals[3] = "callback" BY <1>4
  <2>3. DOMAIN m.formals = {1, 2, 3} /\ Len(m.formals) = 3 BY <1>1
  <2>4. m.formals[1] = "udfPath" /\ m.formals[2] = "udfType" /\ m.formals[3] = "policy" BY <1>1
  <2> QED BY <1>5, <1>6, <2>1, <2>2, <2>3, <2>4
<1> HIDE DEF b
<1>8. /\ DOMAIN r = {"udfPath", "udfType", "policy", "callback"}
      /\ r["udfPath"] = "udfPath" /\ r["udfType"] = "policy" /\ r["policy"] \in Nothing
      /\ r["callback"] = IF Len(actuals) = 3 THEN "callback" ELSE "undefined"
  <2>1. CASE Len(actuals) = 3
    <3>1. PICK hit \in DOMAIN m.shifts :
            /\ b[m.shifts[hit].at] = "callback"
            /\ r = Assigned([b EXCEPT !.callback = "callback"], m.shifts[hit].sets)
      <4>1. 2 \in DOMAIN m.shifts /\ b[m.shifts[2].at] = "callback" BY <1>2, <1>7, <2>1
      <4> QED BY <1>3, <4>1, FirstHit
    <3>2. hit = 2 BY <1>2, <1>7, <3>1
    <3>3. r = Assigned([b EXCEPT !["callback"] = "callback"], [f \in {"policy"} |-> "null"])
      BY <1>2, <3>1, <3>2
    <3> QED BY <1>7, <2>1, <3>3 DEF Assigned, Nothing
  <2>2. CASE Len(actuals) # 3
    <3>1. \A j \in DOMAIN m.shifts : b[m.shifts[j].at] # "callback" BY <1>2, <1>7, <2>2
    <3>2. r = b BY <1>3, <3>1, FirstHit
    <3> QED BY <1>7, <2>2, <3>2 DEF Nothing
  <2> QED BY <2>1, <2>2
<1> HIDE DEF r
<1>9. u = [r EXCEPT !["policy"] = "policy", !["udfType"] = "null"] BY <1>8 DEF TypeOrPolicy
<1>10. /\ DOMAIN u = {"udfPath", "udfType", "policy", "callback"}
       /\ u["udfPath"] = "udfPath" /\ u["udfType"] = "null" /\ u["policy"] = "policy"
       /\ u["callback"] = IF Len(actuals) = 3 THEN "callback" ELSE "undefined"
  BY <1>8, <1>9
<1>11. ToSet(actuals) = {"udfPath", "policy"} \cup (IF Len(actuals) = 3 THEN {"callback"} ELSE {})
  <2>1. ToSet(actuals) = {actuals[i] : i \in DOMAIN actuals} BY DEF ToSet
  <2>2. CASE actuals = <<"udfPath", "policy">>
    <3>1. DOMAIN actuals = {1, 2} /\ Len(actuals) = 2 BY <2>2
    <3>2. actuals[1] = "udfPath" /\ actuals[2] = "policy" BY <2>2
    <3> QED BY <2>1, <3>1, <3>2
  <2>3. CASE actuals = <<"udfPath", "policy", "callback">>
    <3>1. DOMAIN actuals = {1, 2, 3} /\ Len(actuals) = 3 BY <2>3
    <3>2. actuals[1] = "udfPath" /\ actuals[2] = "policy" /\ actuals[3] = "callback" BY <2>3
    <3> QED BY <2>1, <3>1, <3>2
  <2> QED BY <1>4, <2>2, <2>3
<1>12. Parameters("udfRegister", actuals) = u BY DEF Parameters, m, b, r
<1> HIDE DEF u
<1>13. DOMAIN u = ToSet(m.formals) \cup {"callback"} BY <1>6, <1>10 DEF m
<1>14. \A f \in ToSet(m.formals) : Stands(m, f, u[f])
  <2>1. "udfType" \in m.optional BY <1>1 DEF m
  <2>2. Stands(m, "udfPath", u["udfPath"]) /\ Stands(m, "policy", u["policy"]) BY <1>10 DEF Stands
  <2>3. Stands(m, "udfType", u["udfType"]) BY <1>10, <2>1 DEF Stands, Nothing
  <2> QED BY <1>6, <2>2, <2>3 DEF m
<1>15. \A value \in ToSet(actuals) :
         value \in Nothing \cup {"callback"} \/ (value \in ToSet(m.formals) /\ u[value] = value)
  BY <1>6, <1>10, <1>11 DEF m
<1>16. u.callback = "callback" <=> "callback" \in ToSet(actuals)
  BY <1>10, <1>11
<1> QED BY <1>12, <1>13, <1>14, <1>15, <1>16 DEF Meant, m

LEMMA ParametersAreMeant ==
    ASSUME NEW name \in DOMAIN Methods, NEW actuals \in Documented(name), ~Misread(name, actuals)
    PROVE  Meant(Methods[name], actuals, Parameters(name, actuals))
<1>1. CASE actuals \in Skipping(name)
  <2>1. name = "udfRegister" BY <1>1 DEF Skipping
  <2> QED BY <1>1, <2>1, TypeIsSkipped
<1>2. CASE actuals \notin Skipping(name)
  <2> DEFINE r == Shifted(Methods[name], Bound(Methods[name], actuals))
  <2>1. Meant(Methods[name], actuals, r) /\ InPosition(Methods[name], actuals, r)
    BY <1>2, ShiftedIsMeant
  <2>2. CASE name # "udfRegister" BY <2>1, <2>2 DEF Parameters
  <2>3. CASE name = "udfRegister"
    <3>1. Len(actuals) \in Nat /\ DOMAIN actuals = 1 .. Len(actuals)
      <4>1. \E k, s : IsGiven(Methods[name], k, s) /\ actuals \in {s, Append(s, "callback")}
        BY <1>2, DocumentedForms
      <4>2. PICK s \in Seq(Values(Methods[name])) : actuals \in {s, Append(s, "callback")}
        BY <4>1 DEF IsGiven
      <4>3. "callback" \in Values(Methods[name]) BY DEF Values
      <4>4. actuals \in Seq(Values(Methods[name])) BY <4>2, <4>3
      <4> QED BY <4>4
    <3> HIDE DEF r
    <3>2. Meant(Methods[name], actuals, TypeOrPolicy(r)) BY <2>1, <2>3, <3>1, TypeIsNull
    <3> QED BY <2>3, <3>2 DEF Parameters, r
  <2> QED BY <2>2, <2>3
<1> QED BY <1>1, <1>2

\* What DocumentedCallsArrive says of a call, with what is checked.
Arrived(checks, actuals, sent) ==
    /\ Len(sent.args) = Len(checks)
    /\ \A i \in DOMAIN checks : Accepts(checks[i], sent.args[i]) /\ InPlace(checks[i], sent.args[i])
    /\ \A i \in DOMAIN actuals : Arrives(actuals[i], sent.args)
    /\ sent.callback <=> "callback" \in ToSet(actuals)

\* What the native method checks is what the parameters stand for.
LEMMA SentIsAccepted ==
    ASSUME NEW name \in DOMAIN Methods, NEW actuals, NEW bound,
           Meant(Methods[name], actuals, bound),
           NEW i \in DOMAIN Methods[name].sends
    PROVE  LET value == Argument(bound, Methods[name].sends[i])
           IN  Accepts(Checks(name)[i], value) /\ InPlace(Checks(name)[i], value)
<1> DEFINE m == Methods[name]
           v == m.sends[i]
           check == Checks(name)[i]
           value == Argument(bound, v)
<1>1. /\ v \in {check.name} \cup Nothing
      /\ v \in Nothing \cup m.optional \cup DOMAIN From => ~check.required
      /\ Is(check.name, check.sort) /\ check.name \notin Nothing \cup {"callback"}
      /\ check.name \in {"beforeNanos", "jobID"} => check.sort = "number"
      /\ v = "jobID" => "jobID" \in ToSet(m.formals)
  BY SentIsChecked
<1>2. /\ DOMAIN bound = ToSet(m.formals) \cup {"callback"}
      /\ \A f \in ToSet(m.formals) : Stands(m, f, bound[f])
  BY DEF Meant
<1>3. ToSet(m.formals) \cap (Nothing \cup DOMAIN From \cup {"callback"}) = {} BY ParametersAreNamed
<1>4. DOMAIN From = {"enableListener", "snapshotListener", "nodeCloseListener", "disableListener"}
  BY DEF From
<1> HIDE DEF m, v, check
<1>5. \/ value = check.name
      \/ value \in Nothing /\ ~check.required
      \/ value = "zero" /\ check.name = "beforeNanos"
      \/ value = "randomID" /\ check.name = "jobID"
  <2>1. CASE v \in Nothing
    <3>1. v # "jobID" /\ v \notin DOMAIN From /\ v # "callback" BY <1>4, <2>1 DEF Nothing
    <3>2. v \notin DOMAIN bound BY <1>2, <1>3, <2>1, <3>1
    <3>3. value = v BY <3>1, <3>2 DEF Argument
    <3>4. ~check.required BY <1>1, <2>1, Zenon
    <3> HIDE DEF value
    <3> QED BY <2>1, <3>3, <3>4, Zenon
  <2>2. CASE v = check.name /\ v \in ToSet(m.formals)
    <3>1. CASE v = "jobID" /\ bound[v] \in Nothing
      BY <2>2, <3>1 DEF Argument
    <3>2. CASE ~(v = "jobID" /\ bound[v] \in Nothing)
      <4>1. value = bound[v] BY <1>2, <2>2, <3>2 DEF Argument
      <4>2. \/ bound[v] = v \/ (bound[v] \in Nothing /\ v \in m.optional)
            \/ (bound[v] = "zero" /\ v = "beforeNanos")
        BY <1>2, <2>2 DEF Stands
      <4>3. v \in m.optional => ~check.required BY <1>1, Zenon
      <4> HIDE DEF value
      <4> QED BY <2>2, <4>1, <4>2, <4>3, Zenon
    <3> QED BY <3>1, <3>2
  <2>3. CASE v = check.name /\ v \notin ToSet(m.formals)
    <3>1. v # "jobID" /\ v \notin DOMAIN bound BY <1>1, <1>2, <2>3
    <3>2. value = v \/ (v \in DOMAIN From /\ value = "null") BY <3>1 DEF Argument
    <3>3. v \in DOMAIN From => ~check.required BY <1>1, Zenon
    <3>4. "null" \in Nothing BY DEF Nothing
    <3> HIDE DEF value
    <3> QED BY <2>3, <3>2, <3>3, <3>4, Zenon
  <2> QED BY <1>1, <2>1, <2>2, <2>3
<1> HIDE DEF value
<1>6. Accepts(check, value)
  <2>1. CASE value = check.name BY <1>1, <2>1 DEF Accepts
  <2>2. CASE value \in Nothing /\ ~check.required BY <2>2 DEF Accepts
  <2>3. CASE check.sort = "number" /\ value \in {"zero", "randomID"}
    BY <2>3 DEF Accepts, Is, Numbers
  <2> QED BY <1>1, <1>5, <2>1, <2>2, <2>3
<1>7. InPlace(check, value)
  <2>1. CASE value \in {check.name} \cup Nothing BY <2>1 DEF InPlace
  <2>2. CASE value = "zero" /\ check.name = "beforeNanos" BY <2>2 DEF InPlace
  <2>3. CASE value = "randomID" /\ check.name = "jobID" BY <2>3 DEF InPlace
  <2> QED BY <1>5, <2>1, <2>2, <2>3
<1> QED BY <1>6, <1>7 DEF m, v, check, value

\* What was given for a parameter is sent, or something that was read from it.
LEMMA GivenArrives ==
    ASSUME NEW name \in DOMAIN Methods, NEW actuals, NEW bound,
           Meant(Methods[name], actuals, bound),
           NEW args, NEW value \in ToSet(actuals),
           args = [i \in 1 .. Len(Methods[name].sends) |-> Argument(bound, Methods[name].sends[i])]
    PROVE  Arrives(value, args)
<1> DEFINE m == Methods[name]
<1>1. m.sends \in Seq(ToSet(m.sends)) BY TablesAreLists
<1>2. ToSet(m.sends) = {m.sends[i] : i \in DOMAIN m.sends} BY DEF ToSet
<1>3. ToSet(m.formals) \cap (Nothing \cup DOMAIN From \cup {"callback"}) = {} BY ParametersAreNamed
<1>4. /\ DOMAIN bound = ToSet(m.formals) \cup {"callback"}
      /\ value \in Nothing \cup {"callback"} \/ (value \in ToSet(m.formals) /\ bound[value] = value)
  BY DEF Meant
<1>5. value \in ToSet(m.formals) =>
        \/ value \in ToSet(m.sends)
        \/ /\ value \in DOMAIN ReadFrom /\ ReadFrom[value] \in ToSet(m.sends)
           /\ ReadFrom[value] \notin ToSet(m.formals)
  BY EveryParameterIsSent
<1>6. DOMAIN From = {"enableListener", "snapshotListener", "nodeCloseListener", "disableListener"}
  BY DEF From
<1>7. /\ DOMAIN ReadFrom = {"options", "node", "record"}
      /\ ReadFrom["options"] = "options.ns" /\ ReadFrom["node"] = "node.name"
      /\ ReadFrom["record"] = "operations"
  BY DEF ReadFrom
<1>8. args = [i \in DOMAIN m.sends |-> Argument(bound, m.sends[i])] BY <1>1
<1> HIDE DEF m
<1>9. \A v \in ToSet(m.sends) : Argument(bound, v) \in ToSet(args)
  <2> SUFFICES ASSUME NEW i \in DOMAIN m.sends PROVE Argument(bound, m.sends[i]) \in ToSet(args)
    BY <1>2
  <2>1. ToSet(args) = {args[l] : l \in DOMAIN args} BY DEF ToSet
  <2>2. i \in DOMAIN args /\ args[i] = Argument(bound, m.sends[i]) BY <1>8
  <2> QED BY <2>1, <2>2
<1>10. CASE value \in Nothing \cup {"callback"} BY <1>10 DEF Arrives
<1>11. CASE value \in ToSet(m.formals) /\ bound[value] = value
  <2>1. value \notin Nothing /\ value \in DOMAIN bound BY <1>3, <1>4, <1>11
  <2>2. CASE value \in ToSet(m.sends)
    <3>1. Argument(bound, value) = value BY <1>11, <2>1 DEF Argument
    <3> QED BY <1>9, <2>2, <3>1 DEF Arrives
  <2>3. CASE /\ value \in DOMAIN ReadFrom /\ ReadFrom[value] \in ToSet(m.sends)
             /\ ReadFrom[value] \notin ToSet(m.formals)
    <3> DEFINE v == ReadFrom[value]
    <3>1. v \in {"options.ns", "node.name", "operations"} BY <1>7, <2>3
    <3>2. v \notin DOMAIN bound /\ v \notin DOMAIN From /\ v # "jobID" BY <1>4, <1>6, <2>3, <3>1
    <3>3. Argument(bound, v) = v BY <3>2 DEF Argument
    <3>4. v \in ToSet(args) BY <1>9, <2>3, <3>3
    <3> QED BY <1>7, <2>3, <3>4 DEF Arrives
  <2> QED BY <1>5, <1>11, <2>2, <2>3
<1> QED BY <1>4, <1>10, <1>11

\* However a documented call is written, what is sent for it arrives.
LEMMA SentArrives ==
    ASSUME NEW name \in DOMAIN Methods, NEW actuals \in Documented(name), ~Misread(name, actuals)
    PROVE  Arrived(Checks(name), actuals, Sent(name, actuals))
<1> DEFINE m == Methods[name]
           bound == Parameters(name, actuals)
           args == [i \in 1 .. Len(m.sends) |-> Argument(bound, m.sends[i])]
<1>1. Meant(m, actuals, bound) BY ParametersAreMeant
<1>2. Sent(name, actuals) = [args |-> args, callback |-> bound.callback = "callback"] BY DEF Sent
<1>3. /\ m.sends \in Seq(ToSet(m.sends))
      /\ Len(Checks(name)) = Len(m.sends) /\ DOMAIN Checks(name) = DOMAIN m.sends
  BY TablesAreLists
<1>4. \A i \in DOMAIN m.sends : Accepts(Checks(name)[i], Argument(bound, m.sends[i]))
                                /\ InPlace(Checks(name)[i], Argument(bound, m.sends[i]))
  <2> HIDE DEF bound
  <2> QED BY <1>1, SentIsAccepted
<1>5. \A value \in ToSet(actuals) : Arrives(value, args)
  <2> HIDE DEF bound
  <2> QED BY <1>1, GivenArrives
<1>6. \A i \in DOMAIN actuals : actuals[i] \in ToSet(actuals) BY DEF ToSet
<1>7. bound.callback = "callback" <=> "callback" \in ToSet(actuals) BY <1>1 DEF Meant
<1> HIDE DEF m, bound
<1>8. /\ DOMAIN m.sends = 1 .. Len(m.sends) /\ Len(m.sends) \in Nat /\ Len(args) = Len(m.sends)
      /\ \A i \in DOMAIN m.sends : args[i] = Argument(bound, m.sends[i])
  BY <1>3
<1> HIDE DEF args
<1> DEFINE sent == Sent(name, actuals)
<1>9. sent.args = args /\ sent.callback = (bound.callback = "callback") BY <1>2
<1> HIDE DEF sent
<1>10. Len(sent.args) = Len(Checks(name)) BY <1>3, <1>8, <1>9
<1>11. \A i \in DOMAIN Checks(name) :
         Accepts(Checks(name)[i], sent.args[i]) /\ InPlace(Checks(name)[i], sent.args[i])
  BY <1>3, <1>4, <1>8, <1>9
<1>12. \A i \in DOMAIN actuals : Arrives(actuals[i], sent.args) BY <1>5, <1>6, <1>9
<1>13. sent.callback <=> "callback" \in ToSet(actuals) BY <1>7, <1>9, Zenon
<1> QED BY <1>10, <1>11, <1>12, <1>13, Zenon DEF Arrived, sent

\* Client.query() and scan(), and the object they make.
StreamChecks == <<Req("ns", "string"), Opt("set", "string"), Opt("options", "object")>>

LEMMA CreationArrives ==
    ASSUME NEW kind \in {"query", "scan"}, NEW actuals \in Creations(kind), ~Misread(kind, actuals)
    PROVE  Arrived(StreamChecks, actuals, [args |-> Constructed(actuals), callback |-> FALSE])
<1> DEFINE args == Constructed(actuals)
<1>1. /\ Len(actuals) \in {1, 2, 3} /\ DOMAIN actuals = 1 .. Len(actuals) /\ actuals[1] = "ns"
      /\ Len(actuals) > 1 => actuals[2] \in {"set", "options", "null"}
      /\ Len(actuals) > 2 => actuals[2] \in {"set", "null"} /\ actuals[3] = "options"
      /\ Len(actuals) > 1 /\ actuals[2] = "null" => kind = "query"
  BY DEF Creations
<1>2. Len(actuals) = 3 => actuals[2] = "set" BY <1>1 DEF Misread
<1>3. /\ DOMAIN args = {1, 2, 3} /\ Len(args) = 3 /\ args[1] = "ns"
      /\ args[2] \in {"set", "null"} /\ args[3] \in {"options", "null"}
      /\ Len(actuals) > 1 /\ actuals[2] = "set" => args[2] = "set"
      /\ Len(actuals) = 2 /\ actuals[2] = "options" => args[3] = "options"
      /\ Len(actuals) = 3 => args[3] = "options"
  BY <1>1, <1>2 DEF Constructed
<1> HIDE DEF args
<1>4. /\ DOMAIN StreamChecks = {1, 2, 3} /\ Len(StreamChecks) = 3
      /\ StreamChecks[1] = Req("ns", "string") /\ StreamChecks[2] = Opt("set", "string")
      /\ StreamChecks[3] = Opt("options", "object")
  BY DEF StreamChecks
<1>5. \A i \in DOMAIN StreamChecks :
        Accepts(StreamChecks[i], args[i]) /\ InPlace(StreamChecks[i], args[i])
  <2>1. Accepts(StreamChecks[1], args[1]) /\ InPlace(StreamChecks[1], args[1])
    BY <1>3, <1>4 DEF Accepts, Is, Strings, InPlace, Req
  <2>2. Accepts(StreamChecks[2], args[2]) /\ InPlace(StreamChecks[2], args[2])
    BY <1>3, <1>4 DEF Accepts, Is, Strings, InPlace, Opt, Nothing
  <2>3. Accepts(StreamChecks[3], args[3]) /\ InPlace(StreamChecks[3], args[3])
    BY <1>3, <1>4 DEF Accepts, Is, Strings, Numbers, InPlace, Opt, Nothing
  <2> QED BY <1>4, <2>1, <2>2, <2>3
<1>6. ToSet(args) = {args[1], args[2], args[3]} BY <1>3 DEF ToSet
<1>7. \A i \in DOMAIN actuals : Arrives(actuals[i], args)
  BY <1>1, <1>2, <1>3, <1>6 DEF Arrives, Nothing
<1>8. "callback" \notin ToSet(actuals)
  <2>1. \A i \in DOMAIN actuals : actuals[i] # "callback" BY <1>1
  <2> QED BY <2>1 DEF ToSet
<1> QED BY <1>3, <1>4, <1>5, <1>7, <1>8 DEF Arrived, args

\* The latest call was a documented one, and what was sent for it is what its
\* method makes of it.
CallShape ==
    \/ call = NoCall
    \/ \E name \in DOMAIN Methods : \E actuals \in Documented(name) :
            call = [method |-> name, actuals |-> actuals, sent |-> Sent(name, actuals)]
    \/ \E kind \in {"query", "scan"} : \E actuals \in Creations(kind) :
            call = [method |-> kind, actuals |-> actuals,
                    sent |-> [args |-> Constructed(actuals), callback |-> FALSE]]

LEMMA ShapeArrives == CallShape => DocumentedCallsArrive
<1> SUFFICES ASSUME CallShape, call # NoCall, ~Misread(call.method, call.actuals)
             PROVE  LET checks == IF call.method \in DOMAIN Methods
                                  THEN Native[Methods[call.method].native] ELSE StreamChecks
                    IN  Arrived(checks, call.actuals, call.sent)
  BY DEF DocumentedCallsArrive, Arrived, StreamChecks
<1>1. ASSUME NEW name \in DOMAIN Methods, NEW actuals \in Documented(name),
             call = [method |-> name, actuals |-> actuals, sent |-> Sent(name, actuals)]
      PROVE  /\ call.method \in DOMAIN Methods
             /\ Arrived(Native[Methods[call.method].native], call.actuals, call.sent)
  <2>1. call.method = name /\ call.actuals = actuals /\ call.sent = Sent(name, actuals) BY <1>1
  <2>2. Arrived(Checks(name), actuals, Sent(name, actuals)) BY <2>1, SentArrives
  <2> QED BY <2>1, <2>2 DEF Checks
<1>2. ASSUME NEW kind \in {"query", "scan"}, NEW actuals \in Creations(kind),
             call = [method |-> kind, actuals |-> actuals,
                     sent |-> [args |-> Constructed(actuals), callback |-> FALSE]]
      PROVE  /\ call.method \notin DOMAIN Methods
             /\ Arrived(StreamChecks, call.actuals, call.sent)
  <2>1. /\ call.method = kind /\ call.actuals = actuals
        /\ call.sent = [args |-> Constructed(actuals), callback |-> FALSE]
    BY <1>2
  <2>2. Arrived(StreamChecks, actuals, [args |-> Constructed(actuals), callback |-> FALSE])
    BY <2>1, CreationArrives
  <2> QED BY <2>1, <2>2, MethodsAreNamed
<1> QED BY <1>1, <1>2 DEF CallShape

\* Every parameter given as itself is one of the documented forms.
LEMMA AllGiven ==
    ASSUME NEW name \in DOMAIN Methods PROVE Methods[name].formals \in Documented(name)
<1> DEFINE m == Methods[name]
           n == Len(m.formals)
           t == [i \in 1 .. n |-> "itself"]
           Form(i, f) == IF f = "itself" THEN m.formals[i] ELSE f
<1>1. /\ m.formals \in Seq(ToSet(m.formals)) /\ n \in Nat /\ DOMAIN m.formals = 1 .. n
  BY ParametersOf
<1>2. n \in m.least .. n
  <2>1. m.least \in 0 .. n BY ParametersAreNamed
  <2> QED BY <1>1, <2>1
<1>3. m.formals \in Given(m, n)
  <2>1. t \in [1 .. n -> Nothing \cup {"itself"}] /\ \A i \in 1 .. n : t[i] = "itself" OBVIOUS
  <2>2. m.formals = [i \in 1 .. n |-> Form(i, t[i])] BY <1>1
  <2> QED BY <2>1, <2>2 DEF Given
<1> QED BY <1>2, <1>3 DEF Documented

LEMMA NextCallShape == CallShape /\ [Next]_vars => CallShape'
<1> SUFFICES ASSUME CallShape, [Next]_vars PROVE CallShape' OBVIOUS
<1>1. ASSUME NEW name \in DOMAIN Methods, NEW actuals \in Documented(name), Calls(name, actuals)
      PROVE  CallShape'
  BY <1>1 DEF Calls, CallShape
<1>2. ASSUME NEW name \in DOMAIN Methods, NEW untouched, NEW actuals \in Forms(name, untouched)
      PROVE  actuals \in Documented(name)
  BY <1>2, AllGiven DEF Forms, DocumentedCalls
<1>3. call' = NoCall => CallShape' BY DEF CallShape, NoCall
<1>4. CASE NextClient
  <2>1. ASSUME NEW name \in ClientMethodNames, NEW actuals \in DocumentedCalls[name],
               ClientCall(name, actuals)
        PROVE  CallShape'
    <3>1. name \in DOMAIN Methods BY DEF ClientMethodNames
    <3> QED BY <1>1, <2>1, <3>1 DEF DocumentedCalls, ClientCall
  <2>2. ASSUME NEW name \in IndexMethods, NEW untouched, NEW actuals \in Forms(name, untouched),
               IndexCall(name, actuals)
        PROVE  CallShape'
    <3>1. name \in DOMAIN Methods BY MethodsAreNamed
    <3> QED BY <1>1, <1>2, <2>2, <3>1 DEF IndexCall
  <2>3. ASSUME NEW index, NextIndex(index) PROVE CallShape'
    BY <1>3, <2>3 DEF NextIndex, Quiet
  <2> QED BY <1>4, <2>1, <2>2, <2>3 DEF NextClient
<1>5. CASE NextObject
  <2>1. ASSUME NEW kind \in {"query", "scan"}, NEW actuals \in Creations(kind), NEW chosen,
               Create(kind, actuals, chosen)
        PROVE  CallShape'
    BY <2>1 DEF Create, CallShape
  <2>2. ASSUME \/ \E p \in Predicates, by \in Wheres : Where(p, by) \/ WhereElsewhere(p, by)
               \/ \E udf \in Udfs : SetUdf(udf)
               \/ \E state \in BOOLEAN : NextPage(state)
               \/ Foreach
        PROVE  CallShape'
    BY <1>3, <2>2 DEF Where, WhereElsewhere, SetUdf, NextPage, Foreach, Quiet
  <2>3. ASSUME NEW actuals \in Forms("QueryApply", Untouched), NEW udf, QueryApplyCall(actuals, udf)
        PROVE  CallShape'
    <3>1. "QueryApply" \in DOMAIN Methods BY MethodsAreNamed DEF ObjectMethods
    <3> QED BY <1>1, <1>2, <2>3, <3>1 DEF QueryApplyCall
  <2>4. ASSUME NEW kind \in {"query", "scan"}
        PROVE  BackgroundOf(kind) \in DOMAIN Methods /\ OperateOf(kind) \in DOMAIN Methods
    BY MethodsAreNamed DEF ObjectMethods, BackgroundOf, OperateOf
  <2>5. ASSUME NEW kind \in {"query", "scan"}, NEW actuals \in Forms(BackgroundOf(kind), Untouched),
               NEW udf, BackgroundCall(kind, actuals, udf)
        PROVE  CallShape'
    <3>1. Calls(BackgroundOf(kind), actuals) BY <2>5 DEF BackgroundCall, Requesting
    <3> QED BY <1>1, <1>2, <2>4, <3>1
  <2>6. ASSUME NEW kind \in {"query", "scan"}, NEW actuals \in Forms(OperateOf(kind), Untouched),
               NEW ops, OperateCall(kind, actuals, ops)
        PROVE  CallShape'
    <3>1. Calls(OperateOf(kind), actuals) BY <2>6 DEF OperateCall, Requesting
    <3> QED BY <1>1, <1>2, <2>4, <3>1
  <2> QED BY <1>5, <2>1, <2>2, <2>3, <2>5, <2>6 DEF NextObject
<1>6. CASE \E i \in DOMAIN requests : Answer(i) BY <1>3, <1>6 DEF Answer, Quiet
<1>7. CASE UNCHANGED vars BY <1>7 DEF vars, CallShape
<1> QED BY <1>4, <1>5, <1>6, <1>7 DEF Next

-------------------------------------------------------------------------------
(* The theorems                                                            *)

\* The options, the object, the predicates and the requests are always what the
\* methods of lib/query.js, lib/scan.js and lib/client.js make of them.
THEOREM TypeCorrect == Spec => []TypeOK
<1>1. IInv => TypeOK BY DEF IInv
<1> QED BY <1>1, Invariance, PTL

\* A native method reads the UDF or operations of the call it was made by from
\* the query or scan, whatever earlier calls left there; no UDF when records are
\* streamed; and the filter as the last where*() meant it.
THEOREM RequestsAreSound == Spec => []RequestsAreTheirOwn
<1>1. IInv => RequestsAreTheirOwn BY DEF IInv
<1> QED BY <1>1, Invariance, PTL

\* The job that convertResult makes late, from the query, scan or options as they
\* are when the answer comes, is that of the request, if nothing was changed since.
THEOREM JobsAreSound == Spec => []JobIsOfItsRequest
<1>1. IInv => JobIsOfItsRequest BY DEF IInv
<1> QED BY <1>1, Invariance, PTL

\* However a documented call of a method of Client, Query or Scan is written, the
\* native method accepts what it is given, every argument arrives in its place and
\* the answer goes to the callback if there is one.
THEOREM CallsArrive == Spec => []DocumentedCallsArrive
<1>1. Init => CallShape BY DEF Init, CallShape
<1>2. Spec => []CallShape BY <1>1, NextCallShape, PTL DEF Spec
<1> QED BY <1>2, ShapeArrives, PTL
===============================================================================
