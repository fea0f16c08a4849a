------------------------- MODULE RecordStream_proofs -------------------------
(***************************************************************************)
(* Proofs about RecordStream, for any set of records, any page size and    *)
(* any number of streams.                                                  *)
(*                                                                         *)
(* Until something is aborted, one stream at a time is scanning, and it is *)
(* the latest; what it has passed is what the application was given, but   *)
(* for what a failed page gave without saving its progress.                *)
(***************************************************************************)
EXTENDS RecordStream, FiniteSetTheorems, TLAPS

\* What waits for node is an 'end' of an aborted stream, the error of a
\* foreach() that failed, or the callback of one that was refused.
TicksMatch ==
    \A i \in DOMAIN ticks :
        LET s == ticks[i][1] IN
        /\ ticks[i][2] = "end" => aborted[s]
        /\ ticks[i][2] = "error" => scan[s].at = "failed"

\* Only pages leave progress behind.
ProgressOfPages == ~Paginated => scanState = <<>>

Scanning(s) == scan[s].at = "scanning"

\* Nothing happens to a stream before its foreach().
Fresh == \A s \in Streams : scan[s].at = "none" => ~aborted[s] /\ ~Finished(s)

OneAtATime == NobodyAborted => \A s \in Streams : Scanning(s) => current = <<s>> /\ ~Finished(s)

PassedWasGiven == NobodyAborted => \A s \in Streams : Scanning(s) => scan[s].passed \subseteq seen

\* While no page fails, what was given is what was passed, or saved.
GivenWasPassed ==
    NobodyAborted /\ NobodyFailed =>
        /\ \A s \in Streams : Scanning(s) => scan[s].passed = seen
        /\ scanState # <<>> /\ (\A s \in Streams : ~Scanning(s)) => scanState[1] = seen

IInv ==
    TypeOK /\ TicksMatch /\ ProgressOfPages /\ Fresh /\ OneAtATime /\ PassedWasGiven
    /\ NothingSkipped /\ GivenWasPassed

USE SetsAssumption, PageAssumption, AbortsAssumption

Scans == [at : {"none", "refused", "failed", "scanning", "over"},
          passed : SUBSET Records, count : Nat, object : {"none", "held", "freed"}]

\* One record more, and the record at which the scan is over.
LEMMA PassedIsScan ==
    ASSUME NEW old \in Scans, NEW r \in Records
    PROVE  /\ WithRecord(old, r) \in Scans /\ WithRecord(old, r).at = old.at
           /\ WithRecord(old, r).passed = old.passed \cup {r}
<1>1. ASSUME NEW p \in SUBSET Records, NEW n \in Nat
      PROVE  LET new == [old EXCEPT !.passed = p, !.count = n]
             IN  new \in Scans /\ new.at = old.at /\ new.passed = p
  BY DEF Scans
<1>2. old.passed \cup {r} \in SUBSET Records /\ old.count + 1 \in Nat BY DEF Scans
<1> QED BY <1>1, <1>2 DEF WithRecord

LEMMA LastIsScan ==
    ASSUME NEW old \in Scans
    PROVE  AtRecord(old) \in Scans /\ AtRecord(old).at = "over"
<1>1. ASSUME NEW n \in Nat
      PROVE  LET new == [old EXCEPT !.at = "over", !.count = n]
             IN  new \in Scans /\ new.at = "over"
  BY DEF Scans
<1>2. old.count + 1 \in Nat BY DEF Scans
<1> QED BY <1>1, <1>2 DEF AtRecord

\* The scan of one stream is replaced.
LEMMA ScanReplaced ==
    ASSUME NEW f \in [Streams -> Scans], NEW s \in Streams, NEW new \in Scans
    PROVE  /\ [f EXCEPT ![s] = new] \in [Streams -> Scans] /\ [f EXCEPT ![s] = new][s] = new
           /\ \A t \in Streams \ {s} : [f EXCEPT ![s] = new][t] = f[t]
OBVIOUS

LEMMA ScanIsOver ==
    ASSUME NEW f \in [Streams -> Scans], NEW s \in Streams
    PROVE  /\ [f EXCEPT ![s].at = "over"] \in [Streams -> Scans]
           /\ [f EXCEPT ![s].at = "over", ![s].object = "freed"] \in [Streams -> Scans]
BY DEF Scans

\* The invariant holds before the first foreach().
LEMMA InitIInv == Init => IInv
<1> SUFFICES ASSUME Init PROVE IInv OBVIOUS
<1> USE DEF Init, NoScan
<1>1. TypeOK BY DEF TypeOK
<1>2. TicksMatch BY DEF TicksMatch
<1>3. ProgressOfPages BY DEF ProgressOfPages
<1>4. /\ OneAtATime /\ PassedWasGiven /\ NothingSkipped /\ GivenWasPassed
  BY DEF OneAtATime, PassedWasGiven, NothingSkipped, GivenWasPassed, Scanning
<1>5. Fresh BY DEF Fresh, Finished, Has
<1> QED BY <1>1, <1>2, <1>3, <1>4, <1>5 DEF IInv

\* An event that is emitted is the last one; none is taken back.
LEMMA EmitAppends ==
    ASSUME TypeOK, NEW s \in Streams, NEW e \in {"data", "end", "error", "abort"}, Emit(s, e)
    PROVE  /\ events' \in [Streams -> Seq({"data", "end", "error", "abort"})]
           /\ \A t \in Streams, f \in {"data", "end", "error", "abort"} :
                Has(t, f)' <=> Has(t, f) \/ (t = s /\ f = e)
           /\ \A t \in Streams \ {s} : events'[t] = events[t]
           /\ Len(events'[s]) = Len(events[s]) + 1
           /\ \A i \in 1 .. Len(events[s]) : events'[s][i] = events[s][i]
           /\ events'[s][Len(events[s]) + 1] = e
<1> DEFINE E == {"data", "end", "error", "abort"}
<1>1. events \in [Streams -> Seq(E)] BY DEF TypeOK
<1>2. events' = [events EXCEPT ![s] = Append(@, e)] BY DEF Emit
<1>3. events[s] \in Seq(E) BY <1>1
<1>4. /\ Append(events[s], e) \in Seq(E)
      /\ Len(Append(events[s], e)) = Len(events[s]) + 1
      /\ \A i \in 1 .. Len(events[s]) : Append(events[s], e)[i] = events[s][i]
      /\ Append(events[s], e)[Len(events[s]) + 1] = e
      /\ DOMAIN events[s] = 1 .. Len(events[s])
      /\ DOMAIN Append(events[s], e) = 1 .. Len(events[s]) + 1
      /\ Len(events[s]) \in Nat
  BY <1>3
<1>5. events'[s] = Append(events[s], e) BY <1>1, <1>2
<1>6. \A t \in Streams \ {s} : events'[t] = events[t] BY <1>1, <1>2
<1>7. ASSUME NEW t \in Streams, NEW f \in E
      PROVE  Has(t, f)' <=> Has(t, f) \/ (t = s /\ f = e)
  <2>1. CASE t # s BY <2>1, <1>6 DEF Has
  <2>2. CASE t = s BY <2>2, <1>4, <1>5 DEF Has
  <2> QED BY <2>1, <2>2
<1>8. events' \in [Streams -> Seq(E)] BY <1>1, <1>2, <1>4
<1> QED BY <1>4, <1>5, <1>6, <1>7, <1>8

\* foreach() starts from the saved progress, or anew.
LEMMA StartKeepsProgress ==
    ASSUME IInv, NEW s \in Streams, Ready(s), StartFrom(s), NobodyAborted
    PROVE  /\ \A t \in Streams : ~Scanning(t)
           /\ scanState # <<>> => scanState[1] \subseteq seen'
           /\ scanState = <<>> => seen' = {}
           /\ NobodyFailed /\ scanState # <<>> => scanState[1] = seen'
<1>1. \A t \in Streams : ~Scanning(t)
  BY DEF IInv, OneAtATime, Ready, Scanning
<1> QED BY <1>1 DEF IInv, StartFrom, NothingSkipped, GivenWasPassed

\* A queue of ticks that match keeps matching when its head is taken or when
\* one that matches is added.
LEMMA TicksKept ==
    ASSUME TypeOK, TicksMatch,
           \A s \in Streams : aborted[s] => aborted'[s],
           \A s \in Streams : scan[s].at = "failed" => scan'[s].at = "failed",
           \/ ticks' = ticks
           \/ ticks # <<>> /\ ticks' = Tail(ticks)
           \/ \E s \in Streams, e \in {"end", "error", "unbound"} :
                /\ ticks' = Append(ticks, <<s, e>>)
                /\ e = "end" => aborted'[s]
                /\ e = "error" => scan'[s].at = "failed"
    PROVE  TicksMatch' /\ ticks' \in Seq(Streams \X {"end", "error", "unbound"})
<1> DEFINE T == Streams \X {"end", "error", "unbound"}
           Matches(x) == /\ x[2] = "end" => aborted[x[1]]
                         /\ x[2] = "error" => scan[x[1]].at = "failed"
           MatchesNext(x) == /\ x[2] = "end" => aborted'[x[1]]
                             /\ x[2] = "error" => scan'[x[1]].at = "failed"
<1>1. ticks \in Seq(T) BY DEF TypeOK
<1>2. \A i \in DOMAIN ticks : ticks[i] \in T /\ MatchesNext(ticks[i])
  <2> SUFFICES ASSUME NEW i \in DOMAIN ticks PROVE ticks[i] \in T /\ MatchesNext(ticks[i])
    OBVIOUS
  <2>1. ticks[i] \in T /\ Matches(ticks[i]) BY <1>1 DEF TicksMatch
  <2>2. ticks[i][1] \in Streams BY <2>1
  <2> QED BY <2>1, <2>2
<1>3. SUFFICES (\A i \in DOMAIN ticks' : MatchesNext(ticks'[i])) /\ ticks' \in Seq(T)
  BY DEF TicksMatch
<1> HIDE DEF Matches, MatchesNext
<1>4. CASE ticks' = ticks BY <1>1, <1>2, <1>4
<1>5. CASE ticks # <<>> /\ ticks' = Tail(ticks)
  <2>1. /\ Tail(ticks) \in Seq(T)
        /\ DOMAIN Tail(ticks) = 1 .. Len(ticks) - 1 /\ DOMAIN ticks = 1 .. Len(ticks)
        /\ Len(ticks) \in Nat
        /\ \A i \in 1 .. Len(ticks) - 1 : Tail(ticks)[i] = ticks[i + 1]
    BY <1>1, <1>5
  <2>2. \A i \in DOMAIN Tail(ticks) : i + 1 \in DOMAIN ticks /\ Tail(ticks)[i] = ticks[i + 1]
    BY <2>1
  <2> QED BY <1>2, <1>5, <2>1, <2>2
<1>6. ASSUME NEW s \in Streams, NEW e \in {"end", "error", "unbound"},
             ticks' = Append(ticks, <<s, e>>),
             e = "end" => aborted'[s], e = "error" => scan'[s].at = "failed"
      PROVE  (\A i \in DOMAIN ticks' : MatchesNext(ticks'[i])) /\ ticks' \in Seq(T)
  <2> DEFINE x == <<s, e>>
  <2>1. x \in T /\ MatchesNext(x) BY <1>6 DEF MatchesNext
  <2> HIDE DEF x, T
  <2>2. /\ Append(ticks, x) \in Seq(T)
        /\ DOMAIN Append(ticks, x) = 1 .. Len(ticks) + 1 /\ DOMAIN ticks = 1 .. Len(ticks)
        /\ Len(ticks) \in Nat
        /\ \A i \in 1 .. Len(ticks) : Append(ticks, x)[i] = ticks[i]
        /\ Append(ticks, x)[Len(ticks) + 1] = x
    BY <1>1, <2>1
  <2>3. ticks' = Append(ticks, x) BY <1>6 DEF x
  <2>4. \A i \in 1 .. Len(ticks) + 1 : i \in 1 .. Len(ticks) \/ i = Len(ticks) + 1 BY <2>2
  <2>5. \A i \in DOMAIN Append(ticks, x) : MatchesNext(Append(ticks, x)[i])
    BY <1>2, <2>1, <2>2, <2>4
  <2> QED BY <2>2, <2>3, <2>5
<1> QED BY <1>4, <1>5, <1>6

\* foreach(), accepted or not.
LEMMA ForeachIInv ==
    ASSUME IInv, NEW s \in Streams, ForeachRefused(s) \/ ForeachFails(s) \/ Foreach(s)
    PROVE  IInv'
<1>1. CASE ForeachRefused(s)
  <2> USE <1>1 DEF ForeachRefused, IInv
  <2>1. scan'[s].at = "refused" /\ ~Scanning(s) /\ scan[s].at = "none"
        /\ \A t \in Streams \ {s} : scan'[t] = scan[t]
    BY DEF TypeOK, Scanning, Ready
  <2>2. TicksMatch' /\ ticks' \in Seq(Streams \X {"end", "error", "unbound"})
    BY <2>1, TicksKept
  <2>3. TypeOK' BY <2>2 DEF TypeOK
  <2>4. \A t \in Streams : /\ Scanning(t)' <=> Scanning(t)
                           /\ Scanning(t) => scan'[t] = scan[t]
    BY <2>1 DEF Scanning
  <2>5. UNCHANGED <<NobodyAborted, NobodyFailed>> /\ \A t \in Streams : Finished(t)' <=> Finished(t)
    BY DEF NobodyAborted, NobodyFailed, Has, Finished
  <2>6. OneAtATime' BY <2>4, <2>5 DEF OneAtATime
  <2>7. PassedWasGiven' BY <2>4, <2>5 DEF PassedWasGiven
  <2>8. GivenWasPassed' BY <2>4, <2>5 DEF GivenWasPassed
  <2>9. Fresh' BY <2>1, <2>5 DEF Fresh
  <2> QED BY <2>2, <2>3, <2>5, <2>6, <2>7, <2>8, <2>9 DEF ProgressOfPages, NothingSkipped
<1>2. CASE ForeachFails(s)
  <2> USE <1>2 DEF ForeachFails
  <2>1. scan'[s].at = "failed" /\ scan[s].at = "none"
        /\ \A t \in Streams \ {s} : scan'[t] = scan[t]
    BY DEF IInv, TypeOK, Ready
  <2>2. TicksMatch' /\ ticks' \in Seq(Streams \X {"end", "error", "unbound"})
    BY <2>1, TicksKept DEF IInv
  <2>3. TypeOK' BY <2>2 DEF IInv, TypeOK, StartFrom
  <2>4. UNCHANGED <<NobodyAborted, NobodyFailed>>
    BY DEF NobodyAborted, NobodyFailed, Has
  <2>5. NobodyAborted => \A t \in Streams : ~Scanning(t)'
    BY <2>1, StartKeepsProgress DEF Scanning
  <2>6. OneAtATime' /\ PassedWasGiven' BY <2>4, <2>5 DEF OneAtATime, PassedWasGiven
  <2>7. NothingSkipped' BY <2>4, StartKeepsProgress DEF NothingSkipped
  <2>8. GivenWasPassed' BY <2>4, <2>5, StartKeepsProgress DEF GivenWasPassed
  <2>9. Fresh' BY <2>1 DEF IInv, Fresh, Finished, Has
  <2> QED BY <2>2, <2>3, <2>6, <2>7, <2>8, <2>9 DEF IInv, ProgressOfPages
<1>3. CASE Foreach(s)
  <2> USE <1>3 DEF Foreach
  <2> DEFINE start == IF Paginated /\ scanState # <<>> THEN scanState[1] ELSE {}
  <2>1. /\ scan'[s] = [at |-> "scanning", count |-> 0, object |-> "held", passed |-> start]
        /\ scan[s].at = "none" /\ \A t \in Streams \ {s} : scan'[t] = scan[t]
        /\ start \in SUBSET Records
    BY DEF IInv, TypeOK, Ready
  <2>2. TicksMatch' /\ ticks' \in Seq(Streams \X {"end", "error", "unbound"})
    BY <2>1, TicksKept DEF IInv
  <2>3. TypeOK' BY <2>1, <2>2 DEF IInv, TypeOK, StartFrom
  <2>4. UNCHANGED <<NobodyAborted, NobodyFailed>> /\ UNCHANGED Finished(s)
    BY DEF NobodyAborted, NobodyFailed, Finished, Has
  <2>5. NobodyAborted => \A t \in Streams : Scanning(t)' <=> t = s
    BY <2>1, StartKeepsProgress DEF Scanning
  <2>6. OneAtATime'
    <3> SUFFICES ASSUME NobodyAborted' PROVE current' = <<s>> /\ ~Finished(s)'
      BY <2>4, <2>5 DEF OneAtATime
    <3> QED BY <2>1, <2>4 DEF IInv, Fresh, StartFrom
  <2>7. PassedWasGiven' BY <2>1, <2>4, <2>5, StartKeepsProgress DEF PassedWasGiven
  <2>8. NothingSkipped' BY <2>4, StartKeepsProgress DEF NothingSkipped
  <2>9. GivenWasPassed'
    BY <2>1, <2>4, <2>5, StartKeepsProgress DEF IInv, ProgressOfPages, GivenWasPassed
  <2>10. Fresh' BY <2>1 DEF IInv, Fresh, Finished, Has
  <2> QED BY <2>2, <2>3, <2>6, <2>7, <2>8, <2>9, <2>10 DEF IInv, ProgressOfPages
<1> QED BY <1>1, <1>2, <1>3

\* A scan that is over, at the end of a page, of the scan or with an error.
LEMMA OverIInv ==
    ASSUME IInv, NEW s \in Streams, Scanning(s), NEW e \in {"end", "error"}, Emit(s, e),
           UNCHANGED <<connected, current, seen, aborted, ticks>>,
           scan' = [scan EXCEPT ![s].at = "over"]
             \/ scan' = [scan EXCEPT ![s].at = "over", ![s].object = "freed"],
           \/ e = "error" /\ scanState' = scanState
           \/ scanState' = <<>>
           \/ Paginated /\ scanState' = <<scan[s].passed>>
    PROVE  IInv'
<1> USE DEF IInv
<1>1. /\ scan'[s].at = "over" /\ scan[s].at = "scanning"
      /\ \A t \in Streams \ {s} : scan'[t] = scan[t]
      /\ scan[s].passed \in SUBSET Records
  BY DEF TypeOK, Scanning
<1>2. /\ events' \in [Streams -> Seq({"data", "end", "error", "abort"})]
      /\ \A t \in Streams, f \in {"data", "end", "error", "abort"} :
            Has(t, f)' <=> Has(t, f) \/ (t = s /\ f = e)
  BY EmitAppends
<1>3. TypeOK'
  <2>1. scan' \in [Streams -> [at : {"none", "refused", "failed", "scanning", "over"},
                               passed : SUBSET Records, count : Nat,
                               object : {"none", "held", "freed"}]]
    <3>1. scan \in [Streams -> Scans] BY DEF TypeOK, Scans
    <3>2. /\ [scan EXCEPT ![s].at = "over"] \in [Streams -> Scans]
          /\ [scan EXCEPT ![s].at = "over", ![s].object = "freed"] \in [Streams -> Scans]
      BY <3>1, ScanIsOver
    <3>3. scan' \in [Streams -> Scans] BY <3>2
    <3> QED BY <3>3 DEF Scans
  <2>2. scanState' \in {<<>>} \cup {<<S>> : S \in SUBSET Records} BY <1>1 DEF TypeOK
  <2> QED BY <1>2, <2>1, <2>2 DEF TypeOK
<1>4. TicksMatch' BY <1>1, TicksKept
<1>5. ProgressOfPages' BY DEF ProgressOfPages
<1>6. Fresh' BY <1>1, <1>2 DEF Fresh, Finished
<1>7. UNCHANGED NobodyAborted BY DEF NobodyAborted
<1>8. NobodyAborted => (\A t \in Streams : ~Scanning(t)') /\ scan[s].passed \subseteq seen
  BY <1>1 DEF OneAtATime, PassedWasGiven, Scanning
<1>9. OneAtATime' /\ PassedWasGiven' BY <1>7, <1>8 DEF OneAtATime, PassedWasGiven
<1>10. NothingSkipped' BY <1>7, <1>8 DEF NothingSkipped
<1>11. NobodyFailed' => NobodyFailed /\ e = "end" BY <1>2 DEF NobodyFailed
<1>12. GivenWasPassed' BY <1>7, <1>8, <1>11 DEF GivenWasPassed
<1> QED BY <1>3, <1>4, <1>5, <1>6, <1>9, <1>10, <1>12

\* The listeners that end a scan.
LEMMA ScanOverIInv ==
    ASSUME IInv, NEW s \in Streams, PageEnd(s) \/ ScanEnd(s) \/ ScanError(s)
    PROVE  IInv'
<1>1. CASE PageEnd(s)
  BY <1>1, OverIInv DEF PageEnd, EndOfPage, Full, Listening, Scanning, EmitEnd, LeaveScan
<1>2. CASE ScanEnd(s)
  BY <1>2, OverIInv DEF ScanEnd, Listening, Scanning, EmitEnd, LeaveScan
<1>3. CASE ScanError(s) BY <1>3, OverIInv DEF ScanError, Listening, Scanning
<1> QED BY <1>1, <1>2, <1>3

\* A record, with or without an abort by its handler.
LEMMA RecordIInv ==
    ASSUME IInv, NEW s \in Streams, NEW r \in Records, RecordEvent(s, r)
    PROVE  IInv'
<1> USE DEF IInv
<1>1. /\ scan[s].at = "scanning" /\ scan'[s].at \in {"scanning", "over"}
      /\ \A t \in Streams \ {s} : scan'[t] = scan[t]
      /\ ~aborted'[s] => scan'[s].at = "scanning" /\ scan'[s].passed = scan[s].passed \cup {r}
      /\ scan' \in [Streams -> [at : {"none", "refused", "failed", "scanning", "over"},
                               passed : SUBSET Records, count : Nat,
                               object : {"none", "held", "freed"}]]
  <2>1. scan[s] \in Scans /\ scan[s].at = "scanning" /\ scan \in [Streams -> Scans]
    BY DEF TypeOK, RecordEvent, Listening, Scans
  <2>2. CASE ~aborted'[s]
    <3> DEFINE new == WithRecord(scan[s], r)
    <3>1. scan' = [scan EXCEPT ![s] = new] BY <2>2 DEF RecordEvent, GoesOn
    <3>2. new \in Scans /\ new.at = "scanning" /\ new.passed = scan[s].passed \cup {r}
      BY <2>1, PassedIsScan
    <3> HIDE DEF new
    <3> QED BY <2>1, <3>1, <3>2, ScanReplaced DEF Scans
  <2>3. CASE aborted'[s]
    <3> DEFINE new == AtRecord(scan[s])
    <3>1. scan' = [scan EXCEPT ![s] = new] BY <2>3 DEF RecordEvent, GoesOn
    <3>2. new \in Scans /\ new.at = "over" BY <2>1, LastIsScan
    <3> HIDE DEF new
    <3> QED BY <2>1, <2>3, <3>1, <3>2, ScanReplaced DEF Scans
  <2> QED BY <2>2, <2>3
<1>2. /\ aborted' \in [Streams -> BOOLEAN] /\ \A t \in Streams : aborted[t] => aborted'[t]
      /\ \A t \in Streams \ {s} : aborted'[t] = aborted[t]
  BY DEF RecordEvent, TypeOK
<1>3. TicksMatch' /\ ticks' \in Seq(Streams \X {"end", "error", "unbound"})
  <2>1. ticks' = ticks \/ (ticks' = Append(ticks, <<s, "end">>) /\ aborted'[s])
    BY DEF RecordEvent, TypeOK
  <2> QED BY <1>1, <1>2, <2>1, TicksKept
<1>4. /\ events' \in [Streams -> Seq({"data", "end", "error", "abort"})]
      /\ \A t \in Streams \ {s} : events'[t] = events[t]
  <2>1. CASE Emit(s, "data") BY <2>1, EmitAppends
  <2>2. CASE events' = [events EXCEPT ![s] = @ \o <<"data", "abort">>]
    <3>1. events[s] \o <<"data", "abort">> \in Seq({"data", "end", "error", "abort"})
      BY DEF TypeOK
    <3> QED BY <2>2, <3>1 DEF TypeOK
  <2> QED BY <2>1, <2>2 DEF RecordEvent
<1>5. TypeOK'
  <2>1. seen' \in SUBSET Records BY DEF RecordEvent, TypeOK
  <2>2. UNCHANGED <<connected, scanState, current>> BY DEF RecordEvent
  <2> QED BY <1>1, <1>2, <1>3, <1>4, <2>1, <2>2 DEF TypeOK
<1>6. ProgressOfPages' BY DEF RecordEvent, ProgressOfPages
<1>7. Fresh'
  <2>1. \A t \in Streams \ {s} : Finished(t)' <=> Finished(t) BY <1>4 DEF Finished, Has
  <2>2. scan'[s].at # "none" BY <1>1
  <2> QED BY <1>1, <1>2, <2>1, <2>2 DEF Fresh
<1>8. SUFFICES ASSUME NobodyAborted'
               PROVE  OneAtATime' /\ PassedWasGiven' /\ NothingSkipped' /\ GivenWasPassed'
  BY <1>3, <1>5, <1>6, <1>7 DEF OneAtATime, PassedWasGiven, NothingSkipped, GivenWasPassed
<1>9. NobodyAborted /\ ~aborted'[s] BY <1>2, <1>8 DEF NobodyAborted
<1>10. current = <<s>> /\ ~Finished(s) /\ \A t \in Streams : Scanning(t) <=> t = s
  BY <1>1, <1>9 DEF OneAtATime, Scanning
<1>11. seen' = seen \cup {r} /\ UNCHANGED <<current, scanState>> BY <1>10 DEF RecordEvent
<1>12. \A t \in Streams : Scanning(t)' <=> t = s BY <1>1, <1>9, <1>10 DEF Scanning
<1>13. Emit(s, "data") BY <1>9 DEF RecordEvent, TypeOK
<1>14. \A t \in Streams : Finished(t)' <=> Finished(t) BY <1>13, EmitAppends DEF Finished
<1>15. OneAtATime' BY <1>10, <1>11, <1>12, <1>14 DEF OneAtATime
<1>16. PassedWasGiven' BY <1>1, <1>9, <1>10, <1>11, <1>12 DEF PassedWasGiven
<1>17. NothingSkipped' BY <1>9, <1>11 DEF NothingSkipped
<1>18. NobodyFailed' => NobodyFailed BY <1>13, EmitAppends DEF NobodyFailed
<1>19. GivenWasPassed' BY <1>1, <1>9, <1>10, <1>11, <1>12, <1>18 DEF GivenWasPassed
<1> QED BY <1>15, <1>16, <1>17, <1>19

\* abort(), a tick, close(): what is scanning goes on as it was.
LEMMA AbortIInv ==
    ASSUME IInv, NEW s \in Streams, Abort(s)
    PROVE  IInv'
<1> USE DEF IInv, Abort
<1>1. /\ aborted' \in [Streams -> BOOLEAN] /\ aborted'[s] /\ \A t \in Streams : aborted[t] => aborted'[t]
      /\ \A t \in Streams \ {s} : aborted'[t] = aborted[t]
  BY DEF TypeOK
<1>2. TicksMatch' /\ ticks' \in Seq(Streams \X {"end", "error", "unbound"})
  BY <1>1, TicksKept
<1>3. /\ events' \in [Streams -> Seq({"data", "end", "error", "abort"})]
      /\ \A t \in Streams : Finished(t)' <=> Finished(t)
  BY EmitAppends DEF Finished
<1>4. TypeOK' BY <1>1, <1>2, <1>3 DEF TypeOK
<1>5. ProgressOfPages' BY DEF ProgressOfPages
<1>6. Fresh' BY <1>1, <1>3 DEF Fresh
<1>7. ~NobodyAborted' BY <1>1 DEF NobodyAborted
<1> QED BY <1>2, <1>4, <1>5, <1>6, <1>7
         DEF OneAtATime, PassedWasGiven, NothingSkipped, GivenWasPassed

LEMMA TickIInv ==
    ASSUME IInv, Tick
    PROVE  IInv'
<1> USE DEF IInv, Tick
<1> DEFINE s == Head(ticks)[1]
           e == Head(ticks)[2]
<1>1. ticks \in Seq(Streams \X {"end", "error", "unbound"}) /\ ticks # <<>> BY DEF TypeOK
<1>2. Head(ticks) \in Streams \X {"end", "error", "unbound"} /\ 1 \in DOMAIN ticks /\ Head(ticks) = ticks[1]
  BY <1>1
<1>3. /\ s \in Streams /\ e \in {"end", "error", "unbound"}
      /\ e = "end" => aborted[s] /\ EmitEnd(s, <<>>)
      /\ e = "error" => scan[s].at = "failed" /\ Emit(s, "error") /\ UNCHANGED scanState
      /\ e = "unbound" => UNCHANGED <<events, scanState>>
  BY <1>2 DEF TicksMatch
<1> HIDE DEF s, e
<1>4. TicksMatch' /\ ticks' \in Seq(Streams \X {"end", "error", "unbound"})
  BY <1>1, TicksKept
<1>5. /\ events' \in [Streams -> Seq({"data", "end", "error", "abort"})]
      /\ \A t \in Streams, f \in {"data", "end", "error", "abort"} :
            Has(t, f)' <=> Has(t, f) \/ (t = s /\ f = e)
  <2>1. CASE e \in {"end", "error"} BY <1>3, <2>1, EmitAppends DEF EmitEnd
  <2>2. CASE e = "unbound" BY <1>3, <2>2 DEF TypeOK, Has
  <2> QED BY <1>3, <2>1, <2>2
<1>6. scanState' = scanState \/ (scanState' = <<>> /\ ~NobodyAborted)
  BY <1>3 DEF EmitEnd, NobodyAborted
<1>7. TypeOK' BY <1>4, <1>5, <1>6 DEF TypeOK
<1>8. ProgressOfPages' BY <1>6 DEF ProgressOfPages
<1>9. scan[s].at # "none" \/ e = "unbound" BY <1>3 DEF Fresh
<1>10. Fresh' BY <1>3, <1>5, <1>9 DEF Fresh, Finished
<1>11. SUFFICES ASSUME NobodyAborted'
                PROVE  OneAtATime' /\ PassedWasGiven' /\ NothingSkipped' /\ GivenWasPassed'
  BY <1>4, <1>7, <1>8, <1>10 DEF OneAtATime, PassedWasGiven, NothingSkipped, GivenWasPassed
<1>12. NobodyAborted /\ scanState' = scanState BY <1>6, <1>11 DEF NobodyAborted
<1>13. e \in {"error", "unbound"} BY <1>3, <1>12 DEF NobodyAborted
<1>14. OneAtATime'
  <2> SUFFICES ASSUME NEW t \in Streams, Scanning(t) PROVE current = <<t>> /\ ~Finished(t)'
    BY DEF OneAtATime, Scanning
  <2>1. current = <<t>> /\ ~Finished(t) BY <1>12 DEF OneAtATime
  <2>2. e # "unbound" => t # s BY <1>3, <1>13 DEF Scanning
  <2> QED BY <1>5, <1>13, <2>1, <2>2 DEF Finished
<1>15. PassedWasGiven' BY <1>12 DEF PassedWasGiven, Scanning
<1>16. NothingSkipped' BY <1>12 DEF NothingSkipped
<1>17. NobodyFailed' => NobodyFailed BY <1>5 DEF NobodyFailed
<1>18. GivenWasPassed' BY <1>12, <1>17 DEF GivenWasPassed, Scanning
<1> QED BY <1>14, <1>15, <1>16, <1>18

\* A step that changes nothing of the streams.
LEMMA StreamsUntouched ==
    ASSUME IInv, UNCHANGED <<scanState, current, seen, scan, aborted, ticks, events>>,
           connected' \in BOOLEAN
    PROVE  IInv'
BY DEF IInv, TypeOK, TicksMatch, ProgressOfPages, Fresh, OneAtATime, PassedWasGiven, NothingSkipped,
       GivenWasPassed, NobodyAborted, NobodyFailed, Finished, Has, Scanning

\* Every step keeps the invariant.
LEMMA NextIInv == IInv /\ [Next]_vars => IInv'
<1> SUFFICES ASSUME IInv, [Next]_vars PROVE IInv' OBVIOUS
<1>1. CASE \E s \in Streams : ForeachRefused(s) \/ ForeachFails(s) \/ Foreach(s)
  BY <1>1, ForeachIInv
<1>2. CASE \E s \in Streams : Abort(s) BY <1>2, AbortIInv
<1>3. CASE \E s \in Streams : Listener(s) BY <1>3, RecordIInv, ScanOverIInv DEF Listener
<1>4. CASE Tick BY <1>4, TickIInv
<1>5. CASE CloseClient BY <1>5, StreamsUntouched DEF CloseClient
<1>6. CASE UNCHANGED vars BY <1>6, StreamsUntouched DEF vars, IInv, TypeOK
<1> QED BY <1>1, <1>2, <1>3, <1>4, <1>5, <1>6 DEF Next

LEMMA Invariance == Spec => []IInv
BY InitIInv, NextIInv, PTL DEF Spec

(***************************************************************************)
(* Type correctness, for streams of any length.                            *)
(***************************************************************************)
THEOREM TypeCorrect == Spec => []TypeOK
BY Invariance, PTL DEF IInv

(***************************************************************************)
(* The progress a page leaves behind never passes over a record the        *)
(* application was not given (EndOfPage with the listeners of async.cc).   *)
(***************************************************************************)
THEOREM PagesSkipNothing == Spec => []NothingSkipped
BY Invariance, PTL DEF IInv

-------------------------------------------------------------------------------
(* What a step emits                                                       *)

LEMMA CountIsNat ==
    ASSUME TypeOK, NEW s \in Streams, NEW f
    PROVE  Count(s, f, 1) \in Nat
<1>1. Len(events[s]) \in Nat BY DEF TypeOK
<1>2. IsFiniteSet(1 .. Len(events[s])) BY <1>1, FS_Interval
<1>3. IsFiniteSet({i \in 1 .. Len(events[s]) : events[s][i] = f}) BY <1>2, FS_Subset
<1> QED BY <1>3, FS_CardinalityType DEF Count

\* An event is not counted among those of another kind.
LEMMA OthersNotCounted ==
    ASSUME TypeOK, NEW t \in Streams, NEW e \in {"data", "end", "error", "abort"}, Emit(t, e),
           NEW s \in Streams, NEW f, f # e
    PROVE  Count(s, f, 1)' = Count(s, f, 1)
<1>1. CASE s # t
  <2>1. events'[s] = events[s] BY <1>1, EmitAppends
  <2> QED BY <2>1 DEF Count
<1>2. CASE s = t
  <2>1. /\ Len(events[s]) \in Nat /\ Len(events'[s]) = Len(events[s]) + 1
        /\ \A i \in 1 .. Len(events[s]) : events'[s][i] = events[s][i]
        /\ events'[s][Len(events[s]) + 1] = e
    BY <1>2, EmitAppends DEF TypeOK
  <2>2. {i \in 1 .. Len(events'[s]) : events'[s][i] = f} = {i \in 1 .. Len(events[s]) : events[s][i] = f}
    BY <2>1
  <2> QED BY <2>2 DEF Count
<1> QED BY <1>1, <1>2

\* Neither are the two events of a record whose handler aborts.
LEMMA EndsNotCounted ==
    ASSUME TypeOK, NEW t \in Streams, NEW s \in Streams,
           events' = [events EXCEPT ![t] = @ \o <<"data", "abort">>]
    PROVE  Count(s, "end", 1)' = Count(s, "end", 1)
<1>1. CASE s # t BY <1>1 DEF Count, TypeOK
<1>2. CASE s = t
  <2> DEFINE n == Len(events[s])
             new == events[s] \o <<"data", "abort">>
  <2>1. n \in Nat /\ Len(new) = n + 2 /\ events'[s] = new BY <1>2 DEF TypeOK
  <2>2. \A i \in 1 .. n : new[i] = events[s][i] BY DEF TypeOK
  <2>3. new[n + 1] = "data" /\ new[n + 2] = "abort" BY DEF TypeOK
  <2> HIDE DEF new
  <2>4. \A i \in 1 .. n + 2 : i \in 1 .. n \/ i = n + 1 \/ i = n + 2 BY <2>1
  <2>5. {i \in 1 .. n + 2 : new[i] = "end"} = {i \in 1 .. n : events[s][i] = "end"}
    BY <2>1, <2>2, <2>3, <2>4
  <2> QED BY <2>1, <2>5 DEF Count
<1> QED BY <1>1, <1>2

\* A stream stays aborted.
LEMMA AbortedStays == IInv /\ [Next]_vars /\ NobodyAborted' => NobodyAborted
BY DEF IInv, TypeOK, NobodyAborted, Next, Listener, vars, ForeachRefused, ForeachFails, Foreach,
       Abort, Tick, RecordEvent, PageEnd, EndOfPage, ScanEnd, ScanError, CloseClient

\* While nobody aborts, a step that emits a kind of event is the one for it.
LEMMA Emitters ==
    ASSUME IInv, [Next]_vars, NobodyAborted, NEW s \in Streams, NEW f \in {"data", "end"},
           Count(s, f, 1)' > Count(s, f, 1)
    PROVE  IF f = "data" THEN \E t \in Streams, r \in Records : RecordEvent(t, r)
           ELSE \E t \in Streams : PageEnd(t) \/ ScanEnd(t)
<1>1. Count(s, f, 1)' # Count(s, f, 1) BY CountIsNat DEF IInv
<1>2. events' # events BY <1>1 DEF Count
<1>3. \A t \in Streams, e \in {"data", "end", "error", "abort"} : Emit(t, e) => f = e
  BY <1>1, OthersNotCounted DEF IInv
<1>4. Next /\ ~CloseClient /\ \A t \in Streams : ~ForeachRefused(t) /\ ~ForeachFails(t) /\ ~Foreach(t)
  BY <1>2 DEF vars, CloseClient, ForeachRefused, ForeachFails, Foreach
<1>5. \A t \in Streams : ~Abort(t) BY <1>3 DEF Abort
<1>6. ~Tick
  <2> SUFFICES ASSUME Tick PROVE FALSE OBVIOUS
  <2> DEFINE t == Head(ticks)[1]
             e == Head(ticks)[2]
  <2>1. Head(ticks) \in Streams \X {"end", "error", "unbound"} /\ 1 \in DOMAIN ticks /\ Head(ticks) = ticks[1]
    BY DEF IInv, TypeOK, Tick
  <2>2. t \in Streams /\ (e = "end" => aborted[t]) BY <2>1 DEF IInv, TicksMatch
  <2>3. e # "end" BY <2>2 DEF NobodyAborted, Tick
  <2>4. Emit(t, "error") BY <1>2, <2>3 DEF Tick
  <2> QED BY <1>3, <2>2, <2>4
<1>7. PICK t \in Streams : Listener(t) BY <1>4, <1>5, <1>6 DEF Next
<1>8. ~ScanError(t) BY <1>3 DEF ScanError
<1>9. ASSUME NEW r \in Records, RecordEvent(t, r) PROVE f = "data"
  <2>1. CASE Emit(t, "data") BY <1>3, <2>1
  <2>2. CASE events' = [events EXCEPT ![t] = @ \o <<"data", "abort">>]
    BY <1>1, <2>2, EndsNotCounted DEF IInv
  <2> QED BY <1>9, <2>1, <2>2 DEF RecordEvent
<1>10. PageEnd(t) \/ ScanEnd(t) => f = "end"
  BY <1>3 DEF PageEnd, EndOfPage, ScanEnd, EmitEnd
<1> QED BY <1>7, <1>8, <1>9, <1>10 DEF Listener

(***************************************************************************)
(* While no page fails and nobody aborts, every record emitted is one the  *)
(* application was not given before (RecordEvent, with the progress that   *)
(* nextPage() hands to the next page).                                     *)
(***************************************************************************)
THEOREM RecordsComeOnce == Spec => NoRecordTwice
<1> DEFINE A == NobodyFailed /\ NobodyAborted' =>
                  \A s \in Streams : Count(s, "data", 1)' > Count(s, "data", 1) => seen' # seen
<1>1. ASSUME IInv, [Next]_vars PROVE [A]_vars
  <2> SUFFICES ASSUME NobodyFailed, NobodyAborted', NEW s \in Streams,
                      Count(s, "data", 1)' > Count(s, "data", 1)
               PROVE  seen' # seen
    OBVIOUS
  <2>1. NobodyAborted BY <1>1, AbortedStays
  <2>2. PICK t \in Streams, r \in Records : RecordEvent(t, r) BY <1>1, <2>1, Emitters
  <2>3. Scanning(t) /\ current = <<t>> /\ r \notin scan[t].passed
    BY <1>1, <2>1, <2>2 DEF IInv, OneAtATime, RecordEvent, Listening, Scanning
  <2>4. scan[t].passed = seen BY <1>1, <2>1, <2>3 DEF IInv, GivenWasPassed
  <2> QED BY <2>2, <2>3, <2>4 DEF RecordEvent
<1> QED BY <1>1, Invariance, PTL DEF Spec, NoRecordTwice

(***************************************************************************)
(* An 'end' without progress that nobody aborted for comes when the        *)
(* application has every record (ScanEnd, hasNextPage()).                  *)
(***************************************************************************)
THEOREM EndsAreComplete == Spec => CompleteMeansAll
<1> DEFINE A == NobodyAborted /\ scanState' = <<>> =>
                  \A s \in Streams : Count(s, "end", 1)' > Count(s, "end", 1) => seen = Records
<1>1. ASSUME IInv, [Next]_vars PROVE [A]_vars
  <2> SUFFICES ASSUME NobodyAborted, scanState' = <<>>, NEW s \in Streams,
                      Count(s, "end", 1)' > Count(s, "end", 1)
               PROVE  seen = Records
    OBVIOUS
  <2>1. PICK t \in Streams : ScanEnd(t)
    <3>1. \A t \in Streams : ~PageEnd(t) BY DEF PageEnd, EndOfPage, EmitEnd
    <3> QED BY <1>1, <3>1, Emitters
  <2>2. Records \subseteq scan[t].passed /\ scan[t].passed \subseteq seen
    BY <1>1, <2>1 DEF IInv, PassedWasGiven, ScanEnd, Listening, Scanning
  <2> QED BY <1>1, <2>2 DEF IInv, TypeOK
<1> QED BY <1>1, Invariance, PTL DEF Spec, CompleteMeansAll

-------------------------------------------------------------------------------
(* The order of events                                                     *)

Events == {"data", "end", "error", "abort"}

DataOf(q) == Cardinality({i \in 1 .. Len(q) : q[i] = "data"})
NoAbort(q) == \A i \in 1 .. Len(q) : q[i] # "abort"
NoEnd(q) == \A i \in 1 .. Len(q) : q[i] \notin {"end", "error"}
EndsLast(q) == \A i \in 1 .. Len(q) : q[i] \in {"end", "error"} => i = Len(q)
NoDataAfterAbort(q) ==
    \A i, j \in 1 .. Len(q) : q[i] = "abort" /\ i <= j => q[j] # "data"
OneDataAfterAbort(q) ==
    \A i, j, k \in 1 .. Len(q) :
        q[i] = "abort" /\ i <= j /\ i <= k /\ q[j] = "data" /\ q[k] = "data" => j = k

\* Of one stream: its events, the records its scan counted, whether it was
\* aborted, and where its scan is.
Sound(q, n, isAborted, at) ==
    /\ at = "none" => n = 0
    /\ DataOf(q) = n
    /\ Paginated => n <= PageSize
    /\ ~isAborted => EndsLast(q) /\ NoAbort(q)
    /\ ~isAborted /\ at = "scanning" => NoEnd(q)
    /\ OneDataAfterAbort(q)
    /\ at = "scanning" => NoDataAfterAbort(q)

StreamsSound == \A s \in Streams : Sound(events[s], scan[s].count, aborted[s], scan[s].at)

\* An error that waits for node is the only one of its stream, and the stream's end.
ErrorsAreFirst ==
    \A i \in DOMAIN ticks :
        ticks[i][2] = "error" =>
            /\ ~aborted[ticks[i][1]] => NoEnd(events[ticks[i][1]])
            /\ \A j \in DOMAIN ticks : ticks[j][2] = "error" /\ ticks[j][1] = ticks[i][1] => i = j

OInv == IInv /\ StreamsSound /\ ErrorsAreFirst

\* What one more event does to a sequence of events.
LEMMA OneMore ==
    ASSUME NEW q \in Seq(Events), NEW e \in Events
    PROVE  /\ Append(q, e) \in Seq(Events)
           /\ DataOf(Append(q, e)) = DataOf(q) + (IF e = "data" THEN 1 ELSE 0)
           /\ NoAbort(q) /\ e # "abort" => NoAbort(Append(q, e))
           /\ NoEnd(q) => EndsLast(Append(q, e))
           /\ NoEnd(q) /\ e \notin {"end", "error"} => NoEnd(Append(q, e))
           /\ NoDataAfterAbort(q) /\ e # "data" => NoDataAfterAbort(Append(q, e))
           /\ NoDataAfterAbort(q) => OneDataAfterAbort(Append(q, e))
           /\ OneDataAfterAbort(q) /\ e # "data" => OneDataAfterAbort(Append(q, e))
           /\ NoAbort(q) => NoDataAfterAbort(q)
<1> DEFINE new == Append(q, e)
           n == Len(q)
<1>1. /\ new \in Seq(Events) /\ n \in Nat /\ Len(new) = n + 1
      /\ \A i \in 1 .. n : new[i] = q[i]
      /\ new[n + 1] = e
  OBVIOUS
<1> HIDE DEF new, n
<1>2. \A i \in 1 .. n + 1 : i \in 1 .. n \/ i = n + 1 BY <1>1
<1>3. DataOf(new) = DataOf(q) + (IF e = "data" THEN 1 ELSE 0)
  <2> DEFINE old == {i \in 1 .. n : q[i] = "data"}
  <2>1. IsFiniteSet(old)
    <3>1. IsFiniteSet(1 .. n) BY <1>1, FS_Interval
    <3> QED BY <3>1, FS_Subset
  <2>2. Cardinality(old) \in Nat BY <2>1, FS_CardinalityType
  <2>3. CASE e = "data"
    <3>1. {i \in 1 .. Len(new) : new[i] = "data"} = old \cup {n + 1} BY <1>1, <1>2, <2>3
    <3>2. n + 1 \notin old BY <1>1
    <3>3. Cardinality(old \cup {n + 1}) = Cardinality(old) + 1 BY <2>1, <3>2, FS_AddElement
    <3> QED BY <2>3, <3>1, <3>3 DEF DataOf, n
  <2>4. CASE e # "data"
    <3>1. {i \in 1 .. Len(new) : new[i] = "data"} = old BY <1>1, <1>2, <2>4
    <3>2. DataOf(new) = Cardinality(old) /\ DataOf(q) = Cardinality(old) BY <3>1 DEF DataOf, n
    <3> HIDE DEF old
    <3> QED BY <2>2, <2>4, <3>2
  <2> QED BY <2>3, <2>4
<1>4. NoAbort(q) /\ e # "abort" => NoAbort(new) BY <1>1, <1>2 DEF NoAbort, n
<1>5. NoEnd(q) => EndsLast(new) BY <1>1, <1>2 DEF NoEnd, EndsLast, n
<1>6. NoEnd(q) /\ e \notin {"end", "error"} => NoEnd(new) BY <1>1, <1>2 DEF NoEnd, n
<1>7. NoDataAfterAbort(q) /\ e # "data" => NoDataAfterAbort(new)
  BY <1>1, <1>2 DEF NoDataAfterAbort, n
<1>8. NoDataAfterAbort(q) => OneDataAfterAbort(new)
  BY <1>1, <1>2 DEF NoDataAfterAbort, OneDataAfterAbort, n
<1>9. OneDataAfterAbort(q) /\ e # "data" => OneDataAfterAbort(new)
  BY <1>1, <1>2 DEF OneDataAfterAbort, n
<1>10. NoAbort(q) => NoDataAfterAbort(q) BY DEF NoAbort, NoDataAfterAbort
<1> QED BY <1>1, <1>3, <1>4, <1>5, <1>6, <1>7, <1>8, <1>9, <1>10 DEF new

\* foreach() on a stream nothing has happened to.
LEMMA SoundStart ==
    ASSUME NEW q \in Seq(Events), NEW n, Sound(q, n, FALSE, "none"), NoEnd(q)
    PROVE  n = 0 /\ \A at \in {"scanning", "failed", "refused"} : Sound(q, n, FALSE, at)
<1>1. NoDataAfterAbort(q) BY DEF Sound, NoAbort, NoDataAfterAbort
<1> QED BY <1>1 DEF Sound

\* abort()
LEMMA SoundAbort ==
    ASSUME NEW q \in Seq(Events), NEW n \in Nat, NEW at, Sound(q, n, FALSE, at)
    PROVE  Sound(Append(q, "abort"), n, TRUE, at)
<1>1. "abort" \in Events BY DEF Events
<1>2. NoAbort(q) /\ NoDataAfterAbort(q) BY <1>1, OneMore DEF Sound
<1>3. /\ DataOf(Append(q, "abort")) = DataOf(q) + 0
      /\ NoDataAfterAbort(Append(q, "abort")) /\ OneDataAfterAbort(Append(q, "abort"))
  BY <1>1, <1>2, OneMore
<1> QED BY <1>3 DEF Sound

\* An 'end' or an 'error'.
LEMMA SoundEnd ==
    ASSUME NEW q \in Seq(Events), NEW n \in Nat, NEW isAborted \in BOOLEAN, NEW at, NEW later,
           NEW e \in {"end", "error"},
           Sound(q, n, isAborted, at), ~isAborted => NoEnd(q),
           (later = at /\ (at = "scanning" => isAborted)) \/ later = "over"
    PROVE  Sound(Append(q, e), n, isAborted, later)
<1>1. e \in Events /\ e # "data" /\ e # "abort" BY DEF Events
<1>2. /\ DataOf(Append(q, e)) = DataOf(q) + 0
      /\ OneDataAfterAbort(Append(q, e))
      /\ NoDataAfterAbort(q) => NoDataAfterAbort(Append(q, e))
      /\ ~isAborted => EndsLast(Append(q, e)) /\ NoAbort(Append(q, e))
  BY <1>1, OneMore DEF Sound
<1> QED BY <1>2 DEF Sound

\* A record on a page that is not full.
LEMMA SoundData ==
    ASSUME NEW q \in Seq(Events), NEW n \in Nat, NEW isAborted \in BOOLEAN,
           Sound(q, n, isAborted, "scanning"), Paginated => n < PageSize
    PROVE  Sound(Append(q, "data"), n + 1, isAborted, IF isAborted THEN "over" ELSE "scanning")
<1>1. "data" \in Events BY DEF Events
<1>2. /\ DataOf(Append(q, "data")) = n + 1
      /\ OneDataAfterAbort(Append(q, "data"))
  BY <1>1, OneMore DEF Sound
<1>3. Paginated => n + 1 <= PageSize OBVIOUS
<1>4. ~isAborted => /\ NoAbort(Append(q, "data")) /\ NoEnd(Append(q, "data"))
                    /\ EndsLast(Append(q, "data"))
  BY <1>1, OneMore DEF Sound
<1>5. ~isAborted => NoDataAfterAbort(Append(q, "data"))
  BY <1>4 DEF NoAbort, NoDataAfterAbort
<1> QED BY <1>2, <1>3, <1>4, <1>5 DEF Sound

\* A step changes one stream.
LEMMA OthersSound ==
    ASSUME StreamsSound, NEW s \in Streams,
           \A t \in Streams \ {s} :
                events'[t] = events[t] /\ scan'[t] = scan[t] /\ aborted'[t] = aborted[t],
           Sound(events'[s], scan'[s].count, aborted'[s], scan'[s].at)
    PROVE  StreamsSound'
BY DEF StreamsSound

\* The types, with the sets named.
LEMMA StreamTypes ==
    ASSUME TypeOK
    PROVE  /\ events \in [Streams -> Seq(Events)] /\ scan \in [Streams -> Scans]
           /\ aborted \in [Streams -> BOOLEAN] /\ ticks \in Seq(Streams \X {"end", "error", "unbound"})
           /\ \A s \in Streams : /\ events[s] \in Seq(Events) /\ scan[s].count \in Nat
                                 /\ aborted[s] \in BOOLEAN
                                 /\ NoEnd(events[s]) <=> ~Finished(s)
<1>1. events \in [Streams -> Seq(Events)] /\ scan \in [Streams -> Scans] /\ aborted \in [Streams -> BOOLEAN]
  BY DEF TypeOK, Events, Scans
<1>2. \A s \in Streams : DOMAIN events[s] = 1 .. Len(events[s]) BY <1>1
<1>3. \A s \in Streams : NoEnd(events[s]) <=> ~Finished(s) BY <1>2 DEF NoEnd, Finished, Has
<1>4. \A s \in Streams : scan[s].count \in Nat BY <1>1 DEF Scans
<1> QED BY <1>1, <1>3, <1>4 DEF TypeOK

\* Something that is no error is left to node.
LEMMA ErrorsKept ==
    ASSUME TypeOK, ErrorsAreFirst, NEW s \in Streams, NEW e \in {"end", "unbound"},
           ticks' = ticks \/ ticks' = Append(ticks, <<s, e>>),
           \A t \in Streams : ~aborted'[t] => ~aborted[t] /\ events'[t] = events[t]
    PROVE  ErrorsAreFirst'
<1>1. ticks \in Seq(Streams \X {"end", "error", "unbound"}) BY DEF TypeOK
<1>2. \A i \in DOMAIN ticks : ticks[i][1] \in Streams BY <1>1
<1>3. \A i \in DOMAIN ticks' : ticks'[i][2] = "error" => i \in DOMAIN ticks /\ ticks'[i] = ticks[i]
  <2>1. CASE ticks' = ticks BY <2>1
  <2>2. CASE ticks' = Append(ticks, <<s, e>>)
    <3>1. /\ DOMAIN ticks = 1 .. Len(ticks) /\ Len(ticks) \in Nat
          /\ DOMAIN ticks' = 1 .. Len(ticks) + 1
          /\ \A i \in 1 .. Len(ticks) : ticks'[i] = ticks[i]
          /\ ticks'[Len(ticks) + 1] = <<s, e>>
      BY <1>1, <2>2
    <3>2. \A i \in 1 .. Len(ticks) + 1 : i \in 1 .. Len(ticks) \/ i = Len(ticks) + 1 BY <3>1
    <3> QED BY <3>1, <3>2
  <2> QED BY <2>1, <2>2
<1> QED BY <1>2, <1>3 DEF ErrorsAreFirst

\* foreach()
LEMMA ForeachOInv ==
    ASSUME OInv, NEW s \in Streams, ForeachRefused(s) \/ ForeachFails(s) \/ Foreach(s)
    PROVE  StreamsSound' /\ ErrorsAreFirst'
<1>1. TypeOK /\ StreamsSound /\ ErrorsAreFirst /\ Fresh /\ TicksMatch BY DEF OInv, IInv
<1>2. scan[s].at = "none" /\ UNCHANGED <<events, aborted>>
  BY DEF ForeachRefused, ForeachFails, Foreach, Ready
<1>3. events[s] \in Seq(Events) /\ NoEnd(events[s]) /\ aborted[s] = FALSE /\ scan \in [Streams -> Scans]
  BY <1>1, <1>2, StreamTypes DEF Fresh
<1>4. Sound(events[s], scan[s].count, FALSE, "none") BY <1>1, <1>2, <1>3 DEF StreamsSound
<1>5. /\ scan[s].count = 0
      /\ \A at \in {"scanning", "failed", "refused"} : Sound(events[s], scan[s].count, FALSE, at)
  BY <1>3, <1>4, SoundStart
<1>6. /\ scan'[s].count = 0 /\ scan'[s].at \in {"scanning", "failed", "refused"}
      /\ \A t \in Streams \ {s} : scan'[t] = scan[t]
  BY <1>3, <1>5 DEF ForeachRefused, ForeachFails, Foreach, Scans
<1>7. StreamsSound' BY <1>1, <1>2, <1>3, <1>5, <1>6, OthersSound
<1>8. ErrorsAreFirst'
  <2>1. CASE ForeachRefused(s) \/ Foreach(s)
    BY <1>1, <1>2, <2>1, ErrorsKept DEF ForeachRefused, Foreach
  <2>2. CASE ForeachFails(s)
    <3>1. ticks' = Append(ticks, <<s, "error">>) /\ ticks \in Seq(Streams \X {"end", "error", "unbound"})
      BY <1>1, <2>2 DEF ForeachFails, TypeOK
    <3>2. /\ DOMAIN ticks = 1 .. Len(ticks) /\ Len(ticks) \in Nat
          /\ DOMAIN ticks' = 1 .. Len(ticks) + 1
          /\ \A i \in 1 .. Len(ticks) : ticks'[i] = ticks[i] /\ ticks[i][1] \in Streams
          /\ ticks'[Len(ticks) + 1] = <<s, "error">>
      BY <3>1
    <3>3. \A i \in 1 .. Len(ticks) + 1 : i \in 1 .. Len(ticks) \/ i = Len(ticks) + 1 BY <3>2
    <3>4. \A i \in 1 .. Len(ticks) : ticks[i][2] = "error" => ticks[i][1] # s
      BY <1>1, <1>2, <3>2 DEF TicksMatch
    <3> QED BY <1>1, <1>2, <1>3, <3>2, <3>3, <3>4 DEF ErrorsAreFirst
  <2> QED BY <2>1, <2>2
<1> QED BY <1>7, <1>8

\* abort()
LEMMA AbortOInv ==
    ASSUME OInv, NEW s \in Streams, Abort(s)
    PROVE  StreamsSound' /\ ErrorsAreFirst'
<1>1. TypeOK /\ StreamsSound /\ ErrorsAreFirst BY DEF OInv, IInv
<1>2. /\ events[s] \in Seq(Events) /\ scan[s].count \in Nat /\ aborted[s] = FALSE
      /\ aborted \in [Streams -> BOOLEAN] /\ events \in [Streams -> Seq(Events)]
  BY <1>1, StreamTypes DEF Abort
<1>3. /\ events'[s] = Append(events[s], "abort") /\ aborted'[s] = TRUE /\ scan' = scan
      /\ \A t \in Streams \ {s} : events'[t] = events[t] /\ aborted'[t] = aborted[t]
  BY <1>2 DEF Abort, Emit
<1>4. Sound(events'[s], scan'[s].count, TRUE, scan'[s].at)
  BY <1>1, <1>2, <1>3, SoundAbort DEF StreamsSound
<1>5. StreamsSound' BY <1>1, <1>3, <1>4, OthersSound
<1>6. ErrorsAreFirst' BY <1>1, <1>3, ErrorsKept DEF Abort
<1> QED BY <1>5, <1>6

\* What node had queued.
LEMMA TickOInv ==
    ASSUME OInv, Tick
    PROVE  StreamsSound' /\ ErrorsAreFirst'
<1>1. TypeOK /\ StreamsSound /\ ErrorsAreFirst /\ TicksMatch BY DEF OInv, IInv
<1>2. ticks \in Seq(Streams \X {"end", "error", "unbound"}) /\ ticks # <<>> /\ ticks' = Tail(ticks)
  BY <1>1 DEF Tick, TypeOK
<1>3. PICK s \in Streams, e \in {"end", "error", "unbound"} : Head(ticks) = <<s, e>>
  <2>1. Head(ticks) \in Streams \X {"end", "error", "unbound"} BY <1>2
  <2> QED BY <2>1
<1>4. /\ 1 \in DOMAIN ticks /\ ticks[1][1] = s /\ ticks[1][2] = e
      /\ \A i \in DOMAIN ticks' : i + 1 \in DOMAIN ticks /\ ticks'[i] = ticks[i + 1] /\ i + 1 # 1
                                  /\ ticks[i + 1][1] \in Streams /\ i \in Nat
  <2>1. Len(ticks) \in Nat \ {0} /\ DOMAIN ticks = 1 .. Len(ticks) BY <1>2
  <2>2. /\ DOMAIN ticks' = 1 .. Len(ticks) - 1
        /\ \A i \in 1 .. Len(ticks) - 1 : ticks'[i] = ticks[i + 1]
    BY <1>2, <2>1
  <2>3. \A i \in DOMAIN ticks' : i \in Nat /\ i + 1 \in DOMAIN ticks /\ i + 1 # 1 BY <2>1, <2>2
  <2>4. \A i \in DOMAIN ticks : ticks[i][1] \in Streams BY <1>2
  <2> QED BY <1>2, <1>3, <2>1, <2>2, <2>3, <2>4
<1>5. UNCHANGED <<scan, aborted>> BY DEF Tick
<1>6. \/ e = "unbound" /\ UNCHANGED events
      \/ e \in {"end", "error"} /\ Emit(s, e)
  BY <1>3 DEF Tick, EmitEnd
<1>7. e = "end" => aborted[s] BY <1>1, <1>4 DEF TicksMatch
<1>8. e = "error" => scan[s].at = "failed" /\ (~aborted[s] => NoEnd(events[s]))
  BY <1>1, <1>4 DEF TicksMatch, ErrorsAreFirst
<1>9. e = "error" => \A i \in DOMAIN ticks' : ticks'[i][2] = "error" => ticks'[i][1] # s
  BY <1>1, <1>4 DEF ErrorsAreFirst
<1>10. CASE e = "unbound" /\ UNCHANGED events
  <2>1. StreamsSound' BY <1>1, <1>5, <1>10 DEF StreamsSound
  <2>2. ErrorsAreFirst' BY <1>1, <1>4, <1>5, <1>10 DEF ErrorsAreFirst
  <2> QED BY <2>1, <2>2
<1>11. CASE e \in {"end", "error"} /\ Emit(s, e)
  <2>1. /\ events[s] \in Seq(Events) /\ scan[s].count \in Nat /\ aborted[s] \in BOOLEAN
        /\ events \in [Streams -> Seq(Events)]
    BY <1>1, StreamTypes
  <2>2. events'[s] = Append(events[s], e) /\ \A t \in Streams \ {s} : events'[t] = events[t]
    BY <1>11, <2>1 DEF Emit
  <2>3. Sound(events'[s], scan'[s].count, aborted'[s], scan'[s].at)
    <3>1. Sound(events[s], scan[s].count, aborted[s], scan[s].at) BY <1>1 DEF StreamsSound
    <3>2. scan[s].at = "scanning" => aborted[s] BY <1>7, <1>8, <1>11
    <3>3. ~aborted[s] => NoEnd(events[s]) BY <1>7, <1>8, <1>11
    <3>4. e \in {"end", "error"} BY <1>11
    <3>5. Sound(Append(events[s], e), scan[s].count, aborted[s], scan[s].at)
      BY <2>1, <3>1, <3>2, <3>3, <3>4, SoundEnd
    <3> QED BY <1>5, <2>2, <3>5
  <2>4. StreamsSound' BY <1>1, <1>5, <2>2, <2>3, OthersSound
  <2>5. ErrorsAreFirst'
    <3> SUFFICES ASSUME NEW i \in DOMAIN ticks', ticks'[i][2] = "error"
                 PROVE  /\ ~aborted'[ticks'[i][1]] => NoEnd(events'[ticks'[i][1]])
                        /\ \A j \in DOMAIN ticks' :
                             ticks'[j][2] = "error" /\ ticks'[j][1] = ticks'[i][1] => i = j
      BY DEF ErrorsAreFirst
    <3>1. ~aborted[ticks'[i][1]] => ticks'[i][1] # s BY <1>7, <1>9, <1>11
    <3>2. ~aborted[ticks'[i][1]] => NoEnd(events[ticks'[i][1]]) BY <1>1, <1>4 DEF ErrorsAreFirst
    <3>3. \A j \in DOMAIN ticks' :
             ticks'[j][2] = "error" /\ ticks'[j][1] = ticks'[i][1] => i + 1 = j + 1
      BY <1>1, <1>4 DEF ErrorsAreFirst
    <3> QED BY <1>4, <1>5, <2>2, <3>1, <3>2, <3>3
  <2> QED BY <2>4, <2>5
<1> QED BY <1>6, <1>10, <1>11

\* Each record is counted, the last one of an aborted scan included.
LEMMA RecordIsCounted ==
    ASSUME NEW old \in Scans, NEW r
    PROVE  /\ WithRecord(old, r).count = old.count + 1 /\ WithRecord(old, r).at = old.at
           /\ AtRecord(old).count = old.count + 1 /\ AtRecord(old).at = "over"
<1>1. ASSUME NEW p, NEW n \in Nat
      PROVE  /\ [old EXCEPT !.passed = p, !.count = n].count = n
             /\ [old EXCEPT !.passed = p, !.count = n].at = old.at
             /\ [old EXCEPT !.at = "over", !.count = n].count = n
             /\ [old EXCEPT !.at = "over", !.count = n].at = "over"
  BY DEF Scans
<1>2. old.count + 1 \in Nat BY DEF Scans
<1> QED BY <1>1, <1>2 DEF WithRecord, AtRecord

\* A handler that aborts leaves two events.
LEMMA TwoEvents ==
    ASSUME NEW q \in Seq(Events)
    PROVE  q \o <<"data", "abort">> = Append(Append(q, "data"), "abort")
BY DEF Events

\* The listeners.
LEMMA ListenerOInv ==
    ASSUME OInv, NEW s \in Streams, Listener(s)
    PROVE  StreamsSound' /\ ErrorsAreFirst'
<1>1. TypeOK /\ StreamsSound BY DEF OInv, IInv
<1>2. Listening(s) /\ scan[s].at = "scanning" /\ ticks = <<>>
  BY DEF Listener, RecordEvent, PageEnd, EndOfPage, ScanEnd, ScanError, Listening, TurnOver
<1>3. /\ events[s] \in Seq(Events) /\ scan[s].count \in Nat /\ aborted[s] \in BOOLEAN
      /\ events \in [Streams -> Seq(Events)] /\ scan \in [Streams -> Scans]
      /\ aborted \in [Streams -> BOOLEAN]
  BY <1>1, StreamTypes
<1>4. Sound(events[s], scan[s].count, aborted[s], "scanning") BY <1>1, <1>2 DEF StreamsSound
<1>5. ASSUME NEW r \in Records, RecordEvent(s, r)
      PROVE  StreamsSound' /\ ErrorsAreFirst'
  <2>1. Paginated => scan[s].count < PageSize BY <1>3, <1>5 DEF RecordEvent, Full
  <2>2. scan' = [scan EXCEPT ![s] = IF GoesOn(s) THEN WithRecord(scan[s], r) ELSE AtRecord(scan[s])]
    BY <1>3, <1>5 DEF RecordEvent
  <2>3. /\ scan'[s].count = scan[s].count + 1
        /\ scan'[s].at = IF aborted'[s] THEN "over" ELSE "scanning"
        /\ \A t \in Streams \ {s} : scan'[t] = scan[t]
    <3>1. scan[s] \in Scans BY <1>3
    <3>2. \A t \in Streams \ {s} : scan'[t] = scan[t] BY <1>3, <2>2
    <3>3. scan'[s] = IF aborted'[s] THEN AtRecord(scan[s]) ELSE WithRecord(scan[s], r)
      BY <1>3, <2>2 DEF GoesOn
    <3>4. CASE aborted'[s] BY <3>1, <3>2, <3>3, <3>4, RecordIsCounted
    <3>5. CASE ~aborted'[s] BY <1>2, <3>1, <3>2, <3>3, <3>5, RecordIsCounted
    <3> QED BY <3>4, <3>5
  <2>4. Sound(Append(events[s], "data"), scan[s].count + 1, aborted[s],
              IF aborted[s] THEN "over" ELSE "scanning")
    BY <1>3, <1>4, <2>1, SoundData
  <2>5. CASE Emit(s, "data") /\ UNCHANGED <<aborted, ticks>>
    <3>1. events'[s] = Append(events[s], "data") /\ \A t \in Streams \ {s} : events'[t] = events[t]
      BY <1>3, <2>5 DEF Emit
    <3>2. Sound(events'[s], scan'[s].count, aborted'[s], scan'[s].at) BY <2>3, <2>4, <2>5, <3>1
    <3>3. StreamsSound' BY <1>1, <2>3, <2>5, <3>1, <3>2, OthersSound
    <3>4. ErrorsAreFirst' BY <1>2, <2>5 DEF ErrorsAreFirst
    <3> QED BY <3>3, <3>4
  <2>6. CASE /\ ~aborted[s]
             /\ events' = [events EXCEPT ![s] = @ \o <<"data", "abort">>]
             /\ aborted' = [aborted EXCEPT ![s] = TRUE]
             /\ ticks' = Append(ticks, <<s, "end">>)
    <3>1. aborted[s] = FALSE /\ aborted'[s] = TRUE BY <1>3, <2>6
    <3>2. events'[s] = Append(Append(events[s], "data"), "abort")
      BY <1>3, <2>6, TwoEvents
    <3>3. \A t \in Streams \ {s} : events'[t] = events[t] /\ aborted'[t] = aborted[t]
      BY <1>3, <2>6
    <3>4. Append(events[s], "data") \in Seq(Events) /\ scan[s].count + 1 \in Nat
      BY <1>3 DEF Events
    <3>5. Sound(Append(events[s], "data"), scan[s].count + 1, FALSE, "scanning") BY <2>4, <3>1
    <3>6. Sound(events'[s], scan[s].count + 1, TRUE, "scanning") BY <3>2, <3>4, <3>5, SoundAbort
    <3>7. Sound(events'[s], scan'[s].count, aborted'[s], scan'[s].at) BY <2>3, <3>1, <3>6 DEF Sound
    <3>8. StreamsSound' BY <1>1, <2>3, <3>3, <3>7, OthersSound
    <3>9. ErrorsAreFirst'
      <4>1. DOMAIN ticks' = {1} /\ ticks'[1] = <<s, "end">> BY <1>2, <2>6
      <4> QED BY <4>1 DEF ErrorsAreFirst
    <3> QED BY <3>8, <3>9
  <2> QED BY <1>5, <2>5, <2>6 DEF RecordEvent
<1>6. ASSUME PageEnd(s) \/ ScanEnd(s) \/ ScanError(s)
      PROVE  StreamsSound' /\ ErrorsAreFirst'
  <2>1. PICK e \in {"end", "error"} : Emit(s, e)
    BY <1>6 DEF PageEnd, EndOfPage, ScanEnd, ScanError, EmitEnd
  <2>2. /\ scan'[s].at = "over" /\ scan'[s].count = scan[s].count
        /\ \A t \in Streams \ {s} : scan'[t] = scan[t]
        /\ UNCHANGED <<aborted, ticks>>
    BY <1>3, <1>6 DEF PageEnd, EndOfPage, ScanEnd, ScanError, LeaveScan, Scans
  <2>3. events'[s] = Append(events[s], e) /\ \A t \in Streams \ {s} : events'[t] = events[t]
    BY <1>3, <2>1 DEF Emit
  <2>4. ~aborted[s] => NoEnd(events[s]) BY <1>4 DEF Sound
  <2>5. Sound(Append(events[s], e), scan[s].count, aborted[s], "over")
    BY <1>3, <1>4, <2>4, SoundEnd
  <2>6. StreamsSound' BY <1>1, <2>2, <2>3, <2>5, OthersSound
  <2>7. ErrorsAreFirst' BY <1>2, <2>2 DEF ErrorsAreFirst
  <2> QED BY <2>6, <2>7
<1> QED BY <1>5, <1>6 DEF Listener

LEMMA OInvIsInvariant == Spec => []OInv
<1>1. Init => OInv
  <2> SUFFICES ASSUME Init PROVE OInv OBVIOUS
  <2>1. \A s \in Streams : events[s] = <<>> /\ scan[s].count = 0 /\ scan[s].at = "none"
    BY DEF Init, NoScan
  <2>2. DataOf(<<>>) = 0
    <3>1. {i \in 1 .. Len(<<>>) : <<>>[i] = "data"} = {} OBVIOUS
    <3> QED BY <3>1, FS_EmptySet DEF DataOf
  <2>3. NoAbort(<<>>) /\ NoEnd(<<>>) /\ EndsLast(<<>>) /\ OneDataAfterAbort(<<>>) /\ NoDataAfterAbort(<<>>)
    BY DEF NoAbort, NoEnd, EndsLast, OneDataAfterAbort, NoDataAfterAbort
  <2>4. StreamsSound BY <2>1, <2>2, <2>3 DEF StreamsSound, Sound
  <2>5. ErrorsAreFirst BY DEF Init, ErrorsAreFirst
  <2> QED BY <2>4, <2>5, InitIInv DEF OInv
<1>2. OInv /\ [Next]_vars => OInv'
  <2> SUFFICES ASSUME OInv, [Next]_vars PROVE StreamsSound' /\ ErrorsAreFirst'
    BY NextIInv DEF OInv
  <2>1. CASE \E s \in Streams : ForeachRefused(s) \/ ForeachFails(s) \/ Foreach(s) BY <2>1, ForeachOInv
  <2>2. CASE \E s \in Streams : Abort(s) BY <2>2, AbortOInv
  <2>3. CASE \E s \in Streams : Listener(s) BY <2>3, ListenerOInv
  <2>4. CASE Tick BY <2>4, TickOInv
  <2>5. CASE CloseClient \/ UNCHANGED vars
    <3>1. UNCHANGED <<events, scan, aborted, ticks>> BY <2>5 DEF CloseClient, vars
    <3> QED BY <3>1 DEF OInv, StreamsSound, ErrorsAreFirst
  <2> QED BY <2>1, <2>2, <2>3, <2>4, <2>5 DEF Next
<1> QED BY <1>1, <1>2, PTL DEF Spec

(***************************************************************************)
(* A page gives no more records than it may; a stream nobody aborts ends   *)
(* once and is silent then; after abort() one record at most comes through *)
(* (async_scan_pages_listener, RecordStream.abort, StreamCommand.callback).*)
(***************************************************************************)
THEOREM StreamsAreOrderly == Spec => []Orderly
<1>1. OInv => Orderly
  <2> SUFFICES ASSUME OInv, NEW s \in Streams
               PROVE  /\ Paginated => Count(s, "data", 1) <= PageSize
                      /\ \A i \in DOMAIN events[s] :
                          /\ events[s][i] \in {"end", "error"} /\ ~aborted[s] => i = Len(events[s])
                          /\ events[s][i] = "abort" => Count(s, "data", i) <= 1
    BY DEF Orderly
  <2>1. Sound(events[s], scan[s].count, aborted[s], scan[s].at) BY DEF OInv, StreamsSound
  <2>2. events[s] \in Seq(Events) BY StreamTypes DEF OInv, IInv
  <2>3. DOMAIN events[s] = 1 .. Len(events[s]) /\ Len(events[s]) \in Nat BY <2>2
  <2>4. Count(s, "data", 1) = scan[s].count BY <2>1 DEF Sound, Count, DataOf
  <2>5. \A i \in DOMAIN events[s] :
            events[s][i] \in {"end", "error"} /\ ~aborted[s] => i = Len(events[s])
    BY <2>1, <2>3 DEF Sound, EndsLast
  <2>6. ASSUME NEW i \in DOMAIN events[s], events[s][i] = "abort"
        PROVE  Count(s, "data", i) <= 1
    <3> DEFINE after == {j \in i .. Len(events[s]) : events[s][j] = "data"}
    <3>1. \A j, k \in after : j = k BY <2>1, <2>3, <2>6 DEF Sound, OneDataAfterAbort
    <3>2. after = {} \/ \E j : after = {j} BY <3>1
    <3>3. Cardinality(after) \in {0, 1} BY <3>2, FS_EmptySet, FS_Singleton
    <3> QED BY <3>3 DEF Count
  <2> QED BY <2>1, <2>4, <2>5, <2>6 DEF Sound
<1> QED BY <1>1, OInvIsInvariant, PTL
===============================================================================
