-------------------------- MODULE OperationsProofs --------------------------
(***************************************************************************)
(* Proofs about Operations, for every finite set of requests, every limit  *)
(* and window, and any number of clients, keys and incidents.              *)
(***************************************************************************)
EXTENDS Operations, FiniteSetTheorems, TLAPS

-----------------------------------------------------------------------------
(* What one step of the pipeline does to the request r: to its count ...   *)
Comes(r) ==
    LET c == req'[r].client
        t == req'[r].route
        entry == Hit(hits[<<c, t>>])
    IN  /\ req[r] = None /\ req'[r].at = now
        /\ \/ c = Admin /\ UNCHANGED hits
           \/ /\ c # Admin
              /\ hits' = [hits EXCEPT ![<<c, t>>] = entry]
              /\ req'[r].outcome = IF Within(entry, t) THEN "running" ELSE "throttled"

Ends(r) ==
    /\ Running(r) /\ UNCHANGED hits
    /\ req'[r].outcome = "ended"
    /\ req'[r].client = req[r].client /\ req'[r].route = req[r].route
    /\ req'[r].at = req[r].at

(* ... and to what it leaves behind, Last being the time a map remembers.  *)
Last(key) == IF key \in Trace THEN seen[key] ELSE lastSent[key]

Quiet(r) == req'[r].echo = None /\ UNCHANGED <<seen, lastSent>>

Suppressed(r, key) ==
    /\ req'[r].echo = [key |-> key, at |-> now, tried |-> FALSE]
    /\ req'[r].outcome # "running"
    /\ Recent(Last(key), Span(key))
    /\ UNCHANGED <<seen, lastSent>>

Tries(r, key) ==
    /\ req'[r].echo = [key |-> key, at |-> now, tried |-> TRUE]
    /\ req'[r].outcome # "running"
    /\ ~Recent(Last(key), Span(key))
    /\ Last(key)' = now
    /\ \A k \in (Trace \cup Alarm) \ {key} :
          Last(k)' = Last(k) \/ (Last(k)' = None /\ ~Recent(Last(k), Span(k)))

(* The invariants.  No request is counted for another's time, and one that *)
(* runs has left nothing behind yet.                                       *)
TimesOK ==
    \A r \in Request : req[r] # None =>
        /\ req[r].at <= now
        /\ Running(r) => req[r].echo = None
        /\ req[r].echo # None => req[r].echo.at <= now

(* The time remembered for a key is that of one that was tried; a trial    *)
(* later than that, or forgotten, is out of the window.                    *)
Remembered(key) ==
    /\ Last(key) # None =>
          Last(key) <= now /\ \E x \in Tried(key) : req[x].echo.at = Last(key)
    /\ \A x \in Tried(key) :
          \/ req[x].echo.at + Span(key) <= now
          \/ Last(key) # None /\ req[x].echo.at <= Last(key)

EchoInv == EchoesAccounted /\ \A key \in Trace \cup Alarm : Remembered(key)

(* The window of an entry began at start, with a request let in.  In it    *)
(* were let in as many as it counts, up to the limit; before it, fewer     *)
(* than the limit within any span of a window's length that reaches it.    *)
Since(c, t, start) == {r \in Admitted(c, t) : start <= req[r].at}
Before(c, t, s, start) == {r \in Admitted(c, t) : s <= req[r].at /\ req[r].at < start}

Windowed(c, t, start) ==
    LET entry == hits[<<c, t>>]
    IN  /\ entry.resetAt = start + Window /\ start <= now
        /\ entry.count # 0 /\ \A r \in Admitted(c, t) : req[r].at < entry.resetAt
        /\ Cardinality(Since(c, t, start)) =
              IF entry.count <= Limit[t] THEN entry.count ELSE Limit[t]
        /\ \E r \in Admitted(c, t) : req[r].at = start
        /\ \A s \in Nat : start < s + Window => Cardinality(Before(c, t, s, start)) < Limit[t]

Bounded(c, t) ==
    /\ \A s \in Nat : Cardinality(From(c, t, s)) < 2 * Limit[t]
    /\ \A r \in Counted(c, t) \ Admitted(c, t) :
          Cardinality(UpTo(c, t, req[r].at)) >= Limit[t]

Windows(c, t) == IF hits[<<c, t>>] = None THEN Admitted(c, t) = {}
                 ELSE \E start \in Nat : Windowed(c, t, start)

AdmissionInv ==
    \A c \in Client \ {Admin}, t \in Route : Bounded(c, t) /\ Windows(c, t)

PipelineInv ==
    now \in Nat /\ PipelineTypeOK /\ TimesOK /\ EchoInv /\ AdmissionInv

(* A report in analysis is one that is there.  Closed meanwhile, it is     *)
(* overtaken.                                                              *)
Accounted(i) ==
    LET r == report[i]
    IN  /\ i \in analysing => r # Unset
        /\ r # Unset =>
              /\ r.openedAt <= now
              /\ r.status = "ANALYZING" => i \in analysing
              /\ r.status = "CLOSED" => r.closedAt # Unset
              /\ r.closedAt # Unset =>
                    /\ r.mttr # Unset /\ r.openedAt + r.mttr = r.closedAt
                    /\ i \in analysing => i \in overtaken
                    /\ r.status # "CLOSED" => i \in overtaken \ analysing

ReportInv == now \in Nat /\ IncidentsTypeOK /\ \A i \in Incident : Accounted(i)

SafeInv == PipelineInv /\ ReportInv

-----------------------------------------------------------------------------
(* Incident reports.                                                       *)
LEMMA ReportsInit == Init => ReportInv
  BY DEF Init, IncidentsInit, NoReport, ReportInv, IncidentsTypeOK, Accounted

LEMMA ReportsStay ==
  ASSUME ReportInv, now' \in Nat, now <= now', UNCHANGED incidentVars
  PROVE  ReportInv'
  <1>1. IncidentsTypeOK'
    BY DEF incidentVars, ReportInv, IncidentsTypeOK
  <1>2. ASSUME NEW i \in Incident PROVE Accounted(i)'
    <2>1. Accounted(i) /\ now \in Nat /\ report[i] \in Report \cup {Unset}
      BY DEF ReportInv, IncidentsTypeOK
    <2>2. report[i] # Unset => report[i].openedAt \in Nat
      BY <2>1 DEF Report
    <2> QED
      BY <2>1, <2>2 DEF incidentVars, Accounted
  <1> QED
    BY <1>1, <1>2 DEF ReportInv

LEMMA ReportsStep ==
  ASSUME ReportInv, IncidentsNext, now' = now
  PROVE  ReportInv'
  <1>t. now \in Nat /\ IncidentsTypeOK /\ \A i \in Incident : Accounted(i)
    BY DEF ReportInv
  <1>1. PICK i \in Incident : OpenIncident(i) \/ FinishAnalysis(i) \/ CloseIncident(i)
    BY DEF IncidentsNext
  <1>2. ASSUME NEW j \in Incident \ {i},
               \E r : report' = [report EXCEPT ![i] = r],
               j \in analysing' <=> j \in analysing, j \in overtaken' <=> j \in overtaken
        PROVE  Accounted(j)'
    <2>1. report'[j] = report[j]
      BY <1>t, <1>2 DEF IncidentsTypeOK
    <2> QED
      BY <1>t, <1>2, <2>1 DEF Accounted
  <1>3. CASE OpenIncident(i)
    <2> DEFINE r == [status |-> IF apiKey THEN "ANALYZING" ELSE "OPEN", openedAt |-> now,
                     closedAt |-> Unset, mttr |-> Unset]
    <2>1. r \in Report
      BY <1>t DEF Report, Status
    <2>2. report[i] = Unset /\ report' = [report EXCEPT ![i] = r] /\ report'[i] = r
      BY <1>t, <1>3 DEF OpenIncident, IncidentsTypeOK
    <2>3. /\ analysing' = IF apiKey THEN analysing \cup {i} ELSE analysing
          /\ UNCHANGED <<apiKey, overtaken>>
      BY <1>3 DEF OpenIncident
    <2>4. IncidentsTypeOK'
      BY <1>t, <2>1, <2>2, <2>3 DEF IncidentsTypeOK
    <2>5. /\ r.status = IF apiKey THEN "ANALYZING" ELSE "OPEN"
          /\ r.openedAt = now /\ r.closedAt = Unset /\ r.mttr = Unset
      OBVIOUS
    <2>6. Accounted(i)'
      <3> HIDE DEF r
      <3>1. apiKey => i \in analysing'
        BY <2>3
      <3> QED
        BY <1>t, <2>1, <2>2, <2>5, <3>1, UnsetAssumption DEF Accounted
    <2> QED
      BY <1>t, <1>2, <2>2, <2>3, <2>4, <2>6 DEF ReportInv
  <1>4. CASE FinishAnalysis(i)
    <2>1. report[i] \in Report
      BY <1>t, <1>4 DEF FinishAnalysis, Accounted, IncidentsTypeOK
    <2>2. PICK status \in {"PATCH_READY", "OPEN"} :
             report' = [report EXCEPT ![i] = [report[i] EXCEPT !.status = status]]
      BY <1>4 DEF FinishAnalysis
    <2>3. /\ i \in analysing /\ analysing' = analysing \ {i}
          /\ UNCHANGED <<apiKey, overtaken>>
      BY <1>4 DEF FinishAnalysis
    <2>4. /\ report'[i] = [report[i] EXCEPT !.status = status]
      BY <1>t, <2>2 DEF IncidentsTypeOK
    <2>5. /\ report'[i] \in Report /\ report'[i].status = status
          /\ report'[i].openedAt = report[i].openedAt
          /\ report'[i].closedAt = report[i].closedAt /\ report'[i].mttr = report[i].mttr
      BY <2>1, <2>4 DEF Report, Status
    <2>6. IncidentsTypeOK'
      BY <1>t, <2>2, <2>3, <2>4, <2>5 DEF IncidentsTypeOK
    <2>7. Accounted(i)'
      BY <1>t, <2>1, <2>3, <2>5, UnsetAssumption DEF Accounted
    <2> QED
      BY <1>t, <1>2, <2>2, <2>3, <2>6, <2>7 DEF ReportInv
  <1>5. CASE CloseIncident(i)
    <2>1. report[i] \in Report /\ report[i].openedAt \in Nat /\ report[i].openedAt <= now
      BY <1>t, <1>5 DEF CloseIncident, Accounted, IncidentsTypeOK, Report
    <2> DEFINE r == [report[i] EXCEPT !.status = "CLOSED", !.closedAt = now,
                                      !.mttr = now - report[i].openedAt]
    <2>2. /\ r \in Report /\ r.status = "CLOSED" /\ r.closedAt = now
          /\ r.mttr = now - report[i].openedAt /\ r.openedAt = report[i].openedAt
      <3>1. now - report[i].openedAt \in Nat
        BY <1>t, <2>1
      <3> DEFINE mttr == now - report[i].openedAt
      <3> HIDE DEF mttr
      <3>2. now - report[i].openedAt = mttr /\ mttr \in Nat
        BY <3>1 DEF mttr
      <3> QED
        BY <1>t, <2>1, <3>2 DEF Report, Status
    <2>3. report' = [report EXCEPT ![i] = r] /\ report'[i] = r
      BY <1>t, <1>5 DEF CloseIncident, IncidentsTypeOK
    <2>4. /\ overtaken' = IF i \in analysing THEN overtaken \cup {i} ELSE overtaken
          /\ UNCHANGED <<apiKey, analysing>>
      BY <1>5 DEF CloseIncident
    <2>5. IncidentsTypeOK'
      BY <1>t, <2>2, <2>3, <2>4 DEF IncidentsTypeOK
    <2>6. Accounted(i)'
      <3> HIDE DEF r
      <3> QED
        BY <1>t, <2>1, <2>2, <2>3, <2>4, UnsetAssumption DEF Accounted
    <2> QED
      BY <1>t, <1>2, <2>3, <2>4, <2>5, <2>6 DEF ReportInv
  <1> QED
    BY <1>1, <1>3, <1>4, <1>5

LEMMA ReportsRestart ==
  ASSUME ReportInv, RestartIncidents, now' = now
  PROVE  ReportInv'
  BY DEF ReportInv, RestartIncidents, NoReport, IncidentsTypeOK, Accounted

-----------------------------------------------------------------------------
(* The pipeline: types, and the shapes of its steps.                       *)
LEMMA Spans ==
  /\ Window \in Nat /\ Window > 0 /\ PruneAge \in Nat /\ DupWindow <= PruneAge
  /\ \A key \in Trace \cup Alarm : Span(key) \in Nat /\ Span(key) > 0
  /\ \A key \in Alarm : key \notin Trace
  /\ \A t \in Route : Limit[t] \in Nat /\ Limit[t] > 0
  <1>1. \A key \in Alarm : key \notin Trace
    BY RouteAssumption DEF Alarm, Trace
  <1> QED
    BY <1>1, SpanAssumption, LimitAssumption DEF Span

LEMMA HitType ==
  ASSUME now \in Nat, NEW e \in Entry \cup {None}
  PROVE  /\ Hit(e) \in Entry
         /\ IF e = None \/ e.resetAt <= now
            THEN Hit(e).count = 1 /\ Hit(e).resetAt = now + Window
            ELSE Hit(e).count = e.count + 1 /\ Hit(e).resetAt = e.resetAt
  BY Spans, AbsentAssumption DEF Hit, Entry

LEMMA Ended ==
  ASSUME req \in [Request -> Call \cup {None}], NEW r \in Request, NEW call \in Call,
         NEW outcome \in {"running", "throttled", "ended"}, NEW echo \in Echo \cup {None},
         End(r, call, outcome, echo)
  PROVE  /\ req' \in [Request -> Call \cup {None}] /\ req'[r] \in Call
         /\ \A x \in Request \ {r} : req'[x] = req[x]
         /\ req'[r].outcome = outcome /\ req'[r].echo = echo
         /\ req'[r].client = call.client /\ req'[r].route = call.route
         /\ req'[r].at = call.at
  <1> DEFINE new == [call EXCEPT !.outcome = outcome, !.echo = echo]
  <1>1. /\ new \in Call /\ new.outcome = outcome /\ new.echo = echo
        /\ new.client = call.client /\ new.route = call.route /\ new.at = call.at
    BY DEF Call
  <1>2. req' = [req EXCEPT ![r] = new]
    BY DEF End
  <1> HIDE DEF new
  <1> QED
    BY <1>1, <1>2

LEMMA RememberKeeps ==
  ASSUME now \in Nat, seen \in [Trace -> Nat \cup {None}], NEW key \in Trace,
         \A k \in Trace : seen[k] # None => seen[k] <= now
  PROVE  /\ Remember(seen, key) \in [Trace -> Nat \cup {None}]
         /\ Remember(seen, key)[key] = now
         /\ \A k \in Trace \ {key} :
               \/ Remember(seen, key)[k] = seen[k]
               \/ Remember(seen, key)[k] = None /\ ~Recent(seen[k], DupWindow)
  <1> DEFINE noted == [seen EXCEPT ![key] = now]
  <1>1. /\ noted \in [Trace -> Nat \cup {None}] /\ noted[key] = now
        /\ \A k \in Trace \ {key} : noted[k] = seen[k]
    OBVIOUS
  <1>2. Remember(seen, key) \in {noted, Prune(noted)}
    BY DEF Remember
  <1> HIDE DEF noted
  <1>3. /\ DOMAIN Prune(noted) = Trace
        /\ \A k \in Trace : Prune(noted)[k] =
              IF noted[k] # None /\ now - noted[k] > PruneAge THEN None ELSE noted[k]
    BY <1>1 DEF Prune
  <1>4. Prune(noted) = [k \in Trace |->
              IF noted[k] # None /\ now - noted[k] > PruneAge THEN None ELSE noted[k]]
    BY <1>1 DEF Prune
  <1>5. Prune(noted) \in [Trace -> Nat \cup {None}]
    BY <1>1, <1>4
  <1>6. Prune(noted)[key] = now
    BY <1>1, <1>3, Spans
  <1>7. ASSUME NEW k \in Trace \ {key}
        PROVE  Prune(noted)[k] = seen[k]
                 \/ (Prune(noted)[k] = None /\ ~Recent(seen[k], DupWindow))
    <2>1. seen[k] # None => seen[k] \in Nat /\ seen[k] <= now
      OBVIOUS
    <2>2. DupWindow \in Nat
      BY SpanAssumption
    <2> QED
      BY <1>1, <1>3, <2>1, <2>2, Spans DEF Recent
  <1> QED
    BY <1>1, <1>2, <1>5, <1>6, <1>7

(* Logging an event either finds one of its kind recent, or remembers it.  *)
LEMMA Logged ==
  ASSUME now \in Nat, PipelineTypeOK, NEW r \in Request, NEW call \in Call,
         NEW outcome \in {"throttled", "ended"}, NEW event \in EventType,
         \A k \in Trace : seen[k] # None => seen[k] <= now,
         Log(r, call, outcome, event), UNCHANGED lastSent
  PROVE  /\ req' \in [Request -> Call \cup {None}] /\ req'[r] \in Call
         /\ \A x \in Request \ {r} : req'[x] = req[x]
         /\ req'[r].outcome = outcome
         /\ req'[r].client = call.client /\ req'[r].route = call.route
         /\ req'[r].at = call.at
         /\ seen' \in [Trace -> Nat \cup {None}]
         /\ \E key \in Trace \cup Alarm : Suppressed(r, key) \/ Tries(r, key)
  <1> DEFINE key == <<event, call.id>>
  <1> DEFINE dup == Recent(seen[key], DupWindow)
  <1> DEFINE echo == [key |-> key, at |-> now, tried |-> ~dup]
  <1>1. key \in Trace
    BY DEF Trace, Call
  <1>2. echo \in Echo
    BY <1>1 DEF Echo
  <1>3. End(r, call, outcome, echo) /\ seen' = IF dup THEN seen ELSE Remember(seen, key)
    BY DEF Log
  <1>4. seen \in [Trace -> Nat \cup {None}] /\ req \in [Request -> Call \cup {None}]
    BY DEF PipelineTypeOK
  <1>5. Last(key) = seen[key] /\ Last(key)' = seen'[key] /\ Span(key) = DupWindow
    BY <1>1 DEF Last, Span
  <1> HIDE DEF key
  <1>6. /\ req' \in [Request -> Call \cup {None}] /\ req'[r] \in Call
        /\ \A x \in Request \ {r} : req'[x] = req[x]
        /\ req'[r].outcome = outcome /\ req'[r].echo = echo
        /\ req'[r].client = call.client /\ req'[r].route = call.route
        /\ req'[r].at = call.at
    <2> HIDE DEF echo
    <2> QED
      BY <1>2, <1>3, <1>4, Ended
  <1>7. CASE dup
    <2>1. Suppressed(r, key)
      BY <1>3, <1>5, <1>6, <1>7 DEF Suppressed
    <2> QED
      BY <1>1, <1>3, <1>4, <1>6, <1>7, <2>1
  <1>8. CASE ~dup
    <2>1. /\ seen' \in [Trace -> Nat \cup {None}] /\ seen'[key] = now
          /\ \A k \in Trace \ {key} :
                seen'[k] = seen[k] \/ (seen'[k] = None /\ ~Recent(seen[k], DupWindow))
      BY <1>1, <1>3, <1>4, <1>8, RememberKeeps
    <2>2. ASSUME NEW k \in (Trace \cup Alarm) \ {key}
          PROVE  Last(k)' = Last(k) \/ (Last(k)' = None /\ ~Recent(Last(k), Span(k)))
      BY <2>1 DEF Last, Span
    <2>3. Tries(r, key)
      BY <1>5, <1>6, <1>8, <2>1, <2>2 DEF Tries
    <2> QED
      BY <1>1, <1>6, <2>1, <2>3
  <1> QED
    BY <1>7, <1>8

(* Every step of the pipeline lets one request come or one end, and leaves *)
(* nothing behind, or a suppressed echo, or one that is tried.             *)
LEMMA PipelineCases ==
  ASSUME now \in Nat, PipelineTypeOK, PipelineNext,
         \A k \in Trace : seen[k] # None => seen[k] <= now
  PROVE  /\ PipelineTypeOK'
         /\ \E r \in Request :
               /\ req'[r] \in Call /\ \A x \in Request \ {r} : req'[x] = req[x]
               /\ Comes(r) \/ Ends(r)
               /\ Quiet(r) \/ \E key \in Trace \cup Alarm : Suppressed(r, key) \/ Tries(r, key)
  <1> DEFINE Shaped(r) ==
               /\ req'[r] \in Call /\ \A x \in Request \ {r} : req'[x] = req[x]
               /\ Comes(r) \/ Ends(r)
               /\ Quiet(r) \/ \E key \in Trace \cup Alarm : Suppressed(r, key) \/ Tries(r, key)
  <1>t. /\ hits \in [Client \X Route -> Entry \cup {None}]
        /\ seen \in [Trace -> Nat \cup {None}]
        /\ lastSent \in [Alarm -> Nat \cup {None}]
        /\ req \in [Request -> Call \cup {None}]
    BY DEF PipelineTypeOK
  <1>1. PICK r \in Request :
            \/ \E c \in Client, t \in Route, i \in Id : Arrive(r, c, t, i)
            \/ Mutate(r) \/ Deny(r) \/ Pass(r)
            \/ \E f \in Fault : Fail(r, f)
    BY DEF PipelineNext
  <1>2. Running(r) => req[r] \in Call /\ req[r].route \in Route
    BY <1>t DEF Running, Call
  <1>3. ASSUME Running(r), NEW echo \in Echo \cup {None}, End(r, req[r], "ended", echo),
               UNCHANGED hits
        PROVE  /\ req' \in [Request -> Call \cup {None}] /\ req'[r] \in Call
               /\ \A x \in Request \ {r} : req'[x] = req[x]
               /\ req'[r].outcome = "ended" /\ req'[r].echo = echo
               /\ Ends(r)
    <2>1. /\ req' \in [Request -> Call \cup {None}] /\ req'[r] \in Call
          /\ \A x \in Request \ {r} : req'[x] = req[x]
          /\ req'[r].outcome = "ended" /\ req'[r].echo = echo
          /\ req'[r].client = req[r].client /\ req'[r].route = req[r].route
          /\ req'[r].at = req[r].at
      BY <1>t, <1>2, <1>3, Ended
    <2> QED
      BY <1>3, <2>1 DEF Ends
  <1>4. CASE \E c \in Client, t \in Route, i \in Id : Arrive(r, c, t, i)
    <2>1. PICK c \in Client, t \in Route, i \in Id : Arrive(r, c, t, i)
      BY <1>4
    <2> DEFINE call == [client |-> c, route |-> t, id |-> i, at |-> now,
                        outcome |-> "running", echo |-> None]
    <2> DEFINE entry == Hit(hits[<<c, t>>])
    <2>2. call \in Call /\ call.client = c /\ call.route = t /\ call.at = now
      BY DEF Call
    <2>3. /\ req[r] = None /\ UNCHANGED lastSent
          /\ IF c = Admin THEN End(r, call, "running", None) /\ UNCHANGED <<hits, seen>>
             ELSE /\ hits' = [hits EXCEPT ![<<c, t>>] = entry]
                  /\ IF Within(entry, t) THEN End(r, call, "running", None) /\ UNCHANGED seen
                     ELSE Log(r, call, "throttled", "auth.rate_limited")
      BY <2>1 DEF Arrive
    <2>4. entry \in Entry
      BY <1>t, HitType
    <2>5. hits' \in [Client \X Route -> Entry \cup {None}]
      BY <1>t, <2>3, <2>4
    <2> HIDE DEF call
    <2>6. CASE c = Admin \/ Within(entry, t)
      <3>1. End(r, call, "running", None) /\ UNCHANGED <<seen, lastSent>>
        BY <2>3, <2>6
      <3>2. /\ req' \in [Request -> Call \cup {None}] /\ req'[r] \in Call
            /\ \A x \in Request \ {r} : req'[x] = req[x]
            /\ req'[r].outcome = "running" /\ req'[r].echo = None
            /\ req'[r].client = c /\ req'[r].route = t /\ req'[r].at = now
        BY <1>t, <2>2, <3>1, Ended
      <3>3. Comes(r)
        BY <2>3, <2>6, <3>2 DEF Comes
      <3>4. Quiet(r)
        BY <3>1, <3>2 DEF Quiet
      <3> QED
        BY <1>t, <2>5, <3>1, <3>2, <3>3, <3>4 DEF PipelineTypeOK
    <2>7. CASE c # Admin /\ ~Within(entry, t)
      <3>1. Log(r, call, "throttled", "auth.rate_limited") /\ "auth.rate_limited" \in EventType
        BY <2>3, <2>7 DEF EventType
      <3>2. /\ req' \in [Request -> Call \cup {None}] /\ req'[r] \in Call
            /\ \A x \in Request \ {r} : req'[x] = req[x]
            /\ req'[r].outcome = "throttled"
            /\ req'[r].client = c /\ req'[r].route = t /\ req'[r].at = now
            /\ seen' \in [Trace -> Nat \cup {None}]
            /\ \E key \in Trace \cup Alarm : Suppressed(r, key) \/ Tries(r, key)
        BY <2>2, <2>3, <3>1, Logged
      <3>3. Comes(r)
        BY <2>3, <2>7, <3>2 DEF Comes
      <3> QED
        BY <1>t, <2>3, <2>5, <3>2, <3>3 DEF PipelineTypeOK
    <2> QED
      BY <2>6, <2>7
  <1>5. CASE Mutate(r) \/ Deny(r)
    <2>1. PICK event \in EventType : Log(r, req[r], "ended", event)
      BY <1>5 DEF Mutate, Deny, EventType
    <2>2. Running(r) /\ UNCHANGED <<hits, lastSent>>
      BY <1>5 DEF Mutate, Deny
    <2>3. /\ req' \in [Request -> Call \cup {None}] /\ req'[r] \in Call
          /\ \A x \in Request \ {r} : req'[x] = req[x]
          /\ req'[r].outcome = "ended"
          /\ req'[r].client = req[r].client /\ req'[r].route = req[r].route
          /\ req'[r].at = req[r].at
          /\ seen' \in [Trace -> Nat \cup {None}]
          /\ \E key \in Trace \cup Alarm : Suppressed(r, key) \/ Tries(r, key)
      BY <1>2, <2>1, <2>2, Logged
    <2>4. Ends(r)
      BY <2>2, <2>3 DEF Ends
    <2> QED
      BY <1>t, <2>2, <2>3, <2>4 DEF PipelineTypeOK
  <1>6. CASE Pass(r)
    <2>1. /\ Running(r) /\ End(r, req[r], "ended", None)
          /\ UNCHANGED <<hits, seen, lastSent>>
      BY <1>6 DEF Pass
    <2>2. /\ req' \in [Request -> Call \cup {None}] /\ req'[r] \in Call
          /\ \A x \in Request \ {r} : req'[x] = req[x]
          /\ req'[r].echo = None /\ Ends(r)
      BY <1>3, <2>1
    <2> QED
      BY <1>t, <2>1, <2>2 DEF PipelineTypeOK, Quiet
  <1>7. CASE \E f \in Fault : Fail(r, f)
    <2>1. PICK f \in Fault : Fail(r, f)
      BY <1>7
    <2>2. PICK key \in Alarm : key = <<req[r].route, f>>
      BY <1>2, <2>1 DEF Fail, Alarm
    <2> DEFINE cooling == Recent(lastSent[key], Cooldown)
    <2> DEFINE echo == [key |-> key, at |-> now, tried |-> ~cooling]
    <2>3. /\ Running(r) /\ UNCHANGED <<hits, seen>>
          /\ End(r, req[r], "ended", IF Webhook THEN echo ELSE None)
          /\ lastSent' = IF Webhook /\ ~cooling THEN [lastSent EXCEPT ![key] = now] ELSE lastSent
      BY <2>1, <2>2 DEF Fail
    <2>4. echo \in Echo
      BY <2>2 DEF Echo
    <2>5. Last(key) = lastSent[key] /\ Last(key)' = lastSent'[key] /\ Span(key) = Cooldown
      BY <2>2, Spans DEF Last, Span
    <2> HIDE DEF echo
    <2>6. /\ req' \in [Request -> Call \cup {None}] /\ req'[r] \in Call
          /\ \A x \in Request \ {r} : req'[x] = req[x]
          /\ req'[r].outcome = "ended" /\ req'[r].echo = IF Webhook THEN echo ELSE None
          /\ Ends(r)
      BY <1>3, <2>3, <2>4
    <2>7. lastSent' \in [Alarm -> Nat \cup {None}]
      BY <1>t, <2>3
    <2>8. CASE ~Webhook
      BY <1>t, <2>3, <2>6, <2>7, <2>8 DEF PipelineTypeOK, Quiet
    <2>9. CASE Webhook /\ cooling
      <3>1. Suppressed(r, key)
        BY <2>3, <2>5, <2>6, <2>9 DEF Suppressed, echo
      <3> QED
        BY <1>t, <2>3, <2>2, <2>6, <2>7, <3>1 DEF PipelineTypeOK
    <2>10. CASE Webhook /\ ~cooling
      <3>1. /\ lastSent'[key] = now
            /\ \A k \in Alarm \ {key} : lastSent'[k] = lastSent[k]
        BY <1>t, <2>3, <2>2, <2>10
      <3>2. Last(key)' = now
        BY <2>5, <3>1
      <3>3. \A k \in (Trace \cup Alarm) \ {key} : Last(k)' = Last(k)
        BY <2>3, <3>1 DEF Last
      <3>4. Tries(r, key)
        BY <2>5, <2>6, <2>10, <3>2, <3>3 DEF Tries, echo
      <3> QED
        BY <1>t, <2>3, <2>2, <2>6, <2>7, <3>4 DEF PipelineTypeOK
    <2> QED
      BY <2>8, <2>9, <2>10
  <1> QED
    BY <1>1, <1>4, <1>5, <1>6, <1>7

-----------------------------------------------------------------------------
(* What requests leave behind.                                             *)
LEMMA EchoTypes ==
  ASSUME PipelineTypeOK, NEW x \in Echoing
  PROVE  /\ x \in Request /\ req[x] \in Call /\ req[x].echo \in Echo
         /\ req[x].echo.key \in Trace \cup Alarm /\ req[x].echo.at \in Nat
  <1>1. x \in Request /\ req[x] # None /\ req[x].echo # None
    BY DEF Echoing
  <1>2. req[x] \in Call
    BY <1>1 DEF PipelineTypeOK
  <1>3. req[x].echo \in Echo
    BY <1>1, <1>2 DEF Call
  <1> QED
    BY <1>1, <1>2, <1>3 DEF Echo

LEMMA TimesStep ==
  ASSUME now \in Nat, PipelineTypeOK, TimesOK, now' = now, NEW r \in Request,
         req'[r] \in Call, \A x \in Request \ {r} : req'[x] = req[x],
         Comes(r) \/ Ends(r),
         Quiet(r) \/ \E key \in Trace \cup Alarm : Suppressed(r, key) \/ Tries(r, key)
  PROVE  TimesOK'
  <1>1. req'[r].at <= now
    <2>1. CASE Comes(r)
      BY <2>1 DEF Comes
    <2>2. CASE Ends(r)
      BY <2>2 DEF Ends, Running, TimesOK
    <2> QED
      BY <2>1, <2>2
  <1>2. /\ req'[r].outcome = "running" => req'[r].echo = None
        /\ req'[r].echo # None => req'[r].echo.at <= now
    <2>1. CASE Quiet(r)
      BY <2>1 DEF Quiet
    <2>2. ASSUME NEW key, Suppressed(r, key) \/ Tries(r, key)
          PROVE  req'[r].outcome # "running" /\ req'[r].echo.at = now
      BY <2>2 DEF Suppressed, Tries
    <2> QED
      BY <2>1, <2>2
  <1>3. ASSUME NEW x \in Request \ {r}, req'[x] # None
        PROVE  /\ req'[x].at <= now
               /\ req'[x].outcome = "running" => req'[x].echo = None
               /\ req'[x].echo # None => req'[x].echo.at <= now
    BY <1>3 DEF TimesOK, Running
  <1> QED
    BY <1>1, <1>2, <1>3 DEF TimesOK, Running

Fits(r, key) ==
    LET echo == req[r].echo
    IN  IF echo.tried
        THEN \A x \in Tried(key) \ {r} : \/ req[x].echo.at + Span(key) <= echo.at
                                         \/ echo.at + Span(key) <= req[x].echo.at
        ELSE \E x \in Tried(key) : /\ req[x].echo.at <= echo.at
                                   /\ echo.at < req[x].echo.at + Span(key)

LEMMA AllFit ==
  EchoesAccounted <=> \A r \in Echoing : \A key : req[r].echo.key = key => Fits(r, key)
  BY DEF EchoesAccounted, Fits

LEMMA EchoStep ==
  ASSUME now \in Nat, PipelineTypeOK, TimesOK, EchoInv, now' = now, NEW r \in Request,
         req'[r] \in Call, \A x \in Request \ {r} : req'[x] = req[x],
         Comes(r) \/ Ends(r),
         Quiet(r) \/ \E key \in Trace \cup Alarm : Suppressed(r, key) \/ Tries(r, key)
  PROVE  EchoInv'
  <1>1. req[r] = None \/ req[r].echo = None
    <2>1. Comes(r) => req[r] = None
      BY DEF Comes
    <2>2. Ends(r) => Running(r)
      BY DEF Ends
    <2> QED
      BY <2>1, <2>2 DEF TimesOK, Running
  <1>2. req'[r] # None
    BY AbsentAssumption
  <1>3. r \notin Echoing /\ \A k : r \notin Tried(k)
    BY <1>1 DEF Echoing, Tried
  <1>4. \A x \in Echoing : req'[x] = req[x] /\ x \in Request
    BY <1>3 DEF Echoing
  <1>5. \A k : \A x \in Tried(k) :
           /\ req'[x] = req[x] /\ x \in Echoing
           /\ req[x].echo.key = k /\ req[x].echo.tried
    BY <1>4 DEF Tried
  <1>6. \A x \in Echoing : req[x].echo.key \in Trace \cup Alarm /\ req[x].echo.at \in Nat
                             /\ req[x].echo.at <= now
    BY EchoTypes DEF TimesOK, Echoing
  <1>7. /\ EchoesAccounted /\ \A k \in Trace \cup Alarm : Remembered(k)
        /\ \A k \in Trace \cup Alarm : Last(k) # None => Last(k) \in Nat
    BY DEF EchoInv, Last, PipelineTypeOK
  <1>n. None \notin Nat /\ None \notin Echo
    BY AbsentAssumption
  <1>8. ASSUME NEW key \in Trace \cup Alarm, NEW tried \in BOOLEAN,
               req'[r].echo = [key |-> key, at |-> now, tried |-> tried]
        PROVE  /\ Echoing' = Echoing \cup {r}
               /\ \A k : Tried(k)' = IF tried /\ k = key THEN Tried(k) \cup {r} ELSE Tried(k)
    <2>1. req'[r].echo \in Echo
      BY <1>8 DEF Echo
    <2>2. Echoing' = Echoing \cup {r}
      BY <1>1, <1>2, <1>n, <2>1 DEF Echoing
    <2>3. req'[r].echo.key = key /\ req'[r].echo.tried = tried
      BY <1>8
    <2>4. ASSUME NEW k PROVE Tried(k)' = IF tried /\ k = key THEN Tried(k) \cup {r} ELSE Tried(k)
      BY <1>3, <1>4, <2>2, <2>3 DEF Tried
    <2> QED
      BY <2>2, <2>4
  <1>9. CASE Quiet(r)
    <2>1. Echoing' = Echoing
      BY <1>1, <1>9 DEF Echoing, Quiet
    <2>2. \A k : Tried(k)' = Tried(k)
      BY <1>4, <2>1 DEF Tried
    <2>3. \A k : Last(k)' = Last(k)
      BY <1>9 DEF Quiet, Last
    <2>4. EchoesAccounted'
      BY <1>4, <1>5, <1>7, <2>1, <2>2 DEF EchoesAccounted
    <2>5. \A k \in Trace \cup Alarm : Remembered(k)'
      BY <1>5, <1>7, <2>2, <2>3 DEF Remembered
    <2> QED
      BY <2>4, <2>5 DEF EchoInv
  <1>10. ASSUME NEW key \in Trace \cup Alarm, Suppressed(r, key) PROVE EchoInv'
    <2>1. Echoing' = Echoing \cup {r} /\ \A k : Tried(k)' = Tried(k)
      BY <1>8, <1>10 DEF Suppressed
    <2>2. \A k : Last(k)' = Last(k)
      BY <1>10 DEF Suppressed, Last
    <2>3. req'[r].echo.key = key /\ req'[r].echo.at = now /\ ~req'[r].echo.tried
      BY <1>10 DEF Suppressed
    <2>4. Last(key) # None /\ Last(key) \in Nat /\ now - Last(key) < Span(key)
      BY <1>7, <1>10 DEF Suppressed, Recent
    <2>5. PICK x \in Tried(key) : req[x].echo.at = Last(key) /\ Last(key) <= now
      BY <1>7, <2>4 DEF Remembered
    <2>6. req[x].echo.at <= now /\ now < req[x].echo.at + Span(key)
      BY <2>4, <2>5, Spans
    <2>7. EchoesAccounted'
      <3> SUFFICES ASSUME NEW y \in Echoing', NEW k, req'[y].echo.key = k PROVE Fits(y, k)'
        BY DEF EchoesAccounted, Fits, Span, Tried
      <3>1. CASE y = r
        BY <1>5, <2>1, <2>3, <2>5, <2>6, <3>1 DEF Fits, Span
      <3>2. CASE y \in Echoing
        <4>1. Fits(y, k)
          BY <1>4, <1>7, <3>2, AllFit
        <4> QED
          BY <1>4, <1>5, <2>1, <3>2, <4>1 DEF Fits, Span
      <3> QED
        BY <2>1, <3>1, <3>2
    <2>8. \A k \in Trace \cup Alarm : Remembered(k)'
      BY <1>5, <1>7, <2>1, <2>2 DEF Remembered
    <2> QED
      BY <2>7, <2>8 DEF EchoInv
  <1>11. ASSUME NEW key \in Trace \cup Alarm, Tries(r, key) PROVE EchoInv'
    <2>1. /\ Echoing' = Echoing \cup {r}
          /\ \A k : Tried(k)' = IF k = key THEN Tried(k) \cup {r} ELSE Tried(k)
      BY <1>8, <1>11 DEF Tries
    <2>2. req'[r].echo.key = key /\ req'[r].echo.at = now /\ req'[r].echo.tried
      BY <1>11 DEF Tries
    <2>3. \A x \in Tried(key) : req[x].echo.at + Span(key) <= now
      BY <1>5, <1>6, <1>7, <1>11, Spans DEF Tries, Recent, Remembered
    <2>4. EchoesAccounted'
      <3> SUFFICES ASSUME NEW y \in Echoing', NEW k, req'[y].echo.key = k PROVE Fits(y, k)'
        BY DEF EchoesAccounted, Fits, Span, Tried
      <3>1. CASE y = r
        BY <1>3, <1>5, <2>1, <2>2, <2>3, <3>1 DEF Fits, Span
      <3>2. CASE y \in Echoing
        <4>1. req'[y] = req[y] /\ y # r
          BY <1>3, <1>4, <3>2
        <4>2. Fits(y, k)
          BY <1>7, <3>2, <4>1, AllFit
        <4>3. CASE req[y].echo.tried
          <5>1. y \in Tried(k)
            BY <3>2, <4>1, <4>3 DEF Tried
          <5>2. k = key => req[y].echo.at + Span(key) <= now
            BY <2>3, <5>1
          <5> QED
            BY <1>5, <2>1, <2>2, <4>1, <4>2, <4>3, <5>2 DEF Fits, Span
        <4>4. CASE ~req[y].echo.tried
          BY <1>5, <2>1, <4>1, <4>2, <4>4 DEF Fits, Span
        <4> QED
          BY <4>3, <4>4
      <3> QED
        BY <2>1, <3>1, <3>2
    <2>5. ASSUME NEW k \in Trace \cup Alarm PROVE Remembered(k)'
      <3>1. CASE k = key
        <4>1. Last(k)' = now /\ r \in Tried(k)' /\ req'[r].echo.at = now
          BY <1>11, <2>1, <2>2, <3>1 DEF Tries
        <4>2. \A x \in Tried(k)' : req'[x].echo.at <= now
          BY <1>5, <1>6, <2>1, <2>2, <3>1
        <4> QED
          BY <1>n, <4>1, <4>2 DEF Remembered
      <3>2. CASE k # key
        <4>1. Tried(k)' = Tried(k) /\ \A x \in Tried(k) : req'[x] = req[x]
          BY <1>5, <2>1, <3>2
        <4>2. Last(k)' = Last(k) \/ (Last(k)' = None /\ ~Recent(Last(k), Span(k)))
          BY <1>11, <3>2 DEF Tries
        <4>3. \A x \in Tried(k) : \/ req[x].echo.at + Span(k) <= now
                                  \/ Last(k)' # None /\ req[x].echo.at <= Last(k)'
          BY <1>5, <1>6, <1>7, <4>2, Spans DEF Remembered, Recent
        <4> QED
          BY <1>7, <4>1, <4>2, <4>3 DEF Remembered, Span
      <3> QED
        BY <3>1, <3>2
    <2> QED
      BY <2>4, <2>5 DEF EchoInv
  <1> QED
    BY <1>9, <1>10, <1>11

-----------------------------------------------------------------------------
(* How many are let in.                                                    *)
LEMMA Sizes ==
  ASSUME NEW S \in SUBSET Request
  PROVE  /\ IsFiniteSet(S) /\ Cardinality(S) \in Nat
         /\ \A T \in SUBSET S : Cardinality(T) <= Cardinality(S)
  <1>1. IsFiniteSet(S)
    BY RequestAssumption, FS_Subset
  <1> QED
    BY <1>1, FS_Subset, FS_CardinalityType

LEMMA TwoParts ==
  ASSUME NEW L \in Nat, NEW B \in SUBSET Request, NEW S \in SUBSET Request,
         NEW F \in SUBSET (B \cup S), Cardinality(B) < L, Cardinality(S) <= L
  PROVE  Cardinality(F) < 2 * L
  <1>1. /\ Cardinality(B) \in Nat /\ Cardinality(S) \in Nat
        /\ Cardinality(F) \in Nat /\ Cardinality(B \cap S) \in Nat
    BY Sizes
  <1>2. Cardinality(F) <= Cardinality(B \cup S)
    BY Sizes
  <1>3. Cardinality(B \cup S) = Cardinality(B) + Cardinality(S) - Cardinality(B \cap S)
    BY Sizes, FS_Union
  <1>4. Cardinality(B \cup S) \in Nat
    BY Sizes
  <1> QED
    BY <1>1, <1>2, <1>3, <1>4

LEMMA AdmittedTypes ==
  ASSUME PipelineTypeOK, TimesOK, NEW c, NEW t
  PROVE  /\ Admitted(c, t) \subseteq Counted(c, t) /\ Counted(c, t) \subseteq Request
         /\ \A x \in Counted(c, t) : req[x].at \in Nat /\ req[x].at <= now
  BY DEF Admitted, Counted, PipelineTypeOK, TimesOK, Call

(* What an entry says of the requests is not disturbed by those of others. *)
LEMMA AdmissionSame ==
  ASSUME now \in Nat, now' \in Nat, now <= now', PipelineTypeOK, TimesOK,
         NEW c \in Client, NEW t \in Route, Bounded(c, t), Windows(c, t),
         Counted(c, t)' = Counted(c, t), Admitted(c, t)' = Admitted(c, t),
         \A x \in Counted(c, t) : req'[x].at = req[x].at,
         hits'[<<c, t>>] = hits[<<c, t>>]
  PROVE  Bounded(c, t)' /\ Windows(c, t)'
  <1>1. \A x \in Admitted(c, t) : req'[x].at = req[x].at
    BY DEF Admitted
  <1>2. \A s : From(c, t, s)' = From(c, t, s) /\ UpTo(c, t, s)' = UpTo(c, t, s)
    BY <1>1 DEF From, UpTo
  <1>3. \A s, start : /\ Since(c, t, start)' = Since(c, t, start)
                      /\ Before(c, t, s, start)' = Before(c, t, s, start)
    BY <1>1 DEF Since, Before
  <1>4. Bounded(c, t)'
    BY <1>2 DEF Bounded
  <1>5. ASSUME NEW start \in Nat, Windowed(c, t, start) PROVE Windowed(c, t, start)'
    BY <1>1, <1>3, <1>5 DEF Windowed
  <1>6. Windows(c, t)'
    BY <1>5 DEF Windows
  <1> QED
    BY <1>4, <1>6

(* A request more is let in: the limit of two windows is not reached, and  *)
(* what was let in before a time does not shrink.                          *)
LEMMA AdmitOne ==
  ASSUME now \in Nat, now' = now, PipelineTypeOK, TimesOK, TimesOK', PipelineTypeOK',
         NEW c \in Client, NEW t \in Route, Bounded(c, t), NEW r \in Request,
         Counted(c, t)' = Counted(c, t) \cup {r}, Admitted(c, t)' = Admitted(c, t) \cup {r},
         r \notin Counted(c, t), req'[r].at = now,
         \A x \in Counted(c, t) : req'[x].at = req[x].at,
         NEW start \in Nat, start <= now,
         Cardinality(Since(c, t, start)') <= Limit[t],
         \A s \in Nat : start < s + Window => Cardinality(Before(c, t, s, start)') < Limit[t]
  PROVE  Bounded(c, t)'
  <1>1. /\ Admitted(c, t) \subseteq Counted(c, t) /\ Counted(c, t) \subseteq Request
        /\ \A x \in Counted(c, t) : req[x].at \in Nat /\ req[x].at <= now
    BY AdmittedTypes
  <1>2. Limit[t] \in Nat /\ Window \in Nat
    BY Spans
  <1>3. ASSUME NEW s \in Nat PROVE Cardinality(From(c, t, s)') < 2 * Limit[t]
    <2>1. CASE start < s + Window
      <3>1. From(c, t, s)' \subseteq Before(c, t, s, start)' \cup Since(c, t, start)'
        BY <1>1 DEF From, Before, Since
      <3>2. Before(c, t, s, start)' \subseteq Request /\ Since(c, t, start)' \subseteq Request
        BY <1>1 DEF Before, Since
      <3> QED
        BY <1>2, <2>1, <3>1, <3>2, TwoParts
    <2>2. CASE ~(start < s + Window)
      <3>1. From(c, t, s)' = From(c, t, s)
        BY <1>1, <1>2, <2>2 DEF From
      <3> QED
        BY <3>1 DEF Bounded
    <2> QED
      BY <2>1, <2>2
  <1>4. ASSUME NEW x \in Counted(c, t)' \ Admitted(c, t)', NEW a, a = req'[x].at
        PROVE  Cardinality(UpTo(c, t, a)') >= Limit[t]
    <2>1. x \in Counted(c, t) \ Admitted(c, t) /\ a = req[x].at
      BY <1>4
    <2>2. UpTo(c, t, a) \subseteq UpTo(c, t, a)'
      BY <1>1 DEF UpTo
    <2>3. UpTo(c, t, a)' \subseteq Request /\ UpTo(c, t, a) \subseteq Request
      BY <1>1 DEF UpTo
    <2>4. Cardinality(UpTo(c, t, a)) >= Limit[t]
      BY <2>1 DEF Bounded
    <2>5. /\ Cardinality(UpTo(c, t, a)') \in Nat /\ Cardinality(UpTo(c, t, a)) \in Nat
          /\ Cardinality(UpTo(c, t, a)) <= Cardinality(UpTo(c, t, a)')
      BY <2>2, <2>3, Sizes
    <2> QED
      BY <1>2, <2>4, <2>5
  <1> QED
    BY <1>3, <1>4 DEF Bounded, UpTo

(* A request in a window that is over, or the first, starts another.       *)
LEMMA Renewed ==
  ASSUME now \in Nat, now' = now, PipelineTypeOK, TimesOK, TimesOK', PipelineTypeOK',
         NEW c \in Client, NEW t \in Route, Bounded(c, t), Windows(c, t), NEW r \in Request,
         Counted(c, t)' = Counted(c, t) \cup {r}, Admitted(c, t)' = Admitted(c, t) \cup {r},
         r \notin Counted(c, t), req'[r].at = now,
         \A x \in Counted(c, t) : req'[x].at = req[x].at,
         hits[<<c, t>>] = None \/ hits[<<c, t>>].resetAt <= now,
         hits'[<<c, t>>] # None, hits'[<<c, t>>].count = 1,
         hits'[<<c, t>>].resetAt = now + Window
  PROVE  Bounded(c, t)' /\ Windows(c, t)'
  <1>1. /\ Admitted(c, t) \subseteq Counted(c, t) /\ Counted(c, t) \subseteq Request
        /\ \A x \in Counted(c, t) : req[x].at \in Nat /\ req[x].at <= now
    BY AdmittedTypes
  <1>2. Limit[t] \in Nat /\ Limit[t] > 0 /\ Window \in Nat /\ Window > 0
    BY Spans
  <1>3. ASSUME NEW x \in Admitted(c, t) PROVE req[x].at < now
    <2>1. PICK start \in Nat : Windowed(c, t, start)
      BY <1>3 DEF Windows
    <2>2. hits[<<c, t>>].resetAt = start + Window /\ req[x].at < start + Window
      BY <2>1 DEF Windowed
    <2>3. hits[<<c, t>>] # None
      BY <1>3 DEF Windows
    <2> QED
      BY <1>1, <1>2, <2>2, <2>3
  <1>4. PICK n \in Nat : n = now
    OBVIOUS
  <1>5. Since(c, t, n)' = {r} /\ Cardinality(Since(c, t, n)') = 1
    <2>1. Since(c, t, n)' = {r}
      BY <1>1, <1>3, <1>4 DEF Since
    <2> QED
      BY <2>1, FS_Singleton
  <1>6. ASSUME NEW s \in Nat, n < s + Window
        PROVE  Cardinality(Before(c, t, s, n)') < Limit[t]
    <2>1. CASE Admitted(c, t) = {}
      <3>1. Before(c, t, s, n)' = {}
        BY <1>4, <2>1 DEF Before
      <3> QED
        BY <1>2, <3>1, FS_EmptySet
    <2>2. CASE Admitted(c, t) # {}
      <3>1. PICK start \in Nat : Windowed(c, t, start)
        BY <2>2 DEF Windows
      <3>2. PICK first \in Admitted(c, t) : req[first].at = start
        BY <3>1 DEF Windowed
      <3>3. hits[<<c, t>>].resetAt = start + Window /\ start + Window <= now
        BY <2>2, <3>1 DEF Windowed, Windows
      <3>4. Before(c, t, s, n)' \subseteq Since(c, t, start) \ {first}
        BY <1>1, <1>2, <1>4, <1>6, <3>2, <3>3 DEF Before, Since
      <3>5. /\ Since(c, t, start) \subseteq Request /\ first \in Since(c, t, start)
            /\ Since(c, t, start) \ {first} \subseteq Request
        BY <1>1, <3>2 DEF Since
      <3>6. Cardinality(Since(c, t, start)) <= Limit[t]
        <4>1. hits[<<c, t>>] \in Entry
          BY <2>2 DEF Windows, PipelineTypeOK
        <4>2. hits[<<c, t>>].count \in Nat
          BY <4>1 DEF Entry
        <4> QED
          BY <1>2, <3>1, <4>2 DEF Windowed
      <3>7. Cardinality(Since(c, t, start) \ {first}) = Cardinality(Since(c, t, start)) - 1
        BY <3>5, Sizes, FS_RemoveElement
      <3>8. Cardinality(Before(c, t, s, n)') <= Cardinality(Since(c, t, start) \ {first})
        BY <3>4, <3>5, Sizes
      <3>9. Before(c, t, s, n)' \subseteq Request
        BY <3>4, <3>5
      <3>10. Cardinality(Before(c, t, s, n)') \in Nat /\ Cardinality(Since(c, t, start)) \in Nat
        BY <3>5, <3>9, Sizes
      <3> QED
        BY <1>2, <3>6, <3>7, <3>8, <3>10
    <2> QED
      BY <2>1, <2>2
  <1>7. Bounded(c, t)'
    <2>1. n <= now /\ Cardinality(Since(c, t, n)') <= Limit[t]
      BY <1>2, <1>4, <1>5
    <2>2. \A s \in Nat : n < s + Window => Cardinality(Before(c, t, s, n)') < Limit[t]
      BY <1>6
    <2> QED
      BY <2>1, <2>2, AdmitOne
  <1>8. Windowed(c, t, n)'
    <2>1. \A x \in Admitted(c, t)' : req'[x].at < now + Window
      BY <1>1, <1>2
    <2>2. r \in Admitted(c, t)' /\ req'[r].at = n
      BY <1>4
    <2> QED
      BY <1>2, <1>4, <1>5, <1>6, <2>1, <2>2 DEF Windowed
  <1>9. Windows(c, t)'
    BY <1>8 DEF Windows
  <1> QED
    BY <1>7, <1>9

(* A request within the limit of a window that goes on.                    *)
LEMMA Continued ==
  ASSUME now \in Nat, now' = now, PipelineTypeOK, TimesOK, TimesOK', PipelineTypeOK',
         NEW c \in Client, NEW t \in Route, Bounded(c, t), Windows(c, t), NEW r \in Request,
         Counted(c, t)' = Counted(c, t) \cup {r}, Admitted(c, t)' = Admitted(c, t) \cup {r},
         r \notin Counted(c, t), req'[r].at = now,
         \A x \in Counted(c, t) : req'[x].at = req[x].at,
         hits[<<c, t>>] # None, ~(hits[<<c, t>>].resetAt <= now),
         hits'[<<c, t>>] # None, hits'[<<c, t>>].count = hits[<<c, t>>].count + 1,
         hits'[<<c, t>>].resetAt = hits[<<c, t>>].resetAt,
         hits'[<<c, t>>].count <= Limit[t]
  PROVE  Bounded(c, t)' /\ Windows(c, t)'
  <1>1. /\ Admitted(c, t) \subseteq Counted(c, t) /\ Counted(c, t) \subseteq Request
        /\ \A x \in Counted(c, t) : req[x].at \in Nat /\ req[x].at <= now
    BY AdmittedTypes
  <1>2. Limit[t] \in Nat /\ Limit[t] > 0 /\ Window \in Nat /\ Window > 0
    BY Spans
  <1>3. PICK start \in Nat : Windowed(c, t, start)
    BY DEF Windows
  <1>4. hits[<<c, t>>] \in Entry /\ hits[<<c, t>>].count \in Nat
    BY DEF PipelineTypeOK, Entry
  <1>5. /\ hits[<<c, t>>].resetAt = start + Window /\ start <= now
        /\ Cardinality(Since(c, t, start)) = hits[<<c, t>>].count
        /\ \A x \in Admitted(c, t) : req[x].at < start + Window
    BY <1>2, <1>3, <1>4 DEF Windowed
  <1>6. Cardinality(Since(c, t, start)') = hits[<<c, t>>].count + 1
    <2>1. Since(c, t, start)' = Since(c, t, start) \cup {r} /\ r \notin Since(c, t, start)
      BY <1>1, <1>5 DEF Since
    <2>2. IsFiniteSet(Since(c, t, start))
      <3>1. Since(c, t, start) \subseteq Request
        BY <1>1 DEF Since
      <3> QED
        BY <3>1, Sizes
    <2>3. Cardinality(Since(c, t, start) \cup {r}) = Cardinality(Since(c, t, start)) + 1
      BY <2>1, <2>2, FS_AddElement
    <2> QED
      BY <1>5, <2>1, <2>3
  <1>7. \A s \in Nat : Before(c, t, s, start)' = Before(c, t, s, start)
    BY <1>1, <1>5 DEF Before
  <1>8. \A s \in Nat : start < s + Window => Cardinality(Before(c, t, s, start)') < Limit[t]
    BY <1>3, <1>7 DEF Windowed
  <1>9. Bounded(c, t)'
    <2>1. Cardinality(Since(c, t, start)') <= Limit[t]
      BY <1>6
    <2> QED
      BY <1>5, <1>8, <2>1, AdmitOne
  <1>10. Windowed(c, t, start)'
    <2>1. now < start + Window
      BY <1>2, <1>5
    <2>2. \A x \in Admitted(c, t)' : req'[x].at < start + Window
      BY <1>1, <1>5, <2>1
    <2>3. \E x \in Admitted(c, t)' : req'[x].at = start
      BY <1>1, <1>3 DEF Windowed
    <2> QED
      BY <1>2, <1>4, <1>5, <1>6, <1>8, <2>2, <2>3 DEF Windowed
  <1>11. Windows(c, t)'
    BY <1>10 DEF Windows
  <1> QED
    BY <1>9, <1>11

(* A request over the limit: the limit's worth was let in since the window *)
(* began, which is less than a window's length ago.                        *)
LEMMA Throttled ==
  ASSUME now \in Nat, now' = now, PipelineTypeOK, TimesOK, TimesOK', PipelineTypeOK',
         NEW c \in Client, NEW t \in Route, Bounded(c, t), Windows(c, t), NEW r \in Request,
         Counted(c, t)' = Counted(c, t) \cup {r}, Admitted(c, t)' = Admitted(c, t),
         r \notin Counted(c, t), req'[r].at = now,
         \A x \in Counted(c, t) : req'[x].at = req[x].at,
         hits[<<c, t>>] # None, ~(hits[<<c, t>>].resetAt <= now),
         hits'[<<c, t>>] # None, hits'[<<c, t>>].count = hits[<<c, t>>].count + 1,
         hits'[<<c, t>>].resetAt = hits[<<c, t>>].resetAt,
         ~(hits'[<<c, t>>].count <= Limit[t])
  PROVE  Bounded(c, t)' /\ Windows(c, t)'
  <1>1. /\ Admitted(c, t) \subseteq Counted(c, t) /\ Counted(c, t) \subseteq Request
        /\ \A x \in Counted(c, t) : req[x].at \in Nat /\ req[x].at <= now
    BY AdmittedTypes
  <1>2. Limit[t] \in Nat /\ Limit[t] > 0 /\ Window \in Nat /\ Window > 0
    BY Spans
  <1>3. PICK start \in Nat : Windowed(c, t, start)
    BY DEF Windows
  <1>4. hits[<<c, t>>] \in Entry /\ hits[<<c, t>>].count \in Nat
    BY DEF PipelineTypeOK, Entry
  <1>5. /\ hits[<<c, t>>].resetAt = start + Window /\ start <= now
        /\ Cardinality(Since(c, t, start)) = Limit[t]
    BY <1>2, <1>3, <1>4 DEF Windowed
  <1>6. \A x \in Admitted(c, t) : req'[x].at = req[x].at
    BY <1>1
  <1>7. \A s : From(c, t, s)' = From(c, t, s) /\ UpTo(c, t, s)' = UpTo(c, t, s)
    BY <1>6 DEF From, UpTo
  <1>8. ASSUME NEW x \in Counted(c, t)' \ Admitted(c, t)', NEW a, a = req'[x].at
        PROVE  Cardinality(UpTo(c, t, a)) >= Limit[t]
    <2>1. CASE x = r
      <3>1. a = now
        BY <1>8, <2>1
      <3>2. Since(c, t, start) \subseteq UpTo(c, t, a)
        BY <1>1, <1>2, <1>5, <3>1 DEF Since, UpTo
      <3>3. UpTo(c, t, a) \subseteq Request
        BY <1>1 DEF UpTo
      <3> QED
        BY <1>2, <1>5, <3>2, <3>3, Sizes
    <2>2. CASE x # r
      BY <1>8, <2>2 DEF Bounded
    <2> QED
      BY <2>1, <2>2
  <1>9. Bounded(c, t)'
    <2>1. \A s \in Nat : Cardinality(From(c, t, s)') < 2 * Limit[t]
      BY <1>7 DEF Bounded
    <2> QED
      BY <1>7, <1>8, <2>1 DEF Bounded, UpTo
  <1>10. \A s : /\ Since(c, t, start)' = Since(c, t, start)
                /\ Before(c, t, s, start)' = Before(c, t, s, start)
    BY <1>6 DEF Since, Before
  <1>11. Windowed(c, t, start)'
    BY <1>2, <1>3, <1>4, <1>5, <1>6, <1>10 DEF Windowed
  <1>12. Windows(c, t)'
    BY <1>11 DEF Windows
  <1> QED
    BY <1>9, <1>12

LEMMA AdmissionStep ==
  ASSUME now \in Nat, now' = now, PipelineTypeOK, TimesOK, TimesOK', PipelineTypeOK',
         AdmissionInv, NEW r \in Request,
         req'[r] \in Call, \A x \in Request \ {r} : req'[x] = req[x],
         Comes(r) \/ Ends(r)
  PROVE  AdmissionInv'
  <1> SUFFICES ASSUME NEW c \in Client \ {Admin}, NEW t \in Route
               PROVE  Bounded(c, t)' /\ Windows(c, t)'
    BY DEF AdmissionInv
  <1>1. Bounded(c, t) /\ Windows(c, t)
    BY DEF AdmissionInv
  <1>n. None \notin Call /\ None \notin Entry
    BY AbsentAssumption
  <1>2. CASE Ends(r)
    <2>1. /\ req[r] # None /\ req'[r] # None /\ req[r].outcome = "running"
          /\ req'[r].outcome = "ended" /\ req'[r].client = req[r].client
          /\ req'[r].route = req[r].route /\ req'[r].at = req[r].at /\ UNCHANGED hits
      BY <1>n, <1>2 DEF Ends, Running
    <2>2. Counted(c, t)' = Counted(c, t)
      BY <2>1 DEF Counted
    <2>3. \A x \in Counted(c, t) :
             /\ req'[x].at = req[x].at
             /\ req'[x].outcome = "throttled" <=> req[x].outcome = "throttled"
      BY <2>1 DEF Counted
    <2>4. Admitted(c, t)' = Admitted(c, t)
      BY <2>2, <2>3 DEF Admitted
    <2> QED
      BY <1>1, <2>1, <2>2, <2>3, <2>4, AdmissionSame
  <1>3. CASE Comes(r) /\ <<req'[r].client, req'[r].route>> # <<c, t>>
    <2>1. req[r] = None /\ req'[r] # None /\ hits'[<<c, t>>] = hits[<<c, t>>]
      BY <1>n, <1>3 DEF Comes, PipelineTypeOK
    <2>2. Counted(c, t)' = Counted(c, t) /\ r \notin Counted(c, t)
      BY <1>3, <2>1 DEF Counted
    <2>3. \A x \in Counted(c, t) : req'[x] = req[x]
      BY <2>2 DEF Counted
    <2>4. Admitted(c, t)' = Admitted(c, t)
      BY <2>2, <2>3 DEF Admitted
    <2> QED
      BY <1>1, <2>1, <2>2, <2>3, <2>4, AdmissionSame
  <1>4. CASE Comes(r) /\ <<req'[r].client, req'[r].route>> = <<c, t>>
    <2> DEFINE e == hits[<<c, t>>]
    <2>1. /\ req[r] = None /\ req'[r] # None /\ req'[r].at = now
          /\ req'[r].client = c /\ req'[r].route = t
          /\ hits' = [hits EXCEPT ![<<c, t>>] = Hit(e)]
          /\ req'[r].outcome = IF Within(Hit(e), t) THEN "running" ELSE "throttled"
      BY <1>n, <1>4 DEF Comes
    <2>2. Counted(c, t)' = Counted(c, t) \cup {r} /\ r \notin Counted(c, t)
      BY <2>1 DEF Counted
    <2>3. \A x \in Counted(c, t) : req'[x] = req[x]
      BY <2>2 DEF Counted
    <2>4. Admitted(c, t)' = IF Within(Hit(e), t) THEN Admitted(c, t) \cup {r} ELSE Admitted(c, t)
      BY <2>1, <2>2, <2>3 DEF Admitted
    <2>5. e \in Entry \cup {None} /\ hits'[<<c, t>>] = Hit(e)
      BY <2>1 DEF PipelineTypeOK
    <2>6. /\ Hit(e) # None
          /\ IF e = None \/ e.resetAt <= now
             THEN Hit(e).count = 1 /\ Hit(e).resetAt = now + Window
             ELSE Hit(e).count = e.count + 1 /\ Hit(e).resetAt = e.resetAt
      BY <1>n, <2>5, HitType
    <2> HIDE DEF e
    <2>7. CASE e = None \/ e.resetAt <= now
      <3>1. Within(Hit(e), t)
        BY <2>6, <2>7, Spans DEF Within
      <3> QED
        BY <1>1, <2>1, <2>2, <2>3, <2>4, <2>5, <2>6, <2>7, <3>1, Renewed DEF e
    <2>8. CASE e # None /\ ~(e.resetAt <= now) /\ Within(Hit(e), t)
      BY <1>1, <2>1, <2>2, <2>3, <2>4, <2>5, <2>6, <2>8, Continued DEF e, Within
    <2>9. CASE e # None /\ ~(e.resetAt <= now) /\ ~Within(Hit(e), t)
      BY <1>1, <2>1, <2>2, <2>3, <2>4, <2>5, <2>6, <2>9, Throttled DEF e, Within
    <2> QED
      BY <2>7, <2>8, <2>9
  <1> QED
    BY <1>2, <1>3, <1>4

-----------------------------------------------------------------------------
(* All of it.                                                              *)
LEMMA PipelineEmpty == PipelineInit /\ now \in Nat => PipelineInv
  <1> SUFFICES ASSUME PipelineInit, now \in Nat PROVE PipelineInv
    OBVIOUS
  <1> USE DEF PipelineInit
  <1>1. PipelineTypeOK /\ TimesOK
    BY DEF PipelineTypeOK, TimesOK
  <1>2. Echoing = {} /\ \A k : Tried(k) = {}
    BY DEF Echoing, Tried
  <1>3. EchoInv
    BY <1>2 DEF EchoInv, EchoesAccounted, Remembered, Last
  <1>4. ASSUME NEW c \in Client, NEW t \in Route PROVE Bounded(c, t) /\ Windows(c, t)
    <2>1. Counted(c, t) = {} /\ Admitted(c, t) = {}
      BY DEF Counted, Admitted
    <2>2. \A s : From(c, t, s) = {}
      BY <2>1 DEF From
    <2>3. \A s \in Nat : Cardinality(From(c, t, s)) < 2 * Limit[t]
      <3>1. \A s : Cardinality(From(c, t, s)) = 0
        BY <2>2, FS_EmptySet, Zenon
      <3> QED
        BY <3>1, Spans
    <2> QED
      BY <2>1, <2>3 DEF Bounded, Windows
  <1> QED
    BY <1>1, <1>3, <1>4 DEF PipelineInv, AdmissionInv

LEMMA PipelineRestart == RestartPipeline /\ now' \in Nat => PipelineInv'
  <1>1. (PipelineInit /\ now \in Nat => PipelineInv)'
    BY PipelineEmpty, PTL
  <1>2. RestartPipeline => PipelineInit'
    BY DEF RestartPipeline, PipelineInit
  <1> QED
    BY <1>1, <1>2

LEMMA PipelineStep ==
  ASSUME PipelineInv, PipelineNext, now' = now
  PROVE  PipelineInv'
  <1>1. now \in Nat /\ PipelineTypeOK /\ TimesOK /\ EchoInv /\ AdmissionInv
    BY DEF PipelineInv
  <1>2. \A k \in Trace : seen[k] # None => seen[k] <= now
    BY <1>1 DEF EchoInv, Remembered, Last
  <1>3. PICK r \in Request :
           /\ req'[r] \in Call /\ \A x \in Request \ {r} : req'[x] = req[x]
           /\ Comes(r) \/ Ends(r)
           /\ Quiet(r) \/ \E key \in Trace \cup Alarm : Suppressed(r, key) \/ Tries(r, key)
    BY <1>1, <1>2, PipelineCases
  <1>4. PipelineTypeOK'
    BY <1>1, <1>2, PipelineCases
  <1>5. TimesOK'
    BY <1>1, <1>3, TimesStep
  <1>6. EchoInv'
    BY <1>1, <1>3, EchoStep
  <1>7. AdmissionInv'
    BY <1>1, <1>3, <1>4, <1>5, AdmissionStep
  <1> QED
    BY <1>1, <1>4, <1>5, <1>6, <1>7 DEF PipelineInv

LEMMA PipelineStays ==
  ASSUME PipelineInv, now' \in Nat, now <= now', UNCHANGED pipelineVars
  PROVE  PipelineInv'
  <1>1. now \in Nat /\ PipelineTypeOK /\ TimesOK /\ EchoInv /\ AdmissionInv
    BY DEF PipelineInv
  <1>2. UNCHANGED <<hits, seen, lastSent, req>>
    BY DEF pipelineVars
  <1>3. PipelineTypeOK'
    BY <1>1, <1>2 DEF PipelineTypeOK
  <1>4. TimesOK'
    <2>1. ASSUME NEW r \in Request, req[r] # None PROVE req[r].at \in Nat
      BY <1>1, <2>1 DEF PipelineTypeOK, Call
    <2>2. ASSUME NEW r \in Request, req[r] # None, req[r].echo # None
          PROVE  req[r].echo.at \in Nat
      BY <1>1, <2>2, EchoTypes DEF Echoing
    <2> QED
      BY <1>1, <1>2, <2>1, <2>2 DEF TimesOK, Running
  <1>5. EchoInv'
    <2>1. Echoing' = Echoing /\ \A k : Tried(k)' = Tried(k) /\ Last(k)' = Last(k)
      BY <1>2 DEF Echoing, Tried, Last
    <2>2. EchoesAccounted'
      BY <1>1, <1>2, <2>1 DEF EchoInv, EchoesAccounted
    <2>3. ASSUME NEW k \in Trace \cup Alarm PROVE Remembered(k)'
      <3>1. \A x \in Tried(k) : req[x].echo.at \in Nat
        BY <1>1, EchoTypes DEF Tried
      <3>2. Last(k) # None => Last(k) \in Nat
        BY <1>1 DEF Last, PipelineTypeOK
      <3> QED
        BY <1>1, <1>2, <2>1, <3>1, <3>2, Spans DEF EchoInv, Remembered, Span
    <2> QED
      BY <2>2, <2>3 DEF EchoInv
  <1>6. AdmissionInv'
    <2> SUFFICES ASSUME NEW c \in Client \ {Admin}, NEW t \in Route
                 PROVE  Bounded(c, t)' /\ Windows(c, t)'
      BY DEF AdmissionInv
    <2>1. Counted(c, t)' = Counted(c, t) /\ Admitted(c, t)' = Admitted(c, t)
      BY <1>2 DEF Counted, Admitted
    <2> QED
      BY <1>1, <1>2, <2>1, AdmissionSame DEF AdmissionInv
  <1> QED
    BY <1>3, <1>4, <1>5, <1>6 DEF PipelineInv

(* The invariant holds in every reachable state.                           *)
THEOREM Safety == Spec => []SafeInv
  <1>1. Init => SafeInv
    BY PipelineEmpty, ReportsInit DEF Init, SafeInv
  <1>2. ASSUME SafeInv, [Next]_vars PROVE SafeInv'
    <2>1. PipelineInv /\ ReportInv /\ now \in Nat
      BY <1>2 DEF SafeInv, PipelineInv
    <2>2. CASE PipelineNext /\ UNCHANGED <<now, incidentVars>>
      BY <2>1, <2>2, PipelineStep, ReportsStay DEF SafeInv
    <2>3. CASE IncidentsNext /\ UNCHANGED <<now, pipelineVars>>
      BY <2>1, <2>3, PipelineStays, ReportsStep DEF SafeInv
    <2>4. CASE Restart /\ UNCHANGED now
      <3>1. ReportInv'
        BY <2>1, <2>4, ReportsRestart DEF Restart
      <3>2. PipelineInv'
        BY <2>1, <2>4, PipelineRestart DEF Restart
      <3> QED
        BY <3>1, <3>2 DEF SafeInv
    <2>5. CASE Tick /\ UNCHANGED <<pipelineVars, incidentVars>>
      <3>1. now' \in Nat /\ now <= now'
        BY <2>1, <2>5 DEF Tick
      <3> QED
        BY <2>1, <2>5, <3>1, PipelineStays, ReportsStay DEF SafeInv
    <2>6. CASE UNCHANGED vars
      BY <2>1, <2>6, PipelineStays, ReportsStay DEF SafeInv, vars
    <2> QED
      BY <1>2, <2>2, <2>3, <2>4, <2>5, <2>6 DEF Next
  <1> QED
    BY <1>1, <1>2, PTL DEF Spec

(* Every variable of Operations has its type in every reachable state.     *)
THEOREM TypeCorrect == Spec => []TypeOK
  <1>1. SafeInv => TypeOK
    BY DEF SafeInv, PipelineInv, ReportInv, TypeOK
  <1> QED
    BY <1>1, Safety, PTL

(* Whatever the limit and the window, no span of a window's length lets in *)
(* twice the limit, and nobody is turned away before the limit's worth.    *)
THEOREM AdmissionsAreBounded == Spec => []AdmissionsBounded
  <1>1. SafeInv => AdmissionsBounded
    BY DEF SafeInv, PipelineInv, AdmissionInv, Bounded, AdmissionsBounded
  <1> QED
    BY <1>1, Safety, PTL

(* Events and alerts of a kind are tried a window apart, and suppressed    *)
(* only for one that was tried, at any size the map is pruned at.          *)
THEOREM EchoesAreAccounted == Spec => []EchoesAccounted
  <1>1. SafeInv => EchoesAccounted
    BY DEF SafeInv, PipelineInv, EchoInv
  <1> QED
    BY <1>1, Safety, PTL

(* A report is in analysis only while the service is awaited, and a closed *)
(* one that is open again was closed meanwhile.                            *)
THEOREM ReportsAreAccounted == Spec => []ReportsAccounted
  <1>1. SafeInv => ReportsAccounted
    BY DEF SafeInv, ReportInv, Accounted, ReportsAccounted
  <1> QED
    BY <1>1, Safety, PTL
=============================================================================
