---------------------------- MODULE ScoreEngine -----------------------------
(***************************************************************************)
(* ScoreService (modules/score/score.service.ts).  POST /score/events runs *)
(* addEvent: one request handler per outstanding request, one action per   *)
(* database call, because every await lets the other handlers run and the  *)
(* code opens no transaction.  A handler may be cut off between any two    *)
(* calls (Abort): a database call that throws, or the process going down.  *)
(* What it wrote before stays.                                             *)
(*                                                                         *)
(* The two read endpoints (getTenantScore, getMyScore) are readers that    *)
(* fetch the tenant's cycles first and the badges second.                  *)
(***************************************************************************)
EXTENDS ScoreRules

CONSTANTS
    Handler,      \* requests that may be in flight together
    Reader,       \* read requests that may be in flight together
    Cycle,        \* score cycles, created ACTIVE outside this service
    Tenant,
    TenantOf,     \* the tenant of each cycle
    Reported,     \* the categories events are posted for
    Faults,       \* may a handler be cut off half-way?
    MaxRequests   \* bound: addEvent requests in a behaviour

ASSUME CycleAssumption == TenantOf \in [Cycle -> Tenant] /\ Cycle # {}
ASSUME ReportedAssumption == Reported \subseteq Category
ASSUME HandlerAssumption == IsFiniteSet(Handler)
ASSUME BoundAssumption == MaxRequests \in Nat /\ Faults \in BOOLEAN

VARIABLES
    rows,       \* score_events: met events per cycle, month and category
    snap,       \* monthly_score_snapshots
    badges,     \* tenant_badges: rows per tenant and badge type
    claims,     \* reward_claims: rows per cycle
    status,     \* tenant_score_cycles.status
    jokerUsed,  \* tenant_score_cycles.jokerUsed
    pc, job,    \* the handlers: next call, and the request's locals
    view,       \* the readers
    requests,   \* requests received so far (bounded by MaxRequests)
    disturbed   \* history: months a recompute overlapped on or was cut off in

tables == <<rows, snap, badges, claims, status, jokerUsed>>
vars == <<rows, snap, badges, claims, status, jokerUsed, pc, job, view, requests,
          disturbed>>

PC == {"idle", "createEvent", "readEvents", "upsert", "readSnapshots",
       "findBadge", "createBadge", "findClaim", "createClaim", "closeCycle"}

(* An event whose criterion was not met carries no points, whatever its    *)
(* category (pointsFor).                                                   *)
Unmet == "UNMET"

Job == [cycle : Cycle, month : Month, event : Category \cup {Unmet},
        active : BOOLEAN,     \* cycle.status === 'ACTIVE' as first read
        total : Points,
        due : SUBSET Badge,   \* badges the award loop still has to visit
        eligible : BOOLEAN, joker : BOOLEAN]

NoJob == [cycle |-> CHOOSE c \in Cycle : TRUE, month |-> 1,
          event |-> Unmet, active |-> FALSE,
          total |-> 0, due |-> {}, eligible |-> FALSE, joker |-> FALSE]

View == [pc : {"idle", "readBadges"}, tenant : Tenant, completed : BOOLEAN]

Init ==
    /\ rows = [c \in Cycle |-> [m \in Month |-> [k \in Category |-> 0]]]
    /\ snap = [c \in Cycle |-> [m \in Month |-> Absent]]
    /\ badges = [t \in Tenant |-> [b \in Badge |-> 0]]
    /\ claims = [c \in Cycle |-> 0]
    /\ status = [c \in Cycle |-> "ACTIVE"]
    /\ jokerUsed = [c \in Cycle |-> FALSE]
    /\ pc = [h \in Handler |-> "idle"]
    /\ job = [h \in Handler |-> NoJob]
    /\ view \in [Reader -> {v \in View : v.pc = "idle" /\ ~v.completed}]
    /\ requests = 0
    /\ disturbed = {}

-----------------------------------------------------------------------------
(* addEvent                                                                *)

Finish(h) == pc' = [pc EXCEPT ![h] = "idle"] /\ job' = [job EXCEPT ![h] = NoJob]

Goto(h, label) == pc' = [pc EXCEPT ![h] = label]

(* h is between the arrival of its request and the write of its snapshot.  *)
Recomputes(h, c, m) == /\ pc[h] \in {"createEvent", "readEvents", "upsert"}
                       /\ job[h].cycle = c /\ job[h].month = m

(* The request arrives and getAgencyCycle reads the cycle; its status is   *)
(* kept in a local and never read again.                                   *)
FindCycle(h) ==
    /\ pc[h] = "idle"
    /\ requests < MaxRequests
    /\ requests' = requests + 1
    /\ \E c \in Cycle, m \in Month, e \in Reported \cup {Unmet} :
        /\ job' = [job EXCEPT ![h] =
                      [NoJob EXCEPT !.cycle = c, !.month = m, !.event = e,
                                    !.active = (status[c] = "ACTIVE")]]
        /\ disturbed' = IF \E other \in Handler : Recomputes(other, c, m)
                        THEN disturbed \cup {<<c, m>>} ELSE disturbed
    /\ Goto(h, "createEvent")
    /\ UNCHANGED <<tables, view>>

CreateEvent(h) ==
    /\ pc[h] = "createEvent"
    /\ LET j == job[h]
       IN  rows' = IF j.event = Unmet THEN rows
                   ELSE [rows EXCEPT ![j.cycle][j.month][j.event] = @ + 1]
    /\ Goto(h, "readEvents")
    /\ UNCHANGED <<snap, badges, claims, status, jokerUsed, job, view, requests, disturbed>>

(* recomputeSnapshot: findMany, then upsert of what the sum came to.       *)
ReadEventsPlusOwn(h) ==  \* mutant: adds the request's own points to the sum
    /\ pc[h] = "readEvents"
    /\ LET j == job[h]
           k == IF j.event = Unmet THEN "RENT_ONTIME" ELSE j.event
           twice == [rows[j.cycle][j.month] EXCEPT ![k] = @ + 1]
       IN  job' = [job EXCEPT ![h].total = MonthTotal(twice)]
    /\ Goto(h, "upsert")
    /\ UNCHANGED <<tables, view, requests, disturbed>>

ReadEvents(h) ==
    /\ pc[h] = "readEvents"
    /\ LET j == job[h]  \* the event's category is not looked at again
       IN  job' = [job EXCEPT ![h] =
                      [j EXCEPT !.total = MonthTotal(rows[j.cycle][j.month]),
                                !.event = Unmet]]
    /\ Goto(h, "upsert")
    /\ UNCHANGED <<tables, view, requests, disturbed>>

UpsertKeepsFirst(h) ==  \* mutant: only creates, never updates
    /\ pc[h] = "upsert"
    /\ snap' = IF snap[job[h].cycle][job[h].month] # Absent THEN snap
               ELSE [snap EXCEPT ![job[h].cycle][job[h].month] = job[h].total]
    /\ job' = [job EXCEPT ![h].total = 0, ![h].month = 1]
    /\ Goto(h, "readSnapshots")
    /\ UNCHANGED <<rows, badges, claims, status, jokerUsed, view, requests, disturbed>>

UpsertSnapshot(h) ==
    /\ pc[h] = "upsert"
    /\ snap' = [snap EXCEPT ![job[h].cycle][job[h].month] = job[h].total]
    /\ job' = [job EXCEPT ![h].total = 0, ![h].month = 1]  \* both done with
    /\ Goto(h, "readSnapshots")
    /\ UNCHANGED <<rows, badges, claims, status, jokerUsed, view, requests, disturbed>>

-----------------------------------------------------------------------------
(* evaluate                                                                *)

(* After the award loop: on to the claim when the year is complete and the *)
(* cycle was ACTIVE when the request came in.                              *)
AfterLoopNever(h, j) == Finish(h)  \* mutant: awards, but never claims

AfterLoop(h, j) ==
    IF j.eligible /\ j.active
    THEN Goto(h, "findClaim") /\ job' = [job EXCEPT ![h] = j]
    ELSE Finish(h)

LoopSkipped(h, j) == AfterLoop(h, j)  \* mutant: claims before it awards

(* Go round the award loop with j, or leave it.                            *)
Loop(h, j) ==
    IF j.due # {}
    THEN Goto(h, "findBadge") /\ job' = [job EXCEPT ![h] = j]
    ELSE AfterLoop(h, j)

ReadSnapshots(h) ==
    /\ pc[h] = "readSnapshots"
    /\ LET seen == snap[job[h].cycle]
       IN  Loop(h, [job[h] EXCEPT !.due = BadgesEarned(seen),
                                  !.eligible = PlatinumEligible(seen),
                                  !.joker = JokerUsed(seen)])
    /\ UNCHANGED <<tables, view, requests, disturbed>>

(* The loop's current badge: the lowest-ranked one not yet visited.        *)
Current(h, badge) == /\ badge \in job[h].due
                     /\ \A other \in job[h].due : Rank[badge] <= Rank[other]

FindBadgeUnchecked(h, badge) ==  \* mutant: creates without looking
    /\ pc[h] = "findBadge"
    /\ Current(h, badge)
    /\ Goto(h, "createBadge")
    /\ UNCHANGED <<tables, job, view, requests, disturbed>>

FindBadge(h, badge) ==
    /\ pc[h] = "findBadge"
    /\ Current(h, badge)
    /\ IF badges[TenantOf[job[h].cycle]][badge] = 0
       THEN Goto(h, "createBadge") /\ UNCHANGED job
       ELSE Loop(h, [job[h] EXCEPT !.due = @ \ {badge}])
    /\ UNCHANGED <<tables, view, requests, disturbed>>

CreateBadge(h, badge) ==
    /\ pc[h] = "createBadge"
    /\ Current(h, badge)
    /\ badges' = [badges EXCEPT ![TenantOf[job[h].cycle]][badge] = @ + 1]
    /\ Loop(h, [job[h] EXCEPT !.due = @ \ {badge}])
    /\ UNCHANGED <<rows, snap, claims, status, jokerUsed, view, requests, disturbed>>

FindClaimUnchecked(h) ==  \* mutant: creates without looking
    /\ pc[h] = "findClaim"
    /\ Goto(h, "createClaim")
    /\ UNCHANGED <<tables, job, view, requests, disturbed>>

FindClaim(h) ==
    /\ pc[h] = "findClaim"
    /\ Goto(h, IF claims[job[h].cycle] = 0 THEN "createClaim" ELSE "closeCycle")
    /\ UNCHANGED <<tables, job, view, requests, disturbed>>

(* The rent the claim carries is read from the lease just before; it is    *)
(* not modelled, and so neither is that read.                              *)
CreateClaim(h) ==
    /\ pc[h] = "createClaim"
    /\ claims' = [claims EXCEPT ![job[h].cycle] = @ + 1]
    /\ Goto(h, "closeCycle")
    /\ UNCHANGED <<rows, snap, badges, status, jokerUsed, job, view, requests, disturbed>>

CloseCycleOnly(h) ==  \* mutant: leaves jokerUsed alone
    /\ pc[h] = "closeCycle"
    /\ status' = [status EXCEPT ![job[h].cycle] = "COMPLETED"]
    /\ Finish(h)
    /\ UNCHANGED <<rows, snap, badges, claims, jokerUsed, view, requests, disturbed>>

CloseCycle(h) ==
    /\ pc[h] = "closeCycle"
    /\ status' = [status EXCEPT ![job[h].cycle] = "COMPLETED"]
    /\ jokerUsed' = [jokerUsed EXCEPT ![job[h].cycle] = job[h].joker]
    /\ Finish(h)
    /\ UNCHANGED <<rows, snap, badges, claims, view, requests, disturbed>>

(* A database call throws, or the process stops: the request is gone.      *)
Abort(h) ==
    /\ Faults
    /\ pc[h] # "idle"
    /\ Finish(h)
    /\ disturbed' = disturbed \cup
          {cm \in Cycle \X Month : Recomputes(h, cm[1], cm[2])}
    /\ UNCHANGED <<tables, view, requests>>

-----------------------------------------------------------------------------
(* getTenantScore / getMyScore: two reads, the cycles before the badges.   *)

ReadCycles(r, t) ==
    /\ view[r].pc = "idle"
    /\ view' = [view EXCEPT ![r] =
          [pc |-> "readBadges", tenant |-> t,
           completed |-> \E c \in Cycle : TenantOf[c] = t /\ status[c] = "COMPLETED"]]
    /\ UNCHANGED <<tables, pc, job, requests, disturbed>>

(* The answer carries what view[r] and badges[view[r].tenant] say now.     *)
ReadBadges(r) ==
    /\ view[r].pc = "readBadges"
    /\ view' = [view EXCEPT ![r].pc = "idle", ![r].completed = FALSE]
    /\ UNCHANGED <<tables, pc, job, requests, disturbed>>

-----------------------------------------------------------------------------
AddEventStep(h) ==
    \/ CreateEvent(h) \/ ReadEvents(h) \/ UpsertSnapshot(h) \/ ReadSnapshots(h)
    \/ \E badge \in Badge : FindBadge(h, badge) \/ CreateBadge(h, badge)
    \/ FindClaim(h) \/ CreateClaim(h) \/ CloseCycle(h)

Next ==
    \/ \E h \in Handler : FindCycle(h) \/ AddEventStep(h) \/ Abort(h)
    \/ \E r \in Reader : ReadBadges(r) \/ \E t \in Tenant : ReadCycles(r, t)

Spec == Init /\ [][Next]_vars

(* A request that was received is carried on; nothing forces a request in. *)
Fairness == \A h \in Handler : WF_vars(AddEventStep(h))
FairSpec == Spec /\ Fairness

-----------------------------------------------------------------------------
(* Properties                                                              *)

TypeOK ==
    /\ rows \in [Cycle -> [Month -> [Category -> Nat]]]
    /\ snap \in [Cycle -> Snapshots]
    /\ badges \in [Tenant -> [Badge -> Nat]]
    /\ claims \in [Cycle -> Nat]
    /\ status \in [Cycle -> {"ACTIVE", "COMPLETED"}]
    /\ jokerUsed \in [Cycle -> BOOLEAN]
    /\ pc \in [Handler -> PC]
    /\ job \in [Handler -> Job]
    /\ view \in [Reader -> View]
    /\ requests \in Nat
    /\ disturbed \subseteq Cycle \X Month

Credit == [c \in Cycle |-> [m \in Month |-> MonthTotal(rows[c][m])]]

(* A snapshot never says more than the month's events are worth, although  *)
(* it is written from a sum read one or more awaits earlier                *)
(* (recomputeSnapshot, score.service.ts:94-108).                           *)
SnapshotNeverOverstates ==
    \A c \in Cycle, m \in Month : snap[c][m] <= Credit[c][m]

(* Badges, claims and cycle status only ever move as the reward ledger     *)
(* allows: evaluate (score.service.ts:110-160) acts on snapshots and a     *)
(* cycle status that may be stale by the time it writes.                   *)
Ledger == INSTANCE RewardLedger WITH credit <- Credit
LedgerSpec == Ledger!Spec

(* The find-then-create of the award loop (score.service.ts:124-133) can   *)
(* add at most one row of a badge per request in flight, however the       *)
(* requests interleave, abort and come again.                              *)
BadgeRowsBounded ==
    \A t \in Tenant, b \in Badge : badges[t][b] <= Cardinality(Handler)

(* The same for the find-then-create of the claim (score.service.ts:138-153). *)
ClaimRowsBounded == \A c \in Cycle : claims[c] <= Cardinality(Handler)

(* A reader that was told a cycle is COMPLETED is also given the PLATINUM  *)
(* badge, although the two come from separate queries                      *)
(* (score.service.ts:163-186).                                             *)
CompletedViewShowsPlatinum ==
    \A r \in Reader : view[r].pc = "readBadges" /\ view[r].completed
                          => badges[view[r].tenant]["PLATINUM"] > 0

(* A month whose recomputes never overlapped and were never cut off has a  *)
(* snapshot that says exactly what its events are worth, whatever went on  *)
(* in the other months (recomputeSnapshot, score.service.ts:94-108).       *)
UndisturbedSnapshotExact ==
    \A c \in Cycle, m \in Month :
        \/ <<c, m>> \in disturbed
        \/ \E h \in Handler : Recomputes(h, c, m)
        \/ snap[c][m] = Credit[c][m]
        \/ snap[c][m] = Absent /\ Credit[c][m] = 0

(* A cycle closed without the joker is a year of full marks, even when two *)
(* requests that read different snapshots both close it, one after the     *)
(* other (score.service.ts:137-158).                                       *)
JokerlessYearIsPerfect ==
    \A c \in Cycle : status[c] = "COMPLETED" /\ ~jokerUsed[c] =>
        \A m \in Month : Credit[c][m] = MAX_MONTHLY_SCORE

(* score.service.ts:123, "idempotent per tenant + type".                   *)
BadgeOnce == \A t \in Tenant, b \in Badge : badges[t][b] <= 1

(* A year whose snapshots qualify is closed, unless a slower request       *)
(* rewrites one of them (evaluate, score.service.ts:135-159).              *)
QualifiedYearCloses ==
    \A c \in Cycle : PlatinumEligible(snap[c])
                         ~> (status[c] = "COMPLETED" \/ ~PlatinumEligible(snap[c]))
=============================================================================
