------------------------- MODULE ScoreEngineProofs --------------------------
(***************************************************************************)
(* Proofs about ScoreEngine, for every set of handlers, cycles, tenants    *)
(* and every length of the year.                                           *)
(***************************************************************************)
EXTENDS ScoreEngine, FiniteSetTheorems, TLAPS

-----------------------------------------------------------------------------
(* Facts about the scoring rules.                                          *)

(* A month's total lies between 0 and the monthly maximum (Math.min,       *)
(* score.service.ts:98-101).                                               *)
LEMMA MonthTotalType ==
    ASSUME NEW r \in [Category -> Nat]
    PROVE  MonthTotal(r) \in Points
  <1>1. /\ r["RENT_ONTIME"] \in Nat /\ r["MESSAGE_REPLY"] \in Nat
        /\ r["LOGIN_ACTIVITY"] \in Nat /\ r["NO_VIOLATION"] \in Nat
    BY DEF Category
  <1>2. Sum(r) \in Nat
    BY <1>1 DEF Sum
  <1> QED
    BY <1>2 DEF MonthTotal, Points, MAX_MONTHLY_SCORE

(* One more met event never lowers a month's total.                        *)
LEMMA MonthTotalGrows ==
    ASSUME NEW r \in [Category -> Nat], NEW k \in Category
    PROVE  MonthTotal(r) <= MonthTotal([r EXCEPT ![k] = @ + 1])
  BY DEF MonthTotal, Sum, Points, MAX_MONTHLY_SCORE, Category

(* The months of a cycle are a finite set, and so is each part of them.    *)
LEMMA MonthsFinite == ASSUME NEW S, S \subseteq Month
                      PROVE  IsFiniteSet(S) /\ Cardinality(S) \in Nat
  <1>1. IsFiniteSet(Month)
    BY FS_Interval, YearAssumption DEF Month
  <1> QED
    BY <1>1, FS_Subset, FS_CardinalityType

(* A larger set of months does not count fewer.                            *)
LEMMA MonthsCount == ASSUME NEW T, T \subseteq Month, NEW S, S \subseteq T
                     PROVE  Cardinality(S) <= Cardinality(T)
  BY MonthsFinite, FS_Subset

LEMMA NoJobType == NoJob \in Job
  BY CycleAssumption, YearAssumption
     DEF NoJob, Job, Month, Points, MAX_MONTHLY_SCORE

-----------------------------------------------------------------------------
(* Types.                                                                  *)

LEMMA InitType == Init => TypeOK
  <1> SUFFICES ASSUME Init PROVE TypeOK
    OBVIOUS
  <1>1. /\ rows \in [Cycle -> [Month -> [Category -> Nat]]]
        /\ badges \in [Tenant -> [Badge -> Nat]] /\ claims \in [Cycle -> Nat]
        /\ status \in [Cycle -> {"ACTIVE", "COMPLETED"}]
        /\ jokerUsed \in [Cycle -> BOOLEAN]
        /\ requests \in Nat /\ disturbed \subseteq Cycle \X Month
    BY DEF Init
  <1>2. snap \in [Cycle -> Snapshots]
    BY DEF Init, Snapshots
  <1>3. pc \in [Handler -> PC] /\ job \in [Handler -> Job]
    BY NoJobType DEF Init, PC
  <1>4. view \in [Reader -> View]
    BY DEF Init, View
  <1> QED
    BY <1>1, <1>2, <1>3, <1>4 DEF TypeOK

(* A handler's next place and locals stay in their types.                  *)
LEMMA LoopType ==
    ASSUME TypeOK, NEW h \in Handler, NEW j \in Job, Loop(h, j)
    PROVE  pc' \in [Handler -> PC] /\ job' \in [Handler -> Job]
  BY NoJobType DEF TypeOK, Loop, AfterLoop, Goto, Finish, PC

LEMMA VisitedType ==
    ASSUME TypeOK, NEW h \in Handler, NEW b
    PROVE  [job[h] EXCEPT !.due = @ \ {b}] \in Job
  BY DEF TypeOK, Job

LEMMA SeenType ==
    ASSUME TypeOK, NEW h \in Handler, NEW seen
    PROVE  [job[h] EXCEPT !.due = BadgesEarned(seen),
                          !.eligible = PlatinumEligible(seen),
                          !.joker = JokerUsed(seen)] \in Job
  BY DEF TypeOK, Job, BadgesEarned, PlatinumEligible, JokerUsed

LEMMA NextType == TypeOK /\ [Next]_vars => TypeOK'
  <1> SUFFICES ASSUME TypeOK, [Next]_vars PROVE TypeOK'
    OBVIOUS
  <1>1. CASE UNCHANGED vars
    BY <1>1 DEF TypeOK, vars
  <1>2. ASSUME NEW h \in Handler, FindCycle(h) PROVE TypeOK'
    <2>1. PICK c \in Cycle, m \in Month, e \in Reported \cup {Unmet} :
             /\ job' = [job EXCEPT ![h] =
                      [NoJob EXCEPT !.cycle = c, !.month = m, !.event = e,
                                    !.active = (status[c] = "ACTIVE")]]
             /\ disturbed' \in {disturbed, disturbed \cup {<<c, m>>}}
      BY <1>2 DEF FindCycle
    <2>2. [NoJob EXCEPT !.cycle = c, !.month = m, !.event = e,
                        !.active = (status[c] = "ACTIVE")] \in Job
      BY NoJobType, ReportedAssumption DEF Job
    <2> QED
      BY <1>2, <2>1, <2>2 DEF FindCycle, TypeOK, Goto, PC, tables
  <1>3. ASSUME NEW h \in Handler, CreateEvent(h) PROVE TypeOK'
    <2>1. job[h].event # Unmet => job[h].event \in Category
      BY DEF TypeOK, Job
    <2>2. rows' \in [Cycle -> [Month -> [Category -> Nat]]]
      <3>1. job[h].cycle \in Cycle /\ job[h].month \in Month
        BY DEF TypeOK, Job
      <3>2. CASE job[h].event = Unmet
        BY <1>3, <3>2 DEF CreateEvent, TypeOK
      <3>3. CASE job[h].event # Unmet
        <4>1. rows' = [rows EXCEPT ![job[h].cycle][job[h].month][job[h].event] = @ + 1]
          BY <1>3, <3>3 DEF CreateEvent
        <4> QED
          BY <4>1, <3>1, <3>3, <2>1 DEF TypeOK
      <3> QED
        BY <3>2, <3>3
    <2> QED
      BY <1>3, <2>2 DEF CreateEvent, TypeOK, Goto, PC
  <1>4. ASSUME NEW h \in Handler, ReadEvents(h) PROVE TypeOK'
    <2>1. MonthTotal(rows[job[h].cycle][job[h].month]) \in Points
      BY MonthTotalType DEF TypeOK, Job
    <2>2. [job[h] EXCEPT !.total = MonthTotal(rows[job[h].cycle][job[h].month]),
                         !.event = Unmet] \in Job
      BY <2>1 DEF TypeOK, Job
    <2>3. job' \in [Handler -> Job]
      BY <1>4, <2>2 DEF ReadEvents, TypeOK
    <2> QED
      BY <1>4, <2>3 DEF ReadEvents, TypeOK, Goto, PC, tables
  <1>5. ASSUME NEW h \in Handler, UpsertSnapshot(h) PROVE TypeOK'
    <2>0. [job[h] EXCEPT !.total = 0, !.month = 1] \in Job
      <3>1. 1 \in Month /\ 0 \in Points
        BY YearAssumption DEF Month, Points, MAX_MONTHLY_SCORE
      <3> QED
        BY <3>1 DEF TypeOK, Job
    <2>1. job' \in [Handler -> Job]
      BY <1>5, <2>0 DEF UpsertSnapshot, TypeOK
    <2>2. snap' \in [Cycle -> Snapshots]
      BY <1>5 DEF UpsertSnapshot, TypeOK, Job, Snapshots
    <2> QED
      BY <1>5, <2>1, <2>2 DEF UpsertSnapshot, TypeOK, Goto, PC
  <1>6. ASSUME NEW h \in Handler, ReadSnapshots(h) PROVE TypeOK'
    <2> DEFINE seen == snap[job[h].cycle]
               j == [job[h] EXCEPT !.due = BadgesEarned(seen),
                                   !.eligible = PlatinumEligible(seen),
                                   !.joker = JokerUsed(seen)]
    <2>1. j \in Job
      BY SeenType
    <2>2. Loop(h, j)
      BY <1>6 DEF ReadSnapshots
    <2> QED
      BY <1>6, <2>1, <2>2, LoopType DEF ReadSnapshots, TypeOK, tables
  <1>7. ASSUME NEW h \in Handler, NEW b \in Badge, FindBadge(h, b) PROVE TypeOK'
    <2>1. [job[h] EXCEPT !.due = @ \ {b}] \in Job
      BY VisitedType
    <2> QED
      BY <1>7, <2>1, LoopType DEF FindBadge, TypeOK, Goto, PC, tables
  <1>8. ASSUME NEW h \in Handler, NEW b \in Badge, CreateBadge(h, b) PROVE TypeOK'
    <2>1. [job[h] EXCEPT !.due = @ \ {b}] \in Job
      BY VisitedType
    <2>2. job[h].cycle \in Cycle /\ TenantOf[job[h].cycle] \in Tenant
      BY CycleAssumption DEF TypeOK, Job
    <2>3. badges' \in [Tenant -> [Badge -> Nat]]
      BY <1>8, <2>2 DEF CreateBadge, TypeOK
    <2> QED
      BY <1>8, <2>1, <2>3, LoopType DEF CreateBadge, TypeOK
  <1>9. ASSUME NEW h \in Handler, FindClaim(h) PROVE TypeOK'
    BY <1>9 DEF FindClaim, TypeOK, Goto, PC, tables
  <1>10. ASSUME NEW h \in Handler, CreateClaim(h) PROVE TypeOK'
    <2>1. claims' \in [Cycle -> Nat]
      BY <1>10 DEF CreateClaim, TypeOK, Job
    <2> QED
      BY <1>10, <2>1 DEF CreateClaim, TypeOK, Goto, PC
  <1>11. ASSUME NEW h \in Handler, CloseCycle(h) PROVE TypeOK'
    BY <1>11, NoJobType DEF CloseCycle, TypeOK, Finish, PC, Job
  <1>12. ASSUME NEW h \in Handler, Abort(h) PROVE TypeOK'
    BY <1>12, NoJobType DEF Abort, TypeOK, Finish, PC, tables
  <1>13. ASSUME NEW r \in Reader, ReadBadges(r) PROVE TypeOK'
    BY <1>13 DEF ReadBadges, TypeOK, View, tables
  <1>14. ASSUME NEW r \in Reader, NEW t \in Tenant, ReadCycles(r, t) PROVE TypeOK'
    BY <1>14 DEF ReadCycles, TypeOK, View, tables
  <1> QED
    BY <1>1, <1>2, <1>3, <1>4, <1>5, <1>6, <1>7, <1>8, <1>9, <1>10, <1>11,
       <1>12, <1>13, <1>14 DEF Next, AddEventStep

(* Every table, program counter and local of the score engine keeps its    *)
(* type in every behaviour of addEvent and the two readers.                *)
THEOREM TypeCorrect == Spec => []TypeOK
  BY InitType, NextType, PTL DEF Spec

-----------------------------------------------------------------------------
(* The inductive invariant.  What a handler still intends to write is      *)
(* backed by what the events are worth, and the tables are written in the  *)
(* order badge, claim, cycle.                                              *)

Backed(h) ==
    LET j == job[h]
        c == j.cycle
    IN  /\ pc[h] = "upsert" => j.total <= Credit[c][j.month]
        /\ \A b \in j.due : Justified(Credit[c], b)
        /\ j.eligible => YearEarned(Credit[c])
        /\ j.eligible => "PLATINUM" \in j.due \/ badges[TenantOf[c]]["PLATINUM"] > 0
        /\ pc[h] \in {"findClaim", "createClaim", "closeCycle"}
              => j.eligible /\ j.due = {}
        /\ pc[h] = "closeCycle" => claims[c] > 0

CompletedHasClaim == \A c \in Cycle : status[c] = "COMPLETED" => claims[c] > 0
ClaimHasBadge ==
    \A c \in Cycle : claims[c] > 0 => badges[TenantOf[c]]["PLATINUM"] > 0

SafeInv == /\ TypeOK
           /\ SnapshotNeverOverstates
           /\ \A h \in Handler : Backed(h)
           /\ CompletedHasClaim
           /\ ClaimHasBadge
           /\ CompletedViewShowsPlatinum

(* Nothing that backs a later write is ever taken back.                    *)
Grows == /\ \A c \in Cycle, m \in Month : Credit[c][m] <= Credit'[c][m]
         /\ \A t \in Tenant, b \in Badge : badges[t][b] <= badges'[t][b]
         /\ \A c \in Cycle : claims[c] <= claims'[c]

LEMMA CreditType ==
    ASSUME TypeOK PROVE Credit \in [Cycle -> [Month -> Points]]
  BY MonthTotalType DEF TypeOK, Credit

LEMMA LoopEffect ==
    ASSUME TypeOK, NEW h \in Handler, NEW j \in Job, Loop(h, j)
    PROVE  /\ \A o \in Handler \ {h} : pc'[o] = pc[o] /\ job'[o] = job[o]
           /\ \/ pc'[h] = "findBadge" /\ job'[h] = j
              \/ pc'[h] = "findClaim" /\ job'[h] = j /\ j.due = {} /\ j.eligible
              \/ pc'[h] = "idle" /\ job'[h] = NoJob
  BY DEF TypeOK, Loop, AfterLoop, Goto, Finish

LEMMA NextGrows == ASSUME TypeOK, [Next]_vars PROVE Grows
  <1> USE CreditType
  <1>1. ASSUME rows' = rows PROVE Credit' = Credit
    BY <1>1 DEF Credit
  <1>2. ASSUME rows' = rows, badges' = badges, claims' = claims PROVE Grows
    BY <1>1, <1>2 DEF Grows, TypeOK, Points
  <1>3. CASE UNCHANGED vars
    BY <1>2, <1>3 DEF vars
  <1>4. ASSUME NEW h \in Handler, CreateEvent(h) PROVE Grows
    <2> DEFINE j == job[h]
    <2>1. j.cycle \in Cycle /\ j.month \in Month
          /\ (j.event # Unmet => j.event \in Category)
      BY DEF TypeOK, Job
    <2>2. CASE j.event = Unmet
      BY <1>2, <1>4, <2>2 DEF CreateEvent
    <2>3. CASE j.event # Unmet
      <3>1. rows' = [rows EXCEPT ![j.cycle][j.month][j.event] = @ + 1]
        BY <1>4, <2>3 DEF CreateEvent
      <3>2. ASSUME NEW c \in Cycle, NEW m \in Month
            PROVE  Credit[c][m] <= Credit'[c][m]
        <4>1. rows[c][m] \in [Category -> Nat]
          BY DEF TypeOK
        <4>2. rows'[c][m] = IF c = j.cycle /\ m = j.month
                            THEN [rows[c][m] EXCEPT ![j.event] = @ + 1]
                            ELSE rows[c][m]
          BY <3>1, <2>1 DEF TypeOK
        <4>3. MonthTotal(rows[c][m]) <= MonthTotal(rows'[c][m])
          BY <4>1, <4>2, <2>1, <2>3, MonthTotalGrows, MonthTotalType DEF Points
        <4> QED
          BY <4>3 DEF Credit
      <3> QED
        BY <3>2, <1>4 DEF Grows, CreateEvent, TypeOK
    <2> QED
      BY <2>2, <2>3
  <1>5. ASSUME NEW h \in Handler, NEW b \in Badge, CreateBadge(h, b) PROVE Grows
    <2>1. Credit' = Credit
      BY <1>1, <1>5 DEF CreateBadge
    <2> QED
      BY <1>5, <2>1 DEF CreateBadge, Grows, TypeOK, Points
  <1>6. ASSUME NEW h \in Handler, CreateClaim(h) PROVE Grows
    <2>1. Credit' = Credit
      BY <1>1, <1>6 DEF CreateClaim
    <2> QED
      BY <1>6, <2>1 DEF CreateClaim, Grows, TypeOK, Points
  <1>7. ASSUME Next,
               ~ \E h \in Handler : \/ CreateEvent(h) \/ CreateClaim(h)
                                    \/ \E b \in Badge : CreateBadge(h, b)
        PROVE  rows' = rows /\ badges' = badges /\ claims' = claims
    BY <1>7 DEF Next, AddEventStep, FindCycle, ReadEvents, UpsertSnapshot,
       ReadSnapshots, FindBadge, FindClaim, CloseCycle, Abort, ReadBadges,
       ReadCycles, tables
  <1> QED
    BY <1>2, <1>3, <1>4, <1>5, <1>6, <1>7

(* A badge once justified stays justified.                                 *)
LEMMA JustifiedStays ==
    ASSUME TypeOK, TypeOK', Grows, NEW c \in Cycle
    PROVE  /\ \A b : Justified(Credit[c], b) => Justified(Credit'[c], b)
           /\ YearEarned(Credit[c]) => YearEarned(Credit'[c])
  <1>1. ASSUME NEW k \in 0 .. MAX_MONTHLY_SCORE
        PROVE  /\ Good(Credit[c], k) \subseteq Good(Credit'[c], k)
               /\ Good(Credit[c], k) \subseteq Month /\ Good(Credit'[c], k) \subseteq Month
    <2>1. Credit \in [Cycle -> [Month -> Points]] /\ Credit' \in [Cycle -> [Month -> Points]]
      BY MonthTotalType DEF TypeOK, Credit
    <2>2. ASSUME NEW m \in Month, Credit[c][m] >= k PROVE Credit'[c][m] >= k
      <3>1. Credit[c][m] \in Int /\ Credit'[c][m] \in Int /\ k \in Int
        BY <2>1 DEF Points, MAX_MONTHLY_SCORE
      <3> QED
        BY <3>1, <2>2 DEF Grows
    <2> QED
      BY <2>2 DEF Good
  <1>2. ASSUME NEW k \in 0 .. MAX_MONTHLY_SCORE
        PROVE  /\ Cardinality(Good(Credit[c], k)) <= Cardinality(Good(Credit'[c], k))
               /\ Cardinality(Good(Credit[c], k)) \in Nat
               /\ Cardinality(Good(Credit'[c], k)) \in Nat
    BY <1>1, MonthsCount, MonthsFinite
  <1>3. YearEarned(Credit[c]) => YearEarned(Credit'[c])
    <2> DEFINE S == Month \ Good(Credit[c], MAX_MONTHLY_SCORE)
               T == Month \ Good(Credit'[c], MAX_MONTHLY_SCORE)
    <2>1. T \subseteq S /\ S \subseteq Month /\ T \subseteq Month
      BY <1>1 DEF MAX_MONTHLY_SCORE
    <2>2. Cardinality(T) <= Cardinality(S) /\ Cardinality(S) \in Nat /\ Cardinality(T) \in Nat
      BY <2>1, MonthsCount, MonthsFinite
    <2> QED
      BY <2>2 DEF YearEarned
  <1>4. 8 \in 0 .. MAX_MONTHLY_SCORE /\ 9 \in 0 .. MAX_MONTHLY_SCORE
    BY DEF MAX_MONTHLY_SCORE
  <1> QED
    BY <1>2, <1>3, <1>4, RunAssumption DEF Justified

(* What the snapshots earn, the events justify: the snapshots understate.  *)
LEMMA EarnedJustified ==
    ASSUME TypeOK, SnapshotNeverOverstates, NEW c \in Cycle
    PROVE  /\ \A b \in BadgesEarned(snap[c]) : Justified(Credit[c], b)
           /\ PlatinumEligible(snap[c]) => /\ YearEarned(Credit[c])
                                           /\ "PLATINUM" \in BadgesEarned(snap[c])
  <1>1. \A m \in Month : /\ snap[c][m] \in Int /\ Credit[c][m] \in Int
                         /\ snap[c][m] <= Credit[c][m]
    <2>1. Points \subseteq Int /\ Absent \in Int
      BY DEF Points, Absent, MAX_MONTHLY_SCORE
    <2> QED
      BY <2>1, CreditType DEF TypeOK, Snapshots, SnapshotNeverOverstates
  <1>2. ASSUME NEW k \in {8, 9}, NEW n \in Nat, HasRun(snap[c], k, n)
        PROVE  Cardinality(Good(Credit[c], k)) >= n
    <2>1. PICK lo \in Month, hi \in Month :
             LET present == {m \in lo .. hi : snap[c][m] # Absent}
             IN  /\ Cardinality(present) >= n
                 /\ \A m \in present : snap[c][m] >= k
      BY <1>2 DEF HasRun, TypeOK, Snapshots
    <2> DEFINE present == {m \in lo .. hi : snap[c][m] # Absent}
    <2>2. present \subseteq Month
      BY YearAssumption DEF Month
    <2>3. present \subseteq Good(Credit[c], k)
      BY <1>1, <2>1, <2>2 DEF Good
    <2>4. Good(Credit[c], k) \subseteq Month
      BY DEF Good
    <2>5. Cardinality(present) <= Cardinality(Good(Credit[c], k))
          /\ Cardinality(present) \in Nat /\ Cardinality(Good(Credit[c], k)) \in Nat
      BY <2>2, <2>3, <2>4, MonthsCount, MonthsFinite
    <2>6. Cardinality(present) >= n
      BY <2>1
    <2> QED
      BY <2>5, <2>6
  <1>3. PlatinumEligible(snap[c]) => YearEarned(Credit[c])
    <2> DEFINE S == Imperfect(snap[c])
               T == Month \ Good(Credit[c], MAX_MONTHLY_SCORE)
    <2>1. T \subseteq S /\ S \subseteq Month /\ T \subseteq Month
      BY <1>1 DEF Imperfect, Good, MAX_MONTHLY_SCORE, TypeOK, Snapshots
    <2>2. Cardinality(T) <= Cardinality(S) /\ Cardinality(S) \in Nat /\ Cardinality(T) \in Nat
      BY <2>1, MonthsCount, MonthsFinite
    <2> QED
      BY <2>2 DEF PlatinumEligible, YearEarned
  <1>4. ASSUME NEW b \in BadgesEarned(snap[c]) PROVE Justified(Credit[c], b)
    <2>1. BronzeRun \in Nat /\ SilverRun \in Nat /\ GoldRun \in Nat
      BY RunAssumption
    <2>2. Earns(snap[c], b)
      BY DEF BadgesEarned
    <2> QED
      BY <1>2, <1>3, <2>1, <2>2 DEF Earns, Justified
  <1>5. PlatinumEligible(snap[c]) => "PLATINUM" \in BadgesEarned(snap[c])
    BY DEF BadgesEarned, Earns, Badge
  <1> QED
    BY <1>3, <1>4, <1>5

LEMMA IdleBacked == ASSUME NEW h \in Handler, pc[h] = "idle", job[h] = NoJob
                    PROVE  Backed(h)
  BY DEF Backed, NoJob

LEMMA InitSafe == Init => SafeInv
  <1> SUFFICES ASSUME Init PROVE SafeInv
    OBVIOUS
  <1>1. TypeOK
    BY InitType
  <1>2. SnapshotNeverOverstates
    <2>1. \A k \in Points : Absent <= k
      BY DEF Points, Absent, MAX_MONTHLY_SCORE
    <2> QED
      BY <1>1, <2>1, CreditType DEF Init, SnapshotNeverOverstates
  <1>3. \A h \in Handler : Backed(h)
    BY IdleBacked DEF Init
  <1>4. CompletedHasClaim /\ ClaimHasBadge
    BY DEF Init, CompletedHasClaim, ClaimHasBadge
  <1>5. CompletedViewShowsPlatinum
    BY DEF Init, CompletedViewShowsPlatinum
  <1> QED
    BY <1>1, <1>2, <1>3, <1>4, <1>5 DEF SafeInv

(* A handler that does not move stays backed while the tables grow.        *)
LEMMA OthersStayBacked ==
    ASSUME TypeOK, TypeOK', Grows, NEW h \in Handler, Backed(h),
           pc'[h] = pc[h], job'[h] = job[h]
    PROVE  Backed(h)'
  <1> DEFINE j == job[h]
  <1>1. j \in Job /\ j.cycle \in Cycle /\ j.month \in Month /\ j.total \in Points
        /\ TenantOf[j.cycle] \in Tenant
    BY CycleAssumption DEF TypeOK, Job
  <1>2. /\ Credit[j.cycle][j.month] \in Int /\ Credit'[j.cycle][j.month] \in Int
        /\ j.total \in Int
    BY <1>1, MonthTotalType DEF TypeOK, Credit, Points
  <1>3. /\ badges[TenantOf[j.cycle]]["PLATINUM"] \in Nat
        /\ badges'[TenantOf[j.cycle]]["PLATINUM"] \in Nat
        /\ claims[j.cycle] \in Nat /\ claims'[j.cycle] \in Nat
    BY <1>1 DEF TypeOK, Badge
  <1>4. /\ Credit[j.cycle][j.month] <= Credit'[j.cycle][j.month]
        /\ badges[TenantOf[j.cycle]]["PLATINUM"] <= badges'[TenantOf[j.cycle]]["PLATINUM"]
        /\ claims[j.cycle] <= claims'[j.cycle]
    BY <1>1 DEF Grows, Badge
  <1>5. pc'[h] = "upsert" => j.total <= Credit'[j.cycle][j.month]
    BY <1>2, <1>4 DEF Backed
  <1>6. \A b \in j.due : Justified(Credit'[j.cycle], b)
    BY <1>1, JustifiedStays DEF Backed
  <1>7. j.eligible => YearEarned(Credit'[j.cycle])
    BY <1>1, JustifiedStays DEF Backed
  <1>8. j.eligible => "PLATINUM" \in j.due
                      \/ badges'[TenantOf[j.cycle]]["PLATINUM"] > 0
    BY <1>3, <1>4 DEF Backed
  <1>9. pc'[h] = "closeCycle" => claims'[j.cycle] > 0
    BY <1>3, <1>4 DEF Backed
  <1> QED
    BY <1>5, <1>6, <1>7, <1>8, <1>9 DEF Backed

(* Each step of addEvent leaves the handler that took it backed.           *)
LEMMA MoverBacked ==
    ASSUME SafeInv, TypeOK', Grows, NEW h \in Handler,
           FindCycle(h) \/ AddEventStep(h) \/ Abort(h)
    PROVE  /\ Backed(h)'
           /\ \A o \in Handler \ {h} : pc'[o] = pc[o] /\ job'[o] = job[o]
  <1> DEFINE j == job[h]
  <1>t. /\ TypeOK /\ j \in Job /\ j.cycle \in Cycle /\ j.month \in Month
        /\ TenantOf[j.cycle] \in Tenant /\ Backed(h) /\ "PLATINUM" \in Badge
        /\ badges[TenantOf[j.cycle]]["PLATINUM"] \in Nat
        /\ badges'[TenantOf[j.cycle]]["PLATINUM"] \in Nat
        /\ claims[j.cycle] \in Nat /\ claims'[j.cycle] \in Nat
    BY CycleAssumption DEF SafeInv, TypeOK, Job, Badge
  <1>g. /\ \A b \in j.due : Justified(Credit'[j.cycle], b)
        /\ j.eligible => YearEarned(Credit'[j.cycle])
    BY <1>t, JustifiedStays DEF Backed
  <1>i. ASSUME Finish(h)
        PROVE  /\ Backed(h)'
               /\ \A o \in Handler \ {h} : pc'[o] = pc[o] /\ job'[o] = job[o]
    <2>1. pc'[h] = "idle" /\ job'[h] = NoJob
          /\ \A o \in Handler \ {h} : pc'[o] = pc[o] /\ job'[o] = job[o]
      BY <1>i, <1>t DEF Finish, TypeOK
    <2> QED
      BY <2>1 DEF Backed, NoJob
  <1>1. CASE FindCycle(h)
    <2>1. PICK c \in Cycle, m \in Month, e \in Reported \cup {Unmet} :
             /\ job' = [job EXCEPT ![h] =
                      [NoJob EXCEPT !.cycle = c, !.month = m, !.event = e,
                                    !.active = (status[c] = "ACTIVE")]]
             /\ disturbed' \in {disturbed, disturbed \cup {<<c, m>>}}
      BY <1>1 DEF FindCycle
    <2>2. pc' = [pc EXCEPT ![h] = "createEvent"]
      BY <1>1 DEF FindCycle, Goto
    <2>3. pc'[h] = "createEvent" /\ job'[h].due = {} /\ job'[h].eligible = FALSE
      <3>1. NoJob \in Job /\ NoJob.due = {} /\ NoJob.eligible = FALSE
        BY NoJobType DEF NoJob
      <3> QED
        BY <1>t, <2>1, <2>2, <3>1 DEF TypeOK, Job
    <2>4. Backed(h)'
      BY <2>3 DEF Backed
    <2> QED
      BY <1>t, <2>1, <2>2, <2>4 DEF TypeOK
  <1>2. CASE CreateEvent(h)
    <2>1. pc' = [pc EXCEPT ![h] = "readEvents"] /\ job' = job /\ badges' = badges
      BY <1>2 DEF CreateEvent, Goto
    <2>2. pc[h] = "createEvent" /\ pc'[h] = "readEvents"
      BY <1>2, <1>t, <2>1 DEF CreateEvent, TypeOK
    <2> QED
      BY <1>t, <1>g, <2>1, <2>2 DEF Backed, TypeOK
  <1>3. CASE ReadEvents(h)
    <2>1. /\ job' = [job EXCEPT ![h] =
                       [j EXCEPT !.total = MonthTotal(rows[j.cycle][j.month]),
                                 !.event = Unmet]]
          /\ pc' = [pc EXCEPT ![h] = "upsert"]
          /\ badges' = badges /\ rows' = rows
      BY <1>3 DEF ReadEvents, Goto, tables
    <2>2. /\ pc'[h] = "upsert"
          /\ job'[h] = [j EXCEPT !.total = MonthTotal(rows[j.cycle][j.month]),
                                 !.event = Unmet]
      BY <1>t, <2>1 DEF TypeOK
    <2>3. /\ job'[h].cycle = j.cycle /\ job'[h].month = j.month
          /\ job'[h].due = j.due /\ job'[h].eligible = j.eligible
          /\ job'[h].total = MonthTotal(rows[j.cycle][j.month])
      BY <2>2, <1>t DEF Job
    <2>4. Credit' = Credit
      BY <2>1 DEF Credit
    <2>5. /\ Credit[j.cycle][j.month] = MonthTotal(rows[j.cycle][j.month])
          /\ MonthTotal(rows[j.cycle][j.month]) \in Int
      BY <1>t, MonthTotalType DEF Credit, TypeOK, Points
    <2> QED
      BY <1>t, <1>g, <2>1, <2>2, <2>3, <2>4, <2>5 DEF Backed, TypeOK
  <1>4. CASE UpsertSnapshot(h)
    <2>1. /\ job' = [job EXCEPT ![h].total = 0, ![h].month = 1]
          /\ pc' = [pc EXCEPT ![h] = "readSnapshots"] /\ badges' = badges
      BY <1>4 DEF UpsertSnapshot, Goto
    <2>2. /\ pc'[h] = "readSnapshots" /\ job'[h].cycle = j.cycle
          /\ job'[h].due = j.due /\ job'[h].eligible = j.eligible
      BY <1>t, <2>1 DEF TypeOK, Job
    <2>3. Backed(h)'
      BY <1>t, <1>g, <2>1, <2>2 DEF Backed
    <2> QED
      BY <1>t, <2>1, <2>3 DEF TypeOK
  <1>5. CASE ReadSnapshots(h)
    <2> DEFINE seen == snap[j.cycle]
               k == [j EXCEPT !.due = BadgesEarned(seen),
                              !.eligible = PlatinumEligible(seen),
                              !.joker = JokerUsed(seen)]
    <2>1. Loop(h, k) /\ rows' = rows /\ badges' = badges /\ claims' = claims
      BY <1>5 DEF ReadSnapshots, tables
    <2>2. k \in Job /\ k.cycle = j.cycle /\ k.due = BadgesEarned(seen)
          /\ k.eligible = PlatinumEligible(seen)
      BY <1>t DEF Job, BadgesEarned, PlatinumEligible, JokerUsed
    <2>3. /\ \A o \in Handler \ {h} : pc'[o] = pc[o] /\ job'[o] = job[o]
          /\ \/ pc'[h] = "findBadge" /\ job'[h] = k
             \/ pc'[h] = "findClaim" /\ job'[h] = k /\ k.due = {} /\ k.eligible
             \/ pc'[h] = "idle" /\ job'[h] = NoJob
      BY <1>t, <2>1, <2>2, LoopEffect
    <2>4. Credit' = Credit
      BY <2>1 DEF Credit
    <2>5. /\ \A b \in k.due : Justified(Credit'[j.cycle], b)
          /\ k.eligible => YearEarned(Credit'[j.cycle]) /\ "PLATINUM" \in k.due
      BY <1>t, <2>2, <2>4, EarnedJustified DEF SafeInv
    <2> HIDE DEF k
    <2> QED
      BY <1>t, <2>2, <2>3, <2>5 DEF Backed, NoJob
  <1>6. ASSUME NEW b \in Badge, FindBadge(h, b) \/ CreateBadge(h, b)
        PROVE  /\ Backed(h)'
               /\ \A o \in Handler \ {h} : pc'[o] = pc[o] /\ job'[o] = job[o]
    <2> DEFINE k == [j EXCEPT !.due = @ \ {b}]
    <2>1. k \in Job /\ k.cycle = j.cycle /\ k.due = j.due \ {b} /\ k.eligible = j.eligible
      BY <1>t DEF Job
    <2>2. CASE pc' = [pc EXCEPT ![h] = "createBadge"] /\ job' = job /\ badges' = badges
      BY <1>t, <1>g, <2>2 DEF Backed, TypeOK
    <2>3. CASE Loop(h, k) /\ badges'[TenantOf[j.cycle]][b] # 0
      <3>1. /\ \A o \in Handler \ {h} : pc'[o] = pc[o] /\ job'[o] = job[o]
            /\ \/ pc'[h] = "findBadge" /\ job'[h] = k
               \/ pc'[h] = "findClaim" /\ job'[h] = k /\ k.due = {} /\ k.eligible
               \/ pc'[h] = "idle" /\ job'[h] = NoJob
        BY <1>t, <2>1, <2>3, LoopEffect
      <3>2. badges[TenantOf[j.cycle]]["PLATINUM"]
               <= badges'[TenantOf[j.cycle]]["PLATINUM"]
        BY <1>t DEF Grows
      <3>3. k.eligible => \/ "PLATINUM" \in k.due
                          \/ badges'[TenantOf[k.cycle]]["PLATINUM"] > 0
        BY <1>t, <2>1, <2>3, <3>2 DEF Backed
      <3> HIDE DEF k
      <3> QED
        BY <1>t, <1>g, <2>1, <3>1, <3>3 DEF Backed, NoJob
    <2>4. CASE CreateBadge(h, b)
      <3>1. badges'[TenantOf[j.cycle]][b] # 0
        BY <1>t, <2>4 DEF CreateBadge, TypeOK
      <3> QED
        BY <2>3, <2>4, <3>1 DEF CreateBadge
    <2>5. CASE FindBadge(h, b)
      BY <2>2, <2>3, <2>5 DEF FindBadge, Goto, tables
    <2> QED
      BY <1>6, <2>4, <2>5
  <1>7. CASE FindClaim(h)
    <2>1. /\ pc[h] = "findClaim" /\ job' = job /\ badges' = badges /\ claims' = claims
          /\ pc' = [pc EXCEPT ![h] = IF claims[j.cycle] = 0 THEN "createClaim"
                                                            ELSE "closeCycle"]
      BY <1>7 DEF FindClaim, Goto, tables
    <2> QED
      BY <1>t, <1>g, <2>1 DEF Backed, TypeOK
  <1>8. CASE CreateClaim(h)
    <2>1. /\ pc[h] = "createClaim" /\ job' = job /\ badges' = badges
          /\ claims'[j.cycle] > 0 /\ pc' = [pc EXCEPT ![h] = "closeCycle"]
      BY <1>8, <1>t DEF CreateClaim, Goto, TypeOK
    <2> QED
      BY <1>t, <1>g, <2>1 DEF Backed, TypeOK
  <1>9. CASE CloseCycle(h)
    BY <1>9, <1>i DEF CloseCycle
  <1>10. CASE Abort(h)
    BY <1>10, <1>i DEF Abort
  <1> QED
    BY <1>1, <1>2, <1>3, <1>4, <1>5, <1>6, <1>7, <1>8, <1>9, <1>10
       DEF AddEventStep

LEMMA NextSafe == SafeInv /\ [Next]_vars => SafeInv'
  <1> SUFFICES ASSUME SafeInv, [Next]_vars PROVE SafeInv'
    OBVIOUS
  <1>t. TypeOK /\ TypeOK' /\ Grows
    BY NextType, NextGrows DEF SafeInv
  <1>1. \A h \in Handler : Backed(h)'
    <2>1. CASE \E h \in Handler : FindCycle(h) \/ AddEventStep(h) \/ Abort(h)
      <3>1. PICK h \in Handler : FindCycle(h) \/ AddEventStep(h) \/ Abort(h)
        BY <2>1
      <3>2. /\ Backed(h)'
            /\ \A o \in Handler \ {h} : pc'[o] = pc[o] /\ job'[o] = job[o]
        BY <1>t, <3>1, MoverBacked
      <3> QED
        BY <1>t, <3>2, OthersStayBacked DEF SafeInv
    <2>2. CASE pc' = pc /\ job' = job
      BY <1>t, <2>2, OthersStayBacked DEF SafeInv
    <2> QED
      BY <2>1, <2>2 DEF Next, vars, ReadBadges, ReadCycles
  <1>2. SnapshotNeverOverstates'
    <2>1. /\ \A c \in Cycle, m \in Month :
               /\ snap[c][m] \in Int /\ Credit[c][m] \in Int /\ Credit'[c][m] \in Int
               /\ snap[c][m] <= Credit'[c][m]
      <3>1. Points \subseteq Int /\ Absent \in Int
        BY DEF Points, Absent, MAX_MONTHLY_SCORE
      <3>2. \A c \in Cycle, m \in Month :
               /\ snap[c][m] \in Int /\ Credit[c][m] \in Int /\ Credit'[c][m] \in Int
        <4>1. /\ Credit \in [Cycle -> [Month -> Points]]
              /\ Credit' \in [Cycle -> [Month -> Points]]
          BY <1>t, MonthTotalType DEF TypeOK, Credit
        <4>2. snap \in [Cycle -> [Month -> Points \cup {Absent}]]
          BY <1>t DEF TypeOK, Snapshots
        <4>3. ASSUME NEW c \in Cycle, NEW m \in Month
              PROVE  /\ snap[c][m] \in Points \cup {Absent}
                     /\ Credit[c][m] \in Points /\ Credit'[c][m] \in Points
          BY <4>1, <4>2
        <4> QED
          BY <3>1, <4>3
      <3>3. ASSUME NEW c \in Cycle, NEW m \in Month
            PROVE  snap[c][m] <= Credit[c][m] /\ Credit[c][m] <= Credit'[c][m]
        BY <1>t DEF SafeInv, SnapshotNeverOverstates, Grows
      <3> QED
        BY <3>2, <3>3
    <2>2. ASSUME NEW h \in Handler, UpsertSnapshot(h)
          PROVE  SnapshotNeverOverstates'
      <3> DEFINE j == job[h]
      <3>1. /\ snap' = [snap EXCEPT ![j.cycle][j.month] = j.total]
            /\ pc[h] = "upsert" /\ rows' = rows
        BY <2>2 DEF UpsertSnapshot
      <3>2. j.total <= Credit'[j.cycle][j.month]
        <4>1. Credit' = Credit
          BY <3>1 DEF Credit
        <4> QED
          BY <4>1, <3>1 DEF SafeInv, Backed
      <3>3. ASSUME NEW c \in Cycle, NEW m \in Month
            PROVE  snap'[c][m] = IF c = j.cycle /\ m = j.month
                                 THEN j.total ELSE snap[c][m]
        BY <1>t, <3>1 DEF TypeOK, Snapshots
      <3> QED
        BY <2>1, <3>2, <3>3 DEF SnapshotNeverOverstates
    <2>3. CASE snap' = snap
      BY <2>1, <2>3 DEF SnapshotNeverOverstates
    <2> QED
      BY <2>2, <2>3 DEF Next, AddEventStep, vars, FindCycle, CreateEvent, ReadEvents,
         ReadSnapshots, FindBadge, CreateBadge, FindClaim, CreateClaim, CloseCycle,
         Abort, ReadBadges, ReadCycles, tables
  <1>3. CompletedHasClaim' /\ ClaimHasBadge'
    <2>t. /\ \A c \in Cycle : claims[c] \in Nat /\ claims'[c] \in Nat
                              /\ claims[c] <= claims'[c]
          /\ \A c \in Cycle : /\ TenantOf[c] \in Tenant
                              /\ badges[TenantOf[c]]["PLATINUM"] \in Nat
                              /\ badges'[TenantOf[c]]["PLATINUM"] \in Nat
                              /\ badges[TenantOf[c]]["PLATINUM"]
                                    <= badges'[TenantOf[c]]["PLATINUM"]
      BY <1>t, CycleAssumption DEF TypeOK, Badge, Grows
    <2>1. ASSUME NEW h \in Handler, CreateClaim(h)
          PROVE  CompletedHasClaim' /\ ClaimHasBadge'
      <3>1. /\ claims' = [claims EXCEPT ![job[h].cycle] = @ + 1]
            /\ pc[h] = "createClaim" /\ status' = status
        BY <2>1 DEF CreateClaim
      <3>2. badges[TenantOf[job[h].cycle]]["PLATINUM"] > 0
        BY <3>1 DEF SafeInv, Backed
      <3>3. \A c \in Cycle : claims'[c] = claims[c] \/ c = job[h].cycle
        BY <3>1, <1>t DEF TypeOK
      <3> QED
        BY <2>t, <3>1, <3>2, <3>3 DEF SafeInv, CompletedHasClaim, ClaimHasBadge
    <2>2. ASSUME NEW h \in Handler, CloseCycle(h)
          PROVE  CompletedHasClaim' /\ ClaimHasBadge'
      <3>1. /\ status' = [status EXCEPT ![job[h].cycle] = "COMPLETED"]
            /\ pc[h] = "closeCycle" /\ claims' = claims
        BY <2>2 DEF CloseCycle
      <3>2. claims[job[h].cycle] > 0
        BY <3>1 DEF SafeInv, Backed
      <3>3. \A c \in Cycle : status'[c] = status[c] \/ c = job[h].cycle
        BY <3>1, <1>t DEF TypeOK
      <3> QED
        BY <2>t, <3>1, <3>2, <3>3 DEF SafeInv, CompletedHasClaim, ClaimHasBadge
    <2>3. CASE claims' = claims /\ status' = status
      BY <2>t, <2>3 DEF SafeInv, CompletedHasClaim, ClaimHasBadge
    <2> QED
      BY <2>1, <2>2, <2>3 DEF Next, AddEventStep, vars, FindCycle, CreateEvent,
         ReadEvents, UpsertSnapshot, ReadSnapshots, FindBadge, CreateBadge, FindClaim,
         Abort, ReadBadges, ReadCycles, tables
  <1>4. CompletedViewShowsPlatinum'
    <2>t. \A t \in Tenant : /\ badges[t]["PLATINUM"] \in Nat
                            /\ badges'[t]["PLATINUM"] \in Nat
                            /\ badges[t]["PLATINUM"] <= badges'[t]["PLATINUM"]
      BY <1>t DEF TypeOK, Grows, Badge
    <2>1. ASSUME NEW r \in Reader, NEW t \in Tenant, ReadCycles(r, t)
          PROVE  CompletedViewShowsPlatinum'
      <3>1. ASSUME NEW c \in Cycle, status[c] = "COMPLETED"
            PROVE  badges[TenantOf[c]]["PLATINUM"] > 0
        BY <3>1 DEF SafeInv, CompletedHasClaim, ClaimHasBadge
      <3>2. /\ view' = [view EXCEPT ![r] = [pc |-> "readBadges", tenant |-> t,
                completed |-> \E c \in Cycle : TenantOf[c] = t /\ status[c] = "COMPLETED"]]
            /\ badges' = badges
        BY <2>1 DEF ReadCycles, tables
      <3> DEFINE told == \E c \in Cycle : TenantOf[c] = t /\ status[c] = "COMPLETED"
      <3>5. /\ view'[r] = [pc |-> "readBadges", tenant |-> t, completed |-> told]
            /\ \A q \in Reader : q # r => view'[q] = view[q]
        <4> HIDE DEF told
        <4> QED
          BY <1>t, <3>2 DEF TypeOK, told
      <3>6. told => badges[t]["PLATINUM"] > 0
        BY <3>1
      <3> HIDE DEF told
      <3>3. view'[r].completed => badges'[view'[r].tenant]["PLATINUM"] > 0
        BY <3>2, <3>5, <3>6
      <3> QED
        BY <3>2, <3>3, <3>5 DEF SafeInv, CompletedViewShowsPlatinum
    <2>2. ASSUME NEW r \in Reader, ReadBadges(r)
          PROVE  CompletedViewShowsPlatinum'
      <3>1. /\ view'[r].pc = "idle" /\ badges' = badges
            /\ \A q \in Reader : q # r => view'[q] = view[q]
        BY <1>t, <2>2 DEF ReadBadges, tables, TypeOK, View
      <3> QED
        BY <3>1 DEF SafeInv, CompletedViewShowsPlatinum
    <2>3. CASE view' = view
      BY <1>t, <2>t, <2>3 DEF SafeInv, CompletedViewShowsPlatinum, TypeOK, View
    <2> QED
      BY <2>1, <2>2, <2>3 DEF Next, AddEventStep, vars, FindCycle, CreateEvent,
         ReadEvents, UpsertSnapshot, ReadSnapshots, FindBadge, CreateBadge, FindClaim,
         CreateClaim, CloseCycle, Abort, tables
  <1> QED
    BY <1>t, <1>1, <1>2, <1>3, <1>4 DEF SafeInv

LEMMA Safe == Spec => []SafeInv
  BY InitSafe, NextSafe, PTL DEF Spec

(* No interleaving, abort or stale read lets a month's snapshot say more   *)
(* than the events recorded for it are worth.                              *)
THEOREM NeverOverstates == Spec => []SnapshotNeverOverstates
  BY Safe, PTL DEF SafeInv

(* A reader that is told of a completed cycle is given the platinum badge. *)
THEOREM ViewsAreOrdered == Spec => []CompletedViewShowsPlatinum
  BY Safe, PTL DEF SafeInv

-----------------------------------------------------------------------------
(* The joker.  A handler that found the year complete without it saw every *)
(* month at full marks, and a month never loses them again.                *)

Perfect(c) == \A m \in Month : Credit[c][m] = MAX_MONTHLY_SCORE

JokerInv == /\ SafeInv
            /\ \A h \in Handler : job[h].eligible /\ ~job[h].joker => Perfect(job[h].cycle)
            /\ JokerlessYearIsPerfect

LEMMA PerfectStays ==
    ASSUME TypeOK, TypeOK', Grows, NEW c \in Cycle, Perfect(c) PROVE Perfect(c)'
  <1> SUFFICES ASSUME NEW m \in Month PROVE Credit'[c][m] = MAX_MONTHLY_SCORE
    BY DEF Perfect
  <1>1. Credit[c][m] = MAX_MONTHLY_SCORE /\ Credit[c][m] <= Credit'[c][m]
    BY DEF Perfect, Grows
  <1>2. Credit'[c][m] \in Points
    <2>1. Credit' \in [Cycle -> [Month -> Points]]
      BY MonthTotalType DEF TypeOK, Credit
    <2> QED
      BY <2>1
  <1> QED
    BY <1>1, <1>2 DEF Points, MAX_MONTHLY_SCORE

(* Only ReadSnapshots makes up its mind about the year.                    *)
LEMMA JobEffect ==
    ASSUME TypeOK, [Next]_vars, NEW h \in Handler
    PROVE  \/ /\ job'[h].cycle = job[h].cycle /\ job'[h].eligible = job[h].eligible
              /\ job'[h].joker = job[h].joker
           \/ ~job'[h].eligible
           \/ ReadSnapshots(h)
  <1> DEFINE Goal == \/ /\ job'[h].cycle = job[h].cycle
                        /\ job'[h].eligible = job[h].eligible
                        /\ job'[h].joker = job[h].joker
                     \/ ~job'[h].eligible
                     \/ ReadSnapshots(h)
  <1>t. job \in [Handler -> Job]
    BY DEF TypeOK
  <1>1. ASSUME NEW o \in Handler, Finish(o) PROVE Goal
    BY <1>1, <1>t DEF Finish, NoJob
  <1>2. CASE job' = job
    BY <1>2
  <1>3. ASSUME NEW o \in Handler, FindCycle(o) PROVE Goal
    <2>1. PICK c \in Cycle, m \in Month, e \in Reported \cup {Unmet} :
             /\ job' = [job EXCEPT ![o] =
                      [NoJob EXCEPT !.cycle = c, !.month = m, !.event = e,
                                    !.active = (status[c] = "ACTIVE")]]
             /\ disturbed' \in {disturbed, disturbed \cup {<<c, m>>}}
      BY <1>3 DEF FindCycle
    <2>2. job'[o].eligible = FALSE
      BY <1>t, <2>1 DEF NoJob
    <2> QED
      BY <1>t, <2>1, <2>2
  <1>4. ASSUME NEW o \in Handler, ReadEvents(o) \/ UpsertSnapshot(o) PROVE Goal
    <2>1. CASE ReadEvents(o)
      <3> DEFINE k == [job[o] EXCEPT
                         !.total = MonthTotal(rows[job[o].cycle][job[o].month]),
                         !.event = Unmet]
      <3>1. job' = [job EXCEPT ![o] = k]
        BY <2>1 DEF ReadEvents
      <3>2. /\ k.cycle = job[o].cycle /\ k.eligible = job[o].eligible
            /\ k.joker = job[o].joker
        BY <1>t DEF Job
      <3> HIDE DEF k
      <3> QED
        BY <1>t, <3>1, <3>2
    <2>2. CASE UpsertSnapshot(o)
      <3>1. job' = [job EXCEPT ![o].total = 0, ![o].month = 1]
        BY <2>2 DEF UpsertSnapshot
      <3> QED
        BY <1>t, <3>1 DEF Job
    <2> QED
      BY <1>4, <2>1, <2>2
  <1>5. ASSUME NEW o \in Handler, ReadSnapshots(o) PROVE Goal
    <2> DEFINE seen == snap[job[o].cycle]
               k == [job[o] EXCEPT !.due = BadgesEarned(seen),
                                   !.eligible = PlatinumEligible(seen),
                                   !.joker = JokerUsed(seen)]
    <2>1. k \in Job
      BY <1>t DEF Job, BadgesEarned, PlatinumEligible, JokerUsed
    <2>2. Loop(o, k)
      BY <1>5 DEF ReadSnapshots
    <2>3. \A g \in Handler \ {o} : job'[g] = job[g]
      BY <2>1, <2>2, LoopEffect
    <2> QED
      BY <1>5, <2>3
  <1>6. ASSUME NEW o \in Handler, NEW b \in Badge, FindBadge(o, b) \/ CreateBadge(o, b)
        PROVE  Goal
    <2> DEFINE k == [job[o] EXCEPT !.due = @ \ {b}]
    <2>1. /\ k \in Job /\ k.cycle = job[o].cycle
          /\ k.eligible = job[o].eligible /\ k.joker = job[o].joker
      BY <1>t DEF Job
    <2>2. job' = job \/ Loop(o, k)
      BY <1>6 DEF FindBadge, CreateBadge
    <2>3. CASE Loop(o, k)
      <3>1. /\ \A g \in Handler \ {o} : job'[g] = job[g]
            /\ job'[o] = k \/ job'[o] = NoJob
        BY <2>1, <2>3, LoopEffect
      <3> HIDE DEF k
      <3> QED
        BY <2>1, <3>1 DEF NoJob
    <2> QED
      BY <1>2, <2>2, <2>3
  <1> QED
    BY <1>1, <1>2, <1>3, <1>4, <1>5, <1>6 DEF Next, AddEventStep, vars, CreateEvent,
       FindClaim, CreateClaim, CloseCycle, Abort, ReadBadges, ReadCycles

LEMMA SeenPerfect ==
    ASSUME SafeInv, NEW c \in Cycle, PlatinumEligible(snap[c]), ~JokerUsed(snap[c])
    PROVE  Perfect(c)
  <1> SUFFICES ASSUME NEW m \in Month PROVE Credit[c][m] = MAX_MONTHLY_SCORE
    BY DEF Perfect
  <1>d. snap[c] \in [Month -> Points \cup {Absent}]
    BY DEF SafeInv, TypeOK, Snapshots
  <1>1. snap[c][m] \in Points /\ Credit[c][m] \in Points
    <2>1. snap[c][m] \in Points
      BY <1>d DEF PlatinumEligible
    <2>2. Credit \in [Cycle -> [Month -> Points]]
      BY CreditType DEF SafeInv
    <2> QED
      BY <2>1, <2>2
  <1>2. snap[c][m] >= MAX_MONTHLY_SCORE
    <2>1. ~(snap[c][m] < MAX_MONTHLY_SCORE)
      BY <1>d DEF JokerUsed, Imperfect
    <2> QED
      BY <1>1, <2>1 DEF Points, MAX_MONTHLY_SCORE
  <1>3. snap[c][m] <= Credit[c][m]
    BY DEF SafeInv, SnapshotNeverOverstates
  <1> QED
    BY <1>1, <1>2, <1>3 DEF Points, MAX_MONTHLY_SCORE

LEMMA NextJoker == JokerInv /\ [Next]_vars => JokerInv'
  <1> SUFFICES ASSUME JokerInv, [Next]_vars PROVE JokerInv'
    OBVIOUS
  <1>1. SafeInv /\ SafeInv'
    BY NextSafe DEF JokerInv
  <1>2. TypeOK /\ TypeOK' /\ Grows
    BY <1>1, NextGrows DEF SafeInv
  <1>3. \A c \in Cycle : Perfect(c) => Perfect(c)'
    BY <1>2, PerfectStays
  <1>4. ASSUME NEW h \in Handler, job'[h].eligible, ~job'[h].joker
        PROVE  Perfect(job[h].cycle)'
    <2>0. job[h].cycle \in Cycle
      BY <1>2 DEF TypeOK, Job
    <2>1. CASE /\ job'[h].cycle = job[h].cycle /\ job'[h].eligible = job[h].eligible
               /\ job'[h].joker = job[h].joker
      <3>1. Perfect(job[h].cycle)
        BY <1>4, <2>1 DEF JokerInv
      <3> QED
        BY <1>3, <2>0, <2>1, <3>1 DEF Perfect
    <2>2. CASE ReadSnapshots(h)
      <3> DEFINE seen == snap[job[h].cycle]
                 k == [job[h] EXCEPT !.due = BadgesEarned(seen),
                                     !.eligible = PlatinumEligible(seen),
                                     !.joker = JokerUsed(seen)]
      <3>0. job[h] \in Job
        BY <1>2 DEF TypeOK
      <3>1. /\ k \in Job /\ k.cycle = job[h].cycle
            /\ k.eligible = PlatinumEligible(seen) /\ k.joker = JokerUsed(seen)
        <4>1. k \in Job
          BY <3>0 DEF Job, BadgesEarned, PlatinumEligible, JokerUsed
        <4>2. k.cycle = job[h].cycle
          BY <3>0 DEF Job
        <4>3. k.eligible = PlatinumEligible(seen) /\ k.joker = JokerUsed(seen)
          BY <3>0 DEF Job, PlatinumEligible, JokerUsed
        <4> QED
          BY <4>1, <4>2, <4>3
      <3>2. job'[h] = k \/ job'[h] = NoJob
        <4>1. Loop(h, k)
          BY <2>2 DEF ReadSnapshots
        <4> QED
          BY <1>2, <3>1, <4>1, LoopEffect
      <3> HIDE DEF k
      <3>3. job'[h] = k
        BY <1>4, <3>2 DEF NoJob
      <3>4. Perfect(job[h].cycle)
        BY <1>1, <1>4, <2>0, <3>1, <3>3, SeenPerfect
      <3> QED
        BY <1>3, <2>0, <3>1, <3>3, <3>4 DEF Perfect
    <2> QED
      BY <1>2, <1>4, <2>1, <2>2, JobEffect
  <1>5. JokerlessYearIsPerfect'
    <2> SUFFICES ASSUME NEW c \in Cycle, status'[c] = "COMPLETED", ~jokerUsed'[c]
                 PROVE  Perfect(c)'
      BY DEF JokerlessYearIsPerfect, Perfect
    <2>1. ASSUME NEW h \in Handler, CloseCycle(h), c = job[h].cycle PROVE Perfect(c)
      <3>1. job[h].eligible /\ pc[h] = "closeCycle"
        BY <1>1, <2>1 DEF CloseCycle, SafeInv, Backed
      <3>2. ~job[h].joker
        BY <1>2, <2>1 DEF CloseCycle, TypeOK
      <3> QED
        BY <2>1, <3>1, <3>2 DEF JokerInv
    <2>2. ASSUME status'[c] = status[c], jokerUsed'[c] = jokerUsed[c]
          PROVE  Perfect(c)
      <3>1. status[c] = "COMPLETED" /\ ~jokerUsed[c]
        BY <2>2
      <3>2. JokerlessYearIsPerfect
        BY DEF JokerInv
      <3> QED
        BY <3>1, <3>2 DEF JokerlessYearIsPerfect, Perfect
    <2>3. ASSUME NEW h \in Handler, CloseCycle(h), c # job[h].cycle
          PROVE  status'[c] = status[c] /\ jokerUsed'[c] = jokerUsed[c]
      BY <1>2, <2>3 DEF CloseCycle, TypeOK
    <2>4. \/ \E h \in Handler : CloseCycle(h)
          \/ status' = status /\ jokerUsed' = jokerUsed
      BY DEF Next, AddEventStep, vars, FindCycle, CreateEvent, ReadEvents,
         UpsertSnapshot, ReadSnapshots, FindBadge, CreateBadge, FindClaim,
         CreateClaim, Abort, ReadBadges, ReadCycles, tables
    <2>5. Perfect(c)
      <3>1. CASE \E h \in Handler : CloseCycle(h)
        BY <2>1, <2>2, <2>3, <3>1
      <3>2. CASE status' = status /\ jokerUsed' = jokerUsed
        BY <2>2, <3>2
      <3> QED
        BY <2>4, <3>1, <3>2
    <2> QED
      BY <1>3, <2>5
  <1> QED
    BY <1>1, <1>4, <1>5 DEF JokerInv

LEMMA InitJoker == Init => JokerInv
  BY InitSafe DEF Init, JokerInv, JokerlessYearIsPerfect, NoJob

(* A cycle that was closed without the joker is a year of full marks,      *)
(* however many requests closed it and whatever each of them had read      *)
(* (score.service.ts:137-158).                                             *)
THEOREM JokerlessYears == Spec => []JokerlessYearIsPerfect
  <1>1. Spec => []JokerInv
    BY InitJoker, NextJoker, PTL DEF Spec
  <1> QED
    BY <1>1, PTL DEF JokerInv

-----------------------------------------------------------------------------
(* The engine implements the reward ledger.                                *)

LEMMA InitLedger == Init => Ledger!Init
  <1> SUFFICES ASSUME Init PROVE Ledger!Init
    OBVIOUS
  <1>1. Credit = [c \in Cycle |-> [m \in Month |-> 0]]
    BY DEF Init, Credit, MonthTotal, Sum, MAX_MONTHLY_SCORE, Category
  <1> QED
    BY <1>1 DEF Init, Ledger!Init

LEMMA NextLedger == SafeInv /\ [Next]_vars => [Ledger!Next]_(Ledger!ledger)
  <1> SUFFICES ASSUME SafeInv, [Next]_vars PROVE [Ledger!Next]_(Ledger!ledger)
    OBVIOUS
  <1>t. TypeOK /\ TypeOK' /\ Grows
    BY NextType, NextGrows DEF SafeInv
  <1>1. ASSUME rows' = rows PROVE Credit' = Credit
    BY <1>1 DEF Credit
  <1>2. ASSUME NEW h \in Handler, CreateEvent(h)
        PROVE  [Ledger!Next]_(Ledger!ledger)
    <2> DEFINE j == job[h]
    <2>1. j.cycle \in Cycle /\ j.month \in Month
      BY <1>t DEF TypeOK, Job
    <2>2. /\ badges' = badges /\ claims' = claims /\ status' = status
          /\ \A c \in Cycle, m \in Month :
               c # j.cycle \/ m # j.month => rows'[c][m] = rows[c][m]
      BY <1>2, <1>t, <2>1 DEF CreateEvent, TypeOK
    <2>3. /\ Credit \in [Cycle -> [Month -> Points]]
          /\ Credit' \in [Cycle -> [Month -> Points]]
      BY <1>t, MonthTotalType DEF TypeOK, Credit
    <2>4. Credit' = [Credit EXCEPT ![j.cycle][j.month] = Credit'[j.cycle][j.month]]
      <3>1. \A c \in Cycle, m \in Month :
               c # j.cycle \/ m # j.month => Credit'[c][m] = Credit[c][m]
        BY <2>2 DEF Credit
      <3> QED
        BY <3>1, <2>1, <2>3
    <2>5. CASE Credit'[j.cycle][j.month] = Credit[j.cycle][j.month]
      <3>1. Credit' = Credit
        BY <2>1, <2>3, <2>4, <2>5
      <3> QED
        BY <3>1, <2>2 DEF Ledger!ledger
    <2>6. CASE Credit'[j.cycle][j.month] # Credit[j.cycle][j.month]
      <3>1. Credit'[j.cycle][j.month] > Credit[j.cycle][j.month]
        <4>1. Credit[j.cycle][j.month] \in Int /\ Credit'[j.cycle][j.month] \in Int
          <5>1. /\ Credit[j.cycle][j.month] \in Points
                /\ Credit'[j.cycle][j.month] \in Points
            BY <2>1, <2>3
          <5> QED
            BY <5>1 DEF Points, MAX_MONTHLY_SCORE
        <4> QED
          BY <1>t, <2>1, <4>1, <2>6 DEF Grows
      <3> QED
        BY <3>1, <2>1, <2>2, <2>4 DEF Ledger!Next, Ledger!Record
    <2> QED
      BY <2>5, <2>6
  <1>3. ASSUME NEW h \in Handler, NEW b \in Badge, CreateBadge(h, b)
        PROVE  Ledger!Next
    <2>1. /\ job[h].cycle \in Cycle
          /\ Justified(Credit[job[h].cycle], b)
      BY <1>t, <1>3 DEF SafeInv, Backed, CreateBadge, Current, TypeOK, Job
    <2>2. Credit' = Credit
      BY <1>1, <1>3 DEF CreateBadge
    <2> QED
      BY <1>3, <2>1, <2>2 DEF CreateBadge, Ledger!Next, Ledger!Award
  <1>4. ASSUME NEW h \in Handler, CreateClaim(h) PROVE Ledger!Next
    <2>1. /\ job[h].cycle \in Cycle
          /\ Justified(Credit[job[h].cycle], "PLATINUM")
          /\ badges[TenantOf[job[h].cycle]]["PLATINUM"] > 0
      BY <1>t, <1>4 DEF SafeInv, Backed, CreateClaim, TypeOK, Job, Justified
    <2>2. Credit' = Credit
      BY <1>1, <1>4 DEF CreateClaim
    <2> QED
      BY <1>4, <2>1, <2>2 DEF CreateClaim, Ledger!Next, Ledger!IssueClaim
  <1>5. ASSUME NEW h \in Handler, CloseCycle(h) PROVE Ledger!Next
    <2>1. job[h].cycle \in Cycle /\ claims[job[h].cycle] > 0
      BY <1>t, <1>5 DEF SafeInv, Backed, CloseCycle, TypeOK, Job
    <2>2. Credit' = Credit
      BY <1>1, <1>5 DEF CloseCycle
    <2> QED
      BY <1>5, <2>1, <2>2 DEF CloseCycle, Ledger!Next, Ledger!Close
  <1>6. ASSUME rows' = rows, badges' = badges, claims' = claims, status' = status
        PROVE  UNCHANGED Ledger!ledger
    BY <1>1, <1>6 DEF Ledger!ledger
  <1> QED
    BY <1>2, <1>3, <1>4, <1>5, <1>6 DEF Next, AddEventStep, vars, FindCycle,
       ReadEvents, UpsertSnapshot, ReadSnapshots, FindBadge, FindClaim, Abort,
       ReadBadges, ReadCycles, tables

(* Badge rows, claims and cycle status only ever move as the ledger lets   *)
(* them: each badge justified by recorded events, each claim after its     *)
(* badge, each completion after its claim.                                 *)
THEOREM ImplementsLedger == Spec => LedgerSpec
  BY InitLedger, NextLedger, Safe, PTL DEF Spec, LedgerSpec, Ledger!Spec

-----------------------------------------------------------------------------
(* How many rows a find-then-create can leave behind.  A handler that      *)
(* found no row is about to add one; those handlers and the rows together  *)
(* never outnumber the requests that can be in flight, because a handler   *)
(* joins them only while there is no row at all.                           *)

BadgeWriters(t, b) == {h \in Handler : /\ pc[h] = "createBadge"
                                       /\ TenantOf[job[h].cycle] = t
                                       /\ Current(h, b)}
ClaimWriters(c) == {h \in Handler : pc[h] = "createClaim" /\ job[h].cycle = c}

RowsInv ==
    /\ TypeOK
    /\ \A t \in Tenant, b \in Badge :
          badges[t][b] + Cardinality(BadgeWriters(t, b)) <= Cardinality(Handler)
    /\ \A c \in Cycle :
          claims[c] + Cardinality(ClaimWriters(c)) <= Cardinality(Handler)

(* One row more or less, counted against the writers before and after.     *)
LEMMA WriterCount ==
    ASSUME NEW n \in Nat, NEW S, S \subseteq Handler, NEW T, T \subseteq Handler,
           NEW k \in Nat, n + Cardinality(S) <= Cardinality(Handler),
           \/ k = n /\ T \subseteq S
           \/ k = n /\ n = 0
           \/ k = n + 1 /\ \E h \in S : T \subseteq S \ {h}
    PROVE  k + Cardinality(T) <= Cardinality(Handler)
  <1>1. /\ IsFiniteSet(S) /\ IsFiniteSet(T)
        /\ Cardinality(S) \in Nat /\ Cardinality(T) \in Nat /\ Cardinality(Handler) \in Nat
    BY HandlerAssumption, FS_Subset, FS_CardinalityType
  <1>2. CASE k = n /\ T \subseteq S
    BY <1>1, <1>2, FS_Subset
  <1>3. CASE k = n /\ n = 0
    BY <1>1, <1>3, HandlerAssumption, FS_Subset
  <1>4. ASSUME k = n + 1, NEW h \in S, T \subseteq S \ {h}
        PROVE  k + Cardinality(T) <= Cardinality(Handler)
    <2>1. IsFiniteSet(S \ {h}) /\ Cardinality(S \ {h}) = Cardinality(S) - 1
      BY <1>1, FS_RemoveElement
    <2>2. Cardinality(T) <= Cardinality(S \ {h})
      BY <2>1, <1>4, FS_Subset
    <2> QED
      BY <1>1, <2>1, <2>2, <1>4
  <1> QED
    BY <1>2, <1>3, <1>4

LEMMA InitRows == Init => RowsInv
  <1> SUFFICES ASSUME Init PROVE RowsInv
    OBVIOUS
  <1>1. /\ \A t, b : BadgeWriters(t, b) = {}
        /\ \A c : ClaimWriters(c) = {}
    BY DEF Init, BadgeWriters, ClaimWriters
  <1>2. Cardinality({}) = 0 /\ Cardinality(Handler) \in Nat
    BY FS_EmptySet, HandlerAssumption, FS_CardinalityType
  <1>3. /\ \A t \in Tenant, b \in Badge : badges[t][b] = 0
        /\ \A c \in Cycle : claims[c] = 0
    BY DEF Init
  <1>4. ASSUME NEW t \in Tenant, NEW b \in Badge
        PROVE  badges[t][b] + Cardinality(BadgeWriters(t, b)) <= Cardinality(Handler)
    <2>1. badges[t][b] = 0 /\ Cardinality(BadgeWriters(t, b)) = 0
      BY <1>1, <1>2, <1>3
    <2> QED
      BY <2>1, <1>2
  <1>5. ASSUME NEW c \in Cycle
        PROVE  claims[c] + Cardinality(ClaimWriters(c)) <= Cardinality(Handler)
    BY <1>1, <1>2, <1>3
  <1> QED
    BY <1>4, <1>5, InitType DEF RowsInv

(* How a step of one handler changes the set of badge writers.             *)
LEMMA BadgeWritersStep ==
    ASSUME TypeOK, TypeOK', [Next]_vars, NEW t \in Tenant, NEW b \in Badge
    PROVE  \/ badges'[t][b] = badges[t][b] /\ BadgeWriters(t, b)' \subseteq BadgeWriters(t, b)
           \/ badges'[t][b] = badges[t][b] /\ badges[t][b] = 0
           \/ /\ badges'[t][b] = badges[t][b] + 1
              /\ \E h \in BadgeWriters(t, b) :
                    BadgeWriters(t, b)' \subseteq BadgeWriters(t, b) \ {h}
  <1> DEFINE W == BadgeWriters(t, b)
             Goal == \/ badges'[t][b] = badges[t][b] /\ W' \subseteq W
                     \/ badges'[t][b] = badges[t][b] /\ badges[t][b] = 0
                     \/ /\ badges'[t][b] = badges[t][b] + 1
                        /\ \E h \in W : W' \subseteq W \ {h}
  <1>1. ASSUME NEW h \in Handler, badges' = badges, pc'[h] # "createBadge",
               \A o \in Handler \ {h} : pc'[o] = pc[o] /\ job'[o] = job[o]
        PROVE  Goal
    BY <1>1 DEF BadgeWriters, Current
  <1>2. CASE badges' = badges /\ pc' = pc /\ job' = job
    BY <1>2 DEF BadgeWriters, Current
  <1>3. ASSUME NEW h \in Handler, NEW bt \in Badge, FindBadge(h, bt)
        PROVE  Goal
    <2> DEFINE k == [job[h] EXCEPT !.due = @ \ {bt}]
    <2>1. badges' = badges /\ Current(h, bt)
      BY <1>3 DEF FindBadge, tables
    <2>2. CASE Loop(h, k)
      <3>1. k \in Job
        BY VisitedType
      <3>2. /\ \A o \in Handler \ {h} : pc'[o] = pc[o] /\ job'[o] = job[o]
            /\ pc'[h] # "createBadge"
        BY <2>2, <3>1, LoopEffect
      <3> QED
        BY <1>1, <2>1, <3>2
    <2>3. CASE /\ badges[TenantOf[job[h].cycle]][bt] = 0
               /\ Goto(h, "createBadge") /\ job' = job
      <3>1. CASE t = TenantOf[job[h].cycle] /\ b = bt
        BY <2>1, <2>3, <3>1
      <3>2. CASE t # TenantOf[job[h].cycle] \/ b # bt
        <4>1. \A o \in Handler \ {h} : pc'[o] = pc[o] /\ job'[o] = job[o]
          BY <2>3 DEF Goto, TypeOK
        <4>2. job[h].due \subseteq Badge
          BY DEF TypeOK, Job
        <4>3. b # bt => ~Current(h, b)
          BY <2>1, <4>2 DEF Current, Rank, Badge
        <4>4. h \notin W'
          BY <2>3, <3>2, <4>3 DEF BadgeWriters, Current
        <4>5. W' \subseteq W
          BY <4>1, <4>4 DEF BadgeWriters, Current
        <4> QED
          BY <2>1, <4>5
      <3> QED
        BY <3>1, <3>2
    <2> QED
      BY <1>3, <2>2, <2>3 DEF FindBadge
  <1>4. ASSUME NEW h \in Handler, NEW bt \in Badge, CreateBadge(h, bt)
        PROVE  Goal
    <2> DEFINE k == [job[h] EXCEPT !.due = @ \ {bt}]
               t0 == TenantOf[job[h].cycle]
    <2>1. /\ badges' = [badges EXCEPT ![t0][bt] = @ + 1] /\ Loop(h, k)
          /\ pc[h] = "createBadge" /\ Current(h, bt)
      BY <1>4 DEF CreateBadge
    <2>2. k \in Job /\ t0 \in Tenant
      BY VisitedType, CycleAssumption DEF TypeOK, Job
    <2>3. /\ \A o \in Handler \ {h} : pc'[o] = pc[o] /\ job'[o] = job[o]
          /\ pc'[h] # "createBadge"
      BY <2>1, <2>2, LoopEffect
    <2>4. W' \subseteq W \ {h}
      BY <2>3 DEF BadgeWriters, Current
    <2>5. CASE t = t0 /\ b = bt
      <3>1. h \in W
        BY <2>1, <2>5 DEF BadgeWriters
      <3>2. badges'[t][b] = badges[t][b] + 1
        BY <2>1, <2>2, <2>5 DEF TypeOK
      <3> QED
        BY <2>4, <3>1, <3>2
    <2>6. CASE t # t0 \/ b # bt
      <3>1. badges'[t][b] = badges[t][b]
        BY <2>1, <2>2, <2>6 DEF TypeOK
      <3> QED
        BY <2>4, <3>1
    <2> QED
      BY <2>5, <2>6
  <1>5. ASSUME NEW h \in Handler, ReadSnapshots(h) PROVE Goal
    <2> DEFINE seen == snap[job[h].cycle]
               k == [job[h] EXCEPT !.due = BadgesEarned(seen),
                                   !.eligible = PlatinumEligible(seen),
                                   !.joker = JokerUsed(seen)]
    <2>1. k \in Job
      BY SeenType
    <2>2. Loop(h, k) /\ badges' = badges
      BY <1>5 DEF ReadSnapshots, tables
    <2> HIDE DEF k
    <2> QED
      BY <1>1, <2>1, <2>2, LoopEffect
  <1>6. ASSUME NEW h \in Handler,
               \/ FindCycle(h) \/ CreateEvent(h) \/ ReadEvents(h) \/ UpsertSnapshot(h)
               \/ FindClaim(h) \/ CreateClaim(h) \/ CloseCycle(h) \/ Abort(h)
        PROVE  Goal
    <2>1. /\ badges' = badges
          /\ \E label \in PC \ {"createBadge"} : pc' = [pc EXCEPT ![h] = label]
          /\ \A o \in Handler \ {h} : job'[o] = job[o]
      BY <1>6 DEF FindCycle, CreateEvent, ReadEvents, UpsertSnapshot, FindClaim,
         CreateClaim, CloseCycle, Abort, Goto, Finish, tables, TypeOK, PC
    <2>2. /\ pc'[h] # "createBadge"
          /\ \A o \in Handler \ {h} : pc'[o] = pc[o]
      BY <2>1 DEF TypeOK
    <2> QED
      BY <1>1, <2>1, <2>2
  <1>7. Goal
    BY <1>2, <1>3, <1>4, <1>5, <1>6 DEF Next, AddEventStep, ReadBadges, ReadCycles,
       tables, vars
  <1> QED
    BY <1>7

(* The same for the claims of a cycle.                                     *)
LEMMA ClaimWritersStep ==
    ASSUME TypeOK, TypeOK', [Next]_vars, NEW c \in Cycle
    PROVE  \/ claims'[c] = claims[c] /\ ClaimWriters(c)' \subseteq ClaimWriters(c)
           \/ claims'[c] = claims[c] /\ claims[c] = 0
           \/ /\ claims'[c] = claims[c] + 1
              /\ \E h \in ClaimWriters(c) :
                    ClaimWriters(c)' \subseteq ClaimWriters(c) \ {h}
  <1> DEFINE W == ClaimWriters(c)
             Goal == \/ claims'[c] = claims[c] /\ W' \subseteq W
                     \/ claims'[c] = claims[c] /\ claims[c] = 0
                     \/ /\ claims'[c] = claims[c] + 1
                        /\ \E h \in W : W' \subseteq W \ {h}
  <1>1. ASSUME NEW h \in Handler, claims' = claims, pc'[h] # "createClaim",
               \A o \in Handler \ {h} : pc'[o] = pc[o] /\ job'[o] = job[o]
        PROVE  Goal
    BY <1>1 DEF ClaimWriters
  <1>2. CASE claims' = claims /\ pc' = pc /\ job' = job
    BY <1>2 DEF ClaimWriters
  <1>3. ASSUME NEW h \in Handler, FindClaim(h) PROVE Goal
    <2>1. /\ claims' = claims /\ job' = job
          /\ pc' = [pc EXCEPT ![h] = IF claims[job[h].cycle] = 0 THEN "createClaim"
                                                                 ELSE "closeCycle"]
      BY <1>3 DEF FindClaim, Goto, tables
    <2>2. CASE job[h].cycle = c /\ claims[c] = 0
      BY <2>1, <2>2
    <2>3. CASE job[h].cycle # c \/ claims[c] # 0
      <3>1. W' \subseteq W
        BY <2>1, <2>3 DEF ClaimWriters, TypeOK
      <3> QED
        BY <2>1, <3>1
    <2> QED
      BY <2>2, <2>3
  <1>4. ASSUME NEW h \in Handler, CreateClaim(h) PROVE Goal
    <2>1. /\ claims' = [claims EXCEPT ![job[h].cycle] = @ + 1] /\ job' = job
          /\ pc[h] = "createClaim" /\ pc' = [pc EXCEPT ![h] = "closeCycle"]
      BY <1>4 DEF CreateClaim, Goto
    <2>2. W' \subseteq W \ {h} /\ job[h].cycle \in Cycle
      BY <2>1 DEF ClaimWriters, TypeOK, Job
    <2>3. CASE job[h].cycle = c
      <3>1. h \in W /\ claims'[c] = claims[c] + 1
        BY <2>1, <2>3 DEF ClaimWriters, TypeOK
      <3> QED
        BY <2>2, <3>1
    <2>4. CASE job[h].cycle # c
      BY <2>1, <2>2, <2>4 DEF TypeOK
    <2> QED
      BY <2>3, <2>4
  <1>5. ASSUME NEW h \in Handler, NEW k \in Job, Loop(h, k), claims' = claims
        PROVE  Goal
    BY <1>1, <1>5, LoopEffect
  <1>6. ASSUME NEW h \in Handler, ReadSnapshots(h) PROVE Goal
    BY <1>5, <1>6, SeenType DEF ReadSnapshots, tables
  <1>7. ASSUME NEW h \in Handler, NEW b \in Badge, FindBadge(h, b) \/ CreateBadge(h, b)
        PROVE  Goal
    <2>1. CASE Loop(h, [job[h] EXCEPT !.due = @ \ {b}]) /\ claims' = claims
      BY <2>1, <1>5, VisitedType
    <2>2. CASE Goto(h, "createBadge") /\ job' = job /\ claims' = claims
      <3>1. /\ pc'[h] # "createClaim"
            /\ \A o \in Handler \ {h} : pc'[o] = pc[o] /\ job'[o] = job[o]
        BY <2>2 DEF Goto, TypeOK
      <3> QED
        BY <1>1, <2>2, <3>1
    <2> QED
      BY <1>7, <2>1, <2>2 DEF FindBadge, CreateBadge, tables
  <1>8. ASSUME NEW h \in Handler,
               \/ FindCycle(h) \/ CreateEvent(h) \/ ReadEvents(h) \/ UpsertSnapshot(h)
               \/ CloseCycle(h) \/ Abort(h)
        PROVE  Goal
    <2>1. /\ claims' = claims
          /\ \E label \in PC \ {"createClaim"} : pc' = [pc EXCEPT ![h] = label]
          /\ \A o \in Handler \ {h} : job'[o] = job[o]
      BY <1>8 DEF FindCycle, CreateEvent, ReadEvents, UpsertSnapshot, CloseCycle,
         Abort, Goto, Finish, tables, TypeOK, PC
    <2>2. /\ pc'[h] # "createClaim"
          /\ \A o \in Handler \ {h} : pc'[o] = pc[o]
      BY <2>1 DEF TypeOK
    <2> QED
      BY <1>1, <2>1, <2>2
  <1>9. Goal
    BY <1>2, <1>3, <1>4, <1>6, <1>7, <1>8 DEF Next, AddEventStep, ReadBadges,
       ReadCycles, tables, vars
  <1> QED
    BY <1>9

LEMMA NextRows == RowsInv /\ [Next]_vars => RowsInv'
  <1> SUFFICES ASSUME RowsInv, [Next]_vars PROVE RowsInv'
    OBVIOUS
  <1>t. TypeOK /\ TypeOK'
    BY NextType DEF RowsInv
  <1>1. ASSUME NEW t \in Tenant, NEW b \in Badge
        PROVE  badges'[t][b] + Cardinality(BadgeWriters(t, b)') <= Cardinality(Handler)
    <2>1. badges[t][b] \in Nat /\ badges'[t][b] \in Nat
      BY <1>t DEF TypeOK
    <2>2. BadgeWriters(t, b) \subseteq Handler /\ BadgeWriters(t, b)' \subseteq Handler
      BY DEF BadgeWriters
    <2>3. badges[t][b] + Cardinality(BadgeWriters(t, b)) <= Cardinality(Handler)
      BY DEF RowsInv
    <2> QED
      BY <1>t, <2>1, <2>2, <2>3, BadgeWritersStep, WriterCount
  <1>2. ASSUME NEW c \in Cycle
        PROVE  claims'[c] + Cardinality(ClaimWriters(c)') <= Cardinality(Handler)
    <2>1. claims[c] \in Nat /\ claims'[c] \in Nat
      BY <1>t DEF TypeOK
    <2>2. ClaimWriters(c) \subseteq Handler /\ ClaimWriters(c)' \subseteq Handler
      BY DEF ClaimWriters
    <2>3. claims[c] + Cardinality(ClaimWriters(c)) <= Cardinality(Handler)
      BY DEF RowsInv
    <2> DEFINE W == ClaimWriters(c)
    <2>4. \/ claims'[c] = claims[c] /\ W' \subseteq W
          \/ claims'[c] = claims[c] /\ claims[c] = 0
          \/ claims'[c] = claims[c] + 1 /\ \E h \in W : W' \subseteq W \ {h}
      BY <1>t, ClaimWritersStep
    <2> QED
      BY <2>1, <2>2, <2>3, <2>4, WriterCount
  <1> QED
    BY <1>t, <1>1, <1>2 DEF RowsInv

LEMMA RowsBounded == RowsInv => BadgeRowsBounded /\ ClaimRowsBounded
  <1> SUFFICES ASSUME RowsInv PROVE BadgeRowsBounded /\ ClaimRowsBounded
    OBVIOUS
  <1>1. ASSUME NEW S, S \subseteq Handler
        PROVE  Cardinality(S) \in Nat /\ Cardinality(Handler) \in Nat
    <2>1. IsFiniteSet(S)
      BY <1>1, HandlerAssumption, FS_Subset
    <2> QED
      BY <2>1, HandlerAssumption, FS_CardinalityType
  <1>2. ASSUME NEW t \in Tenant, NEW b \in Badge
        PROVE  badges[t][b] <= Cardinality(Handler)
    <2>1. BadgeWriters(t, b) \subseteq Handler
      BY DEF BadgeWriters
    <2>2. badges[t][b] \in Nat
      BY DEF RowsInv, TypeOK
    <2> QED
      BY <1>1, <2>1, <2>2 DEF RowsInv
  <1>3. ASSUME NEW c \in Cycle
        PROVE  claims[c] <= Cardinality(Handler)
    <2>1. ClaimWriters(c) \subseteq Handler
      BY DEF ClaimWriters
    <2>2. claims[c] \in Nat
      BY DEF RowsInv, TypeOK
    <2> QED
      BY <1>1, <2>1, <2>2 DEF RowsInv
  <1> QED
    BY <1>2, <1>3 DEF BadgeRowsBounded, ClaimRowsBounded

(* A badge never gets more rows than there are requests in flight at once; *)
(* served one at a time, requests award each badge once.                   *)
THEOREM BadgesBounded == Spec => []BadgeRowsBounded
  BY InitRows, NextRows, RowsBounded, PTL DEF Spec

(* Nor does a cycle get more reward claims than that.                      *)
THEOREM ClaimsBounded == Spec => []ClaimRowsBounded
  BY InitRows, NextRows, RowsBounded, PTL DEF Spec

(* "Idempotent per tenant + type" (score.service.ts:123) is true when      *)
(* requests are served one at a time, wherever they are cut off, and a     *)
(* cycle is claimed once: overlap is all that the run badge_duplicate      *)
(* needs.                                                                  *)
THEOREM RewardsOnceInTurn ==
    ASSUME Cardinality(Handler) = 1
    PROVE  Spec => [](BadgeOnce /\ \A c \in Cycle : claims[c] <= 1)
  <1>1. BadgeRowsBounded /\ ClaimRowsBounded
            => BadgeOnce /\ \A c \in Cycle : claims[c] <= 1
    BY DEF BadgeRowsBounded, ClaimRowsBounded, BadgeOnce
  <1> QED
    BY <1>1, BadgesBounded, ClaimsBounded, PTL

-----------------------------------------------------------------------------
(* Why an undisturbed snapshot is exact.  A month nobody was disturbed in  *)
(* has at most one recompute under way; while it has one, the sum that is  *)
(* about to be written is what the events are worth now, and when it has   *)
(* none the snapshot is.                                                   *)

Agrees(c, m) == \/ snap[c][m] = Credit[c][m]
                \/ snap[c][m] = Absent /\ Credit[c][m] = 0

Calm(c, m) ==
    /\ \A h, o \in Handler : Recomputes(h, c, m) /\ Recomputes(o, c, m) => h = o
    /\ (\A h \in Handler : ~Recomputes(h, c, m)) => Agrees(c, m)
    /\ \A h \in Handler : Recomputes(h, c, m) /\ pc[h] = "upsert"
                              => job[h].total = Credit[c][m]

CalmInv == /\ TypeOK
           /\ \A c \in Cycle, m \in Month : <<c, m>> \notin disturbed => Calm(c, m)

LEMMA InitCalm == Init => CalmInv
  <1> SUFFICES ASSUME Init PROVE CalmInv
    OBVIOUS
  <1>1. ASSUME NEW c \in Cycle, NEW m \in Month PROVE Credit[c][m] = 0
    <2>1. rows[c][m] = [k \in Category |-> 0]
      BY DEF Init
    <2>2. Sum(rows[c][m]) = 0
      BY <2>1 DEF Sum, Category
    <2> QED
      BY <2>2 DEF Credit, MonthTotal, MAX_MONTHLY_SCORE
  <1>2. ASSUME NEW c \in Cycle, NEW m \in Month PROVE Calm(c, m)
    BY <1>1 DEF Init, Calm, Agrees, Recomputes
  <1> QED
    BY InitType, <1>2 DEF CalmInv

(* A step of h that concerns another month leaves this one calm.           *)
LEMMA CalmElsewhere ==
    ASSUME NEW c \in Cycle, NEW m \in Month, NEW h \in Handler, Calm(c, m),
           ~Recomputes(h, c, m), ~Recomputes(h, c, m)',
           \A o \in Handler \ {h} : pc'[o] = pc[o] /\ job'[o] = job[o],
           snap'[c][m] = snap[c][m], Credit'[c][m] = Credit[c][m]
    PROVE  Calm(c, m)'
  <1>1. \A o \in Handler : Recomputes(o, c, m)' <=> Recomputes(o, c, m)
    BY DEF Recomputes
  <1>2. \A o \in Handler : Recomputes(o, c, m) => pc'[o] = pc[o] /\ job'[o] = job[o]
    OBVIOUS
  <1>3. Agrees(c, m)' <=> Agrees(c, m)
    BY DEF Agrees
  <1> QED
    BY <1>1, <1>2, <1>3 DEF Calm

LEMMA SameCredit ==
    ASSUME NEW c \in Cycle, NEW m \in Month, rows'[c][m] = rows[c][m]
    PROVE  Credit'[c][m] = Credit[c][m]
  BY DEF Credit

LEMMA NextCalm == CalmInv /\ [Next]_vars => CalmInv'
  <1> SUFFICES ASSUME CalmInv, [Next]_vars PROVE CalmInv'
    OBVIOUS
  <1>t. TypeOK /\ TypeOK' /\ job \in [Handler -> Job]
    BY NextType DEF CalmInv, TypeOK
  <1> SUFFICES ASSUME NEW c \in Cycle, NEW m \in Month, <<c, m>> \notin disturbed'
               PROVE  Calm(c, m)'
    BY <1>t DEF CalmInv
  <1>d. disturbed \subseteq disturbed'
    BY DEF Next, vars, AddEventStep, FindCycle, CreateEvent, ReadEvents,
       UpsertSnapshot, ReadSnapshots, FindBadge, CreateBadge, FindClaim,
       CreateClaim, CloseCycle, Abort, ReadBadges, ReadCycles
  <1>c. Calm(c, m)
    BY <1>d DEF CalmInv
  <1>1. ASSUME pc' = pc, job' = job, snap' = snap, rows' = rows PROVE Calm(c, m)'
    BY <1>c, <1>1 DEF Calm, Recomputes, Agrees, Credit
  <1>2. ASSUME NEW h \in Handler, FindCycle(h) PROVE Calm(c, m)'
    <2>1. PICK cc \in Cycle, mm \in Month, e \in Reported \cup {Unmet} :
             /\ job' = [job EXCEPT ![h] =
                      [NoJob EXCEPT !.cycle = cc, !.month = mm, !.event = e,
                                    !.active = (status[cc] = "ACTIVE")]]
             /\ disturbed' = IF \E other \in Handler : Recomputes(other, cc, mm)
                             THEN disturbed \cup {<<cc, mm>>} ELSE disturbed
      BY <1>2 DEF FindCycle
    <2>2. /\ pc[h] = "idle" /\ pc' = [pc EXCEPT ![h] = "createEvent"]
          /\ snap' = snap /\ rows' = rows
      BY <1>2 DEF FindCycle, Goto, tables
    <2>3. /\ pc'[h] = "createEvent" /\ job'[h].cycle = cc /\ job'[h].month = mm
          /\ \A o \in Handler \ {h} : pc'[o] = pc[o] /\ job'[o] = job[o]
      BY <1>t, <2>1, <2>2, NoJobType DEF TypeOK, Job
    <2>4. ~Recomputes(h, c, m)
      BY <2>2 DEF Recomputes
    <2>5. snap'[c][m] = snap[c][m] /\ Credit'[c][m] = Credit[c][m]
      BY <2>2, SameCredit
    <2>6. CASE c = cc /\ m = mm
      <3>1. \A o \in Handler : ~Recomputes(o, c, m)
        BY <2>1, <2>6
      <3>2. \A o \in Handler \ {h} : ~Recomputes(o, c, m)'
        BY <3>1, <2>3 DEF Recomputes
      <3>3. Recomputes(h, c, m)'
        BY <2>3, <2>6 DEF Recomputes
      <3> QED
        BY <2>3, <3>2, <3>3 DEF Calm
    <2>7. CASE ~(c = cc /\ m = mm)
      <3>1. ~Recomputes(h, c, m)'
        BY <2>3, <2>7 DEF Recomputes
      <3> QED
        BY <1>c, <2>3, <2>4, <2>5, <3>1, CalmElsewhere
    <2> QED
      BY <2>6, <2>7
  <1>3. ASSUME NEW h \in Handler, CreateEvent(h) PROVE Calm(c, m)'
    <2>1. /\ pc[h] = "createEvent" /\ pc' = [pc EXCEPT ![h] = "readEvents"]
          /\ job' = job /\ snap' = snap
          /\ rows' = IF job[h].event = Unmet THEN rows
                     ELSE [rows EXCEPT ![job[h].cycle][job[h].month][job[h].event] = @ + 1]
      BY <1>3 DEF CreateEvent, Goto
    <2>2. /\ pc'[h] = "readEvents"
          /\ \A o \in Handler \ {h} : pc'[o] = pc[o] /\ job'[o] = job[o]
      BY <1>t, <2>1 DEF TypeOK
    <2>3. CASE Recomputes(h, c, m)
      <3>1. \A o \in Handler \ {h} : ~Recomputes(o, c, m)'
        BY <1>c, <2>2, <2>3 DEF Calm, Recomputes
      <3>2. Recomputes(h, c, m)'
        BY <2>1, <2>2, <2>3 DEF Recomputes
      <3> QED
        BY <2>2, <3>1, <3>2 DEF Calm
    <2>4. CASE ~Recomputes(h, c, m)
      <3>1. ~(job[h].cycle = c /\ job[h].month = m)
        BY <2>1, <2>4 DEF Recomputes
      <3>2. ~Recomputes(h, c, m)'
        BY <2>1, <3>1 DEF Recomputes
      <3>3. rows'[c][m] = rows[c][m]
        BY <1>t, <2>1, <3>1 DEF TypeOK
      <3> QED
        BY <1>c, <2>1, <2>2, <2>4, <3>2, <3>3, SameCredit, CalmElsewhere
    <2> QED
      BY <2>3, <2>4
  <1>4. ASSUME NEW h \in Handler, ReadEvents(h) PROVE Calm(c, m)'
    <2> DEFINE total == MonthTotal(rows[job[h].cycle][job[h].month])
    <2>1. /\ pc[h] = "readEvents" /\ pc' = [pc EXCEPT ![h] = "upsert"]
          /\ job' = [job EXCEPT ![h] = [job[h] EXCEPT !.total = total, !.event = Unmet]]
          /\ snap' = snap /\ rows' = rows
      BY <1>4 DEF ReadEvents, Goto, tables
    <2>2. /\ pc'[h] = "upsert" /\ job'[h].cycle = job[h].cycle
          /\ job'[h].month = job[h].month /\ job'[h].total = total
          /\ \A o \in Handler \ {h} : pc'[o] = pc[o] /\ job'[o] = job[o]
      <3> HIDE DEF total
      <3> QED
        BY <1>t, <2>1 DEF TypeOK, Job
    <2>3. Recomputes(h, c, m)' <=> Recomputes(h, c, m)
      BY <2>1, <2>2 DEF Recomputes
    <2>4. CASE Recomputes(h, c, m)
      <3>1. \A o \in Handler \ {h} : ~Recomputes(o, c, m)'
        BY <1>c, <2>2, <2>4 DEF Calm, Recomputes
      <3>2. job'[h].total = Credit'[c][m]
        BY <2>1, <2>2, <2>4 DEF Recomputes, Credit
      <3> QED
        BY <2>3, <2>4, <3>1, <3>2 DEF Calm
    <2>5. CASE ~Recomputes(h, c, m)
      BY <1>c, <2>1, <2>2, <2>3, <2>5, SameCredit, CalmElsewhere
    <2> QED
      BY <2>4, <2>5
  <1>5. ASSUME NEW h \in Handler, UpsertSnapshot(h) PROVE Calm(c, m)'
    <2>1. /\ pc[h] = "upsert" /\ pc' = [pc EXCEPT ![h] = "readSnapshots"]
          /\ job' = [job EXCEPT ![h].total = 0, ![h].month = 1]
          /\ snap' = [snap EXCEPT ![job[h].cycle][job[h].month] = job[h].total]
          /\ rows' = rows
      BY <1>5 DEF UpsertSnapshot, Goto
    <2>2. /\ pc'[h] = "readSnapshots"
          /\ \A o \in Handler \ {h} : pc'[o] = pc[o] /\ job'[o] = job[o]
      BY <1>t, <2>1 DEF TypeOK
    <2>3. ~Recomputes(h, c, m)'
      BY <2>2 DEF Recomputes
    <2>4. Credit'[c][m] = Credit[c][m]
      BY <2>1, SameCredit
    <2>5. CASE Recomputes(h, c, m)
      <3>1. \A o \in Handler \ {h} : ~Recomputes(o, c, m)'
        BY <1>c, <2>2, <2>5 DEF Calm, Recomputes
      <3>2. snap'[c][m] = job[h].total
        BY <1>t, <2>1, <2>5 DEF TypeOK, Snapshots, Recomputes
      <3>3. job[h].total = Credit[c][m]
        BY <1>c, <2>1, <2>5 DEF Calm
      <3> QED
        BY <2>3, <2>4, <3>1, <3>2, <3>3 DEF Calm, Agrees
    <2>6. CASE ~Recomputes(h, c, m)
      <3>1. snap'[c][m] = snap[c][m]
        BY <1>t, <2>1, <2>6 DEF TypeOK, Snapshots, Recomputes
      <3> QED
        BY <1>c, <2>2, <2>3, <2>4, <2>6, <3>1, CalmElsewhere
    <2> QED
      BY <2>5, <2>6
  <1>6. ASSUME NEW h \in Handler, Abort(h) PROVE Calm(c, m)'
    <2>1. /\ Finish(h) /\ snap' = snap /\ rows' = rows
          /\ disturbed' = disturbed \cup
                {cm \in Cycle \X Month : Recomputes(h, cm[1], cm[2])}
      BY <1>6 DEF Abort, tables
    <2>2. /\ pc'[h] = "idle"
          /\ \A o \in Handler \ {h} : pc'[o] = pc[o] /\ job'[o] = job[o]
      BY <1>t, <2>1 DEF Finish, TypeOK
    <2>3. ~Recomputes(h, c, m)
      BY <2>1
    <2>4. ~Recomputes(h, c, m)'
      BY <2>2 DEF Recomputes
    <2> QED
      BY <1>c, <2>1, <2>2, <2>3, <2>4, SameCredit, CalmElsewhere
  (* From the reading of the snapshots on, the months are left alone.      *)
  <1>7. ASSUME NEW h \in Handler, rows' = rows, snap' = snap,
               pc[h] \notin {"createEvent", "readEvents", "upsert"},
               pc'[h] \notin {"createEvent", "readEvents", "upsert"},
               \A o \in Handler \ {h} : pc'[o] = pc[o] /\ job'[o] = job[o]
        PROVE  Calm(c, m)'
    <2>1. ~Recomputes(h, c, m) /\ ~Recomputes(h, c, m)'
      BY <1>7 DEF Recomputes
    <2> QED
      BY <1>c, <1>7, <2>1, SameCredit, CalmElsewhere
  <1>8. ASSUME NEW h \in Handler, ReadSnapshots(h) PROVE Calm(c, m)'
    <2> DEFINE seen == snap[job[h].cycle]
               k == [job[h] EXCEPT !.due = BadgesEarned(seen),
                                   !.eligible = PlatinumEligible(seen),
                                   !.joker = JokerUsed(seen)]
    <2>1. k \in Job
      BY <1>t DEF Job, BadgesEarned, PlatinumEligible, JokerUsed
    <2>2. Loop(h, k) /\ rows' = rows /\ snap' = snap /\ pc[h] = "readSnapshots"
      BY <1>8 DEF ReadSnapshots, tables
    <2> HIDE DEF k
    <2> QED
      BY <1>t, <1>7, <2>1, <2>2, LoopEffect
  <1>9. ASSUME NEW h \in Handler, NEW b \in Badge, FindBadge(h, b) \/ CreateBadge(h, b)
        PROVE  Calm(c, m)'
    <2> DEFINE k == [job[h] EXCEPT !.due = @ \ {b}]
    <2>1. k \in Job
      BY <1>t DEF Job
    <2>2. /\ rows' = rows /\ snap' = snap /\ pc[h] \in {"findBadge", "createBadge"}
          /\ (Goto(h, "createBadge") /\ job' = job) \/ Loop(h, k)
      BY <1>9 DEF FindBadge, CreateBadge, tables
    <2> HIDE DEF k
    <2>3. CASE Goto(h, "createBadge") /\ job' = job
      BY <1>t, <1>7, <2>2, <2>3 DEF Goto, TypeOK
    <2>4. CASE Loop(h, k)
      BY <1>t, <1>7, <2>1, <2>2, <2>4, LoopEffect
    <2> QED
      BY <2>2, <2>3, <2>4
  <1>10. ASSUME NEW h \in Handler, FindClaim(h) \/ CreateClaim(h) \/ CloseCycle(h)
         PROVE  Calm(c, m)'
    <2>1. /\ rows' = rows /\ snap' = snap
          /\ pc[h] \in {"findClaim", "createClaim", "closeCycle"}
          /\ pc'[h] \in {"createClaim", "closeCycle", "idle"}
          /\ \A o \in Handler \ {h} : pc'[o] = pc[o] /\ job'[o] = job[o]
      BY <1>t, <1>10 DEF FindClaim, CreateClaim, CloseCycle, Goto, Finish, tables, TypeOK
    <2> QED
      BY <1>7, <2>1
  <1>11. ASSUME NEW r \in Reader, ReadBadges(r) \/ \E t \in Tenant : ReadCycles(r, t)
         PROVE  Calm(c, m)'
    BY <1>1, <1>11 DEF ReadBadges, ReadCycles, tables
  <1>12. CASE UNCHANGED vars
    BY <1>1, <1>12 DEF vars
  <1> QED
    BY <1>2, <1>3, <1>4, <1>5, <1>6, <1>8, <1>9, <1>10, <1>11, <1>12
       DEF Next, AddEventStep

(* Wherever recomputes of a month follow one another to their end, its     *)
(* snapshot is exact, for any number of handlers at work on other months.  *)
THEOREM UndisturbedSnapshotsAreExact == Spec => []UndisturbedSnapshotExact
  <1>1. CalmInv => UndisturbedSnapshotExact
    BY DEF CalmInv, Calm, Agrees, UndisturbedSnapshotExact
  <1> QED
    BY <1>1, InitCalm, NextCalm, PTL DEF Spec
=============================================================================
