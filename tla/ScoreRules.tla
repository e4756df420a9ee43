----------------------------- MODULE ScoreRules -----------------------------
(***************************************************************************)
(* The pure scoring rules of modules/score/score.service.ts: points per    *)
(* category, the monthly total, the longest run of good months, platinum   *)
(* eligibility with its single joker, and the badges a list of monthly     *)
(* snapshots earns.                                                        *)
(*                                                                         *)
(* A cycle's snapshots are a function over Month whose value is a monthly  *)
(* total or Absent.  The code's list "ordered by month" is that function   *)
(* with the absent months left out: (cycleId, month) is unique, and the    *)
(* DTO only lets months 1..12 in, so YearLen snapshots means one for every *)
(* month and slice(0, 12) is the whole list.                               *)
(***************************************************************************)
EXTENDS Integers, FiniteSets, FiniteSetsExt

CONSTANTS
    YearLen,    \* months of a cycle: 12 in the code
    BronzeRun,  \* run lengths of the three run badges: 3, 6 and 9
    SilverRun,
    GoldRun

ASSUME YearAssumption == YearLen \in Nat \ {0}
ASSUME RunAssumption == /\ BronzeRun \in Nat \ {0}
                        /\ SilverRun \in Nat \ {0}
                        /\ GoldRun \in Nat \ {0}

Month == 1 .. YearLen
Category == {"RENT_ONTIME", "MESSAGE_REPLY", "LOGIN_ACTIVITY", "NO_VIOLATION"}
Badge == {"BRONZE", "SILVER", "GOLD", "PLATINUM"}

MAX_MONTHLY_SCORE == 10
Points == 0 .. MAX_MONTHLY_SCORE
Absent == -1
Snapshots == [Month -> Points \cup {Absent}]

-----------------------------------------------------------------------------
(* Monthly total.  rows[k] is the number of met events of category k; an   *)
(* event that was not met carries no points.                               *)

Sum(rows) == 6 * rows["RENT_ONTIME"] + 2 * rows["MESSAGE_REPLY"]
             + rows["LOGIN_ACTIVITY"] + rows["NO_VIOLATION"]

MonthTotal(rows) == IF Sum(rows) < MAX_MONTHLY_SCORE
                    THEN Sum(rows) ELSE MAX_MONTHLY_SCORE

-----------------------------------------------------------------------------
(* maxConsecutive as the code runs it: one pass over the existing          *)
(* snapshots, cur counting up and falling back to 0 on a low month.        *)
CurGapEndsRun(snap, threshold) ==  \* mutant: a missing month ends the run
    LET cur[m \in 0 .. YearLen] ==
            IF m = 0 THEN 0
            ELSE IF snap[m] >= threshold THEN cur[m - 1] + 1 ELSE 0
    IN  cur

Cur(snap, threshold) ==
    LET cur[m \in 0 .. YearLen] ==
            IF m = 0 THEN 0
            ELSE IF snap[m] = Absent THEN cur[m - 1]
            ELSE IF snap[m] >= threshold THEN cur[m - 1] + 1
            ELSE 0
    IN  cur

MaxConsecutive(snap, threshold) ==
    LET cur == Cur(snap, threshold) IN Max({cur[m] : m \in 0 .. YearLen})

(* "maxConsecutive(scores, threshold) >= n" said without the loop: n       *)
(* existing snapshots with no lower one between the first and the last.    *)
HasRun(snap, threshold, n) ==
    \E lo, hi \in DOMAIN snap :
        LET present == {m \in lo .. hi : snap[m] # Absent}
        IN  /\ Cardinality(present) >= n
            /\ \A m \in present : snap[m] >= threshold

-----------------------------------------------------------------------------
Imperfect(snap) == {m \in DOMAIN snap : snap[m] < MAX_MONTHLY_SCORE}

\* mutant: forgets that twelve snapshots are needed
PlatinumOfAnyLength(snap) ==
    Cardinality({m \in DOMAIN snap : snap[m] \in 0 .. MAX_MONTHLY_SCORE - 1}) <= 1

\* mutant: allows a second joker
PlatinumTwoJokers(snap) == /\ \A m \in DOMAIN snap : snap[m] # Absent
                           /\ Cardinality(Imperfect(snap)) <= 2

PlatinumEligible(snap) == /\ \A m \in DOMAIN snap : snap[m] # Absent
                          /\ Cardinality(Imperfect(snap)) <= 1

JokerUsed(snap) == Imperfect(snap) # {}

EarnsSwapped(snap, badge) ==  \* mutant: the thresholds of two tiers swapped
    \/ badge = "BRONZE"   /\ HasRun(snap, 8, BronzeRun)
    \/ badge = "SILVER"   /\ HasRun(snap, 9, SilverRun)
    \/ badge = "GOLD"     /\ HasRun(snap, 8, GoldRun)
    \/ badge = "PLATINUM" /\ PlatinumEligible(snap)

Earns(snap, badge) ==
    \/ badge = "BRONZE"   /\ HasRun(snap, 8, BronzeRun)
    \/ badge = "SILVER"   /\ HasRun(snap, 8, SilverRun)
    \/ badge = "GOLD"     /\ HasRun(snap, 9, GoldRun)
    \/ badge = "PLATINUM" /\ PlatinumEligible(snap)

BadgesEarned(snap) == {badge \in Badge : Earns(snap, badge)}

(* The order in which the award loop visits the earned badges.             *)
Rank == [BRONZE |-> 1, SILVER |-> 2, GOLD |-> 3, PLATINUM |-> 4]

-----------------------------------------------------------------------------
(* What a badge promises, given what each month's events are really worth. *)

Good(credit, threshold) == {m \in Month : credit[m] >= threshold}

YearEarned(credit) == Cardinality(Month \ Good(credit, MAX_MONTHLY_SCORE)) <= 1

Justified(credit, badge) ==
    \/ badge = "BRONZE"   /\ Cardinality(Good(credit, 8)) >= BronzeRun
    \/ badge = "SILVER"   /\ Cardinality(Good(credit, 8)) >= SilverRun
    \/ badge = "GOLD"     /\ Cardinality(Good(credit, 9)) >= GoldRun
    \/ badge = "PLATINUM" /\ YearEarned(credit)
=============================================================================
