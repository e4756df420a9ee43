------------------------------ MODULE ScoreYear ------------------------------
(***************************************************************************)
(* The scoring rules walked through a year, month by month: when a month   *)
(* is over it has a snapshot with some total, or none because nothing was  *)
(* recorded for it.  What badgesEarned (score.service.ts:53-63) makes of   *)
(* every list of snapshots a year can end up with.                         *)
(***************************************************************************)
EXTENDS ScoreRules

CONSTANT Totals  \* the monthly totals looked at, Absent among them

(* What the properties ask of the constants: totals a month can have, and  *)
(* runs of 3, 6 and 9 months of 12.                                        *)
TotalsFit == Totals \subseteq Points \cup {Absent}
TiersFit == BronzeRun <= SilverRun /\ SilverRun <= GoldRun /\ 2 * SilverRun <= YearLen

VARIABLES snap, month

Init == snap = [m \in 1 .. YearLen |-> Absent] /\ month = 0

EndOfMonth == /\ month < YearLen
              /\ month' = month + 1
              /\ \E total \in Totals : snap' = [snap EXCEPT ![month + 1] = total]

Spec == Init /\ [][EndOfMonth]_<<snap, month>>

-----------------------------------------------------------------------------
(* The single pass of maxConsecutive (score.service.ts:21-33) finds a run  *)
(* of n months exactly when there is one: n snapshots in a row, months     *)
(* without a snapshot not counted and not in the way.                      *)
LoopFindsRuns ==
    \A threshold \in {8, 9} :
        LET longest == MaxConsecutive(snap, threshold)
        IN  \A n \in 1 .. YearLen : longest >= n <=> HasRun(snap, threshold, n)

(* The run tiers stand above one another although each has a threshold and *)
(* a length of its own (score.service.ts:53-63): GOLD comes with SILVER,   *)
(* SILVER with BRONZE.                                                     *)
TiersNested == /\ Earns(snap, "GOLD") => Earns(snap, "SILVER")
               /\ Earns(snap, "SILVER") => Earns(snap, "BRONZE")

(* PLATINUM, whose joker month may be worth nothing and break every run,   *)
(* still comes with SILVER (score.service.ts:40-63).  Not with GOLD: the   *)
(* joker may fall mid-year and leave no run of GOLD's length.              *)
PlatinumBringsSilver == Earns(snap, "PLATINUM") => Earns(snap, "SILVER")
=============================================================================
