------------------------------- MODULE MCScore --------------------------------
(***************************************************************************)
(* The engine and the rules it applies, for TLC.  The engine's cycles are  *)
(* short; the rules are looked at over longer years, with no snapshot or   *)
(* one total on each side of every threshold (8, 9 and 10).  The two share *)
(* no variable: a year is walked before the engine begins, or not at all.  *)
(***************************************************************************)
EXTENDS MCScoreEngine

VARIABLES
    year,  \* the snapshots of a longer year
    ended  \* its months that are over

EachSide == {Absent, 7, 8, 9, 10}

Rules == INSTANCE ScoreYear WITH
    YearLen <- 6, BronzeRun <- 2, SilverRun <- 3, GoldRun <- 5, Totals <- EachSide,
    snap <- year, month <- ended

ASSUME RulesAssumption == Rules!TotalsFit /\ Rules!TiersFit

MCInit == Init /\ Rules!Init

MCNext ==
    \/ Rules!Init /\ Next /\ UNCHANGED <<year, ended>>
    \/ Init /\ Rules!EndOfMonth /\ UNCHANGED vars

MCFairSpec == MCInit /\ [][MCNext]_<<vars, year, ended>> /\ Fairness

-----------------------------------------------------------------------------
(* ScoreYear: the loop of maxConsecutive finds a run exactly when there is *)
(* one (score.service.ts:21-33).                                           *)
LoopFindsRuns == Rules!LoopFindsRuns

(* ScoreYear: PLATINUM comes with SILVER (score.service.ts:40-63).         *)
PlatinumBringsSilver == Rules!PlatinumBringsSilver
=============================================================================
