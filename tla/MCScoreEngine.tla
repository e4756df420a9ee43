--------------------------- MODULE MCScoreEngine ----------------------------
(***************************************************************************)
(* ScoreEngine for TLC: every cycle belongs to the one tenant.             *)
(***************************************************************************)
EXTENDS ScoreEngine, TLC

CONSTANT t1
Symmetric == Permutations(Handler)
OneTenant == [c \in Cycle |-> t1]
=============================================================================
