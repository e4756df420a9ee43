-------------------------------- MODULE Clock --------------------------------
(***************************************************************************)
(* The time the process reads with Date.now() and the database with now(): *)
(* one clock that does not run backwards, in whole units.                  *)
(***************************************************************************)
EXTENDS Naturals

CONSTANT MaxTime  \* bound on the clock

ASSUME ClockAssumption == MaxTime \in Nat

VARIABLE now

Tick ==
    /\ now < MaxTime
    /\ now' = now + 1
=============================================================================
