-------------------------- MODULE MCAgencyRecords ---------------------------
(***************************************************************************)
(* AgencyRecords for TLC: one row of every kind is enough for a row of one *)
(* agency to meet one of another in every relation.                        *)
(***************************************************************************)
EXTENDS AgencyRecords, TLC

MCKindOf == [r \in Row |-> r]

Symmetric == Permutations(Handler) \cup Permutations(Agency)
=============================================================================
