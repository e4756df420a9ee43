-------------------------- MODULE MCLeaseWorkflow ---------------------------
(***************************************************************************)
(* LeaseWorkflow for TLC: handlers and tenants are interchangeable.        *)
(***************************************************************************)
EXTENDS LeaseWorkflow, TLC

Symmetric == Permutations(Handler) \cup Permutations(Tenant)
=============================================================================
