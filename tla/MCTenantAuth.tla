---------------------------- MODULE MCTenantAuth ----------------------------
(***************************************************************************)
(* TenantAuth for TLC: handlers, tenants, invites and tokens are           *)
(* interchangeable.                                                        *)
(***************************************************************************)
EXTENDS TenantAuth, TLC

Symmetric == Permutations(Handler) \cup Permutations(Tenant)
             \cup Permutations(Invite) \cup Permutations(Token)
=============================================================================
