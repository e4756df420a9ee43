------------------------------- MODULE Scoping -------------------------------
(***************************************************************************)
(* Whose rows a request may see.  A bearer token that verifies puts its    *)
(* agency and role into the request's context: JwtStrategy and             *)
(* TenantJwtStrategy do so on guarded routes, and RateLimitGuard, which    *)
(* runs before them on every route, does so on public routes as well       *)
(* (common/rate-limit/rate-limit.guard.ts:81-96).  The middleware of       *)
(* TenantPrismaService then adds the context's agency to the where clause  *)
(* of some queries of some models.                                         *)
(***************************************************************************)
CONSTANTS
    Agency,
    Role,  \* the roles whose requests are considered
    None

TenantModels == {"User", "Property", "Unit", "Lease", "Tenant", "RentSchedule",
                 "Payment", "Owner", "MessageThread", "TenantScoreCycle", "LeaseReview"}
ScopedActions == {"findMany", "findFirst", "count", "aggregate", "updateMany",
                  "deleteMany"}

NoToken == [agency |-> None, role |-> None]
UserToken == [agency : Agency, role : Role]
TenantToken == [agency : Agency, role : {None}]  \* a tenant's has no role

(* What the context of a request may be on a route without a guard.        *)
AnyToken == {NoToken} \cup UserToken \cup TenantToken

Enforced(ctx) == ctx.agency # None /\ ctx.role # "SYSTEM_ADMIN"

(* Does a query of this kind come up with a row of this agency?            *)
Visible(ctx, model, action, agency) ==
    Enforced(ctx) /\ model \in TenantModels /\ action \in ScopedActions
        => agency = ctx.agency
=============================================================================
