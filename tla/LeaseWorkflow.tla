---------------------------- MODULE LeaseWorkflow ---------------------------
(***************************************************************************)
(* LeaseService (modules/lease/lease.service.ts) and the lease side of     *)
(* ReviewService (modules/review/review.service.ts) inside one agency.     *)
(*                                                                         *)
(* Every endpoint first looks the lease up and decides, then writes by id  *)
(* in a second database call: Activate ... Patch and the two reviews are   *)
(* the first halves, Update and Persist the second.  A refused request     *)
(* changes nothing and is left out.  Rows are never deleted.               *)
(***************************************************************************)
EXTENDS Naturals, FiniteSets

CONSTANTS
    Handler,      \* requests in flight together
    Lease,        \* leases there may ever be
    Tenant,
    None,
    PatchStatus,  \* the statuses PATCH /leases/:id is asked to write
    Window,       \* REVIEW_WINDOW_DAYS, in time units
    MaxTime,      \* bound on the clock and on end dates
    Faults        \* may a handler be cut off between its two calls?

LeaseStatus == {"ACTIVE", "ARCHIVED", "DRAFT", "EXPIRED", "TERMINATED"}
Role == {"AGENCY", "TENANT"}
Ended == {"EXPIRED", "TERMINATED"}

(* lease.service.ts:94.                                                    *)
Workflow == {<<"DRAFT", "ACTIVE">>, <<"ACTIVE", "EXPIRED">>,
             <<"ACTIVE", "TERMINATED">>, <<"DRAFT", "TERMINATED">>}

(* Who a review is by: a tenant, or the agency.                            *)
Author == Tenant \cup {"agency"}

(* A PATCH whose tenantId is null passes @IsOptional and clears the field.  *)
Nobody == "nobody"

ASSUME NobodyAssumption == Nobody \notin Tenant \cup {None}
ASSUME NoneAssumption == None \notin LeaseStatus \cup Author \cup Lease \cup Nat
ASSUME PatchAssumption == PatchStatus \subseteq LeaseStatus
ASSUME TimeAssumption == Window \in Nat /\ MaxTime \in Nat /\ Faults \in BOOLEAN

Date == 0 .. MaxTime

VARIABLES
    status,     \* leases.status; None while there is no such row
    endDate,    \* leases.endDate
    tenantOf,   \* leases.tenantId
    reviews,    \* lease_reviews: who wrote which role's review
    now,
    pc, req,    \* the handlers: second half to run, and what it writes
    visited,    \* history: the statuses each lease has had
    tenants,    \* history: the tenants each lease has had
    overtaken   \* history: handlers whose lease changed since they looked

leases == <<status, endDate, tenantOf>>
history == <<visited, tenants>>
vars == <<status, endDate, tenantOf, reviews, now, pc, req, visited, tenants, overtaken>>

(* to, end, tenant: what is to be written, None for a field left alone.    *)
Request == [kind : {"none", "move", "archive", "patch", "review"},
            lease : Lease \cup {None}, to : LeaseStatus \cup {None},
            end : Date \cup {None},
            tenant : Tenant \cup {None, Nobody}, role : Role \cup {None}]

NoRequest == [kind |-> "none", lease |-> None, to |-> None, end |-> None,
              tenant |-> None, role |-> None]

Exists(l) == status[l] # None

Init ==
    /\ status = [l \in Lease |-> None]
    /\ endDate = [l \in Lease |-> 0]
    /\ tenantOf = [l \in Lease |-> None]
    /\ reviews = [l \in Lease |-> [role \in Role |-> None]]
    /\ now = 0
    /\ pc = [h \in Handler |-> "idle"]
    /\ req = [h \in Handler |-> NoRequest]
    /\ visited = [l \in Lease |-> {}]
    /\ tenants = [l \in Lease |-> {}]
    /\ overtaken = {}

-----------------------------------------------------------------------------
(* LeaseService                                                            *)

Begin(h, label, r) ==
    /\ pc[h] = "idle"
    /\ pc' = [pc EXCEPT ![h] = label]
    /\ req' = [req EXCEPT ![h] = r]
    /\ UNCHANGED <<leases, reviews, now, history, overtaken>>

Finish(h) == /\ pc' = [pc EXCEPT ![h] = "idle"]
             /\ req' = [req EXCEPT ![h] = NoRequest]

(* The requests, h's own apart, that looked l up and have yet to write.    *)
Overtake(h, l) ==
    overtaken' = (overtaken \cup {g \in Handler : req[g].lease = l}) \ {h}

(* create: the unit is looked up first, and units are never deleted.  A    *)
(* new lease is ACTIVE (schema default) and has no tenant.                 *)
Create(l) ==
    /\ ~Exists(l)
    /\ status' = [status EXCEPT ![l] = "ACTIVE"]
    /\ \E d \in Date : endDate' = [endDate EXCEPT ![l] = d]
    /\ visited' = [visited EXCEPT ![l] = {"ACTIVE"}]
    /\ UNCHANGED <<tenantOf, reviews, now, pc, req, tenants, overtaken>>

Moving(l, to) == [NoRequest EXCEPT !.kind = "move", !.lease = l, !.to = to]

Activate(h, l) == status[l] = "DRAFT" /\ Begin(h, "update", Moving(l, "ACTIVE"))

Expire(h, l) == status[l] = "ACTIVE" /\ Begin(h, "update", Moving(l, "EXPIRED"))

TerminateAnything(h, l) ==  \* mutant: no status check
    Exists(l) /\ Begin(h, "update", Moving(l, "TERMINATED"))

Terminate(h, l) ==
    status[l] \in {"ACTIVE", "DRAFT"} /\ Begin(h, "update", Moving(l, "TERMINATED"))

Archive(h, l) ==
    /\ Exists(l)
    /\ Begin(h, "update", [NoRequest EXCEPT !.kind = "archive", !.lease = l,
                                            !.to = "ARCHIVED"])

(* PATCH /leases/:id: any of the fields, the status among them.            *)
Patch(h, l) ==
    /\ Exists(l)
    /\ \E to \in PatchStatus \cup {None}, end \in Date \cup {None},
          t \in Tenant \cup {None, Nobody} :
          Begin(h, "update", [NoRequest EXCEPT !.kind = "patch", !.lease = l,
                                  !.to = to, !.end = end, !.tenant = t])

WrittenBlindly(old, new) == new  \* mutant: a field left out is cleared

Written(old, new) == IF new = None THEN old ELSE new
Noted(old, new) == IF new = None THEN old ELSE old \cup {new}

Assigned(old, new) == IF new = Nobody THEN None ELSE Written(old, new)
NotedTenant(old, new) == old \cup ({new} \cap Tenant)

(* lease.update where id: whatever the lease has become since.             *)
Update(h) ==
    /\ pc[h] = "update"
    /\ LET r == req[h]
       IN  /\ status' = [status EXCEPT ![r.lease] = Written(@, r.to)]
           /\ endDate' = [endDate EXCEPT ![r.lease] = Written(@, r.end)]
           /\ tenantOf' = [tenantOf EXCEPT ![r.lease] = Assigned(@, r.tenant)]
           /\ visited' = [visited EXCEPT ![r.lease] = Noted(@, r.to)]
           /\ tenants' = [tenants EXCEPT ![r.lease] = NotedTenant(@, r.tenant)]
           /\ Overtake(h, r.lease)
    /\ Finish(h)
    /\ UNCHANGED <<reviews, now>>

-----------------------------------------------------------------------------
(* ReviewService                                                           *)

ReviewWindowOpenForAny(l) ==  \* mutant: forgets the status
    now <= endDate[l] + Window

ReviewWindowOpen(l) == status[l] \in Ended /\ now <= endDate[l] + Window

Reviewing(l, role, t) ==
    [NoRequest EXCEPT !.kind = "review", !.lease = l, !.role = role, !.tenant = t]

CreateAgencyReview(h, l) ==
    ReviewWindowOpen(l) /\ Begin(h, "persist", Reviewing(l, "AGENCY", None))

CreateAnyTenantReview(h, l, t) ==  \* mutant: the tenant is not looked at
    ReviewWindowOpen(l) /\ Begin(h, "persist", Reviewing(l, "TENANT", t))

CreateTenantReview(h, l, t) ==
    /\ tenantOf[l] = t
    /\ ReviewWindowOpen(l)
    /\ Begin(h, "persist", Reviewing(l, "TENANT", t))

(* The unique index on lease and role turns a second review away (P2002).  *)
Persist(h) ==
    /\ pc[h] = "persist"
    /\ LET r == req[h]
           author == IF r.role = "TENANT" THEN r.tenant ELSE "agency"
       IN  reviews' = [reviews EXCEPT ![r.lease][r.role] =
                          IF @ = None THEN author ELSE @]
    /\ overtaken' = overtaken \ {h}
    /\ Finish(h)
    /\ UNCHANGED <<leases, now, history>>

-----------------------------------------------------------------------------
Abort(h) ==
    /\ Faults
    /\ pc[h] # "idle"
    /\ Finish(h)
    /\ overtaken' = overtaken \ {h}
    /\ UNCHANGED <<leases, reviews, now, history>>

Tick ==
    /\ now < MaxTime
    /\ now' = now + 1
    /\ UNCHANGED <<leases, reviews, pc, req, history, overtaken>>

Next ==
    \/ \E l \in Lease : Create(l)
    \/ \E h \in Handler :
          \/ Update(h) \/ Persist(h) \/ Abort(h)
          \/ \E l \in Lease :
                \/ Activate(h, l) \/ Expire(h, l) \/ Terminate(h, l)
                \/ Archive(h, l) \/ Patch(h, l) \/ CreateAgencyReview(h, l)
                \/ \E t \in Tenant : CreateTenantReview(h, l, t)
    \/ Tick

Spec == Init /\ [][Next]_vars

-----------------------------------------------------------------------------
(* Properties                                                              *)

TypeOK ==
    /\ status \in [Lease -> LeaseStatus \cup {None}]
    /\ endDate \in [Lease -> Date]
    /\ tenantOf \in [Lease -> Tenant \cup {None}]
    /\ reviews \in [Lease -> [Role -> Author \cup {None}]]
    /\ now \in Nat
    /\ pc \in [Handler -> {"idle", "update", "persist"}]
    /\ req \in [Handler -> Request]
    /\ visited \in [Lease -> SUBSET LeaseStatus]
    /\ tenants \in [Lease -> SUBSET Tenant]
    /\ overtaken \subseteq Handler

(* However requests overlap, a status written by activate, expire or       *)
(* terminate follows from one the lease has had, and a review is of a      *)
(* lease that was ended before (lease.service.ts:78-126,                   *)
(* review.service.ts:47-96).                                               *)
Reviewed == [l \in Lease |-> {role \in Role : reviews[l][role] # None}]
Lifecycle == INSTANCE LeaseLifecycle WITH reviewed <- Reviewed
LifecycleSpec == Lifecycle!Spec

(* A move no other write overtook goes along the workflow: the check made  *)
(* on the row that was looked up is still true of the row that is written  *)
(* (lease.service.ts:95-126).                                              *)
Moves(h) == pc[h] = "update" /\ pc'[h] = "idle" /\ req[h].kind = "move"
MovesFollowWorkflow ==
    [][\A h \in Handler :
          LET l == req[h].lease
          IN  Moves(h) /\ h \notin overtaken /\ status'[l] # status[l]
                  => <<status[l], status'[l]>> \in Workflow]_vars

(* The tenant whose review a lease carries was that lease's tenant when it *)
(* was looked up, also if a PATCH has given the lease to someone else      *)
(* before the review is stored (review.service.ts:55-66).                  *)
TenantReviewsOwnLease ==
    \A l \in Lease : reviews[l]["TENANT"] \in tenants[l] \cup {None}

(* lease.service.ts:94, "Workflow: DRAFT -> ACTIVE -> EXPIRED ;            *)
(* ACTIVE|DRAFT -> TERMINATED", of the leases nobody archives.             *)
WorkflowFollowed ==
    [][\A l \in Lease :
          /\ status[l] \notin {None, "ARCHIVED"}
          /\ status'[l] \notin {status[l], "ARCHIVED"}
          => <<status[l], status'[l]>> \in Workflow]_vars
=============================================================================
