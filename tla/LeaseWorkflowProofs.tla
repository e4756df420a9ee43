------------------------ MODULE LeaseWorkflowProofs -------------------------
(***************************************************************************)
(* Proofs about LeaseWorkflow, for every set of handlers, leases, tenants  *)
(* and patchable statuses.                                                 *)
(***************************************************************************)
EXTENDS LeaseWorkflow, TLAPS

(* What was true of the lease when a request looked it up and still is:    *)
(* statuses and tenants the lease has had are never forgotten.             *)
Grounded(label, r) ==
    /\ r.lease \in Lease /\ visited[r.lease] # {}
    /\ label = "update" =>
          \/ r.kind = "move" /\ \E from \in visited[r.lease] : <<from, r.to>> \in Workflow
          \/ r.kind = "archive" /\ r.to = "ARCHIVED"
          \/ r.kind = "patch" /\ r.to \in PatchStatus \cup {None}
    /\ label = "persist" =>
          /\ r.role \in Role
          /\ visited[r.lease] \cap Ended # {}
          /\ r.role = "TENANT" => r.tenant \in tenants[r.lease]

(* What is true only until another request writes the lease.               *)
Fresh(r) == r.kind = "move" => <<status[r.lease], r.to>> \in Workflow

Label == {"update", "persist"}

Remembered ==
    \A l \in Lease : /\ status[l] = None => visited[l] = {}
                     /\ status[l] # None => status[l] \in visited[l]
                     /\ tenantOf[l] # None => tenantOf[l] \in tenants[l]

SafeInv ==
    /\ TypeOK
    /\ \A h \in Handler : pc[h] = "idle" => req[h] = NoRequest
    /\ \A h \in Handler : pc[h] \in Label => Grounded(pc[h], req[h])
    /\ \A h \in Handler : pc[h] = "update" /\ h \notin overtaken => Fresh(req[h])
    /\ Remembered
    /\ TenantReviewsOwnLease

-----------------------------------------------------------------------------
LEMMA NoRequestType == NoRequest \in Request
  BY DEF NoRequest, Request

LEMMA InitSafe == Init => SafeInv
  BY NoRequestType, TimeAssumption
  DEF Init, SafeInv, TypeOK, Remembered, TenantReviewsOwnLease, Role, Label, Date

(* The first halves differ only in what they look at and what they ask.    *)
Begins == \E h \in Handler, label \in Label, r \in Request :
             /\ Begin(h, label, r)
             /\ Grounded(label, r)
             /\ Fresh(r)

LEMMA MoveBegins ==
    ASSUME SafeInv, NEW h \in Handler, NEW l \in Lease, NEW to \in LeaseStatus,
           Begin(h, "update", Moving(l, to)), <<status[l], to>> \in Workflow
    PROVE  Begins
  <1> DEFINE r == Moving(l, to)
  <1>1. r \in Request /\ r.kind = "move" /\ r.lease = l /\ r.to = to
    BY DEF Moving, NoRequest, Request
  <1>2. status[l] # None
    BY NoneAssumption DEF Workflow, LeaseStatus
  <1>3. status[l] \in visited[l]
    BY <1>2 DEF SafeInv, Remembered
  <1>4. Grounded("update", r) /\ Fresh(r)
    BY <1>1, <1>3 DEF Grounded, Fresh
  <1> QED
    BY <1>1, <1>4 DEF Begins, Label

LEMMA ReviewBegins ==
    ASSUME SafeInv, NEW h \in Handler, NEW l \in Lease, NEW role \in Role,
           NEW t \in Tenant \cup {None}, role = "TENANT" => t \in tenants[l],
           ReviewWindowOpen(l), Begin(h, "persist", Reviewing(l, role, t))
    PROVE  Begins
  <1> DEFINE r == Reviewing(l, role, t)
  <1>1. /\ r \in Request /\ r.kind = "review" /\ r.lease = l
        /\ r.role = role /\ r.tenant = t
    BY DEF Reviewing, NoRequest, Request
  <1>2. status[l] \in Ended /\ status[l] # None
    BY NoneAssumption DEF ReviewWindowOpen, Ended, LeaseStatus
  <1>3. status[l] \in visited[l]
    BY <1>2 DEF SafeInv, Remembered
  <1>4. Grounded("persist", r) /\ Fresh(r)
    BY <1>1, <1>2, <1>3 DEF Grounded, Fresh
  <1> QED
    BY <1>1, <1>4 DEF Begins, Label

LEMMA StepKinds ==
    ASSUME SafeInv, [Next]_vars
    PROVE  \/ Begins
           \/ \E l \in Lease : Create(l)
           \/ \E h \in Handler : Update(h) \/ Persist(h) \/ Abort(h)
           \/ UNCHANGED <<leases, reviews, pc, req, history, overtaken>> /\ now' \in Nat
  <1> DEFINE Goal == \/ Begins
                     \/ \E l \in Lease : Create(l)
                     \/ \E h \in Handler : Update(h) \/ Persist(h) \/ Abort(h)
                     \/ /\ UNCHANGED <<leases, reviews, pc, req, history, overtaken>>
                        /\ now' \in Nat
  <1>0. TypeOK /\ Remembered
    BY DEF SafeInv
  <1>1. ASSUME NEW h \in Handler, NEW l \in Lease, Activate(h, l) PROVE Begins
    BY <1>1, MoveBegins DEF Activate, Workflow, LeaseStatus
  <1>2. ASSUME NEW h \in Handler, NEW l \in Lease, Expire(h, l) PROVE Begins
    BY <1>2, MoveBegins DEF Expire, Workflow, LeaseStatus
  <1>3. ASSUME NEW h \in Handler, NEW l \in Lease, Terminate(h, l) PROVE Begins
    BY <1>3, MoveBegins DEF Terminate, Workflow, LeaseStatus
  <1>4. ASSUME NEW h \in Handler, NEW l \in Lease, Archive(h, l) PROVE Begins
    <2> DEFINE r == [NoRequest EXCEPT !.kind = "archive", !.lease = l, !.to = "ARCHIVED"]
    <2>1. /\ r \in Request /\ r.kind = "archive" /\ r.lease = l /\ r.to = "ARCHIVED"
      BY DEF NoRequest, Request, LeaseStatus
    <2>2. Grounded("update", r) /\ Fresh(r)
      BY <1>0, <1>4, <2>1 DEF Archive, Exists, Grounded, Fresh, Remembered
    <2> QED
      BY <1>4, <2>1, <2>2 DEF Archive, Begins, Label
  <1>5. ASSUME NEW h \in Handler, NEW l \in Lease, Patch(h, l) PROVE Begins
    <2>1. PICK to \in PatchStatus \cup {None}, end \in Date \cup {None},
               t \in Tenant \cup {None, Nobody} :
             Begin(h, "update", [NoRequest EXCEPT !.kind = "patch", !.lease = l,
                                     !.to = to, !.end = end, !.tenant = t])
      BY <1>5 DEF Patch
    <2> DEFINE r == [NoRequest EXCEPT !.kind = "patch", !.lease = l,
                                      !.to = to, !.end = end, !.tenant = t]
    <2>2. r \in Request /\ r.kind = "patch" /\ r.lease = l /\ r.to = to
      BY PatchAssumption DEF NoRequest, Request
    <2>3. Grounded("update", r) /\ Fresh(r)
      BY <1>0, <1>5, <2>2 DEF Patch, Exists, Grounded, Fresh, Remembered
    <2> QED
      BY <2>1, <2>2, <2>3 DEF Begins, Label
  <1>6. ASSUME NEW h \in Handler, NEW l \in Lease, CreateAgencyReview(h, l) PROVE Begins
    BY <1>6, ReviewBegins DEF CreateAgencyReview, Role
  <1>7. ASSUME NEW h \in Handler, NEW l \in Lease, NEW t \in Tenant,
               CreateTenantReview(h, l, t)
        PROVE  Begins
    <2>1. t \in tenants[l]
      BY <1>0, <1>7, NoneAssumption DEF CreateTenantReview, Remembered, Author
    <2> QED
      BY <1>7, <2>1, ReviewBegins DEF CreateTenantReview, Role
  <1>8. CASE Tick
    BY <1>0, <1>8 DEF Tick, TypeOK
  <1>9. CASE UNCHANGED vars
    BY <1>0, <1>9 DEF vars, leases, history, TypeOK
  <1> QED
    BY <1>1, <1>2, <1>3, <1>4, <1>5, <1>6, <1>7, <1>8, <1>9 DEF Next

-----------------------------------------------------------------------------
(* Nothing a lease has had is forgotten, so Grounded is kept by every step *)
(* that does not touch the request itself.                                 *)
LEMMA GroundedStays ==
    ASSUME NEW label, NEW r, Grounded(label, r),
           \A l \in Lease : visited[l] \subseteq visited'[l] /\ tenants[l] \subseteq tenants'[l]
    PROVE  Grounded(label, r)'
  BY DEF Grounded

(* Whatever Update writes has its type.                                    *)
LEMMA UpdateType ==
    ASSUME SafeInv, NEW h \in Handler, Update(h)
    PROVE  /\ req[h].lease \in Lease
           /\ status' \in [Lease -> LeaseStatus \cup {None}]
           /\ endDate' \in [Lease -> Date]
           /\ tenantOf' \in [Lease -> Tenant \cup {None}]
           /\ visited' \in [Lease -> SUBSET LeaseStatus]
           /\ tenants' \in [Lease -> SUBSET Tenant]
  <1> DEFINE r == req[h]
  <1>1. r \in Request /\ r.lease \in Lease
    BY DEF SafeInv, TypeOK, Update, Grounded, Label
  <1>2. /\ r.to \in LeaseStatus \cup {None} /\ r.end \in Date \cup {None}
        /\ r.tenant \in Tenant \cup {None, Nobody}
    BY <1>1 DEF Request
  <1>3. /\ Written(status[r.lease], r.to) \in LeaseStatus \cup {None}
        /\ Written(endDate[r.lease], r.end) \in Date
        /\ Assigned(tenantOf[r.lease], r.tenant) \in Tenant \cup {None}
        /\ Noted(visited[r.lease], r.to) \in SUBSET LeaseStatus
        /\ NotedTenant(tenants[r.lease], r.tenant) \in SUBSET Tenant
    BY <1>1, <1>2 DEF SafeInv, TypeOK, Written, Noted, Assigned, NotedTenant
  <1> QED
    BY <1>1, <1>3 DEF SafeInv, TypeOK, Update

LEMMA BeginSafe ==
    ASSUME SafeInv, NEW h \in Handler, NEW label \in Label, NEW r \in Request,
           Begin(h, label, r), Grounded(label, r), Fresh(r)
    PROVE  SafeInv'
  <1> USE DEF SafeInv
  <1>1. TypeOK'
    BY DEF TypeOK, Begin, Label, leases, history
  <1>2. /\ pc'[h] = label /\ req'[h] = r
        /\ \A g \in Handler \ {h} : pc'[g] = pc[g] /\ req'[g] = req[g]
    BY DEF Begin, TypeOK
  <1>3. UNCHANGED <<status, endDate, tenantOf, visited, tenants, overtaken, reviews>>
    BY DEF Begin, leases, history
  <1>4. \A g \in Handler : pc'[g] = "idle" => req'[g] = NoRequest
    BY <1>2 DEF Label
  <1>5. \A g \in Handler : pc'[g] \in Label => Grounded(pc[g], req[g])'
    BY <1>2, <1>3 DEF Grounded
  <1>6. \A g \in Handler : pc'[g] = "update" /\ g \notin overtaken' => Fresh(req[g])'
    BY <1>2, <1>3 DEF Fresh
  <1>7. Remembered' /\ TenantReviewsOwnLease'
    BY <1>3 DEF Remembered, TenantReviewsOwnLease
  <1> QED
    BY <1>1, <1>4, <1>5, <1>6, <1>7

LEMMA CreateSafe ==
    ASSUME SafeInv, NEW l \in Lease, Create(l) PROVE SafeInv'
  <1> USE DEF SafeInv
  <1>1. TypeOK'
    <2>1. PICK d \in Date : endDate' = [endDate EXCEPT ![l] = d]
      BY DEF Create
    <2> QED
      BY <2>1 DEF TypeOK, Create, LeaseStatus
  <1>2. visited[l] = {} /\ status[l] = None
    BY DEF Create, Exists, Remembered
  <1>3. /\ status' = [status EXCEPT ![l] = "ACTIVE"]
        /\ visited' = [visited EXCEPT ![l] = {"ACTIVE"}]
        /\ UNCHANGED <<tenantOf, reviews, pc, req, tenants, overtaken>>
    BY DEF Create
  <1>4. \A k \in Lease : visited[k] \subseteq visited'[k] /\ tenants[k] \subseteq tenants'[k]
    BY <1>2, <1>3 DEF TypeOK
  <1>5. \A g \in Handler : pc[g] \in Label => Grounded(pc[g], req[g])'
    BY <1>3, <1>4, GroundedStays
  <1>6. \A g \in Handler : pc[g] = "update" => req[g].lease # l
    BY <1>2 DEF Grounded, Label
  <1>7. \A g \in Handler : pc[g] = "update" /\ g \notin overtaken => Fresh(req[g])'
    BY <1>3, <1>6 DEF Fresh, TypeOK, Grounded, Label
  <1>8. Remembered'
    BY <1>3, NoneAssumption DEF Remembered, TypeOK, LeaseStatus
  <1>9. TenantReviewsOwnLease'
    BY <1>3 DEF TenantReviewsOwnLease
  <1> QED
    BY <1>1, <1>3, <1>5, <1>7, <1>8, <1>9

LEMMA UpdateSafe ==
    ASSUME SafeInv, NEW h \in Handler, Update(h) PROVE SafeInv'
  <1> USE DEF SafeInv
  <1> DEFINE l == req[h].lease
  <1>1. TypeOK'
    BY UpdateType, NoRequestType DEF TypeOK, Update, Finish, Overtake
  <1>2. l \in Lease /\ req[h] \in Request
    BY UpdateType DEF TypeOK
  <1>3. /\ pc'[h] = "idle" /\ req'[h] = NoRequest
        /\ \A g \in Handler \ {h} : pc'[g] = pc[g] /\ req'[g] = req[g]
    BY DEF Update, Finish, TypeOK
  <1>4. \A k \in Lease : visited[k] \subseteq visited'[k] /\ tenants[k] \subseteq tenants'[k]
    BY <1>2 DEF Update, Noted, NotedTenant, TypeOK
  <1>5. \A g \in Handler : pc'[g] \in Label => Grounded(pc[g], req[g])'
    BY <1>3, <1>4, GroundedStays DEF Label
  <1>6. \A g \in Handler : pc'[g] = "update" /\ g \notin overtaken' => Fresh(req[g])'
    <2> SUFFICES ASSUME NEW g \in Handler, pc'[g] = "update", g \notin overtaken'
                 PROVE  Fresh(req[g])'
      OBVIOUS
    <2>1. g # h
      BY <1>3
    <2>2. g \notin overtaken /\ req[g].lease # l
      BY <2>1 DEF Update, Overtake
    <2>3. req[g].lease \in Lease /\ Fresh(req[g])
      BY <1>3, <2>1, <2>2 DEF Grounded, Label
    <2>4. status'[req[g].lease] = status[req[g].lease]
      BY <1>2, <2>2, <2>3 DEF Update, TypeOK
    <2> QED
      BY <1>3, <2>1, <2>3, <2>4 DEF Fresh
  <1>7. Remembered'
    <2>1. ASSUME NEW k \in Lease, k # l
          PROVE  /\ status'[k] = status[k] /\ visited'[k] = visited[k]
                 /\ tenantOf'[k] = tenantOf[k] /\ tenants'[k] = tenants[k]
      BY <2>1 DEF Update, TypeOK
    <2>2. /\ status'[l] = Written(status[l], req[h].to)
          /\ visited'[l] = Noted(visited[l], req[h].to)
          /\ tenantOf'[l] = Assigned(tenantOf[l], req[h].tenant)
          /\ tenants'[l] = NotedTenant(tenants[l], req[h].tenant)
      BY <1>2 DEF Update, TypeOK
    <2>3. /\ status'[l] = None => visited'[l] = {}
          /\ status'[l] # None => status'[l] \in visited'[l]
          /\ tenantOf'[l] # None => tenantOf'[l] \in tenants'[l]
      BY <1>2, <2>2 DEF Written, Noted, Assigned, NotedTenant, Remembered, Request
    <2> QED
      BY <2>1, <2>3 DEF Remembered
  <1>8. TenantReviewsOwnLease'
    BY <1>4 DEF TenantReviewsOwnLease, Update
  <1>9. \A g \in Handler : pc'[g] = "idle" => req'[g] = NoRequest
    BY <1>3
  <1> QED
    BY <1>1, <1>3, <1>5, <1>6, <1>7, <1>8, <1>9 DEF Label

LEMMA PersistSafe ==
    ASSUME SafeInv, NEW h \in Handler, Persist(h) PROVE SafeInv'
  <1> USE DEF SafeInv
  <1> DEFINE r == req[h]
             author == IF r.role = "TENANT" THEN r.tenant ELSE "agency"
  <1>1. /\ r \in Request /\ r.lease \in Lease /\ r.role \in Role
        /\ r.role = "TENANT" => r.tenant \in tenants[r.lease]
    BY DEF Persist, Grounded, Label, TypeOK
  <1>2. author \in Author
    BY <1>1 DEF TypeOK, Author
  <1>3. reviews' = [reviews EXCEPT ![r.lease][r.role] = IF @ = None THEN author ELSE @]
    BY DEF Persist
  <1>4. reviews' \in [Lease -> [Role -> Author \cup {None}]]
    BY <1>1, <1>2, <1>3 DEF TypeOK
  <1>5. UNCHANGED <<status, endDate, tenantOf, now, visited, tenants>>
        /\ overtaken' = overtaken \ {h}
    BY DEF Persist, leases, history
  <1>6. /\ pc'[h] = "idle" /\ req'[h] = NoRequest
        /\ \A g \in Handler \ {h} : pc'[g] = pc[g] /\ req'[g] = req[g]
    BY DEF Persist, Finish, TypeOK
  <1>7. TypeOK'
    BY <1>4, <1>5, NoRequestType DEF TypeOK, Persist, Finish
  <1>8. TenantReviewsOwnLease'
    <2> SUFFICES ASSUME NEW l \in Lease
                 PROVE  reviews'[l]["TENANT"] \in tenants[l] \cup {None}
      BY <1>5 DEF TenantReviewsOwnLease
    <2>1. \/ reviews'[l]["TENANT"] = reviews[l]["TENANT"]
          \/ l = r.lease /\ r.role = "TENANT" /\ reviews'[l]["TENANT"] = author
      BY <1>1, <1>3 DEF TypeOK, Role
    <2> QED
      BY <1>1, <2>1 DEF TenantReviewsOwnLease
  <1>9. Remembered'
    BY <1>5 DEF Remembered
  <1>10. \A g \in Handler : pc'[g] \in Label => Grounded(pc[g], req[g])'
    BY <1>5, <1>6 DEF Grounded, Label
  <1>11. \A g \in Handler : pc'[g] = "update" /\ g \notin overtaken' => Fresh(req[g])'
    BY <1>5, <1>6 DEF Fresh
  <1> QED
    BY <1>6, <1>7, <1>8, <1>9, <1>10, <1>11

LEMMA AbortSafe ==
    ASSUME SafeInv, NEW h \in Handler, Abort(h) PROVE SafeInv'
  <1> USE DEF SafeInv
  <1>1. UNCHANGED <<status, endDate, tenantOf, reviews, now, visited, tenants>>
        /\ overtaken' = overtaken \ {h}
    BY DEF Abort, leases, history
  <1>2. /\ pc'[h] = "idle" /\ req'[h] = NoRequest
        /\ \A g \in Handler \ {h} : pc'[g] = pc[g] /\ req'[g] = req[g]
    BY DEF Abort, Finish, TypeOK
  <1>3. TypeOK'
    BY <1>1, NoRequestType DEF TypeOK, Abort, Finish
  <1>4. \A g \in Handler : pc'[g] \in Label => Grounded(pc[g], req[g])'
    BY <1>1, <1>2 DEF Grounded, Label
  <1>5. \A g \in Handler : pc'[g] = "update" /\ g \notin overtaken' => Fresh(req[g])'
    BY <1>1, <1>2 DEF Fresh
  <1>6. Remembered' /\ TenantReviewsOwnLease'
    BY <1>1 DEF Remembered, TenantReviewsOwnLease
  <1> QED
    BY <1>2, <1>3, <1>4, <1>5, <1>6

LEMMA NextSafe == SafeInv /\ [Next]_vars => SafeInv'
  <1> SUFFICES ASSUME SafeInv, [Next]_vars PROVE SafeInv'
    OBVIOUS
  <1>1. CASE Begins
    BY <1>1, BeginSafe DEF Begins
  <1>2. CASE UNCHANGED <<leases, reviews, pc, req, history, overtaken>> /\ now' \in Nat
    <2>1. UNCHANGED <<status, endDate, tenantOf, reviews, pc, req, visited, tenants, overtaken>>
      BY <1>2 DEF leases, history
    <2> QED
      BY <1>2, <2>1 DEF SafeInv, TypeOK, Grounded, Fresh, Remembered, TenantReviewsOwnLease
  <1> QED
    BY <1>1, <1>2, StepKinds, CreateSafe, UpdateSafe, PersistSafe, AbortSafe

LEMMA Safe == Spec => []SafeInv
  BY InitSafe, NextSafe, PTL DEF Spec

(* Every variable keeps its type, for any number of requests.              *)
THEOREM TypeCorrect == Spec => []TypeOK
  BY Safe, PTL DEF SafeInv

(* A stored tenant review is by someone who was that lease's tenant        *)
(* (review.service.ts:55-66), however many PATCHes come in between.        *)
THEOREM ReviewersHeldTheLease == Spec => []TenantReviewsOwnLease
  BY Safe, PTL DEF SafeInv

(* A move nobody overtook writes a status the workflow allows after the    *)
(* one it replaces (lease.service.ts:95-126).                              *)
THEOREM UnovertakenMovesAreLegal == Spec => MovesFollowWorkflow
  <1> DEFINE Legal ==
          \A h \in Handler :
             LET l == req[h].lease
             IN  Moves(h) /\ h \notin overtaken /\ status'[l] # status[l]
                     => <<status[l], status'[l]>> \in Workflow
  <1>1. ASSUME SafeInv, [Next]_vars PROVE [Legal]_vars
    <2> SUFFICES ASSUME NEW h \in Handler, Moves(h), h \notin overtaken,
                        status'[req[h].lease] # status[req[h].lease]
                 PROVE  <<status[req[h].lease], status'[req[h].lease]>> \in Workflow
      OBVIOUS
    <2> DEFINE l == req[h].lease
    <2>1. l \in Lease /\ <<status[l], req[h].to>> \in Workflow
      BY <1>1 DEF Moves, SafeInv, Grounded, Label, Fresh
    <2>2. status[l] # None /\ req[h].to # None
      BY <2>1, NoneAssumption DEF Workflow, LeaseStatus
    <2>3. ASSUME NEW g \in Handler, Update(g) PROVE g = h
      BY <1>1, <2>3 DEF Update, Finish, Moves, SafeInv, TypeOK
    <2>4. status' # status
      OBVIOUS
    <2>5. \E g \in Handler : Update(g)
      <3>1. ASSUME Begins PROVE status' = status
        BY <3>1 DEF Begins, Begin, leases
      <3>2. ASSUME NEW k \in Lease, Create(k) PROVE pc' = pc
        BY <3>2 DEF Create
      <3>3. ASSUME NEW g \in Handler, Persist(g) \/ Abort(g) PROVE status' = status
        BY <3>3 DEF Persist, Abort, leases
      <3> QED
        BY <1>1, <2>4, <3>1, <3>2, <3>3, StepKinds DEF Moves, leases
    <2>6. Update(h)
      BY <2>3, <2>5
    <2>7. status'[l] = req[h].to
      BY <1>1, <2>1, <2>2, <2>6 DEF Update, Written, SafeInv, TypeOK
    <2> QED
      BY <2>1, <2>7
  <1>2. SafeInv /\ [Next]_vars => [Legal]_vars
    BY <1>1
  <1> HIDE DEF Legal
  <1>3. Spec => [][Legal]_vars
    BY <1>2, Safe, PTL DEF Spec
  <1> QED
    BY <1>3 DEF Legal, MovesFollowWorkflow

-----------------------------------------------------------------------------
(* The endpoints implement the lifecycle.                                  *)

LEMMA InitLifecycle == Init => Lifecycle!Init
  BY DEF Init, Lifecycle!Init, Reviewed, Role

LEMMA UpdateLifecycle ==
    ASSUME SafeInv, NEW h \in Handler, Update(h)
    PROVE  [Lifecycle!Next]_(Lifecycle!lifecycle)
  <1> USE DEF SafeInv
  <1> DEFINE r == req[h]
             l == r.lease
  <1>1. /\ l \in Lease /\ Grounded("update", r)
        /\ r.to \in LeaseStatus \cup {None}
    BY DEF Update, Grounded, Label, TypeOK, Request
  <1>2. Reviewed' = Reviewed
    BY DEF Update, Reviewed
  <1>3. CASE r.to = None
    <2>1. status' = status /\ visited' = visited
      BY <1>1, <1>3 DEF Update, Written, Noted, TypeOK
    <2> QED
      BY <1>2, <2>1 DEF Lifecycle!lifecycle
  <1>4. CASE r.to # None
    <2>1. Lifecycle!Become(l, r.to)
      BY <1>1, <1>2, <1>4 DEF Update, Written, Noted, Lifecycle!Become
    <2>2. visited[l] # {}
      BY <1>1 DEF Grounded
    <2>3. CASE \E from \in visited[l] : <<from, r.to>> \in Workflow
      <3>1. PICK from \in visited[l] : <<from, r.to>> \in Workflow
        BY <2>3
      <3>2. r.to \in {move[2] : move \in Workflow}
        BY <3>1
      <3>3. Lifecycle!Move(l)
        BY <2>1, <3>1, <3>2 DEF Lifecycle!Move
      <3> QED
        BY <1>1, <3>3 DEF Lifecycle!Next
    <2>4. CASE r.to = "ARCHIVED"
      BY <1>1, <2>1, <2>2, <2>4 DEF Lifecycle!Archive, Lifecycle!Next
    <2>5. CASE r.to \in PatchStatus
      BY <1>1, <2>1, <2>2, <2>5 DEF Lifecycle!Override, Lifecycle!Next
    <2> QED
      BY <1>1, <1>4, <2>3, <2>4, <2>5 DEF Grounded
  <1> QED
    BY <1>3, <1>4

LEMMA PersistLifecycle ==
    ASSUME SafeInv, NEW h \in Handler, Persist(h)
    PROVE  [Lifecycle!Next]_(Lifecycle!lifecycle)
  <1> USE DEF SafeInv
  <1> DEFINE r == req[h]
             l == r.lease
             author == IF r.role = "TENANT" THEN r.tenant ELSE "agency"
  <1>1. /\ r \in Request /\ l \in Lease /\ r.role \in Role
        /\ visited[l] \cap Ended # {}
        /\ r.role = "TENANT" => r.tenant \in tenants[l]
    BY DEF Persist, Grounded, Label, TypeOK
  <1>2. author # None
    BY <1>1, NoneAssumption DEF TypeOK, Author
  <1>3. reviews' = [reviews EXCEPT ![l][r.role] = IF @ = None THEN author ELSE @]
    BY DEF Persist
  <1>4. UNCHANGED <<status, visited>>
    BY DEF Persist, leases, history
  <1>5. CASE reviews[l][r.role] # None
    <2>1. reviews' = reviews
      BY <1>1, <1>3, <1>5 DEF TypeOK
    <2>2. Reviewed' = Reviewed
      BY <2>1 DEF Reviewed
    <2> QED
      BY <1>4, <2>2 DEF Lifecycle!lifecycle
  <1>6. CASE reviews[l][r.role] = None
    <2>1. r.role \notin Reviewed[l]
      BY <1>1, <1>6 DEF Reviewed
    <2>2. ASSUME NEW k \in Lease, NEW role \in Role
          PROVE  reviews'[k][role] # None <=>
                    reviews[k][role] # None \/ (k = l /\ role = r.role)
      BY <1>1, <1>2, <1>3, <1>6 DEF TypeOK
    <2>3. Reviewed' = [Reviewed EXCEPT ![l] = @ \cup {r.role}]
      <3>1. \A k \in Lease : Reviewed'[k] = IF k = l THEN Reviewed[k] \cup {r.role}
                                             ELSE Reviewed[k]
        BY <1>1, <2>2 DEF Reviewed
      <3> QED
        BY <1>1, <3>1 DEF Reviewed
    <2>4. Lifecycle!Review(l, r.role)
      BY <1>1, <1>4, <2>1, <2>3 DEF Lifecycle!Review
    <2> QED
      BY <1>1, <2>4 DEF Lifecycle!Next
  <1> QED
    BY <1>5, <1>6

LEMMA NextLifecycle == SafeInv /\ [Next]_vars => [Lifecycle!Next]_(Lifecycle!lifecycle)
  <1> SUFFICES ASSUME SafeInv, [Next]_vars
               PROVE  [Lifecycle!Next]_(Lifecycle!lifecycle)
    OBVIOUS
  <1>1. ASSUME UNCHANGED <<status, visited, reviews>>
        PROVE  UNCHANGED Lifecycle!lifecycle
    BY <1>1 DEF Lifecycle!lifecycle, Reviewed
  <1>2. CASE Begins
    BY <1>1, <1>2 DEF Begins, Begin, leases, history
  <1>3. ASSUME NEW l \in Lease, Create(l) PROVE Lifecycle!Next
    <2>1. visited[l] = {} /\ Reviewed' = Reviewed
      BY <1>3 DEF SafeInv, Remembered, Create, Exists, Reviewed
    <2>2. Lifecycle!Sign(l)
      BY <1>3, <2>1 DEF Create, Exists, Lifecycle!Sign, Lifecycle!Become, SafeInv, TypeOK
    <2> QED
      BY <2>2 DEF Lifecycle!Next
  <1>4. ASSUME NEW h \in Handler, Abort(h) PROVE UNCHANGED Lifecycle!lifecycle
    BY <1>1, <1>4 DEF Abort, leases, history
  <1>5. CASE UNCHANGED <<leases, reviews, pc, req, history, overtaken>>
    BY <1>1, <1>5 DEF leases, history
  <1> QED
    BY <1>2, <1>3, <1>4, <1>5, StepKinds, UpdateLifecycle, PersistLifecycle

(* For any statuses a PATCH may write and any number of overlapping        *)
(* requests, leases and reviews only ever move as LeaseLifecycle allows    *)
(* (lease.service.ts:78-126, review.service.ts:47-96).                     *)
THEOREM ImplementsLifecycle == Spec => LifecycleSpec
  BY InitLifecycle, NextLifecycle, Safe, PTL DEF Spec, LifecycleSpec, Lifecycle!Spec

-----------------------------------------------------------------------------
(* Served one at a time, no request is ever overtaken.                     *)

NoneOvertaken == overtaken = {}

LEMMA InTurn ==
    ASSUME \A g, h \in Handler : g = h
    PROVE  SafeInv /\ NoneOvertaken /\ [Next]_vars => NoneOvertaken'
  <1> SUFFICES ASSUME SafeInv, overtaken = {}, [Next]_vars PROVE overtaken' = {}
    BY DEF NoneOvertaken
  <1>1. CASE Begins
    BY <1>1 DEF Begins, Begin
  <1>2. ASSUME NEW l \in Lease, Create(l) PROVE overtaken' = {}
    BY <1>2 DEF Create
  <1>3. ASSUME NEW h \in Handler, Update(h) PROVE overtaken' = {}
    <2>1. Overtake(h, req[h].lease)
      BY <1>3 DEF Update
    <2> QED
      BY <2>1 DEF Overtake
  <1>4. ASSUME NEW h \in Handler, Persist(h) \/ Abort(h) PROVE overtaken' = {}
    BY <1>4 DEF Persist, Abort
  <1> QED
    BY <1>1, <1>2, <1>3, <1>4, StepKinds

(* The workflow that the comment at lease.service.ts:94 promises of every  *)
(* lease is kept, archiving apart, when requests are served one at a time  *)
(* and no PATCH writes a status: overlapping requests are all that the run *)
(* lease_race needs to break it.                                           *)
THEOREM WorkflowHoldsInTurn ==
    ASSUME \A g, h \in Handler : g = h, PatchStatus = {}
    PROVE  Spec => WorkflowFollowed
  <1> DEFINE Legal ==
          \A l \in Lease :
             /\ status[l] \notin {None, "ARCHIVED"}
             /\ status'[l] \notin {status[l], "ARCHIVED"}
             => <<status[l], status'[l]>> \in Workflow
  <1>1. ASSUME SafeInv, NoneOvertaken, [Next]_vars PROVE [Legal]_vars
    <2> SUFFICES ASSUME NEW l \in Lease, status[l] \notin {None, "ARCHIVED"},
                        status'[l] \notin {status[l], "ARCHIVED"}
                 PROVE  <<status[l], status'[l]>> \in Workflow
      OBVIOUS
    <2>1. ~Begins
      BY DEF Begins, Begin, leases
    <2>2. ~ \E k \in Lease : Create(k)
      BY <1>1 DEF Create, Exists, SafeInv, TypeOK
    <2>3. ~ \E h \in Handler : Persist(h) \/ Abort(h)
      BY DEF Persist, Abort, leases
    <2>4. PICK h \in Handler : Update(h)
      BY <1>1, <2>1, <2>2, <2>3, StepKinds DEF leases
    <2> DEFINE r == req[h]
    <2>5. /\ pc[h] = "update" /\ h \notin overtaken
          /\ status' = [status EXCEPT ![r.lease] = Written(@, r.to)]
      BY <1>1, <2>4 DEF Update, NoneOvertaken
    <2>6. Grounded("update", r) /\ Fresh(r)
      BY <1>1, <2>5 DEF SafeInv, Label
    <2>7. l = r.lease /\ r.to # None /\ status'[l] = r.to
      BY <1>1, <2>5 DEF SafeInv, TypeOK, Written
    <2>8. r.kind = "move"
      BY <2>6, <2>7 DEF Grounded
    <2> QED
      BY <2>6, <2>7, <2>8 DEF Fresh
  <1>2. Init => NoneOvertaken
    BY DEF Init, NoneOvertaken
  <1>3. SafeInv /\ NoneOvertaken /\ [Next]_vars => [Legal]_vars
    BY <1>1
  <1>4. SafeInv /\ NoneOvertaken /\ [Next]_vars => NoneOvertaken'
    BY InTurn
  <1> QED
    BY <1>2, <1>3, <1>4, Safe, PTL DEF Spec, WorkflowFollowed
=============================================================================
