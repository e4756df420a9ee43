# Verification of the Kirapass API

TLA+ models of the NestJS API in `apps/api` (with the Prisma schema in
`packages/database`), TLC configurations that model-check them on small
instances, and theorems that TLAPS proves for every instance. Source paths
below are relative to `apps/api/src` unless they start with `packages/`, `docs/`
or `src/`.

## 1. The system

A single Node process answers HTTP requests over one PostgreSQL database. Every
service method is an `async` function that makes its database calls one `await`
at a time. No service opens a transaction. So two things hold everywhere and
make up the model of execution used in every module:

* between any two database calls of one request, any number of calls of other
  requests may run; what was read before the `await` may be stale when used;
* a request may end between any two calls, because a call throws or the process
  is restarted (`railway.json` restarts on failure); what it wrote stays.

A single database statement is atomic, nested `create`s included, and the
unique indexes of the schema hold at every statement.

### Inventory

| Component | State | Operations that write it | Interacts with | What is hard |
|---|---|---|---|---|
| Score engine `modules/score` | `TenantScoreCycle`, `ScoreEvent`, `MonthlyScoreSnapshot`, `TenantBadge`, `RewardClaim` (schema 308-404) | `addEvent` (create event, recompute snapshot, award badges, claim, close) | reads leases; profile reads badges and snapshots | five to seventeen calls per request, four read-then-write pairs, cut-offs |
| Agency sessions `modules/auth` | `Agency`, `User`, `RefreshToken` (10-59) | `registerAgency`, `login`, `refresh`, `logout` | audit | check-then-revoke rotation, expiry, unique indexes |
| Leases `modules/lease` | `Lease` (104-128) | `create`, `update`, `archive`, `activate`, `expire`, `terminate` | units, reviews, score | status decided on a stale row; PATCH outside the workflow |
| Lease reviews `modules/review` | `LeaseReview` (406-425) | `createAgencyReview`, `createTenantReview` | reads leases | stale lease, unique index, time window |
| Rent schedules, payments | `RentSchedule`, `Payment` (130-178) | `create`, `update`, `cancel`, `void`, `markAsPaid` | each other, leases, tenants | two-step `markAsPaid`, ownership of references |
| Tenant authentication `modules/tenant-auth` | `Tenant` invite and password fields, `TenantRefreshToken` | `createInvite`, `acceptInvite`, `login`, `refresh`, `logout` | | invite life cycle across a slow hash, rotation |
| Ownership `common/prisma`, property/unit/tenant/owner services | `agencyId` and references of every row | creates and updates with references | all services | updates go by id alone after a look-up |
| Authorization `modules/auth/authz`, guards | none | none | every controller | table of roles and permissions |
| Messaging | `MessageThread`, `Message` | `createThread`, `sendMessage`, `markAsRead`, tenant side | tenants, leases | order of message and `lastMessageAt` |
| Public profile | `TenantPublicProfile` | `getOrCreate`, `updateForTenant` | badges, snapshots, reviews | find-then-create, switches read first |
| Dashboard | none | none (seven parallel counts) | rent, leases | mixed snapshots |
| Rate limit, audit, incidents, alerts | in-memory maps | `hit`, `isDuplicate`, `analyze`/`close`, `sendErrorAlert` | every request | windows, awaits inside an update |
| Observability, metrics, health, config | counters, logs | | | no state others depend on |
| `src/backend`, scripts, Postman, seed | | | | not part of the running API |

Correctness, per component:

* Score engine: snapshots never claim points nobody earned; badges and reward
  claims are justified by events, in the order badge, claim, close; duplicates
  are bounded; a complete year is eventually rewarded.
* Sessions: a token is good for one exchange; a client never ends up with two
  live tokens of one exchange; links between tokens stay within a user's
  session; one owner per slug and e-mail.
* Leases and reviews: statuses follow the workflow; each role reviews a lease
  once, only after it ended, and only a tenant of that lease does.
* Rent: a schedule that `markAsPaid` set to PAID has a payment behind it.
* Tenant authentication: an invited tenant can accept or has a password; invites
  and tokens are spent by use; a session rests on an invite of its tenant.
* Messaging: only its agency and its tenant change a thread, each reading the
  other's messages; the thread's time is no earlier than a message sent to the end.
* Public profile: a view shows what the tenant chose at one moment while the
  profile was public; only the tenant changes a choice.
* Around every request: admissions are bounded at every moment and nobody is
  turned away below the limit; an event or alert is suppressed only for one of
  its kind just before; a closed incident stays closed but for an analysis
  that was under way.
* Ownership: a row and what it hangs from belong to one agency, and only that
  agency's requests change it; roles keep to the kinds they may write.

`PROJECT.json` lists the hazards with their lines, and which property covers
each. A `note` says where no property does, or where the ones named only bound the
hazard: what the code does admits it, and nothing says that it should not.

## 2. Modules

| Module | Models | Role |
|---|---|---|
| `ScoreRules` | points, monthly total, `maxConsecutive`, `isPlatinumEligible`, `badgesEarned` | operators |
| `ScoreYear` | the rules over every year of snapshots | specification of pure rules |
| `RewardLedger` | what the engine promises: events, awards, claims, closings as single steps | abstract |
| `ScoreEngine` | `ScoreService`, one action per database call | detailed, implements `RewardLedger` |
| `TokenSessions` | what rotating refresh tokens promises, for agencies and tenants alike | abstract |
| `AuthSessions` | `AuthService`, one action per database call | detailed, implements `TokenSessions` |
| `LeaseLifecycle` | what the lease and review endpoints promise | abstract |
| `LeaseWorkflow` | `LeaseService` and `ReviewService` (two calls per request) | detailed, implements `LeaseLifecycle` |
| `AgencyRecords` | the owner, property, tenant, unit, lease, rent-schedule and payment services, one action per database call, and the permissions of their endpoints | detailed |
| `TenantAuth` | `TenantAuthService`, one action per database call, with the tenant writes login depends on | detailed, implements `TokenSessions` |
| `Clock` | the time both the process and the database read | part |
| `Scoping` | the request's context and the query scoping middleware | operators |
| `Messaging` | `MessagingService`, `TenantMessagingService` and their controllers, one action per database call | detailed |
| `PublicProfile` | `ProfileService` and its three controllers, one action per database call | detailed |
| `Portal` | `Messaging` and `PublicProfile` over one clock | composition |
| `RequestPipeline` | the guards, interceptor and filter around every handler, with the maps they keep | detailed |
| `Incidents` | `IncidentAnalyzer` and its controller | detailed |
| `Operations` | `RequestPipeline` and `Incidents` in one process that may restart | composition |
| `MC*` | symmetry sets and definitions for constants | TLC only |
| `*Proofs` | theorems of the module they extend | TLAPS |

Operators marked `mutant:` in the modules are wrong variants of the definition
below them; no specification uses them. Each says which slip in the code a
property would notice.

### Score engine

`ScoreEngine` keeps the tables as functions: `rows[c][m][k]` is the number of
met events of category `k` in month `m` of cycle `c`, `snap` the snapshots
(`Absent` where there is none), `badges[t][b]` and `claims[c]` the *number* of
rows, because the code has no unique index there. A handler's `pc` names the
next database call and `job` its locals: the cycle status it read at the start,
the month's total, the badges left in the award loop, eligibility, joker.
The actions `FindCycle, CreateEvent, ReadEvents, UpsertSnapshot, ReadSnapshots,
FindBadge, CreateBadge, FindClaim, CreateClaim, CloseCycle` are the calls of
`addEvent` in order (score.service.ts:78-160). `Abort` cuts a request off.
Readers take `getTenantScore`/`getMyScore` in their two queries. A local that
will not be read again is reset to keep the state space small. Cycles exist
from the start and ACTIVE: no code in the API creates them or sets BROKEN.

The list of snapshots ordered by month is a function over `Month` with absent
months left out; `HasRun` says what the loop `maxConsecutive` computes, and
`ScoreYear` checks that the loop (`Cur`, `MaxConsecutive`) agrees, which `LoopIsRight`
proves for every year.

### Agency sessions

A refresh token is its row (the client's string and the stored hash name the
same thing). `parent` and `held` are history: which token a row was issued in
exchange for, and which tokens some client has been answered with. `refresh` is
`Refresh` (find and check), `IssueTokens`, `FindReplacement`, `RevokeOld`,
`Respond`. The unique indexes make `CreateAgency` fail whole. `Tick` advances
the clock against `expiresAt`.

`TokenSessions` states what rotation promises without database calls, expiry or
links: a request may be shown a token some client holds and that is not revoked,
issues at most one token, to the same party, and answers only once the token it
was shown is revoked, with a token nobody else has been given. The mapping reads the
shown and the issued token off each request's locals; `FindReplacement`, the look-ups
and the clock are stutters, `Abort` abandons. The tenant side has the same promise,
and its own run checks it. `DeliveredParentRevoked` is a consequence of it
(`SessionsKeepTwinsDead`) and part of the inductive invariants.

### Leases and reviews

Each endpoint looks up the lease and decides in its first action
(`Activate`, `Expire`, `Terminate`, `Archive`, `Patch`, `CreateAgencyReview`,
`CreateTenantReview`) and writes by id in the second (`Update`, `Persist`).
`visited` and `tenants` record what each lease has been, `overtaken` the
requests whose lease another write touched since they looked. `Patch` may
write status, end date and tenant, and may clear the tenant: `@IsOptional`
lets `null` through. Units are never deleted, so the unit look-up of `create`
is part of `Create`.

### Rows of agencies and rent

`AgencyRecords` treats the seven record kinds alike, because their services are
alike: a `create` looks for the row the new one hangs from (`FindParent`), for
schedules and payments then for the tenant (`FindReference`), and stores the row
(`Insert`); every change first runs `getById` (`FindRow`, with the two-level
condition `Owned`) and then updates by id (`Patch`, `Remove`). `markAsPaid` is
`PayPayment` and `PaySchedule`. `OwnerService` to `PaymentService` say which of
these each service has, and `May` which role may begin them
(`permissions.map.ts`). The agency of a request is that of its token, so it is
chosen once, when the request begins. A look-up that finds nothing ends the
request (`Abort`), as does a cut-off.

What is kept of a row is its agency, the row it hangs from, the other row it
names, and, for schedules and payments, its status. The other statuses are left
out: no code of this module reads them (leases have `LeaseWorkflow`). Three things
the code does that a reader might not expect are in the model: a payment is
COMPLETED from birth (the schema's default) while its schedule stays PENDING; PATCH
may write any status of the type, so it does what `void` and `cancel` do, under
the `write` permission; and PATCH takes the owner of a property and the tenant of a lease
without a look-up (`Referable`), which is why `ReferencesStayHome` speaks only of
what a row hangs from and of the tenants of schedules and payments. `manual` is history: the
rows whose status a PATCH, `void` or `cancel` was the last to write.

### Tenant authentication

`TenantAuth` keeps the invite and password fields of a tenant and its refresh
tokens. `acceptInvite` is `FindInvite` and, after the slow hash, `SetPassword`,
which writes by the tenant's id and so clears an invite minted in between; what
holds then is that the tenant has a password. The hash is represented by the invite it
was set with, so that a property can ask where a password came from. `address` is
what login's `findFirst` looks for: addresses are not unique, `findFirst` has no
order, and archiving (or clearing the e-mail) hides a tenant, so login may come
up with any tenant of an address. `createInvite`'s look-up only asks whether the
tenant exists, so it is one action. `refresh` is as on the agency side, without the link to
the replacement; it does not look at the tenant's status.

### Portal: messages and public profiles

`Scoping` says what a request's context is and which rows a query comes up with
(`Visible`): the middleware of `TenantPrismaService` adds the agency for the
models and actions it lists, unless the context has none or is a
`SYSTEM_ADMIN`'s. Both halves of `Portal` rest on it.

In `Messaging` a sender is `GetThread` or `GetMyThread` (the look-up all
operations begin with), `StoreMessage`, `Stamp` and `TouchThread`. `Stamp` is not
a database call: `new Date()` is read when the first call returns, and the
second is sent with it, so the time written is older than the moment of
writing. `MarkAsRead` marks what is in the thread by then. `disturbed` is
history: messages stored while another was being sent in the thread, and those whose
sender was cut off. Nothing holds of them: of two overlapping senders the one that
read the clock first may write last, and then the thread is listed by a time before
the other's message. A message that is alone when it is stored stays covered, even if
later senders overlap it: the time each of them writes was read after it was stored.
`MessageThread.agencyId`
never changes, so the scope of `updateMany` in `TouchThread` never filters. A
`SYSTEM_ADMIN` may open a thread with a tenant of another agency, under the
administrator's own: that tenant then does not see it, because the tenant's
queries are scoped to the tenant's agency (`OnlyPartiesTakePart` allows it).

In `PublicProfile` a view reads the profile once (`OpenView`) and then queries
section by section (`ShowSection`); `was` is history, the settings each profile
has had. The route of a view has no guard, but `RateLimitGuard` puts
the payload of any valid token into the request's context ("for keying/bypass
only", rate-limit.guard.ts:81), so the middleware, which is said to inject nothing
on public routes (tenant-prisma.service.ts:33-34), does scope the two queries of
scoped models. A visitor who sends the token of another agency gets a score of
nothing and no reviews (`bare` names the sections emptied so). That is the run
`public_views`; `ViewsKeepToChoices` speaks only of which sections are shown, and
`OnlyForeignTokensScope` says whose views are emptied, and of what.

### Operations: what surrounds a request

`RequestPipeline` treats a handler as the time between `Arrive` and the action that
ends the request. `Arrive` is synchronous in the code up to the guard's decision:
correlation id, key, `hit`, and for a throttled request the audit event and the answer.
`Mutate` is the interceptor's event after a successful request that is no
`GET`, `Deny` the refusal of `PermissionsGuard`, `Fail` a 5xx with its alert, `Pass` any
other end. `req` is history, what became of each request of this life of the
process, with the event or alert it caused (`Echo`). Whether an event's row is
stored or an alert delivered is not kept: the maps are written before, and
nothing looks at the result, so either outcome leads to the same state. An
event that is lost thus silences the retry that repeats its `x-request-id`, as does
a lost alert its endpoint, for no longer than the window. `limitsFor` gives 5, 3 or
60 by the path; any positive limits are covered. A path that no route matches
reaches no guard and ends in `Pass`.

`Incidents` splits `analyze` at the `await`: `OpenIncident`, `FinishAnalysis`.
`CloseIncident` may come between, and then the analysis sets the status to
PATCH_READY or OPEN and leaves `closedAt` (`overtaken` is the history of that).
`Restart` empties all maps at once and drops what is in flight.

## 3. Runs

| Run | Instance | Properties | Shows |
|---|---|---|---|
| `score_concurrent` | 2 handlers, year of 2 months, 4 requests, cut-offs | `TypeOK`, `SnapshotNeverOverstates`, `UndisturbedSnapshotExact`, `BadgeRowsBounded`, `ClaimRowsBounded`, `JokerlessYearIsPerfect`, `LedgerSpec` | stale sums and stale statuses never overstate or reward what was not earned |
| `score_live` | same with a reader, no cut-offs, fair handlers; every year of 6 months, 5 kinds of total | `CompletedViewShowsPlatinum`, `QualifiedYearCloses`, `LoopFindsRuns`, `PlatinumBringsSilver` | a qualifying year closes; views are ordered; the loop is right; PLATINUM comes with SILVER |
| `auth_sessions` | 2 handlers, 2 users, 1 slug, 4 tokens, clock to 2, cut-offs | `TypeOK`, `SessionsSpec`, `ReplacementChain`, `DeliveredChildrenBounded`, `HoldersRegistered` | rotation is safe for a client, and as `TokenSessions` promises, whatever is cut off |
| `lease_workflow` | 2 handlers, 1 lease, 1 tenant, PATCH to DRAFT, clock to 1, cut-offs | `TypeOK`, `TenantReviewsOwnLease`, `LifecycleSpec`, `MovesFollowWorkflow` | the endpoints implement the life cycle |
| `agency_records` | 2 handlers, 2 agencies, a row of each kind, 3 roles, cut-offs | `TypeOK`, `ReferencesStayHome`, `PaidIsBacked`, `WritesStayHome`, `StaffKeepToTheirRows` | rows stay with their agency although checks and writes are calls apart; a schedule paid by `markAsPaid` has its payment |
| `tenant_auth` | 2 handlers, 2 tenants, 1 address, 2 invites, 3 tokens, clock to 1, cut-offs | `TypeOK`, `InvitedCanEnter`, `InviteUsesBounded`, `SessionsRestOnInvites`, `SessionsSpec`, `SpentTokensRefused` | overlapping acceptances, new invites and rotations leave nobody locked out, and nothing good for use again by a request that begins later |
| `portal` | 2 handlers, 2 agencies, 2 tenants, 2 leases, 1 thread, 2 messages, clock to 1; 2 clients, 1 profile of 2 settings at most, every token; cut-offs | `TypeOK`, `LastMessageCurrent`, `OnlyPartiesTakePart`, `ViewsKeepToChoices`, `OnlyTenantsSetSwitches` | threads keep to their parties and their order; a view is of one moment, whatever changes meanwhile |
| `operations` | 4 requests, 2 in flight, limit 2, windows of 2, clock to 3; 2 incidents; restarts | `TypeOK`, `AdmissionsBounded`, `EchoesAccounted`, `ReportsAccounted` | the windows admit and suppress what they should; reports reopen only by a late analysis |
| `badge_duplicate` | 2 handlers, no cut-offs | `BadgeOnce` violated | a badge twice |
| `refresh_reuse` | 2 handlers, no cut-offs | `SingleUse` violated | one token, two exchanges |
| `lease_race` | 2 handlers, no PATCH, no cut-offs | `WorkflowFollowed` violated | TERMINATED to EXPIRED |
| `public_views` | `portal` with 1 handler, 1 tenant, 1 message | `PublicViewsUnscoped` violated | a foreign token empties a public view |

Bounds and why they are enough:

* Two handlers: every hazard listed is between two requests (a stale read and
  the write that overtakes it); the theorems hold for any number.
* A year of two months with run lengths 1, 2 and 2 and a joker: one month can be
  perfect, one forgiven, so every branch of the rules is taken, and a RENT event
  (6 points) twice or with MESSAGE_REPLY (2) reaches 8 and the cap of 10 in four
  requests (`MaxRequests`). The real lengths (12; 3, 6, 9) keep their order, and
  the rules are looked at over longer years with gaps.
* Six months with lengths 2, 3 and 5 for those: `MCScore` walks such a year month by
  month (`ScoreYear` by INSTANCE) as long as the engine has not begun. The two share no
  variable, so no more is to be seen of them together. SILVER's run is half the year
  as 6 is of 12, GOLD's more than half as 9 is of 12. The totals absent, 7,
  8, 9 and 10 lie on both sides of every threshold.
* Four tokens: two logins and two overlapping rotations, or a chain of three
  rotations; one slug for two users so that registrations collide; a lifetime of
  1 in a clock of 2 so that tokens are used before, at and after expiry.
* One lease: no endpoint reads two. PATCH to DRAFT reopens the whole workflow;
  the theorem covers every set of PATCHable statuses. One tenant who can be
  assigned and cleared again during a review.
* One row of a kind and two agencies in `agency_records`: any of the two may own
  any row, so a request of one meets rows of the other in every relation. Two
  payments of one schedule are covered by the theorem. `SYSTEM_ADMIN`,
  `AGENCY_STAFF` and `VIEWER` stand for the six roles: `SUPER_ADMIN` and
  `AGENCY_OWNER` have the record permissions of the first, `AGENT` those of the
  last; the theorems hold for any set of roles. 1.27 million states, about two
  minutes with two workers.
* Two tenants under one address in `tenant_auth`; two invites, so that one replaces
  the other while it is being accepted, or each tenant has one; three tokens: two
  logins and a rotation, or two overlapping rotations of one token. Invites and
  tokens live until the clock's only tick, so they are used before and after
  they expire.
* One thread in `portal`: no endpoint of a thread touches another. Two messages, so
  that two senders overlap, follow one another or meet a reader; a clock of one
  tick, so that the later of two senders has an earlier or a later time. Home
  agencies are fixed so that one lease is not of the tenants' agency. A `SYSTEM_ADMIN`
  and an `AGENCY_STAFF` stand for the roles, by the exemption; the roles that may
  not write differ in nothing a view can tell. Two settings at most of a profile
  at a time of the run, chosen from all 32. Messages and profiles share no
  table, so each half is explored with the other at rest (`OneAtATime`, a state
  constraint): 650 thousand states, under two minutes.
* Four requests in `operations`: with a limit of 2 they fill the largest burst
  allowed (three in the span of a window, reached) and ask for one more. Two are in
  flight at once, and at most one is of an administrator or of another correlation
  id (`Few`), so that three share keys; the theorems hold for any number. Windows, cooldown and pruning age are 2 in a
  clock of 3: a second window starts in the middle of a span, and with `Cap = 1` the
  second key makes the map prune. Real spans (60 s, 2 s, 5 s, 5 min) only have to
  satisfy `SpanAssumption`. Reports and requests are explored with the other at rest,
  as they share only the clock and the restart. Half a million states, under two
  minutes.
* `CHECK_DEADLOCK FALSE` in every run: requests, tokens, rows and the clock are
  bounded, so behaviours do stop.

Fairness: only `FairSpec` has it (and `MCFairSpec`, which adds the walk), weakly, for the calls of a request already
received. That is what Node's event loop gives a pending promise when the
database answers; the fair run has no cut-offs, and nothing forces a new request
to arrive. Without it, or with cut-offs, a year may stay open for good: no job
re-evaluates cycles (score.service.ts:137).

### What the violation runs show

* `badge_duplicate`: two `addEvent` requests both see no badge (:125) and both
  create it (:129). The comment at score.service.ts:123 says "idempotent per
  tenant + type". `BadgesBounded` says how bad it can get.
* `refresh_reuse`: two refreshes with one token both pass the check at
  auth.service.ts:177. The comment at :171 says reused tokens are rejected.
  `DeliveredChildrenBounded` bounds it: a refresh that begins after an answer
  went out is rejected; served one at a time, a token is good for one exchange
  (`SingleUseInTurn`).
* `lease_race`: `terminate` and `expire` both read ACTIVE, and the second write
  goes from TERMINATED to EXPIRED, which is not in the workflow at
  lease.service.ts:94. `UnovertakenMovesAreLegal` is what does hold.
* `public_views`: a profile is public and shows the score; a visitor asks for it
  with a valid token of another agency. `RateLimitGuard` puts that token's agency
  into the context (rate-limit.guard.ts:86-92), the middleware adds it to the query of
  the cycles, and the view comes out with a score of nothing. The comments say that
  the token is for "keying/bypass only" (:81) and that on public routes "nothing is
  injected" (tenant-prisma.service.ts:33-34). `ViewsScopedByForeignTokens` proves
  how far it goes.

Two more statements disagree with the code and have no run. "One-time invite token"
(tenant-auth.service.ts:22): acceptances that overlap each use the invite, as
rotations do in `refresh_reuse`; `InviteUsesBounded` is only a bound, and
`InvitesOnceInTurn` says when it is one. Decision D9 of `docs/03_DECISIONS.md` ("manual
recording, no schedule mutation", accepted) is older than `markAsPaid`, which sets
the payment's schedule to PAID (payment.service.ts:113-118); the model follows the
code.

## 4. Proofs

All theorems hold for arbitrary finite or infinite sets of rows and users and
any number of handlers (finite where rows are counted). The named `ASSUME`s are
the assumptions; TLC evaluates each of them in a run.

* `ScoreEngineProofs`. `SafeInv` strengthens `SnapshotNeverOverstates` with
  `Backed(h)`: what a handler holds in its locals (the sum it read, the badges
  due, eligibility) is justified by the events *now*, although it was read
  earlier. That is inductive because of `NextGrows`: credits, badge rows and
  claims never shrink, and justification is monotone in credits. From it follow
  `NeverOverstates`, `ViewsAreOrdered` and the step simulation behind
  `ImplementsLedger`. `JokerInv` adds that a handler that decided without a
  joker saw a perfect year, which gives `JokerlessYears`. `RowsInv` counts, for
  each badge and cycle, rows plus the handlers about to write: a handler enters
  the write label only while there is no row, so rows never exceed the handlers
  (`BadgesBounded`, `ClaimsBounded`). With one handler the bound is one, so
  duplicates need an overlap (`RewardsOnceInTurn`). `UndisturbedSnapshotExact` is
  inductive with `CalmInv`: in a month no two recomputes have overlapped in and none
  was cut off, the one handler at work holds the sum of the events there are now, and
  with none at work the snapshot is that sum (`UndisturbedSnapshotsAreExact`); the
  steps of handlers of other months leave it alone (`CalmElsewhere`).
* `ScoreYearProofs`. `WeakerRun` (a run stays one at a lower threshold and
  length) gives `TiersAreNested`; `HalfYear` finds the half of the year without
  the joker month and gives `PlatinumIncludesSilver`, from
  `2 * SilverRun <= YearLen`. Both take the order of the run lengths as a hypothesis
  (`TiersFit`), since the engine needs none of it; `MCScore` evaluates it for the years
  it walks. `LoopIsRight` proves the loop of `maxConsecutive`
  correct for every year. The loop is a recursive function over the months, and the
  library's induction theorems cannot be instantiated here; `IntervalInduction` gets
  induction for a *set* of numbers instead, from the least element that the
  well-foundedness of `<` on the naturals gives any non-empty set. With it the
  counter after each month is the length of the longest run ending there, over
  the months that have a snapshot (`CurIsARun`, `CurIsLongest`). This is what allows `ScoreRules` to state
  badges with `HasRun`.
* `AuthSessionsProofs`. `Sound(h)` says what each point of a rotation knows of
  the old and the new row; in particular the old row is revoked before the
  answer goes out. `Spec => []SafeInv` yields four theorems. `ChildInv` counts, for
  each token, the tokens clients got for it plus the rotations of it under way: one
  begins only while no client has such a token, so the sum never exceeds the
  handlers (`ChildrenAreBounded`; with one handler, `SingleUseInTurn`).
  `ImplementsSessions` is a step simulation, one lemma per action; it needs
  `SessionInv`: a token a request was shown has been given to a client, and one it
  issued to nobody else, so that `IssueTokens` issues for one request only and
  `Respond` gives away what is still its own. `SessionsKeepTwinsDead` is proved from
  `TokenSessions` alone, without `Spec`.
* `TenantAuthProofs`. The same shape: `Sound(h)` for the rows a request has read,
  `InvitesFit` (pending invites and passwords were minted for their tenant, and a
  pending invite has no use yet) and `TokensFit`. `UsesInv` counts the passwords an
  invite has set plus the requests about to set one, as above
  (`InvitesAreSpent`; with one handler, `InvitesOnceInTurn`). `SpentTokensAreRefused` follows from `DeliveredParentRevoked`
  and the check at the start of `refresh`. `ImplementsSessions` repeats the simulation
  for the tenant side, where revoking follows issuing at once.
* `LeaseWorkflowProofs`. `Grounded` says that the status a request moves from is
  among those its lease has had, and its reviewer among its tenants; `Fresh`
  that a request not overtaken still sees the status it read. Nothing a lease
  has had is forgotten, so both survive other requests' steps. Where all requests are
  one at a time nobody is overtaken (`NoneOvertaken`), and without a PATCH of the
  status the workflow of the comment follows (`WorkflowHoldsInTurn`).
* `AgencyRecordsProofs`. `Sound(h)` says what a request knows after its look-ups:
  that the row, its parent and the reference it found are of its agency. It
  stays true because no step moves a row (`Grows`: rows are never deleted, nor
  given another agency or parent), which is where the gap between check and
  write is closed. `ParentsFit` (a parent is of the kind expected),
  `UntouchedAreCompleted` (a payment nobody changed by hand is COMPLETED) and the
  property itself complete `SafeInv`. `Frame` lists the only rows a step may
  change and gives the two action properties.
  `PaidSchedulesAreBacked` needs that the payment of a `paySchedule` step is
  still there, COMPLETED or changed by hand since its first call.
* `PortalProofs`. `Sound(h)` says what a message handler knows after its look-ups
  (its thread is there and it is a party to it, which no step undoes) and, once it
  has read the clock, that it read a time no earlier than its message's. `InOrder`
  says that an undisturbed message precedes every one still being sent in its
  thread; the two together make `LastMessageCurrent` inductive
  (`ThreadTimesCurrent`). `Informed(c)` says of a view that the setting it read is
  one the profile has had while public and that every section queried so far came
  up as the middleware lets it; `ViewsAreOneSetting` and `ViewsScopedByForeignTokens`
  read off its end. Each of the
  two components is proved untouched by the other's steps (`MessagingStable`,
  `ProfileStable`), which is all the composition needs.
* `OperationsProofs`. `PipelineCases` reduces the actions to what they do to one
  request. `Remembered(key)`: the time a map holds for a key is that of a trial, and a
  trial later than that, or forgotten, is out of its window, since `DupWindow <=
  PruneAge`; hence `EchoesAreAccounted` at any `Cap`. `Windowed(c, t, start)` counts for
  `AdmissionsAreBounded`: an entry's count, up to the limit, is the number let in since
  its window started; someone was let in at the start; and *before* the start
  fewer than the limit in any span that reaches into the window, because such a span
  misses the first of the window before. Less than the limit before and at most the
  limit after is less than twice the limit. It needs finitely many requests
  (`RequestAssumption`), to count them, and route names that are no event names
  (`RouteAssumption`), which keeps the keys of the two maps apart. `Accounted(i)` adds
  to `ReportsAccounted` that a closed report in analysis is overtaken.

Only model-checked: `QualifiedYearCloses`, because liveness under fairness is out of
the prover's reach. Every other property of a passing run is a theorem. The four
properties of the violation runs are false as they stand; the theorems ending in
`InTurn` say under which condition the first three become true, and
`ViewsScopedByForeignTokens` which views the fourth is true of.

## 5. Plan

Done: the score engine, agency sessions, leases with reviews, the rows of
agencies with rent and permissions, tenant authentication, messages and public
profiles, the request pipeline and incidents; abstract specifications of rewards,
leases and sessions. Left:

1. The dashboard's parallel counts as a reader of `AgencyRecords`.
2. An abstract specification of a report's life (`Incidents`) and its refinement.

No RECURSIVE operators, so that every module can
be proved about.

## 6. Not modelled

Formatting, validation messages, paging and sorting of lists, password hashing,
JWT contents, request logging and metrics: no modelled property depends on
them. `GET` endpoints that run a single query cannot mix states and are left out.
`GET` endpoints of the dashboard run seven counts at once; what its summary may mix
is not stated anywhere, so there is no property to check yet. What message lists,
threads and profile sections contain, priorities of incidents, prompts and
envelopes are left out. `src/backend`, the PowerShell scripts, Postman collections and the seed script
do not run in the API. The order of requests within one client is not fixed:
any client may send any request at any time.
