--------------------------- MODULE RequestPipeline ---------------------------
(***************************************************************************)
(* What happens to every request around its handler: CorrelationMiddleware *)
(* names it, RateLimitGuard counts it, AuditInterceptor, PermissionsGuard  *)
(* and the throttle log it, GlobalExceptionFilter raises an alert when it  *)
(* fails.  Counters, duplicate suppression and cooldown live in maps of    *)
(* the process (apps/api/src/common).                                      *)
(*                                                                         *)
(* The handler itself is the time between Arrive and an action that ends   *)
(* the request.  The audit events services log themselves take the same    *)
(* path as these and are left out.                                         *)
(***************************************************************************)
EXTENDS Naturals, FiniteSets, Clock

CONSTANTS
    Request,   \* requests there may ever be (bounds the run)
    Client,    \* what requests are counted under: a user, or an ip without one
    Admin,     \* the client that is a SYSTEM_ADMIN
    Route,
    Id,        \* correlation ids: x-request-id, or made up
    Fault,     \* what tells the failures of a route apart: method, url, status
    Limit,     \* of each route: 5, 3 or 60
    Window,    \* ... in a window of 60 s
    DupWindow, \* 2 s
    PruneAge,  \* 5 s
    Cap,       \* 1000
    Cooldown,  \* 5 min
    Webhook,   \* is DISCORD_WEBHOOK_URL set?
    None

ASSUME LimitAssumption == Limit \in [Route -> Nat \ {0}]
ASSUME SpanAssumption ==
    /\ {Window, DupWindow, Cooldown} \subseteq Nat \ {0}
    /\ PruneAge \in Nat /\ DupWindow <= PruneAge
ASSUME CapAssumption == Cap \in Nat /\ Webhook \in BOOLEAN
ASSUME RequestAssumption == IsFiniteSet(Request)

VARIABLES
    hits,      \* RateLimitStore.map; None without an entry
    seen,      \* AuditService.seen
    lastSent,  \* DiscordAlertService.lastSent
    req        \* history: the requests since the process started; None before they come

pipelineVars == <<hits, seen, lastSent, req>>

EventType == {"auth.rate_limited", "auth.rbac.denied", "domain.mutation"}
Trace == EventType \X Id
Alarm == Route \X Fault

ASSUME RouteAssumption == Route \cap EventType = {}

Entry == [count : Nat, resetAt : Nat]

(* What a request leaves behind: nothing, or an event or alert, which was  *)
(* tried or suppressed.  A row or a message that is tried may be lost, but *)
(* nothing ever looks at that.                                             *)
Echo == [key : Trace \cup Alarm, at : Nat, tried : BOOLEAN]
Call == [client : Client, route : Route, id : Id, at : Nat,
         outcome : {"running", "throttled", "ended"}, echo : Echo \cup {None}]

ASSUME AbsentAssumption == None \notin Nat \cup Entry \cup Echo \cup Call

PipelineInit ==
    /\ hits = [k \in Client \X Route |-> None]
    /\ seen = [k \in Trace |-> None]
    /\ lastSent = [k \in Alarm |-> None]
    /\ req = [r \in Request |-> None]

-----------------------------------------------------------------------------
Recent(time, span) == time # None /\ now - time < span

HitRenewing(entry) ==  \* mutant: every hit renews the window
    IF entry = None \/ entry.resetAt <= now
    THEN [count |-> 1, resetAt |-> now + Window]
    ELSE [count |-> entry.count + 1, resetAt |-> now + Window]

(* hit: a window starts with the first hit after the last one is over.     *)
Hit(entry) ==
    IF entry = None \/ entry.resetAt <= now
    THEN [count |-> 1, resetAt |-> now + Window]
    ELSE [entry EXCEPT !.count = @ + 1]

Within(entry, t) == entry.count <= Limit[t]

PruneAll(map) == [k \in DOMAIN map |-> None]  \* mutant: starts over when full

(* What is kept of a map that is too large.                                *)
Prune(map) ==
    [k \in DOMAIN map |-> IF map[k] # None /\ now - map[k] > PruneAge THEN None ELSE map[k]]

Remember(map, key) ==
    LET noted == [map EXCEPT ![key] = now]
        size == Cardinality({k \in DOMAIN noted : noted[k] # None})
    IN  IF size > Cap THEN Prune(noted) ELSE noted

Running(r) == req[r] # None /\ req[r].outcome = "running"

End(r, call, outcome, echo) ==
    req' = [req EXCEPT ![r] = [call EXCEPT !.outcome = outcome, !.echo = echo]]

(* log: an event of a type is not repeated for a correlation id within     *)
(* DupWindow of the last that was tried.                                   *)
Log(r, call, outcome, event) ==
    LET key == <<event, call.id>>
        dup == Recent(seen[key], DupWindow)
    IN  /\ End(r, call, outcome, [key |-> key, at |-> now, tried |-> ~dup])
        /\ seen' = IF dup THEN seen ELSE Remember(seen, key)

(* A request arrives and passes the guard, or does not.                    *)
Arrive(r, c, t, i) ==
    LET call == [client |-> c, route |-> t, id |-> i, at |-> now,
                 outcome |-> "running", echo |-> None]
        key == <<c, t>>
        entry == Hit(hits[key])
    IN  /\ req[r] = None
        /\ IF c = Admin THEN End(r, call, "running", None) /\ UNCHANGED <<hits, seen>>
           ELSE /\ hits' = [hits EXCEPT ![key] = entry]
                /\ IF Within(entry, t) THEN End(r, call, "running", None) /\ UNCHANGED seen
                   ELSE Log(r, call, "throttled", "auth.rate_limited")
        /\ UNCHANGED lastSent

(* The handler answers and the request was no GET.                         *)
Mutate(r) ==
    /\ Running(r)
    /\ Log(r, req[r], "ended", "domain.mutation")
    /\ UNCHANGED <<hits, lastSent>>

(* PermissionsGuard turns it away.                                         *)
Deny(r) ==
    /\ Running(r)
    /\ Log(r, req[r], "ended", "auth.rbac.denied")
    /\ UNCHANGED <<hits, lastSent>>

(* A GET is answered, or any request with an error of the client's.        *)
Pass(r) ==
    /\ Running(r)
    /\ End(r, req[r], "ended", None)
    /\ UNCHANGED <<hits, seen, lastSent>>

(* A 5xx: sendErrorAlert, with the cooldown started before the alert is    *)
(* sent.                                                                   *)
Fail(r, f) ==
    LET key == <<req[r].route, f>>
        cooling == Recent(lastSent[key], Cooldown)
    IN  /\ Running(r)
        /\ End(r, req[r], "ended",
               IF Webhook THEN [key |-> key, at |-> now, tried |-> ~cooling] ELSE None)
        /\ lastSent' = IF Webhook /\ ~cooling THEN [lastSent EXCEPT ![key] = now] ELSE lastSent
        /\ UNCHANGED <<hits, seen>>

(* The process stops and starts again: the maps are empty, and what was    *)
(* running is never answered.                                              *)
RestartPipeline ==
    /\ hits' = [k \in Client \X Route |-> None]
    /\ seen' = [k \in Trace |-> None]
    /\ lastSent' = [k \in Alarm |-> None]
    /\ req' = [r \in Request |-> None]

PipelineNext ==
    \E r \in Request :
        \/ \E c \in Client, t \in Route, i \in Id : Arrive(r, c, t, i)
        \/ Mutate(r) \/ Deny(r) \/ Pass(r)
        \/ \E f \in Fault : Fail(r, f)

-----------------------------------------------------------------------------
(* Properties                                                              *)

PipelineTypeOK ==
    /\ hits \in [Client \X Route -> Entry \cup {None}]
    /\ seen \in [Trace -> Nat \cup {None}]
    /\ lastSent \in [Alarm -> Nat \cup {None}]
    /\ req \in [Request -> Call \cup {None}]

Counted(c, t) == {r \in Request : req[r] # None /\ req[r].client = c /\ req[r].route = t}
Admitted(c, t) == {r \in Counted(c, t) : req[r].outcome # "throttled"}

(* Those let in in the span of a window's length from s, and up to it.     *)
From(c, t, s) == {r \in Admitted(c, t) : s <= req[r].at /\ req[r].at < s + Window}
UpTo(c, t, s) == {r \in Admitted(c, t) : req[r].at <= s /\ s < req[r].at + Window}

(* Windows start with a first hit, not with the clock, so they may meet in *)
(* the middle of a burst: while the process lives, any span of a window's  *)
(* length lets in at most one less than twice the limit; and nobody is     *)
(* turned away whom the limit's worth was not let in for within a window's *)
(* length before (rate-limit.store.ts:14-24, rate-limit.guard.ts:35-75).   *)
AdmissionsBounded ==
    \A c \in Client \ {Admin}, t \in Route :
        /\ \A s \in 0..now : Cardinality(From(c, t, s)) < 2 * Limit[t]
        /\ \A r \in Counted(c, t) \ Admitted(c, t) :
              Cardinality(UpTo(c, t, req[r].at)) >= Limit[t]

Echoing == {r \in Request : req[r] # None /\ req[r].echo # None}
Tried(key) == {r \in Echoing : req[r].echo.key = key /\ req[r].echo.tried}
Span(key) == IF key \in Trace THEN DupWindow ELSE Cooldown

(* While the process lives, the audit events of a type and correlation id, *)
(* and the alerts of an endpoint, are tried a window apart at least, and   *)
(* each that is suppressed had one of its kind tried less than a window    *)
(* before, whatever has been pruned meanwhile (audit.service.ts:61-74,     *)
(* discord-alert.service.ts:23-27).                                        *)
EchoesAccounted ==
    \A r \in Echoing :
        LET echo == req[r].echo
            span == Span(echo.key)
        IN  IF echo.tried
            THEN \A x \in Tried(echo.key) \ {r} :
                    req[x].echo.at + span <= echo.at \/ echo.at + span <= req[x].echo.at
            ELSE \E x \in Tried(echo.key) :
                    req[x].echo.at <= echo.at /\ echo.at < req[x].echo.at + span
=============================================================================
