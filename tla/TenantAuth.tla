----------------------------- MODULE TenantAuth -----------------------------
(***************************************************************************)
(* TenantAuthService (modules/tenant-auth/tenant-auth.service.ts): the     *)
(* agency mints an invite, the tenant sets a password with it, logs in,    *)
(* rotates refresh tokens and logs out; and TenantService, which writes    *)
(* the e-mail address and the status that login looks at.                  *)
(*                                                                         *)
(* One action is one awaited database call.  A tenant not created yet is   *)
(* one nothing has been done to.  A password is known by the invite it was *)
(* set with, which the database does not store; hashing and access JWTs do *)
(* not touch this state, but hashing a password takes time.                *)
(***************************************************************************)
EXTENDS Naturals, FiniteSets

CONSTANTS
    Handler,         \* requests in flight together
    Tenant, Email,   \* several tenants may share an address
    Invite,          \* invite tokens there may ever be (bounds the run)
    Token,           \* refresh tokens there may ever be (bounds the run)
    None,
    InviteLifetime,  \* time units an invite lives: 72 hours
    Lifetime,        \* time units a refresh token lives: 7 days
    MaxTime          \* bound on the clock

ASSUME NoneAssumption == None \notin Tenant \cup Email \cup Invite \cup Token
ASSUME HandlerAssumption == IsFiniteSet(Handler)
ASSUME TimeAssumption == InviteLifetime \in Nat /\ Lifetime \in Nat /\ MaxTime \in Nat

VARIABLES
    address,       \* tenants.email; None without one or with status ARCHIVED
    passwordFrom,  \* tenants.passwordHash, by the invite it was set with
    invite,        \* tenants.inviteToken
    inviteEnds,    \* tenants.inviteExpiresAt
    mintedFor,     \* history: the tenant an invite was minted for
    uses,          \* history: the passwords set with an invite
    owner,         \* tenant_refresh_tokens.tenantId; None while no such row
    expiresAt,     \* tenant_refresh_tokens.expiresAt
    revoked,       \* tenant_refresh_tokens.revokedAt is set
    parent,        \* history: the token a row was issued in exchange for
    held,          \* tokens some client was answered with
    now,           \* the clock
    pc, req        \* the handlers: next call, and the request's locals

invites == <<passwordFrom, invite, inviteEnds, mintedFor, uses>>
tokens == <<owner, expiresAt, revoked, parent, held>>
vars == <<address, invites, tokens, now, pc, req>>

PC == {"idle", "setPassword", "issue", "revoke", "respond"}

(* tenant: the row found; invite: the token presented to acceptInvite;     *)
(* old, new: the token presented to refresh and the one issued.            *)
Request == [tenant : Tenant \cup {None}, invite : Invite \cup {None},
            old : Token \cup {None}, new : Token \cup {None}]

NoRequest == [tenant |-> None, invite |-> None, old |-> None, new |-> None]

Created == {k \in Token : owner[k] # None}

Init ==
    /\ address = [t \in Tenant |-> None]
    /\ passwordFrom = [t \in Tenant |-> None]
    /\ invite = [t \in Tenant |-> None]
    /\ inviteEnds = [t \in Tenant |-> 0]
    /\ mintedFor = [i \in Invite |-> None]
    /\ uses = [i \in Invite |-> 0]
    /\ owner = [k \in Token |-> None]
    /\ expiresAt = [k \in Token |-> 0]
    /\ revoked = [k \in Token |-> FALSE]
    /\ parent = [k \in Token |-> None]
    /\ held = {}
    /\ now = 0
    /\ pc = [h \in Handler |-> "idle"]
    /\ req = [h \in Handler |-> NoRequest]

-----------------------------------------------------------------------------
Goto(h, label) == pc' = [pc EXCEPT ![h] = label]
Set(h, r) == req' = [req EXCEPT ![h] = r]
Finish(h) == Goto(h, "idle") /\ Set(h, NoRequest)

(* TenantService.create, update and archive: any address, and any status,  *)
(* whatever was read before; archiving takes the tenant from login's view. *)
WriteTenant(t) ==
    /\ \E e \in Email \cup {None} : address' = [address EXCEPT ![t] = e]
    /\ UNCHANGED <<invites, tokens, now, pc, req>>

(* createInvite: a fresh token takes the place of the invite there was.    *)
(* The look-up before it only asks whether the tenant exists.              *)
CreateInvite(t) ==
    /\ \E i \in Invite :
          /\ mintedFor[i] = None
          /\ mintedFor' = [mintedFor EXCEPT ![i] = t]
          /\ invite' = [invite EXCEPT ![t] = i]
    /\ inviteEnds' = [inviteEnds EXCEPT ![t] = now + InviteLifetime]
    /\ UNCHANGED <<address, passwordFrom, uses, tokens, now, pc, req>>

FindInviteConsuming(h, t) ==  \* mutant: takes the invite away before hashing
    /\ pc[h] = "idle"
    /\ invite[t] # None
    /\ now <= inviteEnds[t]
    /\ Set(h, [NoRequest EXCEPT !.tenant = t, !.invite = invite[t]])
    /\ invite' = [invite EXCEPT ![t] = None]
    /\ Goto(h, "setPassword")
    /\ UNCHANGED <<address, passwordFrom, inviteEnds, mintedFor, uses, tokens, now>>

(* acceptInvite finds the tenant by the token, if it has not expired, and  *)
(* then hashes the new password.                                           *)
FindInvite(h, t) ==
    /\ pc[h] = "idle"
    /\ invite[t] # None
    /\ now <= inviteEnds[t]
    /\ Set(h, [NoRequest EXCEPT !.tenant = t, !.invite = invite[t]])
    /\ Goto(h, "setPassword")
    /\ UNCHANGED <<address, invites, tokens, now>>

SetPasswordKeepingInvite(h) ==  \* mutant: leaves the invite in place
    /\ pc[h] = "setPassword"
    /\ passwordFrom' = [passwordFrom EXCEPT ![req[h].tenant] = req[h].invite]
    /\ uses' = [uses EXCEPT ![req[h].invite] = @ + 1]
    /\ Finish(h)
    /\ UNCHANGED <<address, invite, inviteEnds, mintedFor, tokens, now>>

(* ... and stores the hash by the tenant's id, clearing whatever invite    *)
(* the tenant has by now.                                                  *)
SetPassword(h) ==
    /\ pc[h] = "setPassword"
    /\ LET t == req[h].tenant
       IN  /\ passwordFrom' = [passwordFrom EXCEPT ![t] = req[h].invite]
           /\ invite' = [invite EXCEPT ![t] = None]
           /\ inviteEnds' = [inviteEnds EXCEPT ![t] = 0]
    /\ uses' = [uses EXCEPT ![req[h].invite] = @ + 1]
    /\ Finish(h)
    /\ UNCHANGED <<address, mintedFor, tokens, now>>

LoginByEmail(h, e) ==  \* mutant: compares with one tenant, lets in another
    /\ pc[h] = "idle"
    /\ \E t, u \in Tenant :
          /\ address[t] = e /\ address[u] = e
          /\ passwordFrom[t] # None
          /\ Set(h, [NoRequest EXCEPT !.tenant = u])
    /\ Goto(h, "issue")
    /\ UNCHANGED <<address, invites, tokens, now>>

(* login with the right password of the tenant findFirst comes up with:    *)
(* any one with that address that is not archived.                         *)
Login(h, e) ==
    /\ pc[h] = "idle"
    /\ \E t \in Tenant :
          /\ address[t] = e
          /\ passwordFrom[t] # None
          /\ Set(h, [NoRequest EXCEPT !.tenant = t])
    /\ Goto(h, "issue")
    /\ UNCHANGED <<address, invites, tokens, now>>

UsableUnlessExpired(k) == now <= expiresAt[k]  \* mutant: forgets revokedAt

Usable(k) == ~revoked[k] /\ now <= expiresAt[k]

(* refresh: a client presents a token it was given, for the first time or  *)
(* again.  The tenant's status is not looked at.                           *)
Refresh(h, k) ==
    /\ pc[h] = "idle"
    /\ k \in held
    /\ Usable(k)
    /\ Set(h, [NoRequest EXCEPT !.tenant = owner[k], !.old = k])
    /\ Goto(h, "issue")
    /\ UNCHANGED <<address, invites, tokens, now>>

IssueTokensAndRespond(h) ==  \* mutant: revokes after the answer, if at all
    /\ pc[h] = "issue"
    /\ \E k \in Token \ Created :
          /\ owner' = [owner EXCEPT ![k] = req[h].tenant]
          /\ expiresAt' = [expiresAt EXCEPT ![k] = now + Lifetime]
          /\ parent' = [parent EXCEPT ![k] = req[h].old]
          /\ Set(h, [req[h] EXCEPT !.new = k])
    /\ Goto(h, "respond")
    /\ UNCHANGED <<address, invites, revoked, held, now>>

(* issueTokens: a row under a fresh random token, good for Lifetime.       *)
IssueTokens(h) ==
    /\ pc[h] = "issue"
    /\ \E k \in Token \ Created :
          /\ owner' = [owner EXCEPT ![k] = req[h].tenant]
          /\ expiresAt' = [expiresAt EXCEPT ![k] = now + Lifetime]
          /\ parent' = [parent EXCEPT ![k] = req[h].old]
          /\ Set(h, [req[h] EXCEPT !.new = k])
    /\ Goto(h, IF req[h].old = None THEN "respond" ELSE "revoke")
    /\ UNCHANGED <<address, invites, revoked, held, now>>

(* Revoke the old row by id.  Nothing links it to the new one.             *)
RevokeOld(h) ==
    /\ pc[h] = "revoke"
    /\ revoked' = [revoked EXCEPT ![req[h].old] = TRUE]
    /\ Goto(h, "respond")
    /\ UNCHANGED <<address, invites, owner, expiresAt, parent, held, now, req>>

RespondWithOld(h) ==  \* mutant: answers with the token it was given
    /\ pc[h] = "respond"
    /\ held' = held \cup {req[h].old}
    /\ Finish(h)
    /\ UNCHANGED <<address, invites, owner, expiresAt, revoked, parent, now>>

Respond(h) ==
    /\ pc[h] = "respond"
    /\ held' = held \cup {req[h].new}
    /\ Finish(h)
    /\ UNCHANGED <<address, invites, owner, expiresAt, revoked, parent, now>>

(* logout is one conditional update.                                       *)
Logout(k) ==
    /\ k \in held
    /\ ~revoked[k]
    /\ revoked' = [revoked EXCEPT ![k] = TRUE]
    /\ UNCHANGED <<address, invites, owner, expiresAt, parent, held, now, pc, req>>

(* A call throws, the process stops, or the answer does not arrive.        *)
Abort(h) ==
    /\ pc[h] # "idle"
    /\ Finish(h)
    /\ UNCHANGED <<address, invites, tokens, now>>

Tick ==
    /\ now < MaxTime
    /\ now' = now + 1
    /\ UNCHANGED <<address, invites, tokens, pc, req>>

Begin(h) == \/ \E t \in Tenant : FindInvite(h, t)
            \/ \E e \in Email : Login(h, e)
            \/ \E k \in Token : Refresh(h, k)

Step(h) == SetPassword(h) \/ IssueTokens(h) \/ RevokeOld(h) \/ Respond(h)

Next == \/ \E h \in Handler : Begin(h) \/ Step(h) \/ Abort(h)
        \/ \E t \in Tenant : WriteTenant(t) \/ CreateInvite(t)
        \/ \E k \in Token : Logout(k)
        \/ Tick

Spec == Init /\ [][Next]_vars

-----------------------------------------------------------------------------
(* Properties                                                              *)

TypeOK ==
    /\ address \in [Tenant -> Email \cup {None}]
    /\ passwordFrom \in [Tenant -> Invite \cup {None}]
    /\ invite \in [Tenant -> Invite \cup {None}]
    /\ inviteEnds \in [Tenant -> Nat]
    /\ mintedFor \in [Invite -> Tenant \cup {None}]
    /\ uses \in [Invite -> Nat]
    /\ owner \in [Token -> Tenant \cup {None}]
    /\ expiresAt \in [Token -> Nat]
    /\ revoked \in [Token -> BOOLEAN]
    /\ parent \in [Token -> Token \cup {None}]
    /\ held \subseteq Token
    /\ now \in Nat
    /\ pc \in [Handler -> PC]
    /\ req \in [Handler -> Request]

(* A tenant who was ever invited can still accept or has a password:       *)
(* invites may replace one another, expire, be accepted twice at once or   *)
(* be given up half-way, and acceptInvite clears an invite it never saw    *)
(* (tenant-auth.service.ts:30-33, 50-59).                                  *)
InvitedCanEnter ==
    \A t \in Tenant :
        (\E i \in Invite : mintedFor[i] = t) => invite[t] # None \/ passwordFrom[t] # None

(* An invite sets no more passwords than there are requests in flight      *)
(* together: acceptances that overlap each succeed, one that begins after  *)
(* a password was set does not (tenant-auth.service.ts:38-59).  A bound    *)
(* only: a "one-time" invite (:22) is used twice by two that overlap.      *)
InviteUsesBounded == \A i \in Invite : uses[i] <= Cardinality(Handler)

(* Whoever has a session was let in by an invite of their own: the         *)
(* password of a tenant was set with an invite minted for that tenant,     *)
(* and a session is the tenant's whose password was compared, though       *)
(* addresses are shared and change (tenant-auth.service.ts:63-75, 118-125).*)
SessionsRestOnInvites ==
    \A k \in Created :
        /\ passwordFrom[owner[k]] # None
        /\ mintedFor[passwordFrom[owner[k]]] = owner[k]

(* When a tenant has the token of a rotation in hand, the one it gave for  *)
(* it is dead, wherever rotations were cut off                             *)
(* (tenant-auth.service.ts:118-132).                                       *)
DeliveredParentRevoked ==
    \A k \in held : parent[k] # None => revoked[parent[k]]

(* Sessions are rotated as TokenSessions says, however requests overlap    *)
(* and wherever they are cut off: no exchange begins with a revoked token, *)
(* none is answered while the token shown to it is alive, and no token is  *)
(* answered twice (tenant-auth.service.ts:75-78, 107-140).                 *)
Sessions == INSTANCE TokenSessions WITH
    Party <- Tenant, Exchange <- Handler,
    old <- [h \in Handler |-> req[h].old], new <- [h \in Handler |-> req[h].new]
SessionsSpec == Sessions!Spec

(* A token is refused once a tenant has one it was exchanged for: a refresh *)
(* that begins then finds it revoked, so only exchanges that overlap can   *)
(* both succeed (tenant-auth.service.ts:117-131).                          *)
SpentTokensRefused ==
    [][\A h \in Handler, k \in held :
          pc[h] = "idle" /\ req'[h].old # None => parent[k] # req'[h].old]_vars
=============================================================================
