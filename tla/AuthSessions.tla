---------------------------- MODULE AuthSessions ----------------------------
(***************************************************************************)
(* AuthService (modules/auth/auth.service.ts): registering an agency with  *)
(* its owner, logging in, rotating a refresh token and logging out.        *)
(*                                                                         *)
(* A request handler is a process; every awaited database call is one      *)
(* action, so handlers interleave between any two of them, and there is no *)
(* transaction around the three calls of a rotation.  A refresh token is   *)
(* its row: the client's opaque string and the stored hash name the same   *)
(* thing.  Passwords, access JWTs and audit calls (not awaited, their      *)
(* failures swallowed) do not touch this state.                            *)
(***************************************************************************)
EXTENDS Naturals, FiniteSets

CONSTANTS
    Handler,    \* requests in flight together
    User,       \* owners, by e-mail address (unique)
    Slug,       \* agency slugs (unique)
    Token,      \* refresh tokens there may ever be (bounds the run)
    None,
    Lifetime,   \* time units a refresh token lives: 7 days
    MaxTime,    \* bound on the clock
    Faults      \* may a handler be cut off half-way?

ASSUME NoneAssumption == None \notin User \cup Slug \cup Token
ASSUME HandlerAssumption == IsFiniteSet(Handler)
ASSUME TimeAssumption == Lifetime \in Nat /\ MaxTime \in Nat /\ Faults \in BOOLEAN

VARIABLES
    slugOf,      \* agencies with their owner: the slug each user registered
    owner,       \* refresh_tokens.userId; None while there is no such row
    expiresAt,   \* refresh_tokens.expiresAt
    revoked,     \* refresh_tokens.revokedAt is set
    replacedBy,  \* refresh_tokens.replacedById
    parent,      \* history: the token a row was issued in exchange for
    held,        \* tokens some client was answered with
    now,         \* the clock
    pc, req      \* the handlers: next call, and the request's locals

tokenRows == <<owner, expiresAt, revoked, replacedBy, parent>>
vars == <<slugOf, owner, expiresAt, revoked, replacedBy, parent, held, now, pc, req>>

PC == {"idle", "findSlug", "findEmail", "createAgency", "issue",
       "findReplacement", "revoke", "respond"}

(* user and slug: whom the request is about; old: the token presented to   *)
(* refresh; new: the token issued.                                         *)
Request == [user : User \cup {None}, slug : Slug \cup {None},
            old : Token \cup {None}, new : Token \cup {None}]

NoRequest == [user |-> None, slug |-> None, old |-> None, new |-> None]

Created == {t \in Token : owner[t] # None}
Registered == {u \in User : slugOf[u] # None}

Init ==
    /\ slugOf = [u \in User |-> None]
    /\ owner = [t \in Token |-> None]
    /\ expiresAt = [t \in Token |-> 0]
    /\ revoked = [t \in Token |-> FALSE]
    /\ replacedBy = [t \in Token |-> None]
    /\ parent = [t \in Token |-> None]
    /\ held = {}
    /\ now = 0
    /\ pc = [h \in Handler |-> "idle"]
    /\ req = [h \in Handler |-> NoRequest]

-----------------------------------------------------------------------------
Goto(h, label) == pc' = [pc EXCEPT ![h] = label]
Set(h, r) == req' = [req EXCEPT ![h] = r]
Finish(h) == Goto(h, "idle") /\ Set(h, NoRequest)

(* registerAgency: look for the slug, look for the e-mail, then create.    *)
Register(h) ==
    /\ pc[h] = "idle"
    /\ \E u \in User, s \in Slug : Set(h, [NoRequest EXCEPT !.user = u, !.slug = s])
    /\ Goto(h, "findSlug")
    /\ UNCHANGED <<slugOf, tokenRows, held, now>>

FindSlug(h) ==
    /\ pc[h] = "findSlug"
    /\ IF \E u \in User : slugOf[u] = req[h].slug
       THEN Finish(h)                                \* ConflictException
       ELSE Goto(h, "findEmail") /\ UNCHANGED req
    /\ UNCHANGED <<slugOf, tokenRows, held, now>>

FindEmail(h) ==
    /\ pc[h] = "findEmail"
    /\ IF req[h].user \in Registered
       THEN Finish(h)                                \* ConflictException
       ELSE Goto(h, "createAgency") /\ UNCHANGED req
    /\ UNCHANGED <<slugOf, tokenRows, held, now>>

CreateAgencyUnchecked(h) ==  \* mutant: no unique indexes
    /\ pc[h] = "createAgency"
    /\ slugOf' = [slugOf EXCEPT ![req[h].user] = req[h].slug]
    /\ Goto(h, "issue")
    /\ UNCHANGED <<tokenRows, held, now, req>>

(* One nested create of agency and owner: the unique indexes on slug and   *)
(* e-mail make it fail whole if another registration got there first.      *)
CreateAgency(h) ==
    /\ pc[h] = "createAgency"
    /\ IF req[h].user \in Registered \/ \E u \in User : slugOf[u] = req[h].slug
       THEN Finish(h) /\ UNCHANGED slugOf
       ELSE /\ slugOf' = [slugOf EXCEPT ![req[h].user] = req[h].slug]
            /\ Goto(h, "issue")
            /\ UNCHANGED req
    /\ UNCHANGED <<tokenRows, held, now>>

(* login with the right password.  Nothing in the code clears isActive.    *)
Login(h) ==
    /\ pc[h] = "idle"
    /\ \E u \in Registered : Set(h, [NoRequest EXCEPT !.user = u])
    /\ Goto(h, "issue")
    /\ UNCHANGED <<slugOf, tokenRows, held, now>>

Usable(t) == ~revoked[t] /\ now <= expiresAt[t]

RefreshIgnoresRevoked(h, t) ==  \* mutant: checks the expiry only
    /\ pc[h] = "idle"
    /\ t \in held
    /\ now <= expiresAt[t]
    /\ Set(h, [NoRequest EXCEPT !.user = owner[t], !.old = t])
    /\ Goto(h, "issue")
    /\ UNCHANGED <<slugOf, tokenRows, held, now>>

(* refresh: a client presents a token it was given, for the first time or  *)
(* again.  A token that is not usable is turned away and changes nothing.  *)
Refresh(h, t) ==
    /\ pc[h] = "idle"
    /\ t \in held
    /\ Usable(t)
    /\ Set(h, [NoRequest EXCEPT !.user = owner[t], !.old = t])
    /\ Goto(h, "issue")
    /\ UNCHANGED <<slugOf, tokenRows, held, now>>

(* issueTokens: a row under a fresh random token, good for Lifetime.       *)
IssueTokens(h) ==
    /\ pc[h] = "issue"
    /\ \E t \in Token \ Created :
          /\ owner' = [owner EXCEPT ![t] = req[h].user]
          /\ expiresAt' = [expiresAt EXCEPT ![t] = now + Lifetime]
          /\ parent' = [parent EXCEPT ![t] = req[h].old]
          /\ Set(h, [req[h] EXCEPT !.new = t])
    /\ Goto(h, IF req[h].old = None THEN "respond" ELSE "findReplacement")
    /\ UNCHANGED <<slugOf, revoked, replacedBy, held, now>>

FindReplacementThenRespond(h) ==  \* mutant: answers before it revokes
    /\ pc[h] = "findReplacement"
    /\ Goto(h, "respond")
    /\ UNCHANGED <<slugOf, tokenRows, held, now, req>>

(* Look the new row up again for its id; rows are never deleted.           *)
FindReplacement(h) ==
    /\ pc[h] = "findReplacement"
    /\ Goto(h, "revoke")
    /\ UNCHANGED <<slugOf, tokenRows, held, now, req>>

RevokeLinkingOwner(h) ==  \* mutant: stores the user's id as replacedById
    /\ pc[h] = "revoke"
    /\ revoked' = [revoked EXCEPT ![req[h].old] = TRUE]
    /\ replacedBy' = [replacedBy EXCEPT ![req[h].old] = req[h].user]
    /\ Goto(h, "respond")
    /\ UNCHANGED <<slugOf, owner, expiresAt, parent, held, now, req>>

RevokeLinkingBackwards(h) ==  \* mutant: links the new row to the old one
    /\ pc[h] = "revoke"
    /\ revoked' = [revoked EXCEPT ![req[h].old] = TRUE]
    /\ replacedBy' = [replacedBy EXCEPT ![req[h].new] = req[h].old]
    /\ Goto(h, "respond")
    /\ UNCHANGED <<slugOf, owner, expiresAt, parent, held, now, req>>

(* Revoke the old row by id, whatever has become of it since it was read.  *)
RevokeOld(h) ==
    /\ pc[h] = "revoke"
    /\ revoked' = [revoked EXCEPT ![req[h].old] = TRUE]
    /\ replacedBy' = [replacedBy EXCEPT ![req[h].old] = req[h].new]
    /\ Goto(h, "respond")
    /\ UNCHANGED <<slugOf, owner, expiresAt, parent, held, now, req>>

Respond(h) ==
    /\ pc[h] = "respond"
    /\ held' = held \cup {req[h].new}
    /\ Finish(h)
    /\ UNCHANGED <<slugOf, tokenRows, now>>

(* logout is one conditional update.                                       *)
Logout(t) ==
    /\ t \in held
    /\ ~revoked[t]
    /\ revoked' = [revoked EXCEPT ![t] = TRUE]
    /\ UNCHANGED <<slugOf, owner, expiresAt, replacedBy, parent, held, now, pc, req>>

(* A call throws, the process stops, or the answer does not arrive.        *)
(* agencies.email is unique as well (schema.prisma:14) and registerAgency  *)
(* does not look at it: that failure of createAgency is an Abort too.      *)
Abort(h) ==
    /\ Faults
    /\ pc[h] # "idle"
    /\ Finish(h)
    /\ UNCHANGED <<slugOf, tokenRows, held, now>>

Tick ==
    /\ now < MaxTime
    /\ now' = now + 1
    /\ UNCHANGED <<slugOf, tokenRows, held, pc, req>>

Step(h) == \/ FindSlug(h) \/ FindEmail(h) \/ CreateAgency(h)
           \/ IssueTokens(h) \/ FindReplacement(h) \/ RevokeOld(h) \/ Respond(h)

Next == \/ \E h \in Handler : \/ Register(h) \/ Login(h) \/ Step(h) \/ Abort(h)
                              \/ \E t \in Token : Refresh(h, t)
        \/ \E t \in Token : Logout(t)
        \/ Tick

Spec == Init /\ [][Next]_vars

-----------------------------------------------------------------------------
(* Properties                                                              *)

TypeOK ==
    /\ slugOf \in [User -> Slug \cup {None}]
    /\ owner \in [Token -> User \cup {None}]
    /\ expiresAt \in [Token -> Nat]
    /\ revoked \in [Token -> BOOLEAN]
    /\ replacedBy \in [Token -> Token \cup {None}]
    /\ parent \in [Token -> Token \cup {None}]
    /\ held \subseteq Token
    /\ now \in Nat
    /\ pc \in [Handler -> PC]
    /\ req \in [Handler -> Request]

(* When a client has the token of a rotation in hand, the one it gave for  *)
(* it is dead: the three calls of refresh (auth.service.ts:172-200) may be *)
(* cut off anywhere and still never leave a client with two live tokens of *)
(* one request.                                                            *)
DeliveredParentRevoked ==
    \A t \in held : parent[t] # None => revoked[parent[t]]

(* Sessions are rotated as TokenSessions says, however requests overlap    *)
(* and wherever they are cut off: no exchange begins with a revoked token, *)
(* none is answered while the token shown to it is alive, and no token is  *)
(* answered twice (auth.service.ts:119-123, 161-209).                      *)
Sessions == INSTANCE TokenSessions WITH
    Party <- User, Exchange <- Handler,
    old <- [h \in Handler |-> req[h].old], new <- [h \in Handler |-> req[h].new]
SessionsSpec == Sessions!Spec

(* Every replacedById points one rotation further down the same user's     *)
(* session, also when rotations of one token overwrite each other's link   *)
(* (auth.service.ts:185-191).                                              *)
ReplacementChain ==
    \A t \in Token : replacedBy[t] # None =>
        /\ parent[replacedBy[t]] = t
        /\ owner[replacedBy[t]] = owner[t] /\ owner[t] # None
        /\ revoked[t]

(* The tokens a client can get for one token are no more than the requests *)
(* in flight together: rotations that overlap may each succeed, one that   *)
(* begins after an answer went out may not (auth.service.ts:173-191).      *)
DeliveredChildrenBounded ==
    \A p \in Token :
        Cardinality({t \in held : parent[t] = p}) <= Cardinality(Handler)

(* auth.service.ts:171, "Reused/revoked/expired -> rejected": a token is   *)
(* good for one exchange.                                                  *)
SingleUse ==
    \A p \in Token : Cardinality({t \in held : parent[t] = p}) <= 1

(* Whoever has a token has an agency, and no two owners share its slug,    *)
(* though both look-ups of registerAgency may be stale by the time it      *)
(* creates and it may be cut off before it issues (auth.service.ts:20-60). *)
HoldersRegistered ==
    /\ \A t \in Created : owner[t] \in Registered
    /\ \A u, v \in Registered : slugOf[u] = slugOf[v] => u = v
=============================================================================
