------------------------- MODULE TenantAuthProofs ---------------------------
(***************************************************************************)
(* Proofs about TenantAuth, for every set of tenants, invites, tokens and  *)
(* handlers and every lifetime.                                            *)
(***************************************************************************)
EXTENDS TenantAuth, FiniteSetTheorems, TLAPS

-----------------------------------------------------------------------------
(* What a handler knows about the rows its next call will write.           *)
Sound(h) ==
    LET r == req[h]
    IN  /\ pc[h] = "idle" => r.old = None
        /\ pc[h] = "setPassword" =>
              r.tenant \in Tenant /\ r.invite \in Invite /\ mintedFor[r.invite] = r.tenant
        /\ pc[h] \in {"issue", "revoke", "respond"} =>
              /\ r.tenant \in Tenant /\ passwordFrom[r.tenant] # None
              /\ r.old # None => owner[r.old] = r.tenant
        /\ pc[h] \in {"revoke", "respond"} =>
              r.new \in Token /\ owner[r.new] = r.tenant /\ parent[r.new] = r.old
        /\ pc[h] = "revoke" => r.old # None
        /\ pc[h] = "respond" /\ r.old # None => revoked[r.old]

(* Passwords and pending invites were minted for their tenant; a pending   *)
(* invite has set no password yet.                                         *)
InvitesFit ==
    /\ \A t \in Tenant :
          /\ passwordFrom[t] # None => mintedFor[passwordFrom[t]] = t
          /\ invite[t] # None => mintedFor[invite[t]] = t /\ uses[invite[t]] = 0
    /\ \A i \in Invite : mintedFor[i] = None => uses[i] = 0

TokensFit ==
    /\ \A k \in Created : passwordFrom[owner[k]] # None
    /\ held \subseteq Created
    /\ DeliveredParentRevoked

SafeInv ==
    /\ TypeOK
    /\ \A h \in Handler : Sound(h)
    /\ InvitesFit
    /\ InvitedCanEnter
    /\ TokensFit

(* What was minted, set, issued or revoked is not taken back.              *)
Grows ==
    /\ \A i \in Invite : mintedFor[i] # None => mintedFor'[i] = mintedFor[i]
    /\ \A t \in Tenant : passwordFrom[t] # None => passwordFrom'[t] # None
    /\ \A k \in Created : owner'[k] = owner[k] /\ parent'[k] = parent[k]
    /\ \A k \in Token : revoked[k] => revoked'[k]

-----------------------------------------------------------------------------
LEMMA NoRequestType == NoRequest \in Request
  BY DEF NoRequest, Request

LEMMA InitSafe == Init => SafeInv
  <1> SUFFICES ASSUME Init PROVE SafeInv
    OBVIOUS
  <1>1. TypeOK
    BY NoRequestType DEF Init, TypeOK, PC
  <1>2. \A h \in Handler : Sound(h)
    BY DEF Init, Sound, NoRequest
  <1>3. InvitesFit /\ InvitedCanEnter
    BY NoneAssumption DEF Init, InvitesFit, InvitedCanEnter
  <1>4. TokensFit
    BY DEF Init, TokensFit, Created, DeliveredParentRevoked
  <1> QED
    BY <1>1, <1>2, <1>3, <1>4 DEF SafeInv

LEMMA SoundKept ==
  ASSUME TypeOK, Grows, NEW g \in Handler, Sound(g),
         pc'[g] = pc[g], req'[g] = req[g]
  PROVE  Sound(g)'
  <1>1. req[g] \in Request
    BY DEF TypeOK
  <1>2. \A k \in Token : owner[k] # None => owner'[k] = owner[k] /\ parent'[k] = parent[k]
    BY DEF Grows, Created
  <1>3. \A i \in Invite, t \in Tenant : mintedFor[i] = t => mintedFor'[i] = t
    BY NoneAssumption DEF Grows
  <1> QED
    BY <1>1, <1>2, <1>3, NoneAssumption DEF Sound, Request, Grows

LEMMA MoveFrame ==
  ASSUME TypeOK, NEW h \in Handler, NEW label \in PC, NEW r \in Request,
         Goto(h, label), Set(h, r)
  PROVE  /\ pc'[h] = label /\ req'[h] = r
         /\ pc' \in [Handler -> PC] /\ req' \in [Handler -> Request]
         /\ \A g \in Handler \ {h} : pc'[g] = pc[g] /\ req'[g] = req[g]
  BY DEF Goto, Set, TypeOK

LEMMA FinishFrame ==
  ASSUME TypeOK, NEW h \in Handler, Finish(h)
  PROVE  /\ pc'[h] = "idle" /\ req'[h] = NoRequest
         /\ pc' \in [Handler -> PC] /\ req' \in [Handler -> Request]
         /\ \A g \in Handler \ {h} : pc'[g] = pc[g] /\ req'[g] = req[g]
  <1>1. "idle" \in PC
    BY DEF PC
  <1> QED
    BY <1>1, NoRequestType, MoveFrame DEF Finish

(* A handler that moves becomes sound and writes nothing but its place.    *)
LEMMA LookSafe ==
  ASSUME SafeInv, NEW h \in Handler, Sound(h)',
         UNCHANGED <<address, invites, tokens, now>>,
         pc' \in [Handler -> PC], req' \in [Handler -> Request],
         \A g \in Handler \ {h} : pc'[g] = pc[g] /\ req'[g] = req[g]
  PROVE  SafeInv' /\ Grows
  <1>1. Grows
    BY DEF Grows, invites, tokens
  <1>2. TypeOK'
    BY DEF SafeInv, TypeOK, invites, tokens
  <1>3. \A g \in Handler : Sound(g)'
    BY <1>1, SoundKept DEF SafeInv
  <1>4. InvitesFit' /\ InvitedCanEnter' /\ TokensFit'
    BY DEF SafeInv, InvitesFit, InvitedCanEnter, TokensFit, DeliveredParentRevoked,
       Created, invites, tokens
  <1> QED
    BY <1>1, <1>2, <1>3, <1>4 DEF SafeInv

LEMMA FindInviteSafe ==
  ASSUME SafeInv, NEW h \in Handler, NEW t \in Tenant, FindInvite(h, t)
  PROVE  SafeInv' /\ Grows
  <1> DEFINE r == [NoRequest EXCEPT !.tenant = t, !.invite = invite[t]]
  <1>t. TypeOK
    BY DEF SafeInv
  <1>1. invite[t] \in Invite /\ mintedFor[invite[t]] = t
    BY <1>t DEF FindInvite, SafeInv, InvitesFit, TypeOK
  <1>2. r \in Request /\ r.tenant = t /\ r.invite = invite[t] /\ "setPassword" \in PC
    BY <1>1 DEF NoRequest, Request, PC
  <1>3. /\ pc'[h] = "setPassword" /\ req'[h] = r
        /\ pc' \in [Handler -> PC] /\ req' \in [Handler -> Request]
        /\ \A g \in Handler \ {h} : pc'[g] = pc[g] /\ req'[g] = req[g]
    BY <1>t, <1>2, MoveFrame DEF FindInvite
  <1>4. UNCHANGED <<address, invites, tokens, now>>
    BY DEF FindInvite
  <1>5. Sound(h)'
    BY <1>1, <1>2, <1>3, <1>4 DEF Sound, invites
  <1> QED
    BY <1>3, <1>4, <1>5, LookSafe

LEMMA LoginSafe ==
  ASSUME SafeInv, NEW h \in Handler, NEW e \in Email, Login(h, e)
  PROVE  SafeInv' /\ Grows
  <1>t. TypeOK
    BY DEF SafeInv
  <1>1. PICK t \in Tenant : passwordFrom[t] # None /\ Set(h, [NoRequest EXCEPT !.tenant = t])
    BY DEF Login
  <1> DEFINE r == [NoRequest EXCEPT !.tenant = t]
  <1>2. r \in Request /\ r.tenant = t /\ r.old = None /\ "issue" \in PC
    BY DEF NoRequest, Request, PC
  <1>3. /\ pc'[h] = "issue" /\ req'[h] = r
        /\ pc' \in [Handler -> PC] /\ req' \in [Handler -> Request]
        /\ \A g \in Handler \ {h} : pc'[g] = pc[g] /\ req'[g] = req[g]
    BY <1>t, <1>1, <1>2, MoveFrame DEF Login
  <1>4. UNCHANGED <<address, invites, tokens, now>>
    BY DEF Login
  <1>5. Sound(h)'
    BY <1>1, <1>2, <1>3, <1>4 DEF Sound, invites
  <1> QED
    BY <1>3, <1>4, <1>5, LookSafe

LEMMA RefreshSafe ==
  ASSUME SafeInv, NEW h \in Handler, NEW k \in Token, Refresh(h, k)
  PROVE  SafeInv' /\ Grows
  <1> DEFINE r == [NoRequest EXCEPT !.tenant = owner[k], !.old = k]
  <1>t. TypeOK
    BY DEF SafeInv
  <1>1. owner[k] \in Tenant /\ passwordFrom[owner[k]] # None
    BY <1>t DEF Refresh, SafeInv, TokensFit, Created, TypeOK
  <1>2. r \in Request /\ r.tenant = owner[k] /\ r.old = k /\ "issue" \in PC
    BY <1>1 DEF NoRequest, Request, PC
  <1>3. /\ pc'[h] = "issue" /\ req'[h] = r
        /\ pc' \in [Handler -> PC] /\ req' \in [Handler -> Request]
        /\ \A g \in Handler \ {h} : pc'[g] = pc[g] /\ req'[g] = req[g]
    BY <1>t, <1>2, MoveFrame DEF Refresh
  <1>4. UNCHANGED <<address, invites, tokens, now>>
    BY DEF Refresh
  <1>5. Sound(h)'
    BY <1>1, <1>2, <1>3, <1>4 DEF Sound, invites, tokens
  <1> QED
    BY <1>3, <1>4, <1>5, LookSafe

LEMMA AbortSafe ==
  ASSUME SafeInv, NEW h \in Handler, Abort(h)
  PROVE  SafeInv' /\ Grows
  <1>1. TypeOK /\ Finish(h) /\ UNCHANGED <<address, invites, tokens, now>>
    BY DEF Abort, SafeInv
  <1>2. Sound(h)'
    BY <1>1, FinishFrame DEF Sound, NoRequest
  <1> QED
    BY <1>1, <1>2, FinishFrame, LookSafe

-----------------------------------------------------------------------------
(* Steps that write.                                                       *)
LEMMA SetPasswordSafe ==
  ASSUME SafeInv, NEW h \in Handler, SetPassword(h)
  PROVE  SafeInv' /\ Grows
  <1> DEFINE t == req[h].tenant
             i == req[h].invite
  <1>t. TypeOK
    BY DEF SafeInv
  <1>1. t \in Tenant /\ i \in Invite /\ mintedFor[i] = t /\ i # None /\ t # None
    BY NoneAssumption DEF SetPassword, SafeInv, Sound
  <1>2. /\ passwordFrom' = [passwordFrom EXCEPT ![t] = i]
        /\ invite' = [invite EXCEPT ![t] = None]
        /\ inviteEnds' = [inviteEnds EXCEPT ![t] = 0]
        /\ uses' = [uses EXCEPT ![i] = @ + 1]
        /\ UNCHANGED <<address, mintedFor, tokens, now>>
    BY DEF SetPassword
  <1>3. Grows
    BY <1>t, <1>1, <1>2 DEF Grows, TypeOK, tokens
  <1>4. /\ pc'[h] = "idle" /\ req'[h].old = None /\ pc' \in [Handler -> PC] /\ req' \in [Handler -> Request]
        /\ \A g \in Handler \ {h} : pc'[g] = pc[g] /\ req'[g] = req[g]
    BY <1>t, FinishFrame DEF SetPassword, NoRequest
  <1>5. TypeOK'
    <2>1. inviteEnds' \in [Tenant -> Nat]
      BY <1>t, <1>2 DEF TypeOK
    <2>3. uses' \in [Invite -> Nat]
      <3>1. uses \in [Invite -> Nat] /\ uses[i] + 1 \in Nat
        BY <1>t, <1>1 DEF TypeOK
      <3> QED
        BY <1>2, <3>1
    <2>2. /\ passwordFrom' \in [Tenant -> Invite \cup {None}]
          /\ invite' \in [Tenant -> Invite \cup {None}]
      BY <1>t, <1>1, <1>2 DEF TypeOK
    <2> QED
      BY <1>t, <1>2, <1>4, <2>1, <2>2, <2>3 DEF TypeOK, tokens
  <1>6. \A g \in Handler : Sound(g)'
    <2>1. Sound(h)'
      BY <1>4 DEF Sound
    <2> QED
      BY <1>t, <1>3, <1>4, <2>1, SoundKept DEF SafeInv
  <1>7. InvitesFit'
    <2>1. ASSUME NEW u \in Tenant
          PROVE  /\ passwordFrom'[u] # None => mintedFor'[passwordFrom'[u]] = u
                 /\ invite'[u] # None => mintedFor'[invite'[u]] = u /\ uses'[invite'[u]] = 0
      <3>1. CASE u = t
        BY <1>t, <1>1, <1>2, <3>1 DEF TypeOK
      <3>2. CASE u # t
        <4>1. passwordFrom'[u] = passwordFrom[u] /\ invite'[u] = invite[u]
          BY <1>t, <1>2, <3>2 DEF TypeOK
        <4>2. /\ passwordFrom[u] # None => mintedFor[passwordFrom[u]] = u
              /\ invite[u] # None => mintedFor[invite[u]] = u /\ uses[invite[u]] = 0
          BY DEF SafeInv, InvitesFit
        <4>3. invite[u] # None => uses'[invite[u]] = uses[invite[u]]
          BY <1>t, <1>1, <1>2, <3>2, <4>2 DEF TypeOK
        <4> QED
          BY <1>2, <4>1, <4>2, <4>3
      <3> QED
        BY <3>1, <3>2
    <2>2. ASSUME NEW j \in Invite, mintedFor'[j] = None PROVE uses'[j] = 0
      BY <1>t, <1>1, <1>2, <2>2 DEF SafeInv, InvitesFit, TypeOK
    <2> QED
      BY <2>1, <2>2 DEF InvitesFit
  <1>8. InvitedCanEnter'
    BY <1>t, <1>1, <1>2 DEF SafeInv, InvitedCanEnter, TypeOK
  <1>9. TokensFit'
    BY <1>t, <1>1, <1>2 DEF SafeInv, TokensFit, DeliveredParentRevoked, Created, TypeOK, tokens
  <1> QED
    BY <1>3, <1>5, <1>6, <1>7, <1>8, <1>9 DEF SafeInv

LEMMA IssueTokensSafe ==
  ASSUME SafeInv, NEW h \in Handler, IssueTokens(h)
  PROVE  SafeInv' /\ Grows
  <1>t. TypeOK /\ req[h] \in Request
    BY DEF SafeInv, TypeOK
  <1>1. PICK k \in Token \ Created :
           /\ owner' = [owner EXCEPT ![k] = req[h].tenant]
           /\ expiresAt' = [expiresAt EXCEPT ![k] = now + Lifetime]
           /\ parent' = [parent EXCEPT ![k] = req[h].old]
           /\ Set(h, [req[h] EXCEPT !.new = k])
    BY DEF IssueTokens
  <1> DEFINE r == [req[h] EXCEPT !.new = k]
             label == IF req[h].old = None THEN "respond" ELSE "revoke"
  <1>2. /\ r \in Request /\ r.new = k /\ r.tenant = req[h].tenant /\ r.old = req[h].old
        /\ label \in PC
    BY <1>t DEF Request, PC
  <1>3. /\ pc'[h] = label /\ req'[h] = r
        /\ pc' \in [Handler -> PC] /\ req' \in [Handler -> Request]
        /\ \A g \in Handler \ {h} : pc'[g] = pc[g] /\ req'[g] = req[g]
    BY <1>t, <1>1, <1>2, MoveFrame DEF IssueTokens
  <1>4. UNCHANGED <<address, invites, revoked, held, now>>
    BY DEF IssueTokens
  <1>5. /\ req[h].tenant \in Tenant /\ passwordFrom[req[h].tenant] # None
        /\ req[h].old # None => req[h].old \in Token /\ owner[req[h].old] = req[h].tenant
    BY <1>t DEF IssueTokens, SafeInv, Sound, Request
  <1>6. Grows
    BY <1>t, <1>1, <1>4 DEF Grows, Created, TypeOK, invites
  <1>7. TypeOK'
    <2>1. now + Lifetime \in Nat /\ req[h].old \in Token \cup {None}
      BY <1>t, TimeAssumption DEF TypeOK, Request
    <2>2. /\ owner' \in [Token -> Tenant \cup {None}] /\ expiresAt' \in [Token -> Nat]
          /\ parent' \in [Token -> Token \cup {None}]
      BY <1>t, <1>1, <1>5, <2>1 DEF TypeOK
    <2> QED
      BY <1>t, <1>3, <1>4, <2>2 DEF TypeOK, invites
  <1>8. owner'[k] = req[h].tenant /\ parent'[k] = req[h].old
    BY <1>t, <1>1 DEF TypeOK
  <1>9. Sound(h)'
    <2>1. req[h].old # None => owner'[req[h].old] = req[h].tenant
      BY <1>5, <1>6, NoneAssumption DEF Grows, Created
    <2>2. passwordFrom' = passwordFrom
      BY <1>4 DEF invites
    <2> QED
      BY <1>2, <1>3, <1>5, <1>8, <2>1, <2>2 DEF Sound
  <1>10. \A g \in Handler : Sound(g)'
    BY <1>t, <1>3, <1>6, <1>9, SoundKept DEF SafeInv
  <1>11. InvitesFit' /\ InvitedCanEnter'
    BY <1>4 DEF SafeInv, InvitesFit, InvitedCanEnter, invites
  <1>12. TokensFit'
    <2>1. \A x \in Created : owner'[x] = owner[x] /\ parent'[x] = parent[x]
      BY <1>6 DEF Grows
    <2>2. \A x \in Created' : x = k \/ x \in Created
      BY <1>t, <1>1 DEF Created, TypeOK
    <2>3. held' \subseteq Created'
      BY <1>4, <2>1 DEF SafeInv, TokensFit, Created
    <2>4. \A x \in Created' : passwordFrom'[owner'[x]] # None
      BY <1>4, <1>5, <1>8, <2>1, <2>2 DEF SafeInv, TokensFit, invites
    <2>5. DeliveredParentRevoked'
      BY <1>4, <2>1 DEF SafeInv, TokensFit, DeliveredParentRevoked
    <2> QED
      BY <2>3, <2>4, <2>5 DEF TokensFit
  <1> QED
    BY <1>6, <1>7, <1>10, <1>11, <1>12 DEF SafeInv

LEMMA RevokeOldSafe ==
  ASSUME SafeInv, NEW h \in Handler, RevokeOld(h)
  PROVE  SafeInv' /\ Grows
  <1>t. TypeOK /\ req[h] \in Request
    BY DEF SafeInv, TypeOK
  <1>1. /\ revoked' = [revoked EXCEPT ![req[h].old] = TRUE]
        /\ pc' = [pc EXCEPT ![h] = "respond"] /\ req' = req
        /\ UNCHANGED <<address, invites, owner, expiresAt, parent, held, now>>
        /\ pc[h] = "revoke" /\ req[h].old \in Token
    BY <1>t DEF RevokeOld, Goto, SafeInv, Sound, Request
  <1>2. Grows
    BY <1>t, <1>1 DEF Grows, TypeOK, invites
  <1>3. TypeOK'
    BY <1>t, <1>1 DEF TypeOK, PC, invites
  <1>4. Sound(h)'
    BY <1>t, <1>1 DEF SafeInv, Sound, TypeOK, invites
  <1>5. \A g \in Handler : Sound(g)'
    BY <1>t, <1>1, <1>2, <1>4, SoundKept DEF SafeInv, TypeOK
  <1>6. InvitesFit' /\ InvitedCanEnter'
    BY <1>1 DEF SafeInv, InvitesFit, InvitedCanEnter, invites
  <1>7. TokensFit'
    <2>1. \A k \in held : parent[k] \in Token \cup {None}
      BY <1>t DEF TypeOK
    <2> QED
      BY <1>1, <1>2, <2>1 DEF SafeInv, TokensFit, DeliveredParentRevoked, Created, Grows, invites
  <1> QED
    BY <1>2, <1>3, <1>5, <1>6, <1>7 DEF SafeInv

LEMMA RespondSafe ==
  ASSUME SafeInv, NEW h \in Handler, Respond(h)
  PROVE  SafeInv' /\ Grows
  <1>t. TypeOK
    BY DEF SafeInv
  <1>1. /\ held' = held \cup {req[h].new}
        /\ UNCHANGED <<address, invites, owner, expiresAt, revoked, parent, now>>
        /\ req[h].new \in Token /\ req[h].new \in Created
        /\ parent[req[h].new] # None => revoked[parent[req[h].new]]
    BY NoneAssumption DEF Respond, SafeInv, Sound, Created
  <1>2. Grows
    BY <1>1 DEF Grows, invites
  <1>3. /\ pc'[h] = "idle" /\ req'[h].old = None /\ pc' \in [Handler -> PC] /\ req' \in [Handler -> Request]
        /\ \A g \in Handler \ {h} : pc'[g] = pc[g] /\ req'[g] = req[g]
    BY <1>t, FinishFrame DEF Respond, NoRequest
  <1>4. TypeOK'
    BY <1>t, <1>1, <1>3 DEF TypeOK, invites
  <1>5. \A g \in Handler : Sound(g)'
    <2>1. Sound(h)'
      BY <1>3 DEF Sound
    <2> QED
      BY <1>t, <1>2, <1>3, <2>1, SoundKept DEF SafeInv
  <1>6. InvitesFit' /\ InvitedCanEnter'
    BY <1>1 DEF SafeInv, InvitesFit, InvitedCanEnter, invites
  <1>7. TokensFit'
    BY <1>1 DEF SafeInv, TokensFit, DeliveredParentRevoked, Created, invites
  <1> QED
    BY <1>2, <1>4, <1>5, <1>6, <1>7 DEF SafeInv

-----------------------------------------------------------------------------
(* Single calls, with no handler waiting in between.                       *)
LEMMA LogoutSafe ==
  ASSUME SafeInv, NEW k \in Token, Logout(k)
  PROVE  SafeInv' /\ Grows
  <1>t. TypeOK
    BY DEF SafeInv
  <1>1. /\ revoked' = [revoked EXCEPT ![k] = TRUE]
        /\ UNCHANGED <<address, invites, owner, expiresAt, parent, held, now, pc, req>>
    BY DEF Logout
  <1>2. Grows
    BY <1>t, <1>1 DEF Grows, TypeOK, invites
  <1>3. TypeOK'
    BY <1>t, <1>1 DEF TypeOK, invites
  <1>4. \A g \in Handler : Sound(g)'
    BY <1>t, <1>1, <1>2, SoundKept DEF SafeInv
  <1>5. InvitesFit' /\ InvitedCanEnter'
    BY <1>1 DEF SafeInv, InvitesFit, InvitedCanEnter, invites
  <1>6. TokensFit'
    <2>1. \A x \in held : parent[x] \in Token \cup {None}
      BY <1>t DEF TypeOK
    <2> QED
      BY <1>1, <1>2, <2>1 DEF SafeInv, TokensFit, DeliveredParentRevoked, Created, Grows, invites
  <1> QED
    BY <1>2, <1>3, <1>4, <1>5, <1>6 DEF SafeInv

LEMMA CreateInviteSafe ==
  ASSUME SafeInv, NEW t \in Tenant, CreateInvite(t)
  PROVE  SafeInv' /\ Grows
  <1>t. TypeOK
    BY DEF SafeInv
  <1>1. PICK i \in Invite : /\ mintedFor[i] = None
                            /\ mintedFor' = [mintedFor EXCEPT ![i] = t]
                            /\ invite' = [invite EXCEPT ![t] = i]
    BY DEF CreateInvite
  <1>2. /\ inviteEnds' = [inviteEnds EXCEPT ![t] = now + InviteLifetime]
        /\ UNCHANGED <<address, passwordFrom, uses, tokens, now, pc, req>>
    BY DEF CreateInvite
  <1>3. Grows
    BY <1>t, <1>1, <1>2 DEF Grows, TypeOK, tokens
  <1>4. TypeOK'
    <2>1. inviteEnds' \in [Tenant -> Nat]
      BY <1>t, <1>2, TimeAssumption DEF TypeOK
    <2>2. /\ mintedFor' \in [Invite -> Tenant \cup {None}]
          /\ invite' \in [Tenant -> Invite \cup {None}]
      BY <1>t, <1>1 DEF TypeOK
    <2> QED
      BY <1>t, <1>2, <2>1, <2>2 DEF TypeOK, tokens
  <1>5. \A g \in Handler : Sound(g)'
    BY <1>t, <1>2, <1>3, SoundKept DEF SafeInv
  <1>6. InvitesFit'
    <2>1. uses[i] = 0 /\ mintedFor'[i] = t /\ t # None
      BY <1>t, <1>1, NoneAssumption DEF SafeInv, InvitesFit, TypeOK
    <2>2. ASSUME NEW u \in Tenant
          PROVE  /\ passwordFrom'[u] # None => mintedFor'[passwordFrom'[u]] = u
                 /\ invite'[u] # None => mintedFor'[invite'[u]] = u /\ uses'[invite'[u]] = 0
      <3>0. u # None /\ passwordFrom'[u] = passwordFrom[u] /\ uses' = uses
        BY <1>2, NoneAssumption
      <3>1. /\ passwordFrom[u] # None => mintedFor[passwordFrom[u]] = u
            /\ invite[u] # None => mintedFor[invite[u]] = u /\ uses[invite[u]] = 0
        BY DEF SafeInv, InvitesFit
      <3>2. passwordFrom[u] # None => mintedFor'[passwordFrom[u]] = u
        BY <1>t, <1>3, <3>0, <3>1 DEF Grows, TypeOK
      <3>3. CASE u = t
        BY <1>t, <1>1, <2>1, <3>0, <3>2, <3>3 DEF TypeOK
      <3>4. CASE u # t
        <4>1. invite'[u] = invite[u]
          BY <1>t, <1>1, <3>4 DEF TypeOK
        <4>2. invite[u] # None => mintedFor'[invite[u]] = u
          BY <1>t, <1>3, <3>0, <3>1 DEF Grows, TypeOK
        <4> QED
          BY <3>0, <3>1, <3>2, <4>1, <4>2
      <3> QED
        BY <3>3, <3>4
    <2>3. ASSUME NEW j \in Invite, mintedFor'[j] = None PROVE uses'[j] = 0
      BY <1>t, <1>1, <1>2, <2>1, <2>3 DEF SafeInv, InvitesFit, TypeOK
    <2> QED
      BY <2>2, <2>3 DEF InvitesFit
  <1>7. InvitedCanEnter'
    BY <1>t, <1>1, <1>2, NoneAssumption DEF SafeInv, InvitedCanEnter, TypeOK
  <1>8. TokensFit'
    BY <1>2 DEF SafeInv, TokensFit, DeliveredParentRevoked, Created, tokens
  <1> QED
    BY <1>3, <1>4, <1>5, <1>6, <1>7, <1>8 DEF SafeInv

(* Writing an address, letting time pass and doing nothing.                *)
LEMMA IdleSafe ==
  ASSUME SafeInv, UNCHANGED <<invites, tokens, pc, req>>,
         address' \in [Tenant -> Email \cup {None}], now' \in Nat
  PROVE  SafeInv' /\ Grows
  <1>1. Grows
    BY DEF Grows, invites, tokens
  <1>2. TypeOK'
    BY DEF SafeInv, TypeOK, invites, tokens
  <1>3. \A g \in Handler : Sound(g)'
    BY <1>1, SoundKept DEF SafeInv
  <1>4. InvitesFit' /\ InvitedCanEnter' /\ TokensFit'
    BY DEF SafeInv, InvitesFit, InvitedCanEnter, TokensFit, DeliveredParentRevoked,
       Created, invites, tokens
  <1> QED
    BY <1>1, <1>2, <1>3, <1>4 DEF SafeInv

-----------------------------------------------------------------------------
LEMMA NextSafe == SafeInv /\ [Next]_vars => SafeInv' /\ Grows
  <1> SUFFICES ASSUME SafeInv, [Next]_vars PROVE SafeInv' /\ Grows
    OBVIOUS
  <1>t. TypeOK
    BY DEF SafeInv
  <1>1. ASSUME NEW t \in Tenant, WriteTenant(t) PROVE SafeInv' /\ Grows
    BY <1>1, <1>t, IdleSafe DEF WriteTenant, TypeOK
  <1>2. CASE Tick
    BY <1>2, <1>t, IdleSafe DEF Tick, TypeOK
  <1>3. CASE UNCHANGED vars
    BY <1>3, <1>t, IdleSafe DEF vars, TypeOK
  <1> QED
    BY <1>1, <1>2, <1>3, FindInviteSafe, LoginSafe, RefreshSafe, AbortSafe,
       SetPasswordSafe, IssueTokensSafe, RevokeOldSafe, RespondSafe, LogoutSafe,
       CreateInviteSafe DEF Next, Begin, Step

LEMMA Safety == Spec => []SafeInv
  BY InitSafe, NextSafe, PTL DEF Spec

(* Every row, request and clock reading has its type.                      *)
THEOREM TypeCorrect == Spec => []TypeOK
  BY Safety, PTL DEF SafeInv

(* No order of invites and acceptances, and no cut-off, leaves an invited  *)
(* tenant without an invite and without a password.                        *)
THEOREM InvitedAreNotLockedOut == Spec => []InvitedCanEnter
  BY Safety, PTL DEF SafeInv

(* Every session is one of a tenant whose password was set with an invite  *)
(* of that tenant.                                                         *)
THEOREM SessionsAreInvited == Spec => []SessionsRestOnInvites
  <1>1. SafeInv => SessionsRestOnInvites
    BY DEF SafeInv, TokensFit, InvitesFit, SessionsRestOnInvites, Created, TypeOK
  <1> QED
    BY <1>1, Safety, PTL

(* A client that holds a rotated token cannot use the one it came from.    *)
THEOREM NoLiveTwins == Spec => []DeliveredParentRevoked
  BY Safety, PTL DEF SafeInv, TokensFit

(* Hence a refresh that begins with a token already exchanged is refused.  *)
THEOREM SpentTokensAreRefused == Spec => SpentTokensRefused
  <1> DEFINE A == \A h \in Handler, k \in held :
          pc[h] = "idle" /\ req'[h].old # None => parent[k] # req'[h].old
  <1>1. ASSUME SafeInv, Next PROVE A
    <2> SUFFICES ASSUME NEW h \in Handler, NEW k \in held,
                        pc[h] = "idle", req'[h].old # None
                 PROVE  parent[k] # req'[h].old
      OBVIOUS
    <2>t. TypeOK
      BY <1>1 DEF SafeInv
    <2>1. req'[h] # req[h]
      BY <1>1 DEF SafeInv, Sound
    <2>2. PICK p \in Token : Refresh(h, p)
      <3>1. ASSUME NEW g \in Handler, Begin(g) \/ Step(g) \/ Abort(g) PROVE g = h
        BY <2>t, <2>1, <3>1 DEF Begin, FindInvite, Login, Refresh, Step, SetPassword,
           IssueTokens, RevokeOld, Respond, Abort, Finish, Set, TypeOK
      <3>2. Begin(h)
        BY <1>1, <2>1, <3>1 DEF Next, WriteTenant, CreateInvite, Logout, Tick, Step,
           SetPassword, IssueTokens, RevokeOld, Respond, Abort
      <3>3. ASSUME NEW r, Set(h, r) PROVE req'[h] = r
        BY <2>t, <3>3 DEF Set, TypeOK
      <3> QED
        BY <3>2, <3>3 DEF Begin, FindInvite, Login, NoRequest
    <2>3. req'[h].old = p /\ ~revoked[p]
      BY <2>t, <2>2, NoneAssumption DEF Refresh, Usable, Set, NoRequest, TypeOK
    <2> QED
      BY <1>1, <2>3 DEF SafeInv, TokensFit, DeliveredParentRevoked
  <1>2. SafeInv /\ [Next]_vars => [A]_vars
    BY <1>1
  <1> QED
    BY <1>2, Safety, PTL DEF Spec, SpentTokensRefused

-----------------------------------------------------------------------------
(* How many passwords an invite can set.  The requests about to set one,   *)
(* with the passwords set already, never outnumber the requests in flight: *)
(* a request joins only while the invite is pending, so before any use.    *)
Setters(i) == {h \in Handler : pc[h] = "setPassword" /\ req[h].invite = i}

UsesInv == \A i \in Invite : uses[i] + Cardinality(Setters(i)) <= Cardinality(Handler)

LEMMA SettersCount ==
  ASSUME NEW n \in Nat, NEW m \in Nat,
         NEW S, S \subseteq Handler, NEW T, T \subseteq Handler,
         n + Cardinality(S) <= Cardinality(Handler),
         \/ m = n /\ (n = 0 \/ T \subseteq S)
         \/ m = n + 1 /\ \E h \in S : T \subseteq S \ {h}
  PROVE  m + Cardinality(T) <= Cardinality(Handler)
  <1>1. /\ IsFiniteSet(S) /\ Cardinality(S) \in Nat /\ Cardinality(T) \in Nat
        /\ Cardinality(Handler) \in Nat /\ Cardinality(T) <= Cardinality(Handler)
    BY HandlerAssumption, FS_Subset, FS_CardinalityType
  <1>2. CASE m = n /\ n = 0
    BY <1>1, <1>2
  <1>3. CASE m = n /\ T \subseteq S
    <2>1. Cardinality(T) <= Cardinality(S)
      BY <1>1, <1>3, FS_Subset
    <2> QED
      BY <1>1, <1>3, <2>1
  <1>4. ASSUME m = n + 1, NEW h \in S, T \subseteq S \ {h}
        PROVE  m + Cardinality(T) <= Cardinality(Handler)
    <2>1. IsFiniteSet(S \ {h}) /\ Cardinality(S \ {h}) = Cardinality(S) - 1
      BY <1>1, FS_RemoveElement
    <2>2. Cardinality(T) <= Cardinality(S \ {h})
      BY <1>4, <2>1, FS_Subset
    <2> QED
      BY <1>1, <1>4, <2>1, <2>2
  <1> QED
    BY <1>2, <1>3, <1>4

LEMMA InitUses == Init => UsesInv
  <1> SUFFICES ASSUME Init, NEW i \in Invite
               PROVE  uses[i] + Cardinality(Setters(i)) <= Cardinality(Handler)
    BY DEF UsesInv
  <1>1. Setters(i) = {} /\ uses[i] = 0
    BY DEF Init, Setters
  <1>2. Cardinality({}) = 0 /\ Cardinality(Handler) \in Nat
    BY HandlerAssumption, FS_EmptySet, FS_CardinalityType
  <1> QED
    BY <1>1, <1>2

(* How a step changes the uses of an invite and those about to use it.     *)
LEMMA SettersStep ==
  ASSUME SafeInv, [Next]_vars, NEW i \in Invite
  PROVE  \/ uses'[i] = uses[i] /\ (uses[i] = 0 \/ Setters(i)' \subseteq Setters(i))
         \/ uses'[i] = uses[i] + 1 /\ \E h \in Setters(i) : Setters(i)' \subseteq Setters(i) \ {h}
  <1> DEFINE Goal ==
         \/ uses'[i] = uses[i] /\ (uses[i] = 0 \/ Setters(i)' \subseteq Setters(i))
         \/ uses'[i] = uses[i] + 1 /\ \E h \in Setters(i) : Setters(i)' \subseteq Setters(i) \ {h}
  <1>t. TypeOK
    BY DEF SafeInv
  <1>1. CASE uses' = uses /\ pc' = pc /\ req' = req
    BY <1>1 DEF Setters
  <1>2. ASSUME NEW h \in Handler, uses' = uses, pc'[h] # "setPassword",
               \A g \in Handler \ {h} : pc'[g] = pc[g] /\ req'[g] = req[g]
        PROVE  Goal
    BY <1>2 DEF Setters
  <1>3. ASSUME NEW h \in Handler, NEW label, NEW r, Goto(h, label), Set(h, r)
        PROVE  /\ pc'[h] = label /\ req'[h] = r
               /\ \A g \in Handler \ {h} : pc'[g] = pc[g] /\ req'[g] = req[g]
    BY <1>3, <1>t DEF Goto, Set, TypeOK
  <1>4. ASSUME NEW h \in Handler, NEW t \in Tenant, FindInvite(h, t) PROVE Goal
    <2>1. /\ uses' = uses
          /\ req'[h].invite = invite[t]
          /\ \A g \in Handler \ {h} : pc'[g] = pc[g] /\ req'[g] = req[g]
      <3> DEFINE r == [NoRequest EXCEPT !.tenant = t, !.invite = invite[t]]
      <3>1. r.invite = invite[t]
        BY DEF NoRequest
      <3> QED
        BY <1>3, <1>4, <3>1 DEF FindInvite, invites
    <2>2. CASE invite[t] = i
      <3>1. uses[i] = 0
        BY <1>4, <2>2 DEF FindInvite, SafeInv, InvitesFit
      <3> QED
        BY <2>1, <3>1
    <2>3. CASE invite[t] # i
      BY <2>1, <2>3 DEF Setters
    <2> QED
      BY <2>2, <2>3
  <1>5. ASSUME NEW h \in Handler, SetPassword(h) PROVE Goal
    <2>1. /\ pc[h] = "setPassword" /\ pc'[h] = "idle" /\ req[h].invite \in Invite
          /\ uses' = [uses EXCEPT ![req[h].invite] = @ + 1]
          /\ \A g \in Handler \ {h} : pc'[g] = pc[g] /\ req'[g] = req[g]
      BY <1>5, <1>t, FinishFrame DEF SetPassword, SafeInv, Sound
    <2>2. CASE req[h].invite = i
      <3>1. uses'[i] = uses[i] + 1
        BY <1>t, <2>1, <2>2 DEF TypeOK
      <3>2. h \in Setters(i) /\ Setters(i)' \subseteq Setters(i) \ {h}
        BY <2>1, <2>2 DEF Setters
      <3> QED
        BY <3>1, <3>2
    <2>3. CASE req[h].invite # i
      <3>1. uses'[i] = uses[i]
        BY <1>t, <2>1, <2>3 DEF TypeOK
      <3>2. Setters(i)' \subseteq Setters(i)
        BY <2>1 DEF Setters
      <3> QED
        BY <3>1, <3>2
    <2> QED
      BY <2>2, <2>3
  <1>6. ASSUME NEW h \in Handler, NEW e \in Email, Login(h, e) PROVE Goal
    <2>1. uses' = uses /\ pc'[h] = "issue"
          /\ \A g \in Handler \ {h} : pc'[g] = pc[g] /\ req'[g] = req[g]
      BY <1>3, <1>6 DEF Login, invites
    <2> QED
      BY <1>2, <2>1
  <1>7. ASSUME NEW h \in Handler, NEW k \in Token, Refresh(h, k) PROVE Goal
    <2>1. uses' = uses /\ pc'[h] = "issue"
          /\ \A g \in Handler \ {h} : pc'[g] = pc[g] /\ req'[g] = req[g]
      BY <1>3, <1>7 DEF Refresh, invites
    <2> QED
      BY <1>2, <2>1
  <1>8. ASSUME NEW h \in Handler, IssueTokens(h) PROVE Goal
    <2>1. uses' = uses /\ pc'[h] # "setPassword"
          /\ \A g \in Handler \ {h} : pc'[g] = pc[g] /\ req'[g] = req[g]
      BY <1>3, <1>8 DEF IssueTokens, invites
    <2> QED
      BY <1>2, <2>1
  <1>9. ASSUME NEW h \in Handler, RevokeOld(h) PROVE Goal
    <2>1. uses' = uses /\ pc'[h] # "setPassword"
          /\ \A g \in Handler \ {h} : pc'[g] = pc[g] /\ req'[g] = req[g]
      BY <1>9, <1>t DEF RevokeOld, Goto, TypeOK, invites
    <2> QED
      BY <1>2, <2>1
  <1>10. ASSUME NEW h \in Handler, Respond(h) \/ Abort(h) PROVE Goal
    <2>1. uses' = uses /\ Finish(h)
      BY <1>10 DEF Respond, Abort, invites
    <2> QED
      BY <1>2, <1>t, <2>1, FinishFrame
  <1>11. ASSUME NEW t \in Tenant, WriteTenant(t) \/ CreateInvite(t)
         PROVE  uses' = uses /\ pc' = pc /\ req' = req
    BY <1>11 DEF WriteTenant, CreateInvite, invites
  <1>12. ASSUME \/ \E k \in Token : Logout(k)
                \/ Tick \/ UNCHANGED vars
         PROVE  uses' = uses /\ pc' = pc /\ req' = req
    BY <1>12 DEF Logout, Tick, vars, invites
  <1> QED
    BY <1>1, <1>4, <1>5, <1>6, <1>7, <1>8, <1>9, <1>10, <1>11, <1>12
       DEF Next, Begin, Step

LEMMA NextUses == SafeInv /\ SafeInv' /\ UsesInv /\ [Next]_vars => UsesInv'
  <1> SUFFICES ASSUME SafeInv, SafeInv', UsesInv, [Next]_vars, NEW i \in Invite
               PROVE  uses'[i] + Cardinality(Setters(i)') <= Cardinality(Handler)
    BY DEF UsesInv
  <1>1. /\ uses[i] \in Nat /\ uses'[i] \in Nat
        /\ Setters(i) \subseteq Handler /\ Setters(i)' \subseteq Handler
        /\ uses[i] + Cardinality(Setters(i)) <= Cardinality(Handler)
    BY DEF SafeInv, TypeOK, Setters, UsesInv
  <1> QED
    BY <1>1, SettersStep, SettersCount

(* An invite is good for the requests that overlap its first use, at most. *)
THEOREM InvitesAreSpent == Spec => []InviteUsesBounded
  <1>1. SafeInv /\ UsesInv => InviteUsesBounded
    <2> SUFFICES ASSUME SafeInv, UsesInv, NEW i \in Invite
                 PROVE  uses[i] <= Cardinality(Handler)
      BY DEF InviteUsesBounded
    <2>1. Setters(i) \subseteq Handler
      BY DEF Setters
    <2>2. uses[i] \in Nat /\ Cardinality(Setters(i)) \in Nat /\ Cardinality(Handler) \in Nat
      BY <2>1, HandlerAssumption, FS_Subset, FS_CardinalityType DEF SafeInv, TypeOK
    <2> QED
      BY <2>2 DEF UsesInv
  <1>2. Init => UsesInv
    BY InitUses
  <1>3. UsesInv /\ SafeInv /\ SafeInv' /\ [Next]_vars => UsesInv'
    BY NextUses
  <1> QED
    BY <1>1, <1>2, <1>3, Safety, PTL DEF Spec

(* "One-time invite token" (tenant-auth.service.ts:22) is kept when        *)
(* requests are served one at a time, wherever they are cut off: only      *)
(* acceptances that overlap use an invite more than once.                  *)
THEOREM InvitesOnceInTurn ==
    ASSUME Cardinality(Handler) = 1 PROVE Spec => [](\A i \in Invite : uses[i] <= 1)
  <1>1. InviteUsesBounded => \A i \in Invite : uses[i] <= 1
    BY DEF InviteUsesBounded
  <1> QED
    BY <1>1, InvitesAreSpent, PTL
-----------------------------------------------------------------------------
(* What rotating sessions rests on: a request remembers a token some       *)
(* client was answered with, and what it issued no client and no other     *)
(* request has.                                                            *)
SessionInv ==
    /\ \A h \in Handler :
          /\ req[h].old # None =>
                /\ pc[h] \in {"issue", "revoke", "respond"}
                /\ req[h].old \in held
          /\ req[h].new # None =>
                /\ pc[h] \in {"revoke", "respond"}
                /\ req[h].new \notin held
    /\ \A g, h \in Handler : req[g].new = req[h].new /\ req[h].new # None => g = h

SessionStep == [Sessions!Next]_(Sessions!sessions)

LEMMA InitSession == Init => SessionInv /\ Sessions!Init
  BY DEF Init, SessionInv, NoRequest, Sessions!Init

LEMMA Frame ==
  ASSUME TypeOK, NEW h \in Handler
  PROVE  /\ \A label, r : Goto(h, label) /\ Set(h, r) =>
               /\ pc'[h] = label /\ req'[h] = r
               /\ \A g \in Handler \ {h} : pc'[g] = pc[g] /\ req'[g] = req[g]
         /\ \A label : Goto(h, label) /\ UNCHANGED req =>
               /\ pc'[h] = label /\ req'[h] = req[h]
               /\ \A g \in Handler \ {h} : pc'[g] = pc[g] /\ req'[g] = req[g]
         /\ Finish(h) =>
               /\ pc'[h] = "idle" /\ req'[h] = NoRequest
               /\ \A g \in Handler \ {h} : pc'[g] = pc[g] /\ req'[g] = req[g]
  BY DEF Goto, Set, Finish, TypeOK

(* A handler that moves on without a call to the token table stutters.     *)
LEMMA Quiet ==
  ASSUME SessionInv, NEW h \in Handler,
         UNCHANGED <<owner, revoked, parent, held>>,
         \A g \in Handler \ {h} : pc'[g] = pc[g] /\ req'[g] = req[g],
         req'[h].old = req[h].old, req'[h].new = req[h].new,
         req[h].old # None => pc'[h] \in {"issue", "revoke", "respond"},
         req[h].new # None => pc'[h] \in {"revoke", "respond"}
  PROVE  SessionInv' /\ SessionStep
  <1>1. \A g \in Handler : req'[g].old = req[g].old /\ req'[g].new = req[g].new
    OBVIOUS
  <1>2. SessionInv'
    BY <1>1 DEF SessionInv
  <1>3. UNCHANGED Sessions!sessions
    BY <1>1 DEF Sessions!sessions
  <1> QED
    BY <1>2, <1>3 DEF SessionStep

(* Giving back what a request was shown and what it issued.                *)
LEMMA Closing ==
  ASSUME NEW h \in Handler, req'[h] = NoRequest,
         \A g \in Handler \ {h} : req'[g] = req[g]
  PROVE  Sessions!Close(h)
  <1>1. NoRequest.old = None /\ NoRequest.new = None
    BY DEF NoRequest
  <1>2. \A g \in Handler :
           /\ req'[g].old = IF g = h THEN None ELSE req[g].old
           /\ req'[g].new = IF g = h THEN None ELSE req[g].new
    BY <1>1
  <1> QED
    BY <1>2 DEF Sessions!Close

LEMMA Closed ==
  ASSUME SessionInv, NEW h \in Handler,
         UNCHANGED <<owner, revoked, parent, held>>,
         \A g \in Handler \ {h} : pc'[g] = pc[g] /\ req'[g] = req[g],
         req'[h] = NoRequest
  PROVE  SessionInv' /\ SessionStep
  <1>1. NoRequest.old = None /\ NoRequest.new = None
    BY DEF NoRequest
  <1>2. SessionInv'
    BY <1>1 DEF SessionInv
  <1>3. Sessions!Abandon(h)
    BY Closing DEF Sessions!Abandon
  <1> QED
    BY <1>2, <1>3 DEF SessionStep, Sessions!Next

LEMMA RefreshRotates ==
  ASSUME SafeInv, SessionInv, NEW h \in Handler, NEW t \in Token, Refresh(h, t)
  PROVE  SessionInv' /\ SessionStep
  <1> DEFINE r == [NoRequest EXCEPT !.tenant = owner[t], !.old = t]
  <1>1. r.old = t /\ r.new = None
    BY DEF NoRequest
  <1> HIDE DEF r
  <1>2. /\ pc'[h] = "issue" /\ req'[h] = r
        /\ \A g \in Handler \ {h} : pc'[g] = pc[g] /\ req'[g] = req[g]
    BY Frame DEF Refresh, SafeInv, r
  <1>3. /\ UNCHANGED <<owner, revoked, parent, held>> /\ t \in held /\ ~revoked[t]
        /\ pc[h] = "idle"
    BY DEF Refresh, Usable, tokens
  <1>4. req[h].old = None /\ req[h].new = None
    BY <1>3 DEF SessionInv
  <1>5. SessionInv'
    BY <1>1, <1>2, <1>3 DEF SessionInv
  <1>6. \A g \in Handler : /\ req'[g].old = IF g = h THEN t ELSE req[g].old
                           /\ req'[g].new = req[g].new
    BY <1>1, <1>2, <1>4
  <1>7. Sessions!Present(h, t)
    BY <1>3, <1>4, <1>6 DEF Sessions!Present
  <1> QED
    BY <1>5, <1>7 DEF SessionStep, Sessions!Next

LEMMA IssueTokensRotates ==
  ASSUME SafeInv, SessionInv, NEW h \in Handler, IssueTokens(h)
  PROVE  SessionInv' /\ SessionStep
  <1>1. PICK t \in Token \ Created :
           /\ owner' = [owner EXCEPT ![t] = req[h].tenant]
           /\ parent' = [parent EXCEPT ![t] = req[h].old]
           /\ Set(h, [req[h] EXCEPT !.new = t])
    BY DEF IssueTokens
  <1>2. req[h] \in Request
    BY DEF SafeInv, TypeOK
  <1> DEFINE r == [req[h] EXCEPT !.new = t]
  <1>3. r.old = req[h].old /\ r.new = t
    BY <1>2 DEF Request
  <1> HIDE DEF r
  <1>4. /\ pc'[h] \in {"respond", "revoke"} /\ req'[h] = r
        /\ req[h].old # None => pc'[h] = "revoke"
        /\ \A g \in Handler \ {h} : pc'[g] = pc[g] /\ req'[g] = req[g]
    BY <1>1, Frame DEF IssueTokens, SafeInv, r
  <1>5. UNCHANGED <<revoked, held>> /\ pc[h] = "issue"
    BY DEF IssueTokens
  <1>6. /\ owner[t] = None /\ t # None /\ t \notin held
        /\ req[h].tenant \in Tenant /\ (req[h].old # None => owner[req[h].old] = req[h].tenant)
    BY <1>1, <1>5, NoneAssumption DEF Created, SafeInv, Sound, TokensFit
  <1>7. req[h].new = None /\ (req[h].old # None => req[h].old \in held)
    BY <1>5 DEF SessionInv
  <1>8. \A g \in Handler : req[g].new # t
    <2> SUFFICES ASSUME NEW g \in Handler, req[g].new = t PROVE FALSE
      OBVIOUS
    <2>1. pc[g] \in {"revoke", "respond"}
      BY <1>6 DEF SessionInv
    <2>2. owner[t] \in Tenant
      BY <2>1 DEF SafeInv, Sound
    <2> QED
      BY <1>6, <2>2, NoneAssumption
  <1>9. SessionInv'
    BY <1>3, <1>4, <1>5, <1>6, <1>7, <1>8 DEF SessionInv
  <1>10. \A g \in Handler : /\ req'[g].new = IF g = h THEN t ELSE req[g].new
                            /\ req'[g].old = req[g].old
    BY <1>3, <1>4
  <1>11. PICK u \in Tenant : u = req[h].tenant
    BY <1>6
  <1>12. Sessions!Issue(h, t, u)
    BY <1>1, <1>5, <1>6, <1>7, <1>10, <1>11 DEF Sessions!Issue
  <1>13. Sessions!Next
    BY <1>12 DEF Sessions!Next
  <1> QED
    BY <1>9, <1>13 DEF SessionStep

LEMMA RevokeRotates ==
  ASSUME SafeInv, SessionInv, NEW h \in Handler, RevokeOld(h)
  PROVE  SessionInv' /\ SessionStep
  <1>1. /\ pc'[h] = "respond" /\ req' = req
        /\ \A g \in Handler \ {h} : pc'[g] = pc[g]
    BY Frame DEF RevokeOld, SafeInv
  <1>2. /\ pc[h] = "revoke" /\ req[h].old # None
        /\ revoked' = [revoked EXCEPT ![req[h].old] = TRUE]
        /\ UNCHANGED <<owner, parent, held>>
    BY DEF RevokeOld, SafeInv, Sound
  <1>3. req[h].old \in held /\ held \subseteq Token
    BY <1>2 DEF SessionInv, SafeInv, TypeOK
  <1>4. SessionInv'
    BY <1>1, <1>2 DEF SessionInv
  <1>5. Sessions!Revoke(req[h].old)
    BY <1>1, <1>2, <1>3 DEF Sessions!Revoke
  <1> QED
    BY <1>3, <1>4, <1>5 DEF SessionStep, Sessions!Next

LEMMA RespondRotates ==
  ASSUME SafeInv, SessionInv, NEW h \in Handler, Respond(h)
  PROVE  SessionInv' /\ SessionStep
  <1>1. /\ pc'[h] = "idle" /\ req'[h] = NoRequest
        /\ \A g \in Handler \ {h} : pc'[g] = pc[g] /\ req'[g] = req[g]
    BY Frame DEF Respond, SafeInv
  <1>2. /\ pc[h] = "respond" /\ held' = held \cup {req[h].new}
        /\ UNCHANGED <<owner, revoked, parent>>
    BY DEF Respond
  <1>3. req[h].new # None /\ (req[h].old # None => revoked[req[h].old])
    BY <1>2, NoneAssumption DEF SafeInv, Sound
  <1>4. NoRequest.old = None /\ NoRequest.new = None
    BY DEF NoRequest
  <1>5. SessionInv'
    BY <1>1, <1>2, <1>3, <1>4 DEF SessionInv
  <1>6. Sessions!Answer(h)
    BY <1>1, <1>2, <1>3, Closing DEF SessionInv, Sessions!Answer
  <1> QED
    BY <1>5, <1>6 DEF SessionStep, Sessions!Next

LEMMA EnterRotates ==
  ASSUME SafeInv, SessionInv, NEW h \in Handler,
         \/ \E t \in Tenant : FindInvite(h, t)
         \/ \E e \in Email : Login(h, e)
         \/ SetPassword(h) \/ Abort(h)
  PROVE  SessionInv' /\ SessionStep
  <1>t. TypeOK
    BY DEF SafeInv
  <1>u. UNCHANGED <<owner, revoked, parent, held>>
    BY DEF FindInvite, Login, SetPassword, Abort, tokens
  <1>1. CASE Finish(h)
    BY <1>t, <1>u, <1>1, Frame, Closed
  <1>2. ASSUME NEW t \in Tenant, FindInvite(h, t) PROVE SessionInv' /\ SessionStep
    <2> DEFINE r == [NoRequest EXCEPT !.tenant = t, !.invite = invite[t]]
    <2>1. r.old = None /\ r.new = None
      BY DEF NoRequest
    <2> HIDE DEF r
    <2>2. req'[h] = r /\ \A g \in Handler \ {h} : pc'[g] = pc[g] /\ req'[g] = req[g]
      BY <1>t, <1>2, Frame DEF FindInvite, r
    <2>3. req[h].old = None /\ req[h].new = None
      BY <1>2 DEF FindInvite, SessionInv
    <2> QED
      BY <1>u, <2>1, <2>2, <2>3, Quiet
  <1>3. ASSUME NEW e \in Email, Login(h, e) PROVE SessionInv' /\ SessionStep
    <2>1. PICK t \in Tenant : Set(h, [NoRequest EXCEPT !.tenant = t])
      BY <1>3 DEF Login
    <2> DEFINE r == [NoRequest EXCEPT !.tenant = t]
    <2>2. r.old = None /\ r.new = None
      BY DEF NoRequest
    <2> HIDE DEF r
    <2>3. req'[h] = r /\ \A g \in Handler \ {h} : pc'[g] = pc[g] /\ req'[g] = req[g]
      BY <1>t, <1>3, <2>1, Frame DEF Login, r
    <2>4. req[h].old = None /\ req[h].new = None
      BY <1>3 DEF Login, SessionInv
    <2> QED
      BY <1>u, <2>2, <2>3, <2>4, Quiet
  <1> QED
    BY <1>1, <1>2, <1>3 DEF SetPassword, Abort

LEMMA LogoutRotates ==
  ASSUME SafeInv, SessionInv, NEW t \in Token, Logout(t)
  PROVE  SessionInv' /\ SessionStep
  <1>1. SessionInv'
    BY DEF Logout, SessionInv
  <1>2. Sessions!Revoke(t)
    BY DEF Logout, Sessions!Revoke
  <1> QED
    BY <1>1, <1>2 DEF SessionStep, Sessions!Next

LEMMA NextSession == SafeInv /\ SessionInv /\ [Next]_vars => SessionInv' /\ SessionStep
  <1> SUFFICES ASSUME SafeInv, SessionInv, [Next]_vars PROVE SessionInv' /\ SessionStep
    OBVIOUS
  <1>1. CASE \/ \E t \in Tenant : WriteTenant(t) \/ CreateInvite(t)
             \/ Tick \/ UNCHANGED vars
    <2>1. UNCHANGED <<owner, revoked, parent, held, pc, req>>
      BY <1>1 DEF WriteTenant, CreateInvite, Tick, vars, tokens
    <2>2. SessionInv'
      BY <2>1 DEF SessionInv
    <2>3. UNCHANGED Sessions!sessions
      BY <2>1 DEF Sessions!sessions
    <2> QED
      BY <2>2, <2>3 DEF SessionStep
  <1> QED
    BY <1>1, EnterRotates, RefreshRotates, IssueTokensRotates, RevokeRotates,
       RespondRotates, LogoutRotates DEF Next, Begin, Step

(* Every step of tenant authentication, accepting invites included, is one *)
(* of TokenSessions or none: tenants' sessions rotate as agencies' do.     *)
THEOREM ImplementsSessions == Spec => SessionsSpec
  BY InitSafe, InitSession, NextSession, Safety, PTL
     DEF Spec, SessionsSpec, Sessions!Spec, SessionStep
=============================================================================
