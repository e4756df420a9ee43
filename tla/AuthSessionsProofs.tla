------------------------ MODULE AuthSessionsProofs --------------------------
(***************************************************************************)
(* Proofs about AuthSessions, for every set of handlers, users, slugs and  *)
(* tokens and every lifetime.                                              *)
(***************************************************************************)
EXTENDS AuthSessions, FiniteSetTheorems, TLAPS

-----------------------------------------------------------------------------
LEMMA NoRequestType == NoRequest \in Request
  BY DEF NoRequest, Request

LEMMA InitType == Init => TypeOK
  BY NoRequestType DEF Init, TypeOK, PC

(* What a handler knows about the rows its next call will write.           *)
Sound(h) ==
    LET r == req[h]
    IN  /\ pc[h] \in {"findSlug", "findEmail", "createAgency"} =>
              r.user \in User /\ r.slug \in Slug /\ r.old = None
        /\ pc[h] \in {"issue", "findReplacement", "revoke", "respond"} =>
              r.user \in Registered /\ (r.old # None => owner[r.old] = r.user)
        /\ pc[h] \in {"findReplacement", "revoke", "respond"} =>
              r.new \in Token /\ owner[r.new] = r.user /\ parent[r.new] = r.old
        /\ pc[h] \in {"findReplacement", "revoke"} => r.old # None
        /\ pc[h] = "respond" /\ r.old # None => revoked[r.old]

SafeInv ==
    /\ TypeOK
    /\ \A h \in Handler : Sound(h)
    /\ held \subseteq Created
    /\ DeliveredParentRevoked
    /\ ReplacementChain
    /\ HoldersRegistered

LEMMA NextType == SafeInv /\ [Next]_vars => TypeOK'
  <1> SUFFICES ASSUME SafeInv, [Next]_vars PROVE TypeOK'
    OBVIOUS
  <1>t. TypeOK
    BY DEF SafeInv
  <1> USE <1>t
  <1>f. ASSUME NEW h \in Handler, Finish(h)
        PROVE  pc' \in [Handler -> PC] /\ req' \in [Handler -> Request]
    BY <1>f, NoRequestType DEF Finish, Goto, Set, TypeOK, PC
  <1>g. ASSUME NEW h \in Handler, NEW label \in PC, Goto(h, label)
        PROVE  pc' \in [Handler -> PC]
    BY <1>g DEF Goto, TypeOK
  <1>s. ASSUME NEW h \in Handler, NEW r \in Request, Set(h, r)
        PROVE  req' \in [Handler -> Request]
    BY <1>s DEF Set, TypeOK
  <1>l. "findSlug" \in PC /\ "findEmail" \in PC /\ "createAgency" \in PC
        /\ "issue" \in PC /\ "findReplacement" \in PC /\ "revoke" \in PC
        /\ "respond" \in PC
    BY DEF PC
  <1>1. ASSUME NEW h \in Handler, Register(h) PROVE TypeOK'
    <2>1. PICK u \in User, s \in Slug : Set(h, [NoRequest EXCEPT !.user = u, !.slug = s])
      BY <1>1 DEF Register
    <2>2. [NoRequest EXCEPT !.user = u, !.slug = s] \in Request
      BY DEF NoRequest, Request
    <2> QED
      BY <1>1, <1>g, <1>s, <1>l, <2>1, <2>2 DEF Register, TypeOK, tokenRows
  <1>2. ASSUME NEW h \in Handler, FindSlug(h) PROVE TypeOK'
    BY <1>2, <1>f, <1>g, <1>l DEF FindSlug, TypeOK, tokenRows
  <1>3. ASSUME NEW h \in Handler, FindEmail(h) PROVE TypeOK'
    BY <1>3, <1>f, <1>g, <1>l DEF FindEmail, TypeOK, tokenRows
  <1>4. ASSUME NEW h \in Handler, CreateAgency(h) PROVE TypeOK'
    <2>1. slugOf' \in [User -> Slug \cup {None}]
      BY <1>4 DEF CreateAgency, TypeOK, Request
    <2> QED
      BY <1>4, <1>f, <1>g, <1>l, <2>1 DEF CreateAgency, TypeOK, tokenRows
  <1>5. ASSUME NEW h \in Handler, Login(h) PROVE TypeOK'
    <2>1. PICK u \in User : Set(h, [NoRequest EXCEPT !.user = u])
      BY <1>5 DEF Login, Registered
    <2>2. [NoRequest EXCEPT !.user = u] \in Request
      BY DEF NoRequest, Request
    <2> QED
      BY <1>5, <1>g, <1>s, <1>l, <2>1, <2>2 DEF Login, TypeOK, tokenRows
  <1>6. ASSUME NEW h \in Handler, NEW t \in Token, Refresh(h, t) PROVE TypeOK'
    <2>1. [NoRequest EXCEPT !.user = owner[t], !.old = t] \in Request
      BY DEF NoRequest, Request, TypeOK
    <2> QED
      BY <1>6, <1>g, <1>s, <1>l, <2>1 DEF Refresh, TypeOK, tokenRows
  <1>7. ASSUME NEW h \in Handler, IssueTokens(h) PROVE TypeOK'
    <2>1. PICK t \in Token :
             /\ owner' = [owner EXCEPT ![t] = req[h].user]
             /\ expiresAt' = [expiresAt EXCEPT ![t] = now + Lifetime]
             /\ parent' = [parent EXCEPT ![t] = req[h].old]
             /\ Set(h, [req[h] EXCEPT !.new = t])
      BY <1>7 DEF IssueTokens
    <2>2. [req[h] EXCEPT !.new = t] \in Request /\ now + Lifetime \in Nat
          /\ req[h].user \in User \cup {None} /\ req[h].old \in Token \cup {None}
      BY TimeAssumption DEF TypeOK, Request
    <2>3. /\ owner' \in [Token -> User \cup {None}] /\ expiresAt' \in [Token -> Nat]
          /\ parent' \in [Token -> Token \cup {None}]
      BY <2>1, <2>2 DEF TypeOK
    <2> QED
      BY <1>7, <1>g, <1>s, <1>l, <2>1, <2>2, <2>3 DEF IssueTokens, TypeOK
  <1>8. ASSUME NEW h \in Handler, FindReplacement(h) PROVE TypeOK'
    BY <1>8, <1>g, <1>l DEF FindReplacement, TypeOK, tokenRows
  <1>9. ASSUME NEW h \in Handler, RevokeOld(h) PROVE TypeOK'
    <2>1. /\ revoked' \in [Token -> BOOLEAN]
          /\ replacedBy' \in [Token -> Token \cup {None}]
      BY <1>9 DEF RevokeOld, TypeOK, Request
    <2> QED
      BY <1>9, <1>g, <1>l, <2>1 DEF RevokeOld, TypeOK
  <1>11. ASSUME NEW t \in Token, Logout(t) PROVE TypeOK'
    BY <1>11 DEF Logout, TypeOK
  <1>12. ASSUME NEW h \in Handler, Abort(h) PROVE TypeOK'
    BY <1>12, <1>f DEF Abort, TypeOK, tokenRows
  <1>13. CASE Tick
    BY <1>13 DEF Tick, TypeOK, tokenRows
  <1>14. CASE UNCHANGED vars
    BY <1>14 DEF vars, TypeOK
  <1>10. ASSUME NEW h \in Handler, Respond(h) PROVE TypeOK'
    <2>1. req[h].new \in Token
      BY <1>10 DEF SafeInv, Sound, Respond
    <2> QED
      BY <1>10, <1>f, <2>1 DEF Respond, TypeOK, tokenRows
  <1> QED
    BY <1>1, <1>2, <1>3, <1>4, <1>5, <1>6, <1>7, <1>8, <1>9, <1>10, <1>11,
       <1>12, <1>13, <1>14 DEF Next, Step

-----------------------------------------------------------------------------
(* What was created stays as it is, and revocations and registrations are  *)
(* never taken back.                                                       *)
Grows == /\ \A t \in Created : owner'[t] = owner[t] /\ parent'[t] = parent[t]
         /\ \A t \in Token : revoked[t] => revoked'[t]
         /\ \A u \in Registered : slugOf'[u] = slugOf[u]

LEMMA InitSafe == Init => SafeInv
  <1> SUFFICES ASSUME Init PROVE SafeInv
    OBVIOUS
  <1>1. \A h \in Handler : Sound(h)
    BY DEF Init, Sound
  <1>2. held \subseteq Created /\ DeliveredParentRevoked /\ ReplacementChain
    BY DEF Init, DeliveredParentRevoked, ReplacementChain
  <1>3. HoldersRegistered
    BY DEF Init, HoldersRegistered, Created, Registered
  <1> QED
    BY <1>1, <1>2, <1>3, InitType DEF SafeInv

LEMMA NextGrows == ASSUME SafeInv, [Next]_vars PROVE Grows
  <1>t. TypeOK
    BY DEF SafeInv
  <1>1. CASE owner' = owner /\ parent' = parent /\ revoked' = revoked /\ slugOf' = slugOf
    BY <1>1 DEF Grows
  <1>2. ASSUME NEW h \in Handler, CreateAgency(h) PROVE Grows
    <2>1. owner' = owner /\ parent' = parent /\ revoked' = revoked
      BY <1>2 DEF CreateAgency, tokenRows
    <2>2. \A u \in Registered : slugOf'[u] = slugOf[u]
      BY <1>2, <1>t DEF CreateAgency, Registered, TypeOK
    <2> QED
      BY <2>1, <2>2 DEF Grows
  <1>3. ASSUME NEW h \in Handler, IssueTokens(h) PROVE Grows
    BY <1>3, <1>t DEF IssueTokens, Grows, Created, TypeOK
  <1>4. ASSUME NEW h \in Handler, RevokeOld(h) PROVE Grows
    BY <1>4, <1>t DEF RevokeOld, Grows, TypeOK
  <1>5. ASSUME NEW t \in Token, Logout(t) PROVE Grows
    BY <1>5, <1>t DEF Logout, Grows, TypeOK
  <1> QED
    BY <1>1, <1>2, <1>3, <1>4, <1>5 DEF Next, Step, Register, FindSlug, FindEmail,
       Login, Refresh, FindReplacement, Respond, Abort, Tick, vars, tokenRows

(* A handler that does not move stays sound.                               *)
LEMMA OthersStaySound ==
    ASSUME TypeOK, TypeOK', Grows, NEW h \in Handler, Sound(h),
           pc'[h] = pc[h], req'[h] = req[h]
    PROVE  Sound(h)'
  <1>1. req[h] \in Request
    BY DEF TypeOK
  <1>2. \A u \in Registered : u \in Registered' /\ u \in User /\ u # None
    BY NoneAssumption DEF Grows, Registered
  <1>3. \A t \in Token : owner[t] # None => /\ owner'[t] = owner[t]
                                            /\ parent'[t] = parent[t]
    BY DEF Grows, Created
  <1>4. \A t \in Token : revoked[t] => revoked'[t]
    BY DEF Grows
  <1> QED
    BY <1>1, <1>2, <1>3, <1>4 DEF Sound, Request

LEMMA MoverSound ==
    ASSUME SafeInv, TypeOK', Grows, NEW h \in Handler,
           \/ Register(h) \/ Login(h) \/ Step(h) \/ Abort(h)
           \/ \E t \in Token : Refresh(h, t)
    PROVE  /\ Sound(h)'
           /\ \A o \in Handler \ {h} : pc'[o] = pc[o] /\ req'[o] = req[o]
  <1> DEFINE Goal == /\ Sound(h)'
                     /\ \A o \in Handler \ {h} : pc'[o] = pc[o] /\ req'[o] = req[o]
  <1>t. TypeOK /\ req[h] \in Request /\ Sound(h)
    BY DEF SafeInv, TypeOK
  <1>u. \A u \in Registered : u \in Registered' /\ u \in User /\ u # None
    BY NoneAssumption DEF Grows, Registered
  <1>f. ASSUME Finish(h) PROVE Goal
    <2>1. /\ pc'[h] = "idle"
          /\ \A o \in Handler \ {h} : pc'[o] = pc[o] /\ req'[o] = req[o]
      BY <1>f, <1>t DEF Finish, Goto, Set, TypeOK
    <2> QED
      BY <2>1 DEF Sound
  <1>g. ASSUME NEW label, NEW r, Goto(h, label), Set(h, r)
        PROVE  /\ pc'[h] = label /\ req'[h] = r
               /\ \A o \in Handler \ {h} : pc'[o] = pc[o] /\ req'[o] = req[o]
    BY <1>g, <1>t DEF Goto, Set, TypeOK
  <1>k. ASSUME NEW label, Goto(h, label), UNCHANGED req
        PROVE  /\ pc'[h] = label /\ req'[h] = req[h]
               /\ \A o \in Handler \ {h} : pc'[o] = pc[o] /\ req'[o] = req[o]
    BY <1>k, <1>t DEF Goto, TypeOK
  <1>1. CASE Register(h)
    <2>1. PICK u \in User, s \in Slug : Set(h, [NoRequest EXCEPT !.user = u, !.slug = s])
      BY <1>1 DEF Register
    <2>2. /\ pc'[h] = "findSlug"
          /\ req'[h] = [NoRequest EXCEPT !.user = u, !.slug = s]
          /\ \A o \in Handler \ {h} : pc'[o] = pc[o] /\ req'[o] = req[o]
      BY <1>1, <1>g, <2>1 DEF Register
    <2> QED
      BY <2>2 DEF Sound, NoRequest
  <1>2. CASE FindSlug(h)
    <2>1. CASE Goto(h, "findEmail") /\ UNCHANGED req
      BY <2>1, <1>2, <1>t, <1>k DEF FindSlug, Sound
    <2> QED
      BY <1>2, <1>f, <2>1 DEF FindSlug
  <1>3. CASE FindEmail(h)
    <2>1. CASE Goto(h, "createAgency") /\ UNCHANGED req
      BY <2>1, <1>3, <1>t, <1>k DEF FindEmail, Sound
    <2> QED
      BY <1>3, <1>f, <2>1 DEF FindEmail
  <1>4. CASE CreateAgency(h)
    <2>1. CASE /\ slugOf' = [slugOf EXCEPT ![req[h].user] = req[h].slug]
               /\ Goto(h, "issue") /\ UNCHANGED req
      <3>1. pc[h] = "createAgency" /\ req[h].user \in User /\ req[h].slug \in Slug
            /\ req[h].old = None
        BY <1>4, <1>t DEF CreateAgency, Sound
      <3>2. req[h].user \in Registered'
        BY <2>1, <3>1, <1>t, NoneAssumption DEF Registered, TypeOK
      <3> QED
        BY <2>1, <1>k, <3>1, <3>2 DEF Sound
    <2> QED
      BY <1>4, <1>f, <2>1 DEF CreateAgency
  <1>5. CASE Login(h)
    <2>1. PICK u \in Registered : Set(h, [NoRequest EXCEPT !.user = u])
      BY <1>5 DEF Login
    <2>2. /\ pc'[h] = "issue" /\ req'[h] = [NoRequest EXCEPT !.user = u]
          /\ \A o \in Handler \ {h} : pc'[o] = pc[o] /\ req'[o] = req[o]
      BY <1>5, <1>g, <2>1 DEF Login
    <2> QED
      BY <2>2, <1>u DEF Sound, NoRequest
  <1>6. ASSUME NEW t \in Token, Refresh(h, t) PROVE Goal
    <2>1. /\ pc'[h] = "issue"
          /\ req'[h] = [NoRequest EXCEPT !.user = owner[t], !.old = t]
          /\ \A o \in Handler \ {h} : pc'[o] = pc[o] /\ req'[o] = req[o]
      BY <1>6, <1>g DEF Refresh
    <2>2. owner[t] \in Registered /\ owner' = owner
      BY <1>6 DEF Refresh, SafeInv, HoldersRegistered, tokenRows
    <2> QED
      BY <2>1, <2>2, <1>u DEF Sound, NoRequest
  <1>7. CASE IssueTokens(h)
    <2>1. PICK t \in Token \ Created :
             /\ owner' = [owner EXCEPT ![t] = req[h].user]
             /\ parent' = [parent EXCEPT ![t] = req[h].old]
             /\ Set(h, [req[h] EXCEPT !.new = t])
      BY <1>7 DEF IssueTokens
    <2>2. /\ pc'[h] = IF req[h].old = None THEN "respond" ELSE "findReplacement"
          /\ req'[h] = [req[h] EXCEPT !.new = t]
          /\ \A o \in Handler \ {h} : pc'[o] = pc[o] /\ req'[o] = req[o]
      BY <1>7, <1>g, <2>1 DEF IssueTokens
    <2>3. /\ req'[h].new = t /\ req'[h].user = req[h].user /\ req'[h].old = req[h].old
      BY <2>2, <1>t DEF Request
    <2>4. owner'[t] = req[h].user /\ parent'[t] = req[h].old
      BY <2>1, <1>t DEF TypeOK
    <2>5. /\ pc[h] = "issue" /\ req[h].user \in Registered
          /\ req[h].old # None => owner[req[h].old] = req[h].user /\ req[h].old \in Token
      BY <1>7, <1>t DEF IssueTokens, Sound, Request
    <2>6. req[h].old # None => owner'[req[h].old] = req[h].user
      BY <2>5, <1>u DEF Grows, Created
    <2> QED
      BY <2>2, <2>3, <2>4, <2>5, <2>6, <1>u DEF Sound
  <1>8. CASE FindReplacement(h)
    BY <1>8, <1>k, <1>t, <1>u DEF FindReplacement, Sound, tokenRows
  <1>9. CASE RevokeOld(h)
    <2>1. /\ pc[h] = "revoke" /\ req[h].old \in Token
          /\ revoked' = [revoked EXCEPT ![req[h].old] = TRUE]
          /\ owner' = owner /\ parent' = parent
      BY <1>9, <1>t DEF RevokeOld, Sound, Request
    <2>2. revoked'[req[h].old]
      BY <2>1, <1>t DEF TypeOK
    <2> QED
      BY <1>9, <1>k, <1>t, <1>u, <2>1, <2>2 DEF RevokeOld, Sound
  <1>10. CASE Respond(h)
    BY <1>10, <1>f DEF Respond
  <1>11. CASE Abort(h)
    BY <1>11, <1>f DEF Abort
  <1> QED
    BY <1>1, <1>2, <1>3, <1>4, <1>5, <1>6, <1>7, <1>8, <1>9, <1>10, <1>11 DEF Step

LEMMA NextSafe == SafeInv /\ [Next]_vars => SafeInv'
  <1> SUFFICES ASSUME SafeInv, [Next]_vars PROVE SafeInv'
    OBVIOUS
  <1>t. TypeOK /\ TypeOK' /\ Grows
    BY NextType, NextGrows DEF SafeInv
  <1>1. \A h \in Handler : Sound(h)'
    <2>1. ASSUME NEW h \in Handler,
                 \/ Register(h) \/ Login(h) \/ Step(h) \/ Abort(h)
                 \/ \E t \in Token : Refresh(h, t)
          PROVE  \A o \in Handler : Sound(o)'
      <3>1. /\ Sound(h)'
            /\ \A o \in Handler \ {h} : pc'[o] = pc[o] /\ req'[o] = req[o]
        BY <1>t, <2>1, MoverSound
      <3> QED
        BY <1>t, <3>1, OthersStaySound DEF SafeInv
    <2>2. CASE pc' = pc /\ req' = req
      BY <1>t, <2>2, OthersStaySound DEF SafeInv
    <2> QED
      BY <2>1, <2>2 DEF Next, Logout, Tick, vars
  <1>2. held' \subseteq Created'
    <2>1. \A t \in Created : t \in Created'
      BY <1>t DEF Created, Grows
    <2>2. ASSUME NEW h \in Handler, Respond(h) PROVE held' \subseteq Created'
      <3>1. req[h].new \in Token /\ owner[req[h].new] \in Registered
        BY <2>2 DEF Respond, SafeInv, Sound
      <3>2. req[h].new \in Created
        BY <3>1, <1>t, NoneAssumption DEF Created, Registered
      <3> QED
        BY <2>1, <2>2, <3>2 DEF Respond, SafeInv
    <2>3. CASE held' = held
      BY <2>1, <2>3 DEF SafeInv
    <2> QED
      BY <2>2, <2>3 DEF Next, Step, Register, Login, FindSlug, FindEmail, CreateAgency,
         Refresh, IssueTokens, FindReplacement, RevokeOld, Logout, Abort, Tick, vars
  <1>3. DeliveredParentRevoked'
    <2>0. ASSUME NEW t \in held
          PROVE  parent'[t] # None => revoked'[parent'[t]]
      <3>1. t \in Created /\ parent'[t] = parent[t] /\ parent[t] \in Token \cup {None}
        BY <1>t DEF SafeInv, Grows, TypeOK
      <3> QED
        BY <1>t, <3>1 DEF SafeInv, DeliveredParentRevoked, Grows
    <2>1. ASSUME NEW h \in Handler, Respond(h) PROVE DeliveredParentRevoked'
      <3>1. /\ held' = held \cup {req[h].new} /\ parent' = parent /\ revoked' = revoked
            /\ parent[req[h].new] = req[h].old
            /\ req[h].old # None => revoked[req[h].old]
        BY <2>1 DEF Respond, SafeInv, Sound, tokenRows
      <3> QED
        BY <2>0, <3>1 DEF DeliveredParentRevoked
    <2>2. CASE held' = held
      BY <2>0, <2>2 DEF DeliveredParentRevoked
    <2> QED
      BY <2>1, <2>2 DEF Next, Step, Register, Login, FindSlug, FindEmail, CreateAgency,
         Refresh, IssueTokens, FindReplacement, RevokeOld, Logout, Abort, Tick, vars
  <1>4. ReplacementChain'
    <2>0. ASSUME NEW t \in Token, replacedBy[t] # None
          PROVE  /\ parent'[replacedBy[t]] = t /\ revoked'[t]
                 /\ owner'[replacedBy[t]] = owner'[t] /\ owner'[t] # None
      <3>1. /\ replacedBy[t] \in Token /\ owner[t] # None
            /\ owner[replacedBy[t]] = owner[t] /\ parent[replacedBy[t]] = t /\ revoked[t]
        BY <1>t, <2>0 DEF SafeInv, ReplacementChain, TypeOK
      <3> QED
        BY <1>t, <3>1 DEF Grows, Created
    <2>1. ASSUME NEW h \in Handler, RevokeOld(h) PROVE ReplacementChain'
      <3> DEFINE r == req[h]
      <3>1. /\ r.old \in Token /\ r.new \in Token /\ r.user \in Registered
            /\ owner[r.old] = r.user /\ owner[r.new] = r.user /\ parent[r.new] = r.old
        BY <1>t, <2>1 DEF RevokeOld, SafeInv, Sound, TypeOK, Request
      <3>2. /\ replacedBy' = [replacedBy EXCEPT ![r.old] = r.new]
            /\ revoked' = [revoked EXCEPT ![r.old] = TRUE]
            /\ owner' = owner /\ parent' = parent
        BY <2>1 DEF RevokeOld
      <3>3. r.user # None
        BY <3>1, NoneAssumption DEF Registered
      <3>4. ASSUME NEW t \in Token, replacedBy'[t] # None
            PROVE  /\ parent'[replacedBy'[t]] = t /\ revoked'[t]
                   /\ owner'[replacedBy'[t]] = owner'[t] /\ owner'[t] # None
        <4>1. CASE t = r.old
          BY <3>1, <3>2, <3>3, <4>1, <1>t DEF TypeOK
        <4>2. CASE t # r.old
          <5>1. replacedBy'[t] = replacedBy[t]
            BY <3>2, <4>2, <1>t DEF TypeOK
          <5> QED
            BY <2>0, <3>4, <5>1
        <4> QED
          BY <4>1, <4>2
      <3> QED
        BY <3>4 DEF ReplacementChain
    <2>2. CASE replacedBy' = replacedBy
      BY <2>0, <2>2 DEF ReplacementChain
    <2> QED
      BY <2>1, <2>2 DEF Next, Step, Register, Login, FindSlug, FindEmail, CreateAgency,
         Refresh, IssueTokens, FindReplacement, Respond, Logout, Abort, Tick, vars,
         tokenRows
  <1>5. HoldersRegistered'
    <2>0. \A u \in Registered : u \in Registered' /\ slugOf'[u] = slugOf[u]
      BY <1>t DEF Grows, Registered
    <2>1. ASSUME NEW h \in Handler, CreateAgency(h), slugOf' # slugOf
          PROVE  HoldersRegistered'
      <3> DEFINE v == req[h].user
      <3>1. /\ slugOf' = [slugOf EXCEPT ![v] = req[h].slug] /\ owner' = owner
            /\ v \in User /\ req[h].slug \in Slug /\ v \notin Registered
            /\ \A u \in User : slugOf[u] # req[h].slug
        BY <2>1 DEF CreateAgency, SafeInv, Sound, tokenRows
      <3>2. /\ slugOf'[v] = req[h].slug
            /\ \A u \in User : u # v => slugOf'[u] = slugOf[u]
        BY <3>1, <1>t DEF TypeOK
      <3>3. \A u \in Registered' : u = v \/ u \in Registered
        BY <3>2 DEF Registered
      <3>4. \A t \in Created' : owner'[t] \in Registered'
        BY <3>1, <2>0 DEF Created, SafeInv, HoldersRegistered
      <3>5. \A u, w \in Registered' : slugOf'[u] = slugOf'[w] => u = w
        BY <3>1, <3>2, <3>3 DEF SafeInv, HoldersRegistered, Registered
      <3> QED
        BY <3>4, <3>5 DEF HoldersRegistered
    <2>2. ASSUME NEW h \in Handler, IssueTokens(h) PROVE HoldersRegistered'
      <3>1. PICK t \in Token : owner' = [owner EXCEPT ![t] = req[h].user]
        BY <2>2 DEF IssueTokens
      <3>2. req[h].user \in Registered /\ slugOf' = slugOf
        BY <2>2 DEF IssueTokens, SafeInv, Sound
      <3>3. \A k \in Created' : owner'[k] \in Registered
        BY <3>1, <3>2, <1>t DEF Created, SafeInv, HoldersRegistered, TypeOK
      <3> QED
        BY <3>2, <3>3 DEF SafeInv, HoldersRegistered, Registered
    <2>3. CASE slugOf' = slugOf /\ owner' = owner
      BY <2>3 DEF SafeInv, HoldersRegistered, Created, Registered
    <2> QED
      BY <2>1, <2>2, <2>3 DEF Next, Step, Register, Login, FindSlug, FindEmail,
         CreateAgency, Refresh, FindReplacement, RevokeOld, Respond, Logout, Abort,
         Tick, vars, tokenRows
  <1> QED
    BY <1>t, <1>1, <1>2, <1>3, <1>4, <1>5 DEF SafeInv

LEMMA Safe == Spec => []SafeInv
  BY InitSafe, NextSafe, PTL DEF Spec

(* Every row, request and answer of the session service keeps its type.    *)
THEOREM TypeCorrect == Spec => []TypeOK
  BY Safe, PTL DEF SafeInv

(* However rotations interleave and wherever they are cut off, a client    *)
(* that holds a rotated token can no longer use the one it came from.      *)
THEOREM NoLiveTwins == Spec => []DeliveredParentRevoked
  BY Safe, PTL DEF SafeInv

(* replacedById always leads from a revoked token to its own successor, of *)
(* the same user.                                                          *)
THEOREM ChainsFollowUsers == Spec => []ReplacementChain
  BY Safe, PTL DEF SafeInv

(* Tokens only ever belong to registered owners, and the unique index keeps *)
(* slugs apart however stale the two look-ups before it are.               *)
THEOREM HoldersAreRegistered == Spec => []HoldersRegistered
  BY Safe, PTL DEF SafeInv

-----------------------------------------------------------------------------
(* How many tokens clients can get for one token.  They and the rotations  *)
(* of it under way never outnumber the requests in flight: a rotation      *)
(* begins only while no client has a token of an earlier one.              *)
Children(p) == {k \in held : parent[k] = p}
Rotating(p) == {h \in Handler : pc[h] \in {"issue", "findReplacement", "revoke", "respond"}
                                /\ req[h].old = p}

ChildInv ==
    \A p \in Token :
        /\ IsFiniteSet(Children(p))
        /\ Cardinality(Children(p)) + Cardinality(Rotating(p)) <= Cardinality(Handler)

LEMMA ChildCount ==
    ASSUME NEW C, IsFiniteSet(C), NEW D,
           NEW S, S \subseteq Handler, NEW T, T \subseteq Handler,
           Cardinality(C) + Cardinality(S) <= Cardinality(Handler),
           \/ D = C /\ (C = {} \/ T \subseteq S)
           \/ \E x, h : D = C \cup {x} /\ h \in S /\ T \subseteq S \ {h}
    PROVE  IsFiniteSet(D) /\ Cardinality(D) + Cardinality(T) <= Cardinality(Handler)
  <1>1. /\ IsFiniteSet(S) /\ Cardinality(S) \in Nat /\ Cardinality(T) \in Nat
        /\ Cardinality(Handler) \in Nat /\ Cardinality(T) <= Cardinality(Handler)
        /\ Cardinality(C) \in Nat
    BY HandlerAssumption, FS_Subset, FS_CardinalityType
  <1>2. CASE D = C /\ C = {}
    <2>1. Cardinality(D) = 0
      BY <1>2, FS_EmptySet
    <2> QED
      BY <1>1, <1>2, <2>1
  <1>3. CASE D = C /\ T \subseteq S
    <2>1. Cardinality(T) <= Cardinality(S)
      BY <1>1, <1>3, FS_Subset
    <2> QED
      BY <1>1, <1>3, <2>1
  <1>4. ASSUME NEW x, NEW h, D = C \cup {x}, h \in S, T \subseteq S \ {h}
        PROVE  IsFiniteSet(D) /\ Cardinality(D) + Cardinality(T) <= Cardinality(Handler)
    <2>1. IsFiniteSet(S \ {h}) /\ Cardinality(S \ {h}) = Cardinality(S) - 1
      BY <1>1, <1>4, FS_RemoveElement
    <2>2. Cardinality(T) <= Cardinality(S \ {h})
      BY <1>4, <2>1, FS_Subset
    <2>3. IsFiniteSet(D) /\ Cardinality(D) \in Nat /\ Cardinality(D) <= Cardinality(C) + 1
      <3>1. /\ IsFiniteSet(C \cup {x})
            /\ Cardinality(C \cup {x}) = Cardinality(C) \/ Cardinality(C \cup {x}) = Cardinality(C) + 1
        BY FS_AddElement
      <3> QED
        BY <1>1, <1>4, <3>1
    <2> QED
      BY <1>1, <2>1, <2>2, <2>3
  <1> QED
    BY <1>2, <1>3, <1>4

LEMMA InitChildren == Init => ChildInv
  <1> SUFFICES ASSUME Init, NEW p \in Token
               PROVE  /\ IsFiniteSet(Children(p))
                      /\ Cardinality(Children(p)) + Cardinality(Rotating(p))
                             <= Cardinality(Handler)
    BY DEF ChildInv
  <1>1. Children(p) = {} /\ Rotating(p) = {}
    BY DEF Init, Children, Rotating
  <1>2. Cardinality({}) = 0 /\ IsFiniteSet({}) /\ Cardinality(Handler) \in Nat
    BY HandlerAssumption, FS_EmptySet, FS_CardinalityType
  <1> QED
    BY <1>1, <1>2

LEMMA ChildrenStep ==
    ASSUME SafeInv, [Next]_vars, NEW p \in Token
    PROVE  \/ /\ Children(p)' = Children(p)
              /\ Children(p) = {} \/ Rotating(p)' \subseteq Rotating(p)
           \/ \E x, h : /\ Children(p)' = Children(p) \cup {x}
                        /\ h \in Rotating(p) /\ Rotating(p)' \subseteq Rotating(p) \ {h}
  <1> DEFINE Goal ==
           \/ /\ Children(p)' = Children(p)
              /\ Children(p) = {} \/ Rotating(p)' \subseteq Rotating(p)
           \/ \E x, h : /\ Children(p)' = Children(p) \cup {x}
                        /\ h \in Rotating(p) /\ Rotating(p)' \subseteq Rotating(p) \ {h}
  <1>t. TypeOK
    BY DEF SafeInv
  <1>p. p # None
    BY NoneAssumption
  <1>1. CASE held' = held /\ parent' = parent /\ pc' = pc /\ req' = req
    BY <1>1 DEF Children, Rotating
  <1>2. ASSUME NEW h \in Handler, held' = held,
               \A k \in held : parent'[k] = parent[k],
               pc'[h] \in {"issue", "findReplacement", "revoke", "respond"}
                   => /\ pc[h] \in {"issue", "findReplacement", "revoke", "respond"}
                                   \/ req'[h].old = None
                      /\ req'[h].old = req[h].old \/ req'[h].old = None,
               \A g \in Handler \ {h} : pc'[g] = pc[g] /\ req'[g] = req[g]
        PROVE  Goal
    BY <1>2, <1>p DEF Children, Rotating
  <1>3. ASSUME NEW h \in Handler, NEW label, NEW r, Goto(h, label), Set(h, r)
        PROVE  /\ pc'[h] = label /\ req'[h] = r
               /\ \A g \in Handler \ {h} : pc'[g] = pc[g] /\ req'[g] = req[g]
    BY <1>3, <1>t DEF Goto, Set, TypeOK
  <1>4. ASSUME NEW h \in Handler, Finish(h)
        PROVE  /\ pc'[h] = "idle" /\ req'[h] = NoRequest
               /\ \A g \in Handler \ {h} : pc'[g] = pc[g] /\ req'[g] = req[g]
    BY <1>4, <1>3 DEF Finish
  <1>5. ASSUME NEW h \in Handler, NEW label, Goto(h, label), UNCHANGED req
        PROVE  /\ pc'[h] = label /\ req'[h] = req[h]
               /\ \A g \in Handler \ {h} : pc'[g] = pc[g] /\ req'[g] = req[g]
    BY <1>5, <1>t DEF Goto, TypeOK
  <1>6. ASSUME NEW h \in Handler, NEW k \in Token, Refresh(h, k) PROVE Goal
    <2>1. /\ held' = held /\ parent' = parent /\ pc'[h] = "issue"
          /\ req'[h] = [NoRequest EXCEPT !.user = owner[k], !.old = k]
          /\ \A g \in Handler \ {h} : pc'[g] = pc[g] /\ req'[g] = req[g]
      BY <1>3, <1>6 DEF Refresh, tokenRows
    <2>2. req'[h].old = k
      BY <2>1 DEF NoRequest
    <2>3. CASE k = p
      <3>1. Children(p) = {}
        BY <1>6, <1>p, <2>3 DEF Refresh, Usable, Children, SafeInv, DeliveredParentRevoked
      <3> QED
        BY <2>1, <3>1 DEF Children
    <2>4. CASE k # p
      BY <2>1, <2>2, <2>4 DEF Children, Rotating
    <2> QED
      BY <2>3, <2>4
  <1>7. ASSUME NEW h \in Handler, Respond(h) PROVE Goal
    <2>1. /\ pc[h] = "respond" /\ parent' = parent /\ held' = held \cup {req[h].new}
          /\ parent[req[h].new] = req[h].old
      BY <1>7 DEF Respond, SafeInv, Sound, tokenRows
    <2>2. /\ pc'[h] = "idle" /\ \A g \in Handler \ {h} : pc'[g] = pc[g] /\ req'[g] = req[g]
      BY <1>4, <1>7 DEF Respond
    <2>3. CASE req[h].old = p
      <3>1. Children(p)' = Children(p) \cup {req[h].new}
        BY <2>1, <2>3 DEF Children
      <3>2. h \in Rotating(p) /\ Rotating(p)' \subseteq Rotating(p) \ {h}
        BY <2>1, <2>2, <2>3 DEF Rotating
      <3> QED
        BY <3>1, <3>2
    <2>4. CASE req[h].old # p
      <3>1. Children(p)' = Children(p)
        BY <2>1, <2>4 DEF Children
      <3>2. Rotating(p)' \subseteq Rotating(p)
        BY <2>2 DEF Rotating
      <3> QED
        BY <3>1, <3>2
    <2> QED
      BY <2>3, <2>4
  <1>8. ASSUME NEW h \in Handler, IssueTokens(h) PROVE Goal
    <2>1. PICK t \in Token \ Created :
             /\ parent' = [parent EXCEPT ![t] = req[h].old]
             /\ Set(h, [req[h] EXCEPT !.new = t])
      BY <1>8 DEF IssueTokens
    <2>2. req'[h].old = req[h].old /\ pc[h] = "issue" /\ held' = held
          /\ \A g \in Handler \ {h} : pc'[g] = pc[g] /\ req'[g] = req[g]
      <3>1. [req[h] EXCEPT !.new = t].old = req[h].old
        BY <1>t DEF TypeOK, Request
      <3> QED
        BY <1>3, <1>8, <2>1, <3>1 DEF IssueTokens
    <2>3. \A k \in held : parent'[k] = parent[k]
      BY <1>t, <2>1 DEF SafeInv, TypeOK
    <2> QED
      BY <1>2, <2>2, <2>3
  <1>9. ASSUME NEW h \in Handler, FindReplacement(h) \/ RevokeOld(h) PROVE Goal
    <2>1. /\ held' = held /\ parent' = parent /\ pc[h] \in {"findReplacement", "revoke"}
          /\ req'[h] = req[h]
          /\ \A g \in Handler \ {h} : pc'[g] = pc[g] /\ req'[g] = req[g]
      BY <1>5, <1>9 DEF FindReplacement, RevokeOld, tokenRows
    <2> QED
      BY <1>2, <2>1
  <1>10. ASSUME NEW h \in Handler, Abort(h) PROVE Goal
    <2>1. held' = held /\ parent' = parent /\ Finish(h)
      BY <1>10 DEF Abort, tokenRows
    <2> QED
      BY <1>2, <1>4, <2>1
  <1>11. ASSUME NEW h \in Handler, Register(h) \/ Login(h) PROVE Goal
    <2>1. held' = held /\ parent' = parent
      BY <1>11 DEF Register, Login, tokenRows
    <2>2. CASE Register(h)
      <3>1. PICK u \in User, g \in Slug : Set(h, [NoRequest EXCEPT !.user = u, !.slug = g])
        BY <2>2 DEF Register
      <3>2. [NoRequest EXCEPT !.user = u, !.slug = g].old = None
        BY DEF NoRequest
      <3> QED
        BY <1>2, <1>3, <2>1, <2>2, <3>1, <3>2 DEF Register
    <2>3. CASE Login(h)
      <3>1. PICK u \in Registered : Set(h, [NoRequest EXCEPT !.user = u])
        BY <2>3 DEF Login
      <3>2. [NoRequest EXCEPT !.user = u].old = None
        BY DEF NoRequest
      <3> QED
        BY <1>2, <1>3, <2>1, <2>3, <3>1, <3>2 DEF Login
    <2> QED
      BY <1>11, <2>2, <2>3
  <1>12. ASSUME NEW h \in Handler, FindSlug(h) \/ FindEmail(h) \/ CreateAgency(h) PROVE Goal
    <2>1. held' = held /\ parent' = parent
      BY <1>12 DEF FindSlug, FindEmail, CreateAgency, tokenRows
    <2>2. CASE Finish(h)
      BY <1>2, <1>4, <2>1, <2>2
    <2>3. ASSUME NEW label, Goto(h, label), UNCHANGED req PROVE Goal
      <3>1. req[h].old = None
        BY <1>12 DEF FindSlug, FindEmail, CreateAgency, SafeInv, Sound
      <3> QED
        BY <1>2, <1>5, <2>1, <2>3, <3>1
    <2> QED
      BY <1>12, <2>2, <2>3 DEF FindSlug, FindEmail, CreateAgency
  <1>13. ASSUME \/ \E k \in Token : Logout(k)
                \/ Tick \/ UNCHANGED vars
         PROVE  held' = held /\ parent' = parent /\ pc' = pc /\ req' = req
    BY <1>13 DEF Logout, Tick, vars, tokenRows
  <1> QED
    BY <1>1, <1>6, <1>7, <1>8, <1>9, <1>10, <1>11, <1>12, <1>13 DEF Next, Step

LEMMA NextChildren == SafeInv /\ ChildInv /\ [Next]_vars => ChildInv'
  <1> SUFFICES ASSUME SafeInv, ChildInv, [Next]_vars, NEW p \in Token
               PROVE  /\ IsFiniteSet(Children(p)')
                      /\ Cardinality(Children(p)') + Cardinality(Rotating(p)')
                             <= Cardinality(Handler)
    BY DEF ChildInv
  <1>1. /\ IsFiniteSet(Children(p))
        /\ Cardinality(Children(p)) + Cardinality(Rotating(p)) <= Cardinality(Handler)
        /\ Rotating(p) \subseteq Handler /\ Rotating(p)' \subseteq Handler
    BY DEF ChildInv, Rotating
  <1> QED
    BY <1>1, ChildrenStep, ChildCount

(* Clients get no more tokens for one token than requests can overlap.     *)
THEOREM ChildrenAreBounded == Spec => []DeliveredChildrenBounded
  <1>1. SafeInv /\ ChildInv => DeliveredChildrenBounded
    <2> SUFFICES ASSUME SafeInv, ChildInv, NEW p \in Token
                 PROVE  Cardinality(Children(p)) <= Cardinality(Handler)
      BY DEF DeliveredChildrenBounded, Children
    <2>1. Rotating(p) \subseteq Handler
      BY DEF Rotating
    <2>2. /\ Cardinality(Children(p)) \in Nat /\ Cardinality(Rotating(p)) \in Nat
          /\ Cardinality(Handler) \in Nat
      BY <2>1, HandlerAssumption, FS_Subset, FS_CardinalityType DEF ChildInv
    <2> QED
      BY <2>2 DEF ChildInv
  <1> QED
    BY <1>1, InitChildren, NextChildren, Safe, PTL DEF Spec

(* The promise at auth.service.ts:171, one exchange for a token, is kept   *)
(* when requests are served one at a time, wherever they are cut off:      *)
(* overlapping rotations are all that the run refresh_reuse needs.         *)
THEOREM SingleUseInTurn ==
    ASSUME Cardinality(Handler) = 1 PROVE Spec => []SingleUse
  <1>1. DeliveredChildrenBounded => SingleUse
    BY DEF DeliveredChildrenBounded, SingleUse
  <1> QED
    BY <1>1, ChildrenAreBounded, PTL
-----------------------------------------------------------------------------
(* What rotating sessions rests on: a request remembers a token some       *)
(* client was answered with, and what it issued no client and no other     *)
(* request has.                                                            *)
SessionInv ==
    /\ \A h \in Handler :
          /\ req[h].old # None =>
                /\ pc[h] \in {"issue", "findReplacement", "revoke", "respond"}
                /\ req[h].old \in held
          /\ req[h].new # None =>
                /\ pc[h] \in {"findReplacement", "revoke", "respond"}
                /\ req[h].new \notin held
    /\ \A g, h \in Handler : req[g].new = req[h].new /\ req[h].new # None => g = h

SessionStep == [Sessions!Next]_(Sessions!sessions)

LEMMA InitSession == Init => SessionInv /\ Sessions!Init
  BY DEF Init, SessionInv, NoRequest, Sessions!Init

LEMMA Frame ==
  ASSUME TypeOK, NEW h \in Handler
  PROVE  /\ \A label, r : Goto(h, label) /\ Set(h, r) =>
               /\ pc'[h] = label /\ req'[h] = r
               /\ \A g \in Handler \ {h} : pc'[g] = pc[g] /\ req'[g] = req[g]
         /\ \A label : Goto(h, label) /\ UNCHANGED req =>
               /\ pc'[h] = label /\ req'[h] = req[h]
               /\ \A g \in Handler \ {h} : pc'[g] = pc[g] /\ req'[g] = req[g]
         /\ Finish(h) =>
               /\ pc'[h] = "idle" /\ req'[h] = NoRequest
               /\ \A g \in Handler \ {h} : pc'[g] = pc[g] /\ req'[g] = req[g]
  BY DEF Goto, Set, Finish, TypeOK

(* A handler that moves on without a call to the token table stutters.     *)
LEMMA Quiet ==
  ASSUME SessionInv, NEW h \in Handler,
         UNCHANGED <<owner, revoked, parent, held>>,
         \A g \in Handler \ {h} : pc'[g] = pc[g] /\ req'[g] = req[g],
         req'[h].old = req[h].old, req'[h].new = req[h].new,
         req[h].old # None => pc'[h] \in {"issue", "findReplacement", "revoke", "respond"},
         req[h].new # None => pc'[h] \in {"findReplacement", "revoke", "respond"}
  PROVE  SessionInv' /\ SessionStep
  <1>1. \A g \in Handler : req'[g].old = req[g].old /\ req'[g].new = req[g].new
    OBVIOUS
  <1>2. SessionInv'
    BY <1>1 DEF SessionInv
  <1>3. UNCHANGED Sessions!sessions
    BY <1>1 DEF Sessions!sessions
  <1> QED
    BY <1>2, <1>3 DEF SessionStep

(* Giving back what a request was shown and what it issued.                *)
LEMMA Closing ==
  ASSUME NEW h \in Handler, req'[h] = NoRequest,
         \A g \in Handler \ {h} : req'[g] = req[g]
  PROVE  Sessions!Close(h)
  <1>1. NoRequest.old = None /\ NoRequest.new = None
    BY DEF NoRequest
  <1>2. \A g \in Handler :
           /\ req'[g].old = IF g = h THEN None ELSE req[g].old
           /\ req'[g].new = IF g = h THEN None ELSE req[g].new
    BY <1>1
  <1> QED
    BY <1>2 DEF Sessions!Close

LEMMA Closed ==
  ASSUME SessionInv, NEW h \in Handler,
         UNCHANGED <<owner, revoked, parent, held>>,
         \A g \in Handler \ {h} : pc'[g] = pc[g] /\ req'[g] = req[g],
         req'[h] = NoRequest
  PROVE  SessionInv' /\ SessionStep
  <1>1. NoRequest.old = None /\ NoRequest.new = None
    BY DEF NoRequest
  <1>2. SessionInv'
    BY <1>1 DEF SessionInv
  <1>3. Sessions!Abandon(h)
    BY Closing DEF Sessions!Abandon
  <1> QED
    BY <1>2, <1>3 DEF SessionStep, Sessions!Next

LEMMA RefreshRotates ==
  ASSUME SafeInv, SessionInv, NEW h \in Handler, NEW t \in Token, Refresh(h, t)
  PROVE  SessionInv' /\ SessionStep
  <1> DEFINE r == [NoRequest EXCEPT !.user = owner[t], !.old = t]
  <1>1. r.old = t /\ r.new = None
    BY DEF NoRequest
  <1> HIDE DEF r
  <1>2. /\ pc'[h] = "issue" /\ req'[h] = r
        /\ \A g \in Handler \ {h} : pc'[g] = pc[g] /\ req'[g] = req[g]
    BY Frame DEF Refresh, SafeInv, r
  <1>3. /\ UNCHANGED <<owner, revoked, parent, held>> /\ t \in held /\ ~revoked[t]
        /\ pc[h] = "idle"
    BY DEF Refresh, Usable, tokenRows
  <1>4. req[h].old = None /\ req[h].new = None
    BY <1>3 DEF SessionInv
  <1>5. SessionInv'
    BY <1>1, <1>2, <1>3 DEF SessionInv
  <1>6. \A g \in Handler : /\ req'[g].old = IF g = h THEN t ELSE req[g].old
                           /\ req'[g].new = req[g].new
    BY <1>1, <1>2, <1>4
  <1>7. Sessions!Present(h, t)
    BY <1>3, <1>4, <1>6 DEF Sessions!Present
  <1> QED
    BY <1>5, <1>7 DEF SessionStep, Sessions!Next

LEMMA IssueTokensRotates ==
  ASSUME SafeInv, SessionInv, NEW h \in Handler, IssueTokens(h)
  PROVE  SessionInv' /\ SessionStep
  <1>1. PICK t \in Token \ Created :
           /\ owner' = [owner EXCEPT ![t] = req[h].user]
           /\ parent' = [parent EXCEPT ![t] = req[h].old]
           /\ Set(h, [req[h] EXCEPT !.new = t])
    BY DEF IssueTokens
  <1>2. req[h] \in Request
    BY DEF SafeInv, TypeOK
  <1> DEFINE r == [req[h] EXCEPT !.new = t]
  <1>3. r.old = req[h].old /\ r.new = t
    BY <1>2 DEF Request
  <1> HIDE DEF r
  <1>4. /\ pc'[h] \in {"respond", "findReplacement"} /\ req'[h] = r
        /\ req[h].old # None => pc'[h] = "findReplacement"
        /\ \A g \in Handler \ {h} : pc'[g] = pc[g] /\ req'[g] = req[g]
    BY <1>1, Frame DEF IssueTokens, SafeInv, r
  <1>5. UNCHANGED <<revoked, held>> /\ pc[h] = "issue"
    BY DEF IssueTokens
  <1>6. /\ owner[t] = None /\ t # None /\ t \notin held
        /\ req[h].user \in User /\ (req[h].old # None => owner[req[h].old] = req[h].user)
    BY <1>1, <1>5, NoneAssumption DEF Created, SafeInv, Sound, Registered
  <1>7. req[h].new = None /\ (req[h].old # None => req[h].old \in held)
    BY <1>5 DEF SessionInv
  <1>8. \A g \in Handler : req[g].new # t
    <2> SUFFICES ASSUME NEW g \in Handler, req[g].new = t PROVE FALSE
      OBVIOUS
    <2>1. pc[g] \in {"findReplacement", "revoke", "respond"}
      BY <1>6 DEF SessionInv
    <2>2. owner[t] \in User
      BY <2>1 DEF SafeInv, Sound, Registered
    <2> QED
      BY <1>6, <2>2, NoneAssumption
  <1>9. SessionInv'
    BY <1>3, <1>4, <1>5, <1>6, <1>7, <1>8 DEF SessionInv
  <1>10. \A g \in Handler : /\ req'[g].new = IF g = h THEN t ELSE req[g].new
                            /\ req'[g].old = req[g].old
    BY <1>3, <1>4
  <1>11. PICK u \in User : u = req[h].user
    BY <1>6
  <1>12. Sessions!Issue(h, t, u)
    BY <1>1, <1>5, <1>6, <1>7, <1>10, <1>11 DEF Sessions!Issue
  <1>13. Sessions!Next
    BY <1>12 DEF Sessions!Next
  <1> QED
    BY <1>9, <1>13 DEF SessionStep

LEMMA RevokeRotates ==
  ASSUME SafeInv, SessionInv, NEW h \in Handler, RevokeOld(h)
  PROVE  SessionInv' /\ SessionStep
  <1>1. /\ pc'[h] = "respond" /\ req' = req
        /\ \A g \in Handler \ {h} : pc'[g] = pc[g]
    BY Frame DEF RevokeOld, SafeInv
  <1>2. /\ pc[h] = "revoke" /\ req[h].old # None
        /\ revoked' = [revoked EXCEPT ![req[h].old] = TRUE]
        /\ UNCHANGED <<owner, parent, held>>
    BY DEF RevokeOld, SafeInv, Sound
  <1>3. req[h].old \in held /\ held \subseteq Token
    BY <1>2 DEF SessionInv, SafeInv, TypeOK
  <1>4. SessionInv'
    BY <1>1, <1>2 DEF SessionInv
  <1>5. Sessions!Revoke(req[h].old)
    BY <1>1, <1>2, <1>3 DEF Sessions!Revoke
  <1> QED
    BY <1>3, <1>4, <1>5 DEF SessionStep, Sessions!Next

LEMMA RespondRotates ==
  ASSUME SafeInv, SessionInv, NEW h \in Handler, Respond(h)
  PROVE  SessionInv' /\ SessionStep
  <1>1. /\ pc'[h] = "idle" /\ req'[h] = NoRequest
        /\ \A g \in Handler \ {h} : pc'[g] = pc[g] /\ req'[g] = req[g]
    BY Frame DEF Respond, SafeInv
  <1>2. /\ pc[h] = "respond" /\ held' = held \cup {req[h].new}
        /\ UNCHANGED <<owner, revoked, parent>>
    BY DEF Respond, tokenRows
  <1>3. req[h].new # None /\ (req[h].old # None => revoked[req[h].old])
    BY <1>2, NoneAssumption DEF SafeInv, Sound
  <1>4. NoRequest.old = None /\ NoRequest.new = None
    BY DEF NoRequest
  <1>5. SessionInv'
    BY <1>1, <1>2, <1>3, <1>4 DEF SessionInv
  <1>6. Sessions!Answer(h)
    BY <1>1, <1>2, <1>3, Closing DEF SessionInv, Sessions!Answer
  <1> QED
    BY <1>5, <1>6 DEF SessionStep, Sessions!Next

LEMMA RegisterRotates ==
  ASSUME SafeInv, SessionInv, NEW h \in Handler,
         \/ Register(h) \/ Login(h) \/ FindSlug(h) \/ FindEmail(h) \/ CreateAgency(h)
         \/ FindReplacement(h) \/ Abort(h)
  PROVE  SessionInv' /\ SessionStep
  <1>t. TypeOK
    BY DEF SafeInv
  <1>u. UNCHANGED <<owner, revoked, parent, held>>
    BY DEF Register, Login, FindSlug, FindEmail, CreateAgency, FindReplacement, Abort,
       tokenRows
  <1>1. CASE Finish(h)
    BY <1>t, <1>u, <1>1, Frame, Closed
  <1>2. CASE Register(h)
    <2>1. PICK u \in User, s \in Slug : Set(h, [NoRequest EXCEPT !.user = u, !.slug = s])
      BY <1>2 DEF Register
    <2>2. /\ [NoRequest EXCEPT !.user = u, !.slug = s].old = None
          /\ [NoRequest EXCEPT !.user = u, !.slug = s].new = None
      BY DEF NoRequest
    <2>3. req[h].old = None /\ req[h].new = None
      BY <1>2 DEF Register, SessionInv
    <2>4. /\ req'[h] = [NoRequest EXCEPT !.user = u, !.slug = s]
          /\ \A g \in Handler \ {h} : pc'[g] = pc[g] /\ req'[g] = req[g]
      BY <1>t, <1>2, <2>1, Frame DEF Register
    <2> QED
      BY <1>u, <2>2, <2>3, <2>4, Quiet
  <1>3. CASE Login(h)
    <2>1. PICK u \in Registered : Set(h, [NoRequest EXCEPT !.user = u])
      BY <1>3 DEF Login
    <2>2. /\ [NoRequest EXCEPT !.user = u].old = None
          /\ [NoRequest EXCEPT !.user = u].new = None
      BY DEF NoRequest
    <2>3. req[h].old = None /\ req[h].new = None
      BY <1>3 DEF Login, SessionInv
    <2>4. /\ req'[h] = [NoRequest EXCEPT !.user = u]
          /\ \A g \in Handler \ {h} : pc'[g] = pc[g] /\ req'[g] = req[g]
      BY <1>t, <1>3, <2>1, Frame DEF Login
    <2> QED
      BY <1>u, <2>2, <2>3, <2>4, Quiet
  <1>4. ASSUME NEW label, Goto(h, label), UNCHANGED req,
               FindSlug(h) \/ FindEmail(h) \/ CreateAgency(h)
        PROVE  SessionInv' /\ SessionStep
    <2>1. req[h].old = None /\ req[h].new = None
      BY <1>4 DEF FindSlug, FindEmail, CreateAgency, SessionInv
    <2> QED
      BY <1>t, <1>u, <1>4, <2>1, Frame, Quiet
  <1>5. CASE FindReplacement(h)
    BY <1>t, <1>u, <1>5, Frame, Quiet DEF FindReplacement
  <1> QED
    BY <1>1, <1>2, <1>3, <1>4, <1>5 DEF FindSlug, FindEmail, CreateAgency, Abort

LEMMA LogoutRotates ==
  ASSUME SafeInv, SessionInv, NEW t \in Token, Logout(t)
  PROVE  SessionInv' /\ SessionStep
  <1>1. SessionInv'
    BY DEF Logout, SessionInv
  <1>2. Sessions!Revoke(t)
    BY DEF Logout, Sessions!Revoke
  <1> QED
    BY <1>1, <1>2 DEF SessionStep, Sessions!Next

LEMMA NextSession == SafeInv /\ SessionInv /\ [Next]_vars => SessionInv' /\ SessionStep
  <1> SUFFICES ASSUME SafeInv, SessionInv, [Next]_vars PROVE SessionInv' /\ SessionStep
    OBVIOUS
  <1>1. CASE Tick \/ UNCHANGED vars
    <2>1. UNCHANGED <<owner, revoked, parent, held, pc, req>>
      BY <1>1 DEF Tick, vars, tokenRows
    <2>2. SessionInv'
      BY <2>1 DEF SessionInv
    <2>3. UNCHANGED Sessions!sessions
      BY <2>1 DEF Sessions!sessions
    <2> QED
      BY <2>2, <2>3 DEF SessionStep
  <1> QED
    BY <1>1, RefreshRotates, IssueTokensRotates, RevokeRotates, RespondRotates,
       RegisterRotates, LogoutRotates DEF Next, Step

(* Every step of the session service is one of TokenSessions or none:      *)
(* exchanges begin with live tokens clients hold, and answer with a token  *)
(* of their own after the old one is dead, however calls interleave and    *)
(* wherever they are cut off.                                              *)
THEOREM ImplementsSessions == Spec => SessionsSpec
  BY InitSafe, InitSession, NextSession, Safe, PTL
     DEF Spec, SessionsSpec, Sessions!Spec, SessionStep
-----------------------------------------------------------------------------
(* What the abstract sessions alone are enough for: the steps of           *)
(* TokenSessions, whatever else a service does, keep twins dead.           *)
TwinInv ==
    /\ owner \in [Token -> User \cup {None}] /\ parent \in [Token -> Token \cup {None}]
    /\ revoked \in [Token -> BOOLEAN]
    /\ \A t \in held : t \in Token /\ owner[t] # None
    /\ \A h \in Handler :
          /\ req[h].old # None => req[h].old \in Token
          /\ req[h].new # None => /\ req[h].new \in Token /\ owner[req[h].new] # None
                                  /\ parent[req[h].new] = req[h].old
    /\ DeliveredParentRevoked

LEMMA InitTwin == Sessions!Init => TwinInv
  <1> SUFFICES ASSUME Sessions!Init PROVE TwinInv
    OBVIOUS
  <1>1. \A h \in Handler : req[h].old = None /\ req[h].new = None
    <2> SUFFICES ASSUME NEW h \in Handler PROVE req[h].old = None /\ req[h].new = None
      OBVIOUS
    <2>1. /\ [g \in Handler |-> req[g].old][h] = [g \in Handler |-> None][h]
          /\ [g \in Handler |-> req[g].new][h] = [g \in Handler |-> None][h]
      BY DEF Sessions!Init
    <2> QED
      BY <2>1
  <1> QED
    BY <1>1 DEF Sessions!Init, TwinInv, DeliveredParentRevoked

LEMMA NextTwin == TwinInv /\ SessionStep => TwinInv'
  <1> SUFFICES ASSUME TwinInv, SessionStep PROVE TwinInv'
    OBVIOUS
  <1>1. ASSUME NEW x \in Handler, NEW k \in Token, Sessions!Present(x, k) PROVE TwinInv'
    <2>1. \A h \in Handler : /\ req'[h].old = IF h = x THEN k ELSE req[h].old
                             /\ req'[h].new = req[h].new
      BY <1>1 DEF Sessions!Present
    <2>2. req[x].new = None /\ UNCHANGED <<owner, revoked, parent, held>>
      BY <1>1 DEF Sessions!Present
    <2> QED
      BY <2>1, <2>2 DEF TwinInv, DeliveredParentRevoked
  <1>2. ASSUME NEW x \in Handler, NEW k \in Token, NEW u \in User, Sessions!Issue(x, k, u)
        PROVE  TwinInv'
    <2>1. \A h \in Handler : /\ req'[h].new = IF h = x THEN k ELSE req[h].new
                             /\ req'[h].old = req[h].old
      BY <1>2 DEF Sessions!Issue
    <2>2. /\ owner[k] = None /\ owner' = [owner EXCEPT ![k] = u]
          /\ parent' = [parent EXCEPT ![k] = req[x].old]
          /\ UNCHANGED <<revoked, held>>
      BY <1>2 DEF Sessions!Issue
    <2>3. u # None
      BY NoneAssumption
    <2>4. /\ owner' \in [Token -> User \cup {None}] /\ parent' \in [Token -> Token \cup {None}]
          /\ owner'[k] = u /\ parent'[k] = req[x].old
          /\ \A t \in Token : t # k => owner'[t] = owner[t] /\ parent'[t] = parent[t]
      BY <2>2 DEF TwinInv
    <2> QED
      BY <2>1, <2>2, <2>3, <2>4 DEF TwinInv, DeliveredParentRevoked
  <1>3. ASSUME NEW k \in Token, Sessions!Revoke(k) PROVE TwinInv'
    <2>1. \A h \in Handler : req'[h].old = req[h].old /\ req'[h].new = req[h].new
      BY <1>3 DEF Sessions!Revoke
    <2>2. revoked' = [revoked EXCEPT ![k] = TRUE] /\ UNCHANGED <<owner, parent, held>>
      BY <1>3 DEF Sessions!Revoke
    <2> QED
      BY <2>1, <2>2 DEF TwinInv, DeliveredParentRevoked
  <1>4. ASSUME NEW x \in Handler, Sessions!Close(x)
        PROVE  \A h \in Handler : /\ req'[h].old = IF h = x THEN None ELSE req[h].old
                                  /\ req'[h].new = IF h = x THEN None ELSE req[h].new
    BY <1>4 DEF Sessions!Close
  <1>5. ASSUME NEW x \in Handler, Sessions!Answer(x) PROVE TwinInv'
    <2>1. /\ held' = held \cup {req[x].new} /\ UNCHANGED <<owner, revoked, parent>>
          /\ req[x].new # None /\ (req[x].old # None => revoked[req[x].old])
      BY <1>5 DEF Sessions!Answer
    <2> QED
      BY <1>4, <1>5, <2>1 DEF Sessions!Answer, TwinInv, DeliveredParentRevoked
  <1>6. ASSUME NEW x \in Handler, Sessions!Abandon(x) PROVE TwinInv'
    BY <1>4, <1>6 DEF Sessions!Abandon, TwinInv, DeliveredParentRevoked
  <1>7. CASE UNCHANGED Sessions!sessions
    <2>1. \A h \in Handler : req'[h].old = req[h].old /\ req'[h].new = req[h].new
      BY <1>7 DEF Sessions!sessions
    <2>2. UNCHANGED <<owner, revoked, parent, held>>
      BY <1>7 DEF Sessions!sessions
    <2> QED
      BY <2>1, <2>2 DEF TwinInv, DeliveredParentRevoked
  <1> QED
    BY <1>1, <1>2, <1>3, <1>5, <1>6, <1>7 DEF SessionStep, Sessions!Next

(* TokenSessions alone keeps a client from having two live tokens of one   *)
(* exchange: whatever implements it does, as AuthSessions does here.       *)
THEOREM SessionsKeepTwinsDead == SessionsSpec => []DeliveredParentRevoked
  <1>1. TwinInv => DeliveredParentRevoked
    BY DEF TwinInv
  <1> QED
    BY <1>1, InitTwin, NextTwin, PTL DEF SessionsSpec, Sessions!Spec, SessionStep
=============================================================================
