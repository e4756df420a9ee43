---------------------------- MODULE PortalProofs -----------------------------
(***************************************************************************)
(* Proofs about Portal, for every set of agencies, tenants, leases,        *)
(* threads, messages, profiles and requests in flight.                     *)
(***************************************************************************)
EXTENDS Portal, TLAPS

-----------------------------------------------------------------------------
(* What a message handler knows when it makes its next call.  At "stamp"   *)
(* and "touch" it has a message in its thread; the time it is about to     *)
(* write was read after the message was stored.                            *)
Sound(h) ==
    LET r == req[h]
    IN  /\ pc[h] \in {"findLease", "createThread"} =>
              /\ r.me = None /\ r.ctx \in Staff /\ r.tenant \in Tenant
              /\ Visible(r.ctx, "Tenant", "findFirst", Home[r.tenant])
        /\ pc[h] = "findLease" => r.lease = None
        /\ pc[h] = "createThread" /\ r.lease # None =>
              Visible(r.ctx, "Lease", "findFirst", Home[r.lease])
        /\ pc[h] \in {"store", "mark", "stamp", "touch"} =>
              r.thread \in Opened /\ PartyTo(r, r.thread)
        /\ pc[h] \in {"stamp", "touch"} =>
              /\ r.message \in Sent
              /\ message[r.message].thread = r.thread
        /\ pc[h] \notin {"stamp", "touch"} => r.message = None
        /\ pc[h] = "touch" => message[r.message].sentAt <= r.at

(* A message that is not disturbed was stored before any that is still     *)
(* being sent in its thread, or is that one itself.                        *)
InOrder ==
    \A t \in Thread : \A h \in Sending(t), m \in Sent \ disturbed :
        message[m].thread = t => message[m].sentAt <= message[req[h].message].sentAt

MessagingInv ==
    /\ now \in Nat
    /\ MessagingTypeOK
    /\ \A h \in Handler : Sound(h)
    /\ \A m \in Sent : message[m].sentAt <= now
    /\ InOrder
    /\ LastMessageCurrent

(* What a profile request knows.  seen is a setting the profile had while  *)
(* public, and every section shown so far was queried as the middleware    *)
(* has it.                                                                 *)
Informed(c) ==
    LET v == view[c]
        hidden == {s \in v.shown :
                     ~Visible(v.ctx, ModelOf[s], ActionOf[s], Residence[v.subject])}
    IN  /\ stage[c] # "idle" => v.subject \in Subject
        /\ stage[c] \in {"find", "create", "update"} /\ v.writes =>
              v.ctx.agency = Residence[v.subject]
        /\ stage[c] = "update" => v.writes
        /\ stage[c] \in {"show", "answer"} =>
              /\ v.seen \in was[v.subject] /\ "isPublic" \in v.seen
              /\ v.shown \subseteq v.seen \cap Section
              /\ v.bare = hidden
        /\ stage[c] = "answer" => v.shown = v.seen \cap Section

ProfileInv ==
    /\ ProfileTypeOK
    /\ \A t \in Subject : profile[t] # None => profile[t] \in was[t]
    /\ \A c \in Client : Informed(c)

SafeInv == MessagingInv /\ ProfileInv

-----------------------------------------------------------------------------
LEMMA NoRequestType == NoRequest \in Request
  BY DEF NoRequest, Request, AnyToken

LEMMA NoViewType == NoView \in View
  BY DEF NoView, View, AnyToken

LEMMA StaffType == Staff \subseteq UserToken /\ UserToken \subseteq AnyToken
  BY DEF Staff, AnyToken

(* A staff token comes up with rows of its own agency only, unless it is   *)
(* a system administrator's.                                               *)
LEMMA StaffSees ==
  ASSUME NEW ctx \in Staff, NEW model \in TenantModels, NEW a,
         Visible(ctx, model, "findFirst", a)
  PROVE  ctx.role = "SYSTEM_ADMIN" \/ a = ctx.agency
  BY NoneAssumption DEF Staff, UserToken, Visible, Enforced, ScopedActions

LEMMA InitSafe == Init => SafeInv
  <1> SUFFICES ASSUME Init PROVE SafeInv
    OBVIOUS
  <1>1. MessagingTypeOK /\ now \in Nat
    BY NoRequestType DEF Init, MessagingInit, MessagingTypeOK, PC, Sent
  <1>2. ASSUME NEW h \in Handler PROVE Sound(h)
    BY DEF Init, MessagingInit, Sound, NoRequest
  <1>3. Sent = {}
    BY DEF Init, MessagingInit, Sent
  <1>4. ProfileTypeOK
    BY NoViewType DEF Init, ProfileInit, ProfileTypeOK, Stage
  <1>5. ASSUME NEW c \in Client PROVE Informed(c)
    BY DEF Init, ProfileInit, Informed
  <1> QED
    BY <1>1, <1>2, <1>3, <1>4, <1>5
       DEF SafeInv, MessagingInv, ProfileInv, InOrder, LastMessageCurrent, Init, ProfileInit

-----------------------------------------------------------------------------
(* Messaging: what its steps leave alone.                                  *)
Begin(h) ==
    \/ FindTenant(h)
    \/ \E t \in Opened : GetThread(h, t) \/ GetMyThread(h, t)

LEMMA MessagingCases ==
  ASSUME MessagingNext
  PROVE  \E h \in Handler :
            \/ Begin(h) \/ FindLease(h) \/ CreateThread(h) \/ StoreMessage(h) \/ Stamp(h)
            \/ TouchThread(h) \/ MarkAsRead(h) \/ AbortMessaging(h)
  BY DEF MessagingNext, MessagingController, TenantMessagingController, MessagingStep, Begin

LEMMA StoredContent ==
  ASSUME MessagingInv, NEW h \in Handler, StoreMessage(h)
  PROVE  \E m \in Message \ Sent :
            /\ message' = [message EXCEPT ![m] =
                  [thread |-> req[h].thread, side |-> SideOf(req[h]), sentAt |-> now]]
            /\ req' = [req EXCEPT ![h] = [req[h] EXCEPT !.message = m]]
            /\ message'[m] \in Content
            /\ message'[m] = [thread |-> req[h].thread, side |-> SideOf(req[h]), sentAt |-> now]
            /\ disturbed' = IF Sending(req[h].thread) = {} THEN disturbed
                            ELSE disturbed \cup {m}
            /\ Sent' = Sent \cup {m}
            /\ \A x \in Message \ {m} : message'[x] = message[x]
  <1>1. PICK m \in Message \ Sent :
            /\ message' = [message EXCEPT ![m] =
                  [thread |-> req[h].thread, side |-> SideOf(req[h]), sentAt |-> now]]
            /\ req' = [req EXCEPT ![h] = [req[h] EXCEPT !.message = m]]
            /\ disturbed' = IF Sending(req[h].thread) = {} THEN disturbed
                            ELSE disturbed \cup {m}
    BY DEF StoreMessage, Set
  <1>2. req[h].thread \in Thread
    BY DEF MessagingInv, Sound, StoreMessage, Opened
  <1>3. message'[m] = [thread |-> req[h].thread, side |-> SideOf(req[h]), sentAt |-> now]
    BY <1>1 DEF MessagingInv, MessagingTypeOK
  <1>4. message'[m] \in Content
    BY <1>2, <1>3 DEF Content, Side, SideOf, MessagingInv
  <1>5. \A x \in Message \ {m} : message'[x] = message[x]
    BY <1>1 DEF MessagingInv, MessagingTypeOK
  <1>6. Sent' = Sent \cup {m}
    BY <1>4, <1>5, NoneAssumption DEF Sent
  <1> QED
    BY <1>1, <1>3, <1>4, <1>5, <1>6

LEMMA RowsStay ==
  ASSUME MessagingInv, MessagingNext
  PROVE  /\ \A t \in Opened : thread'[t] = thread[t]
         /\ Opened \subseteq Opened'
         /\ \A m \in Sent : message'[m] = message[m]
         /\ Sent \subseteq Sent'
         /\ disturbed \subseteq disturbed'
  <1> USE DEF MessagingInv
  <1>1. PICK h \in Handler :
            \/ Begin(h) \/ FindLease(h) \/ CreateThread(h) \/ StoreMessage(h) \/ Stamp(h)
            \/ TouchThread(h) \/ MarkAsRead(h) \/ AbortMessaging(h)
    BY MessagingCases
  <1>2. CASE CreateThread(h)
    <2>1. \A t \in Opened : thread'[t] = thread[t]
      BY <1>2 DEF CreateThread, MessagingTypeOK
    <2> QED
      BY <1>2, <2>1 DEF CreateThread, Opened, Sent
  <1>3. CASE StoreMessage(h)
    <2>1. UNCHANGED thread /\ disturbed \subseteq disturbed'
      BY <1>3 DEF StoreMessage
    <2>2. PICK m \in Message \ Sent : /\ Sent' = Sent \cup {m}
                                     /\ \A x \in Message \ {m} : message'[x] = message[x]
      BY <1>3, StoredContent
    <2>3. Sent \subseteq Message \ {m}
      BY DEF Sent
    <2> QED
      BY <2>1, <2>2, <2>3 DEF Opened
  <1>4. CASE AbortMessaging(h)
    <2>1. UNCHANGED <<thread, message>> /\ disturbed \subseteq disturbed'
      BY <1>4 DEF AbortMessaging
    <2> QED
      BY <2>1 DEF Opened, Sent
  <1>5. CASE Begin(h) \/ FindLease(h) \/ Stamp(h) \/ TouchThread(h) \/ MarkAsRead(h)
    BY <1>5 DEF Begin, FindTenant, FindLease, Stamp, TouchThread, MarkAsRead, GetThread,
       GetMyThread, rows, Opened, Sent
  <1> QED
    BY <1>1, <1>2, <1>3, <1>4, <1>5

LEMMA OthersStay ==
  ASSUME MessagingInv, NEW h \in Handler, NEW k \in Handler \ {h},
         \/ Begin(h) \/ FindLease(h) \/ CreateThread(h) \/ StoreMessage(h) \/ Stamp(h)
         \/ TouchThread(h) \/ MarkAsRead(h) \/ AbortMessaging(h)
  PROVE  pc'[k] = pc[k] /\ req'[k] = req[k]
  BY DEF Begin, MessagingInv, MessagingTypeOK, Finish, Goto, Set, FindTenant, FindLease,
     CreateThread, GetThread, GetMyThread, StoreMessage, Stamp, TouchThread, MarkAsRead,
     AbortMessaging

-----------------------------------------------------------------------------
(* Messaging: each part of the invariant under a step of its own.          *)
LEMMA MessagingTypeStep ==
  ASSUME MessagingInv, MessagingNext, now' = now
  PROVE  MessagingTypeOK'
  <1>t. MessagingTypeOK /\ now \in Nat
    BY DEF MessagingInv
  <1>1. PICK h \in Handler :
            \/ Begin(h) \/ FindLease(h) \/ CreateThread(h) \/ StoreMessage(h) \/ Stamp(h)
            \/ TouchThread(h) \/ MarkAsRead(h) \/ AbortMessaging(h)
    BY MessagingCases
  <1>f. Finish(h) => pc' \in [Handler -> PC] /\ req' \in [Handler -> Request]
    BY <1>t, NoRequestType DEF Finish, Goto, Set, MessagingTypeOK, PC
  <1>2. CASE Begin(h)
    <2>1. ASSUME NEW ctx \in AnyToken, NEW me \in Tenant \cup {None},
                 NEW x \in Tenant \cup {None}, NEW t \in Thread \cup {None}
          PROVE  [NoRequest EXCEPT !.ctx = ctx, !.me = me, !.tenant = x, !.thread = t] \in Request
      BY DEF NoRequest, Request
    <2>2. req' \in [Handler -> Request]
      <3>1. CASE FindTenant(h)
        <4>1. PICK ctx \in Staff, x \in Tenant :
                 req' = [req EXCEPT ![h] = [NoRequest EXCEPT !.ctx = ctx, !.tenant = x]]
          BY <3>1 DEF FindTenant, Set
        <4>2. [NoRequest EXCEPT !.ctx = ctx, !.tenant = x] \in Request
          BY StaffType DEF NoRequest, Request
        <4> QED
          BY <1>t, <4>1, <4>2 DEF MessagingTypeOK
      <3>2. ASSUME NEW t \in Opened, GetThread(h, t) PROVE req' \in [Handler -> Request]
        <4>1. PICK ctx \in Staff :
                 req' = [req EXCEPT ![h] = [NoRequest EXCEPT !.ctx = ctx, !.thread = t]]
          BY <3>2 DEF GetThread, Set
        <4>2. [NoRequest EXCEPT !.ctx = ctx, !.thread = t] \in Request
          BY StaffType DEF NoRequest, Request, Opened
        <4> QED
          BY <1>t, <4>1, <4>2 DEF MessagingTypeOK
      <3>3. ASSUME NEW t \in Opened, GetMyThread(h, t) PROVE req' \in [Handler -> Request]
        <4>1. PICK me \in Tenant :
                 req' = [req EXCEPT ![h] = [NoRequest EXCEPT
                           !.ctx = [agency |-> Home[me], role |-> None], !.me = me, !.thread = t]]
          BY <3>3 DEF GetMyThread, Set
        <4>2. [agency |-> Home[me], role |-> None] \in AnyToken
          BY HomeAssumption DEF AnyToken, TenantToken
        <4>3. [NoRequest EXCEPT !.ctx = [agency |-> Home[me], role |-> None],
                                !.me = me, !.thread = t] \in Request
          BY <4>2 DEF NoRequest, Request, Opened
        <4> QED
          BY <1>t, <4>1, <4>3 DEF MessagingTypeOK
      <3> QED
        BY <1>2, <3>1, <3>2, <3>3 DEF Begin
    <2>3. pc' \in [Handler -> PC]
      BY <1>t, <1>2 DEF Begin, FindTenant, GetThread, GetMyThread, Goto, MessagingTypeOK, PC
    <2>4. UNCHANGED rows
      BY <1>2 DEF Begin, FindTenant, GetThread, GetMyThread
    <2> QED
      BY <1>t, <2>2, <2>3, <2>4 DEF MessagingTypeOK, rows, Sent
  <1>3. CASE FindLease(h)
    <2>1. PICK l \in Lease : req' = [req EXCEPT ![h] = [req[h] EXCEPT !.lease = l]]
      BY <1>3 DEF FindLease, Set
    <2>2. [req[h] EXCEPT !.lease = l] \in Request
      BY <1>t DEF MessagingTypeOK, Request
    <2> QED
      BY <1>t, <1>3, <2>1, <2>2 DEF FindLease, Goto, MessagingTypeOK, PC, rows, Sent
  <1>4. CASE CreateThread(h)
    <2>1. PICK t \in Thread \ Opened :
            thread' = [thread EXCEPT ![t] = [agency |-> req[h].ctx.agency,
                                             tenant |-> req[h].tenant, lease |-> req[h].lease]]
      BY <1>4 DEF CreateThread
    <2>2. req[h].ctx \in Staff /\ req[h].tenant \in Tenant /\ req[h].lease \in Lease \cup {None}
      BY <1>t, <1>4 DEF CreateThread, MessagingInv, Sound, MessagingTypeOK, Request
    <2>3. [agency |-> req[h].ctx.agency, tenant |-> req[h].tenant, lease |-> req[h].lease]
             \in Parties
      BY <2>2 DEF Parties, Staff, UserToken
    <2>4. thread' \in [Thread -> Parties \cup {None}]
      BY <1>t, <2>1, <2>3 DEF MessagingTypeOK
    <2> QED
      BY <1>t, <1>4, <1>f, <2>4 DEF CreateThread, MessagingTypeOK, Sent
  <1>5. CASE StoreMessage(h)
    <2>1. PICK m \in Message \ Sent :
            /\ message' = [message EXCEPT ![m] =
                  [thread |-> req[h].thread, side |-> SideOf(req[h]), sentAt |-> now]]
            /\ req' = [req EXCEPT ![h] = [req[h] EXCEPT !.message = m]]
            /\ message'[m] \in Content
            /\ message'[m] = [thread |-> req[h].thread, side |-> SideOf(req[h]), sentAt |-> now]
            /\ disturbed' = IF Sending(req[h].thread) = {} THEN disturbed
                            ELSE disturbed \cup {m}
            /\ Sent' = Sent \cup {m}
      BY <1>5, StoredContent
    <2>2. message' \in [Message -> Content \cup {None}]
      BY <1>t, <2>1 DEF MessagingTypeOK
    <2>3. [req[h] EXCEPT !.message = m] \in Request
      BY <1>t DEF MessagingTypeOK, Request
    <2>4. read' \subseteq Sent' /\ disturbed' \subseteq Sent'
      BY <1>t, <1>5, <2>1 DEF StoreMessage, MessagingTypeOK
    <2> QED
      BY <1>t, <1>5, <2>1, <2>2, <2>3, <2>4 DEF StoreMessage, Goto, MessagingTypeOK, PC
  <1>6. CASE Stamp(h)
    <2>1. [req[h] EXCEPT !.at = now] \in Request
      BY <1>t DEF MessagingTypeOK, Request
    <2> QED
      BY <1>t, <1>6, <2>1 DEF Stamp, Goto, Set, MessagingTypeOK, PC, rows, Sent
  <1>7. CASE TouchThread(h)
    <2>1. req[h].at \in Nat
      BY <1>t DEF MessagingTypeOK, Request
    <2> QED
      BY <1>t, <1>7, <1>f, <2>1 DEF TouchThread, MessagingTypeOK, Sent
  <1>8. CASE MarkAsRead(h)
    BY <1>t, <1>8, <1>f DEF MarkAsRead, MessagingTypeOK, Sent
  <1>9. CASE AbortMessaging(h)
    <2>1. req[h].message # None => req[h].message \in Sent
      BY <1>t DEF MessagingInv, Sound, MessagingTypeOK
    <2> QED
      BY <1>t, <1>9, <1>f, <2>1 DEF AbortMessaging, MessagingTypeOK, Sent
  <1> QED
    BY <1>1, <1>2, <1>3, <1>4, <1>5, <1>6, <1>7, <1>8, <1>9

(* What a handler knows survives the steps of others, because rows do.     *)
LEMMA SoundStable ==
  ASSUME MessagingInv, MessagingNext, NEW k \in Handler, pc'[k] = pc[k], req'[k] = req[k]
  PROVE  Sound(k)'
  <1>1. /\ \A t \in Opened : thread'[t] = thread[t]
        /\ Opened \subseteq Opened'
        /\ \A m \in Sent : message'[m] = message[m]
        /\ Sent \subseteq Sent'
    BY RowsStay
  <1>2. Sound(k)
    BY DEF MessagingInv
  <1> QED
    BY <1>1, <1>2 DEF Sound, PartyTo

LEMMA SoundStep ==
  ASSUME MessagingInv, MessagingNext, now' = now, NEW k \in Handler
  PROVE  Sound(k)'
  <1>t. MessagingTypeOK /\ now \in Nat /\ Sound(k)
    BY DEF MessagingInv
  <1>r. /\ \A t \in Opened : thread'[t] = thread[t]
        /\ Opened \subseteq Opened'
        /\ \A m \in Sent : message'[m] = message[m]
        /\ Sent \subseteq Sent'
    BY RowsStay
  <1>1. PICK h \in Handler :
            \/ Begin(h) \/ FindLease(h) \/ CreateThread(h) \/ StoreMessage(h) \/ Stamp(h)
            \/ TouchThread(h) \/ MarkAsRead(h) \/ AbortMessaging(h)
    BY MessagingCases
  <1>2. CASE k # h
    BY <1>1, <1>2, OthersStay, SoundStable
  <1>f. ASSUME k = h, Finish(h) PROVE Sound(k)'
    BY <1>f, <1>t DEF Finish, Goto, Set, MessagingTypeOK, Sound, NoRequest
  <1>3. CASE k = h /\ Begin(h)
    <2>1. CASE FindTenant(h)
      <3>1. PICK ctx \in Staff, x \in Tenant :
               /\ Visible(ctx, "Tenant", "findFirst", Home[x])
               /\ req'[k] = [NoRequest EXCEPT !.ctx = ctx, !.tenant = x]
        BY <1>t, <1>3, <2>1 DEF FindTenant, Set, MessagingTypeOK
      <3>2. pc'[k] \in {"findLease", "createThread"}
        BY <1>t, <1>3, <2>1 DEF FindTenant, Goto, MessagingTypeOK
      <3>3. /\ req'[k].ctx = ctx /\ req'[k].tenant = x /\ req'[k].me = None
            /\ req'[k].lease = None /\ req'[k].message = None
        BY <3>1 DEF NoRequest
      <3> QED
        BY <3>1, <3>2, <3>3 DEF Sound
    <2>2. ASSUME NEW t \in Opened, GetThread(h, t) PROVE Sound(k)'
      <3>1. PICK ctx \in Staff :
               /\ Visible(ctx, "MessageThread", "findFirst", thread[t].agency)
               /\ req'[k] = [NoRequest EXCEPT !.ctx = ctx, !.thread = t]
        BY <1>t, <1>3, <2>2 DEF GetThread, Set, MessagingTypeOK
      <3>2. pc'[k] \in {"store", "mark"}
        BY <1>t, <1>3, <2>2 DEF GetThread, Goto, MessagingTypeOK
      <3>3. /\ req'[k].ctx = ctx /\ req'[k].thread = t /\ req'[k].me = None
            /\ req'[k].message = None
        BY <3>1 DEF NoRequest
      <3>4. ctx.role = "SYSTEM_ADMIN" \/ thread[t].agency = ctx.agency
        BY <3>1, StaffSees DEF TenantModels
      <3> QED
        BY <1>r, <3>2, <3>3, <3>4 DEF Sound, PartyTo
    <2>3. ASSUME NEW t \in Opened, GetMyThread(h, t) PROVE Sound(k)'
      <3>1. PICK me \in Tenant :
               /\ thread[t].tenant = me
               /\ req'[k] = [NoRequest EXCEPT
                           !.ctx = [agency |-> Home[me], role |-> None], !.me = me, !.thread = t]
        BY <1>t, <1>3, <2>3 DEF GetMyThread, Set, MessagingTypeOK
      <3>2. pc'[k] \in {"store", "mark"}
        BY <1>t, <1>3, <2>3 DEF GetMyThread, Goto, MessagingTypeOK
      <3>3. req'[k].thread = t /\ req'[k].me = me /\ req'[k].message = None
        BY <3>1 DEF NoRequest
      <3> QED
        BY <1>r, <3>1, <3>2, <3>3, NoneAssumption DEF Sound, PartyTo
    <2> QED
      BY <1>3, <2>1, <2>2, <2>3 DEF Begin
  <1>4. CASE k = h /\ FindLease(h)
    <2>1. PICK l \in Lease : /\ Visible(req[h].ctx, "Lease", "findFirst", Home[l])
                             /\ req'[k] = [req[h] EXCEPT !.lease = l]
      BY <1>t, <1>4 DEF FindLease, Set, MessagingTypeOK
    <2>2. req[h] \in Request
      BY <1>t DEF MessagingTypeOK
    <2>3. /\ req'[k].me = req[h].me /\ req'[k].ctx = req[h].ctx /\ req'[k].tenant = req[h].tenant
          /\ req'[k].lease = l /\ req'[k].message = req[h].message
      BY <2>1, <2>2 DEF Request
    <2>4. pc[h] = "findLease" /\ pc'[k] = "createThread"
      BY <1>t, <1>4 DEF FindLease, Goto, MessagingTypeOK
    <2> QED
      BY <1>t, <1>4, <2>1, <2>3, <2>4 DEF Sound
  <1>5. CASE k = h /\ StoreMessage(h)
    <2>1. PICK m \in Message \ Sent :
            /\ req' = [req EXCEPT ![h] = [req[h] EXCEPT !.message = m]]
            /\ message'[m] = [thread |-> req[h].thread, side |-> SideOf(req[h]), sentAt |-> now]
            /\ Sent' = Sent \cup {m}
      BY <1>5, StoredContent
    <2>2. req[h] \in Request
      BY <1>t DEF MessagingTypeOK
    <2>3. /\ req'[k].me = req[h].me /\ req'[k].ctx = req[h].ctx /\ req'[k].thread = req[h].thread
          /\ req'[k].message = m
      BY <1>t, <1>5, <2>1, <2>2 DEF Request, MessagingTypeOK
    <2>4. pc[h] = "store" /\ pc'[k] = "stamp"
      BY <1>t, <1>5 DEF StoreMessage, Goto, MessagingTypeOK
    <2> QED
      BY <1>t, <1>r, <1>5, <2>1, <2>3, <2>4 DEF Sound, PartyTo
  <1>6. CASE k = h /\ Stamp(h)
    <2>1. req'[k] = [req[h] EXCEPT !.at = now] /\ UNCHANGED rows
      BY <1>t, <1>6 DEF Stamp, Set, MessagingTypeOK
    <2>2. req[h] \in Request
      BY <1>t DEF MessagingTypeOK
    <2>3. /\ req'[k].me = req[h].me /\ req'[k].ctx = req[h].ctx /\ req'[k].thread = req[h].thread
          /\ req'[k].message = req[h].message /\ req'[k].at = now
      BY <2>1, <2>2 DEF Request
    <2>4. pc[h] = "stamp" /\ pc'[k] = "touch"
      BY <1>t, <1>6 DEF Stamp, Goto, MessagingTypeOK
    <2>5. \A m \in Sent : message[m].sentAt <= now
      BY DEF MessagingInv
    <2> QED
      BY <1>t, <1>r, <1>6, <2>3, <2>4, <2>5 DEF Sound, PartyTo
  <1>7. CASE k = h /\ (CreateThread(h) \/ TouchThread(h) \/ MarkAsRead(h) \/ AbortMessaging(h))
    BY <1>7, <1>f DEF CreateThread, TouchThread, MarkAsRead, AbortMessaging
  <1> QED
    BY <1>1, <1>2, <1>3, <1>4, <1>5, <1>6, <1>7

(* Every step is a store, the end of a sender, or leaves messages, times   *)
(* and senders as they are.                                                *)
LEMMA SendersStay ==
  ASSUME MessagingInv, NEW h \in Handler,
         \/ Begin(h) \/ FindLease(h) \/ CreateThread(h) \/ Stamp(h) \/ MarkAsRead(h)
  PROVE  /\ UNCHANGED <<lastMessageAt, message, disturbed>>
         /\ \A t \in Thread : Sending(t)' = Sending(t)
         /\ \A t \in Thread : \A k \in Sending(t) : req'[k].message = req[k].message
  <1>t. MessagingTypeOK /\ Sound(h)
    BY DEF MessagingInv
  <1>1. UNCHANGED <<lastMessageAt, message, disturbed>>
    BY DEF Begin, FindTenant, GetThread, GetMyThread, FindLease, CreateThread, Stamp,
       MarkAsRead, rows
  <1>2. \A k \in Handler \ {h} : pc'[k] = pc[k] /\ req'[k] = req[k]
    BY OthersStay
  <1>3. CASE Stamp(h)
    <2>1. /\ pc[h] = "stamp" /\ pc'[h] = "touch"
          /\ req'[h].thread = req[h].thread /\ req'[h].message = req[h].message
      BY <1>t, <1>3 DEF Stamp, Goto, Set, MessagingTypeOK, Request
    <2> QED
      BY <1>1, <1>2, <2>1 DEF Sending
  <1>4. CASE Begin(h) \/ FindLease(h) \/ CreateThread(h) \/ MarkAsRead(h)
    <2>1. pc[h] \notin {"stamp", "touch"} /\ pc'[h] \notin {"stamp", "touch"}
      BY <1>t, <1>4 DEF Begin, FindTenant, GetThread, GetMyThread, FindLease, CreateThread,
         MarkAsRead, Finish, Goto, MessagingTypeOK
    <2> QED
      BY <1>1, <1>2, <2>1 DEF Sending
  <1> QED
    BY <1>1, <1>3, <1>4

LEMMA SenderLeaves ==
  ASSUME MessagingInv, NEW h \in Handler, TouchThread(h) \/ AbortMessaging(h)
  PROVE  /\ UNCHANGED message
         /\ \A t \in Thread : Sending(t)' = Sending(t) \ {h}
         /\ \A k \in Handler \ {h} : req'[k] = req[k]
  <1>1. MessagingTypeOK
    BY DEF MessagingInv
  <1>2. UNCHANGED message /\ pc'[h] = "idle"
    BY <1>1 DEF TouchThread, AbortMessaging, Finish, Goto, MessagingTypeOK
  <1>3. \A k \in Handler \ {h} : pc'[k] = pc[k] /\ req'[k] = req[k]
    BY OthersStay
  <1> QED
    BY <1>2, <1>3 DEF Sending

LEMMA TimesStep ==
  ASSUME MessagingInv, MessagingNext, now' = now
  PROVE  (\A m \in Sent : message[m].sentAt <= now)'
  <1>1. PICK h \in Handler :
            \/ Begin(h) \/ FindLease(h) \/ CreateThread(h) \/ StoreMessage(h) \/ Stamp(h)
            \/ TouchThread(h) \/ MarkAsRead(h) \/ AbortMessaging(h)
    BY MessagingCases
  <1>2. now \in Nat /\ \A m \in Sent : message[m].sentAt <= now
    BY DEF MessagingInv
  <1>3. CASE StoreMessage(h)
    <2>1. PICK m \in Message \ Sent :
            /\ message'[m] = [thread |-> req[h].thread, side |-> SideOf(req[h]), sentAt |-> now]
            /\ Sent' = Sent \cup {m}
      BY <1>3, StoredContent
    <2> QED
      BY <1>2, <2>1, RowsStay
  <1>4. CASE ~StoreMessage(h)
    <2>1. UNCHANGED message
      BY <1>1, <1>4, SendersStay, SenderLeaves
    <2> QED
      BY <1>2, <2>1 DEF Sent
  <1> QED
    BY <1>3, <1>4

LEMMA OrderStep ==
  ASSUME MessagingInv, MessagingNext, now' = now
  PROVE  InOrder'
  <1>1. PICK h \in Handler :
            \/ Begin(h) \/ FindLease(h) \/ CreateThread(h) \/ StoreMessage(h) \/ Stamp(h)
            \/ TouchThread(h) \/ MarkAsRead(h) \/ AbortMessaging(h)
    BY MessagingCases
  <1>2. /\ InOrder /\ now \in Nat /\ MessagingTypeOK
        /\ \A m \in Sent : message[m].sentAt <= now
        /\ \A k \in Handler : Sound(k)
    BY DEF MessagingInv
  <1>3. CASE StoreMessage(h)
    <2>1. PICK m \in Message \ Sent :
            /\ req' = [req EXCEPT ![h] = [req[h] EXCEPT !.message = m]]
            /\ message'[m] = [thread |-> req[h].thread, side |-> SideOf(req[h]), sentAt |-> now]
            /\ disturbed' = IF Sending(req[h].thread) = {} THEN disturbed
                            ELSE disturbed \cup {m}
            /\ Sent' = Sent \cup {m}
            /\ \A x \in Message \ {m} : message'[x] = message[x]
      BY <1>3, StoredContent
    <2>2. req'[h].message = m /\ req'[h].thread = req[h].thread
      BY <1>2, <2>1 DEF MessagingTypeOK, Request
    <2>3. \A k \in Handler \ {h} : pc'[k] = pc[k] /\ req'[k] = req[k]
      BY <1>3, OthersStay
    <2>4. SUFFICES ASSUME NEW t \in Thread, NEW k \in Sending(t)', NEW x \in (Sent \ disturbed)',
                          message'[x].thread = t
                   PROVE  message'[x].sentAt <= message'[req'[k].message].sentAt
      BY DEF InOrder
    <2>5. CASE k = h
      BY <1>2, <2>1, <2>2, <2>5, RowsStay
    <2>6. CASE k # h
      <3>1. k \in Sending(t)
        BY <2>3, <2>6 DEF Sending
      <3>2. req'[k].message = req[k].message /\ req[k].message \in Sent
        BY <1>2, <2>3, <2>6, <3>1 DEF Sending, Sound
      <3>3. x # m
        BY <2>1, <2>4, <3>1
      <3>4. x \in Sent \ disturbed
        BY <2>1, <3>3
      <3>5. message'[x] = message[x] /\ message'[req[k].message] = message[req[k].message]
        BY <3>2, <3>4, RowsStay
      <3> QED
        BY <1>2, <2>4, <3>1, <3>2, <3>4, <3>5 DEF InOrder
    <2> QED
      BY <2>5, <2>6
  <1>4. CASE TouchThread(h) \/ AbortMessaging(h)
    BY <1>2, <1>4, SenderLeaves, RowsStay DEF InOrder, Sent, Sending
  <1>5. CASE Begin(h) \/ FindLease(h) \/ CreateThread(h) \/ Stamp(h) \/ MarkAsRead(h)
    BY <1>2, <1>5, SendersStay DEF InOrder, Sent
  <1> QED
    BY <1>1, <1>3, <1>4, <1>5

(* What a sender writes is no earlier than any message that counts: its    *)
(* own, and by InOrder every other.                                        *)
LEMMA CurrentStep ==
  ASSUME MessagingInv, MessagingNext, now' = now
  PROVE  LastMessageCurrent'
  <1>1. PICK h \in Handler :
            \/ Begin(h) \/ FindLease(h) \/ CreateThread(h) \/ StoreMessage(h) \/ Stamp(h)
            \/ TouchThread(h) \/ MarkAsRead(h) \/ AbortMessaging(h)
    BY MessagingCases
  <1>2. /\ InOrder /\ now \in Nat /\ MessagingTypeOK /\ LastMessageCurrent
        /\ \A k \in Handler : Sound(k)
    BY DEF MessagingInv
  <1>3. SUFFICES ASSUME NEW m \in (Sent \ disturbed)',
                        NEW t, t = message'[m].thread,
                        \A k \in Sending(t)' : req'[k].message # m
                 PROVE  lastMessageAt'[t] # None /\ lastMessageAt'[t] >= message'[m].sentAt
    BY DEF LastMessageCurrent
  <1>4. CASE StoreMessage(h)
    <2>1. PICK x \in Message \ Sent :
            /\ req' = [req EXCEPT ![h] = [req[h] EXCEPT !.message = x]]
            /\ message'[x] = [thread |-> req[h].thread, side |-> SideOf(req[h]), sentAt |-> now]
            /\ Sent' = Sent \cup {x}
      BY <1>4, StoredContent
    <2>2. /\ req'[h].message = x /\ req'[h].thread = req[h].thread
          /\ pc[h] = "store" /\ pc'[h] = "stamp" /\ UNCHANGED lastMessageAt
      BY <1>2, <1>4, <2>1 DEF StoreMessage, Goto, MessagingTypeOK, Request
    <2>3. m # x
      BY <1>3, <2>1, <2>2 DEF Sending
    <2>4. m \in Sent \ disturbed /\ message'[m] = message[m]
      BY <2>1, <2>3, RowsStay
    <2>5. \A k \in Handler \ {h} : pc'[k] = pc[k] /\ req'[k] = req[k]
      BY <1>4, OthersStay
    <2>6. \A k \in Sending(t) : req[k].message # m
      BY <1>3, <2>2, <2>5 DEF Sending
    <2> QED
      BY <1>2, <1>3, <2>2, <2>4, <2>6 DEF LastMessageCurrent
  <1>5. CASE TouchThread(h)
    <2>1. /\ m \in Sent \ disturbed /\ message'[m] = message[m] /\ t \in Thread
          /\ UNCHANGED disturbed
      BY <1>2, <1>3, <1>5, RowsStay DEF TouchThread, MessagingTypeOK, Content, Sent
    <2>2. /\ lastMessageAt' = [lastMessageAt EXCEPT ![req[h].thread] = req[h].at]
          /\ h \in Sending(req[h].thread)
          /\ req[h].thread \in Thread /\ req[h].at \in Nat
          /\ req[h].message \in Sent /\ message[req[h].message].sentAt <= req[h].at
      BY <1>2, <1>5 DEF TouchThread, Sending, Sound, MessagingTypeOK, Request, Opened
    <2>3. CASE t = req[h].thread
      <3>1. message[m].sentAt <= message[req[h].message].sentAt
        BY <1>2, <1>3, <2>1, <2>2, <2>3 DEF InOrder
      <3>2. message[m].sentAt \in Nat /\ message[req[h].message].sentAt \in Nat
        BY <1>2, <2>1, <2>2 DEF MessagingTypeOK, Content, Sent
      <3>3. lastMessageAt'[t] = req[h].at
        BY <1>2, <2>1, <2>2, <2>3 DEF MessagingTypeOK
      <3> QED
        BY <2>1, <2>2, <3>1, <3>2, <3>3, NoneAssumption
    <2>4. CASE t # req[h].thread
      <3>1. lastMessageAt'[t] = lastMessageAt[t]
        BY <1>2, <2>1, <2>2, <2>4 DEF MessagingTypeOK
      <3>2. Sending(t)' = Sending(t) /\ \A k \in Sending(t) : req'[k] = req[k]
        BY <1>5, <2>1, <2>4, SenderLeaves DEF Sending
      <3> QED
        BY <1>2, <1>3, <2>1, <3>1, <3>2 DEF LastMessageCurrent
    <2> QED
      BY <2>3, <2>4
  <1>6. CASE AbortMessaging(h)
    <2>a. /\ UNCHANGED <<message, lastMessageAt>>
          /\ disturbed' = IF req[h].message = None THEN disturbed
                          ELSE disturbed \cup {req[h].message}
      BY <1>6 DEF AbortMessaging
    <2>b. m \in Sent
      BY <1>3, <2>a DEF Sent
    <2>c. m \notin disturbed /\ req[h].message # m
      BY <1>3, <2>a, <2>b, NoneAssumption DEF Sent
    <2>d. t \in Thread
      BY <1>2, <1>3, <2>a, <2>b DEF MessagingTypeOK, Content, Sent
    <2>1. /\ m \in Sent \ disturbed /\ UNCHANGED <<message, lastMessageAt>> /\ t \in Thread
          /\ req[h].message # m
      BY <2>a, <2>b, <2>c, <2>d
    <2>2. \A k \in Sending(t) : req[k].message # m
      BY <1>3, <1>6, <2>1, SenderLeaves DEF Sending
    <2>3. LastMessageCurrent => lastMessageAt[t] # None /\ lastMessageAt[t] >= message[m].sentAt
      BY <1>3, <2>1, <2>2 DEF LastMessageCurrent
    <2> QED
      BY <1>2, <2>1, <2>3
  <1>7. CASE Begin(h) \/ FindLease(h) \/ CreateThread(h) \/ Stamp(h) \/ MarkAsRead(h)
    <2>1. UNCHANGED <<lastMessageAt, message, disturbed>> /\ UNCHANGED Sent
      BY <1>7, SendersStay DEF Sent
    <2>2. t \in Thread
      BY <1>2, <1>3, <2>1 DEF MessagingTypeOK, Content, Sent
    <2>3. \A k \in Sending(t) : req[k].message # m
      BY <1>3, <1>7, <2>2, SendersStay
    <2> QED
      BY <1>2, <1>3, <2>1, <2>3 DEF LastMessageCurrent
  <1> QED
    BY <1>1, <1>4, <1>5, <1>6, <1>7

LEMMA MessagingStable ==
  ASSUME MessagingInv, now' \in Nat, now <= now', UNCHANGED messagingVars
  PROVE  MessagingInv'
  <1>1. now \in Nat /\ MessagingTypeOK
    BY DEF MessagingInv
  <1>2. MessagingTypeOK' /\ (\A h \in Handler : Sound(h))' /\ InOrder' /\ LastMessageCurrent'
    BY DEF messagingVars, rows, MessagingInv, MessagingTypeOK, Sound, Visible, PartyTo, InOrder,
       LastMessageCurrent, Sent, Sending, Opened
  <1>3. \A m \in Sent : message[m].sentAt \in Nat /\ message[m].sentAt <= now
    BY <1>1 DEF MessagingInv, MessagingTypeOK, Content, Sent
  <1>4. (\A m \in Sent : message[m].sentAt <= now)'
    BY <1>1, <1>3 DEF messagingVars, rows, Sent
  <1> QED
    BY <1>2, <1>4 DEF MessagingInv

LEMMA MessagingKept ==
  ASSUME MessagingInv, MessagingNext, now' = now
  PROVE  MessagingInv'
  BY MessagingTypeStep, SoundStep, TimesStep, OrderStep, CurrentStep DEF MessagingInv

-----------------------------------------------------------------------------
(* Public profiles.                                                        *)
LEMMA ProfileTypeStep ==
  ASSUME ProfileInv, ProfileNext
  PROVE  ProfileTypeOK'
  <1>t. ProfileTypeOK /\ \A c \in Client : Informed(c)
    BY DEF ProfileInv
  <1>1. PICK c \in Client :
            \/ \E t \in Subject : \/ GetForAgency(c, t) \/ UpdateForTenant(c, t)
                                  \/ \E ctx \in AnyToken : OpenView(c, t, ctx)
            \/ FindProfile(c) \/ CreateProfile(c) \/ UpdateProfile(c) \/ ShowSection(c)
            \/ Answer(c) \/ AbortProfile(c)
    BY DEF ProfileNext, ProfileControllers
  <1>l. Leave(c) => stage' \in [Client -> Stage] /\ view' \in [Client -> View]
    BY <1>t, NoViewType DEF Leave, Proceed, Note, ProfileTypeOK, Stage
  <1>s. ASSUME NEW t \in Subject, NEW switches \in SUBSET Switch, Store(t, switches)
        PROVE  /\ profile' \in [Subject -> (SUBSET Switch) \cup {None}]
               /\ was' \in [Subject -> SUBSET SUBSET Switch]
    BY <1>t, <1>s DEF Store, ProfileTypeOK
  <1>2. ASSUME NEW t \in Subject, GetForAgency(c, t) PROVE ProfileTypeOK'
    <2>1. [NoView EXCEPT !.subject = t] \in View
      BY NoViewType DEF View
    <2> QED
      BY <1>t, <1>2, <2>1 DEF GetForAgency, Note, Proceed, ProfileTypeOK, Stage
  <1>3. ASSUME NEW t \in Subject, UpdateForTenant(c, t) PROVE ProfileTypeOK'
    <2>1. [agency |-> Residence[t], role |-> None] \in AnyToken
      BY ResidenceAssumption DEF AnyToken, TenantToken
    <2>2. [NoView EXCEPT !.subject = t, !.writes = TRUE,
                         !.ctx = [agency |-> Residence[t], role |-> None]] \in View
      BY <2>1 DEF NoView, View
    <2> QED
      BY <1>t, <1>3, <2>2 DEF UpdateForTenant, Note, Proceed, ProfileTypeOK, Stage
  <1>4. ASSUME NEW t \in Subject, NEW ctx \in AnyToken, OpenView(c, t, ctx) PROVE ProfileTypeOK'
    <2>1. profile[t] \in SUBSET Switch
      BY <1>t, <1>4 DEF OpenView, ProfileTypeOK
    <2>2. [NoView EXCEPT !.subject = t, !.ctx = ctx, !.seen = profile[t]] \in View
      BY <2>1 DEF NoView, View
    <2> QED
      BY <1>t, <1>4, <2>2 DEF OpenView, Note, Proceed, ProfileTypeOK, Stage
  <1>5. CASE FindProfile(c)
    BY <1>t, <1>5, <1>l DEF FindProfile, Proceed, ProfileTypeOK, Stage
  <1>6. CASE CreateProfile(c)
    <2>1. view[c].subject \in Subject /\ Default \in SUBSET Switch
      BY <1>t, <1>6 DEF CreateProfile, Informed, Default, Switch, Section
    <2>2. CASE profile[view[c].subject] # None
      BY <1>t, <1>6, <1>l, <2>2 DEF CreateProfile, ProfileTypeOK
    <2>3. CASE profile[view[c].subject] = None
      <3>1. Store(view[c].subject, Default)
        BY <1>6, <2>3 DEF CreateProfile
      <3>2. stage' \in [Client -> Stage] /\ view' \in [Client -> View]
        BY <1>t, <1>6, <1>l, <2>3 DEF CreateProfile, Proceed, ProfileTypeOK, Stage
      <3> QED
        BY <1>s, <2>1, <3>1, <3>2 DEF ProfileTypeOK
    <2> QED
      BY <2>2, <2>3
  <1>7. CASE UpdateProfile(c)
    <2>1. view[c].subject \in Subject
      BY <1>t, <1>7 DEF UpdateProfile, Informed
    <2> QED
      BY <1>7, <1>l, <1>s, <2>1 DEF UpdateProfile, ProfileTypeOK
  <1>8. CASE ShowSection(c)
    <2>1. PICK s \in Section, bare \in SUBSET Section :
             /\ view' = [view EXCEPT ![c] = [view[c] EXCEPT !.shown = @ \cup {s}, !.bare = bare]]
             /\ stage' = [stage EXCEPT ![c] = "answer"] \/ stage' = [stage EXCEPT ![c] = "show"]
      <3>1. view[c] \in View
        BY <1>t DEF ProfileTypeOK
      <3>2. PICK s \in (view[c].seen \cap Section) \ view[c].shown :
               Note(c, [view[c] EXCEPT
                    !.shown = @ \cup {s},
                    !.bare = IF Visible(view[c].ctx, ModelOf[s], ActionOf[s],
                                        Residence[view[c].subject])
                             THEN @ ELSE @ \cup {s}])
        BY <1>8 DEF ShowSection, ShowSectionOf
      <3>3. view[c].bare \cup {s} \in SUBSET Section /\ view[c].bare \in SUBSET Section
        BY <3>1 DEF View
      <3>4. \E bare \in SUBSET Section :
               view' = [view EXCEPT ![c] = [view[c] EXCEPT !.shown = @ \cup {s}, !.bare = bare]]
        BY <3>2, <3>3 DEF Note
      <3>5. stage' = [stage EXCEPT ![c] = "answer"] \/ stage' = [stage EXCEPT ![c] = "show"]
        BY <1>8 DEF ShowSection, ShowSectionOf, Proceed
      <3> QED
        BY <3>4, <3>5
    <2>2. [view[c] EXCEPT !.shown = @ \cup {s}, !.bare = bare] \in View
      BY <1>t DEF ProfileTypeOK, View
    <2> QED
      BY <1>t, <1>8, <2>1, <2>2 DEF ShowSection, ShowSectionOf, ProfileTypeOK, Stage
  <1>9. CASE Answer(c) \/ AbortProfile(c)
    BY <1>t, <1>9, <1>l DEF Answer, AbortProfile, ProfileTypeOK
  <1> QED
    BY <1>1, <1>2, <1>3, <1>4, <1>5, <1>6, <1>7, <1>8, <1>9

(* A profile changes by being created where there was none, or by an       *)
(* update, and its settings are remembered.                                *)
LEMMA ProfileChanges ==
  ASSUME ProfileInv, ProfileNext
  PROVE  /\ \A t \in Subject : was[t] \subseteq was'[t]
         /\ \A t \in Subject : profile'[t] # None => profile'[t] \in was'[t]
         /\ \A t \in Subject : profile'[t] = profile[t] \/ profile[t] = None
                \/ \E c \in Client : UpdateProfile(c) /\ view[c].subject = t
  <1>t. ProfileTypeOK /\ \A t \in Subject : profile[t] # None => profile[t] \in was[t]
    BY DEF ProfileInv
  <1>s. ASSUME NEW t \in Subject, NEW switches, Store(t, switches)
        PROVE  /\ \A x \in Subject : was[x] \subseteq was'[x]
               /\ \A x \in Subject : profile'[x] # None => profile'[x] \in was'[x]
               /\ \A x \in Subject \ {t} : profile'[x] = profile[x]
    BY <1>t, <1>s DEF Store, ProfileTypeOK
  <1>1. PICK c \in Client :
            \/ \E t \in Subject : \/ GetForAgency(c, t) \/ UpdateForTenant(c, t)
                                  \/ \E ctx \in AnyToken : OpenView(c, t, ctx)
            \/ FindProfile(c) \/ CreateProfile(c) \/ UpdateProfile(c) \/ ShowSection(c)
            \/ Answer(c) \/ AbortProfile(c)
    BY DEF ProfileNext, ProfileControllers
  <1>2. view[c].subject \in Subject \/ stage[c] = "idle"
    BY DEF ProfileInv, Informed
  <1>3. CASE CreateProfile(c)
    <2>1. CASE profile[view[c].subject] # None
      BY <1>t, <1>3, <2>1 DEF CreateProfile
    <2>2. CASE profile[view[c].subject] = None
      <3>1. Store(view[c].subject, Default) /\ view[c].subject \in Subject
        BY <1>2, <1>3, <2>2 DEF CreateProfile
      <3> QED
        BY <1>s, <2>2, <3>1
    <2> QED
      BY <2>1, <2>2
  <1>4. CASE UpdateProfile(c)
    <2>1. PICK switches \in SUBSET Switch : Store(view[c].subject, switches)
      BY <1>4 DEF UpdateProfile
    <2>2. view[c].subject \in Subject
      BY <1>2, <1>4 DEF UpdateProfile
    <2> QED
      BY <1>4, <1>s, <2>1, <2>2
  <1>5. CASE ~CreateProfile(c) /\ ~UpdateProfile(c)
    <2>1. UNCHANGED <<profile, was>>
      BY <1>1, <1>5 DEF GetForAgency, UpdateForTenant, OpenView, FindProfile, ShowSection,
         ShowSectionOf, Answer, AbortProfile
    <2> QED
      BY <1>t, <2>1
  <1> QED
    BY <1>3, <1>4, <1>5

LEMMA InformedStep ==
  ASSUME ProfileInv, ProfileNext, NEW d \in Client
  PROVE  Informed(d)'
  <1>t. ProfileTypeOK /\ Informed(d)
    BY DEF ProfileInv
  <1>g. \A t \in Subject : was[t] \subseteq was'[t]
    BY ProfileChanges
  <1>1. PICK c \in Client :
            \/ \E t \in Subject : \/ GetForAgency(c, t) \/ UpdateForTenant(c, t)
                                  \/ \E ctx \in AnyToken : OpenView(c, t, ctx)
            \/ FindProfile(c) \/ CreateProfile(c) \/ UpdateProfile(c) \/ ShowSection(c)
            \/ Answer(c) \/ AbortProfile(c)
    BY DEF ProfileNext, ProfileControllers
  <1>s. ASSUME stage'[d] = stage[d], view'[d] = view[d] PROVE Informed(d)'
    <2>1. stage[d] # "idle" => was[view[d].subject] \subseteq was'[view[d].subject]
      BY <1>t, <1>g DEF Informed
    <2> QED
      BY <1>t, <1>s, <2>1 DEF Informed, Visible
  <1>2. CASE c # d
    <2>1. stage'[d] = stage[d] /\ view'[d] = view[d]
      BY <1>t, <1>1, <1>2 DEF GetForAgency, UpdateForTenant, OpenView, FindProfile,
         CreateProfile, UpdateProfile, ShowSection, ShowSectionOf, Answer, AbortProfile,
         Leave, Proceed, Note, ProfileTypeOK
    <2> QED
      BY <1>s, <2>1
  <1>l. ASSUME c = d, Leave(c) PROVE Informed(d)'
    BY <1>t, <1>l DEF Leave, Proceed, ProfileTypeOK, Informed
  <1>3. ASSUME c = d, NEW t \in Subject, GetForAgency(c, t) PROVE Informed(d)'
    <2>1. view'[d] = [NoView EXCEPT !.subject = t] /\ stage'[d] = "find"
      BY <1>t, <1>3 DEF GetForAgency, Note, Proceed, ProfileTypeOK
    <2>2. view'[d].subject = t /\ ~view'[d].writes
      BY <2>1 DEF NoView
    <2> QED
      BY <2>1, <2>2 DEF Informed
  <1>4. ASSUME c = d, NEW t \in Subject, UpdateForTenant(c, t) PROVE Informed(d)'
    <2>1. /\ view'[d] = [NoView EXCEPT !.subject = t, !.writes = TRUE,
                                       !.ctx = [agency |-> Residence[t], role |-> None]]
          /\ stage'[d] = "find"
      BY <1>t, <1>4 DEF UpdateForTenant, Note, Proceed, ProfileTypeOK
    <2>2. view'[d].subject = t /\ view'[d].ctx.agency = Residence[t]
      BY <2>1 DEF NoView
    <2> QED
      BY <2>1, <2>2 DEF Informed
  <1>5. ASSUME c = d, NEW t \in Subject, NEW ctx \in AnyToken, OpenView(c, t, ctx)
        PROVE  Informed(d)'
    <2>1. /\ view'[d] = [NoView EXCEPT !.subject = t, !.ctx = ctx, !.seen = profile[t]]
          /\ stage'[d] = IF profile[t] \cap Section = {} THEN "answer" ELSE "show"
      BY <1>t, <1>5 DEF OpenView, Note, Proceed, ProfileTypeOK
    <2>2. /\ view'[d].subject = t /\ view'[d].seen = profile[t]
          /\ view'[d].shown = {} /\ view'[d].bare = {}
      BY <2>1 DEF NoView
    <2>3. profile[t] \in was'[t] /\ "isPublic" \in profile[t]
      BY <1>5, <1>g DEF OpenView, ProfileInv
    <2> QED
      BY <2>1, <2>2, <2>3 DEF Informed
  <1>6. CASE c = d /\ (FindProfile(c) \/ CreateProfile(c)) /\ ~Leave(c)
    <2>1. /\ stage[d] \in {"find", "create"} /\ view'[d] = view[d]
          /\ stage'[d] \in {"create", "update"} /\ (stage'[d] = "update" => view[d].writes)
      BY <1>t, <1>6 DEF FindProfile, CreateProfile, Proceed, ProfileTypeOK
    <2> QED
      BY <1>t, <2>1 DEF Informed
  <1>7. CASE c = d /\ ShowSection(c)
    <2>1. view[d] \in View /\ stage[d] = "show"
      BY <1>t, <1>7 DEF ProfileTypeOK, ShowSection, ShowSectionOf
    <2>2. PICK s \in (view[d].seen \cap Section) \ view[d].shown :
             /\ view' = [view EXCEPT ![d] = [view[d] EXCEPT
                    !.shown = @ \cup {s},
                    !.bare = IF Visible(view[d].ctx, ModelOf[s], ActionOf[s],
                                        Residence[view[d].subject])
                             THEN @ ELSE @ \cup {s}]]
             /\ stage' = [stage EXCEPT ![d] =
                    IF (view[d].seen \cap Section) \ view[d].shown = {s} THEN "answer" ELSE "show"]
      BY <1>7 DEF ShowSection, ShowSectionOf, Note, Proceed
    <2>3. /\ view'[d].subject = view[d].subject /\ view'[d].seen = view[d].seen
          /\ view'[d].ctx = view[d].ctx
          /\ view'[d].shown = view[d].shown \cup {s}
          /\ view'[d].bare = IF Visible(view[d].ctx, ModelOf[s], ActionOf[s],
                                        Residence[view[d].subject])
                             THEN view[d].bare ELSE view[d].bare \cup {s}
      BY <1>t, <2>1, <2>2 DEF ProfileTypeOK, View
    <2>4. /\ stage'[d] \in {"answer", "show"}
          /\ stage'[d] = "answer" => (view[d].seen \cap Section) \ view[d].shown = {s}
      BY <1>t, <2>2 DEF ProfileTypeOK
    <2>5. view[d].shown \subseteq view[d].seen \cap Section
      BY <1>t, <2>1 DEF Informed
    <2>6. /\ view'[d].seen \in was'[view'[d].subject] /\ "isPublic" \in view'[d].seen
          /\ view'[d].subject \in Subject
      BY <1>t, <1>g, <2>1, <2>3 DEF Informed
    <2>7. view'[d].bare = {x \in view'[d].shown :
                    ~Visible(view[d].ctx, ModelOf[x], ActionOf[x], Residence[view[d].subject])}
      <3>1. view[d].bare = {x \in view[d].shown :
                    ~Visible(view[d].ctx, ModelOf[x], ActionOf[x], Residence[view[d].subject])}
        BY <1>t, <2>1 DEF Informed
      <3> QED
        BY <2>3, <3>1
    <2>8. view'[d].shown \subseteq view'[d].seen \cap Section
      BY <2>3, <2>5
    <2>9. stage'[d] = "answer" => view'[d].shown = view'[d].seen \cap Section
      BY <2>3, <2>4, <2>5
    <2> QED
      BY <2>3, <2>4, <2>6, <2>7, <2>8, <2>9 DEF Informed, Visible
  <1>8. CASE c = d /\ Leave(c)
    BY <1>8, <1>l
  <1>9. CASE c = d /\ (UpdateProfile(c) \/ Answer(c) \/ AbortProfile(c))
    BY <1>8, <1>9 DEF UpdateProfile, Answer, AbortProfile
  <1> QED
    BY <1>1, <1>2, <1>3, <1>4, <1>5, <1>6, <1>7, <1>8, <1>9

LEMMA ProfileKept ==
  ASSUME ProfileInv, ProfileNext
  PROVE  ProfileInv'
  BY ProfileTypeStep, ProfileChanges, InformedStep DEF ProfileInv

LEMMA ProfileStable ==
  ASSUME ProfileInv, UNCHANGED profileVars
  PROVE  ProfileInv'
  BY DEF profileVars, ProfileInv, ProfileTypeOK, Informed, Visible

-----------------------------------------------------------------------------
(* The invariant holds in every reachable state.                           *)
THEOREM Safety == Spec => []SafeInv
  <1>1. Init => SafeInv
    BY InitSafe
  <1>2. ASSUME SafeInv, [Next]_vars PROVE SafeInv'
    <2>1. MessagingInv /\ ProfileInv /\ now \in Nat
      BY <1>2 DEF SafeInv, MessagingInv
    <2>2. CASE MessagingNext /\ UNCHANGED <<now, profileVars>>
      BY <2>1, <2>2, MessagingKept, ProfileStable DEF SafeInv
    <2>3. CASE ProfileNext /\ UNCHANGED <<now, messagingVars>>
      BY <2>1, <2>3, ProfileKept, MessagingStable DEF SafeInv
    <2>4. CASE Tick /\ UNCHANGED <<messagingVars, profileVars>>
      <3>1. now' \in Nat /\ now <= now'
        BY <2>1, <2>4 DEF Tick
      <3> QED
        BY <2>1, <2>4, <3>1, ProfileStable, MessagingStable DEF SafeInv
    <2>5. CASE UNCHANGED vars
      BY <2>1, <2>5, ProfileStable, MessagingStable DEF SafeInv, vars
    <2> QED
      BY <1>2, <2>2, <2>3, <2>4, <2>5 DEF Next
  <1> QED
    BY <1>1, <1>2, PTL DEF Spec

(* Every variable of Portal has its type in every reachable state.         *)
THEOREM TypeCorrect == Spec => []TypeOK
  <1>1. SafeInv => TypeOK
    BY DEF SafeInv, MessagingInv, ProfileInv, TypeOK
  <1> QED
    BY <1>1, Safety, PTL

(* A message sent while no other was being sent in its thread leaves the   *)
(* thread listed at its time or later, whoever sends afterwards and        *)
(* whichever of them are cut off.                                          *)
THEOREM ThreadTimesCurrent == Spec => []LastMessageCurrent
  <1>1. SafeInv => LastMessageCurrent
    BY DEF SafeInv, MessagingInv
  <1> QED
    BY <1>1, Safety, PTL

(* A finished public view shows one setting the profile had while public,  *)
(* although the setting is read once and the sections after it.            *)
THEOREM ViewsAreOneSetting == Spec => []ViewsKeepToChoices
  <1>1. SafeInv => ViewsKeepToChoices
    BY DEF SafeInv, ProfileInv, Informed, ViewsKeepToChoices
  <1> QED
    BY <1>1, Safety, PTL

(* No view is scoped but those asked for with the token of another agency, *)
(* and of those only the score and the reviews: a visitor without a token, *)
(* or with one of the tenant's agency, finds everything the tenant shows.  *)
THEOREM ViewsScopedByForeignTokens == Spec => []OnlyForeignTokensScope
  <1>1. ASSUME SafeInv PROVE OnlyForeignTokensScope
    <2> SUFFICES ASSUME NEW c \in Client, stage[c] = "answer", NEW s \in view[c].bare
                 PROVE  /\ s \in {"showScore", "showReviews"}
                        /\ view[c].ctx.agency \notin {None, Residence[view[c].subject]}
                        /\ view[c].ctx.role # "SYSTEM_ADMIN"
      BY DEF OnlyForeignTokensScope
    <2>1. /\ s \in Section
          /\ ~Visible(view[c].ctx, ModelOf[s], ActionOf[s], Residence[view[c].subject])
      BY <1>1 DEF SafeInv, ProfileInv, Informed
    <2>2. /\ Enforced(view[c].ctx) /\ Residence[view[c].subject] # view[c].ctx.agency
          /\ ModelOf[s] \in TenantModels /\ ActionOf[s] \in ScopedActions
      BY <2>1 DEF Visible
    <2>3. s # "showBadges"
      BY <2>2 DEF ModelOf, TenantModels
    <2>4. s # "showName"
      BY <2>2 DEF ActionOf, ScopedActions
    <2> QED
      BY <2>1, <2>2, <2>3, <2>4 DEF Enforced, Section
  <1> QED
    BY <1>1, Safety, PTL

(* Only a request of the tenant's own changes a profile that is there: the *)
(* creations that overlap end at the row they find.                        *)
THEOREM TenantsSetTheirSwitches == Spec => OnlyTenantsSetSwitches
  <1> DEFINE A == \A t \in Subject : profile[t] # None /\ profile'[t] # profile[t] =>
          \E c \in Client : /\ stage[c] = "update" /\ stage'[c] = "idle"
                            /\ view[c].subject = t /\ view[c].writes
                            /\ view[c].ctx.agency = Residence[t]
  <1>1. ASSUME SafeInv, Next PROVE A
    <2> SUFFICES ASSUME NEW t \in Subject, profile[t] # None, profile'[t] # profile[t]
                 PROVE  \E c \in Client : /\ stage[c] = "update" /\ stage'[c] = "idle"
                            /\ view[c].subject = t /\ view[c].writes
                            /\ view[c].ctx.agency = Residence[t]
      OBVIOUS
    <2>1. ProfileInv /\ ProfileNext
      BY <1>1 DEF SafeInv, Next, profileVars
    <2>2. PICK c \in Client : UpdateProfile(c) /\ view[c].subject = t
      BY <2>1, ProfileChanges
    <2>3. stage[c] = "update" /\ stage'[c] = "idle"
      BY <2>1, <2>2 DEF UpdateProfile, Leave, Proceed, ProfileInv, ProfileTypeOK
    <2>4. view[c].writes /\ view[c].ctx.agency = Residence[t]
      BY <2>1, <2>2, <2>3 DEF ProfileInv, Informed
    <2> QED
      BY <2>2, <2>3, <2>4
  <1>2. ASSUME UNCHANGED vars PROVE UNCHANGED profileVars
    BY <1>2 DEF vars
  <1>3. SafeInv /\ [Next]_vars => [A]_profileVars
    BY <1>1, <1>2
  <1> QED
    BY <1>3, Safety, PTL DEF Spec, OnlyTenantsSetSwitches

(* Threads and what is in them change by a request of one of the parties,  *)
(* although the thread was looked up some calls before.                    *)
THEOREM PartiesTakePart == Spec => OnlyPartiesTakePart
  <1> DEFINE Takes(h, t) ==
          /\ pc'[h] # pc[h]
          /\ IF t \in Opened
             THEN /\ thread'[t] = thread[t]
                  /\ req[h].thread = t /\ PartyTo(req[h], t)
                  /\ \A m \in read' \ read : message[m].side # SideOf(req[h])
             ELSE /\ req[h].me = None /\ thread'[t].agency = req[h].ctx.agency
                  /\ \/ req[h].ctx.role = "SYSTEM_ADMIN"
                     \/ \A x \in {thread'[t].tenant, thread'[t].lease} \ {None} :
                           Home[x] = thread'[t].agency
  <1> DEFINE A == \A t \in Thread :
          thread'[t] # thread[t] \/ Conversation(t)' # Conversation(t) =>
          \E h \in Handler :
            /\ pc'[h] # pc[h]
            /\ IF t \in Opened
               THEN /\ thread'[t] = thread[t]
                    /\ req[h].thread = t /\ PartyTo(req[h], t)
                    /\ \A m \in read' \ read : message[m].side # SideOf(req[h])
               ELSE /\ req[h].me = None /\ thread'[t].agency = req[h].ctx.agency
                    /\ \/ req[h].ctx.role = "SYSTEM_ADMIN"
                       \/ \A x \in {thread'[t].tenant, thread'[t].lease} \ {None} :
                             Home[x] = thread'[t].agency
  <1>1. ASSUME SafeInv, MessagingNext PROVE A
    <2> SUFFICES ASSUME NEW t \in Thread,
                        thread'[t] # thread[t] \/ Conversation(t)' # Conversation(t)
                 PROVE  \E h \in Handler : Takes(h, t)
      OBVIOUS
    <2>1. PICK h \in Handler :
            \/ Begin(h) \/ FindLease(h) \/ CreateThread(h) \/ StoreMessage(h) \/ Stamp(h)
            \/ TouchThread(h) \/ MarkAsRead(h) \/ AbortMessaging(h)
      BY <1>1, MessagingCases
    <2>t. MessagingInv /\ MessagingTypeOK /\ Sound(h)
      BY <1>1 DEF SafeInv, MessagingInv
    <2>2. CASE Begin(h) \/ FindLease(h) \/ Stamp(h) \/ AbortMessaging(h)
      <3>1. UNCHANGED <<thread, lastMessageAt, message, read>>
        BY <2>2 DEF Begin, FindTenant, GetThread, GetMyThread, FindLease, Stamp,
           AbortMessaging, rows
      <3> QED
        BY <3>1 DEF Conversation, Sent
    <2>3. CASE CreateThread(h)
      <3>1. PICK n \in Thread \ Opened :
               thread' = [thread EXCEPT ![n] = [agency |-> req[h].ctx.agency,
                                                tenant |-> req[h].tenant,
                                                lease |-> req[h].lease]]
        BY <2>3 DEF CreateThread
      <3>2. UNCHANGED <<lastMessageAt, message, read>>
        BY <2>3 DEF CreateThread
      <3>3. Conversation(t)' = Conversation(t)
        BY <3>2 DEF Conversation, Sent
      <3>4. t = n
        BY <2>t, <3>1, <3>3 DEF MessagingTypeOK
      <3>5. thread'[t] = [agency |-> req[h].ctx.agency, tenant |-> req[h].tenant,
                          lease |-> req[h].lease]
        BY <2>t, <3>1, <3>4 DEF MessagingTypeOK
      <3>6. pc'[h] = "idle" /\ pc[h] = "createThread"
        BY <2>t, <2>3 DEF CreateThread, Finish, Goto, MessagingTypeOK
      <3>7. /\ req[h].me = None /\ req[h].ctx \in Staff /\ req[h].tenant \in Tenant
            /\ Visible(req[h].ctx, "Tenant", "findFirst", Home[req[h].tenant])
            /\ req[h].lease # None =>
                  Visible(req[h].ctx, "Lease", "findFirst", Home[req[h].lease])
        BY <2>t, <3>6 DEF Sound
      <3>8. /\ req[h].ctx.role = "SYSTEM_ADMIN" \/ Home[req[h].tenant] = req[h].ctx.agency
            /\ req[h].lease # None =>
                  req[h].ctx.role = "SYSTEM_ADMIN" \/ Home[req[h].lease] = req[h].ctx.agency
        <4>1. {"Tenant", "Lease"} \subseteq TenantModels
          BY DEF TenantModels
        <4> QED
          BY <3>7, <4>1, StaffSees
      <3>9. /\ thread'[t].agency = req[h].ctx.agency /\ thread'[t].tenant = req[h].tenant
            /\ thread'[t].lease = req[h].lease
        BY <3>5
      <3> QED
        BY <3>1, <3>4, <3>6, <3>7, <3>8, <3>9
    <2>4. ASSUME StoreMessage(h) \/ TouchThread(h) \/ MarkAsRead(h),
                 t = req[h].thread, \A m \in read' \ read : message[m].side # SideOf(req[h])
          PROVE  Takes(h, t)
      <3>1. pc[h] \in {"store", "touch", "mark"} /\ pc'[h] \in {"idle", "stamp"}
        BY <2>t, <2>4 DEF StoreMessage, TouchThread, MarkAsRead, Finish, Goto, MessagingTypeOK
      <3>2. t \in Opened /\ PartyTo(req[h], t)
        BY <2>t, <2>4, <3>1 DEF Sound
      <3>3. UNCHANGED thread
        BY <2>4 DEF StoreMessage, TouchThread, MarkAsRead
      <3> QED
        BY <2>4, <3>1, <3>2, <3>3
    <2>5. CASE StoreMessage(h)
      <3>1. PICK m \in Message \ Sent :
              /\ message'[m] = [thread |-> req[h].thread, side |-> SideOf(req[h]), sentAt |-> now]
              /\ Sent' = Sent \cup {m}
              /\ \A x \in Message \ {m} : message'[x] = message[x]
        BY <2>t, <2>5, StoredContent
      <3>2. UNCHANGED <<thread, lastMessageAt, read>>
        BY <2>5 DEF StoreMessage
      <3>3. t = req[h].thread
        <4> SUFFICES ASSUME t # req[h].thread PROVE FALSE
          OBVIOUS
        <4>1. message'[m].thread = req[h].thread
          BY <3>1
        <4>2. read \subseteq Sent /\ Sent \subseteq Message
          BY <2>t DEF MessagingTypeOK, Sent
        <4>3. {x \in Sent' : message'[x].thread = t} = {x \in Sent : message[x].thread = t}
          BY <3>1, <4>1, <4>2
        <4>4. {x \in read' : message'[x].thread = t} = {x \in read : message[x].thread = t}
          BY <3>1, <3>2, <4>2
        <4> QED
          BY <3>2, <4>3, <4>4 DEF Conversation
      <3> QED
        BY <2>4, <2>5, <3>2, <3>3
    <2>6. CASE TouchThread(h)
      <3>1. /\ UNCHANGED <<thread, message, read>>
            /\ lastMessageAt' = [lastMessageAt EXCEPT ![req[h].thread] = req[h].at]
        BY <2>6 DEF TouchThread
      <3>2. t = req[h].thread
        BY <2>t, <3>1 DEF Conversation, Sent, MessagingTypeOK
      <3> QED
        BY <2>4, <2>6, <3>1, <3>2
    <2>7. CASE MarkAsRead(h)
      <3>1. /\ UNCHANGED <<thread, lastMessageAt, message>>
            /\ read' = read \cup {m \in Sent : /\ message[m].thread = req[h].thread
                                               /\ message[m].side # SideOf(req[h])}
        BY <2>7 DEF MarkAsRead
      <3>2. t = req[h].thread
        <4> SUFFICES ASSUME t # req[h].thread PROVE FALSE
          OBVIOUS
        <4>1. {x \in read' : message[x].thread = t} = {x \in read : message[x].thread = t}
          BY <3>1
        <4> QED
          BY <3>1, <4>1 DEF Conversation, Sent
      <3> QED
        BY <2>4, <2>7, <3>1, <3>2
    <2> QED
      BY <2>1, <2>2, <2>3, <2>5, <2>6, <2>7
  <1>2. ASSUME UNCHANGED vars PROVE UNCHANGED messagingVars
    BY <1>2 DEF vars
  <1>3. SafeInv /\ [Next]_vars => [A]_messagingVars
    BY <1>1, <1>2 DEF Next
  <1> QED
    BY <1>3, Safety, PTL DEF Spec, OnlyPartiesTakePart
=============================================================================
