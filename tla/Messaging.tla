------------------------------ MODULE Messaging ------------------------------
(***************************************************************************)
(* Threads and messages between an agency and its tenants:                 *)
(* MessagingService for the agency side, TenantMessagingService for the    *)
(* tenant side (modules/messaging).                                        *)
(*                                                                         *)
(* One action is one awaited database call, except Stamp, where a sender   *)
(* reads the clock before it asks the database to write what it read.      *)
(* Every operation looks the thread up first and goes by its id then.      *)
(***************************************************************************)
EXTENDS Naturals, FiniteSets, Clock, Scoping

CONSTANTS
    Handler,  \* requests in flight together
    Tenant, Lease,
    Home,     \* the agency of a tenant or lease, which nothing changes
    Thread,   \* threads there may ever be (bounds the run)
    Message   \* messages there may ever be (bounds the run)

ASSUME HomeAssumption == Home \in [Tenant \cup Lease -> Agency]
VARIABLES
    thread,         \* message_threads: its parties; None while no such row
    lastMessageAt,  \* message_threads.lastMessageAt
    message,        \* messages: thread, senderRole, sentAt; None while no such row
    read,           \* messages whose readAt is set
    disturbed,      \* history: messages stored while another was being sent in the
                    \* thread, or whose sender was cut off
    pc, req         \* the handlers: next call, and the request's locals

rows == <<thread, lastMessageAt, message, read, disturbed>>
messagingVars == <<rows, pc, req>>

Side == {"AGENCY", "TENANT"}
Parties == [agency : Agency, tenant : Tenant, lease : Lease \cup {None}]
Content == [thread : Thread, side : Side, sentAt : Nat]

ASSUME NoneAssumption ==
    /\ None \notin Agency \cup Role \cup Tenant \cup Lease \cup Thread \cup Message \cup Nat
    /\ None \notin Parties \cup Content

PC == {"idle", "findLease", "createThread", "store", "stamp", "touch", "mark"}

(* The token's context, with the tenant it names on the tenant side; the   *)
(* rows found; the message stored and the time read for its thread.        *)
Request == [ctx : AnyToken, me : Tenant \cup {None}, tenant : Tenant \cup {None},
            lease : Lease \cup {None}, thread : Thread \cup {None},
            message : Message \cup {None}, at : Nat]

NoRequest == [ctx |-> NoToken, me |-> None, tenant |-> None, lease |-> None,
              thread |-> None, message |-> None, at |-> 0]

Opened == {t \in Thread : thread[t] # None}
Sent == {m \in Message : message[m] # None}
SideOf(r) == IF r.me = None THEN "AGENCY" ELSE "TENANT"

(* Handlers that have stored a message and not yet written the thread.     *)
Sending(t) == {h \in Handler : pc[h] \in {"stamp", "touch"} /\ req[h].thread = t}

MessagingInit ==
    /\ thread = [t \in Thread |-> None]
    /\ lastMessageAt = [t \in Thread |-> None]
    /\ message = [m \in Message |-> None]
    /\ read = {}
    /\ disturbed = {}
    /\ pc = [h \in Handler |-> "idle"]
    /\ req = [h \in Handler |-> NoRequest]

-----------------------------------------------------------------------------
Goto(h, label) == pc' = [pc EXCEPT ![h] = label]
Set(h, r) == req' = [req EXCEPT ![h] = r]
Finish(h) == Goto(h, "idle") /\ Set(h, NoRequest)

MayWrite(role) == role \in {"SUPER_ADMIN", "SYSTEM_ADMIN", "AGENCY_OWNER", "AGENCY_STAFF"}

(* The agency users whose requests PermissionsGuard lets through, all of   *)
(* whose writes ask for tenant.write.                                      *)
Staff == {ctx \in UserToken : MayWrite(ctx.role)}

(* createThread: the tenant, the lease if one is named, the thread.  That  *)
(* the lease is the tenant's is not looked at.                             *)
FindTenant(h) ==
    /\ pc[h] = "idle"
    /\ \E ctx \in Staff, t \in Tenant :
          /\ Visible(ctx, "Tenant", "findFirst", Home[t])
          /\ Set(h, [NoRequest EXCEPT !.ctx = ctx, !.tenant = t])
    /\ \E label \in {"findLease", "createThread"} : Goto(h, label)
    /\ UNCHANGED rows

FindLease(h) ==
    /\ pc[h] = "findLease"
    /\ \E l \in Lease :
          /\ Visible(req[h].ctx, "Lease", "findFirst", Home[l])
          /\ Set(h, [req[h] EXCEPT !.lease = l])
    /\ Goto(h, "createThread")
    /\ UNCHANGED rows

CreateThread(h) ==
    /\ pc[h] = "createThread"
    /\ \E t \in Thread \ Opened :
          thread' = [thread EXCEPT ![t] = [agency |-> req[h].ctx.agency,
                                           tenant |-> req[h].tenant,
                                           lease |-> req[h].lease]]
    /\ Finish(h)
    /\ UNCHANGED <<lastMessageAt, message, read, disturbed>>

(* getThread and getMyThread, before a message is sent or the other side's *)
(* are marked read.                                                        *)
GetThread(h, t) ==
    /\ pc[h] = "idle"
    /\ \E ctx \in Staff :
          /\ Visible(ctx, "MessageThread", "findFirst", thread[t].agency)
          /\ Set(h, [NoRequest EXCEPT !.ctx = ctx, !.thread = t])
    /\ \E label \in {"store", "mark"} : Goto(h, label)
    /\ UNCHANGED rows

GetAnyThread(h, t) ==  \* mutant: relies on the agency alone
    /\ pc[h] = "idle"
    /\ \E me \in Tenant :
          /\ thread[t].agency = Home[me]
          /\ Set(h, [NoRequest EXCEPT !.ctx = [agency |-> Home[me], role |-> None],
                                      !.me = me, !.thread = t])
    /\ \E label \in {"store", "mark"} : Goto(h, label)
    /\ UNCHANGED rows

GetMyThread(h, t) ==
    /\ pc[h] = "idle"
    /\ \E me \in Tenant :
          LET ctx == [agency |-> Home[me], role |-> None]
          IN  /\ thread[t].tenant = me
              /\ Visible(ctx, "MessageThread", "findFirst", thread[t].agency)
              /\ Set(h, [NoRequest EXCEPT !.ctx = ctx, !.me = me, !.thread = t])
    /\ \E label \in {"store", "mark"} : Goto(h, label)
    /\ UNCHANGED rows

(* sendMessage, sendMyMessage: store the message ...                       *)
StoreMessage(h) ==
    /\ pc[h] = "store"
    /\ LET t == req[h].thread
       IN  \E m \in Message \ Sent :
              /\ message' = [message EXCEPT ![m] = [thread |-> t, side |-> SideOf(req[h]),
                                                    sentAt |-> now]]
              /\ Set(h, [req[h] EXCEPT !.message = m])
              /\ disturbed' = IF Sending(t) = {} THEN disturbed
                              ELSE disturbed \cup {m}
    /\ Goto(h, "stamp")
    /\ UNCHANGED <<thread, lastMessageAt, read>>

(* ... read the clock, when the answer comes back ...                      *)
Stamp(h) ==
    /\ pc[h] = "stamp"
    /\ Set(h, [req[h] EXCEPT !.at = now])
    /\ Goto(h, "touch")
    /\ UNCHANGED rows

TouchThreadWithMessage(h) ==  \* mutant: writes the message for its time
    /\ pc[h] = "touch"
    /\ lastMessageAt' = [lastMessageAt EXCEPT ![req[h].thread] = req[h].message]
    /\ Finish(h)
    /\ UNCHANGED <<thread, message, read, disturbed>>

TouchThreadOnce(h) ==  \* mutant: writes the first message's time only
    /\ pc[h] = "touch"
    /\ lastMessageAt' = [lastMessageAt EXCEPT ![req[h].thread] = IF @ = None THEN req[h].at ELSE @]
    /\ Finish(h)
    /\ UNCHANGED <<thread, message, read, disturbed>>

(* ... and write the time read to the thread, whatever is there by then.   *)
TouchThread(h) ==
    /\ pc[h] = "touch"
    /\ lastMessageAt' = [lastMessageAt EXCEPT ![req[h].thread] = req[h].at]
    /\ Finish(h)
    /\ UNCHANGED <<thread, message, read, disturbed>>

(* markAsRead, markMyRead: every message of the other side that is in the  *)
(* thread by now, seen or not.                                             *)
MarkAsRead(h) ==
    /\ pc[h] = "mark"
    /\ read' = read \cup {m \in Sent : /\ message[m].thread = req[h].thread
                                       /\ message[m].side # SideOf(req[h])}
    /\ Finish(h)
    /\ UNCHANGED <<thread, lastMessageAt, message, disturbed>>

(* A look-up finds nothing, a call throws, or the process stops.           *)
AbortMessaging(h) ==
    /\ pc[h] # "idle"
    /\ disturbed' = IF req[h].message = None THEN disturbed
                    ELSE disturbed \cup {req[h].message}
    /\ Finish(h)
    /\ UNCHANGED <<thread, lastMessageAt, message, read>>

MessagingController(h) == FindTenant(h) \/ \E t \in Opened : GetThread(h, t)
TenantMessagingController(h) == \E t \in Opened : GetMyThread(h, t)

MessagingStep(h) ==
    \/ FindLease(h) \/ CreateThread(h) \/ StoreMessage(h) \/ Stamp(h)
    \/ TouchThread(h) \/ MarkAsRead(h)

MessagingNext ==
    \E h \in Handler : \/ MessagingController(h) \/ TenantMessagingController(h)
                       \/ MessagingStep(h) \/ AbortMessaging(h)

-----------------------------------------------------------------------------
(* Properties                                                              *)

MessagingTypeOK ==
    /\ thread \in [Thread -> Parties \cup {None}]
    /\ lastMessageAt \in [Thread -> Nat \cup {None}]
    /\ message \in [Message -> Content \cup {None}]
    /\ read \subseteq Sent /\ disturbed \subseteq Sent
    /\ pc \in [Handler -> PC]
    /\ req \in [Handler -> Request]

(* May a request take part in a thread?                                    *)
PartyTo(r, t) ==
    IF r.me # None THEN thread[t].tenant = r.me
    ELSE r.ctx.role = "SYSTEM_ADMIN" \/ thread[t].agency = r.ctx.agency

Conversation(t) ==
    <<lastMessageAt[t], {m \in Sent : message[m].thread = t},
      {m \in read : message[m].thread = t}>>

(* Only its tenant, its agency and system administrators ever change a     *)
(* thread, each marking the other's messages only; and a thread is opened  *)
(* by an agency for a tenant and a lease of its own, but by a system       *)
(* administrator for any.  Message has no agency of its own, so its        *)
(* queries are not scoped, and what was looked up is calls old when it is  *)
(* used (messaging.service.ts:63-89, tenant-messaging.service.ts:31-57).   *)
OnlyPartiesTakePart ==
    [][\A t \in Thread : thread'[t] # thread[t] \/ Conversation(t)' # Conversation(t) =>
          \E h \in Handler :
            /\ pc'[h] # pc[h]
            /\ IF t \in Opened
               THEN /\ thread'[t] = thread[t]
                    /\ req[h].thread = t /\ PartyTo(req[h], t)
                    /\ \A m \in read' \ read : message[m].side # SideOf(req[h])
               ELSE /\ req[h].me = None /\ thread'[t].agency = req[h].ctx.agency
                    /\ \/ req[h].ctx.role = "SYSTEM_ADMIN"
                       \/ \A x \in {thread'[t].tenant, thread'[t].lease} \ {None} :
                             Home[x] = thread'[t].agency]_messagingVars

(* A thread is listed by a time no earlier than any message in it that was *)
(* stored while no other was being sent there, once its sender is through. *)
(* The time is written in a call of its own, from a clock read before that *)
(* call, so of overlapping senders the earlier may write last, and one cut *)
(* off writes nothing; but what a later sender writes is never too early   *)
(* (messaging.service.ts:66-78, tenant-messaging.service.ts:34-45).        *)
LastMessageCurrent ==
    \A m \in Sent \ disturbed :
        LET t == message[m].thread
        IN  (\A h \in Sending(t) : req[h].message # m) =>
                lastMessageAt[t] # None /\ lastMessageAt[t] >= message[m].sentAt
=============================================================================
