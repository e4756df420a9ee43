--------------------------- MODULE AgencyRecords ----------------------------
(***************************************************************************)
(* The rows agencies keep: owners, properties, tenants, units, leases,     *)
(* rent schedules and payments, with the services that create and change   *)
(* them (modules/{owner,property,tenant,unit,lease,rent-schedule,payment}) *)
(* and the permission guard before them.                                   *)
(*                                                                         *)
(* What the model keeps of a row: whose it is, the rows it refers to, and  *)
(* the status of rent schedules and payments.  The other statuses are not  *)
(* kept: nothing here reads them (leases have LeaseWorkflow).  Requests    *)
(* interleave between any two database calls and may end between them.     *)
(***************************************************************************)
EXTENDS Naturals, FiniteSets

CONSTANTS
    Handler,   \* requests in flight together
    Agency,
    Row,       \* ids there may ever be (bounds the run)
    KindOf,    \* what kind of row an id names
    Role,      \* the roles whose requests are considered
    None

Kind == {"owner", "property", "tenant", "unit", "lease", "schedule", "payment"}

Administrator == {"SUPER_ADMIN", "SYSTEM_ADMIN", "AGENCY_OWNER"}
UserRole == Administrator \cup {"AGENCY_STAFF", "AGENT", "VIEWER"}

ASSUME KindAssumption == KindOf \in [Row -> Kind]
ASSUME RoleAssumption == Role \subseteq UserRole
ASSUME NoneAssumption == None \notin Agency \cup Row

ScheduleStatus == {"PENDING", "PAID", "OVERDUE", "CANCELLED"}
PaymentStatus == {"PENDING", "COMPLETED", "REFUNDED", "VOIDED"}
StatusOf(kind) == CASE kind = "schedule" -> ScheduleStatus
                    [] kind = "payment" -> PaymentStatus
                    [] OTHER -> {None}
DefaultOf(kind) == CASE kind = "schedule" -> "PENDING"
                     [] kind = "payment" -> "COMPLETED"
                     [] OTHER -> None

(* The row a row hangs from, and the other row it may refer to.            *)
TopLevel == {"owner", "property", "tenant"}
ParentKind == [unit |-> "property", lease |-> "unit", schedule |-> "lease",
               payment |-> "schedule"]
ReferenceKind == [property |-> "owner", lease |-> "tenant",
                  schedule |-> "tenant", payment |-> "tenant"]
Rent == {"schedule", "payment"}  \* references looked up first; status kept

VARIABLES
    agencyOf,  \* agencyId of a row; None while there is no such row
    parentOf,  \* the id it hangs from
    refOf,     \* the other id it refers to
    status,    \* status of schedules and payments
    manual,    \* history: rows whose status was last set by PATCH, void or cancel
    pc, req    \* the handlers: next call, and the request's locals

tables == <<agencyOf, parentOf, refOf, status>>
vars == <<tables, manual, pc, req>>

PC == {"idle", "reference", "insert", "patch", "remove", "payPayment", "paySchedule"}

Request == [role : Role \cup {None}, agency : Agency \cup {None},
            kind : Kind \cup {None}, row : Row \cup {None},
            parent : Row \cup {None}, ref : Row \cup {None}]

NoRequest == [role |-> None, agency |-> None, kind |-> None, row |-> None,
              parent |-> None, ref |-> None]

Stored == {r \in Row : agencyOf[r] # None}

Init ==
    /\ agencyOf = [r \in Row |-> None]
    /\ parentOf = [r \in Row |-> None]
    /\ refOf = [r \in Row |-> None]
    /\ status = [r \in Row |-> None]
    /\ manual = {}
    /\ pc = [h \in Handler |-> "idle"]
    /\ req = [h \in Handler |-> NoRequest]

-----------------------------------------------------------------------------
(* Who may do what                                                         *)

MayWriteAll(role, action, kind) ==  \* mutant: staff may write every kind
    role \in Administrator \/ (role = "AGENCY_STAFF" /\ action = "write")

(* PermissionsGuard over ROLE_PERMISSIONS, for the permissions the record  *)
(* endpoints ask for.                                                      *)
May(role, action, kind) ==
    \/ role \in Administrator
    \/ /\ role = "AGENCY_STAFF"
       /\ action = "write"
       /\ kind \in {"owner", "property", "tenant", "payment"}

(* getById: the row is the agency's, and what it hangs from is, too.       *)
Owned(r, a) ==
    /\ r \in Stored
    /\ agencyOf[r] = a
    /\ KindOf[r] \notin TopLevel => agencyOf[parentOf[r]] = a

-----------------------------------------------------------------------------
Goto(h, label) == pc' = [pc EXCEPT ![h] = label]
Set(h, r) == req' = [req EXCEPT ![h] = r]
Finish(h) == Goto(h, "idle") /\ Set(h, NoRequest)

Put(r, a, parent, ref) ==
    /\ agencyOf' = [agencyOf EXCEPT ![r] = a]
    /\ parentOf' = [parentOf EXCEPT ![r] = parent]
    /\ refOf' = [refOf EXCEPT ![r] = ref]
    /\ status' = [status EXCEPT ![r] = DefaultOf(KindOf[r])]

(* create of a kind that hangs from nothing: a single call.                *)
CreateTop(h, kind) ==
    /\ pc[h] = "idle"
    /\ \E role \in Role, a \in Agency, r \in Row \ Stored :
          /\ May(role, "write", kind)
          /\ KindOf[r] = kind
          /\ Put(r, a, None, None)
    /\ UNCHANGED <<manual, pc, req>>

(* create of any other kind begins by looking for the row it hangs from;   *)
(* when that is not there the request is over and has changed nothing.     *)
FindParent(h, kind) ==
    /\ pc[h] = "idle"
    /\ \E role \in Role, a \in Agency, r \in Row :
          /\ May(role, "write", kind)
          /\ KindOf[r] = ParentKind[kind]
          /\ r \in Stored /\ agencyOf[r] = a
          /\ Set(h, [NoRequest EXCEPT !.role = role, !.agency = a,
                                      !.kind = kind, !.parent = r])
    /\ \E label \in {"insert"} \cup (IF kind \in Rent THEN {"reference"} ELSE {}) :
          Goto(h, label)
    /\ UNCHANGED <<tables, manual>>

FindReferenceAnywhere(h) ==  \* mutant: the reference only has to exist
    /\ pc[h] = "reference"
    /\ \E r \in Stored :
          /\ KindOf[r] = ReferenceKind[req[h].kind]
          /\ Set(h, [req[h] EXCEPT !.ref = r])
    /\ Goto(h, IF req[h].row = None THEN "insert" ELSE "patch")
    /\ UNCHANGED <<tables, manual>>

(* Look up the other row the request names, on a create or a PATCH; not    *)
(* finding it ends the request (Abort).                                    *)
FindReference(h) ==
    /\ pc[h] = "reference"
    /\ \E r \in Row :
          /\ KindOf[r] = ReferenceKind[req[h].kind]
          /\ r \in Stored /\ agencyOf[r] = req[h].agency
          /\ Set(h, [req[h] EXCEPT !.ref = r])
    /\ Goto(h, IF req[h].row = None THEN "insert" ELSE "patch")
    /\ UNCHANGED <<tables, manual>>

Insert(h) ==
    /\ pc[h] = "insert"
    /\ \E r \in Row \ Stored :
          /\ KindOf[r] = req[h].kind
          /\ Put(r, req[h].agency, req[h].parent, req[h].ref)
    /\ Finish(h)
    /\ UNCHANGED manual

FindRowUnowned(h, kind, action, labels) ==  \* mutant: finds by id alone
    /\ pc[h] = "idle"
    /\ \E role \in Role, a \in Agency, r \in Stored :
          /\ May(role, action, kind)
          /\ KindOf[r] = kind
          /\ Set(h, [NoRequest EXCEPT !.role = role, !.agency = a, !.kind = kind,
                                      !.row = r, !.parent = parentOf[r]])
    /\ \E label \in labels : Goto(h, label)
    /\ UNCHANGED <<tables, manual>>

(* Every change begins with getById.                                       *)
FindRow(h, kind, action, labels) ==
    /\ pc[h] = "idle"
    /\ \E role \in Role, a \in Agency, r \in Row :
          /\ May(role, action, kind)
          /\ KindOf[r] = kind
          /\ Owned(r, a)
          /\ Set(h, [NoRequest EXCEPT !.role = role, !.agency = a, !.kind = kind,
                                      !.row = r, !.parent = parentOf[r]])
    /\ \E label \in labels : Goto(h, label)
    /\ UNCHANGED <<tables, manual>>

(* What a PATCH may leave in the reference: the row that was looked up; or *)
(* what was there, or nothing; or, where the code looks nothing up (the    *)
(* owner of a property, the tenant of a lease), any row of that kind.      *)
Referable(r, found) ==
    IF found # None THEN {found}
    ELSE {None, refOf[r]} \cup
         {x \in Stored : /\ KindOf[r] \in DOMAIN ReferenceKind \ Rent
                         /\ KindOf[x] = ReferenceKind[KindOf[r]]}

(* PATCH: one update by id.  The status, when sent, is any of its type.    *)
Patch(h) ==
    /\ pc[h] = "patch"
    /\ LET r == req[h].row
       IN  /\ \E ref \in Referable(r, req[h].ref) :
                  refOf' = [refOf EXCEPT ![r] = ref]
           /\ \/ UNCHANGED <<status, manual>>
              \/ /\ KindOf[r] \in Rent
                 /\ \E s \in StatusOf(KindOf[r]) : status' = [status EXCEPT ![r] = s]
                 /\ manual' = manual \cup {r}
    /\ Finish(h)
    /\ UNCHANGED <<agencyOf, parentOf>>

RemovedAlike(kind) == "VOIDED"  \* mutant: one word for both

Removed(kind) == IF kind = "payment" THEN "VOIDED" ELSE "CANCELLED"

(* void, cancel, and archive, whose status is not kept here.               *)
Remove(h) ==
    /\ pc[h] = "remove"
    /\ LET r == req[h].row
       IN  IF KindOf[r] \in Rent
           THEN /\ status' = [status EXCEPT ![r] = Removed(KindOf[r])]
                /\ manual' = manual \cup {r}
           ELSE UNCHANGED <<status, manual>>
    /\ Finish(h)
    /\ UNCHANGED <<agencyOf, parentOf, refOf>>

PayPaymentKept(h) ==  \* mutant: leaves the payment's status as it is
    /\ pc[h] = "payPayment"
    /\ manual' = manual \ {req[h].row}
    /\ Goto(h, "paySchedule")
    /\ UNCHANGED <<tables, req>>

(* markAsPaid: the payment first, then, by the id read with it, the rent   *)
(* schedule.                                                               *)
PayPayment(h) ==
    /\ pc[h] = "payPayment"
    /\ status' = [status EXCEPT ![req[h].row] = "COMPLETED"]
    /\ manual' = manual \ {req[h].row}
    /\ Goto(h, "paySchedule")
    /\ UNCHANGED <<agencyOf, parentOf, refOf, req>>

PaySchedule(h) ==
    /\ pc[h] = "paySchedule"
    /\ status' = [status EXCEPT ![req[h].parent] = "PAID"]
    /\ manual' = manual \ {req[h].parent}
    /\ Finish(h)
    /\ UNCHANGED <<agencyOf, parentOf, refOf>>

(* A look-up finds nothing, a call throws, or the process stops.           *)
Abort(h) ==
    /\ pc[h] # "idle"
    /\ Finish(h)
    /\ UNCHANGED <<tables, manual>>

-----------------------------------------------------------------------------
(* The services: how a request of each begins.                             *)
Changing(h, kind) == \/ FindRow(h, kind, "write", {"patch"})
                     \/ FindRow(h, kind, "delete", {"remove"})

OwnerService(h) == CreateTop(h, "owner") \/ Changing(h, "owner")
PropertyService(h) == CreateTop(h, "property") \/ Changing(h, "property")
TenantService(h) == CreateTop(h, "tenant") \/ Changing(h, "tenant")
UnitService(h) == FindParent(h, "unit") \/ Changing(h, "unit")
LeaseService(h) == FindParent(h, "lease") \/ Changing(h, "lease")

RentScheduleService(h) ==
    \/ FindParent(h, "schedule")
    \/ FindRow(h, "schedule", "write", {"patch", "reference"})
    \/ FindRow(h, "schedule", "delete", {"remove"})

PaymentService(h) ==
    \/ FindParent(h, "payment")
    \/ FindRow(h, "payment", "write", {"patch", "reference", "payPayment"})
    \/ FindRow(h, "payment", "delete", {"remove"})

Begin(h) == \/ OwnerService(h) \/ PropertyService(h) \/ TenantService(h)
            \/ UnitService(h) \/ LeaseService(h) \/ RentScheduleService(h)
            \/ PaymentService(h)

Step(h) == \/ FindReference(h) \/ Insert(h) \/ Patch(h) \/ Remove(h)
           \/ PayPayment(h) \/ PaySchedule(h)

Next == \E h \in Handler : Begin(h) \/ Step(h) \/ Abort(h)

Spec == Init /\ [][Next]_vars

-----------------------------------------------------------------------------
(* Properties                                                              *)

TypeOK ==
    /\ agencyOf \in [Row -> Agency \cup {None}]
    /\ parentOf \in [Row -> Row \cup {None}]
    /\ refOf \in [Row -> Row \cup {None}]
    /\ status \in [Row -> ScheduleStatus \cup PaymentStatus \cup {None}]
    /\ \A r \in Stored : status[r] \in StatusOf(KindOf[r])
    /\ manual \subseteq Stored
    /\ pc \in [Handler -> PC]
    /\ req \in [Handler -> Request]

(* A row and the row it hangs from belong to one agency, and so do a       *)
(* schedule or payment and its tenant, although every check is a call of   *)
(* its own (payment.service.ts:41-46, rent-schedule :41-46, unit :31,      *)
(* lease :36).  The owner of a property and the tenant of a lease are      *)
(* taken from the PATCH without a look-up, so nothing is said of them.     *)
ReferencesStayHome ==
    \A r \in Stored :
        /\ KindOf[r] \notin TopLevel =>
              parentOf[r] \in Stored /\ agencyOf[parentOf[r]] = agencyOf[r]
        /\ KindOf[r] \in Rent /\ refOf[r] # None =>
              refOf[r] \in Stored /\ agencyOf[refOf[r]] = agencyOf[r]

Contents(r) == <<agencyOf[r], parentOf[r], refOf[r], status[r]>>

(* An existing row changes only by a request of its own agency, and stays  *)
(* that agency's: updates go by id alone after getById, and markAsPaid     *)
(* writes a schedule nobody asked getById for (payment.service.ts:107-118).*)
WritesStayHome ==
    [][\A r \in Stored : Contents(r)' # Contents(r) =>
          /\ agencyOf'[r] = agencyOf[r] /\ parentOf'[r] = parentOf[r]
          /\ \E h \in Handler : /\ pc'[h] # pc[h]
                                /\ req[h].agency = agencyOf[r]]_vars

(* Of what exists, a member of staff changes no unit or lease, and of rent *)
(* schedules only that one of them is PAID, by paying a payment of it:     *)
(* AGENCY_STAFF has payment.write but not rent_schedule.write              *)
(* (permissions.map.ts:67-81, payment.service.ts:113-118).                 *)
StaffKeepToTheirRows ==
    [][\A h \in Handler, r \in Stored :
          /\ pc'[h] # pc[h]
          /\ req[h].role = "AGENCY_STAFF"
          /\ Contents(r)' # Contents(r)
          => \/ KindOf[r] \in {"owner", "property", "tenant", "payment"}
             \/ /\ KindOf[r] = "schedule" /\ status'[r] = "PAID"
                /\ KindOf[req[h].row] = "payment" /\ parentOf[req[h].row] = r]_vars

(* A schedule last set by markAsPaid has a COMPLETED payment of the same   *)
(* agency, or one that was changed by hand since; also when requests cross *)
(* between the two calls or stop there (payment.service.ts:105-120).       *)
PaidIsBacked ==
    \A s \in Stored \ manual :
        KindOf[s] = "schedule" /\ status[s] = "PAID" =>
            \E p \in Stored :
                /\ KindOf[p] = "payment" /\ parentOf[p] = s
                /\ agencyOf[p] = agencyOf[s]
                /\ p \in manual \/ status[p] = "COMPLETED"
=============================================================================
