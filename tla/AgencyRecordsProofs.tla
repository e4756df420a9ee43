------------------------ MODULE AgencyRecordsProofs -------------------------
(***************************************************************************)
(* Proofs about AgencyRecords, for every set of agencies, rows, roles and  *)
(* requests.                                                               *)
(***************************************************************************)
EXTENDS AgencyRecords, TLAPS

(* The kinds of which AGENCY_STAFF may write an existing row.              *)
StaffKind == {"owner", "property", "tenant", "payment"}

(* What a handler knows about the rows its next call will write: what it   *)
(* looked up is still there, still its agency's and still hangs where it   *)
(* hung, because no call moves a row.                                      *)
Sound(h) ==
    LET r == req[h]
    IN  /\ pc[h] # "idle" =>
              r.agency \in Agency /\ (r.ref # None => r.ref \in Stored
                                                      /\ agencyOf[r.ref] = r.agency)
        /\ pc[h] = "insert" => r.row = None
        /\ pc[h] \in {"insert", "reference"} /\ r.row = None =>
              /\ r.kind \in Kind \ TopLevel
              /\ r.parent \in Stored /\ agencyOf[r.parent] = r.agency
              /\ KindOf[r.parent] = ParentKind[r.kind]
        /\ pc[h] \in {"patch", "remove", "payPayment", "paySchedule"} => r.row # None
        /\ r.row # None => /\ r.row \in Stored /\ agencyOf[r.row] = r.agency
                           /\ r.parent = parentOf[r.row]
                           /\ r.role = "AGENCY_STAFF" => KindOf[r.row] \in StaffKind
        /\ pc[h] \in {"payPayment", "paySchedule"} => KindOf[r.row] = "payment"

ParentsFit ==
    \A r \in Stored : KindOf[r] \notin TopLevel =>
        parentOf[r] \in Stored /\ KindOf[parentOf[r]] = ParentKind[KindOf[r]]

(* Payments are born COMPLETED and markAsPaid leaves them so.              *)
UntouchedAreCompleted ==
    \A p \in Stored \ manual : KindOf[p] = "payment" => status[p] = "COMPLETED"

SafeInv == /\ TypeOK
           /\ \A h \in Handler : Sound(h)
           /\ ParentsFit
           /\ UntouchedAreCompleted
           /\ ReferencesStayHome

(* No row goes away, changes hands or is hung elsewhere.                   *)
Grows == \A r \in Stored : /\ r \in Stored'
                           /\ agencyOf'[r] = agencyOf[r]
                           /\ parentOf'[r] = parentOf[r]

-----------------------------------------------------------------------------
LEMMA NoRequestType == NoRequest \in Request
  BY DEF NoRequest, Request

LEMMA InitSafe == Init => SafeInv
  <1> SUFFICES ASSUME Init PROVE SafeInv
    OBVIOUS
  <1>1. Stored = {}
    BY DEF Init, Stored
  <1>2. TypeOK
    BY <1>1, NoRequestType DEF Init, TypeOK, PC
  <1>3. ASSUME NEW h \in Handler PROVE Sound(h)
    BY DEF Init, Sound, NoRequest
  <1> QED
    BY <1>1, <1>2, <1>3 DEF SafeInv, ParentsFit, UntouchedAreCompleted, ReferencesStayHome

(* The steps of Next, with the arguments the services give them.           *)
Labels(k) == {"patch", "remove", "reference"} \cup (IF k = "payment" THEN {"payPayment"} ELSE {})

OneOf(h) ==
    \/ \E k \in TopLevel : CreateTop(h, k)
    \/ \E k \in Kind \ TopLevel : FindParent(h, k)
    \/ \E k \in Kind : \E a \in {"write", "delete"}, labels \in SUBSET Labels(k) :
          FindRow(h, k, a, labels)
    \/ Step(h) \/ Abort(h)

LEMMA NextCases == Next => \E h \in Handler : OneOf(h)
  <1> SUFFICES ASSUME NEW h \in Handler, Begin(h) PROVE OneOf(h)
    BY DEF Next, OneOf
  <1> DEFINE Kinds == {"owner", "property", "tenant", "unit", "lease", "schedule"}
  <1>1. ASSUME NEW k \in Kinds, Changing(h, k) PROVE OneOf(h)
    <2>1. k \in Kind /\ {"patch"} \in SUBSET Labels(k) /\ {"remove"} \in SUBSET Labels(k)
      BY DEF Kind, Labels
    <2> QED
      BY <1>1, <2>1 DEF Changing, OneOf
  <1>2. CASE OwnerService(h) \/ PropertyService(h) \/ TenantService(h)
    BY <1>1, <1>2 DEF OwnerService, PropertyService, TenantService, TopLevel, OneOf
  <1>3. CASE UnitService(h) \/ LeaseService(h)
    BY <1>1, <1>3 DEF UnitService, LeaseService, Kind, TopLevel, OneOf
  <1>4. CASE RentScheduleService(h)
    <2>1. /\ "schedule" \in Kind \ TopLevel
          /\ {"patch", "reference"} \in SUBSET Labels("schedule")
          /\ {"remove"} \in SUBSET Labels("schedule")
      BY DEF Kind, TopLevel, Labels
    <2> QED
      BY <1>4, <2>1 DEF RentScheduleService, OneOf
  <1>5. CASE PaymentService(h)
    <2>1. /\ "payment" \in Kind \ TopLevel
          /\ {"patch", "reference", "payPayment"} \in SUBSET Labels("payment")
          /\ {"remove"} \in SUBSET Labels("payment")
      BY DEF Kind, TopLevel, Labels
    <2> QED
      BY <1>5, <2>1 DEF PaymentService, OneOf
  <1> QED
    BY <1>2, <1>3, <1>4, <1>5 DEF Begin

-----------------------------------------------------------------------------
(* A row stored by Put is new, so nothing that was there changes.          *)
LEMMA PutGrows ==
  ASSUME TypeOK, NEW r \in Row \ Stored, NEW a \in Agency, NEW p, NEW q, Put(r, a, p, q)
  PROVE  /\ Grows
         /\ Stored' = Stored \cup {r} /\ agencyOf'[r] = a
         /\ parentOf'[r] = p /\ refOf'[r] = q /\ status'[r] = DefaultOf(KindOf[r])
         /\ \A x \in Stored : refOf'[x] = refOf[x] /\ status'[x] = status[x]
  BY NoneAssumption DEF Put, Grows, TypeOK, Stored

(* A handler that does not move keeps what it knows while rows only grow.  *)
LEMMA SoundKept ==
  ASSUME TypeOK, Grows, NEW g \in Handler, Sound(g),
         pc'[g] = pc[g], req'[g] = req[g]
  PROVE  Sound(g)'
  BY DEF Sound, Grows

LEMMA FinishSound ==
  ASSUME TypeOK, NEW h \in Handler, Finish(h)
  PROVE  /\ Sound(h)'
         /\ pc' \in [Handler -> PC] /\ req' \in [Handler -> Request]
         /\ \A g \in Handler \ {h} : pc'[g] = pc[g] /\ req'[g] = req[g]
  <1>1. pc'[h] = "idle" /\ req'[h] = NoRequest
    BY DEF Finish, Goto, Set, TypeOK
  <1>2. Sound(h)'
    BY <1>1 DEF Sound, NoRequest
  <1> QED
    BY <1>2, NoRequestType DEF Finish, Goto, Set, TypeOK, PC

LEMMA MoveFrame ==
  ASSUME TypeOK, NEW h \in Handler, NEW label \in PC, NEW r \in Request,
         Goto(h, label), Set(h, r)
  PROVE  /\ pc'[h] = label /\ req'[h] = r
         /\ pc' \in [Handler -> PC] /\ req' \in [Handler -> Request]
         /\ \A g \in Handler \ {h} : pc'[g] = pc[g] /\ req'[g] = req[g]
  BY DEF Goto, Set, TypeOK

(* Steps that only look: the tables stay, one handler learns something.    *)
LEMMA LookSafe ==
  ASSUME SafeInv, NEW h \in Handler, UNCHANGED <<tables, manual>>,
         pc' \in [Handler -> PC], req' \in [Handler -> Request],
         \A g \in Handler \ {h} : pc'[g] = pc[g] /\ req'[g] = req[g],
         Sound(h)'
  PROVE  SafeInv' /\ Grows
  <1>1. Stored' = Stored /\ Grows
    BY DEF tables, Stored, Grows
  <1>2. TypeOK'
    BY <1>1 DEF SafeInv, TypeOK, tables
  <1>3. \A g \in Handler : Sound(g)'
    BY <1>1, SoundKept DEF SafeInv
  <1>4. ParentsFit' /\ UntouchedAreCompleted' /\ ReferencesStayHome'
    BY <1>1 DEF SafeInv, ParentsFit, UntouchedAreCompleted, ReferencesStayHome, tables
  <1> QED
    BY <1>1, <1>2, <1>3, <1>4 DEF SafeInv

LEMMA FindParentSafe ==
  ASSUME SafeInv, NEW h \in Handler, NEW k \in Kind \ TopLevel, FindParent(h, k)
  PROVE  SafeInv' /\ Grows
  <1>1. PICK role \in Role, a \in Agency, r \in Row :
           /\ KindOf[r] = ParentKind[k]
           /\ r \in Stored /\ agencyOf[r] = a
           /\ Set(h, [NoRequest EXCEPT !.role = role, !.agency = a,
                                       !.kind = k, !.parent = r])
    BY DEF FindParent
  <1>2. PICK label \in {"insert", "reference"} : Goto(h, label)
    BY DEF FindParent
  <1> DEFINE new == [NoRequest EXCEPT !.role = role, !.agency = a, !.kind = k, !.parent = r]
  <1>3. new \in Request /\ label \in PC
    BY DEF NoRequest, Request, PC
  <1>4. new.agency = a /\ new.kind = k /\ new.parent = r /\ new.row = None /\ new.ref = None
    BY DEF NoRequest
  <1>t. TypeOK
    BY DEF SafeInv
  <1> HIDE DEF new
  <1>5. /\ pc'[h] = label /\ req'[h] = new
        /\ pc' \in [Handler -> PC] /\ req' \in [Handler -> Request]
        /\ \A g \in Handler \ {h} : pc'[g] = pc[g] /\ req'[g] = req[g]
    BY <1>1, <1>2, <1>3, <1>t, MoveFrame DEF new
  <1>6. UNCHANGED <<tables, manual>>
    BY DEF FindParent
  <1>7. Sound(h)'
    BY <1>1, <1>4, <1>5, <1>6 DEF Sound, tables, Stored
  <1> QED
    BY <1>5, <1>6, <1>7, LookSafe

LEMMA FindRowSafe ==
  ASSUME SafeInv, NEW h \in Handler, NEW k \in Kind, NEW a \in {"write", "delete"},
         NEW labels \in SUBSET Labels(k), FindRow(h, k, a, labels)
  PROVE  SafeInv' /\ Grows
  <1>1. PICK role \in Role, b \in Agency, r \in Row :
           /\ May(role, a, k)
           /\ KindOf[r] = k
           /\ Owned(r, b)
           /\ Set(h, [NoRequest EXCEPT !.role = role, !.agency = b, !.kind = k,
                                       !.row = r, !.parent = parentOf[r]])
    BY DEF FindRow
  <1>2. PICK label \in Labels(k) : Goto(h, label)
    BY DEF FindRow
  <1> DEFINE new == [NoRequest EXCEPT !.role = role, !.agency = b, !.kind = k,
                                      !.row = r, !.parent = parentOf[r]]
  <1>t. TypeOK
    BY DEF SafeInv
  <1>3. new \in Request /\ label \in PC
    BY <1>t DEF NoRequest, Request, PC, Labels, TypeOK
  <1>4. /\ new.agency = b /\ new.row = r /\ new.parent = parentOf[r] /\ new.ref = None
        /\ new.role = role
    BY DEF NoRequest
  <1>9. role = "AGENCY_STAFF" => KindOf[r] \in StaffKind
    BY <1>1 DEF May, Administrator, StaffKind
  <1> HIDE DEF new
  <1>5. /\ pc'[h] = label /\ req'[h] = new
        /\ pc' \in [Handler -> PC] /\ req' \in [Handler -> Request]
        /\ \A g \in Handler \ {h} : pc'[g] = pc[g] /\ req'[g] = req[g]
    BY <1>1, <1>2, <1>3, <1>t, MoveFrame DEF new
  <1>6. UNCHANGED <<tables, manual>>
    BY DEF FindRow
  <1>7. label \in {"patch", "remove", "reference", "payPayment"}
        /\ (label = "payPayment" => k = "payment")
    BY DEF Labels
  <1>8. Sound(h)'
    BY <1>1, <1>4, <1>5, <1>6, <1>7, <1>9, NoneAssumption DEF Sound, tables, Stored, Owned
  <1> QED
    BY <1>5, <1>6, <1>8, LookSafe

LEMMA FindReferenceSafe ==
  ASSUME SafeInv, NEW h \in Handler, FindReference(h)
  PROVE  SafeInv' /\ Grows
  <1>t. TypeOK /\ Sound(h) /\ pc[h] = "reference"
    BY DEF SafeInv, FindReference
  <1>1. PICK r \in Row :
           /\ r \in Stored /\ agencyOf[r] = req[h].agency
           /\ Set(h, [req[h] EXCEPT !.ref = r])
    BY DEF FindReference
  <1> DEFINE new == [req[h] EXCEPT !.ref = r]
             label == IF req[h].row = None THEN "insert" ELSE "patch"
  <1>2. Goto(h, label)
    BY DEF FindReference
  <1>3. new \in Request /\ label \in PC
    BY <1>t DEF Request, PC, TypeOK
  <1>4. /\ new.agency = req[h].agency /\ new.row = req[h].row
        /\ new.parent = req[h].parent /\ new.kind = req[h].kind /\ new.ref = r
        /\ new.role = req[h].role
    BY <1>t DEF TypeOK, Request
  <1> HIDE DEF new
  <1>5. /\ pc'[h] = label /\ req'[h] = new
        /\ pc' \in [Handler -> PC] /\ req' \in [Handler -> Request]
        /\ \A g \in Handler \ {h} : pc'[g] = pc[g] /\ req'[g] = req[g]
    BY <1>1, <1>2, <1>3, <1>t, MoveFrame DEF new
  <1>6. UNCHANGED <<tables, manual>>
    BY DEF FindReference
  <1>7. Sound(h)'
    BY <1>t, <1>1, <1>4, <1>5, <1>6 DEF Sound, tables, Stored
  <1> QED
    BY <1>5, <1>6, <1>7, LookSafe

LEMMA AbortSafe ==
  ASSUME SafeInv, NEW h \in Handler, Abort(h)
  PROVE  SafeInv' /\ Grows
  <1>1. Finish(h) /\ UNCHANGED <<tables, manual>>
    BY DEF Abort
  <1> QED
    BY <1>1, FinishSound, LookSafe DEF SafeInv

-----------------------------------------------------------------------------
(* Steps that store a new row below a row, and beside one, of its agency.  *)
LEMMA PutSafe ==
  ASSUME SafeInv, NEW r \in Row \ Stored, NEW a \in Agency,
         NEW p \in Row \cup {None}, NEW q \in Row \cup {None}, Put(r, a, p, q),
         UNCHANGED manual, pc' \in [Handler -> PC], req' \in [Handler -> Request],
         \A g \in Handler : Sound(g)',
         KindOf[r] \notin TopLevel => p \in Stored /\ agencyOf[p] = a
                                      /\ KindOf[p] = ParentKind[KindOf[r]],
         q # None => q \in Stored /\ agencyOf[q] = a
  PROVE  SafeInv' /\ Grows
  <1>t. TypeOK
    BY DEF SafeInv
  <1>1. /\ Grows
        /\ Stored' = Stored \cup {r} /\ agencyOf'[r] = a
        /\ parentOf'[r] = p /\ refOf'[r] = q /\ status'[r] = DefaultOf(KindOf[r])
        /\ \A x \in Stored : refOf'[x] = refOf[x] /\ status'[x] = status[x]
    BY <1>t, PutGrows
  <1>2. DefaultOf(KindOf[r]) \in StatusOf(KindOf[r])
        /\ DefaultOf(KindOf[r]) \in ScheduleStatus \cup PaymentStatus \cup {None}
        /\ (KindOf[r] = "payment" => DefaultOf(KindOf[r]) = "COMPLETED")
    BY DEF DefaultOf, StatusOf, ScheduleStatus, PaymentStatus
  <1>3. TypeOK'
    <2>1. \A x \in Stored' : status'[x] \in StatusOf(KindOf[x])
      BY <1>1, <1>2, <1>t DEF TypeOK
    <2> QED
      BY <1>1, <1>2, <1>t, <2>1 DEF TypeOK, Put
  <1>4. ParentsFit'
    BY <1>1 DEF ParentsFit, SafeInv, Grows
  <1>5. UntouchedAreCompleted'
    BY <1>1, <1>2 DEF UntouchedAreCompleted, SafeInv
  <1>6. ReferencesStayHome'
    BY <1>1 DEF ReferencesStayHome, SafeInv, Grows
  <1> QED
    BY <1>1, <1>3, <1>4, <1>5, <1>6 DEF SafeInv

LEMMA CreateTopSafe ==
  ASSUME SafeInv, NEW h \in Handler, NEW k \in TopLevel, CreateTop(h, k)
  PROVE  SafeInv' /\ Grows
  <1>1. PICK a \in Agency, r \in Row \ Stored : KindOf[r] = k /\ Put(r, a, None, None)
    BY DEF CreateTop
  <1>2. UNCHANGED <<manual, pc, req>>
    BY DEF CreateTop
  <1>3. \A g \in Handler : Sound(g)'
    BY <1>1, <1>2, PutGrows, SoundKept DEF SafeInv
  <1> QED
    BY <1>1, <1>2, <1>3, PutSafe DEF SafeInv, TypeOK

LEMMA InsertSafe ==
  ASSUME SafeInv, NEW h \in Handler, Insert(h)
  PROVE  SafeInv' /\ Grows
  <1>t. TypeOK /\ Sound(h) /\ pc[h] = "insert" /\ Finish(h) /\ UNCHANGED manual
    BY DEF SafeInv, Insert
  <1>1. PICK r \in Row \ Stored :
           KindOf[r] = req[h].kind /\ Put(r, req[h].agency, req[h].parent, req[h].ref)
    BY DEF Insert
  <1>2. /\ req[h].agency \in Agency /\ req[h].parent \in Stored
        /\ agencyOf[req[h].parent] = req[h].agency
        /\ KindOf[req[h].parent] = ParentKind[KindOf[r]]
        /\ req[h].ref # None => req[h].ref \in Stored /\ agencyOf[req[h].ref] = req[h].agency
        /\ req[h].ref \in Row \cup {None} /\ req[h].parent \in Row
    BY <1>t, <1>1 DEF Sound, TypeOK, Request, Stored
  <1>3. Grows
    BY <1>t, <1>1, <1>2, PutGrows
  <1>4. \A g \in Handler : Sound(g)'
    BY <1>t, <1>3, FinishSound, SoundKept DEF SafeInv
  <1>5. pc' \in [Handler -> PC] /\ req' \in [Handler -> Request]
    BY <1>t, FinishSound
  <1> QED
    BY <1>t, <1>1, <1>2, <1>4, <1>5, PutSafe

-----------------------------------------------------------------------------
(* Steps that write the status or the reference of a row that is there.    *)
LEMMA WriteSafe ==
  ASSUME SafeInv, UNCHANGED <<agencyOf, parentOf>>,
         refOf' \in [Row -> Row \cup {None}],
         status' \in [Row -> ScheduleStatus \cup PaymentStatus \cup {None}],
         manual' \subseteq Stored,
         pc' \in [Handler -> PC], req' \in [Handler -> Request],
         \A g \in Handler : Sound(g)',
         \A x \in Stored : KindOf[x] \in Rent /\ refOf'[x] # None =>
             refOf'[x] \in Stored /\ agencyOf[refOf'[x]] = agencyOf[x],
         \A x \in Stored : status'[x] \in StatusOf(KindOf[x]),
         \A x \in Stored \ manual' : KindOf[x] = "payment" => status'[x] = "COMPLETED"
  PROVE  SafeInv' /\ Grows
  <1>1. Stored' = Stored /\ Grows
    BY DEF Stored, Grows
  <1> QED
    BY <1>1 DEF SafeInv, TypeOK, ParentsFit, UntouchedAreCompleted, ReferencesStayHome

LEMMA PatchSafe ==
  ASSUME SafeInv, NEW h \in Handler, Patch(h)
  PROVE  SafeInv' /\ Grows
  <1>t. TypeOK /\ Sound(h) /\ pc[h] = "patch" /\ Finish(h) /\ UNCHANGED <<agencyOf, parentOf>>
    BY DEF SafeInv, Patch
  <1> DEFINE r == req[h].row
  <1>1. /\ r \in Stored /\ agencyOf[r] = req[h].agency
        /\ req[h].ref # None => req[h].ref \in Stored /\ agencyOf[req[h].ref] = agencyOf[r]
    BY <1>t DEF Sound
  <1>2. PICK ref \in Referable(r, req[h].ref) : refOf' = [refOf EXCEPT ![r] = ref]
    BY DEF Patch
  <1>3. /\ ref \in Row \cup {None}
        /\ KindOf[r] \in Rent => ref \in {None, refOf[r], req[h].ref}
    BY <1>1, <1>t DEF Referable, TypeOK, Request, Stored
  <1>4. refOf' \in [Row -> Row \cup {None}]
    BY <1>2, <1>3, <1>t DEF TypeOK
  <1>5. ASSUME NEW x \in Stored, KindOf[x] \in Rent, refOf'[x] # None
        PROVE  refOf'[x] \in Stored /\ agencyOf[refOf'[x]] = agencyOf[x]
    <2>1. CASE x = r
      BY <1>1, <1>2, <1>3, <1>5, <1>t, <2>1 DEF SafeInv, ReferencesStayHome, TypeOK, Stored
    <2>2. CASE x # r
      BY <1>2, <1>5, <1>t, <2>2 DEF SafeInv, ReferencesStayHome, TypeOK, Stored
    <2> QED
      BY <2>1, <2>2
  <1>6. /\ status' \in [Row -> ScheduleStatus \cup PaymentStatus \cup {None}]
        /\ manual' \subseteq Stored
        /\ \A x \in Stored : status'[x] \in StatusOf(KindOf[x])
        /\ \A x \in Stored \ manual' : KindOf[x] = "payment" => status'[x] = "COMPLETED"
    <2>1. CASE UNCHANGED <<status, manual>>
      BY <2>1, <1>t DEF SafeInv, TypeOK, UntouchedAreCompleted
    <2>2. CASE /\ KindOf[r] \in Rent
               /\ \E s \in StatusOf(KindOf[r]) : status' = [status EXCEPT ![r] = s]
               /\ manual' = manual \cup {r}
      <3>1. PICK s \in StatusOf(KindOf[r]) : status' = [status EXCEPT ![r] = s]
        BY <2>2
      <3>2. s \in ScheduleStatus \cup PaymentStatus \cup {None}
        BY <2>2, <3>1 DEF StatusOf, Rent
      <3> QED
        BY <1>1, <1>t, <2>2, <3>1, <3>2 DEF SafeInv, TypeOK, UntouchedAreCompleted, Stored
    <2> QED
      BY <2>1, <2>2 DEF Patch
  <1>7. Grows
    BY <1>t DEF Grows, Stored
  <1>8. (\A g \in Handler : Sound(g)') /\ pc' \in [Handler -> PC] /\ req' \in [Handler -> Request]
    BY <1>t, <1>7, FinishSound, SoundKept DEF SafeInv
  <1> QED
    BY <1>t, <1>4, <1>5, <1>6, <1>8, WriteSafe

LEMMA RemoveSafe ==
  ASSUME SafeInv, NEW h \in Handler, Remove(h)
  PROVE  SafeInv' /\ Grows
  <1>t. TypeOK /\ Sound(h) /\ pc[h] = "remove" /\ Finish(h) /\ UNCHANGED <<agencyOf, parentOf, refOf>>
    BY DEF SafeInv, Remove
  <1> DEFINE r == req[h].row
  <1>1. r \in Stored
    BY <1>t DEF Sound
  <1>2. /\ status' \in [Row -> ScheduleStatus \cup PaymentStatus \cup {None}]
        /\ manual' \subseteq Stored
        /\ \A x \in Stored : status'[x] \in StatusOf(KindOf[x])
        /\ \A x \in Stored \ manual' : KindOf[x] = "payment" => status'[x] = "COMPLETED"
    <2>1. CASE KindOf[r] \notin Rent
      BY <2>1, <1>t DEF Remove, SafeInv, TypeOK, UntouchedAreCompleted
    <2>2. CASE KindOf[r] \in Rent
      <3>1. status' = [status EXCEPT ![r] = Removed(KindOf[r])] /\ manual' = manual \cup {r}
        BY <2>2 DEF Remove
      <3>2. Removed(KindOf[r]) \in StatusOf(KindOf[r])
            /\ Removed(KindOf[r]) \in ScheduleStatus \cup PaymentStatus
        BY <2>2 DEF Removed, StatusOf, Rent, ScheduleStatus, PaymentStatus
      <3> QED
        BY <1>1, <1>t, <3>1, <3>2 DEF SafeInv, TypeOK, UntouchedAreCompleted, Stored
    <2> QED
      BY <2>1, <2>2
  <1>7. Grows
    BY <1>t DEF Grows, Stored
  <1>8. (\A g \in Handler : Sound(g)') /\ pc' \in [Handler -> PC] /\ req' \in [Handler -> Request]
    BY <1>t, <1>7, FinishSound, SoundKept DEF SafeInv
  <1> QED
    BY <1>t, <1>2, <1>8, WriteSafe DEF SafeInv, TypeOK, ReferencesStayHome

LEMMA PayPaymentSafe ==
  ASSUME SafeInv, NEW h \in Handler, PayPayment(h)
  PROVE  SafeInv' /\ Grows
  <1>t. TypeOK /\ Sound(h) /\ pc[h] = "payPayment" /\ UNCHANGED <<agencyOf, parentOf, refOf, req>>
    BY DEF SafeInv, PayPayment
  <1> DEFINE r == req[h].row
  <1>1. r \in Stored /\ KindOf[r] = "payment"
    BY <1>t DEF Sound
  <1>2. /\ status' \in [Row -> ScheduleStatus \cup PaymentStatus \cup {None}]
        /\ manual' \subseteq Stored
        /\ \A x \in Stored : status'[x] \in StatusOf(KindOf[x])
        /\ \A x \in Stored \ manual' : KindOf[x] = "payment" => status'[x] = "COMPLETED"
    BY <1>1, <1>t DEF PayPayment, SafeInv, TypeOK, UntouchedAreCompleted, Stored,
                      StatusOf, PaymentStatus
  <1>3. /\ pc'[h] = "paySchedule" /\ pc' \in [Handler -> PC]
        /\ \A g \in Handler \ {h} : pc'[g] = pc[g]
    BY <1>t DEF PayPayment, Goto, TypeOK, PC
  <1>4. Grows /\ Stored' = Stored
    BY <1>t DEF Grows, Stored
  <1>5. Sound(h)'
    BY <1>t, <1>3, <1>4 DEF Sound
  <1>6. \A g \in Handler : Sound(g)'
    BY <1>t, <1>3, <1>4, <1>5, SoundKept DEF SafeInv
  <1> QED
    BY <1>t, <1>2, <1>3, <1>6, WriteSafe DEF SafeInv, TypeOK, ReferencesStayHome

LEMMA PayScheduleSafe ==
  ASSUME SafeInv, NEW h \in Handler, PaySchedule(h)
  PROVE  SafeInv' /\ Grows
  <1>t. /\ TypeOK /\ Sound(h) /\ pc[h] = "paySchedule" /\ Finish(h)
        /\ UNCHANGED <<agencyOf, parentOf, refOf>>
    BY DEF SafeInv, PaySchedule
  <1> DEFINE s == req[h].parent
  <1>1. s \in Stored /\ KindOf[s] = "schedule"
    BY <1>t DEF Sound, SafeInv, ParentsFit, TopLevel, ParentKind
  <1>2. /\ status' \in [Row -> ScheduleStatus \cup PaymentStatus \cup {None}]
        /\ manual' \subseteq Stored
        /\ \A x \in Stored : status'[x] \in StatusOf(KindOf[x])
        /\ \A x \in Stored \ manual' : KindOf[x] = "payment" => status'[x] = "COMPLETED"
    BY <1>1, <1>t DEF PaySchedule, SafeInv, TypeOK, UntouchedAreCompleted, Stored,
                      StatusOf, ScheduleStatus
  <1>3. Grows
    BY <1>t DEF Grows, Stored
  <1>4. (\A g \in Handler : Sound(g)') /\ pc' \in [Handler -> PC] /\ req' \in [Handler -> Request]
    BY <1>t, <1>3, FinishSound, SoundKept DEF SafeInv
  <1> QED
    BY <1>t, <1>2, <1>4, WriteSafe DEF SafeInv, TypeOK, ReferencesStayHome

-----------------------------------------------------------------------------
LEMMA NextSafe == SafeInv /\ [Next]_vars => SafeInv' /\ Grows
  <1> SUFFICES ASSUME SafeInv, [Next]_vars PROVE SafeInv' /\ Grows
    OBVIOUS
  <1>1. CASE UNCHANGED vars
    <2>1. Stored' = Stored
      BY <1>1 DEF vars, tables, Stored
    <2>2. \A g \in Handler : Sound(g)'
      BY <1>1, <2>1 DEF SafeInv, Sound, vars, tables
    <2> QED
      BY <1>1, <2>1, <2>2 DEF SafeInv, TypeOK, ParentsFit, UntouchedAreCompleted,
                              ReferencesStayHome, Grows, vars, tables
  <1>2. ASSUME NEW h \in Handler, OneOf(h) PROVE SafeInv' /\ Grows
    BY <1>2, CreateTopSafe, FindParentSafe, FindRowSafe, FindReferenceSafe, InsertSafe,
       PatchSafe, RemoveSafe, PayPaymentSafe, PayScheduleSafe, AbortSafe
       DEF OneOf, Step
  <1> QED
    BY <1>1, <1>2, NextCases

LEMMA Safety == Spec => []SafeInv
  BY InitSafe, NextSafe, PTL DEF Spec

(* Every row, request and status has its type.                             *)
THEOREM TypeCorrect == Spec => []TypeOK
  BY Safety, PTL DEF SafeInv

(* For any number of agencies and of requests in flight, a row, what it    *)
(* hangs from and the tenant of its rent are of one agency.                *)
THEOREM RowsStayHome == Spec => []ReferencesStayHome
  BY Safety, PTL DEF SafeInv

-----------------------------------------------------------------------------
(* What a step does to the rows that are there, and who does it.           *)
Writes(h, r) ==
    \/ r = req[h].row
    \/ /\ r = req[h].parent /\ pc[h] = "paySchedule" /\ status'[r] = "PAID"

LEMMA Frame ==
  ASSUME SafeInv, NEW h \in Handler, OneOf(h)
  PROVE  /\ \A g \in Handler \ {h} : pc'[g] = pc[g]
         /\ \A r \in Stored : Contents(r)' # Contents(r) =>
               /\ pc'[h] # pc[h] /\ agencyOf'[r] = agencyOf[r]
               /\ parentOf'[r] = parentOf[r] /\ Writes(h, r)
               /\ pc[h] \in {"patch", "remove", "payPayment", "paySchedule"}
  <1> DEFINE P == /\ \A g \in Handler \ {h} : pc'[g] = pc[g]
                  /\ \A r \in Stored : Contents(r)' # Contents(r) =>
                        /\ pc'[h] # pc[h] /\ agencyOf'[r] = agencyOf[r]
                        /\ parentOf'[r] = parentOf[r] /\ Writes(h, r)
                        /\ pc[h] \in {"patch", "remove", "payPayment", "paySchedule"}
  <1>t. TypeOK /\ Sound(h)
    BY DEF SafeInv
  <1>1. ASSUME UNCHANGED tables, NEW label, Goto(h, label) PROVE P
    BY <1>1, <1>t DEF tables, Contents, Goto, TypeOK
  <1>2. ASSUME Finish(h) PROVE pc'[h] = "idle" /\ \A g \in Handler \ {h} : pc'[g] = pc[g]
    BY <1>2, <1>t DEF Finish, Goto, TypeOK
  <1>3. ASSUME NEW k \in TopLevel, CreateTop(h, k) PROVE P
    <2>1. PICK a \in Agency, r \in Row \ Stored : Put(r, a, None, None)
      BY <1>3 DEF CreateTop
    <2> QED
      BY <1>3, <1>t, <2>1, PutGrows DEF CreateTop, Contents, Grows
  <1>4. CASE Insert(h)
    <2>1. PICK r \in Row \ Stored : Put(r, req[h].agency, req[h].parent, req[h].ref)
      BY <1>4 DEF Insert
    <2>2. req[h].agency \in Agency
      BY <1>4, <1>t DEF Insert, Sound
    <2> QED
      BY <1>2, <1>4, <1>t, <2>1, <2>2, PutGrows DEF Insert, Contents, Grows
  <1>5. ASSUME NEW k \in Kind \ TopLevel, FindParent(h, k) PROVE P
    BY <1>1, <1>5 DEF FindParent
  <1>6. ASSUME NEW k \in Kind, NEW a \in {"write", "delete"},
               NEW labels \in SUBSET Labels(k), FindRow(h, k, a, labels) PROVE P
    BY <1>1, <1>6 DEF FindRow
  <1>7. CASE FindReference(h)
    BY <1>1, <1>7 DEF FindReference
  <1>8. CASE Abort(h)
    BY <1>1, <1>8 DEF Abort, Finish
  <1>9. CASE Patch(h)
    BY <1>2, <1>9, <1>t DEF Patch, Contents, Writes, TypeOK, Stored
  <1>10. CASE Remove(h)
    BY <1>2, <1>10, <1>t DEF Remove, Contents, Writes, TypeOK, Stored
  <1>11. CASE PayPayment(h)
    BY <1>11, <1>t DEF PayPayment, Goto, Contents, Writes, TypeOK, Stored
  <1>12. CASE PaySchedule(h)
    BY <1>2, <1>12, <1>t DEF PaySchedule, Contents, Writes, TypeOK, Stored
  <1> QED
    BY <1>3, <1>4, <1>5, <1>6, <1>7, <1>8, <1>9, <1>10, <1>11, <1>12 DEF OneOf, Step

(* No request changes a row of another agency, though it writes by id.     *)
THEOREM WritesAreHome == Spec => WritesStayHome
  <1> DEFINE A == \A r \in Stored : Contents(r)' # Contents(r) =>
                    /\ agencyOf'[r] = agencyOf[r] /\ parentOf'[r] = parentOf[r]
                    /\ \E h \in Handler : /\ pc'[h] # pc[h]
                                          /\ req[h].agency = agencyOf[r]
  <1>1. SafeInv /\ [Next]_vars => [A]_vars
    <2> SUFFICES ASSUME SafeInv, Next PROVE A
      OBVIOUS
    <2>1. PICK h \in Handler : OneOf(h)
      BY NextCases
    <2>2. ASSUME NEW r \in Stored, Writes(h, r),
                 pc[h] \in {"patch", "remove", "payPayment", "paySchedule"}
          PROVE  req[h].agency = agencyOf[r]
      <3>1. req[h].row \in Stored /\ agencyOf[req[h].row] = req[h].agency
            /\ req[h].parent = parentOf[req[h].row]
        BY <2>2 DEF SafeInv, Sound
      <3>2. CASE r = req[h].row
        BY <3>1, <3>2
      <3>3. CASE r = req[h].parent /\ pc[h] = "paySchedule"
        BY <3>1, <3>3 DEF SafeInv, Sound, ReferencesStayHome, TopLevel
      <3> QED
        BY <2>2, <3>2, <3>3 DEF Writes
    <2> QED
      BY <2>1, <2>2, Frame
  <1> QED
    BY <1>1, Safety, PTL DEF Spec, WritesStayHome

(* Staff changes of existing rows keep to their kinds, except that paying  *)
(* a payment marks its schedule PAID.                                      *)
THEOREM StaffStayInRole == Spec => StaffKeepToTheirRows
  <1> DEFINE A == \A h \in Handler, r \in Stored :
                    /\ pc'[h] # pc[h]
                    /\ req[h].role = "AGENCY_STAFF"
                    /\ Contents(r)' # Contents(r)
                    => \/ KindOf[r] \in {"owner", "property", "tenant", "payment"}
                       \/ /\ KindOf[r] = "schedule" /\ status'[r] = "PAID"
                          /\ KindOf[req[h].row] = "payment" /\ parentOf[req[h].row] = r
  <1>1. SafeInv /\ [Next]_vars => [A]_vars
    <2> SUFFICES ASSUME SafeInv, Next, NEW h \in Handler, NEW r \in Stored,
                        pc'[h] # pc[h], req[h].role = "AGENCY_STAFF",
                        Contents(r)' # Contents(r)
                 PROVE  \/ KindOf[r] \in {"owner", "property", "tenant", "payment"}
                        \/ /\ KindOf[r] = "schedule" /\ status'[r] = "PAID"
                           /\ KindOf[req[h].row] = "payment" /\ parentOf[req[h].row] = r
      OBVIOUS
    <2>1. OneOf(h)
      BY NextCases, Frame
    <2>2. Writes(h, r) /\ pc[h] \in {"patch", "remove", "payPayment", "paySchedule"}
      BY <2>1, Frame
    <2>3. /\ req[h].row \in Stored /\ req[h].parent = parentOf[req[h].row]
          /\ KindOf[req[h].row] \in StaffKind
      BY <2>2 DEF SafeInv, Sound
    <2>4. CASE r = req[h].row
      BY <2>3, <2>4 DEF StaffKind
    <2>5. CASE r = req[h].parent /\ pc[h] = "paySchedule" /\ status'[r] = "PAID"
      <3>1. KindOf[req[h].row] = "payment"
        BY <2>5 DEF SafeInv, Sound
      <3>2. KindOf[r] = "schedule"
        BY <2>3, <2>5, <3>1 DEF SafeInv, ParentsFit, TopLevel, ParentKind
      <3> QED
        BY <2>3, <2>5, <3>1, <3>2
    <2> QED
      BY <2>2, <2>4, <2>5 DEF Writes
  <1> QED
    BY <1>1, Safety, PTL DEF Spec, StaffKeepToTheirRows

-----------------------------------------------------------------------------
LEMMA NextBacked ==
  ASSUME SafeInv, SafeInv', Grows, PaidIsBacked, [Next]_vars
  PROVE  PaidIsBacked'
  <1> SUFFICES ASSUME NEW s \in Stored', s \notin manual', KindOf[s] = "schedule",
                      status'[s] = "PAID"
               PROVE  \E p \in Stored' : /\ KindOf[p] = "payment" /\ parentOf'[p] = s
                                         /\ agencyOf'[p] = agencyOf'[s]
                                         /\ p \in manual' \/ status'[p] = "COMPLETED"
    BY DEF PaidIsBacked
  (* Any payment will do: it is COMPLETED or was changed by hand.          *)
  <1>1. ASSUME NEW p \in Stored, KindOf[p] = "payment", parentOf[p] = s
        PROVE  \E q \in Stored' : /\ KindOf[q] = "payment" /\ parentOf'[q] = s
                                  /\ agencyOf'[q] = agencyOf'[s]
                                  /\ q \in manual' \/ status'[q] = "COMPLETED"
    <2>1. p \in Stored' /\ parentOf'[p] = s
      BY <1>1 DEF Grows
    <2>2. agencyOf'[p] = agencyOf'[s]
      BY <1>1, <2>1 DEF SafeInv, ReferencesStayHome, TopLevel
    <2>3. p \in manual' \/ status'[p] = "COMPLETED"
      BY <1>1, <2>1 DEF SafeInv, UntouchedAreCompleted
    <2> QED
      BY <1>1, <2>1, <2>2, <2>3
  <1>2. CASE s \in Stored \ manual /\ status[s] = "PAID"
    BY <1>1, <1>2 DEF PaidIsBacked
  <1>3. CASE UNCHANGED vars
    BY <1>2, <1>3 DEF vars, tables, Stored
  <1>4. ASSUME NEW h \in Handler, PaySchedule(h), s = req[h].parent
        PROVE  \E p \in Stored : KindOf[p] = "payment" /\ parentOf[p] = s
    <2>1. /\ req[h].row \in Stored /\ req[h].parent = parentOf[req[h].row]
          /\ KindOf[req[h].row] = "payment"
      BY <1>4 DEF PaySchedule, SafeInv, Sound
    <2> QED
      BY <1>4, <2>1
  <1>5. ASSUME NEW h \in Handler, OneOf(h), ~PaySchedule(h)
        PROVE  s \in Stored \ manual /\ status[s] = "PAID"
    <2>t. TypeOK
      BY DEF SafeInv
    <2>1. CASE UNCHANGED <<tables, manual>>
      BY <2>1 DEF tables, Stored
    <2>2. ASSUME NEW k \in TopLevel, CreateTop(h, k) PROVE s \in Stored \ manual /\ status[s] = "PAID"
      <3>1. PICK a \in Agency, r \in Row \ Stored : Put(r, a, None, None)
        BY <2>2 DEF CreateTop
      <3> QED
        BY <2>2, <2>t, <3>1, PutGrows DEF CreateTop, DefaultOf
    <2>3. CASE Insert(h)
      <3>1. PICK r \in Row \ Stored : Put(r, req[h].agency, req[h].parent, req[h].ref)
        BY <2>3 DEF Insert
      <3>2. req[h].agency \in Agency
        BY <2>3 DEF Insert, SafeInv, Sound
      <3> QED
        BY <2>3, <2>t, <3>1, <3>2, PutGrows DEF Insert, DefaultOf
    <2>4. CASE Patch(h)
      BY <2>4, <2>t DEF Patch, TypeOK, Stored
    <2>5. CASE Remove(h)
      BY <2>5, <2>t DEF Remove, TypeOK, Stored
    <2>6. CASE PayPayment(h)
      BY <2>6, <2>t DEF PayPayment, TypeOK, Stored
    <2> QED
      BY <1>5, <2>1, <2>2, <2>3, <2>4, <2>5, <2>6
         DEF OneOf, Step, FindParent, FindRow, FindReference, Abort
  <1>6. ASSUME NEW h \in Handler, PaySchedule(h), s # req[h].parent
        PROVE  s \in Stored \ manual /\ status[s] = "PAID"
    BY <1>6 DEF PaySchedule, SafeInv, TypeOK, Stored
  <1> QED
    BY <1>1, <1>2, <1>3, <1>4, <1>5, <1>6, NextCases

(* A schedule that markAsPaid was the last to set has a payment behind it. *)
THEOREM PaidSchedulesAreBacked == Spec => []PaidIsBacked
  <1>1. Init => PaidIsBacked
    BY DEF Init, PaidIsBacked, Stored
  <1>2. SafeInv /\ PaidIsBacked /\ [Next]_vars => PaidIsBacked'
    BY NextSafe, NextBacked
  <1> QED
    BY <1>1, <1>2, Safety, PTL DEF Spec
=============================================================================
