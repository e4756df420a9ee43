--------------------------- MODULE LeaseLifecycle ---------------------------
(***************************************************************************)
(* What the lease endpoints promise together, with no requests in it.      *)
(* Every move along the workflow starts from a status the lease has had,   *)
(* not always the one it has now; archiving and an administrator's PATCH   *)
(* are outside the workflow; a role reviews a lease at most once, and only *)
(* a lease that has been ended at some time.                               *)
(***************************************************************************)
CONSTANTS Lease, None, Workflow, Ended, Role,
          PatchStatus  \* the statuses a PATCH may write

VARIABLES status, visited, reviewed
lifecycle == <<status, visited, reviewed>>

Init == /\ status = [l \in Lease |-> None]
        /\ visited = [l \in Lease |-> {}]
        /\ reviewed = [l \in Lease |-> {}]

Become(l, to) ==
    /\ status' = [status EXCEPT ![l] = to]
    /\ visited' = [visited EXCEPT ![l] = @ \cup {to}]
    /\ UNCHANGED reviewed

Sign(l) == status[l] = None /\ Become(l, "ACTIVE")

Move(l) == \E from \in visited[l], to \in {move[2] : move \in Workflow} :
              <<from, to>> \in Workflow /\ Become(l, to)

Archive(l) == visited[l] # {} /\ Become(l, "ARCHIVED")

Override(l) == visited[l] # {} /\ \E to \in PatchStatus : Become(l, to)

Review(l, role) ==
    /\ visited[l] \cap Ended # {}
    /\ role \notin reviewed[l]
    /\ reviewed' = [reviewed EXCEPT ![l] = @ \cup {role}]
    /\ UNCHANGED <<status, visited>>

Next == \E l \in Lease : \/ Sign(l) \/ Move(l) \/ Archive(l) \/ Override(l)
                         \/ \E role \in Role : Review(l, role)

Spec == Init /\ [][Next]_lifecycle
=============================================================================
