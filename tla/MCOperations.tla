---------------------------- MODULE MCOperations -----------------------------
(***************************************************************************)
(* Operations for TLC.  The pipeline and the reports share the clock and   *)
(* the restart only, so it is enough to explore each with the other at     *)
(* rest (OneAtATime).  Of the requests at most two are in flight at once,  *)
(* and all but one are of one user and one correlation id, that one being  *)
(* of the administrator or of another id, not both (Few).                  *)
(***************************************************************************)
EXTENDS Operations, TLC

CONSTANTS user, admin, shared, own

MCLimit == [t \in Route |-> 2]

OneAtATime == \/ report = NoReport /\ ~apiKey
              \/ \A r \in Request : req[r] = None

Few == LET come == {r \in Request : req[r] # None}
       IN  /\ Cardinality({r \in come : Running(r)}) <= 2
           /\ Cardinality({r \in come : req[r].client = admin \/ req[r].id = own}) <= 1
           /\ \A r \in come : ~(req[r].client = admin /\ req[r].id = own)

Bounds == OneAtATime /\ Few

Symmetric == Permutations(Request) \cup Permutations(Incident)
=============================================================================
