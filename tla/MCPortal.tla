------------------------------ MODULE MCPortal -------------------------------
(***************************************************************************)
(* Portal for TLC.  Messages and profiles share no table, so it is enough  *)
(* to explore each with the other at rest (OneAtATime).                    *)
(***************************************************************************)
EXTENDS Portal, TLC

CONSTANTS a1, a2, l1, l2

MCHome == [x \in Tenant \cup Lease |-> IF x = l2 THEN a2 ELSE a1]
MCResidence == [x \in Subject |-> a1]

OneAtATime ==
    \/ thread = [t \in Thread |-> None] /\ pc = [h \in Handler |-> "idle"] /\ now = 0
    \/ profile = [t \in Subject |-> None] /\ stage = [c \in Client |-> "idle"]

Symmetric == Permutations(Handler) \cup Permutations(Message) \cup Permutations(Client)
                \cup Permutations(Tenant)
=============================================================================
