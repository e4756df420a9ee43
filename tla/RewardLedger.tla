---------------------------- MODULE RewardLedger ----------------------------
(***************************************************************************)
(* What the score engine promises about badges and reward claims, with no  *)
(* requests, reads or snapshots in it.  credit[c][m] is what the events    *)
(* recorded for month m of cycle c are worth, capped at the monthly        *)
(* maximum.  A badge row may be added only when the credit of one of the   *)
(* tenant's cycles justifies it, a claim only for a cycle whose year is    *)
(* earned and whose tenant has the PLATINUM badge, and a cycle closes only *)
(* with a claim behind it.                                                 *)
(***************************************************************************)
EXTENDS Naturals

CONSTANTS
    Cycle, Tenant, TenantOf, Month, Badge,
    Justified(_, _)  \* does a year of such monthly credits justify a badge?

VARIABLES credit, badges, claims, status
ledger == <<credit, badges, claims, status>>

Init == /\ credit = [c \in Cycle |-> [m \in Month |-> 0]]
        /\ badges = [t \in Tenant |-> [b \in Badge |-> 0]]
        /\ claims = [c \in Cycle |-> 0]
        /\ status = [c \in Cycle |-> "ACTIVE"]

Record(c, m) ==
    /\ credit'[c][m] > credit[c][m]
    /\ credit' = [credit EXCEPT ![c][m] = credit'[c][m]]
    /\ UNCHANGED <<badges, claims, status>>

Award(c, badge) ==
    /\ Justified(credit[c], badge)
    /\ badges' = [badges EXCEPT ![TenantOf[c]][badge] = @ + 1]
    /\ UNCHANGED <<credit, claims, status>>

IssueClaim(c) ==
    /\ Justified(credit[c], "PLATINUM")
    /\ badges[TenantOf[c]]["PLATINUM"] > 0
    /\ claims' = [claims EXCEPT ![c] = @ + 1]
    /\ UNCHANGED <<credit, badges, status>>

Close(c) ==
    /\ claims[c] > 0
    /\ status' = [status EXCEPT ![c] = "COMPLETED"]
    /\ UNCHANGED <<credit, badges, claims>>

Next == \E c \in Cycle :
            \/ \E m \in Month : Record(c, m)
            \/ \E badge \in Badge : Award(c, badge)
            \/ IssueClaim(c)
            \/ Close(c)

Spec == Init /\ [][Next]_ledger
=============================================================================
