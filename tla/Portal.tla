-------------------------------- MODULE Portal --------------------------------
(***************************************************************************)
(* What tenants, agencies and the public share: messages and public        *)
(* profiles, served by one process over one database.                      *)
(***************************************************************************)
EXTENDS Messaging, PublicProfile

vars == <<now, messagingVars, profileVars>>

Init == now = 0 /\ MessagingInit /\ ProfileInit

Next == \/ MessagingNext /\ UNCHANGED <<now, profileVars>>
        \/ ProfileNext /\ UNCHANGED <<now, messagingVars>>
        \/ Tick /\ UNCHANGED <<messagingVars, profileVars>>

Spec == Init /\ [][Next]_vars

TypeOK == now \in Nat /\ MessagingTypeOK /\ ProfileTypeOK
=============================================================================
