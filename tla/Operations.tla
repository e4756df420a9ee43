------------------------------ MODULE Operations ------------------------------
(***************************************************************************)
(* What one process of the API keeps in memory, besides the database: the  *)
(* counters and windows around its requests and the incident reports.  A   *)
(* restart loses all of it at once.                                        *)
(***************************************************************************)
EXTENDS RequestPipeline, Incidents

vars == <<now, pipelineVars, incidentVars>>

Init == now = 0 /\ PipelineInit /\ IncidentsInit

Restart == RestartPipeline /\ RestartIncidents

Next == \/ PipelineNext /\ UNCHANGED <<now, incidentVars>>
        \/ IncidentsNext /\ UNCHANGED <<now, pipelineVars>>
        \/ Restart /\ UNCHANGED now
        \/ Tick /\ UNCHANGED <<pipelineVars, incidentVars>>

Spec == Init /\ [][Next]_vars

TypeOK == now \in Nat /\ PipelineTypeOK /\ IncidentsTypeOK
=============================================================================
