------------------------------ MODULE Incidents ------------------------------
(***************************************************************************)
(* IncidentAnalyzer (common/incident/incident.analyzer.ts): reports kept   *)
(* in the process, each analysed by a service it awaits when it is opened, *)
(* and closed by a request that may come meanwhile.                        *)
(***************************************************************************)
EXTENDS Naturals, Clock

CONSTANTS
    Incident,  \* reports there may ever be (bounds the run)
    Unset      \* a field that is not set; no report

VARIABLES
    apiKey,     \* is GEMINI_API_KEY set?
    report,     \* openReports
    analysing,  \* the reports whose analysis is awaited
    overtaken   \* history: the reports closed meanwhile

incidentVars == <<apiKey, report, analysing, overtaken>>

\* DEPLOYED is declared in the code and never assigned.
Status == {"ANALYZING", "OPEN", "PATCH_READY", "CLOSED"}
Report == [status : Status, openedAt : Nat, closedAt : Nat \cup {Unset},
           mttr : Nat \cup {Unset}]

ASSUME UnsetAssumption == Unset \notin Nat \cup Report

NoReport == [i \in Incident |-> Unset]

IncidentsInit ==
    /\ apiKey \in BOOLEAN
    /\ report = NoReport
    /\ analysing = {}
    /\ overtaken = {}

-----------------------------------------------------------------------------
OpenAnalysing(i) ==  \* mutant: leaves the status when it has no key
    /\ report[i] = Unset
    /\ report' = [report EXCEPT ![i] =
          [status |-> "ANALYZING", openedAt |-> now, closedAt |-> Unset, mttr |-> Unset]]
    /\ analysing' = IF apiKey THEN analysing \cup {i} ELSE analysing
    /\ UNCHANGED <<apiKey, overtaken>>

(* analyze, up to the call of the service, which needs a key.              *)
OpenIncident(i) ==
    /\ report[i] = Unset
    /\ report' = [report EXCEPT ![i] =
          [status |-> IF apiKey THEN "ANALYZING" ELSE "OPEN", openedAt |-> now,
           closedAt |-> Unset, mttr |-> Unset]]
    /\ analysing' = IF apiKey THEN analysing \cup {i} ELSE analysing
    /\ UNCHANGED <<apiKey, overtaken>>

(* The service answers, or the call fails; whatever the status is by then. *)
FinishAnalysis(i) ==
    /\ i \in analysing
    /\ \E status \in {"PATCH_READY", "OPEN"} : report' = [report EXCEPT ![i].status = status]
    /\ analysing' = analysing \ {i}
    /\ UNCHANGED <<apiKey, overtaken>>

CloseBackwards(i) ==  \* mutant: subtracts the wrong way round
    /\ report[i] # Unset
    /\ report' = [report EXCEPT ![i].status = "CLOSED",
                                ![i].closedAt = now,
                                ![i].mttr = report[i].openedAt - now]
    /\ overtaken' = IF i \in analysing THEN overtaken \cup {i} ELSE overtaken
    /\ UNCHANGED <<apiKey, analysing>>

(* close, at any time and any number of times.                             *)
CloseIncident(i) ==
    /\ report[i] # Unset
    /\ report' = [report EXCEPT ![i].status = "CLOSED",
                                ![i].closedAt = now,
                                ![i].mttr = now - report[i].openedAt]
    /\ overtaken' = IF i \in analysing THEN overtaken \cup {i} ELSE overtaken
    /\ UNCHANGED <<apiKey, analysing>>

RestartIncidents ==
    /\ apiKey' \in BOOLEAN
    /\ report' = NoReport
    /\ analysing' = {}
    /\ overtaken' = {}

IncidentsNext ==
    \E i \in Incident : OpenIncident(i) \/ FinishAnalysis(i) \/ CloseIncident(i)

-----------------------------------------------------------------------------
(* Properties                                                              *)

IncidentsTypeOK ==
    /\ apiKey \in BOOLEAN
    /\ report \in [Incident -> Report \cup {Unset}]
    /\ analysing \subseteq Incident
    /\ overtaken \subseteq Incident

(* A report is in analysis only while the service is awaited; one that has *)
(* been closed is open again only if it was closed during that wait, and   *)
(* then it keeps its closing time, which is the one its repair time was    *)
(* taken from (incident.analyzer.ts:17-23, 59-64, 72-81).                  *)
ReportsAccounted ==
    \A i \in Incident : report[i] # Unset =>
        LET r == report[i]
        IN  /\ r.status = "ANALYZING" => i \in analysing
            /\ r.status = "CLOSED" => r.closedAt # Unset
            /\ r.closedAt # Unset =>
                  /\ r.openedAt + r.mttr = r.closedAt
                  /\ r.status # "CLOSED" => i \in overtaken \ analysing
=============================================================================
