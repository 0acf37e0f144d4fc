----------------------------- MODULE RunContract -----------------------------
(***************************************************************************)
(* What a run promises to everyone who reads its row: the tickets' pages,  *)
(* the pipeline that writes to Jira, the next run of the ticket.           *)
(*                                                                         *)
(* The contract knows neither workers nor callbacks nor outbox files, only *)
(* the status column and the outcome column.  It is the state machine that *)
(* the header of RunsService describes, with the two widenings the code    *)
(* makes on purpose: a report may replace a failure that no report caused  *)
(* (the outbox rescue), and it may finish a parked run.                    *)
(***************************************************************************)
EXTENDS RunRows

VARIABLES
  status,    \* runs.status
  outcome    \* runs.outcome, "none" for NULL

vars == <<status, outcome>>

Init == status = "queued" /\ outcome = "none"

\* Where a report of outcome o takes the run.
Settles(o) ==
  IF o = "team" THEN {"succeeded", "awaiting_human"}
                ELSE {ReportTerminalStatus(o)}

Begin   == status = "queued"  /\ status' = "running"        /\ UNCHANGED outcome
Requeue == status = "running" /\ status' = "queued"         /\ UNCHANGED outcome
Park    == status = "running" /\ status' = "awaiting_human" /\ UNCHANGED outcome

\* A report decides the run: while it is active, or once after a bare failure.
Record ==
  /\ ReconcileGuard(status, outcome)
  /\ outcome' \in ReportOutcome
  /\ status' \in Settles(outcome')

\* The process, the watchdog or an operator ends the run without a report.
Stop ==
  /\ status \in Active
  /\ status' \in {"failed", "timed_out"}
  /\ UNCHANGED outcome

Cancel ==
  /\ status \in {"queued", "running"}
  /\ status' = "cancelled"
  /\ UNCHANGED outcome

Supersede ==
  /\ status = "awaiting_human"
  /\ status' = "superseded"
  /\ UNCHANGED outcome

Next == Begin \/ Requeue \/ Park \/ Record \/ Stop \/ Cancel \/ Supersede

Spec == Init /\ [][Next]_vars

-----------------------------------------------------------------------------
(* Properties of the contract.                                             *)

\* The columns hold a status and a report outcome (or NULL).
TypeOK == status \in Status /\ outcome \in ReportOutcome \cup {"none"}

\* A run is `succeeded` exactly when a successful report decided it (a team
\* report may also leave it parked), and a failure report always means `failed`:
\* no guarded UPDATE pairs a verdict with somebody else's status.
StatusMatchesOutcome ==
  /\ status = "succeeded" => outcome \in {"success", "routed", "team"}
  /\ outcome \in {"success", "routed"} => status = "succeeded"
  /\ outcome = "failure" => status = "failed"

\* Terminal immutability, as the code keeps it: succeeded, cancelled and
\* superseded rows never change; a failed or timed_out row changes once at most,
\* when it has no outcome and a rescued report gives it one.
TerminalFinal ==
  [][/\ status \in Terminal \ RescuableTerminal => UNCHANGED vars
     /\ status \in RescuableTerminal => outcome = "none" /\ outcome' # "none"]_vars

=============================================================================
