------------------------------- MODULE RunRows -------------------------------
(***************************************************************************)
(* The `runs` row and the guarded UPDATEs that move its status.            *)
(*                                                                         *)
(* Every writer of runs.status in the backend and in the worker goes       *)
(* through one SQL statement of the form UPDATE ... SET status = t WHERE   *)
(* id = r AND status IN (...).  Each operator below is one of them: it     *)
(* maps the status the row has when the statement runs to the status it    *)
(* has afterwards, and leaves the status alone when the WHERE clause does  *)
(* not match (0 rows updated).  The modules of this project that keep run  *)
(* rows take their row writes from here.                                   *)
(*                                                                         *)
(* An operator named like another with a suffix (MarkRunningAnyActive,     *)
(* GuardedFinalizeBlind, ...) is a plausible mistake in the one it stands  *)
(* before; the README lists which property catches it.                     *)
(***************************************************************************)
EXTENDS Naturals

Active   == {"queued", "running", "awaiting_human"}
Terminal == {"succeeded", "failed", "cancelled", "timed_out", "superseded"}
Status   == Active \cup Terminal

\* Terminal statuses an outbox report may still replace (outcome IS NULL).
RescuableTerminal == {"failed", "timed_out"}

ReportOutcome == {"success", "routed", "failure", "needs_human", "team"}
ExitStatus    == {"completed", "crashed", "timeout", "rate_limited", "cancelled"}

-----------------------------------------------------------------------------
(* The run state machine of RunsService.                                   *)

ReportTerminalStatus(o) ==
  IF o \in {"success", "routed"} THEN "succeeded"
  ELSE IF o = "failure" THEN "failed" ELSE "awaiting_human"

\* One guarded UPDATE: flips a row in `from` to t, otherwise affects 0 rows.
Flip(s, from, t) == IF s \in from THEN t ELSE s

MarkRunningAnyActive(s) == Flip(s, Active, "running")
MarkRunning(s)        == Flip(s, {"queued", "running"}, "running")
Startable(s)          == s \in {"queued", "running"}
MarkQueuedForRetry(s) == Flip(s, {"running"}, "queued")

GuardedFinalizeBlind(s, t) == t
GuardedFinalize(s, t)      == Flip(s, Active, t)
FinalizeWithReport(s, o)   == GuardedFinalize(s, ReportTerminalStatus(o))
FinalizeStatus(s, t)       == GuardedFinalize(s, t)

\* A process exit may only finalize a row that is still `running`.
FailIfStillRunningUnguarded(s)         == GuardedFinalize(s, "failed")
FailIfStillRunning(s)                  == Flip(s, {"running"}, "failed")
ParkIfStillRunning(s)                  == Flip(s, {"running"}, "awaiting_human")
FinalizeStatusIfRunning(s, t)          == Flip(s, {"running"}, t)

\* The widened guard of the outbox rescue; o is the row's outcome column.
ReconcileGuard(s, o) ==
  \/ s \in Active
  \/ s \in RescuableTerminal /\ o = "none"

ReconcileWithReport(s, o, reported) ==
  IF ReconcileGuard(s, o) THEN ReportTerminalStatus(reported) ELSE s

-----------------------------------------------------------------------------
(* Row writes of the other services.                                       *)

ParkRun(s)        == ParkIfStillRunning(s)
CancelRun(s)      == Flip(s, {"running"}, "cancelled")
CancelAllRun(s)   == Flip(s, {"queued", "running"}, "cancelled")
SupersedeRun(s)   == Flip(s, {"awaiting_human"}, "superseded")

\* Run states a callback of the agent may target.
CallbackAcceptable == {"running", "awaiting_human"}

-----------------------------------------------------------------------------
(* What the worker does with a process that did not complete.              *)

MapExitAction(exit, attemptsMade, maxAttempts) ==
  [completed    |-> "failed",
   crashed      |-> IF attemptsMade + 1 < maxAttempts THEN "retry" ELSE "failed",
   timeout      |-> "timed_out",
   cancelled    |-> "cancelled",
   rate_limited |-> "rate_limit"][exit]

=============================================================================
