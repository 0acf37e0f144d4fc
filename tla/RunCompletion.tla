---------------------------- MODULE RunCompletion ----------------------------
(***************************************************************************)
(* How one callback-wired run (claude_cli, kimi, deepseek) is completed.   *)
(*                                                                         *)
(* Six actors write the run's row and the durable outbox file of its       *)
(* report, with no lock between them:                                      *)
(*   - the agent process and its MCP tool server (complete_task writes     *)
(*     the outbox, POSTs with retries, removes the outbox on a 2xx);       *)
(*   - the backend's callback handlers (guard, completion gate, finalize,  *)
(*     human task, park);                                                  *)
(*   - the worker's processor (pick up, execute, handle the exit);         *)
(*   - the periodic outbox reconciler;                                     *)
(*   - the watchdog;                                                       *)
(*   - people (cancel, cancel-all, resolving the human task).              *)
(*                                                                         *)
(* The rest of the ticket is one bit, slotTaken: another run of the ticket *)
(* is active.  The partial unique index runs_one_active keeps it and this  *)
(* run from being active together.                                         *)
(***************************************************************************)
EXTENDS RunRows

CONSTANTS
  Outcomes,      \* report outcomes the agent may choose from
  Handoffs,      \* whether a report names the branches the run moved
  MaxAttempts    \* agent.max_attempts

ASSUME OutcomesAssumption    == Outcomes \subseteq ReportOutcome \cup {"malformed"}
ASSUME HandoffsAssumption    == Handoffs \subseteq {"named", "unnamed"}
ASSUME MaxAttemptsAssumption == MaxAttempts \in Nat \ {0}

VARIABLES
  status,        \* runs.status
  verdict,       \* runs.report and runs.outcome
  started,       \* runs.started_at is set
  taskOpen,      \* an open blocking human_tasks row of the run exists
  attached,      \* number of undelivered_report events of the run
  slotTaken,     \* another run of the ticket is active
  outbox,        \* the report in <runId>.json, NoReport when there is no file
  job,           \* the BullMQ job
  attemptsMade,  \* job.attemptsMade
  worker,        \* the processor: where it is, the exit it handles, its report
  agent,         \* the agent process: what it does, the report it is posting
  request,       \* the callback the backend is handling
  stale,         \* the status the watchdog's pass is about to write
  sweep          \* the outbox reconciler: where it is and what it has read

vars == <<status, verdict, started, taskOpen, attached, slotTaken, outbox, job,
          attemptsMade, worker, agent, request, stale, sweep>>

rowVars == <<status, verdict, started>>
jobVars == <<job, attemptsMade>>

(***************************************************************************)
(* Reports.  "malformed" stands for arguments that fail ReportSchema; a    *)
(* report is "unnamed" when a worktree HEAD moved and the report names no  *)
(* branch for that repository.                                             *)
(***************************************************************************)
NoReport  == [outcome |-> "none", handoff |-> "named"]
Malformed == [outcome |-> "malformed", handoff |-> "named"]
Report    == [outcome : ReportOutcome, handoff : {"named", "unnamed"}]
Filed     == [outcome : Outcomes \ {"malformed"}, handoff : Handoffs] \cup
             {r \in {Malformed} : r.outcome \in Outcomes}
Valid(r)  == r.outcome \in ReportOutcome

IdleWorker == [at |-> "idle", exit |-> "none", report |-> NoReport]
WorkerAt(p, e, r) == [at |-> p, exit |-> e, report |-> r]
IdleAgent == [at |-> "off", report |-> NoReport]
NoRequest == [at |-> "none", report |-> NoReport]
IdleSweep == [at |-> "idle", status |-> "queued", outcome |-> "none",
              report |-> NoReport]

TypeOK ==
  /\ status \in Status
  /\ verdict \in Report \cup {NoReport}
  /\ started \in BOOLEAN
  /\ taskOpen \in BOOLEAN
  /\ attached \in Nat
  /\ slotTaken \in BOOLEAN
  /\ outbox \in Report \cup {NoReport, Malformed}
  /\ job \in {"waiting", "active", "done"}
  /\ attemptsMade \in 0..MaxAttempts
  /\ worker \in [at : {"idle", "picked", "executing", "exited", "flipped",
                       "consuming", "parking", "failing", "attaching",
                       "requeued"},
                 exit : ExitStatus \cup {"none"},
                 report : Report \cup {NoReport}]
  /\ agent \in [at : {"off", "spawning", "working", "posting", "asking", "waiting"},
                report : Report \cup {NoReport, Malformed}]
  /\ request \in [at : {"none", "complete", "effects", "done", "human", "park"},
                  report : Report \cup {NoReport, Malformed}]
  /\ stale \in {"none", "timed_out", "failed"}
  /\ sweep \in [at : {"idle", "read", "flipped", "attach", "consuming"},
                status : Status, outcome : ReportOutcome \cup {"none"},
                report : Report \cup {NoReport, Malformed}]

\* RunTriggerService has inserted the row and added its job.
Init ==
  /\ status = "queued" /\ verdict = NoReport /\ started = FALSE
  /\ taskOpen = FALSE /\ attached = 0 /\ slotTaken = FALSE
  /\ outbox = NoReport
  /\ job = "waiting" /\ attemptsMade = 0
  /\ worker = IdleWorker /\ agent = IdleAgent /\ request = NoRequest
  /\ stale = "none" /\ sweep = IdleSweep

-----------------------------------------------------------------------------
(***************************************************************************)
(* The worker picks the job up.  ClaudeCliRunProcessor.process up to the   *)
(* executor call.                                                          *)
(***************************************************************************)
PickUp ==
  /\ job = "waiting" /\ worker.at = "idle"
  /\ job' = "active"
  /\ worker' = WorkerAt("picked", "none", NoReport)
  /\ UNCHANGED <<rowVars, taskOpen, attached, slotTaken, outbox, attemptsMade,
                 agent, request, stale, sweep>>

\* The job ends and the processor is free again.
EndJob == job' = "done" /\ worker' = IdleWorker

\* The job goes back to the queue without consuming an attempt.
ReturnJob == job' = "waiting" /\ worker' = IdleWorker

\* The tool-server artifact is missing or stale: fail before anything starts.
RejectStaleArtifact ==
  /\ worker.at = "picked"
  /\ status' = FinalizeStatus(status, "failed")
  /\ EndJob
  /\ UNCHANGED <<verdict, started, taskOpen, attached, slotTaken, outbox,
                 attemptsMade, agent, request, stale, sweep>>

\* The callback endpoint is dead, or the executor profile is saturated.
Hold ==
  /\ worker.at = "picked"
  /\ ReturnJob
  /\ UNCHANGED <<rowVars, taskOpen, attached, slotTaken, outbox, attemptsMade,
                 agent, request, stale, sweep>>

\* markRunning, and the job is dropped when the row is parked or finalized.
Start ==
  /\ worker.at = "picked"
  /\ status' = MarkRunning(status)
  /\ IF Startable(status)
       THEN /\ started' = TRUE
            /\ worker' = WorkerAt("executing", "none", NoReport)
            /\ agent' = [at |-> "spawning", report |-> NoReport]
            /\ UNCHANGED job
       ELSE /\ EndJob
            /\ UNCHANGED <<started, agent>>
  /\ UNCHANGED <<verdict, taskOpen, attached, slotTaken, outbox, attemptsMade,
                 request, stale, sweep>>

\* The repository scope is undeterminable: a blocking task and a guarded park.
ParkForScope ==
  /\ worker.at = "executing" /\ agent.at = "spawning"
  /\ taskOpen' = TRUE
  /\ status' = ParkRun(status)
  /\ agent' = IdleAgent
  /\ EndJob
  /\ UNCHANGED <<verdict, started, attached, slotTaken, outbox, attemptsMade,
                 request, stale, sweep>>

Spawn ==
  /\ worker.at = "executing" /\ agent.at = "spawning"
  /\ agent' = [agent EXCEPT !.at = "working"]
  /\ UNCHANGED <<rowVars, taskOpen, attached, slotTaken, outbox, jobVars, worker,
                 request, stale, sweep>>

-----------------------------------------------------------------------------
(***************************************************************************)
(* The agent and its tool server.                                          *)
(***************************************************************************)

\* complete_task: file the report (best effort), then POST it.
CallComplete ==
  /\ agent.at = "working"
  /\ \E r \in Filed :
       /\ agent' = [at |-> "posting", report |-> r]
       /\ outbox' \in {r, outbox}
  /\ UNCHANGED <<rowVars, taskOpen, attached, slotTaken, jobVars, worker,
                 request, stale, sweep>>

AskHuman ==
  /\ agent.at = "working"
  /\ agent' = [agent EXCEPT !.at = "asking"]
  /\ UNCHANGED <<rowVars, taskOpen, attached, slotTaken, outbox, jobVars, worker,
                 request, stale, sweep>>

\* A reply reaches the tool call that waits for it, which returns to the agent.
Returned == [at |-> "working", report |-> NoReport]
Answered == agent' = IF agent.at = "waiting" THEN Returned ELSE agent

\* The request timed out, its connection broke or it was a 5xx: POST it again.
Resend ==
  /\ agent.at = "waiting"
  /\ agent' = [agent EXCEPT !.at = IF agent.report = NoReport THEN "asking"
                                   ELSE "posting"]
  /\ UNCHANGED <<rowVars, taskOpen, attached, slotTaken, outbox, jobVars, worker,
                 request, stale, sweep>>

\* A retry budget is spent: the tool returns an error and leaves the outbox.
GiveUp ==
  /\ agent.at \in {"posting", "asking", "waiting"}
  /\ agent' = Returned
  /\ UNCHANGED <<rowVars, taskOpen, attached, slotTaken, outbox, jobVars, worker,
                 request, stale, sweep>>

\* The process ends by itself.
AgentExit ==
  /\ worker.at = "executing" /\ agent.at # "off"
  /\ \E e \in {"completed", "crashed", "rate_limited"} :
       worker' = WorkerAt("exited", e, NoReport)
  /\ agent' = IdleAgent
  /\ UNCHANGED <<rowVars, taskOpen, attached, slotTaken, outbox, jobVars,
                 request, stale, sweep>>

\* The timeout timer, or the cancel poll that sees the row no longer running.
Abort ==
  /\ worker.at = "executing"
  /\ \/ worker' = WorkerAt("exited", "timeout", NoReport)
     \/ status # "running" /\ worker' = WorkerAt("exited", "cancelled", NoReport)
  /\ agent' = IdleAgent
  /\ UNCHANGED <<rowVars, taskOpen, attached, slotTaken, outbox, jobVars,
                 request, stale, sweep>>

-----------------------------------------------------------------------------
(***************************************************************************)
(* The backend's callback handlers.  A request runs on after its client    *)
(* timed out or died; the tool server re-POSTs while the agent waits.      *)
(***************************************************************************)

\* RunTokenGuard: the row's status is read, and acted on later.
Arrive ==
  /\ request.at = "none" /\ agent.at \in {"posting", "asking"}
  /\ IF status \in CallbackAcceptable
       THEN /\ request' = [at |-> IF agent.at = "posting" THEN "complete"
                                  ELSE "human",
                           report |-> agent.report]
            /\ agent' = [agent EXCEPT !.at = "waiting"]
       ELSE /\ agent' = Returned
            /\ UNCHANGED request
  /\ UNCHANGED <<rowVars, taskOpen, attached, slotTaken, outbox, jobVars, worker,
                 stale, sweep>>

\* ReportSchema, then the completion gate on unreported work: 422.
Rejected(r) == ~Valid(r) \/ r.handoff = "unnamed"

RejectCompletion ==
  /\ request.at = "complete"
  /\ \/ Rejected(request.report)
     \/ request.report.outcome = "team"     \* validateTeam found issues
  /\ request' = NoRequest
  /\ Answered
  /\ UNCHANGED <<rowVars, taskOpen, attached, slotTaken, outbox, jobVars, worker,
                 stale, sweep>>

\* CallbackService.complete: the guarded finalize, or 409 when it flips nothing.
FinalizeFromCallback ==
  /\ request.at = "complete" /\ ~Rejected(request.report)
  /\ request.report.outcome # "team"
  /\ status' = FinalizeWithReport(status, request.report.outcome)
  /\ IF status \in Active
       THEN /\ verdict' = request.report
            /\ request' = [request EXCEPT !.at = "effects"]
            /\ UNCHANGED agent
       ELSE /\ request' = NoRequest
            /\ Answered
            /\ UNCHANGED verdict
  /\ UNCHANGED <<started, taskOpen, attached, slotTaken, outbox, jobVars, worker,
                 stale, sweep>>

\* A team report takes the setup accept path: applied, or recast as a failure.
AcceptTeam ==
  /\ request.at = "complete" /\ ~Rejected(request.report)
  /\ request.report.outcome = "team"
  /\ IF status \in Active
       THEN /\ \E o \in {"team", "failure"} :
                 /\ status' = IF o = "team" THEN "succeeded" ELSE "failed"
                 /\ verdict' = [request.report EXCEPT !.outcome = o]
            /\ request' = [request EXCEPT !.at = "done"]
            /\ UNCHANGED agent
       ELSE /\ request' = NoRequest
            /\ Answered
            /\ UNCHANGED <<status, verdict>>
  /\ UNCHANGED <<started, taskOpen, attached, slotTaken, outbox, jobVars, worker,
                 stale, sweep>>

\* applyReportEffects: needs_human opens a blocking task, once.
ApplyReportEffects ==
  /\ request.at = "effects"
  /\ taskOpen' = (taskOpen \/ request.report.outcome = "needs_human")
  /\ request' = [request EXCEPT !.at = "done"]
  /\ UNCHANGED <<rowVars, attached, slotTaken, outbox, jobVars, worker, agent,
                 stale, sweep>>

\* The 2xx reaches the tool server, which removes the outbox - or is lost.
Reply ==
  /\ request.at = "done"
  /\ request' = NoRequest
  /\ \/ /\ agent.at = "waiting"
        /\ agent' = Returned
        /\ outbox' = NoReport
     \/ UNCHANGED <<agent, outbox>>
  /\ UNCHANGED <<rowVars, taskOpen, attached, slotTaken, jobVars, worker, stale,
                 sweep>>

\* HumanTaskService.createFromRequest: the task row (deduplicated), then the park.
CreateTask ==
  /\ request.at = "human"
  /\ taskOpen' = TRUE
  /\ request' = [request EXCEPT !.at = "park"]
  /\ UNCHANGED <<rowVars, attached, slotTaken, outbox, jobVars, worker, agent,
                 stale, sweep>>

ParkFromRequest ==
  /\ request.at = "park"
  /\ status' = ParkRun(status)
  /\ request' = NoRequest
  /\ Answered \/ UNCHANGED agent
  /\ UNCHANGED <<verdict, started, taskOpen, attached, slotTaken, outbox, jobVars,
                 worker, stale, sweep>>

\* The backend restarts in the middle of a callback.
BackendCrash ==
  /\ request.at # "none"
  /\ request' = NoRequest
  /\ UNCHANGED <<rowVars, taskOpen, attached, slotTaken, outbox, jobVars, worker,
                 agent, stale, sweep>>

-----------------------------------------------------------------------------
(***************************************************************************)
(* The worker handles the exit.                                            *)
(***************************************************************************)
ExitIs(E) == worker.at = "exited" /\ worker.exit \in E

\* A valid outbox report finalizes a completed or timed-out run.
FinalizeFromOutbox ==
  /\ ExitIs({"completed", "timeout"}) /\ Valid(outbox)
  /\ status' = FinalizeWithReport(status, outbox.outcome)
  /\ verdict' = IF status \in Active THEN outbox ELSE verdict
  /\ worker' = WorkerAt(IF status \in Active THEN "flipped" ELSE "consuming",
                        worker.exit, outbox)
  /\ UNCHANGED <<started, taskOpen, attached, slotTaken, outbox, jobVars, agent,
                 request, stale, sweep>>

\* The report's effects on the database follow the flip.
ExitEffects ==
  /\ worker.at = "flipped"
  /\ taskOpen' = (taskOpen \/ worker.report.outcome = "needs_human")
  /\ worker' = [worker EXCEPT !.at = "consuming"]
  /\ UNCHANGED <<rowVars, attached, slotTaken, outbox, jobVars, agent, request,
                 stale, sweep>>

ExitConsume ==
  /\ worker.at = "consuming"
  /\ outbox' = NoReport
  /\ status' = IF worker.exit = "completed" THEN status
               ELSE FinalizeStatusIfRunning(status,
                      MapExitAction(worker.exit, attemptsMade, MaxAttempts))
  /\ EndJob
  /\ UNCHANGED <<verdict, started, taskOpen, attached, slotTaken, attemptsMade,
                 agent, request, stale, sweep>>

\* A completed exit without a report: an open blocking task decides.
ExitLookForTask ==
  /\ ExitIs({"completed"}) /\ ~Valid(outbox)
  /\ worker' = [worker EXCEPT !.at = IF taskOpen THEN "parking" ELSE "failing"]
  /\ UNCHANGED <<rowVars, taskOpen, attached, slotTaken, outbox, jobVars, agent,
                 request, stale, sweep>>

ExitPark ==
  /\ worker.at = "parking"
  /\ status' = ParkIfStillRunning(status)
  /\ EndJob
  /\ UNCHANGED <<verdict, started, taskOpen, attached, slotTaken, outbox,
                 attemptsMade, agent, request, stale, sweep>>

ExitFailClosed ==
  /\ worker.at = "failing"
  /\ status' = FailIfStillRunning(status)
  /\ EndJob
  /\ UNCHANGED <<verdict, started, taskOpen, attached, slotTaken, outbox,
                 attemptsMade, agent, request, stale, sweep>>

\* A cancelled exit never applies the report: it attaches it, if none is.
ExitAttach ==
  /\ ExitIs({"cancelled"}) /\ Valid(outbox)
  /\ worker' = WorkerAt(IF attached = 0 THEN "attaching" ELSE "consuming",
                        worker.exit, outbox)
  /\ UNCHANGED <<rowVars, taskOpen, attached, slotTaken, outbox, jobVars, agent,
                 request, stale, sweep>>

ExitInsertAttachment ==
  /\ worker.at = "attaching"
  /\ attached' = attached + 1
  /\ worker' = [worker EXCEPT !.at = "consuming"]
  /\ UNCHANGED <<rowVars, taskOpen, slotTaken, outbox, jobVars, agent, request,
                 stale, sweep>>

\* Nothing to reconcile: the process outcome finalizes a row still running.
ExitFinalize ==
  /\ \/ ExitIs({"timeout", "cancelled"}) /\ ~Valid(outbox)
     \/ ExitIs({"crashed"}) /\ MapExitAction("crashed", attemptsMade, MaxAttempts)
                               # "retry"
  /\ status' = FinalizeStatusIfRunning(status,
                 MapExitAction(worker.exit, attemptsMade, MaxAttempts))
  /\ EndJob
  /\ UNCHANGED <<verdict, started, taskOpen, attached, slotTaken, outbox,
                 attemptsMade, agent, request, stale, sweep>>

\* A crash with attempts left: back to queued, then BullMQ retries the job.
ExitRetry ==
  /\ ExitIs({"crashed"})
  /\ MapExitAction(worker.exit, attemptsMade, MaxAttempts) = "retry"
  /\ status' = MarkQueuedForRetry(status)
  /\ worker' = [worker EXCEPT !.at = "requeued"]
  /\ UNCHANGED <<verdict, started, taskOpen, attached, slotTaken, outbox, jobVars,
                 agent, request, stale, sweep>>

RetryJob ==
  /\ worker.at = "requeued"
  /\ attemptsMade' = attemptsMade + 1
  /\ IF attemptsMade' < MaxAttempts THEN ReturnJob ELSE EndJob
  /\ UNCHANGED <<rowVars, taskOpen, attached, slotTaken, outbox, agent, request,
                 stale, sweep>>

\* A rate limit: the job waits, the row stays as it is.
ExitRateLimited ==
  /\ ExitIs({"rate_limited"})
  /\ ReturnJob
  /\ UNCHANGED <<rowVars, taskOpen, attached, slotTaken, outbox, attemptsMade,
                 agent, request, stale, sweep>>

\* The worker dies: maxStalledCount 0 fails the stalled job.  The agent's
\* process group may live on and call back until it ends.
WorkerCrash ==
  /\ worker.at # "idle"
  /\ EndJob
  /\ agent' = IF agent.at = "spawning" THEN IdleAgent ELSE agent
  /\ UNCHANGED <<rowVars, taskOpen, attached, slotTaken, outbox, attemptsMade,
                 request, stale, sweep>>

OrphanExit ==
  /\ worker.at # "executing" /\ agent.at # "off"
  /\ agent' = IdleAgent
  /\ UNCHANGED <<rowVars, taskOpen, attached, slotTaken, outbox, jobVars, worker,
                 request, stale, sweep>>

-----------------------------------------------------------------------------
(***************************************************************************)
(* The periodic outbox reconciler.                                         *)
(***************************************************************************)
SweepRead ==
  /\ sweep.at = "idle" /\ outbox # NoReport
  /\ sweep' = [at |-> "read", status |-> status, outcome |-> verdict.outcome,
               report |-> outbox]
  /\ UNCHANGED <<rowVars, taskOpen, attached, slotTaken, outbox, jobVars, worker,
                 agent, request, stale>>

\* A mistake: only a live row is rescued, never one that already failed.
RescuableLiveOnly(s, o) == s = "running"

Rescuable(s, o) == s = "running" \/ (s \in RescuableTerminal /\ o = "none")

\* A mistake: no index.
ConflictsNever(t) == FALSE

\* runs_one_active refuses a second active row of the ticket (23505).
Conflicts(t) == slotTaken /\ t \in Active

SweepRescue ==
  /\ sweep.at = "read" /\ Valid(sweep.report)
  /\ Rescuable(sweep.status, sweep.outcome)
  /\ LET t == ReconcileWithReport(status, verdict.outcome, sweep.report.outcome)
         flips == ReconcileGuard(status, verdict.outcome)
     IN IF flips /\ Conflicts(t)
          THEN sweep' = IdleSweep /\ UNCHANGED rowVars
          ELSE /\ status' = t
               /\ verdict' = IF flips THEN sweep.report ELSE verdict
               /\ sweep' = [sweep EXCEPT !.at = IF flips THEN "flipped"
                                                ELSE "consuming"]
               /\ UNCHANGED started
  /\ UNCHANGED <<taskOpen, attached, slotTaken, outbox, jobVars, worker, agent,
                 request, stale>>

SweepEffects ==
  /\ sweep.at = "flipped"
  /\ taskOpen' = (taskOpen \/ sweep.report.outcome = "needs_human")
  /\ sweep' = [sweep EXCEPT !.at = "consuming"]
  /\ UNCHANGED <<rowVars, attached, slotTaken, outbox, jobVars, worker, agent,
                 request, stale>>

SweepAttach ==
  /\ sweep.at = "read" /\ Valid(sweep.report)
  /\ sweep.status \in {"cancelled", "superseded"}
  /\ sweep' = [sweep EXCEPT !.at = IF attached = 0 THEN "attach"
                                   ELSE "consuming"]
  /\ UNCHANGED <<rowVars, taskOpen, attached, slotTaken, outbox, jobVars, worker,
                 agent, request, stale>>

SweepInsertAttachment ==
  /\ sweep.at = "attach"
  /\ attached' = attached + 1
  /\ sweep' = [sweep EXCEPT !.at = "consuming"]
  /\ UNCHANGED <<rowVars, taskOpen, slotTaken, outbox, jobVars, worker, agent,
                 request, stale>>

\* A live completion path owns the row, or the file is kept for inspection.
SweepLeave ==
  /\ sweep.at = "read"
  /\ ~Valid(sweep.report) \/ sweep.status \in {"awaiting_human", "queued"}
  /\ sweep' = IdleSweep
  /\ UNCHANGED <<rowVars, taskOpen, attached, slotTaken, outbox, jobVars, worker,
                 agent, request, stale>>

\* A mistake: whatever is neither rescued nor attached is discarded.
SweepDiscardTheRest ==
  /\ sweep.at = "read" /\ Valid(sweep.report)
  /\ ~Rescuable(sweep.status, sweep.outcome)
  /\ sweep.status \notin {"cancelled", "superseded"}
  /\ sweep' = [sweep EXCEPT !.at = "consuming"]
  /\ UNCHANGED <<rowVars, taskOpen, attached, slotTaken, outbox, jobVars, worker,
                 agent, request, stale>>

\* Already finalized with an outcome.
SweepDiscard ==
  /\ sweep.at = "read" /\ Valid(sweep.report)
  /\ \/ sweep.status = "succeeded"
     \/ sweep.status \in RescuableTerminal /\ sweep.outcome # "none"
  /\ sweep' = [sweep EXCEPT !.at = "consuming"]
  /\ UNCHANGED <<rowVars, taskOpen, attached, slotTaken, outbox, jobVars, worker,
                 agent, request, stale>>

\* A malformed file is past its retention, which outlives the run's attempts.
SweepExpire ==
  /\ sweep.at = "idle" /\ outbox = Malformed
  /\ job = "done" /\ agent.at = "off"
  /\ sweep' = [IdleSweep EXCEPT !.at = "consuming", !.report = outbox]
  /\ UNCHANGED <<rowVars, taskOpen, attached, slotTaken, outbox, jobVars, worker,
                 agent, request, stale>>

SweepConsume ==
  /\ sweep.at = "consuming"
  /\ outbox' = NoReport
  /\ sweep' = IdleSweep
  /\ UNCHANGED <<rowVars, taskOpen, attached, slotTaken, jobVars, worker, agent,
                 request, stale>>

SweepCrash ==
  /\ sweep.at # "idle"
  /\ sweep' = IdleSweep
  /\ UNCHANGED <<rowVars, taskOpen, attached, slotTaken, outbox, jobVars, worker,
                 agent, request, stale>>

-----------------------------------------------------------------------------
(***************************************************************************)
(* The watchdog: one pass selects stale rows and then finalizes each.      *)
(* Time is left out: a running row may be past its timeout at any moment,  *)
(* since started_at is the first attempt's.                                *)
(***************************************************************************)
\* Two mistakes: the watchdog trusts BullMQ to come back to a job it still holds.
WatchdogSelectRunningIfJobGone ==
  /\ stale = "none" /\ status = "running" /\ job = "done"
  /\ stale' = "timed_out"
  /\ UNCHANGED <<rowVars, taskOpen, attached, slotTaken, outbox, jobVars, worker,
                 agent, request, sweep>>

WatchdogSelectRunning ==
  /\ stale = "none" /\ status = "running"
  /\ stale' = "timed_out"
  /\ UNCHANGED <<rowVars, taskOpen, attached, slotTaken, outbox, jobVars, worker,
                 agent, request, sweep>>

WatchdogSelectQueued ==
  /\ stale = "none" /\ status = "queued" /\ ~started
  /\ stale' = "failed"
  /\ UNCHANGED <<rowVars, taskOpen, attached, slotTaken, outbox, jobVars, worker,
                 agent, request, sweep>>

WatchdogFinalize ==
  /\ stale # "none"
  /\ status' = FinalizeStatus(status, stale)
  /\ stale' = "none"
  /\ UNCHANGED <<verdict, started, taskOpen, attached, slotTaken, outbox, jobVars,
                 worker, agent, request, sweep>>

-----------------------------------------------------------------------------
(***************************************************************************)
(* People, and the other runs of the ticket.                               *)
(***************************************************************************)
Cancel ==
  /\ status' = CancelRun(status) /\ status' # status
  /\ UNCHANGED <<verdict, started, taskOpen, attached, slotTaken, outbox, jobVars,
                 worker, agent, request, stale, sweep>>

CancelAll ==
  /\ status' = CancelAllRun(status) /\ status' # status
  /\ UNCHANGED <<verdict, started, taskOpen, attached, slotTaken, outbox, jobVars,
                 worker, agent, request, stale, sweep>>

\* done_manually and dismiss: close the parked run, if it is parked, and the task.
CloseTask ==
  /\ taskOpen
  /\ status' = SupersedeRun(status)
  /\ taskOpen' = FALSE
  /\ UNCHANGED <<verdict, started, attached, slotTaken, outbox, jobVars, worker,
                 agent, request, stale, sweep>>

\* resume: supersede the parked run and insert its successor in one transaction.
Resume ==
  /\ taskOpen /\ status = "awaiting_human"
  /\ status' = SupersedeRun(status)
  /\ slotTaken' = TRUE
  /\ taskOpen' = FALSE
  /\ UNCHANGED <<verdict, started, attached, outbox, jobVars, worker, agent,
                 request, stale, sweep>>

\* Another run is inserted on the ticket (the index admits it), or ends.
OtherRunInserted ==
  /\ ~slotTaken /\ status \notin Active
  /\ slotTaken' = TRUE
  /\ UNCHANGED <<rowVars, taskOpen, attached, outbox, jobVars, worker, agent,
                 request, stale, sweep>>

OtherRunEnds ==
  /\ slotTaken
  /\ slotTaken' = FALSE
  /\ UNCHANGED <<rowVars, taskOpen, attached, outbox, jobVars, worker, agent,
                 request, stale, sweep>>

-----------------------------------------------------------------------------
WorkerStep ==
  \/ PickUp \/ RejectStaleArtifact \/ Hold \/ Start \/ ParkForScope \/ Spawn
  \/ FinalizeFromOutbox \/ ExitEffects \/ ExitConsume \/ ExitLookForTask
  \/ ExitPark \/ ExitFailClosed \/ ExitAttach \/ ExitInsertAttachment
  \/ ExitFinalize \/ ExitRetry \/ RetryJob \/ ExitRateLimited \/ WorkerCrash

AgentStep ==
  \/ CallComplete \/ AskHuman \/ Resend \/ GiveUp \/ AgentExit \/ Abort \/ OrphanExit

CallbackStep ==
  \/ Arrive \/ RejectCompletion \/ FinalizeFromCallback \/ AcceptTeam
  \/ ApplyReportEffects \/ Reply \/ CreateTask \/ ParkFromRequest \/ BackendCrash

SweepStep ==
  \/ SweepRead \/ SweepRescue \/ SweepEffects \/ SweepAttach
  \/ SweepInsertAttachment \/ SweepLeave \/ SweepDiscard \/ SweepExpire
  \/ SweepConsume \/ SweepCrash

WatchdogStep ==
  \/ WatchdogSelectRunning \/ WatchdogSelectQueued \/ WatchdogFinalize

PeopleStep ==
  \/ Cancel \/ CancelAll \/ CloseTask \/ Resume \/ OtherRunInserted
  \/ OtherRunEnds

Next == \/ WorkerStep \/ AgentStep \/ CallbackStep
        \/ SweepStep \/ WatchdogStep \/ PeopleStep

Spec == Init /\ [][Next]_vars

(***************************************************************************)
(* Fairness.  The watchdog's pass and the outbox reconciler are repeatable *)
(* BullMQ jobs of the worker: each comes round again for as long as the    *)
(* system runs.  A pass of the reconciler may die at any point, so its     *)
(* steps are strongly fair: it is not killed at the same place for ever.   *)
(* Nothing is assumed of the agent, the network, the processor or people.  *)
(***************************************************************************)
Fairness ==
  /\ WF_vars(WatchdogSelectRunning) /\ WF_vars(WatchdogSelectQueued)
  /\ WF_vars(WatchdogFinalize)
  /\ WF_vars(SweepRead)
  /\ SF_vars(SweepRescue) /\ SF_vars(SweepEffects)
  /\ SF_vars(SweepAttach) /\ SF_vars(SweepInsertAttachment)
  /\ SF_vars(SweepLeave \/ SweepDiscard) /\ SF_vars(SweepConsume)

FairSpec == Spec /\ Fairness

-----------------------------------------------------------------------------
(* Safety.                                                                 *)

\* The rescue of a failed run never makes two runs of a ticket active: when the
\* ticket's next run has been admitted, runs_one_active refuses a needs_human
\* rescue, and every other path leaves the active set for good.
SlotExclusive == ~(slotTaken /\ status \in Active)

\* The row keeps the contract of RunContract, whoever writes it and whenever.
Contract == INSTANCE RunContract WITH outcome <- verdict.outcome
ImplementsContract   == Contract!Spec
StatusMatchesOutcome == Contract!StatusMatchesOutcome
TerminalFinal        == Contract!TerminalFinal

\* A parked run is taken from its human only by a report, by the human, by the
\* watchdog that selected it while it ran, or by the artifact guard of a retry:
\* no exit of the agent's process clobbers the park.
ExitKeepsPark ==
  [][status = "awaiting_human" /\ status' \in {"failed", "timed_out", "cancelled"}
       => \/ verdict' # verdict
          \/ stale # "none"
          \/ worker.at = "picked"]_vars

\* The outbox file of a valid report goes only once a verdict is in the row or
\* the report is attached to it - except that a report of a row somebody
\* stopped meanwhile is dropped by the exit path, which asks no further.
ReportKeptUntilRecorded ==
  [][Valid(outbox) /\ outbox' = NoReport
       => \/ verdict' # NoReport
          \/ attached' > 0
          \/ status \in {"cancelled", "superseded"}
          \/ status \in RescuableTerminal /\ worker.at = "consuming"]_vars

-----------------------------------------------------------------------------
(* Liveness, under FairSpec.                                               *)

\* No run stays running for ever, even if its worker or process vanished.
LeavesRunning == status = "running" ~> status # "running"

\* No run whose job was never picked up stays queued for ever.
LeavesFirstQueue == status = "queued" /\ ~started ~> status # "queued" \/ started

\* No run stays running for ever, whatever became of its worker and its process,
\* nor unpicked in the queue.
RunsEnd == LeavesRunning /\ LeavesFirstQueue

\* A report stranded in the outbox of a run that failed without one is applied,
\* unless the file goes, is overwritten with a malformed one, or another run
\* holds the ticket.
StrandedReportRescued ==
  (status \in RescuableTerminal /\ verdict = NoReport /\ Valid(outbox))
    ~> (verdict # NoReport \/ ~Valid(outbox) \/ slotTaken)

-----------------------------------------------------------------------------
(* What comments of the code say, and the code does not do.                *)

\* completion-gate.ts: a completion that omits a repository whose HEAD moved is
\* rejected before the run finalizes.
GateNotBypassed == verdict.handoff = "named"

=============================================================================
