--------------------------- MODULE TicketPipeline ---------------------------
(***************************************************************************)
(* What PipelineService does with the finished runs of one ticket: the     *)
(* Jira transition and comment, the triage of a failed worker run, the     *)
(* routing decision of an orchestrator run and the rework run it starts,   *)
(* and the jira_action marker that ends all of it.                         *)
(*                                                                         *)
(* onRunFinished is called by the callback endpoint, the processors, the   *)
(* outbox sweep and the watchdog when they finalize a run, and by drift    *)
(* repair for every run that owes its Jira write.  Each call in flight is  *)
(* a member of Finishers; it takes one step per database or Jira call, so  *)
(* calls interleave with each other and with the life of the ticket, and   *)
(* any of them may stop halfway (Abandon) and be replayed.                 *)
(*                                                                         *)
(* Agents are told apart by their role.  The workspace has one             *)
(* orchestrator, every agent defines status_running, and the rework        *)
(* maximum does not change.  Dependents, poller and queues are not here,   *)
(* and neither is the status of the issue on the board.                    *)
(*                                                                         *)
(* Nothing in the code keeps two calls about one run apart.  raced and     *)
(* overspent are history variables, which only the properties read: they   *)
(* record the two races between calls that nothing guards, so that the     *)
(* properties say what holds apart from them.                              *)
(*                                                                         *)
(* FindExistingSkipped, TriggerIgnoresDedup and the like are plausible     *)
(* mistakes in the definition they stand before.                           *)
(***************************************************************************)
EXTENDS RunRows, Integers, Sequences, FiniteSets

CONSTANTS
  Finishers,             \* calls of onRunFinished that can be in flight
  ReworkMax,             \* workspaces.settings.rework_max
  WorkerOutcomes,        \* what a worker may report
  OrchestratorOutcomes,  \* what the orchestrator may report
  MaxRuns,               \* bound: runs of the ticket
  MaxWork,               \* bound: runs started from outside the pipeline
  MaxFaults              \* bound: calls that stop halfway or join another

ASSUME FinishersAssumption == IsFiniteSet(Finishers) /\ Finishers # {}
ASSUME ReworkMaxAssumption == ReworkMax \in Nat
ASSUME BoundsAssumption    == MaxRuns \in Nat /\ MaxWork \in Nat /\ MaxFaults \in Nat
ASSUME OutcomesAssumption  ==
  /\ WorkerOutcomes \subseteq ReportOutcome
  /\ OrchestratorOutcomes \subseteq ReportOutcome

VARIABLES
  runs,       \* the rows of `runs` of the ticket, oldest first
  marker,     \* run_events of type jira_action: run -> decision, or "none"
  tasks,      \* runs with a non-blocking human task raised by the pipeline
  commented,  \* runs whose comment is on the Jira issue
  fin,        \* the calls in flight
  faults,     \* calls that stopped halfway or joined another so far
  raced,      \* history: runs that two calls were deciding on together
  overspent   \* history: budget checks passed while another was unspent

vars == <<runs, marker, tasks, commented, fin, faults, raced, overspent>>
ticket == <<tasks, commented>>

Role   == {"worker", "orchestrator"}
Source == {"work", "triage", "rework", "answer-triage", "human-resume"}

\* by: the failing run of a triage, the deciding run of a rework, the parked
\* run of a resume; 0 when the run has no predecessor.
Run == [role : Role, source : Source, by : Nat, status : Status,
        outcome : ReportOutcome \cup {"none"}]

Decision ==
  {"none", "written", "triaged", "triage_deduplicated", "cycle_limit",
   "no_orchestrator", "routed", "needs_human", "override"}

Step == {"idle", "load", "transition", "comment", "triage", "existing",
         "judge", "active", "trigger", "task", "mark"}

\* status: of the row as the call has loaded it.
Call == [pc : Step, run : Nat, status : Status, decision : Decision]

Idle == [pc |-> "idle", run |-> 0, status |-> "queued", decision |-> "none"]

StateOK ==
  /\ runs \in Seq(Run) /\ Len(runs) <= MaxRuns
  /\ marker \in [1..MaxRuns -> Decision]
  /\ tasks \subseteq 1..MaxRuns
  /\ commented \subseteq 1..MaxRuns
  /\ fin \in [Finishers -> Call]
  /\ faults \in Nat

TypeOK == StateOK /\ raced \subseteq 1..MaxRuns /\ overspent \in Nat

Init ==
  /\ runs = << >>
  /\ marker = [r \in 1..MaxRuns |-> "none"]
  /\ tasks = {} /\ commented = {}
  /\ fin = [f \in Finishers |-> Idle]
  /\ faults = 0
  /\ raced = {} /\ overspent = 0

Rows          == 1..Len(runs)
ActiveRows    == {r \in Rows : runs[r].status \in Active}
ReworkRuns    == {r \in Rows : runs[r].source = "rework"}
Orchestrates(r) == runs[r].role = "orchestrator"
ReworkOf(r)   == {k \in ReworkRuns : runs[k].by = r}
TriageOf(r)   == {k \in Rows : runs[k].source = "triage" /\ runs[k].by = r}

\* TERMINAL_STATUSES: the runs that owe a Jira write.
OwesWrite == {"succeeded", "failed", "timed_out", "awaiting_human"}

NewRun(role, source, by) ==
  [role |-> role, source |-> source, by |-> by, status |-> "queued",
   outcome |-> "none"]

\* INSERT INTO runs, under the index runs_one_active.
Insert(role, source, by) ==
  /\ ActiveRows = {} /\ Len(runs) < MaxRuns
  /\ runs' = Append(runs, NewRun(role, source, by))

SetStatus(r, s) == runs' = [runs EXCEPT ![r].status = s]

-----------------------------------------------------------------------------
(* The life of the ticket's runs, as far as the pipeline depends on it.    *)

\* A status change starts a worker; a manual trigger or a retry starts any agent.
NewWork ==
  /\ Cardinality({r \in Rows : runs[r].source = "work"}) < MaxWork
  /\ \E role \in Role : Insert(role, "work", 0)
  /\ UNCHANGED <<marker, ticket, fin, faults>>

StartRun(r) ==
  /\ runs[r].status = "queued"
  /\ SetStatus(r, MarkRunning(runs[r].status))
  /\ UNCHANGED <<marker, ticket, fin, faults>>

Outcomes(r) ==
  IF Orchestrates(r) THEN OrchestratorOutcomes ELSE WorkerOutcomes

\* complete_task, accepted while the run is running or parked.
Complete(r) ==
  /\ runs[r].status \in CallbackAcceptable
  /\ \E o \in Outcomes(r) :
       runs' = [runs EXCEPT ![r].status = FinalizeWithReport(@, o),
                            ![r].outcome = o]
  /\ UNCHANGED <<marker, ticket, fin, faults>>

\* The process ends, or the watchdog gives up, without a report.  The row is
\* then failed or timed_out; the pipeline treats the two alike.
EndWithoutReport(r) ==
  /\ runs[r].status = "running"
  /\ SetStatus(r, FinalizeStatusIfRunning(runs[r].status, "timed_out"))
  /\ UNCHANGED <<marker, ticket, fin, faults>>

\* request_human with blocking = true.
RequestHuman(r) ==
  /\ runs[r].status = "running"
  /\ SetStatus(r, ParkRun(runs[r].status))
  /\ UNCHANGED <<marker, ticket, fin, faults>>

\* reconcileWithReport of the outbox sweep on a run that ended without a
\* report.  The index refuses a row that would come back as a second active one.
Rescue(r) ==
  /\ runs[r].status \in RescuableTerminal
  /\ ReconcileGuard(runs[r].status, runs[r].outcome)
  /\ \E o \in Outcomes(r) :
       /\ ReportTerminalStatus(o) \in Active => ActiveRows = {}
       /\ runs' = [runs EXCEPT ![r].status = ReportTerminalStatus(o),
                               ![r].outcome = o]
  /\ UNCHANGED <<marker, ticket, fin, faults>>

\* resumeRun: the parked run is superseded and the answer starts a run of the
\* chosen agent in one transaction; an orchestrator gets an answer-triage.
Resume(r, role) ==
  /\ runs[r].status = "awaiting_human" /\ Len(runs) < MaxRuns
  /\ LET source == IF role = "orchestrator" THEN "answer-triage" ELSE "human-resume"
     IN  runs' = Append([runs EXCEPT ![r].status = SupersedeRun(@)],
                        NewRun(role, source, r))
  /\ UNCHANGED <<marker, ticket, fin, faults>>

\* done_manually and dismiss of a blocking task.
CloseTask(r) ==
  /\ runs[r].status = "awaiting_human"
  /\ SetStatus(r, SupersedeRun(runs[r].status))
  /\ UNCHANGED <<marker, ticket, fin, faults>>

CancelAll(r) ==
  /\ runs[r].status \in {"queued", "running"}
  /\ SetStatus(r, CancelAllRun(runs[r].status))
  /\ UNCHANGED <<marker, ticket, fin, faults>>

-----------------------------------------------------------------------------
(* onRunFinished.                                                          *)

\* The call moves on to step pc, or returns.
Goto(f, pc)          == fin' = [fin EXCEPT ![f].pc = pc]
Decide(f, pc, d)     == fin' = [fin EXCEPT ![f].pc = pc, ![f].decision = d]
Return(f)            == fin' = [fin EXCEPT ![f] = Idle]
At(f, pc)            == fin[f].pc = pc

\* A call that starts while another is in flight counts as a fault.
InFlight    == {g \in Finishers : ~At(g, "idle")}
Begin(f, r) ==
  /\ fin' = [fin EXCEPT ![f] = [Idle EXCEPT !.pc = "load", !.run = r]]
  /\ IF InFlight = {} THEN UNCHANGED faults
     ELSE faults < MaxFaults /\ faults' = faults + 1

EnterUncommented(f, r) ==
  /\ At(f, "idle") /\ r \notin commented
  /\ runs[r].status \in OwesWrite /\ marker[r] = "none"
  /\ Begin(f, r)
  /\ UNCHANGED <<runs, marker, ticket>>

\* hasJiraActionMarker.  Whoever calls has seen the run in a status that owes
\* the write.
Enter(f, r) ==
  /\ At(f, "idle")
  /\ runs[r].status \in OwesWrite /\ marker[r] = "none"
  /\ Begin(f, r)
  /\ UNCHANGED <<runs, marker, ticket>>

DriftRepair(f) == \E r \in Rows : Enter(f, r)

\* A worker run goes to its Jira writes, an orchestrator run to its decision.
AfterLoad(row) ==
  IF row.role = "worker" THEN <<"transition", "written">>
  ELSE IF row.status \in RescuableTerminal THEN <<"task", "override">>
  ELSE IF row.status = "awaiting_human" \/ row.outcome = "needs_human"
       THEN <<"mark", "needs_human">>
  ELSE IF row.outcome = "routed" THEN <<"existing", "routed">>
  ELSE <<"task", "override">>

Load(f) ==
  LET row == runs[fin[f].run]
      next == AfterLoad(row)
  IN  /\ At(f, "load")
      /\ IF row.status \in OwesWrite
         THEN fin' = [fin EXCEPT ![f].pc = next[1], ![f].decision = next[2],
                                 ![f].status = row.status]
         ELSE Return(f)
      /\ UNCHANGED <<runs, marker, ticket, faults>>

\* transitionTo: to the success or failure status of a worker, to the running
\* status of the agent a decision routes to.  The board itself is not kept.
Transition(f) ==
  /\ At(f, "transition")
  /\ Goto(f, "comment")
  /\ UNCHANGED <<runs, marker, ticket, faults>>

AfterComment(call) ==
  IF Orchestrates(call.run) THEN "trigger"
  ELSE IF call.status \in RescuableTerminal THEN "triage" ELSE "mark"

AddComment(f) ==
  /\ At(f, "comment")
  /\ commented' = commented \cup {fin[f].run}
  /\ Goto(f, AfterComment(fin[f]))
  /\ UNCHANGED <<runs, marker, tasks, faults>>

\* Rework runs that no human answer has asked for.
AutomaticRework == {k \in ReworkRuns : runs[runs[k].by].source # "answer-triage"}

CycleCount      == Cardinality(ReworkRuns)

BudgetAvailableOffByOne == CycleCount <= ReworkMax
BudgetAvailable         == CycleCount < ReworkMax

\* decideTriage, up to the trigger; the orchestrator may be disabled.
DecideTriage(f) ==
  /\ At(f, "triage")
  /\ IF ~BudgetAvailable THEN Decide(f, "task", "cycle_limit")
     ELSE Decide(f, "trigger", "triaged") \/ Decide(f, "mark", "no_orchestrator")
  /\ UNCHANGED <<runs, marker, ticket, faults>>

FindExistingSkipped(f) ==
  /\ At(f, "existing")
  /\ Goto(f, "judge")
  /\ UNCHANGED <<runs, marker, ticket, faults>>

FindExistingActive(f) ==
  /\ At(f, "existing")
  /\ Goto(f, IF ReworkOf(fin[f].run) \cap ActiveRows # {} THEN "mark" ELSE "judge")
  /\ UNCHANGED <<runs, marker, ticket, faults>>

\* findExistingReworkRun: a decision already executed is only marked.
FindExisting(f) ==
  /\ At(f, "existing")
  /\ Goto(f, IF ReworkOf(fin[f].run) # {} THEN "mark" ELSE "judge")
  /\ UNCHANGED <<runs, marker, ticket, faults>>

\* A human answer grants one cycle beyond the maximum.
BudgetAllows(r) ==
  \/ BudgetAvailable
  \/ runs[r].source = "answer-triage" /\ CycleCount < ReworkMax + 1

\* resolveRoutingTarget and the budget: an unknown or disabled target, or a
\* used-up budget, turns the decision into a human task.
JudgeRouting(f) ==
  /\ At(f, "judge")
  /\ \/ BudgetAllows(fin[f].run) /\ Goto(f, "active")
     \/ Decide(f, "task", "override")
  /\ UNCHANGED <<runs, marker, ticket, faults>>

FindActiveThenTrigger(f) ==
  /\ At(f, "active")
  /\ IF ActiveRows \ {fin[f].run} # {}
     THEN Decide(f, "task", "override") ELSE Goto(f, "trigger")
  /\ UNCHANGED <<runs, marker, ticket, faults>>

\* findActiveRunOnTicket.
FindActive(f) ==
  /\ At(f, "active")
  /\ IF ActiveRows \ {fin[f].run} # {}
     THEN Decide(f, "task", "override") ELSE Goto(f, "transition")
  /\ UNCHANGED <<runs, marker, ticket, faults>>

\* RunTriggerService.trigger, for the triage of a worker run and for the
\* rework of a decision; a deduplicated trigger starts nothing.
TriggerIgnoresDedup(f) ==
  /\ At(f, "trigger")
  /\ \/ IF Orchestrates(fin[f].run)
        THEN Insert("worker", "rework", fin[f].run)
        ELSE Insert("orchestrator", "triage", fin[f].run)
     \/ ActiveRows # {} /\ UNCHANGED runs
  /\ Goto(f, "mark")
  /\ UNCHANGED <<marker, ticket, faults>>

Trigger(f) ==
  /\ At(f, "trigger")
  /\ \/ /\ IF Orchestrates(fin[f].run)
           THEN Insert("worker", "rework", fin[f].run)
           ELSE Insert("orchestrator", "triage", fin[f].run)
        /\ Goto(f, "mark")
     \/ /\ ActiveRows # {}
        /\ IF Orchestrates(fin[f].run) THEN Decide(f, "task", "override")
           ELSE Decide(f, "mark", "triage_deduplicated")
        /\ UNCHANGED runs
  /\ UNCHANGED <<marker, ticket, faults>>

\* createNonBlocking; a run has at most one such task open.
CreateNonBlocking(f) ==
  /\ At(f, "task")
  /\ tasks' = tasks \cup {fin[f].run}
  /\ Goto(f, "mark")
  /\ UNCHANGED <<runs, marker, commented, faults>>

WriteMarker(f) ==
  /\ At(f, "mark")
  /\ marker' = [marker EXCEPT ![fin[f].run] = fin[f].decision]
  /\ Return(f)
  /\ UNCHANGED <<runs, ticket, faults>>

\* The call stops here: a Jira or database error, no transition path on the
\* board, or the death of its process.  Drift repair will call again.
Abandon(f) ==
  /\ ~At(f, "idle") /\ faults < MaxFaults
  /\ faults' = faults + 1
  /\ Return(f)
  /\ UNCHANGED <<runs, marker, ticket>>

-----------------------------------------------------------------------------
Proceed(f) ==
  \/ Load(f) \/ Transition(f) \/ AddComment(f) \/ DecideTriage(f)
  \/ FindExisting(f) \/ JudgeRouting(f) \/ FindActive(f) \/ Trigger(f)
  \/ CreateNonBlocking(f) \/ WriteMarker(f)

RunStep(r) ==
  \/ StartRun(r) \/ Complete(r) \/ EndWithoutReport(r) \/ RequestHuman(r)
  \/ Rescue(r) \/ CloseTask(r) \/ CancelAll(r)
  \/ \E role \in Role : Resume(r, role)

\* A call decides on its run from the moment it has not found a rework run of
\* it until it has acted on that.
Deciding(f) ==
  fin[f].pc \in {"judge", "active", "transition", "comment", "trigger", "task"}

\* Runs that two calls are deciding on: each has looked before the other acted.
Racing ==
  {r \in Rows : \E f, g \in Finishers :
     f # g /\ Deciding(f) /\ Deciding(g) /\ fin[f].run = r /\ fin[g].run = r}

\* Calls about a routing decision that have passed the budget check and not
\* yet started the rework run.
SpendingStep == {"active", "transition", "comment", "trigger"}
Spending ==
  {f \in Finishers : fin[f].pc \in SpendingStep /\ Orchestrates(fin[f].run)}

\* A call spends a budget that others read and have not yet spent.
Overspends == Spending # {} /\ Spending' \ Spending # {}

History ==
  /\ raced' = raced \cup Racing'
  /\ overspent' = IF Overspends THEN overspent + 1 ELSE overspent

Act ==
  \/ NewWork
  \/ \E r \in Rows : RunStep(r)
  \/ \E f \in Finishers : DriftRepair(f) \/ Proceed(f) \/ Abandon(f)

Next == Act /\ History

Spec == Init /\ [][Next]_vars

\* The reconcile pass runs for ever and calls onRunFinished for every run that
\* owes its write; a call that is not abandoned goes on.  The two are never
\* possible together: a call is idle or has a next step.
Fairness ==
  \A f \in Finishers : WF_vars((DriftRepair(f) \/ Proceed(f)) /\ History)

FairSpec == Spec /\ Fairness

-----------------------------------------------------------------------------
(* Properties.                                                             *)

\* However often a decision is replayed, wherever the calls before stopped and
\* whatever calls about other runs do, it starts at most one rework run
\* (findExistingReworkRun: "never mint a second one").  Only two calls that both
\* looked before either acted are exempt.
DecidedOnce == \A r \in Rows \ raced : Cardinality(ReworkOf(r)) <= 1

\* A decision that was executed is not judged again: once its rework run
\* exists, no replay hands the decision to a human as overridden.
ReplayNotRejudged ==
  [][\A r \in Rows \ raced' :
       ReworkOf(r) # {} /\ r \in tasks' => r \in tasks]_vars

\* Rework cycles are bounded: the pipeline on its own starts at most ReworkMax,
\* and with the cycle that a human answer grants there is one more ("a hard cap
\* at max + 1").  Beyond that there is at most one for each budget check that
\* passed while another call had one unspent, and no more than calls in flight.
ReworkCapped ==
  \A excess \in {overspent, Cardinality(Finishers) - 1} :
    /\ Cardinality(AutomaticRework) <= ReworkMax + excess
    /\ CycleCount <= ReworkMax + 1 + excess

\* Jira first: a rework run exists only when its routing comment is on the
\* issue, and a triage run only when the failure comment is (SXF-1174: a Jira
\* failure must leave nothing enqueued).
JiraBeforeEnqueue ==
  \A k \in Rows :
    runs[k].source \in {"rework", "triage"} => runs[k].by \in commented

\* The marker does not claim what did not happen: the run it says was started
\* exists, and a decision handed to a human left a task.
HonestMarker ==
  \A r \in Rows :
    /\ marker[r] = "routed" => ReworkOf(r) # {}
    /\ marker[r] = "triaged" => TriageOf(r) # {}
    /\ marker[r] \in {"override", "cycle_limit"} => r \in tasks
    /\ marker[r] = "written" => r \in commented

Owes(r) == r \in Rows /\ runs[r].status \in OwesWrite /\ marker[r] = "none"

\* Every run that owes its Jira write gets its marker, through any outage that
\* ends, unless it stops owing it (superseded) first.  A ticket at the bound on
\* its runs is exempt, since its last trigger has nowhere to go; so is its last
\* run, which is never there before the bound is reached.
CompletionWritten ==
  \A r \in 1..MaxRuns - 1 : Owes(r) ~> (~Owes(r) \/ Len(runs) = MaxRuns)

=============================================================================
