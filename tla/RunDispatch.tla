----------------------------- MODULE RunDispatch -----------------------------
(***************************************************************************)
(* How runs of several tickets get a row, a job, a slot and a process.     *)
(*                                                                         *)
(* A trigger inserts the row (the partial unique index runs_one_active     *)
(* admits one active run per ticket) and then adds the BullMQ job, which   *)
(* the queue's deduplication may swallow.  The worker picks jobs up while  *)
(* it has slots, asks the executor gate - a count that is not transactional*)
(* with the write that follows - and starts the agent's process.  Rows end *)
(* before their processes do: a cancel, a callback or the watchdog writes  *)
(* the row, and the processor's poll kills the process later.              *)
(*                                                                         *)
(* What happens inside one run is RunCompletion's subject; here an exit is *)
(* one step.                                                               *)
(***************************************************************************)
EXTENDS RunRows, FiniteSets

CONSTANTS
  Runs,        \* run ids that may ever be created
  Tickets, Profiles,
  TicketOf,    \* the ticket a run is triggered on
  ProfileOf,   \* the executor profile of the run's agent
  Limit,       \* executors.max_parallel_runs of each profile
  Capacity     \* the worker's concurrency: the sum of the enabled limits

ASSUME RunsAssumption     == IsFiniteSet(Runs)
ASSUME RoutingAssumption  == TicketOf \in [Runs -> Tickets] /\ ProfileOf \in [Runs -> Profiles]
ASSUME LimitAssumption    == Limit \in [Profiles -> Nat \ {0}]
ASSUME CapacityAssumption == Capacity \in Nat \ {0}

VARIABLES
  status,      \* runs.status, "absent" before the insert
  started,     \* runs.started_at is set
  decided,     \* runs.outcome is set: a report decided the run
  keyed,       \* the run's job carries the ticket:agent deduplication id
  job,         \* the run's BullMQ job and where the processor is with it
  process      \* the run's agent process is alive

vars == <<status, started, decided, keyed, job, process>>

InSlot    == {"picked", "admitted", "executing"}
JobStates == {"none", "adding", "waiting", "lost", "done"} \cup InSlot

TypeOK ==
  /\ status \in [Runs -> Status \cup {"absent"}]
  /\ started \in [Runs -> BOOLEAN]
  /\ decided \in [Runs -> BOOLEAN]
  /\ keyed \in [Runs -> BOOLEAN]
  /\ job \in [Runs -> JobStates]
  /\ process \in [Runs -> BOOLEAN]

Init ==
  /\ status = [r \in Runs |-> "absent"]
  /\ started = [r \in Runs |-> FALSE]
  /\ decided = [r \in Runs |-> FALSE]
  /\ keyed = [r \in Runs |-> FALSE]
  /\ job = [r \in Runs |-> "none"]
  /\ process = [r \in Runs |-> FALSE]

SetStatus(r, s) == status' = [status EXCEPT ![r] = s]
SetJob(r, j)    == job' = [job EXCEPT ![r] = j]

\* The statuses runs_one_active covers.  A mistake: a parked run is left out.
IndexedButParked == {"queued", "running"}
Indexed == Active

\* The index admits an active row on ticket t.
Admits(t) == \A r \in Runs : TicketOf[r] = t => status[r] \notin Indexed

Siblings(r) == {q \in Runs \ {r} : TicketOf[q] = TicketOf[r]}

-----------------------------------------------------------------------------
(* Triggers: RunTriggerService.trigger, the retry endpoint, resume.        *)

\* INSERT of the row; 23505 ends the trigger.  Continuations skip the queue's
\* deduplication, status changes, manual triggers and retries do not.
Insert(r) ==
  /\ status[r] = "absent" /\ Admits(TicketOf[r])
  /\ SetStatus(r, "queued")
  /\ SetJob(r, "adding")
  /\ \E k \in BOOLEAN : keyed' = [keyed EXCEPT ![r] = k]
  /\ UNCHANGED <<started, decided, process>>

\* Another job of the ticket holds the deduplication id: surely while it is
\* unfinished, perhaps while it is retained.
HoldsKey(q)    == keyed[q] /\ job[q] \in InSlot \cup {"waiting"}
RetainsKey(q)  == keyed[q] /\ job[q] = "done"

Enqueue(r) ==
  /\ job[r] = "adding"
  /\ \/ /\ keyed[r] => ~\E q \in Siblings(r) : HoldsKey(q)
        /\ SetJob(r, "waiting")
     \/ /\ keyed[r] /\ \E q \in Siblings(r) : HoldsKey(q) \/ RetainsKey(q)
        /\ SetJob(r, "lost")
  /\ UNCHANGED <<status, started, decided, keyed, process>>

\* The backend dies between the insert and the add.
LoseEnqueue(r) ==
  /\ job[r] = "adding"
  /\ SetJob(r, "lost")
  /\ UNCHANGED <<status, started, decided, keyed, process>>

\* resumeRun: one transaction supersedes the parked run and inserts q.
Resume(r, q) ==
  /\ status[r] = "awaiting_human"
  /\ status[q] = "absent" /\ q \in Siblings(r)
  /\ status' = [status EXCEPT ![r] = SupersedeRun(status[r]), ![q] = "queued"]
  /\ SetJob(q, "adding")
  /\ UNCHANGED <<started, decided, keyed, process>>

\* done_manually and dismiss.
Dismiss(r) ==
  /\ status[r] = "awaiting_human"
  /\ SetStatus(r, SupersedeRun(status[r]))
  /\ UNCHANGED <<started, decided, keyed, job, process>>

-----------------------------------------------------------------------------
(* The worker.                                                             *)
Slots == {r \in Runs : job[r] \in InSlot}

PickUp(r) ==
  /\ job[r] = "waiting" /\ Cardinality(Slots) < Capacity
  /\ SetJob(r, "picked")
  /\ UNCHANGED <<status, started, decided, keyed, process>>

\* checkExecutorGate counts the running rows of the profile, r's own included.
RunningOn(p) == {r \in Runs : ProfileOf[r] = p /\ status[r] = "running"}

\* A mistake: one run too many.
GateAdmitsOneMore(r) == Cardinality(RunningOn(ProfileOf[r])) <= Limit[ProfileOf[r]]
GateAdmits(r) == Cardinality(RunningOn(ProfileOf[r])) < Limit[ProfileOf[r]]

GateAdmit(r) ==
  /\ job[r] = "picked" /\ GateAdmits(r)
  /\ SetJob(r, "admitted")
  /\ UNCHANGED <<status, started, decided, keyed, process>>

GateHold(r) ==
  /\ job[r] = "picked" /\ ~GateAdmits(r)
  /\ SetJob(r, "waiting")
  /\ UNCHANGED <<status, started, decided, keyed, process>>

\* The artifact guard rejects the run before the gate.
RejectStaleArtifact(r) ==
  /\ job[r] = "picked"
  /\ SetStatus(r, FinalizeStatus(status[r], "failed"))
  /\ SetJob(r, "done")
  /\ UNCHANGED <<started, decided, keyed, process>>

\* The callback channel is down, the profile is disabled or its model is full.
Hold(r) ==
  /\ job[r] = "picked"
  /\ SetJob(r, "waiting")
  /\ UNCHANGED <<status, started, decided, keyed, process>>

\* markRunning, and the process; the job is dropped when nothing flips.
Begin(r) ==
  /\ job[r] = "admitted"
  /\ SetStatus(r, MarkRunning(status[r]))
  /\ IF Startable(status[r])
       THEN /\ SetJob(r, "executing")
            /\ started' = [started EXCEPT ![r] = TRUE]
            /\ process' = [process EXCEPT ![r] = TRUE]
       ELSE SetJob(r, "done") /\ UNCHANGED <<started, process>>
  /\ UNCHANGED <<decided, keyed>>

\* A callback of the live process: the report settles or parks the run.
Callback(r) ==
  /\ process[r] /\ status[r] \in CallbackAcceptable
  /\ \E o \in ReportOutcome \ {"team"} :
       SetStatus(r, FinalizeWithReport(status[r], o))
  /\ decided' = [decided EXCEPT ![r] = TRUE]
  /\ UNCHANGED <<started, keyed, job, process>>

\* The process is gone and its exit finalizes a row that is still running.
Exit(r) ==
  /\ job[r] = "executing"
  /\ \/ \E t \in {"failed", "timed_out", "awaiting_human"} :
          SetStatus(r, FinalizeStatusIfRunning(status[r], t))
     \/ status[r] # "running" /\ UNCHANGED status    \* the cancel poll
  /\ SetJob(r, "done")
  /\ process' = [process EXCEPT ![r] = FALSE]
  /\ UNCHANGED <<started, decided, keyed>>

ExitRetry(r) ==
  /\ job[r] = "executing"
  /\ SetStatus(r, MarkQueuedForRetry(status[r]))
  /\ SetJob(r, "waiting")
  /\ process' = [process EXCEPT ![r] = FALSE]
  /\ UNCHANGED <<started, decided, keyed>>

ExitRateLimited(r) ==
  /\ job[r] = "executing"
  /\ SetJob(r, "waiting")
  /\ process' = [process EXCEPT ![r] = FALSE]
  /\ UNCHANGED <<status, started, decided, keyed>>

\* A mistake: a stalled job is given to the next worker (maxStalledCount 1).
WorkerCrashRetriesStalled ==
  /\ Slots # {}
  /\ job' = [r \in Runs |-> IF r \in Slots THEN "waiting" ELSE job[r]]
  /\ UNCHANGED <<status, started, decided, keyed, process>>

\* The worker dies; its jobs stall and fail, its process groups live on.
WorkerCrash ==
  /\ Slots # {}
  /\ job' = [r \in Runs |-> IF r \in Slots THEN "done" ELSE job[r]]
  /\ UNCHANGED <<status, started, decided, keyed, process>>

OrphanExit(r) ==
  /\ process[r] /\ job[r] # "executing"
  /\ process' = [process EXCEPT ![r] = FALSE]
  /\ UNCHANGED <<status, started, decided, keyed, job>>

-----------------------------------------------------------------------------
(* Everyone else who writes rows.                                          *)

Watchdog(r) ==
  /\ \/ /\ status[r] = "running"
        /\ SetStatus(r, FinalizeStatus(status[r], "timed_out"))
     \/ /\ status[r] = "queued" /\ ~started[r]
        /\ SetStatus(r, FinalizeStatus(status[r], "failed"))
  /\ UNCHANGED <<started, decided, keyed, job, process>>

Cancel(r) ==
  /\ status[r] = "running"
  /\ SetStatus(r, CancelRun(status[r]))
  /\ UNCHANGED <<started, decided, keyed, job, process>>

CancelAll ==
  /\ status' = [r \in Runs |-> CancelAllRun(status[r])]
  /\ status' # status
  /\ UNCHANGED <<started, decided, keyed, job, process>>

\* The process asks a person: a task, and the guarded park.
Ask(r) ==
  /\ process[r] /\ status[r] \in CallbackAcceptable
  /\ SetStatus(r, ParkRun(status[r]))
  /\ UNCHANGED <<started, decided, keyed, job, process>>

\* A report that was not delivered is applied from the outbox by the exit
\* handler or by the reconciler, which may act on a status it read earlier: to an
\* active row, or to one that failed without a report.  The index refuses a
\* second active row.
Rescue(r) ==
  /\ started[r]
  /\ ReconcileGuard(status[r], IF decided[r] THEN "some" ELSE "none")
  /\ \E o \in ReportOutcome :
       /\ status[r] \notin Indexed /\ ReportTerminalStatus(o) \in Indexed
            => Admits(TicketOf[r])
       /\ SetStatus(r, ReportTerminalStatus(o))
  /\ decided' = [decided EXCEPT ![r] = TRUE]
  /\ UNCHANGED <<started, keyed, job, process>>

-----------------------------------------------------------------------------
TriggerStep == \E r \in Runs :
  \/ Insert(r) \/ Enqueue(r) \/ LoseEnqueue(r) \/ Dismiss(r)
  \/ \E q \in Runs : Resume(r, q)

WorkerStep ==
  \/ \E r \in Runs :
       \/ PickUp(r) \/ RejectStaleArtifact(r) \/ Hold(r) \/ GateAdmit(r) \/ GateHold(r)
       \/ Begin(r) \/ Callback(r) \/ Ask(r)
       \/ Exit(r) \/ ExitRetry(r) \/ ExitRateLimited(r) \/ OrphanExit(r)
  \/ WorkerCrash

OperatorStep ==
  \/ \E r \in Runs : Watchdog(r) \/ Cancel(r) \/ Rescue(r)
  \/ CancelAll

Next == TriggerStep \/ WorkerStep \/ OperatorStep

Spec == Init /\ [][Next]_vars

-----------------------------------------------------------------------------
(* Properties.                                                             *)

\* At most one run of a ticket is active, across triggers, resumes and rescues
\* that race each other: what runs_one_active is for.
OneActivePerTicket ==
  \A r \in Runs : status[r] \in Active =>
    \A q \in Siblings(r) : status[q] \notin Active

\* A run is never started over its own living process: runs are not idempotent,
\* so a stalled job must not be run again while its orphan may still push.
OneProcessPerRun ==
  \A r \in Runs : job[r] \in {"waiting", "picked", "admitted"} => ~process[r]

\* The gate's count and markRunning are not one transaction, but the rows it
\* lets through are bounded: a profile overshoots its limit by at most the
\* slots that passed the gate together.
OverAdmissionBounded ==
  \A p \in Profiles : Cardinality(RunningOn(p)) <= Limit[p] - 1 + Capacity

=============================================================================
