# Brigadir: TLA+ models and proofs

Brigadir watches a Jira board and runs coding agents on its tickets. A ticket
that enters a trigger status gets a *run*: a row in `runs`, a BullMQ job, an
agent process in worktrees of shared clones. The agent reports through HTTP
callbacks; the pipeline then writes to Jira and decides what happens to the
ticket next. People answer the questions the agents ask, edit the team, and watch
all of it on a dashboard.

The models here follow a ticket through the system: how a change on the board
becomes a run, who may write a run's row and when, what the executor starts it
from, what becomes of its report, how a ticket gets from a failed run to a rework
run, which process may consume the queues, how Jira is called, what the
administration requests do to each other, and whether what people and agents are
shown agrees with the tables. Paths below are relative to `src/`.

## 1. The system

### Components, state and operations

| Component | State it keeps | Operations | Module |
|---|---|---|---|
| Run state machine (`libs/runs`) | `runs.status`, `outcome`, `report`, `started_at`; the partial unique index `runs_one_active` | guarded UPDATEs: markRunning, markQueuedForRetry, finalizeWithReport, reconcileWithReport, failIfStillRunning, parkIfStillRunning, finalizeStatus | `RunRows`, `RunContract` |
| Claude processor (`apps/worker/src/claude-cli-run.processor.ts`) | one job in hand | artifact guard, gate, start, timeout timer, cancel poll, exit handling | `RunCompletion` |
| Callback API (`libs/callback`) | none | guard, completion gate, finalize, human task, park | `RunCompletion`, `CallbackChannel` |
| Outbox reconciler (`apps/worker/src/outbox-reconcile.service.ts`) | none: reads files and rows | rescue, attach, leave, expire; sweep of the breadcrumbs | `RunCompletion`, `CallbackChannel` |
| Watchdog (`libs/ingest/src/watchdog.service.ts`) | none | time out running rows, fail rows that were never picked up | `RunCompletion`, `RunDispatch` |
| Run trigger (`libs/runs/src/run-trigger.service.ts`) | the row, then the job | insert under the index; add with a `ticket:agent` deduplication id | `RunDispatch` |
| Executor gate, live concurrency (`apps/worker`) | the worker's slots; counts running rows | admit or hold a picked-up job; follow the edits of the profiles | `RunDispatch`, `MockRuns` |
| Mock executor and processor (`libs/executors/src/mock.executor.ts`, `apps/worker/src/run.processor.ts`) | the `api_retry` event of a run | the scenarios the tests and demos drive | `MockRuns` |
| Claude CLI executor (`libs/executors/src/claude-cli`) | shared clones, worktrees, token file, process group | prepare, bootstrap, spawn, kill, classify the exit, clean up | `StartPlan`, `AgentProcess`, `ExecutorRun` |
| Completion pipeline (`libs/pipeline/src/pipeline.service.ts`) | `run_events` of type `jira_action` | onRunFinished: transition, comment, triage, routing, rework, marker | `TicketPipeline` |
| Drift repair (`libs/ingest/src/drift-repair.service.ts`) | none | calls onRunFinished for every run that owes its marker | `TicketPipeline` |
| Human tasks and resume (`libs/human-tasks`) | `human_tasks` | create, park, resume (supersede and insert), close | `RunCompletion`, `RunDispatch`, `TicketPipeline`, `AgentPrompt` |
| Poller, reconcile pass (`libs/ingest`) | `tickets.last_seen_status`, the high-water mark, the known sprints | search window, status diff, onStatusChanged, rescan | `TicketFlow` |
| Dependency gate and release (`libs/pipeline`) | `tickets.blocked_by`, `blocked_state` | hold a ticket with open blockers, release it, classify it | `TicketFlow` |
| Worker lock (`apps/worker/src/worker-lock.*`) | a Redis key with a lease | acquire, renew, release; pause and resume the consumers | `WorkerLock` |
| Jira client (`libs/jira`) | token bucket, slots, per-issue queues, transition cache, client memos, cached statuses | rate-limited requests, serialized writes, transitions, rebuilt clients | `JiraClient`, `JiraAccess` |
| Administration (`apps/backend/src/dashboard`, `packages/admin-mcp`, seeders) | workspaces, settings, sealed secrets, agents, executors, template | create, edit, delete, rotate, generate and apply a team, seed | `AdminRequests`, `SettingsRequests`, `RosterRequests`, `TeamRequests`, `WorkspaceAdmin` |
| Tool server of the agent (`packages/mcp-server`) | outbox file, breadcrumb file | complete_task, request_human, report_progress, reads, with two retry budgets | `RunCompletion`, `CallbackChannel` |
| Channel probe, breadcrumbs, health | failure counter, claimed file, `channel_*` events | probe, claim, ingest, aggregate | `CallbackChannel` |
| Prompts (`libs/pipeline/src/handoff.ts`, `wrapper.ts`, receipts) | `tickets.verification` | what a run is told of a failure, an answer, the budget and the checks that need no re-run | `AgentPrompt` |
| Metrics, lists, run card, ticket history | none of their own | queries and presenters | `MetricsViews`, `DashboardViews`, `RunTimeline` |

### How they interact

Few things hold a lock across components. They meet in these places:

* **the run's row**: every writer issues one UPDATE guarded by the statuses it
  expects, and looks at whether a row came back;
* **the outbox and breadcrumb files**: written by the tool server, read and consumed
  by the exit handler and by the periodic sweep;
* **the queue**: the backend adds jobs, one worker process (the lock) consumes
  them; `maxStalledCount: 0` fails the job of a dead worker;
* **the `jira_action` marker**: ends a completion; until it is there, drift repair
  calls onRunFinished again. Callbacks complete runs in the backend and drift
  repair runs in the worker, and nothing keeps two calls for one run apart;
* **the board and its cache**: people and finished runs move issues, the poller and
  two release paths act on what they last saw of them;
* **the shared clones**: several runs fetch, prune and add worktrees in one clone;
* **the settings blob**: handlers read it, edit it and write it back.

### What is hard, and what would make it correct

* The row has six writers. *Correct*: a terminal row stays as it is, except that
  a report may replace a failure no report caused; status and outcome agree; a
  parked run is not taken from its human by its own process's exit.
* The report travels on two roads (POST and file) and either may be late, lost
  or repeated. *Correct*: the file goes only when its content is recorded, a
  stranded report reaches its run, and the agent is not told that a call failed or
  succeeded when it did not.
* A ticket has many runs. *Correct*: one active at a time, also when a rescue
  turns an old row active again.
* Rows, jobs and processes end at different times. *Correct*: a run is never
  started over its own living process; the gates overshoot by a known amount.
* A completion has about seven steps, any of which may fail. *Correct*: it is
  replayed until its marker lands, starts at most one rework run however often it
  is replayed, does not enqueue before Jira has been told, and stays within the
  rework budget; two calls that decide together cost at most one run each.
* The worker may be started twice, suspended or killed. *Correct*: one consumer,
  and whoever holds the lock consumes.
* The poller's window moves while issues, sprints and the poller's own steps do.
  *Correct*: no change in scope is lost, a ticket that is ready gets its run, one
  with open blockers does not, and work that was settled is not run again.
* A run starts from branches that other runs reported. *Correct*: only fresh trees,
  the ticket's own work continued, every open blocker's work in or named as missing.
* A process can be aborted, rate limited, killed and orphaned in any order.
  *Correct*: the outcome is the one that happened, the token file goes, and run()
  returns whatever the agent's process leaves behind.
* Requests are several statements without a transaction. *Correct*: a team comes
  whole or not at all, one orchestrator, no secret without a name to hold it.
* Jira throttles, fails and changes behind the cache. *Correct*: writes of an issue
  in order and once, answers that were true, slots never exceeded, every call ends.
* Charts, lists and prompts are put together from several reads. *Correct*: they
  agree with each other and with the tables they were read from.

`PROJECT.json` lists the hazards one by one, each at its line, with the
properties that cover it.

## 2. The modules

| Module | Models | Kind |
|---|---|---|
| `RunRows` | the statuses and the guarded UPDATEs, as functions from a status to a status | operators |
| `RunContract` | what a run promises to the readers of its row | abstract specification |
| `RunCompletion` | one run against its six writers | detailed specification, implements `RunContract` |
| `RunDispatch` | rows, jobs, slots, gate and processes of several runs | specification |
| `TicketPipeline` | onRunFinished for the runs of one ticket | specification |
| `WorkerLock` | the exclusive worker lock | specification |
| `TicketFlow` | from the board to a run: poller, dependency gate, releases | specification |
| `StartPlan` | what a run mounts and where it starts | operators |
| `AgentProcess` | one CLI process with its pipes, kills and timers | component |
| `ExecutorRun` | run() of the executor for several runs | composes `StartPlan` and `AgentProcess` |
| `AdminRequests` | the tables and how a handler runs | component |
| `SettingsRequests`, `RosterRequests`, `TeamRequests` | the statements of the handlers | components, each on the one before |
| `WorkspaceAdmin` | the requests as plans of statements | composition |
| `JiraClient` | limiter, queues, discovery, cache | component |
| `JiraAccess` | the clients as the process uses them | composition |
| `MetricsViews` | the charts as functions of the tables | operators |
| `DashboardViews`, `RunTimeline`, `CallbackChannel`, `AgentPrompt`, `MockRuns` | one page or machine each | components |
| `OperatorViews` | one of these at a time | composition |
| `MC*` | constants for TLC | instances |
| `*Proofs` | theorems and their proofs | proofs |

`RunCompletion`, `RunDispatch`, `TicketPipeline` and `MockRuns` share `RunRows`:
what `finalizeWithReport` does to a row is written down once. They look at the same
rows from several sides (inside one run; between runs and processes; after a run)
and each reduces the others to a few nondeterministic actions. A definition
whose comment calls it a mistake stands in front of the definition it distorts;
section 6 says what these are for.

### RunCompletion

| State | Code |
|---|---|
| `status`, `verdict`, `started` | `runs.status`, `runs.report` with `outcome`, `started_at IS NOT NULL` |
| `taskOpen`, `attached` | an open blocking task; the number of `undelivered_report` events |
| `outbox` | the file `<runId>.json` |
| `job`, `attemptsMade` | the BullMQ job |
| `worker` | where `process` is between two awaits, with the exit status and the report it has read |
| `agent`, `request` | the tool call in progress; the callback the backend is handling |
| `sweep`, `stale` | what the reconciler and the watchdog have read and not yet written |
| `slotTaken` | another run of the ticket is active |

One action is what happens between two awaits that touch shared state, so a
status read before an await is carried in `worker`, `sweep` or `stale` and may
be out of date when it is used. A request goes on in the backend after its client
has given up. `WorkerCrash`, `BackendCrash` and `SweepCrash` may strike anywhere;
after a worker crash the agent lives on (`OrphanExit`) and keeps calling back.

Abstractions: one callback is handled at a time; closing a task and resuming are
one step each; time is left out, so a timeout may fire whenever its condition
holds; a malformed file's retention outlives the run's attempts
(`SweepExpire` needs the job and the process gone); the completion gate looks at
one bit, whether the report names the branches that moved; cost, usage and checks
are data.

### RunDispatch

`status`, `started`, `decided`, `keyed`, `job` and `process` are functions on
`Runs`. A trigger inserts the row and adds the job in two steps, and the backend
may die in between (`LoseEnqueue`); an add whose deduplication id is held, or
still retained, is swallowed. `Capacity` is constant here (`MockRuns` has it
edited); the per-model cap of the gate is part of `Hold`; the number of crash
retries is not bounded, which allows more behaviours than the code.

### TicketPipeline

| State | Code |
|---|---|
| `runs` | the rows of one ticket, each with its role, where it came from and the run that caused it (`trigger_event`) |
| `marker` | the `jira_action` event of each run, by the decision it records |
| `tasks`, `commented` | non-blocking tasks the pipeline ever raised; comments on the issue |
| `fin` | the calls of onRunFinished in flight: step, run, the row's status as loaded, decision |
| `faults` | how many calls have stopped halfway or begun while another was in flight (bounded by `MaxFaults`) |
| `raced` | history: runs that two calls were deciding on together |
| `overspent` | history: budget checks that passed while another call had one unspent |

A call takes one step per database or Jira call: `Enter` (marker absent), `Load`,
`Transition`, `AddComment`, `DecideTriage` for a worker that failed, and for an
orchestrator `FindExisting`, `JudgeRouting` (validity of the target and budget),
`FindActive`, `Transition`, `AddComment`, `Trigger`, then `CreateNonBlocking` and
`WriteMarker`. `Abandon` is a failed Jira call or a crash at any of them.

Any number of calls may be in flight, about one run or several. Two of them about one
run may both look for its rework run before either has started it, and two about
different runs may both read the budget before either has spent it. Nothing in the code
excludes that, so nothing in the model does; `raced` and `overspent` record it, in
the conjunct `History` of every step, and only the properties read them.

Abstractions: agents are told apart by role only and there is one orchestrator,
which may be disabled; a status change, a manual trigger and a retry are one action
(`NewWork`), which may start either role; every agent defines `status_running`; whether a target is
valid is nondeterministic; a run that ends without a report becomes `timed_out`,
which also stands for `failed`; the status of the issue on the board is in
`TicketFlow`.

### WorkerLock

A member of `Workers` is one process; its consumers are started, paused and
closed together and are one here. `lapsed` remembers that a *living* holder's lease
ran out, which no lease can exclude. The contender key only feeds log lines.

### TicketFlow

| State | Code |
|---|---|
| `board`, `updated`, `clock`, `sprints` | Jira: status and `updated` of each issue, the active sprints |
| `seen`, `chained`, `waiting` | `tickets.last_seen_status`, `blocked_by` observed, `blocked_state` |
| `hwm`, `known` | `reconcile.high_water_mark`, `reconcile.active_sprint_ids` |
| `rows` | statuses among the runs of a (ticket, agent) pair |
| `poll`, `pass` | the search in progress; the release of the reconcile job and of the fast path |
| `everClear`, `missed` | history: a ticket's gate has been clear; its last diff has failed |

People, finished runs and sprint switches move the board while a search is being
processed. A release reads its candidates, fetches the issues, evaluates the gate,
triggers, probes and marks in separate steps, on two paths that overlap; any step
may fail. A run is reduced to started, succeeded, failed or cancelled.

### StartPlan, AgentProcess, ExecutorRun

`StartPlan` is a function of the run's task: scoping by Components, the newest
reported branches of the ticket and of its blockers, and what is said when one is
gone. A start is a set of branches: which of several blockers a worktree starts on and
in which order the others are merged is left out. `AgentProcess` is the process of a run: lines, the rate-limit and abort
kills, the grace timers, a descendant that holds the pipes, the fallback that
settles without `close`, and the inserts a close waits for (the last event of a rate
limit, the tail of stderr of a timeout), with the fallback racing them. `ExecutorRun`
runs the calls of run() over the shared clones: config, scratch directory of a run
without repositories, scope, refresh or re-clone, plan, worktrees one by one, bootstrap,
token file, process, cleanup; with failing steps, rotten clones, lost branches and an
abort at any moment, and again after a crash or a rate limit. A bootstrap command may leave
its pipes to a descendant outside the killed group; then run() is `held` until that
descendant ends (`BootstrapReleased`), if it ever does.

### AdminRequests, SettingsRequests, RosterRequests, TeamRequests, WorkspaceAdmin

A request is a record, its handler a plan (a sequence of statement names), and
each statement an action of a slot, so that the statements of two requests
interleave. `Crash` ends a handler anywhere, `Resend` is the retry of the admin
tools. `clean` is history: no two handlers have overlapped and none has died; the
properties that the code does not keep under overlap are stated under `clean`. One
workspace is modelled. The seeders, the backfills and the reconcile pass's own
write of the settings are requests like the others.

### JiraClient, JiraAccess

A call makes its requests one after the other; a request waits for a slot, a token
and an answer, and sleeps after a 429 with the slot kept. `log` is what took effect
in Jira. `JiraAccess` adds the row with the credentials, the two memos of clients,
the cached list of statuses, people and workflow edits. Time is left out: a
bucket refills and a cache expires whenever the bound allows.

### MetricsViews, DashboardViews

Each chart is an operator of the tables, the filters, the grid of buckets and the
moment its query runs. The list of workspaces by spend is cut to `TopLimit`, the ten of
the code; which of equal ones are cut is left open. `DashboardViews` moves the tables under requests that read in
several queries: a tab, a reader turning pages, a ticket's history. The writers are
reduced to what they do to the rows.

### RunTimeline

Lines of the agent's output are parsed, each event is inserted without waiting for
the one before, progress arrives on the callback, services add their rows; the
presenters of the run card and the ticket history are operators on what has landed.

### CallbackChannel

One run's tool calls over an unreliable channel: two retry budgets, requests that
are handled after their caller gave up, lost answers, the outbox, the breadcrumb
file with its claim by rename on two paths, failed inserts, worker restarts,
retention, the probe's failure counter and the health shown. An answer is handled in the
tool server's steps: the marker is written before the agent is answered, and the outbox
is removed after that (`removeOutbox`); either may fail, and the process may be gone in
between. A question that does not block is a tool of its own (`note`), which ends no session.

### AgentPrompt

The runs of one ticket (or of a setup) in a chain. The handoff section is put
together from several reads, while the operator edits team and budget; the
receipt of an earlier run is matched with the commits the worktrees start from;
the decision is judged later on the rows of that time (`TicketPipeline` has that in
full).

### MockRuns

Jobs of the mock queue, each with the scenario of its trigger event, pass the gate
in three queries (profile, running rows of the profile, running rows of the model)
on a worker whose slots follow edits of the profiles, with cancels in between. An edit
replaces type, limit and model of a profile, also while its runs are running or at the
gate, which look the model up from the profile; `moved` is history: which runs
were given a model by an edit and have not been admitted on it.

## 3. The runs

| Run | Instance | Checks |
|---|---|---|
| `completion_safety` | outcomes failure, needs_human and malformed, two attempts; 1.6 million states | `SlotExclusive`, `StatusMatchesOutcome`, `ExitKeepsPark`, `ReportKeptUntilRecorded`, `ImplementsContract` |
| `completion_liveness` | a team report, one attempt, fair | `RunsEnd`, `StrandedReportRescued` |
| `dispatch_ticket` | three runs of one ticket, two slots | `OneActivePerTicket`, `OneProcessPerRun` |
| `dispatch_gate` | three runs on three tickets, one profile of limit 1, two slots | `OverAdmissionBounded` |
| `pipeline_replay` | four runs, rework maximum 1, two calls, one fault (a call stops, or a second one joins), fair; 0.6 million states | `DecidedOnce`, `ReworkCapped`, `JiraBeforeEnqueue`, `HonestMarker`, `ReplayNotRejudged`, `CompletionWritten` |
| `worker_lock` | two processes, fair | `OneConsumer`, `HolderConsumes`, `OverlapEnds`, `SurvivorConsumes` |
| `ticket_flow` | a ticket and its blocker in different sprints, one sprint switch, three updates, one fault, fair | `NotMissed`, `StartedClear`, `SettledNotRerun`, `EventuallyRuns` |
| `executor` | two runs over two clones, or one with every habit of its process; two attempts, one fault, fair; 0.6 million states | `FreshTrees`, `StartPoints`, `ExitClean`, `RunReturns` |
| `admin` | five pools of requests, three requests in two slots, one resend, one crash | `RosterSound`, `SettingsSound` |
| `jira` | seven pools of calls, up to three calls, concurrency 1, one retry, fair | `InFlightBounded`, `WritesSound`, `AnswersHonest`, `CallsReturn` |
| `views` | one page at a time, with scenes, streams, scripts, stories and shows of its own; 1.4 million states | `DashboardHonest`, `ListsComplete`, `TimelineFaithful`, `ChannelHonest`, `PromptFaithful`, `MockRunsKept` |
| `gate_bypass` | one report that names no branch | `GateNotBypassed`, violated: section 5 |

Some properties are conjunctions of named parts, each stated and commented where
it is defined: `RunsEnd` (no row stays running, none stays unpicked), `StartPoints`,
`ExitClean`, `RosterSound`, `SettingsSound`, `WritesSound`, `AnswersHonest`,
`DashboardHonest`, `ListsComplete`, `TimelineFaithful`, `ChannelHonest`,
`PromptFaithful`, `MockRunsKept`. The type invariants of `RunContract`, `RunCompletion`,
`RunDispatch`, `TicketPipeline`, `WorkerLock` and `TicketFlow` are proved; those of the
others document the state (the proofs about `JiraAccess`, `ExecutorRun`, `OperatorViews`
and `WorkspaceAdmin` carry the part of it they need).

Why the bounds are enough:

* *RunCompletion* has one run and no counter but the attempts. Two attempts give
  one crash retry, the only thing a further attempt repeats. The three outcomes
  of the safety run are the ones that end a run, park it or are refused;
  "success" differs from "failure" only in the status it writes, and "team" is in
  the liveness run. For every property of the safety run the theorems remove the
  bound.
* *RunDispatch*: three runs let a run be superseded, its successor end, and a
  third be admitted while the first is rescued. With limit 1 and two slots a
  second job can pass the gate on the count the first one read.
* *TicketPipeline*: four runs are a worker, its triage, the rework and the run that
  follows it, with the budget used up on the way. One fault puts a halt at every step
  of a call, or lets a second call begin at any step of a first, about the same run
  or another. The theorems have any number of overlapping calls, runs and faults.
* *WorkerLock*: two processes give every takeover; a third adds a second contender.
* *TicketFlow*: the gate looks at one blocker at a time, so one link shows a
  release; three updates let a search that holds one change be overtaken by the
  next, twice; one sprint switch brings an old issue into scope. `Overlap = 0` is the
  hardest case: no re-read hides a gap.
* *ExecutorRun*: two runs are needed to meet in a clone, two attempts to find the
  remains of the first; the tasks of the instance have own work, two open blockers,
  a diamond that does not merge, a branch that is gone.
* *WorkspaceAdmin*: a race takes two handlers, and the third request comes after it.
  For `RosterSound` the theorems remove the bound, up to the five tries of a create.
* *JiraAccess*: concurrency 1 and one token make every wait happen; three calls queue
  behind each other; each pool is one question (order, rotation, stale lists,
  pages, caches).
* *OperatorViews*: `TopLimit` is 1 for two workspaces, so the list by spend is cut when
  both have spent. A clock of four instants has the edges of hour, day and window;
  page size 1 makes every list several pages; the streams hold a denial that is
  forgotten, a duplicated report, every kind of service row; the scripts both retry
  budgets and a file at its limit; the stories the granted cycle and two
  repositories; the shows every scenario, a model over three profiles and edits.

Deadlock is not checked: a ticket whose runs have all ended, a namespace whose
processes are all gone or requests that have all been served rest.

### Fairness

* The watchdog and the reconciler are repeatable jobs of the worker; each pass
  comes round for as long as the system runs: weak fairness on their selections.
  A reconciler pass may be killed at any point, so the rest of its steps are
  strongly fair: it is not killed at the same place for ever.
* Drift repair is part of the periodic reconcile pass and calls that are not
  abandoned go on. `MaxFaults` bounds the outages: `CompletionWritten` says that an
  outage that ends does not lose a completion. It exempts a ticket at `MaxRuns`,
  whose last trigger has nowhere to go in the model.
* Worker lock: the tick reschedules itself after every outcome, keys have a TTL,
  and the reply to a successful SET is not lost for ever (strong fairness on
  `Acquire`).
* TicketFlow: the poller and the release of the reconcile pass go on; nothing is
  assumed of the fast path, of people or of runs.
* Executor: the steps of run() go on (git has a hang-breaker), inserts and kills end,
  timers fire, the timeout of the processor included. Nothing is assumed of the process
  and its descendants, nor of a descendant that holds the pipes of a bootstrap command:
  that `close` may never come, and `RunReturns` says that every run returns unless it
  is held there.
* Jira: while a call can go on or waits for a token, something happens. A request
  is answered or fails; it is not assumed to succeed.
* Nothing is assumed of agents, networks, people or crashes. `admin` and `views`
  are safety only.

## 4. The proofs

Each theorem holds for every value of the constants allowed by the named
assumptions (finite sets of runs and calls, positive limits, `MaxAttempts > 0`).

* **RunCompletionProofs.** The inductive invariant `TypeInv` adds to the type that
  only an exit that reads the outbox (completed, timeout, cancelled) consumes or
  attaches it (`ExitReadsOutbox`) and that a retry has attempts left
  (`RetryHasAttempts`, without which `attemptsMade` leaves its range). The refinement
  of `RunContract` splits the actions in those that write no row (they stutter) and
  those that do, one contract action each. `SlotExclusive` needs that every path
  into the active set either asks the index or was in it before.
  `StatusMatchesOutcome` and `TerminalFinal` come through the refinement from the
  contract's theorems: there `StatusMatchesOutcome` is inductive together with the
  type, and terminal immutability follows from the guards of `Record`.
* **RunDispatchProofs.** `DispatchInv` is the type, "only an inserted row has a job"
  and "a living process belongs to a job that runs it or has ended"; the last one is
  `OneProcessPerRun` made inductive. For `OneActivePerTicket` most
  steps activate nobody, and the three that do (insert, resume, rescue) ask the
  index. `OverAdmissionBounded` counts the runs that are running or admitted on a
  profile (`Committed`): a job that passes the gate saw fewer running rows than the
  limit, and the admitted ones sit in the worker's slots, of which there are
  `Capacity`. The lock of the workers is proved about here too (`LockOneConsumer`).
  `LockInv`: while nothing has lapsed, a process that is busy
  or believes it holds the lock is the one in the key, dead processes are quiet,
  and a pending callback matches the state it announces.
* **TicketPipelineProofs.** `PipelineInv` adds to the type that a call past `Enter`
  works on an existing row, that a triage is about a worker and that a rework run
  names a run that exists. `BudgetInv` counts the calls that have
  read the budget and not yet spent it: rework runs plus spenders stay within the
  maximum plus the calls that may act on a stale read. It gives `ReworkCapped`
  for any number of overlapping calls: one excess cycle for each check that passed while
  another was unspent (`overspent`), and never more than there are calls beyond the first,
  which is the price of reading the budget before two Jira calls.
  `DecisionInv` ties a call to what it has done: past `AddComment` the comment is on
  the issue, past `Trigger` the run of its decision exists. `JiraBeforeEnqueue` and
  `HonestMarker` follow, for overlapping calls too. `DecidedOnce` and
  `ReplayNotRejudged` hold for any number of calls, stopped and replayed as often as the
  faults allow, about every decision that no two calls worked on together (`raced`). Nobody
  guards that race, so the theorems do not assume it away: `DecidedAlone` says of a run
  not in `raced` that at most one call is deciding on it, that the run has no rework run
  as long as a call is, and at most one after that. For the
  decisions in `raced`, `PipelineDecidedPerCall` says what is left: at most one rework run
  for each call that can replay the decision.
* **RunCompletionProofs**, action properties: `ExitKeepsPark` and
  `ReportKeptUntilRecorded` speak of the next state; the second needs `KeepInv`,
  what each reader of the outbox has seen of the row and of the attachment before it
  removes the file.
* **TicketFlowProofs.** `ClearInv`: a search or fetch in use is a board that has
  been, so a gate that looked clear was (`StartedClear`). `MissedInv`: an issue the cache
  is behind on was touched after the search in progress began, and lies above every
  mark that search can save, or its sprint forces a rescan (`NotMissed`). `SettledInv`:
  the candidates in hand had no ended run when they were read (`SettledNotRerun`).
* **JiraAccessProofs.** `AccessInv` counts: the active count of a client is the number
  of calls that hold a slot of it, its waiters are the calls that wait, a queue is
  numbered upwards and only its first call writes, and what is in the log is older than
  what waits. It gives `InFlightBounded` and `WritesSound` for any pool of calls, any
  concurrency and any number of clients. `HonestInv` remembers which credentials and
  workflow each call may count on. `AnswersHonest` needs `IdsStable`: a transition id
  leads to the same status wherever it is offered. The code makes that assumption
  (it posts the id of a cached list and expects a 409 if the list is stale), and the
  workflows of the run satisfy it. Searches, refreshes and credentials are proved without it (`AccessReadsHonest`).
* **ExecutorRunProofs.** The lemmas about the plan come first (`PlannedAccounted`,
  `PlannedContinued`): whatever refs it reads, a plan has every branch of an open blocker
  or a word about it, and the first of two blockers that report one branch stands for
  both. `ProcSound` is the process: a close that is done has the right result, and
  one that waits for an insert will, whatever kills, timers and inserts are in flight. `Inv` puts them together run by run: the worktrees of the repositories already
  passed are this call's (`TreeOk`), what is added was planned (`PlanOk`), the token
  file exists only between its writing and the clean-up (`TokenOk`), and the outcome is
  the verdict of the close or the abort's own (`OutOk`). It gives `FreshTrees`,
  `StartPoints` and `ExitClean` for any number of runs, repositories, tries and faults.
* **OperatorViewsProofs.** One page is open at a time and its steps leave the variables of
  the others alone, so each page has an invariant that all other steps keep by not touching it.
  `ChannelInv`: an answer under way says what the server did with that request
  (`AnswersTrue`), a report that was taken or parked is still what ended the run
  (`ReportStands`), a breadcrumb, wherever it is, is of a call that is over
  (`RecordsAreOver`), and it is in one place as long as no two ingestions have held the
  claim together (`RecordsApart`). `PromptInv` follows the reads of the handoff section:
  what has been read so far is what the chain, the trigger event and the settings said,
  unless `stale` names what was edited since (`EventTold`, `SettingsTold`), the failing run an event
  refers to is a worker's (`Descent`, `Answers`), and a receipt in hand is of commits that a
  completion has vouched for (`Receipts`). `MockInv` relates a row to the place of its job,
  one relation for all scenarios (`RunsFit`), and counts the jobs in the slots
  (`QueueBounded`, `CapsHold`): a job that passes the gate saw fewer rows of its model than
  the cap, and those that pass with it are in slots. An edit can give a running row another model
  without a gate; `MovedKnown` says that `moved` has every such row. They give `ChannelHonest`, `PromptFaithful`
  and `MockRunsKept` for any scripts, stories and shows.
* **WorkspaceAdminProofs.** `Chain` says which statement may follow which in a plan and which
  operation it belongs to; every plan a request is given is a chain (`PlanStarts`), and what is
  left of a chain is one (`ChainRest`). So an invariant need not know what a prefix has done,
  only what the next statement relies on: `RosterInv` says what the tables
  promise (`TablesInv`) and, for each call, what its earlier statements have found out for the
  next one (`HeadOk`). Each statement is a lemma that its slot makes `Progress`, and rows only
  grow or are marked, so the other calls may still rely on what they know
  (`CallGrows`). `TeamsComeWhole` (`TeamAtomic`, `OneOrchestrator`,
  `StartedByOperator`) holds without any bound. `CreateNotLost` does not: a create tries
  five times, and each lost try is a rival that took the key. `RaceInv` counts that the
  tries lost and the calls still to come never exceed the requests there are, so
  `RosterStaysSound` proves `RosterSound` for `MaxRequests + MaxResends <= 5`: with at most
  four rivals no create fails. With five or more the code does answer 500.

The constants are assumed to be what the code makes them: calls and issues are finite,
a workflow offers pairs of an id and a status (`WorkflowAssumption`), the operations of a
pool are those of the client (`OpsAssumption`), a task is the record `StartPlan` describes
and names a ticket once among its blockers (`TaskAssumption`), the calls of a script are
finitely many and have ids of their own (`ChannelAssumption`), the orchestrator is no worker
(`WorkersAssumption`), a show is finite and names its own profiles (`ShowsAssumption`), the
slots of the backend are finite (`AdminAssumption`), and a request is the record its handler
parses, about rows of the scene it starts from (`ScenariosAssumption`). TLC evaluates these assumptions on the
instances.

Model-checked only:

* what needs fairness (`RunsEnd`, `StrandedReportRescued`, `CompletionWritten`,
  `HolderConsumes`, `OverlapEnds`, `SurvivorConsumes`, `EventuallyRuns`, `RunReturns`,
  `CallsReturn`): out of this prover's reach;
* `SettingsSound`: its parts hold while no two handlers have overlapped (`clean`), so an
  invariant has to say of each plan what all its statements together do to the scopes, which
  `Chain` leaves open;
* `DashboardHonest`, `ListsComplete` and `TimelineFaithful`: statements about
  sums over tables, sorted pages and presenters, which are inductions over data.

## 5. Where code and comments disagree

`gate_bypass`: a report the completion gate refuses stays in the outbox, and the
exit path finalizes the run from it with schema validation only, while
`libs/callback/src/completion-gate.ts:15` says that such a completion "is rejected
before the run finalizes". TLC finds the behaviour.

The following were met while modelling. Each contradicts a comment or a
specification of the repository, is reachable in the models, and has no run of its
own:

* The verdict of a run that is cancelled between the exit of its process and the
  exit's finalize is consumed with the file and not attached
  (`claude-cli-run.processor.ts:377`).
* The artifact guard also runs on returned jobs and fails a run that a late
  question has parked (`claude-cli-run.processor.ts:219`).
* A crash-requeued row has `started_at` set; if the worker dies then, no watchdog
  pass selects it (`watchdog.service.ts:122`).
* A rate-limited run keeps its row `running` and counts itself at the gate: with a
  limit (or a model cap) of 1 nobody else holds it (`executor-gate.ts:34`).
* Two calls for one decision both find no rework run; if the first one's rework run
  has ended when the second inserts, there are two (`pipeline.service.ts:519`, `:524`).
  `DecidedOnce` and `ReplayNotRejudged` except exactly these decisions (`raced`).
* `bootstrap.ts:124` says that a descendant holding the pipes "is possible but bounded by
  the SIGKILL of the whole group". One that has left the group is not, and the
  promise has no settlement timer as the agent's process has: run() and the worker's slot
  are held for as long as that descendant lives.
* A scratch directory that cannot be made is a crash also after an abort
  (`claude-cli.executor.ts:331`), though aborts during the preparation are to be reported as
  timeout or cancelled, "never 'crashed'" (`claude-cli.executor.ts:304`).
* When the write of the marker throws after a 2xx, the agent is told of an error for what
  the backend took (`tools.ts:344`, `:366`).
* A ticket that comes back to its trigger status after a run of the agent has
  succeeded or was cancelled, and is blocked then, is marked as waiting and is no
  candidate of either release: nothing starts it when its blocker clears
  (`dependency-release.service.ts:135`, `specs/022-sprint-sequencing/spec.md:114`).
* Log rows of the sources bootstrap, setup-profile-fallback, watchdog, callback,
  handoff-violation, verification-receipt, receipt-stale, receipt-injected and
  settlement-timeout appear as "Session started" without their message, although
  `human-task.service.ts:174` and `watchdog.service.ts:148` count on the timeline.
* The run and workspace lists order by `created_at` alone, so rows of one instant
  can tear across pages (`pagination.schema.ts:7`).

### Limits of the guarantees

Reachable in the models or in the code, excluded by no code, and claimed by no
property:

*Runs and tickets*
* Two *processes* of one ticket may overlap: a cancelled or timed-out row frees the
  ticket before its process is dead (the comment at `libs/database/src/schema/runs.ts:52`
  is about rows).
* The exit handler and the reconciler may both attach the same undelivered report.
* A crash between the flip to `awaiting_human` and the insert of the task leaves a
  parked run without a question.
* A team report that arrives through the outbox parks the run; only the callback
  applies teams. A `needs_human` rescue is refused while another run holds the ticket.
* A verdict that changes after the marker (a rescue, a late completion) reaches
  neither the board nor the triage. Drift repair of an old run after a newer one has
  been written moves the issue back. An overridden decision, whose call stops before
  its marker, may be routed after all when the budget or target changes.

*TicketFlow.* The fast path acts on a stale `last_seen_status`; two classifications
may race for a `waiting` mark or a ticket-blocked notice; a cancel between the read
of the candidates and the trigger is overrun; a failed diff is retried only through
the overlap of the next search. The search for cycles among blockers is not modelled.

*Executor.* A database failure while the start is recorded leaks the workspace and
costs the next try; of two blockers that report one lost branch only the first is
named; an escaped descendant survives when the leader exits within the grace time; an abort while the configuration is loaded
counts as a crash. Not modelled: failing unlinks and chmod, the death of the worker,
names that differ in case only, `keepFailedWorktrees`.

*Administration.* Under overlapping requests one home per name, orphan secrets,
distinct triggers, keyed executors and lost updates of settings and secrets (a pause
overwritten by the poller's own write among them) can break: these properties are
stated for requests that follow each other. The YAML seeder does not lint. A team
report is not checked against workers that exist by then. Not modelled: corrupt
sealed values, instruction texts and their global source.

*Executor slots.* `RunReturns` excepts a run whose bootstrap command left its pipes to a
descendant outside its process group.

*Jira.* Order and serialization hold per client: backend and worker have one each,
and a rotation builds a second one with its own queue. A list of transitions cached
under the status read before, or left stale by an edit, gives a false
"no path" until it expires; an id that was retargeted is reported as done. Not
modelled: a request that fails for the client and takes effect later; the microtask
between a wake-up and the waiter's own count (`rate-limiter.ts:92`, `:98`). The caller of
the released request comes after it; only a request asked for by a microtask that was
queued before the release could take the same slot, and the responses of
requests arrive in events of their own.

*Dashboard.* Database and server share one clock; the list of workspaces by spend has the
first ten only, so it does not add up to the whole when more have spent; rows created in an hour or day that
opens after the grid was made are left out of the charts; percentiles and rates are
abstracted; a report_progress call whose row lands late is shown twice.

*Channel and prompts.* Two ingestions that hold the claim together can lose or
double a record (`overlapped`); a lost 2xx makes the retry answer 409. Agents are
assumed to report their checks honestly, against commits they have made; a parked
rework run that is resumed loses its reference to the failing run.

*Mock runs.* The model of a run is looked up from its profile, so an edit of a profile that
has running runs moves them to another model without a gate and can take that model
past the bound of `executor-gate.ts:28` until they end: `ModelCapBounded` does not
count them (`moved`). The model cap counts over all types, and only the mock queue is modelled:
over several types the overshoot is bounded by the sum of their slots, not by one
type's. Failing queries and the `nearCapacity` hint are left out.

## 6. Mutants

Every property of a passing run has a plausible bug that it catches: a dropped
guard (`FailIfStillRunningUnguarded`), a rescue that ignores the index
(`ConflictsNever`), a budget off by one (`BudgetAvailableOffByOne`), a search for
active rework runs only (`FindExistingActive`), a trigger that ignores deduplication
(`TriggerIgnoresDedup`), a lock released before the jobs have drained
(`StopBeforeDrain`), a team inserted without its guard (`TeamInsertUnguarded`), a
broken request that is sent again (`BrokenRetried`), a grid that is one bucket short
(`generateBucketsShort`), a model counted in its own profile only
(`ModelRunningOwn`). `PROJECT.json` pairs each with its property.

## 7. Not modelled, and the plan

Left out for good: text and formats (ADF, wording of prompts, the scrubber),
credentials and encryption, schema and migrations, the clone cache of the agent
templates, forms and markup of the web UI, the smoke script. The Kimi and DeepSeek
processors are the Claude one on another queue.

Next, in this order:

1. `SettingsSound` from an invariant on the one handler that runs while `clean`.
2. The cycle search of the dependency release as a pure algorithm: the marked tickets
   against the members of strongly connected components, over all small graphs.
3. Writes of backend and worker to one issue composed with `TicketPipeline`: the board
   shows the verdict of the ticket's last finished run, with the exceptions above as
   preconditions.
