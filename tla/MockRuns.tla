------------------------------- MODULE MockRuns -------------------------------
\* The mock executor and its processor: runs whose end is written in their trigger
\* event, with which the loop is driven without live agents.  They pass the gate
\* that holds a profile and a model to their limits, on a worker whose slots
\* follow the edits of the profiles; the operator cancels and edits meanwhile.
\* Crashes of the worker and what follows a finished run are in RunDispatch and
\* TicketPipeline.
EXTENDS RunRows, FiniteSets

CONSTANTS Shows,   \* [runs, pool, caps, ceiling, cancels, edits], see MCOperatorViews
          Models   \* what config.model of a profile may be

Scenarios == {"success", "delay", "failure", "rate_limited", "crash", "timeout", "needs_human", "routed",
              "team", "team_invalid"}

NoModel == "none"   \* the config names no model
ProfileRows == [enabled : BOOLEAN, type : {"mock", "claude_cli"}, max : Nat, model : Models]

\* Every run has a profile and an attempt to make; a cap of parseModelLimits and a
\* ceiling of typeCapacityCeiling are integers from 1.
ASSUME ShowsAssumption ==
  NoModel \in Models /\ \A s \in Shows :
    /\ s = [runs |-> s.runs, pool |-> s.pool, caps |-> s.caps, ceiling |-> s.ceiling, cancels |-> s.cancels, edits |-> s.edits]
    /\ IsFiniteSet(DOMAIN s.runs) /\ IsFiniteSet(DOMAIN s.pool)
    /\ \A r \in DOMAIN s.runs : /\ s.runs[r].scenario \in Scenarios /\ s.runs[r].profile \in DOMAIN s.pool
                                /\ s.runs[r].attempts \in Nat \ {0}
    /\ s.pool \in [DOMAIN s.pool -> ProfileRows]
    /\ DOMAIN s.caps \subseteq Models \ {NoModel} /\ \A m \in DOMAIN s.caps : s.caps[m] \in Nat \ {0}
    /\ s.ceiling \in Nat \ {0}

VARIABLES
  show,     \* the trigger events, caps and ceiling; what the operator may still do
  pool,     \* executors: profile -> [enabled, type, max, model]
  slots,    \* worker.concurrency, and the most it has been
  paused,   \* worker.rateLimit: the whole queue waits
  rowOf,    \* runs: run -> [status, outcome, attempt]
  jobOf,    \* jobs: run -> [at, made, limit, model, count, exit]; limit and model as the gate read them
  wrote,    \* what runs have written: <<"api_retry" | "human_task" | "agents", run>>
  stopped,  \* history: runs an operator has cancelled
  moved     \* history: <<model, run>> where an edit gave the model to the profile of a
            \* run that was running or past the gate's first query, until the run is
            \* admitted on that model

mvars == <<show, pool, slots, paused, rowOf, jobOf, wrote, stopped, moved>>

MockIds    == DOMAIN show.runs
Scenario(r) == show.runs[r].scenario
ProfileIn(r) == show.runs[r].profile
Fresh == [at |-> "waiting", made |-> 0, limit |-> 0, model |-> NoModel, count |-> 0, exit |-> "none"]
Queue == {r \in MockIds : jobOf[r].at \notin {"waiting", "done"}}
JobAt(r, at)   == jobOf[r].at = at
JobGoes(r, j)  == jobOf' = [jobOf EXCEPT ![r] = j]
GoesTo(r, at)  == JobGoes(r, [jobOf[r] EXCEPT !.at = at])
RowWritten(r, st) == rowOf' = [rowOf EXCEPT ![r].status = st]

-----------------------------------------------------------------------------
\* executor-concurrency.ts: the sum of the type's enabled profiles, below the ceiling
\* of the operator; with none enabled the slots stay as they are.
TypeCapacity(profiles) ==
  Cardinality(UNION {{p} \X (1..profiles[p].max) : p \in {q \in DOMAIN profiles : profiles[q].enabled /\ profiles[q].type = "mock"}})
Effective(profiles, before) ==
  LET total == TypeCapacity(profiles)
  IN  IF total = 0 THEN before ELSE IF show.ceiling < total THEN show.ceiling ELSE total

DecoratorConcurrency == 2

MockInit ==
  /\ show \in Shows
  /\ pool = show.pool
  /\ slots = LET n == Effective(show.pool, DecoratorConcurrency) IN [now |-> n, peak |-> n]
  /\ paused = FALSE
  /\ rowOf = [r \in MockIds |-> [status |-> "queued", outcome |-> "none", attempt |-> 1]]
  /\ jobOf = [r \in MockIds |-> Fresh]
  /\ wrote = {} /\ stopped = {} /\ moved = {}

applyExecutorConcurrency ==
  LET n == Effective(pool, slots.now)
  IN  /\ n # slots.now
      /\ slots' = [now |-> n, peak |-> IF n > slots.peak THEN n ELSE slots.peak]
      /\ UNCHANGED <<show, pool, paused, rowOf, jobOf, wrote, stopped, moved>>

-----------------------------------------------------------------------------
\* RunProcessor.process, one step for each statement that others can see.

\* BullMQ hands out a job while the queue is not rate limited and a slot is free.
TakeJob(r) ==
  /\ JobAt(r, "waiting") /\ ~paused /\ Cardinality(Queue) < slots.now
  /\ GoesTo(r, "profile")
  /\ UNCHANGED <<show, pool, slots, paused, rowOf, wrote, stopped, moved>>

\* worker.rateLimit and RateLimitError: back to waiting, no attempt spent.
RateLimit(r) ==
  /\ JobGoes(r, [Fresh EXCEPT !.made = jobOf[r].made])
  /\ paused' = TRUE

LimitOver ==
  /\ paused /\ paused' = FALSE
  /\ UNCHANGED <<show, pool, slots, rowOf, jobOf, wrote, stopped, moved>>

RunningIn(S)      == {q \in MockIds : ProfileIn(q) \in S /\ rowOf[q].status = "running"}
ProfilesOf(m)     == {p \in DOMAIN pool : pool[p].model = m}
ProfileRunning(r) == Cardinality(RunningIn({ProfileIn(r)}))
\* A mistake: the running runs of the own profile only.
ModelRunningOwn(r) == ProfileRunning(r)
ModelRunning(r) == Cardinality(RunningIn(ProfilesOf(jobOf[r].model)))

\* parseModelLimits: the models with a valid entry have a cap.
ModelCapped(r) == jobOf[r].model \in DOMAIN show.caps

\* decideGate, for an enabled profile; `models` is not looked at without a cap.
decideGate(r, running, models) ==
  IF /\ running < jobOf[r].limit
     /\ ModelCapped(r) => models < show.caps[jobOf[r].model]
  THEN GoesTo(r, "start") /\ moved' = moved \ {<<jobOf[r].model, r>>} /\ UNCHANGED paused
  ELSE RateLimit(r) /\ UNCHANGED moved

\* checkExecutorGate: the profile, its running runs and, if the model has a cap,
\* those of the model are three queries; limit and model are the first one's.
GateReadsProfile(r) ==
  LET p == pool[ProfileIn(r)]
  IN  /\ JobAt(r, "profile")
      /\ IF p.enabled
         THEN /\ JobGoes(r, [jobOf[r] EXCEPT !.at = "count", !.limit = p.max, !.model = p.model])
              /\ UNCHANGED paused
         ELSE RateLimit(r)
      /\ UNCHANGED <<show, pool, slots, rowOf, wrote, stopped, moved>>

GateCountsProfile(r) ==
  /\ JobAt(r, "count")
  /\ IF ModelCapped(r)
     THEN /\ JobGoes(r, [jobOf[r] EXCEPT !.at = "models", !.count = ProfileRunning(r)])
          /\ UNCHANGED <<paused, moved>>
     ELSE decideGate(r, ProfileRunning(r), 0)
  /\ UNCHANGED <<show, pool, slots, rowOf, wrote, stopped>>

GateCountsModel(r) ==
  /\ JobAt(r, "models")
  /\ decideGate(r, jobOf[r].count, ModelRunning(r))
  /\ UNCHANGED <<show, pool, slots, rowOf, wrote, stopped>>

\* markRunning; a run cancelled while it waited is dropped.
markRunning(r) ==
  LET st == rowOf[r].status
      n  == jobOf[r].made + 1
  IN  /\ JobAt(r, "start")
      /\ GoesTo(r, IF Startable(st) THEN "execute" ELSE "done")
      /\ rowOf' = [rowOf EXCEPT ![r].status = MarkRunning(st),
                     ![r].attempt = IF Startable(st) /\ n > @ THEN n ELSE @]
      /\ UNCHANGED <<show, pool, slots, paused, wrote, stopped, moved>>

-----------------------------------------------------------------------------
\* MockExecutor.run: what the trigger event asks for.

Reported == [success |-> "success", delay |-> "success", failure |-> "failure", routed |-> "routed",
             needs_human |-> "needs_human", team |-> "team", team_invalid |-> "team"]

\* The first pass leaves an api_retry event, the next one finds it and succeeds.
rateLimited(r) ==
  IF <<"api_retry", r>> \in wrote THEN "success" ELSE "rate_limited"

ExitOf(r) ==
  CASE Scenario(r) = "rate_limited" -> rateLimited(r)
    [] Scenario(r) = "crash"        -> "crashed"
    [] Scenario(r) = "timeout"      -> "timeout"
    [] OTHER                        -> Reported[Scenario(r)]

MockExecute(r) ==
  /\ JobAt(r, "execute")
  /\ JobGoes(r, [jobOf[r] EXCEPT !.at = "settle", !.exit = ExitOf(r)])
  /\ wrote' = IF ExitOf(r) = "rate_limited" THEN wrote \cup {<<"api_retry", r>>} ELSE wrote
  /\ UNCHANGED <<show, pool, slots, paused, rowOf, stopped, moved>>

-----------------------------------------------------------------------------
\* The exit: the report is applied, or the exit status is mapped.

\* A guarded finalize that carries the report's outcome and its effect.
ReportWritten(r, st, o, effect) ==
  LET flips == rowOf[r].status \in Active
  IN  /\ rowOf' = [rowOf EXCEPT ![r].status = FinalizeStatus(@, st),
                                 ![r].outcome = IF flips THEN o ELSE @]
      /\ wrote' = IF flips THEN wrote \cup {<<x, r>> : x \in effect} ELSE wrote

\* setupApply.acceptTeamReport: agents, end of the run and review task at once, or
\* `invalid`, and the run fails: the mock cannot repair its proposal.
SettleTeam(r) ==
  /\ JobAt(r, "settle") /\ jobOf[r].exit = "team"
  /\ IF Scenario(r) = "team" THEN ReportWritten(r, "succeeded", "team", {"agents", "review"})
     ELSE RowWritten(r, FinalizeStatus(rowOf[r].status, "failed")) /\ UNCHANGED wrote
  /\ GoesTo(r, "done")
  /\ UNCHANGED <<show, pool, slots, paused, stopped, moved>>

SettleReport(r) ==
  LET o == jobOf[r].exit
  IN  /\ JobAt(r, "settle") /\ o \in ReportOutcome \ {"team"}
      /\ ReportWritten(r, ReportTerminalStatus(o), o, IF o = "needs_human" THEN {"human_task"} ELSE {})
      /\ GoesTo(r, "done")
      /\ UNCHANGED <<show, pool, slots, paused, stopped, moved>>

SettleExit(r) ==
  LET action == MapExitAction(jobOf[r].exit, jobOf[r].made, show.runs[r].attempts)
  IN  /\ JobAt(r, "settle") /\ jobOf[r].exit \in ExitStatus
      /\ \/ action = "rate_limit" /\ RateLimit(r) /\ UNCHANGED rowOf
         \/ /\ action = "retry" /\ RowWritten(r, MarkQueuedForRetry(rowOf[r].status))
            /\ JobGoes(r, [Fresh EXCEPT !.made = jobOf[r].made + 1]) /\ UNCHANGED paused
         \/ /\ action \in Status /\ RowWritten(r, FinalizeStatus(rowOf[r].status, action))
            /\ GoesTo(r, "done") /\ UNCHANGED paused
      /\ UNCHANGED <<show, pool, slots, wrote, stopped, moved>>

-----------------------------------------------------------------------------
\* The operator.

CancelOne(r) ==
  /\ show.cancels > 0 /\ rowOf[r].status = "running"
  /\ show' = [show EXCEPT !.cancels = @ - 1]
  /\ RowWritten(r, CancelRun(rowOf[r].status)) /\ stopped' = stopped \cup {r}
  /\ UNCHANGED <<pool, slots, paused, jobOf, wrote, moved>>

CancelEvery ==
  LET flipped == {r \in MockIds : CancelAllRun(rowOf[r].status) # rowOf[r].status}
  IN  /\ show.cancels > 0 /\ flipped # {}
      /\ show' = [show EXCEPT !.cancels = @ - 1]
      /\ rowOf' = [r \in MockIds |-> [rowOf[r] EXCEPT !.status = CancelAllRun(@)]]
      /\ stopped' = stopped \cup flipped
      /\ UNCHANGED <<pool, slots, paused, jobOf, wrote, moved>>

\* PUT executors/:id replaces type, limit and config: a mock profile has no model.  A
\* profile is switched on and off in its row.
Switched(p) == [pool[p] EXCEPT !.enabled = ~@]
Replaced(p, n, m) ==
  [pool[p] EXCEPT !.type = IF m = NoModel THEN "mock" ELSE "claude_cli", !.max = n, !.model = m]

\* The runs of a profile that are past the gate's first query, or run already.
Judged(p) == {r \in MockIds : ProfileIn(r) = p /\ (rowOf[r].status = "running" \/ jobOf[r].at \in {"count", "models", "start"})}

EditProfile(p, profile) ==
  /\ show.edits > 0 /\ profile # pool[p]
  /\ show' = [show EXCEPT !.edits = @ - 1] /\ pool' = [pool EXCEPT ![p] = profile]
  /\ moved' = IF profile.model = pool[p].model THEN moved ELSE moved \cup ({profile.model} \X Judged(p))
  /\ UNCHANGED <<slots, paused, rowOf, jobOf, wrote, stopped>>

ProcessStep(r) ==
  \/ TakeJob(r) \/ GateReadsProfile(r) \/ GateCountsProfile(r) \/ GateCountsModel(r)
  \/ markRunning(r) \/ MockExecute(r) \/ SettleTeam(r) \/ SettleReport(r) \/ SettleExit(r)

MockNext ==
  \/ \E r \in MockIds : ProcessStep(r) \/ CancelOne(r)
  \/ CancelEvery \/ LimitOver \/ applyExecutorConcurrency
  \/ \E p \in DOMAIN pool : \/ EditProfile(p, Switched(p))
                           \/ \E n \in 1..2, m \in Models : EditProfile(p, Replaced(p, n, m))

-----------------------------------------------------------------------------
\* The status a scenario stands for, as the tests that use it expect.
Promised ==
  [success |-> "succeeded", delay |-> "succeeded", rate_limited |-> "succeeded", routed |-> "succeeded",
   team |-> "succeeded", failure |-> "failed", crash |-> "failed", team_invalid |-> "failed",
   needs_human |-> "awaiting_human", timeout |-> "timed_out"]

\* Whatever held it, retried it or raced with it, a job that is done leaves its run
\* as its scenario says, with the attempts, task and team that belong to it: a hold
\* at the gate and a rate limit cost no attempt. A cancel, once written, stays, and
\* nothing is created for a run that was cancelled first.
ScenarioKept ==
  \A r \in MockIds : JobAt(r, "done") =>
    /\ rowOf[r].status = IF r \in stopped THEN "cancelled" ELSE Promised[Scenario(r)]
    /\ r \notin stopped => rowOf[r].attempt = IF Scenario(r) = "crash" THEN show.runs[r].attempts ELSE 1
    /\ <<"human_task", r>> \in wrote <=> rowOf[r].status = "awaiting_human"
    /\ <<"agents", r>> \in wrote <=> rowOf[r].outcome = "team"
    /\ r \in stopped => rowOf[r].outcome = "none"

\* The runs of all the profiles of a model overshoot its cap by at most the slots
\* that passed the gate together, as executor-gate.ts promises of it, also when a
\* rate limit has left rows running without a slot and while the slots and the
\* profiles are edited: over the cap are only runs that an edit has moved there,
\* and they count for the others until they are judged again.
ModelCapBounded ==
  \A m \in DOMAIN show.caps :
    Cardinality({r \in RunningIn(ProfilesOf(m)) : <<m, r>> \notin moved}) <= show.caps[m] - 1 + slots.peak

\* The harness is deterministic and the gate holds.
MockRunsKept == ScenarioKept /\ ModelCapBounded
=============================================================================
