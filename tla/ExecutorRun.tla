----------------------------- MODULE ExecutorRun -----------------------------
(***************************************************************************)
(* ClaudeCliExecutor.run(): resolve the scope, refresh the shared clones,  *)
(* choose the start of every repository, add the worktrees (all or none),  *)
(* bootstrap, write the tool configuration and the wrapper, spawn the CLI, *)
(* settle, clean up.  The processor calls it again for the same run after  *)
(* a crash (an attempt is spent) and after a rate limit (none is spent).   *)
(*                                                                         *)
(* Runs share one clone per repository and do not lock it: every look at a *)
(* clone and every change of it is a step.  Clones rot between runs, git   *)
(* and the database fail, branches disappear from origin, and the abort    *)
(* signal fires at any moment.  A step that fails after the signal has     *)
(* fired ends the run with the abort's own outcome.                        *)
(***************************************************************************)
EXTENDS AgentProcess, StartPlan, FiniteSets

CONSTANTS
  Repos,        \* repositories of the workspace
  Tasks,        \* the tasks the runs may have together: functions from Runs
  Conflicts,    \* sets of branches that do not merge
  KeepFailed,   \* keepFailedWorktrees
  MaxAttempts,  \* max_attempts of the agent
  Abortable,    \* runs that are cancelled or time out
  MaxTries,     \* bound: calls of run() for each run
  MaxFaults,    \* bound: steps that fail, clones that rot, branches that vanish
  Losable       \* <<repository, branch>>: what may disappear from origin

AllTasks == UNION {Range(t) : t \in Tasks}

AllBranches ==
  UNION {{e.branch : e \in ToSet(rep)} :
         rep \in UNION {{t.prefer} \cup ToSet(t.own)
                          \cup UNION {ToSet(b.reports) : b \in ToSet(t.blockers)}
                        : t \in AllTasks}}

ASSUME ExecutorAssumption ==
  /\ KeepFailed \in BOOLEAN /\ MaxAttempts \in Nat /\ MaxTries \in [Runs -> Nat]
  /\ Abortable \subseteq Runs
  /\ MaxFaults \in Nat /\ Losable \subseteq Repos \X AllBranches

EntryType   == [repo : STRING, branch : STRING \ {None}]
BlockerType == [key : STRING, done : BOOLEAN, observed : BOOLEAN, reports : Seq(Seq(EntryType))]
TaskType ==
  [kind : {"ticket", "setup", "triage"}, declared : Seq(Repos), names : SUBSET STRING,
   scoping : BOOLEAN, comps : SUBSET STRING, prefer : Seq(EntryType),
   own : Seq(Seq(EntryType)), blockers : Seq(BlockerType), cli : SUBSET Habits]

\* A ticket is named once among the blockers.
ASSUME TaskAssumption ==
  /\ Tasks \subseteq [Runs -> TaskType]
  /\ \A t \in Tasks, r \in Runs :
       \A i, j \in 1..Len(t[r].blockers) : t[r].blockers[i].key = t[r].blockers[j].key => i = j

VARIABLES
  task,     \* the task of each run
  pc,       \* the step of run() it is at
  at,       \* the repository it is at, an index
  try,      \* calls of run() so far
  spent,    \* attempts consumed
  outcome,  \* what run() returned; "threw"; "unplaced": crashed for want of a scratch directory
  want,     \* the branches each worktree is made of, chosen by the plan
  trees,    \* per repository: the try that has added the worktree on disk, or 0
  token,    \* the tool configuration, with the run token, is on disk
  told,     \* timeline events about blockers
  cache,    \* the shared clones
  origin,   \* the branches on each remote
  faults    \* what has gone wrong around the runs so far

wsVars   == <<task, pc, at, try, spent, outcome, want, trees, token, told>>
repoVars == <<cache, origin, faults>>
vars == <<wsVars, repoVars, signal, proc>>

NoCache == [state |-> "absent", by |-> None, refs |-> {}]

Steps == {"idle", "config", "scratch", "cache", "rm", "clone", "cloning", "fetch", "plan",
          "add", "record", "boot", "held", "files", "spawn", "run", "undo", "returned"}

TypeOK ==
  /\ ProcTypeOK
  /\ task \in Tasks
  /\ pc \in [Runs -> Steps] /\ at \in [Runs -> Nat]
  /\ \A r \in Runs : try[r] \in 0..MaxTries[r]
  /\ spent \in [Runs -> 0..MaxAttempts]
  /\ outcome \in [Runs -> ExitStatus \cup {"none", "parked", "threw", "unplaced"}]
  /\ \A r \in Runs : trees[r] \in [Repos -> 0..try[r]]
  /\ token \in [Runs -> BOOLEAN]
  /\ cache \in [Repos -> [state : {"absent", "cloning", "ready", "skeleton", "gutted"},
                          by : Runs \cup {None}, refs : SUBSET AllBranches]]
  /\ origin \in [Repos -> SUBSET AllBranches]
  /\ faults \in 0..MaxFaults

NoTrees == [repo \in Repos |-> 0]
NoPlan  == [repo \in Repos |-> {}]

Init ==
  /\ ProcInit
  /\ task \in Tasks
  /\ pc = [r \in Runs |-> "idle"] /\ at = [r \in Runs |-> 1]
  /\ try = [r \in Runs |-> 0] /\ spent = [r \in Runs |-> 0]
  /\ outcome = [r \in Runs |-> "none"]
  /\ want = [r \in Runs |-> NoPlan] /\ trees = [r \in Runs |-> NoTrees]
  /\ token = [r \in Runs |-> FALSE] /\ told = [r \in Runs |-> {}]
  /\ origin = [repo \in Repos |-> AllBranches]
  /\ cache = [repo \in Repos |-> NoCache]
  /\ faults = 0

-----------------------------------------------------------------------------
Repo(r)    == Mounted(task[r])[at[r]]
Aborted(r) == signal[r] # "none"
Goto(r, s) == pc' = [pc EXCEPT ![r] = s]

\* One more failing step; a git operation also fails because of the abort.
Fault == faults < MaxFaults /\ faults' = faults + 1
NoFault == UNCHANGED faults
FaultOrAbort(r) == IF Aborted(r) THEN NoFault ELSE Fault

\* abortedDuringPrepare, or a crash.
Failed(r) == IF Aborted(r) THEN signal[r] ELSE "crashed"

Return(r, status) ==
  /\ outcome' = [outcome EXCEPT ![r] = status]
  /\ Goto(r, "returned")

\* Every step of the preparation but the ones that touch these variables.
Keeps == UNCHANGED <<task, try, spent, signal, origin>>
KeepsPlan == UNCHANGED <<want, trees, token, told, proc>>

-----------------------------------------------------------------------------
(* The processor.                                                          *)

Begin(r) ==
  /\ pc[r] = "idle"
  /\ Goto(r, "config") /\ try' = [try EXCEPT ![r] = 1]
  /\ UNCHANGED <<task, at, spent, outcome, want, trees, token, told, repoVars, signal, proc>>

\* The next call of run() for the same run, with a signal of its own.
Again(r) ==
  /\ pc[r] = "returned" /\ try[r] < MaxTries[r]
  /\ \/ outcome[r] = "rate_limited" /\ UNCHANGED spent
     \/ /\ outcome[r] \in {"crashed", "threw", "unplaced"} /\ spent[r] + 1 < MaxAttempts
        /\ spent' = [spent EXCEPT ![r] = @ + 1]
  /\ Goto(r, "config") /\ try' = [try EXCEPT ![r] = @ + 1]
  /\ at' = [at EXCEPT ![r] = 1] /\ outcome' = [outcome EXCEPT ![r] = "none"]
  /\ want' = [want EXCEPT ![r] = NoPlan] /\ told' = [told EXCEPT ![r] = {}]
  /\ signal' = [signal EXCEPT ![r] = "none"] /\ proc' = [proc EXCEPT ![r] = NoProcess]
  /\ UNCHANGED <<task, trees, token, repoVars>>

\* The timeout timer and the cancel poll; the timers stop when run() returns.
Abort(r, why) ==
  /\ r \in Abortable /\ pc[r] \notin {"idle", "returned"} /\ ~Aborted(r)
  /\ signal' = [signal EXCEPT ![r] = why]
  /\ proc' = [proc EXCEPT ![r] = OnAbort(@, why)]
  /\ UNCHANGED <<wsVars, repoVars>>

-----------------------------------------------------------------------------
(* Preparation.                                                            *)

Config(r) ==
  LET scope == Scope(task[r]) IN
  /\ pc[r] = "config"
  /\ \/ scope.kind = "crashed" /\ Return(r, "threw")
     \/ scope.kind = "parked" /\ Return(r, "parked")
     \/ /\ scope.kind = "resolved" /\ Aborted(r)
        /\ Return(r, signal[r])
     \/ /\ scope.kind = "resolved" /\ ~Aborted(r)
        /\ Goto(r, IF scope.repos = <<>> THEN "scratch" ELSE "cache") /\ UNCHANGED outcome
  /\ NoFault /\ Keeps /\ KeepsPlan /\ UNCHANGED <<at, cache>>

\* mkdtemp of a run without repositories; when it fails the signal is not looked at.
Scratch(r) ==
  /\ pc[r] = "scratch"
  /\ \/ Goto(r, "files") /\ NoFault /\ UNCHANGED outcome
     \/ Fault /\ Return(r, "unplaced")
  /\ Keeps /\ KeepsPlan /\ UNCHANGED <<at, cache>>

\* isHealthyRepo answers either way for a clone another run is still making.
CacheCheck(r) ==
  /\ pc[r] = "cache"
  /\ \/ Aborted(r) /\ Return(r, signal[r])
     \/ /\ ~Aborted(r) /\ cache[Repo(r)].state \in {"skeleton", "cloning"}
        /\ Goto(r, "rm") /\ UNCHANGED outcome
     \/ /\ ~Aborted(r) /\ cache[Repo(r)].state # "skeleton"
        /\ Goto(r, IF cache[Repo(r)].state = "absent" THEN "clone" ELSE "fetch")
        /\ UNCHANGED outcome
  /\ NoFault /\ Keeps /\ KeepsPlan /\ UNCHANGED <<at, cache>>

CacheRemove(r) ==
  /\ pc[r] = "rm"
  /\ cache' = [cache EXCEPT ![Repo(r)] = NoCache]
  /\ Goto(r, "clone")
  /\ NoFault /\ Keeps /\ KeepsPlan /\ UNCHANGED <<at, outcome>>

\* ensureCache has returned: the next repository, or the plan.
Advance(r, loop, then) ==
  IF at[r] < Len(Mounted(task[r]))
  THEN at' = [at EXCEPT ![r] = @ + 1] /\ Goto(r, loop)
  ELSE at' = [at EXCEPT ![r] = 1] /\ Goto(r, then)

CacheRefreshed(r, c) ==
  /\ cache' = [cache EXCEPT ![Repo(r)] = c]
  /\ Advance(r, "cache", "plan") /\ UNCHANGED outcome

\* A fetch that fails discards the clone only if HEAD is gone.
Fetch(r) ==
  LET c == cache[Repo(r)] IN
  /\ pc[r] = "fetch"
  /\ \/ /\ ~Aborted(r) /\ c.state \in {"ready", "cloning"}
        /\ CacheRefreshed(r, [c EXCEPT !.refs = origin[Repo(r)]]) /\ NoFault
     \/ /\ c.state \in {"ready", "cloning"} \/ Aborted(r)
        /\ Return(r, Failed(r)) /\ FaultOrAbort(r) /\ UNCHANGED <<at, cache>>
     \/ /\ ~Aborted(r) /\ c.state # "ready"
        /\ cache' = [cache EXCEPT ![Repo(r)] = NoCache]
        /\ Goto(r, "clone") /\ NoFault /\ UNCHANGED <<at, outcome>>
  /\ Keeps /\ KeepsPlan

\* git refuses to clone into a directory that is not empty.
CloneStarts(r) ==
  /\ pc[r] = "clone"
  /\ \/ /\ cache[Repo(r)].state = "absent" /\ ~Aborted(r)
        /\ cache' = [cache EXCEPT ![Repo(r)] = [NoCache EXCEPT !.state = "cloning", !.by = r]]
        /\ Goto(r, "cloning") /\ UNCHANGED outcome
     \/ /\ cache[Repo(r)].state # "absent" \/ Aborted(r)
        /\ Return(r, Failed(r)) /\ UNCHANGED cache
  /\ NoFault /\ Keeps /\ KeepsPlan /\ UNCHANGED at

\* A clone that fails, or is killed by the abort, removes what it has made.
CloneEnds(r) ==
  LET mine == cache[Repo(r)].state = "cloning" /\ cache[Repo(r)].by = r IN
  /\ pc[r] = "cloning"
  /\ \/ /\ mine /\ ~Aborted(r) /\ NoFault
        /\ CacheRefreshed(r, [state |-> "ready", by |-> None, refs |-> origin[Repo(r)]])
     \/ /\ IF mine THEN FaultOrAbort(r) ELSE NoFault
        /\ cache' = IF mine THEN [cache EXCEPT ![Repo(r)] = NoCache] ELSE cache
        /\ Return(r, Failed(r)) /\ UNCHANGED at
  /\ Keeps /\ KeepsPlan

\* resolveInheritance: one search for the blockers' statuses, then the plan on
\* the refs the shared clones have now.
Refs == [repo \in Repos |-> cache[repo].refs]

Inherit(r) ==
  /\ pc[r] = "plan"
  /\ \/ Aborted(r) /\ Return(r, signal[r]) /\ NoFault /\ UNCHANGED <<want, told>>
     \/ /\ ~Aborted(r) /\ Blockers(task[r]) # <<>> /\ Fault
        /\ Return(r, "crashed") /\ UNCHANGED <<want, told>>
     \/ /\ ~Aborted(r) /\ NoFault
        /\ want' = [want EXCEPT ![r] = [repo \in Repos |->
             IF repo \in ToSet(Mounted(task[r])) THEN Branches(task[r], repo, Refs[repo]) ELSE {}]]
        /\ told' = [told EXCEPT ![r] = Told(task[r], Refs)]
        /\ Goto(r, "add") /\ UNCHANGED outcome
  /\ Keeps /\ UNCHANGED <<at, cache, trees, token, proc>>

\* The unwind removes every worktree of this try and then the whole parent
\* directory, with what an earlier try may have left there.
Unwind(r, status) ==
  /\ trees' = [trees EXCEPT ![r] = NoTrees]
  /\ Return(r, status) /\ UNCHANGED at

Conflict(r) == \E c \in Conflicts : c \subseteq want[r][Repo(r)]

CanAdd(r) ==
  /\ cache[Repo(r)].state = "ready"
  /\ trees[r][Repo(r)] = 0
  /\ want[r][Repo(r)] \subseteq cache[Repo(r)].refs

\* A mistake: a worktree that is there already is taken over.
TreeReused(r) ==
  /\ ~Aborted(r) /\ cache[Repo(r)].state = "ready" /\ ~Conflict(r)
  /\ trees' = [trees EXCEPT ![r][Repo(r)] = IF @ = 0 THEN try[r] ELSE @]
  /\ Advance(r, "add", "record") /\ UNCHANGED <<outcome, told>>

TreeAdded(r) ==
  /\ ~Aborted(r) /\ CanAdd(r) /\ ~Conflict(r)
  /\ trees' = [trees EXCEPT ![r][Repo(r)] = try[r]]
  /\ Advance(r, "add", "record") /\ UNCHANGED <<outcome, told>>

AddTree(r) ==
  /\ pc[r] = "add"
  /\ \/ /\ Aborted(r) \/ ~CanAdd(r)
        /\ Unwind(r, Failed(r)) /\ UNCHANGED told
     \/ /\ ~Aborted(r) /\ CanAdd(r) /\ Conflict(r)
        /\ Unwind(r, "crashed") /\ told' = [told EXCEPT ![r] = @ \cup {<<"conflict", Repo(r)>>}]
     \/ TreeAdded(r)
  /\ NoFault /\ Keeps /\ UNCHANGED <<cache, want, token, proc>>

\* recordStartRefEvent, in the try of the preparation, and the update of
\* runs.worktree_path, outside of every try: no clean-up follows either failure.
Record(r) ==
  /\ pc[r] = "record"
  /\ \/ Goto(r, "boot") /\ NoFault /\ UNCHANGED outcome
     \/ Fault /\ Return(r, Failed(r))
     \/ Fault /\ Return(r, "threw")
  /\ Keeps /\ KeepsPlan /\ UNCHANGED <<at, cache>>

\* The second try: what fails from here on is cleaned up.
Undo(r, status) ==
  /\ outcome' = [outcome EXCEPT ![r] = status]
  /\ Goto(r, "undo")

Bootstrap(r) ==
  /\ pc[r] = "boot"
  /\ \/ Goto(r, "files") /\ NoFault /\ ~Aborted(r) /\ UNCHANGED outcome
     \/ FaultOrAbort(r) /\ Undo(r, Failed(r))
     \/ Fault /\ Goto(r, "held") /\ UNCHANGED outcome
  /\ Keeps /\ KeepsPlan /\ UNCHANGED <<at, cache>>

\* A descendant of the command that has left its group holds the pipes: neither
\* the timeout nor the abort, which kill the group, brings the 'close' that
\* runBootstrap waits for.  It comes when that descendant ends, if it ever does.
BootstrapReleased(r) ==
  /\ pc[r] = "held"
  /\ \/ Goto(r, "files") /\ ~Aborted(r) /\ UNCHANGED outcome
     \/ Undo(r, Failed(r))
  /\ NoFault /\ Keeps /\ KeepsPlan /\ UNCHANGED <<at, cache>>

\* writeMcpConfig, then the wrapper text; either may fail.
WriteFiles(r) ==
  /\ pc[r] = "files"
  /\ \/ Goto(r, "spawn") /\ NoFault /\ token' = [token EXCEPT ![r] = TRUE] /\ UNCHANGED outcome
     \/ Fault /\ Undo(r, Failed(r)) /\ token' \in {token, [token EXCEPT ![r] = TRUE]}
  /\ Keeps /\ UNCHANGED <<at, cache, want, trees, told, proc>>

\* The last look at the signal and the spawn are one step.
Spawn(r) ==
  /\ pc[r] = "spawn"
  /\ \/ Aborted(r) /\ Undo(r, signal[r]) /\ NoFault /\ UNCHANGED proc
     \/ /\ ~Aborted(r) /\ NoFault /\ proc' = [proc EXCEPT ![r] = Spawned(@, task[r].cli)]
        /\ Goto(r, "run") /\ UNCHANGED outcome
     \/ /\ ~Aborted(r) /\ Fault /\ proc' = [proc EXCEPT ![r] = SpawnFailed(@)]
        /\ Goto(r, "run") /\ UNCHANGED outcome
  /\ Keeps /\ UNCHANGED <<at, cache, want, trees, token, told>>

Settled(r) ==
  /\ pc[r] = "run" /\ proc[r].result # "none"
  /\ Undo(r, proc[r].result)
  /\ NoFault /\ Keeps /\ KeepsPlan /\ UNCHANGED <<at, cache>>

\* runFailed.
RunFailed(r) == outcome[r] # "completed" \/ ~proc[r].report

Unlink(r) == token' = [token EXCEPT ![r] = FALSE]

\* The configuration goes first, then the workspace unless a failed run keeps
\* it; a clean-up that fails is logged.  A preparation that failed looks at the
\* signal after the clean-up.
CleanUp(r) ==
  /\ pc[r] = "undo"
  /\ Unlink(r)
  /\ \/ /\ trees' = IF KeepFailed /\ RunFailed(r) THEN trees ELSE [trees EXCEPT ![r] = NoTrees]
        /\ NoFault
     \/ Fault /\ UNCHANGED trees
  /\ Return(r, IF proc[r].stage = "none" /\ Aborted(r) THEN signal[r] ELSE outcome[r])
  /\ Keeps /\ UNCHANGED <<at, cache, want, told, proc>>

-----------------------------------------------------------------------------
(* The surroundings.                                                       *)

\* The clone loses its HEAD and refs, or its objects.
Rot(repo) ==
  /\ Fault /\ cache[repo].state = "ready"
  /\ \E s \in {"skeleton", "gutted"} : cache' = [cache EXCEPT ![repo] = [NoCache EXCEPT !.state = s]]
  /\ UNCHANGED <<wsVars, origin, signal, proc>>

\* A pull request is merged and its branch deleted.
BranchGone(repo, b) ==
  /\ Fault /\ b \in origin[repo]
  /\ origin' = [origin EXCEPT ![repo] = @ \ {b}]
  /\ UNCHANGED <<wsVars, cache, signal, proc>>

Process(r) == pc[r] = "run" /\ ProcNext(r) /\ UNCHANGED <<wsVars, repoVars>>

RunStep(r) ==
  \/ Config(r) \/ Scratch(r) \/ CacheCheck(r) \/ CacheRemove(r) \/ Fetch(r)
  \/ CloneStarts(r) \/ CloneEnds(r) \/ Inherit(r) \/ AddTree(r) \/ Record(r)
  \/ Bootstrap(r) \/ WriteFiles(r) \/ Spawn(r) \/ Settled(r) \/ CleanUp(r)

Next ==
  \/ \E r \in Runs :
       \/ Begin(r) \/ Again(r) \/ RunStep(r) \/ BootstrapReleased(r) \/ Process(r)
       \/ \E why \in {"timeout", "cancelled"} : Abort(r, why)
  \/ \E repo \in Repos : Rot(repo)
  \/ \E l \in Losable : BranchGone(l[1], l[2])

Spec == Init /\ [][Next]_vars

\* Steps of run() are promises that settle: git carries a hang-breaker, the
\* group of the bootstrap is killed by a timeout, and the timeout timer of the
\* processor always fires.  Nothing is assumed of a bootstrap that is held, of
\* the CLI, or of the descendants either of them leaves behind.
Fairness ==
  \A r \in Abortable :
    /\ WF_vars(RunStep(r)) /\ WF_vars(Abort(r, "timeout"))
    /\ WF_vars(InsertEnds(r) /\ UNCHANGED <<wsVars, repoVars>>)
    /\ WF_vars(KillEnds(r) /\ UNCHANGED <<wsVars, repoVars>>)
    /\ WF_vars(FallbackFires(r) /\ UNCHANGED <<wsVars, repoVars>>)
    /\ WF_vars(Close(r) /\ UNCHANGED <<wsVars, repoVars>>)

FairSpec == Spec /\ Fairness
-----------------------------------------------------------------------------
(* Properties.                                                             *)

\* Only worktrees added by this very call of run() are handed to the agent:
\* after a failed clean-up, a fault after the preparation or a kept workspace,
\* an older tree is never worked in (addRepoWorktree, prepareAll).
FreshTrees ==
  \A r \in Runs : pc[r] = "run" =>
    \A repo \in ToSet(Mounted(task[r])) : trees[r][repo] = try[r]

\* No work of an open blocker is missing from the workspace without a word:
\* every branch its newest report names is part of the start of its repository,
\* unless the ticket has a branch of its own there, or the timeline says that it
\* is lost or not mounted (FR-008, FR-010).  A branch that two blockers report
\* is accounted for once, for the first of them.
OpenBlockersAccounted ==
  \A r \in Runs : pc[r] = "run" =>
    \A i \in 1..Len(Blockers(task[r])) :
      LET b == Blockers(task[r])[i] IN
      b.done \/ <<"lost", b.key>> \in told[r] \/
      /\ WorkOf(b) # <<>>
      /\ \A e \in ToSet(WorkOf(b)) :
           LET repo == RepoOf(e, Mounted(task[r])) IN
           \/ repo = None /\ <<"unmounted", b.key>> \in told[r]
           \/ /\ repo # None
              /\ \/ e.branch \in want[r][repo]
                 \/ \E o \in ToSet(PriorWork(task[r])) : RepoOf(o, Mounted(task[r])) = repo
                 \/ \E j \in 1..(i-1) : \E f \in ToSet(WorkOf(Blockers(task[r])[j])) :
                      f.branch = e.branch /\ RepoOf(f, Mounted(task[r])) = repo

\* A branch an earlier run of the ticket reported is continued or the call
\* fails: the default branch never stands in for it (addRepoWorktree).
OwnWorkContinued ==
  \A r \in Runs : pc[r] = "run" /\ task[r].kind = "ticket" =>
    \A e \in ToSet(PriorWork(task[r])) :
      LET repo == RepoOf(e, Mounted(task[r])) IN
        repo # None => \E f \in ToSet(PriorWork(task[r])) :
                         RepoOf(f, Mounted(task[r])) = repo /\ want[r][repo] = {f.branch}

\* An abort during the preparation is never reported as a crash (which would
\* spend an attempt) unless the scratch directory could not be made, a cancel that reaches the process wins over everything,
\* and a rate limit that was parsed is not turned into a timeout by a late
\* watchdog (run, handleClose).
OutcomeHonest ==
  \A r \in Runs : pc[r] = "returned" =>
    /\ Aborted(r) /\ proc[r].stage = "none" /\ outcome[r] \notin {"threw", "parked", "unplaced"}
         => outcome[r] = signal[r]
    /\ proc[r].close = "done" /\ proc[r].abort = "cancelled" => outcome[r] = "cancelled"
    /\ proc[r].close = "done" /\ proc[r].abort # "cancelled" /\ proc[r].rate
         => outcome[r] = "rate_limited"

\* The file with the run token does not outlive the call of run() that wrote
\* it, on any of its exits (run, writeMcpConfig).
TokenRemoved ==
  \A r \in Runs : pc[r] = "returned" => ~token[r]

\* run() returns, whatever the CLI and the descendants it leaves do, once its
\* timeout has fired (terminateAndSettle, the settlement fallback).  The one
\* exception is a descendant of the bootstrap that never lets go of the pipes:
\* runBootstrap has no such fallback, and the call hangs there for ever.
RunReturns ==
  \A r \in Abortable :
    <>[](pc[r] = "held") \/ (pc[r] = "config" ~> pc[r] = "returned")

\* Every run starts where it must: on its own earlier work if it has any that
\* survives, else on all of its open blockers' branches, and what it could not
\* start from is said.
StartPoints == OpenBlockersAccounted /\ OwnWorkContinued

\* A call of run() ends with the outcome that happened, whatever arrived in which
\* order, and leaves no run token behind.
ExitClean == OutcomeHonest /\ TokenRemoved

=============================================================================
