----------------------------- MODULE TicketFlow -----------------------------
(***************************************************************************)
(* How an issue on the board becomes a run: the poller of the reconcile    *)
(* pass (search window, status diff, high-water mark, sprint rescan), the  *)
(* dependency gate, the release of waiting tickets by the reconcile pass   *)
(* and by the fast path after a blocker's success, and the waiting states  *)
(* the dashboard shows.                                                    *)
(*                                                                         *)
(* People and finished runs move the issues at any time.  The reconcile    *)
(* pass runs in the worker and the fast path in whichever process has      *)
(* finished the blocker, so a release works on a cache and on a fetch that *)
(* may both be old when it acts: candidates, fetched issues and probes     *)
(* are steps of their own.  One step of a pass may fail; the others go on. *)
(*                                                                         *)
(* The workspace has one enabled agent, with trigger status "ready",       *)
(* status_running "progress" and failure status "backlog".  A kanban board *)
(* is a board whose sprint set never changes.  Tickets are numbered, and   *)
(* the number orders them as jira_key does.                                *)
(***************************************************************************)
EXTENDS Integers, FiniteSets, FiniteSetsExt

CONSTANTS
  Tickets,         \* a set of positive numbers
  Links,           \* <<t, b>>: t "is blocked by" b
  SprintOf,        \* the sprint of each issue
  Priority,        \* priority id of each issue, 0 for none
  ReleaseStatus,   \* dependency_release_status, or "none"
  Overlap,         \* HWM_OVERLAP_MS, in ticks of the board's clock
  InitialBoards,   \* statuses the issues may start with
  InitialSprints,  \* the sprints active at the start
  SprintSets,      \* sets of sprints that may be active later
  MoveTo,          \* statuses people move issues to
  MaxClock,        \* bound: changes on the board
  MaxSprints,      \* bound: changes of the sprint set
  MaxFaults        \* bound: steps that fail

Status == {"backlog", "ready", "progress", "review", "done", "rejected"}
Trigger == "ready"
Unknown == "unknown"

ASSUME TicketsAssumption == IsFiniteSet(Tickets) /\ Tickets \subseteq Nat \ {0}
ASSUME LinksAssumption == Links \subseteq Tickets \X Tickets
ASSUME PriorityAssumption == Priority \in [Tickets -> Nat]
ASSUME ReleaseAssumption == ReleaseStatus \in Status \cup {"none"}
ASSUME BoardAssumption ==
  /\ InitialBoards \subseteq [Tickets -> Status] /\ MoveTo \subseteq Status
  /\ SprintSets \cup {InitialSprints} \subseteq SUBSET {SprintOf[t] : t \in Tickets}
ASSUME FlowBounds ==
  Overlap \in Nat /\ MaxClock \in Nat /\ MaxSprints \in Nat /\ MaxFaults \in Nat

Sprints == {SprintOf[t] : t \in Tickets}

VARIABLES
  board,      \* Jira: status of each issue
  updated,    \* Jira: `updated` of each issue
  clock,      \* the last `updated` handed out
  sprints,    \* Jira: the active sprints
  switches,   \* changes of the sprint set so far
  seen,       \* tickets.last_seen_status, Unknown before the first diff
  chained,    \* tickets whose blocked_by has been observed
  waiting,    \* tickets.blocked_state, "none" when null
  hwm,        \* reconcile.high_water_mark, 0 when absent
  known,      \* reconcile.active_sprint_ids, with a flag: ever written
  rows,       \* statuses among the runs of (ticket, agent)
  poll,       \* the poller's search in progress
  pass,       \* the release passes: of the reconcile job and of the fast path
  faults,     \* steps that have failed so far
  everClear,  \* history: tickets whose gate has been clear at some time
  missed      \* history: tickets whose last diff has failed

jira    == <<board, updated, clock, sprints, switches>>
tickets == <<seen, chained, waiting>>
state   == <<hwm, known>>
history == <<everClear, missed>>
vars == <<jira, tickets, state, rows, poll, pass, faults, history>>

RunStatus == {"active", "succeeded", "failed", "cancelled"}
Waiting   == {"waiting", "cycle", "out_of_scope", "dead_end"}
Passes    == {"reconcile", "fast"}

NoIssues == [t \in Tickets |-> Unknown]

\* todo: issues found and not yet diffed; newest: the largest `updated` found.
PollIdle == [pc |-> "idle", todo |-> {}, issues |-> NoIssues, newest |-> 0, sprints |-> {}]

\* todo: candidates not yet looked at; ticket: the one being released;
\* blocked: still-blocked tickets; dead, scope: what the two probes returned.
PassIdle == [pc |-> "idle", todo |-> {}, issues |-> NoIssues,
             ticket |-> 0, blocked |-> {}, dead |-> {}, scope |-> {},
             settled |-> {}]

PassStep == {"idle", "candidates", "fetch", "loop", "clear", "probe", "mark"}

TypeOK ==
  /\ board \in [Tickets -> Status]
  /\ updated \in [Tickets -> 0..MaxClock] /\ clock \in 0..MaxClock
  /\ sprints \subseteq Sprints /\ switches \in 0..MaxSprints
  /\ seen \in [Tickets -> Status \cup {Unknown}]
  /\ chained \subseteq Tickets
  /\ waiting \in [Tickets -> Waiting \cup {"none"}]
  /\ hwm \in 0..MaxClock
  /\ known \in [written : BOOLEAN, ids : SUBSET Sprints]
  /\ rows \in [Tickets -> SUBSET RunStatus]
  /\ poll \in [pc : {"idle", "diff"}, todo : SUBSET Tickets,
               issues : [Tickets -> Status \cup {Unknown}],
               newest : 0..MaxClock, sprints : SUBSET Sprints]
  /\ pass \in [Passes ->
       [pc : PassStep, todo : SUBSET Tickets,
        issues : [Tickets -> Status \cup {Unknown}], ticket : Tickets \cup {0},
        blocked : SUBSET Tickets, dead : SUBSET Tickets, scope : SUBSET Tickets,
        settled : SUBSET Tickets]]
  /\ faults \in 0..MaxFaults
  /\ everClear \subseteq Tickets /\ missed \subseteq Tickets

-----------------------------------------------------------------------------
(* The dependency gate, on the statuses the fetched issue carries.         *)

BlockedBy(t) == {b \in Tickets : <<t, b>> \in Links}

BlockingKeysResolved(t, issues) ==
  {b \in BlockedBy(t) : issues[b] \notin {"done", "rejected", ReleaseStatus}}

\* blockingLinks: blockers neither in the done category nor in the release status.
BlockingKeys(t, issues) ==
  {b \in BlockedBy(t) : issues[b] # "done" /\ issues[b] # ReleaseStatus}

Clear(t, issues) == BlockingKeys(t, issues) = {}

\* What the dependency gate promises, in terms of the board alone.
Unblocked(t) == \A b \in BlockedBy(t) : board[b] \in {"done", ReleaseStatus}

\* compareReleaseOrder: priority first, none last, then the key.
Before(t, u) ==
  \/ Priority[t] # Priority[u] /\ Priority[t] # 0
     /\ (Priority[u] = 0 \/ Priority[t] < Priority[u])
  \/ Priority[t] = Priority[u] /\ t < u

First(S) == CHOOSE t \in S : \A u \in S \ {t} : Before(t, u)

InSprints(t, ids) == SprintOf[t] \in ids

\* Members of a blocked-by cycle inside the waiting set W: t reaches itself.
Successors(W, S) == UNION {BlockedBy(t) \cap W : t \in S}
Reach[n \in Nat] ==
  [S \in SUBSET Tickets, W \in SUBSET Tickets |->
     IF n = 0 THEN S ELSE LET R == Reach[n - 1][S, W] IN R \cup Successors(W, R)]
OnCycle(t, W) == t \in Reach[Cardinality(W)][Successors(W, {t}), W]

-----------------------------------------------------------------------------
Init ==
  /\ board \in InitialBoards
  /\ updated = [t \in Tickets |-> 0] /\ clock = 0
  /\ sprints = InitialSprints /\ switches = 0
  /\ seen = [t \in Tickets |-> Unknown]
  /\ chained = {}
  /\ waiting = [t \in Tickets |-> "none"]
  /\ hwm = 0 /\ known = [written |-> FALSE, ids |-> {}]
  /\ rows = [t \in Tickets |-> {}]
  /\ poll = PollIdle
  /\ pass = [p \in Passes |-> PassIdle]
  /\ faults = 0
  /\ everClear = {t \in Tickets : Unblocked(t)} /\ missed = {}

-----------------------------------------------------------------------------
(* The board.                                                              *)

Move(t, s) ==
  /\ board[t] # s /\ clock < MaxClock
  /\ board' = [board EXCEPT ![t] = s]
  /\ clock' = clock + 1
  /\ updated' = [updated EXCEPT ![t] = clock + 1]
  /\ everClear' = everClear \cup {u \in Tickets : Unblocked(u)'}

HumanMoves(t) ==
  /\ \E s \in MoveTo : Move(t, s)
  /\ UNCHANGED <<sprints, switches, tickets, state, rows, poll, pass, faults, missed>>

\* Starting or closing a sprint touches no issue's `updated`.
SprintSwitch ==
  /\ switches < MaxSprints
  /\ \E s \in SprintSets : s # sprints /\ sprints' = s
  /\ switches' = switches + 1
  /\ UNCHANGED <<board, updated, clock, tickets, state, rows, poll, pass, faults, history>>

-----------------------------------------------------------------------------
(* Runs.                                                                   *)

\* trigger: a second active run of the ticket is refused by the index.
TriggerRun(t) == rows' = [rows EXCEPT ![t] = @ \cup {"active"}]

End(t, s) == rows' = [rows EXCEPT ![t] = (@ \ {"active"}) \cup {s}]

\* A pass remembers which pairs were settled after it read its candidates.
Settle(p, t) == [pass[p] EXCEPT !.settled = @ \cup ({t} \cap pass[p].todo)]

\* onRunStarted: the transition to status_running; its failure is only logged.
RunStarted(t) ==
  /\ "active" \in rows[t] /\ Move(t, "progress")
  /\ UNCHANGED <<sprints, switches, tickets, state, rows, poll, pass, faults, missed>>

\* onWorkerFinished on success: row, board, then releaseDependentsSafely.
RunSucceeds(t) ==
  /\ "active" \in rows[t]
  /\ End(t, "succeeded")
  /\ Move(t, "review")
  /\ pass' = [p \in Passes |->
       IF p = "fast" /\ pass[p].pc = "idle"
       THEN [PassIdle EXCEPT !.pc = "candidates", !.ticket = t]
       ELSE Settle(p, t)]
  /\ UNCHANGED <<sprints, switches, tickets, state, poll, faults, missed>>

\* onWorkerFinished on failure moves the ticket out of the trigger status.
RunFails(t) ==
  /\ "active" \in rows[t]
  /\ End(t, "failed")
  /\ Move(t, "backlog")
  /\ UNCHANGED <<sprints, switches, tickets, state, poll, pass, faults, missed>>

RunCancelled(t) ==
  /\ "active" \in rows[t]
  /\ End(t, "cancelled")
  /\ pass' = [p \in Passes |-> Settle(p, t)]
  /\ UNCHANGED <<jira, tickets, state, poll, faults, history>>

-----------------------------------------------------------------------------
(* The poller: first step of a reconcile pass.                             *)

Rescan == ~known.written \/ known.ids # sprints

\* buildScopeJql with sinceClause: nothing bounds the first run and a rescan.
Window ==
  {t \in Tickets : /\ InSprints(t, sprints)
                   /\ Rescan \/ hwm = 0 \/ updated[t] >= hwm - Overlap}

ToRelease(p) == pass' = [pass EXCEPT !["reconcile"] = [PassIdle EXCEPT !.pc = p]]

ReconcileIdle == poll.pc = "idle" /\ pass["reconcile"].pc = "idle"

\* No active sprint: remember that, and go on to the release.
PollNothing ==
  /\ ReconcileIdle /\ sprints = {}
  /\ known' = IF known.ids # {} THEN [written |-> TRUE, ids |-> {}] ELSE known
  /\ ToRelease("candidates")
  /\ UNCHANGED <<jira, tickets, hwm, rows, poll, faults, history>>

PollSearch ==
  /\ ReconcileIdle /\ sprints # {}
  /\ poll' = [pc |-> "diff", todo |-> Window, issues |-> board, sprints |-> sprints,
              newest |-> IF Window = {} THEN 0 ELSE Max({updated[t] : t \in Window})]
  /\ UNCHANGED <<jira, tickets, state, rows, pass, faults, history>>

\* The issues come in any order; ORDER BY updated is one of them.
NextIssue(t) == poll.pc = "diff" /\ t \in poll.todo

Diffed(t) == poll' = [poll EXCEPT !.todo = @ \ {t}]

\* onStatusChanged: no agent for the status, a blocked ticket, or a trigger.
OnStatusChanged(t) ==
  LET to == poll.issues[t]
  IN  IF to # Trigger
      THEN waiting' = [waiting EXCEPT ![t] = "none"] /\ UNCHANGED rows
      ELSE IF ~Clear(t, poll.issues)
      THEN waiting' = [waiting EXCEPT ![t] = "waiting"] /\ UNCHANGED rows
      ELSE waiting' = [waiting EXCEPT ![t] = "none"] /\ TriggerRun(t)

\* processIssues, one issue: the diff cache advances after the trigger.
Diff(t) ==
  /\ NextIssue(t)
  /\ IF seen[t] # poll.issues[t] THEN OnStatusChanged(t) ELSE UNCHANGED <<waiting, rows>>
  /\ seen' = [seen EXCEPT ![t] = poll.issues[t]]
  /\ chained' = chained \cup {t}
  /\ missed' = missed \ {t}
  /\ Diffed(t)
  /\ UNCHANGED <<jira, state, pass, faults, everClear>>

\* A call of onStatusChanged throws, before or after its writes: logged, and
\* the loop goes on.
DiffFails(t) ==
  /\ NextIssue(t) /\ seen[t] # poll.issues[t] /\ faults < MaxFaults
  /\ \/ UNCHANGED <<waiting, rows>>
     \/ OnStatusChanged(t)
  /\ faults' = faults + 1
  /\ missed' = missed \cup {t}
  /\ Diffed(t)
  /\ UNCHANGED <<jira, seen, chained, state, pass, everClear>>

\* All issues seen: the high-water mark is the newest `updated` among them.
PollDoneNow ==
  /\ poll.pc = "diff" /\ poll.todo = {}
  /\ hwm' = clock
  /\ known' = [written |-> TRUE, ids |-> poll.sprints]
  /\ poll' = PollIdle /\ ToRelease("candidates")
  /\ UNCHANGED <<jira, tickets, rows, faults, history>>

PollDone ==
  /\ poll.pc = "diff" /\ poll.todo = {}
  /\ hwm' = IF poll.newest # 0 THEN poll.newest ELSE hwm
  /\ known' = [written |-> TRUE, ids |-> poll.sprints]
  /\ poll' = PollIdle /\ ToRelease("candidates")
  /\ UNCHANGED <<jira, tickets, rows, faults, history>>

\* The search or an upsert throws: the step ends, no mark is saved.
PollFails ==
  /\ poll.pc = "diff" /\ faults < MaxFaults
  /\ faults' = faults + 1
  /\ poll' = PollIdle /\ ToRelease("candidates")
  /\ UNCHANGED <<jira, tickets, state, rows, history>>

-----------------------------------------------------------------------------
(* The release of waiting tickets, pass p.                                 *)

At(p, pc) == pass[p].pc = pc
Set(p, r) == pass' = [pass EXCEPT ![p] = r]
Released == <<jira, seen, chained, waiting, state, rows, poll, faults, history>>

SettledRows == {"active", "succeeded"}
NeverAgain  == {"active", "succeeded", "cancelled"}

CandidatesIgnoringCancel(p) ==
  {t \in Tickets : /\ seen[t] = Trigger /\ rows[t] \cap SettledRows = {}
                   /\ p = "fast" => t \in chained /\ pass[p].ticket \in BlockedBy(t)}

CandidatesWaiting(p) ==
  {t \in Tickets : /\ seen[t] = Trigger /\ rows[t] \cap NeverAgain = {}
                   /\ waiting[t] = "waiting"
                   /\ p = "fast" => t \in chained /\ pass[p].ticket \in BlockedBy(t)}

\* Pairs in the trigger status without an active, succeeded or cancelled run;
\* the fast path takes the tickets whose cached blocked_by names the blocker.
Candidates(p) ==
  {t \in Tickets : /\ seen[t] = Trigger /\ rows[t] \cap NeverAgain = {}
                   /\ p = "fast" => t \in chained /\ pass[p].ticket \in BlockedBy(t)}

ReadCandidates(p) ==
  /\ At(p, "candidates")
  /\ Set(p, IF Candidates(p) = {} THEN PassIdle
            ELSE [PassIdle EXCEPT !.pc = "fetch", !.todo = Candidates(p)])
  /\ UNCHANGED Released

\* loadScopeFilter and the re-fetch; a candidate out of scope is dropped.
Fetch(p) ==
  /\ At(p, "fetch")
  /\ Set(p, [pass[p] EXCEPT !.pc = "loop", !.issues = board,
               !.todo = {t \in @ : InSprints(t, sprints)}])
  /\ UNCHANGED Released

\* One candidate, in release order: blocked, or triggered.
EvaluateGate(p) ==
  LET t == First(pass[p].todo)
      rest == [pass[p] EXCEPT !.todo = @ \ {t}]
  IN  /\ At(p, "loop") /\ pass[p].todo # {}
      /\ IF Clear(t, pass[p].issues)
         THEN TriggerRun(t) /\ Set(p, [rest EXCEPT !.pc = "clear", !.ticket = t])
         ELSE Set(p, [rest EXCEPT !.blocked = @ \cup {t}]) /\ UNCHANGED rows
      /\ UNCHANGED <<jira, tickets, state, poll, faults, history>>

ClearReleased(p) ==
  /\ At(p, "clear")
  /\ waiting' = [waiting EXCEPT ![pass[p].ticket] = "none"]
  /\ chained' = chained \cup {pass[p].ticket}
  /\ Set(p, [pass[p] EXCEPT !.pc = "loop", !.ticket = 0])
  /\ UNCHANGED <<jira, seen, state, rows, poll, faults, history>>

Blockers(p) == UNION {BlockingKeys(t, pass[p].issues) : t \in pass[p].blocked}

\* classifyWaiting: the two searches on the blockers of the blocked tickets.
\* An issue in "rejected" has a resolution outside the done category.
Probe(p) ==
  /\ At(p, "loop") /\ pass[p].todo = {}
  /\ Set(p, IF pass[p].blocked = {} THEN PassIdle
            ELSE [pass[p] EXCEPT !.pc = "mark", !.todo = pass[p].blocked,
                    !.dead = {b \in Blockers(p) : board[b] = "rejected"},
                    !.scope = {b \in Blockers(p) : InSprints(b, sprints)}])
  /\ UNCHANGED Released

\* cycle > out_of_scope > dead_end > waiting.
StateOf(p, t) ==
  LET blockers == BlockingKeys(t, pass[p].issues)
  IN  IF OnCycle(t, pass[p].blocked) THEN "cycle"
      ELSE IF blockers \ pass[p].scope # {} THEN "out_of_scope"
      ELSE IF blockers \cap pass[p].dead # {} THEN "dead_end" ELSE "waiting"

\* One ticket's row.  The task for an out-of-scope blocker is not kept here.
MarkWaiting(p) ==
  LET t == First(pass[p].todo)
  IN  /\ At(p, "mark")
      /\ waiting' = [waiting EXCEPT ![t] = StateOf(p, t)]
      /\ chained' = chained \cup {t}
      /\ Set(p, IF pass[p].todo = {t} THEN PassIdle ELSE [pass[p] EXCEPT !.todo = @ \ {t}])
      /\ UNCHANGED <<jira, seen, state, rows, poll, faults, history>>

\* A database or Jira call of the release throws, or its process dies.
ReleaseFails(p) ==
  /\ ~At(p, "idle") /\ faults < MaxFaults
  /\ faults' = faults + 1
  /\ Set(p, PassIdle)
  /\ UNCHANGED <<jira, tickets, state, rows, poll, history>>

-----------------------------------------------------------------------------
PollStepNext == PollNothing \/ PollSearch \/ PollDone \/ \E t \in Tickets : Diff(t)

ReleaseStep(p) ==
  \/ ReadCandidates(p) \/ Fetch(p) \/ EvaluateGate(p) \/ ClearReleased(p) \/ Probe(p)
  \/ MarkWaiting(p)

Next ==
  \/ SprintSwitch \/ PollStepNext \/ PollFails
  \/ \E t \in Tickets :
       \/ HumanMoves(t) \/ RunStarted(t) \/ RunSucceeds(t) \/ RunFails(t)
       \/ RunCancelled(t) \/ DiffFails(t)
  \/ \E p \in Passes : ReleaseStep(p) \/ ReleaseFails(p)

Spec == Init /\ [][Next]_vars

\* The reconcile job repeats; a step that does not fail goes on.
Fairness == WF_vars(PollStepNext) /\ WF_vars(ReleaseStep("reconcile"))

FairSpec == Spec /\ Fairness

-----------------------------------------------------------------------------
(* Properties.                                                             *)

Unseen(t) == InSprints(t, sprints) /\ seen[t] # board[t]

\* No change on the board is lost: an issue in scope whose status differs from
\* the diff cache, and whose diff has not failed, is inside the next search or
\* waits in the one in progress, across sprint switches and failed searches
\* (high-water mark, overlap and rescan of pollAndDiff).
NotMissed == \A t \in Tickets : Unseen(t) /\ t \notin missed => t \in Window \cup poll.todo

\* A run starts only for a ticket whose blockers were all clear at some time
\* before, however old the fetched issues were (evaluateDependencyGate on both
\* paths).
StartedClear == \A t \in Tickets : rows[t] # {} => t \in everClear

\* A release never runs a pair again that was succeeded or cancelled when the
\* pass read its candidates: work that ended stays ended until a status change
\* is observed (candidates: "a human's cancel must STICK").
SettledNotRerun ==
  [][\A p \in Passes, t \in Tickets :
       /\ At(p, "loop") /\ pass'[p].pc = "clear" /\ pass'[p].ticket = t
       => rows[t] \cap {"succeeded", "cancelled"} = {} \/ t \in pass[p].settled]_vars

Ready(t) == board[t] = Trigger /\ Unblocked(t) /\ InSprints(t, sprints)

\* A ticket that stays in the trigger status with its blockers clear, and
\* whose diffs do not fail, gets a run in the end, whatever order blockers,
\* sprints, moves and failed steps come in (the reconcile pass "remains the
\* guarantee").
EventuallyRuns ==
  \A t \in Tickets : <>[](Ready(t) /\ t \notin missed) => <>(rows[t] # {})

=============================================================================
