------------------------------ MODULE StartPlan ------------------------------
(***************************************************************************)
(* What a run mounts and where each repository starts: the choice of the   *)
(* agent narrowed by the ticket's Components, the branches that earlier    *)
(* runs of the ticket reported, the branches its blockers reported, and    *)
(* what is done when a blocker's branch is gone.                           *)
(*                                                                         *)
(* All of it is a function of the run's task, a record:                    *)
(*   kind      "ticket", "setup" or "triage"                               *)
(*   declared  the workspace's repositories, in order                      *)
(*   names     the agent's choice, {} for all of them                    *)
(*   scoping   settings.ticket_scoping                                     *)
(*   comps     the ticket's Components, or Unreadable                      *)
(*   prefer    the report of the run the handoff names, <<>> without one   *)
(*   own       reports of the ticket's succeeded runs, newest first        *)
(*   cli       what the process of the run does (AgentProcess)             *)
(*   blockers  in key order: [key, done, observed, reports]                *)
(* A report is the sequence of its entries that carry a branch, an entry   *)
(* [repo, branch] with repo = Flat in the form without a repository name.  *)
(* Names are compared up to case; the model has one spelling of each.      *)
(***************************************************************************)
EXTENDS Naturals, Sequences, SequencesExt

CONSTANT Window   \* SCAN_WINDOW
ASSUME WindowAssumption == Window \in Nat \ {0}

None       == "none"
Flat       == "flat"
Unreadable == {"unreadable"}

\* Array.filter: those of s that are in T, in order.
Those(s, T) == FlattenSeq([i \in 1..Len(s) |-> IF s[i] \in T THEN <<s[i]>> ELSE <<>>])

-----------------------------------------------------------------------------
(* Scope.                                                                  *)

\* pickWorkspaceRepositories: the agent's names select, the workspace orders.
Picked(task) ==
  IF task.names = {} THEN task.declared
  ELSE Those(task.declared, task.names)

PickFails(task) ==
  task.declared = <<>> \/ ~(task.names \subseteq ToSet(task.declared))

\* narrowByTicketComponents.
Narrow(task) ==
  LET base  == Picked(task)
      named == task.comps \cap ToSet(task.declared)
      hit   == Those(base, named)
  IN IF ~task.scoping \/ Len(base) <= 1 THEN [kind |-> "resolved", repos |-> base]
     ELSE IF task.comps = Unreadable THEN [kind |-> "crashed", repos |-> <<>>]
     ELSE IF hit = <<>> THEN [kind |-> "parked", repos |-> <<>>]
     ELSE [kind |-> "resolved", repos |-> hit]

\* loadRunConfig: a triage run mounts nothing, a setup run the first repository
\* or nothing, any other run what its ticket leaves of the agent's choice.
Scope(task) ==
  CASE task.kind = "triage" -> [kind |-> "resolved", repos |-> <<>>]
    [] task.kind = "setup"  -> [kind |-> "resolved",
                                repos |-> IF PickFails(task) THEN <<>>
                                          ELSE SubSeq(Picked(task), 1, 1)]
    [] task.kind = "ticket" /\ PickFails(task)  -> [kind |-> "crashed", repos |-> <<>>]
    [] task.kind = "ticket" /\ ~PickFails(task) -> Narrow(task)

Mounted(task) == Scope(task).repos

-----------------------------------------------------------------------------
(* Prior work.                                                             *)

\* The newest report in the window that names a branch.
Usable(reports) ==
  LET w == SubSeq(reports, 1, IF Len(reports) < Window THEN Len(reports) ELSE Window)
      i == SelectInSeq(w, LAMBDA r : r # <<>>)
  IN IF i = 0 THEN <<>> ELSE w[i]

\* getPriorWork: the run of the handoff, else the window.
PriorWork(task) ==
  IF task.kind # "ticket" THEN <<>>
  ELSE IF task.prefer # <<>> THEN task.prefer ELSE Usable(task.own)

\* resolveEntries: the mounted repository an entry names, or None.
RepoOf(entry, repos) ==
  IF entry.repo = Flat THEN (IF Len(repos) = 1 THEN repos[1] ELSE None)
  ELSE IF entry.repo \in ToSet(repos) THEN entry.repo ELSE None

\* matchReportedBranches: the first entry of a repository wins.
OwnBranch(task, repo) ==
  LET i == SelectInSeq(PriorWork(task), LAMBDA e : RepoOf(e, Mounted(task)) = repo)
  IN IF i = 0 THEN None ELSE PriorWork(task)[i].branch

-----------------------------------------------------------------------------
(* Blockers.                                                               *)

\* getBlockerWork: a blocker without a ticket row or a usable report is missing.
WorkOf(b) == IF b.observed THEN Usable(b.reports) ELSE <<>>

Blockers(task) == IF task.kind = "ticket" THEN task.blockers ELSE <<>>

Missing(task) == {b.key : b \in {x \in ToSet(Blockers(task)) : WorkOf(x) = <<>>}}

\* What the blockers reported; "at" is the place in key order.
Reported(task) ==
  UNION {LET b == Blockers(task)[i] IN
           {[at |-> <<i, j>>, key |-> b.key, repo |-> RepoOf(WorkOf(b)[j], Mounted(task)),
             branch |-> WorkOf(b)[j].branch] : j \in 1..Len(WorkOf(b))}
         : i \in 1..Len(Blockers(task))}

Before(p, q) == p[1] < q[1] \/ (p[1] = q[1] /\ p[2] < q[2])

\* Two blockers that report one branch count once, for the first of them.
Distinct(items) ==
  {x \in items : ~ \E y \in items : y.branch = x.branch /\ Before(y.at, x.at)}

\* buildStartPlan: own work wins, else the branch of every blocker.
Plan(task, repo) ==
  IF OwnBranch(task, repo) # None THEN {}
  ELSE Distinct({x \in Reported(task) : x.repo = repo})

Unmounted(task) ==
  {x.key : x \in {y \in Reported(task) : y.repo = None}}

\* resolveInheritance: blocker branches that origin has lost drop out.
Surviving(task, repo, refs) == {x \in Plan(task, repo) : x.branch \in refs}

Dropped(task, refs) ==
  Missing(task) \cup
  {x.key : x \in UNION {{y \in Plan(task, repo) : y.branch \notin refs[repo]}
                        : repo \in ToSet(Mounted(task))}}

\* The branches a worktree is made of: the one it starts on and those merged
\* into it, in an order that is left out.
Branches(task, repo, refs) ==
  IF OwnBranch(task, repo) # None THEN {OwnBranch(task, repo)}
  ELSE {x.branch : x \in Surviving(task, repo, refs)}

\* applyMissingBranchMatrix, reportUnmountedBlockerWork: who is told of what.
IsDone(task, key) == \E b \in ToSet(Blockers(task)) : b.key = key /\ b.done

\* A mistake: the blockers that are done are the ones reported.
ToldOfDone(task, refs) ==
  {<<"lost", k>> : k \in {x \in Dropped(task, refs) : IsDone(task, x)}}
    \cup {<<"unmounted", k>> : k \in Unmounted(task)}

Told(task, refs) ==
  {<<"lost", k>> : k \in {x \in Dropped(task, refs) : ~IsDone(task, x)}}
    \cup {<<"unmounted", k>> : k \in Unmounted(task)}
=============================================================================
