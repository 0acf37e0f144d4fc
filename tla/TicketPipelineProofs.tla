------------------------ MODULE TicketPipelineProofs ------------------------
(***************************************************************************)
(* Proofs about TicketPipeline, for any number of calls of onRunFinished   *)
(* in flight, any rework maximum and any bounds.                           *)
(*                                                                         *)
(* ReworkCapped is not inductive: a call that has read a budget which      *)
(* still allowed a cycle will start a rework run later.  The invariant     *)
(* counts those calls together with the runs.                              *)
(***************************************************************************)
EXTENDS TicketPipeline, FiniteSetTheorems, TLAPS

\* A call in flight is about a row that exists.
CallsHaveRows == \A f \in Finishers : fin[f].pc # "idle" => fin[f].run \in Rows

\* Only calls about worker runs decide on a triage.
TriagesAreWorkers ==
  \A f \in Finishers : fin[f].pc = "triage" => ~Orchestrates(fin[f].run)

\* The run a rework run names as its decider exists.
ReworkHasDecider == \A k \in ReworkRuns : runs[k].by \in Rows

PipelineInv == StateOK /\ CallsHaveRows /\ TriagesAreWorkers /\ ReworkHasDecider

\* What no step changes of a row.
Kept ==
  /\ Rows \subseteq Rows'
  /\ \A k \in Rows : /\ runs[k].role = runs'[k].role
                     /\ runs[k].source = runs'[k].source
                     /\ runs[k].by = runs'[k].by

NoNewRework == \A k \in Rows' \ Rows : runs'[k].source # "rework"

-----------------------------------------------------------------------------
(* Rows.                                                                   *)

\* Replacing one row of the history.
LEMMA ReplaceRow ==
  ASSUME NEW rs \in Seq(Run), NEW r \in 1..Len(rs), NEW row \in Run
  PROVE  /\ [rs EXCEPT ![r] = row] \in Seq(Run)
         /\ Len([rs EXCEPT ![r] = row]) = Len(rs)
         /\ \A k \in 1..Len(rs) :
              [rs EXCEPT ![r] = row][k] = IF k = r THEN row ELSE rs[k]
OBVIOUS

\* A row rewritten in status and outcome keeps its place in the history.
LEMMA UpdateKeeps ==
  ASSUME StateOK, NEW r \in Rows, NEW s \in Status,
         NEW o \in ReportOutcome \cup {"none"},
         runs' = [runs EXCEPT ![r].status = s, ![r].outcome = o]
  PROVE  runs' \in Seq(Run) /\ Len(runs') = Len(runs) /\ Kept /\ NoNewRework
<1> DEFINE row == [runs[r] EXCEPT !.status = s, !.outcome = o]
<1>1. runs[r] \in Run
  BY DEF StateOK, Rows
<1>2. row \in Run
  BY <1>1 DEF Run
<1>3. row.role = runs[r].role /\ row.source = runs[r].source /\ row.by = runs[r].by
  BY <1>1 DEF Run
<1>4. runs' = [runs EXCEPT ![r] = row]
  BY <1>1 DEF Run, StateOK, Rows
<1> HIDE DEF row
<1>5. runs \in Seq(Run) /\ r \in 1..Len(runs)
  BY DEF StateOK, Rows
<1>6. /\ runs' \in Seq(Run) /\ Len(runs') = Len(runs)
      /\ \A k \in 1..Len(runs) : runs'[k] = IF k = r THEN row ELSE runs[k]
  BY ONLY <1>2, <1>4, <1>5, ReplaceRow
<1> QED
  BY <1>3, <1>5, <1>6 DEF Kept, NoNewRework, Rows

\* The same for the status alone.
LEMMA StatusKeeps ==
  ASSUME StateOK, NEW r \in Rows, NEW s \in Status,
         runs' = [runs EXCEPT ![r].status = s]
  PROVE  runs' \in Seq(Run) /\ Len(runs') = Len(runs) /\ Kept /\ NoNewRework
<1> DEFINE row == [runs[r] EXCEPT !.status = s]
<1>1. runs[r] \in Run
  BY DEF StateOK, Rows
<1>2. row \in Run
  BY <1>1 DEF Run
<1>3. row.role = runs[r].role /\ row.source = runs[r].source /\ row.by = runs[r].by
  BY <1>1 DEF Run
<1>4. runs' = [runs EXCEPT ![r] = row]
  BY <1>1 DEF Run, StateOK, Rows
<1> HIDE DEF row
<1>5. runs \in Seq(Run) /\ r \in 1..Len(runs)
  BY DEF StateOK, Rows
<1>6. /\ runs' \in Seq(Run) /\ Len(runs') = Len(runs)
      /\ \A k \in 1..Len(runs) : runs'[k] = IF k = r THEN row ELSE runs[k]
  BY ONLY <1>2, <1>4, <1>5, ReplaceRow
<1> QED
  BY <1>3, <1>5, <1>6 DEF Kept, NoNewRework, Rows

\* An inserted row comes last and changes no other.
LEMMA InsertKeeps ==
  ASSUME StateOK, NEW role \in Role, NEW source \in Source, NEW by \in Nat,
         Insert(role, source, by)
  PROVE  /\ runs' \in Seq(Run) /\ Len(runs') = Len(runs) + 1
         /\ Len(runs') <= MaxRuns
         /\ Kept
         /\ runs'[Len(runs')] = NewRun(role, source, by)
BY BoundsAssumption
   DEF Insert, NewRun, StateOK, Rows, Run, Kept, Status, Active

\* The steps of runs, and new work from outside, keep the history and start no
\* rework.
LEMMA RunStepKeeps ==
  ASSUME StateOK, NewWork \/ \E r \in Rows : RunStep(r)
  PROVE  /\ runs' \in Seq(Run) /\ Len(runs') <= MaxRuns
         /\ Kept /\ NoNewRework
         /\ UNCHANGED <<marker, tasks, commented, fin, faults>>
<1>1. CASE NewWork
  <2>1. PICK role \in Role : Insert(role, "work", 0)
    BY <1>1 DEF NewWork
  <2>2. "work" \in Source /\ UNCHANGED <<marker, tasks, commented, fin, faults>>
    BY <1>1 DEF NewWork, ticket, Source
  <2>3. /\ runs' \in Seq(Run) /\ Len(runs') = Len(runs) + 1 /\ Len(runs') <= MaxRuns
        /\ Kept /\ runs'[Len(runs')] = NewRun(role, "work", 0)
    BY <2>1, <2>2, InsertKeeps
  <2>4. Rows' \ Rows = {Len(runs')}
    BY <2>3 DEF Rows, StateOK
  <2> QED
    BY <2>2, <2>3, <2>4 DEF NoNewRework, NewRun
<1>2. ASSUME NEW r \in Rows, RunStep(r)
      PROVE  /\ runs' \in Seq(Run) /\ Len(runs') <= MaxRuns
             /\ Kept /\ NoNewRework
             /\ UNCHANGED <<marker, tasks, commented, fin, faults>>
  <2>0. runs[r].status \in Status /\ runs[r].outcome \in ReportOutcome \cup {"none"}
    <3>1. runs[r] \in Run
      BY DEF StateOK, Rows
    <3> QED
      BY <3>1 DEF Run
  <2> USE DEF ticket
  <2>1. CASE StartRun(r)
    BY <2>0, <2>1, StatusKeeps
       DEF StartRun, SetStatus, MarkRunning, Flip, Status, Active, StateOK
  <2>2. CASE Complete(r)
    <3>1. PICK o \in Outcomes(r) :
            runs' = [runs EXCEPT ![r].status = FinalizeWithReport(@, o),
                                 ![r].outcome = o]
      BY <2>2 DEF Complete
    <3>2. o \in ReportOutcome \cup {"none"}
      BY <3>1, OutcomesAssumption DEF Outcomes
    <3>3. FinalizeWithReport(runs[r].status, o) \in Status
      BY <2>0 DEF FinalizeWithReport, GuardedFinalize, ReportTerminalStatus, Flip,
                  Status, Active, Terminal
    <3> QED
      BY <2>2, <3>1, <3>2, <3>3, UpdateKeeps DEF Complete, StateOK
  <2>3. CASE EndWithoutReport(r)
    BY <2>0, <2>3, StatusKeeps
       DEF EndWithoutReport, SetStatus, FinalizeStatusIfRunning, Flip, Status,
           Terminal, StateOK
  <2>4. CASE RequestHuman(r)
    BY <2>0, <2>4, StatusKeeps
       DEF RequestHuman, SetStatus, ParkRun, ParkIfStillRunning, Flip, Status,
           Active, StateOK
  <2>5. CASE Rescue(r)
    <3>1. PICK o \in Outcomes(r) :
            runs' = [runs EXCEPT ![r].status = ReportTerminalStatus(o),
                                 ![r].outcome = o]
      BY <2>5 DEF Rescue
    <3>2. o \in ReportOutcome \cup {"none"}
      BY <3>1, OutcomesAssumption DEF Outcomes
    <3>3. ReportTerminalStatus(o) \in Status
      BY DEF ReportTerminalStatus, Status, Active, Terminal
    <3> QED
      BY <2>5, <3>1, <3>2, <3>3, UpdateKeeps DEF Rescue, StateOK
  <2>6. CASE CloseTask(r)
    BY <2>0, <2>6, StatusKeeps
       DEF CloseTask, SetStatus, SupersedeRun, Flip, Status, Terminal, StateOK
  <2>7. CASE CancelAll(r)
    BY <2>0, <2>7, StatusKeeps
       DEF CancelAll, SetStatus, CancelAllRun, Flip, Status, Terminal, StateOK
  <2>8. ASSUME NEW role \in Role, Resume(r, role)
        PROVE  /\ runs' \in Seq(Run) /\ Len(runs') <= MaxRuns
               /\ Kept /\ NoNewRework
               /\ UNCHANGED <<marker, tasks, commented, fin, faults>>
    <3> DEFINE source == IF role = "orchestrator" THEN "answer-triage" ELSE "human-resume"
               old == [runs EXCEPT ![r].status = SupersedeRun(runs[r].status)]
               new == NewRun(role, source, r)
    <3>1. runs' = Append(old, new) /\ Len(runs) < MaxRuns
          /\ UNCHANGED <<marker, tasks, commented, fin, faults>>
      BY <2>8 DEF Resume
    <3>2. SupersedeRun(runs[r].status) \in Status
      BY <2>0 DEF SupersedeRun, Flip, Status, Terminal
    <3>3. /\ old \in Seq(Run) /\ Len(old) = Len(runs)
          /\ \A k \in Rows : /\ old[k].role = runs[k].role
                             /\ old[k].source = runs[k].source
                             /\ old[k].by = runs[k].by
      <4> DEFINE row == [runs[r] EXCEPT !.status = SupersedeRun(runs[r].status)]
      <4>1. runs[r] \in Run
        BY DEF StateOK, Rows
      <4>2. row \in Run /\ row.role = runs[r].role /\ row.source = runs[r].source
            /\ row.by = runs[r].by
        BY <3>2, <4>1 DEF Run
      <4>3. old = [runs EXCEPT ![r] = row]
        OBVIOUS
      <4>4. runs \in Seq(Run) /\ r \in 1..Len(runs)
        BY DEF StateOK, Rows
      <4> HIDE DEF row, old
      <4>5. /\ old \in Seq(Run) /\ Len(old) = Len(runs)
            /\ \A k \in 1..Len(runs) : old[k] = IF k = r THEN row ELSE runs[k]
        BY ONLY <4>2, <4>3, <4>4, ReplaceRow
      <4> QED
        BY <4>2, <4>5 DEF Rows
    <3>4. new \in Run /\ new.source # "rework"
      BY <2>8 DEF NewRun, Run, Role, Source, Rows, Status, Active
    <3> HIDE DEF old, new
    <3>5. /\ runs' \in Seq(Run) /\ Len(runs') = Len(runs) + 1
          /\ runs'[Len(runs) + 1] = new
          /\ \A k \in Rows : runs'[k] = old[k]
      BY <3>1, <3>3, <3>4 DEF Rows
    <3>6. Len(runs') <= MaxRuns /\ Kept
      <4>1. Len(runs') <= MaxRuns /\ Rows \subseteq Rows'
        BY <3>1, <3>5, BoundsAssumption DEF Rows, StateOK
      <4> QED
        BY <3>3, <3>5, <4>1 DEF Kept
    <3>7. NoNewRework
      <4>1. Rows' \ Rows = {Len(runs) + 1}
        BY <3>5 DEF Rows, StateOK
      <4> QED
        BY <3>4, <3>5, <4>1 DEF NoNewRework
    <3> QED
      BY <3>1, <3>5, <3>6, <3>7
  <2> QED
    BY <1>2, <2>1, <2>2, <2>3, <2>4, <2>5, <2>6, <2>7, <2>8 DEF RunStep
<1> QED
  BY <1>1, <1>2

-----------------------------------------------------------------------------
(* The inductive invariant.                                                *)

\* What the history keeps carries the parts about rows over a step.
LEMMA KeptInv ==
  ASSUME PipelineInv, Kept, NoNewRework, fin' = fin
  PROVE  CallsHaveRows' /\ TriagesAreWorkers' /\ ReworkHasDecider'
<1>1. CallsHaveRows'
  BY DEF PipelineInv, CallsHaveRows, Kept
<1>2. TriagesAreWorkers'
  BY DEF PipelineInv, TriagesAreWorkers, CallsHaveRows, Orchestrates, Kept
<1>3. ReworkHasDecider'
  BY DEF PipelineInv, ReworkHasDecider, ReworkRuns, Kept, NoNewRework
<1> QED
  BY <1>1, <1>2, <1>3

\* Types of the parts of a call.
LEMMA CallTypes ==
  ASSUME StateOK, NEW f \in Finishers
  PROVE  /\ fin[f] \in Call /\ Idle \in Call
         /\ \A pc \in Step : [fin[f] EXCEPT !.pc = pc] \in Call
         /\ \A pc \in Step, d \in Decision :
              [fin[f] EXCEPT !.pc = pc, !.decision = d] \in Call
<1>1. fin[f] \in Call
  BY DEF StateOK
<1>2. Idle \in Call
  BY DEF Call, Idle, Step, Decision, Status, Active
<1>3. ASSUME NEW pc \in Step PROVE [fin[f] EXCEPT !.pc = pc] \in Call
  BY <1>1 DEF Call
<1>4. ASSUME NEW pc \in Step, NEW d \in Decision
      PROVE  [fin[f] EXCEPT !.pc = pc, !.decision = d] \in Call
  BY <1>1 DEF Call
<1> QED
  BY <1>1, <1>2, <1>3, <1>4

\* A step of a call that leaves the rows alone: it is enough to look at where
\* the call goes.
LEMMA CallMoves ==
  ASSUME PipelineInv, runs' = runs, NEW f \in Finishers, NEW c \in Call,
         fin' = [fin EXCEPT ![f] = c],
         c.pc # "idle" => c.run \in Rows,
         c.pc = "triage" => ~Orchestrates(c.run)
  PROVE  /\ fin' \in [Finishers -> Call]
         /\ CallsHaveRows' /\ TriagesAreWorkers' /\ ReworkHasDecider'
BY DEF PipelineInv, StateOK, CallsHaveRows, TriagesAreWorkers, ReworkHasDecider,
       ReworkRuns, Rows, Orchestrates

\* A call that goes to a step other than the triage, or returns.
LEMMA GotoInv ==
  ASSUME PipelineInv, runs' = runs, NEW f \in Finishers, ~At(f, "idle"),
         \/ \E pc \in Step \ {"triage"} : Goto(f, pc)
         \/ \E pc \in Step \ {"triage"}, d \in Decision : Decide(f, pc, d)
         \/ Return(f)
  PROVE  /\ fin' \in [Finishers -> Call]
         /\ CallsHaveRows' /\ TriagesAreWorkers' /\ ReworkHasDecider'
<1>0. StateOK /\ fin[f].run \in Rows
  BY DEF PipelineInv, CallsHaveRows, At
<1>1. ASSUME NEW pc \in Step \ {"triage"}, Goto(f, pc)
      PROVE  /\ fin' \in [Finishers -> Call]
             /\ CallsHaveRows' /\ TriagesAreWorkers' /\ ReworkHasDecider'
  <2> DEFINE c == [fin[f] EXCEPT !.pc = pc]
  <2>1. c \in Call /\ c.pc = pc /\ c.run = fin[f].run
    BY <1>0, CallTypes DEF Call
  <2>2. fin' = [fin EXCEPT ![f] = c]
    BY <1>1 DEF Goto
  <2> HIDE DEF c
  <2> QED
    BY <1>0, <2>1, <2>2, CallMoves
<1>2. ASSUME NEW pc \in Step \ {"triage"}, NEW d \in Decision, Decide(f, pc, d)
      PROVE  /\ fin' \in [Finishers -> Call]
             /\ CallsHaveRows' /\ TriagesAreWorkers' /\ ReworkHasDecider'
  <2> DEFINE c == [fin[f] EXCEPT !.pc = pc, !.decision = d]
  <2>1. c \in Call /\ c.pc = pc /\ c.run = fin[f].run
    BY <1>0, CallTypes DEF Call
  <2>2. fin' = [fin EXCEPT ![f] = c]
    BY <1>0, <1>2 DEF Decide, StateOK
  <2> HIDE DEF c
  <2> QED
    BY <1>0, <2>1, <2>2, CallMoves
<1>3. CASE Return(f)
  BY <1>0, <1>3, CallTypes, CallMoves DEF Return, Idle
<1> QED
  BY <1>1, <1>2, <1>3

\* The invariant holds of an empty history.
LEMMA PipelineInit == Init => PipelineInv
<1> SUFFICES ASSUME Init PROVE PipelineInv
  OBVIOUS
<1>1. Idle \in Call /\ Idle.pc = "idle"
  BY DEF Idle, Call, Step, Status, Active, Decision
<1>2. StateOK
  BY <1>1, BoundsAssumption DEF Init, StateOK, Decision
<1> QED
  BY <1>1, <1>2 DEF Init, PipelineInv, CallsHaveRows, TriagesAreWorkers,
                    ReworkHasDecider, ReworkRuns, Rows

\* A rework or triage that is started keeps the invariant.
LEMMA StartInv ==
  ASSUME PipelineInv, NEW f \in Finishers, At(f, "trigger"), Goto(f, "mark"),
         UNCHANGED <<marker, tasks, commented, faults>>,
         IF Orchestrates(fin[f].run)
         THEN Insert("worker", "rework", fin[f].run)
         ELSE Insert("orchestrator", "triage", fin[f].run)
  PROVE  PipelineInv'
<1> DEFINE r == fin[f].run
           role == IF Orchestrates(r) THEN "worker" ELSE "orchestrator"
           source == IF Orchestrates(r) THEN "rework" ELSE "triage"
<1>1. StateOK /\ r \in Rows
  BY DEF PipelineInv, CallsHaveRows, At
<1>2. role \in Role /\ source \in Source /\ r \in Nat /\ Insert(role, source, r)
  BY <1>1 DEF Role, Source, Rows
<1> HIDE DEF r, role, source
<1>3. /\ runs' \in Seq(Run) /\ Len(runs') = Len(runs) + 1
      /\ Len(runs') <= MaxRuns /\ Kept
      /\ runs'[Len(runs')] = NewRun(role, source, r)
  BY <1>1, <1>2, InsertKeeps
<1>4. /\ fin' \in [Finishers -> Call]
      /\ \A g \in Finishers : fin'[g].run = fin[g].run
      /\ \A g \in Finishers : fin'[g].pc # fin[g].pc => g = f /\ fin'[g].pc = "mark"
  <2>1. fin[f] \in Call /\ [fin[f] EXCEPT !.pc = "mark"] \in Call
    BY <1>1, CallTypes DEF Step
  <2>2. fin' = [fin EXCEPT ![f] = [fin[f] EXCEPT !.pc = "mark"]]
    BY DEF Goto
  <2>3. /\ [fin[f] EXCEPT !.pc = "mark"].pc = "mark"
        /\ [fin[f] EXCEPT !.pc = "mark"].run = fin[f].run
    BY <2>1 DEF Call
  <2>4. fin \in [Finishers -> Call]
    BY <1>1 DEF StateOK
  <2> QED
    BY <2>1, <2>2, <2>3, <2>4
<1>5. StateOK'
  BY <1>1, <1>3, <1>4 DEF StateOK
<1>6. CallsHaveRows'
  BY <1>3, <1>4 DEF PipelineInv, CallsHaveRows, Kept, At
<1>7. TriagesAreWorkers'
  BY <1>3, <1>4 DEF PipelineInv, CallsHaveRows, TriagesAreWorkers, Orchestrates, Kept
<1>8. ReworkHasDecider'
  <2>1. Rows' = Rows \cup {Len(runs')} /\ runs'[Len(runs')].by = r
    BY <1>1, <1>3 DEF Rows, NewRun, StateOK
  <2> QED
    BY <1>1, <1>3, <2>1 DEF PipelineInv, ReworkHasDecider, ReworkRuns, Kept
<1> QED
  BY <1>5, <1>6, <1>7, <1>8 DEF PipelineInv

\* Every step of a call of onRunFinished keeps the invariant.
LEMMA CallStepInv ==
  ASSUME PipelineInv, NEW f \in Finishers, DriftRepair(f) \/ Proceed(f) \/ Abandon(f)
  PROVE  PipelineInv'
<1> USE DEF ticket
<1>0. StateOK /\ (~At(f, "idle") => fin[f].run \in 1..MaxRuns)
  BY BoundsAssumption DEF PipelineInv, CallsHaveRows, At, Rows, StateOK
<1>1. ASSUME NEW r \in Rows, Enter(f, r) PROVE PipelineInv'
  <2> DEFINE c == [Idle EXCEPT !.pc = "load", !.run = r]
  <2>0. r \in Nat
    BY <1>0 DEF Rows, StateOK
  <2>1. c \in Call /\ c.pc = "load" /\ c.run = r
    BY <2>0 DEF Idle, Call, Step, Status, Active, Decision
  <2>2. /\ fin' = [fin EXCEPT ![f] = c] /\ faults' \in Nat
        /\ UNCHANGED <<runs, marker, tasks, commented>>
    BY <1>0, <1>1 DEF Enter, Begin, StateOK
  <2> HIDE DEF c
  <2> QED
    BY <1>0, <2>1, <2>2, CallMoves DEF PipelineInv, StateOK
<1>2. CASE Load(f)
  <2> DEFINE row == runs[fin[f].run]
             next == AfterLoad(row)
             c == [fin[f] EXCEPT !.pc = next[1], !.decision = next[2], !.status = row.status]
  <2>1. ~At(f, "idle") /\ fin[f].run \in Rows /\ fin[f] \in Call
        /\ UNCHANGED <<runs, marker, tasks, commented, faults>>
    BY <1>0, <1>2, CallTypes DEF Load, At, PipelineInv, CallsHaveRows
  <2>2. CASE row.status \notin OwesWrite
    <3>1. Return(f)
      BY <1>2, <2>2 DEF Load
    <3> QED
      BY <1>0, <2>1, <3>1, GotoInv DEF PipelineInv, StateOK
  <2>3. CASE row.status \in OwesWrite
    <3>1. next[1] \in Step \ {"triage"} /\ next[2] \in Decision
      BY DEF AfterLoad, Step, Decision
    <3>2. row.status \in Status
      BY <2>3 DEF OwesWrite, Status, Active, Terminal
    <3>3. fin' = [fin EXCEPT ![f] = c]
      BY <1>0, <1>2, <2>3 DEF Load, StateOK
    <3>4. c \in Call /\ c.pc = next[1] /\ c.run = fin[f].run
      <4> HIDE DEF row, next
      <4> QED
        BY <2>1, <3>1, <3>2 DEF Call
    <3> HIDE DEF c, next
    <3> QED
      BY <1>0, <2>1, <3>1, <3>3, <3>4, CallMoves DEF PipelineInv, StateOK
  <2> QED
    BY <2>2, <2>3
<1>3. CASE Transition(f)
  <2>1. ~At(f, "idle") /\ Goto(f, "comment") /\ "comment" \in Step \ {"triage"}
    BY <1>3 DEF Transition, At, Step
  <2> QED
    BY <1>0, <1>3, <2>1, GotoInv DEF Transition, PipelineInv, StateOK
<1>4. CASE AddComment(f)
  <2> DEFINE pc == AfterComment(fin[f])
             c == [fin[f] EXCEPT !.pc = pc]
  <2>1. /\ ~At(f, "idle") /\ fin[f].run \in Rows /\ fin[f] \in Call
        /\ UNCHANGED <<runs, marker, tasks, faults>>
        /\ commented' = commented \cup {fin[f].run} /\ Goto(f, pc)
    BY <1>0, <1>4, CallTypes DEF AddComment, At, PipelineInv, CallsHaveRows
  <2>2. pc \in Step /\ (pc = "triage" => ~Orchestrates(fin[f].run))
    BY DEF AfterComment, Step
  <2>3. c \in Call /\ c.pc = pc /\ c.run = fin[f].run
    <3> HIDE DEF pc
    <3> QED
      BY <2>1, <2>2 DEF Call
  <2>4. fin' = [fin EXCEPT ![f] = c]
    BY <2>1 DEF Goto
  <2> HIDE DEF c, pc
  <2>5. fin' \in [Finishers -> Call] /\ CallsHaveRows' /\ TriagesAreWorkers' /\ ReworkHasDecider'
    BY <2>1, <2>2, <2>3, <2>4, CallMoves
  <2> QED
    BY <1>0, <2>1, <2>5 DEF PipelineInv, StateOK
<1>5. CASE DecideTriage(f)
  <2>1. /\ ~At(f, "idle") /\ UNCHANGED <<runs, marker, tasks, commented, faults>>
        /\ \E pc \in Step \ {"triage"}, d \in Decision : Decide(f, pc, d)
    BY <1>5 DEF DecideTriage, At, Step, Decision
  <2> QED
    BY <1>0, <2>1, GotoInv DEF PipelineInv, StateOK
<1>6. CASE FindExisting(f)
  <2>1. /\ ~At(f, "idle") /\ UNCHANGED <<runs, marker, tasks, commented, faults>>
        /\ \E pc \in Step \ {"triage"} : Goto(f, pc)
    BY <1>6 DEF FindExisting, At, Step
  <2> QED
    BY <1>0, <2>1, GotoInv DEF PipelineInv, StateOK
<1>7. CASE JudgeRouting(f)
  <2>1. /\ ~At(f, "idle") /\ UNCHANGED <<runs, marker, tasks, commented, faults>>
        /\ \/ \E pc \in Step \ {"triage"} : Goto(f, pc)
           \/ \E pc \in Step \ {"triage"}, d \in Decision : Decide(f, pc, d)
    BY <1>7 DEF JudgeRouting, At, Step, Decision
  <2> QED
    BY <1>0, <2>1, GotoInv DEF PipelineInv, StateOK
<1>8. CASE FindActive(f)
  <2>1. /\ ~At(f, "idle") /\ UNCHANGED <<runs, marker, tasks, commented, faults>>
        /\ \/ \E pc \in Step \ {"triage"} : Goto(f, pc)
           \/ \E pc \in Step \ {"triage"}, d \in Decision : Decide(f, pc, d)
    BY <1>8 DEF FindActive, At, Step, Decision
  <2> QED
    BY <1>0, <2>1, GotoInv DEF PipelineInv, StateOK
<1>9. CASE Trigger(f)
  <2>1. CASE Goto(f, "mark") /\ runs' # runs
    BY <1>9, <2>1, StartInv DEF Trigger
  <2>2. CASE runs' = runs
    <3>1. /\ ~At(f, "idle") /\ UNCHANGED <<marker, tasks, commented, faults>>
          /\ \/ \E pc \in Step \ {"triage"} : Goto(f, pc)
             \/ \E pc \in Step \ {"triage"}, d \in Decision : Decide(f, pc, d)
      BY <1>9 DEF Trigger, At, Step, Decision
    <3> QED
      BY <1>0, <2>2, <3>1, GotoInv DEF PipelineInv, StateOK
  <2> QED
    BY <1>9, <2>1, <2>2 DEF Trigger
<1>10. CASE CreateNonBlocking(f)
  <2>1. /\ ~At(f, "idle") /\ UNCHANGED <<runs, marker, commented, faults>>
        /\ tasks' = tasks \cup {fin[f].run}
        /\ Goto(f, "mark") /\ "mark" \in Step \ {"triage"}
    BY <1>10 DEF CreateNonBlocking, At, Step
  <2> QED
    BY <1>0, <2>1, GotoInv DEF PipelineInv, StateOK
<1>11. CASE WriteMarker(f)
  <2>1. /\ ~At(f, "idle") /\ UNCHANGED <<runs, tasks, commented, faults>>
        /\ marker' = [marker EXCEPT ![fin[f].run] = fin[f].decision] /\ Return(f)
    BY <1>11 DEF WriteMarker, At
  <2>2. fin[f].decision \in Decision
    BY <1>0, CallTypes DEF Call
  <2>3. marker' \in [1..MaxRuns -> Decision]
    BY <1>0, <2>1, <2>2 DEF StateOK
  <2> QED
    BY <1>0, <2>1, <2>3, GotoInv DEF PipelineInv, StateOK
<1>12. CASE Abandon(f)
  <2>1. faults' \in Nat
    BY <1>0, <1>12 DEF Abandon, StateOK
  <2> QED
    BY <1>0, <1>12, <2>1, GotoInv DEF Abandon, PipelineInv, StateOK
<1> QED
  BY <1>1, <1>2, <1>3, <1>4, <1>5, <1>6, <1>7, <1>8, <1>9, <1>10, <1>11, <1>12
     DEF DriftRepair, Proceed

\* The invariant is inductive.
LEMMA PipelineNext == PipelineInv /\ [Next]_vars => PipelineInv'
<1> SUFFICES ASSUME PipelineInv, [Next]_vars PROVE PipelineInv'
  OBVIOUS
<1>1. CASE NewWork \/ \E r \in Rows : RunStep(r)
  <2>1. StateOK
    BY DEF PipelineInv
  <2>2. /\ runs' \in Seq(Run) /\ Len(runs') <= MaxRuns /\ Kept /\ NoNewRework
        /\ UNCHANGED <<marker, tasks, commented, fin, faults>>
    BY <1>1, <2>1, RunStepKeeps
  <2> QED
    BY <2>1, <2>2, KeptInv DEF PipelineInv, StateOK
<1>2. ASSUME NEW f \in Finishers, DriftRepair(f) \/ Proceed(f) \/ Abandon(f)
      PROVE  PipelineInv'
  BY <1>2, CallStepInv
<1>3. CASE UNCHANGED vars
  BY <1>3 DEF vars, PipelineInv, StateOK, CallsHaveRows, TriagesAreWorkers,
              ReworkHasDecider, ReworkRuns, Rows, Orchestrates
<1> QED
  BY <1>1, <1>2, <1>3 DEF Next, Act

\* The history variables are typed as well.
LEMMA TypeInit == Init => TypeOK
BY PipelineInit DEF Init, TypeOK, PipelineInv

LEMMA TypeNext == PipelineInv /\ TypeOK /\ [Next]_vars => TypeOK'
<1> SUFFICES ASSUME PipelineInv, TypeOK, [Next]_vars PROVE TypeOK'
  OBVIOUS
<1>1. StateOK'
  BY PipelineNext DEF PipelineInv
<1>2. Racing' \subseteq 1..MaxRuns
  BY <1>1, BoundsAssumption DEF Racing, Rows, StateOK
<1>3. CASE UNCHANGED vars
  BY <1>1, <1>3 DEF vars, TypeOK
<1>4. CASE History
  BY <1>1, <1>2, <1>4 DEF History, TypeOK
<1> QED
  BY <1>3, <1>4 DEF Next

\* Type correctness of the pipeline of a ticket.
THEOREM PipelineTypeCorrect == Spec => []TypeOK
<1>1. Init => PipelineInv /\ TypeOK
  BY PipelineInit, TypeInit
<1>2. PipelineInv /\ TypeOK /\ [Next]_vars => (PipelineInv /\ TypeOK)'
  BY PipelineNext, TypeNext
<1> QED
  BY <1>1, <1>2, PTL DEF Spec

-----------------------------------------------------------------------------
(* The rework budget.                                                      *)

\* The spending calls that no human answer has asked for.
AutoSpending == {f \in Spending : runs[fin[f].run].source # "answer-triage"}

\* The budget is exceeded by at most e, the calls that will still spend counted in.
Within(e) ==
  /\ Cardinality(AutomaticRework) + Cardinality(AutoSpending) <= ReworkMax + e
  /\ CycleCount + Cardinality(Spending) <= ReworkMax + 1 + e

BudgetInv == Within(Cardinality(Finishers) - 1) /\ Within(overspent)

\* All counted sets are finite.
LEMMA Counts ==
  ASSUME PipelineInv
  PROVE  /\ IsFiniteSet(ReworkRuns) /\ CycleCount \in Nat
         /\ IsFiniteSet(AutomaticRework) /\ Cardinality(AutomaticRework) \in Nat
         /\ Cardinality(AutomaticRework) <= CycleCount
         /\ IsFiniteSet(Spending) /\ Cardinality(Spending) \in Nat
         /\ IsFiniteSet(AutoSpending) /\ Cardinality(AutoSpending) \in Nat
         /\ Cardinality(Spending) <= Cardinality(Finishers)
         /\ Cardinality(AutoSpending) <= Cardinality(Finishers)
         /\ Cardinality(Finishers) \in Nat /\ Cardinality(Finishers) >= 1
<1>1. IsFiniteSet(Rows)
  BY FS_Interval DEF PipelineInv, StateOK, Rows
<1>2. ReworkRuns \subseteq Rows /\ AutomaticRework \subseteq ReworkRuns
  BY DEF ReworkRuns, AutomaticRework
<1>3. Spending \subseteq Finishers /\ AutoSpending \subseteq Finishers
  BY DEF Spending, AutoSpending
<1>4. IsFiniteSet(ReworkRuns) /\ IsFiniteSet(AutomaticRework)
      /\ Cardinality(AutomaticRework) <= Cardinality(ReworkRuns)
  BY <1>1, <1>2, FS_Subset
<1>5. /\ IsFiniteSet(Spending) /\ IsFiniteSet(AutoSpending)
      /\ Cardinality(Spending) <= Cardinality(Finishers)
      /\ Cardinality(AutoSpending) <= Cardinality(Finishers)
  BY <1>3, FinishersAssumption, FS_Subset
<1>6. Cardinality(Finishers) \in Nat /\ Cardinality(Finishers) # 0
  BY FinishersAssumption, FS_CardinalityType, FS_EmptySet
<1> QED
  BY <1>4, <1>5, <1>6, FS_CardinalityType DEF CycleCount

\* Steps that start no rework leave the counted runs alone.
LEMMA SameRework ==
  ASSUME PipelineInv, Kept, NoNewRework
  PROVE  ReworkRuns' = ReworkRuns /\ AutomaticRework' = AutomaticRework
<1>1. ReworkRuns' = ReworkRuns
  BY DEF ReworkRuns, Kept, NoNewRework
<1>2. AutomaticRework' = AutomaticRework
  BY <1>1 DEF AutomaticRework, PipelineInv, ReworkHasDecider, ReworkRuns, Kept
<1> QED
  BY <1>1, <1>2

\* The bound survives when no call joins the spending ones.
LEMMA BudgetShrinks ==
  ASSUME PipelineInv, PipelineInv', NEW e \in Int, Within(e), Kept, NoNewRework,
         Spending' \subseteq Spending, AutoSpending' \subseteq AutoSpending
  PROVE  Within(e)'
<1>1. Cardinality(Spending') <= Cardinality(Spending)
      /\ Cardinality(AutoSpending') <= Cardinality(AutoSpending)
  BY Counts, FS_Subset
<1>2. Cardinality(Spending') \in Nat /\ Cardinality(AutoSpending') \in Nat
  BY Counts, FS_Subset, FS_CardinalityType
<1> QED
  BY <1>1, <1>2, SameRework, Counts, ReworkMaxAssumption DEF Within, CycleCount

\* A call that moves within the spending steps, or out of them, is no new one.
LEMMA CallShrinks ==
  ASSUME PipelineInv, runs' = runs, NEW f \in Finishers,
         \A g \in Finishers \ {f} : fin'[g] = fin[g],
         fin'[f].pc \in SpendingStep /\ Orchestrates(fin'[f].run)
           => fin'[f].run = fin[f].run /\ fin[f].pc \in SpendingStep
  PROVE  /\ Kept /\ NoNewRework
         /\ Spending' \subseteq Spending /\ AutoSpending' \subseteq AutoSpending
<1>1. Kept /\ NoNewRework
  BY DEF Kept, NoNewRework, Rows
<1>2. Spending' \subseteq Spending
  BY DEF Spending, Orchestrates
<1>3. AutoSpending' \subseteq AutoSpending
  BY <1>2 DEF AutoSpending, Spending, Orchestrates
<1> QED
  BY <1>1, <1>2, <1>3

\* A rework run that is started was already counted as a spending call.
LEMMA StartBudget ==
  ASSUME PipelineInv, NEW e \in Int, Within(e), NEW f \in Finishers,
         At(f, "trigger"), Goto(f, "mark"), Orchestrates(fin[f].run),
         Insert("worker", "rework", fin[f].run), PipelineInv'
  PROVE  Within(e)'
<1> DEFINE r == fin[f].run
           n == Len(runs) + 1
<1>1. StateOK /\ r \in Rows /\ r \in Nat
  BY DEF PipelineInv, CallsHaveRows, At, Rows, StateOK
<1>2. /\ Len(runs') = n /\ Kept /\ runs'[n] = NewRun("worker", "rework", r)
  BY <1>1, InsertKeeps DEF Role, Source
<1>3. Rows' = Rows \cup {n} /\ n \notin Rows /\ n # r
  BY <1>1, <1>2 DEF Rows, StateOK
<1>4. ReworkRuns' = ReworkRuns \cup {n} /\ n \notin ReworkRuns
  BY <1>2, <1>3 DEF ReworkRuns, Kept, NewRun
<1>5. CycleCount' = CycleCount + 1
  BY <1>4, Counts, FS_AddElement DEF CycleCount
<1>6. /\ \A g \in Finishers \ {f} : fin'[g] = fin[g]
      /\ fin'[f].pc = "mark"
  <2>1. fin[f] \in Call /\ fin \in [Finishers -> Call]
    BY <1>1 DEF StateOK
  <2>2. [fin[f] EXCEPT !.pc = "mark"].pc = "mark"
    BY <2>1 DEF Call
  <2> QED
    BY <2>1, <2>2 DEF Goto
<1>7. \A g \in Finishers \ {f} : fin[g].pc \in SpendingStep => fin[g].run \in Rows
  BY DEF PipelineInv, CallsHaveRows, SpendingStep
<1>8. Spending' = Spending \ {f} /\ f \in Spending
  BY <1>2, <1>6, <1>7 DEF Spending, SpendingStep, Orchestrates, Kept, At
<1>9. AutoSpending' = AutoSpending \ {f}
  BY <1>2, <1>6, <1>7, <1>8 DEF AutoSpending, Spending, Kept
<1>10. Cardinality(Spending') = Cardinality(Spending) - 1
  BY <1>8, Counts, FS_RemoveElement
<1>11. Cardinality(AutomaticRework') + Cardinality(AutoSpending')
         = Cardinality(AutomaticRework) + Cardinality(AutoSpending)
  <2>1. runs'[n].by = r /\ runs'[r].source = runs[r].source
    BY <1>1, <1>2 DEF NewRun, Kept
  <2>2. \A k \in ReworkRuns : runs'[runs'[k].by].source = runs[runs[k].by].source
    BY <1>2 DEF PipelineInv, ReworkHasDecider, ReworkRuns, Kept
  <2>3. CASE runs[r].source # "answer-triage"
    <3>1. AutomaticRework' = AutomaticRework \cup {n} /\ n \notin AutomaticRework
      BY <1>4, <2>1, <2>2, <2>3 DEF AutomaticRework
    <3>2. f \in AutoSpending
      BY <1>8, <2>3 DEF AutoSpending
    <3>3. Cardinality(AutoSpending') = Cardinality(AutoSpending) - 1
      BY <1>9, <3>2, Counts, FS_RemoveElement
    <3>4. Cardinality(AutomaticRework') = Cardinality(AutomaticRework) + 1
      BY <3>1, Counts, FS_AddElement
    <3> QED
      BY <3>3, <3>4, Counts
  <2>4. CASE runs[r].source = "answer-triage"
    <3>1. AutomaticRework' = AutomaticRework
      BY <1>4, <2>1, <2>2, <2>4 DEF AutomaticRework
    <3>2. AutoSpending' = AutoSpending
      BY <1>9, <2>4 DEF AutoSpending
    <3> QED
      BY <3>1, <3>2
  <2> QED
    BY <2>3, <2>4
<1> QED
  BY <1>5, <1>10, <1>11, Counts, ReworkMaxAssumption DEF Within

\* The budget check: a call that passes it joins the spending ones while the
\* count is within the budget, an automatic one while the budget is not used up.
LEMMA JudgeJoins ==
  ASSUME PipelineInv, PipelineInv', NEW f \in Finishers, JudgeRouting(f)
  PROVE  /\ Kept /\ NoNewRework /\ runs' = runs
         /\ ReworkRuns' = ReworkRuns /\ AutomaticRework' = AutomaticRework
         /\ \/ Spending' \subseteq Spending /\ AutoSpending' \subseteq AutoSpending
            \/ /\ CycleCount <= ReworkMax
               /\ Spending' = Spending \cup {f} /\ f \notin Spending
               /\ \/ AutoSpending' \subseteq AutoSpending
                  \/ /\ CycleCount < ReworkMax
                     /\ AutoSpending' = AutoSpending \cup {f}
<1>1. runs' = runs /\ Kept /\ NoNewRework
  BY DEF JudgeRouting, Kept, NoNewRework, Rows
<1>2. ReworkRuns' = ReworkRuns /\ AutomaticRework' = AutomaticRework
  BY <1>1, SameRework
<1>3. fin[f] \in Call /\ fin \in [Finishers -> Call] /\ fin[f].pc = "judge"
  BY DEF PipelineInv, StateOK, JudgeRouting, At
<1>4. CASE Decide(f, "task", "override")
  <2>1. /\ \A g \in Finishers \ {f} : fin'[g] = fin[g]
        /\ fin'[f].pc = "task"
    BY <1>3, <1>4 DEF Decide, Call
  <2>2. Spending' \subseteq Spending /\ AutoSpending' \subseteq AutoSpending
    BY <1>1, <2>1, CallShrinks DEF SpendingStep
  <2> QED
    BY <1>1, <1>2, <2>2
<1>5. CASE BudgetAllows(fin[f].run) /\ Goto(f, "active")
  <2>1. CycleCount <= ReworkMax
    BY <1>5, Counts, ReworkMaxAssumption DEF BudgetAllows, BudgetAvailable
  <2>2. /\ \A g \in Finishers \ {f} : fin'[g] = fin[g]
        /\ fin'[f].run = fin[f].run /\ fin'[f].pc = "active"
    BY <1>3, <1>5 DEF Goto, Call
  <2>3. CASE ~Orchestrates(fin[f].run)
    <3>1. Spending' \subseteq Spending /\ AutoSpending' \subseteq AutoSpending
      BY <1>1, <2>2, <2>3, CallShrinks DEF Orchestrates
    <3> QED
      BY <1>1, <1>2, <3>1
  <2>4. CASE Orchestrates(fin[f].run)
    <3>1. Spending' = Spending \cup {f} /\ f \notin Spending
      BY <1>1, <1>3, <2>2, <2>4 DEF Spending, SpendingStep, Orchestrates
    <3>2. CASE runs[fin[f].run].source = "answer-triage"
      <4>1. AutoSpending' \subseteq AutoSpending
        BY <1>1, <2>2, <3>1, <3>2 DEF AutoSpending, Spending
      <4> QED
        BY <1>1, <1>2, <2>1, <3>1, <4>1
    <3>3. CASE runs[fin[f].run].source # "answer-triage"
      <4>1. CycleCount < ReworkMax
        BY <1>5, <3>3 DEF BudgetAllows, BudgetAvailable
      <4>2. AutoSpending' = AutoSpending \cup {f}
        BY <1>1, <2>2, <3>1, <3>3 DEF AutoSpending, Spending
      <4> QED
        BY <1>1, <1>2, <2>1, <3>1, <4>1, <4>2
    <3> QED
      BY <3>2, <3>3
  <2> QED
    BY <2>3, <2>4
<1> QED
  BY <1>4, <1>5 DEF JudgeRouting

\* What is counted of the calls is at most all of them.
LEMMA SpendingCounts ==
  /\ IsFiniteSet(Spending) /\ Cardinality(Spending) \in Nat
  /\ Cardinality(Spending) <= Cardinality(Finishers)
  /\ IsFiniteSet(AutoSpending) /\ Cardinality(AutoSpending) \in Nat
  /\ Cardinality(AutoSpending) <= Cardinality(Finishers)
  /\ Cardinality(Finishers) \in Nat /\ Cardinality(Finishers) >= 1
<1>1. Spending \subseteq Finishers /\ AutoSpending \subseteq Finishers
  BY DEF Spending, AutoSpending
<1>2. Cardinality(Finishers) \in Nat /\ Cardinality(Finishers) # 0
  BY FinishersAssumption, FS_CardinalityType, FS_EmptySet
<1> QED
  BY <1>1, <1>2, FinishersAssumption, FS_Subset, FS_CardinalityType

\* The budget check against the number of calls that can be in flight.
LEMMA JudgeBudget ==
  ASSUME PipelineInv, PipelineInv', Within(Cardinality(Finishers) - 1),
         NEW f \in Finishers, JudgeRouting(f)
  PROVE  Within(Cardinality(Finishers) - 1)'
<1> DEFINE F == Cardinality(Finishers)
<1>1. F \in Nat /\ F - 1 \in Int
  BY SpendingCounts
<1>2. CASE Spending' \subseteq Spending /\ AutoSpending' \subseteq AutoSpending
  BY <1>1, <1>2, JudgeJoins, BudgetShrinks
<1>3. CASE CycleCount <= ReworkMax
           /\ (AutoSpending' \subseteq AutoSpending \/ CycleCount < ReworkMax)
  <2>1. /\ Cardinality(Spending)' \in Nat /\ Cardinality(Spending)' <= F
        /\ Cardinality(AutoSpending)' \in Nat /\ Cardinality(AutoSpending)' <= F
    <3>1. Spending' \subseteq Finishers /\ AutoSpending' \subseteq Finishers
      BY DEF Spending, AutoSpending
    <3> QED
      BY <3>1, FinishersAssumption, FS_Subset, FS_CardinalityType
  <2>2. CycleCount' = CycleCount /\ Cardinality(AutomaticRework)' = Cardinality(AutomaticRework)
    BY JudgeJoins DEF CycleCount
  <2>3. CycleCount' + Cardinality(Spending)' <= ReworkMax + 1 + (F - 1)
    BY <1>1, <1>3, <2>1, <2>2, Counts, ReworkMaxAssumption
  <2>4. Cardinality(AutomaticRework)' + Cardinality(AutoSpending)' <= ReworkMax + (F - 1)
    <3>1. CASE AutoSpending' \subseteq AutoSpending
      <4>1. Cardinality(AutoSpending)' <= Cardinality(AutoSpending)
        BY <3>1, Counts, FS_Subset
      <4> QED
        BY <1>1, <2>1, <2>2, <4>1, Counts, ReworkMaxAssumption DEF Within
    <3>2. CASE CycleCount < ReworkMax
      BY <1>1, <2>1, <2>2, <3>2, Counts, ReworkMaxAssumption
    <3> QED
      BY <1>3, <3>1, <3>2
  <2> QED
    BY <2>3, <2>4 DEF Within
<1> QED
  BY <1>2, <1>3, JudgeJoins

\* The budget check against the checks passed while others were unspent: the
\* first to pass is within the budget, and each that joins it is recorded.
LEMMA JudgeSpent ==
  ASSUME PipelineInv, PipelineInv', NEW e \in Nat, NEW e1 \in Nat, Within(e),
         NEW f \in Finishers, JudgeRouting(f), e1 >= e, Overspends => e1 = e + 1
  PROVE  Within(e1)'
<1>1. CASE Spending' \subseteq Spending /\ AutoSpending' \subseteq AutoSpending
  <2>1. Within(e1)
    BY Counts, ReworkMaxAssumption DEF Within
  <2> QED
    BY <1>1, <2>1, JudgeJoins, BudgetShrinks
<1>2. CASE /\ CycleCount <= ReworkMax
           /\ Spending' = Spending \cup {f} /\ f \notin Spending
           /\ \/ AutoSpending' \subseteq AutoSpending
              \/ CycleCount < ReworkMax /\ AutoSpending' = AutoSpending \cup {f}
  <2>1. CycleCount' = CycleCount /\ Cardinality(AutomaticRework)' = Cardinality(AutomaticRework)
    BY JudgeJoins DEF CycleCount
  <2>2. Cardinality(Spending)' = Cardinality(Spending) + 1
    BY <1>2, Counts, FS_AddElement
  <2>3. CASE Spending = {}
    <3>1. Cardinality(Spending) = 0
      BY <2>3, FS_EmptySet
    <3>2. Cardinality(AutoSpending) = 0
      BY <2>3, FS_EmptySet DEF AutoSpending
    <3>3. CycleCount' + Cardinality(Spending)' <= ReworkMax + 1 + e1
      BY <1>2, <2>1, <2>2, <3>1, Counts, ReworkMaxAssumption
    <3>4. Cardinality(AutomaticRework)' + Cardinality(AutoSpending)' <= ReworkMax + e1
      <4>1. CASE AutoSpending' \subseteq AutoSpending
        <5>1. Cardinality(AutoSpending)' = 0
          BY <2>3, <4>1, FS_EmptySet DEF AutoSpending
        <5> QED
          BY <2>1, <3>2, <5>1, Counts, ReworkMaxAssumption DEF Within
      <4>2. CASE CycleCount < ReworkMax /\ AutoSpending' = AutoSpending \cup {f}
        <5>1. f \notin AutoSpending
          BY <1>2 DEF AutoSpending
        <5>2. Cardinality(AutoSpending)' = Cardinality(AutoSpending) + 1
          BY <4>2, <5>1, Counts, FS_AddElement
        <5> QED
          BY <2>1, <3>2, <4>2, <5>2, Counts, ReworkMaxAssumption
      <4> QED
        BY <1>2, <4>1, <4>2
    <3> QED
      BY <3>3, <3>4 DEF Within
  <2>4. CASE Spending # {}
    <3>1. e1 = e + 1
      BY <1>2, <2>4 DEF Overspends
    <3>2. Cardinality(AutoSpending)' \in Nat
          /\ Cardinality(AutoSpending)' <= Cardinality(AutoSpending) + 1
      <4>1. CASE AutoSpending' \subseteq AutoSpending
        <5>1. Cardinality(AutoSpending)' <= Cardinality(AutoSpending)
              /\ Cardinality(AutoSpending)' \in Nat
          BY <4>1, Counts, FS_Subset, FS_CardinalityType
        <5> QED
          BY <5>1, Counts
      <4>2. CASE AutoSpending' = AutoSpending \cup {f}
        <5>1. f \notin AutoSpending
          BY <1>2 DEF AutoSpending
        <5>2. Cardinality(AutoSpending)' = Cardinality(AutoSpending) + 1
          BY <4>2, <5>1, Counts, FS_AddElement
        <5> QED
          BY <5>2, Counts
      <4> QED
        BY <1>2, <4>1, <4>2
    <3> QED
      BY <2>1, <2>2, <3>1, <3>2, Counts, ReworkMaxAssumption DEF Within
  <2> QED
    BY <2>3, <2>4
<1> QED
  BY <1>1, <1>2, JudgeJoins

\* Every other step of a call.
LEMMA CallBudget ==
  ASSUME PipelineInv, PipelineInv', NEW e \in Int, Within(e), NEW f \in Finishers,
         DriftRepair(f) \/ Proceed(f) \/ Abandon(f), ~JudgeRouting(f)
  PROVE  Within(e)'
<1>0. fin[f] \in Call /\ fin \in [Finishers -> Call]
  BY DEF PipelineInv, StateOK
<1> DEFINE Quiet == /\ runs' = runs
                    /\ \A g \in Finishers \ {f} : fin'[g] = fin[g]
                    /\ fin'[f].pc \in SpendingStep /\ Orchestrates(fin'[f].run)
                         => fin'[f].run = fin[f].run /\ fin[f].pc \in SpendingStep
<1>1. Quiet => Within(e)'
  BY CallShrinks, BudgetShrinks
<1> USE DEF SpendingStep, Goto, Decide, Return, At, Call, Idle
<1>2. ASSUME NEW r \in Rows, Enter(f, r) PROVE Quiet
  BY <1>0, <1>2 DEF Enter, Begin
<1>3. ASSUME Load(f) PROVE Quiet
  <2>1. runs' = runs /\ \A g \in Finishers \ {f} : fin'[g] = fin[g]
    BY <1>0, <1>3 DEF Load
  <2>2. fin'[f].pc \in SpendingStep => ~Orchestrates(fin'[f].run)
    <3>1. CASE Return(f)
      BY <1>0, <3>1
    <3>2. CASE ~Return(f)
      <4>1. /\ fin'[f].pc = AfterLoad(runs[fin[f].run])[1]
            /\ fin'[f].run = fin[f].run
        BY <1>0, <1>3, <3>2 DEF Load
      <4> QED
        BY <4>1 DEF AfterLoad, Orchestrates
    <3> QED
      BY <3>1, <3>2
  <2> QED
    BY <2>1, <2>2 DEF Load, Orchestrates
<1>4. ASSUME Transition(f) PROVE Quiet
  BY <1>0, <1>4 DEF Transition
<1>5. ASSUME AddComment(f) PROVE Quiet
  BY <1>0, <1>5 DEF AddComment
<1>6. ASSUME DecideTriage(f) PROVE Quiet
  <2>1. ~Orchestrates(fin[f].run)
    BY <1>6 DEF DecideTriage, PipelineInv, TriagesAreWorkers
  <2>2. fin'[f].run = fin[f].run /\ runs' = runs
        /\ \A g \in Finishers \ {f} : fin'[g] = fin[g]
    BY <1>0, <1>6 DEF DecideTriage
  <2> QED
    BY <2>1, <2>2 DEF Orchestrates
<1>7. ASSUME FindExisting(f) PROVE Quiet
  BY <1>0, <1>7 DEF FindExisting
<1>8. ASSUME FindActive(f) PROVE Quiet
  BY <1>0, <1>8 DEF FindActive
<1>9. ASSUME CreateNonBlocking(f) \/ WriteMarker(f) \/ Abandon(f) PROVE Quiet
  BY <1>0, <1>9 DEF CreateNonBlocking, WriteMarker, Abandon
<1>10. CASE Trigger(f)
  <2>1. CASE Orchestrates(fin[f].run) /\ Insert("worker", "rework", fin[f].run)
              /\ Goto(f, "mark")
    BY <1>10, <2>1, StartBudget DEF Trigger
  <2>2. CASE ~Orchestrates(fin[f].run) /\ Insert("orchestrator", "triage", fin[f].run)
              /\ Goto(f, "mark")
    <3>1. StateOK /\ fin[f].run \in Nat
      BY <1>0 DEF PipelineInv
    <3>2. /\ Len(runs') = Len(runs) + 1 /\ Kept
          /\ runs'[Len(runs')] = NewRun("orchestrator", "triage", fin[f].run)
      BY <2>2, <3>1, InsertKeeps DEF Role, Source
    <3>3. Rows' \ Rows = {Len(runs')}
      BY <3>1, <3>2 DEF Rows, StateOK
    <3>4. NoNewRework
      BY <3>2, <3>3 DEF NoNewRework, NewRun
    <3>5. /\ \A g \in Finishers \ {f} : fin'[g] = fin[g]
          /\ fin'[f].pc = "mark"
      BY <1>0, <2>2
    <3>6. \A g \in Finishers \ {f} : fin[g].pc \in SpendingStep => fin[g].run \in Rows
      BY DEF PipelineInv, CallsHaveRows
    <3>7. Spending' \subseteq Spending
      BY <3>2, <3>5, <3>6 DEF Spending, Orchestrates, Kept
    <3>8. AutoSpending' \subseteq AutoSpending
      BY <3>2, <3>5, <3>6, <3>7 DEF AutoSpending, Spending, Kept
    <3> QED
      BY <3>2, <3>4, <3>7, <3>8, BudgetShrinks
  <2>3. ASSUME runs' = runs,
               Decide(f, "task", "override") \/ Decide(f, "mark", "triage_deduplicated")
        PROVE  Quiet
    BY <1>0, <2>3
  <2> QED
    BY <1>1, <1>10, <2>1, <2>2, <2>3 DEF Trigger
<1> HIDE DEF Quiet
<1> QED
  BY <1>1, <1>2, <1>3, <1>4, <1>5, <1>6, <1>7, <1>8, <1>9, <1>10
     DEF DriftRepair, Proceed

\* Steps of runs change neither calls nor what is counted.
LEMMA RunBudget ==
  ASSUME PipelineInv, PipelineInv', NEW e \in Int, Within(e),
         NewWork \/ \E r \in Rows : RunStep(r)
  PROVE  Within(e)'
<1>1. Kept /\ NoNewRework /\ fin' = fin
  BY RunStepKeeps DEF PipelineInv
<1>2. \A g \in Finishers : fin[g].pc \in SpendingStep => fin[g].run \in Rows
  BY DEF PipelineInv, CallsHaveRows, SpendingStep
<1>3. Spending' = Spending
  BY <1>1, <1>2 DEF Spending, Orchestrates, Kept
<1>4. AutoSpending' = AutoSpending
  BY <1>1, <1>2, <1>3 DEF AutoSpending, Spending, Kept
<1> QED
  BY <1>1, <1>3, <1>4, BudgetShrinks

\* Before the first run nothing is spent.
LEMMA BudgetInit == Init => BudgetInv
<1> SUFFICES ASSUME Init PROVE BudgetInv
  OBVIOUS
<1>1. ReworkRuns = {} /\ AutomaticRework = {} /\ Spending = {} /\ AutoSpending = {}
  BY DEF Init, Idle, ReworkRuns, AutomaticRework, Spending, AutoSpending, Rows,
         SpendingStep
<1>2. Cardinality({}) = 0 /\ CycleCount = 0 /\ overspent = 0
  BY <1>1, FS_EmptySet DEF CycleCount, Init
<1> QED
  BY <1>1, <1>2, SpendingCounts, ReworkMaxAssumption DEF BudgetInv, Within

\* Both bounds are inductive.
LEMMA BudgetNext ==
  ASSUME PipelineInv, PipelineInv', TypeOK, TypeOK', BudgetInv, [Next]_vars
  PROVE  BudgetInv'
<1> DEFINE F == Cardinality(Finishers) - 1
<1>1. F \in Int /\ overspent \in Nat /\ overspent' \in Nat
  BY SpendingCounts DEF TypeOK
<1>2. CASE UNCHANGED vars
  BY <1>2 DEF vars, BudgetInv, Within, CycleCount, ReworkRuns, AutomaticRework,
              Spending, AutoSpending, Rows, Orchestrates
<1>3. CASE Act /\ History
  <2>1. PICK e \in Nat, e1 \in Nat : e = overspent /\ e1 = overspent'
    BY <1>1
  <2>2. e1 >= e /\ (Overspends => e1 = e + 1)
    BY <1>1, <1>3, <2>1 DEF History
  <2>3. Within(F) /\ Within(e)
    BY <2>1 DEF BudgetInv, Within
  <2> HIDE DEF F
  <2>4. Within(F)' /\ Within(e1)'
    <3>1. CASE \E f \in Finishers : JudgeRouting(f)
      BY <2>2, <2>3, <3>1, JudgeBudget, JudgeSpent DEF F
    <3>2. CASE ~ \E f \in Finishers : JudgeRouting(f)
      <4>1. Within(F)' /\ Within(e)'
        <5>1. CASE NewWork \/ \E r \in Rows : RunStep(r)
          BY <1>1, <2>3, <5>1, RunBudget
        <5>2. ASSUME NEW f \in Finishers, DriftRepair(f) \/ Proceed(f) \/ Abandon(f)
              PROVE  Within(F)' /\ Within(e)'
          BY <1>1, <2>3, <3>2, <5>2, CallBudget
        <5> QED
          BY <1>3, <5>1, <5>2 DEF Act
      <4>2. Within(e)' => Within(e1)'
        <5>1. /\ CycleCount' \in Nat /\ Cardinality(AutomaticRework)' \in Nat
              /\ Cardinality(Spending)' \in Nat /\ Cardinality(AutoSpending)' \in Nat
          <6>1. IsFiniteSet(Rows')
            BY FS_Interval DEF PipelineInv, StateOK, Rows
          <6>2. /\ ReworkRuns' \subseteq Rows' /\ AutomaticRework' \subseteq Rows'
                /\ Spending' \subseteq Finishers /\ AutoSpending' \subseteq Finishers
            BY DEF ReworkRuns, AutomaticRework, Spending, AutoSpending
          <6>3. /\ IsFiniteSet(ReworkRuns') /\ IsFiniteSet(AutomaticRework')
                /\ IsFiniteSet(Spending') /\ IsFiniteSet(AutoSpending')
            BY <6>1, <6>2, FinishersAssumption, FS_Subset
          <6> QED
            BY <6>3, FS_CardinalityType DEF CycleCount
        <5> QED
          BY <2>2, <5>1, ReworkMaxAssumption DEF Within
      <4> QED
        BY <4>1, <4>2
    <3> QED
      BY <3>1, <3>2
  <2> QED
    BY <2>1, <2>4 DEF BudgetInv, Within, F
<1> QED
  BY <1>2, <1>3 DEF Next

\* For any number of overlapping calls: the pipeline on its own starts at most
\* ReworkMax rework cycles, with the human grant one more, and beyond that one
\* for each budget check passed while another call had one unspent, but no more
\* than calls can be in flight besides (getReworkBudget, grantAllows).
THEOREM PipelineReworkCapped == Spec => []ReworkCapped
<1>1. Init => PipelineInv /\ TypeOK /\ BudgetInv
  BY PipelineInit, BudgetInit, TypeInit
<1>2. PipelineInv /\ TypeOK /\ BudgetInv /\ [Next]_vars
        => (PipelineInv /\ TypeOK /\ BudgetInv)'
  BY PipelineNext, TypeNext, BudgetNext
<1>3. PipelineInv /\ TypeOK /\ BudgetInv => ReworkCapped
  <2> SUFFICES ASSUME PipelineInv, TypeOK,
                      NEW excess \in {overspent, Cardinality(Finishers) - 1},
                      Within(excess)
               PROVE  /\ Cardinality(AutomaticRework) <= ReworkMax + excess
                      /\ CycleCount <= ReworkMax + 1 + excess
    BY DEF BudgetInv, ReworkCapped
  <2> QED
    BY Counts, ReworkMaxAssumption DEF Within, TypeOK
<1> QED
  BY <1>1, <1>2, <1>3, PTL DEF Spec

-----------------------------------------------------------------------------
(* Comments, started runs and markers.                                     *)

\* What a marker of decision d claims about run r.
Honest(r, d) ==
  /\ d = "routed" => ReworkOf(r) # {}
  /\ d = "triaged" => TriageOf(r) # {}
  /\ d \in {"override", "cycle_limit"} => r \in tasks
  /\ d = "written" => r \in commented

RoutingStep == {"existing", "judge", "active", "transition", "comment", "trigger"}

\* The report of run r routes the ticket, and nothing can replace it.
Routed(r) == runs[r].status = "succeeded" /\ runs[r].outcome = "routed"

\* What is known of a call from the step it has reached.
CallSound(c) ==
  /\ c.pc \in {"existing", "judge", "active"} => Orchestrates(c.run)
  /\ c.pc \in RoutingStep /\ Orchestrates(c.run)
       => Routed(c.run) /\ c.decision = "routed"
  /\ c.pc \in {"transition", "comment"} /\ ~Orchestrates(c.run)
       => c.decision = "written"
  /\ c.pc \in {"triage", "trigger"} => c.run \in commented
  /\ c.pc = "trigger" /\ ~Orchestrates(c.run) => c.decision = "triaged"
  /\ c.pc = "task" => c.decision \in {"override", "cycle_limit"}
  /\ c.pc = "mark" => Honest(c.run, c.decision)

\* Rework runs come from orchestrator runs whose report routes the ticket.
ReworkWasRouted ==
  \A k \in ReworkRuns : Orchestrates(runs[k].by) /\ Routed(runs[k].by)

DecisionInv ==
  /\ \A f \in Finishers, c \in Call : fin[f] = c => CallSound(c)
  /\ \A r \in 1..MaxRuns, d \in Decision : marker[r] = d => Honest(r, d)
  /\ ReworkWasRouted
  /\ JiraBeforeEnqueue

\* Succeeded rows are final.
SucceededFinal == \A k \in Rows : runs[k].status = "succeeded" => runs'[k] = runs[k]

NothingStarted == \A k \in Rows' \ Rows : runs'[k].source \notin {"rework", "triage"}

\* Comments and tasks are never withdrawn.
TicketGrows == tasks \subseteq tasks' /\ commented \subseteq commented'

\* The step of a call that goes on, or decides and goes on.
LEMMA GotoCall ==
  ASSUME StateOK, NEW f \in Finishers, NEW pc \in Step, Goto(f, pc)
  PROVE  \E c \in Call : /\ fin' = [fin EXCEPT ![f] = c]
                         /\ c.pc = pc /\ c.run = fin[f].run
                         /\ c.decision = fin[f].decision
<1> DEFINE c == [fin[f] EXCEPT !.pc = pc]
<1>1. fin[f] \in Call /\ c \in Call
  BY CallTypes
<1>2. c.pc = pc /\ c.run = fin[f].run /\ c.decision = fin[f].decision
  BY <1>1 DEF Call
<1>3. fin' = [fin EXCEPT ![f] = c]
  BY DEF Goto
<1> QED
  BY <1>1, <1>2, <1>3

\* The same for a call that also settles its decision.
LEMMA DecideCall ==
  ASSUME StateOK, NEW f \in Finishers, NEW pc \in Step, NEW d \in Decision,
         Decide(f, pc, d)
  PROVE  \E c \in Call : /\ fin' = [fin EXCEPT ![f] = c]
                         /\ c.pc = pc /\ c.run = fin[f].run /\ c.decision = d
<1> DEFINE c == [fin[f] EXCEPT !.pc = pc, !.decision = d]
<1>1. fin[f] \in Call /\ c \in Call
  BY CallTypes
<1>2. c.pc = pc /\ c.run = fin[f].run /\ c.decision = d
  BY <1>1 DEF Call
<1>3. fin' = [fin EXCEPT ![f] = c]
  BY DEF Decide, StateOK
<1> QED
  BY <1>1, <1>2, <1>3

\* Runs that were started stay in the history.
LEMMA StartsStay ==
  ASSUME Kept, NEW r
  PROVE  ReworkOf(r) \subseteq ReworkOf(r)' /\ TriageOf(r) \subseteq TriageOf(r)'
BY DEF Kept, ReworkOf, ReworkRuns, TriageOf

\* What a marker claims stays true.
LEMMA HonestStays ==
  ASSUME Kept, TicketGrows, NEW r, NEW d, Honest(r, d)
  PROVE  Honest(r, d)'
BY StartsStay DEF Honest, TicketGrows

\* What is known of a call stays true while others step.
LEMMA SoundStays ==
  ASSUME Kept, SucceededFinal, TicketGrows, NEW c,
         c.pc # "idle" => c.run \in Rows, CallSound(c)
  PROVE  CallSound(c)'
<1>1. c.pc # "idle" => Orchestrates(c.run)' = Orchestrates(c.run)
  BY DEF Kept, Orchestrates
<1>2. c.pc # "idle" /\ Routed(c.run) => Routed(c.run)'
  BY DEF SucceededFinal, Routed
<1>3. Honest(c.run, c.decision) => Honest(c.run, c.decision)'
  BY HonestStays
<1>4. c.run \in commented => c.run \in commented'
  BY DEF TicketGrows
<1>5. c.pc \in RoutingStep => c.pc # "idle"
  BY DEF RoutingStep
<1> QED
  BY <1>1, <1>2, <1>3, <1>4, <1>5 DEF CallSound

\* Steps of runs are none of the pipeline's business: nothing they do breaks
\* what the calls in flight know.
LEMMA RunStepSettled ==
  ASSUME StateOK, NewWork \/ \E r \in Rows : RunStep(r)
  PROVE  SucceededFinal /\ NothingStarted
<1>1. CASE NewWork
  <2>0. PICK role \in Role : Insert(role, "work", 0)
    BY <1>1 DEF NewWork
  <2>1. /\ Len(runs') = Len(runs) + 1 /\ runs'[Len(runs')] = NewRun(role, "work", 0)
        /\ runs' = Append(runs, NewRun(role, "work", 0))
    BY <2>0, InsertKeeps DEF Source, Insert
  <2>2. Rows' \ Rows = {Len(runs')}
    BY <2>1 DEF Rows, StateOK
  <2>3. \A k \in Rows : runs'[k] = runs[k]
    BY <2>1 DEF Rows, StateOK
  <2>4. runs'[Len(runs')].source = "work"
    BY <2>1 DEF NewRun
  <2> QED
    BY <2>2, <2>3, <2>4 DEF SucceededFinal, NothingStarted
<1>2. ASSUME NEW r \in Rows, RunStep(r) PROVE SucceededFinal /\ NothingStarted
  <2>1. runs \in Seq(Run) /\ Rows = DOMAIN runs
    BY DEF StateOK, Rows
  <2>2. CASE \E role \in Role : Resume(r, role)
    <3>1. PICK role \in Role : Resume(r, role)
      BY <2>2
    <3> DEFINE source == IF role = "orchestrator" THEN "answer-triage" ELSE "human-resume"
               old == [runs EXCEPT ![r].status = SupersedeRun(runs[r].status)]
               new == NewRun(role, source, r)
    <3>2. runs' = Append(old, new) /\ runs[r].status # "succeeded"
      BY <3>1 DEF Resume
    <3>3. /\ DOMAIN old = Rows /\ \A k \in Rows : k # r => old[k] = runs[k]
          /\ \E n \in Nat : Rows = 1..n
      BY <2>1 DEF Rows
    <3>4. old \in Seq(Run) /\ Len(old) = Len(runs)
      <4> DEFINE row == [runs[r] EXCEPT !.status = SupersedeRun(runs[r].status)]
      <4>1. runs[r] \in Run
        BY <2>1
      <4>2. row \in Run
        BY <4>1 DEF Run, SupersedeRun, Flip, Status, Terminal
      <4>3. old = [runs EXCEPT ![r] = row]
        OBVIOUS
      <4> HIDE DEF row, old
      <4> QED
        BY <2>1, <4>2, <4>3, ReplaceRow DEF Rows
    <3>5. new \in Run /\ new.source \notin {"rework", "triage"}
      BY DEF NewRun, Run, Role, Source, Rows, Status, Active
    <3> HIDE DEF old, new
    <3>6. /\ Len(runs') = Len(runs) + 1 /\ runs'[Len(runs) + 1] = new
          /\ \A k \in Rows : runs'[k] = old[k]
      BY <3>2, <3>4, <3>5 DEF Rows
    <3>7. Rows' \ Rows = {Len(runs) + 1}
      BY <2>1, <3>6 DEF Rows
    <3> QED
      BY <3>2, <3>3, <3>5, <3>6, <3>7 DEF SucceededFinal, NothingStarted
  <2>3. CASE ~\E role \in Role : Resume(r, role)
    <3>1. /\ runs[r].status # "succeeded"
          /\ \/ \E s : runs' = [runs EXCEPT ![r].status = s]
             \/ \E s, o : runs' = [runs EXCEPT ![r].status = s, ![r].outcome = o]
      BY <1>2, <2>3
         DEF RunStep, StartRun, Complete, EndWithoutReport, RequestHuman, Rescue,
             CloseTask, CancelAll, SetStatus, CallbackAcceptable, RescuableTerminal
    <3>2. DOMAIN runs' = DOMAIN runs /\ \A k \in Rows : k # r => runs'[k] = runs[k]
      BY <2>1, <3>1
    <3>3. Rows' = Rows
      <4>1. runs' \in Seq(Run)
        BY <1>2, RunStepKeeps
      <4> QED
        BY <2>1, <3>2, <4>1 DEF Rows
    <3> QED
      BY <3>1, <3>2, <3>3 DEF SucceededFinal, NothingStarted
  <2> QED
    BY <2>2, <2>3
<1> QED
  BY <1>1, <1>2

\* Before the first run no call is in flight and nothing is claimed.
LEMMA DecisionInit == Init => DecisionInv
<1> SUFFICES ASSUME Init PROVE DecisionInv
  OBVIOUS
<1>1. Rows = {}
  BY DEF Init, Rows
<1>2. \A f \in Finishers, c \in Call : fin[f] = c => CallSound(c)
  BY DEF Init, Idle, CallSound, RoutingStep
<1>3. \A r \in 1..MaxRuns, d \in Decision : marker[r] = d => Honest(r, d)
  BY DEF Init, Honest
<1> QED
  BY <1>1, <1>2, <1>3 DEF DecisionInv, ReworkWasRouted, ReworkRuns, JiraBeforeEnqueue

\* A step that starts no run: the history carries its parts over.
LEMMA HistoryStays ==
  ASSUME PipelineInv, DecisionInv, Kept, SucceededFinal, NothingStarted, TicketGrows
  PROVE  ReworkWasRouted' /\ JiraBeforeEnqueue'
<1>1. ReworkRuns' = ReworkRuns
  BY DEF ReworkRuns, Kept, NothingStarted
<1>2. \A k \in ReworkRuns : runs'[k].by = runs[k].by /\ runs[k].by \in Rows
  BY DEF PipelineInv, ReworkHasDecider, ReworkRuns, Kept
<1>3. ReworkWasRouted'
  BY <1>1, <1>2 DEF DecisionInv, ReworkWasRouted, Orchestrates, Routed, Kept, SucceededFinal
<1>4. JiraBeforeEnqueue'
  BY DEF DecisionInv, JiraBeforeEnqueue, Kept, NothingStarted, TicketGrows
<1> QED
  BY <1>3, <1>4

\* Calls that a step does not move, and markers it does not write.
LEMMA OthersStay ==
  ASSUME PipelineInv, DecisionInv, Kept, SucceededFinal, TicketGrows
  PROVE  /\ \A g \in Finishers, c \in Call :
              fin[g] = c /\ fin'[g] = fin[g] => CallSound(c)'
         /\ \A r \in 1..MaxRuns, d \in Decision :
              marker[r] = d /\ marker'[r] = marker[r] => Honest(r, d)'
<1>1. ASSUME NEW g \in Finishers, NEW c \in Call, fin[g] = c
      PROVE  CallSound(c)'
  <2>1. CallSound(c) /\ (c.pc # "idle" => c.run \in Rows)
    BY <1>1 DEF PipelineInv, DecisionInv, CallsHaveRows
  <2> QED
    BY <2>1, SoundStays
<1>2. ASSUME NEW r \in 1..MaxRuns, NEW d \in Decision, marker[r] = d
      PROVE  Honest(r, d)'
  <2>1. Honest(r, d)
    BY <1>2 DEF DecisionInv
  <2> QED
    BY <2>1, HonestStays
<1> QED
  BY <1>1, <1>2

\* A step of call f that starts no run and writes no marker: it is enough to
\* look at what is known of f at the step it goes to.
LEMMA MoveDecision ==
  ASSUME PipelineInv, DecisionInv, runs' = runs, marker' = marker, TicketGrows,
         NEW f \in Finishers, NEW c \in Call, fin' = [fin EXCEPT ![f] = c],
         CallSound(c)'
  PROVE  DecisionInv'
<1>1. Kept /\ SucceededFinal /\ NothingStarted
  BY DEF Kept, SucceededFinal, NothingStarted, Rows
<1>2. fin'[f] = c /\ \A g \in Finishers \ {f} : fin'[g] = fin[g]
  BY DEF PipelineInv, StateOK
<1>3. ASSUME NEW g \in Finishers, NEW e \in Call, fin'[g] = e PROVE CallSound(e)'
  <2>1. CASE g = f
    BY <1>2, <1>3, <2>1
  <2>2. CASE g # f
    BY <1>1, <1>2, <1>3, <2>2, OthersStay
  <2> QED
    BY <2>1, <2>2
<1>4. ASSUME NEW r \in 1..MaxRuns, NEW d \in Decision, marker'[r] = d
      PROVE  Honest(r, d)'
  BY <1>1, <1>4, OthersStay
<1> QED
  BY <1>1, <1>3, <1>4, HistoryStays DEF DecisionInv

\* The trigger: the run it starts has its comment on the issue and, when it is
\* a rework, a routing report behind it.
LEMMA StartDecision ==
  ASSUME PipelineInv, DecisionInv, NEW f \in Finishers, At(f, "trigger"),
         Goto(f, "mark"), UNCHANGED <<marker, tasks, commented>>,
         IF Orchestrates(fin[f].run)
         THEN Insert("worker", "rework", fin[f].run)
         ELSE Insert("orchestrator", "triage", fin[f].run)
  PROVE  DecisionInv'
<1>0. PICK r \in Nat : r = fin[f].run
  BY DEF PipelineInv, StateOK, Call
<1> DEFINE n == Len(runs) + 1
           role == IF Orchestrates(r) THEN "worker" ELSE "orchestrator"
           source == IF Orchestrates(r) THEN "rework" ELSE "triage"
<1>1. /\ StateOK /\ r \in Rows /\ fin[f] \in Call /\ CallSound(fin[f])
      /\ r \in commented
      /\ Orchestrates(r) => Routed(r) /\ fin[f].decision = "routed"
      /\ ~Orchestrates(r) => fin[f].decision = "triaged"
  BY <1>0 DEF PipelineInv, StateOK, CallsHaveRows, At, DecisionInv, CallSound, RoutingStep
<1>2. role \in Role /\ source \in Source /\ r \in Nat /\ Insert(role, source, r)
  BY <1>0, <1>1 DEF Role, Source
<1>3. Orchestrates(r) <=> source = "rework"
  OBVIOUS
<1> HIDE DEF role
<1>4. /\ runs' \in Seq(Run) /\ Len(runs') = n /\ Kept
      /\ runs'[n] = NewRun(role, source, r) /\ runs' = Append(runs, NewRun(role, source, r))
  BY <1>1, <1>2, InsertKeeps DEF Insert
<1>5. Rows' = Rows \cup {n} /\ \A k \in Rows : runs'[k] = runs[k]
  BY <1>1, <1>4 DEF Rows, StateOK
<1>6. source \in {"rework", "triage"}
  OBVIOUS
<1> HIDE DEF n, source
<1>7. runs'[n].source = source /\ runs'[n].by = r
  BY <1>4 DEF NewRun
<1>8. SucceededFinal /\ TicketGrows
  BY <1>5 DEF SucceededFinal, TicketGrows
<1>9. ReworkWasRouted'
  <2> SUFFICES ASSUME NEW k \in ReworkRuns'
               PROVE  Orchestrates(runs[k].by)' /\ Routed(runs[k].by)'
    BY DEF ReworkWasRouted
  <2>1. CASE k \in Rows
    <3>1. k \in ReworkRuns /\ runs'[k].by = runs[k].by /\ runs[k].by \in Rows
      BY <1>5, <2>1 DEF ReworkRuns, PipelineInv, ReworkHasDecider
    <3> QED
      BY <1>5, <3>1 DEF DecisionInv, ReworkWasRouted, Orchestrates, Routed
  <2>2. CASE k = n
    <3>1. source = "rework" /\ runs'[k].by = r
      BY <1>7, <2>2 DEF ReworkRuns
    <3>2. runs'[r] = runs[r] /\ Orchestrates(r) /\ Routed(r)
      BY <1>1, <1>3, <1>5, <3>1
    <3> QED
      BY <3>1, <3>2 DEF Orchestrates, Routed
  <2> QED
    BY <1>5, <2>1, <2>2 DEF ReworkRuns
<1>10. JiraBeforeEnqueue'
  <2>1. r \in commented'
    BY <1>1
  <2> QED
    BY <1>5, <1>7, <2>1 DEF DecisionInv, JiraBeforeEnqueue
<1>11. PICK c \in Call : /\ fin' = [fin EXCEPT ![f] = c]
                         /\ c.pc = "mark" /\ c.run = r /\ c.decision = fin[f].decision
  BY <1>0, <1>1, GotoCall DEF Step
<1>12. CallSound(c)'
  <2>1. Honest(r, c.decision)'
    <3>1. n \in Rows'
      BY <1>5
    <3>2. CASE Orchestrates(r)
      <4>1. n \in ReworkOf(r)'
        BY <1>3, <1>7, <3>1, <3>2 DEF ReworkOf, ReworkRuns
      <4> QED
        BY <1>1, <1>11, <3>2, <4>1 DEF Honest
    <3>3. CASE ~Orchestrates(r)
      <4>1. n \in TriageOf(r)'
        BY <1>3, <1>6, <1>7, <3>1, <3>3 DEF TriageOf
      <4> QED
        BY <1>1, <1>11, <3>3, <4>1 DEF Honest
    <3> QED
      BY <3>2, <3>3
  <2> QED
    BY <1>11, <2>1 DEF CallSound, RoutingStep
<1>13. ASSUME NEW g \in Finishers, NEW e \in Call, fin'[g] = e PROVE CallSound(e)'
  <2>1. fin'[f] = c /\ \A h \in Finishers \ {f} : fin'[h] = fin[h]
    BY <1>1, <1>11 DEF StateOK
  <2>2. CASE g = f
    BY <1>12, <1>13, <2>1, <2>2
  <2>3. CASE g # f
    BY <1>4, <1>8, <1>13, <2>1, <2>3, OthersStay
  <2> QED
    BY <2>2, <2>3
<1>14. ASSUME NEW q \in 1..MaxRuns, NEW d \in Decision, marker'[q] = d
       PROVE  Honest(q, d)'
  BY <1>4, <1>8, <1>14, OthersStay
<1> QED
  BY <1>9, <1>10, <1>13, <1>14 DEF DecisionInv

\* Every step of a call of onRunFinished.
LEMMA CallDecision ==
  ASSUME PipelineInv, DecisionInv, NEW f \in Finishers,
         DriftRepair(f) \/ Proceed(f) \/ Abandon(f)
  PROVE  DecisionInv'
<1> USE DEF ticket
<1>0. PICK b \in Call : b = fin[f]
  BY DEF PipelineInv, StateOK
<1>1. /\ StateOK /\ CallSound(b) /\ b.run \in Nat /\ b.decision \in Decision
      /\ (b.pc # "idle" => b.run \in Rows /\ b.run \in 1..MaxRuns)
  BY <1>0, BoundsAssumption DEF PipelineInv, StateOK, DecisionInv, Call, CallsHaveRows, Rows
<1>2. ASSUME NEW c \in Call, fin' = [fin EXCEPT ![f] = c], runs' = runs,
             marker' = marker, TicketGrows, c.run = b.run,
             c.pc \in {"existing", "judge", "active"} => Orchestrates(c.run),
             c.pc \in RoutingStep /\ Orchestrates(c.run)
               => Routed(c.run) /\ c.decision = "routed",
             c.pc \in {"transition", "comment"} /\ ~Orchestrates(c.run)
               => c.decision = "written",
             c.pc \in {"triage", "trigger"} => c.run \in commented',
             c.pc = "trigger" /\ ~Orchestrates(c.run) => c.decision = "triaged",
             c.pc = "task" => c.decision \in {"override", "cycle_limit"},
             c.pc = "mark" => Honest(c.run, c.decision)'
      PROVE  DecisionInv'
  <2>1. Orchestrates(c.run)' = Orchestrates(c.run) /\ Routed(c.run)' = Routed(c.run)
    BY <1>2 DEF Orchestrates, Routed
  <2>2. CallSound(c)'
    BY <1>2, <2>1 DEF CallSound
  <2> QED
    BY <1>2, <2>2, MoveDecision
<1>3. UNCHANGED <<tasks, commented>> => TicketGrows
  BY DEF TicketGrows
<1>4. ASSUME NEW c \in Call, fin' = [fin EXCEPT ![f] = c], runs' = runs,
             marker' = marker, UNCHANGED <<tasks, commented>>,
             c.pc \in {"idle", "load"}
      PROVE  DecisionInv'
  <2>1. CallSound(c)'
    BY <1>4 DEF CallSound, RoutingStep
  <2> QED
    BY <1>3, <1>4, <2>1, MoveDecision
<1>5. ASSUME Return(f), runs' = runs, marker' = marker, UNCHANGED <<tasks, commented>>
      PROVE  DecisionInv'
  <2>1. Idle \in Call /\ Idle.pc = "idle"
    BY <1>1, CallTypes DEF Idle
  <2> QED
    BY <1>4, <1>5, <2>1 DEF Return
<1>6. ASSUME NEW r \in Rows, Enter(f, r) PROVE DecisionInv'
  <2> DEFINE c == [Idle EXCEPT !.pc = "load", !.run = r]
  <2>0. r \in Nat
    BY <1>1 DEF Rows, StateOK
  <2>1. c \in Call /\ c.pc = "load"
    BY <2>0 DEF Idle, Call, Step, Status, Active, Decision
  <2>2. fin' = [fin EXCEPT ![f] = c] /\ UNCHANGED <<runs, marker, tasks, commented>>
    BY <1>6 DEF Enter, Begin
  <2> HIDE DEF c
  <2> QED
    BY <1>4, <2>1, <2>2
<1>7. CASE Load(f)
  <2> DEFINE row == runs[b.run]
             next == AfterLoad(row)
             c == [b EXCEPT !.pc = next[1], !.decision = next[2], !.status = row.status]
  <2>1. b.pc = "load" /\ b.run \in Rows /\ UNCHANGED <<runs, marker, tasks, commented>>
    BY <1>0, <1>1, <1>7 DEF Load, At
  <2>2. CASE row.status \notin OwesWrite
    BY <1>0, <1>5, <1>7, <2>1, <2>2 DEF Load
  <2>3. CASE row.status \in OwesWrite
    <3>1. row.role \in Role /\ row.status \in Status
      <4>1. row \in Run
        BY <1>1, <2>1 DEF StateOK, Rows
      <4> QED
        BY <4>1 DEF Run
    <3>2. next \in {<<"transition", "written">>, <<"task", "override">>,
                    <<"mark", "needs_human">>, <<"existing", "routed">>}
      BY DEF AfterLoad
    <3>3. /\ next[1] = "transition" => ~Orchestrates(b.run)
          /\ next[1] = "existing" => Orchestrates(b.run) /\ Routed(b.run)
      BY <2>3, <3>1 DEF AfterLoad, Orchestrates, Routed, Role, OwesWrite, RescuableTerminal
    <3>4. fin' = [fin EXCEPT ![f] = c]
      BY <1>0, <1>1, <1>7, <2>3 DEF Load, StateOK
    <3>5. PICK e \in Call : /\ fin' = [fin EXCEPT ![f] = e]
                            /\ e.pc = next[1] /\ e.decision = next[2] /\ e.run = b.run
      <4>1. next[1] \in Step /\ next[2] \in Decision
        BY <3>2 DEF Step, Decision
      <4> HIDE DEF row, next
      <4>2. c \in Call /\ c.pc = next[1] /\ c.decision = next[2] /\ c.run = b.run
        BY <3>1, <4>1 DEF Call
      <4> QED
        BY <3>4, <4>2
    <3>6. \/ e.pc = "transition" /\ e.decision = "written" /\ ~Orchestrates(e.run)
          \/ e.pc = "task" /\ e.decision = "override"
          \/ e.pc = "mark" /\ e.decision = "needs_human"
          \/ /\ e.pc = "existing" /\ e.decision = "routed"
             /\ Orchestrates(e.run) /\ Routed(e.run)
      <4> HIDE DEF next, row, c
      <4> QED
        BY <3>2, <3>3, <3>5
    <3> HIDE DEF next, row, c
    <3>7. Honest(e.run, "needs_human")'
      BY DEF Honest
    <3> QED
      BY <1>2, <1>3, <2>1, <3>5, <3>6, <3>7 DEF RoutingStep
  <2> QED
    BY <2>2, <2>3
<1>8. CASE Transition(f)
  <2>1. b.pc = "transition" /\ Goto(f, "comment") /\ UNCHANGED <<runs, marker, tasks, commented>>
    BY <1>0, <1>8 DEF Transition, At
  <2>2. PICK c \in Call : /\ fin' = [fin EXCEPT ![f] = c] /\ c.pc = "comment"
                          /\ c.run = b.run /\ c.decision = b.decision
    BY <1>0, <1>1, <2>1, GotoCall DEF Step
  <2> QED
    BY <1>1, <1>2, <1>3, <2>1, <2>2 DEF CallSound, RoutingStep
<1>9. CASE AddComment(f)
  <2>1. /\ b.pc = "comment" /\ Goto(f, AfterComment(b))
        /\ UNCHANGED <<runs, marker, tasks>> /\ commented' = commented \cup {b.run}
    BY <1>0, <1>9 DEF AddComment, At
  <2>2. PICK c \in Call : /\ fin' = [fin EXCEPT ![f] = c] /\ c.pc = AfterComment(b)
                          /\ c.run = b.run /\ c.decision = b.decision
    BY <1>0, <1>1, <2>1, GotoCall DEF Step, AfterComment
  <2>3. TicketGrows /\ b.run \in commented'
    BY <2>1 DEF TicketGrows
  <2>4. CASE Orchestrates(b.run)
    BY <1>1, <1>2, <2>1, <2>2, <2>3, <2>4 DEF CallSound, RoutingStep, AfterComment
  <2>5. CASE ~Orchestrates(b.run)
    <3>1. Honest(c.run, c.decision)'
      BY <1>1, <2>1, <2>2, <2>3, <2>5 DEF CallSound, Honest
    <3> QED
      BY <1>2, <2>1, <2>2, <2>3, <2>5, <3>1 DEF RoutingStep, AfterComment
  <2> QED
    BY <2>4, <2>5
<1>10. CASE DecideTriage(f)
  <2>1. /\ b.pc = "triage" /\ UNCHANGED <<runs, marker, tasks, commented>>
        /\ \/ Decide(f, "task", "cycle_limit") \/ Decide(f, "trigger", "triaged")
           \/ Decide(f, "mark", "no_orchestrator")
    BY <1>0, <1>10 DEF DecideTriage, At
  <2>2. ~Orchestrates(b.run) /\ b.run \in commented
    BY <1>0, <1>1, <2>1 DEF PipelineInv, TriagesAreWorkers, CallSound
  <2>3. \E c \in Call : /\ fin' = [fin EXCEPT ![f] = c] /\ c.run = b.run
                        /\ <<c.pc, c.decision>> \in {<<"task", "cycle_limit">>,
                             <<"trigger", "triaged">>, <<"mark", "no_orchestrator">>}
    BY <1>0, <1>1, <2>1, DecideCall DEF Step, Decision
  <2>4. PICK c \in Call : /\ fin' = [fin EXCEPT ![f] = c] /\ c.run = b.run
                          /\ \/ c.pc = "task" /\ c.decision = "cycle_limit"
                             \/ c.pc = "trigger" /\ c.decision = "triaged"
                             \/ c.pc = "mark" /\ c.decision = "no_orchestrator"
    BY <2>3
  <2>5. Honest(c.run, "no_orchestrator")'
    BY DEF Honest
  <2> QED
    BY <1>2, <1>3, <2>1, <2>2, <2>4, <2>5 DEF RoutingStep
<1>11. CASE FindExisting(f)
  <2>1. /\ b.pc = "existing" /\ UNCHANGED <<runs, marker, tasks, commented>>
        /\ Goto(f, IF ReworkOf(b.run) # {} THEN "mark" ELSE "judge")
    BY <1>0, <1>11 DEF FindExisting, At
  <2>2. Orchestrates(b.run) /\ Routed(b.run) /\ b.decision = "routed"
    BY <1>1, <2>1 DEF CallSound, RoutingStep
  <2>3. PICK c \in Call : /\ fin' = [fin EXCEPT ![f] = c]
                          /\ c.pc = (IF ReworkOf(b.run) # {} THEN "mark" ELSE "judge")
                          /\ c.run = b.run /\ c.decision = b.decision
    BY <1>0, <1>1, <2>1, GotoCall DEF Step
  <2>4. c.pc = "mark" => Honest(c.run, "routed")'
    <3>1. Kept
      BY <2>1 DEF Kept, Rows
    <3> QED
      BY <2>3, <3>1, StartsStay DEF Honest
  <2> QED
    BY <1>2, <1>3, <2>1, <2>2, <2>3, <2>4 DEF RoutingStep
<1>12. CASE JudgeRouting(f) \/ FindActive(f)
  <2>1. /\ b.pc \in {"judge", "active"} /\ UNCHANGED <<runs, marker, tasks, commented>>
        /\ \/ Goto(f, "active") \/ Goto(f, "transition") \/ Decide(f, "task", "override")
    BY <1>0, <1>12 DEF JudgeRouting, FindActive, At
  <2>2. Orchestrates(b.run) /\ Routed(b.run) /\ b.decision = "routed"
    BY <1>1, <2>1 DEF CallSound, RoutingStep
  <2>3. CASE Decide(f, "task", "override")
    <3>1. PICK c \in Call : /\ fin' = [fin EXCEPT ![f] = c] /\ c.pc = "task"
                            /\ c.run = b.run /\ c.decision = "override"
      BY <1>0, <1>1, <2>3, DecideCall DEF Step, Decision
    <3> QED
      BY <1>2, <1>3, <2>1, <3>1 DEF RoutingStep
  <2>4. ASSUME NEW pc \in {"active", "transition"}, Goto(f, pc) PROVE DecisionInv'
    <3>1. PICK c \in Call : /\ fin' = [fin EXCEPT ![f] = c] /\ c.pc = pc
                            /\ c.run = b.run /\ c.decision = b.decision
      BY <1>0, <1>1, <2>4, GotoCall DEF Step
    <3> QED
      BY <1>2, <1>3, <2>1, <2>2, <2>4, <3>1 DEF RoutingStep
  <2> QED
    BY <2>1, <2>3, <2>4
<1>13. CASE Trigger(f)
  <2>1. b.pc = "trigger" /\ UNCHANGED <<marker, tasks, commented>>
    BY <1>0, <1>13 DEF Trigger, At
  <2>2. CASE runs' # runs
    BY <1>13, <2>2, StartDecision DEF Trigger
  <2>3. CASE runs' = runs /\ Decide(f, "task", "override")
    <3>1. PICK c \in Call : /\ fin' = [fin EXCEPT ![f] = c] /\ c.pc = "task"
                            /\ c.run = b.run /\ c.decision = "override"
      BY <1>0, <1>1, <2>3, DecideCall DEF Step, Decision
    <3> QED
      BY <1>2, <1>3, <2>1, <2>3, <3>1 DEF RoutingStep
  <2>4. CASE runs' = runs /\ Decide(f, "mark", "triage_deduplicated")
    <3>1. PICK c \in Call : /\ fin' = [fin EXCEPT ![f] = c] /\ c.pc = "mark"
                            /\ c.run = b.run /\ c.decision = "triage_deduplicated"
      BY <1>0, <1>1, <2>4, DecideCall DEF Step, Decision
    <3>2. Honest(c.run, "triage_deduplicated")'
      BY DEF Honest
    <3> QED
      BY <1>2, <1>3, <2>1, <2>4, <3>1, <3>2 DEF RoutingStep
  <2>5. CASE /\ IF Orchestrates(fin[f].run)
                THEN Insert("worker", "rework", fin[f].run)
                ELSE Insert("orchestrator", "triage", fin[f].run)
             /\ Goto(f, "mark")
    BY <1>13, <2>1, <2>5, StartDecision DEF Trigger
  <2> QED
    BY <1>13, <2>2, <2>3, <2>4, <2>5 DEF Trigger
<1>14. CASE CreateNonBlocking(f)
  <2>1. /\ b.pc = "task" /\ UNCHANGED <<runs, marker, commented>>
        /\ tasks' = tasks \cup {b.run} /\ Goto(f, "mark")
    BY <1>0, <1>14 DEF CreateNonBlocking, At
  <2>2. PICK c \in Call : /\ fin' = [fin EXCEPT ![f] = c] /\ c.pc = "mark"
                          /\ c.run = b.run /\ c.decision = b.decision
    BY <1>0, <1>1, <2>1, GotoCall DEF Step
  <2>3. Honest(c.run, c.decision)' /\ TicketGrows
    BY <1>1, <2>1, <2>2 DEF CallSound, Honest, TicketGrows
  <2> QED
    BY <1>2, <2>1, <2>2, <2>3 DEF RoutingStep
<1>15. CASE WriteMarker(f)
  <2>1. /\ b.pc = "mark" /\ UNCHANGED <<runs, tasks, commented>> /\ Return(f)
        /\ marker' = [marker EXCEPT ![b.run] = b.decision]
    BY <1>0, <1>15 DEF WriteMarker, At
  <2>2. Kept /\ SucceededFinal /\ NothingStarted /\ TicketGrows
    BY <2>1 DEF Kept, SucceededFinal, NothingStarted, TicketGrows, Rows
  <2>3. ASSUME NEW g \in Finishers, NEW c \in Call, fin'[g] = c PROVE CallSound(c)'
    <3>1. CASE g = f
      BY <1>1, <2>1, <2>3, <3>1 DEF Return, StateOK, Idle, CallSound, RoutingStep
    <3>2. CASE g # f
      <4>1. fin'[g] = fin[g]
        BY <1>1, <2>1, <3>2 DEF Return, StateOK
      <4> QED
        BY <2>2, <2>3, <4>1, OthersStay
    <3> QED
      BY <3>1, <3>2
  <2>4. ASSUME NEW r \in 1..MaxRuns, NEW d \in Decision, marker'[r] = d
        PROVE  Honest(r, d)'
    <3>1. CASE r = b.run
      <4>1. d = b.decision
        BY <1>1, <2>1, <2>4, <3>1 DEF StateOK
      <4>2. Honest(r, d)
        BY <1>1, <2>1, <3>1, <4>1 DEF CallSound
      <4> QED
        BY <2>2, <4>2, HonestStays
    <3>2. CASE r # b.run
      <4>1. marker'[r] = marker[r]
        BY <1>1, <2>1, <3>2 DEF StateOK
      <4> QED
        BY <2>2, <2>4, <4>1, OthersStay
    <3> QED
      BY <3>1, <3>2
  <2> QED
    BY <2>2, <2>3, <2>4, HistoryStays DEF DecisionInv
<1>16. CASE Abandon(f)
  BY <1>5, <1>16 DEF Abandon
<1> QED
  BY <1>6, <1>7, <1>8, <1>9, <1>10, <1>11, <1>12, <1>13, <1>14, <1>15, <1>16
     DEF DriftRepair, Proceed

\* Steps of runs leave comments, tasks, markers and calls alone.
LEMMA RunDecision ==
  ASSUME PipelineInv, DecisionInv, NewWork \/ \E r \in Rows : RunStep(r)
  PROVE  DecisionInv'
<1>1. StateOK
  BY DEF PipelineInv
<1>2. /\ Kept /\ SucceededFinal /\ NothingStarted
      /\ UNCHANGED <<marker, tasks, commented, fin>>
  BY <1>1, RunStepKeeps, RunStepSettled
<1>3. TicketGrows
  BY <1>2 DEF TicketGrows
<1>4. ASSUME NEW g \in Finishers, NEW c \in Call, fin'[g] = c PROVE CallSound(c)'
  BY <1>2, <1>3, <1>4, OthersStay
<1>5. ASSUME NEW r \in 1..MaxRuns, NEW d \in Decision, marker'[r] = d
      PROVE  Honest(r, d)'
  BY <1>2, <1>3, <1>5, OthersStay
<1> QED
  BY <1>2, <1>3, <1>4, <1>5, HistoryStays DEF DecisionInv

\* What the calls know and the markers claim is inductive.
LEMMA DecisionNext ==
  PipelineInv /\ DecisionInv /\ [Next]_vars => DecisionInv'
<1> SUFFICES ASSUME PipelineInv, DecisionInv, [Next]_vars PROVE DecisionInv'
  OBVIOUS
<1>1. CASE UNCHANGED vars
  <2>1. /\ Kept /\ SucceededFinal /\ NothingStarted /\ TicketGrows
        /\ UNCHANGED <<marker, fin>>
    BY <1>1 DEF vars, Kept, SucceededFinal, NothingStarted, TicketGrows, Rows
  <2>2. ASSUME NEW g \in Finishers, NEW c \in Call, fin'[g] = c PROVE CallSound(c)'
    BY <2>1, <2>2, OthersStay
  <2>3. ASSUME NEW r \in 1..MaxRuns, NEW d \in Decision, marker'[r] = d
        PROVE  Honest(r, d)'
    BY <2>1, <2>3, OthersStay
  <2> QED
    BY <2>1, <2>2, <2>3, HistoryStays DEF DecisionInv
<1> QED
  BY <1>1, RunDecision, CallDecision DEF Next, Act

\* The two invariants together, over any behaviour.
LEMMA DecisionInvariant == Spec => [](PipelineInv /\ DecisionInv)
<1>1. Init => PipelineInv /\ DecisionInv
  BY PipelineInit, DecisionInit
<1>2. PipelineInv /\ DecisionInv /\ [Next]_vars => (PipelineInv /\ DecisionInv)'
  BY PipelineNext, DecisionNext
<1> QED
  BY <1>1, <1>2, PTL DEF Spec

\* Jira first, for any number of overlapping calls: no rework or triage run is
\* in the database before its comment is on the issue (finishWorkerRun and
\* executeRouting write to Jira before RunTriggerService.trigger).
THEOREM PipelineJiraFirst == Spec => []JiraBeforeEnqueue
<1>1. DecisionInv => JiraBeforeEnqueue
  BY DEF DecisionInv
<1> QED
  BY <1>1, DecisionInvariant, PTL

\* A marker never claims what did not happen, however many calls overlap and
\* wherever they stop: the run it says was started exists, an overridden
\* decision left its task, a written one its comment (writeMarker).
THEOREM PipelineMarkersHonest == Spec => []HonestMarker
<1>1. PipelineInv /\ DecisionInv => HonestMarker
  <2> SUFFICES ASSUME PipelineInv, DecisionInv, NEW r \in Rows
               PROVE  Honest(r, marker[r])
    BY DEF HonestMarker, Honest
  <2>1. r \in 1..MaxRuns /\ marker[r] \in Decision
    BY BoundsAssumption DEF PipelineInv, StateOK, Rows
  <2> QED
    BY <2>1 DEF DecisionInv
<1> QED
  BY <1>1, DecisionInvariant, PTL

-----------------------------------------------------------------------------
(* Decisions executed once.                                                *)

PendingStep == {"judge"} \cup SpendingStep

\* Calls that have found no rework run of run r and may still start one.
Pending(r) == {f \in Finishers : fin[f].pc \in PendingStep /\ fin[f].run = r}

\* However many calls replay a decision, each starts at most one rework run.
DecidedPerCall ==
  \A r \in Rows : Cardinality(ReworkOf(r)) <= Cardinality(Finishers)

\* DecidedPerCall is not inductive: a call that has found no rework run will
\* start one even when another call has started one since.  The calls that have
\* looked count with the runs.
DecidedInv ==
  \A r \in Nat :
    Cardinality(ReworkOf(r)) + Cardinality(Pending(r)) <= Cardinality(Finishers)

\* The counted sets are finite, and a decision with no rework run keeps the bound.
LEMMA DecidedCounts ==
  ASSUME StateOK, NEW r \in Nat
  PROVE  /\ IsFiniteSet(ReworkOf(r)) /\ Cardinality(ReworkOf(r)) \in Nat
         /\ IsFiniteSet(Pending(r)) /\ Cardinality(Pending(r)) \in Nat
         /\ Cardinality(Pending(r)) <= Cardinality(Finishers)
         /\ Cardinality(Finishers) \in Nat
         /\ ReworkOf(r) = {} =>
              Cardinality(ReworkOf(r)) + Cardinality(Pending(r)) <= Cardinality(Finishers)
<1>1. IsFiniteSet(Rows)
  BY FS_Interval DEF StateOK, Rows
<1>2. ReworkOf(r) \subseteq Rows /\ Pending(r) \subseteq Finishers
  BY DEF ReworkOf, ReworkRuns, Pending
<1>3. IsFiniteSet(ReworkOf(r)) /\ IsFiniteSet(Pending(r))
      /\ Cardinality(Pending(r)) <= Cardinality(Finishers)
  BY <1>1, <1>2, FinishersAssumption, FS_Subset
<1>4. /\ Cardinality(ReworkOf(r)) \in Nat /\ Cardinality(Pending(r)) \in Nat
      /\ Cardinality(Finishers) \in Nat
  BY <1>3, FinishersAssumption, FS_CardinalityType
<1>5. ReworkOf(r) = {} => Cardinality(ReworkOf(r)) = 0
  BY FS_EmptySet
<1> QED
  BY <1>3, <1>4, <1>5

\* A step that starts no rework, in which a call joins the pending ones only
\* for a decision that has no rework run.
LEMMA DecidedShrinks ==
  ASSUME PipelineInv, StateOK', DecidedInv, Kept, NoNewRework,
         \A r \in Nat : Pending(r)' \subseteq Pending(r) \/ ReworkOf(r) = {}
  PROVE  DecidedInv'
<1> SUFFICES ASSUME NEW r \in Nat
             PROVE  (Cardinality(ReworkOf(r)) + Cardinality(Pending(r))
                       <= Cardinality(Finishers))'
  BY DEF DecidedInv
<1>1. ReworkOf(r)' = ReworkOf(r)
  <2>1. ReworkRuns' = ReworkRuns /\ ReworkRuns \subseteq Rows
    BY SameRework DEF ReworkRuns
  <2> QED
    BY <2>1 DEF ReworkOf, Kept
<1>2. CASE ReworkOf(r) = {}
  <2>1. ReworkOf(r)' = {}
    BY <1>1, <1>2
  <2>2. /\ Cardinality(Pending(r)') \in Nat
        /\ Cardinality(Pending(r)') <= Cardinality(Finishers)
        /\ Cardinality(Finishers) \in Nat
    BY FinishersAssumption, FS_Subset, FS_CardinalityType DEF Pending
  <2>3. Cardinality(ReworkOf(r)') = 0
    BY <2>1, FS_EmptySet
  <2> QED
    BY <2>2, <2>3
<1>3. CASE Pending(r)' \subseteq Pending(r)
  <2>1. /\ IsFiniteSet(Pending(r)) /\ Cardinality(Pending(r)) \in Nat
        /\ Cardinality(ReworkOf(r)) \in Nat /\ Cardinality(Finishers) \in Nat
    BY DecidedCounts DEF PipelineInv
  <2>2. /\ Cardinality(Pending(r)') <= Cardinality(Pending(r))
        /\ Cardinality(Pending(r)') \in Nat
    BY <1>3, <2>1, FS_Subset, FS_CardinalityType
  <2> QED
    BY <1>1, <2>1, <2>2 DEF DecidedInv
<1> QED
  BY <1>2, <1>3

\* Starting a rework run: the call that starts it was counted as pending.
LEMMA DecidedStart ==
  ASSUME PipelineInv, StateOK', DecidedInv, NEW f \in Finishers, At(f, "trigger"),
         Goto(f, "mark"), Orchestrates(fin[f].run),
         Insert("worker", "rework", fin[f].run)
  PROVE  DecidedInv'
<1>0. PICK q \in Nat : q = fin[f].run
  BY DEF PipelineInv, StateOK, Call
<1> DEFINE n == Len(runs) + 1
<1>1. StateOK
  BY DEF PipelineInv
<1>2. Len(runs') = n /\ Kept /\ runs'[n] = NewRun("worker", "rework", q)
  BY <1>0, <1>1, InsertKeeps DEF Role, Source
<1>3. Rows' = Rows \cup {n} /\ n \notin Rows
  BY <1>1, <1>2 DEF Rows, StateOK
<1> HIDE DEF n
<1>4. \A r \in Nat : ReworkOf(r)' = IF r = q THEN ReworkOf(r) \cup {n} ELSE ReworkOf(r)
  <2>1. runs'[n].source = "rework" /\ runs'[n].by = q
    BY <1>2 DEF NewRun
  <2> QED
    BY <1>2, <1>3, <2>1 DEF ReworkOf, ReworkRuns, Kept
<1>5. /\ \A g \in Finishers \ {f} : fin'[g] = fin[g]
      /\ fin'[f].pc = "mark"
  <2>1. fin[f] \in Call /\ fin \in [Finishers -> Call]
    BY <1>1 DEF StateOK
  <2>2. [fin[f] EXCEPT !.pc = "mark"].pc = "mark"
    BY <2>1 DEF Call
  <2> QED
    BY <2>1, <2>2 DEF Goto
<1>6. \A r \in Nat : Pending(r)' = Pending(r) \ {f}
  BY <1>5 DEF Pending, PendingStep, SpendingStep
<1>7. f \in Pending(q)
  BY <1>0 DEF Pending, PendingStep, SpendingStep, At
<1> SUFFICES ASSUME NEW r \in Nat
             PROVE  (Cardinality(ReworkOf(r)) + Cardinality(Pending(r))
                       <= Cardinality(Finishers))'
  BY DEF DecidedInv
<1>8. /\ IsFiniteSet(ReworkOf(r)) /\ Cardinality(ReworkOf(r)) \in Nat
      /\ IsFiniteSet(Pending(r)) /\ Cardinality(Pending(r)) \in Nat
      /\ Cardinality(Finishers) \in Nat
      /\ Cardinality(ReworkOf(r)) + Cardinality(Pending(r)) <= Cardinality(Finishers)
  BY <1>1, DecidedCounts DEF DecidedInv
<1>9. CASE r = q
  <2>1. n \notin ReworkOf(r) /\ ReworkOf(r)' = ReworkOf(r) \cup {n}
    BY <1>3, <1>4, <1>9 DEF ReworkOf, ReworkRuns
  <2>2. Cardinality(ReworkOf(r)') = Cardinality(ReworkOf(r)) + 1
    BY <1>8, <2>1, FS_AddElement
  <2>3. Cardinality(Pending(r)') = Cardinality(Pending(r)) - 1
    BY <1>6, <1>7, <1>8, <1>9, FS_RemoveElement
  <2> QED
    BY <1>8, <2>2, <2>3
<1>10. CASE r # q
  <2>1. Cardinality(Pending(r)') <= Cardinality(Pending(r)) /\ Cardinality(Pending(r)') \in Nat
    BY <1>6, <1>8, FS_Subset, FS_CardinalityType
  <2> QED
    BY <1>4, <1>8, <1>10, <2>1
<1> QED
  BY <1>9, <1>10

\* Only the decisions of orchestrator runs have rework runs.
LEMMA WorkersHaveNoRework ==
  ASSUME DecisionInv, NEW r, ReworkOf(r) # {}
  PROVE  Orchestrates(r) /\ Routed(r)
BY DEF DecisionInv, ReworkWasRouted, ReworkOf

\* Every step of a call of onRunFinished.
LEMMA CallDecided ==
  ASSUME PipelineInv, DecisionInv, PipelineInv', DecidedInv, NEW f \in Finishers,
         DriftRepair(f) \/ Proceed(f) \/ Abandon(f)
  PROVE  DecidedInv'
<1>0. fin[f] \in Call /\ fin \in [Finishers -> Call] /\ StateOK' /\ StateOK
  BY DEF PipelineInv, StateOK
<1> DEFINE Quiet == /\ runs' = runs
                    /\ \A g \in Finishers \ {f} : fin'[g] = fin[g]
                    /\ fin'[f].pc \in PendingStep =>
                         \/ fin'[f].run = fin[f].run /\ fin[f].pc \in PendingStep
                         \/ ReworkOf(fin'[f].run) = {}
<1>1. Quiet => DecidedInv'
  <2> SUFFICES ASSUME Quiet PROVE DecidedInv'
    OBVIOUS
  <2>1. Kept /\ NoNewRework
    BY DEF Kept, NoNewRework, Rows
  <2>2. \A r \in Nat : Pending(r)' \subseteq Pending(r) \/ ReworkOf(r) = {}
    BY DEF Pending
  <2> QED
    BY <1>0, <2>1, <2>2, DecidedShrinks
<1> USE DEF PendingStep, SpendingStep, Goto, Decide, Return, At, Call, Idle
<1>2. ASSUME NEW r \in Rows, Enter(f, r) PROVE Quiet
  BY <1>0, <1>2 DEF Enter, Begin
<1>3. ASSUME Load(f) PROVE Quiet
  <2>1. runs' = runs /\ \A g \in Finishers \ {f} : fin'[g] = fin[g]
    BY <1>0, <1>3 DEF Load
  <2>2. fin'[f].pc \in PendingStep => ReworkOf(fin'[f].run) = {}
    <3>1. CASE Return(f)
      BY <1>0, <3>1
    <3>2. CASE ~Return(f)
      <4>1. /\ fin'[f].pc = AfterLoad(runs[fin[f].run])[1]
            /\ fin'[f].run = fin[f].run
        BY <1>0, <1>3, <3>2 DEF Load
      <4>2. fin'[f].pc \in PendingStep => ~Orchestrates(fin'[f].run)
        BY <4>1 DEF AfterLoad, Orchestrates
      <4> QED
        BY <4>1, <4>2, WorkersHaveNoRework
    <3> QED
      BY <3>1, <3>2
  <2> QED
    BY <2>1, <2>2
<1>4. ASSUME Transition(f) PROVE Quiet
  BY <1>0, <1>4 DEF Transition
<1>5. ASSUME AddComment(f) PROVE Quiet
  BY <1>0, <1>5 DEF AddComment
<1>6. ASSUME DecideTriage(f) PROVE Quiet
  <2>1. ~Orchestrates(fin[f].run)
    BY <1>6 DEF DecideTriage, PipelineInv, TriagesAreWorkers
  <2>2. fin'[f].run = fin[f].run /\ runs' = runs
        /\ \A g \in Finishers \ {f} : fin'[g] = fin[g]
    BY <1>0, <1>6 DEF DecideTriage
  <2> QED
    BY <2>1, <2>2, WorkersHaveNoRework
<1>7. ASSUME FindExisting(f) PROVE Quiet
  <2>1. /\ fin'[f].run = fin[f].run /\ runs' = runs
        /\ fin'[f].pc = IF ReworkOf(fin[f].run) # {} THEN "mark" ELSE "judge"
        /\ \A g \in Finishers \ {f} : fin'[g] = fin[g]
    BY <1>0, <1>7 DEF FindExisting
  <2> QED
    BY <2>1
<1>8. ASSUME JudgeRouting(f) \/ FindActive(f) PROVE Quiet
  BY <1>0, <1>8 DEF JudgeRouting, FindActive
<1>9. ASSUME CreateNonBlocking(f) \/ WriteMarker(f) \/ Abandon(f) PROVE Quiet
  BY <1>0, <1>9 DEF CreateNonBlocking, WriteMarker, Abandon
<1>10. CASE Trigger(f)
  <2>1. CASE Orchestrates(fin[f].run) /\ Insert("worker", "rework", fin[f].run)
              /\ Goto(f, "mark")
    BY <1>0, <1>10, <2>1, DecidedStart DEF Trigger
  <2>2. CASE ~Orchestrates(fin[f].run) /\ Insert("orchestrator", "triage", fin[f].run)
              /\ Goto(f, "mark")
    <3>2. /\ Len(runs') = Len(runs) + 1 /\ Kept
          /\ runs'[Len(runs')] = NewRun("orchestrator", "triage", fin[f].run)
      BY <1>0, <2>2, InsertKeeps DEF Role, Source
    <3>3. Rows' \ Rows = {Len(runs')}
      BY <1>0, <3>2 DEF Rows, StateOK
    <3>4. NoNewRework
      BY <3>2, <3>3 DEF NoNewRework, NewRun
    <3>5. /\ \A g \in Finishers \ {f} : fin'[g] = fin[g]
          /\ fin'[f].pc = "mark"
      BY <1>0, <2>2
    <3>6. \A r \in Nat : Pending(r)' \subseteq Pending(r)
      BY <3>5 DEF Pending
    <3> QED
      BY <1>0, <3>2, <3>4, <3>6, DecidedShrinks
  <2>3. ASSUME runs' = runs,
               Decide(f, "task", "override") \/ Decide(f, "mark", "triage_deduplicated")
        PROVE  Quiet
    BY <1>0, <2>3
  <2> QED
    BY <1>1, <1>10, <2>1, <2>2, <2>3 DEF Trigger
<1> HIDE DEF Quiet
<1> QED
  BY <1>1, <1>2, <1>3, <1>4, <1>5, <1>6, <1>7, <1>8, <1>9, <1>10
     DEF DriftRepair, Proceed

\* The count is inductive.
LEMMA DecidedInvariant == Spec => [](PipelineInv /\ DecisionInv /\ DecidedInv)
<1>1. Init => DecidedInv
  <2> SUFFICES ASSUME Init, NEW r \in Nat
               PROVE  Cardinality(ReworkOf(r)) + Cardinality(Pending(r))
                        <= Cardinality(Finishers)
    BY DEF DecidedInv
  <2>1. StateOK
    BY PipelineInit DEF PipelineInv
  <2>2. ReworkOf(r) = {}
    BY DEF Init, ReworkOf, ReworkRuns, Rows
  <2> QED
    BY <2>1, <2>2, DecidedCounts
<1>2. PipelineInv /\ DecisionInv /\ PipelineInv' /\ DecidedInv /\ [Next]_vars => DecidedInv'
  <2> SUFFICES ASSUME PipelineInv, DecisionInv, PipelineInv', DecidedInv, [Next]_vars
               PROVE  DecidedInv'
    OBVIOUS
  <2>0. StateOK /\ StateOK'
    BY DEF PipelineInv
  <2>1. CASE NewWork \/ \E r \in Rows : RunStep(r)
    <3>1. Kept /\ NoNewRework /\ fin' = fin
      BY <2>0, <2>1, RunStepKeeps
    <3>2. \A r \in Nat : Pending(r)' \subseteq Pending(r)
      BY <3>1 DEF Pending
    <3> QED
      BY <2>0, <3>1, <3>2, DecidedShrinks
  <2>2. CASE UNCHANGED vars
    <3>1. Kept /\ NoNewRework /\ fin' = fin
      BY <2>2 DEF vars, Kept, NoNewRework, Rows
    <3>2. \A r \in Nat : Pending(r)' \subseteq Pending(r)
      BY <3>1 DEF Pending
    <3> QED
      BY <2>0, <3>1, <3>2, DecidedShrinks
  <2> QED
    BY <2>1, <2>2, CallDecided DEF Next, Act
<1> QED
  BY <1>1, <1>2, PipelineInit, PipelineNext, DecisionInvariant, PTL DEF Spec

\* For any number of overlapping calls: a decision starts no more rework runs
\* than there are calls that can replay it at the same time.
THEOREM PipelineDecidedPerCall == Spec => []DecidedPerCall
<1>1. PipelineInv /\ DecidedInv => DecidedPerCall
  <2> SUFFICES ASSUME PipelineInv, DecidedInv, NEW r \in Rows
               PROVE  Cardinality(ReworkOf(r)) <= Cardinality(Finishers)
    BY DEF DecidedPerCall
  <2>1. r \in Nat
    BY DEF PipelineInv, StateOK, Rows
  <2> QED
    BY <2>1, DecidedCounts DEF PipelineInv, DecidedInv
<1> QED
  BY <1>1, DecidedInvariant, PTL

-----------------------------------------------------------------------------
(* Decisions that no two calls raced for.                                  *)

\* DecidedOnce is not inductive: a call that has found no rework run will start
\* one.  Unless two calls raced for it, one call at a time decides on a run,
\* and while it does the run has no rework run yet.
DecidedAlone ==
  \A r \in Nat \ raced :
    /\ \A f, g \in Finishers :
         Deciding(f) /\ Deciding(g) /\ fin[f].run = r /\ fin[g].run = r => f = g
    /\ \A f \in Finishers : Deciding(f) /\ fin[f].run = r => ReworkOf(r) = {}
    /\ \A j, k \in ReworkOf(r) : j = k

\* Two calls that decide on a run together are a race, which is recorded.
LEMMA RaceRecorded ==
  ASSUME PipelineInv', History
  PROVE  /\ raced \subseteq raced'
         /\ \A r \in Nat \ raced' : \A f, g \in Finishers :
              (Deciding(f) /\ Deciding(g) /\ fin[f].run = r /\ fin[g].run = r)'
                => f = g
<1>1. raced' = raced \cup Racing'
  BY DEF History
<1>2. \A f \in Finishers : Deciding(f)' => fin'[f].run \in Rows'
  BY DEF Deciding, PipelineInv, CallsHaveRows
<1> QED
  BY <1>1, <1>2 DEF Racing

\* A step that starts no rework, in which a call turns to deciding only on a run
\* that has no rework run.
LEMMA AloneStays ==
  ASSUME PipelineInv, PipelineInv', DecidedAlone, History, Kept, NoNewRework,
         \A f \in Finishers :
           Deciding(f)' => \/ Deciding(f) /\ fin'[f].run = fin[f].run
                           \/ ReworkOf(fin'[f].run) = {}
  PROVE  DecidedAlone'
<1>1. \A r : ReworkOf(r)' = ReworkOf(r)
  <2>1. ReworkRuns' = ReworkRuns /\ ReworkRuns \subseteq Rows
    BY SameRework DEF ReworkRuns
  <2> QED
    BY <2>1 DEF ReworkOf, Kept
<1> SUFFICES ASSUME NEW r \in Nat \ raced'
             PROVE  /\ \A f \in Finishers :
                         Deciding(f)' /\ fin'[f].run = r => ReworkOf(r)' = {}
                    /\ \A j, k \in ReworkOf(r)' : j = k
  BY RaceRecorded DEF DecidedAlone
<1>2. r \in Nat \ raced
  BY RaceRecorded
<1> QED
  BY <1>1, <1>2 DEF DecidedAlone

\* Starting a rework run: the call that starts it was the only one deciding.
LEMMA AloneStarts ==
  ASSUME PipelineInv, PipelineInv', DecidedAlone, History, NEW f \in Finishers,
         At(f, "trigger"), Goto(f, "mark"), Orchestrates(fin[f].run),
         Insert("worker", "rework", fin[f].run)
  PROVE  DecidedAlone'
<1>0. PICK q \in Nat : q = fin[f].run
  BY DEF PipelineInv, StateOK, Call
<1> DEFINE n == Len(runs) + 1
<1>1. StateOK
  BY DEF PipelineInv
<1>2. Len(runs') = n /\ Kept /\ runs'[n] = NewRun("worker", "rework", q)
  BY <1>0, <1>1, InsertKeeps DEF Role, Source
<1>3. Rows' = Rows \cup {n} /\ n \notin Rows
  BY <1>1, <1>2 DEF Rows, StateOK
<1> HIDE DEF n
<1>4. \A r \in Nat : ReworkOf(r)' = IF r = q THEN ReworkOf(r) \cup {n} ELSE ReworkOf(r)
  <2>1. runs'[n].source = "rework" /\ runs'[n].by = q
    BY <1>2 DEF NewRun
  <2> QED
    BY <1>2, <1>3, <2>1 DEF ReworkOf, ReworkRuns, Kept
<1>5. /\ \A g \in Finishers \ {f} : fin'[g] = fin[g]
      /\ fin'[f].pc = "mark"
  <2>1. fin[f] \in Call /\ fin \in [Finishers -> Call]
    BY <1>1 DEF StateOK
  <2>2. [fin[f] EXCEPT !.pc = "mark"].pc = "mark"
    BY <2>1 DEF Call
  <2> QED
    BY <2>1, <2>2 DEF Goto
<1>6. Deciding(f) /\ ~Deciding(f)'
  BY <1>5 DEF Deciding, At
<1>7. \A g \in Finishers : Deciding(g)' => g # f /\ Deciding(g) /\ fin'[g] = fin[g]
  BY <1>5, <1>6 DEF Deciding
<1> SUFFICES ASSUME NEW r \in Nat \ raced'
             PROVE  /\ \A g \in Finishers :
                         Deciding(g)' /\ fin'[g].run = r => ReworkOf(r)' = {}
                    /\ \A j, k \in ReworkOf(r)' : j = k
  BY RaceRecorded DEF DecidedAlone
<1>8. r \in Nat \ raced
  BY RaceRecorded
<1>9. CASE r = q
  <2>1. ReworkOf(r) = {} /\ ReworkOf(r)' = {n}
    BY <1>0, <1>4, <1>6, <1>8, <1>9 DEF DecidedAlone
  <2>2. \A g \in Finishers : ~(Deciding(g)' /\ fin'[g].run = r)
    BY <1>0, <1>6, <1>7, <1>8, <1>9 DEF DecidedAlone
  <2> QED
    BY <2>1, <2>2
<1>10. CASE r # q
  BY <1>4, <1>7, <1>8, <1>10 DEF DecidedAlone
<1> QED
  BY <1>9, <1>10

\* Every step of a call of onRunFinished.
LEMMA CallAlone ==
  ASSUME PipelineInv, DecisionInv, PipelineInv', DecidedAlone, History,
         NEW f \in Finishers, DriftRepair(f) \/ Proceed(f) \/ Abandon(f)
  PROVE  DecidedAlone'
<1>0. fin[f] \in Call /\ fin \in [Finishers -> Call] /\ StateOK' /\ StateOK
  BY DEF PipelineInv, StateOK
<1> DEFINE Quiet == /\ runs' = runs
                    /\ \A g \in Finishers \ {f} : fin'[g] = fin[g]
                    /\ Deciding(f)' =>
                         \/ fin'[f].run = fin[f].run /\ Deciding(f)
                         \/ ReworkOf(fin'[f].run) = {}
<1>1. Quiet => DecidedAlone'
  <2> SUFFICES ASSUME Quiet PROVE DecidedAlone'
    OBVIOUS
  <2>1. Kept /\ NoNewRework
    BY DEF Kept, NoNewRework, Rows
  <2>2. \A g \in Finishers :
          Deciding(g)' => \/ Deciding(g) /\ fin'[g].run = fin[g].run
                          \/ ReworkOf(fin'[g].run) = {}
    BY DEF Deciding
  <2> QED
    BY <2>1, <2>2, AloneStays
<1> USE DEF Deciding, Goto, Decide, Return, At, Call, Idle
<1>2. ASSUME NEW r \in Rows, Enter(f, r) PROVE Quiet
  BY <1>0, <1>2 DEF Enter, Begin
<1>3. ASSUME Load(f) PROVE Quiet
  <2>1. runs' = runs /\ \A g \in Finishers \ {f} : fin'[g] = fin[g]
    BY <1>0, <1>3 DEF Load
  <2>2. Deciding(f)' => ReworkOf(fin'[f].run) = {}
    <3>1. CASE Return(f)
      BY <1>0, <3>1
    <3>2. CASE ~Return(f)
      <4>1. /\ fin'[f].pc = AfterLoad(runs[fin[f].run])[1]
            /\ fin'[f].run = fin[f].run
        BY <1>0, <1>3, <3>2 DEF Load
      <4>2. Deciding(f)' => ~(Orchestrates(fin[f].run) /\ Routed(fin[f].run))
        BY <4>1 DEF AfterLoad, Orchestrates, Routed, RescuableTerminal
      <4> QED
        BY <4>1, <4>2, WorkersHaveNoRework
    <3> QED
      BY <3>1, <3>2
  <2> QED
    BY <2>1, <2>2
<1>4. ASSUME Transition(f) PROVE Quiet
  BY <1>0, <1>4 DEF Transition
<1>5. ASSUME AddComment(f) PROVE Quiet
  BY <1>0, <1>5 DEF AddComment
<1>6. ASSUME DecideTriage(f) PROVE Quiet
  <2>1. ~Orchestrates(fin[f].run)
    BY <1>6 DEF DecideTriage, PipelineInv, TriagesAreWorkers
  <2>2. fin'[f].run = fin[f].run /\ runs' = runs
        /\ \A g \in Finishers \ {f} : fin'[g] = fin[g]
    BY <1>0, <1>6 DEF DecideTriage
  <2> QED
    BY <2>1, <2>2, WorkersHaveNoRework
<1>7. ASSUME FindExisting(f) PROVE Quiet
  <2>1. /\ fin'[f].run = fin[f].run /\ runs' = runs
        /\ fin'[f].pc = IF ReworkOf(fin[f].run) # {} THEN "mark" ELSE "judge"
        /\ \A g \in Finishers \ {f} : fin'[g] = fin[g]
    BY <1>0, <1>7 DEF FindExisting
  <2> QED
    BY <2>1
<1>8. ASSUME JudgeRouting(f) \/ FindActive(f) PROVE Quiet
  BY <1>0, <1>8 DEF JudgeRouting, FindActive
<1>9. ASSUME CreateNonBlocking(f) \/ WriteMarker(f) \/ Abandon(f) PROVE Quiet
  BY <1>0, <1>9 DEF CreateNonBlocking, WriteMarker, Abandon
<1>10. CASE Trigger(f)
  <2>1. CASE Orchestrates(fin[f].run) /\ Insert("worker", "rework", fin[f].run)
              /\ Goto(f, "mark")
    BY <1>0, <1>10, <2>1, AloneStarts DEF Trigger
  <2>2. CASE ~Orchestrates(fin[f].run) /\ Insert("orchestrator", "triage", fin[f].run)
              /\ Goto(f, "mark")
    <3>2. /\ Len(runs') = Len(runs) + 1 /\ Kept
          /\ runs'[Len(runs')] = NewRun("orchestrator", "triage", fin[f].run)
      BY <1>0, <2>2, InsertKeeps DEF Role, Source
    <3>3. Rows' \ Rows = {Len(runs')}
      BY <1>0, <3>2 DEF Rows, StateOK
    <3>4. NoNewRework
      BY <3>2, <3>3 DEF NoNewRework, NewRun
    <3>5. /\ \A g \in Finishers \ {f} : fin'[g] = fin[g]
          /\ fin'[f].pc = "mark"
      BY <1>0, <2>2
    <3>6. \A g \in Finishers :
            Deciding(g)' => Deciding(g) /\ fin'[g].run = fin[g].run
      BY <3>5
    <3> QED
      BY <1>0, <3>2, <3>4, <3>6, AloneStays
  <2>3. ASSUME runs' = runs,
               Decide(f, "task", "override") \/ Decide(f, "mark", "triage_deduplicated")
        PROVE  Quiet
    BY <1>0, <1>10, <2>3 DEF Trigger
  <2> QED
    BY <1>1, <1>10, <2>1, <2>2, <2>3 DEF Trigger
<1> HIDE DEF Quiet
<1> QED
  BY <1>1, <1>2, <1>3, <1>4, <1>5, <1>6, <1>7, <1>8, <1>9, <1>10
     DEF DriftRepair, Proceed

\* DecidedAlone is inductive, with the invariants of rows and decisions.
LEMMA AloneInvariant ==
  Spec => [](PipelineInv /\ DecisionInv /\ DecidedAlone)
<1>1. Init => DecidedAlone
  <2> SUFFICES ASSUME Init PROVE DecidedAlone
    OBVIOUS
  <2>1. \A r : ReworkOf(r) = {}
    BY DEF Init, ReworkOf, ReworkRuns, Rows
  <2>2. \A f \in Finishers : ~Deciding(f)
    BY DEF Init, Idle, Deciding
  <2> QED
    BY <2>1, <2>2 DEF DecidedAlone
<1>2. PipelineInv /\ DecisionInv /\ PipelineInv' /\ DecidedAlone /\ [Next]_vars
        => DecidedAlone'
  <2> SUFFICES ASSUME PipelineInv, DecisionInv, PipelineInv', DecidedAlone, [Next]_vars
               PROVE  DecidedAlone'
    OBVIOUS
  <2>1. CASE UNCHANGED vars
    BY <2>1 DEF vars, DecidedAlone, Deciding, ReworkOf, ReworkRuns, Rows
  <2>2. CASE History /\ (NewWork \/ \E r \in Rows : RunStep(r))
    <3>1. Kept /\ NoNewRework /\ fin' = fin
      BY <2>2, RunStepKeeps DEF PipelineInv
    <3>2. \A f \in Finishers : Deciding(f)' => Deciding(f) /\ fin'[f].run = fin[f].run
      BY <3>1 DEF Deciding
    <3> QED
      BY <2>2, <3>1, <3>2, AloneStays
  <2> QED
    BY <2>1, <2>2, CallAlone DEF Next, Act
<1> QED
  BY <1>1, <1>2, PipelineInit, PipelineNext, DecisionInvariant, PTL DEF Spec

\* For any number of calls, overlapping as they may: however often a decision
\* is replayed, and wherever the calls before stopped, it starts at most one
\* rework run, unless two calls both looked for that run before either acted
\* (findExistingReworkRun).  PipelineDecidedPerCall bounds what is left.
THEOREM PipelineDecidedOnce == Spec => []DecidedOnce
<1>1. PipelineInv /\ DecidedAlone => DecidedOnce
  <2> SUFFICES ASSUME PipelineInv, DecidedAlone, NEW r \in Rows \ raced
               PROVE  Cardinality(ReworkOf(r)) <= 1
    BY DEF DecidedOnce
  <2>1. r \in Nat \ raced
    BY DEF PipelineInv, StateOK, Rows
  <2>2. \A j, k \in ReworkOf(r) : j = k
    BY <2>1 DEF DecidedAlone
  <2>3. CASE ReworkOf(r) = {}
    BY <2>3, FS_EmptySet
  <2>4. CASE ReworkOf(r) # {}
    <3>1. PICK k : ReworkOf(r) = {k}
      BY <2>2, <2>4
    <3>2. Cardinality(ReworkOf(r)) = 1
      BY <3>1, FS_Singleton
    <3> QED
      BY <3>2
  <2> QED
    BY <2>3, <2>4
<1> QED
  BY <1>1, AloneInvariant, PTL

\* Under the same exemption: once the rework run of a decision exists, no replay
\* hands the decision to a human as overridden (processOrchestratorDecision looks
\* for the existing run before it judges).
THEOREM PipelineNotRejudged == Spec => ReplayNotRejudged
<1> DEFINE Inv == PipelineInv /\ DecisionInv /\ DecidedAlone
           Step1 == \A r \in Rows \ raced' :
                      ReworkOf(r) # {} /\ r \in tasks' => r \in tasks
<1>1. Inv /\ [Next]_vars => [Step1]_vars
  <2> SUFFICES ASSUME Inv, Next PROVE Step1
    OBVIOUS
  <2> USE DEF ticket
  <2>0. raced \subseteq raced'
    BY DEF Next, History
  <2>1. CASE NewWork \/ \E r \in Rows : RunStep(r)
    BY <2>1, RunStepKeeps DEF PipelineInv
  <2>2. ASSUME NEW f \in Finishers, CreateNonBlocking(f) PROVE Step1
    <3>1. fin[f].run \in Nat /\ Deciding(f)
      BY <2>2 DEF PipelineInv, StateOK, Call, CreateNonBlocking, At, Deciding
    <3>2. tasks' = tasks \cup {fin[f].run}
      BY <2>2 DEF CreateNonBlocking
    <3>3. fin[f].run \notin raced => ReworkOf(fin[f].run) = {}
      BY <3>1 DEF DecidedAlone
    <3> QED
      BY <2>0, <3>2, <3>3
  <2>3. ASSUME NEW f \in Finishers, DriftRepair(f) \/ Proceed(f) \/ Abandon(f),
               ~CreateNonBlocking(f)
        PROVE  tasks' = tasks
    BY <2>3 DEF DriftRepair, Proceed, Abandon, Enter, Load, Transition, AddComment,
                DecideTriage, FindExisting, JudgeRouting, FindActive, Trigger, WriteMarker
  <2> QED
    BY <2>1, <2>2, <2>3 DEF Next, Act
<1> QED
  BY <1>1, AloneInvariant, PTL DEF Spec, ReplayNotRejudged
=============================================================================
