------------------------ MODULE RunCompletionProofs ------------------------
(***************************************************************************)
(* Proofs about RunCompletion, for every set of report outcomes, every     *)
(* handoff and every max_attempts.                                         *)
(*                                                                         *)
(* The inductive invariant is the type invariant with two facts about the  *)
(* worker.  Once it consumes an outbox file it handles one of the exits    *)
(* that read the file: without that fact the write that follows the        *)
(* consumption could put "rate_limit" or "retry" in the status column.     *)
(* And a job that goes back for a retry has an attempt left.               *)
(***************************************************************************)
EXTENDS RunCompletion, TLAPS

ExitReadsOutbox ==
  worker.at \in {"flipped", "consuming", "attaching"}
    => worker.exit \in {"completed", "timeout", "cancelled"}

RetryHasAttempts == worker.at = "requeued" => attemptsMade < MaxAttempts

TypeInv == TypeOK /\ ExitReadsOutbox /\ RetryHasAttempts

\* What complete_task may file is a report or the malformed one.
LEMMA FiledTyped == Filed \subseteq Report \cup {Malformed}
  BY OutcomesAssumption, HandoffsAssumption
     DEF Filed, Report, Malformed, ReportOutcome

-----------------------------------------------------------------------------
(* The type invariant, one lemma per actor and one step per action.        *)

\* Steps of the worker keep the inductive type invariant.
LEMMA WorkerStepType == TypeInv /\ WorkerStep => TypeInv'
<1> SUFFICES ASSUME TypeInv, WorkerStep PROVE TypeInv'
  OBVIOUS
<1> USE OutcomesAssumption, HandoffsAssumption, MaxAttemptsAssumption
    DEF TypeInv, TypeOK, ExitReadsOutbox, RetryHasAttempts, Status, Active,
        Terminal, ReportOutcome, ExitStatus, Report, NoReport, Malformed,
        rowVars, jobVars
<1>1. CASE PickUp
  BY <1>1 DEF PickUp, WorkerAt
<1>2. CASE RejectStaleArtifact
  BY <1>2 DEF RejectStaleArtifact, FinalizeStatus, GuardedFinalize, Flip,
           EndJob, IdleWorker
<1>3. CASE Hold
  BY <1>3 DEF Hold, ReturnJob, IdleWorker
<1>4. CASE Start
  <2>1. CASE Startable(status)
    BY <1>4, <2>1 DEF Start, MarkRunning, Startable, Flip, WorkerAt
  <2>2. CASE ~Startable(status)
    BY <1>4, <2>2 DEF Start, MarkRunning, Startable, Flip, EndJob, IdleWorker
  <2> QED
    BY <2>1, <2>2
<1>5. CASE ParkForScope
  BY <1>5 DEF ParkForScope, ParkRun, ParkIfStillRunning, Flip, EndJob,
           IdleWorker, IdleAgent
<1>6. CASE Spawn
  BY <1>6 DEF Spawn
<1>7. CASE FinalizeFromOutbox
  BY <1>7 DEF FinalizeFromOutbox, ExitIs, Valid, FinalizeWithReport,
           GuardedFinalize, Flip, ReportTerminalStatus, WorkerAt
<1>8. CASE ExitEffects
  BY <1>8 DEF ExitEffects
<1>9. CASE ExitConsume
  BY <1>9 DEF ExitConsume, FinalizeStatusIfRunning, Flip, MapExitAction, EndJob,
           IdleWorker
<1>10. CASE ExitLookForTask
  BY <1>10 DEF ExitLookForTask, ExitIs
<1>11. CASE ExitPark
  BY <1>11 DEF ExitPark, ParkIfStillRunning, Flip, EndJob, IdleWorker
<1>12. CASE ExitFailClosed
  BY <1>12 DEF ExitFailClosed, FailIfStillRunning, Flip, EndJob, IdleWorker
<1>13. CASE ExitAttach
  BY <1>13 DEF ExitAttach, ExitIs, Valid, WorkerAt
<1>14. CASE ExitInsertAttachment
  BY <1>14 DEF ExitInsertAttachment
<1>15. CASE ExitFinalize
  BY <1>15 DEF ExitFinalize, ExitIs, FinalizeStatusIfRunning, Flip,
           MapExitAction, EndJob, IdleWorker
<1>16. CASE ExitRetry
  <2>1. attemptsMade + 1 < MaxAttempts
    BY <1>16 DEF ExitRetry, ExitIs, MapExitAction
  <2> QED
    BY <1>16, <2>1 DEF ExitRetry, MarkQueuedForRetry, Flip, ExitIs
<1>17. CASE RetryJob
  BY <1>17 DEF RetryJob, ReturnJob, EndJob, IdleWorker
<1>18. CASE ExitRateLimited
  BY <1>18 DEF ExitRateLimited, ReturnJob, IdleWorker
<1>19. CASE WorkerCrash
  BY <1>19 DEF WorkerCrash, EndJob, IdleWorker, IdleAgent
<1> QED
  BY <1>1, <1>2, <1>3, <1>4, <1>5, <1>6, <1>7, <1>8, <1>9, <1>10, <1>11, <1>12, <1>13, <1>14, <1>15, <1>16, <1>17, <1>18, <1>19 DEF WorkerStep

\* Steps of the agent keep the inductive type invariant.
LEMMA AgentStepType == TypeInv /\ AgentStep => TypeInv'
<1> SUFFICES ASSUME TypeInv, AgentStep PROVE TypeInv'
  OBVIOUS
<1> USE OutcomesAssumption, HandoffsAssumption, MaxAttemptsAssumption
    DEF TypeInv, TypeOK, ExitReadsOutbox, RetryHasAttempts, Status, Active,
        Terminal, ReportOutcome, ExitStatus, Report, NoReport, Malformed,
        rowVars, jobVars
<1>1. CASE CallComplete
  BY <1>1, FiledTyped DEF CallComplete
<1>2. CASE AskHuman
  BY <1>2 DEF AskHuman
<1>3. CASE Resend
  BY <1>3 DEF Resend
<1>4. CASE GiveUp
  BY <1>4 DEF GiveUp, Returned
<1>5. CASE AgentExit
  BY <1>5 DEF AgentExit, WorkerAt, IdleAgent
<1>6. CASE Abort
  BY <1>6 DEF Abort, WorkerAt, IdleAgent
<1>7. CASE OrphanExit
  BY <1>7 DEF OrphanExit, IdleAgent
<1> QED
  BY <1>1, <1>2, <1>3, <1>4, <1>5, <1>6, <1>7 DEF AgentStep

\* Steps of the callback handlers keep the inductive type invariant.
LEMMA CallbackStepType == TypeInv /\ CallbackStep => TypeInv'
<1> SUFFICES ASSUME TypeInv, CallbackStep PROVE TypeInv'
  OBVIOUS
<1> USE OutcomesAssumption, HandoffsAssumption, MaxAttemptsAssumption
    DEF TypeInv, TypeOK, ExitReadsOutbox, RetryHasAttempts, Status, Active,
        Terminal, ReportOutcome, ExitStatus, Report, NoReport, Malformed,
        rowVars, jobVars
<1>1. CASE Arrive
  BY <1>1 DEF Arrive, Returned
<1>2. CASE RejectCompletion
  BY <1>2 DEF RejectCompletion, Answered, Returned, NoRequest
<1>3. CASE FinalizeFromCallback
  BY <1>3 DEF FinalizeFromCallback, Rejected, Valid, FinalizeWithReport,
           GuardedFinalize, Flip, ReportTerminalStatus, Answered, Returned,
           NoRequest
<1>4. CASE AcceptTeam
  BY <1>4 DEF AcceptTeam, Rejected, Valid, Answered, Returned, NoRequest
<1>5. CASE ApplyReportEffects
  BY <1>5 DEF ApplyReportEffects
<1>6. CASE Reply
  BY <1>6 DEF Reply, Returned, NoRequest
<1>7. CASE CreateTask
  BY <1>7 DEF CreateTask
<1>8. CASE ParkFromRequest
  BY <1>8 DEF ParkFromRequest, ParkRun, ParkIfStillRunning, Flip, Answered,
           Returned, NoRequest
<1>9. CASE BackendCrash
  BY <1>9 DEF BackendCrash, NoRequest
<1> QED
  BY <1>1, <1>2, <1>3, <1>4, <1>5, <1>6, <1>7, <1>8, <1>9 DEF CallbackStep

\* Steps of the outbox reconciler keep the inductive type invariant.
LEMMA SweepStepType == TypeInv /\ SweepStep => TypeInv'
<1> SUFFICES ASSUME TypeInv, SweepStep PROVE TypeInv'
  OBVIOUS
<1> USE OutcomesAssumption, HandoffsAssumption, MaxAttemptsAssumption
    DEF TypeInv, TypeOK, ExitReadsOutbox, RetryHasAttempts, Status, Active,
        Terminal, ReportOutcome, ExitStatus, Report, NoReport, Malformed,
        rowVars, jobVars
<1>1. CASE SweepRead
  BY <1>1 DEF SweepRead
<1>2. CASE SweepRescue
  BY <1>2 DEF SweepRescue, Valid, ReconcileWithReport, ReconcileGuard,
           ReportTerminalStatus, Conflicts, IdleSweep
<1>3. CASE SweepEffects
  BY <1>3 DEF SweepEffects
<1>4. CASE SweepAttach
  BY <1>4 DEF SweepAttach
<1>5. CASE SweepInsertAttachment
  BY <1>5 DEF SweepInsertAttachment
<1>6. CASE SweepLeave
  BY <1>6 DEF SweepLeave, IdleSweep
<1>7. CASE SweepDiscard
  BY <1>7 DEF SweepDiscard
<1>8. CASE SweepExpire
  <2>1. sweep' = [at |-> "consuming", status |-> "queued", outcome |-> "none",
                  report |-> Malformed]
    BY <1>8 DEF SweepExpire, IdleSweep
  <2> QED
    BY <1>8, <2>1 DEF SweepExpire
<1>9. CASE SweepConsume
  BY <1>9 DEF SweepConsume, IdleSweep
<1>10. CASE SweepCrash
  BY <1>10 DEF SweepCrash, IdleSweep
<1> QED
  BY <1>1, <1>2, <1>3, <1>4, <1>5, <1>6, <1>7, <1>8, <1>9, <1>10 DEF SweepStep

\* Steps of the watchdog keep the inductive type invariant.
LEMMA WatchdogStepType == TypeInv /\ WatchdogStep => TypeInv'
<1> SUFFICES ASSUME TypeInv, WatchdogStep PROVE TypeInv'
  OBVIOUS
<1> USE OutcomesAssumption, HandoffsAssumption, MaxAttemptsAssumption
    DEF TypeInv, TypeOK, ExitReadsOutbox, RetryHasAttempts, Status, Active,
        Terminal, ReportOutcome, ExitStatus, Report, NoReport, Malformed,
        rowVars, jobVars
<1>1. CASE WatchdogSelectRunning
  BY <1>1 DEF WatchdogSelectRunning
<1>2. CASE WatchdogSelectQueued
  BY <1>2 DEF WatchdogSelectQueued
<1>3. CASE WatchdogFinalize
  BY <1>3 DEF WatchdogFinalize, FinalizeStatus, GuardedFinalize, Flip
<1> QED
  BY <1>1, <1>2, <1>3 DEF WatchdogStep

\* Steps of people and the other runs of the ticket keep the inductive type invariant.
LEMMA PeopleStepType == TypeInv /\ PeopleStep => TypeInv'
<1> SUFFICES ASSUME TypeInv, PeopleStep PROVE TypeInv'
  OBVIOUS
<1> USE OutcomesAssumption, HandoffsAssumption, MaxAttemptsAssumption
    DEF TypeInv, TypeOK, ExitReadsOutbox, RetryHasAttempts, Status, Active,
        Terminal, ReportOutcome, ExitStatus, Report, NoReport, Malformed,
        rowVars, jobVars
<1>1. CASE Cancel
  BY <1>1 DEF Cancel, CancelRun, Flip
<1>2. CASE CancelAll
  BY <1>2 DEF CancelAll, CancelAllRun, Flip
<1>3. CASE CloseTask
  <2>1. taskOpen' \in BOOLEAN
    BY <1>3, Zenon DEF CloseTask
  <2> QED
    BY <1>3, <2>1 DEF CloseTask, SupersedeRun, Flip
<1>4. CASE Resume
  <2>1. taskOpen' \in BOOLEAN
    BY <1>4, Zenon DEF Resume
  <2> QED
    BY <1>4, <2>1 DEF Resume, SupersedeRun, Flip
<1>5. CASE OtherRunInserted
  BY <1>5 DEF OtherRunInserted
<1>6. CASE OtherRunEnds
  <2>1. slotTaken' \in BOOLEAN
    BY <1>6, Zenon DEF OtherRunEnds
  <2> QED
    BY <1>6, <2>1 DEF OtherRunEnds
<1> QED
  BY <1>1, <1>2, <1>3, <1>4, <1>5, <1>6 DEF PeopleStep

\* The inductive type invariant holds throughout.
LEMMA CompletionTypeInv == Spec => []TypeInv
<1>1. Init => TypeInv
  <2> SUFFICES ASSUME Init PROVE TypeInv
    OBVIOUS
  <2>1. started \in BOOLEAN /\ taskOpen \in BOOLEAN /\ slotTaken \in BOOLEAN
    BY Zenon DEF Init
  <2> QED
    BY <2>1, MaxAttemptsAssumption
       DEF Init, TypeInv, TypeOK, ExitReadsOutbox, RetryHasAttempts, Status,
           Active, IdleWorker, IdleAgent, NoRequest, IdleSweep, NoReport,
           ReportOutcome
<1>2. TypeInv /\ [Next]_vars => TypeInv'
  <2> SUFFICES ASSUME TypeInv, [Next]_vars PROVE TypeInv'
    OBVIOUS
  <2>1. CASE Next
    BY <2>1, WorkerStepType, AgentStepType, CallbackStepType, SweepStepType,
       WatchdogStepType, PeopleStepType DEF Next
  <2>2. CASE UNCHANGED vars
    BY <2>2 DEF vars, TypeInv, TypeOK, ExitReadsOutbox, RetryHasAttempts
  <2> QED
    BY <2>1, <2>2
<1> QED
  BY <1>1, <1>2, PTL DEF Spec

\* The columns, the file, the job and every actor's program counter stay in
\* their types, whatever the agent reports and however often a run is retried.
THEOREM CompletionTypeCorrect == Spec => []TypeOK
<1>1. TypeInv => TypeOK
  BY DEF TypeInv
<1> QED
  BY <1>1, CompletionTypeInv, PTL

-----------------------------------------------------------------------------
(* Every step of every actor is a step of the contract.                    *)

\* Steps that write neither the status nor the verdict.
Silent ==
  \/ PickUp \/ Hold \/ Spawn \/ ExitEffects \/ ExitLookForTask \/ ExitAttach
  \/ ExitInsertAttachment \/ RetryJob \/ ExitRateLimited \/ WorkerCrash
  \/ AgentStep
  \/ Arrive \/ RejectCompletion \/ ApplyReportEffects \/ Reply \/ CreateTask
  \/ BackendCrash
  \/ SweepRead \/ SweepEffects \/ SweepAttach \/ SweepInsertAttachment
  \/ SweepLeave \/ SweepDiscard \/ SweepExpire \/ SweepConsume \/ SweepCrash
  \/ WatchdogSelectRunning \/ WatchdogSelectQueued
  \/ OtherRunInserted \/ OtherRunEnds

LEMMA SilentStutters == Silent => UNCHANGED <<status, verdict>>
<1>1. AgentStep => UNCHANGED <<status, verdict>>
  BY DEF AgentStep, CallComplete, AskHuman, Resend, GiveUp, AgentExit, Abort,
         OrphanExit, rowVars
<1>2. ASSUME \/ Arrive \/ RejectCompletion \/ ApplyReportEffects \/ Reply
             \/ CreateTask \/ BackendCrash
      PROVE  UNCHANGED <<status, verdict>>
  BY <1>2 DEF Arrive, RejectCompletion, ApplyReportEffects, Reply, CreateTask,
              BackendCrash, rowVars
<1>3. ASSUME \/ SweepRead \/ SweepEffects \/ SweepAttach \/ SweepInsertAttachment
             \/ SweepLeave \/ SweepDiscard \/ SweepExpire \/ SweepConsume
             \/ SweepCrash
      PROVE  UNCHANGED <<status, verdict>>
  BY <1>3 DEF SweepRead, SweepEffects, SweepAttach, SweepInsertAttachment,
              SweepLeave, SweepDiscard, SweepExpire, SweepConsume, SweepCrash,
              rowVars
<1>4. ASSUME \/ PickUp \/ Hold \/ Spawn \/ ExitEffects \/ ExitLookForTask
             \/ ExitAttach \/ ExitInsertAttachment \/ RetryJob \/ ExitRateLimited
             \/ WorkerCrash
      PROVE  UNCHANGED <<status, verdict>>
  BY <1>4 DEF PickUp, Hold, Spawn, ExitEffects, ExitLookForTask, ExitAttach,
              ExitInsertAttachment, RetryJob, ExitRateLimited, WorkerCrash, rowVars
<1>5. ASSUME \/ WatchdogSelectRunning \/ WatchdogSelectQueued
             \/ OtherRunInserted \/ OtherRunEnds
      PROVE  UNCHANGED <<status, verdict>>
  BY <1>5 DEF WatchdogSelectRunning, WatchdogSelectQueued, OtherRunInserted,
              OtherRunEnds, rowVars
<1> QED
  BY <1>1, <1>2, <1>3, <1>4, <1>5 DEF Silent

\* The remaining steps of the worker write the row as the contract allows.
LEMMA WorkerWritesContract ==
  TypeInv /\ WorkerStep => Silent \/ [Contract!Next]_(Contract!vars)
<1> SUFFICES ASSUME TypeInv, WorkerStep
             PROVE  Silent \/ [Contract!Next]_(Contract!vars)
  OBVIOUS
<1> USE DEF TypeInv, TypeOK, ExitReadsOutbox, Status, Active, Terminal,
            Contract!Next, Contract!vars, Contract!Active
<1>1. CASE RejectStaleArtifact
  BY <1>1 DEF RejectStaleArtifact, FinalizeStatus, GuardedFinalize, Flip,
              Contract!Stop
<1>2. CASE Start
  BY <1>2 DEF Start, MarkRunning, Flip, Contract!Begin
<1>3. CASE ParkForScope
  BY <1>3 DEF ParkForScope, ParkRun, ParkIfStillRunning, Flip, Contract!Park
<1>4. CASE FinalizeFromOutbox
  BY <1>4 DEF FinalizeFromOutbox, Valid, FinalizeWithReport, GuardedFinalize,
              Flip, ReportTerminalStatus, ReportOutcome, Contract!Record,
              Contract!Settles, Contract!ReportTerminalStatus,
              Contract!ReconcileGuard, Contract!ReportOutcome
<1>5. CASE ExitConsume
  BY <1>5 DEF ExitConsume, FinalizeStatusIfRunning, Flip, MapExitAction,
              Contract!Stop, Contract!Cancel
<1>6. CASE ExitPark
  BY <1>6 DEF ExitPark, ParkIfStillRunning, Flip, Contract!Park
<1>7. CASE ExitFailClosed
  BY <1>7 DEF ExitFailClosed, FailIfStillRunning, Flip, Contract!Stop
<1>8. CASE ExitFinalize
  BY <1>8 DEF ExitFinalize, ExitIs, FinalizeStatusIfRunning, Flip, MapExitAction,
              Contract!Stop, Contract!Cancel
<1>9. CASE ExitRetry
  BY <1>9 DEF ExitRetry, MarkQueuedForRetry, Flip, Contract!Requeue
<1> QED
  BY <1>1, <1>2, <1>3, <1>4, <1>5, <1>6, <1>7, <1>8, <1>9 DEF WorkerStep, Silent

\* So do the remaining steps of the other actors.
LEMMA OthersWriteContract ==
  TypeInv /\ (CallbackStep \/ SweepStep \/ WatchdogStep \/ PeopleStep)
    => Silent \/ [Contract!Next]_(Contract!vars)
<1> SUFFICES ASSUME TypeInv, CallbackStep \/ SweepStep \/ WatchdogStep \/ PeopleStep
             PROVE  Silent \/ [Contract!Next]_(Contract!vars)
  OBVIOUS
<1> USE DEF TypeInv, TypeOK, Status, Active, Terminal, Contract!Next, Contract!vars,
            Contract!Active
<1>1. CASE FinalizeFromCallback
  BY <1>1 DEF FinalizeFromCallback, Rejected, Valid, FinalizeWithReport,
              GuardedFinalize, Flip, ReportTerminalStatus, ReportOutcome,
              Contract!Record, Contract!Settles, Contract!ReportTerminalStatus,
              Contract!ReconcileGuard, Contract!ReportOutcome
<1>2. CASE AcceptTeam
  BY <1>2 DEF AcceptTeam, Report, NoReport, Malformed, ReportOutcome,
              Contract!Record, Contract!Settles, Contract!ReportTerminalStatus,
              Contract!ReconcileGuard, Contract!ReportOutcome
<1>3. CASE ParkFromRequest
  BY <1>3 DEF ParkFromRequest, ParkRun, ParkIfStillRunning, Flip, Contract!Park
<1>4. CASE SweepRescue
  BY <1>4 DEF SweepRescue, Valid, ReconcileWithReport, ReconcileGuard, rowVars,
              ReportTerminalStatus, ReportOutcome, RescuableTerminal,
              Contract!Record, Contract!Settles, Contract!ReportTerminalStatus,
              Contract!ReconcileGuard, Contract!ReportOutcome,
              Contract!RescuableTerminal
<1>5. CASE WatchdogFinalize
  BY <1>5 DEF WatchdogFinalize, FinalizeStatus, GuardedFinalize, Flip,
              Contract!Stop
<1>6. CASE Cancel \/ CancelAll
  BY <1>6 DEF Cancel, CancelAll, CancelRun, CancelAllRun, Flip, Contract!Cancel
<1>7. CASE CloseTask \/ Resume
  BY <1>7 DEF CloseTask, Resume, SupersedeRun, Flip, Contract!Supersede
<1> QED
  BY <1>1, <1>2, <1>3, <1>4, <1>5, <1>6, <1>7
     DEF CallbackStep, SweepStep, WatchdogStep, PeopleStep, Silent

\* Every step of the detailed specification is a step of the contract, or none.
LEMMA ContractStep == TypeInv /\ [Next]_vars => [Contract!Next]_(Contract!vars)
<1> SUFFICES ASSUME TypeInv, [Next]_vars
             PROVE  [Contract!Next]_(Contract!vars)
  OBVIOUS
<1>1. CASE Silent
  BY <1>1, SilentStutters DEF Contract!vars
<1>2. CASE AgentStep
  BY <1>1, <1>2 DEF Silent
<1>3. CASE UNCHANGED vars
  BY <1>3 DEF vars, Contract!vars
<1> QED
  BY <1>1, <1>2, <1>3, WorkerWritesContract, OthersWriteContract DEF Next

\* The detailed specification implements the contract: whatever the six writers
\* do, and in whatever order, the row only makes the contract's steps.
THEOREM CompletionImplementsContract == Spec => ImplementsContract
<1>1. Init => Contract!Init
  BY DEF Init, Contract!Init, NoReport
<1> QED
  BY <1>1, ContractStep, CompletionTypeInv, PTL
     DEF Spec, ImplementsContract, Contract!Spec

-----------------------------------------------------------------------------
(* One active run per ticket.                                              *)

\* A step that leaves the other runs alone, and makes the row active only if it
\* was, cannot break SlotExclusive.
LEMMA StaysOutOfSlot ==
  ASSUME SlotExclusive, slotTaken' = slotTaken,
         status' \in Active => status \in Active
  PROVE  SlotExclusive'
BY DEF SlotExclusive

\* The row becomes active again only through the reconciler's rescue, which the
\* index refuses while the ticket's slot is taken.
LEMMA SlotStep == TypeInv /\ SlotExclusive /\ [Next]_vars => SlotExclusive'
<1> SUFFICES ASSUME TypeInv, SlotExclusive, [Next]_vars PROVE SlotExclusive'
  OBVIOUS
<1>1. CASE WorkerStep
  <2>1. slotTaken' = slotTaken
    BY <1>1 DEF WorkerStep, PickUp, RejectStaleArtifact, Hold, Start,
       ParkForScope, Spawn, FinalizeFromOutbox, ExitEffects, ExitConsume,
       ExitLookForTask, ExitPark, ExitFailClosed, ExitAttach,
       ExitInsertAttachment, ExitFinalize, ExitRetry, RetryJob, ExitRateLimited,
       WorkerCrash
  <2>2. status' \in Active => status \in Active
    <3>1. CASE Silent
      BY <3>1, SilentStutters
    <3>2. CASE RejectStaleArtifact \/ Start \/ ParkForScope \/ FinalizeFromOutbox
      BY <3>2 DEF RejectStaleArtifact, Start, ParkForScope, FinalizeFromOutbox,
         FinalizeStatus, FinalizeWithReport, GuardedFinalize, MarkRunning,
         ParkRun, ParkIfStillRunning, Flip, Active
    <3>3. CASE ExitConsume \/ ExitPark \/ ExitFailClosed \/ ExitFinalize \/ ExitRetry
      BY <3>3 DEF ExitConsume, ExitPark, ExitFailClosed, ExitFinalize, ExitRetry,
         FinalizeStatusIfRunning, ParkIfStillRunning, FailIfStillRunning,
         MarkQueuedForRetry, Flip, Active
    <3> QED
      BY <1>1, <3>1, <3>2, <3>3 DEF WorkerStep, Silent
  <2> QED
    BY <2>1, <2>2, StaysOutOfSlot
<1>2. CASE AgentStep
  BY <1>2, StaysOutOfSlot DEF AgentStep, CallComplete, AskHuman, Resend, GiveUp,
     AgentExit, Abort, OrphanExit, rowVars
<1>3. CASE CallbackStep
  <2>1. slotTaken' = slotTaken
    BY <1>3 DEF CallbackStep, Arrive, RejectCompletion, FinalizeFromCallback,
       AcceptTeam, ApplyReportEffects, Reply, CreateTask, ParkFromRequest,
       BackendCrash
  <2>2. status' \in Active => status \in Active
    <3>1. CASE Silent
      BY <3>1, SilentStutters
    <3>2. CASE FinalizeFromCallback \/ AcceptTeam \/ ParkFromRequest
      BY <3>2 DEF FinalizeFromCallback, AcceptTeam, ParkFromRequest,
         FinalizeWithReport, GuardedFinalize, ParkRun, ParkIfStillRunning, Flip,
         Active
    <3> QED
      BY <1>3, <3>1, <3>2 DEF CallbackStep, Silent
  <2> QED
    BY <2>1, <2>2, StaysOutOfSlot
<1>4. CASE SweepStep
  <2>1. slotTaken' = slotTaken
    BY <1>4 DEF SweepStep, SweepRead, SweepRescue, SweepEffects, SweepAttach,
       SweepInsertAttachment, SweepLeave, SweepDiscard, SweepExpire,
       SweepConsume, SweepCrash
  <2>2. CASE SweepRescue
    BY <2>1, <2>2 DEF SweepRescue, SlotExclusive, Conflicts, ReconcileWithReport,
       ReconcileGuard, rowVars
  <2>3. CASE Silent
    BY <2>1, <2>3, SilentStutters, StaysOutOfSlot
  <2> QED
    BY <1>4, <2>2, <2>3 DEF SweepStep, Silent
<1>5. CASE WatchdogStep
  BY <1>5, StaysOutOfSlot DEF WatchdogStep, WatchdogSelectRunning,
     WatchdogSelectQueued, WatchdogFinalize, FinalizeStatus, GuardedFinalize,
     Flip, Active, rowVars
<1>6. CASE Cancel \/ CancelAll \/ CloseTask
  BY <1>6, StaysOutOfSlot DEF Cancel, CancelAll, CloseTask, CancelRun,
     CancelAllRun, SupersedeRun, Flip, Active
<1>7. CASE Resume \/ OtherRunInserted \/ OtherRunEnds
  BY <1>7 DEF Resume, OtherRunInserted, OtherRunEnds, SlotExclusive, SupersedeRun,
     Flip, Active, rowVars
<1>8. CASE UNCHANGED vars
  BY <1>8 DEF vars, SlotExclusive
<1> QED
  BY <1>1, <1>2, <1>3, <1>4, <1>5, <1>6, <1>7, <1>8 DEF Next, PeopleStep

\* The run and another run of its ticket are never active together, although a
\* late report may bring a failed run back to awaiting_human.
THEOREM CompletionSlotExclusive == Spec => []SlotExclusive
<1>1. Init => SlotExclusive
  BY DEF Init, SlotExclusive
<1> QED
  BY <1>1, SlotStep, CompletionTypeInv, PTL DEF Spec

-----------------------------------------------------------------------------
(* What the contract gives its implementation.                             *)

\* The verdict and the status of a run agree in every state of the contract: succeeded
\* needs a successful report, a failure report means failed.  The two invariants are
\* inductive together: a guard on the status says nothing of the outcome unless the
\* outcome is known to match the status.
THEOREM ContractStatusMatchesOutcome ==
  Contract!Spec => [](Contract!TypeOK /\ Contract!StatusMatchesOutcome)
<1> DEFINE TInv == Contract!TypeOK /\ Contract!StatusMatchesOutcome
<1> USE DEF Contract!TypeOK, Contract!StatusMatchesOutcome, Contract!Status,
            Contract!Active, Contract!Terminal, Contract!ReportOutcome
<1>1. Contract!Init => TInv
  BY DEF Contract!Init
<1>2. TInv /\ [Contract!Next]_(Contract!vars) => TInv'
  BY DEF Contract!Next, Contract!vars, Contract!Begin, Contract!Requeue,
         Contract!Park, Contract!Record, Contract!Settles, Contract!Stop,
         Contract!ReportTerminalStatus, Contract!Cancel, Contract!Supersede
<1> HIDE DEF TInv
<1>3. Contract!Spec => []TInv
  BY <1>1, <1>2, PTL DEF Contract!Spec
<1> QED
  BY <1>3 DEF TInv

\* Terminal immutability: no step of the contract changes a succeeded, cancelled
\* or superseded row, and a failed or timed_out one changes only to take its
\* first outcome.
THEOREM ContractTerminalFinal == Contract!Spec => Contract!TerminalFinal
<1>1. [Contract!Next]_(Contract!vars) =>
        [/\ status \in Contract!Terminal \ Contract!RescuableTerminal
              => UNCHANGED Contract!vars
         /\ status \in Contract!RescuableTerminal
              => verdict.outcome = "none" /\ verdict.outcome' # "none"]_(Contract!vars)
  BY DEF Contract!Next, Contract!Begin, Contract!Requeue, Contract!Park,
         Contract!Record, Contract!Stop, Contract!Cancel, Contract!Supersede,
         Contract!vars, Contract!ReconcileGuard, Contract!Terminal,
         Contract!Active, Contract!RescuableTerminal, Contract!ReportOutcome
<1> QED
  BY <1>1, PTL DEF Contract!Spec, Contract!TerminalFinal

\* A succeeded row carries a successful report and a failure report a failed
\* row, in every interleaving of the writers.
THEOREM CompletionStatusMatchesOutcome == Spec => []StatusMatchesOutcome
<1>1. Contract!TypeOK /\ Contract!StatusMatchesOutcome => StatusMatchesOutcome
  BY DEF StatusMatchesOutcome
<1> QED
  BY <1>1, CompletionImplementsContract, ContractStatusMatchesOutcome, PTL
     DEF ImplementsContract

\* Terminal immutability of the row: no writer, however late, changes a
\* succeeded, cancelled or superseded run, and only a report changes a failed
\* or timed_out one, once.
THEOREM CompletionTerminalFinal == Spec => TerminalFinal
BY CompletionImplementsContract, ContractTerminalFinal, PTL
   DEF ImplementsContract, TerminalFinal


-----------------------------------------------------------------------------
(* A parked run and the exit of its process.                               *)

\* Whatever the agent's process, the callbacks and the sweep do, a parked run
\* leaves its human only by a report that was not there before, by the
\* watchdog that selected it while it ran, or by the artifact guard of a retry
\* (parkIfStillRunning, failIfStillRunning, finalizeStatusIfRunning).
THEOREM CompletionExitKeepsPark == Spec => ExitKeepsPark
<1> DEFINE Clobbers == /\ status = "awaiting_human"
                       /\ status' \in {"failed", "timed_out", "cancelled"}
           Allowed == verdict' # verdict \/ stale # "none" \/ worker.at = "picked"
<1>1. TypeInv /\ StatusMatchesOutcome /\ [Next]_vars => [Clobbers => Allowed]_vars
  <2> SUFFICES ASSUME TypeInv, StatusMatchesOutcome, Next, Clobbers PROVE Allowed
    OBVIOUS
  <2>0. verdict.outcome # "failure"
    BY DEF StatusMatchesOutcome, Contract!StatusMatchesOutcome
  <2>1. CASE Silent
    BY <2>1, SilentStutters
  <2>2. CASE RejectStaleArtifact \/ WatchdogFinalize
    BY <2>2 DEF RejectStaleArtifact, WatchdogFinalize
  <2>3. CASE FinalizeFromOutbox
    <3>1. verdict'.outcome = "failure"
      BY <2>3 DEF FinalizeFromOutbox, FinalizeWithReport, GuardedFinalize, Flip,
                  ReportTerminalStatus, Active
    <3> QED
      BY <2>0, <3>1
  <2>4. CASE FinalizeFromCallback
    <3>1. verdict'.outcome = "failure"
      BY <2>4 DEF FinalizeFromCallback, FinalizeWithReport, GuardedFinalize, Flip,
                  ReportTerminalStatus, Active
    <3> QED
      BY <2>0, <3>1
  <2>5. CASE AcceptTeam
    <3>1. verdict'.outcome = "failure"
      BY <2>5 DEF AcceptTeam, Active, TypeInv, TypeOK, Report, NoReport, Malformed
    <3> QED
      BY <2>0, <3>1
  <2>6. CASE SweepRescue
    <3>1. verdict'.outcome = "failure"
      BY <2>6 DEF SweepRescue, ReconcileWithReport, ReconcileGuard,
                  ReportTerminalStatus, Active, rowVars
    <3> QED
      BY <2>0, <3>1
  <2>7. CASE \/ Start \/ ParkForScope \/ ExitConsume \/ ExitPark \/ ExitFailClosed
             \/ ExitFinalize \/ ExitRetry
    BY <2>7 DEF Start, ParkForScope, ExitConsume, ExitPark, ExitFailClosed,
                ExitFinalize, ExitRetry, MarkRunning, ParkRun, ParkIfStillRunning,
                FailIfStillRunning, FinalizeStatusIfRunning, MarkQueuedForRetry, Flip
  <2>8. CASE ParkFromRequest \/ Cancel \/ CancelAll \/ CloseTask \/ Resume
    BY <2>8 DEF ParkFromRequest, Cancel, CancelAll, CloseTask, Resume, ParkRun,
                ParkIfStillRunning, CancelRun, CancelAllRun, SupersedeRun, Flip
  <2> QED
    BY <2>1, <2>2, <2>3, <2>4, <2>5, <2>6, <2>7, <2>8
       DEF Next, WorkerStep, CallbackStep, SweepStep, WatchdogStep, PeopleStep, Silent
<1> QED
  BY <1>1, CompletionTypeInv, CompletionStatusMatchesOutcome, PTL DEF Spec, ExitKeepsPark

-----------------------------------------------------------------------------
(* The outbox file of a report.                                            *)

\* The row has a verdict, or the report is attached to it.
Recorded == verdict # NoReport \/ attached > 0

\* Whoever is about to remove the file has seen why it may go, and the reason
\* still stands when the file goes.  The exit path reads a row that somebody
\* ended meanwhile as such a reason; the sweep does not, and removes a malformed
\* file only when nobody is left to write another.
KeepInv ==
  /\ request.at \in {"effects", "done"} => verdict # NoReport
  /\ worker.at = "flipped" => verdict # NoReport
  /\ worker.at = "consuming" => Recorded \/ status \in Terminal
  /\ worker.at # "idle" => job = "active"
  /\ sweep.at = "flipped" => verdict # NoReport
  /\ sweep.at \in {"flipped", "attach"} => Valid(sweep.report)
  /\ sweep.at = "read" /\ (sweep.status = "succeeded" \/ sweep.outcome # "none")
       => verdict # NoReport
  /\ sweep.at = "consuming" /\ Valid(sweep.report)
       => Recorded \/ status \in {"cancelled", "superseded"}
  /\ sweep.at = "consuming" /\ ~Valid(sweep.report)
       => job = "done" /\ agent.at = "off" /\ ~Valid(outbox)

\* What no step undoes.
Lasting ==
  /\ verdict # NoReport => verdict' # NoReport
  /\ status \in Terminal => status' \in Terminal \/ verdict' # NoReport
  /\ status \in {"cancelled", "superseded"} => status' = status

\* The contract lets no step withdraw a verdict or an end.
LEMMA LastingStep == TypeInv /\ TypeInv' /\ [Next]_vars => Lasting
<1> SUFFICES ASSUME TypeInv, TypeInv', [Next]_vars PROVE Lasting
  OBVIOUS
<1>1. [Contract!Next]_(Contract!vars)
  BY ContractStep
<1>2. (verdict # NoReport <=> verdict.outcome # "none")
      /\ (verdict' # NoReport <=> verdict'.outcome # "none")
  BY DEF TypeInv, TypeOK, Report, NoReport, ReportOutcome
<1>3. verdict.outcome # "none" => verdict'.outcome # "none"
  BY <1>1 DEF Contract!Next, Contract!vars, Contract!Begin, Contract!Requeue,
     Contract!Park, Contract!Record, Contract!Stop, Contract!Cancel,
     Contract!Supersede, Contract!ReportOutcome
<1>4. status \in Terminal => status' \in Terminal \/ verdict'.outcome # "none"
  BY <1>1 DEF Contract!Next, Contract!vars, Contract!Begin, Contract!Requeue,
     Contract!Park, Contract!Record, Contract!Stop, Contract!Cancel,
     Contract!Supersede, Contract!ReportOutcome, Contract!Active, Terminal
<1>5. status \in {"cancelled", "superseded"} => status' = status
  BY <1>1 DEF Contract!Next, Contract!vars, Contract!Begin, Contract!Requeue,
     Contract!Park, Contract!Record, Contract!Stop, Contract!Cancel,
     Contract!Supersede, Contract!ReconcileGuard, Contract!Active,
     Contract!RescuableTerminal
<1> QED
  BY <1>2, <1>3, <1>4, <1>5 DEF Lasting

\* A step after which the same people are about to remove the file, for reasons
\* that nothing undoes.
LEMMA KeepStays ==
  ASSUME KeepInv, Lasting, attached > 0 => attached' > 0,
         request'.at \in {"effects", "done"} => request.at = request'.at,
         worker'.at \in {"flipped", "consuming"} => worker.at = worker'.at,
         worker'.at # "idle" => job' = "active",
         sweep' = sweep, job = "done" => job' = "done",
         job = "done" /\ agent.at = "off" /\ ~Valid(outbox)
           => agent'.at = "off" /\ ~Valid(outbox')
  PROVE  KeepInv'
BY DEF KeepInv, Recorded, Lasting, Valid

\* Steps of the worker.
LEMMA WorkerKeeps ==
  TypeInv /\ StatusMatchesOutcome /\ Lasting /\ KeepInv /\ WorkerStep => KeepInv'
<1> SUFFICES ASSUME TypeInv, StatusMatchesOutcome, Lasting, KeepInv, WorkerStep
             PROVE  KeepInv'
  OBVIOUS
<1>0. /\ worker = [at |-> worker.at, exit |-> worker.exit, report |-> worker.report]
      /\ attached \in Nat
      /\ (status = "succeeded" => verdict # NoReport)
  BY DEF TypeInv, TypeOK, StatusMatchesOutcome, Contract!StatusMatchesOutcome, NoReport
<1> USE DEF EndJob, ReturnJob, IdleWorker, WorkerAt, rowVars, jobVars
<1>1. CASE \/ PickUp \/ RejectStaleArtifact \/ Hold \/ Start \/ ParkForScope \/ Spawn
  <2>1. /\ job # "done" /\ UNCHANGED <<attached, request, sweep>>
        /\ worker'.at \notin {"flipped", "consuming"}
        /\ worker'.at # "idle" => job' = "active"
    BY <1>0, <1>1 DEF PickUp, RejectStaleArtifact, Hold, Start, ParkForScope, Spawn, KeepInv
  <2> QED
    BY <2>1, KeepStays
<1>2. CASE \/ ExitLookForTask \/ ExitPark \/ ExitFailClosed
           \/ ExitFinalize \/ ExitRetry \/ RetryJob \/ ExitRateLimited
  <2>1. /\ job # "done" /\ UNCHANGED <<attached, request, sweep>>
        /\ worker'.at \notin {"flipped", "consuming"}
        /\ worker'.at # "idle" => job' = "active"
    BY <1>0, <1>2 DEF ExitLookForTask, ExitPark, ExitFailClosed, ExitIs,
       ExitFinalize, ExitRetry, RetryJob, ExitRateLimited, KeepInv
  <2> QED
    BY <2>1, KeepStays
<1>3. CASE WorkerCrash
  <2>1. /\ job # "done" /\ UNCHANGED <<attached, request, sweep>> /\ worker'.at = "idle"
    BY <1>3 DEF WorkerCrash, KeepInv
  <2> QED
    BY <2>1, KeepStays
<1>4. CASE FinalizeFromOutbox
  <2>1. /\ job = "active" /\ UNCHANGED <<attached, request, sweep, job>>
        /\ worker'.at = IF status \in Active THEN "flipped" ELSE "consuming"
        /\ status \in Active => verdict' # NoReport
    BY <1>4 DEF FinalizeFromOutbox, ExitIs, KeepInv, Valid, NoReport, ReportOutcome
  <2>2. status \notin Active => status \in Terminal
    BY DEF TypeInv, TypeOK, Status
  <2> QED
    BY <2>1, <2>2 DEF KeepInv, Recorded, Lasting, Valid
<1>5. CASE ExitEffects
  <2>1. /\ job = "active" /\ UNCHANGED <<attached, request, sweep, job, verdict>>
        /\ worker'.at = "consuming" /\ verdict # NoReport
    BY <1>0, <1>5 DEF ExitEffects, KeepInv
  <2> QED
    BY <2>1 DEF KeepInv, Recorded, Lasting, Valid
<1>6. CASE ExitConsume
  <2>1. /\ job = "active" /\ UNCHANGED <<attached, request, sweep, agent>>
        /\ worker'.at = "idle"
    BY <1>6 DEF ExitConsume, KeepInv
  <2> QED
    BY <2>1, KeepStays
<1>7. CASE ExitAttach
  <2>1. /\ job = "active" /\ UNCHANGED <<attached, request, sweep, job>>
        /\ worker'.at = IF attached = 0 THEN "attaching" ELSE "consuming"
    BY <1>7 DEF ExitAttach, ExitIs, KeepInv
  <2> QED
    BY <1>0, <2>1 DEF KeepInv, Recorded, Lasting, Valid
<1>8. CASE ExitInsertAttachment
  <2>1. /\ job = "active" /\ UNCHANGED <<request, sweep, job>>
        /\ attached' = attached + 1 /\ worker'.at = "consuming"
    BY <1>0, <1>8 DEF ExitInsertAttachment, KeepInv
  <2> QED
    BY <1>0, <2>1 DEF KeepInv, Recorded, Lasting, Valid
<1> QED
  BY <1>1, <1>2, <1>3, <1>4, <1>5, <1>6, <1>7, <1>8 DEF WorkerStep

\* Steps of the agent and of the callback handlers.
LEMMA AgentKeeps ==
  TypeInv /\ Lasting /\ KeepInv /\ (AgentStep \/ CallbackStep) => KeepInv'
<1> SUFFICES ASSUME TypeInv, Lasting, KeepInv, AgentStep \/ CallbackStep PROVE KeepInv'
  OBVIOUS
<1>0. /\ request.at \in {"none", "complete", "effects", "done", "human", "park"}
      /\ request = [at |-> request.at, report |-> request.report]
      /\ agent = [at |-> agent.at, report |-> agent.report]
  BY DEF TypeInv, TypeOK
<1> USE DEF rowVars, jobVars
<1>1. CASE CallComplete \/ AskHuman \/ Resend \/ GiveUp
  <2>1. /\ agent.at # "off" /\ UNCHANGED <<attached, request, worker, sweep, job>>
    BY <1>1 DEF CallComplete, AskHuman, Resend, GiveUp
  <2> QED
    BY <2>1, KeepStays DEF KeepInv
<1>2. CASE AgentExit \/ Abort
  <2>1. /\ worker.at # "idle" /\ UNCHANGED <<attached, request, sweep, job>>
        /\ worker'.at = "exited"
    BY <1>2 DEF AgentExit, Abort, WorkerAt
  <2>2. job = "active"
    BY <2>1 DEF KeepInv
  <2> QED
    BY <2>1, <2>2, KeepStays
<1>3. CASE OrphanExit
  <2>1. /\ agent.at # "off" /\ UNCHANGED <<attached, request, worker, sweep, job>>
    BY <1>3 DEF OrphanExit
  <2> QED
    BY <2>1, KeepStays DEF KeepInv
<1>4. CASE Arrive
  <2>1. /\ agent.at # "off" /\ UNCHANGED <<attached, worker, sweep, job>>
        /\ request'.at \in {"none", "complete", "human"}
    BY <1>0, <1>4 DEF Arrive
  <2> QED
    BY <2>1, KeepStays DEF KeepInv
<1>5. CASE RejectCompletion \/ ParkFromRequest \/ BackendCrash \/ CreateTask
  <2>1. /\ UNCHANGED <<attached, worker, sweep, job, outbox>>
        /\ request'.at \in {"none", "park"}
        /\ agent.at = "off" => agent'.at = "off"
    BY <1>0, <1>5 DEF RejectCompletion, ParkFromRequest, BackendCrash, CreateTask,
       NoRequest, Answered
  <2> QED
    BY <2>1, KeepStays DEF KeepInv
<1>6. CASE FinalizeFromCallback
  <2>1. /\ UNCHANGED <<attached, worker, sweep, job, outbox>>
        /\ agent.at = "off" => agent'.at = "off"
        /\ \/ request'.at = "none"
           \/ request'.at = "effects" /\ verdict' # NoReport
    BY <1>0, <1>6 DEF FinalizeFromCallback, NoRequest, Answered, Rejected, Valid,
       NoReport, ReportOutcome
  <2> QED
    BY <2>1 DEF KeepInv, Recorded, Lasting, Valid
<1>7. CASE AcceptTeam
  <2>1. /\ UNCHANGED <<attached, worker, sweep, job, outbox>>
        /\ agent.at = "off" => agent'.at = "off"
        /\ \/ request'.at = "none"
           \/ request'.at = "done" /\ verdict' # NoReport
    <3>1. CASE status \in Active
      <4>1. PICK o \in {"team", "failure"} : verdict' = [request.report EXCEPT !.outcome = o]
        BY <1>7, <3>1 DEF AcceptTeam
      <4>2. verdict'.outcome = o
        BY <4>1 DEF TypeInv, TypeOK, Report, NoReport, Malformed
      <4> QED
        BY <1>0, <1>7, <3>1, <4>2 DEF AcceptTeam, NoReport
    <3>2. CASE status \notin Active
      BY <1>0, <1>7, <3>2 DEF AcceptTeam, NoRequest, Answered
    <3> QED
      BY <3>1, <3>2
  <2> QED
    BY <2>1 DEF KeepInv, Recorded, Lasting, Valid
<1>8. CASE ApplyReportEffects
  <2>1. /\ UNCHANGED <<attached, worker, sweep, job, outbox, agent, verdict>>
        /\ request'.at = "done" /\ verdict # NoReport
    BY <1>0, <1>8 DEF ApplyReportEffects, KeepInv
  <2> QED
    BY <2>1 DEF KeepInv, Recorded, Lasting, Valid
<1>9. CASE Reply
  <2>1. /\ UNCHANGED <<attached, worker, sweep, job>> /\ request'.at = "none"
        /\ agent.at = "off" => UNCHANGED <<agent, outbox>>
    BY <1>9 DEF Reply, NoRequest
  <2> QED
    BY <2>1, KeepStays DEF KeepInv
<1> QED
  BY <1>1, <1>2, <1>3, <1>4, <1>5, <1>6, <1>7, <1>8, <1>9 DEF AgentStep, CallbackStep

\* Steps of the outbox reconciler: what it has read of the row is enough, even
\* when the row has moved on since.
LEMMA SweepKeeps ==
  TypeInv /\ StatusMatchesOutcome /\ Lasting /\ KeepInv /\ SweepStep => KeepInv'
<1> SUFFICES ASSUME TypeInv, StatusMatchesOutcome, Lasting, KeepInv, SweepStep
             PROVE  KeepInv'
  OBVIOUS
<1>0. /\ sweep = [at |-> sweep.at, status |-> sweep.status,
                  outcome |-> sweep.outcome, report |-> sweep.report]
      /\ attached \in Nat /\ status \in Status
      /\ (status = "succeeded" => verdict # NoReport)
      /\ (verdict # NoReport <=> verdict.outcome # "none")
  BY DEF TypeInv, TypeOK, StatusMatchesOutcome, Contract!StatusMatchesOutcome,
         Report, NoReport, ReportOutcome
<1> USE DEF rowVars, jobVars
<1>1. SweepStep => UNCHANGED <<job, worker, agent, request>>
  BY DEF SweepStep, SweepRead, SweepRescue, SweepEffects, SweepAttach,
     SweepInsertAttachment, SweepLeave, SweepDiscard, SweepExpire, SweepConsume,
     SweepCrash
<1>2. ASSUME attached > 0 => attached' > 0,
             sweep'.at = "flipped" => verdict' # NoReport,
             sweep'.at \in {"flipped", "attach"} => Valid(sweep'.report),
             sweep'.at = "read" /\ (sweep'.status = "succeeded" \/ sweep'.outcome # "none")
               => verdict' # NoReport,
             sweep'.at = "consuming" /\ Valid(sweep'.report)
               => Recorded' \/ status' \in {"cancelled", "superseded"},
             sweep'.at = "consuming" /\ ~Valid(sweep'.report)
               => job = "done" /\ agent.at = "off" /\ ~Valid(outbox')
      PROVE  KeepInv'
  <2>1. UNCHANGED <<job, worker, agent, request>>
    BY <1>1
  <2> QED
    BY <1>2, <2>1 DEF KeepInv, Recorded, Lasting, Valid
<1>3. CASE SweepRead
  <2>1. /\ sweep'.at = "read" /\ sweep'.status = status
        /\ sweep'.outcome = verdict.outcome /\ UNCHANGED <<attached, verdict>>
    BY <1>3 DEF SweepRead
  <2> QED
    BY <1>0, <1>2, <2>1
<1>4. CASE SweepRescue
  <2>1. Valid(sweep.report) /\ UNCHANGED attached
    BY <1>4 DEF SweepRescue
  <2>2. CASE sweep' = IdleSweep
    BY <1>2, <2>1, <2>2 DEF IdleSweep
  <2>3. CASE sweep' # IdleSweep
    <3>1. /\ sweep' = [sweep EXCEPT !.at = IF ReconcileGuard(status, verdict.outcome)
                                           THEN "flipped" ELSE "consuming"]
          /\ ReconcileGuard(status, verdict.outcome) => verdict' = sweep.report
      BY <1>4, <2>3 DEF SweepRescue
    <3>2. sweep'.report = sweep.report
          /\ sweep'.at = IF ReconcileGuard(status, verdict.outcome)
                         THEN "flipped" ELSE "consuming"
      BY <1>0, <3>1
    <3>3. CASE ReconcileGuard(status, verdict.outcome)
      <4>1. verdict' # NoReport
        BY <2>1, <3>1, <3>3 DEF Valid, NoReport, ReportOutcome
      <4> QED
        BY <1>2, <2>1, <3>2, <3>3, <4>1
    <3>4. CASE ~ReconcileGuard(status, verdict.outcome)
      <4>1. status \in {"cancelled", "superseded"} \/ verdict # NoReport
        BY <1>0, <3>4 DEF ReconcileGuard, Status, Terminal, RescuableTerminal
      <4>2. Recorded' \/ status' \in {"cancelled", "superseded"}
        BY <4>1 DEF Lasting, Recorded
      <4> QED
        BY <1>2, <2>1, <3>2, <3>4, <4>2
    <3> QED
      BY <3>3, <3>4
  <2> QED
    BY <2>2, <2>3
<1>5. CASE SweepEffects
  <2>1. /\ sweep'.at = "consuming" /\ sweep'.report = sweep.report
        /\ UNCHANGED <<attached, verdict>> /\ sweep.at = "flipped"
    BY <1>0, <1>5 DEF SweepEffects
  <2> QED
    BY <1>2, <2>1 DEF KeepInv, Recorded
<1>6. CASE SweepAttach
  <2>1. /\ sweep'.at = IF attached = 0 THEN "attach" ELSE "consuming"
        /\ sweep'.report = sweep.report /\ Valid(sweep.report) /\ UNCHANGED attached
    BY <1>0, <1>6 DEF SweepAttach
  <2> QED
    BY <1>0, <1>2, <2>1 DEF Recorded
<1>7. CASE SweepInsertAttachment
  <2>1. /\ sweep'.at = "consuming" /\ sweep'.report = sweep.report
        /\ attached' = attached + 1 /\ sweep.at = "attach"
    BY <1>0, <1>7 DEF SweepInsertAttachment
  <2> QED
    BY <1>0, <1>2, <2>1 DEF KeepInv, Recorded
<1>8. CASE SweepLeave \/ SweepConsume \/ SweepCrash
  <2>1. sweep'.at = "idle" /\ UNCHANGED attached
    BY <1>8 DEF SweepLeave, SweepConsume, SweepCrash, IdleSweep
  <2> QED
    BY <1>2, <2>1
<1>9. CASE SweepDiscard
  <2>1. /\ sweep'.at = "consuming" /\ sweep'.report = sweep.report
        /\ Valid(sweep.report) /\ sweep.at = "read" /\ UNCHANGED <<attached, verdict>>
        /\ sweep.status = "succeeded" \/ sweep.outcome # "none"
    BY <1>0, <1>9 DEF SweepDiscard
  <2> QED
    BY <1>2, <2>1 DEF KeepInv, Recorded
<1>10. CASE SweepExpire
  <2>1. /\ sweep' = [at |-> "consuming", status |-> "queued", outcome |-> "none",
                     report |-> Malformed]
        /\ outbox = Malformed /\ job = "done" /\ agent.at = "off"
        /\ UNCHANGED <<attached, outbox>>
    BY <1>10 DEF SweepExpire, IdleSweep
  <2>2. ~Valid(Malformed)
    BY DEF Valid, Malformed, ReportOutcome
  <2> QED
    BY <1>2, <2>1, <2>2
<1> QED
  BY <1>3, <1>4, <1>5, <1>6, <1>7, <1>8, <1>9, <1>10 DEF SweepStep

\* The invariant about the file holds throughout.
LEMMA CompletionKeepInv == Spec => []KeepInv
<1>1. Init => KeepInv
  BY DEF Init, KeepInv, IdleWorker, NoRequest, IdleSweep
<1>2. TypeInv /\ StatusMatchesOutcome /\ KeepInv /\ TypeInv' /\ [Next]_vars
        => KeepInv'
  <2> SUFFICES ASSUME TypeInv, StatusMatchesOutcome, KeepInv, TypeInv', [Next]_vars
               PROVE  KeepInv'
    OBVIOUS
  <2>1. Lasting
    BY LastingStep
  <2>2. CASE WorkerStep
    BY <2>1, <2>2, WorkerKeeps
  <2>3. CASE AgentStep \/ CallbackStep
    BY <2>1, <2>3, AgentKeeps
  <2>4. CASE SweepStep
    BY <2>1, <2>4, SweepKeeps
  <2>5. CASE WatchdogStep \/ PeopleStep \/ UNCHANGED vars
    <3>1. UNCHANGED <<attached, request, worker, sweep, job, agent, outbox>>
      BY <2>5 DEF WatchdogStep, WatchdogSelectRunning, WatchdogSelectQueued,
         WatchdogFinalize, PeopleStep, Cancel, CancelAll, CloseTask, Resume,
         OtherRunInserted, OtherRunEnds, vars, jobVars
    <3> QED
      BY <2>1, <3>1, KeepStays DEF KeepInv
  <2> QED
    BY <2>2, <2>3, <2>4, <2>5 DEF Next
<1> QED
  BY <1>1, <1>2, CompletionTypeInv, CompletionStatusMatchesOutcome, PTL DEF Spec

\* No report is lost: whoever removes the outbox file of a valid report, the row
\* has a verdict by then or the report is attached to it, or somebody ended the
\* run (removeOutbox of the tool server, the exit path and the sweep, each after
\* its own reading of the row).
THEOREM CompletionReportKept == Spec => ReportKeptUntilRecorded
<1> DEFINE Removes == Valid(outbox) /\ outbox' = NoReport
           Reason == \/ verdict' # NoReport
                     \/ attached' > 0
                     \/ status \in {"cancelled", "superseded"}
                     \/ status \in RescuableTerminal /\ worker.at = "consuming"
<1>1. TypeInv /\ TypeInv' /\ StatusMatchesOutcome /\ KeepInv /\ [Next]_vars
        => [Removes => Reason]_vars
  <2> SUFFICES ASSUME TypeInv, TypeInv', StatusMatchesOutcome, KeepInv, Next, Removes
               PROVE  Reason
    OBVIOUS
  <2>1. Lasting
    BY LastingStep
  <2>2. outbox # outbox'
    BY DEF Valid, NoReport, ReportOutcome
  <2>3. CASE CallComplete
    <3>1. outbox' \in Filed
      BY <2>2, <2>3 DEF CallComplete
    <3> QED
      BY <3>1, FiledTyped DEF Report, Malformed, NoReport, ReportOutcome
  <2>4. CASE Reply
    BY <2>1, <2>4 DEF Reply, KeepInv, Lasting
  <2>5. CASE ExitConsume
    <3>1. worker.at = "consuming" /\ UNCHANGED <<verdict, attached>>
      BY <2>5 DEF ExitConsume
    <3>2. status = "succeeded" => verdict # NoReport
      BY DEF StatusMatchesOutcome, Contract!StatusMatchesOutcome, NoReport
    <3> QED
      BY <3>1, <3>2 DEF KeepInv, Recorded, Terminal, RescuableTerminal
  <2>6. CASE SweepConsume
    <3>1. sweep.at = "consuming" /\ UNCHANGED <<verdict, attached>>
      BY <2>6 DEF SweepConsume, rowVars
    <3> QED
      BY <3>1 DEF KeepInv, Recorded
  <2>7. CASE WorkerStep /\ ~ExitConsume
    <3>1. outbox' = outbox
      BY <2>7 DEF WorkerStep, PickUp, RejectStaleArtifact, Hold, Start,
         ParkForScope, Spawn, FinalizeFromOutbox, ExitEffects,
         ExitLookForTask, ExitPark, ExitFailClosed, ExitAttach,
         ExitInsertAttachment, ExitFinalize, ExitRetry, RetryJob,
         ExitRateLimited, WorkerCrash
    <3> QED
      BY <2>2, <3>1
  <2>8. CASE \/ AgentStep /\ ~CallComplete
             \/ CallbackStep /\ ~Reply
    <3>1. outbox' = outbox
      BY <2>8 DEF AgentStep, AskHuman, Resend, GiveUp, AgentExit, Abort, OrphanExit,
         CallbackStep, Arrive, RejectCompletion, FinalizeFromCallback, AcceptTeam,
         ApplyReportEffects, CreateTask, ParkFromRequest, BackendCrash
    <3> QED
      BY <2>2, <3>1
  <2>9. CASE \/ SweepStep /\ ~SweepConsume
             \/ WatchdogStep \/ PeopleStep
    <3>1. outbox' = outbox
      BY <2>9 DEF SweepStep, SweepRead, SweepRescue, SweepEffects, SweepAttach,
         SweepInsertAttachment, SweepLeave, SweepDiscard, SweepExpire, SweepCrash,
         WatchdogStep, WatchdogSelectRunning, WatchdogSelectQueued,
         WatchdogFinalize, PeopleStep, Cancel, CancelAll, CloseTask, Resume,
         OtherRunInserted, OtherRunEnds
    <3> QED
      BY <2>2, <3>1
  <2> QED
    BY <2>3, <2>4, <2>5, <2>6, <2>7, <2>8, <2>9 DEF Next
<1> QED
  BY <1>1, CompletionTypeInv, CompletionStatusMatchesOutcome, CompletionKeepInv, PTL
     DEF Spec, ReportKeptUntilRecorded
=============================================================================
