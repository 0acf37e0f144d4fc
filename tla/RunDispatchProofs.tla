------------------------- MODULE RunDispatchProofs -------------------------
(***************************************************************************)
(* Proofs about RunDispatch, for any runs, tickets, profiles, limits and   *)
(* worker capacity.                                                        *)
(*                                                                         *)
(* OneProcessPerRun and OverAdmissionBounded are not inductive: the first  *)
(* needs that a living process belongs to a job that runs or has ended and *)
(* that only inserted rows have jobs, the second counts the jobs that have *)
(* passed the gate and not yet written their row.                          *)
(*                                                                         *)
(* The lock of the worker that takes these jobs is proved about last:      *)
(* LockInv says that while no key has lapsed a process that is busy or     *)
(* believes it holds the lock is the one in the key.                       *)
(***************************************************************************)
EXTENDS RunDispatch, WorkerLock, FiniteSetTheorems, TLAPS

\* Only an inserted row has a job.
JobsHaveRows == \A r \in Runs : status[r] = "absent" => job[r] = "none"

\* A living process belongs to a job that runs it, or to one that has ended.
ProcessesHaveJobs == \A r \in Runs : process[r] => job[r] \in {"executing", "done"}

DispatchInv == TypeOK /\ JobsHaveRows /\ ProcessesHaveJobs

-----------------------------------------------------------------------------
(* The inductive invariant, one lemma per actor and one step per action.   *)

\* Triggers, resumes and dismissals keep the inductive invariant.
LEMMA TriggerStepInv == DispatchInv /\ TriggerStep => DispatchInv'
<1> SUFFICES ASSUME DispatchInv, NEW r \in Runs,
                    \/ Insert(r) \/ Enqueue(r) \/ LoseEnqueue(r) \/ Dismiss(r)
                    \/ \E q \in Runs : Resume(r, q)
             PROVE  DispatchInv'
  BY DEF TriggerStep
<1> USE DEF DispatchInv, TypeOK, JobsHaveRows, ProcessesHaveJobs, Status, Active,
            Terminal, JobStates, InSlot, SetStatus, SetJob
<1>1. CASE Insert(r)
  BY <1>1 DEF Insert
<1>2. CASE Enqueue(r)
  BY <1>2 DEF Enqueue
<1>3. CASE LoseEnqueue(r)
  BY <1>3 DEF LoseEnqueue
<1>4. CASE Dismiss(r)
  BY <1>4 DEF Dismiss, SupersedeRun, Flip
<1>5. ASSUME NEW q \in Runs, Resume(r, q) PROVE DispatchInv'
  BY <1>5 DEF Resume, SupersedeRun, Flip, Siblings
<1> QED
  BY <1>1, <1>2, <1>3, <1>4, <1>5

\* Steps of the worker and of the agents' processes keep it.
LEMMA WorkerStepInv == DispatchInv /\ WorkerStep => DispatchInv'
<1> SUFFICES ASSUME DispatchInv, WorkerStep PROVE DispatchInv'
  OBVIOUS
<1> USE DEF DispatchInv, TypeOK, JobsHaveRows, ProcessesHaveJobs, Status, Active,
            Terminal, JobStates, InSlot, SetStatus, SetJob
<1>1. ASSUME NEW r \in Runs, PickUp(r) \/ Hold(r) \/ GateAdmit(r) \/ GateHold(r)
      PROVE  DispatchInv'
  BY <1>1 DEF PickUp, Hold, GateAdmit, GateHold
<1>2. ASSUME NEW r \in Runs, RejectStaleArtifact(r) PROVE DispatchInv'
  BY <1>2 DEF RejectStaleArtifact, FinalizeStatus, GuardedFinalize, Flip
<1>3. ASSUME NEW r \in Runs, Begin(r) PROVE DispatchInv'
  <2>1. CASE Startable(status[r])
    BY <1>3, <2>1 DEF Begin, Startable, MarkRunning, Flip
  <2>2. CASE ~Startable(status[r])
    BY <1>3, <2>2 DEF Begin, Startable, MarkRunning, Flip
  <2> QED
    BY <2>1, <2>2
<1>4. ASSUME NEW r \in Runs, Callback(r) PROVE DispatchInv'
  BY <1>4 DEF Callback, CallbackAcceptable, FinalizeWithReport, GuardedFinalize, Flip,
              ReportTerminalStatus
<1>5. ASSUME NEW r \in Runs, Ask(r) PROVE DispatchInv'
  BY <1>5 DEF Ask, CallbackAcceptable, ParkRun, ParkIfStillRunning, Flip
<1>6. ASSUME NEW r \in Runs, Exit(r) PROVE DispatchInv'
  BY <1>6 DEF Exit, FinalizeStatusIfRunning, Flip
<1>7. ASSUME NEW r \in Runs, ExitRetry(r) PROVE DispatchInv'
  BY <1>7 DEF ExitRetry, MarkQueuedForRetry, Flip
<1>8. ASSUME NEW r \in Runs, ExitRateLimited(r) PROVE DispatchInv'
  BY <1>8 DEF ExitRateLimited
<1>9. ASSUME NEW r \in Runs, OrphanExit(r) PROVE DispatchInv'
  BY <1>9 DEF OrphanExit
<1>10. CASE WorkerCrash
  BY <1>10 DEF WorkerCrash, Slots
<1> QED
  BY <1>1, <1>2, <1>3, <1>4, <1>5, <1>6, <1>7, <1>8, <1>9, <1>10 DEF WorkerStep

\* Watchdog, cancel buttons and outbox rescues keep it.
LEMMA OperatorStepInv == DispatchInv /\ OperatorStep => DispatchInv'
<1> SUFFICES ASSUME DispatchInv, OperatorStep PROVE DispatchInv'
  OBVIOUS
<1> USE DEF DispatchInv, TypeOK, JobsHaveRows, ProcessesHaveJobs, Status, Active,
            Terminal, JobStates, InSlot, SetStatus, SetJob
<1>1. ASSUME NEW r \in Runs, Watchdog(r) PROVE DispatchInv'
  BY <1>1 DEF Watchdog, FinalizeStatus, GuardedFinalize, Flip
<1>2. ASSUME NEW r \in Runs, Cancel(r) PROVE DispatchInv'
  BY <1>2 DEF Cancel, CancelRun, Flip
<1>3. ASSUME NEW r \in Runs, Rescue(r) PROVE DispatchInv'
  BY <1>3 DEF Rescue, ReconcileGuard, RescuableTerminal, ReportTerminalStatus
<1>4. CASE CancelAll
  BY <1>4 DEF CancelAll, CancelAllRun, Flip
<1> QED
  BY <1>1, <1>2, <1>3, <1>4 DEF OperatorStep

\* The inductive invariant holds in every reachable state.
LEMMA DispatchInvariant == Spec => []DispatchInv
<1>1. Init => DispatchInv
  BY DEF Init, DispatchInv, TypeOK, JobsHaveRows, ProcessesHaveJobs, JobStates
<1>2. DispatchInv /\ [Next]_vars => DispatchInv'
  <2> SUFFICES ASSUME DispatchInv, [Next]_vars PROVE DispatchInv'
    OBVIOUS
  <2>1. CASE UNCHANGED vars
    BY <2>1 DEF DispatchInv, TypeOK, JobsHaveRows, ProcessesHaveJobs, vars
  <2> QED
    BY <2>1, TriggerStepInv, WorkerStepInv, OperatorStepInv DEF Next
<1> QED
  BY <1>1, <1>2, PTL DEF Spec

\* Type correctness of the dispatch of any number of runs.
THEOREM DispatchTypeCorrect == Spec => []TypeOK
<1>1. DispatchInv => TypeOK
  BY DEF DispatchInv
<1> QED
  BY <1>1, DispatchInvariant, PTL

\* A run is never started over its own living process: a job that may still be
\* started has none, whatever crashes, retries and rate limits came before.
THEOREM DispatchOneProcessPerRun == Spec => []OneProcessPerRun
<1>1. DispatchInv => OneProcessPerRun
  BY DEF DispatchInv, ProcessesHaveJobs, OneProcessPerRun
<1> QED
  BY <1>1, DispatchInvariant, PTL

-----------------------------------------------------------------------------
(* One active run per ticket.                                              *)

\* No row becomes active.
NoneActivated == \A r \in Runs : status'[r] \in Active => status[r] \in Active

\* A step that activates no row cannot make a second run of a ticket active.
LEMMA NoneActivatedKeepsOne ==
  OneActivePerTicket /\ NoneActivated => OneActivePerTicket'
  BY DEF OneActivePerTicket, NoneActivated, Siblings

\* The only steps that activate a row are an insert, a resume and a rescue, and
\* the index or the transaction of the resume makes room for it.
LEMMA OneActiveStep ==
  ASSUME DispatchInv, OneActivePerTicket, Next
  PROVE  OneActivePerTicket'
<1> USE DEF DispatchInv, TypeOK, Active, SetStatus, SetJob
<1>1. ASSUME NEW r \in Runs, Insert(r) PROVE OneActivePerTicket'
  BY <1>1 DEF Insert, Admits, Indexed, OneActivePerTicket, Siblings
<1>2. ASSUME NEW r \in Runs, NEW q \in Runs, Resume(r, q) PROVE OneActivePerTicket'
  <2>1. /\ q # r /\ TicketOf[q] = TicketOf[r]
        /\ status'[r] = "superseded" /\ status'[q] = "queued"
        /\ \A u \in Runs \ {r, q} : status'[u] = status[u]
        /\ status[r] \in Active
    BY <1>2 DEF Resume, SupersedeRun, Flip, Siblings
  <2> QED
    BY <2>1 DEF OneActivePerTicket, Siblings
<1>3. ASSUME NEW r \in Runs, Rescue(r) PROVE OneActivePerTicket'
  <2>1. PICK o \in ReportOutcome :
          /\ status[r] \notin Indexed /\ ReportTerminalStatus(o) \in Indexed
               => Admits(TicketOf[r])
          /\ status' = [status EXCEPT ![r] = ReportTerminalStatus(o)]
    BY <1>3 DEF Rescue
  <2>2. CASE ReportTerminalStatus(o) \in Active /\ status[r] \notin Active
    BY <2>1, <2>2 DEF Admits, Indexed, OneActivePerTicket, Siblings
  <2>3. CASE ReportTerminalStatus(o) \in Active => status[r] \in Active
    BY <2>1, <2>3, NoneActivatedKeepsOne DEF NoneActivated
  <2> QED
    BY <2>2, <2>3
<1>4. ASSUME NEW r \in Runs, Enqueue(r) \/ LoseEnqueue(r) \/ Dismiss(r)
      PROVE  OneActivePerTicket'
  BY <1>4, NoneActivatedKeepsOne
     DEF NoneActivated, Enqueue, LoseEnqueue, Dismiss, SupersedeRun, Flip
<1>5. CASE WorkerStep
  <2>1. ASSUME NEW r \in Runs,
               PickUp(r) \/ Hold(r) \/ GateAdmit(r) \/ GateHold(r)
                 \/ ExitRateLimited(r) \/ OrphanExit(r)
        PROVE  NoneActivated
    BY <2>1 DEF NoneActivated, PickUp, Hold, GateAdmit, GateHold, ExitRateLimited,
                OrphanExit
  <2>2. ASSUME NEW r \in Runs, RejectStaleArtifact(r) \/ Begin(r) PROVE NoneActivated
    BY <2>2 DEF NoneActivated, RejectStaleArtifact, FinalizeStatus, GuardedFinalize,
                Flip, Begin, MarkRunning
  <2>3. ASSUME NEW r \in Runs, Callback(r) \/ Ask(r) PROVE NoneActivated
    BY <2>3 DEF NoneActivated, Callback, Ask, FinalizeWithReport, GuardedFinalize,
                CallbackAcceptable, ParkRun, ParkIfStillRunning, Flip
  <2>4. ASSUME NEW r \in Runs, Exit(r) \/ ExitRetry(r) PROVE NoneActivated
    BY <2>4 DEF NoneActivated, Exit, ExitRetry, FinalizeStatusIfRunning,
                MarkQueuedForRetry, Flip
  <2>5. ASSUME WorkerCrash PROVE NoneActivated
    BY <2>5 DEF NoneActivated, WorkerCrash
  <2>6. NoneActivated
    BY <1>5, <2>1, <2>2, <2>3, <2>4, <2>5 DEF WorkerStep
  <2> QED
    BY <2>6, NoneActivatedKeepsOne
<1>6. ASSUME NEW r \in Runs, Watchdog(r) \/ Cancel(r) PROVE OneActivePerTicket'
  <2>1. NoneActivated
    BY <1>6
       DEF NoneActivated, Watchdog, FinalizeStatus, GuardedFinalize, Cancel, CancelRun,
           Flip
  <2> QED
    BY <2>1, NoneActivatedKeepsOne
<1>7. CASE CancelAll
  BY <1>7, NoneActivatedKeepsOne DEF NoneActivated, CancelAll, CancelAllRun, Flip
<1> QED
  BY <1>1, <1>2, <1>3, <1>4, <1>5, <1>6, <1>7 DEF Next, TriggerStep, OperatorStep

\* At most one run of a ticket is active, however triggers, resumes, rescues and
\* endings interleave.
THEOREM DispatchOneActivePerTicket == Spec => []OneActivePerTicket
<1>1. Init => OneActivePerTicket
  BY DEF Init, OneActivePerTicket, Active
<1>2. DispatchInv /\ OneActivePerTicket /\ [Next]_vars => OneActivePerTicket'
  BY OneActiveStep DEF OneActivePerTicket, Siblings, vars
<1> QED
  BY <1>1, <1>2, DispatchInvariant, PTL DEF Spec

-----------------------------------------------------------------------------
(* The bound on what the gate lets through.                                *)

\* Runs of profile p that count against it or are about to: their job has passed
\* the gate and markRunning has not run yet.
Committed(p) ==
  {r \in Runs : ProfileOf[r] = p /\ (status[r] = "running" \/ job[r] = "admitted")}

CommittedBounded == \A p \in Profiles : Cardinality(Committed(p)) <= Limit[p] - 1 + Capacity
SlotsBounded     == Cardinality(Slots) <= Capacity

AdmissionInv == DispatchInv /\ SlotsBounded /\ CommittedBounded

\* A subset of the runs is finite and no larger than a set that holds it.
LEMMA RunsCardinality ==
  ASSUME NEW S \in SUBSET Runs, NEW T \in SUBSET S
  PROVE  /\ Cardinality(S) \in Nat /\ Cardinality(T) \in Nat
         /\ IsFiniteSet(S) /\ IsFiniteSet(T)
         /\ Cardinality(T) <= Cardinality(S)
  BY FS_Subset, FS_CardinalityType, RunsAssumption

\* A step that adds nobody to the committed runs, and nobody to the slots, keeps
\* both bounds.
LEMMA ShrinkKeepsBounds ==
  ASSUME AdmissionInv, Slots' \subseteq Slots,
         \A p \in Profiles : Committed(p)' \subseteq Committed(p)
  PROVE  (SlotsBounded /\ CommittedBounded)'
<1> USE LimitAssumption, CapacityAssumption
<1>1. SlotsBounded'
  <2>1. Slots \in SUBSET Runs /\ Slots' \in SUBSET Slots
    BY DEF Slots
  <2>2. Cardinality(Slots') <= Cardinality(Slots) /\ Cardinality(Slots) \in Nat
        /\ Cardinality(Slots') \in Nat
    BY <2>1, RunsCardinality
  <2> QED
    BY <2>2 DEF AdmissionInv, SlotsBounded
<1>2. ASSUME NEW p \in Profiles
      PROVE  Cardinality(Committed(p)') <= Limit[p] - 1 + Capacity
  <2>1. Committed(p) \in SUBSET Runs /\ Committed(p)' \in SUBSET Committed(p)
    BY DEF Committed
  <2>2. /\ Cardinality(Committed(p)') <= Cardinality(Committed(p))
        /\ Cardinality(Committed(p)) \in Nat /\ Cardinality(Committed(p)') \in Nat
    BY <2>1, RunsCardinality
  <2> QED
    BY <2>2 DEF AdmissionInv, CommittedBounded
<1> QED
  BY <1>1, <1>2 DEF CommittedBounded

\* A pickup happens while a slot is free.
LEMMA PickUpKeepsBounds ==
  ASSUME AdmissionInv, NEW r \in Runs, PickUp(r)
  PROVE  (SlotsBounded /\ CommittedBounded)'
<1> USE LimitAssumption, CapacityAssumption
<1>1. Slots' = Slots \cup {r}
  BY DEF PickUp, Slots, SetJob, InSlot, AdmissionInv, DispatchInv, TypeOK
<1>2. IsFiniteSet(Slots) /\ Cardinality(Slots) \in Nat
  BY RunsCardinality DEF Slots
<1>3. Cardinality(Slots') <= Cardinality(Slots) + 1
  BY <1>1, <1>2, FS_AddElement
<1>4. SlotsBounded'
  <2>1. IsFiniteSet(Slots') /\ Cardinality(Slots') \in Nat
    BY <1>1, <1>2, FS_AddElement, FS_CardinalityType
  <2> QED
    BY <1>2, <1>3, <2>1 DEF SlotsBounded, PickUp
<1>5. ASSUME NEW p \in Profiles PROVE Committed(p)' = Committed(p)
  BY <1>5 DEF PickUp, Committed, SetJob, AdmissionInv, DispatchInv, TypeOK
<1> QED
  BY <1>4, <1>5 DEF AdmissionInv, CommittedBounded

\* A job passes the gate while the profile's running rows are below its limit, and
\* every other job past the gate holds a slot.
LEMMA GateAdmitKeepsBounds ==
  ASSUME AdmissionInv, NEW r \in Runs, GateAdmit(r)
  PROVE  (SlotsBounded /\ CommittedBounded)'
<1> USE LimitAssumption, CapacityAssumption, RoutingAssumption
<1>1. /\ job[r] = "picked" /\ job' = [job EXCEPT ![r] = "admitted"]
      /\ status' = status /\ job \in [Runs -> JobStates]
      /\ GateAdmits(r)
  BY DEF GateAdmit, SetJob, AdmissionInv, DispatchInv, TypeOK
<1>2. Slots' = Slots
  BY <1>1 DEF Slots, InSlot
<1>3. ASSUME NEW p \in Profiles, p # ProfileOf[r] PROVE Committed(p)' = Committed(p)
  BY <1>1, <1>3 DEF Committed
<1>4. Cardinality(Committed(ProfileOf[r])') <= Limit[ProfileOf[r]] - 1 + Capacity
  <2> DEFINE p == ProfileOf[r]
             R == RunningOn(p)
             C == Committed(p)'
  <2>1. C \subseteq R \cup Slots
    BY <1>1 DEF Committed, RunningOn, Slots, InSlot
  <2>2. R \in SUBSET Runs /\ Slots \in SUBSET Runs /\ R \cup Slots \in SUBSET Runs
        /\ C \in SUBSET (R \cup Slots)
    BY <2>1 DEF RunningOn, Slots
  <2>3. /\ IsFiniteSet(R) /\ IsFiniteSet(Slots)
        /\ Cardinality(R) \in Nat /\ Cardinality(Slots) \in Nat
        /\ Cardinality(R \cup Slots) \in Nat /\ Cardinality(C) \in Nat
        /\ Cardinality(C) <= Cardinality(R \cup Slots)
    BY <2>2, RunsCardinality
  <2>4. Cardinality(R \cup Slots) <= Cardinality(R) + Cardinality(Slots)
    <3>1. Cardinality(R \cup Slots)
            = Cardinality(R) + Cardinality(Slots) - Cardinality(R \cap Slots)
      BY <2>3, FS_Union
    <3>2. Cardinality(R \cap Slots) \in Nat
      BY <2>2, RunsCardinality
    <3> QED
      BY <2>3, <3>1, <3>2
  <2>5. Cardinality(R) < Limit[p] /\ Limit[p] \in Nat /\ p \in Profiles
    BY <1>1 DEF GateAdmits
  <2>6. Cardinality(Slots) <= Capacity
    BY DEF AdmissionInv, SlotsBounded
  <2> HIDE DEF p, R, C
  <2>7. Cardinality(C) <= Limit[p] - 1 + Capacity
    BY <2>3, <2>4, <2>5, <2>6
  <2> QED
    BY <2>7 DEF p, C
<1> QED
  BY <1>2, <1>3, <1>4 DEF AdmissionInv, SlotsBounded, CommittedBounded

\* A step of a reachable state keeps the bounds: only a pickup takes a slot, and
\* only the gate commits a run.
LEMMA AdmissionStep ==
  ASSUME AdmissionInv, Next
  PROVE  (SlotsBounded /\ CommittedBounded)'
<1> USE DEF AdmissionInv, DispatchInv, TypeOK, SetStatus, SetJob
<1> DEFINE Shrinks == /\ Slots' \subseteq Slots
                      /\ \A p \in Profiles : Committed(p)' \subseteq Committed(p)
<1>1. ASSUME NEW r \in Runs, PickUp(r) PROVE (SlotsBounded /\ CommittedBounded)'
  BY <1>1, PickUpKeepsBounds
<1>2. ASSUME NEW r \in Runs, GateAdmit(r) PROVE (SlotsBounded /\ CommittedBounded)'
  BY <1>2, GateAdmitKeepsBounds
<1>3. ASSUME NEW r \in Runs,
             Enqueue(r) \/ LoseEnqueue(r) \/ Hold(r) \/ GateHold(r)
      PROVE  Shrinks
  BY <1>3 DEF Enqueue, LoseEnqueue, Hold, GateHold, Slots, InSlot, Committed
<1>4. ASSUME NEW r \in Runs, Insert(r) \/ Dismiss(r) PROVE Shrinks
  BY <1>4 DEF Insert, Dismiss, SupersedeRun, Flip, Slots, InSlot, Committed
<1>5. ASSUME NEW r \in Runs, NEW q \in Runs, Resume(r, q) PROVE Shrinks
  BY <1>5 DEF Resume, SupersedeRun, Flip, Slots, InSlot, Committed, Siblings
<1>6. ASSUME NEW r \in Runs, RejectStaleArtifact(r) PROVE Shrinks
  BY <1>6 DEF RejectStaleArtifact, FinalizeStatus, GuardedFinalize, Flip, Slots,
              InSlot, Committed
<1>7. ASSUME NEW r \in Runs, Begin(r) PROVE Shrinks
  <2>1. CASE Startable(status[r])
    BY <1>7, <2>1 DEF Begin, Startable, MarkRunning, Flip, Slots, InSlot, Committed
  <2>2. CASE ~Startable(status[r])
    BY <1>7, <2>2 DEF Begin, Startable, MarkRunning, Flip, Slots, InSlot, Committed
  <2> QED
    BY <2>1, <2>2
<1>8. ASSUME NEW r \in Runs, Callback(r) \/ Ask(r) PROVE Shrinks
  BY <1>8 DEF Callback, Ask, CallbackAcceptable, FinalizeWithReport, GuardedFinalize,
              ReportTerminalStatus, ParkRun, ParkIfStillRunning, Flip, Slots, Committed
<1>9. ASSUME NEW r \in Runs, Exit(r) \/ ExitRetry(r) PROVE Shrinks
  BY <1>9 DEF Exit, ExitRetry, FinalizeStatusIfRunning, MarkQueuedForRetry, Flip,
              Slots, InSlot, Committed
<1>10. ASSUME NEW r \in Runs, ExitRateLimited(r) \/ OrphanExit(r) PROVE Shrinks
  BY <1>10 DEF ExitRateLimited, OrphanExit, Slots, InSlot, Committed
<1>11. ASSUME WorkerCrash PROVE Shrinks
  BY <1>11 DEF WorkerCrash, Slots, InSlot, Committed
<1>12. ASSUME NEW r \in Runs, Watchdog(r) \/ Cancel(r) PROVE Shrinks
  BY <1>12 DEF Watchdog, FinalizeStatus, GuardedFinalize, Cancel, CancelRun, Flip,
               Slots, Committed
<1>13. ASSUME NEW r \in Runs, Rescue(r) PROVE Shrinks
  BY <1>13 DEF Rescue, ReportTerminalStatus, Slots, Committed
<1>14. ASSUME CancelAll PROVE Shrinks
  BY <1>14 DEF CancelAll, CancelAllRun, Flip, Slots, Committed
<1>15. Shrinks => (SlotsBounded /\ CommittedBounded)'
  BY ShrinkKeepsBounds
<1> HIDE DEF Shrinks
<1> QED
  BY <1>1, <1>2, <1>3, <1>4, <1>5, <1>6, <1>7, <1>8, <1>9, <1>10, <1>11, <1>12, <1>13,
     <1>14, <1>15 DEF Next, TriggerStep, WorkerStep, OperatorStep

\* The gate's count is not transactional with markRunning, and yet a profile never
\* has more running rows than its limit and the worker's other slots together.
THEOREM DispatchOverAdmissionBounded == Spec => []OverAdmissionBounded
<1>1. Init => AdmissionInv
  <2>1. Init => Slots = {} /\ \A p \in Profiles : Committed(p) = {}
    BY DEF Init, Slots, InSlot, Committed
  <2>2. Init => DispatchInv
    BY DEF Init, DispatchInv, TypeOK, JobsHaveRows, ProcessesHaveJobs, JobStates
  <2> QED
    BY <2>1, <2>2, FS_EmptySet, LimitAssumption, CapacityAssumption
       DEF AdmissionInv, SlotsBounded, CommittedBounded
<1>2. AdmissionInv /\ DispatchInv' /\ [Next]_vars => AdmissionInv'
  <2> SUFFICES ASSUME AdmissionInv, DispatchInv', [Next]_vars PROVE AdmissionInv'
    OBVIOUS
  <2>1. CASE UNCHANGED vars
    BY <2>1 DEF AdmissionInv, SlotsBounded, CommittedBounded, Slots, Committed, vars
  <2>2. CASE Next
    BY <2>2, AdmissionStep DEF AdmissionInv
  <2> QED
    BY <2>1, <2>2
<1>3. AdmissionInv => OverAdmissionBounded
  <2> SUFFICES ASSUME AdmissionInv, NEW p \in Profiles
               PROVE  Cardinality(RunningOn(p)) <= Limit[p] - 1 + Capacity
    BY DEF OverAdmissionBounded
  <2>1. Committed(p) \in SUBSET Runs /\ RunningOn(p) \in SUBSET Committed(p)
    BY DEF Committed, RunningOn
  <2>2. /\ Cardinality(RunningOn(p)) <= Cardinality(Committed(p))
        /\ Cardinality(RunningOn(p)) \in Nat /\ Cardinality(Committed(p)) \in Nat
    BY <2>1, RunsCardinality
  <2> QED
    BY <2>2, LimitAssumption, CapacityAssumption DEF AdmissionInv, CommittedBounded
<1> QED
  BY <1>1, <1>2, <1>3, DispatchInvariant, PTL DEF Spec

-----------------------------------------------------------------------------
(* The worker's lock.  OneConsumer is not inductive: a process that        *)
(* believes it holds the lock and has not started consuming yet must own   *)
(* the key too.  LockInv says that, until a lease lapses, whoever holds,   *)
(* consumes or works owns the key and knows it.                            *)

\* w believes it holds the lock, or its consumers are taking or running jobs.
Engaged(w) == Alive(w) /\ (state[w] = "held" \/ active[w] \/ (loop[w] /\ ~paused[w]))

EngagedOwns == ~lapsed => \A w \in Workers : Engaged(w) => lock = w /\ state[w] = "held"

\* Only living processes hold the lock or run consumers, and a callback is pending only for the
\* state it announces.
DeadAreQuiet == \A w \in Workers : ~Alive(w) => ~loop[w] /\ ~active[w] /\ state[w] # "held"

CallbackMatchesState == \A w \in Workers :
  /\ tick[w] = "onAcquired" => state[w] = "held"
  /\ tick[w] = "onLost" => state[w] = "blocked"

LockInv == LockTypeOK /\ EngagedOwns /\ DeadAreQuiet /\ CallbackMatchesState

\* Every step keeps the inductive invariant.
LEMMA LockStep == LockInv /\ [LockNext]_lockVars => LockInv'
<1> SUFFICES ASSUME LockInv, [LockNext]_lockVars PROVE LockInv'
  OBVIOUS
<1> USE NobodyAssumption
    DEF LockInv, LockTypeOK, EngagedOwns, DeadAreQuiet, CallbackMatchesState, Engaged, Alive,
        SetState, SetTick, consumers
<1>1. CASE UNCHANGED lockVars
  BY <1>1 DEF lockVars
<1>2. ASSUME NEW w \in Workers, Start(w) PROVE LockInv'
  BY <1>2 DEF Start
<1>3. ASSUME NEW w \in Workers, Acquire(w) PROVE LockInv'
  BY <1>3 DEF Acquire
<1>4. ASSUME NEW w \in Workers, AcquireReplyLost(w) PROVE LockInv'
  BY <1>4 DEF AcquireReplyLost
<1>5. ASSUME NEW w \in Workers, FindHolder(w) PROVE LockInv'
  BY <1>5 DEF FindHolder
<1>6. ASSUME NEW w \in Workers, LoseLease(w) PROVE LockInv'
  BY <1>6 DEF LoseLease
<1>7. ASSUME NEW w \in Workers, Lapse(w) PROVE LockInv'
  BY <1>7 DEF Lapse
<1>8. ASSUME NEW w \in Workers, Expire(w) PROVE LockInv'
  BY <1>8 DEF Expire
<1>9. ASSUME NEW w \in Workers, ResumeAll(w) PROVE LockInv'
  BY <1>9 DEF ResumeAll
<1>10. ASSUME NEW w \in Workers, PauseAll(w) PROVE LockInv'
  BY <1>10 DEF PauseAll
<1>11. ASSUME NEW w \in Workers, LoopExits(w) PROVE LockInv'
  BY <1>11 DEF LoopExits
<1>12. ASSUME NEW w \in Workers, TakeJob(w) \/ JobsEnd(w) PROVE LockInv'
  <2>1. active' \in [Workers -> BOOLEAN]
    BY <1>12, Zenon DEF TakeJob, JobsEnd
  <2> QED
    BY <1>12, <2>1 DEF TakeJob, JobsEnd, Consuming
<1>13. ASSUME NEW w \in Workers, Shutdown(w) PROVE LockInv'
  BY <1>13 DEF Shutdown
<1>14. ASSUME NEW w \in Workers, Stop(w) PROVE LockInv'
  BY <1>14 DEF Stop, Leave
<1>15. ASSUME NEW w \in Workers, Crash(w) PROVE LockInv'
  BY <1>15 DEF Crash, Leave
<1> QED
  BY <1>1, <1>2, <1>3, <1>4, <1>5, <1>6, <1>7, <1>8, <1>9, <1>10, <1>11, <1>12, <1>13,
     <1>14, <1>15 DEF LockNext

\* While no living holder's lease has lapsed, at most one of any number of worker
\* processes consumes the queues or has jobs in flight.
THEOREM LockOneConsumer == LockSpec => []OneConsumer
<1>1. LockInit => LockInv
  <2>1. LockInit => lapsed \in BOOLEAN
    BY Zenon DEF LockInit
  <2> QED
    BY <2>1 DEF LockInit, LockInv, LockTypeOK, EngagedOwns, DeadAreQuiet, CallbackMatchesState, Engaged,
                Alive
<1>2. LockInv => OneConsumer
  BY DEF LockInv, LockTypeOK, EngagedOwns, DeadAreQuiet, Engaged, Alive, OneConsumer, Busy,
         Consuming
<1> QED
  BY <1>1, <1>2, LockStep, PTL DEF LockSpec

=============================================================================
