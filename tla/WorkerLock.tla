----------------------------- MODULE WorkerLock -----------------------------
(***************************************************************************)
(* The exclusive worker lock of a BullMQ namespace: a Redis key with a     *)
(* lease, taken with SET NX PX, renewed and released by compare-and-...    *)
(* scripts, and the callbacks that start and pause the queue consumers of  *)
(* the worker process.                                                     *)
(*                                                                         *)
(* A member of Workers is one process: the identity in the key names its   *)
(* pid and the time of the acquisition, so a restarted process is another  *)
(* member.  The consumers of a process (six BullMQ workers) are started,   *)
(* paused and closed together and are one here; active says that at least  *)
(* one job is in flight.  Time is left out: a lease may run out whenever   *)
(* its owner has not just renewed it, and lapsed remembers that this       *)
(* happened to an owner that was alive and believed it held the lock.      *)
(***************************************************************************)
EXTENDS Naturals, FiniteSets

CONSTANTS Workers, Nobody

ASSUME NobodyAssumption == Nobody \notin Workers

VARIABLES
  lock,      \* the worker whose identity is in the key, or Nobody
  lapsed,    \* a living holder's lease has run out
  phase,     \* the process: off, up, draining (shutdown), gone
  state,     \* WorkerLockService.state
  tick,      \* what the current tick still has to call back: onAcquired, onLost
  loop,      \* worker.isRunning(): the main loop of the consumers is up
  paused,    \* worker.isPaused()
  active     \* a job is in flight

lockVars == <<lock, lapsed, phase, state, tick, loop, paused, active>>
consumers == <<loop, paused, active>>

LockTypeOK ==
  /\ lock \in Workers \cup {Nobody}
  /\ lapsed \in BOOLEAN
  /\ phase \in [Workers -> {"off", "up", "draining", "gone"}]
  /\ state \in [Workers -> {"idle", "blocked", "held"}]
  /\ tick \in [Workers -> {"done", "onAcquired", "onLost"}]
  /\ loop \in [Workers -> BOOLEAN]
  /\ paused \in [Workers -> BOOLEAN]
  /\ active \in [Workers -> BOOLEAN]

\* Consumers are declared with autorun: false.
LockInit ==
  /\ lock = Nobody /\ lapsed = FALSE
  /\ phase = [w \in Workers |-> "off"]
  /\ state = [w \in Workers |-> "idle"]
  /\ tick = [w \in Workers |-> "done"]
  /\ loop = [w \in Workers |-> FALSE]
  /\ paused = [w \in Workers |-> FALSE]
  /\ active = [w \in Workers |-> FALSE]

Alive(w)     == phase[w] \in {"up", "draining"}
Consuming(w) == phase[w] = "up" /\ loop[w] /\ ~paused[w]
Busy(w)      == active[w] \/ Consuming(w)

SetState(w, s) == state' = [state EXCEPT ![w] = s]
SetTick(w, t)  == tick' = [tick EXCEPT ![w] = t]

-----------------------------------------------------------------------------
(* The lock service: one tick at a time.                                   *)

Start(w) ==
  /\ phase[w] = "off"
  /\ phase' = [phase EXCEPT ![w] = "up"]
  /\ UNCHANGED <<lock, lapsed, state, tick, consumers>>

\* tryAcquire: SET NX finds the key free.
Acquire(w) ==
  /\ Alive(w) /\ state[w] # "held" /\ tick[w] = "done"
  /\ lock = Nobody
  /\ lock' = w
  /\ SetState(w, "held") /\ SetTick(w, "onAcquired")
  /\ UNCHANGED <<lapsed, phase, consumers>>

\* SET NX succeeds and its reply is lost: the tick throws and the key holds an
\* identity that nobody will renew.
AcquireReplyLost(w) ==
  /\ Alive(w) /\ state[w] # "held" /\ tick[w] = "done"
  /\ lock = Nobody
  /\ lock' = w
  /\ UNCHANGED <<lapsed, phase, state, tick, consumers>>

\* tryAcquire finds a holder.
FindHolder(w) ==
  /\ Alive(w) /\ state[w] # "held" /\ tick[w] = "done"
  /\ lock # Nobody
  /\ SetState(w, "blocked")
  /\ UNCHANGED <<lock, lapsed, phase, tick, consumers>>

\* A mistake: a holder that finds its key gone takes the lease again and goes on
\* (SET XX instead of the compare-and-extend script).
LoseLeaseExtends(w) ==
  /\ Alive(w) /\ state[w] = "held" /\ tick[w] = "done"
  /\ lock # w
  /\ lock' = w
  /\ UNCHANGED <<lapsed, phase, state, tick, consumers>>

\* renew: the compare-and-extend script finds another identity or no key.
LoseLease(w) ==
  /\ Alive(w) /\ state[w] = "held" /\ tick[w] = "done"
  /\ lock # w
  /\ SetState(w, "blocked") /\ SetTick(w, "onLost")
  /\ UNCHANGED <<lock, lapsed, phase, consumers>>

\* The lease of a living holder runs out: it was suspended, or cut off from Redis,
\* for longer than the TTL.
Lapse(w) ==
  /\ lock = w /\ Alive(w) /\ state[w] = "held"
  /\ lock' = Nobody /\ lapsed' = TRUE
  /\ UNCHANGED <<phase, state, tick, consumers>>

\* A mistake: the key is set without PX, so only an unanswered SET of a living
\* process is ever cleaned up.
ExpireWithoutTtl(w) ==
  /\ lock = w /\ Alive(w) /\ state[w] # "held"
  /\ lock' = Nobody
  /\ UNCHANGED <<lapsed, phase, state, tick, consumers>>

\* The key of a dead process, or one whose SET was never answered, runs out.
Expire(w) ==
  /\ lock = w /\ ~(Alive(w) /\ state[w] = "held")
  /\ lock' = Nobody
  /\ UNCHANGED <<lapsed, phase, state, tick, consumers>>

-----------------------------------------------------------------------------
(* The callbacks and the consumers they drive.                             *)

\* A mistake, and the incident of 2026-07-28: run() is tried first, and returns at
\* once on a paused consumer whose loop has exited.
ResumeAllRunFirst(w) ==
  /\ Alive(w) /\ tick[w] = "onAcquired"
  /\ SetTick(w, "done")
  /\ IF ~loop[w]
       THEN loop' = [loop EXCEPT ![w] = phase[w] = "up" /\ ~paused[w]] /\ UNCHANGED paused
       ELSE paused' = [paused EXCEPT ![w] = FALSE] /\ UNCHANGED loop
  /\ UNCHANGED <<lock, lapsed, phase, state, active>>

\* resumeAll: resume() clears the flag and starts the loop again, run() starts it
\* the first time; neither starts a closing consumer.
ResumeAll(w) ==
  /\ Alive(w) /\ tick[w] = "onAcquired"
  /\ SetTick(w, "done")
  /\ paused' = [paused EXCEPT ![w] = FALSE]
  /\ loop' = [loop EXCEPT ![w] = @ \/ phase[w] = "up"]
  /\ UNCHANGED <<lock, lapsed, phase, state, active>>

\* pauseAll: pause(true) does not wait for jobs in flight.
PauseAll(w) ==
  /\ Alive(w) /\ tick[w] = "onLost"
  /\ SetTick(w, "done")
  /\ paused' = [paused EXCEPT ![w] = TRUE]
  /\ UNCHANGED <<lock, lapsed, phase, state, loop, active>>

\* while (!closing && !paused), and the jobs in flight.
LoopExits(w) ==
  /\ Alive(w) /\ loop[w] /\ ~active[w]
  /\ paused[w] \/ phase[w] = "draining"
  /\ loop' = [loop EXCEPT ![w] = FALSE]
  /\ UNCHANGED <<lock, lapsed, phase, state, tick, paused, active>>

TakeJob(w) ==
  /\ Consuming(w)
  /\ active' = [active EXCEPT ![w] = TRUE]
  /\ UNCHANGED <<lock, lapsed, phase, state, tick, loop, paused>>

JobsEnd(w) ==
  /\ active[w]
  /\ active' = [active EXCEPT ![w] = FALSE]
  /\ UNCHANGED <<lock, lapsed, phase, state, tick, loop, paused>>

-----------------------------------------------------------------------------
(* Shutdown and crash.                                                     *)

\* onApplicationShutdown: every consumer is closed; the ticks go on.
Shutdown(w) ==
  /\ phase[w] = "up"
  /\ phase' = [phase EXCEPT ![w] = "draining"]
  /\ UNCHANGED <<lock, lapsed, state, tick, consumers>>

Leave(w) ==
  /\ phase' = [phase EXCEPT ![w] = "gone"]
  /\ SetState(w, "idle") /\ SetTick(w, "done")
  /\ loop' = [loop EXCEPT ![w] = FALSE]
  /\ active' = [active EXCEPT ![w] = FALSE]
  /\ UNCHANGED <<lapsed, paused>>

\* A mistake: the lock is released before the consumers have drained.
StopBeforeDrain(w) ==
  /\ phase[w] = "draining"
  /\ lock' = IF state[w] = "held" /\ lock = w THEN Nobody ELSE lock
  /\ SetState(w, "idle") /\ SetTick(w, "done")
  /\ UNCHANGED <<lapsed, phase, consumers>>

\* stop, once close() has waited for the jobs in flight: the holder's key is
\* deleted if it is still its own and Redis answers, and a SET in flight may
\* still land.
Stop(w) ==
  /\ phase[w] = "draining" /\ ~active[w]
  /\ Leave(w)
  /\ \/ UNCHANGED lock
     \/ state[w] = "held" /\ lock = w /\ lock' = Nobody
     \/ state[w] # "held" /\ lock = Nobody /\ lock' = w

Crash(w) ==
  /\ Alive(w)
  /\ Leave(w)
  /\ UNCHANGED lock

-----------------------------------------------------------------------------
LockNext == \E w \in Workers :
  \/ Start(w) \/ Acquire(w) \/ AcquireReplyLost(w) \/ FindHolder(w)
  \/ LoseLease(w) \/ Lapse(w) \/ Expire(w)
  \/ ResumeAll(w) \/ PauseAll(w) \/ LoopExits(w) \/ TakeJob(w) \/ JobsEnd(w)
  \/ Shutdown(w) \/ Stop(w) \/ Crash(w)

LockSpec == LockInit /\ [][LockNext]_lockVars

\* Ticks are rescheduled after every outcome and await their callbacks; keys with
\* a TTL run out.  A tick whose SET would succeed does not lose its reply for
\* ever.  Nothing is assumed of jobs, shutdowns or crashes.
Fairness == \A w \in Workers :
  /\ SF_lockVars(Acquire(w)) /\ WF_lockVars(LoseLease(w))
  /\ WF_lockVars(ResumeAll(w)) /\ WF_lockVars(PauseAll(w)) /\ WF_lockVars(Expire(w))

FairSpec == LockSpec /\ Fairness

-----------------------------------------------------------------------------
(* Properties.                                                             *)

\* While no living holder's lease has lapsed, at most one process consumes
\* the queues or has jobs in flight - across takeovers from crashed holders, lost
\* replies and shutdowns, which must drain before they release.
OneConsumer ==
  ~lapsed => \A w, v \in Workers : Busy(w) /\ Busy(v) => w = v

\* A process that holds the lock consumes: it never sits on the key with paused or
\* stopped consumers, also after it lost the lock and took it back.
HolderConsumes ==
  \A w \in Workers :
    (state[w] = "held" /\ phase[w] = "up")
      ~> (Consuming(w) \/ state[w] # "held" \/ phase[w] # "up")

\* After a lapse the old holder stands back: two processes do not both go on
\* taking jobs.
OverlapEnds ==
  \A w, v \in Workers :
    (w # v /\ Consuming(w) /\ Consuming(v)) ~> ~(Consuming(w) /\ Consuming(v))

\* When all the others are gone for good, the one that is left consumes.
SurvivorConsumes ==
  \A w \in Workers :
    <>[](phase[w] = "up" /\ \A v \in Workers \ {w} : phase[v] \in {"off", "gone"})
      => []<>Consuming(w)

=============================================================================
