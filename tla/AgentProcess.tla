---------------------------- MODULE AgentProcess ----------------------------
(***************************************************************************)
(* One headless CLI process of a run: the spawn, the lines it prints, the  *)
(* kills that a rate limit and an abort start, and the promise that        *)
(* runProcess settles exactly once.                                        *)
(*                                                                         *)
(* The leader of the process group may leave a descendant behind that has  *)
(* moved to its own group and holds the stdio pipes: then 'close' does not *)
(* fire when the leader is gone, and the fallback timer, armed after every *)
(* kill, settles the run from what was parsed.  Inserts of run events are  *)
(* not awaited, but for the last one when a rate limit is handed back and  *)
(* the tail of stderr when a timeout is.                                   *)
(***************************************************************************)
EXTENDS Naturals

CONSTANTS
  Runs,
  Terminals     \* what a result event may carry: a subset of Terminal

Terminal  == {"report", "no_report", "over_budget"}
ExitStatus == {"completed", "crashed", "timeout", "cancelled", "rate_limited"}

ASSUME ProcessAssumption == Terminals \subseteq Terminal

VARIABLES
  signal,   \* the abort signal of each run: none, timeout or cancelled
  proc      \* the process of each run

Kills   == {"rate", "abort"}
Inserts == {"retry", "other", "tail"}
Habits  == {"talks", "escapes"}

\* cli: whether it prints lines, and leaves a descendant that holds the pipes;
\* stage: the leader; holder: a descendant holds the pipes; abort: abortReason;
\* kills: terminate() in progress; insert: run events on their way to the
\* database; last: lastPersist; close: handleClose; waits: the insert it awaits.
NoProcess ==
  [cli |-> {}, stage |-> "none", holder |-> FALSE, escaped |-> FALSE, abort |-> "none",
   rate |-> FALSE, terminal |-> "none", kills |-> {}, timer |-> FALSE,
   insert |-> {}, last |-> "none", close |-> "no", waits |-> "none",
   result |-> "none", report |-> FALSE]

ProcessType ==
  [cli : SUBSET Habits, stage : {"none", "up", "gone"}, holder : BOOLEAN, escaped : BOOLEAN,
   abort : {"none", "timeout", "cancelled"}, rate : BOOLEAN,
   terminal : Terminal \cup {"none"}, kills : SUBSET Kills, timer : BOOLEAN,
   insert : SUBSET Inserts, last : Inserts \cup {"none"},
   close : {"no", "waiting", "done"}, waits : Inserts \cup {"none"},
   result : ExitStatus \cup {"none"}, report : BOOLEAN]

ProcTypeOK ==
  /\ signal \in [Runs -> {"none", "timeout", "cancelled"}]
  /\ proc \in [Runs -> ProcessType]

ProcInit ==
  /\ signal = [r \in Runs |-> "none"]
  /\ proc = [r \in Runs |-> NoProcess]

-----------------------------------------------------------------------------
Settle(p, status) ==
  IF p.result # "none" THEN p
  ELSE [p EXCEPT !.result = status, !.timer = FALSE,
          !.report = (status = "completed" /\ p.terminal = "report")]

\* A mistake: the watchdog is looked at before the rate limit.
CloseStatusTimeoutFirst(p) ==
  IF p.abort # "none" THEN p.abort
  ELSE IF p.rate THEN "rate_limited"
  ELSE IF p.terminal \in {"report", "no_report"} THEN "completed" ELSE "crashed"

\* What handleClose settles with: cancelled > rate_limited > timeout > the result event >
\* crashed.
CloseStatus(p) ==
  CASE p.abort = "cancelled" -> "cancelled"
    [] p.abort # "cancelled" /\ p.rate -> "rate_limited"
    [] p.abort = "timeout" /\ ~p.rate -> "timeout"
    [] p.abort = "none" /\ ~p.rate /\ p.terminal \in {"report", "no_report"} -> "completed"
    [] OTHER -> "crashed"

\* terminateAndSettle: SIGTERM to the group; the rest is KillEnds.
Terminate(p, k) == [p EXCEPT !.kills = @ \cup {k}]

\* The listener, registered in the step that spawns and removed by handleClose.
OnAbort(p, why) ==
  IF p.stage = "none" \/ p.close # "no" THEN p
  ELSE Terminate([p EXCEPT !.abort = why], "abort")

\* persistRunEvent.
Persist(p, i) == [p EXCEPT !.insert = @ \cup {i}, !.last = i]

Await(p) == [p EXCEPT !.close = "waiting", !.waits = p.last]

\* A timeout awaits the insert of what stderr has said, if it has said anything.
HandleClose(p, stderr) ==
  LET status == CloseStatus(p) IN
    CASE p.close # "no" -> p
      [] p.close = "no" /\ status = "rate_limited" /\ p.last \in p.insert -> Await(p)
      [] p.close = "no" /\ status = "timeout" /\ stderr -> Await(Persist(p, "tail"))
      [] OTHER -> Settle([p EXCEPT !.close = "done"], status)

-----------------------------------------------------------------------------
\* Nothing that happens after the settlement changes the result.
Step(r, p) ==
  /\ proc[r].result = "none"
  /\ proc' = [proc EXCEPT ![r] = p] /\ UNCHANGED signal

\* spawnGroup, the prompt on stdin, the handlers; or the spawn fails.
Spawned(p, cli) == [p EXCEPT !.stage = "up", !.cli = cli]
SpawnFailed(p)  == Settle([p EXCEPT !.stage = "gone"], "crashed")

\* One line of stdout.  What is read once the close is handled is not looked at.
CanPrint(r) == "talks" \in proc[r].cli /\ proc[r].stage # "none" /\ proc[r].close = "no"

RateLimitLine(r) ==
  /\ CanPrint(r) /\ ~proc[r].rate /\ proc[r].terminal = "none"
  /\ Step(r, Terminate(Persist([proc[r] EXCEPT !.rate = TRUE], "retry"), "rate"))

EventLine(r) ==
  /\ CanPrint(r) /\ "other" \notin proc[r].insert
  /\ Step(r, Persist(proc[r], "other"))

ResultLine(r) ==
  /\ CanPrint(r) /\ proc[r].terminal = "none"
  /\ \E t \in Terminals : Step(r, [proc[r] EXCEPT !.terminal = t])

\* The insert commits, or fails and is logged.
InsertEnds(r) ==
  \E i \in proc[r].insert :
    Step(r, LET p == [proc[r] EXCEPT !.insert = @ \ {i}] IN
              IF p.close = "waiting" /\ p.waits = i
              THEN Settle([p EXCEPT !.close = "done"], CloseStatus(p)) ELSE p)

Escape(r) ==
  /\ "escapes" \in proc[r].cli /\ proc[r].stage = "up" /\ ~proc[r].escaped
  /\ Step(r, [proc[r] EXCEPT !.holder = TRUE, !.escaped = TRUE])

HolderEnds(r) ==
  /\ proc[r].holder
  /\ Step(r, [proc[r] EXCEPT !.holder = FALSE])

LeaderExits(r) ==
  /\ proc[r].stage = "up"
  /\ Step(r, [proc[r] EXCEPT !.stage = "gone"])

\* A mistake: the kill is trusted to bring the close.
ArmedNever(p, k) == [p EXCEPT !.kills = @ \ {k}]

\* The kill is over: the fallback timer is armed unless the close came first.
Armed(p, k) ==
  [p EXCEPT !.kills = @ \ {k}, !.timer = @ \/ (p.result = "none" /\ p.close = "no")]

\* terminate(): the leader has exited within the grace, or it is killed with
\* the descendants the snapshot has found.
KillEnds(r) ==
  \E k \in proc[r].kills :
    \/ proc[r].stage = "gone" /\ Step(r, Armed(proc[r], k))
    \/ /\ proc[r].stage = "up"
       /\ \E left \in {FALSE, proc[r].holder} :
            Step(r, Armed([proc[r] EXCEPT !.stage = "gone", !.holder = left], k))

FallbackFires(r) ==
  /\ proc[r].timer
  /\ \E stderr \in BOOLEAN :
       Step(r, HandleClose(Persist([proc[r] EXCEPT !.timer = FALSE], "other"), stderr))

Close(r) ==
  /\ proc[r].stage = "gone" /\ ~proc[r].holder /\ proc[r].close = "no"
  /\ \E stderr \in BOOLEAN : Step(r, HandleClose([proc[r] EXCEPT !.timer = FALSE], stderr))

ProcNext(r) ==
  \/ RateLimitLine(r) \/ EventLine(r) \/ ResultLine(r) \/ InsertEnds(r)
  \/ Escape(r) \/ HolderEnds(r) \/ LeaderExits(r)
  \/ KillEnds(r) \/ FallbackFires(r) \/ Close(r)
=============================================================================
