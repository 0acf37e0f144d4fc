---------------------------- MODULE CallbackChannel ----------------------------
\* The callback channel of one run, from both ends.  The tool server posts the
\* agent's calls, retries on 5xx and on network errors with two separate budgets,
\* keeps a finished report in the outbox until it is confirmed and leaves one
\* record (a breadcrumb) per call it gives up.  The worker probes the channel
\* before it starts the run, and carries breadcrumbs to run_events on two paths,
\* at the run's exit and in the periodic sweep.  The dashboard derives the
\* channel's health from those events.  A request may be handled after its caller
\* gave up waiting, and its answer may be lost.
EXTENDS Integers, Sequences, FiniteSets, SequencesExt

CONSTANTS Scripts,        \* what happens: [calls, net, srv, faults, downs, ticks], the calls of
                          \* the agent, each [id, tool, bad], the retry budgets after network
                          \* errors and after 5xx, and bounds on failed writes and restarts, on
                          \* failed probes and on the clock
          FileCap,        \* records the breadcrumb file takes
          Threshold,      \* failures in the window that degrade the channel
          HealthWindow

\* The agent's calls are told apart by their ids, and 0 names none; the threshold is
\* read as a positive integer.
ASSUME ChannelAssumption ==
  /\ \A s \in Scripts : /\ IsFiniteSet(s.calls)
                        /\ \A c \in s.calls : c.id # 0 /\ \A d \in s.calls : c.id = d.id => c = d
  /\ Threshold \in Nat \ {0}

VARIABLES
  script,
  calls,       \* [script.calls -> [st, net, srv, result]]
  wire,        \* requests under way: [call, n, ans]
  run,         \* queued, running, parked, reported, stopped, failed (no outcome)
  accepted,    \* calls whose effect the backend took
  saved,       \* reports taken from the outbox: finalized, or shown as undelivered
  alive,       \* the agent's tool server runs
  marker, outbox, latest,  \* latest: the report last written to the outbox
  crumbs,      \* records in <run>.jsonl
  claim,       \* records in <run>.jsonl.ingesting
  ingest,      \* [{"exit", "sweep"} -> step]
  held,        \* [{"exit", "sweep"} -> records read from the claimed file]
  dropped,     \* records lost to a full file, a failed write, an overlap or retention
  overlapped,  \* two ingestions of the run have held the claim together
  consecutive, events, clock, health, faults
cvars == <<script, calls, wire, run, accepted, saved, alive, marker, outbox, latest, crumbs,
           claim, ingest, held, dropped, overlapped, consecutive, events, clock, health, faults>>

toolVars   == <<script, calls, wire, marker, latest>>
workerVars == <<crumbs, claim, ingest, held, dropped, overlapped>>
viewVars   == <<clock, health>>

NoResult == "none"
EndStates == {"reported", "stopped", "failed"}
Fault    == faults < script.faults
Spend    == faults' = faults + 1
AnEvent(kind, who) == [kind |-> kind, who |-> who, at |-> clock]
Nobody   == [id |-> 0, tool |-> NoResult, bad |-> FALSE]

ChannelInit ==
  /\ script \in Scripts
  /\ calls = [c \in script.calls |-> [st |-> "idle", net |-> 0, srv |-> 0, result |-> NoResult]]
  /\ wire = {} /\ run = "queued" /\ accepted = {} /\ saved = {} /\ alive = FALSE
  /\ marker = FALSE /\ outbox = Nobody /\ latest = Nobody
  /\ crumbs = {} /\ claim = {} /\ dropped = {} /\ overlapped = FALSE
  /\ ingest = [p \in {"exit", "sweep"} |-> "idle"] /\ held = [p \in {"exit", "sweep"} |-> {}]
  /\ consecutive = 0 /\ events = <<>> /\ clock = 0 /\ health = [pc |-> "idle"] /\ faults = 0

-----------------------------------------------------------------------------
\* Before the run: the probe.  A dead channel holds the run, which stays queued.

recordFailure ==
  /\ run = "queued" /\ Len(events) < script.downs
  /\ consecutive' = consecutive + 1
  /\ events' = Append(events, AnEvent("channel_down", Nobody.id))
  /\ UNCHANGED <<toolVars, workerVars, viewVars, run, accepted, saved, alive, outbox, faults>>

recordSuccess ==
  /\ run = "queued"
  /\ consecutive' = 0 /\ run' = "running" /\ alive' = TRUE
  /\ UNCHANGED <<toolVars, workerVars, viewVars, accepted, saved, outbox, events, faults>>

-----------------------------------------------------------------------------
\* The tool server

\* complete_task writes the report down before it posts; the write is best-effort.
Begin(c) ==
  /\ alive /\ calls[c].st = "idle"
  /\ calls' = [calls EXCEPT ![c].st = "ready"]
  /\ IF c.tool # "complete" THEN UNCHANGED <<outbox, latest, faults>>
     ELSE \/ outbox' = c /\ latest' = c /\ UNCHANGED faults
          \/ Fault /\ Spend /\ latest' = Nobody /\ UNCHANGED outbox
  /\ UNCHANGED <<script, wire, marker, workerVars, viewVars, run, accepted, saved, alive, consecutive, events>>

Attempt(c) == calls[c].net + calls[c].srv + 1
Current(c) == {q \in wire : q.call = c /\ q.n = Attempt(c)}

Send(c) ==
  /\ alive /\ calls[c].st = "ready"
  /\ calls' = [calls EXCEPT ![c].st = "wait"]
  /\ wire' = wire \cup {[call |-> c, n |-> Attempt(c), ans |-> 0]}
  /\ UNCHANGED <<script, marker, latest, workerVars, viewVars, run, accepted, saved, alive, outbox, consecutive, events, faults>>

\* appendChannelBreadcrumb: skipped when the file is full, swallowed when it fails.
appendChannelBreadcrumb(c) ==
  \/ /\ Cardinality(crumbs) < FileCap
     /\ crumbs' = crumbs \cup {c} /\ UNCHANGED <<dropped, faults>>
  \/ /\ Cardinality(crumbs) >= FileCap
     /\ dropped' = dropped \cup {c} /\ UNCHANGED <<crumbs, faults>>
  \/ Fault /\ Spend /\ dropped' = dropped \cup {c} /\ UNCHANGED crumbs

\* After a failed attempt: sleep and try again, or give up with one record.
Retry(c, one, exhausted) ==
  IF exhausted THEN /\ calls' = [calls EXCEPT ![c] = [one EXCEPT !.st = "over", !.result = "gave up"]]
                    /\ appendChannelBreadcrumb(c)
               ELSE /\ calls' = [calls EXCEPT ![c] = [one EXCEPT !.st = "ready"]]
                    /\ UNCHANGED <<crumbs, dropped, faults>>

\* fetch throws or times out: the request may be lost, late, or answered in vain.
NetworkError(c) ==
  /\ alive /\ calls[c].st = "wait"
  /\ LET one == [calls[c] EXCEPT !.net = @ + 1]
     IN  Retry(c, one, one.net > script.net)
  /\ \/ wire' = wire \ Current(c)
     \/ (\A q \in Current(c) : q.ans = 0) /\ UNCHANGED wire
  /\ UNCHANGED <<script, marker, latest, claim, ingest, held, overlapped, viewVars, run, accepted, saved, alive, outbox, consecutive, events>>

ServerError(c) ==
  /\ alive /\ calls[c].st = "wait"
  /\ \E q \in Current(c) : q.ans = 500 /\ wire' = wire \ {q}
  /\ LET one == [calls[c] EXCEPT !.srv = @ + 1]
     IN  Retry(c, one, one.srv > script.srv)
  /\ UNCHANGED <<script, marker, latest, claim, ingest, held, overlapped, viewVars, run, accepted, saved, alive, outbox, consecutive, events>>

\* The calls that end the session: a question with blocking set, and a report.  A
\* question the agent does not wait for is a "note".
EndingTools == {"ask", "complete"}
EndsSession(c, ans) == ans = 200 /\ c.tool \in EndingTools

\* A mistake: any answer confirms the report.
confirmOutboxAny(c, ans) == c.tool = "complete"
confirmOutbox(c, ans) == c.tool = "complete" /\ ans = 200

\* The marker is written before the agent gets the answer; when that write throws, the
\* agent gets an error for what the backend took, and the outbox stays.
Answered(c) ==
  /\ alive /\ calls[c].st = "wait"
  /\ \E q \in Current(c) :
       /\ q.ans \in {200, 409, 422} /\ wire' = wire \ {q}
       /\ \/ /\ calls' = [calls EXCEPT ![c] = [@ EXCEPT !.st = IF confirmOutbox(c, q.ans) THEN "taken" ELSE "over",
                                                      !.result = IF q.ans = 200 THEN "ok" ELSE "refused"]]
             /\ marker' = (marker \/ EndsSession(c, q.ans)) /\ UNCHANGED faults
          \/ /\ EndsSession(c, q.ans) /\ Fault /\ Spend
             /\ calls' = [calls EXCEPT ![c] = [@ EXCEPT !.st = "over", !.result = "refused"]]
             /\ UNCHANGED marker
  /\ UNCHANGED <<script, latest, workerVars, viewVars, run, accepted, saved, alive, outbox, consecutive, events>>

\* The outbox file goes after the marker, whoever wrote it last; the removal is best-effort.
removeOutbox(c) ==
  /\ alive /\ calls[c].st = "taken"
  /\ calls' = [calls EXCEPT ![c].st = "over"]
  /\ \/ outbox' = Nobody /\ UNCHANGED faults
     \/ Fault /\ Spend /\ UNCHANGED outbox
  /\ UNCHANGED <<script, wire, marker, latest, workerVars, viewVars, run, accepted, saved, alive, consecutive, events>>

-----------------------------------------------------------------------------
\* The backend handles a request, perhaps long after its caller gave up.

refuse(q) == 409

Effect(c) ==
  /\ accepted' = accepted \cup {c}
  /\ run' = CASE c.tool = "complete" -> "reported"
              [] c.tool = "ask" /\ run = "running" -> "parked"
              [] OTHER -> run
Nothing == UNCHANGED <<accepted, run>>
Reply(q, ans) ==
  wire' = (wire \ {q}) \cup IF q.n = Attempt(q.call) /\ calls[q.call].st = "wait"
                            THEN {[q EXCEPT !.ans = ans]} ELSE {}

Handle(q) ==
  /\ q.ans = 0
  /\ IF run \notin {"running", "parked"} THEN Nothing /\ Reply(q, refuse(q))
     ELSE \/ Nothing /\ Reply(q, 500)
          \/ q.call.tool = "complete" /\ Nothing /\ Reply(q, 422)     \* schema or completion gate
          \/ ~q.call.bad /\ Effect(q.call) /\ Reply(q, 200)
          \/ ~q.call.bad /\ Effect(q.call) /\ Reply(q, 500)           \* failed after the effect
  /\ UNCHANGED <<script, calls, marker, latest, workerVars, viewVars, saved, alive, outbox, consecutive, events, faults>>

\* The watchdog or an operator ends the run while its process still works.
StopRun(st) ==
  /\ run \in {"running", "parked"} /\ alive
  /\ run' = st
  /\ UNCHANGED <<toolVars, workerVars, viewVars, accepted, saved, alive, outbox, consecutive, events, faults>>

-----------------------------------------------------------------------------
\* The worker

\* The process is gone (RunCompletion has the exit in full).  The report in the
\* outbox finalizes the run, or is shown as undelivered when the run was cancelled;
\* the breadcrumb file is consumed, except where a timeout found a report.
Exit(kind) ==
  LET valid == kind # "failed" /\ outbox # Nobody /\ ~outbox.bad
      flips == valid /\ kind # "cancelled" /\ run \in {"running", "parked"}
  IN  /\ alive /\ alive' = FALSE
      /\ run'    = CASE flips -> "reported"
                     [] ~flips /\ run = "running" -> (IF kind = "cancelled" THEN "stopped" ELSE "failed")
                     [] OTHER -> run
      /\ saved'  = IF flips \/ (valid /\ kind = "cancelled") THEN saved \cup {outbox} ELSE saved
      /\ outbox' = IF valid THEN Nobody ELSE outbox
      /\ ingest' = [ingest EXCEPT !["exit"] = IF flips /\ kind = "timed_out" THEN "idle" ELSE "scan"]
      /\ UNCHANGED <<toolVars, crumbs, claim, held, dropped, overlapped, viewVars, accepted, consecutive, events, faults>>

\* The sweep looks at the outbox first: a rescued or an undeliverable verdict is
\* taken, a parked run's is left, a bad file is kept.
SweepOutbox ==
  /\ ingest["sweep"] = "idle" /\ run # "queued"
  /\ \/ crumbs # {} /\ UNCHANGED <<run, saved, outbox, events>> /\ (outbox = Nobody \/ outbox.bad \/ run = "parked")
     \/ /\ outbox # Nobody /\ ~outbox.bad /\ run # "parked" /\ outbox' = Nobody
        /\ run'    = IF run \in {"running", "failed"} THEN "reported" ELSE run
        /\ saved'  = IF run = "reported" THEN saved ELSE saved \cup {outbox}
        /\ events' = IF run = "stopped" THEN Append(events, AnEvent("undelivered_report", Nobody.id)) ELSE events
  /\ ingest' = [ingest EXCEPT !["sweep"] = "scan"]
  /\ UNCHANGED <<toolVars, crumbs, claim, held, dropped, overlapped, viewVars, accepted, alive, consecutive, faults>>

\* rename(file, file.ingesting): the winner's file replaces a claim left behind.
claimed(p) == claim' = crumbs /\ crumbs' = {}

claimChannelBreadcrumbFile(p) ==
  /\ ingest[p] = "scan"
  /\ IF crumbs # {} /\ (p = "sweep" => run \in EndStates)
     THEN /\ claimed(p)
          /\ dropped'    = dropped \cup claim
          /\ overlapped' = (overlapped \/ \E o \in DOMAIN ingest : ingest[o] \in {"claimed", "read"})
          /\ ingest'     = [ingest EXCEPT ![p] = "claimed"]
     ELSE ingest' = [ingest EXCEPT ![p] = "idle"] /\ UNCHANGED <<claim, crumbs, dropped, overlapped>>
  /\ UNCHANGED <<toolVars, held, viewVars, run, accepted, saved, alive, outbox, consecutive, events, faults>>

readClaimedBreadcrumbs(p) ==
  /\ ingest[p] = "claimed"
  /\ held' = [held EXCEPT ![p] = claim] /\ ingest' = [ingest EXCEPT ![p] = "read"]
  /\ UNCHANGED <<toolVars, crumbs, claim, dropped, overlapped, viewVars, run, accepted, saved, alive, outbox, consecutive, events, faults>>

\* One statement inserts all, then the claim is removed, though the other path may
\* have put a newer file in its place; a failed insert leaves it.
failedInsert(p) == Fault /\ Spend /\ UNCHANGED <<claim, events>>

ingestChannelBreadcrumbs(p) ==
  /\ ingest[p] = "read"
  /\ \/ /\ events' = events \o [i \in 1 .. Cardinality(held[p]) |-> AnEvent("channel_failure", SetToSeq(held[p])[i].id)]
        /\ claim' = {} /\ dropped' = dropped \cup (claim \ held[p]) /\ UNCHANGED faults
     \/ failedInsert(p) /\ UNCHANGED dropped
  /\ held' = [held EXCEPT ![p] = {}] /\ ingest' = [ingest EXCEPT ![p] = "idle"]
  /\ UNCHANGED <<toolVars, crumbs, overlapped, viewVars, run, accepted, saved, alive, outbox, consecutive>>

\* An orphaned claim is kept for inspection and deleted after the retention.
retention ==
  /\ claim # {} /\ \A p \in DOMAIN ingest : ingest[p] \notin {"claimed", "read"}
  /\ claim' = {} /\ dropped' = dropped \cup claim
  /\ UNCHANGED <<toolVars, crumbs, ingest, held, overlapped, viewVars, run, accepted, saved, alive, outbox, consecutive, events, faults>>

\* The worker dies: ingestions stop where they are, the probe forgets its count.
WorkerRestart ==
  /\ Fault /\ Spend
  /\ ingest' = [p \in DOMAIN ingest |-> "idle"] /\ held' = [p \in DOMAIN held |-> {}] /\ consecutive' = 0
  /\ UNCHANGED <<toolVars, crumbs, claim, dropped, overlapped, viewVars, run, accepted, saved, alive, outbox, events>>

-----------------------------------------------------------------------------
\* GET api/channel-health: the start of the window is taken once, then one query
\* counts and another lists the runs.

EventsSince(start, kinds) == {i \in DOMAIN events : events[i].kind \in kinds /\ events[i].at > start}

AskHealth ==
  /\ health.pc = "idle" /\ events # <<>> /\ script.ticks > 0
  /\ LET start == clock - HealthWindow
     IN  health' = [pc |-> "counted", start |-> start,
                    failures |-> Cardinality(EventsSince(start, {"channel_failure"})),
                    downs    |-> Cardinality(EventsSince(start, {"channel_down"}))]
  /\ UNCHANGED <<toolVars, workerVars, clock, run, accepted, saved, alive, outbox, consecutive, events, faults>>

affectedSince(start) == EventsSince(start, {"channel_failure", "channel_down", "undelivered_report"})

aggregate ==
  /\ health.pc = "counted"
  /\ \E guardOk \in BOOLEAN :
       health' = [pc |-> "answered", byEvents |-> health.downs >= 1 \/ health.failures >= Threshold,
                  affected |-> affectedSince(health.start) # {}, guardOk |-> guardOk]
  /\ UNCHANGED <<toolVars, workerVars, clock, run, accepted, saved, alive, outbox, consecutive, events, faults>>

ShowHealth ==
  /\ health.pc = "answered" /\ health' = [pc |-> "idle"]
  /\ UNCHANGED <<toolVars, workerVars, clock, run, accepted, saved, alive, outbox, consecutive, events, faults>>

ClockTick ==
  /\ clock < script.ticks /\ clock' = clock + 1
  /\ UNCHANGED <<toolVars, workerVars, health, run, accepted, saved, alive, outbox, consecutive, events, faults>>

ChannelNext ==
  \/ recordFailure \/ recordSuccess
  \/ \E c \in script.calls : Begin(c) \/ Send(c) \/ NetworkError(c) \/ ServerError(c) \/ Answered(c) \/ removeOutbox(c)
  \/ \E q \in wire : Handle(q)
  \/ \E st \in {"failed", "stopped"} : StopRun(st)
  \/ \E kind \in {"completed", "timed_out", "cancelled", "failed"} : Exit(kind)
  \/ SweepOutbox
  \/ \E p \in DOMAIN ingest : claimChannelBreadcrumbFile(p) \/ readClaimedBreadcrumbs(p) \/ ingestChannelBreadcrumbs(p)
  \/ retention \/ WorkerRestart
  \/ AskHealth \/ aggregate \/ ShowHealth \/ ClockTick

-----------------------------------------------------------------------------
\* What the agent is told is so: a call answered ok has had its effect, whatever
\* was lost or late before; and the marker, which lets the session end, is there
\* only when a blocking question or a report was taken.
ToldTheTruth ==
  /\ \A c \in script.calls : calls[c].result = "ok" => c \in accepted
  /\ marker => \E c \in accepted : c.tool \in EndingTools

\* While its tool server lives, the report last written down is never lost: it was
\* taken, or shown as undelivered, or it is still in the outbox.
ReportKept ==
  alive /\ latest # Nobody =>
    outbox = latest \/ latest \in saved \/ run = "reported" \/ latest \in accepted

RecordsOf(c) == {i \in DOMAIN events : events[i].kind = "channel_failure" /\ events[i].who = c.id}

\* Every call given up is accounted for: its record is in the file, in the claimed
\* file or among the events, unless one of the named losses took it. A failed
\* insert or a worker's death loses none.
CrumbsAccounted ==
  \A c \in script.calls : calls[c].result = "gave up" =>
    \/ c \in crumbs \cup claim \cup dropped
    \/ RecordsOf(c) # {}

\* The two paths never write a record twice as long as their claims do not overlap:
\* the rename lets one of them have the file.
CrumbsOnce ==
  ~overlapped => \A c \in script.calls : \A i, j \in RecordsOf(c) : i = j

\* A channel degraded by events names a run, though the two queries read the
\* events at two moments.
HealthNamesARun == health.pc = "answered" /\ health.byEvents => health.affected

\* The channel is honest with the agent and with the operator, over lost answers,
\* failed inserts and restarts: what the agent is told is so, and neither a report
\* nor the record of a failed call is lost or doubled.
ChannelHonest ==
  ToldTheTruth /\ ReportKept /\ CrumbsAccounted /\ CrumbsOnce /\ HealthNamesARun

=============================================================================
