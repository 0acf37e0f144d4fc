------------------------------ MODULE AgentPrompt ------------------------------
\* What an agent is told when its run starts, along the runs of one ticket (or of
\* one workspace setup).  The processor puts the handoff section together from
\* several reads, the executor adds the ticket's verification receipt when the
\* worktrees stand exactly where it was recorded, and the wrapper adds the rest.
\* Meanwhile the operator edits the team and the budget, branches move, and the
\* backend writes the receipt of an earlier run.  What the agent answers is judged
\* later, on the rows as they are then; TicketPipeline has that in full.
EXTENDS Integers, Sequences, FiniteSets

CONSTANTS Stories,       \* [ticket, repos, gates, runs, edits, pushes, faults]: is there a
                         \* ticket, the workspace's repositories, names of checks; bounds
          Workers,       \* keys of the worker agents
          MaxGates       \* VERIFICATION_RECEIPT_MAX_GATES

Brigadir == "brigadir"   \* the orchestrator's key
NoRun    == 0
NoOne    == ""

\* No worker has the orchestrator's key.
ASSUME WorkersAssumption == Brigadir \notin Workers

VARIABLES
  story,
  team,          \* [Workers \cup {Brigadir} -> enabled]
  reworkMax,     \* workspaces.settings.rework_max
  chain,         \* the runs: [agent, event, status, target]; event is the trigger event
  told,          \* the prompt of the newest run
  startShas, heads, tips,  \* of the mounted repositories; tips is what a new worktree gets
  verification,  \* tickets.verification
  completions,   \* completions whose receipt is still to be written
  vouched,       \* what runs really verified: [run, heads, gates]
  verdict,       \* [kind, target] of the last orchestrator decision
  stale,         \* what the operator edited after the prompt had read it
  used           \* [edits, pushes, faults] so far
pvars == <<story, team, reworkMax, chain, told, startShas, heads, tips, verification,
           completions, vouched, verdict, stale, used>>

Event0 == [source |-> "poll", failing |-> NoRun, question |-> NoRun, answer |-> NoRun]
Told0  == [pc |-> "none", run |-> NoRun, section |-> FALSE, failure |-> NoRun, question |-> NoRun, answer |-> NoRun,
           roster |-> {}, count |-> 0, permits |-> FALSE, gates |-> {}, sections |-> {}]
NoReceipt == [run |-> NoRun, repos |-> <<>>, gates |-> {}]
NoVerdict == [kind |-> "none", target |-> NoOne]

Newest     == Len(chain)
Orch(i)    == chain[i].agent = Brigadir
May(what)  == used[what] < story[what]
Spend1(what) == used' = [used EXCEPT ![what] = @ + 1]

PromptInit ==
  /\ story \in Stories
  /\ team = [k \in Workers \cup {Brigadir} |-> TRUE] /\ reworkMax = 1
  /\ chain = <<>> /\ told = Told0 /\ startShas = <<>> /\ heads = <<>> /\ tips = [r \in story.repos |-> 0]
  /\ verification = NoReceipt /\ completions = {} /\ vouched = {}
  /\ verdict = NoVerdict /\ stale = {} /\ used = [edits |-> 0, pushes |-> 0, faults |-> 0]

gitVars   == <<startShas, heads, tips>>
proofVars == <<verification, completions, vouched>>
userVars  == <<team, reworkMax>>

-----------------------------------------------------------------------------
\* Runs come into being

NewRun(agent, event, older) ==
  /\ Len(older) < story.runs
  /\ chain' = Append(older, [agent |-> agent, event |-> event, status |-> "queued", target |-> NoOne])

Resting == \A i \in DOMAIN chain : chain[i].status \notin {"queued", "active", "parked"}

\* From the board, or by "Generate agents".
NewWork1 ==
  /\ Resting
  /\ IF story.ticket THEN \E k \in Workers : team[k] /\ NewRun(k, Event0, chain)
                     ELSE NewRun(Brigadir, [Event0 EXCEPT !.source = "workspace-setup"], chain)
  /\ UNCHANGED <<story, userVars, told, gitVars, proofVars, verdict, stale, used>>

CycleCount1 == Cardinality({i \in DOMAIN chain : chain[i].event.source = "rework"})
Available(count, max) == count < max

\* decideTriage: a failed worker is triaged while the budget lasts.
decideTriage ==
  /\ story.ticket /\ Resting /\ Newest > 0 /\ chain[Newest].status = "failed" /\ ~Orch(Newest)
  /\ Available(CycleCount1, reworkMax) /\ team[Brigadir]
  /\ NewRun(Brigadir, [Event0 EXCEPT !.source = "triage", !.failing = Newest], chain)
  /\ UNCHANGED <<story, userVars, told, gitVars, proofVars, verdict, stale, used>>

\* answerTriageTriggerEvent: the failure behind an orchestrator's question is
\* passed on.
answerTriageTriggerEvent(i) ==
  [Event0 EXCEPT !.source = "answer-triage", !.question = i, !.answer = i,
                 !.failing = IF Orch(i) /\ chain[i].event.failing # NoRun THEN chain[i].event.failing ELSE i]

setupResumeEvent(i) == [Event0 EXCEPT !.source = "workspace-setup", !.question = i, !.answer = i]

\* The operator answers the question of a parked run, in words, and may hand it to
\* another agent.
resumeRun ==
  /\ Newest > 0 /\ chain[Newest].status = "parked"
  /\ \E k \in {chain[Newest].agent} \cup {a \in DOMAIN team : team[a] /\ story.ticket} :
       NewRun(k, IF chain[Newest].event.source = "workspace-setup" THEN setupResumeEvent(Newest)
                 ELSE IF k = Brigadir THEN answerTriageTriggerEvent(Newest)
                 ELSE [Event0 EXCEPT !.source = "human-resume", !.question = Newest, !.answer = Newest],
              [chain EXCEPT ![Newest].status = "superseded"])
  /\ UNCHANGED <<story, userVars, told, gitVars, proofVars, verdict, stale, used>>

-----------------------------------------------------------------------------
\* buildHandoffSection, one step per read: which read follows which.  The workspace-setup section reads no
\* rows the operator edits here; its question and answer are the same reads.

Reads(src) ==
  CASE src = "triage"          -> [start |-> "failing", failing |-> "roster", roster |-> "count", count |-> "max",
                                   max |-> "prepare"]
    [] src = "answer-triage"   -> [start |-> "failing", failing |-> "question", question |-> "roster",
                                   roster |-> "count", count |-> "max", max |-> "prepare"]
    [] src = "rework"          -> [start |-> "failing", failing |-> "prepare"]
    [] src = "human-resume"    -> [start |-> "question", question |-> "prepare"]
    [] src = "workspace-setup" -> [start |-> "workspace", workspace |-> "question", question |-> "prepare"]
    [] OTHER                   -> [start |-> "prepare"]
After(step) == Reads(chain[Newest].event.source)[step]
Building(step) == Newest > 0 /\ chain[Newest].status = "active" /\ told.pc = step

buildHandoffSection ==
  /\ Newest > 0 /\ chain[Newest].status = "queued"
  /\ chain' = [chain EXCEPT ![Newest].status = "active"]
  /\ told'  = [Told0 EXCEPT !.pc = After("start"), !.run = Newest, !.section = After("start") # "prepare"]
  /\ verdict' = NoVerdict /\ stale' = {} /\ startShas' = <<>> /\ heads' = <<>>
  /\ UNCHANGED <<story, userVars, tips, proofVars, used>>

\* Any read may throw: the run starts without a section.
SectionFails ==
  /\ May("faults") /\ Spend1("faults")
  /\ \E step \in {"failing", "question", "roster", "count", "max", "workspace"} : Building(step)
  /\ told' = [Told0 EXCEPT !.pc = "prepare", !.run = Newest]
  /\ UNCHANGED <<story, userVars, chain, gitVars, proofVars, verdict, stale>>

Gather(step, next) ==
  /\ Building(step) /\ told' = [next EXCEPT !.pc = After(step)]
  /\ UNCHANGED <<story, userVars, chain, gitVars, proofVars, verdict, stale, used>>

loadFailingRun      == Gather("failing", [told EXCEPT !.failure = chain[Newest].event.failing])
questionAnswerLines == Gather("question", [told EXCEPT !.question = chain[Newest].event.question,
                                                     !.answer   = chain[Newest].event.answer])
buildWorkspaceSetupSection == Gather("workspace", told)
roster    == {k \in DOMAIN team : team[k] /\ k # Brigadir}
rosterLines == Gather("roster", [told EXCEPT !.roster = roster])
countCycles == Gather("count", [told EXCEPT !.count = CycleCount1])

\* "the system permits ONE more rework cycle for this decision"
grantLine(count, max) == count < max + 1
budgetLines ==
  Gather("max", [told EXCEPT !.permits =
                 \/ Available(told.count, reworkMax)
                 \/ chain[Newest].event.source = "answer-triage" /\ grantLine(told.count, reworkMax)])

-----------------------------------------------------------------------------
\* The executor: worktrees, then the receipt, then the wrapper around it all.

prepare ==
  /\ Building("prepare")
  /\ \E mounted \in (IF story.ticket THEN SUBSET story.repos ELSE {{}}) :
       startShas' = [r \in mounted |-> tips[r]] /\ heads' = [r \in mounted |-> tips[r]]
  /\ told' = [told EXCEPT !.pc = "receipt"]
  /\ UNCHANGED <<story, userVars, chain, tips, proofVars, verdict, stale, used>>

\* The receipt's repositories must be exactly the mounted ones.
\* A mistake: a receipt for some of them is enough.
matchVerificationReceiptSome(start) ==
  /\ DOMAIN start # {} /\ verification.gates # {}
  /\ \A r \in DOMAIN start \cap DOMAIN verification.repos : verification.repos[r] = start[r]
matchVerificationReceipt(start) ==
  /\ DOMAIN start # {} /\ verification.gates # {}
  /\ Cardinality(DOMAIN verification.repos) = Cardinality(DOMAIN start)
  /\ \A r \in DOMAIN start : r \in DOMAIN verification.repos /\ verification.repos[r] = start[r]

buildWrapperText(gates) ==
  {"task", "report", "rules"} \cup (IF story.ticket THEN {"ticket"} ELSE {})
    \cup (IF startShas # <<>> THEN {"repositories"} ELSE {})
    \cup (IF gates # {} THEN {"verified"} ELSE {})
    \cup (IF told.section THEN {"handoff"} ELSE {})

resolveVerificationReceipt ==
  /\ Building("receipt")
  /\ \E ok \in {TRUE} \cup (IF May("faults") THEN {FALSE} ELSE {}) :     \* the read fails: no receipt
       LET gates == IF ok /\ matchVerificationReceipt(startShas) THEN verification.gates ELSE {}
       IN  /\ told' = [told EXCEPT !.pc = "done", !.gates = gates, !.sections = buildWrapperText(gates)]
           /\ IF ok THEN UNCHANGED used ELSE Spend1("faults")
  /\ UNCHANGED <<story, userVars, chain, gitVars, proofVars, verdict, stale>>

-----------------------------------------------------------------------------
\* The run works, pushes and completes; others push too.

Commit(r) ==
  /\ Building("done") /\ r \in DOMAIN heads /\ May("pushes") /\ Spend1("pushes")
  /\ heads' = [heads EXCEPT ![r] = used.pushes + 1] /\ tips' = [tips EXCEPT ![r] = used.pushes + 1]
  /\ UNCHANGED <<story, userVars, chain, told, startShas, proofVars, verdict, stale>>

OthersPush(r) ==
  /\ May("pushes") /\ Spend1("pushes") /\ tips' = [tips EXCEPT ![r] = used.pushes + 1]
  /\ UNCHANGED <<story, userVars, chain, told, startShas, heads, proofVars, verdict, stale>>

\* observeHeads leaves out a repository whose HEAD it cannot read.
observeHeads == {heads} \cup (IF May("faults") THEN {[x \in DOMAIN heads \ {r} |-> heads[x]] : r \in DOMAIN heads} ELSE {})

Outcomes == IF chain[Newest].agent # Brigadir THEN {"success", "failure", "needs_human"}
            ELSE IF story.ticket THEN {"routed", "needs_human"} ELSE {"team", "needs_human"}
StatusOf(outcome) == CASE outcome = "failure" -> "failed" [] outcome = "needs_human" -> "parked" [] OTHER -> "succeeded"

\* At most MaxGates passing checks of a report; nothing without observed heads.
buildVerificationReceipt(w) ==
  IF w.repos = <<>> \/ w.gates = {} THEN {}
  ELSE {[w EXCEPT !.gates = g] : g \in {s \in SUBSET w.gates :
          Cardinality(s) = MaxGates \/ (s = w.gates /\ Cardinality(s) <= MaxGates)}}

complete ==
  /\ Building("done")
  /\ \E outcome \in Outcomes, passed \in SUBSET story.gates, observed \in observeHeads,
        target \in (IF Orch(Newest) THEN DOMAIN team ELSE {NoOne}) :
       /\ chain' = [chain EXCEPT ![Newest].status = StatusOf(outcome),
                                 ![Newest].target = IF outcome = "routed" THEN target ELSE NoOne]
       /\ LET w == [run |-> Newest, repos |-> observed, gates |-> passed]
          IN  completions' = IF story.ticket /\ buildVerificationReceipt(w) # {} THEN completions \cup {w} ELSE completions
       /\ vouched' = vouched \cup {v \in {[run |-> Newest, heads |-> heads, gates |-> passed]} : passed # {}}
       /\ IF observed = heads THEN UNCHANGED used ELSE Spend1("faults")
  /\ UNCHANGED <<story, userVars, told, gitVars, verification, verdict, stale>>

\* Best-effort and after the run is final: the next run may be under way.
writeVerificationReceiptBestEffort(w) ==
  /\ completions' = completions \ {w}
  /\ \/ \E receipt \in buildVerificationReceipt(w) : verification' = receipt /\ UNCHANGED used
     \/ May("faults") /\ Spend1("faults") /\ UNCHANGED verification
  /\ UNCHANGED <<story, userVars, chain, told, gitVars, vouched, verdict, stale>>

-----------------------------------------------------------------------------
\* processOrchestratorDecision: is the target a worker, does the budget allow it.

resolveRoutingTarget(k) == k \in DOMAIN team /\ team[k] /\ k # Brigadir
grantAllows(i) == chain[i].event.source = "answer-triage" /\ CycleCount1 < reworkMax + 1

processOrchestratorDecision ==
  /\ Newest > 0 /\ chain[Newest].status = "succeeded" /\ chain[Newest].target # NoOne /\ verdict = NoVerdict
  /\ LET k    == chain[Newest].target
         kind == IF ~resolveRoutingTarget(k) THEN "override_invalid_target"
                 ELSE IF Available(CycleCount1, reworkMax) \/ grantAllows(Newest) THEN "routed"
                 ELSE "override_budget"
     IN  /\ verdict' = [kind |-> kind, target |-> k]
         /\ IF kind = "routed"
            THEN NewRun(k, [Event0 EXCEPT !.source = "rework", !.failing = chain[Newest].event.failing], chain)
            ELSE UNCHANGED chain
  /\ UNCHANGED <<story, userVars, told, gitVars, proofVars, stale, used>>

-----------------------------------------------------------------------------
\* The operator

Edit(what, readAt) ==
  /\ May("edits") /\ Spend1("edits")
  /\ stale' = IF told.pc \in readAt THEN stale ELSE stale \cup {what}
  /\ UNCHANGED <<story, chain, told, gitVars, proofVars, verdict>>
EditTeam == \E k \in DOMAIN team : team' = [team EXCEPT ![k] = ~@] /\ UNCHANGED reworkMax
                                   /\ Edit("team", {"failing", "question", "roster"})
EditMax  == \E n \in 0..2 : n # reworkMax /\ reworkMax' = n /\ UNCHANGED team
                            /\ Edit("max", {"failing", "question", "roster", "count", "max"})

PromptNext ==
  \/ NewWork1 \/ decideTriage \/ resumeRun
  \/ buildHandoffSection \/ SectionFails \/ loadFailingRun \/ questionAnswerLines
  \/ buildWorkspaceSetupSection \/ rosterLines \/ countCycles \/ budgetLines
  \/ prepare \/ resolveVerificationReceipt
  \/ \E r \in story.repos : Commit(r) \/ OthersPush(r)
  \/ complete \/ \E w \in completions : writeVerificationReceiptBestEffort(w)
  \/ processOrchestratorDecision \/ EditTeam \/ EditMax

-----------------------------------------------------------------------------
\* What the handoff promises is what the pipeline does: a worker on the roster is
\* a valid target and no other is, and the budget the section speaks of is the one
\* that is applied, the cycle a human answer grants included, unless the operator
\* edited the team or the maximum after the section had read it.
PromiseKept ==
  verdict.kind # "none" /\ told.section =>
    /\ "team" \notin stale => (verdict.kind = "override_invalid_target" <=> verdict.target \notin told.roster)
    /\ stale = {} => (verdict.kind = "override_budget" <=> verdict.target \in told.roster /\ ~told.permits)

\* A run that is told "already verified" stands on commits another run really
\* verified, all of its repositories at once, whatever was pushed in between and
\* in whatever order the receipts were written.
GatesVerified ==
  "verified" \in told.sections =>
    \E v \in vouched : /\ v.run < told.run /\ told.gates \subseteq v.gates
                       /\ \A r \in DOMAIN startShas : r \in DOMAIN v.heads /\ v.heads[r] = startShas[r]

\* Triage and rework speak of a worker's failure, never of the orchestrator's own
\* question, however many questions and answers lie between.
ToldOfTheFailure == told.failure # NoRun => ~Orch(told.failure)

\* A run that an answer brought about is told the question and the answer.
AnswerTold ==
  told.section /\ told.pc = "done" /\ told.run > 1 /\ chain[told.run - 1].status = "superseded" =>
    told.question = told.run - 1 /\ told.answer = told.run - 1

\* What a run is told is so when it acts on it: the promises of the handoff, the
\* gates it need not run again, the failure and the answer it is about.
PromptFaithful == PromiseKept /\ GatesVerified /\ ToldOfTheFailure /\ AnswerTold

=============================================================================
