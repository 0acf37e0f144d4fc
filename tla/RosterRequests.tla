---------------------------- MODULE RosterRequests ----------------------------
(***************************************************************************)
(* The requests about who works in a workspace: its creation and the seed  *)
(* of its orchestrator, agents, executor profiles, the brigadir template,  *)
(* generated and imported teams, and the seeders that run at boot.         *)
(***************************************************************************)
EXTENDS SettingsRequests

wsRow == <<ws, creds, settings, token, secrets>>

BuiltinTriage == "orch"
BuiltinSetup  == "setup"

Agent(key, orch, trigger, exec, env, from) ==
  [key |-> key, orch |-> orch, trigger |-> trigger, exec |-> exec,
   enabled |-> TRUE, env |-> env, from |-> from, gone |-> FALSE]
Executor(name, mode, keyed) ==
  [name |-> name, mode |-> mode, keyed |-> keyed, enabled |-> TRUE, gone |-> FALSE]

\* Insert-if-absent on the global name; the loser of a race reads the winner.
EnsureExecutor(rows, name) ==
  IF \E i \in 1..Len(rows) : rows[i].name = name /\ ~rows[i].gone THEN rows
  ELSE Append(rows, Executor(name, "host", FALSE))

HasRuns(i) == \E r \in 1..Len(runs) : runs[r].agent = i
Active(r)  == r \in 1..Len(runs) /\ runs[r].status = "active"

----------------------------------------------------------------------------
\* A call to Jira with the credentials of the request, or with stored ones.
Verify(s) ==
  /\ At(s, "verify")
  /\ \/ call[s].req.good /\ GoOn(s, call[s])
     \/ Answer(s)
  /\ UNCHANGED <<frame, tables, ghosts>>

\* getProjectStatuses: the board answers, or the request is refused.
FetchStatuses(s) ==
  /\ At(s, "statuses")
  /\ GoOn(s, call[s]) \/ Answer(s)
  /\ UNCHANGED <<frame, tables, ghosts>>

\* POST /api/workspaces, after runVerify: the row comes into being paused.
WorkspaceInsert(s) ==
  LET req == call[s].req
  IN /\ At(s, "wsInsert")
     /\ ~ws                            \* bound: one workspace
     /\ ws' = TRUE /\ creds' = "good"
     /\ settings' = Created([r \in req.repos |-> {}], req.token = "set")
     /\ GoOn(s, call[s])
     /\ UNCHANGED <<frame, token, secrets, roster, ghosts>>

\* seedOrchestratorAgent.
SeedPlan == <<"orchRead", "triage", "setupExec", "orchInsert">>

OrchRead(s) ==
  LET c == call[s]
      found == Orchestrators # {}
  IN /\ At(s, "orchRead")
     /\ GoTo(s, [c EXCEPT !.plan = IF found \/ ~ws THEN SubSeq(@, 5, Len(@)) ELSE Tail(@)])
     /\ seeded' = (seeded \/ found)
     /\ UNCHANGED <<frame, tables, clean, started, failures>>

\* The template's profile when it is there and enabled, else the built-in one.
Triage(s) ==
  LET i == ExecId(template.triage)
      usable == i # 0 /\ executors[i].enabled
  IN /\ At(s, "triage")
     /\ executors' = IF usable THEN executors ELSE EnsureExecutor(executors, BuiltinTriage)
     /\ GoOn(s, [call[s] EXCEPT !.exec = <<IF usable THEN i ELSE ExecId(BuiltinTriage)'>>])
     /\ UNCHANGED <<frame, wsRow, agents, template, runs, reviews, ticket, ghosts>>

SetupExec(s) ==
  /\ At(s, "setupExec")
  /\ executors' = EnsureExecutor(executors, BuiltinSetup)
  /\ GoOn(s, call[s])
  /\ UNCHANGED <<frame, wsRow, agents, template, runs, reviews, ticket, ghosts>>

\* On a conflict of the key nothing is inserted and the orchestrator that won
\* is read: without one the handler throws.
OrchInsert(s) ==
  LET c == call[s]
      e == c.exec[1]
      free == ORCHESTRATOR_AGENT_KEY \notin TakenKeys
  IN /\ At(s, "orchInsert")
     /\ IF free /\ ~ExecLive(e) THEN Fail(s, "executor_gone") /\ UNCHANGED <<agents, seeded>>
        ELSE IF ~free /\ Orchestrators = {} THEN Fail(s, "no_winner") /\ UNCHANGED <<agents, seeded>>
        ELSE /\ agents' = IF free
                          THEN Append(agents, Agent(ORCHESTRATOR_AGENT_KEY, TRUE, None, e, {}, "seed"))
                          ELSE agents
             /\ seeded' = TRUE
             /\ GoOn(s, c) /\ UNCHANGED failures
     /\ UNCHANGED <<frame, wsRow, executors, template, runs, reviews, ticket, clean, started>>

----------------------------------------------------------------------------
\* Agents.  The repositories an agent names must be declared, if any are.
RepoScope(s) ==
  LET wanted == call[s].req.agent.repos
  IN /\ At(s, "scope")
     /\ IF wanted # {} /\ ws /\ DOMAIN settings.repos # {} /\ ~(wanted \subseteq DOMAIN settings.repos)
        THEN Answer(s) ELSE GoOn(s, call[s])
     /\ UNCHANGED <<frame, tables, ghosts>>

Lint(s) ==
  LET req == call[s].req
      others == {agents[i] : i \in LiveAgents \ (IF req.op = "agentUpdate" THEN {req.id} ELSE {})}
  IN /\ At(s, "lint")
     /\ IF LintOk(req.agent.names, req.agent.trigger, others) THEN GoOn(s, call[s]) ELSE Answer(s)
     /\ UNCHANGED <<frame, tables, ghosts>>

ReadKeys(s) ==
  /\ At(s, "keys")
  /\ GoOn(s, [call[s] EXCEPT !.taken = TakenKeys])
  /\ UNCHANGED <<frame, tables, ghosts>>

\* Another insert may have taken the key: five tries, each on fresh keys.
RetryOrFail(s) ==
  IF call[s].tries < 4
  THEN /\ call' = [call EXCEPT ![s].tries = @ + 1, ![s].plan = <<"keys", "insert">>]
       /\ UNCHANGED failures
  ELSE Fail(s, "key_taken")

AgentInsert(s) ==
  LET c == call[s]
      a == c.req.agent
      key == EnsureUniqueAgentKey(a.base, c.taken)
  IN /\ At(s, "insert")
     /\ IF ~ws \/ ~ExecLive(a.exec) THEN Fail(s, "foreign_key") /\ UNCHANGED agents
        ELSE IF key \in TakenKeys THEN RetryOrFail(s) /\ UNCHANGED agents
        ELSE /\ agents' = Append(agents, Agent(key, FALSE, a.trigger, a.exec, a.env, "form"))
             /\ GoOn(s, c) /\ UNCHANGED failures
     /\ UNCHANGED <<frame, wsRow, executors, template, runs, reviews, ticket, clean, started, seeded>>

\* PUT :id.  The orchestrator keeps its identity and its trigger: no lint.
UpdateTarget(s) ==
  LET c == call[s]
  IN /\ At(s, "target")
     /\ IF ~Live(c.req.id) THEN Answer(s)
        ELSE GoTo(s, [c EXCEPT !.plan =
               IF agents[c.req.id].orch THEN <<"guardEnv", "updateOrch">> ELSE Tail(@)])
     /\ UNCHANGED <<frame, tables, ghosts>>

GuardAgentEnv(s) ==
  LET req == call[s].req
  IN /\ At(s, "guardEnv")
     /\ IF req.agent.env \cap secrets.agents[req.id] # {} THEN Answer(s) ELSE GoOn(s, call[s])
     /\ UNCHANGED <<frame, tables, ghosts>>

Switched(row, enable) == IF enable = "keep" THEN row.enabled ELSE enable = "on"

AgentUpdate(s) ==
  LET c == call[s]
      i == c.req.id
      a == c.req.agent
      row == agents[i]
  IN /\ At(s, "update") \/ At(s, "updateOrch")
     /\ IF ~Live(i) \/ ~ExecLive(a.exec) THEN Fail(s, "no_row") /\ UNCHANGED agents
        ELSE /\ agents' = [agents EXCEPT ![i] = [row EXCEPT
                  !.exec = a.exec, !.env = a.env, !.enabled = Switched(row, c.req.enable),
                  !.trigger = IF At(s, "update") THEN a.trigger ELSE row.trigger]]
             /\ GoOn(s, c) /\ UNCHANGED failures
     /\ UNCHANGED <<frame, wsRow, executors, template, runs, reviews, ticket, clean, started, seeded>>

\* DELETE :id.  An agent with runs is disabled; one without is deleted, and
\* then its secrets, by another read and write of the sealed document.
DeleteTarget(s) ==
  LET i == call[s].req.id
  IN /\ At(s, "delTarget")
     /\ IF Live(i) /\ agents[i].orch THEN Answer(s) ELSE GoOn(s, call[s])
     /\ UNCHANGED <<frame, tables, ghosts>>

RunsRead(s) ==
  LET c == call[s]
  IN /\ At(s, "runsRead")
     /\ GoTo(s, [c EXCEPT !.plan =
          IF HasRuns(c.req.id) THEN <<"disable">> ELSE <<"delete", "docRead", "docWrite">>])
     /\ UNCHANGED <<frame, tables, ghosts>>

AgentDisable(s) ==
  LET i == call[s].req.id
  IN /\ At(s, "disable")
     /\ agents' = IF Live(i) THEN [agents EXCEPT ![i].enabled = FALSE] ELSE agents
     /\ GoOn(s, call[s])
     /\ UNCHANGED <<frame, wsRow, executors, template, runs, reviews, ticket, ghosts>>

AgentDelete(s) ==
  LET i == call[s].req.id
  IN /\ At(s, "delete")
     /\ IF ~Live(i) THEN Answer(s) /\ UNCHANGED <<agents, failures>>
        ELSE IF HasRuns(i) THEN Fail(s, "foreign_key") /\ UNCHANGED agents
        ELSE agents' = [agents EXCEPT ![i].gone = TRUE] /\ GoOn(s, call[s]) /\ UNCHANGED failures
     /\ UNCHANGED <<frame, wsRow, executors, template, runs, reviews, ticket, clean, started, seeded>>

DocRead(s) ==
  LET c == call[s]
  IN /\ At(s, "docRead")
     /\ IF secrets.agents[c.req.id] = {} THEN Answer(s) ELSE GoOn(s, [c EXCEPT !.doc = secrets])
     /\ UNCHANGED <<frame, tables, ghosts>>

DocWrite(s) ==
  LET c == call[s]
  IN /\ At(s, "docWrite")
     /\ secrets' = [c.doc EXCEPT !.agents[c.req.id] = {}]
     /\ GoOn(s, c)
     /\ UNCHANGED <<frame, ws, creds, settings, token, roster, ghosts>>

\* POST :id/test-run and POST :id/generate-agents end in the run trigger: one
\* active run of a ticket, one active setup run of a workspace.
TestTarget(s) ==
  /\ At(s, "testTarget")
  /\ IF Live(call[s].req.id) THEN GoOn(s, call[s]) ELSE Answer(s)
  /\ UNCHANGED <<frame, tables, ghosts>>

TicketRead(s) ==
  /\ At(s, "ticketRead")
  /\ GoTo(s, [call[s] EXCEPT !.plan = IF ticket THEN SubSeq(@, 3, Len(@)) ELSE Tail(@)])
  /\ UNCHANGED <<frame, tables, ghosts>>

TicketInsert(s) ==
  /\ At(s, "ticketInsert")
  /\ ticket' = TRUE
  /\ IF ticket THEN Fail(s, "ticket_taken") ELSE GoOn(s, call[s]) /\ UNCHANGED failures
  /\ UNCHANGED <<frame, wsRow, agents, executors, template, runs, reviews, clean, started, seeded>>

NoWorkers(s) ==
  /\ At(s, "noWorkers")
  /\ IF ws /\ Workers = {} THEN GoOn(s, call[s]) ELSE Answer(s)
  /\ UNCHANGED <<frame, tables, ghosts>>

OrchestratorOn(s) ==
  LET on == {i \in Orchestrators : agents[i].enabled}
  IN /\ At(s, "orchOn")
     /\ IF on = {} THEN Answer(s) ELSE GoOn(s, [call[s] EXCEPT !.exec = <<Min(on)>>])
     /\ UNCHANGED <<frame, tables, ghosts>>

ActiveOf(source) == \E r \in 1..Len(runs) : Active(r) /\ runs[r].source = source

NoActiveSetup(s) ==
  /\ At(s, "noActive")
  /\ IF ActiveOf("setup") THEN Answer(s) ELSE GoOn(s, call[s])
  /\ UNCHANGED <<frame, tables, ghosts>>

TriggerRun(s) ==
  LET c == call[s]
      source == IF c.req.op = "generate" THEN "setup" ELSE "manual"
      i == IF c.req.op = "generate" THEN c.exec[1] ELSE c.req.id
  IN /\ At(s, "trigger")
     /\ IF ~Live(i) THEN Fail(s, "foreign_key") /\ UNCHANGED runs
        ELSE /\ runs' = IF ActiveOf(source) THEN runs
                        ELSE Append(runs, [agent |-> i, source |-> source, status |-> "active"])
             /\ GoOn(s, c) /\ UNCHANGED failures
     /\ UNCHANGED <<frame, wsRow, agents, executors, template, reviews, ticket, clean, started, seeded>>

RosterStep(s) ==
  \/ Verify(s) \/ FetchStatuses(s) \/ WorkspaceInsert(s)
  \/ OrchRead(s) \/ Triage(s) \/ SetupExec(s) \/ OrchInsert(s)
  \/ RepoScope(s) \/ Lint(s) \/ ReadKeys(s) \/ AgentInsert(s)
  \/ UpdateTarget(s) \/ GuardAgentEnv(s) \/ AgentUpdate(s)
  \/ DeleteTarget(s) \/ RunsRead(s) \/ AgentDisable(s) \/ AgentDelete(s)
  \/ DocRead(s) \/ DocWrite(s)
  \/ TestTarget(s) \/ TicketRead(s) \/ TicketInsert(s)
  \/ NoWorkers(s) \/ OrchestratorOn(s) \/ NoActiveSetup(s) \/ TriggerRun(s)
=============================================================================
