---------------------------- MODULE WorkspaceAdmin ----------------------------
(***************************************************************************)
(* The dashboard API of one workspace: every request of the operator, of   *)
(* the admin tools and of a setup run, the worker's reconcile pass and the *)
(* seeders, interleaved statement by statement.                            *)
(***************************************************************************)
EXTENDS TeamRequests

ReportPlan == <<"runRead", "statuses", "existing", "profiles", "resolve", "teamKeys", "teamInsert">>

\* POST workspaces: verify, the row, its token, the orchestrator.
CreatePlan(req) ==
  <<"verify", "wsInsert">> \o (IF req.token = "set" THEN <<"token">> ELSE <<>>) \o SeedPlan

\* create_workspace of the admin tools: the secret values are a second call.
CreateToolPlan(req) ==
  CreatePlan(req) \o (IF req.set = {} THEN <<>> ELSE SecretsPlan(req.scope))

AgentCreatePlan == <<"scope", "statuses", "lint", "keys", "insert">>
AgentUpdatePlan == <<"scope", "target", "guardEnv", "statuses", "lint", "update">>
TestRunPlan     == <<"testTarget", "ticketRead", "ticketInsert", "trigger">>
GeneratePlan    == <<"noWorkers", "orchOn", "noActive", "trigger">>
CreateTeamPlan  == <<"noWorkers">> \o Tail(ReportPlan)
BootPlan        == <<"count1", "put1", "count2", "put2">>

PlanOf(req) ==
  CASE req.op = "create"      -> CreateToolPlan(req)
    [] req.op = "settings"    -> SettingsPlan(req.edits, req.token)
    [] req.op = "secrets"     -> SecretsPlan(req.scope)
    [] req.op = "setEnv"      -> <<"toolGet">>
    [] req.op = "rotate"      -> <<"verify", "credWrite">>
    [] req.op = "reconcile"   -> <<"blobRead", "blobWrite">>
    [] req.op = "agentCreate" -> AgentCreatePlan
    [] req.op = "agentUpdate" -> AgentUpdatePlan
    [] req.op = "agentDelete" -> <<"delTarget", "runsRead">>
    [] req.op = "testRun"     -> TestRunPlan
    [] req.op = "generate"    -> GeneratePlan
    [] req.op = "team"        -> CreateTeamPlan
    [] req.op = "report"      -> ReportPlan
    [] req.op = "execCreate"  -> <<"execInsert">>
    [] req.op = "execUpdate"  -> ExecUpdatePlan(req)
    [] req.op = "execDelete"  -> <<"inUse", "execDelete">>
    [] req.op = "template"    -> <<"builtins", "usable", "templateWrite">>
    [] req.op = "seed"        -> SeedPlan
    [] req.op = "boot"        -> BootPlan
    [] req.op = "yaml"        -> <<"yaml">>

Ops == {"create", "settings", "secrets", "setEnv", "rotate", "reconcile", "agentCreate",
        "agentUpdate", "agentDelete", "testRun", "generate", "team", "report", "execCreate",
        "execUpdate", "execDelete", "template", "seed", "boot", "yaml"}

\* The requests that may come.  A reported team has two members (a bound), and
\* AgentsConfigSchema admits no agents.yaml in which two agents have one key.
Request(req) ==
  /\ req.op \in Ops
  /\ req.op \in {"team", "report", "yaml"} => req.team \in Seq(ToSet(req.team))
  /\ req.op = "report" => req.run \in Nat \ {0} /\ Len(req.team) = 2
  /\ req.op \in {"agentUpdate", "agentDelete", "testRun"} => req.id \in Nat \ {0}
  /\ req.op = "yaml" => \A a, b \in ToSet(req.team) : a.base = b.base => a = b

\* What may be stored at first: live agents have keys of their own, the reserved
\* one is the orchestrator's, and no team has been reported.
Stored(db) ==
  /\ db.ws \in BOOLEAN /\ db.settings \in Blob
  /\ db.agents \in Seq(ToSet(db.agents))
  /\ \A a \in ToSet(db.agents) :
       a = [Agent(a.key, a.orch, a.trigger, a.exec, a.env, a.from) EXCEPT
              !.enabled = a.enabled, !.gone = a.gone]
  /\ \A a \in ToSet(db.agents) :
       /\ a.orch \in BOOLEAN /\ a.gone \in BOOLEAN /\ a.from # "report"
       /\ ~a.gone => (a.key = ORCHESTRATOR_AGENT_KEY <=> a.orch)
  /\ \A i, j \in DOMAIN db.agents :
       /\ ~db.agents[i].gone /\ ~db.agents[j].gone /\ db.agents[i].key = db.agents[j].key
       => i = j

ASSUME ScenariosAssumption ==
  \A k \in DOMAIN Scenarios :
    /\ Stored(Scenarios[k].start)
    /\ \A n \in DOMAIN Scenarios[k].pool : Request(Scenarios[k].pool[n])

\* A report comes from a run that has been started, and the id of an agent is
\* known once there is the agent.
Arrives(req) ==
  /\ req.op = "report" => req.run <= Len(runs)
  /\ req.op \in {"agentUpdate", "agentDelete", "testRun"} => req.id <= Len(agents)

Start(s, req) ==
  /\ call[s] = Idle /\ Arrives(req)
  /\ call' = [call EXCEPT ![s] = Calling(req, PlanOf(req))]
  /\ clean' = (clean /\ \A t \in Slots : call[t] = Idle)
  /\ UNCHANGED <<scene, tables, started, seeded, failures, resends, crashes>>

Begin(s) ==
  /\ served < MaxRequests /\ served' = served + 1 /\ again' = again
  /\ \E k \in DOMAIN Scenarios[scene].pool : Start(s, Scenarios[scene].pool[k])

\* requestWithRetry: the answer is lost, or the connection, and the tool sends
\* the same request again while the first may still be running.
Resend(s) ==
  /\ call[s] # Idle /\ call[s].req.tool /\ resends < MaxResends
  /\ again' = Append(again, call[s].req)
  /\ resends' = resends + 1
  /\ UNCHANGED <<scene, served, call, tables, ghosts, crashes>>

BeginAgain(s) ==
  /\ again # <<>> /\ again' = Tail(again) /\ served' = served
  /\ Start(s, Head(again))

\* The process dies between two statements.
Crash(s) ==
  /\ call[s] # Idle /\ crashes < MaxCrashes
  /\ Answer(s)
  /\ crashes' = crashes + 1 /\ clean' = FALSE
  /\ UNCHANGED <<scene, served, again, tables, started, seeded, failures, resends>>

Init ==
  /\ scene \in DOMAIN Scenarios
  /\ LET db == Scenarios[scene].start
     IN /\ ws = db.ws /\ creds = (IF db.ws THEN "good" ELSE "none")
        /\ settings = db.settings /\ secrets = db.secrets
        /\ agents = db.agents /\ executors = db.executors
        /\ started = (db.ws /\ db.settings.enabled)
  /\ template = [triage |-> BuiltinTriage, setup |-> BuiltinSetup]
  /\ token = FALSE /\ runs = <<>> /\ reviews = {} /\ ticket = FALSE
  /\ call = [s \in Slots |-> Idle] /\ served = 0 /\ again = <<>>
  /\ clean = TRUE /\ seeded = FALSE /\ failures = {} /\ resends = 0 /\ crashes = 0

Next ==
  /\ \E s \in Slots :
       \/ Begin(s) \/ BeginAgain(s) \/ Resend(s) \/ Crash(s)
       \/ SettingsStep(s) \/ RosterStep(s) \/ TeamStep(s)
  /\ Len(agents') <= MaxAgents        \* bound

Spec == Init /\ [][Next]_vars

----------------------------------------------------------------------------
TypeOK ==
  /\ ws \in BOOLEAN /\ creds \in {"none", "good"} /\ token \in BOOLEAN
  /\ settings \in Blob /\ secrets \in Doc
  /\ Len(agents) <= MaxAgents
  /\ \A a \in ToSet(agents) :
       /\ a.key[1] \in Bases /\ a.key[2] \in Nat \ {0}
       /\ a.trigger \in Statuses \cup {None}
       /\ a.exec \in 1..Len(executors) /\ a.env \subseteq Keys
  /\ \A e \in ToSet(executors) : e.mode \in {"host", "api_key", "mock"}
  /\ \A r \in ToSet(runs) : r.status \in {"active", "succeeded", "failed"}
  /\ reviews \subseteq 1..Len(runs)
  /\ resends \in 0..MaxResends /\ crashes \in 0..MaxCrashes

Reported == {i \in 1..Len(agents) : agents[i].from = "report"}

\* A setup run has succeeded exactly when its team and its review task exist:
\* whatever else creates agents, renames profiles or dies meanwhile, and
\* however often the report is sent.  (setup-apply.service.ts: validation and
\* application, one transaction.)
TeamAtomic ==
  LET done == {r \in 1..Len(runs) : runs[r].status = "succeeded"}
  IN /\ reviews = done
     /\ done = {} => Reported = {}
     /\ done # {} => Cardinality(Reported) = 2 * Cardinality(done)

\* A seed that has ended leaves exactly one orchestrator, on the reserved key
\* no worker ever holds, whichever of create, backfill and agents.yaml ran,
\* together or after one of them died.  (orchestrator-seed.ts, agent-key.ts.)
OneOrchestrator ==
  /\ Cardinality(Orchestrators) <= 1
  /\ seeded => Cardinality(Orchestrators) = 1
  /\ \A i \in LiveAgents : (agents[i].key = ORCHESTRATOR_AGENT_KEY) <=> agents[i].orch
  /\ \A i, j \in LiveAgents : agents[i].key = agents[j].key => i = j

\* Agents with one slug can be created at the same time: the one that loses
\* the key is given the next one.  (agents.controller.ts, create.)
CreateNotLost == <<"agentCreate", "key_taken">> \notin failures

\* One home per key: as long as requests do not overlap, no scope holds a name
\* both as a plain value and as a secret, however the two were written.
OneHome ==
  clean => /\ settings.env \cap secrets.ws = {}
           /\ \A r \in DOMAIN settings.repos : settings.repos[r] \cap secrets.repos[r] = {}
           /\ \A i \in LiveAgents : agents[i].env \cap secrets.agents[i] = {}

Quiet == \A s \in Slots : call[s] = Idle

\* Nor does a secret outlive the repository or the agent it was given to.
NoOrphanSecrets ==
  clean /\ Quiet =>
    /\ \A r \in Repos : secrets.repos[r] # {} => r \in DOMAIN settings.repos
    /\ \A i \in AgentIds : secrets.agents[i] # {} => Live(i)

\* No two enabled agents have one trigger, the ones from agents.yaml apart,
\* whose seeder does not lint.
DistinctTriggers ==
  clean => \A i, j \in LiveAgents :
    /\ agents[i].enabled /\ agents[j].enabled /\ agents[i].trigger # None
    /\ agents[i].trigger = agents[j].trigger /\ "yaml" \notin {agents[i].from, agents[j].from}
    => i = j

\* A profile that needs a key has one, through every change of its mode, its
\* name and its key.  (executors.controller.ts, update.)
KeyedExecutors ==
  clean => \A e \in ToSet(executors) : ~e.gone /\ NeedsKey(e.mode) => e.keyed

\* Only an operator starts a workspace: no seed, merge or stale write does.
StartedByOperator == ws /\ settings.enabled => started

\* The people of a workspace stay sound under overlapping requests, reports,
\* seeders and crashes: a team whole or not at all, one orchestrator, no create
\* lost to a race for a key, and a start only by the operator.
RosterSound == TeamAtomic /\ OneOrchestrator /\ CreateNotLost /\ StartedByOperator

\* Over any sequence of requests the settings stay sound: one home for a name, no
\* secret without an owner, distinct triggers, and a key for who needs one.
SettingsSound == OneHome /\ NoOrphanSecrets /\ DistinctTriggers /\ KeyedExecutors

=============================================================================
