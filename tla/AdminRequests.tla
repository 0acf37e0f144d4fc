---------------------------- MODULE AdminRequests ----------------------------
(***************************************************************************)
(* The tables the dashboard API writes, and how its handlers run.          *)
(*                                                                         *)
(* A request is served by a slot.  Its handler is a plan: one step for     *)
(* every statement it awaits, so that the statements of two requests (and  *)
(* of the worker's reconcile pass) interleave between them.  Values read   *)
(* by one step are kept in the call and used, stale or not, by a later     *)
(* one.  A handler that answers early drops the rest of its plan.          *)
(*                                                                         *)
(* One workspace is modelled.  A row that is deleted stays in its table    *)
(* marked gone: an id is never used twice.                                 *)
(***************************************************************************)
EXTENDS Naturals, Sequences, FiniteSets, SequencesExt, FiniteSetsExt

CONSTANTS
  Slots,       \* requests in flight at a time
  Keys,        \* names of environment variables
  Repos,       \* ids of repositories
  Statuses,    \* statuses a form may name
  Board,       \* the ones the board has
  Bases,       \* slugs of name and role
  Scenarios,   \* sequence: what is stored at first, and the requests that come
  MaxRequests, \* bound: requests of a behaviour
  MaxAgents,   \* bound: agent rows
  MaxResends,  \* bound: requests the admin tools send again
  MaxCrashes   \* bound: handlers that die with their process

ASSUME AdminAssumption ==
  /\ MaxRequests \in Nat /\ MaxAgents \in Nat /\ MaxResends \in Nat /\ MaxCrashes \in Nat
  /\ Board \subseteq Statuses /\ IsFiniteSet(Slots)

VARIABLES
  scene,      \* the scenario
  served,     \* requests that have come so far
  again,      \* requests that have been sent again and have not come yet
  call,       \* the handler each slot is running
  ws,         \* the workspace row exists
  creds,      \* its Jira credentials: "none" or "good"
  settings,   \* its settings blob
  token,      \* a token for the instruction source is stored
  secrets,    \* its sealed secrets: per scope, the names
  agents,     \* agent rows
  executors,  \* executor rows
  template,   \* executor names of the brigadir agent template
  runs,       \* runs of its agents
  reviews,    \* runs that have a review task
  ticket,     \* the ticket row of test runs exists
  clean,      \* no two handlers have overlapped and none has died
  started,    \* an operator has asked for the workspace to be started
  seeded,     \* a seed of the orchestrator has run to its end
  failures,   \* <<operation, reason>> of answers in the 500s
  resends,
  crashes

tables == <<ws, creds, settings, token, secrets, agents, executors, template,
            runs, reviews, ticket>>
ghosts == <<clean, started, seeded, failures>>
vars   == <<scene, served, again, call, tables, ghosts, resends, crashes>>

None  == "none"
Idle  == [plan |-> <<>>]

\* The document of sealed secrets.  A scope is <<"ws">>, <<"repo", id>> or
\* <<"agent", id>>.
AgentIds  == 1..MaxAgents
NoSecrets == [ws |-> {}, repos |-> [r \in Repos |-> {}], agents |-> [i \in AgentIds |-> {}]]
Doc == [ws : SUBSET Keys, repos : [Repos -> SUBSET Keys], agents : [AgentIds -> SUBSET Keys]]

ScopeSubmap(doc, scope) ==
  CASE scope[1] = "ws"    -> doc.ws
    [] scope[1] = "repo"  -> doc.repos[scope[2]]
    [] scope[1] = "agent" -> doc.agents[scope[2]]

WithSubmap(doc, scope, names) ==
  CASE scope[1] = "ws"    -> [doc EXCEPT !.ws = names]
    [] scope[1] = "repo"  -> [doc EXCEPT !.repos[scope[2]] = names]
    [] scope[1] = "agent" -> [doc EXCEPT !.agents[scope[2]] = names]

\* The settings blob.  "repos" maps the id of each repository to its env.
Blob == [enabled : BOOLEAN, env : SUBSET Keys,
         repos : UNION {[S -> SUBSET Keys] : S \in SUBSET Repos},
         mark : 0..2, release : BOOLEAN, source : BOOLEAN]
Created(repos, source) ==
  [enabled |-> FALSE, env |-> {}, repos |-> repos, mark |-> 0,
   release |-> FALSE, source |-> source]

\* A shallow merge of an edit (a record of some of the fields) into the blob.
Merge(blob, edit) ==
  [f \in DOMAIN blob |-> IF f \in DOMAIN edit THEN edit[f] ELSE blob[f]]

\* The plain values that share the home of a scope.
Plain(blob, scope) ==
  CASE scope[1] = "ws"    -> blob.env
    [] scope[1] = "repo"  -> blob.repos[scope[2]]
    [] scope[1] = "agent" -> agents[scope[2]].env

----------------------------------------------------------------------------
\* Agent keys: <<slug, n>> is the slug with suffix n, or bare when n is 1.
ORCHESTRATOR_AGENT_KEY == <<"brigadir", 1>>
ReservedKeys == {ORCHESTRATOR_AGENT_KEY}

EnsureUniqueAgentKey(base, taken) ==
  <<base, Min({n \in 1..(Cardinality(taken) + 2) : <<base, n>> \notin taken \cup ReservedKeys})>>

Live(i) == i \in 1..Len(agents) /\ ~agents[i].gone
LiveAgents == {i \in 1..Len(agents) : ~agents[i].gone}
TakenKeys  == {agents[i].key : i \in LiveAgents}
Orchestrators == {i \in LiveAgents : agents[i].orch}
Workers       == LiveAgents \ Orchestrators

ExecId(name) ==
  LET E == {i \in 1..Len(executors) : executors[i].name = name /\ ~executors[i].gone}
  IN IF E = {} THEN 0 ELSE Min(E)
ExecLive(i) == i \in 1..Len(executors) /\ ~executors[i].gone

\* The linter's errors: a status that is not on the board, or the trigger of
\* another enabled agent.  A trigger stands for a status and its JQL.
LintOk(names, trigger, others) ==
  /\ names \subseteq Board
  /\ trigger # None => \A a \in others : ~(a.enabled /\ a.trigger = trigger)

NeedsKey(mode) == mode = "api_key"

----------------------------------------------------------------------------
\* A slot is at a step of its plan; it goes on, or answers.
At(s, step) == call[s].plan # <<>> /\ Head(call[s].plan) = step

GoTo(s, c) == call' = [call EXCEPT ![s] = IF c.plan = <<>> THEN Idle ELSE c]
GoOn(s, c) == GoTo(s, [c EXCEPT !.plan = Tail(@)])
Answer(s)  == call' = [call EXCEPT ![s] = Idle]
Fail(s, why) ==
  /\ Answer(s)
  /\ failures' = failures \cup {<<call[s].req.op, why>>}

Calling(req, plan) ==
  [req |-> req, plan |-> plan, doc |-> NoSecrets, blob |-> <<>>,
   edits |-> IF "edits" \in DOMAIN req THEN req.edits ELSE <<>>, seen |-> {}, taken |-> {}, exec |-> <<>>, tries |-> 0]
=============================================================================
