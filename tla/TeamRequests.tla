----------------------------- MODULE TeamRequests -----------------------------
(***************************************************************************)
(* Whole rosters and platform profiles: the team a setup run reports or an *)
(* operator posts, executor profiles, the brigadir agent template, and the *)
(* seeders that run when a process boots.                                  *)
(***************************************************************************)
EXTENDS RosterRequests

\* acceptTeamReport: only an orchestrator's active setup run may bring a team.
RunRead(s) ==
  LET c == call[s]
      r == c.req.run
      setup == runs[r].source = "setup" /\ agents[runs[r].agent].orch
  IN /\ At(s, "runRead")
     /\ IF ~Active(r) THEN Answer(s)
        ELSE GoTo(s, [c EXCEPT !.plan = IF setup THEN Tail(@) ELSE <<"recast">>])
     /\ UNCHANGED <<frame, tables, ghosts>>

Recast(s) ==
  LET r == call[s].req.run
  IN /\ At(s, "recast")
     /\ runs' = IF Active(r) THEN [runs EXCEPT ![r].status = "failed"] ELSE runs
     /\ GoOn(s, call[s])
     /\ UNCHANGED <<frame, wsRow, agents, executors, template, reviews, ticket, ghosts>>

\* validateTeam reads the agents, then the profiles; every proposed agent is
\* linted against the stored ones and against the proposals before it.
Existing(s) ==
  /\ At(s, "existing")
  /\ GoOn(s, [call[s] EXCEPT !.seen = {agents[i] : i \in LiveAgents}])
  /\ UNCHANGED <<frame, tables, ghosts>>

TeamOk(team, stored) ==
  \A i \in 1..Len(team) :
    LET earlier == {team[j] : j \in 1..(i - 1)}
        e == ExecId(team[i].exec)
    IN /\ \A p \in earlier : p.base # team[i].base /\ p.trigger # team[i].trigger
       /\ e # 0 /\ executors[e].enabled
       /\ LintOk(team[i].names, team[i].trigger, stored)

Profiles(s) ==
  LET c == call[s]
  IN /\ At(s, "profiles")
     /\ IF TeamOk(c.req.team, c.seen) THEN GoOn(s, [c EXCEPT !.seen = {}]) ELSE Answer(s)
     /\ UNCHANGED <<frame, tables, ghosts>>

ResolveProfiles(s) ==
  LET c == call[s]
  IN /\ At(s, "resolve")
     /\ GoOn(s, [c EXCEPT !.exec = [i \in 1..Len(c.req.team) |-> ExecId(c.req.team[i].exec)]])
     /\ UNCHANGED <<frame, tables, ghosts>>

\* The transaction: the keys it reads, and its commit.  The commit stands for
\* the guarded finalize, whose row lock makes a second report wait for it.
TeamKeys(s) ==
  /\ At(s, "teamKeys")
  /\ GoOn(s, [call[s] EXCEPT !.taken = TakenKeys])
  /\ UNCHANGED <<frame, tables, ghosts>>

\* The bases of a roster are distinct: its keys are too.
TeamRows(c) ==
  [i \in 1..Len(c.req.team) |->
     Agent(EnsureUniqueAgentKey(c.req.team[i].base, c.taken), FALSE,
           c.req.team[i].trigger, c.exec[i], {}, c.req.op)]

\* A mistake: the finalize is not guarded by the status of the run.
TeamInsertUnguarded(s) ==
  LET c == call[s]
      rows == TeamRows(c)
      reported == c.req.op = "report"
  IN /\ At(s, "teamInsert")
     /\ \A e \in ToSet(c.exec) : ExecLive(e)
     /\ \A row \in ToSet(rows) : row.key \notin TakenKeys
     /\ agents' = agents \o rows
     /\ runs' = IF reported THEN [runs EXCEPT ![c.req.run].status = "succeeded"] ELSE runs
     /\ reviews' = IF reported THEN reviews \cup {c.req.run} ELSE reviews
     /\ GoOn(s, c)
     /\ UNCHANGED <<frame, wsRow, executors, template, ticket, ghosts>>

TeamInsert(s) ==
  LET c == call[s]
      rows == TeamRows(c)
      reported == c.req.op = "report"
      taken == \E row \in ToSet(rows) : row.key \in TakenKeys
  IN /\ At(s, "teamInsert")
     /\ IF reported /\ ~Active(c.req.run)
        THEN Answer(s) /\ UNCHANGED <<agents, runs, reviews, failures>>
        ELSE IF \E e \in ToSet(c.exec) : ~ExecLive(e)
        THEN Fail(s, "foreign_key") /\ UNCHANGED <<agents, runs, reviews>>
        ELSE IF taken
        THEN Answer(s) /\ UNCHANGED <<agents, runs, reviews, failures>>
        ELSE /\ agents' = agents \o rows
             /\ runs' = IF reported THEN [runs EXCEPT ![c.req.run].status = "succeeded"] ELSE runs
             /\ reviews' = IF reported THEN reviews \cup {c.req.run} ELSE reviews
             /\ GoOn(s, c) /\ UNCHANGED failures
     /\ UNCHANGED <<frame, wsRow, executors, template, ticket, clean, started, seeded>>

----------------------------------------------------------------------------
\* Executor profiles: names are unique, and api_key mode must end with a key.
NameTaken(name, but) ==
  \E i \in 1..Len(executors) : i # but /\ executors[i].name = name /\ ~executors[i].gone

ExecInsert(s) ==
  LET req == call[s].req
      bad == NameTaken(req.name, 0) \/ (NeedsKey(req.mode) /\ req.key # "set")
  IN /\ At(s, "execInsert")
     /\ executors' = IF bad THEN executors
                     ELSE Append(executors, Executor(req.name, req.mode, req.key = "set"))
     /\ Answer(s)
     /\ UNCHANGED <<frame, wsRow, agents, template, runs, reviews, ticket, ghosts>>

ExecUpdatePlan(req) ==
  IF NeedsKey(req.mode) /\ req.key # "set" THEN <<"keyRead", "execWrite">> ELSE <<"execWrite">>

KeyRead(s) ==
  LET req == call[s].req
  IN /\ At(s, "keyRead")
     /\ IF ~ExecLive(req.id) \/ req.key = "clear" \/ ~executors[req.id].keyed
        THEN Answer(s) ELSE GoOn(s, call[s])
     /\ UNCHANGED <<frame, tables, ghosts>>

ExecWrite(s) ==
  LET req == call[s].req
      i == req.id
  IN /\ At(s, "execWrite")
     /\ executors' =
          IF ~ExecLive(i) \/ NameTaken(req.name, i) THEN executors
          ELSE [executors EXCEPT ![i] = [@ EXCEPT !.name = req.name, !.mode = req.mode,
                  !.keyed = IF req.key = "keep" THEN @ ELSE req.key = "set"]]
     /\ Answer(s)
     /\ UNCHANGED <<frame, wsRow, agents, template, runs, reviews, ticket, ghosts>>

InUse(i) == \E a \in LiveAgents : agents[a].exec = i

\* The count of the agents that hold it; the foreign key decides in the end.
ExecInUse(s) ==
  LET i == call[s].req.id
  IN /\ At(s, "inUse")
     /\ IF ~ExecLive(i) \/ InUse(i) THEN Answer(s) ELSE GoOn(s, call[s])
     /\ UNCHANGED <<frame, tables, ghosts>>

ExecDelete(s) ==
  LET i == call[s].req.id
  IN /\ At(s, "execDelete")
     /\ IF InUse(i) THEN Fail(s, "foreign_key") /\ UNCHANGED executors
        ELSE /\ executors' = [executors EXCEPT ![i].gone = TRUE]
             /\ GoOn(s, call[s]) /\ UNCHANGED failures
     /\ UNCHANGED <<frame, wsRow, agents, template, runs, reviews, ticket, clean, started, seeded>>

\* PUT of the template: built-in profiles it names are made, both must be usable.
Builtins(s) ==
  LET names == {call[s].req.triage, call[s].req.setup}
      first == IF BuiltinTriage \in names THEN EnsureExecutor(executors, BuiltinTriage) ELSE executors
  IN /\ At(s, "builtins")
     /\ executors' = IF BuiltinSetup \in names THEN EnsureExecutor(first, BuiltinSetup) ELSE first
     /\ GoOn(s, call[s])
     /\ UNCHANGED <<frame, wsRow, agents, template, runs, reviews, ticket, ghosts>>

Usable(s) ==
  /\ At(s, "usable")
  /\ IF \A n \in {call[s].req.triage, call[s].req.setup} :
          ExecId(n) # 0 /\ executors[ExecId(n)].enabled
     THEN GoOn(s, call[s]) ELSE Answer(s)
  /\ UNCHANGED <<frame, tables, ghosts>>

TemplateWrite(s) ==
  /\ At(s, "templateWrite")
  /\ template' = [triage |-> call[s].req.triage, setup |-> call[s].req.setup]
  /\ GoOn(s, call[s])
  /\ UNCHANGED <<frame, wsRow, agents, executors, runs, reviews, ticket, ghosts>>

----------------------------------------------------------------------------
\* Boot: a default of each type when there is no executor of that type.
Defaults == <<[name |-> "claude", mode |-> "host", count |-> "count1", put |-> "put1"],
              [name |-> "mock",   mode |-> "mock", count |-> "count2", put |-> "put2"]>>

OfType(row, mode) == ~row.gone /\ ((row.mode = "mock") <=> (mode = "mock"))

CountType(s, k) ==
  LET c == call[s]
      there == \E row \in ToSet(executors) : OfType(row, Defaults[k].mode)
  IN /\ At(s, Defaults[k].count)
     /\ GoTo(s, [c EXCEPT !.plan = IF there THEN SubSeq(@, 3, Len(@)) ELSE Tail(@)])
     /\ UNCHANGED <<frame, tables, ghosts>>

InsertDefault(s, k) ==
  LET d == Defaults[k]
  IN /\ At(s, d.put)
     /\ executors' = IF NameTaken(d.name, 0) THEN executors
                     ELSE Append(executors, Executor(d.name, d.mode, FALSE))
     /\ GoOn(s, call[s])
     /\ UNCHANGED <<frame, wsRow, agents, template, runs, reviews, ticket, ghosts>>

\* agents.yaml, in one transaction: rows that are there are kept, the key of a
\* new agent is its bare slug.  A worker that takes the reserved key leaves the
\* orchestrator's seed without a winner, and everything is rolled back.
YamlExecutors(req) ==
  executors \o SetToSeq({Executor(n, "host", FALSE) : n \in {m \in ToSet(req.execs) : ~NameTaken(m, 0)}})

YamlAgents(req) == SetToSeq({a \in ToSet(req.team) : <<a.base, 1>> \notin TakenKeys})

YamlSeed(s) ==
  LET req == call[s].req
      news == YamlAgents(req)
      stolen == Orchestrators = {} /\ \E a \in ToSet(news) : <<a.base, 1>> = ORCHESTRATOR_AGENT_KEY
      base == YamlExecutors(req)
      use == ExecId(template.triage) # 0 /\ executors[ExecId(template.triage)].enabled
      all == IF Orchestrators # {} THEN base
             ELSE EnsureExecutor(IF use THEN base ELSE EnsureExecutor(base, BuiltinTriage), BuiltinSetup)
      IdIn(n) == Min({i \in 1..Len(all) : all[i].name = n /\ ~all[i].gone})
  IN /\ At(s, "yaml")
     /\ IF stolen THEN Fail(s, "no_winner") /\ UNCHANGED <<ws, settings, agents, executors, seeded>>
        ELSE /\ ws' = TRUE
             /\ settings' = IF ws THEN settings ELSE Created(<<>>, FALSE)
             /\ executors' = all
             /\ agents' = agents
                  \o [i \in 1..Len(news) |-> Agent(<<news[i].base, 1>>, FALSE, news[i].trigger,
                                                   IdIn(news[i].exec), {}, "yaml")]
                  \o (IF Orchestrators # {} THEN <<>>
                      ELSE <<Agent(ORCHESTRATOR_AGENT_KEY, TRUE, None,
                                   IdIn(IF use THEN template.triage ELSE BuiltinTriage), {}, "seed")>>)
             /\ seeded' = TRUE
             /\ GoOn(s, call[s]) /\ UNCHANGED failures
     /\ UNCHANGED <<frame, creds, token, secrets, template, runs, reviews, ticket, clean, started>>

TeamStep(s) ==
  \/ RunRead(s) \/ Recast(s) \/ Existing(s) \/ Profiles(s) \/ ResolveProfiles(s)
  \/ TeamKeys(s) \/ TeamInsert(s)
  \/ ExecInsert(s) \/ KeyRead(s) \/ ExecWrite(s) \/ ExecInUse(s) \/ ExecDelete(s)
  \/ Builtins(s) \/ Usable(s) \/ TemplateWrite(s)
  \/ \E k \in 1..Len(Defaults) : CountType(s, k) \/ InsertDefault(s, k)
  \/ YamlSeed(s)
=============================================================================
