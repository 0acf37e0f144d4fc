--------------------------- MODULE MCWorkspaceAdmin ---------------------------
EXTENDS WorkspaceAdmin

CONSTANTS s1, s2
Sym == Permutations(Slots)

Form(base, trigger, exec, env) ==
  [base |-> base, trigger |-> trigger, names |-> {trigger} \ {None}, exec |-> exec,
   env |-> env, repos |-> {}]

\* Requests of the operator and of the tools.
Put(edits, tok) == [op |-> "settings", edits |-> edits, token |-> tok, tool |-> FALSE]
Secret(scope, set, del) ==
  [op |-> "secrets", scope |-> scope, set |-> set, del |-> del, tool |-> FALSE]
SetEnv(scope, plain, set, del) ==
  [op |-> "setEnv", scope |-> scope, plain |-> plain, set |-> set, del |-> del, tool |-> TRUE]
Create(repos, set) ==
  [op |-> "create", good |-> TRUE, repos |-> repos, token |-> "set",
   scope |-> <<"repo", "a">>, set |-> set, del |-> {}, tool |-> FALSE]
NewAgent(f)  == [op |-> "agentCreate", agent |-> f, tool |-> TRUE]
EditAgent(i, f, on) == [op |-> "agentUpdate", id |-> i, agent |-> f, enable |-> on, tool |-> FALSE]
On(op, i)    == [op |-> op, id |-> i, tool |-> FALSE]
Plainly(op)  == [op |-> op, tool |-> FALSE]
Member(base, trigger, exec) ==
  [base |-> base, trigger |-> trigger, names |-> {trigger}, exec |-> exec]
TeamA == <<Member("dev", "todo", "claude"), Member("qa", "review", "claude")>>
Team(tool)  == [op |-> "team", team |-> TeamA, tool |-> tool]
Report(r)   == [op |-> "report", run |-> r, team |-> TeamA, tool |-> FALSE]
Profile(op, i, name, mode, key) ==
  [op |-> op, id |-> i, name |-> name, mode |-> mode, key |-> key, tool |-> FALSE]
Template(t) == [op |-> "template", triage |-> t, setup |-> BuiltinSetup, tool |-> FALSE]
Yaml(base)  == [op |-> "yaml", execs |-> <<"claude">>, tool |-> FALSE,
                team |-> <<[base |-> base, trigger |-> "todo", exec |-> "claude"]>>]
Mark == [op |-> "reconcile", edits |-> <<[mark |-> 1]>>, tool |-> FALSE]

\* What is stored at first.
Claude == Executor("claude", "host", FALSE)
Old    == [Executor("old", "host", FALSE) EXCEPT !.enabled = FALSE]
Orch   == Executor(BuiltinTriage, "host", FALSE)
Fresh  == [ws |-> FALSE, settings |-> Created(<<>>, FALSE), secrets |-> NoSecrets,
           agents |-> <<>>, executors |-> <<Claude, Old>>]
Ready  == [Fresh EXCEPT !.ws = TRUE, !.settings = Created([r \in {"a"} |-> {}], FALSE),
           !.agents = <<Agent(ORCHESTRATOR_AGENT_KEY, TRUE, None, 3, {}, "seed")>>,
           !.executors = <<Claude, Old, Orch>>]
Staffed == [Ready EXCEPT !.agents = Append(@, Agent(<<"dev", 1>>, FALSE, "todo", 1, {}, "form")),
            !.settings = [@ EXCEPT !.enabled = TRUE]]

\* Requests that touch the same rows.
EnvPool ==
  <<Put(<<[env |-> {"k"}]>>, "keep"), Put(<<[repos |-> <<>>]>>, "keep"),
    Put(<<[repos |-> [r \in {"a"} |-> {"k"}]], [release |-> TRUE], [source |-> TRUE]>>, "set"),
    Put(<<[enabled |-> FALSE]>>, "keep"),
    Secret(<<"ws">>, {"k"}, {}), Secret(<<"repo", "a">>, {"k"}, {}),
    Secret(<<"agent", 2>>, {"k"}, {}), Secret(<<"repo", "a">>, {}, {"k"}),
    SetEnv(<<"repo", "a">>, {"k"}, {}, {}), SetEnv(<<"repo", "a">>, {}, {"k"}, {"j"}),
    SetEnv(<<"ws">>, {"j"}, {"k"}, {}), SetEnv(<<"agent", 2>>, {}, {"k"}, {}),
    EditAgent(2, Form("dev", "todo", 1, {"k"}), "keep"), On("agentDelete", 2), Mark>>

AgentPool ==
  <<NewAgent(Form("dev", "todo", 1, {})), NewAgent(Form("brigadir", "review", 1, {})),
    NewAgent([Form("dev", None, 1, {}) EXCEPT !.repos = {"b"}]), NewAgent(Form("dev", None, 1, {})),
    EditAgent(2, Form("dev", "review", 1, {}), "off"), EditAgent(2, Form("dev", "todo", 1, {}), "on"),
    EditAgent(1, Form("dev", "todo", 1, {}), "off"), On("agentDelete", 1),
    On("agentDelete", 2), On("testRun", 2), Team(TRUE), Plainly("generate"), Report(1),
    On("execDelete", 1), Yaml("dev"), Plainly("seed")>>

ProfilePool ==
  <<Profile("execCreate", 0, "k1", "api_key", "set"), Profile("execCreate", 0, "k1", "api_key", "keep"),
    Profile("execUpdate", 3, "k1", "api_key", "keep"), Profile("execUpdate", 3, "k1", "host", "clear"),
    Profile("execUpdate", 3, "k1", "api_key", "clear"),
    Profile("execUpdate", 3, "claude", "api_key", "set"), Profile("execUpdate", 3, "mock", "mock", "keep"),
    Profile("execDelete", 3, "", "", ""), Template(BuiltinTriage), Template("k1"), Plainly("boot")>>

SeedPool ==
  <<Create({"a"}, {"k"}), Create({}, {}), Plainly("seed"), Plainly("boot"), Yaml("dev"), Yaml("brigadir"),
    Template("claude"), Template("old"), NewAgent(Form("brigadir", "review", 1, {})),
    Profile("execDelete", 1, "", "", ""), Put(<<[enabled |-> TRUE]>>, "clear"),
    [op |-> "rotate", good |-> TRUE, tool |-> FALSE]>>

MCScenarios ==
  <<[start |-> Staffed, pool |-> EnvPool],   [start |-> Ready, pool |-> AgentPool],
    [start |-> Staffed, pool |-> AgentPool], [start |-> Fresh, pool |-> ProfilePool],
    [start |-> Fresh, pool |-> SeedPool]>>
=============================================================================
