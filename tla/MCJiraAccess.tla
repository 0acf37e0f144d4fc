----------------------------- MODULE MCJiraAccess -----------------------------
\* Three statuses, a workflow that is edited once, and three sets of calls.
EXTENDS JiraAccess

W(todo, doing, done) == [s \in {"todo", "doing", "done"} |->
  CASE s = "todo" -> todo [] s = "doing" -> doing [] s = "done" -> done]
TwoWorkflows ==
  <<W({<<"start", "doing">>, <<"close", "done">>}, {<<"finish", "done">>}, {}),
    W({<<"begin", "doing">>}, {<<"finish", "done">>, <<"back", "todo">>}, {<<"reopen", "todo">>})>>

Tr(i, t, via) == [kind |-> "transition", issue |-> i, to |-> t, via |-> via]
Co(i, via)    == [kind |-> "comment", issue |-> i, via |-> via]

\* Writes to one issue while the credentials change; transitions of two issues
\* while the board is worked on; searches; the other reads.
CallPools ==
  <<[ops |-> {Tr(1, "done", "factory"), Co(1, "factory")}, first |-> {1},
     calls |-> 3, creds |-> 1, moves |-> 0, edits |-> 0, expiries |-> 1],
    [ops |-> {Tr(1, "done", "lazy"), Co(1, "lazy")}, first |-> {0},
     calls |-> 2, creds |-> 2, moves |-> 0, edits |-> 0, expiries |-> 0],
    [ops |-> {Tr(1, "done", "lazy"), Tr(2, "doing", "lazy")}, first |-> {1},
     calls |-> 2, creds |-> 1, moves |-> 1, edits |-> 0, expiries |-> 0],
    [ops |-> {Tr(1, "done", "lazy")}, first |-> {1},
     calls |-> 2, creds |-> 1, moves |-> 0, edits |-> 1, expiries |-> 0],
    [ops |-> {[kind |-> "search", via |-> "lazy"], [kind |-> "find", max |-> 1, via |-> "lazy"],
              [kind |-> "find", max |-> 3, via |-> "lazy"]}, first |-> {1},
     calls |-> 2, creds |-> 1, moves |-> 0, edits |-> 0, expiries |-> 0],
    [ops |-> {[kind |-> "statuses", refresh |-> r, via |-> "factory"] : r \in BOOLEAN}, first |-> {1},
     calls |-> 2, creds |-> 1, moves |-> 0, edits |-> 1, expiries |-> 1],
    [ops |-> {[kind |-> "overview", scrum |-> r, via |-> "factory"] : r \in BOOLEAN}
             \cup {[kind |-> "ticket", issue |-> i, via |-> "factory"] : i \in {1, 3, 9}}
             \cup {[kind |-> "introspect", via |-> "lazy"]}, first |-> {1},
     calls |-> 2, creds |-> 1, moves |-> 0, edits |-> 0, expiries |-> 0]>>
=============================================================================
