--------------------------- MODULE MCOperatorViews ---------------------------
\* Two hours make a day: at 7 the day's window begins inside an hour, at 12 the
\* week's begins after the first rows.
EXTENDS OperatorViews

Windows  == ("24h" :> 4) @@ ("7d" :> 8)
Roles    == ("a1" :> NoKey) @@ ("a2" :> "dev")
Profiles == <<[ws |-> "w1", agent |-> "a1", exec |-> "e1", source |-> NoKey, ticket |-> "T1", model |-> NoKey],
              [ws |-> "w2", agent |-> "a2", exec |-> "e2", source |-> "manual", ticket |-> NoTicket, model |-> "m1"],
              [ws |-> "w1", agent |-> "a2", exec |-> "e1", source |-> "rework", ticket |-> "T1", model |-> "m1"]>>
SomeEnds == {[status |-> "succeeded", cost |-> 2,
              usage |-> [input |-> 1, output |-> 2, cache_read |-> 4, cache_creation |-> 8]],
             [status |-> "failed", cost |-> 1, usage |-> [input |-> 1]],
             [status |-> "timed_out", cost |-> NoValue, usage |-> NoUsage],
             [status |-> "cancelled", cost |-> NoValue, usage |-> NoUsage]}
Prio     == <<1, 1, NoValue>>
InWs     == <<"w1", "w1", "w1">>
OfTask   == <<"w1", "w2", "w1">>

Q(p, ws, e) == [period |-> p, ws |-> ws, exec |-> e]
Tabs == {"overview", "cost", "reliability", "activity", "human"}
NoScene == [runs |-> {}, tasks |-> {}, tickets |-> {}, metrics |-> {}, lists |-> {}, history |-> {},
            clock |-> {2, 3, 7}, slips |-> 1]
\* Tabs over two runs that hold still; one run that moves under the tab, at the
\* edges of the windows; the queues; the waiting list; one workspace's
\* runs; one ticket's history.
SomeScenes ==
  {[NoScene EXCEPT !.runs = {1, 2}, !.slips = 0, !.clock = {3, 7, 12},
      !.metrics = {<<t, q>> : t \in Tabs \ {"human"}, q \in {Q("24h", All, All), Q("junk", "w1", "e1")}}],
   [NoScene EXCEPT !.runs = {1}, !.clock = {2, 3, 7, 12},
      !.metrics = {<<t, q>> : t \in Tabs \ {"human"}, q \in {Q("24h", All, All), Q("7d", All, "e1")}}
                  \cup {<<"activity", Q("7d", Invalid, All)>>}],
   [NoScene EXCEPT !.runs = {1}, !.tasks = {1}, !.clock = {3, 7, 12},
      !.metrics = {<<"human", q>> : q \in {Q("24h", All, All), Q("7d", "w1", "e2"), Q("7d", Invalid, All)}}],
   [NoScene EXCEPT !.tasks = {1, 2, 3}, !.clock = {2, 3}, !.lists = {<<"newest">>, <<"oldest">>, <<"closed">>}],
   [NoScene EXCEPT !.tickets = {1, 2, 3}, !.clock = {2}, !.lists = {<<"waiting", "w1">>}],
   [NoScene EXCEPT !.runs = {1, 3}, !.clock = {2, 7}, !.lists = {<<"runs", "w1">>}],
   [NoScene EXCEPT !.runs = {1, 2, 3}, !.tasks = {1}, !.clock = {2}, !.history = {"T1"}]}

\* Two commands, the first denied after the second has pushed it out of the
\* parser's memory; a report among texts and rows of other services; lines that
\* give no row of their own.
Use(id, name, input) == [type |-> "tool_use", id |-> id, name |-> name, input |-> input]
Said(bs) == [type |-> "assistant", blocks |-> bs]
Txt(t)   == [type |-> "text", text |-> t]
Denials ==
  [lines |-> {Said(<<Txt("thinking"), Use("u1", "Bash", [command |-> "sleep"])>>),
              Said(<<Use("u2", "Bash", [command |-> "make", content |-> "long", flag |-> "long"])>>),
              [type |-> "user", id |-> "u1", denied |-> TRUE], [type |-> "user", id |-> "u2", denied |-> FALSE]},
   others |-> {}]
Reports ==
  [lines |-> {Said(<<Use("u3", "report_progress", [message |-> "half way"]), Txt("more")>>), Said(<<Txt("done")>>)},
   others |-> {Event("progress", [message |-> "resumed", via |-> "callback"]),
               Event("tool_call", [name |-> "report_progress", input |-> [form |-> "cut", raw |-> "{half"]]),
               Event("tool_call", [name |-> "report_progress", input |-> [form |-> "json", fields |-> [message |-> "done"]]]),
               Event("tool_call", [name |-> "request_human", input |-> [form |-> "object", fields |-> [title |-> "t"]]])}]
Services ==
  [lines |-> {[type |-> "init", model |-> "opus"], [type |-> "api_retry", error |-> "rate_limit"],
              [type |-> "api_retry", error |-> "overloaded"], [type |-> "junk"]},
   others |-> {Event("log", [source |-> "repo-scoping", message |-> "scoped"]),
               Event("log", [source |-> "start-ref", message |-> "main", decision |-> "default_branch"]),
               Event("log", [source |-> "dependency-release", message |-> "early"]),
               Event("log", [source |-> "watchdog", message |-> "stale"]),
               Event("error", [error |-> "boom", stack |-> "at x"]),
               Event("undelivered_report", [report |-> [summary |-> "all good", outcome |-> "success"], run_status |-> "cancelled"]),
               Event("jira_action", [transitioned_to |-> "Done"]),
               Event("channel_down", [probe_url |-> "url"]), Event("channel_failure", [kind |-> "timeout", error |-> [name |-> "TypeError", message |-> "fetch failed"]]),
               Event("novel", [message |-> "new"])}]
SomeStreams == {Denials, Reports, Services}
SomeRuns == {[id |-> 1, source |-> "poll", failing |-> 0, deciding |-> 0],
             [id |-> 2, source |-> "triage", failing |-> 1, deciding |-> 0],
             [id |-> 3, source |-> "rework", failing |-> 0, deciding |-> 2],
             [id |-> 4, source |-> "rework", failing |-> 0, deciding |-> 9],
             [id |-> 5, source |-> "triage", failing |-> 3, deciding |-> 0],
             [id |-> 6, source |-> "rework", failing |-> 0, deciding |-> 5]}

\* A question and a report; two reports, the first of which the schema refuses;
\* two calls that fill the file; a report under failed writes, restarts and a dead
\* channel; one failure seen from several windows.
K(id, tool, bad) == [id |-> id, tool |-> tool, bad |-> bad]
Play(cs, n, s, f, d, t) == [calls |-> cs, net |-> n, srv |-> s, faults |-> f, downs |-> d, ticks |-> t]
SomeScripts == {Play({K(1, "ask", FALSE), K(2, "complete", FALSE)}, 1, 0, 0, 0, 0),
                Play({K(1, "complete", TRUE), K(2, "complete", FALSE)}, 1, 0, 0, 0, 0),
                Play({K(1, "note", FALSE), K(2, "read", FALSE)}, 0, 1, 1, 0, 0),
                Play({K(1, "complete", FALSE)}, 1, 1, 2, 1, 0),
                Play({K(1, "progress", FALSE)}, 0, 0, 1, 1, 2)}

\* A setup that asks twice; a chain of triage, questions and rework past the
\* granted cycle; one edit or one failed read on the way; two repositories of
\* which a run may mount either; receipts written out of order.
Tale(t, r, n, e, p, f) == [ticket |-> t, repos |-> r, gates |-> ({} :> {} @@ {"a"} :> {"lint"} @@ {"a", "b"} :> {"lint", "test"})[r],
                           runs |-> n, edits |-> e, pushes |-> p, faults |-> f]
SomeStories == {Tale(FALSE, {}, 3, 0, 0, 1), Tale(TRUE, {}, 6, 0, 0, 0), Tale(TRUE, {}, 4, 1, 0, 1),
                Tale(TRUE, {"a", "b"}, 2, 0, 1, 1), Tale(TRUE, {"a"}, 3, 0, 1, 0)}

Job(s, p) == [scenario |-> s, profile |-> p, attempts |-> 2]
Exec(on, n, m) == [enabled |-> on, type |-> "mock", max |-> n, model |-> m]
Uncapped == <<>>
OneProfile(s, t, c) ==
  [runs |-> (1 :> Job(s, "p1")) @@ (2 :> Job(t, "p1")), pool |-> "p1" :> Exec(TRUE, 2, "opus"),
   caps |-> Uncapped, ceiling |-> 9, cancels |-> c, edits |-> 0]
\* Every scenario next to another and a cancel; three profiles of one model;
\* profiles that are switched on, off and resized under their runs.
SomeShows ==
  {OneProfile(s, t, 1) : s \in {"crash", "rate_limited", "timeout", "needs_human", "delay"},
                         t \in {"team", "team_invalid", "success", "failure", "routed"}}
  \cup {[runs |-> [r \in 1..3 |-> Job("rate_limited", <<"p1", "p2", "p3">>[r])],
         pool |-> [p \in {"p1", "p2", "p3"} |-> Exec(TRUE, 1, "opus")],
         caps |-> "opus" :> c, ceiling |-> l, cancels |-> 0, edits |-> 0] : c \in {1, 2}, l \in {1, 2}}
  \cup {[runs |-> (1 :> Job("rate_limited", "p1")) @@ (2 :> Job("success", "p2")) @@ (3 :> Job("crash", "p2")),
         pool |-> ("p1" :> Exec(TRUE, 2, "opus")) @@ ("p2" :> Exec(FALSE, 1, "haiku")),
         caps |-> "opus" :> 1, ceiling |-> 2, cancels |-> 0, edits |-> 2]}
=============================================================================
