----------------------------- MODULE MetricsViews -----------------------------
\* The aggregates of the metrics page: each chart is an operator of the rows of
\* `runs` and `human_tasks`, the filters, the grid of buckets the request made
\* and the time at which the database runs the query.  Times are ticks; money
\* and token counts are small numbers; a percentile is the set of the values it
\* is taken over (null when empty), a rate is a pair <<part, whole>> (null when
\* the whole is 0).
EXTENDS Integers, FiniteSets, FiniteSetsExt

CONSTANTS HourLen, DayLen,     \* ticks of an hour, of a day
          Window,              \* [period -> ticks of the window]
          Workspaces, Agents,
          AgentRole,           \* [Agents -> role or NoKey]
          TopLimit             \* rows of the list of workspaces by cost (10)

NoValue == -1                  \* SQL NULL, of a time or an amount
NoKey   == "null"              \* SQL NULL, of a name
Unknown == "__unknown__"
All     == "all"               \* no workspace / executor filter
Invalid == "not-a-uuid"        \* a workspace_id that is not a uuid

RunStatuses == {"queued", "running", "awaiting_human", "succeeded", "failed",
                "cancelled", "timed_out", "superseded"}
Decided     == {"succeeded", "failed", "timed_out", "cancelled"}
TokenKeys   == {"input", "output", "cache_read", "cache_creation"}

\* SQL comparison and sum: NULL matches nothing and adds nothing.
AtLeast(x, bound) == x # NoValue /\ x >= bound
Amount(x)         == IF x = NoValue THEN 0 ELSE x
Coalesce(x, y)    == IF x = NoKey THEN y ELSE x

-----------------------------------------------------------------------------
\* metrics.helpers.ts

parseMetricsFilters(q) ==
  LET period == IF q.period \in DOMAIN Window THEN q.period ELSE "7d"
  IN  [period       |-> period,
       granularity  |-> IF period = "24h" THEN "hour" ELSE "day",
       workspaceId  |-> IF q.ws \in Workspaces THEN q.ws ELSE All,
       executorType |-> q.exec,
       matchNothing |-> q.ws \notin Workspaces \cup {All}]

Step(gran)          == IF gran = "hour" THEN HourLen ELSE DayLen
truncUtc(gran, t)   == (t \div Step(gran)) * Step(gran)
bucketMs(gran, t)   == truncUtc(gran, t)          \* date_trunc(gran, t, 'UTC')

\* A mistake: the grid holds as many buckets as the window has steps.
generateBucketsShort(f, now) ==
  LET last == truncUtc(f.granularity, now)
  IN  {b \in 0 .. now : /\ b % Step(f.granularity) = 0
                        /\ b <= last /\ b > last - Window[f.period]}

generateBuckets(f, now) ==
  LET last  == truncUtc(f.granularity, now)
      first == IF now < Window[f.period] THEN 0
               ELSE truncUtc(f.granularity, now - Window[f.period])
  IN  {b \in first .. last : b % Step(f.granularity) = 0}

windowExpr(anchor, f, now) == AtLeast(anchor, now - Window[f.period])

\* `anchor` is the column the window is on.
runsWhere(rows, f, anchor, withExecutor, now) ==
  {r \in rows : /\ ~f.matchNothing
                /\ windowExpr(r[anchor], f, now)
                /\ f.workspaceId \in {All, r.ws}
                /\ withExecutor => f.executorType \in {All, r.exec}}

\* GROUP BY bucket, key: one row per group that has a member.
GroupBy(rows, gran, anchor, key(_), value(_)) ==
  LET group(b, k) == {r \in rows : bucketMs(gran, r[anchor]) = b /\ key(r) = k}
  IN  {[bucket |-> g[1], key |-> g[2], value |-> value(group(g[1], g[2]))] :
         g \in {<<bucketMs(gran, r[anchor]), key(r)>> : r \in rows}}

\* A row whose bucket is not in the grid is skipped; the rest is zero-filled.
pivotSeries(rows, grid, forceKeys, zero) ==
  LET kept == {r \in rows : r.bucket \in grid}
      cell(k, b) == {r \in kept : r.key = k /\ r.bucket = b}
  IN  [k \in forceKeys \cup {r.key : r \in kept} |->
         [b \in grid |-> IF cell(k, b) = {} THEN zero
                         ELSE (CHOOSE r \in cell(k, b) : TRUE).value]]

\* A null value leaves the point at zero; the one series is always there.
singleSeries(rows, grid, key, null) ==
  pivotSeries({r \in rows : r.value # null}, grid, {key}, null)

-----------------------------------------------------------------------------
\* metrics.controller.ts

Created  == "created"
Finished == "finished"
Resolved == "resolved"
CostSum(S)   == MapThenSumSet(LAMBDA r : Amount(r.cost), S)
TokenSum(k, S)   == MapThenSumSet(LAMBDA r : IF k \in DOMAIN r.usage THEN r.usage[k] ELSE 0, S)
TotalTokens(S)   == MapThenSumSet(LAMBDA k : TokenSum(k, S), TokenKeys)
Where(runs, f, now)         == runsWhere(runs, f, Created, TRUE, now)
FinishedWhere(runs, f, now) == runsWhere(runs, f, Finished, TRUE, now)
NoExecWhere(runs, f, now)   == runsWhere(runs, f, Created, FALSE, now)

\* humanOpenWhere, humanTasksWhere: window on the anchor, workspace, no executor.
humanTasksWhere(tasks, f, anchor, now) ==
  {t \in tasks : /\ ~f.matchNothing
                 /\ windowExpr(t[anchor], f, now)
                 /\ f.workspaceId \in {All, t.ws}}
humanOpenWhere(tasks, f, now) ==
  {t \in humanTasksWhere(tasks, f, Created, now) : t.status = "open"}

Durations(S) == {r.finished - r.started : r \in {x \in S : x.finished # NoValue /\ x.started # NoValue}}

overview(runs, tasks, f, now) ==
  LET rows   == Where(runs, f, now)
      counts == [s \in RunStatuses |-> Cardinality({r \in rows : r.status = s})]
  IN  [total_cost_usd      |-> CostSum(rows),
       run_count_by_status |-> counts,
       success_rate        |-> <<counts["succeeded"], MapThenSumSet(LAMBDA s : counts[s], Decided)>>,
       median_duration_s   |-> Durations(rows),
       open_human_tasks    |-> Cardinality(humanOpenWhere(tasks, f, now))]

RoleKey(r)  == Coalesce(AgentRole[r.agent], Unknown)      \* runs join agents
ModelKey(r) == Coalesce(r.model, Unknown)                 \* left join: first log with a model
ExecKey(r)  == r.exec
StatusKey(r) == r.status
SourceKey(r) == Coalesce(r.source, Unknown)
WsKey(r)    == r.ws
KindKey(t)  == t.kind

\* The left join with the first log that names a model: every run, once.
ModelJoin(rows) == rows

\* The grouped queries of the cost tab.
CostRows(part, runs, f, now) ==
  LET rows  == Where(runs, f, now)
      by(key(_), value(_)) == GroupBy(rows, f.granularity, Created, key, value)
  IN  CASE part = "cost_by_executor"   -> by(ExecKey, CostSum)
        [] part = "tokens_by_executor" -> by(ExecKey, TotalTokens)
        [] part = "tokens_by_model"    ->
             GroupBy(ModelJoin(rows), f.granularity, Created, ModelKey, TotalTokens)
        [] part = "tokens_by_role"     -> by(RoleKey, TotalTokens)
        [] part = "cost_by_role"       -> by(RoleKey, CostSum)

\* ... the four sums of the token chart, the two averages, and the top list: ordered
\* by spend, cut at the limit; which of equals are cut is the database's choice.
TokenRows(runs, f, now) ==
  {[bucket |-> g.bucket, key |-> k, value |-> g.value[k]] :
     k \in TokenKeys,
     g \in GroupBy(Where(runs, f, now), f.granularity, Created, LAMBDA r : "all",
                   LAMBDA S : [k \in TokenKeys |-> TokenSum(k, S)])}
PerRunRows(part, runs, f, now) ==
  LET value(S) == IF part = "cost_per_run" THEN CostSum(S) ELSE TotalTokens(S)
  IN  GroupBy(Where(runs, f, now), f.granularity, Created, LAMBDA r : "per_run",
              LAMBDA S : <<value(S), Cardinality(S)>>)
\* A mistake: ORDER BY without DESC.
TopOfAscending(ranked) ==
  CHOOSE top \in SUBSET ranked :
    /\ Cardinality(top) = IF Cardinality(ranked) < TopLimit THEN Cardinality(ranked) ELSE TopLimit
    /\ \A x \in top, y \in ranked \ top : x[2] <= y[2]
TopOf(ranked) ==
  CHOOSE top \in SUBSET ranked :
    /\ Cardinality(top) = IF Cardinality(ranked) < TopLimit THEN Cardinality(ranked) ELSE TopLimit
    /\ \A x \in top, y \in ranked \ top : x[2] >= y[2]
top_workspaces_by_cost(runs, f, now) ==
  IF f.workspaceId # All THEN {}
  ELSE LET rows == Where(runs, f, now)
       IN  TopOf({<<r.ws, CostSum({x \in rows : x.ws = r.ws})>> : r \in rows})

cost(part, runs, f, grid, now) ==
  CASE part = "tokens_by_type" -> pivotSeries(TokenRows(runs, f, now), grid, TokenKeys, 0)
    [] part \in {"cost_per_run", "tokens_per_run"} ->
         singleSeries(PerRunRows(part, runs, f, now), grid, "per_run", <<0, 0>>)
    [] part = "top"            -> top_workspaces_by_cost(runs, f, now)
    [] OTHER                   -> pivotSeries(CostRows(part, runs, f, now), grid, {}, 0)

Count(S, st) == Cardinality({r \in S : r.status \in st})
Rate(S)      == <<Count(S, {"succeeded"}), Count(S, Decided)>>

\* Durations are anchored on finished_at, everything else on created_at.
reliability(part, runs, f, grid, now) ==
  LET rows == Where(runs, f, now)
      by(S, key(_), value(_)) == GroupBy(S, f.granularity, Created, key, value)
  IN  CASE part = "runs_by_status" -> pivotSeries(by(rows, StatusKey, Cardinality), grid, {}, 0)
        [] part = "failstats_by_executor" ->
             pivotSeries(by({r \in rows : r.status \in {"failed", "timed_out"}}, ExecKey, Cardinality), grid, {}, 0)
        [] part = "success_rate" -> singleSeries(by(rows, LAMBDA r : "rate", Rate), grid, "rate", <<0, 0>>)
        [] part = "retry_rate"   ->
             singleSeries(by(rows, LAMBDA r : "retry",
               LAMBDA S : <<Cardinality({r \in S : r.attempt > 1}), Cardinality(S)>>), grid, "retry", <<0, 0>>)
        [] part = "durations"    ->
             singleSeries(GroupBy(FinishedWhere(runs, f, now), f.granularity, Finished,
                                  LAMBDA r : "duration", Durations), grid, "duration", {})

activity(part, runs, f, grid, now) ==
  LET by(key(_)) == pivotSeries(GroupBy(Where(runs, f, now), f.granularity, Created, key, Cardinality), grid, {}, 0)
  IN  CASE part = "by_source"    -> by(SourceKey)
        [] part = "by_role"      -> by(RoleKey)
        [] part = "by_workspace" -> by(WsKey)

Latencies(S) == {t.resolved - t.created : t \in S}

human(part, runs, tasks, f, grid, now) ==
  LET gran     == f.granularity
      opened   == humanTasksWhere(tasks, f, Created, now)
      resolved == humanTasksWhere(tasks, f, Resolved, now)
      share(S) == <<Count(S, {"awaiting_human"}), Cardinality(S)>>
  IN  CASE part = "latency" ->
             singleSeries(GroupBy(resolved, gran, Resolved, LAMBDA t : "latency", Latencies), grid, "latency", {})
        [] part = "opened_by_kind" -> pivotSeries(GroupBy(opened, gran, Created, KindKey, Cardinality), grid, {}, 0)
        [] part = "closed_by_kind" -> pivotSeries(GroupBy(resolved, gran, Resolved, KindKey, Cardinality), grid, {}, 0)
        [] part = "awaiting_human_share" ->
             singleSeries(GroupBy(NoExecWhere(runs, f, now), gran, Created, LAMBDA r : "share", share),
                          grid, "share", <<0, 0>>)

Parts == [overview    |-> {"cards"},
          cost        |-> {"cost_by_executor", "tokens_by_executor", "tokens_by_model", "tokens_by_role",
                           "cost_by_role", "tokens_by_type", "cost_per_run", "tokens_per_run", "top"},
          reliability |-> {"runs_by_status", "failstats_by_executor", "success_rate", "retry_rate", "durations"},
          activity    |-> {"by_source", "by_role", "by_workspace"},
          human       |-> {"latency", "opened_by_kind", "closed_by_kind", "awaiting_human_share"}]

\* What the query of one part returns when it runs at `now`.
Read(tab, part, runs, tasks, f, grid, now) ==
  CASE tab = "overview"    -> overview(runs, tasks, f, now)
    [] tab = "cost"        -> cost(part, runs, f, grid, now)
    [] tab = "reliability" -> reliability(part, runs, f, grid, now)
    [] tab = "activity"    -> activity(part, runs, f, grid, now)
    [] tab = "human"       -> human(part, runs, tasks, f, grid, now)
=============================================================================
