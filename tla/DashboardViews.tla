---------------------------- MODULE DashboardViews ----------------------------
\* The read side of the dashboard API.  The tables change under the requests:
\* runs are created, started, billed and finished, human tasks are opened and
\* closed, tickets are marked as waiting.  A request that makes several queries
\* makes them one after the other (or, in one Promise.all, in any order), each on
\* the tables of its own moment: a metrics tab, a reader that turns the pages of
\* a list, a ticket's history.  The views that are one query are operators.
EXTENDS MetricsViews, Sequences, SequencesExt

CONSTANTS RunIds, TaskIds, Tickets,
          Profile,      \* [RunIds -> [ws, agent, exec, source, ticket, model]]
          Ends,         \* how a started run may end: set of [status, cost, usage]
          Instants,     \* the times the clock may show
          Priority,     \* [Tickets -> priority or NoValue]
          TicketWs,     \* [Tickets -> Workspaces]
          TaskWs,       \* [TaskIds -> Workspaces], of a task without a run
          PageSize, Limit,
          Scenes        \* bounds: what exists, what is asked, the times, and the
                        \* writes and ticks (slips) while one request is served

NoTicket == "none"
Statuses24h == {"failed", "timed_out"}
NoUsage  == [none |-> 0]

VARIABLES now, runs, tasks, waiting, req, scene
vars == <<now, runs, tasks, waiting, req, scene>>

Idle == [kind |-> "idle"]

-----------------------------------------------------------------------------
\* One-query views

Since(x, p) == AtLeast(x, now - Window[p])

\* GET api/home/summary
HomeSpend(p) == CostSum({r \in runs : Since(r.created, p)})
HomeSummary ==
  LET count(st) == Cardinality({r \in runs : r.status = st})
      bad(st)   == Cardinality({r \in runs : r.status = st /\ Since(r.finished, "24h")})
  IN  [running |-> count("running"), queued |-> count("queued"),
       attention_24h |-> [st \in Statuses24h |-> bad(st)],
       human_open |-> Cardinality({t \in tasks : t.status = "open"}),
       spend |-> [p \in DOMAIN Window |-> HomeSpend(p)]]

\* GET api/home/workspaces: the newest run is picked by created_at, then id.
NewestRun(ws) ==
  LET mine == {r \in runs : r.ws = ws}
  IN  IF mine = {} THEN 0
      ELSE (CHOOSE r \in mine : \A x \in mine :
              x.created < r.created \/ (x.created = r.created /\ x.id <= r.id)).id
HomeWorkspaces ==
  [ws \in Workspaces |->
     [last_run |-> NewestRun(ws),
      attention_24h |-> Cardinality({r \in runs : /\ r.ws = ws
                                                  /\ r.status \in Statuses24h
                                                  /\ Since(r.finished, "24h")})]]

\* GET api/workspaces/:id/runs/cost
RunCost(ws, p) == CostSum({r \in runs : r.ws = ws /\ Since(r.created, p)})

\* GET api/runs: running (longest first), queued (longest waiting first), then the
\* rest (last finished first); the id breaks ties.
StatusRank(r) == CASE r.status = "running" -> 0 [] r.status = "queued" -> 1 [] OTHER -> 2
WithinRank(r) ==
  CASE r.status = "running" -> r.started
    [] r.status = "queued"  -> r.created
    [] OTHER -> 0 - r.finished
GlobalFilter(sts, within) ==
  {r \in runs : r.status \in sts /\ (within # "any" => Since(r.finished, within))}
GlobalRuns(sts, within) ==
  LET before(a, b) ==
        \/ StatusRank(a) < StatusRank(b)
        \/ /\ StatusRank(a) = StatusRank(b)
           /\ \/ WithinRank(a) < WithinRank(b)
              \/ WithinRank(a) = WithinRank(b) /\ a.id < b.id
      sorted == SetToSortSeq(GlobalFilter(sts, within), before)
  IN  [items |-> SubSeq(sorted, 1, IF Len(sorted) < Limit THEN Len(sorted) ELSE Limit),
       total |-> Len(sorted)]

\* GET api/runs/:id, the history on the card.
CardHistory(r) ==
  {x \in runs : IF r.ticket = NoTicket THEN x.ws = r.ws /\ x.ticket = NoTicket
                                       ELSE x.ticket = r.ticket}

-----------------------------------------------------------------------------
\* Paged lists: the rows, and the order the query asks for.  The run list orders
\* by created_at alone, so rows of the same instant come in any order, and in
\* another one on the next page.
RunList(ws)  == {r \in runs : r.ws = ws}
OpenTasks    == {t \in tasks : t.status = "open"}
ClosedTasks  == {t \in tasks : t.status \in {"resolved", "dismissed"}}
WaitingRows(ws) == {[id |-> t, prio |-> Priority[t]] : t \in {x \in waiting : TicketWs[x] = ws}}

Rows(list) ==
  CASE list[1] = "runs"    -> RunList(list[2])
    [] list[1] = "newest"  -> OpenTasks
    [] list[1] = "oldest"  -> OpenTasks
    [] list[1] = "closed"  -> ClosedTasks
    [] list[1] = "waiting" -> WaitingRows(list[2])
    [] OTHER -> {}

LexBefore(x, y, a, b) == x < y \/ (x = y /\ a < b)
NullsLast(p) == IF p = NoValue THEN 1000 ELSE p

Before(list, a, b) ==
  CASE list[1] = "runs"    -> a.created > b.created
    [] list[1] = "newest"  -> LexBefore(b.created, a.created, b.id, a.id)
    [] list[1] = "oldest"  -> LexBefore(a.created, b.created, a.id, b.id)
    [] list[1] = "closed"  -> LexBefore(b.resolved, a.resolved, b.id, a.id)
    [] list[1] = "waiting" -> LexBefore(NullsLast(a.prio), NullsLast(b.prio), a.id, b.id)

Sortings(list) ==
  {s \in SetToSeqs(Rows(list)) : \A i, j \in 1 .. Len(s) : Before(list, s[i], s[j]) => i < j}
Unordered(list) == \E a, b \in Rows(list) :
  a # b /\ ~Before(list, a, b) /\ ~Before(list, b, a)

\* A mistake: pages are counted from zero.
OffsetZero(page) == page * PageSize
Offset(page) == (page - 1) * PageSize
Page(s, page) ==
  SubSeq(s, Offset(page) + 1, IF Len(s) < Offset(page) + PageSize THEN Len(s) ELSE Offset(page) + PageSize)
Ids(S)    == {r.id : r \in S}

-----------------------------------------------------------------------------
\* Writers (the other modules model them in full; here they move the tables)

Slip == req.kind # "idle" => req.slips < scene.slips

\* What a change of the tables means for the request that is being served.
Listed == IF req.kind = "pages" THEN req.list ELSE <<"none">>
Noted ==
  \E l \in {Listed}, was \in {Ids(Rows(Listed))} :
    req' = CASE req.kind = "idle"  -> req
             [] req.kind = "pages" ->
                  [req EXCEPT !.slips    = @ + 1,
                              !.entered  = @ \/ ~(Ids(Rows(l))' \subseteq was),
                              !.left     = @ \/ ~(was \subseteq Ids(Rows(l))'),
                              !.shuffled = @ \/ Unordered(l)']
             [] OTHER -> [req EXCEPT !.slips = @ + 1]

CreateRun(id) ==
  /\ Slip /\ id \in scene.runs /\ id \notin Ids(runs)
  /\ runs' = runs \cup {[id |-> id, status |-> "queued", attempt |-> 1, created |-> now,
                         started |-> NoValue, finished |-> NoValue, cost |-> NoValue,
                         usage |-> NoUsage, model |-> NoKey, ws |-> Profile[id].ws,
                         agent |-> Profile[id].agent, exec |-> Profile[id].exec,
                         source |-> Profile[id].source, ticket |-> Profile[id].ticket]}
  /\ UNCHANGED <<now, tasks, waiting, scene>>
  /\ Noted

Replace(r, new) == runs' = (runs \ {r}) \cup {new}

\* Picked up by a worker; the session's first log may name the model.
StartRun(r) ==
  /\ Slip /\ r.status = "queued"
  /\ Replace(r, [r EXCEPT !.status = "running", !.started = now, !.model = Profile[r.id].model])
  /\ UNCHANGED <<now, tasks, waiting, scene>>
  /\ Noted

\* recordCostUsage, then the guarded finish; a queued run may be cancelled.
EndRun(r, e) ==
  /\ Slip
  /\ r.status = "running" \/ (r.status = "queued" /\ e.status = "cancelled")
  /\ Replace(r, [r EXCEPT !.status = e.status, !.finished = now, !.cost = e.cost, !.usage = e.usage])
  /\ UNCHANGED <<now, tasks, waiting, scene>>
  /\ Noted

\* A blocking question parks the run and opens its task.
OpenTask(id, r) ==
  /\ Slip /\ id \in scene.tasks /\ id \notin Ids(tasks) /\ r.status = "running"
  /\ Replace(r, [r EXCEPT !.status = "awaiting_human"])
  /\ tasks' = tasks \cup {[id |-> id, run |-> r.id, ws |-> r.ws, kind |-> "question",
                           status |-> "open", created |-> now, resolved |-> NoValue]}
  /\ UNCHANGED <<now, waiting, scene>>
  /\ Noted

\* A task without a run of its own (a blocker's, a setup's).
OpenLooseTask(id) ==
  /\ Slip /\ id \in scene.tasks /\ id \notin Ids(tasks)
  /\ tasks' = tasks \cup {[id |-> id, run |-> 0, ws |-> TaskWs[id], kind |-> "review",
                           status |-> "open", created |-> now, resolved |-> NoValue]}
  /\ UNCHANGED <<now, runs, waiting, scene>>
  /\ Noted

CloseTask(t, st) ==
  /\ Slip /\ t.status = "open"
  /\ tasks' = (tasks \ {t}) \cup {[t EXCEPT !.status = st, !.resolved = now]}
  /\ UNCHANGED <<now, runs, waiting, scene>>
  /\ Noted

MarkWaiting(t) ==
  /\ Slip /\ t \in scene.tickets
  /\ waiting' = IF t \in waiting THEN waiting \ {t} ELSE waiting \cup {t}
  /\ UNCHANGED <<now, runs, tasks, scene>>
  /\ Noted

Tick ==
  /\ Slip /\ \E t \in scene.clock : t > now
  /\ now' = Min({t \in scene.clock : t > now})
  /\ UNCHANGED <<runs, tasks, waiting, scene>>
  /\ Noted

-----------------------------------------------------------------------------
\* Requests of several queries

\* A metrics tab: the grid is made by the server's clock before the queries run.
AskMetrics(tab, q) ==
  /\ req = Idle /\ <<tab, q>> \in scene.metrics
  /\ LET f == parseMetricsFilters(q)
     IN  req' = [kind |-> "metrics", tab |-> tab, f |-> f, 
                 grid |-> IF tab = "overview" THEN {} ELSE generateBuckets(f, now),
                 got |-> [p \in {} |-> 0], slips |-> 0]
  /\ UNCHANGED <<now, runs, tasks, waiting, scene>>

\* One query of the Promise.all runs ahead of the others, or all run together
\* (the same where nothing can change in between).
Unread    == IF req.kind = "metrics" THEN Parts[req.tab] \ DOMAIN req.got ELSE {}
ReadAhead == IF req.kind = "metrics" /\ DOMAIN req.got = {} /\ scene.slips > 0 THEN {{p} : p \in Unread} ELSE {}
ReadMetrics(ps) ==
  /\ req' = [req EXCEPT !.got = [p \in DOMAIN @ \cup ps |->
       IF p \in DOMAIN @ THEN @[p] ELSE Read(req.tab, p, runs, tasks, req.f, req.grid, now)]]
  /\ UNCHANGED <<now, runs, tasks, waiting, scene>>

\* A reader turns the pages while the total says there is one more.
AskPages(list) ==
  /\ req = Idle /\ list \in scene.lists
  /\ req' = [kind |-> "pages", list |-> list, page |-> 1, total |-> NoValue, shown |-> <<>>,
             stayed |-> Ids(Rows(list)), entered |-> FALSE, left |-> FALSE, stale |-> FALSE,
             shuffled |-> Unordered(list), slips |-> 0]
  /\ UNCHANGED <<now, runs, tasks, waiting, scene>>

CountRows ==
  /\ req.kind = "pages" /\ req.total = NoValue
  /\ req' = [req EXCEPT !.total = Cardinality(Rows(req.list))]
  /\ UNCHANGED <<now, runs, tasks, waiting, scene>>

LastPage == req.kind = "pages" /\ req.total # NoValue /\ req.page > 1 /\ (req.page - 1) * PageSize >= req.total

ReadPage ==
  /\ req.kind = "pages" /\ req.total # NoValue /\ ~LastPage
  /\ \E s \in Sortings(req.list) :
       req' = [req EXCEPT !.shown = @ \o [i \in DOMAIN Page(s, req.page) |-> Page(s, req.page)[i].id],
                          !.page = @ + 1,
                          !.stale = @ \/ req.total # Cardinality(Rows(req.list)),
                          !.total = IF req.page * PageSize >= @ THEN @ ELSE NoValue]
  /\ UNCHANGED <<now, runs, tasks, waiting, scene>>

\* A ticket's history: the runs, then their tasks, then the sum of their cost.
AskHistory(t) ==
  /\ req = Idle /\ t \in scene.history
  /\ req' = [kind |-> "history", ticket |-> t, step |-> "tasks",
             rows |-> {r \in runs : r.ticket = t}, tasks |-> {}, total |-> NoValue, slips |-> 0]
  /\ UNCHANGED <<now, runs, tasks, waiting, scene>>
HistoryTasks ==
  /\ req.kind = "history" /\ req.step = "tasks"
  /\ req' = [req EXCEPT !.step = "total", !.tasks = {t \in tasks : t.run \in Ids(req.rows)}]
  /\ UNCHANGED <<now, runs, tasks, waiting, scene>>
HistoryTotal(t) == CostSum({r \in runs : r.ticket = t})
HistorySum ==
  /\ req.kind = "history" /\ req.step = "total"
  /\ req' = [req EXCEPT !.step = "done",
             !.total = IF req.rows = {} THEN NoValue ELSE HistoryTotal(req.ticket)]
  /\ UNCHANGED <<now, runs, tasks, waiting, scene>>

Served == CASE req.kind = "idle" -> FALSE
            [] req.kind = "metrics" -> DOMAIN req.got = Parts[req.tab]
            [] req.kind = "pages"   -> LastPage
            [] req.kind = "history" -> req.step = "done"
Answer == Served /\ req' = Idle /\ UNCHANGED <<now, runs, tasks, waiting, scene>>

ViewsInit ==
  /\ scene \in Scenes /\ now = Min(scene.clock)
  /\ runs = {} /\ tasks = {} /\ waiting = {} /\ req = Idle

ViewsNext ==
  \/ \E id \in RunIds : CreateRun(id)
  \/ \E r \in runs : StartRun(r)
  \/ \E r \in runs, e \in Ends : EndRun(r, e)
  \/ \E id \in TaskIds, r \in runs : OpenTask(id, r)
  \/ \E id \in TaskIds : OpenLooseTask(id)
  \/ \E t \in tasks, st \in {"resolved", "dismissed"} : CloseTask(t, st)
  \/ \E t \in Tickets : MarkWaiting(t)
  \/ Tick
  \/ \E m \in scene.metrics : AskMetrics(m[1], m[2])
  \/ \E ps \in ({Unread} \cup ReadAhead) \ {{}} : ReadMetrics(ps)
  \/ \E l \in scene.lists : AskPages(l)
  \/ CountRows
  \/ ReadPage
  \/ \E t \in scene.history : AskHistory(t)
  \/ HistoryTasks
  \/ HistorySum
  \/ Answer

-----------------------------------------------------------------------------
ViewsTypeOK ==
  /\ now \in Instants /\ waiting \subseteq Tickets /\ scene \in Scenes
  /\ \A r \in runs : r.id \in RunIds /\ r.status \in RunStatuses /\ r.ws \in Workspaces
  /\ \A t \in tasks : t.id \in TaskIds /\ t.status \in {"open", "resolved", "dismissed"}
  /\ req.kind \in {"idle", "metrics", "pages", "history"}

Chart(part)  == Read(req.tab, part, runs, tasks, req.f, req.grid, now)
Points(c)    == MapThenSumSet(LAMBDA k : MapThenSumSet(LAMBDA b : c[k][b], DOMAIN c[k]), DOMAIN c)
InScope(r)   == /\ ~req.f.matchNothing /\ req.f.workspaceId \in {All, r.ws}
InWindow(x)  == x # NoValue /\ x >= now - Window[req.f.period]
OnGrid(x)    == \E b \in req.grid : x < b + Step(req.f.granularity)
ForExec(r)   == req.f.executorType \in {All, r.exec}

\* Whenever the queries of a tab run, later than the grid was made, every run
\* (task) of the window whose bucket the grid had already opened is counted in a
\* point, once: the partial first bucket is not cut off, and a duration is where
\* its run ended.
SeriesComplete ==
  (req.kind = "metrics" /\ DOMAIN req.got = {}) =>
    LET mine == {r \in runs : InScope(r) /\ ForExec(r) /\ InWindow(r.created) /\ OnGrid(r.created)}
    IN CASE req.tab = "activity" ->
              \A p \in Parts["activity"] : Points(Chart(p)) = Cardinality(mine)
         [] req.tab = "reliability" ->
              /\ Points(Chart("runs_by_status")) = Cardinality(mine)
              /\ \A r \in runs : (/\ InScope(r) /\ ForExec(r) /\ r.started # NoValue
                                  /\ InWindow(r.finished) /\ OnGrid(r.finished)) =>
                   \E b \in req.grid : /\ b <= r.finished /\ r.finished < b + Step(req.f.granularity)
                                        /\ r.finished - r.started \in Chart("durations")["duration"][b]
         [] req.tab = "human" ->
              Points(Chart("closed_by_kind")) =
                Cardinality({t \in tasks : InScope(t) /\ InWindow(t.resolved) /\ OnGrid(t.resolved)})
         [] req.tab = "cost" -> Points(Chart("cost_by_executor")) = CostSum(mine)
         [] OTHER -> TRUE

\* The charts of one answer agree with each other and with the rows when nothing
\* changed while it was made: no breakdown (by executor, role, model, token type,
\* source, workspace) drops a run that has no value for it, or counts one twice. The
\* list of workspaces by cost is bounded: what it shows is each one's own spend, it
\* leaves out only workspaces that spent no more, and it is the whole spend when
\* there was room for all that had a run.
ChartsAgree ==
  (req.kind = "metrics" /\ DOMAIN req.got = Parts[req.tab] /\ req.slips = 0) =>
    LET mine == {r \in runs : InScope(r) /\ ForExec(r) /\ InWindow(r.created)}
        all  == {r \in runs : InScope(r) /\ InWindow(r.created)}
        used == MapThenSumSet(LAMBDA r : MapThenSumSet(LAMBDA k : r.usage[k], DOMAIN r.usage), mine)
    IN CASE req.tab = "overview" ->
              /\ req.got["cards"].total_cost_usd = CostSum(mine)
              /\ MapThenSumSet(LAMBDA s : req.got["cards"].run_count_by_status[s], RunStatuses)
                   = Cardinality(mine)
         [] req.tab = "cost" ->
              /\ \A p \in {"cost_by_executor", "cost_by_role"} : Points(req.got[p]) = CostSum(mine)
              /\ \A p \in {"tokens_by_executor", "tokens_by_model", "tokens_by_role", "tokens_by_type"} :
                   Points(req.got[p]) = used
              /\ req.f.workspaceId = All =>
                   LET top      == req.got["top"]
                       spent(w) == CostSum({r \in mine : r.ws = w})
                       busy     == {r.ws : r \in mine}
                       listed   == {x[1] : x \in top}
                   IN /\ \A x \in top : x[1] \in busy /\ x[2] = spent(x[1])
                      /\ \A w \in busy \ listed, x \in top : spent(w) <= x[2]
                      /\ Cardinality(listed) = Cardinality(top)
                      /\ Cardinality(busy) <= TopLimit <=> busy = listed
                      /\ busy = listed => MapThenSumSet(LAMBDA x : x[2], top) = CostSum(mine)
         [] req.tab = "human" ->
              MapThenSumSet(LAMBDA b : req.got["awaiting_human_share"]["share"][b][2], req.grid)
                = Cardinality(all)
         [] OTHER -> TRUE

\* The platform's spend of a period is the sum of what the workspaces show for it,
\* and of the overview of the metrics page.
SpendAddsUp ==
  \A p \in DOMAIN Window :
    /\ HomeSummary.spend[p] = MapThenSumSet(LAMBDA ws : RunCost(ws, p), Workspaces)
    /\ HomeSummary.spend[p] =
         overview(runs, tasks, parseMetricsFilters([period |-> p, ws |-> All, exec |-> All]), now).total_cost_usd

\* The failures of the last day on the home page are those of the workspace
\* cards, and the list behind them has as many.
AttentionAddsUp ==
  LET home == MapThenSumSet(LAMBDA st : HomeSummary.attention_24h[st], Statuses24h)
  IN  /\ home = MapThenSumSet(LAMBDA ws : HomeWorkspaces[ws].attention_24h, Workspaces)
      /\ home = GlobalRuns(Statuses24h, "24h").total

\* The bounded list of runs leaves out nothing more urgent than what it shows: no
\* running run for another kind, none that runs (or waits) longer, none that
\* finished later.
MostUrgentShown ==
  LET shown  == ToSet(GlobalRuns(RunStatuses, "any").items)
      hidden == runs \ shown
  IN  \A h \in hidden, x \in shown :
        CASE h.status = "running" -> x.status = "running" /\ x.started <= h.started
          [] h.status = "queued"  -> x.status = "running" \/ (x.status = "queued" /\ x.created <= h.created)
          [] OTHER -> x.status \in {"running", "queued"} \/ x.finished >= h.finished

\* A reader who turns all the pages sees every row that was in the list all the
\* time, unless a row left it meanwhile or the total was counted before one
\* entered, and sees none twice unless one entered; rows the order does not tell
\* apart are the one exception (the run list).
PagesComplete ==
  (LastPage /\ ~req.shuffled) =>
    /\ (~req.left /\ ~req.stale) => req.stayed \subseteq ToSet(req.shown)
    /\ ~req.entered => IsInjective(req.shown)

\* A ticket's history and the history on its runs' cards are the same runs, the
\* card's own among them (also of a run without a ticket); the total and the
\* tasks of an answer during which nothing changed are those of its runs.
HistoriesAgree ==
  /\ \A r \in runs : /\ r \in CardHistory(r)
                      /\ \A x \in CardHistory(r) : x.ticket = r.ticket /\ CardHistory(x) = CardHistory(r)
  /\ (req.kind = "history" /\ req.step = "done" /\ req.slips = 0) =>
       /\ req.rows # {} => req.total = CostSum(req.rows)
       /\ req.tasks = {t \in tasks : \E r \in req.rows : t.run = r.id}
       /\ \A r \in req.rows : CardHistory(r) = req.rows

\* The numbers of the dashboard: no chart, card, total or history loses a run or
\* counts it twice, and those that show the same thing agree.
DashboardHonest ==
  SeriesComplete /\ ChartsAgree /\ SpendAddsUp /\ AttentionAddsUp /\ HistoriesAgree

\* The lists of the dashboard: the bounded one leaves out only the less urgent,
\* the paged ones nothing that was there throughout.
ListsComplete == PagesComplete /\ MostUrgentShown

=============================================================================
