------------------------------ MODULE JiraAccess ------------------------------
(***************************************************************************)
(* Jira as the rest of one process uses it: clients that are rebuilt when  *)
(* the credentials of the workspace change, the reads of the agents' tools *)
(* and of the poller, the cached statuses, and the writes of the pipeline. *)
(* People move issues and edit the workflow meanwhile.                     *)
(***************************************************************************)
EXTENDS JiraClient

CONSTANTS
  Pools  \* sequence: operations that are called together, the versions of the
         \* credentials at first (0 for none), and the bounds on what else
         \* happens: calls, versions of the credentials, moves by people,
         \* edits of the workflow, expiries of a cache

ASSUME AccessAssumption ==
  \A p \in DOMAIN Pools : \A b \in {"calls", "creds", "moves", "edits", "expiries"} : Pools[p][b] \in Nat

\* An operation names the memo it goes through; a write names an issue of the
\* board, and a search of the agents' tools its limit.
ASSUME OpsAssumption ==
  \A p \in DOMAIN Pools :
    /\ Pools[p].first \subseteq Nat
    /\ \A op \in Pools[p].ops :
         /\ op.kind \in {"transition", "comment", "search", "find", "ticket", "overview",
                        "statuses", "introspect"}
         /\ op.via \in {"lazy", "factory"}
         /\ op.kind \in {"transition", "comment"} => op.issue \in Issues
         /\ op.kind = "find" => op.max \in Nat

VARIABLES
  pool,    \* the operations of this behaviour
  served,  \* calls so far
  cred,    \* the workspace row: version of its credentials, 0 when there is none
  memo,    \* client each of the two memos holds: LazyJiraClient, JiraClientFactory
  board,   \* StatusesService: the cached list (its workflow), 0 when there is none
  moves,   \* moves by people so far
  expired  \* expiries of a cache so far

local == <<pool, served, moves, expired>>
vars  == <<call, clients, jira, cred, memo, board, local>>

\* A call as it begins.  "asOf" and "since" are the credentials and the
\* workflow in force at its start.
NewCall(op) ==
  [op |-> op, pc |-> "row", rq |-> "no", tries |-> 0, client |-> 0, seen |-> 0, n |-> 0,
   from |-> "none", id |-> "none", again |-> FALSE, out |-> {}, cut |-> FALSE, list |-> 0,
   res |-> "none", was |-> FALSE, asOf |-> cred, since |-> IF op.kind = "statuses" THEN wf ELSE 0]

\* StatusesService.get answers from its cache unless a refresh is asked for.
Cached(op) == op.kind = "statuses" /\ ~op.refresh /\ board # 0

Begin(k) ==
  /\ call[k] = Idle /\ (\A x \in Calls : x < k => call[x] # Idle)
  /\ served < Pools[pool].calls
  /\ \E op \in Pools[pool].ops :
       call' = [call EXCEPT ![k] =
         IF Cached(op) THEN [NewCall(op) EXCEPT !.pc = "done", !.res = "ok", !.list = board]
         ELSE NewCall(op)]
  /\ served' = served + 1
  /\ UNCHANGED <<clients, jira, cred, memo, board, pool, moves, expired>>

\* The row with site and credentials is read for every call.
ReadRow(k) ==
  /\ call[k].pc = "row"
  /\ call' = [call EXCEPT ![k] =
       IF cred = 0 THEN [@ EXCEPT !.pc = "done", !.res = "auth"]
       ELSE [@ EXCEPT !.pc = "client", !.seen = cred]]
  /\ UNCHANGED <<clients, jira, cred, memo, board, local>>

\* The first request of an operation.
FirstOf(op) ==
  [transition |-> "queued", comment |-> "queued", search |-> "page", find |-> "find",
   ticket |-> "detail", overview |-> "project", statuses |-> "project",
   introspect |-> "board"][op.kind]

Reusable(m, seen) == memo[m] # 0 /\ clients[memo[m]].cred = seen

\* The memo's client when its fingerprint is that of the row as it was read,
\* and a new one otherwise.
ResolveClient(k) ==
  LET c   == call[k]
      m   == c.op.via
      use == Reusable(m, c.seen)
      id  == IF use THEN memo[m] ELSE Len(clients) + 1
      cl  == IF use THEN clients[id] ELSE NewClient(c.seen)
      own == IF Write(k) THEN Submit(c, cl, k) ELSE cl
  IN /\ c.pc = "client"
     /\ clients' = IF use THEN [clients EXCEPT ![id] = own] ELSE Append(clients, own)
     /\ memo' = [memo EXCEPT ![m] = id]
     /\ call' = [call EXCEPT ![k] = [c EXCEPT !.pc = FirstOf(c.op), !.client = id, !.seen = 0,
                   !.n = IF Write(k) THEN own.added[c.op.issue] ELSE 0]]
     /\ UNCHANGED <<jira, cred, board, local>>

----------------------------------------------------------------------------
\* The answers to reads.
Reads == <<jira, cred, memo, local>>

\* The first n of a set of issues, in Jira's order.
FirstN(S, n) == {i \in S : Cardinality({j \in S : j < i}) < n}

\* searchUpdated: pages until there is no next one.
PageAnswer(k) ==
  LET page == FirstN(Issues \ call[k].out, PageSize)
      all  == call[k].out \cup page
      c    == IF all = Issues THEN Finished(k, "ok") ELSE Then(k, "page")
  IN /\ Sent(k) /\ call[k].pc = "page"
     /\ Over(k, [c EXCEPT !.out = all], Of(k))
     /\ UNCHANGED <<Reads, board>>

\* search of the agents' tools: one page, marked truncated when it is full.
Cut(n, max) == n >= max

FindAnswer(k) ==
  LET own == Issues \ Foreign
      got == FirstN(own, call[k].op.max)
  IN /\ Sent(k) /\ call[k].pc = "find"
     /\ Over(k, [Finished(k, "ok") EXCEPT !.out = got,
                   !.cut = Cut(Cardinality(got), call[k].op.max)], Of(k))
     /\ UNCHANGED <<Reads, board>>

\* getTicket: an issue of another project is refused, one that is gone is 404.
DetailAnswer(k) ==
  LET i == call[k].op.issue
  IN /\ Sent(k) /\ call[k].pc = "detail"
     /\ Finish(k, IF i \notin Issues THEN "notFound" ELSE IF i \in Foreign THEN "forbidden" ELSE "ok",
               Of(k))
     /\ UNCHANGED <<Reads, board>>

\* getProjectStatuses, for the cache of StatusesService or for an overview.
ProjectAnswer(k) ==
  /\ Sent(k) /\ call[k].pc = "project"
  /\ IF call[k].op.kind = "statuses"
     THEN /\ Over(k, [Finished(k, "ok") EXCEPT !.list = wf], Of(k))
          /\ board' = wf
     ELSE Over(k, Then(k, "types"), Of(k)) /\ board' = board
  /\ UNCHANGED Reads

TypesAnswer(k) ==
  /\ Sent(k) /\ call[k].pc = "types"
  /\ Over(k, AfterTypes(k), Of(k))
  /\ UNCHANGED <<Reads, board>>

SprintsAnswer(k) ==
  /\ Sent(k) /\ call[k].pc = "sprints"
  /\ Finish(k, "ok", Of(k))
  /\ UNCHANGED <<Reads, board>>

\* introspectAndPersistBoardType.
BoardAnswer(k) ==
  /\ Sent(k) /\ call[k].pc = "board"
  /\ Finish(k, "ok", Of(k))
  /\ UNCHANGED <<Reads, board>>

ReadAnswer(k) ==
  \/ PageAnswer(k) \/ FindAnswer(k) \/ DetailAnswer(k) \/ ProjectAnswer(k)
  \/ TypesAnswer(k) \/ SprintsAnswer(k) \/ BoardAnswer(k)

Return(k) ==
  /\ call[k].pc = "done"
  /\ call' = [call EXCEPT ![k] = Idle]
  /\ UNCHANGED <<clients, jira, cred, memo, board, local>>

----------------------------------------------------------------------------
\* The others: an operator stores credentials, people work on the board, time
\* passes.
Rotate ==
  /\ cred < Pools[pool].creds /\ cred' = cred + 1
  /\ UNCHANGED <<call, clients, jira, memo, board, local>>

MoveByHand(i) ==
  /\ moves < Pools[pool].moves /\ moves' = moves + 1
  /\ \E t \in Workflows[wf][status[i]] : status' = [status EXCEPT ![i] = t[2]]
  /\ UNCHANGED <<call, clients, wf, log, cred, memo, board, pool, served, expired>>

EditWorkflow ==
  /\ wf < Len(Workflows) /\ wf <= Pools[pool].edits /\ wf' = wf + 1
  /\ UNCHANGED <<call, clients, status, log, cred, memo, board, local>>

BoardExpires ==
  /\ board # 0 /\ board' = 0
  /\ expired < Pools[pool].expiries /\ expired' = expired + 1
  /\ UNCHANGED <<call, clients, jira, cred, memo, pool, served, moves>>

Init ==
  /\ pool \in DOMAIN Pools /\ served = 0 /\ moves = 0 /\ expired = 0
  /\ call = [k \in Calls |-> Idle] /\ clients = <<>>
  /\ status = [i \in Issues |-> "todo"] /\ wf = 1 /\ log = [i \in Issues |-> <<>>]
  /\ cred \in Pools[pool].first /\ memo = [lazy |-> 0, factory |-> 0] /\ board = 0

ClientStep(k) ==
  /\ \/ Dequeue(k) \/ AcquireSlot(k) \/ AcquireToken(k) \/ Sleep(k)
     \/ TooMany(k) \/ Broken(k)
     \/ ContextAnswer(k) \/ ListAnswer(k) \/ WriteAnswer(k) \/ Conflict(k)
  /\ UNCHANGED <<cred, memo, board, local>>

CallStep(k) == ReadRow(k) \/ ResolveClient(k) \/ ClientStep(k) \/ ReadAnswer(k) \/ Return(k)

Refilling ==
  /\ \E c \in DOMAIN clients : Refill(c)
  /\ UNCHANGED <<cred, memo, board, local>>

TransitionsExpire ==
  /\ \E c \in DOMAIN clients, s \in Statuses : CacheExpires(c, s)
  /\ expired < Pools[pool].expiries /\ expired' = expired + 1
  /\ UNCHANGED <<cred, memo, board, pool, served, moves>>

Next ==
  \/ \E k \in Calls : Begin(k) \/ CallStep(k)
  \/ Refilling \/ TransitionsExpire \/ Rotate \/ EditWorkflow \/ BoardExpires
  \/ \E i \in Issues : MoveByHand(i)

\* As long as some call can go on, or waits for time to pass, something happens.
Working  == (\E k \in Calls : CallStep(k)) \/ Refilling
Fairness == WF_vars(Working)

Spec == Init /\ [][Next]_vars /\ Fairness

----------------------------------------------------------------------------
TypeOK ==
  /\ \A k \in Calls : call[k] # Idle =>
       /\ call[k].pc \in {"row", "client", "queued", "done"} \cup Requests
       /\ call[k].rq \in {"no", "slot", "token", "sent", "sleep"}
       /\ call[k].client \in 0..Len(clients) /\ call[k].tries \in 0..MaxRetries
       /\ call[k].out \subseteq Issues
  /\ \A c \in DOMAIN clients : clients[c].tokens \in 0..MaxRps /\ clients[c].active \in Nat
  /\ status \in [Issues -> Statuses] /\ cred \in Nat
  /\ \A m \in DOMAIN memo : memo[m] \in 0..Len(clients)

\* rate-limiter.ts: the requests that hold a slot of a client (waiting for a
\* token, sent, or asleep after a 429) are the ones it counts, and they are
\* never more than its concurrency, whoever was woken by whom.
Holding(c) == {k \in Calls : call[k] # Idle /\ call[k].client = c
                             /\ call[k].rq \in {"token", "sent", "sleep"}}
InFlightBounded ==
  \A c \in DOMAIN clients :
    /\ Cardinality(Holding(c)) = clients[c].active
    /\ clients[c].active <= Concurrency

\* per-issue-write-queue.ts: the writes one client makes to an issue take
\* effect in the order they were submitted.
WritesInOrder ==
  \A i \in Issues : \A p, q \in DOMAIN log[i] :
    (p < q /\ log[i][p][1] = log[i][q][1]) => log[i][p][2] <= log[i][q][2]

\* rate-limiter.ts, transition-discovery.ts: whatever is retried, a call of
\* addComment or transitionTo takes effect at most once.
WritesOnce ==
  \A i \in Issues : \A p, q \in DOMAIN log[i] : p # q => log[i][p] # log[i][q]

\* transition-discovery.ts: a transition reported as done has found the issue
\* in the target or brought it there; one without a path has moved nothing.
TransitionHonest ==
  \A k \in Calls :
    (call[k].pc = "done" /\ call[k].op.kind = "transition") =>
      /\ call[k].res = "ok" => call[k].was
      /\ call[k].res = "nopath" =>
           <<call[k].client, call[k].n>> \notin ToSet(log[call[k].op.issue])

\* lazy-jira.client.ts, jira-client-factory.ts: a call that begins after the
\* credentials were replaced is not made with the old ones, although the memo
\* may have been filled by a call that had read the row before.
FreshCredentials ==
  \A k \in Calls : (call[k] # Idle /\ call[k].client # 0) => clients[call[k].client].cred >= call[k].asOf

\* searchUpdated, JiraReadService.search: an answer that is not marked as
\* truncated is complete; a search that fails on a page answers nothing.
SearchHonest ==
  \A k \in Calls : (call[k].pc = "done" /\ call[k].res = "ok") =>
    /\ call[k].op.kind = "search" => call[k].out = Issues
    /\ (call[k].op.kind = "find" /\ ~call[k].cut) => Issues \ Foreign \subseteq call[k].out

\* statuses.service.ts: a refresh shows the board as it is at its start or
\* later, whatever slower requests have put into the cache meanwhile.
RefreshIsFresh ==
  \A k \in Calls :
    (call[k].pc = "done" /\ call[k].op.kind = "statuses" /\ call[k].res = "ok" /\ call[k].op.refresh)
      => call[k].list >= call[k].since

\* Every call of the client comes back: no slot, token or place in a queue is
\* waited for forever, so that the calls of a behaviour all end.
CallsReturn == (\E k \in Calls : call[k] # Idle) ~> (\A k \in Calls : call[k] = Idle)

\* A write reaches Jira in the order of its issue's queue and, whatever is
\* answered or lost, at most once.
WritesSound == WritesInOrder /\ WritesOnce

\* What a call answers is so: a transition it reports has happened, a search it
\* does not mark is complete, a refresh is fresh, and the credentials it used are
\* not older than those stored when it began.
AnswersHonest == TransitionHonest /\ SearchHonest /\ RefreshIsFresh /\ FreshCredentials

=============================================================================
