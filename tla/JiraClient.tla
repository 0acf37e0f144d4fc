------------------------------ MODULE JiraClient ------------------------------
(***************************************************************************)
(* BasicAuthJiraClient: the rate limiter, the write queue of each issue,   *)
(* transition discovery with its cache, and Jira behind them.              *)
(*                                                                         *)
(* A call makes its HTTP requests one after the other.  A request waits    *)
(* for a slot, for a token, and for an answer; a 429 makes it sleep and    *)
(* try again with the slot kept.  A step of a call is what runs between    *)
(* two awaits on I/O or a timer.  A waiter that is handed a slot runs      *)
(* before anything queued after it, so it has added itself to the count    *)
(* by the end of the step that woke it.                                    *)
(***************************************************************************)
EXTENDS Naturals, Sequences, FiniteSets, SequencesExt

CONSTANTS
  Calls,        \* calls in flight at a time, a set of numbers
  Issues,       \* issues of the board, a set of numbers
  Foreign,      \* the ones of another project
  Statuses,     \* statuses of the board
  Workflows,    \* sequence: for each status, the set of <<id, target>>
  Concurrency,  \* requests in flight of a client
  MaxRps,       \* size of the token bucket
  MaxRetries,   \* answers 429 a request takes
  PageSize      \* issues on a page

ASSUME ClientAssumption ==
  /\ Concurrency \in Nat \ {0} /\ MaxRps \in Nat \ {0}
  /\ MaxRetries \in Nat /\ PageSize \in Nat \ {0}
  /\ Issues \subseteq Nat /\ Foreign \subseteq Issues
  /\ IsFiniteSet(Issues) /\ IsFiniteSet(Calls)
ASSUME WorkflowAssumption ==
  /\ Workflows # <<>> /\ Workflows \in Seq([Statuses -> SUBSET (STRING \X Statuses)])
  /\ "todo" \in Statuses

VARIABLES
  call,     \* what each call is doing
  clients,  \* every client that was built
  status,   \* Jira: the status of each issue
  wf,       \* Jira: the workflow in force
  log       \* Jira: for each issue, the writes that took effect

jira == <<status, wf, log>>

Idle     == [pc |-> "idle"]
Uncached == {<<"none", "none">>}

\* A client as it is built.
NewClient(cred) ==
  [cred |-> cred, active |-> 0, waiters |-> <<>>, tokens |-> MaxRps,
   queues |-> [i \in Issues |-> <<>>], added |-> [i \in Issues |-> 0],
   cache |-> [s \in Statuses |-> Uncached]]

Of(k)    == clients[call[k].client]
Write(k) == call[k].op.kind \in {"transition", "comment"}

----------------------------------------------------------------------------
\* PerIssueWriteQueue: the call goes to the end of the queue of its issue, and
\* runs once it is first.  "n" is its place in the order of submission.
Submit(c, cl, k) ==
  LET i == c.op.issue
  IN [cl EXCEPT !.queues[i] = Append(@, k), !.added[i] = @ + 1]

Dequeue(k) ==
  /\ call[k].pc = "queued"
  /\ Head(Of(k).queues[call[k].op.issue]) = k
  /\ call' = [call EXCEPT ![k].pc = IF call[k].op.kind = "comment" THEN "comment" ELSE "context"]
  /\ UNCHANGED <<clients, jira>>

\* The client once call k has answered: the queue of its issue runs the next.
Left(cl, k) == IF Write(k) THEN [cl EXCEPT !.queues[call[k].op.issue] = Tail(@)] ELSE cl

----------------------------------------------------------------------------
\* RateLimiter.
Requests == {"context", "list", "post", "comment", "page", "find", "detail",
             "project", "types", "sprints", "board"}

\* acquireSlot.
AcquireSlot(k) ==
  /\ call[k].pc \in Requests /\ call[k].rq = "no"
  /\ LET cl == Of(k)
         free == cl.active < Concurrency
     IN /\ clients' = [clients EXCEPT ![call[k].client] =
             IF free THEN [cl EXCEPT !.active = @ + 1]
             ELSE [cl EXCEPT !.waiters = Append(@, k)]]
        /\ call' = [call EXCEPT ![k].rq = IF free THEN "token" ELSE "slot", ![k].tries = 0]
  /\ UNCHANGED jira

\* acquireToken, and the request goes out.
AcquireToken(k) ==
  /\ call[k].pc \in Requests /\ call[k].rq = "token" /\ Of(k).tokens >= 1
  /\ clients' = [clients EXCEPT ![call[k].client].tokens = @ - 1]
  /\ call' = [call EXCEPT ![k].rq = "sent"]
  /\ UNCHANGED jira

\* refill.
Refill(c) ==
  /\ clients[c].tokens < MaxRps
  /\ clients' = [clients EXCEPT ![c].tokens = @ + 1]
  /\ UNCHANGED <<call, jira>>

\* A mistake: a waiter that is woken does not add itself to the count.
ReleaseUncounted(cl) ==
  [cl EXCEPT !.active = @ - 1, !.waiters = IF @ = <<>> THEN @ ELSE Tail(@)]

\* A mistake: nobody is woken.
ReleaseSilently(cl) == [cl EXCEPT !.active = @ - 1]

\* releaseSlot, and the waiter it wakes.
ReleaseSlot(cl) ==
  [cl EXCEPT !.active = IF cl.waiters = <<>> THEN @ - 1 ELSE @,
             !.waiters = IF @ = <<>> THEN @ ELSE Tail(@)]

\* The request of k is over: the call goes on as "next", on client "cl".
Over(k, next, cl) ==
  LET freed == ReleaseSlot(cl)
      woken == {x \in ToSet(cl.waiters) : x \notin ToSet(freed.waiters)}
  IN /\ clients' = [clients EXCEPT ![call[k].client] = freed]
     /\ call' = [x \in Calls |->
          IF x = k THEN next
          ELSE IF x \in woken THEN [call[x] EXCEPT !.rq = "token"] ELSE call[x]]

Finished(k, res) ==
  [call[k] EXCEPT !.pc = "done", !.rq = "no", !.res = res, !.tries = 0, !.from = "none", !.id = "none"]
Then(k, pc) == [call[k] EXCEPT !.pc = pc, !.rq = "no", !.tries = 0]
Finish(k, res, cl) == Over(k, Finished(k, res), Left(cl, k))

\* An overview asks for the sprints of a scrum board after the issue types.
AfterTypes(k) == IF call[k].op.scrum THEN Then(k, "sprints") ELSE Finished(k, "ok")

----------------------------------------------------------------------------
\* Answers that are not the wanted one.
Sent(k) == call[k].pc \in Requests /\ call[k].rq = "sent"

\* What the caller makes of a failed request: the issue types and the sprints
\* of an overview may be missing, anything else is given up whole.
Failed(k) ==
  IF call[k].pc = "types" THEN Over(k, [AfterTypes(k) EXCEPT !.cut = TRUE], Of(k))
  ELSE IF call[k].pc = "sprints" THEN Over(k, [Finished(k, "ok") EXCEPT !.cut = TRUE], Of(k))
  ELSE Finish(k, "error", Of(k))

\* A 429: a pause, and the same request again; the last one is a failure.
TooMany(k) ==
  /\ Sent(k)
  /\ IF call[k].tries < MaxRetries
     THEN /\ call' = [call EXCEPT ![k].rq = "sleep", ![k].tries = @ + 1]
          /\ UNCHANGED clients
     ELSE Failed(k)
  /\ UNCHANGED jira

Sleep(k) ==
  /\ call[k].pc \in Requests /\ call[k].rq = "sleep"
  /\ call' = [call EXCEPT ![k].rq = "token"]
  /\ UNCHANGED <<clients, jira>>

\* Jira's side of a write: the issue and its log.
Apply(k) ==
  LET i == call[k].op.issue
      t == {x \in Workflows[wf][status[i]] : x[1] = call[k].id}
  IN /\ log' = [log EXCEPT ![i] = Append(@, <<call[k].client, call[k].n>>)]
     /\ status' = IF call[k].pc = "comment" THEN status
                  ELSE [status EXCEPT ![i] = (CHOOSE x \in t : TRUE)[2]]
     /\ wf' = wf
\* The id can be used from where the issue stands.
Available(k) ==
  \/ call[k].pc = "comment"
  \/ call[k].pc = "post" /\ \E x \in Workflows[wf][status[call[k].op.issue]] : x[1] = call[k].id

\* A mistake: the limiter tries every failed request again.
BrokenRetried(k) ==
  /\ Sent(k)
  /\ (UNCHANGED jira \/ (Available(k) /\ Apply(k)))
  /\ IF call[k].tries < MaxRetries
     THEN /\ call' = [call EXCEPT ![k].rq = "sleep", ![k].tries = @ + 1]
          /\ UNCHANGED clients
     ELSE Failed(k)

\* The connection breaks or Jira answers 4xx or 5xx.  A write that got no
\* answer may have taken effect.
Broken(k) ==
  /\ Sent(k)
  /\ Failed(k)
  /\ UNCHANGED jira \/ (Available(k) /\ Apply(k))

----------------------------------------------------------------------------
\* TransitionDiscovery.  A list that has the target is used, from the cache or
\* from Jira; the id that leads to it is posted.
Matched(k, list, cl, from) ==
  LET m == {x \in list : x[2] = call[k].op.to}
  IN IF m = {} THEN Finish(k, "nopath", cl)
     ELSE Over(k, [Then(k, "post") EXCEPT !.id = (CHOOSE x \in m : TRUE)[1], !.from = from], cl)

ContextAnswer(k) ==
  LET from == status[call[k].op.issue]
      hit  == Of(k).cache[from]
  IN /\ Sent(k) /\ call[k].pc = "context"
     /\ IF from = call[k].op.to
        THEN Over(k, [Finished(k, "ok") EXCEPT !.was = TRUE], Left(Of(k), k))
        ELSE IF hit # Uncached THEN Matched(k, hit, Of(k), from)
        ELSE Over(k, [Then(k, "list") EXCEPT !.from = from], Of(k))
     /\ UNCHANGED jira

\* The list is that of the status the issue has now; it is cached under the
\* status that was read before.
ListAnswer(k) ==
  LET list == Workflows[wf][status[call[k].op.issue]]
  IN /\ Sent(k) /\ call[k].pc = "list"
     /\ Matched(k, list, [Of(k) EXCEPT !.cache[call[k].from] = list], call[k].from)
     /\ UNCHANGED jira

WriteAnswer(k) ==
  /\ Sent(k) /\ call[k].pc \in {"post", "comment"} /\ Available(k)
  /\ Apply(k)
  /\ Over(k, [Finished(k, "ok") EXCEPT !.was = (call[k].pc = "post" /\ status'[call[k].op.issue] = call[k].op.to)],
          Left(Of(k), k))

\* A mistake: somebody else has moved the issue, which is as good.
ConflictIgnored(k) ==
  /\ Sent(k) /\ call[k].pc = "post"
  /\ Finish(k, "ok", Of(k))
  /\ UNCHANGED jira

\* A 409: the list is read again, once.
Conflict(k) ==
  /\ Sent(k) /\ call[k].pc = "post"
  /\ IF call[k].again THEN Finish(k, "error", Of(k))
     ELSE Over(k, [Then(k, "list") EXCEPT !.again = TRUE],
               [Of(k) EXCEPT !.cache[call[k].from] = Uncached])
  /\ UNCHANGED jira

\* Ten minutes pass: a cached list is read again when it is needed.
CacheExpires(c, s) ==
  /\ clients[c].cache[s] # Uncached
  /\ clients' = [clients EXCEPT ![c].cache[s] = Uncached]
  /\ UNCHANGED <<call, jira>>
=============================================================================
