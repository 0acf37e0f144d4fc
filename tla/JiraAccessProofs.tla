-------------------------- MODULE JiraAccessProofs --------------------------
(***************************************************************************)
(* The Jira clients of a process, for any pool of calls, any concurrency,  *)
(* any number of clients, issues and workflows: slots are not exceeded,    *)
(* writes of an issue go out in order and once, and answers were true.     *)
(*                                                                         *)
(* AccessInv: a client's active count is the number of calls that hold one *)
(* of its slots, and its waiters are the calls that wait (SlotInv); the    *)
(* calls in a queue are numbered upwards and only its first one writes     *)
(* (QueueInv); what a client has written to an issue is older than what it *)
(* has yet to write (LogInv).  The three are proved together: a call that  *)
(* leaves its slot wakes the first waiter.                                 *)
(*                                                                         *)
(* HonestInv: a call knows which workflow and which credentials were in    *)
(* force when it began, a client is at least as new as its calls, and what *)
(* a cache holds was offered once (CacheInv).  For an answer about a       *)
(* transition it takes that an id leads to one status wherever it is       *)
(* offered (IdsStable): an id that was retargeted is reported as done.     *)
(***************************************************************************)
EXTENDS JiraAccess, FiniteSetTheorems, SequenceTheorems, WellFoundedInduction, TLAPS

\* The first of a sequence without duplicates is in it once.
LEMMA TailSet ==
  ASSUME NEW S, NEW s \in Seq(S), s # <<>>, \A x, y \in 1..Len(s) : s[x] = s[y] => x = y
  PROVE  /\ Tail(s) \in Seq(S) /\ ToSet(Tail(s)) = ToSet(s) \ {Head(s)} /\ Head(s) \in ToSet(s)
         /\ \A x, y \in 1..Len(Tail(s)) : Tail(s)[x] = Tail(s)[y] => x = y
<1>1. Len(s) \in Nat \ {0} /\ DOMAIN s = 1..Len(s) /\ Head(s) = s[1]
  OBVIOUS
<1>2. /\ Tail(s) \in Seq(S) /\ Len(Tail(s)) = Len(s) - 1 /\ DOMAIN Tail(s) = 1..(Len(s) - 1)
  OBVIOUS
<1>3. \A i \in 1..(Len(s) - 1) : Tail(s)[i] = s[i + 1]
  OBVIOUS
<1>4. ASSUME NEW v PROVE v \in ToSet(Tail(s)) <=> v \in ToSet(s) \ {Head(s)}
  <2>1. ASSUME v \in ToSet(Tail(s)) PROVE v \in ToSet(s) \ {Head(s)}
    <3>1. PICK i \in 1..(Len(s) - 1) : v = s[i + 1]
      BY <1>2, <1>3, <2>1 DEF ToSet
    <3>2. i + 1 \in 1..Len(s) /\ i + 1 # 1 /\ 1 \in 1..Len(s)
      BY <1>1, <3>1
    <3> QED
      BY <1>1, <3>1, <3>2 DEF ToSet
  <2>2. ASSUME v \in ToSet(s) \ {Head(s)} PROVE v \in ToSet(Tail(s))
    <3>1. PICK i \in 1..Len(s) : v = s[i] /\ i # 1
      BY <1>1, <2>2 DEF ToSet
    <3>2. i - 1 \in 1..(Len(s) - 1) /\ v = Tail(s)[i - 1]
      BY <1>1, <1>3, <3>1
    <3> QED
      BY <1>2, <3>2 DEF ToSet
  <2> QED
    BY <2>1, <2>2
<1>5. Head(s) \in ToSet(s)
  BY <1>1 DEF ToSet
<1>6. \A x, y \in 1..Len(Tail(s)) : Tail(s)[x] = Tail(s)[y] => x = y
  BY <1>1, <1>2, <1>3
<1> QED
  BY <1>2, <1>4, <1>5, <1>6

\* What is appended is last.
LEMMA AppendSet ==
  ASSUME NEW S, NEW s \in Seq(S), NEW k \in S
  PROVE  /\ Append(s, k) \in Seq(S) /\ Len(Append(s, k)) = Len(s) + 1
         /\ ToSet(Append(s, k)) = ToSet(s) \cup {k}
         /\ \A i \in 1..Len(s) : Append(s, k)[i] = s[i]
         /\ Append(s, k)[Len(s) + 1] = k
<1>1. /\ Append(s, k) \in Seq(S) /\ Len(Append(s, k)) = Len(s) + 1
      /\ \A i \in 1..Len(s) : Append(s, k)[i] = s[i]
      /\ Append(s, k)[Len(s) + 1] = k
      /\ DOMAIN s = 1..Len(s) /\ DOMAIN Append(s, k) = 1..(Len(s) + 1) /\ Len(s) \in Nat
  OBVIOUS
<1>2. ASSUME NEW v PROVE v \in ToSet(Append(s, k)) <=> v \in ToSet(s) \cup {k}
  BY <1>1 DEF ToSet
<1> QED
  BY <1>1, <1>2

-----------------------------------------------------------------------------
(* Calls and clients.                                                      *)

Fields == {"op", "pc", "rq", "tries", "client", "seen", "n", "from", "id", "again", "out", "cut",
           "list", "res", "was", "asOf", "since"}
ClientFields == {"cred", "active", "waiters", "tokens", "queues", "added", "cache"}

IsCall(c) == c = [f \in Fields |-> c[f]]

IsClient(cl) ==
  /\ cl = [f \in ClientFields |-> cl[f]]
  /\ cl.cred \in Nat /\ cl.active \in Nat /\ cl.tokens \in 0..MaxRps
  /\ cl.waiters \in Seq(Calls) /\ cl.queues \in [Issues -> Seq(Calls)]
  /\ cl.added \in [Issues -> Nat] /\ cl.cache = [s \in Statuses |-> cl.cache[s]]

\* The places a call of each kind comes to between its client and its answer.
Stages ==
  [transition |-> {"queued", "context", "list", "post"}, comment |-> {"queued", "comment"},
   search |-> {"page"}, find |-> {"find"}, ticket |-> {"detail"},
   overview |-> {"project", "types", "sprints"}, statuses |-> {"project"},
   introspect |-> {"board"}]

Writes == {"transition", "comment"}

\* A call in flight, of operations ops, while there are len clients.
Sound(c, ops, len) ==
  /\ IsCall(c) /\ c.op \in ops
  /\ c.pc \in {"row", "client", "done"} \cup Stages[c.op.kind]
  /\ c.rq \in {"no", "slot", "token", "sent", "sleep"} /\ (c.rq # "no" => c.pc \in Requests)
  /\ c.client \in 0..len /\ (c.pc \in {"row", "client"} => c.client = 0)
  /\ c.pc \in Stages[c.op.kind] => c.client # 0
  /\ c.n \in Nat /\ c.seen \in Nat /\ c.tries \in 0..MaxRetries /\ c.out \subseteq Issues

CallInv ==
  /\ pool \in DOMAIN Pools /\ call = [k \in Calls |-> call[k]]
  /\ \A k \in Calls : call[k] = Idle \/ Sound(call[k], Pools[pool].ops, Len(clients))

ClientInv ==
  /\ Len(clients) \in Nat /\ clients = [c \in 1..Len(clients) |-> clients[c]]
  /\ \A c \in 1..Len(clients) : IsClient(clients[c])
  /\ memo = [m \in {"lazy", "factory"} |-> memo[m]]
  /\ \A m \in {"lazy", "factory"} : memo[m] \in 0..Len(clients)
  /\ cred \in Nat

BoardInv ==
  /\ status \in [Issues -> Statuses] /\ wf \in 1..Len(Workflows)
  /\ log = [i \in Issues |-> log[i]] /\ \A i \in Issues : log[i] \in Seq(Nat \X Nat)

ShapeInv == CallInv /\ ClientInv /\ BoardInv

\* A client changes, and the others do not.
LEMMA ClientReplaced ==
  ASSUME ClientInv, NEW c \in 1..Len(clients), NEW e, clients' = [clients EXCEPT ![c] = e]
  PROVE  /\ Len(clients') = Len(clients) /\ clients' = [i \in 1..Len(clients) |-> clients'[i]]
         /\ clients'[c] = e
         /\ \A i \in 1..Len(clients) : i # c => clients'[i] = clients[i]
<1> DEFINE S == {clients[i] : i \in 1..Len(clients)} \cup {e}
           n == Len(clients)
<1>1. n \in Nat /\ clients' \in [1..n -> S]
  BY DEF ClientInv
<1>2. clients' \in Seq(S) /\ DOMAIN clients' = 1..n
  BY <1>1
<1>3. Len(clients') = n
  BY <1>1, <1>2
<1> QED
  BY <1>1, <1>3 DEF ClientInv

\* A memo without a client of the right credentials builds one.
LEMMA ClientBuilt ==
  ASSUME ClientInv, NEW e, clients' = Append(clients, e)
  PROVE  /\ Len(clients') = Len(clients) + 1
         /\ clients' = [i \in 1..Len(clients') |-> clients'[i]]
         /\ clients'[Len(clients) + 1] = e
         /\ \A i \in 1..Len(clients) : clients'[i] = clients[i]
<1> DEFINE S == {clients[i] : i \in 1..Len(clients)} \cup {e}
           n == Len(clients)
<1>1. n \in Nat /\ clients \in [1..n -> S] /\ e \in S
  BY DEF ClientInv
<1>2. clients \in Seq(S)
  BY <1>1
<1> HIDE DEF S
<1>3. /\ clients' \in Seq(S) /\ Len(clients') = n + 1 /\ clients'[n + 1] = e
      /\ \A i \in 1..n : clients'[i] = clients[i]
  BY <1>1, <1>2
<1>4. clients' \in [1..Len(clients') -> S]
  BY <1>3, LenProperties
<1> QED
  BY <1>3, <1>4

-----------------------------------------------------------------------------
(* The end of a request.                                                   *)

\* What call k becomes when its request is over: the same call, without a slot, at its next
\* request or done.
GoesOn(c, next) ==
  /\ IsCall(next) /\ next.rq = "no" /\ next.pc \in {"done"} \cup (Stages[c.op.kind] \ {"queued"})
  /\ next.op = c.op /\ next.client = c.client /\ next.n = c.n /\ next.seen = c.seen
  /\ next.asOf = c.asOf /\ next.since = c.since /\ next.tries = 0 /\ next.out \subseteq Issues

\* What becomes of the client but for the slot: a write that is done frees the queue.
GoesOnWith(c, next, cl, new) ==
  /\ IsClient(new) /\ new.active = cl.active /\ new.waiters = cl.waiters
  /\ new.added = cl.added /\ new.cred = cl.cred /\ new.tokens = cl.tokens
  /\ new.queues = IF c.op.kind \in Writes /\ next.pc = "done"
                  THEN [cl.queues EXCEPT ![c.op.issue] = Tail(@)] ELSE cl.queues

\* The fields a request's end leaves alone.
Kept(c, d) ==
  /\ d.op = c.op /\ d.client = c.client /\ d.n = c.n /\ d.seen = c.seen /\ d.asOf = c.asOf
  /\ d.since = c.since /\ d.again = c.again /\ d.out = c.out /\ d.cut = c.cut /\ d.list = c.list
  /\ d.was = c.was

\* A call as it is given up or answered.
LEMMA FinishedFacts ==
  ASSUME NEW k, IsCall(call[k]), NEW res
  PROVE  /\ IsCall(Finished(k, res)) /\ Kept(call[k], Finished(k, res))
         /\ Finished(k, res).pc = "done" /\ Finished(k, res).res = res
         /\ Finished(k, res).rq = "no" /\ Finished(k, res).tries = 0
<1> DEFINE d == Finished(k, res)
<1>1. IsCall(d)
  BY DEF IsCall, Fields, Finished
<1>2. d.pc = "done" /\ d.res = res /\ d.rq = "no" /\ d.tries = 0
  BY DEF IsCall, Fields, Finished
<1>3. Kept(call[k], d)
  BY DEF IsCall, Fields, Finished, Kept
<1> QED
  BY <1>1, <1>2, <1>3

\* A call as it goes to its next request.
LEMMA ThenFacts ==
  ASSUME NEW k, IsCall(call[k]), NEW pc
  PROVE  /\ IsCall(Then(k, pc)) /\ Kept(call[k], Then(k, pc)) /\ Then(k, pc).res = call[k].res
         /\ Then(k, pc).pc = pc /\ Then(k, pc).rq = "no" /\ Then(k, pc).tries = 0
<1> DEFINE d == Then(k, pc)
<1>1. IsCall(d)
  BY DEF IsCall, Fields, Then
<1>2. d.pc = pc /\ d.rq = "no" /\ d.tries = 0 /\ d.res = call[k].res
  BY DEF IsCall, Fields, Then
<1>3. Kept(call[k], d)
  BY DEF IsCall, Fields, Then, Kept
<1> QED
  BY <1>1, <1>2, <1>3

\* The client of a call that is done.
LEMMA LeftFacts ==
  ASSUME NEW k, NEW cl, IsClient(cl), Write(k) => call[k].op.issue \in Issues,
         Write(k) => cl.queues[call[k].op.issue] # <<>>
  PROVE  /\ IsClient(Left(cl, k)) /\ Left(cl, k).active = cl.active
         /\ Left(cl, k).waiters = cl.waiters /\ Left(cl, k).added = cl.added
         /\ Left(cl, k).cred = cl.cred /\ Left(cl, k).tokens = cl.tokens
         /\ Left(cl, k).cache = cl.cache
         /\ Left(cl, k).queues =
              IF Write(k) THEN [cl.queues EXCEPT ![call[k].op.issue] = Tail(@)] ELSE cl.queues
<1>1. CASE ~Write(k)
  BY <1>1 DEF Left
<1>2. CASE Write(k)
  <2> DEFINE i == call[k].op.issue
             q == [cl.queues EXCEPT ![i] = Tail(cl.queues[i])]
             l == Left(cl, k)
  <2>1. l = [cl EXCEPT !.queues = q]
    BY <1>2 DEF Left, IsClient, ClientFields
  <2>2. Tail(cl.queues[i]) \in Seq(Calls)
    BY <1>2 DEF IsClient
  <2>3. q \in [Issues -> Seq(Calls)]
    BY <1>2, <2>2 DEF IsClient
  <2> HIDE DEF l, q
  <2>4. /\ l.active = cl.active /\ l.waiters = cl.waiters /\ l.added = cl.added
        /\ l.cred = cl.cred /\ l.tokens = cl.tokens /\ l.cache = cl.cache /\ l.queues = q
        /\ l = [f \in ClientFields |-> l[f]]
    BY <2>1 DEF IsClient, ClientFields
  <2>5. IsClient(l)
    BY <2>3, <2>4 DEF IsClient
  <2> QED
    BY <1>2, <2>4, <2>5 DEF l, q
<1> QED
  BY <1>1, <1>2

\* A client that differs from the call's own in what it has cached at most.
Like(cl, of) ==
  /\ IsClient(cl) /\ cl.active = of.active /\ cl.waiters = of.waiters /\ cl.added = of.added
  /\ cl.cred = of.cred /\ cl.tokens = of.tokens /\ cl.queues = of.queues

\* The request of k is over, and k and its client go on as they should.
EndsRequest(k) == \E next, new :
  Over(k, next, new) /\ GoesOn(call[k], next) /\ GoesOnWith(call[k], next, Of(k), new)

\* The write queue k runs from is not empty.
InQueue(k) == Write(k) => Of(k).queues[call[k].op.issue] # <<>>

\* A call that is not idle is a sound one.
LEMMA LiveCall ==
  ASSUME CallInv, NEW k \in Calls, call[k].pc # "idle"
  PROVE  /\ call[k] # Idle /\ Sound(call[k], Pools[pool].ops, Len(clients)) /\ IsCall(call[k])
         /\ call[k].op.kind \in DOMAIN Stages /\ call[k].op.via \in {"lazy", "factory"}
         /\ Write(k) => call[k].op.issue \in Issues
<1>1. call[k] # Idle
  BY DEF Idle
<1>2. Sound(call[k], Pools[pool].ops, Len(clients))
  BY <1>1 DEF CallInv
<1>3. call[k].op \in Pools[pool].ops /\ IsCall(call[k])
  BY <1>2 DEF Sound
<1>4. call[k].op.kind \in DOMAIN Stages /\ call[k].op.via \in {"lazy", "factory"}
  BY <1>3, OpsAssumption DEF CallInv, Stages
<1>5. Write(k) => call[k].op.issue \in Issues
  BY <1>3, OpsAssumption DEF CallInv, Write
<1> QED
  BY <1>1, <1>2, <1>3, <1>4, <1>5

\* A call at a request has a client, and is a write exactly at the requests of writes.
LEMMA RequestCall ==
  ASSUME CallInv, ClientInv, NEW k \in Calls, call[k].pc \in Requests \cup {"queued"}
  PROVE  /\ call[k] # Idle /\ IsCall(call[k]) /\ call[k].client \in 1..Len(clients)
         /\ IsClient(Of(k)) /\ call[k].out \subseteq Issues /\ call[k].n \in Nat
         /\ call[k].pc \in Stages[call[k].op.kind] /\ call[k].op.kind \in DOMAIN Stages
         /\ Write(k) <=> call[k].pc \in {"queued", "context", "list", "post", "comment"}
         /\ Write(k) => call[k].op.issue \in Issues
<1>1. call[k].pc # "idle" /\ call[k].pc \notin {"row", "client", "done"}
  BY DEF Requests
<1>2. call[k].pc \in Stages[call[k].op.kind] /\ call[k].op.kind \in DOMAIN Stages
  BY <1>1, LiveCall DEF Sound
<1>3. call[k].client \in 1..Len(clients)
  BY <1>1, <1>2, LiveCall DEF Sound, ClientInv
<1>4. Write(k) <=> call[k].pc \in {"queued", "context", "list", "post", "comment"}
  BY <1>2 DEF Write, Stages
<1>5. IsClient(Of(k))
  BY <1>3 DEF ClientInv, Of
<1>6. call[k].out \subseteq Issues /\ call[k].n \in Nat
  BY <1>1, LiveCall DEF Sound
<1> QED
  BY <1>1, <1>2, <1>3, <1>4, <1>5, <1>6, LiveCall

\* A call that is finished, with its client left.
LEMMA FinishEnds ==
  ASSUME CallInv, ClientInv, NEW k \in Calls, Sent(k), InQueue(k), NEW cl, Like(cl, Of(k)),
         NEW next, IsCall(next), next.pc = "done", next.rq = "no", next.tries = 0,
         next.out \subseteq Issues, next.op = call[k].op, next.client = call[k].client,
         next.n = call[k].n, next.seen = call[k].seen, next.asOf = call[k].asOf,
         next.since = call[k].since, Over(k, next, Left(cl, k))
  PROVE  EndsRequest(k)
<1>1. Write(k) => call[k].op.issue \in Issues
  BY RequestCall DEF Sent
<1>2. IsClient(cl) /\ (Write(k) => cl.queues[call[k].op.issue] # <<>>)
  BY DEF Like, InQueue
<1>3. GoesOnWith(call[k], next, Of(k), Left(cl, k))
  <2> DEFINE new == Left(cl, k)
  <2>1. /\ IsClient(new) /\ new.active = cl.active
        /\ new.waiters = cl.waiters /\ new.added = cl.added
        /\ new.cred = cl.cred /\ new.tokens = cl.tokens
        /\ new.cache = cl.cache
        /\ new.queues =
             IF Write(k) THEN [cl.queues EXCEPT ![call[k].op.issue] = Tail(@)] ELSE cl.queues
    <3>1. IsClient(cl)
      BY <1>2
    <3>2. Write(k) => cl.queues[call[k].op.issue] # <<>>
      BY <1>2
    <3> QED
      BY <1>1, <3>1, <3>2, LeftFacts
  <2> HIDE DEF new
  <2>2. GoesOnWith(call[k], next, Of(k), new)
    BY <2>1 DEF Like, GoesOnWith, Write, Writes
  <2> QED
    BY <2>2 DEF new
<1>4. GoesOn(call[k], next)
  BY DEF GoesOn
<1> QED
  BY <1>3, <1>4 DEF EndsRequest

\* A call that goes to its next request.
LEMMA ThenEnds ==
  ASSUME CallInv, ClientInv, NEW k \in Calls, Sent(k), NEW cl, Like(cl, Of(k)),
         NEW next, IsCall(next), next.rq = "no", next.tries = 0,
         next.pc \in Stages[call[k].op.kind] \ {"queued"} \/ (next.pc = "done" /\ ~Write(k)),
         next.out \subseteq Issues, next.op = call[k].op, next.client = call[k].client,
         next.n = call[k].n, next.seen = call[k].seen, next.asOf = call[k].asOf,
         next.since = call[k].since, Over(k, next, cl)
  PROVE  EndsRequest(k)
<1>1. call[k].op.kind \in DOMAIN Stages
  BY RequestCall DEF Sent
<1>2. next.pc = "done" => ~Write(k)
  BY <1>1 DEF Stages
<1>3. GoesOnWith(call[k], next, Of(k), cl)
  BY <1>2 DEF Like, GoesOnWith, Write, Writes
<1>4. GoesOn(call[k], next)
  BY DEF GoesOn
<1> QED
  BY <1>3, <1>4 DEF EndsRequest

\* A call finished with a result, one field changed at most.
LEMMA FinishedEnds ==
  ASSUME CallInv, ClientInv, NEW k \in Calls, Sent(k), InQueue(k), NEW cl, Like(cl, Of(k)), NEW res,
         NEW w, Over(k, [Finished(k, res) EXCEPT !.was = w], Left(cl, k)) \/ Finish(k, res, cl)
  PROVE  EndsRequest(k)
<1>1. IsCall(call[k]) /\ call[k].out \subseteq Issues
  BY RequestCall DEF Sent
<1>2. PICK next \in {Finished(k, res), [Finished(k, res) EXCEPT !.was = w]} :
        Over(k, next, Left(cl, k))
  BY DEF Finish
<1>3. /\ IsCall(Finished(k, res)) /\ Finished(k, res).pc = "done" /\ Finished(k, res).rq = "no"
      /\ Finished(k, res).tries = 0 /\ Kept(call[k], Finished(k, res))
  BY <1>1, FinishedFacts
<1>4. PICK f : f = Finished(k, res)
  OBVIOUS
<1>5. next = f \/ next = [f EXCEPT !.was = w]
  BY <1>2, <1>4
<1>6. /\ IsCall(next) /\ next.pc = "done" /\ next.rq = "no" /\ next.tries = 0
      /\ next.out = f.out /\ next.op = f.op /\ next.client = f.client /\ next.n = f.n
      /\ next.seen = f.seen /\ next.asOf = f.asOf /\ next.since = f.since
  BY <1>3, <1>4, <1>5 DEF IsCall, Fields
<1> QED
  BY <1>1, <1>2, <1>3, <1>4, <1>6, FinishEnds DEF Kept

\* The answers of reads that end a call without touching its client, or lead to the next page.
LEMMA ReadEnds ==
  ASSUME CallInv, ClientInv, NEW k \in Calls, Sent(k), ~Write(k), NEW res, NEW pc, NEW out, NEW cut,
         NEW list, out \subseteq Issues, pc \in Stages[call[k].op.kind] \ {"queued"},
         NEW f \in {Finished(k, res), Then(k, pc)},
         \/ Over(k, f, Of(k))
         \/ Over(k, [f EXCEPT !.out = out], Of(k))
         \/ Over(k, [f EXCEPT !.cut = cut], Of(k))
         \/ Over(k, [f EXCEPT !.out = out, !.cut = cut], Of(k))
         \/ Over(k, [f EXCEPT !.list = list], Of(k))
  PROVE  EndsRequest(k)
<1>1. IsCall(call[k]) /\ call[k].out \subseteq Issues /\ IsClient(Of(k))
  BY RequestCall DEF Sent
<1>2. PICK next \in {f, [f EXCEPT !.out = out], [f EXCEPT !.cut = cut],
                     [f EXCEPT !.out = out, !.cut = cut], [f EXCEPT !.list = list]} :
        Over(k, next, Of(k))
  OBVIOUS
<1>3. /\ IsCall(f) /\ f.pc \in {"done", pc} /\ f.rq = "no" /\ f.tries = 0 /\ Kept(call[k], f)
  BY <1>1, FinishedFacts, ThenFacts
<1>4. /\ IsCall(next) /\ next.pc = f.pc /\ next.rq = "no" /\ next.tries = 0
      /\ next.out \in {f.out, out} /\ next.op = f.op /\ next.client = f.client /\ next.n = f.n
      /\ next.seen = f.seen /\ next.asOf = f.asOf /\ next.since = f.since
  BY <1>2, <1>3 DEF IsCall, Fields
<1>5. Like(Of(k), Of(k))
  BY <1>1 DEF Like
<1> QED
  BY <1>1, <1>2, <1>3, <1>4, <1>5, ThenEnds DEF Kept

\* A transition that goes to its next request.
LEMMA TransitionEnds ==
  ASSUME CallInv, ClientInv, NEW k \in Calls, Sent(k), NEW cl, Like(cl, Of(k)), NEW from, NEW id,
         NEW again, NEW pc \in Stages[call[k].op.kind] \ {"queued"},
         \/ Over(k, [Then(k, pc) EXCEPT !.id = id, !.from = from], cl)
         \/ Over(k, [Then(k, pc) EXCEPT !.from = from], cl)
         \/ Over(k, [Then(k, pc) EXCEPT !.again = again], cl)
  PROVE  EndsRequest(k)
<1>1. IsCall(call[k]) /\ call[k].out \subseteq Issues
  BY RequestCall DEF Sent
<1>2. PICK f : f = Then(k, pc)
  OBVIOUS
<1>3. PICK next \in {[f EXCEPT !.id = id, !.from = from], [f EXCEPT !.from = from],
                     [f EXCEPT !.again = again]} : Over(k, next, cl)
  BY <1>2
<1>4. /\ IsCall(f) /\ f.pc = pc /\ f.rq = "no" /\ f.tries = 0 /\ Kept(call[k], f)
  BY <1>1, <1>2, ThenFacts
<1>5. /\ IsCall(next) /\ next.pc = pc /\ next.rq = "no" /\ next.tries = 0
      /\ next.out = f.out /\ next.op = f.op /\ next.client = f.client /\ next.n = f.n
      /\ next.seen = f.seen /\ next.asOf = f.asOf /\ next.since = f.since
  BY <1>3, <1>4 DEF IsCall, Fields
<1> QED
  BY <1>1, <1>3, <1>4, <1>5, ThenEnds DEF Kept

\* A client whose cache has changed is like it was.
LEMMA CacheLike ==
  ASSUME NEW of, IsClient(of), NEW s, NEW v
  PROVE  Like(of, of) /\ Like([of EXCEPT !.cache[s] = v], of)
<1>1. PICK cache : cache = [of.cache EXCEPT ![s] = v]
  OBVIOUS
<1>2. PICK cl : cl = [of EXCEPT !.cache = cache]
  OBVIOUS
<1>3. [of EXCEPT !.cache[s] = v] = cl
  BY <1>1, <1>2
<1>4. cache = [t \in Statuses |-> cache[t]]
  BY <1>1 DEF IsClient
<1>5. /\ cl = [f \in ClientFields |-> cl[f]] /\ cl.cache = cache /\ cl.cred = of.cred
      /\ cl.active = of.active /\ cl.waiters = of.waiters /\ cl.added = of.added
      /\ cl.tokens = of.tokens /\ cl.queues = of.queues
  BY <1>2 DEF IsClient, ClientFields
<1>6. Like(cl, of)
  BY <1>4, <1>5 DEF Like, IsClient
<1> QED
  BY <1>3, <1>6 DEF Like

\* A list with or without the target.
LEMMA MatchedEnds ==
  ASSUME CallInv, ClientInv, NEW k \in Calls, Sent(k), InQueue(k), NEW cl, Like(cl, Of(k)),
         NEW list, NEW from, Matched(k, list, cl, from), call[k].pc \in {"context", "list"}
  PROVE  EndsRequest(k)
<1>1. "post" \in Stages[call[k].op.kind] \ {"queued"}
  BY RequestCall DEF Sent, Stages
<1>2. CASE Finish(k, "nopath", cl)
  BY <1>2, FinishedEnds
<1>3. CASE ~Finish(k, "nopath", cl)
  <2>1. PICK id : Over(k, [Then(k, "post") EXCEPT !.id = id, !.from = from], cl)
    BY <1>3 DEF Matched
  <2> QED
    BY <1>1, <2>1, TransitionEnds
<1> QED
  BY <1>2, <1>3

\* Every answer but a first 429 ends the request.
LEMMA AnswerEnds ==
  ASSUME CallInv, ClientInv, NEW k \in Calls, InQueue(k),
         \/ TooMany(k) /\ ~(call[k].tries < MaxRetries)
         \/ Broken(k) \/ ContextAnswer(k) \/ ListAnswer(k) \/ WriteAnswer(k) \/ Conflict(k)
         \/ ReadAnswer(k)
  PROVE  Sent(k) /\ EndsRequest(k)
<1>1. Sent(k)
  BY DEF TooMany, Broken, ContextAnswer, ListAnswer, WriteAnswer, Conflict, ReadAnswer, PageAnswer,
     FindAnswer, DetailAnswer, ProjectAnswer, TypesAnswer, SprintsAnswer, BoardAnswer
<1>2. /\ IsCall(call[k]) /\ IsClient(Of(k)) /\ call[k].op.kind \in DOMAIN Stages
      /\ call[k].pc \in Stages[call[k].op.kind] /\ call[k].out \subseteq Issues
      /\ Write(k) <=> call[k].pc \in {"queued", "context", "list", "post", "comment"}
  BY <1>1, RequestCall DEF Sent
<1>3. Like(Of(k), Of(k)) /\ \A s, v : Like([Of(k) EXCEPT !.cache[s] = v], Of(k))
  BY <1>2, CacheLike
<1>4. \A res : Finish(k, res, Of(k)) => EndsRequest(k)
  BY <1>1, <1>3, FinishedEnds
<1>6. CASE Broken(k) \/ (TooMany(k) /\ ~(call[k].tries < MaxRetries))
  <2>0. Failed(k)
    BY <1>6 DEF Broken, TooMany
  <2>1. CASE call[k].pc = "types"
    <3>1. Over(k, [AfterTypes(k) EXCEPT !.cut = TRUE], Of(k))
      BY <2>0, <2>1 DEF Failed
    <3>2. AfterTypes(k) \in {Finished(k, "ok"), Then(k, "sprints")}
      BY DEF AfterTypes
    <3>3. ~Write(k) /\ "sprints" \in Stages[call[k].op.kind] \ {"queued"}
      BY <1>2, <2>1 DEF Stages
    <3> QED
      BY <1>1, <1>2, <3>1, <3>2, <3>3, ReadEnds
  <2>2. CASE call[k].pc = "sprints"
    <3>1. Over(k, [Finished(k, "ok") EXCEPT !.cut = TRUE], Of(k))
      BY <2>0, <2>2 DEF Failed
    <3>2. ~Write(k) /\ "sprints" \in Stages[call[k].op.kind] \ {"queued"}
      BY <1>2, <2>2 DEF Stages
    <3> QED
      BY <1>1, <1>2, <3>1, <3>2, ReadEnds
  <2>3. CASE call[k].pc \notin {"types", "sprints"}
    BY <1>1, <1>4, <2>0, <2>3 DEF Failed
  <2> QED
    BY <1>1, <2>1, <2>2, <2>3
<1>7. CASE ContextAnswer(k)
  <2> DEFINE from == status[call[k].op.issue]
  <2>1. call[k].pc = "context" /\ "list" \in Stages[call[k].op.kind] \ {"queued"}
    BY <1>2, <1>7 DEF ContextAnswer, Stages
  <2>2. \/ Over(k, [Finished(k, "ok") EXCEPT !.was = TRUE], Left(Of(k), k))
        \/ Matched(k, Of(k).cache[from], Of(k), from)
        \/ Over(k, [Then(k, "list") EXCEPT !.from = from], Of(k))
    BY <1>7 DEF ContextAnswer
  <2> HIDE DEF from
  <2>3. CASE Over(k, [Finished(k, "ok") EXCEPT !.was = TRUE], Left(Of(k), k))
    BY <1>1, <1>3, <2>3, FinishedEnds
  <2>4. CASE Matched(k, Of(k).cache[from], Of(k), from)
    BY <1>1, <1>3, <2>1, <2>4, MatchedEnds
  <2>5. CASE Over(k, [Then(k, "list") EXCEPT !.from = from], Of(k))
    BY <1>1, <1>3, <2>1, <2>5, TransitionEnds
  <2> QED
    BY <1>1, <2>2, <2>3, <2>4, <2>5
<1>8. CASE ListAnswer(k)
  <2>1. PICK list, s : Matched(k, list, [Of(k) EXCEPT !.cache[s] = list], s)
    BY <1>8 DEF ListAnswer
  <2> QED
    BY <1>1, <1>3, <1>8, <2>1, MatchedEnds DEF ListAnswer
<1>9. CASE WriteAnswer(k)
  <2>1. PICK w : Over(k, [Finished(k, "ok") EXCEPT !.was = w], Left(Of(k), k))
    BY <1>9 DEF WriteAnswer
  <2> QED
    BY <1>1, <1>3, <2>1, FinishedEnds
<1>10. CASE Conflict(k)
  <2>1. CASE call[k].again
    BY <1>1, <1>4, <1>10, <2>1 DEF Conflict
  <2>2. CASE ~call[k].again
    <3>1. Over(k, [Then(k, "list") EXCEPT !.again = TRUE],
               [Of(k) EXCEPT !.cache[call[k].from] = Uncached])
      BY <1>10, <2>2 DEF Conflict
    <3>2. "list" \in Stages[call[k].op.kind] \ {"queued"}
      BY <1>2, <1>10 DEF Conflict, Stages
    <3> QED
      BY <1>1, <1>3, <3>1, <3>2, TransitionEnds
  <2> QED
    BY <2>1, <2>2
<1>11. CASE ReadAnswer(k)
  <2>1. CASE PageAnswer(k)
    <3>1. ~Write(k) /\ "page" \in Stages[call[k].op.kind] \ {"queued"}
      BY <1>2, <2>1 DEF PageAnswer, Stages
    <3>2. PICK f \in {Finished(k, "ok"), Then(k, "page")}, out \in SUBSET Issues :
            Over(k, [f EXCEPT !.out = out], Of(k))
      BY <1>2, <2>1 DEF PageAnswer, FirstN
    <3> QED
      BY <1>1, <3>1, <3>2, ReadEnds
  <2>2. CASE FindAnswer(k)
    <3>1. ~Write(k) /\ "find" \in Stages[call[k].op.kind] \ {"queued"}
      BY <1>2, <2>2 DEF FindAnswer, Stages
    <3>2. PICK out \in SUBSET Issues : \E cut :
            Over(k, [Finished(k, "ok") EXCEPT !.out = out, !.cut = cut], Of(k))
      BY <2>2 DEF FindAnswer, FirstN
    <3> QED
      BY <1>1, <3>1, <3>2, ReadEnds
  <2>3. CASE DetailAnswer(k) \/ SprintsAnswer(k) \/ BoardAnswer(k)
    BY <1>1, <1>4, <2>3 DEF DetailAnswer, SprintsAnswer, BoardAnswer
  <2>4. CASE ProjectAnswer(k) \/ TypesAnswer(k)
    <3>1. call[k].pc \in {"project", "types"} /\ ~Write(k)
      BY <1>2, <2>4 DEF ProjectAnswer, TypesAnswer
    <3>2. CASE ProjectAnswer(k) /\ call[k].op.kind = "statuses"
      <4>1. Over(k, [Finished(k, "ok") EXCEPT !.list = wf], Of(k))
            /\ "project" \in Stages[call[k].op.kind] \ {"queued"}
        BY <3>2 DEF ProjectAnswer, Stages
      <4> QED
        BY <1>1, <1>2, <3>1, <4>1, ReadEnds
    <3>3. CASE ~(ProjectAnswer(k) /\ call[k].op.kind = "statuses")
      <4>1. call[k].op.kind = "overview"
        BY <1>2, <2>4, <3>1, <3>3 DEF TypesAnswer, Stages
      <4>2. \E pc \in {"types", "sprints"} : \E f \in {Finished(k, "ok"), Then(k, pc)} :
              Over(k, f, Of(k))
        BY <2>4, <3>3 DEF ProjectAnswer, TypesAnswer, AfterTypes
      <4>3. {"types", "sprints"} \subseteq Stages[call[k].op.kind] \ {"queued"}
        BY <4>1 DEF Stages
      <4> QED
        BY <1>1, <1>2, <3>1, <4>2, <4>3, ReadEnds
    <3> QED
      BY <1>1, <3>2, <3>3
  <2> QED
    BY <1>1, <1>11, <2>1, <2>2, <2>3, <2>4 DEF ReadAnswer
<1> QED
  BY <1>1, <1>6, <1>7, <1>8, <1>9, <1>10, <1>11

-----------------------------------------------------------------------------
(* Slots.                                                                  *)

Distinct(s) == \A x, y \in 1..Len(s) : s[x] = s[y] => x = y

\* The calls that wait for a slot of client c.
WaitingFor(c) == {k \in Calls : call[k] # Idle /\ call[k].client = c /\ call[k].rq = "slot"}

\* The limiter of each client counts the calls that hold a slot of it, and its waiters are the
\* calls that wait for one, each once.
SlotInv == \A c \in 1..Len(clients) :
  /\ clients[c].active = Cardinality(Holding(c)) /\ clients[c].active <= Concurrency
  /\ Distinct(clients[c].waiters) /\ ToSet(clients[c].waiters) = WaitingFor(c)

\* The first waiter is woken, the others wait on.
Freed(cl, new) ==
  /\ IsClient(new) /\ new.queues = cl.queues /\ new.added = cl.added /\ new.cache = cl.cache
  /\ new.cred = cl.cred
  /\ cl.waiters = <<>> => new.waiters = <<>> /\ new.active = cl.active - 1
  /\ cl.waiters # <<>> => new.waiters = Tail(cl.waiters) /\ new.active = cl.active

\* releaseSlot.
LEMMA ReleaseFrees ==
  ASSUME NEW cl, IsClient(cl), cl.active # 0
  PROVE  Freed(cl, ReleaseSlot(cl))
<1>1. PICK new : new = ReleaseSlot(cl)
  OBVIOUS
<1>2. cl.active \in Nat /\ cl.waiters \in Seq(Calls)
  BY DEF IsClient
<1>3. PICK active, waiters :
        /\ active = IF cl.waiters = <<>> THEN cl.active - 1 ELSE cl.active
        /\ waiters = IF cl.waiters = <<>> THEN cl.waiters ELSE Tail(cl.waiters)
  OBVIOUS
<1>4. active \in Nat /\ waiters \in Seq(Calls)
  BY <1>2, <1>3
<1>5. new = [cl EXCEPT !.active = active, !.waiters = waiters]
  BY <1>1, <1>3 DEF ReleaseSlot, IsClient, ClientFields
<1>6. /\ new = [f \in ClientFields |-> new[f]] /\ new.active = active /\ new.waiters = waiters
      /\ new.cred = cl.cred /\ new.tokens = cl.tokens /\ new.queues = cl.queues
      /\ new.added = cl.added /\ new.cache = cl.cache
  BY <1>5 DEF IsClient, ClientFields
<1>7. IsClient(new)
  BY <1>4, <1>6 DEF IsClient
<1> QED
  BY <1>1, <1>3, <1>6, <1>7 DEF Freed

\* The one call that is woken.
Woken(k, x) == Of(k).waiters # <<>> /\ x = Head(Of(k).waiters)

\* The end of a request: k goes on, one waiter of its client has its slot, the rest is as it was.
LEMMA OverEffects ==
  ASSUME CallInv, ClientInv, SlotInv, NEW k \in Calls, Sent(k), NEW next, NEW new,
         Over(k, next, new), GoesOn(call[k], next), GoesOnWith(call[k], next, Of(k), new)
  PROVE  /\ call' = [x \in Calls |-> call'[x]] /\ call'[k] = next
         /\ \A x \in Calls \ {k} :
              call'[x] = IF Woken(k, x) THEN [call[x] EXCEPT !.rq = "token"] ELSE call[x]
         /\ Of(k).waiters # <<>> => Head(Of(k).waiters) \in WaitingFor(call[k].client)
         /\ clients' = [clients EXCEPT ![call[k].client] = ReleaseSlot(new)]
         /\ Freed(new, ReleaseSlot(new)) /\ Of(k).active \in Nat \ {0}
<1> DEFINE c == call[k].client
           w == Of(k).waiters
<1>1. c \in 1..Len(clients) /\ IsClient(Of(k)) /\ call[k] # Idle
  BY RequestCall DEF Sent
<1>2. w = new.waiters /\ Of(k).active = new.active /\ IsClient(new)
  BY DEF GoesOnWith
<1>3. k \in Holding(c) /\ Holding(c) \subseteq Calls
  BY <1>1 DEF Holding, Sent
<1>4. Of(k).active \in Nat \ {0}
  <2>1. IsFiniteSet(Holding(c))
    BY <1>3, ClientAssumption, FS_Subset
  <2>2. Cardinality(Holding(c)) # 0
    BY <1>3, <2>1, FS_EmptySet
  <2>3. clients[c].active = Cardinality(Holding(c)) /\ Of(k) = clients[c]
    BY <1>1 DEF SlotInv, Of
  <2> QED
    BY <1>1, <2>2, <2>3 DEF IsClient
<1>5. Freed(new, ReleaseSlot(new))
  BY <1>2, <1>4, ReleaseFrees
<1>6. w \in Seq(Calls) /\ Distinct(w) /\ ToSet(w) = WaitingFor(c)
  BY <1>1 DEF SlotInv, IsClient, Of
<1>7. \A x : x \in ToSet(w) /\ x \notin ToSet(ReleaseSlot(new).waiters) <=> Woken(k, x)
  <2>1. CASE w = <<>>
    <3>1. ToSet(w) = {}
      BY <2>1 DEF ToSet
    <3> QED
      BY <2>1, <3>1 DEF Woken
  <2>2. CASE w # <<>>
    <3>1. ReleaseSlot(new).waiters = Tail(w)
      BY <1>2, <1>5, <2>2 DEF Freed
    <3>2. ToSet(Tail(w)) = ToSet(w) \ {Head(w)} /\ Head(w) \in ToSet(w)
      BY <1>6, <2>2, TailSet DEF Distinct
    <3> QED
      BY <2>2, <3>1, <3>2 DEF Woken
  <2> QED
    BY <2>1, <2>2
<1>8. clients' = [clients EXCEPT ![c] = ReleaseSlot(new)]
  BY DEF Over
<1>9. call' = [x \in Calls |->
        IF x = k THEN next ELSE IF Woken(k, x) THEN [call[x] EXCEPT !.rq = "token"] ELSE call[x]]
  <2>1. \A x \in Calls :
          x \in {y \in ToSet(new.waiters) : y \notin ToSet(ReleaseSlot(new).waiters)} <=> Woken(k, x)
    BY <1>2, <1>7
  <2> QED
    BY <2>1 DEF Over
<1>10. w # <<>> => Head(w) \in WaitingFor(c)
  BY <1>6, TailSet DEF Distinct
<1> QED
  BY <1>4, <1>5, <1>8, <1>9, <1>10

\* A request that moves on between slot, token, answer and sleep is the same call.
LEMMA RqSound ==
  ASSUME NEW ops, NEW len, NEW c, Sound(c, ops, len), c.pc \in Requests,
         NEW rq \in {"slot", "token", "sent", "sleep"}, NEW d, d = [c EXCEPT !.rq = rq]
  PROVE  /\ Sound(d, ops, len) /\ d # Idle /\ d.rq = rq /\ d.pc = c.pc /\ Kept(c, d)
         /\ d.id = c.id /\ d.res = c.res
<1>1. IsCall(c)
  BY DEF Sound
<1>2. IsCall(d)
  BY <1>1 DEF IsCall, Fields
<1>3. d.rq = rq /\ d.pc = c.pc /\ d.tries = c.tries /\ d.id = c.id /\ d.res = c.res
  BY <1>1 DEF IsCall, Fields
<1>4. Kept(c, d)
  BY <1>1 DEF IsCall, Fields, Kept
<1>5. Sound(d, ops, len)
  BY <1>2, <1>3, <1>4 DEF Sound, Kept
<1>6. d # Idle
  BY <1>3 DEF Idle, Requests
<1> QED
  BY <1>3, <1>4, <1>5, <1>6

\* What an ended request leaves of the calls: k goes on, everyone else is where it was.
LEMMA OverCalls ==
  ASSUME CallInv, ClientInv, SlotInv, NEW k \in Calls, Sent(k), EndsRequest(k)
  PROVE  /\ call' = [x \in Calls |-> call'[x]] /\ GoesOn(call[k], call'[k]) /\ call'[k] # Idle
         /\ \A x \in Calls \ {k} :
              \/ call'[x] = call[x] /\ ~Woken(k, x)
              \/ /\ Woken(k, x) /\ x \in WaitingFor(call[k].client)
                 /\ Sound(call'[x], Pools[pool].ops, Len(clients)) /\ call'[x] # Idle
                 /\ call'[x].rq = "token" /\ call'[x].pc = call[x].pc /\ Kept(call[x], call'[x])
                 /\ call'[x].id = call[x].id /\ call'[x].res = call[x].res
<1>1. PICK next, new :
        Over(k, next, new) /\ GoesOn(call[k], next) /\ GoesOnWith(call[k], next, Of(k), new)
  BY DEF EndsRequest
<1>2. /\ call' = [x \in Calls |-> call'[x]] /\ call'[k] = next
      /\ \A x \in Calls \ {k} :
           call'[x] = IF Woken(k, x) THEN [call[x] EXCEPT !.rq = "token"] ELSE call[x]
      /\ Of(k).waiters # <<>> => Head(Of(k).waiters) \in WaitingFor(call[k].client)
  BY <1>1, OverEffects
<1>3. call'[k] # Idle
  <2>1. call[k].op.kind \in DOMAIN Stages /\ next.pc \in {"done"} \cup Stages[call[k].op.kind]
    BY <1>1, RequestCall DEF Sent, GoesOn
  <2>2. next.pc # "idle"
    BY <2>1 DEF Stages
  <2> QED
    BY <1>2, <2>2 DEF Idle
<1>4. ASSUME NEW x \in Calls \ {k}, Woken(k, x)
      PROVE  /\ x \in WaitingFor(call[k].client)
             /\ Sound(call'[x], Pools[pool].ops, Len(clients)) /\ call'[x] # Idle
             /\ call'[x].rq = "token" /\ call'[x].pc = call[x].pc /\ Kept(call[x], call'[x])
             /\ call'[x].id = call[x].id /\ call'[x].res = call[x].res
  <2>1. x \in WaitingFor(call[k].client)
    BY <1>2, <1>4 DEF Woken
  <2>2. Sound(call[x], Pools[pool].ops, Len(clients)) /\ call[x].rq = "slot"
    BY <2>1 DEF WaitingFor, CallInv
  <2>3. call[x].pc \in Requests /\ call'[x] = [call[x] EXCEPT !.rq = "token"]
    BY <1>2, <1>4, <2>2 DEF Sound
  <2> QED
    BY <2>1, <2>2, <2>3, RqSound
<1> QED
  BY <1>1, <1>2, <1>3, <1>4

\* The shapes survive the end of a request.
LEMMA OverShape ==
  ASSUME CallInv, ClientInv, SlotInv, NEW k \in Calls, Sent(k), EndsRequest(k),
         UNCHANGED <<pool, memo, cred>>
  PROVE  CallInv' /\ ClientInv' /\ Len(clients') = Len(clients)
<1>1. PICK next, new :
        Over(k, next, new) /\ GoesOn(call[k], next) /\ GoesOnWith(call[k], next, Of(k), new)
  BY DEF EndsRequest
<1>2. /\ clients' = [clients EXCEPT ![call[k].client] = ReleaseSlot(new)]
      /\ Freed(new, ReleaseSlot(new))
  BY <1>1, OverEffects
<1>3. /\ call[k].client \in 1..Len(clients) /\ call[k].op.kind \in DOMAIN Stages
      /\ call[k].pc \in Stages[call[k].op.kind] /\ call[k].n \in Nat
      /\ Sound(call[k], Pools[pool].ops, Len(clients))
  BY RequestCall DEF Sent, CallInv
<1>4. /\ Len(clients') = Len(clients) /\ clients' = [c \in 1..Len(clients) |-> clients'[c]]
      /\ clients'[call[k].client] = ReleaseSlot(new)
      /\ \A c \in 1..Len(clients) : c # call[k].client => clients'[c] = clients[c]
  BY <1>2, <1>3, ClientReplaced
<1>5. ClientInv'
  <2>1. ASSUME NEW c \in 1..Len(clients) PROVE IsClient(clients'[c])
    BY <1>2, <1>4 DEF Freed, ClientInv
  <2> QED
    BY <1>4, <2>1 DEF ClientInv, IsClient
<1>6. CallInv'
  <2>1. ASSUME NEW x \in Calls
        PROVE  call'[x] = Idle \/ Sound(call'[x], Pools[pool].ops, Len(clients))
    <3>1. CASE x = k
      <4>1. GoesOn(call[k], call'[k]) /\ 0 \in 0..MaxRetries
        BY OverCalls, ClientAssumption
      <4>2. "queued" \notin {"row", "client"} /\ \A kind \in DOMAIN Stages :
              Stages[kind] \cap {"row", "client", "done", "idle"} = {}
        BY DEF Stages
      <4> QED
        BY <1>3, <3>1, <4>1, <4>2 DEF GoesOn, Sound
    <3>2. CASE x # k
      BY <3>2, OverCalls DEF CallInv
    <3> QED
      BY <3>1, <3>2
  <2>2. call' = [x \in Calls |-> call'[x]]
    BY OverCalls
  <2> QED
    BY <1>4, <2>1, <2>2 DEF CallInv, Sound, IsCall
<1> QED
  BY <1>4, <1>5, <1>6

\* The slot of a request that is over goes to the first waiter, or is free.
LEMMA OverSlots ==
  ASSUME CallInv, ClientInv, SlotInv, NEW k \in Calls, Sent(k), EndsRequest(k)
  PROVE  SlotInv'
<1>1. PICK next, new :
        Over(k, next, new) /\ GoesOn(call[k], next) /\ GoesOnWith(call[k], next, Of(k), new)
  BY DEF EndsRequest
<1>0. PICK c \in 1..Len(clients) : c = call[k].client
  BY RequestCall DEF Sent
<1>11. PICK w, freed : w = Of(k).waiters /\ freed = ReleaseSlot(new)
  OBVIOUS
<1>2. /\ clients' = [clients EXCEPT ![c] = freed] /\ Freed(new, freed) /\ Of(k).active \in Nat \ {0}
      /\ w # <<>> => Head(w) \in WaitingFor(c)
  BY <1>0, <1>1, <1>11, OverEffects
<1>3. c \in 1..Len(clients) /\ call[k] # Idle /\ call[k].rq = "sent" /\ call[k].client = c
  BY <1>0, RequestCall DEF Sent
<1>4. /\ Len(clients') = Len(clients) /\ clients'[c] = freed
      /\ \A d \in 1..Len(clients) : d # c => clients'[d] = clients[d]
  BY <1>2, <1>3, ClientReplaced
<1>5. call'[k] # Idle /\ call'[k].rq = "no"
  BY OverCalls DEF GoesOn
<1>6. ASSUME NEW x \in Calls \ {k}
      PROVE  \/ call'[x] = call[x] /\ ~Woken(k, x)
             \/ /\ Woken(k, x) /\ call'[x] # Idle /\ call'[x].rq = "token"
                /\ call'[x].client = c /\ call[x] # Idle /\ call[x].client = c /\ call[x].rq = "slot"
  BY <1>0, OverCalls DEF Kept, WaitingFor
<1>7. ASSUME NEW d \in 1..Len(clients), d # c
      PROVE  Holding(d)' = Holding(d) /\ WaitingFor(d)' = WaitingFor(d)
  BY <1>3, <1>5, <1>6, <1>7 DEF Holding, WaitingFor
<1>8. /\ k \in Holding(c) /\ IsFiniteSet(Holding(c)) /\ Holding(c) \subseteq Calls
      /\ clients[c] = Of(k) /\ Of(k).active = Cardinality(Holding(c)) /\ Of(k).active <= Concurrency
      /\ w \in Seq(Calls) /\ Distinct(w) /\ ToSet(w) = WaitingFor(c)
      /\ new.active = Of(k).active /\ new.waiters = w
  <2>1. k \in Holding(c) /\ Holding(c) \subseteq Calls
    BY <1>3 DEF Holding
  <2>2. IsFiniteSet(Holding(c))
    BY <2>1, ClientAssumption, FS_Subset
  <2>3. clients[c] = Of(k) /\ IsClient(clients[c])
    BY <1>0 DEF Of, ClientInv
  <2> QED
    BY <1>1, <1>11, <2>1, <2>2, <2>3 DEF SlotInv, GoesOnWith, IsClient
<1>12. ASSUME freed.active = Cardinality(Holding(c)'), freed.active <= Concurrency,
              Distinct(freed.waiters), ToSet(freed.waiters) = WaitingFor(c)'
       PROVE  SlotInv'
  <2> SUFFICES ASSUME NEW d \in 1..Len(clients)
               PROVE  /\ clients'[d].active = Cardinality(Holding(d)')
                      /\ clients'[d].active <= Concurrency
                      /\ Distinct(clients'[d].waiters) /\ ToSet(clients'[d].waiters) = WaitingFor(d)'
    BY <1>4 DEF SlotInv, Distinct, ToSet
  <2>1. CASE d = c
    BY <1>4, <1>12, <2>1
  <2>2. CASE d # c
    BY <1>4, <1>7, <2>2 DEF SlotInv
  <2> QED
    BY <2>1, <2>2
<1>9. CASE w = <<>>
  <2>1. \A x : ~Woken(k, x)
    BY <1>9, <1>11 DEF Woken
  <2>2. Holding(c)' = Holding(c) \ {k} /\ WaitingFor(c)' = WaitingFor(c)
    BY <1>3, <1>5, <1>6, <2>1 DEF Holding, WaitingFor
  <2>3. Cardinality(Holding(c) \ {k}) = Cardinality(Holding(c)) - 1
    BY <1>8, FS_RemoveElement
  <2>4. freed.active = Of(k).active - 1 /\ freed.waiters = w
    BY <1>2, <1>8, <1>9 DEF Freed
  <2>5. /\ freed.active = Cardinality(Holding(c)') /\ freed.active <= Concurrency
        /\ Distinct(freed.waiters) /\ ToSet(freed.waiters) = WaitingFor(c)'
    BY <1>2, <1>8, <2>2, <2>3, <2>4, ClientAssumption
  <2> QED
    BY <1>12, <2>5
<1>10. CASE w # <<>>
  <2>0. PICK h : h = Head(w)
    OBVIOUS
  <2>1. h \in Calls /\ h # k /\ Woken(k, h) /\ call[h] # Idle /\ call[h].client = c /\ call[h].rq = "slot"
    BY <1>2, <1>3, <1>10, <1>11, <2>0 DEF Woken, WaitingFor
  <2>2. \A x \in Calls : Woken(k, x) <=> x = h
    BY <1>10, <1>11, <2>0 DEF Woken
  <2>3. Holding(c)' = (Holding(c) \ {k}) \cup {h} /\ WaitingFor(c)' = WaitingFor(c) \ {h}
    BY <1>3, <1>5, <1>6, <2>1, <2>2 DEF Holding, WaitingFor
  <2>4. h \notin Holding(c) \ {k} /\ IsFiniteSet(Holding(c) \ {k})
        /\ Cardinality(Holding(c) \ {k}) = Cardinality(Holding(c)) - 1
    BY <1>8, <2>1, FS_RemoveElement DEF Holding
  <2>5. Cardinality((Holding(c) \ {k}) \cup {h}) = Cardinality(Holding(c))
    <3>1. Cardinality((Holding(c) \ {k}) \cup {h}) = Cardinality(Holding(c) \ {k}) + 1
      BY <2>4, FS_AddElement
    <3> QED
      BY <1>2, <1>8, <2>4, <3>1
  <2>6. freed.active = Of(k).active /\ freed.waiters = Tail(w)
    BY <1>2, <1>8, <1>10 DEF Freed
  <2>7. ToSet(Tail(w)) = ToSet(w) \ {h} /\ Distinct(Tail(w))
    BY <1>8, <1>10, <2>0, TailSet DEF Distinct
  <2>8. /\ freed.active = Cardinality(Holding(c)') /\ freed.active <= Concurrency
        /\ Distinct(freed.waiters) /\ ToSet(freed.waiters) = WaitingFor(c)'
    BY <1>8, <2>3, <2>5, <2>6, <2>7
  <2> QED
    BY <1>12, <2>8
<1> QED
  BY <1>9, <1>10

-----------------------------------------------------------------------------
(* Queues and writes.                                                      *)

\* Call k has been submitted to client c as a write to issue i, and has not been answered.
Submitted(k, c, i) ==
  call[k] # Idle /\ call[k].op.kind \in Writes /\ call[k].client = c /\ call[k].op.issue = i
Writing(k, c, i) == Submitted(k, c, i) /\ call[k].pc # "done"

QueueOf(c, i) == clients[c].queues[i]

\* The queue of an issue: its members are the unanswered writes, in the order of submission, only
\* the first is past the queue, no two calls share a number, and what client c has written to the
\* issue is older than what is still to be written.
QueueSound(c, i) ==
  /\ \A k \in Calls : k \in ToSet(QueueOf(c, i)) <=> Writing(k, c, i)
  /\ \A x, y \in 1..Len(QueueOf(c, i)) :
       x < y => call[QueueOf(c, i)[x]].n < call[QueueOf(c, i)[y]].n
  /\ \A k \in Calls : Writing(k, c, i) /\ call[k].pc # "queued" => k = Head(QueueOf(c, i))
  /\ \A k \in Calls : Submitted(k, c, i) => call[k].n <= clients[c].added[i]
  /\ \A k, h \in Calls :
       Submitted(k, c, i) /\ Submitted(h, c, i) /\ k # h => call[k].n # call[h].n
  /\ \A p \in 1..Len(log[i]) : log[i][p][1] = c =>
       /\ log[i][p][2] <= clients[c].added[i]
       /\ \A k \in Calls : Writing(k, c, i) => log[i][p][2] < call[k].n

QueueInv == \A c \in 1..Len(clients), i \in Issues : QueueSound(c, i)

\* The writes of one client to one issue are numbered upwards.
LogInv == \A i \in Issues : \A p, q \in 1..Len(log[i]) :
  /\ log[i][p][1] \in 1..Len(clients)
  /\ p < q /\ log[i][p][1] = log[i][q][1] => log[i][p][2] < log[i][q][2]

\* What matters of call x to the queues, c and i being the client and the issue of a queue, is as it
\* was; a call may come back, and the first of the queue may begin.
StaysFor(x, c, i) ==
  /\ Submitted(x, c, i)' => Submitted(x, c, i) /\ call'[x].n = call[x].n
  /\ Writing(x, c, i)' <=> Writing(x, c, i)
  /\ Writing(x, c, i)' /\ call'[x].pc # "queued" => call[x].pc # "queued" \/ x = Head(QueueOf(c, i))

\* A call whose place is the same stays for all queues.
LEMMA SamePlaceStays ==
  ASSUME NEW x, NEW c, NEW i, call'[x] = Idle <=> call[x] = Idle, call'[x].op = call[x].op,
         call'[x].client = call[x].client, call'[x].n = call[x].n, call'[x].pc = call[x].pc
  PROVE  StaysFor(x, c, i)
BY DEF StaysFor, Submitted, Writing

\* A step that touches no queue, no number and no log keeps the invariant.
LEMMA QueueStays ==
  ASSUME ClientInv, QueueInv, LogInv, Len(clients') = Len(clients), log' = log,
         \A c \in 1..Len(clients) :
           clients'[c].queues = clients[c].queues /\ clients'[c].added = clients[c].added,
         \A x \in Calls, c \in 1..Len(clients), i \in Issues : StaysFor(x, c, i)
  PROVE  QueueInv' /\ LogInv'
<1>1. LogInv'
  BY DEF LogInv
<1>2. ASSUME NEW c \in 1..Len(clients), NEW i \in Issues PROVE QueueSound(c, i)'
  <2>1. QueueSound(c, i) /\ QueueOf(c, i) \in Seq(Calls)
    BY DEF QueueInv, ClientInv, IsClient, QueueOf
  <2>2. PICK q \in Seq(Calls) : q = QueueOf(c, i)
    BY <2>1
  <2>3. QueueOf(c, i)' = q /\ clients'[c].added[i] = clients[c].added[i] /\ log'[i] = log[i]
    BY <2>2 DEF QueueOf
  <2>4. \A x \in 1..Len(q) : q[x] \in Calls /\ q[x] \in ToSet(q)
    BY DEF ToSet
  <2>5. ASSUME NEW k \in Calls PROVE k \in ToSet(q) <=> Writing(k, c, i)'
    BY <2>1, <2>2 DEF QueueSound, StaysFor
  <2>6. ASSUME NEW k \in Calls, Submitted(k, c, i)'
        PROVE  call'[k].n = call[k].n /\ Submitted(k, c, i)
    BY <2>6 DEF StaysFor
  <2>7. \A x, y \in 1..Len(q) : x < y => call'[q[x]].n < call'[q[y]].n
    <3>1. \A x \in 1..Len(q) : call'[q[x]].n = call[q[x]].n
      BY <2>4, <2>5, <2>6 DEF Writing
    <3> QED
      BY <2>1, <2>2, <3>1 DEF QueueSound
  <2>8. \A k \in Calls : Writing(k, c, i)' /\ call'[k].pc # "queued" => k = Head(q)
    BY <2>1, <2>2 DEF QueueSound, StaysFor
  <2>9. \A k \in Calls : Submitted(k, c, i)' => call'[k].n <= clients'[c].added[i]
    BY <2>1, <2>3, <2>6 DEF QueueSound
  <2>10. \A k, h \in Calls :
           Submitted(k, c, i)' /\ Submitted(h, c, i)' /\ k # h => call'[k].n # call'[h].n
    BY <2>1, <2>6 DEF QueueSound
  <2>11. \A p \in 1..Len(log'[i]) : log'[i][p][1] = c =>
           /\ log'[i][p][2] <= clients'[c].added[i]
           /\ \A k \in Calls : Writing(k, c, i)' => log'[i][p][2] < call'[k].n
    <3>1. \A k \in Calls : Writing(k, c, i)' => Writing(k, c, i) /\ call'[k].n = call[k].n
      BY <2>6 DEF StaysFor, Writing
    <3> QED
      BY <2>1, <2>3, <3>1 DEF QueueSound
  <2> QED
    BY <2>3, <2>5, <2>7, <2>8, <2>9, <2>10, <2>11 DEF QueueSound, ToSet
<1> QED
  BY <1>1, <1>2 DEF QueueInv

\* The first of a queue is the oldest of its writes, and is in it once.
LEMMA QueueHead ==
  ASSUME CallInv, ClientInv, QueueInv, NEW k \in Calls, NEW c \in 1..Len(clients), NEW i \in Issues,
         Writing(k, c, i), call[k].pc # "queued"
  PROVE  /\ QueueOf(c, i) \in Seq(Calls) /\ QueueOf(c, i) # <<>> /\ k = Head(QueueOf(c, i))
         /\ Distinct(QueueOf(c, i))
         /\ \A x \in Calls : Writing(x, c, i) /\ x # k =>
              x \in ToSet(Tail(QueueOf(c, i))) /\ call[k].n < call[x].n /\ call[x].pc = "queued"
<1>1. PICK q : q = QueueOf(c, i)
  OBVIOUS
<1>2. q \in Seq(Calls) /\ QueueSound(c, i)
  BY <1>1 DEF QueueInv, ClientInv, IsClient, QueueOf
<1>3. k \in ToSet(q) /\ k = Head(q) /\ q # <<>>
  <2>1. k \in ToSet(q) /\ k = Head(q)
    BY <1>1, <1>2 DEF QueueSound
  <2>2. ToSet(<<>>) = {}
    BY DEF ToSet
  <2> QED
    BY <2>1, <2>2
<1>4. \A x \in 1..Len(q) : q[x] \in Calls /\ call[q[x]].n \in Nat
  <2>1. ASSUME NEW x \in 1..Len(q) PROVE q[x] \in Calls /\ call[q[x]].n \in Nat
    <3>1. q[x] \in Calls /\ q[x] \in ToSet(q)
      BY <1>2 DEF ToSet
    <3>2. call[q[x]] # Idle
      BY <1>1, <1>2, <3>1 DEF QueueSound, Writing, Submitted
    <3> QED
      BY <3>1, <3>2 DEF CallInv, Sound
  <2> QED
    BY <2>1
<1>5. \A x, y \in 1..Len(q) : x < y => call[q[x]].n < call[q[y]].n
  BY <1>1, <1>2 DEF QueueSound
<1>6. Distinct(q)
  <2> SUFFICES ASSUME NEW x \in 1..Len(q), NEW y \in 1..Len(q), q[x] = q[y], x < y PROVE FALSE
    BY <1>2 DEF Distinct
  <2> QED
    BY <1>4, <1>5
<1>7. ASSUME NEW x \in Calls, Writing(x, c, i), x # k
      PROVE  x \in ToSet(Tail(q)) /\ call[k].n < call[x].n /\ call[x].pc = "queued"
  <2>1. x \in ToSet(q) /\ call[x].pc = "queued"
    BY <1>1, <1>2, <1>3, <1>7 DEF QueueSound
  <2>2. PICK j \in 1..Len(q) : x = q[j]
    BY <1>2, <2>1 DEF ToSet
  <2>3. j # 1 /\ 1 \in 1..Len(q) /\ q[1] = k
    BY <1>2, <1>3, <1>7, <2>2
  <2>4. call[k].n < call[x].n
    BY <1>5, <2>2, <2>3
  <2>5. x \in ToSet(Tail(q))
    BY <1>2, <1>3, <1>6, <1>7, <2>1, TailSet DEF Distinct
  <2> QED
    BY <2>1, <2>4, <2>5
<1> QED
  BY <1>1, <1>2, <1>3, <1>6, <1>7

\* The first write of a queue is done, and may have been written.
LEMMA QueuePops ==
  ASSUME CallInv, ClientInv, BoardInv, QueueInv, LogInv, NEW k \in Calls, NEW c \in 1..Len(clients),
         NEW i \in Issues, Writing(k, c, i), call[k].pc # "queued",
         Len(clients') = Len(clients),
         \A d \in 1..Len(clients) : clients'[d].added = clients[d].added,
         \A d \in 1..Len(clients) : d # c => clients'[d].queues = clients[d].queues,
         clients'[c].queues = [clients[c].queues EXCEPT ![i] = Tail(@)],
         call'[k].pc = "done", call'[k] # Idle, call'[k].op = call[k].op,
         call'[k].client = call[k].client, call'[k].n = call[k].n,
         \A x \in Calls \ {k}, d \in 1..Len(clients), j \in Issues :
           StaysFor(x, d, j) /\ (Writing(x, d, j) => call'[x].pc = call[x].pc),
         log' = log \/ log' = [log EXCEPT ![i] = Append(@, <<c, call[k].n>>)]
  PROVE  QueueInv' /\ LogInv'
<1> DEFINE n == call[k].n
<1>1. PICK q : q = QueueOf(c, i)
  OBVIOUS
<1>2. /\ q \in Seq(Calls) /\ q # <<>> /\ k = Head(q) /\ Distinct(q)
      /\ \A x \in Calls : Writing(x, c, i) /\ x # k =>
           x \in ToSet(Tail(q)) /\ n < call[x].n /\ call[x].pc = "queued"
  BY <1>1, QueueHead
<1>3. n \in Nat /\ call[k] # Idle /\ call[k].client = c /\ call[k].op.issue = i
      /\ call[k].op.kind \in Writes
  BY DEF CallInv, Sound, Writing, Submitted
<1>4. QueueSound(c, i)
  BY DEF QueueInv
<1>5. ASSUME NEW p \in 1..Len(log[i]), log[i][p][1] = c
      PROVE  log[i][p][2] < n /\ log[i][p][2] <= clients[c].added[i]
  BY <1>4, <1>5 DEF QueueSound
<1>6. /\ \A j \in Issues : j # i => log'[j] = log[j]
      /\ \/ log'[i] = log[i]
         \/ log'[i] = Append(log[i], <<c, n>>)
  BY DEF BoardInv
<1>7. \A j \in Issues : log[j] \in Seq(Nat \X Nat)
  BY DEF BoardInv
<1>8. ASSUME NEW j \in Issues, NEW p \in 1..Len(log'[j])
      PROVE  \/ p \in 1..Len(log[j]) /\ log'[j][p] = log[j][p]
             \/ j = i /\ log'[j][p] = <<c, n>> /\ p = Len(log[j]) + 1
  <2>1. CASE log'[j] = log[j]
    BY <1>8, <2>1
  <2>2. CASE j = i /\ log'[i] = Append(log[i], <<c, n>>)
    <3>1. <<c, n>> \in Nat \X Nat
      BY <1>3 DEF ClientInv
    <3>2. PICK l \in Seq(Nat \X Nat) : l = log[i]
      BY <1>7
    <3>3. Len(log'[i]) = Len(l) + 1 /\ log'[i][Len(l) + 1] = <<c, n>>
          /\ \A r \in 1..Len(l) : log'[i][r] = l[r]
      BY <2>2, <3>1, <3>2, SMTT(30)
    <3> QED
      BY <1>8, <2>2, <3>2, <3>3
  <2> QED
    BY <1>6, <2>1, <2>2
<1>9. LogInv'
  <2> SUFFICES ASSUME NEW j \in Issues, NEW p \in 1..Len(log'[j]), NEW r \in 1..Len(log'[j])
               PROVE  /\ log'[j][p][1] \in 1..Len(clients)
                      /\ p < r /\ log'[j][p][1] = log'[j][r][1] => log'[j][p][2] < log'[j][r][2]
    BY DEF LogInv
  <2>1. log'[j][p][1] \in 1..Len(clients)
    BY <1>8, SMTT(30) DEF LogInv
  <2>2. ASSUME p < r, log'[j][p][1] = log'[j][r][1] PROVE log'[j][p][2] < log'[j][r][2]
    <3>1. Len(log[j]) \in Nat
      BY <1>7
    <3>2. CASE r \in 1..Len(log[j]) /\ log'[j][r] = log[j][r]
      <4>1. p \in 1..Len(log[j]) /\ log'[j][p] = log[j][p]
        BY <1>8, <2>2, <3>1, <3>2
      <4> QED
        BY <2>2, <3>2, <4>1 DEF LogInv
    <3>3. CASE j = i /\ log'[j][r] = <<c, n>> /\ r = Len(log[j]) + 1
      <4>1. p \in 1..Len(log[j]) /\ log'[j][p] = log[j][p]
        BY <1>8, <2>2, <3>1, <3>3
      <4> QED
        BY <1>5, <2>2, <3>3, <4>1
    <3> QED
      BY <1>8, <3>2, <3>3
  <2> QED
    BY <2>1, <2>2
<1>10. ASSUME NEW d \in 1..Len(clients), NEW j \in Issues
       PROVE  /\ ~Writing(k, d, j)' /\ (Submitted(k, d, j)' <=> d = c /\ j = i)
              /\ Submitted(k, d, j) <=> d = c /\ j = i
  BY <1>3 DEF Writing, Submitted
<1>11. ASSUME NEW d \in 1..Len(clients), NEW j \in Issues PROVE QueueSound(d, j)'
  <2>1. QueueSound(d, j) /\ clients'[d].added[j] = clients[d].added[j]
    BY DEF QueueInv
  <2>2. PICK s : s = QueueOf(d, j)'
    OBVIOUS
  <2>3. s \in Seq(Calls) /\ (\A x \in Calls : x \in ToSet(s) <=> Writing(x, d, j)')
        /\ (\A x \in Calls : Writing(x, d, j)' /\ call'[x].pc # "queued" => x = Head(s))
        /\ (\A x, y \in 1..Len(s) : x < y => call'[s[x]].n < call'[s[y]].n)
    <3>1. CASE d = c /\ j = i
      <4>1. s = Tail(q)
        BY <1>1, <2>2, <3>1 DEF QueueOf, ClientInv, IsClient
      <4>2. s \in Seq(Calls) /\ ToSet(s) = ToSet(q) \ {k} /\ Len(s) = Len(q) - 1
            /\ \A x \in 1..Len(s) : s[x] = q[x + 1]
        BY <1>2, <4>1, TailSet DEF Distinct
      <4>3. \A x \in Calls : x \in ToSet(q) <=> Writing(x, c, i)
        BY <1>1, <1>4 DEF QueueSound
      <4>4. \A x \in Calls : x \in ToSet(s) <=> Writing(x, d, j)'
        BY <1>10, <3>1, <4>2, <4>3 DEF StaysFor
      <4>5. ASSUME NEW x \in Calls, Writing(x, d, j)' PROVE call'[x].pc = "queued"
        BY <1>2, <1>10, <3>1, <4>5 DEF StaysFor
      <4>6. \A x \in 1..Len(s) : s[x] \in Calls /\ call'[s[x]].n = call[s[x]].n
        <5>1. \A x \in 1..Len(s) : s[x] \in Calls /\ s[x] \in ToSet(s)
          BY <4>2 DEF ToSet
        <5> QED
          BY <1>10, <4>4, <5>1 DEF StaysFor, Writing
      <4>7. \A x, y \in 1..Len(q) : x < y => call[q[x]].n < call[q[y]].n
        BY <1>1, <1>4 DEF QueueSound
      <4>8. \A x, y \in 1..Len(s) : x < y => call'[s[x]].n < call'[s[y]].n
        <5>1. Len(q) \in Nat /\ \A x \in 1..Len(s) : x + 1 \in 1..Len(q)
          BY <1>2, <4>2
        <5>2. ASSUME NEW x \in 1..Len(s), NEW y \in 1..Len(s), x < y PROVE call[s[x]].n < call[s[y]].n
          <6>1. x + 1 \in 1..Len(q) /\ y + 1 \in 1..Len(q) /\ x + 1 < y + 1
            BY <5>1, <5>2
          <6>2. s[x] = q[x + 1] /\ s[y] = q[y + 1]
            BY <4>2
          <6> QED
            BY <4>7, <6>1, <6>2
        <5> QED
          BY <4>6, <5>2
      <4> QED
        BY <4>2, <4>4, <4>5, <4>8
    <3>2. CASE ~(d = c /\ j = i)
      <4>1. s = QueueOf(d, j) /\ s \in Seq(Calls)
        <5>1. clients[d].queues \in [Issues -> Seq(Calls)]
          BY DEF ClientInv, IsClient
        <5>2. CASE d = c
          <6>1. clients'[d].queues = [clients[d].queues EXCEPT ![i] = Tail(@)] /\ j # i
            BY <3>2, <5>2
          <6> QED
            BY <2>2, <5>1, <6>1 DEF QueueOf
        <5>3. CASE d # c
          <6>1. clients'[d].queues = clients[d].queues
            BY <5>3
          <6> QED
            BY <2>2, <5>1, <6>1 DEF QueueOf
        <5> QED
          BY <5>2, <5>3
      <4>2. \A x \in Calls : x \in ToSet(s) <=> Writing(x, d, j)
        BY <2>1, <4>1 DEF QueueSound
      <4>3. \A x \in Calls : Writing(x, d, j)' <=> Writing(x, d, j)
        BY <1>10, <3>2 DEF StaysFor, Writing
      <4>4. \A x \in 1..Len(s) : s[x] \in Calls /\ call'[s[x]].n = call[s[x]].n
        <5>1. \A x \in 1..Len(s) : s[x] \in Calls /\ s[x] \in ToSet(s)
          BY <4>1 DEF ToSet
        <5> QED
          BY <1>10, <3>2, <4>2, <4>3, <5>1 DEF StaysFor, Writing
      <4>5. \A x \in Calls : Writing(x, d, j)' /\ call'[x].pc # "queued" => x = Head(s)
        <5>1. ASSUME NEW x \in Calls, Writing(x, d, j)', call'[x].pc # "queued"
              PROVE  Writing(x, d, j) /\ (call[x].pc # "queued" \/ x = Head(s))
          <6>1. x # k
            BY <1>10, <5>1
          <6>2. StaysFor(x, d, j)
            BY <6>1
          <6> QED
            BY <4>1, <5>1, <6>2 DEF StaysFor
        <5> QED
          BY <2>1, <4>1, <5>1 DEF QueueSound
      <4> QED
        BY <2>1, <4>1, <4>2, <4>3, <4>4, <4>5 DEF QueueSound
    <3> QED
      BY <3>1, <3>2
  <2>4. \A x \in Calls : Submitted(x, d, j)' => Submitted(x, d, j) /\ call'[x].n = call[x].n
    <3> SUFFICES ASSUME NEW x \in Calls, Submitted(x, d, j)'
                 PROVE  Submitted(x, d, j) /\ call'[x].n = call[x].n
      OBVIOUS
    <3>1. CASE x = k
      BY <1>10, <3>1
    <3>2. CASE x # k
      <4>1. StaysFor(x, d, j)
        BY <3>2
      <4> QED
        BY <4>1 DEF StaysFor
    <3> QED
      BY <3>1, <3>2
  <2>5. \A x \in Calls : Submitted(x, d, j)' => call'[x].n <= clients'[d].added[j]
    BY <2>1, <2>4 DEF QueueSound
  <2>6. \A x, y \in Calls :
          Submitted(x, d, j)' /\ Submitted(y, d, j)' /\ x # y => call'[x].n # call'[y].n
    BY <2>1, <2>4 DEF QueueSound
  <2>7. ASSUME NEW p \in 1..Len(log'[j]), log'[j][p][1] = d
        PROVE  /\ log'[j][p][2] <= clients'[d].added[j]
               /\ \A x \in Calls : Writing(x, d, j)' => log'[j][p][2] < call'[x].n
    <3>1. \A x \in Calls : Writing(x, d, j)' => x # k /\ Writing(x, d, j) /\ call'[x].n = call[x].n
      BY <1>10, <2>4 DEF StaysFor, Writing
    <3>2. CASE p \in 1..Len(log[j]) /\ log'[j][p] = log[j][p]
      BY <2>1, <2>7, <3>1, <3>2 DEF QueueSound
    <3>3. CASE j = i /\ log'[j][p] = <<c, n>>
      <4>1. d = c /\ log'[j][p][2] = n
        BY <2>7, <3>3
      <4>2. n <= clients[c].added[i]
        BY <1>4, <1>10 DEF QueueSound
      <4> QED
        BY <1>2, <2>1, <3>1, <3>3, <4>1, <4>2
    <3> QED
      BY <1>8, <3>2, <3>3
  <2> QED
    BY <2>2, <2>3, <2>5, <2>6, <2>7 DEF QueueSound
<1> QED
  BY <1>9, <1>11 DEF QueueInv

\* The end of a request: a write that is done leaves its queue, and everything else stays.
LEMMA OverQueues ==
  ASSUME CallInv, ClientInv, BoardInv, SlotInv, QueueInv, LogInv, NEW k \in Calls, Sent(k),
         EndsRequest(k),
         \/ log' = log
         \/ /\ Write(k) /\ call'[k].pc = "done"
            /\ log' = [log EXCEPT ![call[k].op.issue] = Append(@, <<call[k].client, call[k].n>>)]
  PROVE  QueueInv' /\ LogInv'
<1>1. PICK next, new :
        Over(k, next, new) /\ GoesOn(call[k], next) /\ GoesOnWith(call[k], next, Of(k), new)
  BY DEF EndsRequest
<1>2. PICK c \in 1..Len(clients) : c = call[k].client
  BY RequestCall DEF Sent
<1>3. PICK freed : freed = ReleaseSlot(new)
  OBVIOUS
<1>4. clients' = [clients EXCEPT ![c] = freed] /\ Freed(new, freed) /\ call'[k] = next
  BY <1>1, <1>2, <1>3, OverEffects
<1>5. /\ Len(clients') = Len(clients) /\ clients'[c] = freed
      /\ \A d \in 1..Len(clients) : d # c => clients'[d] = clients[d]
  BY <1>4, ClientReplaced
<1>6. /\ call[k] # Idle /\ call[k].pc \in Stages[call[k].op.kind] /\ call[k].op.kind \in DOMAIN Stages
      /\ Write(k) <=> call[k].op.kind \in Writes
      /\ Write(k) => call[k].op.issue \in Issues
      /\ Of(k) = clients[c] /\ call[k].pc # "queued" /\ call[k].pc # "done"
  BY <1>2, RequestCall DEF Sent, Write, Writes, Of, Requests
<1>7. call'[k] # Idle /\ GoesOn(call[k], call'[k]) /\ call'[k].pc # "queued"
  BY <1>6, OverCalls DEF GoesOn, Stages
<1>8. ASSUME NEW x \in Calls \ {k}
      PROVE  /\ call'[x] = Idle <=> call[x] = Idle
             /\ call'[x].op = call[x].op /\ call'[x].client = call[x].client
             /\ call'[x].n = call[x].n /\ call'[x].pc = call[x].pc
  BY OverCalls, SMTT(30) DEF Kept, WaitingFor
<1>9. ASSUME NEW x \in Calls \ {k}, NEW d \in 1..Len(clients), NEW j \in Issues
      PROVE  StaysFor(x, d, j) /\ (Writing(x, d, j) => call'[x].pc = call[x].pc)
  <2>1. StaysFor(x, d, j)
    BY <1>8, SamePlaceStays
  <2> QED
    BY <1>8, <2>1
<1>10. \A d \in 1..Len(clients) : clients'[d].added = clients[d].added
  BY <1>1, <1>4, <1>5, <1>6 DEF Freed, GoesOnWith
<1>11. freed.queues = IF Write(k) /\ next.pc = "done"
                      THEN [clients[c].queues EXCEPT ![call[k].op.issue] = Tail(@)] ELSE clients[c].queues
  BY <1>1, <1>4, <1>6 DEF Freed, GoesOnWith
<1>12. CASE Write(k) /\ next.pc = "done"
  <2>1. PICK i \in Issues : i = call[k].op.issue
    BY <1>6, <1>12
  <2>2. Writing(k, c, i)
    BY <1>2, <1>6, <1>12, <2>1 DEF Writing, Submitted
  <2>3. clients'[c].queues = [clients[c].queues EXCEPT ![i] = Tail(@)]
    BY <1>5, <1>11, <1>12, <2>1
  <2>4. log' = log \/ log' = [log EXCEPT ![i] = Append(@, <<c, call[k].n>>)]
    BY <1>2, <2>1
  <2>5. /\ call'[k].pc = "done" /\ call'[k].op = call[k].op
        /\ call'[k].client = call[k].client /\ call'[k].n = call[k].n
    BY <1>4, <1>7, <1>12 DEF GoesOn
  <2>6. \A d \in 1..Len(clients) : d # c => clients'[d].queues = clients[d].queues
    BY <1>5
  <2> QED
    BY <1>5, <1>6, <1>7, <1>9, <1>10, <2>2, <2>3, <2>4, <2>5, <2>6, QueuePops
<1>13. CASE ~(Write(k) /\ next.pc = "done")
  <2>1. log' = log
    BY <1>4, <1>13
  <2>2. \A d \in 1..Len(clients) :
          clients'[d].queues = clients[d].queues /\ clients'[d].added = clients[d].added
    BY <1>5, <1>10, <1>11, <1>13
  <2>3. ASSUME NEW d \in 1..Len(clients), NEW j \in Issues PROVE StaysFor(k, d, j)
    <3>1. ~Write(k) \/ call'[k].pc # "done"
      BY <1>4, <1>13
    <3> QED
      BY <1>6, <1>7, <3>1 DEF StaysFor, Submitted, Writing, GoesOn
  <2>4. \A x \in Calls, d \in 1..Len(clients), j \in Issues : StaysFor(x, d, j)
    BY <1>9, <2>3
  <2> QED
    BY <1>5, <2>1, <2>2, <2>4, QueueStays
<1> QED
  BY <1>12, <1>13

\* What an answer does to Jira: nothing, or the write it answers takes effect and the call is done.
LEMMA AnswerWrites ==
  ASSUME CallInv, ClientInv, BoardInv, NEW k \in Calls,
         \/ TooMany(k) /\ ~(call[k].tries < MaxRetries)
         \/ Broken(k) \/ ContextAnswer(k) \/ ListAnswer(k) \/ WriteAnswer(k) \/ Conflict(k)
         \/ ReadAnswer(k)
  PROVE  /\ BoardInv' /\ wf' = wf
         /\ \/ log' = log
            \/ /\ Write(k) /\ call'[k].pc = "done"
               /\ log' = [log EXCEPT ![call[k].op.issue] = Append(@, <<call[k].client, call[k].n>>)]
<1>1. CASE UNCHANGED jira
  BY <1>1 DEF jira, BoardInv
<1>2. CASE ~UNCHANGED jira
  <2>1. Sent(k) /\ Available(k) /\ Apply(k) /\ (Broken(k) \/ WriteAnswer(k))
    BY <1>2 DEF TooMany, Broken, ContextAnswer, ListAnswer, WriteAnswer, Conflict, ReadAnswer,
       PageAnswer, FindAnswer, DetailAnswer, ProjectAnswer, TypesAnswer, SprintsAnswer, BoardAnswer,
       Reads
  <2>2. PICK i, c, n : i = call[k].op.issue /\ c = call[k].client /\ n = call[k].n
    OBVIOUS
  <2>3. /\ IsCall(call[k]) /\ call[k].pc \in {"post", "comment"} /\ Write(k) /\ i \in Issues
        /\ c \in Nat /\ n \in Nat
    BY <2>1, <2>2, RequestCall DEF Sent, Available, ClientInv
  <2>4. call'[k].pc = "done"
    <3>1. CASE Broken(k)
      <4>1. Over(k, Finished(k, "error"), Left(Of(k), k))
        BY <2>3, <3>1 DEF Broken, Failed, Finish
      <4> QED
        BY <2>3, <4>1, FinishedFacts DEF Over
    <3>2. CASE WriteAnswer(k)
      <4>1. PICK w : Over(k, [Finished(k, "ok") EXCEPT !.was = w], Left(Of(k), k))
        BY <3>2 DEF WriteAnswer
      <4>2. IsCall(Finished(k, "ok")) /\ Finished(k, "ok").pc = "done"
        BY <2>3, FinishedFacts
      <4> QED
        BY <4>1, <4>2 DEF Over, IsCall, Fields
    <3> QED
      BY <2>1, <3>1, <3>2
  <2>5. log' = [log EXCEPT ![i] = Append(@, <<c, n>>)] /\ wf' = wf
    BY <2>1, <2>2 DEF Apply
  <2>6. status' \in [Issues -> Statuses]
    <3>1. CASE call[k].pc = "comment"
      BY <2>1, <3>1 DEF Apply, BoardInv
    <3>2. CASE call[k].pc = "post"
      <4> DEFINE t == {x \in Workflows[wf][status[i]] : x[1] = call[k].id}
      <4>1. status' = [status EXCEPT ![i] = (CHOOSE x \in t : TRUE)[2]]
        BY <2>1, <2>2, <3>2 DEF Apply
      <4>2. t # {}
        BY <2>1, <2>2, <3>2 DEF Available
      <4>3. t \subseteq STRING \X Statuses
        <5>1. wf \in 1..Len(Workflows) /\ status[i] \in Statuses
          BY <2>3 DEF BoardInv
        <5>2. Workflows[wf] \in [Statuses -> SUBSET (STRING \X Statuses)]
          BY <5>1, WorkflowAssumption
        <5> QED
          BY <5>1, <5>2
      <4> HIDE DEF t
      <4>4. (CHOOSE x \in t : TRUE) \in t
        BY <4>2
      <4>5. PICK s \in Statuses : s = (CHOOSE x \in t : TRUE)[2]
        BY <4>3, <4>4
      <4> QED
        BY <4>1, <4>5 DEF BoardInv
    <3> QED
      BY <2>3, <3>1, <3>2
  <2>7. \A j \in Issues : log'[j] \in Seq(Nat \X Nat)
    <3>1. <<c, n>> \in Nat \X Nat
      BY <2>3
    <3>2. Append(log[i], <<c, n>>) \in Seq(Nat \X Nat)
      BY <2>3, <3>1 DEF BoardInv
    <3> QED
      BY <2>3, <2>5, <3>2 DEF BoardInv
  <2>8. log' = [j \in Issues |-> log'[j]]
    BY <2>5 DEF BoardInv
  <2> QED
    BY <2>2, <2>3, <2>4, <2>5, <2>6, <2>7, <2>8 DEF BoardInv
<1> QED
  BY <1>1, <1>2

-----------------------------------------------------------------------------
(* The other steps.                                                        *)

AccessInv == CallInv /\ ClientInv /\ BoardInv /\ SlotInv /\ QueueInv /\ LogInv

\* A client changes in its slots, tokens or cache.
LEMMA ClientChanges ==
  ASSUME ClientInv, NEW c \in 1..Len(clients), NEW e, clients' = [clients EXCEPT ![c] = e],
         IsClient(e), e.queues = clients[c].queues, e.added = clients[c].added,
         memo' = memo, cred' = cred
  PROVE  /\ ClientInv' /\ Len(clients') = Len(clients) /\ clients'[c] = e
         /\ \A d \in 1..Len(clients) : d # c => clients'[d] = clients[d]
         /\ \A d \in 1..Len(clients) :
              clients'[d].queues = clients[d].queues /\ clients'[d].added = clients[d].added
<1>1. /\ Len(clients') = Len(clients) /\ clients' = [d \in 1..Len(clients) |-> clients'[d]]
      /\ clients'[c] = e /\ \A d \in 1..Len(clients) : d # c => clients'[d] = clients[d]
  BY ClientReplaced
<1>2. ASSUME NEW d \in 1..Len(clients) PROVE IsClient(clients'[d])
  BY <1>1 DEF ClientInv
<1>3. ClientInv'
  BY <1>1, <1>2 DEF ClientInv, IsClient
<1> QED
  BY <1>1, <1>3

\* Nobody gets or gives up a slot, or begins to wait.
LEMMA SlotStays ==
  ASSUME SlotInv, Len(clients') = Len(clients),
         \A c \in 1..Len(clients) : Holding(c)' = Holding(c) /\ WaitingFor(c)' = WaitingFor(c),
         \A c \in 1..Len(clients) :
           clients'[c].active = clients[c].active /\ clients'[c].waiters = clients[c].waiters
  PROVE  SlotInv'
<1>1. ASSUME NEW c \in 1..Len(clients)
      PROVE  /\ clients'[c].active = Cardinality(Holding(c)') /\ clients'[c].active <= Concurrency
             /\ Distinct(clients'[c].waiters) /\ ToSet(clients'[c].waiters) = WaitingFor(c)'
  BY DEF SlotInv
<1> QED
  BY <1>1 DEF SlotInv, Distinct, ToSet

\* A request moves on between slot, token, answer and sleep.
Moves(k, rq, tries) ==
  \/ call' = [call EXCEPT ![k].rq = rq, ![k].tries = tries]
  \/ call' = [call EXCEPT ![k].rq = rq]

\* The call is the same then, but for its request.
LEMMA RequestMoves ==
  ASSUME CallInv, NEW k \in Calls, call[k].pc \in Requests,
         NEW rq \in {"slot", "token", "sent", "sleep"}, NEW tries \in 0..MaxRetries, Moves(k, rq, tries),
         Len(clients') = Len(clients), pool' = pool
  PROVE  /\ CallInv' /\ call'[k].rq = rq /\ call'[k] # Idle /\ call'[k].client = call[k].client
         /\ \A x \in Calls \ {k} : call'[x] = call[x]
         /\ \A x, c, i : x \in Calls => StaysFor(x, c, i)
         /\ call'[k].pc = call[k].pc /\ Kept(call[k], call'[k]) /\ call'[k].id = call[k].id
         /\ call'[k].res = call[k].res
<1>1. PICK c : c = call[k]
  OBVIOUS
<1>2. PICK d : d = call'[k]
  OBVIOUS
<1>3. call' = [x \in Calls |-> call'[x]] /\ \A x \in Calls \ {k} : call'[x] = call[x]
  BY DEF CallInv, Moves
<1>4. d = [c EXCEPT !.rq = rq, !.tries = tries] \/ d = [c EXCEPT !.rq = rq]
  BY <1>1, <1>2 DEF CallInv, Moves
<1>5. c # Idle /\ Sound(c, Pools[pool].ops, Len(clients)) /\ c.pc \in Requests
  BY <1>1, LiveCall DEF Requests
<1>6. /\ Sound(d, Pools[pool].ops, Len(clients)) /\ d # Idle /\ d.rq = rq /\ d.pc = c.pc
      /\ Kept(c, d) /\ d.id = c.id /\ d.res = c.res
  <2>1. CASE d = [c EXCEPT !.rq = rq, !.tries = tries]
    <3>1. IsCall(c)
      BY <1>5 DEF Sound
    <3>2. IsCall(d)
      BY <2>1, <3>1 DEF IsCall, Fields
    <3>3. d.rq = rq /\ d.pc = c.pc /\ d.tries = tries /\ d.id = c.id /\ d.res = c.res
      BY <2>1, <3>1 DEF IsCall, Fields
    <3>4. Kept(c, d)
      BY <2>1, <3>1 DEF IsCall, Fields, Kept
    <3>5. Sound(d, Pools[pool].ops, Len(clients))
      BY <1>5, <3>2, <3>3, <3>4 DEF Sound, Kept
    <3>6. d # Idle
      BY <1>5, <3>3 DEF Idle, Requests
    <3> QED
      BY <3>3, <3>4, <3>5, <3>6
  <2>2. CASE d = [c EXCEPT !.rq = rq]
    BY <1>5, <2>2, RqSound
  <2> QED
    BY <1>4, <2>1, <2>2
<1>7. \A x \in Calls : call'[x] = Idle \/ Sound(call'[x], Pools[pool].ops, Len(clients))
  BY <1>2, <1>3, <1>6 DEF CallInv
<1>8. CallInv'
  BY <1>3, <1>7 DEF CallInv, Sound, IsCall
<1>9. ASSUME NEW x \in Calls, NEW cc, NEW i PROVE StaysFor(x, cc, i)
  <2>1. /\ call'[x] = Idle <=> call[x] = Idle
        /\ call'[x].op = call[x].op /\ call'[x].client = call[x].client
        /\ call'[x].n = call[x].n /\ call'[x].pc = call[x].pc
    BY <1>1, <1>2, <1>3, <1>5, <1>6 DEF Kept
  <2> QED
    BY <2>1, SamePlaceStays
<1> QED
  BY <1>1, <1>2, <1>3, <1>6, <1>8, <1>9 DEF Kept

\* The slots of one client change.
LEMMA SlotChanges ==
  ASSUME SlotInv, Len(clients') = Len(clients), NEW c \in 1..Len(clients),
         \A d \in 1..Len(clients) : d # c =>
           clients'[d] = clients[d] /\ Holding(d)' = Holding(d) /\ WaitingFor(d)' = WaitingFor(d),
         clients'[c].active = Cardinality(Holding(c)'), clients'[c].active <= Concurrency,
         Distinct(clients'[c].waiters), ToSet(clients'[c].waiters) = WaitingFor(c)'
  PROVE  SlotInv'
<1>1. ASSUME NEW d \in 1..Len(clients)
      PROVE  /\ clients'[d].active = Cardinality(Holding(d)') /\ clients'[d].active <= Concurrency
             /\ Distinct(clients'[d].waiters) /\ ToSet(clients'[d].waiters) = WaitingFor(d)'
  <2>1. CASE d = c
    BY <2>1
  <2>2. CASE d # c
    BY <2>2 DEF SlotInv
  <2> QED
    BY <2>1, <2>2
<1> QED
  BY <1>1 DEF SlotInv, Distinct, ToSet

\* acquireSlot: a free slot is counted, or the call is the last waiter.
LEMMA AcquireSlotKeeps ==
  ASSUME AccessInv, NEW k \in Calls, AcquireSlot(k), UNCHANGED <<cred, memo, board, local>>
  PROVE  AccessInv'
<1> USE DEF AccessInv
<1>1. call[k].pc \in Requests /\ call[k].rq = "no" /\ UNCHANGED jira /\ pool' = pool
  BY DEF AcquireSlot, local
<1>2. PICK c \in 1..Len(clients) : c = call[k].client
  BY <1>1, RequestCall
<1>3. PICK cl : cl = clients[c]
  OBVIOUS
<1>4. IsClient(cl) /\ Of(k) = cl /\ call[k] # Idle
  BY <1>1, <1>2, <1>3, RequestCall DEF Of
<1>5. PICK e : e = IF cl.active < Concurrency THEN [cl EXCEPT !.active = @ + 1]
                   ELSE [cl EXCEPT !.waiters = Append(@, k)]
  OBVIOUS
<1>6. PICK rq \in {"slot", "token"} : rq = IF cl.active < Concurrency THEN "token" ELSE "slot"
  OBVIOUS
<1>7. /\ clients' = [clients EXCEPT ![c] = e]
      /\ call' = [call EXCEPT ![k].rq = rq, ![k].tries = 0]
  BY <1>2, <1>4, <1>5, <1>6 DEF AcquireSlot
<1>8. PICK active \in Nat, waiters \in Seq(Calls) :
        /\ active = IF cl.active < Concurrency THEN cl.active + 1 ELSE cl.active
        /\ waiters = IF cl.active < Concurrency THEN cl.waiters ELSE Append(cl.waiters, k)
  <2>1. cl.active + 1 \in Nat /\ cl.active \in Nat /\ cl.waiters \in Seq(Calls)
        /\ Append(cl.waiters, k) \in Seq(Calls)
    BY <1>4, AppendSet DEF IsClient
  <2> QED
    BY <2>1
<1>9. e = [cl EXCEPT !.active = active, !.waiters = waiters]
  BY <1>4, <1>5, <1>8 DEF IsClient, ClientFields
<1>10. /\ e = [f \in ClientFields |-> e[f]] /\ e.active = active /\ e.waiters = waiters
       /\ e.cred = cl.cred /\ e.tokens = cl.tokens /\ e.queues = cl.queues /\ e.added = cl.added
       /\ e.cache = cl.cache
  BY <1>4, <1>9 DEF IsClient, ClientFields
<1>11. IsClient(e)
  BY <1>4, <1>10 DEF IsClient
<1>12. /\ ClientInv' /\ Len(clients') = Len(clients) /\ clients'[c] = e
       /\ \A d \in 1..Len(clients) : d # c => clients'[d] = clients[d]
       /\ \A d \in 1..Len(clients) :
            clients'[d].queues = clients[d].queues /\ clients'[d].added = clients[d].added
  BY <1>3, <1>7, <1>10, <1>11, ClientChanges
<1>13. 0 \in 0..MaxRetries /\ Moves(k, rq, 0)
  BY <1>7, ClientAssumption DEF Moves
<1>14. /\ CallInv' /\ call'[k].rq = rq /\ call'[k] # Idle /\ call'[k].client = c
       /\ \A x \in Calls \ {k} : call'[x] = call[x]
       /\ \A x, d, i : x \in Calls => StaysFor(x, d, i)
  BY <1>1, <1>2, <1>6, <1>7, <1>12, <1>13, RequestMoves
<1>15. BoardInv' /\ log' = log
  BY <1>1 DEF BoardInv, jira
<1>16. QueueInv' /\ LogInv'
  BY <1>12, <1>14, <1>15, QueueStays
<1>17. \A d \in 1..Len(clients) : d # c =>
         clients'[d] = clients[d] /\ Holding(d)' = Holding(d) /\ WaitingFor(d)' = WaitingFor(d)
  BY <1>2, <1>12, <1>14 DEF Holding, WaitingFor
<1>18. /\ cl.active = Cardinality(Holding(c)) /\ cl.active <= Concurrency /\ cl.active \in Nat
       /\ cl.waiters \in Seq(Calls) /\ Distinct(cl.waiters) /\ ToSet(cl.waiters) = WaitingFor(c)
  BY <1>3, <1>4 DEF SlotInv, IsClient
<1>19. k \notin Holding(c) /\ k \notin WaitingFor(c) /\ IsFiniteSet(Holding(c))
  <2>1. Holding(c) \subseteq Calls
    BY DEF Holding
  <2> QED
    BY <1>1, <2>1, ClientAssumption, FS_Subset DEF Holding, WaitingFor
<1>20. CASE cl.active < Concurrency
  <2>1. Holding(c)' = Holding(c) \cup {k} /\ WaitingFor(c)' = WaitingFor(c)
    BY <1>1, <1>2, <1>4, <1>6, <1>14, <1>20 DEF Holding, WaitingFor
  <2>2. Cardinality(Holding(c) \cup {k}) = Cardinality(Holding(c)) + 1
    BY <1>19, FS_AddElement
  <2>3. e.active = Cardinality(Holding(c)') /\ e.active <= Concurrency /\ e.waiters = cl.waiters
    BY <1>8, <1>10, <1>18, <1>20, <2>1, <2>2, ClientAssumption
  <2>4. SlotInv'
    BY <1>12, <1>17, <1>18, <2>1, <2>3, SlotChanges
  <2> QED
    BY <1>12, <1>14, <1>15, <1>16, <2>4
<1>21. CASE ~(cl.active < Concurrency)
  <2>1. Holding(c)' = Holding(c) /\ WaitingFor(c)' = WaitingFor(c) \cup {k}
    BY <1>1, <1>2, <1>4, <1>6, <1>14, <1>21 DEF Holding, WaitingFor
  <2>2. e.active = cl.active /\ e.waiters = Append(cl.waiters, k)
    BY <1>8, <1>10, <1>21
  <2>3. ToSet(e.waiters) = WaitingFor(c)'
    BY <1>18, <2>1, <2>2, AppendSet
  <2>4. Distinct(e.waiters)
    <3>1. PICK w \in Seq(Calls) : w = cl.waiters
      BY <1>18
    <3>2. k \notin ToSet(w) /\ Distinct(w) /\ Len(w) \in Nat
      BY <1>18, <1>19, <3>1
    <3>3. \A x \in 1..Len(w) : w[x] # k
      BY <3>2 DEF ToSet
    <3>4. /\ Len(e.waiters) = Len(w) + 1 /\ e.waiters[Len(w) + 1] = k
          /\ \A x \in 1..Len(w) : e.waiters[x] = w[x]
      BY <2>2, <3>1, AppendSet
    <3> QED
      BY <3>2, <3>3, <3>4 DEF Distinct
  <2>5. SlotInv'
    BY <1>12, <1>17, <1>18, <2>1, <2>2, <2>3, <2>4, SlotChanges
  <2> QED
    BY <1>12, <1>14, <1>15, <1>16, <2>5
<1> QED
  BY <1>20, <1>21

\* A request that holds its slot goes on with it: a token is taken, a 429 is answered, or the pause
\* after one is over.
LEMMA HolderKeeps ==
  ASSUME AccessInv, NEW k \in Calls, UNCHANGED <<cred, memo, board, local>>,
         AcquireToken(k) \/ Sleep(k) \/ (TooMany(k) /\ call[k].tries < MaxRetries)
  PROVE  AccessInv'
<1> USE DEF AccessInv
<1>1. /\ call[k].pc \in Requests /\ call[k].rq \in {"token", "sent", "sleep"} /\ UNCHANGED jira
      /\ pool' = pool
  BY DEF AcquireToken, Sleep, TooMany, Sent, local
<1>2. PICK c \in 1..Len(clients) : c = call[k].client
  BY <1>1, RequestCall
<1>3. IsClient(clients[c]) /\ Of(k) = clients[c] /\ call[k] # Idle
  BY <1>1, <1>2, RequestCall DEF Of
<1>4. call[k].tries \in 0..MaxRetries
  BY <1>1, LiveCall DEF Requests, Sound
<1>5. \E rq \in {"token", "sent", "sleep"}, tries \in 0..MaxRetries : Moves(k, rq, tries)
  <2>1. CASE AcquireToken(k)
    BY <1>4, <2>1 DEF AcquireToken, Moves
  <2>2. CASE Sleep(k)
    BY <1>4, <2>2 DEF Sleep, Moves
  <2>3. CASE TooMany(k) /\ call[k].tries < MaxRetries
    <3>1. PICK tries : tries = call[k].tries + 1
      OBVIOUS
    <3>2. call' = [call EXCEPT ![k].rq = "sleep", ![k].tries = tries]
      BY <2>3, <3>1 DEF TooMany, CallInv
    <3>3. tries \in 0..MaxRetries
      BY <1>4, <2>3, <3>1, ClientAssumption
    <3> QED
      BY <3>2, <3>3 DEF Moves
  <2> QED
    BY <2>1, <2>2, <2>3
<1>6. PICK rq \in {"token", "sent", "sleep"}, tries \in 0..MaxRetries : Moves(k, rq, tries)
  BY <1>5
<1>7. /\ ClientInv' /\ Len(clients') = Len(clients)
      /\ \A d \in 1..Len(clients) :
           /\ clients'[d].queues = clients[d].queues /\ clients'[d].added = clients[d].added
           /\ clients'[d].active = clients[d].active /\ clients'[d].waiters = clients[d].waiters
  <2>1. CASE AcquireToken(k)
    <3>1. PICK cl : cl = clients[c]
      OBVIOUS
    <3>2. PICK e : e = [cl EXCEPT !.tokens = cl.tokens - 1]
      OBVIOUS
    <3>3. clients' = [clients EXCEPT ![c] = e] /\ cl.tokens - 1 \in 0..MaxRps
      <4>1. clients' = [clients EXCEPT ![c] = e]
        BY <1>2, <2>1, <3>1, <3>2 DEF AcquireToken
      <4>2. cl.tokens >= 1 /\ cl.tokens \in 0..MaxRps
        BY <1>3, <2>1, <3>1 DEF AcquireToken, IsClient
      <4> QED
        BY <4>1, <4>2, ClientAssumption
    <3>4. /\ e = [f \in ClientFields |-> e[f]] /\ e.active = cl.active /\ e.waiters = cl.waiters
          /\ e.cred = cl.cred /\ e.tokens = cl.tokens - 1 /\ e.queues = cl.queues
          /\ e.added = cl.added /\ e.cache = cl.cache
      BY <1>3, <3>1, <3>2 DEF IsClient, ClientFields
    <3>5. IsClient(e)
      BY <1>3, <3>1, <3>3, <3>4 DEF IsClient
    <3>6. e.queues = clients[c].queues /\ e.added = clients[c].added
      BY <3>1, <3>4
    <3>7. /\ ClientInv' /\ Len(clients') = Len(clients) /\ clients'[c] = e
          /\ \A d \in 1..Len(clients) : d # c => clients'[d] = clients[d]
      BY <3>3, <3>5, <3>6, ClientChanges
    <3> QED
      BY <3>1, <3>4, <3>7
  <2>2. CASE UNCHANGED clients
    BY <2>2 DEF ClientInv
  <2> QED
    BY <2>1, <2>2 DEF Sleep, TooMany
<1>8. /\ CallInv' /\ call'[k].rq = rq /\ call'[k] # Idle /\ call'[k].client = call[k].client
      /\ \A x \in Calls \ {k} : call'[x] = call[x]
      /\ \A x, d, i : x \in Calls => StaysFor(x, d, i)
  BY <1>1, <1>6, <1>7, RequestMoves
<1>9. BoardInv' /\ log' = log
  BY <1>1 DEF BoardInv, jira
<1>10. QueueInv' /\ LogInv'
  BY <1>7, <1>8, <1>9, QueueStays
<1>11. \A d \in 1..Len(clients) : Holding(d)' = Holding(d) /\ WaitingFor(d)' = WaitingFor(d)
  BY <1>1, <1>3, <1>6, <1>8 DEF Holding, WaitingFor
<1>12. SlotInv'
  BY <1>7, <1>11, SlotStays
<1> QED
  BY <1>7, <1>8, <1>9, <1>10, <1>12

\* One call changes, and its new state is a sound one.
LEMMA CallChanges ==
  ASSUME CallInv, NEW k \in Calls, NEW d, call' = [call EXCEPT ![k] = d],
         d = Idle \/ Sound(d, Pools[pool].ops, Len(clients)),
         Len(clients') = Len(clients), pool' = pool
  PROVE  CallInv' /\ call'[k] = d /\ \A x \in Calls \ {k} : call'[x] = call[x]
<1>1. /\ call' = [x \in Calls |-> call'[x]] /\ call'[k] = d
      /\ \A x \in Calls \ {k} : call'[x] = call[x]
  BY DEF CallInv
<1>2. \A x \in Calls : call'[x] = Idle \/ Sound(call'[x], Pools[pool].ops, Len(clients))
  BY <1>1 DEF CallInv
<1> QED
  BY <1>1, <1>2 DEF CallInv, Sound, IsCall

\* The first write of a queue begins.
LEMMA DequeueKeeps ==
  ASSUME AccessInv, NEW k \in Calls, Dequeue(k), UNCHANGED <<cred, memo, board, local>>
  PROVE  AccessInv'
<1> USE DEF AccessInv
<1>1. PICK a, c, i : a = call[k] /\ c = a.client /\ i = a.op.issue
  OBVIOUS
<1>2. /\ a.pc = "queued" /\ k = Head(QueueOf(c, i)) /\ UNCHANGED <<clients, jira>> /\ pool' = pool
  BY <1>1 DEF Dequeue, Of, QueueOf, local
<1>3. /\ a # Idle /\ IsCall(a) /\ a.pc \in Stages[a.op.kind] /\ a.op.kind \in DOMAIN Stages
      /\ Sound(a, Pools[pool].ops, Len(clients)) /\ a.client \in 1..Len(clients)
  BY <1>1, <1>2, RequestCall, LiveCall
<1>4. PICK pc : pc = IF a.op.kind = "comment" THEN "comment" ELSE "context"
  OBVIOUS
<1>5. PICK d : d = [a EXCEPT !.pc = pc]
  OBVIOUS
<1>6. call' = [call EXCEPT ![k] = d]
  BY <1>1, <1>4, <1>5 DEF Dequeue
<1>7. pc \in Stages[a.op.kind] /\ pc \in Requests /\ pc \notin {"idle", "row", "client", "done", "queued"}
  BY <1>2, <1>3, <1>4 DEF Stages, Requests
<1>8. /\ IsCall(d) /\ d.pc = pc /\ Kept(a, d) /\ d.rq = a.rq /\ d.tries = a.tries
  <2>1. IsCall(d)
    BY <1>3, <1>5 DEF IsCall, Fields
  <2>2. d.pc = pc /\ d.rq = a.rq /\ d.tries = a.tries
    BY <1>3, <1>5 DEF IsCall, Fields
  <2>3. Kept(a, d)
    BY <1>3, <1>5 DEF IsCall, Fields, Kept
  <2> QED
    BY <2>1, <2>2, <2>3
<1>9. d # Idle /\ Sound(d, Pools[pool].ops, Len(clients)) /\ a.rq = "no"
  <2>1. d # Idle
    BY <1>7, <1>8 DEF Idle
  <2>2. a.rq = "no"
    BY <1>2, <1>3 DEF Sound, Requests
  <2> QED
    BY <1>3, <1>7, <1>8, <2>1, <2>2 DEF Sound, Kept
<1>10. CallInv' /\ call'[k] = d /\ \A x \in Calls \ {k} : call'[x] = call[x]
  <2>1. Len(clients') = Len(clients)
    BY <1>2
  <2> QED
    BY <1>2, <1>6, <1>9, <2>1, CallChanges
<1>11. ClientInv' /\ BoardInv' /\ log' = log
  BY <1>2 DEF ClientInv, BoardInv, jira
<1>12. ASSUME NEW x \in Calls, NEW e, NEW j PROVE StaysFor(x, e, j)
  <2>1. CASE x = k
    <3>1. /\ call[x] = a /\ call'[x] = d /\ a # Idle /\ d # Idle
          /\ a.pc = "queued" /\ d.pc # "done" /\ x = Head(QueueOf(a.client, a.op.issue))
      BY <1>1, <1>2, <1>3, <1>7, <1>8, <1>9, <1>10, <2>1
    <3>2. d.op = a.op /\ d.client = a.client /\ d.n = a.n
      BY <1>8 DEF Kept
    <3>3. /\ Submitted(x, e, j)' <=> Submitted(x, e, j)
          /\ Writing(x, e, j)' <=> Writing(x, e, j)
          /\ Writing(x, e, j)' => a.client = e /\ a.op.issue = j
      BY <3>1, <3>2 DEF Submitted, Writing
    <3> QED
      BY <3>1, <3>2, <3>3 DEF StaysFor
  <2>2. CASE x # k
    BY <1>10, <2>2 DEF StaysFor, Submitted, Writing
  <2> QED
    BY <2>1, <2>2
<1>13. QueueInv' /\ LogInv'
  BY <1>2, <1>11, <1>12, QueueStays
<1>14. \A e \in 1..Len(clients) : Holding(e)' = Holding(e) /\ WaitingFor(e)' = WaitingFor(e)
  BY <1>1, <1>8, <1>9, <1>10 DEF Holding, WaitingFor
<1>15. SlotInv'
  BY <1>2, <1>14, SlotStays
<1> QED
  BY <1>10, <1>11, <1>13, <1>15

\* A call that has no client yet, or is done, begins, reads its row or comes back.
LEMMA QuietCall ==
  ASSUME AccessInv, NEW k \in Calls, NEW d, call' = [call EXCEPT ![k] = d],
         call[k] = Idle \/ call[k].pc \in {"row", "client", "done"},
         d = Idle \/ (Sound(d, Pools[pool].ops, Len(clients)) /\ d.client = 0 /\ d.rq = "no"),
         UNCHANGED <<clients, jira, cred, memo, pool>>
  PROVE  AccessInv'
<1> USE DEF AccessInv
<1>1. CallInv' /\ call'[k] = d /\ \A x \in Calls \ {k} : call'[x] = call[x]
  <2>1. Len(clients') = Len(clients)
    OBVIOUS
  <2> QED
    BY <2>1, CallChanges
<1>2. ClientInv' /\ BoardInv' /\ log' = log
  BY DEF ClientInv, BoardInv, jira
<1>3. call[k] = Idle \/ (call[k].rq = "no" /\ (call[k].client = 0 \/ call[k].pc = "done"))
  BY DEF CallInv, Sound, Requests
<1>4. ASSUME NEW x \in Calls, NEW c \in 1..Len(clients), NEW i \in Issues PROVE StaysFor(x, c, i)
  <2>1. CASE x = k
    BY <1>1, <1>3, <2>1 DEF StaysFor, Submitted, Writing
  <2>2. CASE x # k
    BY <1>1, <2>2 DEF StaysFor, Submitted, Writing
  <2> QED
    BY <2>1, <2>2
<1>5. QueueInv' /\ LogInv'
  BY <1>2, <1>4, QueueStays
<1>6. \A c \in 1..Len(clients) : Holding(c)' = Holding(c) /\ WaitingFor(c)' = WaitingFor(c)
  BY <1>1, <1>3 DEF Holding, WaitingFor
<1>7. SlotInv'
  BY <1>6, SlotStays
<1> QED
  BY <1>1, <1>2, <1>5, <1>7

\* A call as it begins, or answered from the cached statuses.
Begun(op) == {NewCall(op), [NewCall(op) EXCEPT !.pc = "done", !.res = "ok", !.list = board]}

\* It is a sound one.
LEMMA NewCallSound ==
  ASSUME CallInv, ClientInv, NEW op \in Pools[pool].ops, NEW d \in Begun(op)
  PROVE  Sound(d, Pools[pool].ops, Len(clients)) /\ d.client = 0 /\ d.rq = "no"
<1>1. PICK c : c = NewCall(op)
  OBVIOUS
<1>2. IsCall(c)
  BY <1>1 DEF NewCall, IsCall, Fields
<1>3. /\ c.op = op /\ c.pc = "row" /\ c.rq = "no" /\ c.tries = 0 /\ c.client = 0 /\ c.seen = 0
      /\ c.n = 0 /\ c.out = {}
  BY <1>1 DEF NewCall
<1>4. /\ IsCall(d) /\ d.op = op /\ d.pc \in {"row", "done"} /\ d.rq = "no" /\ d.tries = 0
      /\ d.client = 0 /\ d.seen = 0 /\ d.n = 0 /\ d.out = {}
  BY <1>1, <1>2, <1>3 DEF Begun, IsCall, Fields
<1>5. "row" \notin Stages[op.kind] /\ "done" \notin Stages[op.kind]
  <2>1. op.kind \in DOMAIN Stages
    BY OpsAssumption DEF CallInv, Stages
  <2> QED
    BY <2>1 DEF Stages
<1> QED
  BY <1>4, <1>5, ClientAssumption DEF Sound, ClientInv

\* Calls begin, read the row, and come back.
LEMMA CallerKeeps ==
  ASSUME AccessInv, NEW k \in Calls, Begin(k) \/ ReadRow(k) \/ Return(k)
  PROVE  AccessInv'
<1> USE DEF AccessInv
<1>1. UNCHANGED <<clients, jira, cred, memo, pool>>
  BY DEF Begin, ReadRow, Return, local
<1>2. CASE Begin(k)
  <2>0. PICK op \in Pools[pool].ops :
          call' = [call EXCEPT ![k] =
            IF Cached(op) THEN [NewCall(op) EXCEPT !.pc = "done", !.res = "ok", !.list = board]
            ELSE NewCall(op)]
    BY <1>2 DEF Begin
  <2>1. PICK d \in Begun(op) : call' = [call EXCEPT ![k] = d]
    BY <2>0 DEF Begun
  <2>2. Sound(d, Pools[pool].ops, Len(clients)) /\ d.client = 0 /\ d.rq = "no"
    BY <2>1, NewCallSound
  <2>3. call[k] = Idle
    BY <1>2 DEF Begin
  <2> QED
    BY <1>1, <2>1, <2>2, <2>3, QuietCall
<1>3. CASE ReadRow(k)
  <2>1. PICK a : a = call[k]
    OBVIOUS
  <2>2. a.pc = "row" /\ Sound(a, Pools[pool].ops, Len(clients))
    BY <1>3, <2>1, LiveCall DEF ReadRow
  <2>3. PICK d : /\ d = [a EXCEPT !.pc = "done", !.res = "auth"] \/ d = [a EXCEPT !.pc = "client", !.seen = cred]
                 /\ call' = [call EXCEPT ![k] = d]
    BY <1>3, <2>1 DEF ReadRow
  <2>4. /\ IsCall(d) /\ d.pc \in {"client", "done"} /\ d.rq = a.rq /\ d.tries = a.tries
        /\ d.op = a.op /\ d.client = a.client /\ d.seen \in {a.seen, cred} /\ d.n = a.n
        /\ d.out = a.out
    BY <2>2, <2>3 DEF Sound, IsCall, Fields
  <2>5. a.client = 0 /\ a.rq = "no"
    BY <2>2 DEF Sound, Requests
  <2>6. "client" \notin Stages[a.op.kind] /\ "done" \notin Stages[a.op.kind]
    <3>1. a.op.kind \in DOMAIN Stages
      BY <2>1, <2>2, LiveCall
    <3> QED
      BY <3>1 DEF Stages
  <2>7. Sound(d, Pools[pool].ops, Len(clients)) /\ d.client = 0 /\ d.rq = "no"
    BY <2>2, <2>4, <2>5, <2>6 DEF Sound, ClientInv
  <2> QED
    BY <1>1, <2>1, <2>2, <2>3, <2>7, QuietCall
<1>4. CASE Return(k)
  <2>1. call[k].pc = "done" /\ call' = [call EXCEPT ![k] = Idle]
    BY <1>4 DEF Return
  <2> QED
    BY <1>1, <2>1, QuietCall
<1> QED
  BY <1>2, <1>3, <1>4

\* A step of the limiter's clock, of the cache or of somebody else, that no call takes.
LEMMA OthersKeep ==
  ASSUME AccessInv,
         \/ Refilling \/ TransitionsExpire \/ Rotate \/ EditWorkflow \/ BoardExpires
         \/ \E i \in Issues : MoveByHand(i)
  PROVE  AccessInv' /\ UNCHANGED <<call, log, pool>>
<1> USE DEF AccessInv
<1>1. UNCHANGED <<call, log, pool>>
  BY DEF Refilling, TransitionsExpire, Rotate, EditWorkflow, BoardExpires, MoveByHand, Refill,
     CacheExpires, jira, local
<1>2. /\ ClientInv' /\ Len(clients') = Len(clients)
      /\ \A d \in 1..Len(clients) :
           /\ clients'[d].queues = clients[d].queues /\ clients'[d].added = clients[d].added
           /\ clients'[d].active = clients[d].active /\ clients'[d].waiters = clients[d].waiters
  <2>1. CASE UNCHANGED clients
    <3>1. cred' \in Nat /\ memo' = memo
      BY DEF Refilling, TransitionsExpire, Rotate, EditWorkflow, BoardExpires, MoveByHand, ClientInv
    <3> QED
      BY <2>1, <3>1 DEF ClientInv
  <2>2. CASE Refilling \/ TransitionsExpire
    <3>1. PICK c \in DOMAIN clients : Refill(c) \/ \E s \in Statuses : CacheExpires(c, s)
      BY <2>2 DEF Refilling, TransitionsExpire
    <3>2. c \in 1..Len(clients) /\ IsClient(clients[c])
      BY <3>1 DEF ClientInv
    <3>3. PICK cl : cl = clients[c]
      OBVIOUS
    <3>4. \E e : /\ clients' = [clients EXCEPT ![c] = e] /\ IsClient(e) /\ e.queues = cl.queues
                 /\ e.added = cl.added /\ e.active = cl.active /\ e.waiters = cl.waiters
      <4>1. CASE Refill(c)
        <5>1. PICK e : e = [cl EXCEPT !.tokens = cl.tokens + 1]
          OBVIOUS
        <5>2. clients' = [clients EXCEPT ![c] = e]
          BY <3>3, <4>1, <5>1 DEF Refill
        <5>3. cl.tokens < MaxRps /\ cl.tokens \in 0..MaxRps
          BY <3>2, <3>3, <4>1 DEF Refill, IsClient
        <5>4. cl.tokens + 1 \in 0..MaxRps
          BY <5>3, ClientAssumption
        <5>5. /\ e = [f \in ClientFields |-> e[f]] /\ e.active = cl.active /\ e.waiters = cl.waiters
              /\ e.cred = cl.cred /\ e.tokens = cl.tokens + 1 /\ e.queues = cl.queues
              /\ e.added = cl.added /\ e.cache = cl.cache
          BY <3>2, <3>3, <5>1 DEF IsClient, ClientFields
        <5>6. IsClient(e)
          BY <3>2, <3>3, <5>4, <5>5 DEF IsClient
        <5> QED
          BY <5>2, <5>5, <5>6
      <4>2. CASE \E s \in Statuses : CacheExpires(c, s)
        <5>1. PICK s \in Statuses : clients' = [clients EXCEPT ![c] = [cl EXCEPT !.cache[s] = Uncached]]
          BY <3>3, <4>2 DEF CacheExpires
        <5>2. Like([cl EXCEPT !.cache[s] = Uncached], cl)
          BY <3>2, <3>3, CacheLike
        <5> QED
          BY <5>1, <5>2 DEF Like
      <4> QED
        BY <3>1, <4>1, <4>2
    <3>5. PICK e : /\ clients' = [clients EXCEPT ![c] = e] /\ IsClient(e) /\ e.queues = cl.queues
                   /\ e.added = cl.added /\ e.active = cl.active /\ e.waiters = cl.waiters
      BY <3>4
    <3>6. e.queues = clients[c].queues /\ e.added = clients[c].added
      BY <3>3, <3>5
    <3>7. memo' = memo /\ cred' = cred
      BY <2>2 DEF Refilling, TransitionsExpire
    <3>8. /\ ClientInv' /\ Len(clients') = Len(clients) /\ clients'[c] = e
          /\ \A d \in 1..Len(clients) : d # c => clients'[d] = clients[d]
      BY <3>2, <3>5, <3>6, <3>7, ClientChanges
    <3> QED
      BY <3>3, <3>5, <3>8
  <2> QED
    BY <2>1, <2>2 DEF Rotate, EditWorkflow, BoardExpires, MoveByHand
<1>3. BoardInv'
  <2>1. CASE \E i \in Issues : MoveByHand(i)
    <3>1. PICK i \in Issues : MoveByHand(i)
      BY <2>1
    <3>2. PICK t \in Workflows[wf][status[i]] : status' = [status EXCEPT ![i] = t[2]]
      BY <3>1 DEF MoveByHand
    <3>3. Workflows[wf] \in [Statuses -> SUBSET (STRING \X Statuses)] /\ status[i] \in Statuses
      BY <3>1, WorkflowAssumption DEF BoardInv
    <3>4. t \in STRING \X Statuses
      BY <3>2, <3>3
    <3>5. t[2] \in Statuses /\ wf' = wf
      BY <3>1, <3>4 DEF MoveByHand
    <3> QED
      BY <1>1, <3>2, <3>5 DEF BoardInv
  <2>2. CASE EditWorkflow
    <3>1. Len(Workflows) \in Nat
      BY WorkflowAssumption
    <3> QED
      BY <1>1, <2>2, <3>1 DEF BoardInv, EditWorkflow
  <2>3. CASE UNCHANGED jira
    BY <2>3 DEF BoardInv, jira
  <2> QED
    BY <2>1, <2>2, <2>3 DEF Refilling, TransitionsExpire, Rotate, BoardExpires, Refill, CacheExpires
<1>4. CallInv'
  BY <1>1, <1>2 DEF CallInv, Sound, IsCall
<1>5. \A x \in Calls, c \in 1..Len(clients), i \in Issues : StaysFor(x, c, i)
  BY <1>1 DEF StaysFor, Submitted, Writing
<1>6. QueueInv' /\ LogInv'
  BY <1>1, <1>2, <1>5, QueueStays
<1>7. \A c \in 1..Len(clients) : Holding(c)' = Holding(c) /\ WaitingFor(c)' = WaitingFor(c)
  BY <1>1 DEF Holding, WaitingFor
<1>8. SlotInv'
  BY <1>2, <1>7, SlotStays
<1> QED
  BY <1>1, <1>2, <1>3, <1>4, <1>6, <1>8

-----------------------------------------------------------------------------
(* A call gets its client.                                                 *)

\* QueueSound with the queue and the number of submissions as parameters, so that it can be said of
\* a client that is about to be built.
QueueOk(c, i, q, add) ==
  /\ \A x \in Calls : x \in ToSet(q) <=> Writing(x, c, i)
  /\ \A x, y \in 1..Len(q) : x < y => call[q[x]].n < call[q[y]].n
  /\ \A x \in Calls : Writing(x, c, i) /\ call[x].pc # "queued" => x = Head(q)
  /\ \A x \in Calls : Submitted(x, c, i) => call[x].n <= add
  /\ \A x, y \in Calls : Submitted(x, c, i) /\ Submitted(y, c, i) /\ x # y => call[x].n # call[y].n
  /\ \A p \in 1..Len(log[i]) : log[i][p][1] = c =>
       /\ log[i][p][2] <= add
       /\ \A x \in Calls : Writing(x, c, i) => log[i][p][2] < call[x].n

\* What matters of call x to the queue of issue i of client c is as it was.
SameFor(x, c, i) ==
  /\ Submitted(x, c, i)' <=> Submitted(x, c, i)
  /\ Writing(x, c, i)' <=> Writing(x, c, i)
  /\ Submitted(x, c, i) => call'[x].n = call[x].n /\ call'[x].pc = call[x].pc

\* A queue that nothing happens to.
LEMMA OkStays ==
  ASSUME NEW c, NEW i, NEW q \in Seq(Calls), NEW add \in Nat, QueueOk(c, i, q, add), log' = log,
         \A x \in Calls : SameFor(x, c, i)
  PROVE  QueueOk(c, i, q, add)'
<1>1. \A x \in 1..Len(q) : q[x] \in Calls /\ call'[q[x]].n = call[q[x]].n
  <2>1. \A x \in 1..Len(q) : q[x] \in Calls /\ q[x] \in ToSet(q)
    BY DEF ToSet
  <2> QED
    BY <2>1 DEF QueueOk, SameFor, Writing
<1>2. \A x \in Calls : x \in ToSet(q) <=> Writing(x, c, i)'
  BY DEF QueueOk, SameFor
<1>3. \A x, y \in 1..Len(q) : x < y => call'[q[x]].n < call'[q[y]].n
  BY <1>1 DEF QueueOk
<1>4. \A x \in Calls : Writing(x, c, i)' /\ call'[x].pc # "queued" => x = Head(q)
  BY DEF QueueOk, SameFor, Writing
<1>5. \A x \in Calls : Submitted(x, c, i)' => call'[x].n <= add
  BY DEF QueueOk, SameFor
<1>6. \A x, y \in Calls :
        Submitted(x, c, i)' /\ Submitted(y, c, i)' /\ x # y => call'[x].n # call'[y].n
  BY DEF QueueOk, SameFor
<1>7. \A p \in 1..Len(log'[i]) : log'[i][p][1] = c =>
        /\ log'[i][p][2] <= add
        /\ \A x \in Calls : Writing(x, c, i)' => log'[i][p][2] < call'[x].n
  BY DEF QueueOk, SameFor, Writing
<1> QED
  BY <1>2, <1>3, <1>4, <1>5, <1>6, <1>7 DEF QueueOk, ToSet

\* A write is submitted: it is last, and its number is above all others.
LEMMA OkSubmits ==
  ASSUME NEW c, NEW i \in Issues, NEW q \in Seq(Calls), NEW add \in Nat, QueueOk(c, i, q, add),
         CallInv, BoardInv, log' = log, NEW k \in Calls, ~Submitted(k, c, i), Submitted(k, c, i)',
         call'[k].pc = "queued", call'[k].n = add + 1,
         \A x \in Calls \ {k} : SameFor(x, c, i)
  PROVE  QueueOk(c, i, Append(q, k), add + 1)'
<1>0. PICK s : s = Append(q, k)
  OBVIOUS
<1>1. /\ s \in Seq(Calls) /\ Len(s) = Len(q) + 1 /\ ToSet(s) = ToSet(q) \cup {k}
      /\ \A x \in 1..Len(q) : s[x] = q[x]
      /\ s[Len(q) + 1] = k /\ Len(q) \in Nat
  BY <1>0, AppendSet
<1>2. \A x \in Calls : Submitted(x, c, i) => call[x].n \in Nat /\ call[x].n <= add
  BY DEF QueueOk, CallInv, Sound, Submitted
<1>3. k \notin ToSet(q) /\ Writing(k, c, i)'
  BY DEF QueueOk, Writing
<1>4. \A x \in 1..Len(q) :
        q[x] \in Calls /\ q[x] # k /\ Submitted(q[x], c, i) /\ call'[q[x]].n = call[q[x]].n
  <2>1. \A x \in 1..Len(q) : q[x] \in Calls /\ q[x] \in ToSet(q)
    BY DEF ToSet
  <2> QED
    BY <1>3, <2>1 DEF QueueOk, SameFor, Writing
<1>5. \A x \in Calls : x \in ToSet(s) <=> Writing(x, c, i)'
  BY <1>1, <1>3 DEF QueueOk, SameFor
<1>6. ASSUME NEW x \in 1..Len(s), NEW y \in 1..Len(s), x < y PROVE call'[s[x]].n < call'[s[y]].n
  <2>1. x \in 1..Len(q) /\ s[x] = q[x]
    BY <1>1, <1>6
  <2>2. CASE y \in 1..Len(q)
    BY <1>1, <1>4, <1>6, <2>1, <2>2 DEF QueueOk
  <2>3. CASE y = Len(q) + 1
    <3>1. call'[s[x]].n = call[q[x]].n /\ call[q[x]].n \in Nat /\ call[q[x]].n <= add
      BY <1>2, <1>4, <2>1
    <3>2. call'[s[y]].n = add + 1
      BY <1>1, <2>3
    <3> QED
      BY <3>1, <3>2
  <2> QED
    BY <1>1, <2>2, <2>3
<1>7. ASSUME NEW x \in Calls, Writing(x, c, i)', call'[x].pc # "queued" PROVE x = Head(s)
  <2>1. x # k /\ Writing(x, c, i) /\ call[x].pc # "queued"
    BY <1>7 DEF SameFor, Writing
  <2>2. x = Head(q) /\ x \in ToSet(q)
    BY <2>1 DEF QueueOk
  <2>3. Len(q) # 0
    BY <2>2 DEF ToSet
  <2>4. Head(s) = s[1] /\ Head(q) = q[1] /\ 1 \in 1..Len(q)
    BY <1>1, <2>3
  <2> QED
    BY <1>1, <2>2, <2>4
<1>8. \A x \in Calls : Submitted(x, c, i)' => call'[x].n <= add + 1
  BY <1>2 DEF SameFor
<1>9. \A x \in Calls \ {k} : Submitted(x, c, i)' =>
        Submitted(x, c, i) /\ call'[x].n = call[x].n /\ call'[x].n \in Nat /\ call'[x].n <= add
  BY <1>2 DEF SameFor
<1>10. ASSUME NEW x \in Calls, NEW y \in Calls, Submitted(x, c, i)', Submitted(y, c, i)', x # y
       PROVE  call'[x].n # call'[y].n
  BY <1>9, <1>10 DEF QueueOk
<1>11. ASSUME NEW p \in 1..Len(log'[i]), log'[i][p][1] = c
       PROVE  /\ log'[i][p][2] <= add + 1
              /\ \A x \in Calls : Writing(x, c, i)' => log'[i][p][2] < call'[x].n
  <2>1. log'[i][p] = log[i][p] /\ log[i][p] \in Nat \X Nat /\ p \in 1..Len(log[i])
    BY <1>11 DEF BoardInv
  <2>2. /\ log[i][p][2] \in Nat /\ log[i][p][2] <= add
        /\ \A x \in Calls : Writing(x, c, i) => log[i][p][2] < call[x].n
    BY <1>11, <2>1 DEF QueueOk
  <2>3. ASSUME NEW x \in Calls, Writing(x, c, i)' PROVE log'[i][p][2] < call'[x].n
    <3>1. CASE x = k
      BY <2>1, <2>2, <3>1
    <3>2. CASE x # k
      <4>1. Writing(x, c, i) /\ call'[x].n = call[x].n
        BY <2>3, <3>2 DEF SameFor, Writing
      <4> QED
        BY <2>1, <2>2, <4>1
    <3> QED
      BY <3>1, <3>2
  <2> QED
    BY <2>1, <2>2, <2>3
<1>12. QueueOk(c, i, s, add + 1)'
  BY <1>5, <1>6, <1>7, <1>8, <1>10, <1>11 DEF QueueOk, ToSet
<1> QED
  BY <1>0, <1>12

\* The client as it is built, and with a write submitted to it.
LEMMA BuiltClient ==
  ASSUME NEW v \in Nat
  PROVE  /\ IsClient(NewClient(v)) /\ NewClient(v).active = 0 /\ NewClient(v).waiters = <<>>
         /\ NewClient(v).cred = v
         /\ \A i \in Issues : NewClient(v).queues[i] = <<>> /\ NewClient(v).added[i] = 0
         /\ \A s \in Statuses : NewClient(v).cache[s] = Uncached
<1>1. PICK e : e = NewClient(v)
  OBVIOUS
<1>2. PICK no, none : no = <<>> /\ none = Uncached
  OBVIOUS
<1>3. /\ e = [f \in ClientFields |-> e[f]] /\ e.cred = v /\ e.active = 0 /\ e.waiters = no
      /\ e.tokens = MaxRps /\ e.queues = [i \in Issues |-> no] /\ e.added = [i \in Issues |-> 0]
      /\ e.cache = [s \in Statuses |-> none]
  BY <1>1, <1>2 DEF NewClient, ClientFields
<1>4. no \in Seq(Calls) /\ MaxRps \in 0..MaxRps /\ 0 \in Nat
  BY <1>2, ClientAssumption
<1>5. /\ e.queues \in [Issues -> Seq(Calls)] /\ e.added \in [Issues -> Nat]
      /\ e.cache = [s \in Statuses |-> e.cache[s]]
  BY <1>3, <1>4
<1>6. IsClient(e)
  BY <1>3, <1>4, <1>5 DEF IsClient
<1> QED
  BY <1>1, <1>2, <1>3, <1>6

\* Call k is the last of the queue of issue i.
Submits(cl, own, i, k) ==
  /\ IsClient(own) /\ own.active = cl.active /\ own.waiters = cl.waiters /\ own.cred = cl.cred
  /\ own.cache = cl.cache
  /\ own.queues = [cl.queues EXCEPT ![i] = Append(@, k)] /\ own.added = [cl.added EXCEPT ![i] = @ + 1]

\* PerIssueWriteQueue: a write goes to the end of the queue of its issue.
LEMMA SubmitFacts ==
  ASSUME NEW c, NEW cl, IsClient(cl), c.op.issue \in Issues, NEW k \in Calls
  PROVE  Submits(cl, Submit(c, cl, k), c.op.issue, k)
<1>1. PICK i, e : i = c.op.issue /\ e = Submit(c, cl, k)
  OBVIOUS
<1>2. PICK q, n : q = [cl.queues EXCEPT ![i] = Append(@, k)] /\ n = [cl.added EXCEPT ![i] = @ + 1]
  OBVIOUS
<1>3. e = [cl EXCEPT !.queues = q, !.added = n]
  BY <1>1, <1>2 DEF Submit, IsClient, ClientFields
<1>4. Append(cl.queues[i], k) \in Seq(Calls) /\ cl.added[i] + 1 \in Nat
  BY <1>1, AppendSet DEF IsClient
<1>5. q \in [Issues -> Seq(Calls)] /\ n \in [Issues -> Nat]
  BY <1>2, <1>4 DEF IsClient
<1>6. /\ e = [f \in ClientFields |-> e[f]] /\ e.cred = cl.cred /\ e.active = cl.active
      /\ e.waiters = cl.waiters /\ e.tokens = cl.tokens /\ e.queues = q /\ e.added = n
      /\ e.cache = cl.cache
  BY <1>3 DEF IsClient, ClientFields
<1>7. IsClient(e)
  BY <1>5, <1>6 DEF IsClient
<1> QED
  BY <1>1, <1>2, <1>6, <1>7 DEF Submits

\* What ResolveClient does: call k goes to client id, which is cl but for the write it submits.
Resolves(k, id, cl, own, d) ==
  /\ call' = [call EXCEPT ![k] = d]
  /\ \/ id \in 1..Len(clients) /\ cl = clients[id] /\ clients' = [clients EXCEPT ![id] = own]
     \/ id = Len(clients) + 1 /\ cl = NewClient(call[k].seen) /\ clients' = Append(clients, own)
  /\ own = IF Write(k) THEN Submit(call[k], cl, k) ELSE cl
  /\ IsClient(cl) /\ IsClient(own) /\ cl.cred = call[k].seen /\ own.cred = cl.cred
  /\ own.active = cl.active /\ own.waiters = cl.waiters /\ own.cache = cl.cache
  /\ IsCall(d) /\ d.op = call[k].op /\ d.pc = FirstOf(d.op) /\ d.rq = "no" /\ d.client = id
  /\ d.seen = 0 /\ d.tries = call[k].tries /\ d.out = call[k].out
  /\ d.asOf = call[k].asOf /\ d.since = call[k].since /\ d.res = call[k].res
  /\ d.n = IF Write(k) THEN own.added[call[k].op.issue] ELSE 0
  /\ memo' = [memo EXCEPT ![call[k].op.via] = id]

\* The step in the form the proofs below use.
LEMMA ResolveForm ==
  ASSUME CallInv, ClientInv, NEW k \in Calls, ResolveClient(k)
  PROVE  \E id, cl, own, d : Resolves(k, id, cl, own, d)
<1>1. PICK a : a = call[k]
  OBVIOUS
<1>2. /\ a.pc = "client" /\ Sound(a, Pools[pool].ops, Len(clients)) /\ IsCall(a)
      /\ a.op.via \in {"lazy", "factory"} /\ (Write(k) => a.op.issue \in Issues)
  BY <1>1, LiveCall DEF ResolveClient
<1>3. PICK use : use = Reusable(a.op.via, a.seen)
  OBVIOUS
<1>4. PICK id : id = IF use THEN memo[a.op.via] ELSE Len(clients) + 1
  OBVIOUS
<1>5. PICK cl : cl = IF use THEN clients[id] ELSE NewClient(a.seen)
  OBVIOUS
<1>6. PICK own : own = IF Write(k) THEN Submit(a, cl, k) ELSE cl
  OBVIOUS
<1>7. PICK d : d = [a EXCEPT !.pc = FirstOf(a.op), !.client = id, !.seen = 0,
                             !.n = IF Write(k) THEN own.added[a.op.issue] ELSE 0]
  OBVIOUS
<1>8. /\ clients' = IF use THEN [clients EXCEPT ![id] = own] ELSE Append(clients, own)
      /\ memo' = [memo EXCEPT ![a.op.via] = id]
      /\ call' = [call EXCEPT ![k] = d]
  BY <1>1, <1>3, <1>4, <1>5, <1>6, <1>7 DEF ResolveClient
<1>9. use => id \in 1..Len(clients) /\ clients[id].cred = a.seen
  <2>1. ASSUME Reusable(a.op.via, a.seen)
        PROVE  memo[a.op.via] \in 1..Len(clients) /\ clients[memo[a.op.via]].cred = a.seen
    BY <1>2, <2>1 DEF Reusable, ClientInv
  <2> QED
    BY <1>3, <1>4, <2>1
<1>10. a.seen \in Nat /\ a.rq = "no"
  BY <1>2 DEF Sound, Requests
<1>11. IsClient(cl) /\ cl.cred = a.seen
  <2>1. CASE use
    BY <1>5, <1>9, <2>1 DEF ClientInv
  <2>2. CASE ~use
    BY <1>5, <1>10, <2>2, BuiltClient
  <2> QED
    BY <2>1, <2>2
<1>12. /\ IsClient(own) /\ own.cred = cl.cred /\ own.active = cl.active
       /\ own.waiters = cl.waiters /\ own.cache = cl.cache
  <2>1. CASE Write(k)
    <3>1. own = Submit(a, cl, k) /\ a.op.issue \in Issues
      BY <1>2, <1>6, <2>1
    <3>2. Submits(cl, own, a.op.issue, k)
      BY <1>11, <3>1, SubmitFacts
    <3> QED
      BY <3>2 DEF Submits
  <2>2. CASE ~Write(k)
    BY <1>6, <1>11, <2>2
  <2> QED
    BY <2>1, <2>2
<1>13. IsCall(d)
  BY <1>2, <1>7 DEF IsCall, Fields
<1>14. /\ d.op = a.op /\ d.pc = FirstOf(a.op) /\ d.rq = a.rq /\ d.client = id
       /\ d.seen = 0 /\ d.tries = a.tries /\ d.out = a.out
       /\ d.asOf = a.asOf /\ d.since = a.since /\ d.res = a.res
       /\ d.n = IF Write(k) THEN own.added[a.op.issue] ELSE 0
  BY <1>2, <1>7 DEF IsCall, Fields
<1>15. \/ id \in 1..Len(clients) /\ cl = clients[id] /\ clients' = [clients EXCEPT ![id] = own]
       \/ id = Len(clients) + 1 /\ cl = NewClient(a.seen) /\ clients' = Append(clients, own)
  BY <1>4, <1>5, <1>8, <1>9
<1>16. Resolves(k, id, cl, own, d)
  BY <1>1, <1>6, <1>8, <1>10, <1>11, <1>12, <1>13, <1>14, <1>15 DEF Resolves
<1> QED
  BY <1>16

\* The memo's client, or one that is built, is given the call; a write is submitted to it.
LEMMA ResolveKeeps ==
  ASSUME AccessInv, NEW k \in Calls, ResolveClient(k)
  PROVE  AccessInv'
<1> USE DEF AccessInv
<1>1. PICK id, cl, own, d : Resolves(k, id, cl, own, d)
  BY ResolveForm
<1>2. PICK a : a = call[k]
  OBVIOUS
<1>3. /\ a.pc = "client" /\ a # Idle /\ Sound(a, Pools[pool].ops, Len(clients))
      /\ a.op.kind \in DOMAIN Stages /\ a.op.via \in {"lazy", "factory"}
      /\ (Write(k) => a.op.issue \in Issues) /\ UNCHANGED <<jira, cred, pool>>
  BY <1>2, LiveCall DEF ResolveClient, local
<1>4. a.client = 0 /\ a.rq = "no" /\ Len(clients) \in Nat
  BY <1>3 DEF Sound, Requests, ClientInv
<1>5. /\ id \in 1..Len(clients') /\ clients'[id] = own
      /\ Len(clients') \in Nat /\ clients' = [c \in 1..Len(clients') |-> clients'[c]]
      /\ \A c \in 1..Len(clients') : c # id => c \in 1..Len(clients) /\ clients'[c] = clients[c]
      /\ 1..Len(clients) \subseteq 1..Len(clients')
  <2>1. CASE id \in 1..Len(clients) /\ clients' = [clients EXCEPT ![id] = own]
    BY <1>4, <2>1, ClientReplaced
  <2>2. CASE id = Len(clients) + 1 /\ clients' = Append(clients, own)
    BY <1>4, <2>2, ClientBuilt
  <2> QED
    BY <1>1, <2>1, <2>2 DEF Resolves
<1>6. ClientInv'
  <2>1. \A c \in 1..Len(clients') : IsClient(clients'[c])
    BY <1>1, <1>5 DEF ClientInv, Resolves
  <2>2. memo' = [memo EXCEPT ![a.op.via] = id]
    BY <1>1, <1>2 DEF Resolves
  <2>3. /\ memo' = [m \in {"lazy", "factory"} |-> memo'[m]]
        /\ \A m \in {"lazy", "factory"} : memo'[m] \in 0..Len(clients')
    <3>1. 0..Len(clients) \subseteq 0..Len(clients') /\ id \in 0..Len(clients')
      BY <1>4, <1>5
    <3>2. /\ memo = [m \in {"lazy", "factory"} |-> memo[m]]
          /\ \A m \in {"lazy", "factory"} : memo[m] \in 0..Len(clients')
      BY <3>1 DEF ClientInv
    <3> QED
      BY <1>3, <2>2, <3>1, <3>2
  <2>4. cred' \in Nat
    BY <1>3 DEF ClientInv
  <2> QED
    BY <1>5, <2>1, <2>3, <2>4 DEF ClientInv, IsClient
<1>7. BoardInv' /\ log' = log
  BY <1>3 DEF BoardInv, jira
<1>8. /\ IsCall(d) /\ d.op = a.op /\ d.pc = FirstOf(d.op) /\ d.rq = "no" /\ d.client = id
      /\ d.seen = 0 /\ d.tries = a.tries /\ d.out = a.out
      /\ d.n = IF Write(k) THEN own.added[a.op.issue] ELSE 0
  BY <1>1, <1>2 DEF Resolves
<1>9. /\ d.pc \in Stages[d.op.kind] /\ d.pc \notin {"idle", "row", "client", "done"}
      /\ Write(k) => d.pc = "queued"
  BY <1>2, <1>3, <1>8 DEF FirstOf, Stages, Write
<1>10. d.n \in Nat
  BY <1>1, <1>3, <1>8 DEF Resolves, IsClient
<1>11. call' = [x \in Calls |-> call'[x]] /\ call'[k] = d /\ \A x \in Calls \ {k} : call'[x] = call[x]
  BY <1>1 DEF Resolves, CallInv
<1>12. d # Idle /\ Sound(d, Pools[pool].ops, Len(clients'))
  <2>1. d # Idle
    BY <1>9 DEF Idle
  <2> QED
    BY <1>3, <1>5, <1>8, <1>9, <1>10, <2>1 DEF Sound
<1>13. CallInv'
  <2>1. ASSUME NEW x \in Calls PROVE call'[x] = Idle \/ Sound(call'[x], Pools[pool].ops, Len(clients'))
    <3>1. CASE x = k
      BY <1>11, <1>12, <3>1
    <3>2. CASE x # k
      <4>1. 0..Len(clients) \subseteq 0..Len(clients')
        BY <1>4, <1>5
      <4> QED
        BY <1>11, <3>2, <4>1 DEF CallInv, Sound
    <3> QED
      BY <3>1, <3>2
  <2> QED
    BY <1>3, <1>11, <2>1 DEF CallInv, Sound, IsCall
<1>14. ASSUME NEW c \in 1..Len(clients') PROVE Holding(c)' = Holding(c) /\ WaitingFor(c)' = WaitingFor(c)
  BY <1>2, <1>4, <1>8, <1>11 DEF Holding, WaitingFor
<1>15. \/ id \in 1..Len(clients) /\ cl = clients[id]
       \/ /\ id = Len(clients) + 1 /\ cl.active = 0 /\ cl.waiters = <<>>
          /\ \A i \in Issues : cl.queues[i] = <<>> /\ cl.added[i] = 0
  <2>1. a.seen \in Nat
    BY <1>3 DEF Sound
  <2> QED
    BY <1>1, <1>2, <2>1, BuiltClient DEF Resolves
<1>16. id = Len(clients) + 1 => \A x \in Calls :
         (\A i \in Issues : ~Submitted(x, id, i)) /\ x \notin Holding(id) \cup WaitingFor(id)
  BY <1>4 DEF CallInv, Sound, Submitted, Holding, WaitingFor
<1>17. SlotInv'
  <2>1. ASSUME NEW c \in 1..Len(clients')
        PROVE  /\ clients'[c].active = Cardinality(Holding(c)) /\ clients'[c].active <= Concurrency
               /\ Distinct(clients'[c].waiters) /\ ToSet(clients'[c].waiters) = WaitingFor(c)
    <3>1. CASE c \in 1..Len(clients) /\ (c = id => cl = clients[id])
      <4>1. clients'[c].active = clients[c].active /\ clients'[c].waiters = clients[c].waiters
        BY <1>1, <1>5, <3>1 DEF Resolves
      <4> QED
        BY <3>1, <4>1 DEF SlotInv
    <3>2. CASE c = id /\ id = Len(clients) + 1 /\ cl.active = 0 /\ cl.waiters = <<>>
      <4>1. clients'[c].active = 0 /\ clients'[c].waiters = <<>>
        BY <1>1, <1>5, <3>2 DEF Resolves
      <4>2. Holding(c) = {} /\ WaitingFor(c) = {}
        BY <1>16, <3>2 DEF Holding, WaitingFor
      <4>3. Cardinality({}) = 0 /\ ToSet(<<>>) = {} /\ Distinct(<<>>) /\ 0 <= Concurrency
        BY FS_EmptySet, ClientAssumption DEF ToSet, Distinct
      <4> QED
        BY <4>1, <4>2, <4>3
    <3> QED
      BY <1>5, <1>15, <3>1, <3>2
  <2> QED
    BY <1>14, <2>1 DEF SlotInv, Distinct, ToSet
<1>18. LogInv'
  BY <1>5, <1>7 DEF LogInv
<1>19. ASSUME NEW j \in Issues PROVE QueueOk(id, j, cl.queues[j], cl.added[j])
  <2>1. CASE id \in 1..Len(clients) /\ cl = clients[id]
    BY <2>1 DEF QueueInv, QueueSound, QueueOk, QueueOf
  <2>2. CASE id = Len(clients) + 1 /\ cl.queues[j] = <<>> /\ cl.added[j] = 0
    <3>1. ToSet(<<>>) = {} /\ Len(<<>>) = 0
      BY DEF ToSet
    <3>2. \A x \in Calls : ~Submitted(x, id, j) /\ ~Writing(x, id, j)
      BY <1>16, <2>2 DEF Writing
    <3>3. \A p \in 1..Len(log[j]) : log[j][p][1] # id
      BY <1>4, <2>2 DEF LogInv
    <3>4. QueueOk(id, j, <<>>, 0)
      BY <3>1, <3>2, <3>3 DEF QueueOk
    <3> QED
      BY <2>2, <3>4
  <2> QED
    BY <1>15, <2>1, <2>2
<1>20. ASSUME NEW c \in 1..Len(clients'), NEW j \in Issues
       PROVE  /\ ~Submitted(k, c, j)
              /\ Submitted(k, c, j)' <=> Write(k) /\ c = id /\ j = a.op.issue
              /\ \A x \in Calls \ {k} : SameFor(x, c, j)
  BY <1>2, <1>4, <1>8, <1>11, <1>12 DEF Submitted, SameFor, Writing, Write, Writes
<1>21. ASSUME NEW c \in 1..Len(clients'), NEW j \in Issues PROVE QueueSound(c, j)'
  <2>1. PICK q, add : q = clients'[c].queues[j] /\ add = clients'[c].added[j]
    OBVIOUS
  <2>2. q \in Seq(Calls) /\ add \in Nat
    BY <1>6, <2>1 DEF ClientInv, IsClient
  <2>3. QueueOk(c, j, q, add)'
    <3>1. CASE Write(k) /\ c = id /\ j = a.op.issue
      <4>1. PICK p, n : p = cl.queues[j] /\ n = cl.added[j]
        OBVIOUS
      <4>2. p \in Seq(Calls) /\ n \in Nat
        BY <1>1, <4>1 DEF Resolves, IsClient
      <4>3. q = Append(p, k) /\ add = n + 1
        <5>1. Submits(cl, own, j, k)
          BY <1>1, <1>2, <3>1, SubmitFacts DEF Resolves
        <5>2. cl.queues \in [Issues -> Seq(Calls)] /\ cl.added \in [Issues -> Nat]
          BY <1>1 DEF Resolves, IsClient
        <5>3. clients'[c] = own
          BY <1>5, <3>1
        <5> QED
          BY <2>1, <4>1, <5>1, <5>2, <5>3 DEF Submits
      <4>4. call'[k].pc = "queued" /\ call'[k].n = n + 1
        <5>1. own.added[j] = add
          BY <1>5, <2>1, <3>1
        <5> QED
          BY <1>8, <1>9, <1>11, <3>1, <4>3, <5>1
      <4>5. QueueOk(id, j, p, n)
        BY <1>19, <4>1
      <4>6. QueueOk(c, j, Append(p, k), n + 1)'
        BY <1>7, <1>20, <3>1, <4>2, <4>4, <4>5, OkSubmits
      <4> QED
        BY <4>3, <4>6
    <3>2. CASE ~(Write(k) /\ c = id /\ j = a.op.issue)
      <4>1. QueueOk(c, j, q, add)
        <5>1. CASE c = id
          <6>1. q = cl.queues[j] /\ add = cl.added[j]
            <7>1. CASE Write(k)
              <8>1. Submits(cl, own, a.op.issue, k) /\ j # a.op.issue
                BY <1>1, <1>2, <1>3, <3>2, <5>1, <7>1, SubmitFacts DEF Resolves
              <8>2. cl.queues \in [Issues -> Seq(Calls)] /\ cl.added \in [Issues -> Nat]
                BY <1>1 DEF Resolves, IsClient
              <8> QED
                BY <1>5, <2>1, <5>1, <8>1, <8>2 DEF Submits
            <7>2. CASE ~Write(k)
              BY <1>1, <1>5, <2>1, <5>1, <7>2 DEF Resolves
            <7> QED
              BY <7>1, <7>2
          <6> QED
            BY <1>19, <5>1, <6>1
        <5>2. CASE c # id
          <6>1. c \in 1..Len(clients) /\ q = QueueOf(c, j) /\ add = clients[c].added[j]
            BY <1>5, <2>1, <5>2 DEF QueueOf
          <6> QED
            BY <6>1 DEF QueueInv, QueueSound, QueueOk
        <5> QED
          BY <5>1, <5>2
      <4>2. \A x \in Calls : SameFor(x, c, j)
        <5>1. SameFor(k, c, j)
          BY <1>20, <3>2 DEF SameFor, Writing
        <5> QED
          BY <1>20, <5>1
      <4> QED
        BY <1>7, <2>2, <4>1, <4>2, OkStays
    <3> QED
      BY <3>1, <3>2
  <2>4. QueueOf(c, j)' = q
    BY <2>1 DEF QueueOf
  <2> QED
    BY <2>1, <2>3, <2>4 DEF QueueOk, QueueSound, ToSet
<1>22. QueueInv'
  BY <1>21 DEF QueueInv
<1> QED
  BY <1>6, <1>7, <1>13, <1>17, <1>18, <1>22

-----------------------------------------------------------------------------
(* The invariant, and what follows from it.                                *)

\* A write whose request is out runs from its queue.
LEMMA SentInQueue ==
  ASSUME CallInv, ClientInv, QueueInv, NEW k \in Calls, Sent(k)
  PROVE  InQueue(k)
<1> SUFFICES ASSUME Write(k) PROVE Of(k).queues[call[k].op.issue] # <<>>
  BY DEF InQueue
<1>1. PICK c \in 1..Len(clients) : c = call[k].client
  BY RequestCall DEF Sent
<1>2. PICK i \in Issues : i = call[k].op.issue
  BY RequestCall DEF Sent
<1>3. call[k] # Idle /\ call[k].pc \notin {"queued", "done"}
  BY RequestCall DEF Sent, Requests
<1>4. Writing(k, c, i)
  BY <1>1, <1>2, <1>3 DEF Writing, Submitted, Write, Writes
<1>5. QueueOf(c, i) # <<>>
  BY <1>3, <1>4, QueueHead
<1> QED
  BY <1>1, <1>2, <1>5 DEF QueueOf, Of

\* An answer that ends a request.
LEMMA AnswerKeeps ==
  ASSUME AccessInv, NEW k \in Calls, UNCHANGED <<cred, memo, pool>>,
         \/ TooMany(k) /\ ~(call[k].tries < MaxRetries)
         \/ Broken(k) \/ ContextAnswer(k) \/ ListAnswer(k) \/ WriteAnswer(k) \/ Conflict(k)
         \/ ReadAnswer(k)
  PROVE  AccessInv' /\ EndsRequest(k) /\ Sent(k)
<1> USE DEF AccessInv
<1>1. Sent(k)
  BY DEF TooMany, Broken, ContextAnswer, ListAnswer, WriteAnswer, Conflict, ReadAnswer, PageAnswer,
     FindAnswer, DetailAnswer, ProjectAnswer, TypesAnswer, SprintsAnswer, BoardAnswer
<1>2. InQueue(k)
  BY <1>1, SentInQueue
<1>3. EndsRequest(k)
  BY <1>2, AnswerEnds
<1>4. /\ BoardInv'
      /\ \/ log' = log
         \/ /\ Write(k) /\ call'[k].pc = "done"
            /\ log' = [log EXCEPT ![call[k].op.issue] = Append(@, <<call[k].client, call[k].n>>)]
  BY AnswerWrites
<1>5. QueueInv' /\ LogInv'
  BY <1>1, <1>3, <1>4, OverQueues
<1>6. CallInv' /\ ClientInv'
  BY <1>1, <1>3, OverShape
<1>7. SlotInv'
  BY <1>1, <1>3, OverSlots
<1> QED
  BY <1>1, <1>3, <1>4, <1>5, <1>6, <1>7

\* Nothing is called and no client is built at first.
LEMMA AccessInit == Init => AccessInv
<1> SUFFICES ASSUME Init PROVE AccessInv
  OBVIOUS
<1>1. /\ pool \in DOMAIN Pools /\ call = [k \in Calls |-> Idle] /\ clients = <<>>
      /\ status = [i \in Issues |-> "todo"] /\ wf = 1 /\ log = [i \in Issues |-> <<>>]
      /\ cred \in Pools[pool].first /\ memo = [lazy |-> 0, factory |-> 0]
  BY DEF Init
<1>2. CallInv
  BY <1>1 DEF CallInv
<1>3. ClientInv
  <2>1. Len(clients) = 0 /\ clients = [c \in 1..0 |-> clients[c]] /\ 1..0 = {}
    BY <1>1
  <2>2. cred \in Nat
    BY <1>1, OpsAssumption
  <2>3. /\ memo = [m \in {"lazy", "factory"} |-> memo[m]]
        /\ \A m \in {"lazy", "factory"} : memo[m] = 0
    BY <1>1
  <2> QED
    BY <2>1, <2>2, <2>3 DEF ClientInv
<1>4. \A i \in Issues : log[i] = <<>> /\ Len(log[i]) = 0
  BY <1>1
<1>5. BoardInv
  <2>1. 1 \in 1..Len(Workflows)
    BY WorkflowAssumption
  <2>2. \A i \in Issues : log[i] \in Seq(Nat \X Nat)
    <3>1. \A S : <<>> \in Seq(S)
      OBVIOUS
    <3>2. <<>> \in Seq(Nat \X Nat)
      BY <3>1, Zenon
    <3> QED
      BY <1>4, <3>2, Zenon
  <2>3. log = [i \in Issues |-> log[i]]
    BY <1>1
  <2> QED
    BY <1>1, <2>1, <2>2, <2>3, WorkflowAssumption DEF BoardInv
<1>6. 1..Len(clients) = {} /\ \A i \in Issues : 1..Len(log[i]) = {}
  BY <1>1, <1>4
<1>7. SlotInv /\ QueueInv /\ LogInv
  BY <1>6 DEF SlotInv, QueueInv, LogInv
<1> QED
  BY <1>2, <1>3, <1>5, <1>7 DEF AccessInv

\* Every step keeps the invariant.
LEMMA AccessStep ==
  ASSUME AccessInv, [Next]_vars
  PROVE  AccessInv'
<1>1. CASE UNCHANGED vars
  <2>1. UNCHANGED <<call, clients, status, wf, log, cred, memo, pool>>
    BY <1>1 DEF vars, jira, local
  <2>2. CallInv' /\ ClientInv' /\ BoardInv' /\ LogInv'
    BY <2>1 DEF AccessInv, CallInv, ClientInv, BoardInv, LogInv
  <2>3. \A c \in 1..Len(clients) : Holding(c)' = Holding(c) /\ WaitingFor(c)' = WaitingFor(c)
    BY <2>1 DEF Holding, WaitingFor
  <2>4. SlotInv'
    BY <2>1, <2>3, SlotStays DEF AccessInv
  <2>5. \A x \in Calls, c \in 1..Len(clients), i \in Issues : StaysFor(x, c, i)
    BY <2>1 DEF StaysFor, Submitted, Writing
  <2>6. QueueInv'
    BY <2>1, <2>5, QueueStays DEF AccessInv
  <2> QED
    BY <2>2, <2>4, <2>6 DEF AccessInv
<1>2. ASSUME NEW k \in Calls, Begin(k) \/ CallStep(k) PROVE AccessInv'
  <2>1. CASE Begin(k) \/ ReadRow(k) \/ Return(k)
    BY <2>1, CallerKeeps
  <2>2. CASE ResolveClient(k)
    BY <2>2, ResolveKeeps
  <2>3. CASE ReadAnswer(k)
    <3>1. UNCHANGED <<cred, memo, pool>>
      BY <2>3 DEF ReadAnswer, PageAnswer, FindAnswer, DetailAnswer, ProjectAnswer, TypesAnswer,
         SprintsAnswer, BoardAnswer, Reads, local
    <3> QED
      BY <2>3, <3>1, AnswerKeeps
  <2>4. CASE ClientStep(k)
    <3>1. UNCHANGED <<cred, memo, board, local>> /\ pool' = pool
      BY <2>4 DEF ClientStep, local
    <3>2. CASE Dequeue(k)
      BY <3>1, <3>2, DequeueKeeps
    <3>3. CASE AcquireSlot(k)
      BY <3>1, <3>3, AcquireSlotKeeps
    <3>4. CASE AcquireToken(k) \/ Sleep(k) \/ (TooMany(k) /\ call[k].tries < MaxRetries)
      BY <3>1, <3>4, HolderKeeps
    <3>5. CASE \/ TooMany(k) /\ ~(call[k].tries < MaxRetries)
               \/ Broken(k) \/ ContextAnswer(k) \/ ListAnswer(k) \/ WriteAnswer(k) \/ Conflict(k)
      BY <3>1, <3>5, AnswerKeeps
    <3> QED
      BY <2>4, <3>2, <3>3, <3>4, <3>5 DEF ClientStep
  <2> QED
    BY <1>2, <2>1, <2>2, <2>3, <2>4 DEF CallStep
<1>3. CASE \/ Refilling \/ TransitionsExpire \/ Rotate \/ EditWorkflow \/ BoardExpires
           \/ \E i \in Issues : MoveByHand(i)
  BY <1>3, OthersKeep
<1> QED
  BY <1>1, <1>2, <1>3 DEF Next

\* The invariant holds in every state of every behaviour.
LEMMA AccessAlways == Spec => []AccessInv
<1>1. Init => AccessInv
  BY AccessInit
<1>2. AccessInv /\ [Next]_vars => AccessInv'
  BY AccessStep
<1> QED
  BY <1>1, <1>2, PTL DEF Spec

\* rate-limiter.ts: the count of a client is the number of requests that hold a slot of it (waiting
\* for a token, sent, or asleep after a 429), and is never above its concurrency, for any number of
\* calls, clients and waiters.
THEOREM AccessInFlightBounded == Spec => []InFlightBounded
<1>1. AccessInv => InFlightBounded
  <2> SUFFICES ASSUME AccessInv, NEW c \in DOMAIN clients
               PROVE  Cardinality(Holding(c)) = clients[c].active /\ clients[c].active <= Concurrency
    BY DEF InFlightBounded
  <2>1. c \in 1..Len(clients)
    BY DEF AccessInv, ClientInv
  <2> QED
    BY <2>1 DEF AccessInv, SlotInv
<1> QED
  BY <1>1, AccessAlways, PTL

\* per-issue-write-queue.ts, rate-limiter.ts: what one client writes to an issue takes effect in the
\* order of submission, and each write at most once, whatever is retried, lost or answered late.
THEOREM AccessWritesSound == Spec => []WritesSound
<1>1. AccessInv => WritesSound
  <2> SUFFICES ASSUME AccessInv, NEW i \in Issues, NEW p \in DOMAIN log[i], NEW q \in DOMAIN log[i]
               PROVE  /\ p < q /\ log[i][p][1] = log[i][q][1] => log[i][p][2] <= log[i][q][2]
                      /\ p # q => log[i][p] # log[i][q]
    BY DEF WritesSound, WritesInOrder, WritesOnce
  <2>1. log[i] \in Seq(Nat \X Nat) /\ p \in 1..Len(log[i]) /\ q \in 1..Len(log[i])
    BY DEF AccessInv, BoardInv
  <2>2. log[i][p] \in Nat \X Nat /\ log[i][q] \in Nat \X Nat
    BY <2>1
  <2>3. /\ p < q /\ log[i][p][1] = log[i][q][1] => log[i][p][2] < log[i][q][2]
        /\ q < p /\ log[i][p][1] = log[i][q][1] => log[i][q][2] < log[i][p][2]
    BY <2>1 DEF AccessInv, LogInv
  <2>4. log[i][p][2] \in Nat /\ log[i][q][2] \in Nat
    BY <2>2
  <2> QED
    BY <2>1, <2>3, <2>4
<1> QED
  BY <1>1, AccessAlways, PTL

-----------------------------------------------------------------------------
(* What a call answers.                                                    *)

\* A page that is not full has everything.
LEMMA FirstNAll ==
  ASSUME NEW S \in SUBSET Nat, IsFiniteSet(S), NEW n \in Nat,
         ~(Cardinality(FirstN(S, n)) >= n)
  PROVE  FirstN(S, n) = S
<1> DEFINE F == FirstN(S, n)
           Below(i) == {j \in S : j < i}
<1>1. F \subseteq S /\ IsFiniteSet(F)
  BY FS_Subset DEF FirstN
<1>2. ASSUME NEW i \in S \ F PROVE FALSE
  <2>1. \E m \in S \ F : \A j \in S \ F : ~ (<<j, m>> \in OpToRel(<, Nat))
    <3>1. S \ F \subseteq Nat /\ S \ F # {}
      BY <1>2
    <3> QED
      BY <3>1, NatLessThanWellFounded, WFMin, Zenon
  <2>2. PICK m \in S \ F : \A j \in S \ F : ~ (<<j, m>> \in OpToRel(<, Nat))
    BY <2>1
  <2>3. \A j \in S \ F : ~(j < m)
    BY <2>2 DEF OpToRel
  <2>4. Below(m) \subseteq F
    BY <2>3
  <2>5. Cardinality(Below(m)) <= Cardinality(F)
    BY <1>1, <2>4, FS_Subset
  <2>6. ~(Cardinality(Below(m)) < n)
    BY <2>2 DEF FirstN
  <2>7. Cardinality(Below(m)) \in Nat /\ Cardinality(F) \in Nat
    BY <1>1, <2>4, FS_Subset, FS_CardinalityType
  <2> HIDE DEF F, Below
  <2>8. ~(Cardinality(F) >= n)
    BY DEF F
  <2> QED
    BY <2>5, <2>6, <2>7, <2>8
<1> QED
  BY <1>1, <1>2

\* Transition ids keep their meaning: an id leads to the same status wherever and whenever it is
\* offered.
IdsStable ==
  \A v, w \in DOMAIN Workflows : \A s, u \in Statuses :
    \A x \in Workflows[v][s], y \in Workflows[w][u] : x[1] = y[1] => x[2] = y[2]

\* A transition Jira has offered in some status under some workflow.
Known(x) == \E v \in DOMAIN Workflows, s \in Statuses : x \in Workflows[v][s]

\* What the call owes to the credentials and the workflow at its start.
Begins(k) ==
  /\ call[k].since \in Nat /\ call[k].since <= wf /\ call[k].asOf \in Nat /\ call[k].asOf <= cred
  /\ call[k].pc = "client" => call[k].asOf <= call[k].seen
  /\ call[k].client # 0 => call[k].asOf <= clients[call[k].client].cred

\* The id about to be posted leads to the target, and what is answered is so.
Result(c) ==
  /\ c.pc = "post" => Known(<<c.id, c.op.to>>)
  /\ c.pc = "done" /\ c.res = "ok" =>
       /\ c.op.kind = "transition" /\ IdsStable => c.was = TRUE
       /\ c.op.kind = "search" => c.out = Issues
       /\ c.op.kind = "find" => /\ c.out = FirstN(Issues \ Foreign, c.op.max)
                                /\ c.cut = Cut(Cardinality(c.out), c.op.max)
       /\ c.op.kind = "statuses" /\ c.op.refresh => c.list \in Nat /\ c.since <= c.list

\* A transition without a path has written nothing.
NotWritten(k) ==
  call[k].pc = "done" /\ call[k].op.kind = "transition" /\ call[k].res = "nopath" =>
    \A p \in 1..Len(log[call[k].op.issue]) :
      log[call[k].op.issue][p] # <<call[k].client, call[k].n>>

\* What is cached was offered by Jira.
CacheInv == \A c \in 1..Len(clients), s \in Statuses :
  clients[c].cache[s] # Uncached => \A x \in clients[c].cache[s] : Known(x)

HonestInv ==
  /\ \A k \in Calls : call[k] # Idle => Begins(k) /\ Result(call[k]) /\ NotWritten(k)
  /\ CacheInv

\* Time goes on: versions only grow, and a client keeps its credentials.
Onwards ==
  /\ wf \in Nat /\ wf' \in Nat /\ wf <= wf' /\ cred \in Nat /\ cred' \in Nat /\ cred <= cred'
  /\ \A c \in 1..Len(clients) : clients'[c].cred = clients[c].cred /\ clients[c].cred \in Nat

\* A call that is where it was.
LEMMA HonestStays ==
  ASSUME AccessInv, HonestInv, Onwards, NEW x \in Calls, call[x] # Idle,
         Kept(call[x], call'[x]), call'[x].pc = call[x].pc, call'[x].id = call[x].id,
         call'[x].res = call[x].res
  PROVE  Begins(x)' /\ Result(call'[x])
<1>1. Begins(x) /\ Result(call[x])
  BY DEF HonestInv
<1>2. call[x].client # 0 => call[x].client \in 1..Len(clients)
  BY DEF AccessInv, CallInv, Sound, ClientInv
<1>3. Begins(x)'
  BY <1>1, <1>2 DEF Begins, Kept, Onwards
<1>4. Result(call'[x])
  BY <1>1 DEF Result, Kept
<1> QED
  BY <1>3, <1>4

\* A write that takes effect is not that of another call.
LEMMA NotWrittenStays ==
  ASSUME AccessInv, NEW x \in Calls, NEW k \in Calls \ {x}, call[x] # Idle, NotWritten(x),
         call'[x].op = call[x].op, call'[x].client = call[x].client, call'[x].n = call[x].n,
         call'[x].pc = call[x].pc, call'[x].res = call[x].res,
         \/ log' = log
         \/ /\ Write(k) /\ call[k].pc \in Requests
            /\ log' = [log EXCEPT ![call[k].op.issue] = Append(@, <<call[k].client, call[k].n>>)]
  PROVE  NotWritten(x)'
<1> SUFFICES ASSUME call[x].pc = "done", call[x].op.kind = "transition", call[x].res = "nopath"
             PROVE  \A p \in 1..Len(log'[call[x].op.issue]) :
                      log'[call[x].op.issue][p] # <<call[x].client, call[x].n>>
  BY DEF NotWritten
<1>1. PICK i, c, n : i = call[x].op.issue /\ c = call[x].client /\ n = call[x].n
  OBVIOUS
<1>2. i \in Issues /\ c \in 0..Len(clients) /\ n \in Nat
  BY <1>1, LiveCall DEF AccessInv, Sound, Write
<1>3. \A p \in 1..Len(log[i]) : log[i][p] # <<c, n>>
  BY <1>1 DEF NotWritten
<1>4. CASE log' = log
  BY <1>1, <1>3, <1>4
<1>5. CASE /\ Write(k) /\ call[k].pc \in Requests
           /\ log' = [log EXCEPT ![call[k].op.issue] = Append(@, <<call[k].client, call[k].n>>)]
  <2>1. PICK j, d, m : j = call[k].op.issue /\ d = call[k].client /\ m = call[k].n
    OBVIOUS
  <2>2. j \in Issues /\ d \in 1..Len(clients) /\ m \in Nat /\ call[k] # Idle
    BY <1>5, <2>1, RequestCall DEF AccessInv
  <2>3. log' = [log EXCEPT ![j] = Append(@, <<d, m>>)]
    BY <1>5, <2>1
  <2>4. <<c, n>> # <<d, m>> \/ i # j
    <3> SUFFICES ASSUME c = d, i = j PROVE n # m
      OBVIOUS
    <3>1. Submitted(x, d, j) /\ Submitted(k, d, j)
      BY <1>1, <1>5, <2>1, <2>2 DEF Submitted, Write, Writes
    <3> QED
      BY <1>1, <2>1, <2>2, <3>1 DEF AccessInv, QueueInv, QueueSound
  <2>5. CASE i # j
    <3>1. log'[i] = log[i]
      BY <1>2, <2>3, <2>5 DEF AccessInv, BoardInv
    <3> QED
      BY <1>1, <1>3, <3>1
  <2>6. CASE i = j
    <3>1. PICK l \in Seq(Nat \X Nat) : l = log[i]
      BY <1>2 DEF AccessInv, BoardInv
    <3>2. log'[i] = Append(l, <<d, m>>)
      BY <1>2, <2>3, <2>6, <3>1 DEF AccessInv, BoardInv
    <3>3. <<d, m>> \in Nat \X Nat
      BY <2>2, SMTT(30) DEF AccessInv, ClientInv
    <3>4. /\ Len(log'[i]) = Len(l) + 1 /\ log'[i][Len(l) + 1] = <<d, m>>
          /\ \A p \in 1..Len(l) : log'[i][p] = l[p]
      BY <3>2, <3>3, SMTT(30)
    <3>5. Len(l) \in Nat
      OBVIOUS
    <3>6. ASSUME NEW p \in 1..Len(log'[i]) PROVE log'[i][p] # <<c, n>>
      <4>1. p \in 1..Len(l) \/ p = Len(l) + 1
        BY <3>4, <3>5, SMTT(30)
      <4>2. CASE p \in 1..Len(l)
        BY <1>3, <3>1, <3>4, <4>2
      <4>3. CASE p = Len(l) + 1
        BY <2>4, <2>6, <3>4, <4>3
      <4> QED
        BY <4>1, <4>2, <4>3
    <3> QED
      BY <1>1, <3>6
  <2> QED
    BY <2>5, <2>6
<1> QED
  BY <1>4, <1>5

\* What the end of a request leaves in the call and in the cache.
LEMMA OverAnswer ==
  ASSUME CallInv, ClientInv, NEW k \in Calls, Sent(k), NEW next, NEW cl, IsClient(cl), Over(k, next, cl)
  PROVE  call'[k] = next /\ clients'[call[k].client].cache = cl.cache
<1>1. call[k].client \in 1..Len(clients)
  BY RequestCall DEF Sent
<1>2. PICK freed : freed = ReleaseSlot(cl)
  OBVIOUS
<1>3. clients' = [clients EXCEPT ![call[k].client] = freed] /\ call'[k] = next
  BY <1>2 DEF Over
<1>4. freed.cache = cl.cache
  BY <1>2 DEF ReleaseSlot, IsClient, ClientFields
<1> QED
  BY <1>1, <1>3, <1>4, ClientReplaced

\* A cache that holds nothing Jira has not offered.
KnownCache(cache) == \A s \in Statuses : cache[s] # Uncached => \A x \in cache[s] : Known(x)

\* A client with such a cache, otherwise the call's own.
Base(k, cl) == Like(cl, Of(k)) /\ KnownCache(cl.cache)

\* The answers that neither store a list nor drop one.
LEMMA AnswerClient ==
  ASSUME NEW k,
         \/ TooMany(k) /\ ~(call[k].tries < MaxRetries)
         \/ Broken(k) \/ ContextAnswer(k) \/ WriteAnswer(k) \/ (Conflict(k) /\ call[k].again)
         \/ ReadAnswer(k)
  PROVE  \E next : Over(k, next, Of(k)) \/ Over(k, next, Left(Of(k), k))
<1>1. \A res : Finish(k, res, Of(k)) => \E next : Over(k, next, Left(Of(k), k))
  BY DEF Finish
<1>2. CASE TooMany(k) /\ ~(call[k].tries < MaxRetries)
  BY <1>1, <1>2 DEF TooMany, Failed
<1>3. CASE Broken(k)
  BY <1>1, <1>3 DEF Broken, Failed
<1>4. CASE ContextAnswer(k)
  <2>1. \A list, from : Matched(k, list, Of(k), from) =>
          \E next : Over(k, next, Of(k)) \/ Over(k, next, Left(Of(k), k))
    BY <1>1 DEF Matched
  <2> QED
    BY <1>4, <2>1 DEF ContextAnswer
<1>5. CASE WriteAnswer(k)
  BY <1>5 DEF WriteAnswer
<1>6. CASE Conflict(k) /\ call[k].again
  BY <1>1, <1>6 DEF Conflict
<1>7. CASE ReadAnswer(k)
  BY <1>1, <1>7 DEF ReadAnswer, PageAnswer, FindAnswer, DetailAnswer, ProjectAnswer, TypesAnswer,
     SprintsAnswer, BoardAnswer
<1> QED
  BY <1>2, <1>3, <1>4, <1>5, <1>6, <1>7

\* transition-discovery.ts: the cache holds lists Jira has given.
LEMMA AnswerCache ==
  ASSUME AccessInv, CacheInv, NEW k \in Calls, Sent(k), InQueue(k),
         \/ TooMany(k) /\ ~(call[k].tries < MaxRetries)
         \/ Broken(k) \/ ContextAnswer(k) \/ ListAnswer(k) \/ WriteAnswer(k) \/ Conflict(k)
         \/ ReadAnswer(k)
  PROVE  KnownCache(clients'[call[k].client].cache)
<1> USE DEF AccessInv
<1>1. /\ IsClient(Of(k)) /\ call[k].client \in 1..Len(clients)
      /\ (Write(k) => call[k].op.issue \in Issues)
      /\ Write(k) <=> call[k].pc \in {"queued", "context", "list", "post", "comment"}
  BY RequestCall DEF Sent
<1>2. PICK of : of = Of(k)
  OBVIOUS
<1>3. IsClient(of) /\ KnownCache(of.cache)
  BY <1>1, <1>2 DEF CacheInv, KnownCache, Of
<1>4. ASSUME NEW cl, Base(k, cl), NEW next, Over(k, next, cl) \/ Over(k, next, Left(cl, k))
      PROVE  KnownCache(clients'[call[k].client].cache)
  <2>1. IsClient(cl) /\ KnownCache(cl.cache)
    BY <1>4 DEF Base, Like
  <2>2. CASE Over(k, next, cl)
    BY <2>1, <2>2, OverAnswer
  <2>3. CASE Over(k, next, Left(cl, k))
    <3>1. Write(k) => cl.queues[call[k].op.issue] # <<>>
      BY <1>4 DEF Base, Like, InQueue
    <3>2. Write(k) => call[k].op.issue \in Issues
      BY <1>1
    <3>3. IsClient(Left(cl, k)) /\ Left(cl, k).cache = cl.cache
      BY <2>1, <3>1, <3>2, LeftFacts
    <3> QED
      BY <2>1, <2>3, <3>3, OverAnswer
  <2> QED
    BY <1>4, <2>2, <2>3
<1>5. Base(k, Of(k))
  BY <1>2, <1>3 DEF Base, Like
<1>6. ASSUME NEW s, NEW v, v = Uncached \/ \A x \in v : Known(x)
      PROVE  Base(k, [Of(k) EXCEPT !.cache[s] = v])
  <2>1. Like([of EXCEPT !.cache[s] = v], of)
    BY <1>3, CacheLike
  <2>2. PICK cl : cl = [of EXCEPT !.cache[s] = v]
    OBVIOUS
  <2>3. cl.cache = [of.cache EXCEPT ![s] = v] /\ of.cache = [t \in Statuses |-> of.cache[t]]
    BY <1>3, <2>2 DEF IsClient, ClientFields
  <2>4. \A t \in Statuses : cl.cache[t] \in {v, of.cache[t]}
    BY <2>3
  <2>5. KnownCache(cl.cache)
    BY <1>3, <1>6, <2>4 DEF KnownCache
  <2> QED
    BY <1>2, <2>1, <2>2, <2>5 DEF Base
<1>7. CASE ListAnswer(k)
  <2>1. PICK list, s : list = Workflows[wf][status[call[k].op.issue]] /\ s = call[k].from
    OBVIOUS
  <2>2. Matched(k, list, [Of(k) EXCEPT !.cache[s] = list], s) /\ call[k].pc = "list"
    BY <1>7, <2>1 DEF ListAnswer
  <2>3. wf \in DOMAIN Workflows /\ status[call[k].op.issue] \in Statuses
    BY <1>1, <2>2, WorkflowAssumption DEF BoardInv
  <2>4. \A x \in list : Known(x)
    BY <2>1, <2>3 DEF Known
  <2>5. Base(k, [Of(k) EXCEPT !.cache[s] = list])
    BY <1>6, <2>4
  <2>6. PICK cl : cl = [Of(k) EXCEPT !.cache[s] = list]
    OBVIOUS
  <2>7. \E next : Over(k, next, cl) \/ Over(k, next, Left(cl, k))
    BY <2>2, <2>6 DEF Matched, Finish
  <2> QED
    BY <1>4, <2>5, <2>6, <2>7
<1>8. CASE Conflict(k) /\ ~call[k].again
  <2>1. PICK cl : cl = [Of(k) EXCEPT !.cache[call[k].from] = Uncached]
    OBVIOUS
  <2>2. \E next : Over(k, next, cl)
    BY <1>8, <2>1 DEF Conflict
  <2>3. Base(k, cl)
    BY <1>6, <2>1
  <2> QED
    BY <1>4, <2>2, <2>3
<1>9. CASE ~ListAnswer(k) /\ ~(Conflict(k) /\ ~call[k].again)
  <2>1. \E next : Over(k, next, Of(k)) \/ Over(k, next, Left(Of(k), k))
    BY <1>9, AnswerClient
  <2> QED
    BY <1>4, <1>5, <2>1
<1> QED
  BY <1>7, <1>8, <1>9

\* A list with or without the target: what is posted leads there.
LEMMA MatchedResult ==
  ASSUME CallInv, ClientInv, NEW k \in Calls, Sent(k), NEW cl, NEW list, NEW from,
         Matched(k, list, cl, from), \A x \in list : Known(x)
  PROVE  Result(call'[k])
<1>1. IsCall(call[k])
  BY RequestCall DEF Sent
<1> DEFINE m == {x \in list : x[2] = call[k].op.to}
<1>2. CASE m = {}
  <2>1. call'[k] = Finished(k, "nopath")
    BY <1>2 DEF Matched, Finish, Over
  <2>2. Finished(k, "nopath").pc = "done" /\ Finished(k, "nopath").res = "nopath"
    BY <1>1, FinishedFacts
  <2> QED
    BY <2>1, <2>2 DEF Result
<1>3. CASE m # {}
  <2>1. PICK y : y = CHOOSE x \in m : TRUE
    OBVIOUS
  <2>2. y \in list /\ y[2] = call[k].op.to /\ Known(y)
    BY <1>3, <2>1
  <2>3. y = <<y[1], y[2]>>
    <3>1. PICK v \in DOMAIN Workflows, s \in Statuses : y \in Workflows[v][s]
      BY <2>2 DEF Known
    <3>2. Workflows[v] \in [Statuses -> SUBSET (STRING \X Statuses)]
      BY WorkflowAssumption
    <3>3. y \in STRING \X Statuses
      BY <3>1, <3>2
    <3> QED
      BY <3>3
  <2>4. PICK f : f = Then(k, "post")
    OBVIOUS
  <2>5. call'[k] = [f EXCEPT !.id = y[1], !.from = from]
    BY <1>3, <2>1, <2>4 DEF Matched, Over
  <2>6. IsCall(f) /\ f.pc = "post" /\ f.op = call[k].op
    BY <1>1, <2>4, ThenFacts DEF Kept
  <2>7. call'[k].pc = "post" /\ call'[k].id = y[1] /\ call'[k].op = call[k].op
    BY <2>5, <2>6 DEF IsCall, Fields
  <2>8. Known(<<call'[k].id, call'[k].op.to>>)
    BY <2>2, <2>3, <2>7
  <2> QED
    BY <2>7, <2>8 DEF Result
<1> QED
  BY <1>2, <1>3

\* transition-discovery.ts, basic-auth-jira.client.ts, statuses.service.ts: what a call answers.
LEMMA AnswerResult ==
  ASSUME AccessInv, HonestInv, NEW k \in Calls, Sent(k), EndsRequest(k),
         \/ TooMany(k) /\ ~(call[k].tries < MaxRetries)
         \/ Broken(k) \/ ContextAnswer(k) \/ ListAnswer(k) \/ WriteAnswer(k) \/ Conflict(k)
         \/ ReadAnswer(k)
  PROVE  Result(call'[k])
<1> USE DEF AccessInv
<1>1. /\ IsCall(call[k]) /\ call[k] # Idle /\ call[k].op.kind \in DOMAIN Stages
      /\ call[k].pc \in Stages[call[k].op.kind] /\ call[k].client \in 1..Len(clients)
      /\ (Write(k) => call[k].op.issue \in Issues)
      /\ Write(k) <=> call[k].pc \in {"queued", "context", "list", "post", "comment"}
  BY RequestCall DEF Sent
<1>2. GoesOn(call[k], call'[k])
  BY OverCalls
<1>3. Result(call[k]) /\ Begins(k)
  BY <1>1 DEF HonestInv
<1>4. ASSUME NEW res, res # "ok", NEW cl, Finish(k, res, cl) PROVE Result(call'[k])
  <2>1. call'[k] = Finished(k, res)
    BY <1>4 DEF Finish, Over
  <2>2. Finished(k, res).pc = "done" /\ Finished(k, res).res = res
    BY <1>1, FinishedFacts
  <2> QED
    BY <1>4, <2>1, <2>2 DEF Result
<1>5. CASE call[k].op.kind \notin {"transition", "search", "find", "statuses"}
  <2>1. call'[k].op = call[k].op /\ call'[k].pc # "post"
    BY <1>1, <1>2, <1>5 DEF GoesOn, Stages
  <2> QED
    BY <1>5, <2>1 DEF Result
<1>6. CASE \/ /\ Broken(k) \/ (TooMany(k) /\ ~(call[k].tries < MaxRetries))
              /\ call[k].pc \notin {"types", "sprints"}
           \/ Conflict(k) /\ call[k].again
  BY <1>4, <1>6 DEF TooMany, Broken, Failed, Conflict
<1>7. CASE call[k].op.kind = "transition" /\ ContextAnswer(k)
  <2>1. PICK from : from = status[call[k].op.issue]
    OBVIOUS
  <2>2. call[k].pc = "context" /\ from \in Statuses
    BY <1>1, <1>7, <2>1 DEF ContextAnswer, BoardInv
  <2>3. CASE Over(k, [Finished(k, "ok") EXCEPT !.was = TRUE], Left(Of(k), k))
    <3>1. PICK f : f = Finished(k, "ok")
      OBVIOUS
    <3>2. call'[k] = [f EXCEPT !.was = TRUE]
      BY <2>3, <3>1 DEF Over
    <3>3. IsCall(f) /\ f.pc = "done" /\ f.op = call[k].op
      BY <1>1, <3>1, FinishedFacts DEF Kept
    <3>4. call'[k].pc = "done" /\ call'[k].op = call[k].op /\ call'[k].was = TRUE
      BY <3>2, <3>3 DEF IsCall, Fields
    <3> QED
      BY <1>7, <3>4 DEF Result
  <2>4. CASE Of(k).cache[from] # Uncached /\ Matched(k, Of(k).cache[from], Of(k), from)
    <3>1. \A x \in Of(k).cache[from] : Known(x)
      BY <1>1, <2>2, <2>4 DEF HonestInv, CacheInv, Of
    <3> QED
      BY <2>4, <3>1, MatchedResult
  <2>5. CASE Over(k, [Then(k, "list") EXCEPT !.from = from], Of(k))
    <3>1. PICK f : f = Then(k, "list")
      OBVIOUS
    <3>2. call'[k] = [f EXCEPT !.from = from]
      BY <2>5, <3>1 DEF Over
    <3>3. IsCall(f) /\ f.pc = "list"
      BY <1>1, <3>1, ThenFacts
    <3>4. call'[k].pc = "list"
      BY <3>2, <3>3 DEF IsCall, Fields
    <3> QED
      BY <3>4 DEF Result
  <2> QED
    BY <1>7, <2>1, <2>3, <2>4, <2>5 DEF ContextAnswer
<1>8. CASE call[k].op.kind = "transition" /\ ListAnswer(k)
  <2>1. PICK list, cl, from :
          Matched(k, list, cl, from) /\ list = Workflows[wf][status[call[k].op.issue]]
    BY <1>8 DEF ListAnswer
  <2>2. wf \in DOMAIN Workflows /\ status[call[k].op.issue] \in Statuses
    BY <1>1, <1>8, WorkflowAssumption, SMTT(30) DEF BoardInv, ListAnswer
  <2>3. \A x \in list : Known(x)
    BY <2>1, <2>2 DEF Known
  <2> QED
    BY <2>1, <2>3, MatchedResult
<1>9. CASE call[k].op.kind = "transition" /\ WriteAnswer(k)
  <2>1. PICK i : i = call[k].op.issue
    OBVIOUS
  <2>2. call[k].pc = "post" /\ i \in Issues /\ Available(k) /\ Apply(k)
    BY <1>1, <1>9, <2>1 DEF WriteAnswer, Stages
  <2>3. PICK f : f = Finished(k, "ok")
    OBVIOUS
  <2>4. PICK w : w = (call[k].pc = "post" /\ status'[i] = call[k].op.to)
    OBVIOUS
  <2>5. call'[k] = [f EXCEPT !.was = w]
    BY <1>9, <2>1, <2>3, <2>4 DEF WriteAnswer, Over
  <2>6. IsCall(f) /\ f.pc = "done" /\ f.op = call[k].op
    BY <1>1, <2>3, FinishedFacts DEF Kept
  <2>7. call'[k].pc = "done" /\ call'[k].op = call[k].op /\ call'[k].was = w
    BY <2>5, <2>6 DEF IsCall, Fields
  <2>8. ASSUME IdsStable PROVE w = TRUE
    <3> DEFINE t == {x \in Workflows[wf][status[i]] : x[1] = call[k].id}
    <3>1. PICK y : y = CHOOSE x \in t : TRUE
      OBVIOUS
    <3>2. t # {} /\ status' = [status EXCEPT ![i] = y[2]]
      BY <2>1, <2>2, <3>1 DEF Available, Apply
    <3>3. y \in Workflows[wf][status[i]] /\ y[1] = call[k].id
      BY <3>1, <3>2
    <3>4. wf \in DOMAIN Workflows /\ status[i] \in Statuses
      BY <2>2, WorkflowAssumption DEF BoardInv
    <3>5. PICK v \in DOMAIN Workflows, s \in Statuses : <<call[k].id, call[k].op.to>> \in Workflows[v][s]
      BY <1>3, <2>2 DEF Result, Known
    <3>6. y[2] = call[k].op.to
      BY <2>8, <3>3, <3>4, <3>5 DEF IdsStable
    <3>7. status'[i] = call[k].op.to
      BY <2>2, <3>2, <3>6 DEF BoardInv
    <3> QED
      BY <2>2, <2>4, <3>7
  <2> QED
    BY <1>9, <2>7, <2>8 DEF Result
<1>10. CASE call[k].op.kind = "transition" /\ Conflict(k) /\ ~call[k].again
  <2>1. PICK f : f = Then(k, "list")
    OBVIOUS
  <2>2. call'[k] = [f EXCEPT !.again = TRUE]
    BY <1>10, <2>1 DEF Conflict, Over
  <2>3. IsCall(f) /\ f.pc = "list"
    BY <1>1, <2>1, ThenFacts
  <2>4. call'[k].pc = "list"
    BY <2>2, <2>3 DEF IsCall, Fields
  <2> QED
    BY <2>4 DEF Result
<1>11. CASE PageAnswer(k)
  <2>1. PICK all : all = call[k].out \cup FirstN(Issues \ call[k].out, PageSize)
    OBVIOUS
  <2>2. PICK f : f = IF all = Issues THEN Finished(k, "ok") ELSE Then(k, "page")
    OBVIOUS
  <2>3. call'[k] = [f EXCEPT !.out = all]
    BY <1>11, <2>1, <2>2 DEF PageAnswer, Over
  <2>4. /\ IsCall(f) /\ f.op = call[k].op
        /\ f.pc = IF all = Issues THEN "done" ELSE "page"
    BY <1>1, <2>2, FinishedFacts, ThenFacts DEF Kept
  <2>5. call'[k].pc = f.pc /\ call'[k].out = all /\ call'[k].op = call[k].op
    BY <2>3, <2>4 DEF IsCall, Fields
  <2>6. call[k].op.kind = "search"
    BY <1>1, <1>11 DEF PageAnswer, Stages
  <2> QED
    BY <2>4, <2>5, <2>6 DEF Result
<1>12. CASE FindAnswer(k)
  <2>1. PICK got, cut, f : /\ got = FirstN(Issues \ Foreign, call[k].op.max)
                           /\ cut = Cut(Cardinality(got), call[k].op.max) /\ f = Finished(k, "ok")
    OBVIOUS
  <2>2. call'[k] = [f EXCEPT !.out = got, !.cut = cut]
    BY <1>12, <2>1 DEF FindAnswer, Over
  <2>3. IsCall(f) /\ f.op = call[k].op /\ f.pc = "done"
    BY <1>1, <2>1, FinishedFacts DEF Kept
  <2>4. /\ call'[k].pc = "done" /\ call'[k].out = got /\ call'[k].cut = cut
        /\ call'[k].op = call[k].op
    BY <2>2, <2>3 DEF IsCall, Fields
  <2>5. call[k].op.kind = "find"
    BY <1>1, <1>12 DEF FindAnswer, Stages
  <2> QED
    BY <2>1, <2>4, <2>5 DEF Result
<1>13. CASE call[k].op.kind = "statuses" /\ ProjectAnswer(k)
  <2>1. PICK f : f = Finished(k, "ok")
    OBVIOUS
  <2>2. call'[k] = [f EXCEPT !.list = wf]
    BY <1>13, <2>1 DEF ProjectAnswer, Over
  <2>3. IsCall(f) /\ f.op = call[k].op /\ f.pc = "done" /\ f.since = call[k].since
    BY <1>1, <2>1, FinishedFacts DEF Kept
  <2>4. /\ call'[k].pc = "done" /\ call'[k].list = wf /\ call'[k].since = call[k].since
        /\ call'[k].op = call[k].op
    BY <2>2, <2>3 DEF IsCall, Fields
  <2>5. wf \in Nat /\ call[k].since <= wf
    BY <1>3, WorkflowAssumption DEF BoardInv, Begins
  <2> QED
    BY <1>13, <2>4, <2>5 DEF Result
<1>14. /\ call[k].op.kind = "transition" => call[k].pc \in {"queued", "context", "list", "post"}
       /\ call[k].op.kind = "search" => call[k].pc = "page"
       /\ call[k].op.kind = "find" => call[k].pc = "find"
       /\ call[k].op.kind = "statuses" => call[k].pc = "project"
  BY <1>1 DEF Stages
<1>15. ASSUME call[k].op.kind \in {"transition", "search", "find", "statuses"}
       PROVE  \/ /\ Broken(k) \/ (TooMany(k) /\ ~(call[k].tries < MaxRetries))
                 /\ call[k].pc \notin {"types", "sprints"}
              \/ Conflict(k) /\ call[k].again
              \/ call[k].op.kind = "transition" /\ ContextAnswer(k)
              \/ call[k].op.kind = "transition" /\ ListAnswer(k)
              \/ call[k].op.kind = "transition" /\ WriteAnswer(k)
              \/ call[k].op.kind = "transition" /\ Conflict(k) /\ ~call[k].again
              \/ PageAnswer(k) \/ FindAnswer(k)
              \/ call[k].op.kind = "statuses" /\ ProjectAnswer(k)
  BY <1>14, <1>15 DEF ContextAnswer, ListAnswer, WriteAnswer, Conflict, ReadAnswer, DetailAnswer,
     ProjectAnswer, TypesAnswer, SprintsAnswer, BoardAnswer
<1> QED
  BY <1>5, <1>6, <1>7, <1>8, <1>9, <1>10, <1>11, <1>12, <1>13, <1>15

\* The end of a request leaves the credentials of every client, and every other client, alone.
LEMMA OverCred ==
  ASSUME CallInv, ClientInv, SlotInv, NEW k \in Calls, Sent(k), EndsRequest(k)
  PROVE  /\ Len(clients') = Len(clients)
         /\ \A d \in 1..Len(clients) : d # call[k].client => clients'[d] = clients[d]
         /\ \A d \in 1..Len(clients) : clients'[d].cred = clients[d].cred
<1>1. PICK next, new :
        Over(k, next, new) /\ GoesOn(call[k], next) /\ GoesOnWith(call[k], next, Of(k), new)
  BY DEF EndsRequest
<1>2. PICK c \in 1..Len(clients) : c = call[k].client
  BY RequestCall DEF Sent
<1>3. PICK freed : freed = ReleaseSlot(new)
  OBVIOUS
<1>4. clients' = [clients EXCEPT ![c] = freed] /\ Freed(new, freed)
  BY <1>1, <1>2, <1>3, OverEffects
<1>5. /\ Len(clients') = Len(clients) /\ clients'[c] = freed
      /\ \A d \in 1..Len(clients) : d # c => clients'[d] = clients[d]
  BY <1>4, ClientReplaced
<1>6. freed.cred = clients[c].cred
  BY <1>1, <1>2, <1>4 DEF Freed, GoesOnWith, Of
<1> QED
  BY <1>2, <1>5, <1>6

\* A transition without a path has not been written: its number is above everything its client has
\* written to the issue.
LEMMA AnswerNotWritten ==
  ASSUME AccessInv, NEW k \in Calls, Sent(k), EndsRequest(k),
         \/ TooMany(k) /\ ~(call[k].tries < MaxRetries)
         \/ Broken(k) \/ ContextAnswer(k) \/ ListAnswer(k) \/ WriteAnswer(k) \/ Conflict(k)
         \/ ReadAnswer(k)
  PROVE  NotWritten(k)'
<1> USE DEF AccessInv
<1>1. /\ IsCall(call[k]) /\ call[k] # Idle /\ call[k].pc # "done"
      /\ call[k].client \in 1..Len(clients) /\ (Write(k) => call[k].op.issue \in Issues)
  BY RequestCall DEF Sent, Requests
<1>2. /\ call'[k].op = call[k].op /\ call'[k].client = call[k].client /\ call'[k].n = call[k].n
  BY OverCalls DEF GoesOn
<1> SUFFICES ASSUME call[k].op.kind = "transition", call'[k].res = "nopath"
             PROVE  \A p \in 1..Len(log'[call[k].op.issue]) :
                      log'[call[k].op.issue][p] # <<call[k].client, call[k].n>>
  BY <1>2 DEF NotWritten
<1>3. log' = log
  <2>1. CASE UNCHANGED jira
    BY <2>1 DEF jira
  <2>2. CASE ~UNCHANGED jira
    <3>1. Available(k) /\ (Broken(k) \/ WriteAnswer(k))
      BY <2>2 DEF TooMany, Broken, ContextAnswer, ListAnswer, WriteAnswer, Conflict, ReadAnswer,
         PageAnswer, FindAnswer, DetailAnswer, ProjectAnswer, TypesAnswer, SprintsAnswer, BoardAnswer,
         Reads
    <3>2. CASE Broken(k)
      <4>1. Over(k, Finished(k, "error"), Left(Of(k), k))
        BY <3>1, <3>2 DEF Broken, Failed, Finish, Available
      <4>2. Finished(k, "error").res = "error"
        BY <1>1, FinishedFacts
      <4>3. call'[k].res = "error"
        BY <4>1, <4>2 DEF Over
      <4> QED
        BY <4>3
    <3>3. CASE WriteAnswer(k)
      <4>1. PICK w : Over(k, [Finished(k, "ok") EXCEPT !.was = w], Left(Of(k), k))
        BY <3>3 DEF WriteAnswer
      <4>2. IsCall(Finished(k, "ok")) /\ Finished(k, "ok").res = "ok"
        BY <1>1, FinishedFacts
      <4>3. call'[k].res = "ok"
        BY <4>1, <4>2 DEF Over, IsCall, Fields
      <4> QED
        BY <4>3
    <3> QED
      BY <3>1, <3>2, <3>3
  <2> QED
    BY <2>1, <2>2
<1>4. PICK i \in Issues, c \in 1..Len(clients) : i = call[k].op.issue /\ c = call[k].client
  BY <1>1 DEF Write
<1>5. Writing(k, c, i)
  BY <1>1, <1>4 DEF Writing, Submitted, Writes
<1>6. ASSUME NEW p \in 1..Len(log[i]) PROVE log[i][p] # <<c, call[k].n>>
  <2>1. call[k].n \in Nat
    BY RequestCall DEF Sent
  <2>2. log[i][p][1] = c => log[i][p][2] < call[k].n
    BY <1>5 DEF QueueInv, QueueSound
  <2> QED
    BY <2>1, <2>2
<1> QED
  BY <1>3, <1>4, <1>6

\* An answer is honest, and everyone else's stays so.
LEMMA AnswerHonest ==
  ASSUME AccessInv, HonestInv, NEW k \in Calls, UNCHANGED <<cred, memo, pool>>,
         \/ TooMany(k) /\ ~(call[k].tries < MaxRetries)
         \/ Broken(k) \/ ContextAnswer(k) \/ ListAnswer(k) \/ WriteAnswer(k) \/ Conflict(k)
         \/ ReadAnswer(k)
  PROVE  HonestInv'
<1>1. Sent(k) /\ EndsRequest(k) /\ InQueue(k)
  BY AnswerKeeps, SentInQueue DEF AccessInv
<1>2. /\ wf' = wf
      /\ \/ log' = log
         \/ /\ Write(k) /\ call[k].pc \in Requests
            /\ log' = [log EXCEPT ![call[k].op.issue] = Append(@, <<call[k].client, call[k].n>>)]
  BY <1>1, AnswerWrites DEF AccessInv, Sent
<1>3. /\ Len(clients') = Len(clients)
      /\ \A d \in 1..Len(clients) : d # call[k].client => clients'[d] = clients[d]
      /\ \A d \in 1..Len(clients) : clients'[d].cred = clients[d].cred
  BY <1>1, OverCred DEF AccessInv
<1>4. Onwards
  <2>1. wf \in Nat /\ cred \in Nat
    BY WorkflowAssumption DEF AccessInv, BoardInv, ClientInv
  <2>2. \A d \in 1..Len(clients) : clients[d].cred \in Nat
    BY DEF AccessInv, ClientInv, IsClient
  <2> QED
    BY <1>2, <1>3, <2>1, <2>2 DEF Onwards
<1>5. call[k].client \in 1..Len(clients) /\ call[k] # Idle
  BY <1>1, RequestCall DEF AccessInv, Sent
<1>6. CacheInv'
  <2>1. KnownCache(clients'[call[k].client].cache)
    BY <1>1, AnswerCache DEF HonestInv
  <2>2. ASSUME NEW d \in 1..Len(clients), NEW s \in Statuses, clients'[d].cache[s] # Uncached
        PROVE  \A x \in clients'[d].cache[s] : Known(x)
    <3>1. CASE d = call[k].client
      BY <2>1, <2>2, <3>1 DEF KnownCache
    <3>2. CASE d # call[k].client
      BY <1>3, <2>2, <3>2 DEF HonestInv, CacheInv
    <3> QED
      BY <3>1, <3>2
  <2> QED
    BY <1>3, <2>2 DEF CacheInv, Known, Uncached
<1>7. Begins(k)' /\ Result(call'[k]) /\ NotWritten(k)'
  <2>1. Result(call'[k]) /\ NotWritten(k)'
    BY <1>1, AnswerResult, AnswerNotWritten
  <2>2. GoesOn(call[k], call'[k]) /\ call[k].op.kind \in DOMAIN Stages
    BY <1>1, OverCalls, RequestCall DEF AccessInv, Sent
  <2>3. call'[k].pc # "client"
    BY <2>2 DEF GoesOn, Stages
  <2>4. Begins(k)
    BY <1>5 DEF HonestInv
  <2>5. Begins(k)'
    BY <1>4, <1>5, <2>2, <2>3, <2>4 DEF Begins, GoesOn, Onwards
  <2> QED
    BY <2>1, <2>5
<1>8. ASSUME NEW x \in Calls \ {k}, call'[x] # Idle
      PROVE  Begins(x)' /\ Result(call'[x]) /\ NotWritten(x)'
  <2>1. /\ call[x] # Idle /\ Kept(call[x], call'[x]) /\ call'[x].pc = call[x].pc
        /\ call'[x].id = call[x].id /\ call'[x].res = call[x].res
    BY <1>1, <1>8, OverCalls DEF AccessInv, Kept, WaitingFor
  <2>2. NotWritten(x)
    BY <2>1 DEF HonestInv
  <2>3. NotWritten(x)'
    BY <1>2, <2>1, <2>2, NotWrittenStays DEF Kept
  <2> QED
    BY <1>4, <2>1, <2>3, HonestStays
<1>9. \A x \in Calls : call'[x] # Idle => Begins(x)' /\ Result(call'[x]) /\ NotWritten(x)'
  BY <1>7, <1>8
<1> QED
  BY <1>6, <1>9 DEF HonestInv, Result, Known, FirstN, Cut, IdsStable, Idle

\* Call x is the same, at most at another place from which it answers nothing yet.
Settled(x) ==
  /\ call[x] # Idle /\ Kept(call[x], call'[x]) /\ call'[x].id = call[x].id
  /\ call'[x].res = call[x].res
  /\ call'[x].pc = call[x].pc \/ call'[x].pc \notin {"client", "post", "done"}

\* A step that writes nothing, caches no list and lets no call but honest ones move.
LEMMA CalmStep ==
  ASSUME AccessInv, HonestInv, Onwards, log' = log,
         \A c \in 1..Len(clients'), s \in Statuses :
           \/ clients'[c].cache[s] = Uncached
           \/ c \in 1..Len(clients) /\ clients'[c].cache[s] = clients[c].cache[s],
         \A x \in Calls : \/ call'[x] = Idle \/ Settled(x)
                          \/ Begins(x)' /\ Result(call'[x]) /\ NotWritten(x)'
  PROVE  HonestInv'
<1>1. CacheInv'
  <2>1. ASSUME NEW c \in 1..Len(clients'), NEW s \in Statuses, clients'[c].cache[s] # Uncached
        PROVE  \A x \in clients'[c].cache[s] : Known(x)
    BY <2>1 DEF HonestInv, CacheInv
  <2> QED
    BY <2>1 DEF CacheInv, Known, Uncached
<1>2. ASSUME NEW x \in Calls, Settled(x) PROVE Begins(x)' /\ Result(call'[x]) /\ NotWritten(x)'
  <2>1. Begins(x) /\ Result(call[x]) /\ NotWritten(x)
    BY <1>2 DEF HonestInv, Settled
  <2>2. call[x].client # 0 => call[x].client \in 1..Len(clients)
    BY <1>2 DEF AccessInv, CallInv, Sound, ClientInv, Settled
  <2>3. Begins(x)'
    BY <1>2, <2>1, <2>2 DEF Begins, Settled, Kept, Onwards
  <2>4. Result(call'[x])
    <3> DEFINE c == call[x]
               d == call'[x]
    <3>1. /\ d.op = c.op /\ d.out = c.out /\ d.cut = c.cut /\ d.list = c.list /\ d.since = c.since
          /\ d.was = c.was /\ d.id = c.id /\ d.res = c.res
          /\ d.pc = c.pc \/ d.pc \notin {"client", "post", "done"}
      BY <1>2 DEF Settled, Kept
    <3>2. Result(c)
      BY <2>1
    <3> HIDE DEF c, d
    <3>3. Result(d)
      BY <3>1, <3>2 DEF Result
    <3> QED
      BY <3>3 DEF d
  <2>5. NotWritten(x)'
    BY <1>2, <2>1 DEF NotWritten, Settled, Kept
  <2> QED
    BY <2>3, <2>4, <2>5
<1>3. \A x \in Calls : call'[x] # Idle => Begins(x)' /\ Result(call'[x]) /\ NotWritten(x)'
  BY <1>2
<1> QED
  BY <1>1, <1>3 DEF HonestInv, Result, Known, FirstN, Cut, IdsStable, Idle

\* Nobody rotates the credentials or edits the workflow.
LEMMA StillOnwards ==
  ASSUME AccessInv, wf' = wf, cred' = cred,
         \A c \in 1..Len(clients) : clients'[c].cred = clients[c].cred
  PROVE  Onwards
<1>1. wf \in Nat /\ cred \in Nat
  BY WorkflowAssumption DEF AccessInv, BoardInv, ClientInv
<1>2. \A c \in 1..Len(clients) : clients[c].cred \in Nat
  BY DEF AccessInv, ClientInv, IsClient
<1> QED
  BY <1>1, <1>2 DEF Onwards

\* The limiter and the queue have no part in what is answered.
LEMMA LimiterHonest ==
  ASSUME AccessInv, HonestInv, NEW k \in Calls, UNCHANGED <<cred, memo, board, local>>,
         \/ Dequeue(k) \/ AcquireSlot(k) \/ AcquireToken(k) \/ Sleep(k)
         \/ TooMany(k) /\ call[k].tries < MaxRetries
  PROVE  HonestInv'
<1> USE DEF AccessInv
<1>1. /\ call[k].pc \in Requests \cup {"queued"} /\ UNCHANGED jira /\ pool' = pool
  BY DEF Dequeue, AcquireSlot, AcquireToken, Sleep, TooMany, Sent, local
<1>2. /\ call[k] # Idle /\ IsCall(call[k]) /\ IsClient(Of(k)) /\ call[k].tries \in 0..MaxRetries
  BY <1>1, RequestCall, LiveCall DEF Sound, Requests
<1>3. PICK c \in 1..Len(clients) : c = call[k].client
  BY <1>1, RequestCall
<1>4. PICK cl : cl = clients[c]
  OBVIOUS
<1>5. \E e : /\ clients' = [clients EXCEPT ![c] = e] /\ e.cred = cl.cred /\ e.cache = cl.cache
  <2>1. IsClient(cl)
    BY <1>2, <1>3, <1>4 DEF Of
  <2>2. CASE AcquireSlot(k)
    <3>1. PICK e : e = IF cl.active < Concurrency THEN [cl EXCEPT !.active = @ + 1]
                       ELSE [cl EXCEPT !.waiters = Append(@, k)]
      OBVIOUS
    <3>2. clients' = [clients EXCEPT ![c] = e]
      BY <1>3, <1>4, <2>2, <3>1 DEF AcquireSlot, Of
    <3>3. e.cred = cl.cred /\ e.cache = cl.cache
      BY <2>1, <3>1 DEF IsClient, ClientFields
    <3> QED
      BY <3>2, <3>3
  <2>3. CASE AcquireToken(k)
    <3>1. PICK e : e = [cl EXCEPT !.tokens = cl.tokens - 1]
      OBVIOUS
    <3>2. clients' = [clients EXCEPT ![c] = e]
      BY <1>3, <1>4, <2>3, <3>1 DEF AcquireToken
    <3>3. e.cred = cl.cred /\ e.cache = cl.cache
      BY <2>1, <3>1 DEF IsClient, ClientFields
    <3> QED
      BY <3>2, <3>3
  <2>4. CASE UNCHANGED clients
    <3>1. clients' = [clients EXCEPT ![c] = cl]
      BY <1>4, <2>4 DEF ClientInv
    <3> QED
      BY <3>1
  <2> QED
    BY <2>2, <2>3, <2>4 DEF Dequeue, Sleep, TooMany
<1>6. PICK e : /\ clients' = [clients EXCEPT ![c] = e] /\ e.cred = cl.cred /\ e.cache = cl.cache
  BY <1>5
<1>7. /\ Len(clients') = Len(clients)
      /\ \A d \in 1..Len(clients) :
           clients'[d].cred = clients[d].cred /\ clients'[d].cache = clients[d].cache
  BY <1>4, <1>6, ClientReplaced
<1>8. Onwards
  BY <1>1, <1>7, StillOnwards DEF jira
<1>9. \A x \in Calls : Settled(x) \/ call'[x] = call[x]
  <2>1. CASE Dequeue(k)
    <3>1. PICK pc \in {"comment", "context"} : call' = [call EXCEPT ![k].pc = pc]
      BY <2>1 DEF Dequeue
    <3>2. PICK a : a = call[k]
      OBVIOUS
    <3>3. call'[k] = [a EXCEPT !.pc = pc] /\ \A x \in Calls \ {k} : call'[x] = call[x]
      BY <3>1, <3>2 DEF CallInv
    <3>4. Kept(a, call'[k])
      BY <1>2, <3>2, <3>3 DEF IsCall, Fields, Kept
    <3>5. call'[k].pc = pc /\ call'[k].id = a.id /\ call'[k].res = a.res
      BY <1>2, <3>2, <3>3 DEF IsCall, Fields
    <3> QED
      BY <1>2, <3>2, <3>3, <3>4, <3>5 DEF Settled
  <2>2. CASE ~Dequeue(k)
    <3>1. call[k].pc \in Requests
      BY <2>2 DEF AcquireSlot, AcquireToken, Sleep, TooMany, Sent
    <3>2. 0 \in 0..MaxRetries /\ (call[k].tries < MaxRetries => call[k].tries + 1 \in 0..MaxRetries)
      BY <1>2, ClientAssumption
    <3>3. \E rq \in {"slot", "token", "sent", "sleep"}, tries \in 0..MaxRetries : Moves(k, rq, tries)
      <4>1. CASE AcquireSlot(k)
        <5>1. PICK rq \in {"slot", "token"} : call' = [call EXCEPT ![k].rq = rq, ![k].tries = 0]
          BY <4>1 DEF AcquireSlot
        <5> QED
          BY <3>2, <5>1 DEF Moves
      <4>2. CASE AcquireToken(k)
        BY <3>2, <4>2 DEF AcquireToken, Moves
      <4>3. CASE Sleep(k)
        BY <3>2, <4>3 DEF Sleep, Moves
      <4>4. CASE TooMany(k) /\ call[k].tries < MaxRetries
        <5>1. PICK tries \in 0..MaxRetries : tries = call[k].tries + 1
          BY <3>2, <4>4
        <5>2. call' = [call EXCEPT ![k].rq = "sleep", ![k].tries = tries]
          BY <4>4, <5>1 DEF TooMany, CallInv
        <5> QED
          BY <5>2 DEF Moves
      <4> QED
        BY <2>2, <4>1, <4>2, <4>3, <4>4
    <3>4. PICK rq \in {"slot", "token", "sent", "sleep"}, tries \in 0..MaxRetries : Moves(k, rq, tries)
      BY <3>3
    <3>5. /\ \A x \in Calls \ {k} : call'[x] = call[x]
          /\ call'[k].pc = call[k].pc /\ Kept(call[k], call'[k]) /\ call'[k].id = call[k].id
          /\ call'[k].res = call[k].res
      BY <1>1, <1>7, <3>1, <3>4, RequestMoves
    <3> QED
      BY <1>2, <3>5 DEF Settled
  <2> QED
    BY <2>1, <2>2
<1>10. \A x \in Calls : call'[x] = Idle \/ Settled(x)
  BY <1>9 DEF Settled, Kept
<1>11. log' = log
  BY <1>1 DEF jira
<1> QED
  BY <1>7, <1>8, <1>10, <1>11, CalmStep

\* Calls begin, read the row, and come back.
LEMMA CallerHonest ==
  ASSUME AccessInv, HonestInv, NEW k \in Calls, Begin(k) \/ ReadRow(k) \/ Return(k)
  PROVE  HonestInv'
<1> USE DEF AccessInv
<1>1. /\ UNCHANGED <<clients, jira, cred, memo, pool>> /\ log' = log /\ wf' = wf
  BY DEF Begin, ReadRow, Return, local, jira
<1>2. Onwards
  BY <1>1, StillOnwards
<1>3. wf \in Nat /\ cred \in Nat
  BY <1>2 DEF Onwards
<1>4. PICK d : call' = [call EXCEPT ![k] = d]
  <2>1. CASE Begin(k)
    BY <2>1 DEF Begin
  <2>2. CASE ReadRow(k)
    BY <2>2 DEF ReadRow
  <2>3. CASE Return(k)
    BY <2>3 DEF Return
  <2> QED
    BY <2>1, <2>2, <2>3
<1>5. call'[k] = d /\ \A x \in Calls \ {k} : call'[x] = call[x]
  BY <1>4 DEF CallInv
<1>6. d = Idle \/ (Begins(k)' /\ Result(d) /\ NotWritten(k)')
  <2>1. CASE Begin(k)
    <3>1. PICK op \in Pools[pool].ops :
            call' = [call EXCEPT ![k] =
              IF Cached(op) THEN [NewCall(op) EXCEPT !.pc = "done", !.res = "ok", !.list = board]
              ELSE NewCall(op)]
      BY <2>1 DEF Begin
    <3>2. PICK c : c = NewCall(op)
      OBVIOUS
    <3>3. /\ IsCall(c) /\ c.op = op /\ c.pc = "row" /\ c.client = 0
          /\ c.asOf = cred /\ (c.since = wf \/ c.since = 0)
      BY <3>2 DEF NewCall, IsCall, Fields
    <3>4. CASE ~Cached(op)
      <4>1. d = c
        BY <1>5, <3>1, <3>2, <3>4 DEF CallInv
      <4>2. Begins(k)'
        BY <1>1, <1>3, <1>5, <3>3, <4>1 DEF Begins
      <4> QED
        BY <1>5, <3>3, <4>1, <4>2 DEF Result, NotWritten
    <3>5. CASE Cached(op)
      <4>1. d = [c EXCEPT !.pc = "done", !.res = "ok", !.list = board]
        BY <1>5, <3>1, <3>2, <3>5 DEF CallInv
      <4>2. /\ d.op = op /\ d.pc = "done" /\ d.res = "ok" /\ d.client = 0 /\ d.asOf = cred
            /\ (d.since = wf \/ d.since = 0)
        BY <3>3, <4>1 DEF IsCall, Fields
      <4>3. op.kind = "statuses" /\ ~op.refresh
        BY <3>5 DEF Cached
      <4>4. Begins(k)'
        BY <1>1, <1>3, <1>5, <4>2 DEF Begins
      <4> QED
        BY <1>5, <4>2, <4>3, <4>4 DEF Result, NotWritten
    <3> QED
      BY <3>4, <3>5
  <2>2. CASE ReadRow(k)
    <3>1. PICK a : a = call[k]
      OBVIOUS
    <3>2. a.pc = "row" /\ a # Idle /\ Sound(a, Pools[pool].ops, Len(clients))
      BY <2>2, <3>1, LiveCall DEF ReadRow
    <3>3. d = [a EXCEPT !.pc = "done", !.res = "auth"] \/ d = [a EXCEPT !.pc = "client", !.seen = cred]
      BY <1>5, <2>2, <3>1 DEF ReadRow, CallInv
    <3>4. /\ d.client = 0 /\ d.asOf = a.asOf /\ d.since = a.since
          /\ (d.pc = "done" /\ d.res = "auth") \/ (d.pc = "client" /\ d.seen = cred)
      BY <3>2, <3>3 DEF Sound, IsCall, Fields
    <3>5. Begins(k)
      BY <3>1, <3>2 DEF HonestInv
    <3>6. Begins(k)'
      BY <1>1, <1>5, <3>1, <3>4, <3>5 DEF Begins
    <3> QED
      BY <1>5, <3>4, <3>6 DEF Result, NotWritten
  <2>3. CASE Return(k)
    BY <1>5, <2>3 DEF Return, CallInv
  <2> QED
    BY <2>1, <2>2, <2>3
<1>7. \A x \in Calls \ {k} : call'[x] = Idle \/ Settled(x)
  BY <1>5 DEF Settled, Kept
<1>8. \A x \in Calls : \/ call'[x] = Idle \/ Settled(x)
                       \/ Begins(x)' /\ Result(call'[x]) /\ NotWritten(x)'
  BY <1>5, <1>6, <1>7
<1>9. \A c \in 1..Len(clients'), s \in Statuses :
        c \in 1..Len(clients) /\ clients'[c].cache[s] = clients[c].cache[s]
  BY <1>1
<1> QED
  BY <1>1, <1>2, <1>8, <1>9, CalmStep

\* The client a call is given has the credentials of the row the call has read.
LEMMA ResolveHonest ==
  ASSUME AccessInv, HonestInv, NEW k \in Calls, ResolveClient(k)
  PROVE  HonestInv'
<1> USE DEF AccessInv
<1>1. PICK id, cl, own, d : Resolves(k, id, cl, own, d)
  BY ResolveForm
<1>2. PICK a : a = call[k]
  OBVIOUS
<1>3. /\ a.pc = "client" /\ a # Idle /\ Sound(a, Pools[pool].ops, Len(clients))
      /\ a.op.kind \in DOMAIN Stages /\ UNCHANGED <<jira, cred, pool>>
  BY <1>2, LiveCall DEF ResolveClient, local
<1>4. log' = log /\ wf' = wf /\ cred' = cred
  BY <1>3 DEF jira
<1>5. /\ clients'[id] = own
      /\ \A c \in 1..Len(clients') : c # id => c \in 1..Len(clients) /\ clients'[c] = clients[c]
      /\ \A c \in 1..Len(clients) : clients'[c].cred = clients[c].cred
      /\ id \in 1..Len(clients) => own.cache = clients[id].cache
      /\ id \notin 1..Len(clients) => \A s \in Statuses : own.cache[s] = Uncached
  <2>1. CASE id \in 1..Len(clients) /\ cl = clients[id] /\ clients' = [clients EXCEPT ![id] = own]
    <3>1. own.cred = cl.cred /\ own.cache = cl.cache
      BY <1>1 DEF Resolves
    <3> QED
      BY <2>1, <3>1, ClientReplaced
  <2>2. CASE id = Len(clients) + 1 /\ cl = NewClient(call[k].seen) /\ clients' = Append(clients, own)
    <3>1. own.cache = cl.cache /\ call[k].seen \in Nat /\ Len(clients) \in Nat
      BY <1>1, <1>2, <1>3 DEF Resolves, Sound, ClientInv
    <3>2. \A s \in Statuses : own.cache[s] = Uncached
      BY <2>2, <3>1, BuiltClient
    <3>3. id \notin 1..Len(clients)
      BY <2>2, <3>1
    <3>4. /\ Len(clients') = Len(clients) + 1 /\ clients'[id] = own
          /\ \A i \in 1..Len(clients) : clients'[i] = clients[i]
      BY <2>2, ClientBuilt
    <3>5. \A c \in 1..Len(clients') : c # id => c \in 1..Len(clients)
      BY <2>2, <3>1, <3>4
    <3> QED
      BY <3>2, <3>3, <3>4, <3>5
  <2> QED
    BY <1>1, <2>1, <2>2 DEF Resolves
<1>6. Onwards
  BY <1>4, <1>5, StillOnwards
<1>7. /\ d.op = a.op /\ d.pc = FirstOf(d.op) /\ d.client = id /\ d.asOf = a.asOf /\ d.since = a.since
      /\ own.cred = a.seen /\ call' = [call EXCEPT ![k] = d]
  BY <1>1, <1>2 DEF Resolves
<1>8. d.pc \notin {"client", "post", "done"}
  BY <1>3, <1>7 DEF FirstOf, Stages
<1>9. call'[k] = d /\ \A x \in Calls \ {k} : call'[x] = call[x]
  BY <1>7 DEF CallInv
<1>10. Begins(k)
  BY <1>2, <1>3 DEF HonestInv
<1>11. Begins(k)'
  BY <1>2, <1>3, <1>4, <1>5, <1>7, <1>8, <1>9, <1>10 DEF Begins
<1>12. Result(d) /\ NotWritten(k)'
  BY <1>8, <1>9 DEF Result, NotWritten
<1>13. \A x \in Calls \ {k} : call'[x] = Idle \/ Settled(x)
  BY <1>9 DEF Settled, Kept
<1>14. \A x \in Calls : \/ call'[x] = Idle \/ Settled(x)
                        \/ Begins(x)' /\ Result(call'[x]) /\ NotWritten(x)'
  BY <1>9, <1>11, <1>12, <1>13
<1>15. \A c \in 1..Len(clients'), s \in Statuses :
         \/ clients'[c].cache[s] = Uncached
         \/ c \in 1..Len(clients) /\ clients'[c].cache[s] = clients[c].cache[s]
  BY <1>5
<1> QED
  BY <1>4, <1>6, <1>14, <1>15, CalmStep

\* Others and the clock let no call move: versions grow, and a cached list at most expires.
LEMMA OthersHonest ==
  ASSUME AccessInv, HonestInv,
         \/ Refilling \/ TransitionsExpire \/ Rotate \/ EditWorkflow \/ BoardExpires
         \/ \E i \in Issues : MoveByHand(i)
  PROVE  HonestInv'
<1> USE DEF AccessInv
<1>1. UNCHANGED <<call, log, pool>>
  BY OthersKeep
<1>2. /\ Len(clients') = Len(clients)
      /\ \A d \in 1..Len(clients), s \in Statuses :
           /\ clients'[d].cred = clients[d].cred
           /\ clients'[d].cache[s] = Uncached \/ clients'[d].cache[s] = clients[d].cache[s]
  <2>1. CASE UNCHANGED clients
    BY <2>1
  <2>2. CASE Refilling \/ TransitionsExpire
    <3>1. PICK c \in DOMAIN clients : Refill(c) \/ \E s \in Statuses : CacheExpires(c, s)
      BY <2>2 DEF Refilling, TransitionsExpire
    <3>2. c \in 1..Len(clients) /\ IsClient(clients[c])
      BY <3>1 DEF ClientInv
    <3>3. PICK cl : cl = clients[c]
      OBVIOUS
    <3>4. \E e : /\ clients' = [clients EXCEPT ![c] = e] /\ e.cred = cl.cred
                 /\ \A s \in Statuses : e.cache[s] = Uncached \/ e.cache[s] = cl.cache[s]
      <4>1. CASE Refill(c)
        <5>1. PICK e : e = [cl EXCEPT !.tokens = cl.tokens + 1]
          OBVIOUS
        <5>2. clients' = [clients EXCEPT ![c] = e]
          BY <3>3, <4>1, <5>1 DEF Refill
        <5>3. e.cred = cl.cred /\ e.cache = cl.cache
          BY <3>2, <3>3, <5>1 DEF IsClient, ClientFields
        <5> QED
          BY <5>2, <5>3
      <4>2. CASE \E s \in Statuses : CacheExpires(c, s)
        <5>1. PICK u \in Statuses : CacheExpires(c, u)
          BY <4>2
        <5>2. PICK none, cache : none = Uncached /\ cache = [cl.cache EXCEPT ![u] = none]
          OBVIOUS
        <5>3. PICK e : e = [cl EXCEPT !.cache = cache]
          OBVIOUS
        <5>4. clients' = [clients EXCEPT ![c] = e]
          BY <3>3, <5>1, <5>2, <5>3 DEF CacheExpires
        <5>5. e.cred = cl.cred /\ e.cache = cache
          BY <3>2, <3>3, <5>3 DEF IsClient, ClientFields
        <5>6. \A s \in Statuses : cache[s] = none \/ cache[s] = cl.cache[s]
          BY <3>2, <3>3, <5>2 DEF IsClient
        <5>7. \A s \in Statuses : e.cache[s] = Uncached \/ e.cache[s] = cl.cache[s]
          BY <5>2, <5>5, <5>6, Zenon
        <5> QED
          BY <5>4, <5>5, <5>7
      <4> QED
        BY <3>1, <4>1, <4>2
    <3>5. PICK e : /\ clients' = [clients EXCEPT ![c] = e] /\ e.cred = cl.cred
                   /\ \A s \in Statuses : e.cache[s] = Uncached \/ e.cache[s] = cl.cache[s]
      BY <3>4
    <3>6. /\ Len(clients') = Len(clients) /\ clients'[c] = e
          /\ \A d \in 1..Len(clients) : d # c => clients'[d] = clients[d]
      BY <3>2, <3>5, ClientReplaced
    <3> QED
      BY <3>3, <3>5, <3>6
  <2> QED
    BY <2>1, <2>2 DEF Rotate, EditWorkflow, BoardExpires, MoveByHand
<1>3. Onwards
  <2>1. wf \in Nat /\ cred \in Nat
    BY WorkflowAssumption DEF BoardInv, ClientInv
  <2>2. \A c \in 1..Len(clients) : clients'[c].cred = clients[c].cred /\ clients[c].cred \in Nat
    <3>1. \A c \in 1..Len(clients) : clients[c].cred \in Nat
      BY DEF ClientInv, IsClient
    <3>2. \A c \in 1..Len(clients) : clients'[c].cred = clients[c].cred
      <4>1. "todo" \in Statuses
        BY WorkflowAssumption
      <4> QED
        BY <1>2, <4>1
    <3> QED
      BY <3>1, <3>2
  <2>3. wf' \in {wf, wf + 1} /\ cred' \in {cred, cred + 1}
    BY DEF Refilling, TransitionsExpire, Rotate, EditWorkflow, BoardExpires, MoveByHand, Refill,
       CacheExpires, jira
  <2> QED
    BY <2>1, <2>2, <2>3 DEF Onwards
<1>4. \A x \in Calls : call'[x] = Idle \/ Settled(x)
  BY <1>1 DEF Settled, Kept
<1> QED
  BY <1>1, <1>2, <1>3, <1>4, CalmStep

\* Every step keeps the answers honest.
LEMMA HonestStep ==
  ASSUME AccessInv, HonestInv, [Next]_vars
  PROVE  HonestInv'
<1>1. CASE UNCHANGED vars
  <2>1. UNCHANGED <<call, clients, wf, log, cred>>
    BY <1>1 DEF vars, jira
  <2>2. Onwards
    BY <2>1, StillOnwards
  <2>3. \A x \in Calls : call'[x] = Idle \/ Settled(x)
    BY <2>1 DEF Settled, Kept
  <2> QED
    BY <2>1, <2>2, <2>3, CalmStep
<1>2. ASSUME NEW k \in Calls, Begin(k) \/ CallStep(k) PROVE HonestInv'
  <2>1. CASE Begin(k) \/ ReadRow(k) \/ Return(k)
    BY <2>1, CallerHonest
  <2>2. CASE ResolveClient(k)
    BY <2>2, ResolveHonest
  <2>3. CASE ReadAnswer(k)
    <3>1. UNCHANGED <<cred, memo, pool>>
      BY <2>3 DEF ReadAnswer, PageAnswer, FindAnswer, DetailAnswer, ProjectAnswer, TypesAnswer,
         SprintsAnswer, BoardAnswer, Reads, local
    <3> QED
      BY <2>3, <3>1, AnswerHonest
  <2>4. CASE ClientStep(k)
    <3>1. UNCHANGED <<cred, memo, board, local>> /\ pool' = pool
      BY <2>4 DEF ClientStep, local
    <3>2. CASE \/ Dequeue(k) \/ AcquireSlot(k) \/ AcquireToken(k) \/ Sleep(k)
               \/ TooMany(k) /\ call[k].tries < MaxRetries
      BY <3>1, <3>2, LimiterHonest
    <3>3. CASE \/ TooMany(k) /\ ~(call[k].tries < MaxRetries)
               \/ Broken(k) \/ ContextAnswer(k) \/ ListAnswer(k) \/ WriteAnswer(k) \/ Conflict(k)
      BY <3>1, <3>3, AnswerHonest
    <3> QED
      BY <2>4, <3>2, <3>3 DEF ClientStep
  <2> QED
    BY <1>2, <2>1, <2>2, <2>3, <2>4 DEF CallStep
<1>3. CASE \/ Refilling \/ TransitionsExpire \/ Rotate \/ EditWorkflow \/ BoardExpires
           \/ \E i \in Issues : MoveByHand(i)
  BY <1>3, OthersHonest
<1> QED
  BY <1>1, <1>2, <1>3 DEF Next

\* No call has answered yet.
LEMMA HonestInit == Init => HonestInv
<1> SUFFICES ASSUME Init PROVE HonestInv
  OBVIOUS
<1>1. call = [k \in Calls |-> Idle] /\ Len(clients) = 0 /\ 1..0 = {}
  BY DEF Init
<1> QED
  BY <1>1 DEF HonestInv, CacheInv

\* The answers are honest in every state of every behaviour.
LEMMA HonestAlways == Spec => []HonestInv
<1>1. Init => HonestInv
  BY HonestInit
<1>2. AccessInv /\ HonestInv /\ [Next]_vars => HonestInv'
  BY HonestStep
<1> QED
  BY <1>1, <1>2, AccessAlways, PTL DEF Spec

\* lazy-jira.client.ts, jira-client-factory.ts, JiraReadService.search, searchUpdated,
\* statuses.service.ts: whatever the workflow of the board is and becomes, no call goes out with
\* credentials older than those stored at its start, a search that is not marked is complete, and a
\* refresh is as new as its start.
THEOREM AccessReadsHonest == Spec => [](SearchHonest /\ RefreshIsFresh /\ FreshCredentials)
<1>1. AccessInv /\ HonestInv => SearchHonest /\ RefreshIsFresh /\ FreshCredentials
  <2> SUFFICES ASSUME AccessInv, HonestInv PROVE SearchHonest /\ RefreshIsFresh /\ FreshCredentials
    OBVIOUS
  <2>1. \A k \in Calls : call[k].pc = "done" => call[k] # Idle
    BY DEF Idle
  <2>2. FreshCredentials
    BY DEF FreshCredentials, HonestInv, Begins
  <2>3. RefreshIsFresh
    <3> SUFFICES ASSUME NEW k \in Calls, call[k].pc = "done", call[k].op.kind = "statuses",
                        call[k].res = "ok", call[k].op.refresh
                 PROVE  call[k].list >= call[k].since
      BY DEF RefreshIsFresh
    <3>1. Begins(k) /\ Result(call[k])
      BY <2>1 DEF HonestInv
    <3>2. call[k].list \in Nat /\ call[k].since \in Nat /\ call[k].since <= call[k].list
      BY <3>1 DEF Begins, Result
    <3> QED
      BY <3>2
  <2>4. SearchHonest
    <3> SUFFICES ASSUME NEW k \in Calls, call[k].pc = "done", call[k].res = "ok"
                 PROVE  /\ call[k].op.kind = "search" => call[k].out = Issues
                        /\ (call[k].op.kind = "find" /\ ~call[k].cut) =>
                             Issues \ Foreign \subseteq call[k].out
      BY DEF SearchHonest
    <3>1. Result(call[k]) /\ call[k].op \in Pools[pool].ops /\ pool \in DOMAIN Pools
      BY <2>1 DEF HonestInv, AccessInv, CallInv, Sound
    <3>2. ASSUME call[k].op.kind = "find", ~call[k].cut PROVE Issues \ Foreign \subseteq call[k].out
      <4>1. PICK n, own : n = call[k].op.max /\ own = Issues \ Foreign
        OBVIOUS
      <4>2. n \in Nat /\ own \in SUBSET Nat /\ IsFiniteSet(own)
        BY <3>1, <3>2, <4>1, OpsAssumption, ClientAssumption, FS_Subset
      <4>3. call[k].out = FirstN(own, n) /\ ~(Cardinality(FirstN(own, n)) >= n)
        BY <3>1, <3>2, <4>1 DEF Result, Cut
      <4> QED
        BY <4>1, <4>2, <4>3, FirstNAll
    <3>3. call[k].op.kind = "search" => call[k].out = Issues
      BY <3>1 DEF Result
    <3> QED
      BY <3>2, <3>3
  <2> QED
    BY <2>2, <2>3, <2>4
<1> QED
  BY <1>1, AccessAlways, HonestAlways, PTL

\* transition-discovery.ts and the reads above: when an id of a transition means the same target
\* wherever Jira offers it, a transition that is reported as done has happened, and one without a path
\* has written nothing.
THEOREM AccessAnswersHonest == ASSUME IdsStable PROVE Spec => []AnswersHonest
<1>1. AccessInv /\ HonestInv => TransitionHonest
  <2> SUFFICES ASSUME AccessInv, HonestInv, NEW k \in Calls, call[k].pc = "done",
                      call[k].op.kind = "transition"
               PROVE  /\ call[k].res = "ok" => call[k].was
                      /\ call[k].res = "nopath" =>
                           <<call[k].client, call[k].n>> \notin ToSet(log[call[k].op.issue])
    BY DEF TransitionHonest
  <2>1. call[k] # Idle
    BY DEF Idle
  <2>2. Result(call[k]) /\ NotWritten(k)
    BY <2>1 DEF HonestInv
  <2>3. call[k].res = "ok" => call[k].was
    BY <2>2 DEF Result
  <2>4. ASSUME call[k].res = "nopath"
        PROVE  <<call[k].client, call[k].n>> \notin ToSet(log[call[k].op.issue])
    <3>1. PICK i, w : i = call[k].op.issue /\ w = <<call[k].client, call[k].n>>
      OBVIOUS
    <3>2. i \in Issues
      BY <2>1, <3>1, LiveCall DEF AccessInv, Write
    <3>3. log[i] \in Seq(Nat \X Nat)
      BY <3>2 DEF AccessInv, BoardInv
    <3>4. \A p \in 1..Len(log[i]) : log[i][p] # w
      BY <2>2, <2>4, <3>1 DEF NotWritten
    <3>5. w \notin ToSet(log[i])
      BY <3>3, <3>4 DEF ToSet
    <3> QED
      BY <3>1, <3>5
  <2> QED
    BY <2>3, <2>4
<1>2. TransitionHonest /\ (SearchHonest /\ RefreshIsFresh /\ FreshCredentials) => AnswersHonest
  BY DEF AnswersHonest
<1> QED
  BY <1>1, <1>2, AccessAlways, HonestAlways, AccessReadsHonest, PTL
=============================================================================
