-------------------------- MODULE OperatorViewsProofs --------------------------
(***************************************************************************)
(* The pages an operator looks at, for any streams, scripts, stories and   *)
(* shows that the constants allow.  A step of one page leaves the          *)
(* variables of the others alone, so each page has an invariant of its     *)
(* own, which its own steps preserve and every other step leaves           *)
(* unchanged.                                                              *)
(*                                                                         *)
(* ChannelInv: a call is answered "ok" only if the server has accepted it  *)
(* (AnswersTrue), a report that was taken has ended the run                *)
(* (ReportStands), a breadcrumb is of a call that is over, wherever it has *)
(* got to, and as long as no two ingests have overlapped it is in one      *)
(* place only (RecordsAreOver, RecordsApart).                              *)
(*                                                                         *)
(* PromptInv: what a run has been told so far is what its chain, its       *)
(* trigger event and the settings said when each was read (EventTold,      *)
(* SettingsTold), and a receipt in hand is of commits that the completion  *)
(* of the run has vouched for (Receipts).                                  *)
(*                                                                         *)
(* MockInv: a row is where its job has got to (RunsFit, the same relation  *)
(* for every scenario), and the slots bound the jobs that are under way    *)
(* (QueueBounded), hence the runs of a model over its cap (CapsHold).      *)
(***************************************************************************)
EXTENDS OperatorViews, FiniteSetTheorems, SequenceTheorems, TLAPS

-----------------------------------------------------------------------------
\* The channel of a run: its inductive invariant.

Steps == {"idle", "scan", "claimed", "read"}
Paths == {"exit", "sweep"}
Whos  == {Nobody.id} \cup {c.id : c \in script.calls}
Kinds == {"channel_down", "channel_failure", "undelivered_report"}
Holding(p) == ingest[p] \in {"claimed", "read"}

CallStates == [st : {"idle", "ready", "wait", "taken", "over"}, net : Nat, srv : Nat,
               result : {NoResult, "gave up", "ok", "refused"}]
Requests   == [call : script.calls, n : Nat, ans : {0, 200, 409, 422, 500}]
EventRows  == [kind : Kinds, who : Whos, at : Nat]

CallTypes == script \in Scripts /\ calls \in [script.calls -> CallStates] /\ wire \subseteq Requests

RunTypes ==
  /\ run \in {"queued", "running", "parked"} \cup EndStates
  /\ alive \in BOOLEAN /\ marker \in BOOLEAN
  /\ accepted \subseteq script.calls
  /\ outbox \in script.calls \cup {Nobody} /\ latest \in script.calls \cup {Nobody}

RecordTypes ==
  /\ crumbs \subseteq script.calls /\ claim \subseteq script.calls /\ overlapped \in BOOLEAN
  /\ ingest \in [Paths -> Steps] /\ held \in [Paths -> SUBSET script.calls]
  /\ clock \in Nat /\ events \in Seq(EventRows)

ChannelTypes == CallTypes /\ RunTypes /\ RecordTypes

\* An answer under way is as true as the one the agent has got, and the outbox goes
\* only for a report that was taken.
AnswersTrue ==
  /\ \A q \in wire : q.ans = 200 => q.call \in accepted
  /\ \A c \in script.calls : calls[c].st = "taken" => c.tool = "complete" /\ calls[c].result = "ok"

\* A report that was taken has ended the run, and nothing before the run counts.
ReportStands ==
  /\ \A c \in accepted : c.tool = "complete" => run = "reported"
  /\ run = "queued" => ~alive /\ latest = Nobody

\* A record is of a call that is over, wherever the record has got to.
RecordsAreOver ==
  \A c \in script.calls :
    c \in crumbs \cup claim \/ (\E p \in Paths : c \in held[p]) \/ RecordsOf(c) # {} => calls[c].st = "over"

\* Without an overlap a record is in one place, and one path at most is at work.
RecordsApart ==
  ~overlapped =>
    /\ crumbs \cap claim = {}
    /\ \A c \in crumbs \cup claim : RecordsOf(c) = {}
    /\ \A p \in Paths : ingest[p] = "read" => held[p] = claim
    /\ \A p, o \in Paths : Holding(p) /\ Holding(o) => p = o

\* Between the two queries of the health page, what was counted is still there.
CountedIsThere ==
  health.pc = "counted" /\ (health.downs >= 1 \/ health.failures >= Threshold) => affectedSince(health.start) # {}

ChannelInv ==
  /\ ChannelTypes /\ AnswersTrue /\ ReportStands /\ RecordsAreOver /\ RecordsApart /\ CountedIsThere
  /\ ToldTheTruth /\ ReportKept /\ CrumbsAccounted /\ CrumbsOnce /\ HealthNamesARun

\* An event of the run itself adds no record of a call and hides no event.
LEMMA RunEventAdded ==
  ASSUME ChannelTypes, NEW kind \in Kinds \ {"channel_failure"}, events' = Append(events, AnEvent(kind, Nobody.id)),
         UNCHANGED <<script, clock>>
  PROVE  /\ events' \in Seq(EventRows')
         /\ \A c : RecordsOf(c)' = RecordsOf(c)
         /\ \A start : affectedSince(start) \subseteq affectedSince(start)'
<1> DEFINE e == AnEvent(kind, Nobody.id)
<1>1. e \in EventRows /\ events \in Seq(EventRows) /\ EventRows' = EventRows
  BY DEF ChannelTypes, RecordTypes, AnEvent, EventRows, Whos, Kinds
<1>2. /\ events' \in Seq(EventRows) /\ Len(events') = Len(events) + 1 /\ Len(events) \in Nat
      /\ DOMAIN events' = 1..(Len(events) + 1) /\ DOMAIN events = 1..Len(events)
      /\ events'[Len(events) + 1] = e /\ \A i \in 1..Len(events) : events'[i] = events[i]
  BY <1>1
<1>3. e.kind = kind
  BY DEF AnEvent
<1>4. ASSUME NEW c PROVE RecordsOf(c)' = RecordsOf(c)
  BY <1>2, <1>3 DEF RecordsOf
<1>5. ASSUME NEW start PROVE affectedSince(start) \subseteq affectedSince(start)'
  BY <1>2 DEF affectedSince, EventsSince
<1> QED
  BY <1>1, <1>2, <1>4, <1>5

\* The library's enumeration of a finite set has every element once.
LEMMA Enumerated ==
  ASSUME NEW S, IsFiniteSet(S)
  PROVE  /\ Cardinality(S) \in Nat /\ SetToSeq(S) \in [1..Cardinality(S) -> S]
         /\ \A i, j \in 1..Cardinality(S) : SetToSeq(S)[i] = SetToSeq(S)[j] => i = j
         /\ \A x \in S : \E i \in 1..Cardinality(S) : SetToSeq(S)[i] = x
<1> DEFINE n == Cardinality(S)
<1>1. n \in Nat /\ ExistsBijection(1..n, S)
  BY FS_CardinalityType
<1>2. \E f \in [1..n -> S] : IsInjective(f)
  BY <1>1 DEF ExistsBijection, Bijection, Injection, IsInjective
<1>3. SetToSeq(S) \in [1..n -> S] /\ IsInjective(SetToSeq(S))
  BY <1>2 DEF SetToSeq
<1>4. IsFiniteSet(1..n) /\ Cardinality(1..n) = n
  BY <1>1, FS_Interval
<1>5. SetToSeq(S) \in Injection(1..n, S)
  BY <1>3 DEF Injection, IsInjective
<1>6. SetToSeq(S) \in Surjection(1..n, S)
  BY <1>4, <1>5, FS_Injection
<1> QED
  BY <1>1, <1>3, <1>6 DEF IsInjective, Surjection

\* What follows the last row of a sequence, as a function and behind another one.
LEMMA Appended ==
  ASSUME NEW S, NEW a \in Seq(S), NEW n \in Nat, NEW b \in [1..n -> S]
  PROVE  /\ a \o b \in Seq(S) /\ DOMAIN a = 1..Len(a) /\ DOMAIN (a \o b) = 1..(Len(a) + n) /\ Len(a) \in Nat
         /\ \A i \in 1..Len(a) : (a \o b)[i] = a[i]
         /\ \A i \in (Len(a) + 1)..(Len(a) + n) : i - Len(a) \in 1..n /\ (a \o b)[i] = b[i - Len(a)]
<1>1. b \in Seq(S) /\ Len(b) = n
  OBVIOUS
<1> QED
  BY <1>1

\* One insert writes one record of each call it has read, and hides no event.
LEMMA RecordsInserted ==
  ASSUME ChannelTypes, NEW H \in SUBSET script.calls, UNCHANGED <<script, clock>>,
         events' = events \o [i \in 1 .. Cardinality(H) |-> AnEvent("channel_failure", SetToSeq(H)[i].id)]
  PROVE  /\ events' \in Seq(EventRows')
         /\ \A c \in script.calls : /\ RecordsOf(c) \subseteq RecordsOf(c)'
                                    /\ c \notin H => RecordsOf(c)' = RecordsOf(c)
                                    /\ c \in H => RecordsOf(c)' # {}
                                    /\ c \in H /\ RecordsOf(c) = {} => \A i, j \in RecordsOf(c)' : i = j
         /\ \A start : affectedSince(start) \subseteq affectedSince(start)'
<1> DEFINE n == Cardinality(H)
           s == SetToSeq(H)
           new == [i \in 1..n |-> AnEvent("channel_failure", s[i].id)]
<1>1. IsFiniteSet(H)
  BY FS_Subset, ChannelAssumption DEF ChannelTypes, CallTypes
<1>2. /\ n \in Nat /\ s \in [1..n -> H] /\ \A i, j \in 1..n : s[i] = s[j] => i = j
      /\ \A x \in H : \E i \in 1..n : s[i] = x
  BY <1>1, Enumerated
<1>3. events \in Seq(EventRows) /\ EventRows' = EventRows
  BY DEF ChannelTypes, RecordTypes, EventRows, Whos, Kinds
<1>4. new \in [1..n -> EventRows]
  <2>1. ASSUME NEW i \in 1..n PROVE AnEvent("channel_failure", s[i].id) \in EventRows
    <3>1. s[i] \in script.calls /\ clock \in Nat
      BY <1>2 DEF ChannelTypes, RecordTypes
    <3> HIDE DEF s
    <3>2. s[i].id \in Whos
      BY <3>1 DEF Whos
    <3> QED
      BY <3>1, <3>2 DEF AnEvent, EventRows, Kinds
  <2> HIDE DEF s, n
  <2> QED
    BY <2>1
<1> DEFINE m == Len(events)
<1>5. events' = events \o new
  OBVIOUS
<1>6. /\ events' \in Seq(EventRows) /\ m \in Nat /\ DOMAIN events = 1..m /\ DOMAIN events' = 1..(m + n)
      /\ \A i \in 1..m : events'[i] = events[i]
      /\ \A i \in (m + 1)..(m + n) : i - m \in 1..n /\ events'[i] = new[i - m]
  <2>1. n \in Nat
    BY <1>2
  <2> HIDE DEF new, n, s
  <2>2. /\ events \o new \in Seq(EventRows) /\ DOMAIN events = 1..m /\ DOMAIN (events \o new) = 1..(m + n) /\ m \in Nat
        /\ \A i \in 1..m : (events \o new)[i] = events[i]
        /\ \A i \in (m + 1)..(m + n) : i - m \in 1..n /\ (events \o new)[i] = new[i - m]
    BY <2>1, <1>3, <1>4, Appended
  <2> QED
    BY <1>3, <1>5, <2>2
<1>7. \A i \in 1..n : new[i].kind = "channel_failure" /\ new[i].who = s[i].id
  BY DEF AnEvent
<1>8. \A c, d \in script.calls : c.id = d.id => c = d
  BY ChannelAssumption DEF ChannelTypes, CallTypes
<1> HIDE DEF new, n, s, m
<1>9. ASSUME NEW c \in script.calls
      PROVE  RecordsOf(c)' = RecordsOf(c) \cup {i \in (m + 1)..(m + n) : s[i - m] = c}
  <2>1. ASSUME NEW i \in (m + 1)..(m + n)
        PROVE  events'[i].kind = "channel_failure" /\ (events'[i].who = c.id <=> s[i - m] = c)
    <3>1. i - m \in 1..n /\ s[i - m] \in script.calls
      BY <1>2, <1>6
    <3>2. events'[i] = new[i - m]
      BY <1>6
    <3>3. new[i - m].kind = "channel_failure" /\ new[i - m].who = s[i - m].id
      BY <1>7, <3>1
    <3>4. s[i - m].id = c.id <=> s[i - m] = c
      BY <1>8, <3>1
    <3> QED
      BY <3>2, <3>3, <3>4
  <2>2. 1..(m + n) = (1..m) \cup ((m + 1)..(m + n))
    BY <1>2, <1>6
  <2>3. RecordsOf(c)' = {i \in 1..(m + n) : events'[i].kind = "channel_failure" /\ events'[i].who = c.id}
    BY <1>6 DEF RecordsOf
  <2>4. RecordsOf(c) = {i \in 1..m : events'[i].kind = "channel_failure" /\ events'[i].who = c.id}
    BY <1>6 DEF RecordsOf
  <2> QED
    BY <2>1, <2>2, <2>3, <2>4
<1>10. ASSUME NEW c \in script.calls
       PROVE  /\ RecordsOf(c) \subseteq RecordsOf(c)'
              /\ c \notin H => RecordsOf(c)' = RecordsOf(c)
              /\ c \in H => RecordsOf(c)' # {}
              /\ c \in H /\ RecordsOf(c) = {} => \A i, j \in RecordsOf(c)' : i = j
  <2>1. \A i \in (m + 1)..(m + n) : i - m \in 1..n
    BY <1>6
  <2>2. c \notin H => \A i \in (m + 1)..(m + n) : s[i - m] # c
    BY <1>2, <2>1
  <2>3. ASSUME c \in H PROVE \E i \in (m + 1)..(m + n) : s[i - m] = c
    <3>1. PICK i \in 1..n : s[i] = c
      BY <1>2, <2>3
    <3>2. m + i \in (m + 1)..(m + n) /\ (m + i) - m = i
      BY <1>2, <1>6
    <3> QED
      BY <3>1, <3>2
  <2>4. \A i, j \in (m + 1)..(m + n) : s[i - m] = c /\ s[j - m] = c => i = j
    BY <1>2, <1>6, <2>1
  <2> QED
    BY <1>9, <2>2, <2>3, <2>4
<1>11. ASSUME NEW start PROVE affectedSince(start) \subseteq affectedSince(start)'
  <2>1. 1..m \subseteq 1..(m + n)
    BY <1>2, <1>6
  <2> QED
    BY <1>6, <2>1 DEF affectedSince, EventsSince
<1> QED
  BY <1>3, <1>6, <1>10, <1>11

\* What an action that leaves the variables of a part alone keeps of its types.
LEMMA TypesStay ==
  ASSUME ChannelTypes, UNCHANGED script
  PROVE  /\ Requests' = Requests /\ EventRows' = EventRows
         /\ UNCHANGED <<calls, wire>> => CallTypes'
         /\ UNCHANGED <<run, alive, marker, accepted, outbox, latest>> => RunTypes'
         /\ UNCHANGED <<workerVars, clock, events>> => RecordTypes'
<1>1. Requests' = Requests /\ EventRows' = EventRows
  BY DEF Requests, EventRows, Whos, Kinds
<1> QED
  BY <1>1 DEF ChannelTypes, CallTypes, RunTypes, RecordTypes, workerVars

\* A step of one call.
LEMMA CallMoves ==
  ASSUME ChannelTypes, NEW c \in script.calls, NEW one \in CallStates,
         UNCHANGED script, calls' = [calls EXCEPT ![c] = one], wire' \subseteq Requests
  PROVE  CallTypes'
<1>1. wire' \subseteq Requests'
  BY TypesStay
<1>2. calls' \in [script.calls -> CallStates]
  BY DEF ChannelTypes, CallTypes
<1> QED
  BY <1>1, <1>2 DEF ChannelTypes, CallTypes

\* What an action that leaves the records alone keeps: no call's end is undone.
LEMMA RecordsStay ==
  ASSUME ChannelInv, UNCHANGED <<script, workerVars, events>>,
         \A c \in script.calls : /\ calls[c].st = "over" => calls'[c].st = "over"
                                 /\ calls'[c].result = "gave up" => calls[c].result = "gave up"
  PROVE  RecordsAreOver' /\ RecordsApart' /\ CrumbsAccounted' /\ CrumbsOnce'
<1>1. \A c : RecordsOf(c)' = RecordsOf(c)
  BY DEF RecordsOf
<1>2. UNCHANGED <<crumbs, claim, ingest, held, dropped, overlapped>>
  BY DEF workerVars
<1>3. RecordsAreOver'
  BY <1>1, <1>2 DEF ChannelInv, RecordsAreOver
<1>4. RecordsApart'
  BY <1>1, <1>2 DEF ChannelInv, RecordsApart, Holding
<1>5. CrumbsAccounted'
  BY <1>1, <1>2 DEF ChannelInv, CrumbsAccounted
<1>6. CrumbsOnce'
  <2>1. ASSUME ~overlapped', NEW c \in script.calls', NEW i \in RecordsOf(c)', NEW j \in RecordsOf(c)' PROVE i = j
    <3>1. ~overlapped /\ c \in script.calls /\ i \in RecordsOf(c) /\ j \in RecordsOf(c)
      BY <1>1, <1>2, <2>1
    <3> QED
      BY <3>1 DEF ChannelInv, CrumbsOnce
  <2> QED
    BY <2>1 DEF CrumbsOnce
<1> QED
  BY <1>3, <1>4, <1>5, <1>6

\* What an action outside the health page keeps.
LEMMA HealthStays ==
  ASSUME ChannelInv, UNCHANGED health, \A start : affectedSince(start) \subseteq affectedSince(start)'
  PROVE  CountedIsThere' /\ HealthNamesARun'
<1>1. CountedIsThere'
  BY DEF ChannelInv, CountedIsThere
<1>2. HealthNamesARun'
  BY DEF ChannelInv, HealthNamesARun
<1> QED
  BY <1>1, <1>2

\* Events that stay are still in the window.
LEMMA EventsStay ==
  ASSUME UNCHANGED events
  PROVE  \A start : affectedSince(start) \subseteq affectedSince(start)'
BY DEF affectedSince, EventsSince

\* What an action keeps that answers nobody and takes nothing back.
LEMMA TruthStays ==
  ASSUME ChannelInv, UNCHANGED <<script, marker>>, accepted \subseteq accepted',
         \A q \in wire' : q.ans = 200 => q \in wire,
         \A c \in script.calls : /\ calls'[c].result = "ok" => calls[c].result = "ok"
                                 /\ calls'[c].st = "taken" => calls'[c] = calls[c]
  PROVE  AnswersTrue' /\ ToldTheTruth'
<1>1. AnswersTrue'
  BY DEF ChannelInv, AnswersTrue
<1>2. ToldTheTruth'
  BY DEF ChannelInv, ToldTheTruth
<1> QED
  BY <1>1, <1>2

\* What an action keeps that has nothing to do with the report.
LEMMA ReportStays ==
  ASSUME ChannelInv, UNCHANGED <<accepted, run, alive, latest, outbox, saved>>
  PROVE  ReportStands' /\ ReportKept'
BY DEF ChannelInv, ReportStands, ReportKept

\* The probe fails: the run stays queued, and an event says why.
LEMMA FailedProbeKeeps ==
  ASSUME ChannelInv, recordFailure
  PROVE  ChannelInv'
<1>1. /\ events' = Append(events, AnEvent("channel_down", Nobody.id))
      /\ UNCHANGED <<script, calls, wire, marker, latest, crumbs, claim, ingest, held, dropped, overlapped, clock, health,
                     run, accepted, saved, alive, outbox, faults>>
  BY DEF recordFailure, toolVars, workerVars, viewVars
<1>2. /\ events' \in Seq(EventRows') /\ \A c : RecordsOf(c)' = RecordsOf(c)
      /\ \A start : affectedSince(start) \subseteq affectedSince(start)'
  BY <1>1, RunEventAdded DEF ChannelInv, Kinds
<1>3. ChannelTypes'
  <2>1. CallTypes' /\ RunTypes'
    BY <1>1, TypesStay DEF ChannelInv
  <2>2. RecordTypes'
    BY <1>1, <1>2 DEF ChannelInv, ChannelTypes, RecordTypes
  <2> QED
    BY <2>1, <2>2 DEF ChannelTypes
<1>4. RecordsAreOver' /\ RecordsApart' /\ CrumbsAccounted' /\ CrumbsOnce'
  BY <1>1, <1>2 DEF ChannelInv, RecordsAreOver, RecordsApart, CrumbsAccounted, CrumbsOnce, Holding
<1>5. AnswersTrue' /\ ToldTheTruth' /\ ReportStands' /\ ReportKept' /\ CountedIsThere' /\ HealthNamesARun'
  BY <1>1, <1>2, TruthStays, ReportStays, HealthStays
<1> QED
  BY <1>3, <1>4, <1>5 DEF ChannelInv

\* The probe succeeds: the run starts, with nothing written down yet.
LEMMA GoodProbeKeeps ==
  ASSUME ChannelInv, recordSuccess
  PROVE  ChannelInv'
<1>1. /\ run = "queued" /\ run' = "running" /\ alive' = TRUE
      /\ UNCHANGED <<script, calls, wire, marker, latest, workerVars, clock, health, accepted, saved, outbox, events>>
  BY DEF recordSuccess, toolVars, viewVars
<1>2. ChannelTypes'
  <2>1. CallTypes' /\ RecordTypes'
    BY <1>1, TypesStay DEF ChannelInv
  <2>2. RunTypes'
    BY <1>1 DEF ChannelInv, ChannelTypes, RunTypes
  <2> QED
    BY <2>1, <2>2 DEF ChannelTypes
<1>3. ReportStands' /\ ReportKept'
  BY <1>1 DEF ChannelInv, ReportStands, ReportKept
<1>4. RecordsAreOver' /\ RecordsApart' /\ CrumbsAccounted' /\ CrumbsOnce'
  BY <1>1, RecordsStay
<1>5. AnswersTrue' /\ ToldTheTruth' /\ CountedIsThere' /\ HealthNamesARun'
  BY <1>1, TruthStays, HealthStays, EventsStay
<1> QED
  BY <1>2, <1>3, <1>4, <1>5 DEF ChannelInv

\* The agent makes a call; a report is written down first.
LEMMA BeginKeeps ==
  ASSUME ChannelInv, NEW c \in script.calls, Begin(c)
  PROVE  ChannelInv'
<1>1. /\ alive /\ calls[c].st = "idle" /\ calls' = [calls EXCEPT ![c].st = "ready"]
      /\ \/ UNCHANGED <<outbox, latest>>
         \/ outbox' = c /\ latest' = c
         \/ latest' = Nobody /\ UNCHANGED outbox
      /\ UNCHANGED <<script, wire, marker, workerVars, clock, health, run, accepted, saved, alive, events>>
  BY DEF Begin, viewVars
<1>2. ChannelTypes'
  <2>1. [calls[c] EXCEPT !.st = "ready"] \in CallStates
    BY DEF ChannelInv, ChannelTypes, CallTypes, CallStates
  <2>2. wire' \subseteq Requests
    BY <1>1 DEF ChannelInv, ChannelTypes, CallTypes
  <2>3. CallTypes'
    BY <1>1, <2>1, <2>2, CallMoves DEF ChannelInv
  <2>4. RecordTypes'
    BY <1>1, TypesStay DEF ChannelInv
  <2>5. RunTypes'
    BY <1>1 DEF ChannelInv, ChannelTypes, RunTypes
  <2> QED
    BY <2>3, <2>4, <2>5 DEF ChannelTypes
<1>3. ReportStands' /\ ReportKept'
  BY <1>1 DEF ChannelInv, ReportStands, ReportKept
<1>4. \A d \in script.calls : /\ calls[d].st = "over" => calls'[d].st = "over"
                              /\ calls'[d].result = calls[d].result
                              /\ calls'[d].st = "taken" => calls'[d] = calls[d]
  BY <1>1 DEF ChannelInv, ChannelTypes, CallTypes
<1>5. RecordsAreOver' /\ RecordsApart' /\ CrumbsAccounted' /\ CrumbsOnce'
  BY <1>1, <1>4, RecordsStay
<1>6. AnswersTrue' /\ ToldTheTruth' /\ CountedIsThere' /\ HealthNamesARun'
  BY <1>1, <1>4, TruthStays, HealthStays, EventsStay
<1> QED
  BY <1>2, <1>3, <1>5, <1>6 DEF ChannelInv

\* A request goes out.
LEMMA SendKeeps ==
  ASSUME ChannelInv, NEW c \in script.calls, Send(c)
  PROVE  ChannelInv'
<1>1. /\ alive /\ calls[c].st = "ready" /\ calls' = [calls EXCEPT ![c].st = "wait"]
      /\ wire' = wire \cup {[call |-> c, n |-> Attempt(c), ans |-> 0]}
      /\ UNCHANGED <<script, marker, latest, workerVars, clock, health, run, accepted, saved, alive, outbox, events>>
  BY DEF Send, viewVars
<1>2. ChannelTypes'
  <2>1. calls[c] \in CallStates
    BY DEF ChannelInv, ChannelTypes, CallTypes
  <2>2. Attempt(c) \in Nat
    <3>1. calls[c].net \in Nat /\ calls[c].srv \in Nat
      BY <2>1 DEF CallStates
    <3> QED
      BY <3>1 DEF Attempt
  <2>3. [calls[c] EXCEPT !.st = "wait"] \in CallStates
    BY <2>1 DEF CallStates
  <2>4. wire' \subseteq Requests
    BY <1>1, <2>2 DEF ChannelInv, ChannelTypes, CallTypes, Requests
  <2>5. CallTypes'
    BY <1>1, <2>3, <2>4, CallMoves DEF ChannelInv
  <2>6. RunTypes' /\ RecordTypes'
    BY <1>1, TypesStay DEF ChannelInv
  <2> QED
    BY <2>5, <2>6 DEF ChannelTypes
<1>3. \A d \in script.calls : /\ calls[d].st = "over" => calls'[d].st = "over"
                              /\ calls'[d].result = calls[d].result
                              /\ calls'[d].st = "taken" => calls'[d] = calls[d]
  BY <1>1 DEF ChannelInv, ChannelTypes, CallTypes
<1>4. \A q \in wire' : q.ans = 200 => q \in wire
  BY <1>1
<1>5. RecordsAreOver' /\ RecordsApart' /\ CrumbsAccounted' /\ CrumbsOnce'
  BY <1>1, <1>3, RecordsStay
<1>6. AnswersTrue' /\ ToldTheTruth' /\ ReportStands' /\ ReportKept' /\ CountedIsThere' /\ HealthNamesARun'
  BY <1>1, <1>3, <1>4, TruthStays, ReportStays, HealthStays, EventsStay
<1> QED
  BY <1>2, <1>5, <1>6 DEF ChannelInv

\* A failed attempt is repeated, or given up with one record; either way the agent
\* is told nothing it could take for a success.
LEMMA RetryKeeps ==
  ASSUME ChannelInv, NEW c \in script.calls, NEW one \in CallStates,
         calls[c].st = "wait", one.st = calls[c].st, one.result = calls[c].result,
         Retry(c, one, FALSE) \/ Retry(c, one, TRUE), wire' \subseteq wire,
         UNCHANGED <<script, marker, latest, claim, ingest, held, overlapped, viewVars, run, accepted, saved, alive,
                     outbox, events>>
  PROVE  ChannelInv'
<1>1. UNCHANGED <<clock, health>> /\ wire' \subseteq Requests
  BY DEF viewVars, ChannelInv, ChannelTypes, CallTypes
<1>2. ReportStands' /\ ReportKept'
  BY ReportStays
<1>3. CountedIsThere' /\ HealthNamesARun'
  BY <1>1, HealthStays, EventsStay
<1>4. RunTypes'
  BY TypesStay DEF ChannelInv
<1>5. \A d : RecordsOf(d)' = RecordsOf(d)
  BY DEF RecordsOf
<1>6. EventRows' = EventRows /\ calls \in [script.calls -> CallStates]
  BY TypesStay DEF ChannelInv, ChannelTypes, CallTypes
<1>7. CASE Retry(c, one, FALSE)
  <2>1. /\ calls' = [calls EXCEPT ![c] = [one EXCEPT !.st = "ready"]] /\ UNCHANGED <<crumbs, dropped>>
        /\ [one EXCEPT !.st = "ready"] \in CallStates
    BY <1>7 DEF Retry, CallStates
  <2>2. CallTypes' /\ RecordTypes'
    BY <1>1, <2>1, CallMoves, TypesStay DEF ChannelInv, workerVars
  <2>3. [one EXCEPT !.st = "ready"].result = calls[c].result
    BY DEF CallStates
  <2>4. \A d \in script.calls : /\ calls[d].st = "over" => calls'[d].st = "over"
                                /\ calls'[d].result = calls[d].result
                                /\ calls'[d].st = "taken" => calls'[d] = calls[d]
    BY <1>6, <2>1, <2>3 DEF CallStates
  <2>5. RecordsAreOver' /\ RecordsApart' /\ CrumbsAccounted' /\ CrumbsOnce'
    BY <2>1, <2>4, RecordsStay DEF workerVars
  <2>6. AnswersTrue' /\ ToldTheTruth'
    BY <2>4, TruthStays
  <2> QED
    BY <1>2, <1>3, <1>4, <2>2, <2>5, <2>6 DEF ChannelInv, ChannelTypes
<1>8. CASE Retry(c, one, TRUE)
  <2> DEFINE last == [one EXCEPT !.st = "over", !.result = "gave up"]
  <2>1. /\ calls' = [calls EXCEPT ![c] = last]
        /\ \/ crumbs' = crumbs \cup {c} /\ UNCHANGED dropped
           \/ dropped' = dropped \cup {c} /\ UNCHANGED crumbs
    BY <1>8 DEF Retry, appendChannelBreadcrumb
  <2>2. last \in CallStates /\ last.st = "over" /\ last.result = "gave up"
    BY DEF CallStates
  <2> HIDE DEF last
  <2>3. CallTypes'
    BY <1>1, <2>1, <2>2, CallMoves DEF ChannelInv
  <2>4. RecordTypes'
    BY <1>1, <1>6, <2>1 DEF ChannelInv, ChannelTypes, RecordTypes
  <2>5. calls'[c] = last /\ \A d \in script.calls \ {c} : calls'[d] = calls[d]
    BY <1>6, <2>1
  <2>6. RecordsAreOver'
    BY <1>5, <2>1, <2>2, <2>5 DEF ChannelInv, RecordsAreOver
  <2>7. c \notin crumbs \cup claim /\ RecordsOf(c) = {}
    BY DEF ChannelInv, RecordsAreOver
  <2>8. RecordsApart'
    BY <1>5, <2>1, <2>7 DEF ChannelInv, RecordsApart, Holding
  <2>9. CrumbsAccounted'
    BY <1>5, <2>1, <2>5 DEF ChannelInv, CrumbsAccounted
  <2>10. CrumbsOnce'
    BY <1>5 DEF ChannelInv, CrumbsOnce
  <2>11. AnswersTrue' /\ ToldTheTruth'
    BY <2>2, <2>5, TruthStays
  <2> QED
    BY <1>2, <1>3, <1>4, <2>3, <2>4, <2>6, <2>8, <2>9, <2>10, <2>11 DEF ChannelInv, ChannelTypes
<1> QED
  BY <1>7, <1>8

\* No answer came: the attempt counts against the network budget.
LEMMA NetworkErrorKeeps ==
  ASSUME ChannelInv, NEW c \in script.calls, NetworkError(c)
  PROVE  ChannelInv'
<1> DEFINE one == [calls[c] EXCEPT !.net = @ + 1]
<1>1. calls[c] \in CallStates
  BY DEF ChannelInv, ChannelTypes, CallTypes
<1>2. one \in CallStates /\ one.st = calls[c].st /\ one.result = calls[c].result
  <2>1. calls[c].net \in Nat
    BY <1>1 DEF CallStates
  <2>2. calls[c].net + 1 \in Nat
    BY <2>1
  <2> QED
    BY <1>1, <2>2 DEF CallStates
<1>3. /\ calls[c].st = "wait" /\ (Retry(c, one, FALSE) \/ Retry(c, one, TRUE)) /\ wire' \subseteq wire
      /\ UNCHANGED <<script, marker, latest, claim, ingest, held, overlapped, viewVars, run, accepted, saved, alive,
                     outbox, events>>
  BY DEF NetworkError, Retry
<1> HIDE DEF one
<1> QED
  BY <1>2, <1>3, RetryKeeps

\* The answer was a server error: the attempt counts against the other budget.
LEMMA ServerErrorKeeps ==
  ASSUME ChannelInv, NEW c \in script.calls, ServerError(c)
  PROVE  ChannelInv'
<1> DEFINE one == [calls[c] EXCEPT !.srv = @ + 1]
<1>1. calls[c] \in CallStates
  BY DEF ChannelInv, ChannelTypes, CallTypes
<1>2. one \in CallStates /\ one.st = calls[c].st /\ one.result = calls[c].result
  <2>1. calls[c].srv \in Nat
    BY <1>1 DEF CallStates
  <2>2. calls[c].srv + 1 \in Nat
    BY <2>1
  <2> QED
    BY <1>1, <2>2 DEF CallStates
<1>3. /\ calls[c].st = "wait" /\ (Retry(c, one, FALSE) \/ Retry(c, one, TRUE)) /\ wire' \subseteq wire
      /\ UNCHANGED <<script, marker, latest, claim, ingest, held, overlapped, viewVars, run, accepted, saved, alive,
                     outbox, events>>
  BY DEF ServerError, Retry
<1> HIDE DEF one
<1> QED
  BY <1>2, <1>3, RetryKeeps

\* The agent gets an answer: a success was true when it was sent and still is.
LEMMA AnsweredKeeps ==
  ASSUME ChannelInv, NEW c \in script.calls, Answered(c)
  PROVE  ChannelInv'
<1>1. PICK q \in Current(c), st \in {"taken", "over"}, result \in {"ok", "refused"} :
        /\ wire' = wire \ {q}
        /\ calls' = [calls EXCEPT ![c] = [@ EXCEPT !.st = st, !.result = result]]
        /\ result = "ok" => q.ans = 200
        /\ st = "taken" => c.tool = "complete" /\ result = "ok"
        /\ marker' \in BOOLEAN /\ (marker' => marker \/ (q.ans = 200 /\ c.tool \in EndingTools))
  <2>1. PICK q \in Current(c) :
          /\ q.ans \in {200, 409, 422} /\ wire' = wire \ {q}
          /\ \/ /\ calls' = [calls EXCEPT ![c] = [@ EXCEPT !.st = IF confirmOutbox(c, q.ans) THEN "taken" ELSE "over",
                                                         !.result = IF q.ans = 200 THEN "ok" ELSE "refused"]]
                /\ marker' = (marker \/ EndsSession(c, q.ans)) /\ UNCHANGED faults
             \/ /\ EndsSession(c, q.ans) /\ Fault /\ Spend
                /\ calls' = [calls EXCEPT ![c] = [@ EXCEPT !.st = "over", !.result = "refused"]]
                /\ UNCHANGED marker
    BY Zenon DEF Answered
  <2>2. marker \in BOOLEAN
    BY DEF ChannelInv, ChannelTypes, RunTypes
  <2>3. CASE calls' = [calls EXCEPT ![c] = [@ EXCEPT !.st = "over", !.result = "refused"]] /\ UNCHANGED marker
    <3> WITNESS q \in Current(c), "over" \in {"taken", "over"}, "refused" \in {"ok", "refused"}
    <3> QED
      BY <2>1, <2>2, <2>3
  <2>4. CASE /\ calls' = [calls EXCEPT ![c] = [@ EXCEPT !.st = IF confirmOutbox(c, q.ans) THEN "taken" ELSE "over",
                                                       !.result = IF q.ans = 200 THEN "ok" ELSE "refused"]]
             /\ marker' = (marker \/ EndsSession(c, q.ans))
    <3> DEFINE st     == IF confirmOutbox(c, q.ans) THEN "taken" ELSE "over"
               result == IF q.ans = 200 THEN "ok" ELSE "refused"
    <3>1. st \in {"taken", "over"} /\ result \in {"ok", "refused"}
      OBVIOUS
    <3>2. /\ result = "ok" => q.ans = 200
          /\ st = "taken" => c.tool = "complete" /\ result = "ok"
      BY DEF confirmOutbox
    <3>3. marker' \in BOOLEAN /\ (marker' => marker \/ (q.ans = 200 /\ c.tool \in EndingTools))
      BY <2>2, <2>4 DEF EndsSession
    <3>4. calls' = [calls EXCEPT ![c] = [@ EXCEPT !.st = st, !.result = result]]
      BY <2>4
    <3> HIDE DEF st, result
    <3> QED
      BY <2>1, <3>1, <3>2, <3>3, <3>4
  <2> QED
    BY <2>1, <2>3, <2>4
<1>0. q \in wire /\ q.call = c
  BY <1>1 DEF Current
<1>2. /\ alive
      /\ UNCHANGED <<script, latest, workerVars, clock, health, run, accepted, saved, alive, outbox, events>>
  BY DEF Answered, viewVars
<1> DEFINE last == [calls[c] EXCEPT !.st = st, !.result = result]
<1>3. calls[c] \in CallStates /\ calls \in [script.calls -> CallStates] /\ calls[c].st = "wait"
  BY DEF ChannelInv, ChannelTypes, CallTypes, Answered
<1>4. last \in CallStates /\ last.st = st /\ last.result = result
  BY <1>3 DEF CallStates
<1>5. calls' = [calls EXCEPT ![c] = last]
  BY <1>1, <1>3
<1> HIDE DEF last
<1>6. calls'[c] = last /\ \A d \in script.calls \ {c} : calls'[d] = calls[d]
  BY <1>3, <1>5
<1>7. q.ans = 200 => c \in accepted
  BY <1>0 DEF ChannelInv, AnswersTrue
<1>8. ChannelTypes'
  <2>1. wire' \subseteq Requests
    BY <1>1 DEF ChannelInv, ChannelTypes, CallTypes
  <2>2. CallTypes'
    BY <1>2, <1>4, <1>5, <2>1, CallMoves DEF ChannelInv
  <2>3. RecordTypes'
    BY <1>2, TypesStay DEF ChannelInv
  <2>4. RunTypes'
    BY <1>1, <1>2 DEF ChannelInv, ChannelTypes, RunTypes
  <2> QED
    BY <2>2, <2>3, <2>4 DEF ChannelTypes
<1>9. AnswersTrue'
  BY <1>1, <1>2, <1>4, <1>6 DEF ChannelInv, AnswersTrue
<1>10. ToldTheTruth'
  <2>1. ASSUME NEW d \in script.calls, calls'[d].result = "ok" PROVE d \in accepted
    BY <1>1, <1>4, <1>6, <1>7, <2>1 DEF ChannelInv, ToldTheTruth
  <2>2. ASSUME marker' PROVE \E d \in accepted : d.tool \in EndingTools
    BY <1>1, <1>7, <2>2 DEF ChannelInv, ToldTheTruth
  <2> QED
    BY <1>2, <2>1, <2>2 DEF ToldTheTruth
<1>11. ReportStands' /\ ReportKept'
  BY <1>2, ReportStays
<1>12. RecordsAreOver' /\ RecordsApart' /\ CrumbsAccounted' /\ CrumbsOnce'
  BY <1>1, <1>2, <1>3, <1>4, <1>6, RecordsStay
<1>13. CountedIsThere' /\ HealthNamesARun'
  BY <1>2, HealthStays, EventsStay
<1> QED
  BY <1>8, <1>9, <1>10, <1>11, <1>12, <1>13 DEF ChannelInv

\* The outbox goes for a report that has ended the run, whichever it held.
LEMMA RemoveOutboxKeeps ==
  ASSUME ChannelInv, NEW c \in script.calls, removeOutbox(c)
  PROVE  ChannelInv'
<1>1. /\ alive /\ calls[c].st = "taken" /\ calls' = [calls EXCEPT ![c].st = "over"]
      /\ outbox' \in {Nobody, outbox}
      /\ UNCHANGED <<script, wire, marker, latest, workerVars, clock, health, run, accepted, saved, alive, events>>
  BY DEF removeOutbox, viewVars
<1>2. calls[c] \in CallStates /\ [calls[c] EXCEPT !.st = "over"] \in CallStates
  BY DEF ChannelInv, ChannelTypes, CallTypes, CallStates
<1>3. ChannelTypes'
  <2>1. wire' \subseteq Requests
    BY <1>1 DEF ChannelInv, ChannelTypes, CallTypes
  <2>2. CallTypes'
    BY <1>1, <1>2, <2>1, CallMoves DEF ChannelInv
  <2>3. RecordTypes'
    BY <1>1, TypesStay DEF ChannelInv
  <2>4. RunTypes'
    BY <1>1 DEF ChannelInv, ChannelTypes, RunTypes
  <2> QED
    BY <2>2, <2>3, <2>4 DEF ChannelTypes
<1>4. \A d \in script.calls : /\ calls[d].st = "over" => calls'[d].st = "over"
                              /\ calls'[d].result = calls[d].result
                              /\ calls'[d].st = "taken" => calls'[d] = calls[d]
  BY <1>1 DEF ChannelInv, ChannelTypes, CallTypes
<1>5. run = "reported"
  <2>1. c.tool = "complete" /\ c \in accepted
    BY <1>1 DEF ChannelInv, AnswersTrue, ToldTheTruth
  <2> QED
    BY <2>1 DEF ChannelInv, ReportStands
<1>6. ReportStands' /\ ReportKept'
  BY <1>1, <1>5 DEF ChannelInv, ReportStands, ReportKept
<1>7. RecordsAreOver' /\ RecordsApart' /\ CrumbsAccounted' /\ CrumbsOnce'
  BY <1>1, <1>4, RecordsStay
<1>8. AnswersTrue' /\ ToldTheTruth' /\ CountedIsThere' /\ HealthNamesARun'
  BY <1>1, <1>4, TruthStays, HealthStays, EventsStay
<1> QED
  BY <1>3, <1>6, <1>7, <1>8 DEF ChannelInv

\* The backend handles a request, whoever still waits for it.
LEMMA HandleKeeps ==
  ASSUME ChannelInv, NEW q \in wire, Handle(q)
  PROVE  ChannelInv'
<1>1. /\ q.ans = 0
      /\ UNCHANGED <<script, calls, marker, latest, workerVars, clock, health, saved, alive, outbox, events>>
  BY DEF Handle, viewVars
<1>2. q \in Requests /\ q.call \in script.calls
  BY DEF ChannelInv, ChannelTypes, CallTypes, Requests
<1>3. PICK ans \in {200, 409, 422, 500} :
        /\ Reply(q, ans)
        /\ \/ Nothing /\ ans # 200
           \/ run \in {"running", "parked"} /\ Effect(q.call)
  BY DEF Handle, refuse
<1> DEFINE answer == [q EXCEPT !.ans = ans]
<1>4. answer \in Requests /\ answer.ans = ans /\ answer.call = q.call
  BY <1>2 DEF Requests
<1>5. wire' \subseteq wire \cup {answer}
  BY <1>3 DEF Reply
<1> HIDE DEF answer
<1>6. /\ accepted \subseteq accepted' /\ accepted' \subseteq accepted \cup {q.call}
      /\ ans = 200 => q.call \in accepted'
      /\ run' # run => run \in {"running", "parked"}
      /\ run' \in {"reported", "parked", run}
      /\ \A d \in accepted' : d.tool = "complete" => d \in accepted \/ run' = "reported"
  BY <1>3 DEF Nothing, Effect
<1>7. ChannelTypes'
  <2>1. wire' \subseteq Requests
    BY <1>4, <1>5 DEF ChannelInv, ChannelTypes, CallTypes
  <2>2. CallTypes'
    BY <1>1, <2>1, TypesStay DEF ChannelInv, ChannelTypes, CallTypes
  <2>3. RecordTypes'
    BY <1>1, TypesStay DEF ChannelInv
  <2>4. RunTypes'
    BY <1>1, <1>2, <1>6 DEF ChannelInv, ChannelTypes, RunTypes, EndStates
  <2> QED
    BY <2>2, <2>3, <2>4 DEF ChannelTypes
<1>8. AnswersTrue'
  <2>1. \A a \in wire' : a.ans = 200 => a.call \in accepted'
    BY <1>4, <1>5, <1>6 DEF ChannelInv, AnswersTrue
  <2> QED
    BY <1>1, <2>1 DEF ChannelInv, AnswersTrue
<1>9. ToldTheTruth'
  BY <1>1, <1>6 DEF ChannelInv, ToldTheTruth
<1>10. ReportStands' /\ ReportKept'
  BY <1>1, <1>6 DEF ChannelInv, ReportStands, ReportKept
<1>11. RecordsAreOver' /\ RecordsApart' /\ CrumbsAccounted' /\ CrumbsOnce'
  BY <1>1, RecordsStay
<1>12. CountedIsThere' /\ HealthNamesARun'
  BY <1>1, HealthStays, EventsStay
<1> QED
  BY <1>7, <1>8, <1>9, <1>10, <1>11, <1>12 DEF ChannelInv

\* The run is ended from outside: it was neither queued nor reported.
LEMMA StopRunKeeps ==
  ASSUME ChannelInv, NEW st \in {"failed", "stopped"}, StopRun(st)
  PROVE  ChannelInv'
<1>1. /\ run \in {"running", "parked"} /\ run' = st
      /\ UNCHANGED <<script, calls, wire, marker, latest, workerVars, clock, health, accepted, saved, alive, outbox, events>>
  BY DEF StopRun, toolVars, viewVars
<1>2. CallTypes' /\ RecordTypes'
  BY <1>1, TypesStay DEF ChannelInv
<1>3. RunTypes' /\ ReportStands' /\ ReportKept'
  BY <1>1 DEF ChannelInv, ChannelTypes, RunTypes, EndStates, ReportStands, ReportKept
<1>4. RecordsAreOver' /\ RecordsApart' /\ CrumbsAccounted' /\ CrumbsOnce'
  BY <1>1, RecordsStay
<1>5. AnswersTrue' /\ ToldTheTruth' /\ CountedIsThere' /\ HealthNamesARun'
  BY <1>1, TruthStays, HealthStays, EventsStay
<1> QED
  BY <1>2, <1>3, <1>4, <1>5 DEF ChannelInv, ChannelTypes

\* What the records keep while the paths only start over.
LEMMA StartOver ==
  ASSUME ChannelInv, UNCHANGED <<script, calls, crumbs, claim, dropped, overlapped, clock, events>>,
         ingest' \in [Paths -> Steps], held' \in [Paths -> SUBSET script.calls],
         \A p \in Paths : /\ ingest'[p] \in {"idle", "scan"} \/ ingest'[p] = ingest[p]
                          /\ held'[p] \subseteq held[p]
                          /\ ingest'[p] = "read" => held'[p] = held[p]
  PROVE  RecordTypes' /\ RecordsAreOver' /\ RecordsApart' /\ CrumbsAccounted' /\ CrumbsOnce'
<1>1. \A c : RecordsOf(c)' = RecordsOf(c)
  BY DEF RecordsOf
<1>2. RecordTypes'
  BY TypesStay DEF ChannelInv, ChannelTypes, RecordTypes
<1>3. RecordsAreOver'
  BY <1>1 DEF ChannelInv, RecordsAreOver
<1>4. RecordsApart'
  BY <1>1 DEF ChannelInv, RecordsApart, Holding
<1>5. CrumbsAccounted'
  BY <1>1 DEF ChannelInv, CrumbsAccounted
<1>6. CrumbsOnce'
  BY <1>1, RecordsStay DEF ChannelInv, CrumbsOnce
<1> QED
  BY <1>2, <1>3, <1>4, <1>5, <1>6

\* The process is gone, and with it what the agent's tool server vouched for.
LEMMA ExitKeeps ==
  ASSUME ChannelInv, NEW kind \in {"completed", "timed_out", "cancelled", "failed"}, Exit(kind)
  PROVE  ChannelInv'
<1>1. /\ alive /\ alive' = FALSE
      /\ run' \in {"reported", "stopped", "failed", run}
      /\ run' # run => run \in {"running", "parked"}
      /\ outbox' \in {outbox, Nobody}
      /\ \E st \in {"idle", "scan"} : ingest' = [ingest EXCEPT !["exit"] = st]
      /\ UNCHANGED <<script, calls, wire, marker, latest, crumbs, claim, held, dropped, overlapped, clock, health, accepted, events>>
  BY DEF Exit, toolVars, viewVars
<1>2. CallTypes'
  BY <1>1, TypesStay DEF ChannelInv
<1>3. RunTypes' /\ ReportStands' /\ ReportKept'
  BY <1>1 DEF ChannelInv, ChannelTypes, RunTypes, EndStates, ReportStands, ReportKept
<1>4. RecordTypes' /\ RecordsAreOver' /\ RecordsApart' /\ CrumbsAccounted' /\ CrumbsOnce'
  <2>1. ingest \in [Paths -> Steps] /\ held \in [Paths -> SUBSET script.calls]
    BY DEF ChannelInv, ChannelTypes, RecordTypes
  <2>2. /\ ingest' \in [Paths -> Steps] /\ held' = held
        /\ \A p \in Paths : ingest'[p] \in {"idle", "scan"} \/ ingest'[p] = ingest[p]
    BY <1>1, <2>1 DEF Steps, Paths
  <2> QED
    BY <1>1, <2>1, <2>2, StartOver
<1>5. AnswersTrue' /\ ToldTheTruth' /\ CountedIsThere' /\ HealthNamesARun'
  BY <1>1, TruthStays, HealthStays, EventsStay
<1> QED
  BY <1>2, <1>3, <1>4, <1>5 DEF ChannelInv, ChannelTypes

\* The sweep takes a report only for a run that ends with it or shows it.
LEMMA SweepOutboxKeeps ==
  ASSUME ChannelInv, SweepOutbox
  PROVE  ChannelInv'
<1>1. /\ run # "queued" /\ ingest["sweep"] = "idle" /\ ingest' = [ingest EXCEPT !["sweep"] = "scan"]
      /\ UNCHANGED <<script, calls, wire, marker, latest, crumbs, claim, held, dropped, overlapped, clock, health, accepted, alive>>
  BY DEF SweepOutbox, toolVars, viewVars
<1>2. \/ UNCHANGED <<run, saved, outbox, events>>
      \/ /\ outbox # Nobody /\ outbox' = Nobody /\ run' \in {"reported", run} /\ (run = "reported" => run' = run)
         /\ saved \subseteq saved' /\ (run = "reported" \/ outbox \in saved')
         /\ UNCHANGED events \/ events' = Append(events, AnEvent("undelivered_report", Nobody.id))
  BY DEF SweepOutbox
<1>3. /\ events' \in Seq(EventRows') /\ \A c : RecordsOf(c)' = RecordsOf(c)
      /\ \A start : affectedSince(start) \subseteq affectedSince(start)'
  <2>1. CASE UNCHANGED events
    BY <1>1, <2>1, EventsStay, TypesStay DEF ChannelInv, ChannelTypes, RecordTypes, RecordsOf
  <2>2. CASE events' = Append(events, AnEvent("undelivered_report", Nobody.id))
    BY <1>1, <2>2, RunEventAdded DEF ChannelInv, Kinds
  <2> QED
    BY <1>2, <2>1, <2>2
<1>4. CallTypes'
  BY <1>1, TypesStay DEF ChannelInv
<1>5. RunTypes' /\ ReportStands' /\ ReportKept'
  BY <1>1, <1>2 DEF ChannelInv, ChannelTypes, RunTypes, EndStates, ReportStands, ReportKept
<1>6. ingest' \in [Paths -> Steps] /\ ingest'["sweep"] = "scan" /\ ingest'["exit"] = ingest["exit"]
  BY <1>1 DEF ChannelInv, ChannelTypes, RecordTypes, Paths, Steps
<1>7. RecordTypes'
  BY <1>1, <1>3, <1>6 DEF ChannelInv, ChannelTypes, RecordTypes
<1>8. RecordsAreOver' /\ CrumbsAccounted' /\ CrumbsOnce'
  BY <1>1, <1>3 DEF ChannelInv, RecordsAreOver, CrumbsAccounted, CrumbsOnce
<1>9. RecordsApart'
  BY <1>1, <1>3, <1>6 DEF ChannelInv, RecordsApart, Holding, Paths
<1>10. AnswersTrue' /\ ToldTheTruth' /\ CountedIsThere' /\ HealthNamesARun'
  BY <1>1, <1>3, TruthStays, HealthStays
<1> QED
  BY <1>4, <1>5, <1>7, <1>8, <1>9, <1>10 DEF ChannelInv, ChannelTypes

\* The rename: what was claimed before is replaced, and counted as lost.
LEMMA ClaimKeeps ==
  ASSUME ChannelInv, NEW p \in Paths, claimChannelBreadcrumbFile(p)
  PROVE  ChannelInv'
<1>1. /\ ingest[p] = "scan"
      /\ UNCHANGED <<script, calls, wire, marker, latest, held, clock, health, run, accepted, saved, alive, outbox, events>>
  BY DEF claimChannelBreadcrumbFile, toolVars, viewVars
<1>2. /\ ingest \in [Paths -> Steps] /\ held \in [Paths -> SUBSET script.calls] /\ overlapped \in BOOLEAN
      /\ DOMAIN ingest = Paths
  BY DEF ChannelInv, ChannelTypes, RecordTypes
<1>3. CallTypes' /\ RunTypes'
  BY <1>1, TypesStay DEF ChannelInv
<1>4. AnswersTrue' /\ ToldTheTruth' /\ ReportStands' /\ ReportKept' /\ CountedIsThere' /\ HealthNamesARun'
  BY <1>1, TruthStays, ReportStays, HealthStays, EventsStay
<1>5. CASE ingest' = [ingest EXCEPT ![p] = "idle"] /\ UNCHANGED <<claim, crumbs, dropped, overlapped>>
  <2>1. /\ ingest' \in [Paths -> Steps] /\ held' = held
        /\ \A o \in Paths : ingest'[o] \in {"idle", "scan"} \/ ingest'[o] = ingest[o]
    BY <1>1, <1>2, <1>5 DEF Steps
  <2>2. RecordTypes' /\ RecordsAreOver' /\ RecordsApart' /\ CrumbsAccounted' /\ CrumbsOnce'
    BY <1>1, <1>2, <1>5, <2>1, StartOver
  <2> QED
    BY <1>3, <1>4, <2>2 DEF ChannelInv, ChannelTypes
<1>6. CASE /\ claim' = crumbs /\ crumbs' = {} /\ dropped' = dropped \cup claim
           /\ overlapped' = (overlapped \/ \E o \in DOMAIN ingest : ingest[o] \in {"claimed", "read"})
           /\ ingest' = [ingest EXCEPT ![p] = "claimed"]
  <2>1. ingest' \in [Paths -> Steps] /\ ingest'[p] = "claimed" /\ \A o \in Paths \ {p} : ingest'[o] = ingest[o]
    BY <1>2, <1>6 DEF Steps
  <2>2. ~overlapped' => ~overlapped /\ \A o \in Paths : ~Holding(o)
    BY <1>2, <1>6 DEF Holding
  <2>3. overlapped' \in BOOLEAN
    BY <1>6
  <2>4. \A c : RecordsOf(c)' = RecordsOf(c)
    BY <1>1 DEF RecordsOf
  <2>5. RecordTypes'
    BY <1>1, <1>6, <2>1, <2>3, TypesStay DEF ChannelInv, ChannelTypes, RecordTypes
  <2>6. RecordsAreOver'
    BY <1>1, <1>6, <2>4 DEF ChannelInv, RecordsAreOver
  <2>7. RecordsApart'
    <3>1. ~overlapped' => \A o \in Paths \ {p} : ingest'[o] \notin {"claimed", "read"}
      BY <2>1, <2>2 DEF Holding
    <3> QED
      BY <1>6, <2>1, <2>2, <2>4, <3>1 DEF ChannelInv, RecordsApart, Holding
  <2>8. CrumbsAccounted'
    BY <1>1, <1>6, <2>4 DEF ChannelInv, CrumbsAccounted
  <2>9. CrumbsOnce'
    BY <1>1, <2>2, <2>4 DEF ChannelInv, CrumbsOnce
  <2> QED
    BY <1>3, <1>4, <2>5, <2>6, <2>7, <2>8, <2>9 DEF ChannelInv, ChannelTypes
<1> QED
  BY <1>5, <1>6 DEF claimChannelBreadcrumbFile, claimed

\* A path reads what is in the claimed file now.
LEMMA ReadClaimKeeps ==
  ASSUME ChannelInv, NEW p \in Paths, readClaimedBreadcrumbs(p)
  PROVE  ChannelInv'
<1>1. /\ ingest[p] = "claimed" /\ held' = [held EXCEPT ![p] = claim] /\ ingest' = [ingest EXCEPT ![p] = "read"]
      /\ UNCHANGED <<script, calls, wire, marker, latest, crumbs, claim, dropped, overlapped, clock, health, run, accepted,
                     saved, alive, outbox, events>>
  BY DEF readClaimedBreadcrumbs, toolVars, viewVars
<1>2. CallTypes' /\ RunTypes'
  BY <1>1, TypesStay DEF ChannelInv
<1>3. AnswersTrue' /\ ToldTheTruth' /\ ReportStands' /\ ReportKept' /\ CountedIsThere' /\ HealthNamesARun'
  BY <1>1, TruthStays, ReportStays, HealthStays, EventsStay
<1>4. \A c : RecordsOf(c)' = RecordsOf(c)
  BY <1>1 DEF RecordsOf
<1>5. /\ ingest \in [Paths -> Steps] /\ held \in [Paths -> SUBSET script.calls] /\ claim \subseteq script.calls
  BY DEF ChannelInv, ChannelTypes, RecordTypes
<1>6. /\ ingest' \in [Paths -> Steps] /\ held' \in [Paths -> SUBSET script.calls]
      /\ ingest'[p] = "read" /\ held'[p] = claim
      /\ \A o \in Paths \ {p} : ingest'[o] = ingest[o] /\ held'[o] = held[o]
  BY <1>1, <1>5 DEF Steps
<1>7. RecordTypes'
  BY <1>1, <1>6, TypesStay DEF ChannelInv, ChannelTypes, RecordTypes
<1>8. RecordsAreOver'
  <2>1. ASSUME NEW c \in script.calls, NEW o \in Paths, c \in held'[o] PROVE calls[c].st = "over"
    BY <1>6, <2>1 DEF ChannelInv, RecordsAreOver
  <2> QED
    BY <1>1, <1>4, <2>1 DEF ChannelInv, RecordsAreOver
<1>9. RecordsApart'
  BY <1>1, <1>4, <1>6 DEF ChannelInv, RecordsApart, Holding
<1>10. CrumbsAccounted' /\ CrumbsOnce'
  BY <1>1, <1>4 DEF ChannelInv, CrumbsAccounted, CrumbsOnce
<1> QED
  BY <1>2, <1>3, <1>7, <1>8, <1>9, <1>10 DEF ChannelInv, ChannelTypes

\* The insert: all the records read become events, and the claim is removed.
LEMMA IngestKeeps ==
  ASSUME ChannelInv, NEW p \in Paths, ingestChannelBreadcrumbs(p)
  PROVE  ChannelInv'
<1> DEFINE H == held[p]
<1>1. /\ ingest[p] = "read" /\ held' = [held EXCEPT ![p] = {}] /\ ingest' = [ingest EXCEPT ![p] = "idle"]
      /\ UNCHANGED <<script, calls, wire, marker, latest, crumbs, overlapped, clock, health, run, accepted, saved, alive, outbox>>
  BY DEF ingestChannelBreadcrumbs, toolVars, viewVars
<1>2. ingest \in [Paths -> Steps] /\ held \in [Paths -> SUBSET script.calls] /\ claim \subseteq script.calls
  BY DEF ChannelInv, ChannelTypes, RecordTypes
<1>3. /\ ingest' \in [Paths -> Steps] /\ held' \in [Paths -> SUBSET script.calls]
      /\ ingest'[p] = "idle" /\ held'[p] = {} /\ H \in SUBSET script.calls
      /\ \A o \in Paths \ {p} : ingest'[o] = ingest[o] /\ held'[o] = held[o]
  BY <1>1, <1>2 DEF Steps
<1>4. CallTypes' /\ RunTypes'
  BY <1>1, TypesStay DEF ChannelInv
<1>5. AnswersTrue' /\ ToldTheTruth' /\ ReportStands' /\ ReportKept'
  BY <1>1, TruthStays, ReportStays
<1>6. CASE UNCHANGED <<claim, events, dropped>>
  <2>1. RecordTypes' /\ RecordsAreOver' /\ RecordsApart' /\ CrumbsAccounted' /\ CrumbsOnce'
    <3>1. \A o \in Paths : /\ ingest'[o] \in {"idle", "scan"} \/ ingest'[o] = ingest[o]
                           /\ held'[o] \subseteq held[o]
                           /\ ingest'[o] = "read" => held'[o] = held[o]
      BY <1>3
    <3> QED
      BY <1>1, <1>3, <1>6, <3>1, StartOver
  <2>2. CountedIsThere' /\ HealthNamesARun'
    BY <1>1, <1>6, HealthStays, EventsStay
  <2> QED
    BY <1>4, <1>5, <2>1, <2>2 DEF ChannelInv, ChannelTypes
<1>7. CASE /\ events' = events \o [i \in 1 .. Cardinality(H) |-> AnEvent("channel_failure", SetToSeq(H)[i].id)]
           /\ claim' = {} /\ dropped' = dropped \cup (claim \ H)
  <2>1. /\ events' \in Seq(EventRows')
        /\ \A c \in script.calls : /\ RecordsOf(c) \subseteq RecordsOf(c)'
                                   /\ c \notin H => RecordsOf(c)' = RecordsOf(c)
                                   /\ c \in H => RecordsOf(c)' # {}
                                   /\ c \in H /\ RecordsOf(c) = {} => \A i, j \in RecordsOf(c)' : i = j
        /\ \A start : affectedSince(start) \subseteq affectedSince(start)'
    BY <1>1, <1>3, <1>7, RecordsInserted DEF ChannelInv
  <2>2. crumbs \subseteq script.calls /\ overlapped \in BOOLEAN /\ clock \in Nat
    BY DEF ChannelInv, ChannelTypes, RecordTypes
  <2>3. RecordTypes'
    BY <1>1, <1>3, <1>7, <2>1, <2>2 DEF RecordTypes
  <2>4. RecordsAreOver'
    <3>1. ASSUME NEW c \in script.calls, c \in crumbs' \cup claim' \/ (\E o \in Paths : c \in held'[o]) \/ RecordsOf(c)' # {}
          PROVE  c \in crumbs \cup claim \/ (\E o \in Paths : c \in held[o]) \/ RecordsOf(c) # {}
      BY <1>1, <1>3, <1>7, <2>1, <3>1
    <3> QED
      BY <1>1, <3>1 DEF ChannelInv, RecordsAreOver
  <2>5. ~overlapped => H = claim /\ \A o \in Paths \ {p} : ~Holding(o)
    BY <1>1 DEF ChannelInv, RecordsApart, Holding
  <2>6. RecordsApart'
    <3> SUFFICES ASSUME ~overlapped'
                 PROVE  /\ crumbs' \cap claim' = {}
                        /\ \A c \in crumbs' \cup claim' : RecordsOf(c)' = {}
                        /\ \A o \in Paths : ~Holding(o)'
      BY DEF RecordsApart, Holding
    <3>1. ~overlapped /\ crumbs \cap H = {} /\ \A c \in crumbs : RecordsOf(c) = {}
      BY <1>1, <2>5 DEF ChannelInv, RecordsApart
    <3>2. \A o \in Paths : ~Holding(o)'
      BY <1>3, <2>5, <3>1 DEF Holding
    <3> QED
      BY <1>1, <1>7, <2>1, <2>2, <3>1, <3>2
  <2>7. CrumbsAccounted'
    BY <1>1, <1>7, <2>1 DEF ChannelInv, CrumbsAccounted
  <2>8. CrumbsOnce'
    <3> SUFFICES ASSUME ~overlapped', NEW c \in script.calls', NEW i \in RecordsOf(c)', NEW j \in RecordsOf(c)' PROVE i = j
      BY DEF CrumbsOnce
    <3>1. CASE c \in H
      BY <1>1, <2>1, <2>5, <3>1 DEF ChannelInv, RecordsApart
    <3>2. CASE c \notin H
      BY <1>1, <2>1, <3>2 DEF ChannelInv, CrumbsOnce
    <3> QED
      BY <3>1, <3>2
  <2>9. CountedIsThere' /\ HealthNamesARun'
    BY <1>1, <2>1, HealthStays
  <2> QED
    BY <1>4, <1>5, <2>3, <2>4, <2>6, <2>7, <2>8, <2>9 DEF ChannelInv, ChannelTypes
<1> QED
  BY <1>6, <1>7 DEF ingestChannelBreadcrumbs, failedInsert

\* The retention of a claim that nobody works on: its records are counted as lost.
LEMMA RetentionKeeps ==
  ASSUME ChannelInv, retention
  PROVE  ChannelInv'
<1>1. /\ \A p \in DOMAIN ingest : ingest[p] \notin {"claimed", "read"}
      /\ claim' = {} /\ dropped' = dropped \cup claim
      /\ UNCHANGED <<script, calls, wire, marker, latest, crumbs, ingest, held, overlapped, clock, health, run, accepted,
                     saved, alive, outbox, events>>
  BY DEF retention, toolVars, viewVars
<1>2. CallTypes' /\ RunTypes'
  BY <1>1, TypesStay DEF ChannelInv
<1>3. AnswersTrue' /\ ToldTheTruth' /\ ReportStands' /\ ReportKept' /\ CountedIsThere' /\ HealthNamesARun'
  BY <1>1, TruthStays, ReportStays, HealthStays, EventsStay
<1>4. \A c : RecordsOf(c)' = RecordsOf(c)
  BY <1>1 DEF RecordsOf
<1>5. RecordTypes'
  BY <1>1, TypesStay DEF ChannelInv, ChannelTypes, RecordTypes
<1>6. \A p \in Paths : ingest[p] \notin {"claimed", "read"}
  BY <1>1 DEF ChannelInv, ChannelTypes, RecordTypes
<1>7. RecordsAreOver'
  BY <1>1, <1>4 DEF ChannelInv, RecordsAreOver
<1>8. RecordsApart'
  BY <1>1, <1>4, <1>6 DEF ChannelInv, RecordsApart, Holding
<1>9. CrumbsAccounted' /\ CrumbsOnce'
  BY <1>1, <1>4 DEF ChannelInv, CrumbsAccounted, CrumbsOnce
<1> QED
  BY <1>2, <1>3, <1>5, <1>7, <1>8, <1>9 DEF ChannelInv, ChannelTypes

\* The worker dies: what the paths had read is gone, what they had claimed is not.
LEMMA RestartKeeps ==
  ASSUME ChannelInv, WorkerRestart
  PROVE  ChannelInv'
<1>1. /\ ingest' = [p \in DOMAIN ingest |-> "idle"] /\ held' = [p \in DOMAIN held |-> {}]
      /\ UNCHANGED <<script, calls, wire, marker, latest, crumbs, claim, dropped, overlapped, clock, health, run, accepted,
                     saved, alive, outbox, events>>
  BY DEF WorkerRestart, toolVars, viewVars
<1>2. CallTypes' /\ RunTypes'
  BY <1>1, TypesStay DEF ChannelInv
<1>3. AnswersTrue' /\ ToldTheTruth' /\ ReportStands' /\ ReportKept' /\ CountedIsThere' /\ HealthNamesARun'
  BY <1>1, TruthStays, ReportStays, HealthStays, EventsStay
<1>4. /\ ingest' \in [Paths -> Steps] /\ held' \in [Paths -> SUBSET script.calls]
      /\ \A p \in Paths : ingest'[p] = "idle" /\ held'[p] = {}
  BY <1>1 DEF ChannelInv, ChannelTypes, RecordTypes, Steps
<1>5. RecordTypes' /\ RecordsAreOver' /\ RecordsApart' /\ CrumbsAccounted' /\ CrumbsOnce'
  BY <1>1, <1>4, StartOver
<1> QED
  BY <1>2, <1>3, <1>5 DEF ChannelInv, ChannelTypes

\* What every step of the health page and of the clock leaves alone.
LEMMA PageKeeps ==
  ASSUME ChannelInv,
         UNCHANGED <<toolVars, workerVars, run, accepted, saved, alive, outbox, events>>, clock' \in Nat
  PROVE  /\ ChannelTypes' /\ AnswersTrue' /\ ToldTheTruth' /\ ReportStands' /\ ReportKept'
         /\ RecordsAreOver' /\ RecordsApart' /\ CrumbsAccounted' /\ CrumbsOnce'
<1>1. UNCHANGED <<script, calls, wire, marker, latest>>
  BY DEF toolVars
<1>2. CallTypes' /\ RunTypes'
  BY <1>1, TypesStay DEF ChannelInv
<1>3. RecordTypes'
  BY <1>1, TypesStay DEF ChannelInv, ChannelTypes, RecordTypes, workerVars
<1> QED
  BY <1>1, <1>2, <1>3, TruthStays, ReportStays, RecordsStay DEF ChannelTypes

\* The count of the first query stands on events that the second one finds.
LEMMA AskHealthKeeps ==
  ASSUME ChannelInv, AskHealth
  PROVE  ChannelInv'
<1>0. PICK start : start = clock - HealthWindow
  OBVIOUS
<1>1. /\ health' = [pc |-> "counted", start |-> start,
                    failures |-> Cardinality(EventsSince(start, {"channel_failure"})),
                    downs    |-> Cardinality(EventsSince(start, {"channel_down"}))]
      /\ UNCHANGED <<toolVars, workerVars, run, accepted, saved, alive, outbox, events, clock>>
  BY <1>0 DEF AskHealth
<1>2. EventsSince(start, {"channel_failure"}) \cup EventsSince(start, {"channel_down"}) \subseteq affectedSince(start)
  BY DEF EventsSince, affectedSince
<1>3. CountedIsThere'
  <2>1. health'.start = start /\ affectedSince(start)' = affectedSince(start)
    BY <1>1 DEF affectedSince, EventsSince
  <2>2. health'.downs >= 1 => EventsSince(start, {"channel_down"}) # {}
    BY <1>1, FS_EmptySet
  <2>3. health'.failures >= Threshold => EventsSince(start, {"channel_failure"}) # {}
    BY <1>1, FS_EmptySet, ChannelAssumption
  <2>4. health'.downs >= 1 \/ health'.failures >= Threshold => affectedSince(start)' # {}
    BY <1>2, <2>1, <2>2, <2>3
  <2>5. affectedSince(health.start)' = affectedSince(start)'
    BY <2>1 DEF affectedSince, EventsSince
  <2> QED
    BY <2>4, <2>5 DEF CountedIsThere
<1>4. HealthNamesARun'
  BY <1>1 DEF HealthNamesARun
<1>5. clock' \in Nat
  BY <1>1 DEF ChannelInv, ChannelTypes, RecordTypes
<1> QED
  BY <1>1, <1>3, <1>4, <1>5, PageKeeps DEF ChannelInv

\* The second query, the answer on the page, and time.
LEMMA HealthPageKeeps ==
  ASSUME ChannelInv, aggregate \/ ShowHealth \/ ClockTick
  PROVE  ChannelInv'
<1>1. /\ UNCHANGED <<toolVars, workerVars, run, accepted, saved, alive, outbox, events>>
      /\ clock' \in {clock, clock + 1}
  BY DEF aggregate, ShowHealth, ClockTick
<1>2. clock' \in Nat
  BY <1>1 DEF ChannelInv, ChannelTypes, RecordTypes
<1>3. CountedIsThere' /\ HealthNamesARun'
  <2>1. CASE aggregate
    BY <2>1 DEF ChannelInv, aggregate, CountedIsThere, HealthNamesARun
  <2>2. CASE ShowHealth
    BY <2>2 DEF ShowHealth, CountedIsThere, HealthNamesARun
  <2>3. CASE ClockTick
    BY <1>1, <2>3, HealthStays, EventsStay DEF ClockTick
  <2> QED
    BY <2>1, <2>2, <2>3
<1> QED
  BY <1>1, <1>2, <1>3, PageKeeps DEF ChannelInv

\* Every step of the channel, and every step of another page, keeps the invariant.
LEMMA ChannelStep ==
  ASSUME ChannelInv, ChannelNext \/ UNCHANGED cvars
  PROVE  ChannelInv'
<1>1. CASE UNCHANGED cvars
  <2>1. /\ UNCHANGED <<script, calls, wire, marker, latest, clock, health, run, accepted, saved, alive, outbox, events>>
        /\ UNCHANGED <<toolVars, workerVars>>
    BY <1>1 DEF cvars, toolVars, workerVars
  <2>2. clock' \in Nat
    BY <2>1 DEF ChannelInv, ChannelTypes, RecordTypes
  <2>3. CountedIsThere' /\ HealthNamesARun'
    BY <2>1, HealthStays, EventsStay
  <2> QED
    BY <2>1, <2>2, <2>3, PageKeeps DEF ChannelInv
<1>2. CASE recordFailure
  BY <1>2, FailedProbeKeeps
<1>3. CASE recordSuccess
  BY <1>3, GoodProbeKeeps
<1>4. CASE \E c \in script.calls : Begin(c) \/ Send(c) \/ NetworkError(c) \/ ServerError(c) \/ Answered(c) \/ removeOutbox(c)
  BY <1>4, BeginKeeps, SendKeeps, NetworkErrorKeeps, ServerErrorKeeps, AnsweredKeeps, RemoveOutboxKeeps
<1>5. CASE \E q \in wire : Handle(q)
  BY <1>5, HandleKeeps
<1>6. CASE \E st \in {"failed", "stopped"} : StopRun(st)
  BY <1>6, StopRunKeeps
<1>7. CASE \E kind \in {"completed", "timed_out", "cancelled", "failed"} : Exit(kind)
  BY <1>7, ExitKeeps
<1>8. CASE SweepOutbox
  BY <1>8, SweepOutboxKeeps
<1>9. CASE \E p \in DOMAIN ingest : claimChannelBreadcrumbFile(p) \/ readClaimedBreadcrumbs(p) \/ ingestChannelBreadcrumbs(p)
  <2>1. DOMAIN ingest = Paths
    BY DEF ChannelInv, ChannelTypes, RecordTypes
  <2> QED
    BY <1>9, <2>1, ClaimKeeps, ReadClaimKeeps, IngestKeeps
<1>10. CASE retention
  BY <1>10, RetentionKeeps
<1>11. CASE WorkerRestart
  BY <1>11, RestartKeeps
<1>12. CASE AskHealth
  BY <1>12, AskHealthKeeps
<1>13. CASE aggregate \/ ShowHealth \/ ClockTick
  BY <1>13, HealthPageKeeps
<1> QED
  BY <1>1, <1>2, <1>3, <1>4, <1>5, <1>6, <1>7, <1>8, <1>9, <1>10, <1>11, <1>12, <1>13 DEF ChannelNext

\* A new run: nothing has been called, written down or counted.
LEMMA ChannelStart ==
  ASSUME ChannelInit
  PROVE  ChannelInv
<1>1. /\ script \in Scripts
      /\ calls = [c \in script.calls |-> [st |-> "idle", net |-> 0, srv |-> 0, result |-> NoResult]]
      /\ wire = {} /\ run = "queued" /\ accepted = {} /\ saved = {} /\ alive = FALSE
      /\ marker = FALSE /\ outbox = Nobody /\ latest = Nobody
      /\ crumbs = {} /\ claim = {} /\ dropped = {} /\ overlapped = FALSE
      /\ ingest = [p \in Paths |-> "idle"] /\ held = [p \in Paths |-> {}]
      /\ events = <<>> /\ clock = 0 /\ health = [pc |-> "idle"]
  BY DEF ChannelInit, Paths
<1>2. CallTypes
  BY <1>1 DEF CallTypes, CallStates
<1>3. RunTypes
  BY <1>1 DEF RunTypes
<1>4. events \in Seq(EventRows)
  BY <1>1
<1>5. RecordTypes
  BY <1>1, <1>4 DEF RecordTypes, Steps
<1>6. \A c : RecordsOf(c) = {}
  BY <1>1 DEF RecordsOf
<1>7. AnswersTrue /\ ReportStands /\ ReportKept /\ CountedIsThere /\ HealthNamesARun
  BY <1>1 DEF AnswersTrue, ReportStands, ReportKept, CountedIsThere, HealthNamesARun
<1>8. RecordsAreOver /\ RecordsApart /\ CrumbsOnce
  BY <1>1, <1>6 DEF RecordsAreOver, RecordsApart, CrumbsOnce, Holding
<1>9. \A c \in script.calls : calls[c].result = NoResult
  BY <1>1
<1>10. ToldTheTruth /\ CrumbsAccounted
  BY <1>1, <1>9 DEF ToldTheTruth, CrumbsAccounted, NoResult
<1> QED
  BY <1>2, <1>3, <1>5, <1>7, <1>8, <1>10 DEF ChannelInv, ChannelTypes

\* What a page's step does to the channel is a step of the channel or nothing.
LEMMA ChannelOfPages ==
  ASSUME [Next]_allvars
  PROVE  ChannelNext \/ UNCHANGED cvars
BY DEF Next, Dashboard, RunCard, TicketPage, ChannelCard, Prompts, MockPool, allvars

\* For every script of calls, lost and late answers, failed writes, restarts and
\* overlaps of the two ingestions: what the agent is told is so, its last report is
\* never lost while it lives, no record of a failed call is lost unnamed or written
\* twice, and a channel shown as degraded names a run.
THEOREM ChannelStaysHonest == Spec => []ChannelHonest
<1>1. Init => ChannelInv
  BY ChannelStart DEF Init
<1>2. ChannelInv /\ [Next]_allvars => ChannelInv'
  BY ChannelOfPages, ChannelStep
<1>3. ChannelInv => ChannelHonest
  BY DEF ChannelInv, ChannelHonest
<1> QED
  BY <1>1, <1>2, <1>3, PTL DEF Spec

-----------------------------------------------------------------------------
\* The prompts along a ticket: the inductive invariant.

Keys     == Workers \cup {Brigadir}
Sources  == {"poll", "triage", "answer-triage", "rework", "human-resume", "workspace-setup"}
Statuses == {"queued", "active", "parked", "succeeded", "failed", "superseded"}
Reading  == {"workspace", "failing", "question", "roster", "count", "max"}
Working  == {"prepare", "receipt", "done"}
Sections == {"task", "report", "rules", "ticket", "repositories", "verified", "handoff"}
Events   == [source : Sources, failing : Nat, question : Nat, answer : Nat]
ChainRows == [agent : Keys, event : Events, status : Statuses, target : Keys \cup {NoOne}]
Prompts0 == [pc : {"none"} \cup Reading \cup Working, run : Nat, section : BOOLEAN, failure : Nat,
             question : Nat, answer : Nat, roster : SUBSET Keys, count : Nat, permits : BOOLEAN,
             gates : SUBSET story.gates, sections : SUBSET Sections]
Source(i) == chain[i].event.source

PromptTypes ==
  /\ story \in Stories /\ team \in [Keys -> BOOLEAN] /\ reworkMax \in Nat
  /\ chain \in Seq(ChainRows) /\ told \in Prompts0 /\ verification.gates \subseteq story.gates

\* Every run descends from work or from the setup: an orchestrator's run has a
\* worker's failure behind it, or it is the setup's.
RowDescends(c, ticket, i) ==
  /\ c[i].event.failing # NoRun => c[i].event.failing \in 1..(i - 1) /\ c[c[i].event.failing].agent # Brigadir
  /\ c[i].agent = Brigadir =>
       \/ c[i].event.source = "workspace-setup"
       \/ c[i].event.source \in {"triage", "answer-triage"} /\ c[i].event.failing # NoRun
  /\ c[i].event.source = "workspace-setup" => ~ticket
  /\ c[i].target # NoOne => c[i].agent = Brigadir /\ ticket
Descent == \A i \in DOMAIN chain : RowDescends(chain, story.ticket, i)

\* An answered question is followed by the run that was given the answer.
Answers ==
  \A i \in DOMAIN chain : chain[i].status = "superseded" =>
    /\ i + 1 \in DOMAIN chain /\ chain[i + 1].event.question = i /\ chain[i + 1].event.answer = i
    /\ Source(i + 1) \in {"workspace-setup", "answer-triage", "human-resume"}

\* The prompt is that of the newest run as soon as the run has been taken, and it
\* is whole before the run can end.
PromptOfNewest ==
  /\ told.run \in 0..Newest
  /\ told.pc = "none" <=> told.run = 0
  /\ Newest > 0 /\ chain[Newest].status # "queued" => told.run = Newest
  /\ told.pc \in Working \/ told.pc = "none" \/ told.pc \in DOMAIN Reads(Source(told.run)) \ {"start"}
  /\ told.run > 0 /\ chain[told.run].status # "active" => told.pc = "done"
  /\ told.sections # {} => told.pc = "done"
  /\ "verified" \in told.sections => told.gates # {}
  /\ Newest > 0 /\ chain[Newest].status = "active" => verdict = NoVerdict
  /\ told.run \in 1..(Newest - 1) => chain[told.run].status # "active"

\* What has been read of the trigger event is in the prompt.
EventTold ==
  /\ told.failure # NoRun => told.failure \in DOMAIN chain /\ chain[told.failure].agent # Brigadir
  /\ told.section /\ told.run > 0 /\ told.pc \in {"roster", "count", "max"} \cup Working
       /\ Source(told.run) \in {"workspace-setup", "answer-triage", "human-resume"} =>
     told.question = chain[told.run].event.question /\ told.answer = chain[told.run].event.answer

\* What has been read of the operator's settings is as it was, or known to be stale.
Orders == {"triage", "answer-triage"}
SettingsTold ==
  told.section /\ told.run > 0 /\ told.run = Newest /\ Source(told.run) \in Orders =>
    /\ told.pc \in {"count", "max"} \cup Working /\ "team" \notin stale => told.roster = roster
    /\ told.pc \in {"max"} \cup Working => told.count = CycleCount1
    /\ told.pc \in Working /\ "max" \notin stale =>
         (told.permits <=> \/ Available(told.count, reworkMax)
                           \/ Source(told.run) = "answer-triage" /\ grantLine(told.count, reworkMax))

\* A receipt, written or still to be written, is of commits and checks of its run.
Backed(w) == \E v \in vouched : /\ v.run = w.run /\ w.gates \subseteq v.gates
                                /\ \A r \in DOMAIN w.repos : r \in DOMAIN v.heads /\ v.heads[r] = w.repos[r]
Receipts ==
  /\ \A w \in completions \cup {verification} : w = [run |-> w.run, repos |-> w.repos, gates |-> w.gates]
  /\ \A w \in completions : w.gates \subseteq story.gates
  /\ \A w \in completions \cup {verification} : w.gates # {} => Backed(w)
  /\ \A v \in vouched : v.run \in 1..Newest /\ (v.run = Newest => chain[Newest].status \notin {"queued", "active"})

PromptInv ==
  /\ PromptTypes /\ Descent /\ Answers /\ PromptOfNewest /\ EventTold /\ SettingsTold /\ Receipts
  /\ PromiseKept /\ GatesVerified

\* Which step may follow which: a question is told before the roster is, the roster
\* before the count, the count before the maximum, and that before the run works.
LEMMA OrderOfReads ==
  ASSUME Source(Newest) \in Sources, NEW step \in DOMAIN Reads(Source(Newest))
  PROVE  /\ After(step) \in Reading \cup {"prepare"}
         /\ After(step) = "prepare" \/ After(step) \in DOMAIN Reads(Source(Newest)) \ {"start"}
         /\ step \in {"start"} \cup Reading
         /\ Source(Newest) \in {"workspace-setup", "answer-triage", "human-resume"} =>
              (After(step) \in {"roster", "count", "max", "prepare"} => step \in {"question", "roster", "count", "max"})
         /\ Source(Newest) \in Orders =>
              /\ After(step) \in {"count", "max", "prepare"} => step \in {"roster", "count", "max"}
              /\ After(step) \in {"max", "prepare"} => step \in {"count", "max"}
              /\ After(step) = "prepare" => step = "max"
<1> DEFINE src == Source(Newest)
<1>1. After(step) = Reads(src)[step]
  BY DEF After, Source
<1>2. CASE src = "triage"
  BY <1>1, <1>2 DEF Reads, Reading, Orders
<1>3. CASE src = "answer-triage"
  BY <1>1, <1>3 DEF Reads, Reading, Orders
<1>4. CASE src = "rework"
  BY <1>1, <1>4 DEF Reads, Reading, Orders
<1>5. CASE src = "human-resume"
  BY <1>1, <1>5 DEF Reads, Reading, Orders
<1>6. CASE src = "workspace-setup"
  BY <1>1, <1>6 DEF Reads, Reading, Orders
<1>7. CASE src = "poll"
  BY <1>1, <1>7 DEF Reads, Reading, Orders
<1> QED
  BY <1>2, <1>3, <1>4, <1>5, <1>6, <1>7 DEF Sources

\* What the types say of a run of the chain.
LEMMA ChainTyped ==
  ASSUME PromptTypes
  PROVE  /\ Newest \in Nat /\ DOMAIN chain = 1..Newest
         /\ \A i \in 1..Newest : /\ chain[i] \in ChainRows /\ chain[i].agent \in Keys /\ chain[i].event \in Events
                                 /\ chain[i].event.failing \in Nat /\ Source(i) \in Sources
                                 /\ chain[i].status \in Statuses
<1>1. Newest \in Nat /\ DOMAIN chain = 1..Newest /\ \A i \in 1..Newest : chain[i] \in ChainRows
  BY DEF PromptTypes, Newest
<1> QED
  BY <1>1 DEF ChainRows, Events, Source

\* The chain with one more run behind it.
LEMMA ChainGrows ==
  ASSUME PromptTypes, NEW older \in Seq(ChainRows), Len(older) = Newest, NEW row \in ChainRows, chain' = Append(older, row)
  PROVE  /\ chain' \in Seq(ChainRows) /\ Newest' = Newest + 1 /\ DOMAIN chain' = 1..(Newest + 1)
         /\ chain'[Newest + 1] = row /\ \A i \in 1..Newest : chain'[i] = older[i]
<1>1. Newest \in Nat
  BY ChainTyped
<1>2. /\ Append(older, row) \in Seq(ChainRows) /\ Len(Append(older, row)) = Newest + 1
      /\ Append(older, row)[Newest + 1] = row /\ \A i \in 1..Newest : Append(older, row)[i] = older[i]
  <2> HIDE DEF Newest
  <2> QED
    BY <1>1
<1> QED
  BY <1>2 DEF Newest

\* One more number.
LEMMA OneMore ==
  ASSUME NEW n \in Nat
  PROVE  1..(n + 1) = (1..n) \cup {n + 1} /\ n + 1 \notin 1..n /\ (n + 1) - 1 = n
OBVIOUS

\* A row descends from the rows before it, whatever becomes of their status.
LEMMA DescentOfRow ==
  ASSUME NEW c, NEW d, NEW ticket, NEW i \in Nat, RowDescends(c, ticket, i), d[i].event = c[i].event,
         d[i].agent = c[i].agent, d[i].target # NoOne => d[i].agent = Brigadir /\ ticket,
         \A j \in 1..(i - 1) : d[j].agent = c[j].agent
  PROVE  RowDescends(d, ticket, i)
BY DEF RowDescends

\* A run is added behind one that waits for nothing: what was told stays told.
LEMMA RunAdded ==
  ASSUME PromptInv, NEW older \in Seq(ChainRows), Len(older) = Newest,
         NEW agent \in Keys, NEW event \in Events, NewRun(agent, event, older),
         \A i \in 1..Newest : /\ older[i].agent = chain[i].agent /\ older[i].event = chain[i].event
                              /\ older[i].target = chain[i].target
                              /\ \/ older[i].status = chain[i].status
                                 \/ /\ i = Newest /\ older[i].status = "superseded"
                                    /\ event.question = i /\ event.answer = i
                                    /\ event.source \in {"workspace-setup", "answer-triage", "human-resume"},
         Newest > 0 => chain[Newest].status \notin {"queued", "active"},
         event.failing # NoRun => event.failing \in 1..Newest /\ chain[event.failing].agent # Brigadir,
         agent = Brigadir => \/ event.source = "workspace-setup"
                             \/ event.source \in {"triage", "answer-triage"} /\ event.failing # NoRun,
         event.source = "workspace-setup" => ~story.ticket,
         UNCHANGED <<story, team, reworkMax, told, startShas, heads, verification, completions, vouched, stale>>
  PROVE  /\ PromptTypes' /\ Descent' /\ Answers' /\ PromptOfNewest' /\ EventTold' /\ SettingsTold' /\ Receipts'
         /\ GatesVerified'
<1> DEFINE row == [agent |-> agent, event |-> event, status |-> "queued", target |-> NoOne]
<1>1. row \in ChainRows
  BY DEF ChainRows, Statuses
<1>2. chain' = Append(older, row)
  BY DEF NewRun
<1>3. PromptTypes /\ Newest \in Nat /\ DOMAIN chain = 1..Newest
  BY ChainTyped DEF PromptInv
<1> HIDE DEF row
<1>4. /\ chain' \in Seq(ChainRows) /\ Newest' = Newest + 1 /\ DOMAIN chain' = 1..(Newest + 1)
      /\ chain'[Newest + 1] = row /\ \A i \in 1..Newest : chain'[i] = older[i]
  BY <1>1, <1>2, <1>3, ChainGrows
<1>5. row.agent = agent /\ row.event = event /\ row.status = "queued" /\ row.target = NoOne
  BY DEF row
<1>6. \A i \in 1..Newest : /\ chain'[i].agent = chain[i].agent /\ chain'[i].event = chain[i].event
                           /\ chain'[i].target = chain[i].target
  BY <1>4
<1>7. 1..(Newest + 1) = (1..Newest) \cup {Newest + 1} /\ Newest + 1 \notin 1..Newest /\ (Newest + 1) - 1 = Newest
  BY <1>3, OneMore
<1>8. PromptTypes'
  BY <1>3, <1>4 DEF PromptTypes, Prompts0
<1>9. Descent'
  <2>1. ASSUME NEW i \in 1..Newest PROVE RowDescends(chain', story.ticket, i)
    <3>1. RowDescends(chain, story.ticket, i)
      BY <1>3 DEF PromptInv, Descent
    <3>2. chain'[i].target # NoOne => chain'[i].agent = Brigadir /\ story.ticket
      BY <1>6, <3>1 DEF RowDescends
    <3>3. \A j \in 1..(i - 1) : chain'[j].agent = chain[j].agent
      BY <1>3, <1>6
    <3>4. i \in Nat /\ chain'[i].event = chain[i].event /\ chain'[i].agent = chain[i].agent
      BY <1>3, <1>6
    <3> QED
      BY <3>1, <3>2, <3>3, <3>4, DescentOfRow
  <2>2. RowDescends(chain', story.ticket, Newest + 1)
    <3>1. chain'[Newest + 1].event = event /\ chain'[Newest + 1].agent = agent /\ chain'[Newest + 1].target = NoOne
      BY <1>4, <1>5
    <3> QED
      BY <1>6, <1>7, <3>1 DEF RowDescends
  <2> QED
    BY <1>4, <1>7, <2>1, <2>2 DEF Descent
<1>10. Answers'
  <2> SUFFICES ASSUME NEW i \in DOMAIN chain', chain'[i].status = "superseded"
               PROVE  /\ i + 1 \in DOMAIN chain' /\ chain'[i + 1].event.question = i /\ chain'[i + 1].event.answer = i
                      /\ Source(i + 1)' \in {"workspace-setup", "answer-triage", "human-resume"}
    BY DEF Answers
  <2>1. i \in 1..Newest
    BY <1>4, <1>5, <1>7
  <2>2. CASE chain[i].status = "superseded"
    <3>1. /\ i + 1 \in 1..Newest /\ chain[i + 1].event.question = i /\ chain[i + 1].event.answer = i
          /\ Source(i + 1) \in {"workspace-setup", "answer-triage", "human-resume"}
      BY <1>3, <2>1, <2>2 DEF PromptInv, Answers
    <3> QED
      BY <1>4, <1>6, <1>7, <3>1 DEF Source
  <2>3. CASE chain[i].status # "superseded"
    <3>1. /\ i = Newest /\ event.question = i /\ event.answer = i
          /\ event.source \in {"workspace-setup", "answer-triage", "human-resume"}
      BY <1>4, <2>1, <2>3
    <3> QED
      BY <1>3, <1>4, <1>5, <1>7, <3>1 DEF Source
  <2> QED
    BY <2>2, <2>3
<1>11. told.run \in 0..Newest /\ told.run # Newest + 1
  BY <1>3 DEF PromptInv, PromptOfNewest
<1>12. told.run > 0 => told.run \in 1..Newest
  BY <1>3, <1>11
<1>13. PromptOfNewest'
  <2>1. told.run > 0 => chain'[told.run].status # "active" /\ chain[told.run].status # "active"
    <3>1. told.run \in 1..Newest => chain[told.run].status # "active"
      <4>1. CASE told.run = Newest
        BY <1>3, <4>1
      <4>2. CASE told.run \in 1..(Newest - 1)
        BY <4>2 DEF PromptInv, PromptOfNewest
      <4> QED
        BY <1>3, <4>1, <4>2
    <3> QED
      BY <1>4, <1>12, <3>1
  <2>2. told.run > 0 => told.pc = "done"
    BY <2>1 DEF PromptInv, PromptOfNewest
  <2>3. told.run = 0 => told.pc = "none"
    BY DEF PromptInv, PromptOfNewest
  <2>4. chain'[Newest'].status = "queued"
    BY <1>4, <1>5
  <2>5. told.run \in 0..Newest'
    BY <1>3, <1>4, <1>11
  <2>6. told.pc = "none" <=> told.run = 0
    BY DEF PromptInv, PromptOfNewest
  <2>7. /\ told.sections # {} => told.pc = "done"
        /\ "verified" \in told.sections => told.gates # {}
    BY DEF PromptInv, PromptOfNewest
  <2>8. told.pc \in Working \/ told.pc = "none"
    BY <1>3, <1>11, <2>2, <2>3 DEF Working
  <2>9. told.run \in 1..(Newest' - 1) => told.run > 0
    BY <1>3, <1>4
  <2> QED
    BY <2>1, <2>2, <2>4, <2>5, <2>6, <2>7, <2>8, <2>9 DEF PromptOfNewest
<1>14. EventTold'
  <2>1. told.failure # NoRun => told.failure \in DOMAIN chain' /\ chain'[told.failure].agent # Brigadir
    <3>1. told.failure # NoRun => told.failure \in 1..Newest /\ chain[told.failure].agent # Brigadir
      BY <1>3 DEF PromptInv, EventTold
    <3> QED
      BY <1>4, <1>7, <3>1
  <2> QED
    BY <1>6, <1>12, <2>1 DEF PromptInv, EventTold, Source
<1>15. SettingsTold'
  BY <1>4, <1>11 DEF SettingsTold
<1>16. Receipts'
  <2>1. \A v \in vouched : v.run \in 1..Newest' /\ v.run # Newest'
    BY <1>3, <1>4 DEF PromptInv, Receipts
  <2> QED
    BY <2>1 DEF PromptInv, Receipts, Backed
<1>17. GatesVerified'
  BY DEF PromptInv, GatesVerified
<1> QED
  BY <1>8, <1>9, <1>10, <1>13, <1>14, <1>15, <1>16, <1>17

\* Behind a chain at rest a run may be added.
LEMMA RestingChain ==
  ASSUME PromptInv, Resting
  PROVE  /\ chain \in Seq(ChainRows) /\ Newest \in Nat
         /\ Newest > 0 => chain[Newest].status \notin {"queued", "active", "parked"}
<1>1. PromptTypes /\ Newest \in Nat /\ DOMAIN chain = 1..Newest
  BY ChainTyped DEF PromptInv
<1>2. Newest > 0 => Newest \in DOMAIN chain
  BY <1>1
<1> QED
  BY <1>1, <1>2 DEF PromptTypes, Resting

\* A run from the board, or the run that sets the workspace up.
LEMMA NewWorkKeeps ==
  ASSUME PromptInv, NewWork1
  PROVE  PromptInv'
<1>1. PICK k \in Keys, src \in {"poll", "workspace-setup"} :
         /\ NewRun(k, [Event0 EXCEPT !.source = src], chain)
         /\ k = Brigadir => src = "workspace-setup"
         /\ src = "workspace-setup" => ~story.ticket
  <2>1. CASE story.ticket
    <3>1. PICK k \in Workers : NewRun(k, Event0, chain)
      BY <2>1 DEF NewWork1
    <3>2. Event0 = [Event0 EXCEPT !.source = "poll"]
      BY DEF Event0
    <3> QED
      BY <3>1, <3>2, WorkersAssumption DEF Keys
  <2>2. CASE ~story.ticket
    BY <2>2 DEF NewWork1, Keys
  <2> QED
    BY <2>1, <2>2
<1> DEFINE event == [Event0 EXCEPT !.source = src]
<1>2. event \in Events /\ event.failing = NoRun /\ event.source = src
  BY DEF Event0, Events, Sources, NoRun
<1>3. NewRun(k, event, chain)
  BY <1>1
<1> HIDE DEF event
<1>4. Resting /\ UNCHANGED <<story, team, reworkMax, told, startShas, heads, verification, completions, vouched, stale, verdict>>
  BY DEF NewWork1, userVars, gitVars, proofVars
<1>5. /\ PromptTypes' /\ Descent' /\ Answers' /\ PromptOfNewest' /\ EventTold' /\ SettingsTold' /\ Receipts'
      /\ GatesVerified'
  BY <1>1, <1>2, <1>3, <1>4, RestingChain, RunAdded DEF Newest
<1>6. PromiseKept'
  BY <1>4 DEF PromptInv, PromiseKept
<1> QED
  BY <1>5, <1>6 DEF PromptInv

\* The run that triages a worker's failure.
LEMMA TriageKeeps ==
  ASSUME PromptInv, decideTriage
  PROVE  PromptInv'
<1> DEFINE event == [Event0 EXCEPT !.source = "triage", !.failing = Newest]
<1>1. Resting /\ story.ticket /\ Newest > 0 /\ chain[Newest].agent # Brigadir /\ NewRun(Brigadir, event, chain)
  BY DEF decideTriage, Orch
<1>2. UNCHANGED <<story, team, reworkMax, told, startShas, heads, verification, completions, vouched, stale, verdict>>
  BY DEF decideTriage, userVars, gitVars, proofVars
<1>3. chain \in Seq(ChainRows) /\ Newest \in Nat /\ chain[Newest].status \notin {"queued", "active", "parked"}
  BY <1>1, RestingChain
<1>4. event \in Events /\ event.failing = Newest /\ event.source = "triage"
  BY <1>3 DEF Event0, Events, Sources, NoRun
<1>5. Brigadir \in Keys
  BY DEF Keys
<1> HIDE DEF event
<1>6. /\ PromptTypes' /\ Descent' /\ Answers' /\ PromptOfNewest' /\ EventTold' /\ SettingsTold' /\ Receipts'
      /\ GatesVerified'
  <2>1. Len(chain) = Newest /\ event.failing \in 1..Newest /\ event.failing # NoRun
    BY <1>1, <1>3, <1>4 DEF Newest, NoRun
  <2> QED
    BY <1>1, <1>2, <1>3, <1>4, <1>5, <2>1, RunAdded
<1>7. PromiseKept'
  BY <1>2 DEF PromptInv, PromiseKept
<1> QED
  BY <1>6, <1>7 DEF PromptInv

\* The chain with another row at one place.
LEMMA RowChanged ==
  ASSUME NEW c \in Seq(ChainRows), NEW n \in 1..Len(c), NEW row \in ChainRows
  PROVE  /\ [c EXCEPT ![n] = row] \in Seq(ChainRows) /\ Len([c EXCEPT ![n] = row]) = Len(c)
         /\ DOMAIN [c EXCEPT ![n] = row] = 1..Len(c)
         /\ [c EXCEPT ![n] = row][n] = row /\ \A i \in 1..Len(c) : i # n => [c EXCEPT ![n] = row][i] = c[i]
OBVIOUS

\* The failure an answer is about is that of a worker.
LEMMA ResumeKeeps ==
  ASSUME PromptInv, resumeRun
  PROVE  PromptInv'
<1>1. PromptTypes /\ Newest \in Nat /\ DOMAIN chain = 1..Newest /\ Newest > 0 /\ chain[Newest].status = "parked"
  BY ChainTyped DEF PromptInv, resumeRun
<1>2. /\ chain \in Seq(ChainRows) /\ chain[Newest] \in ChainRows /\ chain[Newest].agent \in Keys
      /\ chain[Newest].event.failing \in Nat /\ Source(Newest) \in Sources
  BY <1>1, ChainTyped DEF PromptTypes
<1>3. UNCHANGED <<story, team, reworkMax, told, startShas, heads, verification, completions, vouched, stale, verdict>>
  BY DEF resumeRun, userVars, gitVars, proofVars
<1>4. RowDescends(chain, story.ticket, Newest)
  BY <1>1 DEF PromptInv, Descent
<1> DEFINE older == [chain EXCEPT ![Newest].status = "superseded"]
           row   == [chain[Newest] EXCEPT !.status = "superseded"]
<1>5. /\ row \in ChainRows /\ row.status = "superseded" /\ row.agent = chain[Newest].agent
      /\ row.event = chain[Newest].event /\ row.target = chain[Newest].target
  BY <1>2 DEF ChainRows, Statuses
<1>6. older \in Seq(ChainRows) /\ Len(older) = Newest /\ older[Newest] = row /\ \A i \in 1..Newest : i # Newest => older[i] = chain[i]
  <2>1. older = [chain EXCEPT ![Newest] = row]
    OBVIOUS
  <2>2. Newest \in 1..Len(chain) /\ Len(chain) = Newest
    BY <1>1 DEF Newest
  <2> HIDE DEF older, row
  <2> QED
    BY <1>2, <1>5, <2>1, <2>2, RowChanged
<1>7. PICK k \in Keys, event \in Events :
         /\ NewRun(k, event, older) /\ event.question = Newest /\ event.answer = Newest
         /\ event.source \in {"workspace-setup", "answer-triage", "human-resume"}
         /\ event.failing # NoRun => event.failing \in 1..Newest /\ chain[event.failing].agent # Brigadir
         /\ k = Brigadir => \/ event.source = "workspace-setup"
                            \/ event.source \in {"triage", "answer-triage"} /\ event.failing # NoRun
         /\ event.source = "workspace-setup" => ~story.ticket
  <2>1. PICK k \in {chain[Newest].agent} \cup {a \in DOMAIN team : team[a] /\ story.ticket} :
       NewRun(k, IF Source(Newest) = "workspace-setup" THEN setupResumeEvent(Newest)
                 ELSE IF k = Brigadir THEN answerTriageTriggerEvent(Newest)
                 ELSE [Event0 EXCEPT !.source = "human-resume", !.question = Newest, !.answer = Newest],
              older)
    BY DEF resumeRun, Source
  <2>2. k \in Keys
    BY <1>1, <1>2, <2>1 DEF PromptTypes
  <2> HIDE DEF older, row
  <2>3. CASE Source(Newest) = "workspace-setup"
    <3> DEFINE event == setupResumeEvent(Newest)
    <3>1. /\ event \in Events /\ event.question = Newest /\ event.answer = Newest /\ event.source = "workspace-setup"
          /\ event.failing = NoRun
      BY <1>1 DEF setupResumeEvent, Event0, Events, Sources, NoRun
    <3>2. NewRun(k, event, older) /\ ~story.ticket
      BY <1>4, <2>1, <2>3 DEF RowDescends, Source
    <3> HIDE DEF event
    <3> QED
      BY <2>2, <3>1, <3>2
  <2>4. CASE Source(Newest) # "workspace-setup" /\ k = Brigadir
    <3> DEFINE event == answerTriageTriggerEvent(Newest)
               f == IF Orch(Newest) /\ chain[Newest].event.failing # NoRun THEN chain[Newest].event.failing ELSE Newest
    <3>1. f \in Nat
      BY <1>1, <1>2
    <3>2. event = [Event0 EXCEPT !.source = "answer-triage", !.question = Newest, !.answer = Newest, !.failing = f]
      BY DEF answerTriageTriggerEvent
    <3> HIDE DEF f
    <3>3. /\ event \in Events /\ event.question = Newest /\ event.answer = Newest /\ event.source = "answer-triage"
          /\ event.failing = f
      BY <1>1, <3>1, <3>2 DEF Event0, Events, Sources, NoRun
    <3>4. f # NoRun /\ f \in 1..Newest /\ chain[f].agent # Brigadir
      <4>1. CASE chain[Newest].agent = Brigadir
        <5>1. chain[Newest].event.failing # NoRun
          BY <1>4, <2>4, <4>1 DEF RowDescends, Source
        <5>2. f = chain[Newest].event.failing
          BY <4>1, <5>1 DEF f, Orch
        <5> QED
          BY <1>1, <1>4, <5>1, <5>2 DEF RowDescends
      <4>2. CASE chain[Newest].agent # Brigadir
        <5>1. f = Newest
          BY <4>2 DEF f, Orch
        <5> QED
          BY <1>1, <4>2, <5>1 DEF NoRun
      <4> QED
        BY <4>1, <4>2
    <3>5. NewRun(k, event, older)
      BY <2>1, <2>4
    <3> HIDE DEF event
    <3> QED
      BY <2>2, <3>3, <3>4, <3>5
  <2>5. CASE Source(Newest) # "workspace-setup" /\ k # Brigadir
    <3> DEFINE event == [Event0 EXCEPT !.source = "human-resume", !.question = Newest, !.answer = Newest]
    <3>1. /\ event \in Events /\ event.question = Newest /\ event.answer = Newest /\ event.source = "human-resume"
          /\ event.failing = NoRun
      BY <1>1 DEF Event0, Events, Sources, NoRun
    <3>2. NewRun(k, event, older)
      BY <2>1, <2>5
    <3> HIDE DEF event
    <3> QED
      BY <2>2, <2>5, <3>1, <3>2
  <2> QED
    BY <2>3, <2>4, <2>5
<1>8. \A i \in 1..Newest : /\ older[i].agent = chain[i].agent /\ older[i].event = chain[i].event
                           /\ older[i].target = chain[i].target
                           /\ \/ older[i].status = chain[i].status
                              \/ /\ i = Newest /\ older[i].status = "superseded"
                                 /\ event.question = i /\ event.answer = i
                                 /\ event.source \in {"workspace-setup", "answer-triage", "human-resume"}
  <2> HIDE DEF older, row
  <2> QED
    BY <1>5, <1>6, <1>7
<1> HIDE DEF older, row
<1>9. /\ PromptTypes' /\ Descent' /\ Answers' /\ PromptOfNewest' /\ EventTold' /\ SettingsTold' /\ Receipts'
      /\ GatesVerified'
  BY <1>1, <1>3, <1>6, <1>7, <1>8, RunAdded
<1>10. PromiseKept'
  BY <1>3 DEF PromptInv, PromiseKept
<1> QED
  BY <1>9, <1>10 DEF PromptInv

\* What a finished orchestrator has been told holds when its decision is applied.
LEMMA PromiseOfDecision ==
  ASSUME PromptInv, processOrchestratorDecision
  PROVE  PromiseKept'
<1> DEFINE k    == chain[Newest].target
           kind == IF ~resolveRoutingTarget(k) THEN "override_invalid_target"
                   ELSE IF Available(CycleCount1, reworkMax) \/ grantAllows(Newest) THEN "routed"
                   ELSE "override_budget"
<1>1. /\ Newest > 0 /\ chain[Newest].status = "succeeded" /\ k # NoOne
      /\ verdict' = [kind |-> kind, target |-> k] /\ UNCHANGED <<told, stale>>
  BY DEF processOrchestratorDecision
<1>2. PromptTypes /\ Newest \in Nat /\ DOMAIN chain = 1..Newest
  BY ChainTyped DEF PromptInv
<1>3. told.run = Newest /\ told.pc = "done"
  BY <1>1, <1>2 DEF PromptInv, PromptOfNewest
<1>4. Source(Newest) \in Orders
  <2>1. RowDescends(chain, story.ticket, Newest)
    BY <1>1, <1>2 DEF PromptInv, Descent
  <2> QED
    BY <1>1, <2>1 DEF RowDescends, Source, Orders
<1>5. told.section =>
        /\ "team" \notin stale => told.roster = roster
        /\ told.count = CycleCount1
        /\ "max" \notin stale => (told.permits <=> \/ Available(CycleCount1, reworkMax)
                                                   \/ Source(Newest) = "answer-triage" /\ grantLine(CycleCount1, reworkMax))
  BY <1>1, <1>3, <1>4 DEF PromptInv, SettingsTold, Working
<1>6. resolveRoutingTarget(k) <=> k \in roster
  BY DEF resolveRoutingTarget, roster
<1>7. kind = "override_invalid_target" <=> k \notin roster
  BY <1>6
<1>8. kind = "override_budget" <=> k \in roster /\ ~(\/ Available(CycleCount1, reworkMax)
                                                     \/ Source(Newest) = "answer-triage" /\ grantLine(CycleCount1, reworkMax))
  BY <1>6 DEF grantAllows, grantLine, Source
<1>9. verdict'.kind = kind /\ verdict'.target = k
  BY <1>1
<1> HIDE DEF k, kind
<1> QED
  BY <1>1, <1>5, <1>7, <1>8, <1>9 DEF PromiseKept

\* The run a decision starts is behind the orchestrator's, and passes its failure on.
LEMMA DecisionKeeps ==
  ASSUME PromptInv, processOrchestratorDecision
  PROVE  PromptInv'
<1>1. /\ Newest > 0 /\ chain[Newest].status = "succeeded" /\ chain[Newest].target # NoOne
      /\ UNCHANGED <<story, team, reworkMax, told, startShas, heads, verification, completions, vouched, stale>>
  BY DEF processOrchestratorDecision, userVars, gitVars, proofVars
<1>2. PromptTypes /\ Newest \in Nat /\ DOMAIN chain = 1..Newest /\ chain \in Seq(ChainRows)
      /\ Len(chain) = Newest /\ chain[Newest].event.failing \in Nat
  BY <1>1, ChainTyped DEF PromptInv, PromptTypes, Newest
<1>3. RowDescends(chain, story.ticket, Newest)
  BY <1>1, <1>2 DEF PromptInv, Descent
<1> DEFINE k     == chain[Newest].target
           event == [Event0 EXCEPT !.source = "rework", !.failing = chain[Newest].event.failing]
<1>4. \/ resolveRoutingTarget(k) /\ NewRun(k, event, chain)
      \/ UNCHANGED chain
  BY DEF processOrchestratorDecision
<1>5. CASE resolveRoutingTarget(k) /\ NewRun(k, event, chain)
  <2>1. k \in Keys /\ k # Brigadir
    BY <1>2, <1>5 DEF resolveRoutingTarget, PromptTypes
  <2>2. event \in Events /\ event.failing = chain[Newest].event.failing /\ event.source = "rework"
    BY <1>2 DEF Event0, Events, Sources, NoRun
  <2>3. event.failing # NoRun => event.failing \in 1..Newest /\ chain[event.failing].agent # Brigadir
    <3>1. event.failing # NoRun => event.failing \in 1..(Newest - 1) /\ chain[event.failing].agent # Brigadir
      BY <1>3, <2>2 DEF RowDescends
    <3> QED
      BY <1>2, <3>1
  <2> HIDE DEF k, event
  <2> QED
    BY <1>1, <1>2, <1>5, <2>1, <2>2, <2>3, RunAdded, PromiseOfDecision DEF PromptInv
<1>6. CASE UNCHANGED chain
  <2>1. /\ PromptTypes' /\ Descent' /\ Answers' /\ EventTold' /\ Receipts' /\ GatesVerified'
    BY <1>1, <1>6 DEF PromptInv, PromptTypes, Prompts0, Descent, Answers, EventTold, Receipts, Backed, GatesVerified,
                      Newest, Source
  <2>2. SettingsTold'
    BY <1>1, <1>6 DEF PromptInv, SettingsTold, roster, CycleCount1, Newest, Source
  <2>3. PromptOfNewest'
    BY <1>1, <1>6 DEF PromptInv, PromptOfNewest, Newest, Source
  <2> QED
    BY <2>1, <2>2, <2>3, PromiseOfDecision DEF PromptInv
<1> QED
  BY <1>4, <1>5, <1>6

\* While the newest run is under way, only its prompt changes.
LEMMA ToldMoves ==
  ASSUME PromptInv, Newest > 0, chain[Newest].status = "active", told' \in Prompts0, told'.run = Newest,
         \/ told'.pc \in Working
         \/ told'.pc \in Reading /\ told'.pc \in DOMAIN Reads(Source(Newest)) \ {"start"},
         told'.sections # {} => told'.pc = "done",
         "verified" \in told'.sections => told'.gates # {},
         UNCHANGED <<story, team, reworkMax, chain, verification, completions, vouched, verdict, stale>>
  PROVE  PromptTypes' /\ Descent' /\ Answers' /\ PromptOfNewest' /\ Receipts' /\ PromiseKept'
<1>1. PromptTypes /\ Newest \in Nat /\ DOMAIN chain = 1..Newest
  BY ChainTyped DEF PromptInv
<1>2. verdict = NoVerdict /\ told.run = Newest
  BY DEF PromptInv, PromptOfNewest
<1>3. PromptTypes'
  BY <1>1 DEF PromptTypes, Prompts0
<1>4. Descent' /\ Answers' /\ Receipts'
  BY DEF PromptInv, Descent, Answers, Receipts, Backed, Newest, Source
<1>5. PromiseKept'
  BY <1>2 DEF PromiseKept, NoVerdict
<1>6. PromptOfNewest'
  <2>1. told'.pc # "none"
    BY DEF Working, Reading
  <2>2. Newest' = Newest /\ Source(Newest)' = Source(Newest)
    BY DEF Newest, Source
  <2>3. Source(told.run)' = Source(Newest)
    BY DEF Source
  <2> QED
    BY <1>1, <1>2, <2>1, <2>2, <2>3 DEF PromptOfNewest
<1> QED
  BY <1>3, <1>4, <1>5, <1>6

\* What every read of the handoff section has in common.
LEMMA GatherMoves ==
  ASSUME PromptInv, NEW step \in Reading, NEW next \in Prompts0, Gather(step, next),
         next.run = told.run, next.section = told.section, next.sections = told.sections
  PROVE  /\ PromptTypes' /\ Descent' /\ Answers' /\ PromptOfNewest' /\ Receipts' /\ PromiseKept' /\ GatesVerified'
         /\ Newest \in 1..Len(chain) /\ DOMAIN chain = 1..Newest /\ told.run = Newest /\ told.pc = step
         /\ told' = [next EXCEPT !.pc = After(step)]
         /\ told'.run = Newest /\ told'.section = told.section /\ told'.pc = After(step)
         /\ After(step) \in Reading \cup {"prepare"}
         /\ Source(Newest) \in {"workspace-setup", "answer-triage", "human-resume"} =>
              (After(step) \in {"roster", "count", "max", "prepare"} => step \in {"question", "roster", "count", "max"})
         /\ Source(Newest) \in Orders =>
              /\ After(step) \in {"count", "max", "prepare"} => step \in {"roster", "count", "max"}
              /\ After(step) \in {"max", "prepare"} => step \in {"count", "max"}
              /\ After(step) = "prepare" => step = "max"
<1>1. /\ Newest > 0 /\ chain[Newest].status = "active" /\ told.pc = step /\ told' = [next EXCEPT !.pc = After(step)]
      /\ UNCHANGED <<story, team, reworkMax, chain, startShas, verification, completions, vouched, verdict, stale>>
  BY DEF Gather, Building, userVars, gitVars, proofVars
<1>2. PromptTypes /\ Newest \in Nat /\ DOMAIN chain = 1..Newest /\ Newest \in 1..Len(chain) /\ Source(Newest) \in Sources
  BY <1>1, ChainTyped DEF PromptInv, Newest
<1>3. step \notin Working /\ step # "none"
  BY DEF Reading, Working
<1>4. told.run = Newest
  BY <1>1 DEF PromptInv, PromptOfNewest
<1>5. step \in DOMAIN Reads(Source(Newest))
  BY <1>1, <1>3, <1>4 DEF PromptInv, PromptOfNewest
<1>6. After(step) \in Reading \cup {"prepare"} /\ (After(step) = "prepare" \/ After(step) \in DOMAIN Reads(Source(Newest)) \ {"start"})
  BY <1>2, <1>5, OrderOfReads
<1>7. told' \in Prompts0 /\ told'.run = Newest /\ told'.section = told.section /\ told'.pc = After(step)
      /\ told'.sections = told.sections
  BY <1>1, <1>4, <1>6 DEF Prompts0, Working
<1>8. told.sections = {}
  BY <1>1, <1>3 DEF PromptInv, PromptOfNewest, Working
<1>9. PromptTypes' /\ Descent' /\ Answers' /\ PromptOfNewest' /\ Receipts' /\ PromiseKept'
  <2>1. \/ told'.pc \in Working
        \/ told'.pc \in Reading /\ told'.pc \in DOMAIN Reads(Source(Newest)) \ {"start"}
    BY <1>6, <1>7 DEF Working
  <2> QED
    BY <1>1, <1>7, <1>8, <2>1, ToldMoves
<1>10. GatesVerified'
  BY <1>7, <1>8 DEF GatesVerified
<1> QED
  BY <1>1, <1>2, <1>4, <1>5, <1>6, <1>7, <1>9, <1>10, OrderOfReads

\* The failure that is told is the one behind the run: a worker's.
LEMMA FailingKeeps ==
  ASSUME PromptInv, loadFailingRun
  PROVE  PromptInv'
<1> DEFINE next == [told EXCEPT !.failure = chain[Newest].event.failing]
<1>1. Gather("failing", next) /\ Newest > 0 /\ UNCHANGED <<chain, verdict>>
  BY DEF loadFailingRun, Gather, Building
<1>2. PromptTypes /\ Newest \in Nat /\ DOMAIN chain = 1..Newest /\ chain[Newest].event.failing \in Nat
  BY <1>1, ChainTyped DEF PromptInv
<1>3. /\ next \in Prompts0 /\ next.run = told.run /\ next.section = told.section /\ next.sections = told.sections
      /\ next.failure = chain[Newest].event.failing
  BY <1>2 DEF PromptTypes, Prompts0
<1>4. "failing" \in Reading
  BY DEF Reading
<1>5. RowDescends(chain, story.ticket, Newest)
  BY <1>1, <1>2 DEF PromptInv, Descent
<1> HIDE DEF next
<1>6. /\ PromptTypes' /\ Descent' /\ Answers' /\ PromptOfNewest' /\ Receipts' /\ PromiseKept' /\ GatesVerified'
      /\ told' = [next EXCEPT !.pc = After("failing")] /\ told'.run = Newest /\ told'.pc = After("failing")
      /\ After("failing") \in Reading \cup {"prepare"}
      /\ Source(Newest) \in {"workspace-setup", "answer-triage", "human-resume"} =>
           After("failing") \notin {"roster", "count", "max", "prepare"}
      /\ Source(Newest) \in Orders => After("failing") \notin {"count", "max", "prepare"}
  BY <1>1, <1>3, <1>4, GatherMoves
<1>7. told'.failure = chain[Newest].event.failing
  BY <1>3, <1>6 DEF Prompts0
<1>8. Source(Newest)' = Source(Newest) /\ Newest' = Newest
  BY <1>1 DEF Source, Newest
<1>9. told'.failure # NoRun => told'.failure \in DOMAIN chain /\ chain[told'.failure].agent # Brigadir
  <2>1. told'.failure # NoRun => told'.failure \in 1..(Newest - 1) /\ chain[told'.failure].agent # Brigadir
    BY <1>5, <1>7 DEF RowDescends
  <2> QED
    BY <1>2, <2>1
<1>10. told'.pc \in Working => told'.pc = "prepare"
  BY <1>6 DEF Reading, Working
<1>11. EventTold'
  BY <1>1, <1>6, <1>8, <1>9, <1>10 DEF EventTold, Source
<1>12. SettingsTold'
  BY <1>1, <1>6, <1>8, <1>10 DEF SettingsTold, Source
<1> QED
  BY <1>6, <1>11, <1>12 DEF PromptInv

\* The question and the answer are those of the trigger event.
LEMMA QuestionKeeps ==
  ASSUME PromptInv, questionAnswerLines
  PROVE  PromptInv'
<1> DEFINE next == [told EXCEPT !.question = chain[Newest].event.question, !.answer = chain[Newest].event.answer]
<1>1. Gather("question", next) /\ Newest > 0 /\ UNCHANGED <<chain, verdict>>
  BY DEF questionAnswerLines, Gather, Building
<1>2. PromptTypes /\ Newest \in Nat /\ DOMAIN chain = 1..Newest /\ chain[Newest].event \in Events
  BY <1>1, ChainTyped DEF PromptInv
<1>3. /\ next \in Prompts0 /\ next.run = told.run /\ next.section = told.section /\ next.sections = told.sections
      /\ next.failure = told.failure /\ next.question = chain[Newest].event.question
      /\ next.answer = chain[Newest].event.answer
  <2>1. chain[Newest].event.question \in Nat /\ chain[Newest].event.answer \in Nat
    BY <1>2 DEF Events
  <2> QED
    BY <1>2, <2>1 DEF PromptTypes, Prompts0
<1>4. "question" \in Reading
  BY DEF Reading
<1> HIDE DEF next
<1>5. /\ PromptTypes' /\ Descent' /\ Answers' /\ PromptOfNewest' /\ Receipts' /\ PromiseKept' /\ GatesVerified'
      /\ told' = [next EXCEPT !.pc = After("question")] /\ told'.run = Newest /\ told'.pc = After("question")
      /\ After("question") \in Reading \cup {"prepare"}
      /\ Source(Newest) \in Orders => After("question") \notin {"count", "max", "prepare"}
  BY <1>1, <1>3, <1>4, GatherMoves
<1>6. /\ told'.failure = told.failure /\ told'.question = chain[Newest].event.question
      /\ told'.answer = chain[Newest].event.answer
  BY <1>3, <1>5 DEF Prompts0
<1>7. Source(Newest)' = Source(Newest) /\ Newest' = Newest
  BY <1>1 DEF Source, Newest
<1>8. told'.pc \in Working => told'.pc = "prepare"
  BY <1>5 DEF Reading, Working
<1>9. EventTold'
  BY <1>1, <1>5, <1>6, <1>7 DEF PromptInv, EventTold, Source
<1>10. SettingsTold'
  BY <1>1, <1>5, <1>7, <1>8 DEF SettingsTold, Source
<1> QED
  BY <1>5, <1>9, <1>10 DEF PromptInv

\* The setup's own section tells nothing the operator edits.
LEMMA WorkspaceKeeps ==
  ASSUME PromptInv, buildWorkspaceSetupSection
  PROVE  PromptInv'
<1>1. Gather("workspace", told) /\ Newest > 0 /\ UNCHANGED <<chain, verdict>>
  BY DEF buildWorkspaceSetupSection, Gather, Building
<1>2. told \in Prompts0
  BY DEF PromptInv, PromptTypes
<1>3. "workspace" \in Reading
  BY DEF Reading
<1>4. /\ PromptTypes' /\ Descent' /\ Answers' /\ PromptOfNewest' /\ Receipts' /\ PromiseKept' /\ GatesVerified'
      /\ told' = [told EXCEPT !.pc = After("workspace")] /\ told'.run = Newest /\ told'.pc = After("workspace")
      /\ After("workspace") \in Reading \cup {"prepare"}
      /\ Source(Newest) \in {"workspace-setup", "answer-triage", "human-resume"} =>
           After("workspace") \notin {"roster", "count", "max", "prepare"}
      /\ Source(Newest) \in Orders => After("workspace") \notin {"count", "max", "prepare"}
  BY <1>1, <1>2, <1>3, GatherMoves
<1>5. told'.failure = told.failure
  BY <1>2, <1>4 DEF Prompts0
<1>6. Source(Newest)' = Source(Newest) /\ Newest' = Newest
  BY <1>1 DEF Source, Newest
<1>7. told'.pc \in Working => told'.pc = "prepare"
  BY <1>4 DEF Reading, Working
<1>8. EventTold'
  BY <1>1, <1>4, <1>5, <1>6, <1>7 DEF PromptInv, EventTold, Source
<1>9. SettingsTold'
  BY <1>1, <1>4, <1>6, <1>7 DEF SettingsTold, Source
<1> QED
  BY <1>4, <1>8, <1>9 DEF PromptInv

\* There are finitely many cycles.
LEMMA CyclesCounted ==
  ASSUME PromptTypes
  PROVE  CycleCount1 \in Nat
<1>1. Newest \in Nat /\ DOMAIN chain = 1..Newest
  BY ChainTyped
<1>2. IsFiniteSet(1..Newest)
  BY <1>1, FS_Interval
<1>3. IsFiniteSet({i \in DOMAIN chain : chain[i].event.source = "rework"})
  BY <1>1, <1>2, FS_Subset
<1> QED
  BY <1>3, FS_CardinalityType DEF CycleCount1

\* The roster that is told is the team's workers as they are now.
LEMMA RosterKeeps ==
  ASSUME PromptInv, rosterLines
  PROVE  PromptInv'
<1> DEFINE next == [told EXCEPT !.roster = roster]
<1>1. Gather("roster", next) /\ Newest > 0 /\ UNCHANGED <<team, reworkMax, chain, verdict, stale>> /\ told.pc = "roster"
  BY DEF rosterLines, Gather, Building, userVars
<1>2. /\ next \in Prompts0 /\ next.run = told.run /\ next.section = told.section /\ next.sections = told.sections
      /\ next.failure = told.failure /\ next.question = told.question /\ next.answer = told.answer
      /\ next.roster = roster
  <2>1. roster \in SUBSET Keys
    BY DEF roster, PromptInv, PromptTypes
  <2> QED
    BY <2>1 DEF PromptInv, PromptTypes, Prompts0
<1>3. "roster" \in Reading
  BY DEF Reading
<1> HIDE DEF next
<1>4. /\ PromptTypes' /\ Descent' /\ Answers' /\ PromptOfNewest' /\ Receipts' /\ PromiseKept' /\ GatesVerified'
      /\ Newest \in 1..Len(chain) /\ told.run = Newest
      /\ told' = [next EXCEPT !.pc = After("roster")] /\ told'.run = Newest /\ told'.pc = After("roster")
      /\ told'.section = told.section /\ After("roster") \in Reading \cup {"prepare"}
      /\ Source(Newest) \in Orders => After("roster") \notin {"max", "prepare"}
  BY <1>1, <1>2, <1>3, GatherMoves
<1>5. /\ told'.failure = told.failure /\ told'.question = told.question /\ told'.answer = told.answer
      /\ told'.roster = roster
  BY <1>2, <1>4 DEF Prompts0
<1>6. Source(Newest)' = Source(Newest) /\ Newest' = Newest
  BY <1>1 DEF Source, Newest
<1>7. told'.pc \in Working => told'.pc = "prepare"
  BY <1>4 DEF Reading, Working
<1>8. EventTold'
  BY <1>1, <1>4, <1>5, <1>6 DEF PromptInv, EventTold, Source
<1>9. roster' = roster
  BY <1>1 DEF roster
<1>10. SettingsTold'
  BY <1>1, <1>4, <1>5, <1>6, <1>7, <1>9 DEF SettingsTold, Source
<1> QED
  BY <1>4, <1>8, <1>10 DEF PromptInv

\* So is the count of the cycles.
LEMMA CountKeeps ==
  ASSUME PromptInv, countCycles
  PROVE  PromptInv'
<1> DEFINE next == [told EXCEPT !.count = CycleCount1]
<1>1. Gather("count", next) /\ Newest > 0 /\ UNCHANGED <<team, reworkMax, chain, verdict, stale>> /\ told.pc = "count"
  BY DEF countCycles, Gather, Building, userVars
<1>2. /\ next \in Prompts0 /\ next.run = told.run /\ next.section = told.section /\ next.sections = told.sections
      /\ next.failure = told.failure /\ next.question = told.question /\ next.answer = told.answer
      /\ next.roster = told.roster /\ next.count = CycleCount1
  <2>1. CycleCount1 \in Nat
    BY CyclesCounted DEF PromptInv
  <2> QED
    BY <2>1 DEF PromptInv, PromptTypes, Prompts0
<1>3. "count" \in Reading
  BY DEF Reading
<1> HIDE DEF next
<1>4. /\ PromptTypes' /\ Descent' /\ Answers' /\ PromptOfNewest' /\ Receipts' /\ PromiseKept' /\ GatesVerified'
      /\ Newest \in 1..Len(chain) /\ told.run = Newest
      /\ told' = [next EXCEPT !.pc = After("count")] /\ told'.run = Newest /\ told'.pc = After("count")
      /\ told'.section = told.section /\ After("count") \in Reading \cup {"prepare"}
      /\ Source(Newest) \in Orders => After("count") # "prepare"
  BY <1>1, <1>2, <1>3, GatherMoves
<1>5. /\ told'.failure = told.failure /\ told'.question = told.question /\ told'.answer = told.answer
      /\ told'.roster = told.roster /\ told'.count = CycleCount1
  BY <1>2, <1>4 DEF Prompts0
<1>6. Source(Newest)' = Source(Newest) /\ Newest' = Newest
  BY <1>1 DEF Source, Newest
<1>7. told'.pc \in Working => told'.pc = "prepare"
  BY <1>4 DEF Reading, Working
<1>8. EventTold'
  BY <1>1, <1>4, <1>5, <1>6 DEF PromptInv, EventTold, Source
<1>9. roster' = roster /\ CycleCount1' = CycleCount1
  BY <1>1 DEF roster, CycleCount1
<1>10. SettingsTold'
  BY <1>1, <1>4, <1>5, <1>6, <1>7, <1>9 DEF PromptInv, SettingsTold, Source
<1> QED
  BY <1>4, <1>8, <1>10 DEF PromptInv

\* So is what the budget permits.
LEMMA BudgetKeeps ==
  ASSUME PromptInv, budgetLines
  PROVE  PromptInv'
<1> DEFINE ok   == \/ Available(told.count, reworkMax)
                   \/ chain[Newest].event.source = "answer-triage" /\ grantLine(told.count, reworkMax)
           next == [told EXCEPT !.permits = ok]
<1>1. Gather("max", next) /\ Newest > 0 /\ UNCHANGED <<team, reworkMax, chain, verdict, stale>> /\ told.pc = "max"
  BY DEF budgetLines, Gather, Building, userVars
<1>2. ok \in BOOLEAN
  BY DEF Available, grantLine
<1>3. ok <=> \/ Available(told.count, reworkMax)
             \/ Source(Newest) = "answer-triage" /\ grantLine(told.count, reworkMax)
  BY DEF Source
<1> HIDE DEF ok
<1>4. /\ next \in Prompts0 /\ next.run = told.run /\ next.section = told.section /\ next.sections = told.sections
      /\ next.failure = told.failure /\ next.question = told.question /\ next.answer = told.answer
      /\ next.roster = told.roster /\ next.count = told.count /\ next.permits = ok
  BY <1>2 DEF PromptInv, PromptTypes, Prompts0
<1>5. "max" \in Reading
  BY DEF Reading
<1> HIDE DEF next
<1>6. /\ PromptTypes' /\ Descent' /\ Answers' /\ PromptOfNewest' /\ Receipts' /\ PromiseKept' /\ GatesVerified'
      /\ Newest \in 1..Len(chain) /\ told.run = Newest
      /\ told' = [next EXCEPT !.pc = After("max")] /\ told'.run = Newest /\ told'.pc = After("max")
      /\ told'.section = told.section /\ After("max") \in Reading \cup {"prepare"}
  BY <1>1, <1>4, <1>5, GatherMoves
<1>7. /\ told'.failure = told.failure /\ told'.question = told.question /\ told'.answer = told.answer
      /\ told'.roster = told.roster /\ told'.count = told.count /\ told'.permits = ok
  BY <1>4, <1>6 DEF Prompts0
<1>8. Source(Newest)' = Source(Newest) /\ Newest' = Newest
  BY <1>1 DEF Source, Newest
<1>9. EventTold'
  BY <1>1, <1>6, <1>7, <1>8 DEF PromptInv, EventTold, Source
<1>10. roster' = roster /\ CycleCount1' = CycleCount1
  BY <1>1 DEF roster, CycleCount1
<1>11. Source(told.run)' = Source(Newest) /\ told'.run = Newest
  BY <1>6, <1>8 DEF Source
<1>12. SettingsTold'
  BY <1>1, <1>3, <1>6, <1>7, <1>8, <1>10, <1>11 DEF PromptInv, SettingsTold, Available, grantLine
<1> QED
  BY <1>6, <1>9, <1>12 DEF PromptInv

\* A section that could not be built promises nothing.
LEMMA SectionFailsKeeps ==
  ASSUME PromptInv, SectionFails
  PROVE  PromptInv'
<1>1. /\ Newest > 0 /\ chain[Newest].status = "active" /\ told' = [Told0 EXCEPT !.pc = "prepare", !.run = Newest]
      /\ UNCHANGED <<story, team, reworkMax, chain, startShas, verification, completions, vouched, verdict, stale>>
  BY DEF SectionFails, Building, userVars, gitVars, proofVars
<1>2. Newest \in Nat
  BY ChainTyped DEF PromptInv
<1>3. /\ told' \in Prompts0 /\ told'.run = Newest /\ told'.pc = "prepare" /\ told'.sections = {}
      /\ told'.section = FALSE /\ told'.failure = NoRun
  BY <1>1, <1>2 DEF Told0, Prompts0, Working, NoRun
<1>4. PromptTypes' /\ Descent' /\ Answers' /\ PromptOfNewest' /\ Receipts' /\ PromiseKept'
  BY <1>1, <1>3, ToldMoves DEF Working
<1>5. EventTold' /\ SettingsTold' /\ GatesVerified'
  BY <1>3 DEF EventTold, SettingsTold, GatesVerified
<1> QED
  BY <1>4, <1>5 DEF PromptInv

\* The worktrees are cut before anything is said of what is verified in them.
LEMMA PrepareKeeps ==
  ASSUME PromptInv, prepare
  PROVE  PromptInv'
<1>1. /\ Newest > 0 /\ chain[Newest].status = "active" /\ told.pc = "prepare" /\ told' = [told EXCEPT !.pc = "receipt"]
      /\ UNCHANGED <<story, team, reworkMax, chain, verification, completions, vouched, verdict, stale>>
  BY DEF prepare, Building, userVars, proofVars
<1>2. told.run = Newest /\ told.sections = {} /\ told \in Prompts0
  BY <1>1 DEF PromptInv, PromptTypes, PromptOfNewest
<1>3. /\ told' \in Prompts0 /\ told'.run = Newest /\ told'.pc = "receipt" /\ told'.sections = {}
      /\ told'.section = told.section /\ told'.failure = told.failure /\ told'.question = told.question
      /\ told'.answer = told.answer /\ told'.roster = told.roster /\ told'.count = told.count
      /\ told'.permits = told.permits
  BY <1>1, <1>2 DEF Prompts0, Working
<1>4. PromptTypes' /\ Descent' /\ Answers' /\ PromptOfNewest' /\ Receipts' /\ PromiseKept'
  BY <1>1, <1>3, ToldMoves DEF Working
<1>5. EventTold'
  BY <1>1, <1>2, <1>3 DEF PromptInv, EventTold, Source, Working
<1>6. roster' = roster /\ CycleCount1' = CycleCount1 /\ Newest' = Newest
  BY <1>1 DEF roster, CycleCount1, Newest
<1>7. SettingsTold'
  BY <1>1, <1>2, <1>3, <1>6 DEF PromptInv, SettingsTold, Source, Working, Available, grantLine
<1>8. GatesVerified'
  BY <1>3 DEF GatesVerified
<1> QED
  BY <1>4, <1>5, <1>7, <1>8 DEF PromptInv

\* A receipt that matches is of an earlier run, on the very commits of the worktrees.
LEMMA ReceiptKeeps ==
  ASSUME PromptInv, resolveVerificationReceipt
  PROVE  PromptInv'
<1>1. PICK ok \in BOOLEAN :
        LET gates == IF ok /\ matchVerificationReceipt(startShas) THEN verification.gates ELSE {}
        IN  told' = [told EXCEPT !.pc = "done", !.gates = gates, !.sections = buildWrapperText(gates)]
  BY DEF resolveVerificationReceipt
<1>2. /\ Newest > 0 /\ chain[Newest].status = "active" /\ told.pc = "receipt"
      /\ UNCHANGED <<story, team, reworkMax, chain, startShas, verification, completions, vouched, verdict, stale>>
  BY DEF resolveVerificationReceipt, Building, userVars, gitVars, proofVars
<1> DEFINE gates == IF ok /\ matchVerificationReceipt(startShas) THEN verification.gates ELSE {}
<1>3. PromptTypes /\ told \in Prompts0 /\ told.run = Newest /\ Newest \in Nat
  BY <1>2, ChainTyped DEF PromptInv, PromptTypes, PromptOfNewest
<1>4. gates \in SUBSET story.gates /\ (gates # {} => gates = verification.gates /\ matchVerificationReceipt(startShas))
  BY <1>3 DEF PromptTypes
<1>5. buildWrapperText(gates) \in SUBSET Sections /\ ("verified" \in buildWrapperText(gates) => gates # {})
  BY DEF buildWrapperText, Sections
<1>6. told' = [told EXCEPT !.pc = "done", !.gates = gates, !.sections = buildWrapperText(gates)]
  BY <1>1
<1> HIDE DEF gates
<1>7. /\ told' \in Prompts0 /\ told'.run = Newest /\ told'.pc = "done" /\ told'.sections = buildWrapperText(gates)
      /\ told'.gates = gates
      /\ told'.section = told.section /\ told'.failure = told.failure /\ told'.question = told.question
      /\ told'.answer = told.answer /\ told'.roster = told.roster /\ told'.count = told.count
      /\ told'.permits = told.permits
  BY <1>3, <1>4, <1>5, <1>6 DEF Prompts0, Working
<1>8. PromptTypes' /\ Descent' /\ Answers' /\ PromptOfNewest' /\ Receipts' /\ PromiseKept'
  BY <1>2, <1>5, <1>7, ToldMoves DEF Working
<1>9. EventTold'
  BY <1>2, <1>3, <1>7 DEF PromptInv, EventTold, Source, Working
<1>10. roster' = roster /\ CycleCount1' = CycleCount1 /\ Newest' = Newest
  BY <1>2 DEF roster, CycleCount1, Newest
<1>11. SettingsTold'
  BY <1>2, <1>3, <1>7, <1>10 DEF PromptInv, SettingsTold, Source, Working, Available, grantLine
<1>12. GatesVerified'
  <2> SUFFICES ASSUME "verified" \in told'.sections
               PROVE  \E v \in vouched : /\ v.run < Newest /\ gates \subseteq v.gates
                                         /\ \A r \in DOMAIN startShas : r \in DOMAIN v.heads /\ v.heads[r] = startShas[r]
    BY <1>2, <1>7 DEF GatesVerified
  <2>1. gates = verification.gates /\ matchVerificationReceipt(startShas) /\ verification.gates # {}
    BY <1>4, <1>5, <1>7
  <2>2. PICK v \in vouched : /\ v.run = verification.run /\ verification.gates \subseteq v.gates
                             /\ \A r \in DOMAIN verification.repos :
                                  r \in DOMAIN v.heads /\ v.heads[r] = verification.repos[r]
    BY <2>1 DEF PromptInv, Receipts, Backed
  <2>3. \A r \in DOMAIN startShas : r \in DOMAIN verification.repos /\ verification.repos[r] = startShas[r]
    BY <2>1 DEF matchVerificationReceipt
  <2>4. v.run \in 1..Newest /\ v.run # Newest
    BY <1>2 DEF PromptInv, Receipts
  <2>5. v.run < Newest
    BY <1>3, <2>4
  <2> QED
    BY <2>1, <2>2, <2>3, <2>5
<1> QED
  BY <1>8, <1>9, <1>11, <1>12 DEF PromptInv

\* A change of the newest run's status or target changes nothing in what it came from.
LEMMA NewestChanges ==
  ASSUME PromptInv, Newest > 0, chain[Newest].status # "superseded", NEW row \in ChainRows,
         row.agent = chain[Newest].agent, row.event = chain[Newest].event, row.status # "superseded",
         row.target # NoOne => row.agent = Brigadir /\ story.ticket,
         chain' = [chain EXCEPT ![Newest] = row], UNCHANGED story
  PROVE  /\ chain' \in Seq(ChainRows) /\ Newest' = Newest /\ DOMAIN chain' = 1..Newest /\ DOMAIN chain = 1..Newest
         /\ chain'[Newest] = row /\ \A i \in 1..Newest : i # Newest => chain'[i] = chain[i]
         /\ \A i \in 1..Newest : /\ chain'[i].agent = chain[i].agent /\ chain'[i].event = chain[i].event
         /\ CycleCount1' = CycleCount1 /\ Descent' /\ Answers'
<1>1. PromptTypes /\ Newest \in Nat /\ DOMAIN chain = 1..Newest /\ chain \in Seq(ChainRows)
  BY ChainTyped DEF PromptInv, PromptTypes
<1>2. Newest \in 1..Len(chain) /\ Len(chain) = Newest
  BY <1>1 DEF Newest
<1>3. /\ chain' \in Seq(ChainRows) /\ Newest' = Newest /\ DOMAIN chain' = 1..Newest
      /\ chain'[Newest] = row /\ \A i \in 1..Newest : i # Newest => chain'[i] = chain[i]
  BY <1>1, <1>2, RowChanged DEF Newest
<1>4. \A i \in 1..Newest : /\ chain'[i].agent = chain[i].agent /\ chain'[i].event = chain[i].event
  BY <1>3
<1>5. CycleCount1' = CycleCount1
  <2>1. {i \in DOMAIN chain' : chain'[i].event.source = "rework"} = {i \in DOMAIN chain : chain[i].event.source = "rework"}
    BY <1>1, <1>3, <1>4
  <2> QED
    BY <2>1 DEF CycleCount1
<1>6. Descent'
  <2> SUFFICES ASSUME NEW i \in 1..Newest PROVE RowDescends(chain', story.ticket, i)
    BY <1>3 DEF Descent
  <2>1. RowDescends(chain, story.ticket, i)
    BY <1>1 DEF PromptInv, Descent
  <2>2. chain'[i].target # NoOne => chain'[i].agent = Brigadir /\ story.ticket
    BY <1>3, <2>1 DEF RowDescends
  <2>3. \A j \in 1..(i - 1) : chain'[j].agent = chain[j].agent
    BY <1>1, <1>4
  <2>4. i \in Nat /\ chain'[i].event = chain[i].event /\ chain'[i].agent = chain[i].agent
    BY <1>1, <1>4
  <2> QED
    BY <2>1, <2>2, <2>3, <2>4, DescentOfRow
<1>7. Answers'
  BY <1>1, <1>3, <1>4 DEF PromptInv, Answers, Source
<1> QED
  BY <1>1, <1>3, <1>4, <1>5, <1>6, <1>7

\* A run that is taken is told of nothing yet, and nothing is stale.
LEMMA HandoffKeeps ==
  ASSUME PromptInv, buildHandoffSection
  PROVE  PromptInv'
<1>1. /\ Newest > 0 /\ chain[Newest].status = "queued" /\ chain' = [chain EXCEPT ![Newest].status = "active"]
      /\ told' = [Told0 EXCEPT !.pc = After("start"), !.run = Newest, !.section = After("start") # "prepare"]
      /\ verdict' = NoVerdict
      /\ UNCHANGED <<story, team, reworkMax, verification, completions, vouched>>
  BY DEF buildHandoffSection, userVars, proofVars
<1>2. PromptTypes /\ Newest \in Nat /\ DOMAIN chain = 1..Newest /\ chain[Newest] \in ChainRows /\ Source(Newest) \in Sources
  BY <1>1, ChainTyped DEF PromptInv
<1> DEFINE row == [chain[Newest] EXCEPT !.status = "active"]
<1>3. /\ row \in ChainRows /\ row.status = "active" /\ row.agent = chain[Newest].agent
      /\ row.event = chain[Newest].event /\ row.target = chain[Newest].target
  BY <1>2 DEF ChainRows, Statuses
<1>4. chain' = [chain EXCEPT ![Newest] = row]
  BY <1>1
<1>5. row.target # NoOne => row.agent = Brigadir /\ story.ticket
  <2>1. RowDescends(chain, story.ticket, Newest)
    BY <1>1, <1>2 DEF PromptInv, Descent
  <2> QED
    BY <1>3, <2>1 DEF RowDescends
<1> HIDE DEF row
<1>6. /\ chain' \in Seq(ChainRows) /\ Newest' = Newest /\ DOMAIN chain' = 1..Newest
      /\ chain'[Newest] = row /\ \A i \in 1..Newest : i # Newest => chain'[i] = chain[i]
      /\ Descent' /\ Answers'
      /\ \A i \in 1..Newest : /\ chain'[i].agent = chain[i].agent /\ chain'[i].event = chain[i].event
  <2>1. row.status # "superseded" /\ chain[Newest].status # "superseded"
    BY <1>1, <1>3
  <2> QED
    BY <1>1, <1>3, <1>4, <1>5, <2>1, NewestChanges
<1>7. "start" \in DOMAIN Reads(Source(Newest))
  <2> DEFINE src == Source(Newest)
  <2>1. CASE src = "triage"
    BY <2>1 DEF Reads
  <2>2. CASE src = "answer-triage"
    BY <2>2 DEF Reads
  <2>3. CASE src = "rework"
    BY <2>3 DEF Reads
  <2>4. CASE src = "human-resume"
    BY <2>4 DEF Reads
  <2>5. CASE src = "workspace-setup"
    BY <2>5 DEF Reads
  <2>6. CASE src = "poll"
    BY <2>6 DEF Reads
  <2> QED
    BY <1>2, <2>1, <2>2, <2>3, <2>4, <2>5, <2>6 DEF Sources
<1>8. /\ After("start") \in Reading \cup {"prepare"}
      /\ After("start") = "prepare" \/ After("start") \in DOMAIN Reads(Source(Newest)) \ {"start"}
      /\ Source(Newest) \in {"workspace-setup", "answer-triage", "human-resume"} =>
              After("start") \notin {"roster", "count", "max", "prepare"}
      /\ Source(Newest) \in Orders => After("start") \notin {"count", "max", "prepare"}
  BY <1>2, <1>7, OrderOfReads
<1>9. /\ told' \in Prompts0 /\ told'.run = Newest /\ told'.pc = After("start") /\ told'.sections = {}
      /\ told'.section = (After("start") # "prepare") /\ told'.failure = NoRun
  BY <1>1, <1>2, <1>8 DEF Told0, Prompts0, Working, NoRun
<1>10. PromptTypes'
  BY <1>1, <1>2, <1>6, <1>9 DEF PromptTypes, Prompts0
<1>11. Source(Newest)' = Source(Newest) /\ Source(told.run)' = Source(Newest)
  BY <1>1, <1>2, <1>6, <1>9 DEF Source
<1>12. told'.pc \in Working => told'.pc = "prepare"
  BY <1>8, <1>9 DEF Reading, Working
<1>13. PromptOfNewest'
  <2>1. told'.pc # "none" /\ told'.run # 0
    BY <1>1, <1>8, <1>9 DEF Reading
  <2>2. \/ told'.pc \in Working
        \/ told'.pc \in DOMAIN Reads(Source(Newest)) \ {"start"}
    BY <1>8, <1>9 DEF Working
  <2>3. told'.run \in 0..Newest /\ told'.run \notin 1..(Newest - 1)
    BY <1>2, <1>9
  <2>4. chain'[Newest].status = "active"
    BY <1>3, <1>6
  <2> QED
    BY <1>1, <1>6, <1>9, <1>11, <2>1, <2>2, <2>3, <2>4 DEF PromptOfNewest
<1>14. EventTold'
  BY <1>8, <1>9, <1>11, <1>12 DEF EventTold
<1>15. SettingsTold'
  BY <1>8, <1>9, <1>11, <1>12 DEF SettingsTold
<1>16. Receipts'
  <2>1. \A v \in vouched : v.run \in 1..Newest /\ v.run # Newest
    BY <1>1 DEF PromptInv, Receipts
  <2> QED
    BY <1>1, <1>6, <2>1 DEF PromptInv, Receipts, Backed
<1>17. PromiseKept' /\ GatesVerified'
  BY <1>1, <1>9 DEF PromiseKept, GatesVerified, NoVerdict
<1> QED
  BY <1>6, <1>10, <1>13, <1>14, <1>15, <1>16, <1>17 DEF PromptInv

\* A completion keeps its receipt for later, and what it ran is really verified.
LEMMA CompleteKeeps ==
  ASSUME PromptInv, complete
  PROVE  PromptInv'
<1>1. /\ Newest > 0 /\ chain[Newest].status = "active" /\ told.pc = "done"
      /\ UNCHANGED <<story, team, reworkMax, told, startShas, heads, verification, verdict, stale>>
  BY DEF complete, Building, userVars, gitVars
<1>2. PICK outcome \in Outcomes, passed \in SUBSET story.gates, observed \in observeHeads,
           target \in (IF Orch(Newest) THEN DOMAIN team ELSE {NoOne}) :
        /\ chain' = [chain EXCEPT ![Newest].status = StatusOf(outcome),
                                  ![Newest].target = IF outcome = "routed" THEN target ELSE NoOne]
        /\ LET w == [run |-> Newest, repos |-> observed, gates |-> passed]
           IN  completions' = IF story.ticket /\ buildVerificationReceipt(w) # {} THEN completions \cup {w} ELSE completions
        /\ vouched' = vouched \cup {v \in {[run |-> Newest, heads |-> heads, gates |-> passed]} : passed # {}}
  BY DEF complete
<1>3. /\ PromptTypes /\ Newest \in Nat /\ DOMAIN chain = 1..Newest /\ chain[Newest] \in ChainRows
      /\ chain[Newest].agent \in Keys /\ chain \in Seq(ChainRows)
  BY <1>1, ChainTyped DEF PromptInv, PromptTypes
<1> DEFINE status == StatusOf(outcome)
           next   == IF outcome = "routed" THEN target ELSE NoOne
           row    == [chain[Newest] EXCEPT !.status = status, !.target = next]
<1>4. status \in {"failed", "parked", "succeeded"}
  BY DEF StatusOf
<1>5. /\ next # NoOne => chain[Newest].agent = Brigadir /\ story.ticket
      /\ next \in Keys \cup {NoOne}
  <2>1. next # NoOne => outcome = "routed"
    OBVIOUS
  <2>2. outcome = "routed" => chain[Newest].agent = Brigadir /\ story.ticket
    BY DEF Outcomes
  <2>3. target \in Keys \cup {NoOne}
    BY <1>3 DEF PromptTypes
  <2> QED
    BY <2>1, <2>2, <2>3
<1>6. chain' = [chain EXCEPT ![Newest] = row]
  BY <1>2, <1>3
<1> HIDE DEF status, next
<1>7. /\ row \in ChainRows /\ row.agent = chain[Newest].agent /\ row.event = chain[Newest].event
      /\ row.status = status /\ row.target = next
  BY <1>3, <1>4, <1>5 DEF ChainRows, Statuses
<1> HIDE DEF row
<1>8. /\ chain' \in Seq(ChainRows) /\ Newest' = Newest /\ DOMAIN chain' = 1..Newest
      /\ chain'[Newest] = row /\ \A i \in 1..Newest : i # Newest => chain'[i] = chain[i]
      /\ \A i \in 1..Newest : /\ chain'[i].agent = chain[i].agent /\ chain'[i].event = chain[i].event
      /\ CycleCount1' = CycleCount1 /\ Descent' /\ Answers'
  <2>1. row.status # "superseded" /\ chain[Newest].status # "superseded"
    BY <1>1, <1>4, <1>7
  <2>2. row.target # NoOne => row.agent = Brigadir /\ story.ticket
    BY <1>5, <1>7
  <2> QED
    BY <1>1, <1>6, <1>7, <2>1, <2>2, NewestChanges
<1>9. told.run = Newest
  BY <1>1 DEF PromptInv, PromptOfNewest
<1>10. PromptTypes'
  BY <1>1, <1>3, <1>8 DEF PromptTypes, Prompts0
<1>11. chain'[Newest].status \in {"failed", "parked", "succeeded"}
  BY <1>4, <1>7, <1>8
<1>12. PromptOfNewest'
  <2>1. /\ told.run \in 0..Newest
        /\ told.pc = "none" <=> told.run = 0
        /\ "verified" \in told.sections => told.gates # {}
    BY DEF PromptInv, PromptOfNewest
  <2>2. told.run \notin 1..(Newest - 1)
    BY <1>3, <1>9
  <2> QED
    BY <1>1, <1>8, <1>9, <1>11, <2>1, <2>2 DEF PromptOfNewest, Working
<1>13. EventTold'
  <2>1. told.failure # NoRun => told.failure \in 1..Newest /\ chain[told.failure].agent # Brigadir
    BY <1>3 DEF PromptInv, EventTold
  <2>2. Newest \in 1..Newest
    BY <1>1, <1>3
  <2> QED
    BY <1>1, <1>8, <1>9, <2>1, <2>2 DEF PromptInv, EventTold, Source
<1>14. SettingsTold'
  <2>1. chain'[Newest].event.source = Source(Newest)
    <3>1. Newest \in 1..Newest
      BY <1>1, <1>3
    <3> QED
      BY <1>8, <3>1 DEF Source
  <2>2. told'.run = Newest /\ roster' = roster
    BY <1>1, <1>9 DEF roster
  <2>3. Source(told.run)' = Source(Newest)
    BY <2>1, <2>2 DEF Source
  <2> QED
    BY <1>1, <1>8, <1>9, <2>2, <2>3 DEF PromptInv, SettingsTold, Available, grantLine
<1>15. Receipts'
  <2>0. PICK w, real : /\ w = [run |-> Newest, repos |-> observed, gates |-> passed]
                       /\ real = [run |-> Newest, heads |-> heads, gates |-> passed]
    OBVIOUS
  <2>1. vouched \subseteq vouched' /\ (passed # {} => real \in vouched') /\ vouched' \subseteq vouched \cup {real}
    BY <1>2, <2>0
  <2>2. completions' \subseteq completions \cup {w}
    BY <1>2, <2>0
  <2>3. /\ w = [run |-> w.run, repos |-> w.repos, gates |-> w.gates] /\ w.gates = passed
        /\ w.run = Newest /\ w.repos = observed /\ real.run = Newest /\ real.heads = heads /\ real.gates = passed
    BY <2>0
  <2>4. \A r \in DOMAIN observed : r \in DOMAIN heads /\ observed[r] = heads[r]
    BY DEF observeHeads
  <2>5. \A c : Backed(c) => Backed(c)'
    BY <2>1 DEF Backed
  <2>6. w.gates # {} => Backed(w)'
    BY <2>1, <2>3, <2>4 DEF Backed
  <2>7. \A v \in vouched' : v.run \in 1..Newest
    BY <1>1, <1>3, <2>1, <2>3 DEF PromptInv, Receipts
  <2>8. \A c \in (completions \cup {verification})' : c \in completions \cup {verification} \/ c = w
    BY <1>1, <2>2
  <2>9. \A c \in completions \cup {verification} : c.gates # {} => Backed(c)
    BY DEF PromptInv, Receipts
  <2>10. \A c \in (completions \cup {verification})' : c.gates # {} => Backed(c)'
    BY <2>5, <2>6, <2>8, <2>9
  <2>11. \A c \in (completions \cup {verification})' : c = [run |-> c.run, repos |-> c.repos, gates |-> c.gates]
    BY <2>3, <2>8 DEF PromptInv, Receipts
  <2>12. \A c \in completions' : c.gates \subseteq story.gates
    BY <2>2, <2>3 DEF PromptInv, Receipts
  <2>13. chain'[Newest].status \notin {"queued", "active"}
    BY <1>11
  <2> QED
    BY <1>1, <1>8, <2>7, <2>10, <2>11, <2>12, <2>13 DEF Receipts
<1>16. PromiseKept'
  BY <1>1 DEF PromptInv, PromiseKept
<1>17. GatesVerified'
  <2>1. vouched \subseteq vouched'
    BY <1>2
  <2> QED
    BY <1>1, <2>1 DEF PromptInv, GatesVerified
<1> QED
  BY <1>8, <1>10, <1>12, <1>13, <1>14, <1>15, <1>16, <1>17 DEF PromptInv

\* Pushes move branches and heads; what was told, written and verified is of commits.
LEMMA PromptRests ==
  ASSUME PromptInv,
         UNCHANGED <<story, team, reworkMax, chain, told, startShas, verification, completions, vouched, verdict, stale>>
  PROVE  PromptInv'
<1>1. PromptTypes' /\ Descent' /\ Answers' /\ EventTold' /\ Receipts'
  BY DEF PromptInv, PromptTypes, Prompts0, Descent, Answers, EventTold, Receipts, Backed, Newest, Source
<1>2. PromptOfNewest'
  BY DEF PromptInv, PromptOfNewest, Newest, Source
<1>3. SettingsTold'
  BY DEF PromptInv, SettingsTold, roster, CycleCount1, Newest, Source
<1>4. PromiseKept' /\ GatesVerified'
  BY DEF PromptInv, PromiseKept, GatesVerified
<1> QED
  BY <1>1, <1>2, <1>3, <1>4 DEF PromptInv

\* A receipt that is written holds no more than its completion.
LEMMA WriteKeeps ==
  ASSUME PromptInv, NEW w \in completions, writeVerificationReceiptBestEffort(w)
  PROVE  PromptInv'
<1>1. /\ completions' = completions \ {w}
      /\ UNCHANGED <<story, team, reworkMax, chain, told, startShas, vouched, verdict, stale>>
  BY DEF writeVerificationReceiptBestEffort, userVars, gitVars
<1>2. CASE UNCHANGED verification
  <2>1. Receipts'
    BY <1>1, <1>2 DEF PromptInv, Receipts, Backed, Newest
  <2> QED
    BY <1>1, <1>2, <2>1 DEF PromptInv, PromptTypes, Prompts0, Descent, Answers, PromptOfNewest, EventTold, SettingsTold,
                     PromiseKept, GatesVerified, roster, CycleCount1, Newest, Source
<1>3. ASSUME NEW receipt \in buildVerificationReceipt(w), verification' = receipt
      PROVE  PromptInv'
  <2>1. PICK g \in SUBSET w.gates : receipt = [w EXCEPT !.gates = g]
    BY <1>3 DEF buildVerificationReceipt
  <2>2. w = [run |-> w.run, repos |-> w.repos, gates |-> w.gates] /\ w.gates \subseteq story.gates
        /\ (w.gates # {} => Backed(w))
    BY DEF PromptInv, Receipts
  <2>3. receipt = [run |-> w.run, repos |-> w.repos, gates |-> g]
    BY <2>1, <2>2
  <2>4. receipt.run = w.run /\ receipt.repos = w.repos /\ receipt.gates = g
    BY <2>3
  <2>5. receipt.gates # {} => Backed(receipt)
    BY <2>2, <2>4 DEF Backed
  <2>6. PromptTypes'
    BY <1>1, <1>3, <2>2, <2>4 DEF PromptInv, PromptTypes, Prompts0
  <2>7. Receipts'
    <3>1. \A c \in (completions \cup {verification})' : c \in completions \/ c = receipt
      BY <1>1, <1>3
    <3>2. \A c \in (completions \cup {verification})' : c = [run |-> c.run, repos |-> c.repos, gates |-> c.gates]
      BY <2>3, <2>4, <3>1 DEF PromptInv, Receipts
    <3>3. \A c \in (completions \cup {verification})' : c.gates # {} => Backed(c)'
      BY <1>1, <2>5, <3>1 DEF PromptInv, Receipts, Backed
    <3>4. \A c \in completions' : c.gates \subseteq story'.gates
      BY <1>1 DEF PromptInv, Receipts
    <3>5. \A v \in vouched' : v.run \in 1..Newest' /\ (v.run = Newest' => chain'[Newest'].status \notin {"queued", "active"})
      BY <1>1 DEF PromptInv, Receipts, Newest
    <3> QED
      BY <3>2, <3>3, <3>4, <3>5 DEF Receipts
  <2>8. Descent' /\ Answers' /\ EventTold'
    BY <1>1 DEF PromptInv, Descent, Answers, EventTold, Newest, Source
  <2>9. PromptOfNewest'
    BY <1>1 DEF PromptInv, PromptOfNewest, Newest, Source
  <2>10. SettingsTold'
    BY <1>1 DEF PromptInv, SettingsTold, roster, CycleCount1, Newest, Source
  <2>11. PromiseKept' /\ GatesVerified'
    BY <1>1 DEF PromptInv, PromiseKept, GatesVerified
  <2> QED
    BY <2>6, <2>7, <2>8, <2>9, <2>10, <2>11 DEF PromptInv
<1> QED
  BY <1>2, <1>3 DEF writeVerificationReceiptBestEffort

\* What is still being read belongs to the newest run, which has decided nothing yet.
LEMMA ReadingIsUndecided ==
  ASSUME PromptInv, told.pc \in Reading
  PROVE  verdict.kind = "none"
<1>1. Newest \in Nat /\ DOMAIN chain = 1..Newest
  BY ChainTyped DEF PromptInv
<1>2. told.pc # "done" /\ told.pc # "none"
  BY DEF Reading
<1>3. told.run > 0 /\ chain[told.run].status = "active" /\ told.run \in 0..Newest
  BY <1>1, <1>2 DEF PromptInv, PromptOfNewest
<1>4. told.run = Newest
  BY <1>1, <1>3 DEF PromptInv, PromptOfNewest
<1> QED
  BY <1>3, <1>4 DEF PromptInv, PromptOfNewest, NoVerdict

\* What the operator edits once it has been read is known to be stale.
LEMMA EditKeeps ==
  ASSUME PromptInv, team' \in [Keys -> BOOLEAN], reworkMax' \in Nat, NEW what \in {"team", "max"}, NEW readAt \in SUBSET Reading,
         Edit(what, readAt),
         \/ what = "team" /\ readAt = {"failing", "question", "roster"} /\ UNCHANGED reworkMax
         \/ what = "max" /\ readAt = {"failing", "question", "roster", "count", "max"} /\ UNCHANGED team
  PROVE  PromptInv'
<1>1. /\ stale' = IF told.pc \in readAt THEN stale ELSE stale \cup {what}
      /\ UNCHANGED <<story, chain, told, startShas, verification, completions, vouched, verdict>>
  BY DEF Edit, gitVars, proofVars
<1>2. PromptTypes'
  BY <1>1 DEF PromptInv, PromptTypes, Prompts0
<1>3. Descent' /\ Answers' /\ EventTold' /\ Receipts'
  BY <1>1 DEF PromptInv, Descent, Answers, EventTold, Receipts, Backed, Newest, Source
<1>4. PromptOfNewest' /\ GatesVerified'
  BY <1>1 DEF PromptInv, PromptOfNewest, GatesVerified, Newest, Source
<1>5. PromiseKept'
  <2>1. CASE told.pc \in readAt
    BY <1>1, <2>1, ReadingIsUndecided DEF PromiseKept
  <2>2. CASE told.pc \notin readAt
    BY <1>1, <2>2 DEF PromptInv, PromiseKept
  <2> QED
    BY <2>1, <2>2
<1>6. SettingsTold'
  <2>1. CycleCount1' = CycleCount1 /\ Newest' = Newest /\ Source(told.run)' = Source(told.run)
    BY <1>1 DEF CycleCount1, Newest, Source
  <2>2. CASE what = "team"
    <3>1. UNCHANGED reworkMax /\ readAt = {"failing", "question", "roster"}
      BY <2>2
    <3>2. "team" \notin stale' => told.pc \notin {"count", "max"} \cup Working
      BY <1>1, <2>2, <3>1 DEF Working
    <3> QED
      BY <1>1, <2>1, <2>2, <3>1, <3>2 DEF PromptInv, SettingsTold, Available, grantLine
  <2>3. CASE what = "max"
    <3>1. UNCHANGED team /\ readAt = {"failing", "question", "roster", "count", "max"}
      BY <2>3
    <3>2. "max" \notin stale' => told.pc \notin Working
      BY <1>1, <2>3, <3>1 DEF Working
    <3>3. roster' = roster
      BY <3>1 DEF roster
    <3> QED
      BY <1>1, <2>1, <2>3, <3>1, <3>2, <3>3 DEF PromptInv, SettingsTold
  <2> QED
    BY <2>2, <2>3
<1> QED
  BY <1>2, <1>3, <1>4, <1>5, <1>6 DEF PromptInv

\* One step per action.
LEMMA PromptStep ==
  ASSUME PromptInv, PromptNext \/ UNCHANGED pvars
  PROVE  PromptInv'
<1>1. CASE NewWork1
  BY <1>1, NewWorkKeeps
<1>2. CASE decideTriage
  BY <1>2, TriageKeeps
<1>3. CASE resumeRun
  BY <1>3, ResumeKeeps
<1>4. CASE buildHandoffSection
  BY <1>4, HandoffKeeps
<1>5. CASE SectionFails
  BY <1>5, SectionFailsKeeps
<1>6. CASE loadFailingRun
  BY <1>6, FailingKeeps
<1>7. CASE questionAnswerLines
  BY <1>7, QuestionKeeps
<1>8. CASE buildWorkspaceSetupSection
  BY <1>8, WorkspaceKeeps
<1>9. CASE rosterLines
  BY <1>9, RosterKeeps
<1>10. CASE countCycles
  BY <1>10, CountKeeps
<1>11. CASE budgetLines
  BY <1>11, BudgetKeeps
<1>12. CASE prepare
  BY <1>12, PrepareKeeps
<1>13. CASE resolveVerificationReceipt
  BY <1>13, ReceiptKeeps
<1>14. ASSUME NEW r \in story.repos, Commit(r)
       PROVE  PromptInv'
  BY <1>14, PromptRests DEF Commit, userVars, proofVars
<1>15. ASSUME NEW r \in story.repos, OthersPush(r)
       PROVE  PromptInv'
  BY <1>15, PromptRests DEF OthersPush, userVars, proofVars
<1>16. CASE complete
  BY <1>16, CompleteKeeps
<1>17. ASSUME NEW w \in completions, writeVerificationReceiptBestEffort(w)
       PROVE  PromptInv'
  BY <1>17, WriteKeeps
<1>18. CASE processOrchestratorDecision
  BY <1>18, DecisionKeeps
<1>19. team \in [Keys -> BOOLEAN] /\ reworkMax \in Nat
  BY DEF PromptInv, PromptTypes
<1>20. CASE EditTeam
  <2>1. /\ team' \in [Keys -> BOOLEAN] /\ UNCHANGED reworkMax
        /\ Edit("team", {"failing", "question", "roster"})
    BY <1>19, <1>20 DEF EditTeam
  <2>2. {"failing", "question", "roster"} \in SUBSET Reading
    BY DEF Reading
  <2> QED
    BY <1>19, <2>1, <2>2, EditKeeps
<1>21. CASE EditMax
  <2>1. reworkMax' \in Nat /\ UNCHANGED team /\ Edit("max", {"failing", "question", "roster", "count", "max"})
    BY <1>21 DEF EditMax
  <2>2. {"failing", "question", "roster", "count", "max"} \in SUBSET Reading
    BY DEF Reading
  <2> QED
    BY <1>19, <2>1, <2>2, EditKeeps
<1>22. CASE UNCHANGED pvars
  BY <1>22, PromptRests DEF pvars
<1> QED
  BY <1>1, <1>2, <1>3, <1>4, <1>5, <1>6, <1>7, <1>8, <1>9, <1>10, <1>11, <1>12, <1>13, <1>14, <1>15, <1>16, <1>17, <1>18,
     <1>20, <1>21, <1>22 DEF PromptNext

\* Nothing has run and nothing has been told.
LEMMA PromptStart ==
  ASSUME PromptInit
  PROVE  PromptInv
<1>1. /\ story \in Stories /\ team = [k \in Keys |-> TRUE] /\ reworkMax = 1 /\ chain = <<>> /\ told = Told0
      /\ verification = NoReceipt /\ completions = {} /\ vouched = {} /\ verdict = NoVerdict
  BY DEF PromptInit, Keys
<1>2. Newest = 0 /\ DOMAIN chain = {}
  BY <1>1 DEF Newest
<1>3. chain \in Seq(ChainRows) /\ told \in Prompts0
  BY <1>1 DEF Told0, Prompts0, NoRun
<1>4. PromptTypes
  BY <1>1, <1>3 DEF PromptTypes, NoReceipt
<1>5. told.run = 0 /\ told.pc = "none" /\ told.section = FALSE /\ told.failure = NoRun /\ told.sections = {}
  BY <1>1 DEF Told0, NoRun
<1>6. Descent /\ Answers /\ EventTold /\ SettingsTold /\ GatesVerified
  BY <1>2, <1>5 DEF Descent, Answers, EventTold, SettingsTold, GatesVerified
<1>7. PromptOfNewest
  BY <1>2, <1>5 DEF PromptOfNewest
<1>8. Receipts /\ PromiseKept
  BY <1>1 DEF Receipts, PromiseKept, NoReceipt, NoVerdict
<1> QED
  BY <1>4, <1>6, <1>7, <1>8 DEF PromptInv

\* What a page's step does to the prompts is a step of theirs or nothing.
LEMMA PromptOfPages ==
  ASSUME [Next]_allvars
  PROVE  PromptNext \/ UNCHANGED pvars
BY DEF Next, Dashboard, RunCard, TicketPage, ChannelCard, Prompts, MockPool, allvars

\* What the invariant says of an answered question and of a failure.
LEMMA PromptMeans ==
  ASSUME PromptInv
  PROVE  PromptFaithful
<1>1. Newest \in Nat /\ DOMAIN chain = 1..Newest
  BY ChainTyped DEF PromptInv
<1>2. ToldOfTheFailure
  BY DEF PromptInv, EventTold, ToldOfTheFailure, Orch
<1>3. AnswerTold
  <2> SUFFICES ASSUME told.section, told.pc = "done", told.run > 1, chain[told.run - 1].status = "superseded"
               PROVE  told.question = told.run - 1 /\ told.answer = told.run - 1
    BY DEF AnswerTold
  <2>1. told.run \in 0..Newest /\ told.run - 1 \in 1..Newest /\ (told.run - 1) + 1 = told.run
    BY <1>1 DEF PromptInv, PromptOfNewest
  <2>2. /\ chain[told.run].event.question = told.run - 1 /\ chain[told.run].event.answer = told.run - 1
        /\ Source(told.run) \in {"workspace-setup", "answer-triage", "human-resume"}
    BY <1>1, <2>1 DEF PromptInv, Answers
  <2> QED
    BY <2>1, <2>2 DEF PromptInv, EventTold, Working
<1> QED
  BY <1>2, <1>3 DEF PromptInv, PromptFaithful

\* For every team, budget, set of repositories and checks, and for every number of
\* runs, edits, pushes and failed reads: the handoff promises what the pipeline
\* does, the gates that need not run again were run by another run on these very
\* commits, and the failure and the answer are the ones the run is about.
THEOREM PromptStaysFaithful == Spec => []PromptFaithful
<1>1. Init => PromptInv
  BY PromptStart DEF Init
<1>2. PromptInv /\ [Next]_allvars => PromptInv'
  BY PromptOfPages, PromptStep
<1>3. PromptInv => PromptFaithful
  BY PromptMeans
<1> QED
  BY <1>1, <1>2, <1>3, PTL DEF Spec

-----------------------------------------------------------------------------
\* The pool of mock runs: the inductive invariant.

Stages    == {"waiting", "profile", "count", "models", "start", "execute", "settle", "done"}
Waits     == {"waiting", "profile", "count", "models", "start"}
JobStates == [at : Stages, made : Nat, limit : Nat, model : Models, count : Nat, exit : {"none"} \cup ReportOutcome \cup ExitStatus]
RowStates == [status : Status, outcome : {"none"} \cup ReportOutcome, attempt : Nat]

\* The show's constants stay, whatever is cancelled and edited.
ShowTypes ==
  /\ show = [runs |-> show.runs, pool |-> show.pool, caps |-> show.caps, ceiling |-> show.ceiling,
             cancels |-> show.cancels, edits |-> show.edits]
  /\ IsFiniteSet(MockIds) /\ IsFiniteSet(DOMAIN pool)
  /\ \A r \in MockIds : Scenario(r) \in Scenarios /\ ProfileIn(r) \in DOMAIN pool /\ show.runs[r].attempts \in Nat \ {0}
  /\ pool \in [DOMAIN pool -> ProfileRows]
  /\ \A m \in DOMAIN show.caps : show.caps[m] \in Nat \ {0}
  /\ show.ceiling \in Nat \ {0}

MockTypes ==
  /\ ShowTypes
  /\ jobOf \in [MockIds -> JobStates] /\ rowOf \in [MockIds -> RowStates]
  /\ slots \in [now : Nat, peak : Nat] /\ slots.now <= slots.peak

\* The exits a scenario may come to.
ExitsOf(s) ==
  IF s = "rate_limited" THEN {"success", "rate_limited"} ELSE IF s = "crash" THEN {"crashed"}
  ELSE IF s = "timeout" THEN {"timeout"} ELSE {Reported[s]}

\* What a job and its row have in common at every stage: s is the scenario, n the
\* attempts there are; is the run cancelled, has it a task, has it made a team.
Fits(job, row, s, n, halted, task, made) ==
  /\ job.made < n /\ (s # "crash" => job.made = 0)
  /\ halted => row.status = "cancelled" /\ row.outcome = "none" /\ ~task /\ ~made
  /\ ~halted /\ job.at \in Waits => row.status \in {"queued", "running"} /\ row.attempt \in 1..(job.made + 1)
  /\ ~halted /\ job.at \in {"execute", "settle"} => row.status = "running" /\ row.attempt = job.made + 1
  /\ job.at = "settle" => job.exit \in ExitsOf(s)
  /\ job.at # "done" => row.outcome = "none" /\ ~task /\ ~made
  /\ job.at = "done" /\ ~halted =>
       /\ row.status = Promised[s] /\ row.attempt = IF s = "crash" THEN n ELSE 1
       /\ task <=> row.status = "awaiting_human"
       /\ made <=> row.outcome = "team"
RunFits(r) ==
  Fits(jobOf[r], rowOf[r], Scenario(r), show.runs[r].attempts, r \in stopped, <<"human_task", r>> \in wrote,
       <<"agents", r>> \in wrote)
RunsFit == \A r \in MockIds : RunFits(r)

\* A run at the gate is judged by the model its profile has, or has been moved.
MovedKnown ==
  \A r \in MockIds : jobOf[r].at \in {"count", "models"} =>
    jobOf[r].model = pool[ProfileIn(r)].model \/ <<pool[ProfileIn(r)].model, r>> \in moved

\* A slot for each job that is under way; and a run that has passed the gate and is
\* not running yet is as good as running, unless an edit has moved it.
QueueBounded == Cardinality(Queue) <= slots.peak
Occupied(m) ==
  {r \in MockIds : /\ pool[ProfileIn(r)].model = m /\ <<m, r>> \notin moved
                   /\ rowOf[r].status = "running" \/ jobOf[r].at = "start"}
CapsHold == \A m \in DOMAIN show.caps : Cardinality(Occupied(m)) <= show.caps[m] - 1 + slots.peak

MockInv == MockTypes /\ RunsFit /\ MovedKnown /\ QueueBounded /\ CapsHold

\* The sets that are counted are finite.
LEMMA CountsAreNumbers ==
  ASSUME ShowTypes
  PROVE  /\ \A S \in SUBSET MockIds : IsFiniteSet(S) /\ Cardinality(S) \in Nat
         /\ \A S \in SUBSET MockIds : \A T \in SUBSET S : Cardinality(T) <= Cardinality(S)
         /\ \A n \in Nat : Effective(pool, n) \in Nat
<1>1. \A S \in SUBSET MockIds : IsFiniteSet(S) /\ Cardinality(S) \in Nat
  BY FS_Subset, FS_CardinalityType DEF ShowTypes
<1>2. \A S \in SUBSET MockIds : \A T \in SUBSET S : Cardinality(T) <= Cardinality(S)
  BY <1>1, FS_Subset
<1>3. TypeCapacity(pool) \in Nat
  <2> DEFINE on    == {q \in DOMAIN pool : pool[q].enabled /\ pool[q].type = "mock"}
             of(p) == {p} \X (1..pool[p].max)
             slot  == {of(p) : p \in on}
  <2>1. IsFiniteSet(on)
    <3>1. on \subseteq DOMAIN pool /\ IsFiniteSet(DOMAIN pool)
      BY DEF ShowTypes
    <3> HIDE DEF on
    <3> QED
      BY <3>1, FS_Subset
  <2>2. \A p \in on : IsFiniteSet(of(p))
    <3> SUFFICES ASSUME NEW p \in on PROVE IsFiniteSet({p} \X (1..pool[p].max))
      OBVIOUS
    <3>1. pool[p].max \in Nat
      BY DEF ShowTypes, ProfileRows
    <3>2. IsFiniteSet({p})
      BY FS_Singleton
    <3>3. IsFiniteSet(1..pool[p].max)
      BY <3>1, FS_Interval
    <3> QED
      BY <3>2, <3>3, FS_Product
  <2> HIDE DEF on, of
  <2>3. IsFiniteSet(slot)
    <3> DEFINE f == [p \in on |-> of(p)]
    <3>1. f \in Surjection(on, slot)
      BY DEF Surjection
    <3> QED
      BY <2>1, <3>1, FS_Surjection
  <2>4. \A S \in slot : IsFiniteSet(S)
    BY <2>2
  <2> HIDE DEF slot
  <2>5. IsFiniteSet(UNION slot)
    BY <2>3, <2>4, FS_UNION
  <2>6. Cardinality(UNION slot) \in Nat
    BY <2>5, FS_CardinalityType
  <2> QED
    BY <2>6 DEF slot, of, on, TypeCapacity
<1>4. \A n \in Nat : Effective(pool, n) \in Nat
  BY <1>3 DEF Effective, ShowTypes
<1> QED
  BY <1>1, <1>2, <1>4

\* A run's own step leaves the others as they were.
LEMMA OneRunFits ==
  ASSUME MockTypes, RunsFit, NEW r \in MockIds, NEW job \in JobStates, NEW row \in RowStates, NEW effect,
         jobOf' = [jobOf EXCEPT ![r] = job], rowOf' = [rowOf EXCEPT ![r] = row],
         wrote' = wrote \cup {<<x, r>> : x \in effect}, UNCHANGED <<show, pool, slots, stopped>>,
         Fits(job, row, Scenario(r), show.runs[r].attempts, r \in stopped,
              <<"human_task", r>> \in wrote \/ "human_task" \in effect, <<"agents", r>> \in wrote \/ "agents" \in effect)
  PROVE  MockTypes' /\ RunsFit'
<1>1. MockTypes'
  BY DEF MockTypes, ShowTypes, MockIds, Scenario, ProfileIn
<1>2. /\ MockIds' = MockIds /\ jobOf'[r] = job /\ rowOf'[r] = row
      /\ \A q \in MockIds : q # r => jobOf'[q] = jobOf[q] /\ rowOf'[q] = rowOf[q]
  BY DEF MockTypes, MockIds
<1>3. \A q \in MockIds : q # r => \A x : <<x, q>> \in wrote' <=> <<x, q>> \in wrote
  OBVIOUS
<1>4. \A x : <<x, r>> \in wrote' <=> <<x, r>> \in wrote \/ x \in effect
  OBVIOUS
<1>5. ASSUME NEW q \in MockIds, q # r PROVE RunFits(q)'
  <2>1. RunFits(q)
    BY DEF RunsFit
  <2> QED
    BY <1>2, <1>3, <1>5, <2>1 DEF RunFits, Fits, Scenario
<1>6. RunFits(r)'
  BY <1>2, <1>4 DEF RunFits, Fits, Scenario
<1> QED
  BY <1>1, <1>2, <1>5, <1>6 DEF RunsFit

\* Fewer jobs under way, fewer runs running or about to.
LEMMA LessIsBounded ==
  ASSUME MockInv, MockTypes', show'.runs = show.runs, show'.caps = show.caps, slots'.peak >= slots.peak,
         Queue' \subseteq Queue, \A m \in DOMAIN show.caps : Occupied(m)' \subseteq Occupied(m)
  PROVE  QueueBounded' /\ CapsHold'
<1>1. MockIds' = MockIds /\ ShowTypes /\ slots.peak \in Nat /\ slots'.peak \in Nat
  BY DEF MockInv, MockTypes, MockIds
<1>2. Queue \in SUBSET MockIds /\ \A m : Occupied(m) \in SUBSET MockIds
  BY DEF Queue, Occupied
<1>3. Cardinality(Queue') <= Cardinality(Queue) /\ Cardinality(Queue') \in Nat /\ Cardinality(Queue) \in Nat
  BY <1>1, <1>2, CountsAreNumbers
<1>4. QueueBounded'
  BY <1>1, <1>3 DEF MockInv, QueueBounded
<1>5. ASSUME NEW m \in DOMAIN show.caps
      PROVE  Cardinality(Occupied(m)') <= show.caps[m] - 1 + slots'.peak
  <2>1. /\ Cardinality(Occupied(m)') <= Cardinality(Occupied(m)) /\ Cardinality(Occupied(m)') \in Nat
        /\ Cardinality(Occupied(m)) \in Nat
    BY <1>1, <1>2, CountsAreNumbers
  <2>2. Cardinality(Occupied(m)) <= show.caps[m] - 1 + slots.peak /\ show.caps[m] \in Nat
    BY DEF MockInv, MockTypes, ShowTypes, CapsHold
  <2> QED
    BY <1>1, <2>1, <2>2
<1>6. CapsHold'
  BY <1>5 DEF CapsHold
<1> QED
  BY <1>4, <1>6

\* A step of a job under way that takes no slot and passes no gate.
LEMMA OneJobMoves ==
  ASSUME MockInv, NEW r \in MockIds, NEW job \in JobStates, NEW row \in RowStates, NEW effect,
         jobOf' = [jobOf EXCEPT ![r] = job], rowOf' = [rowOf EXCEPT ![r] = row],
         wrote' = wrote \cup {<<x, r>> : x \in effect}, UNCHANGED <<show, pool, slots, stopped, moved>>,
         jobOf[r].at \notin {"waiting", "done"} \/ job.at \in {"waiting", "done"},
         row.status = "running" \/ job.at = "start" => rowOf[r].status = "running" \/ jobOf[r].at = "start",
         job.at \in {"count", "models"} =>
           job.model = pool[ProfileIn(r)].model \/ (job.model = jobOf[r].model /\ jobOf[r].at \in {"count", "models"}),
         Fits(job, row, Scenario(r), show.runs[r].attempts, r \in stopped,
              <<"human_task", r>> \in wrote \/ "human_task" \in effect, <<"agents", r>> \in wrote \/ "agents" \in effect)
  PROVE  MockInv'
<1>1. MockTypes' /\ RunsFit'
  BY OneRunFits DEF MockInv
<1>2. /\ MockIds' = MockIds /\ jobOf'[r] = job /\ rowOf'[r] = row
      /\ \A q \in MockIds : q # r => jobOf'[q] = jobOf[q] /\ rowOf'[q] = rowOf[q]
  BY DEF MockInv, MockTypes, MockIds
<1>3. Queue' \subseteq Queue
  BY <1>2 DEF Queue
<1>4. \A m \in DOMAIN show.caps : Occupied(m)' \subseteq Occupied(m)
  BY <1>2 DEF Occupied, ProfileIn
<1>5. slots'.peak >= slots.peak
  BY DEF MockInv, MockTypes
<1>6. MovedKnown'
  BY <1>2 DEF MockInv, MovedKnown, ProfileIn
<1> QED
  BY <1>1, <1>3, <1>4, <1>5, <1>6, LessIsBounded DEF MockInv

\* The same where only the job moves.
LEMMA OneJobGoes ==
  ASSUME MockInv, NEW r \in MockIds, NEW job \in JobStates,
         JobGoes(r, job), UNCHANGED <<show, pool, slots, rowOf, wrote, stopped, moved>>,
         jobOf[r].at \notin {"waiting", "done"} \/ job.at \in {"waiting", "done"},
         job.at = "start" => jobOf[r].at = "start",
         job.at \in {"count", "models"} =>
           job.model = pool[ProfileIn(r)].model \/ (job.model = jobOf[r].model /\ jobOf[r].at \in {"count", "models"}),
         Fits(job, rowOf[r], Scenario(r), show.runs[r].attempts, r \in stopped,
              <<"human_task", r>> \in wrote, <<"agents", r>> \in wrote)
  PROVE  MockInv'
<1>1. rowOf[r] \in RowStates /\ rowOf' = [rowOf EXCEPT ![r] = rowOf[r]]
  BY DEF MockInv, MockTypes
<1>2. jobOf' = [jobOf EXCEPT ![r] = job]
  BY DEF JobGoes
<1>3. wrote' = wrote \cup {<<x, r>> : x \in {}}
  OBVIOUS
<1>4. Fits(job, rowOf[r], Scenario(r), show.runs[r].attempts, r \in stopped,
           <<"human_task", r>> \in wrote \/ "human_task" \in {}, <<"agents", r>> \in wrote \/ "agents" \in {})
  BY DEF Fits
<1> QED
  BY <1>1, <1>2, <1>3, <1>4, OneJobMoves

\* A job that still waits, at another stage of its waiting.
LEMMA WaitingFits ==
  ASSUME MockInv, NEW r \in MockIds, NEW job, jobOf[r].at \in Waits, job.at \in Waits, job.made = jobOf[r].made
  PROVE  Fits(job, rowOf[r], Scenario(r), show.runs[r].attempts, r \in stopped,
              <<"human_task", r>> \in wrote, <<"agents", r>> \in wrote)
<1>1. RunFits(r)
  BY DEF MockInv, RunsFit
<1> QED
  BY <1>1 DEF RunFits, Fits, Waits

\* A job that is taken has a slot.
LEMMA TakeJobKeeps ==
  ASSUME MockInv, NEW r \in MockIds, TakeJob(r)
  PROVE  MockInv'
<1> DEFINE job == [jobOf[r] EXCEPT !.at = "profile"]
<1>1. /\ jobOf[r].at = "waiting" /\ Cardinality(Queue) < slots.now /\ jobOf' = [jobOf EXCEPT ![r] = job]
      /\ UNCHANGED <<show, pool, slots, rowOf, wrote, stopped, moved>>
  BY DEF TakeJob, JobAt, GoesTo, JobGoes
<1>2. jobOf[r] \in JobStates /\ rowOf[r] \in RowStates /\ rowOf' = [rowOf EXCEPT ![r] = rowOf[r]] /\ ShowTypes
  BY <1>1 DEF MockInv, MockTypes
<1>3. job \in JobStates /\ job.at = "profile" /\ job.made = jobOf[r].made
  BY <1>2 DEF JobStates, Stages
<1> HIDE DEF job
<1>4. Fits(job, rowOf[r], Scenario(r), show.runs[r].attempts, r \in stopped,
           <<"human_task", r>> \in wrote, <<"agents", r>> \in wrote)
  BY <1>1, <1>3, WaitingFits DEF Waits
<1>5. Fits(job, rowOf[r], Scenario(r), show.runs[r].attempts, r \in stopped,
           <<"human_task", r>> \in wrote \/ "human_task" \in {}, <<"agents", r>> \in wrote \/ "agents" \in {})
  BY <1>4 DEF Fits
<1>6. wrote' = wrote \cup {<<x, r>> : x \in {}}
  BY <1>1
<1>7. MockTypes' /\ RunsFit'
  BY <1>1, <1>2, <1>3, <1>5, <1>6, OneRunFits DEF MockInv
<1>8. /\ MockIds' = MockIds /\ jobOf'[r] = job
      /\ \A q \in MockIds : q # r => jobOf'[q] = jobOf[q]
  BY <1>1 DEF MockInv, MockTypes, MockIds
<1>9. QueueBounded'
  <2>1. Queue' = Queue \cup {r} /\ r \notin Queue
    BY <1>1, <1>3, <1>8 DEF Queue
  <2>2. IsFiniteSet(Queue) /\ Cardinality(Queue) \in Nat
    BY <1>2, CountsAreNumbers DEF Queue
  <2>3. Cardinality(Queue') = Cardinality(Queue) + 1
    BY <2>1, <2>2, FS_AddElement
  <2>4. slots.now \in Nat /\ slots.peak \in Nat /\ slots.now <= slots.peak
    BY DEF MockInv, MockTypes
  <2> QED
    BY <1>1, <2>2, <2>3, <2>4 DEF QueueBounded
<1>11. MovedKnown'
  BY <1>1, <1>3, <1>8 DEF MockInv, MovedKnown, ProfileIn
<1>10. CapsHold'
  <2>1. \A m : Occupied(m)' = Occupied(m)
    BY <1>1, <1>3, <1>8 DEF Occupied, ProfileIn
  <2> QED
    BY <1>1, <2>1 DEF MockInv, CapsHold
<1> QED
  BY <1>7, <1>9, <1>10, <1>11 DEF MockInv

\* Back to waiting, with what has been written.
LEMMA RateLimitKeeps ==
  ASSUME MockInv, NEW r \in MockIds, RateLimit(r), jobOf[r].at \in Waits \cup {"settle"},
         UNCHANGED <<show, pool, slots, rowOf, wrote, stopped, moved>>
  PROVE  MockInv'
<1> DEFINE job == [Fresh EXCEPT !.made = jobOf[r].made]
<1>1. JobGoes(r, job)
  BY DEF RateLimit
<1>2. jobOf[r] \in JobStates
  BY DEF MockInv, MockTypes
<1>3. job \in JobStates /\ job.at = "waiting" /\ job.made = jobOf[r].made /\ jobOf[r].made \in Nat
  BY <1>2, ShowsAssumption DEF Fresh, JobStates, Stages
<1> HIDE DEF job
<1>4. Fits(job, rowOf[r], Scenario(r), show.runs[r].attempts, r \in stopped,
           <<"human_task", r>> \in wrote, <<"agents", r>> \in wrote)
  <2>1. RunFits(r)
    BY DEF MockInv, RunsFit
  <2>2. CASE jobOf[r].at \in Waits
    BY <1>3, <2>1, <2>2, WaitingFits DEF Waits
  <2>3. CASE jobOf[r].at = "settle"
    BY <1>3, <2>1, <2>3 DEF RunFits, Fits, Waits
  <2> QED
    BY <2>2, <2>3
<1> QED
  BY <1>1, <1>3, <1>4, OneJobGoes

\* A run passes the gate of its model when fewer run than the cap: with those that
\* passed together with it, it takes the cap over by no more than the slots.
LEMMA GatePasses ==
  ASSUME MockInv, NEW r \in MockIds, jobOf[r].at \in {"count", "models"}, GoesTo(r, "start"),
         ModelCapped(r) => ModelRunning(r) < show.caps[jobOf[r].model],
         moved' = moved \ {<<jobOf[r].model, r>>}, UNCHANGED <<show, pool, slots, rowOf, wrote, stopped>>
  PROVE  MockInv'
<1> DEFINE job == [jobOf[r] EXCEPT !.at = "start"]
<1>1. jobOf' = [jobOf EXCEPT ![r] = job]
  BY DEF GoesTo, JobGoes
<1>2. jobOf[r] \in JobStates /\ rowOf[r] \in RowStates /\ rowOf' = [rowOf EXCEPT ![r] = rowOf[r]] /\ ShowTypes
  BY DEF MockInv, MockTypes
<1>3. job \in JobStates /\ job.at = "start" /\ job.made = jobOf[r].made
  BY <1>2 DEF JobStates, Stages
<1> HIDE DEF job
<1>4. Fits(job, rowOf[r], Scenario(r), show.runs[r].attempts, r \in stopped,
           <<"human_task", r>> \in wrote, <<"agents", r>> \in wrote)
  BY <1>3, WaitingFits DEF Waits
<1>5. Fits(job, rowOf[r], Scenario(r), show.runs[r].attempts, r \in stopped,
           <<"human_task", r>> \in wrote \/ "human_task" \in {}, <<"agents", r>> \in wrote \/ "agents" \in {})
  BY <1>4 DEF Fits
<1>6. wrote' = wrote \cup {<<x, r>> : x \in {}}
  OBVIOUS
<1>7. MockTypes' /\ RunsFit'
  BY <1>1, <1>2, <1>3, <1>5, <1>6, OneRunFits DEF MockInv
<1>8. /\ MockIds' = MockIds /\ jobOf'[r] = job
      /\ \A q \in MockIds : q # r => jobOf'[q] = jobOf[q]
  BY <1>1 DEF MockInv, MockTypes, MockIds
<1>9. Queue' = Queue
  BY <1>3, <1>8 DEF Queue
<1>10. slots.peak \in Nat /\ Cardinality(Queue) <= slots.peak
  BY DEF MockInv, MockTypes, QueueBounded
<1>11. ASSUME NEW m \in DOMAIN show.caps
       PROVE  Cardinality(Occupied(m)') <= show.caps[m] - 1 + slots.peak
  <2>1. CASE jobOf[r].model # m
    <3>1. pool[ProfileIn(r)].model = m => <<m, r>> \in moved /\ <<m, r>> \in moved'
      BY <2>1 DEF MockInv, MovedKnown
    <3>2. \A q \in MockIds : q # r => (<<m, q>> \in moved' <=> <<m, q>> \in moved)
      OBVIOUS
    <3>3. Occupied(m)' = Occupied(m)
      BY <1>8, <3>1, <3>2 DEF Occupied, ProfileIn
    <3> QED
      BY <3>3 DEF MockInv, CapsHold
  <2>2. CASE jobOf[r].model = m
    <3> DEFINE R == RunningIn(ProfilesOf(m))
    <3>1. Cardinality(R) < show.caps[m]
      BY <2>2 DEF ModelCapped, ModelRunning
    <3>2. Occupied(m)' \subseteq R \cup Queue
      BY <1>2, <1>3, <1>8 DEF Occupied, Queue, RunningIn, ProfilesOf, ProfileIn, ShowTypes
    <3>3. R \in SUBSET MockIds /\ Queue \in SUBSET MockIds /\ R \cup Queue \in SUBSET MockIds
          /\ R \cap Queue \in SUBSET MockIds
      BY DEF RunningIn, Queue
    <3> HIDE DEF R
    <3>4. /\ IsFiniteSet(R) /\ IsFiniteSet(Queue) /\ Cardinality(R) \in Nat /\ Cardinality(Queue) \in Nat
          /\ Cardinality(R \cup Queue) \in Nat /\ Cardinality(R \cap Queue) \in Nat
          /\ Cardinality(Occupied(m)') <= Cardinality(R \cup Queue) /\ Cardinality(Occupied(m)') \in Nat
      <4>1. Occupied(m)' \in SUBSET MockIds
        BY <3>2, <3>3
      <4> QED
        BY <1>2, <3>2, <3>3, <4>1, CountsAreNumbers
    <3>5. Cardinality(R \cup Queue) = Cardinality(R) + Cardinality(Queue) - Cardinality(R \cap Queue)
      BY <3>4, FS_Union
    <3>6. show.caps[m] \in Nat
      BY <1>2 DEF ShowTypes
    <3> QED
      BY <1>10, <3>1, <3>4, <3>5, <3>6
  <2> QED
    BY <2>1, <2>2
<1>12. QueueBounded' /\ CapsHold'
  BY <1>9, <1>10, <1>11 DEF QueueBounded, CapsHold
<1>13. MovedKnown'
  <2>1. \A q \in MockIds : q # r => \A m : <<m, q>> \in moved' <=> <<m, q>> \in moved
    OBVIOUS
  <2> QED
    BY <1>3, <1>8, <2>1 DEF MockInv, MovedKnown, ProfileIn
<1> QED
  BY <1>7, <1>12, <1>13 DEF MockInv

\* The gate reads the profile: an enabled one is held to its limit.
LEMMA GateProfileKeeps ==
  ASSUME MockInv, NEW r \in MockIds, GateReadsProfile(r)
  PROVE  MockInv'
<1> DEFINE p == pool[ProfileIn(r)]
           job == [jobOf[r] EXCEPT !.at = "count", !.limit = p.max, !.model = p.model]
<1>1. jobOf[r].at = "profile" /\ UNCHANGED <<show, pool, slots, rowOf, wrote, stopped, moved>>
  BY DEF GateReadsProfile, JobAt
<1>2. CASE p.enabled
  <2>1. jobOf[r] \in JobStates /\ p.max \in Nat /\ p.model \in Models
    BY DEF MockInv, MockTypes, ShowTypes, ProfileRows
  <2>2. job \in JobStates /\ job.at = "count" /\ job.made = jobOf[r].made /\ job.model = p.model
    BY <2>1 DEF JobStates, Stages
  <2>3. JobGoes(r, job)
    BY <1>2 DEF GateReadsProfile
  <2> HIDE DEF job
  <2>4. Fits(job, rowOf[r], Scenario(r), show.runs[r].attempts, r \in stopped,
             <<"human_task", r>> \in wrote, <<"agents", r>> \in wrote)
    BY <1>1, <2>2, WaitingFits DEF Waits
  <2> QED
    BY <1>1, <2>2, <2>3, <2>4, OneJobGoes
<1>3. CASE ~p.enabled
  <2>1. RateLimit(r)
    BY <1>3 DEF GateReadsProfile
  <2> QED
    BY <1>1, <2>1, RateLimitKeeps DEF Waits
<1> QED
  BY <1>2, <1>3

\* It counts the profile's runs, and those of a model with a cap after them.
LEMMA GateCountKeeps ==
  ASSUME MockInv, NEW r \in MockIds, GateCountsProfile(r)
  PROVE  MockInv'
<1> DEFINE job == [jobOf[r] EXCEPT !.at = "models", !.count = ProfileRunning(r)]
<1>1. jobOf[r].at = "count" /\ UNCHANGED <<show, pool, slots, rowOf, wrote, stopped>>
  BY DEF GateCountsProfile, JobAt
<1>2. CASE ModelCapped(r)
  <2>1. ProfileRunning(r) \in Nat
    BY CountsAreNumbers DEF MockInv, MockTypes, ProfileRunning, RunningIn
  <2>2. job \in JobStates /\ job.at = "models" /\ job.made = jobOf[r].made /\ job.model = jobOf[r].model
    <3>1. jobOf[r] \in JobStates
      BY DEF MockInv, MockTypes
    <3> QED
      BY <2>1, <3>1 DEF JobStates, Stages
  <2>3. JobGoes(r, job) /\ UNCHANGED moved
    BY <1>2 DEF GateCountsProfile
  <2> HIDE DEF job
  <2>4. Fits(job, rowOf[r], Scenario(r), show.runs[r].attempts, r \in stopped,
             <<"human_task", r>> \in wrote, <<"agents", r>> \in wrote)
    BY <1>1, <2>2, WaitingFits DEF Waits
  <2> QED
    BY <1>1, <2>2, <2>3, <2>4, OneJobGoes
<1>3. CASE ~ModelCapped(r)
  <2>1. \/ GoesTo(r, "start") /\ moved' = moved \ {<<jobOf[r].model, r>>}
        \/ RateLimit(r) /\ UNCHANGED moved
    BY <1>3 DEF GateCountsProfile, decideGate
  <2>2. CASE GoesTo(r, "start") /\ moved' = moved \ {<<jobOf[r].model, r>>}
    BY <1>1, <1>3, <2>2, GatePasses
  <2>3. CASE RateLimit(r) /\ UNCHANGED moved
    BY <1>1, <2>3, RateLimitKeeps DEF Waits
  <2> QED
    BY <2>1, <2>2, <2>3
<1> QED
  BY <1>2, <1>3

\* The model's runs are counted and judged in one step.
LEMMA GateModelKeeps ==
  ASSUME MockInv, NEW r \in MockIds, GateCountsModel(r)
  PROVE  MockInv'
<1>1. jobOf[r].at = "models" /\ UNCHANGED <<show, pool, slots, rowOf, wrote, stopped>>
  BY DEF GateCountsModel, JobAt
<1>2. CASE /\ GoesTo(r, "start") /\ (ModelCapped(r) => ModelRunning(r) < show.caps[jobOf[r].model])
           /\ moved' = moved \ {<<jobOf[r].model, r>>}
  BY <1>1, <1>2, GatePasses
<1>3. CASE RateLimit(r) /\ UNCHANGED moved
  BY <1>1, <1>3, RateLimitKeeps DEF Waits
<1> QED
  BY <1>2, <1>3 DEF GateCountsModel, decideGate

\* A run cancelled while it waited is dropped, any other runs.
LEMMA MarkKeeps ==
  ASSUME MockInv, NEW r \in MockIds, markRunning(r)
  PROVE  MockInv'
<1> DEFINE st  == rowOf[r].status
           n   == jobOf[r].made + 1
           job == [jobOf[r] EXCEPT !.at = IF Startable(st) THEN "execute" ELSE "done"]
           row == [rowOf[r] EXCEPT !.status = MarkRunning(st),
                                   !.attempt = IF Startable(st) /\ n > rowOf[r].attempt THEN n ELSE rowOf[r].attempt]
<1>1. /\ jobOf[r].at = "start" /\ jobOf' = [jobOf EXCEPT ![r] = job]
      /\ UNCHANGED <<show, pool, slots, wrote, stopped, moved>>
  BY DEF markRunning, JobAt, GoesTo, JobGoes
<1>2. jobOf[r] \in JobStates /\ rowOf[r] \in RowStates /\ rowOf \in [MockIds -> RowStates]
  BY DEF MockInv, MockTypes
<1>3. rowOf' = [rowOf EXCEPT ![r] = row]
  BY <1>2 DEF markRunning
<1>4. /\ job \in JobStates /\ job.at \in {"execute", "done"} /\ (job.at = "execute" <=> Startable(st))
      /\ job.made = jobOf[r].made /\ job.made \in Nat
  BY <1>2 DEF JobStates, Stages
<1>5. /\ row \in RowStates /\ row.outcome = rowOf[r].outcome /\ row.status = MarkRunning(st)
      /\ row.attempt = IF Startable(st) /\ n > rowOf[r].attempt THEN n ELSE rowOf[r].attempt
  <2>1. MarkRunning(st) \in Status /\ n \in Nat /\ rowOf[r].attempt \in Nat
    BY <1>2 DEF RowStates, JobStates, MarkRunning, Flip, Status, Active
  <2> QED
    BY <1>2, <2>1 DEF RowStates
<1> HIDE DEF job, row
<1>6. RunFits(r) /\ st \in Status /\ rowOf[r].attempt \in Nat
  BY <1>2 DEF MockInv, RunsFit, RowStates
<1>7. Fits(job, row, Scenario(r), show.runs[r].attempts, r \in stopped,
           <<"human_task", r>> \in wrote \/ "human_task" \in {}, <<"agents", r>> \in wrote \/ "agents" \in {})
  <2>1. CASE r \in stopped
    <3>1. st = "cancelled" /\ row.status = "cancelled" /\ job.at = "done"
      BY <1>4, <1>5, <1>6, <2>1 DEF RunFits, Fits, MarkRunning, Flip, Startable
    <3> QED
      BY <1>1, <1>4, <1>5, <1>6, <2>1, <3>1 DEF RunFits, Fits
  <2>2. CASE r \notin stopped
    <3>1. st \in {"queued", "running"} /\ rowOf[r].attempt \in 1..n
      BY <1>1, <1>6, <2>2 DEF RunFits, Fits, Waits
    <3>2. Startable(st) /\ row.status = "running" /\ row.attempt = n /\ job.at = "execute"
      BY <1>4, <1>5, <1>6, <3>1 DEF Startable, MarkRunning, Flip
    <3> QED
      BY <1>1, <1>4, <1>5, <1>6, <2>2, <3>2 DEF RunFits, Fits, Waits
  <2> QED
    BY <2>1, <2>2
<1>8. wrote' = wrote \cup {<<x, r>> : x \in {}}
  BY <1>1
<1>9. jobOf[r].at \notin {"waiting", "done"}
  BY <1>1
<1> QED
  BY <1>1, <1>3, <1>4, <1>5, <1>7, <1>8, <1>9, OneJobMoves

\* What the trigger event asks for comes of it.
LEMMA ExecuteKeeps ==
  ASSUME MockInv, NEW r \in MockIds, MockExecute(r)
  PROVE  MockInv'
<1> DEFINE job == [jobOf[r] EXCEPT !.at = "settle", !.exit = ExitOf(r)]
           effect == IF ExitOf(r) = "rate_limited" THEN {"api_retry"} ELSE {}
<1>1. /\ jobOf[r].at = "execute" /\ jobOf' = [jobOf EXCEPT ![r] = job]
      /\ UNCHANGED <<show, pool, slots, rowOf, stopped, moved>>
  BY DEF MockExecute, JobAt, JobGoes
<1>2. jobOf[r] \in JobStates /\ rowOf[r] \in RowStates /\ rowOf' = [rowOf EXCEPT ![r] = rowOf[r]] /\ Scenario(r) \in Scenarios
  BY <1>1 DEF MockInv, MockTypes, ShowTypes
<1>3. ExitOf(r) \in ExitsOf(Scenario(r)) /\ ExitsOf(Scenario(r)) \subseteq ReportOutcome \cup ExitStatus
  <2>1. CASE Scenario(r) \in {"rate_limited", "crash", "timeout"}
    BY <2>1 DEF ExitOf, ExitsOf, rateLimited, ReportOutcome, ExitStatus
  <2>2. CASE Scenario(r) \in Scenarios \ {"rate_limited", "crash", "timeout"}
    <3>1. ExitOf(r) = Reported[Scenario(r)] /\ ExitsOf(Scenario(r)) = {Reported[Scenario(r)]}
      BY <2>2 DEF ExitOf, ExitsOf
    <3>2. Reported[Scenario(r)] \in ReportOutcome
      BY <2>2 DEF Reported, Scenarios, ReportOutcome
    <3> QED
      BY <3>1, <3>2
  <2> QED
    BY <1>2, <2>1, <2>2 DEF Scenarios
<1>4. /\ job \in JobStates /\ job.at = "settle" /\ job.made = jobOf[r].made /\ job.exit = ExitOf(r)
  <2>1. ExitOf(r) \in ReportOutcome \cup ExitStatus
    BY <1>3
  <2> HIDE DEF ExitOf
  <2> QED
    BY <1>2, <2>1 DEF JobStates, Stages
<1>5. wrote' = wrote \cup {<<x, r>> : x \in effect}
  BY DEF MockExecute
<1>6. "human_task" \notin effect /\ "agents" \notin effect
  OBVIOUS
<1> HIDE DEF job, effect
<1>7. RunFits(r)
  BY DEF MockInv, RunsFit
<1>8. Fits(job, rowOf[r], Scenario(r), show.runs[r].attempts, r \in stopped,
           <<"human_task", r>> \in wrote \/ "human_task" \in effect, <<"agents", r>> \in wrote \/ "agents" \in effect)
  BY <1>1, <1>3, <1>4, <1>6, <1>7 DEF RunFits, Fits, Waits
<1> QED
  BY <1>1, <1>2, <1>4, <1>5, <1>8, OneJobMoves

\* The row with the end it has come to, unless it had come to one before.
EndRow(old, row, st, o) ==
  /\ row \in RowStates /\ row.attempt = old.attempt
  /\ row.status = (IF old.status \in Active THEN st ELSE old.status)
  /\ row.outcome = (IF old.status \in Active THEN o ELSE old.outcome)

\* The end of a run is written once, or not at all when a cancel was before it.
LEMMA EndKeeps ==
  ASSUME MockInv, NEW r \in MockIds, jobOf[r].at = "settle", GoesTo(r, "done"),
         NEW st \in Status \ {"running"}, NEW o \in {"none"} \cup ReportOutcome, NEW done,
         NEW row, EndRow(rowOf[r], row, st, o), rowOf' = [rowOf EXCEPT ![r] = row],
         wrote' = wrote \cup {<<x, r>> : x \in done},
         UNCHANGED <<show, pool, slots, stopped, moved>>,
         st = Promised[Scenario(r)], Scenario(r) = "crash" => jobOf[r].made + 1 = show.runs[r].attempts,
         rowOf[r].status \notin Active => done = {},
         rowOf[r].status \in Active => (st = "awaiting_human" <=> "human_task" \in done) /\ (o = "team" <=> "agents" \in done)
  PROVE  MockInv'
<1> DEFINE job == [jobOf[r] EXCEPT !.at = "done"]
<1>1. jobOf' = [jobOf EXCEPT ![r] = job]
  BY DEF GoesTo, JobGoes
<1>2. jobOf[r] \in JobStates /\ rowOf[r] \in RowStates /\ show.runs[r].attempts \in Nat
  BY DEF MockInv, MockTypes, ShowTypes
<1>3. job \in JobStates /\ job.at = "done" /\ job.made = jobOf[r].made /\ jobOf[r].made \in Nat
  BY <1>2 DEF JobStates, Stages
<1>4. /\ row \in RowStates /\ row.attempt = rowOf[r].attempt
      /\ row.status = (IF rowOf[r].status \in Active THEN st ELSE rowOf[r].status)
      /\ row.outcome = (IF rowOf[r].status \in Active THEN o ELSE rowOf[r].outcome)
  BY DEF EndRow
<1>6. row.status # "running" \/ row.status = rowOf[r].status
  BY <1>4
<1> HIDE DEF job
<1>7. RunFits(r)
  BY DEF MockInv, RunsFit
<1>8. Fits(job, row, Scenario(r), show.runs[r].attempts, r \in stopped,
           <<"human_task", r>> \in wrote \/ "human_task" \in done, <<"agents", r>> \in wrote \/ "agents" \in done)
  <2>1. CASE r \in stopped
    <3>1. rowOf[r].status \notin Active /\ done = {}
      BY <1>7, <2>1 DEF RunFits, Fits, Active
    <3> QED
      BY <1>3, <1>4, <1>7, <2>1, <3>1 DEF RunFits, Fits
  <2>2. CASE r \notin stopped
    <3>1. rowOf[r].status = "running" /\ rowOf[r].status \in Active /\ rowOf[r].attempt = jobOf[r].made + 1
          /\ jobOf[r].made < show.runs[r].attempts
          /\ (Scenario(r) # "crash" => jobOf[r].made = 0)
          /\ <<"human_task", r>> \notin wrote /\ <<"agents", r>> \notin wrote
      BY <1>7, <2>2 DEF RunFits, Fits, Active
    <3>2. row.status = st /\ row.outcome = o
      BY <1>4, <3>1 DEF Active
    <3>3. rowOf[r].attempt = IF Scenario(r) = "crash" THEN show.runs[r].attempts ELSE 1
      BY <3>1
    <3> QED
      BY <1>3, <1>4, <2>2, <3>1, <3>2, <3>3 DEF Fits, Waits
  <2> QED
    BY <2>1, <2>2
<1>9. jobOf[r].at \notin {"waiting", "done"}
  OBVIOUS
<1>10. row.status = "running" \/ job.at = "start" => rowOf[r].status = "running" \/ jobOf[r].at = "start"
  BY <1>3, <1>6
<1> QED
  BY <1>1, <1>3, <1>4, <1>8, <1>9, <1>10, OneJobMoves

\* The scenarios by the way they come to an end.
LEMMA ExitTells ==
  ASSUME NEW s \in Scenarios, NEW x \in ExitsOf(s)
  PROVE  /\ x = "team" => s \in {"team", "team_invalid"}
         /\ x \in ReportOutcome \ {"team"} => ReportTerminalStatus(x) = Promised[s] /\ s # "crash"
         /\ x = "needs_human" <=> s = "needs_human"
         /\ x \in ExitStatus => x \in {"rate_limited", "crashed", "timeout"}
         /\ x = "crashed" => s = "crash"
         /\ x = "timeout" => s = "timeout"
<1>1. CASE s = "rate_limited"
  BY <1>1 DEF ExitsOf, ReportOutcome, ExitStatus, ReportTerminalStatus, Promised
<1>2. CASE s \in {"crash", "timeout"}
  BY <1>2 DEF ExitsOf, ReportOutcome, ExitStatus
<1>3. CASE s \in Scenarios \ {"rate_limited", "crash", "timeout"}
  <2>1. x = Reported[s]
    BY <1>3 DEF ExitsOf
  <2> QED
    BY <1>3, <2>1 DEF Scenarios, Reported, ReportOutcome, ExitStatus, ReportTerminalStatus, Promised
<1> QED
  BY <1>1, <1>2, <1>3

\* What settling finds: a scenario and an exit that fits it.
LEMMA SettleFinds ==
  ASSUME MockInv, NEW r \in MockIds, JobAt(r, "settle")
  PROVE  /\ jobOf[r].at = "settle" /\ Scenario(r) \in Scenarios /\ jobOf[r].exit \in ExitsOf(Scenario(r))
         /\ jobOf[r] \in JobStates /\ rowOf[r] \in RowStates /\ rowOf \in [MockIds -> RowStates] /\ RunFits(r)
         /\ show.runs[r].attempts \in Nat
<1>1. RunFits(r) /\ jobOf[r].at = "settle"
  BY DEF MockInv, RunsFit, JobAt
<1> QED
  BY <1>1 DEF MockInv, MockTypes, ShowTypes, RunFits, Fits

\* A finalize of the status alone, as the rows are after it.
LEMMA EndWritten ==
  ASSUME NEW r \in MockIds, rowOf \in [MockIds -> RowStates], NEW st \in Status,
         rowOf[r].status \in Active => rowOf[r].outcome = "none",
         rowOf' = [rowOf EXCEPT ![r].status = FinalizeStatus(rowOf[r].status, st)]
  PROVE  \E row : EndRow(rowOf[r], row, st, "none") /\ rowOf' = [rowOf EXCEPT ![r] = row]
<1>1. PICK t \in Status : t = FinalizeStatus(rowOf[r].status, st) /\ t = IF rowOf[r].status \in Active THEN st ELSE rowOf[r].status
  BY DEF FinalizeStatus, GuardedFinalize, Flip, RowStates
<1>2. PICK row : row = [rowOf[r] EXCEPT !.status = t]
  OBVIOUS
<1>3. EndRow(rowOf[r], row, st, "none")
  BY <1>1, <1>2 DEF EndRow, RowStates
<1>4. rowOf' = [rowOf EXCEPT ![r] = row]
  BY <1>1, <1>2
<1> QED
  BY <1>3, <1>4

\* A report, as the rows and what the run has written are after it.
LEMMA ReportEnds ==
  ASSUME NEW r \in MockIds, rowOf \in [MockIds -> RowStates], NEW st \in Status, NEW o \in ReportOutcome, NEW effect,
         ReportWritten(r, st, o, effect)
  PROVE  /\ \E row : EndRow(rowOf[r], row, st, o) /\ rowOf' = [rowOf EXCEPT ![r] = row]
         /\ \E done : /\ wrote' = wrote \cup {<<x, r>> : x \in done}
                       /\ done = IF rowOf[r].status \in Active THEN effect ELSE {}
<1>1. PICK t \in Status : t = FinalizeStatus(rowOf[r].status, st) /\ t = IF rowOf[r].status \in Active THEN st ELSE rowOf[r].status
  BY DEF FinalizeStatus, GuardedFinalize, Flip, RowStates
<1>2. PICK u \in {"none"} \cup ReportOutcome : u = IF rowOf[r].status \in Active THEN o ELSE rowOf[r].outcome
  BY DEF RowStates
<1>3. PICK row : row = [rowOf[r] EXCEPT !.status = t, !.outcome = u]
  OBVIOUS
<1>4. EndRow(rowOf[r], row, st, o)
  BY <1>1, <1>2, <1>3 DEF EndRow, RowStates
<1>5. rowOf' = [rowOf EXCEPT ![r] = row]
  BY <1>1, <1>2, <1>3 DEF ReportWritten
<1>6. PICK done : done = IF rowOf[r].status \in Active THEN effect ELSE {}
  OBVIOUS
<1>7. wrote' = wrote \cup {<<x, r>> : x \in done}
  BY <1>6 DEF ReportWritten
<1> QED
  BY <1>4, <1>5, <1>6, <1>7

\* A team is created at the end of its run, or not at all.
LEMMA TeamKeeps ==
  ASSUME MockInv, NEW r \in MockIds, SettleTeam(r)
  PROVE  MockInv'
<1>1. JobAt(r, "settle") /\ jobOf[r].exit = "team" /\ GoesTo(r, "done") /\ UNCHANGED <<show, pool, slots, stopped, moved>>
  BY DEF SettleTeam
<1>2. /\ jobOf[r].at = "settle" /\ Scenario(r) \in {"team", "team_invalid"} /\ rowOf \in [MockIds -> RowStates] /\ RunFits(r)
  BY <1>1, SettleFinds, ExitTells
<1>3. CASE Scenario(r) = "team"
  <2>1. ReportWritten(r, "succeeded", "team", {"agents", "review"})
    BY <1>3 DEF SettleTeam
  <2>2. "succeeded" \in Status \ {"running"} /\ "team" \in ReportOutcome /\ Promised["team"] = "succeeded"
    BY DEF Status, Terminal, ReportOutcome, Promised
  <2>3. PICK row : EndRow(rowOf[r], row, "succeeded", "team") /\ rowOf' = [rowOf EXCEPT ![r] = row]
    BY <1>2, <2>1, <2>2, ReportEnds
  <2>4. PICK done : /\ wrote' = wrote \cup {<<x, r>> : x \in done}
                    /\ done = IF rowOf[r].status \in Active THEN {"agents", "review"} ELSE {}
    BY <1>2, <2>1, <2>2, ReportEnds
  <2>5. /\ rowOf[r].status \notin Active => done = {}
        /\ rowOf[r].status \in Active => "human_task" \notin done /\ "agents" \in done
    BY <2>4
  <2> QED
    BY <1>1, <1>2, <1>3, <2>2, <2>3, <2>4, <2>5, EndKeeps
<1>4. CASE Scenario(r) = "team_invalid"
  <2>1. rowOf' = [rowOf EXCEPT ![r].status = FinalizeStatus(rowOf[r].status, "failed")] /\ UNCHANGED wrote
    BY <1>4 DEF SettleTeam, RowWritten
  <2>2. rowOf[r].status \in Active => rowOf[r].outcome = "none"
    BY <1>2 DEF RunFits, Fits
  <2>3. "failed" \in Status \ {"running"} /\ "none" \in {"none"} \cup ReportOutcome /\ Promised["team_invalid"] = "failed"
    BY DEF Status, Terminal, Promised
  <2>4. PICK row : EndRow(rowOf[r], row, "failed", "none") /\ rowOf' = [rowOf EXCEPT ![r] = row]
    BY <1>2, <2>1, <2>2, <2>3, EndWritten
  <2>5. wrote' = wrote \cup {<<x, r>> : x \in {}}
    BY <2>1
  <2>6. "none" # "team" /\ "failed" # "awaiting_human" /\ "human_task" \notin {} /\ "agents" \notin {}
    OBVIOUS
  <2> QED
    BY <1>1, <1>2, <1>4, <2>3, <2>4, <2>5, <2>6, EndKeeps
<1> QED
  BY <1>2, <1>3, <1>4

\* A report ends the run as its outcome says.
LEMMA ReportKeeps ==
  ASSUME MockInv, NEW r \in MockIds, SettleReport(r)
  PROVE  MockInv'
<1> DEFINE o      == jobOf[r].exit
           st     == ReportTerminalStatus(o)
           effect == IF o = "needs_human" THEN {"human_task"} ELSE {}
<1>1. /\ JobAt(r, "settle") /\ o \in ReportOutcome \ {"team"} /\ GoesTo(r, "done")
      /\ ReportWritten(r, st, o, effect) /\ UNCHANGED <<show, pool, slots, stopped, moved>>
  BY DEF SettleReport
<1>2. /\ jobOf[r].at = "settle" /\ rowOf \in [MockIds -> RowStates] /\ Scenario(r) # "crash" /\ st = Promised[Scenario(r)]
  BY <1>1, SettleFinds, ExitTells
<1>3. st \in Status \ {"running"} /\ (st = "awaiting_human" <=> o = "needs_human")
  BY <1>1 DEF ReportTerminalStatus, Status, Active, Terminal, ReportOutcome
<1>4. (st = "awaiting_human" <=> "human_task" \in effect) /\ (o = "team" <=> "agents" \in effect) /\ o \in {"none"} \cup ReportOutcome
  BY <1>1, <1>3
<1> HIDE DEF o, st, effect
<1>5. PICK row : EndRow(rowOf[r], row, st, o) /\ rowOf' = [rowOf EXCEPT ![r] = row]
  BY <1>1, <1>2, <1>3, ReportEnds
<1>6. PICK done : wrote' = wrote \cup {<<x, r>> : x \in done} /\ done = IF rowOf[r].status \in Active THEN effect ELSE {}
  BY <1>1, <1>2, <1>3, ReportEnds
<1>7. /\ rowOf[r].status \notin Active => done = {}
      /\ rowOf[r].status \in Active => (st = "awaiting_human" <=> "human_task" \in done) /\ (o = "team" <=> "agents" \in done)
  BY <1>4, <1>6
<1> QED
  BY <1>1, <1>2, <1>3, <1>4, <1>5, <1>6, <1>7, EndKeeps

\* A crash is tried again while there are attempts, a rate limit for nothing.
LEMMA ExitKeepsRun ==
  ASSUME MockInv, NEW r \in MockIds, SettleExit(r)
  PROVE  MockInv'
<1> DEFINE action == MapExitAction(jobOf[r].exit, jobOf[r].made, show.runs[r].attempts)
<1>1. /\ JobAt(r, "settle") /\ jobOf[r].exit \in ExitStatus /\ UNCHANGED <<show, pool, slots, wrote, stopped, moved>>
      /\ \/ action = "rate_limit" /\ RateLimit(r) /\ UNCHANGED rowOf
         \/ /\ action = "retry" /\ RowWritten(r, MarkQueuedForRetry(rowOf[r].status))
            /\ JobGoes(r, [Fresh EXCEPT !.made = jobOf[r].made + 1])
         \/ /\ action \in Status /\ RowWritten(r, FinalizeStatus(rowOf[r].status, action)) /\ GoesTo(r, "done")
  BY DEF SettleExit
<1>2. /\ jobOf[r].at = "settle" /\ rowOf \in [MockIds -> RowStates] /\ RunFits(r) /\ jobOf[r] \in JobStates
      /\ show.runs[r].attempts \in Nat /\ Scenario(r) \in Scenarios
      /\ jobOf[r].exit \in {"rate_limited", "crashed", "timeout"}
      /\ jobOf[r].exit = "crashed" => Scenario(r) = "crash"
      /\ jobOf[r].exit = "timeout" => Scenario(r) = "timeout"
  BY <1>1, SettleFinds, ExitTells
<1>3. jobOf[r].made \in Nat /\ jobOf[r].made < show.runs[r].attempts
  BY <1>2 DEF JobStates, RunFits, Fits
<1>4. /\ jobOf[r].exit = "rate_limited" => action = "rate_limit"
      /\ jobOf[r].exit = "timeout" => action = "timed_out"
      /\ jobOf[r].exit = "crashed" => action = IF jobOf[r].made + 1 < show.runs[r].attempts THEN "retry" ELSE "failed"
  BY <1>2 DEF MapExitAction
<1> HIDE DEF action
<1>5. CASE action = "rate_limit" /\ RateLimit(r) /\ UNCHANGED rowOf
  BY <1>1, <1>2, <1>5, RateLimitKeeps
<1>6. CASE /\ action = "retry" /\ RowWritten(r, MarkQueuedForRetry(rowOf[r].status))
           /\ JobGoes(r, [Fresh EXCEPT !.made = jobOf[r].made + 1])
  <2>1. jobOf[r].exit = "crashed" /\ jobOf[r].made + 1 < show.runs[r].attempts /\ Scenario(r) = "crash"
    BY <1>2, <1>3, <1>4, <1>6
  <2>2. PICK n \in Nat : n = jobOf[r].made + 1
    BY <1>3
  <2>3. PICK job : job = [Fresh EXCEPT !.made = n]
    OBVIOUS
  <2>4. job \in JobStates /\ job.at = "waiting" /\ job.made = n
    BY <2>3, ShowsAssumption DEF Fresh, JobStates, Stages
  <2>5. jobOf' = [jobOf EXCEPT ![r] = job]
    BY <1>6, <2>2, <2>3 DEF JobGoes
  <2>6. PICK t \in Status : t = MarkQueuedForRetry(rowOf[r].status)
    BY <1>2 DEF MarkQueuedForRetry, Flip, RowStates, Status, Active
  <2>7. PICK row : row = [rowOf[r] EXCEPT !.status = t]
    OBVIOUS
  <2>8. row \in RowStates /\ row.status = t /\ row.outcome = rowOf[r].outcome /\ row.attempt = rowOf[r].attempt
    BY <1>2, <2>7 DEF RowStates
  <2>9. rowOf' = [rowOf EXCEPT ![r] = row]
    BY <1>6, <2>6, <2>7 DEF RowWritten
  <2>10. wrote' = wrote \cup {<<x, r>> : x \in {}}
    BY <1>1
  <2>11. Fits(job, row, Scenario(r), show.runs[r].attempts, r \in stopped,
              <<"human_task", r>> \in wrote \/ "human_task" \in {}, <<"agents", r>> \in wrote \/ "agents" \in {})
    <3>1. CASE r \in stopped
      <4>1. t = "cancelled"
        BY <1>2, <2>6, <3>1 DEF RunFits, Fits, MarkQueuedForRetry, Flip
      <4> QED
        BY <1>2, <2>1, <2>2, <2>4, <2>8, <3>1, <4>1 DEF RunFits, Fits
    <3>2. CASE r \notin stopped
      <4>1. t = "queued" /\ row.attempt = n
        BY <1>2, <2>2, <2>6, <2>8, <3>2 DEF RunFits, Fits, MarkQueuedForRetry, Flip
      <4>2. row.attempt \in 1..(n + 1)
        BY <1>3, <2>2, <4>1
      <4> QED
        BY <1>2, <2>1, <2>2, <2>4, <2>8, <3>2, <4>1, <4>2 DEF RunFits, Fits, Waits
    <3> QED
      BY <3>1, <3>2
  <2>12. row.status # "running"
    BY <2>6, <2>8 DEF MarkQueuedForRetry, Flip
  <2> QED
    BY <1>1, <2>4, <2>5, <2>8, <2>9, <2>10, <2>11, <2>12, OneJobMoves
<1>7. CASE action \in Status /\ RowWritten(r, FinalizeStatus(rowOf[r].status, action)) /\ GoesTo(r, "done")
  <2>1. /\ action \in {"timed_out", "failed"} /\ action = Promised[Scenario(r)]
        /\ Scenario(r) = "crash" => jobOf[r].made + 1 = show.runs[r].attempts
    <3>1. jobOf[r].exit # "rate_limited"
      BY <1>4, <1>7 DEF Status, Active, Terminal
    <3>2. CASE jobOf[r].exit = "timeout"
      BY <1>2, <1>4, <3>2 DEF Promised
    <3>3. CASE jobOf[r].exit = "crashed"
      <4>1. ~(jobOf[r].made + 1 < show.runs[r].attempts)
        BY <1>4, <1>7, <3>3 DEF Status, Active, Terminal
      <4>2. jobOf[r].made + 1 = show.runs[r].attempts
        BY <1>2, <1>3, <4>1
      <4> QED
        BY <1>2, <1>4, <3>3, <4>1, <4>2 DEF Promised
    <3> QED
      BY <1>2, <3>1, <3>2, <3>3
  <2>2. action \in Status \ {"running"} /\ action # "awaiting_human" /\ "none" # "team"
    BY <1>7, <2>1
  <2>3. rowOf[r].status \in Active => rowOf[r].outcome = "none"
    BY <1>2 DEF RunFits, Fits
  <2>4. PICK row : EndRow(rowOf[r], row, action, "none") /\ rowOf' = [rowOf EXCEPT ![r] = row]
    BY <1>2, <1>7, <2>3, EndWritten DEF RowWritten
  <2>5. wrote' = wrote \cup {<<x, r>> : x \in {}}
    BY <1>1
  <2>6. "human_task" \notin {} /\ "agents" \notin {}
    OBVIOUS
  <2> QED
    BY <1>1, <1>2, <1>7, <2>1, <2>2, <2>4, <2>5, <2>6, EndKeeps
<1> QED
  BY <1>1, <1>5, <1>6, <1>7

\* What is left to the operator is not what the invariant speaks of.
LEMMA ShowStays ==
  ASSUME ShowTypes, \/ show' = [show EXCEPT !.cancels = @ - 1]
                    \/ show' = [show EXCEPT !.edits = @ - 1]
  PROVE  /\ show'.runs = show.runs /\ show'.caps = show.caps /\ show'.ceiling = show.ceiling /\ MockIds' = MockIds
         /\ show' = [runs |-> show'.runs, pool |-> show'.pool, caps |-> show'.caps, ceiling |-> show'.ceiling,
                     cancels |-> show'.cancels, edits |-> show'.edits]
<1>1. show = [runs |-> show.runs, pool |-> show.pool, caps |-> show.caps, ceiling |-> show.ceiling,
              cancels |-> show.cancels, edits |-> show.edits]
  BY DEF ShowTypes
<1> QED
  BY <1>1 DEF MockIds

\* Runs that are still to end are cancelled and stay what they are otherwise.
LEMMA CancelsFit ==
  ASSUME MockInv, NEW gone \in SUBSET MockIds, \A r \in gone : rowOf[r].status \in {"queued", "running"},
         rowOf' = [r \in MockIds |-> IF r \in gone THEN [rowOf[r] EXCEPT !.status = "cancelled"] ELSE rowOf[r]],
         show' = [show EXCEPT !.cancels = @ - 1], stopped' = stopped \cup gone,
         UNCHANGED <<pool, slots, jobOf, wrote, moved>>
  PROVE  MockInv'
<1>1. /\ show'.runs = show.runs /\ show'.caps = show.caps /\ show'.ceiling = show.ceiling /\ MockIds' = MockIds
      /\ show' = [runs |-> show'.runs, pool |-> show'.pool, caps |-> show'.caps, ceiling |-> show'.ceiling,
                  cancels |-> show'.cancels, edits |-> show'.edits]
  BY ShowStays DEF MockInv, MockTypes
<1>2. ShowTypes'
  BY <1>1 DEF MockInv, MockTypes, ShowTypes, MockIds, Scenario, ProfileIn
<1>3. \A r \in MockIds : rowOf[r] \in RowStates
  BY DEF MockInv, MockTypes
<1>4. \A r \in MockIds : /\ r \in gone => /\ rowOf'[r] \in RowStates /\ rowOf'[r].status = "cancelled"
                                          /\ rowOf'[r].outcome = rowOf[r].outcome
                         /\ r \notin gone => rowOf'[r] = rowOf[r]
  BY <1>3 DEF RowStates, Status, Terminal
<1>5. rowOf' \in [MockIds -> RowStates]
  BY <1>3, <1>4
<1>6. MockTypes'
  BY <1>1, <1>2, <1>5 DEF MockInv, MockTypes
<1>7. ASSUME NEW r \in MockIds
      PROVE  RunFits(r)'
  <2>1. RunFits(r) /\ Scenario(r) \in Scenarios
    BY DEF MockInv, MockTypes, ShowTypes, RunsFit
  <2>2. /\ Scenario(r)' = Scenario(r) /\ show'.runs[r].attempts = show.runs[r].attempts
    BY <1>1 DEF Scenario
  <2>3. CASE r \in gone
    <3>1. r \notin stopped
      BY <2>1, <2>3 DEF RunFits, Fits
    <3>2. Promised[Scenario(r)] \notin {"queued", "running"}
      BY <2>1 DEF Promised, Scenarios
    <3>3. jobOf[r].at # "done"
      BY <2>1, <2>3, <3>1, <3>2 DEF RunFits, Fits
    <3> QED
      BY <1>4, <2>1, <2>2, <2>3, <3>3 DEF RunFits, Fits
  <2>4. CASE r \notin gone
    BY <1>4, <2>1, <2>2, <2>4 DEF RunFits, Fits
  <2> QED
    BY <2>3, <2>4
<1>8. RunsFit'
  BY <1>1, <1>7 DEF RunsFit
<1>9. Queue' \subseteq Queue
  BY <1>1 DEF Queue
<1>10. \A m \in DOMAIN show.caps : Occupied(m)' \subseteq Occupied(m)
  BY <1>1, <1>4 DEF Occupied, ProfileIn
<1>11. slots'.peak >= slots.peak
  BY DEF MockInv, MockTypes
<1>12. MovedKnown'
  BY <1>1 DEF MockInv, MovedKnown, ProfileIn
<1> QED
  BY <1>1, <1>6, <1>8, <1>9, <1>10, <1>11, <1>12, LessIsBounded DEF MockInv

\* A running run is cancelled by itself.
LEMMA CancelOneKeeps ==
  ASSUME MockInv, NEW r \in MockIds, CancelOne(r)
  PROVE  MockInv'
<1>1. /\ rowOf[r].status = "running" /\ show' = [show EXCEPT !.cancels = @ - 1] /\ stopped' = stopped \cup {r}
      /\ rowOf' = [rowOf EXCEPT ![r].status = "cancelled"] /\ UNCHANGED <<pool, slots, jobOf, wrote, moved>>
  BY DEF CancelOne, RowWritten, CancelRun, Flip
<1>2. rowOf' = [q \in MockIds |-> IF q \in {r} THEN [rowOf[q] EXCEPT !.status = "cancelled"] ELSE rowOf[q]]
  BY <1>1 DEF MockInv, MockTypes
<1>3. {r} \in SUBSET MockIds /\ \A q \in {r} : rowOf[q].status \in {"queued", "running"}
  BY <1>1
<1> QED
  BY <1>1, <1>2, <1>3, CancelsFit

\* Or with every other that has not ended.
LEMMA CancelEveryKeeps ==
  ASSUME MockInv, CancelEvery
  PROVE  MockInv'
<1> DEFINE gone == {r \in MockIds : CancelAllRun(rowOf[r].status) # rowOf[r].status}
<1>1. /\ show' = [show EXCEPT !.cancels = @ - 1] /\ stopped' = stopped \cup gone
      /\ rowOf' = [r \in MockIds |-> [rowOf[r] EXCEPT !.status = CancelAllRun(@)]]
      /\ UNCHANGED <<pool, slots, jobOf, wrote, moved>>
  BY DEF CancelEvery
<1>2. \A r \in MockIds : rowOf[r] \in RowStates
  BY DEF MockInv, MockTypes
<1>3. \A r \in MockIds : /\ r \in gone => /\ rowOf[r].status \in {"queued", "running"}
                                          /\ CancelAllRun(rowOf[r].status) = "cancelled"
                         /\ r \notin gone => CancelAllRun(rowOf[r].status) = rowOf[r].status
  BY DEF CancelAllRun, Flip
<1>4. \A r \in MockIds : r \notin gone => [rowOf[r] EXCEPT !.status = CancelAllRun(rowOf[r].status)] = rowOf[r]
  BY <1>2, <1>3 DEF RowStates
<1>5. \A r \in MockIds : [rowOf[r] EXCEPT !.status = CancelAllRun(rowOf[r].status)] =
                           IF r \in gone THEN [rowOf[r] EXCEPT !.status = "cancelled"] ELSE rowOf[r]
  BY <1>3, <1>4
<1>6. gone \in SUBSET MockIds
  OBVIOUS
<1>7. PICK all : all = gone
  OBVIOUS
<1> HIDE DEF gone
<1>8. rowOf' = [r \in MockIds |-> IF r \in all THEN [rowOf[r] EXCEPT !.status = "cancelled"] ELSE rowOf[r]]
  BY <1>1, <1>5, <1>7
<1> QED
  BY <1>1, <1>3, <1>6, <1>7, <1>8, CancelsFit

\* A step that takes no job and no row along.
LEMMA RowsRest ==
  ASSUME MockInv, ShowTypes', show'.runs = show.runs, show'.caps = show.caps, moved \subseteq moved',
         \A r \in MockIds : rowOf[r].status = "running" \/ jobOf[r].at \in {"count", "models", "start"} =>
           \/ pool'[ProfileIn(r)].model = pool[ProfileIn(r)].model
           \/ <<pool'[ProfileIn(r)].model, r>> \in moved',
         slots' \in [now : Nat, peak : Nat], slots'.now <= slots'.peak, slots'.peak >= slots.peak,
         UNCHANGED <<rowOf, jobOf, wrote, stopped>>
  PROVE  MockInv'
<1>1. MockIds' = MockIds /\ \A r \in MockIds : Scenario(r)' = Scenario(r) /\ ProfileIn(r)' = ProfileIn(r)
  BY DEF MockIds, Scenario, ProfileIn
<1>2. MockTypes'
  BY <1>1 DEF MockInv, MockTypes
<1>3. RunsFit'
  BY <1>1 DEF MockInv, RunsFit, RunFits
<1>4. Queue' \subseteq Queue
  BY <1>1 DEF Queue
<1>5. \A m \in DOMAIN show.caps : Occupied(m)' \subseteq Occupied(m)
  <2> SUFFICES ASSUME NEW m \in DOMAIN show.caps, NEW r \in Occupied(m)' PROVE r \in Occupied(m)
    OBVIOUS
  <2>1. /\ r \in MockIds /\ pool'[ProfileIn(r)].model = m /\ <<m, r>> \notin moved' /\ <<m, r>> \notin moved
        /\ rowOf[r].status = "running" \/ jobOf[r].at = "start"
    BY <1>1 DEF Occupied
  <2>2. pool[ProfileIn(r)].model = m
    BY <2>1
  <2> QED
    BY <2>1, <2>2 DEF Occupied
<1>6. MovedKnown'
  <2> SUFFICES ASSUME NEW r \in MockIds, jobOf[r].at \in {"count", "models"}
               PROVE  jobOf[r].model = pool'[ProfileIn(r)].model \/ <<pool'[ProfileIn(r)].model, r>> \in moved'
    BY <1>1 DEF MovedKnown
  <2>1. jobOf[r].model = pool[ProfileIn(r)].model \/ <<pool[ProfileIn(r)].model, r>> \in moved
    BY DEF MockInv, MovedKnown
  <2> QED
    BY <2>1
<1> QED
  BY <1>2, <1>3, <1>4, <1>5, <1>6, LessIsBounded DEF MockInv

\* A profile is a profile after every edit.
LEMMA EditsTyped ==
  ASSUME ShowTypes, NEW p \in DOMAIN pool
  PROVE  /\ Switched(p) \in ProfileRows
         /\ \A n \in 1..2, m \in Models : Replaced(p, n, m) \in ProfileRows
<1>1. pool[p] \in ProfileRows
  BY DEF ShowTypes
<1>2. Switched(p) \in ProfileRows
  BY <1>1 DEF Switched, ProfileRows
<1>3. ASSUME NEW n \in 1..2, NEW m \in Models PROVE Replaced(p, n, m) \in ProfileRows
  <2>1. n \in Nat
    OBVIOUS
  <2> QED
    BY <1>1, <2>1 DEF Replaced, ProfileRows
<1> QED
  BY <1>2, <1>3

\* An edit of a profile may bring its runs to a model without the gate: the history
\* says which.
LEMMA EditProfileKeeps ==
  ASSUME MockInv, NEW p \in DOMAIN pool, NEW profile \in ProfileRows, EditProfile(p, profile)
  PROVE  MockInv'
<1>1. /\ show' = [show EXCEPT !.edits = @ - 1] /\ pool' = [pool EXCEPT ![p] = profile]
      /\ moved' = IF profile.model = pool[p].model THEN moved ELSE moved \cup ({profile.model} \X Judged(p))
      /\ UNCHANGED <<slots, rowOf, jobOf, wrote, stopped>>
  BY DEF EditProfile
<1>2. /\ show'.runs = show.runs /\ show'.caps = show.caps /\ show'.ceiling = show.ceiling /\ MockIds' = MockIds
      /\ show' = [runs |-> show'.runs, pool |-> show'.pool, caps |-> show'.caps, ceiling |-> show'.ceiling,
                  cancels |-> show'.cancels, edits |-> show'.edits]
  BY <1>1, ShowStays DEF MockInv, MockTypes
<1>3. pool \in [DOMAIN pool -> ProfileRows]
  BY DEF MockInv, MockTypes, ShowTypes
<1>4. /\ DOMAIN pool' = DOMAIN pool /\ pool' \in [DOMAIN pool -> ProfileRows]
      /\ pool'[p] = profile /\ \A q \in DOMAIN pool : q # p => pool'[q] = pool[q]
  BY <1>1, <1>3
<1>5. ShowTypes'
  BY <1>2, <1>4 DEF MockInv, MockTypes, ShowTypes, MockIds, Scenario, ProfileIn
<1>6. ASSUME NEW r \in MockIds, rowOf[r].status = "running" \/ jobOf[r].at \in {"count", "models", "start"}
      PROVE  \/ pool'[ProfileIn(r)].model = pool[ProfileIn(r)].model
             \/ <<pool'[ProfileIn(r)].model, r>> \in moved'
  <2>1. ProfileIn(r) \in DOMAIN pool
    BY DEF MockInv, MockTypes, ShowTypes
  <2>2. CASE ProfileIn(r) = p /\ profile.model # pool[p].model
    <3>1. r \in Judged(p)
      BY <1>6, <2>2 DEF Judged
    <3> QED
      BY <1>1, <1>4, <2>2, <3>1
  <2> QED
    BY <1>4, <2>1, <2>2
<1>7. moved \subseteq moved'
  BY <1>1
<1>8. slots \in [now : Nat, peak : Nat] /\ slots.now <= slots.peak /\ slots.peak >= slots.peak
  BY DEF MockInv, MockTypes
<1> QED
  BY <1>1, <1>2, <1>5, <1>6, <1>7, <1>8, RowsRest

\* The slots follow the profiles; the most they have been is remembered.
LEMMA ConcurrencyKeeps ==
  ASSUME MockInv, applyExecutorConcurrency
  PROVE  MockInv'
<1>1. /\ UNCHANGED <<show, pool, rowOf, jobOf, wrote, stopped, moved>>
      /\ slots' = [now |-> Effective(pool, slots.now),
                   peak |-> IF Effective(pool, slots.now) > slots.peak THEN Effective(pool, slots.now) ELSE slots.peak]
  BY DEF applyExecutorConcurrency
<1>2. ShowTypes /\ slots.now \in Nat /\ slots.peak \in Nat /\ slots.now <= slots.peak
  BY DEF MockInv, MockTypes
<1>3. PICK n \in Nat : n = Effective(pool, slots.now)
  BY <1>2, CountsAreNumbers
<1>4. slots' = [now |-> n, peak |-> IF n > slots.peak THEN n ELSE slots.peak]
  BY <1>1, <1>3
<1>5. slots' \in [now : Nat, peak : Nat] /\ slots'.now <= slots'.peak /\ slots'.peak >= slots.peak
  BY <1>2, <1>4
<1>6. ShowTypes'
  BY <1>1, <1>2 DEF ShowTypes, MockIds, Scenario, ProfileIn
<1> QED
  BY <1>1, <1>5, <1>6, RowsRest

\* The rate limit and its end leave jobs and rows alone.
LEMMA MockRests ==
  ASSUME MockInv, UNCHANGED <<show, pool, slots, rowOf, jobOf, wrote, stopped, moved>>
  PROVE  MockInv'
<1>1. ShowTypes' /\ slots \in [now : Nat, peak : Nat] /\ slots.now <= slots.peak /\ slots.peak >= slots.peak
  BY DEF MockInv, MockTypes, ShowTypes, MockIds, Scenario, ProfileIn
<1> QED
  BY <1>1, RowsRest

\* One step per action.
LEMMA MockStep ==
  ASSUME MockInv, MockNext \/ UNCHANGED mvars
  PROVE  MockInv'
<1>1. ASSUME NEW r \in MockIds, ProcessStep(r)
      PROVE  MockInv'
  <2>1. CASE TakeJob(r)
    BY <2>1, TakeJobKeeps
  <2>2. CASE GateReadsProfile(r)
    BY <2>2, GateProfileKeeps
  <2>3. CASE GateCountsProfile(r)
    BY <2>3, GateCountKeeps
  <2>4. CASE GateCountsModel(r)
    BY <2>4, GateModelKeeps
  <2>5. CASE markRunning(r)
    BY <2>5, MarkKeeps
  <2>6. CASE MockExecute(r)
    BY <2>6, ExecuteKeeps
  <2>7. CASE SettleTeam(r)
    BY <2>7, TeamKeeps
  <2>8. CASE SettleReport(r)
    BY <2>8, ReportKeeps
  <2>9. CASE SettleExit(r)
    BY <2>9, ExitKeepsRun
  <2> QED
    BY <1>1, <2>1, <2>2, <2>3, <2>4, <2>5, <2>6, <2>7, <2>8, <2>9 DEF ProcessStep
<1>2. ASSUME NEW r \in MockIds, CancelOne(r)
      PROVE  MockInv'
  BY <1>2, CancelOneKeeps
<1>3. CASE CancelEvery
  BY <1>3, CancelEveryKeeps
<1>4. CASE LimitOver
  BY <1>4, MockRests DEF LimitOver
<1>5. CASE applyExecutorConcurrency
  BY <1>5, ConcurrencyKeeps
<1>6. ASSUME NEW p \in DOMAIN pool,
             EditProfile(p, Switched(p)) \/ \E n \in 1..2, m \in Models : EditProfile(p, Replaced(p, n, m))
      PROVE  MockInv'
  <2>1. ShowTypes
    BY DEF MockInv, MockTypes
  <2>2. CASE EditProfile(p, Switched(p))
    BY <2>1, <2>2, EditsTyped, EditProfileKeeps
  <2>3. ASSUME NEW n \in 1..2, NEW m \in Models, EditProfile(p, Replaced(p, n, m)) PROVE MockInv'
    BY <2>1, <2>3, EditsTyped, EditProfileKeeps
  <2> QED
    BY <1>6, <2>2, <2>3
<1>7. CASE UNCHANGED mvars
  BY <1>7, MockRests DEF mvars
<1> QED
  BY <1>1, <1>2, <1>3, <1>4, <1>5, <1>6, <1>7 DEF MockNext

\* Every run is queued, no slot is taken.
LEMMA MockStart ==
  ASSUME MockInit
  PROVE  MockInv
<1>1. /\ show \in Shows /\ pool = show.pool /\ wrote = {} /\ stopped = {} /\ moved = {}
      /\ rowOf = [r \in MockIds |-> [status |-> "queued", outcome |-> "none", attempt |-> 1]]
      /\ jobOf = [r \in MockIds |-> Fresh]
  BY DEF MockInit
<1>2. ShowTypes
  <2>1. /\ show = [runs |-> show.runs, pool |-> show.pool, caps |-> show.caps, ceiling |-> show.ceiling,
                   cancels |-> show.cancels, edits |-> show.edits]
        /\ IsFiniteSet(DOMAIN show.runs) /\ IsFiniteSet(DOMAIN show.pool)
        /\ \A r \in DOMAIN show.runs : /\ show.runs[r].scenario \in Scenarios /\ show.runs[r].profile \in DOMAIN show.pool
                                       /\ show.runs[r].attempts \in Nat \ {0}
        /\ \A m \in DOMAIN show.caps : show.caps[m] \in Nat \ {0}
        /\ show.ceiling \in Nat \ {0}
    BY <1>1, ShowsAssumption
  <2>2. pool \in [DOMAIN pool -> ProfileRows]
    BY <1>1, ShowsAssumption
  <2>5. /\ IsFiniteSet(MockIds) /\ IsFiniteSet(DOMAIN pool)
        /\ \A r \in MockIds : Scenario(r) \in Scenarios /\ ProfileIn(r) \in DOMAIN pool /\ show.runs[r].attempts \in Nat \ {0}
    BY <1>1, <2>1 DEF MockIds, Scenario, ProfileIn
  <2> QED
    BY <2>1, <2>2, <2>5 DEF ShowTypes
<1>3. PICK n \in Nat : slots = [now |-> n, peak |-> n]
  <2>1. Effective(pool, DecoratorConcurrency) \in Nat
    BY <1>2, CountsAreNumbers DEF DecoratorConcurrency
  <2> QED
    BY <1>1, <2>1 DEF MockInit
<1>4. jobOf \in [MockIds -> JobStates] /\ rowOf \in [MockIds -> RowStates]
  BY <1>1, ShowsAssumption DEF JobStates, RowStates, Fresh, Stages, Status, Active
<1>5. MockTypes
  BY <1>2, <1>3, <1>4 DEF MockTypes
<1>6. RunsFit
  <2> SUFFICES ASSUME NEW r \in MockIds PROVE RunFits(r)
    BY DEF RunsFit
  <2>1. /\ jobOf[r].at = "waiting" /\ jobOf[r].made = 0 /\ rowOf[r].status = "queued" /\ rowOf[r].outcome = "none"
        /\ rowOf[r].attempt = 1
    BY <1>1 DEF Fresh
  <2>2. show.runs[r].attempts \in Nat \ {0}
    BY <1>2 DEF ShowTypes
  <2> QED
    BY <1>1, <2>1, <2>2 DEF RunFits, Fits, Waits
<1>7. Queue = {} /\ \A m : Occupied(m) = {}
  BY <1>1 DEF Queue, Occupied, Fresh
<1>8. Cardinality({}) = 0
  BY FS_EmptySet
<1>9. QueueBounded /\ CapsHold
  <2>1. slots.peak = n
    BY <1>3
  <2>2. ASSUME NEW m \in DOMAIN show.caps
        PROVE  Cardinality(Occupied(m)) <= show.caps[m] - 1 + slots.peak
    <3>1. Occupied(m) = {}
      BY <1>7
    <3>2. show.caps[m] \in Nat \ {0}
      BY <1>2 DEF ShowTypes
    <3> QED
      BY <1>8, <2>1, <3>1, <3>2
  <2>3. Cardinality(Queue) <= slots.peak
    BY <1>7, <1>8, <2>1
  <2> QED
    BY <2>2, <2>3 DEF QueueBounded, CapsHold
<1>10. MovedKnown
  BY <1>1 DEF MovedKnown, Fresh
<1> QED
  BY <1>5, <1>6, <1>9, <1>10 DEF MockInv

\* What the invariant says of the jobs that are done and of the caps.
LEMMA MockMeans ==
  ASSUME MockInv
  PROVE  MockRunsKept
<1>1. ScenarioKept
  <2> SUFFICES ASSUME NEW r \in MockIds, jobOf[r].at = "done"
               PROVE  /\ rowOf[r].status = IF r \in stopped THEN "cancelled" ELSE Promised[Scenario(r)]
                      /\ r \notin stopped => rowOf[r].attempt = IF Scenario(r) = "crash" THEN show.runs[r].attempts ELSE 1
                      /\ <<"human_task", r>> \in wrote <=> rowOf[r].status = "awaiting_human"
                      /\ <<"agents", r>> \in wrote <=> rowOf[r].outcome = "team"
                      /\ r \in stopped => rowOf[r].outcome = "none"
    BY DEF ScenarioKept, JobAt
  <2>1. RunFits(r)
    BY DEF MockInv, RunsFit
  <2> QED
    BY <2>1 DEF RunFits, Fits
<1>2. ModelCapBounded
  <2> SUFFICES ASSUME NEW m \in DOMAIN show.caps
               PROVE  Cardinality({r \in RunningIn(ProfilesOf(m)) : <<m, r>> \notin moved}) <= show.caps[m] - 1 + slots.peak
    BY DEF ModelCapBounded
  <2> DEFINE R == {r \in RunningIn(ProfilesOf(m)) : <<m, r>> \notin moved}
  <2>1. R \subseteq Occupied(m) /\ R \in SUBSET MockIds /\ Occupied(m) \in SUBSET MockIds
    BY DEF RunningIn, ProfilesOf, Occupied
  <2> HIDE DEF R
  <2>2. Cardinality(R) <= Cardinality(Occupied(m)) /\ Cardinality(R) \in Nat /\ Cardinality(Occupied(m)) \in Nat
    BY <2>1, CountsAreNumbers DEF MockInv, MockTypes
  <2>3. /\ Cardinality(Occupied(m)) <= show.caps[m] - 1 + slots.peak
        /\ show.caps[m] \in Nat /\ slots.peak \in Nat
    BY DEF MockInv, MockTypes, ShowTypes, CapsHold
  <2>4. Cardinality(R) <= show.caps[m] - 1 + slots.peak
    BY <2>2, <2>3
  <2> QED
    BY <2>4 DEF R
<1> QED
  BY <1>1, <1>2 DEF MockRunsKept

\* What a page's step does to the pool is a step of the pool or nothing.
LEMMA MockOfPages ==
  ASSUME [Next]_allvars
  PROVE  MockNext \/ UNCHANGED mvars
BY DEF Next, Dashboard, RunCard, TicketPage, ChannelCard, Prompts, MockPool, allvars

\* For every number of runs and profiles, every caps, ceiling and attempts, and
\* whatever is cancelled and edited meanwhile: a job that is done leaves its run as
\* its scenario says, and the runs of a model take its cap over by no more than the
\* slots that passed the gate together.
THEOREM MockRunsStayKept == Spec => []MockRunsKept
<1>1. Init => MockInv
  BY MockStart DEF Init
<1>2. MockInv /\ [Next]_allvars => MockInv'
  BY MockOfPages, MockStep
<1>3. MockInv => MockRunsKept
  BY MockMeans
<1> QED
  BY <1>1, <1>2, <1>3, PTL DEF Spec

=============================================================================
