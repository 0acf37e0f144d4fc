-------------------------- MODULE TicketFlowProofs --------------------------
(***************************************************************************)
(* The poller and the release, for any set of issues, links, priorities    *)
(* and sprints: a run starts only from a clear gate, no change on the      *)
(* board is missed, and a release does not run again what has ended.       *)
(*                                                                         *)
(* None of the three is inductive.  StartedClear needs that every search   *)
(* and fetch in use is a board that has been (ClearInv).  NotMissed needs  *)
(* what the saved mark promises while the sprint set is another one, and   *)
(* what a search in progress will have seen (MissedInv): an issue the      *)
(* cache is behind on was touched after the search began, so above every   *)
(* mark the search can save.  SettledNotRerun needs that the candidates    *)
(* of a pass had no ended run, or are noted (SettledInv).                  *)
(***************************************************************************)
EXTENDS TicketFlow, WellFoundedInduction, TLAPS

-----------------------------------------------------------------------------
(* The operators.                                                          *)

\* A set of natural numbers that is not empty has a least element.
LEMMA LeastNumber ==
  ASSUME NEW S \in SUBSET Nat, S # {}
  PROVE  \E m \in S : \A n \in S : m <= n
<1>1. \E m \in S : \A n \in S : ~ (<<n, m>> \in OpToRel(<, Nat))
  BY NatLessThanWellFounded, WFMin, Zenon
<1>2. ASSUME NEW m \in S, NEW n \in S, ~ (<<n, m>> \in OpToRel(<, Nat)) PROVE m <= n
  BY <1>2 DEF OpToRel
<1> QED
  BY <1>1, <1>2

\* compareReleaseOrder has a first element in every set of candidates: the release loop always
\* finds the next one.
LEMMA FirstIn ==
  ASSUME NEW S \in SUBSET Tickets, S # {}
  PROVE  First(S) \in S
<1> USE TicketsAssumption, PriorityAssumption
<1>1. SUFFICES ASSUME NEW t \in S, \A u \in S \ {t} : Before(t, u) PROVE First(S) \in S
  <2> DEFINE R == {u \in S : Priority[u] # 0}
  <2>1. CASE R = {}
    <3>1. PICK t \in S : \A u \in S : t <= u
      BY LeastNumber
    <3> QED
      BY <1>1, <2>1, <3>1 DEF Before
  <2>2. CASE R # {}
    <3>1. PICK n \in {Priority[u] : u \in R} : \A k \in {Priority[u] : u \in R} : n <= k
      <4>1. {Priority[u] : u \in R} \in SUBSET Nat /\ {Priority[u] : u \in R} # {}
        BY <2>2
      <4> QED
        BY <4>1, LeastNumber
    <3> DEFINE Q == {u \in R : Priority[u] = n}
    <3>2. PICK t \in Q : \A u \in Q : t <= u
      <4>1. Q \in SUBSET Nat /\ Q # {}
        BY <3>1
      <4> HIDE DEF Q
      <4> QED
        BY <4>1, LeastNumber
    <3>3. t \in S /\ Priority[t] # 0 /\ \A u \in S \ {t} : Before(t, u)
      BY <3>1, <3>2 DEF Before
    <3> QED
      BY <1>1, <3>3
  <2> QED
    BY <2>1, <2>2
<1> QED
  BY <1>1 DEF First

\* The newest `updated` of a non-empty search is the `updated` of an issue found and bounds all.
LEMMA NewestIn ==
  ASSUME NEW S \in SUBSET Nat, S # {}, NEW top \in Nat, \A n \in S : n <= top
  PROVE  Max(S) \in S /\ \A n \in S : n <= Max(S)
<1> DEFINE U == {m \in Nat : \A n \in S : n <= m}
<1>1. PICK m \in U : \A k \in U : m <= k
  BY LeastNumber
<1>2. m \in S
  <2> SUFFICES ASSUME m \notin S PROVE FALSE
    OBVIOUS
  <2>1. m # 0
    <3>1. PICK n \in S : TRUE
      OBVIOUS
    <3> QED
      BY <1>1, <3>1
  <2>2. m - 1 \in U
    BY <1>1, <2>1
  <2> QED
    BY <1>1, <2>2
<1> QED
  BY <1>1, <1>2 DEF Max

-----------------------------------------------------------------------------
(* Types.                                                                  *)

PollRecord ==
  [pc : {"idle", "diff"}, todo : SUBSET Tickets,
   issues : [Tickets -> Status \cup {Unknown}], newest : 0..MaxClock, sprints : SUBSET Sprints]

\* A pass that clears a released ticket has one, and a pass that marks has something to mark.
PassRecord ==
  {r \in [pc : PassStep, todo : SUBSET Tickets,
          issues : [Tickets -> Status \cup {Unknown}], ticket : Tickets \cup {0},
          blocked : SUBSET Tickets, dead : SUBSET Tickets, scope : SUBSET Tickets,
          settled : SUBSET Tickets] :
     /\ r.pc = "clear" => r.ticket \in Tickets
     /\ r.pc = "mark" => r.todo # {}}

\* The idle records of the poller and of a pass are of their types.
LEMMA IdleTyped == PollIdle \in PollRecord /\ PassIdle \in PassRecord
BY FlowBounds DEF PollIdle, PassIdle, PollRecord, PassRecord, NoIssues, PassStep

JiraTyped ==
  /\ board \in [Tickets -> Status]
  /\ updated \in [Tickets -> 0..MaxClock] /\ clock \in 0..MaxClock
  /\ sprints \subseteq Sprints /\ switches \in 0..MaxSprints

CacheTyped ==
  /\ seen \in [Tickets -> Status \cup {Unknown}]
  /\ chained \subseteq Tickets
  /\ waiting \in [Tickets -> Waiting \cup {"none"}]

MarkTyped == hwm \in 0..MaxClock /\ known \in [written : BOOLEAN, ids : SUBSET Sprints]

RowsTyped == rows \in [Tickets -> SUBSET RunStatus]

PollTyped == poll \in PollRecord
PassTyped == pass \in [Passes -> PassRecord]
HistoryTyped == everClear \subseteq Tickets /\ missed \subseteq Tickets

Typed ==
  /\ JiraTyped /\ CacheTyped /\ MarkTyped /\ RowsTyped /\ PollTyped /\ PassTyped
  /\ HistoryTyped /\ faults \in 0..MaxFaults

\* The parts make the type invariant.
LEMMA TypedParts == Typed => TypeOK
BY DEF Typed, JiraTyped, CacheTyped, MarkTyped, RowsTyped, PollTyped, PassTyped, HistoryTyped,
       TypeOK, PollRecord, PassRecord

\* Init is of the types.
LEMMA TypeInit == Init => Typed
<1> SUFFICES ASSUME Init PROVE Typed
  OBVIOUS
<1>1. JiraTyped /\ faults \in 0..MaxFaults
  BY BoardAssumption, FlowBounds DEF Init, JiraTyped, Sprints
<1>2. CacheTyped
  BY DEF Init, CacheTyped
<1>3. MarkTyped
  <2>1. hwm \in 0..MaxClock
    BY FlowBounds DEF Init
  <2>2. known \in [written : BOOLEAN, ids : SUBSET Sprints]
    BY Zenon DEF Init
  <2> QED
    BY <2>1, <2>2 DEF MarkTyped
<1>4. RowsTyped /\ PollTyped /\ PassTyped
  BY IdleTyped DEF Init, RowsTyped, PollTyped, PassTyped
<1>5. HistoryTyped
  BY DEF Init, HistoryTyped
<1> QED
  BY <1>1, <1>2, <1>3, <1>4, <1>5 DEF Typed

\* A move on the board keeps the types of what Jira knows.
LEMMA MoveTyped ==
  ASSUME Typed, NEW t \in Tickets, NEW s \in Status, Move(t, s)
  PROVE  /\ board' \in [Tickets -> Status] /\ updated' \in [Tickets -> 0..MaxClock]
         /\ clock' \in 0..MaxClock /\ everClear' \subseteq Tickets
<1>1. board' \in [Tickets -> Status]
  BY DEF Typed, JiraTyped, Move
<1>2. updated' \in [Tickets -> 0..MaxClock] /\ clock' \in 0..MaxClock
  BY FlowBounds DEF Typed, JiraTyped, Move
<1>3. everClear' \subseteq Tickets
  BY DEF Typed, HistoryTyped, Move
<1> QED
  BY <1>1, <1>2, <1>3

\* The search finds issues of the board, and the newest mark among them.
LEMMA WindowTyped ==
  ASSUME Typed, Window # {}, NEW n, n = Max({updated[t] : t \in Window})
  PROVE  n \in {updated[t] : t \in Window} /\ n \in 0..MaxClock
         /\ \A u \in Window : updated[u] <= n
<1> DEFINE W == Window
           S == {updated[t] : t \in W}
<1>1. W \subseteq Tickets
  BY DEF Window
<1>2. W # {} /\ n = Max(S)
  OBVIOUS
<1> HIDE DEF W
<1>3. S \in SUBSET (0..MaxClock) /\ S # {} /\ \A k \in S : k <= MaxClock
  BY <1>1, <1>2, FlowBounds DEF Typed, JiraTyped
<1>4. Max(S) \in S /\ \A k \in S : k <= Max(S)
  <2>1. S \in SUBSET Nat /\ MaxClock \in Nat
    BY <1>3, FlowBounds
  <2> HIDE DEF S
  <2> QED
    BY <1>3, <2>1, NewestIn
<1>5. n \in S /\ n \in 0..MaxClock /\ \A u \in W : updated[u] <= n
  BY <1>2, <1>3, <1>4
<1> QED
  BY <1>5 DEF W

\* Status changes of the diff, and runs triggered or ended, keep the types.
LEMMA DiffTyped ==
  ASSUME Typed, NEW t \in Tickets,
         OnStatusChanged(t) \/ UNCHANGED <<waiting, rows>> \/ (TriggerRun(t) /\ UNCHANGED waiting)
  PROVE  waiting' \in [Tickets -> Waiting \cup {"none"}] /\ rows' \in [Tickets -> SUBSET RunStatus]
<1>1. TriggerRun(t) => rows' \in [Tickets -> SUBSET RunStatus]
  BY DEF Typed, RowsTyped, RunStatus, TriggerRun
<1>2. waiting \in [Tickets -> Waiting \cup {"none"}] /\ rows \in [Tickets -> SUBSET RunStatus]
  BY DEF Typed, CacheTyped, RowsTyped
<1> QED
  BY <1>1, <1>2 DEF OnStatusChanged, Waiting

\* A run that ends leaves rows of the run statuses.
LEMMA EndTyped ==
  ASSUME Typed, NEW t \in Tickets, NEW s \in RunStatus, End(t, s)
  PROVE  rows' \in [Tickets -> SUBSET RunStatus]
BY DEF Typed, RowsTyped, End

\* A pass replaced by one of its type, and a pair noted as settled, keep the types.
LEMMA PassSetTyped ==
  ASSUME Typed
  PROVE  /\ \A p \in Passes, r \in PassRecord : Set(p, r) => PassTyped'
         /\ \A p \in Passes, t \in Tickets : Settle(p, t) \in PassRecord
         /\ \A q \in PassStep \ {"clear", "mark"} : ToRelease(q) => PassTyped'
         /\ \A q \in PassStep \ {"clear", "mark"}, t \in Tickets :
              [PassIdle EXCEPT !.pc = q, !.ticket = t] \in PassRecord
<1>1. ASSUME NEW p \in Passes, NEW r \in PassRecord, Set(p, r) PROVE PassTyped'
  BY <1>1 DEF Typed, PassTyped, Set
<1>2. ASSUME NEW p \in Passes, NEW t \in Tickets PROVE Settle(p, t) \in PassRecord
  BY DEF Typed, PassTyped, Settle, PassRecord
<1>3. ASSUME NEW q \in PassStep \ {"clear", "mark"}, ToRelease(q) PROVE PassTyped'
  <2>1. [PassIdle EXCEPT !.pc = q] \in PassRecord
    BY IdleTyped DEF PassRecord
  <2> QED
    BY <1>3, <2>1 DEF Typed, PassTyped, ToRelease
<1>4. ASSUME NEW q \in PassStep \ {"clear", "mark"}, NEW t \in Tickets
      PROVE [PassIdle EXCEPT !.pc = q, !.ticket = t] \in PassRecord
  BY IdleTyped DEF PassRecord
<1> QED
  BY <1>1, <1>2, <1>3, <1>4

\* What the board, its people and the runs do keeps the types.
LEMMA BoardTyped ==
  ASSUME Typed, NEW t \in Tickets,
         SprintSwitch \/ HumanMoves(t) \/ RunStarted(t) \/ RunSucceeds(t) \/ RunFails(t)
           \/ RunCancelled(t)
  PROVE  Typed'
<1>1. CASE SprintSwitch
  <2>1. JiraTyped'
    BY <1>1, BoardAssumption, FlowBounds DEF SprintSwitch, Typed, JiraTyped, Sprints
  <2> QED
    BY <1>1, <2>1 DEF SprintSwitch, Typed, CacheTyped, MarkTyped, RowsTyped, PollTyped, PassTyped,
       HistoryTyped, tickets, state, history
<1>2. CASE HumanMoves(t) \/ RunStarted(t)
  <2>1. PICK s \in Status : Move(t, s)
    BY <1>2, BoardAssumption DEF HumanMoves, RunStarted, Status
  <2> QED
    BY <1>2, <2>1, MoveTyped DEF HumanMoves, RunStarted, Typed, JiraTyped, CacheTyped, MarkTyped,
       RowsTyped, PollTyped, PassTyped, HistoryTyped, tickets, state
<1>3. CASE RunSucceeds(t)
  <2>1. rows' \in [Tickets -> SUBSET RunStatus]
    BY <1>3, EndTyped DEF RunSucceeds, RunStatus
  <2>2. PassTyped'
    BY <1>3, PassSetTyped DEF RunSucceeds, PassTyped, PassStep
  <2>3. PICK s \in Status : Move(t, s)
    BY <1>3 DEF RunSucceeds, Status
  <2> QED
    BY <1>3, <2>1, <2>2, <2>3, MoveTyped DEF RunSucceeds, Typed, JiraTyped, CacheTyped, MarkTyped,
       RowsTyped, PollTyped, HistoryTyped, tickets, state
<1>4. CASE RunFails(t)
  <2>1. rows' \in [Tickets -> SUBSET RunStatus]
    BY <1>4, EndTyped DEF RunFails, RunStatus
  <2>2. PICK s \in Status : Move(t, s)
    BY <1>4 DEF RunFails, Status
  <2> QED
    BY <1>4, <2>1, <2>2, MoveTyped DEF RunFails, Typed, JiraTyped, CacheTyped, MarkTyped,
       RowsTyped, PollTyped, PassTyped, HistoryTyped, tickets, state
<1>5. CASE RunCancelled(t)
  <2>1. rows' \in [Tickets -> SUBSET RunStatus]
    BY <1>5, EndTyped DEF RunCancelled, RunStatus
  <2>2. PassTyped'
    BY <1>5, PassSetTyped DEF RunCancelled, PassTyped
  <2> QED
    BY <1>5, <2>1, <2>2 DEF RunCancelled, Typed, JiraTyped, CacheTyped, MarkTyped,
       RowsTyped, PollTyped, HistoryTyped, jira, tickets, state, history
<1> QED
  BY <1>1, <1>2, <1>3, <1>4, <1>5

\* The poller's steps keep the types.
LEMMA PollerTyped ==
  ASSUME Typed,
         PollNothing \/ PollSearch \/ PollDone \/ PollFails
           \/ (\E t \in Tickets : Diff(t) \/ DiffFails(t))
  PROVE  Typed'
<1> USE DEF Typed, jira, tickets, state, history
<1>1. CASE PollNothing
  <2>1. known' \in [written : BOOLEAN, ids : SUBSET Sprints]
    <3>1. [written |-> TRUE, ids |-> {}] \in [written : BOOLEAN, ids : SUBSET Sprints]
      BY Zenon
    <3> QED
      BY <1>1, <3>1 DEF PollNothing, MarkTyped
  <2>2. PassTyped'
    BY <1>1, PassSetTyped DEF PollNothing, PassStep
  <2> QED
    BY <1>1, <2>1, <2>2 DEF PollNothing, JiraTyped, CacheTyped, MarkTyped, RowsTyped, PollTyped,
       HistoryTyped
<1>2. CASE PollSearch
  <2>1. poll'.newest \in 0..MaxClock
    BY <1>2, WindowTyped, FlowBounds DEF PollSearch
  <2>2. Window \subseteq Tickets
    BY DEF Window
  <2>3. PollTyped'
    BY <1>2, <2>1, <2>2 DEF PollSearch, PollTyped, PollRecord, JiraTyped
  <2> QED
    BY <1>2, <2>3 DEF PollSearch, JiraTyped, CacheTyped, MarkTyped, RowsTyped, PassTyped,
       HistoryTyped
<1>3. CASE PollDone
  <2>1. known' \in [written : BOOLEAN, ids : SUBSET Sprints]
    <3>1. poll.sprints \in SUBSET Sprints /\ known' = [written |-> TRUE, ids |-> poll.sprints]
      BY <1>3 DEF PollDone, PollTyped, PollRecord
    <3> QED
      BY <3>1, Zenon
  <2>2. hwm' \in 0..MaxClock
    BY <1>3 DEF PollDone, PollTyped, PollRecord, MarkTyped
  <2>3. PassTyped' /\ PollTyped'
    BY <1>3, PassSetTyped, IdleTyped DEF PollDone, PollTyped, PassStep
  <2> QED
    BY <1>3, <2>1, <2>2, <2>3 DEF PollDone, JiraTyped, CacheTyped, MarkTyped, RowsTyped,
       HistoryTyped
<1>4. CASE PollFails
  <2>1. PassTyped' /\ PollTyped'
    BY <1>4, PassSetTyped, IdleTyped DEF PollFails, PollTyped, PassStep
  <2>2. faults' \in 0..MaxFaults
    BY <1>4, FlowBounds DEF PollFails
  <2> QED
    BY <1>4, <2>1, <2>2 DEF PollFails, JiraTyped, CacheTyped, MarkTyped, RowsTyped, HistoryTyped
<1>5. ASSUME NEW t \in Tickets, Diff(t) \/ DiffFails(t) PROVE Typed'
  <2>1. waiting' \in [Tickets -> Waiting \cup {"none"}] /\ rows' \in [Tickets -> SUBSET RunStatus]
    BY <1>5, DiffTyped DEF Diff, DiffFails
  <2>2. PollTyped'
    BY <1>5 DEF Diff, DiffFails, Diffed, PollTyped, PollRecord
  <2>3. seen' \in [Tickets -> Status \cup {Unknown}] /\ chained' \subseteq Tickets
    BY <1>5 DEF Diff, DiffFails, PollTyped, PollRecord, CacheTyped
  <2>4. faults' \in 0..MaxFaults
    BY <1>5, FlowBounds DEF Diff, DiffFails
  <2> QED
    BY <1>5, <2>1, <2>2, <2>3, <2>4 DEF Diff, DiffFails, JiraTyped, CacheTyped, MarkTyped,
       RowsTyped, PassTyped, HistoryTyped
<1> QED
  BY <1>1, <1>2, <1>3, <1>4, <1>5

\* The steps of a release keep the types.
LEMMA ReleaseTyped ==
  ASSUME Typed, NEW p \in Passes, ReleaseStep(p) \/ ReleaseFails(p)
  PROVE  Typed'
<1> DEFINE r == pass[p]
<1> USE DEF Typed, jira, tickets, state, history
<1>1. r \in PassRecord
  BY DEF PassTyped
<1>2. CASE ReadCandidates(p) \/ Fetch(p) \/ Probe(p)
  <2>1. PassTyped'
    <3>1. CASE ReadCandidates(p)
      <4>1. [PassIdle EXCEPT !.pc = "fetch", !.todo = Candidates(p)] \in PassRecord
        BY IdleTyped DEF PassRecord, PassStep, Candidates
      <4> QED
        BY <3>1, <4>1, IdleTyped, PassSetTyped DEF ReadCandidates
    <3>2. CASE Fetch(p)
      <4>1. [r EXCEPT !.pc = "loop", !.issues = board,
               !.todo = {t \in @ : InSprints(t, sprints)}] \in PassRecord
        BY <1>1 DEF PassRecord, PassStep, JiraTyped
      <4> QED
        BY <3>2, <4>1, PassSetTyped DEF Fetch
    <3>3. CASE Probe(p)
      <4>1. Blockers(p) \subseteq Tickets
        BY DEF Blockers, BlockingKeys, BlockedBy
      <4>2. [r EXCEPT !.pc = "mark", !.todo = pass[p].blocked,
                    !.dead = {b \in Blockers(p) : board[b] = "rejected"},
                    !.scope = {b \in Blockers(p) : InSprints(b, sprints)}] \in PassRecord
             \/ pass[p].blocked = {}
        BY <1>1, <4>1 DEF PassRecord, PassStep
      <4> QED
        BY <3>3, <4>2, IdleTyped, PassSetTyped DEF Probe
    <3> QED
      BY <1>2, <3>1, <3>2, <3>3
  <2> QED
    BY <1>2, <2>1 DEF ReadCandidates, Fetch, Probe, Released, JiraTyped, CacheTyped, MarkTyped,
       RowsTyped, PollTyped, HistoryTyped
<1>3. CASE EvaluateGate(p)
  <2> DEFINE t == First(r.todo)
             rest == [r EXCEPT !.todo = @ \ {t}]
  <2>1. t \in Tickets /\ r.pc = "loop"
    BY <1>1, <1>3, FirstIn DEF EvaluateGate, At, PassRecord
  <2>2. [rest EXCEPT !.pc = "clear", !.ticket = t] \in PassRecord
        /\ [rest EXCEPT !.blocked = @ \cup {t}] \in PassRecord
    BY <1>1, <2>1 DEF PassRecord, PassStep
  <2>3. PassTyped'
    BY <1>3, <2>2, PassSetTyped DEF EvaluateGate
  <2>4. rows' \in [Tickets -> SUBSET RunStatus]
    BY <1>3, <2>1, DiffTyped DEF EvaluateGate
  <2> QED
    BY <1>3, <2>3, <2>4 DEF EvaluateGate, JiraTyped, CacheTyped, MarkTyped, RowsTyped, PollTyped,
       HistoryTyped
<1>4. CASE ClearReleased(p)
  <2>1. [r EXCEPT !.pc = "loop", !.ticket = 0] \in PassRecord
    BY <1>1 DEF PassRecord, PassStep
  <2>2. PassTyped'
    BY <1>4, <2>1, PassSetTyped DEF ClearReleased
  <2> QED
    BY <1>1, <1>4, <2>2 DEF ClearReleased, At, JiraTyped, CacheTyped, MarkTyped, RowsTyped, PollTyped,
       HistoryTyped, PassRecord
<1>5. CASE MarkWaiting(p)
  <2> DEFINE t == First(r.todo)
  <2>0. t \in r.todo /\ t \in Tickets
    BY <1>1, <1>5, FirstIn DEF MarkWaiting, At, PassRecord
  <2>1. r.todo = {t} \/ [r EXCEPT !.todo = @ \ {t}] \in PassRecord
    BY <1>1, <2>0 DEF PassRecord
  <2>2. PassTyped'
    BY <1>5, <2>1, IdleTyped, PassSetTyped DEF MarkWaiting
  <2>3. StateOf(p, t) \in Waiting
    BY DEF StateOf, Waiting
  <2> QED
    BY <1>5, <2>0, <2>2, <2>3 DEF MarkWaiting, JiraTyped, CacheTyped, MarkTyped, RowsTyped, PollTyped,
       HistoryTyped
<1>6. CASE ReleaseFails(p)
  <2>1. PassTyped'
    BY <1>6, IdleTyped, PassSetTyped DEF ReleaseFails
  <2> QED
    BY <1>6, <2>1, FlowBounds DEF ReleaseFails, JiraTyped, CacheTyped, MarkTyped, RowsTyped,
       PollTyped, HistoryTyped
<1> QED
  BY <1>2, <1>3, <1>4, <1>5, <1>6 DEF ReleaseStep

\* Every step keeps the types.
LEMMA TypeNext == Typed /\ [Next]_vars => Typed'
<1> SUFFICES ASSUME Typed, [Next]_vars PROVE Typed'
  OBVIOUS
<1>1. CASE UNCHANGED vars
  BY <1>1 DEF vars, jira, tickets, state, history, Typed, JiraTyped, CacheTyped, MarkTyped,
     RowsTyped, PollTyped, PassTyped, HistoryTyped
<1>2. CASE SprintSwitch
  <2>1. CASE Tickets = {}
    <3>1. JiraTyped'
      BY <1>2, BoardAssumption, FlowBounds DEF SprintSwitch, Typed, JiraTyped, Sprints
    <3> QED
      BY <1>2, <3>1 DEF SprintSwitch, Typed, CacheTyped, MarkTyped, RowsTyped, PollTyped,
         PassTyped, HistoryTyped, tickets, state, history
  <2> QED
    BY <1>2, <2>1, BoardTyped
<1>3. CASE PollStepNext \/ PollFails
  BY <1>3, PollerTyped DEF PollStepNext
<1>4. ASSUME NEW t \in Tickets,
             \/ HumanMoves(t) \/ RunStarted(t) \/ RunSucceeds(t) \/ RunFails(t)
             \/ RunCancelled(t) \/ DiffFails(t)
      PROVE  Typed'
  BY <1>4, BoardTyped, PollerTyped
<1>5. ASSUME NEW p \in Passes, ReleaseStep(p) \/ ReleaseFails(p) PROVE Typed'
  BY <1>5, ReleaseTyped
<1> QED
  BY <1>1, <1>2, <1>3, <1>4, <1>5 DEF Next

\* The poller, the release passes and the caches they keep never leave their types, for any
\* board, links, priorities and sprints.
THEOREM FlowTypes == Spec => []TypeOK
<1>1. Spec => []Typed
  BY TypeInit, TypeNext, PTL DEF Spec
<1> QED
  BY <1>1, TypedParts, PTL

-----------------------------------------------------------------------------
(* Runs start clear.                                                       *)

\* What was fetched is what the board was: a gate that is clear in a search or in a fetch in use
\* has been clear on the board.
ClearInv ==
  /\ \A t \in Tickets : Unblocked(t) => t \in everClear
  /\ poll.pc = "diff" => \A t \in Tickets : Clear(t, poll.issues) => t \in everClear
  /\ \A p \in Passes : pass[p].pc \in {"loop", "clear", "mark"} =>
       \A t \in Tickets : Clear(t, pass[p].issues) => t \in everClear
  /\ StartedClear

\* The gate on the issues of a fetch is the gate on the board they were read from.
LEMMA GateOnBoard == \A t : Clear(t, board) <=> Unblocked(t)
BY DEF Clear, BlockingKeys, Unblocked

\* A step that leaves the searches and fetches alone, starts no run and forgets no clear gate keeps
\* the invariant.
LEMMA ClearStays ==
  ASSUME Typed, ClearInv, everClear \subseteq everClear',
         \A t \in Tickets : Unblocked(t)' => t \in everClear',
         poll'.pc = "diff" => poll'.issues = board \/ (poll.pc = "diff" /\ poll'.issues = poll.issues),
         \A p \in Passes : pass'[p].pc \in {"loop", "clear", "mark"} =>
            \/ pass'[p].issues = board
            \/ pass[p].pc \in {"loop", "clear", "mark"} /\ pass'[p].issues = pass[p].issues,
         \A t \in Tickets : rows'[t] # {} => rows[t] # {} \/ t \in everClear
  PROVE  ClearInv'
<1>1. (\A t \in Tickets : Unblocked(t) => t \in everClear)'
  OBVIOUS
<1>2. ASSUME NEW c, c = board \/ (\A t \in Tickets : Clear(t, c) => t \in everClear)
      PROVE  \A t \in Tickets : Clear(t, c) => t \in everClear'
  BY <1>2, GateOnBoard DEF ClearInv
<1>3. (poll.pc = "diff" => \A t \in Tickets : Clear(t, poll.issues) => t \in everClear)'
  <2> SUFFICES ASSUME poll'.pc = "diff"
               PROVE  \A t \in Tickets : Clear(t, poll'.issues) => t \in everClear'
    BY DEF Clear, BlockingKeys, BlockedBy
  <2> QED
    BY <1>2 DEF ClearInv
<1>4. (\A p \in Passes : pass[p].pc \in {"loop", "clear", "mark"} =>
         \A t \in Tickets : Clear(t, pass[p].issues) => t \in everClear)'
  <2> SUFFICES ASSUME NEW p \in Passes, pass'[p].pc \in {"loop", "clear", "mark"}
               PROVE  \A t \in Tickets : Clear(t, pass'[p].issues) => t \in everClear'
    BY DEF Clear, BlockingKeys, BlockedBy
  <2> QED
    BY <1>2 DEF ClearInv
<1>5. StartedClear'
  BY DEF ClearInv, StartedClear
<1> QED
  BY <1>1, <1>3, <1>4, <1>5 DEF ClearInv

\* A pass of the next state uses no fetch, the board as it is, or the fetch it has used before.
LEMMA FetchesAge ==
  ASSUME Typed, [Next]_vars, NEW p \in Passes, pass'[p].pc \in {"loop", "clear", "mark"}
  PROVE  \/ pass'[p].issues = board
         \/ pass[p].pc \in {"loop", "clear", "mark"} /\ pass'[p].issues = pass[p].issues
<1> USE DEF Typed, PassTyped
<1>1. CASE UNCHANGED pass
  BY <1>1
<1>2. ASSUME NEW q \in PassStep \ {"loop", "clear", "mark"}, ToRelease(q)
      PROVE  pass'[p] = pass[p] \/ pass'[p].pc = q
  BY <1>2, IdleTyped DEF ToRelease, PassRecord
<1>3. CASE PollNothing \/ PollDone \/ PollFails
  <2>1. pass'[p] = pass[p] \/ pass'[p].pc = "candidates"
    BY <1>2, <1>3 DEF PollNothing, PollDone, PollFails, PassStep
  <2> QED
    BY <2>1
<1>4. ASSUME NEW t \in Tickets, RunSucceeds(t) \/ RunCancelled(t) PROVE pass'[p].pc \in {"candidates"}
        \/ (pass'[p].pc = pass[p].pc /\ pass'[p].issues = pass[p].issues)
  <2>1. [PassIdle EXCEPT !.pc = "candidates", !.ticket = t].pc = "candidates"
    BY IdleTyped DEF PassRecord
  <2>2. Settle(p, t).pc = pass[p].pc /\ Settle(p, t).issues = pass[p].issues
    BY DEF Settle, PassRecord
  <2> QED
    BY <1>4, <2>1, <2>2 DEF RunSucceeds, RunCancelled
<1>5. ASSUME NEW q \in Passes, ReleaseStep(q) \/ ReleaseFails(q), p # q PROVE pass'[p] = pass[p]
  BY <1>5 DEF ReleaseStep, ReadCandidates, Fetch, EvaluateGate, ClearReleased, Probe, MarkWaiting,
     ReleaseFails, Set
<1>6. CASE ReleaseStep(p) \/ ReleaseFails(p)
  <2>1. pass[p] \in PassRecord /\ PassIdle \in PassRecord /\ PassIdle.pc = "idle"
    BY IdleTyped DEF PassIdle
  <2>2. ASSUME NEW r, Set(p, r) PROVE pass'[p] = r
    BY <2>2 DEF Set
  <2>3. CASE ReadCandidates(p)
    BY <2>1, <2>2, <2>3 DEF ReadCandidates, PassRecord
  <2>4. CASE Fetch(p)
    BY <2>1, <2>2, <2>4 DEF Fetch, PassRecord
  <2>5. CASE EvaluateGate(p) \/ ClearReleased(p) \/ Probe(p) \/ MarkWaiting(p)
    BY <2>1, <2>2, <2>5 DEF EvaluateGate, ClearReleased, Probe, MarkWaiting, At, PassRecord
  <2>6. CASE ReleaseFails(p)
    BY <2>1, <2>2, <2>6 DEF ReleaseFails
  <2> QED
    BY <1>6, <2>3, <2>4, <2>5, <2>6 DEF ReleaseStep
<1>7. CASE SprintSwitch \/ PollSearch
           \/ (\E t \in Tickets : \/ HumanMoves(t) \/ RunStarted(t) \/ RunFails(t)
                                  \/ Diff(t) \/ DiffFails(t))
  BY <1>1, <1>7 DEF SprintSwitch, PollSearch, HumanMoves, RunStarted, RunFails, Diff, DiffFails
<1> QED
  BY <1>1, <1>3, <1>4, <1>5, <1>6, <1>7 DEF Next, PollStepNext, vars

\* The board's gates that are clear after a step are noted, and none is forgotten.
LEMMA GatesNoted ==
  ASSUME Typed, ClearInv, [Next]_vars
  PROVE  everClear \subseteq everClear' /\ \A t \in Tickets : Unblocked(t)' => t \in everClear'
<1>1. CASE UNCHANGED <<board, everClear>>
  <2>1. \A t \in Tickets : Unblocked(t)' <=> Unblocked(t)
    BY <1>1 DEF Unblocked, BlockedBy
  <2> QED
    BY <1>1, <2>1 DEF ClearInv
<1>2. ASSUME NEW t, NEW s, Move(t, s)
      PROVE  everClear \subseteq everClear' /\ \A u \in Tickets : Unblocked(u)' => u \in everClear'
  BY <1>2 DEF Move
<1>3. ASSUME NEW t \in Tickets, HumanMoves(t) \/ RunStarted(t) \/ RunSucceeds(t) \/ RunFails(t)
      PROVE  \E s : Move(t, s)
  BY <1>3 DEF HumanMoves, RunStarted, RunSucceeds, RunFails
<1>4. ASSUME NEW t \in Tickets, RunCancelled(t) \/ Diff(t) \/ DiffFails(t)
      PROVE  UNCHANGED <<board, everClear>>
  BY <1>4 DEF RunCancelled, Diff, DiffFails, jira, history
<1>5. CASE SprintSwitch \/ PollNothing \/ PollSearch \/ PollDone \/ PollFails
  BY <1>1, <1>5 DEF SprintSwitch, PollNothing, PollSearch, PollDone, PollFails, jira, history
<1>6. ASSUME NEW p \in Passes, ReleaseStep(p) \/ ReleaseFails(p)
      PROVE  UNCHANGED <<board, everClear>>
  BY <1>6 DEF ReleaseStep, ReadCandidates, Fetch, EvaluateGate, ClearReleased, Probe, MarkWaiting,
     ReleaseFails, Released, jira, history
<1> QED
  BY <1>1, <1>2, <1>3, <1>4, <1>5, <1>6 DEF Next, PollStepNext, vars, jira, history

\* A ticket gets its first row only from a gate that is clear in a search or a fetch in use.
LEMMA StartsClear ==
  ASSUME Typed, ClearInv, [Next]_vars, NEW t \in Tickets, rows'[t] # {}
  PROVE  rows[t] # {} \/ t \in everClear
<1> SUFFICES ASSUME rows[t] = {} PROVE t \in everClear
  OBVIOUS
<1> USE DEF Typed, RowsTyped
<1>1. rows' # rows
  OBVIOUS
<1>2. ASSUME NEW u \in Tickets, NEW s, "active" \in rows[u], End(u, s) PROVE FALSE
  BY <1>2 DEF End
<1>3. ASSUME NEW u, TriggerRun(u) PROVE t = u
  BY <1>3 DEF TriggerRun
<1>4. ASSUME NEW u \in Tickets, Diff(u) \/ DiffFails(u) PROVE t \in everClear
  <2>1. OnStatusChanged(u) /\ poll.pc = "diff"
    BY <1>1, <1>4 DEF Diff, DiffFails, NextIssue
  <2>2. Clear(u, poll.issues) /\ TriggerRun(u)
    BY <1>1, <2>1 DEF OnStatusChanged
  <2> QED
    BY <1>3, <2>1, <2>2 DEF ClearInv
<1>5. ASSUME NEW p \in Passes, ReleaseStep(p) \/ ReleaseFails(p) PROVE t \in everClear
  <2>1. EvaluateGate(p)
    BY <1>1, <1>5 DEF ReleaseStep, ReadCandidates, Fetch, ClearReleased, Probe, MarkWaiting,
       ReleaseFails, Released
  <2>2. Clear(First(pass[p].todo), pass[p].issues) /\ TriggerRun(First(pass[p].todo))
        /\ pass[p].pc = "loop"
    BY <1>1, <2>1 DEF EvaluateGate, At
  <2> QED
    BY <1>3, <2>2 DEF ClearInv
<1>6. ASSUME NEW u \in Tickets,
             HumanMoves(u) \/ RunStarted(u) \/ RunSucceeds(u) \/ RunFails(u) \/ RunCancelled(u)
      PROVE  FALSE
  BY <1>1, <1>2, <1>6 DEF HumanMoves, RunStarted, RunSucceeds, RunFails, RunCancelled
<1> QED
  BY <1>1, <1>4, <1>5, <1>6 DEF Next, PollStepNext, SprintSwitch, PollNothing, PollSearch, PollDone,
     PollFails, vars

\* Every step keeps the invariant.
LEMMA ClearNext == Typed /\ ClearInv /\ [Next]_vars => ClearInv'
<1> SUFFICES ASSUME Typed, ClearInv, [Next]_vars PROVE ClearInv'
  OBVIOUS
<1>1. poll'.pc = "diff" => poll'.issues = board \/ (poll.pc = "diff" /\ poll'.issues = poll.issues)
  <2>1. ASSUME NEW t, Diffed(t) PROVE poll'.pc = poll.pc /\ poll'.issues = poll.issues
    BY <2>1 DEF Diffed, Typed, PollTyped, PollRecord
  <2>2. PollIdle.pc = "idle"
    BY DEF PollIdle
  <2>3. PollSearch => poll'.issues = board
    BY DEF PollSearch
  <2>4. CASE poll' = poll
    BY <2>4
  <2>5. poll' = poll \/ PollSearch \/ (\E t \in Tickets : Diffed(t)) \/ poll' = PollIdle
    BY DEF Next, PollStepNext, vars, SprintSwitch, PollNothing, PollDone, PollFails, Diff, DiffFails,
       HumanMoves, RunStarted, RunSucceeds, RunFails, RunCancelled, ReleaseStep, ReadCandidates, Fetch,
       EvaluateGate, ClearReleased, Probe, MarkWaiting, ReleaseFails, Released
  <2> QED
    BY <2>1, <2>2, <2>3, <2>4, <2>5
<1> QED
  BY <1>1, FetchesAge, GatesNoted, StartsClear, ClearStays

\* evaluateDependencyGate on both paths: no run of a ticket exists unless its blockers were all
\* clear on the board at some time before, for every board, link graph and release status, however
\* late the search or the fetch is used and whatever moves in between.
THEOREM FlowStartedClear == Spec => []StartedClear
<1>1. Init => ClearInv
  <2>1. ASSUME Init PROVE ClearInv
    BY <2>1 DEF Init, ClearInv, StartedClear, PollIdle, PassIdle
  <2> QED
    BY <2>1
<1>2. Spec => [](Typed /\ ClearInv)
  BY <1>1, TypeInit, TypeNext, ClearNext, PTL DEF Spec
<1>3. ClearInv => StartedClear
  BY DEF ClearInv
<1> QED
  BY <1>2, <1>3, PTL

-----------------------------------------------------------------------------
(* No change is missed.                                                    *)

\* t was touched at the mark or later, and after the search in progress.
TouchedSince(t) == hwm <= updated[t] /\ poll.newest <= updated[t]

\* Marks are times that have been.
MarksPast ==
  hwm <= clock /\ poll.newest <= clock /\ \A t \in Tickets : updated[t] <= clock

\* In the sprints the mark was saved for, an issue the cache is behind on was touched inside the
\* window of the mark.
MarkCovers == \A t \in Tickets :
  /\ known.written /\ hwm # 0 /\ InSprints(t, known.ids) /\ t \notin missed /\ seen[t] # board[t]
  => updated[t] >= hwm - Overlap

\* Against a search in progress: an issue that is not as found was touched since, and so was an
\* issue of its sprints that is no longer to be diffed and that the cache is behind on.
SearchCovers == poll.pc = "diff" => \A t \in Tickets :
  /\ board[t] # poll.issues[t] => TouchedSince(t)
  /\ InSprints(t, poll.sprints) /\ t \notin poll.todo /\ t \notin missed /\ seen[t] # board[t]
     => TouchedSince(t)

MissedInv == MarksPast /\ MarkCovers /\ SearchCovers

\* A step that leaves the poller and its caches alone keeps the invariant: only moves matter, and a
\* move touches the issue.
LEMMA MissedStays ==
  ASSUME Typed, MissedInv, UNCHANGED <<seen, hwm, known, poll, missed>>,
         UNCHANGED <<board, updated, clock>> \/ (\E t \in Tickets, s \in Status : Move(t, s))
  PROVE  MissedInv'
<1>1. CASE UNCHANGED <<board, updated, clock>>
  BY <1>1 DEF MissedInv, MarksPast, MarkCovers, SearchCovers, TouchedSince, InSprints
<1>2. ASSUME NEW t \in Tickets, NEW s \in Status, Move(t, s) PROVE MissedInv'
  <2> USE FlowBounds DEF Typed, JiraTyped, MarkTyped, PollTyped, PollRecord
  <2>1. hwm \in Nat /\ poll.newest \in Nat /\ clock \in Nat /\ updated \in [Tickets -> Nat]
    OBVIOUS
  <2>2. /\ clock' = clock + 1 /\ updated' \in [Tickets -> Nat] /\ updated'[t] = clock + 1
        /\ \A u \in Tickets \ {t} : updated'[u] = updated[u] /\ board'[u] = board[u]
    BY <1>2, <2>1 DEF Move
  <2>3. MarksPast'
    BY <2>1, <2>2 DEF MissedInv, MarksPast
  <2>4. MarkCovers'
    BY <2>1, <2>2 DEF MissedInv, MarksPast, MarkCovers, InSprints
  <2>5. SearchCovers'
    BY <2>1, <2>2 DEF MissedInv, MarksPast, SearchCovers, TouchedSince, InSprints
  <2> QED
    BY <2>3, <2>4, <2>5 DEF MissedInv
<1> QED
  BY <1>1, <1>2

\* The cache and the mark leave nothing outside the next search.
LEMMA WindowCovers ==
  ASSUME Typed, MarkCovers, NEW t \in Tickets, Unseen(t), t \notin missed
  PROVE  t \in Window
<1>1. hwm \in Nat /\ updated[t] \in Nat
  BY FlowBounds DEF Typed, JiraTyped, MarkTyped
<1>2. CASE Rescan \/ hwm = 0
  BY <1>2 DEF Window, Unseen
<1>3. CASE ~Rescan /\ hwm # 0
  BY <1>1, <1>3, FlowBounds DEF MarkCovers, Rescan, Window, Unseen
<1> QED
  BY <1>2, <1>3

\* A search starts from the board as it is, and what it leaves out the cache is not behind on.
LEMMA SearchMissed == ASSUME Typed, MissedInv, PollSearch PROVE MissedInv'
<1>1. /\ poll'.pc = "diff" /\ poll'.todo = Window /\ poll'.issues = board /\ poll'.sprints = sprints
      /\ poll'.newest = IF Window = {} THEN 0 ELSE Max({updated[t] : t \in Window})
  BY DEF PollSearch
<1>2. UNCHANGED <<board, updated, clock, sprints, seen, hwm, known, missed>>
  BY DEF PollSearch, jira, tickets, state, history
<1>3. hwm \in Nat /\ clock \in Nat /\ updated \in [Tickets -> Nat] /\ Window \subseteq Tickets
  BY FlowBounds DEF Typed, JiraTyped, MarkTyped, Window
<1>4. poll'.newest \in Nat /\ poll'.newest <= clock
  <2>1. CASE Window = {}
    BY <1>1, <1>3, <2>1
  <2>2. CASE Window # {}
    <3>1. poll'.newest = Max({updated[t] : t \in Window})
      BY <1>1, <2>2
    <3>2. poll'.newest \in {updated[t] : t \in Window} /\ poll'.newest \in 0..MaxClock
      BY <2>2, <3>1, WindowTyped
    <3> QED
      BY <1>3, <3>2, FlowBounds DEF MissedInv, MarksPast
  <2> QED
    BY <2>1, <2>2
<1>5. MarksPast'
  BY <1>2, <1>4 DEF MissedInv, MarksPast
<1>6. MarkCovers'
  BY <1>2 DEF MissedInv, MarkCovers, InSprints
<1>7. SearchCovers'
  <2>1. ASSUME NEW t \in Tickets, InSprints(t, sprints), t \notin Window, t \notin missed
        PROVE  seen[t] = board[t]
    BY <2>1, WindowCovers DEF MissedInv, Unseen
  <2> QED
    BY <1>1, <1>2, <2>1 DEF SearchCovers, InSprints
<1> QED
  BY <1>5, <1>6, <1>7 DEF MissedInv

\* One issue diffed, or failed: the cache takes the status found, or the issue counts as missed.
LEMMA DiffMissed ==
  ASSUME Typed, MissedInv, NEW t \in Tickets, Diff(t) \/ DiffFails(t)
  PROVE  MissedInv'
<1>1. /\ poll.pc = "diff" /\ poll'.pc = poll.pc /\ poll'.todo = poll.todo \ {t}
      /\ poll'.issues = poll.issues /\ poll'.newest = poll.newest /\ poll'.sprints = poll.sprints
  BY DEF Diff, DiffFails, Diffed, NextIssue, Typed, PollTyped, PollRecord
<1>2. UNCHANGED <<board, updated, clock, hwm, known>>
  BY DEF Diff, DiffFails, jira, state
<1>3. \/ seen' = [seen EXCEPT ![t] = poll.issues[t]] /\ missed' = missed \ {t}
      \/ seen' = seen /\ missed' = missed \cup {t}
  BY DEF Diff, DiffFails
<1>4. \A u \in Tickets \ {t} : seen'[u] = seen[u] /\ (u \in missed' <=> u \in missed)
  BY <1>3 DEF Typed, CacheTyped
<1>5. t \in missed' \/ seen'[t] = poll.issues[t]
  BY <1>3 DEF Typed, CacheTyped
<1>6. MarksPast'
  BY <1>1, <1>2 DEF MissedInv, MarksPast
<1>7. TouchedSince(t) \/ board[t] = poll.issues[t]
  BY <1>1 DEF MissedInv, SearchCovers
<1>8. MarkCovers'
  <2> SUFFICES ASSUME NEW u \in Tickets, known'.written, hwm' # 0, InSprints(u, known'.ids),
                      u \notin missed', seen'[u] # board'[u]
               PROVE  updated'[u] >= hwm' - Overlap
    BY DEF MarkCovers, InSprints
  <2>1. hwm \in Nat /\ updated[u] \in Nat
    BY FlowBounds DEF Typed, JiraTyped, MarkTyped
  <2>2. CASE u = t
    BY <1>2, <1>5, <1>7, <2>1, <2>2, FlowBounds DEF TouchedSince
  <2>3. CASE u # t
    BY <1>2, <1>4, <2>3 DEF MissedInv, MarkCovers
  <2> QED
    BY <2>2, <2>3
<1>9. SearchCovers'
  <2> SUFFICES ASSUME NEW u \in Tickets
               PROVE  /\ board'[u] # poll'.issues[u] => TouchedSince(u)
                      /\ InSprints(u, poll'.sprints) /\ u \notin poll'.todo /\ u \notin missed'
                         /\ seen'[u] # board'[u] => TouchedSince(u)
    BY <1>1, <1>2 DEF SearchCovers, TouchedSince, InSprints
  <2>1. CASE u = t
    BY <1>1, <1>2, <1>5, <1>7, <2>1
  <2>2. CASE u # t
    BY <1>1, <1>2, <1>4, <2>2 DEF MissedInv, SearchCovers
  <2> QED
    BY <2>1, <2>2
<1> QED
  BY <1>6, <1>8, <1>9 DEF MissedInv

\* A search without issues left saves its newest mark and its sprints.
LEMMA DoneMissed == ASSUME Typed, MissedInv, PollDone PROVE MissedInv'
<1>1. /\ poll.pc = "diff" /\ poll.todo = {} /\ poll'.pc = "idle" /\ poll'.newest = 0
      /\ known'.ids = poll.sprints /\ hwm' \in {hwm, poll.newest}
  BY DEF PollDone, PollIdle
<1>2. UNCHANGED <<board, updated, clock, seen, missed>>
  BY DEF PollDone, jira, tickets, history
<1>3. hwm \in Nat /\ poll.newest \in Nat /\ clock \in Nat /\ updated \in [Tickets -> Nat]
  BY FlowBounds DEF Typed, JiraTyped, MarkTyped, PollTyped, PollRecord
<1>4. MarksPast'
  BY <1>1, <1>2, <1>3 DEF MissedInv, MarksPast
<1>5. MarkCovers'
  BY <1>1, <1>2, <1>3, FlowBounds DEF MissedInv, SearchCovers, MarkCovers, TouchedSince, InSprints
<1>6. SearchCovers'
  BY <1>1 DEF SearchCovers
<1> QED
  BY <1>4, <1>5, <1>6 DEF MissedInv

\* A workspace without an active sprint, and a search that fails, save no mark.
LEMMA NoMarkMissed == ASSUME Typed, MissedInv, PollNothing \/ PollFails PROVE MissedInv'
<1>1. UNCHANGED <<board, updated, clock, seen, missed, hwm>>
      /\ (known' = known \/ known'.ids = {})
  BY DEF PollNothing, PollFails, jira, tickets, state, history
<1>2. poll'.pc = "idle" /\ poll'.newest \in {poll.newest, 0}
  BY DEF PollNothing, PollFails, ReconcileIdle, PollIdle
<1>3. clock \in Nat
  BY FlowBounds DEF Typed, JiraTyped
<1>4. MarksPast'
  BY <1>1, <1>2, <1>3 DEF MissedInv, MarksPast
<1>5. MarkCovers'
  BY <1>1 DEF MissedInv, MarkCovers, InSprints
<1>6. SearchCovers'
  BY <1>2 DEF SearchCovers
<1> QED
  BY <1>4, <1>5, <1>6 DEF MissedInv

\* Every step keeps the invariant.
LEMMA MissedNext == Typed /\ MissedInv /\ [Next]_vars => MissedInv'
<1> SUFFICES ASSUME Typed, MissedInv, [Next]_vars PROVE MissedInv'
  OBVIOUS
<1>1. CASE UNCHANGED vars \/ SprintSwitch
  BY <1>1, MissedStays DEF vars, SprintSwitch, jira, tickets, state, history
<1>2. CASE PollStepNext \/ PollFails
  BY <1>2, SearchMissed, DiffMissed, DoneMissed, NoMarkMissed DEF PollStepNext
<1>3. ASSUME NEW t \in Tickets,
             \/ HumanMoves(t) \/ RunStarted(t) \/ RunSucceeds(t) \/ RunFails(t)
             \/ RunCancelled(t) \/ DiffFails(t)
      PROVE  MissedInv'
  <2>1. CASE HumanMoves(t) \/ RunStarted(t) \/ RunSucceeds(t) \/ RunFails(t)
    <3>1. \E s \in Status : Move(t, s)
      BY <2>1, BoardAssumption DEF HumanMoves, RunStarted, RunSucceeds, RunFails, Status
    <3>2. UNCHANGED <<seen, hwm, known, poll, missed>>
      BY <2>1 DEF HumanMoves, RunStarted, RunSucceeds, RunFails, tickets, state
    <3> QED
      BY <3>1, <3>2, MissedStays
  <2>2. CASE RunCancelled(t)
    BY <2>2, MissedStays DEF RunCancelled, jira, tickets, state, history
  <2> QED
    BY <1>3, <2>1, <2>2, DiffMissed
<1>4. ASSUME NEW p \in Passes, ReleaseStep(p) \/ ReleaseFails(p) PROVE MissedInv'
  <2>1. UNCHANGED <<board, updated, clock, seen, hwm, known, poll, missed>>
    BY <1>4 DEF ReleaseStep, ReadCandidates, Fetch, EvaluateGate, ClearReleased, Probe, MarkWaiting,
       ReleaseFails, Released, jira, tickets, state, history
  <2> QED
    BY <2>1, MissedStays
<1> QED
  BY <1>1, <1>2, <1>3, <1>4 DEF Next

\* pollAndDiff loses no change of the board: an issue in scope that the diff cache is behind on,
\* and whose diff has not failed, is inside the next search, for every overlap, every order of
\* moves, sprint switches and failed searches, and any number of issues.
THEOREM FlowNotMissed == Spec => []NotMissed
<1>1. Init => MissedInv
  <2>1. ASSUME Init PROVE MissedInv
    BY <2>1 DEF Init, MissedInv, MarksPast, MarkCovers, SearchCovers, PollIdle
  <2> QED
    BY <2>1
<1>2. Spec => [](Typed /\ MissedInv)
  BY <1>1, TypeInit, TypeNext, MissedNext, PTL DEF Spec
<1>3. Typed /\ MissedInv => NotMissed
  BY WindowCovers DEF MissedInv, NotMissed
<1> QED
  BY <1>2, <1>3, PTL

-----------------------------------------------------------------------------
(* What ended stays ended.                                                 *)

Ended(t) == rows[t] \cap {"succeeded", "cancelled"}

\* A candidate of a pass has no run that succeeded or was cancelled, unless it ended after the
\* candidates were read.
SettledInv == \A p \in Passes : pass[p].pc \in {"fetch", "loop", "clear"} =>
  \A t \in pass[p].todo : Ended(t) = {} \/ t \in pass[p].settled

\* Only a run that ends changes which runs of a ticket have succeeded or been cancelled.
LEMMA EndedStays ==
  ASSUME Typed, NEW t \in Tickets,
         \/ UNCHANGED rows
         \/ \E u \in Tickets : TriggerRun(u) \/ End(u, "failed")
  PROVE  Ended(t)' = Ended(t)
BY DEF Typed, RowsTyped, TriggerRun, End, Ended

\* A pass that goes on with its candidates, while no run ends, keeps the invariant.
LEMMA SettledStays ==
  ASSUME Typed, SettledInv,
         \/ UNCHANGED rows
         \/ \E u \in Tickets : TriggerRun(u) \/ End(u, "failed"),
         \A p \in Passes : pass'[p].pc \in {"fetch", "loop", "clear"} =>
           \/ /\ pass[p].pc \in {"fetch", "loop", "clear"}
              /\ pass'[p].todo \subseteq pass[p].todo /\ pass'[p].settled = pass[p].settled
           \/ \A t \in pass'[p].todo : t \in Tickets /\ Ended(t) = {}
  PROVE  SettledInv'
<1> SUFFICES ASSUME NEW p \in Passes, pass'[p].pc \in {"fetch", "loop", "clear"},
                    NEW t \in pass'[p].todo
             PROVE  Ended(t)' = {} \/ t \in pass'[p].settled
  BY DEF SettledInv
<1>1. pass[p].todo \subseteq Tickets
  BY DEF Typed, PassTyped, PassRecord
<1>2. t \in Tickets /\ (Ended(t) = {} \/ t \in pass'[p].settled)
  BY <1>1 DEF SettledInv
<1> QED
  BY <1>2, EndedStays

\* A run that succeeds or is cancelled is noted by the passes that have it as a candidate.
LEMMA SettledNoted ==
  ASSUME Typed, SettledInv, NEW t \in Tickets, RunSucceeds(t) \/ RunCancelled(t)
  PROVE  SettledInv'
<1> SUFFICES ASSUME NEW p \in Passes, pass'[p].pc \in {"fetch", "loop", "clear"},
                    NEW u \in pass'[p].todo
             PROVE  Ended(u)' = {} \/ u \in pass'[p].settled
  BY DEF SettledInv
<1>1. pass[p] \in PassRecord
  BY DEF Typed, PassTyped
<1>2. [PassIdle EXCEPT !.pc = "candidates", !.ticket = t].pc = "candidates"
  BY IdleTyped DEF PassRecord
<1>3. pass'[p] = Settle(p, t)
  BY <1>2 DEF RunSucceeds, RunCancelled
<1>4. /\ pass'[p].pc = pass[p].pc /\ pass'[p].todo = pass[p].todo
      /\ pass'[p].settled = pass[p].settled \cup ({t} \cap pass[p].todo)
  BY <1>1, <1>3 DEF Settle, PassRecord
<1>5. u \in Tickets /\ (Ended(u) = {} \/ u \in pass[p].settled)
  BY <1>1, <1>4 DEF SettledInv, PassRecord
<1>6. u # t => rows'[u] = rows[u]
  BY <1>5 DEF RunSucceeds, RunCancelled, End, Typed, RowsTyped
<1> QED
  BY <1>4, <1>5, <1>6 DEF Ended

\* The steps of a release keep the invariant.
LEMMA ReleaseSettled ==
  ASSUME Typed, SettledInv, NEW p \in Passes, ReleaseStep(p) \/ ReleaseFails(p)
  PROVE  SettledInv'
<1>1. pass[p] \in PassRecord /\ PassIdle \in PassRecord /\ PassIdle.pc = "idle" /\ PassIdle.todo = {}
  BY IdleTyped DEF Typed, PassTyped, PassIdle
<1>2. ASSUME NEW r, Set(p, r) PROVE pass'[p] = r
  BY <1>2 DEF Set, Typed, PassTyped
<1>3. ASSUME NEW q \in Passes, q # p PROVE pass'[q] = pass[q]
  BY <1>3 DEF ReleaseStep, ReadCandidates, Fetch, EvaluateGate, ClearReleased, Probe, MarkWaiting,
     ReleaseFails, Set, Typed, PassTyped
<1>4. UNCHANGED rows \/ \E u \in Tickets : TriggerRun(u)
  <2>1. EvaluateGate(p) => First(pass[p].todo) \in Tickets
    BY <1>1, FirstIn DEF EvaluateGate, PassRecord
  <2> QED
    BY <2>1 DEF ReleaseStep, ReadCandidates, Fetch, EvaluateGate, ClearReleased, Probe, MarkWaiting,
       ReleaseFails, Released
<1>5. ASSUME pass'[p].pc \in {"fetch", "loop", "clear"}
      PROVE  \/ /\ pass[p].pc \in {"fetch", "loop", "clear"}
                /\ pass'[p].todo \subseteq pass[p].todo /\ pass'[p].settled = pass[p].settled
             \/ \A t \in pass'[p].todo : t \in Tickets /\ Ended(t) = {}
  <2>1. CASE ReadCandidates(p)
    <3>1. pass'[p] = [PassIdle EXCEPT !.pc = "fetch", !.todo = Candidates(p)]
      BY <1>1, <1>2, <1>5, <2>1 DEF ReadCandidates
    <3>2. pass'[p].todo = Candidates(p)
      BY <1>1, <3>1 DEF PassRecord
    <3> QED
      BY <3>2 DEF Candidates, NeverAgain, Ended
  <2>2. CASE Fetch(p)
    <3>1. pass[p].pc = "fetch"
          /\ pass'[p] = [pass[p] EXCEPT !.pc = "loop", !.issues = board,
                           !.todo = {t \in @ : InSprints(t, sprints)}]
      BY <1>2, <2>2 DEF Fetch, At
    <3> QED
      BY <1>1, <3>1 DEF PassRecord
  <2>3. CASE EvaluateGate(p)
    <3> DEFINE u == First(pass[p].todo)
               rest == [pass[p] EXCEPT !.todo = @ \ {u}]
    <3>1. /\ pass[p].pc = "loop"
          /\ \/ pass'[p] = [rest EXCEPT !.pc = "clear", !.ticket = u]
             \/ pass'[p] = [rest EXCEPT !.blocked = @ \cup {u}]
      BY <1>2, <2>3 DEF EvaluateGate, At
    <3> HIDE DEF u
    <3>2. pass'[p].todo = pass[p].todo \ {u}
      BY <1>1, <3>1 DEF PassRecord
    <3>3. pass'[p].settled = pass[p].settled
      BY <1>1, <3>1 DEF PassRecord
    <3> QED
      BY <3>1, <3>2, <3>3
  <2>4. CASE ClearReleased(p) \/ Probe(p)
    BY <1>1, <1>2, <1>5, <2>4 DEF ClearReleased, Probe, At, PassRecord
  <2>5. CASE MarkWaiting(p) \/ ReleaseFails(p)
    BY <1>1, <1>2, <1>5, <2>5 DEF MarkWaiting, ReleaseFails, At, PassRecord
  <2> QED
    BY <2>1, <2>2, <2>3, <2>4, <2>5 DEF ReleaseStep
<1>6. ASSUME NEW q \in Passes, pass'[q].pc \in {"fetch", "loop", "clear"}
      PROVE  \/ /\ pass[q].pc \in {"fetch", "loop", "clear"}
                /\ pass'[q].todo \subseteq pass[q].todo /\ pass'[q].settled = pass[q].settled
             \/ \A t \in pass'[q].todo : t \in Tickets /\ Ended(t) = {}
  BY <1>3, <1>5, <1>6
<1> QED
  BY <1>4, <1>6, SettledStays

\* Every step keeps the invariant.
LEMMA SettledNext == Typed /\ SettledInv /\ [Next]_vars => SettledInv'
<1> SUFFICES ASSUME Typed, SettledInv, [Next]_vars PROVE SettledInv'
  OBVIOUS
<1>1. ASSUME UNCHANGED pass, UNCHANGED rows \/ (\E u \in Tickets : TriggerRun(u) \/ End(u, "failed"))
      PROVE  SettledInv'
  BY <1>1, SettledStays
<1>2. CASE PollNothing \/ PollDone \/ PollFails
  <2>1. UNCHANGED rows /\ ToRelease("candidates")
    BY <1>2 DEF PollNothing, PollDone, PollFails
  <2>2. \A p \in Passes : pass'[p] = pass[p] \/ pass'[p].pc = "candidates"
    BY <2>1, IdleTyped DEF ToRelease, Typed, PassTyped, PassRecord
  <2> QED
    BY <2>1, <2>2, SettledStays
<1>3. CASE UNCHANGED vars \/ SprintSwitch \/ PollSearch
  BY <1>1, <1>3 DEF vars, SprintSwitch, PollSearch
<1>4. ASSUME NEW t \in Tickets, HumanMoves(t) \/ RunStarted(t) \/ RunFails(t) PROVE SettledInv'
  BY <1>1, <1>4 DEF HumanMoves, RunStarted, RunFails
<1>5. ASSUME NEW t \in Tickets, Diff(t) \/ DiffFails(t) PROVE SettledInv'
  BY <1>1, <1>5 DEF Diff, DiffFails, OnStatusChanged
<1> QED
  BY <1>2, <1>3, <1>4, <1>5, SettledNoted, ReleaseSettled DEF Next, PollStepNext

\* What a release triggers is the candidate it evaluates.
LEMMA TriggeredWasCandidate ==
  ASSUME Typed, [Next]_vars, NEW p \in Passes, NEW t \in Tickets,
         At(p, "loop"), pass'[p].pc = "clear", pass'[p].ticket = t
  PROVE  t \in pass[p].todo
<1> USE DEF Typed, PassTyped, At
<1>1. pass'[p] # pass[p] /\ pass[p] \in PassRecord
  OBVIOUS
<1>2. \A q \in Passes : ReleaseStep(q) \/ ReleaseFails(q) => q = p
  BY <1>1 DEF ReleaseStep, ReadCandidates, Fetch, EvaluateGate, ClearReleased, Probe, MarkWaiting,
     ReleaseFails, Set
<1>3. \A r : Set(p, r) => pass'[p] = r
  BY DEF Set
<1>4. CASE EvaluateGate(p)
  <2>1. First(pass[p].todo) \in pass[p].todo
    BY <1>1, <1>4, FirstIn DEF EvaluateGate, PassRecord
  <2> QED
    BY <1>1, <1>3, <1>4, <2>1 DEF EvaluateGate, PassRecord
<1>5. CASE ReleaseFails(p)
  BY <1>3, <1>5 DEF ReleaseFails, PassIdle
<1>6. CASE Probe(p)
  <2>1. PassIdle.pc = "idle"
    BY DEF PassIdle
  <2>2. \/ pass'[p] = PassIdle
        \/ pass'[p] = [pass[p] EXCEPT !.pc = "mark", !.todo = pass[p].blocked,
                         !.dead = {b \in Blockers(p) : board[b] = "rejected"},
                         !.scope = {b \in Blockers(p) : InSprints(b, sprints)}]
    BY <1>3, <1>6 DEF Probe
  <2> QED
    BY <1>1, <2>1, <2>2 DEF PassRecord
<1>7. ~ToRelease("candidates")
  BY <1>1, IdleTyped DEF ToRelease, PassRecord
<1>8. \A u \in Tickets : ~(RunSucceeds(u) \/ RunCancelled(u))
  <2>1. \A u \in Tickets : [PassIdle EXCEPT !.pc = "candidates", !.ticket = u].pc # "clear"
    BY IdleTyped DEF PassRecord
  <2>2. \A u \in Tickets : Settle(p, u).pc = pass[p].pc
    BY <1>1 DEF Settle, PassRecord
  <2> QED
    BY <2>1, <2>2 DEF RunSucceeds, RunCancelled
<1>9. ReleaseStep(p) \/ ReleaseFails(p)
  BY <1>1, <1>2, <1>7, <1>8 DEF Next, PollStepNext, vars, SprintSwitch, PollNothing, PollSearch,
     PollDone, PollFails, Diff, DiffFails, HumanMoves, RunStarted, RunFails
<1> QED
  BY <1>4, <1>5, <1>6, <1>9 DEF ReleaseStep, ReadCandidates, Fetch, ClearReleased, MarkWaiting

\* candidates of the release ("a human's cancel must STICK"): a release triggers no pair whose run
\* had succeeded or been cancelled when its candidates were read, by the reconcile pass or by the
\* fast path, for any number of tickets and any interleaving.
THEOREM FlowSettledNotRerun == Spec => SettledNotRerun
<1> DEFINE Step == \A p \in Passes, t \in Tickets :
                     /\ At(p, "loop") /\ pass'[p].pc = "clear" /\ pass'[p].ticket = t
                     => rows[t] \cap {"succeeded", "cancelled"} = {} \/ t \in pass[p].settled
<1>1. Init => SettledInv
  BY DEF Init, SettledInv, PassIdle
<1>2. Spec => [](Typed /\ SettledInv)
  BY <1>1, TypeInit, TypeNext, SettledNext, PTL DEF Spec
<1>3. Typed /\ SettledInv /\ [Next]_vars => [Step]_vars
  BY TriggeredWasCandidate DEF SettledInv, Ended, At
<1> QED
  BY <1>2, <1>3, PTL DEF Spec, SettledNotRerun
=============================================================================
