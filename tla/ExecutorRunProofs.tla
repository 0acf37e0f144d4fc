--------------------------- MODULE ExecutorRunProofs ---------------------------
(***************************************************************************)
(* run() of the executor, for any number of runs, tasks, repositories,     *)
(* tries and faults: it hands the agent only the worktrees it has added,   *)
(* it starts where it must, and it ends with the outcome that happened.    *)
(*                                                                         *)
(* The operators come first: what a sequence keeps when it is filtered or  *)
(* flattened, what is mounted, whose work is usable, and that a plan       *)
(* accounts for every open blocker (PlannedAccounted) and continues the    *)
(* ticket's own branches (PlannedContinued).  Then the process: ProcSound  *)
(* says that a close that waits can only report a rate limit and that one  *)
(* that is done has the right result.  Inv puts them together, run by run: *)
(* FreshTrees is not inductive without the repositories already passed     *)
(* (TreeOk), StartPoints without the refs that were planned on (PlanOk),   *)
(* ExitClean without where the token file may be (TokenOk) and what the    *)
(* process was when run() left it (OutOk, ProcOk).  A step of one run      *)
(* leaves the others alone, so each action is proved for its run (Framed). *)
(***************************************************************************)
EXTENDS ExecutorRun, SequenceTheorems, WellFoundedInduction, TLAPS

\* The smallest of a set of numbers.
LEMMA Smallest ==
  ASSUME NEW K \in SUBSET Nat, K # {}
  PROVE  \E m \in K : \A k \in K : m <= k
<1>1. \E m \in K : \A k \in K : ~ (<<k, m>> \in OpToRel(<, Nat))
  BY NatLessThanWellFounded, WFMin, Zenon
<1>2. PICK m \in K : \A k \in K : ~ (<<k, m>> \in OpToRel(<, Nat))
  BY <1>1
<1>3. \A k \in K : ~(k < m)
  BY <1>2 DEF OpToRel
<1>4. \A k \in K : m <= k
  BY <1>3
<1> QED
  BY <1>4

\* Sequences put one after the other have what each of them has.
LEMMA FlattenFacts ==
  ASSUME NEW S, NEW ss \in Seq(Seq(S))
  PROVE  /\ FlattenSeq(ss) \in Seq(S)
         /\ ToSet(FlattenSeq(ss)) = UNION {ToSet(ss[i]) : i \in 1..Len(ss)}
<1> DEFINE n == Len(ss)
           Is(f, m) == f = [i \in 1..m |-> IF i = 1 THEN ss[i] ELSE f[i-1] \o ss[i]]
           Has(f, m) == /\ f[m] \in Seq(S)
                        /\ \A v : v \in ToSet(f[m]) <=> \E i \in 1..m : v \in ToSet(ss[i])
<1>1. n \in Nat /\ \A i \in 1..n : ss[i] \in Seq(S)
  OBVIOUS
<1>2. CASE n = 0
  <2>1. ss = <<>> /\ FlattenSeq(ss) = ss
    BY <1>2 DEF FlattenSeq
  <2>2. ToSet(ss) = {} /\ 1..Len(ss) = {}
    BY <1>2 DEF ToSet
  <2>3. \A T : <<>> \in Seq(T)
    OBVIOUS
  <2>4. FlattenSeq(ss) \in Seq(S)
    BY <2>1, <2>3, Zenon
  <2> QED
    BY <2>1, <2>2, <2>4
<1>3. CASE n # 0
  <2>1. \A m \in 1..n : \E f : Is(f, m)
    <3> HIDE DEF Is
    <3>0. PICK B : B = {m \in 1..n : ~ \E f : Is(f, m)}
      OBVIOUS
    <3> SUFFICES ASSUME B # {} PROVE FALSE
      BY <3>0
    <3>1. PICK m \in B : \A k \in B : m <= k
      <4>1. B \in SUBSET Nat
        BY <1>1, <3>0
      <4> QED
        BY <4>1, Smallest, Zenon
    <3>2. CASE m = 1
      <4>1. PICK f : f = [i \in 1..1 |-> ss[1]]
        OBVIOUS
      <4>2. Is(f, 1)
        BY <4>1 DEF Is
      <4> QED
        BY <3>0, <3>1, <3>2, <4>2
    <3>3. CASE m # 1
      <4>1. m - 1 \in 1..n /\ m - 1 \notin B
        <5>1. m \in 1..n
          BY <3>0
        <5>2. m - 1 \in 1..n /\ ~(m <= m - 1)
          BY <1>1, <3>3, <5>1
        <5> QED
          BY <3>1, <5>2
      <4>2. PICK f : Is(f, m - 1)
        BY <3>0, <4>1
      <4>3. PICK g : g = [i \in 1..m |-> IF i = m THEN f[m-1] \o ss[m] ELSE f[i]]
        OBVIOUS
      <4>4. m \in Nat /\ m > 1
        BY <1>1, <3>0, <3>1, <3>3
      <4>5. \A i \in 1..m : g[i] = IF i = 1 THEN ss[i] ELSE g[i-1] \o ss[i]
        <5> SUFFICES ASSUME NEW i \in 1..m PROVE g[i] = IF i = 1 THEN ss[i] ELSE g[i-1] \o ss[i]
          OBVIOUS
        <5>1. CASE i = m
          <6>1. m - 1 \in 1..m /\ m - 1 # m /\ m \in 1..m /\ m # 1
            BY <4>4
          <6>2. g[m] = f[m-1] \o ss[m] /\ g[m-1] = f[m-1]
            BY <4>3, <6>1
          <6> QED
            BY <5>1, <6>1, <6>2
        <5>2. CASE i # m
          <6>1. i \in 1..(m-1) /\ g[i] = f[i]
            BY <4>3, <4>4, <5>2
          <6>2. f[i] = IF i = 1 THEN ss[i] ELSE f[i-1] \o ss[i]
            BY <4>2, <6>1 DEF Is
          <6>3. i # 1 => i - 1 \in 1..m /\ i - 1 # m /\ g[i-1] = f[i-1]
            BY <4>3, <4>4, <5>2
          <6> QED
            BY <6>1, <6>2, <6>3
        <5> QED
          BY <5>1, <5>2
      <4>6. Is(g, m)
        BY <4>3, <4>5 DEF Is
      <4> QED
        BY <3>0, <3>1, <4>6
    <3> QED
      BY <3>2, <3>3
  <2>2. PICK F : F = CHOOSE f : Is(f, n)
    OBVIOUS
  <2>3. Is(F, n)
    <3>1. n \in 1..n
      BY <1>1, <1>3
    <3>2. \E f : Is(f, n)
      BY <2>1, <3>1
    <3> HIDE DEF Is
    <3> QED
      BY <2>2, <3>2, Zenon
  <2>4. FlattenSeq(ss) = F[n]
    BY <1>3, <2>2 DEF FlattenSeq
  <2>5. \A m \in 1..n : Has(F, m)
    <3> HIDE DEF Has
    <3>0. PICK B : B = {m \in 1..n : ~Has(F, m)}
      OBVIOUS
    <3> SUFFICES ASSUME B # {} PROVE FALSE
      BY <3>0
    <3>1. PICK m \in B : \A k \in B : m <= k
      <4>1. B \in SUBSET Nat
        BY <1>1, <3>0
      <4> QED
        BY <4>1, Smallest, Zenon
    <3>2. CASE m = 1
      <4>1. F[1] = ss[1] /\ 1..1 = {1}
        BY <1>1, <1>3, <2>3
      <4>2. Has(F, 1)
        BY <1>1, <1>3, <4>1 DEF Has
      <4> QED
        BY <3>0, <3>1, <3>2, <4>2
    <3>3. CASE m # 1
      <4>1. m - 1 \in 1..n /\ m - 1 \notin B /\ m \in 1..n
        BY <1>1, <3>0, <3>1, <3>3
      <4>2. Has(F, m - 1)
        BY <3>0, <4>1
      <4>3. F[m] = F[m-1] \o ss[m]
        BY <1>1, <2>3, <3>3, <4>1
      <4>4. PICK s, t : s = F[m-1] /\ t = ss[m]
        OBVIOUS
      <4>5. s \in Seq(S) /\ t \in Seq(S)
        BY <1>1, <4>1, <4>2, <4>4 DEF Has
      <4>6. s \o t \in Seq(S) /\ \A v : v \in ToSet(s \o t) <=> v \in ToSet(s) \/ v \in ToSet(t)
        <5>1. /\ Len(s \o t) = Len(s) + Len(t) /\ s \o t \in Seq(S)
              /\ Len(s) \in Nat /\ Len(t) \in Nat
              /\ \A i \in 1..(Len(s) + Len(t)) :
                   (s \o t)[i] = IF i <= Len(s) THEN s[i] ELSE t[i - Len(s)]
          BY <4>5, ConcatProperties
        <5>2. DOMAIN s = 1..Len(s) /\ DOMAIN t = 1..Len(t) /\ DOMAIN (s \o t) = 1..(Len(s) + Len(t))
          BY <4>5, <5>1
        <5>3. ASSUME NEW v, v \in ToSet(s \o t) PROVE v \in ToSet(s) \/ v \in ToSet(t)
          <6>1. PICK i \in 1..(Len(s) + Len(t)) : v = (s \o t)[i]
            BY <5>2, <5>3 DEF ToSet
          <6>2. CASE i <= Len(s)
            <7>1. i \in 1..Len(s) /\ v = s[i]
              BY <5>1, <6>1, <6>2
            <7> QED
              BY <5>2, <7>1 DEF ToSet
          <6>3. CASE ~(i <= Len(s))
            <7>1. i - Len(s) \in 1..Len(t) /\ v = t[i - Len(s)]
              BY <5>1, <6>1, <6>3
            <7> QED
              BY <5>2, <7>1 DEF ToSet
          <6> QED
            BY <6>2, <6>3
        <5>4. ASSUME NEW v, v \in ToSet(s) PROVE v \in ToSet(s \o t)
          <6>1. PICK i \in 1..Len(s) : v = s[i]
            BY <5>2, <5>4 DEF ToSet
          <6>2. i \in 1..(Len(s) + Len(t)) /\ (s \o t)[i] = v
            BY <5>1, <6>1
          <6> QED
            BY <5>2, <6>2 DEF ToSet
        <5>5. ASSUME NEW v, v \in ToSet(t) PROVE v \in ToSet(s \o t)
          <6>1. PICK i \in 1..Len(t) : v = t[i]
            BY <5>2, <5>5 DEF ToSet
          <6>2. /\ i + Len(s) \in 1..(Len(s) + Len(t)) /\ ~(i + Len(s) <= Len(s))
                /\ (i + Len(s)) - Len(s) = i
            BY <5>1, <6>1
          <6>3. (s \o t)[i + Len(s)] = v
            BY <5>1, <6>1, <6>2
          <6> QED
            BY <5>2, <6>2, <6>3 DEF ToSet
        <5> QED
          BY <5>1, <5>3, <5>4, <5>5
      <4>7. \A v : v \in ToSet(F[m]) <=> \E i \in 1..m : v \in ToSet(ss[i])
        <5>1. 1..m = (1..(m-1)) \cup {m}
          BY <1>1, <4>1
        <5> QED
          BY <4>2, <4>3, <4>4, <4>6, <5>1 DEF Has
      <4>8. Has(F, m)
        BY <4>3, <4>4, <4>6, <4>7 DEF Has
      <4> QED
        BY <3>0, <3>1, <4>8
    <3> QED
      BY <3>2, <3>3
  <2>6. Has(F, n)
    <3>1. n \in 1..n
      BY <1>1, <1>3
    <3> HIDE DEF Has
    <3> QED
      BY <2>5, <3>1
  <2> QED
    BY <2>4, <2>6
<1> QED
  BY <1>2, <1>3

\* The empty sequence, by name.
LEMMA EmptyOf ==
  ASSUME NEW S
  PROVE  \E no : no = <<>> /\ no \in Seq(S) /\ DOMAIN no = {}
<1>1. \A T : <<>> \in Seq(T)
  OBVIOUS
<1>2. <<>> \in Seq(S)
  BY <1>1, Zenon
<1>3. DOMAIN <<>> = {}
  OBVIOUS
<1> QED
  BY <1>2, <1>3, Zenon

\* Array.filter keeps what it is asked for, and nothing else.
LEMMA ThoseFacts ==
  ASSUME NEW S, NEW s \in Seq(S), NEW T
  PROVE  /\ Those(s, T) \in Seq(S) /\ ToSet(Those(s, T)) = ToSet(s) \cap T
         /\ Those(s, T) = <<>> => ToSet(s) \cap T = {}
<1>1. PICK ss : ss = [i \in 1..Len(s) |-> IF s[i] \in T THEN <<s[i]>> ELSE <<>>]
  OBVIOUS
<1>2. PICK n \in Nat : n = Len(s) /\ DOMAIN s = 1..n /\ \A i \in 1..n : s[i] \in S
  OBVIOUS
<1>3. \A i \in 1..n : ss[i] \in Seq(S) /\ \A v : v \in ToSet(ss[i]) <=> (v = s[i] /\ v \in T)
  <2> SUFFICES ASSUME NEW i \in 1..n
               PROVE  ss[i] \in Seq(S) /\ \A v : v \in ToSet(ss[i]) <=> (v = s[i] /\ v \in T)
    OBVIOUS
  <2>1. CASE s[i] \in T
    <3>1. PICK x \in S : x = s[i]
      BY <1>2
    <3>2. ss[i] = <<x>>
      BY <1>1, <1>2, <2>1, <3>1
    <3>3. <<x>> \in Seq(S) /\ DOMAIN <<x>> = {1} /\ <<x>>[1] = x
      OBVIOUS
    <3> QED
      BY <2>1, <3>1, <3>2, <3>3 DEF ToSet
  <2>2. CASE s[i] \notin T
    <3>1. PICK no : no = <<>> /\ no \in Seq(S) /\ DOMAIN no = {}
      BY EmptyOf, Zenon
    <3>2. ss[i] = no
      BY <1>1, <1>2, <2>2, <3>1
    <3> QED
      BY <2>2, <3>1, <3>2 DEF ToSet
  <2> QED
    BY <2>1, <2>2
<1>4. ss \in Seq(Seq(S)) /\ Len(ss) = n
  <2>1. ss \in [1..n -> Seq(S)]
    BY <1>1, <1>2, <1>3
  <2> QED
    BY <2>1
<1>5. PICK r : r = FlattenSeq(ss) /\ r \in Seq(S) /\ ToSet(r) = UNION {ToSet(ss[i]) : i \in 1..n}
  BY <1>4, FlattenFacts
<1>6. Those(s, T) = r
  BY <1>1, <1>5 DEF Those
<1>7. \A v : v \in ToSet(r) <=> v \in ToSet(s) \cap T
  <2>1. \A v : v \in ToSet(r) <=> \E i \in 1..n : v \in ToSet(ss[i])
    BY <1>5
  <2>2. \A v : v \in ToSet(s) <=> \E i \in 1..n : v = s[i]
    BY <1>2 DEF ToSet
  <2> QED
    BY <1>3, <2>1, <2>2
<1>8. r = <<>> => ToSet(r) = {}
  BY DEF ToSet
<1> QED
  BY <1>5, <1>6, <1>7, <1>8

\* pickWorkspaceRepositories: repositories of the workspace, and at least one unless it fails.
LEMMA PickedFacts ==
  ASSUME NEW t \in TaskType
  PROVE  Picked(t) \in Seq(Repos) /\ (~PickFails(t) => Picked(t) # <<>>)
<1>1. PICK s, names : s = t.declared /\ names = t.names /\ s \in Seq(Repos)
  BY DEF TaskType
<1>2. CASE names = {}
  BY <1>1, <1>2 DEF Picked, PickFails
<1>3. CASE names # {}
  <2>1. Picked(t) = Those(s, names)
    BY <1>1, <1>3 DEF Picked
  <2>2. ~PickFails(t) => ToSet(s) \cap names # {}
    BY <1>1, <1>3 DEF PickFails
  <2> QED
    BY <1>1, <2>1, <2>2, ThoseFacts
<1> QED
  BY <1>2, <1>3

\* What is mounted are repositories of the workspace, and a run of a ticket mounts one at least.
LEMMA MountedFacts ==
  ASSUME NEW t \in TaskType
  PROVE  /\ Mounted(t) \in Seq(Repos)
         /\ t.kind = "ticket" /\ Scope(t).kind = "resolved" => Mounted(t) # <<>>
<1>1. PICK base : base = Picked(t) /\ base \in Seq(Repos) /\ (~PickFails(t) => base # <<>>)
  BY PickedFacts
<1>2. PICK no : no = <<>> /\ no \in Seq(Repos)
  BY EmptyOf, Zenon
<1>3. PICK sc : sc = Scope(t) /\ Mounted(t) = sc.repos
  BY DEF Mounted
<1>4. t.kind \in {"ticket", "setup", "triage"}
  BY DEF TaskType
<1>5. CASE t.kind = "triage"
  BY <1>2, <1>3, <1>5 DEF Scope
<1>6. CASE t.kind = "setup"
  <2>1. sc.repos = IF PickFails(t) THEN no ELSE SubSeq(base, 1, 1)
    BY <1>1, <1>2, <1>3, <1>6 DEF Scope
  <2>2. ~PickFails(t) => SubSeq(base, 1, 1) \in Seq(Repos)
    BY <1>1
  <2> QED
    BY <1>2, <1>3, <1>6, <2>1, <2>2
<1>7. CASE t.kind = "ticket" /\ PickFails(t)
  BY <1>2, <1>3, <1>7 DEF Scope
<1>8. CASE t.kind = "ticket" /\ ~PickFails(t)
  <2>1. PICK hit : hit = Those(base, t.comps \cap ToSet(t.declared)) /\ hit \in Seq(Repos)
    BY <1>1, ThoseFacts
  <2>2. sc = Narrow(t)
    BY <1>3, <1>8 DEF Scope
  <2>3. sc = IF ~t.scoping \/ Len(base) <= 1 THEN [kind |-> "resolved", repos |-> base]
             ELSE IF t.comps = Unreadable THEN [kind |-> "crashed", repos |-> no]
             ELSE IF hit = no THEN [kind |-> "parked", repos |-> no]
             ELSE [kind |-> "resolved", repos |-> hit]
    BY <1>1, <1>2, <2>1, <2>2 DEF Narrow
  <2> QED
    BY <1>1, <1>2, <1>3, <1>8, <2>1, <2>3
<1> QED
  BY <1>4, <1>5, <1>6, <1>7, <1>8

\* SelectInSeq, when it finds something, finds it where it is.
LEMMA SmallestIn ==
  ASSUME NEW K \in SUBSET Nat, K # {}
  PROVE  Min(K) \in K
<1>1. \E m \in K : \A k \in K : m <= k
  BY Smallest
<1> QED
  BY <1>1 DEF Min

\* branchEntries, getPriorWork, getBlockerWork: entries of reports.
LEMMA WorkFacts ==
  /\ \A reports \in Seq(Seq(EntryType)) : Usable(reports) \in Seq(EntryType)
  /\ \A t \in TaskType : PriorWork(t) \in Seq(EntryType)
  /\ \A b \in BlockerType : WorkOf(b) \in Seq(EntryType)
<1>1. PICK no : no = <<>> /\ no \in Seq(EntryType)
  BY EmptyOf, Zenon
<1>2. ASSUME NEW reports \in Seq(Seq(EntryType)) PROVE Usable(reports) \in Seq(EntryType)
  <2>1. PICK w : w = SubSeq(reports, 1, IF Len(reports) < Window THEN Len(reports) ELSE Window)
    OBVIOUS
  <2>2. w \in Seq(Seq(EntryType))
    BY <2>1, WindowAssumption
  <2>3. PICK K : K = {i \in 1..Len(w) : w[i] # <<>>}
    OBVIOUS
  <2>4. Len(w) \in Nat /\ K \subseteq Nat
    BY <2>2, <2>3
  <2>5. PICK i : i = IF K # {} THEN Min(K) ELSE 0
    OBVIOUS
  <2>6. Usable(reports) = IF i = 0 THEN no ELSE w[i]
    BY <1>1, <2>1, <2>3, <2>5 DEF Usable, SelectInSeq
  <2>7. i # 0 => i \in 1..Len(w)
    BY <2>3, <2>4, <2>5, SmallestIn
  <2> QED
    BY <1>1, <2>2, <2>6, <2>7
<1>3. ASSUME NEW t \in TaskType PROVE PriorWork(t) \in Seq(EntryType)
  <2>1. t.prefer \in Seq(EntryType) /\ t.own \in Seq(Seq(EntryType))
    BY DEF TaskType
  <2>2. PICK own : own = Usable(t.own) /\ own \in Seq(EntryType)
    BY <1>2, <2>1
  <2>3. PriorWork(t) = IF t.kind # "ticket" THEN no ELSE IF t.prefer # no THEN t.prefer ELSE own
    BY <1>1, <2>2 DEF PriorWork
  <2> QED
    BY <1>1, <2>1, <2>2, <2>3
<1>4. ASSUME NEW b \in BlockerType PROVE WorkOf(b) \in Seq(EntryType)
  <2>1. b.reports \in Seq(Seq(EntryType))
    BY DEF BlockerType
  <2>2. PICK work : work = Usable(b.reports) /\ work \in Seq(EntryType)
    BY <1>2, <2>1
  <2>3. WorkOf(b) = IF b.observed THEN work ELSE no
    BY <1>1, <2>2 DEF WorkOf
  <2> QED
    BY <1>1, <2>2, <2>3
<1> QED
  BY <1>2, <1>3, <1>4

\* matchReportedBranches: a repository has a branch of the ticket's own as soon as an entry is about
\* it, and then it is one of those branches.
LEMMA OwnFacts ==
  ASSUME NEW t \in TaskType, NEW repo
  PROVE  /\ OwnBranch(t, repo) # None =>
              \E o \in ToSet(PriorWork(t)) :
                RepoOf(o, Mounted(t)) = repo /\ OwnBranch(t, repo) = o.branch
         /\ OwnBranch(t, repo) = None =>
              \A o \in ToSet(PriorWork(t)) : RepoOf(o, Mounted(t)) # repo
<1>1. PICK work : work = PriorWork(t) /\ work \in Seq(EntryType)
  BY WorkFacts
<1>2. PICK K : K = {i \in 1..Len(work) : RepoOf(work[i], Mounted(t)) = repo}
  OBVIOUS
<1>3. PICK i : i = IF K # {} THEN Min(K) ELSE 0
  OBVIOUS
<1>4. OwnBranch(t, repo) = IF i = 0 THEN None ELSE work[i].branch
  BY <1>1, <1>2, <1>3 DEF OwnBranch, SelectInSeq
<1>5. Len(work) \in Nat /\ K \subseteq Nat /\ DOMAIN work = 1..Len(work)
  BY <1>1, <1>2
<1>6. K # {} => i \in K /\ i # 0
  BY <1>2, <1>3, <1>5, SmallestIn
<1>7. CASE K = {}
  <2>1. \A o \in ToSet(work) : RepoOf(o, Mounted(t)) # repo
    BY <1>2, <1>5, <1>7 DEF ToSet
  <2> QED
    BY <1>1, <1>3, <1>4, <1>7, <2>1
<1>8. CASE K # {}
  <2>1. i \in 1..Len(work) /\ RepoOf(work[i], Mounted(t)) = repo
    BY <1>2, <1>6, <1>8
  <2>2. work[i] \in EntryType /\ work[i] \in ToSet(work)
    BY <1>1, <1>5, <2>1 DEF ToSet
  <2>3. work[i].branch # None
    BY <2>2 DEF EntryType
  <2> QED
    BY <1>1, <1>4, <1>6, <1>8, <2>1, <2>2, <2>3
<1> QED
  BY <1>7, <1>8

\* The entry mounted nowhere, or somewhere that is mounted.
LEMMA RepoFacts ==
  ASSUME NEW t \in TaskType, NEW e, RepoOf(e, Mounted(t)) # None
  PROVE  RepoOf(e, Mounted(t)) \in ToSet(Mounted(t)) /\ RepoOf(e, Mounted(t)) \in Repos
<1>1. PICK repos : repos = Mounted(t) /\ repos \in Seq(Repos)
  BY MountedFacts
<1>2. Len(repos) \in Nat /\ DOMAIN repos = 1..Len(repos) /\ \A i \in 1..Len(repos) : repos[i] \in Repos
  BY <1>1
<1>3. Len(repos) = 1 => repos[1] \in ToSet(repos)
  BY <1>2 DEF ToSet
<1>4. RepoOf(e, repos) # None => RepoOf(e, repos) \in ToSet(repos)
  BY <1>3 DEF RepoOf
<1>5. \A x \in ToSet(repos) : x \in Repos
  BY <1>2 DEF ToSet
<1> QED
  BY <1>1, <1>4, <1>5

\* The entry j of the report of blocker i, as Reported has it.
Item(t, i, j) ==
  [at |-> <<i, j>>, key |-> Blockers(t)[i].key,
   repo |-> RepoOf(WorkOf(Blockers(t)[i])[j], Mounted(t)),
   branch |-> WorkOf(Blockers(t)[i])[j].branch]

\* getBlockerWork: every entry of every blocker is among what was reported, and nothing else.
LEMMA ReportedFacts ==
  ASSUME NEW t
  PROVE  /\ \A i \in 1..Len(Blockers(t)) : \A j \in 1..Len(WorkOf(Blockers(t)[i])) :
              Item(t, i, j) \in Reported(t)
         /\ \A y \in Reported(t) :
              \E i \in 1..Len(Blockers(t)) : \E j \in 1..Len(WorkOf(Blockers(t)[i])) :
                y = Item(t, i, j)
<1>1. PICK R : R = [i \in 1..Len(Blockers(t)) |->
                      {Item(t, i, j) : j \in 1..Len(WorkOf(Blockers(t)[i]))}]
  OBVIOUS
<1>2. Reported(t) = UNION {R[i] : i \in 1..Len(Blockers(t))}
  BY <1>1 DEF Reported, Item
<1> QED
  BY <1>1, <1>2

\* buildStartPlan: a branch that is reported is reported first by some entry, not after any other.
LEMMA DistinctFacts ==
  ASSUME NEW items, \A x \in items : x.at[1] \in Nat /\ x.at[2] \in Nat, NEW x \in items
  PROVE  \E y \in Distinct(items) : y.branch = x.branch /\ ~Before(x.at, y.at)
<1>1. PICK S : S = {y \in items : y.branch = x.branch}
  OBVIOUS
<1>2. PICK m \in {y.at[1] : y \in S} : \A k \in {y.at[1] : y \in S} : m <= k
  <2>1. {y.at[1] : y \in S} \in SUBSET Nat /\ {y.at[1] : y \in S} # {}
    BY <1>1
  <2> QED
    BY <2>1, Smallest, Zenon
<1>3. PICK P : P = {y \in S : y.at[1] = m}
  OBVIOUS
<1>4. PICK n \in {y.at[2] : y \in P} : \A k \in {y.at[2] : y \in P} : n <= k
  <2>1. {y.at[2] : y \in P} \in SUBSET Nat /\ {y.at[2] : y \in P} # {}
    BY <1>1, <1>2, <1>3, SMTT(30)
  <2> QED
    BY <2>1, Smallest, Zenon
<1>5. PICK y \in P : y.at[2] = n
  BY <1>4
<1>6. y \in items /\ y.branch = x.branch /\ y.at[1] = m /\ m \in Nat /\ n \in Nat
  BY <1>1, <1>3, <1>5
<1>7. \A z \in S : ~Before(z.at, y.at)
  <2> SUFFICES ASSUME NEW z \in S PROVE ~Before(z.at, y.at)
    OBVIOUS
  <2>1. z.at[1] \in Nat /\ z.at[2] \in Nat /\ m <= z.at[1]
    BY <1>1, <1>2
  <2>2. z.at[1] = m => n <= z.at[2]
    BY <1>3, <1>4
  <2> QED
    BY <1>5, <1>6, <2>1, <2>2 DEF Before
<1>8. y \in Distinct(items)
  BY <1>1, <1>6, <1>7 DEF Distinct
<1>9. ~Before(x.at, y.at)
  BY <1>1, <1>7
<1> QED
  BY <1>6, <1>8, <1>9

\* OpenBlockersAccounted of one task.
Accounted(t, want1, told1) ==
  \A i \in 1..Len(Blockers(t)) :
    LET b == Blockers(t)[i] IN
    b.done \/ <<"lost", b.key>> \in told1 \/
    /\ WorkOf(b) # <<>>
    /\ \A e \in ToSet(WorkOf(b)) :
         LET repo == RepoOf(e, Mounted(t)) IN
         \/ repo = None /\ <<"unmounted", b.key>> \in told1
         \/ /\ repo # None
            /\ \/ e.branch \in want1[repo]
               \/ \E o \in ToSet(PriorWork(t)) : RepoOf(o, Mounted(t)) = repo
               \/ \E j \in 1..(i-1) : \E f \in ToSet(WorkOf(Blockers(t)[j])) :
                    f.branch = e.branch /\ RepoOf(f, Mounted(t)) = repo

\* OwnWorkContinued of one task.
OwnContinued(t, want1) ==
  \A e \in ToSet(PriorWork(t)) :
    LET repo == RepoOf(e, Mounted(t)) IN
      repo # None => \E f \in ToSet(PriorWork(t)) :
                       RepoOf(f, Mounted(t)) = repo /\ want1[repo] = {f.branch}

\* A ticket is named once among the blockers.
OneKeyEach(t) ==
  \A i, j \in 1..Len(t.blockers) : t.blockers[i].key = t.blockers[j].key => i = j

\* What resolveInheritance plans on the refs it has read, and whom it tells.
Planned(t, want1, told1) ==
  \E refs : /\ want1 = [repo \in Repos |-> IF repo \in ToSet(Mounted(t))
                                           THEN Branches(t, repo, refs[repo]) ELSE {}]
            /\ Told(t, refs) \subseteq told1

\* An entry of an open blocker is planned, or is told of.
LEMMA EntryAccounted ==
  ASSUME NEW t \in TaskType, NEW refs, NEW told1, Told(t, refs) \subseteq told1,
         NEW i \in 1..Len(Blockers(t)), NEW j \in 1..Len(WorkOf(Blockers(t)[i])),
         Blockers(t) \in Seq(BlockerType),
         ~IsDone(t, Blockers(t)[i].key), NEW repo, repo = Item(t, i, j).repo
  PROVE  \/ <<"lost", Blockers(t)[i].key>> \in told1
         \/ repo = None /\ <<"unmounted", Blockers(t)[i].key>> \in told1
         \/ /\ repo # None
            /\ \/ Item(t, i, j).branch \in Branches(t, repo, refs[repo])
               \/ \E o \in ToSet(PriorWork(t)) : RepoOf(o, Mounted(t)) = repo
               \/ \E h \in 1..(i-1) : \E f \in ToSet(WorkOf(Blockers(t)[h])) :
                    f.branch = Item(t, i, j).branch /\ RepoOf(f, Mounted(t)) = repo
<1>1. PICK key, x : key = Blockers(t)[i].key /\ x = Item(t, i, j)
  OBVIOUS
<1>2. x \in Reported(t) /\ x.key = key /\ x.at = <<i, j>> /\ x.repo = repo
  BY <1>1, ReportedFacts DEF Item
<1>3. CASE repo = None
  <2>1. key \in Unmounted(t)
    BY <1>2, <1>3 DEF Unmounted
  <2>2. <<"unmounted", key>> \in Told(t, refs)
    BY <2>1 DEF Told
  <2> QED
    BY <1>1, <1>3, <2>2
<1>4. CASE repo # None /\ OwnBranch(t, repo) # None
  BY <1>4, OwnFacts
<1>5. CASE repo # None /\ OwnBranch(t, repo) = None
  <2>1. PICK items : items = {y \in Reported(t) : y.repo = repo}
    OBVIOUS
  <2>2. Plan(t, repo) = Distinct(items)
    BY <1>5, <2>1 DEF Plan
  <2>3. \A y \in items : y.at[1] \in Nat /\ y.at[2] \in Nat
    <3> SUFFICES ASSUME NEW y \in items PROVE y.at[1] \in Nat /\ y.at[2] \in Nat
      OBVIOUS
    <3>1. PICK h \in 1..Len(Blockers(t)) : \E k \in 1..Len(WorkOf(Blockers(t)[h])) : y = Item(t, h, k)
      BY <2>1, ReportedFacts
    <3>2. PICK k \in 1..Len(WorkOf(Blockers(t)[h])) : y = Item(t, h, k)
      BY <3>1
    <3>3. y.at = <<h, k>>
      BY <3>2 DEF Item
    <3> QED
      BY <3>3
  <2>4. PICK y \in Distinct(items) : y.branch = x.branch /\ ~Before(x.at, y.at)
    BY <1>2, <2>1, <2>3, DistinctFacts
  <2>5. y \in Reported(t) /\ y.repo = repo /\ y \in Plan(t, repo)
    BY <2>1, <2>2, <2>4 DEF Distinct
  <2>6. PICK h \in 1..Len(Blockers(t)) : \E k \in 1..Len(WorkOf(Blockers(t)[h])) : y = Item(t, h, k)
    BY <2>5, ReportedFacts
  <2>7. PICK k \in 1..Len(WorkOf(Blockers(t)[h])) : y = Item(t, h, k)
    BY <2>6
  <2>8. PICK f : f = WorkOf(Blockers(t)[h])[k]
    OBVIOUS
  <2>9. /\ y.at = <<h, k>> /\ y.key = Blockers(t)[h].key
        /\ RepoOf(f, Mounted(t)) = repo /\ y.branch = f.branch
    BY <2>5, <2>7, <2>8 DEF Item
  <2>10. f \in ToSet(WorkOf(Blockers(t)[h]))
    <3>1. Blockers(t)[h] \in BlockerType
      OBVIOUS
    <3>2. PICK work : work = WorkOf(Blockers(t)[h]) /\ work \in Seq(EntryType)
      BY <3>1, WorkFacts
    <3>3. DOMAIN work = 1..Len(work)
      BY <3>2
    <3> QED
      BY <2>8, <3>2, <3>3 DEF ToSet
  <2>11. h \in Nat /\ i \in Nat /\ ~(i < h)
    BY <1>2, <2>4, <2>9 DEF Before
  <2>12. CASE h < i
    <3>1. h \in 1..(i-1)
      BY <2>11, <2>12
    <3> QED
      BY <1>1, <1>5, <2>4, <2>9, <2>10, <3>1
  <2>13. CASE h = i
    <3>1. CASE y.branch \in refs[repo]
      <4>1. y \in Surviving(t, repo, refs[repo])
        BY <2>5, <3>1 DEF Surviving
      <4>2. y.branch \in Branches(t, repo, refs[repo])
        BY <1>5, <4>1 DEF Branches
      <4> QED
        BY <1>1, <1>5, <2>4, <4>2
    <3>2. CASE y.branch \notin refs[repo]
      <4>1. repo \in ToSet(Mounted(t))
        BY <1>5, <2>9, RepoFacts
      <4>2. y.key = key
        BY <1>1, <2>9, <2>13
      <4>3. y \in UNION {{z \in Plan(t, rep) : z.branch \notin refs[rep]} : rep \in ToSet(Mounted(t))}
        BY <2>5, <3>2, <4>1
      <4>4. key \in Dropped(t, refs)
        BY <4>2, <4>3 DEF Dropped
      <4>5. <<"lost", key>> \in Told(t, refs)
        BY <1>1, <4>4 DEF Told
      <4> QED
        BY <1>1, <4>5
    <3> QED
      BY <3>1, <3>2
  <2> QED
    BY <2>11, <2>12, <2>13
<1> QED
  BY <1>3, <1>4, <1>5

\* FR-008, FR-010: what the plan starts from and tells accounts for every open blocker.
LEMMA PlannedAccounted ==
  ASSUME NEW t \in TaskType, OneKeyEach(t), NEW want1, NEW told1, Planned(t, want1, told1)
  PROVE  Accounted(t, want1, told1)
<1>1. PICK refs : /\ want1 = [repo \in Repos |-> IF repo \in ToSet(Mounted(t))
                                                 THEN Branches(t, repo, refs[repo]) ELSE {}]
                  /\ Told(t, refs) \subseteq told1
  BY DEF Planned
<1>2. PICK bs : bs = Blockers(t) /\ bs \in Seq(BlockerType) /\ (bs = t.blockers \/ Len(bs) = 0)
  <2>1. PICK no : no = <<>> /\ no \in Seq(BlockerType)
    BY EmptyOf, Zenon
  <2>2. Len(no) = 0
    BY <2>1
  <2>3. Blockers(t) = t.blockers \/ Blockers(t) = no
    BY <2>1 DEF Blockers
  <2>4. t.blockers \in Seq(BlockerType)
    BY DEF TaskType
  <2> QED
    BY <2>1, <2>2, <2>3, <2>4
<1>3. \A i, j \in 1..Len(bs) : bs[i].key = bs[j].key => i = j
  BY <1>2 DEF OneKeyEach
<1> SUFFICES ASSUME NEW i \in 1..Len(Blockers(t)), NEW b, b = Blockers(t)[i], ~b.done,
                    <<"lost", b.key>> \notin told1
             PROVE  /\ WorkOf(b) # <<>>
                    /\ \A e \in ToSet(WorkOf(b)) : \A repo : repo = RepoOf(e, Mounted(t)) =>
                         \/ repo = None /\ <<"unmounted", b.key>> \in told1
                         \/ /\ repo # None
                            /\ \/ e.branch \in want1[repo]
                               \/ \E o \in ToSet(PriorWork(t)) : RepoOf(o, Mounted(t)) = repo
                               \/ \E j \in 1..(i-1) : \E f \in ToSet(WorkOf(Blockers(t)[j])) :
                                    f.branch = e.branch /\ RepoOf(f, Mounted(t)) = repo
  BY DEF Accounted
<1>4. b \in BlockerType /\ b = bs[i] /\ i \in 1..Len(bs) /\ DOMAIN bs = 1..Len(bs)
  BY <1>2
<1>5. ~IsDone(t, b.key)
  <2> SUFFICES ASSUME NEW c \in ToSet(bs), c.key = b.key, c.done PROVE FALSE
    BY <1>2 DEF IsDone
  <2>1. PICK j \in 1..Len(bs) : c = bs[j]
    BY <1>4 DEF ToSet
  <2> QED
    BY <1>3, <1>4, <2>1
<1>6. WorkOf(b) # <<>>
  <2> SUFFICES ASSUME WorkOf(b) = <<>> PROVE FALSE
    OBVIOUS
  <2>1. b \in ToSet(Blockers(t))
    BY <1>2, <1>4 DEF ToSet
  <2>2. b.key \in Dropped(t, refs)
    BY <2>1 DEF Missing, Dropped
  <2>3. <<"lost", b.key>> \in Told(t, refs)
    BY <1>5, <2>2 DEF Told
  <2> QED
    BY <1>1, <2>3
<1>7. ASSUME NEW e \in ToSet(WorkOf(b)), NEW repo, repo = RepoOf(e, Mounted(t))
      PROVE  \/ repo = None /\ <<"unmounted", b.key>> \in told1
             \/ /\ repo # None
                /\ \/ e.branch \in want1[repo]
                   \/ \E o \in ToSet(PriorWork(t)) : RepoOf(o, Mounted(t)) = repo
                   \/ \E j \in 1..(i-1) : \E f \in ToSet(WorkOf(Blockers(t)[j])) :
                        f.branch = e.branch /\ RepoOf(f, Mounted(t)) = repo
  <2>1. PICK work : work = WorkOf(b) /\ work \in Seq(EntryType)
    BY <1>4, WorkFacts
  <2>2. PICK j \in 1..Len(work) : e = work[j]
    <3>1. DOMAIN work = 1..Len(work)
      BY <2>1
    <3> QED
      BY <1>7, <2>1, <3>1 DEF ToSet
  <2>3. Item(t, i, j).repo = repo /\ Item(t, i, j).branch = e.branch
    BY <1>7, <2>1, <2>2 DEF Item
  <2>4. /\ Blockers(t) \in Seq(BlockerType) /\ j \in 1..Len(WorkOf(Blockers(t)[i]))
        /\ ~IsDone(t, Blockers(t)[i].key) /\ repo = Item(t, i, j).repo
    BY <1>2, <1>5, <2>1, <2>3
  <2>5. \/ <<"lost", Blockers(t)[i].key>> \in told1
        \/ repo = None /\ <<"unmounted", Blockers(t)[i].key>> \in told1
        \/ /\ repo # None
           /\ \/ Item(t, i, j).branch \in Branches(t, repo, refs[repo])
              \/ \E o \in ToSet(PriorWork(t)) : RepoOf(o, Mounted(t)) = repo
              \/ \E h \in 1..(i-1) : \E f \in ToSet(WorkOf(Blockers(t)[h])) :
                   f.branch = Item(t, i, j).branch /\ RepoOf(f, Mounted(t)) = repo
    BY <1>1, <2>4, EntryAccounted, SMTT(30)
  <2>6. repo # None => want1[repo] = Branches(t, repo, refs[repo])
    BY <1>1, <1>7, RepoFacts
  <2> QED
    BY <2>3, <2>5, <2>6
<1> QED
  BY <1>6, <1>7

\* addRepoWorktree: a repository with work of the ticket's own starts on it alone.
LEMMA PlannedContinued ==
  ASSUME NEW t \in TaskType, NEW want1, NEW told1, Planned(t, want1, told1)
  PROVE  OwnContinued(t, want1)
<1>1. PICK refs : /\ want1 = [repo \in Repos |-> IF repo \in ToSet(Mounted(t))
                                                 THEN Branches(t, repo, refs[repo]) ELSE {}]
                  /\ Told(t, refs) \subseteq told1
  BY DEF Planned
<1> SUFFICES ASSUME NEW e \in ToSet(PriorWork(t)), NEW repo, repo = RepoOf(e, Mounted(t)), repo # None
             PROVE  \E f \in ToSet(PriorWork(t)) :
                      RepoOf(f, Mounted(t)) = repo /\ want1[repo] = {f.branch}
  BY DEF OwnContinued
<1>2. OwnBranch(t, repo) # None
  BY OwnFacts
<1>3. PICK f \in ToSet(PriorWork(t)) : RepoOf(f, Mounted(t)) = repo /\ OwnBranch(t, repo) = f.branch
  BY <1>2, OwnFacts
<1>4. want1[repo] = {f.branch}
  BY <1>1, <1>2, <1>3, RepoFacts DEF Branches
<1> QED
  BY <1>3, <1>4

-----------------------------------------------------------------------------
(* The process of a run.                                                   *)

ProcFields == {"cli", "stage", "holder", "escaped", "abort", "rate", "terminal", "kills", "timer",
               "insert", "last", "close", "waits", "result", "report"}

IsProc(p) ==
  /\ p = [f \in ProcFields |-> p[f]]
  /\ p.stage \in {"none", "up", "gone"} /\ p.close \in {"no", "waiting", "done"}
  /\ p.abort \in {"none", "timeout", "cancelled"} /\ p.rate \in BOOLEAN

\* The precedence of handleClose: cancelled, then a rate limit.
Verdict(p, res) ==
  /\ p.abort = "cancelled" => res = "cancelled"
  /\ p.abort # "cancelled" /\ p.rate = TRUE => res = "rate_limited"

\* Until the process is spawned there is nothing; once the close is done, the result is the right one.
ProcSound(p) ==
  /\ IsProc(p) /\ (p.stage = "none" => p = NoProcess)
  /\ p.close = "done" => Verdict(p, p.result)

\* The same as far as the result is concerned.
Alike(p, d) ==
  /\ IsProc(d) /\ d.close = p.close /\ d.result = p.result /\ d.abort = p.abort
  /\ (d.stage = "none") <=> (p.stage = "none")

\* Nothing is known before the spawn.
LEMMA NoProcessSound == ProcSound(NoProcess)
<1>1. IsProc(NoProcess) /\ NoProcess.close = "no"
  BY DEF IsProc, ProcFields, NoProcess
<1> QED
  BY <1>1 DEF ProcSound

\* settle: the result is written once, and nothing else that matters with it.
LEMMA SettleFacts ==
  ASSUME NEW p, IsProc(p), NEW status
  PROVE  /\ IsProc(Settle(p, status)) /\ Settle(p, status).close = p.close
         /\ Settle(p, status).abort = p.abort /\ Settle(p, status).rate = p.rate
         /\ Settle(p, status).stage = p.stage
         /\ Settle(p, status).result = IF p.result # "none" THEN p.result ELSE status
<1>1. CASE p.result # "none"
  BY <1>1 DEF Settle
<1>2. CASE p.result = "none"
  <2>1. PICK v : v = (status = "completed" /\ p.terminal = "report")
    OBVIOUS
  <2>2. PICK d : d = [p EXCEPT !.result = status, !.timer = FALSE, !.report = v]
    OBVIOUS
  <2>3. Settle(p, status) = d
    BY <1>2, <2>1, <2>2 DEF Settle
  <2>4. /\ IsProc(d) /\ d.close = p.close /\ d.abort = p.abort /\ d.rate = p.rate
        /\ d.stage = p.stage /\ d.result = status
    BY <2>2 DEF IsProc, ProcFields
  <2> QED
    BY <1>2, <2>3, <2>4
<1> QED
  BY <1>1, <1>2

\* terminateAndSettle and persistRunEvent have no part in the result.
LEMMA KillFacts ==
  ASSUME NEW p, IsProc(p), NEW k
  PROVE  /\ Alike(p, Terminate(p, k)) /\ Terminate(p, k).rate = p.rate
         /\ Alike(p, Persist(p, k)) /\ Persist(p, k).rate = p.rate
         /\ Alike(p, Armed(p, k)) /\ Armed(p, k).rate = p.rate
<1>1. PICK a, b, c, t : /\ a = p.kills \cup {k} /\ b = p.insert \cup {k} /\ c = p.kills \ {k}
                        /\ t = (p.timer \/ (p.result = "none" /\ p.close = "no"))
  OBVIOUS
<1>2. PICK d : d = [p EXCEPT !.kills = a]
  OBVIOUS
<1>3. PICK e : e = [p EXCEPT !.insert = b, !.last = k]
  OBVIOUS
<1>4. PICK g : g = [p EXCEPT !.kills = c, !.timer = t]
  OBVIOUS
<1>5. Alike(p, d) /\ d.rate = p.rate
  BY <1>2 DEF Alike, IsProc, ProcFields
<1>6. Alike(p, e) /\ e.rate = p.rate
  BY <1>3 DEF Alike, IsProc, ProcFields
<1>7. Alike(p, g) /\ g.rate = p.rate
  BY <1>4 DEF Alike, IsProc, ProcFields
<1>8. Terminate(p, k) = d
  BY <1>1, <1>2 DEF Terminate, IsProc, ProcFields
<1>9. Persist(p, k) = e
  BY <1>1, <1>3 DEF Persist, IsProc, ProcFields
<1>10. Armed(p, k) = g
  BY <1>1, <1>4 DEF Armed, IsProc, ProcFields
<1> QED
  BY <1>5, <1>6, <1>7, <1>8, <1>9, <1>10

\* What does not touch the close, the abort or the rate limit keeps the process sound, and so does a
\* rate limit that is read before the close.
LEMMA AlikeSound ==
  ASSUME NEW p, NEW d, ProcSound(p), Alike(p, d), p.stage # "none",
         d.rate = p.rate \/ p.close = "no"
  PROVE  ProcSound(d) /\ d.stage # "none"
BY DEF ProcSound, Alike, Verdict

\* The status handleClose settles with is the one the precedence asks for.
LEMMA StatusFacts ==
  ASSUME NEW p
  PROVE  Verdict(p, CloseStatus(p))
<1>1. p.abort = "cancelled" => CloseStatus(p) = "cancelled"
  BY DEF CloseStatus
<1>2. p.abort # "cancelled" /\ p.rate = TRUE => CloseStatus(p) = "rate_limited"
  BY DEF CloseStatus
<1> QED
  BY <1>1, <1>2 DEF Verdict

\* The close waits for an insert, or it is done and the result is that status.
LEMMA SettledFacts ==
  ASSUME NEW p, IsProc(p), p.stage # "none", p.result = "none"
  PROVE  /\ ProcSound(Await(p)) /\ Await(p).stage # "none"
         /\ ProcSound(Settle([p EXCEPT !.close = "done"], CloseStatus(p)))
         /\ Settle([p EXCEPT !.close = "done"], CloseStatus(p)).stage # "none"
<1>1. PICK d : d = [p EXCEPT !.close = "waiting", !.waits = p.last]
  OBVIOUS
<1>2. IsProc(d) /\ d.close = "waiting" /\ d.stage = p.stage
  BY <1>1 DEF IsProc, ProcFields
<1>3. PICK e, status : e = [p EXCEPT !.close = "done"] /\ status = CloseStatus(p)
  OBVIOUS
<1>4. /\ IsProc(e) /\ e.close = "done" /\ e.abort = p.abort /\ e.rate = p.rate
      /\ e.stage = p.stage /\ e.result = "none"
  BY <1>3 DEF IsProc, ProcFields
<1>5. PICK g : g = Settle(e, status)
  OBVIOUS
<1>6. /\ IsProc(g) /\ g.close = "done" /\ g.abort = p.abort /\ g.rate = p.rate
      /\ g.stage = p.stage /\ g.result = status
  BY <1>4, <1>5, SettleFacts
<1>7. Verdict(g, status)
  BY <1>3, <1>6, StatusFacts DEF Verdict
<1>8. ProcSound(d) /\ ProcSound(g) /\ d.stage # "none" /\ g.stage # "none"
  BY <1>2, <1>6, <1>7 DEF ProcSound
<1> QED
  BY <1>1, <1>3, <1>5, <1>8 DEF Await

\* handleClose, and the fallback that calls it.
LEMMA CloseFacts ==
  ASSUME NEW p, ProcSound(p), p.stage # "none", p.result = "none", NEW stderr
  PROVE  ProcSound(HandleClose(p, stderr)) /\ HandleClose(p, stderr).stage # "none"
<1>1. IsProc(p)
  BY DEF ProcSound
<1>2. PICK e : e = Persist(p, "tail")
  OBVIOUS
<1>3. IsProc(e) /\ e.stage # "none" /\ e.result = "none"
  <2>1. Alike(p, e)
    BY <1>1, <1>2, KillFacts
  <2> QED
    BY <2>1 DEF Alike
<1>4. HandleClose(p, stderr) \in
        {p, Await(p), Await(e), Settle([p EXCEPT !.close = "done"], CloseStatus(p))}
  BY <1>2 DEF HandleClose
<1> QED
  BY <1>1, <1>3, <1>4, SettledFacts

\* The abort listener: too late once the close is being handled.
LEMMA AbortFacts ==
  ASSUME NEW p, ProcSound(p), NEW why \in {"timeout", "cancelled"}
  PROVE  /\ ProcSound(OnAbort(p, why)) /\ (OnAbort(p, why).stage = "none" <=> p.stage = "none")
         /\ p.stage = "none" => OnAbort(p, why) = p
         /\ p.close = "done" => OnAbort(p, why) = p
         /\ OnAbort(p, why).close = p.close
<1>1. CASE p.stage = "none" \/ p.close # "no"
  BY <1>1 DEF OnAbort
<1>2. CASE ~(p.stage = "none" \/ p.close # "no")
  <2>1. PICK d : d = [p EXCEPT !.abort = why]
    OBVIOUS
  <2>2. IsProc(d) /\ d.close = "no" /\ d.stage = p.stage /\ p.close = "no"
    BY <1>2, <2>1 DEF ProcSound, IsProc, ProcFields
  <2>3. OnAbort(p, why) = Terminate(d, "abort")
    BY <1>2, <2>1 DEF OnAbort
  <2>4. Alike(d, Terminate(d, "abort"))
    BY <2>2, KillFacts
  <2> QED
    BY <1>2, <2>2, <2>3, <2>4 DEF Alike, ProcSound
<1> QED
  BY <1>1, <1>2

\* What does not concern the result.
LEMMA QuietFacts ==
  ASSUME NEW p, IsProc(p), NEW v
  PROVE  /\ Alike(p, [p EXCEPT !.terminal = v]) /\ [p EXCEPT !.terminal = v].rate = p.rate
         /\ Alike(p, [p EXCEPT !.insert = v]) /\ [p EXCEPT !.insert = v].rate = p.rate
         /\ Alike(p, [p EXCEPT !.holder = v]) /\ [p EXCEPT !.holder = v].rate = p.rate
         /\ Alike(p, [p EXCEPT !.timer = v]) /\ [p EXCEPT !.timer = v].rate = p.rate
         /\ Alike(p, [p EXCEPT !.holder = TRUE, !.escaped = TRUE])
         /\ [p EXCEPT !.holder = TRUE, !.escaped = TRUE].rate = p.rate
<1>1. PICK d : d = [p EXCEPT !.terminal = v]
  OBVIOUS
<1>2. PICK e : e = [p EXCEPT !.insert = v]
  OBVIOUS
<1>3. PICK g : g = [p EXCEPT !.holder = v]
  OBVIOUS
<1>4. PICK h : h = [p EXCEPT !.timer = v]
  OBVIOUS
<1>5. PICK k : k = [p EXCEPT !.holder = TRUE, !.escaped = TRUE]
  OBVIOUS
<1>6. Alike(p, d) /\ d.rate = p.rate
  BY <1>1 DEF Alike, IsProc, ProcFields
<1>7. Alike(p, e) /\ e.rate = p.rate
  BY <1>2 DEF Alike, IsProc, ProcFields
<1>8. Alike(p, g) /\ g.rate = p.rate
  BY <1>3 DEF Alike, IsProc, ProcFields
<1>9. Alike(p, h) /\ h.rate = p.rate
  BY <1>4 DEF Alike, IsProc, ProcFields
<1>10. Alike(p, k) /\ k.rate = p.rate
  BY <1>5 DEF Alike, IsProc, ProcFields
<1> QED
  BY <1>1, <1>2, <1>3, <1>4, <1>5, <1>6, <1>7, <1>8, <1>9, <1>10

\* The leader of the group is gone; the pipes may still be held.
LEMMA GoneFacts ==
  ASSUME NEW p, IsProc(p), p.stage # "none", NEW v
  PROVE  /\ Alike(p, [p EXCEPT !.stage = "gone"]) /\ [p EXCEPT !.stage = "gone"].rate = p.rate
         /\ Alike(p, [p EXCEPT !.stage = "gone", !.holder = v])
         /\ [p EXCEPT !.stage = "gone", !.holder = v].rate = p.rate
<1>1. PICK d : d = [p EXCEPT !.stage = "gone"]
  OBVIOUS
<1>2. PICK e : e = [p EXCEPT !.stage = "gone", !.holder = v]
  OBVIOUS
<1>3. Alike(p, d) /\ d.rate = p.rate
  BY <1>1 DEF Alike, IsProc, ProcFields
<1>4. Alike(p, e) /\ e.rate = p.rate
  BY <1>2 DEF Alike, IsProc, ProcFields
<1> QED
  BY <1>1, <1>2, <1>3, <1>4

\* A step of a process that leaves it sound.
Sound(p, d) == ProcSound(d) /\ d.stage # "none"

\* The lines of the CLI: a rate limit that is parsed, an event, the result.
LEMMA LineSteps ==
  ASSUME NEW p, ProcSound(p), p.stage # "none", NEW v
  PROVE  /\ p.close = "no" => Sound(p, Terminate(Persist([p EXCEPT !.rate = TRUE], "retry"), "rate"))
         /\ Sound(p, Persist(p, "other"))
         /\ Sound(p, [p EXCEPT !.terminal = v])
<1>1. IsProc(p)
  BY DEF ProcSound
<1>2. Sound(p, Persist(p, "other"))
  <2>1. Alike(p, Persist(p, "other")) /\ Persist(p, "other").rate = p.rate
    BY <1>1, KillFacts
  <2> QED
    BY <2>1, AlikeSound DEF Sound
<1>3. Sound(p, [p EXCEPT !.terminal = v])
  <2>1. Alike(p, [p EXCEPT !.terminal = v]) /\ [p EXCEPT !.terminal = v].rate = p.rate
    BY <1>1, QuietFacts
  <2> QED
    BY <2>1, AlikeSound DEF Sound
<1>4. ASSUME p.close = "no" PROVE Sound(p, Terminate(Persist([p EXCEPT !.rate = TRUE], "retry"), "rate"))
  <2>1. PICK d : d = [p EXCEPT !.rate = TRUE]
    OBVIOUS
  <2>2. IsProc(d) /\ d.close = "no" /\ d.stage = p.stage
    BY <1>1, <1>4, <2>1 DEF IsProc, ProcFields
  <2>3. PICK e : e = Persist(d, "retry")
    OBVIOUS
  <2>4. Alike(d, e)
    BY <2>2, <2>3, KillFacts
  <2>5. IsProc(e) /\ e.close = "no" /\ e.stage # "none"
    BY <2>2, <2>4 DEF Alike
  <2>6. Alike(e, Terminate(e, "rate"))
    BY <2>5, KillFacts
  <2>7. Sound(p, Terminate(e, "rate"))
    BY <2>5, <2>6 DEF Sound, Alike, ProcSound
  <2> QED
    BY <2>1, <2>3, <2>7
<1> QED
  BY <1>2, <1>3, <1>4

\* An insert that ends: the close may have waited for it to report the rate limit or the timeout.
LEMMA InsertStep ==
  ASSUME NEW p, ProcSound(p), p.stage # "none", p.result = "none", NEW i
  PROVE  Sound(p, LET d == [p EXCEPT !.insert = @ \ {i}] IN
                    IF d.close = "waiting" /\ d.waits = i
                    THEN Settle([d EXCEPT !.close = "done"], CloseStatus(d)) ELSE d)
<1>1. IsProc(p)
  BY DEF ProcSound
<1>2. PICK v : v = p.insert \ {i}
  OBVIOUS
<1>3. PICK d : d = [p EXCEPT !.insert = v]
  OBVIOUS
<1>4. Alike(p, d) /\ d.rate = p.rate
  BY <1>1, <1>3, QuietFacts
<1>5. Sound(p, d)
  BY <1>4, AlikeSound DEF Sound
<1>6. d = [p EXCEPT !.insert = @ \ {i}]
  BY <1>2, <1>3
<1>7. Sound(p, Settle([d EXCEPT !.close = "done"], CloseStatus(d)))
  <2>1. IsProc(d) /\ d.stage # "none" /\ d.result = "none"
    BY <1>4, <1>5 DEF Alike, Sound
  <2> QED
    BY <2>1, SettledFacts DEF Sound
<1> QED
  BY <1>5, <1>6, <1>7

\* A kill that is over, with or without the leader's exit.
LEMMA KillStep ==
  ASSUME NEW p, ProcSound(p), p.stage # "none", NEW k, NEW v
  PROVE  /\ Sound(p, Armed(p, k))
         /\ Sound(p, Armed([p EXCEPT !.stage = "gone", !.holder = v], k))
<1>1. IsProc(p)
  BY DEF ProcSound
<1>2. Sound(p, Armed(p, k))
  <2>1. Alike(p, Armed(p, k)) /\ Armed(p, k).rate = p.rate
    BY <1>1, KillFacts
  <2> QED
    BY <2>1, AlikeSound DEF Sound
<1>3. PICK d : d = [p EXCEPT !.stage = "gone", !.holder = v]
  OBVIOUS
<1>4. Sound(p, d) /\ IsProc(d)
  <2>1. Alike(p, d) /\ d.rate = p.rate
    BY <1>1, <1>3, GoneFacts
  <2>2. Sound(p, d)
    BY <2>1, AlikeSound DEF Sound
  <2> QED
    BY <2>1, <2>2 DEF Alike
<1>5. Sound(d, Armed(d, k))
  <2>1. Alike(d, Armed(d, k)) /\ Armed(d, k).rate = d.rate
    BY <1>4, KillFacts
  <2> QED
    BY <1>4, <2>1, AlikeSound DEF Sound
<1> QED
  BY <1>2, <1>3, <1>5 DEF Sound

\* The close, and the fallback timer that stands in for it.
LEMMA CloseSteps ==
  ASSUME NEW p, ProcSound(p), p.stage # "none", p.result = "none", NEW v
  PROVE  /\ Sound(p, HandleClose([p EXCEPT !.timer = FALSE], v))
         /\ Sound(p, HandleClose(Persist([p EXCEPT !.timer = FALSE], "other"), v))
<1>1. IsProc(p)
  BY DEF ProcSound
<1>2. PICK d : d = [p EXCEPT !.timer = FALSE]
  OBVIOUS
<1>3. ProcSound(d) /\ d.stage # "none" /\ d.result = "none" /\ IsProc(d)
  <2>1. Alike(p, d) /\ d.rate = p.rate
    BY <1>1, <1>2, QuietFacts
  <2>2. ProcSound(d) /\ d.stage # "none"
    BY <2>1, AlikeSound
  <2> QED
    BY <2>1, <2>2 DEF Alike
<1>4. PICK e : e = Persist(d, "other")
  OBVIOUS
<1>5. ProcSound(e) /\ e.stage # "none" /\ e.result = "none"
  <2>1. Alike(d, e) /\ e.rate = d.rate
    BY <1>3, <1>4, KillFacts
  <2>2. ProcSound(e) /\ e.stage # "none"
    BY <1>3, <2>1, AlikeSound
  <2> QED
    BY <1>3, <2>1, <2>2 DEF Alike
<1>6. Sound(p, HandleClose(d, v)) /\ Sound(p, HandleClose(e, v))
  BY <1>3, <1>5, CloseFacts DEF Sound
<1> QED
  BY <1>2, <1>4, <1>6

\* What a step of one process does to the processes.
ProcStep(q) ==
  /\ proc' = [proc EXCEPT ![q] = proc'[q]] /\ UNCHANGED signal
  /\ Sound(proc[q], proc'[q])

\* The steps of the process of a run keep it sound (runProcess).
LEMMA ProcSteps ==
  ASSUME NEW q \in Runs, proc = [r \in Runs |-> proc[r]], ProcNext(q),
         ProcSound(proc[q]), proc[q].stage # "none"
  PROVE  ProcStep(q)
<1>1. ASSUME NEW d, Step(q, d), proc[q].result = "none" => Sound(proc[q], d) PROVE ProcStep(q)
  <2>1. proc[q].result = "none" /\ proc' = [proc EXCEPT ![q] = d] /\ UNCHANGED signal
    BY <1>1 DEF Step
  <2>2. proc'[q] = d
    BY <2>1
  <2> QED
    BY <1>1, <2>1, <2>2 DEF ProcStep
<1>2. PICK p : p = proc[q]
  OBVIOUS
<1>0. IsProc(p)
  BY <1>2 DEF ProcSound
<1>3. CASE RateLimitLine(q)
  <2>1. p.close = "no" /\ Step(q, Terminate(Persist([p EXCEPT !.rate = TRUE], "retry"), "rate"))
    BY <1>2, <1>3 DEF RateLimitLine, CanPrint
  <2>2. Sound(p, Terminate(Persist([p EXCEPT !.rate = TRUE], "retry"), "rate"))
    BY <1>2, <2>1, LineSteps
  <2> QED
    BY <1>1, <1>2, <2>1, <2>2
<1>4. CASE EventLine(q)
  <2>1. Step(q, Persist(p, "other"))
    BY <1>2, <1>4 DEF EventLine
  <2>2. Sound(p, Persist(p, "other"))
    BY <1>2, LineSteps
  <2> QED
    BY <1>1, <1>2, <2>1, <2>2
<1>5. CASE ResultLine(q)
  <2>1. PICK t \in Terminals : Step(q, [p EXCEPT !.terminal = t])
    BY <1>2, <1>5 DEF ResultLine
  <2>2. Sound(p, [p EXCEPT !.terminal = t])
    BY <1>2, LineSteps
  <2> QED
    BY <1>1, <1>2, <2>1, <2>2
<1>6. CASE InsertEnds(q)
  <2>1. PICK i, d : Step(q, d) /\ d = (LET g == [p EXCEPT !.insert = @ \ {i}] IN
                      IF g.close = "waiting" /\ g.waits = i
                      THEN Settle([g EXCEPT !.close = "done"], CloseStatus(g)) ELSE g)
    BY <1>2, <1>6 DEF InsertEnds
  <2>2. p.result = "none" => Sound(p, d)
    BY <1>2, <2>1, InsertStep
  <2> QED
    BY <1>1, <1>2, <2>1, <2>2
<1>7. CASE Escape(q)
  <2>1. Step(q, [p EXCEPT !.holder = TRUE, !.escaped = TRUE])
    BY <1>2, <1>7 DEF Escape
  <2>2. /\ Alike(p, [p EXCEPT !.holder = TRUE, !.escaped = TRUE])
        /\ [p EXCEPT !.holder = TRUE, !.escaped = TRUE].rate = p.rate
    BY <1>0, QuietFacts
  <2>3. Sound(p, [p EXCEPT !.holder = TRUE, !.escaped = TRUE])
    BY <1>2, <2>2, AlikeSound DEF Sound
  <2> QED
    BY <1>1, <1>2, <2>1, <2>3
<1>8. CASE HolderEnds(q)
  <2>1. Step(q, [p EXCEPT !.holder = FALSE])
    BY <1>2, <1>8 DEF HolderEnds
  <2>2. Alike(p, [p EXCEPT !.holder = FALSE]) /\ [p EXCEPT !.holder = FALSE].rate = p.rate
    BY <1>0, QuietFacts
  <2>3. Sound(p, [p EXCEPT !.holder = FALSE])
    BY <1>2, <2>2, AlikeSound DEF Sound
  <2> QED
    BY <1>1, <1>2, <2>1, <2>3
<1>9. CASE LeaderExits(q)
  <2>1. Step(q, [p EXCEPT !.stage = "gone"])
    BY <1>2, <1>9 DEF LeaderExits
  <2>2. Alike(p, [p EXCEPT !.stage = "gone"]) /\ [p EXCEPT !.stage = "gone"].rate = p.rate
    BY <1>0, <1>2, GoneFacts
  <2>3. Sound(p, [p EXCEPT !.stage = "gone"])
    BY <1>2, <2>2, AlikeSound DEF Sound
  <2> QED
    BY <1>1, <1>2, <2>1, <2>3
<1>10. CASE KillEnds(q)
  <2>1. PICK k : \/ Step(q, Armed(p, k))
                 \/ \E left : Step(q, Armed([p EXCEPT !.stage = "gone", !.holder = left], k))
    BY <1>2, <1>10 DEF KillEnds
  <2>2. \A left : Sound(p, Armed(p, k)) /\ Sound(p, Armed([p EXCEPT !.stage = "gone", !.holder = left], k))
    BY <1>2, KillStep
  <2> QED
    BY <1>1, <1>2, <2>1, <2>2
<1>11. CASE FallbackFires(q)
  <2>1. PICK v : Step(q, HandleClose(Persist([p EXCEPT !.timer = FALSE], "other"), v))
    BY <1>2, <1>11 DEF FallbackFires
  <2>2. p.result = "none" => Sound(p, HandleClose(Persist([p EXCEPT !.timer = FALSE], "other"), v))
    BY <1>2, CloseSteps
  <2> QED
    BY <1>1, <1>2, <2>1, <2>2
<1>12. CASE Close(q)
  <2>1. PICK v : Step(q, HandleClose([p EXCEPT !.timer = FALSE], v))
    BY <1>2, <1>12 DEF Close
  <2>2. p.result = "none" => Sound(p, HandleClose([p EXCEPT !.timer = FALSE], v))
    BY <1>2, CloseSteps
  <2> QED
    BY <1>1, <1>2, <2>1, <2>2
<1> QED
  BY <1>3, <1>4, <1>5, <1>6, <1>7, <1>8, <1>9, <1>10, <1>11, <1>12 DEF ProcNext

\* The spawn, and a spawn that fails: no close is being handled yet.
LEMMA SpawnFacts ==
  ASSUME NEW cli
  PROVE  Sound(NoProcess, Spawned(NoProcess, cli)) /\ Sound(NoProcess, SpawnFailed(NoProcess))
<1>1. IsProc(NoProcess) /\ NoProcess.close = "no"
  BY DEF IsProc, ProcFields, NoProcess
<1>2. PICK p : p = NoProcess
  OBVIOUS
<1>3. PICK d : d = [p EXCEPT !.stage = "up", !.cli = cli]
  OBVIOUS
<1>4. IsProc(d) /\ d.close = "no" /\ d.stage = "up"
  BY <1>1, <1>2, <1>3 DEF IsProc, ProcFields
<1>5. PICK e : e = [p EXCEPT !.stage = "gone"]
  OBVIOUS
<1>6. IsProc(e) /\ e.close = "no" /\ e.stage = "gone"
  BY <1>1, <1>2, <1>5 DEF IsProc, ProcFields
<1>7. PICK g : g = Settle(e, "crashed")
  OBVIOUS
<1>8. IsProc(g) /\ g.close = "no" /\ g.stage = "gone"
  BY <1>6, <1>7, SettleFacts
<1>9. Sound(p, d) /\ Sound(p, g)
  BY <1>4, <1>8 DEF Sound, ProcSound
<1>10. Spawned(p, cli) = d
  BY <1>3 DEF Spawned
<1>11. SpawnFailed(p) = g
  BY <1>5, <1>7 DEF SpawnFailed
<1> QED
  BY <1>2, <1>9, <1>10, <1>11

-----------------------------------------------------------------------------
(* The inductive invariant.                                                *)

Typed ==
  /\ task \in Tasks /\ pc \in [Runs -> Steps]
  /\ at \in [Runs -> Nat \ {0}] /\ try \in [Runs -> Nat] /\ trees \in [Runs -> [Repos -> Nat]]
  /\ token \in [Runs -> BOOLEAN] /\ signal \in [Runs -> {"none", "timeout", "cancelled"}]
  /\ outcome = [r \in Runs |-> outcome[r]] /\ want = [r \in Runs |-> want[r]]
  /\ told = [r \in Runs |-> told[r]] /\ proc = [r \in Runs |-> proc[r]]

\* The steps at which every worktree of the call has been added.
Prepared == {"record", "boot", "held", "files", "spawn", "run"}

\* A process exists from the spawn on.
ProcOk(s, p) ==
  /\ ProcSound(p)
  /\ s \notin {"run", "undo", "returned"} => p = NoProcess
  /\ s = "run" => p.stage # "none"

\* The tool configuration is on disk only between its writing and the clean-up.
TokenOk(s, k) == k = TRUE => s \in {"spawn", "run", "undo"}

\* The worktrees are added one after the other, each by this very call.
TreeOk(t, s, i, n, tr) ==
  /\ s = "plan" => i = 1
  /\ s = "add" => \A j \in 1..Len(Mounted(t)) : j < i => tr[Mounted(t)[j]] = n
  /\ s \in Prepared => \A repo \in ToSet(Mounted(t)) : tr[repo] = n

\* What is added was planned, unless nothing is mounted.
PlanOk(t, s, w, o) ==
  /\ s \in Prepared \cup {"add"} =>
       Planned(t, w, o) \/ (Mounted(t) = <<>> /\ Scope(t).kind = "resolved")
  /\ s = "scratch" => Mounted(t) = <<>> /\ Scope(t).kind = "resolved"

\* The verdict of the close stands, and an abort before the spawn is reported as one.
OutOk(s, o, g, p) ==
  /\ s \in {"undo", "returned"} /\ p.close = "done" => Verdict(p, o)
  /\ s = "returned" /\ g # "none" /\ p.stage = "none" /\ o \notin {"threw", "parked", "unplaced"} => o = g

RunInv(r) ==
  /\ ProcOk(pc[r], proc[r]) /\ TokenOk(pc[r], token[r])
  /\ TreeOk(task[r], pc[r], at[r], try[r], trees[r])
  /\ PlanOk(task[r], pc[r], want[r], told[r])
  /\ OutOk(pc[r], outcome[r], signal[r], proc[r])

Inv == Typed /\ \A r \in Runs : RunInv(r)

\* A step of a run leaves the others alone.
Same(r) ==
  /\ pc'[r] = pc[r] /\ at'[r] = at[r] /\ try'[r] = try[r] /\ outcome'[r] = outcome[r]
  /\ want'[r] = want[r] /\ trees'[r] = trees[r] /\ token'[r] = token[r] /\ told'[r] = told[r]
  /\ signal'[r] = signal[r] /\ proc'[r] = proc[r]

Only(q) == task' = task /\ \A r \in Runs \ {q} : Same(r)

\* Then only the run that has moved is to be looked at.
LEMMA Framed ==
  ASSUME NEW q \in Runs, Inv, Typed', Only(q), RunInv(q)'
  PROVE  Inv'
<1>1. ASSUME NEW r \in Runs PROVE RunInv(r)'
  <2>1. CASE r = q
    BY <2>1
  <2>2. CASE r # q
    <3>1. Same(r) /\ task' = task /\ RunInv(r)
      BY <2>2 DEF Only, Inv
    <3>2. task'[r] = task[r]
      BY <3>1
    <3> QED
      BY <3>1, <3>2 DEF Same, RunInv
  <2> QED
    BY <2>1, <2>2
<1> QED
  BY <1>1 DEF Inv

\* run() has not been called.
LEMMA InitInv == Init => Inv
<1> SUFFICES ASSUME Init PROVE Inv
  OBVIOUS
<1>1. Typed
  <2>1. /\ NoTrees \in [Repos -> Nat] /\ "idle" \in Steps
    BY DEF NoTrees, Steps
  <2> QED
    BY <2>1 DEF Init, ProcInit, Typed
<1>2. ASSUME NEW r \in Runs PROVE RunInv(r)
  <2>1. pc[r] = "idle" /\ proc[r] = NoProcess /\ token[r] = FALSE
    BY DEF Init, ProcInit
  <2> QED
    BY <2>1, NoProcessSound DEF RunInv, ProcOk, TokenOk, TreeOk, PlanOk, OutOk, Prepared
<1> QED
  BY <1>1, <1>2 DEF Inv

-----------------------------------------------------------------------------
(* The steps of run().                                                     *)

\* The steps of the preparation before the plan: nothing is added, written or spawned.
Preparing == {"config", "scratch", "cache", "rm", "clone", "cloning", "fetch"}

\* What they do: on to the next one, to the plan at the first repository, to the files if nothing is
\* mounted, or out with the abort's own outcome if there is an abort.
PrepStep(q) ==
  /\ pc[q] \in Preparing
  /\ \E s \in Steps, i \in Nat \ {0} :
       /\ pc' = [pc EXCEPT ![q] = s] /\ at' = [at EXCEPT ![q] = i]
       /\ outcome' = [outcome EXCEPT ![q] = outcome'[q]]
       /\ \/ s \in Preparing \ {"scratch"}
          \/ s = "plan" /\ i = 1
          \/ s \in {"scratch", "files"} /\ Mounted(task[q]) = <<>> /\ Scope(task[q]).kind = "resolved"
          \/ s = "returned" /\ (signal[q] # "none" => outcome'[q] \in {"threw", "parked", "unplaced", signal[q]})
  /\ UNCHANGED <<task, try, want, trees, token, told, signal, proc>>

\* A step of the preparation keeps the invariant.
LEMMA PrepInv ==
  ASSUME NEW q \in Runs, Inv, PrepStep(q)
  PROVE  Inv'
<1>1. Typed /\ RunInv(q)
  BY DEF Inv
<1>2. PICK s \in Steps, i \in Nat \ {0} :
       /\ pc' = [pc EXCEPT ![q] = s] /\ at' = [at EXCEPT ![q] = i]
       /\ outcome' = [outcome EXCEPT ![q] = outcome'[q]]
       /\ \/ s \in Preparing \ {"scratch"}
          \/ s = "plan" /\ i = 1
          \/ s \in {"scratch", "files"} /\ Mounted(task[q]) = <<>> /\ Scope(task[q]).kind = "resolved"
          \/ s = "returned" /\ (signal[q] # "none" => outcome'[q] \in {"threw", "parked", "unplaced", signal[q]})
  BY DEF PrepStep
<1>3. UNCHANGED <<task, try, want, trees, token, told, signal, proc>> /\ pc[q] \in Preparing
  BY DEF PrepStep
<1>4. Typed' /\ Only(q) /\ pc'[q] = s /\ at'[q] = i
  BY <1>1, <1>2, <1>3 DEF Typed, Only, Same
<1>5. proc[q] = NoProcess /\ token[q] = FALSE
  BY <1>1, <1>3 DEF RunInv, ProcOk, TokenOk, Typed, Preparing
<1>6. NoProcess.close = "no" /\ NoProcess.stage = "none"
  BY DEF NoProcess
<1>7. ProcOk(s, proc[q]) /\ TokenOk(s, token[q])
  BY <1>2, <1>5, NoProcessSound DEF ProcOk, TokenOk, Preparing
<1>8. TreeOk(task[q], s, i, try[q], trees[q]) /\ PlanOk(task[q], s, want[q], told[q])
  <2>1. Mounted(task[q]) = <<>> => ToSet(Mounted(task[q])) = {}
    BY DEF ToSet
  <2> QED
    BY <1>2, <2>1 DEF TreeOk, PlanOk, Preparing, Prepared
<1>9. OutOk(s, outcome'[q], signal[q], proc[q])
  BY <1>2, <1>5, <1>6 DEF OutOk, Preparing
<1>10. RunInv(q)'
  BY <1>3, <1>4, <1>7, <1>8, <1>9 DEF RunInv
<1> QED
  BY <1>4, <1>10, Framed

\* ensureCache that goes on to the next repository or to the plan.
LEMMA AdvanceFacts ==
  ASSUME NEW q \in Runs, Typed, NEW loop \in Steps, NEW then \in Steps, Advance(q, loop, then)
  PROVE  \E s \in Steps, i \in Nat \ {0} :
           /\ pc' = [pc EXCEPT ![q] = s] /\ at' = [at EXCEPT ![q] = i]
           /\ \/ s = loop /\ at[q] < Len(Mounted(task[q])) /\ i = at[q] + 1
              \/ s = then /\ ~(at[q] < Len(Mounted(task[q]))) /\ i = 1
<1>1. at[q] \in Nat /\ at[q] # 0 /\ at[q] + 1 \in Nat \ {0}
  BY DEF Typed
<1>2. CASE at[q] < Len(Mounted(task[q]))
  BY <1>1, <1>2 DEF Advance, Goto
<1>3. CASE ~(at[q] < Len(Mounted(task[q])))
  BY <1>1, <1>3 DEF Advance, Goto
<1> QED
  BY <1>2, <1>3

\* The ends of a step of the preparation: on, out, or on to the next repository.
LEMMA PrepForms ==
  ASSUME NEW q \in Runs, Typed, pc[q] \in Preparing,
         UNCHANGED <<task, try, want, trees, token, told, signal, proc>>
  PROVE  /\ \A s \in Preparing \ {"scratch"} : Goto(q, s) /\ UNCHANGED <<at, outcome>> => PrepStep(q)
         /\ \A o : Return(q, o) /\ UNCHANGED at
                   /\ (signal[q] # "none" => o \in {"threw", "parked", "unplaced", signal[q]}) => PrepStep(q)
         /\ Advance(q, "cache", "plan") /\ UNCHANGED outcome => PrepStep(q)
<1>1. /\ at = [at EXCEPT ![q] = at[q]] /\ outcome = [outcome EXCEPT ![q] = outcome[q]]
      /\ at[q] \in Nat \ {0}
  BY DEF Typed
<1>2. ASSUME NEW s \in Preparing \ {"scratch"}, Goto(q, s), UNCHANGED <<at, outcome>> PROVE PrepStep(q)
  <2>1. s \in Steps
    BY DEF Preparing, Steps
  <2>2. pc' = [pc EXCEPT ![q] = s] /\ at' = [at EXCEPT ![q] = at[q]]
        /\ outcome' = [outcome EXCEPT ![q] = outcome[q]]
    BY <1>1, <1>2 DEF Goto
  <2> QED
    BY <1>1, <2>1, <2>2 DEF PrepStep
<1>3. ASSUME NEW o, Return(q, o), UNCHANGED at,
             signal[q] # "none" => o \in {"threw", "parked", "unplaced", signal[q]}
      PROVE  PrepStep(q)
  <2>1. "returned" \in Steps
    BY DEF Steps
  <2>2. pc' = [pc EXCEPT ![q] = "returned"] /\ at' = [at EXCEPT ![q] = at[q]]
        /\ outcome' = [outcome EXCEPT ![q] = o]
    BY <1>1, <1>3 DEF Goto, Return
  <2>3. outcome'[q] = o /\ outcome' = [outcome EXCEPT ![q] = outcome'[q]]
    BY <2>2 DEF Typed
  <2> QED
    BY <1>1, <1>3, <2>1, <2>2, <2>3 DEF PrepStep
<1>4. ASSUME Advance(q, "cache", "plan"), UNCHANGED outcome PROVE PrepStep(q)
  <2>1. "cache" \in Steps /\ "plan" \in Steps /\ "cache" \in Preparing
    BY DEF Steps, Preparing
  <2>2. PICK s \in Steps, i \in Nat \ {0} :
           /\ pc' = [pc EXCEPT ![q] = s] /\ at' = [at EXCEPT ![q] = i]
           /\ s = "cache" \/ (s = "plan" /\ i = 1)
    BY <1>4, <2>1, AdvanceFacts
  <2>3. outcome' = [outcome EXCEPT ![q] = outcome[q]]
    BY <1>1, <1>4
  <2> QED
    BY <2>1, <2>2, <2>3 DEF PrepStep
<1> QED
  BY <1>2, <1>3, <1>4

\* loadRunConfig, and the steps of ensureCache.
LEMMA CacheSteps ==
  ASSUME NEW q \in Runs, Inv,
         Config(q) \/ Scratch(q) \/ CacheCheck(q) \/ CacheRemove(q) \/ Fetch(q) \/ CloneStarts(q) \/ CloneEnds(q)
  PROVE  Inv'
<1>1. Typed
  BY DEF Inv
<1>2. pc[q] \in Preparing /\ UNCHANGED <<task, try, want, trees, token, told, signal, proc>>
  BY DEF Config, Scratch, CacheCheck, CacheRemove, Fetch, CloneStarts, CloneEnds, Keeps, KeepsPlan, Preparing
<1>3. /\ {"cache", "rm", "clone", "cloning", "fetch"} \subseteq Preparing \ {"scratch"}
      /\ signal[q] # "none" => Failed(q) = signal[q]
  BY DEF Preparing, Failed, Aborted
<1>11. ASSUME NEW s \in {"scratch", "files"}, Goto(q, s), UNCHANGED <<at, outcome>>,
              Mounted(task[q]) = <<>>, Scope(task[q]).kind = "resolved"
      PROVE  PrepStep(q)
  <2>1. /\ pc' = [pc EXCEPT ![q] = s] /\ at' = [at EXCEPT ![q] = at[q]]
        /\ outcome' = [outcome EXCEPT ![q] = outcome[q]] /\ at[q] \in Nat \ {0}
    BY <1>1, <1>11 DEF Goto, Typed
  <2>2. s \in Steps
    BY DEF Steps
  <2> QED
    BY <1>2, <1>11, <2>1, <2>2 DEF PrepStep
<1>4. CASE Config(q)
  <2>1. \/ \E o \in {"threw", "parked"} : Return(q, o) /\ UNCHANGED at
        \/ Return(q, signal[q]) /\ UNCHANGED at
        \/ /\ Goto(q, "cache") /\ UNCHANGED <<at, outcome>>
        \/ /\ Goto(q, "scratch") /\ UNCHANGED <<at, outcome>>
           /\ Mounted(task[q]) = <<>> /\ Scope(task[q]).kind = "resolved"
    BY <1>4 DEF Config, Mounted
  <2> QED
    BY <1>1, <1>2, <1>3, <1>11, <2>1, PrepForms, PrepInv
<1>10. CASE Scratch(q)
  <2>1. \/ Goto(q, "files") /\ UNCHANGED <<at, outcome>>
        \/ Return(q, "unplaced") /\ UNCHANGED at
    BY <1>10 DEF Scratch
  <2>2. Mounted(task[q]) = <<>> /\ Scope(task[q]).kind = "resolved"
    BY <1>10 DEF Scratch, Inv, RunInv, PlanOk
  <2> QED
    BY <1>1, <1>2, <1>11, <2>1, <2>2, PrepForms, PrepInv
<1>5. CASE CacheCheck(q)
  <2>1. \/ Return(q, signal[q]) /\ UNCHANGED at
        \/ \E s \in {"rm", "clone", "fetch"} : Goto(q, s) /\ UNCHANGED <<at, outcome>>
    BY <1>5 DEF CacheCheck
  <2> QED
    BY <1>1, <1>2, <1>3, <2>1, PrepForms, PrepInv
<1>6. CASE CacheRemove(q)
  <2>1. Goto(q, "clone") /\ UNCHANGED <<at, outcome>>
    BY <1>6 DEF CacheRemove
  <2> QED
    BY <1>1, <1>2, <1>3, <2>1, PrepForms, PrepInv
<1>7. CASE Fetch(q)
  <2>1. \/ Advance(q, "cache", "plan") /\ UNCHANGED outcome
        \/ Return(q, Failed(q)) /\ UNCHANGED at
        \/ Goto(q, "clone") /\ UNCHANGED <<at, outcome>>
    BY <1>7 DEF Fetch, CacheRefreshed
  <2> QED
    BY <1>1, <1>2, <1>3, <2>1, PrepForms, PrepInv
<1>8. CASE CloneStarts(q)
  <2>1. \/ Goto(q, "cloning") /\ UNCHANGED <<at, outcome>>
        \/ Return(q, Failed(q)) /\ UNCHANGED at
    BY <1>8 DEF CloneStarts
  <2> QED
    BY <1>1, <1>2, <1>3, <2>1, PrepForms, PrepInv
<1>9. CASE CloneEnds(q)
  <2>1. \/ Advance(q, "cache", "plan") /\ UNCHANGED outcome
        \/ Return(q, Failed(q)) /\ UNCHANGED at
    BY <1>9 DEF CloneEnds, CacheRefreshed
  <2> QED
    BY <1>1, <1>2, <1>3, <2>1, PrepForms, PrepInv
<1> QED
  BY <1>4, <1>5, <1>6, <1>7, <1>8, <1>9, <1>10

\* The processor calls run(), and calls it again with a signal of its own.
LEMMA CallSteps ==
  ASSUME NEW q \in Runs, Inv, Begin(q) \/ Again(q)
  PROVE  Inv'
<1>1. Typed /\ RunInv(q) /\ "config" \in Steps /\ "none" \in {"none", "timeout", "cancelled"}
  BY DEF Inv, Steps
<1>2. CASE Begin(q)
  <2>1. Typed' /\ Only(q) /\ pc'[q] = "config" /\ proc'[q] = proc[q] /\ token'[q] = token[q]
    BY <1>1, <1>2 DEF Begin, Goto, Typed, Only, Same
  <2>2. pc[q] = "idle"
    BY <1>2 DEF Begin
  <2>3. RunInv(q)'
    BY <1>1, <2>1, <2>2 DEF RunInv, ProcOk, TokenOk, TreeOk, PlanOk, OutOk, Prepared
  <2> QED
    BY <2>1, <2>3, Framed
<1>3. CASE Again(q)
  <2>1. try[q] + 1 \in Nat /\ 1 \in Nat \ {0}
    BY <1>1 DEF Typed
  <2>2. Typed' /\ Only(q) /\ pc'[q] = "config" /\ proc'[q] = NoProcess /\ token'[q] = token[q]
    BY <1>1, <1>3, <2>1 DEF Again, Goto, Typed, Only, Same
  <2>3. pc[q] = "returned"
    BY <1>3 DEF Again
  <2>4. RunInv(q)'
    BY <1>1, <2>2, <2>3, NoProcessSound DEF RunInv, ProcOk, TokenOk, TreeOk, PlanOk, OutOk, Prepared
  <2> QED
    BY <2>2, <2>4, Framed
<1> QED
  BY <1>2, <1>3

\* The abort signal fires: it reaches a process that is there and whose close is not being handled.
LEMMA AbortStep ==
  ASSUME NEW q \in Runs, Inv, NEW why \in {"timeout", "cancelled"}, Abort(q, why)
  PROVE  Inv'
<1>1. Typed /\ RunInv(q)
  BY DEF Inv
<1>2. /\ pc[q] \notin {"idle", "returned"} /\ UNCHANGED wsVars
      /\ signal' = [signal EXCEPT ![q] = why] /\ proc' = [proc EXCEPT ![q] = OnAbort(@, why)]
  BY DEF Abort
<1>3. PICK p, d : p = proc[q] /\ d = OnAbort(p, why)
  OBVIOUS
<1>4. Typed' /\ Only(q) /\ proc'[q] = d /\ UNCHANGED wsVars
  BY <1>1, <1>2, <1>3 DEF Typed, Only, Same, wsVars
<1>5. ProcSound(p)
  BY <1>1, <1>3 DEF RunInv, ProcOk
<1>6. /\ ProcSound(d) /\ (d.stage = "none" <=> p.stage = "none") /\ (p.stage = "none" => d = p)
      /\ (p.close = "done" => d = p) /\ d.close = p.close
  BY <1>3, <1>5, AbortFacts
<1>7. NoProcess.stage = "none"
  BY DEF NoProcess
<1>8. ProcOk(pc[q], d)
  BY <1>1, <1>3, <1>6, <1>7 DEF RunInv, ProcOk
<1>9. OutOk(pc[q], outcome[q], signal'[q], d)
  BY <1>1, <1>2, <1>3, <1>6 DEF RunInv, OutOk
<1>10. RunInv(q)'
  BY <1>1, <1>4, <1>8, <1>9 DEF RunInv, wsVars
<1> QED
  BY <1>4, <1>10, Framed

\* resolveInheritance: the plan, or an exit before anything is added.
LEMMA InheritStep ==
  ASSUME NEW q \in Runs, Inv, Inherit(q)
  PROVE  Inv'
<1>1. Typed /\ RunInv(q) /\ pc[q] = "plan"
  BY DEF Inv, Inherit
<1>2. proc[q] = NoProcess /\ token[q] = FALSE /\ at[q] = 1
  BY <1>1 DEF RunInv, ProcOk, TokenOk, TreeOk, Typed
<1>3. NoProcess.close = "no" /\ NoProcess.stage = "none"
  BY DEF NoProcess
<1>4. UNCHANGED <<task, try, signal, at, trees, token, proc>>
  BY DEF Inherit, Keeps
<1>5. ASSUME NEW o, Return(q, o), UNCHANGED <<want, told>>, signal[q] # "none" => o = signal[q]
      PROVE  Inv'
  <2>1. "returned" \in Steps
    BY DEF Steps
  <2>2. Typed' /\ Only(q) /\ pc'[q] = "returned" /\ outcome'[q] = o
    BY <1>1, <1>4, <1>5, <2>1 DEF Return, Goto, Typed, Only, Same
  <2>3. RunInv(q)'
    BY <1>2, <1>3, <1>4, <1>5, <2>2, NoProcessSound
       DEF RunInv, ProcOk, TokenOk, TreeOk, PlanOk, OutOk, Prepared
  <2> QED
    BY <2>2, <2>3, Framed
<1>6. CASE Aborted(q) /\ Return(q, signal[q]) /\ UNCHANGED <<want, told>>
  BY <1>5, <1>6
<1>7. CASE ~Aborted(q) /\ Return(q, "crashed") /\ UNCHANGED <<want, told>>
  BY <1>5, <1>7 DEF Aborted
<1>8. CASE /\ want' = [want EXCEPT ![q] = [repo \in Repos |->
                IF repo \in ToSet(Mounted(task[q])) THEN Branches(task[q], repo, Refs[repo]) ELSE {}]]
           /\ told' = [told EXCEPT ![q] = Told(task[q], Refs)]
           /\ Goto(q, "add") /\ UNCHANGED outcome
  <2>1. PICK t, refs : t = task[q] /\ refs = Refs
    OBVIOUS
  <2>2. PICK w, o : /\ w = [repo \in Repos |-> IF repo \in ToSet(Mounted(t))
                                               THEN Branches(t, repo, refs[repo]) ELSE {}]
                    /\ o = Told(t, refs)
    OBVIOUS
  <2>3. Planned(t, w, o)
    BY <2>2 DEF Planned
  <2>4. want' = [want EXCEPT ![q] = w] /\ told' = [told EXCEPT ![q] = o]
    BY <1>8, <2>1, <2>2
  <2>5. "add" \in Steps /\ pc' = [pc EXCEPT ![q] = "add"]
    BY <1>8 DEF Steps, Goto
  <2>6. UNCHANGED outcome
    BY <1>8
  <2>7. Typed' /\ Only(q) /\ pc'[q] = "add" /\ want'[q] = w /\ told'[q] = o
    BY <1>1, <1>4, <2>4, <2>5, <2>6 DEF Typed, Only, Same
  <2>8. ProcOk("add", proc[q]) /\ TokenOk("add", token[q])
        /\ OutOk("add", outcome[q], signal[q], proc[q])
    BY <1>2, <1>3, NoProcessSound DEF ProcOk, TokenOk, OutOk
  <2>9. TreeOk(t, "add", at[q], try[q], trees[q])
    <3>1. \A j \in 1..Len(Mounted(t)) : ~(j < 1)
      OBVIOUS
    <3> QED
      BY <1>2, <3>1 DEF TreeOk, Prepared
  <2>10. PlanOk(t, "add", w, o)
    BY <2>3 DEF PlanOk
  <2>11. RunInv(q)'
    BY <1>4, <2>1, <2>6, <2>7, <2>8, <2>9, <2>10 DEF RunInv
  <2> QED
    BY <2>7, <2>11, Framed
<1> QED
  <2>1. \/ Aborted(q) /\ Return(q, signal[q]) /\ UNCHANGED <<want, told>>
        \/ ~Aborted(q) /\ Return(q, "crashed") /\ UNCHANGED <<want, told>>
        \/ /\ want' = [want EXCEPT ![q] = [repo \in Repos |->
                IF repo \in ToSet(Mounted(task[q])) THEN Branches(task[q], repo, Refs[repo]) ELSE {}]]
           /\ told' = [told EXCEPT ![q] = Told(task[q], Refs)]
           /\ Goto(q, "add") /\ UNCHANGED outcome
    BY DEF Inherit
  <2> QED
    BY <1>6, <1>7, <1>8, <2>1

\* The task of a run is one of the tasks it may have.
LEMMA TaskFacts ==
  ASSUME Typed, NEW q \in Runs
  PROVE  task[q] \in TaskType /\ OneKeyEach(task[q])
BY TaskAssumption DEF Typed, OneKeyEach

\* addRepoWorktree: all or none, and only this call's worktrees.
LEMMA AddTreeStep ==
  ASSUME NEW q \in Runs, Inv, AddTree(q)
  PROVE  Inv'
<1>1. Typed /\ RunInv(q) /\ pc[q] = "add"
  BY DEF Inv, AddTree
<1>2. proc[q] = NoProcess /\ token[q] = FALSE
  BY <1>1 DEF RunInv, ProcOk, TokenOk, Typed
<1>3. NoProcess.close = "no" /\ NoProcess.stage = "none"
  BY DEF NoProcess
<1>4. UNCHANGED <<task, try, signal, want, token, proc>>
  BY DEF AddTree, Keeps
<1>5. ASSUME NEW o, Unwind(q, o), NEW x, told' = [told EXCEPT ![q] = x], signal[q] # "none" => o = signal[q]
      PROVE  Inv'
  <2>1. "returned" \in Steps /\ NoTrees \in [Repos -> Nat]
    BY DEF Steps, NoTrees
  <2>2. Typed' /\ Only(q) /\ pc'[q] = "returned" /\ outcome'[q] = o
    BY <1>1, <1>4, <1>5, <2>1 DEF Unwind, Return, Goto, Typed, Only, Same
  <2>3. RunInv(q)'
    BY <1>2, <1>3, <1>4, <1>5, <2>2, NoProcessSound
       DEF RunInv, ProcOk, TokenOk, TreeOk, PlanOk, OutOk, Prepared
  <2> QED
    BY <2>2, <2>3, Framed
<1>6. CASE Unwind(q, Failed(q)) /\ UNCHANGED told
  <2>1. told' = [told EXCEPT ![q] = told[q]]
    BY <1>1, <1>6 DEF Typed
  <2>2. signal[q] # "none" => Failed(q) = signal[q]
    BY DEF Failed, Aborted
  <2> QED
    BY <1>5, <1>6, <2>1, <2>2
<1>7. CASE ~Aborted(q) /\ Unwind(q, "crashed") /\ told' = [told EXCEPT ![q] = @ \cup {<<"conflict", Repo(q)>>}]
  BY <1>5, <1>7 DEF Aborted
<1>8. CASE TreeAdded(q)
  <2>1. PICK t, i, n, m, mine : /\ t = task[q] /\ i = at[q] /\ n = try[q] /\ m = Mounted(t)
                                /\ mine = trees[q]
    OBVIOUS
  <2>2. /\ m \in Seq(Repos) /\ i \in Nat \ {0} /\ n \in Nat /\ mine \in [Repos -> Nat]
        /\ Len(m) \in Nat /\ DOMAIN m = 1..Len(m)
    BY <1>1, <2>1, TaskFacts, MountedFacts DEF Typed
  <2>3. PICK tr : tr = [mine EXCEPT ![m[i]] = n]
    OBVIOUS
  <2>4. trees' = [trees EXCEPT ![q] = tr]
    BY <1>1, <1>8, <2>1, <2>3 DEF TreeAdded, Repo, Typed
  <2>5. tr \in [Repos -> Nat] /\ \A repo \in Repos : tr[repo] = IF repo = m[i] THEN n ELSE mine[repo]
    BY <2>2, <2>3
  <2>6. \A j \in 1..Len(m) : j < i => tr[m[j]] = n
    <3>1. \A j \in 1..Len(m) : j < i => mine[m[j]] = n
      BY <1>1, <2>1 DEF RunInv, TreeOk
    <3>2. \A j \in 1..Len(m) : m[j] \in Repos
      BY <2>2
    <3> QED
      BY <2>5, <3>1, <3>2
  <2>7. i \in 1..Len(m) => tr[m[i]] = n
    <3>1. i \in 1..Len(m) => m[i] \in Repos
      BY <2>2
    <3> QED
      BY <2>5, <3>1
  <2>8. "add" \in Steps /\ "record" \in Steps
    BY DEF Steps
  <2>9. PICK s \in Steps, k \in Nat \ {0} :
          /\ pc' = [pc EXCEPT ![q] = s] /\ at' = [at EXCEPT ![q] = k]
          /\ \/ s = "add" /\ i < Len(m) /\ k = i + 1
             \/ s = "record" /\ ~(i < Len(m)) /\ k = 1
    BY <1>1, <1>8, <2>1, <2>8, AdvanceFacts DEF TreeAdded
  <2>10. UNCHANGED <<outcome, told>>
    BY <1>8 DEF TreeAdded
  <2>11. Typed' /\ Only(q) /\ pc'[q] = s /\ at'[q] = k /\ trees'[q] = tr
    BY <1>1, <1>4, <2>4, <2>5, <2>9, <2>10 DEF Typed, Only, Same
  <2>12. TreeOk(t, s, k, n, tr)
    <3>1. CASE s = "add" /\ i < Len(m) /\ k = i + 1
      <4>1. \A j \in 1..Len(m) : j < k => j < i \/ j = i
        BY <2>2, <3>1
      <4>2. \A j \in 1..Len(m) : j < k => tr[m[j]] = n
        BY <2>6, <2>7, <4>1
      <4> QED
        BY <2>1, <3>1, <4>2 DEF TreeOk, Prepared
    <3>2. CASE s = "record" /\ ~(i < Len(m)) /\ k = 1
      <4>1. \A j \in 1..Len(m) : j < i \/ j = i
        BY <2>2, <3>2
      <4>2. \A j \in 1..Len(m) : tr[m[j]] = n
        BY <2>6, <2>7, <4>1
      <4>3. \A repo \in ToSet(m) : tr[repo] = n
        BY <2>2, <4>2 DEF ToSet
      <4> QED
        BY <2>1, <3>2, <4>3 DEF TreeOk
    <3> QED
      BY <2>9, <3>1, <3>2
  <2>13. PlanOk(t, s, want[q], told[q])
    BY <1>1, <2>1, <2>9 DEF RunInv, PlanOk, Prepared
  <2>14. ProcOk(s, proc[q]) /\ TokenOk(s, token[q]) /\ OutOk(s, outcome[q], signal[q], proc[q])
    BY <1>2, <1>3, <2>9, NoProcessSound DEF ProcOk, TokenOk, OutOk
  <2>15. RunInv(q)'
    BY <1>4, <2>1, <2>10, <2>11, <2>12, <2>13, <2>14 DEF RunInv
  <2> QED
    BY <2>11, <2>15, Framed
<1> QED
  <2>1. \/ Unwind(q, Failed(q)) /\ UNCHANGED told
        \/ ~Aborted(q) /\ Unwind(q, "crashed") /\ told' = [told EXCEPT ![q] = @ \cup {<<"conflict", Repo(q)>>}]
        \/ TreeAdded(q)
    BY DEF AddTree
  <2> QED
    BY <1>6, <1>7, <1>8, <2>1

\* The steps that follow once the worktrees are there: on to the next one or out.
Onward(q, s, o, k, p) ==
  /\ pc' = [pc EXCEPT ![q] = s] /\ outcome' = [outcome EXCEPT ![q] = o]
  /\ token' = [token EXCEPT ![q] = k] /\ proc' = [proc EXCEPT ![q] = p]
  /\ UNCHANGED <<task, try, want, trees, told, signal, at>>

\* Between the worktrees and the end nothing but the step, the outcome, the token and the process moves.
LEMMA OnwardInv ==
  ASSUME NEW q \in Runs, Inv, pc[q] \in Prepared,
         NEW s \in Prepared \cup {"undo", "returned"}, NEW o, NEW k \in BOOLEAN, NEW p, Onward(q, s, o, k, p),
         ProcOk(s, p), TokenOk(s, k), OutOk(s, o, signal[q], p)
  PROVE  Inv'
<1>1. Typed /\ RunInv(q)
  BY DEF Inv
<1>2. s \in Steps
  BY DEF Prepared, Steps
<1>3. Typed' /\ Only(q) /\ pc'[q] = s /\ outcome'[q] = o /\ token'[q] = k /\ proc'[q] = p
  BY <1>1, <1>2 DEF Onward, Typed, Only, Same
<1>4. UNCHANGED <<task, try, want, trees, told, signal, at>>
  BY DEF Onward
<1>5. TreeOk(task[q], s, at[q], try[q], trees[q]) /\ PlanOk(task[q], s, want[q], told[q])
  BY <1>1 DEF RunInv, TreeOk, PlanOk, Prepared
<1>6. RunInv(q)'
  BY <1>3, <1>4, <1>5 DEF RunInv
<1> QED
  BY <1>3, <1>6, Framed

\* recordStartRefEvent and the worktree path, the bootstrap, the files.
LEMMA BootSteps ==
  ASSUME NEW q \in Runs, Inv, Record(q) \/ Bootstrap(q) \/ BootstrapReleased(q) \/ WriteFiles(q)
  PROVE  Inv'
<1>1. Typed /\ RunInv(q) /\ pc[q] \in {"record", "boot", "held", "files"} /\ pc[q] \in Prepared
  BY DEF Inv, Record, Bootstrap, BootstrapReleased, WriteFiles, Prepared
<1>2. /\ proc[q] = NoProcess /\ token[q] = FALSE
      /\ token = [token EXCEPT ![q] = token[q]] /\ proc = [proc EXCEPT ![q] = proc[q]]
      /\ outcome = [outcome EXCEPT ![q] = outcome[q]]
  BY <1>1 DEF RunInv, ProcOk, TokenOk, Typed
<1>3. NoProcess.close = "no" /\ NoProcess.stage = "none"
  BY DEF NoProcess
<1>4. UNCHANGED <<task, try, want, trees, told, signal, at, proc>>
  BY DEF Record, Bootstrap, BootstrapReleased, WriteFiles, Keeps, KeepsPlan
<1>5. signal[q] # "none" => Failed(q) = signal[q]
  BY DEF Failed, Aborted
<1>6. ASSUME NEW s \in {"boot", "held", "files", "spawn", "undo", "returned"}, NEW o, NEW k \in BOOLEAN,
             pc' = [pc EXCEPT ![q] = s], outcome' = [outcome EXCEPT ![q] = o],
             token' = [token EXCEPT ![q] = k], k = TRUE => s \in {"spawn", "undo"},
             s = "returned" => o = "threw" \/ (signal[q] # "none" => o = signal[q])
      PROVE  Inv'
  <2>1. s \in Prepared \cup {"undo", "returned"}
    BY DEF Prepared
  <2>2. Onward(q, s, o, k, proc[q])
    BY <1>2, <1>4, <1>6 DEF Onward
  <2>3. ProcOk(s, proc[q]) /\ TokenOk(s, k) /\ OutOk(s, o, signal[q], proc[q])
    BY <1>2, <1>3, <1>6, NoProcessSound DEF ProcOk, TokenOk, OutOk
  <2> QED
    BY <1>1, <2>1, <2>2, <2>3, OnwardInv
<1>7. CASE Record(q)
  <2>1. UNCHANGED token
    BY <1>7 DEF Record, KeepsPlan
  <2>2. \/ pc' = [pc EXCEPT ![q] = "boot"] /\ UNCHANGED outcome
        \/ \E o \in {Failed(q), "threw"} : pc' = [pc EXCEPT ![q] = "returned"] /\ outcome' = [outcome EXCEPT ![q] = o]
    BY <1>7 DEF Record, Return, Goto
  <2>3. CASE pc' = [pc EXCEPT ![q] = "boot"] /\ UNCHANGED outcome
    <3>1. token' = [token EXCEPT ![q] = FALSE] /\ outcome' = [outcome EXCEPT ![q] = outcome[q]]
      BY <1>2, <2>1, <2>3
    <3> QED
      BY <1>6, <2>3, <3>1
  <2>4. ASSUME NEW o \in {Failed(q), "threw"}, pc' = [pc EXCEPT ![q] = "returned"],
               outcome' = [outcome EXCEPT ![q] = o]
        PROVE  Inv'
    <3>1. token' = [token EXCEPT ![q] = FALSE]
      BY <1>2, <2>1
    <3> QED
      BY <1>5, <1>6, <2>4, <3>1
  <2> QED
    BY <2>2, <2>3, <2>4
<1>8. CASE Bootstrap(q) \/ BootstrapReleased(q)
  <2>1. token' = [token EXCEPT ![q] = FALSE]
    BY <1>2, <1>8 DEF Bootstrap, BootstrapReleased, KeepsPlan
  <2>2. \/ \E s \in {"held", "files"} :
             pc' = [pc EXCEPT ![q] = s] /\ outcome' = [outcome EXCEPT ![q] = outcome[q]]
        \/ pc' = [pc EXCEPT ![q] = "undo"] /\ outcome' = [outcome EXCEPT ![q] = Failed(q)]
    BY <1>2, <1>8 DEF Bootstrap, BootstrapReleased, Undo, Goto
  <2> QED
    BY <1>6, <2>1, <2>2
<1>9. CASE WriteFiles(q)
  <2>1. \/ /\ pc' = [pc EXCEPT ![q] = "spawn"] /\ outcome' = [outcome EXCEPT ![q] = outcome[q]]
           /\ token' = [token EXCEPT ![q] = TRUE]
        \/ /\ pc' = [pc EXCEPT ![q] = "undo"] /\ outcome' = [outcome EXCEPT ![q] = Failed(q)]
           /\ \E k \in BOOLEAN : token' = [token EXCEPT ![q] = k]
    BY <1>2, <1>9 DEF WriteFiles, Undo, Goto
  <2> QED
    BY <1>6, <2>1
<1> QED
  BY <1>7, <1>8, <1>9

\* The spawn, the settlement and the clean-up.
LEMMA EndSteps ==
  ASSUME NEW q \in Runs, Inv, Spawn(q) \/ Settled(q)
  PROVE  Inv'
<1>1. Typed /\ RunInv(q) /\ pc[q] \in {"spawn", "run"} /\ pc[q] \in Prepared
  BY DEF Inv, Spawn, Settled, Prepared
<1>2. /\ token = [token EXCEPT ![q] = token[q]] /\ proc = [proc EXCEPT ![q] = proc[q]]
      /\ outcome = [outcome EXCEPT ![q] = outcome[q]] /\ token[q] \in BOOLEAN
  BY <1>1 DEF Typed
<1>3. NoProcess.close = "no" /\ NoProcess.stage = "none"
  BY DEF NoProcess
<1>4. UNCHANGED <<task, try, want, trees, told, signal, at, token>>
  BY DEF Spawn, Settled, Keeps, KeepsPlan
<1>5. ASSUME NEW s \in {"run", "undo"}, NEW o, NEW p, ProcOk(s, p),
             s = "undo" /\ p.close = "done" => Verdict(p, o),
             pc' = [pc EXCEPT ![q] = s], outcome' = [outcome EXCEPT ![q] = o], proc' = [proc EXCEPT ![q] = p]
      PROVE  Inv'
  <2>1. s \in Prepared \cup {"undo", "returned"}
    BY DEF Prepared
  <2>2. Onward(q, s, o, token[q], p)
    BY <1>2, <1>4, <1>5 DEF Onward
  <2>3. TokenOk(s, token[q]) /\ OutOk(s, o, signal[q], p)
    BY <1>5 DEF TokenOk, OutOk
  <2> QED
    BY <1>1, <1>2, <1>5, <2>1, <2>2, <2>3, OnwardInv
<1>6. CASE Spawn(q)
  <2>1. proc[q] = NoProcess
    BY <1>1, <1>6 DEF RunInv, ProcOk, Spawn
  <2>2. \/ /\ pc' = [pc EXCEPT ![q] = "undo"] /\ outcome' = [outcome EXCEPT ![q] = signal[q]]
           /\ UNCHANGED proc
        \/ /\ pc' = [pc EXCEPT ![q] = "run"] /\ UNCHANGED outcome
           /\ proc' = [proc EXCEPT ![q] = Spawned(@, task[q].cli)]
        \/ /\ pc' = [pc EXCEPT ![q] = "run"] /\ UNCHANGED outcome
           /\ proc' = [proc EXCEPT ![q] = SpawnFailed(@)]
    BY <1>6 DEF Spawn, Undo, Goto
  <2>3. CASE /\ pc' = [pc EXCEPT ![q] = "undo"] /\ outcome' = [outcome EXCEPT ![q] = signal[q]]
             /\ UNCHANGED proc
    <3>1. ProcOk("undo", proc[q]) /\ proc' = [proc EXCEPT ![q] = proc[q]]
      BY <1>2, <2>1, <2>3, NoProcessSound DEF ProcOk
    <3> QED
      BY <1>3, <1>5, <2>1, <2>3, <3>1
  <2>4. ASSUME NEW p, Sound(NoProcess, p), pc' = [pc EXCEPT ![q] = "run"], UNCHANGED outcome,
               proc' = [proc EXCEPT ![q] = p]
        PROVE  Inv'
    <3>1. ProcOk("run", p)
      BY <2>4 DEF ProcOk, Sound
    <3> QED
      BY <1>2, <1>5, <2>4, <3>1
  <2> QED
    BY <2>1, <2>2, <2>3, <2>4, SpawnFacts
<1>7. CASE Settled(q)
  <2>1. /\ pc[q] = "run" /\ pc' = [pc EXCEPT ![q] = "undo"] /\ UNCHANGED proc
        /\ outcome' = [outcome EXCEPT ![q] = proc[q].result]
    BY <1>7 DEF Settled, Undo, Goto, KeepsPlan
  <2>2. ProcSound(proc[q])
    BY <1>1 DEF RunInv, ProcOk
  <2>3. ProcOk("undo", proc[q]) /\ (proc[q].close = "done" => Verdict(proc[q], proc[q].result))
    BY <2>2 DEF ProcOk, ProcSound
  <2> QED
    BY <1>2, <1>5, <2>1, <2>3
<1> QED
  BY <1>6, <1>7

\* The clean-up: the configuration first, and the abort that a preparation looks at last.
LEMMA CleanUpStep ==
  ASSUME NEW q \in Runs, Inv, CleanUp(q)
  PROVE  Inv'
<1>1. Typed /\ RunInv(q) /\ pc[q] = "undo"
  BY DEF Inv, CleanUp
<1>2. /\ UNCHANGED <<task, try, want, told, signal, at, proc>> /\ token' = [token EXCEPT ![q] = FALSE]
      /\ pc' = [pc EXCEPT ![q] = "returned"]
      /\ outcome' = [outcome EXCEPT ![q] =
           IF proc[q].stage = "none" /\ Aborted(q) THEN signal[q] ELSE outcome[q]]
      /\ trees' = trees \/ trees' = [trees EXCEPT ![q] = NoTrees]
  BY DEF CleanUp, Keeps, Unlink, Return, Goto
<1>3. "returned" \in Steps /\ NoTrees \in [Repos -> Nat]
  BY DEF Steps, NoTrees
<1>4. Typed' /\ Only(q) /\ pc'[q] = "returned" /\ token'[q] = FALSE
      /\ outcome'[q] = IF proc[q].stage = "none" /\ Aborted(q) THEN signal[q] ELSE outcome[q]
  BY <1>1, <1>2, <1>3 DEF Typed, Only, Same
<1>5. proc[q].stage = "none" => proc[q].close = "no"
  BY <1>1 DEF RunInv, ProcOk, ProcSound, NoProcess
<1>6. OutOk("returned", outcome'[q], signal[q], proc[q])
  BY <1>1, <1>4, <1>5 DEF RunInv, OutOk, Aborted
<1>7. ProcOk("returned", proc[q]) /\ TokenOk("returned", FALSE)
  BY <1>1 DEF RunInv, ProcOk, TokenOk
<1>8. RunInv(q)'
  BY <1>2, <1>4, <1>6, <1>7 DEF RunInv, TreeOk, PlanOk, Prepared
<1> QED
  BY <1>4, <1>8, Framed

\* runProcess: the steps of the process, while run() waits for it.
LEMMA ProcessStep ==
  ASSUME NEW q \in Runs, Inv, Process(q)
  PROVE  Inv'
<1>1. Typed /\ RunInv(q) /\ pc[q] = "run" /\ ProcNext(q) /\ UNCHANGED wsVars
  BY DEF Inv, Process
<1>2. ProcSound(proc[q]) /\ proc[q].stage # "none" /\ proc = [r \in Runs |-> proc[r]]
  BY <1>1 DEF RunInv, ProcOk, Typed
<1>3. ProcStep(q)
  BY <1>1, <1>2, ProcSteps
<1>4. PICK p : p = proc'[q]
  OBVIOUS
<1>5. proc' = [proc EXCEPT ![q] = p] /\ UNCHANGED signal /\ ProcSound(p) /\ p.stage # "none"
  BY <1>3, <1>4 DEF ProcStep, Sound
<1>6. Typed' /\ Only(q)
  BY <1>1, <1>5 DEF Typed, Only, Same, wsVars
<1>7. ProcOk("run", p) /\ OutOk("run", outcome[q], signal[q], p)
  BY <1>5 DEF ProcOk, OutOk
<1>8. RunInv(q)'
  BY <1>1, <1>4, <1>5, <1>7 DEF RunInv, wsVars
<1> QED
  BY <1>6, <1>8, Framed

\* Every step keeps the invariant: run() and its processor, the process, and the surroundings.
LEMMA StepInv == Inv /\ [Next]_vars => Inv'
<1> SUFFICES ASSUME Inv, [Next]_vars PROVE Inv'
  OBVIOUS
<1>1. ASSUME UNCHANGED <<wsVars, signal, proc>> PROVE Inv'
  BY <1>1 DEF Inv, Typed, RunInv, wsVars
<1>2. ASSUME NEW q \in Runs, RunStep(q) \/ BootstrapReleased(q) PROVE Inv'
  BY <1>2, CacheSteps, InheritStep, AddTreeStep, BootSteps, EndSteps, CleanUpStep DEF RunStep
<1>3. ASSUME NEW q \in Runs, \E why \in {"timeout", "cancelled"} : Abort(q, why) PROVE Inv'
  BY <1>3, AbortStep
<1>4. ASSUME NEW repo, Rot(repo) PROVE Inv'
  BY <1>1, <1>4 DEF Rot
<1>5. ASSUME NEW repo, NEW b, BranchGone(repo, b) PROVE Inv'
  BY <1>1, <1>5 DEF BranchGone
<1>6. CASE UNCHANGED vars
  BY <1>1, <1>6 DEF vars
<1> QED
  BY <1>2, <1>3, <1>4, <1>5, <1>6, CallSteps, ProcessStep DEF Next

\* The invariant holds whatever the runs, their tasks, the processes and the surroundings do.
LEMMA ExecutorInv == Spec => []Inv
<1> QED
  BY InitInv, StepInv, PTL DEF Spec

-----------------------------------------------------------------------------
(* The theorems.                                                           *)

\* The agent is handed only worktrees that this very call of run() has added: a tree that a failed
\* clean-up or a kept workspace has left is never worked in (addRepoWorktree, prepareAll).
THEOREM ExecutorFreshTrees == Spec => []FreshTrees
<1>1. Inv => FreshTrees
  BY DEF Inv, RunInv, TreeOk, FreshTrees, Prepared
<1> QED
  BY <1>1, ExecutorInv, PTL

\* Every open blocker's work is in the workspace or the timeline says that it is not, and a branch
\* of the ticket's own is continued (buildStartPlan, resolveInheritance, addRepoWorktree).
THEOREM ExecutorStartPoints == Spec => []StartPoints
<1> SUFFICES ASSUME Inv PROVE StartPoints
  <2>1. Inv => StartPoints
    OBVIOUS
  <2> QED
    BY <2>1, ExecutorInv, PTL
<1>1. ASSUME NEW r \in Runs, pc[r] = "run"
      PROVE  /\ Accounted(task[r], want[r], told[r])
             /\ task[r].kind = "ticket" => OwnContinued(task[r], want[r])
  <2>1. /\ Planned(task[r], want[r], told[r])
           \/ (Mounted(task[r]) = <<>> /\ Scope(task[r]).kind = "resolved")
        /\ task[r] \in TaskType /\ OneKeyEach(task[r])
    BY <1>1, TaskFacts DEF Inv, RunInv, PlanOk, Prepared
  <2>2. CASE Planned(task[r], want[r], told[r])
    BY <2>1, <2>2, PlannedAccounted, PlannedContinued
  <2>3. CASE Mounted(task[r]) = <<>> /\ Scope(task[r]).kind = "resolved"
    <3>1. task[r].kind # "ticket"
      BY <2>1, <2>3, MountedFacts
    <3>2. Blockers(task[r]) = <<>>
      BY <3>1 DEF Blockers
    <3> QED
      BY <3>1, <3>2 DEF Accounted
  <2> QED
    BY <2>1, <2>2, <2>3
<1>2. OpenBlockersAccounted
  BY <1>1 DEF OpenBlockersAccounted, Accounted
<1>3. OwnWorkContinued
  BY <1>1 DEF OwnWorkContinued, OwnContinued
<1> QED
  BY <1>2, <1>3 DEF StartPoints

\* A call of run() ends with the outcome that happened: the abort's own if it came before the spawn,
\* a cancel over everything, a rate limit over a late watchdog; and the file with the run token is
\* gone (run, handleClose, writeMcpConfig).
THEOREM ExecutorExitClean == Spec => []ExitClean
<1>1. Inv => ExitClean
  <2> SUFFICES ASSUME Inv, NEW r \in Runs, pc[r] = "returned"
               PROVE  /\ Aborted(r) /\ proc[r].stage = "none" /\ outcome[r] \notin {"threw", "parked", "unplaced"}
                           => outcome[r] = signal[r]
                      /\ proc[r].close = "done" /\ proc[r].abort = "cancelled" => outcome[r] = "cancelled"
                      /\ proc[r].close = "done" /\ proc[r].abort # "cancelled" /\ proc[r].rate
                           => outcome[r] = "rate_limited"
                      /\ ~token[r]
    BY DEF ExitClean, OutcomeHonest, TokenRemoved
  <2>1. /\ OutOk(pc[r], outcome[r], signal[r], proc[r]) /\ TokenOk(pc[r], token[r]) /\ IsProc(proc[r])
        /\ token[r] \in BOOLEAN
    BY DEF Inv, RunInv, ProcOk, ProcSound, Typed
  <2>2. proc[r].close = "done" => Verdict(proc[r], outcome[r])
    BY <2>1 DEF OutOk
  <2>3. proc[r].rate \in BOOLEAN
    BY <2>1 DEF IsProc
  <2>4. ~token[r]
    BY <2>1 DEF TokenOk
  <2> QED
    BY <2>1, <2>2, <2>3, <2>4 DEF Verdict, OutOk, Aborted
<1> QED
  BY <1>1, ExecutorInv, PTL
=============================================================================
