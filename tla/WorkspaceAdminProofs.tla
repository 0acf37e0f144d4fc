------------------------ MODULE WorkspaceAdminProofs ------------------------
(***************************************************************************)
(* The dashboard API of a workspace, for any requests, any number of       *)
(* slots, crashes and requests that are sent again: teams come whole, the  *)
(* orchestrator is one and on its key, and only the operator starts.       *)
(*                                                                         *)
(* A handler is a plan of statements.  Chain says which statement may      *)
(* follow which and which operation it belongs to; every plan that a       *)
(* request is given is such a chain (PlanStarts), and so is all that is    *)
(* left of one (ChainRest).  RosterInv says of the tables what is promised *)
(* of them (TablesInv), and of each call what its next statement relies on *)
(* (HeadOk): a merged write on a blob that no one but the operator has     *)
(* enabled, a delete on a row that is no orchestrator, a team on slugs     *)
(* that are distinct.                                                      *)
(*                                                                         *)
(* Every statement is one lemma, which shows that the slot makes Progress: *)
(* rows are only added or marked, so that what the other calls rely on     *)
(* still holds (CallGrows), and a statement that takes keys ends its call. *)
(*                                                                         *)
(* RaceInv counts: a create that finds its key taken has lost a try to a   *)
(* call that has ended.  The tries lost and the calls that may still come  *)
(* are never more than the requests there are.                             *)
(***************************************************************************)
EXTENDS WorkspaceAdmin, FiniteSetTheorems, SequenceTheorems, WellFoundedInduction, TLAPS

-----------------------------------------------------------------------------
(* Sequences, and the least of a set of numbers.                           *)

Listed(q) == q \in Seq(ToSet(q))

\* A sequence is a function on its positions.
LEMMA ListShape ==
  ASSUME NEW q, Listed(q)
  PROVE  Len(q) \in Nat /\ DOMAIN q = 1..Len(q)
BY DEF Listed

\* What is a sequence over some set is one over its elements.
LEMMA ListOf ==
  ASSUME NEW S, NEW q \in Seq(S)
  PROVE  Listed(q)
<1>1. Len(q) \in Nat /\ DOMAIN q = 1..Len(q)
  OBVIOUS
<1>2. \A i \in 1..Len(q) : q[i] \in ToSet(q)
  BY <1>1 DEF ToSet
<1>3. q \in [1..Len(q) -> ToSet(q)]
  BY <1>1, <1>2
<1> QED
  BY <1>1, <1>3 DEF Listed

\* A sequence is one over every set that holds its elements.
LEMMA ListIn ==
  ASSUME NEW q, Listed(q), NEW S, \A i \in 1..Len(q) : q[i] \in S
  PROVE  q \in Seq(S)
<1>1. q \in Seq(ToSet(q)) /\ Len(q) \in Nat
  BY ListShape DEF Listed
<1>2. q \in [1..Len(q) -> S]
  BY <1>1
<1> QED
  BY <1>1, <1>2

\* Appending one row.
LEMMA ListAppend ==
  ASSUME NEW q, Listed(q), NEW x
  PROVE  /\ Listed(Append(q, x)) /\ Len(Append(q, x)) = Len(q) + 1
         /\ \A i \in 1..Len(q) : Append(q, x)[i] = q[i]
         /\ Append(q, x)[Len(q) + 1] = x
<1>1. PICK S : S = ToSet(q) \cup {x}
  OBVIOUS
<1>2. q \in Seq(S)
  <2>1. \A i \in 1..Len(q) : q[i] \in S
    BY <1>1, ListShape DEF ToSet
  <2> QED
    BY <2>1, ListIn
<1>3. Append(q, x) \in Seq(S) /\ Len(Append(q, x)) = Len(q) + 1
  BY <1>1, <1>2
<1>4. \A i \in 1..(Len(q) + 1) : Append(q, x)[i] = IF i <= Len(q) THEN q[i] ELSE x
  BY <1>1, <1>2
<1>5. Listed(Append(q, x)) /\ Len(q) \in Nat
  BY <1>3, ListOf, ListShape
<1> QED
  BY <1>3, <1>4, <1>5

\* Appending several.
LEMMA ListConcat ==
  ASSUME NEW q, Listed(q), NEW r, Listed(r)
  PROVE  /\ Listed(q \o r) /\ Len(q \o r) = Len(q) + Len(r)
         /\ \A i \in 1..Len(q) : (q \o r)[i] = q[i]
         /\ \A i \in 1..Len(r) : (q \o r)[Len(q) + i] = r[i]
<1>1. PICK S : S = ToSet(q) \cup ToSet(r)
  OBVIOUS
<1>2. q \in Seq(S) /\ r \in Seq(S)
  <2>1. (\A i \in 1..Len(q) : q[i] \in S) /\ (\A i \in 1..Len(r) : r[i] \in S)
    BY <1>1, ListShape DEF ToSet
  <2> QED
    BY <2>1, ListIn
<1>3. q \o r \in Seq(S) /\ Len(q \o r) = Len(q) + Len(r)
  BY <1>2
<1>4. \A i \in 1..(Len(q) + Len(r)) :
        (q \o r)[i] = IF i <= Len(q) THEN q[i] ELSE r[i - Len(q)]
  BY <1>2
<1>5. Listed(q \o r) /\ Len(q) \in Nat /\ Len(r) \in Nat
  BY <1>3, ListOf, ListShape
<1>6. \A i \in 1..Len(q) : (q \o r)[i] = q[i]
  BY <1>4, <1>5
<1>7. \A i \in 1..Len(r) : (q \o r)[Len(q) + i] = r[i]
  BY <1>4, <1>5
<1> QED
  BY <1>3, <1>5, <1>6, <1>7

\* A function on the first numbers is a sequence.
LEMMA ListMap ==
  ASSUME NEW S, NEW n \in Nat, NEW r \in [1..n -> S]
  PROVE  r \in Seq(S) /\ Len(r) = n
OBVIOUS

Changed(q, i, x) == [q EXCEPT ![i] = x]

\* Changing one row.
LEMMA ListChange ==
  ASSUME NEW q, Listed(q), NEW i \in 1..Len(q), NEW x, NEW r, r = Changed(q, i, x)
  PROVE  /\ Listed(r) /\ Len(r) = Len(q)
         /\ r[i] = x /\ \A j \in 1..Len(q) : j # i => r[j] = q[j]
<1>2. PICK n \in Nat : n = Len(q) /\ DOMAIN q = 1..n
  BY ListShape
<1>3. DOMAIN r = 1..n /\ \A j \in 1..n : r[j] = IF j = i THEN x ELSE q[j]
  BY <1>2 DEF Changed
<1>4. PICK S : S = {r[j] : j \in 1..n}
  OBVIOUS
<1>5. r \in [1..n -> S]
  BY <1>2, <1>3, <1>4 DEF Changed
<1>6. r \in Seq(S) /\ Len(r) = n
  BY <1>5, ListMap, Zenon
<1> QED
  BY <1>2, <1>3, <1>6, ListOf

\* A list given by a function of its positions.
LEMMA ListMade ==
  ASSUME NEW n \in Nat, NEW r, DOMAIN r = 1..n, r = [i \in 1..n |-> r[i]]
  PROVE  Listed(r) /\ Len(r) = n
<1>1. PICK S : S = {r[j] : j \in 1..n}
  OBVIOUS
<1>2. r \in [1..n -> S]
  BY <1>1
<1>3. r \in Seq(S) /\ Len(r) = n
  BY <1>2
<1> QED
  BY <1>3, ListOf

\* The library's enumeration of a finite set has every element once.
LEMMA Enumerated ==
  ASSUME NEW S, IsFiniteSet(S)
  PROVE  /\ Listed(SetToSeq(S)) /\ Len(SetToSeq(S)) = Cardinality(S)
         /\ \A i \in 1..Cardinality(S) : SetToSeq(S)[i] \in S
         /\ \A i, j \in 1..Cardinality(S) : SetToSeq(S)[i] = SetToSeq(S)[j] => i = j
         /\ \A x \in S : \E i \in 1..Cardinality(S) : SetToSeq(S)[i] = x
<1> DEFINE n == Cardinality(S)
<1>1. n \in Nat /\ ExistsBijection(1..n, S)
  BY FS_CardinalityType
<1>2. \E f \in [1..n -> S] : IsInjective(f)
  BY <1>1 DEF ExistsBijection, Bijection, Injection, IsInjective
<1>3. SetToSeq(S) \in [1..n -> S] /\ IsInjective(SetToSeq(S))
  BY <1>2 DEF SetToSeq
<1>4. IsFiniteSet(1..n) /\ Cardinality(1..n) = n
  BY <1>1, FS_Interval
<1>5. SetToSeq(S) \in Injection(1..n, S)
  BY <1>3 DEF Injection, IsInjective
<1>6. SetToSeq(S) \in Surjection(1..n, S)
  BY <1>4, <1>5, FS_Injection
<1>7. SetToSeq(S) \in Seq(S) /\ Len(SetToSeq(S)) = n
  BY <1>1, <1>3
<1> QED
  BY <1>3, <1>6, <1>7, ListOf DEF IsInjective, Surjection

\* The least of a set of numbers is in it.
LEMMA LeastIn ==
  ASSUME NEW K \in SUBSET Nat, K # {}
  PROVE  Min(K) \in K
<1>1. \E m \in K : \A k \in K : ~ (<<k, m>> \in OpToRel(<, Nat))
  BY NatLessThanWellFounded, WFMin, Zenon
<1>2. PICK m \in K : \A k \in K : ~ (<<k, m>> \in OpToRel(<, Nat))
  BY <1>1
<1>3. \A k \in K : ~(k < m)
  BY <1>2 DEF OpToRel
<1>4. \A k \in K : m <= k
  BY <1>3
<1> QED
  BY <1>4 DEF Min

\* ensureUniqueAgentKey answers with a key of the slug that is neither taken nor
\* reserved: of two more keys than are taken, one is free.
LEMMA FreeKey ==
  ASSUME NEW base, NEW taken, IsFiniteSet(taken)
  PROVE  /\ EnsureUniqueAgentKey(base, taken) \notin taken
         /\ EnsureUniqueAgentKey(base, taken) # ORCHESTRATOR_AGENT_KEY
         /\ EnsureUniqueAgentKey(base, taken)[1] = base
<1> DEFINE T == taken \cup ReservedKeys
           K == {n \in 1..(Cardinality(taken) + 2) : <<base, n>> \notin T}
<1>1. Cardinality(taken) \in Nat
  BY FS_CardinalityType
<1>2. IsFiniteSet(T) /\ Cardinality(T) <= Cardinality(taken) + 1 /\ Cardinality(T) \in Nat
  <2>1. PICK x : x = ORCHESTRATOR_AGENT_KEY /\ T = taken \cup {x}
    BY DEF ReservedKeys
  <2>2. /\ IsFiniteSet(taken \cup {x})
        /\ Cardinality(taken \cup {x}) = IF x \in taken THEN Cardinality(taken) ELSE Cardinality(taken) + 1
    BY FS_AddElement, Zenon
  <2> HIDE DEF T
  <2> QED
    BY <1>1, <2>1, <2>2
<1>3. ASSUME K = {} PROVE FALSE
  <2> DEFINE N == 1..(Cardinality(taken) + 2)
  <2>0. PICK f : f = [n \in N |-> <<base, n>>]
    OBVIOUS
  <2>1. IsFiniteSet(N) /\ Cardinality(N) = Cardinality(taken) + 2
    BY <1>1, FS_Interval
  <2>2. f \in [N -> T]
    BY <1>3, <2>0
  <2> HIDE DEF N, T
  <2>3. Cardinality(T) < Cardinality(N)
    BY <1>1, <1>2, <2>1
  <2>4. \E x, y \in N : x # y /\ f[x] = f[y]
    BY <1>2, <2>1, <2>2, <2>3, FS_PigeonHole, Zenon
  <2> QED
    BY <2>0, <2>4
<1>4. K \in SUBSET Nat
  BY <1>1
<1>5. Min(K) \in K
  BY <1>3, <1>4, LeastIn
<1> QED
  BY <1>5 DEF EnsureUniqueAgentKey, ReservedKeys

-----------------------------------------------------------------------------
(* Plans: which step may follow which, and which request takes a step.     *)

Leads(a, b) ==
  /\ a \notin {"insert", "teamInsert", "yaml", "put2"} /\ b # "delete"
  /\ b = "blobWrite" => a = "blobRead"
  /\ b = "runsRead" => a = "delTarget"
  /\ b = "insert" => a = "keys"
  /\ b = "resolve" => a = "profiles"
  /\ b = "teamKeys" => a = "resolve"
  /\ b = "teamInsert" => a = "teamKeys"
  /\ a = "orchRead" => b = "triage"
  /\ a = "triage" => b = "setupExec"
  /\ a = "setupExec" => b = "orchInsert"
  /\ a = "orchInsert" => b = "rowRead"
  /\ a = "ticketRead" => b = "ticketInsert"
  /\ a = "ticketInsert" => b = "trigger"
  /\ a = "count1" => b = "put1"
  /\ a = "put1" => b = "count2"
  /\ a = "count2" => b = "put2"

\* Steps that use what an earlier step has found out.
Later == {"blobWrite", "runsRead", "delete", "insert", "resolve", "teamKeys", "teamInsert"}

Belongs(step, op) ==
  /\ step \in {"resolve", "teamKeys", "teamInsert"} => op \in {"team", "report"}
  /\ step \in {"keys", "insert"} => op = "agentCreate"
  /\ step \in {"delTarget", "runsRead", "delete"} => op = "agentDelete"
  /\ step = "yaml" => op = "yaml"

Chain(p, op) ==
  /\ Listed(p)
  /\ \A i \in 1..Len(p) : Belongs(p[i], op)
  /\ \A i, j \in 1..Len(p) : j = i + 1 => Leads(p[i], p[j])

\* What is left of a plan after some steps is a plan.
LEMMA ChainRest ==
  ASSUME NEW p, NEW op, Chain(p, op), p # <<>>
  PROVE  /\ Len(p) \in Nat \ {0} /\ Head(p) = p[1] /\ Chain(Tail(p), op)
         /\ Tail(p) # <<>> => Leads(Head(p), Head(Tail(p))) /\ Len(p) >= 2 /\ Head(Tail(p)) = p[2]
         /\ Belongs(Head(p), op)
<1> PICK S : p \in Seq(S)
  BY DEF Chain, Listed
<1>1. Len(p) \in Nat \ {0} /\ Head(p) = p[1]
  OBVIOUS
<1>2. /\ Tail(p) \in Seq(S) /\ Len(Tail(p)) = Len(p) - 1
      /\ \A i \in 1..(Len(p) - 1) : Tail(p)[i] = p[i + 1]
  BY <1>1
<1>0. Listed(Tail(p))
  BY <1>2, ListOf
<1>3. \A i \in 1..Len(Tail(p)) : Belongs(Tail(p)[i], op)
  BY <1>1, <1>2 DEF Chain
<1>4. \A i, j \in 1..Len(Tail(p)) : j = i + 1 => Leads(Tail(p)[i], Tail(p)[j])
  <2>1. SUFFICES ASSUME NEW i \in 1..Len(Tail(p)), i + 1 \in 1..Len(Tail(p))
                 PROVE  Leads(Tail(p)[i], Tail(p)[i + 1])
    OBVIOUS
  <2>2. i + 1 \in 1..Len(p) /\ (i + 1) + 1 \in 1..Len(p)
    BY <1>1, <1>2, <2>1
  <2> QED
    BY <1>2, <2>1, <2>2 DEF Chain
<1>5. ASSUME Tail(p) # <<>>
      PROVE  Leads(Head(p), Head(Tail(p))) /\ Len(p) >= 2 /\ Head(Tail(p)) = p[2]
  <2>1. Len(p) >= 2 /\ Head(Tail(p)) = p[2]
    BY <1>1, <1>2, <1>5
  <2> QED
    BY <1>1, <2>1 DEF Chain
<1> QED
  BY <1>0, <1>1, <1>2, <1>3, <1>4, <1>5 DEF Chain

\* The rest of a plan from its n-th step on.
LEMMA ChainFrom ==
  ASSUME NEW p, NEW op, Chain(p, op), NEW n \in 1..9
  PROVE  /\ Chain(SubSeq(p, n, Len(p)), op)
         /\ SubSeq(p, n, Len(p)) # <<>> => Len(p) >= n /\ Head(SubSeq(p, n, Len(p))) = p[n]
<1>1. PICK r : r = SubSeq(p, n, Len(p))
  OBVIOUS
<1> PICK S : p \in Seq(S)
  BY DEF Chain, Listed
<1>2. p \in Seq(S) /\ Len(p) \in Nat
  OBVIOUS
<1>3. /\ r \in Seq(S)
      /\ Len(r) = IF n <= Len(p) THEN Len(p) - n + 1 ELSE 0
      /\ \A i \in 1..Len(r) : r[i] = p[n + i - 1]
  BY <1>1, <1>2
<1>4. \A i \in 1..Len(r) : n + i - 1 \in 1..Len(p)
  BY <1>2, <1>3
<1>5. \A i \in 1..Len(r) : Belongs(r[i], op)
  BY <1>3, <1>4 DEF Chain
<1>6. \A i, j \in 1..Len(r) : j = i + 1 => Leads(r[i], r[j])
  <2>1. SUFFICES ASSUME NEW i \in 1..Len(r), i + 1 \in 1..Len(r) PROVE Leads(r[i], r[i + 1])
    OBVIOUS
  <2>2. n + (i + 1) - 1 = (n + i - 1) + 1
    BY <1>3
  <2> QED
    BY <1>3, <1>4, <2>1, <2>2 DEF Chain
<1>7. r # <<>> => Len(p) >= n /\ Head(r) = p[n]
  BY <1>2, <1>3
<1>8. Listed(r)
  BY <1>3, ListOf
<1> QED
  BY <1>1, <1>5, <1>6, <1>7, <1>8 DEF Chain

\* One plan after another.
LEMMA ChainJoin ==
  ASSUME NEW p, NEW q, NEW op, Chain(p, op), Chain(q, op),
         p # <<>> /\ q # <<>> => Leads(p[Len(p)], q[1])
  PROVE  /\ Chain(p \o q, op)
         /\ p # <<>> => (p \o q)[1] = p[1]
         /\ p = <<>> => p \o q = q
         /\ q # <<>> => (p \o q)[Len(p \o q)] = q[Len(q)]
         /\ q = <<>> => p \o q = p
         /\ p \o q = <<>> => p = <<>> /\ q = <<>>
<1>1. PICK r : r = p \o q
  OBVIOUS
<1> PICK S : S = ToSet(p) \cup ToSet(q)
  OBVIOUS
<1>2. p \in Seq(S) /\ q \in Seq(S) /\ Len(p) \in Nat /\ Len(q) \in Nat
  <2>1. Listed(p) /\ Listed(q)
    BY DEF Chain
  <2>2. (\A i \in 1..Len(p) : p[i] \in S) /\ (\A i \in 1..Len(q) : q[i] \in S)
    BY <2>1, ListShape DEF ToSet
  <2> QED
    BY <2>1, <2>2, ListIn, ListShape
<1>3. /\ r \in Seq(S) /\ Len(r) = Len(p) + Len(q)
      /\ \A i \in 1..Len(r) : r[i] = IF i <= Len(p) THEN p[i] ELSE q[i - Len(p)]
  BY <1>1, <1>2
<1>4. ASSUME NEW i \in 1..Len(r) PROVE Belongs(r[i], op)
  <2>1. CASE i <= Len(p)
    BY <1>2, <1>3, <2>1 DEF Chain
  <2>2. CASE i > Len(p)
    <3>1. i - Len(p) \in 1..Len(q) /\ r[i] = q[i - Len(p)]
      BY <1>2, <1>3, <2>2
    <3> QED
      BY <3>1 DEF Chain
  <2> QED
    BY <1>2, <2>1, <2>2
<1>5. \A i, j \in 1..Len(r) : j = i + 1 => Leads(r[i], r[j])
  <2>1. SUFFICES ASSUME NEW i \in 1..Len(r), i + 1 \in 1..Len(r) PROVE Leads(r[i], r[i + 1])
    OBVIOUS
  <2>2. CASE i + 1 <= Len(p)
    <3>1. i \in 1..Len(p) /\ i + 1 \in 1..Len(p) /\ r[i] = p[i] /\ r[i + 1] = p[i + 1]
      BY <1>2, <1>3, <2>1, <2>2
    <3> QED
      BY <3>1 DEF Chain
  <2>3. CASE i = Len(p)
    <3>1. r[i] = p[Len(p)] /\ p # <<>>
      BY <1>2, <1>3, <2>1, <2>3
    <3>2. ~(i + 1 <= Len(p)) /\ i + 1 - Len(p) = 1 /\ q # <<>>
      BY <1>2, <1>3, <2>1, <2>3
    <3>3. r[i + 1] = q[1]
      BY <1>3, <2>1, <3>2
    <3> QED
      BY <3>1, <3>2, <3>3
  <2>4. CASE i > Len(p)
    <3>1. /\ i - Len(p) \in 1..Len(q) /\ (i - Len(p)) + 1 \in 1..Len(q)
          /\ r[i] = q[i - Len(p)] /\ r[i + 1] = q[(i - Len(p)) + 1]
      BY <1>2, <1>3, <2>1, <2>4
    <3> QED
      BY <3>1 DEF Chain
  <2> QED
    BY <1>2, <2>2, <2>3, <2>4
<1>6. Chain(r, op)
  <2>1. Listed(r)
    BY <1>3, ListOf
  <2> QED
    BY <2>1, <1>4, <1>5 DEF Chain
<1>7. (p # <<>> => r[1] = p[1]) /\ (q # <<>> => r[Len(r)] = q[Len(q)]) /\ (r = <<>> => p = <<>> /\ q = <<>>)
  BY <1>2, <1>3
<1>8. (p = <<>> => r = q) /\ (q = <<>> => r = p)
  BY <1>1, <1>2
<1> QED
  BY <1>1, <1>6, <1>7, <1>8

\* A plan with nothing left to do.
LEMMA ChainNone ==
  ASSUME NEW op
  PROVE  Chain(<<>>, op)
<1>1. Listed(<<>>)
  BY DEF Listed
<1> QED
  BY <1>1 DEF Chain

\* Plans written out, of one step to seven.
LEMMA Chain1 ==
  ASSUME NEW op, NEW p, NEW a, p = <<a>>, Belongs(a, op)
  PROVE  Chain(p, op) /\ p # <<>> /\ p[1] = a /\ p[Len(p)] = a
<1>1. Listed(p)
  <2>1. p \in Seq({a})
    OBVIOUS
  <2> QED
    BY <2>1, ListOf
<1>2. Len(p) = 1 /\ p[1] = a
  OBVIOUS
<1>3. \A i \in 1..1 : Belongs(p[i], op)
  <2>1. \A i \in 1..1 : i = 1
    OBVIOUS
  <2> QED
    BY <1>2, <2>1
<1>4. \A i, j \in 1..1 : j = i + 1 => Leads(p[i], p[j])
  OBVIOUS
<1> QED
  BY <1>1, <1>2, <1>3, <1>4 DEF Chain

\* A plan of two steps.
LEMMA Chain2 ==
  ASSUME NEW op, NEW p, NEW a, NEW b, p = <<a, b>>, Belongs(a, op), Belongs(b, op), Leads(a, b)
  PROVE  Chain(p, op) /\ p # <<>> /\ p[1] = a /\ p[Len(p)] = b
<1>1. Listed(p)
  <2>1. p \in Seq({a, b})
    OBVIOUS
  <2> QED
    BY <2>1, ListOf
<1>2. Len(p) = 2 /\ p[1] = a /\ p[2] = b
  OBVIOUS
<1>3. \A i \in 1..2 : Belongs(p[i], op)
  <2>1. \A i \in 1..2 : i = 1 \/ i = 2
    OBVIOUS
  <2> QED
    BY <1>2, <2>1
<1>4. \A i, j \in 1..2 : j = i + 1 => Leads(p[i], p[j])
  <2>1. \A i, j \in 1..2 : j = i + 1 =>
          (i = 1 /\ j = 2)
    OBVIOUS
  <2> QED
    BY <1>2, <2>1
<1> QED
  BY <1>1, <1>2, <1>3, <1>4 DEF Chain

\* A plan of three steps.
LEMMA Chain3 ==
  ASSUME NEW op, NEW p, NEW a, NEW b, NEW c, p = <<a, b, c>>, Belongs(a, op), Belongs(b, op),
         Belongs(c, op), Leads(a, b), Leads(b, c)
  PROVE  Chain(p, op) /\ p # <<>> /\ p[1] = a /\ p[Len(p)] = c
<1>1. Listed(p)
  <2>1. p \in Seq({a, b, c})
    OBVIOUS
  <2> QED
    BY <2>1, ListOf
<1>2. Len(p) = 3 /\ p[1] = a /\ p[2] = b /\ p[3] = c
  OBVIOUS
<1>3. \A i \in 1..3 : Belongs(p[i], op)
  <2>1. \A i \in 1..3 : i = 1 \/ i = 2 \/ i = 3
    OBVIOUS
  <2> QED
    BY <1>2, <2>1
<1>4. \A i, j \in 1..3 : j = i + 1 => Leads(p[i], p[j])
  <2>1. \A i, j \in 1..3 : j = i + 1 =>
          (i = 1 /\ j = 2) \/ (i = 2 /\ j = 3)
    OBVIOUS
  <2> QED
    BY <1>2, <2>1
<1> QED
  BY <1>1, <1>2, <1>3, <1>4 DEF Chain

\* A plan of four steps.
LEMMA Chain4 ==
  ASSUME NEW op, NEW p, NEW a, NEW b, NEW c, NEW d, p = <<a, b, c, d>>, Belongs(a, op),
         Belongs(b, op), Belongs(c, op), Belongs(d, op), Leads(a, b), Leads(b, c), Leads(c, d)
  PROVE  Chain(p, op) /\ p # <<>> /\ p[1] = a /\ p[Len(p)] = d
<1>1. Listed(p)
  <2>1. p \in Seq({a, b, c, d})
    OBVIOUS
  <2> QED
    BY <2>1, ListOf
<1>2. Len(p) = 4 /\ p[1] = a /\ p[2] = b /\ p[3] = c /\ p[4] = d
  OBVIOUS
<1>3. \A i \in 1..4 : Belongs(p[i], op)
  <2>1. \A i \in 1..4 : i = 1 \/ i = 2 \/ i = 3 \/ i = 4
    OBVIOUS
  <2> QED
    BY <1>2, <2>1
<1>4. \A i, j \in 1..4 : j = i + 1 => Leads(p[i], p[j])
  <2>1. \A i, j \in 1..4 : j = i + 1 =>
          (i = 1 /\ j = 2) \/ (i = 2 /\ j = 3) \/ (i = 3 /\ j = 4)
    OBVIOUS
  <2> QED
    BY <1>2, <2>1
<1> QED
  BY <1>1, <1>2, <1>3, <1>4 DEF Chain

\* A plan of five steps.
LEMMA Chain5 ==
  ASSUME NEW op, NEW p, NEW a, NEW b, NEW c, NEW d, NEW e, p = <<a, b, c, d, e>>, Belongs(a, op),
         Belongs(b, op), Belongs(c, op), Belongs(d, op), Belongs(e, op), Leads(a, b),
         Leads(b, c), Leads(c, d), Leads(d, e)
  PROVE  Chain(p, op) /\ p # <<>> /\ p[1] = a /\ p[Len(p)] = e
<1>1. Listed(p)
  <2>1. p \in Seq({a, b, c, d, e})
    OBVIOUS
  <2> QED
    BY <2>1, ListOf
<1>2. Len(p) = 5 /\ p[1] = a /\ p[2] = b /\ p[3] = c /\ p[4] = d /\ p[5] = e
  OBVIOUS
<1>3. \A i \in 1..5 : Belongs(p[i], op)
  <2>1. \A i \in 1..5 : i = 1 \/ i = 2 \/ i = 3 \/ i = 4 \/ i = 5
    OBVIOUS
  <2> QED
    BY <1>2, <2>1
<1>4. \A i, j \in 1..5 : j = i + 1 => Leads(p[i], p[j])
  <2>1. \A i, j \in 1..5 : j = i + 1 =>
          (i = 1 /\ j = 2) \/ (i = 2 /\ j = 3) \/ (i = 3 /\ j = 4) \/ (i = 4 /\ j = 5)
    OBVIOUS
  <2> QED
    BY <1>2, <2>1
<1> QED
  BY <1>1, <1>2, <1>3, <1>4 DEF Chain

\* A plan of six steps.
LEMMA Chain6 ==
  ASSUME NEW op, NEW p, NEW a, NEW b, NEW c, NEW d, NEW e, NEW f, p = <<a, b, c, d, e, f>>,
         Belongs(a, op), Belongs(b, op), Belongs(c, op), Belongs(d, op), Belongs(e, op),
         Belongs(f, op), Leads(a, b), Leads(b, c), Leads(c, d), Leads(d, e), Leads(e, f)
  PROVE  Chain(p, op) /\ p # <<>> /\ p[1] = a /\ p[Len(p)] = f
<1>1. Listed(p)
  <2>1. p \in Seq({a, b, c, d, e, f})
    OBVIOUS
  <2> QED
    BY <2>1, ListOf
<1>2. Len(p) = 6 /\ p[1] = a /\ p[2] = b /\ p[3] = c /\ p[4] = d /\ p[5] = e /\ p[6] = f
  OBVIOUS
<1>3. \A i \in 1..6 : Belongs(p[i], op)
  <2>1. \A i \in 1..6 : i = 1 \/ i = 2 \/ i = 3 \/ i = 4 \/ i = 5 \/ i = 6
    OBVIOUS
  <2> QED
    BY <1>2, <2>1
<1>4. \A i, j \in 1..6 : j = i + 1 => Leads(p[i], p[j])
  <2>1. \A i, j \in 1..6 : j = i + 1 =>
          (i = 1 /\ j = 2) \/ (i = 2 /\ j = 3) \/ (i = 3 /\ j = 4) \/ (i = 4 /\ j = 5) \/ (i = 5 /\ j = 6)
    OBVIOUS
  <2> QED
    BY <1>2, <2>1
<1> QED
  BY <1>1, <1>2, <1>3, <1>4 DEF Chain

\* A plan of seven steps.
LEMMA Chain7 ==
  ASSUME NEW op, NEW p, NEW a, NEW b, NEW c, NEW d, NEW e, NEW f, NEW g,
         p = <<a, b, c, d, e, f, g>>, Belongs(a, op), Belongs(b, op), Belongs(c, op),
         Belongs(d, op), Belongs(e, op), Belongs(f, op), Belongs(g, op), Leads(a, b),
         Leads(b, c), Leads(c, d), Leads(d, e), Leads(e, f), Leads(f, g)
  PROVE  Chain(p, op) /\ p # <<>> /\ p[1] = a /\ p[Len(p)] = g
<1>1. Listed(p)
  <2>1. p \in Seq({a, b, c, d, e, f, g})
    OBVIOUS
  <2> QED
    BY <2>1, ListOf
<1>2. Len(p) = 7 /\ p[1] = a /\ p[2] = b /\ p[3] = c /\ p[4] = d /\ p[5] = e /\ p[6] = f /\ p[7] = g
  OBVIOUS
<1>3. \A i \in 1..7 : Belongs(p[i], op)
  <2>1. \A i \in 1..7 : i = 1 \/ i = 2 \/ i = 3 \/ i = 4 \/ i = 5 \/ i = 6 \/ i = 7
    OBVIOUS
  <2> QED
    BY <1>2, <2>1
<1>4. \A i, j \in 1..7 : j = i + 1 => Leads(p[i], p[j])
  <2>1. \A i, j \in 1..7 : j = i + 1 =>
          (i = 1 /\ j = 2) \/ (i = 2 /\ j = 3) \/ (i = 3 /\ j = 4) \/ (i = 4 /\ j = 5) \/ (i = 5 /\ j = 6) \/ (i = 6 /\ j = 7)
    OBVIOUS
  <2> QED
    BY <1>2, <2>1
<1> QED
  BY <1>1, <1>2, <1>3, <1>4 DEF Chain

\* The plans of the settings requests, which other plans are built from.
LEMMA SettingsChains ==
  ASSUME NEW op
  PROVE  /\ \A edits, tok : /\ Chain(SettingsPlan(edits, tok), op)
                            /\ SettingsPlan(edits, tok) # <<>> /\ SettingsPlan(edits, tok)[1] = "guard"
         /\ \A scope : /\ Chain(SecretsPlan(scope), op) /\ SecretsPlan(scope) # <<>>
                       /\ SecretsPlan(scope)[1] = "rowRead"
                       /\ SecretsPlan(scope)[Len(SecretsPlan(scope))] = "secretsWrite"
         /\ Chain(SeedPlan, op) /\ SeedPlan # <<>> /\ SeedPlan[1] = "orchRead" /\ SeedPlan[Len(SeedPlan)] = "orchInsert"
<1>1. ASSUME NEW edits, NEW tok
      PROVE  /\ Chain(SettingsPlan(edits, tok), op)
             /\ SettingsPlan(edits, tok) # <<>> /\ SettingsPlan(edits, tok)[1] = "guard"
  <2>1. PICK a : a = <<"guard", "blobRead", "blobWrite">>
    OBVIOUS
  <2>2. PICK b : b = IF "repos" \in DOMAIN edits[1] THEN <<"prune">> ELSE <<>>
    OBVIOUS
  <2>3. PICK c : c = IF Len(edits) - 1 >= 1 THEN <<"blobRead", "blobWrite">> ELSE <<>>
    OBVIOUS
  <2>4. PICK d : d = IF Len(edits) - 1 >= 2 THEN <<"blobRead", "blobWrite">> ELSE <<>>
    OBVIOUS
  <2>5. PICK e : e = IF tok # "keep" THEN <<"token">> ELSE <<>>
    OBVIOUS
  <2>6. SettingsPlan(edits, tok) = ((a \o b) \o (c \o d)) \o e
    BY <2>1, <2>2, <2>3, <2>4, <2>5, Zenon DEF SettingsPlan, Rewrites
  <2>7. Chain(a, op) /\ a # <<>> /\ a[1] = "guard" /\ a[Len(a)] = "blobWrite"
    <3>1. /\ Belongs("guard", op) /\ Belongs("blobRead", op) /\ Belongs("blobWrite", op)
          /\ Leads("guard", "blobRead") /\ Leads("blobRead", "blobWrite")
      BY DEF Leads, Belongs
    <3> QED
      BY <2>1, <3>1, Chain3, Zenon
  <2>8. Chain(b, op) /\ (b # <<>> => b[1] = "prune" /\ b[Len(b)] = "prune")
    <3>1. Belongs("prune", op)
      BY DEF Leads, Belongs
    <3>2. CASE b = <<"prune">>
      BY <3>1, <3>2, Chain1, Zenon
    <3>3. CASE b = <<>>
      BY <3>3, ChainNone
    <3> QED
      BY <2>2, <3>2, <3>3, Zenon
  <2>9. Chain(c, op) /\ (c # <<>> => c[1] = "blobRead" /\ c[Len(c)] = "blobWrite")
    <3>1. /\ Belongs("blobRead", op) /\ Belongs("blobWrite", op)
          /\ Leads("blobRead", "blobWrite")
      BY DEF Leads, Belongs
    <3>2. CASE c = <<"blobRead", "blobWrite">>
      BY <3>1, <3>2, Chain2, Zenon
    <3>3. CASE c = <<>>
      BY <3>3, ChainNone
    <3> QED
      BY <2>3, <3>2, <3>3, Zenon
  <2>10. Chain(d, op) /\ (d # <<>> => d[1] = "blobRead" /\ d[Len(d)] = "blobWrite")
    <3>1. /\ Belongs("blobRead", op) /\ Belongs("blobWrite", op)
          /\ Leads("blobRead", "blobWrite")
      BY DEF Leads, Belongs
    <3>2. CASE d = <<"blobRead", "blobWrite">>
      BY <3>1, <3>2, Chain2, Zenon
    <3>3. CASE d = <<>>
      BY <3>3, ChainNone
    <3> QED
      BY <2>4, <3>2, <3>3, Zenon
  <2>11. Chain(e, op) /\ (e # <<>> => e[1] = "token")
    <3>1. Belongs("token", op)
      BY DEF Leads, Belongs
    <3>2. CASE e = <<"token">>
      BY <3>1, <3>2, Chain1, Zenon
    <3>3. CASE e = <<>>
      BY <3>3, ChainNone
    <3> QED
      BY <2>5, <3>2, <3>3, Zenon
  <2>12. PICK ab : ab = a \o b
    OBVIOUS
  <2>13. PICK cd : cd = c \o d
    OBVIOUS
  <2>14. Chain(ab, op) /\ ab # <<>> /\ ab[1] = "guard" /\ ab[Len(ab)] \in {"blobWrite", "prune"}
    <3>1. a # <<>> /\ b # <<>> => Leads(a[Len(a)], b[1])
      BY <2>7, <2>8 DEF Leads
    <3> QED
      BY <2>7, <2>8, <2>12, <3>1, ChainJoin, Zenon
  <2>15. /\ Chain(cd, op)
         /\ cd # <<>> => cd[1] = "blobRead" /\ cd[Len(cd)] = "blobWrite"
    <3>1. c # <<>> /\ d # <<>> => Leads(c[Len(c)], d[1])
      BY <2>9, <2>10 DEF Leads
    <3> QED
      BY <2>9, <2>10, <2>13, <3>1, ChainJoin, Zenon
  <2>16. PICK abcd : abcd = ab \o cd
    OBVIOUS
  <2>17. /\ Chain(abcd, op) /\ abcd # <<>> /\ abcd[1] = "guard"
         /\ abcd[Len(abcd)] \in {"blobWrite", "prune"}
    <3>1. ab # <<>> /\ cd # <<>> => Leads(ab[Len(ab)], cd[1])
      BY <2>14, <2>15 DEF Leads
    <3> QED
      BY <2>14, <2>15, <2>16, <3>1, ChainJoin, Zenon
  <2>18. abcd # <<>> /\ e # <<>> => Leads(abcd[Len(abcd)], e[1])
    BY <2>11, <2>17 DEF Leads
  <2>19. PICK p : p = abcd \o e
    OBVIOUS
  <2>20. Chain(p, op) /\ p # <<>> /\ p[1] = "guard"
    BY <2>11, <2>17, <2>18, <2>19, ChainJoin, Zenon
  <2> QED
    BY <2>6, <2>12, <2>13, <2>16, <2>19, <2>20
<1>2. ASSUME NEW scope
      PROVE  /\ Chain(SecretsPlan(scope), op) /\ SecretsPlan(scope) # <<>>
             /\ SecretsPlan(scope)[1] = "rowRead"
             /\ SecretsPlan(scope)[Len(SecretsPlan(scope))] = "secretsWrite"
  <2>1. PICK p : p = SecretsPlan(scope)
    OBVIOUS
  <2>2. CASE p = <<"rowRead", "agentRead", "secretsWrite">>
    <3>1. /\ Belongs("rowRead", op) /\ Belongs("agentRead", op) /\ Belongs("secretsWrite", op)
          /\ Leads("rowRead", "agentRead") /\ Leads("agentRead", "secretsWrite")
      BY DEF Leads, Belongs
    <3>2. Chain(p, op) /\ p # <<>> /\ p[1] = "rowRead" /\ p[Len(p)] = "secretsWrite"
      BY <2>2, <3>1, Chain3, Zenon
    <3> QED
      BY <2>1, <3>2
  <2>3. CASE p = <<"rowRead", "secretsWrite">>
    <3>1. /\ Belongs("rowRead", op) /\ Belongs("secretsWrite", op)
          /\ Leads("rowRead", "secretsWrite")
      BY DEF Leads, Belongs
    <3> QED
      BY <2>1, <2>3, <3>1, Chain2, Zenon
  <2> QED
    BY <2>1, <2>2, <2>3 DEF SecretsPlan
<1>3. Chain(SeedPlan, op) /\ SeedPlan # <<>> /\ SeedPlan[1] = "orchRead" /\ SeedPlan[Len(SeedPlan)] = "orchInsert"
  <2>0. SeedPlan = <<"orchRead", "triage", "setupExec", "orchInsert">>
    BY DEF SeedPlan
  <2>1. /\ Belongs("orchRead", op) /\ Belongs("triage", op) /\ Belongs("setupExec", op)
        /\ Belongs("orchInsert", op) /\ Leads("orchRead", "triage")
        /\ Leads("triage", "setupExec") /\ Leads("setupExec", "orchInsert")
    BY DEF Leads, Belongs
  <2> QED
    BY <2>0, <2>1, Chain4, Zenon
<1> QED
  BY <1>1, <1>2, <1>3

\* The creation of a workspace, from the form and from the tool.
LEMMA CreateChain ==
  ASSUME NEW req
  PROVE  /\ Chain(CreateToolPlan(req), req.op) /\ CreateToolPlan(req) # <<>>
         /\ CreateToolPlan(req)[1] = "verify"
<1>1. PICK a : a = <<"verify", "wsInsert">>
  OBVIOUS
<1>2. PICK b : b = IF req.token = "set" THEN <<"token">> ELSE <<>>
  OBVIOUS
<1>3. PICK c : c = SeedPlan
  OBVIOUS
<1>4. PICK d : d = IF req.set = {} THEN <<>> ELSE SecretsPlan(req.scope)
  OBVIOUS
<1>5. CreateToolPlan(req) = ((a \o b) \o c) \o d
  BY <1>1, <1>2, <1>3, <1>4, Zenon DEF CreateToolPlan, CreatePlan
<1>6. Chain(a, req.op) /\ a # <<>> /\ a[1] = "verify" /\ a[Len(a)] = "wsInsert"
  <2>1. /\ Belongs("verify", req.op) /\ Belongs("wsInsert", req.op)
        /\ Leads("verify", "wsInsert")
    BY DEF Leads, Belongs
  <2> QED
    BY <1>1, <2>1, Chain2, Zenon
<1>7. Chain(b, req.op) /\ (b # <<>> => b[1] = "token" /\ b[Len(b)] = "token")
  <2>1. Belongs("token", req.op)
    BY DEF Leads, Belongs
  <2>2. CASE b = <<"token">>
    BY <2>1, <2>2, Chain1, Zenon
  <2>3. CASE b = <<>>
    BY <2>3, ChainNone
  <2> QED
    BY <1>2, <2>2, <2>3, Zenon
<1>8. Chain(c, req.op) /\ c # <<>> /\ c[1] = "orchRead" /\ c[Len(c)] = "orchInsert"
  BY <1>3, SettingsChains
<1>9. Chain(d, req.op) /\ (d # <<>> => d[1] = "rowRead")
  BY <1>4, ChainNone, SettingsChains, Zenon
<1>10. PICK ab : ab = a \o b
  OBVIOUS
<1>11. Chain(ab, req.op) /\ ab # <<>> /\ ab[1] = "verify" /\ ab[Len(ab)] \in {"wsInsert", "token"}
  <2>1. a # <<>> /\ b # <<>> => Leads(a[Len(a)], b[1])
    BY <1>6, <1>7 DEF Leads
  <2> QED
    BY <1>6, <1>7, <1>10, <2>1, ChainJoin, Zenon
<1>12. PICK abc : abc = ab \o c
  OBVIOUS
<1>13. Chain(abc, req.op) /\ abc # <<>> /\ abc[1] = "verify" /\ abc[Len(abc)] = "orchInsert"
  <2>1. ab # <<>> /\ c # <<>> => Leads(ab[Len(ab)], c[1])
    BY <1>8, <1>11 DEF Leads
  <2> QED
    BY <1>8, <1>11, <1>12, <2>1, ChainJoin, Zenon
<1>14. abc # <<>> /\ d # <<>> => Leads(abc[Len(abc)], d[1])
  BY <1>9, <1>13 DEF Leads
<1>15. PICK p : p = abc \o d
  OBVIOUS
<1>16. Chain(p, req.op) /\ p # <<>> /\ p[1] = "verify"
  BY <1>9, <1>13, <1>14, <1>15, ChainJoin, Zenon
<1> QED
  BY <1>5, <1>10, <1>12, <1>15, <1>16

\* Every request starts with a step that needs nothing of an earlier one.
LEMMA PlanStarts ==
  ASSUME NEW req, Request(req)
  PROVE  Chain(PlanOf(req), req.op) /\ PlanOf(req) # <<>> /\ Head(PlanOf(req)) \notin Later
<1>1. PICK p : p = PlanOf(req)
  OBVIOUS
<1>2. CASE req.op \in {"create", "settings", "secrets", "seed"}
  <2>1. /\ req.op = "create" => p = CreateToolPlan(req)
        /\ req.op = "settings" => p = SettingsPlan(req.edits, req.token)
        /\ req.op = "secrets" => p = SecretsPlan(req.scope)
        /\ req.op = "seed" => p = SeedPlan
    BY <1>1 DEF PlanOf
  <2>2. Chain(p, req.op) /\ p # <<>> /\ p[1] \in {"verify", "guard", "rowRead", "orchRead"}
    <3>1. CASE req.op = "create"
      BY <2>1, <3>1, CreateChain
    <3>2. CASE req.op = "settings"
      BY <2>1, <3>2, SettingsChains
    <3>3. CASE req.op = "secrets"
      BY <2>1, <3>3, SettingsChains
    <3>4. CASE req.op = "seed"
      BY <2>1, <3>4, SettingsChains
    <3> QED
      BY <1>2, <3>1, <3>2, <3>3, <3>4
  <2>3. p[1] \notin Later
    BY <2>2 DEF Later
  <2> QED
    BY <1>1, <2>2, <2>3, ChainRest
<1>3. ASSUME p # <<>>, Chain(p, req.op), p[1] \notin Later
      PROVE  Chain(PlanOf(req), req.op) /\ PlanOf(req) # <<>> /\ Head(PlanOf(req)) \notin Later
  BY <1>1, <1>3, ChainRest
<1>4. CASE req.op = "setEnv"
  <2>0. p = <<"toolGet">>
    BY <1>1, <1>4 DEF PlanOf
  <2>1. Belongs("toolGet", req.op)
    BY <1>4 DEF Leads, Belongs
  <2>2. p[1] = "toolGet" /\ p # <<>> /\ Chain(p, req.op)
    BY <2>0, <2>1, Chain1, Zenon
  <2> QED
    BY <1>3, <2>2 DEF Later
<1>5. CASE req.op = "rotate"
  <2>0. p = <<"verify", "credWrite">>
    BY <1>1, <1>5 DEF PlanOf
  <2>1. /\ Belongs("verify", req.op) /\ Belongs("credWrite", req.op)
        /\ Leads("verify", "credWrite")
    BY <1>5 DEF Leads, Belongs
  <2>2. p[1] = "verify" /\ p # <<>> /\ Chain(p, req.op)
    BY <2>0, <2>1, Chain2, Zenon
  <2> QED
    BY <1>3, <2>2 DEF Later
<1>6. CASE req.op = "reconcile"
  <2>0. p = <<"blobRead", "blobWrite">>
    BY <1>1, <1>6 DEF PlanOf
  <2>1. /\ Belongs("blobRead", req.op) /\ Belongs("blobWrite", req.op)
        /\ Leads("blobRead", "blobWrite")
    BY <1>6 DEF Leads, Belongs
  <2>2. p[1] = "blobRead" /\ p # <<>> /\ Chain(p, req.op)
    BY <2>0, <2>1, Chain2, Zenon
  <2> QED
    BY <1>3, <2>2 DEF Later
<1>7. CASE req.op = "agentCreate"
  <2>0. p = <<"scope", "statuses", "lint", "keys", "insert">>
    BY <1>1, <1>7 DEF PlanOf, AgentCreatePlan
  <2>1. /\ Belongs("scope", req.op) /\ Belongs("statuses", req.op) /\ Belongs("lint", req.op)
        /\ Belongs("keys", req.op) /\ Belongs("insert", req.op) /\ Leads("scope", "statuses")
        /\ Leads("statuses", "lint") /\ Leads("lint", "keys") /\ Leads("keys", "insert")
    BY <1>7 DEF Leads, Belongs
  <2>2. p[1] = "scope" /\ p # <<>> /\ Chain(p, req.op)
    BY <2>0, <2>1, Chain5
  <2> QED
    BY <1>3, <2>2 DEF Later
<1>8. CASE req.op = "agentUpdate"
  <2>0. p = <<"scope", "target", "guardEnv", "statuses", "lint", "update">>
    BY <1>1, <1>8 DEF PlanOf, AgentUpdatePlan
  <2>1. /\ Belongs("scope", req.op) /\ Belongs("target", req.op) /\ Belongs("guardEnv", req.op)
        /\ Belongs("statuses", req.op) /\ Belongs("lint", req.op) /\ Belongs("update", req.op)
        /\ Leads("scope", "target") /\ Leads("target", "guardEnv")
        /\ Leads("guardEnv", "statuses") /\ Leads("statuses", "lint")
        /\ Leads("lint", "update")
    BY <1>8 DEF Leads, Belongs
  <2>2. p[1] = "scope" /\ p # <<>> /\ Chain(p, req.op)
    BY <2>0, <2>1, Chain6
  <2> QED
    BY <1>3, <2>2 DEF Later
<1>9. CASE req.op = "agentDelete"
  <2>0. p = <<"delTarget", "runsRead">>
    BY <1>1, <1>9 DEF PlanOf
  <2>1. /\ Belongs("delTarget", req.op) /\ Belongs("runsRead", req.op)
        /\ Leads("delTarget", "runsRead")
    BY <1>9 DEF Leads, Belongs
  <2>2. p[1] = "delTarget" /\ p # <<>> /\ Chain(p, req.op)
    BY <2>0, <2>1, Chain2, Zenon
  <2> QED
    BY <1>3, <2>2 DEF Later
<1>10. CASE req.op = "testRun"
  <2>0. p = <<"testTarget", "ticketRead", "ticketInsert", "trigger">>
    BY <1>1, <1>10 DEF PlanOf, TestRunPlan
  <2>1. /\ Belongs("testTarget", req.op) /\ Belongs("ticketRead", req.op)
        /\ Belongs("ticketInsert", req.op) /\ Belongs("trigger", req.op)
        /\ Leads("testTarget", "ticketRead") /\ Leads("ticketRead", "ticketInsert")
        /\ Leads("ticketInsert", "trigger")
    BY <1>10 DEF Leads, Belongs
  <2>2. p[1] = "testTarget" /\ p # <<>> /\ Chain(p, req.op)
    BY <2>0, <2>1, Chain4, Zenon
  <2> QED
    BY <1>3, <2>2 DEF Later
<1>11. CASE req.op = "generate"
  <2>0. p = <<"noWorkers", "orchOn", "noActive", "trigger">>
    BY <1>1, <1>11 DEF PlanOf, GeneratePlan
  <2>1. /\ Belongs("noWorkers", req.op) /\ Belongs("orchOn", req.op)
        /\ Belongs("noActive", req.op) /\ Belongs("trigger", req.op)
        /\ Leads("noWorkers", "orchOn") /\ Leads("orchOn", "noActive")
        /\ Leads("noActive", "trigger")
    BY <1>11 DEF Leads, Belongs
  <2>2. p[1] = "noWorkers" /\ p # <<>> /\ Chain(p, req.op)
    BY <2>0, <2>1, Chain4, Zenon
  <2> QED
    BY <1>3, <2>2 DEF Later
<1>12. CASE req.op = "team"
  <2>1. PICK a : a = <<"noWorkers">>
    OBVIOUS
  <2>2. PICK b : b = Tail(ReportPlan)
    OBVIOUS
  <2>3. p = a \o b
    BY <1>1, <2>1, <2>2, <1>12 DEF PlanOf, CreateTeamPlan
  <2>4. b = <<"statuses", "existing", "profiles", "resolve", "teamKeys", "teamInsert">>
    BY <2>2 DEF ReportPlan
  <2>5. Chain(a, req.op) /\ a # <<>> /\ a[1] = "noWorkers" /\ a[Len(a)] = "noWorkers"
    <3>1. Belongs("noWorkers", req.op)
      BY DEF Belongs
    <3> QED
      BY <2>1, <3>1, Chain1, Zenon
  <2>6. Chain(b, req.op) /\ b # <<>> /\ b[1] = "statuses"
    <3>1. /\ Belongs("statuses", req.op) /\ Belongs("existing", req.op)
          /\ Belongs("profiles", req.op) /\ Belongs("resolve", req.op)
          /\ Belongs("teamKeys", req.op) /\ Belongs("teamInsert", req.op)
          /\ Leads("statuses", "existing") /\ Leads("existing", "profiles")
          /\ Leads("profiles", "resolve") /\ Leads("resolve", "teamKeys")
          /\ Leads("teamKeys", "teamInsert")
      BY <1>12 DEF Leads, Belongs
    <3> QED
      BY <2>4, <3>1, Chain6
  <2>7. Leads(a[Len(a)], b[1])
    BY <2>5, <2>6 DEF Leads
  <2>8. p[1] = "noWorkers" /\ p # <<>> /\ Chain(p, req.op)
    BY <2>3, <2>5, <2>6, <2>7, ChainJoin, Zenon
  <2> QED
    BY <1>3, <2>8 DEF Later
<1>13. CASE req.op = "report"
  <2>0. p = <<"runRead", "statuses", "existing", "profiles", "resolve", "teamKeys", "teamInsert">>
    BY <1>1, <1>13 DEF PlanOf, ReportPlan
  <2>1. /\ Belongs("runRead", req.op) /\ Belongs("statuses", req.op)
        /\ Belongs("existing", req.op) /\ Belongs("profiles", req.op)
        /\ Belongs("resolve", req.op) /\ Belongs("teamKeys", req.op)
        /\ Belongs("teamInsert", req.op) /\ Leads("runRead", "statuses")
        /\ Leads("statuses", "existing") /\ Leads("existing", "profiles")
        /\ Leads("profiles", "resolve") /\ Leads("resolve", "teamKeys")
        /\ Leads("teamKeys", "teamInsert")
    BY <1>13 DEF Leads, Belongs
  <2>2. p[1] = "runRead" /\ p # <<>> /\ Chain(p, req.op)
    BY <2>0, <2>1, Chain7
  <2> QED
    BY <1>3, <2>2 DEF Later
<1>14. CASE req.op = "execCreate"
  <2>0. p = <<"execInsert">>
    BY <1>1, <1>14 DEF PlanOf
  <2>1. Belongs("execInsert", req.op)
    BY <1>14 DEF Leads, Belongs
  <2>2. p[1] = "execInsert" /\ p # <<>> /\ Chain(p, req.op)
    BY <2>0, <2>1, Chain1, Zenon
  <2> QED
    BY <1>3, <2>2 DEF Later
<1>15. CASE req.op = "execDelete"
  <2>0. p = <<"inUse", "execDelete">>
    BY <1>1, <1>15 DEF PlanOf
  <2>1. /\ Belongs("inUse", req.op) /\ Belongs("execDelete", req.op)
        /\ Leads("inUse", "execDelete")
    BY <1>15 DEF Leads, Belongs
  <2>2. p[1] = "inUse" /\ p # <<>> /\ Chain(p, req.op)
    BY <2>0, <2>1, Chain2, Zenon
  <2> QED
    BY <1>3, <2>2 DEF Later
<1>16. CASE req.op = "template"
  <2>0. p = <<"builtins", "usable", "templateWrite">>
    BY <1>1, <1>16 DEF PlanOf
  <2>1. /\ Belongs("builtins", req.op) /\ Belongs("usable", req.op)
        /\ Belongs("templateWrite", req.op) /\ Leads("builtins", "usable")
        /\ Leads("usable", "templateWrite")
    BY <1>16 DEF Leads, Belongs
  <2>2. p[1] = "builtins" /\ p # <<>> /\ Chain(p, req.op)
    BY <2>0, <2>1, Chain3, Zenon
  <2> QED
    BY <1>3, <2>2 DEF Later
<1>17. CASE req.op = "boot"
  <2>0. p = <<"count1", "put1", "count2", "put2">>
    BY <1>1, <1>17 DEF PlanOf, BootPlan
  <2>1. /\ Belongs("count1", req.op) /\ Belongs("put1", req.op) /\ Belongs("count2", req.op)
        /\ Belongs("put2", req.op) /\ Leads("count1", "put1") /\ Leads("put1", "count2")
        /\ Leads("count2", "put2")
    BY <1>17 DEF Leads, Belongs
  <2>2. p[1] = "count1" /\ p # <<>> /\ Chain(p, req.op)
    BY <2>0, <2>1, Chain4, Zenon
  <2> QED
    BY <1>3, <2>2 DEF Later
<1>18. CASE req.op = "yaml"
  <2>0. p = <<"yaml">>
    BY <1>1, <1>18 DEF PlanOf
  <2>1. Belongs("yaml", req.op)
    BY <1>18 DEF Leads, Belongs
  <2>2. p[1] = "yaml" /\ p # <<>> /\ Chain(p, req.op)
    BY <2>0, <2>1, Chain1, Zenon
  <2> QED
    BY <1>3, <2>2 DEF Later
<1>19. CASE req.op = "execUpdate"
  <2>0. p = <<"keyRead", "execWrite">> \/ p = <<"execWrite">>
    BY <1>1, <1>19 DEF PlanOf, ExecUpdatePlan
  <2>1. Belongs("keyRead", req.op) /\ Belongs("execWrite", req.op) /\ Leads("keyRead", "execWrite")
    BY DEF Leads, Belongs
  <2>2. p[1] \in {"keyRead", "execWrite"} /\ p # <<>> /\ Chain(p, req.op)
    <3>1. CASE p = <<"keyRead", "execWrite">>
      BY <2>1, <3>1, Chain2, Zenon
    <3>2. CASE p = <<"execWrite">>
      BY <2>1, <3>2, Chain1, Zenon
    <3> QED
      BY <2>0, <3>1, <3>2
  <2> QED
    BY <1>3, <2>2 DEF Later
<1> QED
  BY <1>2, <1>4, <1>5, <1>6, <1>7, <1>8, <1>9, <1>10, <1>11, <1>12, <1>13, <1>14, <1>15, <1>16, <1>17, <1>18, <1>19 DEF Request, Ops

-----------------------------------------------------------------------------
(* What the tables hold, and what a call that is under way may rely on.    *)

Rows(ag) ==
  /\ Listed(ag)
  /\ \A i \in 1..Len(ag) :
       /\ DOMAIN ag[i] = {"key", "orch", "trigger", "exec", "enabled", "env", "from", "gone"}
       /\ ag[i].orch \in BOOLEAN /\ ag[i].gone \in BOOLEAN
       /\ ~ag[i].gone => (ag[i].key = ORCHESTRATOR_AGENT_KEY <=> ag[i].orch)
  /\ \A i, j \in 1..Len(ag) : ~ag[i].gone /\ ~ag[j].gone /\ ag[i].key = ag[j].key => i = j

DoneOf(rn) == {r \in 1..Len(rn) : rn[r].status = "succeeded"}
ReportedOf(ag) == {i \in 1..Len(ag) : ag[i].from = "report"}

\* Every run that has succeeded has brought two agents and a review task.
Teams(ag, rn, rv) ==
  /\ Listed(rn)
  /\ \A r \in 1..Len(rn) : DOMAIN rn[r] = {"agent", "source", "status"}
  /\ rv = DoneOf(rn)
  /\ Cardinality(ReportedOf(ag)) = 2 * Cardinality(DoneOf(rn))

Settled(w, blob, st) == "enabled" \in DOMAIN blob /\ (w /\ blob.enabled => st)

TablesInv ==
  /\ Rows(agents) /\ Teams(agents, runs, reviews) /\ Settled(ws, settings, started)
  /\ seeded => Orchestrators # {}

\* The run and the agent a request names exist.
Known(req, ag, rn) ==
  /\ req.op = "report" => req.run \in 1..Len(rn)
  /\ req.op \in {"agentUpdate", "agentDelete", "testRun"} => req.id \in 1..Len(ag)

DistinctBases(team) ==
  \A i, j \in 1..Len(team) : team[i].base = team[j].base => i = j

\* What the steps before have found out for the next one.
HeadOk(c, ag, st) ==
  /\ Head(c.plan) = "blobWrite" => "enabled" \in DOMAIN c.blob /\ (c.blob.enabled => st)
  /\ Head(c.plan) \in {"runsRead", "delete"} => ag[c.req.id].gone \/ ~ag[c.req.id].orch
  /\ Head(c.plan) \in {"resolve", "teamKeys", "teamInsert"} => DistinctBases(c.req.team)

CallOk(c, ag, rn, st) ==
  /\ DOMAIN c = {"req", "plan", "doc", "blob", "edits", "seen", "taken", "exec", "tries"}
  /\ Request(c.req) /\ Known(c.req, ag, rn)
  /\ c.plan # <<>> /\ Chain(c.plan, c.req.op)
  /\ IsFiniteSet(c.taken) /\ c.tries \in 0..4
  /\ HeadOk(c, ag, st)

RosterInv ==
  /\ TablesInv
  /\ DOMAIN call = Slots
  /\ \A s \in Slots : call[s] = Idle \/ CallOk(call[s], agents, runs, started)
  /\ Listed(again) /\ \A k \in 1..Len(again) : Request(again[k])
  /\ scene \in DOMAIN Scenarios
  /\ served \in 0..MaxRequests /\ resends \in 0..MaxResends

\* The tries a create has lost, the one it is about to lose included.
Lost(c, keys) ==
  c.tries + (IF /\ Head(c.plan) = "insert"
                /\ EnsureUniqueAgentKey(c.req.agent.base, c.taken) \in keys
             THEN 1 ELSE 0)

\* The calls that may still take a key.
Busy == {s \in Slots : call[s] # Idle}
Left == (MaxRequests - served) + (MaxResends - resends) + Len(again) + Cardinality(Busy)

RaceInv ==
  /\ Left <= MaxRequests + MaxResends
  /\ \A s \in Busy : Lost(call[s], TakenKeys) + Left <= MaxRequests + MaxResends
  /\ CreateNotLost

\* What a slot holds after its call has gone on: the next step of the same
\* call, which has lost no more tries than before, or nothing.
Given(c) == IF c.plan = <<>> THEN Idle ELSE c

Fits(d, c, ag, rn, st, keys, keys2) ==
  d = Idle \/ (d.req = c.req /\ CallOk(d, ag, rn, st) /\ Lost(d, keys2) <= Lost(c, keys))

\* Tables only grow: a row keeps its role, and one that is gone stays so.
Grows(ag, ag2, rn, rn2, st, st2) ==
  /\ Len(ag) \in Nat /\ Len(ag2) \in Nat /\ Len(rn) \in Nat /\ Len(rn2) \in Nat
  /\ Len(ag) <= Len(ag2) /\ Len(rn) <= Len(rn2) /\ (st => st2)
  /\ \A i \in 1..Len(ag) : ag2[i].orch = ag[i].orch /\ (ag[i].gone => ag2[i].gone)

\* The step of one slot, seen from the others.
Progress(s) ==
  /\ s \in Slots /\ call[s] # Idle
  /\ UNCHANGED <<scene, served, again, resends>>
  /\ Grows(agents, agents', runs, runs', started, started')
  /\ \E d : /\ call' = [call EXCEPT ![s] = d]
            /\ Fits(d, call[s], agents', runs', started', TakenKeys, TakenKeys')
            /\ TakenKeys' \subseteq TakenKeys \cup ReservedKeys \/ d = Idle
  /\ <<"agentCreate", "key_taken">> \in failures' =>
       <<"agentCreate", "key_taken">> \in failures \/ Lost(call[s], TakenKeys) >= 5

\* What a call may rely on stays so when the tables grow.
LEMMA CallGrows ==
  ASSUME NEW ag, NEW ag2, NEW rn, NEW rn2, NEW st, NEW st2, Grows(ag, ag2, rn, rn2, st, st2),
         NEW c, CallOk(c, ag, rn, st)
  PROVE  CallOk(c, ag2, rn2, st2)
<1>1. Known(c.req, ag2, rn2)
  BY DEF CallOk, Known, Grows
<1>2. Belongs(Head(c.plan), c.req.op)
  BY ChainRest DEF CallOk
<1>3. ASSUME Head(c.plan) \in {"runsRead", "delete"} PROVE ag2[c.req.id].gone \/ ~ag2[c.req.id].orch
  <2>1. c.req.op = "agentDelete"
    BY <1>2, <1>3 DEF Belongs
  <2>2. c.req.id \in 1..Len(ag) /\ (ag[c.req.id].gone \/ ~ag[c.req.id].orch)
    BY <1>3, <2>1 DEF CallOk, Known, HeadOk
  <2> QED
    BY <2>2 DEF Grows
<1>4. HeadOk(c, ag2, st2)
  BY <1>3 DEF CallOk, HeadOk, Grows
<1> QED
  BY <1>1, <1>4 DEF CallOk

\* Lost tries are counted in small numbers.
LEMMA LostCount ==
  ASSUME NEW c, c.tries \in 0..4, NEW keys
  PROVE  /\ Lost(c, keys) \in c.tries..(c.tries + 1)
         /\ Head(c.plan) # "insert" => Lost(c, keys) = c.tries
BY DEF Lost

\* A call goes on with steps that need nothing of the ones before.
LEMMA FitPlan ==
  ASSUME NEW ag, NEW rn, NEW st, NEW keys, NEW keys2, NEW c, CallOk(c, ag, rn, st),
         NEW b, b.req = c.req, b.tries = c.tries, DOMAIN b = DOMAIN c, IsFiniteSet(b.taken),
         Chain(b.plan, c.req.op), b.plan # <<>> => Head(b.plan) \notin Later
  PROVE  Fits(Given(b), c, ag, rn, st, keys, keys2)
<1>1. CASE b.plan = <<>>
  BY <1>1 DEF Fits, Given
<1>2. CASE b.plan # <<>>
  <2>1. HeadOk(b, ag, st) /\ Head(b.plan) # "insert"
    BY <1>2 DEF HeadOk, Later
  <2>2. CallOk(b, ag, rn, st)
    BY <1>2, <2>1 DEF CallOk
  <2>3. Lost(b, keys2) = b.tries
    BY <2>1, LostCount DEF CallOk
  <2>4. Lost(c, keys) >= c.tries
    BY LostCount DEF CallOk
  <2> QED
    BY <1>2, <2>2, <2>3, <2>4 DEF Fits, Given
<1> QED
  BY <1>1, <1>2

\* The rest of the plan of a call.
LEMMA Rest ==
  ASSUME NEW b, DOMAIN b = {"req", "plan", "doc", "blob", "edits", "seen", "taken", "exec", "tries"},
         NEW n, n = [b EXCEPT !.plan = Tail(@)]
  PROVE  /\ n.plan = Tail(b.plan) /\ n.req = b.req /\ n.tries = b.tries /\ n.taken = b.taken
         /\ n.blob = b.blob /\ DOMAIN n = DOMAIN b
OBVIOUS

\* A step that none of the later ones relies on leads to none of them.
LEMMA PlainNext ==
  ASSUME NEW x, x \notin {"blobRead", "delTarget", "profiles", "resolve", "teamKeys", "keys"},
         NEW y, Leads(x, y)
  PROVE  y \notin Later
BY DEF Leads, Later

\* A call goes on, from a step that no later one relies on.
LEMMA FitNext ==
  ASSUME NEW ag, NEW rn, NEW st, NEW keys, NEW keys2, NEW c, CallOk(c, ag, rn, st),
         NEW b, b.req = c.req, b.tries = c.tries, b.plan = c.plan, DOMAIN b = DOMAIN c,
         IsFiniteSet(b.taken),
         Head(c.plan) \notin {"blobRead", "delTarget", "profiles", "resolve", "teamKeys", "keys"}
  PROVE  Fits(Given([b EXCEPT !.plan = Tail(@)]), c, ag, rn, st, keys, keys2)
<1>1. PICK n : n = [b EXCEPT !.plan = Tail(@)]
  OBVIOUS
<1>2. n.plan = Tail(b.plan) /\ n.req = b.req /\ n.tries = b.tries /\ n.taken = b.taken /\ DOMAIN n = DOMAIN b
  BY <1>1, Rest DEF CallOk
<1>3. /\ Chain(n.plan, c.req.op)
      /\ n.plan # <<>> => Leads(Head(c.plan), Head(n.plan))
  <2>1. Chain(c.plan, c.req.op) /\ c.plan # <<>>
    BY DEF CallOk
  <2>2. n.plan = Tail(c.plan)
    BY <1>2
  <2> QED
    BY <2>1, <2>2, ChainRest
<1>4. ASSUME n.plan # <<>> PROVE Head(n.plan) \notin Later
  <2>1. Leads(Head(c.plan), Head(n.plan))
    BY <1>3, <1>4
  <2> QED
    BY <2>1, PlainNext
<1>5. Fits(Given(n), c, ag, rn, st, keys, keys2)
  BY <1>2, <1>3, <1>4, FitPlan
<1> QED
  BY <1>1, <1>5

\* A call goes on with a step that relies on what this one has found.
LEMMA FitFound ==
  ASSUME NEW ag, NEW rn, NEW st, NEW keys, NEW keys2, NEW c, CallOk(c, ag, rn, st),
         NEW b, b.req = c.req, b.tries = c.tries, b.plan = c.plan, DOMAIN b = DOMAIN c,
         IsFiniteSet(b.taken), Head(c.plan) # "keys",
         NEW n, n = [b EXCEPT !.plan = Tail(@)], n.plan # <<>> => HeadOk(n, ag, st)
  PROVE  Fits(Given(n), c, ag, rn, st, keys, keys2)
<1>1. CASE n.plan = <<>>
  BY <1>1 DEF Fits, Given
<1>2. CASE n.plan # <<>>
  <2>1. n.plan = Tail(b.plan) /\ n.req = b.req /\ n.tries = b.tries /\ n.taken = b.taken /\ DOMAIN n = DOMAIN b
    BY Rest DEF CallOk
  <2>2. Chain(n.plan, c.req.op) /\ Leads(Head(c.plan), Head(n.plan))
    BY <1>2, <2>1, ChainRest DEF CallOk
  <2>3. CallOk(n, ag, rn, st)
    BY <1>2, <2>1, <2>2 DEF CallOk
  <2>4. Head(n.plan) # "insert"
    BY <2>2 DEF Leads
  <2>5. Lost(n, keys2) = n.tries
    BY <2>3, <2>4, LostCount DEF CallOk
  <2>6. Lost(c, keys) >= c.tries
    BY LostCount DEF CallOk
  <2> QED
    BY <1>2, <2>1, <2>3, <2>5, <2>6 DEF Fits, Given
<1> QED
  BY <1>1, <1>2

-----------------------------------------------------------------------------
(* Steps that leave agents, runs and settings alone.                       *)

NoKeyLost == <<"agentCreate", "key_taken">> \in failures' => <<"agentCreate", "key_taken">> \in failures

Aside == UNCHANGED <<frame, agents, runs, reviews, ws, settings, started, seeded>> /\ NoKeyLost

Moves(s) ==
  \E d : /\ call' = [call EXCEPT ![s] = d]
         /\ Fits(d, call[s], agents, runs, started, TakenKeys, TakenKeys)

\* A handler answers, or goes on with one of its values changed.
Simple(s) ==
  \/ Answer(s) \/ GoOn(s, call[s])
  \/ \E x : \/ GoOn(s, [call[s] EXCEPT !.doc = x]) \/ GoOn(s, [call[s] EXCEPT !.exec = x])
            \/ GoOn(s, [call[s] EXCEPT !.seen = x])

\* A call at a step is one that is under way.
LEMMA AtStep ==
  ASSUME RosterInv, NEW s \in Slots, NEW x, At(s, x)
  PROVE  /\ call[s] # Idle /\ Head(call[s].plan) = x
         /\ CallOk(call[s], agents, runs, started)
BY DEF RosterInv, At, Idle

\* The part of a step that the tables see nothing of.
LEMMA AsideKept ==
  ASSUME RosterInv, NEW s \in Slots, call[s] # Idle, Aside, Moves(s)
  PROVE  Progress(s) /\ TablesInv'
<1>1. Grows(agents, agents', runs, runs', started, started')
  BY ListShape DEF RosterInv, TablesInv, Rows, Teams, Grows, Aside, frame
<1>2. TakenKeys' = TakenKeys
  BY DEF TakenKeys, LiveAgents, Aside, frame
<1>3. TablesInv'
  BY DEF RosterInv, TablesInv, Orchestrators, LiveAgents, Aside, frame
<1>4. PICK d : /\ call' = [call EXCEPT ![s] = d]
               /\ Fits(d, call[s], agents, runs, started, TakenKeys, TakenKeys)
  BY DEF Moves
<1>5. Fits(d, call[s], agents', runs', started', TakenKeys, TakenKeys')
  BY <1>2, <1>4 DEF Aside, frame
<1> QED
  BY <1>1, <1>2, <1>3, <1>4, <1>5 DEF Progress, Aside, NoKeyLost, frame

\* Most steps.
LEMMA SimpleMoves ==
  ASSUME RosterInv, NEW s \in Slots, NEW x, At(s, x), Simple(s),
         x \notin {"blobRead", "delTarget", "profiles", "resolve", "teamKeys", "keys"}
  PROVE  call[s] # Idle /\ Moves(s)
<1>1. PICK c : c = call[s]
  OBVIOUS
<1>2. c # Idle /\ Head(c.plan) = x /\ CallOk(c, agents, runs, started)
  BY <1>1, AtStep
<1>3. CASE Answer(s)
  BY <1>1, <1>2, <1>3 DEF Answer, Moves, Fits
<1>4. ASSUME NEW b, b.req = c.req, b.tries = c.tries, b.plan = c.plan, b.taken = c.taken,
             DOMAIN b = DOMAIN c, GoOn(s, b)
      PROVE  Moves(s)
  <2>1. Fits(Given([b EXCEPT !.plan = Tail(@)]), c, agents, runs, started, TakenKeys, TakenKeys)
    <3>1. IsFiniteSet(b.taken)
      BY <1>2, <1>4 DEF CallOk
    <3> QED
      BY <1>2, <1>4, <3>1, FitNext
  <2>2. call' = [call EXCEPT ![s] = Given([b EXCEPT !.plan = Tail(@)])]
    BY <1>4 DEF GoOn, GoTo, Given
  <2> QED
    BY <1>1, <2>1, <2>2 DEF Moves
<1>5. CASE GoOn(s, call[s])
  BY <1>1, <1>2, <1>4, <1>5, Zenon
<1>6. ASSUME NEW y, GoOn(s, [call[s] EXCEPT !.doc = y]) PROVE Moves(s)
  <2>1. PICK b : b = [c EXCEPT !.doc = y]
    OBVIOUS
  <2>2. b.req = c.req /\ b.tries = c.tries /\ b.plan = c.plan /\ b.taken = c.taken /\ DOMAIN b = DOMAIN c
    BY <1>2, <2>1 DEF CallOk
  <2> QED
    BY <1>1, <1>4, <1>6, <2>1, <2>2, Zenon
<1>7. ASSUME NEW y, GoOn(s, [call[s] EXCEPT !.exec = y]) PROVE Moves(s)
  <2>1. PICK b : b = [c EXCEPT !.exec = y]
    OBVIOUS
  <2>2. b.req = c.req /\ b.tries = c.tries /\ b.plan = c.plan /\ b.taken = c.taken /\ DOMAIN b = DOMAIN c
    BY <1>2, <2>1 DEF CallOk
  <2> QED
    BY <1>1, <1>4, <1>7, <2>1, <2>2, Zenon
<1>8. ASSUME NEW y, GoOn(s, [call[s] EXCEPT !.seen = y]) PROVE Moves(s)
  <2>1. PICK b : b = [c EXCEPT !.seen = y]
    OBVIOUS
  <2>2. b.req = c.req /\ b.tries = c.tries /\ b.plan = c.plan /\ b.taken = c.taken /\ DOMAIN b = DOMAIN c
    BY <1>2, <2>1 DEF CallOk
  <2> QED
    BY <1>1, <1>4, <1>8, <2>1, <2>2, Zenon
<1> QED
  BY <1>1, <1>2, <1>3, <1>5, <1>6, <1>7, <1>8, Zenon DEF Simple

\* The steps that only answer or go on.
SimpleStep(s) ==
  \/ Guard(s) \/ Prune(s) \/ TokenWrite(s) \/ RowRead(s) \/ AgentRead(s)
  \/ SecretsWrite(s) \/ CredWrite(s) \/ Verify(s) \/ FetchStatuses(s) \/ Triage(s)
  \/ SetupExec(s) \/ RepoScope(s) \/ Lint(s) \/ GuardAgentEnv(s) \/ DocRead(s)
  \/ DocWrite(s) \/ TestTarget(s) \/ TicketInsert(s) \/ NoWorkers(s) \/ OrchestratorOn(s)
  \/ NoActiveSetup(s) \/ Existing(s) \/ ExecInsert(s) \/ KeyRead(s) \/ ExecWrite(s)
  \/ ExecInUse(s) \/ ExecDelete(s) \/ Builtins(s) \/ Usable(s) \/ TemplateWrite(s)
  \/ \E k \in 1..Len(Defaults) : InsertDefault(s, k)

\* Each of them leaves the tables of interest alone, and its call goes on.
LEMMA SimpleSteps ==
  ASSUME RosterInv, NEW s \in Slots, SimpleStep(s)
  PROVE  Progress(s) /\ TablesInv'
<1>1. ASSUME NEW x, At(s, x), x \notin {"blobRead", "delTarget", "profiles", "resolve", "teamKeys", "keys"},
             Simple(s), Aside
      PROVE  Progress(s) /\ TablesInv'
  BY <1>1, SimpleMoves, AsideKept, Zenon
<1>2. CASE Guard(s)
  <2>1. At(s, "guard") /\ Simple(s)
    BY <1>2 DEF Guard, Simple
  <2>2. Aside
    BY <1>2 DEF Guard, Aside, NoKeyLost, frame, tables, ghosts, roster, wsRow
  <2> QED
    BY <1>1, <2>1, <2>2
<1>3. CASE Prune(s)
  <2>1. At(s, "prune") /\ Simple(s)
    BY <1>3 DEF Prune, Simple
  <2>2. Aside
    BY <1>3 DEF Prune, Aside, NoKeyLost, frame, tables, ghosts, roster, wsRow
  <2> QED
    BY <1>1, <2>1, <2>2
<1>4. CASE TokenWrite(s)
  <2>1. At(s, "token") /\ Simple(s)
    BY <1>4 DEF TokenWrite, Simple
  <2>2. Aside
    BY <1>4 DEF TokenWrite, Aside, NoKeyLost, frame, tables, ghosts, roster, wsRow
  <2> QED
    BY <1>1, <2>1, <2>2
<1>5. CASE RowRead(s)
  <2>1. At(s, "rowRead") /\ Simple(s)
    BY <1>5 DEF RowRead, Simple
  <2>2. Aside
    BY <1>5 DEF RowRead, Aside, NoKeyLost, frame, tables, ghosts, roster, wsRow
  <2> QED
    BY <1>1, <2>1, <2>2
<1>6. CASE AgentRead(s)
  <2>1. At(s, "agentRead") /\ Simple(s)
    BY <1>6 DEF AgentRead, Simple
  <2>2. Aside
    BY <1>6 DEF AgentRead, Aside, NoKeyLost, frame, tables, ghosts, roster, wsRow
  <2> QED
    BY <1>1, <2>1, <2>2
<1>7. CASE SecretsWrite(s)
  <2>1. At(s, "secretsWrite") /\ Simple(s)
    BY <1>7 DEF SecretsWrite, Simple
  <2>2. Aside
    BY <1>7 DEF SecretsWrite, Aside, NoKeyLost, frame, tables, ghosts, roster, wsRow
  <2> QED
    BY <1>1, <2>1, <2>2
<1>8. CASE CredWrite(s)
  <2>1. At(s, "credWrite") /\ Simple(s)
    BY <1>8 DEF CredWrite, Simple
  <2>2. Aside
    BY <1>8 DEF CredWrite, Aside, NoKeyLost, frame, tables, ghosts, roster, wsRow
  <2> QED
    BY <1>1, <2>1, <2>2
<1>9. CASE Verify(s)
  <2>1. At(s, "verify") /\ Simple(s)
    BY <1>9 DEF Verify, Simple
  <2>2. Aside
    BY <1>9 DEF Verify, Aside, NoKeyLost, frame, tables, ghosts, roster, wsRow
  <2> QED
    BY <1>1, <2>1, <2>2
<1>10. CASE FetchStatuses(s)
  <2>1. At(s, "statuses") /\ Simple(s)
    BY <1>10 DEF FetchStatuses, Simple
  <2>2. Aside
    BY <1>10 DEF FetchStatuses, Aside, NoKeyLost, frame, tables, ghosts, roster, wsRow
  <2> QED
    BY <1>1, <2>1, <2>2
<1>11. CASE Triage(s)
  <2>1. At(s, "triage") /\ Simple(s)
    BY <1>11 DEF Triage, Simple
  <2>2. Aside
    BY <1>11 DEF Triage, Aside, NoKeyLost, frame, tables, ghosts, roster, wsRow
  <2> QED
    BY <1>1, <2>1, <2>2
<1>12. CASE SetupExec(s)
  <2>1. At(s, "setupExec") /\ Simple(s)
    BY <1>12 DEF SetupExec, Simple
  <2>2. Aside
    BY <1>12 DEF SetupExec, Aside, NoKeyLost, frame, tables, ghosts, roster, wsRow
  <2> QED
    BY <1>1, <2>1, <2>2
<1>13. CASE RepoScope(s)
  <2>1. At(s, "scope") /\ Simple(s)
    BY <1>13 DEF RepoScope, Simple
  <2>2. Aside
    BY <1>13 DEF RepoScope, Aside, NoKeyLost, frame, tables, ghosts, roster, wsRow
  <2> QED
    BY <1>1, <2>1, <2>2
<1>14. CASE Lint(s)
  <2>1. At(s, "lint") /\ Simple(s)
    BY <1>14 DEF Lint, Simple
  <2>2. Aside
    BY <1>14 DEF Lint, Aside, NoKeyLost, frame, tables, ghosts, roster, wsRow
  <2> QED
    BY <1>1, <2>1, <2>2
<1>15. CASE GuardAgentEnv(s)
  <2>1. At(s, "guardEnv") /\ Simple(s)
    BY <1>15 DEF GuardAgentEnv, Simple
  <2>2. Aside
    BY <1>15 DEF GuardAgentEnv, Aside, NoKeyLost, frame, tables, ghosts, roster, wsRow
  <2> QED
    BY <1>1, <2>1, <2>2
<1>16. CASE DocRead(s)
  <2>1. At(s, "docRead") /\ Simple(s)
    BY <1>16 DEF DocRead, Simple
  <2>2. Aside
    BY <1>16 DEF DocRead, Aside, NoKeyLost, frame, tables, ghosts, roster, wsRow
  <2> QED
    BY <1>1, <2>1, <2>2
<1>17. CASE DocWrite(s)
  <2>1. At(s, "docWrite") /\ Simple(s)
    BY <1>17 DEF DocWrite, Simple
  <2>2. Aside
    BY <1>17 DEF DocWrite, Aside, NoKeyLost, frame, tables, ghosts, roster, wsRow
  <2> QED
    BY <1>1, <2>1, <2>2
<1>18. CASE TestTarget(s)
  <2>1. At(s, "testTarget") /\ Simple(s)
    BY <1>18 DEF TestTarget, Simple
  <2>2. Aside
    BY <1>18 DEF TestTarget, Aside, NoKeyLost, frame, tables, ghosts, roster, wsRow
  <2> QED
    BY <1>1, <2>1, <2>2
<1>19. CASE TicketInsert(s)
  <2>1. At(s, "ticketInsert") /\ Simple(s)
    BY <1>19 DEF TicketInsert, Simple, Fail
  <2>2. Aside
    BY <1>19 DEF TicketInsert, Aside, NoKeyLost, frame, tables, ghosts, roster, wsRow, Fail
  <2> QED
    BY <1>1, <2>1, <2>2
<1>20. CASE NoWorkers(s)
  <2>1. At(s, "noWorkers") /\ Simple(s)
    BY <1>20 DEF NoWorkers, Simple
  <2>2. Aside
    BY <1>20 DEF NoWorkers, Aside, NoKeyLost, frame, tables, ghosts, roster, wsRow
  <2> QED
    BY <1>1, <2>1, <2>2
<1>21. CASE OrchestratorOn(s)
  <2>1. At(s, "orchOn") /\ Simple(s)
    BY <1>21 DEF OrchestratorOn, Simple
  <2>2. Aside
    BY <1>21 DEF OrchestratorOn, Aside, NoKeyLost, frame, tables, ghosts, roster, wsRow
  <2> QED
    BY <1>1, <2>1, <2>2
<1>22. CASE NoActiveSetup(s)
  <2>1. At(s, "noActive") /\ Simple(s)
    BY <1>22 DEF NoActiveSetup, Simple
  <2>2. Aside
    BY <1>22 DEF NoActiveSetup, Aside, NoKeyLost, frame, tables, ghosts, roster, wsRow
  <2> QED
    BY <1>1, <2>1, <2>2
<1>23. CASE Existing(s)
  <2>1. At(s, "existing") /\ Simple(s)
    BY <1>23 DEF Existing, Simple
  <2>2. Aside
    BY <1>23 DEF Existing, Aside, NoKeyLost, frame, tables, ghosts, roster, wsRow
  <2> QED
    BY <1>1, <2>1, <2>2
<1>24. CASE ExecInsert(s)
  <2>1. At(s, "execInsert") /\ Simple(s)
    BY <1>24 DEF ExecInsert, Simple
  <2>2. Aside
    BY <1>24 DEF ExecInsert, Aside, NoKeyLost, frame, tables, ghosts, roster, wsRow
  <2> QED
    BY <1>1, <2>1, <2>2
<1>25. CASE KeyRead(s)
  <2>1. At(s, "keyRead") /\ Simple(s)
    BY <1>25 DEF KeyRead, Simple
  <2>2. Aside
    BY <1>25 DEF KeyRead, Aside, NoKeyLost, frame, tables, ghosts, roster, wsRow
  <2> QED
    BY <1>1, <2>1, <2>2
<1>26. CASE ExecWrite(s)
  <2>1. At(s, "execWrite") /\ Simple(s)
    BY <1>26 DEF ExecWrite, Simple
  <2>2. Aside
    BY <1>26 DEF ExecWrite, Aside, NoKeyLost, frame, tables, ghosts, roster, wsRow
  <2> QED
    BY <1>1, <2>1, <2>2
<1>27. CASE ExecInUse(s)
  <2>1. At(s, "inUse") /\ Simple(s)
    BY <1>27 DEF ExecInUse, Simple
  <2>2. Aside
    BY <1>27 DEF ExecInUse, Aside, NoKeyLost, frame, tables, ghosts, roster, wsRow
  <2> QED
    BY <1>1, <2>1, <2>2
<1>28. CASE ExecDelete(s)
  <2>1. At(s, "execDelete") /\ Simple(s)
    BY <1>28 DEF ExecDelete, Simple, Fail
  <2>2. Aside
    BY <1>28 DEF ExecDelete, Aside, NoKeyLost, frame, tables, ghosts, roster, wsRow, Fail
  <2> QED
    BY <1>1, <2>1, <2>2
<1>29. CASE Builtins(s)
  <2>1. At(s, "builtins") /\ Simple(s)
    BY <1>29 DEF Builtins, Simple
  <2>2. Aside
    BY <1>29 DEF Builtins, Aside, NoKeyLost, frame, tables, ghosts, roster, wsRow
  <2> QED
    BY <1>1, <2>1, <2>2
<1>30. CASE Usable(s)
  <2>1. At(s, "usable") /\ Simple(s)
    BY <1>30 DEF Usable, Simple
  <2>2. Aside
    BY <1>30 DEF Usable, Aside, NoKeyLost, frame, tables, ghosts, roster, wsRow
  <2> QED
    BY <1>1, <2>1, <2>2
<1>31. CASE TemplateWrite(s)
  <2>1. At(s, "templateWrite") /\ Simple(s)
    BY <1>31 DEF TemplateWrite, Simple
  <2>2. Aside
    BY <1>31 DEF TemplateWrite, Aside, NoKeyLost, frame, tables, ghosts, roster, wsRow
  <2> QED
    BY <1>1, <2>1, <2>2
<1>32. ASSUME NEW k \in 1..Len(Defaults), InsertDefault(s, k) PROVE Progress(s) /\ TablesInv'
  <2>1. Defaults[k].put \in {"put1", "put2"}
    BY DEF Defaults
  <2>2. At(s, Defaults[k].put) /\ Simple(s)
    BY <1>32 DEF InsertDefault, Simple
  <2>3. Aside
    BY <1>32 DEF InsertDefault, Aside, NoKeyLost, frame, ghosts, wsRow
  <2> QED
    BY <1>1, <2>1, <2>2, <2>3
<1> QED
  BY <1>2, <1>3, <1>4, <1>5, <1>6, <1>7, <1>8, <1>9, <1>10, <1>11, <1>12, <1>13, <1>14, <1>15, <1>16, <1>17, <1>18, <1>19, <1>20, <1>21, <1>22, <1>23, <1>24, <1>25, <1>26, <1>27, <1>28, <1>29, <1>30, <1>31, <1>32 DEF SimpleStep

-----------------------------------------------------------------------------
(* Steps whose call goes somewhere of its own.                             *)

\* Any plan that needs nothing of the steps before.
LEMMA FitTo ==
  ASSUME NEW ag, NEW rn, NEW st, NEW keys, NEW keys2, NEW c, CallOk(c, ag, rn, st),
         NEW p, Chain(p, c.req.op), p # <<>> => Head(p) \notin Later
  PROVE  Fits(Given([c EXCEPT !.plan = p]), c, ag, rn, st, keys, keys2)
<1>1. PICK b : b = [c EXCEPT !.plan = p]
  OBVIOUS
<1>2. b.plan = p /\ b.req = c.req /\ b.tries = c.tries /\ b.taken = c.taken /\ DOMAIN b = DOMAIN c
  BY <1>1 DEF CallOk
<1>3. Fits(Given(b), c, ag, rn, st, keys, keys2)
  BY <1>2, FitPlan DEF CallOk
<1> QED
  BY <1>1, <1>3

\* The keys that are taken are finitely many.
LEMMA KeysFinite ==
  ASSUME Listed(agents)
  PROVE  IsFiniteSet(TakenKeys) /\ IsFiniteSet(LiveAgents)
<1>1. Len(agents) \in Nat
  BY ListShape
<1>2. IsFiniteSet(1..Len(agents))
  BY <1>1, FS_Interval
<1>3. LiveAgents \subseteq 1..Len(agents)
  BY DEF LiveAgents
<1>4. IsFiniteSet(LiveAgents)
  BY <1>2, <1>3, FS_Subset
<1>5. PICK f : f = [i \in LiveAgents |-> agents[i].key]
  OBVIOUS
<1>6. f \in Surjection(LiveAgents, TakenKeys)
  BY <1>5 DEF Surjection, TakenKeys
<1> QED
  BY <1>4, <1>6, FS_Surjection

\* The blob that a merged write starts from is the one that is stored.
LEMMA BlobReads ==
  ASSUME RosterInv, NEW s \in Slots, BlobRead(s)
  PROVE  Progress(s) /\ TablesInv'
<1>1. PICK c : c = call[s]
  OBVIOUS
<1>2. At(s, "blobRead") /\ Aside
  BY DEF BlobRead, Aside, NoKeyLost, frame, tables, Fail
<1>3. c # Idle /\ Head(c.plan) = "blobRead" /\ CallOk(c, agents, runs, started)
  BY <1>1, <1>2, AtStep
<1>4. CASE ws
  <2>1. PICK b : b = [c EXCEPT !.blob = settings]
    OBVIOUS
  <2>2. PICK n : n = [b EXCEPT !.plan = Tail(@)]
    OBVIOUS
  <2>3. /\ b.req = c.req /\ b.tries = c.tries /\ b.plan = c.plan /\ b.taken = c.taken
        /\ DOMAIN b = DOMAIN c /\ b.blob = settings
    BY <1>3, <2>1 DEF CallOk
  <2>4. n.plan = Tail(b.plan) /\ n.blob = b.blob
    BY <1>3, <2>2, <2>3, Rest DEF CallOk
  <2>5. ASSUME n.plan # <<>> PROVE HeadOk(n, agents, started)
    <3>1. Leads("blobRead", Head(n.plan))
      BY <1>3, <2>3, <2>4, <2>5, ChainRest DEF CallOk
    <3>2. Head(n.plan) \notin {"runsRead", "delete", "resolve", "teamKeys", "teamInsert"}
      BY <3>1 DEF Leads
    <3>3. "enabled" \in DOMAIN n.blob /\ (n.blob.enabled => started)
      BY <1>4, <2>3, <2>4 DEF RosterInv, TablesInv, Settled
    <3> QED
      BY <3>2, <3>3 DEF HeadOk
  <2>6. Fits(Given(n), c, agents, runs, started, TakenKeys, TakenKeys)
    BY <1>3, <2>2, <2>3, <2>5, FitFound DEF CallOk
  <2>7. call' = [call EXCEPT ![s] = Given(n)]
    BY <1>1, <1>4, <2>1, <2>2 DEF BlobRead, GoOn, GoTo, Given
  <2>8. Moves(s)
    BY <1>1, <2>6, <2>7 DEF Moves
  <2> QED
    BY <1>1, <1>2, <1>3, <2>8, AsideKept
<1>5. CASE ~ws
  <2>1. Moves(s)
    BY <1>5 DEF BlobRead, Fail, Answer, Moves, Fits
  <2> QED
    BY <1>1, <1>2, <1>3, <2>1, AsideKept
<1> QED
  BY <1>4, <1>5

\* The agent a delete goes on with is not a live orchestrator.
LEMMA DeleteTargets ==
  ASSUME RosterInv, NEW s \in Slots, DeleteTarget(s)
  PROVE  Progress(s) /\ TablesInv'
<1>1. PICK c : c = call[s]
  OBVIOUS
<1>2. At(s, "delTarget") /\ Aside
  BY DEF DeleteTarget, Aside, NoKeyLost, frame, tables, ghosts
<1>3. c # Idle /\ Head(c.plan) = "delTarget" /\ CallOk(c, agents, runs, started)
  BY <1>1, <1>2, AtStep
<1>4. c.req.id \in 1..Len(agents)
  <2>1. Belongs("delTarget", c.req.op)
    BY <1>3, ChainRest DEF CallOk
  <2> QED
    BY <1>3, <2>1 DEF Belongs, CallOk, Known
<1>5. CASE Answer(s)
  <2>1. Moves(s)
    BY <1>5 DEF Answer, Moves, Fits
  <2> QED
    BY <1>1, <1>2, <1>3, <2>1, AsideKept
<1>6. CASE ~(Live(c.req.id) /\ agents[c.req.id].orch) /\ GoOn(s, c)
  <2>1. PICK n : n = [c EXCEPT !.plan = Tail(@)]
    OBVIOUS
  <2>2. n.plan = Tail(c.plan) /\ n.req = c.req
    BY <1>3, <2>1, Rest DEF CallOk
  <2>3. agents[c.req.id].gone \/ ~agents[c.req.id].orch
    BY <1>4, <1>6 DEF Live
  <2>4. ASSUME n.plan # <<>> PROVE HeadOk(n, agents, started)
    <3>1. Leads("delTarget", Head(n.plan))
      BY <1>3, <2>2, <2>4, ChainRest DEF CallOk
    <3>2. Head(n.plan) \notin {"blobWrite", "delete", "resolve", "teamKeys", "teamInsert"}
      BY <3>1 DEF Leads
    <3> QED
      BY <2>2, <2>3, <3>2 DEF HeadOk
  <2>5. Fits(Given(n), c, agents, runs, started, TakenKeys, TakenKeys)
    BY <1>3, <2>1, <2>4, FitFound DEF CallOk
  <2>6. call' = [call EXCEPT ![s] = Given(n)]
    BY <1>1, <1>6, <2>1 DEF GoOn, GoTo, Given
  <2>7. Moves(s)
    BY <1>1, <2>5, <2>6 DEF Moves
  <2> QED
    BY <1>1, <1>2, <1>3, <2>7, AsideKept
<1> QED
  BY <1>1, <1>5, <1>6 DEF DeleteTarget

\* The profiles are looked up for a team whose slugs are distinct.
LEMMA ProfileChecks ==
  ASSUME RosterInv, NEW s \in Slots, Profiles(s)
  PROVE  Progress(s) /\ TablesInv'
<1>1. PICK c : c = call[s]
  OBVIOUS
<1>2. At(s, "profiles") /\ Aside
  BY DEF Profiles, Aside, NoKeyLost, frame, tables, ghosts
<1>3. c # Idle /\ Head(c.plan) = "profiles" /\ CallOk(c, agents, runs, started)
  BY <1>1, <1>2, AtStep
<1>4. CASE Answer(s)
  <2>1. Moves(s)
    BY <1>4 DEF Answer, Moves, Fits
  <2> QED
    BY <1>1, <1>2, <1>3, <2>1, AsideKept
<1>5. CASE TeamOk(c.req.team, c.seen) /\ GoOn(s, [c EXCEPT !.seen = {}])
  <2>1. PICK b : b = [c EXCEPT !.seen = {}]
    OBVIOUS
  <2>2. PICK n : n = [b EXCEPT !.plan = Tail(@)]
    OBVIOUS
  <2>3. /\ b.req = c.req /\ b.tries = c.tries /\ b.plan = c.plan /\ b.taken = c.taken
        /\ DOMAIN b = DOMAIN c
    BY <1>3, <2>1 DEF CallOk
  <2>4. n.plan = Tail(b.plan) /\ n.req = b.req
    BY <1>3, <2>2, <2>3, Rest DEF CallOk
  <2>5. ASSUME n.plan # <<>> PROVE HeadOk(n, agents, started)
    <3>0. n.plan = Tail(c.plan) /\ Chain(c.plan, c.req.op) /\ c.plan # <<>>
      BY <1>3, <2>3, <2>4 DEF CallOk
    <3>1. Leads("profiles", Head(n.plan)) /\ Chain(n.plan, c.req.op)
      BY <1>3, <2>5, <3>0, ChainRest
    <3>2. Head(n.plan) \notin {"blobWrite", "runsRead", "delete", "teamKeys", "teamInsert"}
      BY <3>1 DEF Leads
    <3>3. ASSUME Head(n.plan) = "resolve" PROVE DistinctBases(c.req.team)
      <4>1. Belongs("resolve", c.req.op)
        BY <2>5, <3>1, <3>3, ChainRest
      <4>2. Listed(c.req.team)
        BY <1>3, <4>1 DEF Belongs, CallOk, Request, Listed
      <4>3. Len(c.req.team) \in Nat
        BY <4>2, ListShape
      <4>4. PICK team : team = c.req.team
        OBVIOUS
      <4>5. ASSUME NEW i \in 1..Len(team), NEW j \in 1..Len(team), j < i
            PROVE  team[j].base # team[i].base
        <5>1. j \in 1..(i - 1)
          BY <4>3, <4>4, <4>5
        <5> QED
          BY <1>5, <4>4, <4>5, <5>1 DEF TeamOk
      <4> QED
        BY <4>3, <4>4, <4>5 DEF DistinctBases
    <3> QED
      BY <2>3, <2>4, <3>2, <3>3 DEF HeadOk
  <2>6. Fits(Given(n), c, agents, runs, started, TakenKeys, TakenKeys)
    BY <1>3, <2>2, <2>3, <2>5, FitFound DEF CallOk
  <2>7. call' = [call EXCEPT ![s] = Given(n)]
    BY <1>1, <1>5, <2>1, <2>2 DEF GoOn, GoTo, Given
  <2>8. Moves(s)
    BY <1>1, <2>6, <2>7 DEF Moves
  <2> QED
    BY <1>1, <1>2, <1>3, <2>8, AsideKept
<1> QED
  BY <1>1, <1>4, <1>5 DEF Profiles

\* The profiles of a team are resolved.
LEMMA ProfilesResolve ==
  ASSUME RosterInv, NEW s \in Slots, ResolveProfiles(s)
  PROVE  Progress(s) /\ TablesInv'
<1>1. PICK c : c = call[s]
  OBVIOUS
<1>2. At(s, "resolve") /\ Aside
  BY DEF ResolveProfiles, Aside, NoKeyLost, frame, tables, ghosts
<1>3. c # Idle /\ Head(c.plan) = "resolve" /\ CallOk(c, agents, runs, started)
  BY <1>1, <1>2, AtStep
<1>4. PICK b : b = [c EXCEPT !.exec = [i \in 1..Len(c.req.team) |-> ExecId(c.req.team[i].exec)]]
  OBVIOUS
<1>5. PICK n : n = [b EXCEPT !.plan = Tail(@)]
  OBVIOUS
<1>6. b.req = c.req /\ b.tries = c.tries /\ b.plan = c.plan /\ DOMAIN b = DOMAIN c
  BY <1>3, <1>4 DEF CallOk
<1>7. IsFiniteSet(b.taken)
  BY <1>3, <1>4 DEF CallOk
<1>8. n.plan = Tail(c.plan) /\ n.req = c.req /\ Chain(c.plan, c.req.op) /\ c.plan # <<>>
  BY <1>3, <1>5, <1>6, Rest DEF CallOk
<1>9. ASSUME n.plan # <<>> PROVE HeadOk(n, agents, started)
  <2>1. Leads("resolve", Head(n.plan))
    BY <1>3, <1>8, <1>9, ChainRest
  <2>2. Head(n.plan) \notin {"blobWrite", "runsRead", "delete"}
    BY <2>1 DEF Leads
  <2>3. DistinctBases(c.req.team)
    BY <1>3 DEF CallOk, HeadOk
  <2> QED
    BY <1>8, <2>2, <2>3 DEF HeadOk
<1>10. Fits(Given(n), c, agents, runs, started, TakenKeys, TakenKeys)
  BY <1>3, <1>5, <1>6, <1>7, <1>9, FitFound DEF CallOk
<1>11. call' = [call EXCEPT ![s] = Given(n)]
  BY <1>1, <1>4, <1>5 DEF ResolveProfiles, GoOn, GoTo, Given
<1>12. Moves(s)
  BY <1>1, <1>10, <1>11 DEF Moves
<1> QED
  BY <1>1, <1>2, <1>3, <1>12, AsideKept

\* The transaction reads the keys.
LEMMA TeamKeysRead ==
  ASSUME RosterInv, NEW s \in Slots, TeamKeys(s)
  PROVE  Progress(s) /\ TablesInv'
<1>1. PICK c : c = call[s]
  OBVIOUS
<1>2. At(s, "teamKeys") /\ Aside
  BY DEF TeamKeys, Aside, NoKeyLost, frame, tables, ghosts
<1>3. c # Idle /\ Head(c.plan) = "teamKeys" /\ CallOk(c, agents, runs, started)
  BY <1>1, <1>2, AtStep
<1>4. PICK b : b = [c EXCEPT !.taken = TakenKeys]
  OBVIOUS
<1>5. PICK n : n = [b EXCEPT !.plan = Tail(@)]
  OBVIOUS
<1>6. b.req = c.req /\ b.tries = c.tries /\ b.plan = c.plan /\ DOMAIN b = DOMAIN c
  BY <1>3, <1>4 DEF CallOk
<1>7. IsFiniteSet(b.taken)
  BY <1>3, <1>4, KeysFinite DEF RosterInv, TablesInv, Rows, CallOk
<1>8. n.plan = Tail(c.plan) /\ n.req = c.req /\ Chain(c.plan, c.req.op) /\ c.plan # <<>>
  BY <1>3, <1>5, <1>6, Rest DEF CallOk
<1>9. ASSUME n.plan # <<>> PROVE HeadOk(n, agents, started)
  <2>1. Leads("teamKeys", Head(n.plan))
    BY <1>3, <1>8, <1>9, ChainRest
  <2>2. Head(n.plan) \notin {"blobWrite", "runsRead", "delete"}
    BY <2>1 DEF Leads
  <2>3. DistinctBases(c.req.team)
    BY <1>3 DEF CallOk, HeadOk
  <2> QED
    BY <1>8, <2>2, <2>3 DEF HeadOk
<1>10. Fits(Given(n), c, agents, runs, started, TakenKeys, TakenKeys)
  BY <1>3, <1>5, <1>6, <1>7, <1>9, FitFound DEF CallOk
<1>11. call' = [call EXCEPT ![s] = Given(n)]
  BY <1>1, <1>4, <1>5 DEF TeamKeys, GoOn, GoTo, Given
<1>12. Moves(s)
  BY <1>1, <1>10, <1>11 DEF Moves
<1> QED
  BY <1>1, <1>2, <1>3, <1>12, AsideKept

\* A create that has read the keys is given a free one.
LEMMA KeysRead ==
  ASSUME RosterInv, NEW s \in Slots, ReadKeys(s)
  PROVE  Progress(s) /\ TablesInv'
<1>1. PICK c : c = call[s]
  OBVIOUS
<1>2. At(s, "keys") /\ Aside
  BY DEF ReadKeys, Aside, NoKeyLost, frame, tables, ghosts
<1>3. c # Idle /\ Head(c.plan) = "keys" /\ CallOk(c, agents, runs, started)
  BY <1>1, <1>2, AtStep
<1>4. PICK b : b = [c EXCEPT !.taken = TakenKeys]
  OBVIOUS
<1>5. PICK n : n = [b EXCEPT !.plan = Tail(@)]
  OBVIOUS
<1>6. /\ b.req = c.req /\ b.tries = c.tries /\ b.plan = c.plan /\ DOMAIN b = DOMAIN c
      /\ b.taken = TakenKeys
  BY <1>3, <1>4 DEF CallOk
<1>7. IsFiniteSet(TakenKeys)
  BY KeysFinite DEF RosterInv, TablesInv, Rows
<1>8. /\ n.plan = Tail(c.plan) /\ n.req = c.req /\ n.tries = c.tries /\ n.taken = TakenKeys
      /\ DOMAIN n = DOMAIN c /\ Chain(c.plan, c.req.op) /\ c.plan # <<>>
  BY <1>3, <1>5, <1>6, Rest DEF CallOk
<1>9. Fits(Given(n), c, agents, runs, started, TakenKeys, TakenKeys)
  <2>1. CASE n.plan = <<>>
    BY <2>1 DEF Fits, Given
  <2>2. CASE n.plan # <<>>
    <3>1. Chain(n.plan, c.req.op) /\ Leads("keys", Head(n.plan))
      BY <1>3, <1>8, <2>2, ChainRest
    <3>2. HeadOk(n, agents, started)
      BY <3>1 DEF HeadOk, Leads
    <3>3. CallOk(n, agents, runs, started)
      BY <1>3, <1>7, <1>8, <2>2, <3>1, <3>2 DEF CallOk
    <3>4. EnsureUniqueAgentKey(n.req.agent.base, n.taken) \notin TakenKeys
      BY <1>7, <1>8, FreeKey
    <3>5. Lost(n, TakenKeys) = n.tries
      BY <3>3, <3>4 DEF Lost, CallOk
    <3>6. Lost(c, TakenKeys) >= c.tries
      BY <1>3, LostCount DEF CallOk
    <3> QED
      BY <1>8, <2>2, <3>3, <3>5, <3>6 DEF Fits, Given
  <2> QED
    BY <2>1, <2>2
<1>10. call' = [call EXCEPT ![s] = Given(n)]
  BY <1>1, <1>4, <1>5 DEF ReadKeys, GoOn, GoTo, Given
<1>11. Moves(s)
  BY <1>1, <1>9, <1>10 DEF Moves
<1> QED
  BY <1>1, <1>2, <1>3, <1>11, AsideKept

\* A handler whose rest is another plan than the one it had.
LEMMA Turns ==
  ASSUME RosterInv, NEW s \in Slots, NEW x, At(s, x), Aside, NEW p, Chain(p, call[s].req.op),
         p # <<>> => Head(p) \notin Later, GoTo(s, [call[s] EXCEPT !.plan = p])
  PROVE  Progress(s) /\ TablesInv'
<1>1. PICK c : c = call[s]
  OBVIOUS
<1>2. c # Idle /\ CallOk(c, agents, runs, started)
  BY <1>1, AtStep
<1>3. Fits(Given([c EXCEPT !.plan = p]), c, agents, runs, started, TakenKeys, TakenKeys)
  BY <1>1, <1>2, FitTo
<1>4. call' = [call EXCEPT ![s] = Given([c EXCEPT !.plan = p])]
  BY <1>1 DEF GoTo, Given
<1>5. Moves(s)
  BY <1>1, <1>3, <1>4 DEF Moves
<1> QED
  BY <1>1, <1>2, <1>5, AsideKept

\* A handler that answers.
LEMMA Answered ==
  ASSUME RosterInv, NEW s \in Slots, NEW x, At(s, x), Aside, Answer(s)
  PROVE  Progress(s) /\ TablesInv'
<1>1. Moves(s)
  BY DEF Answer, Moves, Fits
<1> QED
  BY <1>1, AtStep, AsideKept

\* The plan that is left, when nothing in it relies on this step.
LEMMA TailPlain ==
  ASSUME NEW c, NEW ag, NEW rn, NEW st, CallOk(c, ag, rn, st),
         Head(c.plan) \notin {"blobRead", "delTarget", "profiles", "resolve", "teamKeys", "keys"}
  PROVE  Chain(Tail(c.plan), c.req.op) /\ (Tail(c.plan) # <<>> => Head(Tail(c.plan)) \notin Later)
<1>1. /\ Chain(Tail(c.plan), c.req.op)
      /\ Tail(c.plan) # <<>> => Leads(Head(c.plan), Head(Tail(c.plan)))
  BY ChainRest DEF CallOk
<1> QED
  BY <1>1 DEF Leads, Later

\* PUT of an agent: the orchestrator goes another way.
LEMMA UpdateTargets ==
  ASSUME RosterInv, NEW s \in Slots, UpdateTarget(s)
  PROVE  Progress(s) /\ TablesInv'
<1>1. PICK c : c = call[s]
  OBVIOUS
<1>2. At(s, "target") /\ Aside
  BY DEF UpdateTarget, Aside, NoKeyLost, frame, tables, ghosts
<1>3. c # Idle /\ Head(c.plan) = "target" /\ CallOk(c, agents, runs, started)
  BY <1>1, <1>2, AtStep
<1>4. CASE Answer(s)
  BY <1>2, <1>4, Answered
<1>5. PICK q : q = <<"guardEnv", "updateOrch">>
  OBVIOUS
<1>6. CASE GoTo(s, [c EXCEPT !.plan = q])
  <2>1. Belongs("guardEnv", c.req.op) /\ Belongs("updateOrch", c.req.op) /\ Leads("guardEnv", "updateOrch")
    BY DEF Belongs, Leads
  <2>2. Chain(q, c.req.op) /\ q # <<>> /\ q[1] = "guardEnv"
    BY <1>5, <2>1, Chain2, Zenon
  <2>3. Head(q) \notin Later
    BY <2>2, ChainRest DEF Later
  <2> QED
    BY <1>1, <1>2, <1>6, <2>2, <2>3, Turns
<1>7. CASE GoTo(s, [c EXCEPT !.plan = Tail(c.plan)])
  BY <1>1, <1>2, <1>3, <1>7, TailPlain, Turns
<1> QED
  BY <1>1, <1>4, <1>5, <1>6, <1>7 DEF UpdateTarget

\* DELETE of an agent: with runs it is disabled, without it goes.
LEMMA RunsReads ==
  ASSUME RosterInv, NEW s \in Slots, RunsRead(s)
  PROVE  Progress(s) /\ TablesInv'
<1>1. PICK c : c = call[s]
  OBVIOUS
<1>2. At(s, "runsRead") /\ Aside
  BY DEF RunsRead, Aside, NoKeyLost, frame, tables, ghosts
<1>3. c # Idle /\ Head(c.plan) = "runsRead" /\ CallOk(c, agents, runs, started)
  BY <1>1, <1>2, AtStep
<1>4. c.req.op = "agentDelete"
  <2>1. Belongs("runsRead", c.req.op)
    BY <1>3, ChainRest DEF CallOk
  <2> QED
    BY <2>1 DEF Belongs
<1>5. PICK q : q = <<"disable">>
  OBVIOUS
<1>6. PICK r : r = <<"delete", "docRead", "docWrite">>
  OBVIOUS
<1>7. CASE GoTo(s, [c EXCEPT !.plan = q])
  <2>1. Belongs("disable", c.req.op)
    BY DEF Belongs
  <2>2. Chain(q, c.req.op) /\ q # <<>> /\ q[1] = "disable"
    BY <1>5, <2>1, Chain1, Zenon
  <2>3. Head(q) \notin Later
    BY <2>2, ChainRest DEF Later
  <2> QED
    BY <1>1, <1>2, <1>7, <2>2, <2>3, Turns
<1>8. CASE GoTo(s, [c EXCEPT !.plan = r])
  <2>1. PICK n : n = [c EXCEPT !.plan = r]
    OBVIOUS
  <2>2. /\ n.plan = r /\ n.req = c.req /\ n.tries = c.tries /\ n.taken = c.taken
        /\ DOMAIN n = DOMAIN c
    BY <1>3, <2>1 DEF CallOk
  <2>3. /\ Belongs("delete", c.req.op) /\ Belongs("docRead", c.req.op) /\ Belongs("docWrite", c.req.op)
        /\ Leads("delete", "docRead") /\ Leads("docRead", "docWrite")
    BY <1>4 DEF Belongs, Leads
  <2>4. Chain(r, c.req.op) /\ r # <<>> /\ r[1] = "delete"
    BY <1>6, <2>3, Chain3, Zenon
  <2>5. Head(n.plan) = "delete"
    BY <2>2, <2>4, ChainRest
  <2>6. HeadOk(n, agents, started)
    BY <1>3, <2>2, <2>5 DEF CallOk, HeadOk
  <2>7. CallOk(n, agents, runs, started)
    BY <1>3, <2>2, <2>4, <2>6 DEF CallOk
  <2>8. Lost(n, TakenKeys) = n.tries
    BY <2>5, <2>7, LostCount DEF CallOk
  <2>9. Lost(c, TakenKeys) >= c.tries
    BY <1>3, LostCount DEF CallOk
  <2>10. Fits(n, c, agents, runs, started, TakenKeys, TakenKeys)
    BY <2>2, <2>7, <2>8, <2>9 DEF Fits
  <2>11. call' = [call EXCEPT ![s] = n]
    BY <1>8, <2>1, <2>2, <2>4 DEF GoTo
  <2>12. Moves(s)
    BY <1>1, <2>10, <2>11 DEF Moves
  <2> QED
    BY <1>1, <1>2, <1>3, <2>12, AsideKept
<1> QED
  BY <1>1, <1>5, <1>6, <1>7, <1>8 DEF RunsRead

\* Skipping two steps: a test ticket that exists, a default that is there.
LEMMA Skips ==
  ASSUME NEW p, NEW op, Chain(p, op), p # <<>>, p[1] \in {"ticketRead", "count1", "count2"}
  PROVE  /\ Chain(SubSeq(p, 3, Len(p)), op)
         /\ SubSeq(p, 3, Len(p)) # <<>> => Head(SubSeq(p, 3, Len(p))) \notin Later
<1>1. PICK r : r = SubSeq(p, 3, Len(p))
  OBVIOUS
<1>2. Chain(r, op) /\ (r # <<>> => Len(p) >= 3 /\ Head(r) = p[3])
  BY <1>1, ChainFrom
<1>3. ASSUME r # <<>> PROVE p[3] \notin Later
  <2>1. Len(p) \in Nat /\ Len(p) >= 3
    BY <1>2, <1>3, ChainRest
  <2>2. Leads(p[1], p[2]) /\ Leads(p[2], p[3])
    <3>1. 1 \in 1..Len(p) /\ 2 \in 1..Len(p) /\ 3 \in 1..Len(p) /\ 2 = 1 + 1 /\ 3 = 2 + 1
      BY <2>1
    <3> QED
      BY <3>1 DEF Chain
  <2> QED
    BY <2>2 DEF Leads, Later
<1> QED
  BY <1>1, <1>2, <1>3

\* A test run needs its ticket only once.
LEMMA TicketReads ==
  ASSUME RosterInv, NEW s \in Slots, TicketRead(s)
  PROVE  Progress(s) /\ TablesInv'
<1>1. PICK c : c = call[s]
  OBVIOUS
<1>2. At(s, "ticketRead") /\ Aside
  BY DEF TicketRead, Aside, NoKeyLost, frame, tables, ghosts
<1>3. c # Idle /\ Head(c.plan) = "ticketRead" /\ CallOk(c, agents, runs, started)
  BY <1>1, <1>2, AtStep
<1>4. CASE GoTo(s, [c EXCEPT !.plan = Tail(c.plan)])
  BY <1>1, <1>2, <1>3, <1>4, TailPlain, Turns
<1>5. CASE GoTo(s, [c EXCEPT !.plan = SubSeq(c.plan, 3, Len(c.plan))])
  <2>1. Chain(c.plan, c.req.op) /\ c.plan # <<>> /\ c.plan[1] = "ticketRead"
    BY <1>3, ChainRest DEF CallOk
  <2>2. PICK r : r = SubSeq(c.plan, 3, Len(c.plan))
    OBVIOUS
  <2>3. Chain(r, c.req.op) /\ (r # <<>> => Head(r) \notin Later)
    BY <2>1, <2>2, Skips
  <2> QED
    BY <1>1, <1>2, <1>5, <2>2, <2>3, Turns
<1> QED
  BY <1>1, <1>4, <1>5 DEF TicketRead

\* Boot looks for an executor of each type.
LEMMA TypesCounted ==
  ASSUME RosterInv, NEW s \in Slots, NEW k \in 1..Len(Defaults), CountType(s, k)
  PROVE  Progress(s) /\ TablesInv'
<1>1. PICK c : c = call[s]
  OBVIOUS
<1>2. PICK x : x = Defaults[k].count
  OBVIOUS
<1>3. x \in {"count1", "count2"}
  BY <1>2 DEF Defaults
<1>4. At(s, x) /\ Aside
  BY <1>2 DEF CountType, Aside, NoKeyLost, frame, tables, ghosts
<1>5. c # Idle /\ Head(c.plan) = x /\ CallOk(c, agents, runs, started)
  BY <1>1, <1>4, AtStep
<1>6. CASE GoTo(s, [c EXCEPT !.plan = Tail(c.plan)])
  BY <1>1, <1>3, <1>4, <1>5, <1>6, TailPlain, Turns
<1>7. CASE GoTo(s, [c EXCEPT !.plan = SubSeq(c.plan, 3, Len(c.plan))])
  <2>1. Chain(c.plan, c.req.op) /\ c.plan # <<>> /\ c.plan[1] = x
    BY <1>5, ChainRest DEF CallOk
  <2>2. PICK r : r = SubSeq(c.plan, 3, Len(c.plan))
    OBVIOUS
  <2>3. Chain(r, c.req.op) /\ (r # <<>> => Head(r) \notin Later)
    BY <1>3, <2>1, <2>2, Skips
  <2> QED
    BY <1>1, <1>4, <1>7, <2>2, <2>3, Turns
<1> QED
  BY <1>1, <1>6, <1>7 DEF CountType

\* A report from a run that is not a setup run is recast.
LEMMA RunReads ==
  ASSUME RosterInv, NEW s \in Slots, RunRead(s)
  PROVE  Progress(s) /\ TablesInv'
<1>1. PICK c : c = call[s]
  OBVIOUS
<1>2. At(s, "runRead") /\ Aside
  BY DEF RunRead, Aside, NoKeyLost, frame, tables, ghosts
<1>3. c # Idle /\ Head(c.plan) = "runRead" /\ CallOk(c, agents, runs, started)
  BY <1>1, <1>2, AtStep
<1>4. CASE Answer(s)
  BY <1>2, <1>4, Answered
<1>5. PICK q : q = <<"recast">>
  OBVIOUS
<1>6. CASE GoTo(s, [c EXCEPT !.plan = q])
  <2>1. Belongs("recast", c.req.op)
    BY DEF Belongs
  <2>2. Chain(q, c.req.op) /\ q # <<>> /\ q[1] = "recast"
    BY <1>5, <2>1, Chain1, Zenon
  <2>3. Head(q) \notin Later
    BY <2>2, ChainRest DEF Later
  <2> QED
    BY <1>1, <1>2, <1>6, <2>2, <2>3, Turns
<1>7. CASE GoTo(s, [c EXCEPT !.plan = Tail(c.plan)])
  BY <1>1, <1>2, <1>3, <1>7, TailPlain, Turns
<1> QED
  BY <1>1, <1>4, <1>5, <1>6, <1>7 DEF RunRead

\* set_env of the admin tools turns into the calls it makes.
LEMMA ToolGets ==
  ASSUME RosterInv, NEW s \in Slots, ToolGet(s)
  PROVE  Progress(s) /\ TablesInv'
<1>1. PICK c : c = call[s]
  OBVIOUS
<1>2. At(s, "toolGet") /\ Aside
  BY DEF ToolGet, Aside, NoKeyLost, frame, tables, ghosts
<1>3. c # Idle /\ Head(c.plan) = "toolGet" /\ CallOk(c, agents, runs, started)
  BY <1>1, <1>2, AtStep
<1>4. CASE Answer(s)
  BY <1>2, <1>4, Answered
<1>5. ASSUME NEW e, NEW a, NEW b, NEW f, GoTo(s, [c EXCEPT !.edits = e, !.plan = a \o b]),
             a = <<>> \/ a = SecretsPlan(c.req.scope), b = <<>> \/ b = SettingsPlan(<<f>>, "keep")
      PROVE  Progress(s) /\ TablesInv'
  <2>1. Chain(a, c.req.op) /\ (a # <<>> => a[1] = "rowRead" /\ a[Len(a)] = "secretsWrite")
    BY <1>5, ChainNone, SettingsChains, Zenon
  <2>2. Chain(b, c.req.op) /\ (b # <<>> => b[1] = "guard")
    <3>1. PICK x : x = <<f>>
      OBVIOUS
    <3>2. Chain(SettingsPlan(x, "keep"), c.req.op) /\ SettingsPlan(x, "keep")[1] = "guard"
      BY SettingsChains, Zenon
    <3> QED
      BY <1>5, <3>1, <3>2, ChainNone, Zenon
  <2>3. a # <<>> /\ b # <<>> => Leads(a[Len(a)], b[1])
    BY <2>1, <2>2 DEF Leads
  <2>4. PICK p : p = a \o b
    OBVIOUS
  <2>5. Chain(p, c.req.op) /\ (p # <<>> => p[1] \in {"rowRead", "guard"})
    BY <2>1, <2>2, <2>3, <2>4, ChainJoin, Zenon
  <2>6. p # <<>> => Head(p) \notin Later
    BY <2>5, ChainRest DEF Later
  <2>7. PICK n : n = [c EXCEPT !.edits = e, !.plan = p]
    OBVIOUS
  <2>8. /\ n.plan = p /\ n.req = c.req /\ n.tries = c.tries /\ n.taken = c.taken
        /\ DOMAIN n = DOMAIN c
    BY <1>3, <2>7 DEF CallOk
  <2>9. Fits(Given(n), c, agents, runs, started, TakenKeys, TakenKeys)
    BY <1>3, <2>5, <2>6, <2>8, FitPlan DEF CallOk
  <2>10. call' = [call EXCEPT ![s] = Given(n)]
    BY <1>5, <2>4, <2>7 DEF GoTo, Given
  <2>11. Moves(s)
    BY <1>1, <2>9, <2>10 DEF Moves
  <2> QED
    BY <1>1, <1>2, <1>3, <2>11, AsideKept
<1>6. ASSUME ~Answer(s)
      PROVE  \E e, f : \E a \in {<<>>, SecretsPlan(c.req.scope)} : \E b \in {<<>>, SettingsPlan(<<f>>, "keep")} :
               GoTo(s, [c EXCEPT !.edits = e, !.plan = a \o b])
  BY <1>1, <1>6 DEF ToolGet
<1> QED
  BY <1>4, <1>5, <1>6

-----------------------------------------------------------------------------
(* Agent rows: added, joined, changed.                                     *)

LiveKeys(ag) == {ag[i].key : i \in {j \in 1..Len(ag) : ~ag[j].gone}}
LiveOrchs(ag) == {i \in 1..Len(ag) : ~ag[i].gone /\ ag[i].orch}

\* The row of an agent as it is inserted.
Fresh(a) ==
  /\ DOMAIN a = {"key", "orch", "trigger", "exec", "enabled", "env", "from", "gone"}
  /\ a.orch \in BOOLEAN /\ a.gone = FALSE
  /\ a.key = ORCHESTRATOR_AGENT_KEY <=> a.orch

\* One table is the other with rows added at its end.
Extended(ag, ag2) ==
  /\ Len(ag) \in Nat /\ Len(ag2) \in Nat /\ Len(ag) <= Len(ag2)
  /\ \A i \in 1..Len(ag) : ag2[i] = ag[i]

\* Rows that may be added together: each on a key of its own.
Joins(q, ag) ==
  /\ Listed(q)
  /\ \A i \in 1..Len(q) : Fresh(q[i]) /\ q[i].key \notin LiveKeys(ag)
  /\ \A i, j \in 1..Len(q) : q[i].key = q[j].key => i = j

\* What agents see of each other when rows are only added.
LEMMA ExtendedGrows ==
  ASSUME NEW ag, NEW ag2, Extended(ag, ag2)
  PROVE  /\ \A i \in 1..Len(ag) : i \in 1..Len(ag2)
         /\ \A i \in 1..Len(ag) : ag2[i].orch = ag[i].orch /\ (ag[i].gone => ag2[i].gone)
         /\ LiveOrchs(ag) \subseteq LiveOrchs(ag2)
         /\ (\A i \in (Len(ag) + 1)..Len(ag2) : ag2[i].from # "report") => ReportedOf(ag2) = ReportedOf(ag)
<1>1. \A i \in 1..Len(ag) : i \in 1..Len(ag2) /\ ag2[i] = ag[i]
  BY DEF Extended
<1>2. LiveOrchs(ag) \subseteq LiveOrchs(ag2)
  BY <1>1 DEF LiveOrchs
<1>3. ASSUME \A i \in (Len(ag) + 1)..Len(ag2) : ag2[i].from # "report"
      PROVE  ReportedOf(ag2) = ReportedOf(ag)
  <2>1. \A i \in 1..Len(ag2) : i \in 1..Len(ag) \/ i \in (Len(ag) + 1)..Len(ag2)
    BY DEF Extended
  <2> QED
    BY <1>1, <1>3, <2>1 DEF ReportedOf
<1> QED
  BY <1>1, <1>2, <1>3

\* The table they have joined.
Joined(ag, q, ag2) ==
  /\ Rows(ag2) /\ Extended(ag, ag2) /\ Len(ag2) = Len(ag) + Len(q)
  /\ \A i \in 1..Len(q) : ag2[Len(ag) + i] = q[i]
  /\ LiveKeys(ag2) = LiveKeys(ag) \cup {q[i].key : i \in 1..Len(q)}

\* Rows joined to a table: each of them new, on a key of its own.
LEMMA RowsJoined ==
  ASSUME NEW ag, Rows(ag), NEW q, Joins(q, ag), NEW ag2, ag2 = ag \o q
  PROVE  Joined(ag, q, ag2)
<1>0. /\ Listed(q) /\ \A i \in 1..Len(q) : Fresh(q[i]) /\ q[i].key \notin LiveKeys(ag)
      /\ \A i, j \in 1..Len(q) : q[i].key = q[j].key => i = j
  BY DEF Joins
<1>1. /\ Listed(ag2) /\ Len(ag2) = Len(ag) + Len(q)
      /\ \A i \in 1..Len(ag) : ag2[i] = ag[i]
      /\ \A i \in 1..Len(q) : ag2[Len(ag) + i] = q[i]
  BY <1>0, ListConcat DEF Rows
<1>2. Len(ag) \in Nat /\ Len(q) \in Nat
  BY <1>0, ListShape DEF Rows
<1>3. \A i \in 1..Len(ag2) : i \in 1..Len(ag) \/ (\E k \in 1..Len(q) : i = Len(ag) + k)
  <2>1. SUFFICES ASSUME NEW i \in 1..Len(ag2), i \notin 1..Len(ag) PROVE \E k \in 1..Len(q) : i = Len(ag) + k
    OBVIOUS
  <2>2. i - Len(ag) \in 1..Len(q) /\ i = Len(ag) + (i - Len(ag))
    BY <1>1, <1>2, <2>1
  <2> QED
    BY <2>2
<1>4. \A i \in 1..Len(ag) : i \in 1..Len(ag2)
  BY <1>1, <1>2
<1>5. \A k \in 1..Len(q) : Len(ag) + k \in 1..Len(ag2)
  BY <1>1, <1>2
<1>6. ASSUME NEW i \in 1..Len(ag2)
      PROVE  /\ DOMAIN ag2[i] = {"key", "orch", "trigger", "exec", "enabled", "env", "from", "gone"}
             /\ ag2[i].orch \in BOOLEAN /\ ag2[i].gone \in BOOLEAN
             /\ ~ag2[i].gone => (ag2[i].key = ORCHESTRATOR_AGENT_KEY <=> ag2[i].orch)
  <2>1. CASE i \in 1..Len(ag)
    BY <1>1, <2>1 DEF Rows
  <2>2. ASSUME NEW k \in 1..Len(q), i = Len(ag) + k
        PROVE  /\ DOMAIN ag2[i] = {"key", "orch", "trigger", "exec", "enabled", "env", "from", "gone"}
               /\ ag2[i].orch \in BOOLEAN /\ ag2[i].gone \in BOOLEAN
               /\ ~ag2[i].gone => (ag2[i].key = ORCHESTRATOR_AGENT_KEY <=> ag2[i].orch)
    <3>1. ag2[i] = q[k] /\ Fresh(q[k])
      BY <1>0, <1>1, <2>2
    <3> QED
      BY <3>1 DEF Fresh
  <2> QED
    BY <1>3, <2>1, <2>2
<1>7. ASSUME NEW i \in 1..Len(ag2), NEW j \in 1..Len(ag2), ~ag2[i].gone, ~ag2[j].gone,
             ag2[i].key = ag2[j].key
      PROVE  i = j
  <2>1. CASE i \in 1..Len(ag) /\ j \in 1..Len(ag)
    <3>1. ag2[i] = ag[i] /\ ag2[j] = ag[j]
      BY <1>1, <2>1
    <3> QED
      BY <1>7, <2>1, <3>1 DEF Rows
  <2>2. ASSUME NEW m \in 1..Len(ag), NEW k \in 1..Len(q), ~ag2[m].gone
        PROVE  ag2[m].key # ag2[Len(ag) + k].key
    <3>1. ag2[m] = ag[m] /\ ag2[Len(ag) + k] = q[k]
      BY <1>1
    <3>2. ag[m].key \in LiveKeys(ag)
      BY <2>2, <3>1 DEF LiveKeys
    <3> QED
      BY <1>0, <3>1, <3>2
  <2>3. CASE i \in 1..Len(ag) /\ j \notin 1..Len(ag)
    <3>1. PICK k \in 1..Len(q) : j = Len(ag) + k
      BY <1>3, <2>3
    <3> QED
      BY <1>7, <2>2, <2>3, <3>1, Zenon
  <2>4. CASE i \notin 1..Len(ag) /\ j \in 1..Len(ag)
    <3>1. PICK k \in 1..Len(q) : i = Len(ag) + k
      BY <1>3, <2>4
    <3> QED
      BY <1>7, <2>2, <2>4, <3>1, Zenon
  <2>5. ASSUME NEW k \in 1..Len(q), NEW m \in 1..Len(q), i = Len(ag) + k, j = Len(ag) + m
        PROVE  i = j
    <3>1. ag2[i] = q[k] /\ ag2[j] = q[m]
      BY <1>1, <2>5
    <3> QED
      BY <1>0, <1>7, <2>5, <3>1
  <2> QED
    BY <1>3, <2>1, <2>3, <2>4, <2>5
<1>8. LiveKeys(ag2) = LiveKeys(ag) \cup {q[i].key : i \in 1..Len(q)}
  <2>1. ASSUME NEW x \in LiveKeys(ag2) PROVE x \in LiveKeys(ag) \cup {q[i].key : i \in 1..Len(q)}
    <3>1. PICK i \in 1..Len(ag2) : ~ag2[i].gone /\ x = ag2[i].key
      BY DEF LiveKeys
    <3>2. CASE i \in 1..Len(ag)
      BY <1>1, <3>1, <3>2 DEF LiveKeys
    <3>3. ASSUME NEW k \in 1..Len(q), i = Len(ag) + k PROVE x \in {q[j].key : j \in 1..Len(q)}
      BY <1>1, <3>1, <3>3
    <3> QED
      BY <1>3, <3>2, <3>3
  <2>2. ASSUME NEW x \in LiveKeys(ag) PROVE x \in LiveKeys(ag2)
    BY <1>1, <1>4 DEF LiveKeys
  <2>3. ASSUME NEW k \in 1..Len(q) PROVE q[k].key \in LiveKeys(ag2)
    <3>1. ag2[Len(ag) + k] = q[k] /\ ~q[k].gone /\ Len(ag) + k \in 1..Len(ag2)
      BY <1>0, <1>1, <1>5 DEF Fresh
    <3> QED
      BY <3>1 DEF LiveKeys
  <2> QED
    BY <2>1, <2>2, <2>3
<1>9. Rows(ag2)
  BY <1>1, <1>6, <1>7 DEF Rows
<1>10. Extended(ag, ag2)
  BY <1>1, <1>2 DEF Extended
<1> QED
  BY <1>1, <1>8, <1>9, <1>10 DEF Joined

\* One row added.
LEMMA RowAdded ==
  ASSUME NEW ag, Rows(ag), NEW a, Fresh(a), a.key \notin LiveKeys(ag), NEW ag2, ag2 = Append(ag, a)
  PROVE  /\ Rows(ag2) /\ Extended(ag, ag2) /\ Len(ag2) = Len(ag) + 1 /\ ag2[Len(ag) + 1] = a
         /\ LiveKeys(ag2) = LiveKeys(ag) \cup {a.key}
<1>1. PICK q : q = <<a>>
  OBVIOUS
<1>2. Listed(q) /\ Len(q) = 1 /\ q[1] = a
  <2>1. q \in Seq({a}) /\ Len(q) = 1 /\ q[1] = a
    BY <1>1
  <2> QED
    BY <2>1, ListOf
<1>3. \A i \in 1..Len(q) : i = 1
  BY <1>2
<1>4. ag2 = ag \o q
  <2>1. PICK S : ag \in Seq(S)
    BY DEF Rows, Listed
  <2>2. ag \in Seq(S \cup {a})
    BY <2>1
  <2> QED
    BY <1>1, <2>2
<1>5. /\ Rows(ag2) /\ Extended(ag, ag2) /\ Len(ag2) = Len(ag) + Len(q)
      /\ \A i \in 1..Len(q) : ag2[Len(ag) + i] = q[i]
      /\ LiveKeys(ag2) = LiveKeys(ag) \cup {q[i].key : i \in 1..Len(q)}
  <2>1. \A i \in 1..Len(q) : Fresh(q[i]) /\ q[i].key \notin LiveKeys(ag)
    BY <1>2, <1>3
  <2>2. Joins(q, ag)
    BY <1>2, <1>3, <2>1 DEF Joins
  <2>3. Joined(ag, q, ag2)
    BY <1>4, <2>2, RowsJoined, Zenon
  <2> QED
    BY <2>3 DEF Joined
<1>6. 1 \in 1..Len(q)
  BY <1>2
<1>7. {q[i].key : i \in 1..Len(q)} = {a.key}
  BY <1>2, <1>3, <1>6
<1> QED
  BY <1>2, <1>5, <1>6, <1>7

\* One row changed: it keeps its key and its role, and is not brought back.
LEMMA RowChanged ==
  ASSUME NEW ag, Rows(ag), NEW i \in 1..Len(ag), NEW r, DOMAIN r = DOMAIN ag[i],
         r.key = ag[i].key, r.orch = ag[i].orch, r.from = ag[i].from, r.gone \in BOOLEAN,
         ag[i].gone => r.gone, NEW ag2, ag2 = Changed(ag, i, r)
  PROVE  /\ Rows(ag2) /\ Len(ag2) = Len(ag) /\ ag2[i] = r
         /\ \A j \in 1..Len(ag) : j # i => ag2[j] = ag[j]
         /\ LiveKeys(ag2) \subseteq LiveKeys(ag) /\ ReportedOf(ag2) = ReportedOf(ag)
         /\ \A j \in 1..Len(ag) : ag2[j].orch = ag[j].orch /\ (ag[j].gone => ag2[j].gone)
         /\ (ag[i].orch => r.gone = ag[i].gone) => LiveOrchs(ag) \subseteq LiveOrchs(ag2)
<1>1. /\ Listed(ag2) /\ Len(ag2) = Len(ag) /\ ag2[i] = r
      /\ \A j \in 1..Len(ag) : j # i => ag2[j] = ag[j]
  <2>1. Listed(ag)
    BY DEF Rows
  <2> QED
    BY <2>1, ListChange
<1>2. ASSUME NEW j \in 1..Len(ag)
      PROVE  /\ DOMAIN ag2[j] = DOMAIN ag[j] /\ ag2[j].key = ag[j].key /\ ag2[j].orch = ag[j].orch
             /\ ag2[j].from = ag[j].from /\ ag2[j].gone \in BOOLEAN /\ (ag[j].gone => ag2[j].gone)
  BY <1>1 DEF Rows
<1>3. Rows(ag2)
  BY <1>1, <1>2 DEF Rows
<1>4. LiveKeys(ag2) \subseteq LiveKeys(ag) /\ ReportedOf(ag2) = ReportedOf(ag)
  BY <1>1, <1>2 DEF LiveKeys, ReportedOf
<1>5. (ag[i].orch => r.gone = ag[i].gone) => LiveOrchs(ag) \subseteq LiveOrchs(ag2)
  BY <1>1 DEF LiveOrchs
<1> QED
  BY <1>1, <1>2, <1>3, <1>4, <1>5

-----------------------------------------------------------------------------
(* Steps that change agents, runs or settings.                             *)

Steady == UNCHANGED <<scene, served, again, resends>> /\ NoKeyLost

\* A call that ends with a change.
LEMMA EndsProgress ==
  ASSUME RosterInv, NEW s \in Slots, call[s] # Idle, Steady, Answer(s),
         Grows(agents, agents', runs, runs', started, started')
  PROVE  Progress(s)
BY DEF Progress, Steady, NoKeyLost, Answer, Fits

\* A call that goes on after a change: at most the reserved key is taken.
LEMMA GoesProgress ==
  ASSUME RosterInv, NEW s \in Slots, NEW x, At(s, x), Steady, GoOn(s, call[s]),
         x \notin {"blobRead", "delTarget", "profiles", "resolve", "teamKeys", "keys"},
         Grows(agents, agents', runs, runs', started, started'),
         TakenKeys' \subseteq TakenKeys \cup ReservedKeys
  PROVE  Progress(s)
<1>1. PICK c : c = call[s]
  OBVIOUS
<1>2. c # Idle /\ Head(c.plan) = x /\ CallOk(c, agents, runs, started)
  BY <1>1, AtStep
<1>3. CallOk(c, agents', runs', started')
  BY <1>2, CallGrows
<1>4. Fits(Given([c EXCEPT !.plan = Tail(@)]), c, agents', runs', started', TakenKeys, TakenKeys')
  BY <1>2, <1>3, FitNext DEF CallOk
<1>5. call' = [call EXCEPT ![s] = Given([c EXCEPT !.plan = Tail(@)])]
  BY <1>1 DEF GoOn, GoTo, Given
<1> QED
  BY <1>1, <1>2, <1>4, <1>5 DEF Progress, Steady, NoKeyLost

\* Nothing follows an insert that takes keys: the call has ended.
LEMMA LastStep ==
  ASSUME RosterInv, NEW s \in Slots, NEW x, At(s, x), x \in {"insert", "teamInsert", "yaml"},
         GoOn(s, call[s])
  PROVE  Answer(s)
<1>1. PICK c : c = call[s]
  OBVIOUS
<1>2. c # Idle /\ Head(c.plan) = x /\ CallOk(c, agents, runs, started)
  BY <1>1, AtStep
<1>3. Tail(c.plan) = <<>>
  BY <1>2, ChainRest DEF CallOk, Leads
<1>4. [c EXCEPT !.plan = Tail(@)].plan = <<>>
  BY <1>2, <1>3 DEF CallOk
<1> QED
  BY <1>1, <1>4 DEF GoOn, GoTo, Answer

\* The tables that did not change.
LEMMA Same ==
  ASSUME RosterInv
  PROVE  /\ Rows(agents) /\ Teams(agents, runs, reviews) /\ Settled(ws, settings, started)
         /\ Len(agents) \in Nat /\ Len(runs) \in Nat
         /\ TakenKeys = LiveKeys(agents) /\ Orchestrators = LiveOrchs(agents)
         /\ TakenKeys' = LiveKeys(agents') /\ Orchestrators' = LiveOrchs(agents')
         /\ seeded => LiveOrchs(agents) # {}
<1>1. Rows(agents) /\ Teams(agents, runs, reviews) /\ Settled(ws, settings, started)
  BY DEF RosterInv, TablesInv
<1>2. Len(agents) \in Nat /\ Len(runs) \in Nat
  BY <1>1, ListShape DEF Rows, Teams
<1>3. TakenKeys = LiveKeys(agents) /\ Orchestrators = LiveOrchs(agents)
  BY DEF TakenKeys, LiveAgents, LiveKeys, Orchestrators, LiveOrchs
<1>4. TakenKeys' = LiveKeys(agents') /\ Orchestrators' = LiveOrchs(agents')
  BY DEF TakenKeys, LiveAgents, LiveKeys, Orchestrators, LiveOrchs
<1> QED
  BY <1>1, <1>2, <1>3, <1>4 DEF RosterInv, TablesInv

\* The write of the settings: only an operator's edit starts the workspace.
LEMMA BlobWrites ==
  ASSUME RosterInv, NEW s \in Slots, BlobWrite(s)
  PROVE  Progress(s) /\ TablesInv'
<1>1. PICK c : c = call[s]
  OBVIOUS
<1>2. PICK e : e = Head(c.edits)
  OBVIOUS
<1>3. /\ At(s, "blobWrite") /\ settings' = Merge(c.blob, e)
      /\ started' = (started \/ ("enabled" \in DOMAIN e /\ e.enabled))
      /\ GoOn(s, [c EXCEPT !.edits = Tail(@), !.blob = Merge(c.blob, e)])
      /\ UNCHANGED <<frame, ws, roster, seeded, failures>>
  BY <1>1, <1>2 DEF BlobWrite
<1>4. c # Idle /\ Head(c.plan) = "blobWrite" /\ CallOk(c, agents, runs, started)
  BY <1>1, <1>3, AtStep
<1>5. "enabled" \in DOMAIN c.blob /\ (c.blob.enabled => started)
  BY <1>4 DEF CallOk, HeadOk
<1>6. Settled(ws', settings', started')
  <2>1. /\ "enabled" \in DOMAIN settings'
        /\ settings'.enabled = IF "enabled" \in DOMAIN e THEN e.enabled ELSE c.blob.enabled
    BY <1>3, <1>5 DEF Merge
  <2> QED
    BY <1>3, <1>5, <2>1 DEF Settled
<1>7. TablesInv'
  BY <1>3, <1>6, Same DEF TablesInv, roster
<1>8. Grows(agents, agents', runs, runs', started, started')
  <2>1. agents' = agents /\ runs' = runs
    BY <1>3 DEF roster
  <2>2. started => started'
    BY <1>3
  <2> QED
    BY <2>1, <2>2, Same DEF Grows
<1>9. CallOk(c, agents', runs', started')
  BY <1>4, <1>8, CallGrows
<1>10. PICK b : b = [c EXCEPT !.edits = Tail(@), !.blob = Merge(c.blob, e)]
  OBVIOUS
<1>11. b.req = c.req /\ b.tries = c.tries /\ b.plan = c.plan /\ b.taken = c.taken /\ DOMAIN b = DOMAIN c
  BY <1>4, <1>10 DEF CallOk
<1>12. Fits(Given([b EXCEPT !.plan = Tail(@)]), c, agents', runs', started', TakenKeys, TakenKeys')
  <2>1. IsFiniteSet(b.taken)
    BY <1>4, <1>11 DEF CallOk
  <2> QED
    BY <1>4, <1>9, <1>11, <2>1, FitNext
<1>13. call' = [call EXCEPT ![s] = Given([b EXCEPT !.plan = Tail(@)])]
  BY <1>3, <1>10 DEF GoOn, GoTo, Given
<1>14. TakenKeys' = TakenKeys
  BY <1>3, Same DEF roster
<1> QED
  BY <1>1, <1>3, <1>4, <1>7, <1>8, <1>12, <1>13, <1>14 DEF Progress, frame

\* A workspace comes into being paused.
LEMMA WorkspaceInserts ==
  ASSUME RosterInv, NEW s \in Slots, WorkspaceInsert(s)
  PROVE  Progress(s) /\ TablesInv'
<1>1. /\ At(s, "wsInsert") /\ GoOn(s, call[s])
      /\ settings' = Created([r \in call[s].req.repos |-> {}], call[s].req.token = "set")
      /\ UNCHANGED <<frame, roster, started, seeded, failures>>
  BY DEF WorkspaceInsert, ghosts
<1>2. Settled(ws', settings', started')
  BY <1>1 DEF Settled, Created
<1>3. TablesInv'
  BY <1>1, <1>2, Same DEF TablesInv, roster
<1>4. Grows(agents, agents', runs, runs', started, started') /\ TakenKeys' = TakenKeys
  BY <1>1, Same DEF Grows, roster
<1>5. Steady
  BY <1>1 DEF Steady, NoKeyLost, frame
<1> QED
  BY <1>1, <1>3, <1>4, <1>5, GoesProgress

\* The seed looks for an orchestrator.
LEMMA OrchReads ==
  ASSUME RosterInv, NEW s \in Slots, OrchRead(s)
  PROVE  Progress(s) /\ TablesInv'
<1>1. PICK c : c = call[s]
  OBVIOUS
<1>2. /\ At(s, "orchRead") /\ UNCHANGED <<frame, tables, started, failures>>
      /\ seeded' = (seeded \/ Orchestrators # {})
  BY DEF OrchRead
<1>3. c # Idle /\ Head(c.plan) = "orchRead" /\ CallOk(c, agents, runs, started)
  BY <1>1, <1>2, AtStep
<1>4. PICK p : p = IF Orchestrators # {} \/ ~ws THEN SubSeq(c.plan, 5, Len(c.plan)) ELSE Tail(c.plan)
  OBVIOUS
<1>5. call' = [call EXCEPT ![s] = Given([c EXCEPT !.plan = p])]
  BY <1>1, <1>4 DEF OrchRead, GoTo, Given
<1>6. Chain(p, c.req.op) /\ (p # <<>> => Head(p) \notin Later)
  <2>1. CASE p = Tail(c.plan)
    BY <1>3, <2>1, TailPlain
  <2>2. CASE p = SubSeq(c.plan, 5, Len(c.plan))
    <3>1. PICK q : q = c.plan
      OBVIOUS
    <3>2. Chain(q, c.req.op) /\ q # <<>> /\ q[1] = "orchRead" /\ Len(q) \in Nat
      BY <1>3, <3>1, ChainRest DEF CallOk
    <3>3. Chain(p, c.req.op) /\ (p # <<>> => Len(q) >= 5 /\ Head(p) = q[5])
      BY <2>2, <3>1, <3>2, ChainFrom
    <3>4. ASSUME p # <<>> PROVE q[5] \notin Later
      <4>1. Len(q) >= 5
        BY <3>3, <3>4
      <4>2. Leads(q[1], q[2]) /\ Leads(q[2], q[3]) /\ Leads(q[3], q[4]) /\ Leads(q[4], q[5])
        <5>1. /\ 1 \in 1..Len(q) /\ 2 \in 1..Len(q) /\ 3 \in 1..Len(q) /\ 4 \in 1..Len(q) /\ 5 \in 1..Len(q)
              /\ 2 = 1 + 1 /\ 3 = 2 + 1 /\ 4 = 3 + 1 /\ 5 = 4 + 1
          BY <3>2, <4>1
        <5> QED
          BY <3>2, <5>1 DEF Chain
      <4> QED
        BY <3>2, <4>2 DEF Leads, Later
    <3> QED
      BY <3>3, <3>4
  <2> QED
    BY <1>4, <2>1, <2>2
<1>7. Fits(Given([c EXCEPT !.plan = p]), c, agents, runs, started, TakenKeys, TakenKeys)
  BY <1>3, <1>6, FitTo
<1>8. Grows(agents, agents', runs, runs', started, started') /\ TakenKeys' = TakenKeys
  BY <1>2, Same DEF Grows, tables
<1>9. TablesInv'
  <2>1. seeded' => Orchestrators' # {}
    BY <1>2, Same DEF tables
  <2> QED
    BY <1>2, <2>1, Same DEF TablesInv, tables
<1>10. Fits(Given([c EXCEPT !.plan = p]), c, agents', runs', started', TakenKeys, TakenKeys')
  BY <1>2, <1>7, <1>8 DEF tables
<1> QED
  BY <1>1, <1>2, <1>3, <1>5, <1>8, <1>9, <1>10 DEF Progress, frame

\* A change of one agent row that keeps its key, its role and its origin.
LEMMA RowTables ==
  ASSUME RosterInv, NEW i \in 1..Len(agents), NEW r, DOMAIN r = DOMAIN agents[i],
         r.key = agents[i].key, r.orch = agents[i].orch, r.from = agents[i].from, r.gone \in BOOLEAN,
         agents[i].gone => r.gone, agents[i].orch => r.gone = agents[i].gone,
         agents' = [agents EXCEPT ![i] = r], UNCHANGED <<runs, reviews, ws, settings, started, seeded>>
  PROVE  /\ TablesInv' /\ TakenKeys' \subseteq TakenKeys
         /\ Grows(agents, agents', runs, runs', started, started')
<1>1. PICK ag2 : ag2 = Changed(agents, i, r)
  OBVIOUS
<1>2. agents' = ag2
  BY <1>1 DEF Changed
<1>3. /\ Rows(ag2) /\ Len(ag2) = Len(agents)
      /\ LiveKeys(ag2) \subseteq LiveKeys(agents) /\ ReportedOf(ag2) = ReportedOf(agents)
      /\ \A j \in 1..Len(agents) : ag2[j].orch = agents[j].orch /\ (agents[j].gone => ag2[j].gone)
      /\ LiveOrchs(agents) \subseteq LiveOrchs(ag2)
  BY <1>1, Same, RowChanged
<1>4. Teams(ag2, runs, reviews)
  BY <1>3, Same DEF Teams
<1>5. Grows(agents, agents', runs, runs', started, started')
  BY <1>2, <1>3, Same DEF Grows
<1>6. TablesInv'
  BY <1>2, <1>3, <1>4, Same DEF TablesInv
<1> QED
  BY <1>2, <1>3, <1>5, <1>6, Same

\* Nothing of interest changes.
LEMMA SameTables ==
  ASSUME RosterInv, UNCHANGED <<agents, runs, reviews, ws, settings, started>>,
         seeded' => seeded \/ Orchestrators # {}
  PROVE  /\ TablesInv' /\ TakenKeys' \subseteq TakenKeys
         /\ Grows(agents, agents', runs, runs', started, started')
<1>1. Grows(agents, agents', runs, runs', started, started')
  BY Same DEF Grows
<1>2. seeded' => Orchestrators' # {}
  BY Same
<1> QED
  BY <1>1, <1>2, Same DEF TablesInv

\* PUT of an agent.
LEMMA AgentUpdates ==
  ASSUME RosterInv, NEW s \in Slots, AgentUpdate(s)
  PROVE  Progress(s) /\ TablesInv'
<1>1. PICK c : c = call[s]
  OBVIOUS
<1>2. PICK x \in {"update", "updateOrch"} : At(s, x)
  BY DEF AgentUpdate
<1>3. c # Idle /\ CallOk(c, agents, runs, started)
  BY <1>1, <1>2, AtStep
<1>4. UNCHANGED <<frame, runs, reviews, ws, settings, started, seeded>>
  BY DEF AgentUpdate, wsRow
<1>5. PICK i : i = c.req.id
  OBVIOUS
<1>6. CASE ~Live(i) \/ ~ExecLive(c.req.agent.exec)
  <2>1. Fail(s, "no_row") /\ UNCHANGED agents
    BY <1>1, <1>5, <1>6 DEF AgentUpdate
  <2>2. Answer(s) /\ NoKeyLost
    BY <2>1 DEF Fail, NoKeyLost
  <2>3. TablesInv' /\ Grows(agents, agents', runs, runs', started, started')
    BY <1>4, <2>1, SameTables
  <2>4. Steady
    BY <1>4, <2>2 DEF Steady, frame
  <2> QED
    BY <1>1, <1>3, <2>2, <2>3, <2>4, EndsProgress
<1>7. CASE ~(~Live(i) \/ ~ExecLive(c.req.agent.exec))
  <2>1. i \in 1..Len(agents)
    BY <1>7 DEF Live
  <2>2. PICK r : r = [agents[i] EXCEPT !.exec = c.req.agent.exec, !.env = c.req.agent.env,
                        !.enabled = Switched(agents[i], c.req.enable),
                        !.trigger = IF At(s, "update") THEN c.req.agent.trigger ELSE agents[i].trigger]
    OBVIOUS
  <2>3. /\ agents' = [agents EXCEPT ![i] = [agents[i] EXCEPT
                  !.exec = c.req.agent.exec, !.env = c.req.agent.env,
                  !.enabled = Switched(agents[i], c.req.enable),
                  !.trigger = IF At(s, "update") THEN c.req.agent.trigger ELSE agents[i].trigger]]
        /\ GoOn(s, c) /\ UNCHANGED failures
    BY <1>1, <1>5, <1>7 DEF AgentUpdate
  <2>4. agents' = [agents EXCEPT ![i] = r]
    BY <2>2, <2>3, Zenon
  <2>5. DOMAIN agents[i] = {"key", "orch", "trigger", "exec", "enabled", "env", "from", "gone"}
        /\ agents[i].gone \in BOOLEAN
    BY <2>1, Same DEF Rows
  <2>6. /\ DOMAIN r = DOMAIN agents[i] /\ r.key = agents[i].key /\ r.orch = agents[i].orch
        /\ r.from = agents[i].from /\ r.gone = agents[i].gone
    BY <2>2, <2>5
  <2>7. TablesInv' /\ TakenKeys' \subseteq TakenKeys /\ Grows(agents, agents', runs, runs', started, started')
    BY <1>4, <2>1, <2>4, <2>5, <2>6, RowTables
  <2>8. Steady
    BY <1>4, <2>3 DEF Steady, NoKeyLost, frame
  <2> QED
    BY <1>1, <1>2, <2>3, <2>7, <2>8, GoesProgress
<1> QED
  BY <1>6, <1>7

\* DELETE of an agent that has runs.
LEMMA AgentDisables ==
  ASSUME RosterInv, NEW s \in Slots, AgentDisable(s)
  PROVE  Progress(s) /\ TablesInv'
<1>1. PICK i : i = call[s].req.id
  OBVIOUS
<1>2. /\ At(s, "disable") /\ GoOn(s, call[s]) /\ Steady
      /\ UNCHANGED <<runs, reviews, ws, settings, started, seeded>>
  BY DEF AgentDisable, Steady, NoKeyLost, frame, wsRow, ghosts
<1>3. CASE ~Live(i)
  <2>1. TablesInv' /\ TakenKeys' \subseteq TakenKeys /\ Grows(agents, agents', runs, runs', started, started')
    BY <1>1, <1>2, <1>3, SameTables DEF AgentDisable
  <2> QED
    BY <1>2, <2>1, GoesProgress
<1>4. CASE Live(i)
  <2>1. i \in 1..Len(agents)
    BY <1>4 DEF Live
  <2>2. PICK r : r = [agents[i] EXCEPT !.enabled = FALSE]
    OBVIOUS
  <2>3. /\ DOMAIN r = DOMAIN agents[i] /\ r.key = agents[i].key /\ r.orch = agents[i].orch
        /\ r.from = agents[i].from /\ r.gone = agents[i].gone /\ r.gone \in BOOLEAN
    BY <2>1, <2>2, Same DEF Rows
  <2>4. agents' = [agents EXCEPT ![i] = r]
    BY <1>1, <1>4, <2>2 DEF AgentDisable
  <2>5. TablesInv' /\ TakenKeys' \subseteq TakenKeys /\ Grows(agents, agents', runs, runs', started, started')
    BY <1>2, <2>1, <2>3, <2>4, RowTables
  <2> QED
    BY <1>2, <2>5, GoesProgress
<1> QED
  BY <1>3, <1>4

\* DELETE of an agent without runs: never the orchestrator.
LEMMA AgentDeletes ==
  ASSUME RosterInv, NEW s \in Slots, AgentDelete(s)
  PROVE  Progress(s) /\ TablesInv'
<1>1. PICK c : c = call[s]
  OBVIOUS
<1>2. /\ At(s, "delete") /\ Steady
      /\ UNCHANGED <<runs, reviews, ws, settings, started, seeded>>
  BY DEF AgentDelete, Steady, NoKeyLost, Fail, frame, wsRow
<1>3. c # Idle /\ Head(c.plan) = "delete" /\ CallOk(c, agents, runs, started)
  BY <1>1, <1>2, AtStep
<1>4. CASE Answer(s) /\ UNCHANGED agents
  <2>1. TablesInv' /\ Grows(agents, agents', runs, runs', started, started')
    BY <1>2, <1>4, SameTables
  <2> QED
    BY <1>1, <1>2, <1>3, <1>4, <2>1, EndsProgress
<1>5. CASE Live(c.req.id) /\ agents' = [agents EXCEPT ![c.req.id].gone = TRUE] /\ GoOn(s, call[s])
  <2>1. PICK i : i = c.req.id
    OBVIOUS
  <2>2. i \in 1..Len(agents) /\ ~agents[i].gone
    BY <1>5, <2>1 DEF Live
  <2>3. ~agents[i].orch
    BY <1>3, <2>1, <2>2 DEF CallOk, HeadOk
  <2>4. PICK r : r = [agents[i] EXCEPT !.gone = TRUE]
    OBVIOUS
  <2>5. /\ DOMAIN r = DOMAIN agents[i] /\ r.key = agents[i].key /\ r.orch = agents[i].orch
        /\ r.from = agents[i].from /\ r.gone = TRUE
    BY <2>2, <2>4, Same DEF Rows
  <2>6. agents' = [agents EXCEPT ![i] = r]
    BY <1>5, <2>1, <2>4
  <2>7. TablesInv' /\ TakenKeys' \subseteq TakenKeys /\ Grows(agents, agents', runs, runs', started, started')
    BY <1>2, <2>2, <2>3, <2>5, <2>6, RowTables
  <2> QED
    BY <1>2, <1>5, <2>7, GoesProgress
<1> QED
  BY <1>1, <1>4, <1>5 DEF AgentDelete, Fail

\* An agent row that is added.
LEMMA AddTables ==
  ASSUME RosterInv, NEW a, Fresh(a), a.key \notin TakenKeys, a.from # "report",
         agents' = Append(agents, a), UNCHANGED <<runs, reviews, ws, settings, started>>,
         seeded' => seeded \/ a.orch
  PROVE  /\ TablesInv' /\ TakenKeys' = TakenKeys \cup {a.key}
         /\ Grows(agents, agents', runs, runs', started, started')
<1>1. PICK ag2 : ag2 = Append(agents, a)
  OBVIOUS
<1>2. /\ Rows(ag2) /\ Extended(agents, ag2) /\ Len(ag2) = Len(agents) + 1 /\ ag2[Len(agents) + 1] = a
      /\ LiveKeys(ag2) = LiveKeys(agents) \cup {a.key}
  <2>1. Rows(agents) /\ a.key \notin LiveKeys(agents)
    BY Same
  <2> QED
    BY <1>1, <2>1, RowAdded, ZenonT(40)
<1>3. \A i \in (Len(agents) + 1)..Len(ag2) : i = Len(agents) + 1
  BY <1>2, Same
<1>4. /\ LiveOrchs(agents) \subseteq LiveOrchs(ag2)
      /\ \A i \in 1..Len(agents) : ag2[i].orch = agents[i].orch /\ (agents[i].gone => ag2[i].gone)
      /\ ReportedOf(ag2) = ReportedOf(agents)
  BY <1>2, <1>3, ExtendedGrows
<1>5. a.orch => Len(agents) + 1 \in LiveOrchs(ag2)
  BY <1>2, Same DEF LiveOrchs, Fresh
<1>6. Teams(ag2, runs, reviews)
  BY <1>4, Same DEF Teams
<1>7. Grows(agents, agents', runs, runs', started, started')
  BY <1>1, <1>2, <1>4, Same DEF Grows
<1>8. TablesInv'
  BY <1>1, <1>2, <1>4, <1>5, <1>6, Same DEF TablesInv
<1> QED
  BY <1>1, <1>2, <1>7, <1>8, Same

\* The orchestrator's row, when the reserved key is free.
LEMMA OrchInserts ==
  ASSUME RosterInv, NEW s \in Slots, OrchInsert(s)
  PROVE  Progress(s) /\ TablesInv'
<1>1. PICK c : c = call[s]
  OBVIOUS
<1>2. PICK free : free = (ORCHESTRATOR_AGENT_KEY \notin TakenKeys)
  OBVIOUS
<1>3. At(s, "orchInsert") /\ UNCHANGED <<frame, runs, reviews, ws, settings, started>>
  BY DEF OrchInsert, wsRow
<1>4. c # Idle /\ CallOk(c, agents, runs, started)
  BY <1>1, <1>3, AtStep
<1>5. ASSUME NEW why, why # "key_taken", Fail(s, why), UNCHANGED <<agents, seeded>>
      PROVE  Progress(s) /\ TablesInv'
  <2>1. Answer(s) /\ NoKeyLost
    BY <1>5 DEF Fail, NoKeyLost
  <2>2. TablesInv' /\ Grows(agents, agents', runs, runs', started, started')
    BY <1>3, <1>5, SameTables
  <2>3. Steady
    BY <1>3, <2>1 DEF Steady, frame
  <2> QED
    BY <1>1, <1>4, <2>1, <2>2, <2>3, EndsProgress
<1>6. CASE free /\ ~ExecLive(c.exec[1])
  BY <1>1, <1>2, <1>5, <1>6 DEF OrchInsert
<1>7. CASE ~free /\ Orchestrators = {}
  BY <1>1, <1>2, <1>5, <1>7 DEF OrchInsert
<1>8. CASE ~(free /\ ~ExecLive(c.exec[1])) /\ ~(~free /\ Orchestrators = {})
  <2>1. /\ agents' = IF free
                     THEN Append(agents, Agent(ORCHESTRATOR_AGENT_KEY, TRUE, None, c.exec[1], {}, "seed"))
                     ELSE agents
        /\ GoOn(s, c) /\ UNCHANGED failures
    BY <1>1, <1>2, <1>8 DEF OrchInsert
  <2>2. Steady
    BY <1>3, <2>1 DEF Steady, NoKeyLost, frame
  <2>3. CASE ~free
    <3>1. TablesInv' /\ TakenKeys' \subseteq TakenKeys /\ Grows(agents, agents', runs, runs', started, started')
      BY <1>3, <1>8, <2>1, <2>3, SameTables
    <3> QED
      BY <1>1, <1>3, <2>1, <2>2, <3>1, GoesProgress
  <2>4. CASE free
    <3>1. PICK a : a = Agent(ORCHESTRATOR_AGENT_KEY, TRUE, None, c.exec[1], {}, "seed")
      OBVIOUS
    <3>2. Fresh(a) /\ a.key = ORCHESTRATOR_AGENT_KEY /\ a.orch /\ a.from # "report"
      BY <3>1 DEF Fresh, Agent
    <3>3. agents' = Append(agents, a)
      BY <2>1, <2>4, <3>1
    <3>4. /\ TablesInv' /\ TakenKeys' = TakenKeys \cup {a.key}
          /\ Grows(agents, agents', runs, runs', started, started')
      BY <1>2, <1>3, <2>4, <3>2, <3>3, AddTables
    <3>5. TakenKeys' \subseteq TakenKeys \cup ReservedKeys
      BY <3>2, <3>4 DEF ReservedKeys
    <3> QED
      BY <1>1, <1>3, <2>1, <2>2, <3>4, <3>5, GoesProgress
  <2> QED
    BY <2>3, <2>4
<1> QED
  BY <1>6, <1>7, <1>8

\* A create that finds its key taken reads the keys again, four times.
LEMMA Retries ==
  ASSUME RosterInv, NEW s \in Slots, At(s, "insert"), RetryOrFail(s),
         EnsureUniqueAgentKey(call[s].req.agent.base, call[s].taken) \in TakenKeys,
         UNCHANGED <<frame, agents, runs, reviews, ws, settings, started, seeded>>
  PROVE  Progress(s) /\ TablesInv'
<1>1. PICK c : c = call[s]
  OBVIOUS
<1>2. c # Idle /\ Head(c.plan) = "insert" /\ CallOk(c, agents, runs, started)
  BY <1>1, AtStep
<1>3. Lost(c, TakenKeys) = c.tries + 1 /\ c.tries \in 0..4
  BY <1>1, <1>2 DEF Lost, CallOk
<1>4. /\ TablesInv' /\ TakenKeys' \subseteq TakenKeys
      /\ Grows(agents, agents', runs, runs', started, started')
  BY SameTables
<1>5. c.req.op = "agentCreate"
  BY <1>2, ChainRest DEF CallOk, Belongs
<1>6. CASE c.tries < 4
  <2>1. PICK d : d = [c EXCEPT !.tries = @ + 1, !.plan = <<"keys", "insert">>]
    OBVIOUS
  <2>2. call' = [call EXCEPT ![s] = d] /\ UNCHANGED failures
    BY <1>1, <1>6, <2>1 DEF RetryOrFail
  <2>3. /\ d.req = c.req /\ d.taken = c.taken /\ d.tries = c.tries + 1 /\ DOMAIN d = DOMAIN c
        /\ d.plan = <<"keys", "insert">>
    BY <1>2, <2>1 DEF CallOk
  <2>4. Leads("keys", "insert") /\ Belongs("keys", c.req.op) /\ Belongs("insert", c.req.op)
    BY <1>5 DEF Leads, Belongs
  <2>5. Chain(d.plan, c.req.op) /\ d.plan # <<>> /\ Head(d.plan) = "keys"
    <3>1. PICK p : p = d.plan
      OBVIOUS
    <3>2. p = <<"keys", "insert">>
      BY <2>3, <3>1
    <3>3. Chain(p, c.req.op) /\ p # <<>>
      BY <2>4, <3>2, Chain2, Zenon
    <3> QED
      BY <3>1, <3>2, <3>3
  <2>6. HeadOk(d, agents, started)
    BY <2>5 DEF HeadOk
  <2>7. CallOk(d, agents, runs, started)
    BY <1>2, <1>3, <1>6, <2>3, <2>5, <2>6 DEF CallOk
  <2>8. CallOk(d, agents', runs', started')
    BY <2>7
  <2>9. Lost(d, TakenKeys') = d.tries
    BY <1>3, <2>3, <2>5 DEF Lost
  <2>10. Fits(d, c, agents', runs', started', TakenKeys, TakenKeys')
    BY <1>3, <2>3, <2>8, <2>9 DEF Fits
  <2>11. UNCHANGED <<scene, served, again, resends>>
    BY DEF frame
  <2> QED
    BY <1>1, <1>2, <1>4, <2>2, <2>10, <2>11 DEF Progress
<1>7. CASE ~(c.tries < 4)
  <2>1. Answer(s)
    BY <1>1, <1>7 DEF RetryOrFail, Fail
  <2>2. Lost(call[s], TakenKeys) >= 5
    BY <1>1, <1>3, <1>7
  <2>3. UNCHANGED <<scene, served, again, resends>>
    BY DEF frame
  <2>4. /\ call' = [call EXCEPT ![s] = Idle]
        /\ Fits(Idle, call[s], agents', runs', started', TakenKeys, TakenKeys')
    BY <2>1 DEF Answer, Fits
  <2> QED
    BY <1>1, <1>2, <1>4, <2>2, <2>3, <2>4 DEF Progress
<1> QED
  BY <1>6, <1>7

\* A create: on a key that nobody holds, or not at all.
LEMMA AgentInserts ==
  ASSUME RosterInv, NEW s \in Slots, AgentInsert(s)
  PROVE  Progress(s) /\ TablesInv'
<1>1. PICK c : c = call[s]
  OBVIOUS
<1>2. PICK key : key = EnsureUniqueAgentKey(c.req.agent.base, c.taken)
  OBVIOUS
<1>3. At(s, "insert") /\ UNCHANGED <<frame, runs, reviews, ws, settings, started, seeded>>
  BY DEF AgentInsert, wsRow
<1>4. c # Idle /\ CallOk(c, agents, runs, started)
  BY <1>1, <1>3, AtStep
<1>5. CASE ~ws \/ ~ExecLive(c.req.agent.exec)
  <2>1. Fail(s, "foreign_key") /\ UNCHANGED agents
    BY <1>1, <1>5 DEF AgentInsert
  <2>2. Answer(s) /\ Aside
    BY <1>3, <2>1 DEF Fail, Aside, NoKeyLost
  <2> QED
    BY <1>3, <2>2, Answered
<1>6. CASE ~(~ws \/ ~ExecLive(c.req.agent.exec)) /\ key \in TakenKeys
  <2>1. RetryOrFail(s) /\ UNCHANGED agents
    BY <1>1, <1>2, <1>6 DEF AgentInsert
  <2> QED
    BY <1>1, <1>2, <1>3, <1>6, <2>1, Retries
<1>7. CASE ~(~ws \/ ~ExecLive(c.req.agent.exec)) /\ key \notin TakenKeys
  <2>1. PICK a : a = Agent(key, FALSE, c.req.agent.trigger, c.req.agent.exec, c.req.agent.env, "form")
    OBVIOUS
  <2>2. agents' = Append(agents, a) /\ GoOn(s, c) /\ UNCHANGED failures
    BY <1>1, <1>2, <1>7, <2>1 DEF AgentInsert
  <2>3. key # ORCHESTRATOR_AGENT_KEY
    <3>1. IsFiniteSet(c.taken)
      BY <1>4 DEF CallOk
    <3> QED
      BY <1>2, <3>1, FreeKey DEF ReservedKeys
  <2>4. Fresh(a) /\ a.key = key /\ a.from # "report"
    BY <2>1, <2>3 DEF Fresh, Agent
  <2>5. TablesInv' /\ Grows(agents, agents', runs, runs', started, started')
    BY <1>3, <1>7, <2>2, <2>4, AddTables
  <2>6. Steady /\ Answer(s)
    BY <1>1, <1>3, <2>2, LastStep DEF Steady, NoKeyLost, frame
  <2> QED
    BY <1>1, <1>4, <2>5, <2>6, EndsProgress
<1> QED
  BY <1>5, <1>6, <1>7

\* A run that is added, and one that changes, without success before or after.
LEMMA RunAdded ==
  ASSUME NEW ag, NEW rn, NEW rv, Teams(ag, rn, rv), NEW r,
         DOMAIN r = {"agent", "source", "status"}, r.status # "succeeded",
         NEW rn2, rn2 = Append(rn, r)
  PROVE  Teams(ag, rn2, rv) /\ Len(rn) \in Nat /\ Len(rn2) = Len(rn) + 1
<1>1. /\ Listed(rn2) /\ Len(rn2) = Len(rn) + 1 /\ Len(rn) \in Nat
      /\ \A i \in 1..Len(rn) : rn2[i] = rn[i]
      /\ rn2[Len(rn) + 1] = r
  BY ListAppend, ListShape DEF Teams
<1>2. \A i \in 1..Len(rn2) : i \in 1..Len(rn) \/ i = Len(rn) + 1
  BY <1>1
<1>3. \A i \in 1..Len(rn) : i \in 1..Len(rn2)
  BY <1>1
<1>4. DoneOf(rn2) = DoneOf(rn)
  BY <1>1, <1>2, <1>3 DEF DoneOf
<1>5. \A i \in 1..Len(rn2) : DOMAIN rn2[i] = {"agent", "source", "status"}
  BY <1>1, <1>2 DEF Teams
<1> QED
  BY <1>1, <1>4, <1>5 DEF Teams

LEMMA RunChanged ==
  ASSUME NEW ag, NEW rn, NEW rv, Teams(ag, rn, rv), NEW k \in 1..Len(rn),
         rn[k].status # "succeeded", NEW r, DOMAIN r = {"agent", "source", "status"},
         r.status # "succeeded", NEW rn2, rn2 = Changed(rn, k, r)
  PROVE  Teams(ag, rn2, rv) /\ Len(rn) \in Nat /\ Len(rn2) = Len(rn)
<1>1. /\ Listed(rn2) /\ Len(rn2) = Len(rn) /\ Len(rn) \in Nat
      /\ rn2[k] = r /\ \A i \in 1..Len(rn) : i # k => rn2[i] = rn[i]
  <2>1. Listed(rn)
    BY DEF Teams
  <2> QED
    BY <2>1, ListChange, ListShape
<1>2. DoneOf(rn2) = DoneOf(rn)
  BY <1>1 DEF DoneOf
<1>3. \A i \in 1..Len(rn2) : DOMAIN rn2[i] = {"agent", "source", "status"}
  BY <1>1 DEF Teams
<1> QED
  BY <1>1, <1>2, <1>3 DEF Teams

\* The other tables beside the runs.
LEMMA RunTables ==
  ASSUME RosterInv, Teams(agents, runs', reviews), Len(runs') \in Nat, Len(runs) <= Len(runs'),
         UNCHANGED <<agents, reviews, ws, settings, started, seeded>>
  PROVE  /\ TablesInv' /\ TakenKeys' \subseteq TakenKeys
         /\ Grows(agents, agents', runs, runs', started, started')
<1>1. Grows(agents, agents', runs, runs', started, started')
  BY Same DEF Grows
<1>2. TablesInv'
  BY Same DEF TablesInv
<1> QED
  BY <1>1, <1>2, Same

\* The run trigger: one active run of each source.
LEMMA RunTriggers ==
  ASSUME RosterInv, NEW s \in Slots, TriggerRun(s)
  PROVE  Progress(s) /\ TablesInv'
<1>1. PICK c : c = call[s]
  OBVIOUS
<1>2. PICK source : source = IF c.req.op = "generate" THEN "setup" ELSE "manual"
  OBVIOUS
<1>3. PICK i : i = IF c.req.op = "generate" THEN c.exec[1] ELSE c.req.id
  OBVIOUS
<1>4. At(s, "trigger") /\ UNCHANGED <<frame, agents, reviews, ws, settings, started, seeded>>
  BY DEF TriggerRun, wsRow
<1>5. CASE ~Live(i)
  <2>1. Fail(s, "foreign_key") /\ UNCHANGED runs
    BY <1>1, <1>3, <1>5 DEF TriggerRun
  <2>2. Answer(s) /\ Aside
    BY <1>4, <2>1 DEF Fail, Aside, NoKeyLost
  <2> QED
    BY <1>4, <2>2, Answered
<1>6. CASE Live(i)
  <2>1. PICK r : r = [agent |-> i, source |-> source, status |-> "active"]
    OBVIOUS
  <2>2. /\ runs' = IF ActiveOf(source) THEN runs ELSE Append(runs, r)
        /\ GoOn(s, c) /\ UNCHANGED failures
    BY <1>1, <1>2, <1>3, <1>6, <2>1 DEF TriggerRun
  <2>3. DOMAIN r = {"agent", "source", "status"} /\ r.status # "succeeded"
    BY <2>1
  <2>4. Teams(agents, runs', reviews) /\ Len(runs') \in Nat /\ Len(runs) <= Len(runs')
    <3>1. CASE ActiveOf(source)
      BY <2>2, <3>1, Same
    <3>2. CASE ~ActiveOf(source)
      <4>1. PICK rn2 : rn2 = Append(runs, r)
        OBVIOUS
      <4>2. Teams(agents, rn2, reviews) /\ Len(runs) \in Nat /\ Len(rn2) = Len(runs) + 1
        BY <2>3, <4>1, Same, RunAdded
      <4> QED
        BY <2>2, <3>2, <4>1, <4>2
    <3> QED
      BY <3>1, <3>2
  <2>5. /\ TablesInv' /\ TakenKeys' \subseteq TakenKeys
        /\ Grows(agents, agents', runs, runs', started, started')
    BY <1>4, <2>4, RunTables
  <2>6. Steady
    BY <1>4, <2>2 DEF Steady, NoKeyLost, frame
  <2> QED
    BY <1>1, <1>4, <2>2, <2>5, <2>6, GoesProgress
<1> QED
  BY <1>5, <1>6

\* A report of a run that was not a setup run makes it a failure.
LEMMA Recasts ==
  ASSUME RosterInv, NEW s \in Slots, Recast(s)
  PROVE  Progress(s) /\ TablesInv'
<1>1. PICK k : k = call[s].req.run
  OBVIOUS
<1>2. /\ At(s, "recast") /\ GoOn(s, call[s])
      /\ UNCHANGED <<frame, agents, reviews, ws, settings, started, seeded, failures>>
  BY DEF Recast, wsRow, ghosts
<1>3. Teams(agents, runs', reviews) /\ Len(runs') \in Nat /\ Len(runs) <= Len(runs')
  <2>1. CASE ~Active(k)
    <3>1. runs' = runs
      BY <1>1, <2>1 DEF Recast
    <3> QED
      BY <3>1, Same
  <2>2. CASE Active(k)
    <3>1. k \in 1..Len(runs) /\ runs[k].status = "active" /\ runs[k].status # "succeeded"
      BY <2>2 DEF Active
    <3>2. PICK r : r = [runs[k] EXCEPT !.status = "failed"]
      OBVIOUS
    <3>3. DOMAIN runs[k] = {"agent", "source", "status"}
      BY <3>1, Same DEF Teams
    <3>4. DOMAIN r = {"agent", "source", "status"} /\ r.status # "succeeded"
      BY <3>2, <3>3
    <3>5. PICK rn2 : rn2 = Changed(runs, k, r)
      OBVIOUS
    <3>6. runs' = rn2
      BY <1>1, <2>2, <3>2, <3>5 DEF Recast, Changed
    <3>7. Teams(agents, rn2, reviews) /\ Len(runs) \in Nat /\ Len(rn2) = Len(runs)
      BY <3>1, <3>4, <3>5, Same, RunChanged
    <3> QED
      BY <3>6, <3>7
  <2> QED
    BY <2>1, <2>2
<1>4. /\ TablesInv' /\ TakenKeys' \subseteq TakenKeys
      /\ Grows(agents, agents', runs, runs', started, started')
  BY <1>2, <1>3, RunTables
<1>5. Steady
  BY <1>2 DEF Steady, NoKeyLost, frame
<1> QED
  BY <1>2, <1>4, <1>5, GoesProgress

\* Two reported agents more.
LEMMA TwoReported ==
  ASSUME NEW ag, NEW ag2, Extended(ag, ag2), Len(ag2) = Len(ag) + 2,
         ag2[Len(ag) + 1].from = "report", ag2[Len(ag) + 2].from = "report"
  PROVE  Cardinality(ReportedOf(ag2)) = Cardinality(ReportedOf(ag)) + 2
<1>1. PICK n \in Nat : n = Len(ag)
  BY DEF Extended
<1>2. \A i \in 1..n : i \in 1..Len(ag2) /\ ag2[i] = ag[i]
  BY <1>1 DEF Extended
<1>3. PICK R : R = ReportedOf(ag)
  OBVIOUS
<1>4. R \subseteq 1..n
  BY <1>1, <1>3 DEF ReportedOf
<1>5. IsFiniteSet(R)
  <2>1. IsFiniteSet(1..n)
    BY FS_Interval
  <2> QED
    BY <1>4, <2>1, FS_Subset
<1>6. ReportedOf(ag2) = (R \cup {n + 1}) \cup {n + 2}
  <2>1. \A i \in 1..Len(ag2) : i \in 1..n \/ i = n + 1 \/ i = n + 2
    BY <1>1
  <2>2. n + 1 \in 1..Len(ag2) /\ n + 2 \in 1..Len(ag2)
    BY <1>1
  <2>3. ASSUME NEW i \in ReportedOf(ag2) PROVE i \in (R \cup {n + 1}) \cup {n + 2}
    BY <1>1, <1>2, <1>3, <2>1 DEF ReportedOf
  <2>4. ASSUME NEW i \in R PROVE i \in ReportedOf(ag2)
    BY <1>1, <1>2, <1>3 DEF ReportedOf
  <2>5. n + 1 \in ReportedOf(ag2) /\ n + 2 \in ReportedOf(ag2)
    BY <1>1, <2>2 DEF ReportedOf
  <2> QED
    BY <2>3, <2>4, <2>5
<1>7. PICK Q : Q = R \cup {n + 1}
  OBVIOUS
<1>8. n + 1 \notin R /\ n + 2 \notin Q
  BY <1>4, <1>7
<1>9. IsFiniteSet(Q) /\ Cardinality(Q) = Cardinality(R) + 1
  BY <1>5, <1>7, <1>8, FS_AddElement
<1>10. Cardinality(Q \cup {n + 2}) = Cardinality(Q) + 1
  BY <1>8, <1>9, FS_AddElement
<1>11. Cardinality(R) \in Nat
  BY <1>5, FS_CardinalityType
<1> QED
  BY <1>3, <1>6, <1>7, <1>9, <1>10, <1>11

\* The run that brings them has succeeded, and has its review task.
LEMMA RunSucceeds ==
  ASSUME NEW ag, NEW rn, NEW rv, Teams(ag, rn, rv), NEW k \in 1..Len(rn),
         rn[k].status # "succeeded", NEW r, DOMAIN r = {"agent", "source", "status"},
         r.status = "succeeded", NEW rn2, rn2 = Changed(rn, k, r),
         NEW ag2, Cardinality(ReportedOf(ag2)) = Cardinality(ReportedOf(ag)) + 2
  PROVE  Teams(ag2, rn2, rv \cup {k}) /\ Len(rn) \in Nat /\ Len(rn2) = Len(rn)
<1>1. /\ Listed(rn2) /\ Len(rn2) = Len(rn) /\ Len(rn) \in Nat
      /\ rn2[k] = r /\ \A i \in 1..Len(rn) : i # k => rn2[i] = rn[i]
  <2>1. Listed(rn)
    BY DEF Teams
  <2> QED
    BY <2>1, ListChange, ListShape
<1>2. PICK D : D = DoneOf(rn)
  OBVIOUS
<1>3. DoneOf(rn2) = D \cup {k} /\ k \notin D
  BY <1>1, <1>2 DEF DoneOf
<1>4. D \subseteq 1..Len(rn)
  BY <1>2 DEF DoneOf
<1>5. IsFiniteSet(D)
  <2>1. IsFiniteSet(1..Len(rn))
    BY <1>1, FS_Interval
  <2> QED
    BY <1>4, <2>1, FS_Subset
<1>6. Cardinality(D \cup {k}) = Cardinality(D) + 1 /\ Cardinality(D) \in Nat
  BY <1>3, <1>5, FS_AddElement, FS_CardinalityType
<1>7. Cardinality(ReportedOf(ag2)) = 2 * Cardinality(DoneOf(rn2))
  BY <1>2, <1>3, <1>6 DEF Teams
<1>8. \A i \in 1..Len(rn2) : DOMAIN rn2[i] = {"agent", "source", "status"}
  BY <1>1 DEF Teams
<1>9. rv \cup {k} = DoneOf(rn2)
  BY <1>2, <1>3 DEF Teams
<1> QED
  BY <1>1, <1>7, <1>8, <1>9 DEF Teams

\* The rows of a team may join the ones that are there.
LEMMA TeamJoins ==
  ASSUME RosterInv, NEW c, c.req.team \in Seq(ToSet(c.req.team)), IsFiniteSet(c.taken),
         DistinctBases(c.req.team), NEW q, q = TeamRows(c),
         \A row \in ToSet(q) : row.key \notin TakenKeys
  PROVE  /\ Joins(q, agents) /\ Len(q) = Len(c.req.team) /\ Len(q) \in Nat
         /\ \A i \in 1..Len(q) : q[i].from = c.req.op
<1>1. PICK team : team = c.req.team
  OBVIOUS
<1>2. PICK n \in Nat : n = Len(team)
  BY <1>1
<1>3. q = [i \in 1..n |-> Agent(EnsureUniqueAgentKey(team[i].base, c.taken), FALSE,
                                team[i].trigger, c.exec[i], {}, c.req.op)]
  BY <1>1, <1>2 DEF TeamRows
<1>4. DOMAIN q = 1..n
  BY <1>3
<1>5. Listed(q) /\ Len(q) = n
  BY <1>3, <1>4, ListMade
<1>6. ASSUME NEW i \in 1..n
      PROVE  /\ Fresh(q[i]) /\ q[i].key[1] = team[i].base /\ q[i].from = c.req.op
             /\ q[i].key \notin LiveKeys(agents)
  <2>1. PICK key : key = EnsureUniqueAgentKey(team[i].base, c.taken)
    OBVIOUS
  <2>2. key # ORCHESTRATOR_AGENT_KEY /\ key[1] = team[i].base
    BY <2>1, FreeKey
  <2>3. q[i] = Agent(key, FALSE, team[i].trigger, c.exec[i], {}, c.req.op)
    BY <1>3, <2>1
  <2>4. Fresh(q[i]) /\ q[i].key = key /\ q[i].from = c.req.op
    BY <2>2, <2>3 DEF Fresh, Agent
  <2>5. q[i] \in ToSet(q)
    BY <1>4 DEF ToSet
  <2> QED
    BY <2>2, <2>4, <2>5, Same
<1>7. ASSUME NEW i \in 1..n, NEW j \in 1..n, q[i].key = q[j].key PROVE i = j
  <2>1. team[i].base = team[j].base
    BY <1>6, <1>7
  <2> QED
    BY <1>1, <1>2, <2>1 DEF DistinctBases
<1>8. Joins(q, agents)
  BY <1>5, <1>6, <1>7 DEF Joins
<1> QED
  BY <1>1, <1>2, <1>5, <1>6, <1>8

\* The transaction of a team commits whole, or not at all.
LEMMA TeamInserts ==
  ASSUME RosterInv, NEW s \in Slots, TeamInsert(s)
  PROVE  Progress(s) /\ TablesInv'
<1>1. PICK c : c = call[s]
  OBVIOUS
<1>2. PICK q : q = TeamRows(c)
  OBVIOUS
<1>3. At(s, "teamInsert") /\ UNCHANGED <<frame, ws, settings, started, seeded>>
  BY DEF TeamInsert, wsRow
<1>4. c # Idle /\ Head(c.plan) = "teamInsert" /\ CallOk(c, agents, runs, started)
  BY <1>1, <1>3, AtStep
<1>5. c.req.op \in {"team", "report"} /\ Request(c.req)
  BY <1>4, ChainRest DEF CallOk, Belongs
<1>6. PICK refused : refused = (c.req.op = "report" /\ ~Active(c.req.run))
  OBVIOUS
<1>7. PICK dead : dead = (\E e \in ToSet(c.exec) : ~ExecLive(e))
  OBVIOUS
<1>8. PICK taken : taken = (\E row \in ToSet(q) : row.key \in TakenKeys)
  OBVIOUS
<1>9. CASE refused
  <2>1. Answer(s) /\ UNCHANGED <<agents, runs, reviews, failures>>
    BY <1>1, <1>6, <1>9 DEF TeamInsert
  <2>2. Aside
    BY <1>3, <2>1 DEF Aside, NoKeyLost
  <2> QED
    BY <1>3, <2>1, <2>2, Answered
<1>10. CASE ~refused /\ dead
  <2>1. Fail(s, "foreign_key") /\ UNCHANGED <<agents, runs, reviews>>
    BY <1>1, <1>6, <1>7, <1>10 DEF TeamInsert
  <2>2. Answer(s) /\ Aside
    BY <1>3, <2>1 DEF Fail, Aside, NoKeyLost
  <2> QED
    BY <1>3, <2>2, Answered
<1>11. CASE ~refused /\ ~dead /\ taken
  <2>1. Answer(s) /\ UNCHANGED <<agents, runs, reviews, failures>>
    BY <1>1, <1>2, <1>6, <1>7, <1>8, <1>11 DEF TeamInsert
  <2>2. Aside
    BY <1>3, <2>1 DEF Aside, NoKeyLost
  <2> QED
    BY <1>3, <2>1, <2>2, Answered
<1>12. CASE ~refused /\ ~dead /\ ~taken
  <2>1. PICK k : k = c.req.run
    OBVIOUS
  <2>2. PICK reported : reported = (c.req.op = "report")
    OBVIOUS
  <2>3. /\ agents' = agents \o q
        /\ runs' = IF reported THEN [runs EXCEPT ![k].status = "succeeded"] ELSE runs
        /\ reviews' = IF reported THEN reviews \cup {k} ELSE reviews
        /\ GoOn(s, c) /\ UNCHANGED failures
    BY <1>1, <1>2, <1>6, <1>7, <1>8, <1>12, <2>1, <2>2 DEF TeamInsert
  <2>4. /\ Joins(q, agents) /\ Len(q) = Len(c.req.team) /\ Len(q) \in Nat
        /\ \A i \in 1..Len(q) : q[i].from = c.req.op
    <3>1. c.req.team \in Seq(ToSet(c.req.team))
      BY <1>5 DEF Request
    <3>2. IsFiniteSet(c.taken) /\ DistinctBases(c.req.team)
      BY <1>4 DEF CallOk, HeadOk
    <3>3. \A row \in ToSet(q) : row.key \notin TakenKeys
      BY <1>8, <1>12
    <3> QED
      BY <1>2, <3>1, <3>2, <3>3, TeamJoins
  <2>5. PICK ag2 : ag2 = agents \o q
    OBVIOUS
  <2>6. /\ Rows(ag2) /\ Extended(agents, ag2) /\ Len(ag2) = Len(agents) + Len(q)
        /\ \A i \in 1..Len(q) : ag2[Len(agents) + i] = q[i]
    <3>1. Rows(agents) /\ Joins(q, agents)
      BY <2>4, Same
    <3>2. Joined(agents, q, ag2)
      BY <2>5, <3>1, RowsJoined, Zenon
    <3> QED
      BY <3>2 DEF Joined
  <2>7. /\ LiveOrchs(agents) \subseteq LiveOrchs(ag2)
        /\ \A i \in 1..Len(agents) : ag2[i].orch = agents[i].orch /\ (agents[i].gone => ag2[i].gone)
        /\ (\A i \in (Len(agents) + 1)..Len(ag2) : ag2[i].from # "report")
             => ReportedOf(ag2) = ReportedOf(agents)
    BY <2>6, ExtendedGrows, Zenon
  <2>8. Teams(ag2, runs', reviews') /\ Len(runs') = Len(runs)
    <3>1. CASE ~reported
      <4>1. c.req.op = "team"
        BY <1>5, <2>2, <3>1
      <4>2. ASSUME NEW i \in (Len(agents) + 1)..Len(ag2) PROVE ag2[i].from # "report"
        <5>1. i - Len(agents) \in 1..Len(q) /\ i = Len(agents) + (i - Len(agents))
          BY <2>4, <2>6, Same
        <5> QED
          BY <2>4, <2>6, <4>1, <5>1
      <4>3. ReportedOf(ag2) = ReportedOf(agents)
        BY <2>7, <4>2
      <4> QED
        BY <2>3, <3>1, <4>3, Same DEF Teams
    <3>2. CASE reported
      <4>1. k \in 1..Len(runs) /\ runs[k].status # "succeeded"
        BY <1>6, <1>12, <2>1, <2>2, <3>2 DEF Active
      <4>2. Len(q) = 2
        BY <1>5, <2>2, <2>4, <3>2 DEF Request
      <4>3. ag2[Len(agents) + 1].from = "report" /\ ag2[Len(agents) + 2].from = "report"
        <5>1. 1 \in 1..Len(q) /\ 2 \in 1..Len(q)
          BY <4>2
        <5> QED
          BY <2>2, <2>4, <2>6, <3>2, <5>1
      <4>4. Cardinality(ReportedOf(ag2)) = Cardinality(ReportedOf(agents)) + 2
        BY <2>6, <4>2, <4>3, TwoReported
      <4>5. PICK r : r = [runs[k] EXCEPT !.status = "succeeded"]
        OBVIOUS
      <4>6. DOMAIN runs[k] = {"agent", "source", "status"}
        BY <4>1, Same DEF Teams
      <4>7. DOMAIN r = {"agent", "source", "status"} /\ r.status = "succeeded"
        BY <4>5, <4>6
      <4>8. PICK rn2 : rn2 = Changed(runs, k, r)
        OBVIOUS
      <4>9. runs' = rn2
        BY <2>3, <3>2, <4>5, <4>8 DEF Changed
      <4>10. Teams(ag2, rn2, reviews \cup {k}) /\ Len(runs) \in Nat /\ Len(rn2) = Len(runs)
        <5>1. Teams(agents, runs, reviews)
          BY Same
        <5>2. k \in 1..Len(runs)
          BY <4>1
        <5>3. runs[k].status # "succeeded"
          BY <4>1
        <5>4. DOMAIN r = {"agent", "source", "status"}
          BY <4>7
        <5>5. r.status = "succeeded"
          BY <4>7
        <5> QED
          BY <4>4, <4>8, <5>1, <5>2, <5>3, <5>4, <5>5, RunSucceeds
      <4> QED
        BY <2>3, <3>2, <4>9, <4>10
    <3> QED
      BY <3>1, <3>2
  <2>9. Grows(agents, agents', runs, runs', started, started')
    <3>1. agents' = ag2 /\ Len(agents) \in Nat /\ Len(ag2) \in Nat /\ Len(agents) <= Len(ag2)
      BY <2>3, <2>4, <2>5, <2>6, Same
    <3>2. Len(runs) \in Nat /\ Len(runs') \in Nat /\ Len(runs) <= Len(runs')
      BY <2>8, Same
    <3> QED
      BY <1>3, <2>7, <3>1, <3>2 DEF Grows
  <2>10. TablesInv'
    <3>1. agents' = ag2
      BY <2>3, <2>5
    <3>2. Rows(agents') /\ Teams(agents', runs', reviews')
      BY <2>6, <2>8, <3>1
    <3>3. Settled(ws', settings', started')
      BY <1>3, Same
    <3>4. seeded' => Orchestrators' # {}
      BY <1>3, <2>7, <3>1, Same
    <3> QED
      BY <3>2, <3>3, <3>4 DEF TablesInv
  <2>11. Steady /\ Answer(s)
    BY <1>1, <1>3, <2>3, LastStep DEF Steady, NoKeyLost, frame
  <2> QED
    BY <1>1, <1>4, <2>9, <2>10, <2>11, EndsProgress
<1> QED
  BY <1>9, <1>10, <1>11, <1>12

\* The elements of a sequence are finitely many.
LEMMA ElementsFinite ==
  ASSUME NEW q, Listed(q)
  PROVE  IsFiniteSet(ToSet(q))
<1>1. Len(q) \in Nat /\ DOMAIN q = 1..Len(q)
  BY ListShape
<1>2. IsFiniteSet(1..Len(q))
  BY <1>1, FS_Interval
<1>3. PICK f : f = [i \in 1..Len(q) |-> q[i]]
  OBVIOUS
<1>4. f \in Surjection(1..Len(q), ToSet(q))
  BY <1>1, <1>3 DEF Surjection, ToSet
<1> QED
  BY <1>2, <1>4, FS_Surjection

\* The reserved key is the orchestrator's, when there is one.
LEMMA ReservedHeld ==
  ASSUME RosterInv
  PROVE  ORCHESTRATOR_AGENT_KEY \in TakenKeys <=> Orchestrators # {}
<1>1. ASSUME NEW i \in 1..Len(agents), ~agents[i].gone
      PROVE  agents[i].key = ORCHESTRATOR_AGENT_KEY <=> agents[i].orch
  BY <1>1, Same DEF Rows
<1> QED
  BY <1>1 DEF TakenKeys, Orchestrators, LiveAgents

\* The rows of the new agents, whichever profiles they are given.
YamlRows(q, news) ==
  /\ q = [i \in 1..Len(news) |-> q[i]]
  /\ \A i \in 1..Len(news) :
       \E e : q[i] = Agent(<<news[i].base, 1>>, FALSE, news[i].trigger, e, {}, "yaml")

\* A new agent of the file would take the orchestrator's key.
Stolen(news) == Orchestrators = {} /\ \E a \in ToSet(news) : <<a.base, 1>> = ORCHESTRATOR_AGENT_KEY

Plainly(q, ag) ==
  /\ Joins(q, ag) /\ Len(q) \in Nat
  /\ \A i \in 1..Len(q) : q[i].from = "yaml" /\ q[i].key # ORCHESTRATOR_AGENT_KEY /\ ~q[i].orch

\* The agents of agents.yaml that are not there yet may join.
LEMMA YamlJoins ==
  ASSUME RosterInv, NEW req, Request(req), req.op = "yaml", NEW news, news = YamlAgents(req),
         ~Stolen(news), NEW q, YamlRows(q, news)
  PROVE  Plainly(q, agents)
<1>0. /\ q = [i \in 1..Len(news) |-> q[i]]
      /\ \A i \in 1..Len(news) :
           \E e : q[i] = Agent(<<news[i].base, 1>>, FALSE, news[i].trigger, e, {}, "yaml")
  BY DEF YamlRows
<1>1. PICK W : W = {a \in ToSet(req.team) : <<a.base, 1>> \notin TakenKeys}
  OBVIOUS
<1>2. IsFiniteSet(W)
  <2>1. Listed(req.team)
    BY DEF Request, Listed
  <2>2. IsFiniteSet(ToSet(req.team))
    BY <2>1, ElementsFinite
  <2>3. W \subseteq ToSet(req.team)
    BY <1>1
  <2> QED
    BY <2>2, <2>3, FS_Subset
<1>3. news = SetToSeq(W)
  BY <1>1 DEF YamlAgents
<1>4. PICK n : n = Cardinality(W)
  OBVIOUS
<1>5. n \in Nat
  BY <1>2, <1>4, FS_CardinalityType
<1>6. /\ Listed(news) /\ Len(news) = n
      /\ \A i \in 1..n : news[i] \in W
      /\ \A i, j \in 1..n : news[i] = news[j] => i = j
  BY <1>2, <1>3, <1>4, Enumerated
<1>7. DOMAIN q = 1..n
  <2>1. DOMAIN q = 1..Len(news)
    BY <1>0
  <2> QED
    BY <1>6, <2>1
<1>8. Listed(q) /\ Len(q) = n
  <2>1. q = [i \in 1..n |-> q[i]]
    BY <1>0, <1>6
  <2> QED
    BY <1>5, <1>7, <2>1, ListMade
<1>9. ASSUME NEW i \in 1..n
      PROVE  /\ Fresh(q[i]) /\ q[i].key = <<news[i].base, 1>> /\ q[i].from = "yaml" /\ ~q[i].orch
             /\ q[i].key \notin LiveKeys(agents) /\ q[i].key # ORCHESTRATOR_AGENT_KEY
  <2>1. news[i] \in W /\ <<news[i].base, 1>> \notin TakenKeys
    BY <1>1, <1>6
  <2>2. <<news[i].base, 1>> # ORCHESTRATOR_AGENT_KEY
    <3>1. CASE Orchestrators # {}
      BY <2>1, <3>1, ReservedHeld
    <3>2. CASE Orchestrators = {}
      <4>1. news[i] \in ToSet(news)
        BY <1>6, ListShape DEF ToSet
      <4> QED
        BY <3>2, <4>1 DEF Stolen
    <3> QED
      BY <3>1, <3>2
  <2>3. /\ DOMAIN q[i] = {"key", "orch", "trigger", "exec", "enabled", "env", "from", "gone"}
        /\ q[i].key = <<news[i].base, 1>> /\ q[i].from = "yaml" /\ q[i].orch = FALSE /\ q[i].gone = FALSE
    <3>1. PICK e : q[i] = Agent(<<news[i].base, 1>>, FALSE, news[i].trigger, e, {}, "yaml")
      BY <1>0, <1>6
    <3>2. PICK a, k : k = <<news[i].base, 1>> /\ a = Agent(k, FALSE, news[i].trigger, e, {}, "yaml")
      OBVIOUS
    <3>3. /\ DOMAIN a = {"key", "orch", "trigger", "exec", "enabled", "env", "from", "gone"}
          /\ a.key = k /\ a.from = "yaml" /\ a.orch = FALSE /\ a.gone = FALSE
      BY <3>2 DEF Agent
    <3>4. q[i] = a
      BY <3>1, <3>2
    <3> QED
      BY <3>2, <3>3, <3>4
  <2> QED
    BY <2>1, <2>2, <2>3, Same DEF Fresh
<1>10. ASSUME NEW i \in 1..n, NEW j \in 1..n, q[i].key = q[j].key PROVE i = j
  <2>0. <<news[i].base, 1>> = <<news[j].base, 1>>
    BY <1>9, <1>10, Zenon
  <2>1. news[i].base = news[j].base
    BY <2>0
  <2>2. news[i] \in ToSet(req.team) /\ news[j] \in ToSet(req.team)
    BY <1>1, <1>6
  <2>3. news[i] = news[j]
    BY <2>1, <2>2 DEF Request
  <2> QED
    BY <1>6, <2>3
<1>11. \A i \in 1..n : /\ Fresh(q[i]) /\ q[i].from = "yaml" /\ ~q[i].orch
                       /\ q[i].key \notin LiveKeys(agents) /\ q[i].key # ORCHESTRATOR_AGENT_KEY
  BY <1>9
<1>12. \A i, j \in 1..n : q[i].key = q[j].key => i = j
  BY <1>10, Zenon
<1> QED
  BY <1>5, <1>8, <1>11, <1>12 DEF Joins, Plainly

\* The orchestrator that agents.yaml is seeded with, when there was none.
LEMMA OrchJoins ==
  ASSUME NEW ag, Rows(ag), ORCHESTRATOR_AGENT_KEY \notin LiveKeys(ag), NEW a, Fresh(a), a.orch,
         NEW ag2, ag2 = ag \o <<a>>
  PROVE  /\ Rows(ag2) /\ Extended(ag, ag2) /\ Len(ag2) = Len(ag) + 1 /\ ag2[Len(ag) + 1] = a
         /\ LiveOrchs(ag2) # {}
<1>1. PICK q : q = <<a>>
  OBVIOUS
<1>2. Len(q) = 1 /\ q[1] = a /\ Listed(q)
  <2>1. q \in Seq({a}) /\ Len(q) = 1 /\ q[1] = a
    BY <1>1
  <2> QED
    BY <2>1, ListOf
<1>3. a.key = ORCHESTRATOR_AGENT_KEY /\ a.gone = FALSE
  BY DEF Fresh
<1>4. Joins(q, ag)
  <2>1. \A i \in 1..Len(q) : i = 1
    BY <1>2
  <2> QED
    BY <1>2, <1>3, <2>1 DEF Joins
<1>5. Joined(ag, q, ag2)
  BY <1>1, <1>4, RowsJoined, Zenon
<1>6. /\ Rows(ag2) /\ Extended(ag, ag2) /\ Len(ag2) = Len(ag) + 1 /\ ag2[Len(ag) + 1] = a
      /\ Len(ag) \in Nat
  <2>1. Rows(ag2) /\ Extended(ag, ag2) /\ Len(ag2) = Len(ag) + 1
    BY <1>2, <1>5 DEF Joined
  <2>2. ag2[Len(ag) + 1] = q[1]
    BY <1>2, <1>5 DEF Joined
  <2>3. Len(ag) \in Nat
    BY ListShape DEF Rows
  <2> QED
    BY <1>2, <2>1, <2>2, <2>3
<1>7. Len(ag) + 1 \in LiveOrchs(ag2)
  BY <1>3, <1>6 DEF LiveOrchs
<1> QED
  BY <1>6, <1>7

\* The other tables beside the agents, when rows are added that no report has
\* brought.
LEMMA JoinTables ==
  ASSUME RosterInv, Rows(agents'), Extended(agents, agents'), UNCHANGED <<runs, reviews, started>>,
         \A i \in (Len(agents) + 1)..Len(agents') : agents'[i].from # "report",
         Settled(ws', settings', started'), LiveOrchs(agents) # {} \/ LiveOrchs(agents') # {}
  PROVE  TablesInv' /\ Grows(agents, agents', runs, runs', started, started')
<1>1. /\ LiveOrchs(agents) \subseteq LiveOrchs(agents')
      /\ \A i \in 1..Len(agents) : agents'[i].orch = agents[i].orch /\ (agents[i].gone => agents'[i].gone)
      /\ ReportedOf(agents') = ReportedOf(agents)
  BY ExtendedGrows
<1>2. Teams(agents', runs', reviews')
  BY <1>1, Same DEF Teams
<1>3. Grows(agents, agents', runs, runs', started, started')
  BY <1>1, Same DEF Grows, Extended
<1>4. TablesInv'
  BY <1>1, <1>2, Same DEF TablesInv
<1> QED
  BY <1>3, <1>4

\* agents.yaml, in one transaction.
LEMMA YamlSeeds ==
  ASSUME RosterInv, NEW s \in Slots, YamlSeed(s)
  PROVE  Progress(s) /\ TablesInv'
<1>1. PICK c : c = call[s]
  OBVIOUS
<1>2. PICK news : news = YamlAgents(c.req)
  OBVIOUS
<1>3. At(s, "yaml") /\ UNCHANGED <<frame, runs, reviews, started>>
  BY DEF YamlSeed
<1>4. c # Idle /\ Head(c.plan) = "yaml" /\ CallOk(c, agents, runs, started)
  BY <1>1, <1>3, AtStep
<1>5. c.req.op = "yaml" /\ Request(c.req)
  BY <1>4, ChainRest DEF CallOk, Belongs
<1>7. CASE Stolen(news)
  <2>1. Fail(s, "no_winner") /\ UNCHANGED <<ws, settings, agents, seeded>>
    BY <1>1, <1>2, <1>7 DEF YamlSeed, Stolen
  <2>2. Answer(s) /\ Aside
    BY <1>3, <2>1 DEF Fail, Aside, NoKeyLost
  <2> QED
    BY <1>3, <2>2, Answered
<1>8. CASE ~Stolen(news)
  <2>1. PICK q, o : /\ YamlRows(q, news)
                    /\ \E e : o = Agent(ORCHESTRATOR_AGENT_KEY, TRUE, None, e, {}, "seed")
                    /\ agents' = agents \o q \o (IF Orchestrators # {} THEN <<>> ELSE <<o>>)
    BY <1>1, <1>2, <1>8 DEF YamlSeed, Stolen, YamlRows
  <2>2. /\ ws' = TRUE /\ settings' = (IF ws THEN settings ELSE Created(<<>>, FALSE))
        /\ GoOn(s, c) /\ UNCHANGED failures
    BY <1>1, <1>2, <1>8 DEF YamlSeed, Stolen
  <2>3. /\ Joins(q, agents) /\ Len(q) \in Nat
        /\ \A i \in 1..Len(q) : q[i].from = "yaml" /\ q[i].key # ORCHESTRATOR_AGENT_KEY /\ ~q[i].orch
    <3>1. YamlRows(q, news)
      BY <2>1
    <3>2. Plainly(q, agents)
      BY <1>2, <1>5, <1>8, <3>1, YamlJoins
    <3> QED
      BY <3>2 DEF Plainly
  <2>4. Fresh(o) /\ o.orch /\ o.from # "report"
    BY <2>1 DEF Fresh, Agent
  <2>5. PICK ag : ag = agents \o q
    OBVIOUS
  <2>6. Joined(agents, q, ag)
    <3>1. Rows(agents) /\ Joins(q, agents)
      BY <2>3, Same
    <3> QED
      BY <2>5, <3>1, RowsJoined, Zenon
  <2>7. /\ Rows(ag) /\ Extended(agents, ag) /\ Len(ag) = Len(agents) + Len(q)
        /\ \A i \in 1..Len(q) : ag[Len(agents) + i] = q[i]
        /\ LiveKeys(ag) = LiveKeys(agents) \cup {q[i].key : i \in 1..Len(q)}
    BY <2>6 DEF Joined
  <2>8. ASSUME NEW i \in (Len(agents) + 1)..Len(ag) PROVE ag[i].from # "report"
    <3>1. i - Len(agents) \in 1..Len(q) /\ i = Len(agents) + (i - Len(agents))
      BY <2>3, <2>7, Same
    <3> QED
      BY <2>3, <2>7, <3>1
  <2>9. Settled(ws', settings', started')
    BY <1>3, <2>2, Same DEF Settled, Created
  <2>10. Steady /\ Answer(s)
    BY <1>1, <1>3, <2>2, LastStep DEF Steady, NoKeyLost, frame
  <2>11. CASE Orchestrators # {}
    <3>1. agents' = ag
      <4>1. agents' = ag \o <<>>
        BY <2>1, <2>5, <2>11
      <4>2. ag \in Seq(ToSet(ag))
        BY <2>7 DEF Rows, Listed
      <4> QED
        BY <4>1, <4>2
    <3>2. TablesInv' /\ Grows(agents, agents', runs, runs', started, started')
      BY <1>3, <2>7, <2>8, <2>9, <2>11, <3>1, Same, JoinTables
    <3> QED
      BY <1>1, <1>4, <2>10, <3>2, EndsProgress
  <2>12. CASE Orchestrators = {}
    <3>1. agents' = ag \o <<o>>
      BY <2>1, <2>5, <2>12
    <3>2. ORCHESTRATOR_AGENT_KEY \notin LiveKeys(ag)
      <4>1. ORCHESTRATOR_AGENT_KEY \notin LiveKeys(agents)
        BY <2>12, ReservedHeld, Same
      <4> QED
        BY <2>3, <2>7, <4>1
    <3>3. PICK ag2 : ag2 = ag \o <<o>>
      OBVIOUS
    <3>4. /\ Rows(ag2) /\ Extended(ag, ag2) /\ Len(ag2) = Len(ag) + 1 /\ ag2[Len(ag) + 1] = o
          /\ LiveOrchs(ag2) # {}
      <4>1. Rows(ag)
        BY <2>7
      <4>2. Fresh(o) /\ o.orch
        BY <2>4
      <4> QED
        BY <3>2, <3>3, <4>1, <4>2, OrchJoins, Zenon
    <3>5. agents' = ag2
      BY <3>1, <3>3
    <3>6. Extended(agents, ag2)
      <4>1. ASSUME NEW i \in 1..Len(agents) PROVE ag2[i] = agents[i]
        <5>1. i \in 1..Len(ag)
          BY <2>7 DEF Extended
        <5> QED
          BY <2>7, <3>4, <5>1 DEF Extended
      <4> QED
        BY <2>7, <3>4, <4>1 DEF Extended
    <3>7. ASSUME NEW i \in (Len(agents) + 1)..Len(ag2) PROVE ag2[i].from # "report"
      <4>1. i \in (Len(agents) + 1)..Len(ag) \/ i = Len(ag) + 1
        BY <2>3, <2>7, <3>4, Same
      <4>2. CASE i \in (Len(agents) + 1)..Len(ag)
        <5>1. i \in 1..Len(ag)
          BY <4>2, Same
        <5>2. ag2[i] = ag[i]
          BY <3>4, <5>1 DEF Extended
        <5> QED
          BY <2>8, <4>2, <5>2
      <4>3. CASE i = Len(ag) + 1
        BY <2>4, <3>4, <4>3
      <4> QED
        BY <4>1, <4>2, <4>3
    <3>8. TablesInv' /\ Grows(agents, agents', runs, runs', started, started')
      BY <1>3, <2>9, <3>4, <3>5, <3>6, <3>7, JoinTables
    <3> QED
      BY <1>1, <1>4, <2>10, <3>8, EndsProgress
  <2> QED
    BY <2>11, <2>12
<1> QED
  BY <1>7, <1>8

-----------------------------------------------------------------------------
(* The steps of the handlers keep the invariants.                          *)

\* Every statement of every handler makes progress, and leaves the tables sound.
LEMMA StepProgress ==
  ASSUME RosterInv, NEW s \in Slots, SettingsStep(s) \/ RosterStep(s) \/ TeamStep(s)
  PROVE  Progress(s) /\ TablesInv'
<1>1. CASE SimpleStep(s)
  BY <1>1, SimpleSteps
<1>2. CASE BlobRead(s) \/ BlobWrite(s) \/ ToolGet(s)
  BY <1>2, BlobReads, BlobWrites, ToolGets
<1>3. CASE WorkspaceInsert(s) \/ OrchRead(s) \/ OrchInsert(s)
  BY <1>3, WorkspaceInserts, OrchReads, OrchInserts
<1>4. CASE ReadKeys(s) \/ AgentInsert(s) \/ UpdateTarget(s) \/ AgentUpdate(s)
  BY <1>4, KeysRead, AgentInserts, UpdateTargets, AgentUpdates
<1>5. CASE DeleteTarget(s) \/ RunsRead(s) \/ AgentDisable(s) \/ AgentDelete(s)
  BY <1>5, DeleteTargets, RunsReads, AgentDisables, AgentDeletes
<1>6. CASE TicketRead(s) \/ TriggerRun(s)
  BY <1>6, TicketReads, RunTriggers
<1>7. CASE RunRead(s) \/ Recast(s) \/ Profiles(s) \/ ResolveProfiles(s)
  BY <1>7, RunReads, Recasts, ProfileChecks, ProfilesResolve
<1>8. CASE TeamKeys(s) \/ TeamInsert(s) \/ YamlSeed(s)
  BY <1>8, TeamKeysRead, TeamInserts, YamlSeeds
<1>9. CASE \E k \in 1..Len(Defaults) : CountType(s, k)
  BY <1>9, TypesCounted
<1>10. CASE \E k \in 1..Len(Defaults) : InsertDefault(s, k)
  BY <1>1, <1>10 DEF SimpleStep
<1>11. CASE SettingsStep(s)
  BY <1>1, <1>2, <1>11 DEF SettingsStep, SimpleStep
<1>12. CASE RosterStep(s)
  BY <1>1, <1>3, <1>4, <1>5, <1>6, <1>12 DEF RosterStep, SimpleStep
<1>13. CASE TeamStep(s)
  BY <1>1, <1>7, <1>8, <1>9, <1>10, <1>13 DEF TeamStep, SimpleStep
<1> QED
  BY <1>11, <1>12, <1>13

\* What one slot does leaves the calls of the others what they may rely on.
LEMMA ProgressKeeps ==
  ASSUME RosterInv, NEW s \in Slots, Progress(s), TablesInv'
  PROVE  RosterInv'
<1>1. PICK d : /\ call' = [call EXCEPT ![s] = d]
               /\ Fits(d, call[s], agents', runs', started', TakenKeys, TakenKeys')
  BY DEF Progress
<1>2. DOMAIN call = Slots /\ DOMAIN call' = Slots
  BY <1>1 DEF RosterInv
<1>3. ASSUME NEW t \in Slots PROVE call'[t] = Idle \/ CallOk(call'[t], agents', runs', started')
  <2>1. CASE t = s
    BY <1>1, <1>2, <2>1 DEF Fits
  <2>2. CASE t # s
    <3>1. call'[t] = call[t]
      BY <1>1, <1>2, <2>2
    <3>2. PICK c : c = call[t]
      OBVIOUS
    <3>3. c = Idle \/ CallOk(c, agents, runs, started)
      BY <3>2 DEF RosterInv
    <3>4. Grows(agents, agents', runs, runs', started, started')
      BY DEF Progress
    <3>5. CallOk(c, agents, runs, started) => CallOk(c, agents', runs', started')
      BY <3>4, CallGrows
    <3> QED
      BY <3>1, <3>2, <3>3, <3>5
  <2> QED
    BY <2>1, <2>2
<1>4. UNCHANGED <<scene, served, again, resends>>
  BY DEF Progress
<1> QED
  BY <1>2, <1>3, <1>4 DEF RosterInv

\* A change of the keys makes a create lose one try at most, and none when it
\* is only the reserved key that comes in.
LEMMA LostGrows ==
  ASSUME NEW c, c.tries \in 0..4, IsFiniteSet(c.taken), NEW keys, NEW keys2
  PROVE  /\ Lost(c, keys) \in Nat /\ Lost(c, keys2) \in Nat
         /\ Lost(c, keys2) <= Lost(c, keys) + 1
         /\ keys2 \subseteq keys \cup ReservedKeys => Lost(c, keys2) <= Lost(c, keys)
<1>1. EnsureUniqueAgentKey(c.req.agent.base, c.taken) \notin ReservedKeys
  BY FreeKey DEF ReservedKeys
<1>2. keys2 \subseteq keys \cup ReservedKeys =>
        (EnsureUniqueAgentKey(c.req.agent.base, c.taken) \in keys2
           => EnsureUniqueAgentKey(c.req.agent.base, c.taken) \in keys)
  BY <1>1
<1> QED
  BY <1>2 DEF Lost

\* The slots that are busy are counted.
LEMMA BusyCount ==
  ASSUME RosterInv
  PROVE  /\ IsFiniteSet(Busy) /\ Cardinality(Busy) \in Nat
         /\ Left \in Nat /\ Cardinality(Busy) <= Left
         /\ served \in Nat /\ resends \in Nat /\ Len(again) \in Nat
         /\ MaxRequests \in Nat /\ MaxResends \in Nat
         /\ \A s \in Busy : Left >= 1
<1>1. IsFiniteSet(Busy) /\ Cardinality(Busy) \in Nat
  <2>1. Busy \subseteq Slots
    BY DEF Busy
  <2>2. IsFiniteSet(Busy)
    BY <2>1, AdminAssumption, FS_Subset DEF AdminAssumption
  <2> QED
    BY <2>2, FS_CardinalityType
<1>2. /\ served \in Nat /\ resends \in Nat /\ served <= MaxRequests /\ resends <= MaxResends
      /\ MaxRequests \in Nat /\ MaxResends \in Nat
  BY AdminAssumption DEF RosterInv, AdminAssumption
<1>3. Len(again) \in Nat
  BY ListShape DEF RosterInv
<1>4. Left \in Nat /\ Cardinality(Busy) <= Left
  BY <1>1, <1>2, <1>3 DEF Left
<1>5. ASSUME NEW s \in Busy PROVE Left >= 1
  <2>1. Busy # {}
    BY <1>5
  <2>2. Cardinality(Busy) # 0
    BY <1>1, <2>1, FS_EmptySet
  <2> QED
    BY <1>1, <1>4, <2>2
<1> QED
  BY <1>1, <1>2, <1>3, <1>4, <1>5

\* A try is lost only to a rival that has ended: as many as may still come.
LEMMA RaceKeeps ==
  ASSUME MaxRequests + MaxResends <= 5, RosterInv, RaceInv, NEW s \in Slots, Progress(s)
  PROVE  RaceInv'
<1>1. PICK d : /\ call' = [call EXCEPT ![s] = d]
               /\ Fits(d, call[s], agents', runs', started', TakenKeys, TakenKeys')
               /\ TakenKeys' \subseteq TakenKeys \cup ReservedKeys \/ d = Idle
  BY DEF Progress
<1>2. DOMAIN call = Slots /\ s \in Busy /\ UNCHANGED <<scene, served, again, resends>>
  BY DEF RosterInv, Progress, Busy
<1>3. /\ call'[s] = d
      /\ \A t \in Slots : t # s => call'[t] = call[t]
  BY <1>1, <1>2
<1>4. ASSUME NEW t \in Busy
      PROVE  /\ t \in Slots /\ call[t].tries \in 0..4 /\ IsFiniteSet(call[t].taken)
             /\ Lost(call[t], TakenKeys) + Left <= MaxRequests + MaxResends
             /\ Lost(call[t], TakenKeys) \in Nat /\ Lost(call[t], TakenKeys') \in Nat
             /\ Lost(call[t], TakenKeys') <= Lost(call[t], TakenKeys) + 1
             /\ TakenKeys' \subseteq TakenKeys \cup ReservedKeys =>
                  Lost(call[t], TakenKeys') <= Lost(call[t], TakenKeys)
  <2>1. t \in Slots /\ CallOk(call[t], agents, runs, started)
    BY DEF Busy, RosterInv
  <2>2. call[t].tries \in 0..4 /\ IsFiniteSet(call[t].taken)
    BY <2>1 DEF CallOk
  <2>3. Lost(call[t], TakenKeys) + Left <= MaxRequests + MaxResends
    BY DEF RaceInv
  <2> QED
    BY <2>1, <2>2, <2>3, LostGrows
<1>5. CreateNotLost'
  <2>1. <<"agentCreate", "key_taken">> \notin failures
    BY DEF RaceInv, CreateNotLost
  <2>2. ~(Lost(call[s], TakenKeys) >= 5)
    BY <1>2, <1>4, BusyCount
  <2> QED
    BY <2>1, <2>2 DEF Progress, CreateNotLost
<1>6. CASE d = Idle
  <2>1. Busy' = Busy \ {s}
    BY <1>2, <1>3, <1>6 DEF Busy
  <2>2. Cardinality(Busy') = Cardinality(Busy) - 1
    BY <1>2, <2>1, BusyCount, FS_RemoveElement
  <2>3. Left' = Left - 1
    <3>1. /\ served \in Nat /\ resends \in Nat /\ Len(again) \in Nat /\ MaxRequests \in Nat
          /\ MaxResends \in Nat /\ Cardinality(Busy) \in Nat
      BY BusyCount
    <3>2. served' = served /\ resends' = resends /\ again' = again
      BY <1>2 DEF Progress
    <3> QED
      BY <2>2, <3>1, <3>2 DEF Left
  <2>0. /\ Left \in Nat /\ MaxRequests \in Nat /\ MaxResends \in Nat
        /\ Left <= MaxRequests + MaxResends
    BY BusyCount DEF RaceInv
  <2>4. Left' <= MaxRequests + MaxResends
    BY <2>0, <2>3
  <2>5. ASSUME NEW t \in Busy' PROVE Lost(call'[t], TakenKeys') + Left' <= MaxRequests + MaxResends
    <3>1. t \in Busy /\ t # s
      BY <2>1, <2>5
    <3>2. call'[t] = call[t]
      BY <1>3, <1>4, <3>1
    <3>3. /\ Lost(call[t], TakenKeys) + Left <= MaxRequests + MaxResends
          /\ Lost(call[t], TakenKeys) \in Nat /\ Lost(call[t], TakenKeys') \in Nat
          /\ Lost(call[t], TakenKeys') <= Lost(call[t], TakenKeys) + 1
      BY <1>4, <3>1
    <3> QED
      BY <2>0, <2>3, <3>2, <3>3
  <2> QED
    BY <1>5, <2>4, <2>5 DEF RaceInv
<1>7. CASE d # Idle
  <2>1. Busy' = Busy
    BY <1>2, <1>3, <1>7 DEF Busy
  <2>2. Left' = Left
    BY <1>2, <2>1 DEF Left
  <2>3. TakenKeys' \subseteq TakenKeys \cup ReservedKeys
    BY <1>1, <1>7
  <2>4. ASSUME NEW t \in Busy PROVE Lost(call'[t], TakenKeys') + Left <= MaxRequests + MaxResends
    <3>1. CASE t = s
      <4>1. Lost(d, TakenKeys') <= Lost(call[s], TakenKeys)
        BY <1>1, <1>7 DEF Fits
      <4>2. Lost(d, TakenKeys') \in Nat
        <5>1. d.tries \in 0..4
          BY <1>1, <1>7 DEF Fits, CallOk
        <5> QED
          BY <5>1, LostCount
      <4> QED
        BY <1>2, <1>3, <1>4, <3>1, <4>1, <4>2, BusyCount
    <3>2. CASE t # s
      <4>1. call'[t] = call[t]
        BY <1>3, <1>4, <3>2
      <4> QED
        BY <1>4, <2>3, <4>1, BusyCount
    <3> QED
      BY <3>1, <3>2
  <2> QED
    BY <1>5, <2>1, <2>2, <2>4 DEF RaceInv
<1> QED
  BY <1>6, <1>7

-----------------------------------------------------------------------------
(* Requests that come, come again, or die with their process.              *)

\* A request that comes is a call that relies on nothing yet.
LEMMA CallStarts ==
  ASSUME RosterInv, NEW s \in Slots, NEW req, Request(req), Start(s, req)
  PROVE  /\ s \notin Busy /\ Busy' = Busy \cup {s} /\ DOMAIN call' = Slots
         /\ \A t \in Slots : t # s => call'[t] = call[t]
         /\ call'[s] # Idle /\ Lost(call'[s], TakenKeys') = 0
         /\ \A t \in Slots : call'[t] = Idle \/ CallOk(call'[t], agents', runs', started')
         /\ TablesInv' /\ TakenKeys' = TakenKeys
         /\ UNCHANGED <<scene, failures, resends>>
<1>1. PICK p : p = PlanOf(req)
  OBVIOUS
<1>2. PICK c : c = Calling(req, p)
  OBVIOUS
<1>3. /\ call[s] = Idle /\ Arrives(req) /\ call' = [call EXCEPT ![s] = c]
      /\ UNCHANGED <<scene, tables, started, seeded, failures, resends>>
  BY <1>1, <1>2 DEF Start
<1>4. /\ DOMAIN c = {"req", "plan", "doc", "blob", "edits", "seen", "taken", "exec", "tries"}
      /\ c.req = req /\ c.plan = p /\ c.taken = {} /\ c.tries = 0
  BY <1>2 DEF Calling
<1>5. Chain(p, req.op) /\ p # <<>> /\ Head(p) \notin Later
  BY <1>1, PlanStarts
<1>6. Known(req, agents, runs)
  <2>1. req.op = "report" => req.run \in Nat \ {0} /\ req.run <= Len(runs)
    BY <1>3 DEF Request, Arrives
  <2>2. req.op \in {"agentUpdate", "agentDelete", "testRun"} => req.id \in Nat \ {0} /\ req.id <= Len(agents)
    BY <1>3 DEF Request, Arrives
  <2> QED
    BY <2>1, <2>2, Same DEF Known
<1>7. CallOk(c, agents, runs, started)
  <2>1. HeadOk(c, agents, started)
    BY <1>4, <1>5 DEF HeadOk, Later
  <2>2. IsFiniteSet(c.taken)
    BY <1>4, FS_EmptySet
  <2> QED
    BY <1>4, <1>5, <1>6, <2>1, <2>2 DEF CallOk
<1>8. c # Idle
  BY <1>4, <1>5 DEF Idle
<1>9. UNCHANGED <<agents, runs, reviews, ws, settings, started, seeded, failures>>
  BY <1>3 DEF tables
<1>10. TablesInv' /\ TakenKeys' = TakenKeys
  BY <1>9 DEF RosterInv, TablesInv, Orchestrators, LiveAgents, TakenKeys
<1>11. DOMAIN call = Slots
  BY DEF RosterInv
<1>12. DOMAIN call' = Slots /\ call'[s] = c /\ \A t \in Slots : t # s => call'[t] = call[t]
  BY <1>3, <1>11
<1>13. ASSUME NEW t \in Slots PROVE call'[t] = Idle \/ CallOk(call'[t], agents', runs', started')
  <2>1. call[t] = Idle \/ CallOk(call[t], agents, runs, started)
    BY DEF RosterInv
  <2>2. agents' = agents /\ runs' = runs /\ started' = started
    BY <1>9
  <2> QED
    BY <1>7, <1>12, <2>1, <2>2
<1>14. Lost(c, TakenKeys') = 0
  BY <1>4, <1>5 DEF Lost, Later
<1>15. s \notin Busy /\ Busy' = Busy \cup {s}
  BY <1>3, <1>8, <1>12 DEF Busy
<1> QED
  BY <1>3, <1>8, <1>10, <1>12, <1>13, <1>14, <1>15

\* It may be what another call loses a try to: it has been counted before.
LEMMA RaceStarts ==
  ASSUME RosterInv, RaceInv, NEW s \in Slots, NEW req, Request(req), Start(s, req), Left' = Left
  PROVE  RaceInv'
<1>1. ASSUME NEW t \in Busy' PROVE Lost(call'[t], TakenKeys') + Left' <= MaxRequests + MaxResends
  <2>1. CASE t = s
    BY <2>1, CallStarts, BusyCount DEF RaceInv
  <2>2. CASE t # s
    <3>1. t \in Busy /\ t \in Slots
      BY <2>2, CallStarts DEF Busy
    <3>2. call'[t] = call[t] /\ TakenKeys' = TakenKeys
      BY <2>2, <3>1, CallStarts
    <3> QED
      BY <3>1, <3>2 DEF RaceInv
  <2> QED
    BY <2>1, <2>2
<1>2. UNCHANGED failures
  BY CallStarts
<1> QED
  BY <1>1, <1>2 DEF RaceInv, CreateNotLost

\* A request of the pool.
LEMMA Begins ==
  ASSUME RosterInv, NEW s \in Slots, Begin(s)
  PROVE  RosterInv' /\ (RaceInv => RaceInv')
<1>1. PICK k \in DOMAIN Scenarios[scene].pool : Start(s, Scenarios[scene].pool[k])
  BY DEF Begin
<1>2. PICK req : req = Scenarios[scene].pool[k]
  OBVIOUS
<1>3. Request(req) /\ Start(s, req)
  BY <1>1, <1>2, ScenariosAssumption DEF RosterInv
<1>4. /\ s \notin Busy /\ Busy' = Busy \cup {s} /\ DOMAIN call' = Slots
      /\ \A t \in Slots : call'[t] = Idle \/ CallOk(call'[t], agents', runs', started')
      /\ TablesInv' /\ UNCHANGED <<scene, failures, resends>>
  BY <1>3, CallStarts
<1>5. served < MaxRequests /\ served' = served + 1 /\ again' = again
  BY DEF Begin
<1>6. RosterInv'
  BY <1>4, <1>5, BusyCount DEF RosterInv
<1>7. Cardinality(Busy') = Cardinality(Busy) + 1
  BY <1>4, BusyCount, FS_AddElement
<1>8. Left' = Left
  <2>1. /\ MaxRequests \in Nat /\ MaxResends \in Nat /\ served \in Nat /\ resends \in Nat
        /\ Len(again) \in Nat /\ Cardinality(Busy) \in Nat
    BY BusyCount
  <2>2. resends' = resends /\ Len(again') = Len(again)
    BY <1>4, <1>5
  <2> QED
    BY <1>5, <1>7, <2>1, <2>2 DEF Left
<1> QED
  BY <1>3, <1>6, <1>8, RaceStarts

\* A request that has been sent again.
LEMMA BeginsAgain ==
  ASSUME RosterInv, NEW s \in Slots, BeginAgain(s)
  PROVE  RosterInv' /\ (RaceInv => RaceInv')
<1>1. PICK req : req = Head(again)
  OBVIOUS
<1>2. again # <<>> /\ again' = Tail(again) /\ served' = served /\ Start(s, req)
  BY <1>1 DEF BeginAgain
<1>3. again \in Seq(ToSet(again))
  BY DEF RosterInv, Listed
<1>4. /\ Len(again) \in Nat \ {0} /\ req = again[1] /\ Tail(again) \in Seq(ToSet(again))
      /\ Len(Tail(again)) = Len(again) - 1
      /\ \A i \in 1..(Len(again) - 1) : Tail(again)[i] = again[i + 1]
  BY <1>1, <1>2, <1>3
<1>5. Request(req)
  BY <1>4 DEF RosterInv
<1>6. /\ s \notin Busy /\ Busy' = Busy \cup {s} /\ DOMAIN call' = Slots
      /\ \A t \in Slots : call'[t] = Idle \/ CallOk(call'[t], agents', runs', started')
      /\ TablesInv' /\ UNCHANGED <<scene, failures, resends>>
  BY <1>2, <1>5, CallStarts
<1>7. Listed(again') /\ \A k \in 1..Len(again') : Request(again'[k])
  <2>1. Listed(again')
    BY <1>2, <1>4, ListOf
  <2>2. ASSUME NEW k \in 1..Len(again') PROVE Request(again'[k])
    <3>1. again'[k] = again[k + 1] /\ k + 1 \in 1..Len(again)
      BY <1>2, <1>4
    <3> QED
      BY <3>1 DEF RosterInv
  <2> QED
    BY <2>1, <2>2
<1>8. RosterInv'
  BY <1>2, <1>6, <1>7 DEF RosterInv
<1>9. Cardinality(Busy') = Cardinality(Busy) + 1
  BY <1>6, BusyCount, FS_AddElement
<1>10. Left' = Left
  <2>1. /\ MaxRequests \in Nat /\ MaxResends \in Nat /\ served \in Nat /\ resends \in Nat
        /\ Len(again) \in Nat /\ Cardinality(Busy) \in Nat
    BY BusyCount
  <2>2. resends' = resends /\ Len(again') = Len(again) - 1
    BY <1>2, <1>4, <1>6
  <2> QED
    BY <1>2, <1>9, <2>1, <2>2 DEF Left
<1> QED
  BY <1>2, <1>5, <1>8, <1>10, RaceStarts

\* A request is sent again: the same number may still come.
LEMMA Resends ==
  ASSUME RosterInv, NEW s \in Slots, Resend(s)
  PROVE  RosterInv' /\ (RaceInv => RaceInv')
<1>1. PICK req : req = call[s].req
  OBVIOUS
<1>2. /\ call[s] # Idle /\ resends < MaxResends /\ again' = Append(again, req) /\ resends' = resends + 1
      /\ UNCHANGED <<scene, served, call, tables, ghosts>>
  BY <1>1 DEF Resend
<1>3. UNCHANGED <<agents, runs, reviews, ws, settings, started, seeded, failures>>
  BY <1>2 DEF tables, ghosts
<1>4. Request(req)
  BY <1>1, <1>2 DEF RosterInv, CallOk
<1>5. /\ Listed(again') /\ Len(again') = Len(again) + 1 /\ Len(again) \in Nat
      /\ \A k \in 1..Len(again') : Request(again'[k])
  <2>1. Listed(again)
    BY DEF RosterInv
  <2>2. /\ Listed(again') /\ Len(again') = Len(again) + 1 /\ Len(again) \in Nat
        /\ \A i \in 1..Len(again) : again'[i] = again[i]
        /\ again'[Len(again) + 1] = req
    BY <1>2, <2>1, ListAppend, ListShape
  <2>3. ASSUME NEW k \in 1..Len(again') PROVE Request(again'[k])
    <3>1. k \in 1..Len(again) \/ k = Len(again) + 1
      BY <2>2
    <3> QED
      BY <1>4, <2>2, <3>1 DEF RosterInv
  <2> QED
    BY <2>2, <2>3
<1>6. TablesInv' /\ TakenKeys' = TakenKeys
  BY <1>3 DEF RosterInv, TablesInv, Orchestrators, LiveAgents, TakenKeys
<1>7. /\ DOMAIN call' = Slots
      /\ \A t \in Slots : call'[t] = Idle \/ CallOk(call'[t], agents', runs', started')
  BY <1>2, <1>3 DEF RosterInv
<1>8. RosterInv'
  BY <1>2, <1>5, <1>6, <1>7, BusyCount DEF RosterInv
<1>9. Busy' = Busy
  BY <1>2 DEF Busy
<1>10. Left' = Left
  <2>1. /\ MaxRequests \in Nat /\ MaxResends \in Nat /\ served \in Nat /\ resends \in Nat
        /\ Cardinality(Busy) \in Nat
    BY BusyCount
  <2>2. Len(again') = Len(again) + 1 /\ Len(again) \in Nat
    BY <1>5
  <2> QED
    BY <1>2, <1>9, <2>1, <2>2 DEF Left
<1>11. ASSUME RaceInv PROVE RaceInv'
  <2>1. call' = call
    BY <1>2
  <2> QED
    BY <1>3, <1>6, <1>9, <1>10, <1>11, <2>1 DEF RaceInv, CreateNotLost
<1> QED
  BY <1>8, <1>11

\* A handler that dies has made its last step.
LEMMA Crashes ==
  ASSUME RosterInv, NEW s \in Slots, Crash(s)
  PROVE  Progress(s) /\ TablesInv'
<1>1. /\ call[s] # Idle /\ Answer(s)
      /\ UNCHANGED <<scene, served, again, tables, started, seeded, failures, resends>>
  BY DEF Crash
<1>2. UNCHANGED <<agents, runs, reviews, ws, settings, started, seeded, failures>>
  BY <1>1 DEF tables
<1>3. TablesInv' /\ Grows(agents, agents', runs, runs', started, started')
  BY <1>2, SameTables
<1>4. Steady
  BY <1>1 DEF Steady, NoKeyLost
<1> QED
  BY <1>1, <1>3, <1>4, EndsProgress

\* Every step of the workspace.
LEMMA StepKeeps ==
  ASSUME RosterInv, [Next]_vars
  PROVE  RosterInv' /\ (MaxRequests + MaxResends <= 5 /\ RaceInv => RaceInv')
<1>1. ASSUME NEW s \in Slots, Begin(s) \/ BeginAgain(s) \/ Resend(s)
      PROVE  RosterInv' /\ (RaceInv => RaceInv')
  BY <1>1, Begins, BeginsAgain, Resends
<1>2. ASSUME NEW s \in Slots, Crash(s) \/ SettingsStep(s) \/ RosterStep(s) \/ TeamStep(s)
      PROVE  RosterInv' /\ (MaxRequests + MaxResends <= 5 /\ RaceInv => RaceInv')
  <2>1. Progress(s) /\ TablesInv'
    BY <1>2, Crashes, StepProgress
  <2>2. RosterInv'
    BY <2>1, ProgressKeeps
  <2>3. MaxRequests + MaxResends <= 5 /\ RaceInv => RaceInv'
    BY <2>1, RaceKeeps
  <2> QED
    BY <2>2, <2>3
<1>3. CASE UNCHANGED vars
  <2>1. UNCHANGED <<scene, served, again, call, agents, runs, reviews, ws, settings, started, seeded,
                    failures, resends>>
    BY <1>3 DEF vars, tables, ghosts
  <2>2. TablesInv' /\ TakenKeys' = TakenKeys
    BY <2>1 DEF RosterInv, TablesInv, Orchestrators, LiveAgents, TakenKeys
  <2>3. RosterInv'
    BY <2>1, <2>2 DEF RosterInv
  <2>4. Busy' = Busy
    BY <2>1 DEF Busy
  <2>5. Left' = Left
    BY <2>1, <2>4 DEF Left
  <2>6. RaceInv => RaceInv'
    <3>1. call' = call /\ failures' = failures
      BY <2>1
    <3> QED
      BY <2>2, <2>4, <2>5, <3>1 DEF RaceInv, CreateNotLost
  <2> QED
    BY <2>3, <2>6
<1> QED
  BY <1>1, <1>2, <1>3 DEF Next

\* What is stored at first.
LEMMA StartsSound ==
  ASSUME Init
  PROVE  RosterInv /\ RaceInv
<1>1. PICK db : db = Scenarios[scene].start
  OBVIOUS
<1>2. scene \in DOMAIN Scenarios /\ Stored(db)
  BY <1>1, ScenariosAssumption DEF Init
<1>3. /\ ws = db.ws /\ settings = db.settings /\ agents = db.agents
      /\ started = (db.ws /\ db.settings.enabled) /\ runs = <<>> /\ reviews = {}
      /\ call = [s \in Slots |-> Idle] /\ served = 0 /\ again = <<>>
      /\ seeded = FALSE /\ failures = {} /\ resends = 0
  BY <1>1 DEF Init
<1>4. Listed(agents)
  BY <1>2, <1>3 DEF Stored, Listed
<1>5. \A i \in 1..Len(agents) : agents[i] \in ToSet(agents)
  BY <1>4, ListShape DEF ToSet
<1>6. ASSUME NEW i \in 1..Len(agents)
      PROVE  /\ DOMAIN agents[i] = {"key", "orch", "trigger", "exec", "enabled", "env", "from", "gone"}
             /\ agents[i].orch \in BOOLEAN /\ agents[i].gone \in BOOLEAN /\ agents[i].from # "report"
             /\ ~agents[i].gone => (agents[i].key = ORCHESTRATOR_AGENT_KEY <=> agents[i].orch)
  <2>1. PICK a : a = agents[i]
    OBVIOUS
  <2>2. a \in ToSet(db.agents)
    BY <1>3, <1>5, <2>1
  <2>3. /\ a = [Agent(a.key, a.orch, a.trigger, a.exec, a.env, a.from) EXCEPT
                  !.enabled = a.enabled, !.gone = a.gone]
        /\ a.orch \in BOOLEAN /\ a.gone \in BOOLEAN /\ a.from # "report"
        /\ ~a.gone => (a.key = ORCHESTRATOR_AGENT_KEY <=> a.orch)
    BY <1>2, <2>2 DEF Stored
  <2>4. PICK b : b = Agent(a.key, a.orch, a.trigger, a.exec, a.env, a.from)
    OBVIOUS
  <2>5. DOMAIN b = {"key", "orch", "trigger", "exec", "enabled", "env", "from", "gone"}
    BY <2>4 DEF Agent
  <2>6. a = [b EXCEPT !.enabled = a.enabled, !.gone = a.gone]
    BY <2>3, <2>4
  <2>7. DOMAIN a = DOMAIN b
    BY <2>6
  <2> QED
    BY <2>1, <2>3, <2>5, <2>7
<1>7. Rows(agents)
  <2>1. \A i, j \in 1..Len(agents) : ~agents[i].gone /\ ~agents[j].gone /\ agents[i].key = agents[j].key => i = j
    BY <1>2, <1>3, <1>4, ListShape DEF Stored
  <2>2. \A i \in 1..Len(agents) :
          /\ DOMAIN agents[i] = {"key", "orch", "trigger", "exec", "enabled", "env", "from", "gone"}
          /\ agents[i].orch \in BOOLEAN /\ agents[i].gone \in BOOLEAN
          /\ ~agents[i].gone => (agents[i].key = ORCHESTRATOR_AGENT_KEY <=> agents[i].orch)
    BY <1>6
  <2> QED
    BY <1>4, <2>1, <2>2 DEF Rows
<1>8. Teams(agents, runs, reviews)
  <2>1. Listed(runs) /\ Len(runs) = 0
    <3>1. runs \in Seq({}) /\ Len(runs) = 0
      BY <1>3
    <3> QED
      BY <3>1, ListOf
  <2>2. DoneOf(runs) = {}
    BY <2>1 DEF DoneOf
  <2>3. ReportedOf(agents) = {}
    BY <1>6 DEF ReportedOf
  <2>4. Cardinality({}) = 0
    BY FS_EmptySet
  <2>5. \A r \in 1..Len(runs) : FALSE
    BY <2>1
  <2>6. Cardinality(ReportedOf(agents)) = 0 /\ Cardinality(DoneOf(runs)) = 0
    BY <2>2, <2>3, <2>4
  <2>7. reviews = DoneOf(runs)
    BY <1>3, <2>2
  <2> QED
    BY <2>1, <2>5, <2>6, <2>7 DEF Teams
<1>9. Settled(ws, settings, started)
  <2>1. "enabled" \in DOMAIN settings
    BY <1>2, <1>3 DEF Stored, Blob
  <2> QED
    BY <1>3, <2>1 DEF Settled
<1>10. TablesInv
  BY <1>3, <1>7, <1>8, <1>9 DEF TablesInv
<1>11. Listed(again) /\ Len(again) = 0
  <2>1. again \in Seq({}) /\ Len(again) = 0
    BY <1>3
  <2> QED
    BY <2>1, ListOf
<1>12. RosterInv
  BY <1>2, <1>3, <1>10, <1>11, AdminAssumption DEF RosterInv, AdminAssumption
<1>13. Busy = {}
  BY <1>3 DEF Busy
<1>14. Left = MaxRequests + MaxResends
  <2>1. Cardinality({}) = 0
    BY FS_EmptySet
  <2> QED
    BY <1>3, <1>11, <1>13, <2>1, AdminAssumption DEF Left, AdminAssumption
<1>15. RaceInv
  BY <1>3, <1>13, <1>14, AdminAssumption DEF RaceInv, CreateNotLost, AdminAssumption
<1> QED
  BY <1>12, <1>15

-----------------------------------------------------------------------------
(* The theorems.                                                           *)

\* What is said of the team, the orchestrator and the start follows.
LEMMA RosterPromises ==
  ASSUME RosterInv
  PROVE  TeamAtomic /\ OneOrchestrator /\ StartedByOperator
<1>1. TeamAtomic
  <2>1. PICK D, R : D = DoneOf(runs) /\ R = ReportedOf(agents)
    OBVIOUS
  <2>2. reviews = D /\ Cardinality(R) = 2 * Cardinality(D)
    BY <2>1, Same DEF Teams
  <2>3. R \subseteq 1..Len(agents) /\ IsFiniteSet(1..Len(agents))
    BY <2>1, Same, FS_Interval DEF ReportedOf
  <2>4. IsFiniteSet(R)
    BY <2>3, FS_Subset
  <2>5. D = {} => R = {}
    <3>1. ASSUME D = {} PROVE Cardinality(R) = 0
      <4>1. Cardinality({}) = 0
        BY FS_EmptySet
      <4> QED
        BY <2>2, <3>1, <4>1
    <3> QED
      BY <2>4, <3>1, FS_EmptySet
  <2>6. Reported = R /\ {r \in 1..Len(runs) : runs[r].status = "succeeded"} = D
    BY <2>1 DEF Reported, ReportedOf, DoneOf
  <2> QED
    BY <2>2, <2>5, <2>6 DEF TeamAtomic
<1>2. OneOrchestrator
  <2>1. Rows(agents)
    BY Same
  <2>2. \A i \in LiveAgents : agents[i].key = ORCHESTRATOR_AGENT_KEY <=> agents[i].orch
    BY <2>1 DEF Rows, LiveAgents
  <2>3. \A i, j \in LiveAgents : agents[i].key = agents[j].key => i = j
    BY <2>1 DEF Rows, LiveAgents
  <2>4. \A i, j \in Orchestrators : i = j
    BY <2>2, <2>3 DEF Orchestrators
  <2>5. PICK O : O = Orchestrators
    OBVIOUS
  <2>6. Cardinality(O) <= 1 /\ (O # {} => Cardinality(O) = 1)
    <3>1. CASE O = {}
      BY <3>1, FS_EmptySet
    <3>2. ASSUME NEW i \in O PROVE Cardinality(O) = 1
      <4>1. O = {i}
        BY <2>4, <2>5, <3>2
      <4>2. Cardinality({i}) = 1
        BY FS_Singleton
      <4> QED
        BY <4>1, <4>2
    <3> QED
      BY <3>1, <3>2
  <2>7. seeded => O # {}
    BY <2>5 DEF RosterInv, TablesInv
  <2> QED
    BY <2>2, <2>3, <2>5, <2>6, <2>7 DEF OneOrchestrator
<1>3. StartedByOperator
  BY Same DEF Settled, StartedByOperator
<1> QED
  BY <1>1, <1>2, <1>3

\* Whatever requests overlap, come twice or die: a setup run has succeeded
\* exactly when its whole team and its review task exist, live agents have keys of
\* their own and at most one is the orchestrator, exactly one once a seed has ended,
\* and the workspace is started only by the operator.  (setup-apply.service.ts,
\* orchestrator-seed.ts, agent-key.ts, workspaces.controller.ts.)
THEOREM TeamsComeWhole == Spec => [](TeamAtomic /\ OneOrchestrator /\ StartedByOperator)
<1>1. Init => RosterInv
  BY StartsSound
<1>2. RosterInv /\ [Next]_vars => RosterInv'
  BY StepKeeps
<1>3. RosterInv => TeamAtomic /\ OneOrchestrator /\ StartedByOperator
  BY RosterPromises
<1> QED
  BY <1>1, <1>2, <1>3, PTL DEF Spec

\* The five tries a create has are enough when at most five requests can come,
\* the ones that are sent again among them: each of its rivals takes the key from
\* it once.  Then no create is lost either.  (agents.controller.ts, create.)
THEOREM RosterStaysSound ==
  ASSUME MaxRequests + MaxResends <= 5
  PROVE  Spec => []RosterSound
<1>1. Init => RosterInv /\ RaceInv
  BY StartsSound
<1>2. RosterInv /\ RaceInv /\ [Next]_vars => RosterInv' /\ RaceInv'
  BY StepKeeps
<1>3. RosterInv /\ RaceInv => RosterSound
  BY RosterPromises DEF RaceInv, RosterSound
<1> QED
  BY <1>1, <1>2, <1>3, PTL DEF Spec

=============================================================================
