-------------------------- MODULE OrderAndPlan_proofs --------------------------
(***************************************************************************)
(* The two searches the memory pass is made of.  The depth-first search    *)
(* orders every acyclic graph so that a statement comes after the          *)
(* statements it reads from, whatever the addresses.  The greedy           *)
(* clustering of MakeReusePlan is right for every set of variables, every  *)
(* lifetimes and every iteration order of the map.                         *)
(***************************************************************************)
EXTENDS StmtOrder, ReusePlan, FiniteSetTheorems, TLAPS

-----------------------------------------------------------------------------
(* StmtOrder                                                               *)

\* Going into the recursion leads to lower ranks, for every ranking there is.
CallsDescend ==
  \A r \in [DOMAIN adj_list -> 0..Cardinality(DOMAIN adj_list)] : Ranks(adj_list, r) =>
    \A k, l \in 1..Len(calls) : k < l => r[calls[l]] < r[calls[k]]

SortInv == SortTypeOK /\ CallsDescend /\ ProducersFirst

-----------------------------------------------------------------------------
\* The graph being sorted has a ranking, and its edges stay inside of it.
LEMMA RankFacts ==
  ASSUME adj_list \in Graphs
  PROVE  /\ \E r \in [DOMAIN adj_list -> 0..Cardinality(DOMAIN adj_list)] : Ranks(adj_list, r)
         /\ \A s \in DOMAIN adj_list : adj_list[s] \subseteq DOMAIN adj_list
<1>1. PICK r \in [DOMAIN adj_list -> 0..Cardinality(DOMAIN adj_list)] : Ranks(adj_list, r)
  BY GraphsAssumption DEF IsDag
<1> QED
  BY <1>1 DEF Ranks

LEMMA SeqFacts ==
  ASSUME SortTypeOK
  PROVE  /\ Len(calls) \in Nat /\ Len(ret) \in Nat
         /\ DOMAIN calls = 1..Len(calls) /\ DOMAIN ret = 1..Len(ret)
         /\ \A k \in 1..Len(calls) : calls[k] \in DOMAIN adj_list
         /\ \A k \in 1..Len(ret) : ret[k] \in DOMAIN adj_list
         /\ calls # <<>> => Len(calls) > 0 /\ Top \in DOMAIN adj_list
BY DEF SortTypeOK, Top

LEMMA LastOrEarlier ==
  ASSUME NEW n \in Nat
  PROVE  /\ \A k \in 1..n : k \in 1..(n - 1) \/ k = n
         /\ 1..(n - 1) \subseteq 1..n
OBVIOUS

LEMMA UpToLast ==
  ASSUME NEW n \in Nat, NEW k \in 1..n
  PROVE  k = n \/ k < n
OBVIOUS

LEMMA PopFacts ==
  ASSUME NEW S, NEW q \in Seq(S), q # <<>>
  PROVE  LET p == SubSeq(q, 1, Len(q) - 1)
         IN  /\ p \in Seq(S) /\ Len(p) = Len(q) - 1
             /\ \A k \in 1..(Len(q) - 1) : p[k] = q[k]
OBVIOUS

LEMMA PushFacts ==
  ASSUME NEW S, NEW q \in Seq(S), NEW x \in S
  PROVE  /\ Append(q, x) \in Seq(S) /\ Len(Append(q, x)) = Len(q) + 1
         /\ \A k \in 1..Len(q) : Append(q, x)[k] = q[k]
         /\ Append(q, x)[Len(q) + 1] = x
OBVIOUS

\* The statement on top reads from statements that are emitted, once they are
\* all visited: one that is pending would have a higher rank.
LEMMA TopIsReady ==
  ASSUME SortTypeOK, CallsDescend, calls # <<>>, adj_list[Top] \subseteq visited
  PROVE  adj_list[Top] \subseteq Emitted
<1> SUFFICES ASSUME NEW p \in adj_list[Top], p \in Pending PROVE FALSE
  BY DEF SortTypeOK
<1>1. PICK r \in [DOMAIN adj_list -> 0..Cardinality(DOMAIN adj_list)] : Ranks(adj_list, r)
  BY RankFacts DEF SortTypeOK
<1>2. PICK k \in 1..Len(calls) : calls[k] = p
  BY SeqFacts DEF Pending
<1>3. Top \in DOMAIN adj_list /\ Len(calls) > 0 /\ Len(calls) \in Nat
  BY SeqFacts
<1>4. p \in DOMAIN adj_list /\ r[p] < r[Top]
  BY <1>1, <1>3 DEF Ranks
<1>5. r[p] \in Int /\ r[Top] \in Int
  <2>1. IsFiniteSet(DOMAIN adj_list)
    BY GraphsAssumption DEF SortTypeOK
  <2>2. \A x \in 0..Cardinality(DOMAIN adj_list) : x \in Int
    OBVIOUS
  <2> QED
    BY <1>1, <1>3, <1>4, <2>2
<1>6. CASE k = Len(calls)
  BY <1>2, <1>4, <1>5, <1>6 DEF Top
<1>7. CASE k < Len(calls)
  BY <1>1, <1>2, <1>3, <1>4, <1>5, <1>7 DEF Top, CallsDescend
<1> QED
  BY <1>2, <1>3, <1>6, <1>7

\* A call of SortHelper for a statement that is not visited.
LEMMA EnterPreserves ==
  ASSUME SortInv, NEW s \in DOMAIN adj_list \ visited, Enter(s),
         calls # <<>> => s \in adj_list[Top]
  PROVE  SortInv'
<1>1. /\ visited' = visited \cup {s} /\ calls' = Append(calls, s)
      /\ adj_list' = adj_list /\ ret' = ret
  BY DEF Enter
<1>2. SortTypeOK /\ CallsDescend /\ ProducersFirst
  BY DEF SortInv
<1>3. /\ Len(calls) \in Nat /\ DOMAIN calls = 1..Len(calls)
      /\ \A k \in 1..Len(calls) : calls[k] \in DOMAIN adj_list
  BY <1>2, SeqFacts
<1>4. /\ calls' \in Seq(DOMAIN adj_list) /\ Len(calls') = Len(calls) + 1
      /\ \A k \in 1..Len(calls) : calls'[k] = calls[k]
      /\ calls'[Len(calls) + 1] = s
      /\ DOMAIN calls' = 1..(Len(calls) + 1)
  BY <1>1, <1>2, PushFacts DEF SortTypeOK
<1>5. Pending' = Pending \cup {s}
  <2>1. \A k \in 1..(Len(calls) + 1) : k \in 1..Len(calls) \/ k = Len(calls) + 1
    BY <1>3
  <2> QED
    BY <1>3, <1>4, <2>1 DEF Pending
<1>6. Emitted' = Emitted
  BY <1>1 DEF Emitted
<1>7. s \notin Pending /\ s \notin Emitted
  BY <1>2 DEF SortTypeOK
<1>8. SortTypeOK'
  <2>1. \A k, l \in DOMAIN calls' : calls'[k] = calls'[l] => k = l
    <3>1. \A k \in 1..Len(calls) : calls[k] # s
      BY <1>3, <1>7 DEF Pending
    <3> QED
      BY <1>2, <1>3, <1>4, <3>1 DEF SortTypeOK
  <2> QED
    BY <1>1, <1>2, <1>4, <1>5, <1>6, <1>7, <2>1 DEF SortTypeOK
<1>9. CallsDescend'
  <2> SUFFICES ASSUME NEW r \in [DOMAIN adj_list -> 0..Cardinality(DOMAIN adj_list)],
                      Ranks(adj_list, r),
                      NEW k \in 1..(Len(calls) + 1), NEW l \in 1..(Len(calls) + 1), k < l
               PROVE  r[calls'[l]] < r[calls'[k]]
    BY <1>1, <1>4 DEF CallsDescend, Ranks
  <2>1. CASE l \in 1..Len(calls)
    <3>1. k \in 1..Len(calls) /\ calls'[k] = calls[k] /\ calls'[l] = calls[l]
      BY <1>3, <1>4, <2>1
    <3> QED
      BY <1>2, <1>3, <2>1, <3>1 DEF CallsDescend
  <2>2. CASE l = Len(calls) + 1
    <3>1. k \in 1..Len(calls) /\ calls # <<>>
      BY <1>3, <2>2
    <3>2. r[s] < r[Top] /\ Top \in DOMAIN adj_list
      BY <1>2, <3>1, SeqFacts DEF Ranks
    <3>3. \A x \in DOMAIN adj_list : r[x] \in Int
      OBVIOUS
    <3>4. CASE k = Len(calls)
      BY <1>4, <2>2, <3>1, <3>2, <3>4 DEF Top
    <3>5. CASE k < Len(calls)
      <4>1. r[Top] < r[calls[k]]
        BY <1>2, <1>3, <3>1, <3>5 DEF CallsDescend, Top
      <4> QED
        BY <1>3, <1>4, <2>2, <3>1, <3>2, <3>3, <4>1
    <3>6. k = Len(calls) \/ k < Len(calls)
      BY <1>3, <3>1, UpToLast
    <3> QED
      BY <3>4, <3>5, <3>6
  <2> QED
    BY <1>3, <2>1, <2>2
<1>10. ProducersFirst'
  BY <1>1, <1>2 DEF ProducersFirst
<1> QED
  BY <1>8, <1>9, <1>10 DEF SortInv

LEMMA LeavePreserves ==
  ASSUME SortInv, Leave
  PROVE  SortInv'
<1>1. /\ calls # <<>> /\ adj_list[Top] \subseteq visited
      /\ ret' = Append(ret, Top)
      /\ calls' = SubSeq(calls, 1, Len(calls) - 1)
      /\ adj_list' = adj_list /\ visited' = visited
  BY DEF Leave
<1>2. SortTypeOK /\ CallsDescend /\ ProducersFirst
  BY DEF SortInv
<1>3. /\ Len(calls) \in Nat /\ Len(calls) > 0 /\ Len(ret) \in Nat
      /\ DOMAIN calls = 1..Len(calls) /\ DOMAIN ret = 1..Len(ret)
      /\ Top \in DOMAIN adj_list
  BY <1>1, <1>2, SeqFacts
<1>4. /\ calls' \in Seq(DOMAIN adj_list) /\ Len(calls') = Len(calls) - 1
      /\ \A k \in 1..(Len(calls) - 1) : calls'[k] = calls[k]
      /\ DOMAIN calls' = 1..(Len(calls) - 1)
  BY <1>1, <1>2, PopFacts DEF SortTypeOK
<1>5. /\ ret' \in Seq(DOMAIN adj_list) /\ Len(ret') = Len(ret) + 1
      /\ \A k \in 1..Len(ret) : ret'[k] = ret[k]
      /\ ret'[Len(ret) + 1] = Top
      /\ DOMAIN ret' = 1..(Len(ret) + 1)
  BY <1>1, <1>2, <1>3, PushFacts DEF SortTypeOK
<1>6. Pending = Pending' \cup {Top} /\ Top \notin Pending'
  <2>1. \A k \in 1..Len(calls) : k \in 1..(Len(calls) - 1) \/ k = Len(calls)
    BY <1>3, LastOrEarlier
  <2>2. \A k \in 1..(Len(calls) - 1) : k \in 1..Len(calls) /\ calls[k] # calls[Len(calls)]
    BY <1>2, <1>3 DEF SortTypeOK
  <2>3. Len(calls) \in 1..Len(calls)
    BY <1>3
  <2> QED
    BY <1>3, <1>4, <2>1, <2>2, <2>3 DEF Pending, Top
<1>7. Emitted' = Emitted \cup {Top}
  <2>1. \A k \in 1..(Len(ret) + 1) : k \in 1..Len(ret) \/ k = Len(ret) + 1
    BY <1>3
  <2> QED
    BY <1>3, <1>5, <2>1 DEF Emitted
<1>8. Top \notin Emitted
  BY <1>2, <1>6 DEF SortTypeOK
<1>9. SortTypeOK'
  <2>1. \A k, l \in DOMAIN calls' : calls'[k] = calls'[l] => k = l
    <3>1. \A k \in DOMAIN calls' : k \in DOMAIN calls /\ calls'[k] = calls[k]
      BY <1>3, <1>4
    <3> QED
      BY <1>2, <3>1 DEF SortTypeOK
  <2>2. \A k, l \in DOMAIN ret' : ret'[k] = ret'[l] => k = l
    <3>1. \A k \in 1..Len(ret) : ret[k] # Top
      BY <1>3, <1>8 DEF Emitted
    <3> QED
      BY <1>2, <1>3, <1>5, <3>1 DEF SortTypeOK
  <2>3. Pending' \cap Emitted' = {} /\ visited' = Pending' \cup Emitted'
    BY <1>1, <1>2, <1>6, <1>7 DEF SortTypeOK
  <2> QED
    BY <1>1, <1>2, <1>4, <1>5, <2>1, <2>2, <2>3 DEF SortTypeOK
<1>10. CallsDescend'
  <2> SUFFICES ASSUME NEW r \in [DOMAIN adj_list -> 0..Cardinality(DOMAIN adj_list)],
                      Ranks(adj_list, r),
                      NEW k \in 1..(Len(calls) - 1), NEW l \in 1..(Len(calls) - 1), k < l
               PROVE  r[calls'[l]] < r[calls'[k]]
    BY <1>1, <1>4 DEF CallsDescend, Ranks
  <2>1. k \in 1..Len(calls) /\ l \in 1..Len(calls)
    BY <1>3, LastOrEarlier
  <2>2. r[calls[l]] < r[calls[k]]
    BY <1>2, <2>1 DEF CallsDescend
  <2> QED
    BY <1>4, <2>2
<1>11. ProducersFirst'
  <2> SUFFICES ASSUME NEW k \in 1..(Len(ret) + 1), NEW p \in adj_list[ret'[k]]
               PROVE  \E l \in 1..(k - 1) : ret'[l] = p
    BY <1>1, <1>5 DEF ProducersFirst
  <2>1. CASE k \in 1..Len(ret)
    <3>1. PICK l \in 1..(k - 1) : ret[l] = p
      BY <1>2, <1>3, <1>5, <2>1 DEF ProducersFirst
    <3> QED
      BY <1>3, <1>5, <2>1, <3>1
  <2>2. CASE k = Len(ret) + 1
    <3>1. p \in Emitted
      BY <1>1, <1>2, <1>5, <2>2, TopIsReady
    <3>2. PICK l \in 1..Len(ret) : ret[l] = p
      BY <1>3, <3>1 DEF Emitted
    <3> QED
      BY <1>3, <1>5, <2>2, <3>2
  <2> QED
    BY <1>3, <2>1, <2>2
<1> QED
  BY <1>9, <1>10, <1>11 DEF SortInv

LEMMA InitSortInv == SortInit => SortInv
<1> SUFFICES ASSUME NEW g \in Graphs, StartSort(g) PROVE SortInv
  BY DEF SortInit
<1>1. SortTypeOK
  BY DEF StartSort, SortTypeOK, Pending, Emitted
<1>2. CallsDescend /\ ProducersFirst
  BY DEF StartSort, CallsDescend, ProducersFirst
<1> QED
  BY <1>1, <1>2 DEF SortInv

LEMMA NextSortInv == SortInv /\ [SortStep]_orderVars => SortInv'
<1> SUFFICES ASSUME SortInv, [SortStep]_orderVars PROVE SortInv'
  OBVIOUS
<1>1. CASE VisitRoot
  BY <1>1, EnterPreserves DEF VisitRoot
<1>2. CASE VisitProducer
  <2>1. Top \in DOMAIN adj_list /\ adj_list[Top] \subseteq DOMAIN adj_list
    BY <1>2, SeqFacts, RankFacts DEF VisitProducer, SortInv, SortTypeOK
  <2>2. PICK p \in adj_list[Top] \ visited : Enter(p)
    BY <1>2 DEF VisitProducer
  <2> QED
    BY <2>1, <2>2, EnterPreserves
<1>3. CASE Leave
  BY <1>3, LeavePreserves
<1>4. CASE UNCHANGED orderVars
  <2>1. SortTypeOK'
    BY <1>4 DEF orderVars, SortInv, SortTypeOK, Pending, Emitted
  <2>2. CallsDescend' /\ ProducersFirst'
    BY <1>4 DEF orderVars, SortInv, CallsDescend, ProducersFirst, Ranks
  <2> QED
    BY <2>1, <2>2 DEF SortInv
<1> QED
  BY <1>1, <1>2, <1>3, <1>4 DEF SortStep

-----------------------------------------------------------------------------
(* A visited statement is pending or emitted, never both and never twice.  *)
THEOREM SortTypeCorrect == SortSpec => []SortTypeOK
<1>1. SortInv => SortTypeOK
  BY DEF SortInv
<1> QED
  BY <1>1, InitSortInv, NextSortInv, PTL DEF SortSpec

(* For every acyclic graph and every addresses of its nodes, a statement   *)
(* is emitted after all statements whose output it reads.                  *)
THEOREM OrderRespectsReads == SortSpec => []ProducersFirst
<1>1. SortInv => ProducersFirst
  BY DEF SortInv
<1> QED
  BY <1>1, InitSortInv, NextSortInv, PTL DEF SortSpec

(* When the search returns, every statement is in the order.               *)
THEOREM OrderIsComplete == SortSpec => []Complete
<1>1. SortInv => Complete
  <2> SUFFICES ASSUME SortInv, Sorted PROVE Emitted = DOMAIN adj_list
    BY DEF Complete
  <2>1. Pending = {}
    BY DEF Sorted, Pending
  <2> QED
    BY <2>1 DEF SortInv, SortTypeOK, Sorted
<1> QED
  BY <1>1, InitSortInv, NextSortInv, PTL DEF SortSpec

(* The search implements a scheduler that runs any statement whose         *)
(* producers have run.                                                     *)
THEOREM SearchIsSchedule == SortSpec => IsSchedule
<1>1. SortInit => Schedule!DInit
  BY DEF SortInit, StartSort, Schedule!DInit
<1>2. ASSUME SortInv, Leave PROVE Schedule!DNext
  <2>1. /\ Top \in DOMAIN adj_list /\ adj_list[Top] \subseteq Emitted
        /\ Top \notin Emitted /\ ret' = Append(ret, Top) /\ adj_list' = adj_list
    <3>1. Top \in Pending
      BY <1>2, SeqFacts DEF Leave, SortInv, Pending, Top
    <3> QED
      BY <1>2, <3>1, SeqFacts, TopIsReady DEF Leave, SortInv, SortTypeOK
  <2>2. Schedule!Ready(Top)
    BY <2>1 DEF Schedule!Ready, Schedule!Scheduled, Emitted
  <2> QED
    BY <2>1, <2>2 DEF Schedule!DNext
<1>3. SortInv /\ [SortStep]_orderVars => [Schedule!DNext]_(Schedule!dataflowVars)
  BY <1>2 DEF SortStep, VisitRoot, VisitProducer, Enter, orderVars, Schedule!dataflowVars
<1> QED
  BY <1>1, <1>3, InitSortInv, NextSortInv, PTL DEF SortSpec, IsSchedule, Schedule!DSpec

-----------------------------------------------------------------------------
(* ReusePlan                                                               *)

-----------------------------------------------------------------------------
(* Facts about the tables.                                                 *)

LEMMA LifecycleFacts ==
  ASSUME NEW lc \in Lifecycles
  PROVE  /\ IsFiniteSet(DOMAIN lc)
         /\ \A v \in DOMAIN lc : lc[v][1] \in Int /\ lc[v][2] \in Int
BY LifecyclesAssumption

\* An order of a finite set lists its elements, each once.
LEMMA OrderFacts ==
  ASSUME NEW S, IsFiniteSet(S), NEW s \in SetToSeqs(S)
  PROVE  /\ s \in Seq(S)
         /\ Len(s) \in Nat
         /\ \A k \in 1..Len(s) : s[k] \in S
         /\ \A k, l \in 1..Len(s) : s[k] = s[l] => k = l
<1>1. /\ s \in [1..Cardinality(S) -> S]
      /\ \A k, l \in 1..Cardinality(S) : k # l => s[k] # s[l]
  BY DEF SetToSeqs
<1>2. Cardinality(S) \in Nat
  BY FS_CardinalityType
<1>3. s \in Seq(S) /\ Len(s) = Cardinality(S)
  BY <1>1, <1>2
<1> QED
  BY <1>1, <1>2, <1>3

LEMMA OverlapFacts ==
  ASSUME NEW lc \in Lifecycles, NEW u \in DOMAIN lc, NEW v \in DOMAIN lc
  PROVE  Overlap(lc[u], lc[v]) <=> Overlap(lc[v], lc[u])
BY LifecycleFacts DEF Overlap

-----------------------------------------------------------------------------
(* The inductive invariant: while a cluster is open its head is placed in  *)
(* it, and cluster_adj holds the neighbours of all its members.            *)
OpenClusterInv ==
  j > 0 =>
    /\ i \in 1..Len(mem_nodes)
    /\ j > i
    /\ Placed(i)
    /\ node2cluster[mem_nodes[i]] = mem_nodes[i]
    /\ \A u \in Members(mem_nodes[i]) : Adj(u) \subseteq cluster_adj

HeadsInv ==
  \A v \in DOMAIN node2cluster :
    /\ node2cluster[v] \in DOMAIN node2cluster
    /\ node2cluster[node2cluster[v]] = node2cluster[v]

PlanInv == TypeOK /\ OpenClusterInv /\ HeadsInv /\ NoOverlapInCluster

\* The shape every step relies on.
LEMMA NodeFacts ==
  ASSUME TypeOK
  PROVE  /\ Len(mem_nodes) \in Nat
         /\ \A k \in 1..Len(mem_nodes) : mem_nodes[k] \in DOMAIN lifetime
         /\ i \in Nat /\ i >= 1 /\ j \in Nat
         /\ lifetime \in Lifecycles
BY LifecycleFacts, OrderFacts DEF TypeOK

LEMMA InitPlanInv == Init => PlanInv
<1> SUFFICES ASSUME NEW lc \in Lifecycles, NEW order \in SetToSeqs(DOMAIN lc),
                    Start(lc, order)
             PROVE  PlanInv
  BY DEF Init
<1>1. Len(mem_nodes) \in Nat
  BY LifecycleFacts, OrderFacts DEF Start
<1>2. TypeOK
  BY <1>1 DEF Start, TypeOK, NoEntries
<1> QED
  BY <1>2 DEF Start, PlanInv, OpenClusterInv, HeadsInv, NoOverlapInCluster, NoEntries

LEMMA NextPlanInv == PlanInv /\ [Next]_planVars => PlanInv'
<1> SUFFICES ASSUME PlanInv, [Next]_planVars PROVE PlanInv'
  OBVIOUS
<1> USE DEF PlanInv
<1>0. /\ Len(mem_nodes) \in Nat
      /\ \A k \in 1..Len(mem_nodes) : mem_nodes[k] \in DOMAIN lifetime
      /\ i \in Nat /\ i >= 1 /\ j \in Nat
      /\ lifetime \in Lifecycles
  BY NodeFacts
<1>1. CASE SkipNode
  <2>1. TypeOK'
    BY <1>0, <1>1 DEF TypeOK, SkipNode, Outer
  <2>2. OpenClusterInv' /\ HeadsInv' /\ NoOverlapInCluster'
    BY <1>1 DEF SkipNode, Outer, OpenClusterInv, HeadsInv, NoOverlapInCluster
  <2> QED BY <2>1, <2>2
<1>2. CASE OpenCluster
  <2> DEFINE h == mem_nodes[i]
  <2>1. /\ i \in 1..Len(mem_nodes) /\ h \in DOMAIN lifetime
        /\ h \notin DOMAIN node2cluster
        /\ node2cluster' = Assign(node2cluster, h, h)
        /\ UNCHANGED <<lifetime, mem_nodes, i>>
        /\ cluster_adj' = Adj(h) /\ j' = i + 1
    BY <1>0, <1>2 DEF OpenCluster, Outer, Placed
  <2>2. /\ DOMAIN node2cluster' = DOMAIN node2cluster \cup {h}
        /\ node2cluster'[h] = h
        /\ \A x \in DOMAIN node2cluster : node2cluster'[x] = node2cluster[x]
    BY <2>1 DEF Assign
  <2>3. \A x \in DOMAIN node2cluster' : node2cluster'[x] = h <=> x = h
    BY <2>1, <2>2 DEF HeadsInv
  <2>4. TypeOK'
    BY <1>0, <2>1, <2>2 DEF TypeOK, Adj
  <2>5. OpenClusterInv'
    <3>1. Members(h)' = {h}
      BY <2>1, <2>2, <2>3 DEF Members
    <3> QED
      BY <1>0, <2>1, <2>2, <3>1 DEF OpenClusterInv, Placed, Adj
  <2>6. HeadsInv'
    BY <2>2, <2>3 DEF HeadsInv
  <2>7. NoOverlapInCluster'
    BY <2>1, <2>2, <2>3 DEF NoOverlapInCluster
  <2> QED BY <2>4, <2>5, <2>6, <2>7
<1>3. CASE JoinCluster
  <2> DEFINE h == mem_nodes[i]
             v == mem_nodes[j]
  <2>1. /\ i \in 1..Len(mem_nodes) /\ j \in 1..Len(mem_nodes)
        /\ h \in DOMAIN lifetime /\ v \in DOMAIN lifetime
        /\ v \notin DOMAIN node2cluster /\ v \notin cluster_adj
        /\ h \in DOMAIN node2cluster /\ node2cluster[h] = h
        /\ \A u \in Members(h) : Adj(u) \subseteq cluster_adj
        /\ node2cluster' = Assign(node2cluster, v, h)
        /\ UNCHANGED <<lifetime, mem_nodes, i>>
        /\ cluster_adj' = cluster_adj \cup Adj(v) /\ j' = j + 1 /\ j > i
    BY <1>0, <1>3 DEF JoinCluster, Inner, CanJoin, Placed, OpenClusterInv
  <2>2. /\ DOMAIN node2cluster' = DOMAIN node2cluster \cup {v}
        /\ node2cluster'[v] = h
        /\ \A x \in DOMAIN node2cluster : node2cluster'[x] = node2cluster[x]
    BY <2>1 DEF Assign
  <2>3. TypeOK'
    BY <1>0, <2>1, <2>2 DEF TypeOK, Adj
  <2>4. OpenClusterInv'
    <3>1. Members(h)' = Members(h) \cup {v}
      BY <2>1, <2>2 DEF Members
    <3>2. \A u \in Members(h)' : Adj(u)' \subseteq cluster_adj'
      BY <2>1, <3>1 DEF Adj
    <3>3. Placed(i)' /\ node2cluster'[h] = h
      BY <2>1, <2>2 DEF Placed
    <3> QED
      BY <1>0, <2>1, <3>2, <3>3 DEF OpenClusterInv
  <2>5. HeadsInv'
    BY <2>1, <2>2 DEF HeadsInv
  <2>6. NoOverlapInCluster'
    <3>1. \A u \in Members(h) : ~Overlap(lifetime[u], lifetime[v])
      <4>1. \A u \in Members(h) : v \notin Adj(u) /\ u # v
        BY <2>1 DEF Members
      <4> QED
        BY <2>1, <4>1 DEF Adj
    <3>2. \A u \in Members(h) : ~Overlap(lifetime[v], lifetime[u])
      BY <1>0, <2>1, <3>1, OverlapFacts DEF Members, TypeOK
    <3> QED
      BY <2>1, <2>2, <3>1, <3>2 DEF NoOverlapInCluster, Members
  <2> QED BY <2>3, <2>4, <2>5, <2>6
<1>4. CASE PassOver
  <2>1. TypeOK'
    BY <1>0, <1>4 DEF TypeOK, PassOver, Inner
  <2>2. OpenClusterInv'
    BY <1>0, <1>4 DEF PassOver, Inner, OpenClusterInv, Placed, Members, Adj
  <2>3. HeadsInv' /\ NoOverlapInCluster'
    BY <1>4 DEF PassOver, HeadsInv, NoOverlapInCluster
  <2> QED BY <2>1, <2>2, <2>3
<1>5. CASE CloseCluster
  <2>1. TypeOK'
    BY <1>0, <1>5 DEF TypeOK, CloseCluster, OpenClusterInv
  <2>2. OpenClusterInv' /\ HeadsInv' /\ NoOverlapInCluster'
    BY <1>5 DEF CloseCluster, OpenClusterInv, HeadsInv, NoOverlapInCluster
  <2> QED BY <2>1, <2>2
<1>6. CASE UNCHANGED planVars
  BY <1>6 DEF planVars, TypeOK, OpenClusterInv, HeadsInv, NoOverlapInCluster,
              Placed, Members, Adj
<1> QED
  BY <1>1, <1>2, <1>3, <1>4, <1>5, <1>6 DEF Next, PlanStep

-----------------------------------------------------------------------------
(* The loops stay within the node list and fill the table with variables   *)
(* of the device only.                                                     *)
THEOREM TypeCorrect == Spec => []TypeOK
<1>1. PlanInv => TypeOK
  BY DEF PlanInv
<1> QED
  BY <1>1, InitPlanInv, NextPlanInv, PTL DEF Spec

(* Whatever the lifetimes and the order of the map, no two variables that  *)
(* are alive at one position are given the same memory.                    *)
THEOREM NoOverlap == Spec => []NoOverlapInCluster
<1>1. PlanInv => NoOverlapInCluster
  BY DEF PlanInv
<1> QED
  BY <1>1, InitPlanInv, NextPlanInv, PTL DEF Spec

(* In every intermediate table the variable a cluster is named after keeps *)
(* its own name.                                                           *)
THEOREM HeadsKeepTheirNames == Spec => []HeadKeepsItsName
<1>1. PlanInv => HeadKeepsItsName
  BY DEF PlanInv, HeadsInv, HeadKeepsItsName
<1> QED
  BY <1>1, InitPlanInv, NextPlanInv, PTL DEF Spec

-----------------------------------------------------------------------------
(* A step of the loops, seen as a step of the promise.                     *)
LEMMA StepKeepsPromise ==
  ASSUME PlanInv, Next
  PROVE  Promise!RNext \/ UNCHANGED <<lifetime, node2cluster>>
<1> USE DEF PlanInv
<1>0. /\ Len(mem_nodes) \in Nat
      /\ \A k \in 1..Len(mem_nodes) : mem_nodes[k] \in DOMAIN lifetime
      /\ i \in Nat /\ i >= 1 /\ j \in Nat
      /\ lifetime \in Lifecycles
  BY NodeFacts
<1>1. CASE SkipNode \/ PassOver \/ CloseCluster
  BY <1>1 DEF SkipNode, PassOver, CloseCluster
<1>2. CASE OpenCluster
  <2> DEFINE h == mem_nodes[i]
  <2>1. h \in DOMAIN lifetime \ DOMAIN node2cluster
    BY <1>0, <1>2 DEF OpenCluster, Outer, Placed
  <2>2. Promise!OwnMemory(h) /\ UNCHANGED lifetime
    BY <1>2 DEF OpenCluster, Promise!OwnMemory, Assign, Promise!Assign
  <2> QED
    BY <2>1, <2>2 DEF Promise!RNext
<1>3. CASE JoinCluster
  <2> DEFINE h == mem_nodes[i]
             v == mem_nodes[j]
  <2>1. /\ v \in DOMAIN lifetime \ DOMAIN node2cluster
        /\ h \in {p \in DOMAIN node2cluster : node2cluster[p] = p}
    BY <1>0, <1>3 DEF JoinCluster, Inner, CanJoin, Placed, OpenClusterInv
  <2>2. \A u \in Members(h) : ~Overlap(lifetime[u], lifetime[v])
    <3>1. \A u \in Members(h) : Adj(u) \subseteq cluster_adj
      BY <1>0, <1>3 DEF JoinCluster, Inner, OpenClusterInv
    <3>2. v \notin cluster_adj
      BY <1>3 DEF JoinCluster, CanJoin
    <3> QED
      BY <2>1, <3>1, <3>2 DEF Members, Adj
  <2>3. Promise!Compatible(v, h)
    <3>1. \A u \in Members(h) : u \in DOMAIN lifetime
      BY DEF Members, TypeOK
    <3>2. \A u \in Members(h) : Promise!Disjoint(lifetime[u], lifetime[v])
      BY <1>0, <2>1, <2>2, <3>1, LifecycleFacts DEF Overlap, Promise!Disjoint
    <3> QED
      BY <3>2 DEF Promise!Compatible, Promise!Tenants, Members
  <2>4. Promise!ShareMemory(v, h) /\ UNCHANGED lifetime
    BY <1>3, <2>3 DEF JoinCluster, Promise!ShareMemory, Assign, Promise!Assign
  <2> QED
    BY <2>1, <2>4 DEF Promise!RNext
<1> QED
  BY <1>1, <1>2, <1>3 DEF Next, PlanStep

(* The greedy loops implement the plan MemoryReuse promises.               *)
THEOREM PlanIsAsPromised == Spec => KeepsPromise
<1>1. Init => Promise!RInit
  BY DEF Init, Start, Promise!RInit, NoEntries, Promise!NoEntries
<1>2. PlanInv /\ [Next]_planVars => [Promise!RNext]_(Promise!reuseVars)
  BY StepKeepsPromise DEF planVars, Promise!reuseVars
<1> QED
  BY <1>1, <1>2, InitPlanInv, NextPlanInv, PTL
     DEF Spec, KeepsPromise, Promise!RSpec
=============================================================================
