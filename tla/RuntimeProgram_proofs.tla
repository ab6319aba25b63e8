------------------------ MODULE RuntimeProgram_proofs ------------------------
(***************************************************************************)
(* The pipeline, from the Program to its runs, is right for every sound    *)
(* program, whatever the order of the statements, the plans and the number *)
(* of runs.                                                                *)
(* The argument: the links say who computes what is read (NodesInv), the   *)
(* order respects them (OrderInv), a lifetime covers all that names a      *)
(* variable (TablesInv, CoversInv), the plans are one substitution that    *)
(* joins lifetimes that do not overlap (UsesInv); so nobody writes a       *)
(* variable between who produces what it holds and who reads it            *)
(* (NoClobber), and each value is in its place when it is read             *)
(* (RuntimeInv).                                                           *)
(***************************************************************************)
EXTENDS RuntimeProgram, SSAGraph_proofs, FiniteSetTheorems, WellFoundedInduction, TLAPS

\* The graphs and the tables a program can give rise to.
Dags ==
  UNION {{g \in [1..n -> SUBSET (1..n)] : \A s \in 1..n : g[s] \subseteq 1..(s - 1)} :
           n \in {Len(p.ops) : p \in Programs}}

Lifetimes == {l \in Nat \X Nat : l[1] <= l[2]}
Tables == UNION {[D -> Lifetimes] : D \in SUBSET Name}

Loops == INSTANCE OrderAndPlan_proofs WITH Graphs <- Dags, Lifecycles <- Tables

LEMMA IntervalSize ==
  ASSUME NEW n \in Nat
  PROVE  IsFiniteSet(1..n) /\ Cardinality(1..n) = n
BY FS_Interval

LEMMA DagsAreFinite == \A g \in Dags : Loops!IsFiniteSet(DOMAIN g) /\ Loops!IsDag(g)
<1> SUFFICES ASSUME NEW p \in Programs,
                    NEW g \in [1..Len(p.ops) -> SUBSET (1..Len(p.ops))],
                    \A s \in 1..Len(p.ops) : g[s] \subseteq 1..(s - 1)
             PROVE  IsFiniteSet(DOMAIN g) /\ Loops!IsDag(g)
  BY DEF Dags, IsFiniteSet, Loops!IsFiniteSet
<1> DEFINE n == Len(p.ops)
<1>1. n \in Nat
  BY ProgramsAssumption
<1>2. IsFiniteSet(1..n) /\ Cardinality(1..n) = n
  BY <1>1, IntervalSize
<1>3. Loops!Cardinality(1..n) = Cardinality(1..n)
  BY DEF Cardinality, Loops!Cardinality
<1>4. [s \in 1..n |-> s] \in [DOMAIN g -> 0..n]
  BY <1>1
<1>5. Loops!Ranks(g, [s \in 1..n |-> s])
  BY <1>1 DEF Loops!Ranks
<1> QED
  BY <1>2, <1>3, <1>4, <1>5 DEF Loops!IsDag

LEMMA TablesAreFinite ==
  \A lc \in Tables :
    /\ Loops!IsFiniteSet(DOMAIN lc)
    /\ \A v \in DOMAIN lc : lc[v][1] \in Int /\ lc[v][2] \in Int /\ lc[v][1] <= lc[v][2]
<1> SUFFICES ASSUME NEW D \in SUBSET Name, NEW lc \in [D -> Lifetimes]
             PROVE  /\ IsFiniteSet(D)
                    /\ \A v \in D : lc[v][1] \in Int /\ lc[v][2] \in Int /\ lc[v][1] <= lc[v][2]
  BY DEF Tables, IsFiniteSet, Loops!IsFiniteSet
<1>1. IsFiniteSet(D)
  BY NamesAssumption, FS_Subset
<1> QED
  BY <1>1 DEF Lifetimes

LEMMA SameSeqs == \A S : Loops!SetToSeqs(S) = SetToSeqs(S)
BY DEF SetToSeqs, Loops!SetToSeqs, Cardinality, Loops!Cardinality

LEMMA SameSteps ==
  /\ Order!SortStep => Loops!SortStep
  /\ Plan!PlanStep => Loops!PlanStep
<1>1. Order!SortStep => Loops!SortStep
  BY DEF Order!SortStep, Loops!SortStep, Order!VisitRoot, Loops!VisitRoot,
         Order!VisitProducer, Loops!VisitProducer, Order!Enter, Loops!Enter,
         Order!Leave, Loops!Leave, Order!Top, Loops!Top
<1>2. Plan!PlanStep => Loops!PlanStep
  BY DEF Plan!PlanStep, Loops!PlanStep, Plan!SkipNode, Loops!SkipNode,
         Plan!OpenCluster, Loops!OpenCluster, Plan!JoinCluster, Loops!JoinCluster,
         Plan!PassOver, Loops!PassOver, Plan!CloseCluster, Loops!CloseCluster,
         Plan!Outer, Loops!Outer, Plan!Inner, Loops!Inner, Plan!Placed, Loops!Placed,
         Plan!CanJoin, Loops!CanJoin, Plan!Adj, Loops!Adj, Plan!Overlap, Loops!Overlap,
         Plan!Assign, Loops!Assign
<1> QED
  BY <1>1, <1>2

-----------------------------------------------------------------------------
(* The graph.                                                              *)

NamesOf(links) == {n[1] : n \in links}
NamesApart(links) == \A m, n \in links : m[1] = n[1] => m = n

\* A statement is linked to one node for each name; a node has one producer,
\* and a node without one is the only version of a name nobody has written.
NodesInv ==
  /\ \A s \in 1..built :
       /\ NamesOf(inlinks[s]) = program.ops[s].in /\ NamesApart(inlinks[s])
       /\ NamesOf(outlinks[s]) = program.ops[s].out /\ NamesApart(outlinks[s])
  /\ \A s, t \in 1..built : outlinks[s] \cap outlinks[t] # {} => s = t
  /\ \A s \in 1..built : \A n \in inlinks[s] : Producers(n) = {} => n[2] = 0
  /\ \A x \in DOMAIN latest : Writers(x) = {} => latest[x] = 0

LEMMA PairNames ==
  ASSUME NEW S, NEW f
  PROVE  LET links == {<<x, f[x]>> : x \in S} IN NamesOf(links) = S /\ NamesApart(links)
<1> DEFINE links == {<<x, f[x]>> : x \in S}
<1>1. NamesApart(links)
  BY DEF NamesApart
<1>2. NamesOf(links) = S
  <2>1. \A x \in S : <<x, f[x]>> \in links /\ <<x, f[x]>>[1] = x
    OBVIOUS
  <2>2. \A n \in links : n[1] \in S
    OBVIOUS
  <2> HIDE DEF links
  <2> QED
    BY <2>1, <2>2 DEF NamesOf
<1> QED
  BY <1>1, <1>2

LEMMA NextNodes ==
  ASSUME BuildInv, NodesInv, BuildOp
  PROVE  NodesInv'
<1> DEFINE s == built + 1
           op == program.ops[s]
           R == AfterReads(op)
           W == AfterWrites(op)
           read == {<<x, R[x]>> : x \in op.in}
           new == {<<x, W[x]>> : x \in op.out}
<1>1. /\ built \in Nat /\ s \in Nat /\ Len(program.ops) \in Nat
      /\ op.in \subseteq Name /\ op.out \subseteq Name /\ GraphTypeOK
  BY OpFacts DEF BuildInv, BuildOp
<1>2. /\ built' = s /\ latest' = W /\ program' = program
      /\ inlinks' = Assign(inlinks, s, read) /\ outlinks' = Assign(outlinks, s, new)
  BY DEF BuildOp
<1>3. /\ DOMAIN inlinks' = 1..s /\ DOMAIN outlinks' = 1..s
      /\ \A t \in 1..built : inlinks'[t] = inlinks[t] /\ outlinks'[t] = outlinks[t]
      /\ inlinks'[s] = read /\ outlinks'[s] = new
  BY <1>1, <1>2 DEF Assign, GraphTypeOK
<1>4. /\ DOMAIN W = DOMAIN latest \cup op.in \cup op.out
      /\ \A x \in DOMAIN latest : R[x] = latest[x]
      /\ \A x \in op.in \ DOMAIN latest : R[x] = 0
      /\ \A x \in op.out \cap (DOMAIN latest \cup op.in) : W[x] = R[x] + 1
      /\ \A x \in (DOMAIN latest \cup op.in) \ op.out : W[x] = R[x]
      /\ \A x \in DOMAIN latest : latest[x] \in Nat
  BY <1>1, VersionFacts DEF GraphTypeOK
<1>5. NamesOf(read) = op.in /\ NamesApart(read)
  BY PairNames
<1>6. NamesOf(new) = op.out /\ NamesApart(new)
  BY PairNames
<1>7. \A n : n \in new => n[1] \in op.out /\ n[2] = W[n[1]]
  OBVIOUS
<1>8. \A n : n \in read => n[1] \in op.in /\ n[2] = R[n[1]] /\ n = <<n[1], n[2]>>
  OBVIOUS
<1> HIDE DEF R, W, read, new, s
<1>9. \A t \in 1..s : t \in 1..built \/ t = s
  BY <1>1 DEF s
<1>10. 1..built \subseteq 1..s /\ s \in 1..s /\ s \notin 1..built
  BY <1>1 DEF s
\* No link made earlier is to one of the new nodes.
<1>11. \A t \in 1..built : outlinks[t] \cap new = {} /\ inlinks[t] \cap new = {}
  <2> SUFFICES ASSUME NEW t \in 1..built, NEW n \in inlinks[t] \cup outlinks[t], n \in new
               PROVE  FALSE
    OBVIOUS
  <2>1. n[1] \in DOMAIN latest /\ n[2] <= latest[n[1]]
    BY <1>1 DEF GraphTypeOK
  <2>2. n[1] \in op.out /\ n[2] = latest[n[1]] + 1
    BY <1>4, <1>7, <2>1
  <2> QED
    BY <1>4, <2>1, <2>2
<1>12. \A t \in 1..s : /\ NamesOf(inlinks'[t]) = program.ops[t].in /\ NamesApart(inlinks'[t])
                       /\ NamesOf(outlinks'[t]) = program.ops[t].out /\ NamesApart(outlinks'[t])
  BY <1>3, <1>5, <1>6, <1>9 DEF NodesInv, s, op
<1>13. \A t, u \in 1..s : outlinks'[t] \cap outlinks'[u] # {} => t = u
  BY <1>3, <1>9, <1>11 DEF NodesInv
<1>14. \A n : Producers(n) \subseteq Producers(n)'
  BY <1>1, <1>3, <1>10 DEF Producers, GraphTypeOK
<1>15. \A x : Writers(x) \subseteq Writers(x)'
  BY <1>2, <1>10 DEF Writers
<1>16. ASSUME NEW x \in DOMAIN latest, Producers(<<x, latest[x]>>) = {} PROVE latest[x] = 0
  <2>1. Writers(x) = {}
    BY <1>16 DEF BuildInv, LatestInv, IsLastOf
  <2> QED
    BY <2>1 DEF NodesInv
<1>17. \A t \in 1..s : \A n \in inlinks'[t] : Producers(n)' = {} => n[2] = 0
  <2> SUFFICES ASSUME NEW t \in 1..s, NEW n \in inlinks'[t], Producers(n) = {} PROVE n[2] = 0
    BY <1>14
  <2>1. CASE t \in 1..built
    BY <1>3, <2>1 DEF NodesInv
  <2>2. CASE t = s
    <3>1. n \in read
      BY <1>3, <2>2
    <3> QED
      BY <1>4, <1>8, <1>16, <3>1
  <2> QED
    BY <1>9, <2>1, <2>2
<1>18. \A x \in DOMAIN W : Writers(x)' = {} => W[x] = 0
  <2> SUFFICES ASSUME NEW x \in DOMAIN W, Writers(x)' = {} PROVE W[x] = 0
    OBVIOUS
  <2>1. x \notin op.out /\ Writers(x) = {}
    BY <1>2, <1>10, <1>15 DEF Writers, s, op
  <2>2. W[x] = R[x]
    BY <1>4, <2>1
  <2> QED
    BY <1>4, <2>1, <2>2 DEF NodesInv
<1> QED
  BY <1>2, <1>12, <1>13, <1>17, <1>18 DEF NodesInv

LEMMA GraphFacts ==
  ASSUME BuildInv, NodesInv, built = Len(program.ops)
  PROVE  LET N == Len(program.ops) IN
         /\ program \in Programs /\ N \in Nat /\ DOMAIN program.ops = 1..N
         /\ DOMAIN inlinks = 1..N /\ DOMAIN outlinks = 1..N
         /\ \A s \in 1..N : \A n \in Links(s) : n[1] \in Name
         /\ DOMAIN AdjList = 1..N /\ AdjList \in Dags
<1> DEFINE N == Len(program.ops)
<1>1. /\ program \in Programs /\ N \in Nat /\ program.ops \in Seq(Operator)
      /\ DOMAIN inlinks = 1..N /\ DOMAIN outlinks = 1..N
      /\ \A s \in 1..N : \A n \in Links(s) : n[1] \in Name
  BY OpFacts, ProgramsAssumption DEF BuildInv, GraphTypeOK, Links, ArgNode
<1>2. DOMAIN program.ops = 1..N
  BY <1>1
<1>3. DOMAIN AdjList = 1..N /\ AdjList = [s \in 1..N |-> UNION {Producers(n) : n \in inlinks[s]}]
  BY <1>1 DEF AdjList
<1>4. \A s \in 1..N : AdjList[s] \subseteq 1..(s - 1)
  BY <1>1, <1>3 DEF BuildInv, LinksInv, IsLastOf, WritersBefore
<1>5. \A s \in 1..N : AdjList[s] \in SUBSET (1..N)
  <2>1. \A s \in 1..N : 1..(s - 1) \subseteq 1..N
    BY <1>1
  <2> QED
    BY <1>4, <2>1
<1>6. AdjList \in [1..N -> SUBSET (1..N)]
  BY <1>3, <1>5
<1>7. AdjList \in Dags
  <2> DEFINE n == N
  <2>1. AdjList \in {g \in [1..n -> SUBSET (1..n)] : \A s \in 1..n : g[s] \subseteq 1..(s - 1)}
    BY <1>4, <1>6
  <2> QED
    BY <1>1, <2>1 DEF Dags
<1> QED
  BY <1>1, <1>2, <1>3, <1>7

\* The target of a node is that of an operator it is linked to.
LEMMA TargetFacts ==
  ASSUME BuildInv, NodesInv, built = Len(program.ops), NEW s \in 1..built, NEW n \in Links(s)
  PROVE  \E t \in 1..built : /\ t \in Producers(n) \cup Consumers(n)
                             /\ Producers(n) # {} => t \in Producers(n)
                             /\ NodeTarget(n) = program.ops[t].target
<1> DEFINE fits(t) == Producers(n) # {} => t \in Producers(n)
           t == CHOOSE u \in Producers(n) \cup Consumers(n) : fits(u)
<1>1. s \in Producers(n) \cup Consumers(n)
  BY GraphFacts DEF Links, Producers, Consumers
<1>2. \E u \in Producers(n) \cup Consumers(n) : fits(u)
  BY <1>1
<1>3. t \in Producers(n) \cup Consumers(n) /\ fits(t)
  BY <1>2
<1>4. Producers(n) \cup Consumers(n) \subseteq 1..built
  BY GraphFacts DEF Producers, Consumers
<1>5. NodeTarget(n) = program.ops[t].target
  BY DEF NodeTarget
<1> QED
  BY <1>3, <1>4, <1>5

-----------------------------------------------------------------------------
(* The pipeline.                                                           *)

\* The order, once it is computed.
OrderInv ==
  /\ Len(ret) = Len(program.ops) /\ DOMAIN ret = 1..Len(program.ops)
  /\ \A k \in DOMAIN ret : ret[k] \in 1..Len(program.ops)
  /\ \A s \in 1..Len(program.ops) : \E k \in DOMAIN ret : ret[k] = s
  /\ \A k, l \in DOMAIN ret : ret[k] = ret[l] => k = l
  /\ \A k \in DOMAIN ret : \A p \in AdjList[ret[k]] : \E l \in 1..(k - 1) : ret[l] = p

\* The tables hold what the first n statements of the order keep alive.
TablesInv(n) ==
  \A d \in DOMAIN lifecycles :
    /\ lifecycles[d] \in Tables
    /\ \A x \in DOMAIN lifecycles[d] :
         /\ lifecycles[d][x][2] < n
         /\ \E k \in 1..n : x \in Alive(ret[k], d)

CoversInv(n) ==
  \A k \in 1..n : \A d : \A x \in Alive(ret[k], d) :
    /\ d \in DOMAIN lifecycles /\ x \in DOMAIN lifecycles[d]
    /\ lifecycles[d][x][1] <= k - 1 /\ k - 1 <= lifecycles[d][x][2]

UsesTyped ==
  /\ DOMAIN uses = 1..Len(program.ops)
  /\ \A s \in 1..Len(program.ops) : uses[s] \in [Links(s) -> Name]

PipelineInv ==
  /\ phase \in {"build", "sort", "collect", "apply", "plan", "perform", "generated"}
  /\ BuildInv /\ NodesInv
  /\ cursor \in 1..(Len(program.ops) + 1)
  /\ devices \subseteq DOMAIN lifecycles
  /\ phase = "build" => uses = NoEntries
  /\ phase # "build" => built = Len(program.ops) /\ UsesTyped
  /\ phase = "sort" => Loops!SortInv /\ adj_list = AdjList
  /\ phase \in {"build", "sort"} => cursor = 1 /\ lifecycles = NoEntries /\ devices = {}
  /\ phase \notin {"build", "sort"} => OrderInv
  /\ phase = "collect" => TablesInv(cursor - 1) /\ CoversInv(cursor - 1) /\ devices = {}
  /\ phase \in {"apply", "plan", "perform", "generated"} =>
       /\ TablesInv(Len(program.ops))
       /\ lifecycles = NoEntries \/ CoversInv(Len(program.ops))
  /\ phase \in {"plan", "perform"} => Loops!PlanInv

LEMMA InitPipelineInv == PipelineInit => PipelineInv
<1> SUFFICES ASSUME PipelineInit PROVE PipelineInv
  OBVIOUS
<1>1. BuildInv
  BY InitBuildInv DEF PipelineInit
<1>2. NodesInv
  BY DEF PipelineInit, GraphInit, NodesInv, NoEntries
<1>3. Len(program.ops) \in Nat
  BY ProgramsAssumption DEF PipelineInit, GraphInit
<1> QED
  BY <1>1, <1>2, <1>3 DEF PipelineInit, PipelineInv, NoEntries

\* What the parts of the invariant say stays true while what they speak of
\* stays the same.
LEMMA SameGraph ==
  ASSUME UNCHANGED graphVars
  PROVE  /\ AdjList' = AdjList
         /\ \A s : Links(s)' = Links(s)
         /\ \A n : Producers(n)' = Producers(n) /\ Consumers(n)' = Consumers(n)
         /\ \A n : NodeTarget(n)' = NodeTarget(n) /\ Collected(n)' = Collected(n)
         /\ \A s, d : Alive(s, d)' = Alive(s, d)
         /\ BuildInv' = BuildInv /\ NodesInv' = NodesInv
<1> USE DEF graphVars
<1>1. /\ AdjList' = AdjList
      /\ \A s : Links(s)' = Links(s)
      /\ \A n : Producers(n)' = Producers(n) /\ Consumers(n)' = Consumers(n)
  BY DEF AdjList, Links, Producers, Consumers
<1>2. \A n : NodeTarget(n)' = NodeTarget(n) /\ Collected(n)' = Collected(n)
  BY <1>1 DEF NodeTarget, Collected, IsWeight, IsPersist, ValidVar, TypeOf
<1>3. \A s, d : Alive(s, d)' = Alive(s, d)
  BY <1>1, <1>2 DEF Alive
<1>4. BuildInv' = BuildInv /\ NodesInv' = NodesInv
  BY DEF BuildInv, GraphTypeOK, LatestInv, LinksInv, IsLastOf, Writers, WritersBefore,
         Producers, NodesInv, NamesOf, NamesApart
<1> QED
  BY <1>1, <1>2, <1>3, <1>4

LEMMA SameOrder ==
  ASSUME UNCHANGED graphVars, UNCHANGED orderVars
  PROVE  /\ OrderInv' = OrderInv
         /\ UNCHANGED <<uses>> => (UsesTyped' = UsesTyped)
         /\ UNCHANGED <<lifecycles>> => \A n : /\ TablesInv(n)' = TablesInv(n)
                                               /\ CoversInv(n)' = CoversInv(n)
<1>1. /\ AdjList' = AdjList /\ \A s : Links(s)' = Links(s)
      /\ \A s, d : Alive(s, d)' = Alive(s, d)
      /\ program' = program /\ ret' = ret
  BY SameGraph DEF graphVars, orderVars
<1>2. OrderInv' = OrderInv
  BY <1>1 DEF OrderInv
<1>3. UNCHANGED <<uses>> => (UsesTyped' = UsesTyped)
  BY <1>1 DEF UsesTyped
<1>4. ASSUME UNCHANGED <<lifecycles>>, NEW n
      PROVE  TablesInv(n)' = TablesInv(n) /\ CoversInv(n)' = CoversInv(n)
  BY <1>1, <1>4 DEF TablesInv, CoversInv
<1> QED
  BY <1>2, <1>3, <1>4

LEMMA BuildStep ==
  ASSUME PipelineInv, BuildGraph
  PROVE  PipelineInv'
<1>1. /\ phase = "build" /\ BuildOp /\ UNCHANGED <<phase, orderVars, planVars, passVars>>
      /\ BuildInv /\ NodesInv
  BY DEF BuildGraph, PipelineInv
<1>2. BuildInv'
  BY <1>1, NextBuildInv
<1>3. NodesInv'
  BY <1>1, NextNodes
<1>4. program' = program
  BY <1>1 DEF BuildOp
<1> QED
  BY <1>1, <1>2, <1>3, <1>4 DEF PipelineInv, passVars

LEMMA BeginSortStep ==
  ASSUME PipelineInv, BeginSort
  PROVE  PipelineInv'
<1>1. /\ phase = "build" /\ phase' = "sort" /\ built = Len(program.ops)
      /\ UNCHANGED graphVars /\ UNCHANGED <<lifecycles, devices, cursor>>
      /\ lifecycles = NoEntries /\ devices = {} /\ cursor = 1
      /\ BuildInv /\ NodesInv
  BY DEF BeginSort, PipelineInv, GraphBuilt
<1>2. adj_list' = AdjList /\ calls' = <<>> /\ visited' = {} /\ ret' = <<>>
  BY DEF BeginSort, Order!CallSort
<1>3. BuildInv' /\ NodesInv' /\ AdjList' = AdjList /\ \A s : Links(s)' = Links(s)
  BY <1>1, SameGraph
<1>4. AdjList \in Dags
  BY <1>1, GraphFacts
<1>5. Loops!SortInv'
  <2>1. Loops!SortTypeOK'
    BY <1>2, <1>4 DEF Loops!SortTypeOK, Loops!Pending, Loops!Emitted
  <2>2. Loops!CallsDescend' /\ Loops!ProducersFirst'
    BY <1>2 DEF Loops!CallsDescend, Loops!ProducersFirst
  <2> QED
    BY <2>1, <2>2 DEF Loops!SortInv
<1>6. UsesTyped'
  <2>1. uses' = [s \in DOMAIN inlinks |-> [n \in Links(s) |-> n[1]]]
    BY DEF BeginSort
  <2>2. DOMAIN inlinks = 1..Len(program.ops)
        /\ \A s \in 1..Len(program.ops) : \A n \in Links(s) : n[1] \in Name
    BY <1>1, GraphFacts
  <2>3. \A s \in 1..Len(program.ops) : uses'[s] \in [Links(s) -> Name]
    BY <2>1, <2>2
  <2> QED
    BY <1>1, <1>3, <2>1, <2>2, <2>3 DEF UsesTyped, graphVars
<1> QED
  BY <1>1, <1>2, <1>3, <1>5, <1>6 DEF PipelineInv, graphVars

\* When the search is over, the order lists every statement, each once.
LEMMA SortedOrder ==
  ASSUME BuildInv, NodesInv, built = Len(program.ops),
         Loops!SortInv, adj_list = AdjList, Order!Sorted
  PROVE  OrderInv
<1> DEFINE N == Len(program.ops)
<1>1. N \in Nat /\ DOMAIN AdjList = 1..N
  BY GraphFacts
<1>2. calls = <<>> /\ visited = 1..N
  BY <1>1 DEF Order!Sorted
<1>3. /\ ret \in Seq(1..N) /\ visited = Loops!Pending \cup Loops!Emitted
      /\ \A k, l \in DOMAIN ret : ret[k] = ret[l] => k = l
      /\ \A k \in DOMAIN ret : \A p \in AdjList[ret[k]] : \E l \in 1..(k - 1) : ret[l] = p
  BY <1>1 DEF Loops!SortInv, Loops!SortTypeOK, Loops!ProducersFirst
<1>4. Loops!Pending = {}
  BY <1>2 DEF Loops!Pending
<1>5. {ret[k] : k \in DOMAIN ret} = 1..N
  BY <1>2, <1>3, <1>4 DEF Loops!Emitted
<1>6. Len(ret) \in Nat /\ DOMAIN ret = 1..Len(ret) /\ \A k \in DOMAIN ret : ret[k] \in 1..N
  BY <1>3
<1>7. ret \in Bijection(1..Len(ret), 1..N)
  <2>1. ret \in [1..Len(ret) -> 1..N]
    BY <1>3
  <2>2. ret \in Injection(1..Len(ret), 1..N)
    BY <1>3, <1>6, <2>1 DEF Injection, IsInjective
  <2>3. ret \in Surjection(1..Len(ret), 1..N)
    BY <1>5, <1>6, <2>1 DEF Surjection
  <2> QED
    BY <2>2, <2>3 DEF Bijection
<1>8. Len(ret) = N
  <2>1. /\ IsFiniteSet(1..Len(ret)) /\ Cardinality(1..Len(ret)) = Len(ret)
        /\ Cardinality(1..N) = N
    BY <1>1, <1>6, IntervalSize
  <2>2. Cardinality(1..N) = Cardinality(1..Len(ret))
    BY <1>7, <2>1, FS_Bijection DEF ExistsBijection
  <2> QED
    BY <2>1, <2>2
<1> QED
  BY <1>3, <1>5, <1>6, <1>8 DEF OrderInv

LEMMA SortStepInv ==
  ASSUME PipelineInv, StepSort \/ EndSort
  PROVE  PipelineInv'
<1>1. /\ phase = "sort" /\ UNCHANGED graphVars /\ UNCHANGED passVars
      /\ built = Len(program.ops) /\ UsesTyped /\ Loops!SortInv /\ adj_list = AdjList
      /\ lifecycles = NoEntries /\ devices = {} /\ cursor = 1
      /\ BuildInv /\ NodesInv
  BY DEF StepSort, EndSort, PipelineInv
<1>2. /\ BuildInv' /\ NodesInv' /\ AdjList' = AdjList /\ \A s : Links(s)' = Links(s)
      /\ program' = program /\ built' = built
  BY <1>1, SameGraph DEF graphVars
<1>3. UsesTyped'
  BY <1>1, <1>2 DEF UsesTyped, passVars
<1>4. Len(program.ops) \in Nat
  BY <1>1, GraphFacts
<1>5. CASE StepSort
  <2>1. phase' = "sort" /\ Order!SortStep
    BY <1>5 DEF StepSort
  <2>2. Loops!SortInv'
    BY <1>1, <2>1, SameSteps, DagsAreFinite, TablesAreFinite, Loops!NextSortInv
  <2>3. adj_list' = adj_list
    BY <2>1 DEF Order!SortStep, Order!VisitRoot, Order!VisitProducer, Order!Enter, Order!Leave
  <2> QED
    BY <1>1, <1>2, <1>3, <2>1, <2>2, <2>3 DEF PipelineInv, passVars
<1>6. CASE EndSort
  <2>1. phase' \in {"collect", "apply"} /\ UNCHANGED orderVars /\ Order!Sorted
    BY <1>6 DEF EndSort
  <2>2. OrderInv
    BY <1>1, <2>1, SortedOrder
  <2>3. OrderInv'
    BY <1>1, <2>1, <2>2, SameOrder
  <2>4. \A n : TablesInv(n)' /\ lifecycles' = NoEntries
    BY <1>1 DEF TablesInv, NoEntries, passVars
  <2>5. CoversInv(0)'
    BY DEF CoversInv
  <2> QED
    BY <1>1, <1>2, <1>3, <1>4, <2>1, <2>3, <2>4, <2>5 DEF PipelineInv, passVars
<1> QED
  BY <1>5, <1>6

\* One more statement in a table.
LEMMA ExtendFacts ==
  ASSUME NEW table \in Tables, NEW n \in Nat, NEW S \in SUBSET Name,
         NEW s, NEW d, S = Alive(s, d), \A x \in DOMAIN table : table[x][2] < n
  PROVE  LET new == Extend(table, s, n, d) IN
         /\ new \in Tables /\ DOMAIN new = DOMAIN table \cup S
         /\ \A x \in DOMAIN new : new[x][2] < n + 1
         /\ \A x \in S : new[x][1] <= n /\ n <= new[x][2]
         /\ \A x \in DOMAIN table : new[x][1] = table[x][1] /\ table[x][2] <= new[x][2]
<1> DEFINE new == Extend(table, s, n, d)
<1>1. DOMAIN new = DOMAIN table \cup S
  BY DEF Extend
<1>2. PICK D \in SUBSET Name : table \in [D -> Lifetimes]
  BY DEF Tables
<1>3. \A x \in S : new[x] = <<IF x \in DOMAIN table THEN table[x][1] ELSE n, n>>
  BY DEF Extend, Lookup
<1>4. \A x \in DOMAIN table \ S : new[x] = table[x]
  BY DEF Extend
<1>5. \A x \in DOMAIN table :
        /\ table[x] \in Nat \X Nat
        /\ table[x][1] \in Nat /\ table[x][2] \in Nat /\ table[x][1] <= table[x][2]
  BY <1>2 DEF Lifetimes
<1>6. \A x \in S : new[x] \in Lifetimes /\ new[x][1] <= n /\ new[x][2] = n
  BY <1>3, <1>5 DEF Lifetimes
<1>7. \A x \in DOMAIN table : new[x][1] = table[x][1] /\ table[x][2] <= new[x][2]
  BY <1>3, <1>4, <1>5
<1>8. new \in [DOMAIN new -> Lifetimes]
  <2>1. \A x \in DOMAIN new : new[x] \in Lifetimes
    BY <1>1, <1>2, <1>4, <1>6
  <2>2. new = [x \in DOMAIN new |-> new[x]]
    BY <1>1 DEF Extend
  <2> HIDE DEF new
  <2> QED
    BY <2>1, <2>2
<1>9. new \in Tables
  <2>1. DOMAIN new \in SUBSET Name
    BY <1>1, <1>2
  <2> HIDE DEF new
  <2> QED
    BY <1>8, <2>1 DEF Tables
<1>10. \A x \in DOMAIN new : new[x][2] < n + 1
  BY <1>1, <1>4, <1>5, <1>6
<1> QED
  BY <1>1, <1>6, <1>7, <1>9, <1>10

LEMMA CollectStep ==
  ASSUME PipelineInv, CollectStmt
  PROVE  PipelineInv'
<1> DEFINE N == Len(program.ops)
           s == ret[cursor]
           n == cursor - 1
           touched == {d \in {DeviceOf(o.target) : o \in ToSet(program.ops)} : Alive(s, d) # {}}
           old(d) == Lookup(lifecycles, d, NoEntries)
<1>1. /\ phase = "collect" /\ phase' = "collect"
      /\ UNCHANGED graphVars /\ UNCHANGED orderVars /\ UNCHANGED <<devices, uses>>
      /\ BuildInv /\ NodesInv /\ built = N /\ UsesTyped /\ OrderInv
      /\ TablesInv(n) /\ CoversInv(n) /\ devices = {}
      /\ cursor \in 1..(N + 1) /\ cursor <= Len(ret) /\ cursor' = cursor + 1
  BY DEF CollectStmt, PipelineInv
<1>2. /\ BuildInv' /\ NodesInv' /\ OrderInv' /\ UsesTyped' /\ program' = program /\ built' = built
      /\ ret' = ret /\ \A t, d : Alive(t, d)' = Alive(t, d)
  BY <1>1, SameGraph, SameOrder DEF graphVars, orderVars
<1>3. /\ N \in Nat /\ cursor \in 1..N /\ cursor \in Nat /\ n \in Nat
      /\ DOMAIN program.ops = 1..N /\ s \in 1..N
  BY <1>1, GraphFacts DEF OrderInv
<1>4. lifecycles' = [d \in DOMAIN lifecycles \cup touched |-> Extend(old(d), s, n, d)]
  BY DEF CollectStmt
<1>5. \A d : Alive(s, d) # {} => d \in touched
  <2> SUFFICES ASSUME NEW d, NEW m \in Links(s), DeviceOf(NodeTarget(m)) = d
               PROVE  d \in {DeviceOf(o.target) : o \in ToSet(program.ops)}
    BY DEF Alive
  <2>1. PICK t \in 1..built : NodeTarget(m) = program.ops[t].target
    BY <1>1, <1>3, TargetFacts
  <2>2. program.ops[t] \in ToSet(program.ops)
    BY <1>1, <1>3 DEF ToSet
  <2> QED
    BY <2>1, <2>2
<1>6. \A d : Alive(s, d) \subseteq Name
  BY <1>1, <1>3, GraphFacts DEF Alive
<1>7. \A d : /\ old(d) \in Tables
             /\ \A x \in DOMAIN old(d) : old(d)[x][2] < n
  <2>1. NoEntries \in Tables /\ DOMAIN NoEntries = {}
    BY DEF NoEntries, Tables
  <2> QED
    BY <1>1, <2>1 DEF Lookup, TablesInv
<1>8. \A d \in DOMAIN lifecycles \cup touched :
        /\ lifecycles'[d] \in Tables
        /\ DOMAIN lifecycles'[d] = DOMAIN old(d) \cup Alive(s, d)
        /\ \A x \in DOMAIN lifecycles'[d] : lifecycles'[d][x][2] < n + 1
        /\ \A x \in Alive(s, d) : lifecycles'[d][x][1] <= n /\ n <= lifecycles'[d][x][2]
        /\ \A x \in DOMAIN old(d) : /\ lifecycles'[d][x][1] = old(d)[x][1]
                                    /\ old(d)[x][2] <= lifecycles'[d][x][2]
  <2> SUFFICES ASSUME NEW d \in DOMAIN lifecycles \cup touched
               PROVE  LET new == Extend(old(d), s, n, d) IN
                      /\ new \in Tables /\ DOMAIN new = DOMAIN old(d) \cup Alive(s, d)
                      /\ \A x \in DOMAIN new : new[x][2] < n + 1
                      /\ \A x \in Alive(s, d) : new[x][1] <= n /\ n <= new[x][2]
                      /\ \A x \in DOMAIN old(d) : new[x][1] = old(d)[x][1] /\ old(d)[x][2] <= new[x][2]
    BY <1>4
  <2> HIDE DEF old, s, n
  <2> QED
    BY <1>3, <1>6, <1>7, ExtendFacts
<1>9. DOMAIN lifecycles' = DOMAIN lifecycles \cup touched
  BY <1>4
<1> HIDE DEF touched, s
<1>10. cursor' - 1 = n + 1 /\ cursor' \in 1..(N + 1) /\ n + 1 = cursor
  BY <1>1, <1>3
<1> HIDE DEF n
<1>14. PICK c \in Nat : c = cursor
  BY <1>3
<1>11. \A d \in DOMAIN lifecycles \cup touched : \A x \in DOMAIN old(d) :
         d \in DOMAIN lifecycles /\ old(d) = lifecycles[d]
  BY DEF Lookup, NoEntries
<1>12. TablesInv(c)'
  <2> SUFFICES ASSUME NEW d \in DOMAIN lifecycles', NEW x \in DOMAIN lifecycles'[d]
               PROVE  /\ lifecycles'[d][x][2] < c
                      /\ \E k \in 1..c : x \in Alive(ret[k], d)
    BY <1>2, <1>8, <1>9 DEF TablesInv
  <2>1. lifecycles'[d][x][2] < c
    BY <1>8, <1>9, <1>10, <1>14
  <2>2. CASE x \in Alive(s, d)
    BY <1>3, <1>14, <2>1, <2>2 DEF s
  <2>3. CASE x \in DOMAIN old(d)
    <3>1. PICK k \in 1..n : x \in Alive(ret[k], d)
      BY <1>1, <1>9, <1>11, <2>3 DEF TablesInv
    <3> QED
      BY <1>3, <1>10, <1>14, <2>1, <3>1
  <2> QED
    BY <1>8, <1>9, <2>1, <2>2, <2>3
<1>13. CoversInv(c)'
  <2> SUFFICES ASSUME NEW k \in 1..c, NEW d, NEW x \in Alive(ret[k], d)
               PROVE  /\ d \in DOMAIN lifecycles' /\ x \in DOMAIN lifecycles'[d]
                      /\ lifecycles'[d][x][1] <= k - 1 /\ k - 1 <= lifecycles'[d][x][2]
    BY <1>2 DEF CoversInv
  <2>1. CASE k = c
    <3>1. ret[k] = s /\ k - 1 = n
      BY <1>3, <1>10, <1>14, <2>1 DEF s, n
    <3>2. d \in touched
      BY <1>5, <3>1
    <3> QED
      BY <1>8, <1>9, <3>1, <3>2
  <2>2. CASE k \in 1..n
    <3>1. /\ d \in DOMAIN lifecycles /\ x \in DOMAIN lifecycles[d]
          /\ lifecycles[d][x][1] <= k - 1 /\ k - 1 <= lifecycles[d][x][2]
      BY <1>1, <2>2 DEF CoversInv
    <3>2. old(d) = lifecycles[d]
      BY <3>1 DEF Lookup
    <3>3. /\ x \in DOMAIN lifecycles'[d] /\ lifecycles'[d][x][1] = lifecycles[d][x][1]
          /\ lifecycles[d][x][2] <= lifecycles'[d][x][2]
      BY <1>8, <3>1, <3>2
    <3>4. lifecycles[d][x][2] \in Int /\ lifecycles'[d][x][2] \in Int
      BY <1>8, <3>1, <3>3, <1>1, TablesAreFinite DEF TablesInv
    <3> QED
      BY <1>9, <2>2, <3>1, <3>3, <3>4
  <2> QED
    BY <1>3, <1>10, <1>14, <2>1, <2>2
<1>15. TablesInv(cursor - 1)' /\ CoversInv(cursor - 1)'
  BY <1>10, <1>12, <1>13, <1>14 DEF TablesInv, CoversInv
<1> QED
  BY <1>1, <1>2, <1>10, <1>15 DEF PipelineInv, n

LEMMA EndCollectStep ==
  ASSUME PipelineInv, EndCollect
  PROVE  PipelineInv'
<1>1. /\ phase = "collect" /\ phase' = "apply" /\ cursor > Len(ret)
      /\ UNCHANGED graphVars /\ UNCHANGED orderVars /\ UNCHANGED <<lifecycles, cursor, uses>>
      /\ BuildInv /\ NodesInv /\ built = Len(program.ops) /\ UsesTyped /\ OrderInv
      /\ TablesInv(cursor - 1) /\ CoversInv(cursor - 1)
      /\ cursor \in 1..(Len(program.ops) + 1) /\ devices' = DOMAIN lifecycles
  BY DEF EndCollect, PipelineInv
<1>2. /\ BuildInv' /\ NodesInv' /\ OrderInv' /\ UsesTyped' /\ program' = program /\ built' = built
  BY <1>1, SameGraph, SameOrder DEF graphVars
<1>3. cursor - 1 = Len(program.ops)
  BY <1>1, GraphFacts DEF OrderInv
<1>4. TablesInv(Len(program.ops))' /\ CoversInv(Len(program.ops))'
  <2>1. TablesInv(Len(program.ops)) /\ CoversInv(Len(program.ops))
    BY <1>1, <1>3
  <2>2. \A n : TablesInv(n)' = TablesInv(n) /\ CoversInv(n)' = CoversInv(n)
    BY <1>1, SameOrder
  <2> QED
    BY <1>2, <2>1, <2>2 DEF TablesInv, CoversInv
<1> QED
  BY <1>1, <1>2, <1>4 DEF PipelineInv

LEMMA TableNames ==
  ASSUME NEW table \in Tables
  PROVE  DOMAIN table \subseteq Name
BY DEF Tables

LEMMA BeginPlanStep ==
  ASSUME PipelineInv, NEW dev \in devices, BeginPlan(dev)
  PROVE  PipelineInv'
<1>1. /\ phase = "apply" /\ phase' = "plan" /\ devices' = devices \ {dev}
      /\ UNCHANGED graphVars /\ UNCHANGED orderVars /\ UNCHANGED <<lifecycles, cursor, uses>>
      /\ BuildInv /\ NodesInv /\ built = Len(program.ops) /\ UsesTyped /\ OrderInv
      /\ TablesInv(Len(program.ops))
      /\ lifecycles = NoEntries \/ CoversInv(Len(program.ops))
      /\ cursor \in 1..(Len(program.ops) + 1) /\ devices \subseteq DOMAIN lifecycles
  BY DEF BeginPlan, PipelineInv
<1>2. /\ BuildInv' /\ NodesInv' /\ OrderInv' /\ UsesTyped' /\ program' = program /\ built' = built
      /\ TablesInv(Len(program.ops))'
      /\ lifecycles' = NoEntries \/ CoversInv(Len(program.ops))'
  <2>1. program' = program /\ ret' = ret /\ \A s, d : Alive(s, d)' = Alive(s, d)
    BY <1>1, SameGraph DEF graphVars, orderVars
  <2>2. /\ TablesInv(Len(program.ops))'
        /\ lifecycles' = NoEntries \/ CoversInv(Len(program.ops))'
    BY <1>1, <2>1 DEF TablesInv, CoversInv
  <2> QED
    BY <1>1, <2>2, SameGraph, SameOrder DEF graphVars
<1>3. Loops!PlanInv'
  <2> DEFINE table == lifecycles[dev]
  <2>1. table \in Tables
    BY <1>1 DEF TablesInv
  <2>2. PICK order \in SetToSeqs(DOMAIN table) : Plan!Call(table, order)
    BY DEF BeginPlan
  <2>3. /\ lifetime' = table /\ mem_nodes' = order
        /\ node2cluster' = Plan!NoEntries /\ i' = 1 /\ j' = 0 /\ cluster_adj' = {}
    BY <2>2 DEF Plan!Call
  <2>4. order \in Loops!SetToSeqs(DOMAIN table)
    BY <2>2, SameSeqs
  <2>5. Len(order) \in Nat
    <3>1. Loops!IsFiniteSet(DOMAIN table)
      BY <2>1, TablesAreFinite
    <3> HIDE DEF table
    <3> QED
      BY <2>4, <3>1, DagsAreFinite, TablesAreFinite, Loops!OrderFacts
  <2> HIDE DEF table
  <2>6. DOMAIN node2cluster' = {}
    BY <2>3 DEF Plan!NoEntries
  <2>7. Loops!TypeOK'
    BY <2>1, <2>3, <2>4, <2>5, <2>6 DEF Loops!TypeOK
  <2>8. Loops!OpenClusterInv' /\ Loops!HeadsInv' /\ Loops!NoOverlapInCluster'
    BY <2>3, <2>6 DEF Loops!OpenClusterInv, Loops!HeadsInv, Loops!NoOverlapInCluster
  <2> QED
    BY <2>7, <2>8 DEF Loops!PlanInv
<1> QED
  BY <1>1, <1>2, <1>3 DEF PipelineInv

\* The plan is a substitution of names of one table.
LEMMA PlanFacts ==
  ASSUME Loops!PlanInv
  PROVE  /\ lifetime \in Tables
         /\ DOMAIN node2cluster \subseteq DOMAIN lifetime
         /\ \A x : x \notin DOMAIN lifetime => Renamed(x) = x
         /\ \A x \in DOMAIN lifetime : Renamed(x) \in DOMAIN lifetime
         /\ \A x, y \in DOMAIN lifetime : x # y /\ Renamed(x) = Renamed(y) =>
              ~Loops!Overlap(lifetime[x], lifetime[y])
<1>1. /\ lifetime \in Tables /\ DOMAIN node2cluster \subseteq DOMAIN lifetime
      /\ \A v \in DOMAIN node2cluster : node2cluster[v] \in DOMAIN lifetime
      /\ \A v \in DOMAIN node2cluster : node2cluster[v] \in DOMAIN node2cluster
  BY DEF Loops!PlanInv, Loops!TypeOK, Loops!HeadsInv
<1>2. \A x, y \in DOMAIN lifetime : x # y /\ Renamed(x) = Renamed(y) =>
        ~Loops!Overlap(lifetime[x], lifetime[y])
  BY <1>1 DEF Loops!PlanInv, Loops!NoOverlapInCluster, Renamed, Lookup
<1> QED
  BY <1>1, <1>2 DEF Renamed, Lookup

LEMMA PlanStepInv ==
  ASSUME PipelineInv, StepPlan \/ BeginPerform \/ PerformStmt \/ EndPerform \/ Generate
  PROVE  PipelineInv'
<1>1. /\ phase \in {"apply", "plan", "perform"} /\ phase' \in {"apply", "plan", "perform", "generated"}
      /\ UNCHANGED graphVars /\ UNCHANGED orderVars /\ UNCHANGED <<lifecycles, devices>>
      /\ BuildInv /\ NodesInv /\ built = Len(program.ops) /\ UsesTyped /\ OrderInv
      /\ TablesInv(Len(program.ops))
      /\ lifecycles = NoEntries \/ CoversInv(Len(program.ops))
      /\ cursor \in 1..(Len(program.ops) + 1) /\ devices \subseteq DOMAIN lifecycles
  BY DEF StepPlan, BeginPerform, PerformStmt, EndPerform, Generate, PipelineInv, passVars
<1>2. /\ BuildInv' /\ NodesInv' /\ OrderInv' /\ program' = program /\ built' = built
      /\ TablesInv(Len(program.ops))'
      /\ lifecycles' = NoEntries \/ CoversInv(Len(program.ops))'
  <2>1. program' = program /\ ret' = ret /\ \A s, d : Alive(s, d)' = Alive(s, d)
    BY <1>1, SameGraph DEF graphVars, orderVars
  <2>2. /\ TablesInv(Len(program.ops))'
        /\ lifecycles' = NoEntries \/ CoversInv(Len(program.ops))'
    BY <1>1, <2>1 DEF TablesInv, CoversInv
  <2> QED
    BY <1>1, <2>2, SameGraph, SameOrder DEF graphVars
<1>3. Len(program.ops) \in Nat
  BY <1>1, GraphFacts
<1>4. phase' \in {"plan", "perform"} => Loops!PlanInv'
  <2>1. CASE StepPlan
    BY <2>1, SameSteps, DagsAreFinite, TablesAreFinite, Loops!NextPlanInv
       DEF StepPlan, PipelineInv, Loops!Next
  <2>2. CASE BeginPerform \/ PerformStmt \/ EndPerform \/ Generate
    <3>1. phase' = "perform" => Loops!PlanInv /\ UNCHANGED planVars
      BY <2>2 DEF BeginPerform, PerformStmt, EndPerform, Generate, PipelineInv
    <3>2. UNCHANGED planVars => UNCHANGED Loops!planVars
      BY DEF planVars, Loops!planVars
    <3>3. phase' # "plan"
      BY <2>2 DEF BeginPerform, PerformStmt, EndPerform, Generate
    <3> QED
      BY <3>1, <3>2, <3>3, DagsAreFinite, TablesAreFinite, Loops!NextPlanInv
  <2> QED
    BY <2>1, <2>2
<1>5. UsesTyped' /\ cursor' \in 1..(Len(program.ops) + 1)
  <2>1. CASE PerformStmt
    <3> DEFINE s == ret[cursor]
    <3>1. /\ Loops!PlanInv /\ uses' = [uses EXCEPT ![s] = RenamedUses(s)]
          /\ cursor' = cursor + 1 /\ cursor <= Len(ret)
      BY <2>1 DEF PerformStmt, PipelineInv
    <3>2. cursor' \in 1..(Len(program.ops) + 1) /\ s \in 1..Len(program.ops)
      BY <1>1, <1>3, <3>1 DEF OrderInv
    <3>3. DOMAIN uses = 1..Len(program.ops) /\ \A t \in 1..Len(program.ops) : uses[t] \in [Links(t) -> Name]
      BY <1>1 DEF UsesTyped
    <3>4. \A x \in Name : Renamed(x) \in Name
      BY <3>1, PlanFacts, TableNames
    <3>5. RenamedUses(s) \in [Links(s) -> Name]
      BY <3>2, <3>3, <3>4 DEF RenamedUses
    <3>6. \A t \in 1..Len(program.ops) : uses'[t] \in [Links(t) -> Name]
      BY <3>1, <3>2, <3>3, <3>5
    <3>7. UsesTyped'
      <4>1. \A t : Links(t)' = Links(t)
        BY <1>1, SameGraph
      <4>2. DOMAIN uses' = 1..Len(program.ops)
        BY <3>1, <3>3
      <4> QED
        BY <1>2, <3>6, <4>1, <4>2 DEF UsesTyped
    <3> QED
      BY <3>2, <3>7
  <2>2. CASE StepPlan \/ BeginPerform \/ EndPerform \/ Generate
    <3>1. UNCHANGED <<uses>> /\ cursor' \in {cursor, 1}
      BY <2>2 DEF StepPlan, BeginPerform, EndPerform, Generate, passVars
    <3> QED
      BY <1>1, <1>3, <3>1, SameOrder
  <2> QED
    BY <2>1, <2>2
<1> QED
  BY <1>1, <1>2, <1>4, <1>5 DEF PipelineInv

LEMMA NextPipelineInv == PipelineInv /\ [PipelineNext]_pipelineVars => PipelineInv'
<1> SUFFICES ASSUME PipelineInv, [PipelineNext]_pipelineVars PROVE PipelineInv'
  OBVIOUS
<1>1. CASE PipelineNext
  BY <1>1, BuildStep, BeginSortStep, SortStepInv, CollectStep, EndCollectStep, BeginPlanStep,
     PlanStepInv DEF PipelineNext
<1>2. CASE UNCHANGED pipelineVars
  <2>1. /\ UNCHANGED graphVars /\ UNCHANGED orderVars /\ UNCHANGED planVars /\ UNCHANGED passVars
        /\ phase' = phase /\ program' = program /\ built' = built
    BY <1>2 DEF pipelineVars, graphVars
  <2>2. /\ BuildInv' = BuildInv /\ NodesInv' = NodesInv /\ AdjList' = AdjList
        /\ OrderInv' = OrderInv /\ UsesTyped' = UsesTyped
        /\ \A s, d : Alive(s, d)' = Alive(s, d)
    BY <2>1, SameGraph, SameOrder DEF passVars
  <2>3. /\ phase = "collect" => TablesInv(cursor - 1)' /\ CoversInv(cursor - 1)'
        /\ phase \in {"apply", "plan", "perform", "generated"} =>
             /\ TablesInv(Len(program.ops))'
             /\ lifecycles' = NoEntries \/ CoversInv(Len(program.ops))'
    BY <2>1, <2>2 DEF PipelineInv, TablesInv, CoversInv, passVars, orderVars
  <2>4. Loops!SortInv => Loops!SortInv'
    BY <2>1, DagsAreFinite, TablesAreFinite, Loops!NextSortInv DEF orderVars, Loops!orderVars
  <2>5. Loops!PlanInv => Loops!PlanInv'
    BY <2>1, DagsAreFinite, TablesAreFinite, Loops!NextPlanInv DEF planVars, Loops!planVars
  <2> QED
    BY <2>1, <2>2, <2>3, <2>4, <2>5 DEF PipelineInv, passVars, orderVars
<1> QED
  BY <1>1, <1>2

(* The tables of the pass speak of names and positions of the program, and *)
(* what the operators name are names, for every program, order and plan.   *)
THEOREM PipelineTypeCorrect == PipelineSpec => []PipelineTypeOK
<1>1. PipelineInv => PipelineTypeOK
  <2> SUFFICES ASSUME PipelineInv PROVE PipelineTypeOK
    OBVIOUS
  <2>1. Len(program.ops) \in Nat
    BY OpFacts DEF PipelineInv, BuildInv
  <2>2. \A d \in DOMAIN lifecycles : \A x \in DOMAIN lifecycles[d] :
          /\ lifecycles[d] \in Tables /\ lifecycles[d][x][2] < Len(program.ops)
    <3>1. phase \in {"build", "sort"} => DOMAIN lifecycles = {}
      BY DEF PipelineInv, NoEntries
    <3>2. phase \in {"apply", "plan", "perform", "generated"} => TablesInv(Len(program.ops))
      BY DEF PipelineInv
    <3>3. ASSUME phase = "collect", NEW d \in DOMAIN lifecycles, NEW x \in DOMAIN lifecycles[d]
          PROVE  lifecycles[d] \in Tables /\ lifecycles[d][x][2] < Len(program.ops)
      <4>1. /\ lifecycles[d] \in Tables /\ lifecycles[d][x][2] < cursor - 1
            /\ cursor \in 1..(Len(program.ops) + 1)
        BY <3>3 DEF PipelineInv, TablesInv
      <4>2. lifecycles[d][x][2] \in Int
        BY <4>1, TablesAreFinite
      <4> QED
        BY <2>1, <4>1, <4>2
    <3> QED
      BY <3>1, <3>2, <3>3 DEF PipelineInv, TablesInv
  <2>3. \A d \in DOMAIN lifecycles : \A x \in DOMAIN lifecycles[d] :
          /\ x \in Name
          /\ lifecycles[d][x][1] \in 0..lifecycles[d][x][2]
          /\ lifecycles[d][x][2] \in 0..(Len(program.ops) - 1)
    <3> SUFFICES ASSUME NEW d \in DOMAIN lifecycles, NEW x \in DOMAIN lifecycles[d]
                 PROVE  /\ x \in Name
                        /\ lifecycles[d][x][1] \in 0..lifecycles[d][x][2]
                        /\ lifecycles[d][x][2] \in 0..(Len(program.ops) - 1)
      OBVIOUS
    <3>1. PICK D \in SUBSET Name : lifecycles[d] \in [D -> Lifetimes]
      BY <2>2 DEF Tables
    <3>2. x \in Name /\ lifecycles[d][x] \in Lifetimes /\ lifecycles[d][x][2] < Len(program.ops)
      BY <2>2, <3>1
    <3> QED
      BY <2>1, <3>2 DEF Lifetimes
  <2>4. \A s \in DOMAIN uses : uses[s] \in [Links(s) -> Name]
    BY DEF PipelineInv, UsesTyped, NoEntries
  <2> QED
    BY <2>3, <2>4 DEF PipelineInv, PipelineTypeOK
<1> QED
  BY <1>1, InitPipelineInv, NextPipelineInv, PTL DEF PipelineSpec

-----------------------------------------------------------------------------
(* What the operators name.                                                *)

\* A node without a producer is the only one of its name.
LEMMA UnproducedIsAlone ==
  ASSUME BuildInv, NodesInv, built = Len(program.ops), OneDevice(program),
         NEW s \in 1..built, NEW t \in 1..built, NEW n \in Links(s), NEW m \in Links(t),
         n[1] = m[1], Producers(n) = {}
  PROVE  n = m
<1> DEFINE x == n[1]
<1>1. /\ DOMAIN program.ops = 1..built /\ DOMAIN inlinks = 1..built /\ DOMAIN outlinks = 1..built
      /\ GraphTypeOK
  BY GraphFacts DEF BuildInv
<1>2. \A l : \A u \in 1..built : l \in outlinks[u] => u \in Producers(l)
  BY <1>1 DEF Producers
<1>3. n \in inlinks[s]
  BY <1>2 DEF Links
<1>4. x \in program.ops[s].in
  BY <1>3 DEF NodesInv, NamesOf
<1>5. ASSUME NEW v \in 1..built, x \in program.ops[v].out PROVE FALSE
  <2>1. \E w \in 1..(s - 1) : x \in program.ops[w].out
    BY <1>1, <1>4, <1>5 DEF OneDevice
  <2>2. WritersBefore(s, x) # {}
    BY <2>1 DEF WritersBefore
  <2> QED
    BY <1>3, <2>2 DEF BuildInv, LinksInv, IsLastOf
<1>6. ASSUME NEW u \in Producers(m) PROVE FALSE
  <2>1. u \in 1..built /\ m \in outlinks[u]
    BY <1>1, <1>6 DEF Producers
  <2>2. x \in program.ops[u].out
    BY <2>1 DEF NodesInv, NamesOf
  <2> QED
    BY <1>5, <2>1, <2>2
<1>7. m \in inlinks[t]
  BY <1>2, <1>6 DEF Links
<1>8. n[2] = 0 /\ m[2] = 0
  BY <1>3, <1>6, <1>7 DEF NodesInv
<1>9. n \in ArgNode /\ m \in ArgNode
  BY <1>1, <1>3, <1>7 DEF GraphTypeOK
<1> QED
  BY <1>8, <1>9 DEF ArgNode

\* The variables of one name live on one device.
LEMMA DeviceOfName ==
  ASSUME BuildInv, NodesInv, built = Len(program.ops), OneDevice(program),
         NEW s \in 1..built, NEW t \in 1..built, NEW n \in Links(s), NEW m \in Links(t),
         n[1] = m[1]
  PROVE  DeviceOf(NodeTarget(n)) = DeviceOf(NodeTarget(m))
<1>1. DOMAIN program.ops = 1..built /\ DOMAIN outlinks = 1..built
  BY GraphFacts
<1>2. \A l : \A u \in Producers(l) : l[1] \in program.ops[u].out
  BY <1>1 DEF Producers, NodesInv, NamesOf
<1>3. CASE Producers(n) = {} \/ Producers(m) = {}
  <2>1. n = m
    BY <1>3, UnproducedIsAlone
  <2> QED
    BY <2>1
<1>4. CASE Producers(n) # {} /\ Producers(m) # {}
  <2>1. PICK p \in 1..built : p \in Producers(n) /\ NodeTarget(n) = program.ops[p].target
    BY <1>4, TargetFacts
  <2>2. PICK q \in 1..built : q \in Producers(m) /\ NodeTarget(m) = program.ops[q].target
    BY <1>4, TargetFacts
  <2>3. n[1] \in program.ops[p].out /\ n[1] \in program.ops[q].out
    BY <1>2, <2>1, <2>2
  <2> QED
    BY <1>1, <2>1, <2>2, <2>3 DEF OneDevice
<1> QED
  BY <1>3, <1>4

\* The names of two tables are not the same.
TablesApart ==
  \A d, e \in DOMAIN lifecycles : \A x : x \in DOMAIN lifecycles[d] /\ x \in DOMAIN lifecycles[e] => d = e

\* A name in the table of a device is a variable of that device.
LEMMA DeviceOfTable ==
  ASSUME PipelineInv, OneDevice(program), phase \notin {"build", "sort", "collect"},
         NEW d \in DOMAIN lifecycles, NEW s \in 1..built, NEW n \in Links(s),
         n[1] \in DOMAIN lifecycles[d]
  PROVE  d = DeviceOf(NodeTarget(n))
<1>1. /\ BuildInv /\ NodesInv /\ built = Len(program.ops) /\ OrderInv /\ TablesInv(Len(program.ops))
  BY DEF PipelineInv
<1>2. PICK k \in 1..Len(program.ops) : n[1] \in Alive(ret[k], d)
  BY <1>1 DEF TablesInv
<1>3. PICK m \in Links(ret[k]) : m[1] = n[1] /\ DeviceOf(NodeTarget(m)) = d
  BY <1>2 DEF Alive
<1>4. ret[k] \in 1..built
  BY <1>1 DEF OrderInv
<1> QED
  BY <1>1, <1>3, <1>4, DeviceOfName

LEMMA TablesAreApart ==
  ASSUME PipelineInv, OneDevice(program), phase \notin {"build", "sort", "collect"}
  PROVE  TablesApart
<1> SUFFICES ASSUME NEW d \in DOMAIN lifecycles, NEW e \in DOMAIN lifecycles, NEW x,
                    x \in DOMAIN lifecycles[d], x \in DOMAIN lifecycles[e]
             PROVE  d = e
  BY DEF TablesApart
<1>1. /\ built = Len(program.ops) /\ OrderInv /\ TablesInv(Len(program.ops))
  BY DEF PipelineInv
<1>2. PICK k \in 1..Len(program.ops) : x \in Alive(ret[k], d)
  BY <1>1 DEF TablesInv
<1>3. PICK m \in Links(ret[k]) : m[1] = x
  BY <1>2 DEF Alive
<1>4. ret[k] \in 1..built
  BY <1>1 DEF OrderInv
<1> QED
  BY <1>3, <1>4, DeviceOfTable

\* The plans performed so far are one substitution of names: it keeps what is
\* in none of their tables, stays within a table, and gives one variable to
\* names of a table only when their lifetimes do not overlap.
Fits(sub, done) ==
  /\ sub \in [Name -> Name]
  /\ \A x \in Name : (\A d \in done : x \notin DOMAIN lifecycles[d]) => sub[x] = x
  /\ \A d \in done : \A x \in DOMAIN lifecycles[d] :
       /\ sub[x] \in DOMAIN lifecycles[d]
       /\ \A y \in DOMAIN lifecycles[d] :
            x # y /\ sub[x] = sub[y] => ~Loops!Overlap(lifecycles[d][x], lifecycles[d][y])

Performed == DOMAIN lifecycles \ devices

UsesAre(sub) == \A s \in 1..Len(program.ops) : \A n \in Links(s) : uses[s][n] = sub[n[1]]

\* The statements up to the cursor have the plan at hand performed on them too.
HalfPerformed(sub) ==
  \A k \in 1..Len(program.ops) : \A n \in Links(ret[k]) :
    uses[ret[k]][n] = IF phase = "perform" /\ k < cursor THEN Renamed(sub[n[1]]) ELSE sub[n[1]]

UsesInv ==
  /\ phase \in {"sort", "collect"} => \E sub : Fits(sub, {}) /\ UsesAre(sub)
  /\ phase \in {"apply", "generated"} => \E sub : Fits(sub, Performed) /\ UsesAre(sub)
  /\ phase \in {"plan", "perform"} =>
       \E sub, d : /\ d \in Performed /\ lifetime = lifecycles[d]
                   /\ Fits(sub, Performed \ {d}) /\ HalfPerformed(sub)

LEMMA NothingPerformed ==
  ASSUME NEW sub, Fits(sub, {})
  PROVE  \A x \in Name : sub[x] = x
BY DEF Fits

\* Performing a plan composes its renaming with the substitution so far.
LEMMA ComposedFits ==
  ASSUME PipelineInv, OneDevice(program), phase = "perform", TablesApart,
         NEW sub, NEW d \in Performed, lifetime = lifecycles[d], Fits(sub, Performed \ {d})
  PROVE  Fits([x \in Name |-> Renamed(sub[x])], Performed)
<1> DEFINE new == [x \in Name |-> Renamed(sub[x])]
           others == Performed \ {d}
<1>1. /\ Loops!PlanInv /\ TablesInv(Len(program.ops)) /\ d \in DOMAIN lifecycles
  BY DEF PipelineInv, Performed
<1>2. /\ \A x : x \notin DOMAIN lifetime => Renamed(x) = x
      /\ \A x \in DOMAIN lifetime : Renamed(x) \in DOMAIN lifetime
      /\ \A x, y \in DOMAIN lifetime : x # y /\ Renamed(x) = Renamed(y) =>
           ~Loops!Overlap(lifetime[x], lifetime[y])
  BY <1>1, PlanFacts
<1>3. \A e \in DOMAIN lifecycles : DOMAIN lifecycles[e] \subseteq Name
  BY <1>1, TableNames DEF TablesInv
<1>4. \A e \in others : e \in DOMAIN lifecycles /\ e # d
  BY DEF Performed
<1>5. \A x \in DOMAIN lifetime : new[x] = Renamed(x)
  <2> SUFFICES ASSUME NEW x \in DOMAIN lifetime PROVE new[x] = Renamed(x)
    OBVIOUS
  <2>1. x \in Name /\ x \in DOMAIN lifecycles[d]
    BY <1>1, <1>3
  <2>2. \A e \in others : x \notin DOMAIN lifecycles[e]
    BY <1>1, <1>4, <2>1 DEF TablesApart
  <2> QED
    BY <2>1, <2>2 DEF Fits
<1>6. \A e \in others : \A x \in DOMAIN lifecycles[e] : new[x] = sub[x]
  <2> SUFFICES ASSUME NEW e \in others, NEW x \in DOMAIN lifecycles[e] PROVE new[x] = sub[x]
    OBVIOUS
  <2>1. x \in Name /\ sub[x] \in DOMAIN lifecycles[e]
    BY <1>3, <1>4 DEF Fits
  <2>2. sub[x] \notin DOMAIN lifetime
    BY <1>1, <1>4, <2>1 DEF TablesApart
  <2> QED
    BY <1>2, <2>1, <2>2
<1>7. ASSUME NEW x \in Name, \A e \in Performed : x \notin DOMAIN lifecycles[e]
      PROVE  new[x] = x
  <2>1. sub[x] = x /\ x \notin DOMAIN lifetime
    BY <1>7 DEF Fits
  <2> QED
    BY <1>2, <2>1
<1>8. new \in [Name -> Name]
  <2>1. \A x \in Name : Renamed(sub[x]) \in Name
    BY <1>1, <1>2, <1>3 DEF Fits
  <2> QED
    BY <2>1
<1>9. ASSUME NEW e \in Performed, NEW x \in DOMAIN lifecycles[e]
      PROVE  /\ new[x] \in DOMAIN lifecycles[e]
             /\ \A y \in DOMAIN lifecycles[e] :
                  x # y /\ new[x] = new[y] => ~Loops!Overlap(lifecycles[e][x], lifecycles[e][y])
  <2> HIDE DEF new
  <2>1. CASE e = d
    <3>1. lifecycles[e] = lifetime
      BY <2>1
    <3> QED
      BY <1>2, <1>5, <1>9, <3>1
  <2>2. CASE e \in others
    BY <1>6, <1>9, <2>2 DEF Fits
  <2> QED
    BY <1>9, <2>1, <2>2
<1>10. Fits(new, Performed)
  <2> HIDE DEF new
  <2> QED
    BY <1>7, <1>8, <1>9 DEF Fits
<1> QED
  BY <1>10

LEMMA SameUses ==
  ASSUME UNCHANGED graphVars, UNCHANGED <<uses>>
  PROVE  \A sub : UsesAre(sub)' = UsesAre(sub)
<1>1. program' = program /\ \A s : Links(s)' = Links(s)
  BY SameGraph DEF graphVars
<1> QED
  BY <1>1 DEF UsesAre

LEMMA UsesBeforePlans ==
  ASSUME PipelineInv, UsesInv, BeginSort \/ StepSort \/ EndSort \/ CollectStmt \/ EndCollect
  PROVE  UsesInv'
<1>1. BuildInv /\ NodesInv
  BY DEF PipelineInv
<1>2. CASE BeginSort
  <2> DEFINE sub == [x \in Name |-> x]
  <2>1. /\ phase' = "sort" /\ UNCHANGED graphVars /\ built = Len(program.ops)
        /\ uses' = [s \in DOMAIN inlinks |-> [n \in Links(s) |-> n[1]]]
    BY <1>2 DEF BeginSort, GraphBuilt
  <2>2. \A s \in 1..Len(program.ops) : \A n \in Links(s) : uses'[s][n] = sub[n[1]]
    BY <1>1, <2>1, GraphFacts
  <2>3. program' = program /\ \A s : Links(s)' = Links(s)
    BY <2>1, SameGraph DEF graphVars
  <2>4. Fits(sub, {})'
    BY DEF Fits
  <2>5. UsesAre(sub)'
    <3> HIDE DEF sub
    <3> QED
      BY <2>2, <2>3 DEF UsesAre
  <2> QED
    BY <2>1, <2>4, <2>5 DEF UsesInv
<1>3. CASE StepSort \/ EndSort \/ CollectStmt \/ EndCollect
  <2>1. /\ phase \in {"sort", "collect"} /\ phase' \in {"sort", "collect", "apply"}
        /\ UNCHANGED graphVars /\ UNCHANGED <<uses>>
    BY <1>3 DEF StepSort, EndSort, CollectStmt, EndCollect, passVars
  <2>2. PICK sub : Fits(sub, {}) /\ UsesAre(sub)
    BY <2>1 DEF UsesInv
  <2>3. Fits(sub, {})' /\ UsesAre(sub)'
    <3>1. Fits(sub, {})'
      BY <2>2 DEF Fits
    <3> QED
      BY <2>1, <2>2, <3>1, SameUses
  <2>4. phase' = "apply" => Performed' = {}
    BY <1>3 DEF StepSort, EndSort, CollectStmt, EndCollect, PipelineInv, Performed, NoEntries, passVars
  <2> QED
    BY <2>1, <2>3, <2>4 DEF UsesInv
<1> QED
  BY <1>2, <1>3

LEMMA UsesInPlans ==
  ASSUME PipelineInv, UsesInv,
         StepPlan \/ BeginPerform \/ PerformStmt \/ \E dev \in devices : BeginPlan(dev)
  PROVE  UsesInv'
<1>1. /\ phase' \in {"plan", "perform"} /\ UNCHANGED graphVars /\ UNCHANGED orderVars
      /\ UNCHANGED <<lifecycles>> /\ OrderInv /\ UsesTyped /\ cursor \in 1..(Len(program.ops) + 1)
  BY DEF StepPlan, BeginPerform, PerformStmt, BeginPlan, passVars, PipelineInv
<1>2. /\ program' = program /\ ret' = ret /\ \A s : Links(s)' = Links(s)
  BY <1>1, SameGraph DEF graphVars, orderVars
<1>3. ASSUME NEW dev \in devices, BeginPlan(dev) PROVE UsesInv'
  <2>1. /\ phase = "apply" /\ phase' = "plan" /\ devices' = devices \ {dev}
        /\ lifetime' = lifecycles[dev] /\ uses' = uses
    BY <1>3 DEF BeginPlan, Plan!Call
  <2>2. PICK sub : Fits(sub, Performed) /\ UsesAre(sub)
    BY <2>1 DEF UsesInv
  <2>3. dev \in Performed' /\ Performed' \ {dev} = Performed
    BY <1>1, <1>3, <2>1 DEF Performed, PipelineInv
  <2>4. lifecycles' = lifecycles
    BY <1>1
  <2>5. Fits(sub, Performed \ {dev})'
    BY <2>2, <2>3, <2>4 DEF Fits
  <2>6. HalfPerformed(sub)'
    <3> SUFFICES ASSUME NEW k \in 1..Len(program.ops), NEW n \in Links(ret[k])
                 PROVE  uses[ret[k]][n] = sub[n[1]]
      BY <1>2, <2>1 DEF HalfPerformed
    <3>1. ret[k] \in 1..Len(program.ops)
      BY <1>1 DEF OrderInv
    <3> QED
      BY <2>2, <3>1 DEF UsesAre
  <2>7. lifetime' = lifecycles'[dev]
    BY <1>1, <2>1
  <2> QED
    BY <2>1, <2>3, <2>5, <2>6, <2>7 DEF UsesInv
<1>4. CASE StepPlan \/ BeginPerform \/ PerformStmt
  <2>1. /\ phase \in {"plan", "perform"} /\ UNCHANGED <<devices>> /\ UNCHANGED <<lifetime>>
    BY <1>4 DEF StepPlan, BeginPerform, PerformStmt, passVars, planVars, Plan!PlanStep,
         Plan!SkipNode, Plan!OpenCluster, Plan!JoinCluster, Plan!PassOver, Plan!CloseCluster
  <2>2. PICK sub, d : /\ d \in Performed /\ lifetime = lifecycles[d]
                      /\ Fits(sub, Performed \ {d}) /\ HalfPerformed(sub)
    BY <2>1 DEF UsesInv
  <2>3. Performed' = Performed
    BY <1>1, <2>1 DEF Performed
  <2>4. Fits(sub, Performed \ {d})'
    <3>1. lifecycles' = lifecycles
      BY <1>1
    <3> QED
      BY <2>2, <2>3, <3>1 DEF Fits
  <2>5. HalfPerformed(sub)'
    <3>1. CASE StepPlan
      BY <1>2, <2>2, <3>1 DEF StepPlan, HalfPerformed, passVars
    <3>2. CASE BeginPerform
      BY <1>2, <2>2, <3>2 DEF BeginPerform, HalfPerformed
    <3>3. CASE PerformStmt
      <4> DEFINE s == ret[cursor]
      <4>1. /\ phase = "perform" /\ phase' = "perform" /\ cursor <= Len(ret)
            /\ uses' = [uses EXCEPT ![s] = RenamedUses(s)] /\ cursor' = cursor + 1
            /\ UNCHANGED planVars
        BY <3>3 DEF PerformStmt
      <4>2. \A x : Renamed(x)' = Renamed(x)
        BY <4>1 DEF planVars, Renamed
      <4>3. /\ cursor \in 1..Len(program.ops) /\ s \in 1..Len(program.ops)
            /\ Len(ret) = Len(program.ops) /\ Len(program.ops) \in Nat
        BY <1>1, <4>1, GraphFacts DEF OrderInv, PipelineInv
      <4>4. DOMAIN uses = 1..Len(program.ops) /\ DOMAIN uses[s] = Links(s)
        BY <1>1, <4>3 DEF UsesTyped
      <4>5. ASSUME NEW k \in 1..Len(program.ops), NEW n \in Links(ret[k])
            PROVE  uses'[ret[k]][n] = IF k < cursor' THEN Renamed(sub[n[1]]) ELSE sub[n[1]]
        <5>1. ret[k] \in 1..Len(program.ops)
          BY <1>1 DEF OrderInv
        <5>2. uses[ret[k]][n] = IF k < cursor THEN Renamed(sub[n[1]]) ELSE sub[n[1]]
          BY <2>2, <4>1 DEF HalfPerformed
        <5>3. CASE k = cursor
          <6>1. uses'[ret[k]][n] = Renamed(uses[s][n])
            BY <4>1, <4>4, <5>1, <5>3 DEF RenamedUses
          <6> QED
            BY <4>1, <4>3, <5>2, <5>3, <6>1
        <5>4. CASE k # cursor
          <6>1. ret[k] # s
            BY <1>1, <4>3, <5>4 DEF OrderInv
          <6>2. uses'[ret[k]] = uses[ret[k]]
            BY <4>1, <4>4, <5>1, <6>1
          <6>3. k < cursor' <=> k < cursor
            BY <4>1, <4>3, <5>4
          <6> QED
            BY <5>2, <6>2, <6>3
        <5> QED
          BY <5>3, <5>4
      <4> HIDE DEF s
      <4> QED
        BY <1>2, <4>1, <4>2, <4>5 DEF HalfPerformed
    <3> QED
      BY <1>4, <3>1, <3>2, <3>3
  <2>6. lifetime' = lifecycles'[d]
    BY <1>1, <2>1, <2>2
  <2> QED
    BY <1>1, <2>2, <2>3, <2>4, <2>5, <2>6 DEF UsesInv
<1> QED
  BY <1>3, <1>4

LEMMA UsesAfterPlans ==
  ASSUME PipelineInv, OneDevice(program), UsesInv, EndPerform \/ Generate
  PROVE  UsesInv'
<1>1. /\ phase' \in {"apply", "generated"} /\ UNCHANGED graphVars /\ UNCHANGED <<lifecycles, devices, uses>>
  BY DEF EndPerform, Generate, passVars
<1>2. /\ Performed' = Performed /\ lifecycles' = lifecycles
      /\ \A sub : UsesAre(sub)' = UsesAre(sub)
  BY <1>1, SameUses DEF Performed
<1>3. \E sub : Fits(sub, Performed) /\ UsesAre(sub)
  <2>1. CASE EndPerform
    <3>1. /\ phase = "perform" /\ cursor > Len(ret) /\ OrderInv /\ cursor \in 1..(Len(program.ops) + 1)
      BY <2>1 DEF EndPerform, PipelineInv
    <3>2. PICK sub, d : /\ d \in Performed /\ lifetime = lifecycles[d]
                        /\ Fits(sub, Performed \ {d}) /\ HalfPerformed(sub)
      BY <3>1 DEF UsesInv
    <3> DEFINE new == [x \in Name |-> Renamed(sub[x])]
    <3>3. TablesApart
      BY <3>1, TablesAreApart
    <3>4. Fits(new, Performed)
      BY <3>1, <3>2, <3>3, ComposedFits
    <3>5. UsesAre(new)
      <4>1. Len(program.ops) \in Nat /\ \A s \in 1..Len(program.ops) : \A n \in Links(s) : n[1] \in Name
        BY <3>1, GraphFacts DEF PipelineInv
      <4>2. ASSUME NEW s \in 1..Len(program.ops), NEW n \in Links(s)
            PROVE  uses[s][n] = Renamed(sub[n[1]])
        <5>1. PICK k \in 1..Len(program.ops) : ret[k] = s
          BY <3>1 DEF OrderInv
        <5>2. k < cursor
          BY <3>1, <4>1 DEF OrderInv
        <5> QED
          BY <3>1, <3>2, <5>1, <5>2 DEF HalfPerformed
      <4> QED
        BY <4>1, <4>2 DEF UsesAre
    <3> HIDE DEF new
    <3> QED
      BY <3>4, <3>5
  <2>2. CASE Generate
    BY <2>2 DEF Generate, UsesInv
  <2> QED
    BY <2>1, <2>2
<1>4. PICK sub : Fits(sub, Performed) /\ UsesAre(sub)
  BY <1>3
<1>5. Fits(sub, Performed)' /\ UsesAre(sub)'
  <2>1. Fits(sub, Performed)'
    BY <1>2, <1>4 DEF Fits
  <2> QED
    BY <1>2, <1>4, <2>1
<1> QED
  BY <1>1, <1>5 DEF UsesInv

LEMMA InitUsesInv == PipelineInit => UsesInv
BY DEF PipelineInit, UsesInv

LEMMA NextUsesInv ==
  PipelineInv /\ OneDevice(program) /\ UsesInv /\ [PipelineNext]_pipelineVars => UsesInv'
<1> SUFFICES ASSUME PipelineInv, OneDevice(program), UsesInv, [PipelineNext]_pipelineVars
             PROVE  UsesInv'
  OBVIOUS
<1>1. CASE BuildGraph
  BY <1>1 DEF BuildGraph, UsesInv
<1>2. CASE UNCHANGED pipelineVars
  <2>1. /\ UNCHANGED graphVars /\ UNCHANGED <<phase, lifecycles, devices, uses, lifetime, node2cluster, cursor, ret>>
    BY <1>2 DEF pipelineVars, passVars, planVars, orderVars
  <2>2. program' = program /\ \A s : Links(s)' = Links(s)
    BY <2>1, SameGraph DEF graphVars
  <2>3. /\ \A sub : UsesAre(sub)' = UsesAre(sub)
        /\ \A sub : HalfPerformed(sub)' = HalfPerformed(sub)
        /\ Performed' = Performed
    BY <2>1, <2>2 DEF UsesAre, HalfPerformed, Performed, Renamed
  <2> QED
    BY <2>1, <2>3 DEF UsesInv, Fits
<1> QED
  BY <1>1, <1>2, UsesBeforePlans, UsesInPlans, UsesAfterPlans DEF PipelineNext

\* Names that share a variable in the end are in one table, with lifetimes
\* that do not overlap.
LEMMA SharedNames ==
  ASSUME PipelineInv, OneDevice(program), UsesInv, phase = "generated",
         NEW s \in 1..built, NEW t \in 1..built, NEW n \in Links(s), NEW m \in Links(t),
         n[1] # m[1], uses[s][n] = uses[t][m]
  PROVE  \E d \in DOMAIN lifecycles :
           /\ n[1] \in DOMAIN lifecycles[d] /\ m[1] \in DOMAIN lifecycles[d]
           /\ ~Loops!Overlap(lifecycles[d][n[1]], lifecycles[d][m[1]])
<1>1. /\ BuildInv /\ NodesInv /\ built = Len(program.ops) /\ TablesApart
      /\ n[1] \in Name /\ m[1] \in Name
  BY GraphFacts, TablesAreApart DEF PipelineInv
<1>2. PICK sub : Fits(sub, Performed) /\ UsesAre(sub)
  BY DEF UsesInv
<1>3. sub[n[1]] = sub[m[1]]
  BY <1>1, <1>2 DEF UsesAre
<1>4. \A d \in Performed : d \in DOMAIN lifecycles
  BY DEF Performed
<1>5. PICK d \in Performed : n[1] \in DOMAIN lifecycles[d] \/ m[1] \in DOMAIN lifecycles[d]
  BY <1>1, <1>2, <1>3 DEF Fits
<1>6. n[1] \in DOMAIN lifecycles[d]
  <2> SUFFICES ASSUME m[1] \in DOMAIN lifecycles[d], n[1] \notin DOMAIN lifecycles[d] PROVE FALSE
    BY <1>5
  <2>1. sub[n[1]] \in DOMAIN lifecycles[d]
    BY <1>2, <1>3, <1>5 DEF Fits
  <2>2. CASE \E e \in Performed : n[1] \in DOMAIN lifecycles[e]
    BY <1>1, <1>2, <1>4, <1>5, <2>1, <2>2 DEF Fits, TablesApart
  <2>3. CASE \A e \in Performed : n[1] \notin DOMAIN lifecycles[e]
    BY <1>1, <1>2, <2>1, <2>3 DEF Fits
  <2> QED
    BY <2>2, <2>3
<1>7. m[1] \in DOMAIN lifecycles[d]
  <2> SUFFICES ASSUME n[1] \in DOMAIN lifecycles[d], m[1] \notin DOMAIN lifecycles[d] PROVE FALSE
    BY <1>5
  <2>1. sub[m[1]] \in DOMAIN lifecycles[d]
    BY <1>2, <1>3, <1>5 DEF Fits
  <2>2. CASE \E e \in Performed : m[1] \in DOMAIN lifecycles[e]
    BY <1>1, <1>2, <1>4, <1>5, <2>1, <2>2 DEF Fits, TablesApart
  <2>3. CASE \A e \in Performed : m[1] \notin DOMAIN lifecycles[e]
    BY <1>1, <1>2, <2>1, <2>3 DEF Fits
  <2> QED
    BY <2>2, <2>3
<1> QED
  BY <1>2, <1>3, <1>4, <1>5, <1>6, <1>7 DEF Fits

\* A program that has the property stays the program.
LEMMA SameProgram == PipelineInv /\ [PipelineNext]_pipelineVars => program' = program
BY DEF PipelineNext, BuildGraph, BuildOp, BeginSort, StepSort, EndSort, CollectStmt, EndCollect,
       BeginPlan, StepPlan, BeginPerform, PerformStmt, EndPerform, Generate, pipelineVars, graphVars

(* When a name is written on one device, arguments that come to share a    *)
(* variable live on one device, whatever the order and the plans: the      *)
(* lifetimes are collected by device and each device has a plan of its own.*)
THEOREM SharesWithinDevice ==
  ASSUME \A p \in Programs : OneDevice(p)
  PROVE  PipelineSpec => []SameDeviceOnly
<1> DEFINE Inv == PipelineInv /\ UsesInv
<1>1. PipelineInv => OneDevice(program)
  BY DEF PipelineInv, BuildInv, GraphTypeOK
<1>2. Inv => SameDeviceOnly
  <2> SUFFICES ASSUME PipelineInv, UsesInv, phase = "generated",
                      NEW s \in DOMAIN uses, NEW t \in DOMAIN uses,
                      NEW n \in outlinks[s], NEW m \in outlinks[t],
                      uses[s][n] = uses[t][m], n[1] # m[1]
               PROVE  NodeTarget(n) = NodeTarget(m) \/ {NodeTarget(n), NodeTarget(m)} \subseteq HostTargets
    BY DEF SameDeviceOnly
  <2>1. s \in 1..built /\ t \in 1..built /\ n \in Links(s) /\ m \in Links(t)
    BY DEF PipelineInv, UsesTyped, Links
  <2>2. PICK d \in DOMAIN lifecycles : n[1] \in DOMAIN lifecycles[d] /\ m[1] \in DOMAIN lifecycles[d]
    BY <1>1, <2>1, SharedNames
  <2>3. DeviceOf(NodeTarget(n)) = DeviceOf(NodeTarget(m))
    BY <1>1, <2>1, <2>2, DeviceOfTable
  <2> QED
    BY <2>3 DEF DeviceOf, HostTargets
<1>3. PipelineInit => Inv
  BY InitPipelineInv, InitUsesInv
<1>4. Inv /\ [PipelineNext]_pipelineVars => Inv'
  BY <1>1, NextPipelineInv, NextUsesInv
<1> QED
  BY <1>2, <1>3, <1>4, PTL DEF PipelineSpec

-----------------------------------------------------------------------------
(* The runs.                                                               *)

\* The position of a statement in the order.
At(s) == CHOOSE k \in 1..Len(program.ops) : ret[k] = s

\* The instructions of this run, or of the one that has ended, that have run.
Ran == IF inst > 0 THEN inst - 1 ELSE IF runs > 0 THEN Len(program.ops) ELSE 0

\* A node whose value outlives a run, and one that has its value in this run.
Lasts(n) == IsWeight(n) \/ \E p \in Producers(n) : TypeOf(p) \in RunOnce
Available(n) ==
  \/ IsWeight(n)
  \/ \E p \in Producers(n) : At(p) <= Ran \/ (TypeOf(p) \in RunOnce /\ p \in has_run)

HistoryInv ==
  /\ has_run \subseteq 1..Len(program.ops)
  /\ \A k \in 1..Ran : ret[k] \in has_run
  /\ \A k, l \in 1..Len(program.ops) : k < l /\ ret[l] \in has_run => ret[k] \in has_run

\* A variable holds a buffer of its own, but for what a feed has written.
BufferInv ==
  /\ DOMAIN buffer = Name
  /\ DOMAIN contents = Name \cup {FeedItem(s) : s \in OfType("feed")}
  /\ \A x \in Name :
       \/ buffer[x] = x
       \/ \E f \in OfType("feed") : x \in program.ops[f].out /\ buffer[x] = FeedItem(f)
  /\ \A f \in OfType("feed") \cap has_run : \A x \in program.ops[f].out : buffer[x] = FeedItem(f)

FeedInv == runs > 0 => \A f \in OfType("feed") : outlinks[f] \subseteq contents[FeedItem(f)]

FetchInv ==
  /\ DOMAIN fetch_list = OfType("fetch") \cap has_run
  /\ \A s \in DOMAIN fetch_list : \A n \in inlinks[s] : fetch_list[s] = BufferOf(s, n)

\* What has its value and is still to be read, or is to last, is in its place.
LiveInv ==
  \A s \in Stmts : TypeOf(s) # "feed" => \A n \in inlinks[s] :
    Available(n) /\ (At(s) > Ran \/ TypeOf(s) = "fetch" \/ Lasts(n)) => n \in contents[BufferOf(s, n)]

RuntimeInv ==
  /\ runs \in Nat
  /\ buffer = NoEntries => inst = 0 /\ runs = 0 /\ has_run = {} /\ fetch_list = NoEntries
  /\ buffer # NoEntries =>
       /\ phase = "generated" /\ inst \in 0..Len(program.ops) /\ (inst > 0 => runs > 0)
       /\ HistoryInv /\ BufferInv /\ FeedInv /\ FetchInv /\ LiveInv

\* The program is generated, and one the pipeline is right for.
Generated == PipelineInv /\ UsesInv /\ phase = "generated" /\ Sound(program)

LEMMA GeneratedFacts ==
  ASSUME Generated
  PROVE  LET N == Len(program.ops) IN
         /\ N \in Nat /\ built = N /\ DOMAIN program.ops = 1..N /\ Stmts = 1..N
         /\ DOMAIN inlinks = 1..N /\ DOMAIN outlinks = 1..N
         /\ \A s \in 1..N : \A n \in Links(s) : n[1] \in Name /\ uses[s][n] \in Name
         /\ \A s \in 1..N : \A n \in inlinks[s] : n[1] \in program.ops[s].in
         /\ \A s \in 1..N : \A n \in outlinks[s] : n[1] \in program.ops[s].out
         /\ \A s \in 1..N : \A x \in program.ops[s].in : \E n \in inlinks[s] : n[1] = x
         /\ \A s \in 1..N : \A x \in program.ops[s].out : \E n \in outlinks[s] : n[1] = x
         /\ \A n : \A p \in Producers(n) : p \in 1..N /\ n \in outlinks[p]
         /\ \A p \in 1..N : \A n \in outlinks[p] : Producers(n) = {p}
<1> DEFINE N == Len(program.ops)
<1>1. BuildInv /\ NodesInv /\ built = N /\ UsesTyped
  BY DEF Generated, PipelineInv
<1>2. /\ N \in Nat /\ DOMAIN program.ops = 1..N /\ DOMAIN inlinks = 1..N /\ DOMAIN outlinks = 1..N
      /\ \A s \in 1..N : \A n \in Links(s) : n[1] \in Name
  BY <1>1, GraphFacts
<1>3. \A s \in 1..N : \A n \in Links(s) : uses[s][n] \in Name
  BY <1>1 DEF UsesTyped
<1>4. /\ \A s \in 1..N : \A n \in inlinks[s] : n[1] \in program.ops[s].in
      /\ \A s \in 1..N : \A n \in outlinks[s] : n[1] \in program.ops[s].out
      /\ \A s \in 1..N : \A x \in program.ops[s].in : \E n \in inlinks[s] : n[1] = x
      /\ \A s \in 1..N : \A x \in program.ops[s].out : \E n \in outlinks[s] : n[1] = x
  BY <1>1 DEF NodesInv, NamesOf
<1>5. /\ \A n : \A p \in Producers(n) : p \in 1..N /\ n \in outlinks[p]
      /\ \A p \in 1..N : \A n \in outlinks[p] : p \in Producers(n)
  BY <1>2 DEF Producers
<1>6. \A p \in 1..N : \A n \in outlinks[p] : Producers(n) = {p}
  BY <1>1, <1>5 DEF NodesInv
<1> QED
  BY <1>1, <1>2, <1>3, <1>4, <1>5, <1>6 DEF Stmts

LEMMA Places ==
  ASSUME Generated
  PROVE  LET N == Len(program.ops) IN
         /\ \A s \in 1..N : At(s) \in 1..N /\ ret[At(s)] = s
         /\ \A k \in 1..N : ret[k] \in 1..N /\ At(ret[k]) = k
         /\ \A s \in 1..N : \A n \in inlinks[s] : \A p \in Producers(n) : At(p) < At(s)
         /\ Len(ret) = N
<1> DEFINE N == Len(program.ops)
<1>1. OrderInv /\ N \in Nat /\ DOMAIN inlinks = 1..N
  BY GeneratedFacts DEF Generated, PipelineInv
<1>2. \A s \in 1..N : At(s) \in 1..N /\ ret[At(s)] = s
  BY <1>1 DEF OrderInv, At
<1>3. \A k \in 1..N : ret[k] \in 1..N /\ At(ret[k]) = k
  BY <1>1, <1>2 DEF OrderInv
<1>4. ASSUME NEW s \in 1..N, NEW n \in inlinks[s], NEW p \in Producers(n)
      PROVE  At(p) < At(s)
  <2>1. p \in AdjList[s]
    BY <1>1 DEF AdjList
  <2>2. At(s) \in 1..N /\ ret[At(s)] = s
    BY <1>2
  <2>3. PICK l \in 1..(At(s) - 1) : ret[l] = p
    BY <1>1, <2>1, <2>2 DEF OrderInv
  <2>4. l \in 1..N /\ l < At(s)
    BY <1>1, <2>2, <2>3
  <2> QED
    BY <1>3, <2>3, <2>4
<1> QED
  BY <1>1, <1>2, <1>3, <1>4 DEF OrderInv

\* The producer of what is read is the last writer of the name before.
LEMMA ProducerFacts ==
  ASSUME Generated, NEW s \in 1..Len(program.ops), NEW n \in inlinks[s]
  PROVE  /\ \A p \in Producers(n) :
              /\ p < s /\ n[1] \in program.ops[p].out
              /\ \A u \in 1..(s - 1) : n[1] \in program.ops[u].out => u <= p
         /\ TypeOf(s) # "feed" /\ ~IsWeight(n) => \E p \in Producers(n) : TRUE
<1>1. IsLastOf(Producers(n), WritersBefore(s, n[1]))
  BY DEF Generated, PipelineInv, BuildInv, LinksInv
<1>2. Len(program.ops) \in Nat /\ DOMAIN program.ops = 1..Len(program.ops) /\ n[1] \in program.ops[s].in
      /\ n[1] \in Name
  BY GeneratedFacts DEF Links
<1>3. TypeOf(s) # "feed" /\ ~IsWeight(n) => WritersBefore(s, n[1]) # {}
  BY <1>2 DEF Generated, Sound, ReadsWritten, TypeOf, IsWeight, WritersBefore
<1>4. \A p \in Producers(n) : /\ p \in 1..(s - 1) /\ n[1] \in program.ops[p].out
                              /\ \A u \in WritersBefore(s, n[1]) : u <= p
  BY <1>1 DEF IsLastOf, WritersBefore
<1>5. \A u \in 1..(s - 1) : n[1] \in program.ops[u].out => u \in WritersBefore(s, n[1])
  BY DEF WritersBefore
<1> QED
  BY <1>1, <1>2, <1>3, <1>4, <1>5 DEF IsLastOf

\* A set of positions that is not empty has a first one.
LEMMA FirstOf ==
  ASSUME NEW S, S \subseteq Nat, S # {}
  PROVE  \E k \in S : \A l \in S : k <= l
<1> DEFINE R == {p \in Nat \X Nat : p[1] < p[2]}
<1>1. IsWellFoundedOn(R, Nat)
  BY NatLessThanWellFounded, Zenon DEF OpToRel
<1>2. \A k, l \in Nat : <<l, k>> \notin R => k <= l
  OBVIOUS
<1> HIDE DEF R
<1>3. \E k \in S : \A l \in S : <<l, k>> \notin R
  BY <1>1, WFMin
<1> QED
  BY <1>2, <1>3

\* The writers of a variable run in the order of the program.
LEMMA WritersInOrder ==
  ASSUME Generated,
         NEW w \in 1..Len(program.ops), NEW s \in 1..Len(program.ops), w < s, TypeOf(s) # "fetch",
         NEW x \in Name, x \in program.ops[w].out, x \in program.ops[s].out
  PROVE  At(w) < At(s)
<1> DEFINE N == Len(program.ops)
           S == {u \in 1..N : w < u /\ TypeOf(u) # "fetch" /\ x \in program.ops[u].out /\ ~(At(w) < At(u))}
<1> SUFFICES ASSUME S # {} PROVE FALSE
  OBVIOUS
<1>1. N \in Nat /\ S \subseteq Nat /\ DOMAIN program.ops = 1..N
  BY GeneratedFacts
<1>2. PICK u \in S : \A v \in S : u <= v
  BY <1>1, FirstOf
<1>3. /\ u \in 1..N /\ w < u /\ TypeOf(u) # "fetch" /\ x \in program.ops[u].out /\ ~(At(w) < At(u))
  BY <1>2
<1>4. x \in program.ops[u].in
  BY <1>1, <1>3 DEF Generated, Sound, OverwrittenByReader, TypeOf
<1>5. PICK n \in inlinks[u] : n[1] = x
  BY <1>3, <1>4, GeneratedFacts
<1>6. WritersBefore(u, x) # {}
  BY <1>1, <1>3 DEF WritersBefore
<1>7. \E p \in Producers(n) : TRUE
  BY <1>3, <1>5, <1>6 DEF Generated, PipelineInv, BuildInv, LinksInv, IsLastOf
<1>8. PICK p \in Producers(n) : TRUE
  BY <1>7
<1>9. p \in 1..N /\ p < u /\ x \in program.ops[p].out /\ w <= p
  BY <1>1, <1>3, <1>5, ProducerFacts, GeneratedFacts
<1>10. At(p) < At(u) /\ At(p) \in 1..N /\ At(u) \in 1..N /\ At(w) \in 1..N
  BY <1>3, <1>5, <1>9, Places
<1>11. CASE p = w
  BY <1>3, <1>10, <1>11
<1>12. CASE w < p
  <2>1. TypeOf(p) # "fetch"
    BY <1>1, <1>3, <1>9 DEF Generated, Sound, ReadsWritten, TypeOf
  <2>2. p \notin S
    BY <1>1, <1>2, <1>9
  <2>3. At(w) < At(p)
    BY <1>9, <1>12, <2>1, <2>2
  <2> QED
    BY <1>1, <1>3, <1>10, <2>3
<1> QED
  BY <1>1, <1>9, <1>11, <1>12

\* A variable is overwritten after what it held is read, or by its reader.
LEMMA ReadersBeforeWriter ==
  ASSUME Generated,
         NEW s \in 1..Len(program.ops), NEW n \in inlinks[s], NEW p \in Producers(n),
         NEW t \in 1..Len(program.ops), p < t, TypeOf(t) # "fetch", n[1] \in program.ops[t].out
  PROVE  At(s) <= At(t)
<1> DEFINE N == Len(program.ops)
           x == n[1]
           S == {u \in s..(t - 1) : x \in program.ops[u].out}
<1>1. /\ N \in Nat /\ DOMAIN program.ops = 1..N /\ x \in Name /\ x \in program.ops[s].in
      /\ p \in 1..N /\ At(s) \in 1..N /\ At(t) \in 1..N
  BY GeneratedFacts, Places DEF Links
<1>2. s <= t
  BY <1>1, ProducerFacts
<1>3. CASE s = t
  BY <1>1, <1>3
<1>4. CASE s < t
  <2>1. \E u \in s..(t - 1) : x \in program.ops[u].out
    <3>1. s \in 1..(t - 1)
      BY <1>1, <1>4
    <3> QED
      BY <1>1, <3>1 DEF Generated, Sound, OverwrittenByReader, TypeOf
  <2>2. S \subseteq Nat /\ S # {}
    BY <1>1, <2>1
  <2>3. PICK u \in S : \A v \in S : u <= v
    BY <2>2, FirstOf
  <2>4. u \in 1..N /\ s <= u /\ u < t /\ x \in program.ops[u].out
    BY <1>1, <2>3
  <2>5. TypeOf(u) # "fetch"
    BY <1>1, <2>4 DEF Generated, Sound, ReadsWritten, TypeOf
  <2>6. u = s
    <3> SUFFICES ASSUME s < u PROVE FALSE
      BY <1>1, <2>4
    <3>1. s \in 1..(u - 1)
      BY <1>1, <2>4
    <3>2. PICK v \in s..(u - 1) : x \in program.ops[v].out
      BY <1>1, <2>4, <2>5, <3>1 DEF Generated, Sound, OverwrittenByReader, TypeOf
    <3>3. v \in s..(t - 1) /\ ~(u <= v)
      BY <1>1, <2>4
    <3> QED
      BY <2>3, <3>2, <3>3
  <2>7. At(s) < At(t)
    BY <1>1, <1>4, <2>4, <2>6, WritersInOrder
  <2> QED
    BY <1>1, <2>7
<1> QED
  BY <1>1, <1>2, <1>3, <1>4

\* A name of a table: every statement that names it is one the pass looks at,
\* and is within the lifetime.
LEMMA TableNodes ==
  ASSUME Generated, NEW d \in DOMAIN lifecycles, NEW s \in 1..Len(program.ops), NEW l \in Links(s),
         l[1] \in DOMAIN lifecycles[d]
  PROVE  /\ TypeOf(s) \notin InvalidOp /\ ~IsWeight(l) /\ ~IsPersist(l)
         /\ lifecycles[d][l[1]][1] <= At(s) - 1 /\ At(s) - 1 <= lifecycles[d][l[1]][2]
<1> DEFINE N == Len(program.ops)
           x == l[1]
<1>1. /\ BuildInv /\ NodesInv /\ built = N /\ TablesInv(N) /\ OneDevice(program)
      /\ CoversInv(N) /\ N \in Nat /\ PipelineInv
  <2>1. d \notin DOMAIN NoEntries
    BY DEF NoEntries
  <2>2. lifecycles # NoEntries
    BY <2>1
  <2> QED
    BY <2>2, GeneratedFacts DEF Generated, PipelineInv, Sound
<1>2. PICK k \in 1..N : x \in Alive(ret[k], d)
  BY <1>1 DEF TablesInv
<1>3. PICK m \in Links(ret[k]) : m[1] = x /\ Collected(m)
  BY <1>2 DEF Alive
<1>4. ret[k] \in 1..N
  BY Places
<1>5. ~IsWeight(l) /\ ~IsPersist(l)
  BY <1>3 DEF Collected, IsWeight, IsPersist
<1>6. \A u \in Producers(l) \cup Consumers(l) : TypeOf(u) \notin InvalidOp
  <2>1. CASE l = m
    BY <1>3, <2>1 DEF Collected, ValidVar
  <2>2. CASE l # m
    <3>1. Producers(l) # {} /\ Producers(m) # {}
      BY <1>1, <1>3, <1>4, <2>2, UnproducedIsAlone
    <3>2. PICK p \in Producers(l), q \in Producers(m) : TRUE
      BY <3>1
    <3>3. /\ p \in 1..N /\ q \in 1..N /\ l \in outlinks[p] /\ m \in outlinks[q]
          /\ x \in program.ops[p].out /\ x \in program.ops[q].out
      BY <1>3, <3>2, GeneratedFacts
    <3>4. p # q
      BY <1>1, <1>3, <2>2, <3>3 DEF NodesInv, NamesApart
    <3>5. TypeOf(q) # "fetch" /\ DOMAIN program.ops = 1..N /\ x \in Name
      BY <1>3, <3>2, <3>3, GeneratedFacts DEF Collected, ValidVar, InvalidOp, Links
    <3>6. TypeOf(p) # "fetch"
      BY <3>3, <3>5 DEF Generated, Sound, ReadsWritten, TypeOf
    <3>7. p \in 1..(q - 1) \/ q \in 1..(p - 1)
      BY <1>1, <3>3, <3>4
    <3>8. \A u \in 1..N : x \in program.ops[u].in \cup program.ops[u].out => TypeOf(u) \notin InvalidOp
      BY <3>3, <3>5, <3>6, <3>7 DEF Generated, Sound, OverwrittenByReader, TypeOf
    <3>9. \A u \in Producers(l) \cup Consumers(l) : u \in 1..N /\ x \in program.ops[u].in \cup program.ops[u].out
      BY GeneratedFacts DEF Consumers
    <3> QED
      BY <3>8, <3>9
  <2> QED
    BY <2>1, <2>2
<1>7. s \in Producers(l) \cup Consumers(l)
  BY GeneratedFacts DEF Links, Producers, Consumers
<1>8. x \in Alive(ret[At(s)], d) /\ At(s) \in 1..N
  <2>1. Collected(l)
    BY <1>5, <1>6 DEF Collected, ValidVar
  <2>2. d = DeviceOf(NodeTarget(l))
    BY <1>1, DeviceOfTable DEF Generated
  <2>3. ret[At(s)] = s /\ At(s) \in 1..N
    BY Places
  <2> QED
    BY <2>1, <2>2, <2>3 DEF Alive
<1> QED
  BY <1>1, <1>5, <1>6, <1>7, <1>8 DEF CoversInv

InNoTable(x) == \A d \in DOMAIN lifecycles : x \notin DOMAIN lifecycles[d]

LEMMA UseFacts ==
  ASSUME Generated, NEW s \in 1..Len(program.ops), NEW n \in Links(s)
  PROVE  /\ InNoTable(n[1]) => uses[s][n] = n[1]
         /\ \A d \in DOMAIN lifecycles : n[1] \in DOMAIN lifecycles[d] => uses[s][n] \in DOMAIN lifecycles[d]
         /\ \A t \in 1..Len(program.ops) : \A m \in Links(t) : m[1] = n[1] => uses[t][m] = uses[s][n]
<1>1. TablesApart /\ n[1] \in Name
  BY TablesAreApart, GeneratedFacts DEF Generated, Sound
<1>2. PICK sub : Fits(sub, Performed) /\ UsesAre(sub)
  BY DEF Generated, UsesInv
<1>3. \A e \in Performed : e \in DOMAIN lifecycles
  BY DEF Performed
<1>4. InNoTable(n[1]) => uses[s][n] = n[1]
  BY <1>1, <1>2, <1>3 DEF InNoTable, Fits, UsesAre
<1>5. ASSUME NEW d \in DOMAIN lifecycles, n[1] \in DOMAIN lifecycles[d]
      PROVE  uses[s][n] \in DOMAIN lifecycles[d]
  <2>1. CASE d \in Performed
    BY <1>2, <1>5, <2>1 DEF Fits, UsesAre
  <2>2. CASE d \notin Performed
    <3>1. \A e \in Performed : n[1] \notin DOMAIN lifecycles[e]
      BY <1>1, <1>3, <1>5, <2>2 DEF TablesApart
    <3> QED
      BY <1>1, <1>2, <1>5, <3>1 DEF Fits, UsesAre
  <2> QED
    BY <2>1, <2>2
<1>6. \A t \in 1..Len(program.ops) : \A m \in Links(t) : m[1] = n[1] => uses[t][m] = uses[s][n]
  BY <1>2 DEF UsesAre
<1> QED
  BY <1>4, <1>5, <1>6

\* The outputs of a feed keep their names, which nothing else comes to name.
LEMMA FeedNames ==
  ASSUME Generated, NEW f \in OfType("feed"), NEW x \in program.ops[f].out
  PROVE  /\ InNoTable(x) /\ x \notin program.weights /\ f \in 1..Len(program.ops)
         /\ \A t \in 1..Len(program.ops) : x \in program.ops[t].out => t = f
         /\ \A s \in 1..Len(program.ops) : \A n \in Links(s) : uses[s][n] = x <=> n[1] = x
<1>1. f \in 1..Len(program.ops) /\ TypeOf(f) = "feed" /\ DOMAIN program.ops = 1..Len(program.ops)
  BY GeneratedFacts DEF OfType
<1>2. PICK m \in outlinks[f] : m[1] = x
  BY <1>1, GeneratedFacts
<1>3. InNoTable(x)
  BY <1>1, <1>2, TableNodes DEF InNoTable, Links, InvalidOp
<1>4. /\ x \notin program.weights
      /\ \A t \in 1..Len(program.ops) : x \in program.ops[t].out => t = f
  BY <1>1 DEF Generated, Sound, WritesLasting, TypeOf
<1>5. ASSUME NEW s \in 1..Len(program.ops), NEW n \in Links(s) PROVE uses[s][n] = x <=> n[1] = x
  BY <1>3, UseFacts DEF InNoTable
<1> QED
  BY <1>1, <1>3, <1>4, <1>5

\* So does what is to last.
LEMMA LastingNames ==
  ASSUME Generated, NEW s \in 1..Len(program.ops), NEW n \in inlinks[s], Lasts(n)
  PROVE  /\ InNoTable(n[1]) /\ uses[s][n] = n[1] /\ n \in Lasting
         /\ \A f \in OfType("feed") : n[1] \notin program.ops[f].out
<1>1. n \in Links(s) /\ DOMAIN program.ops = 1..Len(program.ops) /\ n \in Nodes
  BY GeneratedFacts DEF Links, Nodes
<1>2. ASSUME NEW p \in Producers(n), TypeOf(p) \in RunOnce
      PROVE  /\ p \in 1..Len(program.ops) /\ n \in outlinks[p] /\ n[1] \in program.ops[p].out
             /\ n[1] \in program.persist
             /\ \A t \in 1..Len(program.ops) : n[1] \in program.ops[t].out => t = p
  <2>1. p \in 1..Len(program.ops) /\ n \in outlinks[p] /\ n[1] \in program.ops[p].out
    BY GeneratedFacts
  <2> QED
    BY <1>1, <1>2, <2>1 DEF Generated, Sound, WritesLasting, TypeOf
<1>3. InNoTable(n[1])
  BY <1>1, <1>2, TableNodes DEF InNoTable, Lasts, IsPersist
<1>4. n \in Lasting
  BY <1>1, <1>2, GeneratedFacts DEF Lasts, Lasting, Stmts
<1>5. ASSUME NEW f \in OfType("feed"), n[1] \in program.ops[f].out PROVE FALSE
  <2>1. f \in 1..Len(program.ops) /\ TypeOf(f) = "feed"
    BY GeneratedFacts DEF OfType
  <2> QED
    BY <1>1, <1>2, <1>5, <2>1, FeedNames DEF Lasts, IsWeight, RunOnce
<1> QED
  BY <1>1, <1>3, <1>4, <1>5, UseFacts

\* Whoever writes the variable that a statement reads does so before it is
\* produced, or not before the statement that reads it.
LEMMA NoClobber ==
  ASSUME Generated,
         NEW s \in 1..Len(program.ops), NEW n \in inlinks[s], TypeOf(s) # "feed",
         NEW t \in 1..Len(program.ops), TypeOf(t) \notin {"feed", "fetch"},
         NEW m \in outlinks[t], uses[s][n] = uses[t][m], n # m
  PROVE  /\ ~Lasts(n) /\ TypeOf(s) # "fetch"
         /\ \E p \in Producers(n) : At(t) < At(p) \/ At(s) <= At(t)
<1> DEFINE N == Len(program.ops)
<1>1. /\ N \in Nat /\ DOMAIN program.ops = 1..N /\ n \in Links(s) /\ m \in Links(t)
      /\ n[1] \in Name /\ m[1] \in program.ops[t].out
      /\ At(s) \in 1..N /\ At(t) \in 1..N
  BY GeneratedFacts, Places DEF Links
<1>2. CASE n[1] # m[1]
  <2>1. PICK d \in DOMAIN lifecycles :
          /\ n[1] \in DOMAIN lifecycles[d] /\ m[1] \in DOMAIN lifecycles[d]
          /\ ~Loops!Overlap(lifecycles[d][n[1]], lifecycles[d][m[1]])
    BY <1>1, <1>2, SharedNames, GeneratedFacts DEF Generated, Sound
  <2>2. /\ TypeOf(s) # "fetch" /\ ~IsWeight(n)
        /\ lifecycles[d][n[1]][1] <= At(s) - 1 /\ At(s) - 1 <= lifecycles[d][n[1]][2]
    BY <1>1, <2>1, TableNodes DEF InvalidOp
  <2>3. lifecycles[d][m[1]][1] <= At(t) - 1 /\ At(t) - 1 <= lifecycles[d][m[1]][2]
    BY <1>1, <2>1, TableNodes
  <2>4. PICK p \in Producers(n) : TRUE
    BY <2>2, ProducerFacts
  <2>5. p \in 1..N /\ n \in Links(p)
    BY GeneratedFacts, <2>4 DEF Links
  <2>6. lifecycles[d][n[1]][1] <= At(p) - 1 /\ At(p) - 1 <= lifecycles[d][n[1]][2] /\ At(p) \in 1..N
    BY <2>1, <2>5, TableNodes, Places
  <2>7. ~Lasts(n)
    BY <2>1, LastingNames DEF InNoTable
  <2>8. /\ lifecycles[d][n[1]][1] \in Int /\ lifecycles[d][n[1]][2] \in Int
        /\ lifecycles[d][m[1]][1] \in Int /\ lifecycles[d][m[1]][2] \in Int
    <3>1. lifecycles[d] \in Tables
      BY DEF Generated, PipelineInv, TablesInv
    <3> QED
      BY <2>1, <3>1, TablesAreFinite
  <2>9. lifecycles[d][n[1]][2] < lifecycles[d][m[1]][1] \/ lifecycles[d][m[1]][2] < lifecycles[d][n[1]][1]
    BY <2>1, <2>8 DEF Loops!Overlap
  <2>10. At(s) < At(t) \/ At(t) < At(p)
    <3> DEFINE x1 == lifecycles[d][n[1]][1]
               x2 == lifecycles[d][n[1]][2]
               y1 == lifecycles[d][m[1]][1]
               y2 == lifecycles[d][m[1]][2]
               p0 == At(p)
               s0 == At(s)
               t0 == At(t)
    <3>1. /\ x1 \in Int /\ x2 \in Int /\ y1 \in Int /\ y2 \in Int
          /\ p0 \in Int /\ s0 \in Int /\ t0 \in Int
      BY <1>1, <2>6, <2>8
    <3>2. x1 <= p0 - 1 /\ s0 - 1 <= x2 /\ y1 <= t0 - 1 /\ t0 - 1 <= y2 /\ (x2 < y1 \/ y2 < x1)
      BY <2>2, <2>3, <2>6, <2>9
    <3> HIDE DEF x1, x2, y1, y2, p0, s0, t0
    <3>3. s0 < t0 \/ t0 < p0
      BY <3>1, <3>2
    <3> QED
      BY <3>3 DEF s0, t0, p0
  <2> QED
    BY <1>1, <2>2, <2>4, <2>7, <2>10
<1>3. CASE n[1] = m[1]
  <2> DEFINE x == n[1]
  <2>1. ~IsWeight(n)
    BY <1>1, <1>3 DEF Generated, Sound, WritesLasting, IsWeight
  <2>2. PICK p \in Producers(n) : TRUE
    BY <2>1, ProducerFacts
  <2>3. p \in 1..N /\ n \in outlinks[p] /\ x \in program.ops[p].out /\ p < s
    BY <2>2, GeneratedFacts, ProducerFacts
  <2>4. p # t
    BY <1>3, <2>3 DEF Generated, PipelineInv, NodesInv, NamesApart
  <2>5. TypeOf(p) \notin RunOnce
    BY <1>1, <1>3, <2>3, <2>4 DEF Generated, Sound, WritesLasting, TypeOf
  <2>6. TypeOf(p) # "fetch"
    BY <1>1, <1>3, <2>3 DEF Generated, Sound, ReadsWritten, TypeOf
  <2>7. ~Lasts(n)
    BY <2>1, <2>2, <2>3, <2>5, GeneratedFacts DEF Lasts
  <2>8. TypeOf(s) # "fetch"
    <3>1. x \in program.ops[s].in
      BY GeneratedFacts
    <3>2. p \in 1..(t - 1) \/ t \in 1..(p - 1)
      BY <1>1, <2>3, <2>4
    <3>3. TypeOf(s) \notin InvalidOp
      BY <1>1, <1>3, <2>3, <2>6, <3>1, <3>2 DEF Generated, Sound, OverwrittenByReader, TypeOf
    <3> QED
      BY <3>3 DEF InvalidOp
  <2>9. CASE t < p
    BY <1>1, <1>3, <2>2, <2>3, <2>6, <2>7, <2>8, <2>9, WritersInOrder
  <2>10. CASE p < t
    BY <1>1, <1>3, <2>2, <2>7, <2>8, <2>10, ReadersBeforeWriter
  <2> QED
    BY <1>1, <2>3, <2>4, <2>9, <2>10
<1> QED
  BY <1>2, <1>3

\* A kernel writes to a buffer of its own, never to what a feed reads from.
LEMMA WriterBuffers ==
  ASSUME Generated, BufferInv,
         NEW t \in 1..Len(program.ops), TypeOf(t) # "feed", NEW m \in outlinks[t]
  PROVE  /\ BufferOf(t, m) = uses[t][m]
         /\ \A f \in OfType("feed") : BufferOf(t, m) # FeedItem(f)
         /\ \A s \in 1..Len(program.ops) : \A n \in Links(s) :
              BufferOf(s, n) = BufferOf(t, m) => uses[s][n] = uses[t][m]
<1>1. m \in Links(t) /\ uses[t][m] \in Name
  BY GeneratedFacts DEF Links
<1>2. \A f \in OfType("feed") : FeedItem(f) \notin Name
  BY FeedItemsAssumption, GeneratedFacts DEF Generated, PipelineInv, BuildInv, GraphTypeOK, OfType
<1>3. ASSUME NEW f \in OfType("feed"), uses[t][m] \in program.ops[f].out PROVE FALSE
  <2>1. m[1] \in program.ops[f].out /\ m[1] \in program.ops[t].out
    BY <1>1, <1>3, FeedNames, GeneratedFacts
  <2>2. t = f
    BY <2>1, FeedNames
  <2> QED
    BY <2>2 DEF OfType
<1>4. BufferOf(t, m) = uses[t][m]
  BY <1>1, <1>3 DEF BufferInv, BufferOf
<1>5. ASSUME NEW s \in 1..Len(program.ops), NEW n \in Links(s), BufferOf(s, n) = BufferOf(t, m)
      PROVE  uses[s][n] = uses[t][m]
  <2>1. uses[s][n] \in Name /\ buffer[uses[s][n]] \in Name
    BY <1>1, <1>4, <1>5, GeneratedFacts DEF BufferOf
  <2>2. buffer[uses[s][n]] = uses[s][n]
    BY <1>2, <2>1 DEF BufferInv
  <2> QED
    BY <1>4, <1>5, <2>2 DEF BufferOf
<1> QED
  BY <1>1, <1>2, <1>4, <1>5

LEMMA SamePipeline ==
  ASSUME UNCHANGED pipelineVars
  PROVE  /\ Stmts' = Stmts /\ Nodes' = Nodes /\ Lasting' = Lasting /\ program' = program
         /\ \A s : At(s)' = At(s) /\ TypeOf(s)' = TypeOf(s) /\ Links(s)' = Links(s)
         /\ \A t : OfType(t)' = OfType(t)
         /\ \A n : Producers(n)' = Producers(n) /\ IsWeight(n)' = IsWeight(n) /\ Lasts(n)' = Lasts(n)
         /\ inlinks' = inlinks /\ outlinks' = outlinks /\ uses' = uses /\ ret' = ret /\ phase' = phase
<1>1. /\ UNCHANGED graphVars /\ program' = program /\ inlinks' = inlinks /\ outlinks' = outlinks
      /\ uses' = uses /\ ret' = ret /\ phase' = phase
  BY DEF pipelineVars, graphVars, orderVars, passVars
<1>2. /\ Stmts' = Stmts /\ \A s : TypeOf(s)' = TypeOf(s)
      /\ \A n : IsWeight(n)' = IsWeight(n)
  BY <1>1 DEF Stmts, TypeOf, IsWeight
<1>3. \A s : At(s)' = At(s)
  BY <1>1 DEF At
<1>4. /\ \A s : Links(s)' = Links(s) /\ \A n : Producers(n)' = Producers(n)
  BY <1>1, SameGraph
<1>5. Nodes' = Nodes
  BY <1>1, <1>4 DEF Nodes
<1>6. \A t : OfType(t)' = OfType(t)
  BY <1>2 DEF OfType
<1>7. \A n : Lasts(n)' = Lasts(n)
  BY <1>2, <1>4 DEF Lasts
<1>8. Lasting' = Lasting
  BY <1>1, <1>2, <1>5 DEF Lasting
<1> QED
  BY <1>1, <1>2, <1>3, <1>4, <1>5, <1>6, <1>7, <1>8

\* What is to last is in a buffer of its own.
LEMMA LastingBuffer ==
  ASSUME Generated, BufferInv, NEW s \in 1..Len(program.ops), NEW n \in inlinks[s], Lasts(n)
  PROVE  BufferOf(s, n) = n[1] /\ n[1] \in Name
BY LastingNames, GeneratedFacts DEF BufferInv, BufferOf, Links

LEMMA FeedItemsApart ==
  ASSUME Generated
  PROVE  /\ \A f \in OfType("feed") : FeedItem(f) \notin Name
         /\ \A f, g \in OfType("feed") : FeedItem(f) = FeedItem(g) => f = g
<1>1. \A f \in OfType("feed") : FeedItem(f) \notin Name
  BY FeedItemsAssumption, GeneratedFacts DEF Generated, PipelineInv, BuildInv, GraphTypeOK, OfType
<1> QED
  BY <1>1 DEF FeedItem

LEMMA LoadStep ==
  ASSUME Generated, RuntimeInv, Load
  PROVE  RuntimeInv'
<1>1. /\ buffer = NoEntries /\ UNCHANGED pipelineVars
      /\ buffer' = [x \in Name |-> x]
      /\ contents' = [b \in Name \cup {FeedItem(s) : s \in OfType("feed")} |->
                        {n \in Nodes : IsWeight(n) /\ n[1] = b}]
      /\ inst' = 0 /\ runs' = 0 /\ has_run' = {} /\ fetch_list' = NoEntries
  BY DEF Load, RuntimeInv
<1>2. /\ \A t : OfType(t)' = OfType(t) /\ program' = program /\ phase' = "generated" /\ inlinks' = inlinks
      /\ Stmts' = Stmts /\ uses' = uses
      /\ \A s : At(s)' = At(s) /\ TypeOf(s)' = TypeOf(s)
      /\ \A n : Producers(n)' = Producers(n) /\ IsWeight(n)' = IsWeight(n) /\ Lasts(n)' = Lasts(n)
  BY <1>1, SamePipeline DEF Generated
<1>3. Ran' = 0 /\ Len(program.ops) \in Nat
  BY <1>1, GeneratedFacts DEF Ran
<1>4. HistoryInv'
  BY <1>1, <1>3 DEF HistoryInv
<1>5. BufferInv'
  BY <1>1, <1>2 DEF BufferInv
<1>6. FeedInv' /\ FetchInv'
  BY <1>1, <1>2 DEF FeedInv, FetchInv, NoEntries
<1>7. LiveInv'
  <2> SUFFICES ASSUME NEW s \in Stmts, NEW n \in inlinks[s], Available(n)'
               PROVE  n \in contents'[buffer'[uses[s][n]]]
    BY <1>2 DEF LiveInv, BufferOf
  <2>1. s \in 1..Len(program.ops) /\ n \in Links(s) /\ n \in Nodes /\ n[1] \in Name
    BY GeneratedFacts DEF Links, Nodes
  <2>2. \A p \in Producers(n) : At(p) \in 1..Len(program.ops)
    BY GeneratedFacts, Places
  <2>3. IsWeight(n)
    BY <1>1, <1>2, <1>3, <2>2 DEF Available
  <2>4. uses[s][n] = n[1]
    BY <2>1, <2>3, LastingNames DEF Lasts
  <2> QED
    BY <1>1, <2>1, <2>3, <2>4
<1> QED
  BY <1>1, <1>2, <1>3, <1>4, <1>5, <1>6, <1>7 DEF RuntimeInv

LEMMA StartStep ==
  ASSUME Generated, RuntimeInv, NEW fill \in BOOLEAN, StartRun(fill)
  PROVE  RuntimeInv'
<1> DEFINE inputs(b) == UNION {outlinks[s] : s \in {t \in OfType("feed") : b = FeedItem(t)}}
<1>1. /\ buffer # NoEntries /\ inst = 0 /\ (runs = 0 => fill) /\ runs \in Nat
      /\ contents' = [b \in DOMAIN contents |->
           IF fill /\ inputs(b) # {} THEN inputs(b) ELSE contents[b] \cap (Lasting \cup inputs(b))]
      /\ inst' = (IF Len(ret) = 0 THEN 0 ELSE 1) /\ runs' = runs + 1
      /\ UNCHANGED <<pipelineVars, has_run, buffer, fetch_list>>
      /\ HistoryInv /\ BufferInv /\ FeedInv /\ FetchInv /\ LiveInv
  BY DEF StartRun, RuntimeInv
<1>2. /\ \A t : OfType(t)' = OfType(t) /\ program' = program /\ phase' = "generated"
      /\ inlinks' = inlinks /\ outlinks' = outlinks
      /\ Stmts' = Stmts /\ uses' = uses /\ ret' = ret
      /\ \A s : At(s)' = At(s) /\ TypeOf(s)' = TypeOf(s)
      /\ \A n : Producers(n)' = Producers(n) /\ IsWeight(n)' = IsWeight(n) /\ Lasts(n)' = Lasts(n)
  BY <1>1, SamePipeline DEF Generated
<1>3. Len(ret) = Len(program.ops) /\ Len(program.ops) \in Nat
  BY GeneratedFacts, Places
<1>4. Ran' = 0 /\ inst' \in 0..Len(program.ops) /\ runs' \in Nat /\ runs' > 0
  BY <1>1, <1>2, <1>3 DEF Ran
<1>5. HistoryInv'
  BY <1>1, <1>2, <1>4 DEF HistoryInv
<1>6. BufferInv' /\ FetchInv'
  <2>1. DOMAIN contents' = DOMAIN contents
    BY <1>1
  <2> QED
    BY <1>1, <1>2, <2>1 DEF BufferInv, FetchInv, BufferOf
<1>7. FeedInv'
  <2> SUFFICES ASSUME NEW f \in OfType("feed") PROVE outlinks[f] \subseteq contents'[FeedItem(f)]
    BY <1>2 DEF FeedInv
  <2>1. inputs(FeedItem(f)) = outlinks[f]
    BY FeedItemsApart
  <2>2. contents'[FeedItem(f)] = IF fill /\ outlinks[f] # {} THEN outlinks[f]
                                 ELSE contents[FeedItem(f)] \cap (Lasting \cup outlinks[f])
    <3> HIDE DEF inputs
    <3> QED
      BY <1>1, <2>1 DEF BufferInv
  <2>3. ~fill => outlinks[f] \subseteq contents[FeedItem(f)]
    BY <1>1 DEF FeedInv
  <2> QED
    BY <2>2, <2>3
<1>8. LiveInv'
  <2> SUFFICES ASSUME NEW s \in Stmts, TypeOf(s) # "feed", NEW n \in inlinks[s], Available(n)'
               PROVE  n \in contents'[BufferOf(s, n)]
    BY <1>1, <1>2 DEF LiveInv, BufferOf
  <2>1. s \in 1..Len(program.ops)
    BY GeneratedFacts
  <2>2. \A p \in Producers(n) : At(p) \in 1..Len(program.ops)
    BY GeneratedFacts, Places
  <2>3. Lasts(n) /\ Available(n)
    BY <1>1, <1>2, <1>4, <2>2 DEF Available, Lasts
  <2>4. n \in contents[BufferOf(s, n)] /\ n \in Lasting
    BY <1>1, <2>1, <2>3, LastingNames DEF LiveInv
  <2>5. BufferOf(s, n) \in Name
    BY <1>1, <2>1, <2>3, LastingBuffer
  <2>6. inputs(BufferOf(s, n)) = {}
    BY <2>5, FeedItemsApart
  <2> HIDE DEF inputs
  <2> QED
    BY <1>1, <2>4, <2>5, <2>6 DEF BufferInv
<1> QED
  BY <1>1, <1>2, <1>4, <1>5, <1>6, <1>7, <1>8 DEF RuntimeInv

\* What one more instruction that has run changes in the history.
LEMMA NextFacts ==
  ASSUME Generated, RuntimeInv, Running, NextInst
  PROVE  /\ Current \in 1..Len(program.ops) /\ At(Current) = Ran' /\ Ran < Ran' /\ Ran \in Nat /\ Ran' \in Nat
         /\ UNCHANGED pipelineVars /\ runs' = runs /\ runs > 0 /\ runs \in Nat
         /\ inst' \in 0..Len(program.ops) /\ buffer # NoEntries /\ has_run' = has_run \cup {Current}
         /\ HistoryInv'
         /\ HistoryInv /\ BufferInv /\ FeedInv /\ FetchInv /\ LiveInv
         /\ \A n : Available(n)' => Available(n) \/ (Current \in Producers(n) /\ ~Skipped(Current))
         /\ \A n : \A p \in Producers(n) : p # Current /\ At(p) <= Ran' => At(p) <= Ran
<1> DEFINE N == Len(program.ops)
           t == Current
<1>1. /\ buffer # NoEntries /\ inst \in 1..N /\ runs \in Nat /\ runs > 0 /\ N \in Nat /\ Len(ret) = N
      /\ inst' = (IF inst = N THEN 0 ELSE inst + 1) /\ has_run' = has_run \cup {t}
      /\ UNCHANGED pipelineVars /\ runs' = runs
      /\ HistoryInv /\ BufferInv /\ FeedInv /\ FetchInv /\ LiveInv
  BY GeneratedFacts, Places DEF RuntimeInv, NextInst, Running
<1>2. /\ program' = program /\ ret' = ret
      /\ \A s : At(s)' = At(s) /\ TypeOf(s)' = TypeOf(s)
      /\ \A n : Producers(n)' = Producers(n) /\ IsWeight(n)' = IsWeight(n)
  BY <1>1, SamePipeline
<1>3. Ran = inst - 1 /\ Ran' = inst
  BY <1>1, <1>2 DEF Ran
<1>4. t \in 1..N /\ At(t) = inst /\ t = ret[inst]
  BY <1>1, Places DEF Current
<1>5. HistoryInv'
  <2>1. has_run' \subseteq 1..N
    BY <1>1, <1>4 DEF HistoryInv
  <2>2. \A k \in 1..(inst - 1) : ret[k] \in has_run
    BY <1>1, <1>3 DEF HistoryInv
  <2>3. ASSUME NEW k \in 1..inst PROVE ret[k] \in has_run'
    <3>1. k \in 1..(inst - 1) \/ k = inst
      BY <1>1
    <3> QED
      BY <1>1, <1>4, <2>2, <3>1
  <2>4. ASSUME NEW k \in 1..N, NEW l \in 1..N, k < l, ret[l] \in has_run' PROVE ret[k] \in has_run'
    <3>1. CASE ret[l] \in has_run
      BY <1>1, <2>4, <3>1 DEF HistoryInv
    <3>2. CASE ret[l] = t
      <4>1. l = inst
        BY <1>4, <3>2, Places
      <4>2. k \in 1..inst
        BY <1>1, <2>4, <4>1
      <4> QED
        BY <2>3, <4>2
    <3> QED
      BY <1>1, <2>4, <3>1, <3>2
  <2> QED
    BY <1>2, <1>3, <2>1, <2>3, <2>4 DEF HistoryInv
<1>6. ASSUME NEW n, NEW p \in Producers(n), p # t, At(p) <= inst PROVE At(p) <= inst - 1
  <2>1. At(p) \in 1..N /\ ret[At(p)] = p
    BY GeneratedFacts, Places
  <2> QED
    BY <1>1, <1>4, <1>6, <2>1
<1>7. ASSUME NEW n, Available(n)', ~Available(n)
      PROVE  t \in Producers(n) /\ ~Skipped(t)
  <2>1. ~IsWeight(n)
    BY <1>7 DEF Available
  <2>2. PICK p \in Producers(n) : At(p) <= inst \/ (TypeOf(p) \in RunOnce /\ p \in has_run')
    BY <1>2, <1>3, <1>7, <2>1 DEF Available
  <2>3. ~(At(p) <= inst - 1) /\ ~(TypeOf(p) \in RunOnce /\ p \in has_run)
    BY <1>3, <1>7 DEF Available
  <2>4. p = t
    BY <1>1, <1>6, <2>2, <2>3
  <2> QED
    BY <2>3, <2>4 DEF Skipped
<1> QED
  BY <1>1, <1>2, <1>3, <1>4, <1>5, <1>6, <1>7

LEMMA FeedStep ==
  ASSUME Generated, RuntimeInv, Running, RunFeed(Current), NextInst
  PROVE  RuntimeInv'
<1> DEFINE t == Current
<1>1. t \in OfType("feed") /\ t \in 1..Len(program.ops)
  BY NextFacts, GeneratedFacts DEF RunFeed, OfType
<1>2. /\ \A u : OfType(u)' = OfType(u) /\ program' = program /\ phase' = "generated"
      /\ inlinks' = inlinks /\ outlinks' = outlinks /\ Stmts' = Stmts /\ uses' = uses
      /\ \A s : At(s)' = At(s) /\ TypeOf(s)' = TypeOf(s)
      /\ \A n : Lasts(n)' = Lasts(n)
  BY NextFacts, SamePipeline DEF Generated
<1>3. /\ HistoryInv /\ BufferInv /\ FeedInv /\ FetchInv /\ LiveInv
      /\ has_run' = has_run \cup {t} /\ contents' = contents /\ fetch_list' = fetch_list
  BY NextFacts DEF RunFeed
<1>4. DOMAIN buffer' = Name /\
      \A x \in Name : buffer'[x] = IF x \in program.ops[t].out THEN FeedItem(t) ELSE buffer[x]
  <2>1. \A x : (\E n \in outlinks[t] : uses[t][n] = x) <=> x \in program.ops[t].out
    BY <1>1, GeneratedFacts, FeedNames DEF Links
  <2> QED
    BY <1>3, <2>1 DEF RunFeed, BufferInv
<1>5. BufferInv'
  <2>1. ASSUME NEW f \in OfType("feed") \cap has_run', NEW x \in program.ops[f].out
        PROVE  buffer'[x] = FeedItem(f)
    <3>1. f \in 1..Len(program.ops) /\ x \in Name
      BY GeneratedFacts, FeedNames DEF Links
    <3>2. CASE f = t
      BY <1>4, <3>1, <3>2
    <3>3. CASE f # t
      BY <1>1, <1>3, <1>4, <3>1, <3>3, FeedNames DEF BufferInv
    <3> QED
      BY <3>2, <3>3
  <2>2. ASSUME NEW x \in Name
        PROVE  \/ buffer'[x] = x
               \/ \E f \in OfType("feed") : x \in program.ops[f].out /\ buffer'[x] = FeedItem(f)
    BY <1>1, <1>3, <1>4 DEF BufferInv
  <2> QED
    BY <1>2, <1>3, <1>4, <2>1, <2>2 DEF BufferInv
<1>6. FeedInv'
  BY <1>2, <1>3, NextFacts DEF FeedInv
\* The variable of a statement that does not read from this feed is as it was.
<1>7. ASSUME NEW s \in 1..Len(program.ops), NEW n \in inlinks[s], n[1] \notin program.ops[t].out
      PROVE  buffer'[uses[s][n]] = buffer[uses[s][n]]
  BY <1>1, <1>4, <1>7, FeedNames, GeneratedFacts DEF Links
\* One that does has it for its producer.
<1>8. ASSUME NEW s \in 1..Len(program.ops), TypeOf(s) # "feed", NEW n \in inlinks[s], n[1] \in program.ops[t].out
      PROVE  t \in Producers(n) /\ ~Lasts(n) /\ n \in outlinks[t] /\ buffer'[uses[s][n]] = FeedItem(t)
  <2>1. ~IsWeight(n) /\ uses[s][n] = n[1] /\ n[1] \in Name
    BY <1>1, <1>8, FeedNames, GeneratedFacts DEF IsWeight, Links
  <2>2. PICK p \in Producers(n) : TRUE
    BY <1>8, <2>1, ProducerFacts
  <2>3. p = t
    BY <1>1, <1>8, <2>2, FeedNames, GeneratedFacts
  <2>4. n \in outlinks[t]
    BY <2>2, <2>3, GeneratedFacts
  <2> QED
    BY <1>1, <1>4, <1>8, <2>1, <2>2, <2>3, <2>4, LastingNames
<1>9. FetchInv'
  <2>1. ASSUME NEW s \in DOMAIN fetch_list, NEW n \in inlinks[s]
        PROVE  fetch_list[s] = buffer'[uses[s][n]]
    <3>1. s \in OfType("fetch") \cap has_run /\ fetch_list[s] = buffer[uses[s][n]]
      BY <1>3 DEF FetchInv, BufferOf
    <3>2. s \in 1..Len(program.ops) /\ TypeOf(s) # "feed"
      BY <3>1, GeneratedFacts DEF OfType
    <3>3. CASE n[1] \in program.ops[t].out
      <4>1. t \in Producers(n) /\ buffer'[uses[s][n]] = FeedItem(t)
        BY <1>8, <3>2, <3>3
      <4>2. At(t) < At(s) /\ At(t) \in 1..Len(program.ops) /\ At(s) \in 1..Len(program.ops)
            /\ ret[At(t)] = t /\ ret[At(s)] = s
        BY <1>1, <3>2, <4>1, Places
      <4>3. t \in has_run
        BY <1>3, <3>1, <4>2 DEF HistoryInv
      <4>4. uses[s][n] = n[1]
        BY <3>2, <3>3, <1>1, FeedNames DEF Links
      <4> QED
        BY <1>1, <1>3, <3>1, <3>3, <4>1, <4>3, <4>4 DEF BufferInv
    <3>4. CASE n[1] \notin program.ops[t].out
      BY <1>7, <3>1, <3>2, <3>4
    <3> QED
      BY <3>3, <3>4
  <2>2. OfType("fetch") \cap has_run' = OfType("fetch") \cap has_run
    BY <1>1, <1>3 DEF OfType
  <2> QED
    BY <1>2, <1>3, <2>1, <2>2 DEF FetchInv, BufferOf
<1>10. LiveInv'
  <2> SUFFICES ASSUME NEW s \in Stmts, TypeOf(s) # "feed", NEW n \in inlinks[s], Available(n)',
                      At(s) > Ran' \/ TypeOf(s) = "fetch" \/ Lasts(n)
               PROVE  n \in contents[buffer'[uses[s][n]]]
    BY <1>2, <1>3 DEF LiveInv, BufferOf
  <2>1. s \in 1..Len(program.ops) /\ At(s) \in 1..Len(program.ops) /\ Len(program.ops) \in Nat
    BY GeneratedFacts, Places
  <2>2. CASE n[1] \in program.ops[t].out
    BY <1>1, <1>3, <1>8, <2>1, <2>2, NextFacts DEF FeedInv
  <2>3. CASE n[1] \notin program.ops[t].out
    <3>1. t \notin Producers(n)
      BY <2>3, GeneratedFacts
    <3>2. Available(n) /\ (At(s) > Ran \/ TypeOf(s) = "fetch" \/ Lasts(n))
      BY <2>1, <3>1, NextFacts
    <3>3. n \in contents[buffer[uses[s][n]]]
      BY <1>3, <3>2 DEF LiveInv, BufferOf
    <3> QED
      BY <1>7, <2>1, <2>3, <3>3
  <2> QED
    BY <2>2, <2>3
<1>11. buffer' # NoEntries
  BY <1>3, <1>4, NextFacts DEF BufferInv, NoEntries
<1> QED
  BY <1>2, <1>5, <1>6, <1>9, <1>10, <1>11, NextFacts DEF RuntimeInv

LEMMA FetchStep ==
  ASSUME Generated, RuntimeInv, Running, RunFetch(Current), NextInst
  PROVE  RuntimeInv'
<1> DEFINE t == Current
<1>1. t \in OfType("fetch") /\ t \in 1..Len(program.ops) /\ DOMAIN program.ops = 1..Len(program.ops)
  BY NextFacts, GeneratedFacts DEF RunFetch, OfType
<1>2. /\ \A u : OfType(u)' = OfType(u) /\ program' = program /\ phase' = "generated"
      /\ inlinks' = inlinks /\ outlinks' = outlinks /\ Stmts' = Stmts /\ uses' = uses
      /\ \A s : At(s)' = At(s) /\ TypeOf(s)' = TypeOf(s)
      /\ \A n : Lasts(n)' = Lasts(n)
  BY NextFacts, SamePipeline DEF Generated
<1>3. /\ HistoryInv /\ BufferInv /\ FeedInv /\ FetchInv /\ LiveInv
      /\ has_run' = has_run \cup {t} /\ contents' = contents /\ buffer' = buffer
  BY NextFacts DEF RunFetch
<1>4. BufferInv'
  <2>1. OfType("feed") \cap has_run' = OfType("feed") \cap has_run
    BY <1>1, <1>3 DEF OfType
  <2> QED
    BY <1>2, <1>3, <2>1 DEF BufferInv
<1>5. FeedInv'
  BY <1>2, <1>3, NextFacts DEF FeedInv
<1>6. FetchInv'
  <2>1. PICK n \in inlinks[t] : fetch_list' = Assign(fetch_list, t, BufferOf(t, n))
    BY DEF RunFetch
  <2>2. DOMAIN fetch_list' = OfType("fetch") \cap has_run'
    BY <1>1, <1>3, <2>1 DEF Assign, FetchInv
  <2>3. \A m \in inlinks[t] : fetch_list'[t] = BufferOf(t, m)
    <3> SUFFICES ASSUME NEW m \in inlinks[t] PROVE uses[t][m] = uses[t][n]
      BY <2>1 DEF Assign, BufferOf
    <3>1. n[1] \in program.ops[t].in /\ m[1] \in program.ops[t].in
      BY <1>1, GeneratedFacts
    <3>2. \E x \in Name : program.ops[t].in = {x}
      BY <1>1 DEF Generated, Sound, ReadsWritten, OfType, TypeOf
    <3>3. n[1] = m[1]
      BY <3>1, <3>2
    <3> QED
      BY <1>1, <3>3, UseFacts DEF Links
  <2>4. ASSUME NEW s \in DOMAIN fetch_list', s # t, NEW m \in inlinks[s]
        PROVE  fetch_list'[s] = BufferOf(s, m)
    <3>1. s \in DOMAIN fetch_list /\ fetch_list'[s] = fetch_list[s]
      BY <2>1, <2>4 DEF Assign
    <3> QED
      BY <1>3, <2>4, <3>1 DEF FetchInv
  <2> QED
    BY <1>2, <1>3, <2>2, <2>3, <2>4 DEF FetchInv, BufferOf
<1>7. LiveInv'
  <2> SUFFICES ASSUME NEW s \in Stmts, TypeOf(s) # "feed", NEW n \in inlinks[s], Available(n)',
                      At(s) > Ran' \/ TypeOf(s) = "fetch" \/ Lasts(n)
               PROVE  n \in contents[BufferOf(s, n)]
    BY <1>2, <1>3 DEF LiveInv, BufferOf
  <2>1. s \in 1..Len(program.ops) /\ At(s) \in 1..Len(program.ops) /\ Len(program.ops) \in Nat
    BY GeneratedFacts, Places
  <2>2. t \notin Producers(n)
    <3>1. n[1] \in program.ops[s].in
      BY <2>1, GeneratedFacts
    <3>2. program.ops[t].out \cap program.ops[s].in = {}
      BY <1>1, <2>1 DEF Generated, Sound, ReadsWritten, OfType, TypeOf
    <3> QED
      BY <3>1, <3>2, GeneratedFacts
  <2>3. Available(n) /\ (At(s) > Ran \/ TypeOf(s) = "fetch" \/ Lasts(n))
    BY <2>1, <2>2, NextFacts
  <2> QED
    BY <1>3, <2>3 DEF LiveInv
<1> QED
  BY <1>2, <1>3, <1>4, <1>5, <1>6, <1>7, NextFacts DEF RuntimeInv

\* A step that leaves the variables and the fetch list alone and runs neither
\* a feed nor a fetch.
LEMMA OtherStep ==
  ASSUME Generated, RuntimeInv, Running, NextInst, TypeOf(Current) \notin {"feed", "fetch"},
         UNCHANGED <<buffer, fetch_list>>, DOMAIN contents' = DOMAIN contents,
         \A f \in OfType("feed") : outlinks[f] \subseteq contents[FeedItem(f)] =>
           outlinks[f] \subseteq contents'[FeedItem(f)],
         \A s \in 1..Len(program.ops) : \A n \in inlinks[s] :
           /\ TypeOf(s) # "feed" /\ Available(n)'
           /\ At(s) > Ran' \/ TypeOf(s) = "fetch" \/ Lasts(n)
           => n \in contents'[BufferOf(s, n)]
  PROVE  RuntimeInv'
<1>1. /\ \A u : OfType(u)' = OfType(u) /\ program' = program /\ phase' = "generated"
      /\ inlinks' = inlinks /\ outlinks' = outlinks /\ Stmts' = Stmts /\ uses' = uses
      /\ \A s : At(s)' = At(s) /\ TypeOf(s)' = TypeOf(s)
      /\ \A n : Lasts(n)' = Lasts(n)
      /\ Stmts = 1..Len(program.ops)
  BY NextFacts, SamePipeline, GeneratedFacts DEF Generated
<1>2. /\ BufferInv /\ FeedInv /\ FetchInv /\ has_run' = has_run \cup {Current}
  BY NextFacts
<1>3. /\ OfType("feed") \cap has_run' = OfType("feed") \cap has_run
      /\ OfType("fetch") \cap has_run' = OfType("fetch") \cap has_run
  BY <1>2 DEF OfType
<1>4. BufferInv'
  BY <1>1, <1>2, <1>3 DEF BufferInv
<1>5. FeedInv'
  BY <1>1, <1>2, NextFacts DEF FeedInv
<1>6. FetchInv'
  BY <1>1, <1>2, <1>3 DEF FetchInv, BufferOf
<1>7. LiveInv'
  BY <1>1 DEF LiveInv, BufferOf
<1> QED
  BY <1>1, <1>4, <1>5, <1>6, <1>7, NextFacts DEF RuntimeInv

LEMMA KernelStep ==
  ASSUME Generated, RuntimeInv, Running, ~Skipped(Current), RunKernel(Current), NextInst
  PROVE  RuntimeInv'
<1> DEFINE t == Current
           written(b) == {n \in outlinks[t] : BufferOf(t, n) = b}
<1>1. /\ t \in 1..Len(program.ops) /\ TypeOf(t) \notin {"feed", "fetch"}
      /\ HistoryInv /\ BufferInv /\ FeedInv /\ FetchInv /\ LiveInv
      /\ UNCHANGED <<buffer, fetch_list>>
      /\ contents' = [b \in DOMAIN contents |-> IF written(b) = {} THEN contents[b] ELSE written(b)]
      /\ Len(program.ops) \in Nat
  BY NextFacts, GeneratedFacts DEF RunKernel
<1>2. ASSUME NEW f \in OfType("feed") PROVE contents'[FeedItem(f)] = contents[FeedItem(f)]
  <2>1. written(FeedItem(f)) = {}
    BY <1>1, WriterBuffers
  <2> HIDE DEF written
  <2> QED
    BY <1>1, <2>1 DEF BufferInv
<1>3. ASSUME NEW s \in 1..Len(program.ops), NEW n \in inlinks[s], TypeOf(s) # "feed", Available(n)',
             At(s) > Ran' \/ TypeOf(s) = "fetch" \/ Lasts(n)
      PROVE  n \in contents'[BufferOf(s, n)]
  <2>1. /\ n \in Links(s) /\ At(s) \in 1..Len(program.ops) /\ At(t) \in 1..Len(program.ops)
        /\ At(t) = Ran' /\ Ran < Ran' /\ Ran \in Nat /\ Ran' \in Nat
    BY <1>1, Places, NextFacts DEF Links
  <2>2. BufferOf(s, n) \in DOMAIN contents
    <3>1. uses[s][n] \in Name
      BY <2>1, GeneratedFacts
    <3> QED
      BY <1>1, <3>1 DEF BufferInv, BufferOf
  <2>3. CASE n \in outlinks[t]
    <3>1. uses[t][n] = uses[s][n]
      BY <1>1, <2>1, <2>3, UseFacts DEF Links
    <3>2. n \in written(BufferOf(s, n))
      BY <2>3, <3>1 DEF BufferOf
    <3> HIDE DEF written
    <3> QED
      BY <1>1, <2>2, <3>2
  <2>4. CASE n \notin outlinks[t]
    <3>1. t \notin Producers(n)
      BY <2>4, GeneratedFacts
    <3>2. Available(n) /\ (At(s) > Ran \/ TypeOf(s) = "fetch" \/ Lasts(n))
      BY <1>3, <2>1, <3>1, NextFacts
    <3>3. n \in contents[BufferOf(s, n)]
      BY <1>1, <1>3, <3>2, GeneratedFacts DEF LiveInv
    <3>4. ASSUME NEW m \in outlinks[t], BufferOf(t, m) = BufferOf(s, n) PROVE FALSE
      <4>1. uses[s][n] = uses[t][m] /\ n # m
        BY <1>1, <2>1, <2>4, <3>4, WriterBuffers
      <4>2. ~Lasts(n) /\ TypeOf(s) # "fetch" /\ \E p \in Producers(n) : At(t) < At(p) \/ At(s) <= At(t)
        BY <1>1, <1>3, <4>1, NoClobber
      <4>3. PICK p \in Producers(n) : At(t) < At(p) \/ At(s) <= At(t)
        BY <4>2
      <4>4. At(p) \in 1..Len(program.ops) /\ Producers(n) = {p}
        BY <4>3, GeneratedFacts, Places
      <4>5. At(p) <= Ran
        BY <3>2, <4>2, <4>4 DEF Available, Lasts
      <4> QED
        BY <1>3, <2>1, <4>2, <4>3, <4>4, <4>5
    <3>5. written(BufferOf(s, n)) = {}
      BY <3>4
    <3> HIDE DEF written
    <3> QED
      BY <1>1, <2>2, <3>3, <3>5
  <2> QED
    BY <2>3, <2>4
<1>4. DOMAIN contents' = DOMAIN contents
  BY <1>1
<1> HIDE DEF written
<1> QED
  BY <1>1, <1>2, <1>3, <1>4, OtherStep

LEMMA SkipStep ==
  ASSUME Generated, RuntimeInv, SkipInstruction
  PROVE  RuntimeInv'
<1>1. /\ Running /\ Skipped(Current) /\ NextInst /\ UNCHANGED <<buffer, contents, fetch_list>>
      /\ TypeOf(Current) \notin {"feed", "fetch"}
  BY DEF SkipInstruction, Skipped, RunOnce
<1>2. ASSUME NEW s \in 1..Len(program.ops), NEW n \in inlinks[s], TypeOf(s) # "feed", Available(n)',
             At(s) > Ran' \/ TypeOf(s) = "fetch" \/ Lasts(n)
      PROVE  n \in contents'[BufferOf(s, n)]
  <2>1. Available(n) /\ LiveInv /\ Ran < Ran' /\ Ran \in Nat /\ Ran' \in Nat
    BY <1>1, <1>2, NextFacts
  <2>2. At(s) \in 1..Len(program.ops) /\ Len(program.ops) \in Nat /\ s \in Stmts
    BY Places, GeneratedFacts
  <2>3. At(s) > Ran \/ TypeOf(s) = "fetch" \/ Lasts(n)
    BY <1>2, <2>1, <2>2
  <2> QED
    BY <1>1, <1>2, <2>1, <2>2, <2>3 DEF LiveInv
<1> QED
  BY <1>1, <1>2, OtherStep

SoundInv == PipelineInv /\ UsesInv /\ RuntimeInv

LEMMA InitSoundInv == Init => SoundInv
BY InitPipelineInv, InitUsesInv DEF Init, SoundInv, RuntimeInv

LEMMA NextSoundInv ==
  ASSUME Sound(program), SoundInv, [Next]_vars
  PROVE  SoundInv'
<1>1. PipelineInv /\ UsesInv /\ RuntimeInv /\ OneDevice(program)
  BY DEF SoundInv, Sound
<1>2. [PipelineNext]_pipelineVars
  BY DEF Next, Progress, Load, StartRun, RunInstruction, SkipInstruction, NextInst, vars
<1>3. PipelineInv' /\ UsesInv'
  BY <1>1, <1>2, NextPipelineInv, NextUsesInv
<1>4. CASE Load
  <2>1. Generated
    BY <1>1, <1>4 DEF Load, Generated
  <2> QED
    BY <1>1, <1>3, <1>4, <2>1, LoadStep DEF SoundInv
<1>5. ASSUME NEW fill \in BOOLEAN, StartRun(fill) PROVE SoundInv'
  <2>1. Generated
    BY <1>1, <1>5 DEF StartRun, RuntimeInv, Generated
  <2> QED
    BY <1>1, <1>3, <1>5, <2>1, StartStep DEF SoundInv
<1>6. CASE RunInstruction \/ SkipInstruction
  <2>1. Running /\ NextInst
    BY <1>6 DEF RunInstruction, SkipInstruction
  <2>2. Generated
    BY <1>1, <2>1 DEF Running, RuntimeInv, Generated
  <2>3. ~RunReshapeInplace(Current)
    <3>1. Current \in 1..Len(program.ops)
      BY <1>1, <2>1, <2>2, NextFacts
    <3>2. TypeOf(Current) # "reshape_inplace"
      BY <2>2, <3>1, GeneratedFacts DEF Generated, Sound, ReadsWritten, TypeOf
    <3> QED
      BY <3>2 DEF RunReshapeInplace
  <2>4. RuntimeInv'
    BY <1>1, <1>6, <2>1, <2>2, <2>3, FeedStep, FetchStep, KernelStep, SkipStep
       DEF RunInstruction
  <2> QED
    BY <1>3, <2>4 DEF SoundInv
<1>7. CASE (PipelineNext /\ UNCHANGED runVars) \/ UNCHANGED vars
  <2>1. UNCHANGED runVars
    BY <1>7 DEF vars
  <2>2. CASE buffer = NoEntries
    BY <1>1, <1>3, <2>1, <2>2 DEF RuntimeInv, runVars, SoundInv
  <2>3. CASE buffer # NoEntries
    <3>1. phase = "generated"
      BY <1>1, <2>3 DEF RuntimeInv
    <3>2. UNCHANGED pipelineVars
      BY <1>2, <3>1 DEF PipelineNext, BuildGraph, BeginSort, StepSort, EndSort, CollectStmt,
           EndCollect, BeginPlan, StepPlan, BeginPerform, PerformStmt, EndPerform, Generate
    <3>3. /\ Stmts' = Stmts /\ program' = program /\ ret' = ret
          /\ inlinks' = inlinks /\ outlinks' = outlinks /\ uses' = uses /\ phase' = phase
          /\ \A s : At(s)' = At(s) /\ TypeOf(s)' = TypeOf(s)
          /\ \A t : OfType(t)' = OfType(t)
          /\ \A n : Producers(n)' = Producers(n) /\ IsWeight(n)' = IsWeight(n) /\ Lasts(n)' = Lasts(n)
      BY <3>2, SamePipeline
    <3>4. /\ inst' = inst /\ runs' = runs /\ has_run' = has_run /\ buffer' = buffer
          /\ contents' = contents /\ fetch_list' = fetch_list /\ Ran' = Ran
      BY <2>1, <3>3 DEF runVars, Ran
    <3>5. HistoryInv' = HistoryInv /\ BufferInv' = BufferInv /\ FeedInv' = FeedInv
      BY <3>3, <3>4 DEF HistoryInv, BufferInv, FeedInv
    <3>6. FetchInv' = FetchInv
      BY <3>3, <3>4 DEF FetchInv, BufferOf
    <3>7. \A n : Available(n)' = Available(n)
      BY <3>3, <3>4 DEF Available
    <3>8. LiveInv' = LiveInv
      BY <3>3, <3>4, <3>7 DEF LiveInv, BufferOf
    <3>9. RuntimeInv'
      BY <1>1, <3>3, <3>4, <3>5, <3>6, <3>8 DEF RuntimeInv
    <3> QED
      BY <1>3, <3>9 DEF SoundInv
  <2> QED
    BY <2>2, <2>3
<1> QED
  BY <1>4, <1>5, <1>6, <1>7 DEF Next, Progress

LEMMA AlwaysSoundInv ==
  ASSUME \A p \in Programs : Sound(p)
  PROVE  Spec => []SoundInv
<1>1. SoundInv => Sound(program)
  BY DEF SoundInv, PipelineInv, BuildInv, GraphTypeOK
<1>2. SoundInv /\ [Next]_vars => SoundInv'
  BY <1>1, NextSoundInv
<1> QED
  BY <1>2, InitSoundInv, PTL DEF Spec

(* Whatever the addresses, the plans and the number of runs, an operator   *)
(* of a sound program reads what its producer computed in this run.        *)
THEOREM ReadsAreRight ==
  ASSUME \A p \in Programs : Sound(p)
  PROVE  Spec => []ReadsItsProducer
<1>1. SoundInv => ReadsItsProducer
  <2> SUFFICES ASSUME SoundInv, Running, TypeOf(Current) # "feed", NEW n \in inlinks[Current]
               PROVE  n \in contents[BufferOf(Current, n)]
    BY DEF ReadsItsProducer
  <2>1. Generated /\ LiveInv /\ inst \in 1..Len(program.ops)
    <3>1. program \in Programs
      BY DEF SoundInv, PipelineInv, BuildInv, GraphTypeOK
    <3> QED
      BY <3>1 DEF SoundInv, RuntimeInv, Running, Generated
  <2>2. Current \in 1..Len(program.ops) /\ At(Current) = inst /\ Current \in Stmts
    BY <2>1, Places, GeneratedFacts DEF Current
  <2>3. Ran = inst - 1 /\ inst > Ran
    BY <2>1 DEF Ran
  <2>4. Available(n)
    <3>1. CASE IsWeight(n)
      BY <3>1 DEF Available
    <3>2. CASE ~IsWeight(n)
      <4>1. PICK p \in Producers(n) : TRUE
        BY <2>1, <2>2, <3>2, ProducerFacts
      <4>2. At(p) < At(Current) /\ At(p) \in 1..Len(program.ops)
        BY <2>1, <2>2, <4>1, Places, GeneratedFacts
      <4>3. At(p) <= Ran
        BY <2>1, <2>2, <2>3, <4>2
      <4> QED
        BY <4>1, <4>3 DEF Available
    <3> QED
      BY <3>1, <3>2
  <2> QED
    BY <2>1, <2>2, <2>3, <2>4 DEF LiveInv
<1> QED
  BY <1>1, AlwaysSoundInv, PTL

(* What the caller of a sound program fetches is what the run computed.    *)
THEOREM OutputsAreRight ==
  ASSUME \A p \in Programs : Sound(p)
  PROVE  Spec => []OutputsIntact
<1>1. SoundInv => OutputsIntact
  <2> SUFFICES ASSUME SoundInv, inst = 0, runs > 0, NEW s \in OfType("fetch"), NEW n \in inlinks[s]
               PROVE  n \in contents[fetch_list[s]]
    BY DEF OutputsIntact
  <2>1. buffer # NoEntries /\ runs \in Nat
    BY DEF SoundInv, RuntimeInv
  <2>2. Generated /\ LiveInv /\ FetchInv /\ HistoryInv
    <3>1. program \in Programs
      BY DEF SoundInv, PipelineInv, BuildInv, GraphTypeOK
    <3> QED
      BY <2>1, <3>1 DEF SoundInv, RuntimeInv, Generated
  <2>3. Ran = Len(program.ops)
    BY <2>1 DEF Ran
  <2>4. s \in 1..Len(program.ops) /\ s \in Stmts /\ TypeOf(s) = "fetch" /\ Len(program.ops) \in Nat
    BY <2>2, GeneratedFacts DEF OfType
  <2>5. s \in has_run
    <3>1. At(s) \in 1..Len(program.ops) /\ ret[At(s)] = s
      BY <2>2, <2>4, Places
    <3> QED
      BY <2>2, <2>3, <3>1 DEF HistoryInv
  <2>6. fetch_list[s] = BufferOf(s, n)
    BY <2>2, <2>5 DEF FetchInv
  <2>7. Available(n)
    <3>1. ~IsWeight(n) => \E p \in Producers(n) : TRUE
      BY <2>2, <2>4, ProducerFacts
    <3>2. \A p \in Producers(n) : At(p) <= Ran
      BY <2>2, <2>3, <2>4, Places, GeneratedFacts
    <3> QED
      BY <3>1, <3>2 DEF Available
  <2> QED
    BY <2>2, <2>4, <2>6, <2>7 DEF LiveInv
<1> QED
  BY <1>1, AlwaysSoundInv, PTL

(* A run of a sound program leaves the caller's inputs as they were.       *)
THEOREM InputsAreRight ==
  ASSUME \A p \in Programs : Sound(p)
  PROVE  Spec => []InputsIntact
<1>1. SoundInv => InputsIntact
  <2> SUFFICES ASSUME SoundInv, inst = 0, runs > 0, NEW f \in OfType("feed")
               PROVE  outlinks[f] \subseteq contents[FeedItem(f)]
    BY DEF InputsIntact
  <2>1. FeedInv
    BY DEF SoundInv, RuntimeInv
  <2> QED
    BY <2>1 DEF FeedInv
<1> QED
  BY <1>1, AlwaysSoundInv, PTL
=============================================================================
