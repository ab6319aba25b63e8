--------------------------- MODULE Subgraph_proofs ---------------------------
(***************************************************************************)
(* The NPU pass runs every statement once, wherever it stops, and wires a  *)
(* model as the statements were, for every program, order and numbering.   *)
(* What it leaves has no cycle when no path leaves what is linked on the   *)
(* NPU and comes back, and is linked as the program was when what is       *)
(* linked descends from one operator.                                      *)
(***************************************************************************)
EXTENDS Subgraph, SSAGraph_proofs, FiniteSetTheorems, WellFoundedInduction, TLAPS

Touched(p, k) == UNION {p.ops[t].in \cup p.ops[t].out : t \in 1..k}

\* The links, before and after statements are replaced.
GraphInv ==
  /\ program \in Programs /\ built \in 0..Len(program.ops)
  /\ DOMAIN outlinks = Stmts
  /\ \A s \in Stmts : inlinks[s] \subseteq ArgNode /\ outlinks[s] \subseteq ArgNode
  /\ \A s \in Stmts \cap Original : \A m, n \in outlinks[s] : m[1] = n[1] => m = n
  /\ WritesOnce(program) => \A s \in Stmts : \A n \in inlinks[s] \cup outlinks[s] : n[2] = 0

\* While the graph is built nothing is numbered.
BuildingInv ==
  stage = "build" =>
    /\ BuildInv
    /\ WritesOnce(program) =>
         \A x \in DOMAIN latest : x \in Touched(program, built) /\ latest[x] = 0
    /\ DOMAIN sub_id = {} /\ sub_num = 0 /\ at = 1

NumberInv ==
  /\ sub_num \in Nat /\ at \in Nat \ {0}
  /\ todo \subseteq ArgNode
  /\ stage # "number" => todo = {}
  /\ stage \in {"build", "number"} => Stmts = Original /\ pending = {} /\ open = 0
  /\ stage # "build" =>
       /\ DOMAIN sub_id = Original /\ Stmts \subseteq DOMAIN desc
       /\ order \in Seq(Original)
  /\ \A s \in DOMAIN sub_id : sub_id[s] \in -1..sub_num

\* What is replaced has a number that is neither open nor to come, and every
\* graph_op stands for statements that are gone.
ReplacedInv ==
  /\ pending \subseteq 1..sub_num /\ open \in 0..sub_num /\ open \notin pending
  /\ \A s \in Original \ Stmts :
       sub_id[s] \in 1..sub_num /\ sub_id[s] \notin pending \cup {open} /\ built + sub_id[s] \in Stmts
  /\ \A g \in Stmts \ Original :
       /\ g \in Nat /\ g - built \in 1..sub_num /\ g - built \notin pending \cup {open}
       /\ Members(g - built) \cap Stmts = {}

Produced(p) == \A n \in outlinks[p] : n[1] \in DOMAIN converted

\* A producer inside of the model is converted, or to be converted earlier.
ConvertInv ==
  /\ \A x \in DOMAIN converted : converted[x] \in ArgNode /\ converted[x][1] = x
  /\ WritesOnce(program) => \A x \in DOMAIN converted : converted[x][2] = 0
  /\ open # 0 =>
       /\ conv \in Seq(Members(open))
       /\ \A k \in 1..Len(conv) : \A p \in AdjList[conv[k]] \cap Members(open) :
            Produced(p) \/ \E l \in 1..(k - 1) : conv[l] = p

SubgraphInv == GraphInv /\ BuildingInv /\ NumberInv /\ ReplacedInv /\ ConvertInv

-----------------------------------------------------------------------------
LEMMA SubOpFacts ==
  ASSUME GraphInv
  PROVE  /\ built \in Nat /\ Len(program.ops) \in Nat
         /\ \A s \in 1..Len(program.ops) :
              program.ops[s].in \subseteq Name /\ program.ops[s].out \subseteq Name
<1>1. program.ops \in Seq(Operator)
  BY ProgramsAssumption DEF GraphInv
<1>2. Len(program.ops) \in Nat /\ \A s \in 1..Len(program.ops) : program.ops[s] \in Operator
  BY <1>1
<1> QED
  BY <1>2 DEF GraphInv, Operator

\* An order of some statements lists them, each after what it reads.
LEMMA OrdersFacts ==
  ASSUME NEW S, IsFiniteSet(S), NEW o \in OrdersOf(S)
  PROVE  /\ o \in Seq(S)
         /\ \A k \in 1..Len(o) : \A p \in AdjList[o[k]] \cap S : \E l \in 1..(k - 1) : o[l] = p
<1>1. o \in [1..Cardinality(S) -> S]
  BY DEF OrdersOf, SetToSeqs
<1>2. Cardinality(S) \in Nat
  BY FS_CardinalityType
<1>3. o \in Seq(S)
  BY <1>1, <1>2
<1>4. ASSUME NEW k \in 1..Len(o), NEW p \in AdjList[o[k]] \cap S
      PROVE  \E l \in 1..(k - 1) : o[l] = p
  <2>1. k \in DOMAIN o /\ Len(o) \in Nat
    BY <1>3
  <2>2. Listed(SubSeq(o, 1, k - 1), p)
    BY <2>1, <1>4 DEF OrdersOf
  <2>3. Len(SubSeq(o, 1, k - 1)) = k - 1 /\ \A l \in 1..(k - 1) : SubSeq(o, 1, k - 1)[l] = o[l]
    BY <1>3, <2>1
  <2>4. DOMAIN SubSeq(o, 1, k - 1) = 1..(k - 1)
    BY <1>3, <2>1, <2>3
  <2> QED
    BY <2>2, <2>3, <2>4 DEF Listed
<1> QED
  BY <1>3, <1>4

\* Producers and readers depend on the links alone.
LEMMA SameGraph ==
  ASSUME UNCHANGED graphVars
  PROVE  /\ Stmts' = Stmts /\ AdjList' = AdjList /\ Original' = Original
         /\ BuildInv' <=> BuildInv
         /\ GraphInv => GraphInv'
BY DEF graphVars, Stmts, AdjList, Original, Producers, BuildInv, GraphTypeOK, LatestInv,
       LinksInv, IsLastOf, Writers, WritersBefore, GraphInv

LEMMA InitSubgraphInv == Init => SubgraphInv
<1> SUFFICES ASSUME Init PROVE SubgraphInv
  OBVIOUS
<1>1. BuildInv
  BY InitBuildInv DEF Init
<1>2. Stmts = {} /\ Original = {} /\ DOMAIN outlinks = {} /\ DOMAIN latest = {}
  BY DEF Init, GraphInit, NoEntries, Stmts, Original
<1>3. GraphInv
  BY <1>1, <1>2 DEF BuildInv, GraphTypeOK, GraphInv
<1>4. BuildingInv
  BY <1>1, <1>2 DEF Init, BuildingInv, NoEntries
<1>5. NumberInv
  BY <1>2 DEF Init, NumberInv, NoEntries
<1>6. ReplacedInv
  BY <1>2 DEF Init, ReplacedInv
<1>7. ConvertInv
  BY DEF Init, ConvertInv, NoEntries
<1> QED
  BY <1>3, <1>4, <1>5, <1>6, <1>7 DEF SubgraphInv

LEMMA BuildStep ==
  ASSUME SubgraphInv, BuildGraph
  PROVE  SubgraphInv'
<1> DEFINE s == built + 1
           op == program.ops[s]
           R == AfterReads(op)
           W == AfterWrites(op)
<1>1. /\ stage = "build" /\ stage' = stage /\ BuildOp
      /\ GraphInv /\ BuildInv /\ NumberInv /\ GraphTypeOK
      /\ DOMAIN sub_id = {} /\ sub_num = 0 /\ at = 1
  BY DEF BuildGraph, SubgraphInv, BuildingInv, BuildInv
<1>2. BuildInv'
  BY <1>1, NextBuildInv
<1>3. /\ built \in Nat /\ s \in 1..Len(program.ops) /\ Len(program.ops) \in Nat
      /\ op.in \subseteq Name /\ op.out \subseteq Name
  BY <1>1, SubOpFacts DEF BuildOp
<1>4. /\ built' = s /\ program' = program /\ latest' = W
      /\ inlinks' = Assign(inlinks, s, {<<x, R[x]>> : x \in op.in})
      /\ outlinks' = Assign(outlinks, s, {<<x, W[x]>> : x \in op.out})
  BY <1>1 DEF BuildOp
<1>5. /\ DOMAIN inlinks' = 1..s /\ DOMAIN outlinks' = 1..s
      /\ \A t \in 1..built : inlinks'[t] = inlinks[t] /\ outlinks'[t] = outlinks[t]
      /\ inlinks'[s] = {<<x, R[x]>> : x \in op.in}
      /\ outlinks'[s] = {<<x, W[x]>> : x \in op.out}
  BY <1>1, <1>3, <1>4 DEF Assign, GraphTypeOK
<1>6. \A t \in 1..s : t \in 1..built \/ t = s
  BY <1>3
<1>7. GraphTypeOK'
  BY <1>2 DEF BuildInv
<1>8. /\ DOMAIN R = DOMAIN latest \cup op.in
      /\ DOMAIN W = DOMAIN latest \cup op.in \cup op.out
      /\ \A x \in DOMAIN latest : R[x] = latest[x]
      /\ \A x \in op.in \ DOMAIN latest : R[x] = 0
      /\ \A x \in op.out \ (DOMAIN latest \cup op.in) : W[x] = 0
      /\ \A x \in (DOMAIN latest \cup op.in) \ op.out : W[x] = R[x]
  BY <1>1, <1>3, VersionFacts
<1> HIDE DEF R, W
<1>9. ASSUME WritesOnce(program)
      PROVE  /\ \A x \in op.in : R[x] = 0
             /\ \A x \in op.out : W[x] = 0
             /\ \A x \in DOMAIN W : x \in Touched(program, s) /\ W[x] = 0
  <2>1. \A x \in DOMAIN latest : x \in Touched(program, built) /\ latest[x] = 0
    BY <1>1, <1>9 DEF SubgraphInv, BuildingInv
  <2>2. \A x \in op.in : R[x] = 0
    BY <1>8, <2>1
  <2>3. \A x \in op.out : x \notin op.in /\ x \notin Touched(program, built)
    BY <1>3, <1>9 DEF WritesOnce, Touched
  <2>4. \A x \in op.out : W[x] = 0
    BY <1>8, <2>1, <2>3
  <2>5. \A x \in DOMAIN W : W[x] = 0
    BY <1>8, <2>1, <2>2, <2>4
  <2>6. Touched(program, s) = Touched(program, built) \cup op.in \cup op.out
    BY <1>3, <1>6 DEF Touched
  <2> QED
    BY <1>8, <2>1, <2>2, <2>4, <2>5, <2>6
<1>10. GraphInv'
  <2>1. program' \in Programs /\ built' \in 0..Len(program'.ops) /\ DOMAIN outlinks' = Stmts'
    BY <1>7 DEF GraphTypeOK, Stmts
  <2>2. \A t \in Stmts' : inlinks'[t] \subseteq ArgNode /\ outlinks'[t] \subseteq ArgNode
    BY <1>4, <1>7 DEF GraphTypeOK, Stmts
  <2>3. ASSUME NEW t \in 1..s, NEW m \in outlinks'[t], NEW n \in outlinks'[t], m[1] = n[1]
        PROVE  m = n
    <3>1. CASE t \in 1..built
      BY <1>1, <1>5, <2>3, <3>1 DEF GraphInv, GraphTypeOK, Stmts, Original
    <3>2. CASE t = s
      BY <1>5, <2>3, <3>2
    <3> QED
      BY <1>6, <3>1, <3>2
  <2>4. ASSUME WritesOnce(program), NEW t \in 1..s, NEW n \in inlinks'[t] \cup outlinks'[t]
        PROVE  n[2] = 0
    <3>1. CASE t \in 1..built
      BY <1>1, <1>5, <2>4, <3>1 DEF GraphInv, GraphTypeOK, Stmts
    <3>2. CASE t = s
      BY <1>5, <1>9, <2>4, <3>2
    <3> QED
      BY <1>6, <3>1, <3>2
  <2> QED
    BY <1>4, <1>5, <2>1, <2>2, <2>3, <2>4 DEF GraphInv, Stmts
<1>11. BuildingInv'
  BY <1>1, <1>2, <1>4, <1>9 DEF BuildGraph, numberVars, BuildingInv
<1>12. NumberInv'
  BY <1>1, <1>4, <1>5 DEF BuildGraph, numberVars, convertVars, NumberInv, Stmts, Original
<1>13. ReplacedInv'
  BY <1>1, <1>12 DEF NumberInv, ReplacedInv
<1>14. ConvertInv'
  BY <1>1, <1>4 DEF BuildGraph, numberVars, convertVars, NumberInv, SubgraphInv, ConvertInv
<1> QED
  BY <1>10, <1>11, <1>12, <1>13, <1>14 DEF SubgraphInv

LEMMA NumberStep ==
  ASSUME SubgraphInv, InitSubgraphID \/ SkipStmt \/ OpenSubgraph \/ EndNumbering
                      \/ \E n \in todo : VisitVar(n)
  PROVE  SubgraphInv'
<1>1. UNCHANGED graphVars
  BY DEF InitSubgraphID, SkipStmt, OpenSubgraph, EndNumbering, VisitVar
<1>2. GraphInv /\ GraphInv' /\ Stmts' = Stmts /\ Original' = Original /\ built' = built /\ built \in Nat
  BY <1>1, SameGraph, SubOpFacts DEF SubgraphInv, graphVars
<1>3. /\ stage \in {"build", "number"} /\ stage' # "build"
      /\ Stmts = Original /\ pending = {} /\ open = 0 /\ open' = 0 /\ converted' = converted
  BY DEF InitSubgraphID, SkipStmt, OpenSubgraph, EndNumbering, VisitVar, AtStmt, SubgraphInv,
         NumberInv, convertVars
<1>4. BuildingInv'
  BY <1>3 DEF BuildingInv
<1>5. ConvertInv'
  BY <1>1, <1>3 DEF SubgraphInv, ConvertInv, graphVars
<1>6. NumberInv' /\ pending' \subseteq 1..sub_num'
  <2>1. NumberInv
    BY DEF SubgraphInv
  <2>2. CASE InitSubgraphID
    <3>1. Stmts = 1..built /\ IsFiniteSet(Stmts)
      BY <1>2, <1>3, FS_Interval DEF Original
    <3>2. order' \in Seq(Original)
      BY <1>3, <2>2, <3>1, OrdersFacts DEF InitSubgraphID
    <3> QED
      BY <1>2, <1>3, <2>1, <2>2, <3>2 DEF InitSubgraphID, NumberInv
  <2>3. CASE SkipStmt
    BY <1>2, <1>3, <2>1, <2>3 DEF SkipStmt, AtStmt, NumberInv, convertVars
  <2>4. CASE OpenSubgraph
    <3>1. at \in 1..Len(order) /\ order \in Seq(Original)
      BY <2>1, <2>4 DEF OpenSubgraph, AtStmt, NumberInv
    <3>2. outlinks[order[at]] \subseteq ArgNode
      BY <1>2, <1>3, <3>1 DEF GraphInv
    <3>3. \A s \in DOMAIN sub_id' : sub_id'[s] \in -1..(sub_num + 1)
      BY <2>1, <2>4 DEF OpenSubgraph, NumberInv
    <3> QED
      BY <1>2, <1>3, <2>1, <2>4, <3>2, <3>3 DEF OpenSubgraph, AtStmt, NumberInv, convertVars
  <2>5. CASE EndNumbering
    BY <1>2, <1>3, <2>1, <2>5 DEF EndNumbering, NumberInv, numberVars
  <2>6. ASSUME NEW n \in todo, VisitVar(n) PROVE NumberInv' /\ pending' \subseteq 1..sub_num'
    <3>1. Joining(n) \subseteq Stmts
      BY DEF Joining, Consumers, Stmts
    <3>2. todo' \subseteq ArgNode
      BY <1>2, <2>1, <2>6, <3>1 DEF VisitVar, NumberInv, GraphInv
    <3>3. \A s \in DOMAIN sub_id' : sub_id'[s] \in -1..sub_num
      BY <1>2, <1>3, <2>1, <2>6 DEF VisitVar, NumberInv
    <3> QED
      BY <1>2, <1>3, <2>1, <2>6, <3>2, <3>3 DEF VisitVar, NumberInv, convertVars
  <2> QED
    BY <2>2, <2>3, <2>4, <2>5, <2>6
<1>7. ReplacedInv'
  BY <1>2, <1>3, <1>6 DEF NumberInv, ReplacedInv
<1> QED
  BY <1>2, <1>4, <1>5, <1>6, <1>7 DEF SubgraphInv

\* The statements of a number that was not replaced are all there.
LEMMA MembersThere ==
  ASSUME SubgraphInv, stage # "build", NEW k \in pending \cup {open}
  PROVE  Members(k) \subseteq Stmts \cap Original /\ IsFiniteSet(Members(k))
<1>1. Members(k) \subseteq Original /\ Members(k) \subseteq Stmts
  BY DEF SubgraphInv, NumberInv, ReplacedInv, Members
<1>2. IsFiniteSet(Original)
  BY FS_Interval, SubOpFacts DEF SubgraphInv, Original
<1> QED
  BY <1>1, <1>2, FS_Subset

LEMMA BeginStep ==
  ASSUME SubgraphInv, NEW k \in pending, BeginSubgraph(k)
  PROVE  SubgraphInv'
<1>1. UNCHANGED graphVars /\ UNCHANGED <<stage, numberVars, desc>> /\ stage = "convert"
      /\ GraphInv /\ NumberInv /\ ReplacedInv
  BY DEF BeginSubgraph, SubgraphInv
<1>2. GraphInv' /\ Stmts' = Stmts /\ Original' = Original /\ AdjList' = AdjList /\ built' = built
  BY <1>1, SameGraph DEF graphVars
<1>3. \A l : Members(l)' = Members(l)
  BY <1>1 DEF Members, numberVars
<1>4. pending' = pending \ {k} /\ open' = k /\ open = 0 /\ converted' = NoEntries
      /\ conv' \in OrdersOf(Members(k))
  BY DEF BeginSubgraph, GetTopologicalOrder
<1>5. BuildingInv'
  BY <1>1 DEF BuildingInv
<1>6. NumberInv'
  BY <1>1, <1>2 DEF NumberInv, numberVars
<1>7. ReplacedInv'
  <2>1. k \in 1..sub_num /\ sub_num \in Nat /\ sub_num' = sub_num /\ sub_id' = sub_id
    BY <1>1 DEF NumberInv, ReplacedInv, numberVars
  <2> QED
    BY <1>1, <1>2, <1>3, <1>4, <2>1 DEF ReplacedInv
<1>8. ConvertInv'
  <2>1. IsFiniteSet(Members(k))
    BY <1>1, MembersThere
  <2>2. /\ conv' \in Seq(Members(k))
        /\ \A l \in 1..Len(conv') : \A p \in AdjList[conv'[l]] \cap Members(k) :
             \E h \in 1..(l - 1) : conv'[h] = p
    BY <1>4, <2>1, OrdersFacts
  <2> QED
    BY <1>2, <1>3, <1>4, <2>2 DEF ConvertInv, NoEntries
<1> QED
  BY <1>2, <1>5, <1>6, <1>7, <1>8 DEF SubgraphInv

LEMMA ConvertStep ==
  ASSUME SubgraphInv, ConvertOp
  PROVE  SubgraphInv'
<1> DEFINE s == Head(conv)
           nodes == {n \in inlinks[s] : ~IsWeight(n)} \cup outlinks[s]
           IsFirst(x, n) == n[1] = x /\ (n \in inlinks[s] \/ \A m \in nodes : m[1] = x => m = n)
           First(x) == CHOOSE n \in nodes : IsFirst(x, n)
           named == {n[1] : n \in nodes}
<1>1. UNCHANGED graphVars /\ UNCHANGED <<stage, numberVars, pending, open, desc>>
      /\ open # 0 /\ conv # <<>> /\ conv' = Tail(conv)
      /\ GraphInv /\ NumberInv /\ ReplacedInv /\ ConvertInv
  BY DEF ConvertOp, SubgraphInv
<1>2. GraphInv' /\ Stmts' = Stmts /\ Original' = Original /\ AdjList' = AdjList
      /\ built' = built /\ program' = program /\ outlinks' = outlinks
  BY <1>1, SameGraph DEF graphVars
<1>3. \A l : Members(l)' = Members(l)
  BY <1>1 DEF Members, numberVars
<1>4. BuildingInv'
  <2>1. stage # "build"
    BY <1>1 DEF NumberInv
  <2> QED
    BY <1>1, <2>1 DEF BuildingInv
<1>5. NumberInv' /\ ReplacedInv'
  BY <1>1, <1>2, <1>3 DEF NumberInv, ReplacedInv, numberVars
<1>6. conv \in Seq(Members(open)) /\ s \in Members(open) /\ s \in Stmts \cap Original
  <2>1. stage # "build"
    BY <1>1 DEF NumberInv
  <2>2. conv \in Seq(Members(open))
    BY <1>1 DEF ConvertInv
  <2> QED
    BY <1>1, <2>1, <2>2, MembersThere
<1>7. nodes \subseteq ArgNode /\ (WritesOnce(program) => \A n \in nodes : n[2] = 0)
  BY <1>1, <1>6 DEF GraphInv
<1>8. \A x \in named : First(x) \in nodes /\ First(x)[1] = x
  <2> SUFFICES ASSUME NEW x \in named PROVE \E n \in nodes : IsFirst(x, n)
    OBVIOUS
  <2>1. CASE \E n \in nodes \cap inlinks[s] : n[1] = x
    BY <2>1
  <2>2. CASE ~\E n \in nodes \cap inlinks[s] : n[1] = x
    <3>1. PICK n \in nodes : n[1] = x
      OBVIOUS
    <3>2. \A m \in nodes : m[1] = x => m \in outlinks[s]
      BY <2>2
    <3> QED
      BY <1>1, <1>6, <3>1, <3>2 DEF GraphInv
  <2> QED
    BY <2>1, <2>2
<1> HIDE DEF First, IsFirst
<1>9. /\ DOMAIN converted' = DOMAIN converted \cup named
      /\ \A x \in DOMAIN converted : converted'[x] = converted[x]
      /\ \A x \in named \ DOMAIN converted : converted'[x] = First(x)
  <2>1. converted' = [x \in DOMAIN converted \cup named |-> Lookup(converted, x, First(x))]
    BY DEF ConvertOp, First, IsFirst
  <2> HIDE DEF named
  <2> QED
    BY <2>1 DEF Lookup
<1>10. \A x \in DOMAIN converted' :
         /\ converted'[x] \in ArgNode /\ converted'[x][1] = x
         /\ WritesOnce(program) => converted'[x][2] = 0
  BY <1>1, <1>7, <1>8, <1>9 DEF ConvertInv
<1>11. ASSUME NEW k \in 1..Len(conv'), NEW p \in AdjList[conv'[k]] \cap Members(open)
       PROVE  (\A n \in outlinks[p] : n[1] \in DOMAIN converted') \/ \E l \in 1..(k - 1) : conv'[l] = p
  <2>1. /\ Len(conv) \in Nat /\ Len(conv') = Len(conv) - 1
        /\ \A l \in 1..Len(conv') : conv'[l] = conv[l + 1]
    BY <1>1, <1>6
  <2>2. k + 1 \in 1..Len(conv) /\ k \in Nat
    BY <2>1
  <2>3. Produced(p) \/ \E l \in 1..k : conv[l] = p
    BY <1>1, <1>11, <2>1, <2>2 DEF ConvertInv
  <2>4. CASE Produced(p)
    BY <1>9, <2>4 DEF Produced
  <2>5. CASE conv[1] = p
    BY <1>6, <1>9, <2>5
  <2>6. ASSUME NEW l \in 1..k, conv[l] = p, l # 1 PROVE \E h \in 1..(k - 1) : conv'[h] = p
    <3>1. l - 1 \in 1..(k - 1) /\ l - 1 \in 1..Len(conv') /\ (l - 1) + 1 = l
      BY <2>1, <2>2, <2>6
    <3> QED
      BY <2>1, <2>6, <3>1
  <2> QED
    BY <2>3, <2>4, <2>5, <2>6
<1>12. conv' \in Seq(Members(open))
  BY <1>1, <1>6
<1>13. ConvertInv'
  BY <1>1, <1>2, <1>3, <1>10, <1>11, <1>12 DEF ConvertInv, Produced
<1> QED
  BY <1>2, <1>4, <1>5, <1>13 DEF SubgraphInv

LEMMA ReplaceStep ==
  ASSUME SubgraphInv, ReplaceSubgraph
  PROVE  SubgraphInv'
<1> DEFINE stmts == Members(open)
<1>1. /\ UNCHANGED <<program, built, stage, numberVars, pending, conv, converted>>
      /\ open # 0 /\ open' = 0
      /\ GraphInv /\ NumberInv /\ ReplacedInv /\ ConvertInv
  BY DEF ReplaceSubgraph, SubgraphInv
<1>2. stage # "build" /\ built \in Nat /\ open \in 1..sub_num /\ sub_num \in Nat
      /\ stage \notin {"build", "number"}
  BY <1>1, SubOpFacts DEF NumberInv, ReplacedInv
<1>3. stmts \subseteq Stmts \cap Original
  BY <1>2, MembersThere
<1>4. GraphOp \notin Original /\ GraphOp - built = open
  BY <1>2 DEF GraphOp, Original
<1>5. /\ DOMAIN inlinks' = (Stmts \ stmts) \cup {GraphOp}
      /\ DOMAIN outlinks' = (Stmts \ stmts) \cup {GraphOp}
      /\ \A t \in (Stmts \ stmts) \ {GraphOp} :
           inlinks'[t] \subseteq inlinks[t] /\ outlinks'[t] \subseteq outlinks[t]
      /\ inlinks'[GraphOp] \subseteq Read(stmts)
      /\ outlinks'[GraphOp] \subseteq Written(stmts)
      /\ DOMAIN desc' = DOMAIN desc \cup {GraphOp}
  BY <1>1, <1>3 DEF ReplaceSubgraph, Inserted, Remaining, Assign, InDataVars, InWgtVars,
                    OutDataVars, OutUnusedVars, GraphInv, Stmts
<1>6. Original' = Original /\ Stmts' = (Stmts \ stmts) \cup {GraphOp} /\ \A k : Members(k)' = Members(k)
  BY <1>1, <1>5 DEF Original, Stmts, Members, numberVars
<1>7. /\ Read(stmts) \subseteq ArgNode /\ Written(stmts) \subseteq ArgNode
      /\ WritesOnce(program) => \A n \in Read(stmts) \cup Written(stmts) : n[2] = 0
  BY <1>1, <1>3 DEF GraphInv, Read, Written
<1>8. GraphInv'
  <2>1. \A t \in Stmts' : inlinks'[t] \subseteq ArgNode /\ outlinks'[t] \subseteq ArgNode
    BY <1>1, <1>5, <1>6, <1>7 DEF GraphInv
  <2>2. \A t \in Stmts' \cap Original : \A m, n \in outlinks'[t] : m[1] = n[1] => m = n
    BY <1>1, <1>4, <1>5, <1>6 DEF GraphInv
  <2>3. WritesOnce(program) => \A t \in Stmts' : \A n \in inlinks'[t] \cup outlinks'[t] : n[2] = 0
    BY <1>1, <1>5, <1>6, <1>7 DEF GraphInv
  <2> QED
    BY <1>1, <1>5, <1>6, <2>1, <2>2, <2>3 DEF GraphInv
<1>9. BuildingInv' /\ NumberInv'
  BY <1>1, <1>2, <1>5, <1>6 DEF BuildingInv, NumberInv, numberVars
<1>10. ReplacedInv'
  <2>1. sub_num' = sub_num /\ sub_id' = sub_id /\ built' = built /\ pending' = pending
    BY <1>1 DEF numberVars
  <2>2. pending \subseteq 1..sub_num /\ open \notin pending /\ 0 \notin pending
    BY <1>1 DEF ReplacedInv
  <2>3. ASSUME NEW t \in Original \ Stmts'
        PROVE  sub_id[t] \in 1..sub_num /\ sub_id[t] \notin pending \cup {0} /\ built + sub_id[t] \in Stmts'
    <3>1. CASE t \in Stmts
      <4>1. sub_id[t] = open
        BY <1>6, <2>3, <3>1 DEF Members
      <4> QED
        BY <1>2, <1>6, <2>2, <4>1 DEF GraphOp
    <3>2. CASE t \notin Stmts
      <4>1. sub_id[t] \in 1..sub_num /\ sub_id[t] \notin pending /\ built + sub_id[t] \in Stmts
        BY <1>1, <2>3, <3>2 DEF ReplacedInv
      <4>2. built + sub_id[t] \notin stmts
        BY <1>2, <1>3, <4>1 DEF Original
      <4> QED
        BY <1>6, <4>1, <4>2
    <3> QED
      BY <3>1, <3>2
  <2>4. ASSUME NEW g \in Stmts' \ Original
        PROVE  /\ g \in Nat /\ g - built \in 1..sub_num /\ g - built \notin pending \cup {0}
               /\ Members(g - built) \cap Stmts' = {}
    <3>1. Members(g - built) \subseteq Original
      BY <1>1, <1>2 DEF NumberInv, Members
    <3>2. CASE g = GraphOp
      BY <1>2, <1>4, <1>6, <2>2, <3>1, <3>2 DEF GraphOp
    <3>3. CASE g # GraphOp
      <4>1. g \in Stmts \ Original
        BY <1>6, <2>4, <3>3
      <4>2. /\ g \in Nat /\ g - built \in 1..sub_num /\ g - built \notin pending \cup {0}
            /\ Members(g - built) \cap Stmts = {}
        BY <1>1, <4>1 DEF ReplacedInv
      <4> QED
        BY <1>4, <1>6, <3>1, <4>2
    <3> QED
      BY <3>2, <3>3
  <2> QED
    BY <1>1, <1>2, <1>6, <2>1, <2>2, <2>3, <2>4 DEF ReplacedInv
<1>11. ConvertInv'
  BY <1>1 DEF ConvertInv
<1> QED
  BY <1>8, <1>9, <1>10, <1>11 DEF SubgraphInv

LEMMA StopStep ==
  ASSUME SubgraphInv, BuildFails \/ Generate
  PROVE  SubgraphInv'
<1>1. UNCHANGED graphVars /\ UNCHANGED <<numberVars, pending, conv, converted, desc>>
      /\ open' = 0 /\ stage' = "generated" /\ SubgraphInv /\ stage \notin {"build", "number"}
  BY DEF BuildFails, Generate, convertVars, SubgraphInv, NumberInv
<1>2. GraphInv' /\ Stmts' = Stmts /\ Original' = Original /\ built' = built /\ program' = program
  BY <1>1, SameGraph DEF graphVars, SubgraphInv
<1>3. \A l : Members(l)' = Members(l)
  BY <1>1 DEF Members, numberVars
<1>4. BuildingInv' /\ NumberInv' /\ ConvertInv'
  BY <1>1, <1>2 DEF SubgraphInv, BuildingInv, NumberInv, ConvertInv, numberVars
<1>5. ReplacedInv'
  BY <1>1, <1>2, <1>3 DEF SubgraphInv, NumberInv, ReplacedInv, numberVars
<1> QED
  BY <1>2, <1>4, <1>5 DEF SubgraphInv

(* The pass keeps what its stages rely on, in any order and until any      *)
(* model that cannot be built.                                             *)
THEOREM SubgraphInvariant == Spec => []SubgraphInv
<1>1. SubgraphInv /\ [Next]_vars => SubgraphInv'
  <2> SUFFICES ASSUME SubgraphInv, [Next]_vars PROVE SubgraphInv'
    OBVIOUS
  <2>1. CASE UNCHANGED vars
    <3>1. UNCHANGED graphVars /\ UNCHANGED <<stage, numberVars, convertVars>> /\ UNCHANGED latest
      BY <2>1 DEF vars, graphVars
    <3>2. /\ GraphInv' /\ (BuildInv' <=> BuildInv) /\ Stmts' = Stmts /\ Original' = Original
          /\ AdjList' = AdjList /\ built' = built /\ program' = program /\ outlinks' = outlinks
      BY <3>1, SameGraph DEF SubgraphInv, graphVars
    <3>3. \A l : Members(l)' = Members(l)
      BY <3>1 DEF Members, numberVars
    <3>4. BuildingInv' /\ NumberInv' /\ ReplacedInv'
      BY <3>1, <3>2, <3>3 DEF SubgraphInv, BuildingInv, NumberInv, ReplacedInv, numberVars, convertVars
    <3>5. ConvertInv'
      BY <3>1, <3>2, <3>3 DEF SubgraphInv, ConvertInv, Produced, convertVars
    <3> QED
      BY <3>2, <3>4, <3>5 DEF SubgraphInv
  <2> QED
    BY <2>1, BuildStep, NumberStep, BeginStep, ConvertStep, ReplaceStep, StopStep DEF Next
<1> QED
  BY <1>1, InitSubgraphInv, PTL DEF Spec

(* Ids, descriptions and converted variables are those of the program, for *)
(* every program.                                                          *)
THEOREM SubgraphTypeCorrect == Spec => []TypeOK
<1>1. SubgraphInv => TypeOK
  BY DEF SubgraphInv, GraphInv, NumberInv, ReplacedInv, ConvertInv, TypeOK
<1> QED
  BY <1>1, SubgraphInvariant, PTL

(* Wherever the pass stops, each operator of the program is a statement or *)
(* part of one model, for every program, order and numbering.              *)
THEOREM StatementsRunOnce == Spec => []EachStatementOnce
<1>1. SubgraphInv => EachStatementOnce
  BY DEF SubgraphInv, ReplacedInv, EachStatementOnce, Home
<1> QED
  BY <1>1, SubgraphInvariant, PTL

(* A model is wired as the statements were, for every program that writes  *)
(* no name twice and none after it was read.                               *)
THEOREM ModelsAreWired == Spec => [](WritesOnce(program) => ConvertsWhatItReads)
<1>1. SubgraphInv => (WritesOnce(program) => ConvertsWhatItReads)
  <2> SUFFICES ASSUME SubgraphInv, WritesOnce(program), open # 0, conv # <<>>,
                      NEW n \in inlinks[Head(conv)], ~IsWeight(n)
               PROVE  IF n[1] \in DOMAIN converted THEN converted[n[1]] = n
                      ELSE n \in InDataVars(Members(open))
    BY DEF ConvertsWhatItReads
  <2>1. /\ conv \in Seq(Members(open)) /\ Head(conv) = conv[1] /\ 1 \in 1..Len(conv)
        /\ stage # "build"
    BY DEF SubgraphInv, ConvertInv, NumberInv
  <2>2. Head(conv) \in Members(open) /\ Head(conv) \in Stmts
    BY <2>1, MembersThere
  <2>3. n \in ArgNode /\ n[2] = 0
    BY <2>2 DEF SubgraphInv, GraphInv
  <2>4. CASE n[1] \in DOMAIN converted
    <3>1. converted[n[1]] \in ArgNode /\ converted[n[1]][1] = n[1] /\ converted[n[1]][2] = 0
      BY <2>4 DEF SubgraphInv, ConvertInv
    <3> QED
      BY <2>3, <2>4, <3>1 DEF ArgNode
  <2>5. CASE n[1] \notin DOMAIN converted
    <3>1. ASSUME NEW p \in Producers(n) \cap Members(open) PROVE FALSE
      <4>1. p \in AdjList[conv[1]]
        BY <2>1, <2>2, <3>1 DEF AdjList, Stmts
      <4>2. Produced(p)
        BY <2>1, <3>1, <4>1 DEF SubgraphInv, ConvertInv
      <4> QED
        BY <2>5, <3>1, <4>2 DEF Produced, Producers
    <3> QED
      BY <2>2, <2>5, <3>1 DEF InDataVars, Read
  <2> QED
    BY <2>4, <2>5
<1> QED
  BY <1>1, SubgraphInvariant, PTL

-----------------------------------------------------------------------------
(* Numbers, layers and heads.                                              *)

Nodes(names) == {<<x, 0>> : x \in names}
ReadIn(k) == UNION {program.ops[s].in : s \in Members(k)}
WrittenIn(k) == UNION {program.ops[s].out : s \in Members(k)}
Readers(x) == {t \in Original : x \in program.ops[t].in}

\* A statement is linked and described as the program says, and a graph_op
\* reads and writes what its members do not pass on to each other.
LinkedInv ==
  /\ \A s \in Stmts \cap Original :
       /\ inlinks[s] = Nodes(program.ops[s].in) /\ outlinks[s] = Nodes(program.ops[s].out)
       /\ stage # "build" => desc[s].in = program.ops[s].in
  /\ \A g \in Stmts \ Original :
       LET k == g - built IN
         /\ inlinks[g] = Nodes(ReadIn(k) \ WrittenIn(k))
         /\ outlinks[g] = Nodes(WrittenIn(k) \ ReadIn(k))
         /\ desc[g].in = ReadIn(k) \ (WrittenIn(k) \cup program.weights)

\* The statements of the program that one of the graph stands for.
Parts(s) == IF s \in Original THEN {s} ELSE Members(s - built)

\* The links there are come from what the parts read and write, and a graph_op
\* reads nothing that is written in it.
EdgeInv ==
  /\ \A s \in Stmts \cap Original : outlinks[s] = Nodes(program.ops[s].out)
  /\ \A s \in Stmts : \A n \in outlinks[s] : \E q \in Parts(s) : n \in Nodes(program.ops[q].out)
  /\ \A s \in Stmts : \A n \in inlinks[s] : \E t \in Parts(s) : n \in Nodes(program.ops[t].in)
  /\ \A g \in Stmts \ Original : \A n \in inlinks[g] : n[1] \notin WrittenIn(g - built)

\* The loop comes to every statement, and to what it reads before.
Searched ==
  /\ \A i \in 1..Len(order) : \A p \in Original :
       program.ops[p].out \cap program.ops[order[i]].in # {} => \E l \in 1..(i - 1) : order[l] = p
  /\ \A s \in Original : \E i \in 1..Len(order) : order[i] = s
  /\ \A i \in 1..(at - 1) : i <= Len(order) => sub_id[order[i]] # 0
  /\ stage # "number" => at > Len(order)

\* A number is passed on wherever a variable leads, but for what an earlier
\* number has taken; what is not yet passed on is to be visited.
PassedOn ==
  /\ \A n \in todo : sub_num > 0 /\ \E p \in Members(sub_num) : n \in Nodes(program.ops[p].out)
  /\ \A p \in Original : \A x \in program.ops[p].out :
       sub_id[p] > 0 /\ Leads(program, p, x) /\ <<x, 0>> \notin todo =>
         \A t \in Readers(x) : sub_id[t] > 0 /\ sub_id[t] <= sub_id[p]

FloodInv ==
  /\ built = Len(program.ops)
  /\ \A s \in Original : sub_id[s] >= 0 <=> program.ops[s].type \in Supported
  /\ Searched /\ PassedOn

Labels == [1..Len(program.ops) -> 1..Len(program.ops)]

\* A number stays in one layer.
OneLayer(layer) ==
  \A s, t \in Original : sub_id[s] = sub_id[t] /\ sub_id[s] > 0 => layer[s] = layer[t]

\* What has a number has it from its head.
FromHead(head) == \A s \in Original : sub_id[s] > 0 => head[s] \in Members(sub_id[s])

NumbersInv ==
  stage # "build" =>
    /\ FloodInv
    /\ \A layer \in Labels : IsLayering(program, layer) => OneLayer(layer)
    /\ \A head \in Labels : IsHeading(program, head) => FromHead(head)

\* The programs the pass is right for.
Sound == WritesOnce(program) /\ KeepsWeights(program) /\ Layered(program) /\ OneHead(program)

LinkedWhile == stage \in {"build", "number"} \/ Sound => LinkedInv

WiredInv ==
  /\ WritesOnce(program) => NumbersInv /\ LinkedWhile
  /\ WritesOnce(program) /\ KeepsWeights(program) => EdgeInv

\* A set of numbers that is not empty has a least one.
LEMMA LeastOf ==
  ASSUME NEW S, S \subseteq Nat, S # {}
  PROVE  \E k \in S : \A l \in S : k <= l
<1> DEFINE R == {p \in Nat \X Nat : p[1] < p[2]}
<1>1. IsWellFoundedOn(R, Nat)
  BY NatLessThanWellFounded, Zenon DEF OpToRel
<1>2. \A k, l \in Nat : <<l, k>> \notin R => k <= l
  OBVIOUS
<1> HIDE DEF R
<1>3. \E k \in S : \A l \in S : <<l, k>> \notin R
  BY <1>1, WFMin
<1> QED
  BY <1>2, <1>3

LEMMA NodesFacts ==
  ASSUME NEW S, NEW n \in Nodes(S)
  PROVE  n[1] \in S /\ n = <<n[1], 0>>
BY DEF Nodes

LEMMA NodeOf ==
  ASSUME NEW S, NEW x
  PROVE  <<x, 0>> \in Nodes(S) <=> x \in S
BY DEF Nodes

\* Who writes and reads a variable, when names are written once.
LEMMA OnceFacts ==
  ASSUME SubgraphInv, WritesOnce(program)
  PROVE  /\ built \in Nat /\ Original \subseteq Nat /\ Original \subseteq 1..Len(program.ops)
         /\ \A p, q \in Original : program.ops[p].out \cap program.ops[q].out # {} => p = q
         /\ \A p, t \in Original : program.ops[p].out \cap program.ops[t].in # {} => p < t
<1>1. built \in Nat /\ Len(program.ops) \in Nat /\ Original \subseteq 1..Len(program.ops)
  BY SubOpFacts DEF SubgraphInv, GraphInv, Original
<1>3. \A p \in Original : \A x \in program.ops[p].out :
        x \notin program.ops[p].in /\ \A t \in 1..(p - 1) : x \notin program.ops[t].in \cup program.ops[t].out
  BY <1>1 DEF WritesOnce
<1>4. \A p, q \in Original : p < q => p \in 1..(q - 1)
  BY <1>1 DEF Original
<1>5. \A p, q \in Original : p = q \/ p < q \/ q < p
  BY <1>1 DEF Original
<1>6. ASSUME NEW p \in Original, NEW q \in Original, NEW x \in program.ops[p].out, x \in program.ops[q].out
      PROVE  p = q
  BY <1>3, <1>4, <1>5, <1>6
<1>7. ASSUME NEW p \in Original, NEW t \in Original, NEW x \in program.ops[p].out, x \in program.ops[t].in
      PROVE  p < t
  BY <1>3, <1>4, <1>5, <1>7
<1> QED
  BY <1>1, <1>6, <1>7 DEF Original

LEMMA WeightsKept ==
  ASSUME SubgraphInv, KeepsWeights(program)
  PROVE  \A p \in Original : program.ops[p].out \cap program.weights = {}
<1>1. Original \subseteq 1..Len(program.ops)
  BY SubOpFacts DEF SubgraphInv, GraphInv, Original
<1> QED
  BY <1>1 DEF KeepsWeights

\* A sequence that lists a set without repetition lists all of it.
LEMMA OrderListsAll ==
  ASSUME NEW S, IsFiniteSet(S), NEW o \in OrdersOf(S), NEW s \in S
  PROVE  \E i \in 1..Len(o) : o[i] = s
<1> DEFINE n == Cardinality(S)
<1>1. /\ o \in [1..n -> S] /\ n \in Nat
      /\ \A i, j \in 1..n : i # j => o[i] # o[j]
  BY FS_CardinalityType DEF OrdersOf, SetToSeqs
<1>2. IsFiniteSet(1..n) /\ Cardinality(1..n) = n
  BY <1>1, FS_Interval
<1>3. o \in Injection(1..n, S)
  BY <1>1 DEF Injection, IsInjective
<1>4. o \in Surjection(1..n, S)
  BY <1>2, <1>3, FS_Injection
<1>5. \E i \in 1..n : o[i] = s
  BY <1>4 DEF Surjection
<1>6. Len(o) = n
  BY <1>1
<1> QED
  BY <1>5, <1>6

\* Which variables lead on the NPU, and where they lead.
LEMMA LeadsFacts ==
  ASSUME SubgraphInv, WritesOnce(program), stage # "build", FloodInv,
         NEW p \in Original, NEW x \in program.ops[p].out
  PROVE  /\ Leads(program, p, x) <=> sub_id[p] >= 0 /\ \A t \in Readers(x) : sub_id[t] >= 0
         /\ \A layer \in Labels : IsLayering(program, layer) =>
              \A t \in Readers(x) : IF Leads(program, p, x) THEN layer[t] = layer[p] ELSE layer[p] < layer[t]
         /\ \A head \in Labels : IsHeading(program, head) /\ Leads(program, p, x) =>
              \A t \in Readers(x) : head[t] = head[p]
<1>1. Original = 1..Len(program.ops)
  BY DEF FloodInv, Original
<1>2. \A t : t \in Readers(x) <=> t \in Original /\ x \in program.ops[t].in
  BY DEF Readers
<1>3. Leads(program, p, x) <=> sub_id[p] >= 0 /\ \A t \in Readers(x) : sub_id[t] >= 0
  BY <1>1, <1>2 DEF Leads, FloodInv
<1>4. ASSUME NEW layer \in Labels, IsLayering(program, layer), NEW t \in Readers(x)
      PROVE  IF Leads(program, p, x) THEN layer[t] = layer[p] ELSE layer[p] < layer[t]
  BY <1>1, <1>2, <1>4 DEF IsLayering
<1>5. ASSUME NEW head \in Labels, IsHeading(program, head), Leads(program, p, x), NEW t \in Readers(x)
      PROVE  head[t] = head[p]
  BY <1>1, <1>2, <1>5 DEF IsHeading
<1> QED
  BY <1>3, <1>4, <1>5

LEMMA LabelFacts ==
  ASSUME SubgraphInv, stage # "build", FloodInv, NEW label \in Labels, NEW s \in Original
  PROVE  label[s] \in Original /\ label[s] \in Nat
<1>1. Original = 1..Len(program.ops) /\ Len(program.ops) \in Nat
  BY SubOpFacts DEF FloodInv, Original, SubgraphInv
<1> QED
  BY <1>1 DEF Labels

\* What numbers and links are kept by a step that changes none of them.
LEMMA FloodKept ==
  ASSUME FloodInv, UNCHANGED <<program, built, order, sub_id, sub_num, todo>>,
         \/ at' = at /\ (stage' # "number" => stage # "number" \/ at > Len(order))
         \/ at' = at + 1 /\ at \in Nat /\ at <= Len(order) /\ sub_id[order[at]] # 0 /\ stage' = "number"
  PROVE  FloodInv'
<1>1. Original' = Original /\ \A k : Members(k)' = Members(k)
  BY DEF Original, Members
<1>2. \A x : Readers(x)' = Readers(x)
  BY <1>1 DEF Readers
<1>3. PassedOn'
  BY <1>1, <1>2 DEF FloodInv, PassedOn, Leads, Nodes
<1>4. Searched'
  <2>1. CASE at' = at /\ (stage' # "number" => stage # "number" \/ at > Len(order))
    BY <1>1, <2>1 DEF FloodInv, Searched
  <2>2. CASE at' = at + 1 /\ at \in Nat /\ at <= Len(order) /\ sub_id[order[at]] # 0 /\ stage' = "number"
    <3>1. ASSUME NEW i \in 1..(at' - 1), i <= Len(order) PROVE sub_id[order[i]] # 0
      <4>1. i = at \/ i \in 1..(at - 1)
        BY <2>2
      <4> QED
        BY <2>2, <3>1, <4>1 DEF FloodInv, Searched
    <3> QED
      BY <1>1, <2>2, <3>1 DEF FloodInv, Searched
  <2> QED
    BY <2>1, <2>2
<1> QED
  BY <1>1, <1>3, <1>4 DEF FloodInv

LEMMA LabelsKept ==
  ASSUME UNCHANGED <<program, built, sub_id>>, NEW label
  PROVE  /\ Labels' = Labels
         /\ IsLayering(program, label)' <=> IsLayering(program, label)
         /\ IsHeading(program, label)' <=> IsHeading(program, label)
         /\ OneLayer(label) => OneLayer(label)'
         /\ FromHead(label) => FromHead(label)'
BY DEF Labels, IsLayering, IsHeading, OneLayer, FromHead, Leads, Original, Members

LEMMA NumbersKept ==
  ASSUME NumbersInv, stage # "build", UNCHANGED <<program, built, order, sub_id, sub_num, todo>>,
         \/ at' = at /\ (stage' # "number" => stage # "number" \/ at > Len(order))
         \/ at' = at + 1 /\ at \in Nat /\ at <= Len(order) /\ sub_id[order[at]] # 0 /\ stage' = "number"
  PROVE  NumbersInv'
<1>1. FloodInv'
  BY FloodKept DEF NumbersInv
<1>2. \A layer \in Labels' : IsLayering(program, layer)' => OneLayer(layer)'
  BY LabelsKept DEF NumbersInv
<1>3. \A head \in Labels' : IsHeading(program, head)' => FromHead(head)'
  BY LabelsKept DEF NumbersInv
<1> QED
  BY <1>1, <1>2, <1>3 DEF NumbersInv

LEMMA LinksKept ==
  ASSUME LinkedInv, UNCHANGED <<graphVars, desc, sub_id>>, stage' # "build" => stage # "build"
  PROVE  LinkedInv'
BY DEF LinkedInv, graphVars, Stmts, Original, Nodes, ReadIn, WrittenIn, Members

LEMMA EdgesKept ==
  ASSUME EdgeInv, UNCHANGED <<graphVars, sub_id>>
  PROVE  EdgeInv'
BY DEF EdgeInv, graphVars, Stmts, Original, Parts, Nodes, WrittenIn, Members

LEMMA EdgesOfProgram ==
  ASSUME LinkedInv, Stmts = Original
  PROVE  EdgeInv
BY DEF LinkedInv, EdgeInv, Parts

LEMMA BuildLinks ==
  ASSUME SubgraphInv, SubgraphInv', WritesOnce(program), LinkedInv, BuildGraph
  PROVE  NumbersInv' /\ LinkedInv'
<1> DEFINE s == built + 1
           op == program.ops[s]
<1>1. stage' = "build" /\ stage = "build" /\ BuildOp /\ built \in Nat /\ GraphTypeOK /\ Stmts = Original
  BY SubOpFacts DEF BuildGraph, SubgraphInv, BuildingInv, BuildInv, NumberInv
<1>2. /\ program' = program /\ built' = s
      /\ inlinks' = Assign(inlinks, s, {<<x, AfterReads(op)[x]>> : x \in op.in})
      /\ outlinks' = Assign(outlinks, s, {<<x, AfterWrites(op)[x]>> : x \in op.out})
  BY <1>1 DEF BuildOp
<1>3. /\ DOMAIN inlinks' = 1..s
      /\ \A t \in 1..built : inlinks'[t] = inlinks[t] /\ outlinks'[t] = outlinks[t]
      /\ inlinks'[s] = {<<x, AfterReads(op)[x]>> : x \in op.in}
      /\ outlinks'[s] = {<<x, AfterWrites(op)[x]>> : x \in op.out}
  BY <1>1, <1>2 DEF Assign, GraphTypeOK
<1>4. Stmts' = 1..s /\ Original' = 1..s /\ s \in 1..s /\ \A t \in 1..s : t \in 1..built \/ t = s
  BY <1>1, <1>2, <1>3 DEF Stmts, Original
<1>5. \A n \in inlinks'[s] \cup outlinks'[s] : n[2] = 0
  BY <1>2, <1>4 DEF SubgraphInv, GraphInv
<1>6. (\A x \in op.in : AfterReads(op)[x] = 0) /\ (\A x \in op.out : AfterWrites(op)[x] = 0)
  <2> HIDE DEF op, s
  <2>1. ASSUME NEW x \in op.in PROVE AfterReads(op)[x] = 0
    <3>1. <<x, AfterReads(op)[x]>> \in inlinks'[s]
      BY <1>3
    <3> QED
      BY <1>5, <3>1
  <2>2. ASSUME NEW x \in op.out PROVE AfterWrites(op)[x] = 0
    <3>1. <<x, AfterWrites(op)[x]>> \in outlinks'[s]
      BY <1>3
    <3> QED
      BY <1>5, <3>1
  <2> QED
    BY <2>1, <2>2
<1>7. inlinks'[s] = Nodes(op.in) /\ outlinks'[s] = Nodes(op.out)
  BY <1>3, <1>6 DEF Nodes
<1>8. \A t \in 1..built : inlinks[t] = Nodes(program.ops[t].in) /\ outlinks[t] = Nodes(program.ops[t].out)
  BY <1>1 DEF LinkedInv, Original
<1>9. LinkedInv'
  <2>1. \A t \in 1..s : inlinks'[t] = Nodes(program.ops[t].in) /\ outlinks'[t] = Nodes(program.ops[t].out)
    BY <1>3, <1>4, <1>7, <1>8
  <2> QED
    BY <1>1, <1>2, <1>4, <2>1 DEF LinkedInv, Nodes
<1> QED
  BY <1>1, <1>9 DEF NumbersInv

LEMMA InitNumbers ==
  ASSUME SubgraphInv, SubgraphInv', LinkedInv, InitSubgraphID
  PROVE  NumbersInv' /\ LinkedInv'
<1>1. /\ UNCHANGED graphVars /\ stage = "build" /\ stage' = "number" /\ GraphBuilt
      /\ sub_num' = sub_num /\ at' = at /\ todo' = todo /\ order' \in OrdersOf(Stmts)
      /\ sub_id' = [s \in Stmts |-> IF program.ops[s].type \in Supported THEN 0 ELSE -1]
      /\ desc' = [s \in Stmts |-> [in |-> program.ops[s].in, out |-> program.ops[s].out]]
  BY DEF InitSubgraphID
<1>2. Stmts = Original /\ Stmts' = Stmts /\ Original' = Original /\ program' = program /\ built' = built
      /\ sub_num = 0 /\ at = 1 /\ todo = {} /\ built = Len(program.ops)
  BY <1>1 DEF SubgraphInv, BuildingInv, NumberInv, Stmts, Original, graphVars, GraphBuilt
<1>3. IsFiniteSet(Original)
  BY FS_Interval, SubOpFacts DEF SubgraphInv, Original
<1>4. /\ order' \in Seq(Original)
      /\ \A k \in 1..Len(order') : \A p \in AdjList[order'[k]] \cap Original : \E l \in 1..(k - 1) : order'[l] = p
      /\ \A s \in Original : \E i \in 1..Len(order') : order'[i] = s
  <2>1. PICK o \in OrdersOf(Original) : o = order'
    BY <1>1, <1>2
  <2>2. /\ o \in Seq(Original)
        /\ \A k \in 1..Len(o) : \A p \in AdjList[o[k]] \cap Original : \E l \in 1..(k - 1) : o[l] = p
    BY <1>3, OrdersFacts
  <2>3. \A s \in Original : \E i \in 1..Len(o) : o[i] = s
    BY <1>3, OrderListsAll
  <2> QED
    BY <2>1, <2>2, <2>3
<1>5. ASSUME NEW i \in 1..Len(order'), NEW p \in Original, NEW x \in program.ops[p].out,
             x \in program.ops[order'[i]].in
      PROVE  \E l \in 1..(i - 1) : order'[l] = p
  <2>1. order'[i] \in Original /\ DOMAIN outlinks = Stmts
    BY <1>4 DEF SubgraphInv, GraphInv
  <2>2. <<x, 0>> \in inlinks[order'[i]] /\ <<x, 0>> \in outlinks[p]
    BY <1>2, <1>5, <2>1, NodeOf DEF LinkedInv
  <2>3. p \in AdjList[order'[i]]
    BY <1>2, <2>1, <2>2 DEF AdjList, Producers, Stmts
  <2> QED
    BY <1>4, <2>3
<1>6. \A s \in Original : sub_id'[s] = IF program.ops[s].type \in Supported THEN 0 ELSE -1
  BY <1>1, <1>2
<1>7. Searched'
  <2>1. \A i \in 1..Len(order') : \A p \in Original :
          program.ops[p].out \cap program.ops[order'[i]].in # {} => \E l \in 1..(i - 1) : order'[l] = p
    BY <1>5
  <2>2. \A i \in 1..(at' - 1) : FALSE
    BY <1>1, <1>2
  <2> QED
    BY <1>1, <1>2, <1>4, <2>1, <2>2 DEF Searched
<1>8. PassedOn'
  BY <1>1, <1>2, <1>6 DEF PassedOn
<1>9. FloodInv'
  BY <1>2, <1>6, <1>7, <1>8 DEF FloodInv
<1>10. \A label : OneLayer(label)' /\ FromHead(label)'
  BY <1>2, <1>6 DEF OneLayer, FromHead
<1>11. LinkedInv'
  BY <1>1, <1>2 DEF LinkedInv, graphVars, Nodes
<1> QED
  BY <1>9, <1>10, <1>11 DEF NumbersInv

LEMMA OpenNumbers ==
  ASSUME SubgraphInv, WritesOnce(program), NumbersInv, LinkedInv, OpenSubgraph
  PROVE  NumbersInv'
<1>0. PICK s, k : s = order[at] /\ k = sub_num + 1
  OBVIOUS
<1>1. /\ program' = program /\ built' = built /\ order' = order /\ at' = at + 1
      /\ stage = "number" /\ stage' = "number" /\ todo = {} /\ at \in 1..Len(order) /\ sub_id[s] = 0
      /\ sub_num' = k /\ sub_id' = [sub_id EXCEPT ![s] = k] /\ todo' = outlinks[s]
  BY <1>0 DEF OpenSubgraph, AtStmt, graphVars, SubgraphInv, NumberInv
<1>2. /\ DOMAIN sub_id = Original /\ Stmts = Original /\ Original' = Original /\ order \in Seq(Original)
      /\ sub_num \in Nat /\ at \in Nat /\ \A t \in Original : sub_id[t] \in -1..sub_num
  BY <1>1 DEF SubgraphInv, NumberInv, Original
<1>3. /\ FloodInv /\ Searched /\ PassedOn /\ stage # "build"
      /\ \A layer \in Labels : IsLayering(program, layer) => OneLayer(layer)
      /\ \A head \in Labels : IsHeading(program, head) => FromHead(head)
  BY <1>1 DEF NumbersInv, FloodInv
<1>4. s \in Original
  BY <1>0, <1>1, <1>2
<1>5. sub_id'[s] = k /\ k > 0 /\ \A t \in Original \ {s} : sub_id'[t] = sub_id[t] /\ sub_id[t] # k
  BY <1>0, <1>1, <1>2, <1>4
<1>6. todo' = Nodes(program.ops[s].out)
  BY <1>1, <1>2, <1>4 DEF LinkedInv
<1>7. \A x : Readers(x)' = Readers(x)
  BY <1>1, <1>2 DEF Readers
<1>8. s \in Members(k)' /\ Members(k)' = {s}
  <2>1. DOMAIN sub_id' = Original
    BY <1>1, <1>2
  <2> QED
    BY <1>2, <1>4, <1>5, <2>1 DEF Members
\* What leads to the statement would have given it a number.
<1>9. ASSUME NEW p \in Original, NEW x \in program.ops[p].out, Leads(program, p, x)
      PROVE  x \notin program.ops[s].in
  <2> SUFFICES ASSUME x \in program.ops[s].in PROVE FALSE
    OBVIOUS
  <2>1. PICK l \in 1..(at - 1) : order[l] = p
    BY <1>0, <1>1, <1>3 DEF Searched
  <2>2. sub_id[p] # 0
    BY <1>1, <1>2, <1>3, <2>1 DEF Searched
  <2>3. sub_id[p] > 0
    BY <1>2, <1>3, <1>9, <2>2, LeadsFacts
  <2>4. s \in Readers(x)
    BY <1>4 DEF Readers
  <2> QED
    BY <1>1, <1>3, <1>9, <2>3, <2>4 DEF PassedOn
<1>10. Searched'
  <2>1. ASSUME NEW i \in 1..at, i <= Len(order) PROVE sub_id'[order[i]] # 0
    <3>1. order[i] \in Original
      BY <1>1, <1>2
    <3>2. i = at \/ i \in 1..(at - 1)
      BY <1>2
    <3>3. i \in 1..(at - 1) => sub_id[order[i]] # 0
      BY <1>3, <2>1 DEF Searched
    <3> QED
      BY <1>0, <1>5, <3>1, <3>2, <3>3
  <2>2. \A i \in 1..(at' - 1) : i <= Len(order') => sub_id'[order'[i]] # 0
    <3>1. at' - 1 = at /\ order' = order
      BY <1>1, <1>2
    <3> QED
      BY <2>1, <3>1
  <2>3. /\ \A i \in 1..Len(order) : \A p \in Original :
             program.ops[p].out \cap program.ops[order[i]].in # {} => \E l \in 1..(i - 1) : order[l] = p
        /\ \A t \in Original : \E i \in 1..Len(order) : order[i] = t
    BY <1>3 DEF Searched
  <2>4. program' = program /\ order' = order /\ Original' = Original /\ stage' = "number"
    BY <1>1, <1>2
  <2> QED
    BY <2>2, <2>3, <2>4 DEF Searched
<1>11. PassedOn'
  <2>1. \A n \in todo' : k > 0 /\ \E p \in Members(k)' : n \in Nodes(program.ops[p].out)
    BY <1>5, <1>6, <1>8
  <2>2. ASSUME NEW p \in Original, NEW x \in program.ops[p].out, sub_id'[p] > 0, Leads(program, p, x),
               <<x, 0>> \notin todo', NEW t \in Readers(x)
        PROVE  sub_id'[t] > 0 /\ sub_id'[t] <= sub_id'[p]
    <3>1. p # s
      BY <1>6, <2>2, NodeOf
    <3>2. t # s /\ t \in Original
      BY <1>9, <2>2 DEF Readers
    <3>3. sub_id[p] > 0
      BY <1>5, <2>2, <3>1
    <3>4. sub_id[t] > 0 /\ sub_id[t] <= sub_id[p]
      BY <1>1, <1>3, <2>2, <3>3 DEF PassedOn
    <3> QED
      BY <1>5, <3>1, <3>2, <3>4
  <2>3. sub_num' = k /\ Original' = Original /\ program' = program
    BY <1>1, <1>2
  <2>4. Members(sub_num)' = Members(k)'
    BY <1>1, <1>8 DEF Members
  <2> QED
    BY <1>7, <2>1, <2>2, <2>3, <2>4 DEF PassedOn, Leads, Nodes
<1>12. FloodInv'
  <2>1. ASSUME NEW t \in Original PROVE sub_id'[t] >= 0 <=> program.ops[t].type \in Supported
    <3>1. sub_id[t] >= 0 <=> program.ops[t].type \in Supported
      BY <1>3 DEF FloodInv
    <3>2. CASE t = s
      <4>1. sub_id'[t] = k /\ sub_id[t] = 0 /\ k >= 0
        BY <1>0, <1>1, <1>2, <1>5, <3>2
      <4> QED
        BY <3>1, <4>1
    <3>3. CASE t # s
      BY <1>5, <3>1, <3>3
    <3> QED
      BY <3>2, <3>3
  <2> QED
    BY <1>1, <1>2, <1>3, <1>10, <1>11, <2>1 DEF FloodInv
<1>13. ASSUME NEW layer \in Labels, IsLayering(program, layer) PROVE OneLayer(layer)'
  <2>1. OneLayer(layer)
    BY <1>3, <1>13
  <2>2. ASSUME NEW t \in Original, NEW u \in Original, sub_id'[t] = sub_id'[u], sub_id'[t] > 0
        PROVE  layer[t] = layer[u]
    <3>1. CASE t = s \/ u = s
      BY <1>5, <2>2, <3>1
    <3>2. CASE t # s /\ u # s
      BY <1>5, <2>1, <2>2, <3>2 DEF OneLayer
    <3> QED
      BY <3>1, <3>2
  <2> QED
    BY <1>2, <2>2 DEF OneLayer
<1>14. ASSUME NEW head \in Labels, IsHeading(program, head) PROVE FromHead(head)'
  <2>1. FromHead(head)
    BY <1>3, <1>14
  <2>2. head[s] = s
    <3>1. s \in 1..Len(program.ops) /\ program.ops[s].type \in Supported
      BY <1>1, <1>3, <1>4 DEF FloodInv, Original
    <3>2. \A p \in 1..Len(program.ops) : p \in Original
      BY <1>3 DEF FloodInv, Original
    <3>3. \A p \in 1..Len(program.ops) : \A x \in program.ops[s].in : ~Leads(program, p, x)
      BY <1>9, <3>2 DEF Leads
    <3> QED
      BY <1>14, <3>1, <3>3 DEF IsHeading
  <2>3. ASSUME NEW t \in Original, sub_id'[t] > 0
        PROVE  head[t] \in Original /\ sub_id'[head[t]] = sub_id'[t]
    <3>1. CASE t = s
      BY <1>4, <2>2, <3>1
    <3>2. CASE t # s
      <4>1. head[t] \in Original /\ sub_id[head[t]] = sub_id[t] /\ sub_id[t] > 0
        BY <1>2, <1>5, <2>1, <2>3, <3>2 DEF FromHead, Members
      <4>2. head[t] # s
        BY <1>1, <4>1
      <4> QED
        BY <1>5, <3>2, <4>1, <4>2
    <3> QED
      BY <3>1, <3>2
  <2>4. DOMAIN sub_id' = Original
    BY <1>1, <1>2
  <2> QED
    BY <1>2, <2>3, <2>4 DEF FromHead, Members
<1>15. /\ Labels' = Labels
       /\ \A label : /\ IsLayering(program, label)' <=> IsLayering(program, label)
                     /\ IsHeading(program, label)' <=> IsHeading(program, label)
  BY <1>1 DEF Labels, IsLayering, IsHeading, Leads
<1> QED
  BY <1>12, <1>13, <1>14, <1>15 DEF NumbersInv

LEMMA VisitNumbers ==
  ASSUME SubgraphInv, WritesOnce(program), NumbersInv, LinkedInv, NEW n \in todo, VisitVar(n)
  PROVE  NumbersInv'
<1>1. /\ program' = program /\ built' = built /\ order' = order /\ at' = at /\ sub_num' = sub_num
      /\ stage = "number" /\ stage' = "number" /\ Stmts = Original /\ Original' = Original
      /\ DOMAIN sub_id = Original /\ sub_num \in Nat /\ \A t \in Original : sub_id[t] \in -1..sub_num
      /\ order \in Seq(Original) /\ at \in Nat
      /\ sub_id' = [t \in Stmts |-> IF t \in Joining(n) THEN sub_num ELSE sub_id[t]]
      /\ todo' = (todo \ {n}) \cup UNION {outlinks[t] : t \in Joining(n)}
  BY DEF VisitVar, graphVars, SubgraphInv, NumberInv, Original
<1>2. /\ FloodInv /\ Searched /\ PassedOn /\ stage # "build"
      /\ \A layer \in Labels : IsLayering(program, layer) => OneLayer(layer)
      /\ \A head \in Labels : IsHeading(program, head) => FromHead(head)
  BY <1>1 DEF NumbersInv, FloodInv
<1>3. sub_num > 0 /\ \E p \in Members(sub_num) : n \in Nodes(program.ops[p].out)
  BY <1>2 DEF PassedOn
<1>4. PICK J, x, p : J = Joining(n) /\ x = n[1] /\ p \in Members(sub_num) /\ n \in Nodes(program.ops[p].out)
  BY <1>3
<1>5. x \in program.ops[p].out /\ n = <<x, 0>> /\ p \in Original /\ sub_id[p] = sub_num
  BY <1>1, <1>4, NodesFacts DEF Members
<1>6. Consumers(n) = Readers(x)
  <2>1. \A t \in Original : inlinks[t] = Nodes(program.ops[t].in)
    BY <1>1 DEF LinkedInv
  <2> QED
    BY <1>1, <1>5, <2>1, NodeOf DEF Consumers, Readers, Stmts
<1>7. Leads(program, p, x) <=> LeadsOn(n)
  <2>1. Leads(program, p, x) <=> sub_id[p] >= 0 /\ \A t \in Readers(x) : sub_id[t] >= 0
    BY <1>2, <1>5, LeadsFacts
  <2> QED
    BY <1>1, <1>5, <1>6, <2>1 DEF LeadsOn
<1>8. /\ \A t \in J : t \in Original /\ sub_id[t] = 0 /\ t \in Readers(x) /\ Leads(program, p, x)
      /\ Leads(program, p, x) => \A t \in Readers(x) : sub_id[t] = 0 => t \in J
  BY <1>1, <1>4, <1>6, <1>7 DEF Joining, Readers
<1>9. /\ \A t \in J : sub_id'[t] = sub_num
      /\ \A t \in Original \ J : sub_id'[t] = sub_id[t]
      /\ DOMAIN sub_id' = Original
  BY <1>1, <1>4, <1>8
<1>10. \A y : <<y, 0>> \in todo' <=>
              (y # x /\ <<y, 0>> \in todo) \/ \E t \in J : y \in program.ops[t].out
  <2>1. \A t \in J : outlinks[t] = Nodes(program.ops[t].out)
    BY <1>1, <1>8 DEF LinkedInv
  <2> SUFFICES ASSUME NEW y
               PROVE  <<y, 0>> \in todo' <=>
                        (y # x /\ <<y, 0>> \in todo) \/ \E t \in J : y \in program.ops[t].out
    OBVIOUS
  <2>2. <<y, 0>> \in todo \ {n} <=> y # x /\ <<y, 0>> \in todo
    BY <1>5
  <2>3. <<y, 0>> \in UNION {outlinks[t] : t \in J} <=> \E t \in J : y \in program.ops[t].out
    BY <2>1, NodeOf
  <2> QED
    BY <1>1, <1>4, <2>2, <2>3
<1>11. \A t : Readers(t)' = Readers(t)
  BY <1>1 DEF Readers
<1>12. Searched'
  <2>1. ASSUME NEW i \in 1..(at - 1), i <= Len(order) PROVE sub_id'[order[i]] # 0
    <3>1. order[i] \in Original /\ sub_id[order[i]] # 0
      BY <1>1, <1>2, <2>1 DEF Searched
    <3> QED
      BY <1>3, <1>9, <3>1
  <2>2. /\ \A i \in 1..Len(order) : \A q \in Original :
             program.ops[q].out \cap program.ops[order[i]].in # {} => \E l \in 1..(i - 1) : order[l] = q
        /\ \A t \in Original : \E i \in 1..Len(order) : order[i] = t
    BY <1>2 DEF Searched
  <2>3. program' = program /\ order' = order /\ Original' = Original /\ stage' = "number" /\ at' = at
    BY <1>1
  <2> QED
    BY <2>1, <2>2, <2>3 DEF Searched
<1>13. \A m \in todo' : sub_num > 0 /\ \E q \in Members(sub_num)' : m \in Nodes(program.ops[q].out)
  <2>1. \A q \in Members(sub_num) : q \in Original /\ sub_id[q] = sub_num
    BY <1>1 DEF Members
  <2>2. \A q \in Original : sub_id'[q] = sub_num => q \in Members(sub_num)'
    BY <1>1, <1>9 DEF Members
  <2>3. \A q \in Members(sub_num) \cup J : q \in Members(sub_num)'
    BY <1>8, <1>9, <2>1, <2>2
  <2>4. \A t \in J : outlinks[t] = Nodes(program.ops[t].out)
    BY <1>1, <1>8 DEF LinkedInv
  <2>5. ASSUME NEW m \in todo' PROVE \E q \in Members(sub_num) \cup J : m \in Nodes(program.ops[q].out)
    <3>1. CASE m \in todo
      BY <1>2, <3>1 DEF PassedOn
    <3>2. CASE m \notin todo
      BY <1>1, <1>4, <2>4, <2>5, <3>2
    <3> QED
      BY <3>1, <3>2
  <2> QED
    BY <1>3, <2>3, <2>5
<1>14. ASSUME NEW q \in Original, NEW y \in program.ops[q].out, sub_id'[q] > 0, Leads(program, q, y),
              <<y, 0>> \notin todo', NEW t \in Readers(y)
       PROVE  sub_id'[t] > 0 /\ sub_id'[t] <= sub_id'[q]
  <2>1. q \notin J /\ sub_id'[q] = sub_id[q] /\ t \in Original
    BY <1>9, <1>10, <1>14 DEF Readers
  <2>2. CASE y = x
    <3>1. q = p
      BY <1>5, <2>2, OnceFacts
    <3>2. sub_id'[q] = sub_num
      BY <1>5, <2>1, <3>1
    <3>3. CASE t \in J
      <4>1. sub_id'[t] = sub_num /\ sub_num \in Nat /\ sub_num > 0
        BY <1>1, <1>3, <1>9, <3>3
      <4> QED
        BY <3>2, <4>1
    <3>4. CASE t \notin J
      <4>1. sub_id'[t] = sub_id[t] /\ sub_id[t] # 0
        BY <1>8, <1>9, <1>14, <2>1, <2>2, <3>1, <3>4
      <4>2. sub_id[t] >= 0
        BY <1>2, <1>14, LeadsFacts
      <4> QED
        BY <1>1, <2>1, <3>2, <4>1, <4>2
    <3> QED
      BY <3>3, <3>4
  <2>3. CASE y # x
    <3>1. <<y, 0>> \notin todo
      BY <1>10, <1>14, <2>3
    <3>2. sub_id[t] > 0 /\ sub_id[t] <= sub_id[q]
      BY <1>2, <1>14, <2>1, <3>1 DEF PassedOn
    <3>3. t \notin J
      BY <1>8, <3>2
    <3> QED
      BY <1>9, <2>1, <3>2, <3>3
  <2> QED
    BY <2>2, <2>3
<1>15. PassedOn'
  <2>1. sub_num' = sub_num /\ program' = program /\ Original' = Original
    BY <1>1
  <2>2. \A q, y : Leads(program, q, y)' <=> Leads(program, q, y)
    BY <2>1 DEF Leads
  <2> QED
    BY <1>11, <1>13, <1>14, <2>1, <2>2 DEF PassedOn, Nodes
<1>16. FloodInv'
  <2>1. \A t \in Original : sub_id'[t] >= 0 <=> sub_id[t] >= 0
    BY <1>1, <1>3, <1>8, <1>9
  <2> QED
    BY <1>1, <1>2, <1>12, <1>15, <2>1 DEF FloodInv
<1>17. ASSUME NEW layer \in Labels, IsLayering(program, layer) PROVE OneLayer(layer)'
  <2>1. OneLayer(layer)
    BY <1>2, <1>17
  <2>2. \A t \in J : layer[t] = layer[p]
    BY <1>2, <1>5, <1>8, <1>17, LeadsFacts
  <2>3. \A t \in Original : sub_id'[t] = sub_num => layer[t] = layer[p]
    BY <1>3, <1>5, <1>9, <2>1, <2>2 DEF OneLayer
  <2>4. ASSUME NEW t \in Original, NEW u \in Original, sub_id'[t] = sub_id'[u], sub_id'[t] > 0,
               sub_id'[t] # sub_num
        PROVE  layer[t] = layer[u]
    <3>1. t \notin J /\ u \notin J
      BY <1>9, <2>4
    <3> QED
      BY <1>9, <2>1, <2>4, <3>1 DEF OneLayer
  <2>5. \A t, u \in Original : sub_id'[t] = sub_id'[u] /\ sub_id'[t] > 0 => layer[t] = layer[u]
    BY <2>3, <2>4
  <2> QED
    BY <1>1, <2>5 DEF OneLayer
<1>18. ASSUME NEW head \in Labels, IsHeading(program, head) PROVE FromHead(head)'
  <2>1. \A t \in Original : sub_id[t] > 0 => head[t] \in Original /\ sub_id[head[t]] = sub_id[t]
    BY <1>1, <1>2, <1>18 DEF FromHead, Members
  <2>2. \A t \in J : head[t] = head[p]
    BY <1>2, <1>5, <1>8, <1>18, LeadsFacts
  <2>3. \A t \in Original : sub_id[t] > 0 => sub_id'[t] = sub_id[t]
    BY <1>8, <1>9
  <2>4. ASSUME NEW t \in Original, sub_id'[t] > 0
        PROVE  head[t] \in Original /\ sub_id'[head[t]] = sub_id'[t]
    <3>1. CASE t \in J
      <4>1. head[p] \in Original /\ sub_id[head[p]] = sub_num
        BY <1>3, <1>5, <2>1
      <4> QED
        BY <1>3, <1>9, <2>2, <2>3, <3>1, <4>1
    <3>2. CASE t \notin J
      <4>1. sub_id[t] > 0 /\ sub_id'[t] = sub_id[t]
        BY <1>9, <2>4, <3>2
      <4> QED
        BY <2>1, <2>3, <4>1
    <3> QED
      BY <3>1, <3>2
  <2> QED
    BY <1>1, <1>9, <2>4 DEF FromHead, Members
<1>19. /\ Labels' = Labels
       /\ \A label : /\ IsLayering(program, label)' <=> IsLayering(program, label)
                     /\ IsHeading(program, label)' <=> IsHeading(program, label)
  BY <1>1 DEF Labels, IsLayering, IsHeading, Leads
<1> QED
  BY <1>16, <1>17, <1>18, <1>19 DEF NumbersInv

\* Once all is numbered, a variable leads on to numbers that are no higher.
LEMMA AfterNumbers ==
  ASSUME SubgraphInv, WritesOnce(program), NumbersInv, stage \notin {"build", "number"}
  PROVE  /\ FloodInv
         /\ \A s \in Original : sub_id[s] # 0
         /\ \A p \in Original : \A x \in program.ops[p].out : Leads(program, p, x) =>
              /\ sub_id[p] > 0
              /\ \A t \in Readers(x) : sub_id[t] > 0 /\ sub_id[t] <= sub_id[p]
<1>1. FloodInv /\ Searched /\ PassedOn /\ todo = {} /\ at \in Nat /\ order \in Seq(Original)
  BY DEF NumbersInv, FloodInv, SubgraphInv, NumberInv
<1>2. ASSUME NEW s \in Original PROVE sub_id[s] # 0
  <2>1. PICK i \in 1..Len(order) : order[i] = s
    BY <1>1 DEF Searched
  <2>2. i \in 1..(at - 1) /\ i <= Len(order)
    BY <1>1 DEF Searched
  <2> QED
    BY <1>1, <2>1, <2>2 DEF Searched
<1>3. ASSUME NEW p \in Original, NEW x \in program.ops[p].out, Leads(program, p, x)
      PROVE  /\ sub_id[p] > 0
             /\ \A t \in Readers(x) : sub_id[t] > 0 /\ sub_id[t] <= sub_id[p]
  <2>1. sub_id[p] >= 0
    BY <1>1, <1>3, LeadsFacts
  <2>2. sub_id[p] \in -1..sub_num
    BY DEF SubgraphInv, NumberInv
  <2>3. sub_id[p] > 0
    BY <1>2, <2>1, <2>2
  <2> QED
    BY <1>1, <1>3, <2>3 DEF PassedOn
<1> QED
  BY <1>1, <1>2, <1>3

\* The readers of a variable are all in the number of its writer, or none is.
LEMMA ReadersTogether ==
  ASSUME SubgraphInv, Sound, NumbersInv, stage \notin {"build", "number"},
         NEW p \in Original, NEW x \in program.ops[p].out, sub_id[p] > 0,
         NEW t \in Readers(x), NEW u \in Readers(x), sub_id[t] = sub_id[p]
  PROVE  sub_id[u] = sub_id[p]
<1>1. WritesOnce(program) /\ FloodInv /\ t \in Original /\ u \in Original
  BY DEF Sound, NumbersInv, Readers
<1>2. PICK layer \in Labels : IsLayering(program, layer)
  BY DEF Sound, Layered, Labels
<1>3. PICK head \in Labels : IsHeading(program, head)
  BY DEF Sound, OneHead, Labels
<1>4. OneLayer(layer) /\ FromHead(head)
  BY <1>2, <1>3 DEF NumbersInv
<1>5. layer[t] = layer[p] /\ layer[p] \in Nat
  BY <1>1, <1>4, LabelFacts DEF OneLayer
<1>6. Leads(program, p, x)
  <2>1. ~Leads(program, p, x) => layer[p] < layer[t]
    BY <1>1, <1>2, LeadsFacts
  <2> QED
    BY <1>5, <2>1
<1>7. head[u] = head[p] /\ sub_id[u] > 0
  BY <1>1, <1>3, <1>6, LeadsFacts, AfterNumbers
<1>8. head[u] \in Members(sub_id[u]) /\ head[p] \in Members(sub_id[p])
  BY <1>1, <1>4, <1>7 DEF FromHead
<1> QED
  BY <1>7, <1>8 DEF Members

LEMMA ReplaceLinks ==
  ASSUME SubgraphInv, Sound, NumbersInv, LinkedInv, ReplaceSubgraph
  PROVE  LinkedInv'
<1> DEFINE stmts == Members(open)
           I == ReadIn(open)
           O == WrittenIn(open)
<1>1. /\ program' = program /\ built' = built /\ stage' = stage /\ sub_id' = sub_id
      /\ stage \notin {"build", "number"} /\ todo = {} /\ open \in 1..sub_num /\ sub_num \in Nat
      /\ built \in Nat /\ DOMAIN outlinks = Stmts /\ DOMAIN sub_id = Original
  BY SubOpFacts DEF ReplaceSubgraph, numberVars, SubgraphInv, NumberInv, ReplacedInv, GraphInv
<1>2. stmts \subseteq Stmts \cap Original
  BY <1>1, MembersThere
<1>3. GraphOp \notin Original /\ GraphOp \notin Stmts /\ GraphOp - built = open
  BY <1>1 DEF GraphOp, Original, SubgraphInv, ReplacedInv
<1>4. \A s \in stmts : inlinks[s] = Nodes(program.ops[s].in) /\ outlinks[s] = Nodes(program.ops[s].out)
  BY <1>2 DEF LinkedInv
<1>5. Read(stmts) = Nodes(I) /\ Written(stmts) = Nodes(O)
  BY <1>4 DEF Read, Written, ReadIn, WrittenIn, Nodes
<1>6. O \cap program.weights = {}
  BY <1>2, WeightsKept DEF Sound, WrittenIn
<1>7. \A x : Producers(<<x, 0>>) \cap stmts = {} <=> x \notin O
  <2> SUFFICES ASSUME NEW x PROVE Producers(<<x, 0>>) \cap stmts = {} <=> x \notin O
    OBVIOUS
  <2>1. \A s \in stmts : s \in Producers(<<x, 0>>) <=> x \in program.ops[s].out
    BY <1>1, <1>2, <1>4, NodeOf DEF Producers
  <2> QED
    BY <2>1 DEF WrittenIn
<1>8. \A x : Consumers(<<x, 0>>) \cap stmts = {} <=> x \notin I
  <2> SUFFICES ASSUME NEW x PROVE Consumers(<<x, 0>>) \cap stmts = {} <=> x \notin I
    OBVIOUS
  <2>1. \A s \in stmts : s \in Consumers(<<x, 0>>) <=> x \in program.ops[s].in
    BY <1>2, <1>4, NodeOf DEF Consumers, Stmts
  <2> QED
    BY <2>1 DEF ReadIn
<1> HIDE DEF I, O, stmts
<1>9. InDataVars(stmts) \cup InWgtVars(stmts) = Nodes(I \ O)
  <2>1. ASSUME NEW n \in Nodes(I)
        PROVE  IsWeight(n) \/ Producers(n) \cap stmts = {} <=> n \in Nodes(I \ O)
    <3>1. n[1] \in I /\ n = <<n[1], 0>>
      BY <2>1, NodesFacts
    <3>2. n \in Nodes(I \ O) <=> n[1] \notin O
      BY <3>1, NodeOf
    <3> QED
      BY <1>6, <1>7, <3>1, <3>2 DEF IsWeight
  <2>2. Nodes(I \ O) \subseteq Nodes(I)
    BY DEF Nodes
  <2> QED
    BY <1>5, <2>1, <2>2 DEF InDataVars, InWgtVars
<1>10. OutDataVars(stmts) \cup OutUnusedVars(stmts) = Nodes(O \ I)
  <2>1. ASSUME NEW n \in Nodes(O)
        PROVE  Consumers(n) \cap stmts = {} <=> n \in Nodes(O \ I)
    <3>1. n[1] \in O /\ n = <<n[1], 0>>
      BY <2>1, NodesFacts
    <3>2. n \in Nodes(O \ I) <=> n[1] \notin I
      BY <3>1, NodeOf
    <3> QED
      BY <1>8, <3>1, <3>2
  <2>2. Nodes(O \ I) \subseteq Nodes(O)
    BY DEF Nodes
  <2> QED
    BY <1>5, <2>1, <2>2 DEF OutDataVars, OutUnusedVars
<1>11. {n[1] : n \in InDataVars(stmts)} = I \ (O \cup program.weights)
  <2>1. ASSUME NEW n \in InDataVars(stmts) PROVE n[1] \in I \ (O \cup program.weights)
    <3>1. n[1] \in I /\ n = <<n[1], 0>>
      BY <1>5, <2>1, NodesFacts DEF InDataVars
    <3> QED
      BY <1>7, <2>1, <3>1 DEF InDataVars, IsWeight
  <2>2. ASSUME NEW x \in I \ (O \cup program.weights) PROVE \E n \in InDataVars(stmts) : x = n[1]
    <3>1. <<x, 0>> \in Read(stmts)
      BY <1>5, <2>2, NodeOf
    <3>2. <<x, 0>> \in InDataVars(stmts)
      BY <1>7, <2>2, <3>1 DEF InDataVars, IsWeight
    <3> QED
      BY <3>2
  <2>3. \A x : x \in {n[1] : n \in InDataVars(stmts)} <=> \E n \in InDataVars(stmts) : x = n[1]
    OBVIOUS
  <2> QED
    BY <2>1, <2>2, <2>3
\* What is removed is written and read inside, and by nobody else.
<1>12. \A n \in NodesToRemove(stmts) : n[1] \in I \cap O /\ n = <<n[1], 0>>
  <2> SUFFICES ASSUME NEW n \in NodesToRemove(stmts) PROVE n[1] \in I \cap O /\ n = <<n[1], 0>>
    OBVIOUS
  <2>1. n \in Nodes(I) \cup Nodes(O) /\ n \notin Nodes(I \ O) /\ n \notin Nodes(O \ I)
    BY <1>5, <1>9, <1>10 DEF NodesToRemove
  <2>2. n[1] \in I \cup O /\ n = <<n[1], 0>>
    BY <2>1, NodesFacts
  <2> QED
    BY <2>1, <2>2, NodeOf
<1>13. ASSUME NEW x \in I \cap O, NEW t \in Original,
              x \in program.ops[t].in \cup program.ops[t].out
       PROVE  t \in stmts
  <2>1. PICK p \in stmts : x \in program.ops[p].out
    BY DEF O, WrittenIn, stmts
  <2>2. PICK u \in stmts : x \in program.ops[u].in
    BY DEF I, ReadIn, stmts
  <2>3. p \in Original /\ u \in Original /\ sub_id[p] = open /\ sub_id[u] = open
    BY <1>2, <2>1, <2>2 DEF stmts, Members
  <2>4. CASE x \in program.ops[t].out
    <3>1. t = p
      BY <2>1, <2>3, <2>4, OnceFacts DEF Sound
    <3> QED
      BY <2>1, <3>1
  <2>5. CASE x \in program.ops[t].in
    <3>1. u \in Readers(x) /\ t \in Readers(x)
      BY <2>2, <2>3, <2>5 DEF Readers
    <3>2. sub_id[p] > 0 /\ sub_id[u] = sub_id[p]
      BY <1>1, <2>3
    <3>3. sub_id[t] = open
      BY <1>1, <2>1, <2>3, <3>1, <3>2, ReadersTogether
    <3> QED
      BY <1>1, <3>3 DEF stmts, Members
  <2> QED
    BY <1>13, <2>4, <2>5
<1>14. ASSUME NEW s \in Stmts \ stmts
       PROVE  inlinks[s] \cap NodesToRemove(stmts) = {} /\ outlinks[s] \cap NodesToRemove(stmts) = {}
  <2> SUFFICES ASSUME NEW n \in NodesToRemove(stmts), n \in inlinks[s] \cup outlinks[s] PROVE FALSE
    OBVIOUS
  <2> DEFINE x == n[1]
  <2>1. x \in I \cap O /\ n = <<x, 0>>
    BY <1>12
  <2> HIDE DEF x
  <2>2. CASE s \in Original
    <3>1. x \in program.ops[s].in \cup program.ops[s].out
      BY <2>1, <2>2, NodeOf DEF LinkedInv
    <3> QED
      BY <1>13, <2>1, <2>2, <3>1
  <2>3. CASE s \notin Original
    <3>1. x \in ReadIn(s - built) \cup WrittenIn(s - built)
      <4>1. /\ inlinks[s] = Nodes(ReadIn(s - built) \ WrittenIn(s - built))
            /\ outlinks[s] = Nodes(WrittenIn(s - built) \ ReadIn(s - built))
        BY <2>3 DEF LinkedInv
      <4> QED
        BY <2>1, <4>1, NodeOf
    <3>2. PICK t \in Members(s - built) : x \in program.ops[t].in \cup program.ops[t].out
      BY <3>1 DEF ReadIn, WrittenIn
    <3>3. t \in Original /\ sub_id[t] = s - built
      BY <1>1, <3>2 DEF Members
    <3>4. sub_id[t] = open
      BY <1>13, <2>1, <3>2, <3>3 DEF stmts, Members
    <3> QED
      BY <2>3, <3>3, <3>4 DEF SubgraphInv, ReplacedInv
  <2> QED
    BY <2>2, <2>3
<1>15. /\ inlinks' = Inserted(Remaining(inlinks, stmts), Nodes(I \ O))
       /\ outlinks' = Inserted(Remaining(outlinks, stmts), Nodes(O \ I))
       /\ desc' = Assign(desc, GraphOp, [in |-> I \ (O \cup program.weights),
                                         out |-> {n[1] : n \in OutDataVars(stmts)}])
  BY <1>9, <1>10, <1>11 DEF ReplaceSubgraph, stmts
<1>16. /\ DOMAIN inlinks' = (Stmts \ stmts) \cup {GraphOp}
       /\ \A s \in Stmts \ stmts : inlinks'[s] = inlinks[s] /\ outlinks'[s] = outlinks[s] /\ desc'[s] = desc[s]
       /\ inlinks'[GraphOp] = Nodes(I \ O) /\ outlinks'[GraphOp] = Nodes(O \ I)
       /\ desc'[GraphOp].in = I \ (O \cup program.weights)
  <2>1. /\ DOMAIN Remaining(inlinks, stmts) = Stmts \ stmts
        /\ DOMAIN Remaining(outlinks, stmts) = Stmts \ stmts
        /\ \A s \in Stmts \ stmts : Remaining(inlinks, stmts)[s] = inlinks[s]
                                    /\ Remaining(outlinks, stmts)[s] = outlinks[s]
    BY <1>1, <1>14 DEF Remaining, Stmts
  <2>2. Stmts \subseteq DOMAIN desc
    BY <1>1 DEF SubgraphInv, NumberInv
  <2> QED
    BY <1>3, <1>15, <2>1, <2>2 DEF Inserted, Assign
<1>17. Stmts' = (Stmts \ stmts) \cup {GraphOp} /\ Original' = Original
  BY <1>1, <1>16 DEF Stmts, Original
<1>18. \A k : ReadIn(k)' = ReadIn(k) /\ WrittenIn(k)' = WrittenIn(k)
  BY <1>1 DEF ReadIn, WrittenIn, Members
<1>19. ASSUME NEW s \in Stmts' \cap Original
       PROVE  /\ inlinks'[s] = Nodes(program.ops[s].in) /\ outlinks'[s] = Nodes(program.ops[s].out)
              /\ desc'[s].in = program.ops[s].in
  <2>1. s \in Stmts \ stmts
    BY <1>3, <1>17
  <2> QED
    BY <1>1, <1>16, <1>19, <2>1 DEF LinkedInv
<1>20. ASSUME NEW g \in Stmts' \ Original
       PROVE  /\ inlinks'[g] = Nodes(ReadIn(g - built) \ WrittenIn(g - built))
              /\ outlinks'[g] = Nodes(WrittenIn(g - built) \ ReadIn(g - built))
              /\ desc'[g].in = ReadIn(g - built) \ (WrittenIn(g - built) \cup program.weights)
  <2>1. CASE g = GraphOp
    BY <1>3, <1>16, <2>1 DEF I, O
  <2>2. CASE g # GraphOp
    BY <1>16, <1>17, <1>20, <2>2 DEF LinkedInv
  <2> QED
    BY <2>1, <2>2
<1> QED
  BY <1>1, <1>17, <1>18, <1>19, <1>20 DEF LinkedInv, Nodes

LEMMA ReplaceEdges ==
  ASSUME SubgraphInv, WritesOnce(program), KeepsWeights(program), EdgeInv, ReplaceSubgraph
  PROVE  EdgeInv'
<1>1. /\ program' = program /\ built' = built /\ sub_id' = sub_id
      /\ stage \notin {"build", "number"} /\ open \in 1..sub_num /\ sub_num \in Nat
      /\ built \in Nat /\ DOMAIN outlinks = Stmts /\ DOMAIN sub_id = Original
  BY SubOpFacts DEF ReplaceSubgraph, numberVars, SubgraphInv, NumberInv, ReplacedInv, GraphInv
<1>2. PICK stmts, k : stmts = Members(open) /\ k = open
  OBVIOUS
<1>3. stmts \subseteq Stmts \cap Original
  BY <1>1, <1>2, MembersThere
<1>4. PICK g : g = GraphOp
  OBVIOUS
<1>5. g \notin Original /\ g \notin Stmts /\ g - built = k
  BY <1>1, <1>2, <1>4 DEF GraphOp, Original, SubgraphInv, ReplacedInv
<1>6. /\ DOMAIN inlinks' = (Stmts \ stmts) \cup {g}
      /\ \A s \in Stmts \ stmts : /\ inlinks'[s] = inlinks[s] \ NodesToRemove(stmts)
                                  /\ outlinks'[s] = outlinks[s] \ NodesToRemove(stmts)
      /\ inlinks'[g] = InDataVars(stmts) \cup InWgtVars(stmts)
      /\ outlinks'[g] = OutDataVars(stmts) \cup OutUnusedVars(stmts)
  BY <1>1, <1>2, <1>3, <1>4, <1>5 DEF ReplaceSubgraph, Inserted, Remaining, Assign, Stmts
<1>7. /\ Stmts' = (Stmts \ stmts) \cup {g} /\ Original' = Original
      /\ \A s : Parts(s)' = Parts(s)
      /\ \A l : WrittenIn(l)' = WrittenIn(l) /\ Members(l)' = Members(l)
  BY <1>1, <1>6 DEF Stmts, Original, Parts, WrittenIn, Members
<1>8. Parts(g) = stmts /\ \A s \in Original : Parts(s) = {s}
  BY <1>2, <1>5 DEF Parts
<1>9. \A s \in stmts : outlinks[s] = Nodes(program.ops[s].out)
  BY <1>3 DEF EdgeInv
\* What is removed is written by one of the statements that go.
<1>10. NodesToRemove(stmts) \subseteq Written(stmts)
  BY DEF NodesToRemove, InDataVars, InWgtVars, Written, Producers
<1>11. ASSUME NEW s \in Original \ stmts
       PROVE  Nodes(program.ops[s].out) \cap Written(stmts) = {}
  <2> SUFFICES ASSUME NEW q \in stmts, NEW n \in outlinks[q], n \in Nodes(program.ops[s].out) PROVE FALSE
    BY DEF Written
  <2>1. n[1] \in program.ops[s].out /\ n[1] \in program.ops[q].out
    BY <1>9, NodesFacts
  <2>2. q = s
    BY <1>3, <2>1, OnceFacts
  <2> QED
    BY <1>11, <2>2
<1>12. \A s \in Stmts' \cap Original : outlinks'[s] = Nodes(program.ops[s].out)
  <2> SUFFICES ASSUME NEW s \in Stmts' \cap Original PROVE outlinks'[s] = Nodes(program.ops[s].out)
    OBVIOUS
  <2>1. s \in Stmts \ stmts /\ s \in Original \ stmts
    BY <1>5, <1>7
  <2>2. outlinks[s] = Nodes(program.ops[s].out)
    BY <2>1 DEF EdgeInv
  <2> QED
    <3>1. outlinks'[s] = outlinks[s] \ NodesToRemove(stmts)
      BY <1>6, <2>1
    <3>2. outlinks[s] \cap NodesToRemove(stmts) = {}
      BY <1>10, <1>11, <2>1, <2>2
    <3> QED
      BY <2>2, <3>1, <3>2
<1>13. ASSUME NEW s \in Stmts', NEW n \in outlinks'[s] PROVE \E q \in Parts(s) : n \in Nodes(program.ops[q].out)
  <2>1. CASE s = g
    <3>1. n \in Written(stmts)
      BY <1>6, <1>13, <2>1 DEF OutDataVars, OutUnusedVars
    <3>2. PICK q \in stmts : n \in outlinks[q]
      BY <3>1 DEF Written
    <3> QED
      BY <1>8, <1>9, <2>1, <3>2
  <2>2. CASE s # g
    BY <1>6, <1>7, <1>13, <2>2 DEF EdgeInv
  <2> QED
    BY <2>1, <2>2
<1>14. ASSUME NEW s \in Stmts', NEW n \in inlinks'[s] PROVE \E t \in Parts(s) : n \in Nodes(program.ops[t].in)
  <2>1. CASE s = g
    <3>1. n \in Read(stmts)
      BY <1>6, <1>14, <2>1 DEF InDataVars, InWgtVars
    <3>2. PICK t \in stmts : n \in inlinks[t]
      BY <3>1 DEF Read
    <3>3. Parts(t) = {t} /\ t \in Stmts
      BY <1>3, <1>8
    <3>4. n \in Nodes(program.ops[t].in)
      BY <3>2, <3>3 DEF EdgeInv
    <3> QED
      BY <1>8, <2>1, <3>2, <3>4
  <2>2. CASE s # g
    BY <1>6, <1>7, <1>14, <2>2 DEF EdgeInv
  <2> QED
    BY <2>1, <2>2
<1>15. ASSUME NEW s \in Stmts' \ Original, NEW n \in inlinks'[s] PROVE n[1] \notin WrittenIn(s - built)
  <2>1. CASE s = g
    <3> SUFFICES ASSUME NEW q \in Members(k), n[1] \in program.ops[q].out PROVE FALSE
      BY <1>5, <2>1 DEF WrittenIn
    <3>1. q \in stmts /\ q \in Original
      BY <1>2, <1>3
    <3>2. ~IsWeight(n)
      BY <3>1, WeightsKept DEF IsWeight
    <3>3. n \in InDataVars(stmts)
      BY <1>6, <1>15, <2>1, <3>2 DEF InWgtVars
    <3>4. PICK t \in Parts(g) : n \in Nodes(program.ops[t].in)
      BY <1>14, <1>15, <2>1
    <3>5. n = <<n[1], 0>>
      BY <3>4, NodesFacts
    <3>6. n \in outlinks[q]
      BY <1>9, <3>1, <3>5, NodeOf
    <3>7. q \in Producers(n)
      BY <1>1, <1>3, <3>1, <3>6 DEF Producers
    <3> QED
      BY <3>1, <3>3, <3>7 DEF InDataVars
  <2>2. CASE s # g
    BY <1>6, <1>7, <1>15, <2>2 DEF EdgeInv
  <2> QED
    BY <2>1, <2>2
<1> QED
  BY <1>1, <1>7, <1>12, <1>13, <1>14, <1>15 DEF EdgeInv, Nodes

LEMMA WiredStep ==
  ASSUME SubgraphInv, SubgraphInv', WiredInv, [Next]_vars
  PROVE  WiredInv'
<1>1. program' = program
  BY DEF Next, vars, graphVars, BuildGraph, BuildOp, InitSubgraphID, SkipStmt, OpenSubgraph,
         EndNumbering, VisitVar, BeginSubgraph, ConvertOp, ReplaceSubgraph, BuildFails, Generate
<1> SUFFICES ASSUME WritesOnce(program), NumbersInv, LinkedWhile, KeepsWeights(program) => EdgeInv
             PROVE  /\ NumbersInv' /\ (KeepsWeights(program) => EdgeInv')
                    /\ stage' \in {"build", "number"} \/ Sound => LinkedInv'
  BY <1>1 DEF WiredInv, LinkedWhile, Sound
<1>2. CASE BuildGraph \/ InitSubgraphID
  <2>1. stage' \in {"build", "number"} /\ LinkedInv
    BY <1>2 DEF BuildGraph, InitSubgraphID, LinkedWhile
  <2>2. NumbersInv' /\ LinkedInv'
    BY <1>2, <2>1, BuildLinks, InitNumbers
  <2>3. (LinkedInv /\ Stmts = Original => EdgeInv)'
    BY EdgesOfProgram, PTL
  <2>4. Stmts' = Original'
    BY <2>1 DEF SubgraphInv, NumberInv
  <2> QED
    BY <2>2, <2>3, <2>4
<1>3. CASE SkipStmt \/ OpenSubgraph \/ EndNumbering \/ \E n \in todo : VisitVar(n)
  <2>1. UNCHANGED <<graphVars, desc>> /\ stage = "number" /\ Original = DOMAIN sub_id /\ Stmts = Original
    BY <1>3 DEF SkipStmt, OpenSubgraph, EndNumbering, VisitVar, AtStmt, convertVars, SubgraphInv, NumberInv
  <2>2. LinkedInv
    BY <2>1 DEF LinkedWhile
  <2>3. LinkedInv'
    BY <1>3, <2>1, <2>2 DEF LinkedInv, graphVars, Stmts, Original, Nodes
  <2>4. EdgeInv'
    <3>1. (LinkedInv /\ Stmts = Original => EdgeInv)'
      BY EdgesOfProgram, PTL
    <3> QED
      BY <2>1, <2>3, <3>1 DEF graphVars, Stmts, Original
  <2>5. NumbersInv'
    <3>1. CASE SkipStmt \/ EndNumbering
      <4>1. /\ UNCHANGED <<program, built, order, sub_id, sub_num, todo>>
            /\ \/ at' = at /\ at > Len(order)
               \/ at' = at + 1 /\ at \in Nat /\ at <= Len(order) /\ sub_id[order[at]] # 0 /\ stage' = "number"
        BY <3>1 DEF SkipStmt, EndNumbering, AtStmt, graphVars, numberVars, SubgraphInv, NumberInv
      <4> QED
        BY <2>1, <4>1, NumbersKept
    <3> QED
      BY <1>3, <2>2, <3>1, OpenNumbers, VisitNumbers
  <2> QED
    BY <2>3, <2>4, <2>5
<1>4. CASE (\E k \in pending : BeginSubgraph(k)) \/ ConvertOp \/ BuildFails \/ Generate \/ UNCHANGED vars
  <2>1. UNCHANGED <<graphVars, numberVars, desc, sub_id>> /\ UNCHANGED <<program, built>>
        /\ UNCHANGED <<order, at, sub_num, todo>>
        /\ (stage' = "build" <=> stage = "build") /\ (stage' = "number" <=> stage = "number")
    BY <1>4 DEF BeginSubgraph, ConvertOp, BuildFails, Generate, vars, convertVars, graphVars, numberVars,
                SubgraphInv, NumberInv
  <2>2. NumbersInv'
    <3>1. CASE stage = "build"
      BY <2>1, <3>1 DEF NumbersInv
    <3>2. CASE stage # "build"
      BY <2>1, <3>2, NumbersKept
    <3> QED
      BY <3>1, <3>2
  <2> QED
    BY <2>1, <2>2, LinksKept, EdgesKept DEF LinkedWhile
<1>5. CASE ReplaceSubgraph
  <2>1. /\ UNCHANGED <<program, built, order, sub_id, sub_num, todo>> /\ at' = at /\ stage' = stage
        /\ stage \notin {"build", "number"}
    BY <1>5 DEF ReplaceSubgraph, numberVars, SubgraphInv, NumberInv
  <2> QED
    BY <1>5, <2>1, NumbersKept, ReplaceEdges, ReplaceLinks DEF LinkedWhile
<1> QED
  BY <1>2, <1>3, <1>4, <1>5 DEF Next

(* What the next two theorems rest on: a number is passed on wherever a    *)
(* variable leads, stays in one layer, and is handed down from one head.   *)
THEOREM WiredInvariant == Spec => []WiredInv
<1>1. Init => WiredInv
  BY DEF Init, GraphInit, NoEntries, WiredInv, NumbersInv, LinkedWhile, LinkedInv, EdgeInv, Stmts
<1> QED
  BY <1>1, WiredStep, SubgraphInvariant, PTL DEF Spec

\* Where a variable that is linked is written and read.
LEMMA WriterAt ==
  ASSUME SubgraphInv, LinkedInv, stage # "build", NEW p \in Stmts, NEW n \in outlinks[p]
  PROVE  \E q \in Original : /\ n[1] \in program.ops[q].out /\ n = <<n[1], 0>>
                             /\ IF p \in Original THEN q = p
                                ELSE q \in Members(p - built) /\ n[1] \notin ReadIn(p - built)
<1>1. CASE p \in Original
  <2>1. n \in Nodes(program.ops[p].out)
    BY <1>1 DEF LinkedInv
  <2> QED
    BY <1>1, <2>1, NodesFacts
<1>2. CASE p \notin Original
  <2>1. n \in Nodes(WrittenIn(p - built) \ ReadIn(p - built))
    BY <1>2 DEF LinkedInv
  <2>2. n[1] \in WrittenIn(p - built) \ ReadIn(p - built) /\ n = <<n[1], 0>>
    BY <2>1, NodesFacts
  <2>3. PICK q \in Members(p - built) : n[1] \in program.ops[q].out
    BY <2>2 DEF WrittenIn
  <2>4. q \in Original
    BY DEF Members, SubgraphInv, NumberInv
  <2> QED
    BY <1>2, <2>2, <2>3, <2>4
<1> QED
  BY <1>1, <1>2

LEMMA ReaderAt ==
  ASSUME SubgraphInv, LinkedInv, stage # "build", NEW s \in Stmts, NEW n \in inlinks[s]
  PROVE  \E t \in Original : /\ n[1] \in program.ops[t].in /\ n = <<n[1], 0>>
                             /\ IF s \in Original THEN t = s
                                ELSE t \in Members(s - built) /\ n[1] \notin WrittenIn(s - built)
<1>1. CASE s \in Original
  <2>1. n \in Nodes(program.ops[s].in)
    BY <1>1 DEF LinkedInv
  <2> QED
    BY <1>1, <2>1, NodesFacts
<1>2. CASE s \notin Original
  <2>1. n \in Nodes(ReadIn(s - built) \ WrittenIn(s - built))
    BY <1>2 DEF LinkedInv
  <2>2. n[1] \in ReadIn(s - built) \ WrittenIn(s - built) /\ n = <<n[1], 0>>
    BY <2>1, NodesFacts
  <2>3. PICK t \in Members(s - built) : n[1] \in program.ops[t].in
    BY <2>2 DEF ReadIn
  <2>4. t \in Original
    BY DEF Members, SubgraphInv, NumberInv
  <2> QED
    BY <1>2, <2>2, <2>3, <2>4
<1> QED
  BY <1>1, <1>2

\* A link leads to a higher layer, or in one layer to a number that is no higher;
\* inside of a number, from a statement to a later one of the program.
LEMMA LinksDescend ==
  ASSUME SubgraphInv, WritesOnce(program), NumbersInv, EdgeInv, stage \notin {"build", "number"},
         NEW layer \in Labels, IsLayering(program, layer),
         NEW s \in Stmts, NEW p \in AdjList[s]
  PROVE  /\ p \in Stmts
         /\ \E q \in Parts(p), t \in Parts(s) :
              /\ q \in Original /\ t \in Original
              /\ \/ layer[q] < layer[t]
                 \/ layer[q] = layer[t] /\ sub_id[t] < sub_id[q]
                 \/ layer[q] = layer[t] /\ sub_id[t] = sub_id[q] /\ s \in Original /\ q < t
<1>1. PICK n \in inlinks[s] : p \in Producers(n)
  BY DEF AdjList, Stmts
<1>2. p \in Stmts /\ n \in outlinks[p]
  BY <1>1 DEF Producers, SubgraphInv, GraphInv
<1>3. PICK q \in Parts(p) : n \in Nodes(program.ops[q].out)
  BY <1>2 DEF EdgeInv
<1>4. PICK t \in Parts(s) : n \in Nodes(program.ops[t].in)
  BY DEF EdgeInv
<1>5. \A r : Parts(r) \subseteq Original
  BY DEF Parts, Members, SubgraphInv, NumberInv
<1>6. PICK x : x = n[1]
  OBVIOUS
<1>7. x \in program.ops[q].out /\ t \in Readers(x) /\ q \in Original /\ t \in Original /\ q < t
  <2>1. x \in program.ops[q].out /\ x \in program.ops[t].in /\ q \in Original /\ t \in Original
    BY <1>3, <1>4, <1>5, <1>6, NodesFacts
  <2> QED
    BY <2>1, OnceFacts DEF Readers
<1>8. IF Leads(program, q, x) THEN layer[t] = layer[q] ELSE layer[q] < layer[t]
  BY <1>7, LeadsFacts DEF NumbersInv
<1>9. Leads(program, q, x) => sub_id[t] <= sub_id[q]
  BY <1>7, AfterNumbers
<1>10. s \in Original \/ sub_id[t] # sub_id[q]
  <2> SUFFICES ASSUME s \notin Original, sub_id[t] = sub_id[q] PROVE FALSE
    OBVIOUS
  <2>1. q \in Members(s - built)
    BY <1>4, <1>7 DEF Parts, Members, SubgraphInv, NumberInv
  <2>2. x \in WrittenIn(s - built)
    BY <1>7, <2>1 DEF WrittenIn
  <2> QED
    BY <1>6, <2>2 DEF EdgeInv
<1>11. sub_id[t] \in Int /\ sub_id[q] \in Int
  BY <1>7 DEF SubgraphInv, NumberInv
<1> QED
  BY <1>2, <1>7, <1>8, <1>9, <1>10, <1>11

(* Wherever the pass stops, the graph has no cycle, for every program that *)
(* writes a name once and no weight, and in which no path leaves what is   *)
(* linked on the NPU and comes back.                                       *)
THEOREM NoCycleIsMade ==
  Spec => [](WritesOnce(program) /\ KeepsWeights(program) /\ Layered(program) => StaysAcyclic)
<1>1. SubgraphInv /\ WiredInv =>
        (WritesOnce(program) /\ KeepsWeights(program) /\ Layered(program) => StaysAcyclic)
  <2> SUFFICES ASSUME SubgraphInv, WritesOnce(program), Layered(program), NumbersInv, EdgeInv,
                      stage = "generated", NEW group \in (SUBSET Stmts) \ {{}},
                      \A s \in group : AdjList[s] \cap group # {}
               PROVE  FALSE
    BY DEF WiredInv, StaysAcyclic
  <2>1. PICK layer \in Labels : IsLayering(program, layer)
    BY DEF Layered, Labels
  <2>2. /\ \A r : Parts(r) \subseteq Original
        /\ Original \subseteq Nat /\ sub_num \in Nat
        /\ \A t \in Original : layer[t] \in Nat /\ sub_id[t] \in Int /\ sub_id[t] <= sub_num
    BY OnceFacts, LabelFacts DEF Parts, Members, SubgraphInv, NumberInv, NumbersInv
  <2>3. \A r \in group : \A t, u \in Parts(r) : sub_id[t] = sub_id[u] /\ layer[t] = layer[u]
    <3> SUFFICES ASSUME NEW r \in group, NEW t \in Parts(r), NEW u \in Parts(r)
                 PROVE  sub_id[t] = sub_id[u] /\ layer[t] = layer[u]
      OBVIOUS
    <3>1. CASE r \in Original
      BY <3>1 DEF Parts
    <3>2. CASE r \notin Original
      <4>1. sub_id[t] = r - built /\ sub_id[u] = r - built
        BY <3>2 DEF Parts, Members
      <4>2. r - built \in 1..sub_num
        BY <3>2 DEF SubgraphInv, ReplacedInv
      <4>3. OneLayer(layer) /\ t \in Original /\ u \in Original
        BY <2>1, <2>2 DEF NumbersInv
      <4>4. sub_id[t] = sub_id[u] /\ sub_id[t] > 0
        BY <2>2, <4>1, <4>2
      <4> QED
        BY <4>3, <4>4 DEF OneLayer
    <3> QED
      BY <3>1, <3>2
  <2>4. ASSUME NEW s \in group
        PROVE  \E p \in group : \E q \in Parts(p), t \in Parts(s) :
                 /\ q \in Original /\ t \in Original
                 /\ \/ layer[q] < layer[t]
                    \/ layer[q] = layer[t] /\ sub_id[t] < sub_id[q]
                    \/ layer[q] = layer[t] /\ sub_id[t] = sub_id[q] /\ s \in Original /\ q < t
    <3>1. PICK p \in group : p \in AdjList[s]
      BY <2>4
    <3> QED
      BY <2>1, <2>4, <3>1, LinksDescend
\* The statements of the lowest layer, of the last number there, the first one.
  <2> DEFINE S1 == {t \in Original : \E r \in group : t \in Parts(r)}
             L1 == {layer[t] : t \in S1}
  <2>5. S1 # {} /\ L1 # {} /\ L1 \subseteq Nat
    <3>1. S1 # {}
      BY <2>4
    <3> QED
      BY <2>2, <3>1
  <2>6. PICK l \in L1 : \A m \in L1 : l <= m
    <3> HIDE DEF L1
    <3> QED
      BY <2>5, LeastOf
  <2> DEFINE S2 == {t \in S1 : layer[t] = l}
             L2 == {sub_num - sub_id[t] : t \in S2}
  <2>7. L2 # {} /\ L2 \subseteq Nat
    BY <2>2, <2>6
  <2>8. PICK d \in L2 : \A m \in L2 : d <= m
    <3> HIDE DEF L2
    <3> QED
      BY <2>7, LeastOf
  <2> DEFINE S3 == {t \in S2 : sub_num - sub_id[t] = d}
  <2>9. S3 # {} /\ S3 \subseteq Nat
    BY <2>2, <2>8
  <2>10. PICK t \in S3 : \A u \in S3 : t <= u
    <3> HIDE DEF S3
    <3> QED
      BY <2>9, LeastOf
  <2>11. PICK s \in group : t \in Parts(s)
    OBVIOUS
  <2> DEFINE Descends(q, u) ==
               /\ q \in Original /\ u \in Original
               /\ \/ layer[q] < layer[u]
                  \/ layer[q] = layer[u] /\ sub_id[u] < sub_id[q]
                  \/ layer[q] = layer[u] /\ sub_id[u] = sub_id[q] /\ s \in Original /\ q < u
  <2>12. PICK p \in group : \E q \in Parts(p), u \in Parts(s) : Descends(q, u)
    BY <2>4
  <2>13. PICK q \in Parts(p), u \in Parts(s) : Descends(q, u)
    BY <2>12
  <2>14. sub_id[u] = sub_id[t] /\ layer[u] = layer[t] /\ (s \in Original => u = t)
    BY <2>3, <2>11 DEF Parts
  <2>15. q \in S1 /\ t \in S1 /\ layer[t] = l /\ sub_num - sub_id[t] = d
    BY <2>13
  <2>16. layer[q] >= l /\ layer[q] \in Nat /\ l \in Nat
    BY <2>2, <2>6, <2>15
  <2>17. layer[q] = l /\ q \in S2
    BY <2>13, <2>14, <2>15, <2>16
  <2>18. sub_num - sub_id[q] >= d
    BY <2>8, <2>17
  <2>19. sub_id[q] = sub_id[t] /\ s \in Original /\ q < t
    BY <2>2, <2>13, <2>14, <2>15, <2>17, <2>18
  <2>20. q \in S3
    BY <2>15, <2>17, <2>19
  <2> QED
    BY <2>2, <2>9, <2>10, <2>19, <2>20
<1> QED
  BY <1>1, SubgraphInvariant, WiredInvariant, PTL

(* Wherever the pass stops, a statement and a model are linked to what     *)
(* computes the variables they read, for the same programs when in each    *)
(* what is linked on the NPU descends from one operator.                   *)
THEOREM ReadersAreSupplied == Spec => [](Sound => ReadersSupplied)
<1>1. SubgraphInv /\ WiredInv => (Sound => ReadersSupplied)
  <2> SUFFICES ASSUME SubgraphInv, Sound, WritesOnce(program), NumbersInv, LinkedInv,
                      stage = "generated", NEW s \in Stmts, NEW x \in desc[s].in
               PROVE  \E n \in inlinks[s] :
                        n[1] = x /\ \A t \in Original : x \in program.ops[t].out => Producers(n) = {Home(t)}
    BY DEF WiredInv, LinkedWhile, Sound, ReadersSupplied
  <2>1. <<x, 0>> \in inlinks[s]
    <3>1. CASE s \in Original
      BY <3>1, NodeOf DEF LinkedInv
    <3>2. CASE s \notin Original
      <4>1. /\ inlinks[s] = Nodes(ReadIn(s - built) \ WrittenIn(s - built))
            /\ x \in ReadIn(s - built) \ WrittenIn(s - built)
        BY <3>2 DEF LinkedInv
      <4> QED
        BY <4>1, NodeOf
    <3> QED
      BY <3>1, <3>2
  <2>2. PICK u \in Original : /\ x \in program.ops[u].in
                              /\ IF s \in Original THEN u = s
                                 ELSE u \in Members(s - built) /\ x \notin WrittenIn(s - built)
    BY <2>1, ReaderAt
  <2>3. ASSUME NEW t \in Original, x \in program.ops[t].out PROVE Producers(<<x, 0>>) = {Home(t)}
    <3>1. ASSUME NEW p \in Producers(<<x, 0>>) PROVE p = Home(t)
      <4>1. p \in Stmts /\ <<x, 0>> \in outlinks[p]
        BY DEF Producers, SubgraphInv, GraphInv
      <4>2. PICK q \in Original : /\ x \in program.ops[q].out
                                  /\ IF p \in Original THEN q = p ELSE q \in Members(p - built)
        BY <4>1, WriterAt
      <4>3. q = t
        BY <2>3, <4>2, OnceFacts
      <4>4. CASE p \in Original
        BY <4>1, <4>2, <4>3, <4>4 DEF Home
      <4>5. CASE p \notin Original
        <5>1. t \in Members(p - built) /\ Members(p - built) \cap Stmts = {} /\ p - built \in 1..sub_num
          BY <4>1, <4>2, <4>3, <4>5 DEF SubgraphInv, ReplacedInv
        <5>2. p \in Nat /\ built \in Nat
          BY <4>1, <4>5, OnceFacts DEF SubgraphInv, ReplacedInv
        <5> QED
          BY <5>1, <5>2 DEF Home, Members
      <4> QED
        BY <4>4, <4>5
    <3>2. Home(t) \in Producers(<<x, 0>>)
      <4>1. CASE t \in Stmts
        <5>1. <<x, 0>> \in outlinks[t]
          BY <2>3, <4>1, NodeOf DEF LinkedInv
        <5> QED
          BY <4>1, <5>1 DEF Home, Producers, SubgraphInv, GraphInv
      <4>2. CASE t \notin Stmts
        <5> DEFINE k == sub_id[t]
        <5>1. k \in 1..sub_num /\ built + k \in Stmts /\ built + k \notin Original /\ (built + k) - built = k
          <6>1. k \in 1..sub_num /\ built + k \in Stmts
            BY <4>2 DEF SubgraphInv, ReplacedInv
          <6>2. built \in Nat /\ sub_num \in Nat
            BY OnceFacts DEF SubgraphInv, NumberInv
          <6> QED
            BY <6>1, <6>2 DEF Original
        <5>2. t \in Members(k) /\ x \in WrittenIn(k)
          BY <2>3 DEF Members, WrittenIn, SubgraphInv, NumberInv
        <5>3. sub_id[u] # k
          <6>1. CASE s \in Original
            BY <2>2, <5>1, <6>1 DEF SubgraphInv, ReplacedInv, NumberInv, Members
          <6>2. CASE s \notin Original
            BY <2>2, <5>2, <6>2 DEF Members
          <6> QED
            BY <6>1, <6>2
        <5>4. u \in Readers(x)
          BY <2>2 DEF Readers
        <5>5. x \notin ReadIn(k)
          <6> SUFFICES ASSUME NEW v \in Members(k), x \in program.ops[v].in PROVE FALSE
            BY DEF ReadIn
          <6>1. v \in Readers(x) /\ sub_id[v] = sub_id[t] /\ sub_id[t] > 0
            BY <5>1 DEF Members, Readers, SubgraphInv, NumberInv
          <6>2. sub_id[u] = sub_id[t]
            BY <2>3, <5>4, <6>1, ReadersTogether
          <6> QED
            BY <5>3, <6>2
        <5> HIDE DEF k
        <5>6. <<x, 0>> \in outlinks[built + k]
          BY <5>1, <5>2, <5>5, NodeOf DEF LinkedInv
        <5> QED
          BY <4>2, <5>1, <5>6 DEF Home, Producers, SubgraphInv, GraphInv, k
      <4> QED
        BY <4>1, <4>2
    <3> QED
      BY <3>1, <3>2
  <2> QED
    BY <2>1, <2>3
<1> QED
  BY <1>1, SubgraphInvariant, WiredInvariant, PTL
=============================================================================
