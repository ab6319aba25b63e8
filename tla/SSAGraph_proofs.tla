--------------------------- MODULE SSAGraph_proofs ---------------------------
(***************************************************************************)
(* SSAGraph::Build is right for every program: each input is bound to the  *)
(* last operator that wrote its name, so that the graph has no cycle.      *)
(***************************************************************************)
EXTENDS SSAGraph, TLAPS

\* The operators linked so far that write x.
Writers(x) == {t \in 1..built : x \in program.ops[t].out}

\* P is the last of the operators W, or none when W is empty.
IsLastOf(P, W) ==
  /\ P \subseteq W
  /\ W # {} => \E t \in P : \A u \in W : u <= t
  /\ \A t, u \in P : t = u

\* What arg_update_node_map_ stands for: its node of a name is made by the last
\* writer of the name, and a name it does not hold is written by nobody.
LatestInv ==
  /\ \A x \in DOMAIN latest : IsLastOf(Producers(<<x, latest[x]>>), Writers(x))
  /\ \A x : x \notin DOMAIN latest => Writers(x) = {}

LinksInv ==
  \A s \in 1..built : \A n \in inlinks[s] :
    IsLastOf(Producers(n), WritersBefore(s, n[1]))

BuildInv == GraphTypeOK /\ LatestInv /\ LinksInv

-----------------------------------------------------------------------------
LEMMA OpFacts ==
  ASSUME GraphTypeOK
  PROVE  /\ Len(program.ops) \in Nat
         /\ built \in Nat /\ built <= Len(program.ops)
         /\ \A s \in 1..Len(program.ops) :
              program.ops[s].in \subseteq Name /\ program.ops[s].out \subseteq Name
<1>1. program.ops \in Seq(Operator)
  BY ProgramsAssumption DEF GraphTypeOK
<1>2. Len(program.ops) \in Nat /\ \A s \in 1..Len(program.ops) : program.ops[s] \in Operator
  BY <1>1
<1> QED
  BY <1>2 DEF GraphTypeOK, Operator

\* The versions a step makes: a read keeps the newest version of a name, a
\* write makes one that the graph does not hold.
LEMMA VersionFacts ==
  ASSUME GraphTypeOK, NEW op, op.in \subseteq Name, op.out \subseteq Name
  PROVE  /\ DOMAIN AfterReads(op) = DOMAIN latest \cup op.in
         /\ DOMAIN AfterWrites(op) = DOMAIN latest \cup op.in \cup op.out
         /\ \A x \in DOMAIN latest : AfterReads(op)[x] = latest[x]
         /\ \A x \in op.in \ DOMAIN latest : AfterReads(op)[x] = 0
         /\ \A x \in op.out \ (DOMAIN latest \cup op.in) : AfterWrites(op)[x] = 0
         /\ \A x \in op.out \cap (DOMAIN latest \cup op.in) :
              AfterWrites(op)[x] = AfterReads(op)[x] + 1
         /\ \A x \in (DOMAIN latest \cup op.in) \ op.out :
              AfterWrites(op)[x] = AfterReads(op)[x]
         /\ \A x \in DOMAIN latest \cup op.in : AfterReads(op)[x] \in Nat
         /\ \A x \in DOMAIN latest \cup op.in \cup op.out : AfterWrites(op)[x] \in Nat
<1>1. DOMAIN AfterReads(op) = DOMAIN latest \cup op.in
  BY DEF AfterReads
<1>2. DOMAIN AfterWrites(op) = DOMAIN latest \cup op.in \cup op.out
  BY <1>1 DEF AfterWrites
<1>3. /\ \A x \in DOMAIN latest : AfterReads(op)[x] = latest[x]
      /\ \A x \in op.in \ DOMAIN latest : AfterReads(op)[x] = 0
  BY DEF AfterReads, Lookup
<1>4. /\ \A x \in op.out \ (DOMAIN latest \cup op.in) : AfterWrites(op)[x] = -1 + 1
      /\ \A x \in op.out \cap (DOMAIN latest \cup op.in) :
           AfterWrites(op)[x] = AfterReads(op)[x] + 1
      /\ \A x \in (DOMAIN latest \cup op.in) \ op.out :
           AfterWrites(op)[x] = AfterReads(op)[x]
  BY <1>1 DEF AfterWrites, Lookup
<1>5. \A x \in DOMAIN latest \cup op.in : AfterReads(op)[x] \in Nat
  BY <1>3 DEF GraphTypeOK
<1>6. \A x \in DOMAIN latest \cup op.in \cup op.out : AfterWrites(op)[x] \in Nat
  BY <1>4, <1>5
<1> QED
  BY <1>1, <1>2, <1>3, <1>4, <1>5, <1>6

LEMMA InitBuildInv == GraphInit => BuildInv
<1> SUFFICES ASSUME GraphInit PROVE BuildInv
  OBVIOUS
<1>1. Len(program.ops) \in Nat
  BY ProgramsAssumption DEF GraphInit
<1>2. GraphTypeOK
  BY <1>1 DEF GraphInit, GraphTypeOK, NoEntries
<1>3. LatestInv /\ LinksInv
  BY DEF GraphInit, LatestInv, LinksInv, NoEntries, Writers
<1> QED
  BY <1>2, <1>3 DEF BuildInv

LEMMA NextBuildInv == BuildInv /\ [BuildOp]_graphVars => BuildInv'
<1> SUFFICES ASSUME BuildInv, [BuildOp]_graphVars PROVE BuildInv'
  OBVIOUS
<1>1. CASE BuildOp
  <2> DEFINE s == built + 1
             op == program.ops[s]
             R == AfterReads(op)
             W == AfterWrites(op)
             new == {<<x, W[x]>> : x \in op.out}
             Made(n) == {t \in DOMAIN outlinks' : n \in outlinks'[t]}
  <2>1. /\ built \in Nat /\ s \in Nat /\ Len(program.ops) \in Nat
        /\ built < Len(program.ops)
        /\ op.in \subseteq Name /\ op.out \subseteq Name
        /\ GraphTypeOK
    BY <1>1, OpFacts DEF BuildInv, BuildOp
  <2>2. /\ built' = s /\ latest' = W /\ program' = program
        /\ inlinks' = Assign(inlinks, s, {<<x, R[x]>> : x \in op.in})
        /\ outlinks' = Assign(outlinks, s, new)
    BY <1>1 DEF BuildOp
  <2>3. /\ DOMAIN inlinks' = 1..s /\ DOMAIN outlinks' = 1..s
        /\ \A t \in 1..built : inlinks'[t] = inlinks[t] /\ outlinks'[t] = outlinks[t]
        /\ inlinks'[s] = {<<x, R[x]>> : x \in op.in}
        /\ outlinks'[s] = new
    BY <2>1, <2>2 DEF Assign, GraphTypeOK
  <2>4. /\ DOMAIN R = DOMAIN latest \cup op.in
        /\ DOMAIN W = DOMAIN latest \cup op.in \cup op.out
        /\ \A x \in DOMAIN latest : R[x] = latest[x]
        /\ \A x \in op.in \ DOMAIN latest : R[x] = 0
        /\ \A x \in op.out \ (DOMAIN latest \cup op.in) : W[x] = 0
        /\ \A x \in op.out \cap (DOMAIN latest \cup op.in) : W[x] = R[x] + 1
        /\ \A x \in (DOMAIN latest \cup op.in) \ op.out : W[x] = R[x]
        /\ \A x \in DOMAIN latest \cup op.in : R[x] \in Nat
        /\ \A x \in DOMAIN latest \cup op.in \cup op.out : W[x] \in Nat
    BY <2>1, VersionFacts
  <2> HIDE DEF R, W
  <2>5. GraphTypeOK'
    <3>1. \A x \in DOMAIN W : x \in Name /\ W[x] \in Nat
      BY <2>1, <2>4 DEF GraphTypeOK
    <3>2. \A x \in DOMAIN latest : latest[x] \in Nat /\ W[x] \in Nat /\ latest[x] <= W[x]
      BY <2>1, <2>4 DEF GraphTypeOK
    <3>3. \A t \in 1..built : \A n \in inlinks[t] \cup outlinks[t] :
            n \in ArgNode /\ n[1] \in DOMAIN W /\ n[2] <= W[n[1]]
      <4> SUFFICES ASSUME NEW t \in 1..built, NEW n \in inlinks[t] \cup outlinks[t]
                   PROVE  n \in ArgNode /\ n[1] \in DOMAIN W /\ n[2] <= W[n[1]]
        OBVIOUS
      <4>1. n \in ArgNode /\ n[1] \in DOMAIN latest /\ n[2] <= latest[n[1]]
        BY <2>1 DEF GraphTypeOK
      <4>2. n[2] \in Nat /\ latest[n[1]] \in Nat /\ W[n[1]] \in Nat /\ latest[n[1]] <= W[n[1]]
        BY <3>2, <4>1 DEF ArgNode
      <4> QED
        BY <2>4, <4>1, <4>2
    <3>4. \A x \in op.in : /\ <<x, R[x]>> \in ArgNode /\ x \in DOMAIN W
                           /\ R[x] <= W[x]
      BY <2>1, <2>4 DEF ArgNode
    <3>5. \A x \in op.out : <<x, W[x]>> \in ArgNode /\ x \in DOMAIN W
      BY <2>1, <2>4 DEF ArgNode
    <3>6. \A n \in inlinks'[s] \cup outlinks'[s] :
            n \in ArgNode /\ n[1] \in DOMAIN W /\ n[2] <= W[n[1]]
      BY <2>3, <2>4, <3>4, <3>5
    <3>7. \A t \in 1..s : \A n \in inlinks'[t] \cup outlinks'[t] :
            n \in ArgNode /\ n[1] \in DOMAIN W /\ n[2] <= W[n[1]]
      <4>1. \A t \in 1..s : t \in 1..built \/ t = s
        BY <2>1
      <4> QED
        BY <2>3, <3>3, <3>6, <4>1
    <3>8. program' \in Programs /\ built' \in 0..Len(program'.ops)
      BY <2>1, <2>2 DEF GraphTypeOK
    <3>9. DOMAIN inlinks' = 1..built' /\ DOMAIN outlinks' = 1..built'
      BY <2>2, <2>3
    <3>10. \A x \in DOMAIN latest' : x \in Name /\ latest'[x] \in Nat
      BY <2>2, <3>1
    <3> QED
      BY <2>2, <3>7, <3>8, <3>9, <3>10 DEF GraphTypeOK
  \* No link made earlier is to one of the new nodes.
  <2>6. \A t \in 1..built : \A n \in inlinks[t] \cup outlinks[t] : n \notin new
    <3> SUFFICES ASSUME NEW t \in 1..built, NEW n \in inlinks[t] \cup outlinks[t],
                        NEW x \in op.out, n = <<x, W[x]>>
                 PROVE  FALSE
      BY DEF new
    <3>1. x \in DOMAIN latest /\ W[x] <= latest[x] /\ latest[x] \in Nat
      BY <2>1 DEF GraphTypeOK
    <3>2. W[x] = latest[x] + 1
      BY <2>4, <3>1
    <3> QED
      BY <3>1, <3>2
  <2>7. \A x \in op.in : <<x, R[x]>> \notin new
    <3> SUFFICES ASSUME NEW x \in op.in, x \in op.out, R[x] = W[x] PROVE FALSE
      BY DEF new
    <3>1. W[x] = R[x] + 1 /\ R[x] \in Nat
      BY <2>4
    <3> QED
      BY <3>1
  <2>8. \A n : n \notin new => Made(n) = Producers(n)
    <3> SUFFICES ASSUME NEW n, n \notin new PROVE Made(n) = Producers(n)
      OBVIOUS
    <3>1. \A t \in 1..s : t \in 1..built \/ t = s
      BY <2>1
    <3>2. 1..built \subseteq 1..s /\ DOMAIN outlinks = 1..built
      BY <2>1 DEF GraphTypeOK
    <3> HIDE DEF new, s
    <3> QED
      BY <2>3, <3>1, <3>2 DEF Producers
  <2>9. \A x : Writers(x)' = IF x \in op.out THEN Writers(x) \cup {s} ELSE Writers(x)
    BY <2>1, <2>2 DEF Writers
  <2>10. \A t \in 1..s : \A x : WritersBefore(t, x)' = WritersBefore(t, x)
    BY <2>2 DEF WritersBefore
  <2>11. \A x : WritersBefore(s, x) = Writers(x)
    BY <2>1 DEF WritersBefore, Writers
  \* The inputs of the operator.
  <2>12. \A x \in op.in : IsLastOf(Producers(<<x, R[x]>>), Writers(x))
    <3> SUFFICES ASSUME NEW x \in op.in
                 PROVE  IsLastOf(Producers(<<x, R[x]>>), Writers(x))
      OBVIOUS
    <3>1. CASE x \in DOMAIN latest
      BY <2>4, <3>1 DEF BuildInv, LatestInv
    <3>2. CASE x \notin DOMAIN latest
      <4>1. Writers(x) = {}
        BY <3>2 DEF BuildInv, LatestInv
      <4>2. \A v : Producers(<<x, v>>) = {}
        BY <2>1, <3>2 DEF Producers, GraphTypeOK
      <4> QED
        BY <4>1, <4>2 DEF IsLastOf
    <3> QED
      BY <3>1, <3>2
  <2>13. \A t \in 1..s : \A n \in inlinks'[t] : IsLastOf(Made(n), WritersBefore(t, n[1]))
    <3> SUFFICES ASSUME NEW t \in 1..s, NEW n \in inlinks'[t]
                 PROVE  IsLastOf(Made(n), WritersBefore(t, n[1]))
      OBVIOUS
    <3>1. CASE t \in 1..built
      <4>1. n \in inlinks[t] /\ n \notin new
        BY <2>3, <2>6, <3>1
      <4>2. IsLastOf(Producers(n), WritersBefore(t, n[1]))
        BY <3>1, <4>1 DEF BuildInv, LinksInv
      <4> QED
        BY <2>8, <4>1, <4>2
    <3>2. CASE t = s
      <4>1. PICK x \in op.in : n = <<x, R[x]>>
        BY <2>3, <3>2
      <4>2. n \notin new /\ IsLastOf(Producers(n), Writers(x)) /\ n[1] = x
        BY <2>7, <2>12, <4>1
      <4>3. Made(n) = Producers(n) /\ WritersBefore(t, n[1]) = Writers(x)
        BY <2>8, <2>11, <3>2, <4>2
      <4> QED
        BY <4>2, <4>3
    <3> QED
      BY <2>1, <3>1, <3>2
  <2>14. /\ \A x \in DOMAIN W : IsLastOf(Made(<<x, W[x]>>), Writers(x)')
         /\ \A x : x \notin DOMAIN W => Writers(x)' = {}
    <3>1. \A x \in DOMAIN W : IsLastOf(Made(<<x, W[x]>>), Writers(x)')
      <4> SUFFICES ASSUME NEW x \in DOMAIN W
                   PROVE  IsLastOf(Made(<<x, W[x]>>), Writers(x)')
        OBVIOUS
      <4>1. CASE x \in op.out
        <5>1. <<x, W[x]>> \in new
          BY <4>1 DEF new
        <5>2. Made(<<x, W[x]>>) = {s}
          <6>1. \A t \in 1..s : t \in 1..built \/ t = s
            BY <2>1
          <6>2. s \in 1..s
            BY <2>1
          <6> HIDE DEF new, s
          <6> QED
            BY <2>3, <2>6, <5>1, <6>1, <6>2
        <5>3. Writers(x)' = Writers(x) \cup {s} /\ \A u \in Writers(x) : u <= s
          BY <2>1, <2>9, <4>1 DEF Writers
        <5> QED
          BY <2>1, <5>2, <5>3 DEF IsLastOf
      <4>2. CASE x \notin op.out
        <5>1. <<x, W[x]>> \notin new
          BY <4>2 DEF new
        <5>2. W[x] = R[x]
          BY <2>4, <4>2
        <5>3. IsLastOf(Producers(<<x, R[x]>>), Writers(x))
          BY <2>4, <2>12, <4>2 DEF BuildInv, LatestInv
        <5> QED
          BY <2>8, <2>9, <4>2, <5>1, <5>2, <5>3
      <4> QED
        BY <4>1, <4>2
    <3>2. \A x : x \notin DOMAIN W => Writers(x)' = {}
      BY <2>4, <2>9 DEF BuildInv, LatestInv
    <3> QED
      BY <3>1, <3>2
  <2>15. \A n : Producers(n)' = Made(n)
    BY DEF Producers
  <2>16. LinksInv'
    <3>1. \A t \in 1..s : \A n \in inlinks'[t] :
            IsLastOf(Producers(n)', WritersBefore(t, n[1])')
      BY <2>10, <2>13, <2>15
    <3> QED
      BY <2>2, <3>1 DEF LinksInv
  <2>17. LatestInv'
    <3>1. \A x \in DOMAIN latest' : IsLastOf(Producers(<<x, latest[x]>>)', Writers(x)')
      BY <2>2, <2>14 DEF Producers
    <3> QED
      BY <2>2, <2>14, <3>1 DEF LatestInv
  <2> QED
    BY <2>5, <2>16, <2>17 DEF BuildInv
<1>2. CASE UNCHANGED graphVars
  BY <1>2 DEF graphVars, BuildInv, GraphTypeOK, LatestInv, LinksInv, IsLastOf,
              Writers, WritersBefore, Producers
<1> QED
  BY <1>1, <1>2

-----------------------------------------------------------------------------
(* The tables of the graph always describe the operators linked so far.    *)
THEOREM GraphTypeCorrect == GraphSpec => []GraphTypeOK
<1>1. BuildInv => GraphTypeOK
  BY DEF BuildInv
<1> QED
  BY <1>1, InitBuildInv, NextBuildInv, PTL DEF GraphSpec

(* Whatever the program, an operator is linked to the last operator before *)
(* it that writes the variable it reads.                                   *)
THEOREM ReadsLastWriter == GraphSpec => []BoundToLastWriter
<1>1. BuildInv => BoundToLastWriter
  BY DEF BuildInv, LinksInv, IsLastOf, BoundToLastWriter
<1> QED
  BY <1>1, InitBuildInv, NextBuildInv, PTL DEF GraphSpec

(* Whatever the program, the dependences between its statements lead back  *)
(* to earlier operators: the graph has no cycle.                           *)
THEOREM GraphIsAcyclic == GraphSpec => []DependsOnEarlier
<1>1. BuildInv => DependsOnEarlier
  <2> SUFFICES ASSUME BuildInv, NEW s \in 1..built, NEW n \in inlinks[s]
               PROVE  Producers(n) \subseteq 1..(s - 1)
    BY DEF DependsOnEarlier, AdjList, BuildInv, GraphTypeOK
  <2> QED
    BY DEF BuildInv, LinksInv, IsLastOf, WritersBefore
<1> QED
  BY <1>1, InitBuildInv, NextBuildInv, PTL DEF GraphSpec
=============================================================================
