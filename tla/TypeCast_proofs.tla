--------------------------- MODULE TypeCast_proofs ---------------------------
(***************************************************************************)
(* However the three cast passes relink and rename, the links of every     *)
(* statement are the names of its description, no two statements write one *)
(* cast variable, what is behind the casts of an input is what the program *)
(* wrote there, only casts of weights run once, no int8 model is given a   *)
(* calib from int8, and when the passes have finished every input has the  *)
(* type its kernel declares, for every program, registry and order.        *)
(***************************************************************************)
EXTENDS TypeCast, SSAGraph_proofs, FiniteSetTheorems, WellFoundedInduction, TLAPS

\* No name of the program looks like the name of a cast.
PlainNames == \A x \in Name : \A y, k : x # <<y, k>>

\* The number the next cast is named by.
Nodes == Cardinality(Stmts) + Cardinality(DOMAIN arg)

Fields == {"op", "once", "in", "out", "kernel"}

NamesOf(links) == {n[1] : n \in links}
NamesApart(links) == \A m, n \in links : m[1] = n[1] => m = n

\* Before the passes, the graph.
BuildingInv ==
  step = 0 =>
    /\ BuildInv /\ last = 0 /\ cur = 0
    /\ \A s \in 1..built :
         /\ NamesOf(inlinks[s]) = program.ops[s].in /\ NamesApart(inlinks[s])
         /\ NamesOf(outlinks[s]) = program.ops[s].out
         /\ IsFiniteSet(inlinks[s]) /\ IsFiniteSet(outlinks[s])

\* The links are what the descriptions say, each under a name of its own.
LinksFit ==
  \A s \in Stmts :
    /\ DOMAIN stmt[s] = Fields
    /\ NamesOf(inlinks[s]) = ToSet(stmt[s].in) /\ NamesApart(inlinks[s])
    /\ NamesOf(outlinks[s]) = ToSet(stmt[s].out)
    /\ Touches(s) \subseteq DOMAIN arg

\* A name is the program's, or has the number of a cast that was made.
NumbersUsed == \A n \in DOMAIN arg : n[1] \in Name \/ n[1][2] \in 0..(Nodes - 1)

\* Casts are numbered upwards.
CastsNumbered ==
  /\ \A s \in 1..built : ToSet(stmt[s].out) \subseteq Name
  /\ \A s \in Stmts \ (1..built) :
       /\ stmt[s].out = <<stmt[s].out[1]>> /\ stmt[s].out[1] \notin Name
       /\ stmt[s].out[1][2] \in 0..(Nodes - 1)
  /\ \A s, t \in Stmts \ (1..built) : s < t => stmt[s].out[1][2] < stmt[t].out[1][2]

CastingInv ==
  step > 0 =>
    /\ Cardinality(Stmts) \in Nat \ {0} /\ built \in 1..Cardinality(Stmts)
    /\ Stmts = 1..Cardinality(Stmts) /\ Stmts = DOMAIN inlinks /\ Stmts = DOMAIN outlinks
    /\ IsFiniteSet(DOMAIN arg)
    /\ LinksFit /\ NumbersUsed /\ CastsNumbered

CursorInv ==
  /\ step \in 0..11
  /\ last \in Nat /\ cur \in 0..last
  /\ last > 0 => cur > 0 /\ last \in Stmts /\ todo \subseteq inlinks[cur]

CastInv == BuildingInv /\ CastingInv /\ CursorInv

-----------------------------------------------------------------------------
LEMMA PassFacts ==
  /\ Len(Passes) = 10 /\ DOMAIN Passes = 1..10
  /\ DOMAIN CastOp = {"target", "precision", "layout"}
BY DEF Passes, CastOp

LEMMA ImageFinite ==
  ASSUME NEW f, IsFiniteSet(DOMAIN f)
  PROVE  IsFiniteSet({f[x] : x \in DOMAIN f})
<1> DEFINE g == [x \in DOMAIN f |-> f[x]]
<1>1. g \in Surjection(DOMAIN f, {f[x] : x \in DOMAIN f})
  BY DEF Surjection
<1> QED
  BY <1>1, FS_Surjection

\* The names of a description are finitely many names of the program.
LEMMA DescFacts ==
  ASSUME NEW p \in Programs, NEW s \in 1..Len(p.ops)
  PROVE  /\ ToSet(p.desc[s].in) = p.ops[s].in /\ ToSet(p.desc[s].out) = p.ops[s].out
         /\ p.ops[s].in \subseteq Name /\ p.ops[s].out \subseteq Name
         /\ IsFiniteSet(p.ops[s].in) /\ IsFiniteSet(p.ops[s].out)
<1>1. s \in DOMAIN p.ops
  BY ProgramsAssumption
<1>2. /\ p.desc[s].in \in Seq(Name) /\ ToSet(p.desc[s].in) = p.ops[s].in
      /\ p.desc[s].out \in Seq(Name) /\ ToSet(p.desc[s].out) = p.ops[s].out
  BY <1>1, DescAssumption
<1>3. ASSUME NEW q \in Seq(Name) PROVE IsFiniteSet(ToSet(q)) /\ ToSet(q) \subseteq Name
  <2>1. DOMAIN q = 1..Len(q) /\ Len(q) \in Nat /\ \A k \in DOMAIN q : q[k] \in Name
    OBVIOUS
  <2>2. IsFiniteSet(DOMAIN q)
    BY <2>1, FS_Interval
  <2> QED
    BY <2>1, <2>2, ImageFinite DEF ToSet
<1> QED
  BY <1>2, <1>3

LEMMA NumberFacts ==
  ASSUME CastingInv, step > 0
  PROVE  Nodes \in Nat /\ Cardinality(DOMAIN arg) \in Nat
BY FS_CardinalityType DEF CastingInv, Nodes

LEMMA PairNames ==
  ASSUME NEW S, NEW f
  PROVE  LET links == {<<x, f[x]>> : x \in S} IN NamesOf(links) = S /\ NamesApart(links)
<1> DEFINE links == {<<x, f[x]>> : x \in S}
<1>1. NamesApart(links)
  BY DEF NamesApart
<1>2. ASSUME NEW x \in S PROVE x \in NamesOf(links)
  <2>1. <<x, f[x]>> \in links /\ x = <<x, f[x]>>[1]
    OBVIOUS
  <2> QED
    BY <2>1 DEF NamesOf
<1>3. ASSUME NEW y \in NamesOf(links) PROVE y \in S
  <2>1. PICK n \in links : y = n[1]
    BY <1>3 DEF NamesOf
  <2> QED
    BY <2>1
<1> QED
  BY <1>1, <1>2, <1>3

LEMMA InitCastInv == CastInit => CastInv
<1> SUFFICES ASSUME CastInit PROVE CastInv
  OBVIOUS
<1>1. BuildInv
  BY InitBuildInv DEF CastInit
<1>2. 1..built = {}
  BY DEF CastInit, GraphInit
<1> QED
  BY <1>1, <1>2 DEF CastInit, CastInv, BuildingInv, CastingInv, CursorInv

LEMMA BuildStep ==
  ASSUME CastInv, BuildGraph
  PROVE  CastInv'
<1> DEFINE s == built + 1
           op == program.ops[s]
           R == AfterReads(op)
           W == AfterWrites(op)
<1>1. /\ step = 0 /\ step' = 0 /\ last' = 0 /\ cur' = 0 /\ BuildOp /\ BuildInv /\ GraphTypeOK
  BY DEF BuildGraph, CastInv, BuildingInv, castVars, BuildInv
<1>2. BuildInv' /\ built \in Nat
  BY <1>1, NextBuildInv, OpFacts
<1>3. /\ built' = s /\ program' = program
      /\ inlinks' = Assign(inlinks, s, {<<x, R[x]>> : x \in op.in})
      /\ outlinks' = Assign(outlinks, s, {<<x, W[x]>> : x \in op.out})
  BY <1>1 DEF BuildOp
<1> HIDE DEF R, W
<1>4. /\ \A t \in 1..built : inlinks'[t] = inlinks[t] /\ outlinks'[t] = outlinks[t]
      /\ inlinks'[s] = {<<x, R[x]>> : x \in op.in}
      /\ outlinks'[s] = {<<x, W[x]>> : x \in op.out}
  BY <1>1, <1>2, <1>3 DEF Assign, GraphTypeOK
<1>5. IsFiniteSet(inlinks'[s]) /\ IsFiniteSet(outlinks'[s])
  <2>1. s \in 1..Len(program.ops) /\ program \in Programs
    BY <1>1, <1>2 DEF BuildOp, GraphTypeOK
  <2>2. IsFiniteSet(op.in) /\ IsFiniteSet(op.out)
    BY <2>1, DescFacts
  <2> DEFINE f == [x \in op.in |-> <<x, R[x]>>]
             g == [x \in op.out |-> <<x, W[x]>>]
  <2>3. IsFiniteSet({f[x] : x \in DOMAIN f}) /\ IsFiniteSet({g[x] : x \in DOMAIN g})
    BY <2>2, ImageFinite
  <2>4. {f[x] : x \in DOMAIN f} = inlinks'[s] /\ {g[x] : x \in DOMAIN g} = outlinks'[s]
    BY <1>4
  <2> QED
    BY <2>3, <2>4
<1>6. ASSUME NEW t \in 1..s
      PROVE  /\ NamesOf(inlinks'[t]) = program.ops[t].in /\ NamesApart(inlinks'[t])
             /\ NamesOf(outlinks'[t]) = program.ops[t].out
             /\ IsFiniteSet(inlinks'[t]) /\ IsFiniteSet(outlinks'[t])
  <2>1. CASE t \in 1..built
    BY <1>1, <1>4, <2>1 DEF CastInv, BuildingInv
  <2>2. NamesOf(inlinks'[s]) = op.in /\ NamesApart(inlinks'[s]) /\ NamesOf(outlinks'[s]) = op.out
    <3>1. /\ NamesOf({<<x, R[x]>> : x \in op.in}) = op.in /\ NamesApart({<<x, R[x]>> : x \in op.in})
          /\ NamesOf({<<x, W[x]>> : x \in op.out}) = op.out
      BY PairNames
    <3> QED
      BY <1>4, <3>1
  <2> QED
    BY <1>2, <1>5, <2>1, <2>2
<1>7. BuildingInv'
  BY <1>1, <1>2, <1>3, <1>6 DEF BuildingInv
<1> QED
  BY <1>1, <1>7 DEF CastInv, CastingInv, CursorInv

LEMMA StartStep ==
  ASSUME CastInv, RunPasses
  PROVE  CastInv'
<1>1. /\ step = 0 /\ step' = 1 /\ UNCHANGED graphVars /\ last' = 0 /\ cur' = 0
      /\ BuildingInv /\ BuildInv /\ GraphTypeOK /\ built = Len(program.ops)
  BY DEF RunPasses, NextPass, CastInv, BuildingInv, BuildInv, GraphBuilt
<1>2. /\ DOMAIN inlinks = 1..built /\ DOMAIN outlinks = 1..built /\ program \in Programs
      /\ built \in Nat \ {0}
  <2>1. built \in Nat /\ program \in Programs /\ DOMAIN inlinks = 1..built /\ DOMAIN outlinks = 1..built
    BY <1>1, OpFacts DEF GraphTypeOK
  <2>2. program.ops \in Seq(Operator) /\ program.ops # <<>>
    BY <2>1, ProgramsAssumption, DescAssumption
  <2> QED
    BY <1>1, <2>1, <2>2
<1>3. Stmts' = 1..built /\ Cardinality(Stmts') = built
  <2>1. Stmts' = 1..built
    BY <1>2 DEF RunPasses, Stmts
  <2> QED
    BY <1>2, <2>1, FS_Interval
<1>4. ASSUME NEW s \in 1..built
      PROVE  /\ DOMAIN stmt'[s] = Fields
             /\ stmt'[s].in = program.desc[s].in /\ stmt'[s].out = program.desc[s].out
  BY <1>2 DEF RunPasses, Fields
<1>5. ASSUME NEW s \in 1..built
      PROVE  /\ ToSet(stmt'[s].in) = program.ops[s].in /\ ToSet(stmt'[s].out) = program.ops[s].out
             /\ program.ops[s].in \subseteq Name /\ program.ops[s].out \subseteq Name
  BY <1>1, <1>2, <1>4, DescFacts
<1>6. DOMAIN arg' = UNION {Touches(s) : s \in 1..built}
  BY <1>2 DEF RunPasses
<1>7. IsFiniteSet(DOMAIN arg')
  <2> DEFINE f == [s \in 1..built |-> Touches(s)]
  <2>1. \A s \in 1..built : IsFiniteSet(Touches(s))
    <3> SUFFICES ASSUME NEW s \in 1..built PROVE IsFiniteSet(inlinks[s] \cup outlinks[s])
      BY DEF Touches
    <3>1. IsFiniteSet(inlinks[s]) /\ IsFiniteSet(outlinks[s])
      BY <1>1 DEF BuildingInv
    <3> QED
      BY <3>1, FS_Union
  <2>2. IsFiniteSet({f[s] : s \in DOMAIN f})
    <3>1. DOMAIN f = 1..built /\ IsFiniteSet(1..built)
      BY <1>2, FS_Interval
    <3> HIDE DEF f
    <3> QED
      BY <3>1, ImageFinite
  <2>3. \A T \in {f[s] : s \in DOMAIN f} : IsFiniteSet(T)
    BY <2>1
  <2>4. IsFiniteSet(UNION {f[s] : s \in DOMAIN f})
    BY <2>2, <2>3, FS_UNION
  <2>5. UNION {f[s] : s \in DOMAIN f} = DOMAIN arg'
    BY <1>6
  <2> QED
    BY <2>4, <2>5
<1>8. LinksFit'
  BY <1>1, <1>3, <1>4, <1>5, <1>6 DEF LinksFit, BuildingInv, Touches, graphVars
<1>9. NumbersUsed'
  BY <1>1, <1>5, <1>6 DEF NumbersUsed, BuildingInv, Touches, NamesOf
<1>10. CastsNumbered'
  BY <1>1, <1>3, <1>5 DEF CastsNumbered, graphVars
<1>11. CastingInv'
  BY <1>1, <1>2, <1>3, <1>7, <1>8, <1>9, <1>10 DEF CastingInv, graphVars
<1>12. BuildingInv' /\ CursorInv'
  BY <1>1 DEF BuildingInv, CursorInv
<1> QED
  BY <1>11, <1>12 DEF CastInv

\* What changes neither links nor names changes nothing the invariant is about.
LEMMA SameNames ==
  ASSUME CastInv, step > 0, UNCHANGED graphVars, DOMAIN stmt' = Stmts, DOMAIN arg' = DOMAIN arg,
         \A s \in Stmts : /\ DOMAIN stmt'[s] = Fields
                          /\ stmt'[s].in = stmt[s].in /\ stmt'[s].out = stmt[s].out,
         step' > 0
  PROVE  BuildingInv' /\ CastingInv'
<1>1. Stmts' = Stmts /\ Nodes' = Nodes /\ built' = built
      /\ inlinks' = inlinks /\ outlinks' = outlinks /\ step' # 0
  BY DEF Stmts, Nodes, graphVars, CastInv, CursorInv
<1>2. CastingInv /\ built \in Nat /\ 1..built \subseteq Stmts
  BY DEF CastInv, CastingInv
<1>3. LinksFit'
  BY <1>1, <1>2 DEF CastingInv, LinksFit, Touches
<1>4. NumbersUsed'
  BY <1>1, <1>2 DEF CastingInv, NumbersUsed
<1>5. CastsNumbered'
  <2>1. \A s \in 1..built : s \in Stmts /\ stmt'[s].out = stmt[s].out
    BY <1>2
  <2>2. \A s \in Stmts \ (1..built) : stmt'[s].out = stmt[s].out
    OBVIOUS
  <2>3. \A s \in 1..built : ToSet(stmt'[s].out) \subseteq Name
    BY <1>2, <2>1 DEF CastingInv, CastsNumbered
  <2>4. \A s \in Stmts \ (1..built) :
          /\ stmt'[s].out = <<stmt'[s].out[1]>> /\ stmt'[s].out[1] \notin Name
          /\ stmt'[s].out[1][2] \in 0..(Nodes - 1)
    BY <1>2, <2>2 DEF CastingInv, CastsNumbered
  <2>5. \A s, t \in Stmts \ (1..built) :
          s < t => stmt'[s].out[1][2] < stmt'[t].out[1][2]
    BY <1>2, <2>2 DEF CastingInv, CastsNumbered
  <2> QED
    BY <1>1, <2>3, <2>4, <2>5 DEF CastsNumbered
<1> QED
  BY <1>1, <1>2, <1>3, <1>4, <1>5 DEF BuildingInv, CastingInv

\* A pass that changes kernels or types.
LEMMA TypeStep ==
  ASSUME CastInv, StaticKernelPick \/ VariablePlaceInference \/ IoCopyKernelPick
  PROVE  CastInv'
<1>1. /\ UNCHANGED graphVars /\ UNCHANGED <<cur, last, todo>>
      /\ step \in 1..10 /\ step' \in {step, step + 1}
  BY PassFacts DEF StaticKernelPick, VariablePlaceInference, IoCopyKernelPick, Running, NextPass
<1>2. CastingInv /\ CursorInv /\ \A s \in Stmts : DOMAIN stmt[s] = Fields
  BY <1>1 DEF CastInv, CastingInv, LinksFit
<1>3. DOMAIN stmt' = Stmts /\ \A s \in Stmts :
        DOMAIN stmt'[s] = Fields /\ stmt'[s].in = stmt[s].in /\ stmt'[s].out = stmt[s].out
  <2>1. CASE UNCHANGED stmt
    BY <1>2, <2>1 DEF Stmts
  <2>2. CASE stmt' # stmt
    <3>1. PICK picked : stmt' = [s \in Stmts |-> [stmt[s] EXCEPT !.kernel = picked[s]]]
      BY <2>2 DEF StaticKernelPick, VariablePlaceInference, IoCopyKernelPick
    <3>2. DOMAIN stmt' = Stmts
      BY <3>1
    <3>3. ASSUME NEW s \in Stmts
          PROVE  DOMAIN stmt'[s] = Fields /\ stmt'[s].in = stmt[s].in /\ stmt'[s].out = stmt[s].out
      <4>1. stmt'[s] = [stmt[s] EXCEPT !.kernel = picked[s]]
        BY <3>1
      <4>2. "in" \in DOMAIN stmt[s] /\ "out" \in DOMAIN stmt[s]
        BY <1>2 DEF Fields
      <4> QED
        BY <1>2, <4>1, <4>2
    <3> QED
      BY <3>2, <3>3
  <2> QED
    BY <2>1, <2>2
<1>4. DOMAIN arg' = DOMAIN arg
  BY DEF StaticKernelPick, VariablePlaceInference, IoCopyKernelPick, Inferred
<1>5. BuildingInv' /\ CastingInv'
  BY <1>1, <1>3, <1>4, SameNames
<1>6. CursorInv'
  BY <1>1, <1>2, <1>3 DEF CursorInv, Stmts, graphVars
<1> QED
  BY <1>5, <1>6 DEF CastInv

\* A cast pass goes from input to input and from statement to statement.
LEMMA LoopStep ==
  ASSUME CastInv, \/ BeginCast \/ NextStmt \/ EndCast
                  \/ Running /\ last > 0 /\ \E n \in todo : KeepInput(n) \/ NoCast(n)
  PROVE  CastInv'
<1>1. /\ UNCHANGED graphVars /\ UNCHANGED <<stmt, arg>>
      /\ step \in 1..10 /\ step' \in {step, step + 1}
  BY PassFacts DEF BeginCast, NextStmt, EndCast, KeepInput, NoCast, Running, NextPass
<1>2. CastingInv /\ CursorInv /\ \A s \in Stmts : DOMAIN stmt[s] = Fields
  BY <1>1 DEF CastInv, CastingInv, LinksFit
<1>3. BuildingInv' /\ CastingInv'
  BY <1>1, <1>2, SameNames DEF Stmts
<1>4. /\ Stmts' = Stmts /\ inlinks' = inlinks /\ Cardinality(Stmts) \in Nat \ {0}
      /\ Stmts = 1..Cardinality(Stmts)
  BY <1>1, <1>2 DEF Stmts, graphVars, CastingInv
<1>5. CursorInv'
  BY <1>1, <1>2, <1>4 DEF BeginCast, NextStmt, EndCast, KeepInput, NoCast, NextPass, CursorInv
<1> QED
  BY <1>3, <1>5 DEF CastInv

\* What AddCast makes: a statement, and an argument with a name no node has.
LEMMA CastFacts ==
  ASSUME PlainNames, CastInv, Running, last > 0, NEW n \in todo, NEW k, AddCast(n, k)
  PROVE  LET N == Cardinality(Stmts)
             cast == N + 1
             name == CastName(n)
             out == <<name, 0>>
         IN  /\ N \in Nat \ {0} /\ built \in 1..N /\ Stmts = 1..N /\ IsFiniteSet(DOMAIN arg)
             /\ Nodes \in Nat /\ name = <<n[1], Nodes>> /\ name \notin Name
             /\ cur \in 1..N /\ n \in inlinks[cur] /\ n \in DOMAIN arg
             /\ \A m \in DOMAIN arg : m[1] # name
             /\ DOMAIN arg' = DOMAIN arg \cup {out} /\ IsFiniteSet(DOMAIN arg')
             /\ \A m \in DOMAIN arg : arg'[m] = arg[m]
             /\ arg'[out] = [type |-> [arg[n].type EXCEPT ![Pass] = Wanted(n)[Pass]],
                             is_persist |-> Persist(n)]
             /\ DOMAIN inlinks' = 1..cast /\ DOMAIN outlinks' = 1..cast
             /\ inlinks'[cur] = (inlinks[cur] \ {n}) \cup {out} /\ inlinks'[cast] = {n}
             /\ \A s \in (1..N) \ {cur} : inlinks'[s] = inlinks[s]
             /\ outlinks'[cast] = {out} /\ \A s \in 1..N : outlinks'[s] = outlinks[s]
             /\ Stmts' = 1..cast /\ Cardinality(Stmts') = cast /\ Nodes' = Nodes + 2
             /\ stmt'[cast] = [op |-> CastOp[Pass], once |-> Persist(n), in |-> <<n[1]>>,
                               out |-> <<name>>, kernel |-> Handed(k)]
             /\ stmt'[cur] = [stmt[cur] EXCEPT !.in = UpdateInputTo(stmt[cur].in, n[1], name)]
             /\ \A s \in (1..N) \ {cur} : stmt'[s] = stmt[s]
<1> DEFINE N == Cardinality(Stmts)
           cast == N + 1
           name == CastName(n)
           out == <<name, 0>>
<1>1. step \in 1..10 /\ CastingInv /\ CursorInv
  BY PassFacts DEF Running, CastInv
<1>2. /\ N \in Nat \ {0} /\ built \in 1..N /\ Stmts = 1..N /\ DOMAIN inlinks = 1..N
      /\ DOMAIN outlinks = 1..N /\ DOMAIN stmt = 1..N /\ cast \in Nat /\ cast \notin 1..N
      /\ Nodes \in Nat /\ Cardinality(DOMAIN arg) \in Nat /\ IsFiniteSet(DOMAIN arg)
  BY <1>1, NumberFacts DEF CastingInv, Stmts
<1>3. cur \in 1..N /\ n \in inlinks[cur] /\ n \in DOMAIN arg
  <2>1. cur \in 1..N /\ n \in inlinks[cur]
    BY <1>1, <1>2 DEF CursorInv
  <2> QED
    BY <1>1, <1>2, <2>1 DEF CastingInv, LinksFit, Touches
<1>4. name = <<n[1], Nodes>> /\ name[2] = Nodes /\ name \notin Name /\ out[1] = name
  BY DEF CastName, Nodes, PlainNames
<1>5. ASSUME NEW m \in DOMAIN arg PROVE m[1] # name
  <2>1. m[1] \in Name \/ m[1][2] \in 0..(Nodes - 1)
    BY <1>1 DEF CastingInv, NumbersUsed
  <2>2. Nodes \notin 0..(Nodes - 1)
    BY <1>2
  <2> QED
    BY <1>4, <2>1, <2>2
<1>6. /\ DOMAIN arg' = DOMAIN arg \cup {out}
      /\ \A m \in DOMAIN arg : arg'[m] = arg[m]
      /\ arg'[out] = [type |-> [arg[n].type EXCEPT ![Pass] = Wanted(n)[Pass]],
                      is_persist |-> Persist(n)]
  <2>1. out \notin DOMAIN arg
    BY <1>4, <1>5
  <2> QED
    BY <2>1 DEF AddCast, Assign
<1>7. out \notin DOMAIN arg /\ Cardinality(DOMAIN arg') = Cardinality(DOMAIN arg) + 1 /\ IsFiniteSet(DOMAIN arg')
  <2>1. out \notin DOMAIN arg
    BY <1>4, <1>5
  <2> QED
    BY <1>2, <1>6, <2>1, FS_AddElement
<1>8. /\ DOMAIN inlinks' = 1..cast /\ DOMAIN outlinks' = 1..cast
      /\ inlinks'[cur] = (inlinks[cur] \ {n}) \cup {out} /\ inlinks'[cast] = {n}
      /\ \A s \in (1..N) \ {cur} : inlinks'[s] = inlinks[s]
      /\ outlinks'[cast] = {out} /\ \A s \in 1..N : outlinks'[s] = outlinks[s]
  BY <1>2, <1>3 DEF AddCast, Assign, CastFrom
<1>9. /\ Stmts' = 1..cast /\ Cardinality(Stmts') = cast /\ Nodes' = Nodes + 2
  <2>1. Stmts' = 1..cast
    BY <1>2 DEF AddCast, Assign, Stmts
  <2>2. Cardinality(Stmts') = cast
    BY <1>2, <2>1, FS_Interval
  <2> QED
    BY <1>2, <1>7, <2>1, <2>2 DEF Nodes
<1>10. /\ stmt'[cast] = [op |-> CastOp[Pass], once |-> Persist(n), in |-> <<n[1]>>,
                         out |-> <<name>>, kernel |-> Handed(k)]
       /\ stmt'[cur] = [stmt[cur] EXCEPT !.in = UpdateInputTo(stmt[cur].in, n[1], name)]
       /\ \A s \in (1..N) \ {cur} : stmt'[s] = stmt[s]
  BY <1>2, <1>3 DEF AddCast, Assign
<1> QED
  BY <1>2, <1>3, <1>4, <1>5, <1>6, <1>7, <1>8, <1>9, <1>10

\* A cast has a name no node has, and a number above those of earlier casts.
LEMMA CastStep ==
  ASSUME PlainNames, CastInv, Running, last > 0, NEW n \in todo, CastInput(n)
  PROVE  CastInv'
<1> DEFINE N == Cardinality(Stmts)
           cast == N + 1
           name == CastName(n)
           out == <<name, 0>>
<1>1. /\ UNCHANGED <<program, built, latest, step, failed, linked, cur, last>>
      /\ todo' = todo \ {n} /\ \E k : AddCast(n, k)
      /\ step \in 1..10 /\ CastingInv /\ CursorInv
  BY PassFacts DEF CastInput, Running, CastInv
<1>2. PICK k : AddCast(n, k)
  BY <1>1
<1>3. /\ N \in Nat \ {0} /\ built \in 1..N /\ Stmts = 1..N /\ cast \in Nat /\ cast \notin 1..N
      /\ cur \in 1..N /\ n \in inlinks[cur] /\ n \in DOMAIN arg /\ Nodes \in Nat
  <2>1. /\ N \in Nat \ {0} /\ built \in 1..N /\ Stmts = 1..N
        /\ cur \in 1..N /\ n \in inlinks[cur] /\ n \in DOMAIN arg /\ Nodes \in Nat
    BY <1>2, CastFacts
  <2> QED
    BY <2>1
<1>4. name = <<n[1], Nodes>> /\ name[2] = Nodes /\ name \notin Name /\ out[1] = name
      /\ \A m \in DOMAIN arg : m[1] # name
  <2>1. name = <<n[1], Nodes>> /\ name \notin Name /\ \A m \in DOMAIN arg : m[1] # name
    BY <1>2, CastFacts
  <2> QED
    BY <2>1
<1>5. /\ DOMAIN arg' = DOMAIN arg \cup {out} /\ IsFiniteSet(DOMAIN arg')
      /\ Stmts' = 1..cast /\ Cardinality(Stmts') = cast /\ Nodes' = Nodes + 2
  BY <1>2, CastFacts
<1>6. /\ DOMAIN inlinks' = 1..cast /\ DOMAIN outlinks' = 1..cast
      /\ inlinks'[cur] = (inlinks[cur] \ {n}) \cup {out} /\ inlinks'[cast] = {n}
      /\ \A s \in (1..N) \ {cur} : inlinks'[s] = inlinks[s]
      /\ outlinks'[cast] = {out} /\ \A s \in 1..N : outlinks'[s] = outlinks[s]
  BY <1>2, CastFacts
<1>7. /\ stmt'[cast] = [op |-> CastOp[Pass], once |-> Persist(n), in |-> <<n[1]>>,
                         out |-> <<name>>, kernel |-> Handed(k)]
      /\ stmt'[cur] = [stmt[cur] EXCEPT !.in = UpdateInputTo(stmt[cur].in, n[1], name)]
      /\ \A s \in (1..N) \ {cur} : stmt'[s] = stmt[s]
  BY <1>2, CastFacts
<1> HIDE DEF name, out, N, cast
<1>8. ASSUME NEW s \in 1..cast
       PROVE  /\ DOMAIN stmt'[s] = Fields
              /\ NamesOf(inlinks'[s]) = ToSet(stmt'[s].in) /\ NamesApart(inlinks'[s])
              /\ NamesOf(outlinks'[s]) = ToSet(stmt'[s].out)
              /\ inlinks'[s] \cup outlinks'[s] \subseteq DOMAIN arg'
              /\ s \in 1..N => stmt'[s].out = stmt[s].out
  <2>1. CASE s \in (1..N) \ {cur}
    BY <1>1, <1>3, <1>5, <1>6, <1>7, <2>1 DEF CastingInv, LinksFit, Touches
  <2>2. CASE s = cast
    <3>1. stmt'[s].in = <<n[1]>> /\ stmt'[s].out = <<name>> /\ DOMAIN stmt'[s] = Fields
      BY <1>7, <2>2 DEF Fields
    <3>2. inlinks'[s] = {n} /\ outlinks'[s] = {out}
      BY <1>6, <2>2
    <3>3. NamesOf({n}) = {n[1]} /\ NamesOf({out}) = {name} /\ NamesApart({n})
      BY <1>4 DEF NamesOf, NamesApart
    <3>4. ToSet(<<n[1]>>) = {n[1]} /\ ToSet(<<name>>) = {name}
      BY DEF ToSet
    <3> QED
      BY <1>3, <1>5, <2>2, <3>1, <3>2, <3>3, <3>4
  <2>3. CASE s = cur
    <3> DEFINE from == stmt[cur].in
               to == UpdateInputTo(from, n[1], name)
    <3>1. /\ DOMAIN stmt[cur] = Fields /\ NamesOf(inlinks[cur]) = ToSet(from)
          /\ NamesApart(inlinks[cur]) /\ NamesOf(outlinks[cur]) = ToSet(stmt[cur].out)
          /\ inlinks[cur] \cup outlinks[cur] \subseteq DOMAIN arg
      BY <1>1, <1>3 DEF CastingInv, LinksFit, Touches
    <3>2. DOMAIN stmt'[s] = Fields /\ stmt'[s].in = to /\ stmt'[s].out = stmt[s].out
      BY <1>7, <2>3, <3>1 DEF Fields
    <3>3. ToSet(to) = (ToSet(from) \ {n[1]}) \cup {name}
      <4>1. n[1] \in ToSet(from)
        BY <1>3, <3>1 DEF NamesOf
      <4> QED
        BY <4>1 DEF UpdateInputTo, ToSet
    <3>4. NamesOf(inlinks'[s]) = (NamesOf(inlinks[cur]) \ {n[1]}) \cup {name}
      BY <1>3, <1>4, <1>6, <2>3, <3>1 DEF NamesOf, NamesApart
    <3>5. NamesApart(inlinks'[s])
      BY <1>4, <1>6, <2>3, <3>1 DEF NamesApart
    <3> QED
      BY <1>3, <1>5, <1>6, <2>3, <3>1, <3>2, <3>3, <3>4, <3>5
  <2> QED
    BY <1>3, <2>1, <2>2, <2>3 DEF cast
<1>9. LinksFit'
  BY <1>5, <1>8 DEF LinksFit, Touches
<1>10. NumbersUsed'
  BY <1>1, <1>3, <1>4, <1>5 DEF CastingInv, NumbersUsed
<1>11. CastsNumbered'
  <2>1. CastsNumbered /\ built' = built /\ stmt'[cast].out = <<name>>
    BY <1>1, <1>7 DEF CastingInv
  <2>2. \A s \in 1..N : stmt'[s].out = stmt[s].out
    BY <1>3, <1>8 DEF cast
  <2>3. \A s \in 1..cast : s \in 1..N \/ s = cast
    BY <1>3 DEF cast
  <2>4. \A s \in 1..built : ToSet(stmt'[s].out) \subseteq Name
    BY <1>3, <2>1, <2>2 DEF CastsNumbered
  <2>5. ASSUME NEW s \in (1..N) \ (1..built)
        PROVE  /\ stmt'[s].out = <<stmt'[s].out[1]>> /\ stmt'[s].out[1] \notin Name
               /\ stmt'[s].out[1][2] \in 0..(Nodes - 1)
    BY <1>3, <2>1, <2>2 DEF CastsNumbered
  <2>6. stmt'[cast].out = <<stmt'[cast].out[1]>> /\ stmt'[cast].out[1] = name
    BY <2>1
  <2>7. ASSUME NEW s \in (1..cast) \ (1..built), NEW t \in (1..cast) \ (1..built), s < t
        PROVE  stmt'[s].out[1][2] < stmt'[t].out[1][2]
    <3>1. s \in 1..N
      BY <1>3, <2>7 DEF cast
    <3>2. CASE t \in 1..N
      BY <1>3, <2>1, <2>2, <2>7, <3>1, <3>2 DEF CastsNumbered
    <3>3. CASE t = cast
      BY <1>3, <1>4, <2>5, <2>6, <2>7, <3>1, <3>3
    <3> QED
      BY <2>3, <3>2, <3>3
  <2>8. ASSUME NEW s \in (1..cast) \ (1..built)
        PROVE  /\ stmt'[s].out = <<stmt'[s].out[1]>> /\ stmt'[s].out[1] \notin Name
               /\ stmt'[s].out[1][2] \in 0..(Nodes' - 1)
    <3>1. CASE s \in 1..N
      <4>1. 0..(Nodes - 1) \subseteq 0..(Nodes' - 1)
        BY <1>3, <1>5
      <4> QED
        BY <2>5, <2>8, <3>1, <4>1
    <3>2. CASE s = cast
      <4>1. name[2] \in 0..(Nodes' - 1)
        BY <1>3, <1>4, <1>5
      <4> QED
        BY <1>4, <2>6, <3>2, <4>1
    <3> QED
      BY <2>3, <3>1, <3>2
  <2> QED
    BY <1>5, <2>1, <2>4, <2>7, <2>8 DEF CastsNumbered
<1>12. CastingInv'
  BY <1>1, <1>3, <1>5, <1>6, <1>9, <1>10, <1>11 DEF CastingInv, cast
<1>13. CursorInv'
  BY <1>1, <1>3, <1>5, <1>6 DEF CursorInv, cast
<1>14. BuildingInv'
  BY <1>1 DEF BuildingInv
<1> QED
  BY <1>12, <1>13, <1>14 DEF CastInv

LEMMA NextCastInv ==
  ASSUME PlainNames
  PROVE  CastInv /\ [CastNext]_vars => CastInv'
<1> SUFFICES ASSUME CastInv, [CastNext]_vars PROVE CastInv'
  OBVIOUS
<1>1. CASE CastNext
  BY <1>1, BuildStep, StartStep, TypeStep, LoopStep, CastStep DEF CastNext, ComplementInput
<1>2. CASE UNCHANGED vars
  <2>1. CASE step = 0
    <3>1. UNCHANGED graphVars /\ UNCHANGED castVars /\ BuildingInv /\ CursorInv
      BY <1>2 DEF vars, CastInv
    <3>2. BuildInv'
      BY <2>1, <3>1, NextBuildInv DEF BuildingInv
    <3> QED
      BY <2>1, <3>1, <3>2 DEF CastInv, BuildingInv, CastingInv, CursorInv, castVars, graphVars
  <2>2. CASE step > 0
    <3>1. UNCHANGED graphVars /\ UNCHANGED castVars /\ CastingInv /\ CursorInv
      BY <1>2, <2>2 DEF vars, CastInv
    <3>2. BuildingInv' /\ CastingInv'
      BY <2>2, <3>1, SameNames DEF castVars, CastingInv, LinksFit, Stmts
    <3>3. CursorInv'
      BY <3>1 DEF CursorInv, castVars, graphVars, Stmts
    <3> QED
      BY <3>2, <3>3 DEF CastInv
  <2> QED
    BY <2>1, <2>2 DEF CastInv, CursorInv
<1> QED
  BY <1>1, <1>2

(* Whatever a cast pass inserts, relinks and renames, the links of every   *)
(* statement are the names of its description.                             *)
THEOREM CastTypeCorrect ==
  ASSUME PlainNames
  PROVE  CastSpec => []CastTypeOK
<1>1. CastInv => CastTypeOK
  <2> SUFFICES ASSUME CastInv PROVE CastTypeOK
    OBVIOUS
  <2>1. step \in 0..(Len(Passes) + 1) /\ cur \in 0..last
    BY PassFacts DEF CastInv, CursorInv
  <2>2. ASSUME step > 0
        PROVE  /\ Stmts = 1..Cardinality(Stmts) /\ Stmts = DOMAIN inlinks /\ Stmts = DOMAIN outlinks
               /\ LinksFit
    BY <2>2 DEF CastInv, CastingInv
  <2> QED
    BY <2>1, <2>2 DEF LinksFit, NamesOf, CastTypeOK
<1>2. CastInv /\ [CastNext]_vars => CastInv'
  BY NextCastInv
<1> QED
  BY <1>1, <1>2, InitCastInv, PTL DEF CastSpec

(* No two statements write one cast variable, for every program whose own  *)
(* names do not look like those of casts.                                  *)
THEOREM CastNamesDiffer ==
  ASSUME PlainNames
  PROVE  CastSpec => []CastNamesUnique
<1>1. CastInv => CastNamesUnique
  <2> SUFFICES ASSUME CastInv, step > 0, NEW s \in Stmts, IsCast(s), NEW t \in Stmts \ {s}
               PROVE  ToSet(stmt[s].out) \cap ToSet(stmt[t].out) = {}
    BY DEF CastNamesUnique
  <2>1. CastsNumbered /\ s \in Nat /\ t \in Nat /\ built \in Nat
    BY DEF CastInv, CastingInv
  <2>2. s \notin 1..built /\ ToSet(stmt[s].out) = {stmt[s].out[1]} /\ stmt[s].out[1] \notin Name
    BY <2>1 DEF CastsNumbered, IsCast, ToSet
  <2>3. CASE t \in 1..built
    BY <2>1, <2>2, <2>3 DEF CastsNumbered
  <2>4. CASE t \notin 1..built
    <3>1. ToSet(stmt[t].out) = {stmt[t].out[1]}
      BY <2>1, <2>4 DEF CastsNumbered, ToSet
    <3>2. s < t \/ t < s
      BY <2>1
    <3>3. stmt[s].out[1][2] \in Int /\ stmt[t].out[1][2] \in Int
      BY <2>1, <2>2, <2>4 DEF CastsNumbered
    <3> QED
      BY <2>1, <2>2, <2>4, <3>1, <3>2, <3>3 DEF CastsNumbered
  <2> QED
    BY <2>3, <2>4
<1>2. CastInv /\ [CastNext]_vars => CastInv'
  BY NextCastInv
<1> QED
  BY <1>1, <1>2, InitCastInv, PTL DEF CastSpec

-----------------------------------------------------------------------------
(* The types.                                                              *)

PassNumber == [target |-> 3, precision |-> 7, layout |-> 9]

CastFields == {"target", "precision", "layout"}

\* Every slot of s that holds n declares a type that agrees in the field.
SlotFits(field, s, n) ==
  \A k \in DOMAIN stmt[s].in :
    stmt[s].in[k] = n[1] => Fits(field, arg[n].type, stmt[s].kernel.in[k])

StmtFits(field, s) == \A n \in inlinks[s] : SlotFits(field, s, n)

\* Until the first pass has put a cast in, the statements are the operators.
OperatorsInv ==
  step \in {1, 2} =>
    /\ program \in Programs /\ DOMAIN program.ops = Stmts /\ Stmts = 1..built
    /\ \A s \in Stmts :
         /\ stmt[s].op = program.ops[s].type
         /\ stmt[s].in = program.desc[s].in /\ stmt[s].out = program.desc[s].out
         /\ step = 2 => stmt[s].kernel \in program.desc[s].kernels
    /\ DOMAIN arg = UNION {Touches(s) : s \in Stmts}
    /\ \A n \in DOMAIN arg : arg[n].type = Untyped

\* Slots with one name declare one type, whatever was renamed.
KernelsInv ==
  step > 1 => \A s \in Stmts : stmt[s].op # "layout" =>
    /\ \A k \in DOMAIN stmt[s].in : IsType(stmt[s].kernel.in[k])
    /\ \A k, l \in DOMAIN stmt[s].in :
         stmt[s].in[k] = stmt[s].in[l] => stmt[s].kernel.in[k] = stmt[s].kernel.in[l]

TypesInv ==
  /\ step > 0 => program \in Programs
  /\ step > 0 => \A n \in DOMAIN arg : DOMAIN arg[n] = {"type", "is_persist"}
  /\ step > 2 => \A n \in DOMAIN arg : IsType(arg[n].type)
  /\ step \in 1..8 => \A s \in Stmts : stmt[s].op # "layout"
  /\ last > 0 => step \in {3, 7, 9}

\* What a pass is done with agrees in its field: everything when it is over,
\* the statements before the present one, the casts it made, and the inputs
\* of the present one that it has looked at.
FieldsInv ==
  /\ \A f \in CastFields : step > PassNumber[f] =>
       \A s \in Stmts : stmt[s].op # "layout" => StmtFits(f, s)
  /\ last > 0 => \A s \in Stmts : stmt[s].op # "layout" =>
       /\ s < cur \/ s > last => StmtFits(Pass, s)
       /\ s = cur => \A n \in inlinks[s] \ todo : SlotFits(Pass, s, n)

\* A cast reads one variable and writes one, which its kernel converts into
\* each other.
CastsInv ==
  step > 0 => \A s \in Stmts : IsCast(s) /\ stmt[s].op # "layout" =>
    /\ stmt[s].in = <<stmt[s].in[1]>>
    /\ Converts(s)

\* The slots are numbered, whatever was renamed.
SlotsInv == step > 0 => \A s \in Stmts : \E m \in Nat : DOMAIN stmt[s].in = 1..m

FitInv == SlotsInv /\ OperatorsInv /\ KernelsInv /\ TypesInv /\ FieldsInv /\ CastsInv

\* A set of positions that is not empty has a first one.
LEMMA FirstOf ==
  ASSUME NEW S, S \subseteq Nat, S # {}
  PROVE  \E k \in S : \A l \in S : k <= l
<1> DEFINE R == {p \in Nat \X Nat : p[1] < p[2]}
<1>1. IsWellFoundedOn(R, Nat)
  BY NatLessThanWellFounded, Zenon DEF OpToRel
<1>2. \A k, l \in Nat : <<l, k>> \notin R => k <= l
  OBVIOUS
<1> HIDE DEF R
<1>3. \E k \in S : \A l \in S : <<l, k>> \notin R
  BY <1>1, WFMin
<1> QED
  BY <1>2, <1>3

LEMMA SlotOfFacts ==
  ASSUME NEW names, NEW n \in Nat, DOMAIN names = 1..n, NEW x \in ToSet(names)
  PROVE  SlotOf(names, x) \in DOMAIN names /\ names[SlotOf(names, x)] = x
<1> DEFINE S == {k \in DOMAIN names : names[k] = x}
<1>1. S \subseteq Nat /\ S # {}
  BY DEF ToSet
<1>2. PICK k \in S : \A l \in S : k <= l
  BY <1>1, FirstOf
<1>3. k \in DOMAIN names /\ names[k] = x /\ \A l \in 1..(k - 1) : names[l] # x
  <2>1. k \in 1..n /\ names[k] = x
    BY <1>2
  <2>2. ASSUME NEW l \in 1..(k - 1) PROVE names[l] # x
    <3>1. l \in 1..n /\ ~(k <= l)
      BY <2>1, <2>2
    <3> QED
      BY <1>2, <3>1
  <2> QED
    BY <2>1, <2>2
<1> QED
  BY <1>3 DEF SlotOf

LEMMA StepFacts ==
  ASSUME Running
  PROVE  /\ step \in 1..10 /\ ~failed
         /\ Pass = "static_kernel_pick" <=> step = 1
         /\ Pass = "variable_place_inference" <=> step \in {2, 4, 6, 8, 10}
         /\ Pass = "io_copy_kernel_pick" <=> step = 5
         /\ Pass = "target" <=> step = 3
         /\ Pass = "precision" <=> step = 7
         /\ Pass = "layout" <=> step = 9
<1>1. step \in 1..10 /\ ~failed
  BY PassFacts DEF Running
<1> QED
  BY <1>1 DEF Pass, Passes

LEMMA FitsFacts ==
  ASSUME NEW f \in CastFields, NEW a, NEW b
  PROVE  /\ a[f] = b[f] => Fits(f, a, b)
         /\ TypeCompatible(a, b) => Fits(f, a, b) /\ Fits(f, b, a)
BY DEF Fits, CastFields, TypeCompatible, TargetCompatible, PrecisionCompatible, LayoutCompatible

LEMMA FitsAll ==
  ASSUME NEW a, NEW b, \A f \in CastFields : Fits(f, a, b)
  PROVE  TypeCompatible(a, b)
BY DEF Fits, CastFields, TypeCompatible

\* Only the field is compared.
LEMMA FitsField ==
  ASSUME NEW f \in CastFields, NEW a, NEW b, NEW c, NEW d, a[f] = b[f], c[f] = d[f], Fits(f, a, c)
  PROVE  Fits(f, b, d)
BY DEF Fits, CastFields, TargetCompatible, PrecisionCompatible, LayoutCompatible

\* What is assumed of the kernels of an operator, and of those of the library.
LEMMA KernelFacts ==
  ASSUME NEW p \in Programs, NEW s \in DOMAIN p.ops
  PROVE  /\ p.ops[s].type \notin {"io_copy", "calib", "layout"}
         /\ \A kernel \in p.desc[s].kernels :
              /\ \A k \in DOMAIN p.desc[s].in : IsType(kernel.in[k])
              /\ \A k \in DOMAIN p.desc[s].out : IsType(kernel.out[k])
              /\ \A k, l \in DOMAIN p.desc[s].in :
                   p.desc[s].in[k] = p.desc[s].in[l] => kernel.in[k] = kernel.in[l]
<1> HIDE DEF IsType
<1> QED
  BY KernelAssumption, Zenon

LEMMA FitInit == CastInit => FitInv
<1> SUFFICES ASSUME CastInit PROVE FitInv
  OBVIOUS
<1>1. step = 0 /\ last = 0
  BY DEF CastInit
<1>2. \A f \in CastFields : ~(step > PassNumber[f])
  BY <1>1 DEF CastFields, PassNumber
<1> QED
  BY <1>1, <1>2 DEF FitInv, SlotsInv, OperatorsInv, KernelsInv, TypesInv, FieldsInv, CastsInv

LEMMA FitBuild ==
  ASSUME CastInv, FitInv, BuildGraph
  PROVE  FitInv'
<1>1. step' = 0 /\ last' = 0
  BY DEF BuildGraph, castVars, CastInv, BuildingInv
<1>2. \A f \in CastFields : ~(step' > PassNumber[f])
  BY <1>1 DEF CastFields, PassNumber
<1> QED
  BY <1>1, <1>2 DEF FitInv, SlotsInv, OperatorsInv, KernelsInv, TypesInv, FieldsInv, CastsInv

LEMMA FitStart ==
  ASSUME CastInv, FitInv, RunPasses
  PROVE  FitInv'
<1>1. /\ step = 0 /\ step' = 1 /\ UNCHANGED graphVars /\ last' = 0
      /\ GraphTypeOK /\ built = Len(program.ops)
  BY DEF RunPasses, NextPass, CastInv, BuildingInv, BuildInv, GraphBuilt
<1>2. /\ program \in Programs /\ DOMAIN inlinks = 1..built /\ DOMAIN program.ops = 1..built
  <2>1. program \in Programs /\ DOMAIN inlinks = 1..built
    BY <1>1 DEF GraphTypeOK
  <2>2. program.ops \in Seq(Operator)
    BY <2>1, ProgramsAssumption
  <2> QED
    BY <1>1, <2>1, <2>2
<1>3. Stmts' = 1..built /\ \A s \in 1..built :
        stmt'[s].op = program.ops[s].type
        /\ stmt'[s].in = program.desc[s].in /\ stmt'[s].out = program.desc[s].out
  BY <1>2 DEF RunPasses, Stmts
<1>4. /\ DOMAIN arg' = UNION {Touches(s) : s \in 1..built}
      /\ \A n \in DOMAIN arg' : arg'[n].type = Untyped /\ DOMAIN arg'[n] = {"type", "is_persist"}
  BY <1>2 DEF RunPasses
<1>5. OperatorsInv'
  BY <1>1, <1>2, <1>3, <1>4 DEF OperatorsInv, graphVars, Touches
<1>6. TypesInv'
  <2>1. ASSUME NEW s \in 1..built PROVE stmt'[s].op # "layout"
    <3>1. program.ops[s].type \notin {"io_copy", "calib", "layout"}
      BY <1>2, KernelFacts
    <3> QED
      BY <1>3, <3>1
  <2> QED
    BY <1>1, <1>2, <1>3, <1>4, <2>1 DEF TypesInv, graphVars
<1>7. FieldsInv'
  <2>1. \A f \in CastFields : ~(step' > PassNumber[f])
    BY <1>1 DEF CastFields, PassNumber
  <2> QED
    BY <1>1, <2>1 DEF FieldsInv
<1>8. CastsInv'
  <2>1. \A s \in Stmts' : ~IsCast(s)'
    BY <1>1, <1>3 DEF IsCast, graphVars, GraphTypeOK
  <2> QED
    BY <2>1 DEF CastsInv
<1>9. KernelsInv'
  BY <1>1 DEF KernelsInv
<1>10. SlotsInv'
  <2> SUFFICES ASSUME NEW s \in 1..built PROVE \E m \in Nat : DOMAIN stmt'[s].in = 1..m
    BY <1>3 DEF SlotsInv
  <2>1. program.desc[s].in \in Seq(Name)
    BY <1>2, DescAssumption
  <2>2. Len(program.desc[s].in) \in Nat /\ DOMAIN program.desc[s].in = 1..Len(program.desc[s].in)
    BY <2>1
  <2> QED
    BY <1>3, <2>2
<1> QED
  BY <1>5, <1>6, <1>7, <1>8, <1>9, <1>10 DEF FitInv

\* Before the first inference no field is done with.
LEMMA NothingFits ==
  ASSUME step' \in 1..3, last' = 0
  PROVE  FieldsInv'
<1>1. \A f \in CastFields : ~(step' > PassNumber[f])
  BY DEF CastFields, PassNumber
<1> QED
  BY <1>1 DEF FieldsInv

LEMMA FitPick ==
  ASSUME CastInv, FitInv, StaticKernelPick
  PROVE  FitInv'
<1>1. /\ step = 1 /\ UNCHANGED graphVars /\ UNCHANGED <<arg, linked, cur, last, todo>>
      /\ last = 0 /\ Running
  <2>1. Running /\ step = 1
    BY StepFacts DEF StaticKernelPick
  <2>2. last = 0
    BY <2>1 DEF FitInv, TypesInv, CastInv, CursorInv
  <2> QED
    BY <2>1, <2>2 DEF StaticKernelPick
<1>2. /\ OperatorsInv /\ TypesInv /\ CastsInv /\ CastInv
      /\ Stmts = 1..built /\ program \in Programs /\ DOMAIN program.ops = Stmts
      /\ program' = program /\ built' = built /\ inlinks' = inlinks /\ outlinks' = outlinks
      /\ \A s \in Stmts : DOMAIN stmt[s] = Fields
  BY <1>1 DEF FitInv, OperatorsInv, graphVars, CastInv, CastingInv, LinksFit
<1>3. \A s \in Stmts : ~IsCast(s)
  <2>1. built \in Nat
    BY <1>1 DEF CastInv, CastingInv
  <2> SUFFICES ASSUME NEW s \in 1..built PROVE ~(s > built)
    BY <1>2 DEF IsCast
  <2> QED
    BY <2>1
<1>4. CASE UNCHANGED stmt /\ step' = step
  <2>1. Stmts' = Stmts
    BY <1>4 DEF Stmts
  <2>2. OperatorsInv' /\ TypesInv'
    BY <1>1, <1>2, <1>4, <2>1 DEF OperatorsInv, TypesInv, Touches
  <2>3. CastsInv' /\ KernelsInv'
    BY <1>1, <1>2, <1>3, <1>4, <2>1 DEF CastsInv, KernelsInv, IsCast
  <2>4. SlotsInv'
    BY <1>1, <1>4, <2>1 DEF FitInv, SlotsInv
  <2> QED
    BY <1>1, <1>4, <2>2, <2>3, <2>4, NothingFits DEF FitInv
<1>5. CASE step' = 2 /\ \E picked : /\ \A s \in Stmts : picked[s] \in Pickable(s)
                                    /\ stmt' = [s \in Stmts |-> [stmt[s] EXCEPT !.kernel = picked[s]]]
  <2>1. PICK picked : /\ \A s \in Stmts : picked[s] \in Pickable(s)
                      /\ stmt' = [s \in Stmts |-> [stmt[s] EXCEPT !.kernel = picked[s]]]
    BY <1>5
  <2>2. Stmts' = Stmts /\ \A s \in Stmts :
          /\ stmt'[s].op = stmt[s].op /\ stmt'[s].in = stmt[s].in /\ stmt'[s].out = stmt[s].out
          /\ stmt'[s].kernel = picked[s]
    BY <1>2, <2>1 DEF Stmts, Fields
  <2>3. \A s \in Stmts : stmt'[s].kernel \in program.desc[s].kernels
    BY <2>1, <2>2 DEF Pickable
  <2>4. OperatorsInv'
    <3>1. /\ program' \in Programs /\ DOMAIN program'.ops = Stmts' /\ Stmts' = 1..built'
          /\ DOMAIN arg' = UNION {Touches(s)' : s \in Stmts'}
          /\ \A n \in DOMAIN arg' : arg'[n].type = Untyped
      BY <1>1, <1>2, <2>2 DEF OperatorsInv, Touches
    <3>2. ASSUME NEW s \in Stmts
          PROVE  /\ stmt'[s].op = program'.ops[s].type /\ stmt'[s].kernel \in program'.desc[s].kernels
                 /\ stmt'[s].in = program'.desc[s].in /\ stmt'[s].out = program'.desc[s].out
      BY <1>1, <1>2, <2>2, <2>3 DEF OperatorsInv
    <3> QED
      BY <2>2, <3>1, <3>2 DEF OperatorsInv
  <2>5. TypesInv'
    BY <1>1, <1>2, <1>5, <2>2 DEF TypesInv
  <2>6. KernelsInv'
    <3> SUFFICES ASSUME NEW s \in Stmts
                 PROVE  /\ \A k \in DOMAIN stmt'[s].in : IsType(stmt'[s].kernel.in[k])
                        /\ \A k, l \in DOMAIN stmt'[s].in : stmt'[s].in[k] = stmt'[s].in[l] =>
                             stmt'[s].kernel.in[k] = stmt'[s].kernel.in[l]
      BY <2>2 DEF KernelsInv
    <3>1. stmt'[s].in = program.desc[s].in /\ stmt'[s].kernel \in program.desc[s].kernels
          /\ s \in DOMAIN program.ops
      BY <1>1, <1>2, <2>2, <2>3 DEF OperatorsInv
    <3>2. \A kernel \in program.desc[s].kernels :
            /\ \A k \in DOMAIN program.desc[s].in : IsType(kernel.in[k])
            /\ \A k, l \in DOMAIN program.desc[s].in :
                 program.desc[s].in[k] = program.desc[s].in[l] => kernel.in[k] = kernel.in[l]
      <4>1. program \in Programs /\ s \in DOMAIN program.ops
        BY <1>2, <3>1
      <4> QED
        BY <4>1, KernelFacts
    <3> QED
      BY <3>1, <3>2
  <2>7. CastsInv'
    <3>1. \A s \in Stmts' : ~IsCast(s)'
      BY <1>2, <1>3, <2>2 DEF IsCast
    <3> QED
      BY <3>1 DEF CastsInv
  <2>8. SlotsInv'
    BY <1>1, <2>2 DEF FitInv, SlotsInv
  <2> QED
    BY <1>1, <1>5, <2>4, <2>5, <2>6, <2>7, <2>8, NothingFits DEF FitInv
<1> QED
  BY <1>1, <1>4, <1>5 DEF StaticKernelPick, NextPass

\* Every statement has its place in the order, so every argument has a first
\* statement that names it, and what its kernel declares is a type.
LEMMA DeclaredTyped ==
  ASSUME CastInv, OperatorsInv, step = 2, NEW order \in TopologicalOrders, NEW n \in DOMAIN arg
  PROVE  IsType(Declared(FirstAt(order, n), n))
<1> DEFINE N == Cardinality(Stmts)
           at == {k \in DOMAIN order : n \in Touches(order[k]) /\ stmt[order[k]].op # "io_copy"}
<1>1. /\ N \in Nat /\ Stmts = 1..N /\ LinksFit /\ program \in Programs /\ DOMAIN program.ops = Stmts
  BY DEF CastInv, CastingInv, OperatorsInv
<1>2. DOMAIN order = 1..N /\ \A s \in Stmts : \E k \in 1..N : order[k] = s
  <2>1. order \in [1..N -> Stmts] /\ \A i, j \in 1..N : i # j => order[i] # order[j]
    BY DEF TopologicalOrders, SetToSeqs
  <2>2. order \in Injection(1..N, Stmts)
    BY <2>1 DEF Injection, IsInjective
  <2>3. IsFiniteSet(Stmts) /\ Cardinality(1..N) = N
    BY <1>1, FS_Interval
  <2>4. order \in Surjection(1..N, Stmts)
    BY <2>2, <2>3, FS_Injection
  <2> QED
    BY <2>1, <2>4 DEF Surjection
<1>3. at \subseteq Nat /\ at # {}
  <2>1. PICK s \in Stmts : n \in Touches(s)
    BY DEF OperatorsInv
  <2>2. stmt[s].op # "io_copy"
    <3>1. program.ops[s].type \notin {"io_copy", "calib", "layout"}
      BY <1>1, KernelFacts
    <3>2. stmt[s].op = program.ops[s].type
      BY DEF OperatorsInv
    <3> QED
      BY <3>1, <3>2
  <2>3. PICK k \in 1..N : order[k] = s
    BY <1>2
  <2> QED
    BY <1>1, <1>2, <2>1, <2>2, <2>3
<1>4. PICK s \in Stmts : s = FirstAt(order, n) /\ n \in Touches(s)
  <2>1. \E k \in at : \A l \in at : k <= l
    BY <1>3, FirstOf
  <2> DEFINE first == CHOOSE k \in at : \A l \in at : k <= l
  <2>2. first \in at
    BY <2>1
  <2>3. FirstAt(order, n) = order[first]
    BY DEF FirstAt
  <2>4. order[first] \in Stmts
    BY <2>2 DEF TopologicalOrders, SetToSeqs
  <2> QED
    BY <2>2, <2>3, <2>4
<1>5. /\ stmt[s].in = program.desc[s].in /\ stmt[s].out = program.desc[s].out
      /\ stmt[s].kernel \in program.desc[s].kernels /\ s \in DOMAIN program.ops
  BY <1>1 DEF OperatorsInv
<1>6. program.desc[s].in \in Seq(Name) /\ program.desc[s].out \in Seq(Name)
  BY <1>1, <1>5, DescAssumption
<1>7. \A kernel \in program.desc[s].kernels :
        /\ \A k \in DOMAIN program.desc[s].in : IsType(kernel.in[k])
        /\ \A k \in DOMAIN program.desc[s].out : IsType(kernel.out[k])
  BY <1>1, <1>5, KernelFacts
<1> HIDE DEF N, at
<1> DEFINE decl == IF n \in inlinks[s] THEN stmt[s].kernel.in[SlotOf(stmt[s].in, n[1])]
                   ELSE stmt[s].kernel.out[SlotOf(stmt[s].out, n[1])]
<1>8. IsType(decl)
  <2>1. CASE n \in inlinks[s]
    <3>1. n[1] \in ToSet(stmt[s].in)
      BY <1>1, <2>1 DEF LinksFit, NamesOf
    <3>2. SlotOf(stmt[s].in, n[1]) \in DOMAIN stmt[s].in
      <4>1. Len(stmt[s].in) \in Nat /\ DOMAIN stmt[s].in = 1..Len(stmt[s].in)
        BY <1>5, <1>6
      <4> QED
        BY <3>1, <4>1, SlotOfFacts
    <3> QED
      BY <1>5, <1>7, <2>1, <3>2
  <2>2. CASE n \notin inlinks[s]
    <3>1. n[1] \in ToSet(stmt[s].out)
      BY <1>1, <1>4, <2>2 DEF LinksFit, NamesOf, Touches
    <3>2. SlotOf(stmt[s].out, n[1]) \in DOMAIN stmt[s].out
      <4>1. Len(stmt[s].out) \in Nat /\ DOMAIN stmt[s].out = 1..Len(stmt[s].out)
        BY <1>5, <1>6
      <4> QED
        BY <3>1, <4>1, SlotOfFacts
    <3> QED
      BY <1>5, <1>7, <2>2, <3>2
  <2> QED
    BY <2>1, <2>2
<1>9. Declared(s, n) = IF IsWeight(n) THEN WeightType(decl) ELSE decl
  BY DEF Declared
<1>10. IsType(WeightType(decl))
  BY DEF IsType, WeightType, CastOp
<1> QED
  BY <1>4, <1>8, <1>9, <1>10

\* A step that leaves the graph, the statements and the arguments as they are.
LEMMA FitSame ==
  ASSUME CastInv, FitInv, UNCHANGED graphVars, UNCHANGED <<stmt, arg>>, step > 0,
         step' = step \/ (step > 2 /\ step' = step + 1)
  PROVE  SlotsInv' /\ OperatorsInv' /\ KernelsInv' /\ CastsInv'
<1>1. step \in 1..11 /\ step' \in 1..12
  BY DEF CastInv, CursorInv
<1>2. Stmts' = Stmts /\ \A s \in Stmts : Touches(s)' = Touches(s) /\ IsCast(s)' = IsCast(s)
                                         /\ (Converts(s) => Converts(s)')
  <2>1. inlinks' = inlinks /\ outlinks' = outlinks /\ stmt' = stmt /\ arg' = arg /\ built' = built
    BY DEF graphVars
  <2>2. Stmts' = Stmts
    BY <2>1 DEF Stmts
  <2>3. ASSUME NEW s \in Stmts PROVE Touches(s)' = Touches(s) /\ IsCast(s)' = IsCast(s)
    BY <2>1 DEF Touches, IsCast
  <2>4. ASSUME NEW s \in Stmts, Converts(s) PROVE Converts(s)'
    BY <2>1, <2>4 DEF Converts
  <2> QED
    BY <2>2, <2>3, <2>4
<1>3. OperatorsInv'
  <2> SUFFICES ASSUME step' \in {1, 2} PROVE OperatorsInv'
    BY DEF OperatorsInv
  <2>1. step' = step
    BY <1>1
  <2>2. OperatorsInv /\ program' = program /\ built' = built
    BY DEF FitInv, graphVars
  <2>3. DOMAIN arg' = UNION {Touches(s)' : s \in Stmts'}
    <3>1. DOMAIN arg = UNION {Touches(s) : s \in Stmts}
      BY <2>1, <2>2 DEF OperatorsInv
    <3>2. inlinks' = inlinks /\ outlinks' = outlinks
      BY DEF graphVars
    <3> QED
      BY <1>2, <3>1, <3>2 DEF Touches
  <2> QED
    BY <1>2, <2>1, <2>2, <2>3 DEF OperatorsInv
<1>4. KernelsInv'
  BY <1>1, <1>2 DEF FitInv, KernelsInv
<1>5. CastsInv'
  BY <1>1, <1>2 DEF FitInv, CastsInv
<1>6. SlotsInv'
  BY <1>1, <1>2 DEF FitInv, SlotsInv
<1> QED
  BY <1>3, <1>4, <1>5, <1>6

LEMMA TypesSame ==
  ASSUME CastInv, FitInv, UNCHANGED graphVars, UNCHANGED <<stmt, arg>>, step > 0,
         step' = step \/ (step > 2 /\ step' = step + 1), last' > 0 => step' \in {3, 7, 9}
  PROVE  TypesInv'
<1>1. step \in 1..11 /\ step' \in 1..12 /\ Stmts' = Stmts /\ program' = program
  BY DEF CastInv, CursorInv, Stmts, graphVars
<1> QED
  BY <1>1 DEF FitInv, TypesInv

\* A pass that is no cast pass, or that a failed CHECK ends.
LEMMA FieldsSame ==
  ASSUME CastInv, FitInv, UNCHANGED graphVars, UNCHANGED <<stmt, arg, cur, last, todo>>,
         step' = step \/ (step \notin {3, 7, 9} /\ step' = step + 1)
  PROVE  FieldsInv'
<1>1. step \in 0..11 /\ Stmts' = Stmts /\ inlinks' = inlinks
  BY DEF CastInv, CursorInv, Stmts, graphVars
<1>2. \A f \in CastFields : step' > PassNumber[f] => step > PassNumber[f]
  BY <1>1 DEF CastFields, PassNumber
<1>3. last' > 0 => step' = step /\ Pass' = Pass
  BY DEF FitInv, TypesInv, Pass
<1>4. ASSUME NEW s \in Stmts, NEW f PROVE StmtFits(f, s)' = StmtFits(f, s)
  BY <1>1 DEF StmtFits, SlotFits
<1>5. ASSUME NEW s \in Stmts, NEW f, NEW n PROVE SlotFits(f, s, n)' = SlotFits(f, s, n)
  BY DEF SlotFits
<1>6. ASSUME NEW f \in CastFields, step' > PassNumber[f], NEW s \in Stmts, stmt[s].op # "layout"
      PROVE  StmtFits(f, s)
  BY <1>2, <1>6 DEF FitInv, FieldsInv
<1>7. ASSUME last' > 0, NEW s \in Stmts, stmt[s].op # "layout"
      PROVE  /\ s < cur \/ s > last => StmtFits(Pass, s)
             /\ s = cur => \A n \in inlinks[s] \ todo : SlotFits(Pass, s, n)
  BY <1>7 DEF FitInv, FieldsInv
<1> QED
  BY <1>1, <1>3, <1>4, <1>5, <1>6, <1>7 DEF FieldsInv

LEMMA FitInfer ==
  ASSUME CastInv, FitInv, VariablePlaceInference
  PROVE  FitInv'
<1>1. /\ step \in {2, 4, 6, 8, 10} /\ Running /\ UNCHANGED graphVars
      /\ UNCHANGED <<stmt, cur, last, todo>> /\ step' \in {step, step + 1}
  BY StepFacts DEF VariablePlaceInference, NextPass
<1>2. last = 0
  BY <1>1 DEF FitInv, TypesInv, CastInv, CursorInv
<1>3. CASE UNCHANGED arg /\ (step' = step \/ step # 2)
  <2>1. SlotsInv' /\ OperatorsInv' /\ KernelsInv' /\ CastsInv' /\ TypesInv'
    BY <1>1, <1>2, <1>3, FitSame, TypesSame
  <2>2. FieldsInv'
    BY <1>1, <1>3, FieldsSame
  <2> QED
    BY <2>1, <2>2 DEF FitInv
<1>4. ASSUME step # 2 PROVE UNCHANGED arg
  <2>1. \A n \in DOMAIN arg : IsType(arg[n].type)
    BY <1>1, <1>4 DEF FitInv, TypesInv
  <2>2. \A n \in DOMAIN arg : arg[n].type # Untyped
    BY <2>1 DEF IsType, Untyped
  <2> QED
    BY <2>2 DEF VariablePlaceInference
<1>5. CASE step = 2 /\ step' = 3
  <2>1. OperatorsInv /\ TypesInv
    BY DEF FitInv
  <2>2. \A n \in DOMAIN arg : arg[n].type = Untyped /\ DOMAIN arg[n] = {"type", "is_persist"}
    BY <1>5, <2>1 DEF OperatorsInv, TypesInv
  <2>3. \A n \in DOMAIN arg' : IsType(arg'[n].type) /\ DOMAIN arg'[n] = {"type", "is_persist"}
    <3>1. CASE DOMAIN arg = {}
      <4>1. UNCHANGED arg
        BY <1>5, <3>1 DEF VariablePlaceInference
      <4> QED
        BY <3>1, <4>1
    <3>2. CASE DOMAIN arg # {}
      <4>1. PICK order \in TopologicalOrders : arg' = Inferred(order)
        BY <1>5, <2>2, <3>2 DEF VariablePlaceInference
      <4>2. ASSUME NEW n \in DOMAIN arg
            PROVE  IsType(arg'[n].type) /\ DOMAIN arg'[n] = {"type", "is_persist"}
        <5>1. arg'[n] = [arg[n] EXCEPT !.type = Declared(FirstAt(order, n), n)]
          BY <2>2, <4>1 DEF Inferred
        <5>2. arg'[n].type = Declared(FirstAt(order, n), n) /\ DOMAIN arg'[n] = {"type", "is_persist"}
          BY <2>2, <5>1
        <5> QED
          BY <1>5, <2>1, <5>2, DeclaredTyped
      <4> QED
        BY <4>1, <4>2 DEF Inferred
    <3> QED
      BY <3>1, <3>2
  <2>4. Stmts' = Stmts /\ built' = built /\ program' = program
    BY <1>1 DEF Stmts, graphVars
  <2>5. OperatorsInv' /\ FieldsInv'
    BY <1>1, <1>2, <1>5, NothingFits DEF OperatorsInv
  <2>6. KernelsInv'
    BY <1>1, <1>5, <2>4 DEF FitInv, KernelsInv
  <2>7. TypesInv'
    BY <1>1, <1>2, <1>5, <2>1, <2>3, <2>4 DEF TypesInv
  <2>8. CastsInv'
    <3>1. built \in Nat /\ Stmts = 1..built
      BY <1>5, <2>1 DEF OperatorsInv, CastInv, CastingInv
    <3>2. ASSUME NEW s \in Stmts' PROVE ~IsCast(s)'
      BY <2>4, <3>1 DEF IsCast
    <3> QED
      BY <3>2 DEF CastsInv
  <2>9. SlotsInv'
    BY <1>1, <1>5, <2>4 DEF FitInv, SlotsInv
  <2> QED
    BY <2>5, <2>6, <2>7, <2>8, <2>9 DEF FitInv
<1>6. step' = step => UNCHANGED arg
  BY <1>1 DEF VariablePlaceInference, NextPass
<1> QED
  BY <1>1, <1>3, <1>4, <1>5, <1>6

LEMMA FitIdle ==
  ASSUME CastInv, FitInv, step > 0,
         IoCopyKernelPick \/ (\E n \in todo : NoCast(n)) \/ UNCHANGED vars
  PROVE  FitInv'
<1>1. /\ UNCHANGED graphVars /\ UNCHANGED <<stmt, arg, cur, last, todo>>
      /\ step' = step \/ (step = 5 /\ step' = 6)
  <2>1. CASE IoCopyKernelPick
    BY <2>1, StepFacts DEF IoCopyKernelPick, NextPass
  <2>2. CASE \E n \in todo : NoCast(n)
    BY <2>2 DEF NoCast
  <2>3. CASE UNCHANGED vars
    BY <2>3 DEF vars, castVars
  <2> QED
    BY <2>1, <2>2, <2>3
<1>2. last' > 0 => step' \in {3, 7, 9}
  BY <1>1 DEF FitInv, TypesInv
<1>3. SlotsInv' /\ OperatorsInv' /\ KernelsInv' /\ CastsInv' /\ TypesInv' /\ FieldsInv'
  BY <1>1, <1>2, FitSame, TypesSame, FieldsSame
<1> QED
  BY <1>3 DEF FitInv

\* The first slot of a name stands for the others.
LEMMA FirstSlotFits ==
  ASSUME CastInv, FitInv, Running, last > 0, NEW n \in todo
  PROVE  /\ cur \in Stmts /\ n \in inlinks[cur] /\ step \in {3, 7, 9} /\ Pass \in CastFields
         /\ stmt[cur].op # "layout" =>
              /\ IsType(Wanted(n))
              /\ \A k \in DOMAIN stmt[cur].in : stmt[cur].in[k] = n[1] => stmt[cur].kernel.in[k] = Wanted(n)
<1>1. /\ step \in {3, 7, 9} /\ Pass \in CastFields /\ CastingInv /\ CursorInv
  BY StepFacts DEF FitInv, TypesInv, CastInv, CastFields
<1>2. cur \in Stmts /\ n \in inlinks[cur]
  BY <1>1 DEF CursorInv, CastingInv
<1>3. ASSUME stmt[cur].op # "layout"
      PROVE  /\ IsType(Wanted(n))
             /\ \A k \in DOMAIN stmt[cur].in : stmt[cur].in[k] = n[1] => stmt[cur].kernel.in[k] = Wanted(n)
  <2> DEFINE names == stmt[cur].in
             slot == SlotOf(names, n[1])
  <2>1. n[1] \in ToSet(names)
    BY <1>1, <1>2 DEF CastingInv, LinksFit, NamesOf
  <2>2. slot \in DOMAIN names /\ names[slot] = n[1]
    <3>1. PICK m \in Nat : DOMAIN names = 1..m
      BY <1>1, <1>2 DEF FitInv, SlotsInv
    <3> QED
      BY <2>1, <3>1, SlotOfFacts
  <2>3. \A k \in DOMAIN names : names[k] = names[slot] => stmt[cur].kernel.in[k] = stmt[cur].kernel.in[slot]
    BY <1>1, <1>2, <1>3, <2>2 DEF FitInv, KernelsInv
  <2>4. IsType(stmt[cur].kernel.in[slot])
    BY <1>1, <1>2, <1>3, <2>2 DEF FitInv, KernelsInv
  <2> QED
    BY <2>2, <2>3, <2>4 DEF Wanted
<1> QED
  BY <1>1, <1>2, <1>3

\* The three loops move on: to the first statement, to the next, to the next
\* input, and out of the pass when everything fits.
LEMMA FitLoop ==
  ASSUME CastInv, FitInv,
         BeginCast \/ NextStmt \/ EndCast \/ (Running /\ last > 0 /\ \E n \in todo : KeepInput(n))
  PROVE  FitInv'
<1> USE DEF CastFields
<1>1. /\ UNCHANGED graphVars /\ UNCHANGED <<stmt, arg>> /\ Running /\ step \in {3, 7, 9}
      /\ step' = IF EndCast THEN step + 1 ELSE step
  <2>1. CASE BeginCast
    <3>1. ~EndCast
      BY <2>1 DEF BeginCast, EndCast
    <3>2. Pass \in CastFields
      BY <2>1, PassFacts DEF BeginCast
    <3> QED
      BY <2>1, <3>1, <3>2, StepFacts DEF BeginCast
  <2>2. CASE ~BeginCast
    <3>1. Running /\ step \in {3, 7, 9}
      BY <2>2 DEF NextStmt, EndCast, FitInv, TypesInv
    <3>2. CASE EndCast
      BY <3>1, <3>2 DEF EndCast, NextPass
    <3>3. CASE ~EndCast
      BY <2>2, <3>1, <3>3 DEF NextStmt, KeepInput
    <3> QED
      BY <3>2, <3>3
  <2> QED
    BY <2>1, <2>2
<1>2. /\ FieldsInv /\ CursorInv /\ CastingInv /\ Stmts = 1..Cardinality(Stmts) /\ Cardinality(Stmts) \in Nat
      /\ Stmts' = Stmts /\ inlinks' = inlinks
  BY <1>1 DEF FitInv, CastInv, CastingInv, Stmts, graphVars
<1>3. SlotsInv' /\ OperatorsInv' /\ KernelsInv' /\ CastsInv'
  <2>1. step > 0 /\ (step' = step \/ (step > 2 /\ step' = step + 1))
    BY <1>1
  <2> QED
    BY <1>1, <2>1, FitSame
<1>4. TypesInv'
  <2>1. step > 0 /\ (step' = step \/ (step > 2 /\ step' = step + 1))
    BY <1>1
  <2>2. last' > 0 => step' \in {3, 7, 9}
    BY <1>1 DEF EndCast
  <2> QED
    BY <1>1, <2>1, <2>2, TypesSame
<1>5. ASSUME NEW s \in Stmts, NEW f PROVE StmtFits(f, s)' = StmtFits(f, s)
  BY <1>1, <1>2 DEF StmtFits, SlotFits
<1>6. ASSUME NEW s \in Stmts, NEW f, NEW n PROVE SlotFits(f, s, n)' = SlotFits(f, s, n)
  BY <1>1 DEF SlotFits
<1>7. ASSUME NEW f \in CastFields, step > PassNumber[f], NEW s \in Stmts, stmt[s].op # "layout"
      PROVE  StmtFits(f, s)
  BY <1>2, <1>7 DEF FieldsInv
<1>8. CASE EndCast
  <2>1. /\ last > 0 /\ todo = {} /\ cur = last /\ last' = 0 /\ step' = step + 1
        /\ last \in Nat
    BY <1>1, <1>2, <1>8 DEF EndCast, CursorInv
  <2>2. ASSUME NEW s \in Stmts, stmt[s].op # "layout" PROVE StmtFits(Pass, s)
    <3>1. s \in Nat
      BY <1>2
    <3>2. CASE s < cur \/ s > last
      BY <1>2, <2>1, <2>2, <3>2 DEF FieldsInv
    <3>3. CASE s = cur
      <4>1. \A n \in inlinks[s] \ todo : SlotFits(Pass, s, n)
        BY <1>2, <2>1, <2>2, <3>3 DEF FieldsInv
      <4> QED
        BY <2>1, <4>1 DEF StmtFits
    <3> QED
      BY <2>1, <3>1, <3>2, <3>3
  <2>3. ASSUME NEW f \in CastFields, step' > PassNumber[f], NEW s \in Stmts, stmt[s].op # "layout"
        PROVE  StmtFits(f, s)
    <3>1. step > PassNumber[f] \/ f = Pass
      BY <1>1, <2>1, <2>3, StepFacts DEF PassNumber
    <3> QED
      BY <1>7, <2>2, <2>3, <3>1
  <2>4. FieldsInv'
    BY <1>1, <1>2, <1>5, <2>1, <2>3 DEF FieldsInv
  <2> QED
    BY <1>3, <1>4, <2>4 DEF FitInv
<1>9. CASE ~EndCast
  <2>1. step' = step /\ Pass' = Pass
    BY <1>1, <1>9 DEF Pass
  <2>2. ASSUME NEW s \in Stmts, stmt[s].op # "layout"
        PROVE  /\ s < cur' \/ s > last' => StmtFits(Pass, s)
               /\ s = cur' => \A n \in inlinks[s] \ todo' : SlotFits(Pass, s, n)
    <3>1. s \in Nat /\ s <= Cardinality(Stmts)
      BY <1>2
    <3>2. CASE BeginCast
      BY <1>2, <3>1, <3>2 DEF BeginCast
    <3>3. CASE NextStmt
      <4>1. last > 0 /\ todo = {} /\ cur' = cur + 1 /\ last' = last /\ todo' = inlinks[cur']
            /\ cur \in Nat
        BY <1>2, <3>3 DEF NextStmt, CursorInv
      <4>2. s < cur' => s < cur \/ s = cur
        BY <3>1, <4>1
      <4>3. s < cur \/ s > last => StmtFits(Pass, s)
        BY <1>2, <2>2, <4>1 DEF FieldsInv
      <4>4. s = cur => StmtFits(Pass, s)
        BY <1>2, <2>2, <4>1 DEF FieldsInv, StmtFits
      <4> QED
        BY <4>1, <4>2, <4>3, <4>4
    <3>4. ASSUME last > 0, NEW n \in todo, KeepInput(n)
          PROVE  /\ s < cur' \/ s > last' => StmtFits(Pass, s)
                 /\ s = cur' => \A m \in inlinks[s] \ todo' : SlotFits(Pass, s, m)
      <4>1. cur' = cur /\ last' = last /\ todo' = todo \ {n}
        BY <3>4 DEF KeepInput
      <4>2. s < cur \/ s > last => StmtFits(Pass, s)
        BY <1>2, <2>2, <3>4 DEF FieldsInv
      <4>3. s = cur => \A m \in inlinks[s] \ todo : SlotFits(Pass, s, m)
        BY <1>2, <2>2, <3>4 DEF FieldsInv
      <4>4. s = cur => SlotFits(Pass, s, n)
        <5>1. \A k \in DOMAIN stmt[cur].in : s = cur /\ stmt[cur].in[k] = n[1] => stmt[cur].kernel.in[k] = Wanted(n)
          BY <1>1, <2>2, <3>4, FirstSlotFits
        <5>2. Fits(Pass, arg[n].type, Wanted(n))
          BY <3>4 DEF KeepInput, Agrees
        <5> QED
          BY <5>1, <5>2 DEF SlotFits
      <4> QED
        BY <4>1, <4>2, <4>3, <4>4
    <3> QED
      BY <1>9, <3>2, <3>3, <3>4
  <2>3. FieldsInv'
    BY <1>1, <1>2, <1>5, <1>6, <1>7, <2>1, <2>2 DEF FieldsInv
  <2> QED
    BY <1>3, <1>4, <2>3 DEF FitInv
<1> QED
  BY <1>8, <1>9

LEMMA RegistryFacts ==
  ASSUME program \in Programs, NEW f \in CastFields, NEW k \in DOMAIN Registry[CastOp[f]]
  PROVE  ConvertsOnly(f, Registry[CastOp[f]][k]) /\ Registry[CastOp[f]][k] # NoKernel
<1> DEFINE kernel == Registry[CastOp[f]][k]
<1>1. f \in DOMAIN CastOp /\ k \in DOMAIN Registered[program.build][CastOp[f]]
      /\ kernel = Registered[program.build][CastOp[f]][k]
  BY PassFacts DEF CastFields, Registry
<1>2. ConvertsOnly(f, kernel)
  BY <1>1, KernelAssumption
<1>3. 1 \in DOMAIN kernel.in
  BY <1>2 DEF ConvertsOnly
<1>4. NoKernel.in = <<>> /\ 1 \notin DOMAIN <<>>
  BY DEF NoKernel
<1> QED
  BY <1>2, <1>3, <1>4

\* A kernel that takes an argument and writes the field that is wanted converts
\* the argument into the one with this field.
LEMMA Converted ==
  ASSUME NEW f \in CastFields, NEW in, NEW out, NEW type, NEW wanted, IsType(type),
         TypeCompatible(in, type), out[f] = wanted[f], f # "target" => out.target = in.target,
         \A g \in {"precision", "layout"} \ {f} : out[g] \in {in[g], "any"}
  PROVE  TypeCompatible([type EXCEPT ![f] = wanted[f]], out)
<1> DEFINE new == [type EXCEPT ![f] = wanted[f]]
<1>1. new[f] = out[f] /\ \A g \in CastFields \ {f} : new[g] = type[g]
  BY DEF IsType, CastOp, CastFields
<1>2. TargetCompatible(new, out)
  BY <1>1 DEF TypeCompatible, TargetCompatible, CastFields
<1>3. PrecisionCompatible(new, out)
  BY <1>1 DEF TypeCompatible, PrecisionCompatible, CastFields
<1>4. LayoutCompatible(new, out)
  BY <1>1 DEF TypeCompatible, LayoutCompatible, CastFields
<1> QED
  BY <1>2, <1>3, <1>4 DEF TypeCompatible

\* The reader asks for the output of its cast wherever it asked for the input.
LEMMA RenamedSlots ==
  ASSUME PlainNames, CastInv, Running, last > 0, NEW n \in todo, NEW k, AddCast(n, k)
  PROVE  LET names == stmt[cur].in
             name == CastName(n)
         IN  /\ stmt'[cur].op = stmt[cur].op /\ stmt'[cur].kernel = stmt[cur].kernel
             /\ DOMAIN stmt'[cur].in = DOMAIN names
             /\ \A j \in DOMAIN names : stmt'[cur].in[j] = IF names[j] = n[1] THEN name ELSE names[j]
             /\ \A j \in DOMAIN names : names[j] # name
<1> DEFINE names == stmt[cur].in
           name == CastName(n)
<1>1. /\ LinksFit /\ cur \in Stmts /\ inlinks[cur] \subseteq DOMAIN arg
      /\ stmt'[cur] = [stmt[cur] EXCEPT !.in = UpdateInputTo(names, n[1], name)]
      /\ \A m \in DOMAIN arg : m[1] # name
  <2>1. /\ cur \in Stmts /\ step > 0
        /\ stmt'[cur] = [stmt[cur] EXCEPT !.in = UpdateInputTo(names, n[1], name)]
        /\ \A m \in DOMAIN arg : m[1] # name
    <3>1. cur \in Stmts
      BY CastFacts
    <3>2. step > 0
      BY StepFacts
    <3>3. /\ stmt'[cur] = [stmt[cur] EXCEPT !.in = UpdateInputTo(names, n[1], name)]
          /\ \A m \in DOMAIN arg : m[1] # name
      BY CastFacts
    <3> QED
      BY <3>1, <3>2, <3>3
  <2> QED
    BY <2>1 DEF CastInv, CastingInv, LinksFit, Touches
<1> HIDE DEF name
<1>2. DOMAIN stmt[cur] = Fields /\ NamesOf(inlinks[cur]) = ToSet(names)
  BY <1>1 DEF LinksFit
<1>3. /\ stmt'[cur].op = stmt[cur].op /\ stmt'[cur].kernel = stmt[cur].kernel
      /\ stmt'[cur].in = UpdateInputTo(names, n[1], name)
  BY <1>1, <1>2 DEF Fields
<1>4. ASSUME NEW j \in DOMAIN names PROVE names[j] # name
  <2>1. names[j] \in NamesOf(inlinks[cur])
    BY <1>2 DEF ToSet
  <2> QED
    BY <1>1, <2>1 DEF NamesOf
<1> QED
  BY <1>3, <1>4 DEF UpdateInputTo, name

\* An input that does not fit gets a cast: the cast fits what it reads, its
\* output fits every slot that named the input, and no one else sees a change.
LEMMA FitCast ==
  ASSUME PlainNames, CastInv, FitInv, Running, last > 0, NEW n \in todo, CastInput(n)
  PROVE  FitInv'
<1> DEFINE N == Cardinality(Stmts)
           cast == N + 1
           name == CastName(n)
           out == <<name, 0>>
           names == stmt[cur].in
           new == [arg[n].type EXCEPT ![Pass] = Wanted(n)[Pass]]
<1>1. /\ UNCHANGED <<program, built, step, last, cur>> /\ todo' = todo \ {n}
      /\ ~Agrees(n) /\ step \in {3, 7, 9} /\ Pass \in CastFields /\ Pass' = Pass
      /\ CastingInv /\ CursorInv /\ LinksFit /\ program \in Programs
  <2>1. UNCHANGED <<program, built, step, last, cur>> /\ todo' = todo \ {n} /\ ~Agrees(n)
    BY DEF CastInput
  <2>2. step \in {3, 7, 9} /\ Pass \in CastFields
    BY FirstSlotFits
  <2>3. Pass' = Pass
    BY <2>1 DEF Pass
  <2> QED
    BY <2>1, <2>2, <2>3 DEF CastInv, CastingInv, FitInv, TypesInv
<1>2. PICK k \in Chosen(n) : AddCast(n, k)
  BY DEF CastInput
<1> DEFINE kernel == Registry[CastOp[Pass]][k]
<1>3. /\ N \in Nat \ {0} /\ built \in 1..N /\ Stmts = 1..N
      /\ cur \in 1..N /\ n \in inlinks[cur] /\ n \in DOMAIN arg
  BY <1>2, CastFacts
<1>4. out[1] = name /\ \A m \in DOMAIN arg : m[1] # name
  <2>1. \A m \in DOMAIN arg : m[1] # name
    BY <1>2, CastFacts
  <2> QED
    BY <2>1
<1>5. /\ DOMAIN arg' = DOMAIN arg \cup {out} /\ Stmts' = 1..cast
      /\ \A m \in DOMAIN arg : arg'[m] = arg[m]
      /\ arg'[out] = [type |-> new, is_persist |-> Persist(n)]
  BY <1>2, CastFacts
<1>6. /\ inlinks'[cur] = (inlinks[cur] \ {n}) \cup {out} /\ inlinks'[cast] = {n}
      /\ \A s \in (1..N) \ {cur} : inlinks'[s] = inlinks[s]
      /\ outlinks'[cast] = {out} /\ \A s \in 1..N : outlinks'[s] = outlinks[s]
  BY <1>2, CastFacts
<1>7. /\ stmt'[cast] = [op |-> CastOp[Pass], once |-> Persist(n), in |-> <<n[1]>>,
                        out |-> <<name>>, kernel |-> Handed(k)]
      /\ stmt'[cur] = [stmt[cur] EXCEPT !.in = UpdateInputTo(names, n[1], name)]
      /\ \A s \in (1..N) \ {cur} : stmt'[s] = stmt[s]
  BY <1>2, CastFacts
<1>8. /\ cast \notin 1..N /\ cast \in Nat /\ \A s \in 1..cast : s \in (1..N) \ {cur} \/ s = cur \/ s = cast
      /\ cur # cast
  BY <1>3
<1>9. /\ k \in DOMAIN Registry[CastOp[Pass]] /\ TypeCompatible(kernel.in[1], arg[n].type)
      /\ kernel.out[1][Pass] = Wanted(n)[Pass]
  BY <1>2 DEF Chosen
<1>10. IsType(arg[n].type)
  BY <1>1, <1>3 DEF FitInv, TypesInv
<1>11. \A s \in 1..N : \A m \in inlinks[s] \cup outlinks[s] : m \in DOMAIN arg
  BY <1>1, <1>3 DEF LinksFit, Touches
<1>12. /\ stmt'[cur].op = stmt[cur].op /\ stmt'[cur].kernel = stmt[cur].kernel
       /\ DOMAIN stmt'[cur].in = DOMAIN names
       /\ \A j \in DOMAIN names : stmt'[cur].in[j] = IF names[j] = n[1] THEN name ELSE names[j]
       /\ \A j \in DOMAIN names : names[j] # name
  BY <1>2, RenamedSlots
<1>13. /\ stmt'[cast].op = CastOp[Pass] /\ stmt'[cast].in = <<n[1]>>
       /\ stmt'[cast].op = "layout" <=> step = 9
       /\ stmt'[cast].op # "layout" => stmt'[cast].kernel = kernel
  <2>1. stmt'[cast].op = CastOp[Pass] /\ stmt'[cast].in = <<n[1]>> /\ stmt'[cast].kernel = Handed(k)
    BY <1>7
  <2>2. CastOp[Pass] = "layout" <=> Pass = "layout"
    BY <1>1 DEF CastOp, CastFields
  <2>3. Pass = "layout" <=> step = 9
    BY StepFacts
  <2> QED
    BY <2>1, <2>2, <2>3 DEF Handed
<1>14. /\ kernel # NoKernel /\ IsType(kernel.in[1]) /\ IsType(kernel.out[1])
       /\ Pass # "target" => kernel.out[1].target = kernel.in[1].target
       /\ \A g \in {"precision", "layout"} \ {Pass} : kernel.out[1][g] \in {kernel.in[1][g], "any"}
  <2>1. ConvertsOnly(Pass, kernel) /\ kernel # NoKernel
    <3>1. program \in Programs /\ Pass \in CastFields /\ k \in DOMAIN Registry[CastOp[Pass]]
      BY <1>1, <1>9
    <3> QED
      BY <3>1, RegistryFacts
  <2> QED
    BY <2>1 DEF ConvertsOnly
<1> HIDE DEF kernel
<1>15. TypeCompatible(new, kernel.out[1])
  BY <1>1, <1>9, <1>10, <1>14, Converted
<1>16. new[Pass] = Wanted(n)[Pass] /\ \A g \in CastFields \ {Pass} : new[g] = arg[n].type[g]
  BY <1>1, <1>10 DEF IsType, CastOp, CastFields
<1>17. IsType(new)
  <2>1. DOMAIN new = DOMAIN arg[n].type
    OBVIOUS
  <2>2. CASE Pass = "target"
    <3>1. step = 3
      BY <2>2, StepFacts
    <3>2. stmt[cur].op # "layout"
      BY <1>3, <3>1 DEF FitInv, TypesInv
    <3>3. IsType(Wanted(n))
      BY <3>2, FirstSlotFits
    <3> QED
      BY <1>10, <1>16, <2>1, <2>2, <3>3 DEF IsType
  <2>3. CASE Pass # "target"
    BY <1>10, <1>16, <2>1, <2>3 DEF IsType, CastFields
  <2> QED
    BY <2>2, <2>3
<1>18. ASSUME stmt[cur].op # "layout", NEW j \in DOMAIN names, names[j] = n[1]
       PROVE  stmt[cur].kernel.in[j] = Wanted(n)
  BY <1>18, FirstSlotFits
<1> HIDE DEF N, cast, name, out, names, new, kernel
<1>19. SlotsInv'
  <2>1. ASSUME NEW s \in 1..cast PROVE \E m \in Nat : DOMAIN stmt'[s].in = 1..m
    <3>1. CASE s = cast
      <4>1. DOMAIN stmt'[s].in = 1..1
        BY <1>13, <3>1
      <4> QED
        BY <4>1
    <3>2. CASE s \in 1..N
      <4>1. PICK m \in Nat : DOMAIN stmt[s].in = 1..m
        BY <1>1, <1>3, <3>2 DEF FitInv, SlotsInv
      <4>2. DOMAIN stmt'[s].in = DOMAIN stmt[s].in
        BY <1>7, <1>12, <3>2 DEF names
      <4> QED
        BY <4>1, <4>2
    <3> QED
      BY <1>3, <1>8, <3>1, <3>2
  <2> QED
    BY <1>5, <2>1 DEF SlotsInv
<1>20. OperatorsInv'
  BY <1>1 DEF OperatorsInv
<1>21. KernelsInv'
  <2>1. ASSUME NEW s \in 1..cast, stmt'[s].op # "layout"
        PROVE  /\ \A i \in DOMAIN stmt'[s].in : IsType(stmt'[s].kernel.in[i])
               /\ \A i, j \in DOMAIN stmt'[s].in :
                    stmt'[s].in[i] = stmt'[s].in[j] => stmt'[s].kernel.in[i] = stmt'[s].kernel.in[j]
    <3>1. CASE s \in (1..N) \ {cur}
      BY <1>1, <1>3, <1>7, <2>1, <3>1 DEF FitInv, KernelsInv
    <3>2. CASE s = cur
      <4>1. /\ \A i \in DOMAIN names : IsType(stmt[cur].kernel.in[i])
            /\ \A i, j \in DOMAIN names :
                 names[i] = names[j] => stmt[cur].kernel.in[i] = stmt[cur].kernel.in[j]
        BY <1>1, <1>3, <1>12, <2>1, <3>2 DEF FitInv, KernelsInv, names
      <4> QED
        BY <1>12, <3>2, <4>1
    <3>3. CASE s = cast
      <4>1. DOMAIN stmt'[s].in = {1} /\ stmt'[s].kernel = kernel
        BY <1>13, <2>1, <3>3
      <4> QED
        BY <1>14, <4>1
    <3> QED
      BY <1>8, <3>1, <3>2, <3>3
  <2> QED
    BY <1>5, <2>1 DEF KernelsInv
<1>22. TypesInv'
  <2>1. ASSUME NEW m \in DOMAIN arg' PROVE DOMAIN arg'[m] = {"type", "is_persist"} /\ IsType(arg'[m].type)
    <3>1. CASE m \in DOMAIN arg
      BY <1>1, <1>5, <3>1 DEF FitInv, TypesInv
    <3>2. CASE m = out
      BY <1>5, <1>17, <3>2
    <3> QED
      BY <1>5, <3>1, <3>2
  <2>2. ASSUME step \in 1..8, NEW s \in 1..cast PROVE stmt'[s].op # "layout"
    <3>1. \A t \in 1..N : stmt[t].op # "layout"
      BY <1>3, <2>2 DEF FitInv, TypesInv
    <3>2. CASE s \in (1..N) \ {cur}
      BY <1>7, <3>1, <3>2
    <3>3. CASE s = cur
      BY <1>3, <1>12, <3>1, <3>3
    <3>4. CASE s = cast
      BY <1>13, <2>2, <3>4
    <3> QED
      BY <1>8, <3>2, <3>3, <3>4
  <2> QED
    BY <1>1, <1>5, <2>1, <2>2 DEF TypesInv
<1>23. CastsInv'
  <2>1. ASSUME NEW s \in 1..cast, s > built, stmt'[s].op # "layout"
        PROVE  /\ stmt'[s].in = <<stmt'[s].in[1]>>
               /\ stmt'[s].kernel # NoKernel
               /\ \A m \in inlinks'[s] : TypeCompatible(arg'[m].type, stmt'[s].kernel.in[1])
               /\ \A m \in outlinks'[s] : TypeCompatible(arg'[m].type, stmt'[s].kernel.out[1])
    <3>1. ASSUME NEW t \in 1..N, t > built, stmt[t].op # "layout"
          PROVE  stmt[t].in = <<stmt[t].in[1]>> /\ Converts(t)
      BY <1>1, <1>3, <3>1 DEF FitInv, CastsInv, IsCast
    <3>2. CASE s \in (1..N) \ {cur}
      <4>1. stmt[s].in = <<stmt[s].in[1]>> /\ Converts(s)
        BY <1>7, <2>1, <3>1, <3>2
      <4> QED
        BY <1>5, <1>6, <1>7, <1>11, <3>2, <4>1 DEF Converts
    <3>3. CASE s = cur
      <4>1. names = <<names[1]>> /\ Converts(cur) /\ stmt[cur].op # "layout"
        BY <1>3, <1>12, <2>1, <3>1, <3>3 DEF names
      <4>2. DOMAIN names = {1} /\ n[1] = names[1]
        <5>1. DOMAIN names = {1}
          BY <4>1
        <5>2. n[1] \in ToSet(names)
          BY <1>1, <1>3 DEF LinksFit, NamesOf, names
        <5> QED
          BY <5>1, <5>2 DEF ToSet
      <4>3. Wanted(n) = stmt[cur].kernel.in[1]
        BY <1>18, <4>1, <4>2
      <4>4. TypeCompatible(arg[n].type, Wanted(n))
        BY <1>3, <4>1, <4>3 DEF Converts
      <4> QED
        BY <1>1, <4>4, FitsFacts DEF Agrees
    <3>4. CASE s = cast
      <4>1. stmt'[s].kernel = kernel /\ inlinks'[s] = {n} /\ outlinks'[s] = {out}
            /\ arg'[n] = arg[n] /\ arg'[out].type = new /\ stmt'[s].in = <<n[1]>>
        BY <1>3, <1>5, <1>6, <1>13, <2>1, <3>4
      <4>2. TypeCompatible(arg[n].type, kernel.in[1])
        BY <1>9 DEF TypeCompatible, TargetCompatible, PrecisionCompatible, LayoutCompatible, kernel
      <4> QED
        BY <1>14, <1>15, <4>1, <4>2
    <3> QED
      BY <1>8, <3>2, <3>3, <3>4
  <2>2. ASSUME NEW s \in Stmts', IsCast(s)', stmt'[s].op # "layout"
        PROVE  stmt'[s].in = <<stmt'[s].in[1]>> /\ Converts(s)'
    <3>1. s \in 1..cast /\ s > built
      BY <1>1, <1>5, <2>2 DEF IsCast
    <3> QED
      BY <2>1, <2>2, <3>1 DEF Converts
  <2> QED
    BY <2>2 DEF CastsInv
\* Another input of the statement, another statement: nothing changes.
<1>24. ASSUME NEW f, NEW s \in 1..N, NEW m \in inlinks[s], SlotFits(f, s, m), s = cur => m # n
       PROVE  SlotFits(f, s, m)'
  <2>1. arg'[m] = arg[m] /\ m[1] # name
    BY <1>4, <1>5, <1>11
  <2>2. CASE s # cur
    BY <1>7, <1>24, <2>1, <2>2 DEF SlotFits
  <2>3. CASE s = cur
    <3>1. ASSUME NEW j \in DOMAIN names, stmt'[cur].in[j] = m[1] PROVE names[j] = m[1]
      BY <1>12, <2>1, <3>1
    <3> QED
      BY <1>12, <1>24, <2>1, <2>3, <3>1 DEF SlotFits, names
  <2> QED
    BY <2>2, <2>3
<1>25. ASSUME NEW f \in CastFields, NEW u, u = cur, NEW o, o = out,
              stmt[u].op # "layout", f = Pass \/ SlotFits(f, u, n)
       PROVE  SlotFits(f, u, o)'
  <2> SUFFICES ASSUME NEW j \in DOMAIN names, stmt'[cur].in[j] = name
               PROVE  Fits(f, new, stmt[cur].kernel.in[j])
    <3>1. arg'[o].type = new /\ o[1] = name /\ DOMAIN stmt'[u].in = DOMAIN names
          /\ stmt'[u].kernel = stmt[cur].kernel
      BY <1>4, <1>5, <1>12, <1>25
    <3> QED
      BY <1>25, <3>1 DEF SlotFits
  <2>1. names[j] = n[1]
    BY <1>12
  <2>2. stmt[cur].kernel.in[j] = Wanted(n)
    BY <1>18, <1>25, <2>1
  <2>3. CASE f = Pass
    <3>1. new[f] = Wanted(n)[f]
      BY <1>16, <2>3
    <3> QED
      BY <2>2, <3>1, FitsFacts
  <2>4. CASE f # Pass
    <3>1. Fits(f, arg[n].type, Wanted(n))
      BY <1>25, <2>1, <2>2, <2>4 DEF SlotFits, names
    <3>2. arg[n].type[f] = new[f]
      BY <1>16, <2>4
    <3> QED
      BY <2>2, <3>1, <3>2, FitsField
  <2> QED
    BY <2>3, <2>4
<1>26. ASSUME NEW f \in CastFields, NEW c, c = cast, stmt'[c].op # "layout"
       PROVE  StmtFits(f, c)'
  <2>1. stmt'[c].kernel = kernel /\ inlinks'[c] = {n} /\ arg'[n] = arg[n]
        /\ stmt'[c].in = <<n[1]>>
    BY <1>3, <1>5, <1>6, <1>13, <1>26
  <2>2. Fits(f, arg[n].type, kernel.in[1])
    BY <1>9, FitsFacts DEF kernel
  <2>3. SlotFits(f, c, n)'
    <3>1. DOMAIN stmt'[c].in = {1}
      BY <2>1
    <3> QED
      BY <2>1, <2>2, <3>1 DEF SlotFits
  <2> QED
    BY <2>1, <2>3 DEF StmtFits
<1>27. FieldsInv'
  <2>1. ASSUME NEW s \in (1..N) \ {cur}, NEW f, StmtFits(f, s) PROVE StmtFits(f, s)'
    BY <1>6, <1>24, <2>1 DEF StmtFits
  <2>2. ASSUME NEW f \in CastFields, step > PassNumber[f], NEW s \in 1..cast, stmt'[s].op # "layout"
        PROVE  StmtFits(f, s)'
    <3>1. ASSUME NEW t \in 1..N, stmt[t].op # "layout" PROVE StmtFits(f, t)
      BY <1>3, <2>2, <3>1 DEF FitInv, FieldsInv
    <3>2. CASE s \in (1..N) \ {cur}
      BY <1>7, <2>1, <2>2, <3>1, <3>2
    <3>3. CASE s = cur
      <4>1. StmtFits(f, s) /\ stmt[s].op # "layout"
        BY <1>3, <1>12, <2>2, <3>1, <3>3
      <4>2. \A m \in inlinks[s] : SlotFits(f, s, m)
        BY <4>1 DEF StmtFits
      <4>3. ASSUME NEW o, o = out PROVE SlotFits(f, s, o)'
        BY <1>3, <1>25, <3>3, <4>1, <4>2, <4>3
      <4>4. ASSUME NEW m \in inlinks[s] \ {n} PROVE SlotFits(f, s, m)'
        BY <1>3, <1>24, <3>3, <4>2
      <4>5. inlinks'[s] = (inlinks[s] \ {n}) \cup {out}
        BY <1>6, <3>3
      <4> QED
        BY <4>3, <4>4, <4>5 DEF StmtFits
    <3>4. CASE s = cast
      BY <1>26, <2>2, <3>4
    <3> QED
      BY <1>8, <3>2, <3>3, <3>4
  <2>3. ASSUME NEW s \in 1..cast, stmt'[s].op # "layout"
        PROVE  /\ s < cur \/ s > last => StmtFits(Pass, s)'
               /\ s = cur => \A m \in inlinks'[s] \ todo' : SlotFits(Pass, s, m)'
    <3>1. ASSUME NEW t \in 1..N, stmt[t].op # "layout"
          PROVE  /\ t < cur \/ t > last => StmtFits(Pass, t)
                 /\ t = cur => \A m \in inlinks[t] \ todo : SlotFits(Pass, t, m)
      BY <1>3, <3>1 DEF FitInv, FieldsInv
    <3>2. cur \in Nat /\ last \in Nat /\ cur <= last
      BY <1>1 DEF CursorInv
    <3>3. CASE s \in (1..N) \ {cur}
      <4>1. s < cur \/ s > last => StmtFits(Pass, s)
        BY <1>7, <2>3, <3>1, <3>3
      <4> QED
        BY <1>1, <2>1, <3>3, <4>1
    <3>4. CASE s = cur
      <4>1. stmt[s].op # "layout" /\ \A m \in inlinks[s] \ todo : SlotFits(Pass, s, m)
        BY <1>3, <1>12, <2>3, <3>1, <3>4
      <4>2. ASSUME NEW o, o = out PROVE SlotFits(Pass, s, o)'
        BY <1>1, <1>25, <3>4, <4>1, <4>2
      <4>3. ASSUME NEW m \in inlinks[s] \ {n}, m \notin todo PROVE SlotFits(Pass, s, m)'
        BY <1>1, <1>3, <1>24, <3>4, <4>1, <4>3
      <4>4. ~(s < cur \/ s > last)
        BY <3>2, <3>4
      <4>5. inlinks'[s] = (inlinks[s] \ {n}) \cup {out}
        BY <1>6, <3>4
      <4> QED
        BY <1>1, <4>2, <4>3, <4>4, <4>5
    <3>5. CASE s = cast
      BY <1>1, <1>8, <1>26, <2>3, <3>5
    <3> QED
      BY <1>8, <3>3, <3>4, <3>5
  <2> QED
    BY <1>1, <1>5, <2>2, <2>3 DEF FieldsInv
<1> QED
  BY <1>19, <1>20, <1>21, <1>22, <1>23, <1>27 DEF FitInv

LEMMA NextFitInv ==
  ASSUME PlainNames
  PROVE  CastInv /\ FitInv /\ [CastNext]_vars => CastInv' /\ FitInv'
<1> SUFFICES ASSUME CastInv, FitInv, [CastNext]_vars PROVE FitInv'
  BY NextCastInv
<1>1. CASE BuildGraph \/ RunPasses \/ StaticKernelPick \/ VariablePlaceInference
  BY <1>1, FitBuild, FitStart, FitPick, FitInfer
<1>2. CASE IoCopyKernelPick
  <2>1. step > 0
    BY <1>2, StepFacts DEF IoCopyKernelPick
  <2> QED
    BY <1>2, <2>1, FitIdle
<1>3. CASE BeginCast \/ NextStmt \/ EndCast
  BY <1>3, FitLoop
<1>4. CASE ComplementInput
  <2>1. step > 0
    BY <1>4, StepFacts DEF ComplementInput
  <2>2. PICK n \in todo : Running /\ last > 0 /\ (KeepInput(n) \/ CastInput(n) \/ NoCast(n))
    BY <1>4 DEF ComplementInput
  <2>3. CASE KeepInput(n)
    BY <2>2, <2>3, FitLoop
  <2>4. CASE CastInput(n)
    BY <2>2, <2>4, FitCast
  <2>5. CASE NoCast(n)
    BY <2>1, <2>5, FitIdle
  <2> QED
    BY <2>2, <2>3, <2>4, <2>5
<1>5. CASE UNCHANGED vars
  <2>1. CASE step > 0
    BY <1>5, <2>1, FitIdle
  <2>2. CASE step = 0
    <3>1. step' = 0 /\ last' = 0
      BY <1>5, <2>2 DEF vars, castVars, CastInv, BuildingInv
    <3>2. FieldsInv'
      <4>1. \A f \in CastFields : ~(step' > PassNumber[f])
        BY <3>1 DEF CastFields, PassNumber
      <4> QED
        BY <3>1, <4>1 DEF FieldsInv
    <3> QED
      BY <3>1, <3>2 DEF FitInv, SlotsInv, OperatorsInv, KernelsInv, TypesInv, CastsInv
  <2> QED
    BY <2>1, <2>2 DEF CastInv, CursorInv
<1> QED
  BY <1>1, <1>2, <1>3, <1>4, <1>5 DEF CastNext

(* When the passes have finished, every input has the target, the          *)
(* precision and the layout its kernel declares, for every program,        *)
(* library, tie between kernels and order of the statements and inputs.    *)
THEOREM InputsFit ==
  ASSUME PlainNames
  PROVE  CastSpec => []InputsCompatible
<1>1. CastInv /\ FitInv => InputsCompatible
  <2> SUFFICES ASSUME CastInv, FitInv, Finished, NEW s \in Stmts, stmt[s].op # "layout",
                      NEW k \in DOMAIN stmt[s].in
               PROVE  TypeCompatible(arg[Feeding(s, k)].type, stmt[s].kernel.in[k])
    BY DEF InputsCompatible
  <2>1. step = 11
    BY PassFacts DEF Finished, CastInv, CursorInv
  <2>2. NamesOf(inlinks[s]) = ToSet(stmt[s].in)
    BY <2>1 DEF CastInv, CastingInv, LinksFit
  <2>3. \E n \in inlinks[s] : n[1] = stmt[s].in[k]
    BY <2>2 DEF NamesOf, ToSet
  <2>4. Feeding(s, k) \in inlinks[s] /\ Feeding(s, k)[1] = stmt[s].in[k]
    BY <2>3 DEF Feeding
  <2>5. ASSUME NEW f \in CastFields PROVE Fits(f, arg[Feeding(s, k)].type, stmt[s].kernel.in[k])
    <3>1. step > PassNumber[f]
      BY <2>1 DEF CastFields, PassNumber
    <3>2. StmtFits(f, s)
      BY <3>1 DEF FitInv, FieldsInv
    <3> QED
      BY <2>4, <3>2 DEF StmtFits, SlotFits
  <2> QED
    BY <2>5, FitsAll
<1>2. CastInv /\ FitInv /\ [CastNext]_vars => CastInv' /\ FitInv'
  BY NextFitInv
<1> QED
  BY <1>1, <1>2, InitCastInv, FitInit, PTL DEF CastSpec

(* The kernel of an io_copy or a calib takes what it is given and makes    *)
(* what its neighbours are told, from the moment it is inserted.           *)
THEOREM CastsDoConvert ==
  ASSUME PlainNames
  PROVE  CastSpec => []CastsConvert
<1>1. FitInv => CastsConvert
  BY DEF FitInv, CastsInv, CastsConvert
<1>2. CastInv /\ FitInv /\ [CastNext]_vars => CastInv' /\ FitInv'
  BY NextFitInv
<1> QED
  BY <1>1, <1>2, InitCastInv, FitInit, PTL DEF CastSpec

-----------------------------------------------------------------------------
(* What is behind the casts.                                               *)

\* The pass that makes the casts of a kind, and the order of these passes.
Level == [io_copy |-> 1, calib |-> 2, layout |-> 3]
LevelStep == <<3, 7, 9>>

\* What makes the node is no cast of the level or of a later one.
Below(level, n) == \A s \in Producers(n) : IsCast(s) => Level[stmt[s].op] < level

\* A cast reads one node, and none that a cast of its own pass or of a later
\* one makes; it is there when its pass has begun, behind the statements that
\* this pass visits.
ChainInv ==
  step > 0 => \A s \in Stmts : IsCast(s) =>
    /\ stmt[s].op \in DOMAIN Level
    /\ \E n \in inlinks[s] : inlinks[s] = {n} /\ Below(Level[stmt[s].op], n)
    /\ LevelStep[Level[stmt[s].op]] <= step
    /\ LevelStep[Level[stmt[s].op]] = step => last > 0 /\ s > last

\* A pass puts a cast before an input once.
OnceInv ==
  last > 0 =>
    /\ \A n \in todo : Below(Level[CastOp[Pass]], n)
    /\ \A s \in Stmts : cur < s /\ s <= last => \A n \in inlinks[s] : Below(Level[CastOp[Pass]], n)

\* What is persistent comes from a weight, and a cast of it runs once.
FromWeight(n) == IsWeight(Source(n)) /\ Producers(Source(n)) = {}

PersistInv ==
  step > 0 =>
    /\ \A n \in DOMAIN arg : Persist(n) <=> FromWeight(n)
    /\ \A s \in Stmts : IsCast(s) => \A n \in inlinks[s] : stmt[s].once <=> Persist(n)

\* Whatever the slots of s that hold n declare, int8 will do.
TakesInt8(s, n) ==
  \A k \in DOMAIN stmt[s].in :
    stmt[s].in[k] = n[1] => stmt[s].kernel.in[k].precision \in {"int8", "any"}

\* An operator that is given int8 takes it, unless it comes from a weight.
Int8Inv ==
  /\ step \in {1, 2} => BoundToLastWriter
  /\ step = 2 => \A s \in Stmts : stmt[s].kernel \in Pickable(s)
  /\ step > 0 => \A s \in 1..built : stmt[s].op \notin DOMAIN Level
  /\ step > 2 => \A s \in 1..built : \A n \in inlinks[s] :
       arg[n].type.precision = "int8" => IsWeight(Source(n)) \/ TakesInt8(s, n)
  /\ NeverDequantizes

-----------------------------------------------------------------------------
LEMMA LevelFacts ==
  /\ DOMAIN Level = {"io_copy", "calib", "layout"}
  /\ \A op \in DOMAIN Level : Level[op] \in 1..3 /\ LevelStep[Level[op]] \in {3, 7, 9}
BY DEF Level, LevelStep

\* The cast a pass makes is of the level of the pass.
LEMMA PassLevel ==
  ASSUME Running, step \in {3, 7, 9}
  PROVE  /\ CastOp[Pass] \in DOMAIN Level /\ LevelStep[Level[CastOp[Pass]]] = step
         /\ \A op \in DOMAIN Level :
              LevelStep[Level[op]] < step => Level[op] < Level[CastOp[Pass]]
BY StepFacts DEF CastOp, Level, LevelStep

\* The names of casts differ, so that a node has no producer beside its cast.
LEMMA CastWritesAlone ==
  ASSUME CastInv, step > 0, NEW s \in Stmts, IsCast(s), NEW m \in outlinks[s]
  PROVE  Producers(m) = {s}
<1>1. /\ CastsNumbered /\ LinksFit /\ Stmts = DOMAIN outlinks /\ built \in Nat /\ Stmts \subseteq Nat
  BY DEF CastInv, CastingInv
<1>2. s \notin 1..built /\ stmt[s].out = <<stmt[s].out[1]>> /\ stmt[s].out[1] \notin Name
  BY <1>1 DEF CastsNumbered, IsCast
<1>3. m[1] = stmt[s].out[1]
  <2>1. m[1] \in ToSet(stmt[s].out)
    BY <1>1 DEF LinksFit, NamesOf
  <2> QED
    BY <1>2, <2>1 DEF ToSet
<1>4. ASSUME NEW t \in Producers(m) PROVE t = s
  <2>1. t \in Stmts /\ m[1] \in ToSet(stmt[t].out)
    BY <1>1 DEF Producers, LinksFit, NamesOf
  <2>2. t \notin 1..built
    BY <1>1, <1>2, <1>3, <2>1 DEF CastsNumbered
  <2>3. m[1] = stmt[t].out[1]
    BY <1>1, <2>1, <2>2 DEF CastsNumbered, ToSet
  <2>4. stmt[s].out[1][2] \in Int /\ stmt[t].out[1][2] \in Int
    BY <1>1, <1>2, <2>1, <2>2 DEF CastsNumbered
  <2>5. ~(s < t) /\ ~(t < s)
    BY <1>1, <1>2, <1>3, <2>1, <2>2, <2>3, <2>4 DEF CastsNumbered
  <2>6. s \in Nat /\ t \in Nat
    BY <1>1, <2>1
  <2> QED
    BY <2>5, <2>6
<1>5. s \in Producers(m)
  BY <1>1 DEF Producers
<1> QED
  BY <1>4, <1>5

\* Behind a node is what its one cast reads, or the node itself.
LEMMA BehindCast ==
  ASSUME CastInv, ChainInv, step > 0, NEW s \in Stmts, IsCast(s), NEW n, n \in outlinks[s]
  PROVE  /\ inlinks[s] = {CastSource(n)} /\ Below(Level[stmt[s].op], CastSource(n))
         /\ stmt[s].op \in DOMAIN Level /\ CastSource(n) \in DOMAIN arg
<1>1. PICK m \in inlinks[s] : inlinks[s] = {m} /\ Below(Level[stmt[s].op], m)
  BY DEF ChainInv
<1>2. Producers(n) = {s}
  BY CastWritesAlone
<1>3. UNION {inlinks[t] : t \in Producers(n)} = {m}
  BY <1>1, <1>2
<1>4. CastSource(n) = m
  BY <1>2, <1>3 DEF CastSource
<1>5. m \in DOMAIN arg
  BY <1>1 DEF CastInv, CastingInv, LinksFit, Touches
<1> QED
  BY <1>1, <1>4, <1>5 DEF ChainInv

LEMMA BehindNone ==
  ASSUME NEW n, \A s \in Producers(n) : ~IsCast(s)
  PROVE  CastSource(n) = n
BY DEF CastSource

\* Every cast that is looked behind takes a level away, and three are enough.
LEMMA BehindLevels ==
  ASSUME CastInv, ChainInv, step > 0, NEW n
  PROVE  /\ Below(4, n)
         /\ Below(1, n) => CastSource(n) = n
         /\ \A l \in {2, 3, 4} : Below(l, n) => Below(l - 1, CastSource(n))
         /\ n \in DOMAIN arg => CastSource(n) \in DOMAIN arg
<1>1. Stmts = DOMAIN outlinks
  BY DEF CastInv, CastingInv
<1>2. ASSUME NEW s \in Producers(n), IsCast(s)
      PROVE  /\ s \in Stmts /\ n \in outlinks[s]
             /\ stmt[s].op \in DOMAIN Level /\ Level[stmt[s].op] \in 1..3
             /\ Below(Level[stmt[s].op], CastSource(n)) /\ CastSource(n) \in DOMAIN arg
  <2>1. s \in Stmts /\ n \in outlinks[s]
    BY <1>1 DEF Producers
  <2>2. /\ stmt[s].op \in DOMAIN Level
        /\ Below(Level[stmt[s].op], CastSource(n)) /\ CastSource(n) \in DOMAIN arg
    BY <1>2, <2>1, BehindCast
  <2> QED
    BY <2>1, <2>2, LevelFacts
<1>3. Below(4, n)
  BY <1>2 DEF Below
<1>4. CASE \A s \in Producers(n) : ~IsCast(s)
  <2>1. CastSource(n) = n
    BY <1>4, BehindNone
  <2>2. \A l : Below(l, n)
    BY <1>4 DEF Below
  <2> QED
    BY <1>3, <2>1, <2>2
<1>5. CASE \E s \in Producers(n) : IsCast(s)
  <2>1. PICK s \in Producers(n) : IsCast(s)
    BY <1>5
  <2> DEFINE level == Level[stmt[s].op]
             m == CastSource(n)
  <2>2. level \in 1..3 /\ Below(level, m) /\ m \in DOMAIN arg
    BY <1>2, <2>1
  <2>3. ASSUME NEW l \in {1, 2, 3, 4}, Below(l, n) PROVE level < l
    BY <2>1, <2>3 DEF Below
  <2> HIDE DEF m
  <2>4. ~Below(1, n)
    BY <2>2, <2>3
  <2>5. ASSUME NEW l \in {2, 3, 4}, Below(l, n) PROVE Below(l - 1, m)
    <3>1. level <= l - 1
      BY <2>2, <2>3, <2>5
    <3>2. ASSUME NEW t \in Producers(m), IsCast(t) PROVE Level[stmt[t].op] < l - 1
      <4>1. Level[stmt[t].op] < level
        BY <2>2, <3>2 DEF Below
      <4>2. t \in Stmts /\ stmt[t].op \in DOMAIN Level
        BY <1>1, <3>2 DEF Producers, ChainInv
      <4>3. Level[stmt[t].op] \in 1..3
        BY <4>2, LevelFacts
      <4> QED
        BY <2>2, <3>1, <4>1, <4>3
    <3> QED
      BY <3>2 DEF Below
  <2> QED
    BY <1>3, <2>2, <2>4, <2>5 DEF m
<1> QED
  BY <1>4, <1>5

\* What is behind three casts is no cast's output, and a node of the graph.
LEMMA SourceFacts ==
  ASSUME CastInv, ChainInv, step > 0, NEW n
  PROVE  /\ CastSource(Source(n)) = Source(n)
         /\ n \in DOMAIN arg => Source(n) \in DOMAIN arg
         /\ Below(3, n) => CastSource(CastSource(n)) = Source(n)
         /\ Below(1, n) => Source(n) = n
<1> DEFINE m == CastSource(n)
           k == CastSource(m)
<1>1. Below(4, n) /\ (Below(1, n) => m = n) /\ (Below(3, n) => Below(2, m)) /\ (Below(4, n) => Below(3, m))
      /\ (n \in DOMAIN arg => m \in DOMAIN arg)
  BY BehindLevels
<1>2. (Below(2, m) => Below(1, k)) /\ (Below(3, m) => Below(2, k))
      /\ (m \in DOMAIN arg => k \in DOMAIN arg) /\ (Below(1, m) => k = m)
  BY BehindLevels
<1>3. (Below(1, k) => CastSource(k) = k) /\ (Below(2, k) => Below(1, CastSource(k)))
      /\ (k \in DOMAIN arg => CastSource(k) \in DOMAIN arg)
  BY BehindLevels
<1>4. Source(n) = CastSource(k)
  BY DEF Source
<1>5. Below(1, CastSource(k)) => CastSource(CastSource(k)) = CastSource(k)
  BY BehindLevels
<1> HIDE DEF k
<1>6. CastSource(Source(n)) = Source(n) /\ (n \in DOMAIN arg => Source(n) \in DOMAIN arg)
      /\ (Below(3, n) => k = Source(n))
  BY <1>1, <1>2, <1>3, <1>4, <1>5
<1>7. Below(1, n) => Source(n) = n
  BY <1>1, <1>2, <1>3, <1>4
<1> QED
  BY <1>6, <1>7 DEF k

SourceInv == ChainInv /\ OnceInv /\ SourcesKept

LEMMA SourceInit == CastInit => SourceInv /\ PersistInv
BY DEF CastInit, SourceInv, ChainInv, OnceInv, SourcesKept, PersistInv

\* The graph before the first cast.
LEMMA SourceStart ==
  ASSUME CastInv, FitInv, RunPasses
  PROVE  SourceInv' /\ (ReadsWeights(program) => PersistInv')
<1>1. /\ step = 0 /\ step' = 1 /\ UNCHANGED graphVars /\ last' = 0
      /\ BuildingInv /\ GraphTypeOK /\ built = Len(program.ops)
  BY DEF RunPasses, NextPass, CastInv, BuildingInv, BuildInv, GraphBuilt
<1>2. DOMAIN inlinks = 1..built /\ DOMAIN outlinks = 1..built /\ built \in Nat
  BY <1>1, OpFacts DEF GraphTypeOK
<1>3. /\ Stmts' = 1..built /\ \A s \in 1..built : ~IsCast(s)'
      /\ program' = program /\ built' = built /\ inlinks' = inlinks /\ outlinks' = outlinks
  BY <1>1, <1>2 DEF RunPasses, Stmts, IsCast, graphVars
<1>4. ASSUME NEW n PROVE CastSource(n)' = n
  <2>1. \A s \in Producers(n)' : ~IsCast(s)'
    BY <1>2, <1>3 DEF Producers
  <2> QED
    BY <2>1 DEF CastSource
<1>5. ASSUME NEW n PROVE Source(n)' = n
  BY <1>4 DEF Source
<1>6. SourcesKept'
  <2> SUFFICES ASSUME NEW s \in 1..built PROVE {Source(n)' : n \in inlinks'[s]} = linked'[s]
    BY <1>3 DEF SourcesKept
  <2>1. linked'[s] = inlinks'[s]
    BY <1>3 DEF RunPasses
  <2> QED
    BY <1>5, <2>1
<1>7. ChainInv' /\ OnceInv'
  BY <1>1, <1>3 DEF ChainInv, OnceInv
<1>8. ASSUME ReadsWeights(program) PROVE PersistInv'
  <2>1. ASSUME NEW n \in DOMAIN arg' PROVE Persist(n)' <=> FromWeight(n)'
    <3>1. arg'[n].is_persist = FALSE
      BY <2>1 DEF RunPasses
    <3>2. Persist(n)' <=> n[1] \in program.weights
      BY <1>3, <3>1 DEF Persist, IsWeight
    <3>3. FromWeight(n)' <=> n[1] \in program.weights /\ Producers(n)' = {}
      BY <1>3, <1>5 DEF FromWeight, IsWeight
    <3>4. ASSUME NEW s \in Producers(n)' PROVE n[1] \notin program.weights
      <4>1. s \in 1..built /\ n \in outlinks[s]
        BY <1>2, <1>3 DEF Producers
      <4>2. n[1] \in program.ops[s].out
        BY <1>1, <4>1 DEF BuildingInv, NamesOf
      <4>3. s \in DOMAIN program.ops
        BY <1>1, <4>1, ProgramsAssumption DEF GraphTypeOK
      <4> QED
        BY <1>8, <4>2, <4>3 DEF ReadsWeights
    <3> QED
      BY <3>2, <3>3, <3>4
  <2> QED
    BY <1>3, <2>1 DEF PersistInv
<1> QED
  BY <1>6, <1>7, <1>8 DEF SourceInv

\* What is behind a node is a matter of the graph.
LEMMA GraphSame ==
  ASSUME CastInv, ChainInv, step > 0, UNCHANGED graphVars
  PROVE  /\ \A s : IsCast(s)' <=> IsCast(s)
         /\ \A n : /\ Producers(n)' = Producers(n) /\ CastSource(n)' = CastSource(n)
                   /\ Source(n)' = Source(n) /\ (IsWeight(n)' <=> IsWeight(n))
<1>1. inlinks' = inlinks /\ outlinks' = outlinks /\ built' = built /\ program' = program
  BY DEF graphVars
<1>2. \A s : IsCast(s)' <=> IsCast(s)
  BY <1>1 DEF IsCast
<1>3. ASSUME NEW n PROVE Producers(n)' = Producers(n) /\ (IsWeight(n)' <=> IsWeight(n))
  BY <1>1 DEF Producers, IsWeight
<1>4. ASSUME NEW n PROVE CastSource(n)' = CastSource(n)
  <2>1. CASE \A s \in Producers(n) : ~IsCast(s)
    <3>1. \A s \in Producers(n)' : ~IsCast(s)'
      BY <1>2, <1>3, <2>1
    <3> QED
      BY <2>1, <3>1 DEF CastSource
  <2>2. CASE \E s \in Producers(n) : IsCast(s)
    <3>1. PICK s \in Producers(n) : IsCast(s)
      BY <2>2
    <3>2. s \in Stmts /\ n \in outlinks[s]
      BY <3>1 DEF Producers, CastInv, CastingInv
    <3>3. Producers(n) = {s}
      BY <3>1, <3>2, CastWritesAlone
    <3>4. PICK q : inlinks[s] = {q}
      BY <3>1, <3>2 DEF ChainInv
    <3>5. UNION {inlinks[t] : t \in Producers(n)} = {q} /\ UNION {inlinks'[t] : t \in Producers(n)'} = {q}
      BY <1>1, <1>3, <3>3, <3>4
    <3>6. (\E t \in Producers(n)' : IsCast(t)') /\ \E t \in Producers(n) : IsCast(t)
      BY <1>2, <1>3, <3>1
    <3> QED
      BY <3>5, <3>6 DEF CastSource
  <2> QED
    BY <2>1, <2>2
<1>5. ASSUME NEW n PROVE Source(n)' = Source(n)
  BY <1>4 DEF Source
<1> QED
  BY <1>2, <1>3, <1>4, <1>5

\* The steps that put no cast in keep the casts, and whom they stand before.
LEMMA ChainSame ==
  ASSUME CastInv, SourceInv, step > 0, UNCHANGED <<graphVars, linked>>,
         DOMAIN stmt' = Stmts, \A s \in Stmts : stmt'[s].op = stmt[s].op,
         step' \in {step, step + 1}, step' = step /\ last > 0 => last' = last
  PROVE  /\ ChainInv' /\ SourcesKept'
         /\ \A l, n : Below(l, n)' <=> Below(l, n)
<1>1. /\ Stmts' = Stmts /\ built' = built /\ inlinks' = inlinks /\ linked' = linked
      /\ step \in 1..11 /\ Stmts = DOMAIN outlinks
  BY DEF Stmts, graphVars, CastInv, CursorInv, CastingInv
<1>2. ASSUME NEW l, NEW n PROVE Below(l, n)' <=> Below(l, n)
  <2>1. Producers(n)' = Producers(n) /\ \A s : IsCast(s)' <=> IsCast(s)
    BY GraphSame DEF SourceInv
  <2>2. \A s \in Producers(n) : stmt'[s].op = stmt[s].op
    BY <1>1 DEF Producers
  <2> QED
    BY <2>1, <2>2 DEF Below
<1>3. ChainInv'
  <2> SUFFICES ASSUME NEW s \in Stmts, IsCast(s)
               PROVE  /\ stmt[s].op \in DOMAIN Level
                      /\ \E n \in inlinks[s] : inlinks[s] = {n} /\ Below(Level[stmt[s].op], n)
                      /\ LevelStep[Level[stmt[s].op]] <= step'
                      /\ LevelStep[Level[stmt[s].op]] = step' => last' > 0 /\ s > last'
    BY <1>1, <1>2, GraphSame DEF SourceInv, ChainInv
  <2>1. /\ stmt[s].op \in DOMAIN Level
        /\ \E n \in inlinks[s] : inlinks[s] = {n} /\ Below(Level[stmt[s].op], n)
        /\ LevelStep[Level[stmt[s].op]] <= step
        /\ LevelStep[Level[stmt[s].op]] = step => last > 0 /\ s > last
    BY DEF SourceInv, ChainInv
  <2>2. LevelStep[Level[stmt[s].op]] \in Nat
    BY <2>1, LevelFacts
  <2> QED
    BY <1>1, <2>1, <2>2
<1>4. SourcesKept'
  <2> SUFFICES ASSUME NEW s \in 1..built PROVE {Source(n) : n \in inlinks[s]} = linked[s]
    BY <1>1, GraphSame DEF SourceInv, SourcesKept
  <2> QED
    BY DEF SourceInv, SourcesKept
<1> QED
  BY <1>2, <1>3, <1>4

\* A pass visits the statements there are when it begins, and none of its own casts.
LEMMA SourceLoop ==
  ASSUME CastInv, FitInv, SourceInv,
         BeginCast \/ NextStmt \/ EndCast \/ (Running /\ last > 0 /\ \E n \in todo : KeepInput(n))
  PROVE  SourceInv'
<1>1. /\ UNCHANGED <<graphVars, stmt, linked>> /\ Running /\ step \in {3, 7, 9} /\ step > 0
      /\ step' \in {step, step + 1} /\ (step' = step /\ last > 0 => last' = last)
  <2>1. CASE BeginCast
    <3>1. Pass \in CastFields
      BY <2>1, PassFacts DEF BeginCast, CastFields
    <3> QED
      BY <2>1, <3>1, StepFacts DEF BeginCast, CastFields
  <2>2. CASE NextStmt \/ \E n \in todo : KeepInput(n) /\ Running /\ last > 0
    BY <2>2 DEF NextStmt, KeepInput, FitInv, TypesInv
  <2>3. CASE EndCast
    BY <2>3 DEF EndCast, NextPass, FitInv, TypesInv
  <2> QED
    BY <2>1, <2>2, <2>3
<1>2. ChainInv' /\ SourcesKept' /\ \A l, n : Below(l, n)' <=> Below(l, n)
  BY <1>1, ChainSame DEF Stmts
<1>3. CastingInv /\ CursorInv /\ Stmts' = Stmts /\ inlinks' = inlinks /\ OnceInv
      /\ Stmts = 1..Cardinality(Stmts) /\ Cardinality(Stmts) \in Nat /\ Stmts = DOMAIN outlinks
  BY <1>1 DEF CastInv, CastingInv, SourceInv, Stmts, graphVars
<1>4. Pass' = Pass \/ last' = 0
  BY <1>1 DEF BeginCast, NextStmt, EndCast, KeepInput, Pass
<1>5. CASE BeginCast
  <2>1. ASSUME NEW n PROVE Below(Level[CastOp[Pass]], n)
    <3> SUFFICES ASSUME NEW s \in Producers(n), IsCast(s)
                 PROVE  Level[stmt[s].op] < Level[CastOp[Pass]]
      BY DEF Below
    <3>1. s \in Stmts
      BY <1>3 DEF Producers
    <3>2. last = 0
      BY <1>5 DEF BeginCast
    <3>3. stmt[s].op \in DOMAIN Level /\ LevelStep[Level[stmt[s].op]] <= step
          /\ LevelStep[Level[stmt[s].op]] # step
      BY <1>1, <3>1, <3>2 DEF SourceInv, ChainInv
    <3>4. LevelStep[Level[stmt[s].op]] < step
      BY <1>1, <3>3, LevelFacts
    <3> QED
      BY <1>1, <3>3, <3>4, PassLevel
  <2>2. Pass' = Pass
    BY <1>5 DEF BeginCast, Pass
  <2>3. OnceInv'
    BY <1>2, <1>3, <2>1, <2>2 DEF OnceInv
  <2> QED
    BY <1>2, <2>3 DEF SourceInv
<1>6. CASE NextStmt
  <2>1. /\ last > 0 /\ last' = last /\ cur < last /\ cur' = cur + 1 /\ todo' = inlinks[cur + 1]
        /\ last \in Stmts /\ cur \in Nat /\ last \in Nat
    BY <1>3, <1>6 DEF NextStmt, CursorInv
  <2>2. cur + 1 \in Stmts /\ cur < cur + 1 /\ cur + 1 <= last
    BY <1>3, <2>1
  <2>3. \A s \in Stmts : cur' < s => cur < s
    BY <1>3, <2>1
  <2> DEFINE L == Level[CastOp[Pass]]
  <2>4. \A s \in Stmts : cur < s /\ s <= last => \A n \in inlinks[s] : Below(L, n)
    BY <1>3, <2>1 DEF OnceInv
  <2>5. Level[CastOp[Pass]]' = L
    BY <1>4, <2>1
  <2> HIDE DEF L
  <2>6. /\ \A n \in todo' : Below(L, n)
        /\ \A s \in Stmts : cur' < s /\ s <= last => \A n \in inlinks[s] : Below(L, n)
    BY <2>1, <2>2, <2>3, <2>4
  <2>7. OnceInv'
    BY <1>2, <1>3, <2>1, <2>5, <2>6 DEF OnceInv
  <2> QED
    BY <1>2, <2>7 DEF SourceInv
<1>7. CASE EndCast
  <2>1. OnceInv'
    BY <1>3, <1>7 DEF EndCast, OnceInv, CursorInv
  <2> QED
    BY <1>2, <2>1 DEF SourceInv
<1>8. CASE Running /\ last > 0 /\ \E n \in todo : KeepInput(n)
  <2>1. last > 0 /\ cur' = cur /\ last' = last /\ todo' \subseteq todo /\ step' = step
    BY <1>8 DEF KeepInput
  <2>2. Level[CastOp[Pass]]' = Level[CastOp[Pass]]
    BY <2>1 DEF Pass
  <2>3. OnceInv'
    BY <1>2, <1>3, <2>1, <2>2 DEF OnceInv
  <2> QED
    BY <1>2, <2>3 DEF SourceInv
<1> QED
  BY <1>5, <1>6, <1>7, <1>8

\* The passes that put no cast in, and a failed CHECK.
LEMMA SourceIdle ==
  ASSUME CastInv, FitInv, SourceInv, step > 0,
         \/ StaticKernelPick \/ VariablePlaceInference \/ IoCopyKernelPick
         \/ (\E n \in todo : NoCast(n)) \/ UNCHANGED vars
  PROVE  SourceInv'
<1>1. /\ UNCHANGED <<graphVars, linked, cur, last, todo>> /\ step' \in {step, step + 1}
      /\ last > 0 => step' = step
  <2>1. CASE StaticKernelPick \/ VariablePlaceInference \/ IoCopyKernelPick
    <3>1. step \in {1, 2, 4, 5, 6, 8, 10}
      BY <2>1, StepFacts DEF StaticKernelPick, VariablePlaceInference, IoCopyKernelPick
    <3>2. ~(last > 0)
      BY <3>1 DEF FitInv, TypesInv
    <3> QED
      BY <2>1, <3>2 DEF StaticKernelPick, VariablePlaceInference, IoCopyKernelPick, NextPass
  <2>2. CASE (\E n \in todo : NoCast(n)) \/ UNCHANGED vars
    BY <2>2 DEF NoCast, vars, castVars
  <2> QED
    BY <2>1, <2>2
<1>2. DOMAIN stmt' = Stmts /\ \A s \in Stmts : stmt'[s].op = stmt[s].op
  <2>1. CASE stmt' = stmt
    BY <2>1 DEF Stmts
  <2>2. CASE stmt' # stmt
    <3>1. PICK picked : stmt' = [s \in Stmts |-> [stmt[s] EXCEPT !.kernel = picked[s]]]
      BY <2>2 DEF StaticKernelPick, VariablePlaceInference, IoCopyKernelPick, NoCast, vars, castVars
    <3>2. \A s \in Stmts : DOMAIN stmt[s] = Fields
      BY DEF CastInv, CastingInv, LinksFit
    <3> QED
      BY <3>1, <3>2 DEF Fields
  <2> QED
    BY <2>1, <2>2
<1>3. ChainInv' /\ SourcesKept' /\ \A l, n : Below(l, n)' <=> Below(l, n)
  BY <1>1, <1>2, ChainSame
<1>4. OnceInv'
  <2> SUFFICES ASSUME last > 0 PROVE OnceInv'
    BY <1>1 DEF OnceInv
  <2>1. Level[CastOp[Pass]]' = Level[CastOp[Pass]]
    BY <1>1 DEF Pass
  <2>2. Stmts' = Stmts /\ inlinks' = inlinks
    BY <1>1, <1>2 DEF Stmts, graphVars
  <2> QED
    BY <1>1, <1>3, <2>1, <2>2 DEF OnceInv, SourceInv
<1> QED
  BY <1>3, <1>4 DEF SourceInv

\* Before a cast no cast is put: what a pass visits of them agrees already, and
\* the layout operators it never visits.
LEMMA OnlyOperators ==
  ASSUME CastInv, FitInv, SourceInv, Running, last > 0, NEW n \in todo, ~Agrees(n)
  PROVE  cur \in Stmts /\ ~IsCast(cur)
<1>1. /\ cur \in Stmts /\ n \in inlinks[cur] /\ step \in {3, 7, 9} /\ Pass \in CastFields
  BY FirstSlotFits
<1>2. ASSUME IsCast(cur) PROVE FALSE
  <2>1. stmt[cur].op # "layout"
    <3> SUFFICES ASSUME stmt[cur].op = "layout" PROVE FALSE
      OBVIOUS
    <3>1. LevelStep[Level[stmt[cur].op]] = 9
      BY DEF Level, LevelStep
    <3>2. step = 9 /\ cur > last
      BY <1>1, <1>2, <3>1 DEF SourceInv, ChainInv
    <3> QED
      BY <3>2 DEF CastInv, CursorInv
  <2>2. stmt[cur].in = <<stmt[cur].in[1]>> /\ Converts(cur)
    BY <1>1, <1>2, <2>1 DEF FitInv, CastsInv
  <2>3. DOMAIN stmt[cur].in = {1} /\ stmt[cur].in[1] = n[1]
    <3>1. n[1] \in ToSet(stmt[cur].in)
      BY <1>1 DEF CastInv, CastingInv, LinksFit, NamesOf
    <3> QED
      BY <2>2, <3>1 DEF ToSet
  <2>4. Wanted(n) = stmt[cur].kernel.in[1]
    BY <2>1, <2>3, FirstSlotFits
  <2>5. TypeCompatible(arg[n].type, Wanted(n))
    BY <1>1, <2>2, <2>4 DEF Converts
  <2> QED
    BY <1>1, <2>5, FitsFacts DEF Agrees
<1> QED
  BY <1>1, <1>2

\* The new cast is behind its own output, and nothing is behind the other
\* nodes that was not.
LEMMA BehindNewCast ==
  ASSUME PlainNames, CastInv, FitInv, SourceInv, Running, last > 0, NEW n \in todo, ~Agrees(n),
         NEW k, AddCast(n, k), built' = built, program' = program,
         NEW o, o = <<CastName(n), 0>>
  PROVE  /\ \A m \in DOMAIN arg :
              /\ Producers(m)' = Producers(m) /\ CastSource(m)' = CastSource(m)
              /\ Source(m)' = Source(m) /\ (IsWeight(m)' <=> IsWeight(m))
         /\ Source(o)' = Source(n) /\ ~IsWeight(o)'
<1> DEFINE N == Cardinality(Stmts)
           cast == N + 1
           name == CastName(n)
<1>1. /\ N \in Nat \ {0} /\ built \in 1..N /\ Stmts = 1..N /\ cur \in 1..N
      /\ n \in inlinks[cur] /\ n \in DOMAIN arg /\ name \notin Name
      /\ \A m \in DOMAIN arg : m[1] # name
      /\ DOMAIN inlinks' = 1..cast /\ DOMAIN outlinks' = 1..cast
      /\ inlinks'[cast] = {n} /\ outlinks'[cast] = {o}
      /\ \A s \in (1..N) \ {cur} : inlinks'[s] = inlinks[s]
      /\ \A s \in 1..N : outlinks'[s] = outlinks[s]
  BY CastFacts
<1>2. o[1] = name /\ o \notin DOMAIN arg /\ cast \notin 1..N
      /\ \A s \in 1..cast : s \in 1..N \/ s = cast
  BY <1>1
<1> HIDE DEF name, N, cast
<1>3. CastingInv /\ DOMAIN outlinks = 1..N /\ LinksFit /\ step > 0
  BY <1>1, FirstSlotFits DEF CastInv, CastingInv
<1>4. \A s : IsCast(s)' <=> IsCast(s)
  BY DEF IsCast
<1>5. ASSUME NEW m \in DOMAIN arg
      PROVE  Producers(m)' = Producers(m) /\ (IsWeight(m)' <=> IsWeight(m))
  <2>1. m \notin outlinks'[cast]
    BY <1>1, <1>2
  <2>2. Producers(m)' = Producers(m)
    <3>1. ASSUME NEW s \in 1..cast PROVE m \in outlinks'[s] <=> s \in 1..N /\ m \in outlinks[s]
      BY <1>1, <1>2, <2>1
    <3>2. 1..N \subseteq 1..cast
      BY <1>1 DEF cast
    <3> QED
      BY <1>1, <1>3, <3>1, <3>2 DEF Producers
  <2> QED
    BY <2>2 DEF IsWeight
<1>6. ~IsCast(cur)
  BY OnlyOperators
<1>7. ASSUME NEW m \in DOMAIN arg PROVE CastSource(m)' = CastSource(m)
  <2>1. CASE \A s \in Producers(m) : ~IsCast(s)
    <3>1. \A s \in Producers(m)' : ~IsCast(s)'
      BY <1>4, <1>5, <2>1
    <3> QED
      BY <2>1, <3>1 DEF CastSource
  <2>2. CASE \E s \in Producers(m) : IsCast(s)
    <3>1. PICK s \in Producers(m) : IsCast(s)
      BY <2>2
    <3>2. s \in Stmts /\ m \in outlinks[s]
      BY <1>1, <1>3, <3>1 DEF Producers
    <3>3. Producers(m) = {s}
      BY <1>3, <3>1, <3>2, CastWritesAlone
    <3>4. inlinks'[s] = inlinks[s]
      BY <1>1, <1>6, <3>1, <3>2
    <3>5. PICK q : inlinks[s] = {q}
      BY <1>3, <3>1, <3>2 DEF SourceInv, ChainInv
    <3>6. UNION {inlinks[t] : t \in Producers(m)} = {q} /\ UNION {inlinks'[t] : t \in Producers(m)'} = {q}
      BY <1>5, <3>3, <3>4, <3>5
    <3>7. (\E t \in Producers(m)' : IsCast(t)') /\ \E t \in Producers(m) : IsCast(t)
      BY <1>4, <1>5, <3>1
    <3> QED
      BY <3>6, <3>7 DEF CastSource
  <2> QED
    BY <2>1, <2>2
<1>8. ASSUME NEW m \in DOMAIN arg PROVE CastSource(m) \in DOMAIN arg
  BY <1>3, <1>8, BehindLevels DEF SourceInv
<1>9. ASSUME NEW m \in DOMAIN arg PROVE Source(m)' = Source(m)
  <2>1. CastSource(m)' = CastSource(m) /\ CastSource(m) \in DOMAIN arg
    BY <1>7, <1>8
  <2>2. CastSource(CastSource(m))' = CastSource(CastSource(m)) /\ CastSource(CastSource(m)) \in DOMAIN arg
    BY <1>7, <1>8, <2>1
  <2> QED
    BY <1>7, <2>1, <2>2 DEF Source
<1>10. Producers(o)' = {cast}
  <2>1. \A s \in 1..N : o \notin outlinks[s]
    BY <1>1, <1>2, <1>3 DEF LinksFit, Touches
  <2>2. \A s \in 1..cast : o \in outlinks'[s] <=> s = cast
    BY <1>1, <1>2, <2>1
  <2>3. cast \in 1..cast
    BY <1>1 DEF cast
  <2> QED
    BY <1>1, <2>2, <2>3 DEF Producers
<1>11. CastSource(o)' = n
  <2>1. cast > built
    BY <1>1 DEF cast
  <2>2. \E s \in Producers(o)' : IsCast(s)'
    BY <1>10, <2>1 DEF IsCast
  <2>3. UNION {inlinks'[t] : t \in Producers(o)'} = {n}
    BY <1>1, <1>10
  <2>4. CastSource(o)' = CHOOSE m \in {n} : TRUE
    BY <2>2, <2>3, Zenon DEF CastSource
  <2> QED
    BY <2>4
<1>12. Source(o)' = Source(n)
  <2>1. Below(Level[CastOp[Pass]], n)
    BY DEF SourceInv, OnceInv
  <2>2. Below(3, n)
    <3>1. CastOp[Pass] \in DOMAIN Level
      BY FirstSlotFits, PassLevel
    <3>2. Level[CastOp[Pass]] \in 1..3
      BY <3>1, LevelFacts
    <3>3. ASSUME NEW s \in Producers(n), IsCast(s) PROVE Level[stmt[s].op] < 3
      <4>1. s \in Stmts
        BY <1>1, <1>3, <3>3 DEF Producers
      <4>2. Level[stmt[s].op] \in 1..3
        BY <1>3, <3>3, <4>1, LevelFacts DEF SourceInv, ChainInv
      <4> QED
        BY <2>1, <3>2, <3>3, <4>2 DEF Below
    <3> QED
      BY <3>3 DEF Below
  <2>3. CastSource(CastSource(n)) = Source(n)
    BY <1>3, <2>2, SourceFacts DEF SourceInv
  <2>4. CastSource(CastSource(n))' = CastSource(CastSource(n))
    BY <1>1, <1>7, <1>8
  <2> QED
    BY <1>11, <2>3, <2>4 DEF Source
<1>13. ~IsWeight(o)'
  <2>1. program \in Programs
    BY <1>3 DEF FitInv, TypesInv
  <2>2. program.weights \subseteq Name
    BY <2>1, ProgramsAssumption
  <2>3. o[1] \notin program.weights
    BY <1>1, <1>2, <2>2
  <2> QED
    BY <2>3 DEF IsWeight
<1> QED
  BY <1>5, <1>7, <1>9, <1>12, <1>13

\* An input gets one cast of the pass, and is what it was behind it.
LEMMA SourceCast ==
  ASSUME PlainNames, CastInv, FitInv, SourceInv, Running, last > 0, NEW n \in todo, CastInput(n)
  PROVE  SourceInv' /\ (PersistInv => PersistInv')
<1> DEFINE N == Cardinality(Stmts)
           cast == N + 1
           name == CastName(n)
<1>1. /\ UNCHANGED <<program, built, latest, step, failed, linked, cur, last>>
      /\ todo' = todo \ {n} /\ ~Agrees(n) /\ \E k : AddCast(n, k)
      /\ step \in {3, 7, 9} /\ step > 0
  BY FirstSlotFits DEF CastInput
<1>2. PICK k, o, level :
        AddCast(n, k) /\ o = <<CastName(n), 0>> /\ level = Level[CastOp[Pass]]
  BY <1>1
<1>3. /\ N \in Nat \ {0} /\ built \in 1..N /\ Stmts = 1..N /\ cur \in 1..N
      /\ n \in inlinks[cur] /\ n \in DOMAIN arg
      /\ DOMAIN arg' = DOMAIN arg \cup {o} /\ \A m \in DOMAIN arg : arg'[m] = arg[m]
      /\ arg'[o] = [type |-> [arg[n].type EXCEPT ![Pass] = Wanted(n)[Pass]],
                      is_persist |-> Persist(n)]
  BY <1>2, CastFacts
<1>4. /\ inlinks'[cur] = (inlinks[cur] \ {n}) \cup {o} /\ inlinks'[cast] = {n}
      /\ \A s \in (1..N) \ {cur} : inlinks'[s] = inlinks[s]
      /\ Stmts' = 1..cast
      /\ stmt'[cast] = [op |-> CastOp[Pass], once |-> Persist(n), in |-> <<n[1]>>,
                        out |-> <<name>>, kernel |-> Handed(k)]
      /\ stmt'[cur] = [stmt[cur] EXCEPT !.in = UpdateInputTo(stmt[cur].in, n[1], name)]
      /\ \A s \in (1..N) \ {cur} : stmt'[s] = stmt[s]
  BY <1>2, CastFacts
<1>5. /\ \A m \in DOMAIN arg :
           /\ Producers(m)' = Producers(m) /\ Source(m)' = Source(m) /\ (IsWeight(m)' <=> IsWeight(m))
      /\ Source(o)' = Source(n) /\ ~IsWeight(o)'
  BY <1>1, <1>2, BehindNewCast
<1>6. cast \notin 1..N /\ cast \in Nat /\ \A s \in 1..cast : s \in (1..N) \ {cur} \/ s = cur \/ s = cast
  BY <1>3
<1> HIDE DEF N, cast, name
<1>7. ~IsCast(cur) /\ cur # cast
  BY <1>1, <1>3, <1>6, OnlyOperators
<1>8. /\ \A s \in 1..N : stmt'[s].op = stmt[s].op /\ stmt'[s].once = stmt[s].once
      /\ stmt'[cast].op = CastOp[Pass] /\ stmt'[cast].once = Persist(n)
  <2>1. DOMAIN stmt[cur] = Fields
    BY <1>1, <1>3 DEF CastInv, CastingInv, LinksFit
  <2>2. stmt'[cur].op = stmt[cur].op /\ stmt'[cur].once = stmt[cur].once
    BY <1>4, <2>1 DEF Fields
  <2>3. stmt'[cast].op = CastOp[Pass]
    BY <1>4
  <2>5. stmt'[cast].once = Persist(n)
    BY <1>4
  <2>4. \A s \in (1..N) \ {cur} : stmt'[s].op = stmt[s].op /\ stmt'[s].once = stmt[s].once
    BY <1>4
  <2> QED
    BY <2>2, <2>3, <2>4, <2>5
<1>9. /\ \A s \in 1..N : \A m \in inlinks[s] : m \in DOMAIN arg
      /\ Stmts = DOMAIN outlinks /\ Stmts = DOMAIN inlinks
  BY <1>1, <1>3 DEF CastInv, CastingInv, LinksFit, Touches
<1>10. \A s : IsCast(s)' <=> IsCast(s)
  BY <1>1 DEF IsCast
<1>11. ASSUME NEW l, NEW m \in DOMAIN arg PROVE Below(l, m)' <=> Below(l, m)
  <2>1. \A s \in Producers(m) : stmt'[s].op = stmt[s].op
    BY <1>3, <1>8, <1>9 DEF Producers
  <2>2. Producers(m)' = Producers(m)
    BY <1>5
  <2> QED
    BY <1>10, <2>1, <2>2 DEF Below
<1>12. CastOp[Pass] \in DOMAIN Level /\ LevelStep[level] = step /\ Level[CastOp[Pass]]' = level
  BY <1>1, <1>2, PassLevel DEF Pass
<1>13. Below(level, n)
  BY <1>1, <1>2 DEF SourceInv, OnceInv
<1>14. last \in 1..N /\ last' = last /\ cur \in Nat /\ cur <= last
  BY <1>1, <1>3 DEF CastInv, CursorInv
<1>15. ChainInv'
  <2>1. ASSUME NEW s \in 1..cast, IsCast(s)
        PROVE  /\ stmt'[s].op \in DOMAIN Level
               /\ \E m \in inlinks'[s] : inlinks'[s] = {m} /\ Below(Level[stmt[s].op], m)'
               /\ LevelStep[Level[stmt'[s].op]] <= step'
               /\ LevelStep[Level[stmt'[s].op]] = step' => last' > 0 /\ s > last'
    <3>1. CASE s \in (1..N) \ {cur}
      <4>1. /\ stmt[s].op \in DOMAIN Level
            /\ \E m \in inlinks[s] : inlinks[s] = {m} /\ Below(Level[stmt[s].op], m)
            /\ LevelStep[Level[stmt[s].op]] <= step
            /\ LevelStep[Level[stmt[s].op]] = step => last > 0 /\ s > last
        BY <1>1, <1>3, <2>1, <3>1 DEF SourceInv, ChainInv
      <4>2. PICK m \in inlinks[s] : inlinks[s] = {m} /\ Below(Level[stmt[s].op], m)
        BY <4>1
      <4>3. Below(Level[stmt[s].op], m)'
        <5>1. m \in DOMAIN arg
          BY <1>9, <3>1
        <5>2. Below(Level[stmt[s].op], m) /\ stmt'[s].op = stmt[s].op
          BY <1>8, <3>1, <4>2
        <5>3. \A r \in Producers(m) : stmt'[r].op = stmt[r].op
          BY <1>3, <1>8, <1>9 DEF Producers
        <5>4. Producers(m)' = Producers(m)
          BY <1>5, <5>1
        <5> QED
          BY <1>10, <5>2, <5>3, <5>4 DEF Below
      <4> QED
        BY <1>1, <1>4, <1>8, <3>1, <4>1, <4>2, <4>3
    <3>2. CASE s = cast
      <4>1. Below(level, n)'
        BY <1>3, <1>11, <1>12, <1>13
      <4> QED
        <5>1. /\ stmt'[s].op = CastOp[Pass] /\ Level[stmt'[s].op] = level /\ inlinks'[s] = {n}
              /\ s > last' /\ last' > 0 /\ step' = step
          BY <1>1, <1>2, <1>3, <1>4, <1>14, <3>2 DEF cast
        <5>2. Below(Level[stmt[s].op], n)'
          BY <4>1, <5>1 DEF Below
        <5> QED
          BY <1>1, <1>12, <5>1, <5>2
    <3> QED
      BY <1>6, <1>7, <2>1, <3>1, <3>2
  <2> QED
    BY <1>4, <1>10, <2>1 DEF ChainInv
<1>16. OnceInv'
  <2>1. ASSUME NEW m \in todo' PROVE Below(level, m)'
    <3>1. m \in todo /\ m \in DOMAIN arg
      BY <1>1, <1>3, <1>9, <2>1 DEF CastInv, CursorInv
    <3>2. Below(level, m)
      BY <1>1, <3>1, <1>2 DEF SourceInv, OnceInv
    <3> QED
      BY <1>11, <1>12, <3>1, <3>2
  <2>2. ASSUME NEW s \in 1..cast, cur < s, s <= last, NEW m \in inlinks'[s] PROVE Below(level, m)'
    <3>1. s \in (1..N) \ {cur}
      BY <1>3, <1>6, <1>14, <2>2
    <3>2. m \in inlinks[s] /\ m \in DOMAIN arg
      BY <1>4, <1>9, <2>2, <3>1
    <3>3. Below(level, m)
      BY <1>1, <1>3, <2>2, <3>1, <3>2, <1>2 DEF SourceInv, OnceInv
    <3> QED
      BY <1>11, <1>12, <3>2, <3>3
  <2> QED
    BY <1>1, <1>4, <1>12, <2>1, <2>2, <1>2 DEF OnceInv
<1>17. SourcesKept'
  <2> SUFFICES ASSUME NEW s \in 1..built PROVE {Source(m)' : m \in inlinks'[s]} = linked[s]
    BY <1>1 DEF SourcesKept
  <2>1. {Source(m) : m \in inlinks[s]} = linked[s] /\ s \in 1..N
    BY <1>1, <1>3 DEF SourceInv, SourcesKept
  <2>2. ASSUME NEW m \in inlinks[s] PROVE Source(m)' = Source(m)
    BY <1>5, <1>9, <2>1, <2>2
  <2>3. CASE s # cur
    BY <1>4, <2>1, <2>2, <2>3
  <2>4. CASE s = cur
    <3>1. inlinks'[s] = (inlinks[s] \ {n}) \cup {o} /\ n \in inlinks[s]
      BY <1>3, <1>4, <2>4
    <3>2. ASSUME NEW m \in inlinks'[s] PROVE Source(m)' \in linked[s]
      <4>1. CASE m \in inlinks[s]
        BY <2>1, <2>2, <4>1
      <4>2. CASE m = o
        <5>1. Source(m)' = Source(n)
          BY <1>5, <4>2
        <5> QED
          BY <2>1, <3>1, <5>1
      <4> QED
        BY <3>1, <4>1, <4>2
    <3>3. ASSUME NEW x \in linked[s] PROVE \E m \in inlinks'[s] : Source(m)' = x
      <4>1. PICK m \in inlinks[s] : Source(m) = x
        BY <2>1
      <4>2. CASE m = n
        BY <1>5, <3>1, <4>1, <4>2
      <4>3. CASE m # n
        BY <2>2, <3>1, <4>1, <4>3
      <4> QED
        BY <4>2, <4>3
    <3> QED
      BY <3>2, <3>3
  <2> QED
    BY <2>3, <2>4
<1>18. ASSUME PersistInv PROVE PersistInv'
  <2>1. /\ \A m \in DOMAIN arg : Persist(m) <=> FromWeight(m)
        /\ \A s \in Stmts : IsCast(s) => \A m \in inlinks[s] : stmt[s].once <=> Persist(m)
    BY <1>1, <1>18 DEF PersistInv
  <2>2. ASSUME NEW m \in DOMAIN arg PROVE Persist(m)' <=> Persist(m)
    BY <1>3, <1>5, <2>2 DEF Persist
  <2>3. \A m \in DOMAIN arg : Source(m) \in DOMAIN arg
    BY <1>1, SourceFacts DEF SourceInv
  <2>4. ASSUME NEW m \in DOMAIN arg' PROVE Persist(m)' <=> FromWeight(m)'
    <3>1. CASE m \in DOMAIN arg
      <4>1. Source(m)' = Source(m) /\ (IsWeight(Source(m))' <=> IsWeight(Source(m)))
            /\ Producers(Source(m))' = Producers(Source(m))
        BY <1>5, <2>3, <3>1
      <4> QED
        BY <2>1, <2>2, <3>1, <4>1 DEF FromWeight
    <3>2. CASE m = o
      <4>1. Source(m)' = Source(n) /\ ~IsWeight(m)'
        BY <1>1, <1>2, <3>2, BehindNewCast
      <4>2. (IsWeight(Source(n))' <=> IsWeight(Source(n)))
            /\ Producers(Source(n))' = Producers(Source(n)) /\ Source(n)' = Source(n)
        BY <1>3, <1>5, <2>3
      <4>3. arg'[m].is_persist = Persist(n)
        BY <1>3, <3>2
      <4>4. Persist(m)' <=> Persist(n)
        BY <4>1, <4>3 DEF Persist
      <4> QED
        <5>1. Persist(n) <=> FromWeight(n)
          BY <1>3, <2>1
        <5>2. FromWeight(m)' <=> FromWeight(n)
          BY <4>1, <4>2 DEF FromWeight, IsWeight, Producers
        <5> QED
          BY <4>4, <5>1, <5>2
    <3> QED
      BY <1>3, <2>4, <3>1, <3>2
  <2>5. ASSUME NEW s \in 1..cast, IsCast(s), NEW m \in inlinks'[s] PROVE stmt'[s].once <=> Persist(m)'
    <3>1. CASE s \in (1..N) \ {cur}
      <4>1. m \in inlinks[s] /\ m \in DOMAIN arg
        BY <1>4, <1>9, <2>5, <3>1
      <4> QED
        BY <1>3, <1>8, <2>1, <2>2, <2>5, <3>1, <4>1
    <3>2. CASE s = cast
      BY <1>3, <1>4, <1>8, <2>2, <2>5, <3>2
    <3> QED
      BY <1>6, <1>7, <2>5, <3>1, <3>2
  <2> QED
    BY <1>4, <1>10, <2>4, <2>5 DEF PersistInv
<1> QED
  BY <1>15, <1>16, <1>17, <1>18 DEF SourceInv

\* The other steps write no statement and nothing that is persistent.
LEMMA PersistSame ==
  ASSUME CastInv, ChainInv, PersistInv, step > 0, UNCHANGED graphVars,
         DOMAIN stmt' = Stmts, \A s \in Stmts : stmt'[s].once = stmt[s].once,
         DOMAIN arg' = DOMAIN arg, \A n \in DOMAIN arg : arg'[n].is_persist = arg[n].is_persist
  PROVE  PersistInv'
<1>1. /\ \A n \in DOMAIN arg : Persist(n) <=> FromWeight(n)
      /\ \A s \in Stmts : IsCast(s) => \A n \in inlinks[s] : stmt[s].once <=> Persist(n)
  BY DEF PersistInv
<1>2. \A n : FromWeight(n)' <=> FromWeight(n)
  BY GraphSame DEF FromWeight
<1>3. \A n \in DOMAIN arg : Persist(n)' <=> Persist(n)
  BY GraphSame DEF Persist
<1>4. Stmts' = Stmts /\ inlinks' = inlinks /\ \A s \in Stmts : inlinks[s] \subseteq DOMAIN arg
  BY DEF Stmts, graphVars, CastInv, CastingInv, LinksFit, Touches
<1>5. ASSUME NEW s \in Stmts, IsCast(s), NEW n \in inlinks[s] PROVE stmt'[s].once <=> Persist(n)'
  BY <1>1, <1>3, <1>4, <1>5
<1> QED
  BY <1>1, <1>2, <1>3, <1>4, <1>5, GraphSame DEF PersistInv

LEMMA NextSourceInv ==
  ASSUME PlainNames
  PROVE  CastInv /\ FitInv /\ SourceInv /\ [CastNext]_vars => SourceInv'
<1> SUFFICES ASSUME CastInv, FitInv, SourceInv, [CastNext]_vars PROVE SourceInv'
  OBVIOUS
<1>1. CASE step = 0
  <2>1. CASE RunPasses
    BY <2>1, SourceStart
  <2>2. CASE ~RunPasses
    <3>1. last = 0 /\ step' = 0 /\ last' = 0
      <4>1. last = 0
        BY <1>1 DEF CastInv, BuildingInv
      <4>2. CASE CastNext
        <5>1. BuildGraph \/ Running
          BY <2>2, <4>1, <4>2 DEF CastNext, StaticKernelPick, VariablePlaceInference,
             IoCopyKernelPick, BeginCast, NextStmt, EndCast, ComplementInput
        <5>2. ~Running
          BY <1>1, StepFacts
        <5> QED
          BY <1>1, <4>1, <5>1, <5>2 DEF BuildGraph, castVars
      <4>3. CASE UNCHANGED vars
        BY <1>1, <4>1, <4>3 DEF vars, castVars
      <4> QED
        BY <4>1, <4>2, <4>3
    <3> QED
      BY <3>1 DEF SourceInv, ChainInv, OnceInv, SourcesKept
  <2> QED
    BY <2>1, <2>2
<1>2. CASE step > 0
  <2>1. CASE StaticKernelPick \/ VariablePlaceInference \/ IoCopyKernelPick \/ UNCHANGED vars
    BY <1>2, <2>1, SourceIdle
  <2>2. CASE BeginCast \/ NextStmt \/ EndCast
    BY <2>2, SourceLoop
  <2>3. CASE ComplementInput
    <3>1. PICK n \in todo : Running /\ last > 0 /\ (KeepInput(n) \/ CastInput(n) \/ NoCast(n))
      BY <2>3 DEF ComplementInput
    <3>2. CASE KeepInput(n)
      BY <3>1, <3>2, SourceLoop
    <3>3. CASE CastInput(n)
      BY <3>1, <3>3, SourceCast
    <3>4. CASE NoCast(n)
      BY <1>2, <3>1, <3>4, SourceIdle
    <3> QED
      BY <3>1, <3>2, <3>3, <3>4
  <2>4. ~BuildGraph /\ ~RunPasses
    BY <1>2 DEF BuildGraph, RunPasses
  <2> QED
    BY <2>1, <2>2, <2>3, <2>4 DEF CastNext
<1> QED
  BY <1>1, <1>2 DEF CastInv, CursorInv

LEMMA ProgramStays ==
  ASSUME [CastNext]_vars
  PROVE  program' = program
BY DEF CastNext, BuildGraph, BuildOp, RunPasses, StaticKernelPick, VariablePlaceInference,
   IoCopyKernelPick, BeginCast, NextStmt, EndCast, ComplementInput, KeepInput, CastInput, NoCast,
   vars, graphVars

LEMMA NextPersistInv ==
  ASSUME PlainNames
  PROVE  CastInv /\ FitInv /\ SourceInv /\ PersistInv /\ ReadsWeights(program) /\ [CastNext]_vars
           => PersistInv'
<1> SUFFICES ASSUME CastInv, FitInv, SourceInv, PersistInv, ReadsWeights(program), [CastNext]_vars
             PROVE  PersistInv'
  OBVIOUS
<1>1. CASE RunPasses
  BY <1>1, SourceStart
<1>2. CASE BuildGraph
  BY <1>2 DEF BuildGraph, castVars, PersistInv
<1>3. CASE ComplementInput /\ \E n \in todo : CastInput(n)
  <2>1. PICK n \in todo : CastInput(n)
    BY <1>3
  <2>2. Running /\ last > 0
    BY <1>3 DEF ComplementInput
  <2> QED
    BY <2>1, <2>2, SourceCast
<1>4. CASE ~RunPasses /\ ~BuildGraph /\ ~(ComplementInput /\ \E n \in todo : CastInput(n))
  <2>1. CASE step = 0 /\ UNCHANGED vars
    BY <2>1 DEF vars, castVars, PersistInv
  <2>2. CASE ~(step = 0 /\ UNCHANGED vars)
    <3>1. step > 0
      <4>1. UNCHANGED vars => step > 0
        BY <2>2 DEF CastInv, CursorInv
      <4>2. CASE CastNext
        <5>1. Running \/ last > 0
          BY <1>4, <4>2 DEF CastNext, StaticKernelPick, VariablePlaceInference,
             IoCopyKernelPick, BeginCast, NextStmt, EndCast, ComplementInput
        <5>2. last > 0 => step > 0
          BY DEF CastInv, BuildingInv, CursorInv
        <5> QED
          BY <5>1, <5>2, StepFacts
      <4> QED
        BY <4>1, <4>2
    <3>2. UNCHANGED graphVars
      BY <1>4 DEF CastNext, StaticKernelPick, VariablePlaceInference, IoCopyKernelPick, BeginCast,
         NextStmt, EndCast, ComplementInput, KeepInput, NoCast, vars
    <3>3. \/ StaticKernelPick \/ VariablePlaceInference
          \/ UNCHANGED <<stmt, arg>>
      BY <1>4 DEF CastNext, IoCopyKernelPick, BeginCast,
         NextStmt, EndCast, ComplementInput, KeepInput, NoCast, vars, castVars
    <3>4. DOMAIN stmt' = Stmts /\ \A s \in Stmts : stmt'[s].once = stmt[s].once
      <4>1. CASE stmt' = stmt
        BY <4>1 DEF Stmts
      <4>2. CASE stmt' # stmt
        <5>1. PICK picked : stmt' = [s \in Stmts |-> [stmt[s] EXCEPT !.kernel = picked[s]]]
          BY <3>3, <4>2 DEF StaticKernelPick, VariablePlaceInference
        <5>2. \A s \in Stmts : DOMAIN stmt[s] = Fields
          BY <3>1 DEF CastInv, CastingInv, LinksFit
        <5> QED
          BY <5>1, <5>2 DEF Fields
      <4> QED
        BY <4>1, <4>2
    <3>5. DOMAIN arg' = DOMAIN arg /\ \A n \in DOMAIN arg : arg'[n].is_persist = arg[n].is_persist
      <4>1. CASE arg' = arg
        BY <4>1
      <4>2. CASE arg' # arg
        <5>1. PICK order : arg' = Inferred(order)
          BY <3>3, <4>2 DEF StaticKernelPick, VariablePlaceInference
        <5>2. \A n \in DOMAIN arg : DOMAIN arg[n] = {"type", "is_persist"}
          BY <3>1 DEF FitInv, TypesInv
        <5> QED
          BY <5>1, <5>2 DEF Inferred
      <4> QED
        BY <4>1, <4>2
    <3> QED
      BY <3>1, <3>2, <3>4, <3>5, PersistSame DEF SourceInv
  <2> QED
    BY <2>1, <2>2
<1> QED
  BY <1>1, <1>2, <1>3, <1>4

(* Behind its casts every operator still reads the versions the graph had  *)
(* linked it to: a pass puts at most one cast before an input, and none    *)
(* before a cast, so that three looks back end at the node of the graph.   *)
THEOREM SourcesAreKept ==
  ASSUME PlainNames
  PROVE  CastSpec => []SourcesKept
<1>1. CastInv /\ FitInv /\ [CastNext]_vars => CastInv' /\ FitInv'
  BY NextFitInv
<1>2. CastInv /\ FitInv /\ SourceInv /\ [CastNext]_vars => SourceInv'
  BY NextSourceInv
<1>3. SourceInv => SourcesKept
  BY DEF SourceInv
<1> QED
  BY <1>1, <1>2, <1>3, InitCastInv, FitInit, SourceInit, PTL DEF CastSpec

(* A cast runs once exactly when what it copies comes from a weight, in    *)
(* every program that writes no weight.                                    *)
THEOREM RunsOnceFromWeights ==
  ASSUME PlainNames
  PROVE  CastSpec => [](ReadsWeights(program) => OnceFromWeights)
<1>1. CastInv /\ FitInv /\ [CastNext]_vars => CastInv' /\ FitInv'
  BY NextFitInv
<1>2. CastInv /\ FitInv /\ SourceInv /\ [CastNext]_vars => SourceInv'
  BY NextSourceInv
<1> DEFINE Inv == ReadsWeights(program) => PersistInv
<1>3. CastInv /\ FitInv /\ SourceInv /\ Inv /\ [CastNext]_vars => Inv'
  <2> SUFFICES ASSUME CastInv, FitInv, SourceInv, Inv, [CastNext]_vars, ReadsWeights(program)'
               PROVE  PersistInv'
    OBVIOUS
  <2>1. program' = program
    BY ProgramStays
  <2> QED
    BY <2>1, NextPersistInv DEF ReadsWeights
<1>4. CastInv /\ SourceInv /\ Inv => (ReadsWeights(program) => OnceFromWeights)
  <2> SUFFICES ASSUME CastInv, SourceInv, PersistInv, step > 0, NEW s \in Stmts, IsCast(s),
                      NEW n \in inlinks[s]
               PROVE  stmt[s].once <=> IsWeight(Source(n)) /\ Producers(Source(n)) = {}
    BY DEF OnceFromWeights
  <2>1. n \in DOMAIN arg
    BY DEF CastInv, CastingInv, LinksFit, Touches
  <2>2. (stmt[s].once <=> Persist(n)) /\ (Persist(n) <=> FromWeight(n))
    BY <2>1 DEF PersistInv
  <2> QED
    BY <2>2 DEF FromWeight
<1>5. CastInit => Inv
  BY SourceInit
<1> QED
  BY <1>1, <1>2, <1>3, <1>4, <1>5, InitCastInv, FitInit, SourceInit, PTL DEF CastSpec

-----------------------------------------------------------------------------
(* What is int8.                                                           *)

\* The versions are the graph's, and the passes do not touch them.
LEMMA Int8Start ==
  ASSUME CastInv, FitInv, RunPasses
  PROVE  Int8Inv'
<1>1. /\ step = 0 /\ step' = 1 /\ UNCHANGED graphVars /\ BuildInv /\ GraphTypeOK
      /\ built = Len(program.ops)
  BY DEF RunPasses, NextPass, CastInv, BuildingInv, BuildInv, GraphBuilt
<1>2. DOMAIN inlinks = 1..built /\ DOMAIN program.ops = 1..built /\ program \in Programs
  <2>1. program \in Programs /\ DOMAIN inlinks = 1..built
    BY <1>1 DEF GraphTypeOK
  <2>2. program.ops \in Seq(Operator)
    BY <2>1, ProgramsAssumption
  <2> QED
    BY <1>1, <2>1, <2>2
<1>3. BoundToLastWriter'
  <2>1. BoundToLastWriter
    BY <1>1 DEF BuildInv, LinksInv, IsLastOf, BoundToLastWriter
  <2> QED
    BY <1>1, <2>1 DEF BoundToLastWriter, WritersBefore, Producers, graphVars
<1>4. \A s \in 1..built : stmt'[s].op \notin DOMAIN Level
  <2> SUFFICES ASSUME NEW s \in 1..built PROVE stmt'[s].op \notin DOMAIN Level
    OBVIOUS
  <2>1. stmt'[s].op = program.ops[s].type
    BY <1>2 DEF RunPasses
  <2>2. program.ops[s].type \notin {"io_copy", "calib", "layout"}
    BY <1>2, KernelFacts
  <2> QED
    BY <2>1, <2>2, LevelFacts
<1>5. Stmts' = 1..built /\ built' = built
  BY <1>1, <1>2 DEF RunPasses, Stmts, graphVars
<1>6. NeverDequantizes'
  <2>1. \A s \in Stmts' : stmt'[s].op # "calib"
    BY <1>4, <1>5, LevelFacts
  <2> QED
    BY <2>1 DEF NeverDequantizes
<1> QED
  BY <1>1, <1>3, <1>4, <1>5, <1>6 DEF Int8Inv

LEMMA OutputSlots ==
  ASSUME NEW p \in Programs, NEW s \in DOMAIN p.ops, NEW kernel \in p.desc[s].kernels,
         NEW k \in DOMAIN p.desc[s].out
  PROVE  k \in DOMAIN kernel.out
<1> HIDE DEF IsType
<1> QED
  BY KernelAssumption, Zenon

\* The order puts the operator that wrote a node before those that read it, so
\* that the node has the type its writer declares.
LEMMA WriterFirst ==
  ASSUME CastInv, FitInv, Int8Inv, step = 2, NEW order \in TopologicalOrders,
         NEW t \in Stmts, NEW n \in inlinks[t]
  PROVE  LET p == FirstAt(order, n) IN
         \/ Producers(n) = {} /\ p \in Stmts /\ n \in inlinks[p]
         \/ p \in Stmts /\ n \in outlinks[p] /\ n \notin inlinks[p]
<1> DEFINE N == Cardinality(Stmts)
           at == {k \in DOMAIN order : n \in Touches(order[k]) /\ stmt[order[k]].op # "io_copy"}
           first == CHOOSE k \in at : \A l \in at : k <= l
           p == order[first]
<1>1. /\ N \in Nat /\ Stmts = 1..N /\ Stmts = DOMAIN inlinks /\ Stmts = DOMAIN outlinks
      /\ Stmts = 1..built
  BY DEF CastInv, CastingInv, FitInv, OperatorsInv
<1>2. /\ DOMAIN order = 1..N /\ \A k \in 1..N : order[k] \in Stmts
      /\ \A i, j \in 1..N : order[i] = order[j] => i = j
      /\ \A s \in Stmts : \E k \in 1..N : order[k] = s
  <2>1. order \in [1..N -> Stmts] /\ \A i, j \in 1..N : i # j => order[i] # order[j]
    BY DEF TopologicalOrders, SetToSeqs
  <2>2. order \in Injection(1..N, Stmts)
    BY <2>1 DEF Injection, IsInjective
  <2>3. IsFiniteSet(Stmts) /\ Cardinality(1..N) = N
    BY <1>1, FS_Interval
  <2>4. order \in Surjection(1..N, Stmts)
    BY <2>2, <2>3, FS_Injection
  <2> QED
    BY <2>1, <2>4 DEF Surjection
<1>3. \A s \in Stmts : stmt[s].op # "io_copy"
  BY <1>1, LevelFacts DEF Int8Inv
<1>4. at = {k \in 1..N : n \in Touches(order[k])}
  BY <1>2, <1>3
<1>5. first \in at /\ \A l \in at : first <= l
  <2>1. PICK k \in 1..N : order[k] = t
    BY <1>2
  <2>2. k \in at
    BY <1>4, <2>1 DEF Touches
  <2>3. at \subseteq Nat
    BY <1>4
  <2>4. \E i \in at : \A l \in at : i <= l
    BY <2>2, <2>3, FirstOf
  <2> QED
    BY <2>4
<1>6. FirstAt(order, n) = p
  BY DEF FirstAt
<1> HIDE DEF first, at, N
<1>7. p \in Stmts /\ n \in Touches(p) /\ first \in 1..N
  BY <1>2, <1>4, <1>5
\* What an operator reads was written earlier in the order.
<1>8. ASSUME NEW k \in 1..N, n \in inlinks[order[k]], NEW q \in Producers(n)
      PROVE  \E l \in 1..(k - 1) : order[l] = q
  <2>1. q \in AdjList[order[k]]
    <3>1. order[k] \in DOMAIN inlinks
      BY <1>1, <1>2
    <3>2. AdjList[order[k]] = UNION {Producers(m) : m \in inlinks[order[k]]}
      BY <3>1 DEF AdjList
    <3> QED
      BY <1>8, <3>2
  <2>2. AdjList[order[k]] \subseteq {order[l] : l \in 1..(k - 1)}
    BY <1>2 DEF TopologicalOrders
  <2> QED
    BY <2>1, <2>2
<1>9. n \notin inlinks[p] \/ Producers(n) = {}
  <2> SUFFICES ASSUME n \in inlinks[p], NEW q \in Producers(n) PROVE FALSE
    OBVIOUS
  <2>1. PICK l \in 1..(first - 1) : order[l] = q
    BY <1>7, <1>8
  <2>2. l \in 1..N /\ ~(first <= l)
    BY <1>1, <1>7, <2>1
  <2>3. n \in outlinks[q]
    BY DEF Producers
  <2>4. l \in at
    BY <1>4, <2>1, <2>2, <2>3 DEF Touches
  <2> QED
    BY <1>5, <2>2, <2>4
<1>10. CASE Producers(n) = {}
  <2>1. n \notin outlinks[p]
    BY <1>1, <1>7, <1>10 DEF Producers
  <2> QED
    BY <1>6, <1>7, <1>10, <2>1 DEF Touches
<1>11. CASE n \notin inlinks[p]
  BY <1>6, <1>7, <1>11 DEF Touches
<1> QED
  BY <1>9, <1>10, <1>11

\* Who reads int8 takes it: the operator that wrote it asked all of its readers,
\* and what nobody wrote is not int8.
LEMMA Int8Declared ==
  ASSUME CastInv, FitInv, Int8Inv, Int8Apart(program), step = 2, NEW order \in TopologicalOrders,
         NEW t \in Stmts, NEW n \in inlinks[t], ~IsWeight(n),
         Declared(FirstAt(order, n), n).precision = "int8"
  PROVE  TakesInt8(t, n)
<1> DEFINE p == FirstAt(order, n)
           kernel == stmt[p].kernel
<1>1. /\ program \in Programs /\ DOMAIN program.ops = Stmts /\ LinksFit
      /\ Stmts = 1..built /\ Stmts = DOMAIN inlinks /\ built \in Nat
  BY DEF CastInv, CastingInv, FitInv, OperatorsInv
<1>2. ASSUME NEW s \in Stmts
      PROVE  /\ stmt[s].in = program.desc[s].in /\ stmt[s].out = program.desc[s].out
             /\ stmt[s].kernel \in Pickable(s) /\ stmt[s].kernel \in program.desc[s].kernels
             /\ \E m \in Nat : DOMAIN stmt[s].in = 1..m
             /\ \E m \in Nat : DOMAIN stmt[s].out = 1..m
  <2>1. program.desc[s].out \in Seq(Name)
    BY <1>1, DescAssumption
  <2>2. Len(program.desc[s].out) \in Nat /\ DOMAIN program.desc[s].out = 1..Len(program.desc[s].out)
    BY <2>1
  <2>3. stmt[s].in = program.desc[s].in /\ stmt[s].out = program.desc[s].out
        /\ stmt[s].kernel \in program.desc[s].kernels
    BY DEF FitInv, OperatorsInv
  <2>4. stmt[s].kernel \in Pickable(s)
    BY DEF Int8Inv
  <2>5. \E m \in Nat : DOMAIN stmt[s].in = 1..m
    BY DEF FitInv, SlotsInv
  <2> QED
    BY <2>2, <2>3, <2>4, <2>5
<1>3. p \in Stmts /\ (\/ Producers(n) = {} /\ n \in inlinks[p]
                      \/ n \in outlinks[p] /\ n \notin inlinks[p])
  BY WriterFirst
<1> HIDE DEF p
\* An int8 operator takes the input at whatever slot.
<1>4. ASSUME program.desc[t].int8 PROVE TakesInt8(t, n)
  <2> SUFFICES ASSUME NEW k \in DOMAIN stmt[t].in, stmt[t].in[k] = n[1]
               PROVE  stmt[t].kernel.in[k].precision \in {"int8", "any"}
    BY DEF TakesInt8
  <2>1. program.desc[t].in[k] \notin program.weights /\ k \in DOMAIN program.desc[t].in
    BY <1>2 DEF IsWeight
  <2> QED
    BY <1>1, <1>2, <1>4, <2>1 DEF Int8Apart
<1>5. CASE Producers(n) = {} /\ n \in inlinks[p]
  <2> DEFINE slot == SlotOf(stmt[p].in, n[1])
  <2>1. n[1] \in ToSet(stmt[p].in)
    BY <1>1, <1>3, <1>5 DEF LinksFit, NamesOf
  <2>2. slot \in DOMAIN stmt[p].in /\ stmt[p].in[slot] = n[1]
    BY <1>2, <1>3, <2>1, SlotOfFacts
  <2>3. kernel.in[slot].precision = "int8"
    BY <1>5 DEF Declared, p
  <2>4. program.desc[p].in[slot] \notin program.weights /\ slot \in DOMAIN program.desc[p].in
        /\ program.desc[p].in[slot] = n[1]
    BY <1>2, <1>3, <2>2 DEF IsWeight
  <2> HIDE DEF slot
  <2>5. \E u \in 1..(p - 1) : n[1] \in program.ops[u].out
    BY <1>1, <1>2, <1>3, <2>3, <2>4 DEF Int8Apart
  <2>6. WritersBefore(p, n[1]) # {}
    BY <2>5 DEF WritersBefore
  <2>7. BoundToLastWriter /\ p \in 1..built
    BY <1>1, <1>3 DEF Int8Inv
  <2>8. \E u \in Producers(n) : TRUE
    BY <1>5, <2>6, <2>7 DEF BoundToLastWriter
  <2> QED
    BY <1>5, <2>8
<1>6. CASE n \in outlinks[p] /\ n \notin inlinks[p]
  <2> DEFINE slot == SlotOf(stmt[p].out, n[1])
  <2>1. n[1] \in ToSet(stmt[p].out)
    BY <1>1, <1>3, <1>6 DEF LinksFit, NamesOf
  <2>2. slot \in DOMAIN stmt[p].out
    BY <1>2, <1>3, <2>1, SlotOfFacts
  <2>3. kernel.out[slot].precision = "int8"
    BY <1>6 DEF Declared, p
  <2>4. slot \in DOMAIN program.desc[p].out
    BY <1>2, <1>3, <2>2
  <2> HIDE DEF slot
  <2>5. program.desc[p].int8
    BY <1>1, <1>2, <1>3, <2>3, <2>4 DEF Int8Apart
  <2>6. slot \in DOMAIN kernel.out
    BY <1>1, <1>2, <1>3, <2>4, OutputSlots
  <2>7. WritesInt8(p)
    BY <1>2, <1>3, <2>3, <2>5, <2>6 DEF Pickable
  <2>8. t \in Readers(p)
    BY <1>1, <1>6 DEF Readers, Consumers
  <2>9. program.desc[t].int8
    BY <2>7, <2>8 DEF WritesInt8
  <2> QED
    BY <1>4, <2>9
<1> QED
  BY <1>3, <1>5, <1>6

LEMMA Int8Pick ==
  ASSUME CastInv, FitInv, Int8Inv, StaticKernelPick
  PROVE  Int8Inv'
<1>1. /\ step = 1 /\ UNCHANGED graphVars /\ step' \in {1, 2}
      /\ step' = 1 => UNCHANGED stmt
      /\ \A s \in Stmts : DOMAIN stmt[s] = Fields
      /\ Stmts = 1..built /\ Stmts = DOMAIN inlinks
  BY StepFacts DEF StaticKernelPick, NextPass, CastInv, CastingInv, LinksFit, FitInv, OperatorsInv
<1>2. built' = built /\ inlinks' = inlinks /\ outlinks' = outlinks /\ program' = program
  BY <1>1 DEF graphVars
<1>3. BoundToLastWriter'
  BY <1>1, <1>2 DEF Int8Inv, BoundToLastWriter, WritersBefore, Producers
<1>4. /\ DOMAIN stmt' = Stmts /\ \A s \in Stmts : stmt'[s].op = stmt[s].op
      /\ step' = 2 => \A s \in Stmts : stmt'[s].kernel \in Pickable(s)
  <2>1. CASE step' = 1
    BY <1>1, <2>1 DEF Stmts
  <2>2. CASE step' = 2
    <3>1. PICK picked : /\ \A s \in Stmts : picked[s] \in Pickable(s)
                        /\ stmt' = [s \in Stmts |-> [stmt[s] EXCEPT !.kernel = picked[s]]]
      BY <1>1, <2>2 DEF StaticKernelPick
    <3> QED
      BY <1>1, <3>1 DEF Fields
  <2> QED
    BY <1>1, <2>1, <2>2
<1>5. ASSUME NEW s \in Stmts PROVE Pickable(s)' = Pickable(s)
  <2>1. Readers(s)' = Readers(s)
    BY <1>2 DEF Readers, Consumers
  <2>2. WritesInt8(s)' <=> WritesInt8(s)
    BY <1>2, <2>1 DEF WritesInt8
  <2> QED
    BY <1>2, <2>2 DEF Pickable
<1>6. \A s \in Stmts : stmt[s].op \notin DOMAIN Level
  BY <1>1 DEF Int8Inv
<1>7. NeverDequantizes'
  <2>1. \A s \in Stmts' : stmt'[s].op # "calib"
    BY <1>4, <1>6, LevelFacts DEF Stmts
  <2> QED
    BY <2>1 DEF NeverDequantizes
<1>8. step' = 2 => \A s \in Stmts' : stmt'[s].kernel \in Pickable(s)'
  BY <1>4, <1>5 DEF Stmts
<1>9. step' > 0 => \A s \in 1..built' : stmt'[s].op \notin DOMAIN Level
  BY <1>1, <1>2, <1>4, <1>6
<1> QED
  BY <1>1, <1>3, <1>7, <1>8, <1>9 DEF Int8Inv

LEMMA Int8Infer ==
  ASSUME CastInv, FitInv, SourceInv, Int8Inv, Int8Apart(program), VariablePlaceInference, step = 2
  PROVE  Int8Inv'
<1>1. /\ UNCHANGED graphVars /\ UNCHANGED <<stmt, cur, last, todo>> /\ step' \in {2, 3}
      /\ step' = 2 => UNCHANGED arg
      /\ Stmts = 1..built /\ Stmts = DOMAIN inlinks /\ Stmts = DOMAIN outlinks /\ Stmts' = Stmts
      /\ \A n \in DOMAIN arg : arg[n].type = Untyped
  BY DEF VariablePlaceInference, NextPass, CastInv, CastingInv, FitInv, OperatorsInv, Stmts
<1>2. built' = built /\ inlinks' = inlinks /\ outlinks' = outlinks /\ program' = program
  BY <1>1 DEF graphVars
<1>3. \A s \in Stmts : stmt[s].op \notin DOMAIN Level /\ ~IsCast(s)
  <2>1. built \in Nat
    BY DEF CastInv, CastingInv
  <2> QED
    BY <1>1, <2>1 DEF Int8Inv, IsCast
<1>4. NeverDequantizes'
  <2>1. \A s \in Stmts' : stmt'[s].op # "calib"
    BY <1>1, <1>3, LevelFacts
  <2> QED
    BY <2>1 DEF NeverDequantizes
<1>5. CASE step' = 2
  <2>1. BoundToLastWriter'
    BY <1>2 DEF Int8Inv, BoundToLastWriter, WritersBefore, Producers
  <2>2. ASSUME NEW s \in Stmts PROVE Pickable(s)' = Pickable(s)
    <3>1. Readers(s)' = Readers(s)
      BY <1>2 DEF Readers, Consumers
    <3>2. WritesInt8(s)' <=> WritesInt8(s)
      BY <1>2, <3>1 DEF WritesInt8
    <3> QED
      BY <1>2, <3>2 DEF Pickable
  <2>3. \A s \in Stmts' : stmt'[s].kernel \in Pickable(s)'
    BY <1>1, <2>2 DEF Int8Inv
  <2>4. \A s \in 1..built' : stmt'[s].op \notin DOMAIN Level
    BY <1>1, <1>2, <1>3
  <2> QED
    BY <1>4, <1>5, <2>1, <2>3, <2>4 DEF Int8Inv
<1>6. CASE step' = 3
  <2>1. ASSUME NEW t \in Stmts, NEW n \in inlinks[t], arg'[n].type.precision = "int8", ~IsWeight(Source(n))
        PROVE  TakesInt8(t, n)
    <3>1. n \in DOMAIN arg
      BY <2>1 DEF CastInv, CastingInv, LinksFit, Touches
    <3>2. PICK order \in TopologicalOrders : arg' = Inferred(order)
      BY <1>1, <1>6, <3>1 DEF VariablePlaceInference, NextPass
    <3>3. arg'[n].type = Declared(FirstAt(order, n), n)
      <4>1. arg'[n] = [arg[n] EXCEPT !.type = Declared(FirstAt(order, n), n)]
        BY <1>1, <3>1, <3>2 DEF Inferred
      <4>2. "type" \in DOMAIN arg[n]
        BY <3>1 DEF FitInv, TypesInv
      <4> QED
        BY <4>1, <4>2
    <3>4. ~IsWeight(n)
      <4>1. Below(1, n)
        BY <1>1, <1>3 DEF Below, Producers
      <4>2. Source(n) = n
        BY <4>1, SourceFacts DEF SourceInv
      <4> QED
        BY <2>1, <4>2
    <3> QED
      BY <2>1, <3>3, <3>4, Int8Declared
  <2>2. ASSUME NEW s \in Stmts, NEW n \in inlinks[s], arg'[n].type.precision = "int8"
        PROVE  IsWeight(Source(n))' \/ TakesInt8(s, n)'
    <3>1. TakesInt8(s, n)' <=> TakesInt8(s, n)
      BY <1>1 DEF TakesInt8
    <3>2. Source(n)' = Source(n)
      BY <1>1, GraphSame DEF SourceInv
    <3>3. IsWeight(Source(n))' <=> IsWeight(Source(n))
      BY <1>2, <3>2 DEF IsWeight
    <3> QED
      BY <2>1, <2>2, <3>1, <3>3
  <2> QED
    BY <1>1, <1>2, <1>3, <1>4, <1>6, <2>2 DEF Int8Inv
<1> QED
  BY <1>1, <1>5, <1>6

\* The other steps keep the links, the statements and the types.
LEMMA Int8Same ==
  ASSUME CastInv, FitInv, SourceInv, Int8Inv, step > 0, UNCHANGED <<graphVars, stmt, arg>>,
         step' = step \/ (step > 2 /\ step' = step + 1)
  PROVE  Int8Inv'
<1>1. /\ Stmts' = Stmts /\ built' = built /\ inlinks' = inlinks /\ outlinks' = outlinks
      /\ program' = program /\ step \in 1..11 /\ step' \in 1..12
  BY DEF Stmts, graphVars, CastInv, CursorInv
<1>2. step' \in {1, 2} => BoundToLastWriter'
  <2> SUFFICES ASSUME step' \in {1, 2} PROVE BoundToLastWriter'
    OBVIOUS
  <2>1. BoundToLastWriter
    BY <1>1 DEF Int8Inv
  <2> QED
    BY <1>1, <2>1 DEF BoundToLastWriter, WritersBefore, Producers
<1>3. step' = 2 => \A s \in Stmts : stmt[s].kernel \in Pickable(s)'
  <2> SUFFICES ASSUME step' = 2, NEW s \in Stmts PROVE stmt[s].kernel \in Pickable(s)'
    OBVIOUS
  <2>1. Readers(s)' = Readers(s)
    BY <1>1 DEF Readers, Consumers
  <2>2. WritesInt8(s)' <=> WritesInt8(s)
    BY <1>1, <2>1 DEF WritesInt8
  <2>3. Pickable(s)' = Pickable(s)
    BY <1>1, <2>2 DEF Pickable
  <2> QED
    BY <1>1, <2>3 DEF Int8Inv
<1>4. ASSUME NEW n PROVE IsWeight(Source(n))' <=> IsWeight(Source(n))
  <2>1. Source(n)' = Source(n)
    BY GraphSame DEF SourceInv
  <2> QED
    BY <1>1, <2>1 DEF IsWeight
<1>5. ASSUME step' > 2, NEW s \in 1..built, NEW n \in inlinks[s], arg[n].type.precision = "int8"
      PROVE  IsWeight(Source(n)) \/ TakesInt8(s, n)'
  <2>1. IsWeight(Source(n)) \/ TakesInt8(s, n)
    BY <1>1, <1>5 DEF Int8Inv
  <2> QED
    BY <2>1 DEF TakesInt8
<1>6. NeverDequantizes'
  BY <1>1, <1>4 DEF Int8Inv, NeverDequantizes
<1> QED
  BY <1>1, <1>2, <1>3, <1>4, <1>5, <1>6 DEF Int8Inv

\* A cast asks for what its reader asked for, and no calib is put before an
\* operator that takes int8.
LEMMA Int8Cast ==
  ASSUME PlainNames, CastInv, FitInv, SourceInv, Int8Inv,
         Running, last > 0, NEW n \in todo, CastInput(n)
  PROVE  Int8Inv'
<1> DEFINE N == Cardinality(Stmts)
           cast == N + 1
           names == stmt[cur].in
<1>1. /\ UNCHANGED <<program, built, step, last, cur>> /\ ~Agrees(n) /\ \E k : AddCast(n, k)
      /\ step \in {3, 7, 9} /\ step > 2 /\ Pass \in CastFields
  BY FirstSlotFits DEF CastInput
<1>2. PICK k, o, name : AddCast(n, k) /\ o = <<CastName(n), 0>> /\ name = CastName(n)
  BY <1>1
<1>3. /\ N \in Nat \ {0} /\ built \in 1..N /\ Stmts = 1..N /\ cur \in 1..N
      /\ n \in inlinks[cur] /\ n \in DOMAIN arg /\ o[1] = name
      /\ \A m \in DOMAIN arg : arg'[m] = arg[m] /\ m[1] # name
      /\ arg'[o] = [type |-> [arg[n].type EXCEPT ![Pass] = Wanted(n)[Pass]],
                    is_persist |-> Persist(n)]
  <2>1. /\ N \in Nat \ {0} /\ built \in 1..N /\ Stmts = 1..N /\ cur \in 1..N
        /\ n \in inlinks[cur] /\ n \in DOMAIN arg
    BY <1>1, <1>2, CastFacts
  <2>2. /\ \A m \in DOMAIN arg : arg'[m] = arg[m] /\ m[1] # CastName(n)
        /\ arg'[<<CastName(n), 0>>] = [type |-> [arg[n].type EXCEPT ![Pass] = Wanted(n)[Pass]],
                                       is_persist |-> Persist(n)]
    BY <1>1, <1>2, CastFacts
  <2> QED
    BY <1>2, <2>1, <2>2
<1>4. /\ inlinks'[cur] = (inlinks[cur] \ {n}) \cup {o} /\ inlinks'[cast] = {n}
      /\ \A s \in (1..N) \ {cur} : inlinks'[s] = inlinks[s] /\ stmt'[s] = stmt[s]
      /\ Stmts' = 1..cast /\ stmt'[cast].op = CastOp[Pass]
  <2>1. /\ inlinks'[cur] = (inlinks[cur] \ {n}) \cup {<<CastName(n), 0>>} /\ inlinks'[cast] = {n}
        /\ \A s \in (1..N) \ {cur} : inlinks'[s] = inlinks[s]
    BY <1>1, <1>2, CastFacts
  <2>2. /\ \A s \in (1..N) \ {cur} : stmt'[s] = stmt[s]
        /\ Stmts' = 1..cast
        /\ stmt'[cast] = [op |-> CastOp[Pass], once |-> Persist(n), in |-> <<n[1]>>,
                          out |-> <<CastName(n)>>, kernel |-> Handed(k)]
    BY <1>1, <1>2, CastFacts
  <2> QED
    BY <1>2, <2>1, <2>2
<1>5. /\ stmt'[cur].op = stmt[cur].op /\ stmt'[cur].kernel = stmt[cur].kernel
      /\ DOMAIN stmt'[cur].in = DOMAIN names
      /\ \A j \in DOMAIN names : stmt'[cur].in[j] = IF names[j] = n[1] THEN name ELSE names[j]
      /\ \A j \in DOMAIN names : names[j] # name
  BY <1>2, RenamedSlots
<1>6. /\ \A m \in DOMAIN arg : Source(m)' = Source(m) /\ (IsWeight(Source(m))' <=> IsWeight(Source(m)))
      /\ IsWeight(Source(o))' <=> IsWeight(Source(n))
  <2>1. /\ \A m \in DOMAIN arg : Source(m)' = Source(m)
        /\ Source(o)' = Source(n) /\ program' = program
    BY <1>1, <1>2, BehindNewCast
  <2> QED
    BY <1>3, <2>1 DEF IsWeight
<1>7. /\ \A s \in 1..N : inlinks[s] \subseteq DOMAIN arg
      /\ cast \notin 1..N /\ \A s \in 1..cast : s \in (1..N) \ {cur} \/ s = cur \/ s = cast
  <2>1. LinksFit
    BY <1>1 DEF CastInv, CastingInv
  <2>2. \A s \in 1..N : inlinks[s] \subseteq DOMAIN arg
    BY <1>3, <2>1 DEF LinksFit, Touches
  <2>3. cast \notin 1..N /\ \A s \in 1..cast : s \in (1..N) \ {cur} \/ s = cur \/ s = cast
    BY <1>3
  <2> QED
    BY <2>2, <2>3
<1>8. cur \in 1..built /\ \A s \in 1..built : stmt[s].op \notin DOMAIN Level
  BY <1>1, <1>3, OnlyOperators DEF IsCast, Int8Inv
<1>9. /\ \A j \in DOMAIN names : names[j] = n[1] => stmt[cur].kernel.in[j] = Wanted(n)
      /\ \E j \in DOMAIN names : names[j] = n[1]
  <2>1. stmt[cur].op # "layout"
    BY <1>8, LevelFacts
  <2>2. n[1] \in ToSet(names)
    <3>1. step > 0 /\ cur \in Stmts
      BY <1>1, <1>3
    <3>2. NamesOf(inlinks[cur]) = ToSet(names)
      BY <1>1, <3>1 DEF CastInv, CastingInv, LinksFit
    <3> QED
      BY <1>3, <3>2 DEF NamesOf
  <2> QED
    BY <2>1, <2>2, FirstSlotFits DEF ToSet
<1> HIDE DEF N, cast, names
<1>10. arg[n].type.precision = "int8" => IsWeight(Source(n)) \/ TakesInt8(cur, n)
  BY <1>1, <1>3, <1>8 DEF Int8Inv
<1>11. \A s \in 1..built : stmt'[s].op \notin DOMAIN Level
  BY <1>3, <1>4, <1>5, <1>8
<1>12. ASSUME NEW s \in 1..built, NEW m \in inlinks'[s], arg'[m].type.precision = "int8"
       PROVE  IsWeight(Source(m))' \/ TakesInt8(s, m)'
  <2>1. ASSUME m \in inlinks[s] PROVE IsWeight(Source(m))' \/ TakesInt8(s, m)
    <3>1. s \in 1..N /\ m \in DOMAIN arg
      BY <1>3, <1>7, <2>1
    <3>2. IsWeight(Source(m)) \/ TakesInt8(s, m)
      BY <1>1, <1>3, <1>12, <2>1, <3>1 DEF Int8Inv
    <3> QED
      BY <1>6, <3>1, <3>2
  <2>2. CASE s # cur
    <3>1. s \in (1..N) \ {cur}
      BY <1>3, <2>2
    <3>2. m \in inlinks[s] /\ stmt'[s] = stmt[s]
      BY <1>4, <3>1
    <3> QED
      BY <2>1, <3>2 DEF TakesInt8
  <2>3. CASE s = cur /\ m \in inlinks[cur]
    <3>1. m[1] # name
      BY <1>3, <1>7, <2>3
    <3>2. TakesInt8(s, m) => TakesInt8(s, m)'
      BY <1>5, <2>3, <3>1 DEF TakesInt8, names
    <3> QED
      BY <2>1, <2>3, <3>2
  <2>4. CASE s = cur /\ m = o
    <3>1. arg'[m].type = [arg[n].type EXCEPT ![Pass] = Wanted(n)[Pass]]
      BY <1>3, <2>4
    <3>2. CASE Pass = "precision"
      <4>1. "precision" \in DOMAIN arg[n].type
        BY <1>1, <1>3 DEF FitInv, TypesInv, IsType, CastOp
      <4>2. Wanted(n).precision = "int8"
        BY <1>12, <3>1, <3>2, <4>1
      <4>3. TakesInt8(s, m)'
        BY <1>3, <1>5, <1>9, <2>4, <4>2 DEF TakesInt8, names
      <4> QED
        BY <4>3
    <3>3. CASE Pass # "precision"
      <4>1. arg[n].type.precision = "int8"
        BY <1>12, <3>1, <3>3
      <4>2. TakesInt8(cur, n) => TakesInt8(s, m)'
        BY <1>3, <1>5, <2>4 DEF TakesInt8, names
      <4>3. IsWeight(Source(n)) => IsWeight(Source(m))'
        <5>1. Source(m)' = Source(n)
          BY <1>1, <1>2, <2>4, BehindNewCast
        <5> QED
          BY <1>1, <5>1 DEF IsWeight
      <4> QED
        BY <1>10, <4>1, <4>2, <4>3
    <3> QED
      BY <3>2, <3>3
  <2> QED
    BY <1>4, <2>2, <2>3, <2>4
<1>13. ASSUME NEW s \in 1..cast, stmt'[s].op = "calib", NEW m \in inlinks'[s],
              arg'[m].type.precision = "int8"
       PROVE  IsWeight(Source(m))'
  <2>1. CASE s \in (1..N) \ {cur}
    <3>1. m \in inlinks[s] /\ m \in DOMAIN arg /\ stmt[s].op = "calib" /\ arg[m].type.precision = "int8"
      BY <1>3, <1>4, <1>7, <1>13, <2>1
    <3>2. IsWeight(Source(m))
      BY <1>1, <1>3, <2>1, <3>1 DEF Int8Inv, NeverDequantizes
    <3> QED
      BY <1>6, <3>1, <3>2
  <2>2. CASE s = cur
    BY <1>8, <1>11, <1>13, <2>2, LevelFacts
  <2>3. CASE s = cast
    <3>1. m = n /\ arg[n].type.precision = "int8" /\ Pass = "precision"
      BY <1>1, <1>3, <1>4, <1>13, <2>3 DEF CastOp, CastFields
    <3>2. ASSUME TakesInt8(cur, n) PROVE FALSE
      <4>1. Wanted(n).precision \in {"int8", "any"}
        BY <1>9, <3>2 DEF TakesInt8, names
      <4>2. Agrees(n)
        BY <3>1, <4>1 DEF Agrees, Fits, PrecisionCompatible
      <4> QED
        BY <1>1, <4>2
    <3> QED
      BY <1>3, <1>6, <1>10, <3>1, <3>2
  <2> QED
    BY <1>7, <2>1, <2>2, <2>3
<1>14. NeverDequantizes'
  BY <1>4, <1>13 DEF NeverDequantizes
<1> QED
  BY <1>1, <1>11, <1>12, <1>14 DEF Int8Inv

LEMMA NextInt8Inv ==
  ASSUME PlainNames
  PROVE  CastInv /\ FitInv /\ SourceInv /\ Int8Inv /\ Int8Apart(program) /\ [CastNext]_vars
           => Int8Inv'
<1> SUFFICES ASSUME CastInv, FitInv, SourceInv, Int8Inv, Int8Apart(program), [CastNext]_vars
             PROVE  Int8Inv'
  OBVIOUS
<1>1. CASE RunPasses
  BY <1>1, Int8Start
<1>2. CASE step' = 0
  BY <1>2 DEF Int8Inv, NeverDequantizes
<1>3. CASE StaticKernelPick
  BY <1>3, Int8Pick
<1>4. CASE VariablePlaceInference /\ step = 2
  BY <1>4, Int8Infer
<1>5. CASE ComplementInput /\ \E n \in todo : CastInput(n)
  <2>1. PICK n \in todo : CastInput(n)
    BY <1>5
  <2>2. Running /\ last > 0
    BY <1>5 DEF ComplementInput
  <2> QED
    BY <2>1, <2>2, Int8Cast
<1>6. CASE /\ ~RunPasses /\ step' # 0 /\ ~StaticKernelPick /\ ~(VariablePlaceInference /\ step = 2)
           /\ ~(ComplementInput /\ \E n \in todo : CastInput(n))
  <2>1. step > 0 /\ UNCHANGED <<graphVars, stmt>> /\ (step' = step \/ (step > 2 /\ step' = step + 1))
    <3>1. CASE VariablePlaceInference
      BY <1>6, <3>1, StepFacts DEF VariablePlaceInference, NextPass
    <3>2. CASE IoCopyKernelPick
      BY <3>2, StepFacts DEF IoCopyKernelPick, NextPass
    <3>3. CASE BeginCast
      BY <3>3, StepFacts DEF BeginCast
    <3>4. CASE NextStmt \/ EndCast
      <4>1. step \in {3, 7, 9}
        BY <3>4 DEF NextStmt, EndCast, FitInv, TypesInv
      <4> QED
        BY <3>4, <4>1 DEF NextStmt, EndCast, NextPass
    <3>5. CASE ComplementInput
      BY <1>6, <3>5, StepFacts DEF ComplementInput, KeepInput, NoCast
    <3>6. CASE BuildGraph
      BY <1>6, <3>6 DEF BuildGraph, castVars
    <3>7. CASE UNCHANGED vars
      <4>1. step > 0
        BY <1>6, <3>7 DEF vars, castVars, CastInv, CursorInv
      <4> QED
        BY <3>7, <4>1 DEF vars, castVars
    <3> QED
      BY <1>6, <3>1, <3>2, <3>3, <3>4, <3>5, <3>6, <3>7 DEF CastNext
  <2>2. UNCHANGED arg
    <3>1. CASE VariablePlaceInference
      <4>1. step > 2
        BY <1>6, <3>1, StepFacts DEF VariablePlaceInference
      <4>2. \A n \in DOMAIN arg : arg[n].type # Untyped
        BY <4>1 DEF FitInv, TypesInv, IsType, Untyped
      <4> QED
        BY <3>1, <4>2 DEF VariablePlaceInference
    <3>2. CASE ~VariablePlaceInference
      BY <1>6, <2>1, <3>2 DEF CastNext, BuildGraph, IoCopyKernelPick, BeginCast, NextStmt, EndCast,
         ComplementInput, KeepInput, NoCast, vars, castVars
    <3> QED
      BY <3>1, <3>2
  <2> QED
    BY <2>1, <2>2, Int8Same
<1> QED
  BY <1>1, <1>2, <1>3, <1>4, <1>5, <1>6

(* No calib undoes a quantisation: what a calib is given is int8 only when *)
(* it comes from a weight, in every program whose int8 operators take int8 *)
(* of what was written and whose others declare none.                      *)
THEOREM NoDequantization ==
  ASSUME PlainNames
  PROVE  CastSpec => [](Int8Apart(program) => NeverDequantizes)
<1>1. CastInv /\ FitInv /\ [CastNext]_vars => CastInv' /\ FitInv'
  BY NextFitInv
<1>2. CastInv /\ FitInv /\ SourceInv /\ [CastNext]_vars => SourceInv'
  BY NextSourceInv
<1> DEFINE Inv == Int8Apart(program) => Int8Inv
<1>3. CastInv /\ FitInv /\ SourceInv /\ Inv /\ [CastNext]_vars => Inv'
  <2> SUFFICES ASSUME CastInv, FitInv, SourceInv, Inv, [CastNext]_vars, Int8Apart(program)'
               PROVE  Int8Inv'
    OBVIOUS
  <2>1. program' = program
    BY ProgramStays
  <2> QED
    BY <2>1, NextInt8Inv DEF Int8Apart
<1>4. Inv => (Int8Apart(program) => NeverDequantizes)
  BY DEF Int8Inv
<1>5. CastInit => Inv
  BY DEF CastInit, Int8Inv, NeverDequantizes
<1> QED
  BY <1>1, <1>2, <1>3, <1>4, <1>5, InitCastInv, FitInit, SourceInit, PTL DEF CastSpec
=============================================================================
