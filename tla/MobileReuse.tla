----------------------------- MODULE MobileReuse -----------------------------
(***************************************************************************)
(* The memory plan of the two older runtimes: MemoryOptPass of mobile and  *)
(* MemoryOptimize of Metal.  Every slot of every operator mentions a       *)
(* variable; the mentions are walked once, from the last operator to the   *)
(* first on a CPU, from the first to the last on Metal.  A variable met    *)
(* for the first time joins the first list whose newest member has no      *)
(* mention left, and a list shares one memory.                             *)
(***************************************************************************)
EXTENDS Integers, SequencesExt, FiniteSetsExt, Maps

CONSTANTS Programs,   \* records: runtime, level, persistable, ops
          Var         \* the names of their variables

VARIABLES program,
          nodes,     \* analysis_nodes_, nodesArray: the mentions in the order of the walk
          walked,    \* how many of them are popped
          count,     \* VarNode::count: mentions not popped yet
          visited,   \* VarNode::visited
          lists      \* reused_nodes_, nodeGroups

vars == <<program, nodes, walked, count, visited, lists>>

-----------------------------------------------------------------------------
(* The mentions of a program.                                              *)

OnMetal(p) == p.runtime = "metal"

\* Mutant: the slots are listed once, so outputs are let go before the inputs.
Slots_once(p, op) ==
  IF OnMetal(p) THEN op.in \o op.para \o op.out ELSE op.in \o op.out
Slots(p, op) ==
  IF OnMetal(p) THEN op.in \o op.para \o op.out \o op.in \o op.para
                ELSE op.out \o op.in \o op.out

\* exclude_var_names: on a CPU the inputs of feed keep their memory, if asked for.
Excluded(p) ==
  IF OnMetal(p) \/ p.level = "full" THEN {}
  ELSE UNION {ToSet(op.in) : op \in {o \in ToSet(p.ops) : o.type = "feed"}}

Kept(p, names) ==
  FlattenSeq([i \in DOMAIN names |->
                IF names[i] \in p.persistable \cup Excluded(p) THEN <<>> ELSE <<names[i]>>])

Mentions(p) == FlattenSeq([k \in DOMAIN p.ops |-> Kept(p, Slots(p, p.ops[k]))])

Walk(p) == IF OnMetal(p) THEN Mentions(p) ELSE Reverse(Mentions(p))

Fetched(p) ==
  UNION {ToSet(Kept(p, op.in)) : op \in {o \in ToSet(p.ops) : o.type = "fetch"}}

\* A program is a finite list of operators; only Metal tells parameters from inputs.
ASSUME ProgramsAssumption ==
  \A p \in Programs :
    /\ Len(p.ops) \in Nat /\ DOMAIN p.ops = 1..Len(p.ops)
    /\ \A op \in ToSet(p.ops) :
         /\ op.in \in Seq(Var) /\ op.para \in Seq(Var) /\ op.out \in Seq(Var)
         /\ ~OnMetal(p) => op.para = <<>>

-----------------------------------------------------------------------------
Mentioned == {nodes[k] : k \in DOMAIN nodes}
Places(v) == {k \in DOMAIN nodes : nodes[k] = v}

\* Mutant: a name that has a node is not counted again.
Counted_once(walk) == [v \in {walk[k] : k \in DOMAIN walk} |-> 1]
Counted(walk) ==
  [v \in {walk[k] : k \in DOMAIN walk} |-> Cardinality({k \in DOMAIN walk : walk[k] = v})]

Init ==
  /\ program \in Programs
  /\ nodes = Walk(program) /\ walked = 0
  /\ count = Counted(nodes)
  /\ visited = {} /\ lists = <<>>

More == walked < Len(nodes)
Node == nodes[walked + 1]

Pop ==
  /\ walked' = walked + 1
  /\ count' = [count EXCEPT ![Node] = @ - 1]
  /\ visited' = visited \cup {Node}
  /\ UNCHANGED <<program, nodes>>

\* Mutant: what is fetched is passed on like anything else.
Free_fetched(i) == count[Last(lists[i])] = 0
Free(i) == count[Last(lists[i])] = 0 /\ Last(lists[i]) \notin Fetched(program)

\* The node joins the first list it can take over.
JoinList ==
  /\ More /\ Node \notin visited
  /\ \E i \in DOMAIN lists :
       /\ Free(i)
       /\ \A k \in 1..(i - 1) : ~Free(k)
       /\ lists' = [lists EXCEPT ![i] = Append(@, Node)]
  /\ Pop

OpenList ==
  /\ More /\ Node \notin visited
  /\ \A i \in DOMAIN lists : ~Free(i)
  /\ lists' = Append(lists, <<Node>>)
  /\ Pop

Revisit ==
  /\ More /\ Node \in visited
  /\ Pop
  /\ UNCHANGED lists

Next == JoinList \/ OpenList \/ Revisit

Spec == Init /\ [][Next]_vars

-----------------------------------------------------------------------------
(* Two variables of one list are two names for one memory.                 *)

InList(v, i) == \E k \in DOMAIN lists[i] : lists[i][k] = v
Share(u, v) == u # v /\ \E i \in DOMAIN lists : InList(u, i) /\ InList(v, i)

\* The operators between which a variable has to keep its value.
Users(v) ==
  {k \in DOMAIN program.ops :
     v \in ToSet(program.ops[k].in \o program.ops[k].para \o program.ops[k].out)}
Before(u, v) == Max(Users(u)) < Min(Users(v))

-----------------------------------------------------------------------------
(* The programs the plan is right for.                                     *)

IsKept(p, v) == v \notin p.persistable /\ v \notin Excluded(p)

\* On a CPU what an operator reads, but for its only input, was written before.
ReadsWritten(p) ==
  \A k \in DOMAIN p.ops : \A v \in ToSet(p.ops[k].in) :
    IsKept(p, v) =>
      \/ \E j \in 1..(k - 1) : v \in ToSet(p.ops[j].out)
      \/ \A u \in ToSet(p.ops[k].in) : IsKept(p, u) => u = v

\* On Metal the outputs of an operator with several are read, by it or later on.
OutputsRead(p) ==
  \A k \in DOMAIN p.ops : \A u, v \in ToSet(p.ops[k].out) :
    IsKept(p, u) /\ IsKept(p, v) /\ u # v =>
      \E l \in DOMAIN p.ops : l >= k /\ u \in ToSet(p.ops[l].in \o p.ops[l].para)

\* On a CPU the fetches come last and write the list that is persistable.
FetchesLast(p) ==
  \A k \in DOMAIN p.ops : p.ops[k].type = "fetch" =>
    /\ \A v \in ToSet(p.ops[k].out) : ~IsKept(p, v)
    /\ \A l \in DOMAIN p.ops : l >= k => p.ops[l].type = "fetch"

Plannable(p) == IF OnMetal(p) THEN OutputsRead(p) ELSE ReadsWritten(p) /\ FetchesLast(p)

-----------------------------------------------------------------------------
(* Type invariant.                                                         *)
TypeOK ==
  /\ program \in Programs
  /\ nodes \in Seq(Var)
  /\ walked \in 0..Len(nodes)
  /\ count \in [Mentioned -> Nat]
  /\ visited \subseteq Mentioned
  /\ lists \in Seq(Seq(visited) \ {<<>>})

(* Variables in one memory are never needed by the same operator, nor does *)
(* one keep a value while an operator in between uses the other: counting  *)
(* mentions of names, without a lifetime, is enough.                       *)
OperatorsKeptApart ==
  \A u, v \in visited : Share(u, v) => Before(u, v) \/ Before(v, u)

(* What is fetched is there when the program has run: whatever used its    *)
(* memory is through when it is written.                                   *)
OutputsSurvive ==
  \A v \in visited \cap Fetched(program), u \in visited : Share(u, v) => Before(u, v)

-----------------------------------------------------------------------------
(* The lists are a plan as MemoryReuse promises one, for the lifetimes     *)
(* between the first and the last mention of the walk.                     *)

FirstPlace(v) == CHOOSE k \in Places(v) : \A l \in Places(v) : k <= l
LastPlace(v) == CHOOSE k \in Places(v) : \A l \in Places(v) : k >= l

\* The variable whose memory the list of v shares.
Holder(v) == LET i == CHOOSE k \in DOMAIN lists : InList(v, k) IN lists[i][1]

Promise == INSTANCE MemoryReuse
  WITH lifetime <- [v \in Mentioned |-> <<FirstPlace(v), LastPlace(v)>>],
       plan <- [v \in visited |-> Holder(v)]

KeepsPromise == Promise!RSpec
=============================================================================
