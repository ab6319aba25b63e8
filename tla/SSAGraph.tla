------------------------------ MODULE SSAGraph ------------------------------
(***************************************************************************)
(* mir::SSAGraph, built from a Program one operator at a time.             *)
(* A statement node is the position of its operator in the program.  An    *)
(* argument node is <<name, version>>: every output makes a new node, an   *)
(* input is linked to the newest node of its name.  The versions are the   *)
(* graph's only: they all are one variable of the scope, the name.         *)
(* Two slots of an operator that hold one name are one link here.          *)
(***************************************************************************)
EXTENDS Integers, Sequences, FiniteSets, Maps

CONSTANTS Name,      \* variable names
          OpType,    \* operator types
          Target,    \* targets of the picked kernels
          Programs   \* the programs to build from

\* OpLite with its OpDesc: input_names(), output_names(), the kernel's target.
Operator == [type : OpType, in : SUBSET Name, out : SUBSET Name, target : Target]

ASSUME ProgramsAssumption ==
  \A p \in Programs : p.ops \in Seq(Operator) /\ p.weights \in SUBSET Name

VARIABLES program,   \* ops and weights of the Program being built from
          built,     \* number of operators linked so far
          latest,    \* arg_update_node_map_: name -> its newest version
          inlinks,   \* statement -> argument nodes it reads
          outlinks   \* statement -> argument nodes it writes

graphVars == <<program, built, latest, inlinks, outlinks>>

ArgNode == Name \X Nat

GraphInit ==
  /\ program \in Programs
  /\ built = 0
  /\ latest = NoEntries /\ inlinks = NoEntries /\ outlinks = NoEntries

\* The newest node of every name once the inputs are linked: a name that is
\* read before anything wrote it gets a node without a producer.
AfterReads(op) == [x \in DOMAIN latest \cup op.in |-> Lookup(latest, x, 0)]

\* Mutant: an output reuses the newest node of its name.
AfterWrites_reuse(op) ==
  [x \in DOMAIN AfterReads(op) \cup op.out |-> Lookup(AfterReads(op), x, 0)]

AfterWrites(op) ==
  [x \in DOMAIN AfterReads(op) \cup op.out |->
     IF x \in op.out THEN Lookup(AfterReads(op), x, -1) + 1 ELSE AfterReads(op)[x]]

\* Mutant: the outputs are created before the inputs are linked.
BuildOp_outputsFirst ==
  /\ built < Len(program.ops)
  /\ LET s == built + 1
         op == program.ops[s]
     IN  /\ latest' = AfterWrites(op)
         /\ inlinks' = Assign(inlinks, s, {<<x, AfterWrites(op)[x]>> : x \in op.in})
         /\ outlinks' = Assign(outlinks, s, {<<x, AfterWrites(op)[x]>> : x \in op.out})
         /\ built' = s
  /\ UNCHANGED program

\* One round of the loop over program.ops().
BuildOp ==
  /\ built < Len(program.ops)
  /\ LET s == built + 1
         op == program.ops[s]
     IN  /\ latest' = AfterWrites(op)
         /\ inlinks' = Assign(inlinks, s, {<<x, AfterReads(op)[x]>> : x \in op.in})
         /\ outlinks' = Assign(outlinks, s, {<<x, AfterWrites(op)[x]>> : x \in op.out})
         /\ built' = s
  /\ UNCHANGED program

GraphBuilt == built = Len(program.ops)

GraphSpec == GraphInit /\ [][BuildOp]_graphVars

IsWeight(n) == n[1] \in program.weights

\* The statements an argument node is an output of: node->inlinks.
Producers(n) == {s \in DOMAIN outlinks : n \in outlinks[s]}
Consumers(n) == {s \in DOMAIN inlinks : n \in inlinks[s]}

\* BuildOperationAdjList: whose outputs a statement reads.
AdjList == [s \in DOMAIN inlinks |-> UNION {Producers(n) : n \in inlinks[s]}]

-----------------------------------------------------------------------------
(* Type invariant: the tables cover the operators linked so far, and every *)
(* link is to a version the graph holds.                                   *)
GraphTypeOK ==
  /\ program \in Programs
  /\ built \in 0..Len(program.ops)
  /\ DOMAIN inlinks = 1..built /\ DOMAIN outlinks = 1..built
  /\ \A x \in DOMAIN latest : x \in Name /\ latest[x] \in Nat
  /\ \A s \in 1..built : \A n \in inlinks[s] \cup outlinks[s] :
       /\ n \in ArgNode
       /\ n[1] \in DOMAIN latest
       /\ n[2] <= latest[n[1]]

WritersBefore(s, x) == {t \in 1..(s - 1) : x \in program.ops[t].out}

(* Every input is the version that the nearest earlier operator writing    *)
(* the name makes, and has no producer when there is none: the graph says  *)
(* who computes what an operator reads in the order of the program.        *)
BoundToLastWriter ==
  \A s \in 1..built : \A n \in inlinks[s] :
    LET writers == WritersBefore(s, n[1]) IN
      /\ Producers(n) \subseteq writers
      /\ writers # {} => \E t \in Producers(n) : \A u \in writers : u <= t
      /\ \A t, u \in Producers(n) : t = u

(* A statement depends on earlier operators only, so that the dependences  *)
(* form no cycle: SortHelper's recursion has no test for one.              *)
DependsOnEarlier ==
  \A s \in DOMAIN AdjList : AdjList[s] \subseteq 1..(s - 1)
=============================================================================
