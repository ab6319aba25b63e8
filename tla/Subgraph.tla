------------------------------ MODULE Subgraph ------------------------------
(***************************************************************************)
(* SubgraphProgramPass and GenerateNPUProgramPass: the statements an NPU   *)
(* can run are numbered, statements linked to each other with one number,  *)
(* and each number is converted into a model of the NPU and replaced by    *)
(* one graph_op.  When a model cannot be built the pass is given up where  *)
(* it is, and the program is generated from the graph it leaves.           *)
(* The recursion of ChangeAllOutConnectedID is the set todo of variables   *)
(* it has still to look at: an id is only ever set from zero to the number *)
(* in hand, so that the outcome does not depend on the order.              *)
(***************************************************************************)
EXTENDS SSAGraph, SequencesExt

CONSTANTS Supported   \* types the NPU bridges convert

VARIABLES stage,      \* build, number, convert, generated
          order,      \* StmtTopologicalOrder of the graph
          at,         \* position in order of the loop over the statements
          sub_id,     \* subgraph_id: -1 not supported, 0 supported, or a number
          sub_num,    \* numbers given so far
          todo,       \* variables ChangeAllOutConnectedID has still to visit
          pending,    \* numbers not converted yet
          open,       \* the number being converted, 0 when none
          conv,       \* its statements still to convert, in order
          converted,  \* converted_vars: name -> argument node it stands for
          desc        \* statement -> names its OpDesc reads and writes

numberVars == <<order, at, sub_id, sub_num, todo>>
convertVars == <<pending, open, conv, converted, desc>>
vars == <<graphVars, stage, numberVars, convertVars>>

Stmts == DOMAIN inlinks

Listed(o, s) == \E l \in DOMAIN o : o[l] = s

\* The orders of some statements in which each comes after what it reads.
OrdersOf(stmts) ==
  {o \in SetToSeqs(stmts) :
     \A k \in DOMAIN o : \A p \in AdjList[o[k]] \cap stmts : Listed(SubSeq(o, 1, k - 1), p)}

-----------------------------------------------------------------------------
(* FuseSubgraph                                                            *)

InitSubgraphID ==
  /\ stage = "build" /\ GraphBuilt
  /\ order' \in OrdersOf(Stmts)
  /\ sub_id' = [s \in Stmts |-> IF program.ops[s].type \in Supported THEN 0 ELSE -1]
  /\ desc' = [s \in Stmts |-> [in |-> program.ops[s].in, out |-> program.ops[s].out]]
  /\ stage' = "number"
  /\ UNCHANGED <<graphVars, at, sub_num, todo, pending, open, conv, converted>>

AtStmt == stage = "number" /\ todo = {} /\ at <= Len(order)

\* if (stmt.subgraph_id() != 0) continue;
SkipStmt ==
  /\ AtStmt /\ sub_id[order[at]] # 0
  /\ at' = at + 1
  /\ UNCHANGED <<graphVars, stage, order, sub_id, sub_num, todo, convertVars>>

\* Mutant: the number is not incremented.
OpenSubgraph_sameNumber ==
  /\ AtStmt /\ sub_id[order[at]] = 0
  /\ sub_num' = 1
  /\ sub_id' = [sub_id EXCEPT ![order[at]] = 1]
  /\ todo' = outlinks[order[at]]
  /\ at' = at + 1
  /\ UNCHANGED <<graphVars, stage, order, convertVars>>

OpenSubgraph ==
  /\ AtStmt /\ sub_id[order[at]] = 0
  /\ sub_num' = sub_num + 1
  /\ sub_id' = [sub_id EXCEPT ![order[at]] = sub_num + 1]
  /\ todo' = outlinks[order[at]]
  /\ at' = at + 1
  /\ UNCHANGED <<graphVars, stage, order, convertVars>>

\* A variable leads on when all its readers are supported, numbered or not.
LeadsOn(n) == \A t \in Consumers(n) : sub_id[t] >= 0

Joining(n) == IF LeadsOn(n) THEN {t \in Consumers(n) : sub_id[t] = 0} ELSE {}

VisitVar(n) ==
  /\ stage = "number" /\ n \in todo
  /\ sub_id' = [s \in Stmts |-> IF s \in Joining(n) THEN sub_num ELSE sub_id[s]]
  /\ todo' = (todo \ {n}) \cup UNION {outlinks[t] : t \in Joining(n)}
  /\ UNCHANGED <<graphVars, stage, order, at, sub_num, convertVars>>

\* ClassifySubgraph, and CHECK_EQ(op_nodes_all.size(), num_subgraph)
Members(k) == {s \in DOMAIN sub_id : sub_id[s] = k}

EndNumbering ==
  /\ stage = "number" /\ todo = {} /\ at > Len(order)
  /\ pending' = {k \in 1..sub_num : Members(k) # {}}
  /\ stage' = "convert"
  /\ UNCHANGED <<graphVars, numberVars, open, conv, converted, desc>>

-----------------------------------------------------------------------------
(* FindInputOutputVars                                                     *)

Read(stmts) == UNION {inlinks[s] : s \in stmts}
Written(stmts) == UNION {outlinks[s] : s \in stmts}

InWgtVars(stmts) == {n \in Read(stmts) : IsWeight(n)}
InDataVars(stmts) == {n \in Read(stmts) : ~IsWeight(n) /\ Producers(n) \cap stmts = {}}
OutUnusedVars(stmts) == {n \in Written(stmts) : Consumers(n) = {}}
OutDataVars(stmts) == {n \in Written(stmts) : Consumers(n) # {} /\ Consumers(n) \cap stmts = {}}

-----------------------------------------------------------------------------
(* GenNPUSubgraph, for the numbers in the order of an unordered_map        *)

\* Mutant: GetTopologicalOrder lists a statement before the recursion.
GetTopologicalOrder_before(stmts) == {Reverse(o) : o \in OrdersOf(stmts)}

\* SortHelper over a set without an order: any order that respects the reads.
GetTopologicalOrder(stmts) == OrdersOf(stmts)

BeginSubgraph(k) ==
  /\ stage = "convert" /\ open = 0 /\ k \in pending
  /\ pending' = pending \ {k} /\ open' = k
  /\ conv' \in GetTopologicalOrder(Members(k))
  /\ converted' = NoEntries
  /\ UNCHANGED <<graphVars, stage, numberVars, desc>>

\* CvtAllOpNodes: inputs without an entry become data of the model, and an
\* entry that is there stays when outputs are inserted.
ConvertOp ==
  /\ open # 0 /\ conv # <<>>
  /\ LET s == Head(conv)
         nodes == {n \in inlinks[s] : ~IsWeight(n)} \cup outlinks[s]
         first(x) == CHOOSE n \in nodes : n[1] = x /\ (n \in inlinks[s] \/ \A m \in nodes : m[1] = x => m = n)
     IN  converted' = [x \in DOMAIN converted \cup {n[1] : n \in nodes} |->
                         Lookup(converted, x, first(x))]
  /\ conv' = Tail(conv)
  /\ UNCHANGED <<graphVars, stage, numberVars, pending, open, desc>>

\* The links of the graph_op, which has a statement of its own.
GraphOp == built + open

Inserted(links, ends) == Assign(links, GraphOp, ends)

\* Mutant: GetNode2rm takes the inputs of the subgraph along.
NodesToRemove_inputs(stmts) ==
  (Read(stmts) \cup Written(stmts)) \ (OutDataVars(stmts) \cup OutUnusedVars(stmts))

\* GetNode2rm: the variables that go with the statements.
NodesToRemove(stmts) ==
  (Read(stmts) \cup Written(stmts)) \
    (InDataVars(stmts) \cup InWgtVars(stmts) \cup OutDataVars(stmts) \cup OutUnusedVars(stmts))

\* GraphSafeRemoveNodes: the links that are left.
Remaining(links, stmts) == [s \in DOMAIN links \ stmts |-> links[s] \ NodesToRemove(stmts)]

\* The model is built: InsertNewNode, GetNode2rm, GraphSafeRemoveNodes.
ReplaceSubgraph ==
  /\ open # 0 /\ conv = <<>>
  /\ LET stmts == Members(open) IN
       /\ inlinks' = Inserted(Remaining(inlinks, stmts), InDataVars(stmts) \cup InWgtVars(stmts))
       /\ outlinks' = Inserted(Remaining(outlinks, stmts), OutDataVars(stmts) \cup OutUnusedVars(stmts))
       /\ desc' = Assign(desc, GraphOp, [in |-> {n[1] : n \in InDataVars(stmts)},
                                         out |-> {n[1] : n \in OutDataVars(stmts)}])
  /\ open' = 0
  /\ UNCHANGED <<program, built, latest, stage, numberVars, pending, conv, converted>>

\* Mutant: the graph_op is inserted before the model is built.
BuildFails_inserted ==
  /\ open # 0 /\ conv = <<>>
  /\ LET stmts == Members(open) IN
       /\ inlinks' = Inserted(inlinks, InDataVars(stmts) \cup InWgtVars(stmts))
       /\ outlinks' = Inserted(outlinks, OutDataVars(stmts) \cup OutUnusedVars(stmts))
       /\ desc' = Assign(desc, GraphOp, [in |-> {n[1] : n \in InDataVars(stmts)},
                                         out |-> {n[1] : n \in OutDataVars(stmts)}])
  /\ open' = 0 /\ stage' = "generated"
  /\ UNCHANGED <<program, built, latest, numberVars, pending, conv, converted>>

\* BuildNPUClient fails: the exception leaves the pass, GenRuntimeProgram
\* catches it and runs generate_program_pass on the graph as it is.
BuildFails ==
  /\ open # 0 /\ conv = <<>>
  /\ open' = 0 /\ stage' = "generated"
  /\ UNCHANGED <<graphVars, numberVars, pending, conv, converted, desc>>

Generate ==
  /\ stage = "convert" /\ open = 0 /\ pending = {}
  /\ stage' = "generated"
  /\ UNCHANGED <<graphVars, numberVars, convertVars>>

-----------------------------------------------------------------------------
BuildGraph == stage = "build" /\ BuildOp /\ UNCHANGED <<stage, numberVars, convertVars>>

Init ==
  /\ GraphInit
  /\ stage = "build"
  /\ order = <<>> /\ at = 1 /\ sub_id = NoEntries /\ sub_num = 0 /\ todo = {}
  /\ pending = {} /\ open = 0 /\ conv = <<>> /\ converted = NoEntries /\ desc = NoEntries

Next ==
  \/ BuildGraph \/ InitSubgraphID
  \/ SkipStmt \/ OpenSubgraph \/ EndNumbering
  \/ \E n \in todo : VisitVar(n)
  \/ \E k \in pending : BeginSubgraph(k)
  \/ ConvertOp \/ ReplaceSubgraph \/ BuildFails \/ Generate

Spec == Init /\ [][Next]_vars

-----------------------------------------------------------------------------
(* Conditions on programs.                                                 *)

\* No name is written twice, or written after it was read.
WritesOnce(p) ==
  \A s \in 1..Len(p.ops) : \A x \in p.ops[s].out :
    x \notin p.ops[s].in /\ \A t \in 1..(s - 1) : x \notin p.ops[t].in \cup p.ops[t].out

\* No operator writes a weight.
KeepsWeights(p) == \A s \in 1..Len(p.ops) : p.ops[s].out \cap p.weights = {}

\* The NPU runs the operator s, and whatever reads its variable x.
Leads(p, s, x) ==
  /\ p.ops[s].type \in Supported /\ x \in p.ops[s].out
  /\ \A t \in 1..Len(p.ops) : x \in p.ops[t].in => p.ops[t].type \in Supported

\* A variable leads to operators of its writer's layer, or on to higher layers:
\* no path leaves what is linked on the NPU and comes back.
IsLayering(p, layer) ==
  \A s, t \in 1..Len(p.ops) : \A x \in p.ops[s].out \cap p.ops[t].in :
    IF Leads(p, s, x) THEN layer[t] = layer[s] ELSE layer[s] < layer[t]

Layered(p) == \E layer \in [1..Len(p.ops) -> 1..Len(p.ops)] : IsLayering(p, layer)

\* What is linked on the NPU descends from one operator.
IsHeading(p, head) ==
  /\ \A s, t \in 1..Len(p.ops) : \A x \in p.ops[s].out \cap p.ops[t].in :
       Leads(p, s, x) => head[t] = head[s]
  /\ \A t \in 1..Len(p.ops) : p.ops[t].type \in Supported /\ head[t] # t =>
       \E s \in 1..Len(p.ops) : \E x \in p.ops[t].in : Leads(p, s, x)

OneHead(p) == \E head \in [1..Len(p.ops) -> 1..Len(p.ops)] : IsHeading(p, head)

-----------------------------------------------------------------------------
Original == 1..built

\* Where a statement of the program is now.
Home(s) == IF s \in Stmts THEN s ELSE built + sub_id[s]

(* Type invariant: ids and descriptions speak of the statements there are. *)
TypeOK ==
  /\ stage # "build" => DOMAIN sub_id = Original /\ Stmts \subseteq DOMAIN desc
  /\ \A s \in DOMAIN sub_id : sub_id[s] \in -1..sub_num
  /\ DOMAIN outlinks = Stmts
  /\ todo \subseteq ArgNode
  /\ pending \subseteq 1..sub_num /\ open \in 0..sub_num
  /\ \A x \in DOMAIN converted : converted[x] \in ArgNode /\ converted[x][1] = x

(* Wherever the pass stops, each statement of the program is run once: by  *)
(* itself or in the model of its number.                                   *)
EachStatementOnce ==
  stage = "generated" =>
    /\ \A s \in Original : Home(s) \in Stmts
    /\ \A g \in Stmts \ Original : Members(g - built) \cap Stmts = {}

(* "Find all input data vars, input weight vars, output data vars": each   *)
(* variable a description reads is still linked to what computes it.       *)
(* For programs that write a name once.                                    *)
ReadersSupplied ==
  stage = "generated" =>
    \A s \in Stmts : \A x \in desc[s].in : \E n \in inlinks[s] :
      n[1] = x /\ \A t \in Original : x \in program.ops[t].out => Producers(n) = {Home(t)}

(* What is outside of a subgraph runs before it or after it: replacing it  *)
(* by one statement leaves a graph the next search can order.              *)
StaysAcyclic ==
  stage = "generated" =>
    \A group \in (SUBSET Stmts) \ {{}} : \E s \in group : AdjList[s] \cap group = {}

(* "Op node's inputs must be found in converted_vars": an operator of the  *)
(* model is given what computes the variables its statement reads, and     *)
(* only what comes from outside is made data of the model.                 *)
ConvertsWhatItReads ==
  open # 0 /\ conv # <<>> =>
    \A n \in {m \in inlinks[Head(conv)] : ~IsWeight(m)} :
      IF n[1] \in DOMAIN converted THEN converted[n[1]] = n ELSE n \in InDataVars(Members(open))
=============================================================================
