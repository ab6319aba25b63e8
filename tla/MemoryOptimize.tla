--------------------------- MODULE MemoryOptimize ---------------------------
(***************************************************************************)
(* From a Program to the instructions that run it, on the way through      *)
(* MemoryOptimizePass, which is the last pass before the program is        *)
(* generated: the graph is built (SSAGraph), its statements are ordered    *)
(* (StmtOrder), the lifetimes of the variables are collected by device, a  *)
(* reuse plan is made for each device (ReusePlan) and performed on the     *)
(* operators, and the statements become instructions in the same order.    *)
(* The pass renames variables and neither adds nor removes a link, nor     *)
(* does a node move: each later call of StmtTopologicalOrder returns the   *)
(* order of the first one, which is therefore computed once.               *)
(***************************************************************************)
EXTENDS SSAGraph, SequencesExt

\* The slots of a program name finitely many variables.
ASSUME NamesAssumption == IsFiniteSet(Name)

VARIABLES phase,         \* how far the pipeline is
          adj_list, calls, visited, ret,                                \* StmtOrder
          lifetime, mem_nodes, node2cluster, i, j, cluster_adj,         \* ReusePlan
          lifecycles,    \* device -> its lifetime table
          devices,       \* devices of the table still to plan for
          cursor,        \* position in ret of the loops over the statements
          uses,          \* statement -> argument node -> variable its OpDesc names
          arg_name       \* argument node -> its name, <<name>> for "name(idx)"

orderVars == <<adj_list, calls, visited, ret>>
planVars == <<lifetime, mem_nodes, node2cluster, i, j, cluster_adj>>
passVars == <<lifecycles, devices, cursor, uses, arg_name>>
pipelineVars == <<phase, graphVars, orderVars, planVars, passVars>>

Order == INSTANCE StmtOrder WITH Graphs <- {}
Plan == INSTANCE ReusePlan WITH Lifecycles <- {}

-----------------------------------------------------------------------------
(* CollectLifeCycleByDevice                                                *)

InvalidOp == {"while", "conditional_block", "conditional_block_infer",
              "merge_lod_tensor_infer", "merge_lod_tensor", "equal", "lod_reset",
              "concat", "yolo_box", "graph_op", "feed", "fetch"}

TypeOf(s) == program.ops[s].type
Links(s) == inlinks[s] \cup outlinks[s]

\* Mutants: only the producer, only the consumers are looked at.
ValidVar_producer(n) == \A s \in Producers(n) : TypeOf(s) \notin InvalidOp
ValidVar_consumers(n) == \A s \in Consumers(n) : TypeOf(s) \notin InvalidOp

ValidVar(n) == \A s \in Producers(n) \cup Consumers(n) : TypeOf(s) \notin InvalidOp

\* is_persist: what the cast passes derive from a weight.
IsPersist(n) == n[1] \in program.persist

\* Mutant: the flag of derived weights is not looked at.
Collected_once(n) == ~IsWeight(n) /\ ValidVar(n)

Collected(n) == ~IsWeight(n) /\ ~IsPersist(n) /\ ValidVar(n)

\* The target of an argument is the one its producer's kernel writes it on, and
\* of one without a producer the one it is first read on.
NodeTarget(n) ==
  program.ops[CHOOSE s \in Producers(n) \cup Consumers(n) : Producers(n) # {} => s \in Producers(n)].target

\* Mutant: every target is taken for host.
DeviceOf_anyHost(target) == "host"

HostTargets == {"host", "x86", "arm"}

DeviceOf(target) == IF target \in HostTargets THEN "host" ELSE target

\* The names a statement keeps alive on a device.
Alive(s, dev) ==
  {n[1] : n \in {m \in Links(s) : Collected(m) /\ DeviceOf(NodeTarget(m)) = dev}}

\* Mutant: the statements are counted from one.
Extend_fromOne(table, s, now, dev) ==
  [x \in DOMAIN table \cup Alive(s, dev) |->
     IF x \in Alive(s, dev) THEN <<Lookup(table, x, <<now, now>>)[1], now + 1>> ELSE table[x]]

Extend(table, s, now, dev) ==
  [x \in DOMAIN table \cup Alive(s, dev) |->
     IF x \in Alive(s, dev) THEN <<Lookup(table, x, <<now, now>>)[1], now>> ELSE table[x]]

CollectStmt ==
  /\ phase = "collect" /\ cursor <= Len(ret)
  /\ LET s == ret[cursor]
         touched == {d \in {DeviceOf(o.target) : o \in ToSet(program.ops)} : Alive(s, d) # {}}
     IN  lifecycles' = [d \in DOMAIN lifecycles \cup touched |->
                          Extend(Lookup(lifecycles, d, NoEntries), s, cursor - 1, d)]
  /\ cursor' = cursor + 1
  /\ UNCHANGED <<phase, graphVars, orderVars, planVars, devices, uses, arg_name>>

EndCollect ==
  /\ phase = "collect" /\ cursor > Len(ret)
  /\ devices' = DOMAIN lifecycles
  /\ phase' = "apply"
  /\ UNCHANGED <<graphVars, orderVars, planVars, lifecycles, cursor, uses, arg_name>>

-----------------------------------------------------------------------------
(* The loop of Apply over the devices, in the order of an unordered_map:   *)
(* MakeReusePlan, then PerformReusePlan.                                   *)

BeginPlan(dev) ==
  /\ phase = "apply" /\ dev \in devices
  /\ \E order \in SetToSeqs(DOMAIN lifecycles[dev]) : Plan!Call(lifecycles[dev], order)
  /\ devices' = devices \ {dev}
  /\ phase' = "plan"
  /\ UNCHANGED <<graphVars, orderVars, lifecycles, cursor, uses, arg_name>>

StepPlan ==
  /\ phase = "plan" /\ Plan!PlanStep
  /\ UNCHANGED <<phase, graphVars, orderVars, passVars>>

BeginPerform ==
  /\ phase = "plan" /\ Plan!PlanDone
  /\ cursor' = 1
  /\ phase' = "perform"
  /\ UNCHANGED <<graphVars, orderVars, planVars, lifecycles, devices, uses, arg_name>>

\* name = reuse_table.at(x), when the table has x
Renamed(x) == Lookup(node2cluster, x, x)

RenamedUses(s) == [n \in DOMAIN uses[s] |-> Renamed(uses[s][n])]

\* The new OpDesc of the statement (ResetOp) and the names of its arguments.
PerformStmt ==
  /\ phase = "perform" /\ cursor <= Len(ret)
  /\ LET s == ret[cursor] IN
       /\ uses' = [uses EXCEPT ![s] = RenamedUses(s)]
       /\ arg_name' = [n \in DOMAIN arg_name |->
                         IF n \in Links(s) /\ Renamed(arg_name[n]) # arg_name[n]
                         THEN <<Renamed(arg_name[n])>> ELSE arg_name[n]]
  /\ cursor' = cursor + 1
  /\ UNCHANGED <<phase, graphVars, orderVars, planVars, lifecycles, devices>>

\* Mutant: the lifetimes are collected again for every device.
EndPerform_again ==
  /\ phase = "perform" /\ cursor > Len(ret)
  /\ phase' = "collect"
  /\ UNCHANGED <<graphVars, orderVars, planVars, passVars>>

EndPerform ==
  /\ phase = "perform" /\ cursor > Len(ret)
  /\ phase' = "apply"
  /\ UNCHANGED <<graphVars, orderVars, planVars, passVars>>

-----------------------------------------------------------------------------
(* The rest of the pipeline.                                               *)

BuildGraph ==
  /\ phase = "build" /\ BuildOp
  /\ UNCHANGED <<phase, orderVars, planVars, passVars>>

BeginSort ==
  /\ phase = "build" /\ GraphBuilt
  /\ Order!CallSort(AdjList)
  /\ uses' = [s \in DOMAIN inlinks |-> [n \in Links(s) |-> n[1]]]
  /\ arg_name' = [n \in UNION {Links(s) : s \in DOMAIN inlinks} |-> n[1]]
  /\ phase' = "sort"
  /\ UNCHANGED <<graphVars, planVars, lifecycles, devices, cursor>>

StepSort ==
  /\ phase = "sort" /\ Order!SortStep
  /\ UNCHANGED <<phase, graphVars, planVars, passVars>>

\* The pass runs when ARM is among the valid places, and is skipped otherwise.
EndSort ==
  /\ phase = "sort" /\ Order!Sorted
  /\ phase' \in {"collect", "apply"}
  /\ UNCHANGED <<graphVars, orderVars, planVars, passVars>>

\* GenerateProgramPass: one instruction per statement, in the order of ret.
Generate ==
  /\ phase = "apply" /\ devices = {}
  /\ phase' = "generated"
  /\ UNCHANGED <<graphVars, orderVars, planVars, passVars>>

PipelineInit ==
  /\ GraphInit
  /\ phase = "build"
  /\ Order!StartSort(NoEntries)
  /\ Plan!Start(NoEntries, <<>>)
  /\ lifecycles = NoEntries /\ devices = {} /\ cursor = 1
  /\ uses = NoEntries /\ arg_name = NoEntries

PipelineNext ==
  \/ BuildGraph \/ BeginSort \/ StepSort \/ EndSort
  \/ CollectStmt \/ EndCollect
  \/ \E dev \in devices : BeginPlan(dev)
  \/ StepPlan \/ BeginPerform \/ PerformStmt \/ EndPerform
  \/ Generate

PipelineSpec == PipelineInit /\ [][PipelineNext]_pipelineVars

-----------------------------------------------------------------------------
Nodes == UNION {Links(s) : s \in DOMAIN inlinks}

(* Type invariant: the tables speak of this program's statements, nodes    *)
(* and names.                                                              *)
PipelineTypeOK ==
  /\ phase \in {"build", "sort", "collect", "apply", "plan", "perform", "generated"}
  /\ \A d \in DOMAIN lifecycles : \A x \in DOMAIN lifecycles[d] :
       /\ x \in Name
       /\ lifecycles[d][x][1] \in 0..lifecycles[d][x][2]
       /\ lifecycles[d][x][2] \in 0..(Len(program.ops) - 1)
  /\ devices \subseteq DOMAIN lifecycles
  /\ cursor \in 1..(Len(program.ops) + 1)
  /\ \A s \in DOMAIN uses : uses[s] \in [Links(s) -> Name]

\* A name is written on one device, and not read before it is.
OneDevice(p) ==
  \A s, t \in DOMAIN p.ops : \A x \in p.ops[t].out :
    /\ x \in p.ops[s].out => DeviceOf(p.ops[s].target) = DeviceOf(p.ops[t].target)
    /\ x \in p.ops[s].in => \E u \in 1..(s - 1) : x \in p.ops[u].out

(* "Only the vars on the same device can be reused": arguments that share  *)
(* a variable after the pass and did not before live on one device.        *)
SameDeviceOnly ==
  phase = "generated" =>
    \A s, t \in DOMAIN uses : \A n \in outlinks[s], m \in outlinks[t] :
      uses[s][n] = uses[t][m] /\ n[1] # m[1] =>
        NodeTarget(n) = NodeTarget(m) \/ {NodeTarget(n), NodeTarget(m)} \subseteq HostTargets
=============================================================================
