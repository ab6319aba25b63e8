------------------------------ MODULE ReusePlan ------------------------------
(***************************************************************************)
(* MemoryOptimizePass::MakeReusePlan: the variables of one device are put  *)
(* in clusters that share memory.  The outer loop opens a cluster for the  *)
(* next variable without one, the inner loop adds every later variable     *)
(* that overlaps no member.  One step is one iteration of a loop.          *)
(* A node has a cluster index exactly when it is a key of node2cluster,    *)
(* and the index is left out.                                              *)
(***************************************************************************)
EXTENDS Integers, SequencesExt, Maps

CONSTANTS Lifecycles   \* the lifetime tables of a device

\* A table is a finite map to first and last positions.
ASSUME LifecyclesAssumption ==
  \A lc \in Lifecycles :
    /\ IsFiniteSet(DOMAIN lc)
    /\ \A v \in DOMAIN lc : lc[v][1] \in Int /\ lc[v][2] \in Int /\ lc[v][1] <= lc[v][2]

VARIABLES lifetime,      \* variable -> <<first, last>>
          mem_nodes,     \* the variables in the order the unordered_map is walked
          node2cluster,  \* variable -> variable its cluster is named after
          i,             \* index of the outer loop
          j,             \* index of the inner loop, 0 while it does not run
          cluster_adj    \* what overlaps a member of the open cluster

planVars == <<lifetime, mem_nodes, node2cluster, i, j, cluster_adj>>

Start(lc, order) ==
  /\ lifetime = lc /\ mem_nodes = order
  /\ node2cluster = NoEntries
  /\ i = 1 /\ j = 0 /\ cluster_adj = {}

\* The same as a step, for the pass that calls MakeReusePlan.
Call(lc, order) ==
  /\ lifetime' = lc /\ mem_nodes' = order
  /\ node2cluster' = NoEntries
  /\ i' = 1 /\ j' = 0 /\ cluster_adj' = {}

Init == \E lc \in Lifecycles : \E order \in SetToSeqs(DOMAIN lc) : Start(lc, order)

\* Mutant: lifetimes that touch do not overlap.
Overlap_touching(a, b) == b[2] > a[1] /\ a[2] > b[1]
Overlap(a, b) == b[2] >= a[1] /\ a[2] >= b[1]

\* MemNode::adj
Adj(v) == {u \in DOMAIN lifetime : u # v /\ Overlap(lifetime[v], lifetime[u])}

Placed(k) == mem_nodes[k] \in DOMAIN node2cluster

Outer == j = 0 /\ i <= Len(mem_nodes)
Inner == j > 0 /\ j <= Len(mem_nodes)

\* Mutant: continue without the next node.
SkipNode_stuck == Outer /\ Placed(i) /\ UNCHANGED planVars

SkipNode ==
  /\ Outer /\ Placed(i)
  /\ i' = i + 1
  /\ UNCHANGED <<lifetime, mem_nodes, node2cluster, j, cluster_adj>>

\* Mutant: the head of a cluster is not entered in the table.
OpenCluster_unnamed ==
  /\ Outer /\ ~Placed(i)
  /\ cluster_adj' = Adj(mem_nodes[i])
  /\ j' = i + 1
  /\ UNCHANGED <<lifetime, mem_nodes, node2cluster, i>>

OpenCluster ==
  /\ Outer /\ ~Placed(i)
  /\ node2cluster' = Assign(node2cluster, mem_nodes[i], mem_nodes[i])
  /\ cluster_adj' = Adj(mem_nodes[i])
  /\ j' = i + 1
  /\ UNCHANGED <<lifetime, mem_nodes, i>>

\* Mutant: only the head of the cluster is looked at.
CanJoin_headOnly(k) == ~Placed(k) /\ mem_nodes[k] \notin Adj(mem_nodes[i])
CanJoin(k) == ~Placed(k) /\ mem_nodes[k] \notin cluster_adj

JoinCluster ==
  /\ Inner /\ CanJoin(j)
  /\ node2cluster' = Assign(node2cluster, mem_nodes[j], mem_nodes[i])
  /\ cluster_adj' = cluster_adj \cup Adj(mem_nodes[j])
  /\ j' = j + 1
  /\ UNCHANGED <<lifetime, mem_nodes, i>>

PassOver ==
  /\ Inner /\ ~CanJoin(j)
  /\ j' = j + 1
  /\ UNCHANGED <<lifetime, mem_nodes, node2cluster, i, cluster_adj>>

CloseCluster ==
  /\ j > Len(mem_nodes)
  /\ i' = i + 1 /\ j' = 0
  /\ UNCHANGED <<lifetime, mem_nodes, node2cluster, cluster_adj>>

PlanDone == j = 0 /\ i > Len(mem_nodes)

PlanStep == SkipNode \/ OpenCluster \/ JoinCluster \/ PassOver \/ CloseCluster

Next == PlanStep

Spec == Init /\ [][Next]_planVars
FairSpec == Spec /\ WF_planVars(Next)

-----------------------------------------------------------------------------
(* Type invariant: the loop indices stay within the node list, the plan is *)
(* a partial map between the variables of this device.                     *)
TypeOK ==
  /\ lifetime \in Lifecycles
  /\ mem_nodes \in SetToSeqs(DOMAIN lifetime)
  /\ DOMAIN node2cluster \subseteq DOMAIN lifetime
  /\ \A v \in DOMAIN node2cluster : node2cluster[v] \in DOMAIN lifetime
  /\ i \in 1..(Len(mem_nodes) + 1)
  /\ j \in 0..(Len(mem_nodes) + 1)
  /\ cluster_adj \subseteq DOMAIN lifetime

(* Two variables in one cluster are never alive at the same position: "The *)
(* vars can be reused if there is no overlap between them", the comment    *)
(* over the greedy loop.                                                   *)
NoOverlapInCluster ==
  \A u, v \in DOMAIN node2cluster :
    u # v /\ node2cluster[u] = node2cluster[v] => ~Overlap(lifetime[u], lifetime[v])

(* The plan is applied by one substitution, so the variable a cluster is   *)
(* named after has to keep its own name in every intermediate table.       *)
HeadKeepsItsName ==
  \A v \in DOMAIN node2cluster :
    /\ node2cluster[v] \in DOMAIN node2cluster
    /\ node2cluster[node2cluster[v]] = node2cluster[v]

Members(h) == {v \in DOMAIN node2cluster : node2cluster[v] = h}

(* The two loops end.                                                      *)
PlanEnds == <>PlanDone

(* The greedy loops compute a plan as MemoryReuse promises one.            *)
Promise == INSTANCE MemoryReuse WITH plan <- node2cluster
KeepsPromise == Promise!RSpec
=============================================================================
