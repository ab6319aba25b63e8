------------------------------ MODULE StmtOrder ------------------------------
(***************************************************************************)
(* SSAGraph::StmtTopologicalOrder and SortHelper: a depth-first search     *)
(* over the statements that appends a statement when the search leaves it. *)
(* Both loops run over containers of Node pointers, in the order of their  *)
(* addresses.  A loop that skips what is visited takes the lowest address  *)
(* not visited yet, and a statement is compared with the ones visited      *)
(* after it only, so that every sequence of free choices is the search     *)
(* under some assignment of addresses, and every assignment is one such    *)
(* sequence: the addresses need no variable.                               *)
(***************************************************************************)
EXTENDS Integers, Sequences, FiniteSets

CONSTANTS Graphs   \* adjacency lists to sort: statement -> statements it reads from

VARIABLES adj_list,  \* the adjacency list being sorted
          calls,     \* the statements of the pending SortHelper calls, innermost last
          visited,   \* statements a SortHelper call was made for
          ret        \* the order computed so far

orderVars == <<adj_list, calls, visited, ret>>

\* A certificate that a graph has no cycle: its edges lead to lower ranks.
Ranks(g, r) == \A s \in DOMAIN g : \A p \in g[s] : p \in DOMAIN g /\ r[p] < r[s]
IsDag(g) == \E r \in [DOMAIN g -> 0..Cardinality(DOMAIN g)] : Ranks(g, r)

ASSUME GraphsAssumption == \A g \in Graphs : IsFiniteSet(DOMAIN g) /\ IsDag(g)

StartSort(g) ==
  /\ adj_list = g
  /\ calls = <<>> /\ visited = {} /\ ret = <<>>

\* The call, as a step of a caller.
CallSort(g) ==
  /\ adj_list' = g
  /\ calls' = <<>> /\ visited' = {} /\ ret' = <<>>

Top == calls[Len(calls)]

\* The entry of SortHelper(node).
Enter(s) ==
  /\ visited' = visited \cup {s}
  /\ calls' = Append(calls, s)
  /\ UNCHANGED <<adj_list, ret>>

\* Mutant: the search starts from statements that read from none.
VisitRoot_sources ==
  /\ calls = <<>>
  /\ \E s \in DOMAIN adj_list \ visited : adj_list[s] = {} /\ Enter(s)

\* The loop of StmtTopologicalOrder.
VisitRoot ==
  /\ calls = <<>>
  /\ \E s \in DOMAIN adj_list \ visited : Enter(s)

\* The loop of SortHelper.
VisitProducer ==
  /\ calls # <<>>
  /\ \E p \in adj_list[Top] \ visited : Enter(p)

\* Mutants: the statement is pushed without waiting for what it reads; the
\* call returns without pushing.
Leave_early ==
  /\ calls # <<>>
  /\ ret' = Append(ret, Top)
  /\ calls' = SubSeq(calls, 1, Len(calls) - 1)
  /\ UNCHANGED <<adj_list, visited>>

Leave_unpushed ==
  /\ calls # <<>>
  /\ adj_list[Top] \subseteq visited
  /\ calls' = SubSeq(calls, 1, Len(calls) - 1)
  /\ UNCHANGED <<adj_list, visited, ret>>

Leave ==
  /\ calls # <<>>
  /\ adj_list[Top] \subseteq visited
  /\ ret' = Append(ret, Top)
  /\ calls' = SubSeq(calls, 1, Len(calls) - 1)
  /\ UNCHANGED <<adj_list, visited>>

Sorted == calls = <<>> /\ visited = DOMAIN adj_list

SortStep == VisitRoot \/ VisitProducer \/ Leave

SortInit == \E g \in Graphs : StartSort(g)
SortSpec == SortInit /\ [][SortStep]_orderVars
FairSortSpec == SortSpec /\ WF_orderVars(SortStep)

-----------------------------------------------------------------------------
Emitted == {ret[k] : k \in DOMAIN ret}
Pending == {calls[k] : k \in DOMAIN calls}

(* Type invariant: a visited statement is either waiting on the call stack *)
(* or in the result, never both and never twice.                           *)
SortTypeOK ==
  /\ adj_list \in Graphs
  /\ calls \in Seq(DOMAIN adj_list) /\ ret \in Seq(DOMAIN adj_list)
  /\ visited = Pending \cup Emitted
  /\ Pending \cap Emitted = {}
  /\ \A k, l \in DOMAIN ret : ret[k] = ret[l] => k = l
  /\ \A k, l \in DOMAIN calls : calls[k] = calls[l] => k = l

(* Whatever the addresses, a statement comes after every statement whose   *)
(* output it reads.                                                        *)
ProducersFirst ==
  \A k \in DOMAIN ret : \A p \in adj_list[ret[k]] : \E l \in 1..(k - 1) : ret[l] = p

(* The result of the call lists every statement of the graph.              *)
Complete == Sorted => Emitted = DOMAIN adj_list

(* The search ends.                                                        *)
SortEnds == <>Sorted

(* A scheduler that runs any statement whose producers have run: the       *)
(* search is one such scheduler.                                           *)
Schedule == INSTANCE DataflowOrder WITH done <- ret
IsSchedule == Schedule!DSpec
=============================================================================
