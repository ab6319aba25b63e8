---------------------------- MODULE DataflowOrder ----------------------------
(***************************************************************************)
(* What an execution order of a graph has to respect: one statement after  *)
(* the other, each once, each after the statements whose output it reads.  *)
(***************************************************************************)
EXTENDS Integers, Sequences

CONSTANTS Graphs      \* statement -> statements it reads from

VARIABLES adj_list,   \* the graph
          done        \* the statements scheduled, in order

dataflowVars == <<adj_list, done>>

Scheduled == {done[k] : k \in DOMAIN done}

DInit == adj_list \in Graphs /\ done = <<>>

\* The statement s may run: it has not, and everything it reads is there.
Ready(s) == s \notin Scheduled /\ adj_list[s] \subseteq Scheduled

DNext ==
  /\ \E s \in DOMAIN adj_list : Ready(s) /\ done' = Append(done, s)
  /\ UNCHANGED adj_list

DSpec == DInit /\ [][DNext]_dataflowVars
=============================================================================
