---------------------------- MODULE MCStmtOrder ----------------------------
(* Every graph of Size statements without a cycle, up to the names of the  *)
(* statements: an edge leads to a lower number.                            *)
EXTENDS StmtOrder

CONSTANTS Size

MCGraphs ==
  {g \in [1..Size -> SUBSET (1..Size)] : \A s \in 1..Size : g[s] \subseteq 1..(s - 1)}
=============================================================================
