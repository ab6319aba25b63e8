----------------------------- MODULE MCSSAGraph -----------------------------
(* Every program of MaxOps operators over two names.                       *)
EXTENDS SSAGraph

CONSTANTS x, y, MaxOps

MCName == {x, y}
MCOperator == [type : {"calc"}, in : SUBSET MCName, out : SUBSET MCName, target : {"arm"}]
MCPrograms == [ops : [1..MaxOps -> MCOperator], weights : {{}}]
=============================================================================
