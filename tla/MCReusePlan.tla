---------------------------- MODULE MCReusePlan ----------------------------
(* Every lifetime table over some of Var and the positions 0..MaxCycle.    *)
EXTENDS ReusePlan

CONSTANTS Var, MaxCycle

MCInterval == {t \in (0..MaxCycle) \X (0..MaxCycle) : t[1] <= t[2]}
MCLifecycles == UNION {[S -> MCInterval] : S \in SUBSET Var}
=============================================================================
