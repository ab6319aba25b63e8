----------------------------- MODULE MemoryReuse -----------------------------
(***************************************************************************)
(* What a memory reuse plan promises, apart from how one is computed.      *)
(* Every variable has a lifetime, the first and the last position of the   *)
(* execution order at which it is touched.  A plan gives each variable the *)
(* variable whose memory it will occupy, and variables that occupy the     *)
(* same memory are never alive at the same time.                           *)
(***************************************************************************)
EXTENDS Integers, FiniteSets, Maps

VARIABLES lifetime,   \* variable -> <<first, last>>
          plan        \* variable placed so far -> variable whose memory it takes

reuseVars == <<lifetime, plan>>

Disjoint(a, b) == a[2] < b[1] \/ b[2] < a[1]

\* The variables already placed in the memory of r.
Tenants(r) == {v \in DOMAIN plan : plan[v] = r}

\* v may move in with r when it is alive together with none of the tenants.
Compatible(v, r) == \A u \in Tenants(r) : Disjoint(lifetime[u], lifetime[v])

\* Whatever the lifetimes, nothing is placed.
RInit == plan = NoEntries

\* v keeps its own memory.
OwnMemory(v) == plan' = Assign(plan, v, v)

\* v takes the memory of r, which keeps its own.
ShareMemory(v, r) ==
  /\ Compatible(v, r)
  /\ plan' = Assign(plan, v, r)

RNext ==
  \E v \in DOMAIN lifetime \ DOMAIN plan :
    /\ \/ OwnMemory(v)
       \/ \E r \in {p \in DOMAIN plan : plan[p] = p} : ShareMemory(v, r)
    /\ UNCHANGED lifetime

RSpec == RInit /\ [][RNext]_reuseVars
=============================================================================
