----------------------------- MODULE MCSubgraph -----------------------------
(* Programs for the NPU pass.                                              *)
EXTENDS Subgraph

CONSTANTS a, b, c, d, e, f, g, w

Op(type, in, out) == [type |-> type, in |-> in, out |-> out, target |-> "any"]
Prog(ops) == [ops |-> ops, weights |-> {w}]

MCName == {a, b, c, d, e, f, g, w}
MCOpType == {"npu", "cpu"}

\* Four operators, each of which reads one variable that is fed or an earlier one
\* writes, two of them a weight as well; the first two write two variables.
Outs == <<{b, c}, {d, e}, {f}, {g}>>
From(k) == {a} \cup UNION {Outs[p] : p \in 1..(k - 1)}
TreePrograms ==
  {Prog(<<Op(type[1], {a}, Outs[1]), Op(type[2], {i2, w}, Outs[2]),
          Op(type[3], {i3}, Outs[3]), Op(type[4], {i4, w}, Outs[4])>>) :
     type \in [1..4 -> MCOpType], i2 \in From(2), i3 \in From(3), i4 \in From(4)}

\* Four operators with one output that read one or two variables, and of which
\* any but the first may run on the CPU.
Earlier == <<{a}, {a, b}, {a, b, c}, {a, b, c, d}>>
Inputs(k) == {{x, y} : x, y \in Earlier[k]}
JoinedPrograms ==
  {Prog(<<Op(type[1], {a}, {b}), Op(type[2], i2, {c}), Op(type[3], i3, {d}), Op(type[4], i4, {e})>>) :
     type \in [1..4 -> MCOpType], i2 \in Inputs(2), i3 \in Inputs(3), i4 \in Inputs(4)}

SoundPrograms == {p \in TreePrograms \cup JoinedPrograms : Layered(p) /\ OneHead(p)}

ASSUME TreeAssumption == TreePrograms \subseteq SoundPrograms
ASSUME SoundAssumption == \A p \in SoundPrograms : WritesOnce(p) /\ KeepsWeights(p)

\* Two heads and a statement that reads from both; one more reads the second.
\* ReadersSupplied is violated with it, and it is not in SoundPrograms.
JoinPrograms ==
  {Prog(<<Op("npu", {a}, {b}), Op("npu", {a}, {c}), Op("npu", {b, c}, {d}),
          Op("npu", {c}, {e}), Op("cpu", {d, e}, {})>>)}
=============================================================================
