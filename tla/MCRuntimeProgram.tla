-------------------------- MODULE MCRuntimeProgram --------------------------
(* Programs to optimise and run.                                           *)
EXTENDS RuntimeProgram

CONSTANTS feed, fetch, a, b, c, d, e, w

On(target, type, in, out) == [type |-> type, in |-> in, out |-> out, target |-> target]
Arm(type, in, out) == On("arm", type, in, out)
FeedTo(x) == On("host", "feed", {feed}, {x})
FetchFrom(x) == On("host", "fetch", {x}, {fetch})
Prog(ops, weights, persist) == [ops |-> ops, weights |-> weights, persist |-> persist]

\* Every second variable of a chain can take the memory of the last but one.
Chain == Prog(<<FeedTo(a), Arm("calc", {a}, {b}), Arm("calc", {b}, {c}),
                Arm("calc", {c}, {d}), Arm("calc", {d}, {e}), FetchFrom(e)>>, {}, {})

\* A value that is read again late.
Residual == Prog(<<FeedTo(a), Arm("calc", {a}, {b}), Arm("calc", {b}, {c}),
                   Arm("calc", {c}, {d}), Arm("calc", {b, d}, {e}), FetchFrom(e)>>, {}, {})

\* Two branches whose order is up to the addresses, and two outputs.
Branches == Prog(<<FeedTo(a), Arm("calc", {a}, {b}), Arm("calc", {b}, {c}),
                   Arm("calc", {a}, {d}), FetchFrom(c), FetchFrom(d)>>, {}, {})

\* An operator of the list, and a calculation past it.
Concat == Prog(<<FeedTo(a), Arm("calc", {a}, {b}), Arm("concat", {a, b}, {c}),
                 Arm("calc", {c}, {d}), Arm("calc", {d}, {e}), FetchFrom(e)>>, {}, {})

\* A weight that is copied once, and variables around it.
Weighted == Prog(<<FeedTo(a), Arm("layout_once", {w}, {b}), Arm("calc", {a, b}, {c}),
                   Arm("calc", {c}, {d}), Arm("calc", {d}, {e}), FetchFrom(e)>>, {w}, {b})

\* Part of the chain runs on another device.
TwoDevices == Prog(<<FeedTo(a), Arm("calc", {a}, {b}), On("opencl", "io_copy", {b}, {c}),
                     On("opencl", "calc", {c}, {d}), On("opencl", "calc", {d}, {w}),
                     On("host", "io_copy", {w}, {e}), FetchFrom(e)>>, {}, {})

\* A variable that is overwritten by its only reader.
Inplace == Prog(<<FeedTo(a), Arm("calc", {a}, {b}), Arm("relu", {b}, {b}),
                  Arm("calc", {b}, {c}), Arm("calc", {c}, {d}), FetchFrom(d)>>, {}, {})

\* Every program of four operators between feed and fetch that gives each its
\* own output and any one or two earlier variables, the second of them maybe a concat.
Readable(k) == CASE k = 1 -> {a} [] k = 2 -> {a, b} [] k = 3 -> {a, b, c} [] k = 4 -> {a, b, c, d}
Result(k) == CASE k = 1 -> b [] k = 2 -> c [] k = 3 -> d [] k = 4 -> e
Reads == {f \in [1..4 -> SUBSET Readable(4)] :
            \A k \in 1..4 : f[k] \subseteq Readable(k) /\ Cardinality(f[k]) \in 1..2}
SingleAssignment ==
  {Prog(<<FeedTo(a)>>
        \o [k \in 1..4 |-> Arm(IF k = concat THEN "concat" ELSE "calc", f[k], {Result(k)})]
        \o <<FetchFrom(e)>>, {}, {}) : f \in Reads, concat \in {0, 2}}

SoundPrograms ==
  SingleAssignment \cup {Chain, Residual, Branches, Concat, Weighted, TwoDevices, Inplace}

\* They meet the condition under which the pipeline is proved right.
ASSUME SoundAssumption == \A p \in SoundPrograms : Sound(p)

\* The programs below are not in SoundPrograms: the pipeline is wrong for them,
\* and with Programs set to one of them ReadsItsProducer is violated.

\* A reshape that shares its input's buffer, whose output is read late.
Shared == Prog(<<FeedTo(a), Arm("calc", {a}, {b}), On("host", "reshape_inplace", {b}, {c}),
                 Arm("calc", {a}, {d}), Arm("calc", {c, d}, {e}), FetchFrom(e)>>, {}, {})
SharedPrograms == {Shared}

\* The weighted chain, saved after its optimisation and optimised again: the
\* mark of the copied weight is not in the saved program.
Reloaded == [Weighted EXCEPT !.persist = {}]
ReloadedPrograms == {Reloaded}

\* A variable that is overwritten by its only reader and then fetched.  The
\* first version is in the plan under the name of both, the second is not, and
\* what comes after the overwriting can be given its memory.
InplaceFetched == Prog(<<FeedTo(a), Arm("calc", {a}, {b}), Arm("relu", {b}, {b}),
                         Arm("calc", {a}, {c}), Arm("calc", {c}, {d}),
                         FetchFrom(b), FetchFrom(d)>>, {}, {})
OverwrittenPrograms == {InplaceFetched}

MCName == {feed, fetch, a, b, c, d, e, w}
MCOpType == {"feed", "fetch", "calc", "concat", "relu", "io_copy", "layout_once", "reshape_inplace"}
MCTarget == {"host", "arm", "opencl"}
=============================================================================
