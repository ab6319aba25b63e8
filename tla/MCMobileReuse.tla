---------------------------- MODULE MCMobileReuse ----------------------------
(* A feed, up to Size operators and fetches.  An operator reads one or two *)
(* variables that are written; it writes one or two new ones or one that   *)
(* is there already.                                                       *)
EXTENDS MobileReuse

CONSTANTS Size, MaxVars

Names == <<"a", "b", "c", "d", "e", "f">>

MCVar == {Names[k] : k \in 1..MaxVars} \cup {"feed", "fetch"}

Op(type, in, para, out) == [type |-> type, in |-> in, para |-> para, out |-> out]

FeedOp == Op("feed", <<"feed">>, <<>>, <<"a">>)
FetchOp(v) == Op("fetch", <<v>>, <<>>, <<"fetch">>)

Written(ops) == UNION {ToSet(op.out) : op \in ToSet(ops)} \ {"fetch"}

Outs(ops) ==
  LET n == Cardinality(Written(ops)) IN
  {<<v>> : v \in Written(ops)}
    \cup (IF n + 1 <= MaxVars THEN {<<Names[n + 1]>>} ELSE {})
    \cup (IF n + 2 <= MaxVars
           THEN {<<Names[n + 1], Names[n + 2]>>, <<Names[n + 2], Names[n + 1]>>} ELSE {})

Number(v) == CHOOSE k \in DOMAIN Names : Names[k] = v
Pairs(ops) == {s \in Written(ops) \X Written(ops) : Number(s[1]) < Number(s[2])}

Ins(ops) == {<<v>> : v \in Written(ops)} \cup Pairs(ops)

\* A second input of a Metal operator is a parameter that is computed.
OpsAfter(runtime, ops) ==
  {IF runtime = "metal" THEN Op("op", <<i[1]>>, Tail(i), o) ELSE Op("op", i, <<>>, o)
     : i \in Ins(ops), o \in Outs(ops)}
  \cup IF runtime = "metal" THEN {FetchOp(v) : v \in Written(ops)} ELSE {}

Bodies(runtime) ==
  LET bodies[n \in 0..Size] ==
        IF n = 0 THEN {<<FeedOp>>}
        ELSE {Append(ops, op) : <<ops, op>> \in
                UNION {{ops} \X OpsAfter(runtime, ops) : ops \in bodies[n - 1]}}
  IN UNION {bodies[n] : n \in 1..Size}

WithFetches(ops) ==
  {Append(ops, FetchOp(v)) : v \in Written(ops)}
  \cup IF Len(ops) > 3 THEN {}
       ELSE {ops \o <<FetchOp(v[1]), FetchOp(v[2])>> : v \in Pairs(ops)}

\* A feed list that is not persistable is excluded, unless the level says
\* otherwise; one that is persistable is left out in the same way.
Settings(runtime) ==
  IF runtime = "metal" THEN {<<"full", {"feed", "fetch"}>>}
  ELSE {<<"full", {"fetch"}>>, <<"withoutFeeds", {"fetch"}>>}

ProgramsOn(runtime) ==
  {[runtime |-> runtime, level |-> s[1], persistable |-> s[2], ops |-> ops] :
     s \in Settings(runtime), ops \in UNION {WithFetches(b) : b \in Bodies(runtime)}}

MCPrograms == {p \in ProgramsOn("cpu") \cup ProgramsOn("metal") : Plannable(p)}
=============================================================================
