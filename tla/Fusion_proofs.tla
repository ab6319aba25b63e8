---------------------------- MODULE Fusion_proofs ----------------------------
(***************************************************************************)
(* Fusing and eliminating operators keeps the graph and the meaning of a   *)
(* program, for every program, of any length, and for every order the      *)
(* matches come in.                                                        *)
(*                                                                         *)
(* What a match of each fuser is, is read off its pattern once (Fits).  A  *)
(* graph that mirrors its descriptions is kept so while the nodes of the   *)
(* matches are not yet deleted (Inserting): the matches are Separate, and  *)
(* what goes is linked inside of its match only.  What a fuser may rely on *)
(* depends on the fusers before it (Phase).  The meaning of a variable is  *)
(* the only one that agrees with every operator, for the operators can be  *)
(* ranked, so it is enough that one assignment of meanings stays right.    *)
(***************************************************************************)
EXTENDS Fusion, FiniteSetTheorems, WellFoundedInduction, TLAPS

-----------------------------------------------------------------------------
(* The recursive functions of PatternMatcher.                              *)

\* A set of numbers that is not empty has a least one.
LEMMA LeastOf ==
  ASSUME NEW S, S \subseteq Nat, S # {}
  PROVE  \E k \in S : \A l \in S : k <= l
<1> DEFINE R == {p \in Nat \X Nat : p[1] < p[2]}
<1>1. IsWellFoundedOn(R, Nat)
  BY NatLessThanWellFounded, Zenon DEF OpToRel
<1>2. \A k, l \in Nat : <<l, k>> \notin R => k <= l
  OBVIOUS
<1> HIDE DEF R
<1>3. \E k \in S : \A l \in S : <<l, k>> \notin R
  BY <1>1, WFMin
<1> QED
  BY <1>2, <1>3

\* The functions by which the matcher's sets and sequences are defined, for the
\* first n edges or matches.
GroupsTo(f, edges, n) ==
  f = [k \in 0..n |-> IF k = 0 THEN {NoEntries} ELSE Extended(f[k - 1], edges[k])]

KeptTo(f, found, n) ==
  f = [k \in 0..n |->
         IF k = 0 THEN <<>>
         ELSE IF Overlaps(found[k], f[k - 1]) THEN f[k - 1] ELSE Append(f[k - 1], found[k])]

ValidTo(f, matches, n) ==
  f = [k \in 0..n |->
         IF k = 0 THEN <<>>
         ELSE IF StaysInside(matches[k]) THEN Append(f[k - 1], matches[k]) ELSE f[k - 1]]

LEMMA GroupsExist ==
  ASSUME NEW edges, NEW n \in Nat
  PROVE  \E f : GroupsTo(f, edges, n)
<1> DEFINE Start == {NoEntries}
           Step(earlier, k) == Extended(earlier, edges[k])
           Bad == {k \in Nat : ~ \E f : GroupsTo(f, edges, k)}
<1>1. SUFFICES ASSUME Bad # {} PROVE FALSE
  OBVIOUS
<1>2. PICK m \in Bad : \A l \in Bad : m <= l
  <2>1. Bad \subseteq Nat
    OBVIOUS
  <2> HIDE DEF Bad
  <2> QED
    BY <1>1, <2>1, LeastOf
<1>3. CASE m = 0
  <2>1. GroupsTo([k \in 0..0 |-> Start], edges, 0)
    BY DEF GroupsTo
  <2> QED
    BY <1>2, <1>3, <2>1
<1>4. CASE m # 0
  <2>1. m \in Nat /\ m - 1 \in Nat /\ m - 1 \notin Bad
    BY <1>2, <1>4
  <2>2. PICK f : GroupsTo(f, edges, m - 1)
    BY <2>1
  <2> DEFINE g == [k \in 0..m |-> IF k < m THEN f[k] ELSE Step(f[m - 1], m)]
  <2>3. \A k \in 0..(m - 1) : f[k] = IF k = 0 THEN Start ELSE Step(f[k - 1], k)
    BY <2>2 DEF GroupsTo
  <2> HIDE DEF Step, Start
  <2>4. \A k \in 0..m : g[k] = IF k = 0 THEN Start ELSE Step(g[k - 1], k)
    BY <1>4, <2>1, <2>3
  <2> USE DEF Step, Start
  <2>5. GroupsTo(g, edges, m)
    BY <2>4, Zenon DEF GroupsTo
  <2> QED
    BY <1>2, <2>5
<1> QED
  BY <1>3, <1>4

LEMMA KeptExist ==
  ASSUME NEW found, NEW n \in Nat
  PROVE  \E f : KeptTo(f, found, n)
<1> DEFINE Step(earlier, k) ==
             IF Overlaps(found[k], earlier) THEN earlier ELSE Append(earlier, found[k])
           Bad == {k \in Nat : ~ \E f : KeptTo(f, found, k)}
<1>1. SUFFICES ASSUME Bad # {} PROVE FALSE
  OBVIOUS
<1>2. PICK m \in Bad : \A l \in Bad : m <= l
  <2>1. Bad \subseteq Nat
    OBVIOUS
  <2> HIDE DEF Bad
  <2> QED
    BY <1>1, <2>1, LeastOf
<1>3. CASE m = 0
  <2>1. KeptTo([k \in 0..0 |-> <<>>], found, 0)
    BY DEF KeptTo
  <2> QED
    BY <1>2, <1>3, <2>1
<1>4. CASE m # 0
  <2>1. m \in Nat /\ m - 1 \in Nat /\ m - 1 \notin Bad
    BY <1>2, <1>4
  <2>2. PICK f : KeptTo(f, found, m - 1)
    BY <2>1
  <2> DEFINE g == [k \in 0..m |-> IF k < m THEN f[k] ELSE Step(f[m - 1], m)]
  <2>3. \A k \in 0..(m - 1) : f[k] = IF k = 0 THEN <<>> ELSE Step(f[k - 1], k)
    BY <2>2 DEF KeptTo
  <2> HIDE DEF Step
  <2>4. \A k \in 0..m : g[k] = IF k = 0 THEN <<>> ELSE Step(g[k - 1], k)
    BY <1>4, <2>1, <2>3
  <2> USE DEF Step
  <2>5. KeptTo(g, found, m)
    BY <2>4, Zenon DEF KeptTo
  <2> QED
    BY <1>2, <2>5
<1> QED
  BY <1>3, <1>4

LEMMA ValidExist ==
  ASSUME NEW matches, NEW n \in Nat
  PROVE  \E f : ValidTo(f, matches, n)
<1> DEFINE Step(earlier, k) ==
             IF StaysInside(matches[k]) THEN Append(earlier, matches[k]) ELSE earlier
           Bad == {k \in Nat : ~ \E f : ValidTo(f, matches, k)}
<1>1. SUFFICES ASSUME Bad # {} PROVE FALSE
  OBVIOUS
<1>2. PICK m \in Bad : \A l \in Bad : m <= l
  <2>1. Bad \subseteq Nat
    OBVIOUS
  <2> HIDE DEF Bad
  <2> QED
    BY <1>1, <2>1, LeastOf
<1>3. CASE m = 0
  <2>1. ValidTo([k \in 0..0 |-> <<>>], matches, 0)
    BY DEF ValidTo
  <2> QED
    BY <1>2, <1>3, <2>1
<1>4. CASE m # 0
  <2>1. m \in Nat /\ m - 1 \in Nat /\ m - 1 \notin Bad
    BY <1>2, <1>4
  <2>2. PICK f : ValidTo(f, matches, m - 1)
    BY <2>1
  <2> DEFINE g == [k \in 0..m |-> IF k < m THEN f[k] ELSE Step(f[m - 1], m)]
  <2>3. \A k \in 0..(m - 1) : f[k] = IF k = 0 THEN <<>> ELSE Step(f[k - 1], k)
    BY <2>2 DEF ValidTo
  <2> HIDE DEF Step
  <2>4. \A k \in 0..m : g[k] = IF k = 0 THEN <<>> ELSE Step(g[k - 1], k)
    BY <1>4, <2>1, <2>3
  <2> USE DEF Step
  <2>5. ValidTo(g, matches, m)
    BY <2>4, Zenon DEF ValidTo
  <2> QED
    BY <1>2, <2>5
<1> QED
  BY <1>3, <1>4

\* What the definitions of the matcher come to.
LEMMA DetectSteps ==
  ASSUME Len(Pattern.edges) \in Nat
  PROVE  \E f : GroupsTo(f, Pattern.edges, Len(Pattern.edges)) /\ DetectPatterns = f[Len(Pattern.edges)]
<1> DEFINE F == CHOOSE f : GroupsTo(f, Pattern.edges, Len(Pattern.edges))
<1>1. GroupsTo(F, Pattern.edges, Len(Pattern.edges))
  BY GroupsExist, Zenon
<1>2. DetectPatterns = F[Len(Pattern.edges)]
  BY Zenon DEF DetectPatterns, GroupsTo
<1> QED
  BY <1>1, <1>2, Zenon

LEMMA OverlapSteps ==
  ASSUME NEW found, Len(found) \in Nat
  PROVE  \E f : KeptTo(f, found, Len(found)) /\ RemoveOverlappedMatch(found) = f[Len(found)]
<1> DEFINE F == CHOOSE f : KeptTo(f, found, Len(found))
<1>1. KeptTo(F, found, Len(found))
  BY KeptExist, Zenon
<1>2. RemoveOverlappedMatch(found) = F[Len(found)]
  BY Zenon DEF RemoveOverlappedMatch, KeptTo
<1> QED
  BY <1>1, <1>2, Zenon

LEMMA ValidSteps ==
  ASSUME NEW matches, Len(matches) \in Nat
  PROVE  \E f : ValidTo(f, matches, Len(matches)) /\ ValidateByNodeRole(matches) = f[Len(matches)]
<1> DEFINE F == CHOOSE f : ValidTo(f, matches, Len(matches))
<1>1. ValidTo(F, matches, Len(matches))
  BY ValidExist, Zenon
<1>2. ValidateByNodeRole(matches) = F[Len(matches)]
  BY Zenon DEF ValidateByNodeRole, ValidTo
<1> QED
  BY <1>1, <1>2, Zenon

-----------------------------------------------------------------------------
(* Descriptions and graphs between two fusers.                             *)

\* Nodes of names: nothing is written twice, so that every version is zero.
Nodes(names) == {<<x, 0>> : x \in names}

GraphOf(d, in, out) ==
  /\ DOMAIN in = DOMAIN d /\ DOMAIN out = DOMAIN d
  /\ \A s \in DOMAIN d : in[s] = Nodes(NamesRead(d[s])) /\ out[s] = Nodes({d[s].out})

\* An operator has the slots of its type; a convolution may have got a bias.
IsMade(op) ==
  /\ DOMAIN op = {"type", "in", "out", "act"} /\ IsFiniteSet(DOMAIN op.in)
  /\ op.type \in DOMAIN Slots =>
       \/ DOMAIN op.in = Slots[op.type]
       \/ op.type = "conv2d" /\ DOMAIN op.in = {"Input", "Filter", "Bias"}

\* What is written is computed from names of a lower rank.
Ranked(d) ==
  \E rank : \A s \in DOMAIN d :
    rank[d[s].out] \in Nat /\ \A x \in NamesRead(d[s]) : rank[x] \in Nat /\ rank[x] < rank[d[s].out]

OneWriter(d, weights) ==
  \A s \in DOMAIN d : d[s].out \notin weights /\ \A t \in DOMAIN d : d[s].out = d[t].out => s = t

WellMade(d, weights) ==
  /\ \E b \in Nat : DOMAIN d \subseteq 1..b
  /\ \A s \in DOMAIN d : IsMade(d[s])
  /\ OneWriter(d, weights) /\ OwnWeights(d, weights) /\ Ranked(d)

-----------------------------------------------------------------------------
(* What a match of each fuser is.                                          *)

At(g, r) == g[r][2]
Named(g, r) == g[r][2][1]

Ops(d, g, roles) == \A r \in roles : At(g, r) \in DOMAIN d /\ g[r] = Stmt(At(g, r))
Vars(g, roles) == \A r \in roles : g[r] = Arg(<<Named(g, r), 0>>)

\* The operator t reads what s writes, and nothing else reads it.
Feeds(d, s, t, name) == s # t /\ d[s].out = name /\ Follows(d, t, s)

FitsBias(d, weights, g) ==
  LET c == At(g, "conv2d") a == At(g, "add") IN
    /\ Ops(d, g, {"conv2d", "add"}) /\ Vars(g, {"input", "filter", "bias", "conv2d_out", "output"})
    /\ d[c].type = "conv2d" /\ DOMAIN d[c].in = {"Input", "Filter"}
    /\ d[c].in.Input = Named(g, "input") /\ d[c].in.Filter = Named(g, "filter")
    /\ Feeds(d, c, a, Named(g, "conv2d_out"))
    /\ d[a].type = "elementwise_add" /\ d[a].in.X = Named(g, "conv2d_out")
    /\ d[a].in.Y = Named(g, "bias") /\ Named(g, "bias") \in weights
    /\ d[a].out = Named(g, "output")

FitsNorm(d, weights, g) ==
  LET c == At(g, "conv2d") b == At(g, "bn") IN
    /\ Ops(d, g, {"conv2d", "bn"})
    /\ Vars(g, {"conv_input", "conv_weight", "conv_out", "bn_scale", "bn_bias", "bn_out"})
    /\ d[c].type = "conv2d" /\ d[c].in.Filter = Named(g, "conv_weight")
    /\ Named(g, "conv_input") \in NamesRead(d[c])
    /\ d[c].out = Named(g, "conv_out")
    /\ d[b].type = "batch_norm" /\ d[b].in.X = Named(g, "conv_out")
    /\ d[b].in.Scale = Named(g, "bn_scale") /\ d[b].in.Bias = Named(g, "bn_bias")
    /\ d[b].out = Named(g, "bn_out")

ActOf(f) == IF f \in {4, 5} THEN "relu" ELSE "leaky_relu"

FitsAct(d, f, g) ==
  LET c == At(g, "conv2d") a == At(g, "act") IN
    /\ Ops(d, g, {"conv2d", "act"}) /\ Vars(g, {"input", "filter", "conv2d_out", "output"})
    /\ d[c].type = "conv2d"
    /\ DOMAIN d[c].in = {"Input", "Filter"} \cup IF f \in {4, 6} THEN {"Bias"} ELSE {}
    /\ d[c].in.Input = Named(g, "input") /\ d[c].in.Filter = Named(g, "filter")
    /\ f \in {4, 6} => Vars(g, {"bias"}) /\ d[c].in.Bias = Named(g, "bias")
    /\ Feeds(d, c, a, Named(g, "conv2d_out"))
    /\ d[a].type = ActOf(f) /\ d[a].in.X = Named(g, "conv2d_out")
    /\ d[a].out = Named(g, "output")

FitsFc(d, weights, g) ==
  LET m == At(g, "mul") a == At(g, "add") IN
    /\ Ops(d, g, {"mul", "add"}) /\ Vars(g, {"x", "W", "b", "mul_out", "Out"})
    /\ d[m].type = "mul" /\ d[m].in.X = Named(g, "x") /\ d[m].in.Y = Named(g, "W")
    /\ Feeds(d, m, a, Named(g, "mul_out"))
    /\ d[a].type = "elementwise_add"
    /\ Named(g, "b") # Named(g, "mul_out")
    /\ {d[a].in.X, d[a].in.Y} = {Named(g, "b"), Named(g, "mul_out")}
    /\ d[a].out = Named(g, "Out")

FitsIdentity(d, g) ==
  LET p == At(g, "preop") s == At(g, "scale") IN
    /\ Ops(d, g, {"preop", "scale"}) /\ Vars(g, {"x", "out"})
    /\ Feeds(d, p, s, Named(g, "x"))
    /\ d[s].type = "scale" /\ d[s].in.X = Named(g, "x") /\ d[s].out = Named(g, "out")

FitsSum(d, g) ==
  LET s == At(g, "add") a == At(g, "act") IN
    /\ Ops(d, g, {"add", "act"}) /\ Vars(g, {"x", "y", "add_out", "output"})
    /\ d[s].type = "elementwise_add"
    /\ Named(g, "x") # Named(g, "y")
    /\ {d[s].in.X, d[s].in.Y} = {Named(g, "x"), Named(g, "y")}
    /\ Feeds(d, s, a, Named(g, "add_out"))
    /\ d[a].type = "relu" /\ d[a].in.X = Named(g, "add_out")
    /\ d[a].out = Named(g, "output")

\* A match of the fuser at position f.
Fits(f, d, weights, g) ==
  /\ f \in {1, 3} => FitsBias(d, weights, g)
  /\ f = 2 => FitsNorm(d, weights, g)
  /\ f \in 4..7 => FitsAct(d, f, g)
  /\ f = 8 => FitsFc(d, weights, g)
  /\ f = 9 => FitsIdentity(d, g)
  /\ f = 10 => FitsSum(d, g)

\* The statements a match removes, the variables that go with them.
Removed(f, g) ==
  IF f \in {1, 3} THEN {At(g, "conv2d"), At(g, "add")}
  ELSE IF f = 2 THEN {At(g, "bn")}
  ELSE IF f \in 4..7 THEN {At(g, "conv2d"), At(g, "act")}
  ELSE IF f = 8 THEN {At(g, "mul"), At(g, "add")}
  ELSE IF f = 9 THEN {}
  ELSE {At(g, "add"), At(g, "act")}

Hidden(f, g) ==
  {Named(g, IF f = 2 THEN "bn_scale" ELSE IF f = 8 THEN "mul_out" ELSE IF f = 9 THEN "x"
            ELSE IF f = 10 THEN "add_out" ELSE "conv2d_out")}

\* The operator that takes their place.
NewOp(f, d, g) ==
  IF f \in {1, 3}
  THEN [d[At(g, "conv2d")] EXCEPT !.in = Assign(@, "Bias", Named(g, "bias")), !.out = Named(g, "output")]
  ELSE IF f = 2
  THEN OpDesc("elementwise_add", [X |-> Named(g, "conv_out"), Y |-> Named(g, "bn_bias")], Named(g, "bn_out"), "none")
  ELSE IF f \in 4..7
  THEN [d[At(g, "conv2d")] EXCEPT !.out = Named(g, "output"), !.act = ActOf(f)]
  ELSE IF f = 8
  THEN OpDesc("fc", [Input |-> Named(g, "x"), W |-> Named(g, "W"), Bias |-> Named(g, "b")], Named(g, "Out"), "none")
  ELSE OpDesc("fusion_elementwise_add_activation", [X |-> Named(g, "x"), Y |-> Named(g, "y")], Named(g, "output"), "relu")

\* What every fuser but IdentityScale does to the descriptions, for one match.
Merging(d, weights, rm, hid, new) ==
  /\ rm \subseteq DOMAIN d /\ IsMade(new) /\ new.type # "scale"
  /\ \E t \in rm :
       /\ new.out = d[t].out
       /\ \A x \in NamesRead(new) :
            x \in NamesRead(d[t]) \/ \E s \in rm : x \in NamesRead(d[s]) /\ Reads(d, t, s)
  /\ \A s \in rm : d[s].out \in {new.out} \cup hid
  /\ \A x \in NamesRead(new) : x \notin hid
  /\ new.out \notin hid
  /\ \A s \in DOMAIN d : ({d[s].out} \cup NamesRead(d[s])) \cap hid # {} => s \in rm
  /\ new.type \in DOMAIN WeightSlots =>
       \A slot \in WeightSlots[new.type] \cap DOMAIN new.in : new.in[slot] \in weights
  /\ \A j, k \in DOMAIN new.in : new.in[j] = new.in[k] /\ new.in[j] \in weights => j = k

\* The descriptions once n of them are merged, the statements are numbered from b.
Merged(d, b, n, rm, new) ==
  [s \in (DOMAIN d \ UNION {rm[k] : k \in 1..n}) \cup (b + 1)..(b + n) |->
     IF s \in DOMAIN d THEN d[s] ELSE new[s - b]]

\* What IdentityScale does to them.
Dropped(d, n, m) ==
  [s \in DOMAIN d \ {At(m[k], "scale") : k \in 1..n} |->
     IF \E k \in 1..n : s = At(m[k], "preop")
     THEN [d[s] EXCEPT !.out = Named(m[CHOOSE k \in 1..n : s = At(m[k], "preop")], "out")]
     ELSE d[s]]

-----------------------------------------------------------------------------
(* The matches that are kept.                                              *)

\* Nothing that a later match of a sequence deletes is part of an earlier one.
Apart(ms) == \A i, j \in 1..Len(ms) : i < j => InnerNodes(ms[j]) \cap Hit(ms[i]) = {}

LEMMA KeptApart ==
  ASSUME NEW D, NEW n \in Nat, NEW found \in [1..n -> D], NEW f, KeptTo(f, found, n)
  PROVE  f[n] \in Seq(D) /\ Apart(f[n])
<1> DEFINE Good(k) == f[k] \in Seq(D) /\ Apart(f[k])
           Bad == {k \in 0..n : ~Good(k)}
<1>1. SUFFICES ASSUME Bad # {} PROVE FALSE
  OBVIOUS
<1>2. PICK m \in Bad : \A l \in Bad : m <= l
  <2>1. Bad \subseteq Nat
    OBVIOUS
  <2> HIDE DEF Bad
  <2> QED
    BY <1>1, <2>1, LeastOf
<1>3. f[m] = IF m = 0 THEN <<>>
             ELSE IF Overlaps(found[m], f[m - 1]) THEN f[m - 1] ELSE Append(f[m - 1], found[m])
  BY DEF KeptTo
<1>4. CASE m = 0
  <2>1. Good(m)
    BY <1>3, <1>4 DEF Apart
  <2> QED
    BY <2>1
<1>5. CASE m # 0
  <2>1. m \in 1..n /\ m - 1 \in 0..n /\ m - 1 \notin Bad /\ found[m] \in D
    BY <1>2, <1>5
  <2>2. f[m - 1] \in Seq(D) /\ Apart(f[m - 1])
    BY <2>1
  <2>3. CASE Overlaps(found[m], f[m - 1])
    <3>1. f[m] = f[m - 1]
      BY <1>3, <1>5, <2>3
    <3> QED
      BY <2>2, <3>1
  <2>4. CASE ~Overlaps(found[m], f[m - 1])
    <3> DEFINE old == f[m - 1]
               x == found[m]
    <3>1. f[m] = Append(old, x)
      BY <1>3, <1>5, <2>4
    <3>2. old \in Seq(D) /\ Apart(old) /\ x \in D
      BY <2>1, <2>2
    <3>3. \A i \in 1..Len(old) : InnerNodes(x) \cap Hit(old[i]) = {}
      BY <2>4, <3>2 DEF Overlaps
    <3> HIDE DEF old, x
    <3>4. Append(old, x) \in Seq(D) /\ Len(Append(old, x)) = Len(old) + 1
      BY <3>2
    <3>5. \A i \in 1..(Len(old) + 1) : Append(old, x)[i] = IF i = Len(old) + 1 THEN x ELSE old[i]
      BY <3>2
    <3>6. Apart(Append(old, x))
      <4> SUFFICES ASSUME NEW i \in 1..(Len(old) + 1), NEW j \in 1..(Len(old) + 1), i < j
                   PROVE  InnerNodes(Append(old, x)[j]) \cap Hit(Append(old, x)[i]) = {}
        BY <3>4, Zenon DEF Apart
      <4>0. Len(old) \in Nat
        BY <3>2
      <4>1. i \in 1..Len(old) /\ Append(old, x)[i] = old[i]
        BY <4>0, <3>5
      <4>2. CASE j = Len(old) + 1
        <5>1. Append(old, x)[j] = x
          BY <3>5, <4>2
        <5> QED
          BY <3>3, <4>1, <5>1
      <4>3. CASE j # Len(old) + 1
        <5>1. j \in 1..Len(old) /\ Append(old, x)[j] = old[j]
          BY <3>5, <4>3, <4>0
        <5> QED
          BY <3>2, <4>1, <5>1 DEF Apart
      <4> QED
        BY <4>2, <4>3
    <3> QED
      BY <3>1, <3>4, <3>6
  <2> QED
    BY <2>3, <2>4
<1> QED
  BY <1>4, <1>5

\* Those that stay inside are a subsequence.
Within(ms, matches, k) ==
  /\ \A i \in 1..Len(ms) : StaysInside(ms[i]) /\ \E p \in 1..k : ms[i] = matches[p]
  /\ \A i, j \in 1..Len(ms) : i < j => \E p, q \in 1..k : p < q /\ ms[i] = matches[p] /\ ms[j] = matches[q]

LEMMA ValidWithin ==
  ASSUME NEW D, NEW n \in Nat, NEW matches \in [1..n -> D], NEW f, ValidTo(f, matches, n)
  PROVE  f[n] \in Seq(D) /\ Within(f[n], matches, n)
<1> DEFINE Good(k) == f[k] \in Seq(D) /\ Within(f[k], matches, k)
           Bad == {k \in 0..n : ~Good(k)}
<1>1. SUFFICES ASSUME Bad # {} PROVE FALSE
  OBVIOUS
<1>2. PICK m \in Bad : \A l \in Bad : m <= l
  <2>1. Bad \subseteq Nat
    OBVIOUS
  <2> HIDE DEF Bad
  <2> QED
    BY <1>1, <2>1, LeastOf
<1>3. f[m] = IF m = 0 THEN <<>>
             ELSE IF StaysInside(matches[m]) THEN Append(f[m - 1], matches[m]) ELSE f[m - 1]
  BY DEF ValidTo
<1>4. CASE m = 0
  <2>1. Good(m)
    BY <1>3, <1>4 DEF Within
  <2> QED
    BY <2>1
<1>5. CASE m # 0
  <2>1. m \in 1..n /\ m - 1 \in 0..n /\ m - 1 \notin Bad /\ matches[m] \in D
    BY <1>2, <1>5
  <2>2. f[m - 1] \in Seq(D) /\ Within(f[m - 1], matches, m - 1)
    BY <2>1
  <2>3. Within(f[m - 1], matches, m)
    BY <2>1, <2>2 DEF Within
  <2>4. CASE ~StaysInside(matches[m])
    <3>1. f[m] = f[m - 1]
      BY <1>3, <1>5, <2>4
    <3> QED
      BY <2>2, <2>3, <3>1
  <2>5. CASE StaysInside(matches[m])
    <3> DEFINE old == f[m - 1]
               x == matches[m]
    <3>1. f[m] = Append(old, x)
      BY <1>3, <1>5, <2>5
    <3>2. old \in Seq(D) /\ Within(old, matches, m - 1) /\ x \in D /\ StaysInside(x)
      BY <2>1, <2>2, <2>5
    <3>3. x = matches[m] /\ Within(old, matches, m)
      BY <2>3
    <3> HIDE DEF old, x
    <3>a. PICK new : new = Append(old, x)
      OBVIOUS
    <3>4. new \in Seq(D) /\ Len(new) = Len(old) + 1 /\ Len(old) \in Nat
      BY <3>2, <3>a
    <3>5. \A i \in 1..Len(new) : new[i] = IF i = Len(old) + 1 THEN x ELSE old[i]
      BY <3>2, <3>a
    <3>6. \A i \in 1..Len(new) :
            StaysInside(new[i]) /\ \E p \in 1..m : new[i] = matches[p]
      <4> TAKE i \in 1..Len(new)
      <4>1. CASE i = Len(old) + 1
        <5>1. new[i] = x
          BY <3>5, <4>1
        <5> QED
          BY <2>1, <3>2, <3>3, <5>1
      <4>2. CASE i # Len(old) + 1
        <5>1. new[i] = old[i] /\ i \in 1..Len(old)
          BY <3>4, <3>5, <4>2
        <5> QED
          BY <3>3, <5>1 DEF Within
      <4> QED
        BY <4>1, <4>2
    <3>7. \A i, j \in 1..Len(new) : i < j =>
            \E p, q \in 1..m : p < q /\ new[i] = matches[p] /\ new[j] = matches[q]
      <4> SUFFICES ASSUME NEW i \in 1..Len(new), NEW j \in 1..Len(new), i < j
                   PROVE  \E p, q \in 1..m : p < q /\ new[i] = matches[p] /\ new[j] = matches[q]
        OBVIOUS
      <4>1. i \in 1..Len(old) /\ new[i] = old[i]
        BY <3>4, <3>5
      <4>2. CASE j = Len(old) + 1
        <5>1. new[j] = matches[m]
          BY <3>3, <3>5, <4>2
        <5>2. PICK p \in 1..(m - 1) : old[i] = matches[p]
          BY <3>2, <4>1 DEF Within
        <5>3. p \in 1..m /\ m \in 1..m /\ p < m
          BY <2>1
        <5> QED
          BY <4>1, <5>1, <5>2, <5>3
      <4>3. CASE j # Len(old) + 1
        <5>1. j \in 1..Len(old) /\ new[j] = old[j]
          BY <3>4, <3>5, <4>3
        <5> QED
          BY <3>3, <4>1, <5>1 DEF Within
      <4> QED
        BY <4>2, <4>3
    <3>8. Within(new, matches, m)
      BY <3>6, <3>7, Zenon DEF Within
    <3> QED
      BY <3>1, <3>a, <3>4, <3>8
  <2> QED
    BY <2>4, <2>5
<1> QED
  BY <1>4, <1>5

\* The matches that DetectPatterns found, once the two filters have seen them.
LEMMA MatchedFacts ==
  ASSUME IsFiniteSet(DetectPatterns), NEW found \in SetToSeqs(DetectPatterns),
         NEW ms, ms = ValidateByNodeRole(RemoveOverlappedMatch(found))
  PROVE  /\ ms \in Seq(DetectPatterns) /\ Apart(ms)
         /\ \A k \in 1..Len(ms) : StaysInside(ms[k])
<1> DEFINE D == DetectPatterns
           n == Cardinality(D)
<1>1. n \in Nat
  BY FS_CardinalityType
<1>2. found \in [1..n -> D]
  BY DEF SetToSeqs
<1> HIDE DEF D, n
<1>3. Len(found) = n
  BY <1>1, <1>2
<1>4. PICK f : KeptTo(f, found, n) /\ RemoveOverlappedMatch(found) = f[n]
  BY <1>1, <1>3, OverlapSteps
<1>5. f[n] \in Seq(D) /\ Apart(f[n])
  BY <1>1, <1>2, <1>4, KeptApart
<1>6. PICK kept : kept = f[n]
  OBVIOUS
<1>7. kept \in Seq(D) /\ Apart(kept) /\ Len(kept) \in Nat /\ kept \in [1..Len(kept) -> D]
  BY <1>5, <1>6
<1>8. PICK h : ValidTo(h, kept, Len(kept)) /\ ms = h[Len(kept)]
  BY <1>4, <1>6, <1>7, ValidSteps
<1>9. ms \in Seq(D) /\ Within(ms, kept, Len(kept))
  BY <1>7, <1>8, ValidWithin
<1>10. Apart(ms)
  <2> SUFFICES ASSUME NEW i \in 1..Len(ms), NEW j \in 1..Len(ms), i < j
               PROVE  InnerNodes(ms[j]) \cap Hit(ms[i]) = {}
    BY DEF Apart
  <2>1. PICK p, q \in 1..Len(kept) : p < q /\ ms[i] = kept[p] /\ ms[j] = kept[q]
    BY <1>9 DEF Within
  <2> QED
    BY <1>7, <2>1 DEF Apart
<1>11. \A k \in 1..Len(ms) : StaysInside(ms[k])
  BY <1>9 DEF Within
<1> QED
  BY <1>9, <1>10, <1>11 DEF D

-----------------------------------------------------------------------------
(* What DetectPatterns finds.                                              *)

LEMMA ImageFinite ==
  ASSUME NEW S, IsFiniteSet(S), NEW F, DOMAIN F = S
  PROVE  IsFiniteSet({F[x] : x \in S})
<1> DEFINE T == {F[x] : x \in S}
           M == [x \in S |-> F[x]]
<1>1. M \in Surjection(S, T)
  BY DEF Surjection
<1> HIDE DEF T
<1>2. IsFiniteSet(T)
  BY <1>1, FS_Surjection, Zenon
<1> QED
  BY <1>2 DEF T

LEMMA NodesFinite ==
  ASSUME NEW S, IsFiniteSet(S)
  PROVE  IsFiniteSet(Nodes(S))
<1> DEFINE F == [x \in S |-> <<x, 0>>]
<1>1. IsFiniteSet({F[x] : x \in S})
  BY ImageFinite
<1>2. {F[x] : x \in S} = Nodes(S)
  BY DEF Nodes
<1> QED
  BY <1>1, <1>2

LEMMA LinksFinite ==
  ASSUME NEW d, GraphOf(d, inlinks, outlinks), IsFiniteSet(DOMAIN d),
         \A s \in DOMAIN d : IsFiniteSet(DOMAIN d[s].in)
  PROVE  IsFiniteSet(GraphLinks)
<1> DEFINE Ins(s) == {<<Arg(n), Stmt(s)>> : n \in inlinks[s]}
           Outs(s) == {<<Stmt(s), Arg(n)>> : n \in outlinks[s]}
           L == [s \in DOMAIN d |-> Ins(s) \cup Outs(s)]
<1>1. \A s \in DOMAIN d : IsFiniteSet(L[s])
  <2> SUFFICES ASSUME NEW s \in DOMAIN d PROVE IsFiniteSet(L[s])
    OBVIOUS
  <2>1. IsFiniteSet(NamesRead(d[s]))
    <3> DEFINE N == [slot \in DOMAIN d[s].in |-> d[s].in[slot]]
    <3>1. IsFiniteSet({N[slot] : slot \in DOMAIN d[s].in})
      BY ImageFinite
    <3>2. {N[slot] : slot \in DOMAIN d[s].in} = NamesRead(d[s])
      BY DEF NamesRead
    <3> QED
      BY <3>1, <3>2
  <2>2. IsFiniteSet(inlinks[s])
    BY <2>1, NodesFinite DEF GraphOf
  <2>3. IsFiniteSet(outlinks[s])
    <3>1. IsFiniteSet({d[s].out})
      BY FS_Singleton
    <3> QED
      BY <3>1, NodesFinite DEF GraphOf
  <2>4. IsFiniteSet(Ins(s))
    <3> DEFINE F == [n \in inlinks[s] |-> <<Arg(n), Stmt(s)>>]
    <3>1. IsFiniteSet({F[n] : n \in inlinks[s]})
      BY <2>2, ImageFinite
    <3>2. {F[n] : n \in inlinks[s]} = Ins(s)
      OBVIOUS
    <3> QED
      BY <3>1, <3>2
  <2>5. IsFiniteSet(Outs(s))
    <3> DEFINE F == [n \in outlinks[s] |-> <<Stmt(s), Arg(n)>>]
    <3>1. IsFiniteSet({F[n] : n \in outlinks[s]})
      BY <2>3, ImageFinite
    <3>2. {F[n] : n \in outlinks[s]} = Outs(s)
      OBVIOUS
    <3> QED
      BY <3>1, <3>2
  <2>6. IsFiniteSet(Ins(s) \cup Outs(s))
    <3> HIDE DEF Ins, Outs
    <3> QED
      BY <2>4, <2>5, FS_Union
  <2> QED
    BY <2>6
<1>2. IsFiniteSet({L[s] : s \in DOMAIN d})
  BY ImageFinite
<1>3. IsFiniteSet(UNION {L[s] : s \in DOMAIN d})
  <2> HIDE DEF L
  <2> QED
    BY <1>1, <1>2, FS_UNION
<1>4. GraphLinks = UNION {L[s] : s \in DOMAIN d}
  <2>1. Stmts = DOMAIN d
    BY DEF Stmts, GraphOf
  <2> QED
    BY <2>1 DEF GraphLinks
<1> QED
  BY <1>3, <1>4

LEMMA ExtendedFinite ==
  ASSUME NEW groups, NEW edge, IsFiniteSet(groups), IsFiniteSet(GraphLinks)
  PROVE  IsFiniteSet(Extended(groups, edge))
<1> DEFINE Set(g, l) == Assign(Assign(g, edge[1], l[1]), edge[2], l[2])
           P == groups \X GraphLinks
           F == [p \in P |-> Set(p[1], p[2])]
<1>1. IsFiniteSet(P)
  BY FS_Product
<1>2. IsFiniteSet({F[p] : p \in P})
  <2> HIDE DEF P
  <2> QED
    BY <1>1, ImageFinite
<1>3. Extended(groups, edge) \subseteq {F[p] : p \in P}
  <2> SUFFICES ASSUME NEW e \in Extended(groups, edge)
               PROVE  e \in {F[p] : p \in P}
    OBVIOUS
  <2>1. PICK g \in groups, l \in GraphLinks : e = Set(g, l)
    BY Zenon DEF Extended
  <2>2. <<g, l>> \in P /\ F[<<g, l>>] = Set(g, l)
    BY Zenon
  <2> HIDE DEF P, F, Set
  <2> QED
    BY <2>1, <2>2
<1> HIDE DEF F, P
<1> QED
  BY <1>2, <1>3, FS_Subset

LEMMA GroupsFinite ==
  ASSUME IsFiniteSet(GraphLinks), NEW edges, NEW n \in Nat, NEW f, GroupsTo(f, edges, n)
  PROVE  IsFiniteSet(f[n])
<1> DEFINE Bad == {k \in 0..n : ~IsFiniteSet(f[k])}
<1>1. SUFFICES ASSUME Bad # {} PROVE FALSE
  OBVIOUS
<1>2. PICK m \in Bad : \A l \in Bad : m <= l
  <2>1. Bad \subseteq Nat
    OBVIOUS
  <2> HIDE DEF Bad
  <2> QED
    BY <1>1, <2>1, LeastOf
<1>3. CASE m = 0
  <2>1. f[m] = {NoEntries}
    BY <1>3 DEF GroupsTo
  <2> QED
    BY <2>1, FS_Singleton
<1>4. CASE m # 0
  <2>1. m - 1 \in 0..n /\ m - 1 \notin Bad
    BY <1>2, <1>4
  <2>2. f[m] = Extended(f[m - 1], edges[m])
    BY <1>4 DEF GroupsTo
  <2> QED
    BY <2>1, <2>2, ExtendedFinite
<1> QED
  BY <1>3, <1>4

\* A match of the first k edges.
Found(g, edges, k) ==
  /\ DOMAIN g = UNION {{edges[i][1], edges[i][2]} : i \in 1..k}
  /\ \A i \in 1..k :
       /\ <<g[edges[i][1]], g[edges[i][2]]>> \in GraphLinks
       /\ Tell(edges[i][1], g[edges[i][1]]) /\ Tell(edges[i][2], g[edges[i][2]])
  /\ \A r, q \in DOMAIN g : g[r] = g[q] => r = q

LEMMA ExtendedFound ==
  ASSUME NEW edges, NEW k \in Nat, k # 0, edges[k][1] # edges[k][2],
         NEW old, Found(old, edges, k - 1), NEW g \in Extended({old}, edges[k])
  PROVE  Found(g, edges, k)
<1> DEFINE a == edges[k][1]
           b == edges[k][2]
<1>1. PICK l \in GraphLinks :
        /\ g = Assign(Assign(old, a, l[1]), b, l[2])
        /\ Tell(a, l[1]) /\ Tell(b, l[2]) /\ Match(old, l[1], a) /\ Match(old, l[2], b)
  BY Zenon DEF Extended
<1>2. l = <<l[1], l[2]>> /\ l[1] # l[2]
  BY DEF GraphLinks, Arg, Stmt
<1>3. /\ DOMAIN g = DOMAIN old \cup {a, b}
      /\ g[a] = l[1] /\ g[b] = l[2]
      /\ \A r \in DOMAIN old \ {a, b} : g[r] = old[r]
  BY <1>1 DEF Assign
<1>4. \A r \in DOMAIN old : g[r] = old[r]
  BY <1>1, <1>3 DEF Match
<1>5. \A r \in DOMAIN old : old[r] \in Hit(old)
  BY DEF Hit
<1>6. /\ a \notin DOMAIN old => \A r \in DOMAIN old : old[r] # l[1]
      /\ b \notin DOMAIN old => \A r \in DOMAIN old : old[r] # l[2]
  BY <1>1, <1>5 DEF Match
<1>7. /\ a \in DOMAIN old => old[a] = l[1]
      /\ b \in DOMAIN old => old[b] = l[2]
  BY <1>1 DEF Match
<1>8. \A r, q \in DOMAIN g : g[r] = g[q] => r = q
  <2>1. \A r, q \in DOMAIN old : g[r] = g[q] => r = q
    BY <1>4 DEF Found
  <2>2. a \notin DOMAIN old => \A r \in DOMAIN old : g[r] # g[a]
    BY <1>3, <1>4, <1>6
  <2>3. b \notin DOMAIN old => \A r \in DOMAIN old : g[r] # g[b]
    BY <1>3, <1>4, <1>6
  <2>4. g[a] # g[b]
    BY <1>2, <1>3
  <2> HIDE DEF a, b
  <2> QED
    BY <1>3, <2>1, <2>2, <2>3, <2>4
<1>9. DOMAIN g = UNION {{edges[i][1], edges[i][2]} : i \in 1..k}
  <2>1. 1..k = 1..(k - 1) \cup {k}
    OBVIOUS
  <2> QED
    BY <1>3, <2>1 DEF Found
<1>10. ASSUME NEW i \in 1..k
       PROVE  /\ <<g[edges[i][1]], g[edges[i][2]]>> \in GraphLinks
              /\ Tell(edges[i][1], g[edges[i][1]]) /\ Tell(edges[i][2], g[edges[i][2]])
  <2>1. CASE i = k
    BY <1>1, <1>2, <1>3, <2>1
  <2>2. CASE i # k
    <3>1. i \in 1..(k - 1)
      BY <2>2
    <3>2. edges[i][1] \in DOMAIN old /\ edges[i][2] \in DOMAIN old
      BY <3>1 DEF Found
    <3>3. g[edges[i][1]] = old[edges[i][1]] /\ g[edges[i][2]] = old[edges[i][2]]
      BY <1>4, <3>2
    <3> QED
      BY <3>1, <3>3 DEF Found
  <2> QED
    BY <2>1, <2>2
<1> QED
  BY <1>8, <1>9, <1>10, Zenon DEF Found

\* What an edge makes of some groups it makes of one of them.
LEMMA ExtendedFrom ==
  ASSUME NEW groups, NEW edge, NEW h \in Extended(groups, edge)
  PROVE  \E old \in groups : h \in Extended({old}, edge)
<1> DEFINE From(group) ==
      {Assign(Assign(group, edge[1], l[1]), edge[2], l[2]) :
         l \in {k \in GraphLinks : /\ Tell(edge[1], k[1]) /\ Tell(edge[2], k[2])
                                   /\ Match(group, k[1], edge[1]) /\ Match(group, k[2], edge[2])}}
<1>1. Extended(groups, edge) = UNION {From(group) : group \in groups}
  BY DEF Extended
<1>2. \A old : Extended({old}, edge) = UNION {From(group) : group \in {old}}
  BY DEF Extended
<1> HIDE DEF From
<1>3. PICK old \in groups : h \in From(old)
  BY <1>1
<1>4. h \in Extended({old}, edge)
  BY <1>2, <1>3
<1> QED
  BY <1>3, <1>4

LEMMA GroupsFound ==
  ASSUME NEW edges, NEW n \in Nat, NEW f, GroupsTo(f, edges, n),
         \A i \in 1..n : edges[i][1] # edges[i][2], NEW g \in f[n]
  PROVE  Found(g, edges, n)
<1> DEFINE Bad == {k \in 0..n : ~ \A h \in f[k] : Found(h, edges, k)}
<1>1. SUFFICES ASSUME Bad # {} PROVE FALSE
  OBVIOUS
<1>2. PICK m \in Bad : \A l \in Bad : m <= l
  <2>1. Bad \subseteq Nat
    OBVIOUS
  <2> HIDE DEF Bad
  <2> QED
    BY <1>1, <2>1, LeastOf
<1>3. CASE m = 0
  <2>1. f[m] = {NoEntries}
    BY <1>3 DEF GroupsTo
  <2>2. Found(NoEntries, edges, 0)
    BY DEF Found, NoEntries
  <2> QED
    BY <1>3, <2>1, <2>2
<1>4. CASE m # 0
  <2>1. m \in 1..n /\ m - 1 \in 0..n /\ m - 1 \notin Bad
    BY <1>2, <1>4
  <2>2. f[m] = Extended(f[m - 1], edges[m])
    BY <1>4 DEF GroupsTo
  <2>3. ASSUME NEW h \in f[m] PROVE Found(h, edges, m)
    <3>1. PICK old \in f[m - 1] : h \in Extended({old}, edges[m])
      BY <2>2, ExtendedFrom
    <3>2. Found(old, edges, m - 1)
      BY <2>1
    <3>3. edges[m][1] # edges[m][2] /\ m \in Nat
      BY <2>1
    <3> QED
      BY <1>4, <3>1, <3>2, <3>3, ExtendedFound
  <2> QED
    BY <2>3
<1> QED
  BY <1>3, <1>4

-----------------------------------------------------------------------------
(* A match in terms of the descriptions.                                   *)

\* The operator of role q reads, or writes, the variable of role r.
RoleRead(d, g, r, q) ==
  /\ g[r] = Arg(<<Named(g, r), 0>>)
  /\ g[q] = Stmt(At(g, q)) /\ At(g, q) \in DOMAIN d
  /\ Named(g, r) \in NamesRead(d[At(g, q)])

RoleWritten(d, g, q, r) ==
  /\ g[r] = Arg(<<Named(g, r), 0>>)
  /\ g[q] = Stmt(At(g, q)) /\ At(g, q) \in DOMAIN d
  /\ d[At(g, q)].out = Named(g, r)

\* Some operator reads the variable of role r, or one in this slot.
InSlot(d, g, r, type, slot) ==
  \E s \in DOMAIN d : d[s].type = type /\ slot \in DOMAIN d[s].in /\ d[s].in[slot] = Named(g, r)

HasType(d, g, q, type) == d[At(g, q)].type = type

Injective(g) == \A r, q \in DOMAIN g : g[r] = g[q] => r = q

\* Nothing else reads the variable of role r; the operator of role q reads nothing else.
ReadInside(d, g, r) == \A s \in DOMAIN d : Named(g, r) \in NamesRead(d[s]) => Stmt(s) \in Hit(g)
ReadsInside(d, g, q) == \A x \in NamesRead(d[At(g, q)]) : Arg(<<x, 0>>) \in Hit(g)

LEMMA EdgeFacts ==
  ASSUME GraphOf(desc, inlinks, outlinks), NEW n, NEW m, <<n, m>> \in GraphLinks
  PROVE  /\ m[1] = "stmt" =>
              /\ m = Stmt(m[2]) /\ m[2] \in DOMAIN desc /\ n = Arg(<<n[2][1], 0>>)
              /\ n[2][1] \in NamesRead(desc[m[2]])
         /\ n[1] = "stmt" =>
              /\ n = Stmt(n[2]) /\ n[2] \in DOMAIN desc /\ m = Arg(<<m[2][1], 0>>)
              /\ desc[n[2]].out = m[2][1]
<1>1. Stmts = DOMAIN desc
  BY DEF Stmts, GraphOf
<1>2. PICK s \in DOMAIN desc :
        \/ \E x \in NamesRead(desc[s]) : <<n, m>> = <<Arg(<<x, 0>>), Stmt(s)>>
        \/ <<n, m>> = <<Stmt(s), Arg(<<desc[s].out, 0>>)>>
  <2>1. PICK s \in DOMAIN desc :
          <<n, m>> \in {<<Arg(k), Stmt(s)>> : k \in inlinks[s]} \cup {<<Stmt(s), Arg(k)>> : k \in outlinks[s]}
    BY <1>1 DEF GraphLinks
  <2>2. inlinks[s] = Nodes(NamesRead(desc[s])) /\ outlinks[s] = Nodes({desc[s].out})
    BY DEF GraphOf
  <2> QED
    BY <2>1, <2>2 DEF Nodes
<1> QED
  BY <1>2 DEF Stmt, Arg

LEMMA LinkIn ==
  ASSUME GraphOf(desc, inlinks, outlinks), NEW s \in DOMAIN desc, NEW x \in NamesRead(desc[s])
  PROVE  <<Arg(<<x, 0>>), Stmt(s)>> \in GraphLinks
<1>1. Stmts = DOMAIN desc
  BY DEF Stmts, GraphOf
<1>2. <<x, 0>> \in inlinks[s]
  BY DEF GraphOf, Nodes
<1> QED
  BY <1>1, <1>2 DEF GraphLinks

LEMMA TellOp ==
  ASSUME NEW r, NEW node, Tell(r, node), Pattern.nodes[r].type # "var"
  PROVE  /\ node[1] = "stmt"
         /\ Pattern.nodes[r].type # "any" => desc[node[2]].type = Pattern.nodes[r].type
  BY DEF Tell

LEMMA TellIn ==
  ASSUME GraphOf(desc, inlinks, outlinks),
         NEW g, NEW r, Tell(r, g[r]), Pattern.nodes[r].type = "var",
         NEW t \in Pattern.nodes[r].in, t[2] # "any"
  PROVE  InSlot(desc, g, r, t[1], t[2])
<1>1. ReadBy(g[r][2], t)
  BY DEF Tell
<1>2. PICK s \in Consumers(g[r][2]) : desc[s].type = t[1] /\ IsInput(g[r][2], s, t[2])
  BY <1>1 DEF ReadBy
<1>3. s \in DOMAIN desc
  BY DEF Consumers, GraphOf
<1> QED
  BY <1>2, <1>3 DEF IsInput, InSlot, Named

LEMMA TellWeight ==
  ASSUME NEW r, NEW node, Tell(r, node), Pattern.nodes[r].type = "var", Pattern.nodes[r].weight
  PROVE  node[2][1] \in program.weights
  BY DEF Tell, IsWeight

\* The edges of a match of the pattern.
LEMMA FoundFacts ==
  ASSUME GraphOf(desc, inlinks, outlinks), NEW edges, NEW n \in Nat, NEW g, Found(g, edges, n),
         NEW i \in 1..n, NEW r, NEW q, edges[i] = <<r, q>>
  PROVE  /\ r \in DOMAIN g /\ q \in DOMAIN g /\ Tell(r, g[r]) /\ Tell(q, g[q])
         /\ Pattern.nodes[q].type # "var" => RoleRead(desc, g, r, q)
         /\ Pattern.nodes[r].type # "var" => RoleWritten(desc, g, r, q)
<1>1. /\ r \in DOMAIN g /\ q \in DOMAIN g /\ Tell(r, g[r]) /\ Tell(q, g[q])
      /\ <<g[r], g[q]>> \in GraphLinks
  BY DEF Found
<1>2. Pattern.nodes[q].type # "var" => RoleRead(desc, g, r, q)
  <2> SUFFICES ASSUME Pattern.nodes[q].type # "var" PROVE RoleRead(desc, g, r, q)
    OBVIOUS
  <2>1. g[q][1] = "stmt"
    BY <1>1, TellOp
  <2> QED
    BY <1>1, <2>1, EdgeFacts DEF RoleRead, At, Named
<1>3. Pattern.nodes[r].type # "var" => RoleWritten(desc, g, r, q)
  <2> SUFFICES ASSUME Pattern.nodes[r].type # "var" PROVE RoleWritten(desc, g, r, q)
    OBVIOUS
  <2>1. g[r][1] = "stmt"
    BY <1>1, TellOp
  <2> QED
    BY <1>1, <2>1, EdgeFacts DEF RoleWritten, At, Named
<1> QED
  BY <1>1, <1>2, <1>3

LEMMA InsideFacts ==
  ASSUME GraphOf(desc, inlinks, outlinks), NEW g, StaysInside(g), NEW r \in InnerRoles
  PROVE  /\ g[r] = Arg(<<Named(g, r), 0>>) => ReadInside(desc, g, r)
         /\ g[r] = Stmt(At(g, r)) /\ At(g, r) \in DOMAIN desc => ReadsInside(desc, g, r)
<1>1. g[r] \in InnerNodes(g)
  BY DEF InnerNodes
<1>2. \A n, m : <<n, m>> \in GraphLinks /\ (n = g[r] \/ m = g[r]) => n \in Hit(g) /\ m \in Hit(g)
  BY <1>1 DEF StaysInside
<1>3. ASSUME g[r] = Arg(<<Named(g, r), 0>>), NEW s \in DOMAIN desc, Named(g, r) \in NamesRead(desc[s])
      PROVE  Stmt(s) \in Hit(g)
  BY <1>2, <1>3, LinkIn
<1>4. ASSUME g[r] = Stmt(At(g, r)), At(g, r) \in DOMAIN desc, NEW x \in NamesRead(desc[At(g, r)])
      PROVE  Arg(<<x, 0>>) \in Hit(g)
  BY <1>2, <1>4, LinkIn
<1> QED
  BY <1>3, <1>4 DEF ReadInside, ReadsInside

-----------------------------------------------------------------------------
(* What the matcher asks of a match, fuser by fuser.                       *)

LEMMA DetectFound ==
  ASSUME Len(Pattern.edges) \in Nat,
         \A i \in 1..Len(Pattern.edges) : Pattern.edges[i][1] # Pattern.edges[i][2],
         NEW g \in DetectPatterns
  PROVE  Found(g, Pattern.edges, Len(Pattern.edges))
<1>1. PICK f : GroupsTo(f, Pattern.edges, Len(Pattern.edges)) /\ DetectPatterns = f[Len(Pattern.edges)]
  BY DetectSteps
<1> QED
  BY <1>1, GroupsFound

RawBias(d, weights, g) ==
  /\ DOMAIN g = {"filter", "input", "conv2d", "conv2d_out", "add", "bias", "output"} /\ Injective(g)
  /\ RoleRead(d, g, "filter", "conv2d") /\ RoleRead(d, g, "input", "conv2d")
  /\ RoleWritten(d, g, "conv2d", "conv2d_out") /\ RoleRead(d, g, "conv2d_out", "add")
  /\ RoleRead(d, g, "bias", "add") /\ RoleWritten(d, g, "add", "output")
  /\ HasType(d, g, "conv2d", "conv2d") /\ HasType(d, g, "add", "elementwise_add")
  /\ InSlot(d, g, "input", "conv2d", "Input") /\ InSlot(d, g, "filter", "conv2d", "Filter")
  /\ InSlot(d, g, "bias", "elementwise_add", "Y") /\ Named(g, "bias") \in weights
  /\ ReadInside(d, g, "conv2d_out") /\ ReadsInside(d, g, "conv2d")

RawNorm(d, g) ==
  /\ DOMAIN g = {"conv_input", "conv_weight", "conv2d", "conv_out", "bn_scale", "bn_bias", "bn", "bn_out"}
  /\ Injective(g)
  /\ RoleRead(d, g, "conv_input", "conv2d") /\ RoleRead(d, g, "conv_weight", "conv2d")
  /\ RoleWritten(d, g, "conv2d", "conv_out") /\ RoleRead(d, g, "conv_out", "bn")
  /\ RoleRead(d, g, "bn_scale", "bn") /\ RoleRead(d, g, "bn_bias", "bn") /\ RoleWritten(d, g, "bn", "bn_out")
  /\ HasType(d, g, "conv2d", "conv2d") /\ HasType(d, g, "bn", "batch_norm")
  /\ InSlot(d, g, "conv_weight", "conv2d", "Filter")
  /\ InSlot(d, g, "bn_scale", "batch_norm", "Scale") /\ InSlot(d, g, "bn_bias", "batch_norm", "Bias")

RawAct(d, f, g) ==
  /\ DOMAIN g = {"filter", "input", "conv2d", "conv2d_out", "act", "output"} \cup IF f \in {4, 6} THEN {"bias"} ELSE {}
  /\ Injective(g)
  /\ RoleRead(d, g, "filter", "conv2d") /\ RoleRead(d, g, "input", "conv2d")
  /\ RoleWritten(d, g, "conv2d", "conv2d_out") /\ RoleRead(d, g, "conv2d_out", "act")
  /\ RoleWritten(d, g, "act", "output")
  /\ f \in {4, 6} => RoleRead(d, g, "bias", "conv2d") /\ InSlot(d, g, "bias", "conv2d", "Bias")
  /\ HasType(d, g, "conv2d", "conv2d") /\ HasType(d, g, "act", ActOf(f))
  /\ InSlot(d, g, "input", "conv2d", "Input") /\ InSlot(d, g, "filter", "conv2d", "Filter")
  /\ ReadInside(d, g, "conv2d_out") /\ ReadsInside(d, g, "conv2d")

RawFc(d, g) ==
  /\ DOMAIN g = {"W", "x", "mul", "mul_out", "add", "b", "Out"} /\ Injective(g)
  /\ RoleRead(d, g, "W", "mul") /\ RoleRead(d, g, "x", "mul") /\ RoleWritten(d, g, "mul", "mul_out")
  /\ RoleRead(d, g, "mul_out", "add") /\ RoleRead(d, g, "b", "add") /\ RoleWritten(d, g, "add", "Out")
  /\ HasType(d, g, "mul", "mul") /\ HasType(d, g, "add", "elementwise_add")
  /\ InSlot(d, g, "W", "mul", "Y")
  /\ ReadInside(d, g, "mul_out")

RawIdentity(d, g) ==
  /\ DOMAIN g = {"preop", "x", "scale", "out"} /\ Injective(g)
  /\ RoleWritten(d, g, "preop", "x") /\ RoleRead(d, g, "x", "scale") /\ RoleWritten(d, g, "scale", "out")
  /\ HasType(d, g, "scale", "scale")
  /\ ReadInside(d, g, "x")

RawSum(d, g) ==
  /\ DOMAIN g = {"x", "y", "add", "add_out", "act", "output"} /\ Injective(g)
  /\ RoleRead(d, g, "x", "add") /\ RoleRead(d, g, "y", "add") /\ RoleWritten(d, g, "add", "add_out")
  /\ RoleRead(d, g, "add_out", "act") /\ RoleWritten(d, g, "act", "output")
  /\ HasType(d, g, "add", "elementwise_add") /\ HasType(d, g, "act", "relu")
  /\ ReadInside(d, g, "add_out")

\* The nodes a match of the fuser at position f deletes.
InnerOf(f, g) == {Stmt(s) : s \in Removed(f, g)} \cup {Arg(<<x, 0>>) : x \in Hidden(f, g)}

LEMMA RawOfBias ==
  ASSUME Pattern = ConvElementwise, GraphOf(desc, inlinks, outlinks),
         NEW g \in DetectPatterns, StaysInside(g)
  PROVE  RawBias(desc, program.weights, g) /\ InnerNodes(g) = {g["conv2d"], g["add"], g["conv2d_out"]}
<1>1. Pattern.edges = <<<<"filter", "conv2d">>, <<"input", "conv2d">>, <<"conv2d", "conv2d_out">>, <<"conv2d_out", "add">>, <<"bias", "add">>, <<"add", "output">>>>
  BY DEF ConvElementwise
<1>2. Roles = {"input", "filter", "bias", "conv2d", "add", "conv2d_out", "output"}
  BY DEF ConvElementwise, Roles
<1>3. /\ Pattern.nodes["input"] = In({<<"conv2d", "Input">>})
      /\ Pattern.nodes["filter"] = In({<<"conv2d", "Filter">>})
      /\ Pattern.nodes["bias"] = Weight({<<"elementwise_add", "Y">>})
      /\ Pattern.nodes["conv2d"] = Op("conv2d", TRUE)
      /\ Pattern.nodes["add"] = Op("elementwise_add", TRUE)
      /\ Pattern.nodes["conv2d_out"] = Inner({<<"conv2d", "Output">>}, {<<"elementwise_add", "X">>})
      /\ Pattern.nodes["output"] = Out({<<"elementwise_add", "Out">>})
  BY DEF ConvElementwise
<1>a. Pattern.nodes["input"].type = "var" /\ Pattern.nodes["input"].in = {<<"conv2d", "Input">>} /\ ~Pattern.nodes["input"].inner
  BY <1>3 DEF In
<1>b. Pattern.nodes["filter"].type = "var" /\ Pattern.nodes["filter"].in = {<<"conv2d", "Filter">>} /\ ~Pattern.nodes["filter"].inner
  BY <1>3 DEF In
<1>c. Pattern.nodes["bias"].type = "var" /\ Pattern.nodes["bias"].in = {<<"elementwise_add", "Y">>} /\ Pattern.nodes["bias"].weight /\ ~Pattern.nodes["bias"].inner
  BY <1>3 DEF Weight, In
<1>d. Pattern.nodes["conv2d"].type = "conv2d" /\ Pattern.nodes["conv2d"].inner
  BY <1>3 DEF Op
<1>e. Pattern.nodes["add"].type = "elementwise_add" /\ Pattern.nodes["add"].inner
  BY <1>3 DEF Op
<1>f. Pattern.nodes["conv2d_out"].type = "var" /\ Pattern.nodes["conv2d_out"].in = {<<"elementwise_add", "X">>} /\ Pattern.nodes["conv2d_out"].inner
  BY <1>3 DEF Inner, In
<1>g. Pattern.nodes["output"].type = "var" /\ ~Pattern.nodes["output"].inner
  BY <1>3 DEF Out, In
<1>6. InnerRoles = {"conv2d", "add", "conv2d_out"}
  BY <1>2, <1>a, <1>b, <1>c, <1>d, <1>e, <1>f, <1>g DEF InnerRoles
<1>7. InnerNodes(g) = {g["conv2d"], g["add"], g["conv2d_out"]}
  BY <1>6 DEF InnerNodes
<1>8. Len(Pattern.edges) = 6 /\ Pattern.edges[1] = <<"filter", "conv2d">> /\ Pattern.edges[2] = <<"input", "conv2d">> /\ Pattern.edges[3] = <<"conv2d", "conv2d_out">> /\ Pattern.edges[4] = <<"conv2d_out", "add">> /\ Pattern.edges[5] = <<"bias", "add">> /\ Pattern.edges[6] = <<"add", "output">>
  BY <1>1
<1>9. Found(g, Pattern.edges, 6)
  <2>1. \A i \in 1..6 : Pattern.edges[i][1] # Pattern.edges[i][2]
    BY <1>8
  <2> QED
    BY <1>8, <2>1, DetectFound
<1>10. DOMAIN g = {"input", "filter", "bias", "conv2d", "add", "conv2d_out", "output"}
  <2>1. DOMAIN g = UNION {{Pattern.edges[i][1], Pattern.edges[i][2]} : i \in 1..6}
    BY <1>9 DEF Found
  <2>2. 1..6 = {1, 2, 3, 4, 5, 6}
    OBVIOUS
  <2> QED
    BY <1>8, <2>1, <2>2
<1>11. Injective(g)
  BY <1>9 DEF Found, Injective
<1>12. RoleRead(desc, g, "filter", "conv2d") /\ Tell("filter", g["filter"]) /\ Tell("conv2d", g["conv2d"])
  BY <1>b, <1>d, <1>8, <1>9, FoundFacts
<1>13. RoleRead(desc, g, "input", "conv2d") /\ Tell("input", g["input"]) /\ Tell("conv2d", g["conv2d"])
  BY <1>a, <1>d, <1>8, <1>9, FoundFacts
<1>14. RoleWritten(desc, g, "conv2d", "conv2d_out") /\ Tell("conv2d", g["conv2d"]) /\ Tell("conv2d_out", g["conv2d_out"])
  BY <1>d, <1>f, <1>8, <1>9, FoundFacts
<1>15. RoleRead(desc, g, "conv2d_out", "add") /\ Tell("conv2d_out", g["conv2d_out"]) /\ Tell("add", g["add"])
  BY <1>f, <1>e, <1>8, <1>9, FoundFacts
<1>16. RoleRead(desc, g, "bias", "add") /\ Tell("bias", g["bias"]) /\ Tell("add", g["add"])
  BY <1>c, <1>e, <1>8, <1>9, FoundFacts
<1>17. RoleWritten(desc, g, "add", "output") /\ Tell("add", g["add"]) /\ Tell("output", g["output"])
  BY <1>e, <1>g, <1>8, <1>9, FoundFacts
<1>18. HasType(desc, g, "conv2d", "conv2d")
  BY <1>d, <1>12, TellOp DEF HasType, At
<1>19. HasType(desc, g, "add", "elementwise_add")
  BY <1>e, <1>15, TellOp DEF HasType, At
<1>20. InSlot(desc, g, "input", "conv2d", "Input")
  <2>1. <<"conv2d", "Input">> \in Pattern.nodes["input"].in
    BY <1>a
  <2>2. <<"conv2d", "Input">>[1] = "conv2d" /\ <<"conv2d", "Input">>[2] = "Input" /\ "Input" # "any"
    OBVIOUS
  <2> QED
    BY <1>a, <1>13, <2>1, <2>2, TellIn, Zenon
<1>21. InSlot(desc, g, "filter", "conv2d", "Filter")
  <2>1. <<"conv2d", "Filter">> \in Pattern.nodes["filter"].in
    BY <1>b
  <2>2. <<"conv2d", "Filter">>[1] = "conv2d" /\ <<"conv2d", "Filter">>[2] = "Filter" /\ "Filter" # "any"
    OBVIOUS
  <2> QED
    BY <1>b, <1>12, <2>1, <2>2, TellIn, Zenon
<1>22. InSlot(desc, g, "bias", "elementwise_add", "Y")
  <2>1. <<"elementwise_add", "Y">> \in Pattern.nodes["bias"].in
    BY <1>c
  <2>2. <<"elementwise_add", "Y">>[1] = "elementwise_add" /\ <<"elementwise_add", "Y">>[2] = "Y" /\ "Y" # "any"
    OBVIOUS
  <2> QED
    BY <1>c, <1>16, <2>1, <2>2, TellIn, Zenon
<1>23. Named(g, "bias") \in program.weights
  BY <1>c, <1>16, TellWeight DEF Named
<1>24. ReadInside(desc, g, "conv2d_out")
  BY <1>6, <1>14, InsideFacts DEF RoleRead, RoleWritten
<1>25. ReadsInside(desc, g, "conv2d")
  BY <1>6, <1>12, InsideFacts DEF RoleRead, RoleWritten
<1> QED
  BY <1>7, <1>10, <1>11, <1>12, <1>13, <1>14, <1>15, <1>16, <1>17, <1>18, <1>19, <1>20, <1>21, <1>22, <1>23, <1>24, <1>25 DEF RawBias

LEMMA RawOfNorm ==
  ASSUME Pattern = ConvBN, GraphOf(desc, inlinks, outlinks),
         NEW g \in DetectPatterns, StaysInside(g)
  PROVE  RawNorm(desc, g) /\ InnerNodes(g) = {g["bn_scale"], g["bn"]}
<1>1. Pattern.edges = <<<<"conv_input", "conv2d">>, <<"conv_weight", "conv2d">>, <<"conv2d", "conv_out">>, <<"conv_out", "bn">>, <<"bn_scale", "bn">>, <<"bn_bias", "bn">>, <<"bn", "bn_out">>>>
  BY DEF ConvBN
<1>2. Roles = {"conv_input", "conv_weight", "conv2d", "conv_out", "bn_scale", "bn_bias", "bn", "bn_out"}
  BY DEF ConvBN, Roles
<1>3. /\ Pattern.nodes["conv_input"] = In({<<"conv2d", "Input">>})
      /\ Pattern.nodes["conv_weight"] = In({<<"conv2d", "Filter">>})
      /\ Pattern.nodes["conv2d"] = Op("conv2d", FALSE)
      /\ Pattern.nodes["conv_out"] = [In({<<"batch_norm", "X">>}) EXCEPT !.out = {<<"conv2d", "Output">>}]
      /\ Pattern.nodes["bn_scale"] = Inner({}, {<<"batch_norm", "Scale">>})
      /\ Pattern.nodes["bn_bias"] = In({<<"batch_norm", "Bias">>})
      /\ Pattern.nodes["bn"] = Op("batch_norm", TRUE)
      /\ Pattern.nodes["bn_out"] = Out({<<"batch_norm", "Y">>})
  BY DEF ConvBN
<1>a. Pattern.nodes["conv_input"].type = "var" /\ Pattern.nodes["conv_input"].in = {<<"conv2d", "Input">>} /\ ~Pattern.nodes["conv_input"].inner
  BY <1>3 DEF In
<1>b. Pattern.nodes["conv_weight"].type = "var" /\ Pattern.nodes["conv_weight"].in = {<<"conv2d", "Filter">>} /\ ~Pattern.nodes["conv_weight"].inner
  BY <1>3 DEF In
<1>c. Pattern.nodes["conv2d"].type = "conv2d" /\ ~Pattern.nodes["conv2d"].inner
  BY <1>3 DEF Op
<1>d. Pattern.nodes["conv_out"].type = "var" /\ ~Pattern.nodes["conv_out"].inner
  BY <1>3 DEF In
<1>e. Pattern.nodes["bn_scale"].type = "var" /\ Pattern.nodes["bn_scale"].in = {<<"batch_norm", "Scale">>} /\ Pattern.nodes["bn_scale"].inner
  BY <1>3 DEF Inner, In
<1>f. Pattern.nodes["bn_bias"].type = "var" /\ Pattern.nodes["bn_bias"].in = {<<"batch_norm", "Bias">>} /\ ~Pattern.nodes["bn_bias"].inner
  BY <1>3 DEF In
<1>g. Pattern.nodes["bn"].type = "batch_norm" /\ Pattern.nodes["bn"].inner
  BY <1>3 DEF Op
<1>h. Pattern.nodes["bn_out"].type = "var" /\ ~Pattern.nodes["bn_out"].inner
  BY <1>3 DEF Out, In
<1>6. InnerRoles = {"bn_scale", "bn"}
  BY <1>2, <1>a, <1>b, <1>c, <1>d, <1>e, <1>f, <1>g, <1>h DEF InnerRoles
<1>7. InnerNodes(g) = {g["bn_scale"], g["bn"]}
  BY <1>6 DEF InnerNodes
<1>8. Len(Pattern.edges) = 7 /\ Pattern.edges[1] = <<"conv_input", "conv2d">> /\ Pattern.edges[2] = <<"conv_weight", "conv2d">> /\ Pattern.edges[3] = <<"conv2d", "conv_out">> /\ Pattern.edges[4] = <<"conv_out", "bn">> /\ Pattern.edges[5] = <<"bn_scale", "bn">> /\ Pattern.edges[6] = <<"bn_bias", "bn">> /\ Pattern.edges[7] = <<"bn", "bn_out">>
  BY <1>1
<1>9. Found(g, Pattern.edges, 7)
  <2>1. \A i \in 1..7 : Pattern.edges[i][1] # Pattern.edges[i][2]
    BY <1>8
  <2> QED
    BY <1>8, <2>1, DetectFound
<1>10. DOMAIN g = {"conv_input", "conv_weight", "conv2d", "conv_out", "bn_scale", "bn_bias", "bn", "bn_out"}
  <2>1. DOMAIN g = UNION {{Pattern.edges[i][1], Pattern.edges[i][2]} : i \in 1..7}
    BY <1>9 DEF Found
  <2>2. 1..7 = {1, 2, 3, 4, 5, 6, 7}
    OBVIOUS
  <2> QED
    BY <1>8, <2>1, <2>2
<1>11. Injective(g)
  BY <1>9 DEF Found, Injective
<1>12. RoleRead(desc, g, "conv_input", "conv2d") /\ Tell("conv_input", g["conv_input"]) /\ Tell("conv2d", g["conv2d"])
  BY <1>a, <1>c, <1>8, <1>9, FoundFacts
<1>13. RoleRead(desc, g, "conv_weight", "conv2d") /\ Tell("conv_weight", g["conv_weight"]) /\ Tell("conv2d", g["conv2d"])
  BY <1>b, <1>c, <1>8, <1>9, FoundFacts
<1>14. RoleWritten(desc, g, "conv2d", "conv_out") /\ Tell("conv2d", g["conv2d"]) /\ Tell("conv_out", g["conv_out"])
  BY <1>c, <1>d, <1>8, <1>9, FoundFacts
<1>15. RoleRead(desc, g, "conv_out", "bn") /\ Tell("conv_out", g["conv_out"]) /\ Tell("bn", g["bn"])
  BY <1>d, <1>g, <1>8, <1>9, FoundFacts
<1>16. RoleRead(desc, g, "bn_scale", "bn") /\ Tell("bn_scale", g["bn_scale"]) /\ Tell("bn", g["bn"])
  BY <1>e, <1>g, <1>8, <1>9, FoundFacts
<1>17. RoleRead(desc, g, "bn_bias", "bn") /\ Tell("bn_bias", g["bn_bias"]) /\ Tell("bn", g["bn"])
  BY <1>f, <1>g, <1>8, <1>9, FoundFacts
<1>18. RoleWritten(desc, g, "bn", "bn_out") /\ Tell("bn", g["bn"]) /\ Tell("bn_out", g["bn_out"])
  BY <1>g, <1>h, <1>8, <1>9, FoundFacts
<1>19. HasType(desc, g, "conv2d", "conv2d")
  BY <1>c, <1>12, TellOp DEF HasType, At
<1>20. HasType(desc, g, "bn", "batch_norm")
  BY <1>g, <1>15, TellOp DEF HasType, At
<1>21. InSlot(desc, g, "conv_weight", "conv2d", "Filter")
  <2>1. <<"conv2d", "Filter">> \in Pattern.nodes["conv_weight"].in
    BY <1>b
  <2>2. <<"conv2d", "Filter">>[1] = "conv2d" /\ <<"conv2d", "Filter">>[2] = "Filter" /\ "Filter" # "any"
    OBVIOUS
  <2> QED
    BY <1>b, <1>13, <2>1, <2>2, TellIn, Zenon
<1>22. InSlot(desc, g, "bn_scale", "batch_norm", "Scale")
  <2>1. <<"batch_norm", "Scale">> \in Pattern.nodes["bn_scale"].in
    BY <1>e
  <2>2. <<"batch_norm", "Scale">>[1] = "batch_norm" /\ <<"batch_norm", "Scale">>[2] = "Scale" /\ "Scale" # "any"
    OBVIOUS
  <2> QED
    BY <1>e, <1>16, <2>1, <2>2, TellIn, Zenon
<1>23. InSlot(desc, g, "bn_bias", "batch_norm", "Bias")
  <2>1. <<"batch_norm", "Bias">> \in Pattern.nodes["bn_bias"].in
    BY <1>f
  <2>2. <<"batch_norm", "Bias">>[1] = "batch_norm" /\ <<"batch_norm", "Bias">>[2] = "Bias" /\ "Bias" # "any"
    OBVIOUS
  <2> QED
    BY <1>f, <1>17, <2>1, <2>2, TellIn, Zenon
<1> QED
  BY <1>7, <1>10, <1>11, <1>12, <1>13, <1>14, <1>15, <1>16, <1>17, <1>18, <1>19, <1>20, <1>21, <1>22, <1>23 DEF RawNorm

LEMMA RawOfFc ==
  ASSUME Pattern = Fc, GraphOf(desc, inlinks, outlinks),
         NEW g \in DetectPatterns, StaysInside(g)
  PROVE  RawFc(desc, g) /\ InnerNodes(g) = {g["mul"], g["add"], g["mul_out"]}
<1>1. Pattern.edges = <<<<"W", "mul">>, <<"x", "mul">>, <<"mul", "mul_out">>, <<"mul_out", "add">>, <<"b", "add">>, <<"add", "Out">>>>
  BY DEF Fc
<1>2. Roles = {"x", "W", "b", "mul", "add", "mul_out", "Out"}
  BY DEF Fc, Roles
<1>3. /\ Pattern.nodes["x"] = In({<<"mul", "X">>})
      /\ Pattern.nodes["W"] = In({<<"mul", "Y">>})
      /\ Pattern.nodes["b"] = In({<<"elementwise_add", "any">>})
      /\ Pattern.nodes["mul"] = Op("mul", TRUE)
      /\ Pattern.nodes["add"] = Op("elementwise_add", TRUE)
      /\ Pattern.nodes["mul_out"] = Inner({}, {<<"elementwise_add", "any">>})
      /\ Pattern.nodes["Out"] = Out({})
  BY DEF Fc
<1>a. Pattern.nodes["x"].type = "var" /\ Pattern.nodes["x"].in = {<<"mul", "X">>} /\ ~Pattern.nodes["x"].inner
  BY <1>3 DEF In
<1>b. Pattern.nodes["W"].type = "var" /\ Pattern.nodes["W"].in = {<<"mul", "Y">>} /\ ~Pattern.nodes["W"].inner
  BY <1>3 DEF In
<1>c. Pattern.nodes["b"].type = "var" /\ Pattern.nodes["b"].in = {<<"elementwise_add", "any">>} /\ ~Pattern.nodes["b"].inner
  BY <1>3 DEF In
<1>d. Pattern.nodes["mul"].type = "mul" /\ Pattern.nodes["mul"].inner
  BY <1>3 DEF Op
<1>e. Pattern.nodes["add"].type = "elementwise_add" /\ Pattern.nodes["add"].inner
  BY <1>3 DEF Op
<1>f. Pattern.nodes["mul_out"].type = "var" /\ Pattern.nodes["mul_out"].in = {<<"elementwise_add", "any">>} /\ Pattern.nodes["mul_out"].inner
  BY <1>3 DEF Inner, In
<1>g. Pattern.nodes["Out"].type = "var" /\ ~Pattern.nodes["Out"].inner
  BY <1>3 DEF Out, In
<1>6. InnerRoles = {"mul", "add", "mul_out"}
  BY <1>2, <1>a, <1>b, <1>c, <1>d, <1>e, <1>f, <1>g DEF InnerRoles
<1>7. InnerNodes(g) = {g["mul"], g["add"], g["mul_out"]}
  BY <1>6 DEF InnerNodes
<1>8. Len(Pattern.edges) = 6 /\ Pattern.edges[1] = <<"W", "mul">> /\ Pattern.edges[2] = <<"x", "mul">> /\ Pattern.edges[3] = <<"mul", "mul_out">> /\ Pattern.edges[4] = <<"mul_out", "add">> /\ Pattern.edges[5] = <<"b", "add">> /\ Pattern.edges[6] = <<"add", "Out">>
  BY <1>1
<1>9. Found(g, Pattern.edges, 6)
  <2>1. \A i \in 1..6 : Pattern.edges[i][1] # Pattern.edges[i][2]
    BY <1>8
  <2> QED
    BY <1>8, <2>1, DetectFound
<1>10. DOMAIN g = {"x", "W", "b", "mul", "add", "mul_out", "Out"}
  <2>1. DOMAIN g = UNION {{Pattern.edges[i][1], Pattern.edges[i][2]} : i \in 1..6}
    BY <1>9 DEF Found
  <2>2. 1..6 = {1, 2, 3, 4, 5, 6}
    OBVIOUS
  <2> QED
    BY <1>8, <2>1, <2>2
<1>11. Injective(g)
  BY <1>9 DEF Found, Injective
<1>12. RoleRead(desc, g, "W", "mul") /\ Tell("W", g["W"]) /\ Tell("mul", g["mul"])
  BY <1>b, <1>d, <1>8, <1>9, FoundFacts
<1>13. RoleRead(desc, g, "x", "mul") /\ Tell("x", g["x"]) /\ Tell("mul", g["mul"])
  BY <1>a, <1>d, <1>8, <1>9, FoundFacts
<1>14. RoleWritten(desc, g, "mul", "mul_out") /\ Tell("mul", g["mul"]) /\ Tell("mul_out", g["mul_out"])
  BY <1>d, <1>f, <1>8, <1>9, FoundFacts
<1>15. RoleRead(desc, g, "mul_out", "add") /\ Tell("mul_out", g["mul_out"]) /\ Tell("add", g["add"])
  BY <1>f, <1>e, <1>8, <1>9, FoundFacts
<1>16. RoleRead(desc, g, "b", "add") /\ Tell("b", g["b"]) /\ Tell("add", g["add"])
  BY <1>c, <1>e, <1>8, <1>9, FoundFacts
<1>17. RoleWritten(desc, g, "add", "Out") /\ Tell("add", g["add"]) /\ Tell("Out", g["Out"])
  BY <1>e, <1>g, <1>8, <1>9, FoundFacts
<1>18. HasType(desc, g, "mul", "mul")
  BY <1>d, <1>12, TellOp DEF HasType, At
<1>19. HasType(desc, g, "add", "elementwise_add")
  BY <1>e, <1>15, TellOp DEF HasType, At
<1>20. InSlot(desc, g, "W", "mul", "Y")
  <2>1. <<"mul", "Y">> \in Pattern.nodes["W"].in
    BY <1>b
  <2>2. <<"mul", "Y">>[1] = "mul" /\ <<"mul", "Y">>[2] = "Y" /\ "Y" # "any"
    OBVIOUS
  <2> QED
    BY <1>b, <1>12, <2>1, <2>2, TellIn, Zenon
<1>21. ReadInside(desc, g, "mul_out")
  BY <1>6, <1>14, InsideFacts DEF RoleRead, RoleWritten
<1> QED
  BY <1>7, <1>10, <1>11, <1>12, <1>13, <1>14, <1>15, <1>16, <1>17, <1>18, <1>19, <1>20, <1>21 DEF RawFc

LEMMA RawOfIdentity ==
  ASSUME Pattern = IdentityScale, GraphOf(desc, inlinks, outlinks),
         NEW g \in DetectPatterns, StaysInside(g)
  PROVE  RawIdentity(desc, g) /\ InnerNodes(g) = {g["x"]}
<1>1. Pattern.edges = <<<<"preop", "x">>, <<"x", "scale">>, <<"scale", "out">>>>
  BY DEF IdentityScale
<1>2. Roles = {"preop", "x", "scale", "out"}
  BY DEF IdentityScale, Roles
<1>3. /\ Pattern.nodes["preop"] = Op("any", FALSE)
      /\ Pattern.nodes["x"] = Inner({}, {<<"scale", "X">>})
      /\ Pattern.nodes["scale"] = Op("scale", FALSE)
      /\ Pattern.nodes["out"] = Out({<<"scale", "Out">>})
  BY DEF IdentityScale
<1>a. Pattern.nodes["preop"].type = "any" /\ ~Pattern.nodes["preop"].inner
  BY <1>3 DEF Op
<1>b. Pattern.nodes["x"].type = "var" /\ Pattern.nodes["x"].in = {<<"scale", "X">>} /\ Pattern.nodes["x"].inner
  BY <1>3 DEF Inner, In
<1>c. Pattern.nodes["scale"].type = "scale" /\ ~Pattern.nodes["scale"].inner
  BY <1>3 DEF Op
<1>d. Pattern.nodes["out"].type = "var" /\ ~Pattern.nodes["out"].inner
  BY <1>3 DEF Out, In
<1>6. InnerRoles = {"x"}
  BY <1>2, <1>a, <1>b, <1>c, <1>d DEF InnerRoles
<1>7. InnerNodes(g) = {g["x"]}
  BY <1>6 DEF InnerNodes
<1>8. Len(Pattern.edges) = 3 /\ Pattern.edges[1] = <<"preop", "x">> /\ Pattern.edges[2] = <<"x", "scale">> /\ Pattern.edges[3] = <<"scale", "out">>
  BY <1>1
<1>9. Found(g, Pattern.edges, 3)
  <2>1. \A i \in 1..3 : Pattern.edges[i][1] # Pattern.edges[i][2]
    BY <1>8
  <2> QED
    BY <1>8, <2>1, DetectFound
<1>10. DOMAIN g = {"preop", "x", "scale", "out"}
  <2>1. DOMAIN g = UNION {{Pattern.edges[i][1], Pattern.edges[i][2]} : i \in 1..3}
    BY <1>9 DEF Found
  <2>2. 1..3 = {1, 2, 3}
    OBVIOUS
  <2> QED
    BY <1>8, <2>1, <2>2
<1>11. Injective(g)
  BY <1>9 DEF Found, Injective
<1>12. RoleWritten(desc, g, "preop", "x") /\ Tell("preop", g["preop"]) /\ Tell("x", g["x"])
  BY <1>a, <1>b, <1>8, <1>9, FoundFacts
<1>13. RoleRead(desc, g, "x", "scale") /\ Tell("x", g["x"]) /\ Tell("scale", g["scale"])
  BY <1>b, <1>c, <1>8, <1>9, FoundFacts
<1>14. RoleWritten(desc, g, "scale", "out") /\ Tell("scale", g["scale"]) /\ Tell("out", g["out"])
  BY <1>c, <1>d, <1>8, <1>9, FoundFacts
<1>15. HasType(desc, g, "scale", "scale")
  BY <1>c, <1>13, TellOp DEF HasType, At
<1>16. ReadInside(desc, g, "x")
  BY <1>6, <1>12, InsideFacts DEF RoleRead, RoleWritten
<1> QED
  BY <1>7, <1>10, <1>11, <1>12, <1>13, <1>14, <1>15, <1>16 DEF RawIdentity

LEMMA RawOfSum ==
  ASSUME Pattern = AddActivation, GraphOf(desc, inlinks, outlinks),
         NEW g \in DetectPatterns, StaysInside(g)
  PROVE  RawSum(desc, g) /\ InnerNodes(g) = {g["add"], g["act"], g["add_out"]}
<1>1. Pattern.edges = <<<<"x", "add">>, <<"y", "add">>, <<"add", "add_out">>, <<"add_out", "act">>, <<"act", "output">>>>
  BY DEF AddActivation
<1>2. Roles = {"x", "y", "add", "act", "add_out", "output"}
  BY DEF AddActivation, Roles
<1>3. /\ Pattern.nodes["x"] = In({<<"elementwise_add", "X">>})
      /\ Pattern.nodes["y"] = In({<<"elementwise_add", "Y">>})
      /\ Pattern.nodes["add"] = Op("elementwise_add", TRUE)
      /\ Pattern.nodes["act"] = Op("relu", TRUE)
      /\ Pattern.nodes["add_out"] = Inner({<<"elementwise_add", "Out">>}, {<<"relu", "X">>})
      /\ Pattern.nodes["output"] = Out({<<"relu", "Out">>})
  BY DEF AddActivation
<1>a. Pattern.nodes["x"].type = "var" /\ Pattern.nodes["x"].in = {<<"elementwise_add", "X">>} /\ ~Pattern.nodes["x"].inner
  BY <1>3 DEF In
<1>b. Pattern.nodes["y"].type = "var" /\ Pattern.nodes["y"].in = {<<"elementwise_add", "Y">>} /\ ~Pattern.nodes["y"].inner
  BY <1>3 DEF In
<1>c. Pattern.nodes["add"].type = "elementwise_add" /\ Pattern.nodes["add"].inner
  BY <1>3 DEF Op
<1>d. Pattern.nodes["act"].type = "relu" /\ Pattern.nodes["act"].inner
  BY <1>3 DEF Op
<1>e. Pattern.nodes["add_out"].type = "var" /\ Pattern.nodes["add_out"].in = {<<"relu", "X">>} /\ Pattern.nodes["add_out"].inner
  BY <1>3 DEF Inner, In
<1>f. Pattern.nodes["output"].type = "var" /\ ~Pattern.nodes["output"].inner
  BY <1>3 DEF Out, In
<1>6. InnerRoles = {"add", "act", "add_out"}
  BY <1>2, <1>a, <1>b, <1>c, <1>d, <1>e, <1>f DEF InnerRoles
<1>7. InnerNodes(g) = {g["add"], g["act"], g["add_out"]}
  BY <1>6 DEF InnerNodes
<1>8. Len(Pattern.edges) = 5 /\ Pattern.edges[1] = <<"x", "add">> /\ Pattern.edges[2] = <<"y", "add">> /\ Pattern.edges[3] = <<"add", "add_out">> /\ Pattern.edges[4] = <<"add_out", "act">> /\ Pattern.edges[5] = <<"act", "output">>
  BY <1>1
<1>9. Found(g, Pattern.edges, 5)
  <2>1. \A i \in 1..5 : Pattern.edges[i][1] # Pattern.edges[i][2]
    BY <1>8
  <2> QED
    BY <1>8, <2>1, DetectFound
<1>10. DOMAIN g = {"x", "y", "add", "act", "add_out", "output"}
  <2>1. DOMAIN g = UNION {{Pattern.edges[i][1], Pattern.edges[i][2]} : i \in 1..5}
    BY <1>9 DEF Found
  <2>2. 1..5 = {1, 2, 3, 4, 5}
    OBVIOUS
  <2> QED
    BY <1>8, <2>1, <2>2
<1>11. Injective(g)
  BY <1>9 DEF Found, Injective
<1>12. RoleRead(desc, g, "x", "add") /\ Tell("x", g["x"]) /\ Tell("add", g["add"])
  BY <1>a, <1>c, <1>8, <1>9, FoundFacts
<1>13. RoleRead(desc, g, "y", "add") /\ Tell("y", g["y"]) /\ Tell("add", g["add"])
  BY <1>b, <1>c, <1>8, <1>9, FoundFacts
<1>14. RoleWritten(desc, g, "add", "add_out") /\ Tell("add", g["add"]) /\ Tell("add_out", g["add_out"])
  BY <1>c, <1>e, <1>8, <1>9, FoundFacts
<1>15. RoleRead(desc, g, "add_out", "act") /\ Tell("add_out", g["add_out"]) /\ Tell("act", g["act"])
  BY <1>e, <1>d, <1>8, <1>9, FoundFacts
<1>16. RoleWritten(desc, g, "act", "output") /\ Tell("act", g["act"]) /\ Tell("output", g["output"])
  BY <1>d, <1>f, <1>8, <1>9, FoundFacts
<1>17. HasType(desc, g, "add", "elementwise_add")
  BY <1>c, <1>12, TellOp DEF HasType, At
<1>18. HasType(desc, g, "act", "relu")
  BY <1>d, <1>15, TellOp DEF HasType, At
<1>19. ReadInside(desc, g, "add_out")
  BY <1>6, <1>14, InsideFacts DEF RoleRead, RoleWritten
<1> QED
  BY <1>7, <1>10, <1>11, <1>12, <1>13, <1>14, <1>15, <1>16, <1>17, <1>18, <1>19 DEF RawSum

LEMMA AppendFacts ==
  ASSUME NEW S, NEW q \in Seq(S), NEW e
  PROVE  /\ Len(Append(q, e)) = Len(q) + 1 /\ Append(q, e)[Len(q) + 1] = e
         /\ \A i \in 1..Len(q) : Append(q, e)[i] = q[i]
<1> DEFINE T == S \cup {e}
<1>1. q \in Seq(T)
  OBVIOUS
<1>2. e \in T
  OBVIOUS
<1> HIDE DEF T
<1> QED
  BY <1>1, <1>2

\* The pattern of the four ConvActivationFusers.
ActPattern(pattern, f) ==
  /\ DOMAIN pattern.nodes = {"input", "filter", "conv2d", "act", "conv2d_out", "output"}
                              \cup IF f \in {4, 6} THEN {"bias"} ELSE {}
  /\ pattern.nodes["input"] = In({<<"conv2d", "Input">>})
  /\ pattern.nodes["filter"] = In({<<"conv2d", "Filter">>})
  /\ pattern.nodes["conv2d"] = Op("conv2d", TRUE)
  /\ pattern.nodes["act"] = Op(ActOf(f), TRUE)
  /\ pattern.nodes["conv2d_out"] = Inner({<<"conv2d", "Output">>}, {<<ActOf(f), "X">>})
  /\ pattern.nodes["output"] = Out({<<ActOf(f), "Out">>})
  /\ pattern.edges[1] = <<"filter", "conv2d">> /\ pattern.edges[2] = <<"input", "conv2d">>
  /\ pattern.edges[3] = <<"conv2d", "conv2d_out">> /\ pattern.edges[4] = <<"conv2d_out", "act">>
  /\ pattern.edges[5] = <<"act", "output">>
  /\ f \in {4, 6} => /\ pattern.nodes["bias"] = In({<<"conv2d", "Bias">>})
                     /\ Len(pattern.edges) = 6 /\ pattern.edges[6] = <<"bias", "conv2d">>
                     /\ pattern.links = {"input", "filter", "bias"}
  /\ f \in {5, 7} => Len(pattern.edges) = 5 /\ pattern.links = {"input", "filter"}
  /\ pattern.kind = "conv_activation" /\ pattern.act = ActOf(f) /\ pattern.result = "output"

LEMMA ActPatterns ==
  ASSUME NEW f \in 4..7, NEW act, act = ActOf(f)
  PROVE  /\ f \in {4, 6} => ActPattern(ConvActivation(act, TRUE), f)
         /\ f \in {5, 7} => ActPattern(ConvActivation(act, FALSE), f)
<1>1. PICK q : q = <<<<"filter", "conv2d">>, <<"input", "conv2d">>, <<"conv2d", "conv2d_out">>,
                     <<"conv2d_out", "act">>, <<"act", "output">>>>
  OBVIOUS
<1>2. PICK e : e = <<"bias", "conv2d">>
  OBVIOUS
<1>3. PICK p : p = Append(q, e)
  OBVIOUS
<1>4. Len(p) = 6 /\ p[6] = e /\ \A i \in 1..5 : p[i] = q[i]
  <2> DEFINE S == {<<"filter", "conv2d">>, <<"input", "conv2d">>, <<"conv2d", "conv2d_out">>,
                   <<"conv2d_out", "act">>, <<"act", "output">>}
  <2>a. q \in Seq(S)
    BY <1>1
  <2>1. q \in Seq(S) /\ Len(q) = 5
    BY <1>1
  <2> HIDE DEF S
  <2>2. Len(Append(q, e)) = Len(q) + 1 /\ Append(q, e)[Len(q) + 1] = e
        /\ \A i \in 1..Len(q) : Append(q, e)[i] = q[i]
    BY <2>a, AppendFacts, Zenon
  <2> QED
    BY <1>3, <2>1, <2>2
<1>5. /\ q[1] = <<"filter", "conv2d">> /\ q[2] = <<"input", "conv2d">> /\ q[3] = <<"conv2d", "conv2d_out">>
      /\ q[4] = <<"conv2d_out", "act">> /\ q[5] = <<"act", "output">> /\ Len(q) = 5
  BY <1>1
<1>6. ASSUME f \in {4, 6}
      PROVE  ActPattern(ConvActivation(act, TRUE), f)
  <2>1. PICK pattern : pattern = ConvActivation(act, TRUE)
    OBVIOUS
  <2>2. pattern.edges = p
    BY <1>1, <1>2, <1>3, <2>1 DEF ConvActivation, Assign
  <2>3. /\ pattern.edges[1] = <<"filter", "conv2d">> /\ pattern.edges[2] = <<"input", "conv2d">>
        /\ pattern.edges[3] = <<"conv2d", "conv2d_out">> /\ pattern.edges[4] = <<"conv2d_out", "act">>
        /\ pattern.edges[5] = <<"act", "output">>
        /\ Len(pattern.edges) = 6 /\ pattern.edges[6] = <<"bias", "conv2d">>
    BY <1>2, <1>4, <1>5, <2>2
  <2>4. /\ pattern.links = {"input", "filter", "bias"} /\ pattern.kind = "conv_activation"
        /\ pattern.act = act /\ pattern.result = "output"
    BY <2>1 DEF ConvActivation
  <2>5. DOMAIN pattern.nodes = {"input", "filter", "conv2d", "act", "conv2d_out", "output", "bias"}
    BY <2>1 DEF ConvActivation, Assign
  <2>6. /\ pattern.nodes["input"] = In({<<"conv2d", "Input">>})
        /\ pattern.nodes["filter"] = In({<<"conv2d", "Filter">>})
        /\ pattern.nodes["conv2d"] = Op("conv2d", TRUE)
        /\ pattern.nodes["act"] = Op(act, TRUE)
        /\ pattern.nodes["conv2d_out"] = Inner({<<"conv2d", "Output">>}, {<<act, "X">>})
        /\ pattern.nodes["output"] = Out({<<act, "Out">>})
        /\ pattern.nodes["bias"] = In({<<"conv2d", "Bias">>})
    BY <2>1 DEF ConvActivation, Assign
  <2>7. ActPattern(pattern, f)
    BY <1>6, <2>3, <2>4, <2>5, <2>6 DEF ActPattern
  <2> QED
    BY <2>1, <2>7, Zenon
<1>7. ASSUME f \in {5, 7}
      PROVE  ActPattern(ConvActivation(act, FALSE), f)
  <2>1. PICK pattern : pattern = ConvActivation(act, FALSE)
    OBVIOUS
  <2>2. pattern.edges = q
    BY <1>1, <2>1 DEF ConvActivation
  <2>3. /\ pattern.edges[1] = <<"filter", "conv2d">> /\ pattern.edges[2] = <<"input", "conv2d">>
        /\ pattern.edges[3] = <<"conv2d", "conv2d_out">> /\ pattern.edges[4] = <<"conv2d_out", "act">>
        /\ pattern.edges[5] = <<"act", "output">> /\ Len(pattern.edges) = 5
    BY <1>5, <2>2
  <2>4. /\ pattern.links = {"input", "filter"} /\ pattern.kind = "conv_activation"
        /\ pattern.act = act /\ pattern.result = "output"
    BY <2>1 DEF ConvActivation
  <2>5. DOMAIN pattern.nodes = {"input", "filter", "conv2d", "act", "conv2d_out", "output"}
    BY <2>1 DEF ConvActivation
  <2>6. /\ pattern.nodes["input"] = In({<<"conv2d", "Input">>})
        /\ pattern.nodes["filter"] = In({<<"conv2d", "Filter">>})
        /\ pattern.nodes["conv2d"] = Op("conv2d", TRUE)
        /\ pattern.nodes["act"] = Op(act, TRUE)
        /\ pattern.nodes["conv2d_out"] = Inner({<<"conv2d", "Output">>}, {<<act, "X">>})
        /\ pattern.nodes["output"] = Out({<<act, "Out">>})
    BY <2>1 DEF ConvActivation
  <2>7. ActPattern(pattern, f)
    BY <1>7, <2>3, <2>4, <2>5, <2>6 DEF ActPattern
  <2> QED
    BY <2>1, <2>7, Zenon
<1> QED
  BY <1>6, <1>7, Zenon

LEMMA RawOfActBias ==
  ASSUME NEW f \in {4, 6}, ActPattern(Pattern, f), GraphOf(desc, inlinks, outlinks),
         NEW g \in DetectPatterns, StaysInside(g)
  PROVE  RawAct(desc, f, g) /\ InnerNodes(g) = {g["conv2d"], g["act"], g["conv2d_out"]}
<1>1. ActOf(f) # "var" /\ ActOf(f) # "any"
  BY DEF ActOf
<1>2. Roles = {"input", "filter", "conv2d", "act", "conv2d_out", "output", "bias"}
  BY DEF ActPattern, Roles
<1>3. /\ Pattern.nodes["input"] = In({<<"conv2d", "Input">>})
      /\ Pattern.nodes["filter"] = In({<<"conv2d", "Filter">>})
      /\ Pattern.nodes["conv2d"] = Op("conv2d", TRUE)
      /\ Pattern.nodes["act"] = Op(ActOf(f), TRUE)
      /\ Pattern.nodes["conv2d_out"] = Inner({<<"conv2d", "Output">>}, {<<ActOf(f), "X">>})
      /\ Pattern.nodes["output"] = Out({<<ActOf(f), "Out">>})
      /\ Pattern.nodes["bias"] = In({<<"conv2d", "Bias">>})
  BY DEF ActPattern
<1>a. Pattern.nodes["input"].type = "var" /\ Pattern.nodes["input"].in = {<<"conv2d", "Input">>} /\ ~Pattern.nodes["input"].inner
  BY <1>3 DEF In
<1>b. Pattern.nodes["filter"].type = "var" /\ Pattern.nodes["filter"].in = {<<"conv2d", "Filter">>} /\ ~Pattern.nodes["filter"].inner
  BY <1>3 DEF In
<1>c. Pattern.nodes["conv2d"].type = "conv2d" /\ Pattern.nodes["conv2d"].inner
  BY <1>3 DEF Op
<1>d. Pattern.nodes["act"].type = ActOf(f) /\ Pattern.nodes["act"].inner
  BY <1>3 DEF Op
<1>e. Pattern.nodes["conv2d_out"].type = "var" /\ Pattern.nodes["conv2d_out"].in = {<<ActOf(f), "X">>} /\ Pattern.nodes["conv2d_out"].inner
  BY <1>3 DEF Inner, In
<1>f. Pattern.nodes["output"].type = "var" /\ ~Pattern.nodes["output"].inner
  BY <1>3 DEF Out, In
<1>g. Pattern.nodes["bias"].type = "var" /\ Pattern.nodes["bias"].in = {<<"conv2d", "Bias">>} /\ ~Pattern.nodes["bias"].inner
  BY <1>3 DEF In
<1>6. InnerRoles = {"conv2d", "act", "conv2d_out"}
  BY <1>2, <1>a, <1>b, <1>c, <1>d, <1>e, <1>f, <1>g DEF InnerRoles
<1>7. InnerNodes(g) = {g["conv2d"], g["act"], g["conv2d_out"]}
  BY <1>6 DEF InnerNodes
<1>8. Len(Pattern.edges) = 6 /\ Pattern.edges[1] = <<"filter", "conv2d">> /\ Pattern.edges[2] = <<"input", "conv2d">> /\ Pattern.edges[3] = <<"conv2d", "conv2d_out">> /\ Pattern.edges[4] = <<"conv2d_out", "act">> /\ Pattern.edges[5] = <<"act", "output">> /\ Pattern.edges[6] = <<"bias", "conv2d">>
  BY DEF ActPattern
<1>9. Found(g, Pattern.edges, 6)
  <2>1. \A i \in 1..6 : Pattern.edges[i][1] # Pattern.edges[i][2]
    BY <1>8
  <2> QED
    BY <1>8, <2>1, DetectFound
<1>10. DOMAIN g = {"input", "filter", "conv2d", "act", "conv2d_out", "output", "bias"}
  <2>1. DOMAIN g = UNION {{Pattern.edges[i][1], Pattern.edges[i][2]} : i \in 1..6}
    BY <1>9 DEF Found
  <2>2. 1..6 = {1, 2, 3, 4, 5, 6}
    OBVIOUS
  <2> QED
    BY <1>8, <2>1, <2>2
<1>11. Injective(g)
  BY <1>9 DEF Found, Injective
<1>12. RoleRead(desc, g, "filter", "conv2d") /\ Tell("filter", g["filter"]) /\ Tell("conv2d", g["conv2d"])
  BY <1>b, <1>c, <1>1, <1>8, <1>9, FoundFacts
<1>13. RoleRead(desc, g, "input", "conv2d") /\ Tell("input", g["input"]) /\ Tell("conv2d", g["conv2d"])
  BY <1>a, <1>c, <1>1, <1>8, <1>9, FoundFacts
<1>14. RoleWritten(desc, g, "conv2d", "conv2d_out") /\ Tell("conv2d", g["conv2d"]) /\ Tell("conv2d_out", g["conv2d_out"])
  BY <1>c, <1>e, <1>1, <1>8, <1>9, FoundFacts
<1>15. RoleRead(desc, g, "conv2d_out", "act") /\ Tell("conv2d_out", g["conv2d_out"]) /\ Tell("act", g["act"])
  BY <1>e, <1>d, <1>1, <1>8, <1>9, FoundFacts
<1>16. RoleWritten(desc, g, "act", "output") /\ Tell("act", g["act"]) /\ Tell("output", g["output"])
  BY <1>d, <1>f, <1>1, <1>8, <1>9, FoundFacts
<1>17. RoleRead(desc, g, "bias", "conv2d") /\ Tell("bias", g["bias"]) /\ Tell("conv2d", g["conv2d"])
  BY <1>g, <1>c, <1>1, <1>8, <1>9, FoundFacts
<1>18. HasType(desc, g, "conv2d", "conv2d")
  BY <1>c, <1>12, <1>1, TellOp DEF HasType, At
<1>19. HasType(desc, g, "act", ActOf(f))
  BY <1>d, <1>15, <1>1, TellOp DEF HasType, At
<1>20. InSlot(desc, g, "input", "conv2d", "Input")
  <2>1. <<"conv2d", "Input">> \in Pattern.nodes["input"].in
    BY <1>a
  <2>2. <<"conv2d", "Input">>[1] = "conv2d" /\ <<"conv2d", "Input">>[2] = "Input" /\ "Input" # "any"
    OBVIOUS
  <2> QED
    BY <1>a, <1>13, <2>1, <2>2, TellIn, Zenon
<1>21. InSlot(desc, g, "filter", "conv2d", "Filter")
  <2>1. <<"conv2d", "Filter">> \in Pattern.nodes["filter"].in
    BY <1>b
  <2>2. <<"conv2d", "Filter">>[1] = "conv2d" /\ <<"conv2d", "Filter">>[2] = "Filter" /\ "Filter" # "any"
    OBVIOUS
  <2> QED
    BY <1>b, <1>12, <2>1, <2>2, TellIn, Zenon
<1>22. InSlot(desc, g, "bias", "conv2d", "Bias")
  <2>1. <<"conv2d", "Bias">> \in Pattern.nodes["bias"].in
    BY <1>g
  <2>2. <<"conv2d", "Bias">>[1] = "conv2d" /\ <<"conv2d", "Bias">>[2] = "Bias" /\ "Bias" # "any"
    OBVIOUS
  <2> QED
    BY <1>g, <1>17, <2>1, <2>2, TellIn, Zenon
<1>23. ReadInside(desc, g, "conv2d_out")
  BY <1>6, <1>14, InsideFacts DEF RoleRead, RoleWritten
<1>24. ReadsInside(desc, g, "conv2d")
  BY <1>6, <1>12, InsideFacts DEF RoleRead, RoleWritten
<1> QED
  BY <1>7, <1>10, <1>11, <1>12, <1>13, <1>14, <1>15, <1>16, <1>17, <1>18, <1>19, <1>20, <1>21, <1>22, <1>23, <1>24 DEF RawAct

LEMMA RawOfAct ==
  ASSUME NEW f \in {5, 7}, ActPattern(Pattern, f), GraphOf(desc, inlinks, outlinks),
         NEW g \in DetectPatterns, StaysInside(g)
  PROVE  RawAct(desc, f, g) /\ InnerNodes(g) = {g["conv2d"], g["act"], g["conv2d_out"]}
<1>1. ActOf(f) # "var" /\ ActOf(f) # "any"
  BY DEF ActOf
<1>2. Roles = {"input", "filter", "conv2d", "act", "conv2d_out", "output"}
  BY DEF ActPattern, Roles
<1>3. /\ Pattern.nodes["input"] = In({<<"conv2d", "Input">>})
      /\ Pattern.nodes["filter"] = In({<<"conv2d", "Filter">>})
      /\ Pattern.nodes["conv2d"] = Op("conv2d", TRUE)
      /\ Pattern.nodes["act"] = Op(ActOf(f), TRUE)
      /\ Pattern.nodes["conv2d_out"] = Inner({<<"conv2d", "Output">>}, {<<ActOf(f), "X">>})
      /\ Pattern.nodes["output"] = Out({<<ActOf(f), "Out">>})
  BY DEF ActPattern
<1>a. Pattern.nodes["input"].type = "var" /\ Pattern.nodes["input"].in = {<<"conv2d", "Input">>} /\ ~Pattern.nodes["input"].inner
  BY <1>3 DEF In
<1>b. Pattern.nodes["filter"].type = "var" /\ Pattern.nodes["filter"].in = {<<"conv2d", "Filter">>} /\ ~Pattern.nodes["filter"].inner
  BY <1>3 DEF In
<1>c. Pattern.nodes["conv2d"].type = "conv2d" /\ Pattern.nodes["conv2d"].inner
  BY <1>3 DEF Op
<1>d. Pattern.nodes["act"].type = ActOf(f) /\ Pattern.nodes["act"].inner
  BY <1>3 DEF Op
<1>e. Pattern.nodes["conv2d_out"].type = "var" /\ Pattern.nodes["conv2d_out"].in = {<<ActOf(f), "X">>} /\ Pattern.nodes["conv2d_out"].inner
  BY <1>3 DEF Inner, In
<1>f. Pattern.nodes["output"].type = "var" /\ ~Pattern.nodes["output"].inner
  BY <1>3 DEF Out, In
<1>6. InnerRoles = {"conv2d", "act", "conv2d_out"}
  BY <1>2, <1>a, <1>b, <1>c, <1>d, <1>e, <1>f DEF InnerRoles
<1>7. InnerNodes(g) = {g["conv2d"], g["act"], g["conv2d_out"]}
  BY <1>6 DEF InnerNodes
<1>8. Len(Pattern.edges) = 5 /\ Pattern.edges[1] = <<"filter", "conv2d">> /\ Pattern.edges[2] = <<"input", "conv2d">> /\ Pattern.edges[3] = <<"conv2d", "conv2d_out">> /\ Pattern.edges[4] = <<"conv2d_out", "act">> /\ Pattern.edges[5] = <<"act", "output">>
  BY DEF ActPattern
<1>9. Found(g, Pattern.edges, 5)
  <2>1. \A i \in 1..5 : Pattern.edges[i][1] # Pattern.edges[i][2]
    BY <1>8
  <2> QED
    BY <1>8, <2>1, DetectFound
<1>10. DOMAIN g = {"input", "filter", "conv2d", "act", "conv2d_out", "output"}
  <2>1. DOMAIN g = UNION {{Pattern.edges[i][1], Pattern.edges[i][2]} : i \in 1..5}
    BY <1>9 DEF Found
  <2>2. 1..5 = {1, 2, 3, 4, 5}
    OBVIOUS
  <2> QED
    BY <1>8, <2>1, <2>2
<1>11. Injective(g)
  BY <1>9 DEF Found, Injective
<1>12. RoleRead(desc, g, "filter", "conv2d") /\ Tell("filter", g["filter"]) /\ Tell("conv2d", g["conv2d"])
  BY <1>b, <1>c, <1>1, <1>8, <1>9, FoundFacts
<1>13. RoleRead(desc, g, "input", "conv2d") /\ Tell("input", g["input"]) /\ Tell("conv2d", g["conv2d"])
  BY <1>a, <1>c, <1>1, <1>8, <1>9, FoundFacts
<1>14. RoleWritten(desc, g, "conv2d", "conv2d_out") /\ Tell("conv2d", g["conv2d"]) /\ Tell("conv2d_out", g["conv2d_out"])
  BY <1>c, <1>e, <1>1, <1>8, <1>9, FoundFacts
<1>15. RoleRead(desc, g, "conv2d_out", "act") /\ Tell("conv2d_out", g["conv2d_out"]) /\ Tell("act", g["act"])
  BY <1>e, <1>d, <1>1, <1>8, <1>9, FoundFacts
<1>16. RoleWritten(desc, g, "act", "output") /\ Tell("act", g["act"]) /\ Tell("output", g["output"])
  BY <1>d, <1>f, <1>1, <1>8, <1>9, FoundFacts
<1>17. HasType(desc, g, "conv2d", "conv2d")
  BY <1>c, <1>12, <1>1, TellOp DEF HasType, At
<1>18. HasType(desc, g, "act", ActOf(f))
  BY <1>d, <1>15, <1>1, TellOp DEF HasType, At
<1>19. InSlot(desc, g, "input", "conv2d", "Input")
  <2>1. <<"conv2d", "Input">> \in Pattern.nodes["input"].in
    BY <1>a
  <2>2. <<"conv2d", "Input">>[1] = "conv2d" /\ <<"conv2d", "Input">>[2] = "Input" /\ "Input" # "any"
    OBVIOUS
  <2> QED
    BY <1>a, <1>13, <2>1, <2>2, TellIn, Zenon
<1>20. InSlot(desc, g, "filter", "conv2d", "Filter")
  <2>1. <<"conv2d", "Filter">> \in Pattern.nodes["filter"].in
    BY <1>b
  <2>2. <<"conv2d", "Filter">>[1] = "conv2d" /\ <<"conv2d", "Filter">>[2] = "Filter" /\ "Filter" # "any"
    OBVIOUS
  <2> QED
    BY <1>b, <1>12, <2>1, <2>2, TellIn, Zenon
<1>21. ReadInside(desc, g, "conv2d_out")
  BY <1>6, <1>14, InsideFacts DEF RoleRead, RoleWritten
<1>22. ReadsInside(desc, g, "conv2d")
  BY <1>6, <1>12, InsideFacts DEF RoleRead, RoleWritten
<1> QED
  BY <1>7, <1>10, <1>11, <1>12, <1>13, <1>14, <1>15, <1>16, <1>17, <1>18, <1>19, <1>20, <1>21, <1>22 DEF RawAct

-----------------------------------------------------------------------------
(* A match of well made descriptions is what its fuser expects.            *)

LEMMA NotItself ==
  ASSUME NEW d, NEW weights, WellMade(d, weights), NEW s \in DOMAIN d
  PROVE  d[s].out \notin NamesRead(d[s])
<1>1. PICK rank : \A t \in DOMAIN d :
        rank[d[t].out] \in Nat /\ \A x \in NamesRead(d[t]) : rank[x] \in Nat /\ rank[x] < rank[d[t].out]
  BY DEF WellMade, Ranked
<1>2. rank[d[s].out] \in Nat /\ (d[s].out \in NamesRead(d[s]) => rank[d[s].out] < rank[d[s].out])
  BY <1>1
<1> QED
  BY <1>2

\* A weight that is read is read in the slot where it is read at all.
LEMMA OwnSlot ==
  ASSUME NEW d, NEW weights, OwnWeights(d, weights), NEW g, NEW r, NEW type, NEW slot,
         InSlot(d, g, r, type, slot), Named(g, r) \in weights,
         NEW s \in DOMAIN d, Named(g, r) \in NamesRead(d[s])
  PROVE  slot \in DOMAIN d[s].in /\ d[s].in[slot] = Named(g, r) /\ d[s].type = type
<1>1. PICK t \in DOMAIN d : d[t].type = type /\ slot \in DOMAIN d[t].in /\ d[t].in[slot] = Named(g, r)
  BY DEF InSlot
<1>2. PICK j \in DOMAIN d[s].in : d[s].in[j] = Named(g, r)
  BY DEF NamesRead
<1>3. s = t /\ j = slot
  BY <1>1, <1>2 DEF OwnWeights
<1> QED
  BY <1>1, <1>3

\* The slots of weights hold weights.
LEMMA SlotHoldsWeight ==
  ASSUME NEW d, NEW weights, OwnWeights(d, weights), NEW g, NEW r, NEW type, NEW slot,
         InSlot(d, g, r, type, slot), type \in DOMAIN WeightSlots, slot \in WeightSlots[type]
  PROVE  Named(g, r) \in weights
<1>1. PICK t \in DOMAIN d : d[t].type = type /\ slot \in DOMAIN d[t].in /\ d[t].in[slot] = Named(g, r)
  BY DEF InSlot
<1>2. d[t].in[slot] \in weights
  <2>1. d[t].type \in DOMAIN WeightSlots /\ slot \in WeightSlots[d[t].type] \cap DOMAIN d[t].in
    BY <1>1
  <2> QED
    BY <2>1, Zenon DEF OwnWeights
<1> QED
  BY <1>1, <1>2

LEMMA WeightSlotFacts ==
  /\ DOMAIN WeightSlots = {"conv2d", "batch_norm", "mul"}
  /\ WeightSlots["conv2d"] = {"Filter", "Bias"} /\ WeightSlots["batch_norm"] = {"Scale", "Bias"}
  /\ WeightSlots["mul"] = {"Y"}
  BY DEF WeightSlots

LEMMA SlotFacts ==
  ASSUME NEW op, IsMade(op)
  PROVE  /\ op.type = "conv2d" => DOMAIN op.in = {"Input", "Filter"} \/ DOMAIN op.in = {"Input", "Filter", "Bias"}
         /\ op.type = "batch_norm" => DOMAIN op.in = {"X", "Scale", "Bias"}
         /\ op.type \in {"elementwise_add", "mul"} => DOMAIN op.in = {"X", "Y"}
         /\ op.type \in {"relu", "leaky_relu", "scale", "fetch"} => DOMAIN op.in = {"X"}
<1>1. /\ DOMAIN Slots = {"conv2d", "batch_norm", "elementwise_add", "mul", "relu", "leaky_relu", "scale", "fetch"}
      /\ Slots["conv2d"] = {"Input", "Filter"} /\ Slots["batch_norm"] = {"X", "Scale", "Bias"}
      /\ Slots["elementwise_add"] = {"X", "Y"} /\ Slots["mul"] = {"X", "Y"}
      /\ Slots["relu"] = {"X"} /\ Slots["leaky_relu"] = {"X"} /\ Slots["scale"] = {"X"} /\ Slots["fetch"] = {"X"}
  BY DEF Slots
<1>2. op.type \in DOMAIN Slots => DOMAIN op.in = Slots[op.type]
        \/ (op.type = "conv2d" /\ DOMAIN op.in = {"Input", "Filter", "Bias"})
  BY DEF IsMade
<1>3. CASE op.type = "conv2d"
  BY <1>1, <1>2, <1>3
<1>4. CASE op.type = "batch_norm"
  BY <1>1, <1>2, <1>4
<1>5. CASE op.type \in {"elementwise_add", "mul"}
  BY <1>1, <1>2, <1>5
<1>6. CASE op.type \in {"relu", "leaky_relu", "scale", "fetch"}
  BY <1>1, <1>2, <1>6
<1> QED
  BY <1>3, <1>4, <1>5, <1>6

\* What is read is in one of the slots.
LEMMA ReadSlots ==
  ASSUME NEW op, NEW x \in NamesRead(op)
  PROVE  \E j \in DOMAIN op.in : op.in[j] = x
  BY DEF NamesRead

LEMMA SlotRead ==
  ASSUME NEW op, NEW j \in DOMAIN op.in
  PROVE  op.in[j] \in NamesRead(op)
  BY DEF NamesRead

\* The input and the filter of the convolution of a match are where they belong.
LEMMA ConvSlots ==
  ASSUME NEW d, NEW weights, WellMade(d, weights), NEW g, NEW q, NEW input, NEW filter,
         RoleRead(d, g, filter, q), HasType(d, g, q, "conv2d"), InSlot(d, g, filter, "conv2d", "Filter")
  PROVE  LET c == At(g, q) IN
           /\ c \in DOMAIN d /\ d[c].type = "conv2d" /\ {"Input", "Filter"} \subseteq DOMAIN d[c].in
           /\ d[c].in.Filter = Named(g, filter) /\ Named(g, filter) \in weights
           /\ RoleRead(d, g, input, q) /\ InSlot(d, g, input, "conv2d", "Input")
                => d[c].in.Input = Named(g, input)
<1> DEFINE c == At(g, q)
<1>1. c \in DOMAIN d /\ d[c].type = "conv2d" /\ IsMade(d[c]) /\ OwnWeights(d, weights)
  BY DEF RoleRead, HasType, WellMade
<1>2. DOMAIN d[c].in = {"Input", "Filter"} \/ DOMAIN d[c].in = {"Input", "Filter", "Bias"}
  BY <1>1, SlotFacts
<1>3. Named(g, filter) \in weights
  BY <1>1, SlotHoldsWeight, WeightSlotFacts
<1>4. d[c].in.Filter = Named(g, filter)
  BY <1>1, <1>3, OwnSlot DEF RoleRead
<1>5. ASSUME RoleRead(d, g, input, q), InSlot(d, g, input, "conv2d", "Input")
      PROVE  d[c].in.Input = Named(g, input)
  <2>1. PICK j \in DOMAIN d[c].in : d[c].in[j] = Named(g, input)
    BY <1>5, ReadSlots DEF RoleRead
  <2>2. CASE j \in {"Filter", "Bias"}
    <3>1. Named(g, input) \in weights
      BY <1>1, <2>1, <2>2, WeightSlotFacts DEF OwnWeights
    <3> QED
      BY <1>1, <1>5, <3>1, OwnSlot DEF RoleRead
  <2> QED
    BY <1>2, <2>1, <2>2
<1> QED
  BY <1>1, <1>2, <1>3, <1>4, <1>5

\* The reader of a hidden variable is the only one.
LEMMA FeedsInside ==
  ASSUME NEW d, NEW weights, WellMade(d, weights), NEW g, NEW p, NEW r, NEW q,
         RoleWritten(d, g, p, r), RoleRead(d, g, r, q), ReadInside(d, g, r),
         \A k \in DOMAIN g : k \notin {p, q} => g[k][1] = "arg"
  PROVE  Feeds(d, At(g, p), At(g, q), Named(g, r))
<1> DEFINE s == At(g, p)
           t == At(g, q)
<1>1. /\ s \in DOMAIN d /\ t \in DOMAIN d /\ g[p] = Stmt(s) /\ g[q] = Stmt(t)
      /\ d[s].out = Named(g, r) /\ d[s].out \in NamesRead(d[t])
  BY DEF RoleWritten, RoleRead
<1>2. d[s].out \notin NamesRead(d[s])
  BY <1>1, NotItself
<1>3. s # t
  BY <1>1, <1>2
<1>4. ASSUME NEW u \in DOMAIN d, d[s].out \in NamesRead(d[u]) PROVE u = t
  <2>1. PICK k \in DOMAIN g : g[k] = Stmt(u)
    BY <1>1, <1>4 DEF ReadInside, Hit
  <2>2. g[k][1] # "arg"
    BY <2>1 DEF Stmt
  <2>3. k \in {p, q}
    BY <2>2
  <2>4. u = s \/ u = t
    BY <1>1, <2>1, <2>3 DEF Stmt
  <2> QED
    BY <1>2, <1>4, <2>4
<1>5. Follows(d, t, s)
  BY <1>1, <1>4 DEF Follows, Reads
<1> QED
  BY <1>1, <1>3, <1>5 DEF Feeds

\* The variables of a match are those of the operators c and a, but for a bias of c.
HoldsOnly(d, g, c, a) ==
  \A n \in Hit(g) : \/ n[1] = "stmt"
                    \/ n = Arg(<<d[c].in.Input, 0>>) \/ n = Arg(<<d[c].in.Filter, 0>>)
                    \/ n = Arg(<<d[c].out, 0>>) \/ n = Arg(<<d[a].out, 0>>)
                    \/ \E x \in NamesRead(d[a]) : n = Arg(<<x, 0>>)

\* The convolution of a match reads nothing that the match does not hold.
LEMMA NoBiasInside ==
  ASSUME NEW d, NEW weights, WellMade(d, weights), NEW g, NEW c \in DOMAIN d, NEW a \in DOMAIN d,
         d[c].type = "conv2d", "Filter" \in DOMAIN d[c].in, "Input" \in DOMAIN d[c].in, c # a,
         g["conv2d"] = Stmt(c), At(g, "conv2d") = c, ReadsInside(d, g, "conv2d"),
         HoldsOnly(d, g, c, a)
  PROVE  DOMAIN d[c].in = {"Input", "Filter"}
<1>1. IsMade(d[c]) /\ OwnWeights(d, weights) /\ OneWriter(d, weights)
  BY DEF WellMade
<1>2. DOMAIN d[c].in = {"Input", "Filter"} \/ DOMAIN d[c].in = {"Input", "Filter", "Bias"}
  BY <1>1, SlotFacts
<1>3. SUFFICES ASSUME "Bias" \in DOMAIN d[c].in PROVE FALSE
  BY <1>2
<1>4. PICK b : b = d[c].in["Bias"]
  OBVIOUS
<1>5. b \in weights
  BY <1>1, <1>3, <1>4, WeightSlotFacts DEF OwnWeights
<1>6. Arg(<<b, 0>>) \in Hit(g)
  BY <1>3, <1>4, SlotRead DEF ReadsInside
<1>7. \/ b = d[c].in["Input"] \/ b = d[c].in["Filter"] \/ b = d[c].out \/ b = d[a].out
      \/ \E x \in NamesRead(d[a]) : b = x
  BY <1>6 DEF Arg, HoldsOnly
<1>8. b # d[c].out /\ b # d[a].out
  BY <1>1, <1>5 DEF OneWriter
<1>9. b # d[c].in["Input"] /\ b # d[c].in["Filter"]
  BY <1>1, <1>3, <1>4, <1>5 DEF OwnWeights
<1>10. b \notin NamesRead(d[a])
  BY <1>1, <1>3, <1>4, <1>5, ReadSlots DEF OwnWeights
<1> QED
  BY <1>7, <1>8, <1>9, <1>10

LEMMA BiasFits ==
  ASSUME NEW d, NEW weights, WellMade(d, weights), NEW g, RawBias(d, weights, g)
  PROVE  FitsBias(d, weights, g)
<1> DEFINE c == At(g, "conv2d")
           a == At(g, "add")
<1>1. /\ RoleRead(d, g, "filter", "conv2d") /\ RoleRead(d, g, "input", "conv2d")
      /\ RoleWritten(d, g, "conv2d", "conv2d_out") /\ RoleRead(d, g, "conv2d_out", "add")
      /\ RoleRead(d, g, "bias", "add") /\ RoleWritten(d, g, "add", "output")
      /\ HasType(d, g, "conv2d", "conv2d") /\ HasType(d, g, "add", "elementwise_add")
      /\ InSlot(d, g, "input", "conv2d", "Input") /\ InSlot(d, g, "filter", "conv2d", "Filter")
      /\ InSlot(d, g, "bias", "elementwise_add", "Y") /\ Named(g, "bias") \in weights
      /\ ReadInside(d, g, "conv2d_out") /\ ReadsInside(d, g, "conv2d")
      /\ DOMAIN g = {"filter", "input", "conv2d", "conv2d_out", "add", "bias", "output"}
  BY DEF RawBias
<1>2. OwnWeights(d, weights) /\ OneWriter(d, weights)
  BY DEF WellMade
<1>3. /\ g["filter"] = Arg(<<Named(g, "filter"), 0>>) /\ g["input"] = Arg(<<Named(g, "input"), 0>>)
      /\ g["bias"] = Arg(<<Named(g, "bias"), 0>>) /\ g["output"] = Arg(<<Named(g, "output"), 0>>)
      /\ g["conv2d_out"] = Arg(<<Named(g, "conv2d_out"), 0>>)
      /\ g["conv2d"] = Stmt(c) /\ c \in DOMAIN d /\ g["add"] = Stmt(a) /\ a \in DOMAIN d
      /\ d[c].out = Named(g, "conv2d_out") /\ d[a].out = Named(g, "output")
      /\ Named(g, "bias") \in NamesRead(d[a]) /\ Named(g, "conv2d_out") \in NamesRead(d[a])
  BY <1>1 DEF RoleRead, RoleWritten
<1>4. d[c].type = "conv2d" /\ d[a].type = "elementwise_add"
  BY <1>1 DEF HasType
<1>5. /\ {"Input", "Filter"} \subseteq DOMAIN d[c].in
      /\ d[c].in.Filter = Named(g, "filter") /\ d[c].in.Input = Named(g, "input")
  BY <1>1, ConvSlots
<1>6. Feeds(d, c, a, Named(g, "conv2d_out"))
  <2>1. \A k \in DOMAIN g : k \notin {"conv2d", "add"} => g[k][1] = "arg"
    BY <1>1, <1>3 DEF Arg
  <2> QED
    BY <1>1, <2>1, FeedsInside
<1>7. "Y" \in DOMAIN d[a].in /\ d[a].in["Y"] = Named(g, "bias")
  BY <1>1, <1>2, <1>3, OwnSlot
<1>8. d[a].in["X"] = Named(g, "conv2d_out")
  <2>1. IsMade(d[a])
    BY <1>3 DEF WellMade
  <2>2. DOMAIN d[a].in = {"X", "Y"}
    BY <1>4, <2>1, SlotFacts
  <2>3. PICK j \in DOMAIN d[a].in : d[a].in[j] = Named(g, "conv2d_out")
    BY <1>3, ReadSlots
  <2>4. Named(g, "conv2d_out") \notin weights
    BY <1>2, <1>3 DEF OneWriter
  <2> QED
    BY <1>1, <1>7, <2>2, <2>3, <2>4
<1>9. DOMAIN d[c].in = {"Input", "Filter"}
  <2>1. HoldsOnly(d, g, c, a)
    <3> SUFFICES ASSUME NEW r \in DOMAIN g
                 PROVE  \/ g[r][1] = "stmt"
                        \/ g[r] = Arg(<<d[c].in.Input, 0>>) \/ g[r] = Arg(<<d[c].in.Filter, 0>>)
                        \/ g[r] = Arg(<<d[c].out, 0>>) \/ g[r] = Arg(<<d[a].out, 0>>)
                        \/ \E x \in NamesRead(d[a]) : g[r] = Arg(<<x, 0>>)
      BY DEF Hit, HoldsOnly
    <3>1. CASE r \in {"conv2d", "add"}
      BY <1>3, <3>1 DEF Stmt
    <3>2. CASE r \in {"filter", "input", "conv2d_out", "output"}
      BY <1>3, <1>5, <3>2
    <3>3. CASE r = "bias"
      BY <1>3, <3>3
    <3> QED
      BY <1>1, <3>1, <3>2, <3>3
  <2>2. c # a
    BY <1>4
  <2>3. At(g, "conv2d") = c
    OBVIOUS
  <2> HIDE DEF c, a
  <2>4. "Filter" \in DOMAIN d[c].in /\ "Input" \in DOMAIN d[c].in
    BY <1>5
  <2> QED
    BY <1>1, <1>3, <1>4, <2>1, <2>2, <2>3, <2>4, NoBiasInside
<1> QED
  BY <1>1, <1>3, <1>4, <1>5, <1>6, <1>7, <1>8, <1>9 DEF FitsBias, Ops, Vars

LEMMA NormFits ==
  ASSUME NEW d, NEW weights, WellMade(d, weights), NEW g, RawNorm(d, g)
  PROVE  FitsNorm(d, weights, g)
<1> DEFINE c == At(g, "conv2d")
           b == At(g, "bn")
<1>1. /\ RoleRead(d, g, "conv_input", "conv2d") /\ RoleRead(d, g, "conv_weight", "conv2d")
      /\ RoleWritten(d, g, "conv2d", "conv_out") /\ RoleRead(d, g, "conv_out", "bn")
      /\ RoleRead(d, g, "bn_scale", "bn") /\ RoleRead(d, g, "bn_bias", "bn") /\ RoleWritten(d, g, "bn", "bn_out")
      /\ HasType(d, g, "conv2d", "conv2d") /\ HasType(d, g, "bn", "batch_norm")
      /\ InSlot(d, g, "conv_weight", "conv2d", "Filter")
      /\ InSlot(d, g, "bn_scale", "batch_norm", "Scale") /\ InSlot(d, g, "bn_bias", "batch_norm", "Bias")
  BY DEF RawNorm
<1>2. OwnWeights(d, weights) /\ OneWriter(d, weights)
  BY DEF WellMade
<1>3. /\ g["conv_input"] = Arg(<<Named(g, "conv_input"), 0>>) /\ g["conv_weight"] = Arg(<<Named(g, "conv_weight"), 0>>)
      /\ g["conv_out"] = Arg(<<Named(g, "conv_out"), 0>>) /\ g["bn_scale"] = Arg(<<Named(g, "bn_scale"), 0>>)
      /\ g["bn_bias"] = Arg(<<Named(g, "bn_bias"), 0>>) /\ g["bn_out"] = Arg(<<Named(g, "bn_out"), 0>>)
      /\ g["conv2d"] = Stmt(c) /\ c \in DOMAIN d /\ g["bn"] = Stmt(b) /\ b \in DOMAIN d
      /\ d[c].out = Named(g, "conv_out") /\ d[b].out = Named(g, "bn_out")
      /\ Named(g, "conv_input") \in NamesRead(d[c])
      /\ Named(g, "conv_out") \in NamesRead(d[b])
      /\ Named(g, "bn_scale") \in NamesRead(d[b]) /\ Named(g, "bn_bias") \in NamesRead(d[b])
  BY <1>1 DEF RoleRead, RoleWritten
<1>4. d[c].type = "conv2d" /\ d[b].type = "batch_norm"
  BY <1>1 DEF HasType
<1>5. d[c].in["Filter"] = Named(g, "conv_weight")
  BY <1>1, ConvSlots
<1>6. Named(g, "bn_scale") \in weights /\ Named(g, "bn_bias") \in weights
  BY <1>1, <1>2, SlotHoldsWeight, WeightSlotFacts
<1>7. d[b].in["Scale"] = Named(g, "bn_scale") /\ d[b].in["Bias"] = Named(g, "bn_bias")
  BY <1>1, <1>2, <1>3, <1>6, OwnSlot
<1>8. d[b].in["X"] = Named(g, "conv_out")
  <2>1. IsMade(d[b])
    BY <1>3 DEF WellMade
  <2>2. DOMAIN d[b].in = {"X", "Scale", "Bias"}
    BY <1>4, <2>1, SlotFacts
  <2>3. PICK j \in DOMAIN d[b].in : d[b].in[j] = Named(g, "conv_out")
    BY <1>3, ReadSlots
  <2>4. Named(g, "conv_out") \notin weights
    BY <1>2, <1>3 DEF OneWriter
  <2> QED
    BY <1>6, <1>7, <2>2, <2>3, <2>4
<1> QED
  BY <1>3, <1>4, <1>5, <1>7, <1>8 DEF FitsNorm, Ops, Vars

LEMMA ActFits ==
  ASSUME NEW d, NEW weights, WellMade(d, weights), NEW f \in 4..7, NEW g, RawAct(d, f, g)
  PROVE  FitsAct(d, f, g)
<1> DEFINE c == At(g, "conv2d")
           a == At(g, "act")
<1>1. /\ RoleRead(d, g, "filter", "conv2d") /\ RoleRead(d, g, "input", "conv2d")
      /\ RoleWritten(d, g, "conv2d", "conv2d_out") /\ RoleRead(d, g, "conv2d_out", "act")
      /\ RoleWritten(d, g, "act", "output")
      /\ HasType(d, g, "conv2d", "conv2d") /\ HasType(d, g, "act", ActOf(f))
      /\ InSlot(d, g, "input", "conv2d", "Input") /\ InSlot(d, g, "filter", "conv2d", "Filter")
      /\ ReadInside(d, g, "conv2d_out") /\ ReadsInside(d, g, "conv2d")
      /\ f \in {4, 6} => RoleRead(d, g, "bias", "conv2d") /\ InSlot(d, g, "bias", "conv2d", "Bias")
      /\ DOMAIN g = {"filter", "input", "conv2d", "conv2d_out", "act", "output"}
                      \cup IF f \in {4, 6} THEN {"bias"} ELSE {}
  BY DEF RawAct
<1>2. OwnWeights(d, weights) /\ OneWriter(d, weights)
  BY DEF WellMade
<1>3. /\ g["filter"] = Arg(<<Named(g, "filter"), 0>>) /\ g["input"] = Arg(<<Named(g, "input"), 0>>)
      /\ g["output"] = Arg(<<Named(g, "output"), 0>>)
      /\ g["conv2d_out"] = Arg(<<Named(g, "conv2d_out"), 0>>)
      /\ g["conv2d"] = Stmt(c) /\ c \in DOMAIN d /\ g["act"] = Stmt(a) /\ a \in DOMAIN d
      /\ d[c].out = Named(g, "conv2d_out") /\ d[a].out = Named(g, "output")
      /\ Named(g, "conv2d_out") \in NamesRead(d[a])
      /\ f \in {4, 6} => g["bias"] = Arg(<<Named(g, "bias"), 0>>) /\ Named(g, "bias") \in NamesRead(d[c])
  BY <1>1 DEF RoleRead, RoleWritten
<1>4. d[c].type = "conv2d" /\ d[a].type = ActOf(f) /\ ActOf(f) \in {"relu", "leaky_relu"}
  BY <1>1 DEF HasType, ActOf
<1>5. /\ {"Input", "Filter"} \subseteq DOMAIN d[c].in
      /\ d[c].in.Filter = Named(g, "filter") /\ d[c].in.Input = Named(g, "input")
  BY <1>1, ConvSlots
<1>6. Feeds(d, c, a, Named(g, "conv2d_out"))
  <2>1. \A k \in DOMAIN g : k \notin {"conv2d", "act"} => g[k][1] = "arg"
    BY <1>1, <1>3 DEF Arg
  <2> QED
    BY <1>1, <2>1, FeedsInside
<1>7. d[a].in["X"] = Named(g, "conv2d_out")
  <2>1. IsMade(d[a])
    BY <1>3 DEF WellMade
  <2>2. DOMAIN d[a].in = {"X"}
    BY <1>4, <2>1, SlotFacts
  <2>3. PICK j \in DOMAIN d[a].in : d[a].in[j] = Named(g, "conv2d_out")
    BY <1>3, ReadSlots
  <2> QED
    BY <2>2, <2>3
<1>8. f \in {4, 6} => /\ Vars(g, {"bias"}) /\ d[c].in["Bias"] = Named(g, "bias")
                      /\ DOMAIN d[c].in = {"Input", "Filter", "Bias"}
  <2> SUFFICES ASSUME f \in {4, 6}
               PROVE  /\ Vars(g, {"bias"}) /\ d[c].in["Bias"] = Named(g, "bias")
                      /\ DOMAIN d[c].in = {"Input", "Filter", "Bias"}
    OBVIOUS
  <2>1. Named(g, "bias") \in weights
    BY <1>1, <1>2, SlotHoldsWeight, WeightSlotFacts
  <2>2. "Bias" \in DOMAIN d[c].in /\ d[c].in["Bias"] = Named(g, "bias")
    BY <1>1, <1>2, <1>3, <2>1, OwnSlot
  <2>3. IsMade(d[c])
    BY <1>3 DEF WellMade
  <2> QED
    BY <1>3, <1>4, <2>2, <2>3, SlotFacts DEF Vars
<1>9. f \notin {4, 6} => DOMAIN d[c].in = {"Input", "Filter"}
  <2> SUFFICES ASSUME f \notin {4, 6} PROVE DOMAIN d[c].in = {"Input", "Filter"}
    OBVIOUS
  <2>1. HoldsOnly(d, g, c, a)
    <3> SUFFICES ASSUME NEW r \in DOMAIN g
                 PROVE  \/ g[r][1] = "stmt"
                        \/ g[r] = Arg(<<d[c].in.Input, 0>>) \/ g[r] = Arg(<<d[c].in.Filter, 0>>)
                        \/ g[r] = Arg(<<d[c].out, 0>>) \/ g[r] = Arg(<<d[a].out, 0>>)
                        \/ \E x \in NamesRead(d[a]) : g[r] = Arg(<<x, 0>>)
      BY DEF Hit, HoldsOnly
    <3>1. CASE r \in {"conv2d", "act"}
      BY <1>3, <3>1 DEF Stmt
    <3>2. CASE r \in {"filter", "input", "conv2d_out", "output"}
      BY <1>3, <1>5, <3>2
    <3> QED
      BY <1>1, <3>1, <3>2
  <2>2. c # a
    BY <1>4
  <2>3. At(g, "conv2d") = c
    OBVIOUS
  <2> HIDE DEF c, a
  <2>4. "Filter" \in DOMAIN d[c].in /\ "Input" \in DOMAIN d[c].in
    BY <1>5
  <2> QED
    BY <1>1, <1>3, <1>4, <2>1, <2>2, <2>3, <2>4, NoBiasInside
<1> QED
  BY <1>3, <1>4, <1>5, <1>6, <1>7, <1>8, <1>9 DEF FitsAct, Ops, Vars

LEMMA FcFits ==
  ASSUME NEW d, NEW weights, WellMade(d, weights), NEW g, RawFc(d, g)
  PROVE  FitsFc(d, weights, g)
<1> DEFINE m == At(g, "mul")
           a == At(g, "add")
<1>1. /\ RoleRead(d, g, "W", "mul") /\ RoleRead(d, g, "x", "mul") /\ RoleWritten(d, g, "mul", "mul_out")
      /\ RoleRead(d, g, "mul_out", "add") /\ RoleRead(d, g, "b", "add") /\ RoleWritten(d, g, "add", "Out")
      /\ HasType(d, g, "mul", "mul") /\ HasType(d, g, "add", "elementwise_add")
      /\ InSlot(d, g, "W", "mul", "Y") /\ ReadInside(d, g, "mul_out") /\ Injective(g)
      /\ DOMAIN g = {"W", "x", "mul", "mul_out", "add", "b", "Out"}
  BY DEF RawFc
<1>2. OwnWeights(d, weights) /\ OneWriter(d, weights)
  BY DEF WellMade
<1>3. /\ g["W"] = Arg(<<Named(g, "W"), 0>>) /\ g["x"] = Arg(<<Named(g, "x"), 0>>)
      /\ g["b"] = Arg(<<Named(g, "b"), 0>>) /\ g["Out"] = Arg(<<Named(g, "Out"), 0>>)
      /\ g["mul_out"] = Arg(<<Named(g, "mul_out"), 0>>)
      /\ g["mul"] = Stmt(m) /\ m \in DOMAIN d /\ g["add"] = Stmt(a) /\ a \in DOMAIN d
      /\ d[m].out = Named(g, "mul_out") /\ d[a].out = Named(g, "Out")
      /\ Named(g, "W") \in NamesRead(d[m]) /\ Named(g, "x") \in NamesRead(d[m])
      /\ Named(g, "mul_out") \in NamesRead(d[a]) /\ Named(g, "b") \in NamesRead(d[a])
  BY <1>1 DEF RoleRead, RoleWritten
<1>4. d[m].type = "mul" /\ d[a].type = "elementwise_add"
  BY <1>1 DEF HasType
<1>5. Named(g, "b") # Named(g, "mul_out") /\ Named(g, "W") # Named(g, "x")
  <2>1. g["b"] # g["mul_out"] /\ g["W"] # g["x"]
    BY <1>1 DEF Injective
  <2> QED
    BY <1>3, <2>1
<1>6. Feeds(d, m, a, Named(g, "mul_out"))
  <2>1. \A k \in DOMAIN g : k \notin {"mul", "add"} => g[k][1] = "arg"
    BY <1>1, <1>3 DEF Arg
  <2> QED
    BY <1>1, <2>1, FeedsInside
<1>7. IsMade(d[m]) /\ IsMade(d[a])
  BY <1>3 DEF WellMade
<1>8. DOMAIN d[m].in = {"X", "Y"} /\ DOMAIN d[a].in = {"X", "Y"}
  BY <1>4, <1>7, SlotFacts
<1>9. d[m].in["Y"] = Named(g, "W")
  <2>1. Named(g, "W") \in weights
    BY <1>1, <1>2, SlotHoldsWeight, WeightSlotFacts
  <2> QED
    BY <1>1, <1>2, <1>3, <2>1, OwnSlot
<1>10. d[m].in["X"] = Named(g, "x")
  <2>1. PICK j \in DOMAIN d[m].in : d[m].in[j] = Named(g, "x")
    BY <1>3, ReadSlots
  <2> QED
    BY <1>5, <1>8, <1>9, <2>1
<1>11. {d[a].in.X, d[a].in.Y} = {Named(g, "b"), Named(g, "mul_out")}
  <2>1. PICK j \in DOMAIN d[a].in : d[a].in[j] = Named(g, "b")
    BY <1>3, ReadSlots
  <2>2. PICK k \in DOMAIN d[a].in : d[a].in[k] = Named(g, "mul_out")
    BY <1>3, ReadSlots
  <2>3. j # k
    BY <1>5, <2>1, <2>2
  <2> QED
    BY <1>8, <2>1, <2>2, <2>3
<1> QED
  BY <1>3, <1>4, <1>5, <1>6, <1>9, <1>10, <1>11 DEF FitsFc, Ops, Vars

LEMMA IdentityFits ==
  ASSUME NEW d, NEW weights, WellMade(d, weights), NEW g, RawIdentity(d, g)
  PROVE  FitsIdentity(d, g)
<1> DEFINE p == At(g, "preop")
           s == At(g, "scale")
<1>1. /\ RoleWritten(d, g, "preop", "x") /\ RoleRead(d, g, "x", "scale") /\ RoleWritten(d, g, "scale", "out")
      /\ HasType(d, g, "scale", "scale") /\ ReadInside(d, g, "x")
      /\ DOMAIN g = {"preop", "x", "scale", "out"}
  BY DEF RawIdentity
<1>2. /\ g["x"] = Arg(<<Named(g, "x"), 0>>) /\ g["out"] = Arg(<<Named(g, "out"), 0>>)
      /\ g["preop"] = Stmt(p) /\ p \in DOMAIN d /\ g["scale"] = Stmt(s) /\ s \in DOMAIN d
      /\ d[p].out = Named(g, "x") /\ d[s].out = Named(g, "out") /\ Named(g, "x") \in NamesRead(d[s])
  BY <1>1 DEF RoleRead, RoleWritten
<1>3. d[s].type = "scale"
  BY <1>1 DEF HasType
<1>4. Feeds(d, p, s, Named(g, "x"))
  <2>1. \A k \in DOMAIN g : k \notin {"preop", "scale"} => g[k][1] = "arg"
    BY <1>1, <1>2 DEF Arg
  <2> QED
    BY <1>1, <2>1, FeedsInside
<1>5. d[s].in["X"] = Named(g, "x")
  <2>1. IsMade(d[s])
    BY <1>2 DEF WellMade
  <2>2. DOMAIN d[s].in = {"X"}
    BY <1>3, <2>1, SlotFacts
  <2>3. PICK j \in DOMAIN d[s].in : d[s].in[j] = Named(g, "x")
    BY <1>2, ReadSlots
  <2> QED
    BY <2>2, <2>3
<1> QED
  BY <1>2, <1>3, <1>4, <1>5 DEF FitsIdentity, Ops, Vars

LEMMA SumFits ==
  ASSUME NEW d, NEW weights, WellMade(d, weights), NEW g, RawSum(d, g)
  PROVE  FitsSum(d, g)
<1> DEFINE s == At(g, "add")
           a == At(g, "act")
<1>1. /\ RoleRead(d, g, "x", "add") /\ RoleRead(d, g, "y", "add") /\ RoleWritten(d, g, "add", "add_out")
      /\ RoleRead(d, g, "add_out", "act") /\ RoleWritten(d, g, "act", "output")
      /\ HasType(d, g, "add", "elementwise_add") /\ HasType(d, g, "act", "relu")
      /\ ReadInside(d, g, "add_out") /\ Injective(g)
      /\ DOMAIN g = {"x", "y", "add", "add_out", "act", "output"}
  BY DEF RawSum
<1>2. /\ g["x"] = Arg(<<Named(g, "x"), 0>>) /\ g["y"] = Arg(<<Named(g, "y"), 0>>)
      /\ g["add_out"] = Arg(<<Named(g, "add_out"), 0>>) /\ g["output"] = Arg(<<Named(g, "output"), 0>>)
      /\ g["add"] = Stmt(s) /\ s \in DOMAIN d /\ g["act"] = Stmt(a) /\ a \in DOMAIN d
      /\ d[s].out = Named(g, "add_out") /\ d[a].out = Named(g, "output")
      /\ Named(g, "x") \in NamesRead(d[s]) /\ Named(g, "y") \in NamesRead(d[s])
      /\ Named(g, "add_out") \in NamesRead(d[a])
  BY <1>1 DEF RoleRead, RoleWritten
<1>3. d[s].type = "elementwise_add" /\ d[a].type = "relu"
  BY <1>1 DEF HasType
<1>4. Named(g, "x") # Named(g, "y")
  <2>1. g["x"] # g["y"]
    BY <1>1 DEF Injective
  <2> QED
    BY <1>2, <2>1
<1>5. Feeds(d, s, a, Named(g, "add_out"))
  <2>1. \A k \in DOMAIN g : k \notin {"add", "act"} => g[k][1] = "arg"
    BY <1>1, <1>2 DEF Arg
  <2> QED
    BY <1>1, <2>1, FeedsInside
<1>6. IsMade(d[s]) /\ IsMade(d[a])
  BY <1>2 DEF WellMade
<1>7. DOMAIN d[s].in = {"X", "Y"} /\ DOMAIN d[a].in = {"X"}
  BY <1>3, <1>6, SlotFacts
<1>8. {d[s].in.X, d[s].in.Y} = {Named(g, "x"), Named(g, "y")}
  <2>1. PICK j \in DOMAIN d[s].in : d[s].in[j] = Named(g, "x")
    BY <1>2, ReadSlots
  <2>2. PICK k \in DOMAIN d[s].in : d[s].in[k] = Named(g, "y")
    BY <1>2, ReadSlots
  <2>3. j # k
    BY <1>4, <2>1, <2>2
  <2> QED
    BY <1>7, <2>1, <2>2, <2>3
<1>9. d[a].in["X"] = Named(g, "add_out")
  <2>1. PICK j \in DOMAIN d[a].in : d[a].in[j] = Named(g, "add_out")
    BY <1>2, ReadSlots
  <2> QED
    BY <1>7, <2>1
<1> QED
  BY <1>2, <1>3, <1>4, <1>5, <1>8, <1>9 DEF FitsSum, Ops, Vars

-----------------------------------------------------------------------------
(* The pattern of each fuser, and the operator it makes of a match.        *)

\* The pattern at a position of Fusers.
LEMMA PatternOf ==
  ASSUME fuser \in 1..10
  PROVE  /\ fuser \in {1, 3} => Pattern = ConvElementwise
         /\ fuser = 2 => Pattern = ConvBN
         /\ fuser \in 4..7 => ActPattern(Pattern, fuser)
         /\ fuser = 8 => Pattern = Fc
         /\ fuser = 9 => Pattern = IdentityScale
         /\ fuser = 10 => Pattern = AddActivation
<1>1. PICK a : a = ConvElementwise
  OBVIOUS
<1>2. PICK b : b = ConvBN
  OBVIOUS
<1>3. PICK c : c = ConvActivation("relu", TRUE)
  OBVIOUS
<1>4. PICK e : e = ConvActivation("relu", FALSE)
  OBVIOUS
<1>5. PICK h : h = ConvActivation("leaky_relu", TRUE)
  OBVIOUS
<1>6. PICK i : i = ConvActivation("leaky_relu", FALSE)
  OBVIOUS
<1>7. PICK j : j = Fc
  OBVIOUS
<1>8. PICK k : k = IdentityScale
  OBVIOUS
<1>9. PICK l : l = AddActivation
  OBVIOUS
<1>10. Pattern = <<a, b, a, c, e, h, i, j, k, l>>[fuser]
  BY <1>1, <1>2, <1>3, <1>4, <1>5, <1>6, <1>7, <1>8, <1>9, Zenon DEF Pattern, Fusers
<1>11. ActOf(4) = "relu" /\ ActOf(5) = "relu" /\ ActOf(6) = "leaky_relu" /\ ActOf(7) = "leaky_relu"
  BY DEF ActOf
<1>12. ActPattern(c, 4) /\ ActPattern(e, 5) /\ ActPattern(h, 6) /\ ActPattern(i, 7)
  <2>1. 4 \in 4..7 /\ 5 \in 4..7 /\ 6 \in 4..7 /\ 7 \in 4..7 /\ 4 \in {4, 6} /\ 6 \in {4, 6} /\ 5 \in {5, 7} /\ 7 \in {5, 7}
    OBVIOUS
  <2>2. ActPattern(c, 4)
    BY <1>3, <1>11, <2>1, ActPatterns, Zenon
  <2>3. ActPattern(e, 5)
    BY <1>4, <1>11, <2>1, ActPatterns, Zenon
  <2>4. ActPattern(h, 6)
    BY <1>5, <1>11, <2>1, ActPatterns, Zenon
  <2>5. ActPattern(i, 7)
    BY <1>6, <1>11, <2>1, ActPatterns, Zenon
  <2> QED
    BY <2>2, <2>3, <2>4, <2>5
<1>13. /\ fuser \in {1, 3} => Pattern = a
       /\ fuser = 2 => Pattern = b
       /\ fuser = 4 => Pattern = c
       /\ fuser = 5 => Pattern = e
       /\ fuser = 6 => Pattern = h
       /\ fuser = 7 => Pattern = i
       /\ fuser = 8 => Pattern = j
       /\ fuser = 9 => Pattern = k
       /\ fuser = 10 => Pattern = l
  BY <1>10
<1>14. fuser \in 4..7 => fuser = 4 \/ fuser = 5 \/ fuser = 6 \/ fuser = 7
  OBVIOUS
<1> QED
  BY <1>1, <1>2, <1>7, <1>8, <1>9, <1>12, <1>13, <1>14, Zenon

\* The length of a pattern, which the search for the matches runs along.
LEMMA PatternLength ==
  ASSUME fuser \in 1..10
  PROVE  Len(Pattern.edges) \in Nat
<1>1. CASE fuser \in {1, 3}
  BY <1>1, PatternOf DEF ConvElementwise
<1>2. CASE fuser = 2
  BY <1>2, PatternOf DEF ConvBN
<1>3. CASE fuser \in 4..7
  <2>1. fuser \in {4, 6} \/ fuser \in {5, 7}
    BY <1>3
  <2> QED
    BY <1>3, <2>1, PatternOf DEF ActPattern
<1>4. CASE fuser = 8
  BY <1>4, PatternOf DEF Fc
<1>5. CASE fuser = 9
  BY <1>5, PatternOf DEF IdentityScale
<1>6. CASE fuser = 10
  BY <1>6, PatternOf DEF AddActivation
<1> QED
  BY <1>1, <1>2, <1>3, <1>4, <1>5, <1>6

\* What fuser f deletes of a match, and the match has a node for each role.
LEMMA MatchFits ==
  ASSUME fuser \in 1..10, GraphOf(desc, inlinks, outlinks), WellMade(desc, program.weights),
         NEW g \in DetectPatterns, StaysInside(g)
  PROVE  Fits(fuser, desc, program.weights, g) /\ InnerNodes(g) = InnerOf(fuser, g) /\ DOMAIN g = Roles
<1>1. CASE fuser \in {1, 3}
  <2>1. Pattern = ConvElementwise
    BY <1>1, PatternOf
  <2>2. RawBias(desc, program.weights, g) /\ InnerNodes(g) = {g["conv2d"], g["add"], g["conv2d_out"]}
    BY <2>1, RawOfBias
  <2>3. FitsBias(desc, program.weights, g)
    BY <2>2, BiasFits
  <2>4. DOMAIN g = Roles
    <3>1. Roles = {"input", "filter", "bias", "conv2d", "add", "conv2d_out", "output"}
      BY <2>1 DEF Roles, ConvElementwise
    <3> QED
      BY <2>2, <3>1 DEF RawBias
  <2>5. /\ g["conv2d"] = Stmt(At(g, "conv2d")) /\ g["add"] = Stmt(At(g, "add"))
        /\ g["conv2d_out"] = Arg(<<Named(g, "conv2d_out"), 0>>)
    BY <2>3 DEF FitsBias, Ops, Vars
  <2>6. InnerNodes(g) = InnerOf(fuser, g)
    BY <1>1, <2>2, <2>5 DEF InnerOf, Removed, Hidden
  <2>7. Fits(fuser, desc, program.weights, g)
    BY <1>1, <2>3 DEF Fits
  <2> QED
    BY <2>4, <2>6, <2>7
<1>2. CASE fuser = 2
  <2>1. Pattern = ConvBN
    BY <1>2, PatternOf
  <2>2. RawNorm(desc, g) /\ InnerNodes(g) = {g["bn_scale"], g["bn"]}
    BY <2>1, RawOfNorm
  <2>3. FitsNorm(desc, program.weights, g)
    BY <2>2, NormFits
  <2>4. DOMAIN g = Roles
    <3>1. Roles = {"conv_input", "conv_weight", "conv2d", "conv_out", "bn_scale", "bn_bias", "bn", "bn_out"}
      BY <2>1 DEF Roles, ConvBN
    <3> QED
      BY <2>2, <3>1 DEF RawNorm
  <2>5. g["bn"] = Stmt(At(g, "bn")) /\ g["bn_scale"] = Arg(<<Named(g, "bn_scale"), 0>>)
    BY <2>3 DEF FitsNorm, Ops, Vars
  <2>6. InnerNodes(g) = InnerOf(fuser, g)
    BY <1>2, <2>2, <2>5 DEF InnerOf, Removed, Hidden
  <2>7. Fits(fuser, desc, program.weights, g)
    BY <1>2, <2>3 DEF Fits
  <2> QED
    BY <2>4, <2>6, <2>7
<1>3. CASE fuser \in 4..7
  <2>1. ActPattern(Pattern, fuser)
    BY <1>3, PatternOf
  <2>2. RawAct(desc, fuser, g) /\ InnerNodes(g) = {g["conv2d"], g["act"], g["conv2d_out"]}
    <3>1. CASE fuser \in {4, 6}
      BY <2>1, <3>1, RawOfActBias
    <3>2. CASE fuser \in {5, 7}
      BY <2>1, <3>2, RawOfAct
    <3> QED
      BY <1>3, <3>1, <3>2
  <2>3. FitsAct(desc, fuser, g)
    BY <1>3, <2>2, ActFits
  <2>4. DOMAIN g = Roles
    <3>1. Roles = {"input", "filter", "conv2d", "act", "conv2d_out", "output"}
                    \cup IF fuser \in {4, 6} THEN {"bias"} ELSE {}
      BY <2>1 DEF Roles, ActPattern
    <3>2. DOMAIN g = {"filter", "input", "conv2d", "conv2d_out", "act", "output"}
                       \cup IF fuser \in {4, 6} THEN {"bias"} ELSE {}
      BY <2>2 DEF RawAct
    <3> QED
      BY <3>1, <3>2
  <2>5. /\ g["conv2d"] = Stmt(At(g, "conv2d")) /\ g["act"] = Stmt(At(g, "act"))
        /\ g["conv2d_out"] = Arg(<<Named(g, "conv2d_out"), 0>>)
    BY <2>3 DEF FitsAct, Ops, Vars
  <2>6. InnerNodes(g) = InnerOf(fuser, g)
    BY <1>3, <2>2, <2>5 DEF InnerOf, Removed, Hidden
  <2>7. Fits(fuser, desc, program.weights, g)
    BY <1>3, <2>3 DEF Fits
  <2> QED
    BY <2>4, <2>6, <2>7
<1>4. CASE fuser = 8
  <2>1. Pattern = Fc
    BY <1>4, PatternOf
  <2>2. RawFc(desc, g) /\ InnerNodes(g) = {g["mul"], g["add"], g["mul_out"]}
    BY <2>1, RawOfFc
  <2>3. FitsFc(desc, program.weights, g)
    BY <2>2, FcFits
  <2>4. DOMAIN g = Roles
    <3>1. Roles = {"x", "W", "b", "mul", "add", "mul_out", "Out"}
      BY <2>1 DEF Roles, Fc
    <3> QED
      BY <2>2, <3>1 DEF RawFc
  <2>5. /\ g["mul"] = Stmt(At(g, "mul")) /\ g["add"] = Stmt(At(g, "add"))
        /\ g["mul_out"] = Arg(<<Named(g, "mul_out"), 0>>)
    BY <2>3 DEF FitsFc, Ops, Vars
  <2>6. InnerNodes(g) = InnerOf(fuser, g)
    BY <1>4, <2>2, <2>5 DEF InnerOf, Removed, Hidden
  <2>7. Fits(fuser, desc, program.weights, g)
    BY <1>4, <2>3 DEF Fits
  <2> QED
    BY <2>4, <2>6, <2>7
<1>5. CASE fuser = 9
  <2>1. Pattern = IdentityScale
    BY <1>5, PatternOf
  <2>2. RawIdentity(desc, g) /\ InnerNodes(g) = {g["x"]}
    BY <2>1, RawOfIdentity
  <2>3. FitsIdentity(desc, g)
    BY <2>2, IdentityFits
  <2>4. DOMAIN g = Roles
    <3>1. Roles = {"preop", "x", "scale", "out"}
      BY <2>1 DEF Roles, IdentityScale
    <3> QED
      BY <2>2, <3>1 DEF RawIdentity
  <2>5. g["x"] = Arg(<<Named(g, "x"), 0>>)
    BY <2>3 DEF FitsIdentity, Vars
  <2>6. InnerNodes(g) = InnerOf(fuser, g)
    BY <1>5, <2>2, <2>5 DEF InnerOf, Removed, Hidden
  <2>7. Fits(fuser, desc, program.weights, g)
    BY <1>5, <2>3 DEF Fits
  <2> QED
    BY <2>4, <2>6, <2>7
<1>6. CASE fuser = 10
  <2>1. Pattern = AddActivation
    BY <1>6, PatternOf
  <2>2. RawSum(desc, g) /\ InnerNodes(g) = {g["add"], g["act"], g["add_out"]}
    BY <2>1, RawOfSum
  <2>3. FitsSum(desc, g)
    BY <2>2, SumFits
  <2>4. DOMAIN g = Roles
    <3>1. Roles = {"x", "y", "add", "act", "add_out", "output"}
      BY <2>1 DEF Roles, AddActivation
    <3> QED
      BY <2>2, <3>1 DEF RawSum
  <2>5. /\ g["add"] = Stmt(At(g, "add")) /\ g["act"] = Stmt(At(g, "act"))
        /\ g["add_out"] = Arg(<<Named(g, "add_out"), 0>>)
    BY <2>3 DEF FitsSum, Ops, Vars
  <2>6. InnerNodes(g) = InnerOf(fuser, g)
    BY <1>6, <2>2, <2>5 DEF InnerOf, Removed, Hidden
  <2>7. Fits(fuser, desc, program.weights, g)
    BY <1>6, <2>3 DEF Fits
  <2> QED
    BY <2>4, <2>6, <2>7
<1> QED
  BY <1>1, <1>2, <1>3, <1>4, <1>5, <1>6

\* The kind of each fuser.
LEMMA KindOf ==
  ASSUME fuser \in 1..10
  PROVE  /\ fuser \in {1, 3} => Pattern.kind = "conv_elementwise"
         /\ fuser = 2 <=> Pattern.kind = "conv_bn"
         /\ fuser \in 4..7 => Pattern.kind = "conv_activation"
         /\ fuser = 8 => Pattern.kind = "fc"
         /\ fuser = 9 <=> Pattern.kind = "identity_scale"
         /\ fuser = 10 => Pattern.kind = "add_activation"
<1>0. ConvElementwise.kind = "conv_elementwise"
  BY DEF ConvElementwise
<1>1. fuser \in {1, 3} => Pattern.kind = "conv_elementwise"
  BY <1>0, PatternOf
<1>2. fuser = 2 => Pattern.kind = "conv_bn"
  BY PatternOf DEF ConvBN
<1>3. fuser \in 4..7 => Pattern.kind = "conv_activation"
  BY PatternOf DEF ActPattern
<1>4. fuser = 8 => Pattern.kind = "fc"
  BY PatternOf DEF Fc
<1>5. fuser = 9 => Pattern.kind = "identity_scale"
  BY PatternOf DEF IdentityScale
<1>6. fuser = 10 => Pattern.kind = "add_activation"
  BY PatternOf DEF AddActivation
<1> QED
  BY <1>1, <1>2, <1>3, <1>4, <1>5, <1>6

\* The slots of the operator a fuser makes, and the names in them.
LEMMA NewSlots ==
  ASSUME NEW f \in (1..10) \ {9}, NEW d, NEW weights, WellMade(d, weights), NEW g, Fits(f, d, weights, g)
  PROVE  LET new == NewOp(f, d, g) IN
           /\ f \in {1, 3} =>
                /\ DOMAIN new.in = {"Input", "Filter", "Bias"} /\ new.in["Input"] = Named(g, "input")
                /\ new.in["Filter"] = Named(g, "filter") /\ new.in["Bias"] = Named(g, "bias")
                /\ new.out = Named(g, "output") /\ new.type = "conv2d"
           /\ f = 2 =>
                /\ DOMAIN new.in = {"X", "Y"} /\ new.in["X"] = Named(g, "conv_out")
                /\ new.in["Y"] = Named(g, "bn_bias")
                /\ new.out = Named(g, "bn_out") /\ new.type = "elementwise_add"
           /\ f \in 4..7 =>
                /\ DOMAIN new.in = {"Input", "Filter"} \cup IF f \in {4, 6} THEN {"Bias"} ELSE {}
                /\ new.in["Input"] = Named(g, "input") /\ new.in["Filter"] = Named(g, "filter")
                /\ f \in {4, 6} => new.in["Bias"] = Named(g, "bias")
                /\ new.out = Named(g, "output") /\ new.type = "conv2d"
           /\ f = 8 =>
                /\ DOMAIN new.in = {"Input", "W", "Bias"} /\ new.in["Input"] = Named(g, "x")
                /\ new.in["W"] = Named(g, "W") /\ new.in["Bias"] = Named(g, "b")
                /\ new.out = Named(g, "Out") /\ new.type = "fc"
           /\ f = 10 =>
                /\ DOMAIN new.in = {"X", "Y"} /\ new.in["X"] = Named(g, "x") /\ new.in["Y"] = Named(g, "y")
                /\ new.out = Named(g, "output") /\ new.type = "fusion_elementwise_add_activation"
           /\ DOMAIN new = {"type", "in", "out", "act"}
<1> DEFINE c == At(g, "conv2d")
<1>1. CASE f \in {1, 3}
  <2>1. FitsBias(d, weights, g)
    BY <1>1 DEF Fits
  <2>2. /\ c \in DOMAIN d /\ d[c].type = "conv2d" /\ DOMAIN d[c].in = {"Input", "Filter"}
        /\ d[c].in["Input"] = Named(g, "input") /\ d[c].in["Filter"] = Named(g, "filter")
    BY <2>1 DEF FitsBias, Ops
  <2>3. DOMAIN d[c] = {"type", "in", "out", "act"}
    BY <2>2 DEF WellMade, IsMade
  <2>4. NewOp(f, d, g) = [d[c] EXCEPT !.in = Assign(@, "Bias", Named(g, "bias")), !.out = Named(g, "output")]
    BY <1>1 DEF NewOp
  <2>5. PICK op : op = d[c]
    OBVIOUS
  <2>6. PICK in : in = Assign(op.in, "Bias", Named(g, "bias"))
    OBVIOUS
  <2>7. /\ DOMAIN in = {"Input", "Filter", "Bias"} /\ in["Input"] = Named(g, "input")
        /\ in["Filter"] = Named(g, "filter") /\ in["Bias"] = Named(g, "bias")
    BY <2>2, <2>5, <2>6 DEF Assign
  <2> HIDE DEF c
  <2>8. NewOp(f, d, g) = [op EXCEPT !.in = in, !.out = Named(g, "output")]
    BY <2>4, <2>5, <2>6
  <2>9. PICK new : new = NewOp(f, d, g)
    OBVIOUS
  <2>10. new.in = in /\ new.out = Named(g, "output") /\ new.type = "conv2d" /\ DOMAIN new = {"type", "in", "out", "act"}
    BY <2>2, <2>3, <2>5, <2>8, <2>9
  <2> QED
    BY <1>1, <2>7, <2>9, <2>10
<1>2. CASE f = 2
  BY <1>2 DEF NewOp, OpDesc
<1>3. CASE f \in 4..7
  <2>1. FitsAct(d, f, g)
    BY <1>3 DEF Fits
  <2>2. /\ c \in DOMAIN d /\ d[c].type = "conv2d"
        /\ DOMAIN d[c].in = {"Input", "Filter"} \cup IF f \in {4, 6} THEN {"Bias"} ELSE {}
        /\ d[c].in["Input"] = Named(g, "input") /\ d[c].in["Filter"] = Named(g, "filter")
        /\ f \in {4, 6} => d[c].in["Bias"] = Named(g, "bias")
    BY <2>1 DEF FitsAct, Ops
  <2>3. DOMAIN d[c] = {"type", "in", "out", "act"}
    BY <2>2 DEF WellMade, IsMade
  <2>4. NewOp(f, d, g) = [d[c] EXCEPT !.out = Named(g, "output"), !.act = ActOf(f)]
    BY <1>3 DEF NewOp
  <2>5. PICK op : op = d[c]
    OBVIOUS
  <2>6. PICK new : new = NewOp(f, d, g)
    OBVIOUS
  <2> HIDE DEF c
  <2>7. /\ new.in = op.in /\ new.out = Named(g, "output") /\ new.type = op.type
        /\ DOMAIN new = {"type", "in", "out", "act"}
    BY <2>3, <2>4, <2>5, <2>6
  <2> QED
    BY <1>3, <2>2, <2>5, <2>6, <2>7
<1>4. CASE f = 8
  BY <1>4 DEF NewOp, OpDesc
<1>5. CASE f = 10
  BY <1>5 DEF NewOp, OpDesc
<1> QED
  BY <1>1, <1>2, <1>3, <1>4, <1>5

\* InsertNewNode makes that operator and links it to the variables in its slots.
LEMMA NewStatement ==
  ASSUME fuser \in (1..10) \ {9}, NEW d, NEW weights, WellMade(d, weights), NEW g, Fits(fuser, d, weights, g),
         matched[handled + 1] = g, \A s \in DOMAIN d : desc[s] = d[s]
  PROVE  /\ GenOpDesc = NewOp(fuser, d, g)
         /\ {NodeOf(r) : r \in LinkedRoles} = Nodes(NamesRead(NewOp(fuser, d, g)))
         /\ {NodeOf(Pattern.result)} = Nodes({NewOp(fuser, d, g).out})
<1>0. \A r : NodeOf(r) = g[r][2] /\ NameOf(r) = Named(g, r) /\ OpOf(r) = At(g, r)
  BY DEF NodeOf, NameOf, OpOf, Current, Named, At
<1>1. CASE fuser \in {1, 3}
  <2>1. Pattern = ConvElementwise /\ Pattern.kind = "conv_elementwise"
    BY <1>1, PatternOf, KindOf
  <2>2. LinkedRoles = {"input", "filter", "bias"} /\ Pattern.result = "output"
    BY <2>1 DEF LinkedRoles, ConvElementwise
  <2>3. FitsBias(d, weights, g)
    BY <1>1 DEF Fits
  <2>4. At(g, "conv2d") \in DOMAIN d /\ Vars(g, {"input", "filter", "bias", "conv2d_out", "output"})
    BY <2>3 DEF FitsBias, Ops
  <2>5. GenOpDesc = ConvElementwiseDesc
    BY <2>1 DEF GenOpDesc
  <2>6. OldDesc("conv2d") = d[At(g, "conv2d")]
    BY <1>0, <2>4 DEF OldDesc
  <2>7. GenOpDesc = NewOp(fuser, d, g)
    BY <1>0, <1>1, <2>5, <2>6, Zenon DEF ConvElementwiseDesc, NewOp
  <2>8. NamesRead(NewOp(fuser, d, g)) = {Named(g, "input"), Named(g, "filter"), Named(g, "bias")}
    BY <1>1, NewSlots DEF NamesRead
  <2>9. \A r \in {"input", "filter", "bias", "output"} : NodeOf(r) = <<Named(g, r), 0>>
    BY <1>0, <2>4 DEF Vars, Arg
  <2>10. NewOp(fuser, d, g).out = Named(g, "output")
    BY <1>1, NewSlots
  <2>11. {NodeOf(r) : r \in LinkedRoles} = Nodes(NamesRead(NewOp(fuser, d, g)))
    BY <2>2, <2>8, <2>9 DEF Nodes
  <2> QED
    BY <2>2, <2>7, <2>9, <2>10, <2>11 DEF Nodes
<1>2. CASE fuser = 2
  <2>1. Pattern = ConvBN /\ Pattern.kind = "conv_bn"
    BY <1>2, PatternOf, KindOf
  <2>2. LinkedRoles = {"conv_out", "bn_bias"} /\ Pattern.result = "bn_out"
    BY <2>1 DEF LinkedRoles, ConvBN
  <2>3. FitsNorm(d, weights, g)
    BY <1>2 DEF Fits
  <2>4. Vars(g, {"conv_out", "bn_bias", "bn_out"})
    BY <2>3 DEF FitsNorm, Vars
  <2>5. GenOpDesc = ConvBNDesc
    BY <2>1 DEF GenOpDesc
  <2>7. GenOpDesc = NewOp(fuser, d, g)
    BY <1>0, <1>2, <2>5 DEF ConvBNDesc, NewOp
  <2>8. NamesRead(NewOp(fuser, d, g)) = {Named(g, "conv_out"), Named(g, "bn_bias")}
    BY <1>2, NewSlots DEF NamesRead
  <2>9. \A r \in {"conv_out", "bn_bias", "bn_out"} : NodeOf(r) = <<Named(g, r), 0>>
    BY <1>0, <2>4 DEF Vars, Arg
  <2>10. NewOp(fuser, d, g).out = Named(g, "bn_out")
    BY <1>2, NewSlots
  <2>11. {NodeOf(r) : r \in LinkedRoles} = Nodes(NamesRead(NewOp(fuser, d, g)))
    BY <2>2, <2>8, <2>9 DEF Nodes
  <2> QED
    BY <2>2, <2>7, <2>9, <2>10, <2>11 DEF Nodes
<1>3. CASE fuser \in 4..7
  <2>1. ActPattern(Pattern, fuser) /\ Pattern.kind = "conv_activation"
    BY <1>3, PatternOf, KindOf
  <2>2. /\ LinkedRoles = {"input", "filter"} \cup IF fuser \in {4, 6} THEN {"bias"} ELSE {}
        /\ Pattern.result = "output" /\ Pattern.act = ActOf(fuser)
    <3>1. fuser \in {4, 6} \/ fuser \in {5, 7}
      BY <1>3
    <3> QED
      BY <2>1, <3>1 DEF LinkedRoles, ActPattern
  <2>3. FitsAct(d, fuser, g)
    BY <1>3 DEF Fits
  <2>4. At(g, "conv2d") \in DOMAIN d /\ Vars(g, {"input", "filter", "output"}) /\ (fuser \in {4, 6} => Vars(g, {"bias"}))
    BY <2>3 DEF FitsAct, Ops, Vars
  <2>5. GenOpDesc = ConvActivationDesc
    BY <2>1 DEF GenOpDesc
  <2>6. OldDesc("conv2d") = d[At(g, "conv2d")]
    BY <1>0, <2>4 DEF OldDesc
  <2>7. GenOpDesc = NewOp(fuser, d, g)
    <3>1. NewOp(fuser, d, g) = [d[At(g, "conv2d")] EXCEPT !.out = Named(g, "output"), !.act = ActOf(fuser)]
      BY <1>3 DEF NewOp
    <3> QED
      BY <1>0, <2>2, <2>5, <2>6, <3>1, Zenon DEF ConvActivationDesc
  <2>8. NamesRead(NewOp(fuser, d, g)) = {Named(g, "input"), Named(g, "filter")} \cup IF fuser \in {4, 6} THEN {Named(g, "bias")} ELSE {}
    <3>1. PICK new : new = NewOp(fuser, d, g)
      OBVIOUS
    <3>2. /\ DOMAIN new.in = {"Input", "Filter"} \cup IF fuser \in {4, 6} THEN {"Bias"} ELSE {}
          /\ new.in["Input"] = Named(g, "input") /\ new.in["Filter"] = Named(g, "filter")
          /\ fuser \in {4, 6} => new.in["Bias"] = Named(g, "bias")
      BY <1>3, <3>1, NewSlots
    <3>3. CASE fuser \in {4, 6}
      <4>1. DOMAIN new.in = {"Input", "Filter", "Bias"}
        BY <3>2, <3>3
      <4>2. NamesRead(new) = {Named(g, "input"), Named(g, "filter"), Named(g, "bias")}
        BY <3>2, <3>3, <4>1 DEF NamesRead
      <4> QED
        BY <3>1, <3>3, <4>2
    <3>4. CASE fuser \notin {4, 6}
      <4>1. DOMAIN new.in = {"Input", "Filter"}
        BY <3>2, <3>4
      <4>2. NamesRead(new) = {Named(g, "input"), Named(g, "filter")}
        BY <3>2, <4>1 DEF NamesRead
      <4> QED
        BY <3>1, <3>4, <4>2
    <3> QED
      BY <3>3, <3>4
  <2>9. \A r \in LinkedRoles \cup {"output"} : NodeOf(r) = <<Named(g, r), 0>>
    BY <1>0, <2>2, <2>4 DEF Vars, Arg
  <2>10. NewOp(fuser, d, g).out = Named(g, "output")
    BY <1>3, NewSlots
  <2>11. {NodeOf(r) : r \in LinkedRoles} = Nodes(NamesRead(NewOp(fuser, d, g)))
    BY <2>2, <2>8, <2>9 DEF Nodes
  <2> QED
    BY <2>2, <2>7, <2>9, <2>10, <2>11 DEF Nodes
<1>4. CASE fuser = 8
  <2>1. Pattern = Fc /\ Pattern.kind = "fc"
    BY <1>4, PatternOf, KindOf
  <2>2. LinkedRoles = {"W", "x", "b"} /\ Pattern.result = "Out"
    BY <2>1 DEF LinkedRoles, Fc
  <2>3. FitsFc(d, weights, g)
    BY <1>4 DEF Fits
  <2>4. Vars(g, {"x", "W", "b", "Out"})
    BY <2>3 DEF FitsFc, Vars
  <2>5. GenOpDesc = FcDesc
    BY <2>1 DEF GenOpDesc
  <2>7. GenOpDesc = NewOp(fuser, d, g)
    BY <1>0, <1>4, <2>5 DEF FcDesc, NewOp
  <2>8. NamesRead(NewOp(fuser, d, g)) = {Named(g, "x"), Named(g, "W"), Named(g, "b")}
    BY <1>4, NewSlots DEF NamesRead
  <2>9. \A r \in {"x", "W", "b", "Out"} : NodeOf(r) = <<Named(g, r), 0>>
    BY <1>0, <2>4 DEF Vars, Arg
  <2>10. NewOp(fuser, d, g).out = Named(g, "Out")
    BY <1>4, NewSlots
  <2>11. {NodeOf(r) : r \in LinkedRoles} = Nodes(NamesRead(NewOp(fuser, d, g)))
    BY <2>2, <2>8, <2>9 DEF Nodes
  <2> QED
    BY <2>2, <2>7, <2>9, <2>10, <2>11 DEF Nodes
<1>5. CASE fuser = 10
  <2>1. Pattern = AddActivation /\ Pattern.kind = "add_activation"
    BY <1>5, PatternOf, KindOf
  <2>2. LinkedRoles = {"x", "y"} /\ Pattern.result = "output" /\ Pattern.act = "relu"
    BY <2>1 DEF LinkedRoles, AddActivation
  <2>3. FitsSum(d, g)
    BY <1>5 DEF Fits
  <2>4. Vars(g, {"x", "y", "output"})
    BY <2>3 DEF FitsSum, Vars
  <2>5. GenOpDesc = AddActivationDesc
    BY <2>1 DEF GenOpDesc
  <2>7. GenOpDesc = NewOp(fuser, d, g)
    BY <1>0, <1>5, <2>2, <2>5 DEF AddActivationDesc, NewOp
  <2>8. NamesRead(NewOp(fuser, d, g)) = {Named(g, "x"), Named(g, "y")}
    BY <1>5, NewSlots DEF NamesRead
  <2>9. \A r \in {"x", "y", "output"} : NodeOf(r) = <<Named(g, r), 0>>
    BY <1>0, <2>4 DEF Vars, Arg
  <2>10. NewOp(fuser, d, g).out = Named(g, "output")
    BY <1>5, NewSlots
  <2>11. {NodeOf(r) : r \in LinkedRoles} = Nodes(NamesRead(NewOp(fuser, d, g)))
    BY <2>2, <2>8, <2>9 DEF Nodes
  <2> QED
    BY <2>2, <2>7, <2>9, <2>10, <2>11 DEF Nodes
<1> QED
  BY <1>1, <1>2, <1>3, <1>4, <1>5

-----------------------------------------------------------------------------
(* A match is merged into one operator.                                    *)

\* What the description of a weight says: it is read once, and never written.
LEMMA WeightRead ==
  ASSUME NEW d, NEW weights, WellMade(d, weights), NEW x \in weights,
         NEW s \in DOMAIN d, NEW t \in DOMAIN d, NEW j \in DOMAIN d[s].in, NEW k \in DOMAIN d[t].in,
         d[s].in[j] = x, d[t].in[k] = x
  PROVE  s = t /\ j = k
<1>1. OwnWeights(d, weights)
  BY DEF WellMade
<1> QED
  BY <1>1 DEF OwnWeights

LEMMA WeightUnwritten ==
  ASSUME NEW d, NEW weights, WellMade(d, weights), NEW s \in DOMAIN d, NEW t \in DOMAIN d
  PROVE  d[s].out \notin weights /\ (d[s].out = d[t].out => s = t)
BY DEF WellMade, OneWriter

LEMMA InWeightSlot ==
  ASSUME NEW d, NEW weights, WellMade(d, weights), NEW s \in DOMAIN d, NEW slot \in DOMAIN d[s].in
  PROVE  /\ d[s].type = "conv2d" /\ slot \in {"Filter", "Bias"} => d[s].in[slot] \in weights
         /\ d[s].type = "batch_norm" /\ slot \in {"Scale", "Bias"} => d[s].in[slot] \in weights
         /\ d[s].type = "mul" /\ slot = "Y" => d[s].in[slot] \in weights
<1>1. d[s].type \in DOMAIN WeightSlots =>
        \A i \in WeightSlots[d[s].type] \cap DOMAIN d[s].in : d[s].in[i] \in weights
  BY DEF WellMade, OwnWeights
<1> QED
  BY <1>1, WeightSlotFacts

LEMMA FewFinite ==
  ASSUME NEW a, NEW b, NEW c
  PROVE  IsFiniteSet({a, b}) /\ IsFiniteSet({a, b, c})
<1>1. IsFiniteSet({})
  BY FS_EmptySet
<1>2. IsFiniteSet({} \cup {a})
  BY <1>1, FS_AddElement, Zenon
<1>3. IsFiniteSet(({} \cup {a}) \cup {b})
  BY <1>2, FS_AddElement, Zenon
<1>4. IsFiniteSet((({} \cup {a}) \cup {b}) \cup {c})
  BY <1>3, FS_AddElement, Zenon
<1>5. ({} \cup {a}) \cup {b} = {a, b} /\ (({} \cup {a}) \cup {b}) \cup {c} = {a, b, c}
  OBVIOUS
<1> QED
  BY <1>3, <1>4, <1>5, Zenon

LEMMA MadeConv ==
  ASSUME NEW new, DOMAIN new = {"type", "in", "out", "act"}, new.type = "conv2d",
         DOMAIN new.in = {"Input", "Filter", "Bias"} \/ DOMAIN new.in = {"Input", "Filter"}
  PROVE  IsMade(new)
<1>1. IsFiniteSet(DOMAIN new.in)
  <2>1. IsFiniteSet({"Input", "Filter", "Bias"}) /\ IsFiniteSet({"Input", "Filter"})
    BY FewFinite
  <2> QED
    BY <2>1
<1>2. Slots["conv2d"] = {"Input", "Filter"}
  BY DEF Slots
<1> QED
  BY <1>1, <1>2 DEF IsMade

LEMMA MergesBias ==
  ASSUME NEW d, NEW weights, WellMade(d, weights), NEW f \in {1, 3}, NEW g, FitsBias(d, weights, g)
  PROVE  Merging(d, weights, Removed(f, g), Hidden(f, g), NewOp(f, d, g))
<1> DEFINE c == At(g, "conv2d")
           a == At(g, "add")
           x == Named(g, "conv2d_out")
<1>1. /\ c \in DOMAIN d /\ a \in DOMAIN d
      /\ d[c].type = "conv2d" /\ DOMAIN d[c].in = {"Input", "Filter"}
      /\ d[c].in["Input"] = Named(g, "input") /\ d[c].in["Filter"] = Named(g, "filter")
      /\ c # a /\ d[c].out = x /\ Follows(d, a, c)
      /\ d[a].type = "elementwise_add" /\ d[a].in["X"] = x
      /\ d[a].in["Y"] = Named(g, "bias") /\ Named(g, "bias") \in weights
      /\ d[a].out = Named(g, "output")
  BY DEF FitsBias, Ops, Feeds
<1>2. DOMAIN d[a].in = {"X", "Y"}
  BY <1>1, SlotFacts DEF WellMade
<1>3. Removed(f, g) = {c, a} /\ Hidden(f, g) = {x}
  BY DEF Removed, Hidden
<1>4. PICK new : new = NewOp(f, d, g)
  OBVIOUS
<1>5. /\ DOMAIN new.in = {"Input", "Filter", "Bias"} /\ new.in["Input"] = Named(g, "input")
      /\ new.in["Filter"] = Named(g, "filter") /\ new.in["Bias"] = Named(g, "bias")
      /\ new.out = Named(g, "output") /\ new.type = "conv2d" /\ DOMAIN new = {"type", "in", "out", "act"}
  <2>1. Fits(f, d, weights, g)
    BY DEF Fits
  <2>2. f \in (1..10) \ {9}
    OBVIOUS
  <2> QED
    BY <1>4, <2>1, <2>2, NewSlots
<1> HIDE DEF c, a, x
<1>6. NamesRead(new) = {Named(g, "input"), Named(g, "filter"), Named(g, "bias")}
  BY <1>5 DEF NamesRead
<1>7. Named(g, "filter") \in weights
  BY <1>1, InWeightSlot
<1>8. Named(g, "input") \in NamesRead(d[c]) /\ Named(g, "filter") \in NamesRead(d[c]) /\ Named(g, "bias") \in NamesRead(d[a])
  BY <1>1, <1>2, SlotRead
<1>9. x \notin NamesRead(d[c]) /\ x \notin weights /\ Named(g, "output") # x
  BY <1>1, NotItself, WeightUnwritten
<1>10. Reads(d, a, c)
  BY <1>1, <1>2, SlotRead DEF Reads
<1>11. \A s \in DOMAIN d : ({d[s].out} \cup NamesRead(d[s])) \cap {x} # {} => s \in {c, a}
  <2> SUFFICES ASSUME NEW s \in DOMAIN d, d[s].out = x \/ x \in NamesRead(d[s])
               PROVE  s \in {c, a}
    OBVIOUS
  <2>1. CASE d[s].out = x
    BY <1>1, <2>1, WeightUnwritten
  <2>2. CASE x \in NamesRead(d[s])
    BY <1>1, <2>2 DEF Follows, Reads
  <2> QED
    BY <2>1, <2>2
<1>12. \A j, k \in DOMAIN new.in : new.in[j] = new.in[k] /\ new.in[j] \in weights => j = k
  <2>1. Named(g, "input") \in weights => Named(g, "input") # Named(g, "filter")
    BY <1>1, WeightRead
  <2>2. Named(g, "bias") # Named(g, "filter")
    BY <1>1, <1>2, WeightRead
  <2>3. Named(g, "bias") # Named(g, "input")
    BY <1>1, <1>2, WeightRead
  <2> QED
    BY <1>5, <2>1, <2>2, <2>3
<1>13. IsMade(new)
  BY <1>5, MadeConv
<1>14. \A slot \in WeightSlots["conv2d"] \cap DOMAIN new.in : new.in[slot] \in weights
  BY <1>1, <1>5, <1>7, WeightSlotFacts
<1>15. /\ {c, a} \subseteq DOMAIN d /\ new.type # "scale"
       /\ \E t \in {c, a} :
            /\ new.out = d[t].out
            /\ \A y \in NamesRead(new) :
                 y \in NamesRead(d[t]) \/ \E s \in {c, a} : y \in NamesRead(d[s]) /\ Reads(d, t, s)
  BY <1>1, <1>5, <1>6, <1>8, <1>10
<1>16. /\ \A s \in {c, a} : d[s].out \in {new.out} \cup {x}
       /\ \A y \in NamesRead(new) : y \notin {x}
       /\ new.out \notin {x}
  BY <1>1, <1>5, <1>6, <1>8, <1>9
<1>17. Merging(d, weights, {c, a}, {x}, new)
  BY <1>5, <1>11, <1>12, <1>13, <1>14, <1>15, <1>16 DEF Merging
<1> QED
  BY <1>3, <1>4, <1>17

LEMMA MergesNorm ==
  ASSUME NEW d, NEW weights, WellMade(d, weights), NEW g, FitsNorm(d, weights, g)
  PROVE  Merging(d, weights, Removed(2, g), Hidden(2, g), NewOp(2, d, g))
<1> DEFINE c == At(g, "conv2d")
           b == At(g, "bn")
           x == Named(g, "bn_scale")
<1>1. /\ c \in DOMAIN d /\ b \in DOMAIN d
      /\ d[c].out = Named(g, "conv_out")
      /\ d[b].type = "batch_norm" /\ d[b].in["X"] = Named(g, "conv_out")
      /\ d[b].in["Scale"] = x /\ d[b].in["Bias"] = Named(g, "bn_bias")
      /\ d[b].out = Named(g, "bn_out")
  BY DEF FitsNorm, Ops
<1>2. DOMAIN d[b].in = {"X", "Scale", "Bias"}
  BY <1>1, SlotFacts DEF WellMade
<1>3. Removed(2, g) = {b} /\ Hidden(2, g) = {x}
  BY DEF Removed, Hidden
<1>4. PICK new : new = NewOp(2, d, g)
  OBVIOUS
<1>5. /\ DOMAIN new.in = {"X", "Y"} /\ new.in["X"] = Named(g, "conv_out")
      /\ new.in["Y"] = Named(g, "bn_bias")
      /\ new.out = Named(g, "bn_out") /\ new.type = "elementwise_add" /\ DOMAIN new = {"type", "in", "out", "act"}
  <2>1. Fits(2, d, weights, g)
    BY DEF Fits
  <2> QED
    BY <1>4, <2>1, NewSlots
<1> HIDE DEF c, b, x
<1>6. NamesRead(new) = {Named(g, "conv_out"), Named(g, "bn_bias")}
  BY <1>5 DEF NamesRead
<1>7. x \in weights /\ Named(g, "bn_bias") \in weights
  BY <1>1, <1>2, InWeightSlot
<1>8. Named(g, "conv_out") \in NamesRead(d[b]) /\ Named(g, "bn_bias") \in NamesRead(d[b])
  BY <1>1, <1>2, SlotRead
<1>9. Named(g, "conv_out") \notin weights /\ Named(g, "bn_out") \notin weights
  BY <1>1, WeightUnwritten
<1>10. Named(g, "bn_bias") # x
  BY <1>1, <1>2, <1>7, WeightRead
<1>11. \A s \in DOMAIN d : ({d[s].out} \cup NamesRead(d[s])) \cap {x} # {} => s \in {b}
  <2> SUFFICES ASSUME NEW s \in DOMAIN d, d[s].out = x \/ x \in NamesRead(d[s])
               PROVE  s = b
    OBVIOUS
  <2>1. x \in NamesRead(d[s])
    BY <1>7, WeightUnwritten
  <2>2. PICK j \in DOMAIN d[s].in : d[s].in[j] = x
    BY <2>1, ReadSlots
  <2> QED
    BY <1>1, <1>2, <1>7, <2>2, WeightRead
<1>12. \A j, k \in DOMAIN new.in : new.in[j] = new.in[k] /\ new.in[j] \in weights => j = k
  BY <1>5, <1>9, <1>7
<1>13. IsMade(new)
  <2>1. IsFiniteSet({"X", "Y"})
    BY FewFinite
  <2>2. Slots["elementwise_add"] = {"X", "Y"}
    BY DEF Slots
  <2> QED
    BY <1>5, <2>1, <2>2 DEF IsMade
<1>14. new.type \notin DOMAIN WeightSlots
  BY <1>5, WeightSlotFacts
<1>15. /\ {b} \subseteq DOMAIN d /\ new.type # "scale"
       /\ \E t \in {b} :
            /\ new.out = d[t].out
            /\ \A y \in NamesRead(new) :
                 y \in NamesRead(d[t]) \/ \E s \in {b} : y \in NamesRead(d[s]) /\ Reads(d, t, s)
  BY <1>1, <1>5, <1>6, <1>8
<1>16. /\ \A s \in {b} : d[s].out \in {new.out} \cup {x}
       /\ \A y \in NamesRead(new) : y \notin {x}
       /\ new.out \notin {x}
  BY <1>1, <1>5, <1>6, <1>7, <1>9, <1>10
<1>17. Merging(d, weights, {b}, {x}, new)
  BY <1>11, <1>12, <1>13, <1>14, <1>15, <1>16 DEF Merging
<1> QED
  BY <1>3, <1>4, <1>17

LEMMA MergesAct ==
  ASSUME NEW d, NEW weights, WellMade(d, weights), NEW f \in 4..7, NEW g, FitsAct(d, f, g)
  PROVE  Merging(d, weights, Removed(f, g), Hidden(f, g), NewOp(f, d, g))
<1> DEFINE c == At(g, "conv2d")
           a == At(g, "act")
           x == Named(g, "conv2d_out")
<1>1. /\ c \in DOMAIN d /\ a \in DOMAIN d
      /\ d[c].type = "conv2d"
      /\ DOMAIN d[c].in = {"Input", "Filter"} \cup IF f \in {4, 6} THEN {"Bias"} ELSE {}
      /\ c # a /\ d[c].out = x /\ Follows(d, a, c)
      /\ d[a].in["X"] = x /\ d[a].type \in {"relu", "leaky_relu"}
      /\ d[a].out = Named(g, "output")
  BY DEF FitsAct, Ops, Feeds, ActOf
<1>2. DOMAIN d[a].in = {"X"}
  BY <1>1, SlotFacts DEF WellMade
<1>3. Removed(f, g) = {c, a} /\ Hidden(f, g) = {x}
  BY DEF Removed, Hidden
<1>4. PICK new : new = NewOp(f, d, g)
  OBVIOUS
<1>a. NewOp(f, d, g) = [d[c] EXCEPT !.out = Named(g, "output"), !.act = ActOf(f)]
  BY DEF NewOp
<1>b. DOMAIN d[c] = {"type", "in", "out", "act"}
  BY <1>1 DEF WellMade, IsMade
<1> HIDE DEF c, a, x
<1>5. /\ new.in = d[c].in
      /\ new.out = Named(g, "output") /\ new.type = "conv2d" /\ DOMAIN new = {"type", "in", "out", "act"}
  BY <1>1, <1>4, <1>a, <1>b
<1>6. NamesRead(new) = NamesRead(d[c])
  BY <1>5 DEF NamesRead
<1>9. x \notin NamesRead(d[c]) /\ Named(g, "output") # x
  BY <1>1, NotItself, WeightUnwritten
<1>10. Reads(d, a, c)
  BY <1>1, <1>2, SlotRead DEF Reads
<1>11. \A s \in DOMAIN d : ({d[s].out} \cup NamesRead(d[s])) \cap {x} # {} => s \in {c, a}
  <2> SUFFICES ASSUME NEW s \in DOMAIN d, d[s].out = x \/ x \in NamesRead(d[s])
               PROVE  s \in {c, a}
    OBVIOUS
  <2>1. CASE d[s].out = x
    BY <1>1, <2>1, WeightUnwritten
  <2>2. CASE x \in NamesRead(d[s])
    BY <1>1, <2>2 DEF Follows, Reads
  <2> QED
    BY <2>1, <2>2
<1>12. \A j, k \in DOMAIN new.in : new.in[j] = new.in[k] /\ new.in[j] \in weights => j = k
  BY <1>1, <1>5, WeightRead
<1>13. IsMade(new)
  <2>1. DOMAIN new.in = {"Input", "Filter", "Bias"} \/ DOMAIN new.in = {"Input", "Filter"}
    BY <1>1, <1>5
  <2> QED
    BY <1>5, <2>1, MadeConv
<1>14. \A slot \in WeightSlots["conv2d"] \cap DOMAIN new.in : new.in[slot] \in weights
  BY <1>1, <1>5, InWeightSlot, WeightSlotFacts
<1>15. /\ {c, a} \subseteq DOMAIN d /\ new.type # "scale"
       /\ \E t \in {c, a} :
            /\ new.out = d[t].out
            /\ \A y \in NamesRead(new) :
                 y \in NamesRead(d[t]) \/ \E s \in {c, a} : y \in NamesRead(d[s]) /\ Reads(d, t, s)
  BY <1>1, <1>5, <1>6, <1>10
<1>16. /\ \A s \in {c, a} : d[s].out \in {new.out} \cup {x}
       /\ \A y \in NamesRead(new) : y \notin {x}
       /\ new.out \notin {x}
  BY <1>1, <1>5, <1>6, <1>9
<1>17. Merging(d, weights, {c, a}, {x}, new)
  BY <1>5, <1>11, <1>12, <1>13, <1>14, <1>15, <1>16 DEF Merging
<1> QED
  BY <1>3, <1>4, <1>17

LEMMA MergesFc ==
  ASSUME NEW d, NEW weights, WellMade(d, weights), NEW g, FitsFc(d, weights, g)
  PROVE  Merging(d, weights, Removed(8, g), Hidden(8, g), NewOp(8, d, g))
<1> DEFINE c == At(g, "mul")
           a == At(g, "add")
           x == Named(g, "mul_out")
<1>1. /\ c \in DOMAIN d /\ a \in DOMAIN d
      /\ d[c].type = "mul" /\ d[c].in["X"] = Named(g, "x") /\ d[c].in["Y"] = Named(g, "W")
      /\ c # a /\ d[c].out = x /\ Follows(d, a, c)
      /\ d[a].type = "elementwise_add" /\ Named(g, "b") # x
      /\ {d[a].in["X"], d[a].in["Y"]} = {Named(g, "b"), x}
      /\ d[a].out = Named(g, "Out")
  BY DEF FitsFc, Ops, Feeds
<1>2. DOMAIN d[a].in = {"X", "Y"} /\ DOMAIN d[c].in = {"X", "Y"}
  BY <1>1, SlotFacts DEF WellMade
<1>3. Removed(8, g) = {c, a} /\ Hidden(8, g) = {x}
  BY DEF Removed, Hidden
<1>4. PICK new : new = NewOp(8, d, g)
  OBVIOUS
<1>5. /\ DOMAIN new.in = {"Input", "W", "Bias"} /\ new.in["Input"] = Named(g, "x")
      /\ new.in["W"] = Named(g, "W") /\ new.in["Bias"] = Named(g, "b")
      /\ new.out = Named(g, "Out") /\ new.type = "fc" /\ DOMAIN new = {"type", "in", "out", "act"}
  <2>1. Fits(8, d, weights, g)
    BY DEF Fits
  <2> QED
    BY <1>4, <2>1, NewSlots
<1> HIDE DEF c, a, x
<1>6. NamesRead(new) = {Named(g, "x"), Named(g, "W"), Named(g, "b")}
  BY <1>5 DEF NamesRead
<1>7. PICK j \in {"X", "Y"} : d[a].in[j] = Named(g, "b")
  BY <1>1
<1>c. x \in NamesRead(d[a])
  <2>1. d[a].in["X"] = x \/ d[a].in["Y"] = x
    BY <1>1
  <2> QED
    BY <1>2, <2>1, SlotRead
<1>8. Named(g, "x") \in NamesRead(d[c]) /\ Named(g, "W") \in NamesRead(d[c]) /\ Named(g, "b") \in NamesRead(d[a])
  BY <1>1, <1>2, <1>7, SlotRead
<1>9. x \notin NamesRead(d[c]) /\ Named(g, "Out") # x
  BY <1>1, NotItself, WeightUnwritten
<1>10. Reads(d, a, c)
  BY <1>1, <1>c DEF Reads
<1>11. \A s \in DOMAIN d : ({d[s].out} \cup NamesRead(d[s])) \cap {x} # {} => s \in {c, a}
  <2> SUFFICES ASSUME NEW s \in DOMAIN d, d[s].out = x \/ x \in NamesRead(d[s])
               PROVE  s \in {c, a}
    OBVIOUS
  <2>1. CASE d[s].out = x
    BY <1>1, <2>1, WeightUnwritten
  <2>2. CASE x \in NamesRead(d[s])
    BY <1>1, <2>2 DEF Follows, Reads
  <2> QED
    BY <2>1, <2>2
<1>12. \A i, k \in DOMAIN new.in : new.in[i] = new.in[k] /\ new.in[i] \in weights => i = k
  <2>1. Named(g, "x") \in weights => Named(g, "x") # Named(g, "W")
    BY <1>1, <1>2, WeightRead
  <2>2. Named(g, "b") \in weights => Named(g, "b") # Named(g, "x")
    BY <1>1, <1>2, <1>7, WeightRead
  <2>3. Named(g, "b") \in weights => Named(g, "b") # Named(g, "W")
    BY <1>1, <1>2, <1>7, WeightRead
  <2> QED
    BY <1>5, <2>1, <2>2, <2>3
<1>13. IsMade(new)
  <2>1. IsFiniteSet({"Input", "W", "Bias"})
    BY FewFinite
  <2>2. "fc" \notin DOMAIN Slots
    BY DEF Slots
  <2> QED
    BY <1>5, <2>1, <2>2 DEF IsMade
<1>14. new.type \notin DOMAIN WeightSlots
  BY <1>5, WeightSlotFacts
<1>15. /\ {c, a} \subseteq DOMAIN d /\ new.type # "scale"
       /\ \E t \in {c, a} :
            /\ new.out = d[t].out
            /\ \A y \in NamesRead(new) :
                 y \in NamesRead(d[t]) \/ \E s \in {c, a} : y \in NamesRead(d[s]) /\ Reads(d, t, s)
  BY <1>1, <1>5, <1>6, <1>8, <1>10
<1>16. /\ \A s \in {c, a} : d[s].out \in {new.out} \cup {x}
       /\ \A y \in NamesRead(new) : y \notin {x}
       /\ new.out \notin {x}
  BY <1>1, <1>5, <1>6, <1>8, <1>9
<1>17. Merging(d, weights, {c, a}, {x}, new)
  BY <1>11, <1>12, <1>13, <1>14, <1>15, <1>16 DEF Merging
<1> QED
  BY <1>3, <1>4, <1>17

LEMMA MergesSum ==
  ASSUME NEW d, NEW weights, WellMade(d, weights), NEW g, FitsSum(d, g)
  PROVE  Merging(d, weights, Removed(10, g), Hidden(10, g), NewOp(10, d, g))
<1> DEFINE c == At(g, "add")
           a == At(g, "act")
           x == Named(g, "add_out")
<1>1. /\ c \in DOMAIN d /\ a \in DOMAIN d
      /\ d[c].type = "elementwise_add"
      /\ {d[c].in["X"], d[c].in["Y"]} = {Named(g, "x"), Named(g, "y")} /\ Named(g, "x") # Named(g, "y")
      /\ c # a /\ d[c].out = x /\ Follows(d, a, c)
      /\ d[a].type = "relu" /\ d[a].in["X"] = x
      /\ d[a].out = Named(g, "output")
  BY DEF FitsSum, Ops, Feeds
<1>2. DOMAIN d[a].in = {"X"} /\ DOMAIN d[c].in = {"X", "Y"}
  BY <1>1, SlotFacts DEF WellMade
<1>3. Removed(10, g) = {c, a} /\ Hidden(10, g) = {x}
  BY DEF Removed, Hidden
<1>4. PICK new : new = NewOp(10, d, g)
  OBVIOUS
<1>5. /\ DOMAIN new.in = {"X", "Y"} /\ new.in["X"] = Named(g, "x") /\ new.in["Y"] = Named(g, "y")
      /\ new.out = Named(g, "output") /\ new.type = "fusion_elementwise_add_activation"
      /\ DOMAIN new = {"type", "in", "out", "act"}
  <2>1. Fits(10, d, weights, g)
    BY DEF Fits
  <2> QED
    BY <1>4, <2>1, NewSlots
<1> HIDE DEF c, a, x
<1>6. NamesRead(new) = {Named(g, "x"), Named(g, "y")}
  BY <1>5 DEF NamesRead
<1>7. NamesRead(d[c]) = {d[c].in["X"], d[c].in["Y"]}
  BY <1>2 DEF NamesRead
<1>8. NamesRead(new) = NamesRead(d[c])
  BY <1>1, <1>6, <1>7
<1>9. x \notin NamesRead(d[c]) /\ Named(g, "output") # x
  BY <1>1, NotItself, WeightUnwritten
<1>10. Reads(d, a, c)
  BY <1>1, <1>2, SlotRead DEF Reads
<1>11. \A s \in DOMAIN d : ({d[s].out} \cup NamesRead(d[s])) \cap {x} # {} => s \in {c, a}
  <2> SUFFICES ASSUME NEW s \in DOMAIN d, d[s].out = x \/ x \in NamesRead(d[s])
               PROVE  s \in {c, a}
    OBVIOUS
  <2>1. CASE d[s].out = x
    BY <1>1, <2>1, WeightUnwritten
  <2>2. CASE x \in NamesRead(d[s])
    BY <1>1, <2>2 DEF Follows, Reads
  <2> QED
    BY <2>1, <2>2
<1>12. \A i, k \in DOMAIN new.in : new.in[i] = new.in[k] /\ new.in[i] \in weights => i = k
  BY <1>1, <1>5
<1>13. IsMade(new)
  <2>1. IsFiniteSet({"X", "Y"})
    BY FewFinite
  <2>2. "fusion_elementwise_add_activation" \notin DOMAIN Slots
    BY DEF Slots
  <2> QED
    BY <1>5, <2>1, <2>2 DEF IsMade
<1>14. new.type \notin DOMAIN WeightSlots
  BY <1>5, WeightSlotFacts
<1>15. /\ {c, a} \subseteq DOMAIN d /\ new.type # "scale"
       /\ \E t \in {c, a} :
            /\ new.out = d[t].out
            /\ \A y \in NamesRead(new) :
                 y \in NamesRead(d[t]) \/ \E s \in {c, a} : y \in NamesRead(d[s]) /\ Reads(d, t, s)
  BY <1>1, <1>5, <1>8, <1>10
<1>16. /\ \A s \in {c, a} : d[s].out \in {new.out} \cup {x}
       /\ \A y \in NamesRead(new) : y \notin {x}
       /\ new.out \notin {x}
  BY <1>1, <1>5, <1>8, <1>9
<1>17. Merging(d, weights, {c, a}, {x}, new)
  BY <1>11, <1>12, <1>13, <1>14, <1>15, <1>16 DEF Merging
<1> QED
  BY <1>3, <1>4, <1>17

\* A match of every fuser but the one that eliminates is merged.
LEMMA FitsMerges ==
  ASSUME NEW d, NEW weights, WellMade(d, weights), NEW f \in (1..10) \ {9}, NEW g, Fits(f, d, weights, g)
  PROVE  Merging(d, weights, Removed(f, g), Hidden(f, g), NewOp(f, d, g))
<1>1. CASE f \in {1, 3}
  BY <1>1, MergesBias DEF Fits
<1>2. CASE f = 2
  BY <1>2, MergesNorm DEF Fits
<1>3. CASE f \in 4..7
  BY <1>3, MergesAct DEF Fits
<1>4. CASE f = 8
  BY <1>4, MergesFc DEF Fits
<1>5. CASE f = 10
  BY <1>5, MergesSum DEF Fits
<1> QED
  BY <1>1, <1>2, <1>3, <1>4, <1>5

-----------------------------------------------------------------------------
(* What one match deletes is no part of another.                           *)

RolesOf(f) ==
  IF f \in {1, 3} THEN {"input", "filter", "bias", "conv2d", "add", "conv2d_out", "output"}
  ELSE IF f = 2 THEN {"conv_input", "conv_weight", "conv2d", "conv_out", "bn_scale", "bn_bias", "bn", "bn_out"}
  ELSE IF f \in 4..7
  THEN {"input", "filter", "conv2d", "act", "conv2d_out", "output"} \cup IF f \in {4, 6} THEN {"bias"} ELSE {}
  ELSE IF f = 8 THEN {"x", "W", "b", "mul", "add", "mul_out", "Out"}
  ELSE IF f = 9 THEN {"preop", "x", "scale", "out"}
  ELSE {"x", "y", "add", "act", "add_out", "output"}

LEMMA RolesKnown ==
  ASSUME fuser \in 1..10
  PROVE  Roles = RolesOf(fuser)
<1>1. CASE fuser \in {1, 3}
  <2>1. Pattern = ConvElementwise
    BY <1>1, PatternOf
  <2>2. Roles = {"input", "filter", "bias", "conv2d", "add", "conv2d_out", "output"}
    BY <2>1 DEF Roles, ConvElementwise
  <2> QED
    BY <1>1, <2>2 DEF RolesOf
<1>2. CASE fuser = 2
  BY <1>2, PatternOf DEF Roles, RolesOf, ConvBN
<1>3. CASE fuser \in 4..7
  <2>1. ActPattern(Pattern, fuser)
    BY <1>3, PatternOf
  <2>2. Roles = {"input", "filter", "conv2d", "act", "conv2d_out", "output"}
                  \cup IF fuser \in {4, 6} THEN {"bias"} ELSE {}
    BY <2>1 DEF Roles, ActPattern
  <2> QED
    BY <1>3, <2>2 DEF RolesOf
<1>4. CASE fuser = 8
  BY <1>4, PatternOf DEF Roles, RolesOf, Fc
<1>5. CASE fuser = 9
  BY <1>5, PatternOf DEF Roles, RolesOf, IdentityScale
<1>6. CASE fuser = 10
  BY <1>6, PatternOf DEF Roles, RolesOf, AddActivation
<1> QED
  BY <1>1, <1>2, <1>3, <1>4, <1>5, <1>6

\* The operators of a match: those it removes, and the convolution of a ConvBN.
Parts(f, g) == Removed(f, g) \cup IF f = 2 THEN {At(g, "conv2d")} ELSE {}

Touches(d, s, n) == n = Stmt(s) \/ \E x \in {d[s].out} \cup NamesRead(d[s]) : n = Arg(<<x, 0>>)

\* Every node of a match is one of its operators, or a variable of one.
HitWithin(d, f, g) ==
  /\ Parts(f, g) \subseteq DOMAIN d
  /\ \A n \in Hit(g) : \E s \in Parts(f, g) : Touches(d, s, n)

LEMMA TouchesIn ==
  ASSUME NEW d, NEW s, NEW j \in DOMAIN d[s].in
  PROVE  Touches(d, s, Arg(<<d[s].in[j], 0>>))
BY SlotRead DEF Touches

LEMMA TouchesOut ==
  ASSUME NEW d, NEW s
  PROVE  Touches(d, s, Arg(<<d[s].out, 0>>)) /\ Touches(d, s, Stmt(s))
BY DEF Touches

LEMMA FitsWithin ==
  ASSUME NEW d, NEW weights, WellMade(d, weights), NEW f \in (1..10) \ {9}, NEW g, Fits(f, d, weights, g),
         DOMAIN g = RolesOf(f)
  PROVE  HitWithin(d, f, g)
<1>1. CASE f \in {1, 3}
  <2> DEFINE c == At(g, "conv2d")
             a == At(g, "add")
  <2>1. FitsBias(d, weights, g)
    BY <1>1 DEF Fits
  <2>2. /\ c \in DOMAIN d /\ a \in DOMAIN d /\ g["conv2d"] = Stmt(c) /\ g["add"] = Stmt(a)
        /\ DOMAIN d[c].in = {"Input", "Filter"}
        /\ g["input"] = Arg(<<d[c].in["Input"], 0>>) /\ g["filter"] = Arg(<<d[c].in["Filter"], 0>>)
        /\ g["conv2d_out"] = Arg(<<d[c].out, 0>>) /\ d[a].type = "elementwise_add"
        /\ g["bias"] = Arg(<<d[a].in["Y"], 0>>) /\ g["output"] = Arg(<<d[a].out, 0>>)
    BY <2>1 DEF FitsBias, Ops, Vars, Feeds
  <2>3. DOMAIN d[a].in = {"X", "Y"}
    BY <2>2, SlotFacts DEF WellMade
  <2>4. Parts(f, g) = {c, a}
    BY <1>1 DEF Parts, Removed
  <2>5. Hit(g) = {g["input"], g["filter"], g["bias"], g["conv2d"], g["add"], g["conv2d_out"], g["output"]}
    BY <1>1 DEF Hit, RolesOf
  <2> HIDE DEF c, a
  <2>6. /\ Touches(d, c, g["input"]) /\ Touches(d, c, g["filter"]) /\ Touches(d, c, g["conv2d"])
        /\ Touches(d, c, g["conv2d_out"])
        /\ Touches(d, a, g["bias"]) /\ Touches(d, a, g["add"]) /\ Touches(d, a, g["output"])
    BY <2>2, <2>3, TouchesIn, TouchesOut
  <2> QED
    BY <2>2, <2>4, <2>5, <2>6 DEF HitWithin
<1>2. CASE f = 2
  <2> DEFINE c == At(g, "conv2d")
             b == At(g, "bn")
  <2>1. FitsNorm(d, weights, g)
    BY <1>2 DEF Fits
  <2>2. /\ c \in DOMAIN d /\ b \in DOMAIN d /\ g["conv2d"] = Stmt(c) /\ g["bn"] = Stmt(b)
        /\ d[c].type = "conv2d" /\ Named(g, "conv_input") \in NamesRead(d[c])
        /\ g["conv_input"] = Arg(<<Named(g, "conv_input"), 0>>) /\ g["conv_weight"] = Arg(<<d[c].in["Filter"], 0>>)
        /\ g["conv_out"] = Arg(<<d[c].out, 0>>) /\ d[b].type = "batch_norm"
        /\ g["bn_scale"] = Arg(<<d[b].in["Scale"], 0>>) /\ g["bn_bias"] = Arg(<<d[b].in["Bias"], 0>>)
        /\ g["bn_out"] = Arg(<<d[b].out, 0>>)
    BY <2>1 DEF FitsNorm, Ops, Vars
  <2>3. DOMAIN d[b].in = {"X", "Scale", "Bias"} /\ "Filter" \in DOMAIN d[c].in
    BY <2>2, SlotFacts DEF WellMade
  <2>4. Parts(f, g) = {c, b}
    BY <1>2 DEF Parts, Removed
  <2>5. Hit(g) = {g["conv_input"], g["conv_weight"], g["conv2d"], g["conv_out"], g["bn_scale"], g["bn_bias"],
                  g["bn"], g["bn_out"]}
    BY <1>2 DEF Hit, RolesOf
  <2> HIDE DEF c, b
  <2>6. /\ Touches(d, c, g["conv_weight"]) /\ Touches(d, c, g["conv2d"])
        /\ Touches(d, c, g["conv_out"])
        /\ Touches(d, b, g["bn_scale"]) /\ Touches(d, b, g["bn_bias"]) /\ Touches(d, b, g["bn"])
        /\ Touches(d, b, g["bn_out"])
    BY <2>2, <2>3, TouchesIn, TouchesOut
  <2>7. Touches(d, c, g["conv_input"])
    BY <2>2 DEF Touches
  <2> QED
    BY <2>2, <2>4, <2>5, <2>6, <2>7 DEF HitWithin
<1>3. CASE f \in 4..7
  <2> DEFINE c == At(g, "conv2d")
             a == At(g, "act")
  <2>1. FitsAct(d, f, g)
    BY <1>3 DEF Fits
  <2>2. /\ c \in DOMAIN d /\ a \in DOMAIN d /\ g["conv2d"] = Stmt(c) /\ g["act"] = Stmt(a)
        /\ {"Input", "Filter"} \subseteq DOMAIN d[c].in /\ (f \in {4, 6} => "Bias" \in DOMAIN d[c].in)
        /\ g["input"] = Arg(<<d[c].in["Input"], 0>>) /\ g["filter"] = Arg(<<d[c].in["Filter"], 0>>)
        /\ f \in {4, 6} => g["bias"] = Arg(<<d[c].in["Bias"], 0>>)
        /\ g["conv2d_out"] = Arg(<<d[c].out, 0>>)
        /\ g["output"] = Arg(<<d[a].out, 0>>)
    BY <2>1 DEF FitsAct, Ops, Vars, Feeds
  <2>4. Parts(f, g) = {c, a}
    BY <1>3 DEF Parts, Removed
  <2>5. Hit(g) = {g["input"], g["filter"], g["conv2d"], g["act"], g["conv2d_out"], g["output"]}
                   \cup IF f \in {4, 6} THEN {g["bias"]} ELSE {}
    <3>1. DOMAIN g = {"input", "filter", "conv2d", "act", "conv2d_out", "output"} \cup IF f \in {4, 6} THEN {"bias"} ELSE {}
      BY <1>3 DEF RolesOf
    <3> QED
      BY <3>1 DEF Hit
  <2> HIDE DEF c, a
  <2>6. /\ Touches(d, c, g["input"]) /\ Touches(d, c, g["filter"]) /\ Touches(d, c, g["conv2d"])
        /\ Touches(d, c, g["conv2d_out"]) /\ (f \in {4, 6} => Touches(d, c, g["bias"]))
        /\ Touches(d, a, g["act"]) /\ Touches(d, a, g["output"])
    BY <2>2, TouchesIn, TouchesOut
  <2> QED
    BY <2>2, <2>4, <2>5, <2>6 DEF HitWithin
<1>4. CASE f = 8
  <2> DEFINE c == At(g, "mul")
             a == At(g, "add")
  <2>1. FitsFc(d, weights, g)
    BY <1>4 DEF Fits
  <2>2. /\ c \in DOMAIN d /\ a \in DOMAIN d /\ g["mul"] = Stmt(c) /\ g["add"] = Stmt(a)
        /\ d[c].type = "mul" /\ d[a].type = "elementwise_add"
        /\ g["x"] = Arg(<<d[c].in["X"], 0>>) /\ g["W"] = Arg(<<d[c].in["Y"], 0>>)
        /\ g["mul_out"] = Arg(<<d[c].out, 0>>)
        /\ {d[a].in["X"], d[a].in["Y"]} = {Named(g, "b"), Named(g, "mul_out")}
        /\ g["b"] = Arg(<<Named(g, "b"), 0>>) /\ g["Out"] = Arg(<<d[a].out, 0>>)
    BY <2>1 DEF FitsFc, Ops, Vars, Feeds
  <2>3. DOMAIN d[a].in = {"X", "Y"} /\ DOMAIN d[c].in = {"X", "Y"}
    BY <2>2, SlotFacts DEF WellMade
  <2>4. Parts(f, g) = {c, a}
    BY <1>4 DEF Parts, Removed
  <2>5. Hit(g) = {g["x"], g["W"], g["b"], g["mul"], g["add"], g["mul_out"], g["Out"]}
    BY <1>4 DEF Hit, RolesOf
  <2>6. PICK j \in {"X", "Y"} : g["b"] = Arg(<<d[a].in[j], 0>>)
    BY <2>2
  <2> HIDE DEF c, a
  <2>7. /\ Touches(d, c, g["x"]) /\ Touches(d, c, g["W"]) /\ Touches(d, c, g["mul"])
        /\ Touches(d, c, g["mul_out"])
        /\ Touches(d, a, g["b"]) /\ Touches(d, a, g["add"]) /\ Touches(d, a, g["Out"])
    BY <2>2, <2>3, <2>6, TouchesIn, TouchesOut
  <2> QED
    BY <2>2, <2>4, <2>5, <2>7 DEF HitWithin
<1>5. CASE f = 10
  <2> DEFINE c == At(g, "add")
             a == At(g, "act")
  <2>1. FitsSum(d, g)
    BY <1>5 DEF Fits
  <2>2. /\ c \in DOMAIN d /\ a \in DOMAIN d /\ g["add"] = Stmt(c) /\ g["act"] = Stmt(a)
        /\ d[c].type = "elementwise_add"
        /\ {d[c].in["X"], d[c].in["Y"]} = {Named(g, "x"), Named(g, "y")}
        /\ g["x"] = Arg(<<Named(g, "x"), 0>>) /\ g["y"] = Arg(<<Named(g, "y"), 0>>)
        /\ g["add_out"] = Arg(<<d[c].out, 0>>)
        /\ g["output"] = Arg(<<d[a].out, 0>>)
    BY <2>1 DEF FitsSum, Ops, Vars, Feeds
  <2>3. DOMAIN d[c].in = {"X", "Y"}
    BY <2>2, SlotFacts DEF WellMade
  <2>4. Parts(f, g) = {c, a}
    BY <1>5 DEF Parts, Removed
  <2>5. Hit(g) = {g["x"], g["y"], g["add"], g["act"], g["add_out"], g["output"]}
    BY <1>5 DEF Hit, RolesOf
  <2>6. PICK j \in {"X", "Y"} : g["x"] = Arg(<<d[c].in[j], 0>>)
    BY <2>2
  <2>7. PICK k \in {"X", "Y"} : g["y"] = Arg(<<d[c].in[k], 0>>)
    BY <2>2
  <2> HIDE DEF c, a
  <2>8. /\ Touches(d, c, g["x"]) /\ Touches(d, c, g["y"]) /\ Touches(d, c, g["add"])
        /\ Touches(d, c, g["add_out"]) /\ Touches(d, a, g["act"]) /\ Touches(d, a, g["output"])
    BY <2>2, <2>3, <2>6, <2>7, TouchesIn, TouchesOut
  <2> QED
    BY <2>2, <2>4, <2>5, <2>8 DEF HitWithin
<1> QED
  BY <1>1, <1>2, <1>3, <1>4, <1>5

\* What one match removes and uses, another that uses it removes.
LEMMA PartRemoved ==
  ASSUME NEW d, NEW weights, NEW f \in (1..10) \ {9}, NEW g, Fits(f, d, weights, g),
         NEW h, Fits(f, d, weights, h), NEW s \in Removed(f, g), s \in Parts(f, h)
  PROVE  s \in Removed(f, h)
<1>1. CASE f = 2
  <2>1. FitsNorm(d, weights, g) /\ FitsNorm(d, weights, h)
    BY <1>1 DEF Fits
  <2>2. s = At(g, "bn") /\ d[s].type = "batch_norm" /\ d[At(h, "conv2d")].type = "conv2d"
    BY <1>1, <2>1 DEF FitsNorm, Removed
  <2> QED
    BY <1>1, <2>2 DEF Parts
<1>2. CASE f # 2
  BY <1>2 DEF Parts
<1> QED
  BY <1>1, <1>2

\* The nodes one match deletes, none of which is in the other, one way.
LEMMA HiddenApart ==
  ASSUME NEW d, NEW weights, WellMade(d, weights), NEW f \in (1..10) \ {9},
         NEW g, Fits(f, d, weights, g), NEW h, Fits(f, d, weights, h),
         DOMAIN h = RolesOf(f), InnerOf(f, g) \subseteq Hit(g),
         InnerOf(f, h) \cap Hit(g) = {}
  PROVE  InnerOf(f, g) \cap Hit(h) = {}
<1> SUFFICES ASSUME NEW n \in InnerOf(f, g), n \in Hit(h) PROVE FALSE
  OBVIOUS
<1>1. PICK s \in Parts(f, h) : Touches(d, s, n)
  BY FitsWithin DEF HitWithin
<1>2. Parts(f, h) \subseteq DOMAIN d
  BY FitsWithin DEF HitWithin
<1>3. Merging(d, weights, Removed(f, g), Hidden(f, g), NewOp(f, d, g))
  BY FitsMerges
<1>4. \A t \in DOMAIN d : ({d[t].out} \cup NamesRead(d[t])) \cap Hidden(f, g) # {} => t \in Removed(f, g)
  BY <1>3 DEF Merging
<1>5. s \in Removed(f, g)
  <2>1. CASE \E t \in Removed(f, g) : n = Stmt(t)
    BY <1>1, <2>1 DEF Touches, Stmt, Arg
  <2>2. CASE \E x \in Hidden(f, g) : n = Arg(<<x, 0>>)
    <3>1. PICK x \in Hidden(f, g) : n = Arg(<<x, 0>>)
      BY <2>2
    <3>2. x \in {d[s].out} \cup NamesRead(d[s])
      BY <1>1, <3>1 DEF Touches, Stmt, Arg
    <3> QED
      BY <1>1, <1>2, <1>4, <3>2
  <2> QED
    BY <2>1, <2>2 DEF InnerOf
<1>6. s \in Removed(f, h)
  BY <1>1, <1>5, PartRemoved
<1>7. Stmt(s) \in InnerOf(f, g) /\ Stmt(s) \in InnerOf(f, h)
  BY <1>5, <1>6 DEF InnerOf
<1> QED
  BY <1>7

\* The same of IdentityScale, which needs that no scale follows a scale.
LEMMA ScalesApart ==
  ASSUME NEW d, NEW weights, WellMade(d, weights), OneScale(d),
         NEW g, FitsIdentity(d, g), NEW h, FitsIdentity(d, h), DOMAIN h = RolesOf(9)
  PROVE  /\ d[At(g, "preop")].type # "scale"
         /\ Named(g, "x") # Named(h, "out")
         /\ Arg(<<Named(h, "x"), 0>>) # Arg(<<Named(g, "x"), 0>>) => InnerOf(9, g) \cap Hit(h) = {}
<1> DEFINE p == At(g, "preop")
           s == At(g, "scale")
           q == At(h, "preop")
           t == At(h, "scale")
<1>1. /\ p \in DOMAIN d /\ s \in DOMAIN d /\ d[p].out = Named(g, "x") /\ Follows(d, s, p) /\ d[s].type = "scale"
      /\ q \in DOMAIN d /\ t \in DOMAIN d /\ d[t].type = "scale" /\ d[t].out = Named(h, "out")
      /\ h["preop"] = Stmt(q) /\ h["scale"] = Stmt(t) /\ h["x"] = Arg(<<Named(h, "x"), 0>>)
      /\ h["out"] = Arg(<<Named(h, "out"), 0>>)
  BY DEF FitsIdentity, Ops, Vars, Feeds
<1> HIDE DEF p, s, q, t
<1>2. Reads(d, s, p)
  BY <1>1 DEF Follows
<1>3. d[p].type # "scale"
  BY <1>1, <1>2 DEF OneScale
<1>4. Named(g, "x") # Named(h, "out")
  BY <1>1, <1>3, WeightUnwritten
<1>5. InnerOf(9, g) = {Arg(<<Named(g, "x"), 0>>)}
  BY DEF InnerOf, Removed, Hidden
<1>6. Hit(h) = {h["preop"], h["x"], h["scale"], h["out"]}
  BY DEF Hit, RolesOf
<1>7. ASSUME Arg(<<Named(h, "x"), 0>>) # Arg(<<Named(g, "x"), 0>>)
      PROVE  InnerOf(9, g) \cap Hit(h) = {}
  BY <1>1, <1>4, <1>5, <1>6, <1>7 DEF Stmt, Arg
<1> QED
  BY <1>3, <1>4, <1>7 DEF p

\* The matches of a fuser share no node that one of them deletes.
Separate(f, ms) == \A k, l \in 1..Len(ms) : k # l => InnerOf(f, ms[k]) \cap Hit(ms[l]) = {}

LEMMA MatchesSeparate ==
  ASSUME NEW d, NEW weights, WellMade(d, weights), NEW f \in 1..10, f <= 9 => OneScale(d),
         NEW ms, Len(ms) \in Nat,
         \A k \in 1..Len(ms) :
           Fits(f, d, weights, ms[k]) /\ DOMAIN ms[k] = RolesOf(f) /\ InnerOf(f, ms[k]) \subseteq Hit(ms[k]),
         \A i, j \in 1..Len(ms) : i < j => InnerOf(f, ms[j]) \cap Hit(ms[i]) = {}
  PROVE  Separate(f, ms)
<1> SUFFICES ASSUME NEW k \in 1..Len(ms), NEW l \in 1..Len(ms), k # l
             PROVE  InnerOf(f, ms[k]) \cap Hit(ms[l]) = {}
  BY DEF Separate
<1>1. CASE l < k
  BY <1>1
<1>2. CASE k < l
  <2>1. InnerOf(f, ms[l]) \cap Hit(ms[k]) = {}
    BY <1>2
  <2>2. CASE f # 9
    BY <2>1, <2>2, HiddenApart
  <2>3. CASE f = 9
    <3>1. FitsIdentity(d, ms[k]) /\ FitsIdentity(d, ms[l])
      BY <2>3 DEF Fits
    <3>2. InnerOf(9, ms[k]) = {Arg(<<Named(ms[k], "x"), 0>>)} /\ InnerOf(9, ms[l]) = {Arg(<<Named(ms[l], "x"), 0>>)}
      BY DEF InnerOf, Removed, Hidden
    <3>3. Arg(<<Named(ms[l], "x"), 0>>) # Arg(<<Named(ms[k], "x"), 0>>)
      BY <2>1, <2>3, <3>2
    <3> QED
      BY <2>3, <3>1, <3>3, ScalesApart
  <2> QED
    BY <2>2, <2>3
<1> QED
  BY <1>1, <1>2

-----------------------------------------------------------------------------
(* The descriptions stay well made.                                        *)

\* The matches k = 1..n are merged into the statements b + k.
Merger(d, weights, b, n, rm, hid, new) ==
  /\ WellMade(d, weights) /\ b \in Nat /\ DOMAIN d \subseteq 1..b /\ n \in Nat
  /\ \A k \in 1..n : Merging(d, weights, rm[k], hid[k], new[k])
  /\ \A k, l \in 1..n : k # l => rm[k] \cap rm[l] = {}

\* The statement t of d is s, or was merged into s.
Place(d, b, rm, s, t) == t \in DOMAIN d /\ IF s \in DOMAIN d THEN t = s ELSE t \in rm[s - b]

\* A merged statement is an old one that no match removes, or that of a match.
LEMMA MergedCases ==
  ASSUME NEW d, NEW weights, NEW b, NEW n, NEW rm, NEW hid, NEW new,
         Merger(d, weights, b, n, rm, hid, new), NEW s \in DOMAIN Merged(d, b, n, rm, new)
  PROVE  /\ s \in Nat /\ s <= b + n
         /\ \/ /\ s \in DOMAIN d /\ Merged(d, b, n, rm, new)[s] = d[s]
               /\ \A k \in 1..n : s \notin rm[k]
            \/ /\ s \notin DOMAIN d /\ s - b \in 1..n
               /\ Merged(d, b, n, rm, new)[s] = new[s - b]
               /\ Merging(d, weights, rm[s - b], hid[s - b], new[s - b])
<1>0. s \in (DOMAIN d \ UNION {rm[k] : k \in 1..n}) \cup (b + 1)..(b + n)
  BY DEF Merged
<1>1. Merged(d, b, n, rm, new)[s] = IF s \in DOMAIN d THEN d[s] ELSE new[s - b]
  BY <1>0 DEF Merged
<1>2. b \in Nat /\ n \in Nat /\ DOMAIN d \subseteq 1..b
  BY DEF Merger
<1>3. CASE s \in DOMAIN d
  <2>1. s \in DOMAIN d \ UNION {rm[k] : k \in 1..n}
    BY <1>0, <1>2, <1>3
  <2> QED
    BY <1>1, <1>2, <1>3, <2>1
<1>4. CASE s \notin DOMAIN d
  <2>1. s \in (b + 1)..(b + n)
    BY <1>0, <1>4
  <2>2. s - b \in 1..n
    BY <1>2, <2>1
  <2> QED
    BY <1>1, <1>2, <1>4, <2>1, <2>2 DEF Merger
<1> QED
  BY <1>3, <1>4

LEMMA MergedPlaces ==
  ASSUME NEW d, NEW weights, NEW b, NEW n, NEW rm, NEW hid, NEW new,
         Merger(d, weights, b, n, rm, hid, new), NEW s \in DOMAIN Merged(d, b, n, rm, new)
  PROVE  LET op == Merged(d, b, n, rm, new)[s] IN
           \E t : /\ Place(d, b, rm, s, t) /\ op.out = d[t].out
                  /\ \A x \in NamesRead(op) :
                       x \in NamesRead(d[t])
                         \/ \E u : Place(d, b, rm, s, u) /\ x \in NamesRead(d[u]) /\ Reads(d, t, u)
<1>0. PICK op : op = Merged(d, b, n, rm, new)[s]
  OBVIOUS
<1>1. CASE s \in DOMAIN d /\ op = d[s]
  BY <1>0, <1>1 DEF Place
<1>2. CASE s \notin DOMAIN d /\ s - b \in 1..n /\ op = new[s - b]
           /\ Merging(d, weights, rm[s - b], hid[s - b], new[s - b])
  <2>1. PICK t \in rm[s - b] :
          /\ op.out = d[t].out
          /\ \A x \in NamesRead(op) :
               x \in NamesRead(d[t]) \/ \E u \in rm[s - b] : x \in NamesRead(d[u]) /\ Reads(d, t, u)
    BY <1>2 DEF Merging
  <2>2. rm[s - b] \subseteq DOMAIN d
    BY <1>2 DEF Merging
  <2>3. \A u \in rm[s - b] : Place(d, b, rm, s, u)
    BY <1>2, <2>2 DEF Place
  <2> QED
    BY <1>0, <2>1, <2>3
<1> QED
  BY <1>0, <1>1, <1>2, MergedCases

LEMMA PlaceOnce ==
  ASSUME NEW d, NEW weights, NEW b, NEW n, NEW rm, NEW hid, NEW new,
         Merger(d, weights, b, n, rm, hid, new),
         NEW s \in DOMAIN Merged(d, b, n, rm, new), NEW r \in DOMAIN Merged(d, b, n, rm, new),
         NEW t, Place(d, b, rm, s, t), Place(d, b, rm, r, t)
  PROVE  s = r
<1>1. CASE s \in DOMAIN d /\ r \in DOMAIN d
  BY <1>1 DEF Place
<1>2. CASE s \in DOMAIN d /\ r \notin DOMAIN d
  <2>1. \A k \in 1..n : s \notin rm[k]
    BY <1>2, MergedCases
  <2>2. r - b \in 1..n
    BY <1>2, MergedCases
  <2> QED
    BY <1>2, <2>1, <2>2 DEF Place
<1>3. CASE s \notin DOMAIN d /\ r \in DOMAIN d
  <2>1. \A k \in 1..n : r \notin rm[k]
    BY <1>3, MergedCases
  <2>2. s - b \in 1..n
    BY <1>3, MergedCases
  <2> QED
    BY <1>3, <2>1, <2>2 DEF Place
<1>4. CASE s \notin DOMAIN d /\ r \notin DOMAIN d
  <2>1. s - b \in 1..n /\ r - b \in 1..n /\ s \in Nat /\ r \in Nat
    BY <1>4, MergedCases
  <2>2. t \in rm[s - b] /\ t \in rm[r - b]
    BY <1>4 DEF Place
  <2>3. s - b = r - b
    BY <2>1, <2>2 DEF Merger
  <2>4. b \in Nat
    BY DEF Merger
  <2> QED
    BY <2>1, <2>3, <2>4
<1> QED
  BY <1>1, <1>2, <1>3, <1>4

LEMMA MergedWellMade ==
  ASSUME NEW d, NEW weights, NEW b, NEW n, NEW rm, NEW hid, NEW new,
         Merger(d, weights, b, n, rm, hid, new)
  PROVE  WellMade(Merged(d, b, n, rm, new), weights)
<1> DEFINE M == Merged(d, b, n, rm, new)
<1>0. WellMade(d, weights) /\ b \in Nat /\ n \in Nat
  BY DEF Merger
<1>1. \A s \in DOMAIN M :
        \E t : /\ Place(d, b, rm, s, t) /\ M[s].out = d[t].out
               /\ \A x \in NamesRead(M[s]) :
                    x \in NamesRead(d[t])
                      \/ \E u : Place(d, b, rm, s, u) /\ x \in NamesRead(d[u]) /\ Reads(d, t, u)
  BY MergedPlaces
<1>2. \A s, r \in DOMAIN M : \A t : Place(d, b, rm, s, t) /\ Place(d, b, rm, r, t) => s = r
  BY PlaceOnce
<1>3. \A s \in DOMAIN M :
        /\ s \in Nat /\ s <= b + n
        /\ \/ s \in DOMAIN d /\ M[s] = d[s]
           \/ /\ s \notin DOMAIN d /\ s - b \in 1..n /\ M[s] = new[s - b]
              /\ Merging(d, weights, rm[s - b], hid[s - b], new[s - b])
  BY MergedCases
<1>4. DOMAIN M \subseteq 1..(b + n) /\ b + n \in Nat
  <2>1. 0 \notin DOMAIN M
    <3>1. 0 \notin DOMAIN d
      BY DEF Merger
    <3>2. 0 - b \notin 1..n
      BY <1>0
    <3> QED
      BY <1>3, <3>1, <3>2
  <2> HIDE DEF M
  <2> QED
    BY <1>0, <1>3, <2>1
<1> HIDE DEF M
<1>5. \A s \in DOMAIN M : IsMade(M[s])
  BY <1>0, <1>3 DEF Merging, WellMade
<1>6. OneWriter(M, weights)
  <2>1. \A s \in DOMAIN M : \E t \in DOMAIN d : Place(d, b, rm, s, t) /\ M[s].out = d[t].out
    BY <1>1 DEF Place
  <2> SUFFICES ASSUME NEW s \in DOMAIN M
               PROVE  M[s].out \notin weights /\ \A r \in DOMAIN M : M[s].out = M[r].out => s = r
    BY DEF OneWriter
  <2>2. PICK t \in DOMAIN d : Place(d, b, rm, s, t) /\ M[s].out = d[t].out
    BY <2>1
  <2>3. M[s].out \notin weights
    BY <1>0, <2>2, WeightUnwritten
  <2>4. ASSUME NEW r \in DOMAIN M, M[s].out = M[r].out
        PROVE  s = r
    <3>1. PICK u \in DOMAIN d : Place(d, b, rm, r, u) /\ M[r].out = d[u].out
      BY <2>1
    <3>a. d[t].out = d[u].out
      BY <2>2, <2>4, <3>1
    <3>2. t = u
      BY <1>0, <3>a, WeightUnwritten
    <3> QED
      BY <1>2, <2>2, <3>1, <3>2
  <2> QED
    BY <2>3, <2>4
<1>7. \A s \in DOMAIN M : \A x \in NamesRead(M[s]) : \E u \in DOMAIN d : Place(d, b, rm, s, u) /\ x \in NamesRead(d[u])
  BY <1>1 DEF Place
<1>8. OwnWeights(M, weights)
  <2>1. ASSUME NEW s \in DOMAIN M, M[s].type \in DOMAIN WeightSlots,
               NEW slot \in WeightSlots[M[s].type] \cap DOMAIN M[s].in
        PROVE  M[s].in[slot] \in weights
    <3>1. CASE s \in DOMAIN d /\ M[s] = d[s]
      BY <1>0, <2>1, <3>1 DEF WellMade, OwnWeights
    <3>2. CASE /\ s \notin DOMAIN d /\ s - b \in 1..n /\ M[s] = new[s - b]
               /\ Merging(d, weights, rm[s - b], hid[s - b], new[s - b])
      BY <2>1, <3>2 DEF Merging
    <3> QED
      BY <1>3, <3>1, <3>2
  <2>2. ASSUME NEW s \in DOMAIN M, NEW r \in DOMAIN M, NEW j \in DOMAIN M[s].in, NEW k \in DOMAIN M[r].in,
               M[s].in[j] = M[r].in[k], M[s].in[j] \in weights
        PROVE  s = r /\ j = k
    <3>1. M[s].in[j] \in NamesRead(M[s]) /\ M[r].in[k] \in NamesRead(M[r])
      BY SlotRead
    <3>2. PICK t \in DOMAIN d : Place(d, b, rm, s, t) /\ M[s].in[j] \in NamesRead(d[t])
      BY <1>7, <3>1
    <3>3. PICK u \in DOMAIN d : Place(d, b, rm, r, u) /\ M[r].in[k] \in NamesRead(d[u])
      BY <1>7, <3>1
    <3>4. PICK i \in DOMAIN d[t].in : d[t].in[i] = M[s].in[j]
      BY <3>2, ReadSlots
    <3>5. PICK h \in DOMAIN d[u].in : d[u].in[h] = M[r].in[k]
      BY <3>3, ReadSlots
    <3>6. t = u
      BY <1>0, <2>2, <3>4, <3>5, WeightRead
    <3>7. s = r
      BY <1>2, <3>2, <3>3, <3>6
    <3>8. CASE s \in DOMAIN d /\ M[s] = d[s]
      BY <1>0, <2>2, <3>7, <3>8, WeightRead
    <3>9. CASE M[s] = new[s - b] /\ Merging(d, weights, rm[s - b], hid[s - b], new[s - b])
      BY <2>2, <3>7, <3>9 DEF Merging
    <3> QED
      BY <1>3, <3>7, <3>8, <3>9
  <2> QED
    BY <2>1, <2>2 DEF OwnWeights
<1>9. Ranked(M)
  <2>1. PICK rank : \A s \in DOMAIN d :
                      rank[d[s].out] \in Nat /\ \A x \in NamesRead(d[s]) : rank[x] \in Nat /\ rank[x] < rank[d[s].out]
    BY <1>0 DEF WellMade, Ranked
  <2> SUFFICES ASSUME NEW s \in DOMAIN M
               PROVE  rank[M[s].out] \in Nat /\ \A x \in NamesRead(M[s]) : rank[x] \in Nat /\ rank[x] < rank[M[s].out]
    BY DEF Ranked
  <2>2. PICK t \in DOMAIN d :
          /\ M[s].out = d[t].out
          /\ \A x \in NamesRead(M[s]) :
               x \in NamesRead(d[t]) \/ \E u \in DOMAIN d : x \in NamesRead(d[u]) /\ Reads(d, t, u)
    BY <1>1 DEF Place
  <2>3. ASSUME NEW x \in NamesRead(M[s])
        PROVE  rank[x] \in Nat /\ rank[x] < rank[M[s].out]
    <3>1. CASE x \in NamesRead(d[t])
      BY <2>1, <2>2, <3>1
    <3>2. CASE \E u \in DOMAIN d : x \in NamesRead(d[u]) /\ Reads(d, t, u)
      <4>1. PICK u \in DOMAIN d : x \in NamesRead(d[u]) /\ d[u].out \in NamesRead(d[t])
        BY <3>2 DEF Reads
      <4>2. /\ rank[x] \in Nat /\ rank[x] < rank[d[u].out] /\ rank[d[u].out] \in Nat
            /\ rank[d[u].out] < rank[d[t].out] /\ rank[d[t].out] \in Nat
        BY <2>1, <4>1
      <4> QED
        BY <2>2, <4>2
    <3> QED
      BY <2>2, <2>3, <3>1, <3>2
  <2> QED
    BY <2>1, <2>2, <2>3
<1> QED
  BY <1>4, <1>5, <1>6, <1>8, <1>9 DEF WellMade, M

LEMMA MergedOneScale ==
  ASSUME NEW d, NEW weights, NEW b, NEW n, NEW rm, NEW hid, NEW new,
         Merger(d, weights, b, n, rm, hid, new), OneScale(d)
  PROVE  OneScale(Merged(d, b, n, rm, new))
<1> DEFINE M == Merged(d, b, n, rm, new)
<1>1. \A s \in DOMAIN M : M[s].type = "scale" => s \in DOMAIN d /\ M[s] = d[s]
  BY MergedCases DEF Merging
<1> HIDE DEF M
<1>2. OneScale(M)
  BY <1>1 DEF OneScale, Reads
<1> QED
  BY <1>2 DEF M

\* The matches of IdentityScale, no scale of which follows another.
Dropper(d, weights, n, m) ==
  /\ WellMade(d, weights) /\ OneScale(d) /\ n \in Nat
  /\ \A k \in 1..n : FitsIdentity(d, m[k])
  /\ \A k, l \in 1..n : k # l => Named(m[k], "x") # Named(m[l], "x")

LEMMA DropperFacts ==
  ASSUME NEW d, NEW weights, NEW n, NEW m, Dropper(d, weights, n, m), NEW k \in 1..n
  PROVE  LET p == At(m[k], "preop") s == At(m[k], "scale") IN
           /\ p \in DOMAIN d /\ s \in DOMAIN d /\ p # s
           /\ d[p].out = Named(m[k], "x") /\ d[s].in["X"] = Named(m[k], "x") /\ DOMAIN d[s].in = {"X"}
           /\ d[s].out = Named(m[k], "out") /\ d[s].type = "scale" /\ d[p].type # "scale"
           /\ Follows(d, s, p) /\ Reads(d, s, p)
           /\ \A l \in 1..n : /\ p # At(m[l], "scale") /\ Named(m[k], "x") # Named(m[l], "out")
                              /\ p = At(m[l], "preop") \/ s = At(m[l], "scale") => k = l
<1> DEFINE p == At(m[k], "preop")
           s == At(m[k], "scale")
<1>0. WellMade(d, weights) /\ OneScale(d) /\ \A l \in 1..n : FitsIdentity(d, m[l])
  BY DEF Dropper
<1>1. \A l \in 1..n :
        /\ At(m[l], "preop") \in DOMAIN d /\ At(m[l], "scale") \in DOMAIN d
        /\ d[At(m[l], "preop")].out = Named(m[l], "x")
        /\ d[At(m[l], "scale")].in["X"] = Named(m[l], "x") /\ d[At(m[l], "scale")].out = Named(m[l], "out")
        /\ d[At(m[l], "scale")].type = "scale" /\ Follows(d, At(m[l], "scale"), At(m[l], "preop"))
        /\ At(m[l], "preop") # At(m[l], "scale")
  BY <1>0 DEF FitsIdentity, Ops, Feeds
<1>2. Reads(d, s, p)
  BY <1>1 DEF Follows
<1>3. d[p].type # "scale"
  BY <1>0, <1>1, <1>2 DEF OneScale
<1>4. DOMAIN d[s].in = {"X"}
  BY <1>0, <1>1, SlotFacts DEF WellMade
<1>5. ASSUME NEW l \in 1..n
      PROVE  /\ p # At(m[l], "scale") /\ Named(m[k], "x") # Named(m[l], "out")
             /\ p = At(m[l], "preop") \/ s = At(m[l], "scale") => k = l
  <2>1. p # At(m[l], "scale")
    BY <1>1, <1>3
  <2>2. Named(m[k], "x") # Named(m[l], "out")
    BY <1>0, <1>1, <2>1, WeightUnwritten
  <2>3. p = At(m[l], "preop") \/ s = At(m[l], "scale") => Named(m[k], "x") = Named(m[l], "x")
    BY <1>1
  <2> QED
    BY <2>1, <2>2, <2>3 DEF Dropper
<1> QED
  BY <1>1, <1>2, <1>3, <1>4, <1>5

\* A statement that is left is an old one, or writes what its scale wrote.
LEMMA DroppedCases ==
  ASSUME NEW d, NEW weights, NEW n, NEW m, Dropper(d, weights, n, m), NEW s \in DOMAIN Dropped(d, n, m)
  PROVE  LET op == Dropped(d, n, m)[s] IN
           /\ s \in DOMAIN d /\ \A k \in 1..n : s # At(m[k], "scale")
           /\ op.in = d[s].in /\ op.type = d[s].type /\ op.act = d[s].act /\ DOMAIN op = {"type", "in", "out", "act"}
           /\ \/ op = d[s] /\ \A k \in 1..n : s # At(m[k], "preop")
              \/ \E k \in 1..n : s = At(m[k], "preop") /\ op.out = Named(m[k], "out")
<1> DEFINE op == Dropped(d, n, m)[s]
           isPre == \E k \in 1..n : s = At(m[k], "preop")
<1>1. s \in DOMAIN d /\ \A k \in 1..n : s # At(m[k], "scale")
  BY DEF Dropped
<1>2. op = IF isPre THEN [d[s] EXCEPT !.out = Named(m[CHOOSE k \in 1..n : s = At(m[k], "preop")], "out")]
           ELSE d[s]
  BY DEF Dropped
<1>3. DOMAIN d[s] = {"type", "in", "out", "act"}
  BY <1>1 DEF Dropper, WellMade, IsMade
<1>4. CASE ~isPre
  BY <1>1, <1>2, <1>3, <1>4
<1>5. CASE isPre
  <2>1. PICK k : k = CHOOSE i \in 1..n : s = At(m[i], "preop")
    OBVIOUS
  <2>2. k \in 1..n /\ s = At(m[k], "preop")
    BY <1>5, <2>1
  <2>3. PICK o : o = d[s]
    OBVIOUS
  <2>4. PICK q : q = op
    OBVIOUS
  <2>5. q = [o EXCEPT !.out = Named(m[k], "out")]
    BY <1>2, <1>5, <2>1, <2>3, <2>4
  <2>6. q.in = o.in /\ q.type = o.type /\ q.act = o.act /\ DOMAIN q = {"type", "in", "out", "act"} /\ q.out = Named(m[k], "out")
    BY <1>3, <2>3, <2>5
  <2> QED
    BY <1>1, <2>2, <2>3, <2>4, <2>6
<1> QED
  BY <1>4, <1>5

LEMMA DroppedWellMade ==
  ASSUME NEW d, NEW weights, NEW n, NEW m, Dropper(d, weights, n, m)
  PROVE  WellMade(Dropped(d, n, m), weights)
<1> DEFINE M == Dropped(d, n, m)
<1>0. WellMade(d, weights)
  BY DEF Dropper
<1>1. \A s \in DOMAIN M :
        /\ s \in DOMAIN d /\ \A k \in 1..n : s # At(m[k], "scale")
        /\ M[s].in = d[s].in /\ M[s].type = d[s].type /\ DOMAIN M[s] = {"type", "in", "out", "act"}
        /\ \/ M[s] = d[s]
           \/ \E k \in 1..n : s = At(m[k], "preop") /\ M[s].out = Named(m[k], "out")
  BY DroppedCases
<1>2. \A s \in DOMAIN M : NamesRead(M[s]) = NamesRead(d[s])
  BY <1>1 DEF NamesRead
<1> HIDE DEF M
<1>3. \E b \in Nat : DOMAIN M \subseteq 1..b
  BY <1>0, <1>1 DEF WellMade
<1>4. \A s \in DOMAIN M : IsMade(M[s])
  BY <1>0, <1>1 DEF WellMade, IsMade
<1>5. OwnWeights(M, weights)
  BY <1>0, <1>1 DEF WellMade, OwnWeights
\* The statement of d that wrote what s writes: s, or its scale.
<1>6. \A s \in DOMAIN M : \E t \in DOMAIN d :
        /\ M[s].out = d[t].out
        /\ \/ t = s
           \/ \E k \in 1..n : s = At(m[k], "preop") /\ t = At(m[k], "scale")
  BY <1>1, DropperFacts
<1>7. OneWriter(M, weights)
  <2> SUFFICES ASSUME NEW s \in DOMAIN M
               PROVE  M[s].out \notin weights /\ \A r \in DOMAIN M : M[s].out = M[r].out => s = r
    BY DEF OneWriter
  <2>1. PICK t \in DOMAIN d :
          /\ M[s].out = d[t].out
          /\ t = s \/ \E k \in 1..n : s = At(m[k], "preop") /\ t = At(m[k], "scale")
    BY <1>6
  <2>2. ASSUME NEW r \in DOMAIN M, M[s].out = M[r].out
        PROVE  s = r
    <3>1. PICK u \in DOMAIN d :
            /\ M[r].out = d[u].out
            /\ u = r \/ \E k \in 1..n : r = At(m[k], "preop") /\ u = At(m[k], "scale")
      BY <1>6
    <3>a. d[t].out = d[u].out
      BY <2>1, <2>2, <3>1
    <3>2. t = u
      BY <1>0, <3>a, WeightUnwritten
    <3>3. CASE t = s \/ u = r
      BY <1>1, <2>1, <3>1, <3>2, <3>3
    <3>4. CASE t # s /\ u # r
      <4>1. PICK k \in 1..n : s = At(m[k], "preop") /\ t = At(m[k], "scale")
        BY <2>1, <3>4
      <4>2. PICK l \in 1..n : r = At(m[l], "preop") /\ u = At(m[l], "scale")
        BY <3>1, <3>4
      <4>a. \A i \in 1..n : At(m[k], "scale") = At(m[i], "scale") => k = i
        BY DropperFacts
      <4>3. k = l
        BY <3>2, <4>1, <4>2, <4>a
      <4> QED
        BY <4>1, <4>2, <4>3
    <3> QED
      BY <3>3, <3>4
  <2> QED
    BY <1>0, <2>1, <2>2, WeightUnwritten
<1>8. Ranked(M)
  <2>1. PICK rank : \A s \in DOMAIN d :
                      rank[d[s].out] \in Nat /\ \A x \in NamesRead(d[s]) : rank[x] \in Nat /\ rank[x] < rank[d[s].out]
    BY <1>0 DEF WellMade, Ranked
  <2> SUFFICES ASSUME NEW s \in DOMAIN M
               PROVE  rank[M[s].out] \in Nat /\ \A x \in NamesRead(M[s]) : rank[x] \in Nat /\ rank[x] < rank[M[s].out]
    BY DEF Ranked
  <2>2. CASE M[s] = d[s]
    BY <1>1, <2>1, <2>2
  <2>3. CASE \E k \in 1..n : s = At(m[k], "preop") /\ M[s].out = Named(m[k], "out")
    <3>1. PICK k \in 1..n : s = At(m[k], "preop") /\ M[s].out = Named(m[k], "out")
      BY <2>3
    <3>2. PICK t \in DOMAIN d : d[t].out = Named(m[k], "out") /\ Reads(d, t, s)
      BY <3>1, DropperFacts
    <3>3. d[s].out \in NamesRead(d[t])
      BY <3>2 DEF Reads
    <3>4. rank[d[s].out] \in Nat /\ rank[d[t].out] \in Nat /\ rank[d[s].out] < rank[d[t].out]
      BY <2>1, <3>2, <3>3
    <3>5. \A x \in NamesRead(d[s]) : rank[x] \in Nat /\ rank[x] < rank[d[s].out]
      BY <1>1, <2>1
    <3> QED
      BY <1>2, <3>1, <3>2, <3>4, <3>5
  <2> QED
    BY <1>1, <2>2, <2>3
<1> QED
  BY <1>3, <1>4, <1>5, <1>7, <1>8 DEF WellMade, M

-----------------------------------------------------------------------------
(* The graph while it is built, between two fusers, and in one.            *)

AllMatchable == \A p \in Programs : Matchable(p)

\* Every version is zero: no name was written before.
Building ==
  /\ built \in 0..Len(program.ops) /\ fuser = 0 /\ matched = <<>> /\ handled = 0
  /\ DOMAIN inlinks = 1..built /\ DOMAIN outlinks = 1..built
  /\ \A s \in 1..built :
       inlinks[s] = Nodes(NamesRead(program.desc[s])) /\ outlinks[s] = Nodes({program.desc[s].out})
  /\ \A x \in DOMAIN latest :
       latest[x] = 0 /\ \E s \in 1..built : x \in {program.desc[s].out} \cup NamesRead(program.desc[s])

Ready ==
  /\ fuser \in 1..11 /\ (stage = "match" => fuser <= 10) /\ matched = <<>> /\ handled = 0
  /\ GraphOf(desc, inlinks, outlinks) /\ WellMade(desc, program.weights)
  /\ fuser <= 9 => OneScale(desc)

\* The matches were found in d, of which b is the last statement.
Matching(d, b) ==
  /\ fuser \in 1..10 /\ Len(matched) \in Nat /\ DOMAIN matched = 1..Len(matched) /\ handled \in 0..Len(matched)
  /\ WellMade(d, program.weights) /\ (fuser <= 9 => OneScale(d))
  /\ b \in Nat /\ DOMAIN d \subseteq 1..b /\ (Len(matched) > 0 => b \in DOMAIN d)
  /\ \A k \in 1..Len(matched) :
       /\ Fits(fuser, d, program.weights, matched[k]) /\ DOMAIN matched[k] = RolesOf(fuser)
       /\ InnerNodes(matched[k]) = InnerOf(fuser, matched[k])
  /\ Separate(fuser, matched)

\* The operators of the matches handled so far follow the statements of d.
Inserted(d, b) ==
  /\ DOMAIN desc = DOMAIN d \cup (b + 1)..(b + handled)
  /\ \A s \in DOMAIN d : desc[s] = d[s]
  /\ \A k \in 1..handled : desc[b + k] = NewOp(fuser, d, matched[k])
  /\ GraphOf(desc, inlinks, outlinks)

\* The scales handled so far are gone; what one read is still linked to its writer.
Eliminated(d) ==
  /\ DOMAIN desc = DOMAIN Dropped(d, handled, matched)
  /\ \A s \in DOMAIN desc : desc[s] = Dropped(d, handled, matched)[s]
  /\ DOMAIN inlinks = DOMAIN desc /\ DOMAIN outlinks = DOMAIN desc
  /\ \A s \in DOMAIN desc : inlinks[s] = Nodes(NamesRead(d[s])) /\ outlinks[s] = Nodes({d[s].out, desc[s].out})

Inserting(d, b) ==
  /\ Matching(d, b)
  /\ fuser # 9 => Inserted(d, b)
  /\ fuser = 9 => Eliminated(d)

FuseInv ==
  /\ program \in Programs /\ stage \in {"build", "match", "insert", "fused"}
  /\ stage = "build" => Building
  /\ Settled => Ready
  /\ stage = "insert" => \E d, b : Inserting(d, b)

-----------------------------------------------------------------------------
(* The graph of a program.                                                 *)

LEMMA ProgramDesc ==
  ASSUME NEW p \in Programs
  PROVE  /\ Len(p.ops) \in Nat /\ DOMAIN p.desc = 1..Len(p.ops)
         /\ \A s \in 1..Len(p.ops) :
              /\ IsUnfused(p.desc[s]) /\ p.ops[s].in = NamesRead(p.desc[s]) /\ p.ops[s].out = {p.desc[s].out}
<1>1. p.ops \in Seq(Operator)
  BY ProgramsAssumption
<1> QED
  BY <1>1, DescAssumption

\* A program that writes every name once is well made.
LEMMA ProgramWellMade ==
  ASSUME NEW p \in Programs, Matchable(p)
  PROVE  WellMade(p.desc, p.weights) /\ OneScale(p.desc)
<1> DEFINE d == p.desc
           n == Len(p.ops)
<1>1. n \in Nat /\ DOMAIN d = 1..n /\ \A s \in DOMAIN d : IsUnfused(d[s])
  BY ProgramDesc
<1>2. WritesOnce(p) /\ OwnWeights(d, p.weights) /\ OneScale(d)
  BY DEF Matchable
<1>3. \A s \in DOMAIN d :
        /\ d[s].out \notin p.weights
        /\ \A t \in 1..s : d[s].out \notin NamesRead(d[t])
        /\ \A t \in 1..(s - 1) : d[s].out # d[t].out
  BY <1>2 DEF WritesOnce
<1> HIDE DEF d, n
<1>4. \A s \in DOMAIN d : IsMade(d[s])
  BY <1>1 DEF IsUnfused, IsMade
<1>5. \A s, t \in DOMAIN d : d[s].out = d[t].out => s = t
  <2> SUFFICES ASSUME NEW s \in DOMAIN d, NEW t \in DOMAIN d, d[s].out = d[t].out, s # t PROVE FALSE
    OBVIOUS
  <2>1. s \in 1..(t - 1) \/ t \in 1..(s - 1)
    BY <1>1
  <2> QED
    BY <1>3, <2>1
<1>6. OneWriter(d, p.weights)
  BY <1>3, <1>5 DEF OneWriter
<1>7. Ranked(d)
  <2> DEFINE names == UNION {{d[s].out} \cup NamesRead(d[s]) : s \in DOMAIN d}
             place(x) == CHOOSE s \in DOMAIN d : d[s].out = x
             rank == [x \in names |-> IF \E s \in DOMAIN d : d[s].out = x THEN place(x) ELSE 0]
  <2>1. \A s \in DOMAIN d : rank[d[s].out] = s
    <3> SUFFICES ASSUME NEW s \in DOMAIN d PROVE rank[d[s].out] = s
      OBVIOUS
    <3>1. d[s].out \in names
      OBVIOUS
    <3>2. place(d[s].out) \in DOMAIN d /\ d[place(d[s].out)].out = d[s].out
      OBVIOUS
    <3>3. place(d[s].out) = s
      BY <1>5, <3>2
    <3> HIDE DEF place, names
    <3> QED
      BY <3>1, <3>3
  <2>2. \A s \in DOMAIN d : \A x \in NamesRead(d[s]) : rank[x] \in Nat /\ rank[x] < s
    <3> SUFFICES ASSUME NEW s \in DOMAIN d, NEW x \in NamesRead(d[s]) PROVE rank[x] \in Nat /\ rank[x] < s
      OBVIOUS
    <3>1. x \in names
      OBVIOUS
    <3>2. CASE \E t \in DOMAIN d : d[t].out = x
      <4>1. PICK t \in DOMAIN d : d[t].out = x
        BY <3>2
      <4>2. rank[x] = t
        BY <2>1, <4>1
      <4>3. s \notin 1..t
        BY <1>3, <4>1
      <4>4. t \in Nat /\ t < s
        BY <1>1, <4>3
      <4> HIDE DEF rank
      <4> QED
        BY <4>2, <4>4
    <3>3. CASE ~ \E t \in DOMAIN d : d[t].out = x
      <4>1. rank[x] = 0
        BY <3>1, <3>3
      <4> QED
        BY <1>1, <4>1
    <3> QED
      BY <3>2, <3>3
  <2> HIDE DEF rank
  <2>3. \A s \in DOMAIN d :
          rank[d[s].out] \in Nat /\ \A x \in NamesRead(d[s]) : rank[x] \in Nat /\ rank[x] < rank[d[s].out]
    BY <1>1, <2>1, <2>2
  <2> QED
    BY <2>3 DEF Ranked
<1> QED
  BY <1>1, <1>2, <1>4, <1>6, <1>7 DEF WellMade, d

LEMMA BuildStep ==
  ASSUME program \in Programs, Matchable(program), Building, BuildOp, UNCHANGED fuseVars
  PROVE  Building' /\ program' = program
<1> DEFINE s == built + 1
           d == program.desc
<1>1. /\ built < Len(program.ops) /\ built' = s /\ program' = program
      /\ latest' = AfterWrites(program.ops[s])
      /\ inlinks' = Assign(inlinks, s, {<<x, AfterReads(program.ops[s])[x]>> : x \in program.ops[s].in})
      /\ outlinks' = Assign(outlinks, s, {<<x, AfterWrites(program.ops[s])[x]>> : x \in program.ops[s].out})
  BY DEF BuildOp
<1>2. /\ Len(program.ops) \in Nat /\ DOMAIN d = 1..Len(program.ops)
      /\ \A t \in 1..Len(program.ops) : program.ops[t].in = NamesRead(d[t]) /\ program.ops[t].out = {d[t].out}
  BY ProgramDesc
<1>3. built \in 0..Len(program.ops) /\ s \in 1..Len(program.ops)
  BY <1>1, <1>2 DEF Building
<1>4. /\ \A t \in 1..s : d[s].out \notin NamesRead(d[t])
      /\ \A t \in 1..(s - 1) : d[s].out # d[t].out
  BY <1>2, <1>3 DEF Matchable, WritesOnce
<1>5. \A x \in DOMAIN latest : latest[x] = 0 /\ \E t \in 1..built : x \in {d[t].out} \cup NamesRead(d[t])
  BY DEF Building
<1>6. d[s].out \notin DOMAIN latest /\ d[s].out \notin NamesRead(d[s])
  BY <1>3, <1>4, <1>5
<1>7. PICK op : op = program.ops[s]
  OBVIOUS
<1>8. op.in = NamesRead(d[s]) /\ op.out = {d[s].out}
  BY <1>2, <1>3, <1>7
<1>9. /\ DOMAIN AfterReads(op) = DOMAIN latest \cup NamesRead(d[s])
      /\ \A x \in DOMAIN AfterReads(op) : AfterReads(op)[x] = 0
  BY <1>5, <1>8 DEF AfterReads, Lookup
<1>10. /\ DOMAIN AfterWrites(op) = DOMAIN latest \cup NamesRead(d[s]) \cup {d[s].out}
       /\ \A x \in DOMAIN AfterWrites(op) : AfterWrites(op)[x] = 0
  BY <1>6, <1>8, <1>9 DEF AfterWrites, Lookup
<1>11. {<<x, AfterReads(op)[x]>> : x \in op.in} = Nodes(NamesRead(d[s]))
  BY <1>8, <1>9 DEF Nodes
<1>12. {<<x, AfterWrites(op)[x]>> : x \in op.out} = Nodes({d[s].out})
  BY <1>8, <1>10 DEF Nodes
<1>13. inlinks' = Assign(inlinks, s, Nodes(NamesRead(d[s]))) /\ outlinks' = Assign(outlinks, s, Nodes({d[s].out}))
  BY <1>1, <1>7, <1>11, <1>12
<1>14. DOMAIN inlinks = 1..built /\ DOMAIN outlinks = 1..built
  BY DEF Building
<1>15. 1..s = 1..built \cup {s}
  BY <1>3
<1>16. DOMAIN inlinks' = 1..s /\ DOMAIN outlinks' = 1..s
  BY <1>13, <1>14, <1>15 DEF Assign
<1>17. \A t \in 1..s : inlinks'[t] = Nodes(NamesRead(d[t])) /\ outlinks'[t] = Nodes({d[t].out})
  <2>1. \A t \in 1..built : inlinks[t] = Nodes(NamesRead(d[t])) /\ outlinks[t] = Nodes({d[t].out})
    BY DEF Building
  <2> QED
    BY <1>13, <1>14, <1>15, <2>1 DEF Assign
<1>18. \A x \in DOMAIN latest' : latest'[x] = 0 /\ \E t \in 1..s : x \in {d[t].out} \cup NamesRead(d[t])
  <2>1. latest' = AfterWrites(op)
    BY <1>1, <1>7
  <2>2. s \in 1..s
    BY <1>3
  <2> QED
    BY <1>5, <1>10, <1>15, <2>1, <2>2
<1>19. fuser' = fuser /\ matched' = matched /\ handled' = handled /\ fuser = 0 /\ matched = <<>> /\ handled = 0
  BY DEF fuseVars, Building
<1>20. built' \in 0..Len(program'.ops) /\ fuser' = 0 /\ matched' = <<>> /\ handled' = 0
  BY <1>1, <1>2, <1>3, <1>19
<1>21. DOMAIN inlinks' = 1..built' /\ DOMAIN outlinks' = 1..built'
  BY <1>1, <1>16
<1>22. \A t \in 1..built' :
         inlinks'[t] = Nodes(NamesRead(program'.desc[t])) /\ outlinks'[t] = Nodes({program'.desc[t].out})
  BY <1>1, <1>17
<1>23. \A x \in DOMAIN latest' :
         latest'[x] = 0 /\ \E t \in 1..built' : x \in {program'.desc[t].out} \cup NamesRead(program'.desc[t])
  BY <1>1, <1>18
<1> HIDE DEF s, d
<1> QED
  BY <1>1, <1>20, <1>21, <1>22, <1>23 DEF Building

LEMMA BeginStep ==
  ASSUME program \in Programs, Matchable(program), Building, BeginFusing
  PROVE  Ready' /\ program' = program /\ stage' = "match"
<1>1. /\ GraphBuilt /\ desc' = program.desc /\ stage' = "match" /\ fuser' = 1
      /\ UNCHANGED <<graphVars, matched, handled, folded, shifted>>
  BY DEF BeginFusing
<1>2. program' = program /\ inlinks' = inlinks /\ outlinks' = outlinks /\ matched' = <<>> /\ handled' = 0
  BY <1>1 DEF graphVars, Building
<1>3. WellMade(program.desc, program.weights) /\ OneScale(program.desc)
  BY ProgramWellMade
<1>4. GraphOf(program.desc, inlinks, outlinks)
  <2>1. DOMAIN program.desc = 1..Len(program.ops)
    BY ProgramDesc
  <2> QED
    BY <1>1, <2>1 DEF Building, GraphBuilt, GraphOf
<1>5. GraphOf(desc', inlinks', outlinks') /\ WellMade(desc', program'.weights) /\ OneScale(desc')
  BY <1>1, <1>2, <1>3, <1>4
<1> QED
  BY <1>1, <1>2, <1>5 DEF Ready

-----------------------------------------------------------------------------
(* The steps of a fuser.                                                   *)

\* A set of numbers up to a bound has a greatest one, when it is not empty.
LEMMA LastOf ==
  ASSUME NEW S, NEW n \in Nat, S \subseteq 1..n
  PROVE  \E b \in Nat : S \subseteq 1..b /\ (S # {} => b \in S)
<1>1. CASE S = {}
  <2>1. 0 \in Nat /\ S \subseteq 1..0
    BY <1>1
  <2> QED
    BY <1>1, <2>1
<1>2. CASE S # {}
  <2> DEFINE T == {n - x : x \in S}
  <2>1. T \subseteq Nat /\ T # {}
    <3>1. \A x \in S : n - x \in Nat
      OBVIOUS
    <3>2. PICK x : x \in S
      BY <1>2
    <3>3. n - x \in T
      BY <3>2
    <3> QED
      BY <3>1, <3>3
  <2>2. PICK k \in T : \A l \in T : k <= l
    <3> HIDE DEF T
    <3> QED
      BY <2>1, LeastOf
  <2>3. PICK b \in S : k = n - b
    BY <2>2
  <2>4. \A x \in S : x \in 1..n /\ n - b <= n - x
    BY <2>2, <2>3
  <2>5. b \in 1..n
    OBVIOUS
  <2>6. S \subseteq 1..b
    BY <2>4, <2>5
  <2> QED
    BY <2>5, <2>6
<1> QED
  BY <1>1, <1>2

LEMMA MatchStep ==
  ASSUME Ready, stage = "match", PerformPatternMatcher
  PROVE  stage' = "insert" /\ program' = program /\ \E d, b : d = desc /\ Inserting(d, b)'
<1>1. /\ handled' = 0 /\ stage' = "insert"
      /\ UNCHANGED <<program, inlinks, outlinks, fuser, desc>>
  BY DEF PerformPatternMatcher, graphVars
<1>2. PICK found \in SetToSeqs(DetectPatterns) : matched' = ValidateByNodeRole(RemoveOverlappedMatch(found))
  BY DEF PerformPatternMatcher
<1>3. PICK ms : ms = matched'
  OBVIOUS
<1>4. PICK d : d = desc
  OBVIOUS
<1>5. PICK weights : weights = program.weights
  OBVIOUS
<1>6. PICK f : f = fuser
  OBVIOUS
<1>7. /\ fuser \in 1..10 /\ GraphOf(desc, inlinks, outlinks) /\ WellMade(desc, program.weights)
      /\ fuser <= 9 => OneScale(desc)
  BY DEF Ready
<1>8. PICK n \in Nat : DOMAIN desc \subseteq 1..n
  BY <1>7 DEF WellMade
<1>9. IsFiniteSet(DetectPatterns)
  <2>1. IsFiniteSet(DOMAIN desc)
    <3>1. IsFiniteSet(1..n)
      BY <1>8, FS_Interval
    <3> QED
      BY <1>8, <3>1, FS_Subset
  <2>2. \A s \in DOMAIN desc : IsFiniteSet(DOMAIN desc[s].in)
    BY <1>7 DEF WellMade, IsMade
  <2>3. IsFiniteSet(GraphLinks)
    BY <1>7, <2>1, <2>2, LinksFinite
  <2>4. Len(Pattern.edges) \in Nat
    BY <1>7, PatternLength
  <2>5. PICK h : GroupsTo(h, Pattern.edges, Len(Pattern.edges)) /\ DetectPatterns = h[Len(Pattern.edges)]
    BY <2>4, DetectSteps
  <2> QED
    BY <2>3, <2>4, <2>5, GroupsFinite
<1>10. /\ ms \in Seq(DetectPatterns) /\ Apart(ms)
       /\ \A k \in 1..Len(ms) : StaysInside(ms[k])
  BY <1>2, <1>3, <1>9, MatchedFacts
<1>11. Len(ms) \in Nat /\ DOMAIN ms = 1..Len(ms) /\ \A k \in 1..Len(ms) : ms[k] \in DetectPatterns
  BY <1>10
<1>12. ASSUME NEW k \in 1..Len(ms)
       PROVE  /\ Fits(f, d, weights, ms[k]) /\ DOMAIN ms[k] = RolesOf(f)
              /\ InnerNodes(ms[k]) = InnerOf(f, ms[k]) /\ InnerOf(f, ms[k]) \subseteq Hit(ms[k])
  <2>1. PICK g : g = ms[k]
    OBVIOUS
  <2>2. g \in DetectPatterns /\ StaysInside(g)
    BY <1>10, <1>11, <2>1
  <2>3. Fits(fuser, desc, program.weights, g) /\ InnerNodes(g) = InnerOf(fuser, g) /\ DOMAIN g = Roles
    BY <1>7, <2>2, MatchFits
  <2>4. Roles = RolesOf(fuser)
    BY <1>7, RolesKnown
  <2>5. InnerNodes(g) \subseteq Hit(g)
    BY <2>3 DEF InnerNodes, InnerRoles, Hit
  <2> QED
    BY <1>4, <1>5, <1>6, <2>1, <2>3, <2>4, <2>5
<1>13. \A i, j \in 1..Len(ms) : i < j => InnerOf(f, ms[j]) \cap Hit(ms[i]) = {}
  BY <1>10, <1>12 DEF Apart
<1>14. Separate(f, ms)
  <2>1. WellMade(d, weights) /\ f \in 1..10 /\ (f <= 9 => OneScale(d))
    BY <1>4, <1>5, <1>6, <1>7
  <2>2. PICK set : set = ms
    OBVIOUS
  <2>3. \A k \in 1..Len(set) :
          Fits(f, d, weights, set[k]) /\ DOMAIN set[k] = RolesOf(f) /\ InnerOf(f, set[k]) \subseteq Hit(set[k])
    BY <1>12, <2>2
  <2>4. \A i, j \in 1..Len(set) : i < j => InnerOf(f, set[j]) \cap Hit(set[i]) = {}
    BY <1>13, <2>2
  <2>5. Len(set) \in Nat
    BY <1>11, <2>2
  <2>6. Separate(f, set)
    BY <2>1, <2>3, <2>4, <2>5, MatchesSeparate
  <2> QED
    BY <2>2, <2>6
<1>15. PICK b \in Nat : DOMAIN d \subseteq 1..b /\ (DOMAIN d # {} => b \in DOMAIN d)
  BY <1>4, <1>8, LastOf
<1>16. Len(ms) > 0 => DOMAIN d # {}
  <2> SUFFICES ASSUME Len(ms) > 0 PROVE DOMAIN d # {}
    OBVIOUS
  <2>1. 1 \in 1..Len(ms)
    BY <1>11
  <2>2. Fits(f, d, weights, ms[1])
    BY <1>12, <2>1
  <2>3. f \in 1..10
    BY <1>6, <1>7
  <2>4. CASE f = 9
    BY <2>2, <2>4 DEF Fits, FitsIdentity, Ops
  <2>5. CASE f # 9
    <3>1. Parts(f, ms[1]) \subseteq DOMAIN d
      <4>1. WellMade(d, weights)
        BY <1>4, <1>5, <1>7
      <4> QED
        BY <1>12, <2>1, <2>3, <2>5, <4>1, FitsWithin DEF HitWithin
    <3>2. Parts(f, ms[1]) # {}
      BY <2>3, <2>5 DEF Parts, Removed
    <3> QED
      BY <3>1, <3>2
  <2> QED
    BY <2>4, <2>5
<1>17. \A k \in 1..Len(ms) : InnerNodes(ms[k])' = InnerOf(f, ms[k])
  <2>1. \A k \in 1..Len(ms) : InnerNodes(ms[k])' = InnerNodes(ms[k])
    BY <1>1, <1>3 DEF InnerNodes, InnerRoles, Roles, Pattern
  <2> QED
    BY <1>12, <2>1
<1>18. /\ program'.weights = weights /\ fuser' = f /\ desc' = d /\ matched' = ms /\ handled' = 0
       /\ GraphOf(d, inlinks', outlinks') /\ WellMade(d, weights) /\ f \in 1..10 /\ (f <= 9 => OneScale(d))
  BY <1>1, <1>3, <1>4, <1>5, <1>6, <1>7
<1>19. Matching(d, b)'
  BY <1>11, <1>12, <1>14, <1>15, <1>16, <1>17, <1>18 DEF Matching
<1>20. f # 9 => Inserted(d, b)'
  <2>1. (b + 1)..(b + 0) = {} /\ 1..0 = {}
    BY <1>15
  <2> QED
    BY <1>18, <2>1 DEF Inserted
<1>21. f = 9 => Eliminated(d)'
  <2> SUFFICES ASSUME f = 9 PROVE Eliminated(d)'
    OBVIOUS
  <2>1. 1..0 = {}
    OBVIOUS
  <2>2. Dropped(d, 0, ms) = [s \in DOMAIN d |-> d[s]]
    BY <2>1 DEF Dropped
  <2> QED
    BY <1>18, <2>2 DEF Eliminated, GraphOf
<1>22. Inserting(d, b)'
  BY <1>18, <1>19, <1>20, <1>21 DEF Inserting
<1> QED
  BY <1>1, <1>4, <1>22

LEMMA InsertStep ==
  ASSUME NEW d, NEW b, Inserting(d, b), InsertNewNode
  PROVE  stage' = "insert" /\ program' = program /\ Inserting(d, b)'
<1>1. /\ stage = "insert" /\ handled < Len(matched) /\ Pattern.kind # "identity_scale"
      /\ desc' = Assign(desc, Max(Stmts) + 1, GenOpDesc)
      /\ inlinks' = Assign(inlinks, Max(Stmts) + 1, {NodeOf(r) : r \in LinkedRoles})
      /\ outlinks' = Assign(outlinks, Max(Stmts) + 1, {NodeOf(Pattern.result)})
      /\ handled' = handled + 1
      /\ UNCHANGED <<program, stage, fuser, matched>>
  BY DEF InsertNewNode
<1>2. /\ fuser \in 1..10 /\ Len(matched) \in Nat /\ DOMAIN matched = 1..Len(matched) /\ handled \in 0..Len(matched)
      /\ WellMade(d, program.weights)
      /\ b \in Nat /\ DOMAIN d \subseteq 1..b /\ (Len(matched) > 0 => b \in DOMAIN d)
      /\ \A k \in 1..Len(matched) : Fits(fuser, d, program.weights, matched[k])
  BY DEF Inserting, Matching
<1>3. fuser \in (1..10) \ {9}
  BY <1>1, <1>2, KindOf
<1>4. /\ DOMAIN desc = DOMAIN d \cup (b + 1)..(b + handled)
      /\ \A s \in DOMAIN d : desc[s] = d[s]
      /\ \A k \in 1..handled : desc[b + k] = NewOp(fuser, d, matched[k])
      /\ GraphOf(desc, inlinks, outlinks)
  BY <1>3 DEF Inserting, Inserted
<1>5. Max(Stmts) = b + handled
  <2>1. Stmts = DOMAIN d \cup (b + 1)..(b + handled)
    BY <1>4 DEF GraphOf, Stmts
  <2>2. b + handled \in Stmts
    <3>1. CASE handled = 0
      BY <1>1, <1>2, <2>1, <3>1
    <3>2. CASE handled # 0
      BY <1>2, <2>1, <3>2
    <3> QED
      BY <3>1, <3>2
  <2>3. \A x \in Stmts : x \in Int /\ b + handled >= x
    BY <1>2, <2>1
  <2>4. \A x \in Stmts : (\A y \in Stmts : x >= y) => x = b + handled
    BY <1>2, <2>2, <2>3
  <2> QED
    BY <2>2, <2>3, <2>4 DEF Max
<1>6. PICK new : new = b + handled + 1
  OBVIOUS
<1>7. PICK g : g = matched[handled + 1]
  OBVIOUS
<1>8. PICK op : op = NewOp(fuser, d, g)
  OBVIOUS
<1>9. handled + 1 \in 1..Len(matched)
  BY <1>1, <1>2
<1>10. /\ desc' = Assign(desc, new, op)
       /\ inlinks' = Assign(inlinks, new, Nodes(NamesRead(op)))
       /\ outlinks' = Assign(outlinks, new, Nodes({op.out}))
  <2>1. Fits(fuser, d, program.weights, g)
    BY <1>2, <1>7, <1>9
  <2>2. PICK w : w = program.weights
    OBVIOUS
  <2>3. WellMade(d, w) /\ Fits(fuser, d, w, g) /\ matched[handled + 1] = g
    BY <1>2, <1>7, <2>1, <2>2
  <2>4. /\ GenOpDesc = NewOp(fuser, d, g)
        /\ {NodeOf(r) : r \in LinkedRoles} = Nodes(NamesRead(NewOp(fuser, d, g)))
        /\ {NodeOf(Pattern.result)} = Nodes({NewOp(fuser, d, g).out})
    BY <1>3, <1>4, <2>3, NewStatement
  <2> QED
    BY <1>1, <1>5, <1>6, <1>8, <2>4
<1>11. new \notin DOMAIN desc /\ (b + 1)..(b + handled + 1) = (b + 1)..(b + handled) \cup {new}
  <2>1. PICK h : h = handled
    OBVIOUS
  <2>2. b \in Nat /\ h \in Nat /\ new = b + h + 1
    BY <1>2, <1>6, <2>1
  <2>3. new \notin 1..b /\ new \notin (b + 1)..(b + h)
    BY <2>2
  <2>4. (b + 1)..(b + h + 1) = (b + 1)..(b + h) \cup {new}
    BY <2>2
  <2> QED
    BY <1>2, <1>4, <2>1, <2>3, <2>4
<1>12. DOMAIN desc' = DOMAIN d \cup (b + 1)..(b + handled')
  <2>1. b + handled' = b + handled + 1
    BY <1>1, <1>2
  <2>2. (b + 1)..(b + handled') = (b + 1)..(b + handled) \cup {new}
    BY <1>11, <2>1
  <2>3. DOMAIN desc' = DOMAIN desc \cup {new}
    BY <1>10 DEF Assign
  <2> QED
    BY <1>4, <2>2, <2>3
<1>13. \A s \in DOMAIN d : desc'[s] = d[s]
  BY <1>4, <1>10, <1>11 DEF Assign
<1>14. \A k \in 1..handled' : desc'[b + k] = NewOp(fuser', d, matched'[k])
  <2> SUFFICES ASSUME NEW k \in 1..(handled + 1) PROVE desc'[b + k] = NewOp(fuser, d, matched[k])
    BY <1>1
  <2>1. CASE k = handled + 1
    BY <1>2, <1>6, <1>7, <1>8, <1>10, <2>1 DEF Assign
  <2>2. CASE k # handled + 1
    <3>1. k \in 1..handled /\ b + k \in DOMAIN desc /\ b + k # new
      BY <1>2, <1>4, <1>6, <2>2
    <3> QED
      BY <1>4, <1>10, <3>1 DEF Assign
  <2> QED
    BY <2>1, <2>2
<1>15. GraphOf(desc', inlinks', outlinks')
  BY <1>4, <1>10, <1>11 DEF GraphOf, Assign
<1>16. Inserted(d, b)'
  BY <1>12, <1>13, <1>14, <1>15 DEF Inserted
<1>17. Matching(d, b)'
  <2>1. Matching(d, b)
    BY DEF Inserting
  <2>2. \A k \in 1..Len(matched) : InnerNodes(matched[k])' = InnerNodes(matched[k])
    BY <1>1 DEF InnerNodes, InnerRoles, Roles, Pattern
  <2>3. handled' \in 0..Len(matched)
    BY <1>1, <1>9
  <2> QED
    BY <1>1, <2>1, <2>2, <2>3 DEF Matching
<1> QED
  BY <1>1, <1>3, <1>16, <1>17 DEF Inserting

LEMMA DroppedAt ==
  ASSUME NEW d, NEW weights, NEW n, NEW m, Dropper(d, weights, n, m), NEW s \in DOMAIN Dropped(d, n, m),
         NEW k \in 1..n, s = At(m[k], "preop")
  PROVE  Dropped(d, n, m)[s] = [d[s] EXCEPT !.out = Named(m[k], "out")]
<1>1. \A l \in 1..n : s = At(m[l], "preop") => l = k
  BY DropperFacts
<1>2. k = CHOOSE l \in 1..n : s = At(m[l], "preop")
  BY <1>1
<1>3. Dropped(d, n, m)[s] = [d[s] EXCEPT !.out = Named(m[CHOOSE l \in 1..n : s = At(m[l], "preop")], "out")]
  BY DEF Dropped
<1> QED
  BY <1>2, <1>3, Zenon

LEMMA DropperFewer ==
  ASSUME NEW d, NEW weights, NEW n, NEW m, Dropper(d, weights, n, m), NEW h \in 0..n
  PROVE  Dropper(d, weights, h, m)
BY DEF Dropper

\* The matches of IdentityScale are such matches.
LEMMA MatchingDrops ==
  ASSUME NEW d, NEW b, Matching(d, b), fuser = 9
  PROVE  Dropper(d, program.weights, Len(matched), matched)
<1>1. /\ WellMade(d, program.weights) /\ OneScale(d) /\ Len(matched) \in Nat
      /\ \A k \in 1..Len(matched) : Fits(9, d, program.weights, matched[k]) /\ DOMAIN matched[k] = RolesOf(9)
      /\ Separate(9, matched)
  BY DEF Matching
<1>2. \A k \in 1..Len(matched) : FitsIdentity(d, matched[k])
  BY <1>1 DEF Fits
<1>3. ASSUME NEW k \in 1..Len(matched), NEW l \in 1..Len(matched), k # l
      PROVE  Named(matched[k], "x") # Named(matched[l], "x")
  <2>1. InnerOf(9, matched[k]) = {Arg(<<Named(matched[k], "x"), 0>>)}
    BY DEF InnerOf, Removed, Hidden
  <2>2. Arg(<<Named(matched[l], "x"), 0>>) \in Hit(matched[l])
    <3>1. matched[l]["x"] = Arg(<<Named(matched[l], "x"), 0>>)
      BY <1>2 DEF FitsIdentity, Vars
    <3>2. "x" \in DOMAIN matched[l]
      BY <1>1 DEF RolesOf
    <3> QED
      BY <3>1, <3>2 DEF Hit
  <2> QED
    BY <1>1, <1>3, <2>1, <2>2 DEF Separate
<1> QED
  BY <1>1, <1>2, <1>3 DEF Dropper

LEMMA UpdateStep ==
  ASSUME NEW d, NEW b, Inserting(d, b), UpdateOutput
  PROVE  stage' = "insert" /\ program' = program /\ Inserting(d, b)'
<1>1. /\ stage = "insert" /\ handled < Len(matched) /\ Pattern.kind = "identity_scale"
      /\ handled' = handled + 1
      /\ UNCHANGED <<program, stage, fuser, matched>>
  BY DEF UpdateOutput
<1>2. /\ fuser \in 1..10 /\ Len(matched) \in Nat /\ handled \in 0..Len(matched)
  BY DEF Inserting, Matching
<1>3. fuser = 9
  BY <1>1, <1>2, KindOf
<1>4. PICK w : w = program.weights
  OBVIOUS
<1>5. PICK m : m = matched
  OBVIOUS
<1>6. PICK h : h = handled
  OBVIOUS
<1>7. PICK n : n = Len(matched)
  OBVIOUS
<1>8. Dropper(d, w, n, m) /\ h + 1 \in 1..n /\ h \in 0..n /\ h + 1 \in 0..n /\ h \in Nat /\ n \in Nat
  BY <1>1, <1>2, <1>3, <1>4, <1>5, <1>6, <1>7, MatchingDrops DEF Inserting
<1>9. Dropper(d, w, h, m) /\ Dropper(d, w, h + 1, m)
  BY <1>8, DropperFewer
<1>10. PICK g : g = m[h + 1]
  OBVIOUS
<1>11. PICK p : p = At(g, "preop")
  OBVIOUS
<1>12. PICK s : s = At(g, "scale")
  OBVIOUS
<1>13. PICK D : D = Dropped(d, h, m)
  OBVIOUS
<1>14. /\ DOMAIN desc = DOMAIN D /\ \A t \in DOMAIN D : desc[t] = D[t]
       /\ DOMAIN inlinks = DOMAIN D /\ DOMAIN outlinks = DOMAIN D
       /\ \A t \in DOMAIN D : inlinks[t] = Nodes(NamesRead(d[t])) /\ outlinks[t] = Nodes({d[t].out, D[t].out})
  BY <1>3, <1>5, <1>6, <1>13 DEF Inserting, Eliminated
<1>15. /\ p \in DOMAIN d /\ s \in DOMAIN d /\ p # s /\ d[p].out = Named(g, "x")
       /\ \A l \in 1..n : p # At(m[l], "scale") /\ (p = At(m[l], "preop") => l = h + 1)
  BY <1>8, <1>10, <1>11, <1>12, DropperFacts
<1>16. p \in DOMAIN D /\ D[p] = d[p]
  <2>1. \A k \in 1..h : k \in 1..n /\ k # h + 1
    BY <1>8
  <2>2. \A k \in 1..h : p # At(m[k], "scale") /\ p # At(m[k], "preop")
    BY <1>15, <2>1
  <2> QED
    BY <1>13, <1>15, <2>2 DEF Dropped
<1>17. /\ OpOf("preop") = p /\ OpOf("scale") = s /\ NameOf("x") = Named(g, "x")
       /\ NameOf("out") = Named(g, "out") /\ NodeOf("out") = <<Named(g, "out"), 0>>
  <2>1. Vars(g, {"x", "out"})
    BY <1>8, <1>10 DEF Dropper, FitsIdentity
  <2>2. Current = g
    BY <1>5, <1>6, <1>10 DEF Current
  <2> QED
    BY <1>11, <1>12, <2>1, <2>2 DEF OpOf, NameOf, NodeOf, Named, At, Vars, Arg
<1>18. PICK out : out = Named(g, "out")
  OBVIOUS
<1>19. Stmts = DOMAIN D
  BY <1>14 DEF Stmts
<1>20. /\ desc' = Restrict([desc EXCEPT ![p].out = IF @ = d[p].out THEN out ELSE @], DOMAIN D \ {s})
       /\ inlinks' = Restrict(inlinks, DOMAIN D \ {s})
       /\ outlinks' = Restrict([outlinks EXCEPT ![p] = @ \cup {<<out, 0>>}], DOMAIN D \ {s})
  BY <1>15, <1>17, <1>18, <1>19 DEF UpdateOutput
<1>21. PICK E : E = Dropped(d, h + 1, m)
  OBVIOUS
<1>22. 1..(h + 1) = 1..h \cup {h + 1}
  BY <1>8
<1>23. DOMAIN E = DOMAIN D \ {s}
  BY <1>10, <1>12, <1>13, <1>21, <1>22 DEF Dropped
<1>24. \A t \in DOMAIN E : t # p => E[t] = D[t]
  <2> SUFFICES ASSUME NEW t \in DOMAIN E, t # p PROVE E[t] = D[t]
    OBVIOUS
  <2>1. t \in DOMAIN D
    BY <1>23
  <2>2. CASE \E k \in 1..h : t = At(m[k], "preop")
    <3>1. PICK k \in 1..h : t = At(m[k], "preop")
      BY <2>2
    <3>2. k \in 1..(h + 1)
      BY <1>22
    <3>3. D[t] = [d[t] EXCEPT !.out = Named(m[k], "out")]
      BY <1>9, <1>13, <2>1, <3>1, DroppedAt
    <3>4. E[t] = [d[t] EXCEPT !.out = Named(m[k], "out")]
      BY <1>9, <1>21, <3>1, <3>2, DroppedAt
    <3> QED
      BY <3>3, <3>4
  <2>3. CASE ~ \E k \in 1..h : t = At(m[k], "preop")
    <3>1. ~ \E k \in 1..(h + 1) : t = At(m[k], "preop")
      BY <1>10, <1>11, <1>22, <2>3
    <3>2. D[t] = d[t]
      BY <1>13, <2>1, <2>3 DEF Dropped
    <3>3. E[t] = d[t]
      BY <1>21, <3>1 DEF Dropped
    <3> QED
      BY <3>2, <3>3
  <2> QED
    BY <2>2, <2>3
<1>25. p \in DOMAIN E /\ E[p] = [d[p] EXCEPT !.out = out]
  <2>1. p \in DOMAIN E
    BY <1>15, <1>16, <1>23
  <2>2. h + 1 \in 1..(h + 1)
    BY <1>8
  <2> QED
    BY <1>9, <1>10, <1>11, <1>18, <1>21, <2>1, <2>2, DroppedAt
<1>26. E[p].out = out
  <2>1. DOMAIN d[p] = {"type", "in", "out", "act"}
    BY <1>8, <1>15 DEF Dropper, WellMade, IsMade
  <2>2. PICK o : o = d[p]
    OBVIOUS
  <2>3. [o EXCEPT !.out = out].out = out
    BY <2>1, <2>2
  <2> QED
    BY <1>25, <2>2, <2>3
<1>27. DOMAIN desc' = DOMAIN E /\ DOMAIN inlinks' = DOMAIN E /\ DOMAIN outlinks' = DOMAIN E
  BY <1>20, <1>23 DEF Restrict
<1>28. \A t \in DOMAIN E : desc'[t] = E[t]
  <2>1. \A t \in DOMAIN E : t # p => desc'[t] = desc[t]
    BY <1>14, <1>20, <1>23 DEF Restrict
  <2>2. desc'[p] = [d[p] EXCEPT !.out = out]
    <3>1. desc[p] = d[p]
      BY <1>14, <1>16
    <3>2. desc'[p] = [desc EXCEPT ![p].out = IF @ = d[p].out THEN out ELSE @][p]
      BY <1>20, <1>23, <1>25 DEF Restrict
    <3>3. PICK o : o = d[p]
      OBVIOUS
    <3>4. desc'[p] = [o EXCEPT !.out = IF o.out = o.out THEN out ELSE o.out]
      BY <1>14, <1>16, <3>1, <3>2, <3>3
    <3> QED
      BY <3>3, <3>4
  <2> QED
    BY <1>14, <1>23, <1>24, <1>25, <2>1, <2>2
<1>29. \A t \in DOMAIN E : inlinks'[t] = Nodes(NamesRead(d[t]))
  BY <1>14, <1>20, <1>23 DEF Restrict
<1>30. \A t \in DOMAIN E : outlinks'[t] = Nodes({d[t].out, E[t].out})
  <2> SUFFICES ASSUME NEW t \in DOMAIN E PROVE outlinks'[t] = Nodes({d[t].out, E[t].out})
    OBVIOUS
  <2>1. CASE t = p
    <3>1. outlinks'[p] = outlinks[p] \cup {<<out, 0>>}
      BY <1>14, <1>16, <1>20, <1>23, <1>25 DEF Restrict
    <3>2. outlinks[p] = Nodes({d[p].out})
      BY <1>14, <1>16
    <3> QED
      BY <1>26, <2>1, <3>1, <3>2 DEF Nodes
  <2>2. CASE t # p
    <3>1. outlinks'[t] = outlinks[t]
      BY <1>14, <1>20, <1>23, <2>2 DEF Restrict
    <3> QED
      BY <1>14, <1>23, <1>24, <2>2, <3>1
  <2> QED
    BY <2>1, <2>2
<1>31. handled' = h + 1 /\ matched' = m /\ fuser' = 9
  BY <1>1, <1>3, <1>5, <1>6
<1>32. Eliminated(d)'
  BY <1>21, <1>27, <1>28, <1>29, <1>30, <1>31 DEF Eliminated
<1>33. Matching(d, b)'
  <2>1. Matching(d, b)
    BY DEF Inserting
  <2>2. \A k \in 1..Len(matched) : InnerNodes(matched[k])' = InnerNodes(matched[k])
    BY <1>1 DEF InnerNodes, InnerRoles, Roles, Pattern
  <2>3. handled' \in 0..Len(matched)
    BY <1>1, <1>2
  <2> QED
    BY <1>1, <2>1, <2>2, <2>3 DEF Matching
<1> QED
  BY <1>1, <1>31, <1>32, <1>33 DEF Inserting

-----------------------------------------------------------------------------
(* The nodes of the matches are deleted.                                   *)

\* What is left is linked to no variable that is deleted.
LEMMA MergedKeeps ==
  ASSUME NEW d, NEW weights, NEW b, NEW n, NEW rm, NEW hid, NEW new,
         Merger(d, weights, b, n, rm, hid, new), NEW s \in DOMAIN Merged(d, b, n, rm, new),
         NEW x \in {Merged(d, b, n, rm, new)[s].out} \cup NamesRead(Merged(d, b, n, rm, new)[s]),
         NEW k \in 1..n
  PROVE  x \notin hid[k]
<1> SUFFICES ASSUME x \in hid[k] PROVE FALSE
  OBVIOUS
<1>1. PICK op : op = Merged(d, b, n, rm, new)[s]
  OBVIOUS
<1>2. PICK u \in DOMAIN d : Place(d, b, rm, s, u) /\ x \in {d[u].out} \cup NamesRead(d[u])
  BY <1>1, MergedPlaces DEF Place
<1>3. Merging(d, weights, rm[k], hid[k], new[k])
  BY DEF Merger
<1>4. u \in rm[k]
  <2>1. \A t \in DOMAIN d : ({d[t].out} \cup NamesRead(d[t])) \cap hid[k] # {} => t \in rm[k]
    BY <1>3 DEF Merging
  <2> QED
    BY <1>2, <2>1
<1>5. CASE s \in DOMAIN d /\ \A l \in 1..n : s \notin rm[l]
  BY <1>2, <1>4, <1>5 DEF Place
<1>6. CASE s \notin DOMAIN d /\ s - b \in 1..n /\ op = new[s - b]
  <2>1. u \in rm[s - b]
    BY <1>2, <1>6 DEF Place
  <2>2. s - b = k
    BY <1>4, <1>6, <2>1 DEF Merger
  <2>3. x \in {new[k].out} \cup NamesRead(new[k])
    BY <1>1, <1>6, <2>2
  <2> QED
    BY <1>3, <2>3 DEF Merging
<1> QED
  BY <1>1, <1>5, <1>6, MergedCases

LEMMA MatchingMerges ==
  ASSUME NEW d, NEW b, Matching(d, b), fuser # 9, NEW f, f = fuser, NEW m, m = matched,
         NEW rm, rm = [k \in 1..Len(m) |-> Removed(f, m[k])],
         NEW hid, hid = [k \in 1..Len(m) |-> Hidden(f, m[k])],
         NEW new, new = [k \in 1..Len(m) |-> NewOp(f, d, m[k])]
  PROVE  Merger(d, program.weights, b, Len(m), rm, hid, new)
<1>1. /\ f \in (1..10) \ {9} /\ Len(m) \in Nat /\ WellMade(d, program.weights)
      /\ b \in Nat /\ DOMAIN d \subseteq 1..b
      /\ \A k \in 1..Len(m) : Fits(f, d, program.weights, m[k]) /\ InnerNodes(m[k]) = InnerOf(f, m[k])
      /\ Separate(f, m)
  BY DEF Matching
<1>2. \A k \in 1..Len(m) : Merging(d, program.weights, rm[k], hid[k], new[k])
  <2>1. \A k \in 1..Len(m) : Merging(d, program.weights, Removed(f, m[k]), Hidden(f, m[k]), NewOp(f, d, m[k]))
    BY <1>1, FitsMerges
  <2> QED
    BY <2>1
<1>3. ASSUME NEW k \in 1..Len(m), NEW l \in 1..Len(m), k # l
      PROVE  rm[k] \cap rm[l] = {}
  <2> SUFFICES ASSUME NEW s \in Removed(f, m[k]), s \in Removed(f, m[l]) PROVE FALSE
    OBVIOUS
  <2>1. Stmt(s) \in InnerOf(f, m[k]) /\ Stmt(s) \in InnerOf(f, m[l])
    BY DEF InnerOf
  <2>2. InnerOf(f, m[l]) \subseteq Hit(m[l])
    <3>1. InnerNodes(m[l]) \subseteq Hit(m[l])
      <4>1. DOMAIN m[l] = Roles
        BY <1>1, RolesKnown DEF Matching
      <4> QED
        BY <4>1 DEF InnerNodes, InnerRoles, Hit
    <3> QED
      BY <1>1, <3>1
  <2> QED
    BY <1>1, <1>3, <2>1, <2>2 DEF Separate
<1> QED
  BY <1>1, <1>2, <1>3 DEF Merger

\* The nodes of the matches are the statements removed and the variables hidden.
LEMMA RemovedNodes ==
  ASSUME NEW d, NEW b, Matching(d, b), NEW f, f = fuser, NEW m, m = matched
  PROVE  /\ \A s : Stmt(s) \in NodesToRemove <=> \E k \in 1..Len(m) : s \in Removed(f, m[k])
         /\ \A x : Arg(<<x, 0>>) \in NodesToRemove <=> \E k \in 1..Len(m) : x \in Hidden(f, m[k])
<1>1. NodesToRemove = UNION {InnerOf(f, m[k]) : k \in 1..Len(m)}
  BY DEF NodesToRemove, Matching
<1>2. \A s, k : Stmt(s) \in InnerOf(f, m[k]) <=> s \in Removed(f, m[k])
  BY DEF InnerOf, Stmt, Arg
<1>3. \A x, k : Arg(<<x, 0>>) \in InnerOf(f, m[k]) <=> x \in Hidden(f, m[k])
  BY DEF InnerOf, Stmt, Arg
<1> QED
  BY <1>1, <1>2, <1>3

\* Every fuser but IdentityScale: the descriptions are the merged ones.
LEMMA MergeStep ==
  ASSUME NEW d, NEW b, Inserting(d, b), fuser # 9, handled = Len(matched),
         NEW f, f = fuser, NEW m, m = matched,
         NEW rm, rm = [k \in 1..Len(m) |-> Removed(f, m[k])],
         NEW hid, hid = [k \in 1..Len(m) |-> Hidden(f, m[k])],
         NEW new, new = [k \in 1..Len(m) |-> NewOp(f, d, m[k])],
         DeleteInterNodes
  PROVE  desc' = Merged(d, b, Len(m), rm, new) /\ GraphOf(desc', inlinks', outlinks')
<1>0. Matching(d, b) /\ Inserted(d, b)
  BY DEF Inserting
<1>1. PICK n : n = Len(m)
  OBVIOUS
<1>2. PICK w : w = program.weights
  OBVIOUS
<1>3. PICK M : M = Merged(d, b, n, rm, new)
  OBVIOUS
<1>4. Merger(d, w, b, n, rm, hid, new)
  BY <1>0, <1>1, <1>2, MatchingMerges
<1>5. /\ DOMAIN desc = DOMAIN d \cup (b + 1)..(b + n)
      /\ \A s \in DOMAIN d : desc[s] = d[s]
      /\ \A k \in 1..n : desc[b + k] = new[k]
      /\ GraphOf(desc, inlinks, outlinks)
  BY <1>0, <1>1 DEF Inserted
<1>6. b \in Nat /\ n \in Nat /\ DOMAIN d \subseteq 1..b /\ \A k \in 1..n : rm[k] \subseteq DOMAIN d
  BY <1>4 DEF Merger, Merging
<1>7. \A s : Stmt(s) \in NodesToRemove <=> \E k \in 1..n : s \in rm[k]
  BY <1>0, <1>1, RemovedNodes
<1>8. \A x : Arg(<<x, 0>>) \in NodesToRemove <=> \E k \in 1..n : x \in hid[k]
  BY <1>0, <1>1, RemovedNodes
<1>9. DOMAIN M = (DOMAIN d \ UNION {rm[k] : k \in 1..n}) \cup (b + 1)..(b + n)
  BY <1>3 DEF Merged
<1>10. {t \in Stmts : Stmt(t) \notin NodesToRemove} = DOMAIN M
  <2>1. Stmts = DOMAIN d \cup (b + 1)..(b + n)
    BY <1>5 DEF Stmts, GraphOf
  <2>2. \A s \in (b + 1)..(b + n) : s \notin DOMAIN d
    BY <1>6
  <2>3. \A s \in (b + 1)..(b + n) : ~ \E k \in 1..n : s \in rm[k]
    BY <1>6, <2>2
  <2> QED
    BY <1>7, <1>9, <2>1, <2>3
<1>11. /\ inlinks' = [s \in DOMAIN M |-> {k \in inlinks[s] : Arg(k) \notin NodesToRemove}]
       /\ outlinks' = [s \in DOMAIN M |-> {k \in outlinks[s] : Arg(k) \notin NodesToRemove}]
       /\ desc' = [s \in DOMAIN M |-> desc[s]]
  <2>1. Remaining(inlinks) = [s \in DOMAIN M |-> {k \in inlinks[s] : Arg(k) \notin NodesToRemove}]
    BY <1>10 DEF Remaining
  <2>2. Remaining(outlinks) = [s \in DOMAIN M |-> {k \in outlinks[s] : Arg(k) \notin NodesToRemove}]
    BY <1>10 DEF Remaining
  <2>3. inlinks' = Remaining(inlinks) /\ outlinks' = Remaining(outlinks) /\ desc' = Restrict(desc, DOMAIN inlinks')
    BY DEF DeleteInterNodes
  <2>4. DOMAIN inlinks' = DOMAIN M
    BY <2>1, <2>3
  <2>5. desc' = [s \in DOMAIN M |-> desc[s]]
    BY <2>3, <2>4 DEF Restrict
  <2> QED
    BY <2>1, <2>2, <2>3, <2>5
<1>12. \A s \in DOMAIN M : desc[s] = M[s] /\ s \in DOMAIN desc
  <2> SUFFICES ASSUME NEW s \in DOMAIN M PROVE desc[s] = M[s] /\ s \in DOMAIN desc
    OBVIOUS
  <2>1. CASE s \in DOMAIN d /\ M[s] = d[s]
    BY <1>5, <2>1
  <2>2. CASE s \notin DOMAIN d /\ s - b \in 1..n /\ M[s] = new[s - b]
    <3>1. s \in (b + 1)..(b + n)
      BY <1>9, <2>2
    <3>2. s = b + (s - b)
      BY <1>6, <3>1
    <3> QED
      BY <1>5, <2>2, <3>1, <3>2
  <2> QED
    BY <1>3, <1>4, <2>1, <2>2, MergedCases
<1>13. desc' = M
  <2>1. M = [s \in (DOMAIN d \ UNION {rm[k] : k \in 1..n}) \cup (b + 1)..(b + n) |->
                IF s \in DOMAIN d THEN d[s] ELSE new[s - b]]
    BY <1>3 DEF Merged
  <2>2. \A s \in DOMAIN M : M[s] = IF s \in DOMAIN d THEN d[s] ELSE new[s - b]
    BY <2>1, <1>9
  <2>3. desc' = [s \in DOMAIN M |-> IF s \in DOMAIN d THEN d[s] ELSE new[s - b]]
    BY <1>11, <1>12, <2>2
  <2> QED
    BY <1>9, <2>1, <2>3
<1>14. \A s \in DOMAIN M : \A x \in {M[s].out} \cup NamesRead(M[s]) : Arg(<<x, 0>>) \notin NodesToRemove
  <2> SUFFICES ASSUME NEW s \in DOMAIN M, NEW x \in {M[s].out} \cup NamesRead(M[s]), NEW k \in 1..n
               PROVE  x \notin hid[k]
    BY <1>8
  <2>1. s \in DOMAIN Merged(d, b, n, rm, new)
    BY <1>3
  <2>2. x \in {Merged(d, b, n, rm, new)[s].out} \cup NamesRead(Merged(d, b, n, rm, new)[s])
    BY <1>3
  <2> QED
    BY <1>4, <2>1, <2>2, MergedKeeps
<1>15. \A s \in DOMAIN M : inlinks[s] = Nodes(NamesRead(M[s])) /\ outlinks[s] = Nodes({M[s].out})
  BY <1>5, <1>12 DEF GraphOf
<1>16. ASSUME NEW s \in DOMAIN M
       PROVE  inlinks'[s] = Nodes(NamesRead(M[s])) /\ outlinks'[s] = Nodes({M[s].out})
  <2>1. \A k \in inlinks[s] \cup outlinks[s] : Arg(k) \notin NodesToRemove
    BY <1>14, <1>15 DEF Nodes
  <2>2. inlinks'[s] = inlinks[s] /\ outlinks'[s] = outlinks[s]
    BY <1>11, <2>1
  <2> QED
    BY <1>15, <2>2
<1>17. GraphOf(M, inlinks', outlinks')
  BY <1>11, <1>16 DEF GraphOf
<1> QED
  BY <1>1, <1>3, <1>13, <1>17

\* IdentityScale: what the scales read is no longer linked to its writers.
LEMMA DropStep ==
  ASSUME NEW d, NEW b, Inserting(d, b), fuser = 9, handled = Len(matched), NEW m, m = matched,
         DeleteInterNodes
  PROVE  desc' = Dropped(d, Len(m), m) /\ GraphOf(desc', inlinks', outlinks')
<1>0. Matching(d, b) /\ Eliminated(d)
  BY DEF Inserting
<1>1. PICK n : n = Len(m)
  OBVIOUS
<1>2. PICK w : w = program.weights
  OBVIOUS
<1>3. PICK M : M = Dropped(d, n, m)
  OBVIOUS
<1>4. Dropper(d, w, n, m)
  BY <1>0, <1>1, <1>2, MatchingDrops
<1>5. /\ DOMAIN desc = DOMAIN M /\ \A s \in DOMAIN M : desc[s] = M[s]
      /\ DOMAIN inlinks = DOMAIN M /\ DOMAIN outlinks = DOMAIN M
      /\ \A s \in DOMAIN M : inlinks[s] = Nodes(NamesRead(d[s])) /\ outlinks[s] = Nodes({d[s].out, M[s].out})
  BY <1>0, <1>1, <1>3 DEF Eliminated
<1>6. \A s : Stmt(s) \notin NodesToRemove
  <2>1. \A k : Removed(9, m[k]) = {}
    BY DEF Removed
  <2> QED
    BY <1>0, <2>1, RemovedNodes
<1>7. \A x : Arg(<<x, 0>>) \in NodesToRemove <=> \E k \in 1..n : x = Named(m[k], "x")
  <2>1. \A k : Hidden(9, m[k]) = {Named(m[k], "x")}
    BY DEF Hidden
  <2>2. PICK f : f = fuser
    OBVIOUS
  <2>3. \A x : Arg(<<x, 0>>) \in NodesToRemove <=> \E k \in 1..Len(m) : x \in Hidden(f, m[k])
    BY <1>0, <2>2, RemovedNodes
  <2>4. \A x : Arg(<<x, 0>>) \in NodesToRemove <=> \E k \in 1..n : x \in Hidden(9, m[k])
    BY <1>1, <2>2, <2>3
  <2>5. \A x, k : x \in Hidden(9, m[k]) <=> x = Named(m[k], "x")
    BY <2>1
  <2> QED
    BY <2>4, <2>5, Zenon
<1>8. /\ inlinks' = [s \in DOMAIN M |-> {k \in inlinks[s] : Arg(k) \notin NodesToRemove}]
      /\ outlinks' = [s \in DOMAIN M |-> {k \in outlinks[s] : Arg(k) \notin NodesToRemove}]
      /\ desc' = [s \in DOMAIN M |-> desc[s]]
  <2>0. {t \in Stmts : Stmt(t) \notin NodesToRemove} = DOMAIN M
    BY <1>5, <1>6 DEF Stmts
  <2>1. Remaining(inlinks) = [s \in DOMAIN M |-> {k \in inlinks[s] : Arg(k) \notin NodesToRemove}]
    BY <2>0 DEF Remaining
  <2>2. Remaining(outlinks) = [s \in DOMAIN M |-> {k \in outlinks[s] : Arg(k) \notin NodesToRemove}]
    BY <2>0 DEF Remaining
  <2>3. inlinks' = Remaining(inlinks) /\ outlinks' = Remaining(outlinks) /\ desc' = Restrict(desc, DOMAIN inlinks')
    BY DEF DeleteInterNodes
  <2>4. DOMAIN inlinks' = DOMAIN M
    BY <2>1, <2>3
  <2>5. desc' = [s \in DOMAIN M |-> desc[s]]
    BY <2>3, <2>4 DEF Restrict
  <2> QED
    BY <2>1, <2>2, <2>3, <2>5
<1>9. desc' = M
  <2>1. M = [s \in DOMAIN M |-> M[s]]
    BY <1>3 DEF Dropped
  <2> QED
    BY <1>5, <1>8, <2>1
<1>10. ASSUME NEW s \in DOMAIN M
       PROVE  inlinks'[s] = Nodes(NamesRead(M[s])) /\ outlinks'[s] = Nodes({M[s].out})
  <2>1. /\ s \in DOMAIN d /\ \A k \in 1..n : s # At(m[k], "scale")
        /\ M[s].in = d[s].in
        /\ \/ M[s] = d[s] /\ \A k \in 1..n : s # At(m[k], "preop")
           \/ \E k \in 1..n : s = At(m[k], "preop") /\ M[s].out = Named(m[k], "out")
    BY <1>3, <1>4, DroppedCases
  <2>2. NamesRead(M[s]) = NamesRead(d[s])
    BY <2>1 DEF NamesRead
  <2>3. ASSUME NEW k \in 1..n
        PROVE  Named(m[k], "x") \notin NamesRead(d[s])
    <3>1. /\ d[At(m[k], "preop")].out = Named(m[k], "x")
          /\ Follows(d, At(m[k], "scale"), At(m[k], "preop"))
      BY <1>4, DropperFacts
    <3> QED
      BY <2>1, <3>1 DEF Follows, Reads
  <2>4. inlinks'[s] = Nodes(NamesRead(d[s]))
    <3>1. \A k \in inlinks[s] : Arg(k) \notin NodesToRemove
      BY <1>5, <1>7, <2>3 DEF Nodes
    <3> QED
      BY <1>5, <1>8, <3>1
  <2>5. outlinks'[s] = {k \in Nodes({d[s].out, M[s].out}) : Arg(k) \notin NodesToRemove}
    BY <1>5, <1>8
  <2>6. CASE M[s] = d[s] /\ \A k \in 1..n : s # At(m[k], "preop")
    <3>1. \A k \in 1..n : d[s].out # Named(m[k], "x")
      <4> SUFFICES ASSUME NEW k \in 1..n, d[s].out = Named(m[k], "x") PROVE FALSE
        OBVIOUS
      <4>1. d[At(m[k], "preop")].out = Named(m[k], "x") /\ At(m[k], "preop") \in DOMAIN d
        BY <1>4, DropperFacts
      <4>2. WellMade(d, w)
        BY <1>4 DEF Dropper
      <4> QED
        BY <2>1, <2>6, <4>1, <4>2, WeightUnwritten
    <3>2. Arg(<<d[s].out, 0>>) \notin NodesToRemove
      BY <1>7, <3>1
    <3> QED
      BY <2>2, <2>4, <2>5, <2>6, <3>2 DEF Nodes
  <2>7. CASE \E k \in 1..n : s = At(m[k], "preop") /\ M[s].out = Named(m[k], "out")
    <3>1. PICK k \in 1..n : s = At(m[k], "preop") /\ M[s].out = Named(m[k], "out")
      BY <2>7
    <3>2. d[s].out = Named(m[k], "x")
      BY <1>4, <3>1, DropperFacts
    <3>3. \A l \in 1..n : M[s].out # Named(m[l], "x")
      BY <1>4, <3>1, DropperFacts
    <3>4. Arg(<<d[s].out, 0>>) \in NodesToRemove /\ Arg(<<M[s].out, 0>>) \notin NodesToRemove
      BY <1>7, <3>2, <3>3
    <3> QED
      BY <2>2, <2>4, <2>5, <3>4 DEF Nodes
  <2> QED
    BY <2>1, <2>6, <2>7
<1>11. GraphOf(M, inlinks', outlinks')
  BY <1>8, <1>10 DEF GraphOf
<1> QED
  BY <1>1, <1>3, <1>9, <1>11

LEMMA DeleteStep ==
  ASSUME NEW d, NEW b, Inserting(d, b), DeleteInterNodes
  PROVE  Ready' /\ program' = program /\ stage' \in {"match", "fused"}
<1>1. /\ handled = Len(matched) /\ fuser' = fuser + 1 /\ matched' = <<>> /\ handled' = 0 /\ program' = program
      /\ stage' = IF fuser = Len(Fusers) THEN "fused" ELSE "match"
  BY DEF DeleteInterNodes
<1>2. Matching(d, b) /\ fuser \in 1..10
  BY DEF Inserting, Matching
<1>3. Len(Fusers) = 10
  BY DEF Fusers
<1>4. PICK m : m = matched
  OBVIOUS
<1>5. PICK f : f = fuser
  OBVIOUS
<1>6. PICK w : w = program.weights
  OBVIOUS
<1>7. PICK M : M = desc'
  OBVIOUS
<1>8. GraphOf(M, inlinks', outlinks') /\ WellMade(M, w) /\ (fuser + 1 <= 9 => OneScale(M))
  <2>1. CASE fuser = 9
    <3>1. desc' = Dropped(d, Len(m), m) /\ GraphOf(desc', inlinks', outlinks')
      BY <1>1, <1>4, <2>1, DropStep
    <3>2. Dropper(d, w, Len(m), m)
      BY <1>2, <1>4, <1>6, <2>1, MatchingDrops
    <3>3. WellMade(Dropped(d, Len(m), m), w)
      BY <3>2, DroppedWellMade
    <3> QED
      BY <1>7, <2>1, <3>1, <3>3
  <2>2. CASE fuser # 9
    <3>1. PICK rm : rm = [k \in 1..Len(m) |-> Removed(f, m[k])]
      OBVIOUS
    <3>2. PICK hid : hid = [k \in 1..Len(m) |-> Hidden(f, m[k])]
      OBVIOUS
    <3>3. PICK new : new = [k \in 1..Len(m) |-> NewOp(f, d, m[k])]
      OBVIOUS
    <3>4. desc' = Merged(d, b, Len(m), rm, new) /\ GraphOf(desc', inlinks', outlinks')
      BY <1>1, <1>4, <1>5, <2>2, <3>1, <3>2, <3>3, MergeStep
    <3>5. PICK n : n = Len(m)
      OBVIOUS
    <3>6. Merger(d, w, b, n, rm, hid, new)
      BY <1>2, <1>4, <1>5, <1>6, <2>2, <3>1, <3>2, <3>3, <3>5, MatchingMerges
    <3>7. WellMade(Merged(d, b, n, rm, new), w)
      BY <3>6, MergedWellMade
    <3>8. fuser <= 9 => OneScale(Merged(d, b, n, rm, new))
      <4>1. fuser <= 9 => OneScale(d)
        BY <1>2 DEF Matching
      <4> QED
        BY <3>6, <4>1, MergedOneScale
    <3> QED
      BY <1>2, <1>7, <3>4, <3>5, <3>7, <3>8
  <2> QED
    BY <2>1, <2>2
<1>9. /\ GraphOf(desc', inlinks', outlinks') /\ WellMade(desc', program'.weights)
      /\ fuser' <= 9 => OneScale(desc')
  BY <1>1, <1>6, <1>7, <1>8
<1>10. fuser' \in 1..11 /\ (stage' = "match" => fuser' <= 10)
  BY <1>1, <1>2, <1>3
<1> QED
  BY <1>1, <1>9, <1>10 DEF Ready

-----------------------------------------------------------------------------
(* The theorems.                                                           *)

LEMMA FuseStep ==
  ASSUME AllMatchable, FuseInv, [Next]_vars
  PROVE  FuseInv'
<1>1. program \in Programs /\ stage \in {"build", "match", "insert", "fused"}
  BY DEF FuseInv
<1>2. Matchable(program)
  BY <1>1 DEF AllMatchable
<1>3. CASE BuildGraph
  <2>1. stage = "build" /\ BuildOp /\ UNCHANGED fuseVars /\ stage' = "build"
    BY <1>3 DEF BuildGraph, fuseVars
  <2>2. Building' /\ program' = program
    BY <1>1, <1>2, <2>1, BuildStep DEF FuseInv
  <2> QED
    BY <1>1, <2>1, <2>2 DEF FuseInv, Settled
<1>4. CASE BeginFusing
  <2>1. stage = "build"
    BY <1>4 DEF BeginFusing
  <2>2. Ready' /\ program' = program /\ stage' = "match"
    BY <1>1, <1>2, <1>4, <2>1, BeginStep DEF FuseInv
  <2> QED
    BY <1>1, <2>2 DEF FuseInv, Settled
<1>5. CASE PerformPatternMatcher
  <2>1. stage = "match"
    BY <1>5 DEF PerformPatternMatcher
  <2>2. Ready
    BY <2>1 DEF FuseInv, Settled
  <2>3. stage' = "insert" /\ program' = program /\ \E d, b : d = desc /\ Inserting(d, b)'
    BY <1>5, <2>1, <2>2, MatchStep
  <2> QED
    BY <1>1, <2>3 DEF FuseInv, Settled
<1>6. CASE InsertNewNode
  <2>1. stage = "insert"
    BY <1>6 DEF InsertNewNode
  <2>2. PICK d, b : Inserting(d, b)
    BY <2>1 DEF FuseInv
  <2>3. stage' = "insert" /\ program' = program /\ Inserting(d, b)'
    BY <1>6, <2>2, InsertStep
  <2> QED
    BY <1>1, <2>3 DEF FuseInv, Settled
<1>7. CASE UpdateOutput
  <2>1. stage = "insert"
    BY <1>7 DEF UpdateOutput
  <2>2. PICK d, b : Inserting(d, b)
    BY <2>1 DEF FuseInv
  <2>3. stage' = "insert" /\ program' = program /\ Inserting(d, b)'
    BY <1>7, <2>2, UpdateStep
  <2> QED
    BY <1>1, <2>3 DEF FuseInv, Settled
<1>8. CASE DeleteInterNodes
  <2>1. stage = "insert"
    BY <1>8 DEF DeleteInterNodes
  <2>2. PICK d, b : Inserting(d, b)
    BY <2>1 DEF FuseInv
  <2>3. Ready' /\ program' = program /\ stage' \in {"match", "fused"}
    BY <1>8, <2>2, DeleteStep
  <2> QED
    BY <1>1, <2>3 DEF FuseInv, Settled
<1>9. CASE UNCHANGED vars
  <2>1. /\ UNCHANGED <<stage, fuser, matched, handled, desc, folded, shifted>>
        /\ UNCHANGED <<program, built, latest, inlinks, outlinks>>
    BY <1>9 DEF vars, fuseVars, graphVars
  <2>2. Building => Building'
    BY <2>1 DEF Building
  <2>3. Ready => Ready'
    BY <2>1 DEF Ready
  <2>4. ASSUME NEW d, NEW b, Inserting(d, b)
        PROVE  Inserting(d, b)'
    <3>1. \A k \in 1..Len(matched) : InnerNodes(matched[k])' = InnerNodes(matched[k])
      BY <2>1 DEF InnerNodes, InnerRoles, Roles, Pattern
    <3>2. Matching(d, b)'
      BY <2>1, <2>4, <3>1 DEF Inserting, Matching
    <3> QED
      BY <2>1, <2>4, <3>2 DEF Inserting, Inserted, Eliminated
  <2> QED
    BY <2>1, <2>2, <2>3, <2>4 DEF FuseInv, Settled
<1> QED
  BY <1>3, <1>4, <1>5, <1>6, <1>7, <1>8, <1>9 DEF Next

\* The invariant of the fusion passes, over the programs they are made for.
THEOREM FusionInvariant ==
  ASSUME AllMatchable
  PROVE  Spec => []FuseInv
<1>1. Init => FuseInv
  <2> SUFFICES ASSUME Init PROVE FuseInv
    OBVIOUS
  <2>1. /\ program \in Programs /\ built = 0 /\ latest = NoEntries /\ inlinks = NoEntries /\ outlinks = NoEntries
        /\ stage = "build" /\ fuser = 0 /\ matched = <<>> /\ handled = 0
    BY DEF Init, GraphInit
  <2>2. Len(program.ops) \in Nat
    BY <2>1, ProgramDesc
  <2>3. DOMAIN NoEntries = {} /\ 1..0 = {}
    BY DEF NoEntries
  <2>4. Building
    BY <2>1, <2>2, <2>3 DEF Building
  <2> QED
    BY <2>1, <2>4 DEF FuseInv, Settled
<1> QED
  BY <1>1, FuseStep, PTL DEF Spec

\* TypeOK: between two fusers the links of a statement are the variables its
\* description names, and a match gives a node to each role.
THEOREM FusionTypeOK ==
  ASSUME AllMatchable
  PROVE  Spec => []TypeOK
<1>1. FuseInv => TypeOK
  <2> SUFFICES ASSUME FuseInv PROVE TypeOK
    OBVIOUS
  <2>0. Len(Fusers) = 10
    BY DEF Fusers
  <2>1. CASE stage = "build"
    <3>1. Building /\ ~Settled
      BY <2>1 DEF FuseInv, Settled
    <3>2. Len(<<>>) = 0 /\ DOMAIN <<>> = {}
      OBVIOUS
    <3> QED
      BY <2>0, <3>1, <3>2 DEF TypeOK, Building, Stmts
  <2>2. CASE Settled
    <3>1. Ready
      BY <2>2 DEF FuseInv
    <3>2. Len(<<>>) = 0 /\ DOMAIN <<>> = {}
      OBVIOUS
    <3>3. \A s \in Stmts : /\ {n[1] : n \in inlinks[s]} = NamesRead(desc[s])
                           /\ {n[1] : n \in outlinks[s]} = {desc[s].out}
      <4>1. ASSUME NEW names PROVE {n[1] : n \in Nodes(names)} = names
        <5>1. \A x \in names : <<x, 0>> \in Nodes(names) /\ <<x, 0>>[1] = x
          BY DEF Nodes
        <5>2. \A n \in Nodes(names) : n[1] \in names
          BY DEF Nodes
        <5> QED
          BY <5>1, <5>2
      <4> QED
        BY <3>1, <4>1 DEF Ready, GraphOf, Stmts
    <3>4. DOMAIN outlinks = Stmts
      BY <3>1 DEF Ready, GraphOf, Stmts
    <3>5. fuser \in 0..(Len(Fusers) + 1)
      BY <2>0, <3>1 DEF Ready
    <3>6. handled \in 0..Len(matched) /\ \A k \in DOMAIN matched : DOMAIN matched[k] = Roles
      <4>1. matched = <<>> /\ handled = 0
        BY <3>1 DEF Ready
      <4> QED
        BY <3>2, <4>1
    <3> QED
      BY <3>3, <3>4, <3>5, <3>6 DEF TypeOK
  <2>3. CASE stage = "insert"
    <3>1. PICK d, b : Inserting(d, b)
      BY <2>3 DEF FuseInv
    <3>2. /\ fuser \in 1..10 /\ DOMAIN matched = 1..Len(matched) /\ handled \in 0..Len(matched)
          /\ \A k \in 1..Len(matched) : DOMAIN matched[k] = RolesOf(fuser)
      BY <3>1 DEF Inserting, Matching
    <3>3. DOMAIN outlinks = Stmts
      BY <3>1 DEF Inserting, Inserted, Eliminated, GraphOf, Stmts
    <3>4. ~Settled
      BY <2>3 DEF Settled
    <3> QED
      BY <2>0, <3>2, <3>3, <3>4, RolesKnown DEF TypeOK
  <2> QED
    BY <2>1, <2>2, <2>3 DEF FuseInv, Settled
<1> QED
  BY <1>1, FusionInvariant, PTL

\* SharesNoInner: what one match of a fuser deletes is no part of another, in
\* whatever order the matches were found.
THEOREM FusionSharesNoInner ==
  ASSUME AllMatchable
  PROVE  Spec => []SharesNoInner
<1>1. FuseInv => SharesNoInner
  <2> SUFFICES ASSUME FuseInv PROVE SharesNoInner
    OBVIOUS
  <2>1. CASE stage = "build" \/ Settled
    <3>1. matched = <<>>
      BY <2>1 DEF FuseInv, Building, Ready
    <3>2. DOMAIN <<>> = {}
      OBVIOUS
    <3> QED
      BY <3>1, <3>2 DEF SharesNoInner
  <2>2. CASE stage = "insert"
    <3>1. PICK d, b : Inserting(d, b)
      BY <2>2 DEF FuseInv
    <3> QED
      BY <3>1 DEF Inserting, Matching, Separate, SharesNoInner
  <2> QED
    BY <2>1, <2>2 DEF FuseInv, Settled
<1> QED
  BY <1>1, FusionInvariant, PTL

-----------------------------------------------------------------------------
(* What a program computes.                                                *)

\* Every variable has the value its operator, or the input or weight, gives it.
Values(v, d, alphas, betas) ==
  /\ \A s \in DOMAIN d : v[d[s].out] = Result(d[s], v, alphas)
  /\ \A x \in NamesIn(d) : WritersIn(d, x) = {} => v[x] = Given(x, betas)

LEMMA NamesInFacts ==
  ASSUME NEW d
  PROVE  /\ \A x : x \in NamesIn(d) <=> \E s \in DOMAIN d : x = d[s].out \/ x \in NamesRead(d[s])
         /\ \A x : WritersIn(d, x) # {} <=> \E s \in DOMAIN d : d[s].out = x
<1>1. \A x : x \in NamesIn(d) <=> \E s \in DOMAIN d : x = d[s].out \/ x \in NamesRead(d[s])
  BY DEF NamesIn
<1>2. \A x : WritersIn(d, x) # {} <=> \E s \in DOMAIN d : d[s].out = x
  BY DEF WritersIn
<1> QED
  BY <1>1, <1>2

\* A result depends on what is read, and on what the filter was multiplied with.
LEMMA ResultLocal ==
  ASSUME NEW op, NEW v, NEW w, NEW a, NEW b,
         \A x \in NamesRead(op) : v[x] = w[x],
         op.type = "conv2d" => a[op.in.Filter] = b[op.in.Filter]
  PROVE  Result(op, v, a) = Result(op, w, b)
<1> DEFINE R(val) == [slot \in {"X", "Y", "Input", "Bias"} |-> IF slot \in DOMAIN op.in THEN val[op.in[slot]] ELSE {}]
           A(al) == IF op.type = "conv2d" THEN al[op.in.Filter] ELSE <<>>
<1>1. R(v) = R(w)
  <2>1. \A slot \in DOMAIN op.in : v[op.in[slot]] = w[op.in[slot]]
    BY SlotRead
  <2> QED
    BY <2>1
<1>2. A(a) = A(b)
  OBVIOUS
<1>3. Result(op, v, a) = Activated(op.act, Terms(op, R(v), A(a)))
  BY DEF Result
<1>4. Result(op, w, b) = Activated(op.act, Terms(op, R(w), A(b)))
  BY DEF Result
<1> HIDE DEF R, A
<1> QED
  BY <1>1, <1>2, <1>3, <1>4

\* The values are determined: nothing is computed from itself.
LEMMA ValuesOnce ==
  ASSUME NEW d, NEW alphas, NEW betas, NEW v, NEW w, Ranked(d),
         Values(v, d, alphas, betas), Values(w, d, alphas, betas), NEW x \in NamesIn(d)
  PROVE  v[x] = w[x]
<1>1. PICK rank : \A s \in DOMAIN d :
        rank[d[s].out] \in Nat /\ \A y \in NamesRead(d[s]) : rank[y] \in Nat /\ rank[y] < rank[d[s].out]
  BY DEF Ranked
<1> DEFINE Bad == {s \in DOMAIN d : v[d[s].out] # w[d[s].out]}
           Ranks == {rank[d[s].out] : s \in Bad}
<1>2. \A y \in NamesIn(d) : v[y] = w[y] \/ \E s \in Bad : d[s].out = y
  <2> SUFFICES ASSUME NEW y \in NamesIn(d), v[y] # w[y] PROVE \E s \in Bad : d[s].out = y
    OBVIOUS
  <2>1. WritersIn(d, y) # {}
    BY DEF Values
  <2> QED
    BY <2>1, NamesInFacts
<1>3. Bad = {}
  <2> SUFFICES ASSUME Bad # {} PROVE FALSE
    OBVIOUS
  <2>1. Ranks \subseteq Nat /\ Ranks # {}
    BY <1>1
  <2>2. PICK k \in Ranks : \A l \in Ranks : k <= l
    <3> HIDE DEF Ranks
    <3> QED
      BY <2>1, LeastOf
  <2>3. PICK s \in Bad : k = rank[d[s].out]
    BY <2>2
  <2>4. ASSUME NEW y \in NamesRead(d[s])
        PROVE  v[y] = w[y]
    <3>1. y \in NamesIn(d)
      BY NamesInFacts
    <3>2. rank[y] \in Nat /\ rank[y] < k /\ k \in Nat
      BY <1>1, <2>3
    <3>3. ASSUME NEW t \in Bad, d[t].out = y PROVE FALSE
      <4>1. k <= rank[y]
        BY <2>2, <3>3
      <4> QED
        BY <3>2, <4>1
    <3> QED
      BY <1>2, <3>1, <3>3
  <2>5. Result(d[s], v, alphas) = Result(d[s], w, alphas)
    BY <2>4, ResultLocal
  <2> QED
    BY <2>3, <2>5 DEF Values
<1> QED
  BY <1>2, <1>3

\* The function by which the meanings are defined.
MeaningsOf(f, d, alphas, betas) ==
  f = [x \in NamesIn(d) |->
         IF WritersIn(d, x) = {} THEN Given(x, betas)
         ELSE Result(d[CHOOSE s \in WritersIn(d, x) : TRUE], f, alphas)]

\* When there are such values, they are what the program means.
LEMMA MeaningsAre ==
  ASSUME NEW d, NEW alphas, NEW betas, NEW v, NEW weights, WellMade(d, weights),
         Values(v, d, alphas, betas), NEW x \in NamesIn(d)
  PROVE  Meanings(d, alphas, betas)[x] = v[x]
<1> DEFINE names == NamesIn(d)
           f == [y \in names |-> v[y]]
           Of(h, y) == IF WritersIn(d, y) = {} THEN Given(y, betas)
                       ELSE Result(d[CHOOSE s \in WritersIn(d, y) : TRUE], h, alphas)
<1>1. \A s, t \in DOMAIN d : d[s].out = d[t].out => s = t
  BY DEF WellMade, OneWriter
<1>2. \A s \in DOMAIN d : \A y \in {d[s].out} \cup NamesRead(d[s]) : y \in names
  BY NamesInFacts
<1>3. ASSUME NEW h, NEW y \in names
      PROVE  \/ WritersIn(d, y) = {} /\ Of(h, y) = Given(y, betas)
             \/ \E s \in DOMAIN d : d[s].out = y /\ WritersIn(d, y) # {} /\ Of(h, y) = Result(d[s], h, alphas)
  <2>1. CASE WritersIn(d, y) = {}
    BY <2>1
  <2>2. CASE WritersIn(d, y) # {}
    <3>1. PICK s : s = CHOOSE t \in WritersIn(d, y) : TRUE
      OBVIOUS
    <3>2. s \in DOMAIN d /\ d[s].out = y
      BY <2>2, <3>1 DEF WritersIn
    <3>3. Of(h, y) = Result(d[s], h, alphas)
      BY <2>2, <3>1
    <3> QED
      BY <2>2, <3>2, <3>3
  <2> QED
    BY <2>1, <2>2
<1>4. \A s \in DOMAIN d : Result(d[s], f, alphas) = Result(d[s], v, alphas)
  <2> SUFFICES ASSUME NEW s \in DOMAIN d PROVE Result(d[s], f, alphas) = Result(d[s], v, alphas)
    OBVIOUS
  <2>1. \A y \in NamesRead(d[s]) : f[y] = v[y]
    BY <1>2
  <2> HIDE DEF f
  <2> QED
    BY <2>1, ResultLocal
<1>5. \A y \in names : f[y] = Of(f, y)
  <2> SUFFICES ASSUME NEW y \in names PROVE f[y] = Of(f, y)
    OBVIOUS
  <2>1. f[y] = v[y]
    OBVIOUS
  <2> HIDE DEF f, Of
  <2> QED
    BY <1>3, <1>4, <2>1 DEF Values
<1>6. MeaningsOf(f, d, alphas, betas)
  <2>1. f = [y \in names |-> Of(f, y)]
    <3> HIDE DEF Of
    <3> QED
      BY <1>5
  <2> QED
    BY <2>1, Zenon DEF MeaningsOf
<1> DEFINE M == CHOOSE h : MeaningsOf(h, d, alphas, betas)
<1>7. MeaningsOf(M, d, alphas, betas)
  BY <1>6, Zenon
<1>8. Meanings(d, alphas, betas) = M
  BY Zenon DEF Meanings, MeaningsOf
<1>9. \A y \in names : M[y] = Of(M, y)
  BY <1>7, Zenon DEF MeaningsOf
<1>10. Values(M, d, alphas, betas)
  <2> HIDE DEF M, Of, names
  <2>1. ASSUME NEW s \in DOMAIN d PROVE M[d[s].out] = Result(d[s], M, alphas)
    <3>1. d[s].out \in names /\ WritersIn(d, d[s].out) # {}
      BY <1>2, NamesInFacts
    <3>2. PICK t \in DOMAIN d : d[t].out = d[s].out /\ Of(M, d[s].out) = Result(d[t], M, alphas)
      BY <1>3, <3>1
    <3>3. t = s
      BY <1>1, <3>2
    <3> QED
      BY <1>9, <3>1, <3>2, <3>3
  <2>2. ASSUME NEW y \in names, WritersIn(d, y) = {} PROVE M[y] = Given(y, betas)
    BY <1>3, <1>9, <2>2
  <2> QED
    BY <2>1, <2>2 DEF Values, names
<1> QED
  <2> HIDE DEF M
  <2>1. Ranked(d)
    BY DEF WellMade
  <2> QED
    BY <1>8, <1>10, <2>1, ValuesOnce

\* A program that writes its names once, in order, computes something.
LEMMA ProgramValues ==
  ASSUME NEW p \in Programs, Matchable(p), NEW alphas, NEW betas
  PROVE  \E v : Values(v, p.desc, alphas, betas)
<1> DEFINE d == p.desc
           n == Len(p.ops)
           names == NamesIn(d)
           UpTo(v, k) ==
             /\ \A s \in 1..k : v[d[s].out] = Result(d[s], v, alphas)
             /\ \A x \in names : WritersIn(d, x) = {} => v[x] = Given(x, betas)
           Bad == {k \in Nat : k <= n /\ ~ \E v : UpTo(v, k)}
<1>1. n \in Nat /\ DOMAIN d = 1..n
  BY ProgramDesc
<1>2. \A s \in 1..n : /\ \A t \in 1..s : d[s].out \notin NamesRead(d[t])
                      /\ \A t \in 1..(s - 1) : d[s].out # d[t].out
  BY <1>1 DEF Matchable, WritesOnce
<1>3. /\ \A s \in 1..n : \A x \in {d[s].out} \cup NamesRead(d[s]) : x \in names
      /\ \A s \in 1..n : WritersIn(d, d[s].out) # {}
  BY <1>1, NamesInFacts
<1> HIDE DEF d, n, names
<1>4. Bad = {}
  <2> SUFFICES ASSUME Bad # {} PROVE FALSE
    OBVIOUS
  <2>1. PICK k \in Bad : \A l \in Bad : k <= l
    <3>1. Bad \subseteq Nat
      OBVIOUS
    <3> HIDE DEF Bad
    <3> QED
      BY <3>1, LeastOf
  <2>2. k \in Nat /\ k <= n /\ ~ \E v : UpTo(v, k)
    OBVIOUS
  <2>3. CASE k = 0
    <3> DEFINE v == [x \in names |-> Given(x, betas)]
    <3>1. UpTo(v, 0)
      OBVIOUS
    <3> QED
      BY <2>2, <2>3, <3>1
  <2>4. CASE k # 0
    <3>1. k \in 1..n /\ k - 1 \in Nat /\ k - 1 <= n /\ ~(k <= k - 1)
      BY <1>1, <2>2, <2>4
    <3>2. k - 1 \notin Bad
      BY <2>1, <3>1
    <3>3. PICK f : UpTo(f, k - 1)
      BY <3>1, <3>2
    <3> DEFINE r == Result(d[k], f, alphas)
               v == [x \in names |-> IF x = d[k].out THEN r ELSE f[x]]
    <3> HIDE DEF r
    <3>4. \A x \in names : x # d[k].out => v[x] = f[x]
      OBVIOUS
    <3>5. v[d[k].out] = r
      BY <1>3, <3>1
    <3> HIDE DEF v
    <3>6. ASSUME NEW s \in 1..k PROVE Result(d[s], v, alphas) = Result(d[s], f, alphas)
      <4>1. s \in 1..n
        BY <1>1, <3>1
      <4>2. \A x \in NamesRead(d[s]) : v[x] = f[x]
        BY <1>2, <1>3, <3>1, <3>4, <4>1
      <4> QED
        BY <4>2, ResultLocal
    <3>7. ASSUME NEW s \in 1..k PROVE v[d[s].out] = Result(d[s], v, alphas)
      <4>1. CASE s = k
        BY <3>5, <3>6, <4>1 DEF r
      <4>2. CASE s # k
        <5>1. s \in 1..(k - 1) /\ s \in 1..n
          BY <1>1, <3>1, <4>2
        <5>2. d[s].out # d[k].out /\ d[s].out \in names
          BY <1>2, <1>3, <3>1, <5>1
        <5>3. f[d[s].out] = Result(d[s], f, alphas)
          BY <3>3, <5>1
        <5> QED
          BY <3>4, <3>6, <5>2, <5>3
      <4> QED
        BY <4>1, <4>2
    <3>8. ASSUME NEW x \in names, WritersIn(d, x) = {} PROVE v[x] = Given(x, betas)
      BY <1>3, <3>1, <3>3, <3>4, <3>8
    <3>9. UpTo(v, k)
      BY <3>7, <3>8
    <3> QED
      BY <2>2, <3>9
  <2> QED
    BY <2>3, <2>4
<1>5. PICK v : UpTo(v, n)
  <2>1. n \notin Bad
    <3> HIDE DEF Bad
    <3> QED
      BY <1>4
  <2>2. n \in Nat /\ n <= n
    BY <1>1
  <2> HIDE DEF UpTo
  <2> QED
    BY <2>1, <2>2
<1>6. Values(v, d, alphas, betas)
  BY <1>1, <1>5 DEF Values, names
<1> QED
  BY <1>6 DEF d

\* What the operators the fusers know make of what they read.
LEMMA ConvResult ==
  ASSUME NEW op, NEW v, NEW alphas, op.type = "conv2d", {"Input", "Filter"} \subseteq DOMAIN op.in
  PROVE  Result(op, v, alphas) =
           Activated(op.act, {Term(alphas[op.in.Filter], <<"conv", op.in.Filter, v[op.in.Input]>>)}
                               \cup IF "Bias" \in DOMAIN op.in THEN v[op.in.Bias] ELSE {})
<1> DEFINE read == [slot \in {"X", "Y", "Input", "Bias"} |-> IF slot \in DOMAIN op.in THEN v[op.in[slot]] ELSE {}]
           alpha == IF op.type = "conv2d" THEN alphas[op.in.Filter] ELSE <<>>
<1>1. Result(op, v, alphas) = Activated(op.act, Terms(op, read, alpha))
  BY DEF Result
<1>2. /\ read.Input = v[op.in.Input] /\ alpha = alphas[op.in.Filter]
      /\ read.Bias = IF "Bias" \in DOMAIN op.in THEN v[op.in.Bias] ELSE {}
  OBVIOUS
<1> HIDE DEF read, alpha
<1>3. Terms(op, read, alpha) = {Term(alpha, <<"conv", op.in.Filter, read.Input>>)} \cup read.Bias
  BY DEF Terms
<1> QED
  BY <1>1, <1>2, <1>3

LEMMA NormResult ==
  ASSUME NEW op, NEW v, NEW alphas, op.type = "batch_norm", op.act = "none", DOMAIN op.in = {"X", "Scale", "Bias"}
  PROVE  Result(op, v, alphas) =
           {[t EXCEPT !.by = Append(@, op.in.Scale)] : t \in v[op.in.X]}
             \cup {Term(<<op.in.Scale>>, <<"mean", op.in.Scale>>)} \cup v[op.in.Bias]
<1> DEFINE read == [slot \in {"X", "Y", "Input", "Bias"} |-> IF slot \in DOMAIN op.in THEN v[op.in[slot]] ELSE {}]
           alpha == IF op.type = "conv2d" THEN alphas[op.in.Filter] ELSE <<>>
<1>1. Result(op, v, alphas) = Activated(op.act, Terms(op, read, alpha))
  BY DEF Result
<1>2. read.X = v[op.in.X] /\ read.Bias = v[op.in.Bias]
  OBVIOUS
<1> HIDE DEF read, alpha
<1>3. Terms(op, read, alpha) =
        {[t EXCEPT !.by = Append(@, op.in.Scale)] : t \in read.X}
          \cup {Term(<<op.in.Scale>>, <<"mean", op.in.Scale>>)} \cup read.Bias
  BY DEF Terms
<1> QED
  BY <1>1, <1>2, <1>3 DEF Activated

LEMMA MulResult ==
  ASSUME NEW op, NEW v, NEW alphas, op.type = "mul", op.act = "none", DOMAIN op.in = {"X", "Y"}
  PROVE  Result(op, v, alphas) = {Term(<<>>, <<"mul", op.in.Y, v[op.in.X]>>)}
<1> DEFINE read == [slot \in {"X", "Y", "Input", "Bias"} |-> IF slot \in DOMAIN op.in THEN v[op.in[slot]] ELSE {}]
           alpha == IF op.type = "conv2d" THEN alphas[op.in.Filter] ELSE <<>>
<1>1. Result(op, v, alphas) = Activated(op.act, Terms(op, read, alpha))
  BY DEF Result
<1>2. read.X = v[op.in.X]
  OBVIOUS
<1> HIDE DEF read, alpha
<1>3. Terms(op, read, alpha) = {Term(<<>>, <<"mul", op.in.Y, read.X>>)}
  BY DEF Terms
<1> QED
  BY <1>1, <1>2, <1>3 DEF Activated

LEMMA FcResult ==
  ASSUME NEW op, NEW v, NEW alphas, op.type = "fc", op.act = "none", DOMAIN op.in = {"Input", "W", "Bias"}
  PROVE  Result(op, v, alphas) = {Term(<<>>, <<"mul", op.in.W, v[op.in.Input]>>)} \cup v[op.in.Bias]
<1> DEFINE read == [slot \in {"X", "Y", "Input", "Bias"} |-> IF slot \in DOMAIN op.in THEN v[op.in[slot]] ELSE {}]
           alpha == IF op.type = "conv2d" THEN alphas[op.in.Filter] ELSE <<>>
<1>1. Result(op, v, alphas) = Activated(op.act, Terms(op, read, alpha))
  BY DEF Result
<1>2. read.Input = v[op.in.Input] /\ read.Bias = v[op.in.Bias]
  OBVIOUS
<1> HIDE DEF read, alpha
<1>3. Terms(op, read, alpha) = {Term(<<>>, <<"mul", op.in.W, read.Input>>)} \cup read.Bias
  BY DEF Terms
<1> QED
  BY <1>1, <1>2, <1>3 DEF Activated

LEMMA ActResult ==
  ASSUME NEW op, NEW v, NEW alphas, op.type \in {"relu", "leaky_relu"}, op.act = "none", DOMAIN op.in = {"X"}
  PROVE  Result(op, v, alphas) = Activated(op.type, v[op.in.X])
<1> DEFINE read == [slot \in {"X", "Y", "Input", "Bias"} |-> IF slot \in DOMAIN op.in THEN v[op.in[slot]] ELSE {}]
           alpha == IF op.type = "conv2d" THEN alphas[op.in.Filter] ELSE <<>>
<1>1. Result(op, v, alphas) = Activated(op.act, Terms(op, read, alpha))
  BY DEF Result
<1>2. read.X = v[op.in.X]
  OBVIOUS
<1> HIDE DEF read, alpha
<1>3. Terms(op, read, alpha) = Activated(op.type, read.X)
  BY DEF Terms
<1>4. \A terms : Activated("none", terms) = terms
  BY DEF Activated
<1> QED
  BY <1>1, <1>2, <1>3, <1>4

LEMMA SumResult ==
  ASSUME NEW op, NEW v, NEW alphas, DOMAIN op.in = {"X", "Y"},
         op.type \in {"elementwise_add", "fusion_elementwise_add_activation"}
  PROVE  Result(op, v, alphas) = Activated(op.act, v[op.in.X] \cup v[op.in.Y])
<1> DEFINE read == [slot \in {"X", "Y", "Input", "Bias"} |-> IF slot \in DOMAIN op.in THEN v[op.in[slot]] ELSE {}]
           alpha == IF op.type = "conv2d" THEN alphas[op.in.Filter] ELSE <<>>
<1>1. Result(op, v, alphas) = Activated(op.act, Terms(op, read, alpha))
  BY DEF Result
<1>2. read.X = v[op.in.X] /\ read.Y = v[op.in.Y]
  OBVIOUS
<1> HIDE DEF read, alpha
<1>3. Terms(op, read, alpha) = read.X \cup read.Y
  BY DEF Terms
<1> QED
  BY <1>1, <1>2, <1>3

LEMMA ScaleResult ==
  ASSUME NEW op, NEW v, NEW alphas, op.type = "scale", op.act = "none", DOMAIN op.in = {"X"}
  PROVE  Result(op, v, alphas) = v[op.in.X]
<1> DEFINE read == [slot \in {"X", "Y", "Input", "Bias"} |-> IF slot \in DOMAIN op.in THEN v[op.in[slot]] ELSE {}]
           alpha == IF op.type = "conv2d" THEN alphas[op.in.Filter] ELSE <<>>
<1>1. Result(op, v, alphas) = Activated(op.act, Terms(op, read, alpha))
  BY DEF Result
<1>2. read.X = v[op.in.X] /\ read.Y = {}
  OBVIOUS
<1> HIDE DEF read, alpha
<1>3. Terms(op, read, alpha) = read.X \cup read.Y
  BY DEF Terms
<1> QED
  BY <1>1, <1>2, <1>3 DEF Activated

-----------------------------------------------------------------------------
(* What a fuser may rely on, by its position.                              *)

\* The activation a convolution may have when the fuser at position f runs.
ActKnown(f, op) ==
  \/ op.act = "none" \/ f >= 8
  \/ f \in 5..7 /\ op.act = "relu" /\ (f = 5 => "Bias" \in DOMAIN op.in)
  \/ f = 7 /\ "Bias" \in DOMAIN op.in

\* A leaky_relu reads nothing that is a relu, or has become one.
NoReluBelow(d) ==
  \A s, t \in DOMAIN d : d[t].type = "leaky_relu" /\ Reads(d, t, s) => d[s].type # "relu" /\ d[s].act # "relu"

Unbiased(d) == \A s \in DOMAIN d : d[s].type = "conv2d" => "Bias" \notin DOMAIN d[s].in

\* A batch norm reads no convolution that has a bias.
NormsUnbiased(d) ==
  \A s, t \in DOMAIN d :
    d[s].type = "conv2d" /\ d[t].type = "batch_norm" /\ Reads(d, t, s) => "Bias" \notin DOMAIN d[s].in

Phase(f, d, weights) ==
  /\ \A s \in DOMAIN d : d[s].act # "none" => d[s].type \in {"conv2d", "fusion_elementwise_add_activation"}
  /\ \A s \in DOMAIN d : d[s].type = "conv2d" => ActKnown(f, d[s])
  /\ f <= 7 => NoReluBelow(d)
  /\ f <= 2 => OneReader(d) /\ NormsUnbiased(d)
  /\ f = 1 => Unbiased(d) /\ NoBiasBefore(d, weights)

LEMMA NewAct ==
  ASSUME NEW f \in (1..10) \ {9}, NEW d, NEW weights, WellMade(d, weights), NEW g, Fits(f, d, weights, g)
  PROVE  LET new == NewOp(f, d, g) IN
           /\ f \in {1, 3} => new.act = d[At(g, "conv2d")].act
           /\ f \in {2, 8} => new.act = "none"
           /\ f \in 4..7 => new.act = ActOf(f)
           /\ f = 10 => new.act = "relu"
<1> DEFINE c == At(g, "conv2d")
<1>1. CASE f \in {1, 3}
  <2>1. c \in DOMAIN d
    BY <1>1 DEF Fits, FitsBias, Ops
  <2>2. DOMAIN d[c] = {"type", "in", "out", "act"}
    BY <2>1 DEF WellMade, IsMade
  <2>3. NewOp(f, d, g) = [d[c] EXCEPT !.in = Assign(@, "Bias", Named(g, "bias")), !.out = Named(g, "output")]
    BY <1>1 DEF NewOp
  <2>4. PICK op : op = d[c]
    OBVIOUS
  <2>5. PICK in : in = Assign(op.in, "Bias", Named(g, "bias"))
    OBVIOUS
  <2> HIDE DEF c
  <2>6. NewOp(f, d, g) = [op EXCEPT !.in = in, !.out = Named(g, "output")]
    BY <2>3, <2>4, <2>5
  <2>7. PICK new : new = NewOp(f, d, g)
    OBVIOUS
  <2>8. new.act = op.act
    BY <2>2, <2>4, <2>6, <2>7
  <2> QED
    BY <1>1, <2>4, <2>7, <2>8 DEF c
<1>2. CASE f \in {2, 8}
  BY <1>2 DEF NewOp, OpDesc
<1>3. CASE f \in 4..7
  <2>1. c \in DOMAIN d
    BY <1>3 DEF Fits, FitsAct, Ops
  <2>2. DOMAIN d[c] = {"type", "in", "out", "act"}
    BY <2>1 DEF WellMade, IsMade
  <2>3. NewOp(f, d, g) = [d[c] EXCEPT !.out = Named(g, "output"), !.act = ActOf(f)]
    BY <1>3 DEF NewOp
  <2>4. PICK op : op = d[c]
    OBVIOUS
  <2>5. PICK new : new = NewOp(f, d, g)
    OBVIOUS
  <2> HIDE DEF c
  <2>6. new.act = ActOf(f)
    BY <2>2, <2>3, <2>4, <2>5
  <2> QED
    BY <1>3, <2>5, <2>6
<1>4. CASE f = 10
  BY <1>4 DEF NewOp, OpDesc
<1> QED
  BY <1>1, <1>2, <1>3, <1>4

-----------------------------------------------------------------------------
(* The operator a match becomes computes what the match computed.          *)

LEMMA BiasMeans ==
  ASSUME NEW d, NEW weights, WellMade(d, weights), NEW f \in {1, 3}, Phase(f, d, weights),
         NEW g, FitsBias(d, weights, g), NEW v, NEW alphas, NEW betas, Values(v, d, alphas, betas),
         NEW new, new = NewOp(f, d, g)
  PROVE  Result(new, v, alphas) = v[new.out]
<1> DEFINE c == At(g, "conv2d")
           a == At(g, "add")
           x == Named(g, "conv2d_out")
<1>1. /\ c \in DOMAIN d /\ a \in DOMAIN d
      /\ d[c].type = "conv2d" /\ DOMAIN d[c].in = {"Input", "Filter"}
      /\ d[c].in["Input"] = Named(g, "input") /\ d[c].in["Filter"] = Named(g, "filter")
      /\ d[c].out = x /\ d[a].type = "elementwise_add" /\ d[a].in["X"] = x
      /\ d[a].in["Y"] = Named(g, "bias") /\ d[a].out = Named(g, "output")
  BY DEF FitsBias, Ops, Feeds
<1>2. DOMAIN d[a].in = {"X", "Y"}
  BY <1>1, SlotFacts DEF WellMade
<1>3. Fits(f, d, weights, g) /\ f \in (1..10) \ {9}
  BY DEF Fits
<1>4. /\ DOMAIN new.in = {"Input", "Filter", "Bias"} /\ new.in["Input"] = Named(g, "input")
      /\ new.in["Filter"] = Named(g, "filter") /\ new.in["Bias"] = Named(g, "bias")
      /\ new.out = Named(g, "output") /\ new.type = "conv2d"
  BY <1>3, NewSlots
<1>5. new.act = d[c].act
  BY <1>3, NewAct
<1>6. d[c].act = "none" /\ d[a].act = "none"
  BY <1>1 DEF Phase, ActKnown
<1>7. \A s \in DOMAIN d : v[d[s].out] = Result(d[s], v, alphas)
  BY DEF Values
<1> HIDE DEF c, a, x
<1>8. PICK p : p = {Term(alphas[Named(g, "filter")], <<"conv", Named(g, "filter"), v[Named(g, "input")]>>)}
  OBVIOUS
<1>9. \A terms : Activated("none", terms) = terms
  BY DEF Activated
<1>10. v[x] = p
  <2>1. v[x] = Result(d[c], v, alphas)
    BY <1>1, <1>7
  <2>2. Result(d[c], v, alphas) = Activated("none", p \cup {})
    BY <1>1, <1>6, <1>8, ConvResult
  <2> QED
    BY <1>9, <2>1, <2>2
<1>11. v[d[a].out] = v[x] \cup v[Named(g, "bias")]
  <2>1. Result(d[a], v, alphas) = Activated("none", v[x] \cup v[Named(g, "bias")])
    BY <1>1, <1>2, <1>6, SumResult
  <2> QED
    BY <1>1, <1>7, <1>9, <2>1
<1>12. Result(new, v, alphas) = p \cup v[Named(g, "bias")]
  <2>1. Result(new, v, alphas) = Activated("none", p \cup v[Named(g, "bias")])
    BY <1>4, <1>5, <1>6, <1>8, ConvResult
  <2> QED
    BY <1>9, <2>1
<1> QED
  BY <1>1, <1>4, <1>10, <1>11, <1>12

LEMMA ActMeans ==
  ASSUME NEW d, NEW weights, WellMade(d, weights), NEW f \in 4..7, Phase(f, d, weights),
         NEW g, FitsAct(d, f, g), NEW v, NEW alphas, NEW betas, Values(v, d, alphas, betas),
         NEW new, new = NewOp(f, d, g)
  PROVE  Result(new, v, alphas) = v[new.out]
<1> DEFINE c == At(g, "conv2d")
           a == At(g, "act")
           x == Named(g, "conv2d_out")
<1>1. /\ c \in DOMAIN d /\ a \in DOMAIN d
      /\ d[c].type = "conv2d" /\ DOMAIN d[c].in = {"Input", "Filter"} \cup IF f \in {4, 6} THEN {"Bias"} ELSE {}
      /\ d[c].out = x /\ Follows(d, a, c) /\ d[a].type = ActOf(f) /\ d[a].in["X"] = x
      /\ d[a].out = Named(g, "output")
  BY DEF FitsAct, Ops, Feeds
<1>2. ActOf(f) \in {"relu", "leaky_relu"} /\ (f \in {6, 7} => ActOf(f) = "leaky_relu")
  BY DEF ActOf
<1>3. DOMAIN d[a].in = {"X"}
  BY <1>1, <1>2, SlotFacts DEF WellMade
<1>4. Fits(f, d, weights, g) /\ f \in (1..10) \ {9}
  BY DEF Fits
<1>5. PICK op : op = d[c]
  OBVIOUS
<1>6. new.in = op.in /\ new.out = Named(g, "output") /\ new.type = "conv2d" /\ new.act = ActOf(f)
  <2>1. DOMAIN op = {"type", "in", "out", "act"}
    BY <1>1, <1>5 DEF WellMade, IsMade
  <2>2. new = [op EXCEPT !.out = Named(g, "output"), !.act = ActOf(f)]
    BY <1>5 DEF NewOp
  <2> QED
    BY <1>1, <1>5, <2>1, <2>2
<1>7. op.act = "none"
  <2>1. ActKnown(f, op)
    BY <1>1, <1>5 DEF Phase
  <2>2. f \in {6, 7} => op.act # "relu"
    <3>1. Reads(d, a, c)
      BY <1>1 DEF Follows
    <3>2. NoReluBelow(d)
      BY DEF Phase
    <3> QED
      BY <1>1, <1>2, <1>5, <3>1, <3>2 DEF NoReluBelow
  <2>3. f \in {5, 7} => "Bias" \notin DOMAIN op.in
    BY <1>1, <1>5
  <2> QED
    BY <2>1, <2>2, <2>3 DEF ActKnown
<1>8. d[a].act = "none"
  BY <1>1, <1>2 DEF Phase
<1>9. \A s \in DOMAIN d : v[d[s].out] = Result(d[s], v, alphas)
  BY DEF Values
<1> HIDE DEF c, a, x
<1>10. PICK p : p = {Term(alphas[op.in.Filter], <<"conv", op.in.Filter, v[op.in.Input]>>)}
                     \cup IF "Bias" \in DOMAIN op.in THEN v[op.in.Bias] ELSE {}
  OBVIOUS
<1>11. op.type = "conv2d" /\ {"Input", "Filter"} \subseteq DOMAIN op.in
  BY <1>1, <1>5
<1>12. v[x] = p
  <2>1. Result(op, v, alphas) = Activated("none", p)
    BY <1>7, <1>10, <1>11, ConvResult
  <2> QED
    BY <1>1, <1>5, <1>9, <2>1 DEF Activated
<1>13. v[d[a].out] = Activated(ActOf(f), v[x])
  <2>1. Result(d[a], v, alphas) = Activated(ActOf(f), v[x])
    BY <1>1, <1>2, <1>3, <1>8, ActResult
  <2> QED
    BY <1>1, <1>9, <2>1
<1>14. Result(new, v, alphas) = Activated(ActOf(f), p)
  BY <1>6, <1>10, <1>11, ConvResult
<1> QED
  BY <1>1, <1>6, <1>12, <1>13, <1>14

LEMMA FcMeans ==
  ASSUME NEW d, NEW weights, WellMade(d, weights), Phase(8, d, weights),
         NEW g, FitsFc(d, weights, g), NEW v, NEW alphas, NEW betas, Values(v, d, alphas, betas),
         NEW new, new = NewOp(8, d, g)
  PROVE  Result(new, v, alphas) = v[new.out]
<1> DEFINE m == At(g, "mul")
           a == At(g, "add")
           x == Named(g, "mul_out")
           b == Named(g, "b")
<1>1. /\ m \in DOMAIN d /\ a \in DOMAIN d
      /\ d[m].type = "mul" /\ d[m].in["X"] = Named(g, "x") /\ d[m].in["Y"] = Named(g, "W") /\ d[m].out = x
      /\ d[a].type = "elementwise_add" /\ {d[a].in["X"], d[a].in["Y"]} = {b, x} /\ d[a].out = Named(g, "Out")
  BY DEF FitsFc, Ops, Feeds
<1>2. DOMAIN d[m].in = {"X", "Y"} /\ DOMAIN d[a].in = {"X", "Y"}
  BY <1>1, SlotFacts DEF WellMade
<1>3. Fits(8, d, weights, g) /\ 8 \in (1..10) \ {9}
  BY DEF Fits
<1>4. /\ DOMAIN new.in = {"Input", "W", "Bias"} /\ new.in["Input"] = Named(g, "x")
      /\ new.in["W"] = Named(g, "W") /\ new.in["Bias"] = b
      /\ new.out = Named(g, "Out") /\ new.type = "fc"
  BY <1>3, NewSlots
<1>5. new.act = "none"
  BY <1>3, NewAct
<1>6. d[m].act = "none" /\ d[a].act = "none"
  BY <1>1 DEF Phase
<1>7. \A s \in DOMAIN d : v[d[s].out] = Result(d[s], v, alphas)
  BY DEF Values
<1> HIDE DEF m, a, x, b
<1>8. PICK p : p = {Term(<<>>, <<"mul", Named(g, "W"), v[Named(g, "x")]>>)}
  OBVIOUS
<1>9. v[x] = p
  BY <1>1, <1>2, <1>6, <1>7, <1>8, MulResult
<1>10. v[d[a].out] = v[x] \cup v[b]
  <2>1. PICK op : op = d[a]
    OBVIOUS
  <2>2. op.type = "elementwise_add" /\ DOMAIN op.in = {"X", "Y"} /\ op.act = "none"
    BY <1>1, <1>2, <1>6, <2>1
  <2>3. Result(op, v, alphas) = Activated(op.act, v[op.in.X] \cup v[op.in.Y])
    BY <2>2, SumResult
  <2>4. v[op.in.X] \cup v[op.in.Y] = v[x] \cup v[b]
    BY <1>1, <2>1
  <2>5. Result(op, v, alphas) = v[x] \cup v[b]
    BY <2>2, <2>3, <2>4 DEF Activated
  <2> QED
    BY <1>1, <1>7, <2>1, <2>5
<1>11. Result(new, v, alphas) = p \cup v[b]
  BY <1>4, <1>5, <1>8, FcResult
<1> QED
  BY <1>1, <1>4, <1>9, <1>10, <1>11

LEMMA SumMeans ==
  ASSUME NEW d, NEW weights, WellMade(d, weights), Phase(10, d, weights),
         NEW g, FitsSum(d, g), NEW v, NEW alphas, NEW betas, Values(v, d, alphas, betas),
         NEW new, new = NewOp(10, d, g)
  PROVE  Result(new, v, alphas) = v[new.out]
<1> DEFINE s == At(g, "add")
           a == At(g, "act")
           x == Named(g, "add_out")
<1>1. /\ s \in DOMAIN d /\ a \in DOMAIN d
      /\ d[s].type = "elementwise_add" /\ {d[s].in["X"], d[s].in["Y"]} = {Named(g, "x"), Named(g, "y")}
      /\ d[s].out = x /\ d[a].type = "relu" /\ d[a].in["X"] = x /\ d[a].out = Named(g, "output")
  BY DEF FitsSum, Ops, Feeds
<1>2. DOMAIN d[s].in = {"X", "Y"} /\ DOMAIN d[a].in = {"X"}
  BY <1>1, SlotFacts DEF WellMade
<1>3. Fits(10, d, weights, g) /\ 10 \in (1..10) \ {9}
  BY DEF Fits
<1>4. /\ DOMAIN new.in = {"X", "Y"} /\ new.in["X"] = Named(g, "x") /\ new.in["Y"] = Named(g, "y")
      /\ new.out = Named(g, "output") /\ new.type = "fusion_elementwise_add_activation"
  BY <1>3, NewSlots
<1>5. new.act = "relu"
  BY <1>3, NewAct
<1>6. d[s].act = "none" /\ d[a].act = "none"
  BY <1>1 DEF Phase
<1>7. \A t \in DOMAIN d : v[d[t].out] = Result(d[t], v, alphas)
  BY DEF Values
<1> HIDE DEF s, a, x
<1>8. PICK p : p = v[Named(g, "x")] \cup v[Named(g, "y")]
  OBVIOUS
<1>9. v[x] = p
  <2>1. Result(d[s], v, alphas) = Activated("none", v[d[s].in.X] \cup v[d[s].in.Y])
    BY <1>1, <1>2, <1>6, SumResult
  <2>2. v[d[s].in.X] \cup v[d[s].in.Y] = p
    BY <1>1, <1>8
  <2> QED
    BY <1>1, <1>7, <2>1, <2>2 DEF Activated
<1>10. v[d[a].out] = Activated("relu", v[x])
  BY <1>1, <1>2, <1>6, <1>7, ActResult
<1>11. Result(new, v, alphas) = Activated("relu", p)
  BY <1>4, <1>5, <1>8, SumResult
<1> QED
  BY <1>1, <1>4, <1>9, <1>10, <1>11

LEMMA FitsMeans ==
  ASSUME NEW d, NEW weights, WellMade(d, weights), NEW f \in (1..10) \ {2, 9}, Phase(f, d, weights),
         NEW g, Fits(f, d, weights, g), NEW v, NEW alphas, NEW betas, Values(v, d, alphas, betas)
  PROVE  Result(NewOp(f, d, g), v, alphas) = v[NewOp(f, d, g).out]
<1>1. CASE f \in {1, 3}
  BY <1>1, BiasMeans DEF Fits
<1>2. CASE f \in 4..7
  BY <1>2, ActMeans DEF Fits
<1>3. CASE f = 8
  BY <1>3, FcMeans DEF Fits
<1>4. CASE f = 10
  BY <1>4, SumMeans DEF Fits
<1> QED
  BY <1>1, <1>2, <1>3, <1>4

-----------------------------------------------------------------------------
(* Merging and dropping keep the values.                                   *)

\* The variables that are left were there, and what wrote one still does.
LEMMA MergedNames ==
  ASSUME NEW d, NEW weights, NEW b, NEW n, NEW rm, NEW hid, NEW new,
         Merger(d, weights, b, n, rm, hid, new), NEW x \in NamesIn(Merged(d, b, n, rm, new))
  PROVE  /\ x \in NamesIn(d) /\ \A k \in 1..n : x \notin hid[k]
         /\ WritersIn(Merged(d, b, n, rm, new), x) = {} => WritersIn(d, x) = {}
<1>1. PICK M : M = Merged(d, b, n, rm, new)
  OBVIOUS
<1>2. PICK s \in DOMAIN M : x = M[s].out \/ x \in NamesRead(M[s])
  BY <1>1, NamesInFacts
<1>3. \A k \in 1..n : x \notin hid[k]
  BY <1>1, <1>2, MergedKeeps
<1>4. x \in NamesIn(d)
  <2>1. PICK t : /\ Place(d, b, rm, s, t) /\ M[s].out = d[t].out
                 /\ \A y \in NamesRead(M[s]) :
                      y \in NamesRead(d[t])
                        \/ \E u : Place(d, b, rm, s, u) /\ y \in NamesRead(d[u]) /\ Reads(d, t, u)
    BY <1>1, <1>2, MergedPlaces
  <2>2. \E u \in DOMAIN d : x = d[u].out \/ x \in NamesRead(d[u])
    BY <1>2, <2>1 DEF Place
  <2> QED
    BY <2>2, NamesInFacts
<1>5. ASSUME NEW t \in DOMAIN d, d[t].out = x
      PROVE  \E u \in DOMAIN M : M[u].out = x
  <2>0. /\ b \in Nat /\ n \in Nat /\ DOMAIN d \subseteq 1..b
        /\ \A k \in 1..n : Merging(d, weights, rm[k], hid[k], new[k])
    BY DEF Merger
  <2>1. CASE \A k \in 1..n : t \notin rm[k]
    <3>1. t \in DOMAIN M /\ M[t] = d[t]
      BY <1>1, <2>1 DEF Merged
    <3> QED
      BY <1>5, <3>1
  <2>2. CASE \E k \in 1..n : t \in rm[k]
    <3>1. PICK k \in 1..n : t \in rm[k]
      BY <2>2
    <3>2. d[t].out \in {new[k].out} \cup hid[k]
      BY <2>0, <3>1 DEF Merging
    <3>3. new[k].out = x
      BY <1>3, <1>5, <3>2
    <3>4. b + k \in (b + 1)..(b + n) /\ b + k \notin DOMAIN d /\ (b + k) - b = k
      BY <2>0
    <3>5. b + k \in DOMAIN M /\ M[b + k] = new[k]
      BY <1>1, <3>4 DEF Merged
    <3> QED
      BY <3>3, <3>5
  <2> QED
    BY <2>1, <2>2
<1>6. WritersIn(M, x) = {} => WritersIn(d, x) = {}
  BY <1>5, NamesInFacts
<1> QED
  BY <1>1, <1>3, <1>4, <1>6

LEMMA MergedValues ==
  ASSUME NEW d, NEW weights, NEW b, NEW n, NEW rm, NEW hid, NEW new,
         Merger(d, weights, b, n, rm, hid, new),
         NEW v, NEW alphas, NEW betas, Values(v, d, alphas, betas),
         \A k \in 1..n : Result(new[k], v, alphas) = v[new[k].out]
  PROVE  Values(v, Merged(d, b, n, rm, new), alphas, betas)
<1>1. PICK M : M = Merged(d, b, n, rm, new)
  OBVIOUS
<1>2. ASSUME NEW s \in DOMAIN M PROVE v[M[s].out] = Result(M[s], v, alphas)
  <2>1. CASE s \in DOMAIN d /\ M[s] = d[s]
    BY <2>1 DEF Values
  <2>2. CASE s - b \in 1..n /\ M[s] = new[s - b]
    BY <2>2
  <2> QED
    BY <1>1, <2>1, <2>2, MergedCases
<1>3. ASSUME NEW x \in NamesIn(M), WritersIn(M, x) = {} PROVE v[x] = Given(x, betas)
  BY <1>1, <1>3, MergedNames DEF Values
<1>4. Values(v, M, alphas, betas)
  BY <1>2, <1>3 DEF Values
<1> QED
  BY <1>1, <1>4

LEMMA DroppedValues ==
  ASSUME NEW d, NEW weights, NEW n, NEW m, Dropper(d, weights, n, m), Phase(9, d, weights),
         NEW v, NEW alphas, NEW betas, Values(v, d, alphas, betas)
  PROVE  Values(v, Dropped(d, n, m), alphas, betas)
<1>1. PICK M : M = Dropped(d, n, m)
  OBVIOUS
<1>2. \A s \in DOMAIN d : v[d[s].out] = Result(d[s], v, alphas)
  BY DEF Values
<1>3. ASSUME NEW k \in 1..n PROVE v[Named(m[k], "out")] = v[Named(m[k], "x")]
  <2>1. PICK s : s = At(m[k], "scale")
    OBVIOUS
  <2>2. /\ s \in DOMAIN d /\ d[s].type = "scale" /\ d[s].in["X"] = Named(m[k], "x") /\ d[s].out = Named(m[k], "out")
        /\ WellMade(d, weights)
    BY <2>1 DEF Dropper, FitsIdentity, Ops
  <2>3. d[s].act = "none" /\ DOMAIN d[s].in = {"X"}
    BY <2>2, SlotFacts DEF Phase, WellMade
  <2> QED
    BY <1>2, <2>2, <2>3, ScaleResult
<1>4. ASSUME NEW s \in DOMAIN M PROVE v[M[s].out] = Result(M[s], v, alphas)
  <2>1. /\ s \in DOMAIN d
        /\ \/ M[s] = d[s]
           \/ \E k \in 1..n : s = At(m[k], "preop")
    BY <1>1, DroppedCases
  <2>2. CASE M[s] = d[s]
    BY <1>2, <2>1, <2>2
  <2>3. CASE \E k \in 1..n : s = At(m[k], "preop")
    <3>1. PICK k \in 1..n : s = At(m[k], "preop")
      BY <2>3
    <3>2. PICK op : op = d[s]
      OBVIOUS
    <3>3. PICK out : out = Named(m[k], "out")
      OBVIOUS
    <3>4. M[s] = [op EXCEPT !.out = out]
      BY <1>1, <3>1, <3>2, <3>3, DroppedAt
    <3>5. DOMAIN op = {"type", "in", "out", "act"}
      BY <2>1, <3>2 DEF Dropper, WellMade, IsMade
    <3>6. PICK new : new = M[s]
      OBVIOUS
    <3>7. new.type = op.type /\ new.in = op.in /\ new.act = op.act /\ new.out = out
      BY <3>4, <3>5, <3>6
    <3>8. Result(new, v, alphas) = Result(op, v, alphas)
      BY <3>7 DEF Result, Terms
    <3>9. op.out = Named(m[k], "x")
      BY <3>1, <3>2, DropperFacts
    <3> QED
      BY <1>2, <1>3, <2>1, <3>2, <3>3, <3>6, <3>7, <3>8, <3>9
  <2> QED
    BY <2>1, <2>2, <2>3
<1>5. ASSUME NEW x \in NamesIn(M), WritersIn(M, x) = {}, NEW t \in DOMAIN d, d[t].out = x PROVE FALSE
  <2>1. PICK s \in DOMAIN M : x = M[s].out \/ x \in NamesRead(M[s])
    BY NamesInFacts
  <2>2. \A u \in DOMAIN M : M[u].out # x
    BY <1>5, NamesInFacts
  <2>3. x \in NamesRead(M[s])
    BY <2>1, <2>2
  <2>4. x \in NamesRead(d[s]) /\ s \in DOMAIN d /\ \A k \in 1..n : s # At(m[k], "scale")
    BY <1>1, <2>3, DroppedCases DEF NamesRead
  <2>5. CASE \E k \in 1..n : t = At(m[k], "scale")
    <3>1. PICK k \in 1..n : t = At(m[k], "scale")
      BY <2>5
    <3>2. PICK p : p = At(m[k], "preop")
      OBVIOUS
    <3>a. /\ At(m[k], "preop") \in DOMAIN d /\ d[At(m[k], "scale")].out = Named(m[k], "out")
          /\ \A l \in 1..n : At(m[k], "preop") # At(m[l], "scale")
      BY DropperFacts
    <3>3. /\ p \in DOMAIN d /\ d[t].out = Named(m[k], "out")
          /\ \A l \in 1..n : p # At(m[l], "scale")
      BY <3>1, <3>2, <3>a
    <3>4. p \in DOMAIN M
      BY <1>1, <3>3 DEF Dropped
    <3>5. M[p] = [d[p] EXCEPT !.out = Named(m[k], "out")]
      BY <1>1, <3>2, <3>4, DroppedAt
    <3>6. DOMAIN d[p] = {"type", "in", "out", "act"}
      BY <3>3 DEF Dropper, WellMade, IsMade
    <3>7. PICK op : op = d[p]
      OBVIOUS
    <3>8. PICK new : new = M[p]
      OBVIOUS
    <3>9. new.out = x
      BY <1>5, <3>3, <3>5, <3>6, <3>7, <3>8
    <3> QED
      BY <2>2, <3>4, <3>8, <3>9
  <2>6. CASE ~ \E k \in 1..n : t = At(m[k], "scale")
    <3>1. t \in DOMAIN M
      BY <1>1, <2>6 DEF Dropped
    <3>2. PICK k \in 1..n : t = At(m[k], "preop")
      BY <1>1, <1>5, <2>2, <3>1, DroppedCases
    <3>3. x = Named(m[k], "x") /\ Follows(d, At(m[k], "scale"), t)
      BY <1>5, <3>2, DropperFacts
    <3> QED
      BY <1>5, <2>4, <3>3 DEF Follows, Reads
  <2> QED
    BY <2>5, <2>6
<1>6. ASSUME NEW x \in NamesIn(M), WritersIn(M, x) = {} PROVE v[x] = Given(x, betas)
  <2>1. WritersIn(d, x) = {}
    BY <1>5, <1>6, NamesInFacts
  <2>2. x \in NamesIn(d)
    <3>1. PICK s \in DOMAIN M : x = M[s].out \/ x \in NamesRead(M[s])
      BY NamesInFacts
    <3>2. x # M[s].out
      BY <1>6, NamesInFacts
    <3>3. x \in NamesRead(d[s]) /\ s \in DOMAIN d
      BY <1>1, <3>1, <3>2, DroppedCases DEF NamesRead
    <3> QED
      BY <3>3, NamesInFacts
  <2> QED
    BY <2>1, <2>2 DEF Values
<1>7. Values(v, M, alphas, betas)
  BY <1>4, <1>6 DEF Values
<1> QED
  BY <1>1, <1>7

-----------------------------------------------------------------------------
(* ConvBNFuser: the filter and the bias take over what the batch norm did. *)

\* The weights after n matches: what one is scaled by is noted at the weight of
\* the role, the other weights are as they were.
Scaling(after, before, weights, n, m, r) ==
  /\ after \in [weights -> Seq(weights)] /\ before \in [weights -> Seq(weights)]
  /\ \A k \in 1..n : after[Named(m[k], r)] = Append(before[Named(m[k], r)], Named(m[k], "bn_scale"))
  /\ \A x \in weights : (\A k \in 1..n : Named(m[k], r) # x) => after[x] = before[x]

Normer(d, weights, n, m) ==
  /\ WellMade(d, weights) /\ Phase(2, d, weights) /\ n \in Nat
  /\ \A k \in 1..n : FitsNorm(d, weights, m[k])
  /\ \A k, l \in 1..n : k # l => At(m[k], "bn") # At(m[l], "bn")

\* The convolution c and the batch norm t of a match.
Normed(d, weights, g, c, t) ==
  /\ c = At(g, "conv2d") /\ t = At(g, "bn") /\ c \in DOMAIN d /\ t \in DOMAIN d
  /\ d[c].type = "conv2d" /\ d[c].act = "none" /\ DOMAIN d[c].in = {"Input", "Filter"}
  /\ d[c].in["Filter"] = Named(g, "conv_weight") /\ Named(g, "conv_weight") \in weights
  /\ d[c].out = Named(g, "conv_out") /\ Follows(d, t, c)
  /\ d[t].type = "batch_norm" /\ d[t].act = "none" /\ DOMAIN d[t].in = {"X", "Scale", "Bias"}
  /\ d[t].in["X"] = Named(g, "conv_out") /\ d[t].in["Scale"] = Named(g, "bn_scale")
  /\ d[t].in["Bias"] = Named(g, "bn_bias") /\ Named(g, "bn_scale") \in weights /\ Named(g, "bn_bias") \in weights
  /\ d[t].out = Named(g, "bn_out")

LEMMA NormerHas ==
  ASSUME NEW d, NEW weights, NEW n, NEW m, Normer(d, weights, n, m), NEW k \in 1..n
  PROVE  \E c, t : Normed(d, weights, m[k], c, t)
<1>1. PICK g : g = m[k]
  OBVIOUS
<1>2. PICK c, t : c = At(g, "conv2d") /\ t = At(g, "bn")
  OBVIOUS
<1>3. FitsNorm(d, weights, g) /\ WellMade(d, weights) /\ Phase(2, d, weights)
  BY <1>1 DEF Normer
<1>4. /\ c \in DOMAIN d /\ t \in DOMAIN d /\ d[c].type = "conv2d"
      /\ d[c].in["Filter"] = Named(g, "conv_weight") /\ d[c].out = Named(g, "conv_out")
      /\ d[t].type = "batch_norm" /\ d[t].in["X"] = Named(g, "conv_out") /\ d[t].in["Scale"] = Named(g, "bn_scale")
      /\ d[t].in["Bias"] = Named(g, "bn_bias") /\ d[t].out = Named(g, "bn_out")
  BY <1>2, <1>3 DEF FitsNorm, Ops
<1>5. d[c].act = "none" /\ d[t].act = "none"
  BY <1>3, <1>4 DEF Phase, ActKnown
<1>6. DOMAIN d[t].in = {"X", "Scale", "Bias"}
  BY <1>3, <1>4, SlotFacts DEF WellMade
<1>7. Reads(d, t, c)
  BY <1>4, <1>6, SlotRead DEF Reads
<1>8. Follows(d, t, c) /\ "Bias" \notin DOMAIN d[c].in
  BY <1>3, <1>4, <1>7 DEF Phase, OneReader, NormsUnbiased
<1>9. DOMAIN d[c].in = {"Input", "Filter"}
  BY <1>3, <1>4, <1>8, SlotFacts DEF WellMade
<1>10. Named(g, "conv_weight") \in weights /\ Named(g, "bn_scale") \in weights /\ Named(g, "bn_bias") \in weights
  <2>1. d[c].in["Filter"] \in weights
    BY <1>3, <1>4, <1>9, InWeightSlot
  <2>2. d[t].in["Scale"] \in weights /\ d[t].in["Bias"] \in weights
    BY <1>3, <1>4, <1>6, InWeightSlot
  <2> QED
    BY <1>4, <2>1, <2>2
<1> QED
  BY <1>1, <1>2, <1>4, <1>5, <1>6, <1>8, <1>9, <1>10 DEF Normed

\* Only the batch norm reads the output of its convolution, and its bias; no other
\* convolution reads the filter.
LEMMA NormedOwns ==
  ASSUME NEW d, NEW weights, WellMade(d, weights), NEW g, NEW c, NEW t, Normed(d, weights, g, c, t),
         NEW s \in DOMAIN d
  PROVE  /\ Named(g, "conv_out") \in NamesRead(d[s]) => s = t
         /\ Named(g, "bn_bias") \in NamesRead(d[s]) => s = t
         /\ Named(g, "conv_weight") \in NamesRead(d[s]) => s = c
         /\ d[s].out = Named(g, "conv_out") => s = c
         /\ d[s].out # Named(g, "bn_bias") /\ d[s].out # Named(g, "conv_weight")
<1>1. Named(g, "conv_out") \in NamesRead(d[s]) => s = t
  BY DEF Normed, Follows, Reads
<1>2. ASSUME Named(g, "bn_bias") \in NamesRead(d[s]) PROVE s = t
  <2>1. PICK j \in DOMAIN d[s].in : d[s].in[j] = Named(g, "bn_bias")
    BY <1>2, ReadSlots
  <2>2. t \in DOMAIN d /\ "Bias" \in DOMAIN d[t].in /\ d[t].in["Bias"] = Named(g, "bn_bias") /\ Named(g, "bn_bias") \in weights
    BY DEF Normed
  <2> QED
    BY <2>1, <2>2, WeightRead
<1>3. ASSUME Named(g, "conv_weight") \in NamesRead(d[s]) PROVE s = c
  <2>1. PICK j \in DOMAIN d[s].in : d[s].in[j] = Named(g, "conv_weight")
    BY <1>3, ReadSlots
  <2>2. c \in DOMAIN d /\ "Filter" \in DOMAIN d[c].in /\ d[c].in["Filter"] = Named(g, "conv_weight")
        /\ Named(g, "conv_weight") \in weights
    BY DEF Normed
  <2> QED
    BY <2>1, <2>2, WeightRead
<1>4. d[s].out = Named(g, "conv_out") => s = c
  BY WeightUnwritten DEF Normed
<1>5. d[s].out # Named(g, "bn_bias") /\ d[s].out # Named(g, "conv_weight")
  BY WeightUnwritten DEF Normed
<1> QED
  BY <1>1, <1>2, <1>3, <1>4, <1>5

LEMMA NormedApart ==
  ASSUME NEW d, NEW weights, NEW n, NEW m, Normer(d, weights, n, m), NEW k \in 1..n, NEW l \in 1..n, k # l
  PROVE  /\ Named(m[k], "conv_weight") # Named(m[l], "conv_weight")
         /\ Named(m[k], "bn_bias") # Named(m[l], "bn_bias")
         /\ Named(m[k], "conv_out") # Named(m[l], "conv_out")
<1>1. PICK c, t : Normed(d, weights, m[k], c, t)
  BY NormerHas
<1>2. PICK e, u : Normed(d, weights, m[l], e, u)
  BY NormerHas
<1>3. t # u /\ WellMade(d, weights)
  BY <1>1, <1>2 DEF Normer, Normed
<1>4. c \in DOMAIN d /\ t \in DOMAIN d /\ e \in DOMAIN d /\ u \in DOMAIN d
  BY <1>1, <1>2 DEF Normed
<1>5. c # e
  <2>1. Follows(d, t, c) /\ Follows(d, u, e)
    BY <1>1, <1>2 DEF Normed
  <2> QED
    BY <1>3, <1>4, <2>1 DEF Follows
<1>6. Named(m[k], "conv_weight") # Named(m[l], "conv_weight")
  <2>1. Named(m[l], "conv_weight") \in NamesRead(d[e])
    BY <1>2, SlotRead DEF Normed
  <2> QED
    BY <1>1, <1>3, <1>4, <1>5, <2>1, NormedOwns
<1>7. Named(m[k], "bn_bias") # Named(m[l], "bn_bias")
  <2>1. Named(m[l], "bn_bias") \in NamesRead(d[u])
    BY <1>2, SlotRead DEF Normed
  <2> QED
    BY <1>1, <1>3, <1>4, <2>1, NormedOwns
<1>8. Named(m[k], "conv_out") # Named(m[l], "conv_out")
  <2>1. d[e].out = Named(m[l], "conv_out")
    BY <1>2 DEF Normed
  <2> QED
    BY <1>1, <1>3, <1>4, <1>5, <2>1, NormedOwns
<1> QED
  BY <1>6, <1>7, <1>8

\* One more beta is added to a bias.
LEMMA GivenAppended ==
  ASSUME NEW S, NEW x, NEW before, NEW after, x \in DOMAIN before, x \in DOMAIN after, before[x] \in Seq(S),
         NEW e \in S, after[x] = Append(before[x], e)
  PROVE  Given(x, after) = Given(x, before) \cup {Term(<<e>>, <<"mean", e>>)}
<1>1. PICK q : q = before[x]
  OBVIOUS
<1>2. q \in Seq(S) /\ after[x] = Append(q, e)
  BY <1>1
<1>3. ToSet(Append(q, e)) = ToSet(q) \cup {e}
  <2>1. PICK r : r = Append(q, e)
    OBVIOUS
  <2>2. Len(q) \in Nat /\ DOMAIN q = 1..Len(q) /\ DOMAIN r = 1..(Len(q) + 1)
    BY <1>2, <2>1
  <2>3. r[Len(q) + 1] = e /\ \A i \in 1..Len(q) : r[i] = q[i]
    BY <1>2, <2>1, AppendFacts
  <2>4. ASSUME NEW y \in ToSet(r) PROVE y \in ToSet(q) \cup {e}
    <3>1. PICK i \in DOMAIN r : r[i] = y
      BY DEF ToSet
    <3>2. i = Len(q) + 1 \/ i \in 1..Len(q)
      BY <2>2
    <3> QED
      BY <2>2, <2>3, <3>1, <3>2 DEF ToSet
  <2>5. ASSUME NEW y \in ToSet(q) \cup {e} PROVE y \in ToSet(r)
    <3>1. Len(q) + 1 \in DOMAIN r /\ \A i \in 1..Len(q) : i \in DOMAIN r
      BY <2>2
    <3>2. CASE y = e
      BY <2>3, <3>1, <3>2 DEF ToSet
    <3>3. CASE y \in ToSet(q)
      BY <2>2, <2>3, <3>1, <3>3 DEF ToSet
    <3> QED
      BY <3>2, <3>3
  <2>6. ToSet(r) = ToSet(q) \cup {e}
    BY <2>4, <2>5
  <2> QED
    BY <2>1, <2>6
<1>4. PICK new : new = ToSet(Append(q, e))
  OBVIOUS
<1>5. PICK old : old = ToSet(q)
  OBVIOUS
<1>6. new = old \cup {e}
  BY <1>3, <1>4, <1>5
<1>7. Given(x, after) = {Term(<<>>, <<"var", x>>)} \cup {Term(<<y>>, <<"mean", y>>) : y \in new}
  BY <1>2, <1>4 DEF Given
<1>8. Given(x, before) = {Term(<<>>, <<"var", x>>)} \cup {Term(<<y>>, <<"mean", y>>) : y \in old}
  BY <1>1, <1>5 DEF Given
<1> QED
  BY <1>6, <1>7, <1>8

\* The values once n batch norms are folded: those of the outputs of their
\* convolutions and of their biases are new.
NormedValue(w, v, d, n, m, after, shift) ==
  /\ \A k \in 1..n : /\ w[Named(m[k], "conv_out")] = Result(d[At(m[k], "conv2d")], v, after)
                     /\ w[Named(m[k], "bn_bias")] = Given(Named(m[k], "bn_bias"), shift)
  /\ \A x \in NamesIn(d) :
       (\A k \in 1..n : x # Named(m[k], "conv_out") /\ x # Named(m[k], "bn_bias")) => w[x] = v[x]

LEMMA NormedValues ==
  ASSUME NEW d, NEW weights, NEW n, NEW m, Normer(d, weights, n, m), NEW v, NEW after, NEW shift
  PROVE  \E w : NormedValue(w, v, d, n, m, after, shift)
<1> DEFINE OutOf(x, k) == x = Named(m[k], "conv_out")
           BiasOf(x, k) == x = Named(m[k], "bn_bias")
           w == [x \in NamesIn(d) |->
                   IF \E k \in 1..n : OutOf(x, k)
                   THEN Result(d[At(m[CHOOSE k \in 1..n : OutOf(x, k)], "conv2d")], v, after)
                   ELSE IF \E k \in 1..n : BiasOf(x, k) THEN Given(x, shift) ELSE v[x]]
<1>1. ASSUME NEW k \in 1..n
      PROVE  /\ Named(m[k], "conv_out") \in NamesIn(d) /\ Named(m[k], "bn_bias") \in NamesIn(d)
             /\ \A l \in 1..n : Named(m[k], "bn_bias") # Named(m[l], "conv_out")
             /\ \A l \in 1..n : OutOf(Named(m[k], "conv_out"), l) <=> l = k
  <2>1. PICK c, t : Normed(d, weights, m[k], c, t)
    BY NormerHas
  <2>2. c \in DOMAIN d /\ d[c].out = Named(m[k], "conv_out") /\ t \in DOMAIN d /\ Named(m[k], "bn_bias") \in NamesRead(d[t])
    BY <2>1, SlotRead DEF Normed
  <2>3. Named(m[k], "conv_out") \in NamesIn(d) /\ Named(m[k], "bn_bias") \in NamesIn(d)
    BY <2>2, NamesInFacts
  <2>4. ASSUME NEW l \in 1..n PROVE Named(m[k], "bn_bias") # Named(m[l], "conv_out")
    <3>1. PICK e, u : Normed(d, weights, m[l], e, u)
      BY NormerHas
    <3>2. e \in DOMAIN d /\ d[e].out = Named(m[l], "conv_out")
      BY <3>1 DEF Normed
    <3> QED
      BY <2>1, <3>2, NormedOwns DEF Normer
  <2>5. \A l \in 1..n : OutOf(Named(m[k], "conv_out"), l) <=> l = k
    BY NormedApart
  <2> QED
    BY <2>3, <2>4, <2>5
<1>2. ASSUME NEW k \in 1..n PROVE w[Named(m[k], "conv_out")] = Result(d[At(m[k], "conv2d")], v, after)
  <2>1. PICK x : x = Named(m[k], "conv_out")
    OBVIOUS
  <2>2. x \in NamesIn(d) /\ \A l \in 1..n : OutOf(x, l) <=> l = k
    BY <1>1, <2>1
  <2>3. PICK j : j = CHOOSE l \in 1..n : OutOf(x, l)
    OBVIOUS
  <2> HIDE DEF OutOf
  <2>4. j = k
    BY <2>2, <2>3
  <2>5. w[x] = Result(d[At(m[j], "conv2d")], v, after)
    BY <2>2, <2>3
  <2> QED
    BY <2>1, <2>4, <2>5
<1>3. ASSUME NEW k \in 1..n PROVE w[Named(m[k], "bn_bias")] = Given(Named(m[k], "bn_bias"), shift)
  <2>1. PICK x : x = Named(m[k], "bn_bias")
    OBVIOUS
  <2>2. x \in NamesIn(d) /\ (\A l \in 1..n : ~OutOf(x, l)) /\ BiasOf(x, k)
    BY <1>1, <2>1
  <2> HIDE DEF OutOf, BiasOf
  <2>3. w[x] = Given(x, shift)
    BY <2>2
  <2> QED
    BY <2>1, <2>3
<1>4. ASSUME NEW x \in NamesIn(d), \A k \in 1..n : x # Named(m[k], "conv_out") /\ x # Named(m[k], "bn_bias")
      PROVE  w[x] = v[x]
  <2>1. \A k \in 1..n : ~OutOf(x, k) /\ ~BiasOf(x, k)
    BY <1>4
  <2> HIDE DEF OutOf, BiasOf
  <2> QED
    BY <2>1
<1> HIDE DEF w
<1>5. NormedValue(w, v, d, n, m, after, shift)
  BY <1>2, <1>3, <1>4 DEF NormedValue
<1> QED
  BY <1>5

\* What is left reads what it read.
LEMMA NormedRead ==
  ASSUME NEW d, NEW weights, NEW n, NEW m, Normer(d, weights, n, m), NEW v, NEW after, NEW shift,
         NEW w, NormedValue(w, v, d, n, m, after, shift),
         NEW s \in DOMAIN d, \A k \in 1..n : s # At(m[k], "bn"), NEW x \in NamesRead(d[s])
  PROVE  w[x] = v[x]
<1>1. x \in NamesIn(d)
  BY NamesInFacts
<1>2. ASSUME NEW k \in 1..n PROVE x # Named(m[k], "conv_out") /\ x # Named(m[k], "bn_bias")
  <2>1. PICK c, t : Normed(d, weights, m[k], c, t)
    BY NormerHas
  <2>2. s # t
    BY <2>1 DEF Normed
  <2> QED
    BY <2>1, <2>2, NormedOwns DEF Normer
<1> QED
  BY <1>1, <1>2 DEF NormedValue

\* What is left computes what it computed, the convolutions with their new filters.
LEMMA NormedOld ==
  ASSUME NEW d, NEW weights, NEW n, NEW m, Normer(d, weights, n, m),
         NEW v, NEW alphas, NEW betas, Values(v, d, alphas, betas),
         NEW after, Scaling(after, alphas, weights, n, m, "conv_weight"), NEW shift,
         NEW w, NormedValue(w, v, d, n, m, after, shift),
         NEW s \in DOMAIN d, \A k \in 1..n : s # At(m[k], "bn")
  PROVE  w[d[s].out] = Result(d[s], w, after)
<1>1. \A x \in NamesRead(d[s]) : w[x] = v[x]
  BY NormedRead
<1>2. Result(d[s], v, after) = Result(d[s], w, after)
  BY <1>1, ResultLocal
<1>3. CASE \E k \in 1..n : s = At(m[k], "conv2d")
  <2>1. PICK k \in 1..n : s = At(m[k], "conv2d")
    BY <1>3
  <2>2. PICK c, t : Normed(d, weights, m[k], c, t)
    BY NormerHas
  <2>3. d[s].out = Named(m[k], "conv_out")
    BY <2>1, <2>2 DEF Normed
  <2>4. w[d[s].out] = Result(d[s], v, after)
    BY <2>1, <2>3 DEF NormedValue
  <2> QED
    BY <1>2, <2>4
<1>4. CASE ~ \E k \in 1..n : s = At(m[k], "conv2d")
  <2>1. ASSUME NEW k \in 1..n
        PROVE  /\ d[s].out # Named(m[k], "conv_out") /\ d[s].out # Named(m[k], "bn_bias")
               /\ Named(m[k], "conv_weight") \notin NamesRead(d[s])
    <3>1. PICK c, t : Normed(d, weights, m[k], c, t)
      BY NormerHas
    <3>2. s # c
      BY <1>4, <3>1 DEF Normed
    <3> QED
      BY <3>1, <3>2, NormedOwns DEF Normer
  <2>2. w[d[s].out] = v[d[s].out]
    <3>1. d[s].out \in NamesIn(d)
      BY NamesInFacts
    <3> QED
      BY <2>1, <3>1 DEF NormedValue
  <2>3. v[d[s].out] = Result(d[s], v, alphas)
    BY DEF Values
  <2>4. Result(d[s], v, alphas) = Result(d[s], v, after)
    <3>1. ASSUME d[s].type = "conv2d" PROVE alphas[d[s].in.Filter] = after[d[s].in.Filter]
      <4>1. "Filter" \in DOMAIN d[s].in
        BY <3>1, SlotFacts DEF Normer, WellMade
      <4>2. d[s].in["Filter"] \in weights
        BY <3>1, <4>1, InWeightSlot DEF Normer
      <4>3. d[s].in["Filter"] \in NamesRead(d[s])
        BY <4>1, SlotRead
      <4> QED
        BY <2>1, <4>2, <4>3 DEF Scaling
    <3> QED
      BY <3>1, ResultLocal
  <2> QED
    BY <1>2, <2>2, <2>3, <2>4
<1> QED
  BY <1>3, <1>4

\* The sum a batch norm becomes is what the batch norm was.
LEMMA NormMeans ==
  ASSUME NEW d, NEW weights, NEW n, NEW m, Normer(d, weights, n, m),
         NEW v, NEW alphas, NEW betas, Values(v, d, alphas, betas),
         NEW after, Scaling(after, alphas, weights, n, m, "conv_weight"),
         NEW shift, Scaling(shift, betas, weights, n, m, "bn_bias"),
         NEW w, NormedValue(w, v, d, n, m, after, shift), NEW k \in 1..n,
         NEW new, new = NewOp(2, d, m[k])
  PROVE  Result(new, w, after) = w[new.out]
<1>1. PICK g : g = m[k]
  OBVIOUS
<1>2. PICK c, t : Normed(d, weights, g, c, t)
  BY <1>1, NormerHas
<1>3. PICK o : o = Named(g, "conv_out")
  OBVIOUS
<1>4. PICK bias : bias = Named(g, "bn_bias")
  OBVIOUS
<1>5. PICK e : e = Named(g, "bn_scale")
  OBVIOUS
<1>6. PICK filter : filter = Named(g, "conv_weight")
  OBVIOUS
<1>7. new = OpDesc("elementwise_add", [X |-> o, Y |-> bias], Named(g, "bn_out"), "none")
  BY <1>1, <1>3, <1>4 DEF NewOp
<1>8. /\ new.type = "elementwise_add" /\ DOMAIN new.in = {"X", "Y"} /\ new.in["X"] = o /\ new.in["Y"] = bias
      /\ new.out = Named(g, "bn_out") /\ new.act = "none"
  BY <1>7 DEF OpDesc
<1>9. Result(new, w, after) = w[o] \cup w[bias]
  BY <1>8, SumResult DEF Activated
<1>10. PICK what : what = <<"conv", filter, v[d[c].in["Input"]]>>
  OBVIOUS
<1>11. /\ Result(d[c], v, alphas) = {Term(alphas[filter], what)}
       /\ Result(d[c], v, after) = {Term(after[filter], what)}
  <2>1. \A al : Result(d[c], v, al) = Activated("none", {Term(al[filter], what)} \cup {})
    BY <1>2, <1>6, <1>10, ConvResult DEF Normed
  <2> QED
    BY <2>1 DEF Activated
<1>12. w[o] = {Term(after[filter], what)}
  BY <1>1, <1>2, <1>3, <1>11 DEF NormedValue, Normed
<1>13. v[o] = {Term(alphas[filter], what)}
  BY <1>2, <1>3, <1>11 DEF Normed, Values
<1>14. after[filter] = Append(alphas[filter], e)
  BY <1>1, <1>5, <1>6 DEF Scaling
<1>15. w[bias] = v[bias] \cup {Term(<<e>>, <<"mean", e>>)}
  <2>1. w[bias] = Given(bias, shift)
    BY <1>1, <1>4 DEF NormedValue
  <2>2. v[bias] = Given(bias, betas)
    <3>1. bias \in NamesIn(d) /\ WritersIn(d, bias) = {}
      <4>1. bias \in NamesRead(d[t]) /\ t \in DOMAIN d
        BY <1>2, <1>4, SlotRead DEF Normed
      <4>2. \A s \in DOMAIN d : d[s].out # bias
        BY <1>2, <1>4, NormedOwns DEF Normer
      <4> QED
        BY <4>1, <4>2, NamesInFacts
    <3> QED
      BY <3>1 DEF Values
  <2>3. bias \in weights /\ e \in weights
    BY <1>2, <1>4, <1>5 DEF Normed
  <2>4. shift[bias] = Append(betas[bias], e)
    BY <1>1, <1>4, <1>5 DEF Scaling
  <2>5. bias \in DOMAIN betas /\ bias \in DOMAIN shift /\ betas[bias] \in Seq(weights)
    BY <2>3 DEF Scaling
  <2>6. Given(bias, shift) = Given(bias, betas) \cup {Term(<<e>>, <<"mean", e>>)}
    BY <2>3, <2>4, <2>5, GivenAppended
  <2> QED
    BY <2>1, <2>2, <2>6
<1>16. v[d[t].out] = {Term(after[filter], what)} \cup {Term(<<e>>, <<"mean", e>>)} \cup v[bias]
  <2>1. v[d[t].out] = Result(d[t], v, alphas)
    BY <1>2 DEF Normed, Values
  <2>2. Result(d[t], v, alphas) =
          {[r EXCEPT !.by = Append(@, e)] : r \in v[o]} \cup {Term(<<e>>, <<"mean", e>>)} \cup v[bias]
    <3>1. PICK op : op = d[t]
      OBVIOUS
    <3>2. /\ op.type = "batch_norm" /\ op.act = "none" /\ DOMAIN op.in = {"X", "Scale", "Bias"}
          /\ op.in.X = o /\ op.in.Scale = e /\ op.in.Bias = bias
      BY <1>2, <1>3, <1>4, <1>5, <3>1 DEF Normed
    <3>3. Result(op, v, alphas) =
            {[r EXCEPT !.by = Append(@, op.in.Scale)] : r \in v[op.in.X]}
              \cup {Term(<<op.in.Scale>>, <<"mean", op.in.Scale>>)} \cup v[op.in.Bias]
      BY <3>2, NormResult
    <3> QED
      BY <3>1, <3>2, <3>3
  <2>3. PICK a : a = alphas[filter]
    OBVIOUS
  <2>4. PICK r : r = Term(a, what)
    OBVIOUS
  <2>5. [r EXCEPT !.by = Append(@, e)] = Term(Append(a, e), what)
    BY <2>4 DEF Term
  <2>6. v[o] = {r}
    BY <1>13, <2>3, <2>4
  <2>7. {[q EXCEPT !.by = Append(@, e)] : q \in v[o]} = {[r EXCEPT !.by = Append(@, e)]}
    BY <2>6
  <2>8. {[q EXCEPT !.by = Append(@, e)] : q \in v[o]} = {Term(after[filter], what)}
    BY <1>14, <2>3, <2>5, <2>7
  <2> QED
    BY <2>1, <2>2, <2>8
<1>17. w[new.out] = v[d[t].out]
  <2>1. new.out = d[t].out /\ t \in DOMAIN d
    BY <1>2, <1>8 DEF Normed
  <2>2. ASSUME NEW l \in 1..n PROVE d[t].out # Named(m[l], "conv_out") /\ d[t].out # Named(m[l], "bn_bias")
    <3>1. PICK p, q : Normed(d, weights, m[l], p, q)
      BY NormerHas
    <3>2. t # p
      BY <1>2, <3>1 DEF Normed
    <3> QED
      BY <2>1, <3>1, <3>2, NormedOwns DEF Normer
  <2>3. d[t].out \in NamesIn(d)
    BY <2>1, NamesInFacts
  <2> QED
    BY <2>1, <2>2, <2>3 DEF NormedValue
<1> QED
  BY <1>9, <1>12, <1>15, <1>16, <1>17

LEMMA NormMergedValues ==
  ASSUME NEW d, NEW weights, NEW b, NEW n, NEW rm, NEW hid, NEW new, NEW m,
         Merger(d, weights, b, n, rm, hid, new), Normer(d, weights, n, m),
         \A k \in 1..n : rm[k] = {At(m[k], "bn")} /\ new[k] = NewOp(2, d, m[k]),
         NEW v, NEW alphas, NEW betas, Values(v, d, alphas, betas),
         NEW after, Scaling(after, alphas, weights, n, m, "conv_weight"),
         NEW shift, Scaling(shift, betas, weights, n, m, "bn_bias"),
         NEW w, NormedValue(w, v, d, n, m, after, shift)
  PROVE  Values(w, Merged(d, b, n, rm, new), after, shift)
<1>1. PICK M : M = Merged(d, b, n, rm, new)
  OBVIOUS
<1>2. ASSUME NEW s \in DOMAIN M PROVE w[M[s].out] = Result(M[s], w, after)
  <2>1. CASE s \in DOMAIN d /\ M[s] = d[s] /\ \A k \in 1..n : s \notin rm[k]
    <3>1. \A k \in 1..n : s # At(m[k], "bn")
      BY <2>1
    <3> QED
      BY <2>1, <3>1, NormedOld
  <2>2. CASE s - b \in 1..n /\ M[s] = new[s - b]
    <3>1. PICK k \in 1..n : k = s - b
      BY <2>2
    <3>2. M[s] = NewOp(2, d, m[k])
      BY <2>2, <3>1
    <3> QED
      BY <3>2, NormMeans
  <2> QED
    BY <1>1, <2>1, <2>2, MergedCases
<1>3. ASSUME NEW x \in NamesIn(M), WritersIn(M, x) = {} PROVE w[x] = Given(x, shift)
  <2>1. x \in NamesIn(d) /\ WritersIn(d, x) = {}
    BY <1>1, <1>3, MergedNames
  <2>2. CASE \E k \in 1..n : x = Named(m[k], "bn_bias")
    BY <2>2 DEF NormedValue
  <2>3. CASE \A k \in 1..n : x # Named(m[k], "bn_bias")
    <3>1. ASSUME NEW k \in 1..n PROVE x # Named(m[k], "conv_out")
      <4>1. PICK c, t : Normed(d, weights, m[k], c, t)
        BY NormerHas
      <4>2. c \in DOMAIN d /\ d[c].out = Named(m[k], "conv_out")
        BY <4>1 DEF Normed
      <4> QED
        BY <2>1, <4>2, NamesInFacts
    <3>2. w[x] = Given(x, betas)
      BY <2>1, <2>3, <3>1 DEF NormedValue, Values
    <3>3. Given(x, betas) = Given(x, shift)
      <4>1. DOMAIN betas = weights /\ DOMAIN shift = weights /\ (x \in weights => shift[x] = betas[x])
        BY <2>3 DEF Scaling
      <4>2. CASE x \in weights
        BY <4>1, <4>2 DEF Given
      <4>3. CASE x \notin weights
        BY <4>1, <4>3 DEF Given
      <4> QED
        BY <4>2, <4>3
    <3> QED
      BY <3>2, <3>3
  <2> QED
    BY <2>2, <2>3
<1>4. Values(w, M, after, shift)
  BY <1>2, <1>3 DEF Values
<1> QED
  BY <1>1, <1>4

-----------------------------------------------------------------------------
(* What a fuser relied on, the next one may rely on.                       *)

\* The matches of the fuser at position f, and what they become.
Merges(f, d, weights, b, n, m, rm, hid, new) ==
  /\ f \in (1..10) \ {9} /\ Merger(d, weights, b, n, rm, hid, new)
  /\ \A k \in 1..n : /\ Fits(f, d, weights, m[k]) /\ rm[k] = Removed(f, m[k]) /\ hid[k] = Hidden(f, m[k])
                     /\ new[k] = NewOp(f, d, m[k])

\* The last operator of a match, whose output the new one has.
LastOp(f, g) == At(g, IF f \in {1, 3, 8} THEN "add" ELSE IF f = 2 THEN "bn" ELSE "act")

LastType(f) ==
  IF f \in {1, 3, 8} THEN "elementwise_add" ELSE IF f = 2 THEN "batch_norm"
  ELSE IF f \in 4..7 THEN ActOf(f) ELSE "relu"

NewType(f) ==
  IF f \in {1, 3} \cup 4..7 THEN "conv2d" ELSE IF f = 2 THEN "elementwise_add"
  ELSE IF f = 8 THEN "fc" ELSE "fusion_elementwise_add_activation"

LEMMA NewFrom ==
  ASSUME NEW f \in (1..10) \ {9}, NEW d, NEW weights, WellMade(d, weights), NEW g, Fits(f, d, weights, g)
  PROVE  /\ LastOp(f, g) \in Removed(f, g) /\ LastOp(f, g) \in DOMAIN d /\ d[LastOp(f, g)].type = LastType(f)
         /\ NewOp(f, d, g).out = d[LastOp(f, g)].out /\ NewOp(f, d, g).type = NewType(f)
         /\ \A s \in Removed(f, g) : s \in DOMAIN d /\ d[s].type # "fetch"
<1>1. CASE f \in {1, 3}
  <2>1. FitsBias(d, weights, g)
    BY <1>1 DEF Fits
  <2>2. /\ At(g, "add") \in DOMAIN d /\ d[At(g, "add")].type = "elementwise_add" /\ d[At(g, "add")].out = Named(g, "output")
        /\ At(g, "conv2d") \in DOMAIN d /\ d[At(g, "conv2d")].type = "conv2d"
    BY <2>1 DEF FitsBias, Ops
  <2>3. NewOp(f, d, g).out = Named(g, "output") /\ NewOp(f, d, g).type = "conv2d"
    BY <1>1, NewSlots
  <2> QED
    BY <1>1, <2>2, <2>3 DEF LastOp, LastType, NewType, Removed
<1>2. CASE f = 2
  <2>1. FitsNorm(d, weights, g)
    BY <1>2 DEF Fits
  <2>2. At(g, "bn") \in DOMAIN d /\ d[At(g, "bn")].type = "batch_norm" /\ d[At(g, "bn")].out = Named(g, "bn_out")
    BY <2>1 DEF FitsNorm, Ops
  <2>3. NewOp(f, d, g).out = Named(g, "bn_out") /\ NewOp(f, d, g).type = "elementwise_add"
    BY <1>2, NewSlots
  <2> QED
    BY <1>2, <2>2, <2>3 DEF LastOp, LastType, NewType, Removed
<1>3. CASE f \in 4..7
  <2>1. FitsAct(d, f, g)
    BY <1>3 DEF Fits
  <2>2. /\ At(g, "act") \in DOMAIN d /\ d[At(g, "act")].type = ActOf(f) /\ d[At(g, "act")].out = Named(g, "output")
        /\ At(g, "conv2d") \in DOMAIN d /\ d[At(g, "conv2d")].type = "conv2d"
    BY <2>1 DEF FitsAct, Ops
  <2>3. NewOp(f, d, g).out = Named(g, "output") /\ NewOp(f, d, g).type = "conv2d"
    BY <1>3, NewSlots
  <2>4. ActOf(f) # "fetch"
    BY DEF ActOf
  <2>5. f \notin {1, 3} /\ f # 2 /\ f \notin {1, 3, 8}
    BY <1>3
  <2>6. LastOp(f, g) = At(g, "act") /\ LastType(f) = ActOf(f) /\ NewType(f) = "conv2d"
    BY <1>3, <2>5 DEF LastOp, LastType, NewType
  <2>7. Removed(f, g) = {At(g, "conv2d"), At(g, "act")}
    BY <1>3, <2>5 DEF Removed
  <2> QED
    BY <2>2, <2>3, <2>4, <2>6, <2>7
<1>4. CASE f = 8
  <2>1. FitsFc(d, weights, g)
    BY <1>4 DEF Fits
  <2>2. /\ At(g, "add") \in DOMAIN d /\ d[At(g, "add")].type = "elementwise_add" /\ d[At(g, "add")].out = Named(g, "Out")
        /\ At(g, "mul") \in DOMAIN d /\ d[At(g, "mul")].type = "mul"
    BY <2>1 DEF FitsFc, Ops
  <2>3. NewOp(f, d, g).out = Named(g, "Out") /\ NewOp(f, d, g).type = "fc"
    BY <1>4, NewSlots
  <2> QED
    BY <1>4, <2>2, <2>3 DEF LastOp, LastType, NewType, Removed
<1>5. CASE f = 10
  <2>1. FitsSum(d, g)
    BY <1>5 DEF Fits
  <2>2. /\ At(g, "act") \in DOMAIN d /\ d[At(g, "act")].type = "relu" /\ d[At(g, "act")].out = Named(g, "output")
        /\ At(g, "add") \in DOMAIN d /\ d[At(g, "add")].type = "elementwise_add"
    BY <2>1 DEF FitsSum, Ops
  <2>3. NewOp(f, d, g).out = Named(g, "output") /\ NewOp(f, d, g).type = "fusion_elementwise_add_activation"
    BY <1>5, NewSlots
  <2> QED
    BY <1>5, <2>2, <2>3 DEF LastOp, LastType, NewType, Removed
<1> QED
  BY <1>1, <1>2, <1>3, <1>4, <1>5

\* A statement after the merge is one of before, or takes the place of a match.
LEMMA MergesCases ==
  ASSUME NEW f, NEW d, NEW weights, NEW b, NEW n, NEW m, NEW rm, NEW hid, NEW new,
         Merges(f, d, weights, b, n, m, rm, hid, new),
         NEW s \in DOMAIN Merged(d, b, n, rm, new)
  PROVE  \/ /\ s \in DOMAIN d /\ Merged(d, b, n, rm, new)[s] = d[s]
            /\ \A k \in 1..n : s \notin Removed(f, m[k])
         \/ /\ s \notin DOMAIN d
            /\ \E k \in 1..n : /\ Merged(d, b, n, rm, new)[s] = NewOp(f, d, m[k]) /\ Fits(f, d, weights, m[k])
                               /\ Merging(d, weights, Removed(f, m[k]), Hidden(f, m[k]), NewOp(f, d, m[k]))
<1>1. PICK op : op = Merged(d, b, n, rm, new)[s]
  OBVIOUS
<1>2. Merger(d, weights, b, n, rm, hid, new)
  BY DEF Merges
<1>3. \/ s \in DOMAIN d /\ op = d[s] /\ \A k \in 1..n : s \notin rm[k]
      \/ s \notin DOMAIN d /\ s - b \in 1..n /\ op = new[s - b]
           /\ Merging(d, weights, rm[s - b], hid[s - b], new[s - b])
  BY <1>1, <1>2, MergedCases
<1>4. CASE s \in DOMAIN d /\ op = d[s] /\ \A k \in 1..n : s \notin rm[k]
  BY <1>1, <1>4 DEF Merges
<1>5. CASE s \notin DOMAIN d /\ s - b \in 1..n /\ op = new[s - b]
             /\ Merging(d, weights, rm[s - b], hid[s - b], new[s - b])
  <2>1. PICK k \in 1..n : k = s - b
    BY <1>5
  <2>2. rm[k] = Removed(f, m[k]) /\ hid[k] = Hidden(f, m[k]) /\ new[k] = NewOp(f, d, m[k]) /\ Fits(f, d, weights, m[k])
    BY DEF Merges
  <2>3. op = NewOp(f, d, m[k]) /\ Merging(d, weights, Removed(f, m[k]), Hidden(f, m[k]), NewOp(f, d, m[k]))
    BY <1>5, <2>1, <2>2
  <2> QED
    BY <1>1, <1>5, <2>2, <2>3
<1> QED
  BY <1>3, <1>4, <1>5

LEMMA PhaseActs ==
  ASSUME NEW f, NEW d, NEW weights, NEW b, NEW n, NEW m, NEW rm, NEW hid, NEW new,
         Merges(f, d, weights, b, n, m, rm, hid, new), Phase(f, d, weights),
         NEW s \in DOMAIN Merged(d, b, n, rm, new), NEW op, op = Merged(d, b, n, rm, new)[s]
  PROVE  /\ op.act # "none" => op.type \in {"conv2d", "fusion_elementwise_add_activation"}
         /\ op.type = "conv2d" => ActKnown(f + 1, op)
<1>1. f \in (1..10) \ {9} /\ WellMade(d, weights)
  BY DEF Merges, Merger
<1>2. CASE s \in DOMAIN d /\ op = d[s]
  <2>1. op.type = "conv2d" => ActKnown(f, op)
    BY <1>2 DEF Phase
  <2>2. op.act # "none" => op.type \in {"conv2d", "fusion_elementwise_add_activation"}
    BY <1>2 DEF Phase
  <2>3. ActKnown(f, op) => ActKnown(f + 1, op)
    BY <1>1 DEF ActKnown
  <2> QED
    BY <2>1, <2>2, <2>3
<1>3. ASSUME NEW k \in 1..n, op = NewOp(f, d, m[k]), Fits(f, d, weights, m[k])
      PROVE  /\ op.act # "none" => op.type \in {"conv2d", "fusion_elementwise_add_activation"}
             /\ op.type = "conv2d" => ActKnown(f + 1, op)
  <2>1. PICK g : g = m[k]
    OBVIOUS
  <2>2. op.type = NewType(f)
    BY <1>1, <1>3, NewFrom
  <2>3. CASE f \in {1, 3}
    <3>1. At(g, "conv2d") \in DOMAIN d /\ d[At(g, "conv2d")].type = "conv2d"
      BY <1>3, <2>1, <2>3 DEF Fits, FitsBias, Ops
    <3>2. d[At(g, "conv2d")].act = "none"
      BY <2>3, <3>1 DEF Phase, ActKnown
    <3>3. op.act = d[At(g, "conv2d")].act
      BY <1>1, <1>3, <2>1, <2>3, NewAct
    <3> QED
      BY <2>3, <3>2, <3>3 DEF ActKnown
  <2>4. CASE f \in {2, 8}
    <3>1. op.act = "none"
      BY <1>1, <1>3, <2>4, NewAct
    <3> QED
      BY <3>1 DEF ActKnown
  <2>5. CASE f \in 4..7
    <3>1. op.act = ActOf(f) /\ op.type = "conv2d"
      BY <1>1, <1>3, <2>2, <2>5, NewAct DEF NewType
    <3>2. DOMAIN op.in = {"Input", "Filter"} \cup IF f \in {4, 6} THEN {"Bias"} ELSE {}
      BY <1>1, <1>3, <2>5, NewSlots
    <3>3. f \in {4, 6} => "Bias" \in DOMAIN op.in
      BY <3>2
    <3>4. f \in {4, 5} => op.act = "relu"
      BY <3>1 DEF ActOf
    <3> QED
      BY <2>5, <3>1, <3>3, <3>4 DEF ActKnown
  <2>6. CASE f = 10
    BY <2>2, <2>6 DEF NewType
  <2> QED
    BY <1>1, <2>3, <2>4, <2>5, <2>6
<1> QED
  BY <1>2, <1>3, MergesCases

LEMMA PhaseRelu ==
  ASSUME NEW f \in 1..6, NEW d, NEW weights, NEW b, NEW n, NEW m, NEW rm, NEW hid, NEW new,
         Merges(f, d, weights, b, n, m, rm, hid, new), Phase(f, d, weights),
         NEW M, M = Merged(d, b, n, rm, new)
  PROVE  NoReluBelow(M)
<1>1. f \in (1..10) \ {9} /\ WellMade(d, weights) /\ NoReluBelow(d)
  BY DEF Merges, Merger, Phase
<1> SUFFICES ASSUME NEW s \in DOMAIN M, NEW t \in DOMAIN M, M[t].type = "leaky_relu", Reads(M, t, s)
             PROVE  M[s].type # "relu" /\ M[s].act # "relu"
  BY DEF NoReluBelow
<1>2. t \in DOMAIN d /\ M[t] = d[t]
  <2>1. ASSUME NEW k \in 1..n, M[t] = NewOp(f, d, m[k]), Fits(f, d, weights, m[k]) PROVE FALSE
    BY <1>1, <2>1, NewFrom DEF NewType
  <2> QED
    BY <2>1, MergesCases
<1>3. CASE s \in DOMAIN d /\ M[s] = d[s]
  BY <1>1, <1>2, <1>3 DEF NoReluBelow, Reads
<1>4. ASSUME NEW k \in 1..n, M[s] = NewOp(f, d, m[k]), Fits(f, d, weights, m[k])
      PROVE  M[s].type # "relu" /\ M[s].act # "relu"
  <2>1. PICK u : u = LastOp(f, m[k])
    OBVIOUS
  <2>2. u \in DOMAIN d /\ d[u].type = LastType(f) /\ M[s].out = d[u].out /\ M[s].type = NewType(f)
    BY <1>1, <1>4, <2>1, NewFrom
  <2>3. d[u].type # "relu"
    BY <1>1, <1>2, <2>2 DEF NoReluBelow, Reads
  <2>4. M[s].type # "relu"
    BY <2>2 DEF NewType
  <2>5. CASE f \in {1, 3}
    <3>1. At(m[k], "conv2d") \in DOMAIN d /\ d[At(m[k], "conv2d")].type = "conv2d"
      BY <1>4, <2>5 DEF Fits, FitsBias, Ops
    <3>2. d[At(m[k], "conv2d")].act = "none"
      BY <2>5, <3>1 DEF Phase, ActKnown
    <3>3. M[s].act = d[At(m[k], "conv2d")].act
      BY <1>1, <1>4, <2>5, NewAct
    <3> QED
      BY <2>4, <3>2, <3>3
  <2>6. CASE f = 2
    BY <1>1, <1>4, <2>4, <2>6, NewAct
  <2>7. CASE f \in 4..6
    <3>1. M[s].act = ActOf(f)
      BY <1>1, <1>4, <2>7, NewAct
    <3>2. LastType(f) = ActOf(f)
      BY <2>7 DEF LastType
    <3> QED
      BY <2>2, <2>3, <2>4, <3>1, <3>2
  <2> QED
    BY <2>5, <2>6, <2>7
<1> QED
  BY <1>3, <1>4, MergesCases

\* ConvElementwiseFuser gives a bias to no convolution that a batch norm reads.
LEMMA PhaseNorms ==
  ASSUME NEW d, NEW weights, NEW b, NEW n, NEW m, NEW rm, NEW hid, NEW new,
         Merges(1, d, weights, b, n, m, rm, hid, new), Phase(1, d, weights),
         NEW M, M = Merged(d, b, n, rm, new)
  PROVE  OneReader(M) /\ NormsUnbiased(M)
<1>1. WellMade(d, weights) /\ OneReader(d) /\ Unbiased(d) /\ NoBiasBefore(d, weights)
  BY DEF Merges, Merger, Phase
<1>2. ASSUME NEW t \in DOMAIN M, M[t].type = "batch_norm"
      PROVE  t \in DOMAIN d /\ M[t] = d[t] /\ \A k \in 1..n : t \notin Removed(1, m[k])
  <2>1. ASSUME NEW k \in 1..n, M[t] = NewOp(1, d, m[k]), Fits(1, d, weights, m[k]) PROVE FALSE
    BY <1>1, <1>2, <2>1, NewFrom DEF NewType
  <2> QED
    BY <2>1, MergesCases
<1>3. ASSUME NEW s \in DOMAIN M, NEW t \in DOMAIN M, M[t].type = "batch_norm", Reads(M, t, s)
      PROVE  s \in DOMAIN d /\ M[s] = d[s]
  <2>1. t \in DOMAIN d /\ M[t] = d[t]
    BY <1>2, <1>3
  <2>2. ASSUME NEW k \in 1..n, M[s] = NewOp(1, d, m[k]), Fits(1, d, weights, m[k]) PROVE FALSE
    <3>1. PICK a : a = At(m[k], "add")
      OBVIOUS
    <3>2. PICK c : c = At(m[k], "conv2d")
      OBVIOUS
    <3>3. /\ a \in DOMAIN d /\ c \in DOMAIN d /\ d[c].type = "conv2d" /\ d[a].type = "elementwise_add"
          /\ Follows(d, a, c) /\ d[a].in.X = d[c].out /\ d[a].in.Y \in weights
      BY <2>2, <3>1, <3>2 DEF Fits, FitsBias, Ops, Feeds
    <3>4. M[s].out = d[a].out
      <4>1. NewOp(1, d, m[k]).out = d[LastOp(1, m[k])].out
        BY <1>1, <2>2, NewFrom
      <4> QED
        BY <2>2, <3>1, <4>1 DEF LastOp
    <3>5. Reads(d, t, a)
      BY <1>3, <2>1, <3>4 DEF Reads
    <3> QED
      BY <1>1, <1>3, <2>1, <3>3, <3>5 DEF NoBiasBefore
  <2> QED
    BY <2>2, MergesCases
<1>4. NormsUnbiased(M)
  BY <1>1, <1>3 DEF NormsUnbiased, Unbiased
<1>5. ASSUME NEW s \in DOMAIN M, NEW t \in DOMAIN M, M[s].type = "conv2d", M[t].type = "batch_norm", Reads(M, t, s),
             NEW u \in DOMAIN M
      PROVE  Reads(M, u, s) <=> u = t
  <2>1. s \in DOMAIN d /\ M[s] = d[s] /\ t \in DOMAIN d /\ M[t] = d[t] /\ \A k \in 1..n : t \notin Removed(1, m[k])
    BY <1>2, <1>3, <1>5
  <2>2. Follows(d, t, s)
    BY <1>1, <1>5, <2>1 DEF OneReader, Reads
  <2>3. ASSUME u \notin DOMAIN d, Reads(M, u, s),
               NEW k \in 1..n, M[u] = NewOp(1, d, m[k]),
               Merging(d, weights, Removed(1, m[k]), Hidden(1, m[k]), NewOp(1, d, m[k]))
        PROVE  FALSE
    <3>1. d[s].out \in NamesRead(NewOp(1, d, m[k]))
      BY <2>1, <2>3 DEF Reads
    <3>2. \E r \in Removed(1, m[k]) : r \in DOMAIN d /\ d[s].out \in NamesRead(d[r])
      BY <2>3, <3>1 DEF Merging
    <3> QED
      BY <2>1, <2>2, <3>2 DEF Follows, Reads
  <2>4. CASE u \in DOMAIN d /\ M[u] = d[u]
    BY <2>1, <2>2, <2>4 DEF Follows, Reads
  <2> QED
    BY <1>5, <2>1, <2>3, <2>4, MergesCases
<1>6. OneReader(M)
  BY <1>5 DEF OneReader, Follows
<1> QED
  BY <1>4, <1>6

LEMMA MergedPhase ==
  ASSUME NEW f, NEW d, NEW weights, NEW b, NEW n, NEW m, NEW rm, NEW hid, NEW new,
         Merges(f, d, weights, b, n, m, rm, hid, new), Phase(f, d, weights)
  PROVE  Phase(f + 1, Merged(d, b, n, rm, new), weights)
<1>1. PICK M : M = Merged(d, b, n, rm, new)
  OBVIOUS
<1>2. f \in (1..10) \ {9}
  BY DEF Merges
<1>3. /\ \A s \in DOMAIN M : M[s].act # "none" => M[s].type \in {"conv2d", "fusion_elementwise_add_activation"}
      /\ \A s \in DOMAIN M : M[s].type = "conv2d" => ActKnown(f + 1, M[s])
  BY <1>1, PhaseActs
<1>4. f + 1 <= 7 => NoReluBelow(M)
  <2>1. f + 1 <= 7 => f \in 1..6
    BY <1>2
  <2> QED
    BY <1>1, <2>1, PhaseRelu
<1>5. f + 1 <= 2 => OneReader(M) /\ NormsUnbiased(M)
  <2>1. f + 1 <= 2 => f = 1
    BY <1>2
  <2> QED
    BY <1>1, <2>1, PhaseNorms
<1>6. f + 1 # 1
  BY <1>2
<1>7. Phase(f + 1, M, weights)
  BY <1>3, <1>4, <1>5, <1>6 DEF Phase
<1> QED
  BY <1>1, <1>7

LEMMA DroppedPhase ==
  ASSUME NEW d, NEW weights, NEW n, NEW m, Dropper(d, weights, n, m), Phase(9, d, weights)
  PROVE  Phase(10, Dropped(d, n, m), weights)
<1>1. PICK M : M = Dropped(d, n, m)
  OBVIOUS
<1>2. ASSUME NEW s \in DOMAIN M PROVE s \in DOMAIN d /\ M[s].type = d[s].type /\ M[s].act = d[s].act
  BY <1>1, DroppedCases
<1>3. \A s \in DOMAIN M : M[s].act # "none" => M[s].type \in {"conv2d", "fusion_elementwise_add_activation"}
  BY <1>2 DEF Phase
<1>4. \A s \in DOMAIN M : ActKnown(10, M[s])
  BY DEF ActKnown
<1>5. Phase(10, M, weights)
  BY <1>3, <1>4 DEF Phase
<1> QED
  BY <1>1, <1>5

LEMMA ProgramPhase ==
  ASSUME NEW p \in Programs, Fusable(p)
  PROVE  Phase(1, p.desc, p.weights)
<1>1. PICK d : d = p.desc
  OBVIOUS
<1>2. \A s \in DOMAIN d : IsUnfused(d[s])
  BY <1>1, ProgramDesc
<1>3. \A s \in DOMAIN d : d[s].act = "none"
  BY <1>2 DEF IsUnfused
<1>4. Unbiased(d)
  <2>1. \A s \in DOMAIN d : d[s].type = "conv2d" => DOMAIN d[s].in = {"Input", "Filter"}
    BY <1>2 DEF IsUnfused, Slots
  <2> QED
    BY <2>1 DEF Unbiased
<1>5. NormsUnbiased(d)
  BY <1>4 DEF NormsUnbiased, Unbiased
<1>6. OneReader(d) /\ NoBiasBefore(d, p.weights) /\ OneActivation(d)
  BY <1>1 DEF Fusable
<1>7. NoReluBelow(d)
  BY <1>3, <1>6 DEF NoReluBelow, OneActivation
<1>8. Phase(1, d, p.weights)
  BY <1>3, <1>4, <1>5, <1>6, <1>7 DEF Phase, ActKnown
<1> QED
  BY <1>1, <1>8

-----------------------------------------------------------------------------
(* What is fetched has the meaning it had.                                 *)

LEMMA FetchedFacts ==
  ASSUME NEW d
  PROVE  \A x : x \in Fetched(d) <=> \E s \in DOMAIN d : d[s].type = "fetch" /\ d[s].in.X = x
BY DEF Fetched

LEMMA FetchedRead ==
  ASSUME NEW d, NEW weights, WellMade(d, weights), NEW x \in Fetched(d)
  PROVE  x \in NamesIn(d) /\ \E s \in DOMAIN d : d[s].type = "fetch" /\ x \in NamesRead(d[s])
<1>1. PICK s \in DOMAIN d : d[s].type = "fetch" /\ d[s].in.X = x
  BY FetchedFacts
<1>2. DOMAIN d[s].in = {"X"}
  BY <1>1, SlotFacts DEF WellMade
<1>3. x \in NamesRead(d[s])
  BY <1>1, <1>2, SlotRead
<1> QED
  BY <1>1, <1>3, NamesInFacts

LEMMA FetchedMerged ==
  ASSUME NEW f, NEW d, NEW weights, NEW b, NEW n, NEW m, NEW rm, NEW hid, NEW new,
         Merges(f, d, weights, b, n, m, rm, hid, new)
  PROVE  Fetched(Merged(d, b, n, rm, new)) = Fetched(d)
<1>1. PICK M : M = Merged(d, b, n, rm, new)
  OBVIOUS
<1>2. f \in (1..10) \ {9} /\ WellMade(d, weights)
  BY DEF Merges, Merger
<1>3. ASSUME NEW s \in DOMAIN M, M[s].type = "fetch" PROVE s \in DOMAIN d /\ M[s] = d[s]
  <2>1. ASSUME NEW k \in 1..n, M[s] = NewOp(f, d, m[k]), Fits(f, d, weights, m[k]) PROVE FALSE
    BY <1>2, <1>3, <2>1, NewFrom DEF NewType
  <2> QED
    BY <1>1, <2>1, MergesCases
<1>4. ASSUME NEW s \in DOMAIN d, d[s].type = "fetch" PROVE s \in DOMAIN M /\ M[s] = d[s]
  <2>1. \A k \in 1..n : Fits(f, d, weights, m[k]) /\ rm[k] = Removed(f, m[k])
    BY DEF Merges
  <2>2. \A k \in 1..n : s \notin rm[k]
    BY <1>2, <1>4, <2>1, NewFrom
  <2> QED
    BY <1>1, <2>2 DEF Merged
<1>5. \A x : (\E s \in DOMAIN M : M[s].type = "fetch" /\ M[s].in.X = x)
               <=> \E s \in DOMAIN d : d[s].type = "fetch" /\ d[s].in.X = x
  BY <1>3, <1>4
<1>6. \A x : x \in Fetched(M) <=> x \in Fetched(d)
  BY <1>5, FetchedFacts
<1> QED
  BY <1>1, <1>6

LEMMA FetchedDropped ==
  ASSUME NEW d, NEW weights, NEW n, NEW m, Dropper(d, weights, n, m)
  PROVE  Fetched(Dropped(d, n, m)) = Fetched(d)
<1>1. PICK M : M = Dropped(d, n, m)
  OBVIOUS
<1>2. ASSUME NEW s \in DOMAIN M PROVE s \in DOMAIN d /\ M[s].in = d[s].in /\ M[s].type = d[s].type
  BY <1>1, DroppedCases
<1>3. ASSUME NEW s \in DOMAIN d, d[s].type = "fetch" PROVE s \in DOMAIN M
  <2>1. ASSUME NEW k \in 1..n PROVE s # At(m[k], "scale")
    <3>1. d[At(m[k], "scale")].type = "scale"
      BY DropperFacts
    <3> QED
      BY <1>3, <3>1
  <2> QED
    BY <1>1, <2>1 DEF Dropped
<1>4. \A x : (\E s \in DOMAIN M : M[s].type = "fetch" /\ M[s].in.X = x)
               <=> \E s \in DOMAIN d : d[s].type = "fetch" /\ d[s].in.X = x
  BY <1>2, <1>3
<1>5. \A x : x \in Fetched(M) <=> x \in Fetched(d)
  BY <1>4, FetchedFacts
<1> QED
  BY <1>1, <1>5

NoFold(p) == [w \in p.weights |-> <<>>]

\* The descriptions d with the weights as they are compute what the program p computes.
Means(p, d, alphas, betas) ==
  /\ alphas \in [p.weights -> Seq(p.weights)] /\ betas \in [p.weights -> Seq(p.weights)]
  /\ Fetched(d) = Fetched(p.desc)
  /\ \E v : /\ Values(v, d, alphas, betas)
            /\ \A x \in Fetched(d) : v[x] = Meanings(p.desc, NoFold(p), NoEntries)[x]

LEMMA ProgramMeans ==
  ASSUME NEW p \in Programs, Matchable(p)
  PROVE  Means(p, p.desc, NoFold(p), NoFold(p))
<1>1. PICK d : d = p.desc
  OBVIOUS
<1>2. PICK v : Values(v, d, NoFold(p), NoFold(p))
  BY <1>1, ProgramValues
<1>3. ASSUME NEW x PROVE Given(x, NoFold(p)) = Given(x, NoEntries)
  <2>1. ToSet(<<>>) = {}
    BY DEF ToSet
  <2>2. Given(x, NoFold(p)) = {Term(<<>>, <<"var", x>>)}
    <3>1. CASE x \in p.weights
      BY <2>1, <3>1 DEF Given, NoFold
    <3>2. CASE x \notin p.weights
      BY <3>2 DEF Given, NoFold
    <3> QED
      BY <3>1, <3>2
  <2>3. Given(x, NoEntries) = {Term(<<>>, <<"var", x>>)}
    BY DEF Given, NoEntries
  <2> QED
    BY <2>2, <2>3
<1>4. Values(v, d, NoFold(p), NoEntries)
  BY <1>2, <1>3 DEF Values
<1>5. WellMade(d, p.weights)
  BY <1>1, ProgramWellMade
<1>6. \A x \in Fetched(d) : v[x] = Meanings(d, NoFold(p), NoEntries)[x]
  BY <1>4, <1>5, FetchedRead, MeaningsAre
<1>7. NoFold(p) \in [p.weights -> Seq(p.weights)]
  BY DEF NoFold
<1> QED
  BY <1>1, <1>2, <1>6, <1>7 DEF Means

LEMMA MergesNormer ==
  ASSUME NEW d, NEW weights, NEW b, NEW n, NEW m, NEW rm, NEW hid, NEW new,
         Merges(2, d, weights, b, n, m, rm, hid, new), Phase(2, d, weights)
  PROVE  Normer(d, weights, n, m) /\ \A k \in 1..n : rm[k] = {At(m[k], "bn")}
<1>1. \A k \in 1..n : rm[k] = {At(m[k], "bn")} /\ FitsNorm(d, weights, m[k])
  BY DEF Merges, Removed, Fits
<1>2. WellMade(d, weights) /\ n \in Nat /\ \A k, l \in 1..n : k # l => rm[k] \cap rm[l] = {}
  BY DEF Merges, Merger
<1>3. \A k, l \in 1..n : k # l => At(m[k], "bn") # At(m[l], "bn")
  BY <1>1, <1>2
<1> QED
  BY <1>1, <1>2, <1>3 DEF Normer

LEMMA MergedMeans ==
  ASSUME NEW p, NEW f, NEW d, NEW b, NEW n, NEW m, NEW rm, NEW hid, NEW new, f # 2,
         Merges(f, d, p.weights, b, n, m, rm, hid, new), Phase(f, d, p.weights),
         NEW alphas, NEW betas, Means(p, d, alphas, betas)
  PROVE  Means(p, Merged(d, b, n, rm, new), alphas, betas)
<1>1. PICK M : M = Merged(d, b, n, rm, new)
  OBVIOUS
<1>2. PICK weights : weights = p.weights
  OBVIOUS
<1>3. Fetched(M) = Fetched(d)
  BY <1>1, FetchedMerged
<1>4. PICK v : /\ Values(v, d, alphas, betas)
               /\ \A x \in Fetched(d) : v[x] = Meanings(p.desc, NoFold(p), NoEntries)[x]
  BY DEF Means
<1>5. /\ f \in (1..10) \ {2, 9} /\ Merger(d, weights, b, n, rm, hid, new) /\ WellMade(d, weights)
      /\ \A k \in 1..n : Fits(f, d, weights, m[k]) /\ new[k] = NewOp(f, d, m[k])
  BY <1>2 DEF Merges, Merger
<1>6. \A k \in 1..n : Result(new[k], v, alphas) = v[new[k].out]
  BY <1>2, <1>4, <1>5, FitsMeans
<1>7. Values(v, M, alphas, betas)
  BY <1>1, <1>4, <1>5, <1>6, MergedValues
<1>8. Means(p, M, alphas, betas)
  BY <1>3, <1>4, <1>7 DEF Means
<1> QED
  BY <1>1, <1>8

LEMMA NormMergedMeans ==
  ASSUME NEW p, NEW d, NEW b, NEW n, NEW m, NEW rm, NEW hid, NEW new,
         Merges(2, d, p.weights, b, n, m, rm, hid, new), Phase(2, d, p.weights),
         NEW alphas, NEW betas, Means(p, d, alphas, betas),
         NEW after, Scaling(after, alphas, p.weights, n, m, "conv_weight"),
         NEW shift, Scaling(shift, betas, p.weights, n, m, "bn_bias")
  PROVE  Means(p, Merged(d, b, n, rm, new), after, shift)
<1>1. PICK M : M = Merged(d, b, n, rm, new)
  OBVIOUS
<1>2. PICK weights : weights = p.weights
  OBVIOUS
<1>3. Fetched(M) = Fetched(d)
  BY <1>1, FetchedMerged
<1>4. PICK v : /\ Values(v, d, alphas, betas)
               /\ \A x \in Fetched(d) : v[x] = Meanings(p.desc, NoFold(p), NoEntries)[x]
  BY DEF Means
<1>5. Normer(d, weights, n, m) /\ \A k \in 1..n : rm[k] = {At(m[k], "bn")}
  BY <1>2, MergesNormer
<1>6. Merger(d, weights, b, n, rm, hid, new) /\ \A k \in 1..n : new[k] = NewOp(2, d, m[k])
  BY <1>2 DEF Merges
<1>7. PICK w : NormedValue(w, v, d, n, m, after, shift)
  BY <1>5, NormedValues
<1>8. Values(w, M, after, shift)
  BY <1>1, <1>2, <1>4, <1>5, <1>6, <1>7, NormMergedValues
<1>9. ASSUME NEW x \in Fetched(d) PROVE w[x] = v[x]
  <2>1. WellMade(d, weights)
    BY <1>5 DEF Normer
  <2>2. PICK s \in DOMAIN d : d[s].type = "fetch" /\ x \in NamesRead(d[s])
    BY <2>1, FetchedRead
  <2>3. ASSUME NEW k \in 1..n PROVE s # At(m[k], "bn")
    <3>1. PICK c, t : Normed(d, weights, m[k], c, t)
      BY <1>5, NormerHas
    <3> QED
      BY <2>2, <3>1 DEF Normed
  <2> QED
    BY <1>5, <1>7, <2>2, <2>3, NormedRead
<1>10. Fetched(d) = Fetched(p.desc)
  BY DEF Means
<1>11. after \in [p.weights -> Seq(p.weights)] /\ shift \in [p.weights -> Seq(p.weights)]
  BY DEF Scaling
<1>12. Means(p, M, after, shift)
  BY <1>3, <1>4, <1>8, <1>9, <1>10, <1>11 DEF Means
<1> QED
  BY <1>1, <1>12

LEMMA DroppedMeans ==
  ASSUME NEW p, NEW d, NEW n, NEW m, Dropper(d, p.weights, n, m), Phase(9, d, p.weights),
         NEW alphas, NEW betas, Means(p, d, alphas, betas)
  PROVE  Means(p, Dropped(d, n, m), alphas, betas)
<1>1. PICK M : M = Dropped(d, n, m)
  OBVIOUS
<1>2. Fetched(M) = Fetched(d)
  BY <1>1, FetchedDropped
<1>3. PICK v : /\ Values(v, d, alphas, betas)
               /\ \A x \in Fetched(d) : v[x] = Meanings(p.desc, NoFold(p), NoEntries)[x]
  BY DEF Means
<1>4. Values(v, M, alphas, betas)
  BY <1>1, <1>3, DroppedValues
<1>5. Means(p, M, alphas, betas)
  BY <1>2, <1>3, <1>4 DEF Means
<1> QED
  BY <1>1, <1>5

\* One more match is handled.
LEMMA ScalingMore ==
  ASSUME NEW before, NEW weights, NEW n \in Nat, NEW m, NEW r, NEW now, Scaling(now, before, weights, n, m, r),
         NEW g, g = m[n + 1], Named(g, r) \in weights, Named(g, "bn_scale") \in weights,
         \A k \in 1..n : Named(m[k], r) # Named(g, r),
         NEW after, after = [now EXCEPT ![Named(g, r)] = Append(@, Named(g, "bn_scale"))]
  PROVE  Scaling(after, before, weights, n + 1, m, r)
<1>1. PICK x : x = Named(g, r)
  OBVIOUS
<1>2. PICK e : e = Named(g, "bn_scale")
  OBVIOUS
<1>3. now \in [weights -> Seq(weights)] /\ before \in [weights -> Seq(weights)] /\ x \in weights /\ e \in weights
  BY <1>1, <1>2 DEF Scaling
<1>4. PICK q : q = Append(now[x], e)
  OBVIOUS
<1>5. q \in Seq(weights)
  BY <1>3, <1>4
<1>6. after = [now EXCEPT ![x] = q]
  BY <1>1, <1>2, <1>4
<1>7. after \in [weights -> Seq(weights)] /\ after[x] = q /\ \A y \in weights : y # x => after[y] = now[y]
  BY <1>3, <1>5, <1>6
<1>8. now[x] = before[x]
  BY <1>1, <1>3 DEF Scaling
<1>9. ASSUME NEW k \in 1..(n + 1) PROVE after[Named(m[k], r)] = Append(before[Named(m[k], r)], Named(m[k], "bn_scale"))
  <2>1. CASE k = n + 1
    BY <1>1, <1>2, <1>4, <1>7, <1>8, <2>1
  <2>2. CASE k # n + 1
    <3>1. k \in 1..n
      BY <2>2
    <3>2. now[Named(m[k], r)] = Append(before[Named(m[k], r)], Named(m[k], "bn_scale"))
      BY <3>1 DEF Scaling
    <3>3. Named(m[k], r) # x
      BY <1>1, <3>1
    <3>4. after[Named(m[k], r)] = now[Named(m[k], r)]
      <4>1. CASE Named(m[k], r) \in weights
        BY <1>7, <3>3, <4>1
      <4>2. CASE Named(m[k], r) \notin weights
        BY <1>3, <1>6, <3>3, <4>2
      <4> QED
        BY <4>1, <4>2
    <3> QED
      BY <3>2, <3>4
  <2> QED
    BY <2>1, <2>2
<1>10. ASSUME NEW y \in weights, \A k \in 1..(n + 1) : Named(m[k], r) # y PROVE after[y] = before[y]
  <2>1. n + 1 \in 1..(n + 1) /\ \A k \in 1..n : k \in 1..(n + 1)
    OBVIOUS
  <2>2. y # x /\ \A k \in 1..n : Named(m[k], r) # y
    BY <1>1, <1>10, <2>1
  <2> QED
    BY <1>7, <2>2 DEF Scaling
<1> QED
  BY <1>3, <1>7, <1>9, <1>10 DEF Scaling

\* While a fuser handles its matches of d, the weights change for those handled.
Changed(d) ==
  /\ Phase(fuser, d, program.weights)
  /\ \E alphas, betas :
       /\ Means(program, d, alphas, betas)
       /\ fuser # 2 => folded = alphas /\ shifted = betas
       /\ fuser = 2 => /\ Scaling(folded, alphas, program.weights, handled, matched, "conv_weight")
                       /\ Scaling(shifted, betas, program.weights, handled, matched, "bn_bias")

MeaningInv ==
  /\ stage = "build" => folded = NoFold(program) /\ shifted = NoFold(program)
  /\ Settled => Phase(fuser, desc, program.weights) /\ Means(program, desc, folded, shifted)
  /\ stage = "insert" => \E d, b : Inserting(d, b) /\ Changed(d)

LEMMA MatchingFuses ==
  ASSUME NEW d, NEW b, Matching(d, b), fuser # 9, NEW f, f = fuser, NEW m, m = matched,
         NEW rm, rm = [k \in 1..Len(m) |-> Removed(f, m[k])],
         NEW hid, hid = [k \in 1..Len(m) |-> Hidden(f, m[k])],
         NEW new, new = [k \in 1..Len(m) |-> NewOp(f, d, m[k])],
         NEW weights, weights = program.weights
  PROVE  Merges(f, d, weights, b, Len(m), m, rm, hid, new)
<1>1. Merger(d, program.weights, b, Len(m), rm, hid, new)
  BY MatchingMerges
<1>2. f \in (1..10) \ {9} /\ \A k \in 1..Len(m) : Fits(f, d, weights, m[k])
  BY DEF Matching
<1> QED
  BY <1>1, <1>2 DEF Merges

LEMMA MatchChanges ==
  ASSUME Settled, MeaningInv, PerformPatternMatcher, NEW d, d = desc
  PROVE  Changed(d)'
<1>1. /\ handled' = 0 /\ program' = program /\ fuser' = fuser /\ folded' = folded /\ shifted' = shifted
  BY DEF PerformPatternMatcher, graphVars
<1>2. Phase(fuser, d, program.weights) /\ Means(program, d, folded, shifted)
  BY DEF MeaningInv
<1>3. PICK alphas : alphas = folded
  OBVIOUS
<1>4. PICK betas : betas = shifted
  OBVIOUS
<1>5. PICK weights : weights = program.weights
  OBVIOUS
<1>6. alphas \in [weights -> Seq(weights)] /\ betas \in [weights -> Seq(weights)]
  BY <1>2, <1>3, <1>4, <1>5 DEF Means
<1>7. ASSUME NEW m, NEW r
      PROVE  Scaling(alphas, alphas, weights, 0, m, r) /\ Scaling(betas, betas, weights, 0, m, r)
  BY <1>6 DEF Scaling
<1>8. Means(program', d, alphas, betas) /\ Phase(fuser', d, program'.weights) /\ folded' = alphas /\ shifted' = betas
  BY <1>1, <1>2, <1>3, <1>4
<1>9. /\ Scaling(folded', alphas, program'.weights, handled', matched', "conv_weight")
      /\ Scaling(shifted', betas, program'.weights, handled', matched', "bn_bias")
  BY <1>1, <1>3, <1>4, <1>5, <1>7
<1> QED
  BY <1>8, <1>9 DEF Changed

LEMMA InsertChanges ==
  ASSUME NEW d, NEW b, Inserting(d, b), Changed(d), InsertNewNode
  PROVE  Changed(d)'
<1>1. /\ handled < Len(matched) /\ handled' = handled + 1
      /\ program' = program /\ fuser' = fuser /\ matched' = matched
      /\ Pattern.kind = "conv_bn" => folded' = Scaled(folded, "conv_weight") /\ shifted' = Scaled(shifted, "bn_bias")
      /\ Pattern.kind # "conv_bn" => folded' = folded /\ shifted' = shifted
  BY DEF InsertNewNode
<1>2. fuser \in 1..10 /\ handled \in 0..Len(matched) /\ Len(matched) \in Nat /\ Matching(d, b)
  BY DEF Inserting, Matching
<1>3. fuser = 2 <=> Pattern.kind = "conv_bn"
  BY <1>2, KindOf
<1>4. PICK alphas, betas :
        /\ Means(program, d, alphas, betas)
        /\ fuser # 2 => folded = alphas /\ shifted = betas
        /\ fuser = 2 => /\ Scaling(folded, alphas, program.weights, handled, matched, "conv_weight")
                        /\ Scaling(shifted, betas, program.weights, handled, matched, "bn_bias")
  BY DEF Changed
<1>5. Phase(fuser', d, program'.weights) /\ Means(program', d, alphas, betas)
  BY <1>1, <1>4 DEF Changed
<1>6. CASE fuser # 2
  BY <1>1, <1>3, <1>4, <1>5, <1>6 DEF Changed
<1>7. CASE fuser = 2
  <2>1. PICK m : m = matched
    OBVIOUS
  <2>2. PICK n : n = handled
    OBVIOUS
  <2>3. PICK weights : weights = program.weights
    OBVIOUS
  <2>4. PICK g : g = m[n + 1]
    OBVIOUS
  <2>5. Normer(d, weights, Len(m), m)
    <3>0. PICK f : f = fuser
      OBVIOUS
    <3>1. PICK rm : rm = [k \in 1..Len(m) |-> Removed(f, m[k])]
      OBVIOUS
    <3>2. PICK hid : hid = [k \in 1..Len(m) |-> Hidden(f, m[k])]
      OBVIOUS
    <3>3. PICK new : new = [k \in 1..Len(m) |-> NewOp(f, d, m[k])]
      OBVIOUS
    <3>a. Matching(d, b) /\ fuser # 9
      BY <1>2, <1>7
    <3>b. Merges(f, d, weights, b, Len(m), m, rm, hid, new)
      BY <2>1, <2>3, <3>0, <3>1, <3>2, <3>3, <3>a, MatchingFuses
    <3>c. f = 2
      BY <1>7, <3>0
    <3>4. Merges(2, d, weights, b, Len(m), m, rm, hid, new)
      BY <3>b, <3>c
    <3>5. Phase(2, d, weights)
      BY <1>7, <2>3 DEF Changed
    <3> QED
      BY <3>4, <3>5, MergesNormer
  <2>6. n \in Nat /\ n + 1 \in 1..Len(m) /\ \A k \in 1..n : k \in 1..Len(m) /\ k # n + 1
    BY <1>1, <1>2, <2>1, <2>2
  <2>7. PICK c, t : Normed(d, weights, g, c, t)
    BY <2>4, <2>5, <2>6, NormerHas
  <2>8. Named(g, "conv_weight") \in weights /\ Named(g, "bn_bias") \in weights /\ Named(g, "bn_scale") \in weights
    BY <2>7 DEF Normed
  <2>9. \A k \in 1..n : /\ Named(m[k], "conv_weight") # Named(g, "conv_weight")
                        /\ Named(m[k], "bn_bias") # Named(g, "bn_bias")
    BY <2>4, <2>5, <2>6, NormedApart
  <2>10. /\ folded' = [folded EXCEPT ![Named(g, "conv_weight")] = Append(@, Named(g, "bn_scale"))]
         /\ shifted' = [shifted EXCEPT ![Named(g, "bn_bias")] = Append(@, Named(g, "bn_scale"))]
    <3>1. Current = g
      BY <2>1, <2>2, <2>4 DEF Current
    <3>2. folded' = Scaled(folded, "conv_weight") /\ shifted' = Scaled(shifted, "bn_bias")
      BY <1>1, <1>3, <1>7
    <3> QED
      BY <3>1, <3>2 DEF Scaled, NameOf, NodeOf, Named
  <2>11. PICK fold : fold = folded
    OBVIOUS
  <2>12. PICK shift : shift = shifted
    OBVIOUS
  <2>13. Scaling(fold, alphas, weights, n, m, "conv_weight") /\ Scaling(shift, betas, weights, n, m, "bn_bias")
    BY <1>4, <1>7, <2>1, <2>2, <2>3, <2>11, <2>12
  <2>14. PICK after : after = [fold EXCEPT ![Named(g, "conv_weight")] = Append(@, Named(g, "bn_scale"))]
    OBVIOUS
  <2>15. PICK next : next = [shift EXCEPT ![Named(g, "bn_bias")] = Append(@, Named(g, "bn_scale"))]
    OBVIOUS
  <2>16. Scaling(after, alphas, weights, n + 1, m, "conv_weight")
    BY <2>4, <2>6, <2>8, <2>9, <2>13, <2>14, ScalingMore
  <2>17. Scaling(next, betas, weights, n + 1, m, "bn_bias")
    BY <2>4, <2>6, <2>8, <2>9, <2>13, <2>15, ScalingMore
  <2>18. folded' = after /\ shifted' = next /\ handled' = n + 1 /\ matched' = m /\ program'.weights = weights /\ fuser' = 2
    BY <1>1, <1>7, <2>1, <2>2, <2>3, <2>10, <2>11, <2>12, <2>14, <2>15
  <2>19. /\ Scaling(folded', alphas, program'.weights, handled', matched', "conv_weight")
         /\ Scaling(shifted', betas, program'.weights, handled', matched', "bn_bias")
    BY <2>16, <2>17, <2>18
  <2> QED
    BY <1>5, <2>18, <2>19 DEF Changed
<1> QED
  BY <1>6, <1>7

LEMMA UpdateChanges ==
  ASSUME NEW d, NEW b, Inserting(d, b), Changed(d), UpdateOutput
  PROVE  Changed(d)'
<1>1. /\ Pattern.kind = "identity_scale"
      /\ program' = program /\ fuser' = fuser /\ folded' = folded /\ shifted' = shifted
  BY DEF UpdateOutput
<1>2. fuser \in 1..10
  BY DEF Inserting, Matching
<1>3. fuser = 9
  BY <1>1, <1>2, KindOf
<1>4. PICK alphas, betas :
        Means(program, d, alphas, betas) /\ (fuser # 2 => folded = alphas /\ shifted = betas)
  BY DEF Changed
<1>5. Phase(fuser', d, program'.weights) /\ Means(program', d, alphas, betas)
  BY <1>1, <1>4 DEF Changed
<1> QED
  BY <1>1, <1>3, <1>4, <1>5 DEF Changed

LEMMA DeleteChanges ==
  ASSUME NEW d, NEW b, Inserting(d, b), Changed(d), DeleteInterNodes
  PROVE  Phase(fuser', desc', program'.weights) /\ Means(program', desc', folded', shifted')
<1>1. /\ handled = Len(matched) /\ fuser' = fuser + 1
      /\ program' = program /\ folded' = folded /\ shifted' = shifted
  BY DEF DeleteInterNodes
<1>2. Matching(d, b) /\ fuser \in 1..10
  BY DEF Inserting, Matching
<1>3. PICK alphas, betas :
        /\ Means(program, d, alphas, betas)
        /\ fuser # 2 => folded = alphas /\ shifted = betas
        /\ fuser = 2 => /\ Scaling(folded, alphas, program.weights, handled, matched, "conv_weight")
                        /\ Scaling(shifted, betas, program.weights, handled, matched, "bn_bias")
  BY DEF Changed
<1>4. PICK m : m = matched
  OBVIOUS
<1>5. PICK f : f = fuser
  OBVIOUS
<1>6. PICK p : p = program
  OBVIOUS
<1>7. PICK n : n = Len(m)
  OBVIOUS
<1>8. Phase(f, d, p.weights) /\ Means(p, d, alphas, betas)
  BY <1>3, <1>5, <1>6 DEF Changed
<1>9. CASE fuser = 9
  <2>1. desc' = Dropped(d, n, m)
    BY <1>1, <1>4, <1>7, <1>9, DropStep
  <2>2. Dropper(d, p.weights, n, m)
    <3>1. Dropper(d, program.weights, Len(matched), matched)
      BY <1>2, <1>9, MatchingDrops
    <3> QED
      BY <1>4, <1>6, <1>7, <3>1
  <2>3. Phase(10, Dropped(d, n, m), p.weights)
    BY <1>5, <1>8, <1>9, <2>2, DroppedPhase
  <2>4. Means(p, Dropped(d, n, m), alphas, betas)
    BY <1>5, <1>8, <1>9, <2>2, DroppedMeans
  <2>5. fuser' = 10 /\ folded' = alphas /\ shifted' = betas /\ program' = p
    BY <1>1, <1>3, <1>6, <1>9
  <2> QED
    BY <2>1, <2>3, <2>4, <2>5
<1>10. CASE fuser # 9
  <2>1. PICK rm : rm = [k \in 1..Len(m) |-> Removed(f, m[k])]
    OBVIOUS
  <2>2. PICK hid : hid = [k \in 1..Len(m) |-> Hidden(f, m[k])]
    OBVIOUS
  <2>3. PICK new : new = [k \in 1..Len(m) |-> NewOp(f, d, m[k])]
    OBVIOUS
  <2>4. desc' = Merged(d, b, n, rm, new)
    BY <1>1, <1>4, <1>5, <1>7, <1>10, <2>1, <2>2, <2>3, MergeStep
  <2>5. Merges(f, d, p.weights, b, n, m, rm, hid, new)
    BY <1>2, <1>4, <1>5, <1>6, <1>7, <1>10, <2>1, <2>2, <2>3, MatchingFuses
  <2>6. Phase(f + 1, Merged(d, b, n, rm, new), p.weights)
    BY <1>8, <2>5, MergedPhase
  <2>7. Means(p, Merged(d, b, n, rm, new), folded, shifted)
    <3>1. CASE f = 2
      <4>1. PICK fold : fold = folded
        OBVIOUS
      <4>2. PICK shift : shift = shifted
        OBVIOUS
      <4>3. Scaling(fold, alphas, p.weights, n, m, "conv_weight") /\ Scaling(shift, betas, p.weights, n, m, "bn_bias")
        BY <1>1, <1>3, <1>4, <1>5, <1>6, <1>7, <3>1, <4>1, <4>2
      <4>4. Means(p, Merged(d, b, n, rm, new), fold, shift)
        BY <1>8, <2>5, <3>1, <4>3, NormMergedMeans
      <4> QED
        BY <4>1, <4>2, <4>4
    <3>2. CASE f # 2
      <4>1. Means(p, Merged(d, b, n, rm, new), alphas, betas)
        BY <1>8, <2>5, <3>2, MergedMeans
      <4> QED
        BY <1>3, <1>5, <3>2, <4>1
    <3> QED
      BY <3>1, <3>2
  <2> QED
    BY <1>1, <1>5, <1>6, <2>4, <2>6, <2>7
<1> QED
  BY <1>9, <1>10

AllFusable == \A p \in Programs : Fusable(p)

LEMMA MeaningStep ==
  ASSUME AllFusable, FuseInv, MeaningInv, [Next]_vars
  PROVE  MeaningInv'
<1>1. program \in Programs /\ Fusable(program) /\ Matchable(program)
  BY DEF FuseInv, AllFusable, Fusable
<1>2. CASE BuildGraph
  <2>1. stage = "build" /\ stage' = "build" /\ folded' = folded /\ shifted' = shifted /\ program' = program
    BY <1>2 DEF BuildGraph, BuildOp, fuseVars
  <2> QED
    BY <2>1 DEF MeaningInv, Settled
<1>3. CASE BeginFusing
  <2>1. stage = "build" /\ stage' = "match" /\ desc' = program.desc /\ fuser' = 1
    BY <1>3 DEF BeginFusing
  <2>2. program' = program /\ folded' = folded /\ shifted' = shifted
    BY <1>3 DEF BeginFusing, graphVars
  <2>3. folded = NoFold(program) /\ shifted = NoFold(program)
    BY <2>1 DEF MeaningInv
  <2>4. Phase(1, program.desc, program.weights) /\ Means(program, program.desc, NoFold(program), NoFold(program))
    BY <1>1, ProgramPhase, ProgramMeans
  <2>5. Phase(fuser', desc', program'.weights) /\ Means(program', desc', folded', shifted')
    BY <2>1, <2>2, <2>3, <2>4
  <2> QED
    BY <2>1, <2>5 DEF MeaningInv
<1>4. CASE PerformPatternMatcher
  <2>1. stage = "match" /\ Settled
    BY <1>4 DEF PerformPatternMatcher, Settled
  <2>2. Ready
    BY <2>1 DEF FuseInv
  <2>3. stage' = "insert" /\ \E d, b : d = desc /\ Inserting(d, b)'
    BY <1>4, <2>1, <2>2, MatchStep
  <2>4. PICK d, b : d = desc /\ Inserting(d, b)'
    BY <2>3
  <2>5. Changed(d)'
    BY <1>4, <2>1, <2>4, MatchChanges
  <2> QED
    BY <2>3, <2>4, <2>5 DEF MeaningInv, Settled
<1>5. CASE InsertNewNode
  <2>1. stage = "insert"
    BY <1>5 DEF InsertNewNode
  <2>2. PICK d, b : Inserting(d, b) /\ Changed(d)
    BY <2>1 DEF MeaningInv
  <2>3. stage' = "insert" /\ Inserting(d, b)' /\ Changed(d)'
    BY <1>5, <2>2, InsertStep, InsertChanges
  <2> QED
    BY <2>3 DEF MeaningInv, Settled
<1>6. CASE UpdateOutput
  <2>1. stage = "insert"
    BY <1>6 DEF UpdateOutput
  <2>2. PICK d, b : Inserting(d, b) /\ Changed(d)
    BY <2>1 DEF MeaningInv
  <2>3. stage' = "insert" /\ Inserting(d, b)' /\ Changed(d)'
    BY <1>6, <2>2, UpdateStep, UpdateChanges
  <2> QED
    BY <2>3 DEF MeaningInv, Settled
<1>7. CASE DeleteInterNodes
  <2>1. stage = "insert"
    BY <1>7 DEF DeleteInterNodes
  <2>2. PICK d, b : Inserting(d, b) /\ Changed(d)
    BY <2>1 DEF MeaningInv
  <2>3. stage' \in {"match", "fused"}
    BY <1>7, <2>2, DeleteStep
  <2>4. Phase(fuser', desc', program'.weights) /\ Means(program', desc', folded', shifted')
    BY <1>7, <2>2, DeleteChanges
  <2> QED
    BY <2>3, <2>4 DEF MeaningInv
<1>8. CASE UNCHANGED vars
  <2>1. /\ UNCHANGED <<stage, fuser, matched, handled, desc, folded, shifted>>
        /\ UNCHANGED <<program, built, latest, inlinks, outlinks>>
    BY <1>8 DEF vars, fuseVars, graphVars
  <2>2. ASSUME NEW d, NEW b, Inserting(d, b) PROVE Inserting(d, b)'
    <3>1. \A k \in 1..Len(matched) : InnerNodes(matched[k])' = InnerNodes(matched[k])
      BY <2>1 DEF InnerNodes, InnerRoles, Roles, Pattern
    <3>2. Matching(d, b)'
      BY <2>1, <2>2, <3>1 DEF Inserting, Matching
    <3> QED
      BY <2>1, <2>2, <3>2 DEF Inserting, Inserted, Eliminated
  <2>3. ASSUME NEW d, Changed(d) PROVE Changed(d)'
    BY <2>1, <2>3 DEF Changed
  <2>4. CASE stage = "insert"
    <3>1. PICK d, b : Inserting(d, b) /\ Changed(d)
      BY <2>4 DEF MeaningInv
    <3>2. Inserting(d, b)' /\ Changed(d)'
      BY <2>2, <2>3, <3>1
    <3> QED
      BY <2>1, <2>4, <3>2 DEF MeaningInv, Settled
  <2>5. CASE stage # "insert"
    BY <2>1, <2>5 DEF MeaningInv, Settled
  <2> QED
    BY <2>4, <2>5
<1> QED
  BY <1>2, <1>3, <1>4, <1>5, <1>6, <1>7, <1>8 DEF Next

\* KeepsMeaning: whatever is fused, folded into a filter or eliminated, and in
\* whatever order the matches come, a variable that is fetched keeps its meaning.
THEOREM FusionKeepsMeaning ==
  ASSUME AllFusable
  PROVE  Spec => []KeepsMeaning
<1>1. AllMatchable
  BY DEF AllFusable, AllMatchable, Fusable
<1>2. Spec => []FuseInv
  BY <1>1, FusionInvariant
<1>3. Init => MeaningInv
  BY DEF Init, MeaningInv, Settled, NoFold
<1>4. FuseInv /\ MeaningInv /\ [Next]_vars => MeaningInv'
  BY MeaningStep
<1>5. FuseInv /\ MeaningInv => KeepsMeaning
  <2> SUFFICES ASSUME FuseInv, MeaningInv, Settled
               PROVE  /\ Fetched(desc) = Fetched(program.desc)
                      /\ \A x \in Fetched(desc) :
                           Meanings(desc, folded, shifted)[x]
                             = Meanings(program.desc, [w \in program.weights |-> <<>>], NoEntries)[x]
    BY Zenon DEF KeepsMeaning
  <2>1. Means(program, desc, folded, shifted) /\ WellMade(desc, program.weights)
    BY DEF FuseInv, Ready, MeaningInv
  <2>2. Fetched(desc) = Fetched(program.desc)
    BY <2>1 DEF Means
  <2>3. PICK v : /\ Values(v, desc, folded, shifted)
                 /\ \A x \in Fetched(desc) : v[x] = Meanings(program.desc, NoFold(program), NoEntries)[x]
    BY <2>1 DEF Means
  <2>4. ASSUME NEW x \in Fetched(desc) PROVE Meanings(desc, folded, shifted)[x] = v[x]
    <3>1. PICK d : d = desc
      OBVIOUS
    <3>2. PICK alphas : alphas = folded
      OBVIOUS
    <3>3. PICK betas : betas = shifted
      OBVIOUS
    <3>4. PICK weights : weights = program.weights
      OBVIOUS
    <3>5. WellMade(d, weights) /\ Values(v, d, alphas, betas) /\ x \in Fetched(d)
      BY <2>1, <2>3, <3>1, <3>2, <3>3, <3>4
    <3>6. x \in NamesIn(d)
      BY <3>5, FetchedRead
    <3>7. Meanings(d, alphas, betas)[x] = v[x]
      BY <3>5, <3>6, MeaningsAre
    <3> QED
      BY <3>1, <3>2, <3>3, <3>7
  <2>5. NoFold(program) = [w \in program.weights |-> <<>>]
    BY DEF NoFold
  <2> QED
    BY <2>2, <2>3, <2>4, <2>5
<1> QED
  BY <1>2, <1>3, <1>4, <1>5, PTL DEF Spec
=============================================================================
