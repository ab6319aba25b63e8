------------------------------- MODULE Fusion -------------------------------
(***************************************************************************)
(* The fusion and elimination passes at the head of Optimizer::Run.  Each  *)
(* is a FuseBase: a pattern is matched against the graph, the matches that *)
(* overlap an earlier one or leak are dropped, a handler rewrites each of  *)
(* the rest, and then the intermediate nodes of all of them are deleted.   *)
(* A node of the graph is <<"stmt", s>> or <<"arg", n>>, a match gives a   *)
(* node to each role of the pattern.  An operator has one output; the mean *)
(* and the variance of a batch_norm go with its scale and are left out.    *)
(***************************************************************************)
EXTENDS SSAGraph, SequencesExt

VARIABLES stage,      \* build, match, insert, fused
          fuser,      \* position in Fusers
          matched,    \* key2nodes_: the matches of the fuser
          handled,    \* how many of them InsertNewNode has seen
          desc,       \* statement -> its OpDesc: type, input slots, output, activation
          folded,     \* filter -> the batch norms whose alpha it was multiplied with
          shifted     \* bias -> the batch norms whose beta was added to it

fuseVars == <<stage, fuser, matched, handled, desc, folded, shifted>>
vars == <<graphVars, fuseVars>>

-----------------------------------------------------------------------------
(* The OpDescs of a program that was not fused before.                     *)

NamesRead(op) == {op.in[slot] : slot \in DOMAIN op.in}

\* The slots of the operators the fusers ask for, and those of weights.
Slots ==
  [conv2d |-> {"Input", "Filter"}, batch_norm |-> {"X", "Scale", "Bias"},
   elementwise_add |-> {"X", "Y"}, mul |-> {"X", "Y"},
   relu |-> {"X"}, leaky_relu |-> {"X"}, scale |-> {"X"}, fetch |-> {"X"}]
WeightSlots == [conv2d |-> {"Filter", "Bias"}, batch_norm |-> {"Scale", "Bias"}, mul |-> {"Y"}]

IsUnfused(op) ==
  /\ DOMAIN op = {"type", "in", "out", "act"} /\ IsFiniteSet(DOMAIN op.in) /\ op.act = "none"
  /\ op.type \notin {"fc", "fusion_elementwise_add_activation"}
  /\ op.type \in DOMAIN Slots => DOMAIN op.in = Slots[op.type]

ASSUME DescAssumption ==
  \A p \in Programs :
    /\ DOMAIN p.desc = 1..Len(p.ops)
    /\ \A s \in 1..Len(p.ops) :
         /\ IsUnfused(p.desc[s])
         /\ p.ops[s].in = NamesRead(p.desc[s]) /\ p.ops[s].out = {p.desc[s].out}

-----------------------------------------------------------------------------
(* Conditions on programs.                                                 *)

\* No name is written twice, none after it was read, and no weight is.
WritesOnce(p) ==
  \A s \in DOMAIN p.desc :
    /\ p.desc[s].out \notin p.weights
    /\ \A t \in 1..s : p.desc[s].out \notin NamesRead(p.desc[t])
    /\ \A t \in 1..(s - 1) : p.desc[s].out # p.desc[t].out

\* A weight is read in one slot of one operator.
OwnWeights(d, weights) ==
  /\ \A s \in DOMAIN d : d[s].type \in DOMAIN WeightSlots =>
       \A slot \in WeightSlots[d[s].type] \cap DOMAIN d[s].in : d[s].in[slot] \in weights
  /\ \A s, t \in DOMAIN d : \A j \in DOMAIN d[s].in, k \in DOMAIN d[t].in :
       d[s].in[j] = d[t].in[k] /\ d[s].in[j] \in weights => s = t /\ j = k

Reads(d, t, s) == d[s].out \in NamesRead(d[t])
Follows(d, t, s) == \A u \in DOMAIN d : Reads(d, u, s) <=> u = t

\* No scale after a scale: in one order of the matches both are taken.
OneScale(d) ==
  \A s, t \in DOMAIN d : ~(d[s].type = "scale" /\ d[t].type = "scale" /\ Reads(d, t, s))

\* A convolution a batch norm reads has no other reader: its filter is scaled.
OneReader(d) ==
  \A s, t \in DOMAIN d :
    d[s].type = "conv2d" /\ d[t].type = "batch_norm" /\ Reads(d, t, s) => Follows(d, t, s)

\* No bias is added between a convolution and a batch norm: it is not scaled.
NoBiasBefore(d, weights) ==
  \A s, t, u \in DOMAIN d :
    /\ d[s].type = "conv2d" /\ d[t].type = "elementwise_add" /\ Follows(d, t, s)
    /\ d[t].in.X = d[s].out /\ d[t].in.Y \in weights
    => ~(d[u].type = "batch_norm" /\ Reads(d, u, t))

\* No leaky_relu after a relu: a convolution takes both and keeps the last.
OneActivation(d) ==
  \A s, t \in DOMAIN d : ~(d[s].type = "relu" /\ d[t].type = "leaky_relu" /\ Reads(d, t, s))

Matchable(p) == WritesOnce(p) /\ OwnWeights(p.desc, p.weights) /\ OneScale(p.desc)

Fusable(p) ==
  /\ Matchable(p)
  /\ OneReader(p.desc) /\ NoBiasBefore(p.desc, p.weights) /\ OneActivation(p.desc)

-----------------------------------------------------------------------------
(* The fusers.  A role is told by the type of an operator, or by the slots *)
(* of operators a variable is read from and written to ("any" is any       *)
(* slot).  links and result are the variables InsertNewNode links the new  *)
(* statement to.                                                           *)

Op(type, inner) == [type |-> type, in |-> {}, out |-> {}, weight |-> FALSE, inner |-> inner]
In(slots) == [type |-> "var", in |-> slots, out |-> {}, weight |-> FALSE, inner |-> FALSE]
Weight(slots) == [In(slots) EXCEPT !.weight = TRUE]
Inner(out, in) == [In(in) EXCEPT !.out = out, !.inner = TRUE]
Out(slots) == [In({}) EXCEPT !.out = slots]

\* ConvElementwiseFuser
ConvElementwise ==
  [kind |-> "conv_elementwise",
   nodes |-> [input |-> In({<<"conv2d", "Input">>}), filter |-> In({<<"conv2d", "Filter">>}),
              bias |-> Weight({<<"elementwise_add", "Y">>}),
              conv2d |-> Op("conv2d", TRUE), add |-> Op("elementwise_add", TRUE),
              conv2d_out |-> Inner({<<"conv2d", "Output">>}, {<<"elementwise_add", "X">>}),
              output |-> Out({<<"elementwise_add", "Out">>})],
   edges |-> <<<<"filter", "conv2d">>, <<"input", "conv2d">>, <<"conv2d", "conv2d_out">>,
               <<"conv2d_out", "add">>, <<"bias", "add">>, <<"add", "output">>>>,
   links |-> {"input", "filter", "bias"}, result |-> "output"]

\* ConvBNFuser: the convolution and its output stay.
ConvBN ==
  [kind |-> "conv_bn",
   nodes |-> [conv_input |-> In({<<"conv2d", "Input">>}), conv_weight |-> In({<<"conv2d", "Filter">>}),
              conv2d |-> Op("conv2d", FALSE),
              conv_out |-> [In({<<"batch_norm", "X">>}) EXCEPT !.out = {<<"conv2d", "Output">>}],
              bn_scale |-> Inner({}, {<<"batch_norm", "Scale">>}),
              bn_bias |-> In({<<"batch_norm", "Bias">>}),
              bn |-> Op("batch_norm", TRUE), bn_out |-> Out({<<"batch_norm", "Y">>})],
   edges |-> <<<<"conv_input", "conv2d">>, <<"conv_weight", "conv2d">>, <<"conv2d", "conv_out">>,
               <<"conv_out", "bn">>, <<"bn_scale", "bn">>, <<"bn_bias", "bn">>, <<"bn", "bn_out">>>>,
   links |-> {"conv_out", "bn_bias"}, result |-> "bn_out"]

\* ConvActivationFuser
ConvActivation(act_type, has_bias) ==
  LET nodes == [input |-> In({<<"conv2d", "Input">>}), filter |-> In({<<"conv2d", "Filter">>}),
                conv2d |-> Op("conv2d", TRUE), act |-> Op(act_type, TRUE),
                conv2d_out |-> Inner({<<"conv2d", "Output">>}, {<<act_type, "X">>}),
                output |-> Out({<<act_type, "Out">>})]
      edges == <<<<"filter", "conv2d">>, <<"input", "conv2d">>, <<"conv2d", "conv2d_out">>,
                 <<"conv2d_out", "act">>, <<"act", "output">>>>
      pattern == [kind |-> "conv_activation", act |-> act_type, nodes |-> nodes, edges |-> edges,
                  links |-> {"input", "filter"}, result |-> "output"]
  IN  IF has_bias
      THEN [pattern EXCEPT !.nodes = Assign(nodes, "bias", In({<<"conv2d", "Bias">>})),
                           !.edges = Append(edges, <<"bias", "conv2d">>),
                           !.links = {"input", "filter", "bias"}]
      ELSE pattern

\* FcFuser
Fc ==
  [kind |-> "fc",
   nodes |-> [x |-> In({<<"mul", "X">>}), W |-> In({<<"mul", "Y">>}),
              b |-> In({<<"elementwise_add", "any">>}),
              mul |-> Op("mul", TRUE), add |-> Op("elementwise_add", TRUE),
              mul_out |-> Inner({}, {<<"elementwise_add", "any">>}), Out |-> Out({})],
   edges |-> <<<<"W", "mul">>, <<"x", "mul">>, <<"mul", "mul_out">>,
               <<"mul_out", "add">>, <<"b", "add">>, <<"add", "Out">>>>,
   links |-> {"W", "x", "b"}, result |-> "Out"]

\* Eliminator, of scales by one and shifts by zero
IdentityScale ==
  [kind |-> "identity_scale",
   nodes |-> [preop |-> Op("any", FALSE), x |-> Inner({}, {<<"scale", "X">>}),
              scale |-> Op("scale", FALSE), out |-> Out({<<"scale", "Out">>})],
   edges |-> <<<<"preop", "x">>, <<"x", "scale">>, <<"scale", "out">>>>]

\* ElementwiseAddActivationFuser
AddActivation ==
  [kind |-> "add_activation", act |-> "relu",
   nodes |-> [x |-> In({<<"elementwise_add", "X">>}), y |-> In({<<"elementwise_add", "Y">>}),
              add |-> Op("elementwise_add", TRUE), act |-> Op("relu", TRUE),
              add_out |-> Inner({<<"elementwise_add", "Out">>}, {<<"relu", "X">>}),
              output |-> Out({<<"relu", "Out">>})],
   edges |-> <<<<"x", "add">>, <<"y", "add">>, <<"add", "add_out">>,
               <<"add_out", "act">>, <<"act", "output">>>>,
   links |-> {"x", "y"}, result |-> "output"]

Fusers ==
  <<ConvElementwise, ConvBN, ConvElementwise,
    ConvActivation("relu", TRUE), ConvActivation("relu", FALSE),
    ConvActivation("leaky_relu", TRUE), ConvActivation("leaky_relu", FALSE),
    Fc, IdentityScale, AddActivation>>

Pattern == Fusers[fuser]
Roles == DOMAIN Pattern.nodes
InnerRoles == {r \in Roles : Pattern.nodes[r].inner}

-----------------------------------------------------------------------------
(* PatternMatcher                                                          *)

Stmt(s) == <<"stmt", s>>
Arg(n) == <<"arg", n>>

Stmts == DOMAIN inlinks

\* Node::outlinks
GraphLinks ==
  UNION {{<<Arg(n), Stmt(s)>> : n \in inlinks[s]} \cup {<<Stmt(s), Arg(n)>> : n \in outlinks[s]} : s \in Stmts}

\* assert_is_op_nth_input, assert_is_op_nth_output
IsInput(n, s, slot) == slot = "any" \/ (slot \in DOMAIN desc[s].in /\ desc[s].in[slot] = n[1])
ReadBy(n, t) == \E s \in Consumers(n) : desc[s].type = t[1] /\ IsInput(n, s, t[2])
WrittenBy(n, t) == \E s \in Producers(n) : desc[s].type = t[1] /\ desc[s].out = n[1]

\* PMNode::Tell
Tell(r, node) ==
  LET pm == Pattern.nodes[r] IN
    IF pm.type = "var"
    THEN /\ node[1] = "arg" /\ (pm.weight => IsWeight(node[2]))
         /\ \A t \in pm.in : ReadBy(node[2], t)
         /\ \A t \in pm.out : WrittenBy(node[2], t)
    ELSE node[1] = "stmt" /\ pm.type \in {"any", desc[node[2]].type}

Hit(group) == {group[r] : r \in DOMAIN group}

\* HitGroup::Match: a node has one role and a role has one node.
Match(group, node, r) ==
  IF r \in DOMAIN group THEN group[r] = node ELSE node \notin Hit(group)

\* One edge of the pattern, over the links of the graph.
Extended(groups, edge) ==
  UNION {{Assign(Assign(group, edge[1], l[1]), edge[2], l[2]) :
            l \in {k \in GraphLinks : /\ Tell(edge[1], k[1]) /\ Tell(edge[2], k[2])
                                      /\ Match(group, k[1], edge[1]) /\ Match(group, k[2], edge[2])}} :
         group \in groups}

\* DetectPatterns and UniquePatterns.  Before the first edge nothing is known.
DetectPatterns ==
  LET groups[k \in 0..Len(Pattern.edges)] ==
        IF k = 0 THEN {NoEntries} ELSE Extended(groups[k - 1], Pattern.edges[k])
  IN  groups[Len(Pattern.edges)]

InnerNodes(match) == {match[r] : r \in InnerRoles}

\* Mutant: the nodes of the matches that are kept are never remembered.
Overlaps_forgotten(match, earlier) == InnerNodes(match) \cap UNION {Hit(earlier[k]) : k \in {}} # {}

Overlaps(match, earlier) == InnerNodes(match) \cap UNION {Hit(earlier[k]) : k \in DOMAIN earlier} # {}

RemoveOverlappedMatch(found) ==
  LET kept[k \in 0..Len(found)] ==
        IF k = 0 THEN <<>>
        ELSE LET earlier == kept[k - 1]
             IN  IF Overlaps(found[k], earlier) THEN earlier ELSE Append(earlier, found[k])
  IN  kept[Len(found)]

\* Mutant: the readers of an intermediate node are not looked at.
StaysInside_producers(match) ==
  \A l \in GraphLinks : l[2] \in InnerNodes(match) => l[1] \in Hit(match)

\* The intermediate nodes are linked inside of the match only.
StaysInside(match) ==
  \A l \in GraphLinks : {l[1], l[2]} \cap InnerNodes(match) # {} => {l[1], l[2]} \subseteq Hit(match)

ValidateByNodeRole(matches) ==
  LET valid[k \in 0..Len(matches)] ==
        IF k = 0 THEN <<>>
        ELSE LET earlier == valid[k - 1]
             IN  IF StaysInside(matches[k]) THEN Append(earlier, matches[k]) ELSE earlier
  IN  valid[Len(matches)]

\* PatternMatcher::operator(); the matches come in the order of unordered_sets.
PerformPatternMatcher ==
  /\ stage = "match" /\ fuser \in DOMAIN Fusers
  /\ \E found \in SetToSeqs(DetectPatterns) :
       matched' = ValidateByNodeRole(RemoveOverlappedMatch(found))
  /\ handled' = 0 /\ stage' = "insert"
  /\ UNCHANGED <<graphVars, fuser, desc, folded, shifted>>

-----------------------------------------------------------------------------
(* InsertNewNode of each fuser                                             *)

Current == matched[handled + 1]
OpOf(r) == Current[r][2]
NodeOf(r) == Current[r][2]
NameOf(r) == NodeOf(r)[1]
OldDesc(r) == desc[OpOf(r)]

OpDesc(type, in, out, act) == [type |-> type, in |-> in, out |-> out, act |-> act]

\* GenOpDesc of each fuser
ConvElementwiseDesc ==
  [OldDesc("conv2d") EXCEPT !.in = Assign(@, "Bias", NameOf("bias")), !.out = NameOf("output")]
ConvActivationDesc == [OldDesc("conv2d") EXCEPT !.out = NameOf("output"), !.act = Pattern.act]
ConvBNDesc ==
  OpDesc("elementwise_add", [X |-> NameOf("conv_out"), Y |-> NameOf("bn_bias")], NameOf("bn_out"), "none")
FcDesc ==
  OpDesc("fc", [Input |-> NameOf("x"), W |-> NameOf("W"), Bias |-> NameOf("b")], NameOf("Out"), "none")
AddActivationDesc ==
  OpDesc("fusion_elementwise_add_activation", [X |-> NameOf("x"), Y |-> NameOf("y")], NameOf("output"), Pattern.act)

GenOpDesc ==
  CASE Pattern.kind = "conv_elementwise" -> ConvElementwiseDesc
    [] Pattern.kind = "conv_activation" -> ConvActivationDesc
    [] Pattern.kind = "conv_bn" -> ConvBNDesc
    [] Pattern.kind = "fc" -> FcDesc
    [] Pattern.kind = "add_activation" -> AddActivationDesc

\* Mutant: the bias of a convolution is only named.
LinkedRoles_noBias == Pattern.links \ {"bias"}

LinkedRoles == Pattern.links

\* Mutant: the weights are left as they were.
Scaled_not(weights, r) == weights

\* What ConvBNFuser writes into the tensors of the weights.
Scaled(weights, r) == [weights EXCEPT ![NameOf(r)] = Append(@, NameOf("bn_scale"))]

InsertNewNode ==
  /\ stage = "insert" /\ handled < Len(matched) /\ Pattern.kind # "identity_scale"
  /\ LET new == Max(Stmts) + 1 IN
       /\ desc' = Assign(desc, new, GenOpDesc)
       /\ inlinks' = Assign(inlinks, new, {NodeOf(r) : r \in LinkedRoles})
       /\ outlinks' = Assign(outlinks, new, {NodeOf(Pattern.result)})
  /\ IF Pattern.kind = "conv_bn"
     THEN folded' = Scaled(folded, "conv_weight") /\ shifted' = Scaled(shifted, "bn_bias")
     ELSE UNCHANGED <<folded, shifted>>
  /\ handled' = handled + 1
  /\ UNCHANGED <<program, built, latest, stage, fuser, matched>>

\* UpdateAllOutputs, and the scale is removed at once.
UpdateOutput ==
  /\ stage = "insert" /\ handled < Len(matched) /\ Pattern.kind = "identity_scale"
  /\ LET pre == OpOf("preop")
         others == Stmts \ {OpOf("scale")}
     IN  /\ desc' = Restrict([desc EXCEPT ![pre].out = IF @ = NameOf("x") THEN NameOf("out") ELSE @], others)
         /\ inlinks' = Restrict(inlinks, others)
         /\ outlinks' = Restrict([outlinks EXCEPT ![pre] = @ \cup {NodeOf("out")}], others)
  /\ handled' = handled + 1
  /\ UNCHANGED <<program, built, latest, stage, fuser, matched, folded, shifted>>

\* DeleteInterNodes, GraphSafeRemoveNodes; then the next fuser is built.
NodesToRemove == UNION {InnerNodes(matched[k]) : k \in DOMAIN matched}

Remaining(links) ==
  [s \in {t \in Stmts : Stmt(t) \notin NodesToRemove} |-> {n \in links[s] : Arg(n) \notin NodesToRemove}]

DeleteInterNodes ==
  /\ stage = "insert" /\ handled = Len(matched)
  /\ inlinks' = Remaining(inlinks) /\ outlinks' = Remaining(outlinks)
  /\ desc' = Restrict(desc, DOMAIN inlinks')
  /\ fuser' = fuser + 1
  /\ stage' = IF fuser = Len(Fusers) THEN "fused" ELSE "match"
  /\ matched' = <<>> /\ handled' = 0
  /\ UNCHANGED <<program, built, latest, folded, shifted>>

-----------------------------------------------------------------------------
BuildGraph == stage = "build" /\ BuildOp /\ UNCHANGED fuseVars

BeginFusing ==
  /\ stage = "build" /\ GraphBuilt
  /\ desc' = program.desc
  /\ stage' = "match" /\ fuser' = 1
  /\ UNCHANGED <<graphVars, matched, handled, folded, shifted>>

Init ==
  /\ GraphInit
  /\ stage = "build" /\ fuser = 0 /\ matched = <<>> /\ handled = 0 /\ desc = NoEntries
  /\ folded = [w \in program.weights |-> <<>>] /\ shifted = [w \in program.weights |-> <<>>]

Next ==
  \/ BuildGraph \/ BeginFusing
  \/ PerformPatternMatcher \/ InsertNewNode \/ UpdateOutput \/ DeleteInterNodes

Spec == Init /\ [][Next]_vars

-----------------------------------------------------------------------------
Settled == stage \in {"match", "fused"}

(* Type invariant: between two fusers the links of a statement are the     *)
(* variables its description names, and a match gives a node to each role. *)
TypeOK ==
  /\ fuser \in 0..(Len(Fusers) + 1) /\ handled \in 0..Len(matched)
  /\ DOMAIN outlinks = Stmts
  /\ \A k \in DOMAIN matched : DOMAIN matched[k] = Roles
  /\ Settled => \A s \in Stmts :
       /\ {n[1] : n \in inlinks[s]} = NamesRead(desc[s])
       /\ {n[1] : n \in outlinks[s]} = {desc[s].out}

(* "The intermediate PMNodes will be removed, so can't shared by multiple  *)
(* patterns": what one match of a fuser deletes is no part of another.     *)
SharesNoInner ==
  \A k, l \in DOMAIN matched : k # l => InnerNodes(matched[k]) \cap Hit(matched[l]) = {}

\* What a variable is computed from: the sum of some terms, each a value that
\* is not a sum, multiplied with the alpha of some batch norms.  A weight holds
\* its own value and the beta of the batch norms that were added to it.
Term(by, what) == [by |-> by, what |-> what]

Activated(act, terms) == IF act = "none" THEN terms ELSE {Term(<<>>, <<act, terms>>)}

\* What an operator makes of what it reads; alpha is folded into its filter.
Terms(op, read, alpha) ==
  CASE op.type = "conv2d" -> {Term(alpha, <<"conv", op.in.Filter, read.Input>>)} \cup read.Bias
    [] op.type = "batch_norm" ->
         {[t EXCEPT !.by = Append(@, op.in.Scale)] : t \in read.X}
           \cup {Term(<<op.in.Scale>>, <<"mean", op.in.Scale>>)} \cup read.Bias
    [] op.type = "mul" -> {Term(<<>>, <<"mul", op.in.Y, read.X>>)}
    [] op.type = "fc" -> {Term(<<>>, <<"mul", op.in.W, read.Input>>)} \cup read.Bias
    [] op.type \in {"relu", "leaky_relu"} -> Activated(op.type, read.X)
    [] OTHER -> read.X \cup read.Y

Result(op, value, alphas) ==
  LET read == [slot \in {"X", "Y", "Input", "Bias"} |->
                 IF slot \in DOMAIN op.in THEN value[op.in[slot]] ELSE {}]
      alpha == IF op.type = "conv2d" THEN alphas[op.in.Filter] ELSE <<>>
  IN  Activated(op.act, Terms(op, read, alpha))

\* What is not computed: an input, or a weight.
Given(x, betas) ==
  {Term(<<>>, <<"var", x>>)}
    \cup {Term(<<b>>, <<"mean", b>>) : b \in IF x \in DOMAIN betas THEN ToSet(betas[x]) ELSE {}}

NamesIn(d) == UNION {{d[s].out} \cup NamesRead(d[s]) : s \in DOMAIN d}
WritersIn(d, x) == {s \in DOMAIN d : d[s].out = x}

Meanings(d, alphas, betas) ==
  LET value[x \in NamesIn(d)] ==
        IF WritersIn(d, x) = {} THEN Given(x, betas)
        ELSE Result(d[CHOOSE s \in WritersIn(d, x) : TRUE], value, alphas)
  IN  value

Fetched(d) == {d[s].in.X : s \in {t \in DOMAIN d : d[t].type = "fetch"}}

(* A fused program computes what the program computed: every variable that *)
(* is fetched has, as a formula over inputs and weights, the meaning it    *)
(* had, whatever was fused, folded into a filter or eliminated.            *)
KeepsMeaning ==
  Settled =>
    LET before == Meanings(program.desc, [w \in program.weights |-> <<>>], NoEntries)
        now == Meanings(desc, folded, shifted)
    IN  /\ Fetched(desc) = Fetched(program.desc)
        /\ \A x \in Fetched(desc) : now[x] = before[x]
=============================================================================
