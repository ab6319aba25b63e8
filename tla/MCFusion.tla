------------------------------ MODULE MCFusion ------------------------------
(* Programs of four operators between feed and fetch.                      *)
EXTENDS Fusion

\* The variable operator k writes, 0 the fed one, and weights of operator k.
V(k) == <<k, "Out">>
W(k, slot) == <<k, slot>>

Make(type, in, k) == [type |-> type, in |-> in, out |-> V(k), act |-> "none"]

\* The operators number k may be, with the variable i before it, and j.
Unary(k, i) ==
  {Make("conv2d", [Input |-> V(i), Filter |-> W(k, "Filter")], k),
   Make("batch_norm", [X |-> V(i), Scale |-> W(k, "Scale"), Bias |-> W(k, "Bias")], k),
   Make("elementwise_add", [X |-> V(i), Y |-> W(k, "Y")], k),
   Make("mul", [X |-> V(i), Y |-> W(k, "Y")], k)}
  \cup {Make(type, [X |-> V(i)], k) : type \in {"relu", "leaky_relu", "scale"}}
Binary(k, i, j) ==
  {Make("elementwise_add", [X |-> V(i), Y |-> V(j)], k), Make("elementwise_add", [X |-> V(j), Y |-> V(i)], k)}

Candidates(k) == Unary(k, k - 1) \cup IF k = 1 THEN {} ELSE Unary(k, k - 2) \cup Binary(k, k - 1, k - 2)
Bodies == {<<p, q, r, s>> : p \in Candidates(1), q \in Candidates(2), r \in Candidates(3), s \in Candidates(4)}

AllRead(body) == UNION {NamesRead(body[k]) : k \in DOMAIN body}

\* What no operator reads is fetched.
Prog(body) ==
  LET n == Len(body)
      results == SetToSortSeq({k \in 0..n : V(k) \notin AllRead(body)}, <)
      descs == <<[type |-> "feed", in |-> [X |-> <<0, "feed">>], out |-> V(0), act |-> "none"]>> \o body
                 \o [k \in DOMAIN results |-> [type |-> "fetch", in |-> [X |-> V(results[k])],
                                               out |-> <<results[k], "fetch">>, act |-> "none"]]
  IN  [ops |-> [k \in DOMAIN descs |-> [type |-> descs[k].type, in |-> NamesRead(descs[k]),
                                        out |-> {descs[k].out}, target |-> "any"]],
       weights |-> AllRead(body) \ {V(k) : k \in 0..n},
       desc |-> descs]

SoundPrograms == {p \in {Prog(body) : body \in Bodies} : Fusable(p)}

\* A bias between a convolution and a batch norm, with which KeepsMeaning is
\* violated: the bias is not scaled.
BiasPrograms ==
  {p \in {Prog(body) : body \in Bodies} :
     /\ ~NoBiasBefore(p.desc, p.weights)
     /\ Matchable(p) /\ OneReader(p.desc) /\ OneActivation(p.desc)}

MCName == (0..9) \X {"Out", "feed", "fetch", "Filter", "Scale", "Bias", "Y"}
MCOpType == {"feed", "fetch", "conv2d", "batch_norm", "elementwise_add", "mul", "relu", "leaky_relu", "scale"}
=============================================================================
