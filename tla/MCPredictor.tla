----------------------------- MODULE MCPredictor -----------------------------
(* Models, places and calls for the runs of Predictor.                     *)
EXTENDS Predictor, TLC

CONSTANTS c1, c2, l1, host, cl

\* a feed, two operators with a kernel on the device and one without
OneModel == <<{host}, {host, cl}, {host, cl}, {host}>>

\* Preferred places a build has a kernel for and one it has not.
SomeTargets == {[prefer |-> cl, valid |-> {host, cl}], [prefer |-> host, valid |-> {host, cl}],
                [prefer |-> cl, valid |-> {host}]}

SomeColumns == (c1 :> 2) @@ (c2 :> 0) @@ (l1 :> 1)

\* Two builds and two generations each need a lock of the caller.
OneOfAKind == {{"build", "generate"}, {"build", "other"}, {"generate", "other"}, {"other"}}
=============================================================================
