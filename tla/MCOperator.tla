------------------------------ MODULE MCOperator ------------------------------
(* Operator on small instances. *)
EXTENDS Operator, TLC

Act(plugin, gated) == [plugin |-> plugin, gated |-> gated, onFailure |-> "stop"]

Ungated == <<Act("annotate", FALSE)>>

MCPlugins     == {"annotate", "notify", "isolate"}
EitherPipeline == {<<Act("isolate", TRUE)>>, Ungated}
OnlyUngated   == {Ungated}
OneTarget     == {<<"deployment">>}
AnyTargets    == {<<>>, <<"deployment">>}
MCTargets     == {"deployment", "namespace"}
OneGatedEach  == {<<Act("isolate", TRUE)>>}

(* Pipelines a policy can be edited between. *)
EditedPipelines    == {<<Act("isolate", TRUE)>>, <<Act("annotate", TRUE)>>}
ShortenedPipelines ==
  {<<Act("annotate", FALSE), Act("notify", FALSE), Act("isolate", TRUE)>>,
   <<Act("annotate", FALSE)>>}
TrimmedPipelines ==    \* the edit leaves nothing behind the gate
  {<<Act("annotate", FALSE), Act("isolate", TRUE)>>, <<Act("annotate", FALSE)>>}

(* What clients rewrite a gate to: the whole pipeline, with the deadline   *)
(* put off; or nothing held and no target.                                 *)
MCRewrites ==
  {[index |-> 0, held |-> <<"isolate">>, targets |-> <<"deployment">>, expires |-> 3],
   [index |-> 1, held |-> <<>>, targets |-> <<>>, expires |-> 2]}
SecondGated == {<<Act("annotate", FALSE), Act("isolate", TRUE)>>}

Symmetry == Permutations(Audits) \cup Permutations(Users)
=============================================================================
