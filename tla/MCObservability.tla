---------------------------- MODULE MCObservability ----------------------------
(* Observability on small instances. *)
EXTENDS Observability

Act(plugin, gated) == [plugin |-> plugin, gated |-> gated, onFailure |-> "continue"]

MCPlugins == {"annotate", "notify"}
MCTargets == {"deployment", "namespace"}
OneTarget == {<<"deployment">>}

(* An action before the gate and one behind it; no gate. *)
Either == {<<Act("annotate", FALSE), Act("notify", TRUE)>>, <<Act("annotate", FALSE)>>}
=============================================================================
