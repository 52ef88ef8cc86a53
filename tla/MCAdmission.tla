----------------------------- MODULE MCAdmission -----------------------------
(* Admission on small instances: values on both sides of every bound. *)
EXTENDS Admission

Act(plugin, gated, valid) == [plugin |-> plugin, gated |-> gated, valid |-> valid]

MCPlugins == {"k8s.annotate", "notify.slack"}
MCIrreversible == {"notify.slack"}
MCValues == {1, 2, NaN}

MCBase ==
  [source |-> "prometheus", endpoint |-> "good", query |-> "errors",
   threshold |-> 1, operator |-> "GreaterThan",
   duration |-> 3, pollInterval |-> 3, cooldown |-> 30, approvalTimeout |-> 0,
   maxTriggersPerHour |-> 0, maxResources |-> 1, allowIrreversible |-> FALSE,
   retention |-> 0, actions |-> <<Act("k8s.annotate", FALSE, TRUE)>>]

MCChoices ==
  [source |-> {"datadog"}, endpoint |-> {"good", "bad"},
   query |-> {"errors", "latency"}, threshold |-> {1, NaN, Unparsable},
   operator |-> {"GreaterThan", "GreaterThanOrEqual", "LessThan", "LessThanOrEqual",
                 "Equal", "NotEqual"},
   duration |-> {2, 3, 4, 8641}, pollInterval |-> {-1, 0, 30, 31},
   cooldown |-> {-1, 0, 2, 3, 8641}, approvalTimeout |-> {0, 5, 6, 8641},
   maxTriggersPerHour |-> {0, 60, 61}, maxResources |-> {0, 1, 101},
   allowIrreversible |-> BOOLEAN, retention |-> {0},
   actions |-> {<<>>, <<Act("k8s.annotate", FALSE, TRUE)>>,
                <<Act("k8s.annotate", FALSE, FALSE)>>,
                <<Act("k8s.annotate", TRUE, TRUE), Act("notify.slack", TRUE, TRUE)>>,
                <<Act("k8s.annotate", FALSE, TRUE), Act("notify.slack", TRUE, TRUE)>>}]

LongRetention == [MCChoices EXCEPT !.retention = {30, 365, 366, 109500}]
==============================================================================
