------------------------------ MODULE Admission ------------------------------
(***************************************************************************)
(* A policy from its manifest to its trigger: the CRD schema and the       *)
(* validating webhook (internal/webhook/v1alpha1/reactivepolicy_webhook.go *)
(* with the plugin registry), the metric query and the comparison          *)
(* (internal/prometheus), the sliding window, the target cap, and          *)
(* `rp policy dry-run` (pkg/cli/policy.go).                                *)
(*                                                                         *)
(* Operator takes the timings, the pipelines and the outcome of every      *)
(* evaluation as given; here they come from what users submit.  In return  *)
(* gates 0 to 2, which only leave evaluations out, are not repeated: a     *)
(* reconcile comes whenever it comes.  One unit of time is 10 seconds.     *)
(***************************************************************************)
EXTENDS Integers, Sequences, FiniteSets

CONSTANTS
  Base,          \* the spec of the policy users start from
  Choices,       \* what they may set each field to
  Plugins,       \* every plugin name; Irreversible, those that cannot be undone
  Irreversible,
  NaN,           \* the float that is not a number
  Unparsable,    \* a threshold that is not a float
  Values,        \* the floats the metric can take
  MaxMatches,    \* bound: resources the selector matches
  MaxTime,       \* bound: last tick of the clock
  MaxEdits       \* bound: manifests applied, deletions and upgrades

VARIABLES
  now,
  live, spec,    \* the stored policy
  registry,      \* the plugins compiled into the running operator
  window,        \* SlidingWindow.crossedAt
  streak,        \* history: since when every evaluation found the present
                 \* policy's condition met
  touched,       \* history: its condition was edited, or the policy replaced,
                 \* in this window
  fired,         \* history: the last trigger
  edits

vars == <<now, live, spec, registry, window, streak, touched, fired, edits>>

Never   == -1
Time    == 0..MaxTime
Fields  == DOMAIN Base
NoFire  == [sustained |-> TRUE, touched |-> FALSE, optedIn |-> TRUE]

(* One unit is 10s: the floors and ceilings of the webhook ... *)
Cooldowns == 3..8640
PollIntervals == 1..30
Durations == 3..8640
ApprovalTimeouts == 6..8640

(* ... and the reconciler's defaults for a field that is 0 or absent. *)
OrDefault(v, d) == IF v > 0 THEN v ELSE d
PollInterval(s)    == OrDefault(s.pollInterval, 3)
CooldownOf(s)      == OrDefault(s.cooldown, 30)
ApprovalTimeout(s) == OrDefault(s.approvalTimeout, 180)
MaxTriggers(s)     == OrDefault(s.maxTriggersPerHour, 5)
MaxResources(s)    == OrDefault(s.maxResources, 10)

(* retentionFor in days: 0 is absent, and the product with time.Hour * 24  *)
(* wraps around at 2^63 nanoseconds, 106751 days.                          *)
WrapDays == 213504
RetentionFor(s) ==
  IF s.retention = 0 THEN 30 ELSE ((s.retention + 106751) % WrapDays) - 106751

-----------------------------------------------------------------------------
(* Admission. *)

(* The OpenAPI schema; 0 stands for an absent field. *)
Schema(s) ==
  /\ s.maxTriggersPerHour = 0 \/ s.maxTriggersPerHour \in 1..60
  /\ s.maxResources = 0 \/ s.maxResources \in 1..100
  /\ s.actions # <<>>

ValidateObserve(s) ==
  /\ s.source = "prometheus"
  /\ s.duration \in Durations
  /\ s.pollInterval # 0 => s.pollInterval \in PollIntervals

ValidateTimingsCeilings(s) ==          \* variant: the floors are left out
  /\ s.cooldown <= 8640 /\ s.approvalTimeout <= 8640

ValidateTimings(s) ==
  /\ s.cooldown # 0 => s.cooldown \in Cooldowns
  /\ s.approvalTimeout # 0 => s.approvalTimeout \in ApprovalTimeouts

(* A pipeline holds once; every plugin is in the webhook's registry,       *)
(* accepts its params and can be undone or is opted in to.                 *)
ValidateActionsUngated(s, known) ==    \* variant: an approval replaces the opt-in
  /\ Cardinality({i \in 1..Len(s.actions) : s.actions[i].gated}) <= 1
  /\ \A i \in 1..Len(s.actions) :
       /\ s.actions[i].plugin \in known
       /\ s.actions[i].valid
       /\ s.actions[i].plugin \in Irreversible => s.allowIrreversible \/ s.actions[i].gated

ValidateActions(s, known) ==
  /\ Cardinality({i \in 1..Len(s.actions) : s.actions[i].gated}) <= 1
  /\ \A i \in 1..Len(s.actions) :
       /\ s.actions[i].plugin \in known
       /\ s.actions[i].valid
       /\ s.actions[i].plugin \in Irreversible => s.allowIrreversible

Admitted(s, known) ==
  Schema(s) /\ ValidateObserve(s) /\ ValidateTimings(s) /\ ValidateActions(s, known)

-----------------------------------------------------------------------------
(* The metric. *)

(* What Prometheus can answer. *)
Answers ==
  [type : {"error", "matrix"}] \cup [type : {"scalar"}, value : Values]
    \cup [type : {"vector"}, samples : {<<>>} \cup {<<v>> : v \in Values}
                                        \cup {<<v, v>> : v \in Values}]

(* NewClient: the endpoint has to be a URL.                                *)
NewClientOk(s) == s.endpoint # "bad"

(* client.Query: no error for a scalar and for a vector of one sample.     *)
QueryOk(ans) == ans.type = "scalar" \/ (ans.type = "vector" /\ Len(ans.samples) = 1)
Sample(ans)  == IF ans.type = "scalar" THEN ans.value ELSE ans.samples[1]

(* ParseThreshold: "NaN" is a float, too.                                  *)
ThresholdOk(s) == s.threshold # Unparsable

(* Compare on IEEE floats: with NaN on either side only != holds.          *)
Compare(v, t, op) ==
  IF NaN \in {v, t} THEN op = "NotEqual"
  ELSE CASE op = "GreaterThan" -> v > t [] op = "GreaterThanOrEqual" -> v >= t
         [] op = "LessThan" -> v < t    [] op = "LessThanOrEqual" -> v <= t
         [] op = "Equal" -> v = t       [] op = "NotEqual" -> v # t

(* One evaluation: the client, the query, the threshold, the comparison.   *)
Evaluate(s, ans) ==
  IF ~NewClientOk(s) THEN "clientError"
  ELSE IF ~QueryOk(ans) THEN "queryError"
  ELSE IF ~ThresholdOk(s) THEN "invalidThreshold"
  ELSE IF Compare(Sample(ans), s.threshold, s.operator) THEN "crossed" ELSE "within"

(* dryRun: WouldTrigger, with the command's own registry of plugins.       *)
DryRunAnySample(s, ans) ==             \* variant: takes the first of several samples
  LET v == IF ans.type = "scalar" THEN ans.value ELSE ans.samples[1]
  IN  /\ \A i \in 1..Len(s.actions) : s.actions[i].plugin \in Plugins /\ s.actions[i].valid
      /\ NewClientOk(s)
      /\ ans.type \in {"scalar", "vector"} /\ (ans.type = "vector" => ans.samples # <<>>)
      /\ ThresholdOk(s) /\ Compare(v, s.threshold, s.operator)

DryRun(s, ans) ==
  /\ \A i \in 1..Len(s.actions) : s.actions[i].plugin \in Plugins /\ s.actions[i].valid
  /\ NewClientOk(s) /\ QueryOk(ans) /\ ThresholdOk(s)
  /\ Compare(Sample(ans), s.threshold, s.operator)

-----------------------------------------------------------------------------
(* The fields that say what is measured and against what. *)
Condition == {"endpoint", "query", "threshold", "operator"}

(* The policy users start from was admitted by an operator with every      *)
(* plugin.                                                                 *)
ASSUME AdmissionAssumption ==
  /\ MaxTime \in Nat /\ MaxEdits \in Nat
  /\ Condition \subseteq DOMAIN Base
  /\ Admitted(Base, Plugins)

Init ==
  /\ now = 0
  /\ registry = Plugins
  /\ live = TRUE /\ spec = Base
  /\ window = Never /\ streak = Never /\ touched = FALSE
  /\ fired = NoFire /\ edits = 0

Tick ==
  /\ now < MaxTime
  /\ now' = now + 1
  /\ UNCHANGED <<live, spec, registry, window, streak, touched, fired, edits>>

(* Users. *)

(* kubectl apply of a manifest that differs in one field; an invalid one   *)
(* is refused and changes nothing.                                         *)
Apply(f, v) ==
  LET s == [spec EXCEPT ![f] = v]
  IN  /\ live /\ edits < MaxEdits /\ s # spec
      /\ Admitted(s, registry)
      /\ spec' = s
      /\ IF f \in Condition
         THEN streak' = Never /\ touched' = (window # Never)
         ELSE UNCHANGED <<streak, touched>>
      /\ edits' = edits + 1
      /\ UNCHANGED <<now, live, registry, window, fired>>

Delete ==
  /\ live /\ edits < MaxEdits
  /\ live' = FALSE
  /\ edits' = edits + 1
  /\ UNCHANGED <<now, spec, registry, window, streak, touched, fired>>

Recreate ==
  /\ ~live /\ Admitted(spec, registry)
  /\ live' = TRUE
  /\ streak' = Never /\ touched' = (window # Never)
  /\ UNCHANGED <<now, spec, registry, window, fired, edits>>

(* A restart, possibly with another set of plugins; the stored policy is   *)
(* not validated again.                                                    *)
Restart(plugins) ==
  /\ edits < MaxEdits
  /\ registry' = plugins
  /\ window' = Never /\ streak' = Never /\ touched' = FALSE
  /\ edits' = edits + 1
  /\ UNCHANGED <<now, live, spec, fired>>

-----------------------------------------------------------------------------
(* The policy reconciler. *)

NotFound ==
  /\ ~live
  /\ window' = Never /\ streak' = Never /\ touched' = FALSE
  /\ UNCHANGED <<now, live, spec, registry, fired, edits>>

(* The metric is unreachable or within bounds: the window is emptied. *)
ResetWithinOnly(outcome) == outcome = "within"   \* variant: a failed query is skipped over

Resets(outcome) == outcome \in {"queryError", "within"}

ObserveNot(ans) ==
  LET outcome == Evaluate(spec, ans)
  IN  /\ live /\ outcome # "crossed"
      /\ window' = IF Resets(outcome) THEN Never ELSE window
      /\ streak' = Never
      /\ touched' = IF Resets(outcome) THEN FALSE ELSE touched
      /\ UNCHANGED <<now, live, spec, registry, fired, edits>>

(* The condition is met: the window starts, or runs on. *)
SinceNextPoll(start) ==                \* variant: from the next poll on
  IF start = Never THEN now + PollInterval(spec) ELSE start

Since(start) == IF start = Never THEN now ELSE start

Sustained == now - Since(window) >= spec.duration

ObserveCrossed(ans) ==
  /\ live /\ Evaluate(spec, ans) = "crossed" /\ ~Sustained
  /\ window' = Since(window) /\ streak' = Since(streak)
  /\ UNCHANGED <<now, live, spec, registry, touched, fired, edits>>

(* resolveTargets refuses: the window runs on. *)
Refuse(ans, n) ==
  /\ live /\ Evaluate(spec, ans) = "crossed" /\ Sustained
  /\ n > MaxResources(spec)
  /\ window' = Since(window) /\ streak' = Since(streak)
  /\ UNCHANGED <<now, live, spec, registry, touched, fired, edits>>

(* trigger.  Its plugins are called at once or, behind a gate, once it is  *)
(* released; one that is not registered fails without a call.              *)
Called == {spec.actions[i].plugin : i \in 1..Len(spec.actions)} \cap registry

Trigger(ans, n) ==
  /\ live /\ Evaluate(spec, ans) = "crossed" /\ Sustained
  /\ n <= MaxResources(spec)
  /\ fired' = [sustained |-> now - Since(streak) >= spec.duration,
               touched   |-> touched,
               optedIn   |-> Called \cap Irreversible # {} => spec.allowIrreversible]
  /\ window' = Never /\ streak' = Never /\ touched' = FALSE
  /\ UNCHANGED <<now, live, spec, registry, edits>>

Next ==
  \/ Tick
  \/ \E f \in Fields : \E v \in Choices[f] : Apply(f, v)
  \/ Delete
  \/ Recreate
  \/ \E plugins \in SUBSET Plugins : Restart(plugins)
  \/ NotFound
  \/ \E ans \in Answers : ObserveNot(ans)
  \/ \E ans \in Answers : ObserveCrossed(ans)
  \/ \E ans \in Answers, n \in 0..MaxMatches : Refuse(ans, n)
  \/ \E ans \in Answers, n \in 0..MaxMatches : Trigger(ans, n)

Spec == Init /\ [][Next]_vars
TypeOK ==
  /\ now \in Time /\ edits \in 0..MaxEdits
  /\ live \in BOOLEAN /\ touched \in BOOLEAN
  /\ DOMAIN spec = Fields /\ \A f \in Fields : spec[f] \in Choices[f] \cup {Base[f]}
  /\ registry \subseteq Plugins
  /\ window \in Time \cup {Never} /\ streak \in Time \cup {Never}
  /\ window # Never => window <= now

-----------------------------------------------------------------------------
(* The timings the reconcilers work with, defaults applied, are within     *)
(* their documented bounds whatever users apply in whatever order          *)
(* (validateObserve, validateTimings, the schema and the ...OrDefault      *)
(* functions): what the other modules assume of them.                      *)
EffectiveTimings ==
  live =>
    /\ spec.duration \in Durations /\ PollInterval(spec) \in PollIntervals
    /\ CooldownOf(spec) \in Cooldowns /\ ApprovalTimeout(spec) \in ApprovalTimeouts
    /\ MaxTriggers(spec) \in 1..60 /\ MaxResources(spec) \in 1..100

(* A plugin that cannot be undone is called only for a policy that opted   *)
(* in, through any sequence of edits and upgrades (validateActions; nobody *)
(* checks again when the pipeline runs).                                   *)
IrreversibleOptedIn == fired.optedIn

(* A dry run of the stored policy predicts the operator: with the same     *)
(* plugins and the same answer it says "would trigger" exactly if the      *)
(* reconciler finds the threshold crossed (dryRun, Query, Reconcile).      *)
DryRunAgrees ==
  live /\ registry = Plugins =>
    \A ans \in Answers : DryRun(spec, ans) <=> Evaluate(spec, ans) = "crossed"

(* A pipeline runs only if every evaluation of the last duration found the *)
(* condition met, failed ones counting against it, as long as nobody       *)
(* edited that condition or replaced the policy meanwhile (the error paths *)
(* of Reconcile that leave the window alone are reached by an edit only).  *)
SustainedUnlessEdited == fired.sustained \/ fired.touched

(* ... and, as the documentation has it, without that exception.           *)
SpikeNeverTriggers == fired.sustained

(* Records are kept for a year at the most.                                *)
RetentionBounded == live => RetentionFor(spec) <= 365
=============================================================================
