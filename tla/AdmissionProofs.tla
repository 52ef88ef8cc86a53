--------------------------- MODULE AdmissionProofs ---------------------------
(***************************************************************************)
(* From the manifest to the trigger, for every set of plugins, every       *)
(* choice of field values, every answer of Prometheus and any number of    *)
(* edits, deletions and upgrades.                                          *)
(***************************************************************************)
EXTENDS Admission, TLAPS

(* What the webhook made sure of stays true of the stored policy, whatever *)
(* the operator that admitted it could do since.                           *)
SpecOk(s) == Admitted(s, Plugins)

(* The window and the run of crossings behind it: as long as the condition *)
(* is the one the window was started for, the run goes back at least as    *)
(* far, and the evaluation errors that leave the window alone cannot       *)
(* happen.                                                                 *)
RunInv ==
  /\ streak # Never => streak <= now
  /\ window # Never /\ ~touched =>
       /\ streak # Never /\ streak <= window
       /\ NewClientOk(spec) /\ ThresholdOk(spec)

AdmissionInv ==
  /\ TypeOK /\ SpecOk(spec) /\ RunInv
  /\ fired.optedIn /\ (fired.sustained \/ fired.touched)

(* A registry with more plugins admits what a smaller one does. *)
LEMMA AdmittedByMore ==
  ASSUME NEW s, NEW known, known \subseteq Plugins, Admitted(s, known)
  PROVE  SpecOk(s)
BY DEF SpecOk, Admitted, ValidateActions

(* The condition is found met only where it can be evaluated. *)
LEMMA CrossedMeans ==
  ASSUME NEW s, NEW ans
  PROVE  Evaluate(s, ans) = "crossed" <=>
           /\ NewClientOk(s) /\ QueryOk(ans) /\ ThresholdOk(s)
           /\ Compare(Sample(ans), s.threshold, s.operator)
BY DEF Evaluate

LEMMA ResetsUnlessEdited ==
  ASSUME NEW s, NEW ans, NewClientOk(s), ThresholdOk(s), Evaluate(s, ans) # "crossed"
  PROVE  Resets(Evaluate(s, ans))
BY DEF Evaluate, Resets

LEMMA InitAdmission == Init => AdmissionInv
<1> SUFFICES ASSUME Init PROVE AdmissionInv
  OBVIOUS
<1>1. TypeOK
  <2>1. now \in Time /\ edits \in 0..MaxEdits /\ window = Never /\ streak = Never
    BY AdmissionAssumption DEF Init, Time
  <2>2. live \in BOOLEAN /\ touched \in BOOLEAN /\ registry \subseteq Plugins
    BY DEF Init
  <2>3. DOMAIN spec = Fields /\ \A f \in Fields : spec[f] \in Choices[f] \cup {Base[f]}
    BY DEF Init, Fields
  <2> QED BY <2>1, <2>2, <2>3 DEF TypeOK
<1>2. SpecOk(spec)
  BY AdmissionAssumption DEF Init, SpecOk
<1>3. RunInv
  BY DEF Init, RunInv
<1>4. fired.optedIn /\ (fired.sustained \/ fired.touched)
  BY DEF Init, NoFire
<1> QED BY <1>1, <1>2, <1>3, <1>4 DEF AdmissionInv

LEMMA Types ==
  ASSUME TypeOK
  PROVE  /\ now \in Nat /\ edits \in Nat
         /\ window = Never \/ (window \in Nat /\ window <= now)
         /\ streak = Never \/ streak \in Nat
         /\ window \in Int /\ streak \in Int
         /\ DOMAIN spec = DOMAIN Base
BY AdmissionAssumption DEF TypeOK, Time, Never, Fields

(* A policy the webhook admitted has a duration worth the name. *)
LEMMA DurationPositive ==
  ASSUME SpecOk(spec)
  PROVE  spec.duration \in Nat /\ spec.duration > 0
<1>1. spec.duration \in Durations
  BY DEF SpecOk, Admitted, ValidateObserve
<1>2. \A d \in Durations : d \in Nat /\ d > 0
  BY DEF Durations
<1> QED BY <1>1, <1>2

(* A field that is absent or within its bounds is within them once          *)
(* defaulted.                                                               *)
LEMMA OrDefaultBounds ==
  /\ \A v \in {0} \cup PollIntervals : OrDefault(v, 3) \in PollIntervals
  /\ \A v \in {0} \cup Cooldowns : OrDefault(v, 30) \in Cooldowns
  /\ \A v \in {0} \cup ApprovalTimeouts : OrDefault(v, 180) \in ApprovalTimeouts
  /\ \A v \in {0} \cup 1..60 : OrDefault(v, 5) \in 1..60
  /\ \A v \in {0} \cup 1..100 : OrDefault(v, 10) \in 1..100
<1>1. \A v \in {0} \cup PollIntervals : OrDefault(v, 3) \in PollIntervals
  BY DEF OrDefault, PollIntervals
<1>2. \A v \in {0} \cup Cooldowns : OrDefault(v, 30) \in Cooldowns
  BY DEF OrDefault, Cooldowns
<1>3. \A v \in {0} \cup ApprovalTimeouts : OrDefault(v, 180) \in ApprovalTimeouts
  BY DEF OrDefault, ApprovalTimeouts
<1>4. \A v \in {0} \cup 1..60 : OrDefault(v, 5) \in 1..60
  BY DEF OrDefault
<1>5. \A v \in {0} \cup 1..100 : OrDefault(v, 10) \in 1..100
  BY DEF OrDefault
<1> QED BY <1>1, <1>2, <1>3, <1>4, <1>5

(* The users' steps. *)
LEMMA ApplyKeeps ==
  ASSUME AdmissionInv, NEW f \in Fields, NEW v \in Choices[f], Apply(f, v)
  PROVE  AdmissionInv'
<1> DEFINE s == [spec EXCEPT ![f] = v]
<1>1. /\ spec' = s /\ Admitted(s, registry) /\ edits < MaxEdits /\ edits' = edits + 1
      /\ UNCHANGED <<now, live, registry, window, fired>>
      /\ f \in Condition => streak' = Never /\ touched' = (window # Never)
      /\ f \notin Condition => UNCHANGED <<streak, touched>>
  BY DEF Apply
<1>2. TypeOK /\ SpecOk(spec) /\ RunInv /\ DOMAIN spec = DOMAIN Base
  BY Types DEF AdmissionInv
<1>3. SpecOk(s)
  BY <1>1, <1>2, AdmittedByMore DEF TypeOK
<1>4. TypeOK'
  <2>1. DOMAIN s = Fields /\ \A g \in Fields : s[g] \in Choices[g] \cup {Base[g]}
    BY <1>2 DEF TypeOK
  <2>2. edits' \in 0..MaxEdits
    BY <1>1, <1>2, AdmissionAssumption DEF TypeOK
  <2>3. touched' \in BOOLEAN /\ streak' \in Time \cup {Never}
    BY <1>1, <1>2 DEF TypeOK
  <2> QED BY <1>1, <1>2, <2>1, <2>2, <2>3 DEF TypeOK
<1>5. RunInv'
  <2>1. CASE f \in Condition
    BY <1>1, <2>1 DEF RunInv
  <2>2. CASE f \notin Condition
    <3>1. s.endpoint = spec.endpoint /\ s.threshold = spec.threshold
      BY <1>2, <2>2, AdmissionAssumption DEF Condition
    <3>2. (NewClientOk(s) <=> NewClientOk(spec)) /\ (ThresholdOk(s) <=> ThresholdOk(spec))
      BY <3>1 DEF NewClientOk, ThresholdOk
    <3> QED BY <1>1, <1>2, <2>2, <3>2 DEF RunInv
  <2> QED BY <2>1, <2>2
<1> QED BY <1>1, <1>3, <1>4, <1>5 DEF AdmissionInv

LEMMA UsersKeep ==
  ASSUME AdmissionInv,
         Tick \/ Delete \/ Recreate \/ (\E plugins \in SUBSET Plugins : Restart(plugins))
  PROVE  AdmissionInv'
<1>0. TypeOK /\ SpecOk(spec) /\ RunInv
  BY DEF AdmissionInv
<1>1. CASE Tick
  <2>1. now' = now + 1 /\ now' \in Time
    BY <1>0, <1>1, AdmissionAssumption DEF Tick, TypeOK, Time
  <2>2. UNCHANGED <<live, spec, registry, window, streak, touched, fired, edits>>
    BY <1>1 DEF Tick
  <2>3. TypeOK'
    BY <1>0, <2>1, <2>2, Types DEF TypeOK
  <2>4. RunInv'
    BY <1>0, <2>1, <2>2, Types DEF RunInv
  <2> QED BY <2>2, <2>3, <2>4 DEF AdmissionInv
<1>2. CASE Delete
  <2>1. edits' \in 0..MaxEdits
    BY <1>0, <1>2, AdmissionAssumption DEF Delete, TypeOK
  <2>2. live' \in BOOLEAN /\ UNCHANGED <<now, spec, registry, window, streak, touched, fired>>
    BY <1>2 DEF Delete
  <2> QED BY <1>0, <2>1, <2>2 DEF AdmissionInv, TypeOK, RunInv
<1>3. CASE Recreate
  <2>1. /\ live' \in BOOLEAN /\ streak' = Never /\ touched' = (window # Never)
        /\ UNCHANGED <<now, spec, registry, window, fired, edits>>
    BY <1>3 DEF Recreate
  <2>2. TypeOK'
    BY <1>0, <2>1 DEF TypeOK
  <2>3. RunInv'
    BY <2>1 DEF RunInv
  <2> QED BY <2>1, <2>2, <2>3 DEF AdmissionInv
<1>4. ASSUME NEW plugins \in SUBSET Plugins, Restart(plugins)
      PROVE  AdmissionInv'
  <2>1. edits' \in 0..MaxEdits
    BY <1>0, <1>4, AdmissionAssumption DEF Restart, TypeOK
  <2>2. /\ registry' \subseteq Plugins /\ window' = Never /\ streak' = Never /\ touched' = FALSE
        /\ UNCHANGED <<now, live, spec, fired>>
    BY <1>4 DEF Restart
  <2>3. TypeOK'
    BY <1>0, <2>1, <2>2 DEF TypeOK
  <2>4. RunInv'
    BY <2>2 DEF RunInv
  <2> QED BY <2>2, <2>3, <2>4 DEF AdmissionInv
<1> QED BY <1>1, <1>2, <1>3, <1>4

(* The reconciler's steps. *)
LEMMA WindowEmptied ==
  ASSUME AdmissionInv, UNCHANGED <<now, live, spec, registry, fired, edits>>,
         window' = Never, streak' = Never, touched' = FALSE
  PROVE  AdmissionInv'
<1>1. TypeOK' /\ RunInv'
  BY DEF AdmissionInv, TypeOK, RunInv
<1> QED BY <1>1 DEF AdmissionInv

LEMMA WindowRuns ==
  ASSUME AdmissionInv, NEW ans, Evaluate(spec, ans) = "crossed",
         window' = Since(window), streak' = Since(streak),
         UNCHANGED <<now, live, spec, registry, touched, fired, edits>>
  PROVE  AdmissionInv'
<1>0. TypeOK /\ SpecOk(spec) /\ RunInv
  BY DEF AdmissionInv
<1>1. TypeOK'
  <2>1. window' \in Time \cup {Never} /\ streak' \in Time \cup {Never}
    BY <1>0 DEF TypeOK, Since
  <2>2. window' <= now
    BY <1>0, Types DEF Since
  <2> QED BY <1>0, <2>1, <2>2 DEF TypeOK
<1>2. NewClientOk(spec) /\ ThresholdOk(spec)
  BY CrossedMeans
<1>3. streak' # Never /\ streak' <= now
  BY <1>0, Types DEF Since, RunInv, Never
<1>4. ~touched => streak' <= window'
  BY <1>0, Types DEF Since, RunInv, Never
<1>5. RunInv'
  BY <1>2, <1>3, <1>4 DEF RunInv
<1> QED BY <1>1, <1>5 DEF AdmissionInv

LEMMA ObserveNotKeeps ==
  ASSUME AdmissionInv, NEW ans, ObserveNot(ans)
  PROVE  AdmissionInv'
<1>0. TypeOK /\ SpecOk(spec) /\ RunInv
  BY DEF AdmissionInv
<1>1. /\ Evaluate(spec, ans) # "crossed" /\ streak' = Never
      /\ UNCHANGED <<now, live, spec, registry, fired, edits>>
  BY DEF ObserveNot
<1>2. CASE Resets(Evaluate(spec, ans))
  BY <1>1, <1>2, WindowEmptied DEF ObserveNot
<1>3. CASE ~Resets(Evaluate(spec, ans))
  <2>1. UNCHANGED <<window, touched>>
    BY <1>3 DEF ObserveNot
  <2>2. ~(window # Never /\ ~touched)
    BY <1>0, <1>1, <1>3, ResetsUnlessEdited DEF RunInv
  <2>3. TypeOK' /\ RunInv'
    BY <1>0, <1>1, <2>1, <2>2 DEF TypeOK, RunInv
  <2> QED BY <1>1, <2>3 DEF AdmissionInv
<1> QED BY <1>2, <1>3

LEMMA TriggerKeeps ==
  ASSUME AdmissionInv, NEW ans, NEW n, Trigger(ans, n)
  PROVE  AdmissionInv'
<1>0. TypeOK /\ SpecOk(spec) /\ RunInv
  BY DEF AdmissionInv
<1>1. PICK f : /\ f = [sustained |-> now - Since(streak) >= spec.duration,
                       touched   |-> touched,
                       optedIn   |-> Called \cap Irreversible # {} => spec.allowIrreversible]
               /\ fired' = f
  BY DEF Trigger
<1>2. Called \cap Irreversible # {} => spec.allowIrreversible
  BY <1>0 DEF Called, SpecOk, Admitted, ValidateActions
<1>3. touched \/ now - Since(streak) >= spec.duration
  <2>1. now - Since(window) >= spec.duration
    BY DEF Trigger, Sustained
  <2>2. window # Never
    BY <1>0, <2>1, Types, DurationPositive DEF Since
  <2>3. ~touched => streak # Never /\ streak <= window
    BY <1>0, <2>2 DEF RunInv
  <2> QED BY <1>0, <2>1, <2>2, <2>3, Types, DurationPositive DEF Since
<1>4. f.optedIn /\ (f.sustained \/ f.touched)
  BY <1>1, <1>2, <1>3
<1>5. /\ window' = Never /\ streak' = Never /\ touched' = FALSE
      /\ UNCHANGED <<now, live, spec, registry, edits>>
  BY DEF Trigger
<1>6. TypeOK' /\ RunInv'
  BY <1>0, <1>5 DEF TypeOK, RunInv
<1>7. SpecOk(spec)'
  BY <1>0, <1>5
<1> QED BY <1>1, <1>4, <1>6, <1>7 DEF AdmissionInv

LEMMA NextAdmission == AdmissionInv /\ [Next]_vars => AdmissionInv'
<1> SUFFICES ASSUME AdmissionInv, [Next]_vars PROVE AdmissionInv'
  OBVIOUS
<1>1. CASE Tick \/ Delete \/ Recreate \/ (\E plugins \in SUBSET Plugins : Restart(plugins))
  BY <1>1, UsersKeep
<1>2. CASE \E f \in Fields : \E v \in Choices[f] : Apply(f, v)
  BY <1>2, ApplyKeeps
<1>3. CASE NotFound
  BY <1>3, WindowEmptied DEF NotFound
<1>4. CASE \E ans \in Answers : ObserveNot(ans)
  BY <1>4, ObserveNotKeeps
<1>5. CASE \E ans \in Answers : ObserveCrossed(ans)
  BY <1>5, WindowRuns DEF ObserveCrossed
<1>6. CASE \E ans \in Answers, n \in 0..MaxMatches : Refuse(ans, n)
  BY <1>6, WindowRuns DEF Refuse
<1>7. CASE \E ans \in Answers, n \in 0..MaxMatches : Trigger(ans, n)
  BY <1>7, TriggerKeeps
<1>8. CASE UNCHANGED vars
  BY <1>8 DEF vars, AdmissionInv, TypeOK, RunInv
<1> QED BY <1>1, <1>2, <1>3, <1>4, <1>5, <1>6, <1>7, <1>8 DEF Next

LEMMA AdmissionInvariant == Spec => []AdmissionInv
BY InitAdmission, NextAdmission, PTL DEF Spec

-----------------------------------------------------------------------------
(* The stored policy is one users chose, the window holds a time that has  *)
(* passed, and nothing outgrows its bounds.                                *)
THEOREM AdmissionTypes == Spec => []TypeOK
<1>1. AdmissionInv => TypeOK
  BY DEF AdmissionInv
<1> QED BY <1>1, AdmissionInvariant, PTL

(* Whatever users apply in whatever order, the timings the reconcilers     *)
(* work with, defaults applied, are within their documented bounds: what   *)
(* TimingAssumption takes for granted elsewhere.                           *)
THEOREM TimingsInBounds == Spec => []EffectiveTimings
<1>1. AdmissionInv => EffectiveTimings
  <2> SUFFICES ASSUME AdmissionInv PROVE EffectiveTimings
    OBVIOUS
  <2>1. Schema(spec) /\ ValidateObserve(spec) /\ ValidateTimings(spec)
    BY DEF AdmissionInv, SpecOk, Admitted
  <2>2. spec.duration \in Durations /\ PollInterval(spec) \in PollIntervals
    BY <2>1, OrDefaultBounds DEF ValidateObserve, PollInterval
  <2>3. CooldownOf(spec) \in Cooldowns
    BY <2>1, OrDefaultBounds, Zenon DEF ValidateTimings, CooldownOf
  <2>4. ApprovalTimeout(spec) \in ApprovalTimeouts
    BY <2>1, OrDefaultBounds, Zenon DEF ValidateTimings, ApprovalTimeout
  <2>5. MaxTriggers(spec) \in 1..60
    BY <2>1, OrDefaultBounds DEF Schema, MaxTriggers
  <2>6. MaxResources(spec) \in 1..100
    BY <2>1, OrDefaultBounds DEF Schema, MaxResources
  <2> QED BY <2>2, <2>3, <2>4, <2>5, <2>6 DEF EffectiveTimings
<1> QED BY <1>1, AdmissionInvariant, PTL

(* A plugin that cannot be undone is called only for a policy that opted   *)
(* in: nobody checks when the pipeline runs, and nobody needs to.          *)
THEOREM IrreversibleNeedsOptIn == Spec => []IrreversibleOptedIn
<1>1. AdmissionInv => IrreversibleOptedIn
  BY DEF AdmissionInv, IrreversibleOptedIn
<1> QED BY <1>1, AdmissionInvariant, PTL

(* A dry run of the stored policy says "would trigger" exactly if the      *)
(* reconciler, given the same answer, finds the threshold crossed.         *)
THEOREM DryRunPredicts == Spec => []DryRunAgrees
<1>1. AdmissionInv => DryRunAgrees
  <2> SUFFICES ASSUME AdmissionInv, NEW ans \in Answers
               PROVE  DryRun(spec, ans) <=> Evaluate(spec, ans) = "crossed"
    BY DEF DryRunAgrees
  <2>1. \A i \in 1..Len(spec.actions) :
          spec.actions[i].plugin \in Plugins /\ spec.actions[i].valid
    BY DEF AdmissionInv, SpecOk, Admitted, ValidateActions
  <2> QED BY <2>1, CrossedMeans DEF DryRun
<1> QED BY <1>1, AdmissionInvariant, PTL

(* A pipeline runs only if every evaluation of the last duration found the *)
(* condition met, unless the condition was edited or the policy replaced   *)
(* in the meantime.                                                        *)
THEOREM TriggersAreSustained == Spec => []SustainedUnlessEdited
<1>1. AdmissionInv => SustainedUnlessEdited
  BY DEF AdmissionInv, SustainedUnlessEdited
<1> QED BY <1>1, AdmissionInvariant, PTL
=============================================================================
