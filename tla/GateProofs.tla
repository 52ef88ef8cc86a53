------------------------------ MODULE GateProofs ------------------------------
(***************************************************************************)
(* The composed operator, for any number of records, users, faults,        *)
(* restarts and edits and for any staleness of the caches: what its steps  *)
(* pass on has the shape the others rely on (TypeCorrect), the approval    *)
(* gate fails closed, and a verdict is final and attributed.               *)
(*                                                                         *)
(* None of FailClosed, DecisionWriteOnce and DeciderStamped is inductive:  *)
(* each depends on what is in flight.  A release acts on the cache, the    *)
(* second write of a reconcile carries the verdict it read back to the     *)
(* server, and an admitted request is committed later.  GateInv says that  *)
(* the cache is never ahead of the server, that a working copy the server  *)
(* will still accept has the server's verdict, and that a request it will  *)
(* still accept either changes no verdict or gives the first one.          *)
(***************************************************************************)
EXTENDS Operator, WellFoundedInduction, FiniteSetTheorems, TLAPS

-----------------------------------------------------------------------------
(* The operators of Pipeline, for pipelines of any length. *)

(* A non-empty set of naturals has a least element.                        *)
LEMMA LeastElement ==
  ASSUME NEW S \in SUBSET Nat, S # {}
  PROVE  \E i \in S : \A j \in S : i <= j
<1>1. PICK i \in S : \A j \in S : ~(<<j, i>> \in OpToRel(<, Nat))
  BY NatLessThanWellFounded, WFMin
<1>2. ASSUME NEW j \in S PROVE i <= j
  <2>1. <<j, i>> \in Nat \X Nat
    OBVIOUS
  <2>2. ~(j < i)
    BY <1>1, <2>1 DEF OpToRel
  <2> QED BY <2>2
<1> QED BY <1>2

(* A function on 1..n is a sequence.                                       *)
LEMMA FunctionIsSeq ==
  ASSUME NEW S, NEW n \in Nat, NEW f \in [1..n -> S]
  PROVE  f \in Seq(S)
OBVIOUS

(* GateIndex is -1 or the index of a gated action, with no gate before it. *)
LEMMA GateIndexIsFirst ==
  ASSUME NEW p \in Seq(Action)
  PROVE  \/ GateIndex(p) = -1 /\ \A i \in 0..(Len(p) - 1) : ~p[i + 1].gated
         \/ /\ GateIndex(p) \in 0..(Len(p) - 1)
            /\ p[GateIndex(p) + 1].gated
            /\ \A i \in 0..(GateIndex(p) - 1) : ~p[i + 1].gated
<1> DEFINE gates == {i \in 0..(Len(p) - 1) : p[i + 1].gated}
<1>1. CASE gates = {}
  BY <1>1 DEF GateIndex
<1>2. CASE gates # {}
  <2>1. gates \in SUBSET Nat /\ Len(p) \in Nat
    OBVIOUS
  <2>2. \E i \in gates : \A j \in gates : i <= j
    BY <1>2, <2>1, LeastElement
  <2>3. GateIndex(p) = CHOOSE i \in gates : \A j \in gates : i <= j
    BY <1>2 DEF GateIndex
  <2>4. GateIndex(p) \in gates /\ \A j \in gates : GateIndex(p) <= j
    BY <2>2, <2>3
  <2>5. \A i \in 0..(GateIndex(p) - 1) : i \notin gates
    BY <2>1, <2>4
  <2> QED BY <2>1, <2>4, <2>5
<1> QED BY <1>1, <1>2

(* A run ends within its slice.                                            *)
LEMMA LastRunInRange ==
  ASSUME NEW p \in Seq(Action), NEW from \in Nat, NEW to \in Nat,
         from <= to, to <= Len(p),
         NEW outcome
  PROVE  /\ LastRun(p, from, to, outcome) \in Int
         /\ LastRun(p, from, to, outcome) < to
         /\ from - 1 <= LastRun(p, from, to, outcome)
         /\ Aborts(p, from, to, outcome) # {} =>
              /\ LastRun(p, from, to, outcome) \in Aborts(p, from, to, outcome)
              /\ \A j \in Aborts(p, from, to, outcome) :
                   LastRun(p, from, to, outcome) <= j
<1> DEFINE aborts == Aborts(p, from, to, outcome)
<1>1. aborts \in SUBSET Nat /\ \A i \in aborts : from <= i /\ i < to
  BY DEF Aborts
<1>2. CASE aborts = {}
  BY <1>2 DEF LastRun
<1>3. CASE aborts # {}
  <2>1. \E i \in aborts : \A j \in aborts : i <= j
    BY <1>1, <1>3, LeastElement
  <2>2. LastRun(p, from, to, outcome) = CHOOSE i \in aborts : \A j \in aborts : i <= j
    BY <1>3 DEF LastRun
  <2> QED BY <1>1, <2>1, <2>2
<1> QED BY <1>2, <1>3

(* What RunRange returns is a sequence of results.                         *)
LEMMA RunRangeType ==
  ASSUME NEW p \in Seq(Action), NEW from \in Nat, NEW to \in Nat,
         from <= to, to <= Len(p),
         NEW outcome \in [from..(to - 1) -> Statuses], NEW undone
  PROVE  RunRange(p, from, to, outcome, undone) \in Seq(Result)
<1> DEFINE last == LastRun(p, from, to, outcome)
           n    == last - from + 1
           run  == RunRange(p, from, to, outcome, undone)
<1>1. last \in Int /\ last < to /\ n \in Nat
  BY LastRunInRange
<1>2. ASSUME NEW k \in 1..n
      PROVE  run[k] \in Result
  <2>1. from + k - 1 \in from..(to - 1) /\ from + k - 1 + 1 \in 1..Len(p)
    BY <1>1
  <2>2. p[from + k - 1 + 1] \in Action
    BY <2>1
  <2>3. p[from + k - 1 + 1].plugin \in Plugins
    BY <2>2 DEF Action
  <2>4. outcome[from + k - 1] \in Statuses
    BY <2>1
  <2> QED BY <2>3, <2>4, <1>1 DEF RunRange, Result
<1>3. run = [k \in 1..n |-> run[k]]
  BY DEF RunRange
<1>4. run \in [1..n -> Result]
  <2> HIDE DEF run
  <2> QED BY <1>2, <1>3
<1> QED BY <1>1, <1>4, FunctionIsSeq

(* The plugins behind a gate are a sequence of plugin names.               *)
LEMMA HeldPluginsType ==
  ASSUME NEW p \in Seq(Action), NEW i \in 0..(Len(p) - 1)
  PROVE  HeldPlugins(p, i) \in Seq(Plugins)
<1>1. Len(p) - i \in Nat /\ \A k \in 1..(Len(p) - i) : i + k \in 1..Len(p)
  OBVIOUS
<1>2. ASSUME NEW k \in 1..(Len(p) - i) PROVE p[i + k].plugin \in Plugins
  <2>1. p[i + k] \in Action
    BY <1>1
  <2> QED BY <2>1 DEF Action
<1> QED BY <1>1, <1>2 DEF HeldPlugins

(* A run from a gate on has results of the plugins behind it only.         *)
LEMMA RunRangeIsHeld ==
  ASSUME NEW p \in Seq(Action), NEW from \in Nat, from <= Len(p),
         NEW outcome, NEW undone,
         NEW k \in DOMAIN RunRange(p, from, Len(p), outcome, undone)
  PROVE  \E j \in 1..Len(HeldPlugins(p, from)) :
           RunRange(p, from, Len(p), outcome, undone)[k].plugin = HeldPlugins(p, from)[j]
<1> DEFINE last == LastRun(p, from, Len(p), outcome)
           n    == last - from + 1
           run  == RunRange(p, from, Len(p), outcome, undone)
           held == HeldPlugins(p, from)
<1>1. last \in Int /\ last < Len(p) /\ from - 1 <= last /\ Len(p) \in Nat
  BY LastRunInRange
<1>2. DOMAIN run = 1..n
  BY DEF RunRange
<1>3. k \in 1..(Len(p) - from) /\ from + k - 1 + 1 = from + k
  BY <1>1, <1>2
<1>4. run[k].plugin = p[from + k - 1 + 1].plugin
  BY <1>2 DEF RunRange
<1>5. Len(held) = Len(p) - from
  BY <1>1 DEF HeldPlugins
<1>6. held[k] = p[from + k].plugin
  BY <1>3 DEF HeldPlugins
<1> HIDE DEF run, held
<1> QED BY <1>3, <1>4, <1>5, <1>6 DEF run, held

(* A pipeline stops where it fails: no result follows a failure whose      *)
(* onFailure is not "continue", and every action before it has a result    *)
(* (RunRange's loop).                                                      *)
THEOREM StopsAtFailure ==
  ASSUME NEW p \in Seq(Action), NEW from \in Nat, NEW to \in Nat,
         from < to, to <= Len(p),
         NEW outcome \in [from..(to - 1) -> Statuses], NEW undone
  PROVE  LET run == RunRange(p, from, to, outcome, undone)
         IN  \A k \in 1..(Len(run) - 1) :
               run[k].status = "Failed" => p[from + k].onFailure = "continue"
<1> DEFINE last == LastRun(p, from, to, outcome)
           n    == last - from + 1
           run  == RunRange(p, from, to, outcome, undone)
<1>1. /\ last \in Int /\ last < to
      /\ Aborts(p, from, to, outcome) # {} =>
           /\ last \in Aborts(p, from, to, outcome)
           /\ \A j \in Aborts(p, from, to, outcome) : last <= j
  BY LastRunInRange
<1>2. n \in Nat
  BY LastRunInRange
<1>3. Len(run) = n
  BY <1>2 DEF RunRange
<1>4. ASSUME NEW k \in 1..(n - 1), run[k].status = "Failed"
      PROVE  p[from + k].onFailure = "continue"
  <2>1. run[k].status = outcome[from + k - 1] /\ from + k - 1 \in from..(to - 1)
    BY <1>1, <1>2 DEF RunRange
  <2>2. from + k - 1 < last
    BY <1>1
  <2>3. from + k - 1 \notin Aborts(p, from, to, outcome)
    BY <1>1, <2>2
  <2>4. from + k - 1 + 1 = from + k
    OBVIOUS
  <2> QED BY <1>4, <2>1, <2>3, <2>4 DEF Aborts
<1> QED BY <1>3, <1>4

-----------------------------------------------------------------------------
(* Building and taking apart records. *)

(* A written status leaves a policy a policy. *)
LEMMA WithPolicyStatusType ==
  ASSUME NEW obj \in PolicyObj, NEW copy \in PolicyObj
  PROVE  WithPolicyStatus(obj, copy) \in PolicyObj
BY DEF WithPolicyStatus, PolicyObj

(* The policies the reconcilers write back. *)
LEMMA PolicyEdits ==
  ASSUME NEW pol \in PolicyObj, NEW at \in Time
  PROVE  /\ [pol EXCEPT !.ref = NoAudit] \in PolicyObj
         /\ \A a \in Audits : [pol EXCEPT !.ref = a] \in PolicyObj
         /\ Triggered(pol, at) \in PolicyObj
         /\ CooledDown(pol, at) \in PolicyObj
BY DEF PolicyObj, Triggered, CooledDown

(* A written spec, status or gate leaves a record a record. *)
LEMMA AuditWrites ==
  ASSUME NEW obj \in AuditObj, NEW copy \in AuditObj
  PROVE  /\ WithSpec(obj, copy) \in AuditObj
         /\ WithStatus(obj, copy) \in AuditObj
BY DEF AuditObj, WithSpec, WithStatus

(* The records the reconcilers and the clients write. *)
LEMMA AuditEdits ==
  ASSUME NEW obj \in AuditObj
  PROVE  /\ \A ph \in Phases : [obj EXCEPT !.phase = ph] \in AuditObj
         /\ [obj EXCEPT !.reverted = TRUE] \in AuditObj
         /\ [obj EXCEPT !.live = FALSE] \in AuditObj
         /\ [obj EXCEPT !.revert = TRUE] \in AuditObj
         /\ \A b \in Batch : [obj EXCEPT !.recs = Append(@, b)] \in AuditObj
         /\ \A e \in GateEdit : WithGate(obj, e) \in AuditObj
<1>1. ASSUME NEW b \in Batch PROVE [obj EXCEPT !.recs = Append(@, b)] \in AuditObj
  <2>1. obj.recs \in Seq(Batch)
    BY DEF AuditObj
  <2>2. Append(obj.recs, b) \in Seq(Batch)
    BY <2>1
  <2> QED BY <2>2 DEF AuditObj
<1>2. ASSUME NEW e \in GateEdit PROVE WithGate(obj, e) \in AuditObj
  BY DEF AuditObj, WithGate, GateEdit, Description
<1>3. \A ph \in Phases : [obj EXCEPT !.phase = ph] \in AuditObj
  BY DEF AuditObj
<1>4. /\ [obj EXCEPT !.reverted = TRUE] \in AuditObj
      /\ [obj EXCEPT !.live = FALSE] \in AuditObj
      /\ [obj EXCEPT !.revert = TRUE] \in AuditObj
  BY DEF AuditObj
<1> QED BY <1>1, <1>2, <1>3, <1>4

(* The record a name stands for before it is used. *)
LEMMA NoRecordType == NoRecord \in AuditObj
<1>1. 0 \in 0..MaxUid /\ 0 \in Time
  BY ClusterAssumption DEF Time
<1> QED BY <1>1 DEF NoRecord, AuditObj, Decisions, Phases

(* What the states of a reconcile of the policy carry. *)
LEMMA PrParts ==
  ASSUME pr \in PrState
  PROVE  /\ pr.pc \in {"run", "requeue", "create", "mark"} =>
              pr.pol \in PolicyObj /\ pr.at \in Time
         /\ pr.pc = "create" =>
              pr.targets \in Seq(Targets) /\ pr.results \in Seq(Seq(Result))
         /\ pr.pc = "mark" => pr.a \in Audits /\ pr.copy \in AuditObj
BY DEF PrState

LEMMA PrMakes ==
  ASSUME NEW pol \in PolicyObj, NEW at \in Time
  PROVE  /\ [pc |-> "requeue", pol |-> pol, at |-> at] \in PrState
         /\ [pc |-> "run", pol |-> pol, at |-> at] \in PrState
         /\ \A ts \in Seq(Targets), rs \in Seq(Seq(Result)) :
              [pc |-> "create", pol |-> pol, at |-> at, targets |-> ts, results |-> rs]
                \in PrState
         /\ \A a \in Audits, copy \in AuditObj :
              [pc |-> "mark", pol |-> pol, at |-> at, a |-> a, copy |-> copy] \in PrState
BY DEF PrState

(* ... and those of a reconcile of a record. *)
LEMMA ArParts ==
  ASSUME ar \in ArState
  PROVE  /\ ar.pc \in {"held", "phase", "reverted"} =>
              ar.a \in Audits /\ ar.copy \in AuditObj
         /\ ar.pc \in {"held", "phase"} =>
              /\ ar.phase \in {"Approved", "Denied", "Expired"}
              /\ ar.phase = "Approved" => ar.pol \in PolicyObj
              /\ [ar EXCEPT !.pc = "phase"] \in ArState
         /\ ar.pc \in {"refetch", "cooldown"} => ar.at \in Time
         /\ ar.pc = "cooldown" => ar.pol \in PolicyObj
BY DEF ArState

LEMMA ArMakes ==
  ASSUME NEW pol \in PolicyObj, NEW at \in Time, NEW a \in Audits, NEW copy \in AuditObj,
         NEW phase \in {"Denied", "Expired"}
  PROVE  /\ ArIdle \in ArState
         /\ [pc |-> "held", a |-> a, phase |-> "Approved", pol |-> pol, copy |-> copy]
              \in ArState
         /\ [pc |-> "held", a |-> a, phase |-> phase, copy |-> copy] \in ArState
         /\ [pc |-> "phase", a |-> a, phase |-> phase, copy |-> copy] \in ArState
         /\ [pc |-> "refetch", at |-> at] \in ArState
         /\ [pc |-> "cooldown", pol |-> pol, at |-> at] \in ArState
         /\ [pc |-> "reverted", a |-> a, copy |-> copy] \in ArState
BY DEF ArState, ArIdle

-----------------------------------------------------------------------------
(* Calls to the API server. *)

LEMMA SomeOutcome == "ok" \in Outcomes
BY DEF Outcomes

(* What a call of either kind leaves behind. *)
LEMMA CallEndsType ==
  ASSUME faults \in 0..MaxFaults, NEW fresh, NEW r \in Outcomes, CallEnds(fresh, r)
  PROVE  faults' \in 0..MaxFaults
BY ClusterAssumption DEF CallEnds, Outcomes

LEMMA StorePolicyType ==
  ASSUME ClusterTypeOK, NEW copy, NEW content \in PolicyObj, NEW fresh,
         NEW r \in Outcomes, StorePolicy(copy, content, fresh, r)
  PROVE  /\ policy' \in PolicyObj
         /\ policyFresh' \subseteq PolicyCopies
         /\ faults' \in 0..MaxFaults
<1>1. faults' \in 0..MaxFaults
  BY CallEndsType DEF StorePolicy, ClusterTypeOK
<1>2. policy \in PolicyObj /\ WithPolicyStatus(policy, content) \in PolicyObj
  BY WithPolicyStatusType DEF ClusterTypeOK
<1> QED BY <1>1, <1>2 DEF StorePolicy, ClusterTypeOK

LEMMA StoreAuditType ==
  ASSUME ClusterTypeOK, NEW a \in Audits, NEW copy \in AuditCopies, NEW new \in AuditObj,
         NEW fresh, NEW r \in Outcomes, StoreAudit(a, copy, new, fresh, r)
  PROVE  /\ audit' \in [Audits -> AuditObj]
         /\ auditFresh' \in [Audits -> SUBSET AuditCopies]
         /\ faults' \in 0..MaxFaults
<1>1. faults' \in 0..MaxFaults
  BY CallEndsType DEF StoreAudit, ClusterTypeOK
<1> QED BY <1>1 DEF StoreAudit, ClusterTypeOK

(* A read through a cache. *)
LEMMA ReadByType ==
  ASSUME NEW S, NEW copy \in S, NEW fresh \in SUBSET S
  PROVE  ReadBy(copy, fresh) \in SUBSET S
BY DEF ReadBy

(* What the reconcilers know of the records, and the clients of their own. *)
LEMMA Readers ==
  /\ {"cache", "policyReconciler", "auditReconciler"} \subseteq AuditCopies
  /\ Users \subseteq AuditCopies
BY DEF AuditCopies, PolicyCopies

-----------------------------------------------------------------------------
(* The cluster's own actions. *)

LEMMA ClusterActionsType ==
  ASSUME ClusterTypeOK,
         \/ Tick \/ SyncPolicy \/ (\E a \in Audits : SyncAudit(a))
         \/ EditPolicy \/ DeletePolicy \/ RecreatePolicy
  PROVE  ClusterTypeOK'
<1> USE DEF ClusterTypeOK
<1>1. CASE Tick
  BY <1>1, ClusterAssumption DEF Tick, Time
<1>2. CASE SyncPolicy
  BY <1>2 DEF SyncPolicy, PolicyCopies
<1>3. CASE \E a \in Audits : SyncAudit(a)
  <2>1. PICK a \in Audits : SyncAudit(a)
    BY <1>3
  <2>2. auditFresh[a] \cup {"cache"} \in SUBSET AuditCopies
    BY Readers
  <2> QED BY <2>1, <2>2 DEF SyncAudit
<1>4. CASE EditPolicy
  <2>1. \A p \in Pipelines : [policy EXCEPT !.actions = p] \in PolicyObj
    BY DEF PolicyObj
  <2> QED BY <1>4, <2>1, ClusterAssumption DEF EditPolicy
<1>5. CASE DeletePolicy
  <2>1. [policy EXCEPT !.live = FALSE] \in PolicyObj
    BY DEF PolicyObj
  <2> QED BY <1>5, <2>1 DEF DeletePolicy
<1>6. CASE RecreatePolicy
  <2>1. policy.uid + 1 \in 1..MaxUid
    BY <1>6, ClusterAssumption DEF RecreatePolicy, PolicyObj
  <2>2. \A p \in Pipelines :
          [live |-> TRUE, uid |-> policy.uid + 1, actions |-> p,
           ref |-> NoAudit, last |-> Never] \in PolicyObj
    BY <2>1 DEF PolicyObj
  <2> QED BY <1>6, <2>2 DEF RecreatePolicy
<1> QED BY <1>1, <1>2, <1>3, <1>4, <1>5, <1>6

-----------------------------------------------------------------------------
(* The policy's reconciler. *)

LEMMA PastGate0Type ==
  ASSUME ClusterTypeOK
  PROVE  PastGate0 \in PolicyObj
BY PolicyEdits, ClusterAssumption DEF PastGate0, ClusterTypeOK, PolicyObj

LEMMA CountEntryType ==
  ASSUME ClusterTypeOK, ReconcilerTypeOK
  PROVE  CountEntry \in [has : BOOLEAN, at : Time, n : Nat]
<1>1. Listed \in Nat
  BY ClusterAssumption, FS_Subset, FS_CardinalityType DEF Listed
<1> QED BY <1>1 DEF CountEntry, ClusterTypeOK, ReconcilerTypeOK

LEMMA ObservedType ==
  ASSUME NEW entry \in [has : BOOLEAN, at : Time, n : Nat], NEW at \in Time
  PROVE  Observed(entry, at) \in [has : BOOLEAN, at : Time, n : Nat]
<1>1. entry.has \in BOOLEAN /\ entry.n \in Nat /\ entry.n + 1 \in Nat
  OBVIOUS
<1> QED BY <1>1 DEF Observed

(* The slice of a pipeline that runs before its gate. *)
LEMMA RunToType ==
  ASSUME NEW p \in Seq(Action)
  PROVE  RunTo(p) \in Nat /\ RunTo(p) <= Len(p)
<1>1. Len(p) \in Nat
  OBVIOUS
<1>2. CASE GateIndex(p) >= 0 /\ GateIndex(p) \in 0..(Len(p) - 1)
  BY <1>1, <1>2 DEF RunTo
<1>3. CASE GateIndex(p) = -1
  BY <1>1, <1>3 DEF RunTo
<1> QED BY <1>1, <1>2, <1>3, GateIndexIsFirst

LEMMA NewRecordType ==
  ASSUME ClusterTypeOK, ReconcilerTypeOK, pr.pc = "create"
  PROVE  NewRecord \in AuditObj
<1> DEFINE p == pr.pol.actions
           g == GateIndex(p)
<1>1. /\ pr.pol \in PolicyObj /\ pr.at \in Time
      /\ pr.targets \in Seq(Targets) /\ pr.results \in Seq(Seq(Result))
  BY PrParts DEF ReconcilerTypeOK
<1>2. p \in Seq(Action) /\ pr.pol.uid \in 0..MaxUid
  BY <1>1, ClusterAssumption DEF PolicyObj
<1>3. g = -1 \/ g \in 0..(Len(p) - 1)
  BY <1>2, GateIndexIsFirst
<1>4. g \in Int /\ (g >= 0 => g \in Nat /\ HeldPlugins(p, g) \in Seq(Plugins))
  BY <1>2, <1>3, HeldPluginsType
<1>5. <<[kind |-> "before", results |-> pr.results]>> \in Seq(Batch)
  BY <1>1 DEF Batch
<1>6. pr.at + ApprovalTimeout \in Nat /\ 0 \in Nat
  BY <1>1, TimingAssumption, ClusterAssumption DEF Time
<1>7. now \in Time
  BY DEF ClusterTypeOK
<1> DEFINE held    == IF g >= 0 THEN HeldPlugins(p, g) ELSE <<>>
           targets == IF g >= 0 THEN pr.targets ELSE <<>>
           index   == IF g >= 0 THEN g ELSE 0
           expires == IF g >= 0 THEN pr.at + ApprovalTimeout ELSE 0
           recs    == <<[kind |-> "before", results |-> pr.results]>>
<1>8. /\ held \in Seq(Plugins) /\ targets \in Seq(Targets)
      /\ index \in Nat /\ expires \in Nat /\ recs \in Seq(Batch)
      /\ (g >= 0) \in BOOLEAN
  BY <1>1, <1>4, <1>5, <1>6
<1>9. NewRecord = [NoRecord EXCEPT
         !.live = TRUE, !.uid = pr.pol.uid, !.created = now, !.at = pr.at,
         !.recs = recs, !.gated = (g >= 0), !.index = index, !.held = held,
         !.targets = targets, !.expires = expires]
  BY DEF NewRecord
<1> HIDE DEF held, targets, index, expires, recs, g
<1> QED BY <1>1, <1>2, <1>7, <1>8, <1>9, NoRecordType DEF AuditObj

(* A reconcile that only reads and decides. *)
LEMMA PolicyReadsType ==
  ASSUME ClusterTypeOK, ReconcilerTypeOK,
         \/ ForgetPolicy \/ AwaitApproval \/ CoolDown \/ RateLimited
         \/ (\E forget \in BOOLEAN : EvaluationFails(forget))
         \/ (\E crossed \in BOOLEAN : Evaluate(crossed))
         \/ ResolveFails
  PROVE  ClusterTypeOK' /\ ReconcilerTypeOK'
<1> USE DEF ClusterTypeOK, ReconcilerTypeOK, reconcilerVars, clusterVars
<1>0. /\ ReadBy("policyReconciler", policyFresh) \subseteq PolicyCopies
      /\ now \in Time /\ policyCache \in PolicyObj /\ PastGate0 \in PolicyObj
      /\ CountEntry \in [has : BOOLEAN, at : Time, n : Nat]
  BY ReadByType, PastGate0Type, CountEntryType DEF PolicyCopies
<1>1. CASE ForgetPolicy
  BY <1>1, ClusterAssumption DEF ForgetPolicy, NoEntry, Time
<1>2. CASE AwaitApproval
  BY <1>0, <1>2, PrMakes DEF AwaitApproval, ReadPolicy
<1>3. CASE CoolDown
  BY <1>0, <1>3, PrMakes DEF CoolDown, ReadPolicy
<1>4. CASE RateLimited
  BY <1>0, <1>4, PrMakes DEF RateLimited, ReadPolicy
<1>5. CASE \E forget \in BOOLEAN : EvaluationFails(forget)
  <2>1. PICK forget \in BOOLEAN : EvaluationFails(forget)
    BY <1>5
  <2>2. pr' \in PrState
    BY <1>0, <2>1, PrMakes DEF EvaluationFails
  <2>3. window' \in {Never, window} /\ lim' = CountEntry
    BY <2>1 DEF EvaluationFails, PastGates
  <2>4. policyFresh' = ReadBy("policyReconciler", policyFresh)
    BY <2>1 DEF EvaluationFails, PastGates, ReadPolicy
  <2> QED BY <1>0, <2>1, <2>2, <2>3, <2>4, ClusterAssumption DEF EvaluationFails
<1>6. CASE \E crossed \in BOOLEAN : Evaluate(crossed)
  <2>1. PICK crossed \in BOOLEAN : Evaluate(crossed)
    BY <1>6
  <2>2. pr' \in PrState
    BY <1>0, <2>1, PrMakes DEF Evaluate
  <2>3. window' \in Time \cup {Never}
    BY <1>0, <2>1 DEF Evaluate, ObserveSince
  <2> QED BY <1>0, <2>1, <2>2, <2>3 DEF Evaluate, PastGates, ReadPolicy
<1>7. CASE ResolveFails
  BY <1>7, PrParts, PrMakes DEF ResolveFails, PrRequeue
<1> QED BY <1>1, <1>2, <1>3, <1>4, <1>5, <1>6, <1>7

LEMMA RunPipelineType ==
  ASSUME ClusterTypeOK, ReconcilerTypeOK, RunPipeline
  PROVE  ClusterTypeOK' /\ ReconcilerTypeOK'
<1> DEFINE p == pr.pol.actions
           n == RunTo(p)
           res(ts, outcome) ==
             [i \in 1..Len(ts) |-> RunRange(p, 0, n, outcome[i], 0..(n - 1))]
<1>1. /\ pr.pol \in PolicyObj /\ pr.at \in Time /\ pr.pc = "run"
  BY PrParts DEF ReconcilerTypeOK, RunPipeline
<1>2. p \in Seq(Action)
  BY <1>1, ClusterAssumption DEF PolicyObj
<1>3. n \in Nat /\ n <= Len(p) /\ 0 \in Nat /\ 0 <= n
  BY <1>2, RunToType
<1>4. PICK ts \in {Resolved(list) : list \in TargetLists} :
      \E outcome \in [1..Len(ts) -> [0..(n - 1) -> PluginOutcomes]] :
        pr' = [pc |-> "create", pol |-> pr.pol, at |-> pr.at, targets |-> ts,
               results |-> res(ts, outcome)]
  BY DEF RunPipeline
<1>5. PICK outcome \in [1..Len(ts) -> [0..(n - 1) -> PluginOutcomes]] :
        pr' = [pc |-> "create", pol |-> pr.pol, at |-> pr.at, targets |-> ts,
               results |-> res(ts, outcome)]
  BY <1>4
<1>6. ts \in Seq(Targets)
  <2>1. <<NamespaceTarget>> \in Seq(Targets)
    BY ClusterAssumption
  <2> QED BY <2>1, TimingAssumption DEF Resolved
<1>7. res(ts, outcome) \in Seq(Seq(Result))
  <2>1. ASSUME NEW i \in 1..Len(ts)
        PROVE  RunRange(p, 0, n, outcome[i], 0..(n - 1)) \in Seq(Result)
    <3>1. outcome[i] \in [0..(n - 1) -> Statuses]
      BY TimingAssumption
    <3> HIDE DEF p, n
    <3> QED BY <1>2, <1>3, <3>1, RunRangeType
  <2>2. res(ts, outcome) \in [1..Len(ts) -> Seq(Result)]
    BY <2>1
  <2>3. Len(ts) \in Nat
    BY <1>6
  <2> QED BY <2>2, <2>3, FunctionIsSeq
<1>8. pr' \in PrState
  BY <1>1, <1>5, <1>6, <1>7, PrMakes
<1>9. fires' \in Seq(Time)
  BY <1>1 DEF ReconcilerTypeOK, RunPipeline
<1> QED BY <1>8, <1>9 DEF RunPipeline, ClusterTypeOK, ReconcilerTypeOK, clusterVars

(* A reconcile of the policy that writes. *)
LEMMA PolicyWritesType ==
  ASSUME ClusterTypeOK, ReconcilerTypeOK, NEW r \in Outcomes,
         \/ \E a \in Audits : WriteAudit(a, r) \/ WriteGatedAudit(a, r)
         \/ MarkPending(r) \/ Requeue(r)
  PROVE  ClusterTypeOK' /\ ReconcilerTypeOK'
<1>0. PrIdle \in PrState
  BY DEF PrIdle, PrState
<1>1. ASSUME NEW a \in Audits, pr.pc = "create", CreateRecord(a, r)
      PROVE  /\ NewRecord \in AuditObj
             /\ audit' \in [Audits -> AuditObj]
             /\ auditFresh' \in [Audits -> SUBSET AuditCopies]
             /\ faults' \in 0..MaxFaults
  <2>1. NewRecord \in AuditObj
    BY <1>1, NewRecordType
  <2>2. faults' \in 0..MaxFaults
    BY <1>1, CallEndsType DEF CreateRecord, ClusterTypeOK
  <2> QED BY <1>1, <2>1, <2>2, Readers DEF CreateRecord, ClusterTypeOK
<1>2. ASSUME NEW a \in Audits, WriteAudit(a, r)
      PROVE  ClusterTypeOK' /\ ReconcilerTypeOK'
  <2>1. pr.pc = "create" /\ CreateRecord(a, r) /\ pr.pol \in PolicyObj /\ pr.at \in Time
    BY <1>2, PrParts DEF WriteAudit, ReconcilerTypeOK
  <2>2. pr' \in PrState
    BY <1>2, <2>1, PolicyEdits, PrMakes DEF WriteAudit, PrRequeue
  <2>3. lim' \in [has : BOOLEAN, at : Time, n : Nat]
    BY <1>2, <2>1, ObservedType DEF WriteAudit, ReconcilerTypeOK
  <2> QED BY <1>1, <1>2, <2>1, <2>2, <2>3 DEF WriteAudit, ClusterTypeOK, ReconcilerTypeOK
<1>3. ASSUME NEW a \in Audits, WriteGatedAudit(a, r)
      PROVE  ClusterTypeOK' /\ ReconcilerTypeOK'
  <2>1. pr.pc = "create" /\ CreateRecord(a, r) /\ pr.pol \in PolicyObj /\ pr.at \in Time
    BY <1>3, PrParts DEF WriteGatedAudit, ReconcilerTypeOK
  <2>2. NewRecord \in AuditObj
    BY <1>1, <2>1
  <2>3. pr' \in PrState
    BY <1>3, <2>1, <2>2, PrMakes DEF WriteGatedAudit, PrRequeue
  <2> QED BY <1>1, <1>3, <2>1, <2>3 DEF WriteGatedAudit, ClusterTypeOK, ReconcilerTypeOK
<1>4. ASSUME MarkPending(r)
      PROVE  ClusterTypeOK' /\ ReconcilerTypeOK'
  <2>1. /\ pr.pol \in PolicyObj /\ pr.at \in Time
        /\ pr.a \in Audits /\ pr.copy \in AuditObj
    BY <1>4, PrParts DEF MarkPending, ReconcilerTypeOK
  <2>2. [pr.copy EXCEPT !.phase = "Pending"] \in AuditObj
    BY <2>1, AuditEdits DEF Phases
  <2>3. WithStatus(audit[pr.a], [pr.copy EXCEPT !.phase = "Pending"]) \in AuditObj
    BY <2>1, <2>2, AuditWrites DEF ClusterTypeOK
  <2>4. /\ audit' \in [Audits -> AuditObj]
        /\ auditFresh' \in [Audits -> SUBSET AuditCopies]
        /\ faults' \in 0..MaxFaults
    BY <1>4, <2>1, <2>3, StoreAuditType, Readers DEF MarkPending, UpdateAuditStatus
  <2>5. pr' \in PrState
    BY <1>4, <2>1, PolicyEdits, PrMakes DEF MarkPending, PrRequeue
  <2>6. lim' \in [has : BOOLEAN, at : Time, n : Nat]
    BY <1>4, <2>1, ObservedType DEF MarkPending, ReconcilerTypeOK
  <2> QED BY <1>4, <2>4, <2>5, <2>6 DEF MarkPending, ClusterTypeOK, ReconcilerTypeOK
<1>5. ASSUME Requeue(r)
      PROVE  ClusterTypeOK' /\ ReconcilerTypeOK'
  <2>1. pr.pol \in PolicyObj
    BY <1>5, PrParts DEF Requeue, ReconcilerTypeOK
  <2>2. /\ policy' \in PolicyObj /\ policyFresh' \subseteq PolicyCopies
        /\ faults' \in 0..MaxFaults
    BY <1>5, <2>1, StorePolicyType DEF Requeue, UpdatePolicyStatus
  <2> QED BY <1>0, <1>5, <2>2 DEF Requeue, ClusterTypeOK, ReconcilerTypeOK
<1> QED BY <1>2, <1>3, <1>4, <1>5

-----------------------------------------------------------------------------
(* The records' reconciler. *)

LEMMA SkippedBatchType ==
  ASSUME NEW rec \in AuditObj
  PROVE  SkippedBatch(rec) \in Batch
<1> DEFINE skip == [k \in 1..Len(rec.held) |->
                     [plugin |-> rec.held[k], status |-> "Skipped", reversed |-> FALSE]]
<1>1. rec.held \in Seq(Plugins) /\ Len(rec.held) \in Nat
  BY DEF AuditObj
<1>2. skip \in [1..Len(rec.held) -> Result]
  BY <1>1 DEF Result, Statuses
<1>3. skip \in Seq(Result)
  BY <1>1, <1>2, FunctionIsSeq
<1> HIDE DEF skip
<1>4. <<skip>> \in Seq(Seq(Result))
  BY <1>3
<1>5. [kind |-> "skipped", results |-> <<skip>>] \in Batch
  BY <1>4 DEF Batch
<1> QED BY <1>5 DEF SkippedBatch, skip

LEMMA CloseGateType ==
  ASSUME ClusterTypeOK, AuditRecTypeOK, NEW a \in Audits,
         NEW phase \in {"Denied", "Expired"}, CloseGate(a, phase)
  PROVE  ClusterTypeOK' /\ AuditRecTypeOK'
<1> DEFINE rec  == auditCache[a]
           skip == [rec EXCEPT !.recs = Append(@, SkippedBatch(rec))]
<1>1. rec \in AuditObj /\ policyCache \in PolicyObj /\ now \in Time
  BY DEF ClusterTypeOK
<1>2. skip \in AuditObj
  BY <1>1, SkippedBatchType, AuditEdits
<1>3. \/ ar' = [pc |-> "held", a |-> a, phase |-> phase, copy |-> skip]
      \/ ar' = [pc |-> "phase", a |-> a, phase |-> phase, copy |-> rec]
  BY DEF CloseGate
<1> HIDE DEF skip, rec
<1>4. ar' \in ArState
  BY <1>1, <1>2, <1>3, ArMakes
<1>5. auditFresh' \in [Audits -> SUBSET AuditCopies]
  BY ReadByType, Readers DEF CloseGate, ReadAudit, ClusterTypeOK
<1> QED BY <1>4, <1>5 DEF CloseGate, ClusterTypeOK, AuditRecTypeOK

LEMMA ReleaseGateType ==
  ASSUME ClusterTypeOK, AuditRecTypeOK, NEW a \in Audits, ReleaseGate(a)
  PROVE  ClusterTypeOK' /\ AuditRecTypeOK'
<1> DEFINE rec == auditCache[a]
           p   == policyCache.actions
           n   == Len(p)
           ts  == Resolved(rec.targets)
           res(outcome) == [i \in 1..Len(ts) |->
                              RunRange(p, rec.index, n, outcome[i], rec.index..(n - 1))]
           out(rs) == [rec EXCEPT !.recs = Append(@, [kind |-> "released", results |-> rs])]
           ran(rs) == UNION {{rs[i][k].plugin : k \in DOMAIN rs[i]} : i \in DOMAIN rs}
<1>1. rec \in AuditObj /\ policyCache \in PolicyObj /\ now \in Time
  BY DEF ClusterTypeOK
<1>2. p \in Seq(Action) /\ n \in Nat /\ rec.index \in Nat /\ ts \in Seq(Targets)
  BY <1>1, ClusterAssumption DEF PolicyObj, AuditObj, Resolved
<1>3. rec.index <= n
  BY DEF ReleaseGate, Resumable
<1>4. PICK outcome \in [1..Len(ts) -> [rec.index..(n - 1) -> HeldOutcomes]] :
        /\ ar' = [pc |-> "held", a |-> a, phase |-> "Approved", pol |-> policyCache,
                  copy |-> out(res(outcome))]
        /\ heldRan' = [heldRan EXCEPT ![a] = @ \cup ran(res(outcome))]
  BY DEF ReleaseGate
<1> DEFINE rs == res(outcome)
<1>5. rs \in Seq(Seq(Result))
  <2>1. ASSUME NEW i \in 1..Len(ts)
        PROVE  RunRange(p, rec.index, n, outcome[i], rec.index..(n - 1)) \in Seq(Result)
    <3>1. outcome[i] \in [rec.index..(n - 1) -> Statuses]
      BY RetentionAssumption
    <3>2. n <= Len(p)
      BY <1>2
    <3> HIDE DEF p, n, rec
    <3> QED BY <1>2, <1>3, <3>1, <3>2, RunRangeType
  <2>2. rs \in [1..Len(ts) -> Seq(Result)]
    BY <2>1
  <2>3. Len(ts) \in Nat
    BY <1>2
  <2> QED BY <2>2, <2>3, FunctionIsSeq
<1> HIDE DEF rs, res
<1>6. ran(rs) \subseteq Plugins
  <2>1. ASSUME NEW i \in DOMAIN rs, NEW k \in DOMAIN rs[i]
        PROVE  rs[i][k].plugin \in Plugins
    <3>1. rs[i] \in Seq(Result)
      BY <1>5
    <3>2. rs[i][k] \in Result
      BY <3>1
    <3> QED BY <3>2 DEF Result
  <2> QED BY <2>1
<1>7. out(rs) \in AuditObj
  <2>1. [kind |-> "released", results |-> rs] \in Batch
    BY <1>5 DEF Batch
  <2> QED BY <1>1, <2>1, AuditEdits
<1>8. ar' \in ArState
  <2> HIDE DEF out
  <2> QED BY <1>1, <1>4, <1>7, ArMakes DEF rs
<1>9. heldRan' \in [Audits -> SUBSET Plugins]
  BY <1>4, <1>6 DEF AuditRecTypeOK, rs
<1>10. heldRuns' \in [Audits -> 0..2]
  BY DEF ReleaseGate, OnceMore, AuditRecTypeOK
<1>11. /\ auditFresh' \in [Audits -> SUBSET AuditCopies]
       /\ policyFresh' \in SUBSET PolicyCopies
  <2>1. /\ auditFresh' = [auditFresh EXCEPT ![a] = ReadBy("auditReconciler", @)]
        /\ policyFresh' = ReadBy("auditReconciler", policyFresh)
    BY DEF ReleaseGate, ReadAudit
  <2>2. "auditReconciler" \in PolicyCopies /\ policyFresh \in SUBSET PolicyCopies
    BY DEF PolicyCopies, ClusterTypeOK
  <2>3. policyFresh' \in SUBSET PolicyCopies
    BY <2>1, <2>2, ReadByType
  <2> QED BY <2>1, <2>3, ReadByType, Readers DEF ClusterTypeOK
<1> QED BY <1>8, <1>9, <1>10, <1>11 DEF ReleaseGate, ClusterTypeOK, AuditRecTypeOK

LEMMA AuditReadsType ==
  ASSUME ClusterTypeOK, AuditRecTypeOK, NEW a \in Audits,
         Sweep(a) \/ DenyGate(a) \/ ExpireGate(a) \/ ReleaseGate(a) \/ Revert(a)
  PROVE  ClusterTypeOK' /\ AuditRecTypeOK'
<1>1. CASE Sweep(a)
  <2>1. audit[a] \in AuditObj
    BY DEF ClusterTypeOK
  <2>2. [audit[a] EXCEPT !.live = FALSE] \in AuditObj
    BY <2>1, AuditEdits
  <2>3. audit' = [audit EXCEPT ![a] = [audit[a] EXCEPT !.live = FALSE]]
    BY <1>1 DEF Sweep
  <2>4. audit' \in [Audits -> AuditObj]
    BY <2>2, <2>3 DEF ClusterTypeOK
  <2> QED BY <1>1, <2>4 DEF Sweep, ClusterTypeOK, AuditRecTypeOK, auditRecVars
<1>2. CASE DenyGate(a)
  BY <1>2, CloseGateType DEF DenyGate
<1>3. CASE ExpireGate(a)
  BY <1>3, CloseGateType DEF ExpireGate
<1>4. CASE ReleaseGate(a)
  BY <1>4, ReleaseGateType
<1>5. CASE Revert(a)
  <2>1. ar' \in ArState
    BY <1>5, ArMakes DEF Revert, ClusterTypeOK
  <2>2. undos' \in [Audits -> 0..2]
    BY <1>5 DEF Revert, OnceMore, AuditRecTypeOK
  <2>3. auditFresh' \in [Audits -> SUBSET AuditCopies]
    BY <1>5, ReadByType, Readers DEF Revert, ReadAudit, ClusterTypeOK
  <2> QED BY <1>5, <2>1, <2>2, <2>3 DEF Revert, ClusterTypeOK, AuditRecTypeOK
<1> QED BY <1>1, <1>2, <1>3, <1>4, <1>5

LEMMA AuditWritesType ==
  ASSUME ClusterTypeOK, AuditRecTypeOK, NEW r \in Outcomes,
         \/ RecordHeld(r) \/ SetPhase(r) \/ SetReverted(r)
         \/ StartCooldown(r) \/ RefetchPolicy
  PROVE  ClusterTypeOK' /\ AuditRecTypeOK'
<1>0. ArIdle \in ArState
  BY DEF ArIdle, ArState
<1>1. CASE RecordHeld(r)
  <2>1. ar.a \in Audits /\ ar.copy \in AuditObj /\ [ar EXCEPT !.pc = "phase"] \in ArState
    BY <1>1, ArParts DEF RecordHeld, AuditRecTypeOK
  <2>2. WithSpec(audit[ar.a], ar.copy) \in AuditObj
    BY <2>1, AuditWrites DEF ClusterTypeOK
  <2>3. /\ audit' \in [Audits -> AuditObj]
        /\ auditFresh' \in [Audits -> SUBSET AuditCopies]
        /\ faults' \in 0..MaxFaults
    BY <1>1, <2>1, <2>2, StoreAuditType, Readers DEF RecordHeld, UpdateAuditSpec
  <2> QED BY <1>0, <1>1, <2>1, <2>3 DEF RecordHeld, ClusterTypeOK, AuditRecTypeOK
<1>2. CASE SetPhase(r)
  <2>1. /\ ar.a \in Audits /\ ar.copy \in AuditObj
        /\ ar.phase \in {"Approved", "Denied", "Expired"}
        /\ ar.phase = "Approved" => ar.pol \in PolicyObj
    BY <1>2, ArParts DEF SetPhase, AuditRecTypeOK
  <2>2. [ar.copy EXCEPT !.phase = ar.phase] \in AuditObj
    BY <2>1, AuditEdits DEF Phases
  <2>3. WithStatus(audit[ar.a], [ar.copy EXCEPT !.phase = ar.phase]) \in AuditObj
    BY <2>1, <2>2, AuditWrites DEF ClusterTypeOK
  <2>4. /\ audit' \in [Audits -> AuditObj]
        /\ auditFresh' \in [Audits -> SUBSET AuditCopies]
        /\ faults' \in 0..MaxFaults
    BY <1>2, <2>1, <2>3, StoreAuditType, Readers DEF SetPhase, UpdateAuditStatus
  <2>5. now \in Time
    BY DEF ClusterTypeOK
  <2>6. ar' \in ArState
    <3>1. CASE r # "ok"
      BY <1>0, <1>2, <3>1 DEF SetPhase
    <3>2. CASE r = "ok" /\ ar.phase = "Approved"
      BY <1>2, <2>1, <2>5, <3>2, ArMakes DEF SetPhase
    <3>3. CASE r = "ok" /\ ar.phase # "Approved"
      BY <1>2, <2>5, <3>3 DEF SetPhase, ArState
    <3> QED BY <3>1, <3>2, <3>3
  <2>7. closed' \in [Audits -> Time \cup {Never}]
    BY <1>2, <2>5 DEF SetPhase, AuditRecTypeOK
  <2> QED BY <1>2, <2>4, <2>6, <2>7 DEF SetPhase, ClusterTypeOK, AuditRecTypeOK
<1>3. CASE SetReverted(r)
  <2>1. ar.a \in Audits /\ ar.copy \in AuditObj
    BY <1>3, ArParts DEF SetReverted, AuditRecTypeOK
  <2>2. WithStatus(audit[ar.a], [ar.copy EXCEPT !.reverted = TRUE]) \in AuditObj
    BY <2>1, AuditEdits, AuditWrites DEF ClusterTypeOK
  <2>3. /\ audit' \in [Audits -> AuditObj]
        /\ auditFresh' \in [Audits -> SUBSET AuditCopies]
        /\ faults' \in 0..MaxFaults
    BY <1>3, <2>1, <2>2, StoreAuditType, Readers DEF SetReverted, UpdateAuditStatus
  <2> QED BY <1>0, <1>3, <2>3 DEF SetReverted, ClusterTypeOK, AuditRecTypeOK
<1>4. CASE StartCooldown(r)
  <2>1. CooledDown(ar.pol, ar.at) \in PolicyObj
    BY <1>4, ArParts, PolicyEdits DEF StartCooldown, AuditRecTypeOK
  <2>2. /\ policy' \in PolicyObj /\ policyFresh' \subseteq PolicyCopies
        /\ faults' \in 0..MaxFaults
    BY <1>4, <2>1, StorePolicyType DEF StartCooldown, UpdatePolicyStatus
  <2> QED BY <1>0, <1>4, <2>2 DEF StartCooldown, ClusterTypeOK, AuditRecTypeOK
<1>5. CASE RefetchPolicy
  <2>1. ar' \in ArState
    BY <1>0, <1>5, ArParts DEF RefetchPolicy, AuditRecTypeOK, ClusterTypeOK, ArState
  <2>2. policyFresh' \in SUBSET PolicyCopies
    BY <1>5, ReadByType DEF RefetchPolicy, ClusterTypeOK, PolicyCopies
  <2> QED BY <1>5, <2>1, <2>2 DEF RefetchPolicy, ClusterTypeOK, AuditRecTypeOK
<1> QED BY <1>1, <1>2, <1>3, <1>4, <1>5

-----------------------------------------------------------------------------
(* The clients, a restart, and the theorem. *)

(* The edits a client can make of a record. *)
LEMMA EditsOfRecord ==
  ASSUME NEW rec \in AuditObj
  PROVE  GateEdits(rec) \subseteq GateEdit
<1>1. DescriptionOf(rec) \in Description
  BY DEF DescriptionOf, Description, AuditObj
<1>2. Rewrites \cup {DescriptionOf(rec)} \subseteq Description
  BY <1>1, ApprovalAssumption
<1> QED BY <1>2 DEF GateEdits, GateEdit

LEMMA AuditUserSteps ==
  ASSUME ClusterTypeOK, AuditUser
  PROVE  \/ \E u \in Users, a \in Audits, edit \in GateEdit : Submit(u, a, edit)
         \/ \E u \in Users : Commit(u)
         \/ \E a \in Audits : RequestRevert(a)
<1>1. ASSUME NEW a \in Audits PROVE GateEdits(audit[a]) \subseteq GateEdit
  BY EditsOfRecord DEF ClusterTypeOK
<1> QED BY <1>1, Zenon DEF AuditUser

LEMMA ApprovalType ==
  ASSUME ClusterTypeOK, ApprovalTypeOK,
         \/ \E u \in Users, a \in Audits, edit \in GateEdit : Submit(u, a, edit)
         \/ \E u \in Users : Commit(u)
         \/ \E a \in Audits : RequestRevert(a)
  PROVE  ClusterTypeOK' /\ ApprovalTypeOK'
<1> USE DEF ClusterTypeOK, ApprovalTypeOK
<1>1. CASE \E u \in Users, a \in Audits, edit \in GateEdit : Submit(u, a, edit)
  <2>1. PICK u \in Users, a \in Audits, edit \in GateEdit : Submit(u, a, edit)
    BY <1>1
  <2>2. Stamp(audit[a], edit, u) \in GateEdit
    BY DEF Stamp, GateEdit
  <2>3. auditFresh[a] \cup {u} \in SUBSET AuditCopies
    BY Readers
  <2>4. [pc |-> "admitted", a |-> a, edit |-> Stamp(audit[a], edit, u)]
          \in [pc : {"admitted"}, a : Audits, edit : GateEdit]
    BY <2>2
  <2>5. /\ req' = [req EXCEPT ![u] = [pc |-> "admitted", a |-> a,
                                      edit |-> Stamp(audit[a], edit, u)]]
        /\ auditFresh' = [auditFresh EXCEPT ![a] = @ \cup {u}]
        /\ UNCHANGED <<reverts, decider, rewritten, now, policy, policyCache, policyFresh,
                       audit, auditCache, edits, faults>>
    BY <2>1 DEF Submit
  <2>6. ApprovalTypeOK'
    <3>1. rewrites' \in 0..MaxRewrites
      BY <2>1, ApprovalAssumption DEF Submit
    <3> QED BY <2>4, <2>5, <3>1
  <2> QED BY <2>3, <2>5, <2>6
<1>2. CASE \E u \in Users : Commit(u)
  <2>1. PICK u \in Users : Commit(u)
    BY <1>2
  <2>2. req[u].a \in Audits /\ req[u].edit \in GateEdit
    BY <2>1 DEF Commit
  <2>3. WithGate(audit[req[u].a], req[u].edit) \in AuditObj
    BY <2>2, AuditEdits
  <2>4. NoRequest \in [pc : {"none"}]
    BY DEF NoRequest
  <2>5. ApprovalTypeOK'
    <3>1. /\ req' = [req EXCEPT ![u] = NoRequest]
          /\ UNCHANGED <<reverts, rewrites>>
          /\ rewritten' \subseteq rewritten \cup {req[u].a}
      BY <2>1 DEF Commit
    <3>2. decider' = decider \/ decider' = [decider EXCEPT ![req[u].a] = u]
      BY <2>1 DEF Commit
    <3>3. req' \in [Users -> [pc : {"none"}]
                            \cup [pc : {"admitted"}, a : Audits, edit : GateEdit]]
      BY <2>4, <3>1
    <3>4. decider' \in [Audits -> Users \cup {NoUser}]
      BY <2>2, <3>2
    <3> QED BY <2>2, <3>1, <3>3, <3>4
  <2>6. /\ UNCHANGED audit \/
           audit' = [audit EXCEPT ![req[u].a] = WithGate(audit[req[u].a], req[u].edit)]
        /\ UNCHANGED auditFresh \/ auditFresh' = [auditFresh EXCEPT ![req[u].a] = {}]
        /\ UNCHANGED <<now, policy, policyCache, policyFresh, auditCache, edits, faults>>
    BY <2>1 DEF Commit
  <2>7. audit' \in [Audits -> AuditObj] /\ auditFresh' \in [Audits -> SUBSET AuditCopies]
    BY <2>2, <2>3, <2>6
  <2> QED BY <2>5, <2>6, <2>7
<1>3. CASE \E a \in Audits : RequestRevert(a)
  <2>1. PICK a \in Audits : RequestRevert(a)
    BY <1>3
  <2>2. [audit[a] EXCEPT !.revert = TRUE] \in AuditObj
    BY AuditEdits
  <2>3. audit' = [audit EXCEPT ![a] = [audit[a] EXCEPT !.revert = TRUE]]
    BY <2>1 DEF RequestRevert
  <2>4. audit' \in [Audits -> AuditObj]
    BY <2>2, <2>3
  <2>5. reverts' \in 0..MaxReverts
    BY <2>1, ApprovalAssumption DEF RequestRevert
  <2> QED BY <2>1, <2>4, <2>5 DEF RequestRevert
<1> QED BY <1>1, <1>2, <1>3

LEMMA CrashType ==
  ASSUME TypeOK, Crash
  PROVE  TypeOK'
<1> USE DEF TypeOK, ClusterTypeOK, ReconcilerTypeOK, AuditRecTypeOK, ApprovalTypeOK
<1>1. PrIdle \in PrState /\ ArIdle \in ArState
  BY DEF PrIdle, PrState, ArIdle, ArState
<1>2. NoEntry \in [has : BOOLEAN, at : Time, n : Nat]
  BY ClusterAssumption DEF NoEntry, Time
<1>3. faults' \in 0..MaxFaults
  BY ClusterAssumption DEF Crash
<1>4. policyFresh' \subseteq PolicyCopies /\ auditFresh' \in [Audits -> SUBSET AuditCopies]
  BY Readers DEF Crash, RelistCaches, PolicyCopies
<1> QED BY <1>1, <1>2, <1>3, <1>4 DEF Crash, RelistCaches, approvalVars

LEMMA InitType == Init => TypeOK
<1> SUFFICES ASSUME Init PROVE TypeOK
  OBVIOUS
<1>1. 0 \in Time /\ 1 \in 1..MaxUid
  BY ClusterAssumption DEF Time
<1>2. ClusterTypeOK
  <2>1. policy \in PolicyObj
    BY <1>1 DEF Init, ClusterInit, PolicyObj
  <2> QED BY <1>1, <2>1, NoRecordType, Readers, ClusterAssumption
          DEF Init, ClusterInit, ClusterTypeOK, PolicyCopies
<1>3. ReconcilerTypeOK
  BY <1>1 DEF Init, ReconcilerInit, ReconcilerTypeOK, PrIdle, PrState, NoEntry
<1>4. AuditRecTypeOK
  BY DEF Init, AuditRecInit, AuditRecTypeOK, ArIdle, ArState
<1>5. ApprovalTypeOK
  BY ApprovalAssumption DEF Init, ApprovalInit, ApprovalTypeOK, NoRequest
<1>6. versions \in [1..MaxUid -> SUBSET Pipelines]
  BY <1>2 DEF Init, ClusterTypeOK, PolicyObj
<1> QED BY <1>2, <1>3, <1>4, <1>5, <1>6 DEF TypeOK

LEMMA NextType == TypeOK /\ [Next]_vars => TypeOK'
<1> SUFFICES ASSUME TypeOK, [Next]_vars PROVE TypeOK'
  OBVIOUS
<1> USE DEF TypeOK
<1> DEFINE VersionsOK == versions \in [1..MaxUid -> SUBSET Pipelines]
<1>1. CASE Clock \/ Informer \/ PolicyUser
  <2>1. \/ Tick \/ SyncPolicy \/ (\E a \in Audits : SyncAudit(a))
        \/ EditPolicy \/ DeletePolicy \/ RecreatePolicy
    BY <1>1, Zenon DEF Clock, Informer, PolicyUser
  <2>2. ClusterTypeOK'
    BY <2>1, ClusterActionsType
  <2>3. ClusterFrame \/ UserFrame
    BY <1>1, Zenon DEF Clock, Informer, PolicyUser
  <2>4. (ReconcilerTypeOK /\ AuditRecTypeOK /\ ApprovalTypeOK)'
    BY <2>3 DEF ClusterFrame, UserFrame, reconcilerVars, auditRecVars, approvalVars,
       ReconcilerTypeOK, AuditRecTypeOK, ApprovalTypeOK
  <2>5. VersionsOK'
    <3>1. policy' \in PolicyObj
      BY <2>2 DEF ClusterTypeOK
    <3> QED BY <2>3, <3>1 DEF ClusterFrame, UserFrame, PolicyObj
  <2> QED BY <2>2, <2>4, <2>5
<1>2. CASE PolicyStep
  <2>1. PolicyFrame => (AuditRecTypeOK /\ ApprovalTypeOK /\ VersionsOK)'
    BY DEF PolicyFrame, auditRecVars, approvalVars, AuditRecTypeOK, ApprovalTypeOK
  <2> QED BY <1>2, <2>1, PolicyReadsType, RunPipelineType, PolicyWritesType DEF PolicyStep
<1>3. CASE AuditStep
  <2>1. AuditFrame => (ReconcilerTypeOK /\ ApprovalTypeOK /\ VersionsOK)'
    BY DEF AuditFrame, reconcilerVars, approvalVars, ReconcilerTypeOK, ApprovalTypeOK
  <2>2. AuditFrame
    BY <1>3, Zenon DEF AuditStep
  <2>3. \/ \E a \in Audits : Sweep(a) \/ DenyGate(a) \/ ExpireGate(a) \/ ReleaseGate(a) \/ Revert(a)
        \/ \E r \in Outcomes : \/ RecordHeld(r) \/ SetPhase(r) \/ SetReverted(r)
                              \/ StartCooldown(r) \/ RefetchPolicy
    BY <1>3, SomeOutcome, Zenon DEF AuditStep
  <2> QED BY <2>1, <2>2, <2>3, AuditReadsType, AuditWritesType
<1>4. CASE AuditUser
  <2>1. ApprovalFrame => (ReconcilerTypeOK /\ AuditRecTypeOK /\ VersionsOK)'
    BY DEF ApprovalFrame, reconcilerVars, auditRecVars, ReconcilerTypeOK, AuditRecTypeOK
  <2>2. ApprovalFrame
    BY <1>4, Zenon DEF AuditUser
  <2> QED BY <1>4, <2>1, <2>2, AuditUserSteps, ApprovalType
<1>5. CASE Crash
  BY <1>5, CrashType
<1>6. CASE UNCHANGED vars
  BY <1>6 DEF vars, clusterVars, reconcilerVars, auditRecVars, approvalVars,
     ClusterTypeOK, ReconcilerTypeOK, AuditRecTypeOK, ApprovalTypeOK
<1> QED BY <1>1, <1>2, <1>3, <1>4, <1>5, <1>6 DEF Next

(* TypeOK is an invariant, whatever is stale, lost, retried or restarted:  *)
(* no interleaving of the two reconcilers, the webhook's clients and the   *)
(* informers makes a step read a field its state does not have.            *)
THEOREM TypeCorrect == Spec => []TypeOK
BY InitType, NextType, PTL DEF Spec

-----------------------------------------------------------------------------
(* The gate. *)

Agree(x, y) == x.decision = y.decision /\ x.by = y.by

RecordInv(a) ==
  /\ audit[a].uid = 0 =>
       ~audit[a].live /\ audit[a].decision = "" /\ audit[a].by = NoUser
  /\ "cache" \in auditFresh[a] => Agree(auditCache[a], audit[a])
  /\ auditCache[a].decision # "" => Agree(auditCache[a], audit[a])
  /\ heldRuns[a] > 0 => audit[a].decision = "Approved"
  /\ audit[a].by = decider[a]

CopyInv ==
  ar.pc \in {"held", "phase"} /\ "auditReconciler" \in auditFresh[ar.a] =>
    Agree(ar.copy, audit[ar.a])

RequestInv(u) ==
  req[u].pc = "admitted" /\ u \in auditFresh[req[u].a] =>
    \/ Agree(req[u].edit, audit[req[u].a])
    \/ /\ audit[req[u].a].decision = ""
       /\ req[u].edit.decision # "" /\ req[u].edit.by = u

GateInv ==
  /\ \A a \in Audits : RecordInv(a)
  /\ CopyInv
  /\ \A u \in Users : RequestInv(u)

LEMMA InitGate == Init => GateInv
<1> SUFFICES ASSUME Init PROVE GateInv
  OBVIOUS
<1>1. ASSUME NEW a \in Audits PROVE RecordInv(a)
  <2>1. audit[a] = NoRecord /\ auditCache[a] = NoRecord
    BY DEF Init, ClusterInit
  <2>2. heldRuns[a] = 0 /\ decider[a] = NoUser
    BY DEF Init, AuditRecInit, ApprovalInit
  <2>3. ~NoRecord.live /\ NoRecord.decision = "" /\ NoRecord.by = NoUser
    BY DEF NoRecord
  <2>4. ~(heldRuns[a] > 0)
    BY <2>2
  <2> QED BY <2>1, <2>2, <2>3, <2>4, Zenon DEF RecordInv, Agree
<1>2. CopyInv
  BY DEF Init, AuditRecInit, ArIdle, CopyInv
<1>3. ASSUME NEW u \in Users PROVE RequestInv(u)
  BY DEF Init, ApprovalInit, NoRequest, RequestInv
<1> QED BY <1>1, <1>2, <1>3 DEF GateInv

(* A step that touches nothing the invariant speaks of, except that it may *)
(* end or abandon a reconcile of a record.                                 *)
LEMMA GateFrame ==
  ASSUME GateInv,
         UNCHANGED <<audit, auditCache, auditFresh, heldRuns, decider, req>>,
         UNCHANGED ar \/ ar'.pc \notin {"held", "phase"}
  PROVE  GateInv'
BY DEF GateInv, RecordInv, CopyInv, RequestInv, Agree

(* A write of record a by a reconciler that keeps its verdict. *)
LEMMA Rewritten ==
  ASSUME TypeOK, GateInv, NEW a \in Audits, NEW new \in AuditObj, NEW F,
         Agree(new, audit[a]), new.uid = audit[a].uid, new.live => audit[a].live,
         F \subseteq {"policyReconciler", "auditReconciler"},
         audit' = [audit EXCEPT ![a] = new],
         auditFresh' = [auditFresh EXCEPT ![a] = F],
         UNCHANGED <<auditCache, heldRuns, decider, req>>,
         CopyInv'
  PROVE  GateInv'
<1>1. audit \in [Audits -> AuditObj] /\ auditFresh \in [Audits -> SUBSET AuditCopies]
  BY DEF TypeOK, ClusterTypeOK
<1>2. ASSUME NEW b \in Audits PROVE RecordInv(b)'
  BY <1>1 DEF GateInv, RecordInv, Agree
<1>3. ASSUME NEW u \in Users PROVE RequestInv(u)'
  <2>1. u \notin F
    BY ClusterAssumption DEF PolicyCopies
  <2>2. req[u].pc = "admitted" => req[u].a \in Audits
    BY DEF TypeOK, ApprovalTypeOK
  <2> QED BY <1>1, <2>1, <2>2 DEF GateInv, RequestInv
<1> QED BY <1>2, <1>3 DEF GateInv

(* A write of record a, applied or not. *)
LEMMA StoreAuditEffect ==
  ASSUME NEW a, NEW copy, NEW new, NEW fresh, NEW r, StoreAudit(a, copy, new, fresh, r)
  PROVE  \/ UNCHANGED <<audit, auditFresh>> /\ r # "ok"
         \/ /\ fresh
            /\ audit' = [audit EXCEPT ![a] = new]
            /\ \E F \in {{copy}, {}} : auditFresh' = [auditFresh EXCEPT ![a] = F]
BY DEF StoreAudit, CallEnds, Applied

-----------------------------------------------------------------------------
(* The policy's reconciler. *)

LEMMA CreateRecordGate ==
  ASSUME TypeOK, GateInv, NEW a \in Audits, NEW r, CreateRecord(a, r), pr.pc = "create",
         UNCHANGED <<auditCache, heldRuns, decider, req, ar>>
  PROVE  GateInv'
<1>1. CASE UNCHANGED <<audit, auditFresh>>
  BY <1>1, GateFrame
<1>2. CASE ~UNCHANGED <<audit, auditFresh>>
  <2>1. PICK F \in {{"policyReconciler"}, {}} :
          /\ audit' = [audit EXCEPT ![a] = NewRecord]
          /\ auditFresh' = [auditFresh EXCEPT ![a] = F]
    BY <1>2 DEF CreateRecord
  <2>2. audit[a].uid = 0 /\ audit[a].decision = "" /\ audit[a].by = NoUser
    BY DEF CreateRecord, GateInv, RecordInv
  <2>3. NewRecord \in AuditObj
    BY NewRecordType DEF TypeOK
  <2>4. NewRecord.decision = "" /\ NewRecord.by = NoUser /\ NewRecord.uid = pr.pol.uid
    BY DEF NewRecord, NoRecord
  <2>5. pr.pol.uid # 0
    <3>1. pr.pol \in PolicyObj
      BY PrParts DEF TypeOK, ReconcilerTypeOK
    <3> QED BY <3>1, ClusterAssumption DEF PolicyObj
  <2>6. audit \in [Audits -> AuditObj] /\ auditFresh \in [Audits -> SUBSET AuditCopies]
    BY DEF TypeOK, ClusterTypeOK
  <2> HIDE DEF NewRecord
  <2>7. ASSUME NEW b \in Audits PROVE RecordInv(b)'
    BY <2>1, <2>2, <2>3, <2>4, <2>5, <2>6 DEF GateInv, RecordInv, Agree
  <2>8. CopyInv'
    <3>1. ar.pc \in {"held", "phase"} => ar.a \in Audits
      BY ArParts DEF TypeOK, AuditRecTypeOK
    <3>2. "auditReconciler" \notin F
      BY <2>1
    <3> QED BY <2>1, <2>6, <3>1, <3>2 DEF GateInv, CopyInv, Agree
  <2>9. ASSUME NEW u \in Users PROVE RequestInv(u)'
    <3>1. u \notin F
      BY <2>1, ClusterAssumption DEF PolicyCopies
    <3>2. req[u].pc = "admitted" => req[u].a \in Audits
      BY DEF TypeOK, ApprovalTypeOK
    <3> QED BY <2>1, <2>6, <3>1, <3>2 DEF GateInv, RequestInv
  <2> QED BY <2>7, <2>8, <2>9 DEF GateInv
<1> QED BY <1>1, <1>2

LEMMA MarkPendingGate ==
  ASSUME TypeOK, GateInv, NEW r \in Outcomes, MarkPending(r),
         UNCHANGED <<auditRecVars, approvalVars>>
  PROVE  GateInv'
<1> DEFINE new == WithStatus(audit[pr.a], [pr.copy EXCEPT !.phase = "Pending"])
<1>1. pr.a \in Audits /\ pr.copy \in AuditObj /\ audit[pr.a] \in AuditObj
  BY PrParts DEF MarkPending, TypeOK, ReconcilerTypeOK, ClusterTypeOK
<1>2. new \in AuditObj
  BY <1>1, AuditEdits, AuditWrites DEF Phases
<1>3. Agree(new, audit[pr.a]) /\ new.uid = audit[pr.a].uid /\ new.live = audit[pr.a].live
  BY <1>1 DEF WithStatus, Agree, AuditObj
<1>4. UNCHANGED <<auditCache, heldRuns, decider, req, ar>>
  BY DEF MarkPending, auditRecVars, approvalVars
<1>5. CASE UNCHANGED <<audit, auditFresh>>
  BY <1>4, <1>5, GateFrame
<1>6. CASE ~UNCHANGED <<audit, auditFresh>>
  <2>1. PICK F \in {{"policyReconciler"}, {}} :
          /\ audit' = [audit EXCEPT ![pr.a] = new]
          /\ auditFresh' = [auditFresh EXCEPT ![pr.a] = F]
    BY <1>6, StoreAuditEffect DEF MarkPending, UpdateAuditStatus
  <2> HIDE DEF new
  <2>2. CopyInv'
    <3>1. ar.pc \in {"held", "phase"} => ar.a \in Audits
      BY ArParts DEF TypeOK, AuditRecTypeOK
    <3>2. "auditReconciler" \notin F
      BY <2>1
    <3>3. audit \in [Audits -> AuditObj] /\ auditFresh \in [Audits -> SUBSET AuditCopies]
      BY DEF TypeOK, ClusterTypeOK
    <3> QED BY <1>3, <1>4, <2>1, <3>1, <3>2, <3>3 DEF GateInv, CopyInv, Agree
  <2> QED BY <1>1, <1>2, <1>3, <1>4, <2>1, <2>2, Rewritten
<1> QED BY <1>5, <1>6

LEMMA PolicyStepGate ==
  ASSUME TypeOK, GateInv, PolicyStep
  PROVE  GateInv'
<1>0. UNCHANGED <<auditRecVars, approvalVars>>
  BY DEF PolicyStep, PolicyFrame
<1>1. CASE \E a \in Audits, r \in Outcomes : WriteAudit(a, r) \/ WriteGatedAudit(a, r)
  BY <1>0, <1>1, CreateRecordGate
     DEF WriteAudit, WriteGatedAudit, auditRecVars, approvalVars
<1>2. CASE \E r \in Outcomes : MarkPending(r)
  BY <1>0, <1>2, MarkPendingGate
<1>3. CASE UNCHANGED <<audit, auditCache, auditFresh>>
  BY <1>0, <1>3, GateFrame DEF auditRecVars, approvalVars
<1>4. \/ \E a \in Audits, r \in Outcomes : WriteAudit(a, r) \/ WriteGatedAudit(a, r)
      \/ \E r \in Outcomes : MarkPending(r)
      \/ UNCHANGED <<audit, auditCache, auditFresh>>
  BY DEF PolicyStep, ForgetPolicy, AwaitApproval, CoolDown, RateLimited, EvaluationFails,
         Evaluate, ResolveFails, RunPipeline, Requeue, clusterVars
<1> QED BY <1>1, <1>2, <1>3, <1>4

-----------------------------------------------------------------------------
(* The records' reconciler. *)

(* A reconcile takes a copy of the cached record, its verdict included.    *)
LEMMA ReadAuditGate ==
  ASSUME TypeOK, GateInv, NEW a \in Audits, ReadAudit(a),
         UNCHANGED <<audit, auditCache, decider, req>>,
         \A b \in Audits : heldRuns'[b] > 0 =>
                             heldRuns[b] > 0 \/ auditCache[b].decision = "Approved",
         ar'.pc \in {"held", "phase"} => ar'.a = a /\ Agree(ar'.copy, auditCache[a])
  PROVE  GateInv'
<1>1. audit \in [Audits -> AuditObj] /\ auditFresh \in [Audits -> SUBSET AuditCopies]
  BY DEF TypeOK, ClusterTypeOK
<1>2. /\ \A b \in Audits : b # a => auditFresh'[b] = auditFresh[b]
      /\ \A c : c # "auditReconciler" => (c \in auditFresh'[a] <=> c \in auditFresh[a])
      /\ "auditReconciler" \in auditFresh'[a] => "cache" \in auditFresh[a]
  BY <1>1 DEF ReadAudit, ReadBy
<1>3. ASSUME NEW b \in Audits PROVE RecordInv(b)'
  <2>1. "cache" \in auditFresh'[b] <=> "cache" \in auditFresh[b]
    BY <1>2
  <2>2. heldRuns'[b] > 0 => audit[b].decision = "Approved"
    BY DEF GateInv, RecordInv, Agree
  <2>3. RecordInv(b)
    BY DEF GateInv
  <2> QED BY <2>1, <2>2, <2>3 DEF RecordInv, Agree
<1>4. CopyInv'
  BY <1>2 DEF GateInv, RecordInv, CopyInv, Agree
<1>5. ASSUME NEW u \in Users PROVE RequestInv(u)'
  <2>1. u # "auditReconciler"
    BY ClusterAssumption DEF PolicyCopies
  <2>2. req[u].pc = "admitted" => req[u].a \in Audits
    BY DEF TypeOK, ApprovalTypeOK
  <2>3. RequestInv(u)
    BY DEF GateInv
  <2> QED BY <1>2, <2>1, <2>2, <2>3 DEF RequestInv, Agree
<1> QED BY <1>3, <1>4, <1>5 DEF GateInv

LEMMA AuditReadsGate ==
  ASSUME TypeOK, GateInv, NEW a \in Audits,
         Sweep(a) \/ DenyGate(a) \/ ExpireGate(a) \/ ReleaseGate(a) \/ Revert(a),
         UNCHANGED approvalVars
  PROVE  GateInv'
<1>0. /\ auditCache[a] \in AuditObj /\ audit[a] \in AuditObj
      /\ UNCHANGED <<decider, req>>
  BY DEF TypeOK, ClusterTypeOK, approvalVars
<1>1. CASE Sweep(a)
  <2> DEFINE new == [audit[a] EXCEPT !.live = FALSE]
  <2>1. new \in AuditObj
    BY <1>0, AuditEdits
  <2>2. Agree(new, audit[a]) /\ new.uid = audit[a].uid /\ ~new.live
    BY <1>0 DEF Agree, AuditObj
  <2>3. /\ audit' = [audit EXCEPT ![a] = new] /\ auditFresh' = [auditFresh EXCEPT ![a] = {}]
        /\ UNCHANGED <<auditCache, heldRuns, ar>>
    BY <1>1 DEF Sweep, auditRecVars
  <2> HIDE DEF new
  <2>4. CopyInv'
    <3>1. ar.pc \notin {"held", "phase"}
      BY <1>1 DEF Sweep
    <3> QED BY <2>3, <3>1 DEF CopyInv
  <2> QED BY <1>0, <2>1, <2>2, <2>3, <2>4, Rewritten
<1>2. ASSUME NEW phase, CloseGate(a, phase)
      PROVE  GateInv'
  <2>1. Agree([auditCache[a] EXCEPT !.recs = Append(@, SkippedBatch(auditCache[a]))],
              auditCache[a])
    BY <1>0 DEF Agree, AuditObj
  <2>2. ar'.a = a /\ Agree(ar'.copy, auditCache[a])
    BY <1>2, <2>1 DEF CloseGate, Agree
  <2> QED BY <1>0, <1>2, <2>2, ReadAuditGate DEF CloseGate
<1>3. CASE ReleaseGate(a)
  <2>1. PICK rs :
          ar' = [pc |-> "held", a |-> a, phase |-> "Approved", pol |-> policyCache,
                 copy |-> [auditCache[a] EXCEPT !.recs = Append(@, rs)]]
    BY <1>3 DEF ReleaseGate
  <2>2. Agree([auditCache[a] EXCEPT !.recs = Append(@, rs)], auditCache[a])
    BY <1>0 DEF Agree, AuditObj
  <2>3. ar'.a = a /\ Agree(ar'.copy, auditCache[a])
    BY <2>1, <2>2
  <2>4. auditCache[a].decision = "Approved"
    BY <1>3 DEF ReleaseGate, Released
  <2>5. \A b \in Audits : b # a => heldRuns'[b] = heldRuns[b]
    BY <1>3 DEF ReleaseGate, TypeOK, AuditRecTypeOK
  <2>6. ReadAudit(a) /\ UNCHANGED <<audit, auditCache>>
    BY <1>3 DEF ReleaseGate
  <2> QED BY <1>0, <2>3, <2>4, <2>5, <2>6, ReadAuditGate
<1>4. CASE Revert(a)
  BY <1>0, <1>4, ReadAuditGate DEF Revert
<1>5. CASE DenyGate(a) \/ ExpireGate(a)
  BY <1>2, <1>5 DEF DenyGate, ExpireGate
<1> QED BY <1>1, <1>3, <1>4, <1>5

LEMMA AuditWritesGate ==
  ASSUME TypeOK, GateInv, NEW r \in Outcomes, UNCHANGED approvalVars,
         \/ RecordHeld(r) \/ SetPhase(r) \/ SetReverted(r)
         \/ StartCooldown(r) \/ RefetchPolicy
  PROVE  GateInv'
<1>0. /\ audit \in [Audits -> AuditObj] /\ auditFresh \in [Audits -> SUBSET AuditCopies]
      /\ UNCHANGED <<decider, req>>
      /\ ArIdle.pc = "idle"
  BY DEF TypeOK, ClusterTypeOK, approvalVars, ArIdle
<1>1. CASE RecordHeld(r)
  <2> DEFINE a   == ar.a
             new == WithSpec(audit[a], ar.copy)
  <2>1. a \in Audits /\ ar.copy \in AuditObj /\ audit[a] \in AuditObj
    BY <1>0, <1>1, ArParts DEF RecordHeld, TypeOK, AuditRecTypeOK
  <2>2. /\ new \in AuditObj /\ Agree(ar.copy, new)
        /\ new.uid = audit[a].uid /\ new.live = audit[a].live
    BY <2>1, AuditWrites DEF WithSpec, AuditObj, Agree
  <2>3. /\ StoreAudit(a, "auditReconciler", new, HoldsCurrent(a, "auditReconciler"), r)
        /\ ar' = IF r = "ok" THEN [ar EXCEPT !.pc = "phase"] ELSE ArIdle
        /\ UNCHANGED <<auditCache, heldRuns>>
    BY <1>1 DEF RecordHeld, UpdateAuditSpec
  <2>4. CASE UNCHANGED <<audit, auditFresh>> /\ r # "ok"
    BY <1>0, <2>3, <2>4, GateFrame
  <2>5. CASE /\ HoldsCurrent(a, "auditReconciler")
             /\ audit' = [audit EXCEPT ![a] = new]
             /\ \E F \in {{"auditReconciler"}, {}} : auditFresh' = [auditFresh EXCEPT ![a] = F]
    <3>1. PICK F \in {{"auditReconciler"}, {}} : auditFresh' = [auditFresh EXCEPT ![a] = F]
      BY <2>5
    <3>2. Agree(ar.copy, audit[a])
      BY <1>1, <2>5 DEF RecordHeld, HoldsCurrent, GateInv, CopyInv
    <3>3. Agree(new, audit[a])
      BY <2>2, <3>2 DEF Agree
    <3>4. CopyInv'
      <4>1. ar'.pc \in {"held", "phase"} => ar'.a = a /\ ar'.copy = ar.copy
        BY <1>0, <1>1, <2>3 DEF RecordHeld, TypeOK, AuditRecTypeOK, ArState
      <4>2. audit'[a] = new
        BY <1>0, <2>1, <2>5
      <4> HIDE DEF new, a
      <4> QED BY <2>2, <4>1, <4>2 DEF CopyInv, Agree
    <3> HIDE DEF new, a
    <3> QED BY <1>0, <2>1, <2>2, <2>3, <2>5, <3>1, <3>3, <3>4, Rewritten
  <2> QED BY <2>3, <2>4, <2>5, StoreAuditEffect
<1>2. ASSUME NEW rec \in AuditObj, ar.a \in Audits,
             UpdateAuditStatus(ar.a, "auditReconciler", rec, r),
             ar'.pc \notin {"held", "phase"}, UNCHANGED <<auditCache, heldRuns>>
      PROVE  GateInv'
  <2> DEFINE a   == ar.a
             new == WithStatus(audit[a], rec)
  <2>1. a \in Audits /\ audit[a] \in AuditObj
    BY <1>0, <1>2
  <2>2. new \in AuditObj
    BY <1>2, <2>1, AuditWrites
  <2>3. Agree(new, audit[a]) /\ new.uid = audit[a].uid /\ new.live = audit[a].live
    BY <2>1 DEF WithStatus, AuditObj, Agree
  <2>4. StoreAudit(a, "auditReconciler", new, HoldsCurrent(a, "auditReconciler"), r)
    BY <1>2 DEF UpdateAuditStatus
  <2>5. CASE UNCHANGED <<audit, auditFresh>>
    BY <1>0, <1>2, <2>5, GateFrame
  <2>6. CASE ~UNCHANGED <<audit, auditFresh>>
    <3>1. PICK F \in {{"auditReconciler"}, {}} :
            /\ audit' = [audit EXCEPT ![a] = new]
            /\ auditFresh' = [auditFresh EXCEPT ![a] = F]
      BY <2>4, <2>6, StoreAuditEffect
    <3>2. CopyInv'
      BY <1>2 DEF CopyInv
    <3> HIDE DEF new, a
    <3> QED BY <1>0, <1>2, <2>1, <2>2, <2>3, <3>1, <3>2, Rewritten
  <2> QED BY <2>5, <2>6
<1>3. CASE SetPhase(r)
  <2>1. /\ ar.a \in Audits /\ ar.copy \in AuditObj
        /\ ar.phase \in {"Approved", "Denied", "Expired"}
    BY <1>3, ArParts DEF SetPhase, TypeOK, AuditRecTypeOK
  <2>2. [ar.copy EXCEPT !.phase = ar.phase] \in AuditObj
    BY <2>1, AuditEdits DEF Phases
  <2>3. ar'.pc \notin {"held", "phase"}
    BY <1>0, <1>3 DEF SetPhase
  <2> QED BY <1>2, <1>3, <2>1, <2>2, <2>3 DEF SetPhase
<1>4. CASE SetReverted(r)
  <2>1. ar.a \in Audits /\ ar.copy \in AuditObj
    BY <1>4, ArParts DEF SetReverted, TypeOK, AuditRecTypeOK
  <2>2. [ar.copy EXCEPT !.reverted = TRUE] \in AuditObj
    BY <2>1, AuditEdits
  <2> QED BY <1>0, <1>2, <1>4, <2>1, <2>2 DEF SetReverted
<1>5. CASE StartCooldown(r) \/ RefetchPolicy
  BY <1>0, <1>5, GateFrame DEF StartCooldown, RefetchPolicy
<1> QED BY <1>1, <1>3, <1>4, <1>5

-----------------------------------------------------------------------------
(* The clients, the informer and a restart. *)

LEMMA SyncAuditGate ==
  ASSUME TypeOK, GateInv, NEW a \in Audits, SyncAudit(a),
         UNCHANGED <<auditRecVars, approvalVars>>
  PROVE  GateInv'
<1>1. /\ audit \in [Audits -> AuditObj] /\ auditCache \in [Audits -> AuditObj]
      /\ auditFresh \in [Audits -> SUBSET AuditCopies]
  BY DEF TypeOK, ClusterTypeOK
<1>2. /\ auditCache' = [auditCache EXCEPT ![a] = audit[a]]
      /\ auditFresh' = [auditFresh EXCEPT ![a] = @ \cup {"cache"}]
      /\ UNCHANGED <<audit, heldRuns, decider, req, ar>>
  BY DEF SyncAudit, auditRecVars, approvalVars
<1>3. ASSUME NEW b \in Audits PROVE RecordInv(b)'
  BY <1>1, <1>2 DEF GateInv, RecordInv, Agree
<1>4. CopyInv'
  <2>1. ar.pc \in {"held", "phase"} => ar.a \in Audits
    BY ArParts DEF TypeOK, AuditRecTypeOK
  <2> QED BY <1>1, <1>2, <2>1 DEF GateInv, CopyInv, Agree
<1>5. ASSUME NEW u \in Users PROVE RequestInv(u)'
  <2>1. u # "cache"
    BY ClusterAssumption DEF PolicyCopies
  <2>2. req[u].pc = "admitted" => req[u].a \in Audits
    BY DEF TypeOK, ApprovalTypeOK
  <2>3. RequestInv(u)
    BY DEF GateInv
  <2> QED BY <1>1, <1>2, <2>1, <2>2, <2>3 DEF RequestInv, Agree
<1> QED BY <1>3, <1>4, <1>5 DEF GateInv

LEMMA SubmitGate ==
  ASSUME TypeOK, GateInv, NEW u \in Users, NEW a \in Audits, NEW edit \in GateEdit,
         Submit(u, a, edit), UNCHANGED auditRecVars
  PROVE  GateInv'
<1> DEFINE e == Stamp(audit[a], edit, u)
<1>1. /\ audit \in [Audits -> AuditObj] /\ auditFresh \in [Audits -> SUBSET AuditCopies]
      /\ DOMAIN req = Users
      /\ \A v \in Users : req[v].pc = "admitted" => req[v].a \in Audits
  BY DEF TypeOK, ClusterTypeOK, ApprovalTypeOK
<1>2. /\ req' = [req EXCEPT ![u] = [pc |-> "admitted", a |-> a, edit |-> e]]
      /\ auditFresh' = [auditFresh EXCEPT ![a] = @ \cup {u}]
      /\ UNCHANGED <<audit, auditCache, heldRuns, decider, ar>>
  BY DEF Submit, auditRecVars
<1>3. \/ Agree(e, audit[a])
      \/ audit[a].decision = "" /\ e.decision # "" /\ e.by = u
  <2>1. Admits(audit[a], edit)
    BY DEF Submit
  <2> QED BY <2>1 DEF Admits, Stamp, SameVerdict, NewVerdictAllowed, Agree, GateEdit
<1>4. u \notin {"cache", "policyReconciler", "auditReconciler"}
  BY ClusterAssumption DEF PolicyCopies
<1> HIDE DEF e
<1>5. ASSUME NEW b \in Audits PROVE RecordInv(b)'
  <2>1. "cache" \in auditFresh'[b] <=> "cache" \in auditFresh[b]
    BY <1>1, <1>2, <1>4
  <2>2. RecordInv(b)
    BY DEF GateInv
  <2> QED BY <1>2, <2>1, <2>2 DEF RecordInv, Agree
<1>6. CopyInv'
  <2>1. ar.pc \in {"held", "phase"} => ar.a \in Audits
    BY ArParts DEF TypeOK, AuditRecTypeOK
  <2> QED BY <1>1, <1>2, <1>4, <2>1 DEF GateInv, CopyInv, Agree
<1>7. ASSUME NEW v \in Users PROVE RequestInv(v)'
  <2>1. CASE v = u
    <3>1. req'[v] = [pc |-> "admitted", a |-> a, edit |-> e]
      BY <1>1, <1>2, <2>1
    <3>2. req'[v].a = a /\ req'[v].edit = e /\ audit' = audit
      BY <1>2, <3>1
    <3> QED BY <1>3, <2>1, <3>2, Zenon DEF RequestInv, Agree
  <2>2. CASE v # u
    <3>1. req'[v] = req[v]
      BY <1>1, <1>2, <2>2
    <3>2. \A b \in Audits : v \in auditFresh'[b] <=> v \in auditFresh[b]
      BY <1>1, <1>2, <2>2
    <3>3. RequestInv(v)
      BY DEF GateInv
    <3>4. UNCHANGED audit
      BY <1>2
    <3>5. CASE req[v].pc # "admitted"
      BY <3>1, <3>5 DEF RequestInv
    <3>6. CASE req[v].pc = "admitted"
      <4>1. v \in auditFresh'[req[v].a] <=> v \in auditFresh[req[v].a]
        BY <1>1, <3>2, <3>6
      <4> QED BY <3>1, <3>3, <3>4, <4>1 DEF RequestInv, Agree
    <3> QED BY <3>5, <3>6
  <2> QED BY <2>1, <2>2
<1> QED BY <1>5, <1>6, <1>7 DEF GateInv

LEMMA CommitGate ==
  ASSUME TypeOK, GateInv, NEW u \in Users, Commit(u), UNCHANGED auditRecVars
  PROVE  GateInv'
<1> DEFINE a   == req[u].a
           e   == req[u].edit
           new == WithGate(audit[a], e)
<1>1. /\ audit \in [Audits -> AuditObj] /\ auditFresh \in [Audits -> SUBSET AuditCopies]
      /\ decider \in [Audits -> Users \cup {NoUser}] /\ DOMAIN req = Users
      /\ \A v \in Users : req[v].pc = "admitted" => req[v].a \in Audits
  BY DEF TypeOK, ClusterTypeOK, ApprovalTypeOK
<1>2. /\ req[u].pc = "admitted" /\ a \in Audits /\ audit[a] \in AuditObj
      /\ req' = [req EXCEPT ![u] = NoRequest]
      /\ UNCHANGED <<auditCache, heldRuns, ar>>
  BY <1>1 DEF Commit, auditRecVars
<1>3. \A v \in Users : req'[v].pc = "admitted" => v # u /\ req'[v] = req[v]
  BY <1>1, <1>2 DEF NoRequest
<1>4. CASE audit[a].live /\ u \in auditFresh[a]
  <2>1. /\ audit' = [audit EXCEPT ![a] = new]
        /\ auditFresh' = [auditFresh EXCEPT ![a] = {}]
        /\ decider' = IF audit[a].decision = "" /\ e.decision # ""
                      THEN [decider EXCEPT ![a] = u] ELSE decider
    BY <1>4 DEF Commit
  <2>2. new.decision = e.decision /\ new.by = e.by /\ new.uid = audit[a].uid
    BY <1>2 DEF WithGate, AuditObj
  <2>3. \/ Agree(e, audit[a])
        \/ audit[a].decision = "" /\ e.decision # "" /\ e.by = u
    BY <1>2, <1>4 DEF GateInv, RequestInv
  <2> HIDE DEF new, e, a
  <2>4. ASSUME NEW b \in Audits PROVE RecordInv(b)'
    <3>1. RecordInv(b)
      BY DEF GateInv
    <3>2. CASE b # a
      <4>1. audit'[b] = audit[b] /\ auditFresh'[b] = auditFresh[b] /\ decider'[b] = decider[b]
        BY <1>1, <2>1, <3>2
      <4> QED BY <1>2, <3>1, <4>1 DEF RecordInv, Agree
    <3>3. CASE b = a
      <4>1. audit'[a] = new /\ auditFresh'[a] = {}
        BY <1>1, <1>2, <2>1
      <4>2. audit[a].uid # 0
        BY <1>4, <3>1, <3>3 DEF RecordInv
      <4>3. new.by = decider'[a]
        BY <1>1, <1>2, <2>1, <2>2, <2>3, <3>1, <3>3 DEF RecordInv, Agree
      <4>4. audit[a].decision # "" => Agree(new, audit[a])
        BY <2>2, <2>3 DEF Agree
      <4>5. UNCHANGED <<auditCache, heldRuns>>
        BY <1>2
      <4> QED BY <2>2, <3>1, <3>3, <4>1, <4>2, <4>3, <4>4, <4>5 DEF RecordInv, Agree
    <3> QED BY <3>2, <3>3
  <2>5. CopyInv'
    <3>1. ar.pc \in {"held", "phase"} => ar.a \in Audits
      BY ArParts DEF TypeOK, AuditRecTypeOK
    <3> QED BY <1>1, <1>2, <2>1, <3>1 DEF GateInv, CopyInv, Agree
  <2>6. ASSUME NEW v \in Users PROVE RequestInv(v)'
    <3>1. RequestInv(v)
      BY DEF GateInv
    <3> QED BY <1>1, <1>3, <2>1, <3>1 DEF RequestInv, Agree
  <2> QED BY <2>4, <2>5, <2>6 DEF GateInv
<1>5. CASE ~(audit[a].live /\ u \in auditFresh[a])
  <2>1. UNCHANGED <<audit, auditFresh, decider>>
    BY <1>5 DEF Commit
  <2>2. ASSUME NEW b \in Audits PROVE RecordInv(b)'
    BY <1>2, <2>1 DEF GateInv, RecordInv, Agree
  <2>3. CopyInv'
    BY <1>2, <2>1 DEF GateInv, CopyInv, Agree
  <2>4. ASSUME NEW v \in Users PROVE RequestInv(v)'
    <3>1. RequestInv(v)
      BY DEF GateInv
    <3> QED BY <1>3, <2>1, <3>1 DEF RequestInv, Agree
  <2> QED BY <2>2, <2>3, <2>4 DEF GateInv
<1> QED BY <1>4, <1>5

LEMMA RequestRevertGate ==
  ASSUME TypeOK, GateInv, NEW a \in Audits, RequestRevert(a), UNCHANGED auditRecVars
  PROVE  GateInv'
<1> DEFINE new == [audit[a] EXCEPT !.revert = TRUE]
<1>1. audit \in [Audits -> AuditObj] /\ auditFresh \in [Audits -> SUBSET AuditCopies]
  BY DEF TypeOK, ClusterTypeOK
<1>2. new \in AuditObj
  BY <1>1, AuditEdits
<1>3. Agree(new, audit[a]) /\ new.uid = audit[a].uid /\ new.live = audit[a].live
  BY <1>1 DEF Agree, AuditObj
<1>4. /\ audit' = [audit EXCEPT ![a] = new]
      /\ auditFresh' = [auditFresh EXCEPT ![a] = {}]
      /\ UNCHANGED <<auditCache, heldRuns, decider, req, ar>>
  BY DEF RequestRevert, auditRecVars
<1> HIDE DEF new
<1>5. CopyInv'
  <2>1. ar.pc \in {"held", "phase"} => ar.a \in Audits
    BY ArParts DEF TypeOK, AuditRecTypeOK
  <2> QED BY <1>1, <1>4, <2>1 DEF GateInv, CopyInv, Agree
<1> QED BY <1>2, <1>3, <1>4, <1>5, Rewritten

LEMMA CrashGate ==
  ASSUME TypeOK, GateInv, Crash
  PROVE  GateInv'
<1>1. /\ auditFresh \in [Audits -> SUBSET AuditCopies]
      /\ \A v \in Users : req[v].pc = "admitted" => req[v].a \in Audits
  BY DEF TypeOK, ClusterTypeOK, ApprovalTypeOK
<1>2. /\ auditCache' = audit /\ ar'.pc = "idle"
      /\ auditFresh' = [a \in Audits |->
           (auditFresh[a] \ {"policyReconciler", "auditReconciler"}) \cup {"cache"}]
      /\ UNCHANGED <<audit, heldRuns, decider, req>>
  BY DEF Crash, RelistCaches, ArIdle, approvalVars
<1>3. ASSUME NEW b \in Audits PROVE RecordInv(b)'
  BY <1>2 DEF GateInv, RecordInv, Agree
<1>4. CopyInv'
  BY <1>2 DEF CopyInv
<1>5. ASSUME NEW u \in Users PROVE RequestInv(u)'
  <2>1. u # "cache"
    BY ClusterAssumption DEF PolicyCopies
  <2>2. RequestInv(u)
    BY DEF GateInv
  <2>3. req[u].pc = "admitted" /\ u \in auditFresh'[req[u].a] => u \in auditFresh[req[u].a]
    BY <1>1, <1>2, <2>1
  <2> QED BY <1>2, <2>2, <2>3 DEF RequestInv, Agree
<1> QED BY <1>3, <1>4, <1>5 DEF GateInv

-----------------------------------------------------------------------------
LEMMA NextGate == TypeOK /\ GateInv /\ [Next]_vars => GateInv'
<1> SUFFICES ASSUME TypeOK, GateInv, [Next]_vars PROVE GateInv'
  OBVIOUS
<1>1. CASE Clock \/ Informer \/ PolicyUser
  <2>1. UNCHANGED <<reconcilerVars, auditRecVars, approvalVars>>
    BY <1>1, Zenon DEF Clock, Informer, PolicyUser, ClusterFrame, UserFrame
  <2>2. CASE \E a \in Audits : SyncAudit(a)
    BY <2>1, <2>2, SyncAuditGate
  <2>3. CASE Tick \/ SyncPolicy \/ EditPolicy \/ DeletePolicy \/ RecreatePolicy
    BY <2>1, <2>3, GateFrame DEF Tick, SyncPolicy, EditPolicy, DeletePolicy, RecreatePolicy,
       auditRecVars, approvalVars
  <2> QED BY <1>1, <2>2, <2>3, Zenon DEF Clock, Informer, PolicyUser
<1>2. CASE PolicyStep
  BY <1>2, PolicyStepGate
<1>3. CASE AuditStep
  <2>1. UNCHANGED approvalVars
    BY <1>3, Zenon DEF AuditStep, AuditFrame
  <2>2. \/ \E a \in Audits :
             Sweep(a) \/ DenyGate(a) \/ ExpireGate(a) \/ ReleaseGate(a) \/ Revert(a)
        \/ \E r \in Outcomes : \/ RecordHeld(r) \/ SetPhase(r) \/ SetReverted(r)
                              \/ StartCooldown(r) \/ RefetchPolicy
    BY <1>3, SomeOutcome, Zenon DEF AuditStep
  <2> QED BY <2>1, <2>2, AuditReadsGate, AuditWritesGate
<1>4. CASE AuditUser
  <2>1. UNCHANGED auditRecVars
    BY <1>4, Zenon DEF AuditUser, ApprovalFrame
  <2>2. ClusterTypeOK
    BY DEF TypeOK
  <2> QED BY <1>4, <2>1, <2>2, AuditUserSteps, SubmitGate, CommitGate, RequestRevertGate
<1>5. CASE Crash
  BY <1>5, CrashGate
<1>6. CASE UNCHANGED vars
  BY <1>6, GateFrame DEF vars, clusterVars, auditRecVars, approvalVars
<1> QED BY <1>1, <1>2, <1>3, <1>4, <1>5, <1>6 DEF Next

LEMMA GateInvariant == Spec => [](TypeOK /\ GateInv)
BY InitType, NextType, InitGate, NextGate, PTL DEF Spec

(* The approval gate fails closed: under any staleness, loss, retry or     *)
(* restart, the actions behind a gate have run only for a record that      *)
(* carries an approval.                                                    *)
THEOREM GateFailsClosed == Spec => []FailClosed
<1>1. GateInv => FailClosed
  BY DEF GateInv, RecordInv, FailClosed
<1> QED BY <1>1, GateInvariant, PTL

(* decidedBy always names the client whose request made the decision.      *)
THEOREM DeciderIsStamped == Spec => []DeciderStamped
<1>1. GateInv => DeciderStamped
  BY DEF GateInv, RecordInv, DeciderStamped
<1> QED BY <1>1, GateInvariant, PTL

(* Who writes the records. *)
LEMMA AuditWriters ==
  ASSUME [Next]_vars
  PROVE  \/ UNCHANGED audit
         \/ \E b \in Audits, r \in Outcomes : WriteAudit(b, r) \/ WriteGatedAudit(b, r)
         \/ \E b \in Audits : Sweep(b) \/ RequestRevert(b)
         \/ \E r \in Outcomes : MarkPending(r) \/ SetPhase(r) \/ SetReverted(r)
         \/ \E r \in Outcomes : RecordHeld(r)
         \/ \E u \in Users : Commit(u)
<1>1. CASE Clock \/ Informer \/ PolicyUser \/ Crash \/ UNCHANGED vars
  <2>1. CASE Clock \/ Crash \/ UNCHANGED vars
    BY <2>1 DEF Clock, Tick, Crash, vars, clusterVars
  <2>2. CASE Informer \/ PolicyUser
    BY <2>2 DEF Informer, PolicyUser, SyncPolicy, SyncAudit, EditPolicy,
       DeletePolicy, RecreatePolicy
  <2> QED BY <1>1, <2>1, <2>2
<1>2. CASE PolicyStep
  BY <1>2 DEF PolicyStep, ForgetPolicy, AwaitApproval, CoolDown, RateLimited,
     EvaluationFails, Evaluate, ResolveFails, RunPipeline, Requeue, clusterVars
<1>3. CASE AuditStep
  <2>1. ASSUME NEW b \in Audits, DenyGate(b) \/ ExpireGate(b) \/ ReleaseGate(b) \/ Revert(b)
        PROVE  UNCHANGED audit
    BY <2>1 DEF DenyGate, ExpireGate, CloseGate, ReleaseGate, Revert
  <2>2. ASSUME NEW r \in Outcomes, StartCooldown(r) \/ RefetchPolicy
        PROVE  UNCHANGED audit
    BY <2>2 DEF StartCooldown, RefetchPolicy
  <2> QED BY <1>3, <2>1, <2>2, SomeOutcome, Zenon DEF AuditStep
<1>4. CASE AuditUser
  BY <1>4 DEF AuditUser, Submit
<1> QED BY <1>1, <1>2, <1>3, <1>4 DEF Next

(* A decision is write-once: no step of any actor, and no write of a stale *)
(* copy, changes a verdict or who gave it.                                 *)
THEOREM DecisionIsFinal == Spec => DecisionWriteOnce
<1> DEFINE Kept == \A a \in Audits : audit[a].decision # "" =>
                     audit'[a].decision = audit[a].decision /\ audit'[a].by = audit[a].by
<1>1. TypeOK /\ GateInv /\ [Next]_vars => [Kept]_vars
  <2> SUFFICES ASSUME TypeOK, GateInv, [Next]_vars, NEW a \in Audits,
                      audit[a].decision # ""
               PROVE  Agree(audit'[a], audit[a])
    BY DEF Agree
  <2>0. audit \in [Audits -> AuditObj] /\ audit[a].uid # 0
    BY DEF TypeOK, ClusterTypeOK, GateInv, RecordInv
  <2>1. CASE UNCHANGED audit
    BY <2>1 DEF Agree
  <2>2. ASSUME NEW b \in Audits, NEW new, Agree(new, audit[b]),
               audit' = [audit EXCEPT ![b] = new]
        PROVE  Agree(audit'[a], audit[a])
    BY <2>0, <2>2 DEF Agree
  <2>3. CASE \E b \in Audits, r \in Outcomes : WriteAudit(b, r) \/ WriteGatedAudit(b, r)
    <3>1. PICK b \in Audits, r \in Outcomes : CreateRecord(b, r)
      BY <2>3 DEF WriteAudit, WriteGatedAudit
    <3>2. b # a
      BY <2>0, <3>1 DEF CreateRecord
    <3> QED BY <2>0, <3>1, <3>2 DEF CreateRecord, Agree
  <2>4. CASE \E b \in Audits : Sweep(b) \/ RequestRevert(b)
    <3>1. PICK b \in Audits : Sweep(b) \/ RequestRevert(b)
      BY <2>4
    <3>2. \/ audit' = [audit EXCEPT ![b] = [audit[b] EXCEPT !.live = FALSE]]
          \/ audit' = [audit EXCEPT ![b] = [audit[b] EXCEPT !.revert = TRUE]]
      BY <3>1 DEF Sweep, RequestRevert
    <3>3. /\ Agree([audit[b] EXCEPT !.live = FALSE], audit[b])
          /\ Agree([audit[b] EXCEPT !.revert = TRUE], audit[b])
      BY <2>0 DEF Agree, AuditObj
    <3> QED BY <2>2, <3>2, <3>3
  <2>5. ASSUME NEW b \in Audits, NEW copy, NEW rec, NEW r,
               UpdateAuditStatus(b, copy, rec, r)
        PROVE  Agree(audit'[a], audit[a])
    <3>1. Agree(WithStatus(audit[b], rec), audit[b])
      BY <2>0 DEF WithStatus, Agree, AuditObj
    <3>2. UNCHANGED audit \/ audit' = [audit EXCEPT ![b] = WithStatus(audit[b], rec)]
      BY <2>5, StoreAuditEffect DEF UpdateAuditStatus
    <3> QED BY <2>1, <2>2, <3>1, <3>2
  <2>6. CASE \E r \in Outcomes : MarkPending(r) \/ SetPhase(r) \/ SetReverted(r)
    <3>1. PICK r \in Outcomes : MarkPending(r) \/ SetPhase(r) \/ SetReverted(r)
      BY <2>6
    <3>2. CASE MarkPending(r)
      <4>1. pr.a \in Audits
        BY <3>2, PrParts DEF MarkPending, TypeOK, ReconcilerTypeOK
      <4> QED BY <2>5, <3>2, <4>1 DEF MarkPending
    <3>3. CASE SetPhase(r) \/ SetReverted(r)
      <4>1. ar.a \in Audits
        BY <3>3, ArParts DEF SetPhase, SetReverted, TypeOK, AuditRecTypeOK
      <4> QED BY <2>5, <3>3, <4>1 DEF SetPhase, SetReverted
    <3> QED BY <3>1, <3>2, <3>3
  <2>7. CASE \E r \in Outcomes : RecordHeld(r)
    <3>1. PICK r \in Outcomes : RecordHeld(r)
      BY <2>7
    <3> DEFINE new == WithSpec(audit[ar.a], ar.copy)
    <3>2. ar.a \in Audits /\ ar.copy \in AuditObj /\ ar.pc = "held"
      BY <3>1, ArParts DEF RecordHeld, TypeOK, AuditRecTypeOK
    <3>3. Agree(new, ar.copy)
      BY <2>0, <3>2 DEF WithSpec, Agree, AuditObj
    <3>4. StoreAudit(ar.a, "auditReconciler", new, HoldsCurrent(ar.a, "auditReconciler"), r)
      BY <3>1 DEF RecordHeld, UpdateAuditSpec
    <3> HIDE DEF new
    <3>5. \/ UNCHANGED audit
          \/ /\ HoldsCurrent(ar.a, "auditReconciler")
             /\ audit' = [audit EXCEPT ![ar.a] = new]
      BY <3>4 DEF StoreAudit, CallEnds, Applied
    <3>6. HoldsCurrent(ar.a, "auditReconciler") => Agree(ar.copy, audit[ar.a])
      BY <3>2 DEF HoldsCurrent, GateInv, CopyInv
    <3>7. HoldsCurrent(ar.a, "auditReconciler") => Agree(new, audit[ar.a])
      BY <3>3, <3>6 DEF Agree
    <3> QED BY <2>1, <2>2, <3>2, <3>5, <3>7
  <2>8. CASE \E u \in Users : Commit(u)
    <3>1. PICK u \in Users : Commit(u)
      BY <2>8
    <3> DEFINE b == req[u].a
               e == req[u].edit
    <3>2. b \in Audits /\ req[u].pc = "admitted"
      BY <3>1 DEF Commit, TypeOK, ApprovalTypeOK
    <3>3. CASE audit[b].live /\ u \in auditFresh[b] /\ b = a
      <4>1. Agree(e, audit[a])
        BY <3>2, <3>3 DEF GateInv, RequestInv
      <4>2. audit' = [audit EXCEPT ![a] = WithGate(audit[a], e)]
        BY <3>1, <3>3 DEF Commit
      <4>3. Agree(WithGate(audit[a], e), e)
        BY <2>0 DEF WithGate, Agree, AuditObj
      <4>4. Agree(WithGate(audit[a], e), audit[a])
        BY <4>1, <4>3 DEF Agree
      <4> QED BY <2>2, <4>2, <4>4
    <3>4. CASE ~(audit[b].live /\ u \in auditFresh[b])
      BY <2>1, <3>1, <3>4 DEF Commit
    <3>5. CASE audit[b].live /\ u \in auditFresh[b] /\ b # a
      <4>1. audit' = [audit EXCEPT ![b] = WithGate(audit[b], e)]
        BY <3>1, <3>5 DEF Commit
      <4> QED BY <2>0, <3>2, <3>5, <4>1 DEF Agree
    <3> QED BY <3>3, <3>4, <3>5
  <2> QED BY <2>1, <2>3, <2>4, <2>6, <2>7, <2>8, AuditWriters
<1> QED BY <1>1, GateInvariant, PTL DEF Spec, DecisionWriteOnce
===============================================================================
