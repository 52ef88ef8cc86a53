--------------------------- MODULE PolicyReconciler ---------------------------
(***************************************************************************)
(* ReactivePolicyReconciler (internal/controller/reactivepolicy_           *)
(* controller.go, auditwriter.go, ratelimit.go) with the in-memory state   *)
(* it keeps: the sliding window (internal/prometheus/evaluator.go) and the *)
(* limiter's cached count.                                                 *)
(*                                                                         *)
(* A reconcile is cut at the calls that other actors can come between:     *)
(*   "idle"    Get the policy, the gates, the query, Window.Observe;       *)
(*   "run"     trigger: resolve the targets, run the pipeline;             *)
(*   "create"  Create the ActionAudit;                                     *)
(*   "mark"    Status().Update of a gated record to phase Pending;         *)
(*   "requeue" Status().Update of the policy.                              *)
(* Gets and Lists are answered by the informer caches: the only error such *)
(* a read returns is NotFound, so the branches for any other are left out. *)
(***************************************************************************)
EXTENDS Cluster

CONSTANTS
  Duration,        \* spec.observe.duration
  Cooldown,        \* spec.cooldown
  PollInterval,    \* spec.observe.pollInterval, also the limiter's ttl
  Hour,            \* the limiter's rolling window
  MaxTriggers,     \* spec.maxTriggersPerHour
  ApprovalTimeout, \* spec.approvalTimeout
  TargetLists,     \* what listing spec.target can return
  PluginOutcomes,  \* how a plugin's Execute can end
  LastCrossing     \* bound: last tick at which the metric is beyond its threshold
                   \* (and it is within it once every record name is used)

ASSUME TimingAssumption ==
  /\ Duration \in Nat \ {0} /\ Cooldown \in Nat \ {0}
  /\ PollInterval \in Nat \ {0} /\ Hour \in Nat \ {0}
  /\ MaxTriggers \in Nat \ {0} /\ ApprovalTimeout \in Nat \ {0}
  /\ TargetLists \subseteq Seq(Targets)
  /\ PluginOutcomes \subseteq Statuses

VARIABLES
  pr,        \* the reconcile in progress
  window,    \* SlidingWindow.crossedAt for this policy, Never if absent
  lim,       \* auditLimiter.cache for this policy
  fires      \* history: the reconcile time of every pipeline started

reconcilerVars == <<pr, window, lim, fires>>

PrIdle == [pc |-> "idle"]
NoEntry == [has |-> FALSE, at |-> 0, n |-> 0]

PrState ==
  [pc : {"idle"}]
    \cup [pc : {"run", "requeue"}, pol : PolicyObj, at : Time]
    \cup [pc : {"create"}, pol : PolicyObj, at : Time,
          targets : Seq(Targets), results : Seq(Seq(Result))]
    \cup [pc : {"mark"}, pol : PolicyObj, at : Time, a : Audits, copy : AuditObj]

ReconcilerTypeOK ==
  /\ pr \in PrState
  /\ window \in Time \cup {Never}
  /\ lim \in [has : BOOLEAN, at : Time, n : Nat]
  /\ fires \in Seq(Time)

ReconcilerInit ==
  /\ pr = PrIdle
  /\ window = Never
  /\ lim = NoEntry
  /\ fires = <<>>

-----------------------------------------------------------------------------
(* The gates. *)

(* gateStillOpen: a record that is decided, expired or gone is no gate.    *)
GateStillOpenUntilDeadline(p) ==       \* variant: the deadline alone ends a gate
  /\ p.ref # NoAudit
  /\ auditCache[p.ref].phase = "Pending"
  /\ now < auditCache[p.ref].expires

GateStillOpenUnlessApproved(p) ==      \* variant: a refusal does not end a gate
  p.ref # NoAudit /\ auditCache[p.ref].live /\ auditCache[p.ref].phase # "Approved"

GateStillOpen(p) ==
  /\ p.ref # NoAudit
  /\ auditCache[p.ref].live
  /\ auditCache[p.ref].phase = "Pending"

(* Past Gate 0 the reference is dropped, whatever it named.                *)
PastGate0 == [policyCache EXCEPT !.ref = NoAudit]

CoolingDownTooShort(p) ==              \* variant: a tick short
  p.last # Never /\ now - p.last < Cooldown - 1

CoolingDown(p) == p.last # Never /\ now - p.last < Cooldown

(* auditLimiter.count: the cached count while it is younger than the ttl,  *)
(* else the records in the informer's cache triggered in the last hour.    *)
Cached == lim.has /\ now - lim.at < PollInterval

ListedOffByOne == Cardinality({a \in Audits : auditCache[a].live
                                 /\ auditCache[a].at > now - Hour + 1})   \* variant

Listed == Cardinality({a \in Audits : auditCache[a].live
                                        /\ auditCache[a].at > now - Hour})

CountEntry == IF Cached THEN lim ELSE [has |-> TRUE, at |-> now, n |-> Listed]

Allowed == CountEntry.n < MaxTriggers

(* auditLimiter.Observe *)
ObservedTimeOnly(entry, at) ==         \* variant: the count is not bumped
  IF entry.has THEN [entry EXCEPT !.at = at] ELSE entry

ObservedDown(entry, at) ==             \* variant: counts down
  IF entry.has THEN [entry EXCEPT !.n = @ - 1, !.at = at] ELSE entry

Observed(entry, at) ==
  IF entry.has THEN [entry EXCEPT !.n = @ + 1, !.at = at] ELSE entry

(* SlidingWindow.Observe: the new crossedAt and the time it has lasted.    *)
ObserveSince(crossed) ==
  IF ~crossed THEN Never ELSE IF window = Never THEN now ELSE window

CrossedFor(crossed) ==
  IF ~crossed \/ window = Never THEN 0 ELSE now - window

-----------------------------------------------------------------------------
(* Reconcile, up to its first write. *)

ReadPolicy == policyFresh' = ReadBy("policyReconciler", policyFresh)

(* r.Get returned NotFound. *)
ForgetPolicy ==
  /\ pr.pc = "idle" /\ ~policyCache.live
  /\ window' = Never /\ lim' = NoEntry
  /\ UNCHANGED <<pr, fires, clusterVars>>

(* Gate 0: the policy holds for a decision. *)
AwaitApproval ==
  /\ pr.pc = "idle" /\ policyCache.live
  /\ GateStillOpen(policyCache)
  /\ ReadPolicy
  /\ pr' = [pc |-> "requeue", pol |-> policyCache, at |-> now]
  /\ UNCHANGED <<window, lim, fires, now, policy, policyCache,
                 audit, auditCache, auditFresh, edits, faults>>

(* Gate 1: the cooldown. *)
CoolDown ==
  /\ pr.pc = "idle" /\ policyCache.live
  /\ ~GateStillOpen(policyCache) /\ CoolingDown(policyCache)
  /\ ReadPolicy
  /\ pr' = [pc |-> "requeue", pol |-> PastGate0, at |-> now]
  /\ UNCHANGED <<window, lim, fires, now, policy, policyCache,
                 audit, auditCache, auditFresh, edits, faults>>

(* Gate 2: the hourly cap. *)
RateLimited ==
  /\ pr.pc = "idle" /\ policyCache.live
  /\ ~GateStillOpen(policyCache) /\ ~CoolingDown(policyCache)
  /\ ~Allowed
  /\ ReadPolicy
  /\ lim' = CountEntry
  /\ pr' = [pc |-> "requeue", pol |-> PastGate0, at |-> now]
  /\ UNCHANGED <<window, fires, now, policy, policyCache,
                 audit, auditCache, auditFresh, edits, faults>>

PastGates ==
  /\ pr.pc = "idle" /\ policyCache.live
  /\ ~GateStillOpen(policyCache) /\ ~CoolingDown(policyCache) /\ Allowed
  /\ ReadPolicy
  /\ lim' = CountEntry

(* No usable value.  A failed query empties the window; a client that      *)
(* cannot be built or a threshold that does not parse leaves it alone.     *)
EvaluationFails(forget) ==
  /\ PastGates
  /\ window' = IF forget THEN Never ELSE window
  /\ pr' = [pc |-> "requeue", pol |-> PastGate0, at |-> now]
  /\ UNCHANGED <<fires, now, policy, policyCache,
                 audit, auditCache, auditFresh, edits, faults>>

(* A value: within the threshold, or beyond it and either sustained for    *)
(* the whole duration, which triggers, or not yet.                         *)
MayCross == now <= LastCrossing /\ \E a \in Audits : audit[a].uid = 0

Evaluate(crossed) ==
  /\ crossed => MayCross
  /\ PastGates
  /\ window' = ObserveSince(crossed)
  /\ pr' = [pc  |-> IF crossed /\ CrossedFor(crossed) >= Duration
                    THEN "run" ELSE "requeue",
            pol |-> PastGate0, at |-> now]
  /\ UNCHANGED <<fires, now, policy, policyCache,
                 audit, auditCache, auditFresh, edits, faults>>

-----------------------------------------------------------------------------
(* trigger *)

PrRequeue(pol) == [pc |-> "requeue", pol |-> pol, at |-> pr.at]

(* resolveTargets refused: nothing ran, the window is kept. *)
ResolveFails ==
  /\ pr.pc = "run"
  /\ pr' = PrRequeue(pr.pol)
  /\ UNCHANGED <<window, lim, fires, clusterVars>>

(* The pipeline, up to its gate if it has one, against every target.       *)
RunTo(p) == IF GateIndex(p) >= 0 THEN GateIndex(p) ELSE Len(p)

RunPipeline ==
  /\ pr.pc = "run"
  /\ \E ts \in {Resolved(list) : list \in TargetLists} :
     \E outcome \in [1..Len(ts) -> [0..(RunTo(pr.pol.actions) - 1) -> PluginOutcomes]] :
       pr' = [pc |-> "create", pol |-> pr.pol, at |-> pr.at, targets |-> ts,
              results |-> [i \in 1..Len(ts) |->
                RunRange(pr.pol.actions, 0, RunTo(pr.pol.actions), outcome[i],
                         0..(RunTo(pr.pol.actions) - 1))]]
  /\ fires' = Append(fires, pr.at)
  /\ UNCHANGED <<window, lim, clusterVars>>

(* The record writeAudit and writeGatedAudit build. *)
NewRecord ==
  LET g == GateIndex(pr.pol.actions)
  IN  [NoRecord EXCEPT
         !.live = TRUE, !.uid = pr.pol.uid, !.created = now, !.at = pr.at,
         !.recs = <<[kind |-> "before", results |-> pr.results]>>,
         !.gated = g >= 0,
         !.index = IF g >= 0 THEN g ELSE 0,
         !.held = IF g >= 0 THEN HeldPlugins(pr.pol.actions, g) ELSE <<>>,
         !.targets = IF g >= 0 THEN pr.targets ELSE <<>>,
         !.expires = IF g >= 0 THEN pr.at + ApprovalTimeout ELSE 0]

(* Create under a generated name.  The new record starts out of the cache. *)
CreateRecord(a, r) ==
  /\ audit[a].uid = 0
  /\ r # "conflict"
  /\ CallEnds(TRUE, r)
  /\ IF Applied(r)
     THEN /\ audit' = [audit EXCEPT ![a] = NewRecord]
          /\ auditFresh' = [auditFresh EXCEPT ![a] =
                              IF r = "ok" THEN {"policyReconciler"} ELSE {}]
     ELSE UNCHANGED <<audit, auditFresh>>

TriggeredNot(pol, at) == pol           \* variant: lastTriggeredAt left alone

Triggered(pol, at) == [pol EXCEPT !.last = at]

(* An ungated pipeline is complete: lastTriggeredAt is set whether or not  *)
(* the record was written, the limiter counts it only if it was.           *)
WriteAuditKeepWindow(a, r) ==          \* variant: the window is not emptied
  /\ pr.pc = "create" /\ GateIndex(pr.pol.actions) < 0
  /\ CreateRecord(a, r)
  /\ pr' = PrRequeue(Triggered(pr.pol, pr.at))
  /\ lim' = IF r = "ok" THEN Observed(lim, pr.at) ELSE lim
  /\ UNCHANGED <<window, fires, now, policy, policyCache, policyFresh, auditCache, edits>>

WriteAudit(a, r) ==
  /\ pr.pc = "create" /\ GateIndex(pr.pol.actions) < 0
  /\ CreateRecord(a, r)
  /\ pr' = PrRequeue(Triggered(pr.pol, pr.at))
  /\ lim' = IF r = "ok" THEN Observed(lim, pr.at) ELSE lim
  /\ window' = Never
  /\ UNCHANGED <<fires, now, policy, policyCache, policyFresh, auditCache, edits>>

(* A gated record takes a second write before it is a gate. *)
WriteGatedAudit(a, r) ==
  /\ pr.pc = "create" /\ GateIndex(pr.pol.actions) >= 0
  /\ CreateRecord(a, r)
  /\ IF r = "ok"
     THEN /\ pr' = [pc |-> "mark", pol |-> pr.pol, at |-> pr.at, a |-> a,
                    copy |-> NewRecord]
          /\ UNCHANGED window
     ELSE pr' = PrRequeue(pr.pol) /\ window' = Never
  /\ UNCHANGED <<lim, fires, now, policy, policyCache, policyFresh, auditCache, edits>>

MarkPending(r) ==
  /\ pr.pc = "mark"
  /\ UpdateAuditStatus(pr.a, "policyReconciler", [pr.copy EXCEPT !.phase = "Pending"], r)
  /\ pr' = PrRequeue(IF r = "ok" THEN [pr.pol EXCEPT !.ref = pr.a] ELSE pr.pol)
  /\ lim' = IF r = "ok" THEN Observed(lim, pr.at) ELSE lim
  /\ window' = Never
  /\ UNCHANGED <<fires, now, policy, policyCache, policyFresh, auditCache, edits>>

(* requeue: the whole status is written back.  A conflict or an error ends *)
(* the reconcile and what it decided is lost; the next one starts over.    *)
RequeuePatch(r) ==                     \* variant: a patch without resourceVersion
  /\ pr.pc = "requeue"
  /\ StorePolicy("policyReconciler", pr.pol, policy.live, r)
  /\ pr' = PrIdle
  /\ UNCHANGED <<window, lim, fires, now, policyCache,
                 audit, auditCache, auditFresh, edits>>

Requeue(r) ==
  /\ pr.pc = "requeue"
  /\ UpdatePolicyStatus("policyReconciler", pr.pol, r)
  /\ pr' = PrIdle
  /\ UNCHANGED <<window, lim, fires, now, policyCache,
                 audit, auditCache, auditFresh, edits>>
=============================================================================
