----------------------------- MODULE PromiseProofs -----------------------------
(***************************************************************************)
(* The operator keeps the promise of the abstract gate, for any number of  *)
(* records, users, faults, restarts, edits and incarnations of the policy  *)
(* and for any staleness of the caches: Spec => GatePromise, with the      *)
(* safety properties of the outcome on the way.                            *)
(***************************************************************************)
EXTENDS GateProofs

-----------------------------------------------------------------------------
(* Whose gate it is.  Names are reused: a policy can be deleted and made   *)
(* again while reads of the old one are still around.  OwnerInv says that  *)
(* the policy's cache is never ahead of the server, that no record is of a *)
(* policy the cache has not seen, that a reference to a gate always comes  *)
(* with the policy that opened it, and that a working copy the server      *)
(* would still accept is of the policy the server has.                     *)

OwnRef(p) == p.ref # NoAudit => audit[p.ref].uid = p.uid

CacheBehind ==
  /\ policyCache.uid <= policy.uid
  /\ policy.live /\ policyCache.uid = policy.uid => policyCache.live
  /\ "cache" \in policyFresh => policyCache = policy

ReconcileOwner ==
  /\ pr.pc # "idle" =>
       /\ OwnRef(pr.pol) /\ pr.pol.uid <= policyCache.uid
       /\ "policyReconciler" \in policyFresh => pr.pol.uid = policy.uid
  /\ pr.pc = "mark" => audit[pr.a].uid = pr.pol.uid

OwnerInv ==
  /\ CacheBehind /\ ReconcileOwner
  /\ \A a \in Audits : audit[a].uid <= policyCache.uid
  /\ OwnRef(policy) /\ OwnRef(policyCache)

LEMMA InitOwner == Init => OwnerInv
<1> SUFFICES ASSUME Init PROVE OwnerInv
  OBVIOUS
<1>1. PICK p \in Pipelines : policy = [live |-> TRUE, uid |-> 1, actions |-> p,
                                      ref |-> NoAudit, last |-> Never]
  BY DEF Init, ClusterInit
<1>2. policy.uid = 1 /\ policy.live /\ policy.ref = NoAudit
  BY <1>1
<1>3. policyCache = policy /\ pr.pc = "idle"
  BY DEF Init, ClusterInit, ReconcilerInit, PrIdle
<1>4. ASSUME NEW a \in Audits PROVE audit[a].uid = 0
  BY DEF Init, ClusterInit, NoRecord
<1> QED BY <1>2, <1>3, <1>4 DEF OwnerInv, CacheBehind, ReconcileOwner, OwnRef

(* What the types say of the things OwnerInv is about. *)
LEMMA OwnerTypes ==
  ASSUME TypeOK
  PROVE  /\ policy.uid \in Nat /\ policyCache.uid \in Nat
         /\ policy.uid > 0 /\ policyCache.uid > 0
         /\ policy.ref \in Audits \cup {NoAudit} /\ policyCache.ref \in Audits \cup {NoAudit}
         /\ \A a \in Audits : audit[a].uid \in Nat
         /\ pr.pc \in {"idle", "run", "requeue", "create", "mark"}
         /\ pr.pc # "idle" => /\ pr.pol \in PolicyObj /\ pr.pol.uid \in Nat /\ pr.pol.uid > 0
                              /\ pr.pol.ref \in Audits \cup {NoAudit}
         /\ pr.pc = "mark" => pr.a \in Audits
<1>1. policy \in PolicyObj /\ policyCache \in PolicyObj /\ audit \in [Audits -> AuditObj]
  BY DEF TypeOK, ClusterTypeOK
<1>2. \A p \in PolicyObj : p.uid \in Nat /\ p.uid > 0 /\ p.ref \in Audits \cup {NoAudit}
  BY ClusterAssumption DEF PolicyObj
<1>3. \A x \in AuditObj : x.uid \in Nat
  BY ClusterAssumption DEF AuditObj
<1>4. pr \in PrState
  BY DEF TypeOK, ReconcilerTypeOK
<1>5. pr.pc \in {"idle", "run", "requeue", "create", "mark"}
  BY <1>4 DEF PrState
<1> QED BY <1>1, <1>2, <1>3, <1>4, <1>5, PrParts

(* A step that changes no owner and no working copy. *)
LEMMA OwnerFrame ==
  ASSUME TypeOK, OwnerInv, UNCHANGED <<policy, policyCache, pr>>,
         "cache" \in policyFresh' => "cache" \in policyFresh,
         "policyReconciler" \in policyFresh' => "policyReconciler" \in policyFresh,
         \A a \in Audits : audit'[a].uid = audit[a].uid
  PROVE  OwnerInv'
BY OwnerTypes DEF OwnerInv, CacheBehind, ReconcileOwner, OwnRef

(* A reconcile of the policy begins: it takes a copy of the cached policy, *)
(* or of it without its reference.                                         *)
LEMMA ReadPolicyOwner ==
  ASSUME TypeOK, OwnerInv, ReadPolicy, UNCHANGED <<policy, policyCache, audit>>,
         pr'.pc \in {"run", "requeue"}, pr'.pol \in {policyCache, PastGate0}
  PROVE  OwnerInv'
<1>1. PastGate0.uid = policyCache.uid /\ PastGate0.ref = NoAudit
  BY DEF PastGate0, TypeOK, ClusterTypeOK, PolicyObj
<1>2. "cache" \in policyFresh' <=> "cache" \in policyFresh
  BY DEF ReadPolicy, ReadBy
<1>3. "policyReconciler" \in policyFresh' => "cache" \in policyFresh
  BY DEF ReadPolicy, ReadBy
<1> QED BY <1>1, <1>2, <1>3, OwnerTypes
        DEF OwnerInv, CacheBehind, ReconcileOwner, OwnRef

(* A write of the policy's status by either reconciler. *)
LEMMA StorePolicyEffect ==
  ASSUME TypeOK, NEW copy, NEW content, NEW fresh, NEW r, StorePolicy(copy, content, fresh, r)
  PROVE  /\ policy'.uid = policy.uid /\ policy'.live = policy.live
         /\ policy'.actions = policy.actions
         /\ policyFresh' \subseteq policyFresh
         /\ \/ policy' = policy
            \/ /\ fresh /\ policyFresh' = {}
               /\ policy'.ref = content.ref /\ policy'.last = content.last
<1>1. policy \in PolicyObj
  BY DEF TypeOK, ClusterTypeOK
<1>2. /\ WithPolicyStatus(policy, content).uid = policy.uid
      /\ WithPolicyStatus(policy, content).live = policy.live
      /\ WithPolicyStatus(policy, content).actions = policy.actions
      /\ WithPolicyStatus(policy, content).ref = content.ref
      /\ WithPolicyStatus(policy, content).last = content.last
  BY <1>1 DEF WithPolicyStatus, PolicyObj
<1> QED BY <1>2 DEF StorePolicy, CallEnds, Applied

LEMMA StorePolicyOwner ==
  ASSUME TypeOK, OwnerInv, NEW copy, NEW content, NEW fresh, NEW r,
         StorePolicy(copy, content, fresh, r), UNCHANGED <<policyCache, audit>>,
         UNCHANGED pr \/ pr'.pc = "idle",
         fresh => content.ref = NoAudit \/ (OwnRef(content) /\ content.uid = policy.uid)
  PROVE  OwnerInv'
<1>1. /\ policy'.uid = policy.uid /\ policy'.live = policy.live
      /\ policyFresh' \subseteq policyFresh
      /\ \/ policy' = policy
         \/ fresh /\ policy'.ref = content.ref /\ policyFresh' = {}
  BY StorePolicyEffect
<1>2. CacheBehind'
  BY <1>1 DEF OwnerInv, CacheBehind
<1>3. ReconcileOwner'
  BY <1>1, OwnerTypes DEF OwnerInv, ReconcileOwner, OwnRef
<1>4. OwnRef(policy)'
  BY <1>1 DEF OwnerInv, OwnRef
<1> QED BY <1>2, <1>3, <1>4 DEF OwnerInv, OwnRef

(* A record keeps its owner and its times: only Create gives them.  It     *)
(* goes when it is swept and never comes back.                             *)
SameRecord(x, y) == x.uid = y.uid /\ x.at = y.at /\ x.created = y.created

Lives(a) ==
  /\ audit'[a].live => audit[a].live
  /\ audit[a].live => audit'[a].live \/ Sweep(a)

LEMMA RecordsKept ==
  ASSUME TypeOK, [Next]_vars,
         ~\E a \in Audits, r \in Outcomes : WriteAudit(a, r) \/ WriteGatedAudit(a, r)
  PROVE  \A a \in Audits : SameRecord(audit'[a], audit[a]) /\ Lives(a)
<1>0. audit \in [Audits -> AuditObj]
  BY DEF TypeOK, ClusterTypeOK
<1>1. ASSUME NEW b \in Audits, NEW new, SameRecord(new, audit[b]),
             new.live = audit[b].live \/ (Sweep(b) /\ ~new.live),
             UNCHANGED audit \/ audit' = [audit EXCEPT ![b] = new]
      PROVE  \A a \in Audits : SameRecord(audit'[a], audit[a]) /\ Lives(a)
  <2>1. ASSUME NEW a \in Audits PROVE SameRecord(audit'[a], audit[a])
    BY <1>0, <1>1 DEF SameRecord
  <2>2. ASSUME NEW a \in Audits PROVE Lives(a)
    <3>1. audit'[a] = audit[a] \/ (a = b /\ audit'[a] = new)
      BY <1>0, <1>1
    <3> QED BY <1>1, <3>1, Zenon DEF Lives
  <2> QED BY <2>1, <2>2
<1>2. ASSUME NEW b \in Audits
      PROVE  /\ SameRecord([audit[b] EXCEPT !.live = FALSE], audit[b])
             /\ SameRecord([audit[b] EXCEPT !.revert = TRUE], audit[b])
             /\ ~[audit[b] EXCEPT !.live = FALSE].live
             /\ [audit[b] EXCEPT !.revert = TRUE].live = audit[b].live
             /\ \A x : /\ SameRecord(WithStatus(audit[b], x), audit[b])
                       /\ SameRecord(WithSpec(audit[b], x), audit[b])
                       /\ SameRecord(WithGate(audit[b], x), audit[b])
                       /\ WithStatus(audit[b], x).live = audit[b].live
                       /\ WithSpec(audit[b], x).live = audit[b].live
                       /\ WithGate(audit[b], x).live = audit[b].live
  BY <1>0 DEF SameRecord, AuditObj, WithStatus, WithSpec, WithGate
<1>3. CASE \E b \in Audits : Sweep(b) \/ RequestRevert(b)
  <2>1. PICK b \in Audits : Sweep(b) \/ RequestRevert(b)
    BY <1>3
  <2>2. CASE Sweep(b)
    <3>1. audit' = [audit EXCEPT ![b] = [audit[b] EXCEPT !.live = FALSE]]
      BY <2>2 DEF Sweep
    <3> QED BY <1>1, <1>2, <2>2, <3>1
  <2>3. CASE RequestRevert(b)
    <3>1. \/ UNCHANGED audit
          \/ audit' = [audit EXCEPT ![b] = [audit[b] EXCEPT !.revert = TRUE]]
      BY <2>3 DEF RequestRevert
    <3> QED BY <1>1, <1>2, <3>1
  <2> QED BY <2>1, <2>2, <2>3
<1>4. CASE \E r \in Outcomes : MarkPending(r)
  <2>1. pr.a \in Audits
    BY <1>4, PrParts DEF MarkPending, TypeOK, ReconcilerTypeOK
  <2>2. \E rec, r : UpdateAuditStatus(pr.a, "policyReconciler", rec, r)
    BY <1>4 DEF MarkPending
  <2>3. \E rec : \/ UNCHANGED audit
                 \/ audit' = [audit EXCEPT ![pr.a] = WithStatus(audit[pr.a], rec)]
    BY <2>2, StoreAuditEffect DEF UpdateAuditStatus
  <2> QED BY <1>1, <1>2, <2>1, <2>3, Zenon
<1>5. CASE \E r \in Outcomes : SetPhase(r) \/ SetReverted(r) \/ RecordHeld(r)
  <2>1. ar.a \in Audits
    BY <1>5, ArParts DEF SetPhase, SetReverted, RecordHeld, TypeOK, AuditRecTypeOK
  <2>2. PICK r \in Outcomes : SetPhase(r) \/ SetReverted(r) \/ RecordHeld(r)
    BY <1>5
  <2>3. \/ \E rec : UpdateAuditStatus(ar.a, "auditReconciler", rec, r)
        \/ UpdateAuditSpec(ar.a, "auditReconciler", ar.copy, r)
    BY <2>2 DEF SetPhase, SetReverted, RecordHeld
  <2>4. \E rec : \/ UNCHANGED audit
                 \/ audit' = [audit EXCEPT ![ar.a] = WithStatus(audit[ar.a], rec)]
                 \/ audit' = [audit EXCEPT ![ar.a] = WithSpec(audit[ar.a], rec)]
    BY <2>3, StoreAuditEffect DEF UpdateAuditStatus, UpdateAuditSpec
  <2> QED BY <1>1, <1>2, <2>1, <2>4, Zenon
<1>6. CASE \E u \in Users : Commit(u)
  <2>1. PICK u \in Users : Commit(u)
    BY <1>6
  <2>2. req[u].a \in Audits
    BY <2>1 DEF Commit, TypeOK, ApprovalTypeOK
  <2>3. \/ UNCHANGED audit
        \/ audit' = [audit EXCEPT ![req[u].a] = WithGate(audit[req[u].a], req[u].edit)]
    BY <2>1 DEF Commit
  <2> QED BY <1>1, <1>2, <2>2, <2>3, Zenon
<1>7. CASE UNCHANGED audit
  BY <1>7 DEF SameRecord, Lives
<1> QED BY <1>3, <1>4, <1>5, <1>6, <1>7, AuditWriters

LEMMA OwnerKept ==
  ASSUME TypeOK, [Next]_vars, pr.pc = "create" => pr'.pc \in {"create", "idle"}
  PROVE  \A a \in Audits : audit'[a].uid = audit[a].uid
<1>1. ASSUME NEW a \in Audits, NEW r \in Outcomes, WriteAudit(a, r) \/ WriteGatedAudit(a, r)
      PROVE  FALSE
  BY <1>1 DEF WriteAudit, WriteGatedAudit, PrRequeue
<1> QED BY <1>1, RecordsKept DEF SameRecord

LEMMA PolicyStepOwner ==
  ASSUME TypeOK, OwnerInv, PolicyStep
  PROVE  OwnerInv'
<1>1. CASE ForgetPolicy
  BY <1>1, OwnerFrame DEF ForgetPolicy, clusterVars
<1>2. CASE AwaitApproval \/ CoolDown \/ RateLimited
  BY <1>2, ReadPolicyOwner DEF AwaitApproval, CoolDown, RateLimited
<1>3. CASE \E forget \in BOOLEAN : EvaluationFails(forget)
  BY <1>3, ReadPolicyOwner DEF EvaluationFails, PastGates
<1>4. CASE \E crossed \in BOOLEAN : Evaluate(crossed)
  <2>1. PICK crossed \in BOOLEAN : Evaluate(crossed)
    BY <1>4
  <2>2. pr'.pc \in {"run", "requeue"} /\ pr'.pol = PastGate0
    BY <2>1 DEF Evaluate
  <2> QED BY <2>1, <2>2, ReadPolicyOwner DEF Evaluate, PastGates
<1>5. CASE ResolveFails \/ RunPipeline
  <2>1. pr'.pol = pr.pol /\ pr'.pc \in {"requeue", "create"} /\ pr.pc = "run"
    BY <1>5 DEF ResolveFails, RunPipeline, PrRequeue
  <2>2. UNCHANGED <<policy, policyCache, policyFresh, audit>>
    BY <1>5 DEF ResolveFails, RunPipeline, clusterVars
  <2> QED BY <2>1, <2>2 DEF OwnerInv, CacheBehind, ReconcileOwner, OwnRef
<1>6. ASSUME NEW a \in Audits, NEW r \in Outcomes, WriteAudit(a, r) \/ WriteGatedAudit(a, r)
      PROVE  OwnerInv'
  <2>1. pr.pc = "create" /\ CreateRecord(a, r) /\ UNCHANGED <<policy, policyCache, policyFresh>>
    BY <1>6 DEF WriteAudit, WriteGatedAudit
  <2>2. NewRecord.uid = pr.pol.uid
    BY DEF NewRecord, NoRecord
  <2>3. /\ audit \in [Audits -> AuditObj] /\ audit[a].uid = 0
        /\ UNCHANGED audit \/ audit' = [audit EXCEPT ![a] = NewRecord]
        /\ r = "ok" => audit' = [audit EXCEPT ![a] = NewRecord]
    BY <2>1 DEF CreateRecord, Applied, TypeOK, ClusterTypeOK
  <2>4. /\ \A b \in Audits : audit'[b].uid \in {audit[b].uid, pr.pol.uid}
        /\ \A b \in Audits : audit[b].uid # 0 => audit'[b].uid = audit[b].uid
        /\ r = "ok" => audit'[a].uid = pr.pol.uid
    BY <2>2, <2>3
  <2>5. /\ pr'.pol.uid = pr.pol.uid /\ pr'.pol.ref = pr.pol.ref
        /\ pr'.pc = "requeue" \/ (pr'.pc = "mark" /\ pr'.a = a /\ r = "ok")
    <3>1. Triggered(pr.pol, pr.at).uid = pr.pol.uid /\ Triggered(pr.pol, pr.at).ref = pr.pol.ref
      BY <2>1, OwnerTypes DEF Triggered, PolicyObj
    <3>2. CASE WriteAudit(a, r)
      BY <3>1, <3>2 DEF WriteAudit, PrRequeue
    <3>3. CASE WriteGatedAudit(a, r)
      BY <3>3 DEF WriteGatedAudit, PrRequeue
    <3> QED BY <1>6, <3>2, <3>3
  <2>6. CacheBehind'
    BY <2>1 DEF OwnerInv, CacheBehind
  <2>7. OwnRef(policy)' /\ OwnRef(policyCache)' /\ OwnRef(pr.pol)'
    BY <2>1, <2>4, <2>5, OwnerTypes DEF OwnerInv, ReconcileOwner, OwnRef
  <2>8. \A b \in Audits : audit'[b].uid <= policyCache.uid
    BY <2>1, <2>4, OwnerTypes DEF OwnerInv, ReconcileOwner
  <2>9. ReconcileOwner'
    BY <2>1, <2>4, <2>5, <2>7 DEF OwnerInv, ReconcileOwner, OwnRef
  <2> QED BY <2>1, <2>6, <2>7, <2>8, <2>9 DEF OwnerInv
<1>7. ASSUME NEW r \in Outcomes, MarkPending(r)
      PROVE  OwnerInv'
  <2>1. pr.pc = "mark" /\ UNCHANGED <<policy, policyCache, policyFresh>> /\ pr'.pc = "requeue"
    BY <1>7 DEF MarkPending, PrRequeue
  <2>2. pr'.pol = pr.pol \/ pr'.pol = [pr.pol EXCEPT !.ref = pr.a]
    BY <1>7 DEF MarkPending, PrRequeue
  <2>3. pr'.pol.uid = pr.pol.uid /\ pr'.pol.ref \in {pr.pol.ref, pr.a}
    BY <2>1, <2>2, OwnerTypes DEF PolicyObj
  <2>4. \A a \in Audits : audit'[a].uid = audit[a].uid
    BY <2>1, OwnerKept DEF Next
  <2> QED BY <2>1, <2>3, <2>4, OwnerTypes DEF OwnerInv, CacheBehind, ReconcileOwner, OwnRef
<1>8. ASSUME NEW r \in Outcomes, Requeue(r)
      PROVE  OwnerInv'
  <2>1. /\ StorePolicy("policyReconciler", pr.pol, policy.live /\ "policyReconciler" \in policyFresh, r)
        /\ pr'.pc = "idle" /\ UNCHANGED <<policyCache, audit>> /\ pr.pc = "requeue"
    BY <1>8 DEF Requeue, UpdatePolicyStatus, PrIdle
  <2>2. OwnRef(pr.pol) /\ ("policyReconciler" \in policyFresh => pr.pol.uid = policy.uid)
    BY <2>1 DEF OwnerInv, ReconcileOwner
  <2> QED BY <2>1, <2>2, StorePolicyOwner
<1> QED BY <1>1, <1>2, <1>3, <1>4, <1>5, <1>6, <1>7, <1>8 DEF PolicyStep

LEMMA AuditStepOwner ==
  ASSUME TypeOK, OwnerInv, AuditStep, \A a \in Audits : audit'[a].uid = audit[a].uid
  PROVE  OwnerInv'
<1>0. UNCHANGED pr
  BY Zenon DEF AuditStep, AuditFrame, reconcilerVars
<1>1. ASSUME NEW a \in Audits, ReleaseGate(a)
      PROVE  OwnerInv'
  BY <1>0, <1>1, OwnerFrame DEF ReleaseGate, ReadBy
<1>2. ASSUME NEW r \in Outcomes, StartCooldown(r)
      PROVE  OwnerInv'
  <2>1. CooledDown(ar.pol, ar.at).ref = NoAudit
    BY <1>2, ArParts DEF StartCooldown, CooledDown, TypeOK, AuditRecTypeOK, PolicyObj
  <2> QED BY <1>0, <1>2, <2>1, StorePolicyOwner DEF StartCooldown, UpdatePolicyStatus
<1>3. ASSUME RefetchPolicy
      PROVE  OwnerInv'
  BY <1>0, <1>3, OwnerFrame DEF RefetchPolicy, ReadBy
<1>4. ASSUME UNCHANGED <<policy, policyCache, policyFresh>>
      PROVE  OwnerInv'
  BY <1>0, <1>4, OwnerFrame
<1>5. ASSUME NEW a \in Audits, Sweep(a) \/ DenyGate(a) \/ ExpireGate(a) \/ Revert(a)
      PROVE  OwnerInv'
  BY <1>4, <1>5 DEF Sweep, DenyGate, ExpireGate, CloseGate, Revert
<1>6. ASSUME NEW r \in Outcomes, RecordHeld(r) \/ SetPhase(r) \/ SetReverted(r)
      PROVE  OwnerInv'
  BY <1>4, <1>6 DEF RecordHeld, SetPhase, SetReverted
<1> QED BY <1>1, <1>2, <1>3, <1>5, <1>6 DEF AuditStep

LEMMA NextOwner == TypeOK /\ OwnerInv /\ [Next]_vars => OwnerInv'
<1> SUFFICES ASSUME TypeOK, OwnerInv, [Next]_vars PROVE OwnerInv'
  OBVIOUS
<1>1. CASE PolicyStep
  BY <1>1, PolicyStepOwner
<1>2. CASE AuditStep
  <2>1. UNCHANGED pr
    BY <1>2, Zenon DEF AuditStep, AuditFrame, reconcilerVars
  <2>2. \A a \in Audits : audit'[a].uid = audit[a].uid
    BY <2>1, OwnerKept
  <2> QED BY <1>2, <2>2, AuditStepOwner
<1>3. CASE AuditUser
  <2>1. UNCHANGED pr
    BY <1>3, Zenon DEF AuditUser, ApprovalFrame, reconcilerVars
  <2>2. UNCHANGED <<policy, policyCache, policyFresh>>
    BY <1>3 DEF AuditUser, Submit, Commit, RequestRevert
  <2>3. \A a \in Audits : audit'[a].uid = audit[a].uid
    BY <2>1, OwnerKept
  <2> QED BY <2>1, <2>2, <2>3, OwnerFrame
<1>4. CASE Clock \/ Informer \/ PolicyUser
  <2>1. UNCHANGED pr
    BY <1>4, Zenon DEF Clock, Informer, PolicyUser, ClusterFrame, UserFrame, reconcilerVars
  <2>2. CASE Tick \/ (\E a \in Audits : SyncAudit(a))
    BY <2>1, <2>2, OwnerFrame DEF Tick, SyncAudit
  <2>3. CASE SyncPolicy
    BY <2>1, <2>3, OwnerTypes
       DEF SyncPolicy, OwnerInv, CacheBehind, ReconcileOwner, OwnRef
  <2>4. CASE EditPolicy \/ DeletePolicy
    <3>1. /\ policy'.uid = policy.uid /\ policy'.ref = policy.ref
          /\ policy'.live => policy.live
      BY <2>4 DEF EditPolicy, DeletePolicy, TypeOK, ClusterTypeOK, PolicyObj
    <3>2. policyFresh' = {} /\ UNCHANGED <<policyCache, audit>>
      BY <2>4 DEF EditPolicy, DeletePolicy
    <3> QED BY <2>1, <3>1, <3>2 DEF OwnerInv, CacheBehind, ReconcileOwner, OwnRef
  <2>5. CASE RecreatePolicy
    <3>1. policy'.uid = policy.uid + 1 /\ policy'.ref = NoAudit
      BY <2>5 DEF RecreatePolicy
    <3>2. policyFresh' = {} /\ UNCHANGED <<policyCache, audit>>
      BY <2>5 DEF RecreatePolicy
    <3> QED BY <2>1, <3>1, <3>2, OwnerTypes DEF OwnerInv, CacheBehind, ReconcileOwner, OwnRef
  <2> QED BY <1>4, <2>2, <2>3, <2>4, <2>5, Zenon DEF Clock, Informer, PolicyUser
<1>5. CASE Crash
  <2>1. /\ policyCache' = policy /\ pr'.pc = "idle" /\ UNCHANGED <<policy, audit>>
    BY <1>5 DEF Crash, RelistCaches, PrIdle
  <2> QED BY <2>1, OwnerTypes DEF OwnerInv, CacheBehind, ReconcileOwner, OwnRef
<1>6. CASE UNCHANGED vars
  BY <1>6, OwnerFrame DEF vars, clusterVars, reconcilerVars
<1> QED BY <1>1, <1>2, <1>3, <1>4, <1>5, <1>6 DEF Next

LEMMA OwnerInvariant == Spec => [](TypeOK /\ OwnerInv)
BY InitType, NextType, InitOwner, NextOwner, PTL DEF Spec

(* A policy waits only for a gate it opened itself, however often it was   *)
(* deleted and made again under its name and whatever the reconciler still *)
(* had in hand of the old one.                                             *)
THEOREM PolicyWaitsForOwnGate == Spec => []WaitsForOwnGate
<1>1. OwnerInv => WaitsForOwnGate
  BY DEF OwnerInv, OwnRef, WaitsForOwnGate
<1> QED BY <1>1, OwnerInvariant, PTL

-----------------------------------------------------------------------------
(* How a gate may end.  OutcomeInv ties together the record the server has *)
(* (Sound), what the records' reconciler has cached of it (Seen), the      *)
(* working copy it is about to write (Closing; Current while the server    *)
(* would accept it), the record the policy's reconciler is about to mark   *)
(* (MarkInv) and the requests admitted against it (OpenInv).  None of it   *)
(* is inductive without the rest: a release acts on the cache, a write     *)
(* carries a decision made some steps ago, and an admitted verdict may     *)
(* land after the deadline it was admitted before.  A gate whose           *)
(* description no client has rewritten has more to it (Plain, Straight): a *)
(* new deadline takes the excuse from a record that was being closed.      *)

(* Why the held actions may be given up at time t, with p the policy in    *)
(* the reconciler's cache: the deadline, a refusal, or an approval of a    *)
(* policy that is gone (PolicyGone).                                       *)
Excused(rec, t, p) ==
  \/ rec.decision = "" /\ t >= rec.expires
  \/ rec.decision = "Denied"
  \/ rec.decision = "Approved" /\ (~p.live \/ p.uid # rec.uid)

Sound(rec, runs, t, p) ==
  /\ rec.uid = 0 => rec.phase = "" /\ ~rec.gated /\ rec.recs = <<>>
  /\ rec.phase # "" => rec.gated
  /\ "released" \in Trail(rec) => runs > 0
  /\ rec.phase = "Approved" => rec.decision = "Approved" /\ "released" \in Trail(rec)
  /\ rec.phase = "Denied" => rec.decision # "" /\ Excused(rec, t, p)
  /\ rec.phase = "Expired" => rec.decision = ""

Plain(rec, t, p) ==
  /\ rec.gated => rec.held # <<>>
  /\ "skipped" \in Trail(rec) => Excused(rec, t, p)

Seen(cached, rec) ==
  cached.phase = "Pending" => cached.gated /\ cached.uid = rec.uid /\ rec.phase # ""

Closing(phase, copy, rec, runs, t, p) ==
  /\ copy.phase = "Pending" /\ copy.uid = rec.uid /\ rec.uid # 0
  /\ phase = "Approved" => /\ copy.decision = "Approved" /\ runs > 0
                           /\ "released" \in Trail(copy)
  /\ phase # "Approved" => Excused(copy, t, p)
  /\ phase = "Denied" => copy.decision # ""
  /\ phase = "Expired" => copy.decision = ""

SameGate(x, y) ==
  /\ x.gated = y.gated /\ x.index = y.index /\ x.held = y.held
  /\ x.targets = y.targets /\ x.expires = y.expires

Current(pc, phase, copy, rec) ==
  /\ SameGate(copy, rec) /\ copy.phase = rec.phase /\ copy.decision = rec.decision
  /\ Trail(copy) = IF pc = "phase" THEN Trail(rec)
                   ELSE Trail(rec) \cup {IF phase = "Approved" THEN "released" ELSE "skipped"}

Straight(phase, copy) == "skipped" \in Trail(copy) <=> phase # "Approved"

GateRecordInv(a) ==
  /\ Sound(audit[a], heldRuns[a], now, policyCache)
  /\ a \notin rewritten => Plain(audit[a], now, policyCache)
  /\ "cache" \in auditFresh[a] => auditCache[a] = audit[a]
  /\ Seen(auditCache[a], audit[a])
  /\ a \notin rewritten /\ auditCache[a].phase = "Pending" => auditCache[a].held # <<>>

WorkInv ==
  /\ ar.pc \in {"held", "phase"} =>
       Closing(ar.phase, ar.copy, audit[ar.a], heldRuns[ar.a], now, policyCache)
  /\ ar.pc \in {"held", "phase"} /\ "auditReconciler" \in auditFresh[ar.a] =>
       /\ Current(ar.pc, ar.phase, ar.copy, audit[ar.a])
       /\ ar.a \notin rewritten => Straight(ar.phase, ar.copy)
  /\ ar.pc = "reverted" /\ "auditReconciler" \in auditFresh[ar.a] =>
       ar.copy.phase = audit[ar.a].phase

MarkInv ==
  pr.pc = "mark" /\ "policyReconciler" \in auditFresh[pr.a] =>
    audit[pr.a].gated /\ audit[pr.a].phase = ""

Opens(edit, rec) ==
  /\ edit.has /\ rec.gated
  /\ edit.decision # rec.decision => rec.phase = "Pending"

OpenInv(u) ==
  req[u].pc = "admitted" /\ u \in auditFresh[req[u].a] =>
    /\ Opens(req[u].edit, audit[req[u].a])
    /\ req[u].a \notin rewritten /\ req[u].edit.decision # audit[req[u].a].decision =>
         Trail(audit[req[u].a]) = {}

OutcomeInv ==
  /\ \A a \in Audits : GateRecordInv(a)
  /\ WorkInv /\ MarkInv
  /\ \A u \in Users : OpenInv(u)

(* What the trail of a record depends on, and how it grows. *)
LEMMA TrailOf ==
  ASSUME NEW x, NEW y, x.recs = y.recs
  PROVE  Trail(x) = Trail(y)
BY DEF Trail

LEMMA TrailEmpty ==
  ASSUME NEW x, x.recs = <<>>
  PROVE  Trail(x) = {}
BY DEF Trail

LEMMA TrailAppend ==
  ASSUME NEW x \in AuditObj, NEW b, b.kind \in {"released", "skipped"}
  PROVE  Trail([x EXCEPT !.recs = Append(@, b)]) = Trail(x) \cup {b.kind}
<1> DEFINE s == x.recs
           t == Append(s, b)
<1>1. [x EXCEPT !.recs = Append(@, b)].recs = t
  BY DEF AuditObj
<1>2. s \in Seq(Batch)
  BY DEF AuditObj
<1>3. s \in Seq(Batch \cup {b})
  BY <1>2
<1>4. /\ Len(s) \in Nat /\ Len(t) = Len(s) + 1 /\ t[Len(s) + 1] = b
      /\ \A i \in 1..Len(s) : t[i] = s[i]
  BY <1>3
<1> HIDE DEF s, t
<1>5. {t[i].kind : i \in 1..Len(t)} = {s[i].kind : i \in 1..Len(s)} \cup {b.kind}
  BY <1>4
<1>6. Trail(x) = {s[i].kind : i \in 1..Len(s)} \cap {"released", "skipped"}
  BY DEF Trail, s
<1>7. Trail([x EXCEPT !.recs = Append(@, b)])
        = {t[i].kind : i \in 1..Len(t)} \cap {"released", "skipped"}
  BY <1>1 DEF Trail
<1> QED BY <1>5, <1>6, <1>7

(* Excuses do not lapse: the clock only moves forward, and the cache never *)
(* learns of a policy that was gone.                                       *)
Elapsed ==
  \A rec \in AuditObj :
    rec.uid <= policyCache.uid /\ Excused(rec, now, policyCache) =>
      Excused(rec, now', policyCache')

LEMMA ClockMoves ==
  ASSUME [Next]_vars
  PROVE  Clock \/ UNCHANGED now
<1>1. CASE Informer \/ PolicyUser \/ Crash \/ UNCHANGED vars
  BY <1>1 DEF Informer, SyncPolicy, SyncAudit, PolicyUser, EditPolicy,
     DeletePolicy, RecreatePolicy, Crash, vars, clusterVars
<1>2. CASE PolicyStep
  BY <1>2 DEF PolicyStep, ForgetPolicy, AwaitApproval, CoolDown, RateLimited, EvaluationFails,
     Evaluate, ResolveFails, RunPipeline, WriteAudit, WriteGatedAudit, MarkPending, Requeue,
     clusterVars
<1>3. CASE AuditStep
  BY <1>3 DEF AuditStep, Sweep, DenyGate, ExpireGate, CloseGate, ReleaseGate, RecordHeld,
     SetPhase, StartCooldown, RefetchPolicy, Revert, SetReverted
<1>4. CASE AuditUser
  BY <1>4 DEF AuditUser, Submit, Commit, RequestRevert
<1> QED BY <1>1, <1>2, <1>3, <1>4 DEF Next

LEMMA NextElapsed ==
  ASSUME TypeOK, OwnerInv, [Next]_vars
  PROVE  Elapsed /\ now' >= now
<1>1. now \in Nat /\ (now' = now \/ now' = now + 1)
  <2>1. now \in Nat
    BY ClusterAssumption DEF TypeOK, ClusterTypeOK, Time
  <2> QED BY <2>1, ClockMoves DEF Clock, Tick
<1>2. policyCache' = policyCache \/ policyCache' = policy
  <2>2. CASE Clock \/ Informer \/ PolicyUser \/ Crash \/ UNCHANGED vars
    BY <2>2 DEF Clock, Tick, Informer, SyncPolicy, SyncAudit, PolicyUser, EditPolicy,
       DeletePolicy, RecreatePolicy, Crash, RelistCaches, vars, clusterVars
  <2>3. CASE PolicyStep
    BY <2>3 DEF PolicyStep, ForgetPolicy, AwaitApproval, CoolDown, RateLimited, EvaluationFails,
       Evaluate, ResolveFails, RunPipeline, WriteAudit, WriteGatedAudit, MarkPending, Requeue,
       clusterVars
  <2>4. CASE AuditStep
    BY <2>4 DEF AuditStep, Sweep, DenyGate, ExpireGate, CloseGate, ReleaseGate, RecordHeld,
       SetPhase, StartCooldown, RefetchPolicy, Revert, SetReverted
  <2>5. CASE AuditUser
    BY <2>5 DEF AuditUser, Submit, Commit, RequestRevert
  <2> QED BY <2>2, <2>3, <2>4, <2>5 DEF Next
<1>3. ASSUME NEW rec \in AuditObj, rec.uid <= policyCache.uid,
             ~policyCache.live \/ policyCache.uid # rec.uid
      PROVE  ~policyCache'.live \/ policyCache'.uid # rec.uid
  <2>1. rec.uid \in Nat
    BY ClusterAssumption DEF AuditObj
  <2>2. CASE policyCache' = policyCache
    BY <1>3, <2>2
  <2>3. CASE policyCache' = policy
    <3>1. policyCache.uid <= policy.uid /\ policyCache.uid \in Nat /\ policy.uid \in Nat
      BY OwnerTypes DEF OwnerInv, CacheBehind
    <3>2. CASE policy.uid = rec.uid
      <4>1. policyCache.uid = policy.uid
        BY <1>3, <2>1, <3>1, <3>2
      <4> QED BY <1>3, <2>3, <3>2, <4>1 DEF OwnerInv, CacheBehind
    <3> QED BY <2>3, <3>2
  <2> QED BY <1>2, <2>2, <2>3
<1>4. ASSUME NEW rec \in AuditObj, now >= rec.expires
      PROVE  now' >= rec.expires
  <2>1. rec.expires \in Nat
    BY DEF AuditObj
  <2> QED BY <1>1, <1>4, <2>1
<1>5. Elapsed
  BY <1>3, <1>4 DEF Elapsed, Excused
<1> QED BY <1>1, <1>5

(* What lasts of a record and of a working copy while nobody writes them.  *)
LEMMA SoundLasts ==
  ASSUME Elapsed, NEW rec \in AuditObj, rec.uid <= policyCache.uid,
         NEW runs, NEW more, runs > 0 => more > 0,
         Sound(rec, runs, now, policyCache)
  PROVE  Sound(rec, more, now', policyCache')
BY DEF Elapsed, Sound

LEMMA PlainLasts ==
  ASSUME Elapsed, NEW rec \in AuditObj, rec.uid <= policyCache.uid,
         Plain(rec, now, policyCache)
  PROVE  Plain(rec, now', policyCache')
BY DEF Elapsed, Plain

LEMMA ClosingLasts ==
  ASSUME Elapsed, NEW phase, NEW copy \in AuditObj, NEW rec, NEW new, new.uid = rec.uid,
         rec.uid <= policyCache.uid, NEW runs, NEW more, runs > 0 => more > 0,
         Closing(phase, copy, rec, runs, now, policyCache)
  PROVE  Closing(phase, copy, new, more, now', policyCache')
BY DEF Elapsed, Closing

(* Whether a record is sound is a matter of these fields. *)
LEMMA SoundFields ==
  ASSUME NEW x, NEW y, NEW runs, NEW t, NEW p, y.uid = x.uid, SameGate(y, x),
         y.phase = x.phase, y.recs = x.recs, y.decision = x.decision
  PROVE  /\ Sound(x, runs, t, p) => Sound(y, runs, t, p)
         /\ Plain(x, t, p) => Plain(y, t, p)
<1>1. Trail(y) = Trail(x)
  BY TrailOf
<1> QED BY <1>1 DEF Sound, Plain, Excused, SameGate

LEMMA InitOutcome == Init => OutcomeInv
<1> SUFFICES ASSUME Init PROVE OutcomeInv
  OBVIOUS
<1>1. ASSUME NEW a \in Audits PROVE GateRecordInv(a)
  <2>1. audit[a] = NoRecord /\ auditCache[a] = NoRecord
    BY DEF Init, ClusterInit
  <2>2. /\ NoRecord.uid = 0 /\ NoRecord.phase = "" /\ ~NoRecord.gated
        /\ NoRecord.recs = <<>>
    BY DEF NoRecord
  <2>3. Trail(NoRecord) = {}
    BY <2>2, TrailEmpty
  <2> HIDE DEF NoRecord
  <2> QED BY <2>1, <2>2, <2>3 DEF GateRecordInv, Sound, Plain, Seen
<1>2. WorkInv /\ MarkInv
  BY DEF Init, AuditRecInit, ArIdle, WorkInv, ReconcilerInit, PrIdle, MarkInv
<1>3. ASSUME NEW u \in Users PROVE OpenInv(u)
  BY DEF Init, ApprovalInit, NoRequest, OpenInv
<1> QED BY <1>1, <1>2, <1>3 DEF OutcomeInv

(* What the types say of the things OutcomeInv is about. *)
LEMMA OutcomeTypes ==
  ASSUME TypeOK
  PROVE  /\ audit \in [Audits -> AuditObj] /\ auditCache \in [Audits -> AuditObj]
         /\ auditFresh \in [Audits -> SUBSET AuditCopies]
         /\ heldRuns \in [Audits -> 0..2]
         /\ ar.pc \in {"held", "phase", "reverted"} => ar.a \in Audits /\ ar.copy \in AuditObj
         /\ ar.pc \in {"held", "phase"} => ar.phase \in {"Approved", "Denied", "Expired"}
         /\ pr.pc = "mark" => pr.a \in Audits /\ pr.copy \in AuditObj
         /\ DOMAIN req = Users
         /\ \A u \in Users : req[u].pc = "admitted" => req[u].a \in Audits
         /\ \A u \in Users : u \notin {"cache", "policyReconciler", "auditReconciler"}
BY PrParts, ArParts, ClusterAssumption
   DEF TypeOK, ClusterTypeOK, ReconcilerTypeOK, AuditRecTypeOK, ApprovalTypeOK, PolicyCopies

(* A step that writes no record.  The reconcile of a record it begins, if  *)
(* any, is for the caller to show sound.                                   *)
LEMMA OutcomeKept ==
  ASSUME TypeOK, OwnerInv, OutcomeInv, Elapsed, UNCHANGED <<audit, auditCache, req, rewritten>>,
         \A b \in Audits : heldRuns[b] > 0 => heldRuns'[b] > 0,
         \A b \in Audits : \A c \in auditFresh'[b] : c = "auditReconciler" \/ c \in auditFresh[b],
         UNCHANGED pr \/ pr'.pc # "mark",
         WorkInv'
  PROVE  OutcomeInv'
<1>1. ASSUME NEW b \in Audits PROVE GateRecordInv(b)'
  <2>1. GateRecordInv(b) /\ audit[b] \in AuditObj /\ audit[b].uid <= policyCache.uid
    BY OutcomeTypes DEF OutcomeInv, OwnerInv
  <2>2. Sound(audit[b], heldRuns'[b], now', policyCache')
    BY <2>1, SoundLasts DEF GateRecordInv
  <2>3. b \notin rewritten => Plain(audit[b], now', policyCache')
    BY <2>1, PlainLasts DEF GateRecordInv
  <2> QED BY <2>1, <2>2, <2>3 DEF GateRecordInv
<1>2. MarkInv'
  BY OutcomeTypes DEF OutcomeInv, MarkInv
<1>3. ASSUME NEW u \in Users PROVE OpenInv(u)'
  BY OutcomeTypes DEF OutcomeInv, OpenInv
<1> QED BY <1>1, <1>2, <1>3 DEF OutcomeInv

(* ... or begins none. *)
LEMMA OutcomeFrame ==
  ASSUME TypeOK, OwnerInv, OutcomeInv, Elapsed,
         UNCHANGED <<audit, auditCache, auditFresh, heldRuns, req, rewritten>>,
         UNCHANGED pr \/ pr'.pc # "mark",
         UNCHANGED ar \/ ar'.pc \notin {"held", "phase", "reverted"}
  PROVE  OutcomeInv'
<1>1. CASE UNCHANGED ar
  <2>1. ar.pc \in {"held", "phase"} =>
          Closing(ar.phase, ar.copy, audit[ar.a], heldRuns[ar.a], now', policyCache')
    BY OutcomeTypes, ClosingLasts DEF OutcomeInv, WorkInv, OwnerInv
  <2>2. WorkInv'
    BY <1>1, <2>1 DEF OutcomeInv, WorkInv
  <2> QED BY <2>2, OutcomeKept
<1>2. CASE ar'.pc \notin {"held", "phase", "reverted"}
  <2>1. WorkInv'
    BY <1>2 DEF WorkInv
  <2> QED BY <2>1, OutcomeKept
<1> QED BY <1>1, <1>2

(* A write of record a, by whoever holds a current copy of it. *)
LEMMA OutcomeWritten ==
  ASSUME TypeOK, OwnerInv, OutcomeInv, Elapsed,
         NEW a \in Audits, NEW new \in AuditObj, NEW F,
         F \subseteq {"policyReconciler", "auditReconciler"},
         audit' = [audit EXCEPT ![a] = new],
         auditFresh' = [auditFresh EXCEPT ![a] = F],
         UNCHANGED <<auditCache, heldRuns>>, rewritten \subseteq rewritten',
         \A u \in Users : req'[u].pc = "admitted" => req'[u] = req[u],
         Sound(new, heldRuns[a], now', policyCache'),
         a \notin rewritten' => Plain(new, now', policyCache'),
         audit[a].phase # "" => new.phase # "",
         audit[a].uid = 0 \/ new.uid = audit[a].uid,
         WorkInv', MarkInv'
  PROVE  OutcomeInv'
<1>1. ASSUME NEW b \in Audits PROVE GateRecordInv(b)'
  <2>1. GateRecordInv(b) /\ audit[b] \in AuditObj /\ audit[b].uid <= policyCache.uid
    BY OutcomeTypes DEF OutcomeInv, OwnerInv
  <2>2. CASE b # a
    <3>1. audit'[b] = audit[b] /\ auditFresh'[b] = auditFresh[b]
      BY <2>2, OutcomeTypes
    <3>2. Sound(audit[b], heldRuns[b], now', policyCache')
      BY <2>1, SoundLasts DEF GateRecordInv
    <3>3. b \notin rewritten' => Plain(audit[b], now', policyCache')
      BY <2>1, PlainLasts DEF GateRecordInv
    <3> QED BY <2>1, <3>1, <3>2, <3>3 DEF GateRecordInv
  <2>3. CASE b = a
    <3>1. audit'[b] = new /\ auditFresh'[b] = F
      BY <2>3, OutcomeTypes
    <3>2. audit[b].uid = 0 => audit[b].phase = ""
      BY <2>1 DEF GateRecordInv, Sound
    <3>3. Seen(auditCache[b], new)
      BY <2>1, <2>3, <3>2 DEF GateRecordInv, Seen
    <3>4. /\ Sound(new, heldRuns[b], now', policyCache')
          /\ b \notin rewritten' => Plain(new, now', policyCache')
      BY <2>3
    <3>5. "cache" \notin F /\ auditCache'[b] = auditCache[b] /\ heldRuns'[b] = heldRuns[b]
      OBVIOUS
    <3>6. b \notin rewritten' /\ auditCache[b].phase = "Pending" => auditCache[b].held # <<>>
      BY <2>1 DEF GateRecordInv
    <3> QED BY <3>1, <3>3, <3>4, <3>5, <3>6, Zenon DEF GateRecordInv
  <2> QED BY <2>2, <2>3
<1>2. ASSUME NEW u \in Users PROVE OpenInv(u)'
  <2>1. CASE req'[u].pc # "admitted"
    BY <2>1 DEF OpenInv
  <2>2. CASE req'[u].pc = "admitted"
    <3>1. req'[u] = req[u] /\ req[u].a \in Audits /\ u \notin F
      BY <2>2, OutcomeTypes
    <3>2. CASE req[u].a = a
      BY <3>1, <3>2, OutcomeTypes DEF OpenInv
    <3>3. CASE req[u].a # a
      <4>1. audit'[req[u].a] = audit[req[u].a] /\ auditFresh'[req[u].a] = auditFresh[req[u].a]
        BY <3>1, <3>3, OutcomeTypes
      <4>2. OpenInv(u) /\ (req[u].a \notin rewritten' => req[u].a \notin rewritten)
        BY DEF OutcomeInv
      <4> QED BY <3>1, <4>1, <4>2 DEF OpenInv
    <3> QED BY <3>2, <3>3
  <2> QED BY <2>1, <2>2
<1> QED BY <1>1, <1>2 DEF OutcomeInv

(* The other reconcile in progress, when a record is written under it. *)
LEMMA WorkWritten ==
  ASSUME TypeOK, OwnerInv, OutcomeInv, Elapsed,
         NEW a \in Audits, NEW new \in AuditObj, NEW F, "auditReconciler" \notin F,
         audit' = [audit EXCEPT ![a] = new],
         auditFresh' = [auditFresh EXCEPT ![a] = F],
         UNCHANGED <<heldRuns, ar>>, rewritten \subseteq rewritten',
         audit[a].uid = 0 \/ new.uid = audit[a].uid
  PROVE  WorkInv'
<1>1. CASE ar.pc \notin {"held", "phase", "reverted"}
  BY <1>1 DEF WorkInv
<1>2. CASE ar.pc \in {"held", "phase", "reverted"} /\ ar.a = a
  <2>1. audit'[a] = new /\ auditFresh'[a] = F
    BY OutcomeTypes
  <2>2. ar.pc \in {"held", "phase"} =>
          Closing(ar.phase, ar.copy, new, heldRuns[a], now', policyCache')
    <3>1. SUFFICES ASSUME ar.pc \in {"held", "phase"}
                   PROVE  Closing(ar.phase, ar.copy, new, heldRuns[a], now', policyCache')
      OBVIOUS
    <3>2. Closing(ar.phase, ar.copy, audit[a], heldRuns[a], now, policyCache)
      BY <1>2, <3>1 DEF OutcomeInv, WorkInv
    <3>3. new.uid = audit[a].uid
      BY <3>2 DEF Closing
    <3> QED BY <1>2, <3>2, <3>3, OutcomeTypes, ClosingLasts DEF OwnerInv
  <2> QED BY <1>2, <2>1, <2>2 DEF WorkInv
<1>3. CASE ar.pc \in {"held", "phase", "reverted"} /\ ar.a # a
  <2>1. audit'[ar.a] = audit[ar.a] /\ auditFresh'[ar.a] = auditFresh[ar.a]
    BY <1>3, OutcomeTypes
  <2>2. ar.pc \in {"held", "phase"} =>
          Closing(ar.phase, ar.copy, audit[ar.a], heldRuns[ar.a], now', policyCache')
    BY <1>3, OutcomeTypes, ClosingLasts DEF OutcomeInv, WorkInv, OwnerInv
  <2> QED BY <2>1, <2>2 DEF OutcomeInv, WorkInv
<1> QED BY <1>1, <1>2, <1>3

LEMMA MarkWritten ==
  ASSUME TypeOK, OutcomeInv, NEW a \in Audits, NEW new, NEW F, "policyReconciler" \notin F,
         audit' = [audit EXCEPT ![a] = new],
         auditFresh' = [auditFresh EXCEPT ![a] = F],
         UNCHANGED pr
  PROVE  MarkInv'
BY OutcomeTypes DEF OutcomeInv, MarkInv

-----------------------------------------------------------------------------
(* What each write does to a record, when it is applied at all. *)

(* Create: a gate that is not open yet, holding at least one action. *)
LEMMA NewRecordSound ==
  ASSUME TypeOK, pr.pc = "create", NEW runs, NEW t, NEW p
  PROVE  /\ NewRecord \in AuditObj /\ NewRecord.uid = pr.pol.uid /\ NewRecord.uid # 0
         /\ NewRecord.phase = "" /\ NewRecord.decision = "" /\ Trail(NewRecord) = {}
         /\ NewRecord.gated <=> GateIndex(pr.pol.actions) >= 0
         /\ Sound(NewRecord, runs, t, p) /\ Plain(NewRecord, t, p)
<1> DEFINE acts == pr.pol.actions
           g    == GateIndex(acts)
<1>1. NewRecord \in AuditObj
  BY NewRecordType DEF TypeOK
<1>2. /\ NewRecord.uid = pr.pol.uid /\ NewRecord.phase = "" /\ NewRecord.decision = ""
      /\ NewRecord.gated = (g >= 0)
      /\ NewRecord.recs = <<[kind |-> "before", results |-> pr.results]>>
      /\ NewRecord.held = IF g >= 0 THEN HeldPlugins(acts, g) ELSE <<>>
  BY DEF NewRecord, NoRecord
<1>3. acts \in Seq(Action) /\ pr.pol.uid # 0
  BY OwnerTypes, ClusterAssumption DEF PolicyObj
<1>4. ASSUME g >= 0 PROVE HeldPlugins(acts, g) # <<>>
  <2>1. g \in 0..(Len(acts) - 1)
    BY <1>3, <1>4, GateIndexIsFirst
  <2> HIDE DEF g, acts
  <2>2. 1 \in 1..(Len(acts) - g)
    BY <1>3, <2>1
  <2>3. 1 \in DOMAIN HeldPlugins(acts, g)
    BY <2>2 DEF HeldPlugins
  <2> QED BY <2>3
<1>5. Trail(NewRecord) = {}
  <2> DEFINE b == [kind |-> "before", results |-> pr.results]
  <2>1. b.kind = "before" /\ NewRecord.recs = <<b>>
    BY <1>2
  <2> HIDE DEF b
  <2>2. Len(<<b>>) = 1 /\ <<b>>[1] = b
    OBVIOUS
  <2>3. \A i \in 1..Len(NewRecord.recs) : NewRecord.recs[i].kind = "before"
    BY <2>1, <2>2
  <2> QED BY <2>3 DEF Trail
<1> HIDE DEF NewRecord, g, acts
<1>6. NewRecord.gated => NewRecord.held # <<>>
  BY <1>2, <1>4
<1> QED BY <1>1, <1>2, <1>3, <1>5, <1>6 DEF Sound, Plain, g, acts

(* A record in use has an owner. *)
LEMMA LiveOwned ==
  ASSUME GateInv, NEW a \in Audits, audit[a].live
  PROVE  audit[a].uid # 0
BY DEF GateInv, RecordInv

(* MarkPending: the gate opens. *)
LEMMA MarkPendingEffect ==
  ASSUME TypeOK, GateInv, OutcomeInv, NEW r \in Outcomes, MarkPending(r)
  PROVE  \/ UNCHANGED <<audit, auditFresh>>
         \/ /\ pr.a \in Audits /\ audit[pr.a].uid # 0
            /\ audit[pr.a].phase = "" /\ audit[pr.a].gated
            /\ \E new \in AuditObj, F \in {{"policyReconciler"}, {}} :
                 /\ audit' = [audit EXCEPT ![pr.a] = new]
                 /\ auditFresh' = [auditFresh EXCEPT ![pr.a] = F]
                 /\ new.uid = audit[pr.a].uid /\ SameGate(new, audit[pr.a])
                 /\ new.decision = audit[pr.a].decision /\ new.recs = audit[pr.a].recs
                 /\ new.phase = "Pending"
<1>1. pr.pc = "mark" /\ pr.a \in Audits /\ pr.copy \in AuditObj /\ audit[pr.a] \in AuditObj
  BY OutcomeTypes DEF MarkPending
<1>2. PICK x \in AuditObj : x = [pr.copy EXCEPT !.phase = "Pending"] /\ x.phase = "Pending"
  <2>1. [pr.copy EXCEPT !.phase = "Pending"] \in AuditObj
    BY <1>1, AuditEdits DEF Phases
  <2>2. [pr.copy EXCEPT !.phase = "Pending"].phase = "Pending"
    BY <1>1 DEF AuditObj
  <2> QED BY <2>1, <2>2
<1>3. PICK new \in AuditObj : new = WithStatus(audit[pr.a], x)
  BY <1>1, AuditWrites
<1>4. StoreAudit(pr.a, "policyReconciler", new, HoldsCurrent(pr.a, "policyReconciler"), r)
  BY <1>2, <1>3 DEF MarkPending, UpdateAuditStatus
<1>5. /\ new.uid = audit[pr.a].uid /\ SameGate(new, audit[pr.a])
      /\ new.decision = audit[pr.a].decision
  BY <1>1, <1>3 DEF WithStatus, AuditObj, SameGate
<1>6. new.recs = audit[pr.a].recs /\ new.phase = "Pending"
  BY <1>1, <1>2, <1>3 DEF WithStatus, AuditObj
<1>7. SUFFICES ASSUME ~UNCHANGED <<audit, auditFresh>>
      PROVE  /\ audit[pr.a].uid # 0 /\ audit[pr.a].phase = "" /\ audit[pr.a].gated
             /\ \E F \in {{"policyReconciler"}, {}} :
                  /\ audit' = [audit EXCEPT ![pr.a] = new]
                  /\ auditFresh' = [auditFresh EXCEPT ![pr.a] = F]
  BY <1>1, <1>3, <1>5, <1>6, Zenon
<1>8. /\ HoldsCurrent(pr.a, "policyReconciler")
      /\ \E F \in {{"policyReconciler"}, {}} :
           /\ audit' = [audit EXCEPT ![pr.a] = new]
           /\ auditFresh' = [auditFresh EXCEPT ![pr.a] = F]
  BY <1>4, <1>7, StoreAuditEffect
<1> QED BY <1>1, <1>8, LiveOwned DEF HoldsCurrent, OutcomeInv, MarkInv

(* RecordHeld: the trail grows by what the reconcile is doing, for the     *)
(* reason it began with.                                                   *)
LEMMA RecordHeldEffect ==
  ASSUME TypeOK, GateInv, OutcomeInv, NEW r \in Outcomes, RecordHeld(r)
  PROVE  \/ UNCHANGED <<audit, auditFresh>> /\ r # "ok"
         \/ /\ ar.a \in Audits
            /\ Closing(ar.phase, ar.copy, audit[ar.a], heldRuns[ar.a], now, policyCache)
            /\ Current("held", ar.phase, ar.copy, audit[ar.a])
            /\ ar.a \notin rewritten => Straight(ar.phase, ar.copy)
            /\ \E new \in AuditObj, F \in {{"auditReconciler"}, {}} :
                 /\ audit' = [audit EXCEPT ![ar.a] = new]
                 /\ auditFresh' = [auditFresh EXCEPT ![ar.a] = F]
                 /\ new.uid = audit[ar.a].uid /\ SameGate(new, audit[ar.a])
                 /\ new.decision = audit[ar.a].decision /\ new.phase = audit[ar.a].phase
                 /\ new.recs = ar.copy.recs
<1>1. ar.pc = "held" /\ ar.a \in Audits /\ ar.copy \in AuditObj /\ audit[ar.a] \in AuditObj
  BY OutcomeTypes DEF RecordHeld
<1>2. PICK new \in AuditObj : new = WithSpec(audit[ar.a], ar.copy)
  BY <1>1, AuditWrites
<1>3. StoreAudit(ar.a, "auditReconciler", new, HoldsCurrent(ar.a, "auditReconciler"), r)
  BY <1>2 DEF RecordHeld, UpdateAuditSpec
<1>4. CASE UNCHANGED <<audit, auditFresh>> /\ r # "ok"
  BY <1>4
<1>5. CASE /\ HoldsCurrent(ar.a, "auditReconciler")
           /\ audit' = [audit EXCEPT ![ar.a] = new]
           /\ \E F \in {{"auditReconciler"}, {}} : auditFresh' = [auditFresh EXCEPT ![ar.a] = F]
  <2>1. /\ Closing(ar.phase, ar.copy, audit[ar.a], heldRuns[ar.a], now, policyCache)
        /\ Current("held", ar.phase, ar.copy, audit[ar.a])
        /\ ar.a \notin rewritten => Straight(ar.phase, ar.copy)
    BY <1>1, <1>5 DEF HoldsCurrent, OutcomeInv, WorkInv
  <2>2. /\ new.uid = audit[ar.a].uid /\ SameGate(new, audit[ar.a])
        /\ new.decision = audit[ar.a].decision /\ new.phase = audit[ar.a].phase
        /\ new.recs = ar.copy.recs
    BY <1>1, <1>2, <2>1 DEF WithSpec, AuditObj, Current, SameGate
  <2> QED BY <1>1, <1>5, <2>1, <2>2
<1> QED BY <1>3, <1>4, <1>5, StoreAuditEffect

(* SetPhase: the gate closes the way the reconcile began to close it. *)
LEMMA SetPhaseEffect ==
  ASSUME TypeOK, GateInv, OutcomeInv, NEW r \in Outcomes, SetPhase(r)
  PROVE  \/ UNCHANGED <<audit, auditFresh>> /\ ~Applied(r)
         \/ /\ ar.a \in Audits
            /\ Closing(ar.phase, ar.copy, audit[ar.a], heldRuns[ar.a], now, policyCache)
            /\ Current("phase", ar.phase, ar.copy, audit[ar.a])
            /\ ar.a \notin rewritten => Straight(ar.phase, ar.copy)
            /\ \E new \in AuditObj, F \in {{"auditReconciler"}, {}} :
                 /\ audit' = [audit EXCEPT ![ar.a] = new]
                 /\ auditFresh' = [auditFresh EXCEPT ![ar.a] = F]
                 /\ new.uid = audit[ar.a].uid /\ SameGate(new, audit[ar.a])
                 /\ new.decision = audit[ar.a].decision /\ new.recs = audit[ar.a].recs
                 /\ new.phase = ar.phase
<1>1. /\ ar.pc = "phase" /\ ar.a \in Audits /\ ar.copy \in AuditObj /\ audit[ar.a] \in AuditObj
      /\ ar.phase \in {"Approved", "Denied", "Expired"}
  BY OutcomeTypes DEF SetPhase
<1>2. PICK x \in AuditObj : x = [ar.copy EXCEPT !.phase = ar.phase] /\ x.phase = ar.phase
  <2>1. [ar.copy EXCEPT !.phase = ar.phase] \in AuditObj
    BY <1>1, AuditEdits DEF Phases
  <2>2. [ar.copy EXCEPT !.phase = ar.phase].phase = ar.phase
    BY <1>1 DEF AuditObj
  <2> QED BY <2>1, <2>2
<1>3. PICK new \in AuditObj : new = WithStatus(audit[ar.a], x)
  BY <1>1, AuditWrites
<1>4. StoreAudit(ar.a, "auditReconciler", new, HoldsCurrent(ar.a, "auditReconciler"), r)
  BY <1>2, <1>3 DEF SetPhase, UpdateAuditStatus
<1>5. CASE UNCHANGED <<audit, auditFresh>> /\ ~Applied(r)
  BY <1>5
<1>6. CASE /\ HoldsCurrent(ar.a, "auditReconciler")
           /\ audit' = [audit EXCEPT ![ar.a] = new]
           /\ \E F \in {{"auditReconciler"}, {}} : auditFresh' = [auditFresh EXCEPT ![ar.a] = F]
  <2>1. /\ Closing(ar.phase, ar.copy, audit[ar.a], heldRuns[ar.a], now, policyCache)
        /\ Current("phase", ar.phase, ar.copy, audit[ar.a])
        /\ ar.a \notin rewritten => Straight(ar.phase, ar.copy)
    BY <1>1, <1>6 DEF HoldsCurrent, OutcomeInv, WorkInv
  <2>2. /\ new.uid = audit[ar.a].uid /\ SameGate(new, audit[ar.a])
        /\ new.decision = audit[ar.a].decision /\ new.recs = audit[ar.a].recs
        /\ new.phase = ar.phase
    BY <1>1, <1>2, <1>3 DEF WithStatus, AuditObj, SameGate
  <2> QED BY <1>1, <1>6, <2>1, <2>2
<1> QED BY <1>4, <1>5, <1>6 DEF StoreAudit, CallEnds, Applied

(* The writes that change nothing an approver can see. *)
LEMMA QuietWriteEffect ==
  ASSUME TypeOK, GateInv, OutcomeInv,
         \/ \E a \in Audits : Sweep(a) \/ RequestRevert(a)
         \/ \E r \in Outcomes : SetReverted(r)
  PROVE  \/ UNCHANGED <<audit, auditFresh>>
         \/ \E a \in Audits, new \in AuditObj, F \in {{"auditReconciler"}, {}} :
              /\ audit' = [audit EXCEPT ![a] = new]
              /\ auditFresh' = [auditFresh EXCEPT ![a] = F]
              /\ F = {} \/ ar'.pc = "idle"
              /\ new.uid = audit[a].uid /\ SameGate(new, audit[a])
              /\ new.decision = audit[a].decision /\ new.phase = audit[a].phase
              /\ new.recs = audit[a].recs
<1>0. audit \in [Audits -> AuditObj]
  BY OutcomeTypes
<1>1. ASSUME NEW a \in Audits, Sweep(a)
      PROVE  \E new \in AuditObj :
              /\ audit' = [audit EXCEPT ![a] = new]
              /\ auditFresh' = [auditFresh EXCEPT ![a] = {}]
              /\ new.uid = audit[a].uid /\ SameGate(new, audit[a])
              /\ new.decision = audit[a].decision /\ new.phase = audit[a].phase
              /\ new.recs = audit[a].recs
  <2>1. [audit[a] EXCEPT !.live = FALSE] \in AuditObj
    BY <1>0, AuditEdits
  <2>2. PICK new \in AuditObj : new = [audit[a] EXCEPT !.live = FALSE]
    BY <2>1
  <2>3. audit' = [audit EXCEPT ![a] = new] /\ auditFresh' = [auditFresh EXCEPT ![a] = {}]
    BY <1>1, <2>2 DEF Sweep
  <2> QED BY <1>0, <2>2, <2>3 DEF AuditObj, SameGate
<1>2. ASSUME NEW a \in Audits, RequestRevert(a)
      PROVE  \E new \in AuditObj :
              /\ audit' = [audit EXCEPT ![a] = new]
              /\ auditFresh' = [auditFresh EXCEPT ![a] = {}]
              /\ new.uid = audit[a].uid /\ SameGate(new, audit[a])
              /\ new.decision = audit[a].decision /\ new.phase = audit[a].phase
              /\ new.recs = audit[a].recs
  <2>1. [audit[a] EXCEPT !.revert = TRUE] \in AuditObj
    BY <1>0, AuditEdits
  <2>2. PICK new \in AuditObj : new = [audit[a] EXCEPT !.revert = TRUE]
    BY <2>1
  <2>3. audit' = [audit EXCEPT ![a] = new] /\ auditFresh' = [auditFresh EXCEPT ![a] = {}]
    BY <1>2, <2>2 DEF RequestRevert
  <2> QED BY <1>0, <2>2, <2>3 DEF AuditObj, SameGate
<1>3. ASSUME NEW r \in Outcomes, SetReverted(r), ~UNCHANGED <<audit, auditFresh>>
      PROVE  \E a \in Audits, new \in AuditObj, F \in {{"auditReconciler"}, {}} :
              /\ audit' = [audit EXCEPT ![a] = new]
              /\ auditFresh' = [auditFresh EXCEPT ![a] = F]
              /\ ar'.pc = "idle"
              /\ new.uid = audit[a].uid /\ SameGate(new, audit[a])
              /\ new.decision = audit[a].decision /\ new.phase = audit[a].phase
              /\ new.recs = audit[a].recs
  <2>1. ar.pc = "reverted" /\ ar.a \in Audits /\ ar.copy \in AuditObj /\ audit[ar.a] \in AuditObj
    BY <1>3, OutcomeTypes DEF SetReverted
  <2>2. PICK x \in AuditObj : x = [ar.copy EXCEPT !.reverted = TRUE] /\ x.phase = ar.copy.phase
    <3>1. [ar.copy EXCEPT !.reverted = TRUE] \in AuditObj
      BY <2>1, AuditEdits
    <3>2. [ar.copy EXCEPT !.reverted = TRUE].phase = ar.copy.phase
      BY <2>1 DEF AuditObj
    <3> QED BY <3>1, <3>2
  <2>3. PICK new \in AuditObj : new = WithStatus(audit[ar.a], x)
    BY <2>1, AuditWrites
  <2>4. StoreAudit(ar.a, "auditReconciler", new, HoldsCurrent(ar.a, "auditReconciler"), r)
    BY <1>3, <2>2, <2>3 DEF SetReverted, UpdateAuditStatus
  <2>5. /\ HoldsCurrent(ar.a, "auditReconciler")
        /\ audit' = [audit EXCEPT ![ar.a] = new]
        /\ \E F \in {{"auditReconciler"}, {}} : auditFresh' = [auditFresh EXCEPT ![ar.a] = F]
    BY <1>3, <2>4, StoreAuditEffect
  <2>6. ar.copy.phase = audit[ar.a].phase
    BY <2>1, <2>5 DEF HoldsCurrent, OutcomeInv, WorkInv
  <2>7. /\ new.uid = audit[ar.a].uid /\ SameGate(new, audit[ar.a])
        /\ new.decision = audit[ar.a].decision /\ new.phase = audit[ar.a].phase
        /\ new.recs = audit[ar.a].recs
    BY <2>1, <2>2, <2>3, <2>6 DEF WithStatus, AuditObj, SameGate
  <2>8. ar'.pc = "idle"
    BY <1>3 DEF SetReverted, ArIdle
  <2> QED BY <2>1, <2>5, <2>7, <2>8
<1>4. CASE \E a \in Audits : Sweep(a) \/ RequestRevert(a)
  BY <1>1, <1>2, <1>4
<1>5. CASE \E r \in Outcomes : SetReverted(r)
  BY <1>3, <1>5
<1> QED BY <1>4, <1>5

(* Commit: the first verdict of an open gate with nothing on its trail     *)
(* (unless it was rewritten), or no change of verdict; either may rewrite  *)
(* what the gate says it holds.                                            *)
LEMMA CommitEffect ==
  ASSUME TypeOK, GateInv, OutcomeInv, NEW u \in Users, Commit(u)
  PROVE  \/ UNCHANGED <<audit, auditFresh>>
         \/ \E a \in Audits, new \in AuditObj :
              /\ audit' = [audit EXCEPT ![a] = new]
              /\ auditFresh' = [auditFresh EXCEPT ![a] = {}]
              /\ audit[a].uid # 0
              /\ new.uid = audit[a].uid /\ new.gated = audit[a].gated
              /\ new.recs = audit[a].recs /\ new.phase = audit[a].phase
              /\ \/ rewritten' = rewritten /\ SameGate(new, audit[a])
                 \/ rewritten' = rewritten \cup {a}
              /\ \/ new.decision = audit[a].decision
                 \/ /\ audit[a].decision = "" /\ new.decision \in {"Approved", "Denied"}
                    /\ audit[a].phase = "Pending"
                    /\ a \notin rewritten => Trail(audit[a]) = {}
<1> DEFINE a == req[u].a
           e == req[u].edit
<1>1. /\ req[u].pc = "admitted" /\ a \in Audits /\ e \in GateEdit /\ audit[a] \in AuditObj
  BY DEF Commit, TypeOK, ApprovalTypeOK, ClusterTypeOK
<1>2. CASE ~(audit[a].live /\ u \in auditFresh[a])
  BY <1>2 DEF Commit
<1>3. CASE audit[a].live /\ u \in auditFresh[a]
  <2>1. PICK new \in AuditObj : new = WithGate(audit[a], e)
    BY <1>1, AuditEdits
  <2>2. audit' = [audit EXCEPT ![a] = new] /\ auditFresh' = [auditFresh EXCEPT ![a] = {}]
    BY <1>3, <2>1 DEF Commit
  <2>3. /\ Opens(e, audit[a])
        /\ a \notin rewritten /\ e.decision # audit[a].decision => Trail(audit[a]) = {}
    BY <1>1, <1>3 DEF OutcomeInv, OpenInv
  <2>4. e.decision = audit[a].decision \/ audit[a].decision = ""
    BY <1>1, <1>3 DEF GateInv, RequestInv, Agree
  <2>5. audit[a].uid # 0
    BY <1>1, <1>3, LiveOwned
  <2>6. e.decision \in {"", "Approved", "Denied"} /\ audit[a].gated \in BOOLEAN /\ e.has \in BOOLEAN
    BY <1>1 DEF GateEdit, Decisions, AuditObj
  <2>7. /\ new.uid = audit[a].uid /\ new.gated = e.has
        /\ new.recs = audit[a].recs /\ new.phase = audit[a].phase /\ new.decision = e.decision
        /\ new.index = e.desc.index /\ new.held = e.desc.held
        /\ new.targets = e.desc.targets /\ new.expires = e.desc.expires
    BY <1>1, <2>1 DEF WithGate, AuditObj
  <2>8. new.gated = audit[a].gated
    BY <2>3, <2>6, <2>7 DEF Opens
  <2>9. \/ new.decision = audit[a].decision
        \/ /\ audit[a].decision = "" /\ new.decision \in {"Approved", "Denied"}
           /\ audit[a].phase = "Pending" /\ (a \notin rewritten => Trail(audit[a]) = {})
    BY <2>3, <2>4, <2>6, <2>7 DEF Opens
  <2>10. \/ rewritten' = rewritten /\ SameGate(new, audit[a])
         \/ rewritten' = rewritten \cup {a}
    <3>1. CASE Rewriting(audit[a], e)
      BY <1>3, <3>1 DEF Commit
    <3>2. CASE ~Rewriting(audit[a], e)
      <4>1. rewritten' = rewritten
        BY <1>3, <3>2 DEF Commit
      <4>2. e.desc = DescriptionOf(audit[a])
        BY <3>2 DEF Rewriting
      <4> QED BY <2>7, <2>8, <4>1, <4>2 DEF DescriptionOf, SameGate
    <3> QED BY <3>1, <3>2
  <2> HIDE DEF a, e
  <2> QED BY <1>1, <2>2, <2>5, <2>7, <2>8, <2>9, <2>10
<1> QED BY <1>2, <1>3

-----------------------------------------------------------------------------
(* OutcomeInv, action by action. *)

(* A record whose visible fields a write leaves alone stays sound. *)
LEMMA QuietSound ==
  ASSUME TypeOK, OwnerInv, OutcomeInv, Elapsed, NEW a \in Audits, NEW new,
         new.uid = audit[a].uid, SameGate(new, audit[a]), new.decision = audit[a].decision,
         new.phase = audit[a].phase, new.recs = audit[a].recs
  PROVE  /\ Sound(new, heldRuns[a], now', policyCache')
         /\ a \notin rewritten => Plain(new, now', policyCache')
<1>1. /\ Sound(audit[a], heldRuns[a], now, policyCache)
      /\ a \notin rewritten => Plain(audit[a], now, policyCache)
  BY DEF OutcomeInv, GateRecordInv
<1>2. Sound(audit[a], heldRuns[a], now', policyCache')
  BY <1>1, OutcomeTypes, SoundLasts DEF OwnerInv
<1>3. a \notin rewritten => Plain(audit[a], now', policyCache')
  BY <1>1, OutcomeTypes, PlainLasts DEF OwnerInv
<1> QED BY <1>2, <1>3, SoundFields

LEMMA StaysSound ==
  ASSUME TypeOK, OwnerInv, OutcomeInv, Elapsed, NEW a \in Audits
  PROVE  /\ Sound(audit[a], heldRuns[a], now', policyCache')
         /\ a \notin rewritten => Plain(audit[a], now', policyCache')
BY QuietSound DEF SameGate

LEMMA CreateRecordOutcome ==
  ASSUME TypeOK, OwnerInv, OutcomeInv, Elapsed, UNCHANGED <<auditRecVars, approvalVars>>,
         NEW a \in Audits, NEW r \in Outcomes, WriteAudit(a, r) \/ WriteGatedAudit(a, r)
  PROVE  OutcomeInv'
<1>1. /\ pr.pc = "create" /\ CreateRecord(a, r) /\ UNCHANGED auditCache
      /\ UNCHANGED <<heldRuns, ar, req, rewritten>>
  BY DEF WriteAudit, WriteGatedAudit, auditRecVars, approvalVars
<1>2. \/ pr'.pc = "requeue"
      \/ r = "ok" /\ pr'.pc = "mark" /\ pr'.a = a /\ GateIndex(pr.pol.actions) >= 0
  BY DEF WriteAudit, WriteGatedAudit, PrRequeue
<1>3. CASE UNCHANGED <<audit, auditFresh>> /\ r # "ok"
  BY <1>1, <1>2, <1>3, OutcomeFrame
<1>4. CASE ~(UNCHANGED <<audit, auditFresh>> /\ r # "ok")
  <2>1. PICK F \in {{"policyReconciler"}, {}} :
          /\ audit' = [audit EXCEPT ![a] = NewRecord]
          /\ auditFresh' = [auditFresh EXCEPT ![a] = F]
    BY <1>1, <1>4 DEF CreateRecord, Applied
  <2>2. audit[a].uid = 0
    BY <1>1 DEF CreateRecord
  <2>3. /\ NewRecord \in AuditObj /\ NewRecord.phase = ""
        /\ NewRecord.gated <=> GateIndex(pr.pol.actions) >= 0
        /\ Sound(NewRecord, heldRuns[a], now', policyCache')
        /\ Plain(NewRecord, now', policyCache')
    BY <1>1, NewRecordSound
  <2>4. PICK new \in AuditObj : new = NewRecord
    BY <2>3
  <2>5. audit[a].phase = ""
    BY <2>2 DEF OutcomeInv, GateRecordInv, Sound
  <2>6. WorkInv'
    BY <1>1, <2>1, <2>2, <2>4, WorkWritten
  <2>7. MarkInv'
    <3>1. audit'[a] = new
      BY <2>1, <2>4, OutcomeTypes
    <3> QED BY <1>2, <2>3, <2>4, <3>1 DEF MarkInv
  <2> QED BY <1>1, <2>1, <2>2, <2>3, <2>4, <2>5, <2>6, <2>7, OutcomeWritten
<1> QED BY <1>3, <1>4

LEMMA MarkPendingOutcome ==
  ASSUME TypeOK, OwnerInv, GateInv, OutcomeInv, Elapsed, UNCHANGED <<auditRecVars, approvalVars>>,
         NEW r \in Outcomes, MarkPending(r)
  PROVE  OutcomeInv'
<1>1. UNCHANGED <<auditCache, heldRuns, ar, req, rewritten>> /\ pr'.pc = "requeue"
  BY DEF MarkPending, PrRequeue, auditRecVars, approvalVars
<1>2. CASE UNCHANGED <<audit, auditFresh>>
  BY <1>1, <1>2, OutcomeFrame
<1>3. CASE ~UNCHANGED <<audit, auditFresh>>
  <2>1. pr.a \in Audits /\ audit[pr.a].uid # 0 /\ audit[pr.a].phase = "" /\ audit[pr.a].gated
    BY <1>3, MarkPendingEffect
  <2>2. PICK new \in AuditObj, F \in {{"policyReconciler"}, {}} :
          /\ audit' = [audit EXCEPT ![pr.a] = new]
          /\ auditFresh' = [auditFresh EXCEPT ![pr.a] = F]
          /\ new.uid = audit[pr.a].uid /\ SameGate(new, audit[pr.a])
          /\ new.decision = audit[pr.a].decision /\ new.recs = audit[pr.a].recs
          /\ new.phase = "Pending"
    BY <1>3, MarkPendingEffect
  <2>3. /\ Sound(audit[pr.a], heldRuns[pr.a], now', policyCache')
        /\ pr.a \notin rewritten => Plain(audit[pr.a], now', policyCache')
    BY <2>1, StaysSound
  <2>4. Trail(new) = Trail(audit[pr.a])
    BY <2>2, TrailOf
  <2>5. /\ Sound(new, heldRuns[pr.a], now', policyCache')
        /\ pr.a \notin rewritten => Plain(new, now', policyCache')
    BY <2>1, <2>2, <2>3, <2>4 DEF Sound, Plain, Excused, SameGate
  <2>6. WorkInv'
    BY <1>1, <2>1, <2>2, WorkWritten
  <2>7. MarkInv'
    BY <1>1 DEF MarkInv
  <2> QED BY <1>1, <2>1, <2>2, <2>5, <2>6, <2>7, OutcomeWritten
<1> QED BY <1>2, <1>3

LEMMA PolicyStepOutcome ==
  ASSUME TypeOK, OwnerInv, GateInv, OutcomeInv, Elapsed, PolicyStep
  PROVE  OutcomeInv'
<1>0. UNCHANGED <<auditRecVars, approvalVars>>
  BY Zenon DEF PolicyStep, PolicyFrame
<1>1. CASE \E a \in Audits, r \in Outcomes : WriteAudit(a, r) \/ WriteGatedAudit(a, r)
  BY <1>0, <1>1, CreateRecordOutcome
<1>2. CASE \E r \in Outcomes : MarkPending(r)
  BY <1>0, <1>2, MarkPendingOutcome
<1>3. CASE UNCHANGED <<audit, auditCache, auditFresh>> /\ (UNCHANGED pr \/ pr'.pc # "mark")
  BY <1>0, <1>3, OutcomeFrame DEF auditRecVars, approvalVars
<1>4. \/ \E a \in Audits, r \in Outcomes : WriteAudit(a, r) \/ WriteGatedAudit(a, r)
      \/ \E r \in Outcomes : MarkPending(r)
      \/ UNCHANGED <<audit, auditCache, auditFresh>> /\ (UNCHANGED pr \/ pr'.pc # "mark")
  BY DEF PolicyStep, ForgetPolicy, AwaitApproval, CoolDown, RateLimited, EvaluationFails,
         Evaluate, ResolveFails, RunPipeline, Requeue, PrRequeue, PrIdle, clusterVars
<1> QED BY <1>1, <1>2, <1>3, <1>4

(* A reconcile of a record begins. *)
LEMMA ReadAuditEffect ==
  ASSUME TypeOK, NEW a \in Audits, ReadAudit(a)
  PROVE  /\ \A b \in Audits : \A c \in auditFresh'[b] :
               c = "auditReconciler" \/ c \in auditFresh[b]
         /\ "auditReconciler" \in auditFresh'[a] => "cache" \in auditFresh[a]
BY OutcomeTypes DEF ReadAudit, ReadBy

(* What the cache says of a gate it has as Pending. *)
LEMMA CachedPending ==
  ASSUME TypeOK, OutcomeInv, NEW a \in Audits, auditCache[a].phase = "Pending"
  PROVE  /\ auditCache[a] \in AuditObj
         /\ auditCache[a].gated /\ (a \notin rewritten => auditCache[a].held # <<>>)
         /\ auditCache[a].uid = audit[a].uid /\ audit[a].uid # 0 /\ audit[a].phase # ""
         /\ "cache" \in auditFresh[a] => auditCache[a] = audit[a]
BY OutcomeTypes DEF OutcomeInv, GateRecordInv, Sound, Seen

LEMMA CloseGateEffect ==
  ASSUME TypeOK, OutcomeInv, NEW a \in Audits, DenyGate(a) \/ ExpireGate(a)
  PROVE  /\ UNCHANGED <<audit, auditCache, heldRuns, now, policy, policyCache>> /\ ReadAudit(a)
         /\ ar'.pc \in {"held", "phase"} /\ ar'.a = a
         /\ ar'.phase = "Denied" \/ ar'.phase = "Expired"
         /\ Closing(ar'.phase, ar'.copy, audit[a], heldRuns[a], now, policyCache)
         /\ "cache" \in auditFresh[a] => Current(ar'.pc, ar'.phase, ar'.copy, audit[a])
         /\ a \notin rewritten => Straight(ar'.phase, ar'.copy)
<1> DEFINE rec == auditCache[a]
<1>1. PICK phase \in {"Denied", "Expired"} :
        /\ CloseGate(a, phase) /\ Resolving(a)
        /\ phase = "Denied" => Refused(rec)
        /\ phase = "Expired" => TimedOut(rec)
  BY DEF DenyGate, ExpireGate
<1>2. /\ rec \in AuditObj /\ rec.gated /\ rec.phase = "Pending"
      /\ a \notin rewritten => rec.held # <<>>
      /\ rec.uid = audit[a].uid /\ audit[a].uid # 0
      /\ "cache" \in auditFresh[a] => rec = audit[a]
  BY <1>1, CachedPending DEF Resolving
<1>3. PICK b : b = SkippedBatch(rec) /\ b.kind = "skipped"
  <2>1. SkippedBatch(rec).kind = "skipped"
    BY DEF SkippedBatch
  <2> QED BY <2>1, Zenon
<1>4. PICK copy : copy = [rec EXCEPT !.recs = Append(@, b)]
  OBVIOUS
<1>5. /\ copy.phase = rec.phase /\ copy.uid = rec.uid /\ SameGate(copy, rec)
      /\ copy.decision = rec.decision
  BY <1>2, <1>4 DEF AuditObj, SameGate
<1>6. Trail(copy) = Trail(rec) \cup {"skipped"}
  <2> HIDE DEF rec
  <2>1. Trail([rec EXCEPT !.recs = Append(@, b)]) = Trail(rec) \cup {b.kind}
    BY <1>2, <1>3, TrailAppend
  <2> QED BY <1>3, <1>4, <2>1
<1>7. /\ \/ ar' = [pc |-> "held", a |-> a, phase |-> phase, copy |-> copy]
         \/ /\ rec.held = <<>>
            /\ ar' = [pc |-> "phase", a |-> a, phase |-> phase, copy |-> rec]
      /\ UNCHANGED <<audit, auditCache, heldRuns, now, policy, policyCache>> /\ ReadAudit(a)
  BY <1>1, <1>2, <1>3, <1>4 DEF CloseGate
<1>8. rec.decision \in {"", "Approved", "Denied"}
  BY <1>2 DEF AuditObj, Decisions
<1>9. /\ phase = "Denied" => rec.decision # ""
      /\ phase = "Expired" => rec.decision = ""
      /\ Excused(rec, now, policyCache)
  BY <1>1, <1>2, <1>8 DEF Refused, TimedOut, PolicyGone, Excused
<1> HIDE DEF rec
<1>10. /\ Closing(phase, copy, audit[a], heldRuns[a], now, policyCache)
       /\ Closing(phase, rec, audit[a], heldRuns[a], now, policyCache)
  BY <1>1, <1>2, <1>5, <1>9 DEF Closing, Excused, SameGate
<1>11. "cache" \in auditFresh[a] => /\ Current("held", phase, copy, audit[a])
                                    /\ Current("phase", phase, rec, audit[a])
  BY <1>1, <1>2, <1>5, <1>6 DEF Current, SameGate
<1>12. Straight(phase, copy)
  BY <1>1, <1>6 DEF Straight
<1>13. CASE ar' = [pc |-> "held", a |-> a, phase |-> phase, copy |-> copy]
  BY <1>7, <1>10, <1>11, <1>12, <1>13
<1>14. CASE /\ rec.held = <<>>
            /\ ar' = [pc |-> "phase", a |-> a, phase |-> phase, copy |-> rec]
  BY <1>2, <1>7, <1>10, <1>11, <1>14
<1> QED BY <1>7, <1>13, <1>14

LEMMA ReleaseGateEffect ==
  ASSUME TypeOK, OutcomeInv, NEW a \in Audits, ReleaseGate(a)
  PROVE  /\ UNCHANGED <<audit, auditCache, now, policy, policyCache>> /\ ReadAudit(a)
         /\ ar'.pc = "held" /\ ar'.a = a /\ ar'.phase = "Approved"
         /\ heldRuns' = [heldRuns EXCEPT ![a] = OnceMore(heldRuns[a])]
         /\ heldRuns'[a] > 0
         /\ auditCache[a].decision = "Approved" /\ auditCache[a].uid = audit[a].uid
         /\ policyCache.live /\ policyCache.uid = audit[a].uid /\ audit[a].phase # ""
         /\ Closing("Approved", ar'.copy, audit[a], heldRuns'[a], now, policyCache)
         /\ "cache" \in auditFresh[a] => /\ Current("held", "Approved", ar'.copy, audit[a])
                                         /\ a \notin rewritten => Straight("Approved", ar'.copy)
<1> DEFINE rec == auditCache[a]
<1>1. Resolving(a) /\ Released(rec)
  BY DEF ReleaseGate
<1>2. /\ rec \in AuditObj /\ rec.phase = "Pending"
      /\ rec.uid = audit[a].uid /\ audit[a].uid # 0 /\ audit[a].phase # ""
      /\ "cache" \in auditFresh[a] => rec = audit[a]
  BY <1>1, CachedPending DEF Resolving
<1>3. PICK rs : ar' = [pc |-> "held", a |-> a, phase |-> "Approved", pol |-> policyCache,
                       copy |-> [rec EXCEPT !.recs =
                                   Append(@, [kind |-> "released", results |-> rs])]]
  BY DEF ReleaseGate
<1>4. PICK b : b = [kind |-> "released", results |-> rs] /\ b.kind = "released"
  <2>1. [kind |-> "released", results |-> rs].kind = "released"
    OBVIOUS
  <2> QED BY <2>1, Zenon
<1>5. PICK copy : copy = [rec EXCEPT !.recs = Append(@, b)]
  OBVIOUS
<1>6. /\ copy.phase = rec.phase /\ copy.uid = rec.uid /\ SameGate(copy, rec)
      /\ copy.decision = rec.decision
  BY <1>2, <1>5 DEF AuditObj, SameGate
<1>7. Trail(copy) = Trail(rec) \cup {"released"}
  <2> HIDE DEF rec
  <2>1. b.kind = "released" /\ rec \in AuditObj
    BY <1>2, <1>4
  <2>2. Trail([rec EXCEPT !.recs = Append(@, b)]) = Trail(rec) \cup {b.kind}
    BY <2>1, TrailAppend
  <2> QED BY <1>5, <2>1, <2>2
<1>8. /\ ar'.pc = "held" /\ ar'.a = a /\ ar'.phase = "Approved" /\ ar'.copy = copy
  BY <1>3, <1>4, <1>5
<1>9. /\ UNCHANGED <<audit, auditCache, now, policy, policyCache>> /\ ReadAudit(a)
      /\ heldRuns' = [heldRuns EXCEPT ![a] = OnceMore(heldRuns[a])]
  BY DEF ReleaseGate
<1>10. heldRuns'[a] > 0
  BY <1>9, OutcomeTypes DEF OnceMore
<1>11. rec.decision = "Approved" /\ policyCache.live /\ policyCache.uid = rec.uid
  BY <1>1 DEF Released, PolicyGone
<1>12. "cache" \in auditFresh[a] /\ a \notin rewritten => "skipped" \notin Trail(rec)
  <2>1. a \notin rewritten => Plain(audit[a], now, policyCache)
    BY DEF OutcomeInv, GateRecordInv
  <2> QED BY <1>2, <1>11, <2>1 DEF Plain, Excused
<1> HIDE DEF rec
<1>13. Closing("Approved", copy, audit[a], heldRuns'[a], now, policyCache)
  BY <1>2, <1>6, <1>7, <1>10, <1>11 DEF Closing
<1>14. "cache" \in auditFresh[a] => /\ Current("held", "Approved", copy, audit[a])
                                    /\ a \notin rewritten => Straight("Approved", copy)
  BY <1>2, <1>6, <1>7, <1>12 DEF Current, Straight
<1> QED BY <1>2, <1>8, <1>9, <1>10, <1>11, <1>13, <1>14 DEF rec

LEMMA AuditReadsOutcome ==
  ASSUME TypeOK, OwnerInv, OutcomeInv, Elapsed, UNCHANGED <<reconcilerVars, approvalVars>>,
         NEW a \in Audits, DenyGate(a) \/ ExpireGate(a) \/ ReleaseGate(a) \/ Revert(a)
  PROVE  OutcomeInv'
<1>0. UNCHANGED <<pr, req, rewritten>>
  BY DEF reconcilerVars, approvalVars
<1>1. CASE DenyGate(a) \/ ExpireGate(a)
  <2>1. /\ UNCHANGED <<audit, auditCache, heldRuns, now, policyCache>> /\ ReadAudit(a)
        /\ ar'.pc \in {"held", "phase"} /\ ar'.a = a
        /\ Closing(ar'.phase, ar'.copy, audit[a], heldRuns[a], now, policyCache)
        /\ "cache" \in auditFresh[a] => Current(ar'.pc, ar'.phase, ar'.copy, audit[a])
        /\ a \notin rewritten => Straight(ar'.phase, ar'.copy)
    BY <1>1, CloseGateEffect
  <2>2. WorkInv'
    BY <1>0, <2>1, ReadAuditEffect DEF WorkInv
  <2> QED BY <1>0, <2>1, <2>2, ReadAuditEffect, OutcomeKept
<1>2. CASE ReleaseGate(a)
  <2>1. /\ UNCHANGED <<audit, auditCache, now, policyCache>> /\ ReadAudit(a)
        /\ ar'.pc = "held" /\ ar'.a = a /\ ar'.phase = "Approved"
        /\ heldRuns' = [heldRuns EXCEPT ![a] = OnceMore(heldRuns[a])] /\ heldRuns'[a] > 0
        /\ Closing("Approved", ar'.copy, audit[a], heldRuns'[a], now, policyCache)
        /\ "cache" \in auditFresh[a] => /\ Current("held", "Approved", ar'.copy, audit[a])
                                        /\ a \notin rewritten => Straight("Approved", ar'.copy)
    BY <1>2, ReleaseGateEffect
  <2>2. WorkInv'
    BY <1>0, <2>1, ReadAuditEffect DEF WorkInv
  <2>3. \A b \in Audits : heldRuns[b] > 0 => heldRuns'[b] > 0
    BY <2>1, OutcomeTypes
  <2> QED BY <1>0, <2>1, <2>2, <2>3, ReadAuditEffect, OutcomeKept
<1>3. CASE Revert(a)
  <2>1. /\ UNCHANGED <<audit, auditCache, heldRuns>> /\ ReadAudit(a)
        /\ ar'.pc = "reverted" /\ ar'.a = a /\ ar'.copy = auditCache[a]
    BY <1>3 DEF Revert
  <2>2. "cache" \in auditFresh[a] => auditCache[a] = audit[a]
    BY DEF OutcomeInv, GateRecordInv
  <2>3. WorkInv'
    BY <2>1, <2>2, ReadAuditEffect DEF WorkInv
  <2> QED BY <1>0, <2>1, <2>3, ReadAuditEffect, OutcomeKept
<1> QED BY <1>1, <1>2, <1>3

LEMMA RecordHeldOutcome ==
  ASSUME TypeOK, OwnerInv, GateInv, OutcomeInv, Elapsed, NEW r \in Outcomes, RecordHeld(r),
         UNCHANGED <<reconcilerVars, approvalVars>>
  PROVE  OutcomeInv'
<1>0. UNCHANGED <<pr, req, rewritten, auditCache, heldRuns>>
  BY DEF RecordHeld, reconcilerVars, approvalVars
<1>1. CASE UNCHANGED <<audit, auditFresh>> /\ r # "ok"
  <2>1. ar'.pc = "idle"
    BY <1>1 DEF RecordHeld, ArIdle
  <2> QED BY <1>0, <1>1, <2>1, OutcomeFrame
<1>2. CASE ~(UNCHANGED <<audit, auditFresh>> /\ r # "ok")
  <2>1. /\ ar.a \in Audits
        /\ Closing(ar.phase, ar.copy, audit[ar.a], heldRuns[ar.a], now, policyCache)
        /\ Current("held", ar.phase, ar.copy, audit[ar.a])
        /\ ar.a \notin rewritten => Straight(ar.phase, ar.copy)
    BY <1>2, RecordHeldEffect
  <2>2. PICK new \in AuditObj, F \in {{"auditReconciler"}, {}} :
          /\ audit' = [audit EXCEPT ![ar.a] = new]
          /\ auditFresh' = [auditFresh EXCEPT ![ar.a] = F]
          /\ new.uid = audit[ar.a].uid /\ SameGate(new, audit[ar.a])
          /\ new.decision = audit[ar.a].decision /\ new.phase = audit[ar.a].phase
          /\ new.recs = ar.copy.recs
    BY <1>2, RecordHeldEffect
  <2>3. Trail(new) = Trail(ar.copy)
    BY <2>2, TrailOf
  <2>4. /\ Sound(audit[ar.a], heldRuns[ar.a], now', policyCache')
        /\ ar.a \notin rewritten => Plain(audit[ar.a], now', policyCache')
        /\ Closing(ar.phase, ar.copy, new, heldRuns[ar.a], now', policyCache')
    <3>1. ar.copy \in AuditObj /\ audit[ar.a].uid <= policyCache.uid
      BY <2>1, OutcomeTypes DEF RecordHeld, OwnerInv
    <3>2. /\ Sound(audit[ar.a], heldRuns[ar.a], now', policyCache')
          /\ ar.a \notin rewritten => Plain(audit[ar.a], now', policyCache')
      BY <2>1, StaysSound
    <3>3. Closing(ar.phase, ar.copy, new, heldRuns[ar.a], now', policyCache')
      BY <2>1, <2>2, <3>1, ClosingLasts
    <3> QED BY <3>2, <3>3
  <2>5. /\ Sound(new, heldRuns[ar.a], now', policyCache')
        /\ ar.a \notin rewritten => Plain(new, now', policyCache')
    <3>1. new.phase = "Pending" /\ new.uid # 0
      BY <2>1, <2>2 DEF Closing, Current
    <3>2. "released" \in Trail(new) => heldRuns[ar.a] > 0
      <4>1. CASE ar.phase = "Approved"
        BY <2>1, <4>1 DEF Closing
      <4>2. CASE ar.phase # "Approved"
        <5>1. Trail(new) = Trail(audit[ar.a]) \cup {"skipped"}
          BY <2>1, <2>3, <4>2 DEF Current
        <5> QED BY <2>4, <5>1 DEF Sound
      <4> QED BY <4>1, <4>2
    <3>3. ar.a \notin rewritten /\ "skipped" \in Trail(new) => Excused(new, now', policyCache')
      <4>1. ar.phase # "Approved" => Excused(new, now', policyCache')
        BY <2>1, <2>2, <2>4 DEF Closing, Current, Excused, SameGate
      <4> QED BY <2>1, <2>3, <4>1 DEF Straight
    <3>4. new.gated /\ (ar.a \notin rewritten => new.held # <<>>)
      BY <2>2, <2>4, <3>1 DEF Sound, Plain, SameGate
    <3> QED BY <3>1, <3>2, <3>3, <3>4 DEF Sound, Plain
  <2>6. WorkInv'
    <3>1. \/ ar'.pc = "idle"
          \/ ar'.pc = "phase" /\ ar'.a = ar.a /\ ar'.copy = ar.copy /\ ar'.phase = ar.phase
      BY DEF RecordHeld, ArIdle, TypeOK, AuditRecTypeOK, ArState
    <3>2. audit'[ar.a] = new
      BY <2>1, <2>2, OutcomeTypes
    <3>3. Current("phase", ar.phase, ar.copy, new)
      BY <2>1, <2>2, <2>3 DEF Current, SameGate
    <3>4. CASE ar'.pc = "idle"
      BY <3>4 DEF WorkInv
    <3>5. CASE ar'.pc = "phase" /\ ar'.a = ar.a /\ ar'.copy = ar.copy /\ ar'.phase = ar.phase
      BY <1>0, <2>1, <2>4, <3>2, <3>3, <3>5 DEF WorkInv
    <3> QED BY <3>1, <3>4, <3>5
  <2>7. MarkInv'
    BY <1>0, <2>1, <2>2, MarkWritten
  <2> QED BY <1>0, <2>1, <2>2, <2>5, <2>6, <2>7, OutcomeWritten
<1> QED BY <1>1, <1>2

LEMMA SetPhaseOutcome ==
  ASSUME TypeOK, OwnerInv, GateInv, OutcomeInv, Elapsed, NEW r \in Outcomes, SetPhase(r),
         UNCHANGED <<reconcilerVars, approvalVars>>
  PROVE  OutcomeInv'
<1>0. /\ UNCHANGED <<pr, req, rewritten, auditCache, heldRuns>>
      /\ ar'.pc \notin {"held", "phase", "reverted"}
  BY DEF SetPhase, ArIdle, reconcilerVars, approvalVars
<1>1. CASE UNCHANGED <<audit, auditFresh>>
  BY <1>0, <1>1, OutcomeFrame
<1>2. CASE ~UNCHANGED <<audit, auditFresh>>
  <2>1. /\ ar.a \in Audits
        /\ Closing(ar.phase, ar.copy, audit[ar.a], heldRuns[ar.a], now, policyCache)
        /\ Current("phase", ar.phase, ar.copy, audit[ar.a])
    BY <1>2, SetPhaseEffect
  <2>2. PICK new \in AuditObj, F \in {{"auditReconciler"}, {}} :
          /\ audit' = [audit EXCEPT ![ar.a] = new]
          /\ auditFresh' = [auditFresh EXCEPT ![ar.a] = F]
          /\ new.uid = audit[ar.a].uid /\ SameGate(new, audit[ar.a])
          /\ new.decision = audit[ar.a].decision /\ new.recs = audit[ar.a].recs
          /\ new.phase = ar.phase
    BY <1>2, SetPhaseEffect
  <2>3. Trail(new) = Trail(audit[ar.a]) /\ ar.phase \in {"Approved", "Denied", "Expired"}
    BY <2>2, TrailOf, OutcomeTypes DEF SetPhase
  <2>4. /\ Sound(audit[ar.a], heldRuns[ar.a], now', policyCache')
        /\ ar.a \notin rewritten => Plain(audit[ar.a], now', policyCache')
    BY <2>1, StaysSound
  <2>5. /\ Sound(new, heldRuns[ar.a], now', policyCache')
        /\ ar.a \notin rewritten => Plain(new, now', policyCache')
    <3>0. Closing(ar.phase, ar.copy, audit[ar.a], heldRuns[ar.a], now', policyCache')
      BY <2>1, OutcomeTypes, ClosingLasts DEF SetPhase, OwnerInv
    <3>1. audit[ar.a].phase = "Pending" /\ audit[ar.a].uid # 0
      BY <2>1 DEF Closing, Current
    <3>2. /\ ar.phase = "Approved" =>
               audit[ar.a].decision = "Approved" /\ "released" \in Trail(audit[ar.a])
          /\ ar.phase = "Denied" => /\ audit[ar.a].decision # ""
                                    /\ Excused(audit[ar.a], now', policyCache')
          /\ ar.phase = "Expired" => audit[ar.a].decision = ""
      BY <2>1, <3>0 DEF Closing, Current, SameGate, Excused
    <3>3. Excused(audit[ar.a], now', policyCache') => Excused(new, now', policyCache')
      BY <2>2 DEF Excused, SameGate
    <3> QED BY <2>2, <2>3, <2>4, <3>1, <3>2, <3>3 DEF Sound, Plain, SameGate
  <2>6. WorkInv'
    BY <1>0 DEF WorkInv
  <2>7. MarkInv'
    BY <1>0, <2>1, <2>2, MarkWritten
  <2> QED BY <1>0, <2>1, <2>2, <2>3, <2>5, <2>6, <2>7, OutcomeWritten
<1> QED BY <1>1, <1>2

LEMMA QuietWriteOutcome ==
  ASSUME TypeOK, OwnerInv, GateInv, OutcomeInv, Elapsed, UNCHANGED <<pr, req, rewritten>>,
         \/ \E a \in Audits : Sweep(a) \/ (RequestRevert(a) /\ UNCHANGED auditRecVars)
         \/ \E r \in Outcomes : SetReverted(r)
  PROVE  OutcomeInv'
<1>0. UNCHANGED <<auditCache, heldRuns>> /\ (UNCHANGED ar \/ ar'.pc = "idle")
  BY DEF Sweep, RequestRevert, SetReverted, ArIdle, auditRecVars
<1>1. CASE UNCHANGED <<audit, auditFresh>>
  BY <1>0, <1>1, OutcomeFrame
<1>2. CASE ~UNCHANGED <<audit, auditFresh>>
  <2>1. PICK a \in Audits, new \in AuditObj, F \in {{"auditReconciler"}, {}} :
          /\ audit' = [audit EXCEPT ![a] = new]
          /\ auditFresh' = [auditFresh EXCEPT ![a] = F]
          /\ F = {} \/ ar'.pc = "idle"
          /\ new.uid = audit[a].uid /\ SameGate(new, audit[a])
          /\ new.decision = audit[a].decision /\ new.phase = audit[a].phase
          /\ new.recs = audit[a].recs
    BY <1>2, QuietWriteEffect
  <2>2. /\ Sound(new, heldRuns[a], now', policyCache')
        /\ a \notin rewritten => Plain(new, now', policyCache')
    BY <2>1, QuietSound
  <2>3. WorkInv'
    <3>1. CASE ar'.pc = "idle"
      BY <3>1 DEF WorkInv
    <3>2. CASE F = {} /\ UNCHANGED ar
      BY <1>0, <2>1, <3>2, WorkWritten
    <3> QED BY <1>0, <2>1, <3>1, <3>2
  <2>4. MarkInv'
    BY <2>1, MarkWritten
  <2> QED BY <1>0, <2>1, <2>2, <2>3, <2>4, OutcomeWritten
<1> QED BY <1>1, <1>2

LEMMA CommitOutcome ==
  ASSUME TypeOK, OwnerInv, GateInv, OutcomeInv, Elapsed, UNCHANGED <<reconcilerVars, auditRecVars>>,
         NEW u \in Users, Commit(u)
  PROVE  OutcomeInv'
<1>0. /\ UNCHANGED <<pr, ar, heldRuns, auditCache>>
      /\ rewritten \subseteq rewritten'
      /\ \A v \in Users : req'[v].pc = "admitted" => req'[v] = req[v]
  BY OutcomeTypes DEF Commit, NoRequest, reconcilerVars, auditRecVars
<1>1. CASE UNCHANGED <<audit, auditFresh>>
  <2>1. ASSUME NEW b \in Audits PROVE GateRecordInv(b)'
    <3>1. /\ GateRecordInv(b) /\ Sound(audit[b], heldRuns[b], now', policyCache')
          /\ b \notin rewritten => Plain(audit[b], now', policyCache')
      BY StaysSound DEF OutcomeInv
    <3> QED BY <1>0, <1>1, <3>1 DEF GateRecordInv
  <2>2. WorkInv'
    <3>1. ar.pc \in {"held", "phase"} =>
            Closing(ar.phase, ar.copy, audit[ar.a], heldRuns[ar.a], now', policyCache')
      BY OutcomeTypes, ClosingLasts DEF OutcomeInv, WorkInv, OwnerInv
    <3> QED BY <1>0, <1>1, <3>1 DEF OutcomeInv, WorkInv
  <2>3. MarkInv'
    BY <1>0, <1>1 DEF OutcomeInv, MarkInv
  <2>4. ASSUME NEW v \in Users PROVE OpenInv(v)'
    <3>1. OpenInv(v)
      BY DEF OutcomeInv
    <3> QED BY <1>0, <1>1, <3>1 DEF OpenInv
  <2> QED BY <2>1, <2>2, <2>3, <2>4 DEF OutcomeInv
<1>2. CASE ~UNCHANGED <<audit, auditFresh>>
  <2>1. PICK a \in Audits, new \in AuditObj :
          /\ audit' = [audit EXCEPT ![a] = new]
          /\ auditFresh' = [auditFresh EXCEPT ![a] = {}]
          /\ audit[a].uid # 0
          /\ new.uid = audit[a].uid /\ new.gated = audit[a].gated
          /\ new.recs = audit[a].recs /\ new.phase = audit[a].phase
          /\ \/ rewritten' = rewritten /\ SameGate(new, audit[a])
             \/ rewritten' = rewritten \cup {a}
          /\ \/ new.decision = audit[a].decision
             \/ /\ audit[a].decision = "" /\ new.decision \in {"Approved", "Denied"}
                /\ audit[a].phase = "Pending"
                /\ a \notin rewritten => Trail(audit[a]) = {}
    BY <1>2, CommitEffect
  <2>2. /\ Sound(new, heldRuns[a], now', policyCache')
        /\ a \notin rewritten' => Plain(new, now', policyCache')
    <3>1. /\ Sound(audit[a], heldRuns[a], now', policyCache')
          /\ a \notin rewritten => Plain(audit[a], now', policyCache')
      BY StaysSound
    <3>2. Trail(new) = Trail(audit[a])
      BY <2>1, TrailOf
    <3>3. Sound(new, heldRuns[a], now', policyCache')
      BY <2>1, <3>1, <3>2 DEF Sound, Excused
    <3>4. ASSUME a \notin rewritten' PROVE Plain(new, now', policyCache')
      <4>1. a \notin rewritten /\ SameGate(new, audit[a])
        BY <2>1, <3>4
      <4> QED BY <2>1, <3>1, <3>2, <4>1 DEF Plain, Excused, SameGate
    <3> QED BY <3>3, <3>4
  <2>3. WorkInv' /\ MarkInv'
    BY <1>0, <2>1, WorkWritten, MarkWritten
  <2> QED BY <1>0, <2>1, <2>2, <2>3, OutcomeWritten
<1> QED BY <1>1, <1>2

LEMMA SubmitOutcome ==
  ASSUME TypeOK, OwnerInv, GateInv, OutcomeInv, Elapsed, UNCHANGED <<reconcilerVars, auditRecVars>>,
         NEW u \in Users, NEW a \in Audits, NEW edit \in GateEdit, Submit(u, a, edit)
  PROVE  OutcomeInv'
<1>1. PICK e : e = Stamp(audit[a], edit, u)
  OBVIOUS
<1>2. /\ req' = [req EXCEPT ![u] = [pc |-> "admitted", a |-> a, edit |-> e]]
      /\ auditFresh' = [auditFresh EXCEPT ![a] = @ \cup {u}]
      /\ UNCHANGED <<audit, auditCache, heldRuns, ar, pr, rewritten>>
  BY <1>1 DEF Submit, reconcilerVars, auditRecVars
<1>3. /\ \A c \in {"cache", "policyReconciler", "auditReconciler"} : \A b \in Audits :
           c \in auditFresh'[b] <=> c \in auditFresh[b]
      /\ \A v \in Users : v # u => /\ req'[v] = req[v]
                                   /\ \A b \in Audits : v \in auditFresh'[b] <=> v \in auditFresh[b]
      /\ req'[u].a = a /\ req'[u].edit = e
  BY <1>2, OutcomeTypes
<1>4. /\ Opens(e, audit[a])
      /\ a \notin rewritten /\ e.decision # audit[a].decision => Trail(audit[a]) = {}
  <2>1. Admits(audit[a], edit)
    BY DEF Submit
  <2>2. e.has /\ audit[a].gated /\ e.decision = edit.decision
    BY <1>1, <2>1 DEF Admits, Stamp, GateEdit
  <2>3. ASSUME edit.decision # audit[a].decision
        PROVE  audit[a].phase = "Pending" /\ (a \notin rewritten => Trail(audit[a]) = {})
    <3>1. audit[a].decision = "" /\ audit[a].phase = "Pending" /\ now < audit[a].expires
      BY <2>1, <2>3 DEF Admits, SameVerdict, NewVerdictAllowed
    <3>2. ~(now >= audit[a].expires)
      <4>1. audit[a].expires \in Nat
        BY OutcomeTypes DEF AuditObj
      <4>2. now \in Nat
        BY ClusterAssumption DEF TypeOK, ClusterTypeOK, Time
      <4>3. \A x, y \in Nat : x < y => ~(x >= y)
        OBVIOUS
      <4>4. now < audit[a].expires
        BY <3>1
      <4> QED BY <4>1, <4>2, <4>3, <4>4
    <3>3. /\ Sound(audit[a], heldRuns[a], now, policyCache) /\ RecordInv(a)
          /\ a \notin rewritten => Plain(audit[a], now, policyCache)
      BY DEF OutcomeInv, GateRecordInv, GateInv
    <3>4. /\ a \notin rewritten => "skipped" \notin Trail(audit[a])
          /\ "released" \notin Trail(audit[a])
      BY <3>1, <3>2, <3>3 DEF Sound, Plain, Excused, RecordInv
    <3>5. Trail(audit[a]) \subseteq {"released", "skipped"}
      BY DEF Trail
    <3>6. a \notin rewritten => Trail(audit[a]) = {}
      BY <3>4, <3>5
    <3> QED BY <3>1, <3>6
  <2> QED BY <2>2, <2>3 DEF Opens
<1>5. ASSUME NEW b \in Audits PROVE GateRecordInv(b)'
  <2>1. /\ GateRecordInv(b) /\ Sound(audit[b], heldRuns[b], now', policyCache')
        /\ b \notin rewritten => Plain(audit[b], now', policyCache')
    BY StaysSound DEF OutcomeInv
  <2> QED BY <1>2, <1>3, <2>1 DEF GateRecordInv
<1>6. WorkInv'
  <2>1. ar.pc \in {"held", "phase"} =>
          Closing(ar.phase, ar.copy, audit[ar.a], heldRuns[ar.a], now', policyCache')
    BY OutcomeTypes, ClosingLasts DEF OutcomeInv, WorkInv, OwnerInv
  <2>2. ar.pc \in {"held", "phase", "reverted"} /\ "auditReconciler" \in auditFresh'[ar.a] =>
          "auditReconciler" \in auditFresh[ar.a]
    BY <1>3, OutcomeTypes
  <2> QED BY <1>2, <2>1, <2>2 DEF OutcomeInv, WorkInv
<1>7. MarkInv'
  BY <1>2, <1>3, OutcomeTypes DEF OutcomeInv, MarkInv
<1>8. ASSUME NEW v \in Users PROVE OpenInv(v)'
  <2>1. CASE v = u
    BY <1>2, <1>3, <1>4, <2>1 DEF OpenInv
  <2>2. CASE v # u
    <3>1. OpenInv(v) /\ req'[v] = req[v]
      BY <1>3, <2>2 DEF OutcomeInv
    <3>2. req[v].pc = "admitted" /\ v \in auditFresh'[req[v].a] => v \in auditFresh[req[v].a]
      BY <1>3, <2>2, OutcomeTypes
    <3>3. UNCHANGED <<audit, rewritten>>
      BY <1>2
    <3> QED BY <3>1, <3>2, <3>3 DEF OpenInv
  <2> QED BY <2>1, <2>2
<1> QED BY <1>5, <1>6, <1>7, <1>8 DEF OutcomeInv

LEMMA SyncAuditOutcome ==
  ASSUME TypeOK, OwnerInv, OutcomeInv, Elapsed, NEW a \in Audits, SyncAudit(a),
         UNCHANGED <<reconcilerVars, auditRecVars, approvalVars>>
  PROVE  OutcomeInv'
<1>1. /\ auditCache' = [auditCache EXCEPT ![a] = audit[a]]
      /\ auditFresh' = [auditFresh EXCEPT ![a] = @ \cup {"cache"}]
      /\ UNCHANGED <<audit, heldRuns, ar, pr, req, rewritten>>
  BY DEF SyncAudit, reconcilerVars, auditRecVars, approvalVars
<1>2. /\ \A b \in Audits : \A c : c # "cache" => (c \in auditFresh'[b] <=> c \in auditFresh[b])
      /\ auditCache'[a] = audit[a]
      /\ \A b \in Audits : b # a => auditCache'[b] = auditCache[b] /\ auditFresh'[b] = auditFresh[b]
  BY <1>1, OutcomeTypes
<1>3. ASSUME NEW b \in Audits PROVE GateRecordInv(b)'
  <2>1. /\ GateRecordInv(b) /\ Sound(audit[b], heldRuns[b], now', policyCache')
        /\ b \notin rewritten => Plain(audit[b], now', policyCache')
    BY StaysSound DEF OutcomeInv
  <2>2. CASE b = a
    <3>1. /\ Seen(audit[b], audit[b])
          /\ b \notin rewritten /\ audit[b].phase = "Pending" => audit[b].held # <<>>
      BY <2>1 DEF Seen, Sound, Plain
    <3> QED BY <1>1, <1>2, <2>1, <2>2, <3>1 DEF GateRecordInv
  <2>3. CASE b # a
    BY <1>1, <1>2, <2>1, <2>3 DEF GateRecordInv
  <2> QED BY <2>2, <2>3
<1>4. WorkInv'
  <2>1. ar.pc \in {"held", "phase"} =>
          Closing(ar.phase, ar.copy, audit[ar.a], heldRuns[ar.a], now', policyCache')
    BY OutcomeTypes, ClosingLasts DEF OutcomeInv, WorkInv, OwnerInv
  <2>2. ar.pc \in {"held", "phase", "reverted"} /\ "auditReconciler" \in auditFresh'[ar.a] =>
          "auditReconciler" \in auditFresh[ar.a]
    BY <1>2, OutcomeTypes
  <2> QED BY <1>1, <2>1, <2>2 DEF OutcomeInv, WorkInv
<1>5. MarkInv'
  BY <1>1, <1>2, OutcomeTypes DEF OutcomeInv, MarkInv
<1>6. ASSUME NEW v \in Users PROVE OpenInv(v)'
  <2>1. OpenInv(v) /\ UNCHANGED <<req, audit, rewritten>>
    BY <1>1 DEF OutcomeInv
  <2>2. req[v].pc = "admitted" /\ v \in auditFresh'[req[v].a] => v \in auditFresh[req[v].a]
    BY <1>2, OutcomeTypes
  <2> QED BY <2>1, <2>2 DEF OpenInv
<1> QED BY <1>3, <1>4, <1>5, <1>6 DEF OutcomeInv

LEMMA CrashOutcome ==
  ASSUME TypeOK, OwnerInv, OutcomeInv, Elapsed, Crash
  PROVE  OutcomeInv'
<1>1. /\ auditCache' = audit /\ ar'.pc = "idle" /\ pr'.pc = "idle"
      /\ auditFresh' = [a \in Audits |->
           (auditFresh[a] \ {"policyReconciler", "auditReconciler"}) \cup {"cache"}]
      /\ UNCHANGED <<audit, heldRuns, req, rewritten>>
  BY DEF Crash, RelistCaches, ArIdle, PrIdle, approvalVars
<1>2. ASSUME NEW b \in Audits PROVE GateRecordInv(b)'
  <2>1. /\ Sound(audit[b], heldRuns[b], now', policyCache')
        /\ b \notin rewritten => Plain(audit[b], now', policyCache')
    BY StaysSound
  <2>2. /\ Seen(audit[b], audit[b])
        /\ b \notin rewritten /\ audit[b].phase = "Pending" => audit[b].held # <<>>
    BY <2>1 DEF Seen, Sound, Plain
  <2>3. auditCache'[b] = audit[b] /\ audit'[b] = audit[b] /\ heldRuns'[b] = heldRuns[b]
    BY <1>1
  <2> QED BY <1>1, <2>1, <2>2, <2>3 DEF GateRecordInv
<1>3. WorkInv' /\ MarkInv'
  BY <1>1 DEF WorkInv, MarkInv
<1>4. ASSUME NEW v \in Users PROVE OpenInv(v)'
  <2>1. OpenInv(v) /\ UNCHANGED <<req, audit, rewritten>>
    BY <1>1 DEF OutcomeInv
  <2>2. req[v].pc = "admitted" /\ v \in auditFresh'[req[v].a] => v \in auditFresh[req[v].a]
    BY <1>1, OutcomeTypes
  <2> QED BY <2>1, <2>2 DEF OpenInv
<1> QED BY <1>2, <1>3, <1>4 DEF OutcomeInv

LEMMA NextOutcome == TypeOK /\ OwnerInv /\ GateInv /\ OutcomeInv /\ [Next]_vars => OutcomeInv'
<1> SUFFICES ASSUME TypeOK, OwnerInv, GateInv, OutcomeInv, [Next]_vars PROVE OutcomeInv'
  OBVIOUS
<1>0. Elapsed
  BY NextElapsed
<1>1. CASE Clock \/ Informer \/ PolicyUser
  <2>1. UNCHANGED <<reconcilerVars, auditRecVars, approvalVars>>
    BY <1>1, Zenon DEF Clock, Informer, PolicyUser, ClusterFrame, UserFrame
  <2>2. CASE \E a \in Audits : SyncAudit(a)
    BY <1>0, <2>1, <2>2, SyncAuditOutcome
  <2>3. CASE Tick \/ SyncPolicy \/ EditPolicy \/ DeletePolicy \/ RecreatePolicy
    <3>1. UNCHANGED <<audit, auditCache, auditFresh>>
      BY <2>3 DEF Tick, SyncPolicy, EditPolicy, DeletePolicy, RecreatePolicy
    <3> QED BY <1>0, <2>1, <3>1, OutcomeFrame DEF reconcilerVars, auditRecVars, approvalVars
  <2> QED BY <1>1, <2>2, <2>3, Zenon DEF Clock, Informer, PolicyUser
<1>2. CASE PolicyStep
  BY <1>0, <1>2, PolicyStepOutcome
<1>3. CASE AuditStep
  <2>1. UNCHANGED <<reconcilerVars, approvalVars>>
    BY <1>3, Zenon DEF AuditStep, AuditFrame
  <2>2. UNCHANGED <<pr, req, rewritten>>
    BY <2>1 DEF reconcilerVars, approvalVars
  <2>3. ASSUME (\E r \in Outcomes : StartCooldown(r)) \/ RefetchPolicy
        PROVE  OutcomeInv'
    <3>1. /\ UNCHANGED <<audit, auditCache, auditFresh, heldRuns>>
          /\ ar'.pc \in {"idle", "cooldown"}
      BY <2>3 DEF StartCooldown, RefetchPolicy, ArIdle
    <3> QED BY <1>0, <2>2, <3>1, OutcomeFrame
  <2>4. ASSUME NEW a \in Audits, DenyGate(a) \/ ExpireGate(a) \/ ReleaseGate(a) \/ Revert(a)
        PROVE  OutcomeInv'
    BY <1>0, <2>1, <2>4, AuditReadsOutcome
  <2>5. ASSUME (\E a \in Audits : Sweep(a)) \/ (\E r \in Outcomes : SetReverted(r))
        PROVE  OutcomeInv'
    BY <1>0, <2>2, <2>5, QuietWriteOutcome
  <2>6. ASSUME NEW r \in Outcomes, RecordHeld(r) \/ SetPhase(r)
        PROVE  OutcomeInv'
    BY <1>0, <2>1, <2>6, RecordHeldOutcome, SetPhaseOutcome
  <2> QED BY <1>3, <2>3, <2>4, <2>5, <2>6, Zenon DEF AuditStep
<1>4. CASE AuditUser
  <2>1. UNCHANGED <<reconcilerVars, auditRecVars>>
    BY <1>4, Zenon DEF AuditUser, ApprovalFrame
  <2>2. ASSUME NEW a \in Audits, RequestRevert(a) PROVE OutcomeInv'
    <3>1. UNCHANGED <<pr, req, rewritten>>
      BY <2>1, <2>2 DEF RequestRevert, reconcilerVars
    <3>2. UNCHANGED auditRecVars
      BY <2>1
    <3> QED BY <1>0, <2>2, <3>1, <3>2, QuietWriteOutcome
  <2>3. ASSUME NEW u \in Users, Commit(u) PROVE OutcomeInv'
    BY <1>0, <2>1, <2>3, CommitOutcome
  <2>4. ASSUME NEW u \in Users, NEW a \in Audits, NEW edit \in GateEdit, Submit(u, a, edit)
        PROVE  OutcomeInv'
    BY <1>0, <2>1, <2>4, SubmitOutcome
  <2>5. \/ \E u \in Users, a \in Audits, edit \in GateEdit : Submit(u, a, edit)
        \/ \E u \in Users : Commit(u)
        \/ \E a \in Audits : RequestRevert(a)
    BY <1>4, AuditUserSteps DEF TypeOK
  <2> QED BY <2>2, <2>3, <2>4, <2>5, Zenon
<1>5. CASE Crash
  BY <1>0, <1>5, CrashOutcome
<1>6. CASE UNCHANGED vars
  BY <1>0, <1>6, OutcomeFrame DEF vars, clusterVars, reconcilerVars, auditRecVars, approvalVars
<1> QED BY <1>1, <1>2, <1>3, <1>4, <1>5, <1>6 DEF Next

LEMMA OutcomeInvariant == Spec => [](TypeOK /\ OwnerInv /\ GateInv /\ OutcomeInv)
BY InitType, NextType, InitOwner, NextOwner, InitGate, NextGate, InitOutcome, NextOutcome,
   PTL DEF Spec

(* A verdict a client was told was recorded is never overtaken by the      *)
(* timeout: whatever resolveGate had cached when the deadline passed, a    *)
(* gate that expired has no decision.                                      *)
THEOREM ExpiryNeverOvertakes == Spec => []ExpiredUndecided
<1>1. OutcomeInv => ExpiredUndecided
  BY DEF OutcomeInv, GateRecordInv, Sound, ExpiredUndecided
<1> QED BY <1>1, OutcomeInvariant, PTL

(* A gate reads as Approved only after its actions ran and their results   *)
(* are on the record, through every conflict, lost answer and restart      *)
(* between releaseGate's two writes.                                       *)
THEOREM ApprovedMeansRecorded == Spec => []ApprovedIsRecorded
<1>1. OutcomeInv => ApprovedIsRecorded
  BY DEF OutcomeInv, GateRecordInv, Sound, ApprovedIsRecorded
<1> QED BY <1>1, OutcomeInvariant, PTL

-----------------------------------------------------------------------------
(* What a step may do to a record, as an approver sees it: one of seven    *)
(* things, whoever takes the step and however old the copy it writes.      *)

Owned(new, rec) == new.uid = rec.uid /\ new.gated = rec.gated
Untouched(new, rec) == Owned(new, rec) /\ new.expires = rec.expires

Makes(new, rec) ==
  /\ rec.uid = 0 /\ new.phase = "" /\ new.decision = "" /\ Trail(new) = {}

Quiet(new, rec) ==
  /\ Untouched(new, rec)
  /\ new.phase = rec.phase /\ new.decision = rec.decision /\ Trail(new) = Trail(rec)

OpensGate(new, rec) ==
  /\ Untouched(new, rec)
  /\ rec.phase = "" /\ new.phase = "Pending"
  /\ new.decision = rec.decision /\ Trail(new) = Trail(rec)

Redescribes(new, rec) ==
  /\ Owned(new, rec)
  /\ new.phase = rec.phase /\ new.decision = rec.decision /\ Trail(new) = Trail(rec)

Decides(a, new, rec) ==
  /\ Owned(new, rec)
  /\ rec.phase = "Pending" /\ new.phase = "Pending" /\ Trail(new) = Trail(rec)
  /\ a \notin rewritten => Trail(rec) = {}
  /\ rec.decision = "" /\ new.decision \in {"Approved", "Denied"}

Records(a, new, rec) ==
  /\ Untouched(new, rec)
  /\ rec.phase = "Pending" /\ new.phase = "Pending" /\ new.decision = rec.decision
  /\ \/ /\ Trail(new) = Trail(rec) \cup {"released"}
        /\ heldRuns[a] > 0 /\ rec.decision = "Approved"
        /\ a \notin rewritten => "skipped" \notin Trail(rec)
     \/ /\ Trail(new) = Trail(rec) \cup {"skipped"}
        /\ Excused(rec, now, policyCache)

Closes(a, new, rec) ==
  /\ Untouched(new, rec)
  /\ rec.phase = "Pending" /\ new.decision = rec.decision /\ Trail(new) = Trail(rec)
  /\ a \notin rewritten => ("skipped" \in Trail(rec) <=> new.phase # "Approved")
  /\ \/ new.phase = "Approved" /\ rec.decision = "Approved" /\ "released" \in Trail(rec)
     \/ new.phase = "Denied" /\ rec.decision # "" /\ Excused(rec, now, policyCache)
     \/ /\ new.phase = "Expired" /\ rec.decision = "" /\ "released" \notin Trail(rec)
        /\ Excused(rec, now, policyCache)

Visible(a, new) ==
  \/ UNCHANGED rewritten /\ \/ Makes(new, audit[a])
                            \/ Quiet(new, audit[a])
                            \/ OpensGate(new, audit[a])
                            \/ Decides(a, new, audit[a]) /\ Untouched(new, audit[a])
                            \/ Records(a, new, audit[a])
                            \/ Closes(a, new, audit[a])
  \/ /\ rewritten' = rewritten \cup {a}
     /\ Decides(a, new, audit[a]) \/ Redescribes(new, audit[a])

(* Who rewrites a gate: a client. *)
LEMMA Rewriters ==
  ASSUME [Next]_vars
  PROVE  UNCHANGED rewritten \/ \E u \in Users : Commit(u)
<1>1. CASE Clock \/ Informer \/ PolicyUser \/ PolicyStep \/ AuditStep
  BY <1>1, Zenon DEF Clock, Informer, PolicyUser, ClusterFrame, UserFrame, PolicyStep,
     PolicyFrame, AuditStep, AuditFrame, approvalVars
<1>2. CASE AuditUser
  BY <1>2, Zenon DEF AuditUser, Submit, RequestRevert
<1>3. CASE Crash \/ UNCHANGED vars
  BY <1>3 DEF Crash, vars, approvalVars
<1> QED BY <1>1, <1>2, <1>3 DEF Next

(* A rewritten gate is a written one. *)
LEMMA SilentSteps ==
  ASSUME TypeOK, [Next]_vars, UNCHANGED audit
  PROVE  UNCHANGED rewritten
<1>1. ASSUME NEW u \in Users, Commit(u) PROVE UNCHANGED rewritten
  <2>1. req[u].a \in Audits /\ req[u].edit \in GateEdit
    BY <1>1 DEF Commit, TypeOK, ApprovalTypeOK
  <2> DEFINE a == req[u].a
             e == req[u].edit
  <2>2. audit[a] \in AuditObj
    BY <2>1 DEF TypeOK, ClusterTypeOK
  <2>3. CASE audit[a].live /\ u \in auditFresh[a]
    <3>1. /\ audit' = [audit EXCEPT ![a] = WithGate(audit[a], e)]
          /\ rewritten' = IF Rewriting(audit[a], e) THEN rewritten \cup {a} ELSE rewritten
      BY <1>1, <2>3 DEF Commit
    <3>2. WithGate(audit[a], e) = audit[a]
      BY <2>1, <3>1 DEF TypeOK, ClusterTypeOK
    <3>3. e.desc \in Description
      BY <2>1 DEF GateEdit
    <3> HIDE DEF a, e
    <3>4. /\ e.desc.index = audit[a].index /\ e.desc.held = audit[a].held
          /\ e.desc.targets = audit[a].targets /\ e.desc.expires = audit[a].expires
      BY <2>2, <3>2 DEF WithGate, AuditObj
    <3>5. e.desc = DescriptionOf(audit[a])
      BY <3>3, <3>4 DEF Description, DescriptionOf
    <3> QED BY <3>1, <3>5 DEF Rewriting
  <2>4. CASE ~(audit[a].live /\ u \in auditFresh[a])
    BY <1>1, <2>4 DEF Commit
  <2> QED BY <2>3, <2>4
<1> QED BY <1>1, Rewriters

LEMMA RecordsVisibly ==
  ASSUME TypeOK, GateInv, OutcomeInv, NEW r \in Outcomes, RecordHeld(r), ~UNCHANGED audit
  PROVE  \E a \in Audits, new \in AuditObj :
           audit' = [audit EXCEPT ![a] = new] /\ Records(a, new, audit[a])
<1>1. /\ ar.a \in Audits
      /\ Closing(ar.phase, ar.copy, audit[ar.a], heldRuns[ar.a], now, policyCache)
      /\ Current("held", ar.phase, ar.copy, audit[ar.a])
      /\ ar.a \notin rewritten => Straight(ar.phase, ar.copy)
  BY RecordHeldEffect
<1>2. PICK new \in AuditObj :
        /\ audit' = [audit EXCEPT ![ar.a] = new]
        /\ new.uid = audit[ar.a].uid /\ SameGate(new, audit[ar.a])
        /\ new.decision = audit[ar.a].decision /\ new.phase = audit[ar.a].phase
        /\ new.recs = ar.copy.recs
  BY RecordHeldEffect
<1>3. Trail(new) = Trail(ar.copy)
  BY <1>2, TrailOf
<1>4. audit[ar.a].phase = "Pending"
  BY <1>1 DEF Closing, Current
<1>5. CASE ar.phase = "Approved"
  <2>1. Trail(new) = Trail(audit[ar.a]) \cup {"released"}
    BY <1>1, <1>3, <1>5 DEF Current
  <2>2. ar.a \notin rewritten => "skipped" \notin Trail(audit[ar.a])
    BY <1>1, <1>3, <1>5, <2>1 DEF Straight
  <2>3. heldRuns[ar.a] > 0 /\ audit[ar.a].decision = "Approved"
    BY <1>1, <1>5 DEF Closing, Current
  <2> QED BY <1>1, <1>2, <1>4, <2>1, <2>2, <2>3 DEF Records, Untouched, Owned, SameGate
<1>6. CASE ar.phase # "Approved"
  <2>1. Trail(new) = Trail(audit[ar.a]) \cup {"skipped"}
    BY <1>1, <1>3, <1>6 DEF Current
  <2>2. Excused(audit[ar.a], now, policyCache)
    BY <1>1, <1>6 DEF Closing, Current, Excused, SameGate
  <2> QED BY <1>1, <1>2, <1>4, <2>1, <2>2 DEF Records, Untouched, Owned, SameGate
<1> QED BY <1>5, <1>6

LEMMA ClosesVisibly ==
  ASSUME TypeOK, GateInv, OutcomeInv, NEW r \in Outcomes, SetPhase(r), ~UNCHANGED audit
  PROVE  \E a \in Audits, new \in AuditObj :
           audit' = [audit EXCEPT ![a] = new] /\ Closes(a, new, audit[a])
<1>1. /\ ar.a \in Audits
      /\ Closing(ar.phase, ar.copy, audit[ar.a], heldRuns[ar.a], now, policyCache)
      /\ Current("phase", ar.phase, ar.copy, audit[ar.a])
      /\ ar.a \notin rewritten => Straight(ar.phase, ar.copy)
  BY SetPhaseEffect
<1>2. PICK new \in AuditObj :
        /\ audit' = [audit EXCEPT ![ar.a] = new]
        /\ new.uid = audit[ar.a].uid /\ SameGate(new, audit[ar.a])
        /\ new.decision = audit[ar.a].decision /\ new.recs = audit[ar.a].recs
        /\ new.phase = ar.phase
  BY SetPhaseEffect
<1>3. Trail(new) = Trail(audit[ar.a])
  BY <1>2, TrailOf
<1>4. audit[ar.a].phase = "Pending" /\ Trail(ar.copy) = Trail(audit[ar.a])
  BY <1>1 DEF Closing, Current
<1>5. ar.a \notin rewritten => ("skipped" \in Trail(audit[ar.a]) <=> ar.phase # "Approved")
  BY <1>1, <1>4 DEF Straight
<1>6. ar.phase \in {"Approved", "Denied", "Expired"}
  BY OutcomeTypes DEF SetPhase
<1>7. CASE ar.phase = "Approved"
  <2>1. audit[ar.a].decision = "Approved" /\ "released" \in Trail(audit[ar.a])
    BY <1>1, <1>4, <1>7 DEF Closing, Current
  <2> QED BY <1>1, <1>2, <1>3, <1>4, <1>5, <1>7, <2>1 DEF Closes, Untouched, Owned, SameGate
<1>8. CASE ar.phase # "Approved"
  <2>1. Excused(audit[ar.a], now, policyCache)
    BY <1>1, <1>4, <1>8 DEF Closing, Current, Excused, SameGate
  <2>2. /\ ar.phase = "Denied" => audit[ar.a].decision # ""
        /\ ar.phase = "Expired" => audit[ar.a].decision = ""
    BY <1>1 DEF Closing, Current
  <2>3. audit[ar.a].decision = "" => "released" \notin Trail(audit[ar.a])
    BY <1>1 DEF OutcomeInv, GateRecordInv, Sound, GateInv, RecordInv
  <2> QED BY <1>1, <1>2, <1>3, <1>4, <1>5, <1>6, <1>8, <2>1, <2>2, <2>3
          DEF Closes, Untouched, Owned, SameGate
<1> QED BY <1>7, <1>8

LEMMA VisibleWrites ==
  ASSUME TypeOK, OwnerInv, GateInv, OutcomeInv, [Next]_vars, ~UNCHANGED audit
  PROVE  \E a \in Audits, new \in AuditObj :
           audit' = [audit EXCEPT ![a] = new] /\ Visible(a, new)
<1>1. ASSUME NEW a \in Audits, NEW r \in Outcomes, WriteAudit(a, r) \/ WriteGatedAudit(a, r)
      PROVE  audit' = [audit EXCEPT ![a] = NewRecord] /\ NewRecord \in AuditObj
             /\ Makes(NewRecord, audit[a])
  <2>1. pr.pc = "create" /\ CreateRecord(a, r)
    BY <1>1 DEF WriteAudit, WriteGatedAudit
  <2>2. audit[a].uid = 0 /\ audit' = [audit EXCEPT ![a] = NewRecord]
    BY <2>1 DEF CreateRecord
  <2> QED BY <2>1, <2>2, NewRecordSound DEF Makes
<1>2. ASSUME \/ \E a \in Audits : Sweep(a) \/ RequestRevert(a)
             \/ \E r \in Outcomes : SetReverted(r)
      PROVE  \E a \in Audits, new \in AuditObj :
               audit' = [audit EXCEPT ![a] = new] /\ Quiet(new, audit[a])
  <2>1. PICK a \in Audits, new \in AuditObj :
          /\ audit' = [audit EXCEPT ![a] = new]
          /\ new.uid = audit[a].uid /\ SameGate(new, audit[a])
          /\ new.decision = audit[a].decision /\ new.phase = audit[a].phase
          /\ new.recs = audit[a].recs
    BY <1>2, QuietWriteEffect
  <2>2. Trail(new) = Trail(audit[a])
    BY <2>1, TrailOf
  <2> QED BY <2>1, <2>2 DEF Quiet, Untouched, Owned, SameGate
<1>3. ASSUME NEW r \in Outcomes, MarkPending(r)
      PROVE  \E a \in Audits, new \in AuditObj :
               audit' = [audit EXCEPT ![a] = new] /\ OpensGate(new, audit[a])
  <2>1. pr.a \in Audits /\ audit[pr.a].phase = ""
    BY <1>3, MarkPendingEffect
  <2>2. PICK new \in AuditObj :
          /\ audit' = [audit EXCEPT ![pr.a] = new]
          /\ new.uid = audit[pr.a].uid /\ SameGate(new, audit[pr.a])
          /\ new.decision = audit[pr.a].decision /\ new.recs = audit[pr.a].recs
          /\ new.phase = "Pending"
    BY <1>3, MarkPendingEffect
  <2>3. Trail(new) = Trail(audit[pr.a])
    BY <2>2, TrailOf
  <2> QED BY <2>1, <2>2, <2>3 DEF OpensGate, Untouched, Owned, SameGate
<1>4. ASSUME NEW u \in Users, Commit(u)
      PROVE  \E a \in Audits, new \in AuditObj :
               audit' = [audit EXCEPT ![a] = new] /\ Visible(a, new)
  <2>1. PICK a \in Audits, new \in AuditObj :
          /\ audit' = [audit EXCEPT ![a] = new]
          /\ new.uid = audit[a].uid /\ new.gated = audit[a].gated
          /\ new.recs = audit[a].recs /\ new.phase = audit[a].phase
          /\ \/ rewritten' = rewritten /\ SameGate(new, audit[a])
             \/ rewritten' = rewritten \cup {a}
          /\ \/ new.decision = audit[a].decision
             \/ /\ audit[a].decision = "" /\ new.decision \in {"Approved", "Denied"}
                /\ audit[a].phase = "Pending"
                /\ a \notin rewritten => Trail(audit[a]) = {}
    BY <1>4, CommitEffect
  <2>2. Trail(new) = Trail(audit[a])
    BY <2>1, TrailOf
  <2>3. Redescribes(new, audit[a]) \/ Decides(a, new, audit[a])
    BY <2>1, <2>2 DEF Redescribes, Decides, Owned
  <2>4. ASSUME SameGate(new, audit[a])
        PROVE  Quiet(new, audit[a]) \/ (Decides(a, new, audit[a]) /\ Untouched(new, audit[a]))
    BY <2>3, <2>4 DEF Redescribes, Decides, Quiet, Untouched, SameGate
  <2> QED BY <2>1, <2>3, <2>4 DEF Visible
<1>5. CASE \E u \in Users : Commit(u)
  BY <1>4, <1>5, Zenon
<1>6. CASE UNCHANGED rewritten
  <2>1. CASE \E a \in Audits, r \in Outcomes : WriteAudit(a, r) \/ WriteGatedAudit(a, r)
    BY <1>1, <1>6, <2>1, Zenon DEF Visible
  <2>2. CASE \E r \in Outcomes : RecordHeld(r)
    BY <1>6, <2>2, RecordsVisibly, Zenon DEF Visible
  <2>3. CASE \E r \in Outcomes : SetPhase(r)
    BY <1>6, <2>3, ClosesVisibly, Zenon DEF Visible
  <2>4. CASE \E r \in Outcomes : MarkPending(r)
    BY <1>3, <1>6, <2>4, Zenon DEF Visible
  <2>5. CASE \/ \E a \in Audits : Sweep(a) \/ RequestRevert(a)
             \/ \E r \in Outcomes : SetReverted(r)
    BY <1>2, <1>6, <2>5, Zenon DEF Visible
  <2> QED BY <1>5, <2>1, <2>2, <2>3, <2>4, <2>5, AuditWriters
<1> QED BY <1>5, <1>6, Rewriters

LEMMA PhasesFinal ==
  ASSUME TypeOK, OwnerInv, GateInv, OutcomeInv, [Next]_vars, NEW a \in Audits,
         audit[a].phase \in {"Approved", "Denied", "Expired"}
  PROVE  audit'[a].phase = audit[a].phase
<1>1. CASE UNCHANGED audit
  BY <1>1
<1>2. CASE ~UNCHANGED audit
  <2>1. PICK b \in Audits, new \in AuditObj :
          audit' = [audit EXCEPT ![b] = new] /\ Visible(b, new)
    BY <1>2, VisibleWrites
  <2>2. audit[b].uid = 0 => audit[b].phase = ""
    BY DEF OutcomeInv, GateRecordInv, Sound
  <2>3. a = b => new.phase = audit[a].phase
    BY <2>1, <2>2
       DEF Visible, Makes, Quiet, OpensGate, Decides, Records, Closes, Redescribes
  <2> QED BY <2>1, <2>3, OutcomeTypes
<1> QED BY <1>1, <1>2

(* A gate that left phase Pending never opens again and never changes its  *)
(* outcome: no retry, stale copy or late request writes over it.           *)
THEOREM OutcomeIsFinal == Spec => PhaseFinal
<1> DEFINE Kept == \A a \in Audits : audit[a].phase \in {"Approved", "Denied", "Expired"} =>
                     audit'[a].phase = audit[a].phase
<1>1. TypeOK /\ OwnerInv /\ GateInv /\ OutcomeInv /\ [Next]_vars => [Kept]_vars
  BY PhasesFinal
<1> QED BY <1>1, OutcomeInvariant, PTL DEF Spec, PhaseFinal

-----------------------------------------------------------------------------
(* The refinement.  Each of the seven things is a step of ApprovalGate; a  *)
(* step that writes no record lets time pass, a policy go, or runs the     *)
(* held actions of an approved gate.                                       *)

LEMMA StageOf ==
  /\ Stage[""] = "none" /\ Stage["Pending"] = "open" /\ Stage["Approved"] = "approved"
  /\ Stage["Denied"] = "denied" /\ Stage["Expired"] = "expired"
BY DEF Stage, Phases

(* Policies do not come back: a new one of the same name has a new uid. *)
LEMMA PolicyMoves ==
  ASSUME TypeOK, [Next]_vars
  PROVE  \/ policy'.uid = policy.uid /\ (policy'.live => policy.live)
         \/ policy'.uid = policy.uid + 1
<1>0. policy \in PolicyObj
  BY DEF TypeOK, ClusterTypeOK
<1>1. CASE UNCHANGED policy
  BY <1>1
<1>2. CASE EditPolicy \/ DeletePolicy \/ RecreatePolicy
  BY <1>0, <1>2 DEF EditPolicy, DeletePolicy, RecreatePolicy, PolicyObj
<1>3. ASSUME NEW r \in Outcomes, Requeue(r) \/ StartCooldown(r)
      PROVE  policy'.uid = policy.uid /\ policy'.live = policy.live
  <2>1. \E copy, content, fresh : StorePolicy(copy, content, fresh, r)
    BY <1>3, Zenon DEF Requeue, StartCooldown, UpdatePolicyStatus
  <2> QED BY <2>1, StorePolicyEffect
<1>4. \/ UNCHANGED policy
      \/ EditPolicy \/ DeletePolicy \/ RecreatePolicy
      \/ \E r \in Outcomes : Requeue(r) \/ StartCooldown(r)
  <2>1. CASE Clock \/ Informer \/ PolicyUser \/ Crash \/ UNCHANGED vars
    BY <2>1 DEF Clock, Tick, Informer, SyncPolicy, SyncAudit, PolicyUser, Crash, vars, clusterVars
  <2>2. CASE PolicyStep
    BY <2>2 DEF PolicyStep, ForgetPolicy, AwaitApproval, CoolDown, RateLimited, EvaluationFails,
       Evaluate, ResolveFails, RunPipeline, WriteAudit, WriteGatedAudit, MarkPending, clusterVars
  <2>3. CASE AuditStep
    BY <2>3 DEF AuditStep, Sweep, DenyGate, ExpireGate, CloseGate, ReleaseGate, RecordHeld,
       SetPhase, RefetchPolicy, Revert, SetReverted
  <2>4. CASE AuditUser
    BY <2>4 DEF AuditUser, Submit, Commit, RequestRevert
  <2> QED BY <2>1, <2>2, <2>3, <2>4 DEF Next
<1> QED BY <1>1, <1>2, <1>3, <1>4

(* A step that writes a record does nothing else an approver could see. *)
LEMMA WriteAlone ==
  ASSUME [Next]_vars, ~UNCHANGED audit
  PROVE  UNCHANGED <<now, policy, policyCache, heldRuns>>
<1>1. CASE Clock \/ Informer \/ PolicyUser \/ Crash \/ UNCHANGED vars
  BY <1>1 DEF Clock, Tick, Informer, SyncPolicy, SyncAudit, PolicyUser, EditPolicy, DeletePolicy,
     RecreatePolicy, Crash, vars, clusterVars
<1>2. CASE PolicyStep
  <2>1. UNCHANGED auditRecVars
    BY <1>2, Zenon DEF PolicyStep, PolicyFrame
  <2>2. UNCHANGED <<now, policy, policyCache>>
    BY <1>2 DEF PolicyStep, ForgetPolicy, AwaitApproval, CoolDown, RateLimited, EvaluationFails,
       Evaluate, ResolveFails, RunPipeline, WriteAudit, WriteGatedAudit, MarkPending, Requeue,
       clusterVars
  <2> QED BY <2>1, <2>2 DEF auditRecVars
<1>3. CASE AuditStep
  BY <1>3 DEF AuditStep, Sweep, DenyGate, ExpireGate, CloseGate, ReleaseGate, RecordHeld,
     SetPhase, StartCooldown, RefetchPolicy, Revert, SetReverted, auditRecVars
<1>4. CASE AuditUser
  BY <1>4 DEF AuditUser, ApprovalFrame, auditRecVars, Submit, Commit, RequestRevert
<1> QED BY <1>1, <1>2, <1>3, <1>4 DEF Next

(* What the promise calls due and orphaned. *)
LEMMA GoneIsOrphaned ==
  ASSUME TypeOK, OwnerInv, NEW a \in Audits, audit[a].uid # 0,
         ~policyCache.live \/ policyCache.uid # audit[a].uid
  PROVE  Orphaned(a)
<1>1. /\ audit[a].uid <= policyCache.uid /\ policyCache.uid <= policy.uid
      /\ policy.live /\ policyCache.uid = policy.uid => policyCache.live
  BY DEF OwnerInv, CacheBehind
<1>2. audit[a].uid \in Nat /\ policyCache.uid \in Nat /\ policy.uid \in Nat
  BY OwnerTypes
<1> QED BY <1>1, <1>2 DEF Orphaned

LEMMA DueOrOrphaned ==
  ASSUME TypeOK, OwnerInv, OutcomeInv, NEW a \in Audits, audit[a].phase # "",
         Excused(audit[a], now, policyCache)
  PROVE  \/ audit[a].decision = "" /\ audit[a].gated /\ now >= audit[a].expires
         \/ audit[a].decision = "Denied"
         \/ audit[a].decision = "Approved" /\ Orphaned(a)
<1>1. audit[a].gated /\ audit[a].uid # 0
  BY DEF OutcomeInv, GateRecordInv, Sound
<1> QED BY <1>1, GoneIsOrphaned DEF Excused

LEMMA ElapseStep ==
  ASSUME TypeOK, OwnerInv, [Next]_vars, UNCHANGED rewritten,
         \A a \in Audits :
           /\ audit'[a].phase = audit[a].phase /\ audit'[a].decision = audit[a].decision
           /\ Trail(audit'[a]) = Trail(audit[a])
           /\ (heldRuns'[a] > 0) <=> (heldRuns[a] > 0)
           /\ audit[a].gated => audit'[a].gated /\ audit'[a].expires = audit[a].expires
           /\ audit[a].uid # 0 => audit'[a].uid = audit[a].uid
  PROVE  Promise!Elapse
<1>1. ASSUME NEW a \in Audits, audit[a].gated, now >= audit[a].expires
      PROVE  audit'[a].gated /\ now' >= audit'[a].expires
  <2>1. audit[a].expires \in Nat /\ now \in Nat /\ now' \in Nat
    <3>1. audit[a].expires \in Nat
      BY OutcomeTypes DEF AuditObj
    <3>2. now \in Nat
      BY ClusterAssumption DEF TypeOK, ClusterTypeOK, Time
    <3>3. TypeOK'
      BY NextType
    <3>4. now' \in Nat
      BY <3>3, ClusterAssumption DEF TypeOK, ClusterTypeOK, Time
    <3> QED BY <3>1, <3>2, <3>4
  <2>2. now' >= now
    BY NextElapsed
  <2>3. now' >= audit[a].expires
    BY <1>1, <2>1, <2>2
  <2> QED BY <1>1, <2>3
<1>2. ASSUME NEW a \in Audits, Orphaned(a)
      PROVE  Orphaned(a)'
  <2>1. audit[a].uid # 0 /\ audit'[a].uid = audit[a].uid
    BY <1>2 DEF Orphaned
  <2>2. audit[a].uid <= policy.uid
    BY OwnerTypes DEF OwnerInv, CacheBehind
  <2>3. audit[a].uid \in Nat /\ policy.uid \in Nat
    BY OwnerTypes
  <2> QED BY <1>2, <2>1, <2>2, <2>3, PolicyMoves DEF Orphaned
<1>3. /\ [a \in Audits |-> Stage[audit[a].phase]]' = [a \in Audits |-> Stage[audit[a].phase]]
      /\ [a \in Audits |-> audit[a].decision]' = [a \in Audits |-> audit[a].decision]
      /\ [a \in Audits |-> Trail(audit[a])]' = [a \in Audits |-> Trail(audit[a])]
      /\ [a \in Audits |-> heldRuns[a] > 0]' = [a \in Audits |-> heldRuns[a] > 0]
      /\ UNCHANGED rewritten
  OBVIOUS
<1>4. /\ [a \in Audits |-> audit[a].gated /\ now >= audit[a].expires]' \in [Audits -> BOOLEAN]
      /\ [a \in Audits |-> Orphaned(a)]' \in [Audits -> BOOLEAN]
  BY DEF Orphaned
<1> QED BY <1>1, <1>2, <1>3, <1>4 DEF Promise!Elapse

LEMMA WriteStep ==
  ASSUME TypeOK, OwnerInv, GateInv, OutcomeInv, [Next]_vars, ~UNCHANGED audit
  PROVE  Promise!Next
<1>1. PICK a \in Audits, new \in AuditObj :
        audit' = [audit EXCEPT ![a] = new] /\ Visible(a, new)
  BY VisibleWrites
<1>2. UNCHANGED <<now, policy, policyCache, heldRuns>>
  BY WriteAlone
<1>3. audit'[a] = new /\ \A b \in Audits : b # a => audit'[b] = audit[b]
  BY <1>1, OutcomeTypes
<1>4. CASE UNCHANGED rewritten /\ (Makes(new, audit[a]) \/ Quiet(new, audit[a]))
  <2>1. audit[a].uid = 0 => /\ audit[a].phase = "" /\ ~audit[a].gated /\ audit[a].decision = ""
                            /\ Trail(audit[a]) = {}
    BY TrailEmpty DEF OutcomeInv, GateRecordInv, Sound, GateInv, RecordInv
  <2>2. /\ new.phase = audit[a].phase /\ new.decision = audit[a].decision
        /\ Trail(new) = Trail(audit[a])
        /\ audit[a].gated => new.gated /\ new.expires = audit[a].expires
        /\ audit[a].uid # 0 => new.uid = audit[a].uid
    BY <1>4, <2>1 DEF Makes, Quiet, Untouched, Owned
  <2>3. Promise!Elapse
    BY <1>2, <1>3, <1>4, <2>2, ElapseStep
  <2> QED BY <2>3 DEF Promise!Next
<1> DEFINE Due == [b \in Audits |-> audit[b].gated /\ now >= audit[b].expires]
<1>5. ASSUME Owned(new, audit[a])
      PROVE  /\ [b \in Audits |-> heldRuns[b] > 0]' = [b \in Audits |-> heldRuns[b] > 0]
             /\ [b \in Audits |-> Orphaned(b)]' = [b \in Audits |-> Orphaned(b)]
  <2>1. ASSUME NEW b \in Audits PROVE audit'[b].uid = audit[b].uid
    BY <1>3, <1>5 DEF Owned
  <2> QED BY <1>2, <2>1 DEF Orphaned
<1>6. ASSUME UNCHANGED rewritten, Untouched(new, audit[a])
      PROVE  Owned(new, audit[a]) /\ Due' = Due /\ UNCHANGED rewritten
  <2>1. ASSUME NEW b \in Audits
        PROVE  audit'[b].gated = audit[b].gated /\ audit'[b].expires = audit[b].expires
    BY <1>3, <1>6 DEF Untouched, Owned
  <2> QED BY <1>2, <1>6, <2>1 DEF Untouched
<1>7. ASSUME rewritten' = rewritten \cup {a}
      PROVE  Promise!Redescribe(a)
  <2> DEFINE d == new.gated /\ now >= new.expires
  <2>1. Due' = [Due EXCEPT ![a] = d]
    <3>1. ASSUME NEW b \in Audits
          PROVE  (audit'[b].gated /\ now' >= audit'[b].expires)
                   = (IF b = a THEN d ELSE audit[b].gated /\ now >= audit[b].expires)
      <4>1. CASE b = a
        BY <1>2, <1>3, <4>1
      <4>2. CASE b # a
        BY <1>2, <1>3, <4>2
      <4> QED BY <4>1, <4>2
    <3> QED BY <3>1, Zenon
  <2>2. d \in BOOLEAN
    OBVIOUS
  <2> HIDE DEF d, Due
  <2>3. \E e \in BOOLEAN : Due' = [Due EXCEPT ![a] = e]
    BY <2>1, <2>2
  <2> QED BY <1>7, <2>3 DEF Promise!Redescribe, Due
<1>8. ASSUME new.phase = audit[a].phase
      PROVE  [b \in Audits |-> Stage[audit[b].phase]]' = [b \in Audits |-> Stage[audit[b].phase]]
  BY <1>3, <1>8
<1>9. ASSUME new.decision = audit[a].decision
      PROVE  [b \in Audits |-> audit[b].decision]' = [b \in Audits |-> audit[b].decision]
  BY <1>3, <1>9
<1>10. ASSUME Trail(new) = Trail(audit[a])
      PROVE  [b \in Audits |-> Trail(audit[b])]' = [b \in Audits |-> Trail(audit[b])]
  BY <1>3, <1>10
<1>11. [b \in Audits |-> Stage[audit[b].phase]]'
        = [[b \in Audits |-> Stage[audit[b].phase]] EXCEPT ![a] = Stage[new.phase]]
  BY <1>3
<1>12. CASE UNCHANGED rewritten /\ OpensGate(new, audit[a])
  <2>1. /\ Untouched(new, audit[a]) /\ Stage[audit[a].phase] = "none"
        /\ Stage[new.phase] = "open" /\ new.decision = audit[a].decision
        /\ Trail(new) = Trail(audit[a])
    BY <1>12, StageOf, Zenon DEF OpensGate
  <2>2. [b \in Audits |-> Stage[audit[b].phase]][a] = "none"
    BY <2>1
  <2>3. Promise!Open(a)
    BY <1>5, <1>6, <1>9, <1>10, <1>11, <1>12, <2>1, <2>2, Zenon DEF Promise!Open
  <2> QED BY <2>3 DEF Promise!Next
<1>13. CASE /\ Decides(a, new, audit[a])
            /\ \/ UNCHANGED rewritten /\ Untouched(new, audit[a])
               \/ rewritten' = rewritten \cup {a}
  <2>1. [b \in Audits |-> audit[b].decision]'
          = [[b \in Audits |-> audit[b].decision] EXCEPT ![a] = new.decision]
    BY <1>3
  <2>2. Promise!Redescribe(a) \/ (Due' = Due /\ UNCHANGED rewritten)
    BY <1>13, <1>6, <1>7
  <2>3. /\ [b \in Audits |-> Stage[audit[b].phase]][a] = "open"
        /\ [b \in Audits |-> audit[b].decision][a] = ""
        /\ [b \in Audits |-> Trail(audit[b])][a] = {} \/ a \in rewritten
    BY <1>13, StageOf DEF Decides
  <2>4. /\ new.decision \in {"Approved", "Denied"} /\ Owned(new, audit[a])
        /\ new.phase = audit[a].phase /\ Trail(new) = Trail(audit[a])
    BY <1>13 DEF Decides
  <2>5. Promise!Decide(a)
    BY <1>5, <1>8, <1>10, <2>1, <2>2, <2>3, <2>4, Zenon DEF Promise!Decide, Due
  <2> QED BY <2>5 DEF Promise!Next
<1>14. CASE Redescribes(new, audit[a]) /\ rewritten' = rewritten \cup {a}
  <2>1. /\ Owned(new, audit[a]) /\ new.phase = audit[a].phase
        /\ new.decision = audit[a].decision /\ Trail(new) = Trail(audit[a])
    BY <1>14 DEF Redescribes
  <2>2. Promise!Rewrite(a)
    BY <1>5, <1>7, <1>8, <1>9, <1>10, <1>14, <2>1, Zenon DEF Promise!Rewrite
  <2> QED BY <2>2 DEF Promise!Next
<1>15. CASE UNCHANGED rewritten /\ Records(a, new, audit[a])
  <2>1. PICK kind \in {"released", "skipped"} :
          /\ Trail(new) = Trail(audit[a]) \cup {kind}
          /\ kind = "released" => /\ heldRuns[a] > 0 /\ audit[a].decision = "Approved"
                                  /\ a \notin rewritten => "skipped" \notin Trail(audit[a])
          /\ kind = "skipped" => Excused(audit[a], now, policyCache)
    BY <1>15 DEF Records
  <2>2. Promise!MayRecord(a, kind)
    BY <1>15, <2>1, DueOrOrphaned DEF Records, Promise!MayRecord
  <2>3. [b \in Audits |-> Trail(audit[b])]'
          = [[b \in Audits |-> Trail(audit[b])] EXCEPT ![a] = @ \cup {kind}]
    BY <1>3, <2>1
  <2>4. Promise!Record(a)
    BY <1>5, <1>6, <1>8, <1>9, <1>15, <2>2, <2>3, StageOf DEF Records, Promise!Record, Due
  <2> QED BY <2>4 DEF Promise!Next
<1>16. CASE UNCHANGED rewritten /\ Closes(a, new, audit[a])
  <2>1. Stage[new.phase] \in {"approved", "denied", "expired"}
    BY <1>16, StageOf DEF Closes
  <2>2. Promise!Outcome(a, Stage[new.phase])
    BY <1>16, DueOrOrphaned, StageOf DEF Closes, Promise!Outcome
  <2>3. Promise!Close(a)
    BY <1>5, <1>6, <1>9, <1>10, <1>11, <1>16, <2>1, <2>2, StageOf
       DEF Closes, Promise!Close, Due
  <2> QED BY <2>3 DEF Promise!Next
<1> QED BY <1>1, <1>4, <1>12, <1>13, <1>15, <1>16, <1>14 DEF Visible

LEMMA ReleaseStep ==
  ASSUME TypeOK, OwnerInv, GateInv, OutcomeInv, [Next]_vars, NEW a \in Audits, ReleaseGate(a),
         UNCHANGED rewritten
  PROVE  Promise!Next
<1>1. /\ UNCHANGED <<audit, now, policy>>
      /\ heldRuns' = [heldRuns EXCEPT ![a] = OnceMore(heldRuns[a])] /\ heldRuns'[a] > 0
      /\ auditCache[a].decision = "Approved"
      /\ policyCache.live /\ policyCache.uid = audit[a].uid /\ audit[a].phase # ""
  BY ReleaseGateEffect
<1>2. \A b \in Audits : b # a => heldRuns'[b] = heldRuns[b]
  BY <1>1, OutcomeTypes
<1>3. CASE heldRuns[a] > 0
  <2>1. Promise!Elapse
    BY <1>1, <1>2, <1>3, ElapseStep
  <2> QED BY <2>1 DEF Promise!Next
<1>4. CASE ~(heldRuns[a] > 0)
  <2>1. audit[a].decision = "Approved"
    BY <1>1 DEF GateInv, RecordInv, Agree
  <2>2. /\ Sound(audit[a], heldRuns[a], now, policyCache)
        /\ a \notin rewritten => Plain(audit[a], now, policyCache)
    BY DEF OutcomeInv, GateRecordInv
  <2>3. /\ a \notin rewritten => "skipped" \notin Trail(audit[a])
        /\ "released" \notin Trail(audit[a])
    BY <1>1, <1>4, <2>1, <2>2 DEF Sound, Plain, Excused
  <2>4. audit[a].phase = "Pending"
    <3>1. audit[a].phase \in {"", "Pending", "Approved", "Denied", "Expired"}
      BY OutcomeTypes DEF AuditObj, Phases
    <3> QED BY <1>1, <2>1, <2>2, <2>3, <3>1 DEF Sound, Excused
  <2>5. [b \in Audits |-> heldRuns[b] > 0]'
          = [[b \in Audits |-> heldRuns[b] > 0] EXCEPT ![a] = TRUE]
    <3>1. ASSUME NEW b \in Audits
          PROVE  (heldRuns'[b] > 0) = (IF b = a THEN TRUE ELSE heldRuns[b] > 0)
      <4>1. heldRuns'[a] > 0
        BY <1>1
      <4> QED BY <1>2, <4>1
    <3>2. [[b \in Audits |-> heldRuns[b] > 0] EXCEPT ![a] = TRUE]
            = [b \in Audits |-> IF b = a THEN TRUE ELSE heldRuns[b] > 0]
      OBVIOUS
    <3> QED BY <3>1, <3>2, Zenon
  <2>6. /\ [b \in Audits |-> audit[b].gated /\ now >= audit[b].expires]'
             = [b \in Audits |-> audit[b].gated /\ now >= audit[b].expires]
        /\ [b \in Audits |-> Orphaned(b)]' = [b \in Audits |-> Orphaned(b)]
        /\ [b \in Audits |-> Stage[audit[b].phase]]' = [b \in Audits |-> Stage[audit[b].phase]]
        /\ [b \in Audits |-> audit[b].decision]' = [b \in Audits |-> audit[b].decision]
        /\ [b \in Audits |-> Trail(audit[b])]' = [b \in Audits |-> Trail(audit[b])]
        /\ UNCHANGED rewritten
    BY <1>1 DEF Orphaned
  <2>7. Promise!Run(a)
    BY <2>1, <2>3, <2>4, <2>5, <2>6, StageOf DEF Promise!Run
  <2> QED BY <2>7 DEF Promise!Next
<1> QED BY <1>3, <1>4

(* Who else runs held actions: nobody. *)
LEMMA HeldRunners ==
  ASSUME [Next]_vars
  PROVE  UNCHANGED <<heldRuns, heldRan>> \/ \E a \in Audits : ReleaseGate(a)
<1>1. CASE Clock \/ Informer \/ PolicyUser \/ PolicyStep
  BY <1>1, Zenon DEF Clock, Informer, PolicyUser, ClusterFrame, UserFrame, PolicyStep,
     PolicyFrame, auditRecVars
<1>2. CASE AuditStep
  BY <1>2 DEF AuditStep, Sweep, DenyGate, ExpireGate, CloseGate, RecordHeld,
     SetPhase, StartCooldown, RefetchPolicy, Revert, SetReverted, auditRecVars
<1>3. CASE AuditUser
  BY <1>3, Zenon DEF AuditUser, ApprovalFrame, auditRecVars
<1>4. CASE Crash \/ UNCHANGED vars
  BY <1>4 DEF Crash, vars, auditRecVars
<1> QED BY <1>1, <1>2, <1>3, <1>4 DEF Next

LEMMA PromiseInit == Init => Promise!Init
<1> SUFFICES ASSUME Init PROVE Promise!Init
  OBVIOUS
<1>1. ASSUME NEW a \in Audits
      PROVE  /\ audit[a].phase = "" /\ audit[a].decision = "" /\ ~audit[a].gated
             /\ audit[a].uid = 0 /\ audit[a].recs = <<>>
  BY DEF Init, ClusterInit, NoRecord
<1>2. ASSUME NEW a \in Audits PROVE Trail(audit[a]) = {}
  BY <1>1, TrailEmpty
<1>3. [a \in Audits |-> Stage[audit[a].phase]] = [a \in Audits |-> "none"]
  BY <1>1, StageOf
<1>4. [a \in Audits |-> audit[a].decision] = [a \in Audits |-> ""]
  BY <1>1
<1>5. [a \in Audits |-> Trail(audit[a])] = [a \in Audits |-> {}]
  BY <1>2
<1>6. [a \in Audits |-> heldRuns[a] > 0] = [a \in Audits |-> FALSE]
  <2>1. ASSUME NEW a \in Audits PROVE (heldRuns[a] > 0) = FALSE
    <3>1. heldRuns[a] = 0
      BY DEF Init, AuditRecInit
    <3> QED BY <3>1
  <2> QED BY <2>1, Zenon
<1>7. [a \in Audits |-> audit[a].gated /\ now >= audit[a].expires] = [a \in Audits |-> FALSE]
  <2>1. \A a \in Audits : (audit[a].gated /\ now >= audit[a].expires) = FALSE
    BY <1>1
  <2> QED BY <2>1, Zenon
<1>8. [a \in Audits |-> Orphaned(a)] = [a \in Audits |-> FALSE]
  <2>1. \A a \in Audits : Orphaned(a) = FALSE
    BY <1>1 DEF Orphaned
  <2> QED BY <2>1, Zenon
<1>9. rewritten = {}
  BY DEF Init, ApprovalInit
<1> QED BY <1>3, <1>4, <1>5, <1>6, <1>7, <1>8, <1>9, Zenon DEF Promise!Init

LEMMA PromiseNext ==
  TypeOK /\ OwnerInv /\ GateInv /\ OutcomeInv /\ [Next]_vars => [Promise!Next]_(Promise!gateVars)
<1> SUFFICES ASSUME TypeOK, OwnerInv, GateInv, OutcomeInv, [Next]_vars PROVE Promise!Next
  OBVIOUS
<1>1. CASE ~UNCHANGED audit
  BY <1>1, WriteStep
<1>2. CASE \E a \in Audits : ReleaseGate(a)
  <2>1. UNCHANGED rewritten
    BY <1>2, SilentSteps DEF ReleaseGate
  <2> QED BY <1>2, <2>1, ReleaseStep
<1>3. CASE UNCHANGED <<audit, heldRuns>>
  <2>1. Promise!Elapse
    BY <1>3, SilentSteps, ElapseStep
  <2> QED BY <2>1 DEF Promise!Next
<1> QED BY <1>1, <1>2, <1>3, HeldRunners

(* The operator implements the abstract gate: every step of the            *)
(* reconcilers, the webhook, the clients, the caches and the clock is a    *)
(* step an approver was promised or changes nothing he can see, for any    *)
(* number of records, users, faults, restarts and incarnations of the      *)
(* policy.                                                                 *)
THEOREM OperatorKeepsPromise == Spec => GatePromise
BY PromiseInit, PromiseNext, OutcomeInvariant, PTL DEF Spec, GatePromise, Promise!Spec

-----------------------------------------------------------------------------
(* What an approval releases.  The record names the actions a gate holds   *)
(* when it opens, the release runs the ones the policy has by then.  The   *)
(* invariant keeps the pipelines apart by the incarnation that had them:   *)
(* whatever carries a policy's uid, however old, has a pipeline that       *)
(* incarnation has had (VersionInv), and a record nobody rewrote has the   *)
(* index and the plugins of one of them (RecordScope).                     *)

OfPipeline(rec, p) ==
  rec.index \in 0..Len(p) /\ rec.held = HeldPlugins(p, rec.index)

Had(p) == p.actions \in versions[p.uid]

VersionInv ==
  /\ Had(policy) /\ Had(policyCache)
  /\ pr.pc # "idle" => Had(pr.pol)

(* Where a release may have started: at the recorded index, or, if a       *)
(* client rewrote it, anywhere.                                            *)
From(a) == IF a \in rewritten THEN 0 ELSE audit[a].index

RecordScope(a) ==
  /\ auditCache[a].uid # 0 => /\ auditCache[a].uid = audit[a].uid
                              /\ a \notin rewritten => SameGate(auditCache[a], audit[a])
  /\ a \notin rewritten /\ audit[a].gated =>
       \E p \in versions[audit[a].uid] : OfPipeline(audit[a], p)
  /\ heldRan[a] # {} => audit[a].gated /\ audit[a].uid # 0
  /\ \A x \in heldRan[a] : \E p \in versions[audit[a].uid] : x \in Behind(p, From(a))

ScopeInv == VersionInv /\ \A a \in Audits : RecordScope(a)

LEMMA InitScope == Init => ScopeInv
<1> SUFFICES ASSUME Init PROVE ScopeInv
  OBVIOUS
<1>1. policyCache = policy /\ pr.pc = "idle" /\ policy.uid = 1
  BY DEF Init, ClusterInit, ReconcilerInit, PrIdle
<1>2. versions[1] = {policy.actions}
  BY ClusterAssumption DEF Init
<1>3. ASSUME NEW a \in Audits
      PROVE  auditCache[a].uid = 0 /\ ~audit[a].gated /\ heldRan[a] = {}
  BY DEF Init, ClusterInit, NoRecord, AuditRecInit
<1>4. VersionInv
  BY <1>1, <1>2 DEF VersionInv, Had
<1>5. ASSUME NEW a \in Audits PROVE RecordScope(a)
  BY <1>3 DEF RecordScope
<1> QED BY <1>4, <1>5 DEF ScopeInv

(* Where the copies of a policy come from: the cache from the server, the  *)
(* working copy from the cache.  A status write leaves the spec alone, and *)
(* what a user writes is one more version of the incarnation he writes.    *)
SameSpec(p, q) == p.uid = q.uid /\ p.actions = q.actions

NewVersion ==
  /\ policy'.uid \in 1..MaxUid
  /\ versions' = [versions EXCEPT ![policy'.uid] = @ \cup {policy'.actions}]

LEMMA PolicySources ==
  ASSUME TypeOK, [Next]_vars
  PROVE  \/ /\ policyCache' = policy /\ UNCHANGED <<policy, versions>>
            /\ UNCHANGED pr \/ pr'.pc = "idle"
         \/ /\ UNCHANGED policyCache
            /\ \/ SameSpec(policy', policy) /\ UNCHANGED versions
               \/ NewVersion
            /\ \/ UNCHANGED pr \/ pr'.pc = "idle"
               \/ pr.pc # "idle" /\ SameSpec(pr'.pol, pr.pol)
               \/ SameSpec(pr'.pol, policyCache)
<1>0. policy \in PolicyObj /\ policyCache \in PolicyObj
  BY DEF TypeOK, ClusterTypeOK
<1>1. CASE Clock \/ AuditUser \/ UNCHANGED vars
  BY <1>1 DEF Clock, Tick, AuditUser, Submit, Commit, RequestRevert, ClusterFrame,
     ApprovalFrame, reconcilerVars, vars, clusterVars, SameSpec
<1>2. CASE Informer
  BY <1>2 DEF Informer, SyncPolicy, SyncAudit, ClusterFrame, reconcilerVars, SameSpec
<1>3. CASE PolicyUser
  <2>1. UNCHANGED <<policyCache, pr>>
    BY <1>3 DEF PolicyUser, EditPolicy, DeletePolicy, RecreatePolicy, UserFrame,
       reconcilerVars
  <2>2. policy'.uid \in 1..MaxUid
    <3>1. policy.uid \in 1..MaxUid /\ MaxUid \in Nat
      BY <1>0, ClusterAssumption DEF PolicyObj
    <3>2. CASE EditPolicy \/ DeletePolicy
      BY <1>0, <3>1, <3>2 DEF EditPolicy, DeletePolicy, PolicyObj
    <3>3. CASE RecreatePolicy
      BY <3>1, <3>3 DEF RecreatePolicy
    <3> QED BY <1>3, <3>2, <3>3 DEF PolicyUser
  <2>3. NewVersion
    BY <1>3, <2>2, Zenon DEF PolicyUser, UserFrame, NewVersion
  <2> QED BY <2>1, <2>3
<1>4. CASE Crash
  BY <1>4 DEF Crash, RelistCaches, PrIdle
<1>5. CASE PolicyStep
  <2>0. UNCHANGED versions
    BY <1>5, Zenon DEF PolicyStep, PolicyFrame
  <2>1. CASE ForgetPolicy
    BY <2>0, <2>1 DEF ForgetPolicy, clusterVars, SameSpec
  <2>2. CASE \/ AwaitApproval \/ CoolDown \/ RateLimited
             \/ \E forget \in BOOLEAN : EvaluationFails(forget)
             \/ \E crossed \in BOOLEAN : Evaluate(crossed)
    <3>1. UNCHANGED <<policy, policyCache>> /\ pr'.pol \in {policyCache, PastGate0}
      BY <2>2 DEF AwaitApproval, CoolDown, RateLimited, EvaluationFails, Evaluate
    <3>2. SameSpec(PastGate0, policyCache)
      BY <1>0 DEF PastGate0, PolicyObj, SameSpec
    <3> QED BY <2>0, <3>1, <3>2 DEF SameSpec
  <2>3. CASE \/ ResolveFails \/ RunPipeline
             \/ \E a \in Audits, r \in Outcomes : WriteAudit(a, r) \/ WriteGatedAudit(a, r)
             \/ \E r \in Outcomes : MarkPending(r)
    <3>1. pr.pc \in {"run", "create", "mark"} /\ pr.pol \in PolicyObj
      BY <2>3, PrParts DEF ResolveFails, RunPipeline, WriteAudit, WriteGatedAudit, MarkPending,
         TypeOK, ReconcilerTypeOK
    <3>2. UNCHANGED <<policy, policyCache>>
      BY <2>3 DEF ResolveFails, RunPipeline, WriteAudit, WriteGatedAudit, MarkPending,
         clusterVars
    <3>3. SameSpec(pr'.pol, pr.pol)
      <4>1. CASE ResolveFails \/ RunPipeline
        BY <4>1 DEF ResolveFails, RunPipeline, PrRequeue, SameSpec
      <4>2. ASSUME NEW a \in Audits, NEW r \in Outcomes, WriteAudit(a, r)
            PROVE  SameSpec(pr'.pol, pr.pol)
        BY <3>1, <4>2 DEF WriteAudit, PrRequeue, Triggered, PolicyObj, SameSpec
      <4>3. ASSUME NEW a \in Audits, NEW r \in Outcomes, WriteGatedAudit(a, r)
            PROVE  SameSpec(pr'.pol, pr.pol)
        BY <4>3 DEF WriteGatedAudit, PrRequeue, SameSpec
      <4>4. ASSUME NEW r \in Outcomes, MarkPending(r)
            PROVE  SameSpec(pr'.pol, pr.pol)
        BY <3>1, <4>4 DEF MarkPending, PrRequeue, PolicyObj, SameSpec
      <4> QED BY <2>3, <4>1, <4>2, <4>3, <4>4
    <3> QED BY <2>0, <3>1, <3>2, <3>3 DEF SameSpec
  <2>4. CASE \E r \in Outcomes : Requeue(r)
    <3>1. /\ pr'.pc = "idle" /\ UNCHANGED policyCache
          /\ \E fresh, r : StorePolicy("policyReconciler", pr.pol, fresh, r)
      BY <2>4 DEF Requeue, PrIdle, UpdatePolicyStatus
    <3>2. SameSpec(policy', policy)
      BY <3>1, StorePolicyEffect DEF SameSpec
    <3> QED BY <2>0, <3>1, <3>2
  <2> QED BY <1>5, <2>1, <2>2, <2>3, <2>4, Zenon DEF PolicyStep
<1>6. CASE AuditStep
  <2>1. UNCHANGED <<pr, versions>>
    BY <1>6, Zenon DEF AuditStep, AuditFrame, reconcilerVars
  <2>2. ASSUME NEW a \in Audits,
               Sweep(a) \/ DenyGate(a) \/ ExpireGate(a) \/ ReleaseGate(a) \/ Revert(a)
        PROVE  UNCHANGED <<policy, policyCache>>
    BY <2>2 DEF Sweep, DenyGate, ExpireGate, CloseGate, ReleaseGate, Revert
  <2>3. ASSUME NEW r \in Outcomes, RecordHeld(r) \/ SetPhase(r) \/ SetReverted(r)
        PROVE  UNCHANGED <<policy, policyCache>>
    BY <2>3 DEF RecordHeld, SetPhase, SetReverted
  <2>4. ASSUME NEW r \in Outcomes, StartCooldown(r)
        PROVE  SameSpec(policy', policy) /\ UNCHANGED policyCache
    <3>1. /\ UNCHANGED policyCache
          /\ \E copy, content, fresh : StorePolicy(copy, content, fresh, r)
      BY <2>4 DEF StartCooldown, UpdatePolicyStatus
    <3> QED BY <3>1, StorePolicyEffect DEF SameSpec
  <2>5. ASSUME RefetchPolicy PROVE UNCHANGED <<policy, policyCache>>
    BY <2>5 DEF RefetchPolicy
  <2>6. SameSpec(policy', policy) /\ UNCHANGED policyCache
    <3>1. UNCHANGED <<policy, policyCache>> => SameSpec(policy', policy)
      BY DEF SameSpec
    <3> QED BY <1>6, <2>2, <2>3, <2>4, <2>5, <3>1, Zenon DEF AuditStep
  <2> QED BY <2>1, <2>6
<1> QED BY <1>1, <1>2, <1>3, <1>4, <1>5, <1>6 DEF Next

LEMMA NextVersion ==
  ASSUME TypeOK, VersionInv, [Next]_vars
  PROVE  VersionInv' /\ \A uid \in 1..MaxUid : versions[uid] \subseteq versions'[uid]
<1>1. /\ policy.uid \in 1..MaxUid /\ policyCache.uid \in 1..MaxUid
      /\ pr.pc # "idle" => pr.pol.uid \in 1..MaxUid
      /\ versions \in [1..MaxUid -> SUBSET Pipelines]
  BY OwnerTypes DEF TypeOK, ClusterTypeOK, PolicyObj
<1>2. CASE /\ policyCache' = policy /\ UNCHANGED <<policy, versions>>
           /\ UNCHANGED pr \/ pr'.pc = "idle"
  BY <1>1, <1>2 DEF VersionInv, Had
<1>3. CASE /\ UNCHANGED policyCache
           /\ \/ SameSpec(policy', policy) /\ UNCHANGED versions
              \/ NewVersion
           /\ \/ UNCHANGED pr \/ pr'.pc = "idle"
              \/ pr.pc # "idle" /\ SameSpec(pr'.pol, pr.pol)
              \/ SameSpec(pr'.pol, policyCache)
  <2>1. \A uid \in 1..MaxUid : versions[uid] \subseteq versions'[uid]
    BY <1>1, <1>3 DEF NewVersion
  <2>2. Had(policy)'
    BY <1>1, <1>3 DEF NewVersion, SameSpec, VersionInv, Had
  <2>3. ASSUME pr'.pc # "idle" PROVE Had(pr.pol)'
    BY <1>1, <1>3, <2>1, <2>3 DEF SameSpec, VersionInv, Had
  <2> QED BY <1>1, <1>3, <2>1, <2>2, <2>3 DEF VersionInv, Had
<1> QED BY <1>2, <1>3, PolicySources

(* A step that makes no record leaves the gates as they are, those apart   *)
(* that a client rewrites; and no client makes or drops one.               *)
LEMMA GatesKept ==
  ASSUME TypeOK, GateInv, OutcomeInv, [Next]_vars,
         ~\E b \in Audits, r \in Outcomes : WriteAudit(b, r) \/ WriteGatedAudit(b, r)
  PROVE  \A a \in Audits :
           /\ audit'[a].gated = audit[a].gated
           /\ a \notin rewritten' => a \notin rewritten /\ SameGate(audit'[a], audit[a])
<1>0. audit \in [Audits -> AuditObj]
  BY OutcomeTypes
<1>1. ASSUME NEW b \in Audits, NEW new \in AuditObj, audit' = [audit EXCEPT ![b] = new],
             new.gated = audit[b].gated,
             rewritten' = rewritten \/ rewritten' = rewritten \cup {b},
             b \notin rewritten' => SameGate(new, audit[b])
      PROVE  \A a \in Audits :
               /\ audit'[a].gated = audit[a].gated
               /\ a \notin rewritten' => a \notin rewritten /\ SameGate(audit'[a], audit[a])
  <2> TAKE a \in Audits
  <2>1. CASE a = b
    BY <1>0, <1>1, <2>1
  <2>2. CASE a # b
    BY <1>0, <1>1, <2>2 DEF SameGate
  <2> QED BY <2>1, <2>2
<1>2. ASSUME NEW u \in Users, Commit(u), ~UNCHANGED audit
      PROVE  \A a \in Audits :
               /\ audit'[a].gated = audit[a].gated
               /\ a \notin rewritten' => a \notin rewritten /\ SameGate(audit'[a], audit[a])
  <2>1. PICK a \in Audits, new \in AuditObj :
          /\ audit' = [audit EXCEPT ![a] = new] /\ new.gated = audit[a].gated
          /\ \/ rewritten' = rewritten /\ SameGate(new, audit[a])
             \/ rewritten' = rewritten \cup {a}
    BY <1>2, CommitEffect
  <2> QED BY <1>1, <2>1
<1>3. CASE UNCHANGED audit
  BY <1>3, SilentSteps DEF SameGate
<1>4. CASE UNCHANGED rewritten /\ ~UNCHANGED audit
  <2>1. ASSUME \/ \E a \in Audits : Sweep(a) \/ RequestRevert(a)
               \/ \E r \in Outcomes : SetReverted(r) \/ MarkPending(r) \/ RecordHeld(r)
                                        \/ SetPhase(r)
        PROVE  \E a \in Audits, new \in AuditObj :
                 audit' = [audit EXCEPT ![a] = new] /\ SameGate(new, audit[a])
    <3>1. CASE \/ \E a \in Audits : Sweep(a) \/ RequestRevert(a)
               \/ \E r \in Outcomes : SetReverted(r)
      BY <1>4, <3>1, QuietWriteEffect
    <3>2. CASE \E r \in Outcomes : MarkPending(r)
      BY <1>4, <3>2, MarkPendingEffect
    <3>3. CASE \E r \in Outcomes : RecordHeld(r)
      BY <1>4, <3>3, RecordHeldEffect
    <3>4. CASE \E r \in Outcomes : SetPhase(r)
      BY <1>4, <3>4, SetPhaseEffect
    <3> QED BY <2>1, <3>1, <3>2, <3>3, <3>4
  <2>2. CASE \E u \in Users : Commit(u)
    BY <1>2, <1>4, <2>2
  <2>3. CASE ~\E u \in Users : Commit(u)
    <3>1. PICK a \in Audits, new \in AuditObj :
            audit' = [audit EXCEPT ![a] = new] /\ SameGate(new, audit[a])
      BY <1>4, <2>1, <2>3, AuditWriters
    <3> QED BY <1>1, <1>4, <3>1 DEF SameGate
  <2> QED BY <2>2, <2>3
<1> QED BY <1>2, <1>3, <1>4, Rewriters

(* The records' cache is filled from the server. *)
LEMMA CacheSources ==
  ASSUME TypeOK, [Next]_vars, NEW a \in Audits
  PROVE  auditCache'[a] = auditCache[a] \/ auditCache'[a] = audit[a]
<1>0. auditCache \in [Audits -> AuditObj]
  BY DEF TypeOK, ClusterTypeOK
<1>1. CASE \E b \in Audits : SyncAudit(b)
  BY <1>0, <1>1 DEF SyncAudit
<1>2. CASE Crash
  BY <1>2 DEF Crash, RelistCaches
<1>3. \/ UNCHANGED auditCache \/ (\E b \in Audits : SyncAudit(b)) \/ Crash
  <2>1. CASE Clock \/ Informer \/ PolicyUser \/ UNCHANGED vars
    BY <2>1 DEF Clock, Tick, Informer, SyncPolicy, PolicyUser, EditPolicy, DeletePolicy,
       RecreatePolicy, vars, clusterVars
  <2>2. CASE PolicyStep
    BY <2>2 DEF PolicyStep, ForgetPolicy, AwaitApproval, CoolDown, RateLimited, EvaluationFails,
       Evaluate, ResolveFails, RunPipeline, WriteAudit, WriteGatedAudit, MarkPending, Requeue,
       clusterVars
  <2>3. CASE AuditStep
    BY <2>3 DEF AuditStep, Sweep, DenyGate, ExpireGate, CloseGate, ReleaseGate, RecordHeld,
       SetPhase, StartCooldown, RefetchPolicy, Revert, SetReverted
  <2>4. CASE AuditUser
    BY <2>4 DEF AuditUser, Submit, Commit, RequestRevert
  <2> QED BY <2>1, <2>2, <2>3, <2>4 DEF Next
<1> QED BY <1>1, <1>2, <1>3

(* A step that neither makes a record nor runs held actions. *)
LEMMA ScopeKept ==
  ASSUME TypeOK, OutcomeInv, ScopeInv, [Next]_vars, UNCHANGED heldRan,
         \A uid \in 1..MaxUid : versions[uid] \subseteq versions'[uid],
         NEW a \in Audits, audit'[a].uid = audit[a].uid, audit'[a].gated = audit[a].gated,
         a \notin rewritten' => a \notin rewritten /\ SameGate(audit'[a], audit[a])
  PROVE  RecordScope(a)'
<1>1. RecordScope(a) /\ audit[a] \in AuditObj
  BY OutcomeTypes DEF ScopeInv
<1>2. auditCache'[a] = auditCache[a] \/ auditCache'[a] = audit[a]
  BY CacheSources
<1>3. /\ auditCache'[a].uid # 0 => auditCache'[a].uid = audit'[a].uid
      /\ auditCache'[a].uid # 0 /\ a \notin rewritten' => SameGate(auditCache'[a], audit'[a])
  BY <1>1, <1>2 DEF RecordScope, SameGate
<1>4. audit[a].gated => audit[a].uid \in 1..MaxUid
  <2>1. audit[a].uid = 0 => ~audit[a].gated
    BY DEF OutcomeInv, GateRecordInv, Sound
  <2> QED BY <1>1, <2>1 DEF AuditObj
<1>5. ASSUME a \notin rewritten', audit'[a].gated
      PROVE  \E p \in versions'[audit'[a].uid] : OfPipeline(audit'[a], p)
  <2>1. PICK p \in versions[audit[a].uid] : OfPipeline(audit[a], p)
    BY <1>1, <1>5 DEF RecordScope
  <2>2. audit[a].uid \in 1..MaxUid
    BY <1>4, <1>5
  <2>3. OfPipeline(audit'[a], p)
    BY <1>5, <2>1 DEF OfPipeline, SameGate
  <2> QED BY <2>1, <2>2, <2>3
<1>6. ASSUME NEW x \in heldRan[a]
      PROVE  \E p \in versions'[audit'[a].uid] : x \in Behind(p, From(a)')
  <2>1. PICK p \in versions[audit[a].uid] : x \in Behind(p, From(a))
    BY <1>1 DEF RecordScope
  <2>2. p \in versions'[audit'[a].uid]
    BY <1>1, <1>4, <2>1 DEF RecordScope
  <2>3. From(a)' = From(a) \/ From(a)' = 0
    BY DEF From, SameGate
  <2>4. From(a) \in Nat
    BY <1>1 DEF From, AuditObj
  <2>5. x \in Behind(p, From(a)')
    BY <2>1, <2>3, <2>4 DEF Behind
  <2> QED BY <2>2, <2>5
<1> QED BY <1>1, <1>3, <1>5, <1>6 DEF RecordScope

(* The record of a trigger names the plugins behind the gate of the policy *)
(* that made it.                                                           *)
LEMMA NewRecordScope ==
  ASSUME TypeOK, pr.pc = "create"
  PROVE  /\ NewRecord.uid = pr.pol.uid /\ NewRecord.uid # 0
         /\ NewRecord.gated => OfPipeline(NewRecord, pr.pol.actions)
<1> DEFINE acts == pr.pol.actions
           g    == GateIndex(acts)
<1>1. NewRecord.uid = pr.pol.uid /\ NewRecord.uid # 0
  BY NewRecordSound
<1>2. /\ NewRecord.gated => g >= 0
      /\ g >= 0 => NewRecord.held = HeldPlugins(acts, g) /\ NewRecord.index = g
  BY DEF NewRecord, NoRecord
<1>3. acts \in Seq(Action)
  BY OwnerTypes, ClusterAssumption DEF PolicyObj
<1>4. g >= 0 => g \in 0..Len(acts)
  <2>1. g = -1 \/ g \in 0..(Len(acts) - 1)
    BY <1>3, GateIndexIsFirst
  <2> HIDE DEF g, acts
  <2> QED BY <1>3, <2>1
<1> HIDE DEF g, NewRecord
<1>5. NewRecord.gated => OfPipeline(NewRecord, acts)
  BY <1>2, <1>4 DEF OfPipeline
<1> QED BY <1>1, <1>5

LEMMA CreateScope ==
  ASSUME TypeOK, ScopeInv, NEW b \in Audits, NEW r \in Outcomes,
         WriteAudit(b, r) \/ WriteGatedAudit(b, r),
         UNCHANGED <<heldRan, rewritten, versions>>
  PROVE  \A a \in Audits : RecordScope(a)'
<1>1. /\ pr.pc = "create" /\ CreateRecord(b, r) /\ UNCHANGED auditCache
  BY DEF WriteAudit, WriteGatedAudit
<1>2. /\ audit[b].uid = 0
      /\ UNCHANGED audit \/ audit' = [audit EXCEPT ![b] = NewRecord]
  BY <1>1 DEF CreateRecord
<1>3. CASE audit' = [audit EXCEPT ![b] = NewRecord]
  <2>1. audit'[b] = NewRecord /\ \A a \in Audits \ {b} : audit'[a] = audit[a]
    BY <1>3, OutcomeTypes
  <2>2. auditCache[b].uid = 0 /\ heldRan[b] = {}
    BY <1>2 DEF ScopeInv, RecordScope
  <2>3. NewRecord.gated => \E p \in versions[NewRecord.uid] : OfPipeline(NewRecord, p)
    BY <1>1, NewRecordScope DEF ScopeInv, VersionInv, Had
  <2>4. RecordScope(b)'
    BY <1>1, <2>1, <2>2, <2>3 DEF RecordScope
  <2>5. ASSUME NEW a \in Audits \ {b} PROVE RecordScope(a)'
    <3>1. RecordScope(a)
      BY DEF ScopeInv
    <3> QED BY <1>1, <2>1, <3>1 DEF RecordScope, From
  <2> QED BY <2>4, <2>5
<1>4. CASE UNCHANGED audit
  BY <1>1, <1>4 DEF ScopeInv, RecordScope, From
<1> QED BY <1>2, <1>3, <1>4

LEMMA ReleaseScope ==
  ASSUME TypeOK, OutcomeInv, ScopeInv, NEW b \in Audits, ReleaseGate(b),
         UNCHANGED <<rewritten, versions>>
  PROVE  \A a \in Audits : RecordScope(a)'
<1> DEFINE rec == auditCache[b]
           p   == policyCache.actions
           ts  == Resolved(rec.targets)
           res(o) == [i \in 1..Len(ts) |->
                        RunRange(p, rec.index, Len(p), o[i], rec.index..(Len(p) - 1))]
           ran(rs) == UNION {{rs[i][k].plugin : k \in DOMAIN rs[i]} : i \in DOMAIN rs}
<1>1. /\ UNCHANGED <<audit, auditCache>>
      /\ rec.uid = audit[b].uid /\ policyCache.uid = audit[b].uid
  BY ReleaseGateEffect
<1>2. audit[b].uid # 0 /\ audit[b].gated
  BY CachedPending DEF ReleaseGate, Resolving, OutcomeInv, GateRecordInv, Sound
<1>3. \A a \in Audits : RecordScope(a)
  BY DEF ScopeInv
<1>4. b \notin rewritten => rec.index = audit[b].index
  BY <1>1, <1>2, <1>3 DEF RecordScope, SameGate
<1>5. PICK o \in [1..Len(ts) -> [rec.index..(Len(p) - 1) -> HeldOutcomes]] :
        heldRan' = [heldRan EXCEPT ![b] = @ \cup ran(res(o))]
  BY DEF ReleaseGate
<1>6. p \in Seq(Action) /\ p \in versions[audit[b].uid]
  BY <1>1, ClusterAssumption DEF TypeOK, ClusterTypeOK, PolicyObj, ScopeInv, VersionInv, Had
<1>7. rec.index \in Nat /\ rec.index <= Len(p)
  BY OutcomeTypes DEF AuditObj, ReleaseGate, Resumable
<1>8. From(b) \in Nat /\ From(b) <= rec.index
  BY <1>4, <1>7 DEF From
<1>9. ran(res(o)) \subseteq Behind(p, From(b))
  <2> SUFFICES ASSUME NEW x \in ran(res(o)) PROVE x \in Behind(p, From(b))
    OBVIOUS
  <2>1. PICK i \in DOMAIN res(o) : x \in {res(o)[i][k].plugin : k \in DOMAIN res(o)[i]}
    OBVIOUS
  <2>2. PICK run : /\ run = RunRange(p, rec.index, Len(p), o[i], rec.index..(Len(p) - 1))
                   /\ run = res(o)[i]
    OBVIOUS
  <2>3. PICK k \in DOMAIN run : x = run[k].plugin
    BY <2>1, <2>2
  <2> HIDE DEF rec, p, res, ran
  <2>4. \E j \in 1..Len(HeldPlugins(p, rec.index)) : x = HeldPlugins(p, rec.index)[j]
    BY <1>6, <1>7, <2>2, <2>3, RunRangeIsHeld
  <2>5. PICK j \in 1..(Len(p) - rec.index) : x = p[rec.index + j].plugin
    BY <1>6, <1>7, <2>4 DEF HeldPlugins
  <2>6. rec.index + j \in (From(b) + 1)..Len(p)
    BY <1>6, <1>7, <1>8, <2>5
  <2> QED BY <2>5, <2>6 DEF Behind
<1>10. heldRan \in [Audits -> SUBSET Plugins]
  BY DEF TypeOK, AuditRecTypeOK
<1> HIDE DEF res, ran, p, rec
<1>11. /\ heldRan'[b] = heldRan[b] \cup ran(res(o))
       /\ \A a \in Audits \ {b} : heldRan'[a] = heldRan[a]
  BY <1>5, <1>10
<1>12. From(b)' = From(b) /\ \A a \in Audits : From(a)' = From(a)
  BY <1>1 DEF From
<1>13. ASSUME NEW x \in heldRan'[b]
       PROVE  \E q \in versions[audit[b].uid] : x \in Behind(q, From(b))
  BY <1>3, <1>6, <1>9, <1>11 DEF RecordScope
<1>14. RecordScope(b)'
  BY <1>1, <1>2, <1>3, <1>12, <1>13 DEF RecordScope
<1>15. ASSUME NEW a \in Audits \ {b} PROVE RecordScope(a)'
  BY <1>1, <1>3, <1>11, <1>12 DEF RecordScope
<1> QED BY <1>14, <1>15

(* Users do not write while a reconciler moves. *)
LEMMA WorkersAlone ==
  ASSUME [Next]_vars
  PROVE  UNCHANGED <<rewritten, versions>> \/ UNCHANGED <<pr, ar>>
<1>1. CASE Clock \/ Informer \/ PolicyUser \/ AuditUser
  BY <1>1, Zenon DEF Clock, Informer, PolicyUser, AuditUser, ClusterFrame, UserFrame,
     ApprovalFrame, reconcilerVars, auditRecVars
<1>2. CASE PolicyStep \/ AuditStep
  BY <1>2, Zenon DEF PolicyStep, AuditStep, PolicyFrame, AuditFrame, approvalVars
<1>3. CASE Crash \/ UNCHANGED vars
  BY <1>3 DEF Crash, vars, approvalVars
<1> QED BY <1>1, <1>2, <1>3 DEF Next

LEMMA NextScope ==
  ASSUME TypeOK, GateInv, OutcomeInv, ScopeInv, [Next]_vars
  PROVE  ScopeInv'
<1>1. VersionInv' /\ \A uid \in 1..MaxUid : versions[uid] \subseteq versions'[uid]
  BY NextVersion DEF ScopeInv
<1>2. CASE \E b \in Audits : ReleaseGate(b)
  <2>1. UNCHANGED <<rewritten, versions>>
    BY <1>2, WorkersAlone, ReleaseGateEffect DEF ReleaseGate, Resolving
  <2> QED BY <1>1, <1>2, <2>1, ReleaseScope DEF ScopeInv
<1>3. CASE UNCHANGED heldRan
  <2>1. CASE \E b \in Audits, r \in Outcomes : WriteAudit(b, r) \/ WriteGatedAudit(b, r)
    <3>1. UNCHANGED <<rewritten, versions>>
      <4>1. pr.pc = "create" /\ pr'.pc # "create"
        BY <2>1 DEF WriteAudit, WriteGatedAudit, PrRequeue
      <4> QED BY <4>1, WorkersAlone
    <3> QED BY <1>1, <1>3, <2>1, <3>1, CreateScope DEF ScopeInv
  <2>2. CASE ~\E b \in Audits, r \in Outcomes : WriteAudit(b, r) \/ WriteGatedAudit(b, r)
    <3>1. \A a \in Audits : audit'[a].uid = audit[a].uid
      BY <2>2, RecordsKept DEF SameRecord
    <3>2. \A a \in Audits :
            /\ audit'[a].gated = audit[a].gated
            /\ a \notin rewritten' => a \notin rewritten /\ SameGate(audit'[a], audit[a])
      BY <2>2, GatesKept
    <3>3. ASSUME NEW a \in Audits PROVE RecordScope(a)'
      BY <1>1, <1>3, <3>1, <3>2, ScopeKept
    <3> QED BY <1>1, <3>3 DEF ScopeInv
  <2> QED BY <2>1, <2>2
<1> QED BY <1>2, <1>3, HeldRunners

(* What an approval releases lies behind its gate in a pipeline of the     *)
(* incarnation that opened it, whatever policy has taken the name since    *)
(* and however stale the copies; and it is what the record listed, unless  *)
(* the pipeline was edited or a client rewrote the gate (releaseGate).     *)
THEOREM ReleaseIsInScope == Spec => []ReleasedScope
<1>1. TypeOK /\ ScopeInv => ReleasedScope
  <2> SUFFICES ASSUME TypeOK, ScopeInv, NEW a \in Audits, heldRan[a] # {}
               PROVE  /\ heldRan[a] \subseteq
                           UNION {Behind(p, From(a)) : p \in versions[audit[a].uid]}
                      /\ (/\ a \notin rewritten
                          /\ \A p, q \in versions[audit[a].uid] : p = q)
                           => heldRan[a] \subseteq ListedOn(audit[a])
    BY DEF ReleasedScope, From
  <2>1. RecordScope(a)
    BY DEF ScopeInv
  <2>2. heldRan[a] \subseteq UNION {Behind(p, From(a)) : p \in versions[audit[a].uid]}
    BY <2>1 DEF RecordScope
  <2>3. ASSUME a \notin rewritten, \A p, q \in versions[audit[a].uid] : p = q
        PROVE  heldRan[a] \subseteq ListedOn(audit[a])
    <3>1. PICK p \in versions[audit[a].uid] : OfPipeline(audit[a], p)
      BY <2>1, <2>3 DEF RecordScope
    <3>2. p \in Seq(Action)
      <4>1. audit[a].uid \in 1..MaxUid
        BY <2>1, OutcomeTypes DEF RecordScope, AuditObj
      <4> QED BY <3>1, <4>1, ClusterAssumption DEF TypeOK
    <3>3. ASSUME NEW x \in heldRan[a] PROVE x \in ListedOn(audit[a])
      <4>1. x \in Behind(p, audit[a].index)
        BY <2>1, <2>3, <3>1 DEF RecordScope, From
      <4>2. PICK k \in (audit[a].index + 1)..Len(p) : x = p[k].plugin
        BY <4>1 DEF Behind
      <4>3. audit[a].index \in 0..Len(p) /\ audit[a].held = HeldPlugins(p, audit[a].index)
        BY <3>1 DEF OfPipeline
      <4>4. /\ k - audit[a].index \in 1..(Len(p) - audit[a].index)
            /\ audit[a].index + (k - audit[a].index) = k
        BY <3>2, <4>2, <4>3
      <4>5. Len(audit[a].held) = Len(p) - audit[a].index
        BY <3>2, <4>3 DEF HeldPlugins
      <4>6. audit[a].held[k - audit[a].index] = x
        BY <4>2, <4>3, <4>4 DEF HeldPlugins
      <4> QED BY <4>4, <4>5, <4>6 DEF ListedOn
    <3> QED BY <3>3
  <2> QED BY <2>2, <2>3
<1>2. TypeOK /\ GateInv /\ OutcomeInv /\ ScopeInv /\ [Next]_vars => ScopeInv'
  BY NextScope
<1> QED BY <1>1, <1>2, InitScope, OutcomeInvariant, PTL DEF Spec
=============================================================================
