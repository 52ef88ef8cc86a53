------------------------------- MODULE Operator -------------------------------
(***************************************************************************)
(* The whole operator around one policy: both reconcilers, the approval    *)
(* webhook and its clients, the users of the policy, stale caches, failed  *)
(* API calls and crashes.                                                  *)
(***************************************************************************)
EXTENDS PolicyReconciler, AuditReconciler, Approval

CONSTANT Brisk    \* TRUE: no reconcile is in progress when the clock moves

ASSUME BriskAssumption == Brisk \in BOOLEAN

VARIABLE versions   \* history: the pipelines each incarnation of the policy has had

vars == <<clusterVars, reconcilerVars, auditRecVars, approvalVars, versions>>

Init ==
  /\ ClusterInit /\ ReconcilerInit /\ AuditRecInit /\ ApprovalInit
  /\ versions = [uid \in 1..MaxUid |-> IF uid = 1 THEN {policy.actions} ELSE {}]

(* The process dies and another takes over the leader lease: what was in   *)
(* memory is gone, the API objects and the clients' requests are not.      *)
Crash ==
  /\ faults < MaxFaults
  /\ faults' = faults + 1
  /\ pr' = PrIdle /\ ar' = ArIdle
  /\ window' = Never /\ lim' = NoEntry
  /\ RelistCaches
  /\ UNCHANGED <<now, policy, audit, edits, fires, heldRuns, heldRan, undos, closed,
                 approvalVars, versions>>

(* Who leaves what alone, and when it may act: with Lag = "none" a watch   *)
(* event always arrives before anybody's next step.                        *)
CaughtUp == Lag = "none" => Synced

ClusterFrame  == UNCHANGED <<reconcilerVars, auditRecVars, approvalVars, versions>>
PolicyFrame   == CaughtUp /\ UNCHANGED <<auditRecVars, approvalVars, versions>>
AuditFrame    == CaughtUp /\ UNCHANGED <<reconcilerVars, approvalVars, versions>>
ApprovalFrame == CaughtUp /\ UNCHANGED <<reconcilerVars, auditRecVars, versions>>

UserFrame ==
  /\ versions' = [versions EXCEPT ![policy'.uid] = @ \cup {policy'.actions}]
  /\ UNCHANGED <<reconcilerVars, auditRecVars, approvalVars>>

Idle == pr.pc = "idle" /\ ar.pc = "idle"

Clock == Tick /\ (Brisk => Idle) /\ ClusterFrame

Informer ==
  \/ SyncPolicy /\ ClusterFrame
  \/ \E a \in Audits : SyncAudit(a) /\ ClusterFrame

PolicyUser ==
  \/ EditPolicy /\ UserFrame
  \/ DeletePolicy /\ UserFrame
  \/ RecreatePolicy /\ UserFrame

PolicyStep ==
  \/ ForgetPolicy /\ PolicyFrame
  \/ AwaitApproval /\ PolicyFrame
  \/ CoolDown /\ PolicyFrame
  \/ RateLimited /\ PolicyFrame
  \/ \E forget \in BOOLEAN : EvaluationFails(forget) /\ PolicyFrame
  \/ \E crossed \in BOOLEAN : Evaluate(crossed) /\ PolicyFrame
  \/ ResolveFails /\ PolicyFrame
  \/ RunPipeline /\ PolicyFrame
  \/ \E a \in Audits, r \in Outcomes : WriteAudit(a, r) /\ PolicyFrame
  \/ \E a \in Audits, r \in Outcomes : WriteGatedAudit(a, r) /\ PolicyFrame
  \/ \E r \in Outcomes : MarkPending(r) /\ PolicyFrame
  \/ \E r \in Outcomes : Requeue(r) /\ PolicyFrame

AuditStep ==
  \/ \E a \in Audits : Sweep(a) /\ AuditFrame
  \/ \E a \in Audits : DenyGate(a) /\ AuditFrame
  \/ \E a \in Audits : ExpireGate(a) /\ AuditFrame
  \/ \E a \in Audits : ReleaseGate(a) /\ AuditFrame
  \/ \E r \in Outcomes : RecordHeld(r) /\ AuditFrame
  \/ \E r \in Outcomes : SetPhase(r) /\ AuditFrame
  \/ RefetchPolicy /\ AuditFrame
  \/ \E r \in Outcomes : StartCooldown(r) /\ AuditFrame
  \/ \E a \in Audits : Revert(a) /\ AuditFrame
  \/ \E r \in Outcomes : SetReverted(r) /\ AuditFrame

AuditUser ==
  \/ \E u \in Users, a \in Audits : \E edit \in GateEdits(audit[a]) :
       Submit(u, a, edit) /\ ApprovalFrame
  \/ \E u \in Users : Commit(u) /\ ApprovalFrame
  \/ \E a \in Audits : RequestRevert(a) /\ ApprovalFrame

Next == Clock \/ Informer \/ PolicyUser \/ PolicyStep \/ AuditStep \/ AuditUser \/ Crash

Spec == Init /\ [][Next]_vars

(* Time passes, watch events arrive, and controller-runtime calls a        *)
(* reconciler again after every error, conflict or RequeueAfter.  Nothing  *)
(* is asked of the users.                                                  *)
Fairness ==
  /\ WF_vars(Clock)
  /\ WF_vars(SyncPolicy /\ ClusterFrame)
  /\ \A a \in Audits : WF_vars(SyncAudit(a) /\ ClusterFrame)
  /\ WF_vars(PolicyStep)
  /\ WF_vars(AuditStep)

FairSpec == Spec /\ Fairness

TypeOK ==
  /\ ClusterTypeOK /\ ReconcilerTypeOK /\ AuditRecTypeOK /\ ApprovalTypeOK
  /\ versions \in [1..MaxUid -> SUBSET Pipelines]

-----------------------------------------------------------------------------
(* Fail closed: whatever is stale, lost, retried or restarted, the actions *)
(* a gate holds run only for a record that carries an approval (resolveGate *)
(* and releaseGate acting on cached reads).                                *)
FailClosed ==
  \A a \in Audits : heldRuns[a] > 0 => audit[a].decision = "Approved"

(* The record of a gate, read as the abstract gate of ApprovalGate: Trail  *)
(* is what spec.actions says of the held actions.                          *)
Trail(rec) == {rec.recs[i].kind : i \in 1..Len(rec.recs)} \cap {"released", "skipped"}

Stage == [p \in Phases |->
  CASE p = "" -> "none" [] p = "Pending" -> "open" [] p = "Approved" -> "approved"
    [] p = "Denied" -> "denied" [] p = "Expired" -> "expired"]

Orphaned(a) == audit[a].uid # 0 /\ (~policy.live \/ policy.uid # audit[a].uid)

Promise == INSTANCE ApprovalGate WITH
  Gates   <- Audits,
  stage   <- [a \in Audits |-> Stage[audit[a].phase]],
  verdict <- [a \in Audits |-> audit[a].decision],
  trail   <- [a \in Audits |-> Trail(audit[a])],
  ran     <- [a \in Audits |-> heldRuns[a] > 0],
  due     <- [a \in Audits |-> audit[a].gated /\ now >= audit[a].expires],
  orphan  <- [a \in Audits |-> Orphaned(a)],
  rewritten <- rewritten

(* The operator implements the abstract gate: every step of the reconcilers,*)
(* the webhook, the clients, the caches and the clock is a step an approver *)
(* was promised or changes nothing he can see (writeGatedAudit, Handle,     *)
(* resolveGate, releaseGate and closeGate together).                        *)
GatePromise == Promise!Spec

(* A verdict a client was told was recorded is never overtaken by the      *)
(* timeout: a gate that expired has no decision (the expiry branch of      *)
(* resolveGate racing the webhook's check of the same deadline).           *)
ExpiredUndecided ==
  \A a \in Audits : audit[a].phase = "Expired" => audit[a].decision = ""

(* A gate reads as Approved only after its actions ran and their results   *)
(* are on the record (the order of releaseGate's two writes).              *)
ApprovedIsRecorded ==
  \A a \in Audits : audit[a].phase = "Approved" =>
    audit[a].decision = "Approved" /\ "released" \in Trail(audit[a])

(* decidedBy names the client whose request made the decision.             *)
DeciderStamped ==
  \A a \in Audits : audit[a].by = decider[a]

(* A decision is write-once.                                               *)
DecisionWriteOnce ==
  [][\A a \in Audits : audit[a].decision # "" =>
       audit'[a].decision = audit[a].decision /\ audit'[a].by = audit[a].by]_vars

(* A gate that left phase Pending never opens again and never changes its  *)
(* outcome.                                                                *)
PhaseFinal ==
  [][\A a \in Audits : audit[a].phase \in {"Approved", "Denied", "Expired"} =>
       audit'[a].phase = audit[a].phase]_vars

-----------------------------------------------------------------------------
(* Pacing. *)

(* Two pipelines of a policy never start closer together than its          *)
(* duration, however many status writes are lost and however often the     *)
(* operator restarts: the window is emptied by every trigger and by every  *)
(* restart, so the condition has to be sustained all over again.           *)
TriggerSpacing ==
  \A i \in 1..(Len(fires) - 1) : fires[i + 1] - fires[i] >= Duration

(* At most maxTriggersPerHour recorded triggers in any trailing hour       *)
(* (auditLimiter: the cached count, its ttl, Observe and restarts).        *)
HourlyCap ==
  \A a \in Audits : audit[a].uid # 0 =>
    Cardinality({b \in Audits : /\ audit[b].uid # 0
                                /\ audit[b].at <= audit[a].at
                                /\ audit[b].at > audit[a].at - Hour}) <= MaxTriggers

(* After a trigger the policy stays quiet for at least its cooldown (a     *)
(* policy without a gate: with one, the cooldown runs from the decision).  *)
QuietAfterTrigger ==
  GateIndex(policy.actions) < 0 =>
    \A i \in 1..(Len(fires) - 1) : fires[i + 1] - fires[i] >= Cooldown

(* Through failed calls, conflicts, crashes and edits of the policy, with  *)
(* caches that catch up within a tick: a pipeline starts within the        *)
(* cooldown of the one before only when lastTriggeredAt of that one was    *)
(* lost (CoolDown on a cached read, with the window emptied by every       *)
(* trigger).  A gate closed at the time of that trigger may have written   *)
(* the same time for itself.                                               *)
LastFire == fires[Len(fires)]

QuietWhileRemembered ==
  /\ pr.pc = "run" /\ fires # <<>> /\ policy.last = LastFire
  /\ \A a \in Audits : closed[a] # LastFire
  => pr.at - LastFire >= Cooldown

(* ... and after an approval decision likewise, counted from the decision. *)
QuietAfterDecision ==
  [][fires' # fires =>
       \A a \in Audits : closed[a] # Never => pr.at - closed[a] >= Cooldown]_vars

(* The gates that are open, and: a policy never has a second one open      *)
(* behind the first.                                                       *)
OpenGates == {a \in Audits : audit[a].live /\ audit[a].phase = "Pending"}
SingleGate == \A a, b \in OpenGates : audit[a].uid = audit[b].uid => a = b

(* Likewise a pipeline starts behind an open gate only when pendingGateRef *)
(* was lost: never while the stored status refers to it (gateStillOpen on  *)
(* cached reads of the policy and of the record).                          *)
HoldsWhileReferenced ==
  pr.pc = "run" /\ policy.live => policy.ref \notin OpenGates

(* A policy waits only for a gate it opened itself, never for one of an    *)
(* earlier policy of the same name.                                        *)
WaitsForOwnGate ==
  policy.live /\ policy.ref # NoAudit => audit[policy.ref].uid = policy.uid

-----------------------------------------------------------------------------
(* Held actions, as the documentation has them. *)

(* The held actions are not run again after a restart.                     *)
HeldRunOnce == \A a \in Audits : heldRuns[a] <= 1

(* A record that says the held actions were skipped means they did not run. *)
SkippedNotRun ==
  \A a \in Audits : "skipped" \in Trail(audit[a]) => heldRuns[a] = 0

(* What an approval releases is what the record said it would.             *)
ListedOn(rec) == {rec.held[k] : k \in 1..Len(rec.held)}

ApprovedScope == \A a \in Audits : heldRan[a] \subseteq ListedOn(audit[a])

(* What it releases really (releaseGate reads the policy again): actions   *)
(* behind the gate's index in some pipeline of the incarnation that opened *)
(* the gate, never of a policy recreated under its name; and no other than *)
(* the record listed, if the pipeline was never edited.  A client who      *)
(* rewrites the gate can move its index, within those pipelines.           *)
Behind(p, i) == {p[k].plugin : k \in (i + 1)..Len(p)}

ReleasedScope ==
  \A a \in Audits : heldRan[a] # {} =>
    LET had  == versions[audit[a].uid]
        from == IF a \in rewritten THEN 0 ELSE audit[a].index
    IN  /\ heldRan[a] \subseteq UNION {Behind(p, from) : p \in had}
        /\ a \notin rewritten /\ (\A p, q \in had : p = q)
             => heldRan[a] \subseteq ListedOn(audit[a])

(* A revert request is acted upon once.                                    *)
RevertOnce == \A a \in Audits : undos[a] <= 1

-----------------------------------------------------------------------------
(* Liveness, under FairSpec. *)

(* Every gate is resolved: released, refused or expired (or its record is  *)
(* reclaimed).                                                             *)
GateResolves ==
  \A a \in Audits : (a \in OpenGates) ~> (a \notin OpenGates)

(* An approval takes effect: the gate it answers leaves phase Pending.     *)
ApprovalTakesEffect ==
  \A a \in Audits :
    (a \in OpenGates /\ audit[a].decision = "Approved") ~> (audit[a].phase # "Pending")

(* A policy that holds for a decision is eventually let go again.          *)
PolicyLetGo == \A a \in Audits : (policy.ref = a) ~> (policy.ref # a)
=============================================================================
