----------------------------- MODULE PacingProofs -----------------------------
(***************************************************************************)
(* How often a policy acts: its triggers are spaced, what its status says  *)
(* of a trigger or of an open gate is heeded, and it keeps to its hourly   *)
(* cap.                                                                    *)
(*                                                                         *)
(* Two triggers of a policy are never closer together than its duration,   *)
(* for any clock, any number of faults, restarts and lost status writes.   *)
(* TriggerSpacing is not inductive: a trigger is decided from the sliding  *)
(* window, which trigger empties only after its pipeline has run and its   *)
(* record was written.  PacingInv says that outside those steps the window *)
(* never began before the last trigger, so a window that has lasted for    *)
(* the duration is that much younger than it.                              *)
(***************************************************************************)
EXTENDS PromiseProofs, FiniteSetTheorems

PacingInv ==
  /\ window # Never => window <= now
  /\ pr.pc # "idle" => pr.at <= now
  /\ fires # <<>> =>
       /\ LastFire <= now
       /\ window # Never /\ pr.pc \notin {"create", "mark"} => LastFire <= window
       /\ pr.pc = "run" => pr.at - LastFire >= Duration
  /\ TriggerSpacing

LEMMA InitPacing == Init => PacingInv
BY DEF Init, ReconcilerInit, PrIdle, PacingInv, TriggerSpacing

(* A step that keeps the triggers, and the window or the state that lets   *)
(* it be older than the last of them.                                      *)
LEMMA PacingFrame ==
  ASSUME PacingInv, UNCHANGED fires, now \in Int, now' \in Int, now <= now',
         fires \in Seq(Time), window \in Time \cup {Never}, pr \in PrState,
         \/ UNCHANGED <<pr, window>>
         \/ window' = Never /\ pr'.pc \in {"idle", "requeue"}
         \/ /\ UNCHANGED window
            /\ \/ pr.pc \in {"idle", "run", "requeue"} /\ pr'.pc \in {"idle", "requeue"}
               \/ pr.pc = "create" /\ pr'.pc = "mark",
         pr'.pc # "idle" => pr'.at \in Int /\ pr'.at <= now'
  PROVE  PacingInv'
<1>1. Time \subseteq Int /\ Never \in Int /\ (fires # <<>> => LastFire \in Time)
  BY ClusterAssumption DEF Time, Never, LastFire
<1>2. LastFire' = LastFire /\ (TriggerSpacing <=> TriggerSpacing')
  BY DEF LastFire, TriggerSpacing
<1>3. pr.pc # "idle" => pr.at \in Time
  BY PrParts DEF PrState
<1> HIDE DEF LastFire
<1>4. window' # Never => window' = window
  OBVIOUS
<1>5. window' # Never => window' <= now'
  BY <1>1, <1>4 DEF PacingInv
<1>6. ASSUME fires # <<>>
      PROVE  /\ LastFire <= now'
             /\ window' # Never /\ pr'.pc \notin {"create", "mark"} => LastFire <= window'
             /\ pr'.pc = "run" => pr'.at - LastFire >= Duration
  <2>1. LastFire \in Int /\ LastFire <= now
    BY <1>1, <1>6 DEF PacingInv
  <2>2. window' # Never /\ pr'.pc \notin {"create", "mark"} =>
          window # Never /\ pr.pc \notin {"create", "mark"}
    BY <1>4
  <2>3. pr'.pc = "run" => pr' = pr
    OBVIOUS
  <2> QED BY <1>1, <1>4, <1>6, <2>1, <2>2, <2>3 DEF PacingInv
<1> QED BY <1>2, <1>5, <1>6 DEF PacingInv

LEMMA EvaluatePacing ==
  ASSUME TypeOK, PacingInv, NEW crossed \in BOOLEAN, Evaluate(crossed)
  PROVE  PacingInv'
<1>1. /\ now \in Int /\ window \in Int /\ Never \in Int /\ Duration \in Nat \ {0}
      /\ (fires # <<>> => LastFire \in Int)
  BY ClusterAssumption, TimingAssumption
     DEF TypeOK, ClusterTypeOK, ReconcilerTypeOK, Time, Never, LastFire
<1>2. LastFire' = LastFire /\ (TriggerSpacing <=> TriggerSpacing')
  BY DEF Evaluate, LastFire, TriggerSpacing
<1>3. /\ pr.pc = "idle" /\ pr'.at = now /\ UNCHANGED <<now, fires>>
      /\ pr'.pc = IF crossed /\ CrossedFor(crossed) >= Duration THEN "run" ELSE "requeue"
      /\ window' = ObserveSince(crossed)
  BY DEF Evaluate, PastGates
<1> HIDE DEF LastFire
<1> QED BY <1>1, <1>2, <1>3 DEF PacingInv, ObserveSince, CrossedFor

LEMMA RunPipelinePacing ==
  ASSUME TypeOK, PacingInv, RunPipeline
  PROVE  PacingInv'
<1>1. /\ pr.pc = "run" /\ pr'.pc = "create" /\ pr'.at = pr.at
      /\ fires' = Append(fires, pr.at) /\ UNCHANGED <<now, window>>
  BY DEF RunPipeline, clusterVars
<1>2. /\ fires \in Seq(Time) /\ pr.at \in Time /\ Time \subseteq Int /\ now \in Int
      /\ Duration \in Int
  BY <1>1, PrParts, ClusterAssumption, TimingAssumption
     DEF TypeOK, ClusterTypeOK, ReconcilerTypeOK, Time
<1>3. /\ Len(fires') = Len(fires) + 1 /\ fires'[Len(fires) + 1] = pr.at
      /\ \A i \in 1..Len(fires) : fires'[i] = fires[i]
      /\ Len(fires) \in Nat
  BY <1>1, <1>2
<1>4. LastFire' = pr.at /\ fires' # <<>>
  BY <1>1, <1>3 DEF LastFire
<1>5. TriggerSpacing'
  <2>1. ASSUME NEW i \in 1..(Len(fires') - 1) PROVE fires'[i + 1] - fires'[i] >= Duration
    <3>1. CASE i < Len(fires)
      <4>1. i \in 1..(Len(fires) - 1) /\ i + 1 \in 1..Len(fires) /\ i \in 1..Len(fires)
        BY <1>3, <3>1
      <4>2. fires[i + 1] - fires[i] >= Duration
        BY <4>1 DEF PacingInv, TriggerSpacing
      <4> QED BY <1>3, <4>1, <4>2
    <3>2. CASE i = Len(fires)
      <4>1. fires # <<>> /\ fires'[i] = LastFire /\ fires'[i + 1] = pr.at
        BY <1>2, <1>3, <3>2 DEF LastFire
      <4> QED BY <1>1, <4>1 DEF PacingInv
    <3> QED BY <1>3, <3>1, <3>2
  <2> QED BY <2>1 DEF TriggerSpacing
<1> HIDE DEF LastFire
<1> QED BY <1>1, <1>2, <1>4, <1>5 DEF PacingInv

LEMMA NextPacing == TypeOK /\ PacingInv /\ [Next]_vars => PacingInv'
<1> SUFFICES ASSUME TypeOK, PacingInv, [Next]_vars PROVE PacingInv'
  OBVIOUS
<1>0. /\ now \in Int /\ fires \in Seq(Time) /\ window \in Time \cup {Never}
      /\ pr \in PrState /\ Time \subseteq Int
      /\ (pr.pc \in {"run", "requeue", "create", "mark"} => pr.at \in Int)
  BY PrParts, ClusterAssumption DEF TypeOK, ClusterTypeOK, ReconcilerTypeOK, Time
<1>1. CASE UNCHANGED <<now, reconcilerVars>>
  <2>1. pr.pc # "idle" => pr.at \in Int /\ pr.at <= now
    BY <1>0 DEF PrState, PacingInv
  <2> QED BY <1>0, <1>1, <2>1, PacingFrame DEF reconcilerVars
<1>2. CASE Clock
  <2>1. now' = now + 1 /\ UNCHANGED <<pr, window, fires>>
    BY <1>2 DEF Clock, Tick, ClusterFrame, reconcilerVars
  <2>2. pr.pc # "idle" => pr.at \in Int /\ pr.at <= now
    BY <1>0 DEF PrState, PacingInv
  <2> QED BY <1>0, <2>1, <2>2, PacingFrame
<1>3. CASE Crash
  BY <1>0, <1>3, PacingFrame DEF Crash, PrIdle
<1>4. CASE PolicyStep
  <2>1. CASE ForgetPolicy
    <3>1. pr.pc = "idle" /\ UNCHANGED <<pr, fires, now>> /\ window' = Never
      BY <2>1 DEF ForgetPolicy, clusterVars
    <3> QED BY <1>0, <3>1, PacingFrame
  <2>2. CASE AwaitApproval \/ CoolDown \/ RateLimited
    <3>1. /\ pr.pc = "idle" /\ pr'.pc = "requeue" /\ pr'.at = now
          /\ UNCHANGED <<window, fires, now>>
      BY <2>2 DEF AwaitApproval, CoolDown, RateLimited
    <3> QED BY <1>0, <3>1, PacingFrame
  <2>3. CASE \E forget \in BOOLEAN : EvaluationFails(forget)
    <3>1. /\ pr.pc = "idle" /\ pr'.pc = "requeue" /\ pr'.at = now
          /\ window' \in {window, Never} /\ UNCHANGED <<fires, now>>
      BY <2>3 DEF EvaluationFails, PastGates
    <3> QED BY <1>0, <3>1, PacingFrame
  <2>4. CASE \E crossed \in BOOLEAN : Evaluate(crossed)
    BY <2>4, EvaluatePacing
  <2>5. CASE ResolveFails
    <3>1. /\ pr.pc = "run" /\ pr'.pc = "requeue" /\ pr'.at = pr.at
          /\ UNCHANGED <<window, fires, now>>
      BY <2>5 DEF ResolveFails, PrRequeue, clusterVars
    <3>2. pr.at \in Int /\ pr.at <= now
      BY <1>0, <3>1 DEF PacingInv
    <3> QED BY <1>0, <3>1, <3>2, PacingFrame
  <2>6. CASE RunPipeline
    BY <2>6, RunPipelinePacing
  <2>7. CASE \/ \E a \in Audits, r \in Outcomes : WriteAudit(a, r) \/ WriteGatedAudit(a, r)
             \/ \E r \in Outcomes : MarkPending(r)
    <3>1. /\ pr.pc \in {"create", "mark"} /\ pr'.at = pr.at
          /\ UNCHANGED <<fires, now>>
          /\ \/ pr'.pc = "requeue" /\ window' = Never
             \/ pr.pc = "create" /\ pr'.pc = "mark" /\ UNCHANGED window
      BY <2>7 DEF WriteAudit, WriteGatedAudit, MarkPending, PrRequeue
    <3>2. pr.at \in Int /\ pr.at <= now
      BY <1>0, <3>1 DEF PacingInv
    <3> QED BY <1>0, <3>1, <3>2, PacingFrame
  <2>8. CASE \E r \in Outcomes : Requeue(r)
    <3>1. pr.pc = "requeue" /\ pr'.pc = "idle" /\ UNCHANGED <<window, fires, now>>
      BY <2>8 DEF Requeue, PrIdle
    <3> QED BY <1>0, <3>1, PacingFrame
  <2> QED BY <1>4, <2>1, <2>2, <2>3, <2>4, <2>5, <2>6, <2>7, <2>8, Zenon DEF PolicyStep
<1>5. CASE Informer \/ PolicyUser
  <2>1. UNCHANGED <<now, reconcilerVars>>
    BY <1>5 DEF Informer, PolicyUser, SyncPolicy, SyncAudit, EditPolicy, DeletePolicy,
       RecreatePolicy, ClusterFrame, UserFrame
  <2> QED BY <1>1, <2>1
<1>6. CASE AuditStep
  <2>1. UNCHANGED reconcilerVars
    BY <1>6, Zenon DEF AuditStep, AuditFrame
  <2>2. ASSUME NEW a \in Audits,
               Sweep(a) \/ DenyGate(a) \/ ExpireGate(a) \/ ReleaseGate(a) \/ Revert(a)
        PROVE  UNCHANGED now
    BY <2>2 DEF Sweep, DenyGate, ExpireGate, CloseGate, ReleaseGate, Revert
  <2>3. ASSUME NEW r \in Outcomes,
               RecordHeld(r) \/ SetPhase(r) \/ SetReverted(r) \/ StartCooldown(r)
        PROVE  UNCHANGED now
    BY <2>3 DEF RecordHeld, SetPhase, SetReverted, StartCooldown, UpdatePolicyStatus
  <2>4. RefetchPolicy => UNCHANGED now
    BY DEF RefetchPolicy
  <2>5. UNCHANGED now
    BY <1>6, <2>2, <2>3, <2>4, Zenon DEF AuditStep
  <2> QED BY <1>1, <2>1, <2>5
<1>7. CASE AuditUser
  <2>1. UNCHANGED <<now, reconcilerVars>>
    BY <1>7 DEF AuditUser, Submit, Commit, RequestRevert, ApprovalFrame
  <2> QED BY <1>1, <2>1
<1>8. CASE UNCHANGED vars
  BY <1>1, <1>8 DEF vars, clusterVars
<1> QED BY <1>2, <1>3, <1>4, <1>5, <1>6, <1>7, <1>8 DEF Next

(* Two pipelines of a policy never start closer together than its          *)
(* duration, whatever status writes are lost and however often the         *)
(* operator restarts.                                                      *)
THEOREM TriggersAreSpaced == Spec => []TriggerSpacing
<1>1. PacingInv => TriggerSpacing
  BY DEF PacingInv
<1> QED BY <1>1, InitType, NextType, InitPacing, NextPacing, PTL DEF Spec

-----------------------------------------------------------------------------
(* What the policy's status remembers.  A trigger within the cooldown of   *)
(* the one before, or behind an open gate, is possible: the status write   *)
(* that was to prevent it may fail, conflict, or be lost with the process. *)
(* As long as the stored status does carry the trigger's time, or the      *)
(* reference to the gate, it is heeded, for any faults, restarts, edits    *)
(* and clients, if a cache is never a whole tick behind (Lag # "any").     *)
(*                                                                         *)
(* The reconcile reads a cache that may lack the last status write.  What  *)
(* saves it is the window: a trigger empties it before its status is       *)
(* written, so that until the cache has caught up no condition can have    *)
(* been sustained (Unread).  TimesInv says whose times lastTriggeredAt can *)
(* hold, WorkingCopy that a copy the server would still accept says what   *)
(* the server's does, unless it is a trigger's.                            *)

Closed(t) == \E a \in Audits : closed[a] = t
Fired(t)  == \E i \in 1..Len(fires) : fires[i] = t
Known(t)  == t = Never \/ Closed(t) \/ Fired(t)

TimesInv ==
  /\ Known(policy.last) /\ Known(policyCache.last)
  /\ pr.pc # "idle" => Known(pr.pol.last)
  /\ pr.pc = "create" => Fired(pr.at)
  /\ \A i \in 1..Len(fires) : fires[i] <= LastFire

ClosedInv ==
  /\ ar.pc \in {"refetch", "cooldown"} => Closed(ar.at)
  /\ \A a \in Audits : closed[a] # Never =>
       audit[a].phase \in {"Approved", "Denied", "Expired"}

WorkingCopy ==
  pr.pc # "idle" /\ "policyReconciler" \in policyFresh =>
    \/ pr.pol.last = policy.last /\ pr.pol.ref \in {policy.ref, NoAudit}
    \/ pr.pc = "requeue" /\ window = Never

Latest == window \in {Never, now}

InSight(a) ==
  policyCache.ref = a /\ auditCache[a].live /\ auditCache[a].phase = "Pending"

Remembered == fires # <<>> /\ policy.last = LastFire /\ ~Closed(LastFire)

Unread ==
  /\ Remembered /\ policyCache.last # LastFire => Latest
  /\ \A a \in OpenGates : policy.ref = a /\ ~InSight(a) => Latest

Heeded ==
  pr.pc = "run" => /\ Remembered => pr.at - LastFire >= Cooldown
                   /\ policy.ref \notin OpenGates

MemoryInv == TimesInv /\ ClosedInv /\ WorkingCopy /\ Unread /\ Heeded

LEMMA InitMemory == Init => MemoryInv
<1> SUFFICES ASSUME Init PROVE MemoryInv
  OBVIOUS
<1>1. /\ policy.last = Never /\ policyCache = policy
      /\ fires = <<>> /\ pr.pc = "idle" /\ ar.pc = "idle"
  BY DEF Init, ClusterInit, ReconcilerInit, AuditRecInit, PrIdle, ArIdle
<1>2. ASSUME NEW a \in Audits PROVE audit[a].phase = "" /\ closed[a] = Never
  BY DEF Init, ClusterInit, NoRecord, AuditRecInit
<1>3. TimesInv
  <2>1. 1..Len(fires) = {}
    BY <1>1
  <2> QED BY <1>1, <2>1 DEF TimesInv, Known
<1>4. OpenGates = {}
  BY <1>2 DEF OpenGates
<1> QED BY <1>1, <1>2, <1>3, <1>4
        DEF MemoryInv, ClosedInv, WorkingCopy, Unread, Heeded, Remembered

(* The facts about times the steps below use. *)
LEMMA MemoryTypes ==
  ASSUME TypeOK
  PROVE  /\ Time \subseteq Nat /\ Never \notin Time /\ Never = -1
         /\ now \in Time /\ window \in Time \cup {Never}
         /\ fires \in Seq(Time) /\ (fires # <<>> => LastFire \in Time)
         /\ \A i \in 1..Len(fires) : fires[i] \in Time
         /\ closed \in [Audits -> Time \cup {Never}]
         /\ Duration \in Nat \ {0} /\ Cooldown \in Nat \ {0}
         /\ pr.pc # "idle" => pr.pol \in PolicyObj /\ pr.at \in Time
         /\ policy \in PolicyObj /\ policyCache \in PolicyObj /\ NoAudit \notin Audits
<1>1. Time \subseteq Nat /\ Never = -1 /\ Never \notin Time
  BY ClusterAssumption DEF Time, Never
<1>2. fires \in Seq(Time) /\ (fires # <<>> => LastFire \in Time)
      /\ \A i \in 1..Len(fires) : fires[i] \in Time
  BY DEF TypeOK, ReconcilerTypeOK, LastFire
<1>3. pr.pc # "idle" => pr.pol \in PolicyObj /\ pr.at \in Time
  BY PrParts, OwnerTypes DEF TypeOK, ReconcilerTypeOK
<1> QED BY <1>1, <1>2, <1>3, ClusterAssumption, TimingAssumption
        DEF TypeOK, ClusterTypeOK, ReconcilerTypeOK, AuditRecTypeOK

(* A gate's closing time is written once. *)
Closures == \A a \in Audits : closed'[a] = closed[a] \/ closed[a] = Never

LEMMA ClosedGrows ==
  ASSUME TypeOK, Closures, NEW t \in Time, Closed(t)
  PROVE  Closed(t)'
BY MemoryTypes DEF Closed, Closures

(* A step in which the policy's reconciler does not move.  The policy's    *)
(* status stays, or it forgets the gate and takes a closing time.          *)
StatusMoves ==
  \/ /\ policy'.last = policy.last /\ policy'.ref = policy.ref
     /\ "policyReconciler" \in policyFresh' => "policyReconciler" \in policyFresh
  \/ /\ policy'.last = Never \/ Closed(policy'.last)
     /\ policy'.ref = NoAudit /\ "policyReconciler" \notin policyFresh'

LEMMA MemoryFrame ==
  ASSUME TypeOK, MemoryInv, UNCHANGED <<pr, window, fires, now>>, OpenGates' \subseteq OpenGates,
         policyCache' = policyCache \/ (policyCache' = policy /\ UNCHANGED policy),
         \A a \in Audits : auditCache'[a] = auditCache[a] \/ auditCache'[a] = audit[a],
         StatusMoves, Closures, ClosedInv',
         policy' \in PolicyObj
  PROVE  MemoryInv'
<1>1. LastFire' = LastFire /\ \A t : Fired(t)' <=> Fired(t)
  BY DEF LastFire, Fired
<1>2. ASSUME NEW t \in Time \cup {Never}, Known(t) PROVE Known(t)'
  BY <1>1, <1>2, ClosedGrows DEF Known
<1>3. policy.last \in Time \cup {Never} /\ policyCache.last \in Time \cup {Never}
      /\ (pr.pc # "idle" => pr.pol.last \in Time \cup {Never})
      /\ policy'.last \in Time \cup {Never}
  BY MemoryTypes DEF PolicyObj
<1>4. Known(policy.last) /\ Known(policyCache.last) /\ (pr.pc # "idle" => Known(pr.pol.last))
  BY DEF MemoryInv, TimesInv
<1>5. Known(policy'.last)
  BY <1>4 DEF StatusMoves, Known
<1>6. TimesInv'
  <2>1. Known(policy.last)' /\ Known(policyCache.last)'
    BY <1>2, <1>3, <1>4, <1>5
  <2>2. pr'.pc # "idle" => Known(pr.pol.last)'
    BY <1>2, <1>3, <1>4
  <2> QED BY <1>1, <2>1, <2>2 DEF MemoryInv, TimesInv
<1>7. WorkingCopy'
  BY DEF MemoryInv, WorkingCopy, StatusMoves
<1>8. Remembered' => Remembered /\ policy'.last = policy.last
  <2> SUFFICES ASSUME Remembered' PROVE Remembered /\ policy'.last = policy.last
    OBVIOUS
  <2>1. /\ fires # <<>> /\ policy'.last = LastFire /\ ~Closed(LastFire)' /\ LastFire \in Time
        /\ LastFire # Never
    BY <1>1, MemoryTypes DEF Remembered
  <2>2. ~Closed(LastFire)
    BY <1>1, <2>1, ClosedGrows
  <2>3. policy'.last = policy.last
    BY <2>1, <2>2 DEF StatusMoves, Closed
  <2> QED BY <2>1, <2>2, <2>3 DEF Remembered
<1>9. ASSUME NEW a \in OpenGates', policy'.ref = a
      PROVE  a \in OpenGates /\ policy.ref = a /\ (InSight(a) => InSight(a)')
  <2>1. a \in Audits /\ a \in OpenGates /\ policy.ref = a
    BY <1>9, MemoryTypes DEF OpenGates, StatusMoves
  <2>2. policyCache.ref = a => policyCache'.ref = a
    BY <2>1
  <2> QED BY <2>1, <2>2 DEF InSight, OpenGates
<1>10. Unread'
  <2>1. Latest' = Latest
    BY DEF Latest
  <2>2. Remembered' /\ policyCache'.last # LastFire => policyCache.last # LastFire
    BY <1>8 DEF Remembered
  <2> QED BY <1>1, <1>8, <1>9, <2>1, <2>2 DEF MemoryInv, Unread
<1>11. Heeded'
  BY <1>1, <1>8, <1>9, MemoryTypes DEF MemoryInv, Heeded, OpenGates
<1> QED BY <1>6, <1>7, <1>10, <1>11 DEF MemoryInv

(* Which gates are open: MarkPending opens one, SetPhase and the sweep     *)
(* close one, and no other write opens or closes any.                      *)
LEMMA GateKept ==
  ASSUME TypeOK, NEW a \in Audits, NEW new,
         audit' = [audit EXCEPT ![a] = new],
         new.live = audit[a].live, new.phase = audit[a].phase
  PROVE  OpenGates' = OpenGates
<1>1. audit \in [Audits -> AuditObj]
  BY DEF TypeOK, ClusterTypeOK
<1>2. \A b \in Audits : audit'[b].live = audit[b].live /\ audit'[b].phase = audit[b].phase
  BY <1>1
<1> QED BY <1>2 DEF OpenGates

LEMMA StatusFields ==
  ASSUME NEW x \in AuditObj, NEW y \in AuditObj
  PROVE  /\ WithStatus(x, y).live = x.live /\ WithStatus(x, y).phase = y.phase
         /\ WithSpec(x, y).live = x.live /\ WithSpec(x, y).phase = x.phase
         /\ \A e : WithGate(x, e).live = x.live /\ WithGate(x, e).phase = x.phase
         /\ [x EXCEPT !.live = FALSE].live = FALSE
         /\ [x EXCEPT !.revert = TRUE].live = x.live
         /\ [x EXCEPT !.revert = TRUE].phase = x.phase
         /\ [y EXCEPT !.reverted = TRUE].phase = y.phase
         /\ \A p : [y EXCEPT !.phase = p].phase = p
BY DEF WithStatus, WithSpec, WithGate, AuditObj

LEMMA OpenGatesStay ==
  ASSUME TypeOK, GateInv, OutcomeInv,
         \/ UNCHANGED audit
         \/ \E a \in Audits, r \in Outcomes : WriteAudit(a, r) \/ WriteGatedAudit(a, r)
         \/ \E r \in Outcomes : SetReverted(r) \/ RecordHeld(r)
         \/ \E u \in Users : Commit(u)
         \/ \E a \in Audits : RequestRevert(a)
  PROVE  OpenGates' = OpenGates
<1>0. audit \in [Audits -> AuditObj]
  BY DEF TypeOK, ClusterTypeOK
<1>1. CASE UNCHANGED audit
  BY <1>1 DEF OpenGates
<1>2. ASSUME NEW a \in Audits, NEW r \in Outcomes, WriteAudit(a, r) \/ WriteGatedAudit(a, r)
      PROVE  OpenGates' = OpenGates
  <2>1. audit[a].uid = 0 /\ (UNCHANGED audit \/ audit' = [audit EXCEPT ![a] = NewRecord])
    BY <1>2 DEF WriteAudit, WriteGatedAudit, CreateRecord
  <2>2. ~audit[a].live
    BY <2>1 DEF GateInv, RecordInv
  <2>3. NewRecord.phase = ""
    BY DEF NewRecord, NoRecord
  <2> HIDE DEF NewRecord
  <2>4. a \notin OpenGates
    BY <2>2 DEF OpenGates
  <2>5. CASE audit' = [audit EXCEPT ![a] = NewRecord]
    <3>1. audit'[a].phase = "" /\ \A b \in Audits \ {a} : audit'[b] = audit[b]
      BY <1>0, <2>3, <2>5
    <3> QED BY <2>4, <3>1 DEF OpenGates
  <2> QED BY <1>1, <2>1, <2>5
<1>3. ASSUME NEW r \in Outcomes, SetReverted(r)
      PROVE  OpenGates' = OpenGates
  <2>1. ar.pc = "reverted" /\ ar.a \in Audits /\ ar.copy \in AuditObj /\ audit[ar.a] \in AuditObj
    BY <1>3, OutcomeTypes DEF SetReverted
  <2>2. PICK x \in AuditObj : x = [ar.copy EXCEPT !.reverted = TRUE]
    BY <2>1, AuditEdits
  <2>3. x.phase = ar.copy.phase
    BY <2>1, <2>2, StatusFields
  <2>4. StoreAudit(ar.a, "auditReconciler", WithStatus(audit[ar.a], x),
                   HoldsCurrent(ar.a, "auditReconciler"), r)
    BY <1>3, <2>2 DEF SetReverted, UpdateAuditStatus
  <2>5. CASE /\ HoldsCurrent(ar.a, "auditReconciler")
             /\ audit' = [audit EXCEPT ![ar.a] = WithStatus(audit[ar.a], x)]
    <3>1. ar.copy.phase = audit[ar.a].phase
      BY <2>1, <2>5 DEF HoldsCurrent, OutcomeInv, WorkInv
    <3>2. /\ WithStatus(audit[ar.a], x).live = audit[ar.a].live
          /\ WithStatus(audit[ar.a], x).phase = audit[ar.a].phase
      BY <2>1, <2>3, <3>1, StatusFields
    <3> QED BY <2>1, <2>5, <3>2, GateKept
  <2> QED BY <1>1, <2>4, <2>5, StoreAuditEffect
<1>4. ASSUME NEW r \in Outcomes, RecordHeld(r)
      PROVE  OpenGates' = OpenGates
  <2>1. ar.pc = "held" /\ ar.a \in Audits /\ ar.copy \in AuditObj /\ audit[ar.a] \in AuditObj
    BY <1>4, OutcomeTypes DEF RecordHeld
  <2>2. StoreAudit(ar.a, "auditReconciler", WithSpec(audit[ar.a], ar.copy),
                   HoldsCurrent(ar.a, "auditReconciler"), r)
    BY <1>4 DEF RecordHeld, UpdateAuditSpec
  <2>3. /\ WithSpec(audit[ar.a], ar.copy).live = audit[ar.a].live
        /\ WithSpec(audit[ar.a], ar.copy).phase = audit[ar.a].phase
    BY <2>1, StatusFields
  <2>4. UNCHANGED audit \/ audit' = [audit EXCEPT ![ar.a] = WithSpec(audit[ar.a], ar.copy)]
    BY <2>2, StoreAuditEffect
  <2> QED BY <1>1, <2>1, <2>3, <2>4, GateKept
<1>5. ASSUME NEW u \in Users, Commit(u)
      PROVE  OpenGates' = OpenGates
  <2> DEFINE a == req[u].a
  <2>1. a \in Audits /\ audit[a] \in AuditObj
    BY <1>5, <1>0 DEF Commit, TypeOK, ApprovalTypeOK
  <2>2. UNCHANGED audit \/ audit' = [audit EXCEPT ![a] = WithGate(audit[a], req[u].edit)]
    BY <1>5 DEF Commit
  <2>3. /\ WithGate(audit[a], req[u].edit).live = audit[a].live
        /\ WithGate(audit[a], req[u].edit).phase = audit[a].phase
    BY <2>1, StatusFields
  <2> HIDE DEF a
  <2> QED BY <1>1, <2>1, <2>2, <2>3, GateKept
<1>6. ASSUME NEW a \in Audits, RequestRevert(a)
      PROVE  OpenGates' = OpenGates
  <2>1. audit' = [audit EXCEPT ![a] = [audit[a] EXCEPT !.revert = TRUE]]
    BY <1>6 DEF RequestRevert
  <2>2. /\ [audit[a] EXCEPT !.revert = TRUE].live = audit[a].live
        /\ [audit[a] EXCEPT !.revert = TRUE].phase = audit[a].phase
    BY <1>0, StatusFields
  <2> QED BY <2>1, <2>2, GateKept
<1> QED BY <1>1, <1>2, <1>3, <1>4, <1>5, <1>6

LEMMA SweepCloses ==
  ASSUME TypeOK, NEW a \in Audits, Sweep(a)
  PROVE  OpenGates' = OpenGates \ {a}
<1>1. audit \in [Audits -> AuditObj]
  BY DEF TypeOK, ClusterTypeOK
<1>2. audit' = [audit EXCEPT ![a] = [audit[a] EXCEPT !.live = FALSE]]
  BY DEF Sweep
<1>3. [audit[a] EXCEPT !.live = FALSE].live = FALSE
  BY <1>1, StatusFields
<1>4. ~audit'[a].live /\ \A b \in Audits \ {a} : audit'[b] = audit[b]
  BY <1>1, <1>2, <1>3
<1> QED BY <1>4 DEF OpenGates

LEMMA MarkOpens ==
  ASSUME TypeOK, NEW r \in Outcomes, MarkPending(r)
  PROVE  /\ OpenGates' \subseteq OpenGates \cup {pr.a}
         /\ r \notin {"ok", "lost"} => OpenGates' = OpenGates
<1>1. pr.pc = "mark" /\ pr.a \in Audits /\ audit \in [Audits -> AuditObj]
  BY PrParts DEF MarkPending, TypeOK, ReconcilerTypeOK, ClusterTypeOK
<1>2. /\ UNCHANGED audit \/ \E new : audit' = [audit EXCEPT ![pr.a] = new]
      /\ r \notin {"ok", "lost"} => UNCHANGED audit
  BY DEF MarkPending, UpdateAuditStatus, StoreAudit, Applied
<1>3. \A b \in Audits \ {pr.a} : audit'[b] = audit[b]
  BY <1>1, <1>2
<1> QED BY <1>1, <1>2, <1>3 DEF OpenGates

LEMMA PhaseCloses ==
  ASSUME TypeOK, NEW r \in Outcomes, SetPhase(r)
  PROVE  /\ OpenGates' \subseteq OpenGates
         /\ r = "ok" => ar.a \notin OpenGates'
         /\ r \notin {"ok", "lost"} => OpenGates' = OpenGates
<1>1. /\ ar.pc = "phase" /\ ar.a \in Audits /\ ar.copy \in AuditObj
      /\ audit \in [Audits -> AuditObj] /\ ar.phase \in {"Approved", "Denied", "Expired"}
  BY OutcomeTypes DEF SetPhase
<1>2. PICK x \in AuditObj : x = [ar.copy EXCEPT !.phase = ar.phase]
  BY <1>1, AuditEdits DEF Phases
<1>3. x.phase = ar.phase
  BY <1>1, <1>2, StatusFields
<1>4. StoreAudit(ar.a, "auditReconciler", WithStatus(audit[ar.a], x),
                 HoldsCurrent(ar.a, "auditReconciler"), r)
  BY <1>2 DEF SetPhase, UpdateAuditStatus
<1>5. WithStatus(audit[ar.a], x).phase # "Pending"
  BY <1>1, <1>3, StatusFields
<1>6. /\ UNCHANGED audit \/ audit' = [audit EXCEPT ![ar.a] = WithStatus(audit[ar.a], x)]
      /\ r = "ok" => audit' = [audit EXCEPT ![ar.a] = WithStatus(audit[ar.a], x)]
      /\ r \notin {"ok", "lost"} => UNCHANGED audit
  BY <1>4 DEF StoreAudit, Applied
<1>7. CASE audit' = [audit EXCEPT ![ar.a] = WithStatus(audit[ar.a], x)]
  <2>1. audit'[ar.a].phase # "Pending" /\ \A b \in Audits \ {ar.a} : audit'[b] = audit[b]
    BY <1>1, <1>5, <1>7
  <2> QED BY <1>1, <1>6, <2>1 DEF OpenGates
<1>8. CASE UNCHANGED audit /\ r # "ok"
  BY <1>8 DEF OpenGates
<1> QED BY <1>6, <1>7, <1>8

(* The caches answer with what the server has. *)
LEMMA FreshReads ==
  ASSUME OwnerInv, OutcomeInv, Synced
  PROVE  policyCache = policy /\ \A a \in Audits : auditCache[a] = audit[a]
BY DEF OwnerInv, CacheBehind, OutcomeInv, GateRecordInv, Synced

(* The reconcile of the policy, up to its first write: what it lets        *)
(* through was not remembered, or is over.                                 *)
LEMMA MemoryReads ==
  ASSUME TypeOK, OwnerInv, MemoryInv, UNCHANGED <<ar, closed>>,
         \/ AwaitApproval \/ CoolDown \/ RateLimited
         \/ \E forget \in BOOLEAN : EvaluationFails(forget)
         \/ \E crossed \in BOOLEAN : Evaluate(crossed)
  PROVE  MemoryInv'
<1>1. /\ UNCHANGED <<policy, policyCache, audit, auditCache, fires, now>> /\ ReadPolicy
      /\ pr.pc = "idle" /\ pr'.pc \in {"run", "requeue"} /\ pr'.at = now
      /\ pr'.pol \in {policyCache, PastGate0}
      /\ window' \in {window, Never, now}
  BY DEF AwaitApproval, CoolDown, RateLimited, EvaluationFails, Evaluate, PastGates,
     ObserveSince
<1>2. pr'.pc = "run" => /\ window # Never /\ now - window >= Duration
                        /\ ~CoolingDown(policyCache) /\ ~GateStillOpen(policyCache)
  BY TimingAssumption DEF AwaitApproval, CoolDown, RateLimited, EvaluationFails, Evaluate,
     PastGates, CrossedFor
<1>3. pr'.pol.last = policyCache.last /\ pr'.pol.ref \in {policyCache.ref, NoAudit}
  BY <1>1, MemoryTypes DEF PastGate0, PolicyObj
<1>4. "policyReconciler" \in policyFresh' => policyCache = policy
  BY <1>1 DEF ReadPolicy, ReadBy, OwnerInv, CacheBehind
<1>5. /\ LastFire' = LastFire /\ OpenGates' = OpenGates
      /\ \A t : Known(t)' <=> Known(t)
      /\ \A t : Closed(t)' <=> Closed(t)
      /\ \A a : InSight(a)' <=> InSight(a)
  BY <1>1 DEF LastFire, OpenGates, Known, Closed, Fired, InSight
<1>6. Remembered' <=> Remembered
  BY <1>1, <1>5 DEF Remembered
<1>7. TimesInv' /\ ClosedInv'
  BY <1>1, <1>3, <1>5 DEF MemoryInv, TimesInv, ClosedInv
<1>8. WorkingCopy'
  BY <1>1, <1>3, <1>4 DEF WorkingCopy
<1>9. Latest => Latest'
  BY <1>1 DEF Latest
<1>10. Unread'
  BY <1>1, <1>5, <1>6, <1>9 DEF MemoryInv, Unread
<1>11. ASSUME pr'.pc = "run"
       PROVE  /\ Remembered => now - LastFire >= Cooldown
              /\ policy.ref \notin OpenGates
  <2>1. ~Latest
    BY <1>2, <1>11, MemoryTypes DEF Latest
  <2>2. ASSUME Remembered PROVE now - LastFire >= Cooldown
    <3>1. policyCache.last = LastFire /\ LastFire \in Time
      BY <2>1, <2>2, MemoryTypes DEF MemoryInv, Unread, Remembered
    <3>2. ~(LastFire # Never /\ now - LastFire < Cooldown)
      BY <1>2, <1>11, <3>1 DEF CoolingDown
    <3> HIDE DEF LastFire
    <3> QED BY <3>1, <3>2, MemoryTypes
  <2>3. ASSUME policy.ref \in OpenGates PROVE FALSE
    <3>1. policy.ref \in Audits /\ InSight(policy.ref)
      BY <2>1, <2>3 DEF MemoryInv, Unread, OpenGates
    <3> QED BY <1>2, <1>11, <3>1, MemoryTypes DEF InSight, GateStillOpen
  <2> QED BY <2>2, <2>3
<1>12. Heeded'
  BY <1>1, <1>5, <1>6, <1>11 DEF Heeded
<1> QED BY <1>7, <1>8, <1>10, <1>12 DEF MemoryInv

(* A pipeline starts: nobody has remembered it yet. *)
LEMMA MemoryRun ==
  ASSUME TypeOK, PacingInv, MemoryInv, UNCHANGED <<ar, closed>>, RunPipeline
  PROVE  MemoryInv'
<1>1. /\ pr.pc = "run" /\ pr'.pc = "create" /\ pr'.at = pr.at /\ pr'.pol = pr.pol
      /\ fires' = Append(fires, pr.at)
      /\ UNCHANGED <<window, policy, policyCache, policyFresh, audit, auditCache, now>>
  BY DEF RunPipeline, clusterVars
<1>2. /\ pr.at \in Time /\ fires \in Seq(Time)
  BY <1>1, MemoryTypes
<1>3. /\ Len(fires') = Len(fires) + 1 /\ Len(fires) \in Nat /\ fires'[Len(fires) + 1] = pr.at
      /\ \A i \in 1..Len(fires) : fires'[i] = fires[i]
  BY <1>1, <1>2
<1>4. LastFire' = pr.at /\ fires' # <<>>
  BY <1>1, <1>3 DEF LastFire
<1>5. \A i \in 1..Len(fires) : fires[i] < pr.at
  <2> SUFFICES ASSUME NEW i \in 1..Len(fires) PROVE fires[i] < pr.at
    OBVIOUS
  <2>1. fires # <<>>
    BY <1>2
  <2>2. fires[i] <= LastFire /\ pr.at - LastFire >= Duration
    BY <1>1, <2>1 DEF MemoryInv, TimesInv, PacingInv
  <2>3. LastFire \in Nat /\ fires[i] \in Nat /\ Duration \in Nat \ {0} /\ pr.at \in Nat
    BY <1>2, <2>1, MemoryTypes
  <2> HIDE DEF LastFire
  <2> QED BY <2>2, <2>3
<1>6. /\ \A t : Closed(t)' <=> Closed(t)
      /\ \A t : Fired(t) => Fired(t)'
      /\ Fired(pr.at)'
  <2>1. \A t : Closed(t)' <=> Closed(t)
    BY DEF Closed
  <2>2. \A t : Fired(t) => Fired(t)'
    BY <1>3 DEF Fired
  <2>3. Len(fires) + 1 \in 1..Len(fires')
    BY <1>3
  <2>4. Fired(pr.at)'
    BY <1>1, <1>3, <2>3 DEF Fired
  <2> QED BY <2>1, <2>2, <2>4
<1>7. \A t : Known(t) => Known(t)'
  BY <1>6 DEF Known
<1>8. TimesInv'
  <2>1. ASSUME NEW i \in 1..Len(fires') PROVE fires'[i] <= pr.at
    <3>1. CASE i \in 1..Len(fires)
      BY <1>2, <1>3, <1>5, <3>1, MemoryTypes
    <3>2. CASE i = Len(fires) + 1
      BY <1>2, <1>3, <3>2, MemoryTypes
    <3> QED BY <1>3, <3>1, <3>2
  <2> QED BY <1>1, <1>4, <1>6, <1>7, <2>1 DEF MemoryInv, TimesInv
<1>9. ~Remembered'
  <2> SUFFICES ASSUME policy.last = pr.at, ~Closed(pr.at) PROVE FALSE
    BY <1>1, <1>4, <1>6 DEF Remembered
  <2>1. Known(policy.last) /\ pr.at # Never
    BY <1>2, MemoryTypes DEF MemoryInv, TimesInv
  <2>2. Fired(pr.at)
    BY <2>1 DEF Known
  <2>3. PICK i \in 1..Len(fires) : fires[i] = pr.at
    BY <2>2 DEF Fired
  <2> QED BY <1>2, <1>5, <2>3, MemoryTypes
<1>10. ClosedInv' /\ WorkingCopy'
  BY <1>1, <1>6 DEF MemoryInv, ClosedInv, WorkingCopy
<1>11. Unread'
  BY <1>1, <1>9 DEF MemoryInv, Unread, OpenGates, InSight, Latest
<1>12. Heeded'
  BY <1>1 DEF Heeded
<1> QED BY <1>8, <1>10, <1>11, <1>12 DEF MemoryInv

(* The writes of a reconcile that ran a pipeline: the window is emptied    *)
(* before the status is written.                                           *)
LEMMA MemoryWrites ==
  ASSUME TypeOK, OwnerInv, GateInv, OutcomeInv, MemoryInv, UNCHANGED <<ar, closed>>,
         ClosedInv',
         \/ ForgetPolicy \/ ResolveFails
         \/ \E a \in Audits, r \in Outcomes : WriteAudit(a, r) \/ WriteGatedAudit(a, r)
         \/ \E r \in Outcomes : MarkPending(r)
         \/ \E r \in Outcomes : Requeue(r)
  PROVE  MemoryInv'
<1>1. /\ UNCHANGED <<policyCache, auditCache, fires, now>>
      /\ LastFire' = LastFire
      /\ \A t : Known(t)' <=> Known(t)
      /\ \A t : Closed(t)' <=> Closed(t)
      /\ \A t : Fired(t)' <=> Fired(t)
      /\ \A a : InSight(a)' <=> InSight(a)
  <2>1. UNCHANGED <<policyCache, auditCache, fires, now>>
    BY DEF ForgetPolicy, ResolveFails, WriteAudit, WriteGatedAudit, MarkPending, Requeue,
       clusterVars
  <2> QED BY <2>1 DEF LastFire, Known, Closed, Fired, InSight
<1>2. ASSUME UNCHANGED policy PROVE Remembered' <=> Remembered
  BY <1>1, <1>2 DEF Remembered
<1>3. CASE ForgetPolicy
  <2>1. pr.pc = "idle" /\ UNCHANGED <<pr, policy>> /\ window' = Never
    BY <1>3 DEF ForgetPolicy, clusterVars
  <2> QED BY <1>1, <2>1
          DEF MemoryInv, TimesInv, WorkingCopy, Unread, Heeded, Latest
<1>4. CASE ResolveFails
  <2>1. /\ pr.pc = "run" /\ pr'.pc = "requeue" /\ pr'.pol = pr.pol
        /\ UNCHANGED <<window, policy, policyFresh, audit>>
    BY <1>4 DEF ResolveFails, PrRequeue, clusterVars
  <2> QED BY <1>1, <1>2, <2>1
          DEF MemoryInv, TimesInv, WorkingCopy, Unread, Heeded, Latest, OpenGates
<1>5. ASSUME NEW a \in Audits, NEW r \in Outcomes, WriteAudit(a, r) \/ WriteGatedAudit(a, r)
      PROVE  MemoryInv'
  <2>1. /\ pr.pc = "create" /\ UNCHANGED <<policy, policyFresh>>
        /\ pr'.pol \in {pr.pol, Triggered(pr.pol, pr.at)}
        /\ \/ pr'.pc = "requeue" /\ window' = Never
           \/ pr'.pc = "mark" /\ UNCHANGED window /\ pr'.pol = pr.pol
    BY <1>5 DEF WriteAudit, WriteGatedAudit, PrRequeue
  <2>2. Known(pr'.pol.last)
    BY <2>1, MemoryTypes DEF Triggered, PolicyObj, MemoryInv, TimesInv, Known
  <2>3. OpenGates' = OpenGates
    BY <1>5, OpenGatesStay
  <2> QED BY <1>1, <1>2, <2>1, <2>2, <2>3
          DEF MemoryInv, TimesInv, WorkingCopy, Unread, Heeded, Latest
<1>6. ASSUME NEW r \in Outcomes, MarkPending(r)
      PROVE  MemoryInv'
  <2>1. /\ pr.pc = "mark" /\ pr'.pc = "requeue" /\ window' = Never
        /\ UNCHANGED <<policy, policyFresh>>
        /\ pr'.pol \in {pr.pol, [pr.pol EXCEPT !.ref = pr.a]}
    BY <1>6 DEF MarkPending, PrRequeue
  <2>2. pr'.pol.last = pr.pol.last
    BY <2>1, MemoryTypes DEF PolicyObj
  <2> QED BY <1>1, <2>1, <2>2
          DEF MemoryInv, TimesInv, WorkingCopy, Unread, Heeded, Latest
<1>7. ASSUME NEW r \in Outcomes, Requeue(r)
      PROVE  MemoryInv'
  <2> DEFINE fresh == policy.live /\ "policyReconciler" \in policyFresh
  <2>1. /\ pr.pc = "requeue" /\ pr'.pc = "idle" /\ UNCHANGED <<audit, window>>
        /\ StorePolicy("policyReconciler", pr.pol, fresh, r)
    BY <1>7 DEF Requeue, UpdatePolicyStatus, PrIdle
  <2>2. \/ policy' = policy
        \/ fresh /\ policy'.ref = pr.pol.ref /\ policy'.last = pr.pol.last
    BY <2>1, StorePolicyEffect
  <2>3. OpenGates' = OpenGates /\ (Latest' <=> Latest) /\ OpenGates \subseteq Audits
    BY <1>1, <2>1 DEF OpenGates, Latest
  <2>4. TimesInv'
    BY <1>1, <2>1, <2>2 DEF MemoryInv, TimesInv
  <2>5. CASE policy' = policy
    BY <1>1, <1>2, <2>1, <2>3, <2>4, <2>5 DEF MemoryInv, WorkingCopy, Unread, Heeded
  <2>6. CASE window = Never
    BY <1>1, <2>1, <2>4, <2>6 DEF MemoryInv, WorkingCopy, Unread, Heeded, Latest
  <2>7. CASE policy'.last = policy.last /\ policy'.ref \in {policy.ref, NoAudit}
    <3>1. Remembered' <=> Remembered
      BY <1>1, <2>7 DEF Remembered
    <3>2. \A a \in OpenGates : policy'.ref = a => policy.ref = a
      BY <2>3, <2>7, MemoryTypes
    <3> QED BY <1>1, <2>1, <2>3, <2>4, <3>1, <3>2
            DEF MemoryInv, WorkingCopy, Unread, Heeded
  <2> QED BY <2>1, <2>2, <2>5, <2>6, <2>7 DEF MemoryInv, WorkingCopy
<1> QED BY <1>3, <1>4, <1>5, <1>6, <1>7

(* The records' reconciler.  It writes a closing time into the status and  *)
(* drops the reference.                                                    *)
LEMMA ClosedKept ==
  ASSUME TypeOK, OwnerInv, GateInv, OutcomeInv, ClosedInv, [Next]_vars, UNCHANGED closed,
         ar'.pc \in {"refetch", "cooldown"} =>
           ar.pc \in {"refetch", "cooldown"} /\ ar'.at = ar.at
  PROVE  ClosedInv'
<1>1. \A t : Closed(t)' <=> Closed(t)
  BY DEF Closed
<1>2. ASSUME NEW a \in Audits, closed'[a] # Never
      PROVE  audit'[a].phase \in {"Approved", "Denied", "Expired"}
  <2>1. audit[a].phase \in {"Approved", "Denied", "Expired"}
    BY <1>2 DEF ClosedInv
  <2> QED BY <2>1, PhasesFinal
<1> QED BY <1>1, <1>2 DEF ClosedInv

LEMMA MemoryAuditStep ==
  ASSUME TypeOK, OwnerInv, GateInv, OutcomeInv, MemoryInv, AuditStep, policy' \in PolicyObj
  PROVE  MemoryInv'
<1>0. UNCHANGED <<pr, window, fires>> /\ [Next]_vars
  <2>1. UNCHANGED <<pr, window, fires>>
    BY Zenon DEF AuditStep, AuditFrame, reconcilerVars
  <2> QED BY <2>1 DEF Next
<1>1. ClosedInv
  BY DEF MemoryInv
<1>2. ASSUME NEW a \in Audits,
             Sweep(a) \/ DenyGate(a) \/ ExpireGate(a) \/ ReleaseGate(a) \/ Revert(a)
      PROVE  MemoryInv'
  <2>1. /\ UNCHANGED <<now, policy, policyCache, auditCache, closed>>
        /\ ar' = ar \/ ar'.pc \in {"held", "phase", "reverted"}
        /\ policyFresh' = policyFresh \/ policyFresh' = ReadBy("auditReconciler", policyFresh)
    <3>1. CASE Sweep(a) \/ Revert(a)
      BY <3>1 DEF Sweep, Revert, auditRecVars
    <3>2. CASE DenyGate(a) \/ ExpireGate(a)
      BY <3>2 DEF DenyGate, ExpireGate, CloseGate
    <3>3. CASE ReleaseGate(a)
      BY <3>3 DEF ReleaseGate
    <3> QED BY <1>2, <3>1, <3>2, <3>3
  <2>2. OpenGates' \subseteq OpenGates
    <3>1. CASE Sweep(a)
      BY <3>1, SweepCloses
    <3>2. CASE DenyGate(a) \/ ExpireGate(a) \/ ReleaseGate(a) \/ Revert(a)
      BY <3>2 DEF DenyGate, ExpireGate, CloseGate, ReleaseGate, Revert, OpenGates
    <3> QED BY <1>2, <3>1, <3>2
  <2>3. StatusMoves /\ Closures
    BY <2>1 DEF StatusMoves, Closures, ReadBy
  <2>4. ClosedInv'
    BY <1>0, <1>1, <2>1, ClosedKept
  <2> QED BY <1>0, <2>1, <2>2, <2>3, <2>4, MemoryFrame
<1>3. ASSUME NEW r \in Outcomes, RecordHeld(r) \/ SetReverted(r)
      PROVE  MemoryInv'
  <2>1. /\ UNCHANGED <<now, policy, policyCache, policyFresh, auditCache, closed>>
        /\ ar'.pc \in {"idle", "phase"}
    <3>1. ar \in ArState
      BY DEF TypeOK, AuditRecTypeOK
    <3> QED BY <1>3, <3>1, ArParts DEF RecordHeld, SetReverted, ArIdle, ArState
  <2>2. OpenGates' = OpenGates
    BY <1>3, OpenGatesStay
  <2>3. StatusMoves /\ Closures
    BY <2>1 DEF StatusMoves, Closures
  <2>4. ClosedInv'
    BY <1>0, <1>1, <2>1, ClosedKept
  <2> QED BY <1>0, <2>1, <2>2, <2>3, <2>4, MemoryFrame
<1>4. ASSUME NEW r \in Outcomes, SetPhase(r)
      PROVE  MemoryInv'
  <2>1. /\ UNCHANGED <<now, policy, policyCache, policyFresh, auditCache>>
        /\ ar.pc = "phase" /\ ar.a \in Audits
        /\ closed' = IF Applied(r) THEN [closed EXCEPT ![ar.a] = now] ELSE closed
        /\ ar'.pc \in {"refetch", "cooldown"} => r = "ok" /\ ar'.at = now
    BY <1>4, OutcomeTypes DEF SetPhase, ArIdle
  <2>2. OpenGates' \subseteq OpenGates
    BY <1>4, PhaseCloses
  <2>3. CASE ~Applied(r)
    <3>1. UNCHANGED closed /\ ar'.pc \notin {"refetch", "cooldown"}
      BY <2>1, <2>3 DEF Applied
    <3>2. StatusMoves /\ Closures
      BY <2>1, <3>1 DEF StatusMoves, Closures
    <3>3. ClosedInv'
      BY <1>0, <1>1, <3>1, ClosedKept
    <3> QED BY <1>0, <2>1, <2>2, <3>2, <3>3, MemoryFrame
  <2>4. CASE Applied(r)
    <3>1. audit[ar.a].phase = "Pending" /\ audit'[ar.a].phase = ar.phase
      BY <1>4, <2>4, SetPhaseEffect, OutcomeTypes DEF Closing, Current
    <3>2. ar.phase \in {"Approved", "Denied", "Expired"}
      BY <2>1, OutcomeTypes
    <3>3. closed[ar.a] = Never
      BY <1>1, <2>1, <3>1 DEF ClosedInv
    <3>4. closed'[ar.a] = now /\ \A b \in Audits \ {ar.a} : closed'[b] = closed[b]
      BY <2>1, <2>4, MemoryTypes
    <3>5. StatusMoves /\ Closures
      BY <2>1, <3>3, <3>4 DEF StatusMoves, Closures
    <3>6. ClosedInv'
      <4>1. ar'.pc \in {"refetch", "cooldown"} => Closed(ar.at)'
        BY <2>1, <3>4 DEF Closed
      <4>2. ASSUME NEW b \in Audits, closed'[b] # Never
            PROVE  audit'[b].phase \in {"Approved", "Denied", "Expired"}
        <5>1. CASE b = ar.a
          BY <3>1, <3>2, <5>1
        <5>2. CASE b # ar.a
          <6>1. audit[b].phase \in {"Approved", "Denied", "Expired"}
            BY <1>1, <3>4, <4>2, <5>2 DEF ClosedInv
          <6> QED BY <1>0, <6>1, PhasesFinal
        <5> QED BY <5>1, <5>2
      <4> QED BY <4>1, <4>2 DEF ClosedInv
    <3> QED BY <1>0, <2>1, <2>2, <3>5, <3>6, MemoryFrame
  <2> QED BY <2>3, <2>4
<1>5. ASSUME RefetchPolicy PROVE MemoryInv'
  <2>1. /\ UNCHANGED <<now, policy, policyCache, audit, auditCache, closed>>
        /\ policyFresh' = ReadBy("auditReconciler", policyFresh)
        /\ ar.pc = "refetch"
        /\ ar'.pc \in {"refetch", "cooldown"} => ar'.at = ar.at
    BY <1>5 DEF RefetchPolicy, ArIdle
  <2>2. OpenGates' = OpenGates
    BY <2>1 DEF OpenGates
  <2>3. StatusMoves /\ Closures
    BY <2>1 DEF StatusMoves, Closures, ReadBy
  <2>4. ClosedInv'
    BY <1>0, <1>1, <2>1, ClosedKept
  <2> QED BY <1>0, <2>1, <2>2, <2>3, <2>4, MemoryFrame
<1>6. ASSUME NEW r \in Outcomes, StartCooldown(r)
      PROVE  MemoryInv'
  <2>1. /\ UNCHANGED <<now, policyCache, audit, auditCache, closed>>
        /\ ar.pc = "cooldown" /\ ar'.pc = "idle"
        /\ \E fresh : StorePolicy("auditReconciler", CooledDown(ar.pol, ar.at), fresh, r)
    BY <1>6 DEF StartCooldown, ArIdle, UpdatePolicyStatus
  <2>2. CooledDown(ar.pol, ar.at).last = ar.at /\ CooledDown(ar.pol, ar.at).ref = NoAudit
    <3>1. ar.pol \in PolicyObj
      BY <2>1, ArParts DEF TypeOK, AuditRecTypeOK
    <3> QED BY <3>1 DEF CooledDown, PolicyObj
  <2>3. \/ policy' = policy /\ policyFresh' \subseteq policyFresh
        \/ policy'.last = ar.at /\ policy'.ref = NoAudit /\ policyFresh' = {}
    BY <2>1, <2>2, StorePolicyEffect
  <2>4. Closed(ar.at)
    BY <1>1, <2>1 DEF ClosedInv
  <2>5. StatusMoves /\ Closures
    BY <2>1, <2>3, <2>4 DEF StatusMoves, Closures
  <2>6. ClosedInv'
    BY <1>0, <1>1, <2>1, ClosedKept
  <2>7. OpenGates' = OpenGates
    BY <2>1 DEF OpenGates
  <2> QED BY <1>0, <2>1, <2>5, <2>6, <2>7, MemoryFrame
<1> QED BY <1>2, <1>3, <1>4, <1>5, <1>6, Zenon DEF AuditStep

LEMMA NextMemory ==
  ASSUME Lag # "any", TypeOK, OwnerInv, GateInv, OutcomeInv, PacingInv, MemoryInv, [Next]_vars
  PROVE  MemoryInv'
<1>0. policy' \in PolicyObj
  BY NextType DEF TypeOK, ClusterTypeOK
<1>1. ClosedInv
  BY DEF MemoryInv
<1>2. CASE Clock
  <2>1. /\ Synced /\ UNCHANGED <<policy, policyCache, policyFresh, audit, auditCache>>
        /\ UNCHANGED <<pr, window, fires, ar, closed>>
    BY <1>2 DEF Clock, Tick, ClusterFrame, reconcilerVars, auditRecVars
  <2>2. policyCache = policy /\ \A a \in Audits : auditCache[a] = audit[a]
    BY <2>1, FreshReads
  <2>3. Unread'
    BY <2>1, <2>2 DEF Unread, Remembered, OpenGates, InSight
  <2>4. TimesInv' /\ ClosedInv' /\ WorkingCopy'
    BY <2>1 DEF MemoryInv, TimesInv, ClosedInv, WorkingCopy, Known, Closed, Fired, LastFire
  <2>5. Heeded'
    BY <2>1 DEF MemoryInv, Heeded, Remembered, Closed, LastFire, OpenGates
  <2> QED BY <2>3, <2>4, <2>5 DEF MemoryInv
<1>3. CASE Crash
  <2>1. /\ policyCache' = policy /\ UNCHANGED <<policy, audit, fires, closed>>
        /\ pr'.pc = "idle" /\ window' = Never /\ ar'.pc = "idle"
    BY <1>3 DEF Crash, RelistCaches, PrIdle, ArIdle
  <2> QED BY <2>1 DEF MemoryInv, TimesInv, ClosedInv, WorkingCopy, Unread, Heeded, Known, Closed,
             Fired, LastFire, Latest
<1>4. CASE Informer \/ PolicyUser \/ AuditUser \/ UNCHANGED vars
  <2>1. /\ UNCHANGED <<pr, window, fires, ar, closed, now>>
    <3>1. UNCHANGED <<reconcilerVars, auditRecVars>>
      <4>1. CASE Informer \/ PolicyUser \/ AuditUser
        BY <4>1, Zenon DEF Informer, PolicyUser, AuditUser, ClusterFrame, UserFrame,
           ApprovalFrame
      <4>2. CASE UNCHANGED vars
        BY <4>2 DEF vars
      <4> QED BY <1>4, <4>1, <4>2
    <3>2. UNCHANGED now
      BY <1>4 DEF Informer, SyncPolicy, SyncAudit, PolicyUser, EditPolicy, DeletePolicy,
         RecreatePolicy, AuditUser, Submit, Commit, RequestRevert, vars, clusterVars
    <3> QED BY <3>1, <3>2 DEF reconcilerVars, auditRecVars
  <2>2. OpenGates' = OpenGates
    <3>1. \/ UNCHANGED audit \/ (\E u \in Users : Commit(u))
          \/ (\E a \in Audits : RequestRevert(a))
      BY <1>4 DEF Informer, SyncPolicy, SyncAudit, PolicyUser, EditPolicy, DeletePolicy,
         RecreatePolicy, AuditUser, Submit, vars, clusterVars
    <3> QED BY <3>1, OpenGatesStay
  <2>3. StatusMoves
    <3>1. CASE Informer \/ AuditUser \/ UNCHANGED vars
      <4>1. UNCHANGED policy /\ policyFresh' \in {policyFresh, policyFresh \cup {"cache"}}
        BY <3>1 DEF Informer, SyncPolicy, SyncAudit, AuditUser, Submit, Commit, RequestRevert,
           vars, clusterVars
      <4> QED BY <4>1 DEF StatusMoves
    <3>2. CASE PolicyUser
      BY <3>2, MemoryTypes DEF PolicyUser, EditPolicy, DeletePolicy, RecreatePolicy,
         StatusMoves, PolicyObj
    <3> QED BY <1>4, <3>1, <3>2
  <2>4. policyCache' = policyCache \/ (policyCache' = policy /\ UNCHANGED policy)
    BY <1>4 DEF Informer, SyncPolicy, SyncAudit, PolicyUser, EditPolicy, DeletePolicy,
       RecreatePolicy, AuditUser, Submit, Commit, RequestRevert, vars, clusterVars
  <2>5. Closures /\ ClosedInv'
    BY <1>1, <2>1, ClosedKept DEF Closures
  <2> QED BY <1>0, <2>1, <2>2, <2>3, <2>4, <2>5, CacheSources, MemoryFrame
<1>5. CASE PolicyStep
  <2>1. UNCHANGED <<ar, closed>>
    BY <1>5, Zenon DEF PolicyStep, PolicyFrame, auditRecVars
  <2>2. ClosedInv'
    BY <1>1, <2>1, ClosedKept
  <2>3. \/ \/ AwaitApproval \/ CoolDown \/ RateLimited
           \/ \E forget \in BOOLEAN : EvaluationFails(forget)
           \/ \E crossed \in BOOLEAN : Evaluate(crossed)
        \/ RunPipeline
        \/ \/ ForgetPolicy \/ ResolveFails
           \/ \E a \in Audits, r \in Outcomes : WriteAudit(a, r) \/ WriteGatedAudit(a, r)
           \/ \E r \in Outcomes : MarkPending(r)
           \/ \E r \in Outcomes : Requeue(r)
    BY <1>5, Zenon DEF PolicyStep
  <2> QED BY <2>1, <2>2, <2>3, MemoryReads, MemoryRun, MemoryWrites, Zenon
<1>6. CASE AuditStep
  BY <1>0, <1>6, MemoryAuditStep
<1> QED BY <1>2, <1>3, <1>4, <1>5, <1>6 DEF Next

LEMMA MemoryInvariant ==
  ASSUME Lag # "any"
  PROVE  Spec => [](TypeOK /\ MemoryInv)
<1>1. TypeOK /\ OwnerInv /\ GateInv /\ OutcomeInv /\ PacingInv /\ MemoryInv /\ [Next]_vars
        => MemoryInv'
  BY NextMemory
<1> QED BY <1>1, InitMemory, InitPacing, NextPacing, OutcomeInvariant, PTL DEF Spec

(* A remembered trigger keeps the policy quiet for its cooldown.           *)
THEOREM RememberedTriggerHeeded ==
  ASSUME Lag # "any" PROVE Spec => []QuietWhileRemembered
<1>1. MemoryInv => QuietWhileRemembered
  BY DEF MemoryInv, Heeded, Remembered, Closed, QuietWhileRemembered
<1> QED BY <1>1, MemoryInvariant, PTL

(* A gate the policy's status refers to keeps the policy from starting     *)
(* another pipeline.                                                       *)
THEOREM ReferencedGateHeeded ==
  ASSUME Lag # "any" PROVE Spec => []HoldsWhileReferenced
<1>1. MemoryInv => HoldsWhileReferenced
  BY DEF MemoryInv, Heeded, HoldsWhileReferenced
<1> QED BY <1>1, MemoryInvariant, PTL

-----------------------------------------------------------------------------
(* The hourly cap.  Prompt: the caches catch up before the clock moves, a  *)
(* policy is polled at least once per duration (the poll interval defaults *)
(* to 30 s, which is the shortest duration admitted) and a record is kept  *)
(* for the hour it counts in.  Everything else may happen: failed and lost *)
(* calls, restarts, edits, a policy made anew.                             *)
Prompt ==
  /\ Lag # "any" /\ PollInterval <= Duration
  /\ Hour <= Retention /\ Hour <= DefaultRetention

Recorded(since) == {b \in Audits : audit[b].uid # 0 /\ audit[b].at > since}

(* A record is swept only once it counts no more, and is in the cache from *)
(* the tick after the one it was made in.                                  *)
RecordTimes(a) ==
  /\ audit[a].uid # 0 =>
       /\ audit[a].at <= audit[a].created /\ audit[a].created <= now
       /\ ~audit[a].live => audit[a].at <= now - Hour
       /\ audit[a].created < now => auditCache[a].uid # 0
  /\ auditCache[a].uid # 0 =>
       /\ auditCache[a].uid = audit[a].uid
       /\ auditCache[a].at = audit[a].at /\ auditCache[a].created = audit[a].created
       /\ audit[a].live => auditCache[a].live
  /\ auditCache[a].live => auditCache[a].uid # 0

(* No record is younger than the window, so a count taken after the window *)
(* opened has all of them: the count that lets a trigger through was, for  *)
(* it is not older than the poll interval and the window is.               *)
CountInv ==
  window # Never /\ pr.pc # "mark" =>
    /\ \A a \in Audits : audit[a].uid # 0 => audit[a].created <= window
    /\ lim.has /\ lim.at > window => Cardinality(Recorded(lim.at - Hour)) <= lim.n

(* A trigger under way is later than every record, and there is room for   *)
(* its own.                                                                *)
RoomInv ==
  pr.pc \in {"run", "create"} =>
    /\ \A a \in Audits : audit[a].uid # 0 => audit[a].at < pr.at
    /\ Cardinality(Recorded(pr.at - Hour)) < MaxTriggers

CapInv ==
  /\ \A a \in Audits : RecordTimes(a)
  /\ lim.has => lim.at <= now
  /\ CountInv /\ RoomInv
  /\ HourlyCap

LEMMA InitCap == Init => CapInv
<1> SUFFICES ASSUME Init PROVE CapInv
  OBVIOUS
<1>1. ASSUME NEW a \in Audits
      PROVE  audit[a].uid = 0 /\ auditCache[a].uid = 0 /\ ~auditCache[a].live
  BY DEF Init, ClusterInit, NoRecord
<1>2. window = Never /\ pr.pc = "idle" /\ ~lim.has
  BY DEF Init, ReconcilerInit, PrIdle, NoEntry
<1> QED BY <1>1, <1>2 DEF CapInv, RecordTimes, CountInv, RoomInv, HourlyCap

LEMMA CapTypes ==
  ASSUME TypeOK
  PROVE  /\ now \in Nat /\ Hour \in Nat /\ Hour > 0 /\ MaxTriggers \in Nat
         /\ Duration \in Nat /\ Duration > 0 /\ PollInterval \in Nat
         /\ Retention \in Nat /\ DefaultRetention \in Nat
         /\ window \in Int /\ Never \in Int /\ lim.at \in Nat /\ lim.n \in Nat
         /\ pr.pc \in {"run", "requeue", "create", "mark"} => pr.at \in Nat
         /\ \A a \in Audits : /\ audit[a].at \in Nat /\ audit[a].created \in Nat
                              /\ auditCache[a].at \in Nat /\ auditCache[a].created \in Nat
                              /\ audit[a].uid \in Nat /\ auditCache[a].uid \in Nat
<1>1. (\A t \in Time : t \in Nat) /\ Never \in Int
  BY ClusterAssumption DEF Time, Never
<1>2. ASSUME NEW x \in AuditObj PROVE x.at \in Nat /\ x.created \in Nat /\ x.uid \in Nat
  <2>1. x.at \in Time /\ x.created \in Time /\ x.uid \in 0..MaxUid
    BY DEF AuditObj
  <2>2. x.uid \in Nat
    BY <2>1, ClusterAssumption
  <2> QED BY <1>1, <2>1, <2>2
<1>3. audit \in [Audits -> AuditObj] /\ auditCache \in [Audits -> AuditObj] /\ now \in Time
  BY DEF TypeOK, ClusterTypeOK
<1>4. /\ window \in Time \cup {Never} /\ lim \in [has : BOOLEAN, at : Time, n : Nat]
      /\ pr \in PrState
  BY DEF TypeOK, ReconcilerTypeOK
<1>5. pr.pc \in {"run", "requeue", "create", "mark"} => pr.at \in Time
  BY <1>4, PrParts
<1>6. \A a \in Audits : audit[a] \in AuditObj /\ auditCache[a] \in AuditObj
  BY <1>3
<1>7. lim.at \in Time /\ lim.n \in Nat
  BY <1>4
<1>8. window \in Int /\ now \in Nat /\ lim.at \in Nat
  BY <1>1, <1>3, <1>4, <1>7
<1>9. /\ Hour \in Nat /\ Hour > 0 /\ MaxTriggers \in Nat
      /\ Duration \in Nat /\ Duration > 0 /\ PollInterval \in Nat
      /\ Retention \in Nat /\ DefaultRetention \in Nat
  BY TimingAssumption, RetentionAssumption
<1> QED BY <1>1, <1>2, <1>5, <1>6, <1>7, <1>8, <1>9

LEMMA RecordedFinite ==
  ASSUME NEW S \in SUBSET Audits
  PROVE  IsFiniteSet(S) /\ Cardinality(S) \in Nat
BY ClusterAssumption, FS_Subset, FS_CardinalityType

(* The further back one counts, the more records. *)
LEMMA RecordedMonotone ==
  ASSUME TypeOK, NEW s \in Int, NEW t \in Int, s <= t
  PROVE  Cardinality(Recorded(t)) <= Cardinality(Recorded(s))
<1>1. Recorded(s) \in SUBSET Audits /\ IsFiniteSet(Recorded(s))
  BY RecordedFinite DEF Recorded
<1>2. Recorded(t) \in SUBSET Recorded(s)
  BY CapTypes DEF Recorded
<1> QED BY <1>1, <1>2, FS_Subset

(* The records, and with them every count of them, stay as they are when   *)
(* none is made.                                                           *)
Kept == \A a \in Audits : SameRecord(audit'[a], audit[a])

LEMMA CountsKept ==
  ASSUME Kept
  PROVE  /\ \A s : Recorded(s)' = Recorded(s)
         /\ HourlyCap => HourlyCap'
<1>1. \A s : Recorded(s)' = Recorded(s)
  BY DEF Kept, SameRecord, Recorded
<1>2. ASSUME HourlyCap, NEW a \in Audits, audit'[a].uid # 0
      PROVE  Cardinality({b \in Audits : /\ audit'[b].uid # 0
                                         /\ audit'[b].at <= audit'[a].at
                                         /\ audit'[b].at > audit'[a].at - Hour}) <= MaxTriggers
  <2>1. {b \in Audits : /\ audit'[b].uid # 0
                        /\ audit'[b].at <= audit'[a].at
                        /\ audit'[b].at > audit'[a].at - Hour}
        = {b \in Audits : /\ audit[b].uid # 0
                          /\ audit[b].at <= audit[a].at
                          /\ audit[b].at > audit[a].at - Hour}
    BY DEF Kept, SameRecord
  <2>2. audit[a].uid # 0
    BY <1>2 DEF Kept, SameRecord
  <2> QED BY <1>2, <2>1, <2>2 DEF HourlyCap
<1> QED BY <1>1, <1>2 DEF HourlyCap

(* A step that makes no record and begins no trigger, and counts only when *)
(* the window is empty.                                                    *)
LEMMA CapFrame ==
  ASSUME CapInv, Kept, \A a \in Audits : RecordTimes(a)', lim'.has => lim'.at <= now',
         window' = Never \/ pr'.pc = "mark" \/ (UNCHANGED <<window, lim>> /\ pr.pc # "mark"),
         pr'.pc \in {"run", "create"} => pr.pc \in {"run", "create"} /\ pr'.at = pr.at
  PROVE  CapInv'
<1>1. (\A s : Recorded(s)' = Recorded(s)) /\ HourlyCap'
  BY CountsKept DEF CapInv
<1>2. \A a \in Audits : /\ audit'[a].uid = audit[a].uid /\ audit'[a].at = audit[a].at
                        /\ audit'[a].created = audit[a].created
  BY DEF Kept, SameRecord
<1>3. CountInv'
  <2> SUFFICES ASSUME window' # Never, pr'.pc # "mark"
               PROVE  /\ \A a \in Audits : audit'[a].uid # 0 => audit'[a].created <= window'
                      /\ lim'.has /\ lim'.at > window' =>
                           Cardinality(Recorded(lim.at - Hour)') <= lim'.n
    BY DEF CountInv
  <2>1. window' = window /\ lim' = lim /\ window # Never /\ pr.pc # "mark"
    OBVIOUS
  <2> QED BY <1>1, <1>2, <2>1 DEF CapInv, CountInv
<1>4. RoomInv'
  <2> SUFFICES ASSUME pr'.pc \in {"run", "create"}
               PROVE  /\ \A a \in Audits : audit'[a].uid # 0 => audit'[a].at < pr'.at
                      /\ Cardinality(Recorded(pr.at - Hour)') < MaxTriggers
    BY DEF RoomInv
  <2> QED BY <1>1, <1>2 DEF CapInv, RoomInv
<1> QED BY <1>1, <1>3, <1>4 DEF CapInv

(* What a record's times come to when it is kept or swept: the sweep takes *)
(* it a retention after it was made, and the clock waits for the cache.    *)
LEMMA TimesKept ==
  ASSUME Prompt, TypeOK, GateInv, OutcomeInv, [Next]_vars, NEW a \in Audits, RecordTimes(a),
         SameRecord(audit'[a], audit[a]), Lives(a)
  PROVE  RecordTimes(a)'
<1>1. /\ audit'[a].uid = audit[a].uid /\ audit'[a].at = audit[a].at
      /\ audit'[a].created = audit[a].created
  BY DEF SameRecord
<1>2. auditCache'[a] = auditCache[a] \/ auditCache'[a] = audit[a]
  BY CacheSources
<1>3. now' = now \/ (now' = now + 1 /\ auditCache'[a] = audit[a])
  <2>1. CASE Clock
    <3>1. Synced /\ now' = now + 1 /\ UNCHANGED auditCache
      BY <2>1 DEF Clock, Tick, Prompt
    <3>2. auditCache[a] = audit[a]
      BY <3>1 DEF Synced, OutcomeInv, GateRecordInv
    <3> QED BY <3>1, <3>2
  <2> QED BY <2>1, ClockMoves
<1>4. Sweep(a) => now' = now /\ (audit[a].uid # 0 => audit[a].at <= now - Hour)
  <2> SUFFICES ASSUME Sweep(a), audit[a].uid # 0
               PROVE  audit[a].at <= now - Hour
    BY DEF Sweep
  <2>1. auditCache[a].live /\ now >= auditCache[a].created + RetentionFor
    BY DEF Sweep, Lapsed
  <2>2. auditCache[a].created = audit[a].created /\ audit[a].at <= audit[a].created
    BY <2>1 DEF RecordTimes
  <2>3. RetentionFor \in Nat /\ Hour <= RetentionFor
    BY CapTypes DEF RetentionFor, Prompt
  <2> QED BY <2>1, <2>2, <2>3, CapTypes
<1>5. audit[a].uid = 0 => ~audit[a].live
  BY DEF GateInv, RecordInv
<1>6. /\ audit'[a].live => audit[a].live
      /\ ~audit'[a].live => ~audit[a].live \/ Sweep(a)
  BY DEF Lives
<1>7. /\ now \in Nat /\ Hour \in Nat /\ audit[a].at \in Nat /\ audit[a].created \in Nat
  BY CapTypes
<1>8. ASSUME audit[a].uid # 0
      PROVE  /\ audit[a].at <= audit[a].created /\ audit[a].created <= now'
             /\ ~audit'[a].live => audit[a].at <= now' - Hour
             /\ audit[a].created < now' => auditCache'[a].uid # 0
  <2>1. /\ audit[a].at <= audit[a].created /\ audit[a].created <= now
        /\ ~audit[a].live => audit[a].at <= now - Hour
        /\ audit[a].created < now => auditCache[a].uid # 0
    BY <1>8 DEF RecordTimes
  <2>2. ~audit'[a].live => audit[a].at <= now - Hour
    BY <1>4, <1>6, <1>8, <2>1
  <2>3. audit[a].created < now' => auditCache'[a].uid # 0
    BY <1>2, <1>3, <1>8, <2>1
  <2> QED BY <1>3, <1>7, <2>1, <2>2, <2>3
<1>9. ASSUME auditCache'[a].uid # 0
      PROVE  /\ auditCache'[a].uid = audit[a].uid
             /\ auditCache'[a].at = audit[a].at /\ auditCache'[a].created = audit[a].created
             /\ audit'[a].live => auditCache'[a].live
  BY <1>2, <1>6, <1>9, Zenon DEF RecordTimes
<1>10. auditCache'[a].live => auditCache'[a].uid # 0
  BY <1>2, <1>5 DEF RecordTimes
<1> QED BY <1>1, <1>8, <1>9, <1>10 DEF RecordTimes

(* A count taken while the window is open has every record that counts:    *)
(* they are older than the window, hence in the cache, and those that were *)
(* swept are too old.                                                      *)
LEMMA CountIsFull ==
  ASSUME TypeOK, PacingInv, CapInv, pr.pc = "idle", window # Never
  PROVE  /\ CountEntry.at \in Nat /\ CountEntry.n \in Nat /\ CountEntry.at <= now
         /\ CountEntry.at > window =>
              Cardinality(Recorded(CountEntry.at - Hour)) <= CountEntry.n
<1> DEFINE L == {a \in Audits : auditCache[a].live /\ auditCache[a].at > now - Hour}
<1>1. IsFiniteSet(L) /\ Cardinality(L) \in Nat /\ Listed = Cardinality(L)
  BY RecordedFinite DEF Listed
<1>2. CASE Cached
  <2>1. CountEntry = lim /\ lim.has
    BY <1>2 DEF CountEntry, Cached
  <2> QED BY <2>1, CapTypes DEF CapInv, CountInv
<1>3. CASE ~Cached
  <2>1. CountEntry.at = now /\ CountEntry.n = Cardinality(L)
    BY <1>1, <1>3 DEF CountEntry
  <2>2. ASSUME window < now PROVE Recorded(now - Hour) \in SUBSET L
    <3>1. ASSUME NEW b \in Audits, audit[b].uid # 0, audit[b].at > now - Hour PROVE b \in L
      <4>1. RecordTimes(b) /\ audit[b].created <= window
        BY <3>1 DEF CapInv, CountInv
      <4>2. /\ audit[b].created \in Nat /\ audit[b].at \in Nat /\ now \in Nat
            /\ Hour \in Nat /\ window \in Int
        BY CapTypes
      <4>3. audit[b].created < now
        BY <2>2, <4>1, <4>2
      <4>4. audit[b].live
        BY <3>1, <4>1, <4>2 DEF RecordTimes
      <4>5. auditCache[b].uid # 0
        BY <3>1, <4>1, <4>3 DEF RecordTimes
      <4> QED BY <3>1, <4>1, <4>4, <4>5 DEF RecordTimes
    <3> QED BY <3>1 DEF Recorded
  <2>3. window < now => Cardinality(Recorded(now - Hour)) <= Cardinality(L)
    BY <1>1, <2>2, FS_Subset
  <2> QED BY <1>1, <2>1, <2>3, CapTypes
<1> QED BY <1>2, <1>3

(* Gate 2 and what follows it: the count is kept, the window may open or   *)
(* be emptied, and a trigger begins when the window has lasted.            *)
LEMMA CountedCap ==
  ASSUME Prompt, TypeOK, PacingInv, CapInv, pr.pc = "idle", lim' = CountEntry,
         UNCHANGED <<now, audit, auditCache>>,
         pr'.pc \in {"run", "requeue"}, pr'.at = now,
         window' \in {Never, window} \/ (window = Never /\ window' = now),
         pr'.pc = "run" => /\ Allowed /\ window # Never /\ window' = window
                           /\ now - window >= Duration
  PROVE  CapInv'
<1>1. (\A a \in Audits : RecordTimes(a)') /\ Kept
  BY DEF CapInv, RecordTimes, Kept, SameRecord
<1>2. (\A s : Recorded(s)' = Recorded(s)) /\ HourlyCap'
  BY <1>1, CountsKept DEF CapInv
<1>3. CountEntry.at \in Nat /\ CountEntry.n \in Nat /\ CountEntry.at <= now
  <2>1. Listed \in Nat
    BY RecordedFinite DEF Listed
  <2>2. CASE Cached
    BY <2>2, CapTypes DEF CountEntry, Cached, CapInv
  <2>3. CASE ~Cached
    BY <2>1, <2>3, CapTypes DEF CountEntry
  <2> QED BY <2>2, <2>3
<1>4. CountInv'
  <2> SUFFICES ASSUME window' # Never
               PROVE  /\ \A a \in Audits : audit[a].uid # 0 => audit[a].created <= window'
                      /\ lim'.at > window' => Cardinality(Recorded(lim.at - Hour)') <= lim'.n
    BY DEF CountInv
  <2>0. Recorded(lim.at - Hour)' = Recorded(CountEntry.at - Hour)
    BY <1>2
  <2>1. CASE window' = window
    BY <2>0, <2>1, CountIsFull DEF CapInv, CountInv
  <2>2. CASE window' = now
    BY <1>3, <2>2, CapTypes DEF CapInv, RecordTimes
  <2> QED BY <2>1, <2>2
<1>5. RoomInv'
  <2> SUFFICES ASSUME pr'.pc = "run"
               PROVE  /\ \A a \in Audits : audit[a].uid # 0 => audit[a].at < now
                      /\ Cardinality(Recorded(now - Hour)') < MaxTriggers
    BY DEF RoomInv
  <2>1. /\ now \in Nat /\ window \in Int /\ Duration \in Nat /\ Duration > 0
        /\ PollInterval \in Nat /\ PollInterval <= Duration /\ Hour \in Nat
        /\ lim.at \in Nat /\ MaxTriggers \in Nat
    BY CapTypes DEF Prompt
  <2>2. window < now
    BY <2>1
  <2>3. ASSUME NEW a \in Audits, audit[a].uid # 0 PROVE audit[a].at < now
    <3>1. audit[a].created <= window /\ audit[a].at <= audit[a].created
      BY <2>3 DEF CapInv, CountInv, RecordTimes
    <3> QED BY <2>1, <2>2, <3>1, CapTypes
  <2>4. CountEntry.at > window
    <3>1. CASE Cached
      BY <2>1, <3>1 DEF CountEntry, Cached
    <3>2. CASE ~Cached
      BY <2>2, <3>2 DEF CountEntry
    <3> QED BY <3>1, <3>2
  <2>5. Cardinality(Recorded(CountEntry.at - Hour)) <= CountEntry.n
    BY <2>4, CountIsFull
  <2>6. Cardinality(Recorded(now - Hour)) <= Cardinality(Recorded(CountEntry.at - Hour))
    BY <1>3, <2>1, RecordedMonotone
  <2>7. CountEntry.n < MaxTriggers
    BY DEF Allowed
  <2>8. /\ Cardinality(Recorded(now - Hour)) \in Nat
        /\ Cardinality(Recorded(CountEntry.at - Hour)) \in Nat
    BY RecordedFinite DEF Recorded
  <2> HIDE DEF Recorded
  <2> QED BY <1>2, <1>3, <2>1, <2>3, <2>5, <2>6, <2>7, <2>8
<1> QED BY <1>1, <1>2, <1>3, <1>4, <1>5 DEF CapInv

(* The record of a trigger: it is the latest there is, and RoomInv left    *)
(* room for it in the hour it ends.                                        *)
LEMMA CreateCap ==
  ASSUME TypeOK, GateInv, PacingInv, CapInv, NEW a \in Audits, NEW r \in Outcomes,
         WriteAudit(a, r) \/ WriteGatedAudit(a, r)
  PROVE  CapInv'
<1>0. /\ pr.pc = "create" /\ CreateRecord(a, r) /\ UNCHANGED <<now, auditCache>>
      /\ \/ pr'.pc = "requeue" /\ window' = Never
         \/ pr'.pc = "mark"
      /\ lim' = lim \/ lim' = Observed(lim, pr.at)
  <2>1. CASE WriteAudit(a, r)
    BY <2>1 DEF WriteAudit, PrRequeue
  <2>2. CASE WriteGatedAudit(a, r)
    BY <2>2 DEF WriteGatedAudit, PrRequeue
  <2> QED BY <2>1, <2>2
<1>1. /\ pr.pc = "create" /\ CreateRecord(a, r) /\ audit[a].uid = 0
      /\ UNCHANGED <<now, auditCache>>
      /\ \/ pr'.pc = "requeue" /\ window' = Never
         \/ pr'.pc = "mark"
      /\ lim' \in {lim, Observed(lim, pr.at)}
  BY <1>0 DEF CreateRecord
<1>2. pr.at \in Nat /\ pr.at <= now /\ now \in Nat /\ Hour \in Nat /\ Hour > 0
      /\ MaxTriggers \in Nat
  BY <1>1, CapTypes DEF PacingInv
<1>3. lim'.has => lim'.at <= now'
  <2>1. lim \in [has : BOOLEAN, at : Time, n : Nat]
    BY DEF TypeOK, ReconcilerTypeOK
  <2>2. Observed(lim, pr.at).has => Observed(lim, pr.at).at = pr.at
    BY <2>1 DEF Observed
  <2> QED BY <1>1, <1>2, <2>2 DEF CapInv
<1>4. CountInv' /\ RoomInv'
  BY <1>1 DEF CountInv, RoomInv
<1>5. CASE UNCHANGED audit
  <2>1. (\A b \in Audits : RecordTimes(b)') /\ Kept
    BY <1>1, <1>5 DEF CapInv, RecordTimes, Kept, SameRecord
  <2>2. HourlyCap'
    BY <2>1, CountsKept DEF CapInv
  <2> QED BY <1>3, <1>4, <2>1, <2>2 DEF CapInv
<1>6. CASE audit' = [audit EXCEPT ![a] = NewRecord]
  <2>1. /\ NewRecord.uid = pr.pol.uid /\ NewRecord.at = pr.at /\ NewRecord.created = now
        /\ NewRecord.live
    BY DEF NewRecord, NoRecord
  <2> HIDE DEF NewRecord
  <2>2. audit \in [Audits -> AuditObj]
    BY DEF TypeOK, ClusterTypeOK
  <2>3. audit'[a] = NewRecord /\ \A b \in Audits : b # a => audit'[b] = audit[b]
    BY <1>6, <2>2
  <2>4. NewRecord.uid # 0
    <3>1. pr.pol.uid \in Nat /\ pr.pol.uid > 0
      BY <1>1, OwnerTypes
    <3> QED BY <2>1, <3>1
  <2>5. ASSUME NEW b \in Audits PROVE RecordTimes(b)'
    <3>1. RecordTimes(b)
      BY DEF CapInv
    <3>2. CASE b # a
      BY <1>1, <2>3, <3>1, <3>2 DEF RecordTimes
    <3>3. CASE b = a
      <4>1. auditCache[a].uid = 0 /\ ~auditCache[a].live
        BY <1>1, <3>1, <3>3 DEF RecordTimes
      <4> QED BY <1>1, <1>2, <2>1, <2>3, <3>3, <4>1 DEF RecordTimes
    <3> QED BY <3>2, <3>3
  <2>6. /\ \A b \in Audits : audit[b].uid # 0 => audit[b].at < pr.at
        /\ Cardinality(Recorded(pr.at - Hour)) < MaxTriggers
    BY <1>1 DEF CapInv, RoomInv
  <2>7. ASSUME NEW c \in Audits, audit'[c].uid # 0
        PROVE  Cardinality({b \in Audits : /\ audit'[b].uid # 0
                                           /\ audit'[b].at <= audit'[c].at
                                           /\ audit'[b].at > audit'[c].at - Hour}) <= MaxTriggers
    <3> DEFINE S == {b \in Audits : /\ audit'[b].uid # 0
                                    /\ audit'[b].at <= audit'[c].at
                                    /\ audit'[b].at > audit'[c].at - Hour}
    <3>1. CASE c = a
      <4>1. audit'[c].at = pr.at
        BY <2>1, <2>3, <3>1
      <4>2. \A b \in Audits : audit'[b].uid # 0 /\ b # a => b \in Recorded(pr.at - Hour)
                                                   \/ ~(audit'[b].at > pr.at - Hour)
        BY <2>3 DEF Recorded
      <4>3. S \in SUBSET (Recorded(pr.at - Hour) \cup {a})
        BY <4>1, <4>2
      <4>4. /\ IsFiniteSet(Recorded(pr.at - Hour))
            /\ Cardinality(Recorded(pr.at - Hour)) \in Nat
        BY RecordedFinite DEF Recorded
      <4>5. /\ IsFiniteSet(Recorded(pr.at - Hour) \cup {a})
            /\ Cardinality(Recorded(pr.at - Hour) \cup {a}) <= MaxTriggers
            /\ Cardinality(Recorded(pr.at - Hour) \cup {a}) \in Nat
        <5>1. /\ IsFiniteSet(Recorded(pr.at - Hour) \cup {a})
              /\ Cardinality(Recorded(pr.at - Hour) \cup {a})
                   = IF a \in Recorded(pr.at - Hour) THEN Cardinality(Recorded(pr.at - Hour))
                     ELSE Cardinality(Recorded(pr.at - Hour)) + 1
          BY <4>4, FS_AddElement
        <5> HIDE DEF Recorded
        <5> QED BY <1>2, <2>6, <4>4, <5>1
      <4>6. Cardinality(S) <= Cardinality(Recorded(pr.at - Hour) \cup {a})
        BY <4>3, <4>5, FS_Subset
      <4>7. Cardinality(S) \in Nat
        BY RecordedFinite
      <4> HIDE DEF S
      <4> QED BY <1>2, <4>5, <4>6, <4>7 DEF S
    <3>2. CASE c # a
      <4>1. audit'[c] = audit[c] /\ audit[c].uid # 0 /\ audit[c].at < pr.at
        BY <2>3, <2>6, <2>7, <3>2
      <4>2. audit[c].at \in Nat /\ ~(audit'[a].at <= audit[c].at)
        BY <1>2, <2>1, <2>3, <4>1, CapTypes
      <4>3. S = {b \in Audits : /\ audit[b].uid # 0
                                /\ audit[b].at <= audit[c].at
                                /\ audit[b].at > audit[c].at - Hour}
        <5>1. ASSUME NEW b \in Audits
              PROVE  b \in S <=> /\ audit[b].uid # 0
                                 /\ audit[b].at <= audit[c].at
                                 /\ audit[b].at > audit[c].at - Hour
          <6>1. CASE b = a
            BY <1>1, <4>1, <4>2, <6>1
          <6>2. CASE b # a
            BY <2>3, <4>1, <6>2
          <6> QED BY <6>1, <6>2
        <5> QED BY <5>1
      <4> QED BY <4>1, <4>3 DEF CapInv, HourlyCap
    <3> QED BY <3>1, <3>2
  <2> QED BY <1>3, <1>4, <2>5, <2>7 DEF CapInv, HourlyCap
<1> QED BY <1>1, <1>5, <1>6 DEF CreateRecord

LEMMA NextCap ==
  ASSUME Prompt, TypeOK, GateInv, OutcomeInv, PacingInv, CapInv, [Next]_vars
  PROVE  CapInv'
<1>1. ASSUME NEW a \in Audits, NEW r \in Outcomes, WriteAudit(a, r) \/ WriteGatedAudit(a, r)
      PROVE  CapInv'
  BY <1>1, CreateCap
<1>2. ASSUME ~\E a \in Audits, r \in Outcomes : WriteAudit(a, r) \/ WriteGatedAudit(a, r)
      PROVE  CapInv'
  <2>1. Kept /\ \A a \in Audits : RecordTimes(a)'
    <3>1. \A a \in Audits : SameRecord(audit'[a], audit[a]) /\ Lives(a)
      BY <1>2, RecordsKept
    <3> QED BY <3>1, TimesKept DEF Kept, CapInv
  <2>2. now' >= now /\ now \in Nat /\ now' \in Nat /\ lim.at \in Nat
    BY CapTypes, ClockMoves DEF Clock, Tick
  <2>3. CASE UNCHANGED reconcilerVars
    <3>1. lim'.has => lim'.at <= now'
      BY <2>2, <2>3 DEF reconcilerVars, CapInv
    <3>2. UNCHANGED <<pr, window, lim>>
      BY <2>3 DEF reconcilerVars
    <3> QED BY <2>1, <3>1, <3>2, CapFrame
  <2>4. CASE Crash
    <3>1. window' = Never /\ pr'.pc = "idle" /\ ~lim'.has
      BY <2>4 DEF Crash, PrIdle, NoEntry
    <3> QED BY <2>1, <3>1, CapFrame
  <2>5. CASE PolicyStep
    <3>0. lim.has => lim.at <= now
      BY DEF CapInv
    <3>1. CASE ForgetPolicy
      <4>1. window' = Never /\ pr'.pc = "idle" /\ ~lim'.has
        BY <3>1 DEF ForgetPolicy, NoEntry
      <4> QED BY <2>1, <4>1, CapFrame
    <3>2. CASE AwaitApproval \/ CoolDown \/ ResolveFails \/ RunPipeline
      <4>1. /\ UNCHANGED <<window, lim, now>> /\ pr.pc # "mark"
            /\ pr'.pc = "requeue" \/ (pr.pc = "run" /\ pr'.pc = "create" /\ pr'.at = pr.at)
        BY <3>2 DEF AwaitApproval, CoolDown, ResolveFails, RunPipeline, PrRequeue, clusterVars
      <4> QED BY <2>1, <3>0, <4>1, CapFrame
    <3>3. CASE \/ RateLimited \/ (\E forget \in BOOLEAN : EvaluationFails(forget))
      <4>1. /\ pr.pc = "idle" /\ lim' = CountEntry /\ UNCHANGED <<now, audit, auditCache>>
            /\ pr'.pc = "requeue" /\ pr'.at = now /\ window' \in {Never, window}
        BY <3>3 DEF RateLimited, EvaluationFails, PastGates
      <4> QED BY <4>1, CountedCap
    <3>4. CASE \E crossed \in BOOLEAN : Evaluate(crossed)
      <4>1. PICK crossed \in BOOLEAN : Evaluate(crossed)
        BY <3>4
      <4>2. /\ pr.pc = "idle" /\ lim' = CountEntry /\ UNCHANGED <<now, audit, auditCache>>
            /\ pr'.pc = (IF crossed /\ CrossedFor(crossed) >= Duration THEN "run" ELSE "requeue")
            /\ pr'.at = now /\ Allowed /\ window' = ObserveSince(crossed)
        BY <4>1 DEF Evaluate, PastGates
      <4>3. window' \in {Never, window} \/ (window = Never /\ window' = now)
        BY <4>2 DEF ObserveSince
      <4>4. ASSUME pr'.pc = "run"
            PROVE  window # Never /\ window' = window /\ now - window >= Duration
        <5>1. crossed /\ CrossedFor(crossed) >= Duration
          BY <4>2, <4>4
        <5>2. window # Never /\ CrossedFor(crossed) = now - window
          BY <5>1, CapTypes DEF CrossedFor
        <5> QED BY <4>2, <5>1, <5>2 DEF ObserveSince
      <4> QED BY <4>2, <4>3, <4>4, CountedCap
    <3>5. CASE \E r \in Outcomes : MarkPending(r)
      <4>1. /\ pr.pc = "mark" /\ pr'.pc = "requeue" /\ window' = Never /\ UNCHANGED now
            /\ lim' \in {lim, Observed(lim, pr.at)}
        BY <3>5 DEF MarkPending, PrRequeue
      <4>2. pr.at <= now
        BY <4>1 DEF PacingInv
      <4>3. Observed(lim, pr.at).has => Observed(lim, pr.at).at = pr.at
        BY DEF Observed, TypeOK, ReconcilerTypeOK
      <4> QED BY <2>1, <3>0, <4>1, <4>2, <4>3, CapFrame
    <3>6. CASE \E r \in Outcomes : Requeue(r)
      <4>1. pr.pc = "requeue" /\ pr'.pc = "idle" /\ UNCHANGED <<window, lim, now>>
        BY <3>6 DEF Requeue, PrIdle
      <4> QED BY <2>1, <3>0, <4>1, CapFrame
    <3> QED BY <1>2, <2>5, <3>1, <3>2, <3>3, <3>4, <3>5, <3>6, Zenon DEF PolicyStep
  <2>6. CASE AuditStep \/ AuditUser
    BY <2>3, <2>6, Zenon DEF AuditStep, AuditFrame, AuditUser, ApprovalFrame
  <2>7. CASE Clock \/ Informer \/ PolicyUser
    BY <2>3, <2>7, Zenon DEF Clock, Informer, PolicyUser, ClusterFrame, UserFrame
  <2>8. CASE UNCHANGED vars
    BY <2>3, <2>8 DEF vars
  <2> QED BY <2>4, <2>5, <2>6, <2>7, <2>8 DEF Next
<1> QED BY <1>1, <1>2

(* At most maxTriggersPerHour recorded triggers in any trailing hour: the  *)
(* count is cached, bumped by Observe and lost in a restart, and still the *)
(* one a trigger is let through with is complete.                          *)
THEOREM CapHolds == ASSUME Prompt PROVE Spec => []HourlyCap
<1>1. CapInv => HourlyCap
  BY DEF CapInv
<1>2. TypeOK /\ GateInv /\ OutcomeInv /\ PacingInv /\ CapInv /\ [Next]_vars => CapInv'
  BY NextCap
<1> QED BY <1>1, <1>2, InitCap, InitPacing, NextPacing, OutcomeInvariant, PTL DEF Spec
=============================================================================
