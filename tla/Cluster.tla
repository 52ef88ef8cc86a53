------------------------------- MODULE Cluster -------------------------------
(***************************************************************************)
(* The Kubernetes side of the operator: the API server's copy of one       *)
(* ReactivePolicy and of the ActionAudit records it writes, the informer   *)
(* caches the operator's client reads from, the wall clock, and the users  *)
(* who edit the policy.                                                    *)
(*                                                                         *)
(* Optimistic concurrency.  Every object has a resourceVersion, and an     *)
(* update is refused with a conflict unless it carries the current one.    *)
(* Only equality with the current version is ever observable, so instead   *)
(* of a counter the model keeps, per object, the set of copies that hold   *)
(* the current version (policyFresh, auditFresh).  A write empties the     *)
(* set; reading a fresh cache puts the reader into it.                     *)
(***************************************************************************)
EXTENDS Pipeline, FiniteSets

CONSTANTS
  Audits, NoAudit,    \* names GenerateName can produce; the empty pendingGateRef
  Users, NoUser,      \* clients that write spec.gate; the empty decidedBy
  Targets,            \* resources a pipeline can act on
  NamespaceTarget,    \* what it acts on when there is none
  Pipelines,          \* the values spec.actions can take
  Lag,                \* how stale a cache may be: "none", "tick" (caught up
                      \* before the clock moves) or "any"
  MaxTime,            \* bound: last tick of the clock
  MaxUid,             \* bound: incarnations of the policy
  MaxEdits,           \* bound: user edits of the policy in place
  MaxFaults           \* bound: failed API calls and operator crashes

(* The copies of an object that can hold its current version: the informer *)
(* cache, the working copy of either reconciler, a user's pending request. *)
PolicyCopies == {"cache", "policyReconciler", "auditReconciler"}
AuditCopies  == PolicyCopies \cup Users

ASSUME ClusterAssumption ==
  /\ NoAudit \notin Audits /\ IsFiniteSet(Audits)
  /\ NoUser \notin Users /\ Users \cap PolicyCopies = {}
  /\ NamespaceTarget \in Targets
  /\ Pipelines # {} /\ Pipelines \subseteq Seq(Action)
  /\ Lag \in {"none", "tick", "any"}
  /\ MaxTime \in Nat /\ MaxUid \in Nat \ {0}
  /\ MaxEdits \in Nat /\ MaxFaults \in Nat

VARIABLES
  now,                                \* the wall clock, in ticks
  policy, policyCache, policyFresh,   \* ReactivePolicy: server, informer, versions
  audit, auditCache, auditFresh,      \* ActionAudit records, likewise
  edits, faults                       \* how much of the bounds is used up

clusterVars == <<now, policy, policyCache, policyFresh,
                 audit, auditCache, auditFresh, edits, faults>>

Never == -1                           \* a nil *metav1.Time
Time  == 0..MaxTime

Decisions == {"", "Approved", "Denied"}
Phases    == {"", "Pending", "Approved", "Denied", "Expired"}

(* The fields of a ReactivePolicy that some branch of the code reads.      *)
(* status.state, the conditions and lastEvaluatedAt are written only.      *)
PolicyObj == [live : BOOLEAN, uid : 1..MaxUid, actions : Pipelines,
              ref : Audits \cup {NoAudit},            \* status.pendingGateRef
              last : Time \cup {Never}]               \* status.lastTriggeredAt

(* One entry of spec.actions per pipeline run instead of one per action:   *)
(* the results of a run, target by target, or the held plugins skipped.    *)
Batch == [kind : {"before", "released", "skipped"}, results : Seq(Seq(Result))]

(* An ActionAudit.  uid is spec.policyUID, 0 for a name not used yet;      *)
(* the fields index to by are spec.gate when gated.                        *)
AuditObj == [live : BOOLEAN, uid : 0..MaxUid, created : Time, at : Time,
             gated : BOOLEAN, index : Nat, held : Seq(Plugins),
             targets : Seq(Targets), expires : Nat,
             decision : Decisions, by : Users \cup {NoUser},
             phase : Phases, recs : Seq(Batch),
             revert : BOOLEAN, reverted : BOOLEAN]

NoRecord == [live |-> FALSE, uid |-> 0, created |-> 0, at |-> 0,
             gated |-> FALSE, index |-> 0, held |-> <<>>,
             targets |-> <<>>, expires |-> 0,
             decision |-> "", by |-> NoUser,
             phase |-> "", recs |-> <<>>,
             revert |-> FALSE, reverted |-> FALSE]

(* An empty list of targets stands for the policy's namespace.             *)
Resolved(ts) == IF ts = <<>> THEN <<NamespaceTarget>> ELSE ts

ClusterTypeOK ==
  /\ now \in Time
  /\ policy \in PolicyObj /\ policyCache \in PolicyObj
  /\ policyFresh \subseteq PolicyCopies
  /\ audit \in [Audits -> AuditObj] /\ auditCache \in [Audits -> AuditObj]
  /\ auditFresh \in [Audits -> SUBSET AuditCopies]
  /\ edits \in 0..MaxEdits /\ faults \in 0..MaxFaults

ClusterInit ==
  /\ now = 0
  /\ \E p \in Pipelines :
       policy = [live |-> TRUE, uid |-> 1, actions |-> p,
                 ref |-> NoAudit, last |-> Never]
  /\ policyCache = policy /\ policyFresh = {"cache"}
  /\ audit = [a \in Audits |-> NoRecord]
  /\ auditCache = audit /\ auditFresh = [a \in Audits |-> {"cache"}]
  /\ edits = 0 /\ faults = 0

-----------------------------------------------------------------------------
(* Writes.  A call to the API server ends in one of four ways: "ok";       *)
(* "conflict", the copy is stale or the object is gone; "fail", it was not *)
(* applied and returned some other error; "lost", it was applied and the   *)
(* answer never came back.  The last two use up the fault bound.           *)

Outcomes == {"ok", "conflict", "fail", "lost"}

CallEnds(fresh, r) ==
  /\ r = "ok"       => fresh
  /\ r = "conflict" => ~fresh
  /\ r = "fail"     => faults < MaxFaults
  /\ r = "lost"     => fresh /\ faults < MaxFaults
  /\ faults' = IF r \in {"fail", "lost"} THEN faults + 1 ELSE faults

Applied(r) == r \in {"ok", "lost"}

(* Status().Update writes the status of the copy it is given, Update its   *)
(* spec (of which only the fields below change after Create in this        *)
(* model); the rest of the stored object stays.                            *)
WithPolicyStatus(obj, copy) == [obj EXCEPT !.ref = copy.ref, !.last = copy.last]
WithStatus(obj, copy) == [obj EXCEPT !.phase = copy.phase, !.reverted = copy.reverted]
WithSpec(obj, copy) ==
  [obj EXCEPT !.gated = copy.gated, !.index = copy.index, !.held = copy.held,
              !.targets = copy.targets, !.expires = copy.expires,
              !.decision = copy.decision, !.by = copy.by,
              !.recs = copy.recs, !.revert = copy.revert]

(* A status write that leaves the modelled fields as they are may still    *)
(* change others (a condition's message, lastEvaluatedAt), in which case   *)
(* it makes a new version too; one that changes nothing is dropped by the  *)
(* API server.                                                             *)
StorePolicy(copy, content, fresh, r) ==
  /\ CallEnds(fresh, r)
  /\ IF Applied(r)
     THEN /\ policy' = WithPolicyStatus(policy, content)
          /\ \/ policyFresh' = {}
             \/ /\ WithPolicyStatus(policy, content) = policy
                /\ policyFresh' = policyFresh \ {copy}
     ELSE UNCHANGED policy /\ policyFresh' = policyFresh \ {copy}

UpdatePolicyStatus(copy, content, r) ==
  StorePolicy(copy, content, policy.live /\ copy \in policyFresh, r)

(* A write of record a.  The answer carries the new version back into the  *)
(* writer's copy.                                                          *)
StoreAudit(a, copy, new, fresh, r) ==
  /\ CallEnds(fresh, r)
  /\ IF Applied(r)
     THEN /\ audit' = [audit EXCEPT ![a] = new]
          /\ auditFresh' = [auditFresh EXCEPT ![a] = IF r = "ok" THEN {copy} ELSE {}]
     ELSE UNCHANGED <<audit, auditFresh>>

HoldsCurrent(a, copy) == audit[a].live /\ copy \in auditFresh[a]

UpdateAuditSpec(a, copy, content, r) ==
  StoreAudit(a, copy, WithSpec(audit[a], content), HoldsCurrent(a, copy), r)

UpdateAuditStatus(a, copy, content, r) ==
  StoreAudit(a, copy, WithStatus(audit[a], content), HoldsCurrent(a, copy), r)

(* A Get through the cache: the reader's copy is as fresh as the cache is. *)
ReadBy(copy, fresh) ==
  IF "cache" \in fresh THEN fresh \cup {copy} ELSE fresh \ {copy}

-----------------------------------------------------------------------------
(* The informers and the clock.  An object's watch events arrive in order  *)
(* and a cache that skips to the latest version loses no behaviour: it is  *)
(* the one in which the events it skips arrived and nobody looked.         *)

SyncPolicy ==
  /\ "cache" \notin policyFresh
  /\ policyCache' = policy
  /\ policyFresh' = policyFresh \cup {"cache"}
  /\ UNCHANGED <<now, policy, audit, auditCache, auditFresh, edits, faults>>

SyncAudit(a) ==
  /\ "cache" \notin auditFresh[a]
  /\ auditCache' = [auditCache EXCEPT ![a] = audit[a]]
  /\ auditFresh' = [auditFresh EXCEPT ![a] = @ \cup {"cache"}]
  /\ UNCHANGED <<now, policy, policyCache, policyFresh, audit, edits, faults>>

Synced == "cache" \in policyFresh /\ \A a \in Audits : "cache" \in auditFresh[a]

Tick ==
  /\ now < MaxTime
  /\ Lag # "any" => Synced
  /\ now' = now + 1
  /\ UNCHANGED <<policy, policyCache, policyFresh, audit, auditCache, auditFresh,
                 edits, faults>>

(* A restarted operator lists every object before its workers start.       *)
RelistCaches ==
  /\ policyCache' = policy /\ policyFresh' = {"cache"}
  /\ auditCache' = audit
  /\ auditFresh' = [a \in Audits |->
                      (auditFresh[a] \ {"policyReconciler", "auditReconciler"})
                        \cup {"cache"}]

-----------------------------------------------------------------------------
(* Users of the policy. *)

(* Any change of the object in place: of the pipeline, or (same actions)   *)
(* of a label, an annotation or another spec field.                        *)
EditPolicy ==
  /\ policy.live /\ edits < MaxEdits
  /\ \E p \in Pipelines : policy' = [policy EXCEPT !.actions = p]
  /\ policyFresh' = {}
  /\ edits' = edits + 1
  /\ UNCHANGED <<now, policyCache, audit, auditCache, auditFresh, faults>>

DeletePolicy ==
  /\ policy.live /\ policy.uid < MaxUid
  /\ policy' = [policy EXCEPT !.live = FALSE]
  /\ policyFresh' = {}
  /\ UNCHANGED <<now, policyCache, audit, auditCache, auditFresh, edits, faults>>

RecreatePolicy ==
  /\ ~policy.live /\ policy.uid < MaxUid
  /\ \E p \in Pipelines :
       policy' = [live |-> TRUE, uid |-> policy.uid + 1, actions |-> p,
                  ref |-> NoAudit, last |-> Never]
  /\ policyFresh' = {}
  /\ UNCHANGED <<now, policyCache, audit, auditCache, auditFresh, edits, faults>>
=============================================================================
