---------------------------- MODULE AuditReconciler ----------------------------
(***************************************************************************)
(* ActionAuditReconciler (internal/controller/actionaudit_controller.go):  *)
(* the retention sweep, the resolution of approval gates and reverts.      *)
(*                                                                         *)
(* One worker handles one record at a time.  A reconcile is cut at the     *)
(* writes other actors can come between:                                   *)
(*   "idle"     Get the record (and the policy), decide, and for a release *)
(*              or a revert call the plugins;                              *)
(*   "held"     Update: append the results of the released actions, or the *)
(*              held actions as Skipped;                                   *)
(*   "phase"    Status().Update: leave phase Pending;                      *)
(*   "refetch"  (a gate closed unreleased) Get the policy;                 *)
(*   "cooldown" startCooldown: Status().Update of the policy;              *)
(*   "reverted" Status().Update: the outcome of a revert.                  *)
(***************************************************************************)
EXTENDS Cluster

CONSTANTS
  Retention,        \* the policy's spec.audit.retention
  DefaultRetention, \* used when the policy is gone
  HeldOutcomes      \* how a held plugin's Execute can end

ASSUME RetentionAssumption ==
  /\ Retention \in Nat \ {0} /\ DefaultRetention \in Nat \ {0}
  /\ HeldOutcomes \subseteq Statuses

VARIABLES
  ar,         \* the reconcile in progress
  heldRuns,   \* history: how often the rest of the pipeline was run for each
              \* record, 2 standing for more than once
  heldRan,    \* history: the plugins that ran for each record's approval
  undos,      \* history: how often each record's actions were reversed, likewise
  closed      \* history: when each record's gate left phase Pending

auditRecVars == <<ar, heldRuns, heldRan, undos, closed>>

ArIdle == [pc |-> "idle"]

OnceMore(n) == IF n = 0 THEN 1 ELSE 2

(* copy is the working copy of record a; phase the phase the gate leaves   *)
(* Pending for; pol (for Approved) the policy releaseGate read, which      *)
(* startCooldown writes back.                                              *)
ArState ==
  [pc : {"idle"}]
    \cup [pc : {"held", "phase"}, a : Audits, copy : AuditObj,
          phase : {"Approved"}, pol : PolicyObj]
    \cup [pc : {"held", "phase"}, a : Audits, copy : AuditObj,
          phase : {"Denied", "Expired"}]
    \cup [pc : {"refetch"}, at : Time]
    \cup [pc : {"cooldown"}, pol : PolicyObj, at : Time]
    \cup [pc : {"reverted"}, a : Audits, copy : AuditObj]

AuditRecTypeOK ==
  /\ ar \in ArState
  /\ heldRuns \in [Audits -> 0..2]
  /\ heldRan \in [Audits -> SUBSET Plugins]
  /\ undos \in [Audits -> 0..2]
  /\ closed \in [Audits -> Time \cup {Never}]

AuditRecInit ==
  /\ ar = ArIdle
  /\ heldRuns = [a \in Audits |-> 0]
  /\ heldRan = [a \in Audits |-> {}]
  /\ undos = [a \in Audits |-> 0]
  /\ closed = [a \in Audits |-> Never]

-----------------------------------------------------------------------------
(* Reconcile *)

ReadAudit(a) ==
  auditFresh' = [auditFresh EXCEPT ![a] = ReadBy("auditReconciler", @)]

(* retentionFor and the sweep: a record past it is deleted, gate or not.   *)
RetentionFor == IF policyCache.live THEN Retention ELSE DefaultRetention

Lapsed(a) == now >= auditCache[a].created + RetentionFor

Sweep(a) ==
  /\ ar.pc = "idle" /\ auditCache[a].live /\ Lapsed(a)
  /\ audit[a].live
  /\ audit' = [audit EXCEPT ![a].live = FALSE]
  /\ auditFresh' = [auditFresh EXCEPT ![a] = {}]
  /\ UNCHANGED <<auditRecVars, now, policy, policyCache, policyFresh, auditCache,
                 edits, faults>>

Resolving(a) ==
  /\ ar.pc = "idle" /\ auditCache[a].live /\ ~Lapsed(a)
  /\ auditCache[a].phase = "Pending"

(* closeGate begins: every held plugin is appended as Skipped, unless the  *)
(* record names none.                                                      *)
SkippedBatch(rec) ==
  [kind |-> "skipped",
   results |-> <<[k \in 1..Len(rec.held) |->
                    [plugin |-> rec.held[k], status |-> "Skipped",
                     reversed |-> FALSE]]>>]

CloseGate(a, phase) ==
  LET rec == auditCache[a]
  IN  /\ ar' = IF rec.gated /\ rec.held # <<>>
               THEN [pc |-> "held", a |-> a, phase |-> phase,
                     copy |-> [rec EXCEPT !.recs = Append(@, SkippedBatch(rec))]]
               ELSE [pc |-> "phase", a |-> a, phase |-> phase, copy |-> rec]
      /\ ReadAudit(a)
      /\ UNCHANGED <<heldRuns, heldRan, undos, closed, now, policy, policyCache, policyFresh,
                     audit, auditCache, edits, faults>>

(* resolveGate: no gate, a refusal, or a policy that is no longer the one  *)
(* the gate was opened for.                                                *)
PolicyGoneByName(rec) == ~policyCache.live   \* variant: any policy of that name will do

PolicyGone(rec) == ~policyCache.live \/ policyCache.uid # rec.uid

Refused(rec) ==
  \/ ~rec.gated
  \/ rec.decision = "Denied"
  \/ rec.decision = "Approved" /\ PolicyGone(rec)

DenyGate(a) ==
  /\ Resolving(a) /\ Refused(auditCache[a])
  /\ CloseGate(a, "Denied")

(* resolveGate: nobody answered in time. *)
TimedOutFirst(rec) == rec.gated /\ now >= rec.expires   \* variant: before the verdict

TimedOutIfReferenced(rec) ==           \* variant: only for a policy that still waits
  rec.gated /\ rec.decision = "" /\ now >= rec.expires /\ policyCache.ref # NoAudit

TimedOut(rec) == rec.gated /\ rec.decision = "" /\ now >= rec.expires

ExpireGate(a) ==
  /\ Resolving(a) /\ TimedOut(auditCache[a])
  /\ CloseGate(a, "Expired")

(* releaseGate: run the rest of the pipeline as the policy spells it now,  *)
(* against the targets on the record.  When the pipeline is shorter than   *)
(* the gate's index (it was edited, or the index was) the result slice     *)
(* cannot be allocated: the reconcile panics, is recovered and retried,    *)
(* and never gets past here.                                               *)
ReleasedUnlessDenied(rec) ==           \* variant: silence is consent
  rec.gated /\ rec.decision # "Denied" /\ ~PolicyGone(rec)

Released(rec) ==
  rec.gated /\ rec.decision = "Approved" /\ ~PolicyGone(rec)

ResumableStrictly(rec, p) == rec.index < Len(p)   \* variant: something must be left

Resumable(rec, p) == rec.index <= Len(p)

ReleaseGate(a) ==
  LET rec == auditCache[a]
      p   == policyCache.actions
      n   == Len(p)
      ts  == Resolved(rec.targets)
  IN  /\ Resolving(a) /\ Released(rec)
      /\ Resumable(rec, p)
      /\ \E outcome \in [1..Len(ts) -> [rec.index..(n - 1) -> HeldOutcomes]] :
           LET results == [i \in 1..Len(ts) |->
                             RunRange(p, rec.index, n, outcome[i], rec.index..(n - 1))]
           IN  /\ ar' = [pc |-> "held", a |-> a, phase |-> "Approved",
                         pol |-> policyCache,
                         copy |-> [rec EXCEPT !.recs = Append(@,
                           [kind |-> "released", results |-> results])]]
               /\ heldRan' = [heldRan EXCEPT ![a] = @ \cup
                    UNION {{results[i][k].plugin : k \in DOMAIN results[i]} :
                             i \in DOMAIN results}]
      /\ heldRuns' = [heldRuns EXCEPT ![a] = OnceMore(@)]
      /\ ReadAudit(a)
      /\ policyFresh' = ReadBy("auditReconciler", policyFresh)
      /\ UNCHANGED <<undos, closed, now, policy, policyCache, audit, auditCache, edits, faults>>

-----------------------------------------------------------------------------
(* The writes of releaseGate and closeGate.  Any error, a conflict         *)
(* included, ends the reconcile and the next one starts over.              *)

RecordHeldPatch(r) ==                  \* variant: a patch without resourceVersion
  /\ ar.pc = "held"
  /\ StoreAudit(ar.a, "auditReconciler", WithSpec(audit[ar.a], ar.copy),
                audit[ar.a].live, r)
  /\ ar' = IF r = "ok" THEN [ar EXCEPT !.pc = "phase"] ELSE ArIdle
  /\ UNCHANGED <<heldRuns, heldRan, undos, closed, now, policy, policyCache,
                 policyFresh, auditCache, edits>>

RecordHeldIgnoringError(r) ==          \* variant: a failed update is only logged
  /\ ar.pc = "held"
  /\ UpdateAuditSpec(ar.a, "auditReconciler", ar.copy, r)
  /\ ar' = [ar EXCEPT !.pc = "phase"]
  /\ UNCHANGED <<heldRuns, heldRan, undos, closed, now, policy, policyCache,
                 policyFresh, auditCache, edits>>

RecordHeld(r) ==
  /\ ar.pc = "held"
  /\ UpdateAuditSpec(ar.a, "auditReconciler", ar.copy, r)
  /\ ar' = IF r = "ok" THEN [ar EXCEPT !.pc = "phase"] ELSE ArIdle
  /\ UNCHANGED <<heldRuns, heldRan, undos, closed, now, policy, policyCache, policyFresh,
                 auditCache, edits>>

SetPhase(r) ==
  /\ ar.pc = "phase"
  /\ UpdateAuditStatus(ar.a, "auditReconciler", [ar.copy EXCEPT !.phase = ar.phase], r)
  /\ ar' = IF r # "ok" THEN ArIdle
           ELSE IF ar.phase = "Approved"
           THEN [pc |-> "cooldown", pol |-> ar.pol, at |-> now]
           ELSE [pc |-> "refetch", at |-> now]
  /\ closed' = IF Applied(r) THEN [closed EXCEPT ![ar.a] = now] ELSE closed
  /\ UNCHANGED <<heldRuns, heldRan, undos, now, policy, policyCache, policyFresh,
                 auditCache, edits>>

(* closeGate ends: it gets the policy, which it has not read so far, and   *)
(* does nothing more if it is gone.                                        *)
RefetchPolicy ==
  /\ ar.pc = "refetch"
  /\ ar' = IF policyCache.live
           THEN [pc |-> "cooldown", pol |-> policyCache, at |-> ar.at] ELSE ArIdle
  /\ policyFresh' = ReadBy("auditReconciler", policyFresh)
  /\ UNCHANGED <<heldRuns, heldRan, undos, closed, now, policy, policyCache,
                 audit, auditCache, auditFresh, edits, faults>>

(* startCooldown: the policy is written back as it was read, by a release  *)
(* before it ran the pipeline.  An error is only logged.                   *)
CooledDown(pol, at) == [pol EXCEPT !.last = at, !.ref = NoAudit]

StartCooldown(r) ==
  /\ ar.pc = "cooldown"
  /\ UpdatePolicyStatus("auditReconciler", CooledDown(ar.pol, ar.at), r)
  /\ ar' = ArIdle
  /\ UNCHANGED <<heldRuns, heldRan, undos, closed, now, policyCache,
                 audit, auditCache, auditFresh, edits>>

-----------------------------------------------------------------------------
(* revert: every recorded action's Reverse, last first, then the outcome.  *)

Revert(a) ==
  /\ ar.pc = "idle" /\ auditCache[a].live /\ ~Lapsed(a)
  /\ auditCache[a].phase # "Pending"
  /\ auditCache[a].revert /\ ~auditCache[a].reverted
  /\ ar' = [pc |-> "reverted", a |-> a, copy |-> auditCache[a]]
  /\ undos' = [undos EXCEPT ![a] = OnceMore(@)]
  /\ ReadAudit(a)
  /\ UNCHANGED <<heldRuns, heldRan, closed, now, policy, policyCache, policyFresh,
                 audit, auditCache, edits, faults>>

SetReverted(r) ==
  /\ ar.pc = "reverted"
  /\ UpdateAuditStatus(ar.a, "auditReconciler", [ar.copy EXCEPT !.reverted = TRUE], r)
  /\ ar' = ArIdle
  /\ UNCHANGED <<heldRuns, heldRan, undos, closed, now, policy, policyCache, policyFresh,
                 auditCache, edits>>
=============================================================================
