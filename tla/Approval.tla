------------------------------- MODULE Approval -------------------------------
(***************************************************************************)
(* Clients of the ActionAudit records and the admission webhook in front   *)
(* of them (internal/webhook/v1alpha1/actionaudit_webhook.go; the requests *)
(* are those of pkg/cli/action.go or of any other client).                 *)
(*                                                                         *)
(* An update is admitted against the stored record and committed           *)
(* afterwards, and only if the record is still the version it was admitted *)
(* against: the clock and the reconcilers can move in between.             *)
(*                                                                         *)
(* The webhook guards the presence of spec.gate, its verdict and the       *)
(* stamped fields.  The rest of spec.gate is the client's to rewrite, with *)
(* or without a verdict.  So are the fields outside spec.gate              *)
(* (spec.actions, policyUID, policyRef, triggeredAt): the model has no     *)
(* client that rewrites those.                                             *)
(***************************************************************************)
EXTENDS Cluster

(* What a gate says it holds: actionIndex, pendingPlugins, targets and     *)
(* expiresAt.  (RunRange takes a negative index for 0.)                    *)
Description == [index : Nat, held : Seq(Plugins), targets : Seq(Targets), expires : Nat]

DescriptionOf(rec) ==
  [index |-> rec.index, held |-> rec.held, targets |-> rec.targets,
   expires |-> rec.expires]

CONSTANTS
  MaxReverts,   \* bound: revert requests
  Rewrites,     \* the descriptions clients write
  MaxRewrites   \* bound: updates that rewrite one

ASSUME ApprovalAssumption ==
  MaxReverts \in Nat /\ Rewrites \subseteq Description /\ MaxRewrites \in Nat

VARIABLES
  req,        \* the admitted update each user is about to commit
  reverts,    \* how much of the bounds is used up
  rewrites,
  decider,    \* history: who turned each record's empty decision into a verdict
  rewritten   \* history: the records whose description a client has changed

approvalVars == <<req, reverts, rewrites, decider, rewritten>>

(* What a client can ask of the gate of a record: drop it, or set its      *)
(* decision, decidedBy and description to anything.                        *)
GateEdit == [has : BOOLEAN, decision : Decisions, by : Users \cup {NoUser},
             desc : Description]
GateEdits(rec) ==
  [has : BOOLEAN, decision : Decisions, by : Users \cup {NoUser},
   desc : Rewrites \cup {DescriptionOf(rec)}]

NoRequest == [pc |-> "none"]

ApprovalTypeOK ==
  /\ req \in [Users -> [pc : {"none"}]
                         \cup [pc : {"admitted"}, a : Audits, edit : GateEdit]]
  /\ reverts \in 0..MaxReverts /\ rewrites \in 0..MaxRewrites
  /\ decider \in [Audits -> Users \cup {NoUser}]
  /\ rewritten \subseteq Audits

ApprovalInit ==
  /\ req = [u \in Users |-> NoRequest]
  /\ reverts = 0 /\ rewrites = 0
  /\ decider = [a \in Audits |-> NoUser]
  /\ rewritten = {}

(* Handle: the verdicts it allows. *)
SameVerdict(old, edit) == edit.decision = old.decision

NewVerdictTwice(old, edit) ==          \* variant: a verdict can be changed
  edit.decision \in {"Approved", "Denied"} /\ old.phase = "Pending" /\ now < old.expires

NewVerdictAllowed(old, edit) ==
  /\ old.decision = ""
  /\ edit.decision \in {"Approved", "Denied"}
  /\ old.phase = "Pending"
  /\ now < old.expires

Admits(old, edit) ==
  /\ old.gated /\ edit.has                  \* a gate is neither added nor removed
  /\ \/ SameVerdict(old, edit) /\ edit.by = old.by
     \/ ~SameVerdict(old, edit) /\ NewVerdictAllowed(old, edit)

(* Handle: decidedBy is the requester, whatever the client sent. *)
StampNot(old, edit, u) == edit         \* variant: trusts the client

Stamp(old, edit, u) ==
  IF SameVerdict(old, edit) THEN edit ELSE [edit EXCEPT !.by = u]

(* The edit rewrites the description of the record. *)
Rewriting(rec, edit) == edit.desc # DescriptionOf(rec)

Submit(u, a, edit) ==
  /\ req[u].pc = "none"
  /\ audit[a].live
  /\ edit # [has |-> audit[a].gated, decision |-> audit[a].decision, by |-> audit[a].by,
             desc |-> DescriptionOf(audit[a])]
  /\ Rewriting(audit[a], edit) => rewrites < MaxRewrites
  /\ rewrites' = IF Rewriting(audit[a], edit) THEN rewrites + 1 ELSE rewrites
  /\ Admits(audit[a], edit)
  /\ req' = [req EXCEPT ![u] = [pc |-> "admitted", a |-> a,
                                edit |-> Stamp(audit[a], edit, u)]]
  /\ auditFresh' = [auditFresh EXCEPT ![a] = @ \cup {u}]
  /\ UNCHANGED <<reverts, decider, rewritten, now, policy, policyCache, policyFresh,
                 audit, auditCache, edits, faults>>

WithGate(rec, edit) ==
  [rec EXCEPT !.gated = edit.has, !.decision = edit.decision, !.by = edit.by,
              !.index = edit.desc.index, !.held = edit.desc.held,
              !.targets = edit.desc.targets, !.expires = edit.desc.expires]

(* The API server commits the admitted update, or refuses it because the   *)
(* record has changed since.                                               *)
Commit(u) ==
  /\ req[u].pc = "admitted"
  /\ LET a == req[u].a
         e == req[u].edit
     IN  IF audit[a].live /\ u \in auditFresh[a]
         THEN /\ audit' = [audit EXCEPT ![a] = WithGate(audit[a], e)]
              /\ auditFresh' = [auditFresh EXCEPT ![a] = {}]
              /\ decider' = IF audit[a].decision = "" /\ e.decision # ""
                            THEN [decider EXCEPT ![a] = u] ELSE decider
              /\ rewritten' = IF Rewriting(audit[a], e)
                              THEN rewritten \cup {a} ELSE rewritten
         ELSE UNCHANGED <<audit, auditFresh, decider, rewritten>>
  /\ req' = [req EXCEPT ![u] = NoRequest]
  /\ UNCHANGED <<reverts, rewrites, now, policy, policyCache, policyFresh, auditCache,
                 edits, faults>>

(* `rp action revert`: a read-modify-write that only sets revertRequested. *)
RequestRevert(a) ==
  /\ audit[a].live /\ ~audit[a].revert /\ ~audit[a].reverted
  /\ reverts < MaxReverts
  /\ audit' = [audit EXCEPT ![a].revert = TRUE]
  /\ auditFresh' = [auditFresh EXCEPT ![a] = {}]
  /\ reverts' = reverts + 1
  /\ UNCHANGED <<req, rewrites, decider, rewritten, now, policy, policyCache, policyFresh,
                 auditCache, edits, faults>>
=============================================================================
