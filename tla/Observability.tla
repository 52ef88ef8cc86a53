---------------------------- MODULE Observability ----------------------------
(***************************************************************************)
(* What the operator reports while it works: the gauge of open gates in    *)
(* internal/metrics/metrics.go and the rows the reconcilers forward to     *)
(* Postgres through the audit sink.  Every step of Operator is repeated    *)
(* here with what it reports.                                              *)
(*                                                                         *)
(* AuditSink shows that accepted batches reach the writer once and in      *)
(* order; here the sink is that queue.  Counters and histograms only grow  *)
(* and are left out.                                                       *)
(***************************************************************************)
EXTENDS Operator, SequencesExt

CONSTANTS
  QueueSize,      \* Config.QueueSize
  Irreversible    \* plugins whose IsReversible is false

ASSUME QueueAssumption == QueueSize \in Nat \ {0} /\ Irreversible \subseteq Plugins

VARIABLES
  pending,        \* the gauge ApprovalGatesPending
  drifted,        \* history: the gauge missed a gate that opened or closed
  queue,          \* the sink's queue: batches of rows
  executions,     \* the table action_executions
  outcomes,       \* the table revert_outcomes
  lost            \* history: the records some batch of which was dropped

sinkVars == <<queue, executions, outcomes, lost>>
obsVars  == <<pending, drifted, sinkVars>>
allVars  == <<vars, obsVars>>

(* A row is keyed by the record and the action's index on it. *)
Row     == [a : Audits, index : Nat, plugin : Plugins, status : Statuses \cup {"Attempted"}]
Batches == [table : {"executions", "outcomes"}, rows : Seq(Row)]

ObsTypeOK ==
  /\ pending \in Int /\ drifted \in BOOLEAN
  /\ queue \in Seq(Batches) /\ Len(queue) <= QueueSize
  /\ executions \subseteq Row /\ outcomes \subseteq Row
  /\ lost \subseteq Audits

ObsInit ==
  /\ Init
  /\ pending = 0 /\ drifted = FALSE
  /\ queue = <<>> /\ executions = {} /\ outcomes = {} /\ lost = {}

-----------------------------------------------------------------------------
(* spec.actions as the code has it: one entry after the other.  toRecord   *)
(* gave each its position as its index.                                    *)
Actions(recs) ==
  FlattenSeq([b \in 1..Len(recs) |-> FlattenSeq(recs[b].results)])

(* buildSinkEvents: the whole record, whatever was sent before. *)
BuildSinkEventsOfLast(a, recs) ==      \* variant: the last run's actions, from 0
  LET last == FlattenSeq(recs[Len(recs)].results)
  IN  [i \in 1..Len(last) |-> [a |-> a, index |-> i - 1, plugin |-> last[i].plugin,
                               status |-> last[i].status]]

BuildSinkEvents(a, recs) ==
  LET all == Actions(recs)
  IN  [i \in 1..Len(all) |-> [a |-> a, index |-> i - 1, plugin |-> all[i].plugin,
                              status |-> all[i].status]]

(* buildRevertEvents: the results of reverseOne, last action first.  What  *)
(* did not succeed or cannot be reversed was skipped, the rest attempted;  *)
(* how Reverse ended is left out.                                          *)
Attempted(res) == res.status = "Succeeded" /\ res.plugin \notin Irreversible

BuildRevertEvents(a, recs) ==
  LET all == Reverse(Actions(recs))
      n   == Len(all)
  IN  [i \in 1..n |-> [a |-> a, index |-> n - i, plugin |-> all[i].plugin,
                       status |-> IF Attempted(all[i]) THEN "Attempted" ELSE "Skipped"]]

(* RecordTrigger, RecordRevert: nothing to send, room in the queue, or     *)
(* ErrBackpressure, which the reconcile logs.                              *)
ForwardUnbounded(a, table, rows) ==     \* variant: the queue grows on demand
  /\ queue' = IF rows = <<>> THEN queue
              ELSE Append(queue, [table |-> table, rows |-> rows])
  /\ UNCHANGED <<executions, outcomes, lost>>

Forward(a, table, rows) ==
  \/ rows = <<>> /\ UNCHANGED sinkVars
  \/ /\ rows # <<>> /\ Len(queue) < QueueSize
     /\ queue' = Append(queue, [table |-> table, rows |-> rows])
     /\ UNCHANGED <<executions, outcomes, lost>>
  \/ /\ rows # <<>> /\ Len(queue) = QueueSize
     /\ lost' = lost \cup {a}
     /\ UNCHANGED <<queue, executions, outcomes>>

(* INSERT ... ON CONFLICT (audit_uid, action_index) DO NOTHING *)
InsertNew(table, rows) ==
  table \cup {rows[i] : i \in {j \in 1..Len(rows) :
    \A row \in table : ~(row.a = rows[j].a /\ row.index = rows[j].index)}}

(* The sink's worker: a batch is one implicit transaction, and one that    *)
(* fails is logged and dropped.                                            *)
WriteBatch ==
  /\ queue # <<>>
  /\ executions' = IF Head(queue).table = "executions"
                   THEN InsertNew(executions, Head(queue).rows) ELSE executions
  /\ outcomes' = IF Head(queue).table = "outcomes"
                 THEN InsertNew(outcomes, Head(queue).rows) ELSE outcomes
  /\ queue' = Tail(queue)
  /\ UNCHANGED <<vars, pending, drifted, lost>>

RecordsIn(q) == UNION {{q[i].rows[j].a : j \in 1..Len(q[i].rows)} : i \in 1..Len(q)}

WriteFails ==
  /\ queue # <<>> /\ faults < MaxFaults
  /\ faults' = faults + 1
  /\ lost' = lost \cup RecordsIn(<<Head(queue)>>)
  /\ queue' = Tail(queue)
  /\ UNCHANGED <<now, policy, policyCache, policyFresh, audit, auditCache, auditFresh,
                 edits, reconcilerVars, auditRecVars, approvalVars, versions,
                 pending, drifted, executions, outcomes>>

-----------------------------------------------------------------------------
(* The policy reconciler. *)

(* A reconcile that ends before it triggers reports only counters. *)
Poll ==
  \/ ForgetPolicy /\ PolicyFrame /\ UNCHANGED obsVars
  \/ AwaitApproval /\ PolicyFrame /\ UNCHANGED obsVars
  \/ CoolDown /\ PolicyFrame /\ UNCHANGED obsVars
  \/ RateLimited /\ PolicyFrame /\ UNCHANGED obsVars
  \/ \E forget \in BOOLEAN : EvaluationFails(forget) /\ PolicyFrame /\ UNCHANGED obsVars
  \/ \E crossed \in BOOLEAN : Evaluate(crossed) /\ PolicyFrame /\ UNCHANGED obsVars

(* RecordGateOpened, unless the answer to the write is lost. *)
GateOpened(r) ==
  /\ pending' = IF r = "ok" THEN pending + 1 ELSE pending
  /\ drifted' = (drifted \/ r = "lost")

Trigger ==
  \/ (ResolveFails \/ RunPipeline) /\ PolicyFrame /\ UNCHANGED obsVars
  \/ \E a \in Audits, r \in Outcomes :
       /\ WriteAudit(a, r) /\ PolicyFrame
       /\ IF r = "ok" THEN Forward(a, "executions", BuildSinkEvents(a, NewRecord.recs))
                      ELSE UNCHANGED sinkVars
       /\ UNCHANGED <<pending, drifted>>
  \/ \E a \in Audits, r \in Outcomes :
       WriteGatedAudit(a, r) /\ PolicyFrame /\ UNCHANGED obsVars
  \/ \E r \in Outcomes :
       /\ MarkPending(r) /\ PolicyFrame
       /\ GateOpened(r)
       /\ IF r = "ok" THEN Forward(pr.a, "executions", BuildSinkEvents(pr.a, pr.copy.recs))
                      ELSE UNCHANGED sinkVars
  \/ \E r \in Outcomes : Requeue(r) /\ PolicyFrame /\ UNCHANGED obsVars

-----------------------------------------------------------------------------
(* The audit reconciler. *)

(* RecordGateResolved, likewise. *)
GateResolvedIfReleased(r) ==           \* variant: a refusal leaves the gauge alone
  /\ pending' = IF r = "ok" /\ ar.phase = "Approved" THEN pending - 1 ELSE pending
  /\ drifted' = (drifted \/ r = "lost")

GateResolved(r) ==
  /\ pending' = IF r = "ok" THEN pending - 1 ELSE pending
  /\ drifted' = (drifted \/ r = "lost")

(* What releaseGate forwards: the record with what the approval added.     *)
(* closeGate forwards nothing.                                             *)
ReleasedRowsUnlessFailed ==            \* variant: a failed release is not reported
  LET last == FlattenSeq(ar.copy.recs[Len(ar.copy.recs)].results)
  IN  IF ar.phase = "Approved" /\ last # <<>>
         /\ \A k \in 1..Len(last) : last[k].status = "Succeeded"
      THEN BuildSinkEvents(ar.a, ar.copy.recs) ELSE <<>>

ReleasedRows ==
  LET recs == ar.copy.recs
  IN  IF ar.phase = "Approved" /\ FlattenSeq(recs[Len(recs)].results) # <<>>
      THEN BuildSinkEvents(ar.a, recs) ELSE <<>>

Resolve ==
  \/ \E a \in Audits : DenyGate(a) /\ AuditFrame /\ UNCHANGED obsVars
  \/ \E a \in Audits : ExpireGate(a) /\ AuditFrame /\ UNCHANGED obsVars
  \/ \E a \in Audits : ReleaseGate(a) /\ AuditFrame /\ UNCHANGED obsVars
  \/ \E r \in Outcomes : RecordHeld(r) /\ AuditFrame /\ UNCHANGED obsVars
  \/ \E r \in Outcomes :
       /\ SetPhase(r) /\ AuditFrame
       /\ GateResolved(r)
       /\ IF r = "ok" THEN Forward(ar.a, "executions", ReleasedRows)
                      ELSE UNCHANGED sinkVars
  \/ RefetchPolicy /\ AuditFrame /\ UNCHANGED obsVars
  \/ \E r \in Outcomes : StartCooldown(r) /\ AuditFrame /\ UNCHANGED obsVars

Housekeeping ==
  \/ \E a \in Audits :
       /\ Sweep(a) /\ AuditFrame
       /\ drifted' = (drifted \/ audit[a].phase = "Pending")
       /\ UNCHANGED <<pending, sinkVars>>
  \/ \E a \in Audits : Revert(a) /\ AuditFrame /\ UNCHANGED obsVars
  \/ \E r \in Outcomes :
       /\ SetReverted(r) /\ AuditFrame
       /\ UNCHANGED <<pending, drifted>>
       /\ IF r = "ok"
          THEN Forward(ar.a, "outcomes", BuildRevertEvents(ar.a, ar.copy.recs))
          ELSE UNCHANGED sinkVars

-----------------------------------------------------------------------------
(* The process dies with its gauge and its queue. *)
Restart ==
  /\ Crash
  /\ pending' = 0 /\ drifted' = (OpenGates # {})
  /\ queue' = <<>> /\ lost' = lost \cup RecordsIn(queue)
  /\ UNCHANGED <<executions, outcomes>>

Outside ==
  \/ Clock /\ UNCHANGED obsVars
  \/ Informer /\ UNCHANGED obsVars
  \/ PolicyUser /\ UNCHANGED obsVars
  \/ AuditUser /\ UNCHANGED obsVars

ObsNext ==
  \/ Outside \/ Poll \/ Trigger \/ Resolve \/ Housekeeping \/ Restart
  \/ WriteBatch \/ WriteFails

ObsSpec == ObsInit /\ [][ObsNext]_allVars

-----------------------------------------------------------------------------
Rows(table) ==                         \* stored, or on their way
  (IF table = "executions" THEN executions ELSE outcomes)
    \cup UNION {{queue[i].rows[j] : j \in 1..Len(queue[i].rows)} :
                 i \in {k \in 1..Len(queue) : queue[k].table = table}}

(* Postgres never contradicts the record: a row is what the record says at *)
(* that index, however often a release was retried and the record sent     *)
(* again (the first row of a key stays for ever); and nothing is reported  *)
(* as reverted that did not succeed.                                       *)
RowsMatchRecord ==
  /\ \A row \in Rows("executions") :
       LET all == Actions(audit[row.a].recs)
       IN  /\ row.index < Len(all)
           /\ all[row.index + 1].plugin = row.plugin
           /\ all[row.index + 1].status = row.status
  /\ \A row \in Rows("outcomes") :
       LET all == Actions(audit[row.a].recs)
       IN  /\ row.index < Len(all)
           /\ row.plugin = all[row.index + 1].plugin
           /\ row.status = "Attempted" <=> Attempted(all[row.index + 1])

(* Once the sink is idle, and unless a batch or an API call failed, every  *)
(* action of a finished pipeline has its row: one without a gate, and one  *)
(* whose gate was approved as it was opened, of a policy never edited.     *)
Finished(a) ==
  audit[a].uid # 0 /\ (IF audit[a].gated THEN audit[a].phase = "Approved" ELSE TRUE)

AsOpened(a) ==
  audit[a].gated => a \notin rewritten /\ \A p, q \in versions[audit[a].uid] : p = q

AllStored(a) ==
  {row.index : row \in {x \in executions : x.a = a}} = 0..(Len(Actions(audit[a].recs)) - 1)

TrailComplete ==
  queue = <<>> /\ faults = 0 =>
    \A a \in Audits \ lost : Finished(a) /\ AsOpened(a) => AllStored(a)

(* As a reader of the tables would have it: of any policy.                 *)
TrailOfAll ==
  queue = <<>> /\ faults = 0 => \A a \in Audits \ lost : Finished(a) => AllStored(a)

(* The gauge is the number of gates currently waiting, through conflicts,  *)
(* failed writes and retries, and through a restart with no gate open.     *)
(* What throws it off until the next such restart is a write whose answer  *)
(* is lost, a restart with gates open, and a sweep of a waiting gate.      *)
GaugeFollowsGates == ~drifted => pending = Cardinality(OpenGates)

(* As the metric's help text has it: the gates currently waiting.          *)
PendingIsOpenGates == pending = Cardinality(OpenGates)
=============================================================================
