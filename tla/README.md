# A TLA+ development of the reactive-policy operator

reactive-policy is a Kubernetes operator. A `ReactivePolicy` names a Prometheus
query and a threshold; while the threshold stays crossed for the policy's
duration, the operator runs a pipeline of plugin actions against the matched
resources and writes an `ActionAudit` record. An action that requires approval
stops the pipeline: the record then carries a gate that a person approves,
denies or lets expire, and a second reconciler finishes the pipeline. A record
can later be reverted.

This directory models that machinery, checks it with TLC on small instances and
proves the properties that matter most with TLAPS for every value of the
constants. Paths below are relative to the repository root, `src/`.

## 1. Inventory

| Component | State | Operations | Correct when |
|---|---|---|---|
| Policy reconciler (`internal/controller/reactivepolicy_controller.go`, `auditwriter.go`) | none of its own between reconciles; reads and writes the policy's status (`pendingGateRef`, `lastTriggeredAt`) | gates 0 (open gate), 1 (cooldown), 2 (hourly cap); evaluate; trigger; write the record; requeue | triggers are paced; a policy waits for its own gate and for one gate only |
| Rate limiter (`ratelimit.go`) | a count per policy with the time of its last query | Allowed, Observe, Forget | recorded triggers stay under the cap |
| Threshold evaluator (`internal/prometheus/evaluator.go`) | since when each policy's threshold has been crossed | Observe, Forget | a trigger needs an uninterrupted crossing |
| Pipeline executor (`internal/action/executor.go`) | none | GateIndex, RunRange, rollback | stops at the first failure not to be continued; rolls back in reverse order |
| Audit reconciler (`actionaudit_controller.go`) | none of its own; the record and the policy's status | retention sweep, resolve, release, close, start cooldown, revert | the gate fails closed, is resolved once, always ends |
| Approval webhook (`internal/webhook/v1alpha1/actionaudit_webhook.go`) | none | admit, stamp | a verdict is write-once, in time and attributed |
| Approval and revert commands (`pkg/cli/action.go`) | none | approve, deny, revert | |
| Audit sink (`internal/audit/sink/postgres`, hook in `cmd/main.go`) | a bounded queue, one worker, the connection pool | RecordTrigger, RecordRevert, Close | what is accepted is written, in order; Close ends; recording never fails a reconcile |
| Plugins (`plugins/*`) | the cluster's objects | Execute, Reverse | Reverse undoes Execute |
| Policy admission (`internal/webhook/v1alpha1/reactivepolicy_webhook.go`, the schema markers of `api/v1alpha1/reactivepolicy_types.go`, the plugin registry) | the registry, filled at start-up | admit a manifest; defaults (`...OrDefault`, `retentionFor`) | what the reconcilers work with is within its bounds; nothing irreversible without an opt-in |
| Prometheus client (`internal/prometheus/client.go`, `evaluator.go`) | none | Query, ParseThreshold, Compare | an answer that is no single float is an error, never a value |
| Dry run (`pkg/cli/policy.go`) | none | dryRun | it predicts the operator |
| Metrics (`internal/metrics/metrics.go`) | a gauge of waiting gates; counters and histograms | RecordGateOpened, RecordGateResolved | the gauge counts the waiting gates |
| API server and informers (external) | objects with resource versions, caches | get, list, create, update, delete | optimistic concurrency |

The two reconcilers run concurrently in one process and share no memory. They
interact through the objects in the API server: the policy reconciler creates a
record and writes its phase, the audit reconciler reads it back through a cache,
writes it twice and then writes the *policy's* status, which the policy
reconciler also writes on every poll. Clients write the record's spec through
the webhook. Both reconcilers hand batches to the sink, which is closed by a
hook that runs while they may still be working.

What is hard: every reconcile is a sequence of calls with other actors between
them; reads come from caches of any age; each write can conflict, fail, or be
applied with its answer lost; the process can die anywhere, and the window and
the limiter are in memory; timers race verdicts; names are reused by new
policies; users edit a policy while its gate is open, and the gate itself.
`PROJECT.json` lists these
hazards line by line with the properties that would catch each.

## 2. Modules

| Module | Models | Extends |
|---|---|---|
| `Pipeline` | the pure part of the executor: `GateIndex`, `RunRange` as a closed form | |
| `Executor` | `RunRange` as the loop it is, one plugin call per step | `Pipeline` |
| `Cluster` | API objects, versions, informer caches, clock, users of the policy | `Pipeline` |
| `PolicyReconciler` | the policy reconciler, limiter and sliding window | `Cluster` |
| `AuditReconciler` | the audit reconciler | `Cluster` |
| `Approval` | the webhook and its clients | `Cluster` |
| `Operator` | the composition, crashes, and all properties of it | the three above |
| `ApprovalGate` | what a gate promises, abstractly | |
| `AuditSink` | the Postgres sink and its shutdown | |
| `Observability` | `Operator` with what it reports: the gauge, the sink's queue, the two Postgres tables | `Operator` |
| `Admission` | a policy from its manifest to its trigger: schema, webhook, registry, query, comparison, window, target cap, dry run | |
| `Reversal` | what each plugin does and undoes, rollback, revert | |
| `MCOperator`, `MCObservability`, `MCAdmission`, `MCReversal` | values of the constants for TLC | |
| `GateProofs`, `PromiseProofs`, `PacingProofs`, `ObservabilityProofs`, `ExecutorProofs`, `ReversalProofs`, `AdmissionProofs`, `SinkProofs` | theorems | what they are about |

### How the state and actions correspond to the code

*Versions.* Only "does this copy carry the current resourceVersion" is ever
observable, so `Cluster` keeps, per object, the set of copies that do
(`policyFresh`, `auditFresh`): the informer cache, each reconciler's working
copy, each client's pending request. A write empties the set. A status write
that changes no modelled field may or may not make a new version, because
unmodelled fields (conditions, `lastEvaluatedAt`) may have changed.

*Caches.* `policyCache` and `auditCache[a]` lag behind the server;
`SyncPolicy` and `SyncAudit` deliver the latest version. Objects are synced
independently, as separate watches are. `Lag` says how old a cache may be:
`"any"`, `"tick"` (caught up before the clock moves) or `"none"`.

*Calls.* A write ends in `"ok"`, `"conflict"`, `"fail"` (not applied) or
`"lost"` (applied, answer lost). The last two and crashes share `MaxFaults`.

*Reconciles.* A reconcile is cut exactly at the calls others can come between;
`pr.pc` and `ar.pc` name the next call and the rest of the record is the working
copy. Everything the code does between two calls is one action: `WriteAudit`,
for example, is the create, `Limiter.Observe`, `Window.Forget` and the status
prepared for `requeue`. `pr.at` is the `now` read at the start of Reconcile. A
gate that is closed ends in two calls of its own, the cached `Get` of the policy
(`RefetchPolicy`) and the `Status().Update` (`StartCooldown`); a released one
goes straight to the second with the policy it read before its pipeline ran.

*Clients of a record.* The webhook guards the presence of `spec.gate`, the
verdict and the two stamped fields, and nothing else of the gate. A request
(`GateEdits`) may therefore rewrite the gate's description, which is
`actionIndex`, `pendingPlugins`, `targets` and `expiresAt`, with the verdict left
alone or together with a new one. The descriptions clients write are a constant
(`Rewrites`), as is how many they write.

*Records.* `spec.actions` is kept as one batch per pipeline run (`before`,
`released`, `skipped`). `AuditObj` has the fields some branch reads. A name not
used yet has `uid = 0`; a deleted record keeps its contents with `live = FALSE`,
so that properties can speak of it.

*Metric.* Whether a query fails, and whether its value crosses the threshold, is
a free choice at every poll.

*Plugins.* In `Operator` a plugin call is an outcome. `Reversal` models what the
five plugins write: the Application's sync policy, an annotation, a
NetworkPolicy, the route's weights, and the `Details` each leaves for `Reverse`.
An ungated run is recorded by one create (`WriteRecord`). A held one is recorded
by the two writes of `releaseGate` (`RecordReleased`, `SetPhase`), and run and
recorded again when one of them fails, so that a record can have the results of
several runs.

*The abstract gate.* `ApprovalGate` has no requests, caches, versions, retries
or reconciles: a gate opens, gets one verdict, its actions run, the trail says
what became of them, the gate closes. `Operator!Promise` maps it: `stage` is the
phase, `verdict` the decision, `trail` the kinds of batches on the record that
speak of the held actions, `ran` whether they were run, `due` whether the
deadline has passed, `orphan` whether the policy is gone or replaced, and
`rewritten` the gates whose description a client has changed. Of those gates the
promise keeps what does not depend on the description: no run without an
approval, one verdict, one outcome, nothing reported that was not done. Two things
the code allows are visible in the abstract specification and would otherwise go
unnoticed: a verdict admitted before the deadline may land after it, and an
approved gate whose policy has gone is closed as denied, also after a release
that was recorded or run before.

*Reports.* `Observability` repeats every step of `Operator` with what it
forwards. A row is keyed by the record and the action's position on it, and
an insert leaves an existing key alone. A crash empties the gauge and the queue.

*Admission.* One unit of time is 10 seconds, the granularity of the webhook's
bounds; 0 stands for an absent field. An edit changes one field. Prometheus
answers anything at any evaluation: an error, a matrix, a scalar, a vector of
none, one or two samples, NaN. Gates 0 to 2 only leave evaluations out and are
not repeated here. A restart may come with another set of plugins, because the
registry is compiled in and stored policies are not validated again.

*History variables* (`fires`, `heldRuns`, `heldRan`, `undos`, `closed`,
`decider`, `rewritten`, `versions`, and in the other modules `lost`, `drifted`,
`streak`, `touched`, `fired`, `accepted`, `handed`, `panicked`, `before`,
`clean` and the field `missing`) are read by no guard and decide nothing but
other history variables.

Definitions marked *variant* are the plausible mistakes the properties were
tested against; nothing refers to them.

## 3. Runs

Deadlock is not checked: every run's clock and bounds make it stop.

### Passing

| Run | Bounds | Shows |
|---|---|---|
| `gate` | one gated record, two approvers, caches of any age, one fault or crash, one revert request, clock 0..2 with the gate expiring after 1 | `FailClosed`, `ExpiredUndecided`, `ApprovedIsRecorded`, `DeciderStamped`, `DecisionWriteOnce`, `PhaseFinal`, `TypeOK`, and `GatePromise`: the operator implements `ApprovalGate` |
| `replaced` | two records, two incarnations of the policy with different pipelines, one edit in place, retention shorter than the run | `GatePromise`, `WaitsForOwnGate` and `ReleasedScope` across edits, deletion, recreation and the retention sweep |
| `rewritten` | one gated record, one client, one update that rewrites the gate (another index, list, target or deadline) with or without a verdict, one fault or crash | `FailClosed`, `ReleasedScope` and `GatePromise` |
| `pacing` | gated and ungated policies and one edit from one to the other, pipelines that fail, with and without targets, one fault or crash, caches lagging up to a tick | `TriggerSpacing`, `HourlyCap`, `QuietWhileRemembered` |
| `liveness` | one record, caches of any age, one fault or crash, one edit that leaves nothing behind the gate, fairness | `GateResolves`, `PolicyLetGo`, and `ApprovalTakesEffect` although the pipeline ends where the gate was |
| `trail` | one record, a pipeline with a gate and one without, a queue of one, two incarnations, one fault, failed insert or crash, one revert, a record the sweep can delete | `RowsMatchRecord`, `TrailComplete`, `GaugeFollowsGates`, `ObsTypeOK` |
| `admission` | values on both sides of every bound, three edits, deletions or upgrades, two plugins of which one is irreversible, clock 0..4 with durations of 3 and 4 | `EffectiveTimings`, `IrreversibleOptedIn`, `DryRunAgrees`, `SustainedUnlessEdited`, `TypeOK` |
| `executor_loop` | every pipeline of up to three actions, every slice, every outcome of Execute and Reverse | the loop computes `RunRange`, the closed form the other modules use |
| `sink_drain` | two reconcilers, a queue of two, four Record calls, fairness | `InOrder`, `CloseDrains`, `PoolClosedLast`, `ShutdownEnds` |
| `undo` | three ungated pipelines over all five plugins and two behind a gate, whose release is run again whenever one of its writes fails; two runs, two faults, one user edit, present and missing objects | `RevertUndoes`, `RollbackUndoes` |

Each race needs one record, one fault and at most two users: a stale read, a
write that does not take effect as the caller thinks, and a competing writer.
`replaced` and `pacing` have the second record that a second gate or a second
trigger needs. One record is enough for `trail`: rows
of different records have different keys, and one record already fills a queue
of one (the trigger's batch, the release's, the revert's). `admission` needs
three edits for the longest story it tells, which is an opt-in, an action that
needs it and the opt-in withdrawn. The clock runs past the deadline, the
cooldown and the hour where the property is about them. Symmetry is used over
records, users and runs, and only for safety.

`QuietWhileRemembered` is what remains of the cooldown when calls fail and reads
are stale. The code decides from `lastTriggeredAt` and `pendingGateRef`, and
heeds both as long as the stored status has them, also when it reads through a
cache; a trigger that comes too early or behind an open gate is always one that
followed the loss of the field. For the gate this is `HoldsWhileReferenced`,
which is proved, and which TLC checks in `MCOperator_referenced.cfg`. That
neither field is lost when nothing fails is `MCOperator_calm.cfg`.

`ReleasedScope` says what an approval can release: actions of a pipeline that
the policy that opened the gate has had, behind the gate's index unless a client
rewrote the gate. That they are the ones the record lists needs a pipeline that
was not edited and a gate that was not rewritten;
`MCOperator_approved_scope.cfg` shows the edit.

`GaugeFollowsGates` is about the gates currently waiting, which is what the
metric's help text says. `drifted` records the three events the code does not
count: a phase write whose answer is lost, a restart with gates open, and the
sweep of a waiting gate. Conflicts, failed writes and retries leave the gauge
right, and a restart with no gate open sets it right again.
`MCObservability_gauge.cfg` shows that the events happen.

### Violations

Each checks one property that a document or comment of the repository states
and the code does not keep; `findings` quotes the line.

| Run | Property | What happens |
|---|---|---|
| `decision_cooldown` | `QuietAfterDecision` | `startCooldown` loses its race with the policy reconciler and nobody derives the cooldown again |
| `held_restart` | `HeldRunOnce` | a crash between running the held actions and recording them runs them again |

### Further configurations

Not part of the regular runs. Two of them pass:

| Configuration | Property | What it shows |
|---|---|---|
| `MCOperator_referenced.cfg` | `HoldsWhileReferenced` | two records, one fault or crash, one edit, caches lagging up to a tick: a second gate opens only when `pendingGateRef` was lost |
| `MCOperator_calm.cfg` | `SingleGate`, `QuietAfterTrigger`, `HourlyCap` | nothing fails, caches are fresh, no reconcile is slower than a tick, the limiter's cached count outlives a trigger |

In each of the others TLC shows a disagreement of the same kinds as above.

| Configuration | Property | What happens |
|---|---|---|
| `MCOperator_second_gate.cfg` | `SingleGate` | soon after a gate opened Gate 0 does not find it in its cache, takes it for closed and drops `pendingGateRef` (`reactivepolicy_controller.go:312`); a second gate opens, which `reactivepolicy_controller.go:96` says Gate 0 is there to prevent |
| `MCOperator_cooldown_lost.cfg` | `QuietAfterTrigger` | the policy is edited during the pipeline, the status write conflicts (`reactivepolicy_controller.go:377`), `lastTriggeredAt` is lost and the policy triggers again inside its cooldown; `docs/CRD_SPEC.md:129` says it will not |
| `MCOperator_approved_scope.cfg` | `ApprovedScope` | an in-place edit changes what an approval releases (`actionaudit_controller.go:177`); `api/v1alpha1/actionaudit_types.go:67` says approvers see what they release |
| `MCOperator_skipped_ran.cfg` | `SkippedNotRun` | held actions ran, recording them conflicted, the policy was deleted: the retry records them as skipped, which `actionaudit_controller.go:233` says means that they did not run |
| `MCObservability_gauge.cfg` | `PendingIsOpenGates` | a gate whose phase write is applied but not answered is waiting and not counted; `metrics.go:118` and `docs/observability.md:71` say "currently waiting" |
| `MCReversal_details_lost.cfg` | `RevertRestores` | the Update after a release fails; `argocd.suspend`, run again, is recorded as Skipped without what revert needs (`plugins/argocd-suspend/plugin.go:94`); `docs/PLUGIN_INTERFACE.md:214` says Reverse restores the stored settings |
| `MCAdmission_spike.cfg` | `SpikeNeverTriggers` | the condition is edited while its window runs: the new condition inherits the old one's crossing (`evaluator.go:67`) and one evaluation triggers; `docs/concepts.md:20` says a momentary spike never does |
| `MCOperator_old_gate.cfg` | `SingleGate` | closing a gate of a deleted policy clears the reference of the policy recreated under its name (`actionaudit_controller.go:294`) |
| `MCOperator_gate_stuck.cfg` | `ApprovalTakesEffect` | a pipeline edited to be shorter than the gate's index makes `releaseGate` panic on every attempt (`actionaudit_controller.go:178`) |
| `MCOperator_revert_twice.cfg` | `RevertOnce` | a failed status write makes the retry reverse everything again; `actionaudit_controller.go:317` calls revert one-shot |
| `AuditSink_closed.cfg` | `RecordIsSafe` | a reconcile still in progress at shutdown sends on the closed queue; `docs/ARCHITECTURE.md:215` says sink errors never fail a reconcile |
| `MCObservability_trail_edited.cfg` | `TrailOfAll` | a release is recorded, the pipeline is edited to end at the gate and the phase write conflicts: the retry finds nothing left to run and closes the gate without forwarding the record again, so the released actions never reach Postgres |
| `MCOperator_cap_exceeded.cfg` | `HourlyCap` | the answer to a record's create is lost, so `Observe` is not called; with a poll interval longer than the duration the limiter's cached count is still served when the policy triggers again |
| `MCAdmission_retention.cfg` | `RetentionBounded` | no ceiling on the retention is checked; `api/v1alpha1/reactivepolicy_types.go:186` says "Max 1y, enforced by the validating webhook" |
| `MCReversal_rolled_back.cfg` | `ReversedIsSkipped` | a rolled-back action stays on record as Succeeded; `internal/action/interface.go:98` says Skipped |

### Fairness

`FairSpec` of `Operator` asks for weak fairness of the clock, of each informer,
and of each reconciler as a whole: controller-runtime calls a reconciler again
after every error, conflict and `RequeueAfter`, and a controller's worker does
not stop. No fairness is asked of users, and none of a particular reconciler
branch. Faults are bounded, which is what "the API server is eventually
reachable" means here. The metric stays within its threshold after
`LastCrossing`, so that the last record is not followed by one the model has no
name for. `FairSpec` of `AuditSink` asks that the hook runs, that its 30 second
context expires and that the worker is scheduled; a write to Postgres may hang
for ever.

## 4. Theorems

All from the assumptions on the constants (`ClusterAssumption`,
`TimingAssumption`, `RetentionAssumption`, `ApprovalAssumption`,
`BriskAssumption`, `QueueAssumption`, `LenAssumption`, `SinkAssumption`,
`AdmissionAssumption`, `ActionsAssumption`, `HeldAssumption`,
`WorldsAssumption`, `CallsAssumption`): any number of records, users, faults, edits, incarnations
and pipelines, any clock, any cache lag, any rewriting of gates. Five theorems
have a hypothesis besides (`RememberedTriggerHeeded`, `ReferencedGateHeeded`,
`CapHolds`, `RevertHolds`, `RollbackHolds`), given with them below together with
what happens without it.

The proofs of the composed operator build on each other: `GateProofs`, then
`PromiseProofs`, then `PacingProofs` and `ObservabilityProofs`. Each inductive
invariant was checked with TLC on the runs' instances before it was proved.

* `GateProofs!StopsAtFailure`: in a run of a slice no result follows a failure
  that is not to be continued. It and the lemmas before it say what `GateIndex`
  and `RunRange` return, and every later proof uses them.
* `GateProofs!TypeCorrect`: `Spec => []TypeOK`. `TypeOK` is inductive; the
  proof has one lemma per group of actions.
* `GateProofs!GateFailsClosed`, `DeciderIsStamped`, `DecisionIsFinal`. None of
  the three properties is inductive, because each depends on what is in flight:
  a release acts on the cache, a reconcile's second write carries the verdict it
  read back to the server, an admitted request is committed later. `GateInv`
  adds three facts. `RecordInv`: a cached verdict is the server's verdict (the
  cache may miss one but never has another). `CopyInv`: a working copy that the
  server would still accept has the server's verdict. `RequestInv`: a request
  the server would still accept changes no verdict or gives the first one, in
  the requester's name. Optimistic concurrency is what makes them inductive:
  every write takes all other copies out of the fresh set.
* `PromiseProofs!PolicyWaitsForOwnGate`. A reference to a gate reaches the
  policy's status through caches and a working copy while the policy may be
  deleted and made again. `OwnerInv` says that it travels with the uid of the
  policy that opened the gate, that the cache is never ahead of the server, and
  that a working copy the server would still accept is of the policy it has.
* `PromiseProofs!ExpiryNeverOvertakes`, `ApprovedMeansRecorded`,
  `OutcomeIsFinal`. The audit reconciler decides on an outcome from its cache
  and writes it in two steps, the trail and then the phase. `OutcomeInv` says,
  per phase, which verdict and which trail a record has (`Sound`); that a
  gate the cache shows as pending was opened, by the same policy (`Seen`); that a reconcile between its two
  writes had grounds for its outcome (`Closing`), and that its copy, while the
  server would accept it, is the record with that outcome's trail (`Current`);
  that the policy reconciler's second write meets a record nobody resolved
  (`MarkInv`); and that an admitted verdict that could still be committed is for
  an open gate with an empty trail (`OpenInv`).
* `PromiseProofs!OperatorKeepsPromise`: `Spec => GatePromise`, the refinement of
  `ApprovalGate`. `OutcomeInv` gives the enabling condition of the abstract step
  behind each action; the lemma of each action names the step, or shows that
  nothing the gate tells apart changes.
* `PromiseProofs!ReleaseIsInScope`: `ReleasedScope`, with no hypothesis on edits
  of the policy or of the gate. The release reads the pipeline from the policy's
  cache and the index from the record's. `ScopeInv` says that the stored policy,
  its cached version and the reconcilers' copies each have a pipeline the
  incarnation they belong to has had (`VersionInv`); that a cached record which
  nobody rewrote describes the same gate as the stored one, and that this gate is
  the one of some pipeline of its policy; and that what ran so far lies behind it.
* `PacingProofs!TriggersAreSpaced`. The window is emptied only after the
  pipeline ran and the record was written; `PacingInv` says that outside those
  steps the window did not start before the last trigger, so a window that has
  lasted for the duration is at least that far from it. No status write is
  involved, which is why losing them does not matter.
* `PacingProofs!RememberedTriggerHeeded` and `ReferencedGateHeeded`, assuming
  only that caches catch up before the clock moves (`Lag # "any"`; a policy whose
  cache is a whole duration old can pass both gates on what it no longer says).
  Failed and lost calls, conflicts, restarts, edits and recreation are allowed.
  The gates of a reconcile look at cached objects, so `MemoryInv` says what a
  cache may have missed: a trigger or gate that the stored status has and the
  cache has not is of the current tick (`Unread`), in which the window, emptied
  by the trigger, cannot have lasted for the duration; and a reconcile that got
  as far as its pipeline started from a policy that did not have it (`Heeded`).
  `WorkingCopy` and `ClosedInv` say who can still write the two fields, and with
  which time.
* `PacingProofs!CapHolds`, assuming `Prompt`: the caches catch up before the
  clock moves, a policy is polled at least once per duration (the poll interval
  defaults to 30 s, the shortest duration admitted) and a record is kept for the
  hour it counts in. Faults, restarts, edits and recreation are all allowed. The
  limiter's count can be wrong: `Observe` is not called when the answer to a
  create is lost. `CapInv` therefore does not say that it is right. It says that
  a count younger than the window is at least the number of records in its hour
  (`CountInv`): the window began after the last record, so such a count was
  listed when that record was in the cache. A policy triggers only after a
  window of the duration, and a count is served for one poll interval, so the
  count that admits a trigger is that young; `RoomInv` carries the room it found
  to the create. `MCOperator_cap_exceeded.cfg` breaks the cap with a poll
  interval longer than the duration.
* `ObservabilityProofs!GaugeCountsGates`: `GaugeFollowsGates` is inductive next to
  the earlier invariants, from which it follows that a phase write is of a gate
  that is waiting and that a sweep takes away at most one.
* `ObservabilityProofs!ObsTypeCorrect`, `RowsMatch`. A row
  is sent from a reconcile's working copy, and the first row of a key stays for
  ever. `HoldsInv` says that a working copy has the runs of the record while the
  server would accept it, so that a row is right when it is sent; that records
  only grow (`RecordsGrow`) keeps it right. That a flattened record keeps its
  beginning when a batch is added is proved by least-element arguments over the
  recursive function behind `FlattenSeq`.
* `ObservabilityProofs!TrailIsComplete`. Rows once sent stay in the queue or in a
  table (`RowsKept`); `CoverInv` says that a finished record's actions have all
  been sent, from what each closing step still has to forward (`ReleaseInv`) and
  from `ScopeInv`. The property is about records whose gate was released as it
  was opened (`AsOpened`: the gate not rewritten, its policy not edited).
  `MCObservability_trail_edited.cfg` shows the rows that are missing after an
  edit.
* `ExecutorProofs!LoopComputesRunRange`: the loop computes `RunRange` for
  pipelines of any length, so that `Operator`'s use of the closed form loses
  nothing. `LoopInv` has the loop invariant of the way up (everything before `i`
  ran and nothing aborted) and of the rollback (the action that aborted asked
  for it, and exactly what succeeded above `i` and could be undone is marked).
* `AdmissionProofs!AdmissionTypes`, `TimingsInBounds`, `IrreversibleNeedsOptIn`,
  `DryRunPredicts`, `TriggersAreSustained`, from `AdmissionInv`: the stored
  policy satisfies what the webhook checks with every plugin known, whichever
  the running operator has, and unless the condition was edited under a running
  window the crossings go back at least as far as the window. The window
  survives an evaluation error, so the invariant also needs that a window that
  was started belongs to a condition that can be evaluated.
  `AdmissionAssumption` says that the policy users start from was admitted; it
  is a value of a constant, and the run's value satisfies it.
* `ReversalProofs!RevertHolds`, `RollbackHolds`, assuming `Answered`: no
  pipeline is held, so that each runs once, and a call that was reported as
  failed had no effect. Pipelines may name a plugin several times, several runs may overlap
  on the same objects, users may edit them, and any Execute or Reverse may fail.
  `UndoneInv` says of every run that nobody else disturbed that what its
  succeeded actions did not write is as the run found it, and that the first
  action to write something has in its `Details` what the run found there
  (`Traced`); for a route, the earliest shift that holds it has the original
  weight. Of a revert or rollback under way it says that what was reversed so
  far is back (`Back`). For held pipelines, which can run several times,
  `RevertUndoes` is checked by the run `undo`.
* `SinkProofs!SinkTypes`, `BatchesInOrder`, `CloseLeavesNothing`,
  `PoolIsClosedLast`, from `SinkInv`: the order of batches together with the
  order of the shutdown (the worker ends only with a closed and empty queue,
  Close succeeds only after it).

Only model-checked: liveness (`GateResolves`, `PolicyLetGo`,
`ApprovalTakesEffect`, `ShutdownEnds`), because TLAPS has no usable support for
fairness and `ENABLED` here; `SingleGate` and `QuietAfterTrigger`, which hold
only where nothing fails (`MCOperator_calm.cfg`); `HourlyCap` with a poll interval longer than
the duration, which holds there because nothing is lost; and `RevertUndoes` of
held pipelines.

The properties of the violation runs are not theorems: they are false.

## 5. Not modelled

* Counters and histograms, the gauge of active policies, logging, conditions,
  `status.state`, `triggerCount`: written, never read by a branch.
* RBAC aggregation, templates, listing and describing commands, flags,
  generated code: filled once, declarative or formatting.
* The mode without webhooks (`ENABLE_WEBHOOKS=false`): nothing is then admitted
  or stamped, and no property of `Approval` or `Admission` is claimed for it.
* A verdict on what several operators with different registries would do: one
  process at a time, as leader election has it.
* How a `Reverse` ended, in the rows of `Observability`: `Reversal` has it.
* Several policies: reconciles of different policies share nothing but the
  cluster's objects.
* Errors other than NotFound from cached reads, which the informer cache does
  not return.
* `decidedAt`, which is stamped and protected like `decidedBy`; and `reason`,
  which the webhook neither stamps nor protects and no branch reads.
* Clients that rewrite a record outside `spec.gate`: `spec.actions`,
  `policyUID`, `policyRef`, `triggeredAt`, `metricValue`. The webhook admits
  that. `RowsMatchRecord` and the mapping of `orphan` rely on nobody doing it.
* A policy with a `Reverse` that is not registered any more, or one that stopped
  being reversible in an upgrade: `Reversal` has one set of plugins.
* Rollbacks in `Operator` are assumed to succeed; `Executor` and `Reversal`
  model the ones that fail.
* Concurrent audit reconciles: the controller has one worker by default and is
  set up with the default.

## 6. Plan

Done: `Pipeline`, `Cluster`, the reconcilers and `Approval`, `Operator`, the
sink, `Executor` and `Reversal`; the abstract gate and its refinement, checked
and proved; `Observability` and `Admission`; the theorems above. Next:

1. Sink and reconcilers together at shutdown: which parts of a reconcile a panic
   leaves undone.
2. `HourlyCap` without the bound on the poll interval, from the assumption that
   no create's answer is lost.
3. `RevertUndoes` of held pipelines as a theorem: `Traced` over the results of
   all runs of a release.
