------------------------------- MODULE Reversal -------------------------------
(***************************************************************************)
(* What the plugins do to the cluster and what undoes it: the Execute and  *)
(* Reverse of every plugin under plugins/, the run of a pipeline action by *)
(* action with its rollback (internal/action/executor.go), the record of   *)
(* the run, and its revert (internal/controller/actionaudit_controller.go).*)
(*                                                                         *)
(* One target.  world holds the objects the plugins act on (exists names   *)
(* the ones there are, of "app", "target" and "route", and "labels" if the *)
(* target has any that a pod selector can be derived from):                *)
(*   app     the Argo CD Application: its sync policy and whether it has   *)
(*           the suspend-reason annotation                                 *)
(*   note    the annotation k8s.annotate writes on the target              *)
(*   netpol  the NetworkPolicy network.isolate names after the target      *)
(*   route   the weights of the HTTPRoute's references to the backend      *)
(* Objects are read and written by one API call each; a call that loses a  *)
(* race fails like any other, without effect.                              *)
(***************************************************************************)
EXTENDS Integers, Sequences, FiniteSets

CONSTANTS
  Runs,          \* bound: the triggers of the policy
  Actions,       \* the pipelines it may have
  Worlds,        \* what users may make of the objects
  Refs,          \* positions of the backend in the route's rules
  Held,          \* those of them that run behind an approval gate
  Calls,         \* how an API call may end: "ok", "fail" (without effect) or
                 \* "lost" (with effect, the answer lost)
  MaxEdits,      \* bound: changes by users
  MaxFaults      \* bound: API calls that end otherwise than "ok"

None == "none"   \* an absent annotation or NetworkPolicy; no Details
Absent == -1     \* an absent weight
DefaultWeight == 1

(* An action of spec.actions, of which there is at least one; the objects, *)
(* an annotation or NetworkPolicy being absent, the policy's or a user's.  *)
PluginNames ==
  {"argocd.suspend", "k8s.annotate", "network.isolate", "mesh.shift", "notify.slack"}

Action ==
  [plugin : PluginNames, weight : Int, overwrite : BOOLEAN, selector : BOOLEAN,
   onFailure : {"stop", "continue", "rollback"}]

SyncPolicy == [automated : BOOLEAN, options : STRING]

Objects ==
  [exists : SUBSET {"app", "target", "labels", "route"},
   app : [sync : SyncPolicy, reason : BOOLEAN],
   note : {None, "policy", "user"}, netpol : {None, "policy", "user"},
   route : [Refs -> Int]]

ASSUME ActionsAssumption == \A p \in Actions : p \in Seq(Action) /\ p # <<>>
ASSUME HeldAssumption == Held \subseteq Actions
ASSUME WorldsAssumption == \A w \in Worlds : w \in Objects
ASSUME CallsAssumption == Calls \subseteq {"ok", "fail", "lost"}

VARIABLES
  pipeline,      \* spec.actions
  world,         \* the objects
  run,           \* the pipeline run in progress
  records,       \* the ActionAudit of each run
  undo,          \* the revert in progress
  edits, faults,
  before,        \* history: the world each run started from
  clean          \* history: nobody else changed the world since

vars == <<pipeline, world, run, records, undo, edits, faults, before, clean>>

Idle == [pc |-> "idle"]
NoRecord ==      \* missing is history: some results did not make it to the record
  [state |-> "none", results |-> <<>>, missing |-> FALSE, reverted |-> FALSE, failures |-> 0]

Init ==
  /\ pipeline \in Actions
  /\ world \in Worlds
  /\ run = Idle /\ undo = Idle
  /\ records = [r \in Runs |-> NoRecord]
  /\ edits = 0 /\ faults = 0
  /\ before = [r \in Runs |-> world] /\ clean = [r \in Runs |-> FALSE]

-----------------------------------------------------------------------------
(* Execute.  What the plugin wants to do: the status it would return, the  *)
(* world after its write (if it writes), and the Details for Reverse.      *)

Ends(status, w, details) == [status |-> status, world |-> w, details |-> details]
Fails(w) == Ends("Failed", w, None)
Skips(w) == Ends("Skipped", w, None)

Suspend(w) ==
  IF "app" \notin w.exists THEN Fails(w)
  ELSE IF ~w.app.sync.automated THEN Skips(w)
  ELSE Ends("Succeeded",
            [w EXCEPT !.app = [sync |-> [w.app.sync EXCEPT !.automated = FALSE],
                               reason |-> TRUE]],
            w.app.sync)

Annotate(w, overwrite) ==
  IF "target" \notin w.exists THEN Fails(w)
  ELSE IF w.note # None /\ ~overwrite THEN Skips(w)
  ELSE Ends("Succeeded", [w EXCEPT !.note = "policy"], "key")

(* The NetworkPolicy is created, or overwritten if there is one.  Without  *)
(* a podSelector parameter the selector comes from the target.             *)
DerivesSelector(w) == {"target", "labels"} \subseteq w.exists

ApplyPolicy(w) == [w EXCEPT !.netpol = "policy"]

Isolate(w, selector) ==
  IF selector \/ DerivesSelector(w) THEN Ends("Succeeded", ApplyPolicy(w), "name") ELSE Fails(w)

(* applyWeight: the references not at the weight yet, an absent weight     *)
(* counting as 1.                                                          *)
Effective(weight) == IF weight = Absent THEN DefaultWeight ELSE weight

Changes(route, weight) == {r \in Refs : Effective(route[r]) # weight}

Shift(w, weight) ==
  IF "route" \notin w.exists \/ Refs = {} THEN Fails(w)
  ELSE LET changed == Changes(w.route, weight)
       IN  IF changed = {} THEN Skips(w)
           ELSE Ends("Succeeded",
                     [w EXCEPT !.route = [r \in Refs |-> IF r \in changed THEN weight ELSE @[r]]],
                     [r \in changed |-> w.route[r]])

Notify(w) == Ends("Succeeded", w, None)

Execute(act, w) ==
  CASE act.plugin = "argocd.suspend"  -> Suspend(w)
    [] act.plugin = "k8s.annotate"    -> Annotate(w, act.overwrite)
    [] act.plugin = "network.isolate" -> Isolate(w, act.selector)
    [] act.plugin = "mesh.shift"      -> Shift(w, act.weight)
    [] act.plugin = "notify.slack"    -> Notify(w)

-----------------------------------------------------------------------------
(* The plugins' Reverse, of a result that succeeded: the world after its   *)
(* write.  An object that is gone is nothing to undo.                      *)

Resume(w, sync) ==
  IF "app" \notin w.exists THEN w ELSE [w EXCEPT !.app = [sync |-> sync, reason |-> FALSE]]

RemoveNote(w) == IF "target" \notin w.exists THEN w ELSE [w EXCEPT !.note = None]

LiftIsolation(w) == [w EXCEPT !.netpol = None]

RestoreWeightsPresent(route, previous) ==  \* variant: an absent weight becomes its default
  [r \in Refs |-> IF r \in DOMAIN previous THEN Effective(previous[r]) ELSE route[r]]

RestoreWeights(route, previous) ==
  [r \in Refs |-> IF r \in DOMAIN previous THEN previous[r] ELSE route[r]]

ShiftBack(w, previous) ==
  IF "route" \notin w.exists THEN w
  ELSE [w EXCEPT !.route = RestoreWeights(@, previous)]

(* The plugin a result names, looked up in the registry. *)
Reverse(result, w) ==
  CASE result.plugin = "argocd.suspend"  -> Resume(w, result.details)
    [] result.plugin = "k8s.annotate"    -> RemoveNote(w)
    [] result.plugin = "network.isolate" -> LiftIsolation(w)
    [] result.plugin = "mesh.shift"      -> ShiftBack(w, result.details)

Reversible(plugin) == plugin # "notify.slack"

-----------------------------------------------------------------------------
CallEnds(c) ==
  /\ c # "ok" => faults < MaxFaults
  /\ faults' = IF c = "ok" THEN faults ELSE faults + 1

Applied(c) == c \in {"ok", "lost"}

(* world changes on behalf of run r: every other run is disturbed.         *)
Change(w, r) ==
  /\ world' = w
  /\ clean' = IF w = world THEN clean ELSE [s \in Runs |-> clean[s] /\ s = r]

-----------------------------------------------------------------------------
(* RunRange and runOne, one action per step.  A held pipeline runs in the  *)
(* reconciler that also reverts, which does one thing at a time.           *)

IsHeld == pipeline \in Held

StartRun(r) ==
  /\ run = Idle /\ (IsHeld => undo = Idle)
  /\ records[r].state = "none"
  /\ IF clean[r] \/ records[r].results # <<>>
     THEN UNCHANGED <<before, clean>>        \* a run again: still the same one
     ELSE before' = [before EXCEPT ![r] = world] /\ clean' = [clean EXCEPT ![r] = TRUE]
  /\ run' = [pc |-> "exec", r |-> r, i |-> 1, results |-> <<>>]
  /\ UNCHANGED <<pipeline, world, records, undo, edits, faults>>

Outcome(act, c) ==
  IF c = "ok" THEN Execute(act, world)
  ELSE [Fails(world) EXCEPT !.world = IF Applied(c) THEN Execute(act, world).world ELSE @]

(* After action i with this status: the next one, the rollback (from the   *)
(* action that failed), or the end.                                        *)
After(act, status, i) ==
  CASE status # "Failed" \/ act.onFailure = "continue" ->
         IF i < Len(pipeline) THEN [pc |-> "exec", i |-> i + 1] ELSE [pc |-> "record", i |-> i]
    [] status = "Failed" /\ act.onFailure = "rollback" -> [pc |-> "rollback", i |-> i]
    [] OTHER -> [pc |-> "record", i |-> i]

ExecuteAction(c) ==
  /\ run.pc = "exec"
  /\ CallEnds(c)
  /\ LET act  == pipeline[run.i]
         out  == Outcome(act, c)
         next == After(act, out.status, run.i)
     IN  /\ Change(out.world, run.r)
         /\ run' = [pc |-> next.pc, r |-> run.r, i |-> next.i,
                    results |-> Append(run.results,
                      [plugin |-> act.plugin, status |-> out.status,
                       details |-> out.details, reversed |-> FALSE])]
  /\ UNCHANGED <<pipeline, records, undo, edits, before>>

(* rollback: the actions that succeeded, last first.  An error (a plugin   *)
(* that is not reversible included) is noted and the rest still reversed.  *)
RollBack(c) ==
  /\ run.pc = "rollback"
  /\ LET res  == run.results[run.i]
         call == res.status = "Succeeded" /\ Reversible(res.plugin)
         back == [run EXCEPT !.pc = IF run.i = 1 THEN "record" ELSE "rollback",
                             !.i  = IF run.i = 1 THEN 1 ELSE run.i - 1]
     IN  IF call
         THEN /\ CallEnds(c)
              /\ Change(IF Applied(c) THEN Reverse(res, world) ELSE world, run.r)
              /\ run' = IF c = "ok" THEN [back EXCEPT !.results[run.i].reversed = TRUE]
                                    ELSE back
         ELSE c = "ok" /\ run' = back /\ UNCHANGED <<world, clean, faults>>
  /\ UNCHANGED <<pipeline, records, undo, edits, before>>

(* writeAudit: an ungated run creates its record, or stays without one. *)
WriteRecord(c) ==
  /\ run.pc = "record" /\ ~IsHeld
  /\ CallEnds(c)
  /\ records' = [records EXCEPT ![run.r] =
       IF Applied(c) THEN [@ EXCEPT !.state = "written", !.results = run.results]
                     ELSE [@ EXCEPT !.state = "lost", !.missing = TRUE]]
  /\ run' = Idle
  /\ UNCHANGED <<pipeline, world, undo, edits, before, clean>>

(* releaseGate: a held run appends its results to the record, then writes  *)
(* its phase.  If either call fails or its answer is lost the gate is      *)
(* still open: the held actions run again, and are appended once more.     *)
RecordReleasedAfresh(c) ==             \* variant: a second run replaces the first
  /\ run.pc = "record" /\ IsHeld
  /\ CallEnds(c)
  /\ records' = [records EXCEPT ![run.r] =
       IF Applied(c) THEN [@ EXCEPT !.results = run.results]
                     ELSE [@ EXCEPT !.missing = TRUE]]
  /\ run' = IF c = "ok" THEN [run EXCEPT !.pc = "phase"] ELSE Idle
  /\ UNCHANGED <<pipeline, world, undo, edits, before, clean>>

RecordReleased(c) ==
  /\ run.pc = "record" /\ IsHeld
  /\ CallEnds(c)
  /\ records' = [records EXCEPT ![run.r] =
       IF Applied(c) THEN [@ EXCEPT !.results = @ \o run.results]
                     ELSE [@ EXCEPT !.missing = TRUE]]
  /\ run' = IF c = "ok" THEN [run EXCEPT !.pc = "phase"] ELSE Idle
  /\ UNCHANGED <<pipeline, world, undo, edits, before, clean>>

SetPhase(c) ==
  /\ run.pc = "phase"
  /\ CallEnds(c)
  /\ records' = IF Applied(c) THEN [records EXCEPT ![run.r].state = "written"] ELSE records
  /\ run' = Idle
  /\ UNCHANGED <<pipeline, world, undo, edits, before, clean>>

-----------------------------------------------------------------------------
(* revert and reverseOne, one action per step, last first. *)

StartRevert(r) ==
  /\ undo = Idle /\ (IsHeld => run = Idle)
  /\ records[r].state = "written" /\ ~records[r].reverted
  /\ undo' = [pc |-> "reverse", r |-> r, i |-> Len(records[r].results), failures |-> 0]
  /\ UNCHANGED <<pipeline, world, run, records, edits, faults, before, clean>>

ReverseOne(c) ==
  /\ undo.pc = "reverse" /\ undo.i > 0
  /\ LET res == records[undo.r].results[undo.i]
     IN  IF res.status = "Succeeded" /\ Reversible(res.plugin)
         THEN /\ CallEnds(c)
              /\ Change(IF Applied(c) THEN Reverse(res, world) ELSE world, undo.r)
              /\ undo' = [undo EXCEPT !.i = @ - 1, !.failures = IF c = "ok" THEN @ ELSE @ + 1]
         ELSE /\ c = "ok" /\ undo' = [undo EXCEPT !.i = @ - 1]
              /\ UNCHANGED <<world, clean, faults>>
  /\ UNCHANGED <<pipeline, run, records, edits, before>>

(* The outcome is written; when that fails the revert starts over.         *)
MarkReverted(c) ==
  /\ undo.pc = "reverse" /\ undo.i = 0
  /\ CallEnds(c)
  /\ records' = IF Applied(c)
                THEN [records EXCEPT ![undo.r].reverted = TRUE,
                                     ![undo.r].failures = undo.failures]
                ELSE records
  /\ undo' = Idle
  /\ UNCHANGED <<pipeline, world, run, edits, before, clean>>

(* Users change, delete and create the objects. *)
Edit ==
  /\ edits < MaxEdits
  /\ edits' = edits + 1
  /\ \E w \in Worlds, f \in {"exists", "app", "note", "netpol", "route"} :
       /\ w[f] # world[f]
       /\ world' = [world EXCEPT ![f] = w[f]]
  /\ clean' = [r \in Runs |-> FALSE]
  /\ UNCHANGED <<pipeline, run, records, undo, faults, before>>

Next ==
  \/ \E r \in Runs : StartRun(r)
  \/ \E c \in Calls : ExecuteAction(c)
  \/ \E c \in Calls : RollBack(c)
  \/ \E c \in Calls : WriteRecord(c)
  \/ \E c \in Calls : RecordReleased(c)
  \/ \E c \in Calls : SetPhase(c)
  \/ \E r \in Runs : StartRevert(r)
  \/ \E c \in Calls : ReverseOne(c)
  \/ \E c \in Calls : MarkReverted(c)
  \/ Edit

Spec == Init /\ [][Next]_vars

-----------------------------------------------------------------------------
(* The world is as it was before, save that what k8s.annotate and          *)
(* network.isolate wrote is removed, not restored.                         *)
Ran(results, plugin) ==
  \E i \in 1..Len(results) : results[i].plugin = plugin /\ results[i].status = "Succeeded"

Undone(old, results) ==
  /\ world.route = old.route
  /\ IF Ran(results, "argocd.suspend")
     THEN world.app = [sync |-> old.app.sync, reason |-> FALSE] ELSE world.app = old.app
  /\ world.note = IF Ran(results, "k8s.annotate") THEN None ELSE old.note
  /\ world.netpol = IF Ran(results, "network.isolate") THEN None ELSE old.netpol

(* A revert that reports no failed action undid the whole run, provided    *)
(* nobody else touched the objects in between and all results are on       *)
(* record: whichever actions failed, were rolled back, ran again when a    *)
(* release was retried or were reversed by an earlier attempt (revert,     *)
(* reverseOne and the plugins' Details).                                   *)
RevertUndoes ==
  \A r \in Runs :
    records[r].reverted /\ records[r].failures = 0 /\ clean[r] /\ ~records[r].missing
      => Undone(before[r], records[r].results)

(* The same without the record being complete, as the plugins have it:     *)
(* argocd.suspend restores on Reverse the sync settings it removed.        *)
RevertRestores ==
  \A r \in Runs :
    records[r].reverted /\ records[r].failures = 0 /\ clean[r]
      => world.app.sync = before[r].app.sync

(* So does a rollback all of whose Reverse calls went through, of a run    *)
(* that is not one again.                                                  *)
RollbackUndoes ==
  LET res == run.results
  IN  /\ run.pc = "record" /\ clean[run.r] /\ records[run.r] = NoRecord
      /\ \E i \in 1..Len(res) : res[i].reversed
      /\ \A i \in 1..Len(res) :
           res[i].status = "Succeeded" /\ Reversible(res[i].plugin) => res[i].reversed
      => Undone(before[run.r], res)

(* As the action package has it, an action that was rolled back is on      *)
(* record as Skipped.                                                      *)
ReversedIsSkipped ==
  \A r \in Runs : \A i \in 1..Len(records[r].results) :
    records[r].results[i].reversed => records[r].results[i].status = "Skipped"
=============================================================================
