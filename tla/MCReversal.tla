------------------------------ MODULE MCReversal ------------------------------
(* Reversal on small instances. *)
EXTENDS Reversal, TLC

Base == [plugin |-> "notify.slack", weight |-> 0, overwrite |-> TRUE, selector |-> FALSE,
         onFailure |-> "stop"]

MeshShift(weight, onFailure) ==
  [Base EXCEPT !.plugin = "mesh.shift", !.weight = weight, !.onFailure = onFailure]
Suspending(onFailure) == [Base EXCEPT !.plugin = "argocd.suspend", !.onFailure = onFailure]
Annotating(overwrite, onFailure) ==
  [Base EXCEPT !.plugin = "k8s.annotate", !.overwrite = overwrite, !.onFailure = onFailure]
Isolating(selector, onFailure) ==
  [Base EXCEPT !.plugin = "network.isolate", !.selector = selector, !.onFailure = onFailure]

(* Two weights for one backend in a row; every plugin; every onFailure.    *)
MCActions ==
  {<<MeshShift(2, "stop"), MeshShift(0, "rollback"), Suspending("rollback")>>,
   <<Annotating(TRUE, "continue"), Suspending("continue"), Base, Isolating(FALSE, "rollback")>>,
   <<Isolating(TRUE, "continue"), Annotating(FALSE, "rollback"), MeshShift(1, "stop")>>}

(* Pipelines behind a gate, without and with a rollback.                   *)
MCHeld ==
  {<<MeshShift(2, "stop"), Suspending("stop"), MeshShift(0, "stop")>>,
   <<Annotating(TRUE, "continue"), Isolating(FALSE, "rollback")>>}
MCEither == MCActions \cup MCHeld
Nothing == {}

OnlySuspend == {<<Suspending("stop")>>}
OnlyRollback == {<<MeshShift(0, "stop"), Suspending("rollback")>>}

App(automated, options) ==
  [sync |-> [automated |-> automated, options |-> options], reason |-> FALSE]

Everything == {"app", "target", "labels", "route"}

World(exists, app, note, netpol, weight) ==
  [exists |-> exists, app |-> app, note |-> note, netpol |-> netpol,
   route |-> [r \in Refs |-> IF r = 1 THEN weight ELSE 2]]

(* Nothing in the way; something of the user's in the way of each plugin;  *)
(* objects missing.                                                        *)
MCWorlds ==
  {World(Everything, App(TRUE, "prune"), None, None, Absent),
   World(Everything \ {"labels"}, App(FALSE, "prune"), "user", "user", 0),
   World({"app"}, App(TRUE, "retry"), None, None, 1)}

OneWorld == {[exists |-> Everything, app |-> App(TRUE, "prune"), note |-> None,
              netpol |-> None, route |-> [r \in Refs |-> Absent]]}

Symmetry == Permutations(Runs)
=============================================================================
