------------------------------ MODULE Pipeline ------------------------------
(***************************************************************************)
(* What a pipeline is and what one run of a slice of it returns: the pure  *)
(* part of internal/action/executor.go.                                    *)
(*                                                                         *)
(* A pipeline is the sequence spec.actions.  Positions are the code's      *)
(* zero-based indices, so action i is p[i + 1].  An action is a record     *)
(*   plugin    - the plugin it names,                                      *)
(*   gated     - requiresApproval,                                         *)
(*   onFailure - "stop" (also the default of an empty field), "continue"   *)
(*               or "rollback".                                            *)
(* What a plugin does is external: Execute is an outcome per index,        *)
(* "Failed" for every call that returns an error (a plugin that is not     *)
(* registered included), "Succeeded" or "Skipped" for one that does not.   *)
(***************************************************************************)
EXTENDS Integers, Sequences

CONSTANT Plugins            \* the plugin names a pipeline may use

OnFailure == {"stop", "continue", "rollback"}
Statuses  == {"Succeeded", "Skipped", "Failed"}

Action == [plugin : Plugins, gated : BOOLEAN, onFailure : OnFailure]

(* One element of the results: reversed is Details["reversed"], set by a   *)
(* rollback whose Reverse call returned no error.                          *)
Result == [plugin : Plugins, status : Statuses, reversed : BOOLEAN]

(* GateIndex: the first action that holds for approval, or -1.             *)
GateIndex(p) ==
  LET gates == {i \in 0..(Len(p) - 1) : p[i + 1].gated}
  IN  IF gates = {} THEN -1 ELSE CHOOSE i \in gates : \A j \in gates : i <= j

(* The index at which [from, to) ends: the first failure that is not       *)
(* "continue", or the last action of the slice.                            *)
Aborts(p, from, to, outcome) ==
  {i \in from..(to - 1) : outcome[i] = "Failed" /\ p[i + 1].onFailure # "continue"}

LastRun(p, from, to, outcome) ==
  LET aborts == Aborts(p, from, to, outcome)
  IN  IF aborts = {} THEN to - 1
                     ELSE CHOOSE i \in aborts : \A j \in aborts : i <= j

(* RunRange(p, from, to, outcome, undone): the results of actions          *)
(* [from, to) against one target, where undone is the set of indices whose *)
(* Reverse succeeds should a rollback call it.  to is at most Len(p).      *)
RunRange(p, from, to, outcome, undone) ==
  LET last     == LastRun(p, from, to, outcome)
      rollback == /\ Aborts(p, from, to, outcome) # {}
                  /\ p[last + 1].onFailure = "rollback"
  IN  [k \in 1..(last - from + 1) |->
         LET i == from + k - 1
         IN  [plugin   |-> p[i + 1].plugin,
              status   |-> outcome[i],
              reversed |-> rollback /\ outcome[i] = "Succeeded" /\ i \in undone]]

(* The names of the plugins a gate at index i holds (PendingPlugins).      *)
HeldPluginsAfter(p, i) ==              \* variant: those behind the gated action
  [k \in 1..(Len(p) - i - 1) |-> p[i + k + 1].plugin]

HeldPlugins(p, i) == [k \in 1..(Len(p) - i) |-> p[i + k].plugin]
=============================================================================
