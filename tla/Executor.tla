------------------------------- MODULE Executor -------------------------------
(***************************************************************************)
(* Executor.RunRange as the loop it is (internal/action/executor.go): one  *)
(* plugin call per step, and after a failure that asks for it, one Reverse *)
(* call per step.  Pipeline!RunRange is the closed form the reconcilers'   *)
(* models use.                                                             *)
(***************************************************************************)
EXTENDS Pipeline

CONSTANT MaxLen            \* bound: actions in a pipeline

ASSUME LenAssumption == MaxLen \in Nat

VARIABLES
  p, from, to,             \* the arguments
  outcome, undone,         \* what the plugins will answer, by index: Execute's
                           \* status, and whether Reverse succeeds
  i, results, pc

vars == <<p, from, to, outcome, undone, i, results, pc>>
inputs == <<p, from, to, outcome, undone>>

(* The callers pass [0, gate), [0, Len) or [gate, Len); a range that is    *)
(* clamped or empty returns nothing.                                       *)
Init ==
  /\ \E n \in 0..MaxLen :
       /\ p \in [1..n -> Action]
       /\ from \in 0..n /\ to \in from..n
       /\ outcome \in [from..(to - 1) -> Statuses]
       /\ undone \in SUBSET (from..(to - 1))
  /\ i = from /\ results = <<>> /\ pc = "run"

(* runOne for action i, and what its error leads to. *)
RunOne ==
  /\ pc = "run" /\ i < to
  /\ results' = Append(results, [plugin |-> p[i + 1].plugin, status |-> outcome[i],
                                 reversed |-> FALSE])
  /\ pc' = IF outcome[i] # "Failed" \/ p[i + 1].onFailure = "continue" THEN "run"
           ELSE IF p[i + 1].onFailure = "rollback" THEN "rollback" ELSE "done"
  /\ i' = IF pc' = "run" THEN i + 1 ELSE i
  /\ UNCHANGED inputs

Return ==
  /\ pc = "run" /\ i = to
  /\ pc' = "done"
  /\ UNCHANGED <<inputs, i, results>>

(* rollback, from the failed action down to the first of the range. *)
RollBackShort ==                       \* variant: stops before the first action
  /\ pc = "rollback"
  /\ LET k == i - from + 1
     IN  results' = IF results[k].status = "Succeeded" /\ i \in undone /\ i > from
                    THEN [results EXCEPT ![k].reversed = TRUE] ELSE results
  /\ pc' = IF i = from THEN "done" ELSE "rollback"
  /\ i' = IF i = from THEN i ELSE i - 1
  /\ UNCHANGED inputs

RollBackOne ==
  /\ pc = "rollback"
  /\ LET k == i - from + 1
     IN  results' = IF results[k].status = "Succeeded" /\ i \in undone
                    THEN [results EXCEPT ![k].reversed = TRUE] ELSE results
  /\ pc' = IF i = from THEN "done" ELSE "rollback"
  /\ i' = IF i = from THEN i ELSE i - 1
  /\ UNCHANGED inputs

Next == RunOne \/ Return \/ RollBackOne

Spec == Init /\ [][Next]_vars

(* The loop computes RunRange: the same prefix of the range ran, with the  *)
(* same statuses, and the same actions are marked as reversed.             *)
LoopIsRunRange ==
  pc = "done" => results = RunRange(p, from, to, outcome, undone)
=============================================================================
