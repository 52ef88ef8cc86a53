----------------------------- MODULE ApprovalGate -----------------------------
(***************************************************************************)
(* What an approval gate promises, whatever is stale, lost, retried or     *)
(* restarted on the way: the actions it holds run only after an approval,  *)
(* a verdict is given once and only while nothing has been refused, and    *)
(* the outcome on the record is the one the verdict and the deadline call  *)
(* for, written only once the trail says what happened to the actions.     *)
(*                                                                         *)
(* Clients may rewrite what the gate says of itself: what it holds and     *)
(* when it lapses.  For such a gate less is promised, and the definitions  *)
(* say what.  That the actions need an approval, that it is given once and *)
(* that an outcome has its reason is promised for every gate.              *)
(*                                                                         *)
(* Operator implements this specification (Operator!GatePromise).  There   *)
(* are no requests, caches, versions, retries or reconciles here: only     *)
(* what an approver may rely on.                                           *)
(***************************************************************************)
CONSTANT Gates

VARIABLES
  stage,      \* "none", "open", then "approved", "denied" or "expired"
  verdict,    \* "", "Approved" or "Denied"
  trail,      \* what the record says of the held actions
  ran,        \* the held actions have been run
  due,        \* the deadline has passed
  orphan,     \* the policy that opened the gate is gone or replaced
  rewritten   \* the gates whose description a client has rewritten

gateVars == <<stage, verdict, trail, ran, due, orphan, rewritten>>

Init ==
  /\ stage = [g \in Gates |-> "none"] /\ verdict = [g \in Gates |-> ""]
  /\ trail = [g \in Gates |-> {}] /\ ran = [g \in Gates |-> FALSE]
  /\ due = [g \in Gates |-> FALSE] /\ orphan = [g \in Gates |-> FALSE]
  /\ rewritten = {}

(* Deadlines pass and policies go; neither comes back. *)
Elapse ==
  /\ due' \in [Gates -> BOOLEAN] /\ orphan' \in [Gates -> BOOLEAN]
  /\ \A g \in Gates : (due[g] => due'[g]) /\ (orphan[g] => orphan'[g])
  /\ UNCHANGED <<stage, verdict, trail, ran, rewritten>>

(* A new description may bring a new deadline. *)
Redescribe(g) ==
  /\ rewritten' = rewritten \cup {g}
  /\ \E d \in BOOLEAN : due' = [due EXCEPT ![g] = d]

Rewrite(g) == Redescribe(g) /\ UNCHANGED <<stage, verdict, trail, ran, orphan>>

Open(g) ==
  /\ stage[g] = "none"
  /\ stage' = [stage EXCEPT ![g] = "open"]
  /\ UNCHANGED <<verdict, trail, ran, due, orphan, rewritten>>

(* The one verdict.  It may land after the deadline, as long as the gate   *)
(* has not begun to expire (one whose deadline was moved may have), and    *)
(* come with a new description.                                            *)
Decide(g) ==
  /\ stage[g] = "open" /\ verdict[g] = ""
  /\ trail[g] = {} \/ g \in rewritten
  /\ \E v \in {"Approved", "Denied"} : verdict' = [verdict EXCEPT ![g] = v]
  /\ Redescribe(g) \/ UNCHANGED <<due, rewritten>>
  /\ UNCHANGED <<stage, trail, ran, orphan>>

Run(g) ==
  /\ stage[g] = "open" /\ verdict[g] = "Approved"
  /\ "skipped" \notin trail[g] \/ g \in rewritten
  /\ ran' = [ran EXCEPT ![g] = TRUE]
  /\ UNCHANGED <<stage, verdict, trail, due, orphan, rewritten>>

(* What may be put on record, and when. *)
MayRecord(g, kind) ==
  \/ kind = "released" /\ ran[g] /\ verdict[g] = "Approved"
       /\ ("skipped" \notin trail[g] \/ g \in rewritten)
  \/ kind = "skipped" /\ verdict[g] = "" /\ due[g]
  \/ kind = "skipped" /\ verdict[g] = "Denied"
  \/ kind = "skipped" /\ verdict[g] = "Approved" /\ orphan[g]

Record(g) ==
  /\ stage[g] = "open"
  /\ \E kind \in {"released", "skipped"} :
       MayRecord(g, kind) /\ trail' = [trail EXCEPT ![g] = @ \cup {kind}]
  /\ UNCHANGED <<stage, verdict, ran, due, orphan, rewritten>>

(* The outcomes, each for its reason and after its entry in the trail; a   *)
(* gate rewritten to hold nothing has no skipped action to enter.          *)
Outcome(g, s) ==
  \/ s = "approved" /\ verdict[g] = "Approved" /\ "released" \in trail[g]
       /\ ("skipped" \notin trail[g] \/ g \in rewritten)
  \/ s = "denied" /\ ("skipped" \in trail[g] \/ g \in rewritten)
       /\ (verdict[g] = "Denied" \/ (verdict[g] = "Approved" /\ orphan[g]))
  \/ s = "expired" /\ verdict[g] = "" /\ due[g]
       /\ "released" \notin trail[g] /\ ("skipped" \in trail[g] \/ g \in rewritten)

Close(g) ==
  /\ stage[g] = "open"
  /\ \E s \in {"approved", "denied", "expired"} :
       Outcome(g, s) /\ stage' = [stage EXCEPT ![g] = s]
  /\ UNCHANGED <<verdict, trail, ran, due, orphan, rewritten>>

Next ==
  \/ Elapse
  \/ \E g \in Gates : Rewrite(g) \/ Open(g) \/ Decide(g) \/ Run(g) \/ Record(g) \/ Close(g)

Spec == Init /\ [][Next]_gateVars
=============================================================================
