---------------------------- MODULE ReversalProofs ----------------------------
(***************************************************************************)
(* That a revert and a rollback undo a run, for every pipeline, every      *)
(* world, any number of runs side by side, edits and failed calls.         *)
(***************************************************************************)
EXTENDS Reversal, TLAPS

(* No pipeline is held, so that each runs once, and a call that was        *)
(* reported failed had no effect.                                          *)
Answered == Held = {} /\ "lost" \notin Calls

-----------------------------------------------------------------------------
(* Types.  The Details of a result are of the plugin that wrote them.      *)

Weights == UNION {[s -> Int] : s \in SUBSET Refs}

Detail == {None, "key", "name"} \cup SyncPolicy \cup Weights

Result ==
  [plugin : PluginNames, status : {"Succeeded", "Failed", "Skipped"},
   details : Detail, reversed : BOOLEAN]

Sound(x) ==
  /\ x.plugin = "argocd.suspend" /\ x.status = "Succeeded" => x.details \in SyncPolicy
  /\ x.plugin = "mesh.shift" /\ x.status = "Succeeded" => x.details \in Weights

Results == {s \in Seq(Result) : \A i \in 1..Len(s) : Sound(s[i])}

RunType ==
  \/ run = Idle
  \/ /\ run \in [pc : {"exec", "rollback", "record"}, r : Runs, i : Nat, results : Results]
     /\ records[run.r].state = "none"
     /\ run.pc = "exec" => run.i = Len(run.results) + 1 /\ run.i <= Len(pipeline)
     /\ run.pc = "rollback" => run.i \in 1..Len(run.results)

RecordType ==
  records \in [Runs -> [state : {"none", "written", "lost"}, results : Results,
                        missing : BOOLEAN, reverted : BOOLEAN, failures : Nat]]

UndoType ==
  \/ undo = Idle
  \/ /\ undo \in [pc : {"reverse"}, r : Runs, i : Nat, failures : Nat]
     /\ records[undo.r].state = "written" /\ ~records[undo.r].reverted
     /\ undo.i \in 0..Len(records[undo.r].results)

Types ==
  /\ pipeline \in Seq(Action) /\ pipeline # <<>>
  /\ world \in Objects
  /\ RunType /\ RecordType /\ UndoType
  /\ before \in [Runs -> Objects]
  /\ clean \in [Runs -> BOOLEAN]

-----------------------------------------------------------------------------
(* The inductive invariant.  Which results wrote a slot of the world: the  *)
(* results up to k that did, by plugin, and by reference of the route.     *)

Did(res, i, plugin) == res[i].plugin = plugin /\ res[i].status = "Succeeded"

DidBy(res, k, plugin) == \E i \in 1..k : Did(res, i, plugin)

ShiftedBy(res, k, x) ==
  \E i \in 1..k : Did(res, i, "mesh.shift") /\ x \in DOMAIN res[i].details

(* World w, against world b before the run: a slot that none of the first  *)
(* k results wrote is as the run found it, or as Reverse leaves it if one  *)
(* of the others wrote it.                                                 *)
Back(w, b, res, k) ==
  /\ \A x \in Refs : ~ShiftedBy(res, k, x) => w.route[x] = b.route[x]
  /\ ~DidBy(res, k, "argocd.suspend") =>
       w.app = IF DidBy(res, Len(res), "argocd.suspend")
               THEN [sync |-> b.app.sync, reason |-> FALSE] ELSE b.app
  /\ ~DidBy(res, k, "k8s.annotate") =>
       w.note = IF DidBy(res, Len(res), "k8s.annotate") THEN None ELSE b.note
  /\ ~DidBy(res, k, "network.isolate") =>
       w.netpol = IF DidBy(res, Len(res), "network.isolate") THEN None ELSE b.netpol

(* The first result that wrote a slot has in its Details what the run      *)
(* found there.                                                            *)
Noted(b, res) ==
  \A i \in 1..Len(res) :
    /\ Did(res, i, "argocd.suspend") =>
         /\ "app" \in b.exists
         /\ ~DidBy(res, i - 1, "argocd.suspend") => res[i].details = b.app.sync
    /\ Did(res, i, "k8s.annotate") => "target" \in b.exists
    /\ Did(res, i, "mesh.shift") =>
         /\ "route" \in b.exists
         /\ \A x \in DOMAIN res[i].details :
              ~ShiftedBy(res, i - 1, x) => res[i].details[x] = b.route[x]

Traced(w, b, res) == w.exists = b.exists /\ Noted(b, res) /\ Back(w, b, res, Len(res))

-----------------------------------------------------------------------------
(* What the plugins return. *)

LEMMA ResultsAreSequences ==
  ASSUME NEW res \in Results
  PROVE  /\ res \in Seq(Result) /\ Len(res) \in Nat
         /\ \A i \in 1..Len(res) : res[i] \in Result /\ Sound(res[i])
BY DEF Results

(* The plugins write one slot of the world each. *)
LEMMA AppSlot ==
  ASSUME NEW w \in Objects, NEW sync \in SyncPolicy, NEW reason \in BOOLEAN
  PROVE  LET v == [w EXCEPT !.app = [sync |-> sync, reason |-> reason]]
         IN  /\ v \in Objects /\ v.app = [sync |-> sync, reason |-> reason]
             /\ v.exists = w.exists /\ v.note = w.note /\ v.netpol = w.netpol /\ v.route = w.route
BY DEF Objects

LEMMA NoteSlot ==
  ASSUME NEW w \in Objects, NEW note \in {None, "policy", "user"}
  PROVE  LET v == [w EXCEPT !.note = note]
         IN  /\ v \in Objects /\ v.note = note
             /\ v.exists = w.exists /\ v.app = w.app /\ v.netpol = w.netpol /\ v.route = w.route
BY DEF Objects

LEMMA NetpolSlot ==
  ASSUME NEW w \in Objects, NEW netpol \in {None, "policy", "user"}
  PROVE  LET v == [w EXCEPT !.netpol = netpol]
         IN  /\ v \in Objects /\ v.netpol = netpol
             /\ v.exists = w.exists /\ v.app = w.app /\ v.note = w.note /\ v.route = w.route
BY DEF Objects

LEMMA RouteSlot ==
  ASSUME NEW w \in Objects, NEW route \in [Refs -> Int]
  PROVE  LET v == [w EXCEPT !.route = route]
         IN  /\ v \in Objects /\ v.route = route
             /\ v.exists = w.exists /\ v.app = w.app /\ v.note = w.note /\ v.netpol = w.netpol
BY DEF Objects

LEMMA ExecuteTyped ==
  ASSUME NEW act \in Action, NEW w \in Objects
  PROVE  /\ Execute(act, w).world \in Objects
         /\ Execute(act, w).world.exists = w.exists
         /\ Execute(act, w).status \in {"Succeeded", "Failed", "Skipped"}
         /\ Execute(act, w).details \in Detail
         /\ Execute(act, w).status # "Succeeded" => Execute(act, w).world = w
         /\ \A f \in BOOLEAN :
              Sound([plugin |-> act.plugin, status |-> Execute(act, w).status,
                     details |-> Execute(act, w).details, reversed |-> f])
<1>1. CASE act.plugin = "argocd.suspend"
  <2>1. Execute(act, w) = Suspend(w)
    BY <1>1 DEF Execute
  <2>2. CASE "app" \notin w.exists \/ ~w.app.sync.automated
    BY <2>1, <2>2, <1>1 DEF Suspend, Fails, Skips, Ends, Sound, Detail
  <2>3. CASE "app" \in w.exists /\ w.app.sync.automated
    <3>1. /\ Suspend(w).status = "Succeeded"
          /\ Suspend(w).details = w.app.sync
          /\ Suspend(w).world = [w EXCEPT !.app = [sync |-> [w.app.sync EXCEPT !.automated = FALSE],
                                                   reason |-> TRUE]]
      BY <2>3 DEF Suspend, Ends
    <3>2. w.app.sync \in SyncPolicy
      BY DEF Objects
    <3> DEFINE off == [w.app.sync EXCEPT !.automated = FALSE]
    <3>3. off \in SyncPolicy
      BY <3>2 DEF SyncPolicy
    <3> HIDE DEF off
    <3>4. Suspend(w).world \in Objects /\ Suspend(w).world.exists = w.exists
      <4>1. Suspend(w).world = [w EXCEPT !.app = [sync |-> off, reason |-> TRUE]]
        BY <3>1 DEF off
      <4>2. /\ [w EXCEPT !.app = [sync |-> off, reason |-> TRUE]] \in Objects
            /\ [w EXCEPT !.app = [sync |-> off, reason |-> TRUE]].exists = w.exists
        BY <3>3, AppSlot
      <4> QED
        BY <4>1, <4>2
    <3> QED
      BY <2>1, <3>1, <3>2, <3>4, <1>1 DEF Detail, Sound
  <2> QED
    BY <2>2, <2>3
<1>2. CASE act.plugin = "k8s.annotate"
  <2>1. Execute(act, w) = Annotate(w, act.overwrite)
    BY <1>2 DEF Execute
  <2>2. [w EXCEPT !.note = "policy"] \in Objects /\ [w EXCEPT !.note = "policy"].exists = w.exists
    BY NoteSlot
  <2> QED
    BY <2>1, <2>2, <1>2 DEF Annotate, Fails, Skips, Ends, Sound, Detail
<1>3. CASE act.plugin = "network.isolate"
  <2>1. Execute(act, w) = Isolate(w, act.selector)
    BY <1>3 DEF Execute
  <2>2. [w EXCEPT !.netpol = "policy"] \in Objects /\ [w EXCEPT !.netpol = "policy"].exists = w.exists
    BY NetpolSlot
  <2> QED
    BY <2>1, <2>2, <1>3 DEF Isolate, ApplyPolicy, Fails, Ends, Sound, Detail
<1>4. CASE act.plugin = "mesh.shift"
  <2>1. Execute(act, w) = Shift(w, act.weight)
    BY <1>4 DEF Execute
  <2> DEFINE changed == Changes(w.route, act.weight)
  <2>2. CASE "route" \notin w.exists \/ Refs = {} \/ changed = {}
    BY <2>1, <2>2, <1>4 DEF Shift, Fails, Skips, Ends, Sound, Detail
  <2>3. CASE ~("route" \notin w.exists \/ Refs = {} \/ changed = {})
    <3>1. /\ Shift(w, act.weight).status = "Succeeded"
          /\ Shift(w, act.weight).details = [r \in changed |-> w.route[r]]
          /\ Shift(w, act.weight).world =
               [w EXCEPT !.route = [r \in Refs |-> IF r \in changed THEN act.weight ELSE @[r]]]
      BY <2>3 DEF Shift, Ends
    <3>2. changed \in SUBSET Refs /\ w.route \in [Refs -> Int] /\ act.weight \in Int
      BY DEF Changes, Objects, Action
    <3> HIDE DEF changed
    <3>3. [r \in changed |-> w.route[r]] \in [changed -> Int]
      BY <3>2
    <3>4. [r \in changed |-> w.route[r]] \in Weights
      BY <3>2, <3>3 DEF Weights
    <3>5. [r \in Refs |-> IF r \in changed THEN act.weight ELSE w.route[r]] \in [Refs -> Int]
      BY <3>2
    <3>6. Shift(w, act.weight).world \in Objects /\ Shift(w, act.weight).world.exists = w.exists
      BY <3>1, <3>5 DEF Objects
    <3> QED
      BY <2>1, <3>1, <3>4, <3>6, <1>4 DEF Detail, Sound
  <2> QED
    BY <2>2, <2>3
<1>5. CASE act.plugin = "notify.slack"
  <2>1. Execute(act, w) = Notify(w)
    BY <1>5 DEF Execute
  <2> QED
    BY <2>1, <1>5 DEF Notify, Ends, Sound, Detail
<1> QED
  BY <1>1, <1>2, <1>3, <1>4, <1>5 DEF Action, PluginNames

LEMMA ReverseTyped ==
  ASSUME NEW res \in Result, Sound(res), res.status = "Succeeded", Reversible(res.plugin),
         NEW w \in Objects
  PROVE  Reverse(res, w) \in Objects /\ Reverse(res, w).exists = w.exists
<1>1. CASE res.plugin = "argocd.suspend"
  <2>1. res.details \in SyncPolicy
    BY <1>1 DEF Sound
  <2> QED
    BY <2>1, <1>1, AppSlot DEF Reverse, Resume
<1>2. CASE res.plugin = "k8s.annotate"
  BY <1>2, NoteSlot DEF Reverse, RemoveNote
<1>3. CASE res.plugin = "network.isolate"
  BY <1>3, NetpolSlot DEF Reverse, LiftIsolation
<1>4. CASE res.plugin = "mesh.shift"
  <2> DEFINE previous == res.details
             route == [r \in Refs |-> IF r \in DOMAIN previous THEN previous[r] ELSE w.route[r]]
  <2>1. previous \in Weights
    BY <1>4 DEF Sound
  <2>2. PICK s \in SUBSET Refs : previous \in [s -> Int]
    BY <2>1 DEF Weights
  <2>3. route \in [Refs -> Int]
    BY <2>2 DEF Objects
  <2>4. Reverse(res, w) = w \/ Reverse(res, w) = [w EXCEPT !.route = route]
    BY <1>4 DEF Reverse, ShiftBack, RestoreWeights
  <2> QED
    BY <2>3, <2>4 DEF Objects
<1> QED
  BY <1>1, <1>2, <1>3, <1>4 DEF Result, PluginNames, Reversible

-----------------------------------------------------------------------------
(* Who wrote what, when a result is appended. *)

LEMMA AppendResult ==
  ASSUME NEW res \in Results, NEW x \in Result
  PROVE  /\ Append(res, x) \in Seq(Result) /\ Len(Append(res, x)) = Len(res) + 1
         /\ \A i \in 1..Len(res) : Append(res, x)[i] = res[i]
         /\ Append(res, x)[Len(res) + 1] = x
         /\ Sound(x) => Append(res, x) \in Results
<1>1. /\ Append(res, x) \in Seq(Result) /\ Len(Append(res, x)) = Len(res) + 1
      /\ \A i \in 1..Len(res) : Append(res, x)[i] = res[i]
      /\ Append(res, x)[Len(res) + 1] = x
  BY ResultsAreSequences
<1>2. ASSUME Sound(x), NEW i \in 1..(Len(res) + 1) PROVE Sound(Append(res, x)[i])
  BY <1>1, <1>2, ResultsAreSequences
<1> QED
  BY <1>1, <1>2 DEF Results

LEMMA AppendDid ==
  ASSUME NEW res \in Results, NEW x \in Result,
         NEW k \in 0..Len(res)
  PROVE  /\ \A p : DidBy(Append(res, x), k, p) <=> DidBy(res, k, p)
         /\ \A r : ShiftedBy(Append(res, x), k, r) <=> ShiftedBy(res, k, r)
<1>1. \A i \in 1..k : i \in 1..Len(res)
  BY ResultsAreSequences
<1>2. \A i \in 1..k : Append(res, x)[i] = res[i]
  BY <1>1, AppendResult
<1> QED
  BY <1>2, Zenon DEF DidBy, ShiftedBy, Did

LEMMA AppendDidAll ==
  ASSUME NEW res \in Results, NEW x \in Result
  PROVE  /\ \A p : DidBy(Append(res, x), Len(res) + 1, p)
                     <=> DidBy(res, Len(res), p) \/ (x.plugin = p /\ x.status = "Succeeded")
         /\ \A r : ShiftedBy(Append(res, x), Len(res) + 1, r)
                     <=> ShiftedBy(res, Len(res), r)
                         \/ (x.plugin = "mesh.shift" /\ x.status = "Succeeded" /\ r \in DOMAIN x.details)
<1> DEFINE n == Len(res)
<1>1. n \in Nat /\ n \in 0..n /\ n + 1 \in 1..(n + 1)
  BY ResultsAreSequences
<1>2. \A i : i \in 1..(n + 1) <=> i \in 1..n \/ i = n + 1
  BY <1>1
<1>3. \A p : DidBy(Append(res, x), n + 1, p)
               <=> DidBy(Append(res, x), n, p) \/ Did(Append(res, x), n + 1, p)
  BY <1>2, Zenon DEF DidBy
<1>4. \A r : ShiftedBy(Append(res, x), n + 1, r)
               <=> ShiftedBy(Append(res, x), n, r)
                   \/ (Did(Append(res, x), n + 1, "mesh.shift") /\ r \in DOMAIN Append(res, x)[n + 1].details)
  BY <1>2, Zenon DEF ShiftedBy
<1>5. Append(res, x)[n + 1] = x
  BY AppendResult
<1>6. \A p : DidBy(Append(res, x), n, p) <=> DidBy(res, n, p)
  BY <1>1, AppendDid
<1>7. \A r : ShiftedBy(Append(res, x), n, r) <=> ShiftedBy(res, n, r)
  BY <1>1, AppendDid
<1> QED
  BY <1>3, <1>4, <1>5, <1>6, <1>7, Zenon DEF Did

(* Noted of one result. *)
NotedAt(b, res, i) ==
  /\ Did(res, i, "argocd.suspend") =>
       /\ "app" \in b.exists
       /\ ~DidBy(res, i - 1, "argocd.suspend") => res[i].details = b.app.sync
  /\ Did(res, i, "k8s.annotate") => "target" \in b.exists
  /\ Did(res, i, "mesh.shift") =>
       /\ "route" \in b.exists
       /\ \A x \in DOMAIN res[i].details :
            ~ShiftedBy(res, i - 1, x) => res[i].details[x] = b.route[x]

LEMMA AppendNoted ==
  ASSUME NEW res \in Results, NEW x \in Result, NEW b, Noted(b, res),
         /\ x.plugin = "argocd.suspend" /\ x.status = "Succeeded" =>
              /\ "app" \in b.exists
              /\ ~DidBy(res, Len(res), "argocd.suspend") => x.details = b.app.sync
         /\ x.plugin = "k8s.annotate" /\ x.status = "Succeeded" => "target" \in b.exists
         /\ x.plugin = "mesh.shift" /\ x.status = "Succeeded" =>
              /\ "route" \in b.exists
              /\ \A r \in DOMAIN x.details :
                   ~ShiftedBy(res, Len(res), r) => x.details[r] = b.route[r]
  PROVE  Noted(b, Append(res, x))
<1> DEFINE n == Len(res)
           new == Append(res, x)
<1>1. n \in Nat /\ Len(new) = n + 1 /\ n \in 0..n /\ (n + 1) - 1 = n
  BY ResultsAreSequences, AppendResult
<1>2. ASSUME NEW i \in 1..(n + 1) PROVE NotedAt(b, new, i)
  <2>1. CASE i = n + 1
    <3>1. new[i] = x
      BY <2>1, AppendResult
    <3>2. i - 1 = n
      BY <2>1, <1>1
    <3>3. \A p : DidBy(new, n, p) <=> DidBy(res, n, p)
      BY <1>1, AppendDid
    <3>4. \A r : ShiftedBy(new, n, r) <=> ShiftedBy(res, n, r)
      BY <1>1, AppendDid
    <3> HIDE DEF new, n
    <3> QED
      BY <3>1, <3>2, <3>3, <3>4, Zenon DEF NotedAt, Did, n
  <2>2. CASE i # n + 1
    <3>1. i \in 1..n /\ i - 1 \in 0..n
      BY <2>2, <1>1, <1>2
    <3>2. new[i] = res[i]
      BY <3>1, AppendResult
    <3>3. \A p : DidBy(new, i - 1, p) <=> DidBy(res, i - 1, p)
      BY <3>1, AppendDid
    <3>4. \A r : ShiftedBy(new, i - 1, r) <=> ShiftedBy(res, i - 1, r)
      BY <3>1, AppendDid
    <3>5. NotedAt(b, res, i)
      BY <3>1, Zenon DEF Noted, NotedAt
    <3> HIDE DEF new, n
    <3> QED
      BY <3>2, <3>3, <3>4, <3>5, Zenon DEF NotedAt, Did
  <2> QED
    BY <2>1, <2>2
<1> QED
  BY <1>1, <1>2, Zenon DEF Noted, NotedAt

(* A result that changes only the slots it wrote. *)
LEMMA AppendBack ==
  ASSUME NEW res \in Results, NEW x \in Result, NEW w, NEW v, NEW b, Back(w, b, res, Len(res)),
         \A r \in Refs :
           ~(x.plugin = "mesh.shift" /\ x.status = "Succeeded" /\ r \in DOMAIN x.details)
             => v.route[r] = w.route[r],
         ~(x.plugin = "argocd.suspend" /\ x.status = "Succeeded") => v.app = w.app,
         ~(x.plugin = "k8s.annotate" /\ x.status = "Succeeded") => v.note = w.note,
         ~(x.plugin = "network.isolate" /\ x.status = "Succeeded") => v.netpol = w.netpol
  PROVE  Back(v, b, Append(res, x), Len(Append(res, x)))
<1> DEFINE n == Len(res)
           new == Append(res, x)
<1>1. Len(new) = n + 1
  BY AppendResult
<1>2. \A p : DidBy(new, n + 1, p)
               <=> DidBy(res, n, p) \/ (x.plugin = p /\ x.status = "Succeeded")
  BY AppendDidAll
<1>3. \A r : ShiftedBy(new, n + 1, r)
               <=> ShiftedBy(res, n, r)
                   \/ (x.plugin = "mesh.shift" /\ x.status = "Succeeded" /\ r \in DOMAIN x.details)
  BY AppendDidAll
<1>4. Back(w, b, res, n)
  OBVIOUS
<1> HIDE DEF n, new
<1>5. \A r \in Refs : ~ShiftedBy(new, n + 1, r) => v.route[r] = b.route[r]
  BY <1>3, <1>4 DEF Back
<1>6. ~DidBy(new, n + 1, "argocd.suspend") => v.app = b.app
  BY <1>2, <1>4 DEF Back, n
<1>7. ~DidBy(new, n + 1, "k8s.annotate") => v.note = b.note
  BY <1>2, <1>4 DEF Back, n
<1>8. ~DidBy(new, n + 1, "network.isolate") => v.netpol = b.netpol
  BY <1>2, <1>4 DEF Back, n
<1> QED
  BY <1>1, <1>5, <1>6, <1>7, <1>8 DEF Back, new

LEMMA FailedTraced ==
  ASSUME NEW res \in Results, NEW x \in Result, x.status # "Succeeded",
         NEW w, NEW b, Traced(w, b, res)
  PROVE  Traced(w, b, Append(res, x))
<1>1. Noted(b, Append(res, x))
  BY AppendNoted DEF Traced
<1>2. Back(w, b, Append(res, x), Len(Append(res, x)))
  BY AppendBack DEF Traced
<1> QED
  BY <1>1, <1>2 DEF Traced

(* Execute keeps track: it writes its slot, and notes what was in it.      *)
LEMMA ExecuteTraced ==
  ASSUME NEW res \in Results, NEW act \in Action, NEW w \in Objects, NEW b \in Objects,
         Traced(w, b, res), NEW x \in Result,
         x.plugin = act.plugin, x.status = Execute(act, w).status,
         x.details = Execute(act, w).details
  PROVE  Traced(Execute(act, w).world, b, Append(res, x))
<1> DEFINE v == Execute(act, w).world
<1>0. /\ v.exists = w.exists /\ (x.status # "Succeeded" => v = w)
      /\ w.exists = b.exists /\ Noted(b, res) /\ Back(w, b, res, Len(res))
  BY ExecuteTyped DEF Traced
<1>1. CASE x.status # "Succeeded"
  BY <1>0, <1>1, FailedTraced
<1>2. CASE x.status = "Succeeded"
  <2>1. SUFFICES /\ Noted(b, Append(res, x))
                 /\ Back(v, b, Append(res, x), Len(Append(res, x)))
    BY <1>0 DEF Traced
  <2>2. CASE act.plugin = "argocd.suspend"
    <3>1. Execute(act, w) = Suspend(w)
      BY <2>2 DEF Execute
    <3>2. /\ "app" \in w.exists /\ x.details = w.app.sync
          /\ v = [w EXCEPT !.app = [sync |-> [w.app.sync EXCEPT !.automated = FALSE], reason |-> TRUE]]
      BY <3>1, <1>2 DEF Suspend, Ends, Fails, Skips
    <3>3. v.route = w.route /\ v.note = w.note /\ v.netpol = w.netpol
      BY <3>2 DEF Objects
    <3>4. ~DidBy(res, Len(res), "argocd.suspend") => w.app = b.app
      BY <1>0 DEF Back
    <3>5. Noted(b, Append(res, x))
      BY <1>0, <2>2, <3>2, <3>4, AppendNoted
    <3> HIDE DEF v
    <3> QED
      BY <1>0, <2>2, <3>3, <3>5, AppendBack
  <2>3. CASE act.plugin = "k8s.annotate"
    <3>1. Execute(act, w) = Annotate(w, act.overwrite)
      BY <2>3 DEF Execute
    <3>2. "target" \in w.exists /\ v = [w EXCEPT !.note = "policy"]
      BY <3>1, <1>2 DEF Annotate, Ends, Fails, Skips
    <3>3. v.route = w.route /\ v.app = w.app /\ v.netpol = w.netpol
      BY <3>2 DEF Objects
    <3>5. Noted(b, Append(res, x))
      BY <1>0, <2>3, <3>2, AppendNoted
    <3> HIDE DEF v
    <3> QED
      BY <1>0, <2>3, <3>3, <3>5, AppendBack
  <2>4. CASE act.plugin = "network.isolate"
    <3>1. Execute(act, w) = Isolate(w, act.selector)
      BY <2>4 DEF Execute
    <3>2. v = [w EXCEPT !.netpol = "policy"]
      BY <3>1, <1>2 DEF Isolate, ApplyPolicy, Ends, Fails
    <3>3. v.route = w.route /\ v.app = w.app /\ v.note = w.note
      BY <3>2 DEF Objects
    <3>5. Noted(b, Append(res, x))
      BY <1>0, <2>4, AppendNoted
    <3> HIDE DEF v
    <3> QED
      BY <1>0, <2>4, <3>3, <3>5, AppendBack
  <2>5. CASE act.plugin = "mesh.shift"
    <3> DEFINE changed == Changes(w.route, act.weight)
               route == [r \in Refs |-> IF r \in changed THEN act.weight ELSE w.route[r]]
    <3>1. Execute(act, w) = Shift(w, act.weight)
      BY <2>5 DEF Execute
    <3>2. /\ "route" \in w.exists /\ x.details = [r \in changed |-> w.route[r]]
          /\ v = [w EXCEPT !.route = route]
      BY <3>1, <1>2 DEF Shift, Ends, Fails, Skips
    <3>3. v.note = w.note /\ v.app = w.app /\ v.netpol = w.netpol /\ v.route = route
      BY <3>2 DEF Objects
    <3>4. changed \subseteq Refs
      BY DEF Changes
    <3>5. DOMAIN x.details = changed /\ \A r \in changed : x.details[r] = w.route[r]
      BY <3>2
    <3>6. \A r \in Refs : r \notin changed => v.route[r] = w.route[r]
      BY <3>3
    <3> HIDE DEF v, changed, route
    <3>7. \A r \in changed : ~ShiftedBy(res, Len(res), r) => x.details[r] = b.route[r]
      BY <1>0, <3>4, <3>5 DEF Back
    <3>8. Noted(b, Append(res, x))
      BY <1>0, <2>5, <3>2, <3>5, <3>7, AppendNoted
    <3> QED
      BY <1>0, <1>2, <2>5, <3>3, <3>5, <3>6, <3>8, AppendBack
  <2>6. CASE act.plugin = "notify.slack"
    <3>1. v = w
      BY <2>6 DEF Execute, Notify, Ends
    <3>5. Noted(b, Append(res, x))
      BY <1>0, <2>6, AppendNoted
    <3> HIDE DEF v
    <3> QED
      BY <1>0, <2>6, <3>1, <3>5, AppendBack
  <2> QED
    BY <2>2, <2>3, <2>4, <2>5, <2>6 DEF Action, PluginNames
<1> QED
  BY <1>1, <1>2

-----------------------------------------------------------------------------
(* What Reverse writes. *)
LEMMA ReverseSlots ==
  ASSUME NEW x \in Result, Sound(x), x.status = "Succeeded", Reversible(x.plugin),
         NEW w \in Objects
  PROVE  LET v == Reverse(x, w)
         IN  /\ x.plugin # "argocd.suspend" => v.app = w.app
             /\ x.plugin = "argocd.suspend" /\ "app" \in w.exists
                  => v.app = [sync |-> x.details, reason |-> FALSE]
             /\ x.plugin # "k8s.annotate" => v.note = w.note
             /\ x.plugin = "k8s.annotate" /\ "target" \in w.exists => v.note = None
             /\ x.plugin # "network.isolate" => v.netpol = w.netpol
             /\ x.plugin = "network.isolate" => v.netpol = None
             /\ \A r \in Refs :
                  /\ ~(x.plugin = "mesh.shift" /\ r \in DOMAIN x.details)
                       => v.route[r] = w.route[r]
                  /\ x.plugin = "mesh.shift" /\ "route" \in w.exists /\ r \in DOMAIN x.details
                       => v.route[r] = x.details[r]
<1>1. CASE x.plugin = "argocd.suspend"
  BY <1>1 DEF Reverse, Resume, Objects
<1>2. CASE x.plugin = "k8s.annotate"
  BY <1>2 DEF Reverse, RemoveNote, Objects
<1>3. CASE x.plugin = "network.isolate"
  BY <1>3 DEF Reverse, LiftIsolation, Objects
<1>4. CASE x.plugin = "mesh.shift"
  <2> DEFINE route == [r \in Refs |-> IF r \in DOMAIN x.details THEN x.details[r] ELSE w.route[r]]
  <2>1. Reverse(x, w) = IF "route" \notin w.exists THEN w ELSE [w EXCEPT !.route = route]
    BY <1>4 DEF Reverse, ShiftBack, RestoreWeights
  <2>2. "route" \in w.exists =>
          /\ Reverse(x, w).route = route /\ Reverse(x, w).app = w.app
          /\ Reverse(x, w).note = w.note /\ Reverse(x, w).netpol = w.netpol
    BY <2>1 DEF Objects
  <2>3. "route" \notin w.exists => Reverse(x, w) = w
    BY <2>1
  <2> QED
    BY <1>4, <2>2, <2>3
<1> QED
  BY <1>1, <1>2, <1>3, <1>4 DEF Result, PluginNames, Reversible

LEMMA OneMore ==
  ASSUME NEW res, NEW k \in Nat, k > 0
  PROVE  /\ \A p : DidBy(res, k, p) <=> DidBy(res, k - 1, p) \/ Did(res, k, p)
         /\ \A r : ShiftedBy(res, k, r)
                     <=> ShiftedBy(res, k - 1, r)
                         \/ (Did(res, k, "mesh.shift") /\ r \in DOMAIN res[k].details)
<1>1. \A i : i \in 1..k <=> i \in 1..(k - 1) \/ i = k
  OBVIOUS
<1> QED
  BY <1>1, Zenon DEF DidBy, ShiftedBy

(* Reversing one of the first m results leaves the slots of the others.    *)
LEMMA ReverseElsewhere ==
  ASSUME NEW res \in Results, NEW m \in 0..Len(res), NEW k \in 1..m,
         res[k].status = "Succeeded", Reversible(res[k].plugin),
         NEW w \in Objects, NEW b, Back(w, b, res, m)
  PROVE  Back(Reverse(res[k], w), b, res, m)
<1> DEFINE v == Reverse(res[k], w)
<1>1. k \in 1..Len(res) /\ res[k] \in Result /\ Sound(res[k])
  BY ResultsAreSequences
<1>2. \A p : ~DidBy(res, m, p) => res[k].plugin # p
  BY DEF DidBy, Did
<1>3. \A r : ~ShiftedBy(res, m, r) => ~(res[k].plugin = "mesh.shift" /\ r \in DOMAIN res[k].details)
  BY DEF ShiftedBy, Did
<1>4. /\ \A r \in Refs : ~ShiftedBy(res, m, r) => v.route[r] = w.route[r]
      /\ ~DidBy(res, m, "argocd.suspend") => v.app = w.app
      /\ ~DidBy(res, m, "k8s.annotate") => v.note = w.note
      /\ ~DidBy(res, m, "network.isolate") => v.netpol = w.netpol
  BY <1>1, <1>2, <1>3, ReverseSlots
<1> HIDE DEF v
<1> QED
  BY <1>4 DEF Back, v

(* Reversing the last of the first k: its slot is as the run found it,     *)
(* unless an earlier result wrote it too.                                  *)
LEMMA ReverseBack ==
  ASSUME NEW res \in Results, NEW k \in 1..Len(res),
         res[k].status = "Succeeded", Reversible(res[k].plugin),
         NEW w \in Objects, NEW b, w.exists = b.exists, Noted(b, res), Back(w, b, res, k)
  PROVE  Back(Reverse(res[k], w), b, res, k - 1)
<1> DEFINE v == Reverse(res[k], w)
           n == Len(res)
<1>1. k \in Nat /\ k > 0 /\ n \in Nat /\ res[k] \in Result /\ Sound(res[k])
  BY ResultsAreSequences
<1>2. \A p : DidBy(res, k, p) <=> DidBy(res, k - 1, p) \/ Did(res, k, p)
  BY <1>1, OneMore
<1>3. \A r : ShiftedBy(res, k, r)
               <=> ShiftedBy(res, k - 1, r)
                   \/ (Did(res, k, "mesh.shift") /\ r \in DOMAIN res[k].details)
  BY <1>1, OneMore
<1>4. \A p : Did(res, k, p) => DidBy(res, n, p)
  BY DEF DidBy
<1>5. NotedAt(b, res, k)
  BY Zenon DEF Noted, NotedAt
<1>6. /\ res[k].plugin # "argocd.suspend" => v.app = w.app
      /\ res[k].plugin = "argocd.suspend" /\ "app" \in w.exists
           => v.app = [sync |-> res[k].details, reason |-> FALSE]
      /\ res[k].plugin # "k8s.annotate" => v.note = w.note
      /\ res[k].plugin = "k8s.annotate" /\ "target" \in w.exists => v.note = None
      /\ res[k].plugin # "network.isolate" => v.netpol = w.netpol
      /\ res[k].plugin = "network.isolate" => v.netpol = None
      /\ \A r \in Refs :
           /\ ~(res[k].plugin = "mesh.shift" /\ r \in DOMAIN res[k].details)
                => v.route[r] = w.route[r]
           /\ res[k].plugin = "mesh.shift" /\ "route" \in w.exists /\ r \in DOMAIN res[k].details
                => v.route[r] = res[k].details[r]
  BY <1>1, ReverseSlots
<1> HIDE DEF v
<1>7. \A r \in Refs : ~ShiftedBy(res, k - 1, r) => v.route[r] = b.route[r]
  <2>1. SUFFICES ASSUME NEW r \in Refs, ~ShiftedBy(res, k - 1, r)
                 PROVE  v.route[r] = b.route[r]
    OBVIOUS
  <2>2. CASE res[k].plugin = "mesh.shift" /\ r \in DOMAIN res[k].details
    BY <2>1, <2>2, <1>5, <1>6 DEF NotedAt, Did
  <2>3. CASE ~(res[k].plugin = "mesh.shift" /\ r \in DOMAIN res[k].details)
    <3>1. ~ShiftedBy(res, k, r)
      BY <2>1, <2>3, <1>3 DEF Did
    <3> QED
      BY <3>1, <2>3, <1>6 DEF Back
  <2> QED
    BY <2>2, <2>3
<1>8. ~DidBy(res, k - 1, "argocd.suspend") =>
        v.app = IF DidBy(res, n, "argocd.suspend")
                THEN [sync |-> b.app.sync, reason |-> FALSE] ELSE b.app
  <2>1. CASE res[k].plugin = "argocd.suspend"
    BY <2>1, <1>4, <1>5, <1>6 DEF NotedAt, Did
  <2>2. CASE res[k].plugin # "argocd.suspend"
    BY <2>2, <1>2, <1>6 DEF Back, Did
  <2> QED
    BY <2>1, <2>2
<1>9. ~DidBy(res, k - 1, "k8s.annotate") =>
        v.note = IF DidBy(res, n, "k8s.annotate") THEN None ELSE b.note
  <2>1. CASE res[k].plugin = "k8s.annotate"
    BY <2>1, <1>4, <1>5, <1>6 DEF NotedAt, Did
  <2>2. CASE res[k].plugin # "k8s.annotate"
    BY <2>2, <1>2, <1>6 DEF Back, Did
  <2> QED
    BY <2>1, <2>2
<1>10. ~DidBy(res, k - 1, "network.isolate") =>
         v.netpol = IF DidBy(res, n, "network.isolate") THEN None ELSE b.netpol
  <2>1. CASE res[k].plugin = "network.isolate"
    BY <2>1, <1>4, <1>6 DEF Did
  <2>2. CASE res[k].plugin # "network.isolate"
    BY <2>2, <1>2, <1>6 DEF Back, Did
  <2> QED
    BY <2>1, <2>2
<1> QED
  BY <1>7, <1>8, <1>9, <1>10 DEF Back, v

(* A result that has nothing to reverse. *)
LEMMA PassBack ==
  ASSUME NEW res \in Results, NEW k \in 1..Len(res),
         ~(res[k].status = "Succeeded" /\ Reversible(res[k].plugin)),
         NEW w, NEW b, Back(w, b, res, k)
  PROVE  Back(w, b, res, k - 1)
<1>1. k \in Nat /\ k > 0
  BY ResultsAreSequences
<1>2. \A p : DidBy(res, k, p) <=> DidBy(res, k - 1, p) \/ Did(res, k, p)
  BY <1>1, OneMore
<1>3. \A r : ShiftedBy(res, k, r)
               <=> ShiftedBy(res, k - 1, r)
                   \/ (Did(res, k, "mesh.shift") /\ r \in DOMAIN res[k].details)
  BY <1>1, OneMore
<1>4. \A p \in {"argocd.suspend", "k8s.annotate", "network.isolate", "mesh.shift"} : ~Did(res, k, p)
  BY DEF Did, Reversible
<1>5. /\ \A p \in {"argocd.suspend", "k8s.annotate", "network.isolate"} :
           DidBy(res, k, p) <=> DidBy(res, k - 1, p)
      /\ \A r : ShiftedBy(res, k, r) <=> ShiftedBy(res, k - 1, r)
  BY <1>2, <1>3, <1>4
<1> QED
  BY <1>5 DEF Back

(* With every slot back the run is undone. *)
LEMMA BackIsUndone ==
  ASSUME NEW res \in Results, NEW b \in Objects, world \in Objects, Back(world, b, res, 0)
  PROVE  Undone(b, res)
<1>1. \A i : i \notin 1..0
  OBVIOUS
<1>2. /\ \A p : ~DidBy(res, 0, p)
      /\ \A r : ~ShiftedBy(res, 0, r)
  BY <1>1, Zenon DEF DidBy, ShiftedBy
<1>3. \A p : DidBy(res, Len(res), p) <=> Ran(res, p)
  BY Zenon DEF DidBy, Did, Ran
<1>4. world.route = b.route
  <2>1. \A r \in Refs : world.route[r] = b.route[r]
    BY <1>2 DEF Back
  <2>2. world.route \in [Refs -> Int] /\ b.route \in [Refs -> Int]
    BY DEF Objects
  <2> QED
    BY <2>1, <2>2
<1> QED
  BY <1>2, <1>3, <1>4 DEF Back, Undone

-----------------------------------------------------------------------------
(* The types are kept. *)

LEMMA InitTypes == Init => Types
<1>1. SUFFICES ASSUME Init PROVE Types
  OBVIOUS
<1>2. pipeline \in Seq(Action) /\ pipeline # <<>> /\ world \in Objects
  BY <1>1, ActionsAssumption, WorldsAssumption DEF Init
<1>3. <<>> \in Results
  BY DEF Results
<1>4. NoRecord \in [state : {"none", "written", "lost"}, results : Results,
                    missing : BOOLEAN, reverted : BOOLEAN, failures : Nat]
  BY <1>3 DEF NoRecord
<1> QED
  BY <1>1, <1>2, <1>4 DEF Init, Types, RunType, RecordType, UndoType

(* What holds of run and undo while they are busy. *)
LEMMA BusyTypes ==
  ASSUME Types
  PROVE  /\ run.pc # "idle" =>
              /\ run \in [pc : {"exec", "rollback", "record"}, r : Runs, i : Nat, results : Results]
              /\ records[run.r].state = "none"
              /\ run.pc = "exec" => run.i = Len(run.results) + 1 /\ run.i <= Len(pipeline)
              /\ run.pc = "rollback" => run.i \in 1..Len(run.results)
         /\ undo.pc # "idle" =>
              /\ undo \in [pc : {"reverse"}, r : Runs, i : Nat, failures : Nat]
              /\ records[undo.r].state = "written" /\ ~records[undo.r].reverted
              /\ undo.i \in 0..Len(records[undo.r].results)
BY DEF Types, RunType, UndoType, Idle

(* A run that is not held is not recorded as a release. *)
LEMMA UngatedRun ==
  ASSUME Types, Answered, NEW c \in Calls
  PROVE  ~RecordReleased(c) /\ ~SetPhase(c)
BY BusyTypes DEF RecordReleased, SetPhase, IsHeld, Answered

(* A call that is answered either went through or had no effect. *)
LEMMA TwoEnds ==
  ASSUME Answered, NEW c \in Calls
  PROVE  c = "ok" \/ (c = "fail" /\ ~Applied(c))
BY CallsAssumption DEF Answered, Applied

LEMMA OkApplies == Applied("ok")
BY DEF Applied

(* One action of the pipeline: nothing happened and the result says so, or *)
(* Execute did what the result says.                                       *)
Stepped(x) ==
  /\ x \in Result /\ Sound(x) /\ ~x.reversed
  /\ run' \in [pc : {"exec", "rollback", "record"}, r : Runs, i : Nat, results : Results]
  /\ run'.r = run.r /\ run'.results = Append(run.results, x)
  /\ run'.pc = "exec" => run'.i = Len(run'.results) + 1 /\ run'.i <= Len(pipeline)
  /\ run'.pc = "rollback" => run'.i = Len(run'.results)
  /\ \/ world' = world /\ x.status # "Succeeded"
     \/ \E act \in Action :
          /\ x.plugin = act.plugin /\ x.status = Execute(act, world).status
          /\ x.details = Execute(act, world).details /\ world' = Execute(act, world).world

LEMMA ExecuteSteps ==
  ASSUME Types, Answered, NEW c \in Calls, ExecuteAction(c)
  PROVE  /\ run.pc = "exec" /\ run.r \in Runs /\ run.results \in Results
         /\ world' \in Objects /\ world'.exists = world.exists
         /\ \E x : Stepped(x)
<1> DEFINE act == pipeline[run.i]
           out == Outcome(act, c)
           next == After(act, out.status, run.i)
           x == [plugin |-> act.plugin, status |-> out.status,
                 details |-> out.details, reversed |-> FALSE]
<1>1. /\ run.pc = "exec" /\ run.r \in Runs /\ run.results \in Results /\ run.i \in Nat
      /\ run.i = Len(run.results) + 1 /\ run.i <= Len(pipeline)
  BY BusyTypes DEF ExecuteAction
<1>2. pipeline \in Seq(Action) /\ world \in Objects /\ Len(pipeline) \in Nat /\ Len(run.results) \in Nat
  BY <1>1, ResultsAreSequences DEF Types
<1>3. act \in Action
  BY <1>1, <1>2
<1>4. /\ world' = out.world
      /\ run' = [pc |-> next.pc, r |-> run.r, i |-> next.i, results |-> Append(run.results, x)]
  BY DEF ExecuteAction, Change
<1>5. c = "ok" => out = Execute(act, world)
  BY DEF Outcome
<1>6. c # "ok" => out.world = world /\ out.status = "Failed" /\ out.details = None
  BY TwoEnds DEF Outcome, Fails, Ends
<1>7. \/ next.pc = "exec" /\ next.i = run.i + 1 /\ run.i < Len(pipeline)
      \/ next.pc = "record" /\ next.i = run.i
      \/ next.pc = "rollback" /\ next.i = run.i
  BY DEF After
<1>8. act.plugin \in PluginNames
  BY <1>3 DEF Action
<1> HIDE DEF act, out, next
<1>9. x \in Result /\ Sound(x)
  <2>1. CASE c = "ok"
    BY <2>1, <1>2, <1>3, <1>5, <1>8, ExecuteTyped DEF Result
  <2>2. CASE c # "ok"
    BY <2>2, <1>6, <1>8 DEF Result, Detail, Sound
  <2> QED
    BY <2>1, <2>2
<1>10. world' \in Objects /\ world'.exists = world.exists
  BY <1>2, <1>3, <1>4, <1>5, <1>6, ExecuteTyped
<1>11. ~x.reversed
  OBVIOUS
<1>12. \/ world' = world /\ x.status # "Succeeded"
       \/ \E a \in Action :
            /\ x.plugin = a.plugin /\ x.status = Execute(a, world).status
            /\ x.details = Execute(a, world).details /\ world' = Execute(a, world).world
  <2>1. CASE c = "ok"
    <3>1. /\ x.plugin = act.plugin /\ x.status = Execute(act, world).status
          /\ x.details = Execute(act, world).details /\ world' = Execute(act, world).world
      BY <2>1, <1>4, <1>5
    <3> QED
      BY <3>1, <1>3
  <2>2. CASE c # "ok"
    BY <2>2, <1>4, <1>6
  <2> QED
    BY <2>1, <2>2
<1> HIDE DEF x
<1>13. Append(run.results, x) \in Results /\ Len(Append(run.results, x)) = Len(run.results) + 1
  BY <1>1, <1>9, AppendResult
<1>14. run' \in [pc : {"exec", "rollback", "record"}, r : Runs, i : Nat, results : Results]
  BY <1>1, <1>4, <1>7, <1>13
<1>15. /\ run'.r = run.r /\ run'.results = Append(run.results, x)
       /\ run'.pc = next.pc /\ run'.i = next.i
  BY <1>4
<1>16. /\ next.pc = "exec" => next.i = Len(Append(run.results, x)) + 1 /\ next.i <= Len(pipeline)
       /\ next.pc = "rollback" => next.i = Len(Append(run.results, x))
  BY <1>1, <1>2, <1>7, <1>13
<1>17. Stepped(x)
  BY <1>9, <1>11, <1>12, <1>14, <1>15, <1>16 DEF Stepped
<1> QED
  BY <1>1, <1>10, <1>17

-----------------------------------------------------------------------------
(* A result marked as reversed: only the mark changes. *)

Marked(res, k) == [res EXCEPT ![k].reversed = TRUE]

LEMMA MarkedOnly ==
  ASSUME NEW res \in Results, NEW k \in 1..Len(res)
  PROVE  /\ Marked(res, k) \in Results /\ Len(Marked(res, k)) = Len(res)
         /\ \A i \in 1..Len(res) :
              /\ Marked(res, k)[i].plugin = res[i].plugin
              /\ Marked(res, k)[i].status = res[i].status
              /\ Marked(res, k)[i].details = res[i].details
              /\ i # k => Marked(res, k)[i] = res[i]
<1> DEFINE new == Marked(res, k)
           mark == [res[k] EXCEPT !.reversed = TRUE]
<1>1. res \in Seq(Result) /\ Len(res) \in Nat /\ \A i \in 1..Len(res) : res[i] \in Result /\ Sound(res[i])
  BY ResultsAreSequences
<1>2. new = [res EXCEPT ![k] = mark]
  BY DEF Marked
<1>3. /\ mark \in Result
      /\ mark.plugin = res[k].plugin /\ mark.status = res[k].status /\ mark.details = res[k].details
  BY <1>1 DEF Result
<1> HIDE DEF mark
<1>4. new \in Seq(Result) /\ Len(new) = Len(res)
  BY <1>1, <1>2, <1>3
<1>5. ASSUME NEW i \in 1..Len(res)
      PROVE  /\ new[i].plugin = res[i].plugin /\ new[i].status = res[i].status
             /\ new[i].details = res[i].details /\ (i # k => new[i] = res[i])
  <2>1. CASE i = k
    <3>1. new[i] = mark
      BY <1>1, <1>2, <1>3, <2>1
    <3> QED
      BY <2>1, <3>1, <1>3
  <2>2. CASE i # k
    BY <1>1, <1>2, <1>3, <2>2
  <2> QED
    BY <2>1, <2>2
<1> HIDE DEF new
<1>6. \A i \in 1..Len(res) : Sound(new[i])
  BY <1>1, <1>5 DEF Sound
<1>7. new \in Results
  BY <1>4, <1>6 DEF Results
<1> QED
  BY <1>4, <1>5, <1>7 DEF new

LEMMA MarkedSame ==
  ASSUME NEW res \in Results, NEW k \in 1..Len(res), NEW b
  PROVE  /\ Noted(b, res) => Noted(b, Marked(res, k))
         /\ \A w : \A m \in 0..Len(res) : Back(w, b, res, m) => Back(w, b, Marked(res, k), m)
<1> DEFINE new == Marked(res, k)
           n == Len(res)
<1>1. /\ n \in Nat /\ Len(new) = n
      /\ \A i \in 1..n : /\ new[i].plugin = res[i].plugin /\ new[i].status = res[i].status
                         /\ new[i].details = res[i].details
  BY ResultsAreSequences, MarkedOnly
<1> HIDE DEF new
<1>2. ASSUME NEW m \in 0..n
      PROVE  /\ \A p : DidBy(new, m, p) <=> DidBy(res, m, p)
             /\ \A r : ShiftedBy(new, m, r) <=> ShiftedBy(res, m, r)
  <2>1. \A i \in 1..m : i \in 1..n
    BY <1>1
  <2>2. \A i \in 1..m : /\ new[i].plugin = res[i].plugin /\ new[i].status = res[i].status
                        /\ new[i].details = res[i].details
    BY <1>1, <2>1
  <2> QED
    BY <2>2, Zenon DEF DidBy, ShiftedBy, Did
<1>3. n \in 0..n /\ \A i \in 1..n : i - 1 \in 0..n
  BY <1>1
<1>4. ASSUME NEW w, NEW m \in 0..n, Back(w, b, res, m) PROVE Back(w, b, new, m)
  <2>1. /\ \A p : DidBy(new, m, p) <=> DidBy(res, m, p)
        /\ \A r : ShiftedBy(new, m, r) <=> ShiftedBy(res, m, r)
        /\ \A p : DidBy(new, n, p) <=> DidBy(res, n, p)
    BY <1>2, <1>3
  <2> QED
    BY <1>1, <1>4, <2>1 DEF Back
<1>5. ASSUME Noted(b, res), NEW i \in 1..n PROVE NotedAt(b, new, i)
  <2>1. NotedAt(b, res, i)
    BY <1>5, Zenon DEF Noted, NotedAt
  <2>2. /\ \A p : DidBy(new, i - 1, p) <=> DidBy(res, i - 1, p)
        /\ \A r : ShiftedBy(new, i - 1, r) <=> ShiftedBy(res, i - 1, r)
    BY <1>2, <1>3
  <2>3. /\ new[i].plugin = res[i].plugin /\ new[i].status = res[i].status
        /\ new[i].details = res[i].details
    BY <1>1
  <2> QED
    BY <2>1, <2>2, <2>3, Zenon DEF NotedAt, Did
<1>6. Noted(b, res) => Noted(b, new)
  BY <1>1, <1>5, Zenon DEF Noted, NotedAt
<1> QED
  BY <1>4, <1>6 DEF new

(* One step of a rollback. *)
Unwound ==
  LET k == run.i
      x == run.results[k]
  IN  /\ run' \in [pc : {"exec", "rollback", "record"}, r : Runs, i : Nat, results : Results]
      /\ run'.r = run.r
      /\ run'.pc = IF k = 1 THEN "record" ELSE "rollback"
      /\ k # 1 => run'.i = k - 1
      /\ \/ /\ x.status = "Succeeded" /\ Reversible(x.plugin)
            /\ world' = Reverse(x, world) /\ run'.results = Marked(run.results, k)
         \/ world' = world /\ run'.results = run.results

LEMMA RollBackSteps ==
  ASSUME Types, Answered, NEW c \in Calls, RollBack(c)
  PROVE  /\ run.pc = "rollback" /\ run.r \in Runs /\ run.results \in Results
         /\ run.i \in 1..Len(run.results)
         /\ world' \in Objects /\ world'.exists = world.exists
         /\ Unwound
<1> DEFINE k == run.i
           x == run.results[k]
           back == [run EXCEPT !.pc = IF k = 1 THEN "record" ELSE "rollback",
                               !.i  = IF k = 1 THEN 1 ELSE k - 1]
<1>1. /\ run.pc = "rollback" /\ run.r \in Runs /\ run.results \in Results /\ run.i \in Nat
      /\ run.i \in 1..Len(run.results)
      /\ run \in [pc : {"exec", "rollback", "record"}, r : Runs, i : Nat, results : Results]
  BY BusyTypes DEF RollBack
<1>2. world \in Objects /\ x \in Result /\ Sound(x)
  BY <1>1, ResultsAreSequences DEF Types
<1>3. /\ back \in [pc : {"exec", "rollback", "record"}, r : Runs, i : Nat, results : Results]
      /\ back.r = run.r /\ back.results = run.results
      /\ back.pc = IF k = 1 THEN "record" ELSE "rollback"
      /\ k # 1 => back.i = k - 1
  <2>1. (IF k = 1 THEN "record" ELSE "rollback") \in {"exec", "rollback", "record"}
    OBVIOUS
  <2>2. (IF k = 1 THEN 1 ELSE k - 1) \in Nat
    BY <1>1
  <2> QED
    BY <2>1, <2>2, <1>1
<1>4. CASE x.status = "Succeeded" /\ Reversible(x.plugin)
  <2>1. world' = IF Applied(c) THEN Reverse(x, world) ELSE world
    BY <1>4 DEF RollBack, Change
  <2>2. run' = IF c = "ok" THEN [back EXCEPT !.results[k].reversed = TRUE] ELSE back
    BY <1>4 DEF RollBack
  <2>3. CASE c = "ok"
    <3>1. world' = Reverse(x, world)
      BY <2>1, <2>3, OkApplies
    <3>2. world' \in Objects /\ world'.exists = world.exists
      BY <3>1, <1>2, <1>4, ReverseTyped
    <3>3. run' = [back EXCEPT !.results = Marked(run.results, k)]
      BY <2>2, <2>3, <1>3 DEF Marked
    <3>4. Marked(run.results, k) \in Results
      BY <1>1, MarkedOnly
    <3> HIDE DEF back, x
    <3>5. /\ run' \in [pc : {"exec", "rollback", "record"}, r : Runs, i : Nat, results : Results]
          /\ run'.r = back.r /\ run'.pc = back.pc /\ run'.i = back.i
          /\ run'.results = Marked(run.results, k)
      BY <3>3, <3>4, <1>3
    <3> QED
      BY <1>1, <1>3, <1>4, <3>1, <3>2, <3>5 DEF Unwound, x
  <2>4. CASE c # "ok"
    <3>1. world' = world /\ run' = back
      BY <2>1, <2>2, <2>4, TwoEnds
    <3> HIDE DEF back
    <3> QED
      BY <1>1, <1>2, <1>3, <3>1 DEF Unwound
  <2> QED
    BY <2>3, <2>4
<1>5. CASE ~(x.status = "Succeeded" /\ Reversible(x.plugin))
  <2>1. world' = world /\ run' = back
    BY <1>5 DEF RollBack
  <2> HIDE DEF back
  <2> QED
    BY <1>1, <1>2, <1>3, <2>1 DEF Unwound
<1> QED
  BY <1>4, <1>5

(* One step of a revert. *)
Taken ==
  LET k == undo.i
      x == records[undo.r].results[k]
      called == x.status = "Succeeded" /\ Reversible(x.plugin)
  IN  /\ undo' \in [pc : {"reverse"}, r : Runs, i : Nat, failures : Nat]
      /\ undo'.r = undo.r /\ undo'.i = k - 1
      /\ \/ called /\ world' = Reverse(x, world) /\ undo'.failures = undo.failures
         \/ called /\ world' = world /\ undo'.failures # 0
         \/ ~called /\ world' = world /\ undo'.failures = undo.failures

LEMMA ReverseSteps ==
  ASSUME Types, Answered, NEW c \in Calls, ReverseOne(c)
  PROVE  /\ undo.pc = "reverse" /\ undo.r \in Runs /\ records[undo.r].results \in Results
         /\ undo.i \in 1..Len(records[undo.r].results)
         /\ world' \in Objects /\ world'.exists = world.exists
         /\ Taken
<1> DEFINE k == undo.i
           res == records[undo.r].results
           x == res[k]
<1>1. /\ undo.pc = "reverse" /\ undo.r \in Runs /\ undo.i \in Nat /\ undo.failures \in Nat
      /\ undo \in [pc : {"reverse"}, r : Runs, i : Nat, failures : Nat]
      /\ undo.i \in 0..Len(res) /\ undo.i > 0
  BY BusyTypes DEF ReverseOne
<1>2. res \in Results /\ world \in Objects
  BY <1>1 DEF Types, RecordType
<1>3. Len(res) \in Nat
  BY <1>2, ResultsAreSequences
<1>4. k \in 1..Len(res) /\ k - 1 \in Nat
  BY <1>1, <1>3
<1>5. x \in Result /\ Sound(x)
  BY <1>2, <1>4, ResultsAreSequences
<1>6. CASE x.status = "Succeeded" /\ Reversible(x.plugin)
  <2>1. /\ world' = IF Applied(c) THEN Reverse(x, world) ELSE world
        /\ undo' = [undo EXCEPT !.i = @ - 1, !.failures = IF c = "ok" THEN @ ELSE @ + 1]
    BY <1>6 DEF ReverseOne, Change
  <2>2. (IF c = "ok" THEN undo.failures ELSE undo.failures + 1) \in Nat
    BY <1>1
  <2>3. /\ undo' \in [pc : {"reverse"}, r : Runs, i : Nat, failures : Nat]
        /\ undo'.r = undo.r /\ undo'.i = k - 1
        /\ undo'.failures = IF c = "ok" THEN undo.failures ELSE undo.failures + 1
    BY <1>1, <1>4, <2>1, <2>2
  <2> HIDE DEF x, res
  <2>4. CASE c = "ok"
    <3>1. world' = Reverse(x, world) /\ undo'.failures = undo.failures
      BY <2>1, <2>3, <2>4, OkApplies
    <3>2. world' \in Objects /\ world'.exists = world.exists
      BY <3>1, <1>2, <1>5, <1>6, ReverseTyped
    <3> QED
      BY <1>1, <1>2, <1>4, <1>6, <2>3, <3>1, <3>2 DEF Taken, x, res
  <2>5. CASE c # "ok"
    <3>1. world' = world /\ undo'.failures = undo.failures + 1
      BY <2>1, <2>3, <2>5, TwoEnds
    <3>2. undo'.failures # 0
      BY <3>1, <1>1
    <3> QED
      BY <1>1, <1>2, <1>4, <1>6, <2>3, <3>1, <3>2 DEF Taken, x, res
  <2> QED
    BY <2>4, <2>5
<1>7. CASE ~(x.status = "Succeeded" /\ Reversible(x.plugin))
  <2>1. world' = world /\ undo' = [undo EXCEPT !.i = @ - 1]
    BY <1>7 DEF ReverseOne
  <2>2. /\ undo' \in [pc : {"reverse"}, r : Runs, i : Nat, failures : Nat]
        /\ undo'.r = undo.r /\ undo'.i = k - 1 /\ undo'.failures = undo.failures
    BY <1>1, <1>4, <2>1
  <2> HIDE DEF x, res
  <2> QED
    BY <1>1, <1>2, <1>4, <1>7, <2>1, <2>2 DEF Taken, x, res
<1> QED
  BY <1>6, <1>7

(* Whose runs a step leaves clean. *)
LEMMA CleanAfter ==
  ASSUME Types, NEW w, NEW r, Change(w, r)
  PROVE  /\ clean' \in [Runs -> BOOLEAN]
         /\ \A s \in Runs : clean'[s] => clean[s] /\ (world' = world \/ s = r)
<1>1. CASE w = world
  BY <1>1 DEF Change, Types
<1>2. CASE w # world
  <2>1. clean' = [s \in Runs |-> clean[s] /\ s = r]
    BY <1>2 DEF Change
  <2>2. \A s \in Runs : clean'[s] = (clean[s] /\ s = r)
    BY <2>1
  <2>3. \A s \in Runs : (clean[s] /\ s = r) \in BOOLEAN
    OBVIOUS
  <2>4. clean' \in [Runs -> BOOLEAN]
    BY <2>1, <2>3
  <2> QED
    BY <2>2, <2>4
<1> QED
  BY <1>1, <1>2

LEMMA NextTypes ==
  ASSUME Types, Answered, [Next]_vars
  PROVE  Types'
<1>1. ASSUME NEW r \in Runs, StartRun(r) PROVE Types'
  <2>1. <<>> \in Results /\ Len(<<>>) = 0
    BY DEF Results
  <2>2. Len(pipeline) \in Nat /\ Len(pipeline) # 0
    BY DEF Types
  <2>3. /\ run' \in [pc : {"exec", "rollback", "record"}, r : Runs, i : Nat, results : Results]
        /\ run'.pc = "exec" /\ run'.i = Len(run'.results) + 1 /\ run'.i <= Len(pipeline)
    BY <1>1, <2>1, <2>2 DEF StartRun
  <2>4. before' \in [Runs -> Objects] /\ clean' \in [Runs -> BOOLEAN]
    BY <1>1 DEF StartRun, Types
  <2>5. RunType'
    BY <2>3, <1>1 DEF RunType, StartRun
  <2> QED
    BY <2>4, <2>5, <1>1 DEF StartRun, Types, RecordType, UndoType
<1>2. ASSUME NEW c \in Calls, ExecuteAction(c) PROVE Types'
  <2>1. PICK x : Stepped(x)
    BY <1>2, ExecuteSteps
  <2>2. run.results \in Results /\ x \in Result
    BY <1>2, <2>1, ExecuteSteps DEF Stepped
  <2>3. Len(run'.results) = Len(run.results) + 1 /\ Len(run.results) \in Nat
    BY <2>1, <2>2, AppendResult, ResultsAreSequences DEF Stepped
  <2>4. run'.pc = "rollback" => run'.i \in 1..Len(run'.results)
    BY <2>1, <2>3 DEF Stepped
  <2>5. pipeline' = pipeline /\ records' = records /\ records[run.r].state = "none"
    BY <1>2, BusyTypes DEF ExecuteAction
  <2>6. RunType'
    BY <2>1, <2>4, <2>5 DEF RunType, Stepped
  <2>7. world' \in Objects
    BY <1>2, ExecuteSteps
  <2>8. clean' \in [Runs -> BOOLEAN]
    BY <1>2, CleanAfter DEF ExecuteAction
  <2> QED
    BY <2>6, <2>7, <2>8, <1>2 DEF ExecuteAction, Types, RecordType, UndoType
<1>3. ASSUME NEW c \in Calls, RollBack(c) PROVE Types'
  <2>1. /\ run.results \in Results /\ run.i \in 1..Len(run.results)
        /\ world' \in Objects /\ Unwound
    BY <1>3, RollBackSteps
  <2>2. Len(run.results) \in Nat /\ Len(run'.results) = Len(run.results)
    BY <2>1, MarkedOnly, ResultsAreSequences DEF Unwound
  <2>3. run'.pc = "rollback" => run'.i \in 1..Len(run'.results)
    BY <2>1, <2>2 DEF Unwound
  <2>4. RunType'
    <3>1. records' = records /\ records[run.r].state = "none"
      BY <1>3, BusyTypes DEF RollBack
    <3> QED
      BY <2>1, <2>3, <3>1 DEF RunType, Unwound
  <2>5. clean' \in [Runs -> BOOLEAN]
    BY <1>3, CleanAfter DEF RollBack, Types
  <2> QED
    BY <2>1, <2>4, <2>5, <1>3 DEF RollBack, Types, RecordType, UndoType
<1>4. ASSUME NEW c \in Calls, WriteRecord(c) PROVE Types'
  <2>1. run.r \in Runs /\ run.results \in Results /\ records[run.r].state = "none"
    BY <1>4, BusyTypes DEF WriteRecord
  <2>2. RecordType'
    <3> DEFINE old == records[run.r]
               Rec == [state : {"none", "written", "lost"}, results : Results,
                       missing : BOOLEAN, reverted : BOOLEAN, failures : Nat]
    <3>1. old \in Rec
      BY <2>1 DEF Types, RecordType
    <3>2. /\ [old EXCEPT !.state = "written", !.results = run.results] \in Rec
          /\ [old EXCEPT !.state = "lost", !.missing = TRUE] \in Rec
      BY <2>1, <3>1
    <3>3. PICK new \in Rec : records' = [records EXCEPT ![run.r] = new]
      BY <1>4, <3>1, <3>2 DEF WriteRecord, Answered
    <3> QED
      BY <3>3 DEF Types, RecordType
  <2>3. UndoType'
    <3>1. SUFFICES ASSUME undo # Idle PROVE UndoType'
      BY <1>4 DEF UndoType, WriteRecord
    <3>2. undo.r \in Runs /\ records[undo.r].state = "written"
      BY <3>1 DEF Types, UndoType
    <3>3. records'[undo.r] = records[undo.r]
      BY <1>4, <2>1, <3>2 DEF WriteRecord, Types, RecordType
    <3> QED
      BY <1>4, <3>1, <3>2, <3>3 DEF WriteRecord, Types, UndoType, RecordType
  <2>4. run' = Idle
    BY <1>4 DEF WriteRecord, Answered
  <2> QED
    BY <2>2, <2>3, <2>4, <1>4 DEF WriteRecord, Types, RunType
<1>5. ASSUME NEW r \in Runs, StartRevert(r) PROVE Types'
  <2>1. records[r].results \in Results
    BY DEF Types, RecordType
  <2>2. Len(records[r].results) \in Nat
    BY <2>1, ResultsAreSequences
  <2>3. UndoType'
    BY <1>5, <2>2 DEF StartRevert, UndoType
  <2> QED
    BY <2>3, <1>5 DEF StartRevert, Types, RunType, RecordType
<1>6. ASSUME NEW c \in Calls, ReverseOne(c) PROVE Types'
  <2>1. /\ undo.r \in Runs /\ records[undo.r].results \in Results
        /\ undo.i \in 1..Len(records[undo.r].results)
        /\ world' \in Objects /\ Taken
    BY <1>6, ReverseSteps
  <2>2. records' = records /\ undo.pc = "reverse" /\ Len(records[undo.r].results) \in Nat
    BY <1>6, <2>1, ResultsAreSequences DEF ReverseOne
  <2>3. records[undo.r].state = "written" /\ ~records[undo.r].reverted
    BY <2>2, BusyTypes
  <2>4. undo'.i \in 0..Len(records[undo.r].results)
    BY <2>1, <2>2 DEF Taken
  <2>5. UndoType'
    BY <2>1, <2>2, <2>3, <2>4 DEF UndoType, Taken
  <2>6. clean' \in [Runs -> BOOLEAN]
    BY <1>6, CleanAfter DEF ReverseOne, Types
  <2> QED
    BY <2>1, <2>5, <2>6, <1>6 DEF ReverseOne, Types, RunType, RecordType
<1>7. ASSUME NEW c \in Calls, MarkReverted(c) PROVE Types'
  <2>1. undo.failures \in Nat
    BY <1>7, BusyTypes DEF MarkReverted
  <2>2. RecordType'
    <3> DEFINE Rec == [state : {"none", "written", "lost"}, results : Results,
                       missing : BOOLEAN, reverted : BOOLEAN, failures : Nat]
               new == [records[undo.r] EXCEPT !.reverted = TRUE, !.failures = undo.failures]
    <3>1. undo.r \in Runs /\ records[undo.r] \in Rec
      BY <1>7, BusyTypes DEF MarkReverted, Types, RecordType
    <3>2. new \in Rec
      BY <2>1, <3>1
    <3>3. records' = records \/ records' = [records EXCEPT ![undo.r] = new]
      BY <1>7 DEF MarkReverted
    <3> HIDE DEF new
    <3> QED
      BY <3>1, <3>2, <3>3 DEF Types, RecordType
  <2>3. \A r \in Runs : records'[r].state = records[r].state
    BY <1>7 DEF MarkReverted, Types, RecordType
  <2>4. RunType'
    BY <1>7, <2>3 DEF MarkReverted, Types, RunType
  <2> QED
    BY <2>2, <2>4, <1>7 DEF MarkReverted, Types, UndoType
<1>8. ASSUME Edit PROVE Types'
  <2>1. PICK w \in Worlds, f \in {"exists", "app", "note", "netpol", "route"} :
          world' = [world EXCEPT ![f] = w[f]]
    BY <1>8 DEF Edit
  <2>2. w \in Objects /\ world \in Objects
    BY WorldsAssumption DEF Types
  <2>3. world' \in Objects
    BY <2>1, <2>2 DEF Objects
  <2>4. clean' \in [Runs -> BOOLEAN]
    BY <1>8 DEF Edit
  <2> QED
    BY <2>3, <2>4, <1>8 DEF Edit, Types, RunType, RecordType, UndoType
<1>9. CASE UNCHANGED vars
  BY <1>9 DEF vars, Types, RunType, RecordType, UndoType
<1> QED
  BY <1>1, <1>2, <1>3, <1>4, <1>5, <1>6, <1>7, <1>8, <1>9, UngatedRun DEF Next

-----------------------------------------------------------------------------
(* The inductive invariant: a run in progress and a record of a run that   *)
(* nobody disturbed know what it takes to undo it; what was reversed so    *)
(* far, by a rollback or a revert that had no failure, is back.            *)

BackAbove(res, k) ==
  \A i \in (k + 1)..Len(res) :
    res[i].status = "Succeeded" /\ Reversible(res[i].plugin) => res[i].reversed

AnyReversed(res) == \E i \in 1..Len(res) : res[i].reversed

RunInv ==
  run.pc # "idle" =>
    /\ run.pc = "exec" => \A i \in 1..Len(run.results) : ~run.results[i].reversed
    /\ run.pc = "rollback" => \A i \in 1..run.i : ~run.results[i].reversed
    /\ clean[run.r] =>
         /\ Traced(world, before[run.r], run.results)
         /\ run.pc = "rollback" /\ BackAbove(run.results, run.i)
              => Back(world, before[run.r], run.results, run.i)
         /\ run.pc = "record" /\ BackAbove(run.results, 0) /\ AnyReversed(run.results)
              => Back(world, before[run.r], run.results, 0)

RecordInv(r) ==
  /\ records[r].state = "none" => records[r].results = <<>>
  /\ records[r].state = "none" /\ clean[r] => run.pc # "idle" /\ run.r = r
  /\ records[r].reverted => records[r].state = "written"
  /\ records[r].state = "written" /\ clean[r] => Traced(world, before[r], records[r].results)
  /\ records[r].reverted /\ records[r].failures = 0 /\ clean[r]
       => Back(world, before[r], records[r].results, 0)

UndoInv ==
  undo.pc # "idle" /\ undo.failures = 0 /\ clean[undo.r]
    => Back(world, before[undo.r], records[undo.r].results, undo.i)

UndoneInv == Types /\ RunInv /\ UndoInv /\ \A r \in Runs : RecordInv(r)

LEMMA InitUndone == Init => UndoneInv
<1>1. SUFFICES ASSUME Init PROVE UndoneInv
  OBVIOUS
<1>2. run.pc = "idle" /\ undo.pc = "idle"
  BY <1>1 DEF Init, Idle
<1>3. ASSUME NEW r \in Runs PROVE records[r] = NoRecord /\ ~clean[r]
  BY <1>1 DEF Init
<1>4. ASSUME NEW r \in Runs PROVE RecordInv(r)
  BY <1>3 DEF RecordInv, NoRecord
<1> QED
  BY <1>1, <1>2, <1>4, InitTypes DEF UndoneInv, RunInv, UndoInv

(* A record that a step does not touch, of a run that it leaves clean only *)
(* if the world is as it was.                                              *)
LEMMA RecordFrame ==
  ASSUME NEW r \in Runs, RecordInv(r),
         records'[r] = records[r], before'[r] = before[r],
         clean'[r] => clean[r] /\ world' = world,
         records[r].state = "none" /\ clean'[r] => run'.pc # "idle" /\ run'.r = r
  PROVE  RecordInv(r)'
BY DEF RecordInv, Traced

LEMMA UndoFrame ==
  ASSUME UndoInv, undo' = undo, records'[undo.r].results = records[undo.r].results,
         before'[undo.r] = before[undo.r],
         clean'[undo.r] => clean[undo.r] /\ world' = world
  PROVE  UndoInv'
BY DEF UndoInv

LEMMA RunFrame ==
  ASSUME RunInv, run' = run, before' = before,
         run.pc # "idle" => (clean'[run.r] => clean[run.r] /\ world' = world)
  PROVE  RunInv'
<1>1. CASE run.pc = "idle"
  BY <1>1 DEF RunInv
<1>2. CASE run.pc # "idle" /\ clean'[run.r]
  BY <1>2 DEF RunInv, Traced
<1>3. CASE run.pc # "idle" /\ ~clean'[run.r]
  BY <1>3 DEF RunInv
<1> QED
  BY <1>1, <1>2, <1>3

LEMMA StartRunUndone ==
  ASSUME UndoneInv, NEW r \in Runs, StartRun(r)
  PROVE  RunInv' /\ UndoInv' /\ \A s \in Runs : RecordInv(s)'
<1>0. Types /\ UndoInv /\ \A s \in Runs : RecordInv(s)
  BY DEF UndoneInv
<1>1. /\ ~clean[r] /\ records[r].state = "none" /\ run.pc = "idle"
      /\ records[r].results = <<>>
  BY <1>0 DEF StartRun, RecordInv, Idle
<1>2. /\ run'.pc = "exec" /\ run'.r = r /\ run'.results = <<>> /\ run'.i = 1
      /\ world' = world /\ records' = records /\ undo' = undo
  BY DEF StartRun
<1>3. /\ before' = [before EXCEPT ![r] = world] /\ before'[r] = world
      /\ clean' = [clean EXCEPT ![r] = TRUE]
  BY <1>0, <1>1 DEF StartRun, Types
<1>4. \A s \in Runs : s # r => before'[s] = before[s] /\ (clean'[s] => clean[s])
  BY <1>0, <1>3 DEF Types
<1>5. Traced(world, world, <<>>)
  <2>1. Len(<<>>) = 0 /\ \A i : i \notin 1..0
    OBVIOUS
  <2>2. /\ \A p : ~DidBy(<<>>, Len(<<>>), p)
        /\ \A x : ~ShiftedBy(<<>>, Len(<<>>), x)
        /\ Noted(world, <<>>)
    BY <2>1, Zenon DEF DidBy, ShiftedBy, Noted
  <2> QED
    BY <2>2 DEF Traced, Back
<1>6. RunInv'
  <2>1. \A i : i \notin 1..Len(run'.results)
    BY <1>2
  <2>2. Traced(world', before'[run'.r], run'.results)
    BY <1>2, <1>3, <1>5
  <2>3. run'.pc # "rollback" /\ run'.pc # "record"
    BY <1>2
  <2> QED
    BY <2>1, <2>2, <2>3, Zenon DEF RunInv
<1>7. UndoInv'
  <2>1. CASE undo.pc = "idle"
    BY <2>1, <1>2 DEF UndoInv
  <2>2. CASE undo.pc # "idle"
    <3>1. undo.r \in Runs /\ undo.r # r
      BY <2>2, <1>0, <1>1, BusyTypes
    <3> QED
      BY <3>1, <1>0, <1>2, <1>4, UndoFrame
  <2> QED
    BY <2>1, <2>2
<1>8. ASSUME NEW s \in Runs PROVE RecordInv(s)'
  <2>1. CASE s = r
    <3>1. RecordInv(r)
      BY <1>0
    <3>2. ~records[r].reverted
      BY <3>1, <1>1 DEF RecordInv
    <3> QED
      BY <2>1, <1>1, <1>2, <3>2 DEF RecordInv
  <2>2. CASE s # r
    <3>1. /\ RecordInv(s) /\ records'[s] = records[s] /\ before'[s] = before[s]
          /\ clean'[s] => clean[s] /\ world' = world
      BY <2>2, <1>0, <1>2, <1>4
    <3>2. ~(records[s].state = "none" /\ clean'[s])
      BY <3>1, <1>1 DEF RecordInv
    <3> QED
      BY <3>1, <3>2, RecordFrame
  <2> QED
    BY <2>1, <2>2
<1> QED
  BY <1>6, <1>7, <1>8

(* A step of the run in progress disturbs no one else's record or revert.  *)
LEMMA OthersUndone ==
  ASSUME UndoneInv, NEW w, Change(w, run.r), run.pc # "idle",
         run'.pc # "idle", run'.r = run.r,
         records' = records, before' = before, undo' = undo
  PROVE  UndoInv' /\ \A s \in Runs : RecordInv(s)'
<1>0. Types /\ UndoInv /\ \A s \in Runs : RecordInv(s)
  BY DEF UndoneInv
<1>1. run.r \in Runs /\ records[run.r].state = "none"
  BY <1>0, BusyTypes
<1>2. \A s \in Runs : clean'[s] => clean[s] /\ (world' = world \/ s = run.r)
  BY <1>0, CleanAfter
<1>3. UndoInv'
  <2>1. CASE undo.pc = "idle"
    BY <2>1 DEF UndoInv
  <2>2. CASE undo.pc # "idle"
    <3>1. undo.r \in Runs /\ undo.r # run.r
      BY <2>2, <1>0, <1>1, BusyTypes
    <3> QED
      BY <3>1, <1>0, <1>2, UndoFrame
  <2> QED
    BY <2>1, <2>2
<1>4. ASSUME NEW s \in Runs PROVE RecordInv(s)'
  <2>0. RecordInv(s)
    BY <1>0
  <2>1. CASE s = run.r
    <3>1. ~records[s].reverted
      BY <2>0, <2>1, <1>1 DEF RecordInv
    <3> QED
      BY <2>0, <2>1, <1>1, <1>2, <3>1 DEF RecordInv
  <2>2. CASE s # run.r
    <3>1. clean'[s] => clean[s] /\ world' = world
      BY <2>2, <1>2
    <3>2. records[s].state = "none" /\ clean'[s] => run'.pc # "idle" /\ run'.r = s
      BY <2>0, <3>1 DEF RecordInv
    <3> QED
      BY <2>0, <3>1, <3>2, RecordFrame
  <2> QED
    BY <2>1, <2>2
<1> QED
  BY <1>3, <1>4

LEMMA ExecuteUndone ==
  ASSUME UndoneInv, Answered, NEW c \in Calls, ExecuteAction(c)
  PROVE  RunInv' /\ UndoInv' /\ \A s \in Runs : RecordInv(s)'
<1>0. Types /\ RunInv
  BY DEF UndoneInv
<1>1. /\ run.pc = "exec" /\ run.r \in Runs /\ run.results \in Results
      /\ world' \in Objects /\ world'.exists = world.exists
  BY <1>0, ExecuteSteps
<1>2. PICK x : Stepped(x)
  BY <1>0, ExecuteSteps
<1>3. /\ x \in Result /\ ~x.reversed
      /\ run' \in [pc : {"exec", "rollback", "record"}, r : Runs, i : Nat, results : Results]
      /\ run'.r = run.r /\ run'.results = Append(run.results, x)
      /\ run'.pc = "rollback" => run'.i = Len(run'.results)
  BY <1>2 DEF Stepped
<1>4. records' = records /\ before' = before /\ undo' = undo
  BY DEF ExecuteAction
<1>5. UndoInv' /\ \A s \in Runs : RecordInv(s)'
  <2>1. PICK w : Change(w, run.r)
    BY DEF ExecuteAction
  <2>2. run.pc # "idle" /\ run'.pc # "idle"
    BY <1>1, <1>3
  <2> QED
    BY <2>1, <2>2, <1>3, <1>4, OthersUndone
<1>6. /\ Len(run.results) \in Nat /\ Len(run'.results) = Len(run.results) + 1
      /\ \A i \in 1..Len(run'.results) : ~run'.results[i].reversed
  <2>1. \A i \in 1..Len(run.results) : ~run.results[i].reversed
    BY <1>0, <1>1 DEF RunInv
  <2>2. /\ Len(run.results) \in Nat /\ Len(run'.results) = Len(run.results) + 1
        /\ \A i \in 1..Len(run.results) : run'.results[i] = run.results[i]
        /\ run'.results[Len(run.results) + 1] = x
    BY <1>1, <1>3, AppendResult, ResultsAreSequences
  <2>3. ASSUME NEW i \in 1..(Len(run.results) + 1) PROVE ~run'.results[i].reversed
    <3>1. i \in 1..Len(run.results) \/ i = Len(run.results) + 1
      BY <2>2
    <3> QED
      BY <3>1, <2>1, <2>2, <1>3
  <2> QED
    BY <2>2, <2>3
<1>7. clean'[run.r] => Traced(world', before[run.r], run'.results)
  <2>1. SUFFICES ASSUME clean'[run.r] PROVE Traced(world', before[run.r], run'.results)
    OBVIOUS
  <2>2. clean[run.r]
    <3>1. PICK w : Change(w, run.r)
      BY DEF ExecuteAction
    <3> QED
      BY <1>0, <1>1, <2>1, <3>1, CleanAfter
  <2>3. Traced(world, before[run.r], run.results)
    BY <2>2, <1>0, <1>1 DEF RunInv
  <2>4. world \in Objects /\ before[run.r] \in Objects
    BY <1>0, <1>1 DEF Types
  <2>5. CASE world' = world /\ x.status # "Succeeded"
    BY <2>3, <2>5, <1>1, <1>3, FailedTraced
  <2>6. ASSUME NEW act \in Action,
               x.plugin = act.plugin, x.status = Execute(act, world).status,
               x.details = Execute(act, world).details, world' = Execute(act, world).world
        PROVE  Traced(world', before[run.r], run'.results)
    BY <2>3, <2>4, <2>6, <1>1, <1>3, ExecuteTraced
  <2> QED
    BY <2>5, <2>6, <1>2 DEF Stepped
<1>8. ~AnyReversed(run'.results)
  BY <1>6 DEF AnyReversed
<1>9. /\ run'.pc = "exec" => \A i \in 1..Len(run'.results) : ~run'.results[i].reversed
      /\ run'.pc = "rollback" => \A i \in 1..run'.i : ~run'.results[i].reversed
  BY <1>3, <1>6
<1>10. clean'[run'.r] =>
         /\ Traced(world', before'[run'.r], run'.results)
         /\ run'.pc = "rollback" => Back(world', before'[run'.r], run'.results, run'.i)
  BY <1>3, <1>4, <1>7 DEF Traced
<1>11. RunInv'
  BY <1>8, <1>9, <1>10, Zenon DEF RunInv
<1> QED
  BY <1>5, <1>11

LEMMA RollBackUndone ==
  ASSUME UndoneInv, Answered, NEW c \in Calls, RollBack(c)
  PROVE  RunInv' /\ UndoInv' /\ \A s \in Runs : RecordInv(s)'
<1> DEFINE k == run.i
           res == run.results
           b == before[run.r]
           x == res[k]
           called == x.status = "Succeeded" /\ Reversible(x.plugin)
<1>0. Types /\ RunInv
  BY DEF UndoneInv
<1>1. /\ run.pc = "rollback" /\ run.r \in Runs /\ res \in Results /\ k \in 1..Len(res)
      /\ world' \in Objects /\ world'.exists = world.exists
  BY <1>0, RollBackSteps
<1>2. /\ run' \in [pc : {"exec", "rollback", "record"}, r : Runs, i : Nat, results : Results]
      /\ run'.r = run.r
      /\ run'.pc = IF k = 1 THEN "record" ELSE "rollback"
      /\ k # 1 => run'.i = k - 1
      /\ \/ called /\ world' = Reverse(x, world) /\ run'.results = Marked(res, k)
         \/ world' = world /\ run'.results = res
  BY <1>0, RollBackSteps DEF Unwound
<1>3. records' = records /\ before' = before /\ undo' = undo /\ Len(res) \in Nat /\ k \in Nat
  BY <1>1, ResultsAreSequences DEF RollBack
<1>4. clean'[run.r] => clean[run.r]
  <2>1. CASE called
    <3>1. PICK w : Change(w, run.r)
      BY <2>1 DEF RollBack
    <3> QED
      BY <1>0, <1>1, <3>1, CleanAfter
  <2>2. CASE ~called
    BY <2>2 DEF RollBack
  <2> QED
    BY <2>1, <2>2
<1>5. UndoInv' /\ \A s \in Runs : RecordInv(s)'
  <2>1. run.pc # "idle" /\ run'.pc # "idle"
    BY <1>1, <1>2
  <2>2. PICK w : Change(w, run.r)
    <3>1. CASE called
      BY <3>1 DEF RollBack
    <3>2. CASE ~called
      BY <3>2 DEF RollBack, Change
    <3> QED
      BY <3>1, <3>2
  <2> QED
    BY <2>1, <2>2, <1>2, <1>3, OthersUndone
<1>6. \A i \in 1..k : ~res[i].reversed
  BY <1>0, <1>1 DEF RunInv
<1>7. /\ run'.results \in Results /\ Len(run'.results) = Len(res)
      /\ \A i \in 1..Len(res) :
           /\ run'.results[i].plugin = res[i].plugin /\ run'.results[i].status = res[i].status
           /\ i # k => run'.results[i] = res[i]
  BY <1>1, <1>2, MarkedOnly
<1>8. run'.pc = "rollback" => \A i \in 1..run'.i : ~run'.results[i].reversed
  <2>1. SUFFICES ASSUME k # 1, NEW i \in 1..(k - 1) PROVE ~run'.results[i].reversed
    BY <1>2
  <2>2. i \in 1..k /\ i \in 1..Len(res) /\ i # k
    BY <1>1, <1>3, <2>1
  <2> QED
    BY <2>2, <1>6, <1>7
<1>9. clean[run.r] =>
        /\ Traced(world', b, run'.results)
        /\ BackAbove(run'.results, k - 1) => Back(world', b, run'.results, k - 1)
  <2>1. SUFFICES ASSUME clean[run.r]
                 PROVE  /\ Traced(world', b, run'.results)
                        /\ BackAbove(run'.results, k - 1) => Back(world', b, run'.results, k - 1)
    OBVIOUS
  <2>2. /\ world.exists = b.exists /\ Noted(b, res) /\ Back(world, b, res, Len(res))
        /\ BackAbove(res, k) => Back(world, b, res, k)
    BY <2>1, <1>0, <1>1 DEF RunInv, Traced
  <2>3. world \in Objects /\ b \in Objects /\ Len(res) \in 0..Len(res) /\ k - 1 \in 0..Len(res)
    BY <1>0, <1>1, <1>3 DEF Types
  <2>4. ASSUME BackAbove(run'.results, k - 1)
        PROVE  /\ BackAbove(res, k)
               /\ called => run'.results[k].reversed
    <3>1. \A i \in k..Len(res) : called /\ i = k => run'.results[i].reversed
      BY <2>4, <1>1, <1>3, <1>7 DEF BackAbove
    <3>2. ASSUME NEW i \in (k + 1)..Len(res), res[i].status = "Succeeded", Reversible(res[i].plugin)
          PROVE  res[i].reversed
      <4>1. i \in ((k - 1) + 1)..Len(res) /\ i \in 1..Len(res) /\ i # k
        BY <1>3
      <4>2. run'.results[i] = res[i]
        BY <4>1, <1>7
      <4> QED
        BY <2>4, <3>2, <4>1, <4>2, <1>7 DEF BackAbove
    <3> QED
      BY <3>1, <3>2, <1>1, <1>3 DEF BackAbove
  <2>5. CASE called /\ world' = Reverse(x, world) /\ run'.results = Marked(res, k)
    <3>1. Back(world', b, res, Len(res))
      BY <2>2, <2>3, <2>5, <1>1, ReverseElsewhere
    <3>2. BackAbove(run'.results, k - 1) => Back(world', b, res, k - 1)
      BY <2>2, <2>3, <2>4, <2>5, <1>1, ReverseBack
    <3>3. Traced(world', b, run'.results)
      BY <2>2, <2>3, <2>5, <3>1, <1>1, <1>7, MarkedSame DEF Traced
    <3> QED
      BY <2>3, <2>5, <3>2, <3>3, <1>1, MarkedSame
  <2>6. CASE world' = world /\ run'.results = res
    <3>1. Traced(world', b, run'.results)
      BY <2>2, <2>6 DEF Traced
    <3>2. BackAbove(run'.results, k - 1) => Back(world', b, run'.results, k - 1)
      <4>1. SUFFICES ASSUME BackAbove(res, k - 1) PROVE Back(world, b, res, k - 1)
        BY <2>6
      <4>2. BackAbove(res, k) /\ (called => res[k].reversed)
        BY <4>1, <2>4, <2>6
      <4>3. ~called
        BY <4>2, <1>3, <1>1, <1>6
      <4> QED
        BY <4>2, <4>3, <2>2, <1>1, PassBack
    <3> QED
      BY <3>1, <3>2
  <2> QED
    BY <2>5, <2>6, <1>2
<1>10. k = 1 => k - 1 = 0
  OBVIOUS
<1>11. clean'[run'.r] =>
         /\ Traced(world', before'[run'.r], run'.results)
         /\ run'.pc = "rollback" /\ BackAbove(run'.results, run'.i)
              => Back(world', before'[run'.r], run'.results, run'.i)
         /\ run'.pc = "record" /\ BackAbove(run'.results, 0)
              => Back(world', before'[run'.r], run'.results, 0)
  BY <1>2, <1>3, <1>4, <1>9, <1>10
<1>12. run'.pc # "exec"
  BY <1>2
<1>13. RunInv'
  BY <1>8, <1>11, <1>12, Zenon DEF RunInv
<1> QED
  BY <1>5, <1>13

LEMMA WriteUndone ==
  ASSUME UndoneInv, Answered, NEW c \in Calls, WriteRecord(c)
  PROVE  RunInv' /\ UndoInv' /\ \A s \in Runs : RecordInv(s)'
<1>0. Types /\ RunInv /\ UndoInv /\ \A s \in Runs : RecordInv(s)
  BY DEF UndoneInv
<1>1. /\ run.pc = "record" /\ run.r \in Runs /\ records[run.r].state = "none"
      /\ run.results \in Results
  BY <1>0, BusyTypes DEF WriteRecord
<1>2. /\ run' = Idle /\ world' = world /\ undo' = undo /\ before' = before /\ clean' = clean
      /\ run'.pc = "idle"
  BY DEF WriteRecord, Answered, Idle
<1>3. \A s \in Runs : s # run.r => records'[s] = records[s]
  BY <1>0 DEF WriteRecord, Types, RecordType
<1>4. RunInv'
  BY <1>2 DEF RunInv
<1>5. UndoInv'
  <2>1. CASE undo.pc = "idle"
    BY <2>1, <1>2 DEF UndoInv
  <2>2. CASE undo.pc # "idle"
    <3>1. undo.r \in Runs /\ undo.r # run.r
      BY <2>2, <1>0, <1>1, BusyTypes
    <3> QED
      BY <3>1, <1>0, <1>2, <1>3, UndoFrame
  <2> QED
    BY <2>1, <2>2
<1>6. ASSUME NEW s \in Runs PROVE RecordInv(s)'
  <2>0. RecordInv(s)
    BY <1>0
  <2>1. CASE s = run.r
    <3>1. ~records[s].reverted
      BY <2>0, <2>1, <1>1 DEF RecordInv
    <3>2. records[s] \in [state : {"none", "written", "lost"}, results : Results,
                          missing : BOOLEAN, reverted : BOOLEAN, failures : Nat]
      BY <1>0 DEF Types, RecordType
    <3>3. CASE Applied(c)
      <4>1. records'[s] = [records[s] EXCEPT !.state = "written", !.results = run.results]
        BY <2>1, <3>3, <1>0, <1>1 DEF WriteRecord, Types, RecordType, Answered
      <4>2. /\ records'[s].state = "written" /\ records'[s].results = run.results
            /\ ~records'[s].reverted
        BY <3>1, <3>2, <4>1
      <4>3. clean[s] => Traced(world, before[s], run.results)
        BY <2>1, <1>0, <1>1 DEF RunInv
      <4> QED
        BY <4>2, <4>3, <1>2 DEF RecordInv
    <3>4. CASE ~Applied(c)
      <4>1. records'[s] = [records[s] EXCEPT !.state = "lost", !.missing = TRUE]
        BY <2>1, <3>4, <1>0, <1>1 DEF WriteRecord, Types, RecordType, Answered
      <4>2. records'[s].state = "lost" /\ ~records'[s].reverted
        BY <3>1, <3>2, <4>1
      <4> QED
        BY <4>2 DEF RecordInv
    <3> QED
      BY <3>3, <3>4
  <2>2. CASE s # run.r
    <3>1. ~(records[s].state = "none" /\ clean'[s])
      BY <2>0, <2>2, <1>2 DEF RecordInv
    <3> QED
      BY <2>0, <2>2, <3>1, <1>2, <1>3, RecordFrame
  <2> QED
    BY <2>1, <2>2
<1> QED
  BY <1>4, <1>5, <1>6

LEMMA StartRevertUndone ==
  ASSUME UndoneInv, NEW r \in Runs, StartRevert(r)
  PROVE  RunInv' /\ UndoInv' /\ \A s \in Runs : RecordInv(s)'
<1>0. Types /\ RunInv /\ \A s \in Runs : RecordInv(s)
  BY DEF UndoneInv
<1>1. /\ run' = run /\ world' = world /\ records' = records /\ before' = before /\ clean' = clean
      /\ undo'.r = r /\ undo'.i = Len(records[r].results) /\ records[r].state = "written"
  BY DEF StartRevert
<1>2. RunInv'
  BY <1>0, <1>1, RunFrame
<1>3. UndoInv'
  BY <1>0, <1>1 DEF UndoInv, RecordInv, Traced
<1>4. ASSUME NEW s \in Runs PROVE RecordInv(s)'
  <2>1. RecordInv(s)
    BY <1>0
  <2> QED
    BY <2>1, <1>1 DEF RecordInv, Traced
<1> QED
  BY <1>2, <1>3, <1>4

LEMMA ReverseUndone ==
  ASSUME UndoneInv, Answered, NEW c \in Calls, ReverseOne(c)
  PROVE  RunInv' /\ UndoInv' /\ \A s \in Runs : RecordInv(s)'
<1> DEFINE u == undo.r
           k == undo.i
           res == records[u].results
           b == before[u]
           x == res[k]
           called == x.status = "Succeeded" /\ Reversible(x.plugin)
<1>0. Types /\ RunInv /\ UndoInv /\ \A s \in Runs : RecordInv(s)
  BY DEF UndoneInv
<1>1. /\ undo.pc = "reverse" /\ u \in Runs /\ res \in Results /\ k \in 1..Len(res)
      /\ world' \in Objects /\ world'.exists = world.exists /\ Taken
  BY <1>0, ReverseSteps
<1>2. /\ undo'.r = u /\ undo'.i = k - 1
      /\ \/ called /\ world' = Reverse(x, world) /\ undo'.failures = undo.failures
         \/ called /\ world' = world /\ undo'.failures # 0
         \/ ~called /\ world' = world /\ undo'.failures = undo.failures
  BY <1>1 DEF Taken
<1>3. /\ records' = records /\ before' = before /\ run' = run
      /\ records[u].state = "written" /\ ~records[u].reverted
  BY <1>0, <1>1, BusyTypes DEF ReverseOne
<1>4. \A s \in Runs : clean'[s] => clean[s] /\ (world' = world \/ s = u)
  <2>1. CASE called
    <3>1. PICK w : Change(w, u)
      BY <2>1 DEF ReverseOne
    <3> QED
      BY <1>0, <3>1, CleanAfter
  <2>2. CASE ~called
    BY <2>2 DEF ReverseOne
  <2> QED
    BY <2>1, <2>2
<1>5. RunInv'
  <2>1. run.pc # "idle" => run.r \in Runs /\ run.r # u
    BY <1>0, <1>3, BusyTypes
  <2> QED
    BY <2>1, <1>0, <1>3, <1>4, RunFrame
<1>6. world \in Objects /\ b \in Objects /\ Len(res) \in Nat
  BY <1>0, <1>1, ResultsAreSequences DEF Types
<1>7. UndoInv'
  <2>1. SUFFICES ASSUME undo'.failures = 0, clean'[u] PROVE Back(world', b, res, k - 1)
    BY <1>2, <1>3 DEF UndoInv
  <2>2. clean[u]
    BY <2>1, <1>1, <1>4
  <2>3. undo.failures = 0
    BY <2>1, <1>2
  <2>4. Back(world, b, res, k)
    BY <2>2, <2>3, <1>0, <1>1 DEF UndoInv
  <2>5. world.exists = b.exists /\ Noted(b, res)
    BY <2>2, <1>0, <1>1, <1>3 DEF RecordInv, Traced
  <2>6. CASE called /\ world' = Reverse(x, world)
    BY <2>4, <2>5, <2>6, <1>1, <1>6, ReverseBack
  <2>7. CASE ~called /\ world' = world
    BY <2>4, <2>7, <1>1, PassBack
  <2> QED
    BY <2>1, <2>6, <2>7, <1>2
<1>8. ASSUME NEW s \in Runs PROVE RecordInv(s)'
  <2>0. RecordInv(s)
    BY <1>0
  <2>1. CASE s = u
    <3>1. clean'[u] => Traced(world', b, res)
      <4>1. SUFFICES ASSUME clean'[u] PROVE Traced(world', b, res)
        OBVIOUS
      <4>2. world.exists = b.exists /\ Noted(b, res) /\ Back(world, b, res, Len(res))
        BY <4>1, <2>0, <2>1, <1>3, <1>4 DEF RecordInv, Traced
      <4>3. Len(res) \in 0..Len(res)
        BY <1>6
      <4>4. Back(world', b, res, Len(res))
        BY <4>2, <4>3, <1>1, <1>2, <1>6, ReverseElsewhere
      <4> QED
        BY <4>2, <4>4, <1>1 DEF Traced
    <3> QED
      BY <2>1, <3>1, <1>3 DEF RecordInv
  <2>2. CASE s # u
    <3>1. clean'[s] => clean[s] /\ world' = world
      BY <2>2, <1>4
    <3>2. records[s].state = "none" /\ clean'[s] => run'.pc # "idle" /\ run'.r = s
      BY <2>0, <3>1, <1>3 DEF RecordInv
    <3> QED
      BY <2>0, <3>1, <3>2, <1>3, RecordFrame
  <2> QED
    BY <2>1, <2>2
<1> QED
  BY <1>5, <1>7, <1>8

LEMMA MarkRevertedUndone ==
  ASSUME UndoneInv, NEW c \in Calls, MarkReverted(c)
  PROVE  RunInv' /\ UndoInv' /\ \A s \in Runs : RecordInv(s)'
<1> DEFINE u == undo.r
<1>0. Types /\ RunInv /\ UndoInv /\ \A s \in Runs : RecordInv(s)
  BY DEF UndoneInv
<1>1. /\ undo.pc = "reverse" /\ undo.i = 0 /\ u \in Runs /\ records[u].state = "written"
  BY <1>0, BusyTypes DEF MarkReverted
<1>2. /\ run' = run /\ world' = world /\ before' = before /\ clean' = clean
      /\ undo'.pc = "idle"
  BY DEF MarkReverted, Idle
<1>3. RunInv'
  BY <1>0, <1>2, RunFrame
<1>4. UndoInv'
  BY <1>2 DEF UndoInv
<1>5. ASSUME NEW s \in Runs PROVE RecordInv(s)'
  <2>0. RecordInv(s)
    BY <1>0
  <2>1. CASE s = u /\ Applied(c)
    <3>1. records'[s] = [records[s] EXCEPT !.reverted = TRUE, !.failures = undo.failures]
      BY <2>1, <1>0, <1>1 DEF MarkReverted, Types, RecordType
    <3>2. records[s] \in [state : {"none", "written", "lost"}, results : Results,
                          missing : BOOLEAN, reverted : BOOLEAN, failures : Nat]
      BY <1>0 DEF Types, RecordType
    <3>3. /\ records'[s].state = records[s].state /\ records'[s].results = records[s].results
          /\ records'[s].failures = undo.failures
      BY <3>1, <3>2
    <3>4. undo.failures = 0 /\ clean[s] => Back(world, before[s], records[s].results, 0)
      BY <2>1, <1>0, <1>1 DEF UndoInv
    <3> QED
      BY <2>0, <2>1, <3>3, <3>4, <1>1, <1>2 DEF RecordInv, Traced
  <2>2. CASE ~(s = u /\ Applied(c))
    <3>1. records'[s] = records[s]
      BY <2>2, <1>0 DEF MarkReverted, Types, RecordType
    <3>2. records[s].state = "none" /\ clean'[s] => run'.pc # "idle" /\ run'.r = s
      BY <2>0, <1>2 DEF RecordInv
    <3> QED
      BY <2>0, <3>1, <3>2, <1>2, RecordFrame
  <2> QED
    BY <2>1, <2>2
<1> QED
  BY <1>3, <1>4, <1>5

LEMMA EditUndone ==
  ASSUME UndoneInv, Edit
  PROVE  RunInv' /\ UndoInv' /\ \A s \in Runs : RecordInv(s)'
<1>0. Types /\ RunInv /\ UndoInv /\ \A s \in Runs : RecordInv(s)
  BY DEF UndoneInv
<1>1. /\ run' = run /\ undo' = undo /\ records' = records /\ before' = before
      /\ \A s \in Runs : ~clean'[s]
  BY DEF Edit
<1>2. RunInv'
  <2>1. run.pc # "idle" => run.r \in Runs
    BY <1>0, BusyTypes
  <2> QED
    BY <2>1, <1>0, <1>1, RunFrame
<1>3. UndoInv'
  <2>1. undo.pc # "idle" => undo.r \in Runs
    BY <1>0, BusyTypes
  <2> QED
    BY <2>1, <1>1 DEF UndoInv
<1>4. ASSUME NEW s \in Runs PROVE RecordInv(s)'
  <2>1. RecordInv(s) /\ ~clean'[s]
    BY <1>0, <1>1
  <2> QED
    BY <2>1, <1>1, RecordFrame
<1> QED
  BY <1>2, <1>3, <1>4

LEMMA NextUndone ==
  ASSUME UndoneInv, Answered, [Next]_vars
  PROVE  UndoneInv'
<1>0. Types
  BY DEF UndoneInv
<1>1. Types'
  BY NextTypes DEF UndoneInv
<1>2. CASE UNCHANGED vars
  <2>1. RunInv /\ UndoInv /\ \A s \in Runs : RecordInv(s)
    BY DEF UndoneInv
  <2>2. RunInv'
    BY <2>1, <1>2, RunFrame DEF vars
  <2>3. UndoInv'
    BY <2>1, <1>2 DEF vars, UndoInv
  <2>4. ASSUME NEW s \in Runs PROVE RecordInv(s)'
    BY <2>1, <1>2 DEF vars, RecordInv, Traced
  <2> QED
    BY <1>1, <2>2, <2>3, <2>4 DEF UndoneInv
<1>3. CASE Next
  <2>1. RunInv' /\ UndoInv' /\ \A s \in Runs : RecordInv(s)'
    BY <1>3, StartRunUndone, ExecuteUndone, RollBackUndone, WriteUndone, StartRevertUndone,
       ReverseUndone, MarkRevertedUndone, EditUndone, UngatedRun, <1>0, Zenon DEF Next
  <2> QED
    BY <1>1, <2>1 DEF UndoneInv
<1> QED
  BY <1>2, <1>3

LEMMA UndoneHolds == ASSUME Answered PROVE Spec => []UndoneInv
<1>1. UndoneInv /\ [Next]_vars => UndoneInv'
  BY NextUndone
<1> QED
  BY <1>1, InitUndone, PTL DEF Spec

(* A revert that reports no failed action has undone the whole run, and    *)
(* nothing but that run, if nobody else touched the objects in between.    *)
THEOREM RevertHolds == ASSUME Answered PROVE Spec => []RevertUndoes
<1>1. UndoneInv => RevertUndoes
  <2>1. SUFFICES ASSUME UndoneInv, NEW r \in Runs,
                        records[r].reverted, records[r].failures = 0, clean[r]
                 PROVE  Undone(before[r], records[r].results)
    BY DEF RevertUndoes
  <2>2. /\ records[r].results \in Results /\ before[r] \in Objects /\ world \in Objects
        /\ RecordInv(r)
    BY <2>1 DEF UndoneInv, Types, RecordType
  <2>3. Back(world, before[r], records[r].results, 0)
    BY <2>1, <2>2 DEF RecordInv
  <2> QED
    BY <2>2, <2>3, BackIsUndone
<1> QED
  BY <1>1, UndoneHolds, PTL

(* A rollback whose Reverse calls all went through has undone the run so   *)
(* far: whichever actions failed without stopping it, and however often    *)
(* the actions of the pipeline wrote the same object.                      *)
THEOREM RollbackHolds == ASSUME Answered PROVE Spec => []RollbackUndoes
<1>1. UndoneInv => RollbackUndoes
  <2>1. SUFFICES ASSUME UndoneInv, run.pc = "record", clean[run.r],
                        \E i \in 1..Len(run.results) : run.results[i].reversed,
                        \A i \in 1..Len(run.results) :
                          run.results[i].status = "Succeeded" /\ Reversible(run.results[i].plugin)
                            => run.results[i].reversed
                 PROVE  Undone(before[run.r], run.results)
    BY DEF RollbackUndoes
  <2>2. /\ run.r \in Runs /\ run.results \in Results /\ before[run.r] \in Objects
        /\ world \in Objects
    BY <2>1, BusyTypes DEF UndoneInv, Types
  <2>3. 0 + 1 = 1
    OBVIOUS
  <2>4. BackAbove(run.results, 0) /\ AnyReversed(run.results)
    BY <2>1, <2>3 DEF BackAbove, AnyReversed
  <2>5. Back(world, before[run.r], run.results, 0)
    BY <2>1, <2>4 DEF UndoneInv, RunInv
  <2> QED
    BY <2>2, <2>5, BackIsUndone
<1> QED
  BY <1>1, UndoneHolds, PTL
=============================================================================
