-------------------------- MODULE ObservabilityProofs --------------------------
(***************************************************************************)
(* What the operator reports, for any number of records, users, targets,   *)
(* faults and edits and any size of the queue.                             *)
(*                                                                         *)
(* The operator's own invariants carry over, since the sink's worker does  *)
(* not touch its state (Base).  On top of them stand: the working copy a   *)
(* reconcile forwards from has the record's runs as long as the server     *)
(* would accept the copy (HoldsInv), so that a row is about the record     *)
(* as it is when the row is sent (RowsNew); a record only grows            *)
(* (RecordsGrow), so that it stays true; and a key once sent stays in the  *)
(* queue or the table (RowsKept), which with the steps that finish a       *)
(* record gives the complete trail (CoverInv).                             *)
(***************************************************************************)
EXTENDS Observability, PacingProofs

-----------------------------------------------------------------------------
(* FlattenSeq is defined by a recursive function: that there is one, that  *)
(* it is of the right type, and what an element at the end adds.           *)

Flattens(s, f) ==
  f = [i \in 1..Len(s) |-> IF i = 1 THEN s[i] ELSE f[i - 1] \o s[i]]

SameUpTo(n, s, t) == \A i \in 1..n : s[i] = t[i]

LEMMA FlattenExists ==
  ASSUME NEW S, NEW s \in Seq(Seq(S))
  PROVE  \E f \in [1..Len(s) -> Seq(S)] : Flattens(s, f)
<1> DEFINE Part(n, f) == \A i \in 1..n : f[i] = IF i = 1 THEN s[i] ELSE f[i - 1] \o s[i]
           Bad == {n \in 0..Len(s) : ~\E f \in [1..n -> Seq(S)] : Part(n, f)}
<1>0. Len(s) \in Nat /\ \A i \in 1..Len(s) : s[i] \in Seq(S)
  OBVIOUS
<1>1. Bad = {}
  <2> SUFFICES ASSUME Bad # {} PROVE FALSE
    OBVIOUS
  <2>1. PICK m \in Bad : \A n \in Bad : m <= n
    <3>1. Bad \in SUBSET Nat
      BY <1>0
    <3> QED BY <3>1, LeastElement
  <2>2. m \in 0..Len(s) /\ ~\E f \in [1..m -> Seq(S)] : Part(m, f)
    OBVIOUS
  <2>3. m # 0
    <3>1. [i \in 1..0 |-> <<>>] \in [1..0 -> Seq(S)] /\ Part(0, [i \in 1..0 |-> <<>>])
      OBVIOUS
    <3> QED BY <2>2, <3>1
  <2>4. m - 1 \in 0..Len(s) /\ m - 1 \notin Bad /\ m \in Nat /\ m >= 1
    <3> HIDE DEF Bad
    <3>1. m \in Nat /\ m <= Len(s) /\ m - 1 >= 0 /\ ~(m <= m - 1)
      BY <1>0, <2>2, <2>3
    <3> QED BY <1>0, <2>1, <3>1
  <2>5. PICK f \in [1..(m - 1) -> Seq(S)] : Part(m - 1, f)
    BY <2>4
  <2> DEFINE g == [i \in 1..m |-> IF i < m THEN f[i]
                                  ELSE IF m = 1 THEN s[m] ELSE f[m - 1] \o s[m]]
  <2>6. s[m] \in Seq(S) /\ (m # 1 => f[m - 1] \o s[m] \in Seq(S))
    BY <1>0, <2>2, <2>4
  <2>7. g \in [1..m -> Seq(S)]
    BY <2>4, <2>6
  <2>8. Part(m, g)
    <3> SUFFICES ASSUME NEW i \in 1..m
                 PROVE  g[i] = IF i = 1 THEN s[i] ELSE g[i - 1] \o s[i]
      OBVIOUS
    <3>1. CASE i = m
      <4>1. i # 1 => i - 1 \in 1..m /\ i - 1 < m
        BY <2>4
      <4>2. i # 1 => g[i - 1] = f[i - 1]
        BY <4>1
      <4>3. g[i] = IF m = 1 THEN s[m] ELSE f[m - 1] \o s[m]
        BY <3>1, <2>4
      <4> HIDE DEF g
      <4>4. CASE m = 1
        BY <3>1, <4>3, <4>4
      <4>5. CASE m # 1
        BY <3>1, <4>2, <4>3, <4>5
      <4> QED BY <4>4, <4>5
    <3>2. CASE i # m
      <4>1. i \in 1..(m - 1) /\ (i # 1 => i - 1 \in 1..m /\ i - 1 < m)
        BY <2>4, <3>2
      <4>2. g[i] = f[i] /\ (i # 1 => g[i - 1] = f[i - 1])
        <5>1. i < m /\ i \in 1..m
          BY <2>4, <4>1
        <5> QED BY <4>1, <5>1
      <4>3. f[i] = IF i = 1 THEN s[i] ELSE f[i - 1] \o s[i]
        BY <2>5, <4>1
      <4> HIDE DEF g
      <4> QED BY <4>2, <4>3
    <3> QED BY <3>1, <3>2
  <2> QED BY <2>2, <2>7, <2>8
<1>2. PICK f \in [1..Len(s) -> Seq(S)] : Part(Len(s), f)
  <2> HIDE DEF Part
  <2>1. Len(s) \in 0..Len(s)
    BY <1>0
  <2> QED BY <1>1, <2>1
<1>3. f = [i \in 1..Len(s) |-> f[i]]
  OBVIOUS
<1>4. f = [i \in 1..Len(s) |-> IF i = 1 THEN s[i] ELSE f[i - 1] \o s[i]]
  BY <1>2, <1>3
<1> QED BY <1>4 DEF Flattens

LEMMA FlattenAgrees ==
  ASSUME NEW s, NEW t, NEW f, NEW g, Flattens(s, f), Flattens(t, g),
         NEW n \in Nat, Len(s) \in Nat, Len(t) \in Nat, n <= Len(s), n <= Len(t),
         SameUpTo(n, s, t)
  PROVE  SameUpTo(n, f, g)
<1> DEFINE Bad == {i \in 1..n : f[i] # g[i]}
<1> SUFFICES ASSUME Bad # {} PROVE FALSE
  BY DEF SameUpTo
<1>1. PICK m \in Bad : \A j \in Bad : m <= j
  <2>1. Bad \in SUBSET Nat
    OBVIOUS
  <2> QED BY <2>1, LeastElement
<1>2. m \in 1..n /\ m \in 1..Len(s) /\ m \in 1..Len(t) /\ f[m] # g[m] /\ s[m] = t[m]
  BY DEF SameUpTo
<1>3. /\ f[m] = IF m = 1 THEN s[m] ELSE f[m - 1] \o s[m]
      /\ g[m] = IF m = 1 THEN t[m] ELSE g[m - 1] \o t[m]
  BY <1>2 DEF Flattens
<1>4. m # 1 => m - 1 \in 1..n /\ m - 1 \notin Bad
  BY <1>1, <1>2
<1>5. m # 1 => f[m - 1] = g[m - 1]
  BY <1>4
<1> QED BY <1>2, <1>3, <1>5

(* FlattenSeq is the last value of any function that flattens. *)
LEMMA FlattenSeqIs ==
  ASSUME NEW S, NEW s \in Seq(Seq(S)), s # <<>>, NEW f, Flattens(s, f)
  PROVE  FlattenSeq(s) = f[Len(s)]
<1>0. Len(s) \in Nat /\ Len(s) # 0
  OBVIOUS
<1>1. \E g : Flattens(s, g) /\ FlattenSeq(s) = g[Len(s)]
  <2>1. f = [i \in 1..Len(s) |-> IF i = 1 THEN s[i] ELSE f[i - 1] \o s[i]]
    BY DEF Flattens
  <2>2. \E g : /\ g = [i \in 1..Len(s) |-> IF i = 1 THEN s[i] ELSE g[i - 1] \o s[i]]
               /\ FlattenSeq(s) = g[Len(s)]
    BY <1>0, <2>1 DEF FlattenSeq
  <2> QED BY <2>2 DEF Flattens
<1>2. PICK g : Flattens(s, g) /\ FlattenSeq(s) = g[Len(s)]
  BY <1>1
<1>3. SameUpTo(Len(s), f, g)
  <2>1. Len(s) <= Len(s) /\ SameUpTo(Len(s), s, s)
    BY <1>0 DEF SameUpTo
  <2> QED BY <1>0, <1>2, <2>1, FlattenAgrees
<1>4. Len(s) \in 1..Len(s)
  BY <1>0
<1> QED BY <1>2, <1>3, <1>4 DEF SameUpTo

LEMMA FlattenSeqType ==
  ASSUME NEW S, NEW s \in Seq(Seq(S))
  PROVE  FlattenSeq(s) \in Seq(S)
<1>1. CASE s = <<>>
  BY <1>1 DEF FlattenSeq
<1>2. CASE s # <<>>
  <2>1. PICK f \in [1..Len(s) -> Seq(S)] : Flattens(s, f)
    BY FlattenExists
  <2>2. Len(s) \in 1..Len(s)
    BY <1>2
  <2>3. FlattenSeq(s) = f[Len(s)]
    BY <1>2, <2>1, FlattenSeqIs
  <2> QED BY <2>1, <2>2, <2>3
<1> QED BY <1>1, <1>2

LEMMA FlattenSeqAppend ==
  ASSUME NEW S, NEW s \in Seq(Seq(S)), NEW x \in Seq(S)
  PROVE  FlattenSeq(Append(s, x)) = FlattenSeq(s) \o x
<1> DEFINE t == Append(s, x)
           n == Len(s)
<1>00. s \in Seq(Seq(S)) /\ Len(s) \in Nat /\ x \in Seq(S)
  OBVIOUS
<1>01. n \in Nat /\ t \in Seq(Seq(S)) /\ Len(t) = n + 1
  OBVIOUS
<1>02. t[n + 1] = x /\ \A i \in 1..n : t[i] = s[i]
  OBVIOUS
<1>03. t # <<>>
  <2> HIDE DEF t, n
  <2> QED BY <1>01
<1>0. /\ t \in Seq(Seq(S)) /\ t # <<>> /\ n \in Nat /\ Len(t) = n + 1 /\ t[n + 1] = x
      /\ \A i \in 1..n : t[i] = s[i]
  BY <1>01, <1>02, <1>03, Zenon
<1> HIDE DEF t, n
<1>1. PICK g \in [1..Len(t) -> Seq(S)] : Flattens(t, g)
  BY <1>0, FlattenExists
<1>2. FlattenSeq(t) = g[n + 1]
  BY <1>0, <1>1, FlattenSeqIs
<1>3. g[n + 1] = IF n = 0 THEN x ELSE g[n] \o x
  <2>1. /\ n + 1 \in 1..Len(t) /\ (n + 1 = 1 <=> n = 0) /\ (n + 1) - 1 = n
    BY <1>0
  <2>2. g[n + 1] = IF n + 1 = 1 THEN t[n + 1] ELSE g[(n + 1) - 1] \o t[n + 1]
    BY <1>1, <2>1 DEF Flattens
  <2>3. t[n + 1] = x
    BY <1>0
  <2> HIDE DEF t, n
  <2> QED BY <2>1, <2>2, <2>3
<1>4. CASE n = 0
  <2>1. FlattenSeq(s) = <<>>
    <3>1. s = <<>>
      BY <1>4 DEF n
    <3> QED BY <3>1 DEF FlattenSeq
  <2>2. <<>> \o x = x
    OBVIOUS
  <2> QED BY <1>2, <1>3, <1>4, <2>1, <2>2 DEF t
<1>5. CASE n # 0
  <2>1. PICK f \in [1..n -> Seq(S)] : Flattens(s, f)
    BY FlattenExists DEF n
  <2>2. FlattenSeq(s) = f[n]
    BY <1>5, <2>1, FlattenSeqIs DEF n
  <2>3. \A i \in 1..n : f[i] = g[i]
    <3>1. Len(s) \in Nat /\ Len(t) = Len(s) + 1 /\ \A i \in 1..Len(s) : s[i] = t[i]
      BY <1>0 DEF n
    <3>2. Len(t) \in Nat /\ Len(s) <= Len(t)
      BY <3>1
    <3>3. Flattens(s, f) /\ Flattens(t, g)
      BY <1>1, <2>1
    <3>4. Len(s) <= Len(s) /\ SameUpTo(Len(s), s, t)
      BY <3>1 DEF SameUpTo
    <3>5. SameUpTo(Len(s), f, g)
      BY <3>1, <3>2, <3>3, <3>4, FlattenAgrees
    <3> QED BY <3>5 DEF n, SameUpTo
  <2>4. f[n] = g[n]
    BY <1>0, <1>5, <2>3
  <2>5. FlattenSeq(t) = FlattenSeq(s) \o x
    BY <1>2, <1>3, <1>5, <2>2, <2>4, Zenon
  <2> QED BY <2>5, Zenon DEF t
<1> QED BY <1>0, <1>4, <1>5

LEMMA FlattenSeqSome ==
  ASSUME NEW S, NEW s \in Seq(Seq(S)), s # <<>>, s[Len(s)] # <<>>
  PROVE  FlattenSeq(s) # <<>>
<1> DEFINE n == Len(s)
<1>1. PICK f \in [1..n -> Seq(S)] : Flattens(s, f)
  BY FlattenExists
<1>2. FlattenSeq(s) = f[n]
  BY <1>1, FlattenSeqIs
<1>30. n \in Nat /\ n # 0 /\ \A i \in 1..n : s[i] \in Seq(S)
  OBVIOUS
<1>3. n \in Nat /\ n \in 1..n /\ s[n] \in Seq(S) /\ (n # 1 => n - 1 \in 1..n)
  <2> HIDE DEF n
  <2> QED BY <1>30
<1>4. f[n] = IF n = 1 THEN s[n] ELSE f[n - 1] \o s[n]
  BY <1>1, <1>3 DEF Flattens
<1> HIDE DEF n
<1>5. Len(s[n]) \in Nat /\ Len(s[n]) > 0
  <2>1. s[n] # <<>>
    BY DEF n
  <2> QED BY <1>3, <2>1
<1>6. n # 1 => Len(f[n - 1] \o s[n]) = Len(f[n - 1]) + Len(s[n]) /\ Len(f[n - 1]) \in Nat
  BY <1>1, <1>3
<1>7. Len(f[n]) > 0
  <2>1. CASE n = 1
    BY <1>4, <1>5, <2>1
  <2>2. CASE n # 1
    <3>1. f[n] = f[n - 1] \o s[n]
      BY <1>4, <2>2
    <3>2. Len(f[n]) = Len(f[n - 1]) + Len(s[n]) /\ Len(f[n - 1]) \in Nat
      BY <1>6, <2>2, <3>1
    <3> DEFINE a == Len(f[n - 1])
               b == Len(s[n])
    <3>3. a \in Nat /\ b \in Nat /\ b > 0 /\ Len(f[n]) = a + b
      BY <1>5, <3>2
    <3> HIDE DEF a, b
    <3> QED BY <3>3
  <2> QED BY <2>1, <2>2
<1> QED BY <1>2, <1>7

LEMMA BatchResults == \A b \in Batch : b.results \in Seq(Seq(Result))
BY DEF Batch

(* The actions of a record, and what another run adds to them. *)
LEMMA ActionsType ==
  ASSUME NEW recs \in Seq(Batch)
  PROVE  Actions(recs) \in Seq(Result)
<1>1. \A b \in 1..Len(recs) : recs[b].results \in Seq(Seq(Result))
  BY BatchResults
<1>2. \A b \in 1..Len(recs) : FlattenSeq(recs[b].results) \in Seq(Result)
  BY <1>1, FlattenSeqType
<1>3. [b \in 1..Len(recs) |-> FlattenSeq(recs[b].results)] \in Seq(Seq(Result))
  <2>1. Len(recs) \in Nat
    OBVIOUS
  <2>2. [b \in 1..Len(recs) |-> FlattenSeq(recs[b].results)] \in [1..Len(recs) -> Seq(Result)]
    BY <1>2
  <2> QED BY <2>1, <2>2, FunctionIsSeq
<1> QED BY <1>3, FlattenSeqType DEF Actions

LEMMA ActionsEmpty == Actions(<<>>) = <<>>
<1>1. [b \in 1..Len(<<>>) |-> FlattenSeq(<<>>[b].results)] = <<>>
  OBVIOUS
<1> QED BY <1>1 DEF Actions, FlattenSeq

LEMMA ActionsAppend ==
  ASSUME NEW recs \in Seq(Batch), NEW b \in Batch
  PROVE  /\ FlattenSeq(b.results) \in Seq(Result)
         /\ Actions(Append(recs, b)) = Actions(recs) \o FlattenSeq(b.results)
<1> DEFINE n    == Len(recs)
           more == Append(recs, b)
           x    == FlattenSeq(b.results)
           s    == [i \in 1..n |-> FlattenSeq(recs[i].results)]
           t    == [i \in 1..Len(more) |-> FlattenSeq(more[i].results)]
<1>1. n \in Nat /\ Len(more) = n + 1
  OBVIOUS
<1>2. more[n + 1] = b /\ \A i \in 1..n : more[i] = recs[i]
  OBVIOUS
<1>3. b.results \in Seq(Seq(Result)) /\ \A i \in 1..n : recs[i].results \in Seq(Seq(Result))
  BY BatchResults
<1>4. x \in Seq(Result) /\ \A i \in 1..n : FlattenSeq(recs[i].results) \in Seq(Result)
  BY <1>3, FlattenSeqType
<1>5. s \in Seq(Seq(Result)) /\ Len(s) = n /\ DOMAIN s = 1..n
  <2>1. s \in [1..n -> Seq(Result)]
    BY <1>4
  <2>2. s \in Seq(Seq(Result))
    BY <1>1, <2>1, FunctionIsSeq
  <2>3. Len(s) = n
    BY <1>1
  <2> QED BY <2>1, <2>2, <2>3
<1>6. t = Append(s, x)
  <2>1. t = [i \in 1..(n + 1) |-> FlattenSeq(more[i].results)]
    BY <1>1
  <2>2. \A i \in 1..(n + 1) : FlattenSeq(more[i].results) = IF i = n + 1 THEN x ELSE s[i]
    BY <1>1, <1>2
  <2>3. Append(s, x) = [i \in 1..(n + 1) |-> IF i = n + 1 THEN x ELSE s[i]]
    <3>1. n \in Nat /\ x \in Seq(Result)
      BY <1>1, <1>4
    <3> HIDE DEF s, x, n
    <3>2. Len(Append(s, x)) = n + 1 /\ Append(s, x) \in Seq(Seq(Result))
      BY <3>1, <1>5
    <3>3. \A i \in 1..(n + 1) : Append(s, x)[i] = IF i = n + 1 THEN x ELSE s[i]
      BY <3>1, <1>5
    <3>4. DOMAIN Append(s, x) = 1..(n + 1)
      BY <3>2
    <3>5. Append(s, x) = [i \in 1..(n + 1) |-> Append(s, x)[i]]
      <4> DEFINE u == Append(s, x)
      <4>1. u \in [1..(n + 1) -> Seq(Result)]
        <5> HIDE DEF u
        <5>0. u \in Seq(Seq(Result))
          BY <3>2 DEF u
        <5>1. u \in [1..Len(u) -> Seq(Result)]
          BY <5>0
        <5> QED BY <3>2, <5>1 DEF u
      <4> HIDE DEF u
      <4>2. u = [i \in 1..(n + 1) |-> u[i]]
        BY <4>1
      <4> QED BY <4>2 DEF u
    <3> QED BY <3>3, <3>5
  <2> HIDE DEF s, x, n, more, t
  <2> QED BY <2>1, <2>2, <2>3
<1>7. FlattenSeq(Append(s, x)) = FlattenSeq(s) \o x
  BY <1>4, <1>5, FlattenSeqAppend
<1>8. Actions(more) = FlattenSeq(t) /\ Actions(recs) = FlattenSeq(s)
  BY DEF Actions
<1> HIDE DEF s, x, n, more, t
<1>9. Actions(more) = Actions(recs) \o x /\ x \in Seq(Result)
  BY <1>4, <1>6, <1>7, <1>8
<1> QED BY <1>9 DEF more, x

-----------------------------------------------------------------------------
(* Every step of ObsNext is a step of the operator or of the sink's worker, *)
(* which the operator does not see, so that what holds of the operator     *)
(* holds here.                                                             *)

LEMMA ObsSteps ==
  ASSUME [ObsNext]_allVars
  PROVE  [Next]_vars \/ WriteFails
<1>1. CASE Outside
  BY <1>1, Zenon DEF Outside, Next
<1>2. CASE Poll
  <2>1. PolicyStep
    BY <1>2, Zenon DEF Poll, PolicyStep
  <2> QED BY <2>1 DEF Next
<1>3. CASE Trigger
  <2>1. PolicyStep
    BY <1>3, Zenon DEF Trigger, PolicyStep
  <2> QED BY <2>1 DEF Next
<1>4. CASE Resolve
  <2>1. AuditStep
    BY <1>4, Zenon DEF Resolve, AuditStep
  <2> QED BY <2>1 DEF Next
<1>5. CASE Housekeeping
  <2>1. AuditStep
    BY <1>5, Zenon DEF Housekeeping, AuditStep
  <2> QED BY <2>1 DEF Next
<1>6. CASE Restart
  BY <1>6, Zenon DEF Restart, Next
<1>7. CASE WriteBatch
  BY <1>7, Zenon DEF WriteBatch
<1>8. CASE UNCHANGED allVars
  BY <1>8, Zenon DEF allVars
<1> QED BY <1>1, <1>2, <1>3, <1>4, <1>5, <1>6, <1>7, <1>8 DEF ObsNext

Base == TypeOK /\ OwnerInv /\ GateInv /\ OutcomeInv

LEMMA InitBase == ObsInit => Base
BY InitType, InitOwner, InitGate, InitOutcome DEF ObsInit, Base

LEMMA WriteFailsFrame ==
  ASSUME WriteFails
  PROVE  /\ UNCHANGED <<now, policy, policyCache, policyFresh, audit, auditCache, auditFresh, edits>>
         /\ UNCHANGED <<pr, window, lim, fires, ar, heldRuns, heldRan, undos, closed>>
         /\ UNCHANGED <<req, reverts, rewrites, decider, rewritten, versions>>
         /\ faults < MaxFaults /\ faults' = faults + 1
BY DEF WriteFails, reconcilerVars, auditRecVars, approvalVars

LEMMA WriteFailsBase ==
  ASSUME Base, WriteFails
  PROVE  Base'
<1>1. TypeOK'
  <2>1. faults' \in 0..MaxFaults
    BY WriteFailsFrame, ClusterAssumption DEF Base, TypeOK, ClusterTypeOK
  <2> QED BY <2>1, WriteFailsFrame
          DEF Base, TypeOK, ClusterTypeOK, ReconcilerTypeOK, AuditRecTypeOK, ApprovalTypeOK
<1>2. OwnerInv'
  BY WriteFailsFrame, OwnerFrame DEF Base
<1>3. GateInv'
  BY WriteFailsFrame, GateFrame DEF Base
<1>4. OutcomeInv'
  <2>1. Elapsed
    BY WriteFailsFrame DEF Elapsed
  <2> QED BY <2>1, WriteFailsFrame, OutcomeFrame DEF Base
<1> QED BY <1>1, <1>2, <1>3, <1>4 DEF Base

LEMMA NextBase ==
  ASSUME Base, [ObsNext]_allVars
  PROVE  Base'
<1>1. CASE [Next]_vars
  BY <1>1, NextType, NextOwner, NextGate, NextOutcome DEF Base
<1>2. CASE WriteFails
  BY <1>2, WriteFailsBase
<1> QED BY <1>1, <1>2, ObsSteps

LEMMA FaultsGrow ==
  ASSUME [ObsNext]_allVars
  PROVE  faults' = faults \/ faults' = faults + 1
<1>1. CASE Clock \/ Informer \/ PolicyUser \/ Crash \/ UNCHANGED vars
  BY <1>1 DEF Clock, Tick, Informer, SyncPolicy, SyncAudit, PolicyUser, EditPolicy,
     DeletePolicy, RecreatePolicy, Crash, vars, clusterVars
<1>2. CASE PolicyStep
  BY <1>2 DEF PolicyStep, ForgetPolicy, AwaitApproval, CoolDown, RateLimited, EvaluationFails,
     Evaluate, ResolveFails, RunPipeline, WriteAudit, WriteGatedAudit, CreateRecord, MarkPending,
     Requeue, UpdateAuditStatus, StoreAudit, UpdatePolicyStatus, StorePolicy, CallEnds, clusterVars
<1>3. CASE AuditStep
  BY <1>3 DEF AuditStep, Sweep, DenyGate, ExpireGate, CloseGate, ReleaseGate, RecordHeld,
     SetPhase, StartCooldown, RefetchPolicy, Revert, SetReverted, UpdateAuditStatus,
     UpdateAuditSpec, StoreAudit, UpdatePolicyStatus, StorePolicy, CallEnds
<1>4. CASE AuditUser
  BY <1>4 DEF AuditUser, Submit, Commit, RequestRevert
<1>5. CASE WriteFails
  BY <1>5, WriteFailsFrame
<1> QED BY <1>1, <1>2, <1>3, <1>4, <1>5, ObsSteps DEF Next

LEMMA FaultFree ==
  ASSUME Base, [ObsNext]_allVars, faults' = 0
  PROVE  faults = 0
<1>1. faults \in Nat
  BY ClusterAssumption DEF Base, TypeOK, ClusterTypeOK
<1> QED BY <1>1, FaultsGrow

LEMMA CallFaults ==
  ASSUME Base, NEW fresh, NEW r \in Outcomes, CallEnds(fresh, r), r \notin {"ok", "conflict"}
  PROVE  faults' # 0
<1>1. faults \in Nat
  BY ClusterAssumption DEF Base, TypeOK, ClusterTypeOK
<1> QED BY <1>1 DEF CallEnds, Outcomes

-----------------------------------------------------------------------------
(* The gauge. *)

(* A write that succeeds opens one gate, or closes one. *)
LEMMA MarkPendingOpens ==
  ASSUME Base, MarkPending("ok")
  PROVE  /\ pr.a \in Audits /\ pr.a \notin OpenGates /\ OpenGates' = OpenGates \cup {pr.a}
         /\ audit'[pr.a].recs = audit[pr.a].recs /\ "policyReconciler" \in auditFresh[pr.a]
<1>0. TypeOK /\ OwnerInv /\ GateInv /\ OutcomeInv /\ audit \in [Audits -> AuditObj]
      /\ "ok" \in Outcomes
  BY DEF Base, TypeOK, ClusterTypeOK, Outcomes
<1>1. /\ pr.pc = "mark" /\ pr.a \in Audits /\ pr.copy \in AuditObj
      /\ "policyReconciler" \in auditFresh[pr.a] /\ audit[pr.a].live
      /\ audit' = [audit EXCEPT ![pr.a] =
                     WithStatus(audit[pr.a], [pr.copy EXCEPT !.phase = "Pending"])]
  BY <1>0, OutcomeTypes DEF MarkPending, UpdateAuditStatus, StoreAudit, CallEnds, HoldsCurrent, Applied
<1>2. audit[pr.a].phase = ""
  BY <1>0, <1>1 DEF OutcomeInv, MarkInv
<1>3. /\ audit'[pr.a].phase = "Pending" /\ audit'[pr.a].recs = audit[pr.a].recs
      /\ audit'[pr.a].live
  BY <1>0, <1>1 DEF WithStatus, AuditObj
<1>4. \A b \in Audits \ {pr.a} : audit'[b] = audit[b]
  BY <1>0, <1>1
<1> QED BY <1>1, <1>2, <1>3, <1>4 DEF OpenGates

LEMMA SetPhaseCloses ==
  ASSUME Base, SetPhase("ok")
  PROVE  /\ ar.a \in OpenGates /\ OpenGates' = OpenGates \ {ar.a}
         /\ audit'[ar.a].phase = ar.phase
         /\ audit'[ar.a].recs = audit[ar.a].recs /\ "auditReconciler" \in auditFresh[ar.a]
<1>0. TypeOK /\ OwnerInv /\ GateInv /\ OutcomeInv /\ audit \in [Audits -> AuditObj]
      /\ "ok" \in Outcomes
  BY DEF Base, TypeOK, ClusterTypeOK, Outcomes
<1>1. /\ ar.pc = "phase" /\ ar.a \in Audits /\ ar.copy \in AuditObj
      /\ ar.phase \in {"Approved", "Denied", "Expired"}
      /\ "auditReconciler" \in auditFresh[ar.a] /\ audit[ar.a].live
      /\ audit' = [audit EXCEPT ![ar.a] =
                     WithStatus(audit[ar.a], [ar.copy EXCEPT !.phase = ar.phase])]
  BY <1>0, OutcomeTypes DEF SetPhase, UpdateAuditStatus, StoreAudit, CallEnds, HoldsCurrent, Applied
<1>2. audit[ar.a].phase = "Pending"
  BY <1>0, <1>1 DEF OutcomeInv, WorkInv, Closing, Current
<1>3. audit'[ar.a].phase = ar.phase /\ audit'[ar.a].recs = audit[ar.a].recs
  BY <1>0, <1>1 DEF WithStatus, AuditObj
<1>4. \A b \in Audits \ {ar.a} : audit'[b] = audit[b]
  BY <1>0, <1>1
<1>5. ar.phase # "Pending"
  BY <1>1
<1> QED BY <1>1, <1>2, <1>3, <1>4, <1>5 DEF OpenGates

GaugeInv == pending \in Int /\ drifted \in BOOLEAN /\ GaugeFollowsGates

(* A step that leaves the gauge and the gates alone. *)
LEMMA GaugeKept ==
  ASSUME GaugeInv, UNCHANGED <<pending, drifted>>, OpenGates' = OpenGates
  PROVE  GaugeInv'
BY DEF GaugeInv, GaugeFollowsGates

LEMMA OpenFinite ==
  /\ IsFiniteSet(OpenGates) /\ Cardinality(OpenGates) \in Nat
  /\ OpenGates = {} => Cardinality(OpenGates) = 0
BY ClusterAssumption, FS_Subset, FS_CardinalityType, FS_EmptySet DEF OpenGates

LEMMA NextGauge ==
  ASSUME Base, GaugeInv, [ObsNext]_allVars
  PROVE  GaugeInv'
<1>0. TypeOK /\ GateInv /\ OutcomeInv
  BY DEF Base
<1>1. ASSUME UNCHANGED <<audit, pending, drifted>> PROVE GaugeInv'
  BY <1>0, <1>1, OpenGatesStay, GaugeKept
<1>2. CASE Outside
  <2>1. UNCHANGED <<pending, drifted>>
    BY <1>2, Zenon DEF Outside, obsVars
  <2>2. CASE Clock \/ Informer \/ PolicyUser
    <3>1. UNCHANGED audit
      BY <2>2 DEF Clock, Tick, Informer, SyncPolicy, SyncAudit, PolicyUser, EditPolicy,
         DeletePolicy, RecreatePolicy
    <3> QED BY <1>1, <2>1, <3>1
  <2>3. CASE AuditUser
    <3>1. \/ UNCHANGED audit \/ (\E u \in Users : Commit(u))
          \/ (\E a \in Audits : RequestRevert(a))
      BY <2>3 DEF AuditUser, Submit
    <3> QED BY <1>0, <2>1, <3>1, OpenGatesStay, GaugeKept
  <2> QED BY <1>2, <2>2, <2>3, Zenon DEF Outside
<1>3. CASE Poll
  <2>1. UNCHANGED <<pending, drifted>>
    BY <1>3, Zenon DEF Poll, obsVars
  <2>2. UNCHANGED audit
    BY <1>3 DEF Poll, ForgetPolicy, AwaitApproval, CoolDown, RateLimited, EvaluationFails,
       Evaluate, clusterVars
  <2> QED BY <1>1, <2>1, <2>2
<1>4. CASE Trigger
  <2>1. ASSUME ResolveFails \/ RunPipeline, UNCHANGED obsVars
        PROVE  GaugeInv'
    <3>1. UNCHANGED <<audit, pending, drifted>>
      BY <2>1 DEF ResolveFails, RunPipeline, clusterVars, obsVars
    <3> QED BY <1>1, <3>1
  <2>2. ASSUME NEW a \in Audits, NEW r \in Outcomes, WriteAudit(a, r) \/ WriteGatedAudit(a, r),
               UNCHANGED <<pending, drifted>>
        PROVE  GaugeInv'
    BY <1>0, <2>2, OpenGatesStay, GaugeKept
  <2>3. ASSUME NEW r \in Outcomes, Requeue(r), UNCHANGED obsVars
        PROVE  GaugeInv'
    <3>1. UNCHANGED <<audit, pending, drifted>>
      BY <2>3 DEF Requeue, obsVars
    <3> QED BY <1>1, <3>1
  <2>4. ASSUME NEW r \in Outcomes, MarkPending(r), GateOpened(r)
        PROVE  GaugeInv'
    <3>1. CASE r = "ok"
      <4>1. /\ pending' = pending + 1 /\ drifted' = drifted
            /\ pr.a \notin OpenGates /\ OpenGates' = OpenGates \cup {pr.a}
        BY <2>4, <3>1, MarkPendingOpens DEF GateOpened, GaugeInv
      <4>2. Cardinality(OpenGates') = Cardinality(OpenGates) + 1
        BY <4>1, OpenFinite, FS_AddElement
      <4> QED BY <4>1, <4>2, OpenFinite DEF GaugeInv, GaugeFollowsGates
    <3>2. CASE r = "lost"
      BY <2>4, <3>2 DEF GateOpened, GaugeInv, GaugeFollowsGates
    <3>3. CASE r \notin {"ok", "lost"}
      <4>1. OpenGates' = OpenGates
        BY <1>0, <2>4, <3>3, MarkOpens
      <4>2. UNCHANGED <<pending, drifted>>
        BY <2>4, <3>3 DEF GateOpened, GaugeInv
      <4> QED BY <4>1, <4>2, GaugeKept
    <3> QED BY <3>1, <3>2, <3>3
  <2>5. ASSUME UNCHANGED obsVars PROVE UNCHANGED <<pending, drifted>>
    BY <2>5 DEF obsVars
  <2> QED BY <1>4, <2>1, <2>2, <2>3, <2>4, <2>5, Zenon DEF Trigger
<1>5. CASE Resolve
  <2>1. ASSUME NEW a \in Audits, DenyGate(a) \/ ExpireGate(a) \/ ReleaseGate(a), UNCHANGED obsVars
        PROVE  GaugeInv'
    <3>1. UNCHANGED <<audit, pending, drifted>>
      BY <2>1 DEF DenyGate, ExpireGate, CloseGate, ReleaseGate, obsVars
    <3> QED BY <1>1, <3>1
  <2>2. ASSUME NEW r \in Outcomes, RecordHeld(r), UNCHANGED obsVars
        PROVE  GaugeInv'
    BY <1>0, <2>2, OpenGatesStay, GaugeKept DEF obsVars
  <2>3. ASSUME NEW r \in Outcomes, StartCooldown(r), UNCHANGED obsVars
        PROVE  GaugeInv'
    <3>1. UNCHANGED <<audit, pending, drifted>>
      BY <2>3 DEF StartCooldown, obsVars
    <3> QED BY <1>1, <3>1
  <2>4. ASSUME RefetchPolicy, UNCHANGED obsVars
        PROVE  GaugeInv'
    <3>1. UNCHANGED <<audit, pending, drifted>>
      BY <2>4 DEF RefetchPolicy, obsVars
    <3> QED BY <1>1, <3>1
  <2>5. ASSUME NEW r \in Outcomes, SetPhase(r), GateResolved(r)
        PROVE  GaugeInv'
    <3>1. CASE r = "ok"
      <4>1. /\ pending' = pending - 1 /\ drifted' = drifted
            /\ ar.a \in OpenGates /\ OpenGates' = OpenGates \ {ar.a}
        BY <2>5, <3>1, SetPhaseCloses DEF GateResolved, GaugeInv
      <4>2. Cardinality(OpenGates') = Cardinality(OpenGates) - 1
        BY <4>1, OpenFinite, FS_RemoveElement
      <4> QED BY <4>1, <4>2, OpenFinite DEF GaugeInv, GaugeFollowsGates
    <3>2. CASE r = "lost"
      BY <2>5, <3>2 DEF GateResolved, GaugeInv, GaugeFollowsGates
    <3>3. CASE r \notin {"ok", "lost"}
      <4>1. OpenGates' = OpenGates
        BY <1>0, <2>5, <3>3, PhaseCloses
      <4>2. UNCHANGED <<pending, drifted>>
        BY <2>5, <3>3 DEF GateResolved, GaugeInv
      <4> QED BY <4>1, <4>2, GaugeKept
    <3> QED BY <3>1, <3>2, <3>3
  <2> QED BY <1>5, <2>1, <2>2, <2>3, <2>4, <2>5, Zenon DEF Resolve
<1>6. CASE Housekeeping
  <2>1. ASSUME NEW a \in Audits, Sweep(a), drifted' = (drifted \/ audit[a].phase = "Pending"),
               UNCHANGED pending
        PROVE  GaugeInv'
    <3>1. CASE audit[a].phase = "Pending"
      BY <2>1, <3>1 DEF GaugeInv, GaugeFollowsGates
    <3>2. CASE audit[a].phase # "Pending"
      <4>1. a \notin OpenGates /\ OpenGates' = OpenGates \ {a}
        BY <1>0, <2>1, <3>2, SweepCloses DEF OpenGates
      <4>2. UNCHANGED <<pending, drifted>>
        BY <2>1, <3>2 DEF GaugeInv
      <4> QED BY <4>1, <4>2, GaugeKept
    <3> QED BY <3>1, <3>2
  <2>2. ASSUME NEW a \in Audits, Revert(a), UNCHANGED obsVars
        PROVE  GaugeInv'
    <3>1. UNCHANGED <<audit, pending, drifted>>
      BY <2>2 DEF Revert, obsVars
    <3> QED BY <1>1, <3>1
  <2>3. ASSUME NEW r \in Outcomes, SetReverted(r), UNCHANGED <<pending, drifted>>
        PROVE  GaugeInv'
    BY <1>0, <2>3, OpenGatesStay, GaugeKept
  <2> QED BY <1>6, <2>1, <2>2, <2>3, Zenon DEF Housekeeping
<1>7. CASE Restart
  <2>1. pending' = 0 /\ drifted' = (OpenGates # {}) /\ UNCHANGED audit
    BY <1>7 DEF Restart, Crash
  <2>2. OpenGates' = OpenGates
    BY <2>1 DEF OpenGates
  <2>3. CASE OpenGates = {}
    <3>1. pending' = 0 /\ drifted' = FALSE
      BY <2>1, <2>3
    <3>2. drifted' \in BOOLEAN
      BY <3>1, Zenon
    <3> QED BY <2>2, <2>3, <3>1, <3>2, OpenFinite DEF GaugeInv, GaugeFollowsGates
  <2>4. CASE OpenGates # {}
    <3>1. pending' = 0 /\ drifted' = TRUE
      BY <2>1, <2>4
    <3>2. drifted' \in BOOLEAN
      BY <3>1, Zenon
    <3> QED BY <3>1, <3>2 DEF GaugeInv, GaugeFollowsGates
  <2> QED BY <2>3, <2>4
<1>8. CASE WriteBatch \/ WriteFails \/ UNCHANGED allVars
  <2>1. UNCHANGED <<audit, pending, drifted>>
    BY <1>8 DEF WriteBatch, WriteFails, allVars, obsVars, vars, clusterVars
  <2> QED BY <1>1, <2>1
<1> QED BY <1>2, <1>3, <1>4, <1>5, <1>6, <1>7, <1>8 DEF ObsNext

LEMMA InitGauge == ObsInit => GaugeInv
<1> SUFFICES ASSUME ObsInit PROVE GaugeInv
  OBVIOUS
<1>1. \A a \in Audits : audit[a].phase # "Pending"
  BY DEF ObsInit, Init, ClusterInit, NoRecord
<1>2. OpenGates = {}
  BY <1>1 DEF OpenGates
<1>3. pending = 0 /\ drifted = FALSE
  BY DEF ObsInit
<1>4. drifted \in BOOLEAN
  BY <1>3, Zenon
<1> QED BY <1>2, <1>3, <1>4, OpenFinite DEF GaugeInv, GaugeFollowsGates

(* The gauge of waiting gates (RecordGateOpened, RecordGateResolved) is    *)
(* the number of gates open, through conflicts, failed and retried writes, *)
(* client edits and any staleness of the caches, until a write's answer is *)
(* lost, the operator restarts with gates open or a waiting gate is swept. *)
THEOREM GaugeCountsGates == ObsSpec => []GaugeFollowsGates
<1>1. Base /\ [ObsNext]_allVars => Base'
  BY NextBase
<1>2. Base /\ GaugeInv /\ [ObsNext]_allVars => GaugeInv'
  BY NextGauge
<1>3. GaugeInv => GaugeFollowsGates
  BY DEF GaugeInv
<1> QED BY <1>1, <1>2, <1>3, InitBase, InitGauge, PTL DEF ObsSpec

(* A run that has something to run has a result. *)
LEMMA RunRangeSome ==
  ASSUME NEW p \in Seq(Action), NEW from \in Nat, from < Len(p), NEW outcome, NEW undone
  PROVE  RunRange(p, from, Len(p), outcome, undone) # <<>>
<1> DEFINE to   == Len(p)
           last == LastRun(p, from, to, outcome)
           run  == RunRange(p, from, to, outcome, undone)
<1>1. to \in Nat /\ from <= to /\ to <= Len(p)
  OBVIOUS
<1>2. last \in Int /\ from <= last
  <2>1. last \in Int /\ (Aborts(p, from, to, outcome) # {} => last \in Aborts(p, from, to, outcome))
    BY <1>1, LastRunInRange
  <2>2. CASE Aborts(p, from, to, outcome) # {}
    BY <2>1, <2>2 DEF Aborts
  <2>3. CASE Aborts(p, from, to, outcome) = {}
    <3>1. last = to - 1
      BY <2>3 DEF LastRun
    <3> HIDE DEF last
    <3> QED BY <1>1, <3>1
  <2> QED BY <2>1, <2>2, <2>3
<1>3. DOMAIN run = 1..(last - from + 1)
  BY DEF RunRange
<1> HIDE DEF last, run
<1>4. 1 \in DOMAIN run
  BY <1>2, <1>3
<1>5. run # <<>>
  BY <1>4
<1> QED BY <1>5 DEF run

(* What releaseGate is about to write: the record as cached, and the       *)
(* results, target by target, of the actions the policy has behind it.     *)
ReleaseRun(a, rs) ==
  /\ rs \in Seq(Seq(Result)) /\ Len(rs) \in Nat /\ Len(rs) # 0
  /\ auditCache[a].index < Len(policyCache.actions) => \A i \in 1..Len(rs) : rs[i] # <<>>
  /\ ar'.pc = "held" /\ ar'.a = a
  /\ ar'.copy = [auditCache[a] EXCEPT !.recs = Append(@, [kind |-> "released", results |-> rs])]

LEMMA ReleaseRuns ==
  ASSUME TypeOK, NEW a \in Audits, ReleaseGate(a)
  PROVE  \E rs : ReleaseRun(a, rs)
<1> DEFINE rec == auditCache[a]
           p   == policyCache.actions
           n   == Len(p)
           ts  == Resolved(rec.targets)
           res(o) == [i \in 1..Len(ts) |-> RunRange(p, rec.index, n, o[i], rec.index..(n - 1))]
<1>1. rec \in AuditObj /\ policyCache \in PolicyObj
  BY DEF TypeOK, ClusterTypeOK
<1>2. /\ p \in Seq(Action) /\ n \in Nat /\ rec.index \in Nat
      /\ Len(ts) \in Nat /\ Len(ts) # 0
  <2>1. p \in Seq(Action) /\ rec.index \in Nat /\ rec.targets \in Seq(Targets)
    BY <1>1, ClusterAssumption DEF PolicyObj, AuditObj
  <2> HIDE DEF rec
  <2>2. CASE rec.targets = <<>>
    BY <2>1, <2>2 DEF Resolved
  <2>3. CASE rec.targets # <<>>
    <3>1. ts = rec.targets
      BY <2>3 DEF Resolved
    <3> HIDE DEF ts
    <3> QED BY <2>1, <2>3, <3>1
  <2> QED BY <2>1, <2>2, <2>3
<1>3. rec.index <= n
  BY DEF ReleaseGate, Resumable
<1>4. PICK o \in [1..Len(ts) -> [rec.index..(n - 1) -> HeldOutcomes]] :
        ar' = [pc |-> "held", a |-> a, phase |-> "Approved", pol |-> policyCache,
               copy |-> [rec EXCEPT !.recs = Append(@, [kind |-> "released", results |-> res(o)])]]
  BY DEF ReleaseGate
<1> DEFINE rs == res(o)
<1>5. ASSUME NEW i \in 1..Len(ts)
      PROVE  /\ rs[i] = RunRange(p, rec.index, n, o[i], rec.index..(n - 1))
             /\ rs[i] \in Seq(Result)
             /\ rec.index < n => rs[i] # <<>>
  <2>1. o[i] \in [rec.index..(n - 1) -> Statuses]
    BY RetentionAssumption
  <2>2. n <= Len(p)
    BY <1>2
  <2>3. rs[i] = RunRange(p, rec.index, n, o[i], rec.index..(n - 1))
    OBVIOUS
  <2> HIDE DEF rs, res, rec, p, n
  <2>4. rs[i] \in Seq(Result)
    <3>1. RunRange(p, rec.index, n, o[i], rec.index..(n - 1)) \in Seq(Result)
      BY <1>2, <1>3, <2>1, <2>2, RunRangeType
    <3> QED BY <2>3, <3>1
  <2>5. rec.index < n => rs[i] # <<>>
    <3>1. rec.index \in Nat /\ p \in Seq(Action) /\ n = Len(p)
      BY <1>2 DEF n
    <3> QED BY <2>3, <3>1, RunRangeSome
  <2> QED BY <2>3, <2>4, <2>5
<1>6. rs \in [1..Len(ts) -> Seq(Result)]
  BY <1>5
<1>7. rs \in Seq(Seq(Result)) /\ Len(rs) = Len(ts)
  <2>1. DOMAIN rs = 1..Len(ts)
    OBVIOUS
  <2> HIDE DEF rs, res, rec, p, ts
  <2>2. rs \in Seq(Seq(Result))
    BY <1>2, <1>6, FunctionIsSeq
  <2> QED BY <1>2, <2>1, <2>2
<1>8. /\ ar'.pc = "held" /\ ar'.a = a
      /\ ar'.copy = [rec EXCEPT !.recs = Append(@, [kind |-> "released", results |-> rs])]
  BY <1>4
<1>9. rec.index < n => \A i \in 1..Len(rs) : rs[i] # <<>>
  BY <1>5, <1>7
<1> HIDE DEF rs, res, ts
<1>10. ReleaseRun(a, rs)
  BY <1>2, <1>7, <1>8, <1>9 DEF ReleaseRun
<1> QED BY <1>10

-----------------------------------------------------------------------------
(* The rows a reconcile forwards are built from its working copy.  HoldsInv *)
(* says what that copy has on its actions as long as the server would      *)
(* accept it: what the record has, or in the first write of releaseGate    *)
(* and closeGate one run more.                                             *)

Extends(more, recs) == \E b \in Batch : more = Append(recs, b)

MarkHolds ==
  pr.pc = "mark" /\ "policyReconciler" \in auditFresh[pr.a] => pr.copy.recs = audit[pr.a].recs

WorkHolds ==
  /\ ar.pc \in {"phase", "reverted"} /\ "auditReconciler" \in auditFresh[ar.a] =>
       ar.copy.recs = audit[ar.a].recs
  /\ ar.pc = "held" /\ "auditReconciler" \in auditFresh[ar.a] =>
       Extends(ar.copy.recs, audit[ar.a].recs)

HoldsInv == MarkHolds /\ WorkHolds

LEMMA InitHolds == ObsInit => HoldsInv
BY DEF ObsInit, Init, ReconcilerInit, AuditRecInit, PrIdle, ArIdle, HoldsInv, MarkHolds, WorkHolds

(* A step that writes no record and begins no work on one. *)
LEMMA HoldsFrame ==
  ASSUME TypeOK, HoldsInv, UNCHANGED audit,
         UNCHANGED pr \/ pr'.pc # "mark",
         UNCHANGED ar \/ ar'.pc \notin {"held", "phase", "reverted"},
         \A b \in Audits : \A c \in {"policyReconciler", "auditReconciler"} :
           c \in auditFresh'[b] => c \in auditFresh[b]
  PROVE  HoldsInv'
<1>1. MarkHolds'
  BY OutcomeTypes DEF HoldsInv, MarkHolds
<1>2. WorkHolds'
  <2>1. CASE ar'.pc \notin {"held", "phase", "reverted"}
    BY <2>1 DEF WorkHolds
  <2>2. CASE UNCHANGED ar
    BY <2>2, OutcomeTypes DEF HoldsInv, WorkHolds
  <2> QED BY <2>1, <2>2
<1> QED BY <1>1, <1>2 DEF HoldsInv

(* A write that ends the writer's work on the record. *)
LEMMA HoldsWritten ==
  ASSUME TypeOK, HoldsInv, NEW a \in Audits, NEW new, NEW F,
         audit' = [audit EXCEPT ![a] = new], auditFresh' = [auditFresh EXCEPT ![a] = F],
         UNCHANGED pr \/ pr'.pc # "mark", "policyReconciler" \in F => pr'.pc # "mark",
         UNCHANGED ar \/ ar'.pc \notin {"held", "phase", "reverted"},
         "auditReconciler" \in F => ar'.pc \notin {"held", "phase", "reverted"}
  PROVE  HoldsInv'
<1>0. audit \in [Audits -> AuditObj] /\ auditFresh \in [Audits -> SUBSET AuditCopies]
  BY OutcomeTypes
<1>1. /\ auditFresh'[a] = F
      /\ \A b \in Audits \ {a} : audit'[b] = audit[b] /\ auditFresh'[b] = auditFresh[b]
  BY <1>0
<1>2. MarkHolds'
  BY <1>1, OutcomeTypes DEF HoldsInv, MarkHolds
<1>3. WorkHolds'
  <2>1. CASE ar'.pc \notin {"held", "phase", "reverted"}
    BY <2>1 DEF WorkHolds
  <2>2. CASE UNCHANGED ar
    <3>1. CASE ar.pc \in {"held", "phase", "reverted"} /\ ar.a # a
      <4>1. ar.a \in Audits /\ audit'[ar.a] = audit[ar.a] /\ auditFresh'[ar.a] = auditFresh[ar.a]
        BY <1>1, <3>1, OutcomeTypes
      <4> QED BY <2>2, <4>1 DEF HoldsInv, WorkHolds
    <3>2. CASE ar.pc \in {"held", "phase", "reverted"} /\ ar.a = a
      BY <1>1, <2>2, <3>2 DEF WorkHolds
    <3>3. CASE ar.pc \notin {"held", "phase", "reverted"}
      BY <2>2, <3>3 DEF WorkHolds
    <3> QED BY <3>1, <3>2, <3>3
  <2> QED BY <2>1, <2>2
<1> QED BY <1>2, <1>3 DEF HoldsInv

LEMMA CreateHolds ==
  ASSUME Base, HoldsInv, NEW a \in Audits, NEW r \in Outcomes, UNCHANGED ar,
         WriteAudit(a, r) \/ WriteGatedAudit(a, r)
  PROVE  HoldsInv'
<1>0. TypeOK /\ OutcomeInv
  BY DEF Base
<1>1. /\ CreateRecord(a, r)
      /\ pr'.pc = "requeue" \/ (r = "ok" /\ pr'.pc = "mark" /\ pr'.a = a /\ pr'.copy = NewRecord)
  BY DEF WriteAudit, WriteGatedAudit, PrRequeue
<1>2. CASE UNCHANGED <<audit, auditFresh>>
  <2>1. r # "ok" \/ pr'.pc = "requeue" \/ audit'[a] = NewRecord
    BY <1>1, OutcomeTypes, <1>0 DEF CreateRecord, Applied
  <2>2. UNCHANGED pr \/ pr'.pc # "mark" \/ audit'[pr'.a].recs = pr'.copy.recs
    BY <1>1, <2>1
  <2>3. WorkHolds'
    BY <1>2, Zenon DEF HoldsInv, WorkHolds
  <2>4. MarkHolds'
    BY <1>2, <2>2 DEF HoldsInv, MarkHolds
  <2> QED BY <2>3, <2>4 DEF HoldsInv
<1>3. CASE ~UNCHANGED <<audit, auditFresh>>
  <2>1. /\ audit' = [audit EXCEPT ![a] = NewRecord]
        /\ auditFresh' = [auditFresh EXCEPT ![a] = IF r = "ok" THEN {"policyReconciler"} ELSE {}]
    BY <1>1, <1>3 DEF CreateRecord
  <2>2. CASE pr'.pc = "requeue"
    <3>1. PICK F \in {{"policyReconciler"}, {}} : auditFresh' = [auditFresh EXCEPT ![a] = F]
      BY <2>1
    <3> QED BY <1>0, <2>1, <2>2, <3>1, HoldsWritten
  <2>3. CASE r = "ok" /\ pr'.pc = "mark" /\ pr'.a = a /\ pr'.copy = NewRecord
    <3>0. audit \in [Audits -> AuditObj] /\ auditFresh \in [Audits -> SUBSET AuditCopies]
      BY <1>0, OutcomeTypes
    <3>1. /\ audit'[a] = NewRecord /\ auditFresh'[a] = {"policyReconciler"}
          /\ \A b \in Audits \ {a} : audit'[b] = audit[b] /\ auditFresh'[b] = auditFresh[b]
      BY <2>1, <2>3, <3>0
    <3>2. MarkHolds'
      BY <2>3, <3>1 DEF MarkHolds
    <3>3. WorkHolds'
      <4>1. CASE ar.pc \in {"held", "phase", "reverted"} /\ ar.a # a
        <5>1. ar.a \in Audits /\ audit'[ar.a] = audit[ar.a] /\ auditFresh'[ar.a] = auditFresh[ar.a]
          BY <1>0, <3>1, <4>1, OutcomeTypes
        <5> QED BY <5>1 DEF HoldsInv, WorkHolds
      <4>2. CASE ar.pc \in {"held", "phase", "reverted"} /\ ar.a = a
        BY <3>1, <4>2 DEF WorkHolds
      <4>3. CASE ar.pc \notin {"held", "phase", "reverted"}
        BY <4>3 DEF WorkHolds
      <4> QED BY <4>1, <4>2, <4>3
    <3> QED BY <3>2, <3>3 DEF HoldsInv
  <2> QED BY <1>1, <2>2, <2>3
<1> QED BY <1>2, <1>3

(* Work on a record begins with what is in the cache. *)
LEMMA ReadsHold ==
  ASSUME Base, HoldsInv, NEW a \in Audits, UNCHANGED pr,
         DenyGate(a) \/ ExpireGate(a) \/ ReleaseGate(a) \/ Revert(a)
  PROVE  HoldsInv'
<1>0. TypeOK /\ OutcomeInv /\ audit \in [Audits -> AuditObj] /\ auditCache \in [Audits -> AuditObj]
  BY OutcomeTypes DEF Base
<1>1. UNCHANGED audit /\ ReadAudit(a)
  BY DEF DenyGate, ExpireGate, CloseGate, ReleaseGate, Revert
<1>2. /\ \A b \in Audits : "policyReconciler" \in auditFresh'[b] => "policyReconciler" \in auditFresh[b]
      /\ "auditReconciler" \in auditFresh'[a] => auditCache[a].recs = audit[a].recs
  BY <1>0, <1>1, ReadAuditEffect DEF OutcomeInv, GateRecordInv
<1>3. MarkHolds'
  BY <1>0, <1>1, <1>2, OutcomeTypes DEF HoldsInv, MarkHolds
<1>4. /\ ar'.pc \in {"held", "phase", "reverted"} /\ ar'.a = a
      /\ ar'.pc \in {"phase", "reverted"} => ar'.copy.recs = auditCache[a].recs
      /\ ar'.pc = "held" => Extends(ar'.copy.recs, auditCache[a].recs)
  <2>0. auditCache[a] \in AuditObj
    BY <1>0
  <2>1. ASSUME NEW b \in Batch
        PROVE  Extends([auditCache[a] EXCEPT !.recs = Append(@, b)].recs, auditCache[a].recs)
    <3>1. [auditCache[a] EXCEPT !.recs = Append(@, b)].recs = Append(auditCache[a].recs, b)
      BY <2>0 DEF AuditObj
    <3> QED BY <3>1 DEF Extends
  <2>2. CASE DenyGate(a) \/ ExpireGate(a)
    <3>1. PICK phase : CloseGate(a, phase)
      BY <2>2 DEF DenyGate, ExpireGate
    <3>2. SkippedBatch(auditCache[a]) \in Batch
      BY <2>0, SkippedBatchType
    <3>3. \/ ar' = [pc |-> "held", a |-> a, phase |-> phase, copy |->
                      [auditCache[a] EXCEPT !.recs = Append(@, SkippedBatch(auditCache[a]))]]
          \/ ar' = [pc |-> "phase", a |-> a, phase |-> phase, copy |-> auditCache[a]]
      BY <3>1 DEF CloseGate
    <3>4. CASE ar' = [pc |-> "phase", a |-> a, phase |-> phase, copy |-> auditCache[a]]
      BY <3>4
    <3>5. CASE ar' = [pc |-> "held", a |-> a, phase |-> phase, copy |->
                       [auditCache[a] EXCEPT !.recs = Append(@, SkippedBatch(auditCache[a]))]]
      <4>1. /\ ar'.pc = "held" /\ ar'.a = a
            /\ ar'.copy = [auditCache[a] EXCEPT !.recs = Append(@, SkippedBatch(auditCache[a]))]
        BY <3>5
      <4>2. Extends(ar'.copy.recs, auditCache[a].recs)
        BY <2>1, <3>2, <4>1
      <4> QED BY <4>1, <4>2
    <3> QED BY <3>3, <3>4, <3>5
  <2>3. CASE Revert(a)
    BY <2>3 DEF Revert
  <2>4. CASE ReleaseGate(a)
    <3>1. PICK rs : ReleaseRun(a, rs)
      BY <1>0, <2>4, ReleaseRuns
    <3>2. [kind |-> "released", results |-> rs] \in Batch
      BY <3>1 DEF ReleaseRun, Batch
    <3>3. Extends([auditCache[a] EXCEPT !.recs = Append(@, [kind |-> "released", results |-> rs])].recs,
                  auditCache[a].recs)
      BY <2>1, <3>2
    <3>4. /\ ar'.pc = "held" /\ ar'.a = a
          /\ ar'.copy = [auditCache[a] EXCEPT !.recs =
                           Append(@, [kind |-> "released", results |-> rs])]
      BY <3>1 DEF ReleaseRun
    <3> QED BY <3>3, <3>4
  <2> QED BY <2>2, <2>3, <2>4
<1>5. WorkHolds'
  BY <1>1, <1>2, <1>4 DEF WorkHolds
<1> QED BY <1>3, <1>5 DEF HoldsInv

LEMMA AuditWritesHold ==
  ASSUME Base, HoldsInv, NEW r \in Outcomes, UNCHANGED pr, RecordHeld(r) \/ SetPhase(r)
  PROVE  HoldsInv'
<1>0. TypeOK /\ OutcomeInv /\ GateInv /\ audit \in [Audits -> AuditObj]
      /\ auditFresh \in [Audits -> SUBSET AuditCopies]
  BY OutcomeTypes DEF Base
<1>1. CASE SetPhase(r)
  <2>1. ar'.pc \in {"idle", "cooldown", "refetch"}
    BY <1>1 DEF SetPhase, ArIdle
  <2>2. CASE UNCHANGED <<audit, auditFresh>>
    BY <1>0, <2>1, <2>2, HoldsFrame
  <2>3. CASE ~UNCHANGED <<audit, auditFresh>>
    <3>1. PICK new \in AuditObj, F \in {{"auditReconciler"}, {}} :
            /\ ar.a \in Audits
            /\ audit' = [audit EXCEPT ![ar.a] = new]
            /\ auditFresh' = [auditFresh EXCEPT ![ar.a] = F]
      BY <1>0, <1>1, <2>3, SetPhaseEffect
    <3> QED BY <1>0, <2>1, <3>1, HoldsWritten
  <2> QED BY <2>2, <2>3
<1>2. CASE RecordHeld(r)
  <2>0. ar.pc = "held" /\ ar.a \in Audits /\ ar.copy \in AuditObj
    BY <1>0, <1>2, OutcomeTypes DEF RecordHeld
  <2>1. ar' = ArIdle \/ (r = "ok" /\ ar' = [ar EXCEPT !.pc = "phase"])
    BY <1>2 DEF RecordHeld
  <2>2. CASE UNCHANGED <<audit, auditFresh>> /\ r # "ok"
    <3>1. ar'.pc = "idle"
      BY <2>1, <2>2 DEF ArIdle
    <3> QED BY <1>0, <2>2, <3>1, HoldsFrame
  <2>3. CASE ~(UNCHANGED <<audit, auditFresh>> /\ r # "ok")
    <3>1. PICK new \in AuditObj, F \in {{"auditReconciler"}, {}} :
            /\ audit' = [audit EXCEPT ![ar.a] = new]
            /\ auditFresh' = [auditFresh EXCEPT ![ar.a] = F]
            /\ new.recs = ar.copy.recs
      BY <1>0, <1>2, <2>3, RecordHeldEffect
    <3>2. CASE ar' = ArIdle
      <4>1. ar'.pc = "idle"
        BY <3>2 DEF ArIdle
      <4> QED BY <1>0, <2>0, <3>1, <4>1, HoldsWritten
    <3>3. CASE ar' = [ar EXCEPT !.pc = "phase"]
      <4>0. ar'.pc = "phase" /\ ar'.a = ar.a /\ ar'.copy = ar.copy
        <5>1. ar \in ArState
          BY <1>0 DEF TypeOK, AuditRecTypeOK
        <5> QED BY <2>0, <3>3, <5>1 DEF ArState
      <4>1. /\ audit'[ar.a].recs = ar.copy.recs /\ "policyReconciler" \notin auditFresh'[ar.a]
            /\ \A b \in Audits \ {ar.a} : audit'[b] = audit[b] /\ auditFresh'[b] = auditFresh[b]
        BY <1>0, <2>0, <3>1
      <4>2. MarkHolds'
        BY <1>0, <4>1, OutcomeTypes DEF HoldsInv, MarkHolds
      <4>3. WorkHolds'
        BY <4>0, <4>1 DEF WorkHolds
      <4> QED BY <4>2, <4>3 DEF HoldsInv
    <3> QED BY <2>1, <3>2, <3>3
  <2> QED BY <2>2, <2>3
<1> QED BY <1>1, <1>2

LEMMA QuietHolds ==
  ASSUME Base, HoldsInv, UNCHANGED pr,
         \/ \E a \in Audits : Sweep(a) \/ (RequestRevert(a) /\ UNCHANGED ar)
         \/ \E r \in Outcomes : SetReverted(r)
         \/ \E u \in Users : Commit(u) /\ UNCHANGED ar
  PROVE  HoldsInv'
<1>0. TypeOK /\ OutcomeInv /\ GateInv
  BY DEF Base
<1>1. UNCHANGED ar \/ ar'.pc = "idle"
  BY DEF Sweep, SetReverted, ArIdle, auditRecVars
<1>2. CASE UNCHANGED <<audit, auditFresh>>
  BY <1>0, <1>1, <1>2, HoldsFrame
<1>3. CASE ~UNCHANGED <<audit, auditFresh>>
  <2>1. \E a \in Audits, new \in AuditObj, F \in {{"auditReconciler"}, {}} :
          /\ audit' = [audit EXCEPT ![a] = new]
          /\ auditFresh' = [auditFresh EXCEPT ![a] = F]
          /\ F = {} \/ ar'.pc = "idle"
    <3>1. CASE \E u \in Users : Commit(u)
      <4>1. \E a \in Audits, new \in AuditObj :
              /\ audit' = [audit EXCEPT ![a] = new]
              /\ auditFresh' = [auditFresh EXCEPT ![a] = {}]
        BY <1>0, <1>3, <3>1, CommitEffect
      <4> QED BY <4>1
    <3>2. CASE ~\E u \in Users : Commit(u)
      BY <1>0, <1>3, <3>2, QuietWriteEffect
    <3> QED BY <3>1, <3>2
  <2> QED BY <1>0, <1>1, <2>1, HoldsWritten
<1> QED BY <1>2, <1>3

LEMMA NextHolds ==
  ASSUME Base, HoldsInv, [ObsNext]_allVars
  PROVE  HoldsInv'
<1>0. TypeOK /\ OutcomeInv /\ GateInv
  BY DEF Base
<1>1. CASE Clock \/ Informer \/ PolicyUser
  <2>1. UNCHANGED <<pr, ar>>
    BY <1>1, Zenon DEF Clock, Informer, PolicyUser, ClusterFrame, UserFrame, reconcilerVars,
       auditRecVars
  <2>2. UNCHANGED audit /\ \A b \in Audits : \A c \in {"policyReconciler", "auditReconciler"} :
          c \in auditFresh'[b] => c \in auditFresh[b]
    BY <1>0, <1>1, OutcomeTypes DEF Clock, Informer, PolicyUser, Tick, SyncPolicy, SyncAudit,
       EditPolicy, DeletePolicy, RecreatePolicy
  <2> QED BY <1>0, <2>1, <2>2, HoldsFrame
<1>2. CASE PolicyStep
  <2>1. UNCHANGED ar
    BY <1>2, Zenon DEF PolicyStep, PolicyFrame, auditRecVars
  <2>2. ASSUME NEW a \in Audits, NEW r \in Outcomes, WriteAudit(a, r) \/ WriteGatedAudit(a, r)
        PROVE  HoldsInv'
    BY <2>1, <2>2, CreateHolds
  <2>3. ASSUME NEW r \in Outcomes, MarkPending(r) PROVE HoldsInv'
    <3>1. pr'.pc = "requeue"
      BY <2>3 DEF MarkPending, PrRequeue
    <3>2. CASE UNCHANGED <<audit, auditFresh>>
      BY <1>0, <2>1, <3>1, <3>2, HoldsFrame
    <3>3. CASE ~UNCHANGED <<audit, auditFresh>>
      <4>1. PICK new \in AuditObj, F \in {{"policyReconciler"}, {}} :
              /\ pr.a \in Audits
              /\ audit' = [audit EXCEPT ![pr.a] = new]
              /\ auditFresh' = [auditFresh EXCEPT ![pr.a] = F]
        BY <1>0, <2>3, <3>3, MarkPendingEffect
      <4> QED BY <1>0, <2>1, <3>1, <4>1, HoldsWritten
    <3> QED BY <3>2, <3>3
  <2>4. ASSUME UNCHANGED <<audit, auditFresh>>, UNCHANGED pr \/ pr'.pc # "mark"
        PROVE  HoldsInv'
    BY <1>0, <2>1, <2>4, HoldsFrame
  <2>5. CASE \/ ForgetPolicy \/ AwaitApproval \/ CoolDown \/ RateLimited
             \/ (\E forget \in BOOLEAN : EvaluationFails(forget)) \/ ResolveFails \/ RunPipeline
             \/ (\E r \in Outcomes : Requeue(r))
    BY <2>4, <2>5 DEF ForgetPolicy, AwaitApproval, CoolDown, RateLimited, EvaluationFails,
       ResolveFails, RunPipeline, Requeue, PrRequeue, PrIdle, clusterVars
  <2>6. ASSUME NEW crossed \in BOOLEAN, Evaluate(crossed) PROVE HoldsInv'
    <3>1. pr'.pc \in {"run", "requeue"} /\ UNCHANGED <<audit, auditFresh>>
      BY <2>6 DEF Evaluate
    <3> QED BY <2>4, <3>1
  <2> QED BY <1>2, <2>2, <2>3, <2>5, <2>6, Zenon DEF PolicyStep
<1>3. CASE AuditStep
  <2>1. UNCHANGED pr
    BY <1>3, Zenon DEF AuditStep, AuditFrame, reconcilerVars
  <2>2. ASSUME RefetchPolicy \/ \E r \in Outcomes : StartCooldown(r)
        PROVE  HoldsInv'
    <3>1. UNCHANGED <<audit, auditFresh>> /\ ar'.pc \in {"idle", "cooldown"}
      BY <2>2 DEF StartCooldown, RefetchPolicy, ArIdle
    <3> QED BY <1>0, <2>1, <3>1, HoldsFrame
  <2>3. ASSUME NEW a \in Audits, DenyGate(a) \/ ExpireGate(a) \/ ReleaseGate(a) \/ Revert(a)
        PROVE  HoldsInv'
    BY <2>1, <2>3, ReadsHold
  <2>4. ASSUME NEW r \in Outcomes, RecordHeld(r) \/ SetPhase(r) PROVE HoldsInv'
    BY <2>1, <2>4, AuditWritesHold
  <2>5. CASE (\E a \in Audits : Sweep(a)) \/ (\E r \in Outcomes : SetReverted(r))
    BY <2>1, <2>5, QuietHolds
  <2> QED BY <1>3, <2>2, <2>3, <2>4, <2>5, Zenon DEF AuditStep
<1>4. CASE AuditUser
  <2>1. UNCHANGED <<pr, ar>>
    BY <1>4, Zenon DEF AuditUser, ApprovalFrame, reconcilerVars, auditRecVars
  <2>2. CASE (\E a \in Audits : RequestRevert(a)) \/ (\E u \in Users : Commit(u))
    BY <2>1, <2>2, QuietHolds
  <2>3. ASSUME NEW u \in Users, NEW a \in Audits, NEW edit, Submit(u, a, edit)
        PROVE  HoldsInv'
    <3>1. UNCHANGED audit /\ \A b \in Audits : \A c \in {"policyReconciler", "auditReconciler"} :
            c \in auditFresh'[b] => c \in auditFresh[b]
      BY <1>0, <2>3, OutcomeTypes DEF Submit
    <3> QED BY <1>0, <2>1, <3>1, HoldsFrame
  <2> QED BY <1>4, <2>2, <2>3 DEF AuditUser
<1>5. CASE Crash
  BY <1>5 DEF Crash, PrIdle, ArIdle, HoldsInv, MarkHolds, WorkHolds
<1>6. CASE UNCHANGED vars
  BY <1>0, <1>6, HoldsFrame DEF vars, clusterVars, reconcilerVars, auditRecVars
<1>7. CASE WriteFails
  BY <1>0, <1>7, WriteFailsFrame, HoldsFrame
<1> QED BY <1>1, <1>2, <1>3, <1>4, <1>5, <1>6, <1>7, ObsSteps DEF Next

(* What is on a record stays there, and only releaseGate and closeGate add *)
(* to it.                                                                  *)
Grows(more, recs) == more = recs \/ Extends(more, recs)

LEMMA RecordsGrow ==
  ASSUME Base, HoldsInv, [ObsNext]_allVars, NEW a \in Audits, audit[a].uid # 0
  PROVE  Grows(audit'[a].recs, audit[a].recs)
<1>0. TypeOK /\ OutcomeInv /\ GateInv /\ audit \in [Audits -> AuditObj]
  BY OutcomeTypes DEF Base
<1>1. CASE UNCHANGED audit
  BY <1>1 DEF Grows
<1>2. ASSUME NEW b \in Audits, NEW new, audit' = [audit EXCEPT ![b] = new],
             b = a => Grows(new.recs, audit[b].recs)
      PROVE  Grows(audit'[a].recs, audit[a].recs)
  <2>1. audit'[a] = IF a = b THEN new ELSE audit[a]
    BY <1>0, <1>2
  <2> QED BY <1>2, <2>1 DEF Grows
<1>3. ASSUME NEW b \in Audits, NEW r \in Outcomes, WriteAudit(b, r) \/ WriteGatedAudit(b, r)
      PROVE  Grows(audit'[a].recs, audit[a].recs)
  <2>1. CreateRecord(b, r)
    BY <1>3 DEF WriteAudit, WriteGatedAudit
  <2>2. b # a /\ (UNCHANGED audit \/ audit' = [audit EXCEPT ![b] = NewRecord])
    BY <2>1 DEF CreateRecord
  <2> QED BY <1>1, <1>2, <2>2
<1>4. CASE (\E b \in Audits : Sweep(b) \/ RequestRevert(b)) \/ (\E r \in Outcomes : SetReverted(r))
  BY <1>0, <1>1, <1>2, <1>4, QuietWriteEffect DEF Grows
<1>5. CASE \E u \in Users : Commit(u)
  BY <1>0, <1>1, <1>2, <1>5, CommitEffect DEF Grows
<1>6. CASE \E r \in Outcomes : MarkPending(r)
  BY <1>0, <1>1, <1>2, <1>6, MarkPendingEffect DEF Grows
<1>7. CASE \E r \in Outcomes : SetPhase(r)
  BY <1>0, <1>1, <1>2, <1>7, SetPhaseEffect DEF Grows
<1>8. ASSUME NEW r \in Outcomes, RecordHeld(r), ~UNCHANGED audit
      PROVE  Grows(audit'[a].recs, audit[a].recs)
  <2>1. PICK new \in AuditObj : /\ ar.a \in Audits /\ audit' = [audit EXCEPT ![ar.a] = new]
                                /\ new.recs = ar.copy.recs
    BY <1>0, <1>8, RecordHeldEffect
  <2>2. ar.pc = "held" /\ "auditReconciler" \in auditFresh[ar.a]
    BY <1>8 DEF RecordHeld, UpdateAuditSpec, StoreAudit, CallEnds, Applied, HoldsCurrent
  <2>3. Grows(new.recs, audit[ar.a].recs)
    BY <2>1, <2>2 DEF HoldsInv, WorkHolds, Grows
  <2> QED BY <1>2, <2>1, <2>3
<1>9. CASE WriteFails
  BY <1>1, <1>9, WriteFailsFrame
<1> QED BY <1>1, <1>3, <1>4, <1>5, <1>6, <1>7, <1>8, <1>9, ObsSteps, AuditWriters

-----------------------------------------------------------------------------
(* What a row of a table says of a record's actions.                       *)

Tables == {"executions", "outcomes"}

Executed(row, all) ==
  /\ row.index < Len(all)
  /\ all[row.index + 1].plugin = row.plugin
  /\ all[row.index + 1].status = row.status

Undone(row, all) ==
  /\ row.index < Len(all)
  /\ row.plugin = all[row.index + 1].plugin
  /\ row.status = "Attempted" <=> Attempted(all[row.index + 1])

Tells(t, row, recs) ==
  IF t = "executions" THEN Executed(row, Actions(recs)) ELSE Undone(row, Actions(recs))

(* It says so of the record with one run more, too. *)
LEMMA TellsMore ==
  ASSUME NEW t \in Tables, NEW row \in Row, NEW recs \in Seq(Batch), NEW more,
         Grows(more, recs), Tells(t, row, recs)
  PROVE  Tells(t, row, more)
<1>1. CASE more = recs
  BY <1>1
<1>2. ASSUME NEW b \in Batch, more = Append(recs, b)
      PROVE  Tells(t, row, more)
  <2> DEFINE all == Actions(recs)
             x   == FlattenSeq(b.results)
             i   == row.index
  <2>1. all \in Seq(Result) /\ x \in Seq(Result) /\ Actions(more) = all \o x
    BY <1>2, ActionsType, ActionsAppend
  <2>2. i \in Nat /\ i < Len(all)
    BY DEF Tells, Executed, Undone, Row
  <2>3. Tells(t, row, recs) = IF t = "executions" THEN Executed(row, all) ELSE Undone(row, all)
    BY DEF Tells
  <2> HIDE DEF all, x
  <2>4. i + 1 \in 1..Len(all) /\ Len(all \o x) = Len(all) + Len(x) /\ Len(all) \in Nat /\ Len(x) \in Nat
    BY <2>1, <2>2
  <2>5. i < Len(all \o x)
    BY <2>2, <2>4
  <2>6. (all \o x)[i + 1] = all[i + 1]
    BY <2>1, <2>4
  <2>7. Tells(t, row, more) =
          IF t = "executions" THEN Executed(row, all \o x) ELSE Undone(row, all \o x)
    BY <2>1 DEF Tells
  <2> QED BY <2>3, <2>5, <2>6, <2>7 DEF Executed, Undone
<1> QED BY <1>1, <1>2 DEF Grows, Extends

(* The rows built from a record are about that record. *)
AreAbout(rows, a, t, recs) ==
  /\ rows \in Seq(Row)
  /\ \A i \in 1..Len(rows) : rows[i].a = a /\ Tells(t, rows[i], recs)

LEMMA SinkEventsTell ==
  ASSUME NEW a \in Audits, NEW recs \in Seq(Batch)
  PROVE  /\ AreAbout(BuildSinkEvents(a, recs), a, "executions", recs)
         /\ Len(BuildSinkEvents(a, recs)) = Len(Actions(recs))
         /\ \A i \in 1..Len(Actions(recs)) : BuildSinkEvents(a, recs)[i].index = i - 1
<1> DEFINE all  == Actions(recs)
           row(i) == [a |-> a, index |-> i - 1, plugin |-> all[i].plugin, status |-> all[i].status]
           rows == [i \in 1..Len(all) |-> row(i)]
<1>1. all \in Seq(Result)
  BY ActionsType
<1>2. BuildSinkEvents(a, recs) = rows
  BY DEF BuildSinkEvents
<1> HIDE DEF all
<1>3. ASSUME NEW i \in 1..Len(all)
      PROVE  /\ row(i) \in Row /\ row(i).a = a /\ row(i).index = i - 1
             /\ Executed(row(i), all)
  <2>1. all[i] \in Result /\ i \in Nat /\ i - 1 \in Nat /\ i - 1 < Len(all) /\ (i - 1) + 1 = i
    BY <1>1
  <2>2. all[i].plugin \in Plugins /\ all[i].status \in Statuses
    BY <2>1 DEF Result
  <2> QED BY <2>1, <2>2 DEF Row, Executed
<1>4. rows \in [1..Len(all) -> Row] /\ Len(all) \in Nat
  BY <1>1, <1>3
<1>5. rows \in Seq(Row)
  BY <1>4, FunctionIsSeq
<1>6. Len(rows) = Len(all)
  BY <1>4
<1>7. \A i \in 1..Len(all) : rows[i].a = a /\ rows[i].index = i - 1 /\ Executed(rows[i], all)
  BY <1>3
<1> HIDE DEF rows
<1>8. \A i \in 1..Len(all) : Tells("executions", rows[i], recs)
  BY <1>7 DEF Tells, all
<1>9. AreAbout(rows, a, "executions", recs)
  BY <1>5, <1>6, <1>7, <1>8 DEF AreAbout
<1> QED BY <1>2, <1>6, <1>7, <1>9 DEF all

LEMMA RevertEventsTell ==
  ASSUME NEW a \in Audits, NEW recs \in Seq(Batch)
  PROVE  AreAbout(BuildRevertEvents(a, recs), a, "outcomes", recs)
<1> DEFINE all  == Actions(recs)
           back == Reverse(all)
           n    == Len(back)
           stat(i) == IF Attempted(back[i]) THEN "Attempted" ELSE "Skipped"
           row(i) == [a |-> a, index |-> n - i, plugin |-> back[i].plugin, status |-> stat(i)]
           rows == [i \in 1..n |-> row(i)]
<1>1. all \in Seq(Result)
  BY ActionsType
<1>2. BuildRevertEvents(a, recs) = rows
  BY DEF BuildRevertEvents
<1> HIDE DEF all
<1>3. n = Len(all) /\ n \in Nat /\ \A i \in 1..n : back[i] = all[(n - i) + 1]
  BY <1>1 DEF Reverse
<1> HIDE DEF back, n
<1>4. ASSUME NEW i \in 1..n
      PROVE  row(i) \in Row /\ row(i).a = a /\ Undone(row(i), all)
  <2>1. /\ n - i \in Nat /\ n - i < Len(all) /\ (n - i) + 1 \in 1..Len(all)
        /\ back[i] = all[(n - i) + 1]
    BY <1>3
  <2>2. back[i] \in Result
    BY <1>1, <2>1
  <2>3. back[i].plugin \in Plugins /\ stat(i) \in Statuses \cup {"Attempted"}
        /\ (stat(i) = "Attempted" <=> Attempted(back[i]))
    BY <2>2 DEF Result, Statuses
  <2> HIDE DEF stat
  <2>4. row(i).a = a /\ row(i).index = n - i /\ row(i).plugin = back[i].plugin /\ row(i).status = stat(i)
    OBVIOUS
  <2>5. row(i) \in Row
    BY <2>1, <2>3 DEF Row
  <2> HIDE DEF row
  <2> QED BY <2>1, <2>3, <2>4, <2>5 DEF Undone
<1>5. rows \in [1..n -> Row]
  BY <1>4
<1>6. rows \in Seq(Row) /\ Len(rows) = n
  <2>1. rows \in Seq(Row)
    BY <1>3, <1>5, FunctionIsSeq
  <2>2. DOMAIN rows = 1..n
    OBVIOUS
  <2> HIDE DEF rows
  <2> QED BY <1>3, <2>1, <2>2
<1>7. \A i \in 1..n : rows[i].a = a /\ Undone(rows[i], all)
  BY <1>4
<1> HIDE DEF rows
<1>8. \A i \in 1..n : Tells("outcomes", rows[i], recs)
  BY <1>7 DEF Tells, all
<1>9. AreAbout(rows, a, "outcomes", recs)
  BY <1>6, <1>7, <1>8 DEF AreAbout
<1> QED BY <1>2, <1>9

-----------------------------------------------------------------------------
(* The rows of a table, batch by batch of the queue. *)

OfBatch(b, t) == IF b.table = t THEN {b.rows[j] : j \in 1..Len(b.rows)} ELSE {}
Queued(q, t)  == UNION {OfBatch(q[i], t) : i \in 1..Len(q)}
Stored(t)     == IF t = "executions" THEN executions ELSE outcomes

LEMMA RowsAre == \A t \in Tables : Rows(t) = Stored(t) \cup Queued(queue, t)
<1> SUFFICES ASSUME NEW t \in Tables PROVE Rows(t) = Stored(t) \cup Queued(queue, t)
  OBVIOUS
<1> DEFINE Q == UNION {{queue[i].rows[j] : j \in 1..Len(queue[i].rows)} :
                        i \in {k \in 1..Len(queue) : queue[k].table = t}}
<1>1. Rows(t) = Stored(t) \cup Q
  BY DEF Rows, Stored
<1>2. Q \subseteq Queued(queue, t)
  BY DEF Queued, OfBatch
<1>3. ASSUME NEW row \in Queued(queue, t) PROVE row \in Q
  <2>1. PICK i \in 1..Len(queue) : row \in OfBatch(queue[i], t)
    BY DEF Queued
  <2> QED BY <2>1 DEF OfBatch
<1> HIDE DEF Q
<1> QED BY <1>1, <1>2, <1>3

LEMMA QueuedAppend ==
  ASSUME NEW q \in Seq(Batches), NEW b \in Batches, NEW t
  PROVE  Queued(Append(q, b), t) = Queued(q, t) \cup OfBatch(b, t)
<1> DEFINE n == Len(q)
           m == Append(q, b)
<1>1. n \in Nat /\ Len(m) = n + 1 /\ m[n + 1] = b /\ \A i \in 1..n : m[i] = q[i]
  OBVIOUS
<1>2. Queued(q, t) = UNION {OfBatch(q[i], t) : i \in 1..n}
  BY DEF Queued
<1>3. Queued(m, t) = UNION {OfBatch(m[i], t) : i \in 1..(n + 1)}
  BY <1>1 DEF Queued
<1> HIDE DEF n, m
<1>4. \A i \in 1..(n + 1) : i = n + 1 \/ i \in 1..n
  BY <1>1
<1>5. n + 1 \in 1..(n + 1) /\ \A i \in 1..n : i \in 1..(n + 1)
  BY <1>1
<1>6. ASSUME NEW row \in Queued(m, t) PROVE row \in Queued(q, t) \cup OfBatch(b, t)
  <2>1. PICK i \in 1..(n + 1) : row \in OfBatch(m[i], t)
    BY <1>3
  <2> QED BY <1>1, <1>2, <1>4, <2>1
<1>7. Queued(q, t) \subseteq Queued(m, t) /\ OfBatch(b, t) \subseteq Queued(m, t)
  BY <1>1, <1>2, <1>3, <1>5
<1> QED BY <1>6, <1>7 DEF m

LEMMA QueuedTail ==
  ASSUME NEW q \in Seq(Batches), q # <<>>, NEW t
  PROVE  Queued(q, t) = OfBatch(Head(q), t) \cup Queued(Tail(q), t)
<1> DEFINE n == Len(q)
           m == Tail(q)
<1>1. /\ n \in Nat /\ n >= 1 /\ Len(m) = n - 1 /\ q[1] = Head(q)
      /\ \A i \in 1..(n - 1) : m[i] = q[i + 1]
  OBVIOUS
<1>2. Queued(q, t) = UNION {OfBatch(q[i], t) : i \in 1..n}
  BY DEF Queued
<1>3. Queued(m, t) = UNION {OfBatch(m[i], t) : i \in 1..(n - 1)}
  BY <1>1 DEF Queued
<1> HIDE DEF n, m
<1>4. \A i \in 1..n : i = 1 \/ (i - 1 \in 1..(n - 1) /\ (i - 1) + 1 = i)
  BY <1>1
<1>5. 1 \in 1..n /\ \A i \in 1..(n - 1) : i + 1 \in 1..n
  BY <1>1
<1>6. ASSUME NEW row \in Queued(q, t) PROVE row \in OfBatch(Head(q), t) \cup Queued(m, t)
  <2>1. PICK i \in 1..n : row \in OfBatch(q[i], t)
    BY <1>2
  <2>2. CASE i = 1
    BY <1>1, <2>1, <2>2
  <2>3. CASE i # 1
    <3>1. i - 1 \in 1..(n - 1) /\ m[i - 1] = q[i]
      BY <1>1, <1>4, <2>3
    <3> QED BY <1>3, <2>1, <3>1
  <2> QED BY <2>2, <2>3
<1>7. OfBatch(Head(q), t) \subseteq Queued(q, t)
  BY <1>1, <1>2, <1>5
<1>8. Queued(m, t) \subseteq Queued(q, t)
  BY <1>1, <1>2, <1>3, <1>5
<1> QED BY <1>6, <1>7, <1>8 DEF m

SameKey(x, y) == x.a = y.a /\ x.index = y.index

LEMMA InsertNewKeeps ==
  ASSUME NEW table \in SUBSET Row, NEW rows \in Seq(Row)
  PROVE  /\ table \subseteq InsertNew(table, rows)
         /\ InsertNew(table, rows) \subseteq table \cup {rows[j] : j \in 1..Len(rows)}
         /\ \A j \in 1..Len(rows) : \E x \in InsertNew(table, rows) : SameKey(x, rows[j])
BY DEF InsertNew, SameKey

SinkTyped ==
  /\ queue \in Seq(Batches) /\ Len(queue) <= QueueSize
  /\ executions \subseteq Row /\ outcomes \subseteq Row
  /\ lost \subseteq Audits

(* No row appears that is not about what its record has now, and none      *)
(* goes, unless another has its key or its record is counted as lost.      *)
RowsNew == \A t \in Tables : \A row \in Rows(t)' : row \in Rows(t) \/ Tells(t, row, audit'[row.a].recs)
RowsKept ==
  /\ lost \subseteq lost'
  /\ \A t \in Tables : \A row \in Rows(t) : row.a \in lost' \/ \E x \in Rows(t)' : SameKey(x, row)

LEMMA BatchParts == \A b \in Batches : b.table \in Tables /\ b.rows \in Seq(Row)
BY DEF Batches, Tables

LEMMA ForwardRows ==
  ASSUME SinkTyped, NEW a \in Audits, NEW t \in Tables, NEW rows,
         AreAbout(rows, a, t, audit'[a].recs), Forward(a, t, rows)
  PROVE  /\ SinkTyped' /\ RowsNew /\ RowsKept
         /\ a \in lost' \/ \A i \in 1..Len(rows) : rows[i] \in Rows(t)'
<1>0. rows \in Seq(Row) /\ \A i \in 1..Len(rows) : rows[i].a = a /\ Tells(t, rows[i], audit'[a].recs)
  BY DEF AreAbout
<1>1. CASE rows = <<>> /\ UNCHANGED sinkVars
  <2>1. UNCHANGED queue /\ UNCHANGED executions /\ UNCHANGED outcomes /\ UNCHANGED lost
    BY <1>1 DEF sinkVars
  <2>2. Len(rows) = 0
    BY <1>1
  <2> QED BY <2>1, <2>2 DEF SinkTyped, RowsNew, RowsKept, Rows, SameKey
<1>2. CASE /\ Len(queue) = QueueSize /\ lost' = lost \cup {a}
           /\ UNCHANGED <<queue, executions, outcomes>>
  BY <1>2 DEF SinkTyped, RowsNew, RowsKept, Rows, SameKey
<1>3. CASE /\ Len(queue) < QueueSize
           /\ queue' = Append(queue, [table |-> t, rows |-> rows])
           /\ UNCHANGED <<executions, outcomes, lost>>
  <2> DEFINE b == [table |-> t, rows |-> rows]
  <2>1. b \in Batches /\ queue \in Seq(Batches)
    BY <1>0 DEF Batches, Tables, SinkTyped
  <2>2. \A x \in Tables : OfBatch(b, x) = IF x = t THEN {rows[j] : j \in 1..Len(rows)} ELSE {}
    BY DEF OfBatch
  <2>3. queue' = Append(queue, b)
    BY <1>3
  <2> HIDE DEF b
  <2>4. SinkTyped'
    <3>1. queue' \in Seq(Batches) /\ Len(queue') = Len(queue) + 1
      BY <2>1, <2>3
    <3>2. Len(queue) \in Nat /\ QueueSize \in Nat
      BY <2>1, QueueAssumption
    <3> QED BY <1>3, <3>1, <3>2 DEF SinkTyped
  <2>5. \A x \in Tables : Rows(x)' = Rows(x) \cup OfBatch(b, x)
    <3> SUFFICES ASSUME NEW x \in Tables PROVE Rows(x)' = Rows(x) \cup OfBatch(b, x)
      OBVIOUS
    <3>1. Queued(queue', x) = Queued(queue, x) \cup OfBatch(b, x)
      BY <2>1, <2>3, QueuedAppend
    <3>2. Stored(x)' = Stored(x)
      BY <1>3 DEF Stored
    <3>3. Rows(x) = Stored(x) \cup Queued(queue, x)
      BY RowsAre
    <3>4. Rows(x)' = Stored(x)' \cup Queued(queue', x)
      BY <1>3 DEF Rows, Stored, Queued, OfBatch
    <3> QED BY <3>1, <3>2, <3>3, <3>4
  <2>6. RowsNew
    BY <1>0, <2>2, <2>5 DEF RowsNew
  <2>7. RowsKept
    BY <1>3, <2>5 DEF RowsKept, SameKey
  <2>8. \A i \in 1..Len(rows) : rows[i] \in Rows(t)'
    BY <2>2, <2>5
  <2> QED BY <2>4, <2>6, <2>7, <2>8
<1> QED BY <1>1, <1>2, <1>3 DEF Forward

LEMMA IdleRows ==
  ASSUME SinkTyped, UNCHANGED sinkVars
  PROVE  SinkTyped' /\ RowsNew /\ RowsKept
BY DEF sinkVars, SinkTyped, RowsNew, RowsKept, Rows, SameKey

(* The worker takes the first batch: written, it leaves a row of every     *)
(* key; failed, its records are lost.                                      *)
LEMMA WorkerRows ==
  ASSUME SinkTyped, WriteBatch \/ WriteFails
  PROVE  SinkTyped' /\ RowsNew /\ RowsKept
<1> DEFINE b == Head(queue)
<1>1. queue \in Seq(Batches) /\ queue # <<>> /\ queue' = Tail(queue)
  BY DEF SinkTyped, WriteBatch, WriteFails
<1>2. /\ b \in Batches /\ Tail(queue) \in Seq(Batches) /\ Len(Tail(queue)) = Len(queue) - 1
      /\ Len(queue) \in Nat
  BY <1>1
<1>3. b.table \in Tables /\ b.rows \in Seq(Row)
  BY <1>2, BatchParts
<1>4. \A t \in Tables : Rows(t) = Stored(t) \cup OfBatch(b, t) \cup Queued(queue', t)
  BY <1>1, QueuedTail, RowsAre
<1>5. \A t \in Tables : Rows(t)' = Stored(t)' \cup Queued(queue', t)
  <2> SUFFICES ASSUME NEW t \in Tables PROVE Rows(t)' = Stored(t)' \cup Queued(queue', t)
    OBVIOUS
  <2> DEFINE Q == UNION {{queue'[i].rows[j] : j \in 1..Len(queue'[i].rows)} :
                          i \in {k \in 1..Len(queue') : queue'[k].table = t}}
  <2>1. Rows(t)' = Stored(t)' \cup Q
    BY DEF Rows, Stored
  <2>2. Q \subseteq Queued(queue', t)
    BY DEF Queued, OfBatch
  <2>3. ASSUME NEW row \in Queued(queue', t) PROVE row \in Q
    <3>1. PICK i \in 1..Len(queue') : row \in OfBatch(queue'[i], t)
      BY DEF Queued
    <3> QED BY <3>1 DEF OfBatch
  <2> HIDE DEF Q
  <2> QED BY <2>1, <2>2, <2>3
<1>6. queue' \in Seq(Batches) /\ Len(queue') <= QueueSize
  BY <1>1, <1>2, QueueAssumption DEF SinkTyped
<1> HIDE DEF b
<1>7. CASE WriteBatch
  <2>1. \A t \in Tables :
          Stored(t)' = IF b.table = t THEN InsertNew(Stored(t), b.rows) ELSE Stored(t)
    BY <1>3, <1>7 DEF WriteBatch, Stored, Tables, b
  <2>2. \A t \in Tables : Stored(t) \in SUBSET Row
    BY DEF SinkTyped, Stored
  <2>3. \A t \in Tables :
          /\ Stored(t) \subseteq Stored(t)' /\ Stored(t)' \subseteq Stored(t) \cup OfBatch(b, t)
          /\ \A row \in OfBatch(b, t) : \E x \in Stored(t)' : SameKey(x, row)
    <3> SUFFICES ASSUME NEW t \in Tables
                 PROVE  /\ Stored(t) \subseteq Stored(t)'
                        /\ Stored(t)' \subseteq Stored(t) \cup OfBatch(b, t)
                        /\ \A row \in OfBatch(b, t) : \E x \in Stored(t)' : SameKey(x, row)
      OBVIOUS
    <3>1. CASE b.table # t
      BY <2>1, <3>1 DEF OfBatch
    <3>2. CASE b.table = t
      <4>1. OfBatch(b, t) = {b.rows[j] : j \in 1..Len(b.rows)}
        BY <3>2 DEF OfBatch
      <4>2. Stored(t)' = InsertNew(Stored(t), b.rows) /\ Stored(t) \in SUBSET Row
        BY <2>1, <2>2, <3>2
      <4> DEFINE S == Stored(t)
                 R == b.rows
      <4>3. S \in SUBSET Row /\ R \in Seq(Row)
        BY <1>3, <4>2
      <4> HIDE DEF S, R
      <4>4. /\ S \subseteq InsertNew(S, R)
            /\ InsertNew(S, R) \subseteq S \cup {R[j] : j \in 1..Len(R)}
            /\ \A j \in 1..Len(R) : \E x \in InsertNew(S, R) : SameKey(x, R[j])
        BY <4>3, InsertNewKeeps
      <4>5. Stored(t) = S /\ Stored(t)' = InsertNew(S, R) /\ OfBatch(b, t) = {R[j] : j \in 1..Len(R)}
        BY <4>1, <4>2 DEF S, R
      <4> QED BY <4>4, <4>5
    <3> QED BY <3>1, <3>2
  <2>4. \A t \in Tables : OfBatch(b, t) \subseteq Row
    BY <1>3 DEF OfBatch
  <2>5. SinkTyped'
    <3>1. executions' = Stored("executions")' /\ outcomes' = Stored("outcomes")'
      BY DEF Stored
    <3>2. executions' \subseteq Row /\ outcomes' \subseteq Row
      BY <2>2, <2>3, <2>4, <3>1 DEF Tables
    <3> QED BY <1>6, <1>7, <3>2 DEF SinkTyped, WriteBatch
  <2>6. RowsNew
    BY <1>4, <1>5, <2>3 DEF RowsNew
  <2>7. RowsKept
    BY <1>4, <1>5, <1>7, <2>3 DEF RowsKept, SameKey, WriteBatch
  <2> QED BY <2>5, <2>6, <2>7
<1>8. CASE WriteFails
  <2>1. \A t \in Tables : Stored(t)' = Stored(t)
    BY <1>8 DEF WriteFails, Stored
  <2>2. RecordsIn(<<b>>) = {b.rows[j].a : j \in 1..Len(b.rows)}
    <3> DEFINE q == <<b>>
    <3>1. Len(q) = 1 /\ q[1] = b
      OBVIOUS
    <3>2. RecordsIn(q) = UNION {{q[i].rows[j].a : j \in 1..Len(q[i].rows)} : i \in 1..Len(q)}
      BY DEF RecordsIn
    <3> HIDE DEF q
    <3>3. 1..Len(q) = {1}
      BY <3>1
    <3>4. RecordsIn(q) = {b.rows[j].a : j \in 1..Len(b.rows)}
      BY <3>1, <3>2, <3>3
    <3> QED BY <3>4 DEF q
  <2>3. RecordsIn(<<b>>) \subseteq Audits
    <3>1. \A j \in 1..Len(b.rows) : b.rows[j] \in Row
      BY <1>3
    <3>2. \A row \in Row : row.a \in Audits
      BY DEF Row
    <3> QED BY <2>2, <3>1, <3>2
  <2>4. lost' = lost \cup RecordsIn(<<b>>)
    BY <1>8 DEF WriteFails, b
  <2>5. \A t \in Tables : \A row \in OfBatch(b, t) : row.a \in lost'
    BY <2>2, <2>4 DEF OfBatch
  <2>6. SinkTyped'
    BY <1>6, <1>8, <2>3, <2>4 DEF SinkTyped, WriteFails
  <2>7. RowsNew
    BY <1>4, <1>5, <2>1 DEF RowsNew
  <2>8. RowsKept
    BY <1>4, <1>5, <2>1, <2>4, <2>5 DEF RowsKept, SameKey
  <2> QED BY <2>6, <2>7, <2>8
<1> QED BY <1>7, <1>8

LEMMA RestartRows ==
  ASSUME SinkTyped, Restart
  PROVE  SinkTyped' /\ RowsNew /\ RowsKept
<1>1. queue \in Seq(Batches) /\ Len(queue) \in Nat
  BY DEF SinkTyped
<1>2. /\ queue' = <<>> /\ lost' = lost \cup RecordsIn(queue)
      /\ UNCHANGED executions /\ UNCHANGED outcomes
  BY DEF Restart
<1>3. \A i \in 1..Len(queue) : queue[i].rows \in Seq(Row)
  BY <1>1, BatchParts
<1>4. RecordsIn(queue) \subseteq Audits
  <2> SUFFICES ASSUME NEW i \in 1..Len(queue), NEW j \in 1..Len(queue[i].rows)
               PROVE  queue[i].rows[j].a \in Audits
    BY DEF RecordsIn
  <2>1. queue[i].rows[j] \in Row
    BY <1>3
  <2> QED BY <2>1 DEF Row
<1>5. SinkTyped'
  BY <1>2, <1>4, QueueAssumption DEF SinkTyped
<1>6. \A t \in Tables : Rows(t)' = Stored(t)
  BY <1>2 DEF Rows, Stored
<1>7. \A t \in Tables : Rows(t) = Stored(t) \cup Queued(queue, t)
  BY RowsAre
<1>8. \A t \in Tables : \A row \in Queued(queue, t) : row.a \in RecordsIn(queue)
  <2> SUFFICES ASSUME NEW t \in Tables, NEW row \in Queued(queue, t)
               PROVE  row.a \in RecordsIn(queue)
    OBVIOUS
  <2>1. PICK i \in 1..Len(queue) : row \in OfBatch(queue[i], t)
    BY DEF Queued
  <2>2. PICK j \in 1..Len(queue[i].rows) : row = queue[i].rows[j]
    BY <2>1 DEF OfBatch
  <2> QED BY <2>2 DEF RecordsIn
<1>9. RowsNew
  BY <1>6, <1>7 DEF RowsNew
<1>10. RowsKept
  BY <1>2, <1>6, <1>7, <1>8 DEF RowsKept, SameKey
<1> QED BY <1>5, <1>9, <1>10

-----------------------------------------------------------------------------
(* What each of the four steps that forward hands over is about the record *)
(* as it is then.                                                          *)

LEMMA CopyRecs == \A rec \in AuditObj : rec.recs \in Seq(Batch)
BY DEF AuditObj

LEMMA CreateForwards ==
  ASSUME Base, NEW a \in Audits, WriteAudit(a, "ok")
  PROVE  /\ audit'[a] = NewRecord /\ NewRecord.recs \in Seq(Batch)
         /\ AreAbout(BuildSinkEvents(a, NewRecord.recs), a, "executions", audit'[a].recs)
<1>1. pr.pc = "create" /\ audit \in [Audits -> AuditObj] /\ audit' = [audit EXCEPT ![a] = NewRecord]
  BY OutcomeTypes DEF Base, WriteAudit, CreateRecord, Applied
<1>2. NewRecord.recs \in Seq(Batch)
  BY <1>1, NewRecordType, CopyRecs DEF Base, TypeOK
<1>3. audit'[a] = NewRecord
  BY <1>1
<1> QED BY <1>2, <1>3, SinkEventsTell

LEMMA MarkForwards ==
  ASSUME Base, HoldsInv, MarkPending("ok")
  PROVE  /\ pr.a \in Audits
         /\ AreAbout(BuildSinkEvents(pr.a, pr.copy.recs), pr.a, "executions", audit'[pr.a].recs)
<1>1. pr.pc = "mark" /\ pr.a \in Audits /\ pr.copy.recs \in Seq(Batch)
  BY OutcomeTypes, CopyRecs DEF Base, MarkPending
<1>2. pr.copy.recs = audit'[pr.a].recs
  BY <1>1, MarkPendingOpens DEF HoldsInv, MarkHolds
<1> QED BY <1>1, <1>2, SinkEventsTell

LEMMA NothingTells == \A a, t, recs : AreAbout(<<>>, a, t, recs)
BY DEF AreAbout

LEMMA SetPhaseForwards ==
  ASSUME Base, HoldsInv, SetPhase("ok")
  PROVE  /\ ar.a \in Audits /\ ar.copy.recs \in Seq(Batch) /\ ar.copy.recs = audit'[ar.a].recs
         /\ AreAbout(ReleasedRows, ar.a, "executions", audit'[ar.a].recs)
<1>1. ar.pc = "phase" /\ ar.a \in Audits /\ ar.copy.recs \in Seq(Batch)
  BY OutcomeTypes, CopyRecs DEF Base, SetPhase
<1>2. ar.copy.recs = audit'[ar.a].recs
  BY <1>1, SetPhaseCloses DEF HoldsInv, WorkHolds
<1>3. ReleasedRows \in {BuildSinkEvents(ar.a, ar.copy.recs), <<>>}
  BY DEF ReleasedRows
<1>4. AreAbout(BuildSinkEvents(ar.a, ar.copy.recs), ar.a, "executions", ar.copy.recs)
  BY <1>1, SinkEventsTell
<1> QED BY <1>1, <1>2, <1>3, <1>4, NothingTells

LEMMA RevertForwards ==
  ASSUME Base, HoldsInv, SetReverted("ok")
  PROVE  /\ ar.a \in Audits
         /\ AreAbout(BuildRevertEvents(ar.a, ar.copy.recs), ar.a, "outcomes", audit'[ar.a].recs)
<1>0. audit \in [Audits -> AuditObj] /\ TypeOK
  BY OutcomeTypes DEF Base
<1>1. /\ ar.pc = "reverted" /\ ar.a \in Audits /\ ar.copy \in AuditObj
      /\ "auditReconciler" \in auditFresh[ar.a]
      /\ audit' = [audit EXCEPT ![ar.a] =
                     WithStatus(audit[ar.a], [ar.copy EXCEPT !.reverted = TRUE])]
  BY <1>0, OutcomeTypes
     DEF SetReverted, UpdateAuditStatus, StoreAudit, CallEnds, HoldsCurrent, Applied
<1>2. audit'[ar.a].recs = audit[ar.a].recs
  BY <1>0, <1>1 DEF WithStatus, AuditObj
<1>3. ar.copy.recs = audit'[ar.a].recs
  BY <1>1, <1>2 DEF HoldsInv, WorkHolds
<1> QED BY <1>1, <1>3, CopyRecs, RevertEventsTell

LEMMA SinkSteps ==
  ASSUME Base, HoldsInv, SinkTyped, [ObsNext]_allVars
  PROVE  SinkTyped' /\ RowsNew /\ RowsKept
<1>1. ASSUME UNCHANGED obsVars PROVE SinkTyped' /\ RowsNew /\ RowsKept
  <2>1. UNCHANGED sinkVars
    BY <1>1 DEF obsVars
  <2> QED BY <2>1, IdleRows
<1>2. CASE Outside \/ Poll
  BY <1>1, <1>2, Zenon DEF Outside, Poll
<1>3. CASE Trigger
  <2>1. ASSUME NEW a \in Audits, NEW r \in Outcomes, WriteAudit(a, r),
               IF r = "ok" THEN Forward(a, "executions", BuildSinkEvents(a, NewRecord.recs))
                           ELSE UNCHANGED sinkVars
        PROVE  SinkTyped' /\ RowsNew /\ RowsKept
    <3>1. CASE r = "ok"
      <4>1. WriteAudit(a, "ok") /\ Forward(a, "executions", BuildSinkEvents(a, NewRecord.recs))
        BY <2>1, <3>1
      <4>2. AreAbout(BuildSinkEvents(a, NewRecord.recs), a, "executions", audit'[a].recs)
        BY <4>1, CreateForwards
      <4> QED BY <4>1, <4>2, ForwardRows DEF Tables
    <3>2. CASE r # "ok"
      BY <2>1, <3>2, IdleRows
    <3> QED BY <3>1, <3>2
  <2>2. ASSUME NEW r \in Outcomes, MarkPending(r),
               IF r = "ok" THEN Forward(pr.a, "executions", BuildSinkEvents(pr.a, pr.copy.recs))
                           ELSE UNCHANGED sinkVars
        PROVE  SinkTyped' /\ RowsNew /\ RowsKept
    <3>1. CASE r = "ok"
      <4>1. MarkPending("ok") /\ Forward(pr.a, "executions", BuildSinkEvents(pr.a, pr.copy.recs))
        BY <2>2, <3>1
      <4>2. /\ pr.a \in Audits
            /\ AreAbout(BuildSinkEvents(pr.a, pr.copy.recs), pr.a, "executions", audit'[pr.a].recs)
        BY <4>1, MarkForwards
      <4> QED BY <4>1, <4>2, ForwardRows DEF Tables
    <3>2. CASE r # "ok"
      BY <2>2, <3>2, IdleRows
    <3> QED BY <3>1, <3>2
  <2> QED BY <1>1, <1>3, <2>1, <2>2, Zenon DEF Trigger
<1>4. CASE Resolve
  <2>1. ASSUME NEW r \in Outcomes, SetPhase(r),
               IF r = "ok" THEN Forward(ar.a, "executions", ReleasedRows) ELSE UNCHANGED sinkVars
        PROVE  SinkTyped' /\ RowsNew /\ RowsKept
    <3>1. CASE r = "ok"
      <4>1. SetPhase("ok") /\ Forward(ar.a, "executions", ReleasedRows)
        BY <2>1, <3>1
      <4>2. ar.a \in Audits /\ AreAbout(ReleasedRows, ar.a, "executions", audit'[ar.a].recs)
        BY <4>1, SetPhaseForwards
      <4> QED BY <4>1, <4>2, ForwardRows DEF Tables
    <3>2. CASE r # "ok"
      BY <2>1, <3>2, IdleRows
    <3> QED BY <3>1, <3>2
  <2> QED BY <1>1, <1>4, <2>1, Zenon DEF Resolve
<1>5. CASE Housekeeping
  <2>1. ASSUME NEW r \in Outcomes, SetReverted(r),
               IF r = "ok" THEN Forward(ar.a, "outcomes", BuildRevertEvents(ar.a, ar.copy.recs))
                           ELSE UNCHANGED sinkVars
        PROVE  SinkTyped' /\ RowsNew /\ RowsKept
    <3>1. CASE r = "ok"
      <4>1. SetReverted("ok") /\ Forward(ar.a, "outcomes", BuildRevertEvents(ar.a, ar.copy.recs))
        BY <2>1, <3>1
      <4>2. /\ ar.a \in Audits
            /\ AreAbout(BuildRevertEvents(ar.a, ar.copy.recs), ar.a, "outcomes", audit'[ar.a].recs)
        BY <4>1, RevertForwards
      <4> QED BY <4>1, <4>2, ForwardRows DEF Tables
    <3>2. CASE r # "ok"
      BY <2>1, <3>2, IdleRows
    <3> QED BY <3>1, <3>2
  <2>2. ASSUME UNCHANGED obsVars PROVE UNCHANGED sinkVars
    BY <2>2 DEF obsVars
  <2> QED BY <1>5, <2>1, <2>2, IdleRows, Zenon DEF Housekeeping
<1>6. CASE Restart
  BY <1>6, RestartRows
<1>7. CASE WriteBatch \/ WriteFails
  BY <1>7, WorkerRows
<1>8. CASE UNCHANGED allVars
  <2>1. UNCHANGED obsVars
    BY <1>8 DEF allVars
  <2> QED BY <1>1, <2>1
<1> QED BY <1>2, <1>3, <1>4, <1>5, <1>6, <1>7, <1>8 DEF ObsNext

-----------------------------------------------------------------------------
(* The rows and the records. *)

RowsTell == \A t \in Tables : \A row \in Rows(t) : Tells(t, row, audit[row.a].recs)

LEMMA RowsTellMatch == RowsTell => RowsMatchRecord
BY DEF RowsTell, RowsMatchRecord, Tells, Executed, Undone, Tables

LEMMA RowsType ==
  ASSUME SinkTyped
  PROVE  \A t \in Tables : Rows(t) \subseteq Row
<1> SUFFICES ASSUME NEW t \in Tables, NEW row \in Rows(t) PROVE row \in Row
  OBVIOUS
<1>1. CASE row \in Stored(t)
  BY <1>1 DEF Stored, SinkTyped
<1>2. CASE row \in Queued(queue, t)
  <2>1. PICK i \in 1..Len(queue) : row \in OfBatch(queue[i], t)
    BY <1>2 DEF Queued
  <2>2. queue[i].rows \in Seq(Row)
    BY BatchParts DEF SinkTyped
  <2> QED BY <2>1, <2>2 DEF OfBatch
<1> QED BY <1>1, <1>2, RowsAre

LEMMA NextRows ==
  ASSUME Base, HoldsInv, SinkTyped, RowsTell, [ObsNext]_allVars
  PROVE  RowsTell'
<1>0. TypeOK /\ OutcomeInv /\ audit \in [Audits -> AuditObj]
  BY OutcomeTypes DEF Base
<1>1. RowsNew
  BY SinkSteps
<1>2. ASSUME NEW t \in Tables, NEW row \in Rows(t)
      PROVE  Tells(t, row, audit'[row.a].recs)
  <2>1. row \in Row /\ Tells(t, row, audit[row.a].recs)
    BY <1>2, RowsType DEF RowsTell
  <2>2. row.a \in Audits /\ row.index \in Nat
    BY <2>1 DEF Row
  <2>3. audit[row.a].recs \in Seq(Batch)
    BY <1>0, <2>2, CopyRecs
  <2>4. audit[row.a].uid # 0
    <3>1. row.index < Len(Actions(audit[row.a].recs))
      BY <2>1 DEF Tells, Executed, Undone
    <3>2. audit[row.a].recs # <<>>
      <4> SUFFICES ASSUME audit[row.a].recs = <<>> PROVE FALSE
        OBVIOUS
      <4>1. Actions(audit[row.a].recs) = <<>>
        BY ActionsEmpty
      <4>2. Len(Actions(audit[row.a].recs)) = 0
        BY <4>1
      <4> QED BY <2>2, <3>1, <4>2
    <3> QED BY <1>0, <2>2, <3>2 DEF OutcomeInv, GateRecordInv, Sound
  <2>5. Grows(audit'[row.a].recs, audit[row.a].recs)
    BY <2>2, <2>4, RecordsGrow
  <2> QED BY <2>1, <2>3, <2>5, TellsMore
<1> QED BY <1>1, <1>2 DEF RowsTell, RowsNew

ReportInv == Base /\ GaugeInv /\ HoldsInv /\ ObsTypeOK /\ RowsTell

LEMMA InitReport == ObsInit => ReportInv
<1> SUFFICES ASSUME ObsInit PROVE ReportInv
  OBVIOUS
<1>1. /\ pending = 0 /\ drifted = FALSE /\ queue = <<>> /\ executions = {} /\ outcomes = {} /\ lost = {}
  BY DEF ObsInit
<1>2. ObsTypeOK
  <2>1. drifted \in BOOLEAN
    BY <1>1, Zenon
  <2> QED BY <1>1, <2>1, QueueAssumption DEF ObsTypeOK
<1>3. RowsTell
  BY <1>1 DEF RowsTell, Rows
<1> QED BY <1>2, <1>3, InitBase, InitGauge, InitHolds DEF ReportInv

LEMMA NextReport ==
  ASSUME ReportInv, [ObsNext]_allVars
  PROVE  ReportInv'
<1>1. Base /\ GaugeInv /\ HoldsInv /\ SinkTyped /\ RowsTell
  BY DEF ReportInv, ObsTypeOK, SinkTyped
<1>2. Base' /\ GaugeInv' /\ HoldsInv' /\ SinkTyped' /\ RowsTell'
  BY <1>1, NextBase, NextGauge, NextHolds, SinkSteps, NextRows
<1> QED BY <1>2 DEF ReportInv, ObsTypeOK, SinkTyped, GaugeInv

(* The gauge, the sink's queue and the two tables keep their types: the    *)
(* queue never outgrows Config.QueueSize, whatever the reconcilers forward *)
(* and however long the worker stands still.                               *)
THEOREM ObsTypeCorrect == ObsSpec => []ObsTypeOK
<1>1. ReportInv => ObsTypeOK
  BY DEF ReportInv
<1> QED BY InitReport, NextReport, <1>1, PTL DEF ObsSpec

(* Postgres never contradicts the record: every row of action_executions   *)
(* is what the record says at its index, and every row of revert_outcomes  *)
(* was attempted just when the action succeeded and can be reversed, for   *)
(* any number of records, releases retried and restarts in between, and    *)
(* although the first row of a key is never updated.                       *)
THEOREM RowsMatch == ObsSpec => []RowsMatchRecord
<1>1. ReportInv => RowsMatchRecord
  BY RowsTellMatch DEF ReportInv
<1> QED BY InitReport, NextReport, <1>1, PTL DEF ObsSpec

-----------------------------------------------------------------------------
(* The trail is complete.  What releaseGate forwards hangs on its own      *)
(* results not being empty: there is always a target to run against and,   *)
(* if the policy had one pipeline only and the gate is as it was opened,   *)
(* something behind it to run (ScopeInv).                                  *)

ReleaseInv ==
  ar.pc \in {"held", "phase"} /\ ar.phase = "Approved" /\ AsOpened(ar.a) =>
    ar.copy.recs # <<>> /\ FlattenSeq(ar.copy.recs[Len(ar.copy.recs)].results) # <<>>

(* What was rewritten or edited stays so. *)
LEMMA OpenedBefore ==
  ASSUME Base, ScopeInv, [ObsNext]_allVars, NEW a \in Audits, audit[a].uid # 0, AsOpened(a)'
  PROVE  AsOpened(a)
<1>0. TypeOK /\ GateInv /\ OutcomeInv /\ VersionInv /\ audit[a].uid \in 1..MaxUid
  <2>1. audit[a] \in AuditObj
    BY OutcomeTypes DEF Base
  <2>2. audit[a].uid \in 0..MaxUid
    BY <2>1 DEF AuditObj
  <2> QED BY <2>2, ClusterAssumption DEF Base, ScopeInv
<1>1. CASE WriteFails
  BY <1>1, WriteFailsFrame DEF AsOpened
<1>2. CASE [Next]_vars
  <2>1. versions[audit[a].uid] \subseteq versions'[audit[a].uid]
    BY <1>0, <1>2, NextVersion
  <2>2. CASE \E b \in Audits, r \in Outcomes : WriteAudit(b, r) \/ WriteGatedAudit(b, r)
    <3>1. PICK b \in Audits, r \in Outcomes : pr.pc = "create" /\ pr'.pc # "create" /\ CreateRecord(b, r)
      BY <2>2 DEF WriteAudit, WriteGatedAudit, PrRequeue
    <3>2. audit'[a] = audit[a]
      <4>1. b # a /\ (UNCHANGED audit \/ audit' = [audit EXCEPT ![b] = NewRecord])
        BY <3>1 DEF CreateRecord
      <4>2. audit \in [Audits -> AuditObj]
        BY <1>0, OutcomeTypes
      <4> QED BY <4>1, <4>2
    <3>3. UNCHANGED <<rewritten, versions>>
      BY <1>2, <3>1, WorkersAlone
    <3> QED BY <3>2, <3>3 DEF AsOpened
  <2>3. CASE ~\E b \in Audits, r \in Outcomes : WriteAudit(b, r) \/ WriteGatedAudit(b, r)
    <3>1. audit'[a].uid = audit[a].uid
      BY <1>0, <1>2, <2>3, RecordsKept DEF SameRecord
    <3>2. /\ audit'[a].gated = audit[a].gated
          /\ a \notin rewritten' => a \notin rewritten
      BY <1>0, <1>2, <2>3, GatesKept
    <3> QED BY <2>1, <3>1, <3>2 DEF AsOpened
  <2> QED BY <2>2, <2>3
<1> QED BY <1>1, <1>2, ObsSteps

(* What may happen to a record: a finished one stays as it is, and an      *)
(* existing one finishes with the second write of a release.               *)
LEMMA RecordFate ==
  ASSUME Base, [Next]_vars, NEW a \in Audits, audit[a].uid # 0
  PROVE  /\ audit'[a].gated = audit[a].gated
         /\ Finished(a) => audit'[a].recs = audit[a].recs
         /\ \/ Finished(a)' => Finished(a)
            \/ \E r \in Outcomes : /\ SetPhase(r) /\ ~UNCHANGED <<audit, auditFresh>>
                                   /\ ar.a = a /\ ar.phase = "Approved"
<1> DEFINE Goal == /\ audit'[a].gated = audit[a].gated
                   /\ Finished(a) => audit'[a].recs = audit[a].recs
                   /\ Finished(a)' => Finished(a)
<1>0. TypeOK /\ OutcomeInv /\ GateInv /\ audit \in [Audits -> AuditObj]
  BY OutcomeTypes DEF Base
<1>1. ASSUME UNCHANGED audit PROVE Goal
  BY <1>1 DEF Finished
<1>2. ASSUME NEW b \in Audits, NEW new, audit' = [audit EXCEPT ![b] = new],
             \/ b # a
             \/ /\ new.gated = audit[b].gated /\ new.uid = audit[b].uid
                /\ \/ new.recs = audit[b].recs /\ new.phase = audit[b].phase
                   \/ /\ audit[b].gated /\ audit[b].phase # "Approved"
                      /\ new.phase # "Approved"
      PROVE  Goal
  <2>1. audit'[a] = IF a = b THEN new ELSE audit[a]
    BY <1>0, <1>2
  <2>2. CASE b # a
    BY <2>1, <2>2 DEF Finished
  <2>3. CASE b = a
    <3>1. audit'[a] = new /\ audit'[a].gated = audit[a].gated /\ audit'[a].uid = audit[a].uid
      BY <1>2, <2>1, <2>3
    <3>2. CASE new.recs = audit[a].recs /\ new.phase = audit[a].phase
      BY <3>1, <3>2 DEF Finished
    <3>3. CASE audit[a].gated /\ audit[a].phase # "Approved" /\ new.phase # "Approved"
      BY <3>1, <3>3 DEF Finished
    <3> QED BY <1>2, <2>3, <3>2, <3>3
  <2> QED BY <2>2, <2>3
<1>3. ASSUME \E b \in Audits, r \in Outcomes : WriteAudit(b, r) \/ WriteGatedAudit(b, r)
      PROVE  Goal
  <2>1. PICK b \in Audits, r \in Outcomes : CreateRecord(b, r)
    BY <1>3 DEF WriteAudit, WriteGatedAudit
  <2>2. b # a /\ (UNCHANGED audit \/ audit' = [audit EXCEPT ![b] = NewRecord])
    BY <2>1 DEF CreateRecord
  <2> QED BY <1>1, <1>2, <2>2
<1>4. ASSUME \/ \E b \in Audits : Sweep(b) \/ RequestRevert(b)
             \/ \E r \in Outcomes : SetReverted(r)
      PROVE  Goal
  BY <1>0, <1>1, <1>2, <1>4, QuietWriteEffect DEF SameGate
<1>5. ASSUME \E u \in Users : Commit(u) PROVE Goal
  BY <1>0, <1>1, <1>2, <1>5, CommitEffect
<1>6. ASSUME \E r \in Outcomes : MarkPending(r) PROVE Goal
  BY <1>0, <1>1, <1>2, <1>6, MarkPendingEffect DEF SameGate
<1>7. ASSUME NEW r \in Outcomes, RecordHeld(r), ~UNCHANGED audit
      PROVE  Goal
  <2>1. /\ ar.a \in Audits
        /\ Closing(ar.phase, ar.copy, audit[ar.a], heldRuns[ar.a], now, policyCache)
        /\ Current("held", ar.phase, ar.copy, audit[ar.a])
    BY <1>0, <1>7, RecordHeldEffect
  <2>2. PICK new \in AuditObj : /\ audit' = [audit EXCEPT ![ar.a] = new]
                                /\ new.uid = audit[ar.a].uid /\ new.gated = audit[ar.a].gated
                                /\ new.phase = audit[ar.a].phase
    BY <1>0, <1>7, RecordHeldEffect DEF SameGate
  <2>3. audit[ar.a].phase = "Pending" /\ audit[ar.a].gated
    BY <1>0, <2>1 DEF Closing, Current, OutcomeInv, GateRecordInv, Sound
  <2> QED BY <1>2, <2>1, <2>2, <2>3
<1> DEFINE Ends == /\ audit'[a].gated = audit[a].gated
                   /\ Finished(a) => audit'[a].recs = audit[a].recs
                   /\ \E r \in Outcomes : /\ SetPhase(r) /\ ~UNCHANGED <<audit, auditFresh>>
                                           /\ ar.a = a /\ ar.phase = "Approved"
<1>8. ASSUME NEW r \in Outcomes, SetPhase(r), ~UNCHANGED audit
      PROVE  Goal \/ Ends
  <2>1. /\ ar.a \in Audits
        /\ Closing(ar.phase, ar.copy, audit[ar.a], heldRuns[ar.a], now, policyCache)
        /\ Current("phase", ar.phase, ar.copy, audit[ar.a])
    BY <1>0, <1>8, SetPhaseEffect
  <2>2. PICK new \in AuditObj : /\ audit' = [audit EXCEPT ![ar.a] = new]
                                /\ new.uid = audit[ar.a].uid /\ new.gated = audit[ar.a].gated
                                /\ new.phase = ar.phase /\ new.recs = audit[ar.a].recs
    BY <1>0, <1>8, SetPhaseEffect DEF SameGate
  <2>3. audit[ar.a].phase = "Pending" /\ audit[ar.a].gated
    BY <1>0, <2>1 DEF Closing, Current, OutcomeInv, GateRecordInv, Sound
  <2>4. CASE ar.a = a /\ ar.phase = "Approved"
    <3>1. audit'[a] = new
      BY <1>0, <2>1, <2>2, <2>4
    <3> QED BY <1>8, <2>2, <2>4, <3>1
  <2>5. CASE ~(ar.a = a /\ ar.phase = "Approved")
    BY <1>2, <2>1, <2>2, <2>3, <2>5
  <2> QED BY <2>4, <2>5
<1>9. Goal \/ Ends
  <2> HIDE DEF Goal, Ends
  <2> QED BY <1>1, <1>3, <1>4, <1>5, <1>6, <1>7, <1>8, AuditWriters, Zenon
<1>10. CASE Goal
  BY <1>10
<1>11. CASE Ends
  BY <1>11
<1> QED BY <1>9, <1>10, <1>11

(* A release runs something. *)
LEMMA ReleaseRunsSome ==
  ASSUME Base, ScopeInv, NEW a \in Audits, ReleaseGate(a), AsOpened(a)
  PROVE  ar'.copy.recs # <<>> /\ FlattenSeq(ar'.copy.recs[Len(ar'.copy.recs)].results) # <<>>
<1> DEFINE rec == auditCache[a]
           p   == policyCache.actions
<1>0. TypeOK /\ OutcomeInv
  BY DEF Base
<1>1. /\ rec \in AuditObj /\ rec.gated /\ (a \notin rewritten => rec.held # <<>>)
      /\ rec.uid = audit[a].uid /\ audit[a].uid # 0 /\ audit[a].gated
  BY <1>0, CachedPending DEF ReleaseGate, Resolving, OutcomeInv, GateRecordInv, Sound
<1>2. policyCache.uid = audit[a].uid
  BY <1>0, ReleaseGateEffect
<1>3. /\ rec.index = audit[a].index /\ rec.held = audit[a].held /\ rec.held # <<>>
      /\ OfPipeline(audit[a], p)
  <2>1. a \notin rewritten /\ p \in versions[audit[a].uid]
    BY <1>1, <1>2 DEF AsOpened, ScopeInv, VersionInv, Had
  <2>2. PICK q \in versions[audit[a].uid] : OfPipeline(audit[a], q)
    BY <1>1, <2>1 DEF ScopeInv, RecordScope
  <2>3. p = q
    BY <1>1, <2>1, <2>2 DEF AsOpened
  <2> QED BY <1>1, <2>1, <2>2, <2>3 DEF ScopeInv, RecordScope, SameGate
<1>4. p \in Seq(Action)
  BY <1>0, ClusterAssumption DEF TypeOK, ClusterTypeOK, PolicyObj
<1>5. rec.index < Len(p)
  <2>1. rec.index \in 0..Len(p) /\ rec.held = HeldPlugins(p, rec.index)
    BY <1>3 DEF OfPipeline
  <2>2. CASE rec.index = Len(p)
    <3>1. HeldPlugins(p, Len(p)) = <<>>
      BY <1>4 DEF HeldPlugins
    <3> QED BY <1>3, <2>1, <2>2, <3>1
  <2> QED BY <1>4, <2>1, <2>2
<1>6. PICK rs : ReleaseRun(a, rs)
  BY <1>0, ReleaseRuns
<1>7. /\ rs \in Seq(Seq(Result)) /\ Len(rs) \in Nat /\ Len(rs) # 0
      /\ \A i \in 1..Len(rs) : rs[i] # <<>>
      /\ ar'.copy = [rec EXCEPT !.recs = Append(@, [kind |-> "released", results |-> rs])]
  BY <1>5, <1>6 DEF ReleaseRun
<1>10. rs # <<>> /\ rs[Len(rs)] # <<>>
  <2>1. Len(rs) \in 1..Len(rs)
    BY <1>7
  <2>2. rs[Len(rs)] # <<>>
    BY <1>7, <2>1
  <2>3. rs # <<>>
    BY <1>7
  <2> QED BY <2>2, <2>3
<1>11. FlattenSeq(rs) # <<>>
  BY <1>7, <1>10, FlattenSeqSome
<1> DEFINE b    == [kind |-> "released", results |-> rs]
           recs == rec.recs
<1>12. b \in Batch /\ b.results = rs /\ recs \in Seq(Batch)
  BY <1>1, <1>7, CopyRecs DEF Batch
<1>13. ar'.copy.recs = Append(recs, b)
  BY <1>1, <1>7 DEF AuditObj
<1> HIDE DEF b, recs
<1>14. Append(recs, b) # <<>> /\ Append(recs, b)[Len(Append(recs, b))] = b
  BY <1>12
<1> QED BY <1>11, <1>12, <1>13, <1>14

LEMMA NextRelease ==
  ASSUME Base, ScopeInv, ReleaseInv, [ObsNext]_allVars
  PROVE  ReleaseInv'
<1>0. TypeOK /\ OutcomeInv
  BY DEF Base
<1>1. ASSUME UNCHANGED ar PROVE ReleaseInv'
  <2>1. ar.pc \in {"held", "phase"} => ar.a \in Audits /\ audit[ar.a].uid # 0
    BY <1>0, OutcomeTypes DEF OutcomeInv, WorkInv, Closing
  <2> QED BY <1>1, <2>1, OpenedBefore DEF ReleaseInv
<1>2. ASSUME ar'.pc \notin {"held", "phase"} \/ ar'.phase # "Approved" PROVE ReleaseInv'
  BY <1>2 DEF ReleaseInv
<1>3. CASE Clock \/ Informer \/ PolicyUser \/ AuditUser \/ PolicyStep
  <2>1. UNCHANGED ar
    BY <1>3, Zenon DEF Clock, Informer, PolicyUser, AuditUser, PolicyStep, ClusterFrame, ApprovalFrame,
       UserFrame, PolicyFrame, auditRecVars
  <2> QED BY <1>1, <2>1
<1>4. CASE Crash
  <2>1. ar'.pc = "idle"
    BY <1>4 DEF Crash, ArIdle
  <2> QED BY <1>2, <2>1
<1>5. CASE UNCHANGED vars \/ WriteFails
  <2>1. UNCHANGED ar
    BY <1>5, WriteFailsFrame DEF vars, auditRecVars
  <2> QED BY <1>1, <2>1
<1>6. CASE AuditStep
  <2>1. ASSUME NEW a \in Audits, DenyGate(a) \/ ExpireGate(a) PROVE ReleaseInv'
    <3>1. ar'.phase # "Approved"
      BY <1>0, <2>1, CloseGateEffect
    <3> QED BY <1>2, <3>1
  <2>2. ASSUME NEW a \in Audits, ReleaseGate(a) PROVE ReleaseInv'
    <3>1. ar'.a = a /\ audit[a].uid # 0
      BY <1>0, <2>2, ReleaseGateEffect, CachedPending DEF ReleaseGate, Resolving
    <3>2. AsOpened(a)' => AsOpened(a)
      BY <3>1, OpenedBefore
    <3> QED BY <2>2, <3>1, <3>2, ReleaseRunsSome DEF ReleaseInv
  <2>3. ASSUME NEW r \in Outcomes, RecordHeld(r) PROVE ReleaseInv'
    <3>1. ar.pc = "held" /\ (ar' = ArIdle \/ ar' = [ar EXCEPT !.pc = "phase"])
      BY <2>3 DEF RecordHeld
    <3>2. CASE ar' = ArIdle
      BY <1>2, <3>2 DEF ArIdle
    <3>3. CASE ar' = [ar EXCEPT !.pc = "phase"]
      <4>1. ar \in ArState
        BY <1>0 DEF TypeOK, AuditRecTypeOK
      <4>2. ar'.copy = ar.copy /\ ar'.phase = ar.phase /\ ar'.a = ar.a
        BY <3>1, <3>3, <4>1 DEF ArState
      <4>3. ar.a \in Audits /\ audit[ar.a].uid # 0
        BY <1>0, <3>1, OutcomeTypes DEF OutcomeInv, WorkInv, Closing
      <4> QED BY <3>1, <4>2, <4>3, OpenedBefore DEF ReleaseInv
    <3> QED BY <3>1, <3>2, <3>3
  <2>4. ASSUME NEW r \in Outcomes, SetPhase(r) PROVE ReleaseInv'
    <3>1. ar'.pc \in {"idle", "cooldown", "refetch"}
      BY <2>4 DEF SetPhase, ArIdle
    <3> QED BY <1>2, <3>1
  <2>5. ASSUME RefetchPolicy \/ \E r \in Outcomes : StartCooldown(r) \/ SetReverted(r)
        PROVE  ReleaseInv'
    <3>1. ar'.pc \in {"idle", "cooldown"}
      BY <2>5 DEF StartCooldown, RefetchPolicy, SetReverted, ArIdle
    <3> QED BY <1>2, <3>1
  <2>6. ASSUME NEW a \in Audits, Sweep(a) \/ Revert(a) PROVE ReleaseInv'
    <3>1. UNCHANGED ar \/ ar'.pc \in {"idle", "reverted"}
      BY <2>6 DEF Sweep, Revert, ArIdle, auditRecVars
    <3> QED BY <1>1, <1>2, <3>1
  <2> QED BY <1>6, <2>1, <2>2, <2>3, <2>4, <2>5, <2>6, Zenon DEF AuditStep
<1> QED BY <1>3, <1>4, <1>5, <1>6, ObsSteps DEF Next

LEMMA NextScopeObs ==
  ASSUME Base, ScopeInv, [ObsNext]_allVars
  PROVE  ScopeInv'
<1>1. CASE [Next]_vars
  BY <1>1, NextScope DEF Base
<1>2. CASE WriteFails
  BY <1>2, WriteFailsFrame
     DEF ScopeInv, VersionInv, Had, RecordScope, From
<1> QED BY <1>1, <1>2, ObsSteps

(* CoverInv is TrailComplete with the rows still in the queue counted. *)
Covered(a) ==
  \A k \in 1..Len(Actions(audit[a].recs)) :
    \E row \in Rows("executions") : row.a = a /\ row.index = k - 1

CoverInv ==
  faults = 0 => \A a \in Audits \ lost : Finished(a) /\ AsOpened(a) => Covered(a)

LEMMA CoveredKept ==
  ASSUME Base, HoldsInv, SinkTyped, [ObsNext]_allVars, NEW a \in Audits, a \notin lost',
         audit'[a].recs = audit[a].recs, Covered(a)
  PROVE  Covered(a)'
<1>1. RowsKept
  BY SinkSteps
<1> SUFFICES ASSUME NEW k \in 1..Len(Actions(audit[a].recs))
             PROVE  \E row \in Rows("executions")' : row.a = a /\ row.index = k - 1
  BY DEF Covered
<1>2. PICK row \in Rows("executions") : row.a = a /\ row.index = k - 1
  BY DEF Covered
<1>3. PICK x \in Rows("executions")' : SameKey(x, row)
  BY <1>1, <1>2 DEF RowsKept, Tables
<1> QED BY <1>2, <1>3 DEF SameKey

(* Once the rows of all of a record's actions are accepted, it is covered. *)
LEMMA ForwardCovers ==
  ASSUME SinkTyped, NEW a \in Audits, a \notin lost', audit'[a].recs \in Seq(Batch),
         Forward(a, "executions", BuildSinkEvents(a, audit'[a].recs))
  PROVE  Covered(a)'
<1> DEFINE recs == audit'[a].recs
           rows == BuildSinkEvents(a, recs)
<1>1. /\ AreAbout(rows, a, "executions", recs) /\ Len(rows) = Len(Actions(recs))
      /\ \A i \in 1..Len(Actions(recs)) : rows[i].index = i - 1
  BY SinkEventsTell
<1>2. \A i \in 1..Len(rows) : rows[i].a = a
  BY <1>1 DEF AreAbout
<1> HIDE DEF rows
<1>3. Forward(a, "executions", rows)
  BY DEF rows
<1>4. \A i \in 1..Len(rows) : rows[i] \in Rows("executions")'
  BY <1>1, <1>3, ForwardRows DEF Tables
<1>5. \A k \in 1..Len(Actions(recs)) :
        \E row \in Rows("executions")' : row.a = a /\ row.index = k - 1
  BY <1>1, <1>2, <1>4
<1> QED BY <1>5 DEF Covered

(* The records a step leaves as they are. *)
LEMMA OthersCovered ==
  ASSUME Base, HoldsInv, SinkTyped, ScopeInv, CoverInv, [ObsNext]_allVars, faults' = 0,
         NEW a \in Audits, a \notin lost', Finished(a)', AsOpened(a)', audit'[a] = audit[a]
  PROVE  Covered(a)'
<1>1. faults = 0 /\ a \notin lost /\ Finished(a) /\ AsOpened(a)
  BY FaultFree, SinkSteps, OpenedBefore DEF RowsKept, Finished
<1> QED BY <1>1, CoveredKept DEF CoverInv

LEMMA CoverKept ==
  ASSUME Base, HoldsInv, SinkTyped, ScopeInv, CoverInv, [ObsNext]_allVars,
         \/ UNCHANGED audit
         \/ ~(pr.pc = "create" /\ pr'.pc # "create") /\ ~(ar.pc = "phase" /\ ar'.pc # "phase")
  PROVE  CoverInv'
<1> SUFFICES ASSUME faults' = 0, NEW a \in Audits, a \notin lost', Finished(a)', AsOpened(a)'
             PROVE  Covered(a)'
  BY DEF CoverInv
<1>1. CASE audit'[a] = audit[a]
  BY <1>1, OthersCovered
<1>2. CASE audit'[a] # audit[a]
  <2>0. TypeOK /\ [Next]_vars
    BY <1>2, ObsSteps, WriteFailsFrame DEF Base
  <2>1. ~(pr.pc = "create" /\ pr'.pc # "create") /\ ~(ar.pc = "phase" /\ ar'.pc # "phase")
    BY <1>2
  <2>2. ASSUME NEW b \in Audits, NEW r \in Outcomes, WriteAudit(b, r) \/ WriteGatedAudit(b, r)
        PROVE  FALSE
    BY <2>1, <2>2 DEF WriteAudit, WriteGatedAudit, PrRequeue
  <2>3. audit[a].uid # 0
    <3>1. audit'[a].uid = audit[a].uid
      BY <2>0, <2>2, RecordsKept DEF SameRecord
    <3> QED BY <3>1 DEF Finished
  <2>4. ASSUME NEW r \in Outcomes, SetPhase(r) PROVE FALSE
    <3>1. ar.pc = "phase" /\ ar'.pc \in {"idle", "cooldown", "refetch"}
      BY <2>4 DEF SetPhase, ArIdle
    <3> QED BY <2>1, <3>1
  <2>5. Finished(a) /\ audit'[a].recs = audit[a].recs
    BY <2>0, <2>3, <2>4, RecordFate
  <2>6. faults = 0 /\ a \notin lost /\ AsOpened(a)
    BY <2>3, FaultFree, SinkSteps, OpenedBefore DEF RowsKept
  <2> QED BY <2>5, <2>6, CoveredKept DEF CoverInv
<1> QED BY <1>1, <1>2

LEMMA CreateCovers ==
  ASSUME Base, HoldsInv, SinkTyped, ScopeInv, CoverInv, [ObsNext]_allVars, NEW b \in Audits, NEW r \in Outcomes,
         \/ /\ WriteAudit(b, r)
            /\ IF r = "ok" THEN Forward(b, "executions", BuildSinkEvents(b, NewRecord.recs))
                           ELSE UNCHANGED sinkVars
         \/ WriteGatedAudit(b, r)
  PROVE  CoverInv'
<1> SUFFICES ASSUME faults' = 0, NEW a \in Audits, a \notin lost', Finished(a)', AsOpened(a)'
             PROVE  Covered(a)'
  BY DEF CoverInv
<1>0. TypeOK /\ audit \in [Audits -> AuditObj] /\ pr.pc = "create" /\ CreateRecord(b, r)
  BY OutcomeTypes DEF Base, WriteAudit, WriteGatedAudit
<1>1. UNCHANGED audit \/ audit' = [audit EXCEPT ![b] = NewRecord]
  BY <1>0 DEF CreateRecord
<1>2. CASE audit'[a] = audit[a]
  BY <1>2, OthersCovered
<1>3. CASE audit'[a] # audit[a]
  <2>1. a = b /\ audit'[a] = NewRecord
    BY <1>0, <1>1, <1>3
  <2>2. r = "ok"
    <3>1. CallEnds(TRUE, r) /\ r # "conflict"
      BY <1>0 DEF CreateRecord
    <3> QED BY <3>1, CallFaults
  <2>3. CASE WriteGatedAudit(b, r)
    <3>1. GateIndex(pr.pol.actions) >= 0
      BY <2>3 DEF WriteGatedAudit
    <3>2. NewRecord.gated /\ NewRecord.phase = ""
      BY <1>0, <3>1, NewRecordSound
    <3> QED BY <2>1, <3>2 DEF Finished
  <2>4. CASE WriteAudit(b, r) /\ Forward(b, "executions", BuildSinkEvents(b, NewRecord.recs))
    <3>1. NewRecord.recs \in Seq(Batch)
      BY <2>2, <2>4, CreateForwards
    <3> QED BY <2>1, <2>4, <3>1, ForwardCovers
  <2> QED BY <2>2, <2>3, <2>4
<1> QED BY <1>2, <1>3

LEMMA SetPhaseCovers ==
  ASSUME Base, HoldsInv, SinkTyped, ScopeInv, ReleaseInv, CoverInv, [ObsNext]_allVars, [Next]_vars,
         NEW r \in Outcomes, SetPhase(r),
         IF r = "ok" THEN Forward(ar.a, "executions", ReleasedRows) ELSE UNCHANGED sinkVars
  PROVE  CoverInv'
<1> SUFFICES ASSUME faults' = 0, NEW a \in Audits, a \notin lost', Finished(a)', AsOpened(a)'
             PROVE  Covered(a)'
  BY DEF CoverInv
<1>0. TypeOK /\ OutcomeInv /\ GateInv /\ audit \in [Audits -> AuditObj]
  BY OutcomeTypes DEF Base
<1>1. CASE audit'[a] = audit[a]
  BY <1>1, OthersCovered
<1>2. CASE audit'[a] # audit[a]
  <2>1. ar.a \in Audits /\ a = ar.a
    BY <1>0, <1>2, SetPhaseEffect
  <2>2. r = "ok"
    <3>1. CASE r = "conflict"
      BY <1>2, <3>1 DEF SetPhase, UpdateAuditStatus, StoreAudit, Applied
    <3>2. CASE r \notin {"ok", "conflict"}
      BY <3>2, CallFaults DEF SetPhase, UpdateAuditStatus, StoreAudit
    <3> QED BY <3>1, <3>2
  <2>3. SetPhase("ok") /\ Forward(ar.a, "executions", ReleasedRows)
    BY <2>2
  <2>4. /\ audit[a].phase = "Pending" /\ audit'[a].phase = ar.phase
    BY <2>1, <2>3, SetPhaseCloses DEF OpenGates
  <2>5. audit[a].gated /\ audit[a].uid # 0
    BY <1>0, <2>4 DEF OutcomeInv, GateRecordInv, Sound
  <2>6. ar.phase = "Approved"
    <3>1. audit'[a].gated
      BY <2>5, RecordFate
    <3> QED BY <2>4, <3>1 DEF Finished
  <2>7. ar.copy.recs \in Seq(Batch) /\ ar.copy.recs = audit'[a].recs
    BY <2>1, <2>3, SetPhaseForwards
  <2>8. ReleasedRows = BuildSinkEvents(a, audit'[a].recs)
    <3>1. ar.pc = "phase" /\ AsOpened(ar.a)
      BY <2>1, <2>3, <2>5, OpenedBefore DEF SetPhase
    <3> QED BY <2>1, <2>6, <2>7, <3>1 DEF ReleaseInv, ReleasedRows
  <2> QED BY <2>1, <2>3, <2>7, <2>8, ForwardCovers
<1> QED BY <1>1, <1>2

LEMMA NextCover ==
  ASSUME Base, HoldsInv, SinkTyped, ScopeInv, ReleaseInv, CoverInv, [ObsNext]_allVars
  PROVE  CoverInv'
<1>1. CASE Outside
  <2>1. UNCHANGED <<pr, ar>>
    BY <1>1, Zenon DEF Outside, Clock, Informer, PolicyUser, AuditUser, ClusterFrame, ApprovalFrame,
       UserFrame, reconcilerVars, auditRecVars
  <2> QED BY <2>1, CoverKept
<1>2. CASE Poll
  <2>1. UNCHANGED ar
    BY <1>2, Zenon DEF Poll, PolicyFrame, auditRecVars
  <2>2. pr.pc # "create"
    BY <1>2 DEF Poll, ForgetPolicy, AwaitApproval, CoolDown, RateLimited, EvaluationFails, Evaluate,
       PastGates
  <2> QED BY <2>1, <2>2, CoverKept
<1>3. CASE Trigger
  <2>1. UNCHANGED ar
    BY <1>3, Zenon DEF Trigger, PolicyFrame, auditRecVars
  <2>2. ASSUME pr.pc # "create" PROVE CoverInv'
    BY <2>1, <2>2, CoverKept
  <2>3. CASE \/ ResolveFails \/ RunPipeline
             \/ \E r \in Outcomes : MarkPending(r) \/ Requeue(r)
    <3>1. pr.pc # "create"
      BY <2>3 DEF ResolveFails, RunPipeline, MarkPending, Requeue
    <3> QED BY <2>2, <3>1
  <2> QED BY <1>3, <2>3, CreateCovers, Zenon DEF Trigger
<1>4. CASE Resolve
  <2>1. UNCHANGED pr /\ [Next]_vars
    <3>1. AuditStep
      BY <1>4, Zenon DEF Resolve, AuditStep
    <3>2. UNCHANGED pr
      BY <1>4, Zenon DEF Resolve, AuditFrame, reconcilerVars
    <3> QED BY <3>1, <3>2 DEF Next
  <2>2. ASSUME ar.pc # "phase" PROVE CoverInv'
    BY <2>1, <2>2, CoverKept
  <2>3. CASE \/ \E a \in Audits : DenyGate(a) \/ ExpireGate(a) \/ ReleaseGate(a)
             \/ \E r \in Outcomes : RecordHeld(r) \/ StartCooldown(r)
             \/ RefetchPolicy
    <3>1. ar.pc # "phase"
      BY <2>3 DEF DenyGate, ExpireGate, ReleaseGate, Resolving, RecordHeld, StartCooldown,
         RefetchPolicy
    <3> QED BY <2>2, <3>1
  <2> QED BY <1>4, <2>1, <2>3, SetPhaseCovers, Zenon DEF Resolve
<1>5. CASE Housekeeping
  <2>1. UNCHANGED pr
    BY <1>5, Zenon DEF Housekeeping, AuditFrame, reconcilerVars
  <2>2. ar.pc # "phase"
    BY <1>5 DEF Housekeeping, Sweep, Revert, SetReverted
  <2> QED BY <2>1, <2>2, CoverKept
<1>6. CASE Restart
  <2>1. UNCHANGED audit
    BY <1>6 DEF Restart, Crash
  <2> QED BY <2>1, CoverKept
<1>7. CASE WriteBatch \/ WriteFails \/ UNCHANGED allVars
  <2>1. UNCHANGED audit
    BY <1>7, WriteFailsFrame DEF WriteBatch, allVars, vars, clusterVars
  <2> QED BY <2>1, CoverKept
<1> QED BY <1>1, <1>2, <1>3, <1>4, <1>5, <1>6, <1>7 DEF ObsNext

LEMMA InitCover == ObsInit => ScopeInv /\ ReleaseInv /\ CoverInv
<1> SUFFICES ASSUME ObsInit PROVE ScopeInv /\ ReleaseInv /\ CoverInv
  OBVIOUS
<1>1. Init /\ ScopeInv
  BY InitScope DEF ObsInit
<1>2. ReleaseInv
  BY <1>1 DEF Init, AuditRecInit, ArIdle, ReleaseInv
<1>3. ASSUME NEW a \in Audits PROVE ~Finished(a)
  BY <1>1 DEF Init, ClusterInit, NoRecord, Finished
<1> QED BY <1>1, <1>2, <1>3 DEF CoverInv

LEMMA CoverComplete ==
  ASSUME Base, SinkTyped, RowsTell, CoverInv
  PROVE  TrailComplete
<1> SUFFICES ASSUME queue = <<>>, faults = 0, NEW a \in Audits, a \notin lost, Finished(a), AsOpened(a)
             PROVE  AllStored(a)
  BY DEF TrailComplete
<1> DEFINE n    == Len(Actions(audit[a].recs))
           mine == {x \in executions : x.a = a}
<1>1. Rows("executions") = executions
  BY DEF Rows
<1>2. \A k \in 1..n : \E row \in executions : row.a = a /\ row.index = k - 1
  BY <1>1 DEF CoverInv, Covered
<1>3. \A row \in mine : row.index \in Nat /\ row.index < n
  <2> SUFFICES ASSUME NEW row \in mine PROVE row.index \in Nat /\ row.index < n
    OBVIOUS
  <2>1. row \in Row /\ row.a = a
    BY DEF SinkTyped
  <2>2. Tells("executions", row, audit[row.a].recs)
    BY <1>1 DEF RowsTell, Tables
  <2> QED BY <2>1, <2>2 DEF Tells, Executed, Row
<1>4. n \in Nat
  <2>1. audit[a].recs \in Seq(Batch)
    BY OutcomeTypes, CopyRecs DEF Base
  <2> QED BY <2>1, ActionsType
<1> HIDE DEF n
<1>5. ASSUME NEW i \in 0..(n - 1) PROVE \E row \in mine : row.index = i
  <2>1. i + 1 \in 1..n /\ (i + 1) - 1 = i
    BY <1>4
  <2>2. PICK row \in executions : row.a = a /\ row.index = (i + 1) - 1
    BY <1>2, <2>1
  <2> QED BY <2>1, <2>2
<1>6. \A row \in mine : row.index \in 0..(n - 1)
  BY <1>3, <1>4
<1> HIDE DEF mine
<1>7. {row.index : row \in mine} = 0..(n - 1)
  BY <1>5, <1>6
<1> QED BY <1>7 DEF n, mine, AllStored

TrailInv == ReportInv /\ ScopeInv /\ ReleaseInv /\ CoverInv

LEMMA NextTrail ==
  ASSUME TrailInv, [ObsNext]_allVars
  PROVE  TrailInv'
<1>1. /\ ReportInv /\ Base /\ HoldsInv /\ SinkTyped
      /\ ScopeInv /\ ReleaseInv /\ CoverInv
  BY DEF TrailInv, ReportInv, ObsTypeOK, SinkTyped
<1> QED BY <1>1, NextReport, NextScopeObs, NextRelease, NextCover DEF TrailInv

(* With the sink idle, no call failed and no batch of the record dropped,  *)
(* action_executions has the index of every action of a finished record:   *)
(* none is missing, and none is of an action the record does not have.     *)
(* A policy that was edited is exempt: a pipeline shortened between a      *)
(* release that could not set the phase and its retry leaves the retry     *)
(* nothing to run and so nothing to forward, and the rows of the first are *)
(* never sent.                                                             *)
THEOREM TrailIsComplete == ObsSpec => []TrailComplete
<1>1. ObsInit => TrailInv
  BY InitReport, InitCover DEF TrailInv
<1>2. TrailInv /\ [ObsNext]_allVars => TrailInv'
  BY NextTrail
<1>3. TrailInv => TrailComplete
  BY CoverComplete DEF TrailInv, ReportInv, ObsTypeOK, SinkTyped
<1> QED BY <1>1, <1>2, <1>3, PTL DEF ObsSpec
================================================================================
