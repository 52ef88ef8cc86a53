---------------------------- MODULE ExecutorProofs ----------------------------
(***************************************************************************)
(* The executor's loop computes Pipeline!RunRange, for pipelines of any    *)
(* length: the loop invariants of RunRange's run and of its rollback.      *)
(***************************************************************************)
EXTENDS Executor, WellFoundedInduction, TLAPS

(* The results of the first n actions of the range, those at the indices   *)
(* of rev marked as reversed.                                              *)
Entry(j, rev) ==
  [plugin |-> p[j + 1].plugin, status |-> outcome[j], reversed |-> j \in rev]
Ran(n, rev) == [k \in 1..n |-> Entry(from + k - 1, rev)]

last == LastRun(p, from, to, outcome)

(* The indices a rollback has undone once it is down to index j.           *)
Undone(j) == {x \in undone : x > j /\ outcome[x] = "Succeeded"}

Arguments ==
  /\ p \in Seq(Action) /\ from \in Nat /\ to \in Nat
  /\ from <= to /\ to <= Len(p)
  /\ outcome \in [from..(to - 1) -> Statuses]
  /\ undone \in SUBSET (from..(to - 1))

(* Going up, everything before i ran and nothing aborted; going down, the  *)
(* action that aborted asks for the rollback, and what is above i is       *)
(* undone.                                                                 *)
Ascending ==
  pc = "run" =>
    /\ i \in from..to
    /\ \A j \in Aborts(p, from, to, outcome) : i <= j
    /\ results = Ran(i - from, {})

Descending ==
  pc = "rollback" =>
    /\ i \in from..last
    /\ last \in Aborts(p, from, to, outcome)
    /\ p[last + 1].onFailure = "rollback"
    /\ results = Ran(last - from + 1, Undone(i))

LoopInv ==
  /\ Arguments
  /\ pc \in {"run", "rollback", "done"}
  /\ Ascending /\ Descending /\ LoopIsRunRange

(* A non-empty set of naturals has a least element.                        *)
LEMMA LeastElement ==
  ASSUME NEW S \in SUBSET Nat, S # {}
  PROVE  \E m \in S : \A j \in S : m <= j
<1>1. PICK m \in S : \A j \in S : ~(<<j, m>> \in OpToRel(<, Nat))
  BY NatLessThanWellFounded, WFMin
<1>2. ASSUME NEW j \in S PROVE m <= j
  <2>1. <<j, m>> \in Nat \X Nat
    OBVIOUS
  <2>2. ~(j < m)
    BY <1>1, <2>1 DEF OpToRel
  <2> QED BY <2>2
<1> QED BY <1>2

(* Every abort is at an index of the range.                                *)
LEMMA AbortsInRange ==
  ASSUME Arguments
  PROVE  \A j \in Aborts(p, from, to, outcome) : j \in from..(to - 1)
BY DEF Arguments, Aborts

LEMMA LastInRange ==
  ASSUME Arguments
  PROVE  /\ last \in Int /\ last < to /\ from - 1 <= last
         /\ Aborts(p, from, to, outcome) # {} =>
              /\ last \in Aborts(p, from, to, outcome)
              /\ \A j \in Aborts(p, from, to, outcome) : last <= j
<1> DEFINE aborts == Aborts(p, from, to, outcome)
<1>1. aborts \in SUBSET Nat /\ \A j \in aborts : from <= j /\ j < to
  BY DEF Arguments, Aborts
<1>2. CASE aborts = {}
  BY <1>2 DEF Arguments, last, LastRun
<1>3. CASE aborts # {}
  <2>1. \E j \in aborts : \A k \in aborts : j <= k
    BY <1>1, <1>3, LeastElement
  <2>2. last = CHOOSE j \in aborts : \A k \in aborts : j <= k
    BY <1>3 DEF last, LastRun
  <2> QED BY <1>1, <2>1, <2>2 DEF Arguments
<1> QED BY <1>2, <1>3

(* The least abort is where the range ends.                                *)
LEMMA LastIsFirstAbort ==
  ASSUME Arguments, NEW j \in Aborts(p, from, to, outcome),
         \A x \in Aborts(p, from, to, outcome) : j <= x
  PROVE  last = j
<1>1. last <= j /\ j <= last
  BY LastInRange
<1>2. last \in Int /\ j \in Int
  BY LastInRange, AbortsInRange DEF Arguments
<1> QED BY <1>1, <1>2

(* RunRange in the form the loop builds it.                                *)
LEMMA RunRangeIsRan ==
  ASSUME Arguments, NEW rev,
         rev = IF /\ Aborts(p, from, to, outcome) # {}
                  /\ p[last + 1].onFailure = "rollback"
               THEN Undone(from - 1) ELSE {}
  PROVE  RunRange(p, from, to, outcome, undone) = Ran(last - from + 1, rev)
<1> DEFINE n        == last - from + 1
           rollback == /\ Aborts(p, from, to, outcome) # {}
                       /\ p[last + 1].onFailure = "rollback"
<1>1. ASSUME NEW j \in from..(to - 1)
      PROVE  (rollback /\ outcome[j] = "Succeeded" /\ j \in undone) = (j \in rev)
  <2>1. j > from - 1
    BY DEF Arguments
  <2> QED BY <2>1 DEF Undone
<1>2. \A k \in 1..n : from + k - 1 \in from..(to - 1)
  <2>1. last \in Int /\ last < to /\ from \in Nat /\ to \in Nat
    BY LastInRange DEF Arguments
  <2> HIDE DEF last
  <2> QED BY <2>1
<1>3. ASSUME NEW k \in 1..n
      PROVE  [plugin   |-> p[from + k - 1 + 1].plugin,
              status   |-> outcome[from + k - 1],
              reversed |-> rollback /\ outcome[from + k - 1] = "Succeeded"
                             /\ from + k - 1 \in undone]
               = Entry(from + k - 1, rev)
  BY <1>1, <1>2, Zenon DEF Entry
<1>4. RunRange(p, from, to, outcome, undone)
        = [k \in 1..n |->
             [plugin   |-> p[from + k - 1 + 1].plugin,
              status   |-> outcome[from + k - 1],
              reversed |-> rollback /\ outcome[from + k - 1] = "Succeeded"
                             /\ from + k - 1 \in undone]]
  BY DEF RunRange, last
<1> QED BY <1>3, <1>4, Zenon DEF Ran

(* A function on 1..n is a sequence of length n.                           *)
LEMMA FunctionLength ==
  ASSUME NEW S, NEW n \in Nat, NEW f \in [1..n -> S]
  PROVE  f \in Seq(S) /\ Len(f) = n
OBVIOUS

(* Marking a result changes nothing else of it.                            *)
LEMMA Marked ==
  ASSUME NEW P, NEW Q, NEW R, NEW r \in [plugin : P, status : Q, reversed : R],
         NEW v \in R
  PROVE  [r EXCEPT !.reversed = v]
           = [plugin |-> r.plugin, status |-> r.status, reversed |-> v]
OBVIOUS

(* One more action: the results grow by its entry.                         *)
LEMMA RanGrows ==
  ASSUME Arguments, NEW n \in Nat
  PROVE  Append(Ran(n, {}), Entry(from + n, {})) = Ran(n + 1, {})
<1> DEFINE a == Append(Ran(n, {}), Entry(from + n, {}))
           b == Ran(n + 1, {})
           S == {Entry(from + k - 1, {}) : k \in 1..(n + 1)}
<1>1. from + (n + 1) - 1 = from + n /\ from \in Nat
  BY DEF Arguments
<1>2. Ran(n, {}) \in [1..n -> S] /\ b \in [1..(n + 1) -> S]
  BY DEF Ran
<1>3. Entry(from + n, {}) \in S
  <2>1. n + 1 \in 1..(n + 1)
    OBVIOUS
  <2> QED BY <1>1, <2>1
<1>4. Ran(n, {}) \in Seq(S) /\ Len(Ran(n, {})) = n
  <2> HIDE DEF S
  <2> QED BY <1>2, FunctionLength
<1>5. b \in Seq(S) /\ Len(b) = n + 1
  <2>1. n + 1 \in Nat
    OBVIOUS
  <2> HIDE DEF S, b
  <2> QED BY <1>2, <2>1, FunctionLength
<1>6. /\ Len(a) = n + 1 /\ a \in Seq(S)
      /\ \A k \in 1..n : a[k] = Ran(n, {})[k]
      /\ a[n + 1] = Entry(from + n, {})
  BY <1>3, <1>4
<1>7. \A k \in 1..n : b[k] = Ran(n, {})[k]
  BY DEF Ran
<1>8. b[n + 1] = Entry(from + n, {})
  BY <1>1 DEF Ran
<1>9. ASSUME NEW k \in 1..(n + 1) PROVE a[k] = b[k]
  <2>1. k \in 1..n \/ k = n + 1
    OBVIOUS
  <2> QED BY <1>6, <1>7, <1>8, <2>1
<1>10. a = [k \in 1..(n + 1) |-> a[k]] /\ b = [k \in 1..(n + 1) |-> b[k]]
  <2> HIDE DEF a, b
  <2> QED BY <1>5, <1>6
<1> QED BY <1>9, <1>10

(* One Reverse call: the entry of index j is marked when it succeeded.     *)
LEMMA RanUndone ==
  ASSUME Arguments, NEW n \in Nat, NEW j \in from..(from + n - 1),
         j \in from..(to - 1)
  PROVE  (IF Ran(n, Undone(j))[j - from + 1].status = "Succeeded" /\ j \in undone
          THEN [Ran(n, Undone(j)) EXCEPT ![j - from + 1].reversed = TRUE]
          ELSE Ran(n, Undone(j)))
           = Ran(n, Undone(j - 1))
<1> DEFINE r == Ran(n, Undone(j))
           k0 == j - from + 1
<1>1. k0 \in 1..n /\ from + k0 - 1 = j
  BY DEF Arguments
<1>2. r[k0] = Entry(j, Undone(j))
  BY <1>1 DEF Ran
<1>3. r[k0].status = outcome[j]
  BY <1>2 DEF Entry
<1>4. \A x \in undone : x \in Int
  BY DEF Arguments
<1>5. \A x \in Int : x > j - 1 <=> x = j \/ x > j
  BY DEF Arguments
<1>6. CASE outcome[j] = "Succeeded" /\ j \in undone
  <2>1. Undone(j - 1) = Undone(j) \cup {j}
    BY <1>4, <1>5, <1>6 DEF Undone
  <2>2. ASSUME NEW k \in 1..n, k # k0
        PROVE  Entry(from + k - 1, Undone(j - 1)) = r[k]
    <3>1. from + k - 1 # j
      BY <1>1, <2>2 DEF Arguments
    <3>2. (from + k - 1 \in Undone(j - 1)) = (from + k - 1 \in Undone(j))
      BY <2>1, <3>1
    <3>3. r[k] = Entry(from + k - 1, Undone(j))
      BY DEF Ran
    <3> QED BY <3>2, <3>3, Zenon DEF Entry
  <2>3. [r[k0] EXCEPT !.reversed = TRUE] = Entry(from + k0 - 1, Undone(j - 1))
    <3>1. (j \in Undone(j - 1)) = TRUE
      BY <2>1
    <3>2. [r[k0] EXCEPT !.reversed = TRUE]
            = [plugin |-> p[j + 1].plugin, status |-> outcome[j], reversed |-> TRUE]
      <4>1. r[k0].plugin = p[j + 1].plugin /\ r[k0].status = outcome[j]
        BY <1>2 DEF Entry
      <4>2. r[k0] \in [plugin : {p[j + 1].plugin}, status : {outcome[j]},
                       reversed : BOOLEAN]
        BY <1>2 DEF Entry
      <4>3. TRUE \in BOOLEAN
        OBVIOUS
      <4> HIDE DEF r, k0
      <4>4. \A v \in BOOLEAN :
              [r[k0] EXCEPT !.reversed = v]
                = [plugin |-> r[k0].plugin, status |-> r[k0].status, reversed |-> v]
        BY <4>2, Marked
      <4>5. [r[k0] EXCEPT !.reversed = TRUE]
              = [plugin |-> r[k0].plugin, status |-> r[k0].status, reversed |-> TRUE]
        BY <4>3, <4>4, Zenon
      <4> QED BY <4>1, <4>5, Zenon
    <3>3. Entry(j, Undone(j - 1))
            = [plugin |-> p[j + 1].plugin, status |-> outcome[j], reversed |-> TRUE]
      BY <3>1, Zenon DEF Entry
    <3> QED BY <1>1, <3>2, <3>3
  <2>4. [r EXCEPT ![k0].reversed = TRUE]
          = [k \in 1..n |-> IF k = k0 THEN [r[k0] EXCEPT !.reversed = TRUE] ELSE r[k]]
    <3>1. r = [k \in 1..n |-> r[k]]
      BY DEF Ran
    <3> HIDE DEF r, k0
    <3> QED BY <3>1
  <2>5. [r EXCEPT ![k0].reversed = TRUE] = Ran(n, Undone(j - 1))
    <3>1. ASSUME NEW k \in 1..n
          PROVE  (IF k = k0 THEN [r[k0] EXCEPT !.reversed = TRUE] ELSE r[k])
                   = Entry(from + k - 1, Undone(j - 1))
      <4> HIDE DEF r, k0
      <4> QED BY <2>2, <2>3
    <3> HIDE DEF r, k0
    <3> QED BY <2>4, <3>1, Zenon DEF Ran
  <2> QED BY <1>3, <1>6, <2>5
<1>7. CASE ~(outcome[j] = "Succeeded" /\ j \in undone)
  <2>1. Undone(j - 1) = Undone(j)
    BY <1>4, <1>5, <1>7 DEF Undone
  <2> QED BY <1>3, <1>7, <2>1
<1> QED BY <1>6, <1>7

(* Marking indices that did not run marks nothing.                         *)
LEMMA RanUnmarked ==
  ASSUME NEW n \in Nat, NEW rev, \A k \in 1..n : from + k - 1 \notin rev
  PROVE  Ran(n, {}) = Ran(n, rev)
<1>1. ASSUME NEW k \in 1..n
      PROVE  Entry(from + k - 1, {}) = Entry(from + k - 1, rev)
  <2>1. (from + k - 1 \in {}) = (from + k - 1 \in rev)
    OBVIOUS
  <2> QED BY <2>1, Zenon DEF Entry
<1> QED BY <1>1, Zenon DEF Ran

LEMMA LoopInit == Init => LoopInv
<1> SUFFICES ASSUME Init PROVE LoopInv
  OBVIOUS
<1>1. Arguments
  <2>1. PICK n \in 0..MaxLen :
          /\ p \in [1..n -> Action]
          /\ from \in 0..n /\ to \in from..n
          /\ outcome \in [from..(to - 1) -> Statuses]
          /\ undone \in SUBSET (from..(to - 1))
    BY DEF Init
  <2>2. n \in Nat
    BY LenAssumption
  <2>3. p \in Seq(Action) /\ Len(p) = n
    BY <2>1, <2>2, FunctionLength
  <2>4. from \in Nat /\ to \in Nat /\ from <= to /\ to <= n
    BY <2>1, <2>2
  <2> QED BY <2>1, <2>3, <2>4 DEF Arguments
<1>2. i \in from..to /\ from \in Nat
  BY <1>1 DEF Init, Arguments
<1>3. \A j \in Aborts(p, from, to, outcome) : i <= j
  BY <1>1, <1>2, AbortsInRange DEF Init
<1>4. results = Ran(i - from, {})
  <2>1. i - from = 0
    BY <1>2 DEF Init
  <2>2. Ran(0, {}) = <<>>
    BY DEF Ran
  <2> QED BY <2>1, <2>2 DEF Init
<1>5. pc = "run"
  BY DEF Init
<1> QED BY <1>1, <1>2, <1>3, <1>4, <1>5
        DEF LoopInv, Ascending, Descending, LoopIsRunRange

LEMMA LoopRunOne == LoopInv /\ RunOne => LoopInv'
<1> SUFFICES ASSUME LoopInv, RunOne PROVE LoopInv'
  OBVIOUS
<1> DEFINE aborts == Aborts(p, from, to, outcome)
<1>1. Arguments /\ from \in Nat /\ to \in Nat
  BY DEF LoopInv, Arguments
<1>2. /\ i \in from..to /\ i < to
      /\ \A j \in aborts : i <= j
      /\ results = Ran(i - from, {})
  BY DEF LoopInv, Ascending, RunOne
<1>3. i \in from..(to - 1) /\ i \in Nat /\ i - from \in Nat /\ from + (i - from) = i
      /\ i + 1 \in from..to
  BY <1>1, <1>2
<1>4. UNCHANGED <<p, from, to, outcome, undone>>
  BY DEF RunOne, inputs
<1>5. results' = Ran(i - from + 1, {})
  <2>1. results' = Append(results, [plugin |-> p[i + 1].plugin, status |-> outcome[i],
                                    reversed |-> FALSE])
    BY DEF RunOne
  <2>2. Entry(i, {}) = [plugin |-> p[i + 1].plugin, status |-> outcome[i],
                        reversed |-> FALSE]
    <3>1. (i \in {}) = FALSE
      OBVIOUS
    <3> QED BY <3>1, Zenon DEF Entry
  <2>3. results' = Append(Ran(i - from, {}), Entry(from + (i - from), {}))
    BY <1>2, <1>3, <2>1, <2>2
  <2> QED BY <1>1, <1>3, <2>3, RanGrows
<1>6. CASE outcome[i] # "Failed" \/ p[i + 1].onFailure = "continue"
  <2>1. pc' = "run" /\ i' = i + 1
    BY <1>6 DEF RunOne
  <2>2. i \notin aborts
    BY <1>6 DEF Aborts
  <2>3. \A j \in aborts : i + 1 <= j
    <3>1. \A j \in aborts : j \in Int /\ j # i /\ i <= j
      BY <1>1, <1>2, <2>2, AbortsInRange
    <3> QED BY <1>3, <3>1
  <2>4. i + 1 - from = i - from + 1
    BY <1>1, <1>3
  <2>5. Ran(i - from, {})' = Ran(i + 1 - from, {})
    <3>1. \A k : Entry(from + k - 1, {})' = Entry(from + k - 1, {})
      BY <1>4 DEF Entry
    <3>2. Ran(i - from, {})' = [k \in 1..(i' - from') |-> Entry(from + k - 1, {})']
      BY DEF Ran
    <3>3. i' - from' = i + 1 - from
      BY <1>1, <1>3, <1>4, <2>1
    <3> QED BY <3>1, <3>2, <3>3, Zenon DEF Ran
  <2>6. Ascending'
    <3>1. Aborts(p, from, to, outcome)' = aborts
      BY <1>4 DEF Aborts
    <3> QED BY <1>3, <1>4, <1>5, <2>1, <2>3, <2>4, <2>5, <3>1 DEF Ascending
  <2> QED BY <1>1, <1>4, <2>1, <2>6
          DEF LoopInv, Arguments, Descending, LoopIsRunRange
<1>7. CASE outcome[i] = "Failed" /\ p[i + 1].onFailure # "continue"
  <2>1. i' = i /\ pc' = IF p[i + 1].onFailure = "rollback" THEN "rollback" ELSE "done"
    BY <1>7 DEF RunOne
  <2>2. i \in aborts
    BY <1>3, <1>7 DEF Aborts
  <2>3. last = i
    BY <1>1, <1>2, <2>2, LastIsFirstAbort
  <2>4. results' = Ran(last - from + 1, {})
    BY <1>5, <2>3
  <2>5. CASE p[i + 1].onFailure = "rollback"
    <3>1. pc' = "rollback"
      BY <2>1, <2>5
    <3>2. results' = Ran(last - from + 1, Undone(i))
      <4>1. \A x \in Undone(i) : x > i
        BY DEF Undone
      <4>2. \A k \in 1..(i - from + 1) : from + k - 1 <= i /\ from + k - 1 \in Int
        BY <1>1, <1>3
      <4>3. \A k \in 1..(i - from + 1) : from + k - 1 \notin Undone(i)
        BY <1>3, <4>1, <4>2
      <4>4. i - from + 1 \in Nat
        BY <1>3
      <4> QED BY <1>5, <2>3, <4>3, <4>4, RanUnmarked
    <3>3. i \in from..last
      BY <1>1, <1>3, <2>3
    <3>4. /\ Aborts(p, from, to, outcome)' = Aborts(p, from, to, outcome)
          /\ last' = last /\ Undone(i)' = Undone(i)
          /\ Ran(last - from + 1, Undone(i))' = Ran(last - from + 1, Undone(i))
      BY <1>4, <2>1 DEF Aborts, last, LastRun, Undone, Ran, Entry
    <3>5. p'[last' + 1].onFailure = "rollback"
      BY <1>4, <2>3, <2>5, <3>4
    <3>6. Descending'
      BY <1>4, <2>1, <2>2, <2>3, <3>2, <3>3, <3>4, <3>5 DEF Descending
    <3> QED BY <1>1, <1>4, <3>1, <3>6 DEF LoopInv, Arguments, Ascending, LoopIsRunRange
  <2>6. CASE p[i + 1].onFailure # "rollback"
    <3>1. pc' = "done"
      BY <2>1, <2>6
    <3>2. RunRange(p, from, to, outcome, undone) = Ran(last - from + 1, {})
      BY <1>1, <2>3, <2>6, RunRangeIsRan
    <3>3. LoopIsRunRange'
      BY <1>4, <2>4, <3>2 DEF LoopIsRunRange
    <3> QED BY <1>1, <1>4, <3>1, <3>3 DEF LoopInv, Arguments, Ascending, Descending
  <2> QED BY <2>5, <2>6
<1> QED BY <1>6, <1>7

LEMMA LoopReturn == LoopInv /\ Return => LoopInv'
<1> SUFFICES ASSUME LoopInv, Return PROVE LoopInv'
  OBVIOUS
<1>1. Arguments
  BY DEF LoopInv
<1>2. /\ \A j \in Aborts(p, from, to, outcome) : to <= j
      /\ results = Ran(to - from, {})
  BY DEF LoopInv, Ascending, Return
<1>3. Aborts(p, from, to, outcome) = {}
  <2>1. to \in Nat /\ from \in Nat
    BY <1>1 DEF Arguments
  <2> QED BY <1>1, <1>2, <2>1, AbortsInRange
<1>4. last = to - 1 /\ last - from + 1 = to - from
  <2>1. last = to - 1
    BY <1>3 DEF last, LastRun
  <2> QED BY <1>1, <2>1 DEF Arguments
<1>5. RunRange(p, from, to, outcome, undone) = Ran(to - from, {})
  BY <1>1, <1>3, <1>4, RunRangeIsRan
<1>6. LoopIsRunRange'
  BY <1>2, <1>5 DEF Return, inputs, LoopIsRunRange
<1> QED BY <1>1, <1>6 DEF Return, inputs, LoopInv, Arguments, Ascending, Descending

LEMMA LoopRollBackOne == LoopInv /\ RollBackOne => LoopInv'
<1> SUFFICES ASSUME LoopInv, RollBackOne PROVE LoopInv'
  OBVIOUS
<1> DEFINE n == last - from + 1
<1>1. Arguments /\ from \in Nat /\ to \in Nat
  BY DEF LoopInv, Arguments
<1>2. /\ i \in from..last
      /\ last \in Aborts(p, from, to, outcome)
      /\ p[last + 1].onFailure = "rollback"
      /\ results = Ran(n, Undone(i))
  BY DEF LoopInv, Descending, RollBackOne
<1>3. last \in Int /\ last < to
  BY <1>1, LastInRange
<1>4. n \in Nat /\ i \in from..(from + n - 1) /\ i \in from..(to - 1)
  BY <1>1, <1>2, <1>3
<1>5. UNCHANGED <<p, from, to, outcome, undone>>
  BY DEF RollBackOne, inputs
<1>6. results' = Ran(n, Undone(i - 1))
  <2>1. results' = IF results[i - from + 1].status = "Succeeded" /\ i \in undone
                   THEN [results EXCEPT ![i - from + 1].reversed = TRUE] ELSE results
    BY DEF RollBackOne
  <2> HIDE DEF n
  <2> QED BY <1>1, <1>2, <1>4, <2>1, RanUndone
<1>7. CASE i = from
  <2>1. pc' = "done"
    BY <1>7 DEF RollBackOne
  <2>2. RunRange(p, from, to, outcome, undone) = Ran(n, Undone(from - 1))
    BY <1>1, <1>2, RunRangeIsRan
  <2>3. LoopIsRunRange'
    BY <1>5, <1>6, <1>7, <2>2 DEF LoopIsRunRange
  <2> QED BY <1>1, <1>5, <2>1, <2>3 DEF LoopInv, Arguments, Ascending, Descending
<1>8. CASE i # from
  <2>1. pc' = "rollback" /\ i' = i - 1
    BY <1>8 DEF RollBackOne
  <2>2. i - 1 \in from..last
    BY <1>1, <1>2, <1>3, <1>8
  <2>3. /\ Aborts(p, from, to, outcome)' = Aborts(p, from, to, outcome)
        /\ last' = last /\ Undone(i)' = Undone(i - 1)
        /\ Ran(last - from + 1, Undone(i))' = Ran(last - from + 1, Undone(i - 1))
    BY <1>5, <2>1 DEF Aborts, last, LastRun, Undone, Ran, Entry
  <2>4. Descending'
    BY <1>2, <1>5, <1>6, <2>1, <2>2, <2>3 DEF Descending
  <2> QED BY <1>1, <1>5, <2>1, <2>4 DEF LoopInv, Arguments, Ascending, LoopIsRunRange
<1> QED BY <1>7, <1>8

(* The executor's loop returns what RunRange says, for pipelines of any    *)
(* length: the range up to the first failure that does not continue, each  *)
(* action with its status, and after a rollback exactly the actions that   *)
(* succeeded and could be undone marked as reversed.                       *)
THEOREM LoopComputesRunRange == Spec => []LoopIsRunRange
<1>1. Init => LoopInv
  BY LoopInit
<1>2. LoopInv /\ [Next]_vars => LoopInv'
  <2> SUFFICES ASSUME LoopInv, [Next]_vars PROVE LoopInv'
    OBVIOUS
  <2>1. CASE UNCHANGED vars
    <3>1. /\ Arguments' = Arguments /\ pc' = pc
          /\ LoopIsRunRange' = LoopIsRunRange
      BY <2>1 DEF vars, Arguments, LoopIsRunRange
    <3>2. Ascending' = Ascending
      BY <2>1 DEF vars, Ascending, Ran, Entry
    <3>3. last' = last /\ Undone(i)' = Undone(i)
      BY <2>1 DEF vars, last, Undone
    <3>4. Descending' = Descending
      BY <2>1, <3>3 DEF vars, Descending, Ran, Entry
    <3> QED BY <3>1, <3>2, <3>4 DEF LoopInv
  <2> QED BY <2>1, LoopRunOne, LoopReturn, LoopRollBackOne DEF Next
<1>3. LoopInv => LoopIsRunRange
  BY DEF LoopInv
<1> QED BY <1>1, <1>2, <1>3, PTL DEF Spec
=============================================================================
