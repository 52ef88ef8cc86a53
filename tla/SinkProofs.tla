------------------------------ MODULE SinkProofs ------------------------------
(***************************************************************************)
(* Close drains the audit sink: for any queue size, any number of          *)
(* reconcilers and of Record calls.                                        *)
(***************************************************************************)
EXTENDS AuditSink, SequenceTheorems, TLAPS

(* The worker leaves only a closed and empty channel, Close succeeds only  *)
(* after the worker left, and the pool is closed by nobody else.           *)
ShutdownOrder ==
  /\ worker = "writing" => item \in Item
  /\ worker = "done" => ~open /\ queue = <<>>
  /\ closer = "closed" => worker = "done"
  /\ ~pool => closer = "closed"

SinkInv == SinkTypeOK /\ InOrder /\ ShutdownOrder

LEMMA SinkInit == Init => SinkInv
<1> SUFFICES ASSUME Init PROVE SinkInv
  OBVIOUS
<1>1. SinkTypeOK
  <2>1. <<>> \in Seq(Item) /\ Len(<<>>) <= QueueSize
    BY SinkAssumption
  <2>2. call \in [Reconcilers -> Item \cup {NoItem}] /\ calls \in 0..MaxCalls
    BY SinkAssumption DEF Init
  <2> QED BY <2>1, <2>2 DEF Init, SinkTypeOK
<1>2. InOrder
  <2>1. Writing = <<>>
    BY DEF Init, Writing
  <2>2. <<>> = <<>> \o <<>> \o <<>>
    OBVIOUS
  <2> QED BY <2>1, <2>2 DEF Init, InOrder
<1> QED BY <1>1, <1>2 DEF Init, SinkInv, ShutdownOrder

(* Moving a batch along: from the queue to the worker, from the worker to  *)
(* the writer.                                                             *)
LEMMA Received ==
  ASSUME NEW S, NEW done \in Seq(S), NEW waiting \in Seq(S), waiting # <<>>
  PROVE  done \o <<>> \o waiting = done \o <<Head(waiting)>> \o Tail(waiting)
OBVIOUS

LEMMA Handed ==
  ASSUME NEW S, NEW done \in Seq(S), NEW waiting \in Seq(S), NEW e \in S
  PROVE  done \o <<e>> \o waiting = Append(done, e) \o <<>> \o waiting
OBVIOUS

LEMMA SinkNext == SinkInv /\ [Next]_vars => SinkInv'
<1> SUFFICES ASSUME SinkInv, [Next]_vars PROVE SinkInv'
  OBVIOUS
<1> USE SinkAssumption DEF SinkInv
<1> DEFINE Kinds == {"triggers", "reverts"}
<1>1. CASE \E c \in Reconcilers, kind \in Kinds, n \in 0..MaxActions : BuildEvents(c, kind, n)
  <2>1. PICK c \in Reconcilers, kind \in Kinds, n \in 0..MaxActions : BuildEvents(c, kind, n)
    BY <1>1
  <2>2. [id |-> calls + 1, kind |-> kind, n |-> n] \in Item
    BY <2>1 DEF BuildEvents, SinkTypeOK, Item
  <2>3. SinkTypeOK'
    BY <2>1, <2>2 DEF BuildEvents, SinkTypeOK
  <2> QED BY <2>1, <2>3 DEF BuildEvents, InOrder, Writing, ShutdownOrder
<1>2. CASE \E c \in Reconcilers :
             RecordNothing(c) \/ Backpressure(c) \/ SendOnClosed(c)
  <2>1. PICK c \in Reconcilers : RecordNothing(c) \/ Backpressure(c) \/ SendOnClosed(c)
    BY <1>2
  <2>2. call' \in [Reconcilers -> Item \cup {NoItem}]
    BY <2>1 DEF RecordNothing, Backpressure, SendOnClosed, Return, SinkTypeOK
  <2>3. SinkTypeOK'
    BY <2>1, <2>2 DEF RecordNothing, Backpressure, SendOnClosed, SinkTypeOK
  <2>4. UNCHANGED <<queue, open, worker, item, closer, pool, accepted, handed>>
    BY <2>1 DEF RecordNothing, Backpressure, SendOnClosed
  <2>5. InOrder'
    BY <2>4 DEF InOrder, Writing
  <2>6. ShutdownOrder'
    BY <2>4 DEF ShutdownOrder
  <2> QED BY <2>3, <2>5, <2>6
<1>3. CASE \E c \in Reconcilers : Enqueue(c)
  <2>1. PICK c \in Reconcilers : Enqueue(c)
    BY <1>3
  <2>2. call[c] \in Item
    BY <2>1 DEF Enqueue, SinkTypeOK
  <2>3. SinkTypeOK'
    <3>1. call' \in [Reconcilers -> Item \cup {NoItem}]
      BY <2>1 DEF Enqueue, Return, SinkTypeOK
    <3>2. queue' \in Seq(Item) /\ Len(queue') = Len(queue) + 1 /\ accepted' \in Seq(Item)
      BY <2>1, <2>2 DEF Enqueue, SinkTypeOK
    <3> QED BY <2>1, <3>1, <3>2 DEF Enqueue, SinkTypeOK
  <2>4. InOrder'
    <3>1. Writing \in Seq(Item) /\ Writing' = Writing
      <4>1. CASE worker = "writing"
        <5>1. Writing = <<item>> /\ Writing' = <<item>> /\ item \in Item
          BY <2>1, <4>1 DEF Enqueue, Writing, ShutdownOrder
        <5> QED BY <5>1
      <4>2. CASE worker # "writing"
        <5>1. Writing = <<>> /\ Writing' = <<>>
          BY <2>1, <4>2 DEF Enqueue, Writing
        <5> QED BY <5>1
      <4> QED BY <4>1, <4>2
    <3>2. Append(handed \o Writing \o queue, call[c])
            = handed \o Writing \o Append(queue, call[c])
      <4> DEFINE front == handed \o Writing
      <4>1. front \in Seq(Item) /\ queue \in Seq(Item)
        BY <3>1 DEF SinkTypeOK
      <4> HIDE DEF front
      <4>2. Append(front \o queue, call[c]) = front \o Append(queue, call[c])
        BY ONLY <2>2, <4>1
      <4> QED BY <4>2 DEF front
    <3>3. accepted' = Append(accepted, call[c]) /\ queue' = Append(queue, call[c])
          /\ handed' = handed
      BY <2>1 DEF Enqueue
    <3>4. accepted = handed \o Writing \o queue
      BY DEF InOrder
    <3> HIDE DEF SinkInv
    <3> QED BY <3>1, <3>2, <3>3, <3>4 DEF InOrder
  <2>5. ShutdownOrder'
    BY <2>1 DEF Enqueue, ShutdownOrder
  <2> QED BY <2>3, <2>4, <2>5
<1>4. CASE Receive
  <2>1. queue \in Seq(Item) /\ queue # <<>>
    BY <1>4 DEF Receive, SinkTypeOK
  <2>2. Head(queue) \in Item /\ Tail(queue) \in Seq(Item)
        /\ Len(Tail(queue)) = Len(queue) - 1
    BY <2>1
  <2>3. SinkTypeOK'
    BY <1>4, <2>2 DEF Receive, SinkTypeOK, callVars
  <2>4. InOrder'
    <3>1. Writing = <<>> /\ Writing' = <<Head(queue)>>
      BY <1>4 DEF Receive, Writing
    <3>2. handed \o <<>> \o queue = handed \o <<Head(queue)>> \o Tail(queue)
      BY <2>1, Received DEF SinkTypeOK
    <3> QED BY <1>4, <3>1, <3>2 DEF Receive, InOrder
  <2>5. ShutdownOrder'
    BY <1>4, <2>2 DEF Receive, ShutdownOrder
  <2> QED BY <2>3, <2>4, <2>5
<1>5. CASE Write
  <2>1. item \in Item
    BY <1>5 DEF Write, ShutdownOrder
  <2>2. SinkTypeOK'
    <3>1. handed' \in Seq(Item)
      BY <1>5, <2>1 DEF Write, SinkTypeOK
    <3> QED BY <1>5, <3>1 DEF Write, SinkTypeOK, callVars
  <2>3. InOrder'
    <3>1. Writing = <<item>> /\ Writing' = <<>>
      BY <1>5 DEF Write, Writing
    <3>2. handed \o <<item>> \o queue = Append(handed, item) \o <<>> \o queue
      BY <2>1, Handed DEF SinkTypeOK
    <3> QED BY <1>5, <3>1, <3>2 DEF Write, InOrder
  <2>4. ShutdownOrder'
    BY <1>5 DEF Write, ShutdownOrder
  <2> QED BY <2>2, <2>3, <2>4
<1>6. CASE WorkerDone \/ Stop \/ CloseQueue \/ Drained \/ Expire
  <2>1. SinkTypeOK'
    BY <1>6 DEF WorkerDone, Stop, CloseQueue, Drained, Expire, SinkTypeOK, callVars
  <2>2. InOrder'
    BY <1>6 DEF WorkerDone, Stop, CloseQueue, Drained, Expire, InOrder, Writing
  <2>3. ShutdownOrder'
    BY <1>6 DEF WorkerDone, Stop, CloseQueue, Drained, Expire, ShutdownOrder
  <2> QED BY <2>1, <2>2, <2>3
<1>7. CASE UNCHANGED vars
  <2>1. SinkTypeOK'
    BY <1>7 DEF vars, SinkTypeOK
  <2> QED BY <1>7, <2>1 DEF vars, InOrder, Writing, ShutdownOrder
<1> QED BY <1>1, <1>2, <1>3, <1>4, <1>5, <1>6, <1>7 DEF Next

LEMMA SinkAlways == Spec => []SinkInv
BY SinkInit, SinkNext, PTL DEF Spec

(* The sink's state keeps its shape: the queue never holds more than       *)
(* QueueSize batches (Record refuses instead of blocking).                 *)
THEOREM SinkTypes == Spec => []SinkTypeOK
BY SinkAlways, PTL DEF SinkInv

(* Nothing accepted is lost, doubled or overtaken between a Record call    *)
(* and the writer (the queue, the worker's loop, the drain).               *)
THEOREM BatchesInOrder == Spec => []InOrder
BY SinkAlways, PTL DEF SinkInv

(* When Close reports success every accepted batch was given to Postgres.  *)
THEOREM CloseLeavesNothing == Spec => []CloseDrains
<1>1. SinkInv => CloseDrains
  <2> SUFFICES ASSUME SinkInv, closer = "closed" PROVE handed = accepted
    BY DEF CloseDrains
  <2>1. Writing = <<>> /\ queue = <<>>
    BY DEF SinkInv, ShutdownOrder, Writing
  <2>2. handed \o <<>> \o <<>> = handed
    BY DEF SinkInv, SinkTypeOK
  <2> QED BY <2>1, <2>2 DEF SinkInv, InOrder
<1> QED BY <1>1, SinkAlways, PTL

(* The pool is closed after the last write, whatever Close raced with.     *)
THEOREM PoolIsClosedLast == Spec => []PoolClosedLast
<1>1. SinkInv => PoolClosedLast
  BY DEF SinkInv, ShutdownOrder, PoolClosedLast
<1> QED BY <1>1, SinkAlways, PTL
=============================================================================
