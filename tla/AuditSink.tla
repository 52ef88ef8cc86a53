------------------------------- MODULE AuditSink -------------------------------
(***************************************************************************)
(* The asynchronous Postgres audit sink (internal/audit/sink/postgres) and *)
(* its shutdown hook in cmd/main.go.  Reconciles hand it batches, a single *)
(* worker writes them, and when the manager stops, Close waits for the     *)
(* worker or for its context to expire.                                    *)
(***************************************************************************)
EXTENDS Naturals, Sequences

CONSTANTS
  Reconcilers,   \* the controllers that record, one reconcile at a time each
  QueueSize,     \* Config.QueueSize (its default when that is not positive)
  MaxActions,    \* bound: actions on one record
  MaxCalls       \* bound: Record calls

ASSUME SinkAssumption ==
  QueueSize \in Nat \ {0} /\ MaxActions \in Nat /\ MaxCalls \in Nat

(* A workItem: a trigger or a revert batch, told apart by the call it came *)
(* from; n is how many actions of the record it carries.                   *)
Item == [id : 1..MaxCalls, kind : {"triggers", "reverts"}, n : 0..MaxActions]
NoItem == [id |-> 0]

VARIABLES
  call,       \* per reconciler: the batch it is about to record, or none
  calls,      \* how much of the bound is used up
  queue,      \* the channel's buffer
  open,       \* the channel has not been closed
  worker,     \* "waiting", "writing" or "done"
  item,       \* what the worker writes
  stopping,   \* the manager's context is done
  closer,     \* Close: "none", "waiting", "closed" or "expired"
  pool,       \* the connection pool has not been closed
  accepted,   \* history: the batches enqueued
  handed,     \* history: the batches passed to the writer
  panicked    \* history: reconciles ended by a panic in a Record call

callVars == <<call, calls>>
vars == <<call, calls, queue, open, worker, item, stopping, closer, pool,
          accepted, handed, panicked>>

SinkTypeOK ==
  /\ call \in [Reconcilers -> Item \cup {NoItem}]
  /\ calls \in 0..MaxCalls
  /\ queue \in Seq(Item) /\ Len(queue) <= QueueSize
  /\ open \in BOOLEAN /\ stopping \in BOOLEAN /\ pool \in BOOLEAN
  /\ worker \in {"waiting", "writing", "done"}
  /\ item \in Item \cup {NoItem}
  /\ closer \in {"none", "waiting", "closed", "expired"}
  /\ accepted \in Seq(Item) /\ handed \in Seq(Item)
  /\ panicked \in SUBSET Reconcilers

(* newSink *)
Init ==
  /\ call = [c \in Reconcilers |-> NoItem] /\ calls = 0
  /\ queue = <<>> /\ open = TRUE
  /\ worker = "waiting" /\ item = NoItem
  /\ stopping = FALSE /\ closer = "none" /\ pool = TRUE
  /\ accepted = <<>> /\ handed = <<>> /\ panicked = {}

-----------------------------------------------------------------------------
(* The reconcilers. *)

(* A reconcile has written its record (or its revert) to the API server    *)
(* and built the events.  A stopping manager starts no new reconciles, but *)
(* waits for the ones in progress.                                         *)
BuildEvents(c, kind, n) ==
  /\ call[c] = NoItem /\ ~stopping /\ calls < MaxCalls
  /\ call' = [call EXCEPT ![c] = [id |-> calls + 1, kind |-> kind, n |-> n]]
  /\ calls' = calls + 1
  /\ UNCHANGED <<queue, open, worker, item, stopping, closer, pool,
                 accepted, handed, panicked>>

Return(c) == call' = [call EXCEPT ![c] = NoItem]

(* RecordTrigger, RecordRevert.  Nothing to record; ... *)
RecordNothing(c) ==
  /\ call[c] # NoItem /\ call[c].n = 0
  /\ Return(c)
  /\ UNCHANGED <<calls, queue, open, worker, item, stopping, closer, pool,
                 accepted, handed, panicked>>

(* ... room in the queue; ... *)
EnqueueUnbounded(c) ==                 \* variant: no check of the queue's size
  /\ call[c] # NoItem /\ call[c].n > 0 /\ open
  /\ queue' = Append(queue, call[c]) /\ accepted' = Append(accepted, call[c])
  /\ Return(c)
  /\ UNCHANGED <<calls, open, worker, item, stopping, closer, pool, handed, panicked>>

Enqueue(c) ==
  /\ call[c] # NoItem /\ call[c].n > 0
  /\ open /\ Len(queue) < QueueSize
  /\ queue' = Append(queue, call[c])
  /\ accepted' = Append(accepted, call[c])
  /\ Return(c)
  /\ UNCHANGED <<calls, open, worker, item, stopping, closer, pool, handed, panicked>>

(* ... ErrBackpressure, which the reconcile logs; ... *)
Backpressure(c) ==
  /\ call[c] # NoItem /\ call[c].n > 0
  /\ open /\ Len(queue) = QueueSize
  /\ Return(c)
  /\ UNCHANGED <<calls, queue, open, worker, item, stopping, closer, pool,
                 accepted, handed, panicked>>

(* ... a send on a closed channel, which panics even in a select with a    *)
(* default: what the reconcile had left to do is not done.                 *)
SendOnClosed(c) ==
  /\ call[c] # NoItem /\ call[c].n > 0 /\ ~open
  /\ panicked' = panicked \cup {c}
  /\ Return(c)
  /\ UNCHANGED <<calls, queue, open, worker, item, stopping, closer, pool,
                 accepted, handed>>

-----------------------------------------------------------------------------
(* run *)

Receive ==
  /\ worker = "waiting" /\ queue # <<>>
  /\ item' = Head(queue) /\ queue' = Tail(queue)
  /\ worker' = "writing"
  /\ UNCHANGED <<callVars, open, stopping, closer, pool, accepted, handed, panicked>>

(* writeTriggers or writeReverts returns; an error is logged and the batch *)
(* is dropped.  The call has no deadline: it may also never return.        *)
WriteAgain ==                          \* variant: a failed batch is queued again
  /\ worker = "writing" /\ Len(queue) < QueueSize
  /\ queue' = Append(queue, item)
  /\ item' = NoItem /\ worker' = "waiting"
  /\ UNCHANGED <<callVars, open, stopping, closer, pool, accepted, handed, panicked>>

Write ==
  /\ worker = "writing"
  /\ handed' = Append(handed, item)
  /\ item' = NoItem /\ worker' = "waiting"
  /\ UNCHANGED <<callVars, queue, open, stopping, closer, pool, accepted, panicked>>

(* The range over the channel ends once it is closed and empty.            *)
WorkerDoneAtClose ==                   \* variant: what is queued is left behind
  /\ worker = "waiting" /\ ~open
  /\ worker' = "done"
  /\ UNCHANGED <<callVars, queue, open, item, stopping, closer, pool,
                 accepted, handed, panicked>>

WorkerDone ==
  /\ worker = "waiting" /\ ~open /\ queue = <<>>
  /\ worker' = "done"
  /\ UNCHANGED <<callVars, queue, open, item, stopping, closer, pool,
                 accepted, handed, panicked>>

-----------------------------------------------------------------------------
(* The shutdown hook and Close. *)

Stop ==
  /\ ~stopping
  /\ stopping' = TRUE
  /\ UNCHANGED <<callVars, queue, open, worker, item, closer, pool,
                 accepted, handed, panicked>>

CloseQueue ==
  /\ stopping /\ closer = "none"
  /\ open' = FALSE /\ closer' = "waiting"
  /\ UNCHANGED <<callVars, queue, worker, item, stopping, pool,
                 accepted, handed, panicked>>

(* The worker is done before the context is: the pool is closed last.      *)
DrainedAtOnce ==                       \* variant: does not wait for the worker
  /\ closer = "waiting"
  /\ pool' = FALSE /\ closer' = "closed"
  /\ UNCHANGED <<callVars, queue, open, worker, item, stopping,
                 accepted, handed, panicked>>

Drained ==
  /\ closer = "waiting" /\ worker = "done"
  /\ pool' = FALSE /\ closer' = "closed"
  /\ UNCHANGED <<callVars, queue, open, worker, item, stopping,
                 accepted, handed, panicked>>

(* The context expires first: Close gives up and leaves the pool open.     *)
ExpireNever == FALSE /\ UNCHANGED vars \* variant: Close waits without a deadline

Expire ==
  /\ closer = "waiting"
  /\ closer' = "expired"
  /\ UNCHANGED <<callVars, queue, open, worker, item, stopping, pool,
                 accepted, handed, panicked>>

-----------------------------------------------------------------------------
Next ==
  \/ \E c \in Reconcilers, kind \in {"triggers", "reverts"}, n \in 0..MaxActions :
       BuildEvents(c, kind, n)
  \/ \E c \in Reconcilers : RecordNothing(c)
  \/ \E c \in Reconcilers : Enqueue(c)
  \/ \E c \in Reconcilers : Backpressure(c)
  \/ \E c \in Reconcilers : SendOnClosed(c)
  \/ Receive \/ Write \/ WorkerDone
  \/ Stop \/ CloseQueue \/ Drained \/ Expire

Spec == Init /\ [][Next]_vars

(* The hook runs, its 30 seconds pass, and the worker is scheduled.        *)
(* Nothing is asked of Postgres: a write may hang.                         *)
Fairness ==
  /\ WF_vars(CloseQueue) /\ WF_vars(Expire)
  /\ WF_vars(Receive) /\ WF_vars(WorkerDone) /\ WF_vars(Drained)

FairSpec == Spec /\ Fairness

-----------------------------------------------------------------------------
Writing == IF worker = "writing" THEN <<item>> ELSE <<>>

(* No accepted batch is lost, doubled or overtaken on its way to the       *)
(* writer, closing or not: those handed over, the one being written and    *)
(* those queued are the accepted ones, in order.                           *)
InOrder == accepted = handed \o Writing \o queue

(* A Close that reports success left nothing behind: every batch a Record  *)
(* call accepted was given to Postgres.                                    *)
CloseDrains == closer = "closed" => handed = accepted

(* The connection is closed last: no batch is written, or waits to be,     *)
(* once the pool is closed.                                                *)
PoolClosedLast == ~pool => worker = "done" /\ queue = <<>>

(* What the sink package says of its callers: recording is safe from a     *)
(* reconcile path and never fatal to it.                                   *)
RecordIsSafe == panicked = {}

(* A stopping manager gets its answer from Close even if Postgres hangs.   *)
ShutdownEnds == stopping ~> closer \in {"closed", "expired"}
=============================================================================
