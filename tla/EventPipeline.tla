----------------------------- MODULE EventPipeline -----------------------------
(***************************************************************************)
(* The path of a business event: services/transactionalOutbox.ts,          *)
(* jobs/outboxRelay.ts, services/eventProducer.ts and eventWorker.ts.      *)
(*                                                                         *)
(* A producer inserts an outbox row in the transaction of its business     *)
(* change.  A relay pass pushes pending rows to a Redis list and then      *)
(* marks them published; a cleanup job deletes published rows.  A worker   *)
(* pops the list, applies the event to the balances, and retries or        *)
(* dead-letters what fails.                                                *)
(*                                                                         *)
(* Every database and every Redis call is an await that may throw, and any *)
(* process may die between two of them.  A payload is what its handler     *)
(* does with it: "valid" changes a balance, "skipped" has an unknown topic *)
(* or no borrower or amount, "malformed" has an amount that BigInt()       *)
(* throws on, before any balance has changed.                              *)
(***************************************************************************)
EXTENDS Naturals, Sequences, SequencesExt

CONSTANTS
  Events,       \* idempotency keys
  Kind,         \* what each event's payload is
  BatchSize,    \* rows one pass publishes
  MaxRetryAttempts,
  MaxQueue,     \* bound on the list's length when a job is pushed again
  NoEvent

ASSUME PipelineAssumption ==
  /\ Kind \in [Events -> {"valid", "skipped", "malformed"}]
  /\ BatchSize \in Nat \ {0} /\ MaxRetryAttempts \in Nat \ {0}
  /\ MaxQueue \in Nat
  /\ NoEvent \notin Events

VARIABLES
  business,    \* events whose business change has committed
  outbox,      \* OutboxEvent rows, by id
  published,   \* keys of the rows that have a publishedAt
  relay,       \* the rows a pass has still to publish, and where it is
  queue,       \* queue:ledger-events; LPUSH at its head, BRPOP at its end
  worker,      \* the job the worker holds, and where it is
  attempts,    \* queue:ledger-events:attempt:<id>
  dlq,         \* jobs in queue:ledger-events:dlq
  applied,     \* how often an event was added to the balances (2: or more)
  \* History:
  pushed,      \* events that reached the queue
  repeated,    \* events that reached it again, or whose counter kept its del
  settled      \* events whose handler returned, or whose job was lost

outboxVars == <<business, outbox, published>>
workerVars == <<worker, attempts, dlq, applied, settled>>
pipelineVars == <<business, outbox, published, relay, queue, worker, attempts,
                 dlq, applied, pushed, repeated, settled>>

\* Rows, passes, list, counters and balances have the shapes the code gives
\* them; a counter stays within its limit.
PipelineTypeOK ==
  /\ business \subseteq Events
  /\ outbox \in Seq(Events) /\ IsInjective(outbox)
  /\ published \subseteq Range(outbox)
  /\ relay \in [rows: Seq(Events), pc: {"publish", "mark"}]
  /\ queue \in Seq(Events)
  /\ worker \in [job: Events \cup {NoEvent}, pc: {"pop", "handle", "ack", "fail", "requeue"}]
  /\ attempts \in [Events -> 0..MaxRetryAttempts]
  /\ dlq \subseteq Events
  /\ applied \in [Events -> 0..2]
  /\ pushed \subseteq Events /\ repeated \subseteq Events /\ settled \subseteq Events

PipelineInit ==
  /\ business = {} /\ outbox = << >> /\ published = {}
  /\ relay = [rows |-> << >>, pc |-> "publish"]
  /\ queue = << >>
  /\ worker = [job |-> NoEvent, pc |-> "pop"]
  /\ attempts = [e \in Events |-> 0]
  /\ dlq = {}
  /\ applied = [e \in Events |-> 0]
  /\ pushed = {} /\ repeated = {} /\ settled = {}

-----------------------------------------------------------------------------
(* The outbox.                                                             *)

\* One transaction: the business change and its row.  A key that already has
\* a row adds nothing; once cleanup has deleted the row the key is free again.
EnqueueOutboxEvent(e) ==
  /\ e \notin Range(outbox)
  /\ business' = business \cup {e}
  /\ outbox' = Append(outbox, e)
  /\ UNCHANGED <<published, relay, queue, workerVars, pushed, repeated>>

\* The rows of s that are not in S, in their order.
Without(s, S) ==
  LET kept[i \in 0..Len(s)] ==
        IF i = 0 THEN << >>
        ELSE IF s[i] \in S THEN kept[i - 1] ELSE Append(kept[i - 1], s[i])
  IN  kept[Len(s)]

Pending == Without(outbox, published)

FindPending ==
  /\ relay.rows = << >>
  /\ Pending # << >>
  /\ relay' = [relay EXCEPT !.rows =
       SubSeq(Pending, 1, IF Len(Pending) < BatchSize THEN Len(Pending) ELSE BatchSize)]
  /\ UNCHANGED <<outboxVars, queue, workerVars, pushed, repeated>>

\* enqueueLedgerEvent: LPUSH.  (The bound holds back repetitions only.)
Push(e) ==
  /\ e \in pushed => Len(queue) < MaxQueue
  /\ queue' = <<e>> \o queue
  /\ pushed' = pushed \cup {e}
  /\ repeated' = IF e \in pushed THEN repeated \cup {e} ELSE repeated

NextRow == relay' = [relay EXCEPT !.rows = Tail(@), !.pc = "publish"]

Publish ==
  /\ relay.rows # << >> /\ relay.pc = "publish"
  /\ Push(Head(relay.rows))
  /\ relay' = [relay EXCEPT !.pc = "mark"]
  /\ UNCHANGED <<outboxVars, workerVars>>

\* The publisher throws, its LPUSH done or not: the row stays pending and the
\* pass goes on with the next one.
PublishFails ==
  /\ relay.rows # << >> /\ relay.pc = "publish"
  /\ Push(Head(relay.rows)) \/ UNCHANGED <<queue, pushed, repeated>>
  /\ NextRow
  /\ UNCHANGED <<outboxVars, workerVars>>

\* Mutant: every row of the batch is marked with the first one.
MarkBatch ==
  /\ relay.pc = "mark"
  /\ published' = Range(outbox)
  /\ NextRow
  /\ UNCHANGED <<business, outbox, queue, workerVars, pushed, repeated>>

\* updateMany: the row is marked, unless it is already.
MarkPublished ==
  /\ relay.pc = "mark"
  /\ published' = published \cup {Head(relay.rows)}
  /\ NextRow
  /\ UNCHANGED <<business, outbox, queue, workerVars, pushed, repeated>>

MarkFails ==
  /\ relay.pc = "mark"
  /\ NextRow
  /\ UNCHANGED <<outboxVars, queue, workerVars, pushed, repeated>>

\* The pass dies, or the update of a failed row throws.
RelayDies ==
  /\ relay.rows # << >>
  /\ relay' = [rows |-> << >>, pc |-> "publish"]
  /\ UNCHANGED <<outboxVars, queue, workerVars, pushed, repeated>>

\* An instance that has lost the scheduler's lock runs a pass of its own.
OtherRelay(e) ==
  /\ e \in Range(Pending)
  /\ Push(e)
  /\ published' = published \cup {e}
  /\ UNCHANGED <<business, outbox, relay, workerVars>>

\* cleanupPublishedOutboxEvents, of the rows S whose retention has passed: it
\* is seven days, and no pass that holds the row lasts as long.
Cleanup(S) ==
  /\ S # {} /\ S \subseteq published \ Range(relay.rows)
  /\ outbox' = Without(outbox, S)
  /\ published' = published \ S
  /\ UNCHANGED <<business, relay, queue, workerVars, pushed, repeated>>

-----------------------------------------------------------------------------
(* The worker.                                                             *)

WorkerIs(pc) == worker.pc = pc
WorkerGoto(pc) == worker' = [worker EXCEPT !.pc = pc]
WorkerDone == worker' = [job |-> NoEvent, pc |-> "pop"]

\* BRPOP: from now on the job is in the worker's memory only.
Pop ==
  /\ WorkerIs("pop") /\ queue # << >>
  /\ worker' = [job |-> Last(queue), pc |-> "handle"]
  /\ queue' = Front(queue)
  /\ UNCHANGED <<outboxVars, relay, attempts, dlq, applied, pushed,
                 repeated, settled>>

\* Mutant: something after the balances throws.
HandleJobThrowsLate ==
  /\ WorkerIs("handle")
  /\ WorkerGoto("fail")
  /\ applied' = IF Kind[worker.job] = "valid" /\ applied[worker.job] < 2
                  THEN [applied EXCEPT ![worker.job] = @ + 1] ELSE applied
  /\ UNCHANGED <<outboxVars, relay, queue, attempts, dlq, pushed, repeated, settled>>

\* handleJob: the balances are the only thing it changes that may fail, and
\* nothing after them throws.
HandleJob ==
  /\ WorkerIs("handle")
  /\ IF Kind[worker.job] = "malformed"
       THEN WorkerGoto("fail") /\ UNCHANGED <<applied, settled>>
       ELSE /\ WorkerGoto("ack")
            /\ settled' = settled \cup {worker.job}
            /\ applied' = IF Kind[worker.job] = "valid" /\ applied[worker.job] < 2
                            THEN [applied EXCEPT ![worker.job] = @ + 1] ELSE applied
  /\ UNCHANGED <<outboxVars, relay, queue, attempts, dlq, pushed, repeated>>

\* The attempt counter is deleted.
Acknowledge ==
  /\ WorkerIs("ack")
  /\ attempts' = [attempts EXCEPT ![worker.job] = 0]
  /\ WorkerDone
  /\ UNCHANGED <<outboxVars, relay, queue, dlq, applied, pushed,
                 repeated, settled>>

\* The deletion throws, inside the same try: a handled job is taken for failed.
AcknowledgeFails ==
  /\ WorkerIs("ack")
  /\ WorkerGoto("fail")
  /\ repeated' = repeated \cup {worker.job}
  /\ UNCHANGED <<outboxVars, relay, queue, attempts, dlq, applied,
                 pushed, settled>>

\* Mutant: the attempts are not counted.
AttemptsNotCounted ==
  /\ WorkerIs("fail")
  /\ WorkerGoto("requeue")
  /\ UNCHANGED <<outboxVars, relay, queue, attempts, dlq, applied, pushed, repeated,
                 settled>>

IncrementJobAttempts ==
  /\ WorkerIs("fail")
  /\ WorkerGoto("requeue")
  /\ attempts' = [attempts EXCEPT ![worker.job] =
                    IF @ < MaxRetryAttempts THEN @ + 1 ELSE @]
  /\ UNCHANGED <<outboxVars, relay, queue, dlq, applied, pushed,
                 repeated, settled>>

\* RPUSH: the job is the next one to be popped.
Requeue ==
  /\ WorkerIs("requeue") /\ attempts[worker.job] < MaxRetryAttempts
  /\ queue' = Append(queue, worker.job)
  /\ WorkerDone
  /\ UNCHANGED <<outboxVars, relay, attempts, dlq, applied, pushed,
                 repeated, settled>>

\* Mutant: what has failed for good is discarded.
DiscardJob ==
  /\ WorkerIs("requeue") /\ attempts[worker.job] >= MaxRetryAttempts
  /\ WorkerDone
  /\ UNCHANGED <<outboxVars, relay, queue, attempts, dlq, applied, pushed, repeated,
                 settled>>

SendToDlq ==
  /\ WorkerIs("requeue") /\ attempts[worker.job] >= MaxRetryAttempts
  /\ dlq' = dlq \cup {worker.job}
  /\ WorkerDone
  /\ UNCHANGED <<outboxVars, relay, queue, attempts, applied, pushed,
                 repeated, settled>>

\* A Redis call of the error path throws out of processNextEvent: the loop goes
\* on, the job is nowhere.
WorkerDrops ==
  /\ worker.pc \in {"fail", "requeue"}
  /\ settled' = settled \cup {worker.job}
  /\ WorkerDone
  /\ UNCHANGED <<outboxVars, relay, queue, attempts, dlq, applied,
                 pushed, repeated>>

\* The process dies, and the in-memory balances with it.
WorkerCrashes ==
  /\ worker.job # NoEvent
  /\ settled' = settled \cup {worker.job}
  /\ WorkerDone
  /\ applied' = [e \in Events |-> 0]
  /\ UNCHANGED <<outboxVars, relay, queue, attempts, dlq, pushed,
                 repeated>>

\* EXPIRE: an hour after its last increment the counter is gone.  (The retry
\* of a failed job is at the end of the list and follows well within the hour.)
AttemptsExpire(e) ==
  /\ attempts[e] > 0 /\ e \notin Range(queue) \cup {worker.job}
  /\ attempts' = [attempts EXCEPT ![e] = 0]
  /\ UNCHANGED <<outboxVars, relay, queue, worker, dlq, applied, pushed,
                 repeated, settled>>

RelayStep ==
  FindPending \/ Publish \/ PublishFails \/ MarkPublished \/ MarkFails

WorkerStep ==
  \/ Pop \/ HandleJob \/ Acknowledge \/ AcknowledgeFails \/ IncrementJobAttempts
  \/ Requeue \/ SendToDlq \/ WorkerDrops

PipelineNext ==
  \/ \E e \in Events : EnqueueOutboxEvent(e) \/ OtherRelay(e) \/ AttemptsExpire(e)
  \/ RelayStep \/ RelayDies
  \/ \E S \in SUBSET Events : Cleanup(S)
  \/ WorkerStep \/ WorkerCrashes

\* Cron starts pass after pass, and neither the pushes nor the updates of a row
\* fail, or die with their pass, every time (SF).  The worker's loop runs on.
PipelineFairness ==
  /\ WF_pipelineVars(RelayStep) /\ WF_pipelineVars(WorkerStep)
  /\ \A e \in Events :
       /\ SF_pipelineVars(Publish /\ Head(relay.rows) = e)
       /\ SF_pipelineVars(MarkPublished /\ Head(relay.rows) = e)

PipelineSpec == PipelineInit /\ [][PipelineNext]_pipelineVars /\ PipelineFairness

-----------------------------------------------------------------------------
\* "A cleanup run can never drop an undelivered event": an event whose business
\* change has committed is pending in the outbox or has reached the queue.  And
\* a job that has reached the queue is in the queue, in the worker's hands,
\* handled, or dead-lettered, unless the worker lost it in a crash or in an
\* error of its own error path, the two cases nothing recovers from.
NoSilentLoss ==
  /\ business \subseteq Range(Pending) \cup pushed
  /\ pushed \subseteq Range(queue) \cup {worker.job} \cup settled \cup dlq

\* Retries alone never apply an event twice: that takes a second delivery by
\* the relay, or a failure to delete the attempt counter.
AppliedTwiceNeedsARepeat ==
  \A e \in Events : applied[e] > 1 => e \in repeated

\* The outbox delivers at least once, whatever dies or fails on the way.
AtLeastOnce ==
  INSTANCE Delivery WITH accepted <- business, delivered <- pushed
Delivers == AtLeastOnce!Spec

\* One bad job does not block the queue: every job that waits there is handled,
\* dead-lettered or dropped.
QueuedIsSettled ==
  \A e \in Events : e \in Range(queue) ~> e \in settled \cup dlq

\* What the idempotency key is for: consumers use it to deduplicate.
AppliedAtMostOnce == \A e \in Events : applied[e] <= 1
=============================================================================
