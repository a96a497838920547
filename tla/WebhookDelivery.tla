--------------------------- MODULE WebhookDelivery ---------------------------
(***************************************************************************)
(* Delivery of events to one webhook subscription: dispatchEvent            *)
(* (services/webhook.ts), the queue worker with its retries, dead letters   *)
(* and failure streak (workers/webhookWorker.ts), the sweep that pauses a   *)
(* dead subscriber (jobs/webhookAutoDisable.ts) and the status API.         *)
(*                                                                          *)
(* BullMQ (external) hands a job to a worker, counts an attempt when the    *)
(* processor throws, and hands out again a job whose worker went silent,    *)
(* without counting it.                                                     *)
(***************************************************************************)
EXTENDS Integers, FiniteSets

CONSTANTS
  Jobs,             \* the events dispatched
  MaxAttempts,      \* MAX_ATTEMPTS
  Threshold,        \* webhookAutoDisableFailureThreshold
  StaleAfter,       \* webhookAutoDisableStaleAfterMs
  MaxHookClock,     \* bound on the clock
  MaxHookFaults     \* bound on failed statements and silent workers

VARIABLES
  hookClock,
  subscription,     \* the row: status, fails (consecutiveFailedDispatches), since (failingSinceAt)
  jobs,             \* the jobs of the queue, by event
  sweep,            \* the sweep between its findMany and its update
  deadLetters,      \* table webhookDLQ
  streak,           \* ghost: the jobs counted in the streak, the last 2xx or re-activation
  order,            \* ghost: the last status an operator set
  hookFaults,
  hookCause         \* ghost: what has happened that the counters do not reflect

hookVars == <<hookClock, subscription, jobs, sweep, deadLetters, streak, order,
              hookFaults, hookCause>>

Never == -1     \* null

NewJob == [step |-> "none", made |-> 0, at |-> Never, read |-> Never]

Init ==
  /\ hookClock = 0
  /\ subscription = [status |-> "active", fails |-> 0, since |-> Never]
  /\ jobs = [j \in Jobs |-> NewJob]
  /\ sweep = "idle"
  /\ deadLetters = {}
  /\ streak = [counted |-> {}, lastGood |-> Never]
  /\ order = "active"
  /\ hookFaults = 0
  /\ hookCause = {}

Step(j, from, to) == /\ jobs[j].step = from
                     /\ jobs' = [jobs EXCEPT ![j].step = to]

Fault(cause) == /\ hookFaults < MaxHookFaults
                /\ hookFaults' = hookFaults + 1
                /\ hookCause' = hookCause \cup {cause}

-----------------------------------------------------------------------------
(* Dispatch and the worker                                                  *)

\* Only active subscriptions get a job; url and secret are copied into it and
\* the status is not looked at again.
DispatchEvent(j) ==
  /\ subscription.status = "active"
  /\ Step(j, "none", "queued")
  /\ UNCHANGED <<hookClock, subscription, sweep, deadLetters, streak, order,
                 hookFaults, hookCause>>

\* addWebhookJob returns undefined when the queue is not up or the add fails;
\* the dispatcher takes that for success.
EnqueueFails(j) ==
  /\ subscription.status = "active"
  /\ Step(j, "none", "gone")
  /\ Fault("not enqueued")
  /\ UNCHANGED <<hookClock, subscription, sweep, deadLetters, streak, order>>

\* attemptPost answers 2xx, or anything else.
AttemptPost(j, success) ==
  /\ jobs[j].step = "queued"
  /\ jobs' = [jobs EXCEPT ![j].step = IF success THEN "delivered" ELSE "refused",
                          ![j].at = hookClock]
  /\ streak' = IF success THEN [streak EXCEPT !.lastGood = hookClock] ELSE streak
  /\ UNCHANGED <<hookClock, subscription, sweep, deadLetters, order, hookFaults, hookCause>>

IsLastAttempt(j) == jobs[j].made >= MaxAttempts - 1

\* What the queue does with a job whose processor threw.
Thrown(j) == IF IsLastAttempt(j) THEN [jobs[j] EXCEPT !.step = "gone"]
             ELSE [NewJob EXCEPT !.step = "queued", !.made = jobs[j].made + 1]

\* decrypt throws before anything is sent: the attempt is spent, and the last one
\* leaves neither a delivery row nor a dead letter and is not counted.
DecryptFails(j) ==
  /\ jobs[j].step = "queued"
  /\ Fault("secret unreadable")
  /\ jobs' = [jobs EXCEPT ![j] = Thrown(j)]
  /\ UNCHANGED <<hookClock, subscription, sweep, deadLetters, streak, order>>

\* The delivery row is written; the outcome decides how the processor goes on.
\* The last refused attempt also writes the dead letter.
RecordDelivery(j) ==
  /\ jobs[j].step \in {"delivered", "refused"}
  /\ jobs' = [jobs EXCEPT ![j] =
       CASE jobs[j].step = "delivered" -> [@ EXCEPT !.step = "success"]
         [] jobs[j].step = "refused" /\ ~IsLastAttempt(j) -> Thrown(j)
         [] OTHER -> [@ EXCEPT !.step = "dlq"]]
  /\ deadLetters' = IF jobs[j].step = "refused" /\ IsLastAttempt(j)
                    THEN deadLetters \cup {j} ELSE deadLetters
  /\ UNCHANGED <<hookClock, subscription, sweep, streak, order, hookFaults, hookCause>>

\* webhookDelivery.create or webhookDLQ.create throws: the attempt counts as
\* failed even after a 2xx, and on the last attempt the job ends unrecorded.
RecordDeliveryFails(j) ==
  /\ jobs[j].step \in {"delivered", "refused"}
  /\ Fault("row not written")
  /\ jobs' = [jobs EXCEPT ![j] = Thrown(j)]
  /\ UNCHANGED <<hookClock, subscription, sweep, deadLetters, streak, order>>

RecordSuccessKeepsStreak(j) == \* mutant: failingSinceAt is not cleared
  /\ Step(j, "success", "gone")
  /\ subscription' = [subscription EXCEPT !.fails = 0]
  /\ streak' = [streak EXCEPT !.counted = {}]
  /\ UNCHANGED <<hookClock, sweep, deadLetters, order, hookFaults, hookCause>>

\* recordDispatchOutcome of a success.
RecordSuccess(j) ==
  /\ Step(j, "success", "gone")
  /\ subscription' = [subscription EXCEPT !.fails = 0, !.since = Never]
  /\ streak' = [streak EXCEPT !.counted = {}]
  /\ UNCHANGED <<hookClock, sweep, deadLetters, order, hookFaults, hookCause>>

\* recordDispatchOutcome of a dead letter reads failingSinceAt ...
ReadStreak(j) ==
  /\ jobs[j].step = "dlq"
  /\ jobs' = [jobs EXCEPT ![j].step = "count", ![j].read = subscription.since]
  /\ UNCHANGED <<hookClock, subscription, sweep, deadLetters, streak, order,
                 hookFaults, hookCause>>

\* ... and writes it back, or the time of this failure, with the increment.
WriteStreak(j) ==
  /\ jobs[j].step = "count"
  /\ LET since == IF jobs[j].read # Never THEN jobs[j].read ELSE jobs[j].at IN
     /\ subscription' = [subscription EXCEPT !.fails = @ + 1, !.since = since]
     /\ hookCause' = hookCause
          \cup (IF jobs[j].read \notin {Never, subscription.since}
                THEN {"streak read before"} ELSE {})
          \cup (IF jobs[j].at < streak.lastGood THEN {"older than a success"} ELSE {})
          \cup (IF j \in streak.counted THEN {"counted again"} ELSE {})
  /\ streak' = [streak EXCEPT !.counted = @ \cup {j}]
  /\ jobs' = [jobs EXCEPT ![j].step = "counted"]
  /\ UNCHANGED <<hookClock, sweep, deadLetters, order, hookFaults>>

\* The processor throws after the last attempt and the job is over.
EndOfJob(j) ==
  /\ Step(j, "counted", "gone")
  /\ UNCHANGED <<hookClock, subscription, sweep, deadLetters, streak, order,
                 hookFaults, hookCause>>

\* An error of recordDispatchOutcome is logged and swallowed.
RecordOutcomeFails(j) ==
  /\ jobs[j].step \in {"success", "dlq", "count"}
  /\ Fault("outcome not recorded")
  /\ jobs' = [jobs EXCEPT ![j].step = "gone"]
  /\ UNCHANGED <<hookClock, subscription, sweep, deadLetters, streak, order>>

\* The worker goes silent in the middle of a job: it is queued again as it was.
Stalled(j) ==
  /\ jobs[j].step \in {"delivered", "refused", "success", "dlq", "count", "counted"}
  /\ Fault(IF jobs[j].step \in {"delivered", "success"}
           THEN "outcome not recorded" ELSE "worker silent")
  /\ jobs' = [jobs EXCEPT ![j] = [NewJob EXCEPT !.step = "queued", !.made = jobs[j].made]]
  /\ UNCHANGED <<hookClock, subscription, sweep, deadLetters, streak, order>>

-----------------------------------------------------------------------------
(* The sweep and the status API                                             *)

Qualifies ==
  /\ subscription.status = "active"
  /\ subscription.fails >= Threshold
  /\ subscription.since # Never /\ subscription.since <= hookClock - StaleAfter

SweepFinds ==
  /\ sweep = "idle" /\ Qualifies
  /\ sweep' = "found"
  /\ UNCHANGED <<hookClock, subscription, jobs, deadLetters, streak, order,
                 hookFaults, hookCause>>

\* updateSubscriptionStatus(id, "paused"), whatever the row says by now.
SweepPauses ==
  /\ sweep = "found"
  /\ sweep' = "idle"
  /\ subscription' = [subscription EXCEPT !.status = "paused"]
  /\ hookCause' = IF Qualifies THEN hookCause ELSE hookCause \cup {"sweep overtaken"}
  /\ UNCHANGED <<hookClock, jobs, deadLetters, streak, order, hookFaults>>

\* Re-activating clears the streak.
UpdateSubscriptionStatus(status) ==
  /\ subscription' = [subscription EXCEPT
       !.status = status,
       !.fails = IF status = "active" THEN 0 ELSE @,
       !.since = IF status = "active" THEN Never ELSE @]
  /\ order' = status
  /\ streak' = IF status = "active" THEN [counted |-> {}, lastGood |-> hookClock] ELSE streak
  /\ status # subscription.status
  /\ UNCHANGED <<hookClock, jobs, sweep, deadLetters, hookFaults, hookCause>>

HookTick ==
  /\ hookClock < MaxHookClock
  /\ hookClock' = hookClock + 1
  /\ UNCHANGED <<subscription, jobs, sweep, deadLetters, streak, order,
                 hookFaults, hookCause>>

Next ==
  \/ \E j \in Jobs :
       \/ DispatchEvent(j) \/ EnqueueFails(j)
       \/ \E success \in BOOLEAN : AttemptPost(j, success)
       \/ DecryptFails(j) \/ RecordDelivery(j) \/ RecordDeliveryFails(j)
       \/ RecordSuccess(j) \/ ReadStreak(j) \/ WriteStreak(j) \/ EndOfJob(j)
       \/ RecordOutcomeFails(j) \/ Stalled(j)
  \/ SweepFinds
  \/ SweepPauses
  \/ \E status \in {"active", "paused", "revoked"} : UpdateSubscriptionStatus(status)
  \/ HookTick

Spec == Init /\ [][Next]_hookVars

-----------------------------------------------------------------------------
\* Types of the subscription row and of the jobs.
TypeOK ==
  /\ subscription.status \in {"active", "paused", "revoked"}
  /\ subscription.fails \in Nat /\ subscription.since \in {Never} \cup 0..hookClock
  /\ \A j \in Jobs :
       /\ jobs[j].step \in {"none", "queued", "delivered", "refused", "success", "dlq",
                            "count", "counted", "gone"}
       /\ jobs[j].made \in 0..MaxAttempts - 1
  /\ deadLetters \subseteq Jobs

\* "All attempts exhausted, no success in between" and "failing continuously"
\* (jobs/webhookAutoDisable.ts:25-30): the counters the sweep goes by count
\* distinct dispatches, and neither a 2xx nor a re-activation is younger than
\* failingSinceAt, once the 2xx answers have been recorded; and the sweep never
\* replaces a revocation.  Exceptions: an outcome that was not recorded or was
\* repeated, a failure written after a success it preceded or over a streak it
\* had read before, a sweep overtaken between its query and its update.
StreakIsTrue ==
  /\ hookCause \cap {"outcome not recorded", "row not written", "counted again",
                     "streak read before", "older than a success"} = {}
     /\ (\A j \in Jobs : jobs[j].step \notin {"delivered", "success"}) =>
       /\ subscription.fails = Cardinality(streak.counted)
       /\ subscription.since # Never => streak.lastGood <= subscription.since
  /\ "sweep overtaken" \notin hookCause => (order = "revoked" => subscription.status = "revoked")
=============================================================================
