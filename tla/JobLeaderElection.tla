--------------------------- MODULE JobLeaderElection ---------------------------
(***************************************************************************)
(* Leader election for one scheduled job,                                  *)
(* backend/src/services/jobLeaderElection.ts.                              *)
(*                                                                         *)
(* The cron of every backend instance fires the job.  A PostgreSQL         *)
(* advisory lock, bound to an open transaction, decides which instance     *)
(* runs it, and the table ScheduledJobRun remembers the runs.  Every       *)
(* database call is an await, so the steps of different instances          *)
(* interleave between calls; an instance may crash between any two; and    *)
(* the lock's transaction may end (timeout, lost connection) while the job *)
(* that it protects is still running.                                      *)
(*                                                                         *)
(* Times are ages: how long ago something happened, counted no further     *)
(* than MinInterval, the only value the code compares an age with.  A      *)
(* worker's earlier rows are settled before it starts a new one, so the    *)
(* model keeps its latest row, and of all completed rows the age of the    *)
(* one started last.                                                       *)
(***************************************************************************)
EXTENDS Naturals

CONSTANTS
  Workers,      \* the instances' cron callbacks for this job
  MinInterval,  \* minIntervalMs
  Nobody

ASSUME ElectionAssumption == MinInterval \in Nat \ {0} /\ Nobody \notin Workers

VARIABLES
  pc,         \* where each worker is in run()
  lock,       \* the session that holds the advisory lock, or Nobody
  lost,       \* handle.lost
  rows,       \* each worker's latest ScheduledJobRun row
  last,       \* age of the start of the completed row that started last
  seen,       \* what findLastCompleted returned to a worker, ageing since
  kept        \* the same as last, of the runs that never lost the lock

electionVars == <<pc, lock, lost, rows, last, seen, kept>>

PC == {"idle", "down", "locked", "abandoned", "checking", "running",
       "succeeding", "failing", "releasing"}
RowStatus == {"none", "running", "succeeded", "failed", "abandoned"}
Ages == 0..MinInterval

\* Lock, rows and locals of the workers have the shapes the code gives them.
ElectionTypeOK ==
  /\ pc \in [Workers -> PC]
  /\ lock \in Workers \cup {Nobody}
  /\ lost \in [Workers -> BOOLEAN]
  /\ rows \in [Workers -> [status: RowStatus, age: Ages]]
  /\ last \in Ages
  /\ seen \in [Workers -> Ages]
  /\ kept \in Ages

ElectionInit ==
  /\ pc = [w \in Workers |-> "idle"]
  /\ lock = Nobody
  /\ lost = [w \in Workers |-> FALSE]
  /\ rows = [w \in Workers |-> [status |-> "none", age |-> MinInterval]]
  /\ last = MinInterval
  /\ seen = [w \in Workers |-> MinInterval]
  /\ kept = MinInterval

-----------------------------------------------------------------------------
MovesTo(w, from, to) == pc[w] = from /\ pc' = [pc EXCEPT ![w] = to]

Younger(a, b) == IF a < b THEN a ELSE b

\* The job is the worker's to run, whatever has become of its lock.
InJob(w) == pc[w] \in {"running", "succeeding", "failing"}

\* Mutant: the outcome of tryAcquire is ignored.
AcquireAnyway(w) ==
  /\ MovesTo(w, "idle", "locked")
  /\ lock' = w
  /\ lost' = [lost EXCEPT ![w] = FALSE]
  /\ UNCHANGED <<rows, last, seen, kept>>

\* tryAcquire: without waiting, or skip the tick (lock_held: stay idle).
Acquire(w) ==
  /\ MovesTo(w, "idle", "locked")
  /\ lock = Nobody
  /\ lock' = w
  /\ lost' = [lost EXCEPT ![w] = FALSE]
  /\ UNCHANGED <<rows, last, seen, kept>>

\* Every row that says it is running becomes abandoned, whoever runs it.
AbandonRunning(w) ==
  /\ MovesTo(w, "locked", "abandoned")
  /\ rows' = [v \in Workers |->
       IF rows[v].status = "running" THEN [rows[v] EXCEPT !.status = "abandoned"]
                                     ELSE rows[v]]
  /\ UNCHANGED <<lock, lost, last, seen, kept>>

FindLastCompleted(w) ==
  /\ MovesTo(w, "abandoned", "checking")
  /\ seen' = [seen EXCEPT ![w] = last]
  /\ UNCHANGED <<lock, lost, rows, last, kept>>

SkipRecentlyRun(w) ==
  /\ seen[w] < MinInterval
  /\ MovesTo(w, "checking", "releasing")
  /\ UNCHANGED <<lock, lost, rows, last, seen, kept>>

Start(w) ==
  /\ ~(seen[w] < MinInterval)
  /\ MovesTo(w, "checking", "running")
  /\ rows' = [rows EXCEPT ![w] = [status |-> "running", age |-> 0]]
  /\ UNCHANGED <<lock, lost, last, seen, kept>>

\* A database call before the job has started throws: the tick is given up.
LeadershipError(w) ==
  /\ \E from \in {"locked", "abandoned", "checking"} : MovesTo(w, from, "releasing")
  /\ UNCHANGED <<lock, lost, rows, last, seen, kept>>

JobReturns(w) ==
  /\ MovesTo(w, "running", "succeeding")
  /\ UNCHANGED <<lock, lost, rows, last, seen, kept>>

JobThrows(w) ==
  /\ MovesTo(w, "running", "failing")
  /\ UNCHANGED <<lock, lost, rows, last, seen, kept>>

\* Mutant: findLastCompleted looks for succeeded runs only.
FinishForgettingFailures(w, status) ==
  /\ rows' = [rows EXCEPT ![w].status = status]
  /\ last' = IF status = "succeeded" THEN Younger(last, rows[w].age) ELSE last
  /\ kept' = IF lost[w] THEN kept ELSE Younger(kept, rows[w].age)
  /\ UNCHANGED <<lock, lost, seen>>

\* finish(): an update by row id, whatever status the row has by now.
Finish(w, status) ==
  /\ rows' = [rows EXCEPT ![w].status = status]
  /\ last' = Younger(last, rows[w].age)
  /\ kept' = IF lost[w] THEN kept ELSE Younger(kept, rows[w].age)
  /\ UNCHANGED <<lock, lost, seen>>

FinishSucceeded(w) == MovesTo(w, "succeeding", "releasing") /\ Finish(w, "succeeded")

\* The update throws: the catch block takes the run for a failed one.
FinishSucceededThrows(w) ==
  /\ MovesTo(w, "succeeding", "failing")
  /\ UNCHANGED <<lock, lost, rows, last, seen, kept>>

FinishFailed(w) == MovesTo(w, "failing", "releasing") /\ Finish(w, "failed")

\* This update's error is only logged: the row goes on saying "running".
FinishFailedThrows(w) ==
  /\ MovesTo(w, "failing", "releasing")
  /\ UNCHANGED <<lock, lost, rows, last, seen, kept>>

\* finally: release() commits the lock's transaction, if it is still open.
Release(w) ==
  /\ MovesTo(w, "releasing", "idle")
  /\ lock' = IF lock = w THEN Nobody ELSE lock
  /\ UNCHANGED <<lost, rows, last, seen, kept>>

\* Mutant: a job that is running keeps the lock's transaction open.
LoseLockWhenIdle(w) ==
  /\ lock = w /\ pc[w] # "running"
  /\ lock' = Nobody
  /\ lost' = [lost EXCEPT ![w] = TRUE]
  /\ UNCHANGED <<pc, rows, last, seen, kept>>

\* The lock's transaction times out (maxHoldMs) or loses its connection.
LoseLock(w) ==
  /\ lock = w
  /\ lock' = Nobody
  /\ lost' = [lost EXCEPT ![w] = TRUE]
  /\ UNCHANGED <<pc, rows, last, seen, kept>>

\* The instance dies: PostgreSQL rolls back and frees the lock, the row stays.
Crash(w) ==
  /\ pc[w] # "down"
  /\ pc' = [pc EXCEPT ![w] = "down"]
  /\ lock' = IF lock = w THEN Nobody ELSE lock
  /\ lost' = [lost EXCEPT ![w] = FALSE]
  /\ UNCHANGED <<rows, last, seen, kept>>

Restart(w) ==
  /\ MovesTo(w, "down", "idle")
  /\ UNCHANGED <<lock, lost, rows, last, seen, kept>>

Older(a) == IF a < MinInterval THEN a + 1 ELSE a

AgesPass ==
  /\ rows' = [w \in Workers |-> [rows[w] EXCEPT !.age = Older(@)]]
  /\ last' = Older(last)
  /\ seen' = [w \in Workers |-> Older(seen[w])]
  /\ kept' = Older(kept)
  /\ UNCHANGED <<pc, lock, lost>>

RunStep(w) ==
  \/ AbandonRunning(w) \/ FindLastCompleted(w) \/ SkipRecentlyRun(w) \/ Start(w)
  \/ LeadershipError(w)
  \/ FinishSucceeded(w) \/ FinishSucceededThrows(w)
  \/ FinishFailed(w) \/ FinishFailedThrows(w)
  \/ Release(w)

ElectionNext ==
  \/ \E w \in Workers :
       \/ Acquire(w) \/ RunStep(w) \/ JobReturns(w) \/ JobThrows(w)
       \/ LoseLock(w) \/ Crash(w) \/ Restart(w)
  \/ AgesPass

(***************************************************************************)
(* The event loop runs every pending continuation, a crashed instance is   *)
(* restarted, and the lock's transaction ends at maxHoldMs at the latest.  *)
(* The job itself may hang.  Cron fires again and again, and neither the   *)
(* crashes nor the failures of the database defeat every tick (SF).        *)
(***************************************************************************)
ElectionFairness ==
  \A w \in Workers :
    /\ WF_electionVars(RunStep(w)) /\ WF_electionVars(Restart(w)) /\ WF_electionVars(LoseLock(w))
    /\ SF_electionVars(Acquire(w)) /\ SF_electionVars(AbandonRunning(w))

ElectionSpec == ElectionInit /\ [][ElectionNext]_electionVars /\ ElectionFairness

-----------------------------------------------------------------------------
\* The job runs on two instances at once only if one of them has lost the
\* lock under way, which is the case the code can only log.
NoOverlapUnlessLost ==
  \A v, w \in Workers : v # w /\ InJob(v) /\ InJob(w) => lost[v] \/ lost[w]

\* The run of an instance that is alive and has kept its lock is written off
\* only by a worker that lost the lock between taking it and abandonRunning.
WriteOffNeedsALostLock ==
  [][\A w \in Workers :
       InJob(w) /\ ~lost[w] /\ rows[w].status = "running" /\ rows'[w].status = "abandoned"
         => \E v \in Workers \ {w} : lost[v] /\ pc[v] = "locked"]_electionVars

\* Lost locks apart, the lock keeps instances out of each other's runs and rows.
LockGuardsRows == []NoOverlapUnlessLost /\ WriteOffNeedsALostLock

\* A run that starts under the lock starts at least MinInterval after the start
\* of any completed run that kept the lock: one tick, one execution, even for
\* a straggler whose cron fires after the leader has finished.
KeptRunsAreSpaced ==
  [][\A w \in Workers :
       pc[w] = "checking" /\ pc'[w] = "running" /\ ~lost[w] => ~(kept < MinInterval)]_electionVars

\* Nobody keeps the lock for ever, hung job or not.
LockIsFreed == \A w \in Workers : lock = w ~> lock # w

\* A row that says "running" is settled in the end, by its worker or, after a
\* crash, a hang or a failed update, by the next holder: unless the job hangs
\* on every one of them.
RunningRowSettles ==
  \A w \in Workers :
    rows[w].status = "running" ~>
      (rows[w].status # "running" \/ \A v \in Workers : pc[v] = "running")

\* Hung jobs, crashes and failed updates block neither the lock nor the record.
LeadershipRecovers == LockIsFreed /\ RunningRowSettles

\* What abandonRunning relies on: the rows it writes off belong to dead holders.
AbandonedMeansDead ==
  \A w \in Workers : InJob(w) => rows[w].status # "abandoned"
=============================================================================
