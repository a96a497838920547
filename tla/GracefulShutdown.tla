-------------------------- MODULE GracefulShutdown --------------------------
(***************************************************************************)
(* The shutdown of a server process (services/gracefulShutdown.ts and its   *)
(* wiring in index.ts): readiness fails, schedulers are stopped, requests   *)
(* and queue workers drain side by side, each under its own timeout, and    *)
(* then the queues, Redis and the database are closed in this order.        *)
(*                                                                          *)
(* A task is a request, a queue job, a run of a scheduler or of the event   *)
(* indexer, or a promise a handler started and did not await.  Cutting off  *)
(* a connection or requeueing a job does not stop the code that serves it.  *)
(***************************************************************************)
EXTENDS Integers, FiniteSets

CONSTANTS
  Requests, Probes,     \* requests; those for /api/health and /metrics
  QueueJobs, Scheduled, Floating

VARIABLES
  phase,        \* serving, draining, closing, exited
  elapsed,      \* both drain timeouts have passed
  closed,       \* resources closed so far, in order
  task,         \* idle, running, done, by task
  drained,      \* the drains that have resolved: "http", "workers"
  forced,       \* the drains that resolved by their timeout
  hungUp,       \* the requests whose client closed the connection
  queue,        \* BullMQ's view of a job: waiting, active, completed
  finished      \* ghost: how often a job ran to its end, on any replica

stopVars == <<phase, elapsed, closed, task, drained, forced, hungUp, queue, finished>>

Tasks == Requests \cup QueueJobs \cup Scheduled \cup Floating
Resources == 5      \* queues, redis-cluster, redis, database, sentry

Init ==
  /\ phase = "serving" /\ elapsed = FALSE /\ closed = 0
  /\ task = [t \in Tasks |-> "idle"]
  /\ drained = {} /\ forced = {} /\ hungUp = {}
  /\ queue = [j \in QueueJobs |-> "waiting"]
  /\ finished = [j \in QueueJobs |-> 0]

Running(set) == {t \in set : task[t] = "running"}
Connected == Running(Requests) \ hungUp

-----------------------------------------------------------------------------
(* Work                                                                     *)

\* Once shuttingDown is set the worker takes no job, the stopped schedulers start
\* no run, and a request on an open socket is answered 503 unless it is a probe.
StartTask(t) ==
  /\ task[t] = "idle"
  /\ \/ phase = "serving"
     \/ phase = "draining" /\ "http" \notin drained /\ t \in Probes
  /\ t \in Floating => Running(Requests) # {}
  /\ t \in QueueJobs => queue[t] = "waiting"
  /\ task' = [task EXCEPT ![t] = "running"]
  /\ queue' = IF t \in QueueJobs THEN [queue EXCEPT ![t] = "active"] ELSE queue
  /\ UNCHANGED <<phase, elapsed, closed, drained, forced, hungUp, finished>>

\* A request in flight may still start a promise it does not await.
StartFloating(t) ==
  /\ t \in Floating /\ task[t] = "idle"
  /\ phase \in {"draining", "closing"} /\ Running(Requests) # {}
  /\ task' = [task EXCEPT ![t] = "running"]
  /\ UNCHANGED <<phase, elapsed, closed, drained, forced, hungUp, queue, finished>>

\* A job that ends marks its queue entry, unless that has been taken from it.
EndTask(t) ==
  /\ phase # "exited" /\ task[t] = "running"
  /\ task' = [task EXCEPT ![t] = "done"]
  /\ IF t \in QueueJobs
     THEN /\ finished' = [finished EXCEPT ![t] = @ + 1]
          /\ queue' = [queue EXCEPT ![t] = IF @ = "active" THEN "completed" ELSE @]
     ELSE UNCHANGED <<queue, finished>>
  /\ UNCHANGED <<phase, elapsed, closed, drained, forced, hungUp>>

\* The client goes away: the connection ends, the handler runs on.
HangUp(t) ==
  /\ phase # "exited" /\ t \in Requests
  /\ task[t] = "running" /\ t \notin hungUp
  /\ hungUp' = hungUp \cup {t}
  /\ UNCHANGED <<phase, elapsed, closed, task, drained, forced, queue, finished>>

\* Another replica takes a job that waits, or that this process held when it
\* died (stall detection).
OtherReplica(j) ==
  /\ \/ queue[j] = "waiting" /\ task[j] # "idle"
     \/ queue[j] = "active" /\ phase = "exited"
  /\ queue' = [queue EXCEPT ![j] = "completed"]
  /\ finished' = [finished EXCEPT ![j] = @ + 1]
  /\ UNCHANGED <<phase, elapsed, closed, task, drained, forced, hungUp>>

-----------------------------------------------------------------------------
(* The sequence of run()                                                    *)

\* A second signal returns the run in progress.
Signal ==
  /\ phase = "serving"
  /\ phase' = "draining"
  /\ UNCHANGED <<elapsed, closed, task, drained, forced, hungUp, queue, finished>>

TimeoutsElapse ==
  /\ phase \in {"draining", "closing"} /\ ~elapsed
  /\ elapsed' = TRUE
  /\ UNCHANGED <<phase, closed, task, drained, forced, hungUp, queue, finished>>

\* server.close resolves when the last connection ended; at the timeout
\* closeAllConnections ends them.
DrainHttpServer ==
  /\ phase = "draining" /\ "http" \notin drained
  /\ Connected = {} \/ elapsed
  /\ drained' = drained \cup {"http"}
  /\ forced' = IF Connected = {} THEN forced ELSE forced \cup {"http"}
  /\ UNCHANGED <<phase, elapsed, closed, task, hungUp, queue, finished>>

\* worker.close waits for the running jobs; at the timeout each is moved back
\* to the waiting list (or has lost its lock) and the worker is cut loose.
DrainWorkers ==
  /\ phase = "draining" /\ "workers" \notin drained
  /\ Running(QueueJobs) = {} \/ elapsed
  /\ drained' = drained \cup {"workers"}
  /\ forced' = IF Running(QueueJobs) = {} THEN forced ELSE forced \cup {"workers"}
  /\ \E moved \in SUBSET Running(QueueJobs) :
       queue' = [j \in QueueJobs |-> IF j \in moved THEN "waiting" ELSE queue[j]]
  /\ UNCHANGED <<phase, elapsed, closed, task, hungUp, finished>>

StartClosingEarly == \* mutant: does not wait for the workers
  /\ phase = "draining" /\ "http" \in drained
  /\ phase' = "closing"
  /\ UNCHANGED <<elapsed, closed, task, drained, forced, hungUp, queue, finished>>

\* Promise.all of the two drains, then the resources one after another.
StartClosing ==
  /\ phase = "draining" /\ drained = {"http", "workers"}
  /\ phase' = "closing"
  /\ UNCHANGED <<elapsed, closed, task, drained, forced, hungUp, queue, finished>>

\* A failed close is reported and the next resource is closed.
CloseResource ==
  /\ phase = "closing" /\ closed < Resources
  /\ closed' = closed + 1
  /\ UNCHANGED <<phase, elapsed, task, drained, forced, hungUp, queue, finished>>

\* process.exit after the last resource, or from the watchdog, which waits five
\* seconds longer than the timeouts.
Exit ==
  /\ phase \in {"draining", "closing"} /\ (closed = Resources \/ elapsed)
  /\ phase' = "exited"
  /\ UNCHANGED <<elapsed, closed, task, drained, forced, hungUp, queue, finished>>

Next ==
  \/ \E t \in Tasks : StartTask(t) \/ StartFloating(t) \/ EndTask(t) \/ HangUp(t)
  \/ \E j \in QueueJobs : OtherReplica(j)
  \/ Signal \/ TimeoutsElapse \/ DrainHttpServer \/ DrainWorkers
  \/ StartClosing \/ CloseResource \/ Exit

Spec == Init /\ [][Next]_stopVars

-----------------------------------------------------------------------------
\* Types of the phase, the tasks and the queue.
TypeOK ==
  /\ phase \in {"serving", "draining", "closing", "exited"}
  /\ closed \in 0..Resources
  /\ task \in [Tasks -> {"idle", "running", "done"}]
  /\ hungUp \subseteq Requests /\ forced \subseteq drained /\ drained \subseteq {"http", "workers"}
  /\ queue \in [QueueJobs -> {"waiting", "active", "completed"}]

\* Resources are closed "once nothing can use them any more"
\* (gracefulShutdown.ts:17): when the first one goes, a request still runs only
\* if the request drain timed out or its client has gone, and a job only if the
\* worker drain timed out.  A job runs to its end twice only after such a
\* timeout.  Scheduler runs, the indexer loop and promises nobody awaits are
\* outside both drains.
DrainedBeforeClosed ==
  /\ closed > 0 =>
       /\ Connected # {} => "http" \in forced
       /\ Running(QueueJobs) # {} => "workers" \in forced
  /\ \A j \in QueueJobs :
       /\ finished[j] > 1 => "workers" \in forced
       /\ queue[j] = "completed" => finished[j] > 0
=============================================================================
