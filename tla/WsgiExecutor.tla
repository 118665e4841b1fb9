---------------------------- MODULE WsgiExecutor ----------------------------
(***************************************************************************)
(* The threads of the WSGI executor and how they end: the application      *)
(* threads, which run requests off the work queue (src/wsgi/python.rs),    *)
(* the elastic pool that iterates request bodies for them                  *)
(* (src/wsgi/pool.rs), and the shutdown that the drop of the filter        *)
(* configuration starts.  The work queue is the abstract one; a request    *)
(* submits at most one job to the pool, and gives its name to it.  What is *)
(* assumed of the constants is said in MCWsgiExecutor.                     *)
(***************************************************************************)
EXTENDS Integers, Sequences, FiniteSets

CONSTANTS Items,        \* the requests
          Workers,      \* the application threads
          NoItem,       \* what a thread without a request or a job holds
          PoolThreads   \* bound: the pool's threads at a time

VARIABLES
  queue, closed, pushed, holding, gone,  \* the work queue
  pc,        \* where each application thread is in PoolHandle::execute
  submitted, \* the jobs that were passed to execute
  dropped,   \* those that it did not run
  shutdown,  \* Inner.shutdown
  connected, \* whether shutdown_tx is still there
  workers,   \* Inner.workers
  pool,      \* what each pool thread does
  job,       \* the job that it runs
  closer     \* where the thread that shuts down is

queueVars == <<queue, closed, pushed, holding, gone>>
poolVars == <<shutdown, connected, workers, pool, job>>
vars == <<queueVars, pc, submitted, dropped, poolVars, closer>>

Queue == INSTANCE WorkQueueSpec

Init ==
  /\ Queue!Init
  /\ pc = [w \in Workers |-> "app"]
  /\ submitted = {} /\ dropped = {}
  /\ shutdown = FALSE /\ connected = TRUE /\ workers = 0
  /\ pool = [t \in PoolThreads |-> "none"]
  /\ job = [t \in PoolThreads |-> NoItem]
  /\ closer = "serving"

-----------------------------------------------------------------------------
(* Requests: Executor::execute_app and the loop of the application threads.*)

\* A filter exists until the configuration is dropped, so no request arrives
\* after that.
Push(i) ==
  /\ closer = "serving"
  /\ Queue!Push(i)
  /\ UNCHANGED <<pc, submitted, dropped, poolVars, closer>>

Take(w) ==
  /\ Queue!Take(w)
  /\ UNCHANGED <<pc, submitted, dropped, poolVars, closer>>

\* The application returns.
Finish(w) ==
  /\ pc[w] = "app"
  /\ Queue!Finish(w)
  /\ UNCHANGED <<pc, submitted, dropped, poolVars, closer>>

Leave(w) ==
  /\ Queue!Leave(w)
  /\ UNCHANGED <<pc, submitted, dropped, poolVars, closer>>

-----------------------------------------------------------------------------
(* PoolHandle::execute, on an application thread.                          *)

\* The flag is read first: a pool that is shut down takes no job.
Submit(w) ==
  /\ pc[w] = "app"
  /\ holding[w] # NoItem /\ holding[w] \notin submitted
  /\ submitted' = submitted \cup {holding[w]}
  /\ IF shutdown
       THEN dropped' = dropped \cup {holding[w]} /\ UNCHANGED pc
       ELSE pc' = [pc EXCEPT ![w] = "trySend"] /\ UNCHANGED dropped
  /\ UNCHANGED <<queueVars, poolVars, closer>>

\* try_send hands the job to a pool thread that waits for one,
HandOver(w, t) ==
  /\ pc[w] = "trySend"
  /\ pool[t] = "idle"
  /\ pool' = [pool EXCEPT ![t] = "busy"]
  /\ job' = [job EXCEPT ![t] = holding[w]]
  /\ pc' = [pc EXCEPT ![w] = "app"]
  /\ UNCHANGED <<queueVars, submitted, dropped, shutdown, connected, workers, closer>>

\* or, when none does, a thread is counted
CountThread(w) ==
  /\ pc[w] = "trySend"
  /\ \A t \in PoolThreads : pool[t] # "idle"
  /\ workers' = workers + 1
  /\ pc' = [pc EXCEPT ![w] = "spawn"]
  /\ UNCHANGED <<queueVars, submitted, dropped, shutdown, connected, pool, job, closer>>

\* and spawned, with the job as its first.
SpawnThread(w, t) ==
  /\ pc[w] = "spawn"
  /\ pool[t] = "none"
  /\ pool' = [pool EXCEPT ![t] = "busy"]
  /\ job' = [job EXCEPT ![t] = holding[w]]
  /\ pc' = [pc EXCEPT ![w] = "app"]
  /\ UNCHANGED <<queueVars, submitted, dropped, shutdown, connected, workers, closer>>

-----------------------------------------------------------------------------
(* run_worker.                                                             *)

\* A broken thread, which is not uncounted when its job panics.
JobPanicsUncounted(t) ==
  /\ pool[t] = "busy"
  /\ pool' = [pool EXCEPT ![t] = "none"]
  /\ job' = [job EXCEPT ![t] = NoItem]
  /\ UNCHANGED <<queueVars, pc, submitted, dropped, shutdown, connected, workers, closer>>

\* The job is done and the thread selects again, or the job panics and the
\* thread unwinds.
JobEnds(t) ==
  /\ pool[t] = "busy"
  /\ pool' = [pool EXCEPT ![t] = "idle"]
  /\ job' = [job EXCEPT ![t] = NoItem]
  /\ UNCHANGED <<queueVars, pc, submitted, dropped, shutdown, connected, workers, closer>>

JobPanics(t) ==
  /\ pool[t] = "busy"
  /\ pool' = [pool EXCEPT ![t] = "leaving"]
  /\ job' = [job EXCEPT ![t] = NoItem]
  /\ UNCHANGED <<queueVars, pc, submitted, dropped, shutdown, connected, workers, closer>>

\* An idle thread leaves after KEEP_ALIVE,
KeepAliveElapses(t) ==
  /\ pool[t] = "idle"
  /\ pool' = [pool EXCEPT ![t] = "leaving"]
  /\ UNCHANGED <<queueVars, pc, submitted, dropped, shutdown, connected, workers, job,
                 closer>>

\* or when the pool shuts down.
Disconnected(t) ==
  /\ pool[t] = "idle"
  /\ ~connected
  /\ pool' = [pool EXCEPT ![t] = "leaving"]
  /\ UNCHANGED <<queueVars, pc, submitted, dropped, shutdown, connected, workers, job,
                 closer>>

\* WorkerCountGuard::drop, whose notify_all wakes the thread that shuts down.
Uncount(t) ==
  /\ pool[t] = "leaving"
  /\ pool' = [pool EXCEPT ![t] = "none"]
  /\ workers' = workers - 1
  /\ closer' = IF workers = 1 /\ closer = "asleep" THEN "waiting" ELSE closer
  /\ UNCHANGED <<queueVars, pc, submitted, dropped, shutdown, connected, job>>

-----------------------------------------------------------------------------
(* Executor::shutdown.                                                     *)

CloseQueue ==
  /\ closer = "serving"
  /\ closer' = "joining"
  /\ Queue!Close
  /\ UNCHANGED <<pc, submitted, dropped, poolVars>>

\* "Close the app queue and join the app workers first."
JoinWorkers ==
  /\ closer = "joining"
  /\ gone = Workers
  /\ closer' = "joined"
  /\ UNCHANGED <<queueVars, pc, submitted, dropped, poolVars>>

\* BlockingPool::shutdown: the flag, then the disconnect, then the wait.
SetShutdown ==
  /\ closer = "joined"
  /\ shutdown' = TRUE
  /\ closer' = "flagged"
  /\ UNCHANGED <<queueVars, pc, submitted, dropped, connected, workers, pool, job>>

\* A broken shutdown, which keeps the sender that tells idle threads to leave.
DisconnectNot ==
  /\ closer = "flagged"
  /\ closer' = "waiting"
  /\ UNCHANGED <<queueVars, pc, submitted, dropped, shutdown, connected, workers, pool,
                 job>>

Disconnect ==
  /\ closer = "flagged"
  /\ connected' = FALSE
  /\ closer' = "waiting"
  /\ UNCHANGED <<queueVars, pc, submitted, dropped, shutdown, workers, pool, job>>

AwaitWorkers ==
  /\ closer = "waiting"
  /\ closer' = IF workers > 0 THEN "asleep" ELSE "done"
  /\ UNCHANGED <<queueVars, pc, submitted, dropped, poolVars>>

\* A broken wait, which takes any wakeup for the last thread's.
SpuriousWakeupEnds ==
  /\ closer = "asleep"
  /\ closer' = "done"
  /\ UNCHANGED <<queueVars, pc, submitted, dropped, poolVars>>

SpuriousWakeup ==
  /\ closer = "asleep"
  /\ closer' = "waiting"
  /\ UNCHANGED <<queueVars, pc, submitted, dropped, poolVars>>

Terminated == closer = "done" /\ UNCHANGED vars

Next ==
  \/ \E i \in Items : Push(i)
  \/ \E w \in Workers :
       \/ Take(w) \/ Finish(w) \/ Leave(w)
       \/ Submit(w) \/ CountThread(w)
       \/ \E t \in PoolThreads : HandOver(w, t) \/ SpawnThread(w, t)
  \/ \E t \in PoolThreads :
       JobEnds(t) \/ JobPanics(t) \/ KeepAliveElapses(t) \/ Disconnected(t) \/ Uncount(t)
  \/ CloseQueue \/ JoinWorkers \/ SetShutdown \/ Disconnect
  \/ AwaitWorkers \/ SpuriousWakeup
  \/ Terminated

\* What a thread does next by itself.
AppStep(w) ==
  \/ Take(w) \/ Leave(w) \/ Finish(w) \/ CountThread(w)
  \/ \E t \in PoolThreads : HandOver(w, t) \/ SpawnThread(w, t)
PoolStep(t) == JobEnds(t) \/ JobPanics(t) \/ Disconnected(t) \/ Uncount(t)
ShutdownStep == JoinWorkers \/ SetShutdown \/ Disconnect \/ AwaitWorkers

(***************************************************************************)
(* Every thread runs.  Applications return, and the iteration of a request *)
(* body ends, as the end of the request closes the iterator.  The queue    *)
(* hands out its items (WorkQueue shows it).  KEEP_ALIVE is not relied on. *)
(***************************************************************************)
Fairness ==
  /\ \A w \in Workers : WF_vars(AppStep(w))
  /\ \A t \in PoolThreads : WF_vars(PoolStep(t))
  /\ WF_vars(ShutdownStep)

Safety == Init /\ [][Next]_vars
Spec == Safety /\ Fairness

-----------------------------------------------------------------------------
\* The state is well formed.
TypeOK ==
  /\ pc \in [Workers -> {"app", "trySend", "spawn"}]
  /\ \A w \in Workers : pc[w] # "app" => holding[w] # NoItem
  /\ submitted \subseteq pushed /\ dropped \subseteq submitted
  /\ shutdown \in BOOLEAN /\ connected \in BOOLEAN
  /\ workers \in Nat
  /\ pool \in [PoolThreads -> {"none", "busy", "idle", "leaving"}]
  /\ job \in [PoolThreads -> Items \cup {NoItem}]
  /\ closer \in {"serving", "joining", "joined", "flagged", "waiting", "asleep", "done"}

(***************************************************************************)
(* The count that shutdown waits on is that of the pool's threads, those   *)
(* that are about to be spawned included, also when a job panics.  No job  *)
(* runs on two of them.                                                    *)
(***************************************************************************)
WorkersCounted ==
  /\ TypeOK
  /\ workers = Cardinality({t \in PoolThreads : pool[t] # "none"})
                 + Cardinality({w \in Workers : pc[w] = "spawn"})
  /\ \A t, u \in PoolThreads : job[t] = job[u] /\ job[t] # NoItem => t = u

(***************************************************************************)
(* "Any in-flight request still has its body iteration serviced until it   *)
(* completes": no job meets a pool that is shut down.  When shutdown       *)
(* returns, every request that was queued has been run, and no thread that *)
(* could touch Python is left.                                             *)
(***************************************************************************)
ShutdownIsComplete ==
  /\ dropped = {}
  /\ closer = "done" =>
       /\ queue = <<>> /\ gone = Workers
       /\ \A w \in Workers : holding[w] = NoItem
       /\ \A t \in PoolThreads : pool[t] = "none"

(***************************************************************************)
(* Shutdown returns, provided applications and jobs do.                    *)
(***************************************************************************)
ShutdownReturns == closer = "joining" ~> closer = "done"
=============================================================================
