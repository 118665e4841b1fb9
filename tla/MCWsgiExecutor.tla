--------------------------- MODULE MCWsgiExecutor ---------------------------
(***************************************************************************)
(* WsgiExecutor as an instance: its properties keep their names, and those *)
(* of its parts (Init, Next, ...) remain free, so that a module can extend *)
(* this one and another component.                                         *)
(***************************************************************************)
EXTENDS FiniteSets

CONSTANTS Items, Workers, NoItem, PoolThreads

\* worker_threads is at least 1 (src/lib.rs:223).
ASSUME WorkersAssumption == IsFiniteSet(Workers) /\ Workers # {}
ASSUME PoolThreadsAssumption == IsFiniteSet(PoolThreads)
ASSUME NoItemAssumption == NoItem \notin Items

VARIABLES queue, closed, pushed, holding, gone, executing, submitted, dropped,
          shutdown, connected, workers, pool, job, closer

Exec == INSTANCE WsgiExecutor WITH pc <- executing

ExecutorSteps == Exec!Spec

\* The count that shutdown waits on is that of the pool's threads, and no job
\* runs on two of them.
WorkersCounted == Exec!WorkersCounted

\* No job meets a pool that is shut down, and shutdown leaves nothing behind.
ShutdownIsComplete == Exec!ShutdownIsComplete

\* Shutdown returns, provided applications and jobs do.
ShutdownReturns == Exec!ShutdownReturns
=============================================================================
