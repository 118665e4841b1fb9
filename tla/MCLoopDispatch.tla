--------------------------- MODULE MCLoopDispatch ---------------------------
(***************************************************************************)
(* LoopDispatch as an instance: its properties keep their names, and those *)
(* of its parts (Init, Next, ...) remain free, so that a module can extend *)
(* this one and another component.                                         *)
(***************************************************************************)
EXTENDS Naturals

CONSTANTS Tasks, BatchSize

\* DRAIN_BATCH_SIZE is a positive constant (src/asgi/shared/eventloop.rs).
ASSUME BatchSizeAssumption == BatchSize \in Nat \ {0}

VARIABLES tasks, wakePending, dispatched, waking, watches, signals, ready, round,
          loopAt, taken, ran, overtaken

Loop == INSTANCE LoopDispatch WITH pc <- loopAt, batch <- taken

DispatchSteps == Loop!Spec

\* Tasks run in the order of their dispatches, each once.
TasksInOrder == Loop!TasksInOrder

\* A wake-up that will take the tasks on the queue is under way.
NoMissedTask == Loop!NoMissedTask

\* One wake-up at most is.
OneWakeup == Loop!OneWakeup

\* A ready callback waits for the tasks of two batches at most.
OthersGetTheirTurn == Loop!OthersGetTheirTurn

\* Every task that is dispatched is run.
TasksRun == Loop!TasksRun
=============================================================================
