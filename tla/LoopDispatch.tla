---------------------------- MODULE LoopDispatch ----------------------------
(***************************************************************************)
(* How Envoy's threads hand tasks to an event loop without the GIL         *)
(* (LoopHandle::dispatch and LoopDrainer in src/asgi/shared/eventloop.rs). *)
(* A dispatch queues its task under the mutex and, if no wake-up is        *)
(* pending, wakes the loop after that: with a byte on a socket that the    *)
(* loop watches, or through a thread that schedules the drainer.  The loop *)
(* runs its ready callbacks in rounds, as asyncio and trio do; the drainer *)
(* is one of them, and runs a batch of tasks.                              *)
(***************************************************************************)
EXTENDS Integers, Sequences, SequencesExt, FiniteSetsExt

CONSTANTS Tasks,     \* the tasks, each dispatched once, by a thread of its own
          BatchSize  \* how many tasks one drain runs

VARIABLES
  tasks, wakePending,  \* LoopQueue
  dispatched,          \* the tasks dispatched so far, in order
  waking,              \* the threads that have yet to wake the loop
  watches,             \* whether the loop watches a socket
  signals,             \* bytes on the socket, or messages to the waker thread
  ready,               \* the loop's ready callbacks
  round,               \* how many of them the loop runs before it polls again
  pc,                  \* where the loop's thread is
  batch,               \* the tasks that the running drain has yet to run
  ran,                 \* the tasks run so far, in order
  overtaken            \* the tasks run while another callback was ready

vars == <<tasks, wakePending, dispatched, waking, watches, signals, ready, round,
          pc, batch, ran, overtaken>>

Init ==
  /\ tasks = <<>> /\ wakePending = FALSE
  /\ dispatched = <<>> /\ waking = {}
  /\ watches \in BOOLEAN
  /\ signals = 0
  /\ ready = <<>> /\ round = 0 /\ pc = "poll"
  /\ batch = <<>> /\ ran = <<>> /\ overtaken = 0

-----------------------------------------------------------------------------
(* Envoy's threads.                                                        *)

\* A broken dispatch, which puts its task at the head of the queue.
DispatchFirst(t) ==
  /\ ~Contains(dispatched, t)
  /\ tasks' = <<t>> \o tasks
  /\ dispatched' = Append(dispatched, t)
  /\ wakePending' = TRUE
  /\ waking' = IF wakePending THEN waking ELSE waking \cup {t}
  /\ UNCHANGED <<watches, signals, ready, round, pc, batch, ran, overtaken>>

\* The critical section of dispatch.
Dispatch(t) ==
  /\ ~Contains(dispatched, t)
  /\ tasks' = Append(tasks, t)
  /\ dispatched' = Append(dispatched, t)
  /\ wakePending' = TRUE
  /\ waking' = IF wakePending THEN waking ELSE waking \cup {t}
  /\ UNCHANGED <<watches, signals, ready, round, pc, batch, ran, overtaken>>

\* The write to the socket, or the message to the waker thread.
Wake(t) ==
  /\ t \in waking
  /\ waking' = waking \ {t}
  /\ signals' = signals + 1
  /\ UNCHANGED <<tasks, wakePending, dispatched, watches, ready, round, pc, batch,
                 ran, overtaken>>

\* The waker thread calls call_soon_threadsafe with the drainer.
WakerThread ==
  /\ ~watches
  /\ signals > 0
  /\ signals' = signals - 1
  /\ ready' = Append(ready, "drain")
  /\ UNCHANGED <<tasks, wakePending, dispatched, waking, watches, round, pc, batch,
                 ran, overtaken>>

-----------------------------------------------------------------------------
(* The event loop.                                                         *)

\* The loop polls: a readable socket makes the drainer ready.  What is ready
\* now is what the next round runs.
Poll ==
  /\ pc = "poll"
  /\ ready' = IF watches /\ signals > 0 THEN Append(ready, "drain") ELSE ready
  /\ ready' # <<>>
  /\ round' = Len(ready')
  /\ pc' = "round"
  /\ UNCHANGED <<tasks, wakePending, dispatched, waking, watches, signals, batch,
                 ran, overtaken>>

RoundEnds ==
  /\ pc = "round"
  /\ round = 0
  /\ pc' = "poll"
  /\ UNCHANGED <<tasks, wakePending, dispatched, waking, watches, signals, ready,
                 round, batch, ran, overtaken>>

\* Some other callback becomes ready, such as one that resumes a request.
OtherReady ==
  /\ ~Contains(ready, "other")
  /\ ready' = Append(ready, "other")
  /\ overtaken' = 0
  /\ UNCHANGED <<tasks, wakePending, dispatched, waking, watches, signals, round,
                 pc, batch, ran>>

RunOther ==
  /\ pc = "round" /\ round > 0 /\ Head(ready) = "other"
  /\ ready' = Tail(ready)
  /\ round' = round - 1
  /\ overtaken' = 0
  /\ UNCHANGED <<tasks, wakePending, dispatched, waking, watches, signals, pc,
                 batch, ran>>

\* The drainer is called.  It first clears the wake-up: it reads the socket,
\* if it has one, until it is empty.
ClearWakeup ==
  /\ pc = "round" /\ round > 0 /\ Head(ready) = "drain"
  /\ ready' = Tail(ready)
  /\ round' = round - 1
  /\ signals' = IF watches THEN 0 ELSE signals
  /\ pc' = "take"
  /\ UNCHANGED <<tasks, wakePending, dispatched, waking, watches, batch, ran,
                 overtaken>>

\* The tasks that a drain takes, and those that it leaves.
NextBatch == SubSeq(tasks, 1, Min({BatchSize, Len(tasks)}))
Remaining == SubSeq(tasks, BatchSize + 1, Len(tasks))

\* Broken drains: one that takes every task that comes as long as it runs,
TakeAllOneByOne ==
  /\ pc = "take"
  /\ IF Len(tasks) > 1
       THEN /\ ready' = <<"drain">> \o ready
            /\ round' = round + 1
            /\ UNCHANGED wakePending
       ELSE /\ wakePending' = FALSE
            /\ UNCHANGED <<ready, round>>
  /\ batch' = SubSeq(tasks, 1, Min({1, Len(tasks)}))
  /\ tasks' = SubSeq(tasks, 2, Len(tasks))
  /\ pc' = "tasks"
  /\ UNCHANGED <<dispatched, waking, watches, signals, ran, overtaken>>

\* one that leaves the rest of a full batch for the next dispatch to wake it,
TakeBatchLeaveRest ==
  /\ pc = "take"
  /\ batch' = NextBatch
  /\ tasks' = Remaining
  /\ wakePending' = (Len(tasks) > BatchSize)
  /\ pc' = "tasks"
  /\ UNCHANGED <<dispatched, waking, watches, signals, ready, round, ran, overtaken>>

\* one that has dispatches wake the loop although it schedules itself,
TakeBatchWake ==
  /\ pc = "take"
  /\ batch' = NextBatch
  /\ tasks' = Remaining
  /\ wakePending' = FALSE
  /\ ready' = IF Len(tasks) > BatchSize THEN Append(ready, "drain") ELSE ready
  /\ pc' = "tasks"
  /\ UNCHANGED <<dispatched, waking, watches, signals, round, ran, overtaken>>

\* and one that forgets that its wake-up has come.
TakeBatchPending ==
  /\ pc = "take"
  /\ batch' = NextBatch
  /\ tasks' = Remaining
  /\ ready' = IF Len(tasks) > BatchSize THEN Append(ready, "drain") ELSE ready
  /\ pc' = "tasks"
  /\ UNCHANGED <<wakePending, dispatched, waking, watches, signals, round, ran, overtaken>>

\* The drainer then, in its critical section, takes a batch of tasks, and
\* schedules itself again with call_soon when there are more.
TakeBatch ==
  /\ pc = "take"
  /\ batch' = NextBatch
  /\ tasks' = Remaining
  /\ IF Len(tasks) > BatchSize
       THEN /\ ready' = Append(ready, "drain")
            /\ UNCHANGED wakePending
       ELSE /\ wakePending' = FALSE
            /\ UNCHANGED ready
  /\ pc' = "tasks"
  /\ UNCHANGED <<dispatched, waking, watches, signals, round, ran, overtaken>>

RunTask ==
  /\ pc = "tasks" /\ batch # <<>>
  /\ ran' = Append(ran, Head(batch))
  /\ batch' = Tail(batch)
  /\ overtaken' = IF Contains(ready, "other") THEN overtaken + 1 ELSE 0
  /\ UNCHANGED <<tasks, wakePending, dispatched, waking, watches, signals, ready,
                 round, pc>>

DrainEnds ==
  /\ pc = "tasks" /\ batch = <<>>
  /\ pc' = "round"
  /\ UNCHANGED <<tasks, wakePending, dispatched, waking, watches, signals, ready,
                 round, batch, ran, overtaken>>

LoopStep ==
  \/ Poll \/ RoundEnds \/ RunOther
  \/ ClearWakeup \/ TakeBatch \/ RunTask \/ DrainEnds

Next ==
  \/ \E t \in Tasks : Dispatch(t) \/ Wake(t)
  \/ WakerThread
  \/ OtherReady
  \/ LoopStep

(***************************************************************************)
(* The threads run: the loop's, the waker's, and one that is about to wake *)
(* the loop.  Nobody need dispatch.                                        *)
(***************************************************************************)
Fairness ==
  /\ \A t \in Tasks : WF_vars(Wake(t))
  /\ WF_vars(WakerThread)
  /\ WF_vars(LoopStep)

Safety == Init /\ [][Next]_vars
Spec == Safety /\ Fairness

-----------------------------------------------------------------------------
Callbacks == {"drain", "other"}

\* The state is well formed: a batch is held only while its tasks run.
TypeOK ==
  /\ tasks \in Seq(Tasks) /\ wakePending \in BOOLEAN
  /\ dispatched \in Seq(Tasks) /\ waking \subseteq Tasks
  /\ watches \in BOOLEAN /\ signals \in Nat
  /\ ready \in Seq(Callbacks) /\ round \in 0..Len(ready)
  /\ pc \in {"poll", "round", "take", "tasks"}
  /\ batch \in Seq(Tasks) /\ Len(batch) <= BatchSize
  /\ batch # <<>> => pc = "tasks"
  /\ ran \in Seq(Tasks) /\ overtaken \in Nat

(***************************************************************************)
(* Tasks run in the order of their dispatches, each once.                  *)
(***************************************************************************)
TasksInOrder == dispatched = ran \o (batch \o tasks)

\* The places of the drainer among the callbacks of r.
Drains(r) == {k \in DOMAIN r : r[k] = "drain"}

\* A wake-up is under way.
WakeUnderWay == waking # {} \/ signals > 0 \/ Drains(ready) # {} \/ pc = "take"

(***************************************************************************)
(* A task on the queue is never missed: a wake-up that will take it is     *)
(* under way.  "Clear the wakeup before taking the tasks, so a task        *)
(* dispatched in between wakes the loop again rather than being missed."   *)
(***************************************************************************)
NoMissedTask ==
  /\ tasks # <<>> => wakePending
  /\ wakePending => WakeUnderWay

(***************************************************************************)
(* "Tasks dispatched together wake it only once": one wake-up at most is   *)
(* under way, so that the socket's buffer is never full and the drainer is *)
(* never ready twice.                                                      *)
(***************************************************************************)
Wakeups ==
  {<<"thread", t>> : t \in waking}
    \cup {<<"signal", n>> : n \in 1..signals}
    \cup {<<"ready", k>> : k \in Drains(ready)}
    \cup (IF pc = "take" THEN {<<"drain", 0>>} ELSE {})

OneWakeup ==
  IF watches
    THEN \* a readable socket stays readable until the drainer reads it
         \A a, b \in Wakeups : a[1] = b[1] => a = b
    ELSE \A a, b \in Wakeups : a = b

(***************************************************************************)
(* Other callbacks get their turn: a ready one waits for the tasks of a    *)
(* batch that runs and of the next, however many tasks are dispatched.     *)
(***************************************************************************)
OthersGetTheirTurn == overtaken <= 2 * BatchSize

(***************************************************************************)
(* Every task that is dispatched is run.                                   *)
(***************************************************************************)
TasksRun == \A t \in Tasks : Contains(dispatched, t) ~> Contains(ran, t)
=============================================================================
