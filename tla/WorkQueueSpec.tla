--------------------------- MODULE WorkQueueSpec ---------------------------
(***************************************************************************)
(* What the work queue of the WSGI executor promises to its users: a       *)
(* first-in first-out queue that hands every item to one worker, and that  *)
(* lets the workers go once it is closed and drained.  Threads, parking    *)
(* and wake-ups are the business of WorkQueue, which implements this       *)
(* module.                                                                 *)
(***************************************************************************)
EXTENDS Sequences, FiniteSets

CONSTANTS Items,    \* the work, each item pushed at most once
          Workers,  \* the threads that pop
          NoItem    \* what a worker without work holds

VARIABLES queue,    \* the items waiting, oldest first
          closed,   \* whether close has been called
          pushed,   \* the items that have been pushed
          holding,  \* the item each worker is working on
          gone      \* the workers that were told there is no more work

vars == <<queue, closed, pushed, holding, gone>>

Init ==
  /\ queue = <<>>
  /\ closed = FALSE
  /\ pushed = {}
  /\ holding = [w \in Workers |-> NoItem]
  /\ gone = {}

Push(i) ==
  /\ i \notin pushed
  /\ queue' = Append(queue, i)
  /\ pushed' = pushed \cup {i}
  /\ UNCHANGED <<closed, holding, gone>>

Take(w) ==
  /\ w \notin gone
  /\ holding[w] = NoItem
  /\ queue # <<>>
  /\ holding' = [holding EXCEPT ![w] = Head(queue)]
  /\ queue' = Tail(queue)
  /\ UNCHANGED <<closed, pushed, gone>>

Finish(w) ==
  /\ holding[w] # NoItem
  /\ holding' = [holding EXCEPT ![w] = NoItem]
  /\ UNCHANGED <<queue, closed, pushed, gone>>

Close ==
  /\ ~closed
  /\ closed' = TRUE
  /\ UNCHANGED <<queue, pushed, holding, gone>>

Leave(w) ==
  /\ closed
  /\ queue = <<>>
  /\ holding[w] = NoItem
  /\ w \notin gone
  /\ gone' = gone \cup {w}
  /\ UNCHANGED <<queue, closed, pushed, holding>>

Next ==
  \/ \E i \in Items : Push(i)
  \/ \E w \in Workers : Take(w) \/ Finish(w) \/ Leave(w)
  \/ Close

(***************************************************************************)
(* An item is not left waiting while a worker is free to take it, and a    *)
(* free worker of a closed and drained queue is let go.  How long a worker *)
(* holds an item is not the queue's business.                              *)
(***************************************************************************)
Spec ==
  /\ Init
  /\ [][Next]_vars
  /\ WF_vars(\E w \in Workers : Take(w))
  /\ \A w \in Workers : WF_vars(Leave(w))
=============================================================================
