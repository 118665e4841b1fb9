----------------------------- MODULE WorkQueue -----------------------------
(***************************************************************************)
(* The queue between Envoy's threads and the Python worker threads of the  *)
(* WSGI executor (src/wsgi/queue.rs), at the grain at which its threads    *)
(* interleave: a critical section of the mutex is one step, and so is each *)
(* access to a Parker's `notified` flag and each use of the thread's park  *)
(* token outside the mutex.                                                *)
(***************************************************************************)
EXTENDS Integers, Sequences, FiniteSets, SequencesExt

CONSTANTS Items,    \* the work, each item pushed once, by a thread of its own
          Workers,  \* the threads that pop
          Closer,   \* the thread that calls close
          NoItem    \* what a worker without work holds

ASSUME WorkersAssumption == IsFiniteSet(Workers)
ASSUME NoItemAssumption == NoItem \notin Items
ASSUME CloserAssumption == Closer \notin Items

\* The threads that may have parkers to notify: a pusher is named by its item.
Notifiers == Items \cup {Closer}

VARIABLES
  items, idle, closed,  \* State: the work, the listed parkers, the closed flag
  notified,             \* Parker.notified of each worker
  token,                \* the park token of each worker's thread
  pc,                   \* where each worker is in pop
  holding,              \* the item each worker is working on
  pushed,               \* the items whose push entered its critical section
  toNotify,             \* the parkers each notifier has yet to notify
  stored                \* whether it has set the flag of the first of them

vars == <<items, idle, closed, notified, token, pc, holding, pushed,
          toNotify, stored>>

Init ==
  /\ items = <<>>
  /\ idle = <<>>
  /\ closed = FALSE
  /\ notified = [w \in Workers |-> FALSE]
  /\ token = [w \in Workers |-> FALSE]
  /\ pc = [w \in Workers |-> "lock"]
  /\ holding = [w \in Workers |-> NoItem]
  /\ pushed = {}
  /\ toNotify = [n \in Notifiers |-> <<>>]
  /\ stored = [n \in Notifiers |-> FALSE]

-----------------------------------------------------------------------------
(* The threads that push, and the one that closes.                         *)

\* A broken push, which wakes a thread only when the queue already holds work.
PushWakesIfBusy(i) ==
  /\ i \notin pushed
  /\ items' = Append(items, i)
  /\ pushed' = pushed \cup {i}
  /\ IF idle = <<>> \/ items = <<>>
       THEN UNCHANGED <<idle, toNotify>>
       ELSE /\ idle' = Front(idle)
            /\ toNotify' = [toNotify EXCEPT ![i] = <<Last(idle)>>]
  /\ UNCHANGED <<closed, notified, token, pc, holding, stored>>

\* The critical section of push: the item joins the queue and the most
\* recently listed parker, if any, leaves the list to be notified.
Push(i) ==
  /\ i \notin pushed
  /\ items' = Append(items, i)
  /\ pushed' = pushed \cup {i}
  /\ IF idle = <<>>
       THEN UNCHANGED <<idle, toNotify>>
       ELSE /\ idle' = Front(idle)
            /\ toNotify' = [toNotify EXCEPT ![i] = <<Last(idle)>>]
  /\ UNCHANGED <<closed, notified, token, pc, holding, stored>>

\* The critical section of close: everyone listed is to be notified.
Close ==
  /\ ~closed
  /\ closed' = TRUE
  /\ idle' = <<>>
  /\ toNotify' = [toNotify EXCEPT ![Closer] = idle]
  /\ UNCHANGED <<items, notified, token, pc, holding, pushed, stored>>

\* The first half of Parker::notify: the store to `notified`.
NotifyStore(n) ==
  /\ toNotify[n] # <<>>
  /\ ~stored[n]
  /\ notified' = [notified EXCEPT ![Head(toNotify[n])] = TRUE]
  /\ stored' = [stored EXCEPT ![n] = TRUE]
  /\ UNCHANGED <<items, idle, closed, token, pc, holding, pushed, toNotify>>

\* The second half of Parker::notify: unpark makes the thread's token
\* available, and the notifier moves on to its next parker.
NotifyUnpark(n) ==
  /\ stored[n]
  /\ token' = [token EXCEPT ![Head(toNotify[n])] = TRUE]
  /\ toNotify' = [toNotify EXCEPT ![n] = Tail(@)]
  /\ stored' = [stored EXCEPT ![n] = FALSE]
  /\ UNCHANGED <<items, idle, closed, notified, pc, holding, pushed>>

-----------------------------------------------------------------------------
(* The workers: `while let Some(item) = queue.pop()`.                      *)

\* The critical section of pop finds an item,
PopItem(w) ==
  /\ pc[w] = "lock"
  /\ items # <<>>
  /\ holding' = [holding EXCEPT ![w] = Head(items)]
  /\ items' = Tail(items)
  /\ pc' = [pc EXCEPT ![w] = "run"]
  /\ UNCHANGED <<idle, closed, notified, token, pushed, toNotify, stored>>

\* or finds the queue drained and closed, and the worker's loop ends,
PopClosed(w) ==
  /\ pc[w] = "lock"
  /\ items = <<>>
  /\ closed
  /\ pc' = [pc EXCEPT ![w] = "exit"]
  /\ UNCHANGED <<items, idle, closed, notified, token, holding, pushed,
                 toNotify, stored>>

\* A broken pop, which looks for items before the critical section in which it
\* lists the thread, so that an item can arrive in between.
PopIdleLate(w) ==
  /\ pc[w] = "lock"
  /\ ~closed
  /\ notified' = [notified EXCEPT ![w] = FALSE]
  /\ idle' = Append(idle, w)
  /\ pc' = [pc EXCEPT ![w] = "check"]
  /\ UNCHANGED <<items, closed, token, holding, pushed, toNotify, stored>>

\* A broken pop, which forgets to reset the flag of an earlier wait.
PopIdleStale(w) ==
  /\ pc[w] = "lock"
  /\ items = <<>>
  /\ ~closed
  /\ idle' = Append(idle, w)
  /\ pc' = [pc EXCEPT ![w] = "check"]
  /\ UNCHANGED <<items, closed, notified, token, holding, pushed, toNotify,
                 stored>>

\* or lists the thread as idle.
PopIdle(w) ==
  /\ pc[w] = "lock"
  /\ items = <<>>
  /\ ~closed
  /\ notified' = [notified EXCEPT ![w] = FALSE]
  /\ idle' = Append(idle, w)
  /\ pc' = [pc EXCEPT ![w] = "check"]
  /\ UNCHANGED <<items, closed, token, holding, pushed, toNotify, stored>>

\* `while !notified.load()`: back to the critical section, or to park.
CheckNotified(w) ==
  /\ pc[w] = "check"
  /\ pc' = [pc EXCEPT ![w] = IF notified[w] THEN "lock" ELSE "park"]
  /\ UNCHANGED <<items, idle, closed, notified, token, holding, pushed,
                 toNotify, stored>>

\* thread::park returns with the token,
Unparked(w) ==
  /\ pc[w] = "park"
  /\ token[w]
  /\ token' = [token EXCEPT ![w] = FALSE]
  /\ pc' = [pc EXCEPT ![w] = "check"]
  /\ UNCHANGED <<items, idle, closed, notified, holding, pushed, toNotify,
                 stored>>

\* or spuriously.
SpuriousReturn(w) ==
  /\ pc[w] = "park"
  /\ pc' = [pc EXCEPT ![w] = "check"]
  /\ UNCHANGED <<items, idle, closed, notified, token, holding, pushed,
                 toNotify, stored>>

\* The application is done with the item and the worker pops again.
Finish(w) ==
  /\ pc[w] = "run"
  /\ holding' = [holding EXCEPT ![w] = NoItem]
  /\ pc' = [pc EXCEPT ![w] = "lock"]
  /\ UNCHANGED <<items, idle, closed, notified, token, pushed, toNotify,
                 stored>>

Pop(w) == PopItem(w) \/ PopClosed(w) \/ PopIdle(w)

Notify(n) == NotifyStore(n) \/ NotifyUnpark(n)

\* Every worker has ended and nobody is left to notify.
Terminated ==
  /\ \A w \in Workers : pc[w] = "exit"
  /\ \A n \in Notifiers : toNotify[n] = <<>>
  /\ pushed = Items
  /\ UNCHANGED vars

Next ==
  \/ \E i \in Items : Push(i)
  \/ Close
  \/ \E n \in Notifiers : NotifyStore(n) \/ NotifyUnpark(n)
  \/ \E w \in Workers :
       \/ PopItem(w) \/ PopClosed(w) \/ PopIdle(w)
       \/ CheckNotified(w) \/ Unparked(w) \/ SpuriousReturn(w)
       \/ Finish(w)
  \/ Terminated

(***************************************************************************)
(* The operating system runs every thread that can take a step of its own. *)
(* Nobody is obliged to push or to close, park need not return             *)
(* spuriously, and an application may work on an item for ever.            *)
(***************************************************************************)
ThreadFairness ==
  /\ \A n \in Notifiers : WF_vars(Notify(n))
  /\ \A w \in Workers : /\ WF_vars(Pop(w))
                        /\ WF_vars(CheckNotified(w))
                        /\ WF_vars(Unparked(w))

Safety == Init /\ [][Next]_vars

Spec == Safety /\ ThreadFairness

-----------------------------------------------------------------------------
Places == {"lock", "check", "park", "run", "exit"}

\* The state is well formed: a worker holds an item exactly while it runs the
\* application, and a notifier in the middle of a notify has a parker for it.
TypeOK ==
  /\ items \in Seq(Items)
  /\ idle \in Seq(Workers)
  /\ closed \in BOOLEAN
  /\ notified \in [Workers -> BOOLEAN]
  /\ token \in [Workers -> BOOLEAN]
  /\ pc \in [Workers -> Places]
  /\ holding \in [Workers -> Items \cup {NoItem}]
  /\ pushed \in SUBSET Items
  /\ toNotify \in [Notifiers -> Seq(Workers)]
  /\ stored \in [Notifiers -> BOOLEAN]
  /\ \A w \in Workers : pc[w] = "run" <=> holding[w] # NoItem
  /\ \A n \in Notifiers : stored[n] => toNotify[n] # <<>>

Waiting(w) == pc[w] \in {"check", "park"}
Listed(w) == \E k \in DOMAIN idle : idle[k] = w

\* The workers that reach the critical section of pop without further help
\* from a push: they are at it, or off the list and so being notified.
OnTheWay == {w \in Workers : pc[w] = "lock" \/ (Waiting(w) /\ ~Listed(w))}

\* Notifier n has yet to store to the flag of its k-th parker, that of w.
Pending(n, k) == k > 1 \/ ~stored[n]
WillStore(n, w) ==
  \E k \in DOMAIN toNotify[n] : toNotify[n][k] = w /\ Pending(n, k)

\* Notifier n has stored to the flag of w and is about to unpark it.
WillUnpark(n, w) == stored[n] /\ Head(toNotify[n]) = w

(***************************************************************************)
(* A thread stays listed only while there is less work than threads on the *)
(* way to it, so that no item waits for a push that may never come while a *)
(* thread sleeps.  This is what makes it enough for push to wake one       *)
(* thread, even when a running thread takes the item first.                *)
(***************************************************************************)
NoLostWakeup == idle # <<>> => Len(items) <= Cardinality(OnTheWay)

(***************************************************************************)
(* "[A Parker] is listed as idle only while it waits": a listed thread     *)
(* waits, has not been notified, is listed once, and no one still has a    *)
(* notification for it in hand (a late one would end the next wait).       *)
(***************************************************************************)
ListedOnlyWhileWaiting ==
  /\ \A j, k \in DOMAIN idle : idle[j] = idle[k] => j = k
  /\ \A k \in DOMAIN idle :
       /\ Waiting(idle[k])
       /\ ~notified[idle[k]]
       /\ \A n \in Notifiers : ~WillStore(n, idle[k])

(***************************************************************************)
(* A waiting thread that is off the list is released: its flag is set or   *)
(* about to be, and once it is set a thread that sleeps in park has its    *)
(* token, or is about to get it.  The wait loop of pop depends on it, as   *)
(* nobody else will ever look for a thread that is not on the list.        *)
(***************************************************************************)
UnlistedIsReleased ==
  \A w \in Workers :
    /\ Waiting(w) /\ ~Listed(w) =>
         notified[w] \/ \E n \in Notifiers : WillStore(n, w)
    /\ pc[w] = "park" /\ notified[w] =>
         token[w] \/ \E n \in Notifiers : WillUnpark(n, w)

(***************************************************************************)
(* Together: a notification reaches the wait it is meant for, and no other *)
(* one, and no thread sleeps through the last that it will get.            *)
(***************************************************************************)
WakeupsReachSleepers == ListedOnlyWhileWaiting /\ UnlistedIsReleased

(***************************************************************************)
(* The queue implements the abstract one: first in first out, every item   *)
(* to one worker, and neither an item nor a worker left behind.            *)
(***************************************************************************)
Abstract == INSTANCE WorkQueueSpec WITH
              queue <- items, gone <- {w \in Workers : pc[w] = "exit"}

ImplementsQueue == Abstract!Spec
=============================================================================
