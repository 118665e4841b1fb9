---------------------------- MODULE Queues_proofs ----------------------------
(***************************************************************************)
(* Proofs about the three queues between threads: WorkQueue, for every     *)
(* finite set of workers and every set of items, EventBridge, for every    *)
(* set of events, and LoopDispatch, for every set of tasks and every size  *)
(* of a batch.                                                             *)
(*                                                                         *)
(* The invariants of WorkQueue hold together: that a notification in hand  *)
(* is for a thread that waits for it (OwedOnce) is what keeps a listed     *)
(* thread clean of old notifications, which in turn is what makes the      *)
(* thread that push takes off the list one more on the way.                *)
(***************************************************************************)
EXTENDS WorkQueue, MCEventBridge, MCLoopDispatch, SequenceFacts, FiniteSetTheorems


\* A parker with a store still to come waits, off the list and not yet
\* notified, and there is one such store only.
OwedOnce ==
  /\ \A n \in Notifiers : \A k \in DOMAIN toNotify[n] :
       Pending(n, k) => /\ Waiting(toNotify[n][k])
                        /\ ~notified[toNotify[n][k]]
  /\ \A n, m \in Notifiers :
       \A j \in DOMAIN toNotify[n], k \in DOMAIN toNotify[m] :
         /\ Pending(n, j)
         /\ Pending(m, k)
         /\ toNotify[n][j] = toNotify[m][k]
         => n = m /\ j = k

\* Before its push or close a thread has nothing in hand.
WellFormed ==
  /\ TypeOK
  /\ \A i \in Items : i \notin pushed => toNotify[i] = <<>>
  /\ ~closed => toNotify[Closer] = <<>>

Parkers == ListedOnlyWhileWaiting /\ OwedOnce /\ UnlistedIsReleased

IInv == WellFormed /\ Parkers /\ NoLostWakeup

-----------------------------------------------------------------------------
(* Type correctness.                                                       *)

LEMMA WellFormedInit == Init => WellFormed
  BY ZenonT(60), EmptySeq, NoItemAssumption
  DEF Init, WellFormed, TypeOK, Places, Notifiers

LEMMA WellFormedNext == WellFormed /\ [Next]_vars => WellFormed'
<1> SUFFICES ASSUME WellFormed, [Next]_vars PROVE WellFormed'
  OBVIOUS
<1> USE DEF WellFormed, TypeOK, Places, Notifiers
<1>1. ASSUME NEW i \in Items, Push(i) PROVE WellFormed'
  <2>1. items' \in Seq(Items)
    BY <1>1, AppendFacts DEF Push
  <2>2. CASE idle = <<>>
    BY <1>1, <2>1, <2>2 DEF Push
  <2>3. CASE idle # <<>>
    <3>1. idle' \in Seq(Workers) /\ Last(idle) \in Workers
      BY <1>1, <2>3, FrontFacts DEF Push
    <3>2. <<Last(idle)>> \in Seq(Workers) /\ <<Last(idle)>> # <<>>
      BY <3>1
    <3>3. toNotify' \in [Notifiers -> Seq(Workers)]
      BY <1>1, <2>3, <3>2 DEF Push
    <3>4. \A n \in Notifiers : stored'[n] => toNotify'[n] # <<>>
      BY <1>1, <2>3, <3>2 DEF Push
    <3> QED
      BY <1>1, <2>1, <2>3, <3>1, <3>3, <3>4, CloserAssumption DEF Push
  <2> QED
    BY <2>2, <2>3
<1>2. ASSUME Close PROVE WellFormed'
  <2>1. ~stored[Closer]
    BY <1>2 DEF Close
  <2> QED
    BY <1>2, <2>1, EmptySeq, CloserAssumption DEF Close
<1>3. ASSUME NEW n \in Notifiers, NotifyStore(n) PROVE WellFormed'
  BY <1>3, TailFacts DEF NotifyStore
<1>4. ASSUME NEW n \in Notifiers, NotifyUnpark(n) PROVE WellFormed'
  BY <1>4, TailFacts DEF NotifyUnpark
<1>5. ASSUME NEW w \in Workers, PopItem(w) PROVE WellFormed'
  <2>1. Head(items) \in Items /\ Tail(items) \in Seq(Items)
    BY <1>5, TailFacts DEF PopItem
  <2> QED
    BY <1>5, <2>1, NoItemAssumption DEF PopItem
<1>6. ASSUME NEW w \in Workers, PopClosed(w) PROVE WellFormed'
  BY <1>6 DEF PopClosed
<1>7. ASSUME NEW w \in Workers, PopIdle(w) PROVE WellFormed'
  BY <1>7, AppendFacts DEF PopIdle
<1>8. ASSUME NEW w \in Workers, CheckNotified(w) PROVE WellFormed'
  BY <1>8 DEF CheckNotified
<1>9. ASSUME NEW w \in Workers, Unparked(w) PROVE WellFormed'
  BY <1>9 DEF Unparked
<1>10. ASSUME NEW w \in Workers, SpuriousReturn(w) PROVE WellFormed'
  BY <1>10 DEF SpuriousReturn
<1>11. ASSUME NEW w \in Workers, Finish(w) PROVE WellFormed'
  BY <1>11, NoItemAssumption DEF Finish
<1>12. CASE UNCHANGED vars
  BY <1>12 DEF vars
<1> QED
  BY <1>1, <1>2, <1>3, <1>4, <1>5, <1>6, <1>7, <1>8, <1>9, <1>10, <1>11,
     <1>12 DEF Next, Terminated

(***************************************************************************)
(* The state of the queue is well formed: in particular a worker holds an  *)
(* item exactly while it runs the application on it.                       *)
(***************************************************************************)
THEOREM TypeCorrect == Safety => []TypeOK
<1>1. Safety => []WellFormed
  BY WellFormedInit, WellFormedNext, PTL DEF Safety
<1>2. WellFormed => TypeOK
  BY DEF WellFormed
<1> QED
  BY <1>1, <1>2, PTL

-----------------------------------------------------------------------------
(* The list of idle parkers, and the notifications in hand.                *)

LEMMA ParkersInit == Init => Parkers
  BY EmptySeq DEF Init, Parkers, ListedOnlyWhileWaiting, OwedOnce,
     UnlistedIsReleased, WillStore, Waiting, Pending, Notifiers

\* A push that finds a thread listed takes it off the end of the list, and
\* has it alone to notify.
LEMMA TakenOff ==
  ASSUME WellFormed, NEW i \in Items, Push(i), idle # <<>>
  PROVE  /\ i \in Notifiers
         /\ toNotify[i] = <<>> /\ ~stored[i]
         /\ Len(idle) \in Nat \ {0}
         /\ DOMAIN idle = 1..Len(idle)
         /\ Len(idle) \in DOMAIN idle
         /\ idle[Len(idle)] \in Workers
         /\ DOMAIN idle' = 1..(Len(idle) - 1)
         /\ \A k \in DOMAIN idle' : /\ k \in DOMAIN idle
                                   /\ k # Len(idle)
                                   /\ idle'[k] = idle[k]
         /\ \A k \in DOMAIN idle : k # Len(idle) => k \in DOMAIN idle'
         /\ toNotify' = [toNotify EXCEPT ![i] = <<idle[Len(idle)]>>]
         /\ DOMAIN toNotify'[i] = {1} /\ toNotify'[i][1] = idle[Len(idle)]
         /\ \A n \in Notifiers : n # i => toNotify'[n] = toNotify[n]
<1> USE DEF WellFormed, TypeOK
<1> DEFINE l == Len(idle)
<1>1. /\ l \in Nat \ {0} /\ DOMAIN idle = 1..l
      /\ DOMAIN Front(idle) = 1..(l - 1)
      /\ \A k \in 1..(l - 1) : Front(idle)[k] = idle[k]
      /\ Last(idle) = idle[l] /\ Last(idle) \in Workers
  <2>1. idle \in Seq(Workers)
    OBVIOUS
  <2> HIDE DEF WellFormed, TypeOK
  <2> QED
    BY <2>1, FrontFacts
<1>2. /\ i \in Notifiers /\ toNotify[i] = <<>> /\ ~stored[i]
  BY DEF Push, Notifiers
<1>3. idle' = Front(idle) /\ toNotify' = [toNotify EXCEPT ![i] = <<Last(idle)>>]
  BY DEF Push
<1>4. /\ DOMAIN toNotify'[i] = {1} /\ toNotify'[i][1] = Last(idle)
      /\ \A n \in Notifiers : n # i => toNotify'[n] = toNotify[n]
  BY <1>2, <1>3
<1> HIDE DEF l
<1>5. /\ l \in 1..l
      /\ \A k \in 1..(l - 1) : k \in 1..l /\ k # l
      /\ \A k \in 1..l : k # l => k \in 1..(l - 1)
  BY <1>1
<1> QED
  BY <1>1, <1>2, <1>3, <1>4, <1>5 DEF l

\* What is left of the notifications once thread m has stored to the flag of
\* its first parker: the others, in the same places.
LEMMA StoredIsOff ==
  ASSUME WellFormed, NEW m \in Notifiers, NotifyStore(m)
  PROVE  /\ DOMAIN toNotify[m] = 1..Len(toNotify[m])
         /\ 1 \in DOMAIN toNotify[m]
         /\ toNotify' = toNotify
         /\ toNotify[m][1] \in Workers
         /\ Pending(m, 1)
         /\ notified' = [notified EXCEPT ![toNotify[m][1]] = TRUE]
         /\ stored'[m]
         /\ \A n \in Notifiers : \A k \in DOMAIN toNotify[n] :
              Pending(n, k)' <=> Pending(n, k) /\ (n = m => k > 1)
  BY TailFacts DEF WellFormed, TypeOK, NotifyStore, Pending

\* Moving on leaves the notifications that were pending, one place lower.
LEMMA MovedOn ==
  ASSUME WellFormed, NEW m \in Notifiers, NotifyUnpark(m)
  PROVE  /\ \A n \in Notifiers : n # m => /\ toNotify'[n] = toNotify[n]
                                          /\ stored'[n] = stored[n]
         /\ DOMAIN toNotify[m] = 1..Len(toNotify[m])
         /\ Len(toNotify[m]) \in Nat \ {0}
         /\ DOMAIN toNotify'[m] = 1..(Len(toNotify[m]) - 1)
         /\ \A k \in DOMAIN toNotify'[m] : toNotify'[m][k] = toNotify[m][k + 1]
         /\ ~stored'[m]
         /\ stored[m]
         /\ token' = [token EXCEPT ![toNotify[m][1]] = TRUE]
         /\ toNotify[m][1] \in Workers
  BY TailFacts DEF WellFormed, TypeOK, NotifyUnpark

LEMMA ListedNext ==
  WellFormed /\ Parkers /\ [Next]_vars => ListedOnlyWhileWaiting'
<1> SUFFICES ASSUME WellFormed, Parkers, [Next]_vars
             PROVE  ListedOnlyWhileWaiting'
  OBVIOUS
<1> USE DEF WellFormed, TypeOK, Parkers, ListedOnlyWhileWaiting, WillStore,
            Waiting, Pending
<1>1. ASSUME NEW i \in Items, Push(i) PROVE ListedOnlyWhileWaiting'
  <2>1. CASE idle = <<>>
    BY <1>1, <2>1 DEF Push
  <2>2. CASE idle # <<>>
    <3> DEFINE l == Len(idle)
    <3>1. /\ l \in DOMAIN idle
          /\ \A k \in DOMAIN idle' : /\ k \in DOMAIN idle /\ k # l
                                    /\ idle'[k] = idle[k]
          /\ toNotify' = [toNotify EXCEPT ![i] = <<idle[l]>>]
      BY <1>1, <2>2, TakenOff
    <3>2. ASSUME NEW k \in DOMAIN idle', NEW n \in Notifiers
          PROVE  ~WillStore(n, idle[k])'
      <4>1. k \in DOMAIN idle /\ l \in DOMAIN idle /\ k # l
        BY <3>1
      <4>2. idle'[k] # idle[l]
        BY <3>1, <4>1
      <4>3. CASE n = i
        BY <3>1, <4>2, <4>3 DEF Notifiers
      <4>4. CASE n # i
        BY <1>1, <3>1, <4>1, <4>4 DEF Push
      <4> QED
        BY <4>3, <4>4
    <3> QED
      BY <1>1, <3>1, <3>2 DEF Push
  <2> QED
    BY <2>1, <2>2
<1>2. ASSUME Close PROVE ListedOnlyWhileWaiting'
  BY <1>2 DEF Close
<1>3. ASSUME NEW m \in Notifiers, NotifyStore(m) PROVE ListedOnlyWhileWaiting'
  <2> HIDE DEF Pending
  <2>1. \A k \in DOMAIN idle : idle[k] # toNotify[m][1]
    BY <1>3, StoredIsOff
  <2>2. \A k \in DOMAIN idle : ~notified'[idle[k]]
    BY <1>3, <2>1, StoredIsOff
  <2>3. \A k \in DOMAIN idle, n \in Notifiers : ~WillStore(n, idle[k])'
    BY <1>3, StoredIsOff DEF NotifyStore
  <2> QED
    BY <1>3, <2>2, <2>3 DEF NotifyStore
<1>4. ASSUME NEW m \in Notifiers, NotifyUnpark(m) PROVE ListedOnlyWhileWaiting'
  <2>1. ASSUME NEW w, NEW n \in Notifiers, WillStore(n, w)' PROVE WillStore(n, w)
    <3>1. CASE n = m
      <4>1. PICK k \in DOMAIN toNotify'[m] : toNotify'[m][k] = w
        BY <2>1, <3>1
      <4>2. k + 1 \in DOMAIN toNotify[m] /\ toNotify[m][k + 1] = w /\ k + 1 > 1
        BY <1>4, <4>1, MovedOn
      <4> QED
        BY <3>1, <4>2
    <3>2. CASE n # m
      BY <1>4, <2>1, <3>2, MovedOn
    <3> QED
      BY <3>1, <3>2
  <2> HIDE DEF WillStore
  <2> QED
    BY <1>4, <2>1 DEF NotifyUnpark
<1>5. ASSUME NEW w \in Workers, PopIdle(w) PROVE ListedOnlyWhileWaiting'
  <2>1. /\ DOMAIN idle = 1..Len(idle)
        /\ Len(idle) \in Nat
        /\ DOMAIN idle' = 1..(Len(idle) + 1)
        /\ \A k \in DOMAIN idle : idle'[k] = idle[k]
        /\ idle'[Len(idle) + 1] = w
    BY <1>5, AppendFacts DEF PopIdle
  <2>2. \A k \in DOMAIN idle : idle[k] # w
    BY <1>5 DEF PopIdle
  <2>3. \A n \in Notifiers : \A k \in DOMAIN toNotify[n] :
          Pending(n, k) => toNotify[n][k] # w
    <3>1. pc[w] = "lock"
      BY <1>5 DEF PopIdle
    <3>2. \A n \in Notifiers : \A k \in DOMAIN toNotify[n] :
            Pending(n, k) => pc[toNotify[n][k]] # "lock"
      BY DEF OwedOnce
    <3> QED
      BY <3>1, <3>2
  <2> QED
    BY <1>5, <2>1, <2>2, <2>3 DEF PopIdle
<1>6. ASSUME NEW w \in Workers, PopItem(w) \/ PopClosed(w) \/ Finish(w)
      PROVE  ListedOnlyWhileWaiting'
  <2>1. \A k \in DOMAIN idle : idle[k] # w
    BY <1>6 DEF PopItem, PopClosed, Finish
  <2> QED
    BY <1>6, <2>1 DEF PopItem, PopClosed, Finish
<1>7. ASSUME NEW w \in Workers,
             CheckNotified(w) \/ Unparked(w) \/ SpuriousReturn(w)
      PROVE  ListedOnlyWhileWaiting'
  <2>1. /\ UNCHANGED <<idle, notified, toNotify, stored>>
        /\ \A v \in Workers : v # w => pc'[v] = pc[v]
        /\ notified[w] \/ Waiting(w)'
    BY <1>7 DEF CheckNotified, Unparked, SpuriousReturn
  <2>2. \A k \in DOMAIN idle : idle[k] \in Workers
    BY ElementOfSeq, LenProperties
  <2>3. \A k \in DOMAIN idle : Waiting(idle[k])' /\ ~notified[idle[k]]
    <3>1. \A k \in DOMAIN idle : Waiting(idle[k]) /\ ~notified[idle[k]]
      OBVIOUS
    <3> QED
      BY <2>1, <2>2, <3>1
  <2>4. \A n \in Notifiers : \A v : WillStore(n, v)' = WillStore(n, v)
    BY <2>1
  <2>5. /\ \A j, k \in DOMAIN idle : idle[j] = idle[k] => j = k
        /\ \A k \in DOMAIN idle : \A n \in Notifiers : ~WillStore(n, idle[k])
    OBVIOUS
  <2> HIDE DEF WellFormed, TypeOK, Parkers, WillStore, Waiting, Pending
  <2> QED
    BY <2>1, <2>3, <2>4, <2>5
<1>8. CASE UNCHANGED vars
  BY <1>8 DEF vars
<1> QED
  BY <1>1, <1>2, <1>3, <1>4, <1>5, <1>6, <1>7, <1>8 DEF Next, Terminated

LEMMA OwedOnceNext == WellFormed /\ Parkers /\ [Next]_vars => OwedOnce'
<1> SUFFICES ASSUME WellFormed, Parkers, [Next]_vars PROVE OwedOnce'
  OBVIOUS
<1> USE DEF WellFormed, TypeOK, Parkers, OwedOnce, Waiting
<1>1. ASSUME NEW i \in Items, Push(i) PROVE OwedOnce'
  <2>1. CASE idle = <<>>
    BY <1>1, <2>1 DEF Push, Pending
  <2>2. CASE idle # <<>>
    <3> DEFINE l == Len(idle)
    <3>1. /\ l \in DOMAIN idle
          /\ DOMAIN toNotify'[i] = {1} /\ toNotify'[i][1] = idle[l]
          /\ \A n \in Notifiers : n # i => toNotify'[n] = toNotify[n]
      BY <1>1, <2>2, TakenOff
    <3>2. /\ Waiting(idle[l]) /\ ~notified[idle[l]]
          /\ \A n \in Notifiers : \A k \in DOMAIN toNotify[n] :
               Pending(n, k) => toNotify[n][k] # idle[l]
      BY <3>1 DEF ListedOnlyWhileWaiting, WillStore
    <3>3. \A n \in Notifiers : \A k : Pending(n, k)' = Pending(n, k)
      BY <1>1 DEF Push, Pending
    <3>4. UNCHANGED <<pc, notified>>
      BY <1>1 DEF Push
    <3> HIDE DEF l
    <3>5. \A n \in Notifiers : \A k \in DOMAIN toNotify'[n] : Pending(n, k)' =>
            IF n = i
              THEN k = 1 /\ toNotify'[n][k] = idle[l]
              ELSE /\ k \in DOMAIN toNotify[n] /\ Pending(n, k)
                   /\ toNotify'[n][k] = toNotify[n][k]
                   /\ toNotify[n][k] # idle[l]
      BY <3>1, <3>2, <3>3
    <3>6. \A n \in Notifiers : \A k \in DOMAIN toNotify'[n] :
            Pending(n, k)' => /\ Waiting(toNotify'[n][k])
                              /\ ~notified[toNotify'[n][k]]
      <4>1. \A n \in Notifiers : \A k \in DOMAIN toNotify[n] :
              Pending(n, k) => /\ Waiting(toNotify[n][k])
                               /\ ~notified[toNotify[n][k]]
        OBVIOUS
      <4> HIDE DEF Pending, Waiting, WellFormed, TypeOK, Parkers, OwedOnce
      <4> QED
        BY <3>2, <3>5, <4>1
    <3>7. \A n, m \in Notifiers :
            \A j \in DOMAIN toNotify'[n], k \in DOMAIN toNotify'[m] :
              /\ Pending(n, j)'
              /\ Pending(m, k)'
              /\ toNotify'[n][j] = toNotify'[m][k]
              => n = m /\ j = k
      BY <3>5
    <3> QED
      BY <3>4, <3>6, <3>7
  <2> QED
    BY <2>1, <2>2
<1>2. ASSUME Close PROVE OwedOnce'
  <2>1. /\ \A j, k \in DOMAIN idle : idle[j] = idle[k] => j = k
        /\ \A k \in DOMAIN idle :
             /\ Waiting(idle[k]) /\ ~notified[idle[k]]
             /\ \A n \in Notifiers : \A j \in DOMAIN toNotify[n] :
                  Pending(n, j) => toNotify[n][j] # idle[k]
    BY DEF ListedOnlyWhileWaiting, WillStore
  <2>2. /\ toNotify'[Closer] = idle
        /\ \A n \in Notifiers : n # Closer => toNotify'[n] = toNotify[n]
        /\ \A n \in Notifiers : \A k : Pending(n, k)' = Pending(n, k)
    BY <1>2 DEF Close, Pending, Notifiers
  <2> QED
    BY <1>2, <2>1, <2>2 DEF Close
<1>3. ASSUME NEW m \in Notifiers, NotifyStore(m) PROVE OwedOnce'
  <2>1. \A n \in Notifiers : \A k \in DOMAIN toNotify[n] :
          Pending(n, k)' => /\ Pending(n, k)
                            /\ toNotify[n][k] # toNotify[m][1]
    BY <1>3, StoredIsOff
  <2> QED
    BY <1>3, <2>1, StoredIsOff DEF NotifyStore
<1>4. ASSUME NEW m \in Notifiers, NotifyUnpark(m) PROVE OwedOnce'
  <2> DEFINE at(n, k) == IF n = m THEN k + 1 ELSE k
  <2>1. \A n \in Notifiers : \A k \in DOMAIN toNotify'[n] :
          /\ k \in Nat
          /\ at(n, k) \in DOMAIN toNotify[n]
          /\ toNotify'[n][k] = toNotify[n][at(n, k)]
          /\ Pending(n, k)' => Pending(n, at(n, k))
    <3>1. \A k \in DOMAIN toNotify'[m] :
            /\ k \in Nat
            /\ k + 1 \in DOMAIN toNotify[m]
            /\ toNotify'[m][k] = toNotify[m][k + 1]
            /\ Pending(m, k + 1)
      BY <1>4, MovedOn DEF Pending
    <3>2. \A n \in Notifiers : n # m =>
            \A k \in DOMAIN toNotify'[n] :
              /\ k \in Nat
              /\ k \in DOMAIN toNotify[n]
              /\ toNotify'[n][k] = toNotify[n][k]
              /\ Pending(n, k)' => Pending(n, k)
      BY <1>4, MovedOn, LenProperties DEF Pending
    <3> QED
      BY <3>1, <3>2
  <2>2. \A n, j, k : j \in Nat /\ k \in Nat /\ at(n, j) = at(n, k) => j = k
    OBVIOUS
  <2>3. UNCHANGED <<pc, notified>>
    BY <1>4 DEF NotifyUnpark
  <2>4. OwedOnce
    OBVIOUS
  <2> HIDE DEF at, WellFormed, TypeOK, Parkers, Waiting
  <2>5. ASSUME NEW n \in Notifiers, NEW k \in DOMAIN toNotify'[n], Pending(n, k)'
        PROVE  Waiting(toNotify'[n][k]) /\ ~notified[toNotify'[n][k]]
    <3>1. Waiting(toNotify[n][at(n, k)]) /\ ~notified[toNotify[n][at(n, k)]]
      BY <2>1, <2>4, <2>5
    <3> QED
      BY <2>1, <3>1
  <2>6. ASSUME NEW n \in Notifiers, NEW l \in Notifiers,
               NEW j \in DOMAIN toNotify'[n], NEW k \in DOMAIN toNotify'[l],
               Pending(n, j)', Pending(l, k)', toNotify'[n][j] = toNotify'[l][k]
        PROVE  n = l /\ j = k
    <3>1. toNotify[n][at(n, j)] = toNotify[l][at(l, k)]
      BY <2>1, <2>6
    <3>2. n = l /\ at(n, j) = at(l, k)
      BY <2>1, <2>4, <2>6, <3>1
    <3> QED
      BY <2>1, <2>2, <3>2
  <2> QED
    BY <2>3, <2>5, <2>6 DEF Waiting
<1>5. ASSUME NEW w \in Workers, PopIdle(w) \/ PopItem(w) \/ PopClosed(w) \/ Finish(w)
      PROVE  OwedOnce'
  <2>1. /\ UNCHANGED <<toNotify, stored>>
        /\ ~Waiting(w)
        /\ \A v \in Workers : v # w => pc'[v] = pc[v] /\ notified'[v] = notified[v]
    BY <1>5 DEF PopIdle, PopItem, PopClosed, Finish
  <2>2. \A n \in Notifiers : \A k \in DOMAIN toNotify[n] : toNotify[n][k] \in Workers
    BY ElementOfSeq, LenProperties
  <2> QED
    BY <2>1, <2>2 DEF Pending
<1>6. ASSUME NEW w \in Workers,
             CheckNotified(w) \/ Unparked(w) \/ SpuriousReturn(w)
      PROVE  OwedOnce'
  <2>1. /\ UNCHANGED <<notified, toNotify, stored>>
        /\ \A v \in Workers : v # w => pc'[v] = pc[v]
        /\ notified[w] \/ Waiting(w)'
    BY <1>6 DEF CheckNotified, Unparked, SpuriousReturn
  <2>2. \A n \in Notifiers : \A k \in DOMAIN toNotify[n] : toNotify[n][k] \in Workers
    BY ElementOfSeq, LenProperties
  <2> QED
    BY <2>1, <2>2 DEF Pending
<1>7. CASE UNCHANGED vars
  BY <1>7 DEF vars, Pending
<1> QED
  BY <1>1, <1>2, <1>3, <1>4, <1>5, <1>6, <1>7 DEF Next, Terminated

\* The two halves of UnlistedIsReleased for one worker.
Released(w) ==
  Waiting(w) /\ ~Listed(w) => notified[w] \/ \E n \in Notifiers : WillStore(n, w)
Awakened(w) ==
  pc[w] = "park" /\ notified[w] =>
    token[w] \/ \E n \in Notifiers : WillUnpark(n, w)

LEMMA ReleasedNext ==
  WellFormed /\ Parkers /\ [Next]_vars => UnlistedIsReleased'
<1> SUFFICES ASSUME WellFormed, Parkers, [Next]_vars, NEW w \in Workers
             PROVE  Released(w)' /\ Awakened(w)'
  BY DEF UnlistedIsReleased, Released, Awakened
<1>0. Released(w) /\ Awakened(w)
  BY DEF Parkers, UnlistedIsReleased, Released, Awakened
<1>1. ASSUME NEW i \in Items, Push(i) PROVE Released(w)' /\ Awakened(w)'
  <2>1. CASE idle = <<>>
    BY <1>0, <1>1, <2>1
    DEF Push, Released, Awakened, Waiting, Listed, WillStore, WillUnpark, Pending
  <2>2. CASE idle # <<>>
    <3>1. /\ i \in Notifiers /\ toNotify[i] = <<>> /\ ~stored[i]
          /\ 1 \in DOMAIN toNotify'[i] /\ toNotify'[i][1] = idle[Len(idle)]
          /\ \A n \in Notifiers : n # i => toNotify'[n] = toNotify[n]
          /\ \A k \in DOMAIN idle :
               k # Len(idle) => k \in DOMAIN idle' /\ idle'[k] = idle[k]
      BY <1>1, <2>2, TakenOff
    <3>2. UNCHANGED <<pc, notified, token, stored>>
      BY <1>1 DEF Push
    <3>3. Listed(w) => Listed(w)' \/ WillStore(i, w)'
      BY <3>1, <3>2 DEF Listed, WillStore, Pending
    <3>4. \A n \in Notifiers : WillStore(n, w) => WillStore(n, w)'
      <4>1. ~WillStore(i, w)
        BY <3>1 DEF WillStore
      <4>2. \A n \in Notifiers : n # i => WillStore(n, w)' = WillStore(n, w)
        BY <3>1, <3>2 DEF WillStore, Pending
      <4> QED
        BY <4>1, <4>2
    <3>5. \A n \in Notifiers : WillUnpark(n, w) => WillUnpark(n, w)'
      BY <3>1, <3>2 DEF WillUnpark
    <3> HIDE DEF WillStore, WillUnpark, Listed
    <3> QED
      BY <1>0, <3>1, <3>2, <3>3, <3>4, <3>5 DEF Released, Awakened, Waiting
  <2> QED
    BY <2>1, <2>2
<1>2. ASSUME Close PROVE Released(w)' /\ Awakened(w)'
  <2>1. /\ Closer \in Notifiers /\ toNotify[Closer] = <<>> /\ ~stored[Closer]
        /\ toNotify'[Closer] = idle
        /\ \A n \in Notifiers : n # Closer => toNotify'[n] = toNotify[n]
    BY <1>2 DEF WellFormed, TypeOK, Close, Notifiers
  <2>2. UNCHANGED <<pc, notified, token, stored>>
    BY <1>2 DEF Close
  <2>3. Listed(w) => WillStore(Closer, w)'
    BY <2>1, <2>2 DEF Listed, WillStore, Pending
  <2>4. \A n \in Notifiers : WillStore(n, w) => WillStore(n, w)'
    <3>1. ~WillStore(Closer, w)
      BY <2>1 DEF WillStore
    <3>2. \A n \in Notifiers : n # Closer => WillStore(n, w)' = WillStore(n, w)
      BY <2>1, <2>2 DEF WillStore, Pending
    <3> QED
      BY <3>1, <3>2
  <2>5. \A n \in Notifiers : WillUnpark(n, w) => WillUnpark(n, w)'
    BY <2>1, <2>2 DEF WillUnpark
  <2> QED
    BY <1>0, <2>1, <2>2, <2>3, <2>4, <2>5 DEF Released, Awakened, Waiting
<1>3. ASSUME NEW m \in Notifiers, NotifyStore(m)
      PROVE  Released(w)' /\ Awakened(w)'
  <2>1. UNCHANGED <<pc, idle, token, toNotify>>
    BY <1>3 DEF NotifyStore
  <2>2. /\ Head(toNotify[m]) = toNotify[m][1] /\ ~stored[m]
        /\ \A n \in Notifiers : stored[n] => stored'[n]
    BY <1>3, TailFacts DEF NotifyStore, WellFormed, TypeOK
  <2>3. CASE w = toNotify[m][1]
    <3>1. notified'[w] /\ WillUnpark(m, w)'
      BY <1>3, <2>1, <2>2, <2>3, StoredIsOff DEF WillUnpark, WellFormed, TypeOK
    <3> QED
      BY <3>1 DEF Released, Awakened
  <2>4. CASE w # toNotify[m][1]
    <3>1. notified'[w] = notified[w]
      BY <1>3, <2>4, StoredIsOff DEF WellFormed, TypeOK
    <3>2. \A n \in Notifiers : WillStore(n, w) => WillStore(n, w)'
      <4> SUFFICES ASSUME NEW n \in Notifiers, NEW k \in DOMAIN toNotify[n],
                          toNotify[n][k] = w, Pending(n, k)
                   PROVE  Pending(n, k)'
        BY <2>1 DEF WillStore
      <4>1. n # m \/ k # 1
        BY <2>4
      <4>2. n = m => k > 1
        BY <1>3, <4>1, StoredIsOff, LenProperties DEF WellFormed, TypeOK
      <4> QED
        BY <1>3, <4>2, StoredIsOff
    <3>3. \A n \in Notifiers : WillUnpark(n, w) => WillUnpark(n, w)'
      BY <2>1, <2>2 DEF WillUnpark
    <3> QED
      BY <1>0, <2>1, <3>1, <3>2, <3>3 DEF Released, Awakened, Waiting, Listed
  <2> QED
    BY <2>3, <2>4
<1>4. ASSUME NEW m \in Notifiers, NotifyUnpark(m)
      PROVE  Released(w)' /\ Awakened(w)'
  <2>1. UNCHANGED <<pc, idle, notified>>
    BY <1>4 DEF NotifyUnpark
  <2>2. \A n \in Notifiers : WillStore(n, w) => WillStore(n, w)'
    <3> SUFFICES ASSUME NEW n \in Notifiers, NEW k \in DOMAIN toNotify[n],
                        toNotify[n][k] = w, Pending(n, k)
                 PROVE  WillStore(n, w)'
      BY DEF WillStore
    <3>1. CASE n = m
      <4>1. k \in 1..Len(toNotify[m]) /\ k > 1 /\ Len(toNotify[m]) \in Nat
        BY <1>4, <3>1, MovedOn DEF Pending
      <4>2. k - 1 \in DOMAIN toNotify'[m] /\ (k - 1) + 1 = k
        BY <1>4, <4>1, MovedOn
      <4>3. toNotify'[m][k - 1] = w
        BY <1>4, <3>1, <4>2, MovedOn
      <4> QED
        BY <1>4, <3>1, <4>2, <4>3, MovedOn DEF WillStore, Pending
    <3>2. CASE n # m
      BY <1>4, <3>2, MovedOn DEF WillStore, Pending
    <3> QED
      BY <3>1, <3>2
  <2>3. CASE w = toNotify[m][1]
    <3>1. token'[w]
      BY <1>4, <2>3, MovedOn DEF WellFormed, TypeOK
    <3> QED
      BY <1>0, <2>1, <2>2, <3>1 DEF Released, Awakened, Waiting, Listed
  <2>4. CASE w # toNotify[m][1]
    <3>1. token'[w] = token[w]
      BY <1>4, <2>4, MovedOn DEF WellFormed, TypeOK
    <3>2. Head(toNotify[m]) = toNotify[m][1]
      BY <1>4, TailFacts, MovedOn DEF WellFormed, TypeOK
    <3>3. \A n \in Notifiers : WillUnpark(n, w) => WillUnpark(n, w)'
      BY <1>4, <2>4, <3>2, MovedOn DEF WillUnpark
    <3> QED
      BY <1>0, <2>1, <2>2, <3>1, <3>3 DEF Released, Awakened, Waiting, Listed
  <2> QED
    BY <2>3, <2>4
<1>5. ASSUME NEW v \in Workers, PopIdle(v) PROVE Released(w)' /\ Awakened(w)'
  <2>1. /\ UNCHANGED <<token, toNotify, stored>>
        /\ pc' = [pc EXCEPT ![v] = "check"]
        /\ notified' = [notified EXCEPT ![v] = FALSE]
    BY <1>5 DEF PopIdle
  <2>2. Listed(v)' /\ (Listed(w) => Listed(w)')
    <3>1. /\ \A k \in DOMAIN idle : k \in DOMAIN idle' /\ idle'[k] = idle[k]
          /\ Len(idle) + 1 \in DOMAIN idle' /\ idle'[Len(idle) + 1] = v
      BY <1>5, AppendFacts DEF PopIdle, WellFormed, TypeOK
    <3> QED
      BY <3>1 DEF Listed
  <2>3. UNCHANGED <<\E n \in Notifiers : WillStore(n, w),
                    \E n \in Notifiers : WillUnpark(n, w)>>
    BY <2>1 DEF WillStore, WillUnpark, Pending
  <2> HIDE DEF Listed
  <2>4. CASE w = v
    BY <2>1, <2>2, <2>4 DEF Released, Awakened, WellFormed, TypeOK
  <2>5. CASE w # v
    BY <1>0, <2>1, <2>2, <2>3, <2>5
    DEF Released, Awakened, Waiting, WellFormed, TypeOK
  <2> QED
    BY <2>4, <2>5
<1>6. ASSUME NEW v \in Workers, PopItem(v) \/ PopClosed(v) \/ Finish(v)
      PROVE  Released(w)' /\ Awakened(w)'
  <2>1. /\ UNCHANGED <<idle, notified, token, toNotify, stored>>
        /\ pc'[v] \in {"run", "exit", "lock"}
        /\ w # v => pc'[w] = pc[w]
    BY <1>6 DEF PopItem, PopClosed, Finish, WellFormed, TypeOK
  <2> QED
    BY <1>0, <2>1
    DEF Released, Awakened, Waiting, Listed, WillStore, WillUnpark, Pending
<1>7. ASSUME NEW v \in Workers,
             CheckNotified(v) \/ Unparked(v) \/ SpuriousReturn(v)
      PROVE  Released(w)' /\ Awakened(w)'
  <2>1. /\ UNCHANGED <<idle, notified, toNotify, stored>>
        /\ Waiting(w)' => Waiting(w)
        /\ pc'[w] = "park" /\ notified[w] => pc[w] = "park" /\ token'[w] = token[w]
    BY <1>7
    DEF CheckNotified, Unparked, SpuriousReturn, Waiting, WellFormed, TypeOK
  <2> QED
    BY <1>0, <2>1 DEF Released, Awakened, Listed, WillStore, WillUnpark, Pending
<1>8. CASE UNCHANGED vars
  BY <1>0, <1>8
  DEF vars, Released, Awakened, Waiting, Listed, WillStore, WillUnpark, Pending
<1> QED
  BY <1>1, <1>2, <1>3, <1>4, <1>5, <1>6, <1>7, <1>8 DEF Next, Terminated

-----------------------------------------------------------------------------
(* Counting the threads on the way.                                        *)

LEMMA OnTheWayFinite ==
  IsFiniteSet(OnTheWay) /\ Cardinality(OnTheWay) \in Nat
<1>1. OnTheWay \subseteq Workers
  BY DEF OnTheWay
<1> QED
  BY <1>1, WorkersAssumption, FS_Subset, FS_CardinalityType

\* As long as nobody who is on the way stops being so, and the queue does not
\* grow, there are threads enough.
LEMMA StillEnough ==
  ASSUME NoLostWakeup, OnTheWay \subseteq OnTheWay',
         UNCHANGED <<items, idle>>, items \in Seq(Items)
  PROVE  NoLostWakeup'
<1>1. IsFiniteSet(OnTheWay') /\ Cardinality(OnTheWay') \in Nat
  <2>1. OnTheWay' \subseteq Workers
    BY DEF OnTheWay
  <2> QED
    BY <2>1, WorkersAssumption, FS_Subset, FS_CardinalityType
<1>2. Cardinality(OnTheWay) <= Cardinality(OnTheWay')
  BY <1>1, FS_Subset
<1>3. Len(items) \in Nat
  BY LenProperties
<1> QED
  BY <1>1, <1>2, <1>3, OnTheWayFinite DEF NoLostWakeup

LEMMA NoLostWakeupNext ==
  WellFormed /\ Parkers /\ NoLostWakeup /\ [Next]_vars => NoLostWakeup'
<1> SUFFICES ASSUME WellFormed, Parkers, NoLostWakeup, [Next]_vars
             PROVE  NoLostWakeup'
  OBVIOUS
<1>0. /\ items \in Seq(Items) /\ Len(items) \in Nat
      /\ idle \in Seq(Workers) /\ pc \in [Workers -> Places]
  BY LenProperties DEF WellFormed, TypeOK
<1>f. OnTheWay' \subseteq Workers
  BY DEF OnTheWay
<1>n. Cardinality(OnTheWay') \in Nat
  BY <1>f, WorkersAssumption, FS_Subset, FS_CardinalityType
<1>1. ASSUME NEW i \in Items, Push(i) PROVE NoLostWakeup'
  <2>1. CASE idle = <<>>
    BY <1>1, <2>1 DEF Push, NoLostWakeup
  <2>2. CASE idle # <<>>
    <3>0. PICK w \in Workers : w = idle[Len(idle)]
      BY <1>1, <2>2, TakenOff
    <3>1. Waiting(w) /\ Listed(w)
      BY <1>1, <2>2, <3>0, TakenOff DEF Parkers, ListedOnlyWhileWaiting, Listed
    <3>2. ~Listed(w)'
      BY <1>1, <2>2, <3>0, TakenOff DEF Parkers, ListedOnlyWhileWaiting, Listed
    <3>3. pc' = pc
      BY <1>1 DEF Push
    <3>4. \A v \in Workers : Listed(v)' => Listed(v)
      BY <1>1, <2>2, TakenOff DEF Listed
    <3>5. w \notin OnTheWay
      BY <3>1 DEF OnTheWay, Waiting
    <3>6. OnTheWay \cup {w} \subseteq OnTheWay'
      BY <3>1, <3>2, <3>3, <3>4 DEF OnTheWay, Waiting
    <3>7. IsFiniteSet(OnTheWay')
      BY <1>f, WorkersAssumption, FS_Subset
    <3>8. Cardinality(OnTheWay) + 1 <= Cardinality(OnTheWay')
      <4>1. Cardinality(OnTheWay \cup {w}) = Cardinality(OnTheWay) + 1
        BY <3>5, OnTheWayFinite, FS_AddElement
      <4>2. Cardinality(OnTheWay \cup {w}) <= Cardinality(OnTheWay')
        BY <3>6, <3>7, FS_Subset
      <4> QED
        BY <4>1, <4>2
    <3>9. Len(items') = Len(items) + 1
      BY <1>0, <1>1, AppendFacts DEF Push
    <3> QED
      BY <1>0, <1>n, <2>2, <3>8, <3>9, OnTheWayFinite DEF NoLostWakeup
  <2> QED
    BY <2>1, <2>2
<1>2. ASSUME Close PROVE NoLostWakeup'
  BY <1>2 DEF Close, NoLostWakeup
<1>3. ASSUME NEW n \in Notifiers, NotifyStore(n) \/ NotifyUnpark(n)
      PROVE  NoLostWakeup'
  <2>1. UNCHANGED <<items, idle, pc>>
    BY <1>3 DEF NotifyStore, NotifyUnpark
  <2> QED
    BY <1>0, <2>1, StillEnough DEF OnTheWay, Waiting, Listed
<1>4. ASSUME NEW w \in Workers, PopItem(w) PROVE NoLostWakeup'
  <2>1. /\ items # <<>> /\ items' = Tail(items) /\ idle' = idle
        /\ pc[w] = "lock" /\ pc' = [pc EXCEPT ![w] = "run"]
    BY <1>4 DEF PopItem
  <2>2. OnTheWay' = OnTheWay \ {w}
    BY <1>0, <2>1 DEF OnTheWay, Waiting, Listed
  <2>3. w \in OnTheWay
    BY <2>1 DEF OnTheWay
  <2>4. Cardinality(OnTheWay') = Cardinality(OnTheWay) - 1
    BY <2>2, <2>3, OnTheWayFinite, FS_RemoveElement
  <2>5. Len(items') = Len(items) - 1
    BY <1>0, <2>1, TailFacts
  <2> QED
    BY <1>0, <2>1, <2>4, <2>5, OnTheWayFinite DEF NoLostWakeup
<1>5. ASSUME NEW w \in Workers, PopClosed(w) \/ PopIdle(w) PROVE NoLostWakeup'
  <2>1. items' = <<>>
    BY <1>5 DEF PopClosed, PopIdle
  <2> QED
    BY <1>n, <2>1, EmptySeq DEF NoLostWakeup
<1>6. ASSUME NEW w \in Workers, CheckNotified(w) PROVE NoLostWakeup'
  <2>1. /\ pc[w] = "check" /\ UNCHANGED <<items, idle>>
        /\ pc' = [pc EXCEPT ![w] = IF notified[w] THEN "lock" ELSE "park"]
    BY <1>6 DEF CheckNotified
  <2>2. OnTheWay \subseteq OnTheWay'
    BY <1>0, <2>1 DEF OnTheWay, Waiting, Listed
  <2> QED
    BY <1>0, <2>1, <2>2, StillEnough
<1>7. ASSUME NEW w \in Workers, Unparked(w) \/ SpuriousReturn(w) \/ Finish(w)
      PROVE  NoLostWakeup'
  <2>1. /\ UNCHANGED <<items, idle>>
        /\ \/ pc[w] = "park" /\ pc' = [pc EXCEPT ![w] = "check"]
           \/ pc[w] = "run" /\ pc' = [pc EXCEPT ![w] = "lock"]
    BY <1>7 DEF Unparked, SpuriousReturn, Finish
  <2>2. OnTheWay \subseteq OnTheWay'
    BY <1>0, <2>1 DEF OnTheWay, Waiting, Listed
  <2> QED
    BY <1>0, <2>1, <2>2, StillEnough
<1>8. CASE UNCHANGED vars
  BY <1>0, <1>8, StillEnough DEF vars, OnTheWay, Waiting, Listed
<1> QED
  BY <1>1, <1>2, <1>3, <1>4, <1>5, <1>6, <1>7, <1>8 DEF Next, Terminated

THEOREM Invariance == Safety => []IInv
<1>1. Init => IInv
  BY WellFormedInit, ParkersInit DEF IInv, Init, NoLostWakeup
<1>2. IInv /\ [Next]_vars => IInv'
  BY WellFormedNext, ListedNext, OwedOnceNext, ReleasedNext, NoLostWakeupNext
  DEF IInv, Parkers
<1> QED
  BY <1>1, <1>2, PTL DEF Safety

(***************************************************************************)
(* However the threads interleave and whenever park returns, no thread     *)
(* stays listed as idle unless there is a thread on the way to each item   *)
(* of the queue: one wake-up per push is enough.                           *)
(***************************************************************************)
THEOREM WakeupsSuffice == Safety => []NoLostWakeup
<1>1. IInv => NoLostWakeup
  BY DEF IInv
<1> QED
  BY <1>1, Invariance, PTL

(***************************************************************************)
(* The list holds each waiting thread once, and nobody has a notification  *)
(* left over for a listed thread; a waiting thread that is off the list    *)
(* has been notified or will be, and is not left asleep in park.           *)
(***************************************************************************)
THEOREM ParkersAreReleased == Safety => []WakeupsReachSleepers
<1>1. IInv => WakeupsReachSleepers
  BY DEF IInv, Parkers, WakeupsReachSleepers
<1> QED
  BY <1>1, Invariance, PTL

-----------------------------------------------------------------------------
(* The refinement, without its fairness.                                   *)

Gone == {w \in Workers : pc[w] = "exit"}

LEMMA StepRefines == WellFormed /\ [Next]_vars => [Abstract!Next]_(Abstract!vars)
<1> SUFFICES ASSUME WellFormed, [Next]_vars
             PROVE  [Abstract!Next]_(Abstract!vars)
  OBVIOUS
<1> USE DEF WellFormed, TypeOK, Places
<1>1. ASSUME NEW i \in Items, Push(i) PROVE Abstract!Push(i)
  BY <1>1 DEF Push, Abstract!Push
<1>2. ASSUME Close PROVE Abstract!Close
  BY <1>2 DEF Close, Abstract!Close
<1>3. ASSUME NEW w \in Workers, PopItem(w) PROVE Abstract!Take(w)
  BY <1>3 DEF PopItem, Abstract!Take
<1>4. ASSUME NEW w \in Workers, PopClosed(w) PROVE Abstract!Leave(w)
  BY <1>4 DEF PopClosed, Abstract!Leave
<1>5. ASSUME NEW w \in Workers, Finish(w) PROVE Abstract!Finish(w)
  BY <1>5 DEF Finish, Abstract!Finish
<1>6. ASSUME NEW n \in Notifiers, NotifyStore(n) \/ NotifyUnpark(n)
      PROVE  UNCHANGED Abstract!vars
  BY <1>6 DEF NotifyStore, NotifyUnpark, Abstract!vars
<1>7. ASSUME NEW w \in Workers,
             \/ PopIdle(w) \/ CheckNotified(w)
             \/ Unparked(w) \/ SpuriousReturn(w)
      PROVE  UNCHANGED Abstract!vars
  BY <1>7
  DEF PopIdle, CheckNotified, Unparked, SpuriousReturn, Abstract!vars
<1>8. CASE UNCHANGED vars
  BY <1>8 DEF vars, Abstract!vars
<1> QED
  BY <1>1, <1>2, <1>3, <1>4, <1>5, <1>6, <1>7, <1>8
  DEF Next, Terminated, Abstract!Next

(***************************************************************************)
(* Every behaviour of the queue is one of the abstract queue: items leave  *)
(* in the order in which push put them there, each to one worker, and a    *)
(* worker ends only when the queue is closed and drained.                  *)
(***************************************************************************)
THEOREM QueueRefines == Safety => Abstract!Init /\ [][Abstract!Next]_(Abstract!vars)
<1>1. Init => Abstract!Init
  BY DEF Init, Abstract!Init
<1>2. Safety => []WellFormed
  BY WellFormedInit, WellFormedNext, PTL DEF Safety
<1> QED
  BY <1>1, <1>2, StepRefines, PTL DEF Safety

-----------------------------------------------------------------------------
(* The event bridge.                                                       *)

LEMMA NoEventsOK == Bridge!InnerOK(Bridge!Closed) /\ Bridge!InnerOK(Bridge!Empty)
<1>1. <<>> \in Seq(Events)
  BY EmptySeq
<1>2. Bridge!Closed = [kind |-> "Closed", events |-> <<>>]
  BY DEF Bridge!Closed
<1>3. Bridge!Empty = [kind |-> "Empty", events |-> <<>>]
  BY DEF Bridge!Empty
<1>4. Bridge!InnerOK(Bridge!Closed)
  BY <1>1, <1>2 DEF Bridge!InnerOK, Bridge!Kinds
<1>5. Bridge!InnerOK(Bridge!Empty)
  BY <1>1, <1>3 DEF Bridge!InnerOK, Bridge!Kinds
<1> QED
  BY <1>4, <1>5

LEMMA BridgeTypeOKInit == Bridge!Init => Bridge!TypeOK
  BY EmptySeq, NoEventsOK DEF Bridge!Init, Bridge!TypeOK

\* What a send finds and leaves in an open bridge.
LEMMA AfterSendFacts ==
  ASSUME Bridge!TypeOK, NEW e \in Events, inner.kind # "Closed"
  PROVE  /\ Bridge!AfterSend(e).events = Append(inner.events, e)
         /\ Bridge!AfterSend(e)
              \in [kind : {"Single", "Multiple"}, events : Seq(Events)]
         /\ Bridge!AfterSend(e).kind = "Single" => Len(Bridge!AfterSend(e).events) = 1
         /\ Len(Bridge!AfterSend(e).events) >= 1
<1> USE DEF Bridge!TypeOK, Bridge!InnerOK, Bridge!Kinds, Bridge!AfterSend,
            Bridge!Single, Bridge!Multiple
<1>1. /\ Append(inner.events, e) \in Seq(Events)
      /\ Len(Append(inner.events, e)) = Len(inner.events) + 1
      /\ Len(inner.events) \in Nat
  BY AppendProperties, LenProperties
<1>2. CASE inner.kind = "Empty"
  <2>1. inner.events = <<>> /\ Append(<<>>, e) = <<e>>
    BY <1>2
  <2>2. Bridge!AfterSend(e) = [kind |-> "Single", events |-> <<e>>]
    BY <1>2
  <2>3. <<e>> \in Seq(Events) /\ Len(<<e>>) = 1
    OBVIOUS
  <2> HIDE DEF Bridge!TypeOK, Bridge!InnerOK, Bridge!AfterSend
  <2> QED
    BY <2>1, <2>2, <2>3
<1>3. CASE inner.kind = "Single"
  <2>1. Len(inner.events) = 1
    BY <1>3
  <2> DEFINE two == <<inner.events[1], e>>
  <2>2. /\ two \in Seq(Events) /\ Len(two) = 2
        /\ two[1] = inner.events[1] /\ two[2] = e
    BY <2>1, ElementOfSeq
  <2>3. Append(inner.events, e) = two
    <3>1. \A i \in 1..2 : Append(inner.events, e)[i] = two[i]
      BY <2>1, <2>2, AppendProperties
    <3> HIDE DEF two
    <3> QED
      BY <1>1, <2>1, <2>2, <3>1, SeqEqual
  <2>4. Bridge!AfterSend(e) = [kind |-> "Multiple", events |-> two]
    BY <1>3
  <2> HIDE DEF two, Bridge!TypeOK, Bridge!InnerOK, Bridge!AfterSend
  <2> QED
    BY <2>2, <2>3, <2>4
<1>4. CASE inner.kind = "Multiple"
  <2>1. Bridge!AfterSend(e)
          = [kind |-> "Multiple", events |-> Append(inner.events, e)]
    BY <1>4
  <2> HIDE DEF Bridge!TypeOK, Bridge!InnerOK, Bridge!AfterSend
  <2> QED
    BY <1>1, <2>1
<1>5. inner.kind \in {"Closed", "Empty", "Single", "Multiple"}
  OBVIOUS
<1> QED
  BY <1>2, <1>3, <1>4, <1>5

LEMMA TailOfOne ==
  ASSUME NEW S, NEW s \in Seq(S), Len(s) = 1
  PROVE  Tail(s) = <<>>
<1>1. s # <<>>
  OBVIOUS
<1>2. Tail(s) \in Seq(S) /\ Len(Tail(s)) = 0
  BY <1>1, HeadTailProperties
<1> QED
  BY <1>2, EmptySeq

\* What a get leaves.
LEMMA AfterGetFacts ==
  ASSUME Bridge!TypeOK, inner.kind \in {"Single", "Multiple"}
  PROVE  /\ inner.events # <<>>
         /\ Bridge!AfterGet.events = Tail(inner.events)
         /\ Bridge!AfterGet \in [kind : {"Empty", "Multiple"}, events : Seq(Events)]
         /\ Bridge!AfterGet.kind = "Empty" => Bridge!AfterGet.events = <<>>
         /\ Bridge!AfterGet.kind = "Multiple" => Len(Bridge!AfterGet.events) >= 1
<1> USE DEF Bridge!TypeOK, Bridge!InnerOK, Bridge!Kinds, Bridge!AfterGet,
            Bridge!Multiple, Bridge!Empty
<1>1. Len(inner.events) \in Nat /\ Len(inner.events) >= 1
  <2>1. inner.events \in Seq(Events)
    OBVIOUS
  <2>2. Len(inner.events) \in Nat
    BY <2>1, LenProperties
  <2>3. CASE inner.kind = "Single"
    <3>1. Len(inner.events) = 1
      BY <2>3
    <3> QED
      BY <3>1
  <2>4. CASE inner.kind = "Multiple"
    BY <2>4
  <2> QED
    BY <2>2, <2>3, <2>4
<1>2. inner.events # <<>>
  BY <1>1
<1>3. /\ Tail(inner.events) \in Seq(Events)
      /\ Len(Tail(inner.events)) = Len(inner.events) - 1
  BY <1>2, HeadTailProperties
<1>4. Len(inner.events) = 1 => Tail(inner.events) = <<>>
  BY TailOfOne
<1>5. CASE Len(inner.events) > 1 /\ inner.kind = "Multiple"
  <2>1. Bridge!AfterGet = [kind |-> "Multiple", events |-> Tail(inner.events)]
    BY <1>5
  <2> HIDE DEF Bridge!TypeOK, Bridge!InnerOK, Bridge!AfterGet
  <2> QED
    BY <1>1, <1>2, <1>3, <1>5, <2>1
<1>6. CASE ~(Len(inner.events) > 1 /\ inner.kind = "Multiple")
  <2>1. Bridge!AfterGet = [kind |-> "Empty", events |-> <<>>]
    BY <1>6
  <2>2. Len(inner.events) = 1
    <3>1. CASE inner.kind = "Single"
      BY <3>1
    <3>2. CASE inner.kind = "Multiple"
      <4>1. ~ (Len(inner.events) > 1)
        BY <1>6, <3>2
      <4>2. \A n \in Nat : n >= 1 /\ ~(n > 1) => n = 1
        OBVIOUS
      <4> QED
        BY <1>1, <4>1, <4>2
    <3> QED
      BY <3>1, <3>2
  <2> HIDE DEF Bridge!TypeOK, Bridge!InnerOK, Bridge!AfterGet
  <2> QED
    BY <1>2, <1>3, <1>4, <2>1, <2>2
<1> QED
  BY <1>5, <1>6

\* The part of TypeOK that is not about the enum.
QueuesOK ==
  /\ batch \in Seq(Events)
  /\ handled \in Seq(Events)
  /\ accepted \in Seq(Events)
  /\ refused \subseteq Events
  /\ dropped \in Seq(Events)

LEMMA BridgeTypeOKNext ==
  Bridge!TypeOK /\ [Bridge!Next]_(Bridge!vars) => Bridge!TypeOK'
<1> SUFFICES ASSUME Bridge!TypeOK, [Bridge!Next]_(Bridge!vars)
             PROVE  Bridge!InnerOK(inner') /\ QueuesOK'
  BY DEF Bridge!TypeOK, QueuesOK
<1>0. Bridge!InnerOK(inner) /\ QueuesOK
  BY DEF Bridge!TypeOK, QueuesOK
<1>1. ASSUME NEW e \in Events, Bridge!Send(e)
      PROVE  Bridge!InnerOK(inner') /\ QueuesOK'
  <2>1. CASE inner.kind = "Closed"
    BY <1>0, <1>1, <2>1 DEF Bridge!Send, QueuesOK
  <2>2. CASE inner.kind # "Closed"
    <3>1. Append(accepted, e) \in Seq(Events)
      BY <1>0, AppendProperties DEF QueuesOK
    <3>2. Bridge!InnerOK(Bridge!AfterSend(e))
      BY <2>2, AfterSendFacts DEF Bridge!InnerOK, Bridge!Kinds
    <3> QED
      BY <1>0, <1>1, <2>2, <3>1, <3>2 DEF Bridge!Send, QueuesOK
  <2> QED
    BY <2>1, <2>2
<1>2. CASE Bridge!Process
  <2>1. inner.events \in Seq(Events)
    BY <1>0 DEF Bridge!InnerOK
  <2> QED
    BY <1>0, <1>2, <2>1, NoEventsOK DEF Bridge!Process, QueuesOK
<1>3. CASE Bridge!Handle
  <2>1. Append(handled, Head(batch)) \in Seq(Events) /\ Tail(batch) \in Seq(Events)
    BY <1>0, <1>3, HeadTailProperties, AppendProperties DEF Bridge!Handle, QueuesOK
  <2> QED
    BY <1>0, <1>3, <2>1 DEF Bridge!Handle, QueuesOK
<1>4. CASE Bridge!Get
  <2>1. inner.events \in Seq(Events) /\ inner.events # <<>>
    BY <1>0, <1>4, AfterGetFacts DEF Bridge!InnerOK, Bridge!Get
  <2>2. Append(handled, Head(inner.events)) \in Seq(Events)
    BY <1>0, <2>1, HeadTailProperties, AppendProperties DEF QueuesOK
  <2>3. Bridge!InnerOK(Bridge!AfterGet)
    BY <1>4, AfterGetFacts DEF Bridge!InnerOK, Bridge!Kinds, Bridge!Get
  <2> QED
    BY <1>0, <1>4, <2>2, <2>3 DEF Bridge!Get, QueuesOK
<1>5. CASE Bridge!Close
  <2>1. inner.events \o dropped \in Seq(Events)
    BY <1>0, ConcatProperties DEF QueuesOK, Bridge!InnerOK
  <2> QED
    BY <1>0, <1>5, <2>1, NoEventsOK DEF Bridge!Close, QueuesOK
<1>6. CASE UNCHANGED Bridge!vars
  BY <1>0, <1>6 DEF Bridge!vars, QueuesOK
<1> QED
  BY <1>1, <1>2, <1>3, <1>4, <1>5, <1>6 DEF Bridge!Next

THEOREM BridgeTypeCorrect == BridgeSteps => []Bridge!TypeOK
  BY BridgeTypeOKInit, BridgeTypeOKNext, PTL DEF BridgeSteps, Bridge!Spec

-----------------------------------------------------------------------------
\* Moving the head of one sequence to the end of the one before it.
LEMMA HeadMoves ==
  ASSUME NEW s \in Seq(Events), NEW t \in Seq(Events), NEW u \in Seq(Events),
         t # <<>>
  PROVE  s \o (t \o u) = Append(s, Head(t)) \o (Tail(t) \o u)
<1>1. Head(t) \in Events /\ Tail(t) \in Seq(Events) /\ <<Head(t)>> \in Seq(Events)
  BY HeadTailProperties
<1>2. Append(s, Head(t)) = s \o <<Head(t)>>
  BY <1>1, AppendIsConcat
<1>3. t = <<Head(t)>> \o Tail(t)
  BY <1>1
<1>4. t \o u = <<Head(t)>> \o (Tail(t) \o u)
  <2>1. (<<Head(t)>> \o Tail(t)) \o u = <<Head(t)>> \o (Tail(t) \o u)
    BY <1>1, ConcatAssociative
  <2> QED
    BY <1>3, <2>1
<1>5. Tail(t) \o u \in Seq(Events)
  BY <1>1, ConcatProperties
<1>6. (s \o <<Head(t)>>) \o (Tail(t) \o u) = s \o (<<Head(t)>> \o (Tail(t) \o u))
  BY SMTT(60), <1>1, <1>5, ConcatAssociative
<1> QED
  BY <1>2, <1>4, <1>6

\* ConcatAssociative, for the elements of this bridge.
LEMMA Associates ==
  ASSUME NEW s \in Seq(Events), NEW t \in Seq(Events), NEW u \in Seq(Events)
  PROVE  (s \o t) \o u = s \o (t \o u)
  BY ConcatAssociative

\* The events on the bridge are dropped by a close only.
OpenDropsNothing == inner.kind # "Closed" => dropped = <<>>

BridgeInv == Bridge!TypeOK /\ OpenDropsNothing /\ NothingLost

LEMMA NothingLostNext ==
  BridgeInv /\ [Bridge!Next]_(Bridge!vars) => OpenDropsNothing' /\ NothingLost'
<1> SUFFICES ASSUME BridgeInv, [Bridge!Next]_(Bridge!vars)
             PROVE  OpenDropsNothing' /\ NothingLost'
  OBVIOUS
<1> DEFINE E == inner.events
<1>0. /\ E \in Seq(Events) /\ batch \in Seq(Events) /\ handled \in Seq(Events)
      /\ dropped \in Seq(Events) /\ accepted \in Seq(Events)
  BY DEF BridgeInv, Bridge!TypeOK, Bridge!InnerOK
<1>1. ASSUME NEW e \in Events, Bridge!Send(e)
      PROVE  OpenDropsNothing' /\ NothingLost'
  <2>1. CASE inner.kind = "Closed"
    BY <1>1, <2>1
    DEF Bridge!Send, BridgeInv, OpenDropsNothing, NothingLost, Bridge!NothingLost
  <2>2. CASE inner.kind # "Closed"
    <3>1. dropped = <<>> /\ dropped' = <<>>
      BY <1>1, <2>2 DEF Bridge!Send, BridgeInv, OpenDropsNothing
    <3>2. <<e>> \in Seq(Events)
      OBVIOUS
    <3>3. inner'.events = E \o <<e>>
      <4>1. inner' = Bridge!AfterSend(e)
        BY <1>1, <2>2 DEF Bridge!Send
      <4>2. Bridge!AfterSend(e).events = Append(E, e)
        BY <2>2, AfterSendFacts DEF BridgeInv
      <4>3. Append(E, e) = E \o <<e>>
        BY <1>0, AppendIsConcat
      <4> QED
        BY <4>1, <4>2, <4>3
    <3>4. accepted' = accepted \o <<e>>
      BY <1>0, <1>1, <2>2, AppendIsConcat DEF Bridge!Send
    <3>5. accepted = handled \o (batch \o E)
      <4>1. E \o dropped = E
        BY <1>0, <3>1, ConcatEmptySeq
      <4> QED
        BY <4>1 DEF BridgeInv, NothingLost, Bridge!NothingLost
    <3> HIDE DEF E
    <3>6. batch \o E \in Seq(Events) /\ E \o <<e>> \in Seq(Events)
      BY <1>0, <3>2, ConcatProperties
    <3>7. (handled \o (batch \o E)) \o <<e>> = handled \o (batch \o (E \o <<e>>))
      <4> DEFINE x == <<e>>
                 rest == batch \o E
      <4>1. handled \in Seq(Events) /\ rest \in Seq(Events) /\ x \in Seq(Events)
        BY <1>0, <3>2, <3>6
      <4>2. batch \in Seq(Events) /\ E \in Seq(Events) /\ x \in Seq(Events)
        BY <1>0, <3>2
      <4> HIDE DEF x
      <4>3. rest \o x = batch \o (E \o x)
        BY <4>2, Associates
      <4> HIDE DEF rest
      <4>4. (handled \o rest) \o x = handled \o (rest \o x)
        BY <4>1, Associates
      <4>5. (handled \o rest) \o x = handled \o (batch \o (E \o x))
        BY <4>3, <4>4
      <4> QED
        BY <4>5 DEF rest, x
    <3>8. (E \o <<e>>) \o <<>> = E \o <<e>>
      BY <3>6, ConcatEmptySeq
    <3> QED
      BY <1>1, <3>1, <3>3, <3>4, <3>5, <3>7, <3>8
      DEF Bridge!Send, OpenDropsNothing, NothingLost, Bridge!NothingLost
  <2> QED
    BY <2>1, <2>2
<1>2. CASE Bridge!Process
  <2>1. inner'.events = <<>> /\ (inner'.kind = "Closed" <=> inner.kind = "Closed")
    BY <1>2 DEF Bridge!Process, Bridge!Closed, Bridge!Empty
  <2>2. E \o (<<>> \o dropped) = <<>> \o (E \o dropped)
    BY <1>0, ConcatEmptySeq, ConcatProperties
  <2> QED
    BY <1>2, <2>1, <2>2
    DEF Bridge!Process, BridgeInv, OpenDropsNothing, NothingLost, Bridge!NothingLost
<1>3. CASE Bridge!Handle
  <2>1. E \o dropped \in Seq(Events)
    BY <1>0, ConcatProperties
  <2>2. batch # <<>>
    BY <1>3 DEF Bridge!Handle
  <2>3. handled \o (batch \o (E \o dropped))
          = Append(handled, Head(batch)) \o (Tail(batch) \o (E \o dropped))
    <3> HIDE DEF E
    <3> QED
      BY ZenonT(60), <1>0, <2>1, <2>2, HeadMoves
  <2> QED
    BY <1>3, <2>3
    DEF Bridge!Handle, BridgeInv, OpenDropsNothing, NothingLost, Bridge!NothingLost
<1>4. CASE Bridge!Get
  <2>1. /\ E # <<>> /\ inner'.events = Tail(E) /\ dropped = <<>> /\ dropped' = <<>>
        /\ Tail(E) \in Seq(Events)
    BY <1>0, <1>4, AfterGetFacts, HeadTailProperties
    DEF Bridge!Get, BridgeInv, OpenDropsNothing
  <2>2. E \o dropped \in Seq(Events) /\ Tail(E) \o dropped \in Seq(Events)
    BY <1>0, <2>1, ConcatProperties
  <2>3. /\ <<>> \o (E \o dropped) = E \o dropped
        /\ <<>> \o (Tail(E) \o dropped) = Tail(E) \o dropped
    BY <2>2, ConcatEmptySeq
  <2>4. handled \o (E \o dropped) = Append(handled, Head(E)) \o (Tail(E) \o dropped)
    <3> HIDE DEF E
    <3> QED
      BY SMTT(60), <1>0, <2>1, HeadMoves
  <2> QED
    BY <1>4, <2>1, <2>3, <2>4
    DEF Bridge!Get, BridgeInv, OpenDropsNothing, NothingLost, Bridge!NothingLost
<1>5. CASE Bridge!Close
  <2>1. E \o dropped \in Seq(Events)
    BY <1>0, ConcatProperties
  <2>2. <<>> \o (E \o dropped) = E \o dropped
    BY <2>1, ConcatEmptySeq
  <2> QED
    BY <1>5, <2>2
    DEF Bridge!Close, Bridge!Closed, BridgeInv, OpenDropsNothing, NothingLost,
        Bridge!NothingLost
<1>6. CASE UNCHANGED Bridge!vars
  BY <1>6
  DEF Bridge!vars, BridgeInv, OpenDropsNothing, NothingLost, Bridge!NothingLost
<1> QED
  BY <1>1, <1>2, <1>3, <1>4, <1>5, <1>6 DEF Bridge!Next

(***************************************************************************)
(* Whatever the interleaving of sends with a process that handles its      *)
(* batch outside the lock, every accepted event is handled in its turn,    *)
(* waits on the bridge, or was dropped by the close.                       *)
(***************************************************************************)
THEOREM EventsAccountedFor == BridgeSteps => []NothingLost
<1>1. Bridge!Init => BridgeInv
  <2>1. <<>> \o <<>> = <<>>
    BY EmptySeq, ConcatEmptySeq
  <2> QED
    BY <2>1, BridgeTypeOKInit
    DEF Bridge!Init, Bridge!Empty, BridgeInv, OpenDropsNothing, NothingLost,
        Bridge!NothingLost
<1>2. BridgeInv /\ [Bridge!Next]_(Bridge!vars) => BridgeInv'
  BY BridgeTypeOKNext, NothingLostNext DEF BridgeInv
<1>3. BridgeInv => NothingLost
  BY DEF BridgeInv
<1> QED
  BY <1>1, <1>2, <1>3, PTL DEF BridgeSteps, Bridge!Spec

(***************************************************************************)
(* A closed bridge stays closed, and send refuses every event from then    *)
(* on: process, which empties the bridge, does not reopen it.              *)
(***************************************************************************)
THEOREM StaysClosed == BridgeSteps => ClosedForGood
<1>1. [Bridge!Next]_(Bridge!vars) =>
        [inner.kind = "Closed"
           => inner'.kind = "Closed" /\ accepted' = accepted]_(Bridge!vars)
  <2> SUFFICES ASSUME [Bridge!Next]_(Bridge!vars), inner.kind = "Closed"
               PROVE  inner'.kind = "Closed" /\ accepted' = accepted
    OBVIOUS
  <2>1. Bridge!Closed.kind = "Closed"
    BY DEF Bridge!Closed
  <2>2. ASSUME NEW e \in Events, Bridge!Send(e)
        PROVE  inner'.kind = "Closed" /\ accepted' = accepted
    BY <2>2 DEF Bridge!Send
  <2>3. CASE Bridge!Process
    BY <2>1, <2>3 DEF Bridge!Process
  <2>4. CASE Bridge!Handle
    BY <2>4 DEF Bridge!Handle
  <2>5. CASE Bridge!Get
    BY <2>5 DEF Bridge!Get
  <2>6. CASE Bridge!Close
    BY <2>1, <2>6 DEF Bridge!Close
  <2>7. CASE UNCHANGED Bridge!vars
    BY <2>7 DEF Bridge!vars
  <2> QED
    BY <2>2, <2>3, <2>4, <2>5, <2>6, <2>7 DEF Bridge!Next
<1> QED
  BY <1>1, PTL DEF BridgeSteps, Bridge!Spec, ClosedForGood, Bridge!ClosedForGood

(***************************************************************************)
(* The enum, with its special case for a single event, behaves as the      *)
(* abstract bridge that the models of the filters use.                     *)
(***************************************************************************)
THEOREM BridgeRefines == BridgeSteps => ImplementsBridge
<1>1. Bridge!Init => Bridge!Abstract!Init
  <2>1. Bridge!Init => (inner.kind = "Closed") = FALSE /\ inner.events = <<>>
    BY DEF Bridge!Init, Bridge!Empty
  <2>2. Bridge!Init => [closed |-> inner.kind = "Closed", events |-> inner.events]
                  = [closed |-> FALSE, events |-> <<>>]
    BY <2>1
  <2> QED
    BY <2>2 DEF Bridge!Init, Bridge!Abstract!Init, Bridge!Abstract!OpenBridge
<1>2. Bridge!TypeOK /\ [Bridge!Next]_(Bridge!vars)
        => [Bridge!Abstract!Next]_(Bridge!Abstract!vars)
  <2> SUFFICES ASSUME Bridge!TypeOK, [Bridge!Next]_(Bridge!vars)
               PROVE  [Bridge!Abstract!Next]_(Bridge!Abstract!vars)
    OBVIOUS
  <2> DEFINE E == inner.events
             b == [closed |-> inner.kind = "Closed", events |-> inner.events]
  <2>1. ASSUME NEW e \in Events, Bridge!Send(e) PROVE Bridge!Abstract!Send(e)
    <3>1. CASE inner.kind = "Closed"
      BY <2>1, <3>1 DEF Bridge!Send, Bridge!Abstract!Send, Bridge!Abstract!Sent
    <3>2. CASE inner.kind # "Closed"
      <4>1. inner' = Bridge!AfterSend(e) /\ UNCHANGED <<batch, handled>>
        BY <2>1, <3>2 DEF Bridge!Send
      <4>2. inner'.events = Append(E, e) /\ inner'.kind # "Closed"
        BY <3>2, <4>1, AfterSendFacts
      <4>3. b' = [closed |-> FALSE, events |-> Append(E, e)]
        BY <4>2
      <4>4. b = [closed |-> FALSE, events |-> E]
        BY <3>2
      <4>5. Bridge!Abstract!Sent(b, e) = [closed |-> FALSE, events |-> Append(E, e)]
        BY <4>4 DEF Bridge!Abstract!Sent
      <4> HIDE DEF b
      <4>6. b' = Bridge!Abstract!Sent(b, e) /\ UNCHANGED <<batch, handled>>
        BY <4>1, <4>3, <4>5
      <4> QED
        BY <4>6 DEF Bridge!Abstract!Send, b
    <3> QED
      BY <3>1, <3>2
  <2>2. ASSUME Bridge!Process PROVE Bridge!Abstract!Process
    <3>1. /\ inner'.events = <<>>
          /\ (inner'.kind = "Closed") = (inner.kind = "Closed")
      BY <2>2 DEF Bridge!Process, Bridge!Closed, Bridge!Empty
    <3>2. b' = [closed |-> inner.kind = "Closed", events |-> <<>>]
      BY <3>1
    <3>3. Bridge!Abstract!Drained(b)
            = [closed |-> inner.kind = "Closed", events |-> <<>>]
      BY DEF Bridge!Abstract!Drained
    <3>4. b' = Bridge!Abstract!Drained(b)
      BY <3>2, <3>3
    <3> QED
      BY <2>2, <3>4 DEF Bridge!Process, Bridge!Abstract!Process
  <2>3. ASSUME Bridge!Handle PROVE Bridge!Abstract!Handle
    <3>1. b' = b
      BY <2>3 DEF Bridge!Handle
    <3> QED
      BY <2>3, <3>1 DEF Bridge!Handle, Bridge!Abstract!Handle
  <2>4. ASSUME Bridge!Get PROVE Bridge!Abstract!Get
    <3>1. inner.kind # "Closed" /\ E # <<>>
      BY <2>4, AfterGetFacts DEF Bridge!Get
    <3>2. inner'.kind # "Closed" /\ inner'.events = Tail(E)
      BY <2>4, AfterGetFacts DEF Bridge!Get
    <3>3. b' = [closed |-> FALSE, events |-> Tail(E)]
      BY <3>2
    <3>4. Bridge!Abstract!Shifted(b) = [closed |-> FALSE, events |-> Tail(E)]
      BY <3>1 DEF Bridge!Abstract!Shifted
    <3>5. b' = Bridge!Abstract!Shifted(b)
      BY <3>3, <3>4
    <3> QED
      BY <2>4, <3>1, <3>5 DEF Bridge!Get, Bridge!Abstract!Get
  <2>5. ASSUME Bridge!Close PROVE Bridge!Abstract!Close
    <3>1. inner'.kind = "Closed" /\ inner'.events = <<>>
      BY <2>5 DEF Bridge!Close, Bridge!Closed
    <3>2. b' = [closed |-> TRUE, events |-> <<>>]
      BY <3>1
    <3> QED
      BY <2>5, <3>2
      DEF Bridge!Close, Bridge!Abstract!Close, Bridge!Abstract!ClosedBridge
  <2>6. CASE UNCHANGED Bridge!vars
    BY <2>6 DEF Bridge!vars, Bridge!Abstract!vars
  <2> QED
    BY <2>1, <2>2, <2>3, <2>4, <2>5, <2>6 DEF Bridge!Next, Bridge!Abstract!Next
<1> QED
  BY <1>1, <1>2, BridgeTypeCorrect, PTL
  DEF BridgeSteps, Bridge!Spec, ImplementsBridge, Bridge!ImplementsBridge,
      Bridge!Abstract!Spec

-----------------------------------------------------------------------------
(* The event loop: the places of a wake-up.  That no task is missed, that  *)
(* the loop is woken once and that other callbacks get their turn rest on  *)
(* the one path a wake-up takes (OnePath): from the thread that sends it,  *)
(* through the socket or the waker thread and the loop's ready callbacks,  *)
(* to the drainer that clears it.                                          *)

NoWakeup ==
  waking = {} /\ signals = 0 /\ Loop!Drains(ready) = {} /\ loopAt # "take"

WithThread ==
  /\ \E t \in Tasks : waking = {t}
  /\ signals = 0 /\ Loop!Drains(ready) = {} /\ loopAt # "take"

Signalled ==
  waking = {} /\ signals = 1 /\ Loop!Drains(ready) = {} /\ loopAt # "take"

\* While the drainer is ready the socket that made it ready still has its
\* byte, and then the drainer is called before the loop polls again.
DrainerReady ==
  /\ waking = {} /\ loopAt # "take"
  /\ \E k \in 1..Len(ready) :
       /\ Loop!Drains(ready) = {k}
       /\ \/ signals = 0
          \/ watches /\ signals = 1 /\ loopAt # "poll" /\ k <= round

Draining ==
  waking = {} /\ signals = 0 /\ Loop!Drains(ready) = {} /\ loopAt = "take"

OnePath ==
  IF wakePending
    THEN WithThread \/ Signalled \/ DrainerReady \/ Draining
    ELSE NoWakeup

PendingForTasks == tasks # <<>> => wakePending

\* The tasks that may run before the callback at p although they are not in the
\* batch that runs: those of a drain that has begun, or that comes before it.
Due(p) ==
  IF loopAt = "take" \/ (\E k \in Loop!Drains(ready) : k < p) THEN BatchSize ELSE 0

Turns ==
  /\ ~Loop!Contains(ready, "other") => overtaken = 0
  /\ \A p \in DOMAIN ready :
       ready[p] = "other" => overtaken + Len(taken) + Due(p) <= 2 * BatchSize

LoopInv == Loop!TypeOK /\ Loop!TasksInOrder /\ PendingForTasks /\ OnePath /\ Turns

-----------------------------------------------------------------------------
(* The batch that a drain takes.                                           *)

LEMMA MinOfTwo ==
  \A a, b \in Nat : Loop!Min({a, b}) = IF a <= b THEN a ELSE b
<1> SUFFICES ASSUME NEW a \in Nat, NEW b \in Nat
             PROVE  Loop!Min({a, b}) = IF a <= b THEN a ELSE b
  OBVIOUS
<1> DEFINE m == IF a <= b THEN a ELSE b
<1>1. m \in {a, b} /\ \A y \in {a, b} : m <= y
  OBVIOUS
<1>2. \A x \in {a, b} : (\A y \in {a, b} : x <= y) => x = m
  OBVIOUS
<1> QED
  BY <1>1, <1>2 DEF Loop!Min

\* Cutting a sequence after m elements loses none of them.
LEMMA CutFacts ==
  ASSUME NEW S, NEW s \in Seq(S), NEW m \in 0..Len(s)
  PROVE  /\ SubSeq(s, 1, m) \in Seq(S) /\ SubSeq(s, m + 1, Len(s)) \in Seq(S)
         /\ Len(SubSeq(s, 1, m)) = m
         /\ SubSeq(s, 1, m) \o SubSeq(s, m + 1, Len(s)) = s
<1>1. Len(s) \in Nat /\ \A i \in 1..Len(s) : s[i] \in S
  BY LenProperties, ElementOfSeq
<1>3. \A i \in (m + 1)..Len(s) : s[i] \in S
  BY <1>1
<1>4. 1 \in Int /\ m \in Int /\ m + 1 \in Int /\ Len(s) \in Int
  BY <1>1
<1>5. /\ SubSeq(s, 1, m) \in Seq(S)
      /\ Len(SubSeq(s, 1, m)) = m
  BY <1>1, SubSeqProperties
<1>6. SubSeq(s, m + 1, Len(s)) \in Seq(S)
  BY <1>3, <1>4, SubSeqProperties
<1>7. /\ 1 \in 1..(Len(s) + 1) /\ m \in (1 - 1)..Len(s)
      /\ Len(s) \in m..Len(s)
  BY <1>1
<1>8. SubSeq(s, 1, m) \o SubSeq(s, m + 1, Len(s)) = SubSeq(s, 1, Len(s))
  BY <1>7, ConcatAdjacentSubSeq
<1> QED
  BY <1>5, <1>6, <1>8, SubSeqFull

\* A drain splits the queue into what it takes and what it leaves.
LEMMA BatchFacts ==
  ASSUME Loop!TypeOK
  PROVE  /\ Loop!NextBatch \in Seq(Tasks) /\ Loop!Remaining \in Seq(Tasks)
         /\ Len(Loop!NextBatch) <= BatchSize
         /\ Loop!NextBatch \o Loop!Remaining = tasks
         /\ Len(tasks) <= BatchSize => Loop!Remaining = <<>>
         /\ Len(tasks) \in Nat /\ BatchSize \in Nat
<1>1. tasks \in Seq(Tasks) /\ Len(tasks) \in Nat /\ BatchSize \in Nat \ {0}
  BY BatchSizeAssumption, LenProperties DEF Loop!TypeOK
<1>2. Len(tasks) <= BatchSize => Loop!Remaining = <<>>
  BY <1>1, SubSeqEmpty DEF Loop!Remaining
<1>3. CASE BatchSize <= Len(tasks)
  <2>1. Loop!Min({BatchSize, Len(tasks)}) = BatchSize
    BY <1>1, <1>3, MinOfTwo
  <2>2. BatchSize \in 0..Len(tasks)
    BY <1>1, <1>3
  <2>3. /\ Loop!NextBatch \in Seq(Tasks) /\ Loop!Remaining \in Seq(Tasks)
        /\ Len(Loop!NextBatch) = BatchSize
        /\ Loop!NextBatch \o Loop!Remaining = tasks
    BY <1>1, <2>1, <2>2, CutFacts DEF Loop!NextBatch, Loop!Remaining
  <2> QED
    BY <1>1, <1>2, <2>3
<1>4. CASE Len(tasks) < BatchSize
  <2>1. Loop!Min({BatchSize, Len(tasks)}) = Len(tasks)
    BY <1>1, <1>4, MinOfTwo
  <2>2. Loop!NextBatch = tasks
    BY <1>1, <2>1, SubSeqFull DEF Loop!NextBatch
  <2>3. Loop!Remaining = <<>>
    BY <1>1, <1>2, <1>4
  <2>4. tasks \o <<>> = tasks /\ <<>> \in Seq(Tasks)
    BY <1>1, ConcatEmptySeq, EmptySeq
  <2>5. Len(tasks) <= BatchSize
    BY <1>1, <1>4
  <2> QED
    BY <1>1, <2>2, <2>3, <2>4, <2>5
<1>5. BatchSize <= Len(tasks) \/ Len(tasks) < BatchSize
  BY <1>1
<1> QED
  BY <1>3, <1>4, <1>5

\* A sequence is its first element and the rest.
LEMMA HeadAndTail ==
  ASSUME NEW S, NEW s \in Seq(S), s # <<>>
  PROVE  s = <<Head(s)>> \o Tail(s)
<1>1. /\ Head(s) = s[1] /\ Tail(s) = SubSeq(s, 2, Len(s))
      /\ Len(s) \in Nat \ {0}
  BY TailFacts, TailIsSubSeq
<1>2. SubSeq(s, 1, Len(s)) = <<s[1]>> \o SubSeq(s, 1 + 1, Len(s))
  BY <1>1, SubSeqRecursiveFirst
<1> QED
  BY <1>1, <1>2, SubSeqFull

-----------------------------------------------------------------------------
(* Where the drainer is among the ready callbacks.                         *)

LEMMA DrainsAfterAppend ==
  ASSUME NEW r \in Seq(Loop!Callbacks)
  PROVE  /\ Loop!Drains(Append(r, "drain")) = Loop!Drains(r) \cup {Len(r) + 1}
         /\ Loop!Drains(Append(r, "other")) = Loop!Drains(r)
         /\ Len(r) \in Nat /\ DOMAIN r = 1..Len(r)
<1>1. /\ Len(r) \in Nat /\ DOMAIN r = 1..Len(r)
      /\ \A c \in Loop!Callbacks :
           /\ DOMAIN Append(r, c) = 1..(Len(r) + 1)
           /\ \A k \in 1..Len(r) : Append(r, c)[k] = r[k]
           /\ Append(r, c)[Len(r) + 1] = c
  BY AppendFacts
<1> QED
  BY <1>1 DEF Loop!Drains, Loop!Callbacks

LEMMA DrainsAfterTail ==
  ASSUME NEW r \in Seq(Loop!Callbacks), r # <<>>
  PROVE  /\ Head(r) = "drain" => 1 \in Loop!Drains(r)
         /\ Head(r) = "other" => 1 \notin Loop!Drains(r)
         /\ \A k \in 1..(Len(r) - 1) :
              k \in Loop!Drains(Tail(r)) <=> k + 1 \in Loop!Drains(r)
         /\ Loop!Drains(Tail(r)) \subseteq 1..(Len(r) - 1)
         /\ Loop!Drains(r) \subseteq 1..Len(r)
         /\ Len(r) \in Nat \ {0}
  BY TailFacts DEF Loop!Drains, Loop!Callbacks

-----------------------------------------------------------------------------
(* Type correctness.                                                       *)

LEMMA LoopTypeOKInit == Loop!Init => Loop!TypeOK
<1> SUFFICES ASSUME Loop!Init PROVE Loop!TypeOK
  OBVIOUS
<1>1. <<>> \in Seq(Tasks) /\ <<>> \in Seq(Loop!Callbacks)
  OBVIOUS
<1>2. Len(<<>>) = 0 /\ BatchSize >= 0
  BY EmptySeq, BatchSizeAssumption
<1>3. round \in 0..Len(ready) /\ Len(taken) <= BatchSize
  BY <1>2 DEF Loop!Init
<1> QED
  BY <1>1, <1>3 DEF Loop!Init, Loop!TypeOK

LEMMA LoopTypeOKNext == Loop!TypeOK /\ [Loop!Next]_(Loop!vars) => Loop!TypeOK'
<1> SUFFICES ASSUME Loop!TypeOK, [Loop!Next]_(Loop!vars) PROVE Loop!TypeOK'
  OBVIOUS
<1> USE DEF Loop!TypeOK
<1>0. \A c \in Loop!Callbacks : /\ Append(ready, c) \in Seq(Loop!Callbacks)
                           /\ Len(Append(ready, c)) = Len(ready) + 1
                           /\ Len(ready) \in Nat
  BY AppendFacts
<1>1. ASSUME NEW t \in Tasks, Loop!Dispatch(t) PROVE Loop!TypeOK'
  BY <1>1, AppendFacts DEF Loop!Dispatch
<1>2. ASSUME NEW t \in Tasks, Loop!Wake(t) PROVE Loop!TypeOK'
  BY <1>2 DEF Loop!Wake
<1>3. ASSUME Loop!WakerThread PROVE Loop!TypeOK'
  BY <1>0, <1>3 DEF Loop!WakerThread, Loop!Callbacks
<1>4. ASSUME Loop!OtherReady PROVE Loop!TypeOK'
  BY <1>0, <1>4 DEF Loop!OtherReady, Loop!Callbacks
<1>5. ASSUME Loop!Poll PROVE Loop!TypeOK'
  BY <1>0, <1>5 DEF Loop!Poll, Loop!Callbacks
<1>6. ASSUME Loop!RoundEnds PROVE Loop!TypeOK'
  BY <1>6 DEF Loop!RoundEnds
<1>7. ASSUME ready # <<>>
      PROVE  /\ Tail(ready) \in Seq(Loop!Callbacks)
             /\ Len(Tail(ready)) = Len(ready) - 1
             /\ Len(ready) \in Nat \ {0}
  BY <1>7, TailFacts
<1>8. round > 0 => ready # <<>>
  BY EmptySeq
<1>9. ASSUME Loop!RunOther PROVE Loop!TypeOK'
  BY <1>7, <1>8, <1>9 DEF Loop!RunOther
<1>10. ASSUME Loop!ClearWakeup PROVE Loop!TypeOK'
  BY <1>7, <1>8, <1>10 DEF Loop!ClearWakeup
<1>11. ASSUME Loop!TakeBatch PROVE Loop!TypeOK'
  <2>1. /\ tasks' \in Seq(Tasks) /\ taken' \in Seq(Tasks)
        /\ Len(taken') <= BatchSize
    BY <1>11, BatchFacts DEF Loop!TakeBatch
  <2>2. /\ ready' \in Seq(Loop!Callbacks) /\ round' \in 0..Len(ready')
        /\ wakePending' \in BOOLEAN
    <3>1. CASE Len(tasks) > BatchSize
      <4>1. ready' = Append(ready, "drain") /\ round' = round
            /\ wakePending' = wakePending
        BY <1>11, <3>1 DEF Loop!TakeBatch
      <4>2. "drain" \in Loop!Callbacks
        BY DEF Loop!Callbacks
      <4> QED
        BY <1>0, <4>1, <4>2
    <3>2. CASE ~(Len(tasks) > BatchSize)
      BY <1>11, <3>2 DEF Loop!TakeBatch
    <3> QED
      BY <3>1, <3>2
  <2> QED
    BY <1>11, <2>1, <2>2 DEF Loop!TakeBatch
<1>12. ASSUME Loop!RunTask PROVE Loop!TypeOK'
  <2>1. /\ Head(taken) \in Tasks /\ Tail(taken) \in Seq(Tasks)
        /\ Len(Tail(taken)) = Len(taken) - 1 /\ Len(taken) \in Nat
    BY <1>12, TailFacts DEF Loop!RunTask
  <2>2. ran' \in Seq(Tasks)
    BY <1>12, <2>1, AppendFacts DEF Loop!RunTask
  <2>3. taken' \in Seq(Tasks) /\ Len(taken') <= BatchSize
    BY <1>12, <2>1, BatchSizeAssumption DEF Loop!RunTask
  <2> QED
    BY <1>12, <2>2, <2>3 DEF Loop!RunTask
<1>13. ASSUME Loop!DrainEnds PROVE Loop!TypeOK'
  BY <1>13 DEF Loop!DrainEnds
<1>14. ASSUME UNCHANGED Loop!vars PROVE Loop!TypeOK'
  BY <1>14 DEF Loop!vars
<1> QED
  BY <1>1, <1>2, <1>3, <1>4, <1>5, <1>6, <1>9, <1>10, <1>11, <1>12, <1>13, <1>14
  DEF Loop!Next, Loop!LoopStep

-----------------------------------------------------------------------------
(* The order of the tasks.                                                 *)

\* ConcatAssociative, for sequences of tasks.
LEMMA TasksAssociate ==
  ASSUME NEW s \in Seq(Tasks), NEW t \in Seq(Tasks), NEW u \in Seq(Tasks)
  PROVE  (s \o t) \o u = s \o (t \o u)
  BY ConcatAssociative

LEMMA TasksInOrderNext ==
  Loop!TypeOK /\ Loop!TasksInOrder /\ [Loop!Next]_(Loop!vars) => Loop!TasksInOrder'
<1> SUFFICES ASSUME Loop!TypeOK, Loop!TasksInOrder, [Loop!Next]_(Loop!vars)
             PROVE  Loop!TasksInOrder'
  OBVIOUS
<1> USE DEF Loop!TasksInOrder
<1>0. /\ ran \in Seq(Tasks) /\ taken \in Seq(Tasks) /\ tasks \in Seq(Tasks)
      /\ taken \o tasks \in Seq(Tasks)
  BY ConcatProperties DEF Loop!TypeOK
<1>1. ASSUME NEW t \in Tasks, Loop!Dispatch(t) PROVE Loop!TasksInOrder'
  <2>1. <<t>> \in Seq(Tasks)
    OBVIOUS
  <2>2. /\ Append(tasks, t) = tasks \o <<t>>
        /\ Append(ran \o (taken \o tasks), t) = (ran \o (taken \o tasks)) \o <<t>>
    BY <1>0, AppendIsConcat, ConcatProperties
  <2>3. (ran \o (taken \o tasks)) \o <<t>> = ran \o (taken \o (tasks \o <<t>>))
    <3> DEFINE x == <<t>>
               rest == taken \o tasks
    <3>1. ran \in Seq(Tasks) /\ rest \in Seq(Tasks) /\ x \in Seq(Tasks)
      BY <1>0, <2>1
    <3> HIDE DEF x
    <3>2. rest \o x = taken \o (tasks \o x)
      BY ZenonT(60), <1>0, <3>1, TasksAssociate
    <3> HIDE DEF rest
    <3>3. (ran \o rest) \o x = ran \o (rest \o x)
      BY <3>1, TasksAssociate
    <3>4. (ran \o rest) \o x = ran \o (taken \o (tasks \o x))
      BY <3>2, <3>3
    <3> QED
      BY <3>4 DEF rest, x
  <2> QED
    BY <1>1, <2>2, <2>3 DEF Loop!Dispatch
<1>2. ASSUME Loop!TakeBatch PROVE Loop!TasksInOrder'
  <2>1. taken = <<>>
    BY <1>2 DEF Loop!TypeOK, Loop!TakeBatch
  <2>2. taken \o tasks = tasks /\ Loop!NextBatch \o Loop!Remaining = tasks
    BY <1>0, <2>1, ConcatEmptySeq, BatchFacts
  <2> QED
    BY <1>2, <2>2 DEF Loop!TakeBatch
<1>3. ASSUME Loop!RunTask PROVE Loop!TasksInOrder'
  <2>1. /\ Head(taken) \in Tasks /\ Tail(taken) \in Seq(Tasks)
        /\ <<Head(taken)>> \in Seq(Tasks)
    BY <1>0, <1>3, TailFacts DEF Loop!RunTask
  <2>2. taken = <<Head(taken)>> \o Tail(taken)
    BY <1>0, <1>3, HeadAndTail DEF Loop!RunTask
  <2>3. Append(ran, Head(taken)) = ran \o <<Head(taken)>>
    BY <1>0, <2>1, AppendIsConcat
  <2>4. (ran \o <<Head(taken)>>) \o (Tail(taken) \o tasks)
          = ran \o ((<<Head(taken)>> \o Tail(taken)) \o tasks)
    <3> DEFINE h == <<Head(taken)>>
               l == Tail(taken)
               rest == l \o tasks
    <3>1. ran \in Seq(Tasks) /\ h \in Seq(Tasks) /\ rest \in Seq(Tasks)
      BY <1>0, <2>1, ConcatProperties
    <3>2. h \in Seq(Tasks) /\ l \in Seq(Tasks) /\ tasks \in Seq(Tasks)
      BY <1>0, <2>1
    <3> HIDE DEF h, l
    <3>3. (h \o l) \o tasks = h \o rest
      BY <3>2, TasksAssociate
    <3> HIDE DEF rest
    <3>4. (ran \o h) \o rest = ran \o (h \o rest)
      BY <3>1, TasksAssociate
    <3>5. (ran \o h) \o rest = ran \o ((h \o l) \o tasks)
      BY <3>3, <3>4
    <3> QED
      BY <3>5 DEF h, l, rest
  <2> QED
    BY <1>3, <2>2, <2>3, <2>4 DEF Loop!RunTask
<1>4. ASSUME UNCHANGED <<ran, taken, tasks, dispatched>> PROVE Loop!TasksInOrder'
  BY <1>4
<1> QED
  BY <1>1, <1>2, <1>3, <1>4
  DEF Loop!Next, Loop!LoopStep, Loop!Wake, Loop!WakerThread, Loop!OtherReady,
      Loop!Poll, Loop!RoundEnds, Loop!RunOther,
      Loop!ClearWakeup, Loop!DrainEnds, Loop!vars

LEMMA PendingForTasksNext ==
  Loop!TypeOK /\ PendingForTasks /\ [Loop!Next]_(Loop!vars) => PendingForTasks'
<1> SUFFICES ASSUME Loop!TypeOK, PendingForTasks, [Loop!Next]_(Loop!vars)
             PROVE  PendingForTasks'
  OBVIOUS
<1>1. ASSUME Loop!TakeBatch PROVE PendingForTasks'
  <2>1. CASE Len(tasks) > BatchSize
    <3>1. tasks # <<>>
      <4>1. Len(<<>>) = 0
        BY EmptySeq
      <4> QED
        BY <2>1, <4>1, BatchFacts
    <3> QED
      BY <1>1, <2>1, <3>1 DEF Loop!TakeBatch, PendingForTasks
  <2>2. CASE ~(Len(tasks) > BatchSize)
    <3>1. tasks' = <<>>
      BY <1>1, <2>2, BatchFacts DEF Loop!TakeBatch
    <3> QED
      BY <3>1 DEF PendingForTasks
  <2> QED
    BY <2>1, <2>2
<1>2. ASSUME NEW t \in Tasks, Loop!Dispatch(t) PROVE PendingForTasks'
  BY <1>2 DEF Loop!Dispatch, PendingForTasks
<1>3. ASSUME UNCHANGED <<tasks, wakePending>> PROVE PendingForTasks'
  BY <1>3 DEF PendingForTasks
<1> QED
  BY <1>1, <1>2, <1>3
  DEF Loop!Next, Loop!LoopStep, Loop!Wake, Loop!WakerThread, Loop!OtherReady,
      Loop!Poll, Loop!RoundEnds, Loop!RunOther,
      Loop!ClearWakeup, Loop!RunTask, Loop!DrainEnds, Loop!vars

-----------------------------------------------------------------------------
(* The path of a wake-up.                                                  *)

LEMMA OnePathNext == Loop!TypeOK /\ OnePath /\ [Loop!Next]_(Loop!vars) => OnePath'
<1> SUFFICES ASSUME Loop!TypeOK, OnePath, [Loop!Next]_(Loop!vars) PROVE OnePath'
  OBVIOUS
<1>0. /\ ready \in Seq(Loop!Callbacks) /\ round \in 0..Len(ready)
      /\ wakePending \in BOOLEAN /\ watches \in BOOLEAN
      /\ Len(ready) \in Nat /\ DOMAIN ready = 1..Len(ready)
      /\ Loop!Drains(Append(ready, "drain")) = Loop!Drains(ready) \cup {Len(ready) + 1}
      /\ Loop!Drains(Append(ready, "other")) = Loop!Drains(ready)
      /\ Len(Append(ready, "drain")) = Len(ready) + 1
      /\ Len(Append(ready, "other")) = Len(ready) + 1
  BY DrainsAfterAppend, AppendFacts DEF Loop!TypeOK, Loop!Callbacks
<1> USE DEF OnePath, NoWakeup, WithThread, Signalled, DrainerReady, Draining
<1>1. ASSUME NEW t \in Tasks, Loop!Dispatch(t) PROVE OnePath'
  <2>1. CASE wakePending
    BY <1>1, <2>1 DEF Loop!Dispatch
  <2>2. CASE ~wakePending
    BY <1>1, <2>2 DEF Loop!Dispatch
  <2> QED
    BY <2>1, <2>2
<1>2. ASSUME NEW t \in Tasks, Loop!Wake(t) PROVE OnePath'
  <2>1. wakePending /\ WithThread
    BY <1>2 DEF Loop!Wake
  <2> QED
    BY <1>2, <2>1 DEF Loop!Wake
<1>3. ASSUME Loop!WakerThread PROVE OnePath'
  <2>1. wakePending /\ Signalled
    BY <1>0, <1>3 DEF Loop!WakerThread
  <2>2. ready' = Append(ready, "drain") /\ signals' = 0
    BY <1>3, <2>1 DEF Loop!WakerThread
  <2>3. Loop!Drains(ready') = {Len(ready) + 1} /\ Len(ready) + 1 \in 1..Len(ready')
    BY <1>0, <2>1, <2>2
  <2>4. DrainerReady'
    BY <1>3, <2>1, <2>2, <2>3 DEF Loop!WakerThread
  <2> QED
    BY <1>3, <2>1, <2>4 DEF Loop!WakerThread
<1>4. ASSUME Loop!OtherReady PROVE OnePath'
  <2>1. /\ Loop!Drains(ready') = Loop!Drains(ready) /\ Len(ready') = Len(ready) + 1
        /\ UNCHANGED <<waking, signals, loopAt, wakePending, watches, round>>
    BY <1>0, <1>4 DEF Loop!OtherReady
  <2>2. CASE DrainerReady
    <3>1. DrainerReady'
      BY <1>0, <2>1, <2>2
    <3> QED
      BY <2>1, <2>2, <3>1
  <2>3. CASE ~DrainerReady
    BY <2>1, <2>3
  <2> QED
    BY <2>2, <2>3
<1>5. ASSUME Loop!Poll PROVE OnePath'
  <2>1. CASE watches /\ signals > 0
    <3>1. wakePending /\ Signalled
      BY <1>0, <1>5, <2>1 DEF Loop!Poll
    <3>2. ready' = Append(ready, "drain") /\ round' = Len(ready')
      BY <1>5, <2>1 DEF Loop!Poll
    <3>3. Loop!Drains(ready') = {round'} /\ round' \in 1..Len(ready')
      BY <1>0, <3>1, <3>2
    <3>4. DrainerReady'
      BY <1>0, <1>5, <2>1, <3>1, <3>3 DEF Loop!Poll
    <3> QED
      BY <1>5, <3>1, <3>4 DEF Loop!Poll
  <2>2. CASE ~(watches /\ signals > 0)
    <3>1. ready' = ready /\ loopAt = "poll" /\ loopAt' = "round"
          /\ UNCHANGED <<waking, signals, wakePending, watches>>
      BY <1>5, <2>2 DEF Loop!Poll
    <3> QED
      BY <3>1
  <2> QED
    BY <2>1, <2>2
<1>6. ASSUME Loop!RoundEnds PROVE OnePath'
  <2>1. /\ loopAt = "round" /\ loopAt' = "poll" /\ round = 0
        /\ UNCHANGED <<waking, signals, wakePending, watches, ready, round>>
    BY <1>6 DEF Loop!RoundEnds
  <2> QED
    BY <1>0, <2>1
<1>7. ASSUME loopAt = "round", round > 0
      PROVE  /\ ready # <<>> /\ Len(ready) \in Nat \ {0}
             /\ Len(Tail(ready)) = Len(ready) - 1
             /\ Head(ready) = "drain" => 1 \in Loop!Drains(ready)
             /\ Head(ready) = "other" => 1 \notin Loop!Drains(ready)
             /\ \A k \in 1..(Len(ready) - 1) :
                  k \in Loop!Drains(Tail(ready)) <=> k + 1 \in Loop!Drains(ready)
             /\ Loop!Drains(Tail(ready)) \subseteq 1..(Len(ready) - 1)
  <2>1. ready # <<>>
    BY <1>0, <1>7, EmptySeq
  <2> QED
    BY <1>0, <2>1, DrainsAfterTail, TailFacts
<1>8. ASSUME Loop!RunOther PROVE OnePath'
  <2>1. /\ ready' = Tail(ready) /\ round' = round - 1 /\ loopAt = "round"
        /\ 1 \notin Loop!Drains(ready)
        /\ UNCHANGED <<waking, signals, wakePending, watches, loopAt>>
    BY <1>7, <1>8 DEF Loop!RunOther
  <2>2. round > 0
    BY <1>8 DEF Loop!RunOther
  <2>3. ASSUME NEW k \in 1..Len(ready), Loop!Drains(ready) = {k}
        PROVE  Loop!Drains(ready') = {k - 1} /\ k - 1 \in 1..Len(ready')
    <3>1. k # 1
      BY <2>1, <2>3
    <3>2. k - 1 \in 1..(Len(ready) - 1)
      BY <1>0, <3>1
    <3>3. \A j \in 1..(Len(ready) - 1) : j + 1 = k <=> j = k - 1
      OBVIOUS
    <3>4. \A j \in 1..(Len(ready) - 1) : j \in Loop!Drains(ready') <=> j = k - 1
      BY <1>7, <2>1, <2>2, <2>3, <3>3
    <3>5. Loop!Drains(ready') \subseteq 1..(Len(ready) - 1)
      BY <1>7, <2>1, <2>2
    <3> QED
      BY <1>7, <2>1, <2>2, <3>2, <3>4, <3>5
  <2>4. Loop!Drains(ready) = {} => Loop!Drains(ready') = {}
    BY <1>7, <2>1, <2>2
  <2>5. CASE DrainerReady
    <3>1. PICK k \in 1..Len(ready) :
            /\ Loop!Drains(ready) = {k}
            /\ \/ signals = 0
               \/ watches /\ signals = 1 /\ loopAt # "poll" /\ k <= round
      BY <2>5
    <3>2. Loop!Drains(ready') = {k - 1} /\ k - 1 \in 1..Len(ready')
      BY <2>3, <3>1
    <3>3. k <= round => k - 1 <= round'
      BY <1>0, <2>1
    <3>4. DrainerReady'
      BY <2>1, <2>5, <3>1, <3>2, <3>3
    <3>5. wakePending
      BY <2>5, <3>1
    <3> QED
      BY <2>1, <3>4, <3>5
  <2>6. CASE ~DrainerReady
    BY <2>1, <2>4, <2>6
  <2> QED
    BY <2>5, <2>6
<1>9. ASSUME Loop!ClearWakeup PROVE OnePath'
  <2>1. /\ ready' = Tail(ready) /\ loopAt = "round" /\ loopAt' = "take" /\ round > 0
        /\ Head(ready) = "drain"
        /\ signals' = IF watches THEN 0 ELSE signals
        /\ UNCHANGED <<waking, wakePending>>
    BY <1>9 DEF Loop!ClearWakeup
  <2>2. 1 \in Loop!Drains(ready)
    BY <1>7, <2>1
  <2>3. wakePending /\ DrainerReady /\ Loop!Drains(ready) = {1}
    BY <1>0, <2>1, <2>2
  <2>4. Loop!Drains(ready') = {}
    <3>1. \A j \in 1..(Len(ready) - 1) : j + 1 # 1
      OBVIOUS
    <3>2. \A j \in 1..(Len(ready) - 1) : j \notin Loop!Drains(ready')
      BY <1>7, <2>1, <2>3, <3>1
    <3> QED
      BY <1>7, <2>1, <3>2
  <2>5. signals' = 0
    BY <1>0, <2>1, <2>3
  <2> QED
    BY <2>1, <2>3, <2>4, <2>5
<1>10. ASSUME Loop!TakeBatch PROVE OnePath'
  <2>1. wakePending /\ Draining
    BY <1>0, <1>10 DEF Loop!TakeBatch
  <2>2. CASE Len(tasks) > BatchSize
    <3>1. /\ ready' = Append(ready, "drain") /\ loopAt' = "tasks"
          /\ UNCHANGED <<waking, signals, wakePending>>
      BY <1>10, <2>2 DEF Loop!TakeBatch
    <3>2. Loop!Drains(ready') = {Len(ready) + 1} /\ Len(ready) + 1 \in 1..Len(ready')
      BY <1>0, <2>1, <3>1
    <3>3. DrainerReady'
      BY <2>1, <3>1, <3>2
    <3> QED
      BY <2>1, <3>1, <3>3
  <2>3. CASE ~(Len(tasks) > BatchSize)
    BY <1>10, <2>1, <2>3 DEF Loop!TakeBatch
  <2> QED
    BY <2>2, <2>3
<1>11. ASSUME Loop!RunTask \/ Loop!DrainEnds PROVE OnePath'
  <2>1. /\ loopAt = "tasks" /\ loopAt' \in {"tasks", "round"}
        /\ UNCHANGED <<waking, signals, wakePending, watches, ready, round>>
    BY <1>11 DEF Loop!RunTask, Loop!DrainEnds
  <2> QED
    BY <2>1
<1>12. ASSUME UNCHANGED Loop!vars PROVE OnePath'
  BY <1>12 DEF Loop!vars
<1> QED
  BY <1>1, <1>2, <1>3, <1>4, <1>5, <1>6, <1>8, <1>9, <1>10, <1>11, <1>12
  DEF Loop!Next, Loop!LoopStep

-----------------------------------------------------------------------------
(* The turns of the other callbacks.                                       *)

LEMMA TurnsNext == Loop!TypeOK /\ OnePath /\ Turns /\ [Loop!Next]_(Loop!vars) => Turns'
<1> SUFFICES ASSUME Loop!TypeOK, OnePath, Turns, [Loop!Next]_(Loop!vars) PROVE Turns'
  OBVIOUS
<1>0. /\ ready \in Seq(Loop!Callbacks) /\ Len(ready) \in Nat /\ DOMAIN ready = 1..Len(ready)
      /\ BatchSize \in Nat /\ overtaken \in Nat /\ Len(taken) \in Nat
      /\ Len(taken) <= BatchSize /\ (loopAt # "tasks" => Len(taken) = 0)
      /\ round \in 0..Len(ready)
  BY BatchSizeAssumption, LenProperties, EmptySeq DEF Loop!TypeOK
<1>1. /\ Loop!Contains(ready, "other") <=> \E p \in DOMAIN ready : ready[p] = "other"
      /\ Loop!Contains(ready, "other")' <=> \E p \in DOMAIN ready' : ready'[p] = "other"
  <2>1. ready' \in Seq(Loop!Callbacks)
    BY LoopTypeOKNext DEF Loop!TypeOK
  <2> QED
    BY <1>0, <2>1, LenProperties DEF Loop!Contains
<1>2. \A c \in Loop!Callbacks :
        /\ DOMAIN Append(ready, c) = 1..(Len(ready) + 1)
        /\ \A k \in 1..Len(ready) : Append(ready, c)[k] = ready[k]
        /\ Append(ready, c)[Len(ready) + 1] = c
  BY <1>0, AppendFacts
<1>3. ASSUME ready' = ready \/ ready' = Append(ready, "drain")
      PROVE  /\ \A p \in DOMAIN ready' :
                  ready'[p] = "other" =>
                    /\ p \in DOMAIN ready /\ ready[p] = "other"
                    /\ \A k \in Loop!Drains(ready') : k < p => k \in Loop!Drains(ready)
             /\ Loop!Contains(ready, "other") => Loop!Contains(ready, "other")'
  <2>1. "drain" \in Loop!Callbacks
    BY DEF Loop!Callbacks
  <2>2. CASE ready' = ready
    BY <1>1, <2>2 DEF Loop!Drains
  <2>3. CASE ready' = Append(ready, "drain")
    <3>1. \A p \in DOMAIN ready' : ready'[p] = "other" => p \in 1..Len(ready)
      BY <1>0, <1>2, <2>1, <2>3
    <3>2. \A k \in 1..Len(ready) : k \in DOMAIN ready' /\ ready'[k] = ready[k]
      BY <1>0, <1>2, <2>1, <2>3
    <3>3. \A p \in 1..Len(ready) : \A k \in Loop!Drains(ready') : k < p => k \in 1..Len(ready)
      BY <1>0, <1>2, <2>1, <2>3 DEF Loop!Drains
    <3>4. Loop!Contains(ready, "other") => Loop!Contains(ready, "other")'
      BY <1>0, <1>1, <3>2
    <3> QED
      BY <1>0, <3>1, <3>2, <3>3, <3>4 DEF Loop!Drains
  <2> QED
    BY <1>3, <2>2, <2>3
\* Nothing but a drain makes it wait longer.
<1>4. ASSUME ready' = ready \/ ready' = Append(ready, "drain"),
             overtaken' = overtaken, taken' = taken, loopAt' # "take"
      PROVE  Turns'
  <2>1. \A p : Due(p) \in {0, BatchSize} /\ Due(p)' \in {0, BatchSize}
    BY DEF Due
  <2>2. ASSUME NEW p \in DOMAIN ready', ready'[p] = "other"
        PROVE  (overtaken + Len(taken) + Due(p) <= 2 * BatchSize)'
    <3>1. /\ p \in DOMAIN ready /\ ready[p] = "other"
          /\ Due(p)' = BatchSize => Due(p) = BatchSize \/ BatchSize = 0
      BY <1>3, <1>4, <2>2 DEF Due
    <3>2. overtaken + Len(taken) + Due(p) <= 2 * BatchSize
      BY <3>1 DEF Turns
    <3>3. Due(p)' = Due(p) \/ Due(p)' = 0
      BY <2>1, <3>1
    <3> QED
      BY <1>0, <1>4, <2>1, <3>2, <3>3
  <2>3. (~Loop!Contains(ready, "other") => overtaken = 0)'
    BY <1>3, <1>4 DEF Turns
  <2> QED
    BY <2>2, <2>3 DEF Turns
\* A callback that becomes ready, or one that has run, leaves room for the batch
\* that runs and for one drain.
<1>5. ASSUME overtaken' = 0, taken' = taken PROVE Turns'
  <2>1. \A p : Due(p)' \in {0, BatchSize}
    BY DEF Due
  <2>2. \A p : (overtaken + Len(taken) + Due(p) <= 2 * BatchSize)'
    BY <1>0, <1>5, <2>1
  <2> QED
    BY <1>5, <2>2 DEF Turns
<1>6. ASSUME NEW t \in Tasks, Loop!Dispatch(t) \/ Loop!Wake(t) PROVE Turns'
  BY <1>6 DEF Loop!Dispatch, Loop!Wake, Turns, Due
<1>7. ASSUME Loop!WakerThread PROVE Turns'
  <2>1. NoWakeup \/ WithThread \/ Signalled \/ DrainerReady \/ Draining
    BY DEF OnePath
  <2>2. loopAt # "take"
    BY <1>7, <2>1
    DEF Loop!WakerThread, NoWakeup, WithThread, Signalled, DrainerReady, Draining
  <2> QED
    BY <1>4, <1>7, <2>2 DEF Loop!WakerThread
<1>8. ASSUME Loop!OtherReady \/ Loop!RunOther PROVE Turns'
  BY <1>5, <1>8 DEF Loop!OtherReady, Loop!RunOther
<1>9. ASSUME Loop!Poll \/ Loop!RoundEnds \/ Loop!DrainEnds PROVE Turns'
  BY <1>4, <1>9 DEF Loop!Poll, Loop!RoundEnds, Loop!DrainEnds
<1>10. ASSUME Loop!ClearWakeup PROVE Turns'
  <2>1. /\ ready # <<>> /\ ready' = Tail(ready) /\ Head(ready) = "drain"
        /\ loopAt = "round" /\ loopAt' = "take" /\ overtaken' = overtaken /\ taken' = taken
    BY <1>0, <1>10, EmptySeq DEF Loop!ClearWakeup
  <2>2. /\ DOMAIN ready' = 1..(Len(ready) - 1)
        /\ \A k \in 1..(Len(ready) - 1) : ready'[k] = ready[k + 1]
        /\ ready[1] = "drain" /\ Len(ready) \in Nat \ {0}
    BY <1>0, <2>1, TailFacts
  <2>3. ASSUME NEW p \in DOMAIN ready', ready'[p] = "other"
        PROVE  (overtaken + Len(taken) + Due(p) <= 2 * BatchSize)'
    <3>1. p + 1 \in DOMAIN ready /\ ready[p + 1] = "other" /\ 1 < p + 1
      BY <1>0, <2>2, <2>3
    <3>2. 1 \in Loop!Drains(ready)
      BY <1>0, <2>2 DEF Loop!Drains
    <3>3. Due(p + 1) = BatchSize
      BY <3>1, <3>2 DEF Due
    <3>4. Due(p)' = BatchSize
      BY <2>1 DEF Due
    <3>5. overtaken + Len(taken) + Due(p + 1) <= 2 * BatchSize
      BY <3>1 DEF Turns
    <3> QED
      BY <2>1, <3>3, <3>4, <3>5
  <2>4. (~Loop!Contains(ready, "other") => overtaken = 0)'
    <3>1. ASSUME Loop!Contains(ready, "other") PROVE Loop!Contains(ready, "other")'
      <4>1. PICK p \in DOMAIN ready : ready[p] = "other"
        BY <1>1, <3>1
      <4>2. p # 1
        BY <2>2, <4>1
      <4>3. p - 1 \in DOMAIN ready' /\ (p - 1) + 1 = p
        BY <1>0, <2>2, <4>2
      <4>4. ready'[p - 1] = "other"
        BY <2>2, <4>1, <4>3
      <4> QED
        BY <1>1, <4>3, <4>4
    <3> QED
      BY <2>1, <3>1 DEF Turns
  <2> QED
    BY <2>3, <2>4 DEF Turns
<1>11. ASSUME Loop!TakeBatch PROVE Turns'
  <2>1. /\ loopAt = "take" /\ loopAt' = "tasks" /\ overtaken' = overtaken
        /\ taken' = Loop!NextBatch
        /\ ready' = ready \/ ready' = Append(ready, "drain")
    BY <1>11 DEF Loop!TakeBatch
  <2>2. Len(taken') \in Nat /\ Len(taken') <= BatchSize
    BY <2>1, BatchFacts, LenProperties
  <2>3. Loop!Drains(ready) = {}
    BY <2>1 DEF OnePath, NoWakeup, WithThread, Signalled, DrainerReady, Draining
  <2>4. ASSUME NEW p \in DOMAIN ready', ready'[p] = "other"
        PROVE  (overtaken + Len(taken) + Due(p) <= 2 * BatchSize)'
    <3>1. p \in DOMAIN ready /\ ready[p] = "other"
      BY <1>3, <2>1, <2>4
    <3>2. Due(p) = BatchSize
      BY <2>1 DEF Due
    <3>3. Due(p)' = 0
      BY <1>3, <2>1, <2>3, <2>4 DEF Due
    <3>4. overtaken + Len(taken) + Due(p) <= 2 * BatchSize
      BY <3>1 DEF Turns
    <3> QED
      BY <1>0, <2>1, <2>2, <3>2, <3>3, <3>4
  <2>5. (~Loop!Contains(ready, "other") => overtaken = 0)'
    BY <1>3, <2>1 DEF Turns
  <2> QED
    BY <2>4, <2>5 DEF Turns
<1>12. ASSUME Loop!RunTask PROVE Turns'
  <2>1. /\ ready' = ready /\ loopAt' = loopAt /\ taken' = Tail(taken) /\ taken # <<>>
        /\ overtaken' = IF Loop!Contains(ready, "other") THEN overtaken + 1 ELSE 0
    BY <1>12 DEF Loop!RunTask
  <2>2. Len(taken') = Len(taken) - 1
    BY <2>1, TailFacts DEF Loop!TypeOK
  <2>3. \A p : Due(p)' = Due(p) /\ Due(p) \in {0, BatchSize}
    BY <2>1 DEF Due
  <2>4. ASSUME NEW p \in DOMAIN ready, ready[p] = "other"
        PROVE  (overtaken + Len(taken) + Due(p) <= 2 * BatchSize)'
    <3>1. overtaken' = overtaken + 1
      BY <1>1, <2>1, <2>4
    <3>2. overtaken + Len(taken) + Due(p) <= 2 * BatchSize
      BY <2>4 DEF Turns
    <3> QED
      BY <1>0, <2>2, <2>3, <3>1, <3>2
  <2>5. (~Loop!Contains(ready, "other") => overtaken = 0)'
    BY <1>1, <2>1
  <2> QED
    BY <2>1, <2>4, <2>5 DEF Turns
<1>13. ASSUME UNCHANGED Loop!vars PROVE Turns'
  BY <1>13 DEF Loop!vars, Turns, Due
<1> QED
  BY <1>6, <1>7, <1>8, <1>9, <1>10, <1>11, <1>12, <1>13 DEF Loop!Next, Loop!LoopStep

-----------------------------------------------------------------------------
(* The theorems.                                                           *)

LEMMA LoopInvInit == Loop!Init => LoopInv
<1> SUFFICES ASSUME Loop!Init PROVE LoopInv
  OBVIOUS
<1>1. Loop!TypeOK
  BY LoopTypeOKInit
<1>2. Loop!TasksInOrder
  BY DEF Loop!Init, Loop!TasksInOrder
<1>3. PendingForTasks /\ OnePath
  BY DEF Loop!Init, PendingForTasks, OnePath, NoWakeup, Loop!Drains
<1>4. Turns
  BY DEF Loop!Init, Turns
<1> QED
  BY <1>1, <1>2, <1>3, <1>4 DEF LoopInv

LEMMA LoopInductive == Loop!Safety => []LoopInv
<1>1. LoopInv /\ [Loop!Next]_(Loop!vars) => LoopInv'
  BY LoopTypeOKNext, TasksInOrderNext, PendingForTasksNext, OnePathNext, TurnsNext
  DEF LoopInv
<1> QED
  BY <1>1, LoopInvInit, PTL DEF Loop!Safety

LEMMA OnePathSuffices == LoopInv => Loop!NoMissedTask /\ Loop!OneWakeup
<1> SUFFICES ASSUME LoopInv PROVE Loop!NoMissedTask /\ Loop!OneWakeup
  OBVIOUS
<1> USE DEF OnePath, NoWakeup, WithThread, Signalled, DrainerReady, Draining
<1>1. Loop!NoMissedTask
  BY DEF LoopInv, PendingForTasks, Loop!NoMissedTask, Loop!WakeUnderWay
<1>2. CASE NoWakeup
  <2>1. Loop!Wakeups = {}
    BY <1>2 DEF Loop!Wakeups
  <2> QED
    BY <1>1, <2>1 DEF Loop!OneWakeup
<1>3. CASE WithThread
  <2>1. \E t \in Tasks : Loop!Wakeups = {<<"thread", t>>}
    BY <1>3 DEF Loop!Wakeups
  <2> QED
    BY <1>1, <2>1 DEF Loop!OneWakeup
<1>4. CASE Signalled
  <2>1. Loop!Wakeups = {<<"signal", 1>>}
    BY <1>4 DEF Loop!Wakeups
  <2> QED
    BY <1>1, <2>1 DEF Loop!OneWakeup
<1>5. CASE DrainerReady
  <2>1. PICK k \in 1..Len(ready) :
          /\ Loop!Drains(ready) = {k}
          /\ \/ signals = 0
             \/ watches /\ signals = 1
    BY <1>5
  <2>2. CASE signals = 0
    <3>1. Loop!Wakeups = {<<"ready", k>>}
      BY <1>5, <2>1, <2>2 DEF Loop!Wakeups
    <3> QED
      BY <1>1, <3>1 DEF Loop!OneWakeup
  <2>3. CASE watches /\ signals = 1
    <3>1. Loop!Wakeups = {<<"signal", 1>>, <<"ready", k>>}
      BY <1>5, <2>1, <2>3 DEF Loop!Wakeups
    <3>2. <<"signal", 1>>[1] # <<"ready", k>>[1]
      OBVIOUS
    <3> QED
      BY <1>1, <2>3, <3>1, <3>2 DEF Loop!OneWakeup
  <2> QED
    BY <2>1, <2>2, <2>3
<1>6. CASE Draining
  <2>1. Loop!Wakeups = {<<"drain", 0>>}
    BY <1>6 DEF Loop!Wakeups
  <2> QED
    BY <1>1, <2>1 DEF Loop!OneWakeup
<1> QED
  BY <1>2, <1>3, <1>4, <1>5, <1>6 DEF LoopInv

(***************************************************************************)
(* In every reachable state of LoopHandle and LoopDrainer the queue, the   *)
(* ready callbacks and the batch are well formed, whatever the tasks and   *)
(* the size of a batch.                                                    *)
(***************************************************************************)
THEOREM LoopTypeCorrect == DispatchSteps => []Loop!TypeOK
<1>1. LoopInv => Loop!TypeOK
  BY DEF LoopInv
<1> QED
  BY <1>1, LoopInductive, PTL DEF DispatchSteps, Loop!Spec

(***************************************************************************)
(* The tasks that dispatch queued run in its order, each once: those run,  *)
(* those of the batch that runs and those on the queue are what was        *)
(* dispatched.                                                             *)
(***************************************************************************)
THEOREM InOrder == DispatchSteps => []TasksInOrder
<1>1. LoopInv => TasksInOrder
  BY DEF LoopInv, TasksInOrder
<1> QED
  BY <1>1, LoopInductive, PTL DEF DispatchSteps, Loop!Spec

(***************************************************************************)
(* A task on the queue of a loop always has a wake-up on its way to the    *)
(* drainer, wherever dispatches come between the drainer's reading of the  *)
(* socket and its taking of the tasks.                                     *)
(***************************************************************************)
THEOREM NoneMissed == DispatchSteps => []NoMissedTask
<1>1. LoopInv => NoMissedTask
  BY OnePathSuffices DEF NoMissedTask
<1> QED
  BY <1>1, LoopInductive, PTL DEF DispatchSteps, Loop!Spec

(***************************************************************************)
(* However many threads dispatch, one wake-up is under way at most: one    *)
(* byte on the socket or one message to the waker thread, and one drainer  *)
(* among the loop's callbacks.                                             *)
(***************************************************************************)
THEOREM WokenOnce == DispatchSteps => []OneWakeup
<1>1. LoopInv => OneWakeup
  BY OnePathSuffices DEF OneWakeup
<1> QED
  BY <1>1, LoopInductive, PTL DEF DispatchSteps, Loop!Spec

(***************************************************************************)
(* However many tasks are dispatched, a callback that is ready waits for   *)
(* those of two batches at most: of the one that runs when it becomes      *)
(* ready, and of the drain that was scheduled before it.  A drainer that   *)
(* has more to do schedules itself behind it.                              *)
(***************************************************************************)
THEOREM OthersTakeTurns == DispatchSteps => []OthersGetTheirTurn
<1>1. ASSUME LoopInv PROVE OthersGetTheirTurn
  <2>1. /\ overtaken \in Nat /\ Len(taken) \in Nat /\ BatchSize \in Nat
        /\ DOMAIN ready = 1..Len(ready)
    BY <1>1, BatchSizeAssumption, LenProperties DEF LoopInv, Loop!TypeOK
  <2>2. CASE Loop!Contains(ready, "other")
    <3>1. PICK p \in DOMAIN ready : ready[p] = "other"
      BY <2>1, <2>2 DEF Loop!Contains
    <3>2. overtaken + Len(taken) + Due(p) <= 2 * BatchSize
      BY <1>1, <3>1 DEF LoopInv, Turns
    <3>3. Due(p) \in {0, BatchSize}
      BY DEF Due
    <3> QED
      BY <2>1, <3>2, <3>3 DEF OthersGetTheirTurn, Loop!OthersGetTheirTurn
  <2>3. CASE ~Loop!Contains(ready, "other")
    BY <1>1, <2>1, <2>3 DEF LoopInv, Turns, OthersGetTheirTurn, Loop!OthersGetTheirTurn
  <2> QED
    BY <2>2, <2>3
<1> QED
  BY <1>1, LoopInductive, PTL DEF DispatchSteps, Loop!Spec
=============================================================================
