-------------------------- MODULE WebSocket_proofs --------------------------
(***************************************************************************)
(* Proofs about WebSocket, for any number of messages and of calls of      *)
(* receive and send: what it says of the futures, of the messages and of   *)
(* the callbacks between the threads.                                      *)
(*                                                                         *)
(* The invariant follows each future from its bridge to the loop: what     *)
(* leaves the bridge of the receives does so in the order of the calls, so *)
(* that Told, a number, divides the receives that are still on the bridge  *)
(* from the rest; the sends that are written, those on their way to the    *)
(* loop and those the filter has yet to handle come one after the other.   *)
(* Of the messages it says that those handed on are the first ones and     *)
(* that the unread ones follow them.  The steps keep it in two parts: Core *)
(* is about the futures and the messages, Shell about the two sides.       *)
(***************************************************************************)
EXTENDS WebSocket, SequenceFacts, FiniteSetTheorems
-----------------------------------------------------------------------------
(* The inductive invariant.                                                *)

\* Before the handshake is answered.
Early == state \in {"start", "notWebSocket", "handshake"}

\* The events of the application that the filter has yet to handle: while it
\* handles those of a drain there are no others.
Pipe == IF batch = <<>> THEN sendBridge.events ELSE batch
Queued(e) == \E i \in DOMAIN Pipe : Pipe[i] = e

\* The receives whose future has left the bridge.
Told == Len(receives) - Len(recvBridge.events)

\* What is on its way to the loop.
Dispatched(task) == \E i \in DOMAIN loop : loop[i] = task
ForReceive(task) == task.kind \in {"connect", "message", "disconnect"}
ForSend(task) == task.kind \in {"sent", "refused"}

IsWritten(k) == \E i \in DOMAIN written : written[i].n = k

\* What the states of the two sides have to do with each other.
Stages ==
  /\ recvBridge.closed <=> sendBridge.closed
  /\ recvBridge.closed => /\ state \in {"accepted", "destroyed"}
                          /\ closeFrame \/ connection = "gone"
  /\ state = "destroyed" <=> connection = "gone"
  /\ state = "destroyed" => recvBridge.closed /\ inbound = <<>>
  /\ state \in {"start", "notWebSocket"} => app = "none" /\ loop = <<>>
  /\ commits # <<>> => state \in {"handshake", "accepted", "done"}
  /\ batch # <<>> => state \in {"accepted", "done"} /\ sendBridge.events = <<>>
  /\ level = 1 => state \in {"accepted", "done"}
  /\ \A i \in DOMAIN inbound : inbound[i].kind # "message" => clientEnded

\* Nothing has happened yet, but that callbacks are on their way for what is on
\* the bridges, where a first send puts an accept.
Handshake ==
  Early =>
    /\ Count("request") = Len(recvBridge.events)
    /\ Count("response") = Len(sendBridge.events)
    /\ sends # <<>> => \E e \in SendEvents : Queued(e) /\ e.kind = "accept"
    /\ written = <<>> /\ inbound = <<>> /\ ~closeFrame
    /\ connection = "open" => arrived = 0

\* The connection is open for messages until there is a close frame.
Closing ==
  state = "accepted" =>
    /\ ~closeFrame => websocket = "active"
    /\ websocket = "active" =>
         \A i \in DOMAIN written : written[i].kind \in {"switching", "message"}
    /\ written # <<>> /\ written[1].n = 1

\* The futures of the receives leave the bridge in order.
Waits(receive) == receive.is \in {"pending", "cancelled"} /\ receive.message = 0

ReceiveTask(task) ==
  ForReceive(task) =>
    /\ task.n \in 1..Told
    /\ \A k \in task.n..Len(receives) : Waits(receives[k])

Receiving ==
  /\ Told >= 0
  /\ \A i \in DOMAIN recvBridge.events : recvBridge.events[i] = Told + i
  /\ \A k \in DOMAIN receives : k > Told => Waits(receives[k])
  /\ \A k \in 1..Told : receives[k].is = "pending" =>
       \E task \in LoopTasks : Dispatched(task) /\ ForReceive(task) /\ task.n = k
  /\ \A task \in LoopTasks : Dispatched(task) => ReceiveTask(task)

\* So do those of the sends, of which the first is an accept, and what is written
\* is from before what is still in the pipe.
SendTask(task) ==
  /\ ForSend(task) =>
       /\ task.n \in DOMAIN sends /\ sends[task.n] = "pending"
       /\ \A e \in SendEvents : Queued(e) /\ e.n # 0 => task.n < e.n
  /\ task.kind = "sent" => IsWritten(task.n)
  /\ task.kind = "refused" => ~IsWritten(task.n)

Increasing(events) ==
  \A i, j \in DOMAIN events : i < j /\ events[j].n # 0 => events[i].n < events[j].n

InThePipe(e) ==
  /\ e.n # 0 <=> e.kind \in {"accept", "message"}
  /\ e.kind = "accept" <=> e.n = 1
  /\ e.n # 0 => e.n \in DOMAIN sends /\ sends[e.n] = "pending"

Sending ==
  /\ sendState = "started" => sends = <<>>
  /\ sendState = "accepted" => sends # <<>>
  /\ \A e \in SendEvents : Queued(e) => InThePipe(e)
  /\ Increasing(Pipe)
  /\ \A task \in LoopTasks : Dispatched(task) => SendTask(task)
  /\ \A k \in DOMAIN sends :
       /\ sends[k] = "pending" =>
            \/ \E e \in SendEvents : Queued(e) /\ e.n = k
            \/ \E task \in LoopTasks : Dispatched(task) /\ ForSend(task) /\ task.n = k
       /\ sends[k] = "sent" => IsWritten(k)
       /\ sends[k] = "refused" => ~IsWritten(k)
  /\ \A k \in 1..MaxSends : IsWritten(k) =>
       /\ k <= Len(sends)
       /\ \A e \in SendEvents : Queued(e) /\ e.n # 0 => k < e.n

\* What is written: an answer, messages and a close frame.
OnWire ==
  /\ \A i \in DOMAIN written :
       /\ written[i].kind \in {"switching", "forbidden", "error"} <=> i = 1
       /\ written[i].kind \in {"forbidden", "error", "close"} => i = Len(written)
  /\ \A i, j \in DOMAIN written :
       i < j /\ written[j].kind = "message" => written[i].n < written[j].n

\* The order of what receives return: connects, messages in order, disconnects.
After(kind, message, next, nextMessage) ==
  /\ nextMessage # 0 => message < nextMessage
  /\ kind = "disconnect" => next \notin {"connect", "message"}
  /\ kind = "message" => next # "connect"

\* What is on its way to the loop is in the same order.
Follows(task, next) ==
  /\ ForReceive(task) /\ ForReceive(next) => task.n < next.n
  /\ ForSend(task) /\ ForSend(next) => task.n < next.n
  /\ After(task.kind, task.message, next.kind, next.message)

LoopInOrder == \A i, j \in DOMAIN loop : i < j => Follows(loop[i], loop[j])

MessageTask(task) ==
  /\ task.message # 0 <=> task.kind = "message"
  /\ task.kind = "message" => ~Early
  /\ task.kind = "disconnect" => recvBridge.closed
  /\ \A k \in DOMAIN receives :
       After(receives[k].is, receives[k].message, task.kind, task.message)

Results ==
  /\ \A j, k \in DOMAIN receives : j < k =>
       After(receives[j].is, receives[j].message, receives[k].is, receives[k].message)
  /\ \A k \in DOMAIN receives :
       /\ receives[k].is = "message" => ~Early
       /\ receives[k].is = "disconnect" => recvBridge.closed
  /\ \A task \in LoopTasks : Dispatched(task) => MessageTask(task)

\* The messages that were handed on are the first ones, and the unread ones
\* those that come next.
Handed(m) ==
  \/ \E k \in DOMAIN receives : receives[k].message = m
  \/ \E task \in LoopTasks : Dispatched(task) /\ task.message = m

HandedOn ==
  \A m \in 1..MaxMessages : Handed(m) => m <= arrived /\ \A q \in 1..m : Handed(q)

IsUnread(unread, m) == \E i \in DOMAIN unread : unread[i].n = m

Incoming(unread, n) ==
  /\ \A i \in DOMAIN unread :
       /\ unread[i].n # 0 <=> unread[i].kind = "message"
       /\ unread[i].n <= n
       /\ i < Len(unread) => unread[i].kind = "message"
       /\ \A m \in 1..unread[i].n : Handed(m) \/ IsUnread(unread, m)
       /\ \A m \in 1..MaxMessages : Handed(m) /\ unread[i].n # 0 => m < unread[i].n
  /\ \A i, j \in DOMAIN unread : i < j /\ unread[j].n # 0 => unread[i].n < unread[j].n
  /\ state = "accepted" /\ connection = "open" /\ ~closeFrame =>
       \A m \in 1..n : Handed(m) \/ IsUnread(unread, m)

IInv ==
  /\ TypeOK /\ Stages /\ Handshake /\ Closing /\ Receiving /\ Sending /\ OnWire
  /\ LoopInOrder /\ Results /\ HandedOn /\ Incoming(inbound, arrived) /\ NobodyWaitsInVain

-----------------------------------------------------------------------------
(* Sequences and numbers.                                                  *)

Unread == [kind : {"message", "close", "bad"}, n : 0..MaxMessages]
Frames == [kind : {"switching", "forbidden", "error", "message", "close"}, n : 0..MaxSends]

LEMMA Lengths ==
  ASSUME TypeOK
  PROVE  /\ receives \in Seq(Receives) /\ Len(receives) \in 0..MaxReceives
         /\ DOMAIN receives = 1..Len(receives)
         /\ \A k \in DOMAIN receives : receives[k] \in Receives
         /\ sends \in Seq({"pending", "sent", "refused"}) /\ Len(sends) \in 0..MaxSends
         /\ DOMAIN sends = 1..Len(sends)
         /\ \A k \in DOMAIN sends : sends[k] \in {"pending", "sent", "refused"}
         /\ recvBridge = [closed |-> recvBridge.closed, events |-> recvBridge.events]
         /\ recvBridge.closed \in BOOLEAN /\ recvBridge.events \in Seq(1..MaxReceives)
         /\ recvBridge.closed => recvBridge.events = <<>>
         /\ Len(recvBridge.events) \in Nat
         /\ DOMAIN recvBridge.events = 1..Len(recvBridge.events)
         /\ sendBridge = [closed |-> sendBridge.closed, events |-> sendBridge.events]
         /\ sendBridge.closed \in BOOLEAN /\ sendBridge.events \in Seq(SendEvents)
         /\ sendBridge.closed => sendBridge.events = <<>>
         /\ Len(sendBridge.events) \in Nat
         /\ DOMAIN sendBridge.events = 1..Len(sendBridge.events)
         /\ Pipe \in Seq(SendEvents) /\ Len(Pipe) \in Nat /\ DOMAIN Pipe = 1..Len(Pipe)
         /\ \A i \in DOMAIN Pipe : Pipe[i] \in SendEvents /\ Queued(Pipe[i])
         /\ loop \in Seq(LoopTasks) /\ Len(loop) \in Nat /\ DOMAIN loop = 1..Len(loop)
         /\ \A i \in DOMAIN loop : loop[i] \in LoopTasks /\ Dispatched(loop[i])
         /\ inbound \in Seq(Unread) /\ Len(inbound) \in Nat /\ DOMAIN inbound = 1..Len(inbound)
         /\ \A i \in DOMAIN inbound : inbound[i] \in Unread
         /\ written \in Seq(Frames) /\ Len(written) \in Nat /\ DOMAIN written = 1..Len(written)
         /\ \A i \in DOMAIN written : written[i] \in Frames
         /\ commits \in Seq({"request", "response"})
         /\ arrived \in 0..MaxMessages
<1>1. /\ receives \in Seq(Receives) /\ Len(receives) <= MaxReceives
      /\ sends \in Seq({"pending", "sent", "refused"}) /\ Len(sends) <= MaxSends
      /\ recvBridge \in Bridges(1..MaxReceives) /\ sendBridge \in Bridges(SendEvents)
      /\ batch \in Seq(SendEvents) /\ loop \in Seq(LoopTasks)
      /\ inbound \in Seq(Unread) /\ written \in Seq(Frames)
      /\ commits \in Seq({"request", "response"}) /\ arrived \in 0..MaxMessages
  BY DEF TypeOK, Unread, Frames
<1>2. /\ recvBridge = [closed |-> recvBridge.closed, events |-> recvBridge.events]
      /\ recvBridge.closed \in BOOLEAN /\ recvBridge.events \in Seq(1..MaxReceives)
      /\ recvBridge.closed => recvBridge.events = <<>>
  BY <1>1 DEF Bridges
<1>3. /\ sendBridge = [closed |-> sendBridge.closed, events |-> sendBridge.events]
      /\ sendBridge.closed \in BOOLEAN /\ sendBridge.events \in Seq(SendEvents)
      /\ sendBridge.closed => sendBridge.events = <<>>
  BY <1>1 DEF Bridges
<1>4. Pipe \in Seq(SendEvents)
  BY <1>1, <1>3 DEF Pipe
<1>5. /\ Len(receives) \in Nat /\ DOMAIN receives = 1..Len(receives)
      /\ \A k \in DOMAIN receives : receives[k] \in Receives
  BY <1>1, LenProperties, ElementOfSeq
<1>6. /\ Len(sends) \in Nat /\ DOMAIN sends = 1..Len(sends)
      /\ \A k \in DOMAIN sends : sends[k] \in {"pending", "sent", "refused"}
  BY <1>1, LenProperties, ElementOfSeq
<1>7. /\ Len(recvBridge.events) \in Nat
      /\ DOMAIN recvBridge.events = 1..Len(recvBridge.events)
      /\ Len(sendBridge.events) \in Nat
      /\ DOMAIN sendBridge.events = 1..Len(sendBridge.events)
  BY <1>2, <1>3, LenProperties
<1>8. /\ Len(Pipe) \in Nat /\ DOMAIN Pipe = 1..Len(Pipe)
      /\ \A i \in DOMAIN Pipe : Pipe[i] \in SendEvents /\ Queued(Pipe[i])
  BY <1>4, LenProperties, ElementOfSeq DEF Queued
<1>9. /\ Len(loop) \in Nat /\ DOMAIN loop = 1..Len(loop)
      /\ \A i \in DOMAIN loop : loop[i] \in LoopTasks /\ Dispatched(loop[i])
  BY <1>1, LenProperties, ElementOfSeq DEF Dispatched
<1>10. /\ Len(inbound) \in Nat /\ DOMAIN inbound = 1..Len(inbound)
       /\ \A i \in DOMAIN inbound : inbound[i] \in Unread
  BY <1>1, LenProperties, ElementOfSeq
<1>11. /\ Len(written) \in Nat /\ DOMAIN written = 1..Len(written)
       /\ \A i \in DOMAIN written : written[i] \in Frames
  BY <1>1, LenProperties, ElementOfSeq
<1>12. Len(receives) \in 0..MaxReceives /\ Len(sends) \in 0..MaxSends
  BY <1>1, <1>5, <1>6, BoundsAssumption
<1> QED
  BY <1>1, <1>2, <1>3, <1>4, <1>5, <1>6, <1>7, <1>8, <1>9, <1>10, <1>11, <1>12

\* How many callbacks of a kind are on their way after one more,
Occurrences(s, kind) == {i \in DOMAIN s : s[i] = kind}

LEMMA OccurrencesFinite ==
  ASSUME NEW s \in Seq({"request", "response"}), NEW kind
  PROVE  /\ IsFiniteSet(Occurrences(s, kind))
         /\ Cardinality(Occurrences(s, kind)) \in Nat
<1>1. Len(s) \in Nat /\ DOMAIN s = 1..Len(s)
  BY LenProperties
<1>2. IsFiniteSet(1..Len(s))
  BY <1>1, FS_Interval
<1>3. Occurrences(s, kind) \subseteq 1..Len(s)
  BY <1>1 DEF Occurrences
<1>4. IsFiniteSet(Occurrences(s, kind))
  BY <1>2, <1>3, FS_Subset
<1> QED
  BY <1>4, FS_CardinalityType

LEMMA CountAppend ==
  ASSUME NEW s \in Seq({"request", "response"}), NEW last \in {"request", "response"}, NEW kind
  PROVE  Cardinality(Occurrences(Append(s, last), kind)) =
           Cardinality(Occurrences(s, kind)) + IF last = kind THEN 1 ELSE 0
<1> DEFINE t == Append(s, last)
           O == Occurrences(s, kind)
           P == Occurrences(t, kind)
<1>1. /\ Len(s) \in Nat /\ DOMAIN s = 1..Len(s)
      /\ DOMAIN t = 1..(Len(s) + 1)
      /\ \A k \in 1..Len(s) : t[k] = s[k]
      /\ t[Len(s) + 1] = last
  BY AppendFacts
<1>2. IsFiniteSet(O) /\ Cardinality(O) \in Nat
  BY OccurrencesFinite
<1>3. CASE last = kind
  <2>1. P = O \cup {Len(s) + 1}
    <3> HIDE DEF t
    <3> QED
      BY <1>1, <1>3 DEF Occurrences
  <2>2. Len(s) + 1 \notin O
    BY <1>1 DEF Occurrences
  <2> HIDE DEF O, P
  <2>3. Cardinality(O \cup {Len(s) + 1}) = Cardinality(O) + 1
    BY <1>2, <2>2, FS_AddElement
  <2> QED
    BY <1>3, <2>1, <2>3 DEF O, P
<1>4. CASE last # kind
  <2>1. P = O
    <3> HIDE DEF t
    <3> QED
      BY <1>1, <1>4 DEF Occurrences
  <2> HIDE DEF O, P
  <2> QED
    BY <1>2, <1>4, <2>1 DEF O, P
<1> QED
  BY <1>3, <1>4

\* and after the first of them.
LEMMA CountTail ==
  ASSUME NEW s \in Seq({"request", "response"}), s # <<>>, NEW kind
  PROVE  Cardinality(Occurrences(s, kind)) =
           Cardinality(Occurrences(Tail(s), kind)) + IF Head(s) = kind THEN 1 ELSE 0
<1> DEFINE t == Tail(s)
           O == Occurrences(t, kind)
           P == Occurrences(s, kind)
           Q == P \ {1}
           f == [i \in O |-> i + 1]
<1>1. /\ Len(s) \in Nat \ {0} /\ DOMAIN s = 1..Len(s)
      /\ t \in Seq({"request", "response"})
      /\ DOMAIN t = 1..(Len(s) - 1)
      /\ \A k \in 1..(Len(s) - 1) : t[k] = s[k + 1]
      /\ Head(s) = s[1]
  BY TailFacts
<1>2. IsFiniteSet(O) /\ Cardinality(O) \in Nat /\ IsFiniteSet(P)
  BY <1>1, OccurrencesFinite
<1>3. f \in Bijection(O, Q)
  <2> HIDE DEF t
  <2>1. \A i \in O : i \in 1..(Len(s) - 1) /\ i + 1 \in Q
    BY <1>1 DEF Occurrences
  <2>2. \A j \in Q : j - 1 \in O /\ (j - 1) + 1 = j
    <3>1. ASSUME NEW j \in Q PROVE j \in 2..Len(s) /\ s[j] = kind
      BY <1>1, <3>1 DEF Occurrences
    <3>2. ASSUME NEW j \in Q PROVE j - 1 \in 1..(Len(s) - 1) /\ (j - 1) + 1 = j
      BY <1>1, <3>1
    <3> HIDE DEF Q
    <3>3. ASSUME NEW j \in Q PROVE t[j - 1] = kind
      BY <1>1, <3>1, <3>2
    <3> QED
      BY <1>1, <3>2, <3>3 DEF Occurrences
  <2> HIDE DEF O, Q
  <2>3. f \in Injection(O, Q)
    BY <2>1 DEF Injection, IsInjective
  <2>4. f \in Surjection(O, Q)
    BY <2>1, <2>2 DEF Surjection
  <2> QED
    BY <2>3, <2>4 DEF Bijection
<1>4. Cardinality(Q) = Cardinality(O) /\ IsFiniteSet(Q)
  <2>1. ExistsBijection(O, Q)
    BY <1>3 DEF ExistsBijection
  <2> HIDE DEF f, O, Q
  <2> QED
    BY <1>2, <2>1, FS_Bijection
<1>5. CASE Head(s) = kind
  <2>1. 1 \in P
    BY <1>1, <1>5 DEF Occurrences
  <2>2. P = Q \cup {1} /\ 1 \notin Q
    <3> HIDE DEF P
    <3> QED
      BY <2>1
  <2> HIDE DEF P, Q, O
  <2>3. Cardinality(Q \cup {1}) = Cardinality(Q) + 1
    BY <1>4, <2>2, FS_AddElement
  <2> QED
    BY <1>4, <1>5, <2>2, <2>3 DEF P, O
<1>6. CASE Head(s) # kind
  <2>1. P = Q
    BY <1>1, <1>6 DEF Occurrences
  <2> HIDE DEF P, Q, O
  <2> QED
    BY <1>2, <1>4, <1>6, <2>1 DEF P, O
<1> QED
  BY <1>5, <1>6

\* One is on its way just if the count says so.
LEMMA CountPositive ==
  ASSUME NEW s \in Seq({"request", "response"}), NEW kind
  PROVE  Cardinality(Occurrences(s, kind)) > 0 <=> kind \in Range(s)
<1>1. IsFiniteSet(Occurrences(s, kind)) /\ Cardinality(Occurrences(s, kind)) \in Nat
  BY OccurrencesFinite
<1>2. Cardinality(Occurrences(s, kind)) = 0 <=> Occurrences(s, kind) = {}
  BY <1>1, FS_EmptySet
<1>3. kind \in Range(s) <=> Occurrences(s, kind) # {}
  BY DEF Range, Occurrences
<1> QED
  BY <1>1, <1>2, <1>3

\* The ranks of the elements of a finite set of numbers are 1, 2 and so on.
Rank(W, i) == Cardinality({j \in W : j <= i})

LEMMA RankFacts ==
  ASSUME NEW W, W \subseteq Nat, IsFiniteSet(W)
  PROVE  /\ Cardinality(W) \in Nat
         /\ \A i \in W : Rank(W, i) \in 1..Cardinality(W)
         /\ \A i, j \in W : i < j => Rank(W, i) < Rank(W, j)
         /\ \A k \in 1..Cardinality(W) : \E i \in W : Rank(W, i) = k
<1> DEFINE Below(i) == {j \in W : j <= i}
           c == Cardinality(W)
           rank == [i \in W |-> Rank(W, i)]
<1>1. c \in Nat
  BY FS_CardinalityType
<1>0. \A i \in W : i \in Nat
  OBVIOUS
<1>2. ASSUME NEW i \in W
      PROVE  /\ IsFiniteSet(Below(i)) /\ Cardinality(Below(i)) \in Nat
             /\ Cardinality(Below(i)) <= c /\ Cardinality(Below(i)) # 0
  <2>1. Below(i) \in SUBSET W /\ i \in Below(i)
    OBVIOUS
  <2> HIDE DEF Below
  <2>2. IsFiniteSet(Below(i)) /\ Cardinality(Below(i)) <= c
    BY <2>1, FS_Subset
  <2>3. Cardinality(Below(i)) \in Nat
    BY <2>2, FS_CardinalityType
  <2>4. Cardinality(Below(i)) # 0
    BY <2>1, <2>2, FS_EmptySet
  <2> QED
    BY <2>2, <2>3, <2>4
<1>3. \A i \in W : Rank(W, i) \in 1..c /\ Rank(W, i) = Cardinality(Below(i))
  <2> SUFFICES ASSUME NEW i \in W
               PROVE  Rank(W, i) \in 1..c /\ Rank(W, i) = Cardinality(Below(i))
    OBVIOUS
  <2>1. Rank(W, i) = Cardinality(Below(i))
    BY DEF Rank
  <2>2. \A m, n \in Nat : m <= n /\ m # 0 => m \in 1..n
    OBVIOUS
  <2>3. Cardinality(Below(i)) \in 1..c
    <3> HIDE DEF Below, c
    <3> QED
      BY <1>1, <1>2, <2>2
  <2> HIDE DEF Below, c
  <2> QED
    BY <2>1, <2>3
<1>4. ASSUME NEW i \in W, NEW j \in W, i < j
      PROVE  Rank(W, i) < Rank(W, j)
  <2>0. i \in Nat /\ j \in Nat
    BY <1>0
  <2>1. Below(i) \in SUBSET Below(j) /\ j \in Below(j) /\ j \notin Below(i)
    <3>1. \A k \in Nat : k <= i => k <= j
      BY <1>4, <2>0
    <3>2. Below(i) \subseteq Below(j)
      BY <1>0, <3>1
    <3>3. j <= j /\ ~(j <= i)
      BY <1>4, <2>0
    <3> QED
      BY <3>2, <3>3
  <2>2. Below(i) # Below(j)
    BY <2>1
  <2> HIDE DEF Below, c
  <2>3. /\ Cardinality(Below(i)) <= Cardinality(Below(j))
        /\ Cardinality(Below(j)) # Cardinality(Below(i))
    <3>1. IsFiniteSet(Below(j))
      BY <1>2
    <3> QED
      BY <2>1, <2>2, <3>1, FS_Subset
  <2>4. \A m, n \in Nat : m <= n /\ n # m => m < n
    OBVIOUS
  <2> QED
    BY <1>2, <1>3, <2>3, <2>4
<1>5. rank \in Injection(W, 1..c)
  <2>1. \A i, j \in W : i # j => Rank(W, i) # Rank(W, j)
    <3>1. \A i, j \in W : i # j => i < j \/ j < i
      <4>1. \A i, j \in Nat : i # j => i < j \/ j < i
        OBVIOUS
      <4> QED
        BY <1>0, <4>1
    <3>2. \A i \in W : Rank(W, i) \in Nat
      <4>1. 1..c \subseteq Nat
        BY <1>1
      <4>2. \A i \in W : Rank(W, i) \in 1..c
        BY <1>3
      <4> HIDE DEF c
      <4> QED
        BY <4>1, <4>2
    <3> HIDE DEF c
    <3> QED
      BY <1>4, <3>1, <3>2
  <2> HIDE DEF c
  <2> QED
    BY <1>3, <2>1 DEF Injection, IsInjective
<1>6. rank \in Surjection(W, 1..c)
  <2>1. IsFiniteSet(1..c) /\ Cardinality(1..c) = c
    <3> HIDE DEF c
    <3> QED
      BY <1>1, FS_Interval
  <2> HIDE DEF rank
  <2>2. Cardinality(W) = Cardinality(1..c) <=> rank \in Surjection(W, 1..c)
    BY <1>5, <2>1, FS_Injection
  <2> QED
    BY <2>1, <2>2
<1>7. \A k \in 1..c : \E i \in W : Rank(W, i) = k
  <2> HIDE DEF c
  <2> QED
    BY <1>6 DEF Surjection
<1> HIDE DEF c
<1> QED
  BY <1>1, <1>3, <1>4, <1>7 DEF c

\* The futures of events whose numbers increase are these numbers, in order.
LEMMA FuturesFacts ==
  ASSUME NEW events \in Seq(SendEvents), Increasing(events)
  PROVE  /\ Futures(events) \in Seq(1..MaxSends)
         /\ \A j, k \in DOMAIN Futures(events) : j < k =>
              Futures(events)[j] < Futures(events)[k]
         /\ \A n \in Nat : (\E k \in DOMAIN Futures(events) : Futures(events)[k] = n) <=>
              (n # 0 /\ \E i \in DOMAIN events : events[i].n = n)
<1> DEFINE waiting == {i \in DOMAIN events : events[i].n # 0}
           Nth(k)  == CHOOSE i \in waiting : Cardinality({j \in waiting : j <= i}) = k
           c == Cardinality(waiting)
           F == Futures(events)
<1>1. /\ Len(events) \in Nat /\ DOMAIN events = 1..Len(events)
      /\ \A i \in DOMAIN events : events[i].n \in 0..MaxSends
  <2>1. Len(events) \in Nat /\ DOMAIN events = 1..Len(events)
    BY LenProperties
  <2>2. \A i \in DOMAIN events : events[i] \in SendEvents
    BY <2>1, ElementOfSeq
  <2> QED
    BY <2>1, <2>2 DEF SendEvents
<1>2. waiting \subseteq Nat /\ IsFiniteSet(waiting)
  <2>1. IsFiniteSet(1..Len(events)) /\ waiting \in SUBSET (1..Len(events))
    BY <1>1, FS_Interval
  <2> HIDE DEF waiting
  <2>2. IsFiniteSet(waiting)
    BY <2>1, FS_Subset
  <2> QED
    BY <2>1, <2>2
<1>3. /\ c \in Nat
      /\ \A i \in waiting : Rank(waiting, i) \in 1..c
      /\ \A i, j \in waiting : i < j => Rank(waiting, i) < Rank(waiting, j)
      /\ \A k \in 1..c : \E i \in waiting : Rank(waiting, i) = k
  <2> HIDE DEF waiting
  <2> QED
    BY <1>2, RankFacts
<1>4. \A k \in 1..c : Nth(k) \in waiting /\ Rank(waiting, Nth(k)) = k
  <2> HIDE DEF waiting
  <2> QED
    BY <1>3 DEF Rank
<1>5. F = [k \in 1..c |-> events[Nth(k)].n]
  BY DEF Futures
<1>6. \A k \in 1..c : F[k] = events[Nth(k)].n /\ F[k] \in 1..MaxSends
  <2>1. \A i \in waiting : events[i].n \in 1..MaxSends
    BY <1>1, BoundsAssumption
  <2> HIDE DEF waiting, Nth, F
  <2> QED
    BY <1>4, <1>5, <2>1
<1>7. F \in Seq(1..MaxSends) /\ DOMAIN F = 1..c
  <2>1. F \in [1..c -> 1..MaxSends]
    <3>1. DOMAIN F = 1..c /\ F = [k \in DOMAIN F |-> F[k]]
      <4> HIDE DEF Nth, c
      <4> QED
        BY <1>5
    <3> HIDE DEF F, Nth, c
    <3> QED
      BY <1>6, <3>1
  <2> HIDE DEF F, c
  <2> QED
    BY <1>3, <2>1, FunctionIsSeq
<1>8. ASSUME NEW j \in 1..c, NEW k \in 1..c, j < k PROVE F[j] < F[k]
  <2>1. Nth(j) < Nth(k)
    <3>1. /\ Nth(j) \in waiting /\ Rank(waiting, Nth(j)) = j
          /\ Nth(k) \in waiting /\ Rank(waiting, Nth(k)) = k
      BY <1>4
    <3> HIDE DEF Nth
    <3>2. Nth(j) \in Nat /\ Nth(k) \in Nat
      BY <1>2, <3>1
    <3>3. ~(Nth(k) < Nth(j)) /\ Nth(k) # Nth(j)
      <4>1. Nth(k) < Nth(j) => k < j
        <5> HIDE DEF waiting
        <5> QED
          BY <1>3, <3>1
      <4>2. j \in Nat /\ k \in Nat
        BY <1>3
      <4> QED
        BY <1>8, <3>1, <4>1, <4>2
    <3> QED
      BY <3>2, <3>3
  <2>2. Nth(j) \in DOMAIN events /\ Nth(k) \in DOMAIN events /\ events[Nth(k)].n # 0
    <3>1. Nth(j) \in waiting /\ Nth(k) \in waiting
      BY <1>4
    <3> HIDE DEF Nth
    <3> QED
      BY <3>1
  <2>3. F[j] = events[Nth(j)].n /\ F[k] = events[Nth(k)].n
    BY <1>6
  <2> HIDE DEF F, Nth
  <2> QED
    BY <2>1, <2>2, <2>3 DEF Increasing
<1>9. ASSUME NEW n \in Nat
      PROVE  (\E k \in 1..c : F[k] = n) <=> (n # 0 /\ \E i \in DOMAIN events : events[i].n = n)
  <2>1. ASSUME NEW k \in 1..c, F[k] = n
        PROVE  n # 0 /\ \E i \in DOMAIN events : events[i].n = n
    <3>1. Nth(k) \in DOMAIN events /\ events[Nth(k)].n # 0
      <4>1. Nth(k) \in waiting
        BY <1>4
      <4> HIDE DEF Nth
      <4> QED
        BY <4>1
    <3> HIDE DEF Nth, F
    <3> QED
      BY <1>6, <2>1, <3>1
  <2>2. ASSUME NEW i \in DOMAIN events, events[i].n = n, n # 0
        PROVE  \E k \in 1..c : F[k] = n
    <3> DEFINE k == Rank(waiting, i)
    <3>1. i \in waiting
      BY <2>2
    <3>2. k \in 1..c
      <4> HIDE DEF waiting, c
      <4> QED
        BY <1>3, <3>1
    <3>3. Nth(k) \in waiting /\ Rank(waiting, Nth(k)) = k
      <4> HIDE DEF k
      <4> QED
        BY <1>4, <3>2
    <3>4. Nth(k) = i
      <4> HIDE DEF Nth, waiting
      <4>1. ~(Nth(k) < i) /\ ~(i < Nth(k))
        <5>1. \A m \in 1..c : m \in Nat /\ ~(m < m)
          <6> HIDE DEF c
          <6> QED
            BY <1>3
        <5>2. Rank(waiting, i) \in 1..c /\ Rank(waiting, Nth(k)) = Rank(waiting, i)
          BY <3>2, <3>3
        <5> HIDE DEF k, c
        <5> QED
          BY <1>3, <3>1, <3>3, <5>1, <5>2
      <4>2. Nth(k) \in Nat /\ i \in Nat
        BY <1>2, <3>1, <3>3
      <4> HIDE DEF k
      <4> QED
        BY <4>1, <4>2
    <3>5. F[k] = n
      <4>1. F[k] = events[Nth(k)].n
        BY <1>6, <3>2
      <4> HIDE DEF F, Nth, k
      <4> QED
        BY <2>2, <3>4, <4>1
    <3> HIDE DEF F, k, c
    <3> QED
      BY <3>2, <3>5
  <2> HIDE DEF F, c
  <2> QED
    BY <2>1, <2>2
<1> HIDE DEF F, c
<1> QED
  BY <1>7, <1>8, <1>9 DEF F

-----------------------------------------------------------------------------
(* What the steps do to the sequences: which elements they have then, and  *)
(* in which order.                                                         *)

LEMMA LoopAppended ==
  ASSUME TypeOK, NEW t \in LoopTasks, loop' = Append(loop, t)
  PROVE  /\ loop' \in Seq(LoopTasks)
         /\ \A task \in LoopTasks : Dispatched(task)' <=> Dispatched(task) \/ task = t
         /\ LoopInOrder /\ (\A task \in LoopTasks : Dispatched(task) => Follows(task, t))
              => LoopInOrder'
<1>1. loop \in Seq(LoopTasks) /\ \A i \in DOMAIN loop : loop[i] \in LoopTasks /\ Dispatched(loop[i])
  BY Lengths
<1>2. /\ loop' \in Seq(LoopTasks) /\ DOMAIN loop' = 1..(Len(loop) + 1)
      /\ \A i \in 1..Len(loop) : loop'[i] = loop[i]
      /\ loop'[Len(loop) + 1] = t
      /\ Len(loop) \in Nat /\ DOMAIN loop = 1..Len(loop)
  BY <1>1, AppendFacts
<1>3. \A task \in LoopTasks : Dispatched(task)' <=> Dispatched(task) \/ task = t
  BY <1>2 DEF Dispatched
<1>4. ASSUME LoopInOrder, \A task \in LoopTasks : Dispatched(task) => Follows(task, t)
      PROVE  LoopInOrder'
  <2> SUFFICES ASSUME NEW i \in DOMAIN loop', NEW j \in DOMAIN loop', i < j
               PROVE  Follows(loop'[i], loop'[j])
    BY DEF LoopInOrder, Follows, After, ForReceive, ForSend
  <2>1. i \in 1..Len(loop) /\ loop'[i] = loop[i]
    BY <1>2
  <2>2. CASE j \in 1..Len(loop)
    BY <1>2, <1>4, <2>1, <2>2 DEF LoopInOrder
  <2>3. CASE j = Len(loop) + 1
    BY <1>1, <1>2, <1>4, <2>1, <2>3
  <2> QED
    BY <1>2, <2>2, <2>3
<1> QED
  BY <1>2, <1>3, <1>4

LEMMA LoopTaken ==
  ASSUME TypeOK, loop # <<>>, loop' = Tail(loop)
  PROVE  /\ loop' \in Seq(LoopTasks)
         /\ Head(loop) \in LoopTasks /\ Dispatched(Head(loop))
         /\ \A task \in LoopTasks : Dispatched(task) <=> Dispatched(task)' \/ task = Head(loop)
         /\ LoopInOrder =>
              /\ LoopInOrder'
              /\ \A task \in LoopTasks : Dispatched(task)' => Follows(Head(loop), task)
<1>1. loop \in Seq(LoopTasks)
  BY Lengths
<1>2. /\ loop' \in Seq(LoopTasks) /\ DOMAIN loop' = 1..(Len(loop) - 1)
      /\ \A i \in 1..(Len(loop) - 1) : loop'[i] = loop[i + 1]
      /\ Head(loop) = loop[1] /\ Head(loop) \in LoopTasks
      /\ Len(loop) \in Nat \ {0} /\ DOMAIN loop = 1..Len(loop)
  BY <1>1, TailFacts
<1>3. Dispatched(Head(loop))
  BY <1>2 DEF Dispatched
<1>4. \A task \in LoopTasks : Dispatched(task) <=> Dispatched(task)' \/ task = Head(loop)
  <2>1. \A i \in DOMAIN loop : i = 1 \/ (i - 1 \in DOMAIN loop' /\ loop'[i - 1] = loop[i])
    BY <1>2
  <2>2. \A i \in DOMAIN loop' : i + 1 \in DOMAIN loop /\ loop'[i] = loop[i + 1]
    BY <1>2
  <2> QED
    BY ZenonT(60), <1>2, <1>3, <2>1, <2>2 DEF Dispatched
<1>5. ASSUME LoopInOrder
      PROVE  /\ LoopInOrder'
             /\ \A task \in LoopTasks : Dispatched(task)' => Follows(Head(loop), task)
  <2>1. \A i \in DOMAIN loop' : 1 < i + 1 /\ i + 1 \in DOMAIN loop /\ 1 \in DOMAIN loop
    BY <1>2
  <2>2. \A i, j \in DOMAIN loop' : i < j => i + 1 < j + 1
    BY <1>2
  <2>3. \A i, j \in DOMAIN loop' : i < j => Follows(loop'[i], loop'[j])
    BY <1>2, <1>5, <2>1, <2>2 DEF LoopInOrder
  <2>4. \A i \in DOMAIN loop' : Follows(Head(loop), loop'[i])
    BY <1>2, <1>5, <2>1 DEF LoopInOrder
  <2> QED
    BY <2>3, <2>4 DEF LoopInOrder, Dispatched, Follows, After, ForReceive, ForSend
<1> QED
  BY <1>2, <1>3, <1>4, <1>5

\* The same of any sequence of tasks.
Holds(s, task) == \E i \in DOMAIN s : s[i] = task
Ordered(s) == \A i, j \in DOMAIN s : i < j => Follows(s[i], s[j])

LEMMA TasksConcat ==
  ASSUME NEW s \in Seq(LoopTasks), NEW t \in Seq(LoopTasks)
  PROVE  /\ s \o t \in Seq(LoopTasks)
         /\ \A task \in LoopTasks : Holds(s \o t, task) <=> Holds(s, task) \/ Holds(t, task)
         /\ /\ Ordered(s) /\ Ordered(t)
            /\ \A a, b \in LoopTasks : Holds(s, a) /\ Holds(t, b) => Follows(a, b)
            => Ordered(s \o t)
<1> DEFINE u == s \o t
<1>1. /\ u \in Seq(LoopTasks) /\ DOMAIN u = 1..(Len(s) + Len(t))
      /\ \A i \in 1..Len(s) : u[i] = s[i]
      /\ \A i \in 1..Len(t) : u[Len(s) + i] = t[i]
      /\ Len(s) \in Nat /\ DOMAIN s = 1..Len(s)
      /\ Len(t) \in Nat /\ DOMAIN t = 1..Len(t)
  BY ConcatFacts
<1>2. /\ \A i \in DOMAIN s : s[i] \in LoopTasks
      /\ \A i \in DOMAIN t : t[i] \in LoopTasks
  BY <1>1, ElementOfSeq
<1> HIDE DEF u
<1>3. ASSUME NEW i \in DOMAIN u
      PROVE  \/ i \in DOMAIN s /\ u[i] = s[i]
             \/ i > Len(s) /\ i - Len(s) \in DOMAIN t /\ u[i] = t[i - Len(s)]
  <2>1. CASE i <= Len(s)
    BY <1>1, <2>1
  <2>2. CASE i > Len(s)
    <3>1. i - Len(s) \in DOMAIN t /\ Len(s) + (i - Len(s)) = i
      BY <1>1, <2>2
    <3> QED
      BY <1>1, <2>2, <3>1
  <2> QED
    BY <1>1, <2>1, <2>2
<1>4. /\ \A i \in DOMAIN s : i \in DOMAIN u /\ u[i] = s[i]
      /\ \A i \in DOMAIN t : Len(s) + i \in DOMAIN u /\ u[Len(s) + i] = t[i]
  BY <1>1
<1>5. ASSUME NEW task \in LoopTasks
      PROVE  Holds(u, task) <=> Holds(s, task) \/ Holds(t, task)
  <2>1. ASSUME NEW i \in DOMAIN u, u[i] = task
        PROVE  Holds(s, task) \/ Holds(t, task)
    BY <1>3, <2>1 DEF Holds
  <2>2. Holds(s, task) => Holds(u, task)
    BY <1>4 DEF Holds
  <2>3. ASSUME NEW i \in DOMAIN t, t[i] = task
        PROVE  Holds(u, task)
    BY <1>4, <2>3 DEF Holds
  <2> QED
    BY <2>1, <2>2, <2>3 DEF Holds
<1>6. ASSUME Ordered(s), Ordered(t),
             \A a, b \in LoopTasks : Holds(s, a) /\ Holds(t, b) => Follows(a, b)
      PROVE  Ordered(u)
  <2> SUFFICES ASSUME NEW i \in DOMAIN u, NEW j \in DOMAIN u, i < j
               PROVE  Follows(u[i], u[j])
    BY DEF Ordered
  <2>1. CASE j \in DOMAIN s /\ u[j] = s[j]
    <3>1. i \in DOMAIN s
      BY <1>1, <2>1
    <3> QED
      BY <1>4, <1>6, <2>1, <3>1 DEF Ordered
  <2>2. CASE j > Len(s) /\ j - Len(s) \in DOMAIN t /\ u[j] = t[j - Len(s)]
    <3>1. CASE i \in DOMAIN s /\ u[i] = s[i]
      <4>1. Holds(s, u[i]) /\ Holds(t, u[j]) /\ u[i] \in LoopTasks /\ u[j] \in LoopTasks
        BY <1>2, <2>2, <3>1 DEF Holds
      <4> QED
        BY <1>6, <4>1
    <3>2. CASE i - Len(s) \in DOMAIN t /\ u[i] = t[i - Len(s)]
      <4>1. i - Len(s) < j - Len(s)
        BY <1>1
      <4> QED
        BY <1>6, <2>2, <3>2, <4>1 DEF Ordered
    <3> QED
      BY <1>3, <3>1, <3>2
  <2> QED
    BY <1>3, <2>1, <2>2
<1> QED
  BY <1>1, <1>5, <1>6 DEF u

LEMMA LoopHolds ==
  /\ \A task : Dispatched(task) <=> Holds(loop, task)
  /\ \A task : Dispatched(task)' <=> Holds(loop', task)
  /\ LoopInOrder <=> Ordered(loop)
  /\ LoopInOrder' <=> Ordered(loop')
  BY DEF Dispatched, Holds, LoopInOrder, Ordered, Follows, After, ForReceive, ForSend

LEMMA LoopExtended ==
  ASSUME TypeOK, NEW added \in Seq(LoopTasks), loop' = loop \o added
  PROVE  /\ loop' \in Seq(LoopTasks)
         /\ \A task \in LoopTasks : Dispatched(task)' <=> Dispatched(task) \/ Holds(added, task)
         /\ /\ LoopInOrder /\ Ordered(added)
            /\ \A a, b \in LoopTasks : Dispatched(a) /\ Holds(added, b) => Follows(a, b)
            => LoopInOrder'
<1>1. loop \in Seq(LoopTasks)
  BY Lengths
<1> HIDE DEF Dispatched, LoopInOrder, Holds, Ordered, Follows
<1> QED
  BY <1>1, LoopHolds, TasksConcat

LEMMA LoopKept ==
  ASSUME loop' = loop
  PROVE  /\ \A task \in LoopTasks : Dispatched(task)' <=> Dispatched(task)
         /\ LoopInOrder => LoopInOrder'
  BY DEF Dispatched, LoopInOrder, Follows, After, ForReceive, ForSend

LEMMA PipeAppended ==
  ASSUME TypeOK, NEW last \in SendEvents, Pipe' = Append(Pipe, last)
  PROVE  /\ \A e \in SendEvents : Queued(e)' <=> Queued(e) \/ e = last
         /\ /\ Increasing(Pipe)
            /\ \A e \in SendEvents : Queued(e) /\ last.n # 0 => e.n < last.n
            => Increasing(Pipe)'
<1>1. Pipe \in Seq(SendEvents) /\ \A i \in DOMAIN Pipe : Pipe[i] \in SendEvents /\ Queued(Pipe[i])
  BY Lengths
<1>2. /\ DOMAIN Pipe' = 1..(Len(Pipe) + 1)
      /\ \A i \in 1..Len(Pipe) : Pipe'[i] = Pipe[i]
      /\ Pipe'[Len(Pipe) + 1] = last
      /\ Len(Pipe) \in Nat /\ DOMAIN Pipe = 1..Len(Pipe)
  BY <1>1, AppendFacts
<1> HIDE DEF Pipe
<1>3. \A e \in SendEvents : Queued(e)' <=> Queued(e) \/ e = last
  BY <1>2 DEF Queued
<1>4. ASSUME Increasing(Pipe), \A e \in SendEvents : Queued(e) /\ last.n # 0 => e.n < last.n
      PROVE  Increasing(Pipe)'
  <2> SUFFICES ASSUME NEW i \in DOMAIN Pipe', NEW j \in DOMAIN Pipe', i < j, Pipe'[j].n # 0
               PROVE  Pipe'[i].n < Pipe'[j].n
    BY DEF Increasing
  <2>1. i \in 1..Len(Pipe) /\ Pipe'[i] = Pipe[i]
    BY <1>2
  <2>2. CASE j \in 1..Len(Pipe)
    BY <1>2, <1>4, <2>1, <2>2 DEF Increasing
  <2>3. CASE j = Len(Pipe) + 1
    BY <1>1, <1>2, <1>4, <2>1, <2>3
  <2> QED
    BY <1>2, <2>2, <2>3
<1> QED
  BY <1>3, <1>4

LEMMA PipeTaken ==
  ASSUME TypeOK, Pipe # <<>>, Pipe' = Tail(Pipe)
  PROVE  /\ Head(Pipe) \in SendEvents /\ Queued(Head(Pipe)) /\ Head(Pipe) = Pipe[1]
         /\ \A e \in SendEvents : Queued(e) <=> Queued(e)' \/ e = Head(Pipe)
         /\ Increasing(Pipe) =>
              /\ Increasing(Pipe)'
              /\ \A e \in SendEvents : Queued(e)' /\ e.n # 0 => Head(Pipe).n < e.n
<1>1. Pipe \in Seq(SendEvents)
  BY Lengths
<1>2. /\ DOMAIN Pipe' = 1..(Len(Pipe) - 1)
      /\ \A i \in 1..(Len(Pipe) - 1) : Pipe'[i] = Pipe[i + 1]
      /\ Head(Pipe) = Pipe[1] /\ Head(Pipe) \in SendEvents
      /\ Len(Pipe) \in Nat \ {0} /\ DOMAIN Pipe = 1..Len(Pipe)
  BY <1>1, TailFacts
<1> HIDE DEF Pipe
<1>3. Queued(Head(Pipe))
  BY <1>2 DEF Queued
<1>4. /\ \A i \in DOMAIN Pipe : i = 1 \/ (i - 1 \in DOMAIN Pipe' /\ Pipe'[i - 1] = Pipe[i])
      /\ \A i \in DOMAIN Pipe' :
           1 < i + 1 /\ 1 \in DOMAIN Pipe /\ i + 1 \in DOMAIN Pipe /\ Pipe'[i] = Pipe[i + 1]
  BY <1>2
<1>5. \A e \in SendEvents : Queued(e) <=> Queued(e)' \/ e = Head(Pipe)
  BY ZenonT(60), <1>2, <1>3, <1>4 DEF Queued
<1>6. ASSUME Increasing(Pipe)
      PROVE  /\ Increasing(Pipe)'
             /\ \A e \in SendEvents : Queued(e)' /\ e.n # 0 => Head(Pipe).n < e.n
  <2>1. \A i, j \in DOMAIN Pipe' : i < j => i + 1 < j + 1
    BY <1>2
  <2>2. \A i, j \in DOMAIN Pipe' : i < j /\ Pipe'[j].n # 0 => Pipe'[i].n < Pipe'[j].n
    BY <1>4, <1>6, <2>1 DEF Increasing
  <2>3. \A i \in DOMAIN Pipe' : Pipe'[i].n # 0 => Head(Pipe).n < Pipe'[i].n
    BY <1>2, <1>4, <1>6 DEF Increasing
  <2> QED
    BY <2>2, <2>3 DEF Increasing, Queued
<1> QED
  BY <1>2, <1>3, <1>5, <1>6

LEMMA PipeKept ==
  ASSUME Pipe' = Pipe
  PROVE  /\ \A e \in SendEvents : Queued(e)' <=> Queued(e)
         /\ Increasing(Pipe) => Increasing(Pipe)'
<1> HIDE DEF Pipe
<1> QED
  BY DEF Queued, Increasing

LEMMA PipeEmptied ==
  ASSUME Pipe' = <<>>
  PROVE  /\ \A e \in SendEvents : ~Queued(e)'
         /\ Increasing(Pipe)'
<1> HIDE DEF Pipe
<1> QED
  BY DEF Queued, Increasing

LEMMA WrittenAppended ==
  ASSUME TypeOK, NEW f \in Frames, written' = Append(written, f)
  PROVE  /\ written' \in Seq(Frames)
         /\ DOMAIN written' = 1..(Len(written) + 1) /\ Len(written') = Len(written) + 1
         /\ \A i \in 1..Len(written) : written'[i] = written[i]
         /\ written'[Len(written) + 1] = f
         /\ \A k \in 0..MaxSends : IsWritten(k)' <=> IsWritten(k) \/ k = f.n
<1>1. written \in Seq(Frames) /\ Len(written) \in Nat /\ DOMAIN written = 1..Len(written)
  BY Lengths
<1>2. /\ written' \in Seq(Frames) /\ DOMAIN written' = 1..(Len(written) + 1)
      /\ Len(written') = Len(written) + 1
      /\ \A i \in 1..Len(written) : written'[i] = written[i]
      /\ written'[Len(written) + 1] = f
  BY <1>1, AppendFacts
<1>3. \A k \in 0..MaxSends : IsWritten(k)' <=> IsWritten(k) \/ k = f.n
  <2>1. Len(written) + 1 \in DOMAIN written'
    BY <1>1, <1>2
  <2>2. \A i \in DOMAIN written' : i \in DOMAIN written \/ i = Len(written) + 1
    BY <1>1, <1>2
  <2>3. \A i \in DOMAIN written : i \in DOMAIN written'
    BY <1>1, <1>2
  <2> QED
    BY <1>1, <1>2, <2>1, <2>2, <2>3 DEF IsWritten
<1> QED
  BY <1>2, <1>3

\* One task for each of a sequence of futures.
LEMMA TasksFacts ==
  ASSUME NEW kind \in {"disconnect", "refused"}, NEW m \in {MaxReceives, MaxSends},
         NEW futures \in Seq(1..m),
         \A j, k \in DOMAIN futures : j < k => futures[j] < futures[k]
  PROVE  /\ Tasks(kind, futures) \in Seq(LoopTasks)
         /\ \A task \in LoopTasks : Holds(Tasks(kind, futures), task) <=>
              /\ task.kind = kind /\ task.message = 0
              /\ \E k \in DOMAIN futures : futures[k] = task.n
         /\ Ordered(Tasks(kind, futures))
<1> DEFINE T == Tasks(kind, futures)
<1>1. /\ Len(futures) \in Nat /\ DOMAIN futures = 1..Len(futures)
      /\ \A k \in DOMAIN futures : futures[k] \in 1..m
  BY LenProperties, ElementOfSeq
<1>2. /\ m \in Nat /\ MaxMessages \in Nat
      /\ \A k \in 1..m : k \in 0..(MaxReceives + MaxSends)
  BY BoundsAssumption
<1>3. /\ DOMAIN T = 1..Len(futures)
      /\ \A k \in DOMAIN T : /\ T[k] \in LoopTasks
                             /\ T[k].kind = kind /\ T[k].message = 0 /\ T[k].n = futures[k]
  <2>1. T = [k \in 1..Len(futures) |-> [kind |-> kind, n |-> futures[k], message |-> 0]]
    BY <1>1 DEF Tasks, Task
  <2>2. \A k \in 1..Len(futures) : futures[k] \in 0..(MaxReceives + MaxSends)
    BY <1>1, <1>2
  <2>3. 0 \in 0..MaxMessages
    BY <1>2
  <2> HIDE DEF T
  <2> QED
    BY <2>1, <2>2, <2>3 DEF LoopTasks
<1>4. T \in Seq(LoopTasks)
  <2>1. T \in [1..Len(futures) -> LoopTasks]
    <3>1. T = [k \in DOMAIN T |-> T[k]]
      BY DEF Tasks
    <3> HIDE DEF T
    <3> QED
      BY <1>3, <3>1
  <2> HIDE DEF T
  <2> QED
    BY <1>1, <2>1, FunctionIsSeq
<1> HIDE DEF T
<1>5. \A task \in LoopTasks : Holds(T, task) <=>
        /\ task.kind = kind /\ task.message = 0
        /\ \E k \in DOMAIN futures : futures[k] = task.n
  <2> SUFFICES ASSUME NEW task \in LoopTasks
               PROVE  Holds(T, task) <=> /\ task.kind = kind /\ task.message = 0
                                         /\ \E k \in DOMAIN futures : futures[k] = task.n
    OBVIOUS
  <2>1. Holds(T, task) => /\ task.kind = kind /\ task.message = 0
                          /\ \E k \in DOMAIN futures : futures[k] = task.n
    BY <1>1, <1>3 DEF Holds
  <2>2. ASSUME task.kind = kind, task.message = 0, NEW k \in DOMAIN futures, futures[k] = task.n
        PROVE  Holds(T, task)
    <3>1. k \in DOMAIN T /\ T[k] \in LoopTasks
      BY <1>1, <1>3
    <3>2. T[k].kind = task.kind /\ T[k].n = task.n /\ T[k].message = task.message
      BY <1>3, <2>2, <3>1
    <3>3. T[k] = task
      <4>1. \A a, b \in LoopTasks :
              a.kind = b.kind /\ a.n = b.n /\ a.message = b.message => a = b
        BY DEF LoopTasks
      <4> QED
        BY <3>1, <3>2, <4>1
    <3> QED
      BY <3>1, <3>3 DEF Holds
  <2> QED
    BY <2>1, <2>2
<1>6. Ordered(T)
  <2> SUFFICES ASSUME NEW i \in DOMAIN T, NEW j \in DOMAIN T, i < j
               PROVE  Follows(T[i], T[j])
    BY DEF Ordered
  <2>1. T[i].n < T[j].n /\ T[i].kind = kind /\ T[j].kind = kind /\ T[j].message = 0
    BY <1>1, <1>3
  <2> QED
    BY <2>1 DEF Follows, After
<1> QED
  BY <1>4, <1>5, <1>6 DEF T

\* A close of both bridges dispatches, after some tasks, a disconnect for each
\* receive that waits and a refusal for each future among the events of send.
LEMMA BridgesClosed ==
  ASSUME TypeOK, Increasing(sendBridge.events),
         NEW tasks \in Seq(LoopTasks), NEW waiting \in Seq(1..MaxReceives),
         \A j, k \in DOMAIN waiting : j < k => waiting[j] < waiting[k],
         CloseBridges(tasks, waiting)
  PROVE  /\ loop' \in Seq(LoopTasks)
         /\ recvBridge' = ClosedBridge /\ sendBridge' = ClosedBridge
         /\ \A task \in LoopTasks : Dispatched(task)' <=>
              \/ Dispatched(task)
              \/ Holds(tasks, task)
              \/ /\ task.kind = "disconnect" /\ task.message = 0
                 /\ \E k \in DOMAIN waiting : waiting[k] = task.n
              \/ /\ task.kind = "refused" /\ task.message = 0 /\ task.n # 0
                 /\ \E i \in DOMAIN sendBridge.events : sendBridge.events[i].n = task.n
         /\ /\ LoopInOrder /\ Ordered(tasks)
            /\ \A a, b \in LoopTasks : Dispatched(a) /\ Holds(tasks, b) => Follows(a, b)
            /\ \A a \in LoopTasks, k \in DOMAIN waiting :
                 (Dispatched(a) \/ Holds(tasks, a)) /\ ForReceive(a) => a.n < waiting[k]
            /\ \A a \in LoopTasks, i \in DOMAIN sendBridge.events :
                 Dispatched(a) /\ ForSend(a) /\ sendBridge.events[i].n # 0
                   => a.n < sendBridge.events[i].n
            /\ \A a \in LoopTasks : Holds(tasks, a) => ~ForSend(a)
            => LoopInOrder'
<1> DEFINE events == sendBridge.events
           D == Tasks("disconnect", waiting)
           F == Futures(events)
           R == Tasks("refused", F)
           s1 == loop \o tasks
           s2 == s1 \o D
           s3 == s2 \o R
<1>1. /\ recvBridge' = ClosedBridge /\ sendBridge' = ClosedBridge /\ loop' = s3
  BY DEF CloseBridges
<1>2. loop \in Seq(LoopTasks) /\ events \in Seq(SendEvents)
  BY Lengths
<1>3. /\ F \in Seq(1..MaxSends)
      /\ \A j, k \in DOMAIN F : j < k => F[j] < F[k]
      /\ \A n \in Nat : (\E k \in DOMAIN F : F[k] = n) <=>
           (n # 0 /\ \E i \in DOMAIN events : events[i].n = n)
  <2> HIDE DEF events
  <2> QED
    BY <1>2, FuturesFacts DEF events
<1>4. /\ D \in Seq(LoopTasks) /\ Ordered(D)
      /\ \A task \in LoopTasks : Holds(D, task) <=>
           /\ task.kind = "disconnect" /\ task.message = 0
           /\ \E k \in DOMAIN waiting : waiting[k] = task.n
  <2> HIDE DEF Holds, Ordered
  <2> QED
    BY TasksFacts
<1>5. /\ R \in Seq(LoopTasks) /\ Ordered(R)
      /\ \A task \in LoopTasks : Holds(R, task) <=>
           /\ task.kind = "refused" /\ task.message = 0
           /\ \E k \in DOMAIN F : F[k] = task.n
  <2> HIDE DEF F, Holds, Ordered
  <2> QED
    BY <1>3, TasksFacts
<1>6. \A task \in LoopTasks : Holds(R, task) <=>
        /\ task.kind = "refused" /\ task.message = 0 /\ task.n # 0
        /\ \E i \in DOMAIN events : events[i].n = task.n
  <2>1. \A task \in LoopTasks : task.n \in Nat
    BY BoundsAssumption DEF LoopTasks
  <2> HIDE DEF R, F, events, Holds
  <2> QED
    BY <1>3, <1>5, <2>1
<1>7. /\ s1 \in Seq(LoopTasks)
      /\ \A task \in LoopTasks : Holds(s1, task) <=> Dispatched(task) \/ Holds(tasks, task)
      /\ /\ LoopInOrder /\ Ordered(tasks)
         /\ \A a, b \in LoopTasks : Dispatched(a) /\ Holds(tasks, b) => Follows(a, b)
         => Ordered(s1)
  <2> HIDE DEF Holds, Ordered, Dispatched, LoopInOrder, Follows
  <2> QED
    BY <1>2, LoopHolds, TasksConcat
<1>8. /\ s2 \in Seq(LoopTasks)
      /\ \A task \in LoopTasks : Holds(s2, task) <=> Holds(s1, task) \/ Holds(D, task)
      /\ /\ Ordered(s1)
         /\ \A a, b \in LoopTasks : Holds(s1, a) /\ Holds(D, b) => Follows(a, b)
         => Ordered(s2)
  <2> HIDE DEF s1, D, Holds, Ordered, Follows
  <2> QED
    BY <1>4, <1>7, TasksConcat
<1>9. /\ s3 \in Seq(LoopTasks)
      /\ \A task \in LoopTasks : Holds(s3, task) <=> Holds(s2, task) \/ Holds(R, task)
      /\ /\ Ordered(s2)
         /\ \A a, b \in LoopTasks : Holds(s2, a) /\ Holds(R, b) => Follows(a, b)
         => Ordered(s3)
  <2> HIDE DEF s2, R, Holds, Ordered, Follows
  <2> QED
    BY <1>5, <1>8, TasksConcat
<1> HIDE DEF s1, s2, s3, D, R, F
<1>10. /\ \A task \in LoopTasks : Dispatched(task)' <=> Holds(s3, task)
       /\ LoopInOrder' <=> Ordered(s3)
  <2> HIDE DEF Holds, Ordered, Dispatched, LoopInOrder
  <2> QED
    BY <1>1, LoopHolds
<1>11. ASSUME LoopInOrder, Ordered(tasks),
              \A a, b \in LoopTasks : Dispatched(a) /\ Holds(tasks, b) => Follows(a, b),
              \A a \in LoopTasks, k \in DOMAIN waiting :
                (Dispatched(a) \/ Holds(tasks, a)) /\ ForReceive(a) => a.n < waiting[k],
              \A a \in LoopTasks, i \in DOMAIN events :
                Dispatched(a) /\ ForSend(a) /\ events[i].n # 0 => a.n < events[i].n,
              \A a \in LoopTasks : Holds(tasks, a) => ~ForSend(a)
       PROVE  LoopInOrder'
  <2> HIDE DEF events, Dispatched, Holds, Ordered, LoopInOrder
  <2>1. ASSUME NEW a \in LoopTasks, NEW b \in LoopTasks, Holds(s1, a), Holds(D, b)
        PROVE  Follows(a, b)
    <3>1. b.kind = "disconnect" /\ b.message = 0 /\ \E k \in DOMAIN waiting : waiting[k] = b.n
      BY <1>4, <2>1
    <3>2. ForReceive(a) => a.n < b.n
      BY <1>7, <1>11, <2>1, <3>1
    <3> QED
      BY <3>1, <3>2 DEF Follows, After, ForSend
  <2>2. ASSUME NEW a \in LoopTasks, NEW b \in LoopTasks, Holds(s2, a), Holds(R, b)
        PROVE  Follows(a, b)
    <3>1. /\ b.kind = "refused" /\ b.message = 0 /\ b.n # 0
          /\ \E i \in DOMAIN events : events[i].n = b.n
      BY <1>6, <2>2
    <3>2. ForSend(a) => Dispatched(a)
      <4>1. Dispatched(a) \/ Holds(tasks, a) \/ Holds(D, a)
        BY <1>7, <1>8, <2>2
      <4>2. Holds(D, a) => a.kind = "disconnect"
        BY <1>4
      <4> QED
        BY <1>11, <4>1, <4>2 DEF ForSend
    <3>3. ForSend(a) => a.n < b.n
      BY <1>11, <3>1, <3>2
    <3> QED
      BY <3>1, <3>3 DEF Follows, After, ForReceive
  <2>3. Ordered(s1)
    BY <1>7, <1>11
  <2>4. Ordered(s2)
    BY <1>8, <2>1, <2>3
  <2>5. Ordered(s3)
    BY <1>9, <2>2, <2>4
  <2> QED
    BY <1>10, <2>5
<1>12. \A task \in LoopTasks : Dispatched(task)' <=>
         \/ Dispatched(task)
         \/ Holds(tasks, task)
         \/ /\ task.kind = "disconnect" /\ task.message = 0
            /\ \E k \in DOMAIN waiting : waiting[k] = task.n
         \/ /\ task.kind = "refused" /\ task.message = 0 /\ task.n # 0
            /\ \E i \in DOMAIN events : events[i].n = task.n
  <2> HIDE DEF events, Dispatched, Holds
  <2> QED
    BY <1>4, <1>6, <1>7, <1>8, <1>9, <1>10
<1>13. loop' \in Seq(LoopTasks)
  BY <1>1, <1>9
<1> QED
  BY <1>1, <1>11, <1>12, <1>13

-----------------------------------------------------------------------------
(* The futures of the receives.                                            *)

LEMMA ReceivingKept ==
  ASSUME TypeOK, Receiving, receives' = receives, recvBridge'.events = recvBridge.events,
         \A task \in LoopTasks : ForReceive(task) => (Dispatched(task)' <=> Dispatched(task))
  PROVE  Receiving'
<1> HIDE DEF Dispatched, LoopTasks
<1>1. Told' = Told
  BY DEF Told
<1>2. \A task \in LoopTasks : Dispatched(task)' => ReceiveTask(task)'
  BY <1>1 DEF Receiving, ReceiveTask, ForReceive, Waits
<1>3. \A k \in 1..Told : receives[k].is = "pending" =>
        \E task \in LoopTasks : Dispatched(task)' /\ ForReceive(task) /\ task.n = k
  BY DEF Receiving
<1> QED
  BY <1>1, <1>2, <1>3 DEF Receiving, ForReceive, Waits

\* The first futures on the bridge go to the loop.
LEMMA ReceivingMoved ==
  ASSUME TypeOK, Receiving, receives' = receives,
         NEW n \in 0..Len(recvBridge.events),
         Len(recvBridge'.events) = Len(recvBridge.events) - n,
         DOMAIN recvBridge'.events = 1..(Len(recvBridge.events) - n),
         \A i \in 1..(Len(recvBridge.events) - n) :
           recvBridge'.events[i] = recvBridge.events[n + i],
         \A task \in LoopTasks : ForReceive(task) =>
           /\ Dispatched(task) => Dispatched(task)'
           /\ Dispatched(task)' => Dispatched(task) \/ task.n \in (Told + 1)..(Told + n),
         \A k \in (Told + 1)..(Told + n) :
           \E task \in LoopTasks : Dispatched(task)' /\ ForReceive(task) /\ task.n = k
  PROVE  Receiving'
<1> HIDE DEF Dispatched, LoopTasks
<1>1. /\ Len(receives) \in Nat /\ DOMAIN receives = 1..Len(receives)
      /\ Len(recvBridge.events) \in Nat
      /\ DOMAIN recvBridge.events = 1..Len(recvBridge.events)
  BY Lengths
<1>2. Told \in Nat /\ Told' = Told + n /\ Told' \in Nat
  BY <1>1 DEF Told, Receiving
<1>3. \A i \in DOMAIN recvBridge'.events : recvBridge'.events[i] = Told' + i
  <2>1. \A i \in 1..(Len(recvBridge.events) - n) : n + i \in 1..Len(recvBridge.events)
    BY <1>1
  <2>2. \A i \in 1..(Len(recvBridge.events) - n) : recvBridge.events[n + i] = Told + (n + i)
    BY <1>1, <2>1 DEF Receiving
  <2>3. \A i \in 1..(Len(recvBridge.events) - n) : Told + (n + i) = (Told + n) + i
    BY <1>1, <1>2
  <2> HIDE DEF Told
  <2> QED
    BY <1>2, <2>2, <2>3
<1> HIDE DEF Told
<1>4. \A k \in DOMAIN receives : k > Told' => Waits(receives[k])
  BY <1>1, <1>2 DEF Receiving
<1>5. \A k \in 1..Told' : receives[k].is = "pending" =>
        \E task \in LoopTasks : Dispatched(task)' /\ ForReceive(task) /\ task.n = k
  <2>1. \A k \in 1..Told' : k \in 1..Told \/ k \in (Told + 1)..(Told + n)
    BY <1>2
  <2>2. ASSUME NEW k \in 1..Told, receives[k].is = "pending"
        PROVE  \E task \in LoopTasks : Dispatched(task)' /\ ForReceive(task) /\ task.n = k
    BY <2>2 DEF Receiving
  <2> QED
    BY <2>1, <2>2
<1>6. ASSUME NEW task \in LoopTasks, Dispatched(task)', ForReceive(task)
      PROVE  task.n \in 1..Told' /\ \A k \in task.n..Len(receives) : Waits(receives[k])
  <2>1. CASE Dispatched(task)
    <3>1. task.n \in 1..Told /\ \A k \in task.n..Len(receives) : Waits(receives[k])
      BY <1>6, <2>1 DEF Receiving, ReceiveTask
    <3> QED
      BY <1>2, <3>1
  <2>2. CASE task.n \in (Told + 1)..(Told + n)
    <3>1. \A k \in task.n..Len(receives) : k \in DOMAIN receives /\ k > Told
      BY <1>1, <1>2, <2>2
    <3>2. task.n \in 1..Told'
      BY <1>2, <2>2
    <3> QED
      BY <3>1, <3>2 DEF Receiving
  <2> QED
    BY <1>6, <2>1, <2>2
<1> QED
  BY <1>2, <1>3, <1>4, <1>5, <1>6 DEF Receiving, ReceiveTask, ForReceive, Waits

\* A call of receive adds a future.
LEMMA ReceiveFacts ==
  ASSUME TypeOK, Receive
  PROVE  /\ app # "none" /\ Len(receives) + 1 \in 1..MaxReceives
         /\ receives' \in Seq(Receives) /\ Len(receives') = Len(receives) + 1
         /\ DOMAIN receives' = 1..(Len(receives) + 1)
         /\ \A k \in DOMAIN receives : receives'[k] = receives[k]
         /\ receives'[Len(receives) + 1] = Received("pending", 0)
         /\ ~recvBridge.closed =>
              /\ recvBridge' = [recvBridge EXCEPT !.events = Append(@, Len(receives) + 1)]
              /\ commits' = Append(commits, "request") /\ loop' = loop
         /\ recvBridge.closed =>
              /\ recvBridge' = recvBridge /\ commits' = commits
              /\ loop' = Append(loop, Task("disconnect", Len(receives) + 1, 0))
              /\ Task("disconnect", Len(receives) + 1, 0) \in LoopTasks
<1>1. /\ receives \in Seq(Receives) /\ Len(receives) \in 0..MaxReceives
      /\ DOMAIN receives = 1..Len(receives)
  BY Lengths
<1>2. /\ app # "none" /\ Len(receives) < MaxReceives
      /\ receives' = Append(receives, Received("pending", 0))
      /\ recvBridge' = Sent(recvBridge, Len(receives) + 1)
      /\ IF recvBridge.closed
           THEN loop' = Append(loop, Task("disconnect", Len(receives) + 1, 0)) /\ commits' = commits
           ELSE commits' = Append(commits, "request") /\ loop' = loop
  BY DEF Receive
<1>3. Received("pending", 0) \in Receives
  BY BoundsAssumption DEF Received, Receives
<1>4. Len(receives) + 1 \in 1..MaxReceives
  BY <1>1, <1>2, BoundsAssumption
<1>5. /\ receives' \in Seq(Receives) /\ Len(receives') = Len(receives) + 1
      /\ DOMAIN receives' = 1..(Len(receives) + 1)
      /\ \A k \in 1..Len(receives) : receives'[k] = receives[k]
      /\ receives'[Len(receives) + 1] = Received("pending", 0)
  BY <1>1, <1>2, <1>3, AppendFacts
<1>6. Task("disconnect", Len(receives) + 1, 0) \in LoopTasks
  BY <1>4, BoundsAssumption DEF Task, LoopTasks
<1> QED
  BY <1>1, <1>2, <1>4, <1>5, <1>6 DEF Sent

LEMMA ReceivingReceive ==
  ASSUME TypeOK, Receiving, Receive
  PROVE  Receiving'
<1>1. /\ Len(receives') = Len(receives) + 1 /\ DOMAIN receives' = 1..(Len(receives) + 1)
      /\ \A k \in DOMAIN receives : receives'[k] = receives[k]
      /\ receives'[Len(receives) + 1] = Received("pending", 0)
  BY ReceiveFacts
<1>2. /\ Len(receives) \in Nat /\ DOMAIN receives = 1..Len(receives)
      /\ recvBridge.events \in Seq(1..MaxReceives) /\ Len(recvBridge.events) \in Nat
      /\ DOMAIN recvBridge.events = 1..Len(recvBridge.events)
      /\ recvBridge = [closed |-> recvBridge.closed, events |-> recvBridge.events]
      /\ recvBridge.closed => recvBridge.events = <<>>
  BY Lengths
<1>3. Waits(Received("pending", 0)) /\ \A k \in DOMAIN receives : k \in DOMAIN receives'
  BY <1>1, <1>2 DEF Waits, Received
<1>4. CASE ~recvBridge.closed
  <2>1. /\ recvBridge' = [recvBridge EXCEPT !.events = Append(@, Len(receives) + 1)]
        /\ loop' = loop /\ Len(receives) + 1 \in 1..MaxReceives
    BY <1>4, ReceiveFacts
  <2>2. recvBridge'.events = Append(recvBridge.events, Len(receives) + 1)
    BY <1>2, <2>1
  <2>3. /\ Len(recvBridge'.events) = Len(recvBridge.events) + 1
        /\ DOMAIN recvBridge'.events = 1..(Len(recvBridge.events) + 1)
        /\ \A i \in 1..Len(recvBridge.events) : recvBridge'.events[i] = recvBridge.events[i]
        /\ recvBridge'.events[Len(recvBridge.events) + 1] = Len(receives) + 1
    BY <1>2, <2>1, <2>2, AppendFacts
  <2>4. Told' = Told /\ Told \in Nat /\ Told <= Len(receives)
    BY <1>1, <1>2, <2>3 DEF Told, Receiving
  <2>5. \A i \in DOMAIN recvBridge'.events : recvBridge'.events[i] = Told + i
    <3>1. Told + (Len(recvBridge.events) + 1) = Len(receives) + 1
      BY <1>2 DEF Told
    <3>2. \A i \in 1..Len(recvBridge.events) : recvBridge.events[i] = Told + i
      BY <1>2 DEF Receiving
    <3>3. \A i \in 1..(Len(recvBridge.events) + 1) :
            i \in 1..Len(recvBridge.events) \/ i = Len(recvBridge.events) + 1
      BY <1>2
    <3> HIDE DEF Told
    <3> QED
      BY <2>3, <3>1, <3>2, <3>3
  <2> HIDE DEF Told
  <2>6. \A k \in DOMAIN receives' : k > Told => Waits(receives'[k])
    <3>1. \A k \in DOMAIN receives' : k \in DOMAIN receives \/ k = Len(receives) + 1
      BY <1>1, <1>2
    <3> QED
      BY <1>1, <1>3, <3>1 DEF Receiving
  <2>7. \A task \in LoopTasks : Dispatched(task)' <=> Dispatched(task)
    BY <2>1 DEF Dispatched
  <2>8. \A k \in 1..Told : receives'[k].is = "pending" =>
          \E task \in LoopTasks : Dispatched(task)' /\ ForReceive(task) /\ task.n = k
    <3>1. \A k \in 1..Told : k \in DOMAIN receives
      BY <1>2, <2>4
    <3> HIDE DEF Dispatched
    <3> QED
      BY <1>1, <2>7, <3>1 DEF Receiving
  <2>9. ASSUME NEW task \in LoopTasks, Dispatched(task), ForReceive(task)
        PROVE  task.n \in 1..Told /\ \A k \in task.n..Len(receives') : Waits(receives'[k])
    <3>1. task.n \in 1..Told /\ \A k \in task.n..Len(receives) : Waits(receives[k])
      BY <2>9 DEF Receiving, ReceiveTask
    <3>2. \A k \in task.n..(Len(receives) + 1) :
            (k \in task.n..Len(receives) /\ k \in DOMAIN receives) \/ k = Len(receives) + 1
      BY <1>2, <2>4, <3>1
    <3> QED
      BY <1>1, <1>3, <3>1, <3>2
  <2> HIDE DEF Dispatched, Waits, ForReceive
  <2>10. \A task \in LoopTasks : Dispatched(task)' => ReceiveTask(task)'
    BY <2>4, <2>7, <2>9 DEF ReceiveTask, ForReceive, Waits
  <2> QED
    BY <2>4, <2>5, <2>6, <2>8, <2>10 DEF Receiving, ForReceive, Waits
<1>5. CASE recvBridge.closed
  <2> DEFINE k == Len(receives) + 1
             t == Task("disconnect", k, 0)
  <2>1. recvBridge' = recvBridge /\ loop' = Append(loop, t) /\ t \in LoopTasks
    BY <1>5, ReceiveFacts
  <2>2. \A task \in LoopTasks : Dispatched(task)' <=> Dispatched(task) \/ task = t
    <3> HIDE DEF t
    <3> QED
      BY <2>1, LoopAppended
  <2>3. recvBridge.events = <<>> /\ recvBridge'.events = <<>> /\ Len(recvBridge.events) = 0
    BY <1>2, <1>5, <2>1
  <2>4. Told = Len(receives) /\ Told' = k /\ Told \in Nat
    BY <1>1, <1>2, <2>3 DEF Told
  <2>5. t.n = k /\ ForReceive(t)
    BY DEF Task, ForReceive
  <2> HIDE DEF t, Told, Dispatched
  <2>6. \A j \in DOMAIN receives' : ~(j > Told')
    BY <1>1, <1>2, <2>4
  <2>7. \A j \in 1..Told' : receives'[j].is = "pending" =>
          \E task \in LoopTasks : Dispatched(task)' /\ ForReceive(task) /\ task.n = j
    <3>1. \A j \in 1..Told' : (j \in 1..Told /\ j \in DOMAIN receives) \/ j = k
      BY <1>2, <2>4
    <3> QED
      BY <1>1, <2>1, <2>2, <2>5, <3>1 DEF Receiving
  <2>8. ASSUME NEW task \in LoopTasks, Dispatched(task)', ForReceive(task)
        PROVE  task.n \in 1..Told' /\ \A j \in task.n..Len(receives') : Waits(receives'[j])
    <3>1. CASE Dispatched(task)
      <4>1. task.n \in 1..Told /\ \A j \in task.n..Len(receives) : Waits(receives[j])
        BY <2>8, <3>1 DEF Receiving, ReceiveTask
      <4>2. \A j \in task.n..(Len(receives) + 1) :
              (j \in task.n..Len(receives) /\ j \in DOMAIN receives) \/ j = Len(receives) + 1
        BY <1>2, <2>4, <4>1
      <4> QED
        BY <1>1, <1>3, <2>4, <4>1, <4>2
    <3>2. CASE task = t
      <4>1. \A j \in k..(Len(receives) + 1) : j = Len(receives) + 1
        BY <1>2
      <4>2. k \in 1..k
        BY <1>2
      <4> QED
        BY <1>1, <1>3, <2>4, <2>5, <3>2, <4>1, <4>2
    <3> QED
      BY <2>2, <2>8, <3>1, <3>2
  <2> HIDE DEF k
  <2>9. Told' >= 0 /\ DOMAIN recvBridge'.events = {}
    BY <1>2, <2>3, <2>4 DEF k
  <2> QED
    BY <2>6, <2>7, <2>8, <2>9 DEF Receiving, ReceiveTask, ForReceive, Waits
<1> QED
  BY <1>4, <1>5

\* A receive that is cancelled.
LEMMA CancelFacts ==
  ASSUME TypeOK, NEW n, CancelReceive(n)
  PROVE  /\ n \in DOMAIN receives /\ receives[n].is = "pending"
         /\ receives' \in Seq(Receives) /\ Len(receives') = Len(receives)
         /\ DOMAIN receives' = DOMAIN receives
         /\ \A k \in DOMAIN receives : k # n => receives'[k] = receives[k]
         /\ receives'[n].is = "cancelled" /\ receives'[n].message = receives[n].message
<1>1. /\ n \in DOMAIN receives /\ receives[n].is = "pending"
      /\ receives' = [receives EXCEPT ![n].is = "cancelled"]
  BY DEF CancelReceive
<1>2. /\ receives \in Seq(Receives) /\ Len(receives) \in Nat
      /\ DOMAIN receives = 1..Len(receives)
      /\ \A k \in DOMAIN receives : receives[k] \in Receives
  BY Lengths
<1>3. PICK r : r = [receives[n] EXCEPT !.is = "cancelled"]
  OBVIOUS
<1>4. r \in Receives /\ r.is = "cancelled" /\ r.message = receives[n].message
  <2>1. receives[n] \in Receives
    BY <1>1, <1>2
  <2> QED
    BY <1>3, <2>1 DEF Receives
<1>5. receives' = [receives EXCEPT ![n] = r]
  BY <1>1, <1>3
<1>6. /\ receives' \in Seq(Receives) /\ Len(receives') = Len(receives)
      /\ \A k \in 1..Len(receives) : receives'[k] = IF k = n THEN r ELSE receives[k]
  BY <1>1, <1>2, <1>4, <1>5, ExceptSeq
<1>7. DOMAIN receives' = 1..Len(receives)
  BY <1>2, <1>6, LenProperties
<1> QED
  BY <1>1, <1>2, <1>4, <1>6, <1>7

LEMMA ReceivingCancel ==
  ASSUME TypeOK, Receiving, NEW n, CancelReceive(n)
  PROVE  Receiving'
<1>1. /\ n \in DOMAIN receives /\ receives[n].is = "pending"
      /\ Len(receives') = Len(receives) /\ DOMAIN receives' = DOMAIN receives
      /\ \A k \in DOMAIN receives : k # n => receives'[k] = receives[k]
      /\ receives'[n].is = "cancelled" /\ receives'[n].message = receives[n].message
  BY CancelFacts
<1>2. recvBridge' = recvBridge /\ loop' = loop
  BY DEF CancelReceive, bridgeVars
<1>3. \A task \in LoopTasks : Dispatched(task)' <=> Dispatched(task)
  BY <1>2 DEF Dispatched
<1>4. Told' = Told
  BY <1>1, <1>2 DEF Told
<1>5. \A k \in DOMAIN receives : Waits(receives[k]) => Waits(receives'[k])
  BY <1>1 DEF Waits
<1>6. \A k \in DOMAIN receives : receives'[k].is = "pending" => receives[k].is = "pending"
  BY <1>1
<1>7. /\ Len(receives) \in Nat /\ DOMAIN receives = 1..Len(receives)
      /\ Len(recvBridge.events) \in Nat
  BY Lengths
<1>8. Told \in Nat /\ 1..Told \subseteq DOMAIN receives
  BY <1>7 DEF Told, Receiving
<1> HIDE DEF Told, Dispatched
<1>9. ASSUME NEW task \in LoopTasks, Dispatched(task), ForReceive(task)
      PROVE  task.n \in 1..Told /\ \A k \in task.n..Len(receives) : Waits(receives'[k])
  <2>1. task.n \in 1..Told /\ \A k \in task.n..Len(receives) : Waits(receives[k])
    BY <1>9 DEF Receiving, ReceiveTask
  <2>2. task.n..Len(receives) \subseteq DOMAIN receives
    BY <1>7, <1>8, <2>1
  <2> QED
    BY <1>5, <2>1, <2>2
<1>10. \A task \in LoopTasks : Dispatched(task)' => ReceiveTask(task)'
  <2> HIDE DEF ForReceive, Waits
  <2> QED
    BY <1>1, <1>3, <1>4, <1>9 DEF ReceiveTask, ForReceive, Waits
<1>11. \A k \in 1..Told : receives'[k].is = "pending" =>
         \E task \in LoopTasks : Dispatched(task)' /\ ForReceive(task) /\ task.n = k
  BY <1>3, <1>6, <1>8 DEF Receiving
<1>12. \A k \in DOMAIN receives' : k > Told' => Waits(receives'[k])
  BY <1>1, <1>4, <1>5 DEF Receiving
<1> QED
  BY <1>2, <1>4, <1>8, <1>10, <1>11, <1>12 DEF Receiving, ForReceive, Waits

\* A task that completes a receive.
LEMMA CompleteFacts ==
  ASSUME TypeOK, Receiving, LoopInOrder, RunTask, ForReceive(Head(loop))
  PROVE  LET t == Head(loop)
         IN  /\ t \in LoopTasks /\ Dispatched(t) /\ t.n \in DOMAIN receives /\ t.n \in 1..Told
             /\ loop # <<>> /\ loop' = Tail(loop) /\ sends' = sends /\ app' = app
             /\ receives' \in Seq(Receives) /\ Len(receives') = Len(receives)
             /\ DOMAIN receives' = DOMAIN receives
             /\ \A k \in DOMAIN receives : k # t.n => receives'[k] = receives[k]
             /\ receives[t.n].is \in {"pending", "cancelled"}
             /\ receives'[t.n].is = IF receives[t.n].is = "pending" THEN t.kind ELSE "cancelled"
             /\ receives'[t.n].message = t.message
<1> DEFINE t == Head(loop)
<1>1. loop # <<>> /\ loop' = Tail(loop) /\ Complete(t)
  BY DEF RunTask, ForReceive
<1>2. t \in LoopTasks /\ Dispatched(t)
  BY <1>1, LoopTaken
<1>3. t.n \in 1..Told /\ \A k \in t.n..Len(receives) : Waits(receives[k])
  BY <1>2 DEF Receiving, ReceiveTask
<1>4. /\ receives \in Seq(Receives) /\ Len(receives) \in Nat
      /\ DOMAIN receives = 1..Len(receives) /\ Len(recvBridge.events) \in Nat
  BY Lengths
<1>5. t.n \in DOMAIN receives /\ t.n \in t.n..Len(receives)
  BY <1>3, <1>4 DEF Told
<1>6. receives[t.n].is \in {"pending", "cancelled"}
  BY <1>3, <1>5 DEF Waits
<1> HIDE DEF t
<1>7. PICK r : r = Received(IF receives[t.n].is = "pending" THEN t.kind ELSE receives[t.n].is,
                            t.message)
  OBVIOUS
<1>8. /\ r \in Receives /\ r.message = t.message
      /\ r.is = IF receives[t.n].is = "pending" THEN t.kind ELSE "cancelled"
  <2>1. t.kind \in {"connect", "message", "disconnect"} /\ t.message \in 0..MaxMessages
    BY <1>2 DEF LoopTasks, ForReceive, t
  <2> QED
    BY <1>6, <1>7, <2>1 DEF Received, Receives
<1>9. receives' = [receives EXCEPT ![t.n] = r] /\ sends' = sends /\ app' = app
  BY <1>1, <1>5, <1>7 DEF Complete
<1>10. /\ receives' \in Seq(Receives) /\ Len(receives') = Len(receives)
       /\ \A k \in 1..Len(receives) : receives'[k] = IF k = t.n THEN r ELSE receives[k]
  BY <1>4, <1>5, <1>8, <1>9, ExceptSeq
<1>11. DOMAIN receives' = 1..Len(receives)
  BY <1>4, <1>10, LenProperties
<1> QED
  BY <1>1, <1>2, <1>3, <1>4, <1>5, <1>6, <1>8, <1>9, <1>10, <1>11 DEF t

LEMMA ReceivingComplete ==
  ASSUME TypeOK, Receiving, LoopInOrder, RunTask, ForReceive(Head(loop))
  PROVE  Receiving'
<1> DEFINE t == Head(loop)
<1>1. /\ t \in LoopTasks /\ t.n \in DOMAIN receives /\ t.n \in 1..Told
      /\ loop # <<>> /\ loop' = Tail(loop)
      /\ Len(receives') = Len(receives) /\ DOMAIN receives' = DOMAIN receives
      /\ \A k \in DOMAIN receives : k # t.n => receives'[k] = receives[k]
      /\ receives[t.n].is \in {"pending", "cancelled"}
      /\ receives'[t.n].is = IF receives[t.n].is = "pending" THEN t.kind ELSE "cancelled"
  BY CompleteFacts
<1>2. /\ \A task \in LoopTasks : Dispatched(task) <=> Dispatched(task)' \/ task = t
      /\ \A task \in LoopTasks : Dispatched(task)' => Follows(t, task)
  BY <1>1, LoopTaken
<1>3. recvBridge' = recvBridge
  BY DEF RunTask, bridgeVars
<1>4. Told' = Told
  BY <1>1, <1>3 DEF Told
<1>5. /\ Len(receives) \in Nat /\ DOMAIN receives = 1..Len(receives)
      /\ Len(recvBridge.events) \in Nat
  BY Lengths
<1>6. Told \in Nat /\ 1..Told \subseteq DOMAIN receives
  BY <1>5 DEF Told, Receiving
<1>7. ForReceive(t) /\ t.kind \in {"connect", "message", "disconnect"}
  BY DEF ForReceive
<1> HIDE DEF t, Told, Dispatched
<1>8. ASSUME NEW task \in LoopTasks, Dispatched(task)', ForReceive(task)
      PROVE  task.n \in 1..Told /\ \A k \in task.n..Len(receives) : Waits(receives'[k])
  <2>1. task.n \in 1..Told /\ \A k \in task.n..Len(receives) : Waits(receives[k])
    BY <1>2, <1>8 DEF Receiving, ReceiveTask
  <2>2. t.n < task.n
    BY <1>2, <1>7, <1>8 DEF Follows
  <2>3. \A k \in task.n..Len(receives) : k \in DOMAIN receives /\ k # t.n
    BY <1>1, <1>5, <1>6, <2>1, <2>2
  <2> QED
    BY <1>1, <2>1, <2>3
<1>9. \A task \in LoopTasks : Dispatched(task)' => ReceiveTask(task)'
  <2> HIDE DEF ForReceive, Waits
  <2> QED
    BY <1>1, <1>4, <1>8 DEF ReceiveTask, ForReceive, Waits
<1>10. \A k \in 1..Told : receives'[k].is = "pending" =>
         \E task \in LoopTasks : Dispatched(task)' /\ ForReceive(task) /\ task.n = k
  <2> SUFFICES ASSUME NEW k \in 1..Told, receives'[k].is = "pending"
               PROVE  \E task \in LoopTasks :
                        Dispatched(task)' /\ ForReceive(task) /\ task.n = k
    OBVIOUS
  <2>1. k # t.n
    BY <1>1, <1>7
  <2>2. receives[k].is = "pending"
    BY <1>1, <1>6, <2>1
  <2>3. PICK task \in LoopTasks : Dispatched(task) /\ ForReceive(task) /\ task.n = k
    BY <2>2 DEF Receiving
  <2>4. Dispatched(task)'
    BY <1>2, <2>1, <2>3
  <2> QED
    BY <2>3, <2>4
<1>11. \A k \in DOMAIN receives' : k > Told' => Waits(receives'[k])
  <2>1. \A k \in DOMAIN receives : k > Told => k # t.n
    BY <1>1, <1>5, <1>6
  <2> QED
    BY <1>1, <1>4, <2>1 DEF Receiving
<1> QED
  BY <1>3, <1>4, <1>6, <1>9, <1>10, <1>11 DEF Receiving, ForReceive, Waits

-----------------------------------------------------------------------------
(* The futures of the sends.                                               *)

\* Neither started nor accepted again.
SendStateKept == sendState' \in {sendState, "closed"}

LEMMA SendingKept ==
  ASSUME TypeOK, Sending, sends' = sends, SendStateKept,
         \A e \in SendEvents : Queued(e)' <=> Queued(e), Increasing(Pipe)',
         \A task \in LoopTasks : ForSend(task) => (Dispatched(task)' <=> Dispatched(task)),
         \A k \in 1..MaxSends : IsWritten(k)' <=> IsWritten(k)
  PROVE  Sending'
<1>1. /\ DOMAIN sends \subseteq 1..MaxSends
  <2>1. Len(sends) \in 0..MaxSends /\ DOMAIN sends = 1..Len(sends)
    BY Lengths
  <2> QED
    BY <2>1, BoundsAssumption
<1> HIDE DEF Dispatched, LoopTasks, SendEvents, Queued, IsWritten, Increasing, Pipe
<1>2. ASSUME NEW task \in LoopTasks, Dispatched(task)' PROVE SendTask(task)'
  <2>1. CASE ForSend(task)
    <3>1. SendTask(task) /\ task.n \in 1..MaxSends
      BY <1>1, <1>2, <2>1 DEF Sending, SendTask
    <3> QED
      BY <2>1, <3>1 DEF SendTask, ForSend
  <2>2. CASE ~ForSend(task)
    BY <2>2 DEF SendTask, ForSend
  <2> QED
    BY <2>1, <2>2
<1>3. \A e \in SendEvents : Queued(e)' => InThePipe(e)'
  BY DEF Sending, InThePipe
<1>4. \A k \in DOMAIN sends :
        /\ sends[k] = "pending" =>
             \/ \E e \in SendEvents : Queued(e)' /\ e.n = k
             \/ \E task \in LoopTasks : Dispatched(task)' /\ ForSend(task) /\ task.n = k
        /\ sends[k] = "sent" => IsWritten(k)'
        /\ sends[k] = "refused" => ~IsWritten(k)'
  BY <1>1 DEF Sending
<1>5. \A k \in 1..MaxSends : IsWritten(k)' =>
        /\ k <= Len(sends)
        /\ \A e \in SendEvents : Queued(e)' /\ e.n # 0 => k < e.n
  BY DEF Sending
<1>6. (sendState' = "started" => sends = <<>>) /\ (sendState' = "accepted" => sends # <<>>)
  BY DEF Sending, SendStateKept
<1> QED
  BY <1>2, <1>3, <1>4, <1>5, <1>6 DEF Sending, ForSend

\* An event without a future joins the others,
LEMMA SendingEvent ==
  ASSUME TypeOK, Sending, sends' = sends, SendStateKept, loop' = loop, written' = written,
         NEW last \in SendEvents, last.n = 0, last.kind \notin {"accept", "message"},
         Pipe' = Append(Pipe, last)
  PROVE  Sending'
<1>1. /\ \A e \in SendEvents : Queued(e)' <=> Queued(e) \/ e = last
      /\ /\ Increasing(Pipe)
         /\ \A e \in SendEvents : Queued(e) /\ last.n # 0 => e.n < last.n
         => Increasing(Pipe)'
  <2> HIDE DEF Pipe, Queued, Increasing
  <2> QED
    BY PipeAppended
<1>2. \A task \in LoopTasks : Dispatched(task)' <=> Dispatched(task)
  BY DEF Dispatched
<1>3. \A k \in 1..MaxSends : IsWritten(k)' <=> IsWritten(k)
  BY DEF IsWritten
<1>4. Increasing(Pipe)'
  BY <1>1 DEF Sending
<1> HIDE DEF Dispatched, LoopTasks, SendEvents, Queued, IsWritten, Increasing, Pipe
<1>5. \A e \in SendEvents : Queued(e)' => InThePipe(e)'
  BY <1>1 DEF Sending, InThePipe
<1>6. \A task \in LoopTasks : Dispatched(task)' => SendTask(task)'
  <2> SUFFICES ASSUME NEW task \in LoopTasks, Dispatched(task)' PROVE SendTask(task)'
    OBVIOUS
  <2>1. SendTask(task)
    BY <1>2 DEF Sending
  <2>2. IsWritten(task.n)' <=> IsWritten(task.n)
    BY DEF IsWritten
  <2> QED
    BY <1>1, <2>1, <2>2 DEF SendTask, ForSend
<1>7. \A k \in DOMAIN sends :
        /\ sends[k] = "pending" =>
             \/ \E e \in SendEvents : Queued(e)' /\ e.n = k
             \/ \E task \in LoopTasks : Dispatched(task)' /\ ForSend(task) /\ task.n = k
        /\ sends[k] = "sent" => IsWritten(k)'
        /\ sends[k] = "refused" => ~IsWritten(k)'
  <2>1. \A k : IsWritten(k)' <=> IsWritten(k)
    BY DEF IsWritten
  <2> QED
    BY <1>1, <1>2, <2>1 DEF Sending
<1>8. \A k \in 1..MaxSends : IsWritten(k)' =>
        /\ k <= Len(sends)
        /\ \A e \in SendEvents : Queued(e)' /\ e.n # 0 => k < e.n
  BY <1>1, <1>3 DEF Sending
<1>9. (sendState' = "started" => sends = <<>>) /\ (sendState' = "accepted" => sends # <<>>)
  BY DEF Sending, SendStateKept
<1> QED
  BY <1>4, <1>5, <1>6, <1>7, <1>8, <1>9 DEF Sending, ForSend

\* A send that returns a future.
SendsOne ==
  /\ Len(sends) + 1 \in 1..MaxSends /\ sends' = Append(sends, "pending")
  /\ sendState \in {"started", "accepted"} /\ sendState' = "accepted"

LEMMA SendsOneFacts ==
  ASSUME TypeOK, SendsOne
  PROVE  /\ sends' \in Seq({"pending", "sent", "refused"}) /\ Len(sends') = Len(sends) + 1
         /\ DOMAIN sends' = 1..(Len(sends) + 1) /\ DOMAIN sends = 1..Len(sends)
         /\ \A k \in DOMAIN sends : k \in DOMAIN sends' /\ sends'[k] = sends[k]
         /\ sends'[Len(sends) + 1] = "pending"
         /\ sends' # <<>> /\ Len(sends) \in Nat
         /\ \A k \in DOMAIN sends' : k \in DOMAIN sends \/ k = Len(sends) + 1
<1>1. sends \in Seq({"pending", "sent", "refused"}) /\ Len(sends) \in Nat
      /\ DOMAIN sends = 1..Len(sends)
  BY Lengths
<1>2. /\ sends' \in Seq({"pending", "sent", "refused"}) /\ Len(sends') = Len(sends) + 1
      /\ DOMAIN sends' = 1..(Len(sends) + 1)
      /\ \A k \in 1..Len(sends) : sends'[k] = sends[k]
      /\ sends'[Len(sends) + 1] = "pending"
  BY <1>1, AppendFacts DEF SendsOne
<1>3. sends' # <<>>
  BY <1>1, <1>2
<1> QED
  BY <1>1, <1>2, <1>3

\* Its event joins the others,
LEMMA SendingFuture ==
  ASSUME TypeOK, Sending, SendsOne, loop' = loop, written' = written,
         NEW last \in SendEvents, last.n = Len(sends) + 1,
         last.kind = IF sendState = "started" THEN "accept" ELSE "message",
         Pipe' = Append(Pipe, last)
  PROVE  Sending'
<1>1. /\ Len(sends') = Len(sends) + 1 /\ DOMAIN sends = 1..Len(sends) /\ Len(sends) \in Nat
      /\ \A k \in DOMAIN sends : k \in DOMAIN sends' /\ sends'[k] = sends[k]
      /\ Len(sends) + 1 \in DOMAIN sends' /\ sends'[Len(sends) + 1] = "pending" /\ sends' # <<>>
      /\ \A k \in DOMAIN sends' : k \in DOMAIN sends \/ k = Len(sends) + 1
      /\ sendState' = "accepted" /\ sendState \in {"started", "accepted"}
  BY SendsOneFacts DEF SendsOne
<1>2. /\ \A e \in SendEvents : Queued(e)' <=> Queued(e) \/ e = last
      /\ /\ Increasing(Pipe)
         /\ \A e \in SendEvents : Queued(e) /\ last.n # 0 => e.n < last.n
         => Increasing(Pipe)'
  <2> HIDE DEF Pipe, Queued, Increasing
  <2> QED
    BY PipeAppended
<1>3. /\ \A task \in LoopTasks : Dispatched(task)' <=> Dispatched(task)
      /\ \A k : IsWritten(k)' <=> IsWritten(k)
  BY DEF Dispatched, IsWritten
<1>4. \A e \in SendEvents : e.n \in Nat
  BY BoundsAssumption DEF SendEvents
<1> HIDE DEF Dispatched, LoopTasks, SendEvents, Queued, IsWritten, Increasing, Pipe
<1>5. \A e \in SendEvents : Queued(e) => e.n < Len(sends) + 1
  <2>1. \A e \in SendEvents : Queued(e) => e.n = 0 \/ e.n \in 1..Len(sends)
    BY <1>1 DEF Sending, InThePipe
  <2> QED
    BY <1>1, <2>1
<1>6. Increasing(Pipe)'
  BY <1>2, <1>5 DEF Sending
<1>7. InThePipe(last)'
  <2>1. last.n # 0 /\ (last.n = 1 <=> sends = <<>>)
    <3>1. sends = <<>> <=> Len(sends) = 0
      <4>1. sends \in Seq({"pending", "sent", "refused"})
        BY Lengths
      <4> QED
        BY <4>1, EmptySeq
    <3> QED
      BY <1>1, <3>1
  <2>2. sendState = "started" <=> sends = <<>>
    BY <1>1 DEF Sending
  <2> QED
    BY <1>1, <2>1, <2>2 DEF InThePipe
<1>8. \A e \in SendEvents : Queued(e)' => InThePipe(e)'
  <2>1. \A e \in SendEvents : Queued(e) => InThePipe(e)'
    BY <1>1 DEF Sending, InThePipe
  <2> QED
    BY <1>2, <1>7, <2>1
<1>9. \A task \in LoopTasks : Dispatched(task)' => SendTask(task)'
  <2> SUFFICES ASSUME NEW task \in LoopTasks, Dispatched(task)' PROVE SendTask(task)'
    OBVIOUS
  <2>1. SendTask(task)
    BY <1>3 DEF Sending
  <2>2. ForSend(task) => task.n < Len(sends) + 1
    BY <1>1, <2>1 DEF SendTask
  <2> QED
    BY <1>1, <1>2, <1>3, <2>1, <2>2 DEF SendTask, ForSend
<1>10. \A k \in DOMAIN sends' :
        /\ sends'[k] = "pending" =>
             \/ \E e \in SendEvents : Queued(e)' /\ e.n = k
             \/ \E task \in LoopTasks : Dispatched(task)' /\ ForSend(task) /\ task.n = k
        /\ sends'[k] = "sent" => IsWritten(k)'
        /\ sends'[k] = "refused" => ~IsWritten(k)'
  BY <1>1, <1>2, <1>3 DEF Sending
<1>11. \A k \in 1..MaxSends : IsWritten(k)' =>
         /\ k <= Len(sends')
         /\ \A e \in SendEvents : Queued(e)' /\ e.n # 0 => k < e.n
  <2> SUFFICES ASSUME NEW k \in 1..MaxSends, IsWritten(k)
               PROVE  /\ k <= Len(sends')
                      /\ \A e \in SendEvents : Queued(e)' /\ e.n # 0 => k < e.n
    BY <1>3
  <2>1. k <= Len(sends) /\ \A e \in SendEvents : Queued(e) /\ e.n # 0 => k < e.n
    BY DEF Sending
  <2>2. k < Len(sends) + 1 /\ k <= Len(sends) + 1
    BY <1>1, <2>1
  <2> QED
    BY <1>1, <1>2, <2>1, <2>2
<1> QED
  BY <1>1, <1>6, <1>8, <1>9, <1>10, <1>11 DEF Sending, ForSend

\* or is refused at once, when nothing waits on the bridge.
LEMMA SendingRefused ==
  ASSUME TypeOK, Sending, SendsOne, Pipe = <<>>, Pipe' = <<>>, written' = written,
         loop' = Append(loop, Task("refused", Len(sends) + 1, 0))
  PROVE  /\ Sending'
         /\ Task("refused", Len(sends) + 1, 0) \in LoopTasks
         /\ LoopInOrder => LoopInOrder'
<1> DEFINE m == Len(sends) + 1
           t == Task("refused", m, 0)
<1>1. /\ Len(sends') = m /\ DOMAIN sends = 1..Len(sends) /\ Len(sends) \in Nat
      /\ \A k \in DOMAIN sends : k \in DOMAIN sends' /\ sends'[k] = sends[k]
      /\ m \in DOMAIN sends' /\ sends'[m] = "pending" /\ sends' # <<>>
      /\ \A k \in DOMAIN sends' : k \in DOMAIN sends \/ k = m
      /\ m \in 1..MaxSends /\ sendState' = "accepted"
  BY SendsOneFacts DEF SendsOne
<1>2. t \in LoopTasks /\ t.kind = "refused" /\ t.n = m /\ t.message = 0
  BY <1>1, BoundsAssumption DEF Task, LoopTasks
<1>3. /\ \A task \in LoopTasks : Dispatched(task)' <=> Dispatched(task) \/ task = t
      /\ /\ LoopInOrder
         /\ \A task \in LoopTasks : Dispatched(task) => Follows(task, t)
         => LoopInOrder'
  <2>1. loop' = Append(loop, t)
    OBVIOUS
  <2> HIDE DEF t, Dispatched, LoopInOrder, Follows
  <2> QED
    BY <1>2, <2>1, LoopAppended
<1>4. /\ \A e \in SendEvents : ~Queued(e) /\ ~Queued(e)'
      /\ Increasing(Pipe)'
  <2> HIDE DEF Pipe
  <2> QED
    BY DEF Queued, Increasing
<1>5. \A k : IsWritten(k)' <=> IsWritten(k)
  BY DEF IsWritten
<1> HIDE DEF Dispatched, LoopTasks, SendEvents, Queued, IsWritten, Increasing, Pipe, t, LoopInOrder
<1>6. LoopInOrder => LoopInOrder'
  <2>1. ASSUME NEW task \in LoopTasks, Dispatched(task) PROVE Follows(task, t)
    <3>1. SendTask(task)
      BY <2>1 DEF Sending
    <3>2. ForSend(task) => task.n < m
      BY <1>1, <3>1 DEF SendTask
    <3> QED
      BY <1>2, <3>2 DEF Follows, After, ForReceive
  <2> QED
    BY <1>3, <2>1
<1>7. ~IsWritten(m)
  <2>1. IsWritten(m) => m <= Len(sends)
    BY <1>1 DEF Sending
  <2> QED
    BY <1>1, <2>1
<1>8. \A task \in LoopTasks : Dispatched(task)' => SendTask(task)'
  <2> SUFFICES ASSUME NEW task \in LoopTasks, Dispatched(task)' PROVE SendTask(task)'
    OBVIOUS
  <2>1. CASE Dispatched(task)
    <3>1. SendTask(task)
      BY <2>1 DEF Sending
    <3> QED
      BY <1>1, <1>4, <1>5, <3>1 DEF SendTask, ForSend
  <2>2. CASE task = t
    BY <1>1, <1>2, <1>4, <1>5, <1>7, <2>2 DEF SendTask, ForSend
  <2> QED
    BY <1>3, <2>1, <2>2
<1>9. ASSUME NEW k \in DOMAIN sends'
      PROVE  /\ sends'[k] = "pending" =>
                \/ \E e \in SendEvents : Queued(e)' /\ e.n = k
                \/ \E task \in LoopTasks : Dispatched(task)' /\ ForSend(task) /\ task.n = k
             /\ sends'[k] = "sent" => IsWritten(k)'
             /\ sends'[k] = "refused" => ~IsWritten(k)'
  <2>1. CASE k \in DOMAIN sends
    <3>1. /\ sends[k] = "pending" =>
               \/ \E e \in SendEvents : Queued(e) /\ e.n = k
               \/ \E task \in LoopTasks : Dispatched(task) /\ ForSend(task) /\ task.n = k
          /\ sends[k] = "sent" => IsWritten(k)
          /\ sends[k] = "refused" => ~IsWritten(k)
      BY <2>1 DEF Sending
    <3>2. ASSUME sends[k] = "pending"
          PROVE  \E task \in LoopTasks : Dispatched(task)' /\ ForSend(task) /\ task.n = k
      <4>1. PICK task \in LoopTasks : Dispatched(task) /\ ForSend(task) /\ task.n = k
        BY <1>4, <3>1, <3>2
      <4>2. Dispatched(task)'
        BY <1>3, <4>1
      <4> QED
        BY <4>1, <4>2
    <3>3. sends'[k] = sends[k]
      BY <1>1, <2>1
    <3> QED
      BY <1>5, <3>1, <3>2, <3>3
  <2>2. CASE k = m
    <3>1. PICK task \in LoopTasks : task = t
      BY <1>2
    <3>2. Dispatched(task)'
      BY <1>3, <3>1
    <3>3. ForSend(task) /\ task.n = k
      BY <1>2, <2>2, <3>1 DEF ForSend
    <3>4. sends'[k] = "pending"
      BY <1>1, <2>2
    <3> QED
      BY <3>2, <3>3, <3>4
  <2> QED
    BY <1>1, <2>1, <2>2
<1>10. \A k \in 1..MaxSends : IsWritten(k)' =>
         /\ k <= Len(sends')
         /\ \A e \in SendEvents : Queued(e)' /\ e.n # 0 => k < e.n
  <2> SUFFICES ASSUME NEW k \in 1..MaxSends, IsWritten(k)
               PROVE  k <= Len(sends')
    BY <1>4, <1>5
  <2>1. k <= Len(sends)
    BY DEF Sending
  <2> QED
    BY <1>1, <2>1
<1>11. \A e \in SendEvents : Queued(e)' => InThePipe(e)'
  BY <1>4
<1> QED
  BY <1>1, <1>2, <1>4, <1>6, <1>8, <1>9, <1>10, <1>11 DEF Sending, ForSend, t

\* A task that completes a send.
LEMMA CompleteSendFacts ==
  ASSUME TypeOK, Sending, RunTask, ForSend(Head(loop))
  PROVE  LET t == Head(loop)
         IN  /\ t \in LoopTasks /\ Dispatched(t) /\ t.n \in DOMAIN sends
             /\ loop # <<>> /\ loop' = Tail(loop) /\ receives' = receives /\ app' = app
             /\ sends' \in Seq({"pending", "sent", "refused"}) /\ Len(sends') = Len(sends)
             /\ DOMAIN sends' = DOMAIN sends
             /\ \A k \in DOMAIN sends : sends'[k] = IF k = t.n THEN t.kind ELSE sends[k]
<1> DEFINE t == Head(loop)
<1>1. loop # <<>> /\ loop' = Tail(loop) /\ CompleteSend(t)
  BY DEF RunTask, ForSend
<1>2. t \in LoopTasks /\ Dispatched(t)
  BY <1>1, LoopTaken
<1>3. t.n \in DOMAIN sends
  BY <1>2 DEF Sending, SendTask
<1>4. /\ sends \in Seq({"pending", "sent", "refused"}) /\ Len(sends) \in Nat
      /\ DOMAIN sends = 1..Len(sends)
  BY Lengths
<1>5. t.kind \in {"pending", "sent", "refused"}
  BY DEF ForSend
<1> HIDE DEF t
<1>6. sends' = [sends EXCEPT ![t.n] = t.kind] /\ receives' = receives /\ app' = app
  BY <1>1 DEF CompleteSend
<1>7. /\ sends' \in Seq({"pending", "sent", "refused"}) /\ Len(sends') = Len(sends)
      /\ \A k \in 1..Len(sends) : sends'[k] = IF k = t.n THEN t.kind ELSE sends[k]
  BY <1>3, <1>4, <1>5, <1>6, ExceptSeq
<1>8. DOMAIN sends' = 1..Len(sends)
  BY <1>4, <1>7, LenProperties
<1> QED
  BY <1>1, <1>2, <1>3, <1>4, <1>6, <1>7, <1>8 DEF t

LEMMA SendingComplete ==
  ASSUME TypeOK, Sending, LoopInOrder, RunTask, ForSend(Head(loop))
  PROVE  Sending'
<1> DEFINE t == Head(loop)
<1>1. /\ t \in LoopTasks /\ Dispatched(t) /\ t.n \in DOMAIN sends
      /\ loop # <<>> /\ loop' = Tail(loop)
      /\ sends' \in Seq({"pending", "sent", "refused"}) /\ Len(sends') = Len(sends)
      /\ DOMAIN sends' = DOMAIN sends
      /\ \A k \in DOMAIN sends : sends'[k] = IF k = t.n THEN t.kind ELSE sends[k]
  BY CompleteSendFacts
<1>2. /\ \A task \in LoopTasks : Dispatched(task) <=> Dispatched(task)' \/ task = t
      /\ \A task \in LoopTasks : Dispatched(task)' => Follows(t, task)
  BY <1>1, LoopTaken
<1>3. /\ Pipe' = Pipe /\ written' = written /\ sendState' = sendState
  BY DEF RunTask, bridgeVars, filterVars, Pipe
<1>4. \A e \in SendEvents : Queued(e)' <=> Queued(e)
  <2> HIDE DEF Pipe
  <2> QED
    BY <1>3 DEF Queued
<1>5. \A k : IsWritten(k)' <=> IsWritten(k)
  BY <1>3 DEF IsWritten
<1>6. ForSend(t) /\ t.kind \in {"sent", "refused"}
  BY DEF ForSend
<1>7. /\ Len(sends) \in Nat /\ DOMAIN sends = 1..Len(sends)
      /\ sends \in Seq({"pending", "sent", "refused"})
  BY Lengths
<1>8. sends' = <<>> <=> sends = <<>>
  BY <1>1, <1>7, EmptySeq
<1> HIDE DEF Dispatched, LoopTasks, SendEvents, Queued, IsWritten, Pipe, t, LoopInOrder
<1>9. SendTask(t)
  BY <1>1 DEF Sending
<1>10. Increasing(Pipe)'
  BY <1>3 DEF Sending, Increasing
<1>11. ASSUME NEW e \in SendEvents, Queued(e)' PROVE InThePipe(e)'
  <2>1. InThePipe(e)
    BY <1>4, <1>11 DEF Sending
  <2>2. e.n # 0 => e.n # t.n
    <3>1. e.n # 0 => t.n < e.n
      BY <1>4, <1>6, <1>9, <1>11 DEF SendTask
    <3>2. t.n \in Nat
      BY <1>1, <1>7
    <3> QED
      BY <3>1, <3>2
  <2> QED
    BY <1>1, <2>1, <2>2 DEF InThePipe
<1>12. ASSUME NEW task \in LoopTasks, Dispatched(task)' PROVE SendTask(task)'
  <2>1. SendTask(task) /\ Follows(t, task)
    BY <1>2, <1>12 DEF Sending
  <2>2. ForSend(task) => task.n \in DOMAIN sends /\ task.n # t.n
    <3>1. ForSend(task) => t.n < task.n
      BY <1>6, <2>1 DEF Follows
    <3>2. t.n \in Nat
      BY <1>1, <1>7
    <3> QED
      BY <2>1, <3>1, <3>2 DEF SendTask
  <2> QED
    BY <1>1, <1>4, <1>5, <2>1, <2>2 DEF SendTask, ForSend
<1>13. ASSUME NEW k \in DOMAIN sends'
       PROVE  /\ sends'[k] = "pending" =>
                 \/ \E e \in SendEvents : Queued(e)' /\ e.n = k
                 \/ \E task \in LoopTasks : Dispatched(task)' /\ ForSend(task) /\ task.n = k
              /\ sends'[k] = "sent" => IsWritten(k)'
              /\ sends'[k] = "refused" => ~IsWritten(k)'
  <2>1. CASE k = t.n
    BY <1>1, <1>5, <1>6, <1>9, <2>1 DEF SendTask
  <2>2. CASE k # t.n
    <3>1. sends'[k] = sends[k] /\ k \in DOMAIN sends
      BY <1>1, <2>2
    <3>2. ASSUME sends[k] = "pending"
          PROVE  \/ \E e \in SendEvents : Queued(e)' /\ e.n = k
                 \/ \E task \in LoopTasks : Dispatched(task)' /\ ForSend(task) /\ task.n = k
      <4>1. CASE \E e \in SendEvents : Queued(e) /\ e.n = k
        BY <1>4, <4>1
      <4>2. ASSUME NEW task \in LoopTasks, Dispatched(task), ForSend(task), task.n = k
            PROVE  Dispatched(task)'
        BY <1>2, <2>2, <4>2
      <4> QED
        BY <3>1, <3>2, <4>1, <4>2 DEF Sending
    <3> QED
      BY <1>5, <3>1, <3>2 DEF Sending
  <2> QED
    BY <2>1, <2>2
<1>14. \A k \in 1..MaxSends : IsWritten(k)' =>
         /\ k <= Len(sends')
         /\ \A e \in SendEvents : Queued(e)' /\ e.n # 0 => k < e.n
  BY <1>1, <1>4, <1>5 DEF Sending
<1>15. (sendState' = "started" => sends' = <<>>) /\ (sendState' = "accepted" => sends' # <<>>)
  BY <1>3, <1>8 DEF Sending
<1> QED
  BY <1>10, <1>11, <1>12, <1>13, <1>14, <1>15 DEF Sending, ForSend

\* The filter has handled an event: if it has a future, a task is on its way for
\* it, and if that says that it was sent, it is written.
LEMMA SendingAdvanced ==
  ASSUME TypeOK, Sending, Pipe # <<>>, Pipe' = Tail(Pipe), sends' = sends, SendStateKept,
         NEW res \in {"sent", "refused"}, NEW e, e = Head(Pipe),
         NEW r, e.n # 0 => r \in LoopTasks /\ r.kind = res /\ r.n = e.n,
         \A task \in LoopTasks : ForSend(task) =>
           (Dispatched(task)' <=> Dispatched(task) \/ (e.n # 0 /\ task = r)),
         \A k \in 1..MaxSends : IsWritten(k)' <=> IsWritten(k) \/ (k = e.n /\ res = "sent")
  PROVE  Sending'
<1>1. /\ e \in SendEvents /\ Queued(e)
      /\ \A f \in SendEvents : Queued(f) <=> Queued(f)' \/ f = e
      /\ Increasing(Pipe)'
      /\ \A f \in SendEvents : Queued(f)' /\ f.n # 0 => e.n < f.n
  <2>1. Increasing(Pipe)
    BY DEF Sending
  <2> HIDE DEF Pipe, Queued, Increasing
  <2> QED
    BY <2>1, PipeTaken
<1>2. /\ DOMAIN sends = 1..Len(sends) /\ Len(sends) \in Nat /\ DOMAIN sends \subseteq 1..MaxSends
  <2>1. Len(sends) \in 0..MaxSends /\ DOMAIN sends = 1..Len(sends)
    BY Lengths
  <2> QED
    BY <2>1, BoundsAssumption
<1> HIDE DEF Dispatched, LoopTasks, SendEvents, Queued, IsWritten, Increasing, Pipe
<1>3. InThePipe(e) /\ e.n \in Nat
  <2>1. InThePipe(e)
    BY <1>1 DEF Sending
  <2>2. \A f \in SendEvents : f.n \in Nat
    BY BoundsAssumption DEF SendEvents
  <2> QED
    BY <1>1, <2>1, <2>2
<1>4. e.n # 0 => e.n \in DOMAIN sends /\ sends[e.n] = "pending" /\ ~IsWritten(e.n)
  <2>1. ASSUME e.n # 0 PROVE e.n \in DOMAIN sends /\ sends[e.n] = "pending"
    BY <1>3, <2>1 DEF InThePipe
  <2>2. ASSUME e.n # 0, IsWritten(e.n) PROVE FALSE
    <3>1. e.n \in 1..MaxSends
      BY <1>2, <2>1, <2>2
    <3>2. e.n < e.n
      BY <1>1, <2>2, <3>1 DEF Sending
    <3> QED
      BY <1>3, <3>2
  <2> QED
    BY <2>1, <2>2
<1>5. ASSUME NEW f \in SendEvents, Queued(f)' PROVE InThePipe(f)'
  <2>1. InThePipe(f)
    BY <1>1, <1>5 DEF Sending
  <2> QED
    BY <2>1 DEF InThePipe
<1>6. ASSUME NEW task \in LoopTasks, Dispatched(task)' PROVE SendTask(task)'
  <2>1. CASE ~ForSend(task)
    BY <2>1 DEF SendTask, ForSend
  <2>2. CASE ForSend(task) /\ Dispatched(task)
    <3>1. SendTask(task)
      BY <2>2 DEF Sending
    <3>2. task.n \in DOMAIN sends /\ sends[task.n] = "pending" /\ task.n \in 1..MaxSends
      BY <1>2, <2>2, <3>1 DEF SendTask
    <3>3. \A f \in SendEvents : Queued(f)' /\ f.n # 0 => task.n < f.n
      BY <1>1, <2>2, <3>1 DEF SendTask
    <3>4. task.n # e.n
      <4>1. e.n # 0 => task.n < e.n
        BY <1>1, <2>2, <3>1 DEF SendTask
      <4> QED
        BY <1>2, <1>3, <3>2, <4>1
    <3>5. IsWritten(task.n)' <=> IsWritten(task.n)
      BY <3>2, <3>4
    <3> QED
      BY <2>2, <3>1, <3>2, <3>3, <3>5 DEF SendTask, ForSend
  <2>3. CASE e.n # 0 /\ task = r
    <3>1. task.n \in DOMAIN sends /\ sends[task.n] = "pending" /\ task.n = e.n /\ task.kind = res
      BY <1>4, <2>3
    <3>2. e.n \in 1..MaxSends /\ ~IsWritten(e.n)
      BY <1>2, <1>4, <2>3
    <3>3. IsWritten(task.n)' <=> res = "sent"
      BY <3>1, <3>2
    <3> QED
      BY <1>1, <3>1, <3>3 DEF SendTask, ForSend
  <2> QED
    BY <1>6, <2>1, <2>2, <2>3
<1>7. ASSUME NEW k \in DOMAIN sends
      PROVE  /\ sends[k] = "pending" =>
                  \/ \E f \in SendEvents : Queued(f)' /\ f.n = k
                  \/ \E task \in LoopTasks : Dispatched(task)' /\ ForSend(task) /\ task.n = k
             /\ sends[k] = "sent" => IsWritten(k)'
             /\ sends[k] = "refused" => ~IsWritten(k)'
  <2>1. k \in 1..MaxSends /\ k # 0
    BY <1>2
  <2>2. ASSUME sends[k] = "pending"
        PROVE  \/ \E f \in SendEvents : Queued(f)' /\ f.n = k
               \/ \E task \in LoopTasks : Dispatched(task)' /\ ForSend(task) /\ task.n = k
    <3>1. CASE k = e.n
      <4>1. r \in LoopTasks /\ r.kind = res /\ r.n = k
        BY <2>1, <3>1
      <4>2. ForSend(r)
        BY <4>1 DEF ForSend
      <4>3. Dispatched(r)'
        BY <2>1, <3>1, <4>1, <4>2
      <4> QED
        BY <4>1, <4>2, <4>3
    <3>2. CASE k # e.n
      <4>1. ASSUME NEW f \in SendEvents, Queued(f), f.n = k
            PROVE  Queued(f)'
        BY <1>1, <3>2, <4>1
      <4>2. ASSUME NEW task \in LoopTasks, Dispatched(task), ForSend(task), task.n = k
            PROVE  Dispatched(task)'
        BY <4>2
      <4>3. \/ \E f \in SendEvents : Queued(f) /\ f.n = k
            \/ \E task \in LoopTasks : Dispatched(task) /\ ForSend(task) /\ task.n = k
        BY <2>2 DEF Sending
      <4> QED
        BY <4>1, <4>2, <4>3
    <3> QED
      BY <3>1, <3>2
  <2>3. sends[k] = "sent" => IsWritten(k)'
    BY <2>1 DEF Sending
  <2>4. ASSUME sends[k] = "refused" PROVE ~IsWritten(k)'
    <3>1. k # e.n
      BY <1>4, <2>1, <2>4
    <3>2. ~IsWritten(k)
      BY <2>4 DEF Sending
    <3> QED
      BY <2>1, <3>1, <3>2
  <2> QED
    BY <2>2, <2>3, <2>4
<1>8. ASSUME NEW k \in 1..MaxSends, IsWritten(k)'
      PROVE  /\ k <= Len(sends)
             /\ \A f \in SendEvents : Queued(f)' /\ f.n # 0 => k < f.n
  <2>1. CASE IsWritten(k)
    BY <1>1, <2>1 DEF Sending
  <2>2. CASE k = e.n
    <3>1. k \in DOMAIN sends
      BY <1>4, <2>2
    <3> QED
      BY <1>1, <1>2, <2>2, <3>1
  <2> QED
    BY <1>8, <2>1, <2>2
<1>9. (sendState' = "started" => sends = <<>>) /\ (sendState' = "accepted" => sends # <<>>)
  BY DEF Sending, SendStateKept
<1> QED
  BY <1>1, <1>5, <1>6, <1>7, <1>8, <1>9 DEF Sending, ForSend

\* All that were waiting are refused.
LEMMA SendingClosed ==
  ASSUME TypeOK, Sending, Pipe' = <<>>, sends' = sends, SendStateKept,
         \A k \in 1..MaxSends : IsWritten(k)' <=> IsWritten(k),
         \A task \in LoopTasks : ForSend(task) =>
           (Dispatched(task)' <=>
              \/ Dispatched(task)
              \/ /\ task.kind = "refused" /\ task.message = 0 /\ task.n # 0
                 /\ \E i \in DOMAIN Pipe : Pipe[i].n = task.n)
  PROVE  Sending'
<1>1. /\ \A i \in DOMAIN Pipe : Pipe[i] \in SendEvents /\ Queued(Pipe[i])
      /\ \A e \in SendEvents : ~Queued(e)'
      /\ Increasing(Pipe)'
  <2> HIDE DEF Pipe
  <2> QED
    BY Lengths, PipeEmptied
<1>2. /\ DOMAIN sends = 1..Len(sends) /\ Len(sends) \in Nat /\ DOMAIN sends \subseteq 1..MaxSends
  <2>1. Len(sends) \in 0..MaxSends /\ DOMAIN sends = 1..Len(sends)
    BY Lengths
  <2> QED
    BY <2>1, BoundsAssumption
<1>3. \A e \in SendEvents : Queued(e) <=> \E i \in DOMAIN Pipe : Pipe[i] = e
  BY DEF Queued
<1>4. \A n \in DOMAIN sends : Task("refused", n, 0) \in LoopTasks
  BY <1>2, BoundsAssumption DEF Task, LoopTasks
<1> HIDE DEF Dispatched, LoopTasks, SendEvents, Queued, IsWritten, Increasing, Pipe
<1>5. ASSUME NEW i \in DOMAIN Pipe, Pipe[i].n # 0
      PROVE  /\ Pipe[i].n \in DOMAIN sends /\ sends[Pipe[i].n] = "pending"
             /\ ~IsWritten(Pipe[i].n)
  <2>1. PICK e \in SendEvents : e = Pipe[i] /\ Queued(e)
    BY <1>1, <1>5
  <2>2. e.n \in DOMAIN sends /\ sends[e.n] = "pending"
    BY <1>5, <2>1 DEF Sending, InThePipe
  <2>3. e.n \in 1..MaxSends /\ ~(e.n < e.n)
    BY <1>2, <2>2
  <2>4. ~IsWritten(e.n)
    BY <1>5, <2>1, <2>3 DEF Sending
  <2> QED
    BY <2>1, <2>2, <2>4
<1>6. ASSUME NEW task \in LoopTasks, Dispatched(task)' PROVE SendTask(task)'
  <2>1. CASE ~ForSend(task)
    BY <2>1 DEF SendTask, ForSend
  <2>2. CASE ForSend(task) /\ Dispatched(task)
    <3>1. SendTask(task)
      BY <2>2 DEF Sending
    <3>2. task.n \in 1..MaxSends
      BY <1>2, <2>2, <3>1 DEF SendTask
    <3> QED
      BY <1>1, <3>1, <3>2 DEF SendTask, ForSend
  <2>3. CASE task.kind = "refused" /\ task.n # 0 /\ \E i \in DOMAIN Pipe : Pipe[i].n = task.n
    <3>1. /\ task.n \in DOMAIN sends /\ sends[task.n] = "pending" /\ ~IsWritten(task.n)
          /\ task.n \in 1..MaxSends
      BY <1>2, <1>5, <2>3
    <3> QED
      BY <1>1, <2>3, <3>1 DEF SendTask, ForSend
  <2> QED
    BY <1>6, <2>1, <2>2, <2>3
<1>7. ASSUME NEW k \in DOMAIN sends
      PROVE  /\ sends[k] = "pending" =>
                  \E task \in LoopTasks : Dispatched(task)' /\ ForSend(task) /\ task.n = k
             /\ sends[k] = "sent" => IsWritten(k)'
             /\ sends[k] = "refused" => ~IsWritten(k)'
  <2>1. ASSUME sends[k] = "pending"
        PROVE  \E task \in LoopTasks : Dispatched(task)' /\ ForSend(task) /\ task.n = k
    <3>1. CASE \E task \in LoopTasks : Dispatched(task) /\ ForSend(task) /\ task.n = k
      BY <3>1
    <3>2. ASSUME NEW e \in SendEvents, Queued(e), e.n = k
          PROVE  \E task \in LoopTasks : Dispatched(task)' /\ ForSend(task) /\ task.n = k
      <4>1. \E i \in DOMAIN Pipe : Pipe[i].n = k
        BY <1>3, <3>2
      <4>2. PICK r \in LoopTasks : r = Task("refused", k, 0)
        BY <1>4
      <4>3. r.kind = "refused" /\ r.n = k /\ r.message = 0 /\ r.n # 0 /\ ForSend(r)
        BY <1>2, <4>2 DEF Task, ForSend
      <4>4. Dispatched(r)'
        BY <4>1, <4>3
      <4> QED
        BY <4>3, <4>4
    <3> QED
      BY <2>1, <3>1, <3>2 DEF Sending
  <2>2. IsWritten(k)' <=> IsWritten(k)
    BY <1>2
  <2> QED
    BY <2>1, <2>2 DEF Sending
<1>8. ASSUME NEW k \in 1..MaxSends, IsWritten(k)'
      PROVE  /\ k <= Len(sends)
             /\ \A e \in SendEvents : Queued(e)' /\ e.n # 0 => k < e.n
  BY <1>1, <1>8 DEF Sending
<1>9. (sendState' = "started" => sends = <<>>) /\ (sendState' = "accepted" => sends # <<>>)
  BY DEF Sending, SendStateKept
<1> QED
  BY <1>1, <1>6, <1>7, <1>8, <1>9 DEF Sending, ForSend

-----------------------------------------------------------------------------
(* What receives return, and the messages that were handed on.             *)

\* Neither opened again, nor back before the handshake is answered.
Onward == (Early' => Early) /\ (recvBridge.closed => recvBridge'.closed)

\* The tasks that are new fit what the receives have returned.
LEMMA ResultsExtended ==
  ASSUME TypeOK, Results, Onward, receives' = receives,
         \A task \in LoopTasks : Dispatched(task)' => Dispatched(task) \/ MessageTask(task)'
  PROVE  Results'
<1> HIDE DEF Dispatched, LoopTasks, Early, After
<1>1. ASSUME NEW task \in LoopTasks, Dispatched(task)' PROVE MessageTask(task)'
  <2>1. CASE Dispatched(task)
    <3>1. MessageTask(task)
      BY <2>1 DEF Results
    <3> QED
      BY <3>1 DEF MessageTask, Onward, After
  <2>2. CASE MessageTask(task)'
    BY <2>2
  <2> QED
    BY <1>1, <2>1, <2>2
<1>2. \A j, k \in DOMAIN receives : j < k =>
        After(receives[j].is, receives[j].message, receives[k].is, receives[k].message)'
  BY DEF Results, After
<1>3. \A k \in DOMAIN receives :
        /\ receives[k].is = "message" => ~Early'
        /\ receives[k].is = "disconnect" => recvBridge'.closed
  BY DEF Results, Onward
<1> QED
  BY <1>1, <1>2, <1>3 DEF Results

\* What says nothing about a receive, and a disconnect, always do.
LEMMA MessageTaskOther ==
  ASSUME NEW task, task.message = 0,
         task.kind \notin {"connect", "message"}, task.kind = "disconnect" => recvBridge'.closed
  PROVE  MessageTask(task)'
  BY DEF MessageTask, After

\* A message that is not one of those that were handed on follows them.
LEMMA HandedKept ==
  ASSUME TypeOK, receives' = receives,
         \A task \in LoopTasks : task.message # 0 => (Dispatched(task)' <=> Dispatched(task))
  PROVE  \A m \in 1..MaxMessages : Handed(m)' <=> Handed(m)
<1> HIDE DEF Dispatched, LoopTasks
<1>1. \A m \in 1..MaxMessages : m # 0
  OBVIOUS
<1> QED
  BY <1>1 DEF Handed

LEMMA HandedOnKept ==
  ASSUME TypeOK, HandedOn, arrived' \in Nat, arrived <= arrived',
         \A m \in 1..MaxMessages : Handed(m)' <=> Handed(m)
  PROVE  HandedOn'
<1> HIDE DEF Handed
<1>1. arrived \in Nat
  BY Lengths
<1>2. ASSUME NEW m \in 1..MaxMessages, Handed(m)'
      PROVE  m <= arrived' /\ \A q \in 1..m : Handed(q)'
  <2>1. m <= arrived /\ \A q \in 1..m : Handed(q)
    BY <1>2 DEF HandedOn
  <2>2. \A q \in 1..m : q \in 1..MaxMessages
    BY BoundsAssumption
  <2> QED
    BY <1>1, <2>1, <2>2
<1> QED
  BY <1>2 DEF HandedOn

\* Nothing is read.
LEMMA IncomingKept ==
  ASSUME NEW u \in Seq(Unread), NEW n, Incoming(u, n), inbound' = u, arrived' = n,
         \A m \in 1..MaxMessages : Handed(m)' <=> Handed(m),
         (state = "accepted" /\ connection = "open" /\ ~closeFrame)'
           => (state = "accepted" /\ connection = "open" /\ ~closeFrame) \/ n = 0,
         n \in 0..MaxMessages
  PROVE  Incoming(inbound, arrived)'
<1> HIDE DEF Handed, IsUnread
<1>1. ASSUME NEW i \in DOMAIN u PROVE u[i].n \in 0..MaxMessages
  <2>1. u[i] \in Unread
    BY ElementOfSeq
  <2> QED
    BY <2>1 DEF Unread
<1>2. \A m : IsUnread(inbound, m)' <=> IsUnread(u, m)
  BY DEF IsUnread
<1>3. \A q \in 0..MaxMessages : \A m \in 1..q : m \in 1..MaxMessages
  BY BoundsAssumption
<1>4. ASSUME NEW i \in DOMAIN u
      PROVE  /\ u[i].n # 0 <=> u[i].kind = "message"
             /\ u[i].n <= n
             /\ i < Len(u) => u[i].kind = "message"
             /\ \A m \in 1..u[i].n : Handed(m)' \/ IsUnread(u, m)
             /\ \A m \in 1..MaxMessages : Handed(m)' /\ u[i].n # 0 => m < u[i].n
  BY <1>1, <1>3 DEF Incoming
<1>5. \A i, j \in DOMAIN u : i < j /\ u[j].n # 0 => u[i].n < u[j].n
  BY DEF Incoming
<1>6. (state = "accepted" /\ connection = "open" /\ ~closeFrame)' =>
         \A m \in 1..n : Handed(m)' \/ IsUnread(u, m)
  <2>1. CASE n = 0
    BY <2>1
  <2>2. CASE state = "accepted" /\ connection = "open" /\ ~closeFrame
    BY <1>3, <2>2 DEF Incoming
  <2> QED
    BY <2>1, <2>2
<1> QED
  BY <1>2, <1>4, <1>5, <1>6 DEF Incoming

\* Nothing is left to read.
LEMMA IncomingEmptied ==
  ASSUME inbound' = <<>>, state' # "accepted" \/ connection' # "open" \/ closeFrame'
  PROVE  Incoming(inbound, arrived)'
  BY DEF Incoming

\* A call of receive,
LEMMA ResultsReceive ==
  ASSUME TypeOK, Results, Receive
  PROVE  Results' /\ \A m \in 1..MaxMessages : Handed(m)' <=> Handed(m)
<1> DEFINE l == Len(receives) + 1
<1>1. /\ DOMAIN receives' = 1..l
      /\ \A k \in DOMAIN receives : receives'[k] = receives[k]
      /\ receives'[l].is = "pending" /\ receives'[l].message = 0
      /\ DOMAIN receives = 1..Len(receives) /\ Len(receives) \in Nat
      /\ \A k \in DOMAIN receives' : k \in DOMAIN receives \/ k = l
      /\ \A k \in DOMAIN receives : k \in DOMAIN receives' /\ k < l
      /\ \A k \in DOMAIN receives : receives[k].message \in Nat
  <2>1. /\ DOMAIN receives' = 1..l /\ l \in 1..MaxReceives
        /\ \A k \in DOMAIN receives : receives'[k] = receives[k]
        /\ receives'[l].is = "pending" /\ receives'[l].message = 0
    BY ReceiveFacts DEF Received
  <2>2. DOMAIN receives = 1..Len(receives) /\ Len(receives) \in Nat
    BY Lengths
  <2>3. \A k \in DOMAIN receives : receives[k].message \in Nat
    BY Lengths, BoundsAssumption DEF Receives
  <2> QED
    BY <2>1, <2>2, <2>3
<1>2. PICK r : r = Task("disconnect", l, 0)
  OBVIOUS
<1>3. r.kind = "disconnect" /\ r.message = 0
  BY <1>2 DEF Task
<1>4. recvBridge'.closed = recvBridge.closed /\ state' = state
  <2>1. recvBridge' = Sent(recvBridge, l) /\ state' = state
    BY DEF Receive, filterVars
  <2>2. recvBridge \in Bridges(1..MaxReceives)
    BY DEF TypeOK
  <2> QED
    BY <2>1, <2>2 DEF Sent, Bridges
<1>5. \A task \in LoopTasks : Dispatched(task)' <=>
         Dispatched(task) \/ (recvBridge.closed /\ task = r)
  <2>1. CASE ~recvBridge.closed
    <3>1. loop' = loop
      BY <2>1, ReceiveFacts
    <3> QED
      BY <2>1, <3>1 DEF Dispatched
  <2>2. CASE recvBridge.closed
    <3>1. loop' = Append(loop, r) /\ r \in LoopTasks
      BY <1>2, <2>2, ReceiveFacts
    <3> HIDE DEF Dispatched, LoopInOrder, Follows
    <3> QED
      BY <2>2, <3>1, LoopAppended
  <2> QED
    BY <2>1, <2>2
<1> HIDE DEF l, Dispatched, LoopTasks
<1>6. ASSUME NEW task \in LoopTasks, Dispatched(task)' PROVE MessageTask(task)'
  <2>1. CASE Dispatched(task)
    <3>1. MessageTask(task)
      BY <2>1 DEF Results
    <3>2. After("pending", 0, task.kind, task.message)
      <4>1. task.message \in Nat
        BY BoundsAssumption DEF LoopTasks
      <4> QED
        BY <4>1 DEF After
    <3>3. \A k \in DOMAIN receives' :
            After(receives'[k].is, receives'[k].message, task.kind, task.message)
      BY <1>1, <3>1, <3>2 DEF MessageTask
    <3> QED
      BY <1>4, <3>1, <3>3 DEF MessageTask, Early, After
  <2>2. CASE recvBridge.closed /\ task = r
    BY <1>3, <1>4, <2>2, MessageTaskOther
  <2> QED
    BY <1>5, <1>6, <2>1, <2>2
<1>7. \A j, k \in DOMAIN receives' : j < k =>
        After(receives'[j].is, receives'[j].message, receives'[k].is, receives'[k].message)
  <2>1. \A is, m : After(is, m, "pending", 0)
    BY DEF After
  <2>2. \A j, k \in DOMAIN receives' : j < k /\ k # l => j \in DOMAIN receives
    BY <1>1
  <2> QED
    BY <1>1, <2>1, <2>2 DEF Results
<1>8. \A k \in DOMAIN receives' :
        /\ receives'[k].is = "message" => ~Early'
        /\ receives'[k].is = "disconnect" => recvBridge'.closed
  BY <1>1, <1>4 DEF Results, Early
<1>9. Results'
  BY <1>6, <1>7, <1>8 DEF Results, After
<1>10. \A m \in 1..MaxMessages : Handed(m)' <=> Handed(m)
  <2> SUFFICES ASSUME NEW m \in 1..MaxMessages PROVE Handed(m)' <=> Handed(m)
    OBVIOUS
  <2>1. (\E k \in DOMAIN receives' : receives'[k].message = m)
          <=> \E k \in DOMAIN receives : receives[k].message = m
    BY <1>1
  <2>2. (\E task \in LoopTasks : Dispatched(task)' /\ task.message = m)
          <=> \E task \in LoopTasks : Dispatched(task) /\ task.message = m
    BY <1>3, <1>5
  <2> QED
    BY <2>1, <2>2 DEF Handed
<1> QED
  BY <1>9, <1>10

\* a receive that is cancelled,
LEMMA ResultsCancel ==
  ASSUME TypeOK, Results, NEW n, CancelReceive(n)
  PROVE  Results' /\ \A m \in 1..MaxMessages : Handed(m)' <=> Handed(m)
<1>1. /\ n \in DOMAIN receives /\ receives[n].is = "pending"
      /\ DOMAIN receives' = DOMAIN receives
      /\ \A k \in DOMAIN receives : k # n => receives'[k] = receives[k]
      /\ receives'[n].is = "cancelled" /\ receives'[n].message = receives[n].message
  BY CancelFacts
<1>2. recvBridge' = recvBridge /\ loop' = loop /\ state' = state
  BY DEF CancelReceive, bridgeVars, filterVars
<1>3. \A task \in LoopTasks : Dispatched(task)' <=> Dispatched(task)
  BY <1>2 DEF Dispatched
<1> HIDE DEF Dispatched, LoopTasks
<1>4. \A is, m, next, q :
        /\ After("pending", m, next, q) => After("cancelled", m, next, q)
        /\ After(is, m, "pending", q) => After(is, m, "cancelled", q)
  BY DEF After
<1>5. \A k \in DOMAIN receives : receives'[k].message = receives[k].message
  BY <1>1
<1>6. ASSUME NEW task \in LoopTasks, Dispatched(task)' PROVE MessageTask(task)'
  <2>1. MessageTask(task)
    BY <1>3, <1>6 DEF Results
  <2>2. \A k \in DOMAIN receives :
          After(receives'[k].is, receives'[k].message, task.kind, task.message)
    BY <1>1, <1>4, <2>1 DEF MessageTask
  <2> QED
    BY <1>1, <1>2, <2>1, <2>2 DEF MessageTask, Early, After
<1>7. \A j, k \in DOMAIN receives : j < k =>
        After(receives'[j].is, receives'[j].message, receives'[k].is, receives'[k].message)
  <2> SUFFICES ASSUME NEW j \in DOMAIN receives, NEW k \in DOMAIN receives, j < k
               PROVE  After(receives'[j].is, receives'[j].message,
                            receives'[k].is, receives'[k].message)
    OBVIOUS
  <2>1. After(receives[j].is, receives[j].message, receives[k].is, receives[k].message)
    BY DEF Results
  <2>2. After(receives'[j].is, receives'[j].message, receives[k].is, receives[k].message)
    BY <1>1, <1>4, <2>1
  <2> QED
    BY <1>1, <1>4, <2>2
<1>8. \A k \in DOMAIN receives :
        /\ receives'[k].is = "message" => ~Early'
        /\ receives'[k].is = "disconnect" => recvBridge'.closed
  <2>1. \A k \in DOMAIN receives :
          receives'[k].is \in {"message", "disconnect"} => receives'[k].is = receives[k].is
    BY <1>1
  <2> QED
    BY <1>2, <2>1 DEF Results, Early
<1>9. Results'
  BY <1>1, <1>6, <1>7, <1>8 DEF Results, After
<1>10. \A m \in 1..MaxMessages : Handed(m)' <=> Handed(m)
  BY <1>1, <1>3, <1>5 DEF Handed
<1> QED
  BY <1>9, <1>10

\* and one that is completed, which takes the message from the loop.
LEMMA ResultsComplete ==
  ASSUME TypeOK, Receiving, Results, LoopInOrder, RunTask, ForReceive(Head(loop))
  PROVE  Results' /\ \A m \in 1..MaxMessages : Handed(m)' <=> Handed(m)
<1>0. PICK t : t = Head(loop)
  OBVIOUS
<1>1. /\ t \in LoopTasks /\ Dispatched(t) /\ t.n \in DOMAIN receives
      /\ loop # <<>> /\ loop' = Tail(loop)
      /\ DOMAIN receives' = DOMAIN receives
      /\ \A k \in DOMAIN receives : k # t.n => receives'[k] = receives[k]
      /\ receives[t.n].is \in {"pending", "cancelled"}
      /\ receives'[t.n].is = IF receives[t.n].is = "pending" THEN t.kind ELSE "cancelled"
      /\ receives'[t.n].message = t.message
  BY <1>0, CompleteFacts
<1>2. /\ \A task \in LoopTasks : Dispatched(task) <=> Dispatched(task)' \/ task = t
      /\ \A task \in LoopTasks : Dispatched(task)' => Follows(t, task)
  BY <1>0, <1>1, LoopTaken
<1>3. recvBridge' = recvBridge /\ state' = state
  BY DEF RunTask, bridgeVars, filterVars
<1>4. DOMAIN receives = 1..Len(receives) /\ Len(receives) \in Nat
  BY Lengths
<1> HIDE DEF Dispatched, LoopTasks
<1>5. \A k \in DOMAIN receives : t.n <= k => Waits(receives[k])
  <2>1. ReceiveTask(t) /\ ForReceive(t)
    BY <1>0, <1>1 DEF Receiving
  <2> QED
    BY <1>1, <1>4, <2>1 DEF ReceiveTask
<1>6. MessageTask(t)
  BY <1>1 DEF Results
<1>7. \A is, m, next, q :
        /\ After(t.kind, m, next, q) => After(receives'[t.n].is, m, next, q)
        /\ After(is, m, t.kind, q) => After(is, m, receives'[t.n].is, q)
        /\ next \in {"pending", "cancelled"} => After(is, m, next, 0)
  BY <1>1 DEF After
<1>8. ASSUME NEW task \in LoopTasks, Dispatched(task)' PROVE MessageTask(task)'
  <2>1. MessageTask(task) /\ Follows(t, task)
    BY <1>2, <1>8 DEF Results
  <2>2. After(t.kind, t.message, task.kind, task.message)
    BY <2>1 DEF Follows
  <2>3. \A k \in DOMAIN receives :
          After(receives'[k].is, receives'[k].message, task.kind, task.message)
    <3> SUFFICES ASSUME NEW k \in DOMAIN receives
                 PROVE  After(receives'[k].is, receives'[k].message, task.kind, task.message)
      OBVIOUS
    <3>1. CASE k = t.n
      BY <1>1, <1>7, <2>2, <3>1
    <3>2. CASE k # t.n
      BY <1>1, <2>1, <3>2 DEF MessageTask
    <3> QED
      BY <3>1, <3>2
  <2> QED
    BY <1>1, <1>3, <2>1, <2>3 DEF MessageTask, Early, After
<1>9. ASSUME NEW j \in DOMAIN receives, NEW k \in DOMAIN receives, j < k
      PROVE  After(receives'[j].is, receives'[j].message,
                   receives'[k].is, receives'[k].message)
  <2>1. After(receives[j].is, receives[j].message, receives[k].is, receives[k].message)
    BY <1>9 DEF Results
  <2>2. CASE k = t.n
    <3>1. receives'[j] = receives[j] /\ receives'[k].message = t.message
      BY <1>1, <1>4, <1>9, <2>2
    <3>2. After(receives[j].is, receives[j].message, t.kind, t.message)
      BY <1>6 DEF MessageTask
    <3> QED
      BY <1>7, <2>2, <3>1, <3>2
  <2>3. CASE j = t.n
    <3>1. receives'[k] = receives[k] /\ Waits(receives[k])
      BY <1>1, <1>4, <1>5, <1>9, <2>3
    <3> QED
      BY <1>7, <3>1 DEF Waits
  <2>4. CASE j # t.n /\ k # t.n
    BY <1>1, <2>1, <2>4
  <2> QED
    BY <2>2, <2>3, <2>4
<1>10. \A k \in DOMAIN receives :
        /\ receives'[k].is = "message" => ~Early'
        /\ receives'[k].is = "disconnect" => recvBridge'.closed
  <2> SUFFICES ASSUME NEW k \in DOMAIN receives
               PROVE  /\ receives'[k].is = "message" => ~Early
                      /\ receives'[k].is = "disconnect" => recvBridge.closed
    BY <1>3 DEF Early
  <2>1. CASE k = t.n
    BY <1>1, <1>6, <2>1 DEF MessageTask
  <2>2. CASE k # t.n
    BY <1>1, <2>2 DEF Results
  <2> QED
    BY <2>1, <2>2
<1>11. Results'
  BY <1>1, <1>8, <1>9, <1>10 DEF Results, After
<1>12. \A m \in 1..MaxMessages : Handed(m)' <=> Handed(m)
  <2> SUFFICES ASSUME NEW m \in 1..MaxMessages PROVE Handed(m)' <=> Handed(m)
    OBVIOUS
  <2>1. receives[t.n].message = 0 /\ m # 0
    BY <1>1, <1>4, <1>5 DEF Waits
  <2>2. ASSUME Handed(m) PROVE Handed(m)'
    <3>1. ASSUME NEW k \in DOMAIN receives, receives[k].message = m
          PROVE  k \in DOMAIN receives' /\ receives'[k].message = m
      BY <1>1, <2>1, <3>1
    <3>2. ASSUME NEW task \in LoopTasks, Dispatched(task), task.message = m
          PROVE  Handed(m)'
      <4>1. CASE task = t
        BY <1>1, <3>2, <4>1 DEF Handed
      <4>2. CASE Dispatched(task)'
        BY <3>2, <4>2 DEF Handed
      <4> QED
        BY <1>2, <3>2, <4>1, <4>2
    <3> QED
      BY <2>2, <3>1, <3>2 DEF Handed
  <2>3. ASSUME Handed(m)' PROVE Handed(m)
    <3>1. ASSUME NEW k \in DOMAIN receives, receives'[k].message = m
          PROVE  Handed(m)
      <4>1. CASE k = t.n
        BY <1>1, <3>1, <4>1 DEF Handed
      <4>2. CASE k # t.n
        BY <1>1, <3>1, <4>2 DEF Handed
      <4> QED
        BY <4>1, <4>2
    <3>2. ASSUME NEW task \in LoopTasks, Dispatched(task)', task.message = m
          PROVE  Handed(m)
      BY <1>2, <3>2 DEF Handed
    <3> QED
      BY <1>1, <2>3, <3>1, <3>2 DEF Handed
  <2> QED
    BY <2>2, <2>3
<1> QED
  BY <1>11, <1>12

-----------------------------------------------------------------------------
(* Reading messages.                                                       *)

\* How many are read, the tasks that hand them on, and what is left.
Reads(u) ==
  LET messages == IF Ends(u) THEN Len(u) - 1 ELSE Len(u)
  IN  IF Len(recvBridge.events) < messages THEN Len(recvBridge.events) ELSE messages
Given(u) == [k \in 1..Reads(u) |-> Task("message", recvBridge.events[k], u[k].n)]
Left(u) == SubSeq(recvBridge.events, Reads(u) + 1, Len(recvBridge.events))
Rest(u) == SubSeq(u, Reads(u) + 1, Len(u))

\* A sequence without its first elements.
LEMMA SubSeqFacts ==
  ASSUME NEW S, NEW s \in Seq(S), NEW g \in 0..Len(s)
  PROVE  /\ SubSeq(s, g + 1, Len(s)) \in Seq(S)
         /\ Len(SubSeq(s, g + 1, Len(s))) = Len(s) - g
         /\ DOMAIN SubSeq(s, g + 1, Len(s)) = 1..(Len(s) - g)
         /\ \A i \in 1..(Len(s) - g) : SubSeq(s, g + 1, Len(s))[i] = s[g + i]
<1> DEFINE t == SubSeq(s, g + 1, Len(s))
<1>1. Len(s) \in Nat /\ g + 1 \in Int /\ \A i \in (g + 1)..Len(s) : s[i] \in S
  <2>1. Len(s) \in Nat /\ \A i \in 1..Len(s) : s[i] \in S
    BY LenProperties, ElementOfSeq
  <2> QED
    BY <2>1
<1>2. /\ t \in Seq(S)
      /\ Len(t) = IF g + 1 <= Len(s) THEN Len(s) - (g + 1) + 1 ELSE 0
      /\ \A i \in 1..(Len(s) - (g + 1) + 1) : t[i] = s[(g + 1) + i - 1]
  BY <1>1, SubSeqProperties
<1> HIDE DEF t
<1>3. Len(t) = Len(s) - g
  BY <1>1, <1>2
<1>4. \A i \in 1..(Len(s) - g) : t[i] = s[g + i]
  <2>1. \A i \in 1..(Len(s) - g) :
          i \in 1..(Len(s) - (g + 1) + 1) /\ (g + 1) + i - 1 = g + i
    BY <1>1
  <2> QED
    BY <1>2, <2>1
<1>5. DOMAIN t = 1..(Len(s) - g)
  BY <1>2, <1>3, LenProperties
<1> QED
  BY <1>2, <1>3, <1>4, <1>5 DEF t

LEMMA EndsFacts ==
  ASSUME NEW u \in Seq(Unread)
  PROVE  /\ Len(u) \in Nat /\ DOMAIN u = 1..Len(u)
         /\ \A i \in DOMAIN u : u[i] \in Unread
         /\ u = <<>> <=> Len(u) = 0
         /\ Ends(u) => Len(u) > 0
         /\ ~Ends(u) /\ Len(u) > 0 => u[Len(u)].kind = "message"
<1>1. /\ Len(u) \in Nat /\ DOMAIN u = 1..Len(u) /\ \A i \in DOMAIN u : u[i] \in Unread
      /\ u = <<>> <=> Len(u) = 0
  BY LenProperties, ElementOfSeq, EmptySeq
<1>2. Ends(u) => Len(u) > 0
  BY <1>1 DEF Ends, EndsWith
<1>3. ASSUME ~Ends(u), Len(u) > 0 PROVE u[Len(u)].kind = "message"
  <2>1. Len(u) \in DOMAIN u /\ u[Len(u)] \in Unread
    BY <1>1, <1>3
  <2> QED
    BY <1>1, <1>3, <2>1 DEF Ends, EndsWith, Last, Unread
<1> QED
  BY <1>1, <1>2, <1>3

LEMMA ReadFacts ==
  ASSUME TypeOK, Receiving, NEW u \in Seq(Unread), NEW n \in 0..MaxMessages, Incoming(u, n),
         NEW g, g = Reads(u)
  PROVE  /\ g \in 0..Len(recvBridge.events) /\ g \in 0..Len(u)
         /\ \A k \in 1..g : /\ k \in DOMAIN u /\ u[k].kind = "message"
                            /\ u[k].n \in 1..MaxMessages
                            /\ k \in DOMAIN recvBridge.events
                            /\ recvBridge.events[k] = Told + k
         /\ Left(u) \in Seq(1..MaxReceives) /\ Len(Left(u)) = Len(recvBridge.events) - g
         /\ DOMAIN Left(u) = 1..(Len(recvBridge.events) - g)
         /\ \A i \in 1..(Len(recvBridge.events) - g) : Left(u)[i] = recvBridge.events[g + i]
         /\ Rest(u) \in Seq(Unread) /\ Len(Rest(u)) = Len(u) - g
         /\ DOMAIN Rest(u) = 1..(Len(u) - g)
         /\ \A i \in 1..(Len(u) - g) : Rest(u)[i] = u[g + i]
<1>1. /\ Len(u) \in Nat /\ DOMAIN u = 1..Len(u)
      /\ \A i \in DOMAIN u : u[i] \in Unread
      /\ Ends(u) => Len(u) > 0
      /\ ~Ends(u) /\ Len(u) > 0 => u[Len(u)].kind = "message"
  BY EndsFacts
<1>2. /\ recvBridge.events \in Seq(1..MaxReceives) /\ Len(recvBridge.events) \in Nat
      /\ DOMAIN recvBridge.events = 1..Len(recvBridge.events)
  BY Lengths
<1>3. /\ g \in 0..Len(recvBridge.events) /\ g \in 0..Len(u) /\ (Ends(u) => g < Len(u))
  BY <1>1, <1>2 DEF Reads
<1>4. ASSUME NEW k \in 1..g
      PROVE  /\ k \in DOMAIN u /\ u[k].kind = "message" /\ u[k].n \in 1..MaxMessages
             /\ k \in DOMAIN recvBridge.events /\ recvBridge.events[k] = Told + k
  <2>1. k \in DOMAIN u /\ k \in DOMAIN recvBridge.events
    BY <1>1, <1>2, <1>3
  <2>2. u[k].kind = "message"
    <3>1. CASE k < Len(u)
      BY <2>1, <3>1 DEF Incoming
    <3>2. CASE k = Len(u)
      BY <1>1, <1>3, <3>2
    <3> QED
      BY <1>1, <2>1, <3>1, <3>2
  <2>3. u[k].n \in 0..MaxMessages /\ u[k].n # 0
    BY <1>1, <2>1, <2>2 DEF Incoming, Unread
  <2> QED
    BY <2>1, <2>2, <2>3, BoundsAssumption DEF Receiving
<1>5. /\ Left(u) \in Seq(1..MaxReceives) /\ Len(Left(u)) = Len(recvBridge.events) - g
      /\ DOMAIN Left(u) = 1..(Len(recvBridge.events) - g)
      /\ \A i \in 1..(Len(recvBridge.events) - g) : Left(u)[i] = recvBridge.events[g + i]
  <2>1. Left(u) = SubSeq(recvBridge.events, g + 1, Len(recvBridge.events))
    BY DEF Left
  <2>2. PICK w : w = recvBridge.events
    OBVIOUS
  <2>3. w \in Seq(1..MaxReceives) /\ g \in 0..Len(w)
    BY <1>2, <1>3, <2>2
  <2>4. /\ SubSeq(w, g + 1, Len(w)) \in Seq(1..MaxReceives)
        /\ Len(SubSeq(w, g + 1, Len(w))) = Len(w) - g
        /\ DOMAIN SubSeq(w, g + 1, Len(w)) = 1..(Len(w) - g)
        /\ \A i \in 1..(Len(w) - g) : SubSeq(w, g + 1, Len(w))[i] = w[g + i]
    BY <2>3, SubSeqFacts
  <2> QED
    BY <2>1, <2>2, <2>4
<1>6. /\ Rest(u) \in Seq(Unread) /\ Len(Rest(u)) = Len(u) - g
      /\ DOMAIN Rest(u) = 1..(Len(u) - g)
      /\ \A i \in 1..(Len(u) - g) : Rest(u)[i] = u[g + i]
  <2>1. Rest(u) = SubSeq(u, g + 1, Len(u))
    BY DEF Rest
  <2> QED
    BY SMTT(60), <1>3, <2>1, SubSeqFacts
<1> QED
  BY <1>3, <1>4, <1>5, <1>6

\* What the tasks are that hand the messages on: they follow those that are on
\* their way.
LEMMA GivenFacts ==
  ASSUME TypeOK, Receiving, Results, HandedOn, ~Early,
         NEW u \in Seq(Unread), NEW n \in 0..MaxMessages, Incoming(u, n),
         NEW g, g = Reads(u)
  PROVE  /\ Given(u) \in Seq(LoopTasks)
         /\ \A task \in LoopTasks : Holds(Given(u), task) <=>
              /\ task.kind = "message"
              /\ \E k \in 1..g : task.n = Told + k /\ task.message = u[k].n
         /\ \A k \in 1..g : Task("message", Told + k, u[k].n) \in LoopTasks
         /\ Ordered(Given(u))
         /\ \A a, b \in LoopTasks : Dispatched(a) /\ Holds(Given(u), b) => Follows(a, b)
         /\ \A task \in LoopTasks : Holds(Given(u), task) => MessageTask(task)
<1> DEFINE G == Given(u)
<1>1. /\ g \in 0..Len(recvBridge.events) /\ g \in 0..Len(u)
      /\ \A k \in 1..g : /\ k \in DOMAIN u /\ u[k].kind = "message"
                         /\ u[k].n \in 1..MaxMessages
                         /\ k \in DOMAIN recvBridge.events
                         /\ recvBridge.events[k] = Told + k
  BY ReadFacts
<1>2. /\ Len(recvBridge.events) \in Nat /\ Len(receives) \in 0..MaxReceives
      /\ recvBridge.closed => recvBridge.events = <<>>
      /\ DOMAIN receives = 1..Len(receives)
      /\ \A k \in DOMAIN receives : receives[k].message \in 0..MaxMessages
  BY Lengths DEF Receives
<1>3. Told \in Nat /\ \A k \in 1..g : Told + k \in 1..MaxReceives
  BY <1>1, <1>2, BoundsAssumption DEF Told, Receiving
<1>4. \A k \in 1..g : /\ Task("message", Told + k, u[k].n) \in LoopTasks
                      /\ Task("message", Told + k, u[k].n).kind = "message"
                      /\ Task("message", Told + k, u[k].n).n = Told + k
                      /\ Task("message", Told + k, u[k].n).message = u[k].n
  <2>1. \A k \in 1..g : /\ Told + k \in 0..(MaxReceives + MaxSends)
                        /\ u[k].n \in 0..MaxMessages
    BY <1>1, <1>3, BoundsAssumption
  <2> HIDE DEF Told
  <2> QED
    BY <2>1 DEF Task, LoopTasks
<1> HIDE DEF Told
<1>5. G = [k \in 1..g |-> Task("message", Told + k, u[k].n)]
  BY <1>1 DEF Given
<1> HIDE DEF G
<1>6. G \in Seq(LoopTasks) /\ DOMAIN G = 1..g
  <2>1. G \in [1..g -> LoopTasks]
    BY <1>4, <1>5
  <2>2. g \in Nat
    BY <1>1
  <2> QED
    BY <2>1, <2>2, FunctionIsSeq
<1>7. \A a, b \in LoopTasks :
        a.kind = b.kind /\ a.n = b.n /\ a.message = b.message => a = b
  BY DEF LoopTasks
<1>8. \A task \in LoopTasks : Holds(G, task) <=>
        /\ task.kind = "message"
        /\ \E k \in 1..g : task.n = Told + k /\ task.message = u[k].n
  <2> SUFFICES ASSUME NEW task \in LoopTasks
               PROVE  Holds(G, task) <=>
                        /\ task.kind = "message"
                        /\ \E k \in 1..g : task.n = Told + k /\ task.message = u[k].n
    OBVIOUS
  <2>1. \A k \in 1..g : G[k] = Task("message", Told + k, u[k].n)
    BY <1>5
  <2>2. ASSUME Holds(G, task)
        PROVE  /\ task.kind = "message"
               /\ \E k \in 1..g : task.n = Told + k /\ task.message = u[k].n
    BY <1>4, <1>6, <2>1, <2>2 DEF Holds
  <2>3. ASSUME task.kind = "message", NEW k \in 1..g, task.n = Told + k, task.message = u[k].n
        PROVE  Holds(G, task)
    <3>1. Task("message", Told + k, u[k].n) = task
      BY <1>4, <1>7, <2>3
    <3> QED
      BY <1>6, <2>1, <3>1 DEF Holds
  <2> QED
    BY <2>2, <2>3
<1>9. Ordered(G)
  <2> SUFFICES ASSUME NEW i \in 1..g, NEW j \in 1..g, i < j
               PROVE  Follows(G[i], G[j])
    BY <1>6 DEF Ordered
  <2>1. /\ G[i].kind = "message" /\ G[i].n = Told + i /\ G[i].message = u[i].n
        /\ G[j].kind = "message" /\ G[j].n = Told + j /\ G[j].message = u[j].n
    BY <1>4, <1>5
  <2>2. u[i].n < u[j].n
    <3>1. u[j].n # 0
      BY <1>1, BoundsAssumption
    <3> QED
      BY <1>1, <3>1 DEF Incoming
  <2>3. Told + i < Told + j
    BY <1>1, <1>3
  <2> QED
    BY <2>1, <2>2, <2>3 DEF Follows, After, ForSend
<1> HIDE DEF Dispatched, LoopTasks
<1>10. \A m \in 0..MaxMessages : m = 0 \/ m \in 1..MaxMessages
  BY BoundsAssumption
<1>11. ASSUME NEW k \in 1..g, NEW m \in 0..MaxMessages, m # 0 => Handed(m) PROVE m < u[k].n
  <2>1. u[k].n # 0 /\ u[k].n \in Nat /\ 0 < u[k].n /\ k \in DOMAIN u
    BY <1>1, BoundsAssumption
  <2>2. m # 0 => m < u[k].n
    BY <1>10, <1>11, <2>1 DEF Incoming
  <2> QED
    BY <2>1, <2>2
<1>12. ASSUME NEW a \in LoopTasks, NEW b \in LoopTasks, Dispatched(a), Holds(G, b)
       PROVE  Follows(a, b)
  <2>1. PICK k \in 1..g : b.n = Told + k /\ b.message = u[k].n
    BY <1>8, <1>12
  <2>2. b.kind = "message"
    BY <1>8, <1>12
  <2>3. ForReceive(a) => a.n < b.n
    <3>1. ForReceive(a) => a.n \in 1..Told
      BY <1>12 DEF Receiving, ReceiveTask
    <3> QED
      BY <1>3, <2>1, <3>1
  <2>4. a.message < b.message
    <3>1. a.message \in 0..MaxMessages
      BY DEF LoopTasks
    <3>2. a.message # 0 => Handed(a.message)
      BY <1>12 DEF Handed
    <3> QED
      BY <1>11, <2>1, <3>1, <3>2
  <2>5. a.kind # "disconnect"
    <3>1. MessageTask(a)
      BY <1>12 DEF Results
    <3>2. ~recvBridge.closed
      <4>1. recvBridge.events # <<>>
        BY <1>1, <2>1
      <4> QED
        BY <1>2, <4>1
    <3> QED
      BY <3>1, <3>2 DEF MessageTask
  <2> QED
    BY <2>2, <2>3, <2>4, <2>5 DEF Follows, After, ForSend
<1>13. ASSUME NEW b \in LoopTasks, Holds(G, b) PROVE MessageTask(b)
  <2>1. PICK k \in 1..g : b.n = Told + k /\ b.message = u[k].n
    BY <1>8, <1>13
  <2>2. b.kind = "message" /\ b.message # 0
    BY <1>1, <1>8, <1>13, <2>1, BoundsAssumption
  <2>3. ~recvBridge.closed
    <3>1. recvBridge.events # <<>>
      BY <1>1, <2>1
    <3> QED
      BY <1>2, <3>1
  <2>4. ASSUME NEW j \in DOMAIN receives
        PROVE  After(receives[j].is, receives[j].message, b.kind, b.message)
    <3>1. receives[j].message \in 0..MaxMessages
      BY <1>2
    <3>2. receives[j].message # 0 => Handed(receives[j].message)
      BY DEF Handed
    <3>3. receives[j].message < b.message
      BY <1>11, <2>1, <3>1, <3>2
    <3>4. receives[j].is # "disconnect"
      BY <2>3 DEF Results
    <3> QED
      BY <2>2, <3>3, <3>4 DEF After
  <2> QED
    BY <2>2, <2>4 DEF MessageTask
<1> QED
  BY <1>4, <1>6, <1>8, <1>9, <1>12, <1>13 DEF G

LEMMA ReadCases ==
  ASSUME NEW u, ReadMessages(u)
  PROVE  \/ /\ Left(u) = <<>> \/ Rest(u) = <<>>
            /\ loop' = loop \o Given(u)
            /\ recvBridge' = [recvBridge EXCEPT !.events = Left(u)]
            /\ inbound' = Rest(u)
            /\ UNCHANGED <<sendBridge, closeFrame, websocket, connection, written>>
         \/ /\ Left(u) # <<>> /\ Rest(u) # <<>>
            /\ CloseBridges(Given(u), Left(u))
            /\ closeFrame' = TRUE /\ written' = Append(written, Frame("close", 0))
            /\ inbound' = <<>>
            /\ websocket' \in {"terminated", "closedByUs"}
            /\ connection' \in {connection, "closing"}
  BY DEF ReadMessages, Reads, Given, Left, Rest

\* The messages that were read are handed on, the first ones of those that were
\* unread.
LEMMA HandedRead ==
  ASSUME TypeOK, Receiving, Results, HandedOn, ~Early,
         NEW u \in Seq(Unread), NEW n \in 0..MaxMessages, Incoming(u, n), arrived <= n,
         NEW g, g = Reads(u), receives' = receives, arrived' = n,
         \A task \in LoopTasks : task.message # 0 =>
           (Dispatched(task)' <=> Dispatched(task) \/ Holds(Given(u), task))
  PROVE  /\ \A m \in 1..MaxMessages : Handed(m)' <=> Handed(m) \/ \E k \in 1..g : u[k].n = m
         /\ HandedOn'
<1>1. /\ g \in 0..Len(u) /\ g \in Nat
      /\ \A k \in 1..g : k \in DOMAIN u /\ u[k].n \in 1..MaxMessages
  BY ReadFacts
<1>2. /\ \A task \in LoopTasks : Holds(Given(u), task) <=>
           /\ task.kind = "message"
           /\ \E k \in 1..g : task.n = Told + k /\ task.message = u[k].n
      /\ \A k \in 1..g : Task("message", Told + k, u[k].n) \in LoopTasks
  BY GivenFacts
<1>3. /\ Len(u) \in Nat /\ DOMAIN u = 1..Len(u) /\ \A i \in DOMAIN u : u[i].n \in Nat
  <2>1. /\ Len(u) \in Nat /\ DOMAIN u = 1..Len(u) /\ \A i \in DOMAIN u : u[i] \in Unread
    BY EndsFacts
  <2>2. \A f \in Unread : f.n \in Nat
    BY BoundsAssumption DEF Unread
  <2> QED
    BY <2>1, <2>2
<1> HIDE DEF Dispatched, LoopTasks, Holds, Told
<1>4. ASSUME NEW m \in 1..MaxMessages
      PROVE  Handed(m)' <=> Handed(m) \/ \E k \in 1..g : u[k].n = m
  <2>1. m # 0
    OBVIOUS
  <2>2. ASSUME NEW k \in 1..g, u[k].n = m PROVE Handed(m)'
    <3>1. PICK task \in LoopTasks : task = Task("message", Told + k, u[k].n)
      BY <1>2
    <3>2. task.kind = "message" /\ task.n = Told + k /\ task.message = u[k].n
      BY <3>1 DEF Task
    <3>3. Dispatched(task)'
      BY <1>2, <2>1, <2>2, <3>2
    <3> QED
      BY <2>2, <3>2, <3>3 DEF Handed
  <2>3. Handed(m) => Handed(m)'
    BY <2>1 DEF Handed
  <2>4. ASSUME NEW task \in LoopTasks, Dispatched(task)', task.message = m
        PROVE  Handed(m) \/ \E k \in 1..g : u[k].n = m
    <3>1. CASE Dispatched(task)
      BY <2>4, <3>1 DEF Handed
    <3>2. CASE Holds(Given(u), task)
      BY <1>2, <2>4, <3>2
    <3> QED
      BY <2>1, <2>4, <3>1, <3>2
  <2>5. Handed(m)' => Handed(m) \/ \E k \in 1..g : u[k].n = m
    BY <2>4 DEF Handed
  <2> QED
    BY <2>2, <2>3, <2>5
<1>5. ASSUME NEW m \in 1..MaxMessages, Handed(m)'
      PROVE  m <= n /\ \A q \in 1..m : Handed(q)'
  <2>1. \A q \in 1..m : q \in 1..MaxMessages
    BY BoundsAssumption
  <2>2. CASE Handed(m)
    <3>1. m <= arrived /\ \A q \in 1..m : Handed(q)
      BY <2>2 DEF HandedOn
    <3>2. arrived \in Nat
      BY Lengths
    <3> QED
      BY <1>4, <2>1, <3>1, <3>2
  <2>3. ASSUME NEW k \in 1..g, u[k].n = m
        PROVE  m <= n /\ \A q \in 1..m : Handed(q)'
    <3>1. m <= n /\ \A q \in 1..m : Handed(q) \/ IsUnread(u, q)
      BY <1>1, <2>3 DEF Incoming
    <3>2. ASSUME NEW q \in 1..m, NEW j \in DOMAIN u, u[j].n = q
          PROVE  j \in 1..g
      <4>1. CASE k < j
        <5>1. u[k].n < u[j].n
          BY <1>1, <3>2, <4>1 DEF Incoming
        <5> QED
          BY <2>3, <3>2, <5>1
      <4> QED
        BY <1>1, <1>3, <4>1
    <3> QED
      BY <1>4, <2>1, <3>1, <3>2 DEF IsUnread
  <2> QED
    BY <1>4, <1>5, <2>2, <2>3
<1> QED
  BY <1>4, <1>5 DEF HandedOn

LEMMA IncomingRead ==
  ASSUME TypeOK, Receiving, NEW u \in Seq(Unread), NEW n \in 0..MaxMessages, Incoming(u, n),
         NEW g, g = Reads(u),
         \A m \in 1..MaxMessages : Handed(m)' <=> Handed(m) \/ \E k \in 1..g : u[k].n = m,
         inbound' = Rest(u), arrived' = n,
         (state = "accepted" /\ connection = "open" /\ ~closeFrame)'
           => (state = "accepted" /\ connection = "open" /\ ~closeFrame)
  PROVE  Incoming(inbound, arrived)'
<1>0. PICK r : r = Rest(u)
  OBVIOUS
<1>1. /\ g \in 0..Len(u) /\ g \in Nat
      /\ \A k \in 1..g : k \in DOMAIN u
      /\ Len(r) = Len(u) - g /\ DOMAIN r = 1..(Len(u) - g)
      /\ \A i \in 1..(Len(u) - g) : r[i] = u[g + i]
  BY <1>0, ReadFacts
<1>2. /\ Len(u) \in Nat /\ DOMAIN u = 1..Len(u) /\ \A i \in DOMAIN u : u[i].n \in 0..MaxMessages
  BY EndsFacts DEF Unread
<1>3. \A i \in DOMAIN r : g + i \in DOMAIN u /\ r[i] = u[g + i]
  BY <1>1, <1>2
<1>4. \A m \in 1..MaxMessages : Handed(m) \/ IsUnread(u, m) => Handed(m)' \/ IsUnread(r, m)
  <2>1. ASSUME NEW m \in 1..MaxMessages, NEW j \in DOMAIN u, u[j].n = m
        PROVE  Handed(m)' \/ IsUnread(r, m)
    <3>1. CASE j \in 1..g
      BY <2>1, <3>1
    <3>2. CASE j > g
      <4>1. j - g \in DOMAIN r /\ g + (j - g) = j
        BY <1>1, <1>2, <3>2
      <4> QED
        BY <1>3, <2>1, <4>1 DEF IsUnread
    <3> QED
      BY <1>1, <1>2, <3>1, <3>2
  <2> QED
    BY <2>1 DEF IsUnread
<1>5. \A q \in 0..MaxMessages : \A m \in 1..q : m \in 1..MaxMessages
  BY BoundsAssumption
<1> HIDE DEF Handed, IsUnread
<1>6. ASSUME NEW i \in DOMAIN r
      PROVE  /\ r[i].n # 0 <=> r[i].kind = "message"
             /\ r[i].n <= n
             /\ i < Len(r) => r[i].kind = "message"
             /\ \A m \in 1..r[i].n : Handed(m)' \/ IsUnread(r, m)
             /\ \A m \in 1..MaxMessages : Handed(m)' /\ r[i].n # 0 => m < r[i].n
  <2>1. g + i \in DOMAIN u /\ r[i] = u[g + i]
    BY <1>3
  <2>2. i < Len(r) => g + i < Len(u)
    BY <1>1, <1>2
  <2>3. /\ r[i].n # 0 <=> r[i].kind = "message"
        /\ r[i].n <= n
        /\ i < Len(r) => r[i].kind = "message"
    BY <2>1, <2>2 DEF Incoming
  <2>4. \A m \in 1..r[i].n : Handed(m)' \/ IsUnread(r, m)
    <3>1. r[i].n \in 0..MaxMessages
      BY <1>2, <2>1
    <3> QED
      BY <1>4, <1>5, <2>1, <3>1 DEF Incoming
  <2>5. ASSUME NEW m \in 1..MaxMessages, Handed(m)', r[i].n # 0 PROVE m < r[i].n
    <3>1. CASE Handed(m)
      BY <2>1, <2>5, <3>1 DEF Incoming
    <3>2. ASSUME NEW k \in 1..g, u[k].n = m PROVE m < r[i].n
      <4>1. k \in DOMAIN u /\ k < g + i
        BY <1>1
      <4> QED
        BY <2>1, <2>5, <3>2, <4>1 DEF Incoming
    <3> QED
      BY <2>5, <3>1, <3>2
  <2> QED
    BY <2>3, <2>4, <2>5
<1>7. ASSUME NEW i \in DOMAIN r, NEW j \in DOMAIN r, i < j, r[j].n # 0
      PROVE  r[i].n < r[j].n
  <2>1. g + i < g + j
    BY <1>1, <1>7
  <2> QED
    BY <1>3, <1>7, <2>1 DEF Incoming
<1>8. (state = "accepted" /\ connection = "open" /\ ~closeFrame)' =>
        \A m \in 1..n : Handed(m)' \/ IsUnread(r, m)
  BY <1>4, <1>5 DEF Incoming
<1>9. \A m : IsUnread(inbound, m)' <=> IsUnread(r, m)
  BY <1>0 DEF IsUnread
<1> QED
  BY <1>0, <1>6, <1>7, <1>8, <1>9 DEF Incoming

-----------------------------------------------------------------------------
(* Closing the bridges.                                                    *)

LEMMA CloseKeeps ==
  ASSUME TypeOK, Receiving, Sending, Results, LoopInOrder, batch = <<>>, batch' = <<>>,
         receives' = receives, sends' = sends, SendStateKept, Early' => Early,
         \A k \in 1..MaxSends : IsWritten(k)' <=> IsWritten(k),
         NEW tasks \in Seq(LoopTasks), NEW waiting \in Seq(1..MaxReceives),
         NEW g \in 0..Len(recvBridge.events),
         DOMAIN waiting = 1..(Len(recvBridge.events) - g),
         \A i \in 1..(Len(recvBridge.events) - g) : waiting[i] = Told + (g + i),
         \A task \in LoopTasks : Holds(tasks, task) =>
           task.kind = "message" /\ task.n \in (Told + 1)..(Told + g) /\ MessageTask(task),
         \A k \in (Told + 1)..(Told + g) :
           \E task \in LoopTasks : Holds(tasks, task) /\ task.n = k,
         Ordered(tasks),
         \A a, b \in LoopTasks : Dispatched(a) /\ Holds(tasks, b) => Follows(a, b),
         CloseBridges(tasks, waiting)
  PROVE  /\ loop' \in Seq(LoopTasks)
         /\ recvBridge' = ClosedBridge /\ sendBridge' = ClosedBridge
         /\ Receiving' /\ Sending' /\ Results' /\ LoopInOrder'
         /\ \A task \in LoopTasks : task.message # 0 =>
              (Dispatched(task)' <=> Dispatched(task) \/ Holds(tasks, task))
<1>1. /\ Len(recvBridge.events) \in Nat /\ Len(receives) \in 0..MaxReceives
      /\ DOMAIN receives = 1..Len(receives)
  BY Lengths
<1>2. /\ Told \in Nat /\ Told + Len(recvBridge.events) = Len(receives)
  BY <1>1 DEF Told, Receiving
<1> DEFINE l == Len(recvBridge.events)
<1> HIDE DEF Told, l
<1>3. l \in Nat /\ g \in 0..l /\ l = Len(recvBridge.events) /\ Told + l = Len(receives)
  BY Zenon, <1>1, <1>2 DEF l
<1>4. \A j, k \in DOMAIN waiting : j < k => waiting[j] < waiting[k]
  <2> SUFFICES ASSUME NEW j \in DOMAIN waiting, NEW k \in DOMAIN waiting, j < k
               PROVE  waiting[j] < waiting[k]
    OBVIOUS
  <2>1. /\ waiting[j] = Told + (g + j) /\ waiting[k] = Told + (g + k)
        /\ j \in Nat /\ k \in Nat /\ g \in Nat
    BY SMTT(60), <1>3
  <2>2. Told + (g + j) < Told + (g + k)
    BY <1>2, <2>1
  <2> QED
    BY <2>1, <2>2
<1>5. Pipe = sendBridge.events /\ Increasing(sendBridge.events)
  BY DEF Sending, Pipe
<1>6. /\ loop' \in Seq(LoopTasks)
      /\ recvBridge' = ClosedBridge /\ sendBridge' = ClosedBridge
      /\ \A task \in LoopTasks : Dispatched(task)' <=>
           \/ Dispatched(task)
           \/ Holds(tasks, task)
           \/ /\ task.kind = "disconnect" /\ task.message = 0
              /\ \E k \in DOMAIN waiting : waiting[k] = task.n
           \/ /\ task.kind = "refused" /\ task.message = 0 /\ task.n # 0
              /\ \E i \in DOMAIN sendBridge.events : sendBridge.events[i].n = task.n
      /\ /\ LoopInOrder /\ Ordered(tasks)
         /\ \A a, b \in LoopTasks : Dispatched(a) /\ Holds(tasks, b) => Follows(a, b)
         /\ \A a \in LoopTasks, k \in DOMAIN waiting :
              (Dispatched(a) \/ Holds(tasks, a)) /\ ForReceive(a) => a.n < waiting[k]
         /\ \A a \in LoopTasks, i \in DOMAIN sendBridge.events :
              Dispatched(a) /\ ForSend(a) /\ sendBridge.events[i].n # 0
                => a.n < sendBridge.events[i].n
         /\ \A a \in LoopTasks : Holds(tasks, a) => ~ForSend(a)
         => LoopInOrder'
  BY <1>4, <1>5, BridgesClosed
<1>7. Pipe' = <<>>
  BY <1>6 DEF Pipe, ClosedBridge
<1>8. recvBridge'.closed /\ recvBridge'.events = <<>>
  BY <1>6 DEF ClosedBridge
<1>9. LoopInOrder'
  <2>1. ASSUME NEW a \in LoopTasks, NEW k \in DOMAIN waiting,
               Dispatched(a) \/ Holds(tasks, a), ForReceive(a)
        PROVE  a.n < waiting[k]
    <3>1. a.n \in 1..Told \/ a.n \in (Told + 1)..(Told + g)
      BY <2>1 DEF Receiving, ReceiveTask
    <3>2. waiting[k] = Told + (g + k) /\ k \in 1..(l - g)
      BY <1>3, <2>1
    <3> QED
      BY <1>2, <1>3, <3>1, <3>2
  <2>2. ASSUME NEW a \in LoopTasks, NEW i \in DOMAIN sendBridge.events,
               Dispatched(a), ForSend(a), sendBridge.events[i].n # 0
        PROVE  a.n < sendBridge.events[i].n
    <3>1. PICK e \in SendEvents : e = sendBridge.events[i] /\ Queued(e)
      <4>1. \A j \in DOMAIN Pipe : Pipe[j] \in SendEvents /\ Queued(Pipe[j])
        BY Lengths
      <4> QED
        BY <1>5, <2>2, <4>1
    <3>2. SendTask(a)
      BY <2>2 DEF Sending
    <3> QED
      BY <2>2, <3>1, <3>2 DEF SendTask
  <2>3. \A a \in LoopTasks : Holds(tasks, a) => ~ForSend(a)
    BY DEF ForSend
  <2> QED
    BY <1>6, <2>1, <2>2, <2>3
<1>10. Sending'
  <2>1. \A task \in LoopTasks : ForSend(task) =>
          (Dispatched(task)' <=>
             \/ Dispatched(task)
             \/ /\ task.kind = "refused" /\ task.message = 0 /\ task.n # 0
                /\ \E i \in DOMAIN Pipe : Pipe[i].n = task.n)
    BY <1>5, <1>6 DEF ForSend
  <2> QED
    BY <1>7, <2>1, SendingClosed
<1>11. Receiving'
  <2>1. /\ Len(recvBridge'.events) = l - l
        /\ DOMAIN recvBridge'.events = 1..(l - l)
        /\ \A i \in 1..(l - l) : recvBridge'.events[i] = recvBridge.events[l + i]
        /\ l \in 0..l
    <3>1. Len(recvBridge'.events) = 0 /\ DOMAIN recvBridge'.events = {}
      BY <1>8
    <3>2. l - l = 0 /\ 1..0 = {}
      BY <1>3
    <3> QED
      BY <1>3, <3>1, <3>2
  <2>2. ASSUME NEW task \in LoopTasks, ForReceive(task), Dispatched(task)'
        PROVE  Dispatched(task) \/ task.n \in (Told + 1)..(Told + l)
    <3>1. CASE Holds(tasks, task)
      BY <1>2, <1>3, <3>1
    <3>2. ASSUME NEW k \in DOMAIN waiting, waiting[k] = task.n
          PROVE  task.n \in (Told + 1)..(Told + l)
      <4>1. k \in 1..(l - g) /\ task.n = Told + (g + k)
        BY <1>3, <3>2
      <4> QED
        BY <1>2, <1>3, <4>1
    <3> QED
      BY <1>6, <2>2, <3>1, <3>2 DEF ForReceive
  <2>3. ASSUME NEW k \in (Told + 1)..(Told + l)
        PROVE  \E task \in LoopTasks : Dispatched(task)' /\ ForReceive(task) /\ task.n = k
    <3>1. CASE k \in (Told + 1)..(Told + g)
      <4>1. PICK task \in LoopTasks : Holds(tasks, task) /\ task.n = k
        BY <3>1
      <4>2. Dispatched(task)' /\ ForReceive(task)
        BY <1>6, <4>1 DEF ForReceive
      <4> QED
        BY <4>1, <4>2
    <3>2. CASE k > Told + g
      <4>1. k \in 0..(MaxReceives + MaxSends) /\ 0 \in 0..MaxMessages
        <5>1. k \in Nat /\ k <= Len(receives)
          BY <1>2, <1>3
        <5> QED
          BY <1>1, <5>1, BoundsAssumption
      <4>2. PICK task \in LoopTasks : task = Task("disconnect", k, 0)
        BY <4>1 DEF Task, LoopTasks
      <4>3. task.kind = "disconnect" /\ task.message = 0 /\ task.n = k /\ ForReceive(task)
        BY <4>2 DEF Task, ForReceive
      <4>4. /\ k - (Told + g) \in 1..(l - g)
            /\ Told + (g + (k - (Told + g))) = k
        BY <1>2, <1>3, <3>2
      <4>5. k - (Told + g) \in DOMAIN waiting /\ waiting[k - (Told + g)] = k
        BY <1>3, <4>4
      <4>6. Dispatched(task)'
        BY <1>6, <4>3, <4>5
      <4> QED
        BY <4>3, <4>6
    <3> QED
      BY <1>2, <1>3, <3>1, <3>2
  <2>4. /\ Len(recvBridge'.events) = Len(recvBridge.events) - l
        /\ DOMAIN recvBridge'.events = 1..(Len(recvBridge.events) - l)
        /\ \A i \in 1..(Len(recvBridge.events) - l) :
             recvBridge'.events[i] = recvBridge.events[l + i]
        /\ l \in 0..Len(recvBridge.events)
    BY <1>3, <2>1
  <2>5. \A task \in LoopTasks : ForReceive(task) =>
          /\ Dispatched(task) => Dispatched(task)'
          /\ Dispatched(task)' => Dispatched(task) \/ task.n \in (Told + 1)..(Told + l)
    BY <1>6, <2>2
  <2> QED
    BY <2>3, <2>4, <2>5, ReceivingMoved
<1>12. Results'
  <2>1. ASSUME NEW task \in LoopTasks, Dispatched(task)' PROVE Dispatched(task) \/ MessageTask(task)'
    <3>1. CASE Holds(tasks, task)
      BY <1>8, <3>1 DEF MessageTask, After
    <3>2. CASE task.kind \in {"disconnect", "refused"} /\ task.message = 0
      BY <1>8, <3>2, MessageTaskOther
    <3> QED
      BY <1>6, <2>1, <3>1, <3>2
  <2>2. Onward
    BY <1>8 DEF Onward
  <2> QED
    BY <2>1, <2>2, ResultsExtended
<1>13. \A task \in LoopTasks : task.message # 0 =>
         (Dispatched(task)' <=> Dispatched(task) \/ Holds(tasks, task))
  BY <1>6
<1> QED
  BY <1>6, <1>9, <1>10, <1>11, <1>12, <1>13

\* Without messages that are handed on.
LEMMA CloseAllKeeps ==
  ASSUME TypeOK, Receiving, Sending, Results, LoopInOrder, batch = <<>>, batch' = <<>>,
         receives' = receives, sends' = sends, SendStateKept, Early' => Early,
         written' = written, CloseBridges(<<>>, recvBridge.events)
  PROVE  /\ loop' \in Seq(LoopTasks)
         /\ recvBridge' = ClosedBridge /\ sendBridge' = ClosedBridge
         /\ Receiving' /\ Sending' /\ Results' /\ LoopInOrder'
         /\ \A m \in 1..MaxMessages : Handed(m)' <=> Handed(m)
<1>1. PICK tasks, waiting, g : tasks = <<>> /\ waiting = recvBridge.events /\ g = 0
  OBVIOUS
<1>2. /\ tasks \in Seq(LoopTasks) /\ waiting \in Seq(1..MaxReceives)
      /\ g \in 0..Len(recvBridge.events)
      /\ DOMAIN waiting = 1..(Len(recvBridge.events) - g)
      /\ \A i \in 1..(Len(recvBridge.events) - g) : i = g + i
  <2>1. /\ recvBridge.events \in Seq(1..MaxReceives) /\ Len(recvBridge.events) \in Nat
        /\ DOMAIN recvBridge.events = 1..Len(recvBridge.events)
    BY Lengths
  <2> QED
    BY <1>1, <2>1
<1>3. \A i \in 1..(Len(recvBridge.events) - g) : waiting[i] = Told + (g + i)
  <2>1. \A i \in DOMAIN waiting : waiting[i] = Told + i
    BY <1>1 DEF Receiving
  <2> QED
    BY <1>2, <2>1
<1>4. \A task : ~Holds(tasks, task)
  BY <1>1 DEF Holds
<1>5. Ordered(tasks)
  BY <1>1 DEF Ordered
<1>6. \A k \in (Told + 1)..(Told + g) : FALSE
  <2>1. Told \in Int
    <3>1. Len(receives) \in Nat /\ Len(recvBridge.events) \in Nat
      BY Lengths
    <3> QED
      BY <3>1 DEF Told
  <2> QED
    BY <1>1, <2>1
<1>7. \A k : IsWritten(k)' <=> IsWritten(k)
  BY DEF IsWritten
<1>8. CloseBridges(tasks, waiting)
  BY <1>1
<1>9. /\ loop' \in Seq(LoopTasks)
      /\ recvBridge' = ClosedBridge /\ sendBridge' = ClosedBridge
      /\ Receiving' /\ Sending' /\ Results' /\ LoopInOrder'
      /\ \A task \in LoopTasks : task.message # 0 =>
           (Dispatched(task)' <=> Dispatched(task) \/ Holds(tasks, task))
  BY <1>2, <1>3, <1>4, <1>5, <1>6, <1>7, <1>8, CloseKeeps
<1>10. \A m \in 1..MaxMessages : Handed(m)' <=> Handed(m)
  BY <1>4, <1>9, HandedKept
<1> QED
  BY <1>9, <1>10

\* A read of u, of which the last message is number n.
ReadSetting(u, n) ==
  /\ state = "accepted" /\ state' = "accepted" /\ batch = <<>> /\ batch' = <<>>
  /\ receives' = receives /\ sends' = sends /\ sendState' = sendState
  /\ u \in Seq(Unread) /\ n \in 0..MaxMessages /\ (~closeFrame => Incoming(u, n))
  /\ arrived <= n /\ arrived' = n
  /\ connection # "gone"

Core ==
  /\ loop \in Seq(LoopTasks)
  /\ Receiving /\ Sending /\ LoopInOrder /\ Results /\ HandedOn /\ Incoming(inbound, arrived)

\* What a read comes to: messages for those who wait, or the end of the messages,
MessagesRead(u) ==
  /\ ~closeFrame
  /\ Left(u) = <<>> \/ Rest(u) = <<>>
  /\ recvBridge' = [recvBridge EXCEPT !.events = Left(u)]
  /\ Left(u) \in Seq(1..MaxReceives)
  /\ recvBridge.closed => Left(u) = <<>>
  /\ inbound' = Rest(u) /\ Rest(u) \in Seq(Unread) /\ Len(Rest(u)) <= Len(u)
  /\ DOMAIN Rest(u) = 1..Len(Rest(u)) /\ DOMAIN u = 1..Len(u)
  /\ Len(Rest(u)) \in Nat /\ Len(u) \in Nat
  /\ \A i \in DOMAIN Rest(u) : Rest(u)[i] = u[(Len(u) - Len(Rest(u))) + i]
  /\ UNCHANGED <<sendBridge, closeFrame, websocket, connection, written>>

\* which is noticed by a receive that waits,
ClosedOnRead ==
  /\ ~closeFrame /\ closeFrame' = TRUE
  /\ recvBridge' = ClosedBridge /\ sendBridge' = ClosedBridge
  /\ written' = Append(written, Frame("close", 0))
  /\ inbound' = <<>>
  /\ websocket' \in {"terminated", "closedByUs"}
  /\ connection' \in {connection, "closing"}

\* or nothing but an end of what is unread, when the connection is closing.
ReadToTheEnd ==
  /\ closeFrame /\ closeFrame' = closeFrame
  /\ recvBridge' = ClosedBridge /\ sendBridge' = ClosedBridge
  /\ written' = written
  /\ inbound' = <<>>
  /\ websocket' \in {websocket, "terminated"}
  /\ connection' \in {connection, "closing"}

LEMMA ReadKeeps ==
  ASSUME TypeOK, Core, NEW u, NEW n, ReadSetting(u, n), ReadWebSocket(u)
  PROVE  /\ Core'
         /\ MessagesRead(u) \/ ClosedOnRead \/ ReadToTheEnd
<1> USE DEF ReadSetting
<1>1. ~Early /\ ~Early' /\ SendStateKept
  BY DEF Early, SendStateKept
<1>2. /\ Receiving /\ Sending /\ LoopInOrder /\ Results /\ HandedOn
      /\ u \in Seq(Unread) /\ n \in 0..MaxMessages /\ arrived <= n
      /\ arrived' = n /\ receives' = receives /\ sends' = sends
      /\ arrived \in Nat /\ arrived' \in Nat
  BY Lengths, BoundsAssumption DEF Core
<1>3. CASE closeFrame
  <2>1. ReadClosing(u)
    BY <1>3 DEF ReadWebSocket
  <2>2. /\ CloseBridges(<<>>, recvBridge.events)
        /\ closeFrame' = closeFrame /\ written' = written /\ inbound' = <<>>
        /\ websocket' \in {websocket, "terminated"}
        /\ connection' \in {connection, "closing"}
    BY <2>1 DEF ReadClosing, FinishClose
  <2>3. /\ loop' \in Seq(LoopTasks)
        /\ recvBridge' = ClosedBridge /\ sendBridge' = ClosedBridge
        /\ Receiving' /\ Sending' /\ Results' /\ LoopInOrder'
        /\ \A m \in 1..MaxMessages : Handed(m)' <=> Handed(m)
    BY <1>1, <1>2, <2>2, CloseAllKeeps
  <2>4. HandedOn'
    BY <1>2, <2>3, HandedOnKept
  <2>5. Incoming(inbound, arrived)'
    BY <1>3, <2>2, IncomingEmptied
  <2> QED
    BY <1>3, <2>2, <2>3, <2>4, <2>5 DEF Core, ReadToTheEnd
<1>4. CASE ~closeFrame
  <2>0. ReadMessages(u) /\ Incoming(u, n)
    BY <1>4 DEF ReadWebSocket
  <2> USE <2>0
  <2>1. PICK g : g = Reads(u)
    OBVIOUS
  <2>2. /\ g \in 0..Len(recvBridge.events) /\ g \in 0..Len(u)
        /\ \A k \in 1..g : /\ k \in DOMAIN u /\ u[k].kind = "message"
                           /\ u[k].n \in 1..MaxMessages
                           /\ k \in DOMAIN recvBridge.events
                           /\ recvBridge.events[k] = Told + k
        /\ Left(u) \in Seq(1..MaxReceives) /\ Len(Left(u)) = Len(recvBridge.events) - g
        /\ DOMAIN Left(u) = 1..(Len(recvBridge.events) - g)
        /\ \A i \in 1..(Len(recvBridge.events) - g) : Left(u)[i] = recvBridge.events[g + i]
        /\ Rest(u) \in Seq(Unread) /\ Len(Rest(u)) = Len(u) - g
        /\ DOMAIN Rest(u) = 1..(Len(u) - g)
        /\ \A i \in 1..(Len(u) - g) : Rest(u)[i] = u[g + i]
    BY SMTT(60), <1>2, <2>1, ReadFacts
  <2>3. /\ Given(u) \in Seq(LoopTasks)
        /\ \A task \in LoopTasks : Holds(Given(u), task) <=>
             /\ task.kind = "message"
             /\ \E k \in 1..g : task.n = Told + k /\ task.message = u[k].n
        /\ \A k \in 1..g : Task("message", Told + k, u[k].n) \in LoopTasks
        /\ Ordered(Given(u))
        /\ \A a, b \in LoopTasks : Dispatched(a) /\ Holds(Given(u), b) => Follows(a, b)
        /\ \A task \in LoopTasks : Holds(Given(u), task) => MessageTask(task)
    BY <1>1, <1>2, <2>1, GivenFacts
  <2>4. /\ Len(recvBridge.events) \in Nat /\ Len(u) \in Nat /\ DOMAIN u = 1..Len(u)
        /\ Told \in Nat /\ g \in Nat
        /\ recvBridge = [closed |-> recvBridge.closed, events |-> recvBridge.events]
        /\ recvBridge.closed => recvBridge.events = <<>>
    <3>1. Len(receives) \in Nat /\ Len(recvBridge.events) \in Nat
      BY Lengths
    <3>2. Told \in Nat
      BY <1>2, <3>1 DEF Told, Receiving
    <3>3. Len(u) \in Nat /\ DOMAIN u = 1..Len(u)
      BY <1>2, EndsFacts
    <3>4. /\ recvBridge = [closed |-> recvBridge.closed, events |-> recvBridge.events]
          /\ recvBridge.closed => recvBridge.events = <<>>
      BY Lengths
    <3> QED
      BY <2>2, <3>1, <3>2, <3>3, <3>4
  <2>5. ASSUME NEW k \in (Told + 1)..(Told + g)
        PROVE  \E task \in LoopTasks : Holds(Given(u), task) /\ ForReceive(task) /\ task.n = k
    <3>1. k - Told \in 1..g /\ Told + (k - Told) = k
      BY <2>4
    <3>2. PICK task \in LoopTasks : task = Task("message", Told + (k - Told), u[k - Told].n)
      BY <2>3, <3>1
    <3>3. task.kind = "message" /\ task.n = Told + (k - Told) /\ task.message = u[k - Told].n
      BY <3>2 DEF Task
    <3> QED
      BY <2>3, <3>1, <3>3 DEF ForReceive
  <2>6. \A task \in LoopTasks : Holds(Given(u), task) =>
          /\ task.kind = "message" /\ task.n \in (Told + 1)..(Told + g) /\ MessageTask(task)
    <3> SUFFICES ASSUME NEW task \in LoopTasks, Holds(Given(u), task)
                 PROVE  task.n \in (Told + 1)..(Told + g)
      BY <2>3
    <3>1. PICK k \in 1..g : task.n = Told + k
      BY <2>3
    <3> QED
      BY <2>4, <3>1
  <2>7. CASE /\ Left(u) = <<>> \/ Rest(u) = <<>>
             /\ loop' = loop \o Given(u)
             /\ recvBridge' = [recvBridge EXCEPT !.events = Left(u)]
             /\ inbound' = Rest(u)
             /\ UNCHANGED <<sendBridge, closeFrame, websocket, connection, written>>
    <3>1. recvBridge'.events = Left(u) /\ recvBridge'.closed = recvBridge.closed
      BY <2>4, <2>7
    <3>2. /\ loop' \in Seq(LoopTasks)
          /\ \A task \in LoopTasks :
               Dispatched(task)' <=> Dispatched(task) \/ Holds(Given(u), task)
          /\ LoopInOrder'
      BY <1>2, <2>3, <2>7, LoopExtended
    <3>3. Receiving'
      <4>1. \A task \in LoopTasks : ForReceive(task) =>
              /\ Dispatched(task) => Dispatched(task)'
              /\ Dispatched(task)' => Dispatched(task) \/ task.n \in (Told + 1)..(Told + g)
        BY <2>6, <3>2
      <4>2. \A k \in (Told + 1)..(Told + g) :
              \E task \in LoopTasks : Dispatched(task)' /\ ForReceive(task) /\ task.n = k
        BY <2>5, <3>2
      <4>3. /\ Len(recvBridge'.events) = Len(recvBridge.events) - g
            /\ DOMAIN recvBridge'.events = 1..(Len(recvBridge.events) - g)
            /\ \A i \in 1..(Len(recvBridge.events) - g) :
                 recvBridge'.events[i] = recvBridge.events[g + i]
        BY <2>2, <3>1
      <4> QED
        BY <1>2, <2>2, <4>1, <4>2, <4>3, ReceivingMoved
    <3>4. Sending'
      <4>1. Pipe' = Pipe /\ Increasing(Pipe)
        BY <1>2, <2>7 DEF Pipe, Sending
      <4>2. /\ \A e \in SendEvents : Queued(e)' <=> Queued(e)
            /\ Increasing(Pipe)'
        BY <4>1, PipeKept
      <4>3. \A task \in LoopTasks : ForSend(task) => (Dispatched(task)' <=> Dispatched(task))
        BY <2>6, <3>2 DEF ForSend
      <4>4. \A k : IsWritten(k)' <=> IsWritten(k)
        BY <2>7 DEF IsWritten
      <4> QED
        BY <1>1, <1>2, <4>2, <4>3, <4>4, SendingKept
    <3>5. Results'
      <4>1. Onward
        BY <1>1, <3>1 DEF Onward
      <4>2. ASSUME NEW task \in LoopTasks, Holds(Given(u), task) PROVE MessageTask(task)'
        <5>1. MessageTask(task)
          BY <2>3, <4>2
        <5> QED
          BY <1>1, <1>2, <3>1, <5>1 DEF MessageTask, After
      <4>3. \A task \in LoopTasks : Dispatched(task)' => Dispatched(task) \/ MessageTask(task)'
        BY <3>2, <4>2
      <4> QED
        BY <1>2, <4>1, <4>3, ResultsExtended
    <3>6. /\ \A m \in 1..MaxMessages : Handed(m)' <=> Handed(m) \/ \E k \in 1..g : u[k].n = m
          /\ HandedOn'
      <4>1. \A task \in LoopTasks : task.message # 0 =>
              (Dispatched(task)' <=> Dispatched(task) \/ Holds(Given(u), task))
        BY <3>2
      <4> QED
        BY <1>1, <1>2, <2>1, <4>1, HandedRead
    <3>7. Incoming(inbound, arrived)'
      <4>1. (state = "accepted" /\ connection = "open" /\ ~closeFrame)'
              => (state = "accepted" /\ connection = "open" /\ ~closeFrame)
        BY <2>7
      <4> QED
        BY <1>2, <2>1, <2>7, <3>6, <4>1, IncomingRead
    <3>8. /\ Len(Rest(u)) <= Len(u) /\ Len(Rest(u)) \in Nat /\ g = Len(u) - Len(Rest(u))
          /\ DOMAIN Rest(u) = 1..Len(Rest(u))
          /\ \A i \in DOMAIN Rest(u) : Rest(u)[i] = u[(Len(u) - Len(Rest(u))) + i]
      BY <2>2, <2>4
    <3>9. recvBridge.closed => Left(u) = <<>>
      <4>1. recvBridge.closed => Len(Left(u)) = 0
        BY <2>2, <2>4
      <4> QED
        BY <2>2, <4>1, EmptySeq
    <3> QED
      BY <1>4, <2>2, <2>4, <2>7, <3>2, <3>3, <3>4, <3>5, <3>6, <3>7, <3>8, <3>9 DEF Core, MessagesRead
  <2>8. CASE /\ Left(u) # <<>> /\ Rest(u) # <<>>
             /\ CloseBridges(Given(u), Left(u))
             /\ closeFrame' = TRUE /\ written' = Append(written, Frame("close", 0))
             /\ inbound' = <<>>
             /\ websocket' \in {"terminated", "closedByUs"}
             /\ connection' \in {connection, "closing"}
    <3>1. \A k \in 1..MaxSends : IsWritten(k)' <=> IsWritten(k)
      <4>1. PICK f : f = Frame("close", 0)
        OBVIOUS
      <4>2. f \in Frames /\ f.n = 0
        BY <4>1, BoundsAssumption DEF Frame, Frames
      <4>3. \A k \in 0..MaxSends : IsWritten(k)' <=> IsWritten(k) \/ k = f.n
        BY <2>8, <4>1, <4>2, WrittenAppended
      <4> QED
        BY <4>2, <4>3
    <3>2. \A i \in 1..(Len(recvBridge.events) - g) : Left(u)[i] = Told + (g + i)
      <4>1. \A i \in 1..(Len(recvBridge.events) - g) : g + i \in DOMAIN recvBridge.events
        <5>1. DOMAIN recvBridge.events = 1..Len(recvBridge.events)
          BY Lengths
        <5> QED
          BY <2>2, <2>4, <5>1
      <4> QED
        BY <1>2, <2>2, <4>1 DEF Receiving
    <3>3. /\ loop' \in Seq(LoopTasks)
          /\ recvBridge' = ClosedBridge /\ sendBridge' = ClosedBridge
          /\ Receiving' /\ Sending' /\ Results' /\ LoopInOrder'
          /\ \A task \in LoopTasks : task.message # 0 =>
               (Dispatched(task)' <=> Dispatched(task) \/ Holds(Given(u), task))
      <4>1. \A k \in (Told + 1)..(Told + g) :
              \E task \in LoopTasks : Holds(Given(u), task) /\ task.n = k
        BY <2>5
      <4> QED
        BY <1>1, <1>2, <2>2, <2>3, <2>6, <2>8, <3>1, <3>2, <4>1, CloseKeeps
    <3>4. HandedOn'
      BY <1>1, <1>2, <2>1, <3>3, HandedRead
    <3>5. Incoming(inbound, arrived)'
      BY <2>8, IncomingEmptied
    <3> QED
      BY <1>4, <2>8, <3>3, <3>4, <3>5 DEF Core, ClosedOnRead
  <2> QED
    BY <2>0, <2>7, <2>8, ReadCases
<1> QED
  BY <1>3, <1>4

-----------------------------------------------------------------------------
(* What the steps keep of the futures, the loop and the messages.          *)

\* The messages can only be passed over in a connection that is open.
Flowing == state = "accepted" /\ connection = "open" /\ ~closeFrame

\* Messages that are not read are of no concern unless the connection is open.
LEMMA IncomingGrown ==
  ASSUME TypeOK, Incoming(inbound, arrived), inbound' = inbound, arrived' \in arrived..MaxMessages,
         \A m \in 1..MaxMessages : Handed(m)' <=> Handed(m),
         Flowing' => (Flowing /\ arrived' = arrived) \/ arrived' = 0
  PROVE  Incoming(inbound, arrived)'
<1>1. PICK u, n : u = inbound /\ n = arrived'
  OBVIOUS
<1>2. /\ u \in Seq(Unread) /\ arrived \in 0..MaxMessages /\ n \in 0..MaxMessages
      /\ arrived <= n /\ DOMAIN u = 1..Len(u)
      /\ \A i \in DOMAIN u : u[i].n \in 0..MaxMessages
  <2>1. /\ inbound \in Seq(Unread) /\ arrived \in 0..MaxMessages
        /\ DOMAIN inbound = 1..Len(inbound) /\ \A i \in DOMAIN inbound : inbound[i] \in Unread
    BY Lengths
  <2>2. \A f \in Unread : f.n \in 0..MaxMessages
    BY DEF Unread
  <2> QED
    BY <1>1, <2>1, <2>2, BoundsAssumption
<1>3. /\ \A i \in DOMAIN u :
           /\ u[i].n # 0 <=> u[i].kind = "message"
           /\ u[i].n <= n
           /\ i < Len(u) => u[i].kind = "message"
           /\ \A m \in 1..u[i].n : Handed(m)' \/ IsUnread(u, m)
           /\ \A m \in 1..MaxMessages : Handed(m)' /\ u[i].n # 0 => m < u[i].n
      /\ \A i, j \in DOMAIN u : i < j /\ u[j].n # 0 => u[i].n < u[j].n
  <2>0. Incoming(u, arrived)
    BY <1>1
  <2>1. \A i \in DOMAIN u : u[i].n <= arrived => u[i].n <= n
    BY <1>2
  <2>2. \A q \in 0..MaxMessages : \A m \in 1..q : m \in 1..MaxMessages
    BY BoundsAssumption
  <2> QED
    BY <1>2, <2>0, <2>1, <2>2 DEF Incoming
<1>4. Flowing' => \A m \in 1..n : Handed(m)' \/ IsUnread(u, m)
  <2>1. CASE n = 0
    BY <2>1
  <2>2. CASE Flowing /\ n = arrived
    <3>1. \A m \in 1..n : Handed(m) \/ IsUnread(u, m)
      BY <1>1, <2>2 DEF Incoming, Flowing
    <3>2. \A m \in 1..n : m \in 1..MaxMessages
      BY <1>2, BoundsAssumption
    <3> QED
      BY <3>1, <3>2
  <2> QED
    BY <1>1, <2>1, <2>2
<1>5. inbound' = u /\ arrived' = n /\ \A m : IsUnread(inbound, m)' <=> IsUnread(u, m)
  BY <1>1 DEF IsUnread
<1> QED
  BY <1>3, <1>4, <1>5 DEF Incoming, Flowing

\* The bridges and what the filter read are as before.
Still ==
  /\ receives' = receives /\ sends' = sends /\ SendStateKept
  /\ recvBridge' = recvBridge /\ inbound' = inbound /\ Onward

LEMMA CoreQuiet ==
  ASSUME TypeOK, Core, Still, Pipe' = Pipe, loop' = loop \/
           \E t \in LoopTasks : loop' = Append(loop, t) /\ t.kind = "run" /\ t.message = 0,
         \A k \in 1..MaxSends : IsWritten(k)' <=> IsWritten(k),
         arrived' \in arrived..MaxMessages,
         Flowing' => (Flowing /\ arrived' = arrived) \/ arrived' = 0
  PROVE  Core'
<1>1. /\ loop \in Seq(LoopTasks) /\ arrived \in Nat /\ arrived <= arrived' /\ arrived' \in Nat
  <2>1. loop \in Seq(LoopTasks) /\ arrived \in 0..MaxMessages
    BY Lengths
  <2> QED
    BY <2>1, BoundsAssumption
<1>2. /\ Receiving /\ Sending /\ LoopInOrder /\ Results /\ HandedOn
      /\ Incoming(inbound, arrived)
  BY DEF Core
<1>3. /\ loop' \in Seq(LoopTasks)
      /\ LoopInOrder'
      /\ \A task \in LoopTasks : Dispatched(task)' =>
           Dispatched(task) \/ (task.kind = "run" /\ task.message = 0)
      /\ \A task \in LoopTasks : Dispatched(task) => Dispatched(task)'
  <2>1. CASE loop' = loop
    BY <1>1, <1>2, <2>1, LoopKept
  <2>2. ASSUME NEW t \in LoopTasks, loop' = Append(loop, t), t.kind = "run", t.message = 0
        PROVE  /\ loop' \in Seq(LoopTasks)
               /\ LoopInOrder'
               /\ \A task \in LoopTasks : Dispatched(task)' =>
                    Dispatched(task) \/ (task.kind = "run" /\ task.message = 0)
               /\ \A task \in LoopTasks : Dispatched(task) => Dispatched(task)'
    <3>1. /\ loop' \in Seq(LoopTasks)
          /\ \A task \in LoopTasks : Dispatched(task)' <=> Dispatched(task) \/ task = t
          /\ LoopInOrder /\ (\A task \in LoopTasks : Dispatched(task) => Follows(task, t))
               => LoopInOrder'
      BY <2>2, LoopAppended
    <3>2. \A task \in LoopTasks : Follows(task, t)
      BY <2>2 DEF Follows, After, ForReceive, ForSend
    <3> QED
      BY <1>2, <2>2, <3>1, <3>2
  <2> QED
    BY <2>1, <2>2
<1>4. /\ \A task \in LoopTasks : ForReceive(task) => (Dispatched(task)' <=> Dispatched(task))
      /\ \A task \in LoopTasks : ForSend(task) => (Dispatched(task)' <=> Dispatched(task))
      /\ \A task \in LoopTasks : task.message # 0 => (Dispatched(task)' <=> Dispatched(task))
  BY <1>3 DEF ForReceive, ForSend
<1>5. Receiving'
  BY <1>2, <1>4, ReceivingKept DEF Still
<1>6. Sending'
  <2>1. Increasing(Pipe)
    BY <1>2 DEF Sending
  <2>2. /\ \A e \in SendEvents : Queued(e)' <=> Queued(e)
        /\ Increasing(Pipe)'
    BY <2>1, PipeKept
  <2> QED
    BY <1>2, <1>4, <2>2, SendingKept DEF Still
<1>7. Results'
  <2>1. \A task \in LoopTasks : Dispatched(task)' => Dispatched(task) \/ MessageTask(task)'
    BY <1>3, MessageTaskOther
  <2> QED
    BY <1>2, <2>1, ResultsExtended DEF Still
<1>8. \A m \in 1..MaxMessages : Handed(m)' <=> Handed(m)
  BY <1>4, HandedKept DEF Still
<1>9. HandedOn'
  BY <1>1, <1>2, <1>8, HandedOnKept
<1>10. Incoming(inbound, arrived)'
  BY <1>2, <1>8, IncomingGrown DEF Still
<1> QED
  BY <1>3, <1>5, <1>6, <1>7, <1>9, <1>10 DEF Core

\* The filter handles the first event of the pipe: a task goes to the loop for
\* its future, if it has one.
LEMMA CoreAdvanced ==
  ASSUME TypeOK, Core, Still, arrived' = arrived, Pipe # <<>>, Pipe' = Tail(Pipe),
         NEW res \in {"sent", "refused"}, NEW e, e = Head(Pipe),
         loop' = IF e.n = 0 THEN loop ELSE Append(loop, Task(res, e.n, 0)),
         \A k \in 1..MaxSends : IsWritten(k)' <=> IsWritten(k) \/ (k = e.n /\ res = "sent"),
         Flowing' => Flowing \/ arrived = 0
  PROVE  Core'
<1>1. PICK r : r = Task(res, e.n, 0)
  OBVIOUS
<1>2. /\ loop \in Seq(LoopTasks) /\ arrived \in 0..MaxMessages /\ arrived \in Nat
  BY Lengths, BoundsAssumption
<1>3. /\ Receiving /\ Sending /\ LoopInOrder /\ Results /\ HandedOn
      /\ Incoming(inbound, arrived)
  BY DEF Core
<1>4. e \in SendEvents /\ Queued(e)
  BY PipeTaken
<1>5. /\ r \in LoopTasks /\ r.kind = res /\ r.n = e.n /\ r.message = 0
      /\ ForSend(r) /\ ~ForReceive(r)
  <2>1. e.n \in 0..MaxSends
    BY <1>4 DEF SendEvents
  <2>2. e.n \in 0..(MaxReceives + MaxSends) /\ 0 \in 0..MaxMessages
    BY <2>1, BoundsAssumption
  <2> QED
    BY <1>1, <2>2 DEF Task, LoopTasks, ForSend, ForReceive
<1>6. /\ loop' \in Seq(LoopTasks)
      /\ LoopInOrder'
      /\ \A task \in LoopTasks : Dispatched(task)' <=> Dispatched(task) \/ (e.n # 0 /\ task = r)
  <2>1. CASE e.n = 0
    <3>1. loop' = loop
      BY <2>1
    <3> QED
      BY <1>2, <1>3, <2>1, <3>1, LoopKept
  <2>2. CASE e.n # 0
    <3>1. loop' = Append(loop, r)
      BY <1>1, <2>2
    <3>2. /\ loop' \in Seq(LoopTasks)
          /\ \A task \in LoopTasks : Dispatched(task)' <=> Dispatched(task) \/ task = r
          /\ LoopInOrder /\ (\A task \in LoopTasks : Dispatched(task) => Follows(task, r))
               => LoopInOrder'
      BY <1>5, <3>1, LoopAppended
    <3>3. ASSUME NEW task \in LoopTasks, Dispatched(task) PROVE Follows(task, r)
      <4>1. ForSend(task) => task.n < e.n
        BY <1>3, <1>4, <2>2, <3>3 DEF Sending, SendTask
      <4>2. After(task.kind, task.message, r.kind, r.message)
        BY <1>5 DEF After
      <4> QED
        BY <1>5, <4>1, <4>2 DEF Follows
    <3> QED
      BY <1>3, <2>2, <3>2, <3>3
  <2> QED
    BY <2>1, <2>2
<1>7. /\ \A task \in LoopTasks : ForReceive(task) => (Dispatched(task)' <=> Dispatched(task))
      /\ \A task \in LoopTasks : task.message # 0 => (Dispatched(task)' <=> Dispatched(task))
  BY <1>5, <1>6
<1>8. Receiving'
  BY <1>3, <1>7, ReceivingKept DEF Still
<1>9. Sending'
  <2>1. \A task \in LoopTasks : ForSend(task) =>
          (Dispatched(task)' <=> Dispatched(task) \/ (e.n # 0 /\ task = r))
    BY <1>6
  <2>2. e.n # 0 => r \in LoopTasks /\ r.kind = res /\ r.n = e.n
    BY <1>5
  <2> QED
    BY <1>3, <2>1, <2>2, SendingAdvanced DEF Still
<1>10. Results'
  <2>1. MessageTask(r)'
    BY <1>5, MessageTaskOther
  <2>2. \A task \in LoopTasks : Dispatched(task)' => Dispatched(task) \/ MessageTask(task)'
    BY <1>6, <2>1
  <2> QED
    BY <1>3, <2>2, ResultsExtended DEF Still
<1>11. \A m \in 1..MaxMessages : Handed(m)' <=> Handed(m)
  BY <1>7, HandedKept DEF Still
<1>12. HandedOn'
  BY <1>2, <1>3, <1>11, HandedOnKept
<1>13. Incoming(inbound, arrived)'
  <2>1. /\ arrived' \in arrived..MaxMessages
        /\ Flowing' => (Flowing /\ arrived' = arrived) \/ arrived' = 0
    BY <1>2
  <2> QED
    BY <1>3, <1>11, <2>1, IncomingGrown DEF Still
<1> QED
  BY <1>6, <1>8, <1>9, <1>10, <1>12, <1>13 DEF Core

\* The application sends an event without a future,
LEMMA CoreSendEvent ==
  ASSUME TypeOK, Core, Still, batch = <<>>, batch' = <<>>, written' = written,
         arrived' = arrived, Flowing' => Flowing,
         NEW kind \in {"close", "exception", "abort"}, SendEvent(kind, 0)
  PROVE  Core'
<1>1. /\ sendBridge = [closed |-> sendBridge.closed, events |-> sendBridge.events]
      /\ arrived \in 0..MaxMessages /\ loop \in Seq(LoopTasks)
  BY Lengths
<1>2. arrived' \in arrived..MaxMessages /\ arrived \in Nat /\ arrived <= arrived' /\ arrived' \in Nat
  BY <1>1, BoundsAssumption
<1>3. \A k \in 1..MaxSends : IsWritten(k)' <=> IsWritten(k)
  BY DEF IsWritten
<1>4. loop' = loop
  BY DEF SendEvent
<1>5. CASE sendBridge.closed
  <2>1. Pipe' = Pipe
    BY <1>5 DEF SendEvent, Sent, Pipe
  <2> QED
    BY <1>2, <1>3, <1>4, <2>1, CoreQuiet
<1>6. CASE ~sendBridge.closed
  <2>1. PICK last : last = Frame(kind, 0)
    OBVIOUS
  <2>2. /\ last \in SendEvents /\ last.n = 0 /\ last.kind \notin {"accept", "message"}
    BY <2>1, BoundsAssumption DEF Frame, SendEvents
  <2>3. Pipe' = Append(Pipe, last)
    BY <1>1, <1>6, <2>1 DEF SendEvent, Sent, Pipe
  <2>4. /\ Receiving /\ Sending /\ LoopInOrder /\ Results /\ HandedOn
        /\ Incoming(inbound, arrived)
    BY DEF Core
  <2>5. \A task \in LoopTasks : Dispatched(task)' <=> Dispatched(task)
    BY <1>4, LoopKept
  <2>6. LoopInOrder'
    BY <1>4, <2>4, LoopKept
  <2>7. Receiving'
    BY <2>4, <2>5, ReceivingKept DEF Still
  <2>8. Sending'
    BY <1>4, <2>2, <2>3, <2>4, SendingEvent DEF Still
  <2>9. Results'
    BY <2>4, <2>5, ResultsExtended DEF Still
  <2>10. \A m \in 1..MaxMessages : Handed(m)' <=> Handed(m)
    BY <2>5, HandedKept DEF Still
  <2>11. HandedOn'
    BY <1>2, <2>4, <2>10, HandedOnKept
  <2>12. Incoming(inbound, arrived)'
    BY <1>2, <2>4, <2>10, IncomingGrown DEF Still
  <2> QED
    BY <1>1, <1>4, <2>6, <2>7, <2>8, <2>9, <2>11, <2>12 DEF Core
<1> QED
  BY <1>5, <1>6

\* and one with a future.
LEMMA CoreSendFuture ==
  ASSUME TypeOK, Core, SendsOne, receives' = receives, recvBridge' = recvBridge,
         inbound' = inbound, Onward, batch = <<>>, batch' = <<>>, written' = written,
         arrived' = arrived, Flowing' => Flowing,
         NEW kind, kind = IF sendState = "started" THEN "accept" ELSE "message",
         SendEvent(kind, Len(sends) + 1)
  PROVE  Core'
<1>1. /\ sendBridge = [closed |-> sendBridge.closed, events |-> sendBridge.events]
      /\ arrived \in 0..MaxMessages /\ loop \in Seq(LoopTasks)
      /\ sendBridge.closed => sendBridge.events = <<>>
      /\ Len(sends) \in Nat
  BY Lengths
<1>2. arrived' \in arrived..MaxMessages /\ arrived \in Nat /\ arrived <= arrived' /\ arrived' \in Nat
  BY <1>1, BoundsAssumption
<1>3. /\ Receiving /\ Sending /\ LoopInOrder /\ Results /\ HandedOn
      /\ Incoming(inbound, arrived)
  BY DEF Core
<1>4. PICK r : r = Task("refused", Len(sends) + 1, 0)
  OBVIOUS
<1>5. r.kind = "refused" /\ r.message = 0 /\ ~ForReceive(r)
  BY <1>4 DEF Task, ForReceive
<1>6. /\ loop' \in Seq(LoopTasks) /\ Sending' /\ LoopInOrder'
      /\ \A task \in LoopTasks : Dispatched(task)' <=>
           Dispatched(task) \/ (sendBridge.closed /\ task = r)
  <2>1. CASE sendBridge.closed
    <3>1. loop' = Append(loop, r)
      BY <1>1, <1>4, <2>1 DEF SendEvent
    <3>2. Pipe = <<>> /\ Pipe' = <<>>
      BY <1>1, <2>1 DEF SendEvent, Sent, Pipe
    <3>3. /\ Sending' /\ r \in LoopTasks /\ LoopInOrder'
      BY <1>3, <1>4, <3>1, <3>2, SendingRefused
    <3>4. /\ loop' \in Seq(LoopTasks)
          /\ \A task \in LoopTasks : Dispatched(task)' <=> Dispatched(task) \/ task = r
      BY <3>1, <3>3, LoopAppended
    <3> QED
      BY <2>1, <3>3, <3>4
  <2>2. CASE ~sendBridge.closed
    <3>1. PICK last : last = Frame(kind, Len(sends) + 1)
      OBVIOUS
    <3>2. /\ last \in SendEvents /\ last.n = Len(sends) + 1 /\ last.kind = kind
      <4>1. Len(sends) + 1 \in 0..MaxSends
        BY <1>1, BoundsAssumption DEF SendsOne
      <4> QED
        BY <3>1, <4>1 DEF Frame, SendEvents
    <3>3. Pipe' = Append(Pipe, last)
      BY <1>1, <2>2, <3>1 DEF SendEvent, Sent, Pipe
    <3>4. loop' = loop
      BY <2>2 DEF SendEvent
    <3>5. Sending'
      BY <1>3, <3>2, <3>3, <3>4, SendingFuture
    <3> QED
      BY <1>1, <1>3, <2>2, <3>4, <3>5, LoopKept
  <2> QED
    BY <2>1, <2>2
<1>7. /\ \A task \in LoopTasks : ForReceive(task) => (Dispatched(task)' <=> Dispatched(task))
      /\ \A task \in LoopTasks : task.message # 0 => (Dispatched(task)' <=> Dispatched(task))
  BY <1>5, <1>6
<1>8. Receiving'
  BY <1>3, <1>7, ReceivingKept
<1>9. Results'
  <2>1. MessageTask(r)'
    BY <1>5, MessageTaskOther
  <2> QED
    BY <1>3, <1>6, <2>1, ResultsExtended
<1>10. \A m \in 1..MaxMessages : Handed(m)' <=> Handed(m)
  BY <1>7, HandedKept
<1>11. HandedOn'
  BY <1>2, <1>3, <1>10, HandedOnKept
<1>12. Incoming(inbound, arrived)'
  BY <1>2, <1>3, <1>10, IncomingGrown
<1> QED
  BY <1>6, <1>8, <1>9, <1>11, <1>12 DEF Core

\* It calls receive,
LEMMA CoreReceive ==
  ASSUME TypeOK, Core, Receive, batch = <<>>
  PROVE  Core'
<1>1. /\ arrived \in 0..MaxMessages /\ arrived \in Nat /\ loop \in Seq(LoopTasks)
      /\ Len(receives) \in Nat /\ Len(recvBridge.events) \in Nat
  BY Lengths, BoundsAssumption
<1>2. /\ Receiving /\ Sending /\ LoopInOrder /\ Results /\ HandedOn
      /\ Incoming(inbound, arrived)
  BY DEF Core
<1>3. /\ sendState' = sendState /\ sends' = sends /\ sendBridge' = sendBridge
      /\ state' = state /\ batch' = batch /\ connection' = connection
      /\ closeFrame' = closeFrame /\ inbound' = inbound /\ arrived' = arrived
      /\ written' = written
  BY DEF Receive, filterVars, clientVars
<1>4. PICK r : r = Task("disconnect", Len(receives) + 1, 0)
  OBVIOUS
<1>5. r.kind = "disconnect" /\ r.message = 0 /\ r.n = Len(receives) + 1 /\ ~ForSend(r)
  BY <1>4 DEF Task, ForSend
<1>6. /\ loop' \in Seq(LoopTasks) /\ LoopInOrder'
      /\ \A task \in LoopTasks : Dispatched(task)' <=>
           Dispatched(task) \/ (recvBridge.closed /\ task = r)
  <2>1. CASE ~recvBridge.closed
    <3>1. loop' = loop
      BY <2>1, ReceiveFacts
    <3> QED
      BY <1>1, <1>2, <2>1, <3>1, LoopKept
  <2>2. CASE recvBridge.closed
    <3>1. loop' = Append(loop, r) /\ r \in LoopTasks
      BY <1>4, <2>2, ReceiveFacts
    <3>2. /\ loop' \in Seq(LoopTasks)
          /\ \A task \in LoopTasks : Dispatched(task)' <=> Dispatched(task) \/ task = r
          /\ LoopInOrder /\ (\A task \in LoopTasks : Dispatched(task) => Follows(task, r))
               => LoopInOrder'
      BY <3>1, LoopAppended
    <3>3. ASSUME NEW task \in LoopTasks, Dispatched(task) PROVE Follows(task, r)
      <4>1. ForReceive(task) => task.n \in 1..Told
        BY <1>2, <3>3 DEF Receiving, ReceiveTask
      <4>2. ForReceive(task) => task.n < Len(receives) + 1
        BY <1>1, <4>1 DEF Told
      <4>3. After(task.kind, task.message, r.kind, r.message)
        BY <1>5 DEF After
      <4> QED
        BY <1>5, <4>2, <4>3 DEF Follows
    <3> QED
      BY <1>2, <2>2, <3>2, <3>3
  <2> QED
    BY <2>1, <2>2
<1>7. Receiving'
  BY <1>2, ReceivingReceive
<1>8. Sending'
  <2>1. Pipe' = Pipe /\ Increasing(Pipe) /\ SendStateKept
    BY <1>2, <1>3 DEF Pipe, Sending, SendStateKept
  <2>2. /\ \A e \in SendEvents : Queued(e)' <=> Queued(e)
        /\ Increasing(Pipe)'
    BY <2>1, PipeKept
  <2>3. \A k : IsWritten(k)' <=> IsWritten(k)
    BY <1>3 DEF IsWritten
  <2>4. \A task \in LoopTasks : ForSend(task) => (Dispatched(task)' <=> Dispatched(task))
    BY <1>5, <1>6
  <2> QED
    BY <1>2, <1>3, <2>1, <2>2, <2>3, <2>4, SendingKept
<1>9. Results' /\ \A m \in 1..MaxMessages : Handed(m)' <=> Handed(m)
  BY <1>2, ResultsReceive
<1>10. HandedOn'
  BY <1>1, <1>2, <1>3, <1>9, HandedOnKept
<1>11. Incoming(inbound, arrived)'
  <2>1. arrived' \in arrived..MaxMessages /\ (Flowing' => Flowing)
    BY <1>1, <1>3 DEF Flowing
  <2> QED
    BY <1>2, <1>3, <1>9, <2>1, IncomingGrown
<1> QED
  BY <1>6, <1>7, <1>8, <1>9, <1>10, <1>11 DEF Core

\* and cancels what it waits for.
LEMMA CoreCancel ==
  ASSUME TypeOK, Core, NEW k, CancelReceive(k)
  PROVE  Core'
<1>1. /\ arrived \in 0..MaxMessages /\ arrived \in Nat /\ loop \in Seq(LoopTasks)
  BY Lengths, BoundsAssumption
<1>2. /\ Receiving /\ Sending /\ LoopInOrder /\ Results /\ HandedOn
      /\ Incoming(inbound, arrived)
  BY DEF Core
<1>3. /\ sendState' = sendState /\ sends' = sends /\ sendBridge' = sendBridge
      /\ state' = state /\ batch' = batch /\ connection' = connection
      /\ closeFrame' = closeFrame /\ inbound' = inbound /\ arrived' = arrived
      /\ written' = written /\ loop' = loop
  BY DEF CancelReceive, bridgeVars, filterVars, clientVars
<1>4. \A task \in LoopTasks : Dispatched(task)' <=> Dispatched(task)
  BY <1>3, LoopKept
<1>5. LoopInOrder'
  BY <1>2, <1>3, LoopKept
<1>6. Receiving'
  BY <1>2, ReceivingCancel
<1>7. Sending'
  <2>1. Pipe' = Pipe /\ Increasing(Pipe) /\ SendStateKept
    BY <1>2, <1>3 DEF Pipe, Sending, SendStateKept
  <2>2. /\ \A e \in SendEvents : Queued(e)' <=> Queued(e)
        /\ Increasing(Pipe)'
    BY <2>1, PipeKept
  <2>3. \A j : IsWritten(j)' <=> IsWritten(j)
    BY <1>3 DEF IsWritten
  <2> QED
    BY <1>2, <1>3, <1>4, <2>1, <2>2, <2>3, SendingKept
<1>8. Results' /\ \A m \in 1..MaxMessages : Handed(m)' <=> Handed(m)
  BY <1>2, ResultsCancel
<1>9. HandedOn'
  BY <1>1, <1>2, <1>3, <1>8, HandedOnKept
<1>10. Incoming(inbound, arrived)'
  <2>1. arrived' \in arrived..MaxMessages /\ (Flowing' => Flowing)
    BY <1>1, <1>3 DEF Flowing
  <2> QED
    BY <1>2, <1>3, <1>8, <2>1, IncomingGrown
<1> QED
  BY <1>1, <1>3, <1>5, <1>6, <1>7, <1>8, <1>9, <1>10 DEF Core

\* The loop runs a task.
LEMMA CoreRunTask ==
  ASSUME TypeOK, Core, RunTask, batch = <<>>
  PROVE  /\ Core'
         /\ \/ app' = "running" /\ receives' = receives /\ sends' = sends
            \/ /\ app' = app /\ sends' = sends
               /\ receives' \in Seq(Receives) /\ Len(receives') = Len(receives)
            \/ /\ app' = app /\ receives' = receives
               /\ sends' \in Seq({"pending", "sent", "refused"}) /\ Len(sends') = Len(sends)
<1>1. /\ arrived \in 0..MaxMessages /\ arrived \in Nat /\ loop \in Seq(LoopTasks)
  BY Lengths, BoundsAssumption
<1>2. /\ Receiving /\ Sending /\ LoopInOrder /\ Results /\ HandedOn
      /\ Incoming(inbound, arrived)
  BY DEF Core
<1>3. /\ sendState' = sendState /\ sendBridge' = sendBridge /\ recvBridge' = recvBridge
      /\ state' = state /\ batch' = batch /\ connection' = connection
      /\ closeFrame' = closeFrame /\ inbound' = inbound /\ arrived' = arrived
      /\ written' = written /\ loop # <<>> /\ loop' = Tail(loop)
  BY DEF RunTask, bridgeVars, filterVars, clientVars
<1>4. PICK t : t = Head(loop)
  OBVIOUS
<1>5. /\ loop' \in Seq(LoopTasks) /\ t \in LoopTasks /\ Dispatched(t)
      /\ \A task \in LoopTasks : Dispatched(task) <=> Dispatched(task)' \/ task = t
      /\ LoopInOrder'
  BY <1>2, <1>3, <1>4, LoopTaken
<1>6. /\ Pipe' = Pipe /\ Increasing(Pipe) /\ SendStateKept /\ Onward
      /\ arrived' \in arrived..MaxMessages /\ (Flowing' => Flowing)
  BY <1>1, <1>2, <1>3 DEF Pipe, Sending, SendStateKept, Flowing, Onward, Early
<1>7. /\ \A e \in SendEvents : Queued(e)' <=> Queued(e)
      /\ Increasing(Pipe)'
  BY <1>6, PipeKept
<1>8. \A k : IsWritten(k)' <=> IsWritten(k)
  BY <1>3 DEF IsWritten
<1>9. CASE t.kind = "run"
  <2>1. app' = "running" /\ receives' = receives /\ sends' = sends
    BY <1>4, <1>9 DEF RunTask, RunApp
  <2>2. t.message = 0 /\ ~ForReceive(t) /\ ~ForSend(t)
    BY <1>2, <1>5, <1>9 DEF Results, MessageTask, ForReceive, ForSend
  <2>3. /\ \A task \in LoopTasks : ForReceive(task) => (Dispatched(task)' <=> Dispatched(task))
        /\ \A task \in LoopTasks : ForSend(task) => (Dispatched(task)' <=> Dispatched(task))
        /\ \A task \in LoopTasks : task.message # 0 => (Dispatched(task)' <=> Dispatched(task))
    BY <1>5, <2>2
  <2>4. Receiving'
    BY <1>2, <1>3, <2>1, <2>3, ReceivingKept
  <2>5. Sending'
    BY <1>2, <1>6, <1>7, <1>8, <2>1, <2>3, SendingKept
  <2>6. Results'
    BY <1>2, <1>5, <1>6, <2>1, ResultsExtended
  <2>7. \A m \in 1..MaxMessages : Handed(m)' <=> Handed(m)
    BY <2>1, <2>3, HandedKept
  <2>8. HandedOn'
    BY <1>1, <1>2, <1>3, <2>7, HandedOnKept
  <2>9. Incoming(inbound, arrived)'
    BY <1>2, <1>3, <1>6, <2>7, IncomingGrown
  <2> QED
    BY <1>5, <2>1, <2>4, <2>5, <2>6, <2>8, <2>9 DEF Core
<1>10. CASE ForReceive(t)
  <2>1. /\ app' = app /\ sends' = sends
        /\ receives' \in Seq(Receives) /\ Len(receives') = Len(receives)
    BY <1>2, <1>4, <1>10, CompleteFacts
  <2>2. Receiving'
    BY <1>2, <1>4, <1>10, ReceivingComplete
  <2>3. Results' /\ \A m \in 1..MaxMessages : Handed(m)' <=> Handed(m)
    BY <1>2, <1>4, <1>10, ResultsComplete
  <2>4. \A task \in LoopTasks : ForSend(task) => (Dispatched(task)' <=> Dispatched(task))
    BY <1>5, <1>10 DEF ForReceive, ForSend
  <2>5. Sending'
    BY <1>2, <1>6, <1>7, <1>8, <2>1, <2>4, SendingKept
  <2>6. HandedOn'
    BY <1>1, <1>2, <1>3, <2>3, HandedOnKept
  <2>7. Incoming(inbound, arrived)'
    BY <1>2, <1>3, <1>6, <2>3, IncomingGrown
  <2> QED
    BY <1>5, <2>1, <2>2, <2>3, <2>5, <2>6, <2>7 DEF Core
<1>11. CASE ForSend(t)
  <2>1. /\ app' = app /\ receives' = receives
        /\ sends' \in Seq({"pending", "sent", "refused"}) /\ Len(sends') = Len(sends)
    BY <1>2, <1>4, <1>11, CompleteSendFacts
  <2>2. Sending'
    BY <1>2, <1>4, <1>11, SendingComplete
  <2>3. t.message = 0 /\ ~ForReceive(t)
    BY <1>2, <1>5, <1>11 DEF Results, MessageTask, ForSend, ForReceive
  <2>4. /\ \A task \in LoopTasks : ForReceive(task) => (Dispatched(task)' <=> Dispatched(task))
        /\ \A task \in LoopTasks : task.message # 0 => (Dispatched(task)' <=> Dispatched(task))
    BY <1>5, <2>3
  <2>5. Receiving'
    BY <1>2, <1>3, <2>1, <2>4, ReceivingKept
  <2>6. Results'
    BY <1>2, <1>5, <1>6, <2>1, ResultsExtended
  <2>7. \A m \in 1..MaxMessages : Handed(m)' <=> Handed(m)
    BY <2>1, <2>4, HandedKept
  <2>8. HandedOn'
    BY <1>1, <1>2, <1>3, <2>7, HandedOnKept
  <2>9. Incoming(inbound, arrived)'
    BY <1>2, <1>3, <1>6, <2>7, IncomingGrown
  <2> QED
    BY <1>5, <2>1, <2>2, <2>5, <2>6, <2>8, <2>9 DEF Core
<1>12. t.kind \in {"run", "connect", "message", "disconnect", "sent", "refused"}
  BY <1>5 DEF LoopTasks
<1> QED
  BY <1>9, <1>10, <1>11, <1>12 DEF ForReceive, ForSend

\* A receive of the handshake is given its connect event.
Connects ==
  /\ state = "handshake" /\ ~recvBridge.closed /\ recvBridge.events # <<>>
  /\ recvBridge' = [recvBridge EXCEPT !.events = Tail(@)]
  /\ loop' = Append(loop, Task("connect", Head(recvBridge.events), 0))

LEMMA CoreConnect ==
  ASSUME TypeOK, Core, Connects, receives' = receives, sends' = sends, sendState' = sendState,
         sendBridge' = sendBridge, batch' = batch, state' = state, written' = written,
         inbound' = inbound, arrived' = arrived
  PROVE  Core' /\ recvBridge'.closed = FALSE /\ recvBridge'.events = Tail(recvBridge.events)
<1>1. /\ arrived \in 0..MaxMessages /\ arrived \in Nat /\ loop \in Seq(LoopTasks)
      /\ recvBridge.events \in Seq(1..MaxReceives) /\ Len(receives) \in Nat
      /\ recvBridge = [closed |-> recvBridge.closed, events |-> recvBridge.events]
  BY Lengths, BoundsAssumption
<1>2. /\ Receiving /\ Sending /\ LoopInOrder /\ Results /\ HandedOn
      /\ Incoming(inbound, arrived)
  BY DEF Core
<1>3. recvBridge'.closed = FALSE /\ recvBridge'.events = Tail(recvBridge.events)
  BY <1>1 DEF Connects
<1>4. /\ recvBridge'.events \in Seq(1..MaxReceives)
      /\ Len(recvBridge'.events) = Len(recvBridge.events) - 1
      /\ DOMAIN recvBridge'.events = 1..(Len(recvBridge.events) - 1)
      /\ \A i \in 1..(Len(recvBridge.events) - 1) :
           recvBridge'.events[i] = recvBridge.events[i + 1]
      /\ Head(recvBridge.events) = recvBridge.events[1]
      /\ Head(recvBridge.events) \in 1..MaxReceives
      /\ Len(recvBridge.events) \in Nat \ {0}
      /\ DOMAIN recvBridge.events = 1..Len(recvBridge.events)
  BY <1>1, <1>3, TailFacts DEF Connects
<1>5. Told \in Nat /\ Head(recvBridge.events) = Told + 1
  BY <1>1, <1>2, <1>4 DEF Receiving, Told
<1>6. PICK r : r = Task("connect", Told + 1, 0)
  OBVIOUS
<1>7. /\ r \in LoopTasks /\ r.kind = "connect" /\ r.n = Told + 1 /\ r.message = 0
      /\ ForReceive(r) /\ ~ForSend(r)
  <2>1. Told + 1 \in 0..(MaxReceives + MaxSends) /\ 0 \in 0..MaxMessages
    BY <1>4, <1>5, BoundsAssumption
  <2> QED
    BY <1>6, <2>1 DEF Task, LoopTasks, ForReceive, ForSend
<1>8. loop' = Append(loop, r)
  BY <1>5, <1>6 DEF Connects
<1>9. /\ \A k \in DOMAIN receives : receives[k].is \notin {"message", "disconnect"}
      /\ \A task \in LoopTasks : Dispatched(task) => task.kind \notin {"message", "disconnect"}
  BY <1>2 DEF Results, MessageTask, Early, Connects
<1>10. /\ loop' \in Seq(LoopTasks)
       /\ \A task \in LoopTasks : Dispatched(task)' <=> Dispatched(task) \/ task = r
       /\ LoopInOrder'
  <2>1. /\ loop' \in Seq(LoopTasks)
        /\ \A task \in LoopTasks : Dispatched(task)' <=> Dispatched(task) \/ task = r
        /\ LoopInOrder /\ (\A task \in LoopTasks : Dispatched(task) => Follows(task, r))
             => LoopInOrder'
    BY <1>7, <1>8, LoopAppended
  <2>2. ASSUME NEW task \in LoopTasks, Dispatched(task) PROVE Follows(task, r)
    <3>1. ForReceive(task) => task.n \in 1..Told
      BY <1>2, <2>2 DEF Receiving, ReceiveTask
    <3>2. ForReceive(task) => task.n < r.n
      BY <1>5, <1>7, <3>1
    <3>3. After(task.kind, task.message, r.kind, r.message)
      BY <1>7, <1>9, <2>2 DEF After
    <3> QED
      BY <1>7, <3>2, <3>3 DEF Follows
  <2> QED
    BY <1>2, <2>1, <2>2
<1>11. Receiving'
  <2>1. PICK n : n = 1
    OBVIOUS
  <2>2. /\ n \in 0..Len(recvBridge.events)
        /\ Len(recvBridge'.events) = Len(recvBridge.events) - n
        /\ DOMAIN recvBridge'.events = 1..(Len(recvBridge.events) - n)
        /\ \A i \in 1..(Len(recvBridge.events) - n) :
             recvBridge'.events[i] = recvBridge.events[n + i]
    <3>1. \A i \in 1..(Len(recvBridge.events) - 1) : i + 1 = 1 + i
      BY <1>4
    <3> QED
      BY <1>4, <2>1, <3>1
  <2>3. \A k \in (Told + 1)..(Told + n) : k = Told + 1
    BY <1>5, <2>1
  <2>4. Told + 1 \in (Told + 1)..(Told + n)
    BY <1>5, <2>1
  <2>5. \A task \in LoopTasks : ForReceive(task) =>
          /\ Dispatched(task) => Dispatched(task)'
          /\ Dispatched(task)' => Dispatched(task) \/ task.n \in (Told + 1)..(Told + n)
    BY <1>7, <1>10, <2>4
  <2>6. \A k \in (Told + 1)..(Told + n) :
          \E task \in LoopTasks : Dispatched(task)' /\ ForReceive(task) /\ task.n = k
    BY <1>7, <1>10, <2>3
  <2> QED
    BY <1>2, <2>2, <2>5, <2>6, ReceivingMoved
<1>12. Sending'
  <2>1. Pipe' = Pipe /\ Increasing(Pipe) /\ SendStateKept
    BY <1>2 DEF Pipe, Sending, SendStateKept
  <2>2. /\ \A e \in SendEvents : Queued(e)' <=> Queued(e)
        /\ Increasing(Pipe)'
    BY <2>1, PipeKept
  <2>3. \A j : IsWritten(j)' <=> IsWritten(j)
    BY DEF IsWritten
  <2>4. \A task \in LoopTasks : ForSend(task) => (Dispatched(task)' <=> Dispatched(task))
    BY <1>7, <1>10
  <2> QED
    BY <1>2, <2>1, <2>2, <2>3, <2>4, SendingKept
<1>13. Results'
  <2>1. MessageTask(r)'
    <3>1. \A k \in DOMAIN receives :
            After(receives[k].is, receives[k].message, r.kind, r.message)
      BY <1>7, <1>9 DEF After
    <3> QED
      BY <1>7, <3>1 DEF MessageTask, After
  <2>2. Onward
    BY <1>3 DEF Onward, Connects, Early
  <2> QED
    BY <1>2, <1>10, <2>1, <2>2, ResultsExtended
<1>14. \A m \in 1..MaxMessages : Handed(m)' <=> Handed(m)
  <2>1. \A task \in LoopTasks : task.message # 0 => (Dispatched(task)' <=> Dispatched(task))
    BY <1>7, <1>10
  <2> QED
    BY <2>1, HandedKept
<1>15. HandedOn'
  BY <1>1, <1>2, <1>14, HandedOnKept
<1>16. Incoming(inbound, arrived)'
  <2>1. arrived' \in arrived..MaxMessages /\ ~Flowing'
    BY <1>1 DEF Flowing, Connects
  <2> QED
    BY <1>2, <1>14, <2>1, IncomingGrown
<1> QED
  BY <1>3, <1>10, <1>11, <1>12, <1>13, <1>15, <1>16 DEF Core

\* The bridges close with the connection.
LEMMA CoreDestroy ==
  ASSUME TypeOK, Core, OnDestroy
  PROVE  Core' /\ recvBridge' = ClosedBridge /\ sendBridge' = ClosedBridge
<1>1. /\ batch = <<>> /\ batch' = <<>> /\ receives' = receives /\ sends' = sends
      /\ sendState' = sendState /\ written' = written /\ arrived' = arrived
      /\ state' = "destroyed" /\ inbound' = <<>>
      /\ CloseBridges(<<>>, recvBridge.events)
  BY DEF OnDestroy, appVars
<1>2. /\ Receiving /\ Sending /\ LoopInOrder /\ Results /\ HandedOn
      /\ Incoming(inbound, arrived)
  BY DEF Core
<1>3. SendStateKept /\ ~Early'
  BY <1>1 DEF SendStateKept, Early
<1>4. /\ loop' \in Seq(LoopTasks)
      /\ recvBridge' = ClosedBridge /\ sendBridge' = ClosedBridge
      /\ Receiving' /\ Sending' /\ Results' /\ LoopInOrder'
      /\ \A m \in 1..MaxMessages : Handed(m)' <=> Handed(m)
  BY <1>1, <1>2, <1>3, CloseAllKeeps
<1>5. HandedOn'
  <2>1. arrived \in Nat
    BY Lengths, BoundsAssumption
  <2> QED
    BY <1>1, <1>2, <1>4, <2>1, HandedOnKept
<1>6. Incoming(inbound, arrived)'
  BY <1>1, IncomingEmptied
<1> QED
  BY <1>4, <1>5, <1>6 DEF Core

-----------------------------------------------------------------------------
(* The rest: what the two sides have to do with each other.                *)

LEMMA CommitsAppended ==
  ASSUME TypeOK, NEW c \in {"request", "response"}, commits' = Append(commits, c)
  PROVE  /\ commits' \in Seq({"request", "response"}) /\ commits' # <<>>
         /\ \A kind : Count(kind)' = Count(kind) + IF c = kind THEN 1 ELSE 0
         /\ c \in Range(commits')
         /\ \A kind \in Range(commits) : kind \in Range(commits')
<1>1. commits \in Seq({"request", "response"})
  BY Lengths
<1>2. /\ commits' \in Seq({"request", "response"})
      /\ DOMAIN commits' = 1..(Len(commits) + 1)
      /\ \A k \in 1..Len(commits) : commits'[k] = commits[k]
      /\ commits'[Len(commits) + 1] = c
      /\ Len(commits) \in Nat /\ DOMAIN commits = 1..Len(commits)
  BY <1>1, AppendFacts
<1>3. commits' # <<>>
  BY <1>2
<1>4. \A kind : Count(kind)' = Count(kind) + IF c = kind THEN 1 ELSE 0
  <2>1. \A kind : Cardinality(Occurrences(Append(commits, c), kind)) =
                    Cardinality(Occurrences(commits, kind)) + IF c = kind THEN 1 ELSE 0
    BY <1>1, CountAppend
  <2>2. \A kind : /\ Count(kind) = Cardinality(Occurrences(commits, kind))
                  /\ Count(kind)' = Cardinality(Occurrences(commits', kind))
    BY DEF Count, Occurrences
  <2> QED
    BY <2>1, <2>2
<1>5. c \in Range(commits') /\ \A kind \in Range(commits) : kind \in Range(commits')
  <2>1. Len(commits) + 1 \in DOMAIN commits' /\ \A k \in DOMAIN commits : k \in DOMAIN commits'
    BY <1>2
  <2> QED
    BY <1>2, <2>1 DEF Range
<1> QED
  BY <1>2, <1>3, <1>4, <1>5

LEMMA CommitsTaken ==
  ASSUME TypeOK, commits # <<>>, commits' = Tail(commits)
  PROVE  /\ commits' \in Seq({"request", "response"})
         /\ \A kind : Count(kind) = Count(kind)' + IF Head(commits) = kind THEN 1 ELSE 0
         /\ \A kind : Count(kind) \in Nat /\ Count(kind)' \in Nat
         /\ \A kind \in Range(commits) : kind # Head(commits) => kind \in Range(commits')
         /\ Head(commits) \in {"request", "response"}
<1>1. commits \in Seq({"request", "response"})
  BY Lengths
<1>2. /\ commits' \in Seq({"request", "response"})
      /\ DOMAIN commits' = 1..(Len(commits) - 1)
      /\ \A k \in 1..(Len(commits) - 1) : commits'[k] = commits[k + 1]
      /\ Head(commits) = commits[1]
      /\ Head(commits) \in {"request", "response"}
      /\ Len(commits) \in Nat \ {0} /\ DOMAIN commits = 1..Len(commits)
  BY <1>1, TailFacts
<1>3. \A kind : /\ Count(kind) = Cardinality(Occurrences(commits, kind))
                /\ Count(kind)' = Cardinality(Occurrences(commits', kind))
  BY DEF Count, Occurrences
<1>4. \A kind : Count(kind) = Count(kind)' + IF Head(commits) = kind THEN 1 ELSE 0
  BY <1>1, <1>3, CountTail
<1>5. \A kind : Count(kind) \in Nat /\ Count(kind)' \in Nat
  BY <1>1, <1>2, <1>3, OccurrencesFinite
<1>6. ASSUME NEW k \in DOMAIN commits, commits[k] # Head(commits)
      PROVE  commits[k] \in Range(commits')
  <2>1. k - 1 \in DOMAIN commits' /\ commits'[k - 1] = commits[k]
    BY <1>2, <1>6
  <2> QED
    BY <2>1 DEF Range
<1> QED
  BY <1>2, <1>4, <1>5, <1>6 DEF Range

LEMMA CommitsKept ==
  ASSUME commits' = commits
  PROVE  \A kind : Count(kind)' = Count(kind)
  BY DEF Count

Shell ==
  /\ TypeOK /\ Stages /\ Handshake /\ Closing /\ OnWire /\ NobodyWaitsInVain

\* The first to be put on the other bridge changes nothing here.
LEMMA ShellReceive ==
  ASSUME Shell, Core, Receive, batch = <<>>, loop' \in Seq(LoopTasks)
  PROVE  Shell'
<1>1. TypeOK /\ Stages /\ Handshake /\ Closing /\ OnWire /\ NobodyWaitsInVain
  BY DEF Shell
<1>2. /\ app # "none" /\ Len(receives) + 1 \in 1..MaxReceives
      /\ receives' \in Seq(Receives) /\ Len(receives') = Len(receives) + 1
      /\ ~recvBridge.closed =>
           /\ recvBridge' = [recvBridge EXCEPT !.events = Append(@, Len(receives) + 1)]
           /\ commits' = Append(commits, "request") /\ loop' = loop
      /\ recvBridge.closed => recvBridge' = recvBridge /\ commits' = commits
  BY <1>1, ReceiveFacts
<1>3. /\ UNCHANGED <<app, sendState, sends, sendBridge, filterVars, connection, clientVars,
                     written, raises>>
  BY DEF Receive
<1>4. /\ recvBridge = [closed |-> recvBridge.closed, events |-> recvBridge.events]
      /\ recvBridge.closed \in BOOLEAN /\ recvBridge.events \in Seq(1..MaxReceives)
      /\ Len(receives) \in Nat
      /\ recvBridge.closed => recvBridge.events = <<>>
  BY <1>1, Lengths
<1>5. CASE recvBridge.closed
  <2>1. TypeOK'
    BY <1>1, <1>2, <1>3, <1>5 DEF TypeOK, filterVars, clientVars
  <2>2. ~Early
    BY <1>1, <1>5 DEF Stages, Early
  <2>3. Stages' /\ Handshake' /\ Closing' /\ OnWire' /\ NobodyWaitsInVain'
    BY <1>1, <1>2, <1>3, <1>4, <1>5, <2>2
      DEF Stages, Handshake, Closing, OnWire, NobodyWaitsInVain, Early, filterVars, clientVars
  <2> QED
    BY <2>1, <2>3 DEF Shell
<1>6. CASE ~recvBridge.closed
  <2>1. /\ recvBridge'.closed = FALSE
        /\ recvBridge'.events = Append(recvBridge.events, Len(receives) + 1)
        /\ recvBridge' = [closed |-> recvBridge'.closed, events |-> recvBridge'.events]
    BY <1>2, <1>4, <1>6
  <2>2. /\ recvBridge'.events \in Seq(1..MaxReceives)
        /\ Len(recvBridge'.events) = Len(recvBridge.events) + 1
    BY <1>2, <1>4, <2>1, AppendFacts
  <2>3. /\ commits' \in Seq({"request", "response"}) /\ commits' # <<>>
        /\ \A kind : Count(kind)' = Count(kind) + IF "request" = kind THEN 1 ELSE 0
        /\ "request" \in Range(commits')
        /\ \A kind \in Range(commits) : kind \in Range(commits')
    BY <1>1, <1>2, <1>6, CommitsAppended
  <2>4. recvBridge' \in Bridges(1..MaxReceives)
    BY <2>1, <2>2 DEF Bridges
  <2>5. TypeOK'
    BY <1>1, <1>2, <1>3, <2>3, <2>4 DEF TypeOK, filterVars, clientVars
  <2>6. Stages'
    <3>1. state \in {"handshake", "accepted", "done"}
      <4>1. state \in {"start", "handshake", "accepted", "done", "notWebSocket", "destroyed"}
        BY <1>1 DEF TypeOK
      <4> QED
        BY <1>1, <1>2, <1>6, <4>1 DEF Stages
    <3>2. state' = state /\ closeFrame' = closeFrame /\ level' = level /\ batch' = batch
      BY <1>3 DEF filterVars
    <3>3. inbound' = inbound /\ clientEnded' = clientEnded
      BY <1>3 DEF clientVars
    <3> QED
      BY <1>1, <1>2, <1>3, <1>6, <2>1, <3>1, <3>2, <3>3 DEF Stages
  <2>7. Handshake'
    <3>1. Count("request")' = Count("request") + 1 /\ Count("response")' = Count("response") + 0
      <4>1. "request" # "response"
        OBVIOUS
      <4>2. Count("request")' = Count("request") + IF "request" = "request" THEN 1 ELSE 0
        BY <2>3
      <4>3. Count("response")' = Count("response") + IF "request" = "response" THEN 1 ELSE 0
        BY <2>3
      <4> QED
        BY <4>1, <4>2, <4>3
    <3>2. Early' => Early
      BY <1>3 DEF Early, filterVars
    <3>3. \A e : Queued(e)' <=> Queued(e)
      BY <1>3 DEF Queued, Pipe, filterVars
    <3> QED
      BY <1>1, <1>3, <2>2, <3>1, <3>2, <3>3 DEF Handshake, filterVars, clientVars
  <2>8. Closing' /\ OnWire'
    BY <1>1, <1>3 DEF Closing, OnWire, filterVars
  <2>9. NobodyWaitsInVain'
    BY <1>1, <1>3, <2>3 DEF NobodyWaitsInVain, filterVars
  <2> QED
    BY <2>5, <2>6, <2>7, <2>8, <2>9 DEF Shell
<1> QED
  BY <1>4, <1>5, <1>6

LEMMA ShellCancel ==
  ASSUME Shell, Core, NEW k, CancelReceive(k)
  PROVE  Shell'
<1>1. TypeOK /\ Stages /\ Handshake /\ Closing /\ OnWire /\ NobodyWaitsInVain
  BY DEF Shell
<1>2. receives' \in Seq(Receives) /\ Len(receives') = Len(receives)
  BY <1>1, CancelFacts
<1>3. UNCHANGED <<app, sendState, sends, bridgeVars, commits, loop, filterVars, connection,
                  clientVars, written, raises>>
  BY DEF CancelReceive
<1>4. TypeOK'
  BY <1>1, <1>2, <1>3 DEF TypeOK, bridgeVars, filterVars, clientVars
<1>5. Stages' /\ Closing' /\ OnWire' /\ NobodyWaitsInVain'
  BY <1>1, <1>3 DEF Stages, Closing, OnWire, NobodyWaitsInVain, bridgeVars, filterVars, clientVars
<1>6. Handshake'
  <2>1. \A kind : Count(kind)' = Count(kind)
    BY <1>3, CommitsKept
  <2>2. \A e : Queued(e)' <=> Queued(e)
    BY <1>3 DEF Queued, Pipe, filterVars, bridgeVars
  <2> QED
    BY <1>1, <1>3, <2>1, <2>2 DEF Handshake, Early, bridgeVars, filterVars, clientVars
<1> QED
  BY <1>4, <1>5, <1>6 DEF Shell

LEMMA ShellRunTask ==
  ASSUME Shell, Core, RunTask, batch = <<>>, loop' \in Seq(LoopTasks),
         \/ app' = "running" /\ receives' = receives /\ sends' = sends
         \/ /\ app' = app /\ sends' = sends
            /\ receives' \in Seq(Receives) /\ Len(receives') = Len(receives)
         \/ /\ app' = app /\ receives' = receives
            /\ sends' \in Seq({"pending", "sent", "refused"}) /\ Len(sends') = Len(sends)
  PROVE  Shell'
<1>1. TypeOK /\ Stages /\ Handshake /\ Closing /\ OnWire /\ NobodyWaitsInVain
  BY DEF Shell
<1>2. /\ loop # <<>>
      /\ UNCHANGED <<sendState, bridgeVars, commits, filterVars, connection, clientVars,
                     written, raises>>
  BY DEF RunTask
<1>3. TypeOK'
  BY <1>1, <1>2 DEF TypeOK, bridgeVars, filterVars, clientVars
<1>4. Stages' /\ Closing' /\ OnWire' /\ NobodyWaitsInVain'
  BY <1>1, <1>2 DEF Stages, Closing, OnWire, NobodyWaitsInVain, bridgeVars, filterVars, clientVars
<1>5. Handshake'
  <2>1. \A kind : Count(kind)' = Count(kind)
    BY <1>2, CommitsKept
  <2>2. \A e : Queued(e)' <=> Queued(e)
    BY <1>2 DEF Queued, Pipe, filterVars, bridgeVars
  <2>3. sends' # <<>> => sends # <<>>
    <3>1. sends \in Seq({"pending", "sent", "refused"})
      BY <1>1, Lengths
    <3> QED
      BY <3>1, EmptySeq
  <2> QED
    BY <1>1, <1>2, <2>1, <2>2, <2>3 DEF Handshake, Early, bridgeVars, filterVars, clientVars
<1> QED
  BY <1>3, <1>4, <1>5 DEF Shell


\* An event of the application: the first is an accept, if it has a future.
LEMMA ShellSend ==
  ASSUME Shell, batch = <<>>, loop' \in Seq(LoopTasks),
         NEW kind, NEW n, Frame(kind, n) \in SendEvents, SendEvent(kind, n),
         app # "none", app' \in {"running", "ended"},
         sendState' \in {"accepted", "closed"} \/ sendState' = sendState,
         sends' \in Seq({"pending", "sent", "refused"}), Len(sends') <= MaxSends,
         sends' # <<>> => sends # <<>> \/ kind = "accept",
         UNCHANGED <<receives, recvBridge, filterVars, connection, clientVars, written, raises>>
  PROVE  Shell'
<1>1. TypeOK /\ Stages /\ Handshake /\ Closing /\ OnWire /\ NobodyWaitsInVain
  BY DEF Shell
<1>2. /\ sendBridge = [closed |-> sendBridge.closed, events |-> sendBridge.events]
      /\ sendBridge.closed \in BOOLEAN /\ sendBridge.events \in Seq(SendEvents)
      /\ sendBridge.closed => sendBridge.events = <<>>
      /\ Len(sendBridge.events) \in Nat /\ DOMAIN sendBridge.events = 1..Len(sendBridge.events)
      /\ recvBridge.closed <=> sendBridge.closed
  BY <1>1, Lengths DEF Stages
<1>3. /\ state' = state /\ websocket' = websocket /\ closeFrame' = closeFrame
      /\ level' = level /\ batch' = batch /\ inbound' = inbound /\ arrived' = arrived
      /\ clientEnded' = clientEnded /\ receives' = receives /\ recvBridge' = recvBridge
      /\ connection' = connection /\ written' = written /\ raises' = raises
  BY DEF filterVars, clientVars
<1>4. /\ state \in {"start", "handshake", "accepted", "done", "notWebSocket", "destroyed"}
      /\ sendState' \in {"started", "accepted", "closed"}
  BY <1>1 DEF TypeOK
<1>5. state \in {"handshake", "accepted", "done", "destroyed"}
  BY <1>1, <1>4 DEF Stages
<1>6. CASE sendBridge.closed
  <2>1. sendBridge' = sendBridge /\ commits' = commits
    BY <1>6 DEF SendEvent, Sent
  <2>2. TypeOK'
    BY <1>1, <1>3, <1>4, <2>1 DEF TypeOK
  <2>3. ~Early /\ ~Early'
    BY <1>1, <1>2, <1>3, <1>6 DEF Stages, Early
  <2>4. Stages'
    BY <1>1, <1>3, <1>5, <2>1 DEF Stages
  <2>5. Handshake' /\ Closing' /\ OnWire' /\ NobodyWaitsInVain'
    BY <1>1, <1>3, <2>1, <2>3 DEF Handshake, Closing, OnWire, NobodyWaitsInVain
  <2> QED
    BY <2>2, <2>4, <2>5 DEF Shell
<1>7. CASE ~sendBridge.closed
  <2>1. PICK last : last = Frame(kind, n)
    OBVIOUS
  <2>2. /\ sendBridge' = [sendBridge EXCEPT !.events = Append(@, last)]
        /\ commits' = Append(commits, "response") /\ last \in SendEvents /\ last.kind = kind
    BY <1>7, <2>1 DEF SendEvent, Sent, Frame
  <2>3. /\ sendBridge'.closed = FALSE
        /\ sendBridge'.events = Append(sendBridge.events, last)
        /\ sendBridge' = [closed |-> sendBridge'.closed, events |-> sendBridge'.events]
    BY <1>2, <1>7, <2>2
  <2>4. /\ sendBridge'.events \in Seq(SendEvents)
        /\ Len(sendBridge'.events) = Len(sendBridge.events) + 1
        /\ DOMAIN sendBridge'.events = 1..(Len(sendBridge.events) + 1)
        /\ \A k \in 1..Len(sendBridge.events) : sendBridge'.events[k] = sendBridge.events[k]
        /\ sendBridge'.events[Len(sendBridge.events) + 1] = last
    BY <1>2, <2>2, <2>3, AppendFacts
  <2>5. /\ commits' \in Seq({"request", "response"}) /\ commits' # <<>>
        /\ \A c : Count(c)' = Count(c) + IF "response" = c THEN 1 ELSE 0
        /\ "response" \in Range(commits')
        /\ \A c \in Range(commits) : c \in Range(commits')
    BY <1>1, <2>2, CommitsAppended
  <2>6. sendBridge' \in Bridges(SendEvents)
    BY <2>3, <2>4 DEF Bridges
  <2>7. TypeOK'
    BY <1>1, <1>3, <1>4, <2>5, <2>6 DEF TypeOK
  <2>8. Stages'
    <3>1. state # "destroyed"
      BY <1>1, <1>2, <1>7 DEF Stages
    <3> QED
      BY <1>1, <1>2, <1>3, <1>5, <1>7, <2>3, <3>1 DEF Stages
  <2>9. Handshake'
    <3>1. Count("request")' = Count("request") + 0 /\ Count("response")' = Count("response") + 1
      <4>1. "request" # "response"
        OBVIOUS
      <4>2. Count("request")' = Count("request") + IF "response" = "request" THEN 1 ELSE 0
        BY <2>5
      <4>3. Count("response")' = Count("response") + IF "response" = "response" THEN 1 ELSE 0
        BY <2>5
      <4> QED
        BY <4>1, <4>2, <4>3
    <3>2. Pipe = sendBridge.events /\ Pipe' = sendBridge'.events
      BY <1>3 DEF Pipe
    <3>3. \A e : Queued(e) => Queued(e)'
      <4> SUFFICES ASSUME NEW e, NEW i \in DOMAIN Pipe, Pipe[i] = e
                   PROVE  Queued(e)'
        BY DEF Queued
      <4>1. i \in 1..Len(sendBridge.events) /\ i \in 1..(Len(sendBridge.events) + 1)
        BY <1>2, <3>2
      <4>2. sendBridge'.events[i] = e /\ i \in DOMAIN sendBridge'.events
        BY <2>4, <3>2, <4>1
      <4> QED
        BY <3>2, <4>2 DEF Queued
    <3>4. Queued(last)'
      <4>1. Len(sendBridge.events) + 1 \in DOMAIN sendBridge'.events
        BY <1>2, <2>4
      <4> QED
        BY <2>4, <3>2, <4>1 DEF Queued
    <3>5. ASSUME Early PROVE Count("request")' = Len(recvBridge.events)
      <4>1. Count("request") = Len(recvBridge.events)
        BY <1>1, <3>5 DEF Handshake
      <4>2. Len(recvBridge.events) \in Nat
        BY <1>1, Lengths
      <4> QED
        BY <3>1, <4>1, <4>2
    <3>6. Early => Count("response")' = Len(sendBridge'.events)
      BY <1>1, <2>4, <3>1 DEF Handshake
    <3>7. Early /\ sends' # <<>> => \E e \in SendEvents : Queued(e)' /\ e.kind = "accept"
      BY <1>1, <2>2, <3>3, <3>4 DEF Handshake
    <3>8. Early' <=> Early
      BY <1>3 DEF Early
    <3> QED
      BY <1>1, <1>3, <3>5, <3>6, <3>7, <3>8 DEF Handshake
  <2>10. Closing' /\ OnWire'
    BY <1>1, <1>3 DEF Closing, OnWire
  <2>11. NobodyWaitsInVain'
    BY <1>1, <1>3, <2>5 DEF NobodyWaitsInVain
  <2> QED
    BY <2>7, <2>8, <2>9, <2>10, <2>11 DEF Shell
<1> QED
  BY <1>2, <1>6, <1>7
-----------------------------------------------------------------------------
(* The event loop.                                                         *)

LEMMA Parts ==
  /\ IInv => Shell /\ Core
  /\ Shell' /\ Core' => IInv'
<1>1. IInv => loop \in Seq(LoopTasks)
  BY Lengths DEF IInv
<1>2. IInv => Shell /\ Core
  BY <1>1 DEF IInv, Shell, Core
<1>3. Shell' /\ Core' => IInv'
  BY DEF IInv, Shell, Core
<1> QED
  BY <1>2, <1>3

\* A future of send begins with the accept.
LEMMA SendWithFutureKeeps ==
  ASSUME Shell, Core, batch = <<>>, NEW kind, SendWithFuture(kind), app # "none", app' = app,
         \/ sendState = "started" /\ kind = "accept"
         \/ sendState = "accepted" /\ kind = "message",
         sendState' = "accepted",
         UNCHANGED <<receives, recvBridge, filterVars, connection, clientVars, written, raises>>
  PROVE  Shell' /\ Core'
<1>1. TypeOK /\ Stages /\ Sending
  BY DEF Shell, Core
<1>2. /\ Len(sends) \in Nat /\ app \in {"none", "running", "ended"}
      /\ sends \in Seq({"pending", "sent", "refused"})
  BY <1>1, Lengths DEF TypeOK
<1>3. PICK n : n = Len(sends) + 1
  OBVIOUS
<1>4. n \in 1..MaxSends /\ SendEvent(kind, n) /\ SendsOne
  BY <1>2, <1>3, BoundsAssumption DEF SendWithFuture, SendsOne
<1>5. Frame(kind, n) \in SendEvents
  <2>1. n \in 0..MaxSends
    BY <1>4, BoundsAssumption
  <2> QED
    BY <2>1 DEF Frame, SendEvents
<1>6. /\ sends' \in Seq({"pending", "sent", "refused"}) /\ Len(sends') <= MaxSends
  BY <1>1, <1>3, <1>4, SendsOneFacts, BoundsAssumption
<1>7. sends' # <<>> => sends # <<>> \/ kind = "accept"
  BY <1>1 DEF Sending
<1>8. /\ batch' = batch /\ inbound' = inbound /\ arrived' = arrived /\ Onward
      /\ Flowing' => Flowing
  BY DEF Onward, Early, Flowing, filterVars, clientVars
<1>9. kind = IF sendState = "started" THEN "accept" ELSE "message"
  OBVIOUS
<1>10. Core'
  BY <1>1, <1>3, <1>4, <1>8, <1>9, CoreSendFuture
<1>11. loop' \in Seq(LoopTasks)
  BY <1>10 DEF Core
<1>12. Shell'
  BY <1>2, <1>4, <1>5, <1>6, <1>7, <1>11, ShellSend
<1> QED
  BY <1>10, <1>12

LEMMA SendWithoutFutureKeeps ==
  ASSUME Shell, Core, batch = <<>>, NEW kind \in {"close", "exception", "abort"},
         SendEvent(kind, 0), app # "none", app' \in {"running", "ended"}, SendStateKept,
         UNCHANGED <<receives, sends, recvBridge, filterVars, connection, clientVars, written,
                     raises>>
  PROVE  Shell' /\ Core'
<1>1. TypeOK /\ Stages
  BY DEF Shell
<1>2. /\ sends \in Seq({"pending", "sent", "refused"}) /\ Len(sends) <= MaxSends
      /\ sendState' \in {"accepted", "closed"} \/ sendState' = sendState
  BY <1>1 DEF TypeOK, SendStateKept
<1>3. Frame(kind, 0) \in SendEvents
  BY BoundsAssumption DEF Frame, SendEvents
<1>4. /\ batch' = batch /\ inbound' = inbound /\ arrived' = arrived /\ Onward
      /\ Flowing' => Flowing
  BY DEF Onward, Early, Flowing, filterVars, clientVars
<1>5. Core'
  BY <1>1, <1>4, CoreSendEvent DEF Still
<1>6. loop' \in Seq(LoopTasks)
  BY <1>5 DEF Core
<1>7. Shell'
  BY <1>2, <1>3, <1>6, ShellSend
<1> QED
  BY <1>5, <1>7

LEMMA LoopStepKeeps ==
  ASSUME Shell, Core, LoopStep
  PROVE  Shell' /\ Core'
<1>1. TypeOK /\ batch = <<>> /\ app \in {"none", "running", "ended"}
  BY DEF Shell, LoopStep, TypeOK
<1>2. CASE Receive
  <2>1. Core'
    BY <1>1, <1>2, CoreReceive
  <2>2. loop' \in Seq(LoopTasks)
    BY <2>1 DEF Core
  <2> QED
    BY <1>1, <1>2, <2>1, <2>2, ShellReceive
<1>3. CASE SendAccept
  BY <1>1, <1>3, SendWithFutureKeeps DEF SendAccept
<1>4. CASE SendMessage
  BY <1>1, <1>4, SendWithFutureKeeps DEF SendMessage
<1>5. CASE SendClose
  BY <1>1, <1>5, SendWithoutFutureKeeps DEF SendClose, SendStateKept
<1>6. CASE AppEnds
  BY <1>1, <1>6, SendWithoutFutureKeeps DEF AppEnds, SendStateKept
<1>7. CASE \E k \in 1..MaxReceives : CancelReceive(k)
  BY <1>1, <1>7, CoreCancel, ShellCancel
<1>8. CASE RunTask
  <2>1. /\ Core'
        /\ \/ app' = "running" /\ receives' = receives /\ sends' = sends
           \/ /\ app' = app /\ sends' = sends
              /\ receives' \in Seq(Receives) /\ Len(receives') = Len(receives)
           \/ /\ app' = app /\ receives' = receives
              /\ sends' \in Seq({"pending", "sent", "refused"}) /\ Len(sends') = Len(sends)
    BY <1>1, <1>8, CoreRunTask
  <2>2. loop' \in Seq(LoopTasks)
    BY <2>1 DEF Core
  <2> QED
    BY <1>1, <1>8, <2>1, <2>2, ShellRunTask
<1> QED
  BY <1>2, <1>3, <1>4, <1>5, <1>6, <1>7, <1>8 DEF LoopStep

-----------------------------------------------------------------------------
(* Envoy's thread: reading.                                                *)

\* A message goes on the wire after those before it, and a close frame after all.
LEMMA WireExtended ==
  ASSUME TypeOK, OnWire, NEW f \in Frames, f.kind \in {"message", "close"},
         written' = Append(written, f), written # <<>>,
         \A i \in DOMAIN written : written[i].kind \in {"switching", "message"},
         f.kind = "message" => \A i \in DOMAIN written : written[i].n < f.n
  PROVE  /\ OnWire' /\ written' \in Seq(Frames)
         /\ written' # <<>> /\ written'[1] = written[1]
         /\ f.kind = "message" =>
              \A i \in DOMAIN written' : written'[i].kind \in {"switching", "message"}
<1>1. /\ written' \in Seq(Frames)
      /\ DOMAIN written' = 1..(Len(written) + 1) /\ Len(written') = Len(written) + 1
      /\ \A i \in 1..Len(written) : written'[i] = written[i]
      /\ written'[Len(written) + 1] = f
  BY WrittenAppended
<1>2. Len(written) \in Nat \ {0} /\ DOMAIN written = 1..Len(written)
  <2>1. written \in Seq(Frames)
    BY Lengths
  <2> QED
    BY <2>1, TailFacts
<1>3. ASSUME NEW i \in DOMAIN written'
      PROVE  \/ i \in DOMAIN written /\ written'[i] = written[i] /\ i # Len(written')
             \/ i = Len(written') /\ written'[i] = f /\ i # 1
  BY <1>1, <1>2
<1>4. \A i \in DOMAIN written' :
        /\ written'[i].kind \in {"switching", "forbidden", "error"} <=> i = 1
        /\ written'[i].kind \in {"forbidden", "error", "close"} => i = Len(written')
  BY <1>3 DEF OnWire
<1>5. \A i, j \in DOMAIN written' :
        i < j /\ written'[j].kind = "message" => written'[i].n < written'[j].n
  <2> SUFFICES ASSUME NEW i \in DOMAIN written', NEW j \in DOMAIN written',
                      i < j, written'[j].kind = "message"
               PROVE  written'[i].n < written'[j].n
    OBVIOUS
  <2>1. i \in DOMAIN written /\ written'[i] = written[i]
    BY <1>1, <1>2, <1>3
  <2> QED
    BY <1>3, <2>1 DEF OnWire
<1>6. written' # <<>> /\ written'[1] = written[1]
  BY <1>1, <1>2
<1>7. f.kind = "message" =>
        \A i \in DOMAIN written' : written'[i].kind \in {"switching", "message"}
  BY <1>3
<1> QED
  BY <1>1, <1>4, <1>5, <1>6, <1>7 DEF OnWire

\* During the handshake each callback has its event, and each event its callback.
LEMMA EarlyCallbacks ==
  ASSUME TypeOK, Handshake, Early
  PROVE  /\ recvBridge.events # <<>> <=> "request" \in Range(commits)
         /\ sendBridge.events # <<>> <=> "response" \in Range(commits)
<1>1. /\ commits \in Seq({"request", "response"})
      /\ Len(recvBridge.events) \in Nat /\ Len(sendBridge.events) \in Nat
      /\ recvBridge.events \in Seq(1..MaxReceives) /\ sendBridge.events \in Seq(SendEvents)
  BY Lengths
<1>2. \A kind : Count(kind) = Cardinality(Occurrences(commits, kind))
  BY DEF Count, Occurrences
<1>3. \A kind : Count(kind) > 0 <=> kind \in Range(commits)
  BY <1>1, <1>2, CountPositive
<1>4. /\ Count("request") = Len(recvBridge.events)
      /\ Count("response") = Len(sendBridge.events)
  BY DEF Handshake
<1>5. /\ recvBridge.events # <<>> <=> Len(recvBridge.events) > 0
      /\ sendBridge.events # <<>> <=> Len(sendBridge.events) > 0
  BY <1>1, EmptySeq
<1> QED
  BY <1>3, <1>4, <1>5

LEMMA OnReadHandshakeKeeps ==
  ASSUME Shell, Core, OnReadHandshake
  PROVE  Shell' /\ Core'
<1>1. TypeOK /\ Stages /\ Handshake /\ Closing /\ OnWire /\ NobodyWaitsInVain
  BY DEF Shell
<1>2. /\ state = "start" /\ connection = "open"
      /\ \/ state' = "notWebSocket" /\ connection' \in {"open", "closing"} /\ loop' = loop
         \/ /\ state' = "handshake" /\ loop' = Append(loop, Task("run", 0, 0))
            /\ connection' = connection
      /\ app' = app /\ sendState' = sendState /\ receives' = receives /\ sends' = sends
      /\ recvBridge' = recvBridge /\ sendBridge' = sendBridge /\ commits' = commits
      /\ websocket' = websocket /\ closeFrame' = closeFrame /\ level' = level /\ batch' = batch
      /\ inbound' = inbound /\ arrived' = arrived /\ clientEnded' = clientEnded
      /\ written' = written /\ raises' = raises
  BY DEF OnReadHandshake, appVars, bridgeVars, clientVars
<1>3. Core'
  <2>1. /\ Still /\ Pipe' = Pipe /\ ~Flowing'
    BY <1>2 DEF Still, SendStateKept, Onward, Early, Pipe, Flowing
  <2>2. \A k \in 1..MaxSends : IsWritten(k)' <=> IsWritten(k)
    BY <1>2 DEF IsWritten
  <2>3. arrived' \in arrived..MaxMessages
    BY <1>1, <1>2, Lengths, BoundsAssumption
  <2>4. \/ loop' = loop
        \/ \E t \in LoopTasks : loop' = Append(loop, t) /\ t.kind = "run" /\ t.message = 0
    <3>1. PICK t : t = Task("run", 0, 0)
      OBVIOUS
    <3>2. t \in LoopTasks /\ t.kind = "run" /\ t.message = 0
      BY <3>1, BoundsAssumption DEF Task, LoopTasks
    <3> QED
      BY <1>2, <3>1, <3>2
  <2> QED
    BY <1>1, <2>1, <2>2, <2>3, <2>4, CoreQuiet
<1>4. TypeOK'
  <2>1. loop' \in Seq(LoopTasks)
    BY <1>3 DEF Core
  <2> QED
    BY <1>1, <1>2, <2>1 DEF TypeOK
<1>5. Early /\ Early' /\ ~recvBridge.closed /\ commits = <<>> /\ batch = <<>>
  BY <1>1, <1>2 DEF Stages, Early
<1>6. Stages'
  BY <1>1, <1>2, <1>5 DEF Stages
<1>7. Handshake'
  <2>1. \A kind : Count(kind)' = Count(kind)
    BY <1>2, CommitsKept
  <2>2. \A e : Queued(e)' <=> Queued(e)
    BY <1>2 DEF Queued, Pipe
  <2> QED
    BY <1>1, <1>2, <1>5, <2>1, <2>2 DEF Handshake
<1>8. Closing' /\ OnWire'
  BY <1>1, <1>2 DEF Closing, OnWire
<1>9. NobodyWaitsInVain'
  BY <1>1, <1>2, <1>5, EarlyCallbacks DEF NobodyWaitsInVain
<1> QED
  BY <1>3, <1>4, <1>6, <1>7, <1>8, <1>9 DEF Shell

LEMMA ClosedFacts ==
  ASSUME NEW S
  PROVE  /\ ClosedBridge \in Bridges(S) /\ ClosedBridge.closed /\ ClosedBridge.events = <<>>
         /\ ClosedBridge.closed = TRUE
<1>1. <<>> \in Seq(S)
  OBVIOUS
<1> QED
  BY <1>1 DEF ClosedBridge, Bridges

\* Frames of the client that are read in an open connection.
LEMMA ShellRead ==
  ASSUME Shell, NEW u, state = "accepted", state' = "accepted", connection # "gone",
         MessagesRead(u) \/ ClosedOnRead \/ ReadToTheEnd,
         ~closeFrame => \A i \in DOMAIN u : u[i].kind # "message" => clientEnded',
         loop' \in Seq(LoopTasks), commits' \in Seq({"request", "response"}),
         "response" \in Range(commits) => "response" \in Range(commits'),
         arrived' \in 0..MaxMessages, clientEnded' \in BOOLEAN,
         UNCHANGED <<appVars, level, batch, raises>>
  PROVE  Shell'
<1>1. TypeOK /\ Stages /\ Closing /\ OnWire /\ NobodyWaitsInVain
  BY DEF Shell
<1>2. /\ app' = app /\ sendState' = sendState /\ receives' = receives /\ sends' = sends
      /\ level' = level /\ batch' = batch /\ raises' = raises
      /\ ~Early /\ ~Early'
  BY DEF appVars, Early
<1>3. /\ recvBridge = [closed |-> recvBridge.closed, events |-> recvBridge.events]
      /\ recvBridge.closed \in BOOLEAN
      /\ closeFrame \in BOOLEAN /\ written \in Seq(Frames)
      /\ connection \in {"open", "closing", "gone"}
      /\ websocket \in {"none", "active", "closedByUs", "terminated"}
      /\ recvBridge.closed => closeFrame
      /\ recvBridge.closed <=> sendBridge.closed
  <2>1. /\ closeFrame \in BOOLEAN /\ connection \in {"open", "closing", "gone"}
        /\ websocket \in {"none", "active", "closedByUs", "terminated"}
    BY <1>1 DEF TypeOK
  <2> QED
    BY <1>1, <2>1, Lengths DEF Stages
<1>4. Handshake'
  BY <1>2 DEF Handshake
<1>5. CASE MessagesRead(u)
  <2>1. /\ ~closeFrame /\ closeFrame' = closeFrame /\ ~recvBridge.closed
        /\ sendBridge' = sendBridge /\ websocket' = websocket /\ connection' = connection
        /\ written' = written /\ inbound' = Rest(u) /\ inbound' \in Seq(Unread)
        /\ Left(u) = <<>> \/ Rest(u) = <<>>
    BY <1>3, <1>5 DEF MessagesRead
  <2>2. /\ recvBridge' = [closed |-> FALSE, events |-> Left(u)]
        /\ recvBridge'.closed = FALSE /\ recvBridge'.events = Left(u)
        /\ Left(u) \in Seq(1..MaxReceives)
    BY <1>3, <1>5, <2>1 DEF MessagesRead
  <2>3. recvBridge' \in Bridges(1..MaxReceives)
    BY <2>2 DEF Bridges
  <2>4. TypeOK'
    BY <1>1, <1>2, <2>1, <2>3 DEF TypeOK, Unread
  <2>5. \A i \in DOMAIN inbound' : inbound'[i].kind # "message" => clientEnded'
    <3> SUFFICES ASSUME NEW i \in DOMAIN Rest(u), Rest(u)[i].kind # "message"
                 PROVE  clientEnded'
      BY <2>1
    <3>1. PICK j : j = (Len(u) - Len(Rest(u))) + i
      OBVIOUS
    <3>2. Rest(u)[i] = u[j]
      BY <1>5, <3>1 DEF MessagesRead
    <3>3. j \in DOMAIN u
      BY <1>5, <3>1 DEF MessagesRead
    <3> QED
      BY <2>1, <3>2, <3>3
  <2>6. Stages'
    BY <1>1, <1>2, <1>3, <2>1, <2>2, <2>5 DEF Stages
  <2>7. Closing' /\ OnWire'
    BY <1>1, <2>1 DEF Closing, OnWire
  <2>8. NobodyWaitsInVain'
    BY <1>1, <1>2, <2>1, <2>2 DEF NobodyWaitsInVain
  <2> QED
    BY <1>4, <2>4, <2>6, <2>7, <2>8 DEF Shell
<1>6. ASSUME ClosedOnRead \/ ReadToTheEnd
      PROVE  /\ closeFrame' = TRUE /\ recvBridge' = ClosedBridge /\ sendBridge' = ClosedBridge
             /\ inbound' = <<>> /\ connection' \in {connection, "closing"}
             /\ websocket' \in {"none", "active", "closedByUs", "terminated"}
  BY <1>3, <1>6 DEF ClosedOnRead, ReadToTheEnd
<1>7. ASSUME ClosedOnRead \/ ReadToTheEnd, written' \in Seq(Frames), OnWire', Closing'
      PROVE  Shell'
  <2>0. /\ closeFrame' = TRUE /\ recvBridge' = ClosedBridge /\ sendBridge' = ClosedBridge
        /\ inbound' = <<>> /\ connection' \in {connection, "closing"}
        /\ websocket' \in {"none", "active", "closedByUs", "terminated"}
    BY <1>6, <1>7
  <2>1. /\ recvBridge'.closed /\ sendBridge'.closed
        /\ recvBridge'.events = <<>> /\ sendBridge'.events = <<>>
        /\ recvBridge' \in Bridges(1..MaxReceives) /\ sendBridge' \in Bridges(SendEvents)
    BY <2>0, ClosedFacts
  <2>2. TypeOK'
    <3>1. /\ connection' \in {"open", "closing", "gone"} /\ closeFrame' \in BOOLEAN
          /\ state' \in {"start", "handshake", "accepted", "done", "notWebSocket", "destroyed"}
          /\ inbound' \in Seq([kind : {"message", "close", "bad"}, n : 0..MaxMessages])
          /\ written' \in Seq([kind : {"switching", "forbidden", "error", "message", "close"},
                               n : 0..MaxSends])
      BY <1>3, <1>7, <2>0 DEF Frames
    <3> QED
      BY <1>1, <1>2, <2>0, <2>1, <3>1 DEF TypeOK
  <2>3. Stages'
    BY <1>1, <1>2, <1>3, <2>0, <2>1 DEF Stages
  <2>4. NobodyWaitsInVain'
    BY <2>1 DEF NobodyWaitsInVain
  <2> QED
    BY <1>4, <1>7, <2>2, <2>3, <2>4 DEF Shell
<1>8. CASE ClosedOnRead
  <2>1. PICK f : f = Frame("close", 0)
    OBVIOUS
  <2>2. f \in Frames /\ f.kind = "close"
    BY <2>1, BoundsAssumption DEF Frame, Frames
  <2>3. /\ websocket = "active" /\ written # <<>> /\ written[1].n = 1
        /\ \A i \in DOMAIN written : written[i].kind \in {"switching", "message"}
    BY <1>1, <1>8 DEF Closing, ClosedOnRead
  <2>4. /\ OnWire' /\ written' \in Seq(Frames)
        /\ written' # <<>> /\ written'[1] = written[1]
    BY <1>1, <1>8, <2>1, <2>2, <2>3, WireExtended DEF ClosedOnRead
  <2>5. Closing'
    BY <1>8, <2>3, <2>4 DEF Closing, ClosedOnRead
  <2> QED
    BY <1>7, <1>8, <2>4, <2>5
<1>9. CASE ReadToTheEnd
  <2>1. /\ OnWire' /\ written' \in Seq(Frames)
    BY <1>1, <1>3, <1>9 DEF OnWire, ReadToTheEnd
  <2>2. Closing'
    BY <1>1, <1>9 DEF Closing, ReadToTheEnd
  <2> QED
    BY <1>7, <1>9, <2>1, <2>2
<1> QED
  BY <1>5, <1>8, <1>9

\* A frame that is put after what is unread, in an open connection.
LEMMA IncomingOnRead ==
  ASSUME TypeOK, HandedOn, Incoming(inbound, arrived), Flowing,
         \A i \in DOMAIN inbound : inbound[i].kind = "message",
         NEW frame \in Unread, NEW n,
         \/ frame.kind # "message" /\ frame.n = 0 /\ n = arrived
         \/ frame.kind = "message" /\ frame.n = arrived + 1 /\ n = arrived + 1
              /\ arrived + 1 \in 1..MaxMessages
  PROVE  /\ Append(inbound, frame) \in Seq(Unread) /\ n \in 0..MaxMessages /\ arrived <= n
         /\ Incoming(Append(inbound, frame), n)
         /\ \A i \in DOMAIN Append(inbound, frame) :
              Append(inbound, frame)[i].kind # "message" => frame.kind # "message"
<1>1. /\ inbound \in Seq(Unread) /\ Len(inbound) \in Nat /\ DOMAIN inbound = 1..Len(inbound)
      /\ arrived \in 0..MaxMessages /\ arrived \in Nat
      /\ \A i \in DOMAIN inbound : inbound[i] \in Unread
  BY Lengths, BoundsAssumption
<1>2. PICK u : u = Append(inbound, frame)
  OBVIOUS
<1>3. /\ u \in Seq(Unread) /\ Len(u) = Len(inbound) + 1 /\ DOMAIN u = 1..(Len(inbound) + 1)
      /\ \A k \in 1..Len(inbound) : u[k] = inbound[k]
      /\ u[Len(inbound) + 1] = frame
  BY <1>1, <1>2, AppendFacts
<1>4. ASSUME NEW i \in DOMAIN u
      PROVE  \/ i \in DOMAIN inbound /\ u[i] = inbound[i]
             \/ i = Len(u) /\ u[i] = frame
  BY <1>1, <1>3
<1>5. n \in 0..MaxMessages /\ n \in Nat /\ arrived <= n
  BY <1>1
<1>6. \A m \in 1..arrived : Handed(m) \/ IsUnread(inbound, m)
  BY DEF Incoming, Flowing
<1>7. \A m : IsUnread(inbound, m) => IsUnread(u, m)
  <2> SUFFICES ASSUME NEW m, NEW i \in DOMAIN inbound, inbound[i].n = m
               PROVE  IsUnread(u, m)
    BY DEF IsUnread
  <2>1. i \in DOMAIN u /\ u[i] = inbound[i]
    BY <1>1, <1>3
  <2> QED
    BY <2>1 DEF IsUnread
<1>8. frame.kind = "message" => IsUnread(u, arrived + 1)
  <2>1. Len(inbound) + 1 \in DOMAIN u
    BY <1>1, <1>3
  <2> QED
    BY <1>3, <2>1 DEF IsUnread
<1>9. \A m \in 1..n : Handed(m) \/ IsUnread(u, m)
  <2> SUFFICES ASSUME NEW m \in 1..n PROVE Handed(m) \/ IsUnread(u, m)
    OBVIOUS
  <2>1. m \in 1..arrived \/ (frame.kind = "message" /\ m = arrived + 1)
    BY <1>1
  <2> QED
    BY <1>6, <1>7, <1>8, <2>1
<1>10. ASSUME NEW i \in DOMAIN u
       PROVE  /\ u[i].n # 0 <=> u[i].kind = "message"
              /\ u[i].n <= n /\ u[i].n \in Nat
              /\ i < Len(u) => u[i].kind = "message"
              /\ \A m \in 1..u[i].n : Handed(m) \/ IsUnread(u, m)
              /\ \A m \in 1..MaxMessages : Handed(m) /\ u[i].n # 0 => m < u[i].n
              /\ i \in DOMAIN inbound => u[i].n <= arrived
  <2>1. CASE i \in DOMAIN inbound /\ u[i] = inbound[i]
    <3>1. /\ inbound[i].n # 0 <=> inbound[i].kind = "message"
          /\ inbound[i].n <= arrived
          /\ \A m \in 1..inbound[i].n : Handed(m) \/ IsUnread(inbound, m)
          /\ \A m \in 1..MaxMessages : Handed(m) /\ inbound[i].n # 0 => m < inbound[i].n
          /\ inbound[i].kind = "message"
      BY <2>1 DEF Incoming
    <3>2. inbound[i].n \in Nat
      BY <1>1, <2>1, BoundsAssumption DEF Unread
    <3>3. inbound[i].n <= n
      BY <1>1, <1>5, <3>1, <3>2
    <3> QED
      BY <1>7, <2>1, <3>1, <3>2, <3>3
  <2>2. CASE i = Len(u) /\ u[i] = frame
    <3>1. \A m \in 1..MaxMessages : Handed(m) /\ frame.n # 0 => m < frame.n
      <4> SUFFICES ASSUME NEW m \in 1..MaxMessages, Handed(m), frame.n # 0
                   PROVE  m < frame.n
        OBVIOUS
      <4>1. m <= arrived
        BY DEF HandedOn
      <4> QED
        BY <1>1, <4>1
    <3>2. frame.n <= n /\ frame.n \in Nat /\ (frame.n # 0 <=> frame.kind = "message")
      BY <1>1
    <3>3. \A m \in 1..frame.n : m \in 1..n
      BY <1>5, <3>2
    <3>4. ~(i < Len(u)) /\ i \notin DOMAIN inbound
      BY <1>1, <1>3, <2>2
    <3> QED
      BY <1>9, <2>2, <3>1, <3>2, <3>3, <3>4
  <2> QED
    BY <1>4, <2>1, <2>2
<1>11. ASSUME NEW i \in DOMAIN u, NEW j \in DOMAIN u, i < j, u[j].n # 0
       PROVE  u[i].n < u[j].n
  <2>1. i \in DOMAIN inbound /\ u[i] = inbound[i]
    BY <1>1, <1>3, <1>11
  <2>2. CASE j \in DOMAIN inbound /\ u[j] = inbound[j]
    BY <1>11, <2>1, <2>2 DEF Incoming
  <2>3. CASE j = Len(u) /\ u[j] = frame
    <3>1. u[i].n <= arrived /\ u[i].n \in Nat
      BY <1>10, <2>1
    <3>2. u[j].n = arrived + 1
      BY <1>11, <2>3
    <3> QED
      BY <1>1, <3>1, <3>2
  <2> QED
    BY <1>4, <2>2, <2>3
<1>12. Incoming(u, n)
  BY <1>9, <1>10, <1>11 DEF Incoming
<1>13. \A i \in DOMAIN u : u[i].kind # "message" => frame.kind # "message"
  BY <1>4
<1> QED
  BY <1>2, <1>3, <1>5, <1>12, <1>13

LEMMA OnReadKeeps ==
  ASSUME Shell, Core, NEW frame \in ClientFrames, OnRead(frame)
  PROVE  Shell' /\ Core'
<1>1. TypeOK /\ Stages /\ Handshake /\ Closing /\ OnWire /\ NobodyWaitsInVain
  BY DEF Shell
<1>2. /\ state \in {"handshake", "accepted", "done"}
      /\ connection = "open" /\ batch = <<>> /\ ~clientEnded
      /\ arrived' = IF frame.kind = "message" THEN arrived + 1 ELSE arrived
      /\ clientEnded' = (frame.kind # "message")
      /\ app' = app /\ sendState' = sendState /\ receives' = receives /\ sends' = sends
      /\ commits' = commits /\ state' = state /\ level' = level /\ batch' = batch
      /\ raises' = raises
  BY DEF OnRead, appVars
<1>3. arrived \in 0..MaxMessages /\ arrived \in Nat
  BY <1>1, Lengths, BoundsAssumption
<1>4. /\ frame \in Unread
      /\ \/ frame.kind # "message" /\ frame.n = 0 /\ arrived' = arrived
         \/ frame.kind = "message" /\ frame.n = arrived + 1 /\ arrived' = arrived + 1
              /\ arrived + 1 \in 1..MaxMessages
  <2>1. \/ frame \in {Frame("close", 0), Frame("bad", 0)}
        \/ arrived + 1 \in 1..MaxMessages /\ frame = Frame("message", arrived + 1)
    BY DEF ClientFrames
  <2>2. 0 \in 0..MaxMessages /\ \A n \in 1..MaxMessages : n \in 0..MaxMessages
    BY BoundsAssumption
  <2> QED
    BY <1>2, <2>1, <2>2 DEF Frame, Unread
<1>5. arrived' \in arrived..MaxMessages /\ arrived' \in 0..MaxMessages /\ arrived <= arrived'
  BY <1>3, <1>4
<1>6. clientEnded' \in BOOLEAN
  BY <1>2
<1>7. CASE state # "accepted"
  <2>1. /\ recvBridge' = recvBridge /\ sendBridge' = sendBridge /\ loop' = loop
        /\ inbound' = inbound /\ closeFrame' = closeFrame /\ websocket' = websocket
        /\ written' = written
        /\ \/ state = "handshake" /\ connection' = "closing"
           \/ state = "done" /\ connection' = connection
    BY <1>2, <1>7 DEF OnRead, bridgeVars
  <2>2. Core'
    <3>1. /\ Still /\ Pipe' = Pipe /\ ~Flowing'
      BY <1>2, <1>7, <2>1 DEF Still, SendStateKept, Onward, Early, Pipe, Flowing
    <3>2. \A k \in 1..MaxSends : IsWritten(k)' <=> IsWritten(k)
      BY <2>1 DEF IsWritten
    <3> QED
      BY <1>1, <1>5, <2>1, <3>1, <3>2, CoreQuiet
  <2>3. TypeOK'
    BY <1>1, <1>2, <1>5, <1>6, <2>1 DEF TypeOK
  <2>4. Stages'
    BY <1>1, <1>2, <2>1 DEF Stages
  <2>5. Handshake'
    <3>1. \A kind : Count(kind)' = Count(kind)
      BY <1>2, CommitsKept
    <3>2. \A e : Queued(e)' <=> Queued(e)
      BY <1>2, <2>1 DEF Queued, Pipe
    <3>3. Early' => Early /\ connection' # "open"
      BY <1>2, <2>1 DEF Early
    <3> QED
      BY <1>1, <1>2, <2>1, <3>1, <3>2, <3>3 DEF Handshake
  <2>6. Closing' /\ OnWire'
    BY <1>1, <1>2, <2>1 DEF Closing, OnWire
  <2>7. NobodyWaitsInVain'
    BY <1>1, <1>2, <2>1 DEF NobodyWaitsInVain
  <2> QED
    BY <2>2, <2>3, <2>4, <2>5, <2>6, <2>7 DEF Shell
<1>8. CASE state = "accepted"
  <2>1. PICK u, n : u = Append(inbound, frame) /\ n = arrived'
    OBVIOUS
  <2>2. ReadWebSocket(u)
    BY <1>8, <2>1 DEF OnRead
  <2>3. u \in Seq(Unread)
    <3>1. inbound \in Seq(Unread)
      BY <1>1, Lengths
    <3> QED
      BY <1>4, <2>1, <3>1, AppendFacts
  <2>4. ASSUME ~closeFrame
        PROVE  /\ Incoming(u, n)
               /\ \A i \in DOMAIN u : u[i].kind # "message" => clientEnded'
    <3>1. Flowing /\ HandedOn /\ Incoming(inbound, arrived)
      BY <1>2, <1>8, <2>4 DEF Flowing, Core
    <3>2. \A i \in DOMAIN inbound : inbound[i].kind = "message"
      BY <1>1, <1>2 DEF Stages
    <3>3. \/ frame.kind # "message" /\ frame.n = 0 /\ n = arrived
          \/ frame.kind = "message" /\ frame.n = arrived + 1 /\ n = arrived + 1
               /\ arrived + 1 \in 1..MaxMessages
      BY <1>4, <2>1
    <3>4. /\ Incoming(u, n)
          /\ \A i \in DOMAIN u : u[i].kind # "message" => frame.kind # "message"
      BY <1>1, <1>4, <2>1, <3>1, <3>2, <3>3, IncomingOnRead
    <3> QED
      BY <1>2, <3>4
  <2>5. ReadSetting(u, n)
    BY <1>2, <1>5, <1>8, <2>1, <2>3, <2>4 DEF ReadSetting
  <2>6. Core' /\ (MessagesRead(u) \/ ClosedOnRead \/ ReadToTheEnd)
    BY <1>1, <2>2, <2>5, ReadKeeps
  <2>7. loop' \in Seq(LoopTasks) /\ commits' \in Seq({"request", "response"})
    BY <1>1, <1>2, <2>6, Lengths DEF Core
  <2>8. UNCHANGED <<appVars, level, batch, raises>>
    BY <1>2 DEF appVars
  <2>9. Shell'
    BY <1>2, <1>5, <1>6, <1>8, <2>4, <2>6, <2>7, <2>8, ShellRead
  <2> QED
    BY <2>6, <2>9
<1> QED
  BY <1>7, <1>8

\* A read that a receive asked for, or its connect event.
LEMMA OnScheduledRequestKeeps ==
  ASSUME Shell, Core, OnScheduledRequest
  PROVE  Shell' /\ Core'
<1>1. TypeOK /\ Stages /\ Handshake /\ Closing /\ OnWire /\ NobodyWaitsInVain
  BY DEF Shell
<1>2. /\ commits # <<>> /\ Head(commits) = "request" /\ batch = <<>>
      /\ commits' = Tail(commits)
      /\ app' = app /\ sendState' = sendState /\ receives' = receives /\ sends' = sends
      /\ state' = state /\ level' = level /\ batch' = batch /\ arrived' = arrived
      /\ clientEnded' = clientEnded /\ raises' = raises
  BY DEF OnScheduledRequest, appVars
<1>3. /\ state \in {"handshake", "accepted", "done"}
      /\ arrived \in 0..MaxMessages /\ arrived' \in arrived..MaxMessages
  <2>1. arrived \in 0..MaxMessages
    BY <1>1, Lengths
  <2> QED
    BY <1>1, <1>2, <2>1, BoundsAssumption DEF Stages
<1>4. /\ commits' \in Seq({"request", "response"})
      /\ \A kind : Count(kind) = Count(kind)' + IF Head(commits) = kind THEN 1 ELSE 0
      /\ \A kind : Count(kind) \in Nat /\ Count(kind)' \in Nat
      /\ \A kind \in Range(commits) : kind # Head(commits) => kind \in Range(commits')
  BY <1>1, <1>2, CommitsTaken
<1>5. "response" \in Range(commits) => "response" \in Range(commits')
  BY <1>2, <1>4
<1>6. /\ Count("request") = Count("request")' + 1
      /\ Count("response") = Count("response")' + 0
  <2>1. "request" # "response"
    OBVIOUS
  <2>2. Count("request") = Count("request")' + IF Head(commits) = "request" THEN 1 ELSE 0
    BY <1>4
  <2>3. Count("response") = Count("response")' + IF Head(commits) = "response" THEN 1 ELSE 0
    BY <1>4
  <2> QED
    BY <1>2, <2>1, <2>2, <2>3
<1>7. /\ recvBridge = [closed |-> recvBridge.closed, events |-> recvBridge.events]
      /\ recvBridge.events \in Seq(1..MaxReceives) /\ Len(recvBridge.events) \in Nat
      /\ recvBridge.closed \in BOOLEAN
  BY <1>1, Lengths
<1>8. CASE state = "handshake"
  <2>1. /\ loop' = Append(loop, Task("connect", Head(recvBridge.events), 0))
        /\ recvBridge' = Shifted(recvBridge)
        /\ sendBridge' = sendBridge /\ inbound' = inbound /\ closeFrame' = closeFrame
        /\ websocket' = websocket /\ connection' = connection /\ written' = written
    BY <1>8 DEF OnScheduledRequest
  <2>2. Early /\ Early' /\ ~recvBridge.closed
    BY <1>1, <1>2, <1>8 DEF Early, Stages
  <2>3. recvBridge.events # <<>> /\ Len(recvBridge.events) = Count("request")
    <3>1. Count("request") = Len(recvBridge.events) /\ Count("request")' \in Nat
      BY <1>1, <1>4, <2>2 DEF Handshake
    <3>2. Len(recvBridge.events) # 0
      BY <1>6, <3>1
    <3> QED
      BY <3>1, <3>2
  <2>4. Connects
    BY <1>8, <2>1, <2>2, <2>3 DEF Connects, Shifted
  <2>5. Core' /\ recvBridge'.closed = FALSE /\ recvBridge'.events = Tail(recvBridge.events)
    BY <1>1, <1>2, <2>1, <2>4, CoreConnect
  <2>6. /\ recvBridge' = [closed |-> recvBridge'.closed, events |-> recvBridge'.events]
    BY <1>7, <2>4 DEF Connects
  <2>7. /\ recvBridge'.events \in Seq(1..MaxReceives)
        /\ Len(recvBridge'.events) = Len(recvBridge.events) - 1
    BY <1>7, <2>3, <2>5, TailFacts
  <2>8. recvBridge' \in Bridges(1..MaxReceives) /\ loop' \in Seq(LoopTasks)
    BY <2>5, <2>6, <2>7 DEF Bridges, Core
  <2>9. TypeOK'
    BY <1>1, <1>2, <1>4, <2>1, <2>8 DEF TypeOK
  <2>10. Stages'
    BY <1>1, <1>2, <1>8, <2>1, <2>2, <2>5 DEF Stages
  <2>11. Handshake'
    <3>1. Count("request")' = Len(recvBridge'.events)
      <4>1. Count("request")' \in Nat
        BY <1>4
      <4> QED
        BY <1>6, <1>7, <2>3, <2>7, <4>1
    <3>2. Count("response")' = Len(sendBridge.events)
      <4>1. Count("response")' \in Nat /\ Count("response") = Len(sendBridge.events)
        BY <1>1, <1>4, <2>2 DEF Handshake
      <4> QED
        BY <1>6, <4>1
    <3>3. \A e : Queued(e)' <=> Queued(e)
      BY <1>2, <2>1 DEF Queued, Pipe
    <3> QED
      BY <1>1, <1>2, <2>1, <2>2, <3>1, <3>2, <3>3 DEF Handshake
  <2>12. Closing' /\ OnWire'
    BY <1>1, <1>2, <1>8, <2>1 DEF Closing, OnWire
  <2>13. NobodyWaitsInVain'
    <3>1. ASSUME recvBridge'.events # <<>> PROVE "request" \in Range(commits')
      <4>1. Len(recvBridge'.events) \in Nat \ {0}
        BY <2>7, <3>1, TailFacts
      <4>2. Count("request")' > 0
        BY <2>2, <2>11, <4>1 DEF Handshake
      <4>3. Count("request")' = Cardinality(Occurrences(commits', "request"))
        BY DEF Count, Occurrences
      <4> QED
        BY <1>4, <4>2, <4>3, CountPositive
    <3> QED
      BY <1>1, <1>2, <1>5, <1>8, <2>1, <3>1 DEF NobodyWaitsInVain
  <2> QED
    BY <2>5, <2>9, <2>10, <2>11, <2>12, <2>13 DEF Shell
<1>9. CASE state = "accepted"
  <2>1. PICK u, n : u = inbound /\ n = arrived
    OBVIOUS
  <2>2. ReadWebSocket(u)
    BY <1>9, <2>1 DEF OnScheduledRequest
  <2>3. u \in Seq(Unread) /\ arrived <= n
    BY <1>1, <1>3, <2>1, Lengths, BoundsAssumption
  <2>4. Incoming(u, n) /\ connection # "gone"
    BY <1>1, <1>9, <2>1 DEF Core, Stages
  <2>5. ReadSetting(u, n)
    BY <1>2, <1>3, <1>9, <2>1, <2>3, <2>4 DEF ReadSetting
  <2>6. Core' /\ (MessagesRead(u) \/ ClosedOnRead \/ ReadToTheEnd)
    BY <1>1, <2>2, <2>5, ReadKeeps
  <2>7. /\ loop' \in Seq(LoopTasks) /\ arrived' \in 0..MaxMessages
        /\ \A i \in DOMAIN u : u[i].kind # "message" => clientEnded'
        /\ clientEnded' \in BOOLEAN
    <3>1. clientEnded \in BOOLEAN
      BY <1>1 DEF TypeOK
    <3> QED
      BY <1>1, <1>2, <1>3, <2>1, <2>6, <3>1 DEF Core, Stages
  <2>8. UNCHANGED <<appVars, level, batch, raises>>
    BY <1>2 DEF appVars
  <2>9. Shell'
    BY <1>2, <1>4, <1>5, <1>9, <2>4, <2>6, <2>7, <2>8, ShellRead
  <2> QED
    BY <2>6, <2>9
<1>10. CASE state = "done"
  <2>1. /\ recvBridge' = recvBridge /\ sendBridge' = sendBridge /\ loop' = loop
        /\ inbound' = inbound /\ closeFrame' = closeFrame /\ websocket' = websocket
        /\ written' = written /\ connection' = connection
    BY <1>10 DEF OnScheduledRequest, bridgeVars
  <2>2. Core'
    <3>1. /\ Still /\ Pipe' = Pipe /\ ~Flowing'
      BY <1>2, <1>10, <2>1 DEF Still, SendStateKept, Onward, Early, Pipe, Flowing
    <3>2. \A k \in 1..MaxSends : IsWritten(k)' <=> IsWritten(k)
      BY <2>1 DEF IsWritten
    <3> QED
      BY <1>1, <1>3, <2>1, <3>1, <3>2, CoreQuiet
  <2>3. TypeOK'
    BY <1>1, <1>2, <1>4, <2>1 DEF TypeOK
  <2>4. Stages' /\ Handshake' /\ Closing' /\ OnWire'
    BY <1>1, <1>2, <1>10, <2>1 DEF Stages, Handshake, Closing, OnWire, Early
  <2>5. NobodyWaitsInVain'
    BY <1>1, <1>2, <1>5, <1>10, <2>1 DEF NobodyWaitsInVain
  <2> QED
    BY <2>2, <2>3, <2>4, <2>5 DEF Shell
<1> QED
  BY <1>3, <1>8, <1>9, <1>10

-----------------------------------------------------------------------------
(* Envoy's thread: the answer to the handshake.                            *)

LEMMA WriteFacts ==
  ASSUME TypeOK, NEW f, Write(f)
  PROVE  /\ written' = Append(written, f) /\ level' \in 0..1 /\ raises' \in 0..MaxRaises
         /\ level' = 0 => level = 0
<1>1. level \in 0..1 /\ raises \in 0..MaxRaises /\ MaxRaises \in Nat
  BY BoundsAssumption DEF TypeOK
<1> QED
  BY <1>1 DEF Write

LEMMA WireBegun ==
  ASSUME TypeOK, written = <<>>, NEW f \in Frames,
         f.kind \in {"switching", "forbidden", "error"}, written' = Append(written, f)
  PROVE  /\ OnWire' /\ written' \in Seq(Frames)
         /\ written' # <<>> /\ written'[1] = f /\ DOMAIN written' = {1}
<1>1. /\ written' \in Seq(Frames) /\ Len(written') = 1 /\ DOMAIN written' = 1..1
      /\ written'[1] = f
  <2>1. /\ written' \in Seq(Frames)
        /\ DOMAIN written' = 1..(Len(written) + 1) /\ Len(written') = Len(written) + 1
        /\ written'[Len(written) + 1] = f
    BY WrittenAppended
  <2>2. Len(written) = 0
    OBVIOUS
  <2> QED
    BY <2>1, <2>2
<1>2. DOMAIN written' = {1}
  BY <1>1
<1>3. OnWire'
  BY <1>1, <1>2 DEF OnWire
<1> QED
  BY <1>1, <1>2, <1>3

\* The callback has an event, and each event after it another callback.
LEMMA ResponseLeft ==
  ASSUME TypeOK, Handshake, Early, commits # <<>>, Head(commits) = "response"
  PROVE  /\ sendBridge.events # <<>>
         /\ Tail(commits) \in Seq({"request", "response"})
         /\ Tail(sendBridge.events) # <<>> => "response" \in Range(Tail(commits))
         /\ Tail(sendBridge.events) \in Seq(SendEvents)
<1>1. commits \in Seq({"request", "response"}) /\ sendBridge.events \in Seq(SendEvents)
  BY Lengths
<1>2. /\ Tail(commits) \in Seq({"request", "response"})
      /\ Head(commits) = commits[1] /\ 1 \in DOMAIN commits
  BY <1>1, TailFacts
<1>3. "response" \in Range(commits)
  BY <1>2 DEF Range
<1>4. sendBridge.events # <<>>
  BY <1>3, EarlyCallbacks
<1>5. Tail(sendBridge.events) \in Seq(SendEvents)
  BY <1>1, <1>4, TailFacts
<1>6. ASSUME Tail(sendBridge.events) # <<>>
      PROVE  "response" \in Range(Tail(commits))
  <2>1. Len(sendBridge.events) \in Nat /\ Len(sendBridge.events) > 1
    <3>1. /\ Len(Tail(sendBridge.events)) = Len(sendBridge.events) - 1
          /\ Len(sendBridge.events) \in Nat
      BY <1>1, <1>4, TailFacts
    <3>2. Len(Tail(sendBridge.events)) \in Nat \ {0}
      BY <1>5, <1>6, TailFacts
    <3>3. \A x, y \in Int : y = x - 1 /\ y \in Nat \ {0} => x > 1
      OBVIOUS
    <3>4. PICK x : x = Len(sendBridge.events)
      OBVIOUS
    <3>5. PICK y : y = Len(Tail(sendBridge.events))
      OBVIOUS
    <3>6. y = x - 1 /\ y \in Nat \ {0} /\ x \in Nat
      BY <3>1, <3>2, <3>4, <3>5
    <3>7. x > 1
      BY <3>3, <3>6
    <3> QED
      BY <3>4, <3>6, <3>7
  <2>2. Cardinality(Occurrences(commits, "response")) = Len(sendBridge.events)
    BY DEF Handshake, Count, Occurrences
  <2>3. Cardinality(Occurrences(commits, "response")) =
          Cardinality(Occurrences(Tail(commits), "response")) + 1
    <3>1. Cardinality(Occurrences(commits, "response")) =
            Cardinality(Occurrences(Tail(commits), "response"))
              + IF Head(commits) = "response" THEN 1 ELSE 0
      BY <1>1, CountTail
    <3> QED
      BY <3>1
  <2>4. Cardinality(Occurrences(Tail(commits), "response")) \in Nat
    BY <1>2, OccurrencesFinite
  <2>5. Cardinality(Occurrences(Tail(commits), "response")) > 0
    BY <2>1, <2>2, <2>3, <2>4
  <2> QED
    BY <1>2, <2>5, CountPositive
<1> QED
  BY <1>2, <1>4, <1>5, <1>6

\* The first event is an answer, as an accept comes before the messages.
LEMMA FirstEvent ==
  ASSUME TypeOK, Core, Handshake, Early, Pipe # <<>>
  PROVE  /\ Head(Pipe) \in SendEvents /\ InThePipe(Head(Pipe))
         /\ Head(Pipe).kind # "message"
<1>1. PICK e : e = Head(Pipe)
  OBVIOUS
<1>2. Pipe \in Seq(SendEvents)
  BY Lengths
<1>3. /\ e = Pipe[1] /\ e \in SendEvents /\ 1 \in DOMAIN Pipe /\ DOMAIN Pipe = 1..Len(Pipe)
  BY <1>1, <1>2, TailFacts
<1>4. Sending /\ Queued(e) /\ InThePipe(e)
  BY <1>3 DEF Core, Sending, Queued
<1>5. ASSUME e.kind = "message" PROVE FALSE
  <2>1. e.n # 0 /\ e.n \in DOMAIN sends
    BY <1>4, <1>5 DEF InThePipe
  <2>2. sends # <<>>
    BY <2>1
  <2>3. PICK a \in SendEvents : Queued(a) /\ a.kind = "accept"
    BY <2>2 DEF Handshake
  <2>4. a.n = 1
    BY <1>4, <2>3 DEF Sending, InThePipe
  <2>5. PICK j \in DOMAIN Pipe : Pipe[j] = a
    BY <2>3 DEF Queued
  <2>6. j # 1 /\ 1 < j
    BY <1>2, <1>3, <1>5, <2>3, <2>5
  <2>7. e.n < 1
    BY <1>3, <1>4, <2>4, <2>5, <2>6 DEF Sending, Increasing
  <2>8. e.n \in Nat
    BY <1>3, BoundsAssumption DEF SendEvents
  <2> QED
    BY <2>1, <2>7, <2>8
<1> QED
  BY <1>1, <1>3, <1>4, <1>5

\* The handshake is answered.
Answers(e) ==
  /\ sendBridge' = Shifted(sendBridge)
  /\ CASE e.kind = "accept"    -> Accept(e)
       [] e.kind = "close"     -> Refuse("forbidden")
       [] e.kind = "exception" -> Refuse("error")
       [] e.kind = "abort"     -> Abort
  /\ UNCHANGED batch
  /\ UNCHANGED <<appVars, recvBridge, clientVars>>

LEMMA AnswerKeeps ==
  ASSUME Shell, Core, commits # <<>>, Head(commits) = "response", batch = <<>>,
         state = "handshake", level = 0, Answers(Head(sendBridge.events))
  PROVE  Shell' /\ Core'
<1>1. TypeOK /\ Stages /\ Handshake /\ Closing /\ OnWire /\ NobodyWaitsInVain
  BY DEF Shell
<1>2. /\ Early /\ ~recvBridge.closed /\ ~sendBridge.closed /\ inbound = <<>> /\ written = <<>>
      /\ ~closeFrame /\ connection # "gone" /\ (connection = "open" => arrived = 0)
      /\ recvBridge.closed \in BOOLEAN /\ connection \in {"open", "closing", "gone"}
  <2>1. recvBridge.closed \in BOOLEAN /\ connection \in {"open", "closing", "gone"}
    BY <1>1, Lengths DEF TypeOK
  <2>2. Early
    BY DEF Early
  <2>3. ~recvBridge.closed /\ ~sendBridge.closed /\ connection # "gone"
    BY <1>1 DEF Stages
  <2>4. /\ inbound = <<>> /\ written = <<>> /\ ~closeFrame
        /\ connection = "open" => arrived = 0
    BY <1>1, <2>2 DEF Handshake
  <2> QED
    BY <2>1, <2>2, <2>3, <2>4
<1>3. /\ app' = app /\ sendState' = sendState /\ receives' = receives /\ sends' = sends
      /\ recvBridge' = recvBridge /\ inbound' = inbound /\ arrived' = arrived
      /\ clientEnded' = clientEnded /\ batch' = batch
  BY DEF Answers, appVars, clientVars
<1>4. /\ sendBridge.events # <<>> /\ Tail(commits) \in Seq({"request", "response"})
      /\ Tail(sendBridge.events) # <<>> => "response" \in Range(Tail(commits))
      /\ Tail(sendBridge.events) \in Seq(SendEvents)
  BY <1>1, <1>2, ResponseLeft
<1>5. /\ sendBridge' = [closed |-> FALSE, events |-> Tail(sendBridge.events)]
      /\ sendBridge'.closed = FALSE /\ sendBridge'.events = Tail(sendBridge.events)
  <2>1. sendBridge = [closed |-> sendBridge.closed, events |-> sendBridge.events]
        /\ sendBridge.closed \in BOOLEAN
    BY <1>1, Lengths
  <2> QED
    BY <1>2, <1>4, <2>1 DEF Answers, Shifted
<1>6. sendBridge' \in Bridges(SendEvents)
  BY <1>4, <1>5 DEF Bridges
<1>7. Pipe = sendBridge.events /\ Pipe # <<>> /\ Pipe' = Tail(Pipe)
  BY <1>3, <1>4, <1>5 DEF Pipe
<1>8. PICK e : e = Head(Pipe)
  OBVIOUS
<1>9. e \in SendEvents /\ InThePipe(e) /\ e.kind # "message" /\ Sending
  BY <1>1, <1>2, <1>7, <1>8, FirstEvent DEF Core
<1>10. arrived \in 0..MaxMessages /\ commits \in Seq({"request", "response"})
  BY <1>1, Lengths
<1>11. CASE e.kind = "accept"
  <2>1. Accept(e) /\ e.n = 1
    BY <1>7, <1>8, <1>9, <1>11 DEF Answers, InThePipe
  <2>2. PICK f : f = Frame("switching", e.n)
    OBVIOUS
  <2>3. f \in Frames /\ f.kind = "switching" /\ f.n = 1
    BY <1>9, <2>1, <2>2 DEF Frame, Frames, SendEvents
  <2>4. /\ state' = "accepted" /\ websocket' = "active" /\ Write(f)
        /\ commits' = Append(Tail(commits), "request")
        /\ loop' = Append(loop, Task("sent", e.n, 0))
        /\ closeFrame' = closeFrame /\ connection' = connection
    BY <2>1, <2>2 DEF Accept
  <2>5. /\ written' = Append(written, f) /\ level' \in 0..1 /\ raises' \in 0..MaxRaises
    BY <1>1, <2>4, WriteFacts
  <2>6. /\ OnWire' /\ written' \in Seq(Frames)
        /\ written' # <<>> /\ written'[1] = f /\ DOMAIN written' = {1}
    BY <1>1, <1>2, <2>3, <2>5, WireBegun
  <2>7. Core'
    <3>1. \A k \in 1..MaxSends : IsWritten(k)' <=> IsWritten(k) \/ (k = e.n /\ "sent" = "sent")
      <4>1. \A k \in 0..MaxSends : IsWritten(k)' <=> IsWritten(k) \/ k = f.n
        BY <1>1, <2>3, <2>5, WrittenAppended
      <4>2. \A k \in 1..MaxSends : k \in 0..MaxSends
        BY BoundsAssumption
      <4> QED
        BY <2>1, <2>3, <4>1, <4>2
    <3>2. Still
      BY <1>3, <2>4 DEF Still, SendStateKept, Onward, Early
    <3>3. Flowing' => Flowing \/ arrived = 0
      BY <1>2, <2>4 DEF Flowing
    <3>4. loop' = IF e.n = 0 THEN loop ELSE Append(loop, Task("sent", e.n, 0))
      BY <2>1, <2>4
    <3> QED
      BY <1>1, <1>3, <1>7, <1>8, <3>1, <3>2, <3>3, <3>4, CoreAdvanced
  <2>8. /\ commits' \in Seq({"request", "response"}) /\ "request" \in Range(commits')
        /\ \A c \in Range(Tail(commits)) : c \in Range(commits')
    <3>1. PICK t : t = Tail(commits)
      OBVIOUS
    <3>2. /\ commits' \in Seq({"request", "response"}) /\ DOMAIN commits' = 1..(Len(t) + 1)
          /\ \A k \in 1..Len(t) : commits'[k] = t[k]
          /\ commits'[Len(t) + 1] = "request"
          /\ Len(t) \in Nat /\ DOMAIN t = 1..Len(t)
      BY <1>4, <2>4, <3>1, AppendFacts
    <3>3. Len(t) + 1 \in DOMAIN commits' /\ \A k \in DOMAIN t : k \in DOMAIN commits'
      BY <3>2
    <3> QED
      BY <3>1, <3>2, <3>3 DEF Range
  <2>9. TypeOK'
    <3>1. /\ written' \in Seq([kind : {"switching", "forbidden", "error", "message", "close"},
                                n : 0..MaxSends])
          /\ loop' \in Seq(LoopTasks)
      BY <2>6, <2>7 DEF Frames, Core
    <3> QED
      BY <1>1, <1>3, <1>6, <2>4, <2>5, <2>8, <3>1 DEF TypeOK
  <2>10. Stages' /\ Handshake' /\ Closing'
    <3>1. Stages'
      BY <1>1, <1>2, <1>3, <1>5, <2>4 DEF Stages
    <3>2. Handshake'
      BY <2>4 DEF Handshake, Early
    <3>3. Closing'
      BY <1>2, <2>3, <2>4, <2>6 DEF Closing
    <3> QED
      BY <3>1, <3>2, <3>3
  <2>11. NobodyWaitsInVain'
    BY <1>4, <1>5, <2>4, <2>8 DEF NobodyWaitsInVain
  <2> QED
    BY <2>6, <2>7, <2>9, <2>10, <2>11 DEF Shell
<1>12. ASSUME state' = "done", commits' = Tail(commits), loop' = loop, websocket' = websocket,
              connection' \in {connection, "closing"}, closeFrame' \in BOOLEAN,
              level' \in 0..1, raises' \in 0..MaxRaises, OnWire', written' \in Seq(Frames),
              \A k \in 1..MaxSends : IsWritten(k)' <=> IsWritten(k), e.kind # "accept"
       PROVE  Shell' /\ Core'
  <2>1. e.n = 0
    BY <1>9, <1>12 DEF InThePipe
  <2>2. Core'
    <3>1. Still /\ ~Flowing'
      BY <1>3, <1>12 DEF Still, SendStateKept, Onward, Early, Flowing
    <3>2. \A k \in 1..MaxSends : IsWritten(k)' <=> IsWritten(k) \/ (k = e.n /\ "refused" = "sent")
      BY <1>12
    <3>3. loop' = IF e.n = 0 THEN loop ELSE Append(loop, Task("refused", e.n, 0))
      BY <1>12, <2>1
    <3> QED
      BY <1>1, <1>3, <1>7, <1>8, <3>1, <3>2, <3>3, CoreAdvanced
  <2>3. TypeOK'
    <3>1. /\ written' \in Seq([kind : {"switching", "forbidden", "error", "message", "close"},
                                n : 0..MaxSends])
          /\ loop' \in Seq(LoopTasks) /\ connection' \in {"open", "closing", "gone"}
      BY <1>2, <1>12, <2>2 DEF Frames, Core
    <3> QED
      BY <1>1, <1>3, <1>4, <1>6, <1>12, <3>1 DEF TypeOK
  <2>4. Stages'
    BY <1>1, <1>2, <1>3, <1>5, <1>12 DEF Stages
  <2>5. Handshake' /\ Closing'
    BY <1>12 DEF Handshake, Closing, Early
  <2>6. NobodyWaitsInVain'
    BY <1>4, <1>5, <1>12 DEF NobodyWaitsInVain
  <2> QED
    BY <1>12, <2>2, <2>3, <2>4, <2>5, <2>6 DEF Shell
<1>13. ASSUME NEW answer \in {"forbidden", "error"}, Refuse(answer), e.kind # "accept"
       PROVE  Shell' /\ Core'
  <2>1. PICK f : f = Frame(answer, 0)
    OBVIOUS
  <2>2. f \in Frames /\ f.kind = answer /\ f.n = 0
    BY <2>1, BoundsAssumption DEF Frame, Frames
  <2>3. /\ state' = "done" /\ Write(f) /\ closeFrame' = TRUE /\ commits' = Tail(commits)
        /\ websocket' = websocket /\ loop' = loop /\ connection' = connection
    BY <1>13, <2>1 DEF Refuse
  <2>4. written' = Append(written, f) /\ level' \in 0..1 /\ raises' \in 0..MaxRaises
    BY <1>1, <2>3, WriteFacts
  <2>5. OnWire' /\ written' \in Seq(Frames)
    BY <1>1, <1>2, <2>2, <2>4, WireBegun
  <2>6. \A k \in 1..MaxSends : IsWritten(k)' <=> IsWritten(k)
    <3>1. \A k \in 0..MaxSends : IsWritten(k)' <=> IsWritten(k) \/ k = f.n
      BY <1>1, <2>2, <2>4, WrittenAppended
    <3>2. \A k \in 1..MaxSends : k \in 0..MaxSends /\ k # 0
      BY BoundsAssumption
    <3> QED
      BY <2>2, <3>1, <3>2
  <2> QED
    BY <1>12, <1>13, <2>3, <2>4, <2>5, <2>6
<1>14. CASE e.kind = "close"
  <2>1. Refuse("forbidden")
    BY <1>7, <1>8, <1>14 DEF Answers
  <2> QED
    BY <1>13, <1>14, <2>1
<1>15. CASE e.kind = "exception"
  <2>1. Refuse("error")
    BY <1>7, <1>8, <1>15 DEF Answers
  <2> QED
    BY <1>13, <1>15, <2>1
<1>16. CASE e.kind = "abort"
  <2>1. Abort
    BY <1>7, <1>8, <1>16 DEF Answers
  <2>2. /\ state' = "done" /\ connection' = "closing" /\ commits' = Tail(commits)
        /\ written' = written /\ level' = level /\ raises' = raises
        /\ websocket' = websocket /\ closeFrame' = closeFrame /\ loop' = loop
    BY <2>1 DEF Abort, WriteNothing
  <2>3. /\ level' \in 0..1 /\ raises' \in 0..MaxRaises /\ closeFrame' \in BOOLEAN
        /\ OnWire' /\ written' \in Seq(Frames)
    <3>1. level \in 0..1 /\ raises \in 0..MaxRaises /\ closeFrame \in BOOLEAN
      BY <1>1 DEF TypeOK
    <3>2. written \in Seq(Frames)
      BY <1>1, Lengths
    <3> QED
      BY <1>1, <2>2, <3>1, <3>2 DEF OnWire
  <2>4. \A k \in 1..MaxSends : IsWritten(k)' <=> IsWritten(k)
    BY <2>2 DEF IsWritten
  <2> QED
    BY <1>12, <1>16, <2>2, <2>3, <2>4
<1>17. e.kind \in {"accept", "message", "close", "exception", "abort"}
  BY <1>9 DEF SendEvents
<1> QED
  BY <1>9, <1>11, <1>14, <1>15, <1>16, <1>17

\* The send bridge is drained, unless the client is slow.
LEMMA OnScheduledResponseKeeps ==
  ASSUME Shell, Core, OnScheduledResponse
  PROVE  Shell' /\ Core'
<1>1. TypeOK /\ Stages /\ Handshake /\ Closing /\ OnWire /\ NobodyWaitsInVain
  BY DEF Shell
<1>2. /\ commits # <<>> /\ Head(commits) = "response" /\ batch = <<>>
      /\ UNCHANGED <<appVars, recvBridge, clientVars>>
  BY DEF OnScheduledResponse
<1>3. CASE level = 0 /\ state = "handshake"
  <2>1. Answers(Head(sendBridge.events))
    BY <1>3 DEF OnScheduledResponse, Answers
  <2> QED
    BY <1>2, <1>3, <2>1, AnswerKeeps
<1>4. CASE ~(level = 0 /\ state = "handshake")
  <2>1. /\ commits' = Tail(commits)
        /\ batch' = IF level = 0 THEN sendBridge.events ELSE <<>>
        /\ sendBridge' = IF level = 0 THEN Drained(sendBridge) ELSE sendBridge
        /\ written' = written /\ level' = level /\ raises' = raises
        /\ state' = state /\ websocket' = websocket /\ closeFrame' = closeFrame
        /\ loop' = loop /\ connection' = connection
        /\ app' = app /\ sendState' = sendState /\ receives' = receives /\ sends' = sends
        /\ recvBridge' = recvBridge /\ inbound' = inbound /\ arrived' = arrived
        /\ clientEnded' = clientEnded
    BY <1>2, <1>4 DEF OnScheduledResponse, WriteNothing, appVars, clientVars
  <2>2. /\ level \in 0..1 /\ commits \in Seq({"request", "response"})
        /\ state \in {"handshake", "accepted", "done"}
        /\ sendBridge = [closed |-> sendBridge.closed, events |-> sendBridge.events]
        /\ sendBridge.events \in Seq(SendEvents) /\ sendBridge.closed \in BOOLEAN
        /\ arrived \in 0..MaxMessages
    <3>1. level \in 0..1
      BY <1>1 DEF TypeOK
    <3> QED
      BY <1>1, <1>2, <3>1, Lengths DEF Stages
  <2>3. state \in {"accepted", "done"} /\ ~Early /\ ~Early'
    <3>1. level = 0 \/ level = 1
      BY <2>2
    <3> QED
      BY <1>1, <1>4, <2>1, <2>2, <3>1 DEF Stages, Early
  <2>4. /\ sendBridge' \in Bridges(SendEvents) /\ sendBridge'.closed = sendBridge.closed
        /\ batch' \in Seq(SendEvents) /\ Pipe' = Pipe
        /\ batch' # <<>> => sendBridge'.events = <<>>
        /\ level = 0 => sendBridge'.events = <<>>
        /\ level # 0 => sendBridge' = sendBridge /\ batch' = <<>>
    <3>1. CASE level = 0
      <4>1. /\ sendBridge' = [closed |-> sendBridge.closed, events |-> <<>>]
            /\ sendBridge'.closed = sendBridge.closed /\ sendBridge'.events = <<>>
            /\ batch' = sendBridge.events
        BY <2>1, <2>2, <3>1 DEF Drained
      <4>2. <<>> \in Seq(SendEvents)
        OBVIOUS
      <4>3. sendBridge' \in Bridges(SendEvents)
        BY <2>2, <4>1, <4>2 DEF Bridges
      <4>4. Pipe' = Pipe
        BY <1>2, <4>1 DEF Pipe
      <4> QED
        BY <2>2, <3>1, <4>1, <4>3, <4>4
    <3>2. CASE level # 0
      <4>1. sendBridge' = sendBridge /\ batch' = <<>> /\ batch' = batch
        BY <1>2, <2>1, <3>2
      <4>2. sendBridge \in Bridges(SendEvents)
        BY <1>1 DEF TypeOK
      <4> QED
        BY <1>2, <3>2, <4>1, <4>2 DEF Pipe
    <3> QED
      BY <3>1, <3>2
  <2>5. Core'
    <3>1. Still /\ (Flowing' => Flowing)
      BY <2>1, <2>3 DEF Still, SendStateKept, Onward, Flowing
    <3>2. \A k \in 1..MaxSends : IsWritten(k)' <=> IsWritten(k)
      BY <2>1 DEF IsWritten
    <3>3. arrived' \in arrived..MaxMessages /\ arrived' = arrived
      BY <2>1, <2>2, BoundsAssumption
    <3> QED
      BY <1>1, <2>1, <2>4, <3>1, <3>2, <3>3, CoreQuiet
  <2>6. /\ commits' \in Seq({"request", "response"})
        /\ "request" \in Range(commits) => "request" \in Range(commits')
    BY <1>1, <1>2, <2>1, CommitsTaken
  <2>7. TypeOK'
    BY <1>1, <2>1, <2>4, <2>6 DEF TypeOK
  <2>8. Stages'
    BY <1>1, <1>2, <2>1, <2>3, <2>4 DEF Stages
  <2>9. Handshake' /\ Closing' /\ OnWire'
    BY <1>1, <2>1, <2>3 DEF Handshake, Closing, OnWire
  <2>10. NobodyWaitsInVain'
    BY <1>1, <2>1, <2>3, <2>4, <2>6 DEF NobodyWaitsInVain
  <2> QED
    BY <2>5, <2>7, <2>8, <2>9, <2>10 DEF Shell
<1> QED
  BY <1>3, <1>4

-----------------------------------------------------------------------------
(* Envoy's thread: what the application sends in a connection.             *)

\* What is common to the events.
Handles(e, res) ==
  /\ batch # <<>> /\ batch' = Tail(batch) /\ e = Head(batch)
  /\ res \in {"sent", "refused"}
  /\ loop' = IF e.n = 0 THEN loop ELSE Append(loop, Task(res, e.n, 0))
  /\ \A k \in 1..MaxSends : IsWritten(k)' <=> IsWritten(k) \/ (k = e.n /\ res = "sent")
  /\ OnWire' /\ written' \in Seq(Frames)
  /\ connection' \in {connection, "closing"} /\ closeFrame' \in {closeFrame, TRUE}
  /\ websocket' \in {"none", "active", "closedByUs", "terminated"}
  /\ level' \in 0..1 /\ (level' = 0 => level = 0) /\ raises' \in 0..MaxRaises
  /\ Closing'
  /\ UNCHANGED <<appVars, bridgeVars, commits, state, clientVars>>

LEMMA HandlesKeeps ==
  ASSUME Shell, Core, NEW e, NEW res, Handles(e, res)
  PROVE  Shell' /\ Core'
<1> USE DEF Handles
<1>1. TypeOK /\ Stages /\ Handshake /\ Closing /\ OnWire /\ NobodyWaitsInVain
  BY DEF Shell
<1>2. /\ app' = app /\ sendState' = sendState /\ receives' = receives /\ sends' = sends
      /\ recvBridge' = recvBridge /\ sendBridge' = sendBridge /\ commits' = commits
      /\ state' = state /\ inbound' = inbound /\ arrived' = arrived
      /\ clientEnded' = clientEnded
  BY DEF appVars, bridgeVars, clientVars
<1>3. state \in {"accepted", "done"} /\ sendBridge.events = <<>> /\ ~Early /\ ~Early'
  BY <1>1, <1>2 DEF Stages, Early
<1>4. Pipe = batch /\ Pipe' = Tail(Pipe)
  BY <1>2, <1>3 DEF Pipe
<1>5. connection \in {"open", "closing", "gone"} /\ closeFrame \in BOOLEAN
      /\ batch \in Seq(SendEvents)
  BY <1>1 DEF TypeOK
<1>6. connection # "gone"
  BY <1>1, <1>3 DEF Stages
<1>7. Core'
  <2>1. Still /\ (Flowing' => Flowing)
    BY <1>2, <1>3, <1>5 DEF Still, SendStateKept, Onward, Flowing
  <2> QED
    BY <1>1, <1>2, <1>4, <2>1, CoreAdvanced
<1>8. TypeOK'
  <2>1. /\ written' \in Seq([kind : {"switching", "forbidden", "error", "message", "close"},
                              n : 0..MaxSends])
        /\ loop' \in Seq(LoopTasks) /\ connection' \in {"open", "closing", "gone"}
        /\ closeFrame' \in BOOLEAN
    BY <1>5, <1>7 DEF Frames, Core
  <2>2. batch' \in Seq(SendEvents)
    BY <1>5, TailFacts
  <2> QED
    BY <1>1, <1>2, <2>1, <2>2 DEF TypeOK
<1>9. Stages'
  BY <1>1, <1>2, <1>3, <1>5, <1>6 DEF Stages
<1>10. Handshake'
  BY <1>3 DEF Handshake
<1>11. NobodyWaitsInVain'
  BY <1>1, <1>2, <1>3 DEF NobodyWaitsInVain
<1> QED
  BY <1>7, <1>8, <1>9, <1>10, <1>11 DEF Shell

\* There is no accept after the handshake.
LEMMA AfterHandshake ==
  ASSUME TypeOK, Closing, Sending, state = "accepted", NEW e \in SendEvents, Queued(e),
         e.kind = "accept"
  PROVE  FALSE
<1>1. e.n = 1 /\ e.n \in DOMAIN sends
  BY DEF Sending, InThePipe
<1>2. IsWritten(1)
  <2>1. written # <<>> /\ written[1].n = 1
    BY DEF Closing
  <2>2. written \in Seq(Frames)
    BY Lengths
  <2>3. 1 \in DOMAIN written
    BY <2>1, <2>2, TailFacts
  <2> QED
    BY <2>1, <2>3 DEF IsWritten
<1>3. 1 \in 1..MaxSends
  <2>1. DOMAIN sends = 1..Len(sends) /\ Len(sends) \in 0..MaxSends
    BY Lengths
  <2> QED
    BY <1>1, <2>1, BoundsAssumption
<1>4. 1 < e.n
  BY <1>1, <1>2, <1>3 DEF Sending
<1> QED
  BY <1>1, <1>4

LEMMA NextEvent ==
  ASSUME TypeOK, Stages, Closing, Sending, batch # <<>>
  PROVE  /\ Head(batch) \in SendEvents /\ InThePipe(Head(batch)) /\ Queued(Head(batch))
         /\ state = "accepted" => Head(batch).kind # "accept"
<1>1. PICK e : e = Head(batch)
  OBVIOUS
<1>2. batch \in Seq(SendEvents) /\ Pipe = batch
  BY DEF TypeOK, Pipe
<1>3. /\ e = batch[1] /\ e \in SendEvents /\ 1 \in DOMAIN batch
  BY <1>1, <1>2, TailFacts
<1>4. Queued(e) /\ InThePipe(e)
  BY <1>2, <1>3 DEF Sending, Queued
<1>5. state = "accepted" => e.kind # "accept"
  BY <1>3, <1>4, AfterHandshake
<1> QED
  BY <1>1, <1>3, <1>4, <1>5

LEMMA HandleEventKeeps ==
  ASSUME Shell, Core, HandleEvent
  PROVE  Shell' /\ Core'
<1>1. TypeOK /\ Stages /\ Closing /\ OnWire /\ Sending
  BY DEF Shell, Core
<1>2. PICK e : e = Head(batch)
  OBVIOUS
<1>3. /\ batch # <<>> /\ batch' = Tail(batch)
      /\ UNCHANGED <<appVars, bridgeVars, commits, state, clientVars>>
  BY DEF HandleEvent
<1>4. /\ e \in SendEvents /\ InThePipe(e) /\ Queued(e)
      /\ state = "accepted" => e.kind # "accept"
  BY <1>1, <1>2, <1>3, NextEvent
<1>5. /\ state \in {"accepted", "done"} /\ state' = state
      /\ level \in 0..1 /\ raises \in 0..MaxRaises
      /\ closeFrame \in BOOLEAN /\ written \in Seq(Frames)
      /\ websocket \in {"none", "active", "closedByUs", "terminated"}
  <2>1. /\ level \in 0..1 /\ raises \in 0..MaxRaises /\ closeFrame \in BOOLEAN
        /\ websocket \in {"none", "active", "closedByUs", "terminated"}
    BY <1>1 DEF TypeOK
  <2> QED
    BY <1>1, <1>3, <2>1, Lengths DEF Stages
<1>6. ASSUME WriteNothing
      PROVE  /\ written' = written /\ OnWire' /\ written' \in Seq(Frames)
             /\ level' \in 0..1 /\ (level' = 0 => level = 0) /\ raises' \in 0..MaxRaises
             /\ \A k : IsWritten(k)' <=> IsWritten(k)
  BY <1>1, <1>5, <1>6 DEF WriteNothing, OnWire, IsWritten
<1>7. \/ state = "done" /\ HandleDropped(e)
      \/ state = "accepted" /\ e.kind = "message" /\ HandleMessage(e)
      \/ state = "accepted" /\ e.kind = "abort" /\ HandleAbort
      \/ state = "accepted" /\ e.kind \in {"close", "exception"} /\ HandleClose
  <2>1. e.kind \in {"accept", "message", "close", "exception", "abort"}
    BY <1>4 DEF SendEvents
  <2>2. state = "done" \/ state = "accepted"
    BY <1>5
  <2>3. state = "done" => HandleDropped(e)
    BY <1>2 DEF HandleEvent
  <2>4. state = "accepted" /\ e.kind = "message" => HandleMessage(e)
    BY <1>2 DEF HandleEvent
  <2>5. state = "accepted" /\ e.kind = "abort" => HandleAbort
    BY <1>2 DEF HandleEvent
  <2>6. state = "accepted" /\ e.kind \in {"close", "exception"} => HandleClose
    BY <1>2 DEF HandleEvent
  <2> QED
    BY <1>4, <2>1, <2>2, <2>3, <2>4, <2>5, <2>6
<1>8. CASE state = "done" /\ HandleDropped(e)
  <2>1. /\ loop' = IF e.n = 0 THEN loop ELSE Append(loop, Task("refused", e.n, 0))
        /\ WriteNothing /\ UNCHANGED <<websocket, closeFrame, connection>>
    BY <1>8 DEF HandleDropped
  <2>2. Closing'
    BY <1>5, <1>8 DEF Closing
  <2>3. Handles(e, "refused")
    BY <1>2, <1>3, <1>5, <1>6, <2>1, <2>2 DEF Handles
  <2> QED
    BY <2>3, HandlesKeeps
<1>9. CASE state = "accepted" /\ e.kind = "message" /\ HandleMessage(e)
  <2>1. e.n # 0 /\ e.n \in 1..MaxSends
    <3>1. e.n # 0 /\ e.n \in 0..MaxSends
      BY <1>4, <1>9 DEF InThePipe, SendEvents
    <3> QED
      BY <3>1, BoundsAssumption
  <2>2. CASE closeFrame
    <3>1. /\ loop' = Append(loop, Task("refused", e.n, 0)) /\ WriteNothing
          /\ UNCHANGED <<websocket, closeFrame, connection>>
      BY <1>9, <2>2 DEF HandleMessage
    <3>2. Closing'
      BY <1>1, <1>5, <1>6, <3>1 DEF Closing
    <3>3. Handles(e, "refused")
      BY <1>2, <1>3, <1>5, <1>6, <2>1, <3>1, <3>2 DEF Handles
    <3> QED
      BY <3>3, HandlesKeeps
  <2>3. CASE ~closeFrame
    <3>1. /\ loop' = Append(loop, Task("sent", e.n, 0)) /\ Write(e)
          /\ UNCHANGED <<websocket, closeFrame, connection>>
      BY <1>9, <2>3 DEF HandleMessage
    <3>2. e \in Frames
      <4>1. e \in [kind : {"message"}, n : 0..MaxSends]
        BY <1>4, <1>9 DEF SendEvents
      <4> QED
        BY <4>1 DEF Frames
    <3>3. /\ written' = Append(written, e) /\ level' \in 0..1 /\ raises' \in 0..MaxRaises
          /\ level' = 0 => level = 0
      BY <1>1, <3>1, WriteFacts
    <3>4. /\ websocket = "active" /\ written # <<>> /\ written[1].n = 1
          /\ \A i \in DOMAIN written : written[i].kind \in {"switching", "message"}
      BY <1>1, <1>9, <2>3 DEF Closing
    <3>5. ASSUME NEW i \in DOMAIN written PROVE written[i].n < e.n
      <4>1. PICK k : k = written[i].n
        OBVIOUS
      <4>2. k \in 0..MaxSends
        <5>1. written[i] \in Frames
          BY <1>1, <3>5, Lengths
        <5> QED
          BY <4>1, <5>1 DEF Frames
      <4>3. CASE k = 0
        BY <2>1, <4>1, <4>3, BoundsAssumption
      <4>4. CASE k # 0
        <5>1. IsWritten(k) /\ k \in 1..MaxSends
          BY <3>5, <4>1, <4>2, <4>4, BoundsAssumption DEF IsWritten
        <5> QED
          BY <1>1, <1>4, <2>1, <4>1, <5>1 DEF Sending
      <4> QED
        BY <4>3, <4>4
    <3>6. /\ OnWire' /\ written' \in Seq(Frames)
          /\ written' # <<>> /\ written'[1] = written[1]
          /\ \A i \in DOMAIN written' : written'[i].kind \in {"switching", "message"}
      BY <1>1, <1>9, <3>2, <3>3, <3>4, <3>5, WireExtended
    <3>7. \A k \in 1..MaxSends : IsWritten(k)' <=> IsWritten(k) \/ (k = e.n /\ "sent" = "sent")
      <4>1. \A k \in 0..MaxSends : IsWritten(k)' <=> IsWritten(k) \/ k = e.n
        BY <1>1, <3>2, <3>3, WrittenAppended
      <4>2. \A k \in 1..MaxSends : k \in 0..MaxSends
        BY BoundsAssumption
      <4> QED
        BY <4>1, <4>2
    <3>8. Closing'
      BY <1>1, <1>5, <3>1, <3>4, <3>6 DEF Closing
    <3>9. Handles(e, "sent")
      BY <1>2, <1>3, <1>5, <2>1, <3>1, <3>3, <3>6, <3>7, <3>8 DEF Handles
    <3> QED
      BY <3>9, HandlesKeeps
  <2> QED
    BY <2>2, <2>3
<1>10. CASE state = "accepted" /\ e.kind = "abort" /\ HandleAbort
  <2>1. /\ connection' = (IF closeFrame THEN connection ELSE "closing")
        /\ WriteNothing /\ UNCHANGED <<loop, websocket, closeFrame>>
    BY <1>10 DEF HandleAbort
  <2>2. Closing'
    BY <1>1, <1>5, <1>6, <2>1 DEF Closing
  <2>3. e.n = 0
    BY <1>4, <1>10 DEF InThePipe
  <2>4. Handles(e, "refused")
    BY <1>2, <1>3, <1>5, <1>6, <2>1, <2>2, <2>3 DEF Handles
  <2> QED
    BY <2>4, HandlesKeeps
<1>11. CASE state = "accepted" /\ e.kind \in {"close", "exception"} /\ HandleClose
  <2>1. e.n = 0
    BY <1>4, <1>11 DEF InThePipe
  <2>2. CASE websocket = "active"
    <3>1. PICK f : f = Frame("close", 0)
      OBVIOUS
    <3>2. f \in Frames /\ f.kind = "close" /\ f.n = 0
      BY <3>1, BoundsAssumption DEF Frame, Frames
    <3>3. /\ closeFrame' = TRUE /\ Write(f) /\ websocket' = "closedByUs"
          /\ loop' = loop /\ connection' = connection
      BY <1>11, <2>2, <3>1 DEF HandleClose
    <3>4. /\ written' = Append(written, f) /\ level' \in 0..1 /\ raises' \in 0..MaxRaises
          /\ level' = 0 => level = 0
      BY <1>1, <3>3, WriteFacts
    <3>5. /\ written # <<>> /\ written[1].n = 1
          /\ \A i \in DOMAIN written : written[i].kind \in {"switching", "message"}
      BY <1>1, <1>11, <2>2 DEF Closing
    <3>6. /\ OnWire' /\ written' \in Seq(Frames)
          /\ written' # <<>> /\ written'[1] = written[1]
      BY <1>1, <3>2, <3>4, <3>5, WireExtended
    <3>7. \A k \in 1..MaxSends : IsWritten(k)' <=> IsWritten(k)
      <4>1. \A k \in 0..MaxSends : IsWritten(k)' <=> IsWritten(k) \/ k = f.n
        BY <1>1, <3>2, <3>4, WrittenAppended
      <4>2. \A k \in 1..MaxSends : k \in 0..MaxSends /\ k # 0
        BY BoundsAssumption
      <4> QED
        BY <3>2, <4>1, <4>2
    <3>8. Closing'
      BY <3>3, <3>5, <3>6 DEF Closing
    <3>9. Handles(e, "refused")
      BY <1>2, <1>3, <1>5, <2>1, <3>3, <3>4, <3>6, <3>7, <3>8 DEF Handles
    <3> QED
      BY <3>9, HandlesKeeps
  <2>3. CASE websocket # "active"
    <3>1. /\ closeFrame' = TRUE /\ WriteNothing /\ websocket' = websocket
          /\ loop' = loop /\ connection' = connection
      BY <1>11, <2>3 DEF HandleClose
    <3>2. Closing'
      BY <1>1, <1>5, <1>6, <2>3, <3>1 DEF Closing
    <3>3. Handles(e, "refused")
      BY <1>2, <1>3, <1>5, <1>6, <2>1, <3>1, <3>2 DEF Handles
    <3> QED
      BY <3>3, HandlesKeeps
  <2> QED
    BY <2>2, <2>3
<1> QED
  BY <1>7, <1>8, <1>9, <1>10, <1>11

-----------------------------------------------------------------------------
(* Envoy's thread: the rest.                                               *)

LEMMA BelowWatermarkKeeps ==
  ASSUME Shell, Core, BelowWatermark
  PROVE  Shell' /\ Core'
<1>1. TypeOK /\ Stages /\ Handshake /\ Closing /\ OnWire /\ NobodyWaitsInVain
  BY DEF Shell
<1>2. /\ level = 1 /\ level' = 0 /\ commits' = Append(commits, "response")
      /\ app' = app /\ sendState' = sendState /\ receives' = receives /\ sends' = sends
      /\ recvBridge' = recvBridge /\ sendBridge' = sendBridge /\ loop' = loop
      /\ state' = state /\ websocket' = websocket /\ closeFrame' = closeFrame
      /\ batch' = batch /\ connection' = connection /\ inbound' = inbound
      /\ arrived' = arrived /\ clientEnded' = clientEnded /\ written' = written
      /\ raises' = raises
  BY DEF BelowWatermark, appVars, bridgeVars, clientVars
<1>3. state \in {"accepted", "done"} /\ ~Early /\ ~Early'
  BY <1>1, <1>2 DEF Stages, Early
<1>4. /\ commits' \in Seq({"request", "response"}) /\ commits' # <<>>
      /\ "response" \in Range(commits')
      /\ \A kind \in Range(commits) : kind \in Range(commits')
  BY <1>1, <1>2, CommitsAppended
<1>5. Core'
  <2>1. Still /\ Pipe' = Pipe /\ (Flowing' => Flowing)
    BY <1>2, <1>3 DEF Still, SendStateKept, Onward, Pipe, Flowing
  <2>2. \A k \in 1..MaxSends : IsWritten(k)' <=> IsWritten(k)
    BY <1>2 DEF IsWritten
  <2>3. arrived' \in arrived..MaxMessages /\ arrived' = arrived
    <3>1. arrived \in 0..MaxMessages
      BY <1>1, Lengths
    <3> QED
      BY <1>2, <3>1, BoundsAssumption
  <2> QED
    BY <1>1, <1>2, <2>1, <2>2, <2>3, CoreQuiet
<1>6. TypeOK'
  <2>1. level' \in 0..1
    BY <1>2
  <2> QED
    BY <1>1, <1>2, <1>4, <2>1 DEF TypeOK
<1>7. Stages'
  BY <1>1, <1>2, <1>3 DEF Stages
<1>8. Handshake' /\ Closing' /\ OnWire'
  BY <1>1, <1>2, <1>3 DEF Handshake, Closing, OnWire
<1>9. NobodyWaitsInVain'
  BY <1>1, <1>2, <1>3, <1>4 DEF NobodyWaitsInVain
<1> QED
  BY <1>5, <1>6, <1>7, <1>8, <1>9 DEF Shell

LEMMA OnDestroyKeeps ==
  ASSUME Shell, Core, OnDestroy
  PROVE  Shell' /\ Core'
<1>1. TypeOK /\ Stages /\ OnWire
  BY DEF Shell
<1>2. /\ connection' = "gone" /\ state' = "destroyed" /\ commits' = <<>>
      /\ websocket' = "none" /\ closeFrame' = FALSE /\ level' = 0
      /\ inbound' = <<>> /\ clientEnded' = TRUE
      /\ app' = app /\ sendState' = sendState /\ receives' = receives /\ sends' = sends
      /\ batch = <<>> /\ batch' = batch /\ arrived' = arrived /\ written' = written
      /\ raises' = raises
  BY DEF OnDestroy, appVars
<1>3. Core' /\ recvBridge' = ClosedBridge /\ sendBridge' = ClosedBridge
  BY <1>1, CoreDestroy
<1>4. /\ recvBridge'.closed /\ sendBridge'.closed
      /\ recvBridge'.events = <<>> /\ sendBridge'.events = <<>>
      /\ recvBridge' \in Bridges(1..MaxReceives) /\ sendBridge' \in Bridges(SendEvents)
  BY <1>3, ClosedFacts
<1>5. TypeOK'
  <2>1. /\ commits' \in Seq({"request", "response"}) /\ level' \in 0..1
        /\ inbound' \in Seq([kind : {"message", "close", "bad"}, n : 0..MaxMessages])
        /\ loop' \in Seq(LoopTasks)
    BY <1>2, <1>3 DEF Core
  <2> QED
    BY <1>1, <1>2, <1>4, <2>1 DEF TypeOK
<1>6. Stages'
  BY <1>2, <1>4 DEF Stages
<1>7. Handshake' /\ Closing' /\ OnWire'
  BY <1>1, <1>2 DEF Handshake, Early, Closing, OnWire
<1>8. NobodyWaitsInVain'
  BY <1>2, <1>4 DEF NobodyWaitsInVain
<1> QED
  BY <1>3, <1>5, <1>6, <1>7, <1>8 DEF Shell

LEMMA StutterKeeps ==
  ASSUME Shell, Core, UNCHANGED vars
  PROVE  Shell' /\ Core'
<1>1. /\ UNCHANGED <<app, sendState, receives, sends, recvBridge, sendBridge, commits, loop>>
      /\ UNCHANGED <<state, websocket, closeFrame, level, batch, connection, inbound, arrived>>
      /\ UNCHANGED <<clientEnded, written, raises>>
  BY DEF vars, appVars, bridgeVars, filterVars, clientVars
<1>2. /\ Pipe' = Pipe /\ Still /\ (Flowing' => Flowing)
      /\ \A k \in 1..MaxSends : IsWritten(k)' <=> IsWritten(k)
  BY <1>1 DEF Pipe, Still, SendStateKept, Onward, Early, Flowing, IsWritten
<1>3. TypeOK
  BY DEF Shell
<1>4. Core'
  <2>1. arrived' \in arrived..MaxMessages /\ arrived' = arrived
    <3>1. arrived \in 0..MaxMessages
      BY <1>3, Lengths
    <3> QED
      BY <1>1, <3>1, BoundsAssumption
  <2> QED
    BY <1>1, <1>2, <1>3, <2>1, CoreQuiet
<1>5. TypeOK' /\ Stages' /\ Closing' /\ OnWire' /\ NobodyWaitsInVain'
  BY <1>1 DEF Shell, TypeOK, Stages, Closing, OnWire, NobodyWaitsInVain
<1>6. Handshake'
  BY <1>1 DEF Shell, Handshake, Early, Count, Queued, Pipe
<1> QED
  BY <1>4, <1>5, <1>6 DEF Shell

LEMMA InitHolds ==
  ASSUME Init
  PROVE  IInv
<1> USE DEF Init
<1>1. /\ recvBridge.closed = FALSE /\ sendBridge.closed = FALSE
      /\ recvBridge.events = <<>> /\ sendBridge.events = <<>>
      /\ recvBridge \in Bridges(1..MaxReceives) /\ sendBridge \in Bridges(SendEvents)
  <2>1. <<>> \in Seq(1..MaxReceives) /\ <<>> \in Seq(SendEvents)
    OBVIOUS
  <2> QED
    BY <2>1 DEF OpenBridge, Bridges
<1>2. TypeOK
  <2>1. 0 \in 0..1 /\ 0 \in 0..MaxMessages /\ 0 \in 0..MaxRaises
        /\ 0 <= MaxReceives /\ 0 <= MaxSends /\ Len(<<>>) = 0
    BY BoundsAssumption
  <2>2. /\ receives \in Seq(Receives) /\ sends \in Seq({"pending", "sent", "refused"})
        /\ Len(receives) <= MaxReceives /\ Len(sends) <= MaxSends
    BY <2>1
  <2>3. /\ commits \in Seq({"request", "response"}) /\ loop \in Seq(LoopTasks)
        /\ batch \in Seq(SendEvents)
        /\ inbound \in Seq([kind : {"message", "close", "bad"}, n : 0..MaxMessages])
        /\ written \in Seq([kind : {"switching", "forbidden", "error", "message", "close"},
                            n : 0..MaxSends])
    OBVIOUS
  <2>4. /\ app \in {"none", "running", "ended"}
        /\ sendState \in {"started", "accepted", "closed"}
        /\ state \in {"start", "handshake", "accepted", "done", "notWebSocket", "destroyed"}
        /\ websocket \in {"none", "active", "closedByUs", "terminated"}
        /\ closeFrame \in BOOLEAN /\ clientEnded \in BOOLEAN /\ level \in 0..1
        /\ connection \in {"open", "closing", "gone"}
        /\ arrived \in 0..MaxMessages /\ raises \in 0..MaxRaises
    BY <2>1
  <2> HIDE DEF Init
  <2> QED
    BY <1>1, <2>2, <2>3, <2>4 DEF TypeOK
<1>3. Stages
  BY <1>1 DEF Stages
<1>4. Handshake
  <2>1. \A kind : Count(kind) = 0
    <3>1. \A kind : {i \in DOMAIN commits : commits[i] = kind} = {}
      OBVIOUS
    <3> QED
      BY <3>1, FS_EmptySet DEF Count
  <2> QED
    BY <1>1, <2>1 DEF Handshake
<1>5. Closing /\ OnWire /\ NobodyWaitsInVain
  BY <1>1 DEF Closing, OnWire, NobodyWaitsInVain
<1>6. Receiving
  <2>1. Told = 0
    BY <1>1 DEF Told
  <2> QED
    BY <1>1, <2>1 DEF Receiving, Dispatched
<1>7. Sending
  <2>1. Pipe = <<>>
    BY <1>1 DEF Pipe
  <2> QED
    BY <2>1 DEF Sending, Queued, Increasing, Dispatched, IsWritten
<1>8. LoopInOrder /\ Results
  BY DEF LoopInOrder, Results, Dispatched
<1>9. HandedOn /\ Incoming(inbound, arrived)
  BY DEF HandedOn, Handed, Dispatched, Incoming
<1> QED
  BY <1>2, <1>3, <1>4, <1>5, <1>6, <1>7, <1>8, <1>9 DEF IInv

LEMMA NextKeeps ==
  ASSUME IInv, [Next]_vars
  PROVE  IInv'
<1>1. Shell /\ Core
  BY Parts
<1>2. Shell' /\ Core'
  <2>1. CASE LoopStep
    BY <1>1, <2>1, LoopStepKeeps
  <2>2. CASE OnReadHandshake
    BY <1>1, <2>2, OnReadHandshakeKeeps
  <2>3. CASE \E frame \in ClientFrames : OnRead(frame)
    BY <1>1, <2>3, OnReadKeeps
  <2>4. CASE OnScheduledRequest
    BY <1>1, <2>4, OnScheduledRequestKeeps
  <2>5. CASE OnScheduledResponse
    BY <1>1, <2>5, OnScheduledResponseKeeps
  <2>6. CASE HandleEvent
    BY <1>1, <2>6, HandleEventKeeps
  <2>7. CASE BelowWatermark
    BY <1>1, <2>7, BelowWatermarkKeeps
  <2>8. CASE OnDestroy
    BY <1>1, <2>8, OnDestroyKeeps
  <2>9. CASE Terminated \/ UNCHANGED vars
    BY <1>1, <2>9, StutterKeeps DEF Terminated
  <2> QED
    BY <2>1, <2>2, <2>3, <2>4, <2>5, <2>6, <2>7, <2>8, <2>9 DEF Next
<1> QED
  BY <1>2, Parts

\* The states of the system are those of the inductive invariant.
THEOREM Inductive == Spec => []IInv
<1>1. Init => IInv
  BY InitHolds
<1>2. IInv /\ [Next]_vars => IInv'
  BY NextKeeps
<1> QED
  BY <1>1, <1>2, PTL DEF Spec

-----------------------------------------------------------------------------
(* What the invariant says of the properties.                              *)

LEMMA AtMostOne ==
  ASSUME NEW S, \A x, y \in S : x = y
  PROVE  /\ Cardinality(S) <= 1
         /\ S # {} => Cardinality(S) = 1
<1>1. CASE S = {}
  BY <1>1, FS_EmptySet
<1>2. CASE S # {}
  <2>1. PICK x \in S : S = {x}
    BY <1>2
  <2> QED
    BY <1>2, <2>1, FS_Singleton
<1> QED
  BY <1>1, <1>2

\* A future of receive is on its bridge, or in one completion.
LEMMA ReceiveHeld ==
  ASSUME IInv, NEW k \in DOMAIN receives
  PROVE  Held(receives[k].is, ReceiveHolders(k))
<1>1. TypeOK /\ Receiving /\ LoopInOrder
  BY DEF IInv
<1>2. /\ DOMAIN receives = 1..Len(receives) /\ Len(receives) \in 0..MaxReceives
      /\ Len(recvBridge.events) \in Nat
      /\ DOMAIN recvBridge.events = 1..Len(recvBridge.events)
      /\ DOMAIN loop = 1..Len(loop) /\ Len(loop) \in Nat
      /\ \A i \in DOMAIN loop : loop[i] \in LoopTasks /\ Dispatched(loop[i])
      /\ Told \in Nat /\ k \in Nat /\ Len(receives) = Told + Len(recvBridge.events)
  <2>1. /\ DOMAIN receives = 1..Len(receives) /\ Len(receives) \in 0..MaxReceives
        /\ Len(recvBridge.events) \in Nat
        /\ DOMAIN recvBridge.events = 1..Len(recvBridge.events)
        /\ DOMAIN loop = 1..Len(loop) /\ Len(loop) \in Nat
        /\ \A i \in DOMAIN loop : loop[i] \in LoopTasks /\ Dispatched(loop[i])
    BY <1>1, Lengths
  <2> QED
    BY <1>1, <2>1, BoundsAssumption DEF Told, Receiving
<1>3. receives[k] \in Receives
  BY <1>1, Lengths
<1>4. PICK bridge : bridge = {i \in DOMAIN recvBridge.events : recvBridge.events[i] = k}
  OBVIOUS
<1>5. PICK tasks : tasks = {i \in DOMAIN loop : ForReceive(loop[i]) /\ loop[i].n = k}
  OBVIOUS
<1>6. ReceiveHolders(k) = {<<"bridge", i>> : i \in bridge} \cup {<<"loop", i>> : i \in tasks}
  BY <1>4, <1>5 DEF ReceiveHolders, Places, ForReceive
<1>7. /\ k > Told => \E i \in bridge : TRUE
      /\ \A i \in bridge : k > Told /\ i = k - Told
  <2>1. \A i \in DOMAIN recvBridge.events : recvBridge.events[i] = Told + i
    BY <1>1 DEF Receiving
  <2>2. ASSUME NEW i \in bridge PROVE k > Told /\ i = k - Told
    BY <1>2, <1>4, <2>1, <2>2
  <2>3. ASSUME k > Told PROVE k - Told \in bridge
    <3>1. k - Told \in DOMAIN recvBridge.events
      BY <1>2, <2>3
    <3>2. recvBridge.events[k - Told] = Told + (k - Told)
      BY <2>1, <3>1
    <3>3. Told + (k - Told) = k
      BY <1>2
    <3> QED
      BY <1>4, <3>1, <3>2, <3>3
  <2> QED
    BY <2>2, <2>3
<1>8. \A i, j \in tasks : i = j
  <2> SUFFICES ASSUME NEW i \in tasks, NEW j \in tasks, i # j PROVE FALSE
    OBVIOUS
  <2>1. i \in DOMAIN loop /\ j \in DOMAIN loop /\ ForReceive(loop[i]) /\ ForReceive(loop[j])
        /\ loop[i].n = k /\ loop[j].n = k
    BY <1>5
  <2>2. i < j \/ j < i
    BY <1>2, <2>1
  <2>3. k < k
    BY <1>1, <2>1, <2>2 DEF LoopInOrder, Follows
  <2> QED
    BY <1>2, <2>3
<1>9. \A i \in tasks : k <= Told /\ Waits(receives[k])
  <2> SUFFICES ASSUME NEW i \in tasks PROVE k <= Told /\ Waits(receives[k])
    OBVIOUS
  <2>1. i \in DOMAIN loop /\ ForReceive(loop[i]) /\ loop[i].n = k
    BY <1>5
  <2>2. ReceiveTask(loop[i])
    BY <1>1, <1>2, <2>1 DEF Receiving
  <2>3. k \in 1..Told /\ \A q \in k..Len(receives) : Waits(receives[q])
    BY <2>1, <2>2 DEF ReceiveTask
  <2>4. k \in k..Len(receives)
    BY <1>2
  <2> QED
    BY <1>2, <2>3, <2>4
<1>10. \A x, y \in ReceiveHolders(k) : x = y
  <2>1. CASE k > Told
    BY <1>2, <1>6, <1>7, <1>9, <2>1
  <2>2. CASE ~(k > Told)
    BY <1>2, <1>6, <1>7, <1>8, <2>2
  <2> QED
    BY <2>1, <2>2
<1>11. k > Told => ReceiveHolders(k) # {} /\ Waits(receives[k])
  BY ZenonT(60), <1>1, <1>6, <1>7 DEF Receiving
<1>12. k <= Told /\ receives[k].is = "pending" => ReceiveHolders(k) # {}
  <2> SUFFICES ASSUME k <= Told, receives[k].is = "pending" PROVE ReceiveHolders(k) # {}
    OBVIOUS
  <2>1. k \in 1..Told
    BY <1>2
  <2>2. PICK task \in LoopTasks : Dispatched(task) /\ ForReceive(task) /\ task.n = k
    BY <1>1, <2>1 DEF Receiving
  <2>3. PICK i \in DOMAIN loop : loop[i] = task
    BY <2>2 DEF Dispatched
  <2>4. i \in tasks
    BY <1>5, <2>2, <2>3
  <2> QED
    BY <1>6, <2>4
<1>13. ReceiveHolders(k) # {} => Waits(receives[k])
  BY <1>6, <1>7, <1>9, <1>11
<1>14. k > Told \/ k <= Told
  BY <1>2
<1>15. CASE receives[k].is = "pending"
  <2>1. Cardinality(ReceiveHolders(k)) = 1
    BY <1>10, <1>11, <1>12, <1>14, <1>15, AtMostOne
  <2> QED
    BY <1>15, <2>1 DEF Held
<1>16. CASE receives[k].is = "cancelled"
  <2>1. Cardinality(ReceiveHolders(k)) <= 1
    BY <1>10, AtMostOne
  <2> QED
    BY <1>16, <2>1 DEF Held
<1>17. CASE receives[k].is \notin {"pending", "cancelled"}
  <2>1. ReceiveHolders(k) = {}
    BY <1>13, <1>17 DEF Waits
  <2> QED
    BY <1>17, <2>1 DEF Held
<1> QED
  BY <1>15, <1>16, <1>17

\* A future of send is in one event, or in one completion.
LEMMA SendHeld ==
  ASSUME IInv, NEW k \in DOMAIN sends
  PROVE  Held(sends[k], SendHolders(k))
<1>1. TypeOK /\ Stages /\ Sending /\ LoopInOrder
  BY DEF IInv
<1>2. /\ DOMAIN sends = 1..Len(sends) /\ Len(sends) \in 0..MaxSends
      /\ sends[k] \in {"pending", "sent", "refused"}
      /\ DOMAIN Pipe = 1..Len(Pipe) /\ Len(Pipe) \in Nat
      /\ \A i \in DOMAIN Pipe : Pipe[i] \in SendEvents /\ Queued(Pipe[i])
      /\ DOMAIN loop = 1..Len(loop) /\ Len(loop) \in Nat
      /\ \A i \in DOMAIN loop : loop[i] \in LoopTasks /\ Dispatched(loop[i])
  BY <1>1, Lengths
<1>3. k \in Nat /\ k # 0
  BY <1>2
<1>4. PICK tasks : tasks = {i \in DOMAIN loop : ForSend(loop[i]) /\ loop[i].n = k}
  OBVIOUS
<1>5. PICK events : events = {i \in DOMAIN Pipe : Pipe[i].n = k}
  OBVIOUS
<1>6. \A i \in DOMAIN Pipe : Pipe[i].n = k => Pipe[i].kind \in {"accept", "message"}
  BY <1>1, <1>2, <1>3 DEF Sending, InThePipe
<1>7. \E place : SendHolders(k) = {<<place, i>> : i \in events} \cup {<<"loop", i>> : i \in tasks}
                   /\ place # "loop"
  <2>1. Places("loop", loop, {"sent", "refused"}, k) = {<<"loop", i>> : i \in tasks}
    BY <1>4 DEF Places, ForSend
  <2>2. CASE batch = <<>>
    <3>1. Pipe = sendBridge.events
      BY <2>2 DEF Pipe
    <3>2. Places("bridge", sendBridge.events, {"accept", "message"}, k) =
            {<<"bridge", i>> : i \in events}
      BY <1>5, <1>6, <3>1 DEF Places
    <3>3. Places("filter", batch, {"accept", "message"}, k) = {}
      BY <2>2 DEF Places
    <3>4. SendHolders(k) = {<<"bridge", i>> : i \in events} \cup {<<"loop", i>> : i \in tasks}
      BY <2>1, <3>2, <3>3 DEF SendHolders
    <3>5. "bridge" # "loop"
      OBVIOUS
    <3> QED
      BY <3>4, <3>5
  <2>3. CASE batch # <<>>
    <3>1. Pipe = batch /\ sendBridge.events = <<>>
      BY <1>1, <2>3 DEF Pipe, Stages
    <3>2. Places("filter", batch, {"accept", "message"}, k) =
            {<<"filter", i>> : i \in events}
      BY <1>5, <1>6, <3>1 DEF Places
    <3>3. Places("bridge", sendBridge.events, {"accept", "message"}, k) = {}
      BY <3>1 DEF Places
    <3>4. SendHolders(k) = {<<"filter", i>> : i \in events} \cup {<<"loop", i>> : i \in tasks}
      BY <2>1, <3>2, <3>3 DEF SendHolders
    <3>5. "filter" # "loop"
      OBVIOUS
    <3> QED
      BY <3>4, <3>5
  <2> QED
    BY <2>2, <2>3
<1>8. PICK place : SendHolders(k) = {<<place, i>> : i \in events} \cup {<<"loop", i>> : i \in tasks}
                     /\ place # "loop"
  BY <1>7
<1>9. \A i, j \in events : i = j
  <2> SUFFICES ASSUME NEW i \in events, NEW j \in events, i # j PROVE FALSE
    OBVIOUS
  <2>1. i \in DOMAIN Pipe /\ j \in DOMAIN Pipe /\ Pipe[i].n = k /\ Pipe[j].n = k
    BY <1>5
  <2>2. i < j \/ j < i
    BY <1>2, <2>1
  <2>3. k < k
    BY <1>1, <1>3, <2>1, <2>2 DEF Sending, Increasing
  <2> QED
    BY <1>3, <2>3
<1>10. \A i, j \in tasks : i = j
  <2> SUFFICES ASSUME NEW i \in tasks, NEW j \in tasks, i # j PROVE FALSE
    OBVIOUS
  <2>1. i \in DOMAIN loop /\ j \in DOMAIN loop /\ ForSend(loop[i]) /\ ForSend(loop[j])
        /\ loop[i].n = k /\ loop[j].n = k
    BY <1>4
  <2>2. i < j \/ j < i
    BY <1>2, <2>1
  <2>3. k < k
    BY <1>1, <2>1, <2>2 DEF LoopInOrder, Follows
  <2> QED
    BY <1>3, <2>3
<1>11. \A i \in tasks : events = {} /\ sends[k] = "pending"
  <2> SUFFICES ASSUME NEW i \in tasks PROVE events = {} /\ sends[k] = "pending"
    OBVIOUS
  <2>1. i \in DOMAIN loop /\ ForSend(loop[i]) /\ loop[i].n = k
    BY <1>4
  <2>2. SendTask(loop[i])
    BY <1>1, <1>2, <2>1 DEF Sending
  <2>3. sends[k] = "pending"
    BY <2>1, <2>2 DEF SendTask
  <2>4. ASSUME NEW j \in events PROVE FALSE
    <3>1. j \in DOMAIN Pipe /\ Pipe[j].n = k
      BY <1>5
    <3>2. k < k
      BY <1>2, <1>3, <2>1, <2>2, <3>1 DEF SendTask
    <3> QED
      BY <1>3, <3>2
  <2> QED
    BY <2>3, <2>4
<1>12. \A i \in events : sends[k] = "pending"
  <2> SUFFICES ASSUME NEW i \in events PROVE sends[k] = "pending"
    OBVIOUS
  <2>1. i \in DOMAIN Pipe /\ Pipe[i].n = k
    BY <1>5
  <2> QED
    BY <1>1, <1>2, <1>3, <2>1 DEF Sending, InThePipe
<1>13. \A x, y \in SendHolders(k) : x = y
  BY <1>8, <1>9, <1>10, <1>11
<1>14. SendHolders(k) # {} => sends[k] = "pending"
  BY <1>8, <1>11, <1>12
<1>15. ASSUME sends[k] = "pending" PROVE SendHolders(k) # {}
  <2>1. CASE \E e \in SendEvents : Queued(e) /\ e.n = k
    <3>1. PICK i \in DOMAIN Pipe : Pipe[i].n = k
      BY <2>1 DEF Queued
    <3> QED
      BY <1>5, <1>8, <3>1
  <2>2. CASE \E task \in LoopTasks : Dispatched(task) /\ ForSend(task) /\ task.n = k
    <3>1. PICK i \in DOMAIN loop : ForSend(loop[i]) /\ loop[i].n = k
      BY <2>2 DEF Dispatched
    <3> QED
      BY <1>4, <1>8, <3>1
  <2> QED
    BY <1>1, <1>15, <2>1, <2>2 DEF Sending
<1>16. CASE sends[k] = "pending"
  <2>1. Cardinality(SendHolders(k)) = 1
    BY <1>13, <1>15, <1>16, AtMostOne
  <2> QED
    BY <1>16, <2>1 DEF Held
<1>17. CASE sends[k] \in {"sent", "refused"}
  <2>1. SendHolders(k) = {}
    BY <1>14, <1>17
  <2> QED
    BY <1>17, <2>1 DEF Held
<1> QED
  BY <1>2, <1>16, <1>17

LEMMA AccountedFor == IInv => FuturesAccounted
<1> SUFFICES ASSUME IInv PROVE FuturesAccounted
  OBVIOUS
<1>1. TypeOK /\ Stages /\ Handshake /\ Closing /\ Sending /\ Core
  BY Parts DEF IInv
<1>2. /\ \A k \in DOMAIN receives : Held(receives[k].is, ReceiveHolders(k))
      /\ \A k \in DOMAIN sends : Held(sends[k], SendHolders(k))
  BY ReceiveHeld, SendHeld
<1>3. ASSUME state = "handshake"
      PROVE  /\ Count("request") <= Len(recvBridge.events)
             /\ Count("response") <= Len(sendBridge.events)
             /\ sendBridge.events # <<>> => Head(sendBridge.events).kind # "message"
  <2>1. Early /\ batch = <<>>
    BY <1>1, <1>3 DEF Early, Stages
  <2>2. /\ Count("request") = Len(recvBridge.events) /\ Count("response") = Len(sendBridge.events)
        /\ Len(recvBridge.events) \in Nat /\ Len(sendBridge.events) \in Nat
    BY <1>1, <2>1, Lengths DEF Handshake
  <2>3. Pipe = sendBridge.events
    BY <2>1 DEF Pipe
  <2>4. sendBridge.events # <<>> => Head(sendBridge.events).kind # "message"
    BY <1>1, <2>1, <2>3, FirstEvent
  <2> QED
    BY <2>2, <2>4
<1>4. ASSUME state = "accepted"
      PROVE  /\ \A e \in Range(sendBridge.events) \cup Range(batch) : e.kind # "accept"
             /\ ~closeFrame => websocket = "active"
  <2>1. ASSUME NEW e \in Range(sendBridge.events) \cup Range(batch), e.kind = "accept"
        PROVE  FALSE
    <3>1. \/ batch = <<>> /\ Pipe = sendBridge.events
          \/ sendBridge.events = <<>> /\ Pipe = batch
      BY <1>1 DEF Pipe, Stages
    <3>2. PICK i \in DOMAIN Pipe : Pipe[i] = e
      BY <2>1, <3>1 DEF Range
    <3>3. e \in SendEvents /\ Queued(e)
      BY <1>1, <3>2, Lengths
    <3> QED
      BY <1>1, <1>4, <2>1, <3>3, AfterHandshake
  <2> QED
    BY <1>1, <1>4, <2>1 DEF Closing
<1> QED
  BY <1>1, <1>2, <1>3, <1>4 DEF FuturesAccounted

LEMMA SendsTruthful == IInv => SendsAreTruthful
  BY DEF IInv, OnWire, Sending, IsWritten, SendsAreTruthful

\* Where the messages are: with the receives, on their way, or unread.
LEMMA MessagesFacts ==
  ASSUME TypeOK
  PROVE  /\ DOMAIN Messages = 1..((Len(receives) + Len(loop)) + Len(inbound))
         /\ \A j \in DOMAIN Messages :
              \/ j \in DOMAIN receives /\ Messages[j] = receives[j].message
              \/ \E i \in DOMAIN loop : j = Len(receives) + i /\ Messages[j] = loop[i].message
              \/ \E i \in DOMAIN inbound : /\ j = (Len(receives) + Len(loop)) + i
                                           /\ Messages[j] = inbound[i].n
         /\ \A m : Handed(m) => m \in Range(Messages)
         /\ \A m : IsUnread(inbound, m) => m \in Range(Messages)
<1>1. /\ Len(receives) \in Nat /\ DOMAIN receives = 1..Len(receives)
      /\ \A k \in DOMAIN receives : receives[k].message \in 0..MaxMessages
      /\ Len(loop) \in Nat /\ DOMAIN loop = 1..Len(loop)
      /\ \A i \in DOMAIN loop : loop[i].message \in 0..MaxMessages
      /\ Len(inbound) \in Nat /\ DOMAIN inbound = 1..Len(inbound)
      /\ \A i \in DOMAIN inbound : inbound[i].n \in 0..MaxMessages
  <2>1. /\ Len(receives) \in 0..MaxReceives /\ DOMAIN receives = 1..Len(receives)
        /\ \A k \in DOMAIN receives : receives[k] \in Receives
        /\ Len(loop) \in Nat /\ DOMAIN loop = 1..Len(loop)
        /\ \A i \in DOMAIN loop : loop[i] \in LoopTasks
        /\ Len(inbound) \in Nat /\ DOMAIN inbound = 1..Len(inbound)
        /\ \A i \in DOMAIN inbound : inbound[i] \in Unread
    BY Lengths
  <2>2. /\ \A receive \in Receives : receive.message \in 0..MaxMessages
        /\ \A task \in LoopTasks : task.message \in 0..MaxMessages
        /\ \A f \in Unread : f.n \in 0..MaxMessages
    BY DEF Receives, LoopTasks, Unread
  <2> QED
    BY <2>1, <2>2, BoundsAssumption
<1>2. PICK r : r = [k \in DOMAIN receives |-> receives[k].message]
  OBVIOUS
<1>3. PICK l : l = [i \in DOMAIN loop |-> loop[i].message]
  OBVIOUS
<1>4. PICK b : b = [i \in DOMAIN inbound |-> inbound[i].n]
  OBVIOUS
<1>5. /\ r \in Seq(0..MaxMessages) /\ Len(r) = Len(receives) /\ DOMAIN r = 1..Len(receives)
      /\ l \in Seq(0..MaxMessages) /\ Len(l) = Len(loop) /\ DOMAIN l = 1..Len(loop)
      /\ b \in Seq(0..MaxMessages) /\ Len(b) = Len(inbound) /\ DOMAIN b = 1..Len(inbound)
  <2>1. r \in [1..Len(receives) -> 0..MaxMessages]
    BY <1>1, <1>2
  <2>2. l \in [1..Len(loop) -> 0..MaxMessages]
    BY <1>1, <1>3
  <2>3. b \in [1..Len(inbound) -> 0..MaxMessages]
    BY <1>1, <1>4
  <2> QED
    BY ZenonT(60), <1>1, <2>1, <2>2, <2>3, FunctionIsSeq
<1>6. /\ r \o l \in Seq(0..MaxMessages) /\ Len(r \o l) = Len(receives) + Len(loop)
      /\ \A k \in 1..Len(receives) : (r \o l)[k] = r[k]
      /\ \A k \in 1..Len(loop) : (r \o l)[Len(receives) + k] = l[k]
  <2>0. r \in Seq(0..MaxMessages) /\ l \in Seq(0..MaxMessages)
    BY <1>5
  <2>1. /\ r \o l \in Seq(0..MaxMessages) /\ Len(r \o l) = Len(r) + Len(l)
        /\ \A k \in 1..Len(r) : (r \o l)[k] = r[k]
        /\ \A k \in 1..Len(l) : (r \o l)[Len(r) + k] = l[k]
    BY <2>0, ConcatFacts
  <2> QED
    BY <1>5, <2>1
<1>7. PICK s : s = r \o l
  OBVIOUS
<1>8. /\ DOMAIN (s \o b) = 1..((Len(receives) + Len(loop)) + Len(inbound))
      /\ \A k \in 1..(Len(receives) + Len(loop)) : (s \o b)[k] = s[k]
      /\ \A k \in 1..Len(inbound) : (s \o b)[(Len(receives) + Len(loop)) + k] = b[k]
  <2>0. s \in Seq(0..MaxMessages) /\ b \in Seq(0..MaxMessages)
    BY <1>5, <1>6, <1>7
  <2>1. /\ DOMAIN (s \o b) = 1..(Len(s) + Len(b))
        /\ \A k \in 1..Len(s) : (s \o b)[k] = s[k]
        /\ \A k \in 1..Len(b) : (s \o b)[Len(s) + k] = b[k]
    BY <2>0, ConcatFacts
  <2> QED
    BY <1>5, <1>6, <1>7, <2>1
<1>9. PICK t : t = s \o b
  OBVIOUS
<1>10. Messages = t
  BY <1>2, <1>3, <1>4, <1>7, <1>9 DEF Messages
<1>11. /\ DOMAIN t = 1..((Len(receives) + Len(loop)) + Len(inbound))
       /\ \A k \in 1..Len(receives) : t[k] = receives[k].message /\ k \in DOMAIN t
       /\ \A i \in 1..Len(loop) : /\ t[Len(receives) + i] = loop[i].message
                                  /\ Len(receives) + i \in DOMAIN t
       /\ \A i \in 1..Len(inbound) : /\ t[(Len(receives) + Len(loop)) + i] = inbound[i].n
                                     /\ (Len(receives) + Len(loop)) + i \in DOMAIN t
  <2>1. ASSUME NEW k \in 1..Len(receives)
        PROVE  t[k] = receives[k].message /\ k \in DOMAIN t
    <3>1. k \in 1..(Len(receives) + Len(loop))
            /\ k \in 1..((Len(receives) + Len(loop)) + Len(inbound))
      BY <1>1
    <3>2. t[k] = s[k] /\ s[k] = r[k] /\ k \in DOMAIN t
      BY <1>6, <1>7, <1>8, <1>9, <3>1
    <3> QED
      BY <1>1, <1>2, <3>2
  <2>2. ASSUME NEW i \in 1..Len(loop)
        PROVE  t[Len(receives) + i] = loop[i].message /\ Len(receives) + i \in DOMAIN t
    <3>1. /\ Len(receives) + i \in 1..(Len(receives) + Len(loop))
          /\ Len(receives) + i \in 1..((Len(receives) + Len(loop)) + Len(inbound))
      BY <1>1
    <3>2. /\ t[Len(receives) + i] = s[Len(receives) + i] /\ s[Len(receives) + i] = l[i]
          /\ Len(receives) + i \in DOMAIN t
      BY <1>6, <1>7, <1>8, <1>9, <3>1
    <3> QED
      BY <1>1, <1>3, <3>2
  <2>3. ASSUME NEW i \in 1..Len(inbound)
        PROVE  /\ t[(Len(receives) + Len(loop)) + i] = inbound[i].n
               /\ (Len(receives) + Len(loop)) + i \in DOMAIN t
    <3>1. (Len(receives) + Len(loop)) + i \in 1..((Len(receives) + Len(loop)) + Len(inbound))
      BY <1>1
    <3>2. /\ t[(Len(receives) + Len(loop)) + i] = b[i]
          /\ (Len(receives) + Len(loop)) + i \in DOMAIN t
      BY <1>8, <1>9, <3>1
    <3> QED
      BY <1>1, <1>4, <3>2
  <2> QED
    BY <1>8, <1>9, <2>1, <2>2, <2>3
<1>12. ASSUME NEW j \in DOMAIN t
       PROVE  \/ j \in DOMAIN receives /\ t[j] = receives[j].message
              \/ \E i \in DOMAIN loop : j = Len(receives) + i /\ t[j] = loop[i].message
              \/ \E i \in DOMAIN inbound : /\ j = (Len(receives) + Len(loop)) + i
                                           /\ t[j] = inbound[i].n
  <2>1. j \in 1..((Len(receives) + Len(loop)) + Len(inbound))
    BY <1>11
  <2>2. CASE j <= Len(receives)
    <3>1. j \in 1..Len(receives)
      BY <1>1, <2>1, <2>2
    <3> QED
      BY <1>1, <1>11, <3>1
  <2>3. CASE j > Len(receives) /\ j <= Len(receives) + Len(loop)
    <3>1. j - Len(receives) \in 1..Len(loop) /\ j = Len(receives) + (j - Len(receives))
      BY <1>1, <2>1, <2>3
    <3> QED
      BY <1>1, <1>11, <3>1
  <2>4. CASE j > Len(receives) + Len(loop)
    <3>1. /\ j - (Len(receives) + Len(loop)) \in 1..Len(inbound)
          /\ j = (Len(receives) + Len(loop)) + (j - (Len(receives) + Len(loop)))
      BY <1>1, <2>1, <2>4
    <3> QED
      BY <1>1, <1>11, <3>1
  <2> QED
    BY <1>1, <2>1, <2>2, <2>3, <2>4
<1>13. ASSUME NEW m, Handed(m) PROVE m \in Range(t)
  <2>1. CASE \E k \in DOMAIN receives : receives[k].message = m
    BY <1>1, <1>11, <2>1 DEF Range
  <2>2. CASE \E task \in LoopTasks : Dispatched(task) /\ task.message = m
    BY <1>1, <1>11, <2>2 DEF Range, Dispatched
  <2> QED
    BY <1>13, <2>1, <2>2 DEF Handed
<1>14. ASSUME NEW m, IsUnread(inbound, m) PROVE m \in Range(t)
  BY <1>1, <1>11, <1>14 DEF Range, IsUnread
<1> QED
  BY <1>10, <1>11, <1>12, <1>13, <1>14

LEMMA ReceivesTruthful == IInv => ReceivesAreTruthful
<1> SUFFICES ASSUME IInv PROVE ReceivesAreTruthful
  OBVIOUS
<1>1. TypeOK /\ Stages /\ Results /\ LoopInOrder /\ HandedOn /\ Incoming(inbound, arrived)
  BY DEF IInv
<1>2. /\ Len(receives) \in 0..MaxReceives /\ DOMAIN receives = 1..Len(receives)
      /\ Len(receives) \in Nat
      /\ \A k \in DOMAIN receives : receives[k].message \in 0..MaxMessages
      /\ Len(loop) \in Nat /\ DOMAIN loop = 1..Len(loop)
      /\ \A i \in DOMAIN loop : /\ loop[i] \in LoopTasks /\ Dispatched(loop[i])
                                /\ loop[i].message \in 0..MaxMessages
      /\ Len(inbound) \in Nat /\ DOMAIN inbound = 1..Len(inbound)
      /\ \A i \in DOMAIN inbound : inbound[i].n \in 0..MaxMessages
  <2>1. /\ Len(receives) \in 0..MaxReceives /\ DOMAIN receives = 1..Len(receives)
        /\ \A k \in DOMAIN receives : receives[k] \in Receives
        /\ Len(loop) \in Nat /\ DOMAIN loop = 1..Len(loop)
        /\ \A i \in DOMAIN loop : loop[i] \in LoopTasks /\ Dispatched(loop[i])
        /\ Len(inbound) \in Nat /\ DOMAIN inbound = 1..Len(inbound)
        /\ \A i \in DOMAIN inbound : inbound[i] \in Unread
    BY <1>1, Lengths
  <2>2. /\ \A receive \in Receives : receive.message \in 0..MaxMessages
        /\ \A task \in LoopTasks : task.message \in 0..MaxMessages
        /\ \A f \in Unread : f.n \in 0..MaxMessages
    BY DEF Receives, LoopTasks, Unread
  <2> QED
    BY <2>1, <2>2, BoundsAssumption
<1>3. PICK t : t = Messages
  OBVIOUS
<1>4. /\ DOMAIN t = 1..((Len(receives) + Len(loop)) + Len(inbound))
      /\ \A j \in DOMAIN t :
           \/ j \in DOMAIN receives /\ t[j] = receives[j].message
           \/ \E i \in DOMAIN loop : j = Len(receives) + i /\ t[j] = loop[i].message
           \/ \E i \in DOMAIN inbound : /\ j = (Len(receives) + Len(loop)) + i
                                        /\ t[j] = inbound[i].n
      /\ \A m : Handed(m) => m \in Range(t)
      /\ \A m : IsUnread(inbound, m) => m \in Range(t)
  BY <1>1, <1>3, MessagesFacts
<1>5. /\ \A k \in DOMAIN receives : Handed(receives[k].message)
      /\ \A i \in DOMAIN loop : Handed(loop[i].message)
  BY <1>2 DEF Handed
<1>6. /\ \A m \in 0..MaxMessages : m # 0 => m \in 1..MaxMessages
      /\ \A m \in 0..MaxMessages : m \in Nat
  BY BoundsAssumption
<1>7. \A m \in 0..MaxMessages, i \in DOMAIN inbound :
        Handed(m) /\ inbound[i].n # 0 => m < inbound[i].n
  <2> SUFFICES ASSUME NEW m \in 0..MaxMessages, NEW i \in DOMAIN inbound,
                      Handed(m), inbound[i].n # 0
               PROVE  m < inbound[i].n
    OBVIOUS
  <2>1. CASE m = 0
    BY <1>2, <1>6, <2>1
  <2>2. CASE m # 0
    BY <1>1, <1>6, <2>2 DEF Incoming
  <2> QED
    BY <2>1, <2>2
<1>8. ASSUME NEW i \in DOMAIN t, NEW j \in DOMAIN t, i < j, t[j] # 0
      PROVE  t[i] < t[j]
  <2>1. CASE i \in DOMAIN receives /\ t[i] = receives[i].message
    <3>1. CASE j \in DOMAIN receives /\ t[j] = receives[j].message
      BY <1>1, <1>8, <2>1, <3>1 DEF Results, After
    <3>2. CASE \E q \in DOMAIN loop : j = Len(receives) + q /\ t[j] = loop[q].message
      <4>1. PICK q \in DOMAIN loop : t[j] = loop[q].message
        BY <3>2
      <4>2. MessageTask(loop[q])
        BY <1>1, <1>2 DEF Results
      <4> QED
        BY <1>8, <2>1, <4>1, <4>2 DEF MessageTask, After
    <3>3. CASE \E q \in DOMAIN inbound : /\ j = (Len(receives) + Len(loop)) + q
                                         /\ t[j] = inbound[q].n
      BY <1>2, <1>5, <1>7, <1>8, <2>1, <3>3
    <3> QED
      BY <1>4, <3>1, <3>2, <3>3
  <2>2. CASE \E p \in DOMAIN loop : i = Len(receives) + p /\ t[i] = loop[p].message
    <3>1. PICK p \in DOMAIN loop : i = Len(receives) + p /\ t[i] = loop[p].message
      BY <2>2
    <3>2. j \notin DOMAIN receives
      BY <1>2, <1>8, <3>1
    <3>3. CASE \E q \in DOMAIN loop : j = Len(receives) + q /\ t[j] = loop[q].message
      <4>1. PICK q \in DOMAIN loop : j = Len(receives) + q /\ t[j] = loop[q].message
        BY <3>3
      <4>2. p < q
        BY <1>2, <1>8, <3>1, <4>1
      <4> QED
        BY <1>1, <1>8, <3>1, <4>1, <4>2 DEF LoopInOrder, Follows, After
    <3>4. CASE \E q \in DOMAIN inbound : /\ j = (Len(receives) + Len(loop)) + q
                                         /\ t[j] = inbound[q].n
      BY <1>2, <1>5, <1>7, <1>8, <3>1, <3>4
    <3> QED
      BY <1>4, <3>2, <3>3, <3>4
  <2>3. CASE \E p \in DOMAIN inbound : /\ i = (Len(receives) + Len(loop)) + p
                                       /\ t[i] = inbound[p].n
    <3>1. PICK p \in DOMAIN inbound : /\ i = (Len(receives) + Len(loop)) + p
                                      /\ t[i] = inbound[p].n
      BY <2>3
    <3>2. j \notin DOMAIN receives /\ \A q \in DOMAIN loop : j # Len(receives) + q
      BY <1>2, <1>8, <3>1
    <3>3. PICK q \in DOMAIN inbound : /\ j = (Len(receives) + Len(loop)) + q
                                      /\ t[j] = inbound[q].n
      BY <1>4, <3>2
    <3>4. p < q
      BY <1>2, <1>8, <3>1, <3>3
    <3> QED
      BY <1>1, <1>8, <3>1, <3>3, <3>4 DEF Incoming
  <2> QED
    BY <1>4, <2>1, <2>2, <2>3
<1>9. \A q \in 0..MaxMessages : Handed(q) => \A m \in 1..q : m \in Range(t)
  <2> SUFFICES ASSUME NEW q \in 0..MaxMessages, Handed(q), NEW m \in 1..q
               PROVE  m \in Range(t)
    OBVIOUS
  <2>1. q \in 1..MaxMessages
    BY BoundsAssumption
  <2> QED
    BY <1>1, <1>4, <2>1 DEF HandedOn
<1>10. ASSUME NEW j \in DOMAIN t, NEW m \in 1..t[j] PROVE m \in Range(t)
  <2>1. CASE j \in DOMAIN receives /\ t[j] = receives[j].message
    BY <1>2, <1>5, <1>9, <1>10, <2>1
  <2>2. CASE \E i \in DOMAIN loop : j = Len(receives) + i /\ t[j] = loop[i].message
    BY <1>2, <1>5, <1>9, <1>10, <2>2
  <2>3. CASE \E i \in DOMAIN inbound : /\ j = (Len(receives) + Len(loop)) + i
                                       /\ t[j] = inbound[i].n
    <3>1. Handed(m) \/ IsUnread(inbound, m)
      BY <1>1, <1>10, <2>3 DEF Incoming
    <3> QED
      BY <1>4, <3>1
  <2> QED
    BY <1>4, <2>1, <2>2, <2>3
<1>11. ASSUME state = "accepted", connection = "open", ~closeFrame, NEW m \in 1..arrived
       PROVE  m \in Range(t)
  <2>1. Handed(m) \/ IsUnread(inbound, m)
    BY <1>1, <1>11 DEF Incoming
  <2> QED
    BY <1>4, <2>1
<1>12. \A k \in DOMAIN receives :
         receives[k].is = "disconnect" => closeFrame \/ connection = "gone"
  BY <1>1 DEF Results, Stages
<1>13. \A j, k \in DOMAIN receives : j < k =>
         /\ receives[j].is = "disconnect" => receives[k].is \notin {"connect", "message"}
         /\ receives[j].is = "message" => receives[k].is # "connect"
  BY <1>1 DEF Results, After
<1> QED
  BY <1>3, <1>8, <1>10, <1>11, <1>12, <1>13 DEF ReceivesAreTruthful

-----------------------------------------------------------------------------
(* The theorems.                                                           *)

\* The parts stay within their states, however many calls and messages there are.
THEOREM TypeCorrect == Spec => []TypeOK
<1>1. IInv => TypeOK
  BY DEF IInv
<1> QED
  BY <1>1, Inductive, PTL

\* The futures of receive and send are each in one place until they are completed,
\* and the filter finds on the bridges what its callbacks take for granted.
THEOREM FuturesAreAccounted == Spec => []FuturesAccounted
  BY AccountedFor, Inductive, PTL

\* What the client sees of the application: an answer, the messages in order and
\* nothing after a close; and a send that returns was written, one that fails not.
THEOREM SendsTellTheTruth == Spec => []SendsAreTruthful
  BY SendsTruthful, Inductive, PTL

\* What the application sees of the client: the messages in order, none passed
\* over, and a disconnect only when the connection closes.
THEOREM ReceivesTellTheTruth == Spec => []ReceivesAreTruthful
  BY ReceivesTruthful, Inductive, PTL

\* An event, or a receive that could be given something, has a callback on its way.
THEOREM NobodyIsForgotten == Spec => []NobodyWaitsInVain
<1>1. IInv => NobodyWaitsInVain
  BY DEF IInv
<1> QED
  BY <1>1, Inductive, PTL
=============================================================================
