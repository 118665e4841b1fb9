------------------------------ MODULE WebSocket ------------------------------
(***************************************************************************)
(* A WebSocket connection (src/asgi/websocket/): the calls of receive and  *)
(* send of an ASGI application, each of which returns a future, the two    *)
(* bridges that carry them to Envoy's thread, the network filter, which    *)
(* takes the connection through handshake, messages and closing with the   *)
(* library tungstenite, and the event loop that completes the futures.     *)
(*                                                                         *)
(* A callback of the filter is a step, but for the events that one drain   *)
(* of the send bridge yields, which are handled one by one.  A commit is   *)
(* scheduled as its event is put on the bridge: the loop's thread does     *)
(* nothing between the two.  The messages of the client are numbered, and  *)
(* those of the application by the call that sent them.                    *)
(***************************************************************************)
EXTENDS Integers, Sequences, SequencesExt, FiniteSets, Bridge

CONSTANTS MaxMessages,  \* bound: the messages of the client
          MaxReceives,  \* bound: the calls of receive
          MaxSends,     \* bound: the calls of send that return a future
          MaxCancels,   \* bound: the futures that the application cancels
          MaxRaises     \* bound: how often the write buffer passes its watermark

ASSUME BoundsAssumption ==
  /\ MaxMessages \in Nat /\ MaxReceives \in Nat /\ MaxSends \in Nat
  /\ MaxCancels \in Nat /\ MaxRaises \in Nat

VARIABLES
  \* the application, on the event loop
  app,          \* "none", "running" or "ended"
  sendState,    \* SendCallable.state
  receives,     \* what has become of each future of receive
  sends,        \* and of each future of send
  \* between the threads
  recvBridge,   \* the futures that wait for an event
  sendBridge,
  commits,      \* the callbacks on their way, in order
  loop,         \* what is dispatched to the event loop
  \* the filter
  state,        \* Filter.state
  websocket,    \* how tungstenite sees the connection
  closeFrame,   \* whether there is a close_frame
  level,        \* downstream_watermark_level
  batch,        \* the drained events it has yet to handle
  \* the client and Envoy
  connection,   \* "open", "closing" (Envoy was told to close it) or "gone"
  inbound,      \* what the client has sent and the filter has not read
  arrived,      \* the number of messages the client has sent
  clientEnded,  \* whether it has sent a close frame, or something malformed
  written,      \* what the filter has written
  raises

appVars == <<app, sendState, receives, sends>>
bridgeVars == <<recvBridge, sendBridge>>
filterVars == <<state, websocket, closeFrame, level, batch>>
clientVars == <<inbound, arrived, clientEnded>>
vars == <<appVars, bridgeVars, commits, loop, filterVars, connection, clientVars, written,
          raises>>

\* A frame, or an answer to the handshake; a SendEvent; a task of the loop; what
\* a future holds.  A message that is handed to a cancelled receive is lost.
Frame(kind, n)         == [kind |-> kind, n |-> n]
Task(kind, n, message) == [kind |-> kind, n |-> n, message |-> message]
Received(is, message)  == [is |-> is, message |-> message]

Init ==
  /\ app = "none" /\ sendState = "started" /\ receives = <<>> /\ sends = <<>>
  /\ recvBridge = OpenBridge /\ sendBridge = OpenBridge
  /\ commits = <<>> /\ loop = <<>>
  /\ state = "start" /\ websocket = "none" /\ closeFrame = FALSE /\ level = 0
  /\ batch = <<>>
  /\ connection = "open" /\ inbound = <<>> /\ arrived = 0 /\ clientEnded = FALSE
  /\ written = <<>> /\ raises = 0

-----------------------------------------------------------------------------
(* The event loop: the application.                                        *)

\* RecvCallable.__call__; a bridge that is closed drops the future.
Receive ==
  /\ app # "none"
  /\ Len(receives) < MaxReceives
  /\ LET k == Len(receives) + 1
     IN  /\ receives' = Append(receives, Received("pending", 0))
         /\ recvBridge' = Sent(recvBridge, k)
         /\ IF recvBridge.closed
              THEN loop' = Append(loop, Task("disconnect", k, 0)) /\ UNCHANGED commits
              ELSE commits' = Append(commits, "request") /\ UNCHANGED loop
  /\ UNCHANGED <<app, sendState, sends, sendBridge, filterVars, connection, clientVars,
                 written, raises>>

\* An event of send goes to the filter; a bridge that is closed drops it, and
\* the future in it.
SendEvent(kind, k) ==
  /\ sendBridge' = Sent(sendBridge, Frame(kind, k))
  /\ IF sendBridge.closed
       THEN /\ loop' = IF k = 0 THEN loop ELSE Append(loop, Task("refused", k, 0))
            /\ UNCHANGED commits
       ELSE commits' = Append(commits, "response") /\ UNCHANGED loop

SendWithFuture(kind) ==
  /\ Len(sends) < MaxSends
  /\ sends' = Append(sends, "pending")
  /\ SendEvent(kind, Len(sends) + 1)

\* SendCallable.__call__ for websocket.accept,
SendAccept ==
  /\ app # "none" /\ sendState = "started"
  /\ sendState' = "accepted"
  /\ SendWithFuture("accept")
  /\ UNCHANGED <<app, receives, recvBridge, filterVars, connection, clientVars, written,
                 raises>>

\* for websocket.send,
SendMessage ==
  /\ app # "none" /\ sendState = "accepted"
  /\ SendWithFuture("message")
  /\ UNCHANGED <<app, sendState, receives, recvBridge, filterVars, connection, clientVars,
                 written, raises>>

\* and for websocket.close, which returns an awaitable that is done.
SendClose ==
  /\ app # "none" /\ sendState # "closed"
  /\ sendState' = "closed"
  /\ SendEvent("close", 0)
  /\ UNCHANGED <<app, receives, sends, recvBridge, filterVars, connection, clientVars,
                 written, raises>>

\* AppFutureHandler: the application returns or raises.  Tasks that it started
\* may go on.  (A ClientDisconnectedError ends it without an event, which to the
\* filter is an application that does nothing more.)
AppEnds ==
  /\ app = "running"
  /\ app' = "ended"
  /\ \/ SendEvent("abort", 0)
     \/ SendEvent("exception", 0)
  /\ UNCHANGED <<sendState, receives, sends, recvBridge, filterVars, connection, clientVars,
                 written, raises>>

Cancelled == {k \in DOMAIN receives : receives[k].is = "cancelled"}

\* The application cancels the future of a receive, by a timeout for instance.
\* (A send that it cancels goes on, and only its result is lost.)
CancelReceive(k) ==
  /\ k \in DOMAIN receives /\ receives[k].is = "pending"
  /\ Cardinality(Cancelled) < MaxCancels
  /\ receives' = [receives EXCEPT ![k].is = "cancelled"]
  /\ UNCHANGED <<app, sendState, sends, bridgeVars, commits, loop, filterVars, connection,
                 clientVars, written, raises>>

-----------------------------------------------------------------------------
(* The event loop: what Envoy's thread has dispatched to it.               *)

\* The result of a future that was cancelled goes nowhere.
Complete(task) ==
  /\ receives' = [receives EXCEPT ![task.n] =
                    Received(IF @.is = "pending" THEN task.kind ELSE @.is, task.message)]
  /\ UNCHANGED <<app, sends>>

CompleteSend(task) ==
  /\ sends' = [sends EXCEPT ![task.n] = task.kind]
  /\ UNCHANGED <<app, receives>>

RunApp == app' = "running" /\ UNCHANGED <<receives, sends>>

RunTask ==
  /\ loop # <<>>
  /\ loop' = Tail(loop)
  /\ CASE Head(loop).kind = "run"                                 -> RunApp
       [] Head(loop).kind \in {"connect", "message", "disconnect"} -> Complete(Head(loop))
       [] Head(loop).kind \in {"sent", "refused"}                  -> CompleteSend(Head(loop))
  /\ UNCHANGED <<sendState, bridgeVars, commits, filterVars, connection, clientVars, written,
                 raises>>

-----------------------------------------------------------------------------
(* Envoy's thread: reading and closing.                                    *)

Tasks(kind, futures) == [k \in DOMAIN futures |-> Task(kind, futures[k], 0)]

\* The futures in a sequence of SendEvents.
Futures(events) ==
  LET waiting == {i \in DOMAIN events : events[i].n # 0}
      Nth(k)  == CHOOSE i \in waiting : Cardinality({j \in waiting : j <= i}) = k
  IN  [k \in 1..Cardinality(waiting) |-> events[Nth(k)].n]

\* A broken close of the bridges, which forgets the futures of the sends.
CloseBridgesForgets(tasks, waiting) ==
  /\ recvBridge' = ClosedBridge
  /\ sendBridge' = ClosedBridge
  /\ loop' = loop \o tasks \o Tasks("disconnect", waiting)

\* The disconnects and refusals that a close of both bridges comes to, after
\* those of the receives that are still on the bridge.
CloseBridges(tasks, waiting) ==
  /\ recvBridge' = ClosedBridge
  /\ sendBridge' = ClosedBridge
  /\ loop' = loop \o tasks \o Tasks("disconnect", waiting)
               \o Tasks("refused", Futures(sendBridge.events))

\* What is unread ends with the client's close frame, or with something
\* malformed: after either there is nothing more.
EndsWith(unread, kind) == unread # <<>> /\ Last(unread).kind = kind
Ends(unread) == EndsWith(unread, "close") \/ EndsWith(unread, "bad")

\* finish_close: all there is is read, up to the client's close frame.
FinishClose(unread) ==
  /\ inbound' = <<>>
  /\ connection' = IF websocket = "closedByUs" /\ Ends(unread) THEN "closing" ELSE connection
  /\ websocket' = IF websocket = "closedByUs" /\ EndsWith(unread, "close")
                    THEN "terminated" ELSE websocket

\* read_web_socket while there is a close_frame,
ReadClosing(unread) ==
  /\ CloseBridges(<<>>, recvBridge.events)
  /\ FinishClose(unread)
  /\ UNCHANGED <<closeFrame, written>>

\* and while there is none: messages are read while futures wait for them, and
\* the end of the messages is noticed by a future that waits for one.
ReadMessages(unread) ==
  LET waiting  == recvBridge.events
      messages == IF Ends(unread) THEN Len(unread) - 1 ELSE Len(unread)
      n    == IF Len(waiting) < messages THEN Len(waiting) ELSE messages
      given == [k \in 1..n |-> Task("message", waiting[k], unread[k].n)]
      left == SubSeq(waiting, n + 1, Len(waiting))
      rest == SubSeq(unread, n + 1, Len(unread))
  IN  IF left = <<>> \/ rest = <<>>
        THEN /\ loop' = loop \o given
             /\ recvBridge' = [recvBridge EXCEPT !.events = left]
             /\ inbound' = rest
             /\ UNCHANGED <<sendBridge, closeFrame, websocket, connection, written>>
        ELSE /\ CloseBridges(given, left)
             /\ closeFrame' = TRUE
             /\ written' = Append(written, Frame("close", 0))
             /\ inbound' = <<>>
             /\ IF Head(rest).kind = "close"
                  THEN websocket' = "terminated" /\ connection' = "closing"
                  ELSE websocket' = "closedByUs" /\ connection' \in {connection, "closing"}

\* A broken read_web_socket, which reads a message though nobody waits for it.
ReadWebSocketAlways(unread) ==
  IF closeFrame THEN ReadClosing(unread)
  ELSE IF recvBridge.events = <<>> /\ unread # <<>> /\ Head(unread).kind = "message"
    THEN /\ inbound' = Tail(unread)
         /\ UNCHANGED <<bridgeVars, loop, closeFrame, websocket, connection, written>>
    ELSE ReadMessages(unread)

ReadWebSocket(unread) ==
  IF closeFrame THEN ReadClosing(unread) ELSE ReadMessages(unread)

\* on_read before the handshake is read: the headers may be incomplete, those
\* of another protocol, or followed by more; or the application is started.
OnReadHandshake ==
  /\ state = "start" /\ connection = "open"
  /\ \/ /\ state' = "notWebSocket"
        /\ connection' \in {"open", "closing"}
        /\ UNCHANGED loop
     \/ /\ state' = "handshake"
        /\ loop' = Append(loop, Task("run", 0, 0))
        /\ UNCHANGED connection
  /\ UNCHANGED <<appVars, bridgeVars, commits, websocket, closeFrame, level, batch,
                 clientVars, written, raises>>

\* on_read of a frame; the client may not send one before its handshake is
\* answered, and what comes when the handshake was refused is not read.
OnRead(frame) ==
  /\ state \in {"handshake", "accepted", "done"}
  /\ connection = "open" /\ batch = <<>> /\ ~clientEnded
  /\ arrived' = IF frame.kind = "message" THEN arrived + 1 ELSE arrived
  /\ clientEnded' = (frame.kind # "message")
  /\ CASE state = "accepted"  -> ReadWebSocket(Append(inbound, frame))
       [] state = "handshake" -> /\ connection' = "closing"
                                 /\ UNCHANGED <<bridgeVars, loop, inbound, closeFrame,
                                                websocket, written>>
       [] state = "done"      -> UNCHANGED <<bridgeVars, loop, inbound, closeFrame, websocket,
                                             connection, written>>
  /\ UNCHANGED <<appVars, commits, state, level, batch, raises>>

\* on_destroy, when the client or Envoy has closed the connection: the filter
\* goes, and what was scheduled on it.
OnDestroy ==
  /\ connection # "gone" /\ batch = <<>>
  /\ connection' = "gone"
  /\ state' = "destroyed"
  /\ commits' = <<>>
  /\ CloseBridges(<<>>, recvBridge.events)
  /\ websocket' = "none" /\ closeFrame' = FALSE /\ level' = 0
  /\ inbound' = <<>> /\ clientEnded' = TRUE
  /\ UNCHANGED <<appVars, batch, arrived, written, raises>>

-----------------------------------------------------------------------------
(* Envoy's thread: the callbacks that were committed.                      *)

\* on_scheduled(EVENT_ID_REQUEST): a connect event, or a read.
OnScheduledRequest ==
  /\ commits # <<>> /\ Head(commits) = "request" /\ batch = <<>>
  /\ commits' = Tail(commits)
  /\ CASE state = "handshake" ->
            /\ loop' = Append(loop, Task("connect", Head(recvBridge.events), 0))
            /\ recvBridge' = Shifted(recvBridge)
            /\ UNCHANGED <<sendBridge, inbound, closeFrame, websocket, connection, written>>
       [] state = "accepted" -> ReadWebSocket(inbound)
       [] state = "done"     -> UNCHANGED <<bridgeVars, loop, inbound, closeFrame, websocket,
                                            connection, written>>
  /\ UNCHANGED <<appVars, state, level, batch, arrived, clientEnded, raises>>

\* The filter writes; Envoy's buffer for a client that reads slowly may pass its
\* watermark by it.
Write(frame) ==
  /\ written' = Append(written, frame)
  /\ \/ UNCHANGED <<level, raises>>
     \/ /\ level = 0 /\ raises < MaxRaises
        /\ level' = 1 /\ raises' = raises + 1

WriteNothing == UNCHANGED <<written, level, raises>>

\* process_send_events answers the handshake with the first event there is.
Accept(e) ==
  /\ state' = "accepted"
  /\ websocket' = "active"
  /\ Write(Frame("switching", e.n))
  /\ commits' = Append(Tail(commits), "request")
  /\ loop' = Append(loop, Task("sent", e.n, 0))
  /\ UNCHANGED <<closeFrame, connection>>

Refuse(answer) ==
  /\ state' = "done"
  /\ Write(Frame(answer, 0))
  /\ closeFrame' = TRUE
  /\ commits' = Tail(commits)
  /\ UNCHANGED <<websocket, loop, connection>>

Abort ==
  /\ state' = "done"
  /\ connection' = "closing"
  /\ commits' = Tail(commits)
  /\ WriteNothing /\ UNCHANGED <<websocket, closeFrame, loop>>

\* on_scheduled(EVENT_ID_RESPONSE), which waits for the client to read.
OnScheduledResponse ==
  /\ commits # <<>> /\ Head(commits) = "response" /\ batch = <<>>
  /\ IF level = 0 /\ state = "handshake"
       THEN LET e == Head(sendBridge.events)
            IN  /\ sendBridge' = Shifted(sendBridge)
                /\ CASE e.kind = "accept"    -> Accept(e)
                     [] e.kind = "close"     -> Refuse("forbidden")
                     [] e.kind = "exception" -> Refuse("error")
                     [] e.kind = "abort"     -> Abort
                /\ UNCHANGED batch
       ELSE /\ commits' = Tail(commits)
            /\ batch' = IF level = 0 THEN sendBridge.events ELSE <<>>
            /\ sendBridge' = IF level = 0 THEN Drained(sendBridge) ELSE sendBridge
            /\ WriteNothing
            /\ UNCHANGED <<state, websocket, closeFrame, loop, connection>>
  /\ UNCHANGED <<appVars, recvBridge, clientVars>>

\* A broken handling of a message, which goes out whatever else has.
HandleMessageAlways(e) ==
  /\ Write(e)
  /\ loop' = Append(loop, Task("sent", e.n, 0))
  /\ UNCHANGED <<websocket, closeFrame, connection>>

\* websocket.send, unless the connection is closing: then the event is dropped.
HandleMessage(e) ==
  /\ IF closeFrame
       THEN loop' = Append(loop, Task("refused", e.n, 0)) /\ WriteNothing
       ELSE /\ Write(e)
            /\ loop' = Append(loop, Task("sent", e.n, 0))
  /\ UNCHANGED <<websocket, closeFrame, connection>>

\* websocket.close, which does nothing after a first one.
HandleClose ==
  /\ closeFrame' = TRUE
  /\ IF websocket = "active"
       THEN Write(Frame("close", 0)) /\ websocket' = "closedByUs"
       ELSE WriteNothing /\ UNCHANGED websocket
  /\ UNCHANGED <<loop, connection>>

HandleAbort ==
  /\ connection' = IF closeFrame THEN connection ELSE "closing"
  /\ WriteNothing /\ UNCHANGED <<loop, websocket, closeFrame>>

\* The handshake was refused: the event is dropped.
HandleDropped(e) ==
  /\ loop' = IF e.n = 0 THEN loop ELSE Append(loop, Task("refused", e.n, 0))
  /\ WriteNothing /\ UNCHANGED <<websocket, closeFrame, connection>>

HandleEvent ==
  /\ batch # <<>>
  /\ batch' = Tail(batch)
  /\ LET e == Head(batch)
     IN  CASE state = "done"                  -> HandleDropped(e)
           [] state = "accepted" /\ e.kind = "message" -> HandleMessage(e)
           [] state = "accepted" /\ e.kind = "abort"   -> HandleAbort
           [] state = "accepted" /\ e.kind \in {"close", "exception"} -> HandleClose
  /\ UNCHANGED <<appVars, bridgeVars, commits, state, clientVars>>

\* A broken fall of the watermark, which comes back to nothing.
BelowWatermarkSilent ==
  /\ connection # "gone" /\ level = 1 /\ batch = <<>>
  /\ level' = 0
  /\ UNCHANGED <<appVars, bridgeVars, commits, loop, state, websocket, closeFrame, batch,
                 connection, clientVars, written, raises>>

\* The client has read on.
BelowWatermark ==
  /\ connection # "gone" /\ level = 1 /\ batch = <<>>
  /\ level' = 0
  /\ commits' = Append(commits, "response")
  /\ UNCHANGED <<appVars, bridgeVars, loop, state, websocket, closeFrame, batch, connection,
                 clientVars, written, raises>>

Terminated ==
  /\ connection = "gone" /\ loop = <<>>
  /\ UNCHANGED vars

\* What the loop's thread does while the filter handles the events of a drain it
\* could as well do before or after.
LoopStep ==
  /\ batch = <<>>
  /\ \/ Receive \/ SendAccept \/ SendMessage \/ SendClose
     \/ AppEnds
     \/ \E k \in 1..MaxReceives : CancelReceive(k)
     \/ RunTask

ClientFrames ==
  {Frame("close", 0), Frame("bad", 0)}
    \cup {Frame("message", n) : n \in {arrived + 1} \cap 1..MaxMessages}

Next ==
  \/ LoopStep
  \/ OnReadHandshake
  \/ \E frame \in ClientFrames : OnRead(frame)
  \/ OnScheduledRequest \/ OnScheduledResponse \/ HandleEvent
  \/ BelowWatermark
  \/ OnDestroy
  \/ Terminated

(***************************************************************************)
(* The event loop and Envoy's thread run what is theirs.  Neither the      *)
(* application nor the client need do anything.                            *)
(***************************************************************************)
Fairness ==
  /\ WF_vars(RunTask)
  /\ WF_vars(OnScheduledRequest) /\ WF_vars(OnScheduledResponse) /\ WF_vars(HandleEvent)

Spec == Init /\ [][Next]_vars /\ Fairness

-----------------------------------------------------------------------------
\* The states of the parts.
Receives == [is : {"pending", "cancelled", "connect", "message", "disconnect"},
             message : 0..MaxMessages]
SendEvents == [kind : {"accept", "message", "close", "exception", "abort"}, n : 0..MaxSends]
LoopTasks == [kind : {"run", "connect", "message", "disconnect", "sent", "refused"},
              n : 0..(MaxReceives + MaxSends), message : 0..MaxMessages]

TypeOK ==
  /\ app \in {"none", "running", "ended"}
  /\ sendState \in {"started", "accepted", "closed"}
  /\ receives \in Seq(Receives) /\ Len(receives) <= MaxReceives
  /\ sends \in Seq({"pending", "sent", "refused"}) /\ Len(sends) <= MaxSends
  /\ recvBridge \in Bridges(1..MaxReceives) /\ sendBridge \in Bridges(SendEvents)
  /\ commits \in Seq({"request", "response"}) /\ loop \in Seq(LoopTasks)
  /\ state \in {"start", "handshake", "accepted", "done", "notWebSocket", "destroyed"}
  /\ websocket \in {"none", "active", "closedByUs", "terminated"}
  /\ closeFrame \in BOOLEAN /\ clientEnded \in BOOLEAN /\ level \in 0..1
  /\ batch \in Seq(SendEvents)
  /\ connection \in {"open", "closing", "gone"}
  /\ inbound \in Seq([kind : {"message", "close", "bad"}, n : 0..MaxMessages])
  /\ written \in Seq([kind : {"switching", "forbidden", "error", "message", "close"},
                       n : 0..MaxSends])
  /\ arrived \in 0..MaxMessages /\ raises \in 0..MaxRaises

(***************************************************************************)
(* The future of each call is in one place while the application waits for *)
(* it: on its bridge, with the filter, or in a completion that is on its   *)
(* way to the loop; and in none once it has its result, so that it is not  *)
(* completed twice.  And what the filter takes for granted is so: a        *)
(* callback during the handshake finds an event on its bridge, the first   *)
(* event is an answer to the handshake and no later one is, and tungstenite*)
(* is given no message after a close.                                      *)
(***************************************************************************)
Places(place, s, kinds, k) ==
  {<<place, i>> : i \in {i \in DOMAIN s : s[i].kind \in kinds /\ s[i].n = k}}

ReceiveHolders(k) ==
  {<<"bridge", i>> : i \in {i \in DOMAIN recvBridge.events : recvBridge.events[i] = k}}
    \cup Places("loop", loop, {"connect", "message", "disconnect"}, k)

SendHolders(k) ==
  Places("bridge", sendBridge.events, {"accept", "message"}, k)
    \cup Places("filter", batch, {"accept", "message"}, k)
    \cup Places("loop", loop, {"sent", "refused"}, k)

Held(is, holders) ==
  CASE is = "pending"   -> Cardinality(holders) = 1
    [] is = "cancelled" -> Cardinality(holders) <= 1
    [] OTHER            -> holders = {}

Count(kind) == Cardinality({i \in DOMAIN commits : commits[i] = kind})

FuturesAccounted ==
  /\ TypeOK
  /\ \A k \in DOMAIN receives : Held(receives[k].is, ReceiveHolders(k))
  /\ \A k \in DOMAIN sends : Held(sends[k], SendHolders(k))
  /\ state = "handshake" =>
       /\ Count("request") <= Len(recvBridge.events)
       /\ Count("response") <= Len(sendBridge.events)
       /\ sendBridge.events # <<>> => Head(sendBridge.events).kind # "message"
  /\ state = "accepted" =>
       /\ \A e \in Range(sendBridge.events) \cup Range(batch) : e.kind # "accept"
       /\ ~closeFrame => websocket = "active"

(***************************************************************************)
(* The client sees one answer to its handshake and then, if it was         *)
(* accepted, the messages in the order in which they were sent, and after  *)
(* a close frame nothing.  A send that returns was written, and one that   *)
(* fails with ClientDisconnectedError was not.                             *)
(***************************************************************************)
SendsAreTruthful ==
  /\ \A i \in DOMAIN written :
       /\ written[i].kind \in {"switching", "forbidden", "error"} <=> i = 1
       /\ written[i].kind \in {"forbidden", "error", "close"} => i = Len(written)
  /\ \A i, j \in DOMAIN written :
       i < j /\ written[j].kind = "message" => written[i].n < written[j].n
  /\ \A k \in DOMAIN sends :
       /\ sends[k] = "sent"    => \E i \in DOMAIN written : written[i].n = k
       /\ sends[k] = "refused" => \A i \in DOMAIN written : written[i].n # k

(***************************************************************************)
(* The messages of the client, with the receives, in completions on their  *)
(* way and in Envoy's buffer, are in the order in which they were sent:    *)
(* each is handed to one receive and none is passed over.  Until the       *)
(* connection closes, every one has been handed over or is on its way; one *)
(* that was handed to a receive which the application cancelled counts as  *)
(* handed over, and the application never sees it.  A receive says that    *)
(* the client is gone only when the connection is closing, and then no     *)
(* later one returns a message.  No connect comes after a message.         *)
(***************************************************************************)
Messages ==
  [k \in DOMAIN receives |-> receives[k].message]
    \o [i \in DOMAIN loop |-> loop[i].message]
    \o [i \in DOMAIN inbound |-> inbound[i].n]

ReceivesAreTruthful ==
  /\ \A i, j \in DOMAIN Messages : i < j /\ Messages[j] # 0 => Messages[i] < Messages[j]
  /\ \A j \in DOMAIN Messages : 1..Messages[j] \subseteq Range(Messages)
  /\ state = "accepted" /\ connection = "open" /\ ~closeFrame =>
       1..arrived \subseteq Range(Messages)
  /\ \A k \in DOMAIN receives :
       receives[k].is = "disconnect" => closeFrame \/ connection = "gone"
  /\ \A j, k \in DOMAIN receives : j < k =>
       /\ receives[j].is = "disconnect" => receives[k].is \notin {"connect", "message"}
       /\ receives[j].is = "message" => receives[k].is # "connect"

(***************************************************************************)
(* Nobody waits in vain: an event of the application has a callback on its *)
(* way, unless the client is slow to read, and the fall of the watermark   *)
(* comes back to it then; and so has a receive, during the handshake, and  *)
(* later if the client has sent something.                                 *)
(***************************************************************************)
NobodyWaitsInVain ==
  /\ sendBridge.events # <<>> /\ level = 0 => "response" \in Range(commits)
  /\ recvBridge.events # <<>> /\ state = "handshake" => "request" \in Range(commits)
  /\ recvBridge.events # <<>> /\ state = "accepted" /\ inbound # <<>> =>
       "request" \in Range(commits)

(***************************************************************************)
(* A connection on which both sides have sent a close frame is closed.  No *)
(* run has this among its properties, as it does not hold: the close frame *)
(* of a client that comes while no receive waits stays in Envoy's buffer,  *)
(* and websocket.close writes one without reading it.                      *)
(***************************************************************************)
BothClosed ==
  /\ state = "accepted" /\ connection = "open"
  /\ closeFrame /\ inbound # <<>> /\ Last(inbound).kind = "close"

ClosingFinishes == BothClosed ~> connection # "open"
=============================================================================
