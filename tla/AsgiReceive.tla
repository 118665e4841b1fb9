----------------------------- MODULE AsgiReceive -----------------------------
(***************************************************************************)
(* The request of an ASGI application: its calls of receive, each of which *)
(* returns a future (RecvCallable and EmptyRecvCallable in                 *)
(* src/asgi/python/mod.rs), the bridge that carries the futures to Envoy's *)
(* thread, the filter that answers them out of Envoy's buffers             *)
(* (src/asgi/filter.rs), and the event loop, to which every completion of  *)
(* a future is dispatched.  LoopDispatch shows that a loop runs what is    *)
(* dispatched to it, in order.                                             *)
(*                                                                         *)
(* Each callback of the filter is one step.  The steps of the loop's       *)
(* thread are between its uses of what the two threads share.  The bytes   *)
(* of the body are numbered in the order in which the client sends them,   *)
(* the futures in the order in which receive returns them.                 *)
(***************************************************************************)
EXTENDS Integers, Sequences, SequencesExt, FiniteSets, Bridge

CONSTANTS MaxBody,     \* bound: the longest request body
          Window,      \* Envoy's buffer limit: the client is held back beyond it
          MaxReceives  \* bound: the calls of receive

VARIABLES
  \* Envoy's side
  arrived,        \* the number of bytes the client has sent
  buffered,       \* the bytes in Envoy's buffer
  filter,         \* "new", "live", "complete" (on_stream_complete ran), "dropped"
  requestClosed,  \* Filter.request_closed
  \* between the threads
  recvBridge,     \* recv_bridge, with the futures that wait for an event
  commits,        \* EVENT_ID_REQUEST callbacks on their way
  loop,           \* the completions dispatched to the event loop
  \* the loop's thread
  empty,          \* whether the application was given an EmptyRecvCallable
  committing,     \* whether receive is about to commit
  receives        \* what has become of each future

envoyVars == <<arrived, buffered, filter, requestClosed>>
vars == <<envoyVars, recvBridge, commits, loop, empty, committing, receives>>

\* An ASGI event, or the state of a future that has none.
Request(bytes, more) == [type |-> "request", body |-> bytes, more |-> more]
NoRequest(type) == [type |-> type, body |-> <<>>, more |-> FALSE]
Disconnect == NoRequest("disconnect")
Pending    == NoRequest("pending")
Cancelled  == NoRequest("cancelled")

Completion(future, event) == [future |-> future, event |-> event]

Init ==
  /\ arrived = 0 /\ buffered = <<>> /\ filter = "new" /\ requestClosed = FALSE
  /\ recvBridge = OpenBridge /\ commits = 0 /\ loop = <<>>
  /\ empty = FALSE /\ committing = FALSE /\ receives = <<>>

-----------------------------------------------------------------------------
(* The filter.                                                             *)

\* A broken handle_read, whose empty events claim that the body has ended.
HandleReadEnds(received, closed) ==
  LET available == buffered \o received
      waiting   == recvBridge.events
  IN  IF (closed \/ available # <<>>) /\ waiting # <<>>
        THEN /\ loop' = loop \o [k \in DOMAIN waiting |->
                  Completion(waiting[k], IF k = 1 THEN Request(available, ~closed)
                                                  ELSE Request(<<>>, FALSE))]
             /\ recvBridge' = Drained(recvBridge)
             /\ buffered' = <<>>
        ELSE /\ buffered' = available
             /\ UNCHANGED <<loop, recvBridge>>

\* handle_read, with the bytes that just came: if there is something to tell,
\* the first waiting future gets all the bytes of Envoy's buffers, and any other
\* an empty event.
HandleRead(received, closed) ==
  LET available == buffered \o received
      waiting   == recvBridge.events
  IN  IF (closed \/ available # <<>>) /\ waiting # <<>>
        THEN /\ loop' = loop \o [k \in DOMAIN waiting |->
                  Completion(waiting[k],
                             Request(IF k = 1 THEN available ELSE <<>>, ~closed))]
             /\ recvBridge' = Drained(recvBridge)
             /\ buffered' = <<>>
        ELSE /\ buffered' = available
             /\ UNCHANGED <<loop, recvBridge>>

\* on_request_headers starts the application.
OnRequestHeaders(endOfStream) ==
  /\ filter = "new"
  /\ filter' = "live"
  /\ requestClosed' = endOfStream
  /\ empty' = endOfStream
  /\ UNCHANGED <<arrived, buffered, recvBridge, commits, loop, committing, receives>>

\* on_request_body with n bytes, for as long as the client may send.
OnRequestBody(n, endOfStream) ==
  /\ filter = "live" /\ ~requestClosed
  /\ n = 0 => endOfStream
  /\ n > 0 => Len(buffered) < Window
  /\ arrived + n <= MaxBody
  /\ arrived' = arrived + n
  /\ requestClosed' = endOfStream
  /\ HandleRead([k \in 1..n |-> arrived + k], endOfStream)
  /\ UNCHANGED <<filter, commits, empty, committing, receives>>

\* A broken end of the request, which does not look for futures that wait.
OnRequestTrailersOnly ==
  /\ filter = "live" /\ ~requestClosed
  /\ requestClosed' = TRUE
  /\ UNCHANGED <<arrived, buffered, filter, recvBridge, commits, loop, empty,
                 committing, receives>>

OnRequestTrailers ==
  /\ filter = "live" /\ ~requestClosed
  /\ requestClosed' = TRUE
  /\ HandleRead(<<>>, TRUE)
  /\ UNCHANGED <<arrived, filter, commits, empty, committing, receives>>

\* on_scheduled(EVENT_ID_REQUEST), which can also run after on_stream_complete.
OnScheduled ==
  /\ commits > 0 /\ filter \in {"live", "complete"}
  /\ commits' = commits - 1
  /\ HandleRead(<<>>, requestClosed)
  /\ UNCHANGED <<arrived, filter, requestClosed, empty, committing, receives>>

\* A broken close, which forgets the futures instead of dropping them.
OnStreamCompleteForgets ==
  /\ filter = "live"
  /\ filter' = "complete"
  /\ recvBridge' = ClosedBridge
  /\ UNCHANGED <<arrived, buffered, requestClosed, commits, loop, empty, committing,
                 receives>>

\* on_stream_complete closes the bridge, and each RecvFuture that is dropped
\* with it dispatches a disconnection.
OnStreamComplete ==
  /\ filter = "live"
  /\ filter' = "complete"
  /\ recvBridge' = ClosedBridge
  /\ loop' = loop \o [k \in DOMAIN recvBridge.events |->
                        Completion(recvBridge.events[k], Disconnect)]
  /\ UNCHANGED <<arrived, buffered, requestClosed, commits, empty, committing,
                 receives>>

\* Envoy destroys the filter and the callbacks that were scheduled on it.
Drop ==
  /\ filter = "complete"
  /\ filter' = "dropped"
  /\ commits' = 0
  /\ buffered' = <<>>
  /\ UNCHANGED <<arrived, requestClosed, recvBridge, loop, empty, committing, receives>>

-----------------------------------------------------------------------------
(* The loop's thread, which does one thing at a time.                      *)

\* receive, which returns a future; if the bridge is closed the RecvFuture is
\* dropped at once.
Receive ==
  /\ filter # "new" /\ ~empty /\ ~committing
  /\ Len(receives) < MaxReceives
  /\ LET future == Len(receives) + 1
     IN  /\ recvBridge' = Sent(recvBridge, future)
         /\ loop' = IF recvBridge.closed
                      THEN Append(loop, Completion(future, Disconnect))
                      ELSE loop
  /\ committing' = ~recvBridge.closed
  /\ receives' = Append(receives, Pending)
  /\ UNCHANGED <<envoyVars, commits, empty>>

\* scheduler.commit, which does nothing for a filter that is gone.
Commit ==
  /\ committing
  /\ committing' = FALSE
  /\ commits' = IF filter = "dropped" THEN commits ELSE commits + 1
  /\ UNCHANGED <<envoyVars, recvBridge, loop, empty, receives>>

\* receive of a request that ended with its headers.
ReceiveEmpty ==
  /\ filter # "new" /\ empty
  /\ Len(receives) < MaxReceives
  /\ receives' = Append(receives, IF filter = "live" THEN Request(<<>>, FALSE)
                                                     ELSE Disconnect)
  /\ UNCHANGED <<envoyVars, recvBridge, commits, loop, empty, committing>>

\* The application gives up on a future, by a timeout for instance.
CancelReceive(n) ==
  /\ ~committing
  /\ n \in DOMAIN receives /\ receives[n] = Pending
  /\ receives' = [receives EXCEPT ![n] = Cancelled]
  /\ UNCHANGED <<envoyVars, recvBridge, commits, loop, empty, committing>>

\* The loop completes a future.  To complete one that was cancelled is an error
\* that is logged, and changes nothing.
RunTask ==
  /\ ~committing
  /\ loop # <<>>
  /\ loop' = Tail(loop)
  /\ LET n == Head(loop).future
     IN  receives' = IF receives[n] = Pending
                       THEN [receives EXCEPT ![n] = Head(loop).event]
                       ELSE receives
  /\ UNCHANGED <<envoyVars, recvBridge, commits, empty, committing>>

\* Nothing is left to do.
Terminated ==
  /\ filter = "dropped" /\ loop = <<>> /\ ~committing
  /\ Len(receives) = MaxReceives
  /\ UNCHANGED vars

Next ==
  \/ \E endOfStream \in BOOLEAN : OnRequestHeaders(endOfStream)
  \/ \E n \in 0..MaxBody, endOfStream \in BOOLEAN : OnRequestBody(n, endOfStream)
  \/ OnRequestTrailers
  \/ OnScheduled
  \/ OnStreamComplete
  \/ Drop
  \/ Receive \/ Commit \/ ReceiveEmpty
  \/ \E n \in 1..MaxReceives : CancelReceive(n)
  \/ RunTask
  \/ Terminated

(***************************************************************************)
(* Envoy runs what was scheduled on a filter that it has not destroyed,    *)
(* and the event loop runs.  The client need not send anything.            *)
(***************************************************************************)
Fairness == WF_vars(OnScheduled) /\ WF_vars(Commit) /\ WF_vars(RunTask)

Safety == Init /\ [][Next]_vars
Spec == Safety /\ Fairness

-----------------------------------------------------------------------------
Futures == 1..MaxReceives
Events == [type : {"request", "disconnect"}, body : Seq(1..MaxBody), more : BOOLEAN]

\* The state is well formed.
TypeOK ==
  /\ arrived \in 0..MaxBody /\ buffered \in Seq(1..MaxBody)
  /\ filter \in {"new", "live", "complete", "dropped"} /\ requestClosed \in BOOLEAN
  /\ recvBridge \in Bridges(Futures) /\ commits \in 0..MaxReceives
  /\ loop \in Seq([future : Futures, event : Events])
  /\ empty \in BOOLEAN /\ committing \in BOOLEAN
  /\ receives \in Seq(Events \cup {Pending, Cancelled}) /\ Len(receives) <= MaxReceives

(***************************************************************************)
(* "These futures must be completed, or else the Python side will hang     *)
(* forever": a future that is pending is in one place, on the bridge or in *)
(* a completion that is dispatched, and one that has its event is in none, *)
(* so that none is completed twice.                                        *)
(***************************************************************************)
Holders(n) ==
  {<<"bridge", k>> : k \in {k \in DOMAIN recvBridge.events : recvBridge.events[k] = n}}
    \cup {<<"loop", k>> : k \in {k \in DOMAIN loop : loop[k].future = n}}

OneHolder ==
  /\ TypeOK
  /\ \A n \in DOMAIN receives :
       CASE receives[n] = Pending   -> Cardinality(Holders(n)) = 1
         [] receives[n] = Cancelled -> Cardinality(Holders(n)) <= 1
         [] OTHER                   -> Holders(n) = {}

(***************************************************************************)
(* The bytes the client sent are, in order, those the application got,     *)
(* those on their way to it, and those in Envoy's buffer.  None is missing *)
(* unless the application cancelled a receive: the bytes of an event for a *)
(* cancelled future are lost.  An event without more_body ends the body:   *)
(* all of it has been received by then.  A disconnection is told after the *)
(* end of the stream only, and nothing but disconnections after it.        *)
(***************************************************************************)
Fragments ==
  [n \in DOMAIN receives |-> receives[n].body]
    \o [k \in DOMAIN loop |-> loop[k].event.body] \o <<buffered>>

Increasing(s) == \A j, k \in DOMAIN s : j < k => s[j] < s[k]
Before(s, t) == \A j \in DOMAIN s, k \in DOMAIN t : s[j] < t[k]
BytesOf(fragments) == UNION {Range(fragments[k]) : k \in DOMAIN fragments}
AnyCancelled == \E n \in DOMAIN receives : receives[n] = Cancelled

BodyConserved ==
  /\ \A k \in DOMAIN Fragments : Increasing(Fragments[k])
  /\ \A j, k \in DOMAIN Fragments : j < k => Before(Fragments[j], Fragments[k])
  /\ filter # "dropped" /\ ~AnyCancelled => BytesOf(Fragments) = 1..arrived

ReceivedUpTo(n) == BytesOf([m \in 1..n |-> receives[m].body])

EventsAreTruthful ==
  /\ BodyConserved
  /\ \A n \in DOMAIN receives :
       /\ receives[n].type = "request" /\ ~receives[n].more =>
            /\ requestClosed
            /\ AnyCancelled \/ ReceivedUpTo(n) = 1..arrived
       /\ receives[n] = Disconnect =>
            /\ filter \notin {"new", "live"}
            /\ \A m \in n..Len(receives) : receives[m] \in {Disconnect, Pending, Cancelled}

(***************************************************************************)
(* A receive returns when there is something to tell: bytes, the end of    *)
(* the body, or the end of the stream.                                     *)
(***************************************************************************)
Waits(n) == n \in DOMAIN receives /\ receives[n] = Pending

ReceivesReturn ==
  \A n \in Futures :
    Waits(n) /\ (buffered # <<>> \/ requestClosed \/ filter # "live") ~> ~Waits(n)
=============================================================================
