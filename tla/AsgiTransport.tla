---------------------------- MODULE AsgiTransport ----------------------------
(***************************************************************************)
(* A request that an ASGI application makes with the HTTP client           *)
(* (src/asgi/transport.rs): execute hands it to Envoy's thread over the    *)
(* transport bridge, the filter (src/asgi/filter.rs) starts a stream of    *)
(* Envoy's for it and takes the callbacks of that stream, and the event    *)
(* loop completes the futures of the response and of the reads of its      *)
(* body, while a task of the loop forwards the body of the request.        *)
(*                                                                         *)
(* One request is followed.  The chunks of both bodies are numbered.  A    *)
(* commit is scheduled as its event is put on the bridge: the thread of    *)
(* the loop does nothing between the two.                                  *)
(***************************************************************************)
EXTENDS Integers, Sequences, SequencesExt, FiniteSets

CONSTANTS MaxForwarded,  \* bound: the chunks of the request
          MaxData,       \* bound: the chunks of the response
          MaxReads,      \* bound: the reads of the application
          MaxCloses      \* bound: how often it closes the response

ASSUME BoundsAssumption == {MaxForwarded, MaxData, MaxReads, MaxCloses} \subseteq Nat

VARIABLES
  \* the application, on the event loop
  streaming,        \* whether the request's content is an iterator: RequestBody::Iter
  future,           \* the response's future, then its outcome
  reads,            \* what has become of each call of __anext__
  received,         \* the chunks that reads have returned
  closes,           \* the calls of aclose
  task,             \* RequestContentInner.task, which runs forward_bytes
  forwarded,        \* the chunks it has passed on
  \* ResponseContentState
  pendingFuture,    \* the read whose future is pending_future, or 0
  body,
  endStream,
  resetReason,      \* whether there is a reset_reason
  exception,        \* whether there is an exception
  httpTrailers,     \* whether http_trailers holds some
  trailersShown,    \* whether the application's trailers have been filled in
  \* between the threads
  bridge,           \* the transport bridge, which nothing ever closes
  commits,          \* EVENT_ID_OUTGOING_REQUEST callbacks on their way
  loop,             \* what is dispatched to the event loop
  \* the filter
  batch,            \* the drained events it has yet to handle
  filter,           \* "live", "complete" (on_stream_complete ran) or "dropped"
  entry,            \* the request in transport_responses: does its future wait?
  \* Envoy and the upstream
  stream,           \* Envoy's stream for the request
  answer,           \* how far the response of the upstream has come
  fed,              \* the chunks of it that the filter has taken
  requestSeen,      \* the chunks of the request that the upstream was sent
  requestEnded      \* whether it was sent the end

appVars == <<streaming, reads, received, closes>>
taskVars == <<task, forwarded>>
stateVars == <<pendingFuture, body, endStream, resetReason, exception, httpTrailers,
               trailersShown>>
upstreamVars == <<stream, answer, fed, requestSeen, requestEnded>>
vars == <<appVars, future, taskVars, stateVars, bridge, commits, loop, batch, filter,
          entry, upstreamVars>>

Init ==
  /\ streaming \in BOOLEAN /\ future = "none"
  /\ reads = <<>> /\ received = <<>> /\ closes = 0
  /\ task = "none" /\ forwarded = 0
  /\ pendingFuture = 0 /\ body = <<>> /\ endStream = FALSE /\ resetReason = FALSE
  /\ exception = FALSE /\ httpTrailers = FALSE /\ trailersShown = FALSE
  /\ bridge = <<>> /\ commits = 0 /\ loop = <<>> /\ batch = <<>>
  /\ filter = "live" /\ entry = "none"
  /\ stream = "none" /\ answer = "none" /\ fed = 0
  /\ requestSeen = <<>> /\ requestEnded = FALSE

\* TransportEvent; a "fail" is a reset with an exception.
Event(kind, chunk) == [kind |-> kind, chunk |-> chunk]

\* An event joins the bridge, and a callback follows unless the filter is gone.
Send(e) ==
  /\ bridge' = Append(bridge, e)
  /\ commits' = IF filter = "dropped" THEN commits ELSE commits + 1

-----------------------------------------------------------------------------
(* The event loop: the calls of the application.                           *)

\* HTTPTransport.execute.
Execute ==
  /\ future = "none"
  /\ future' = "pending"
  /\ Send(Event("start", 0))
  /\ UNCHANGED <<appVars, taskVars, stateVars, loop, batch, filter, entry, upstreamVars>>

\* The application gives up on the response, by a timeout for instance,
CancelRequest ==
  /\ future = "pending"
  /\ future' = "cancelled"
  /\ UNCHANGED <<appVars, taskVars, stateVars, bridge, commits, loop, batch, filter, entry,
                 upstreamVars>>

\* or, when it has it, on a read of its body,
CancelRead(k) ==
  /\ k \in DOMAIN reads /\ reads[k] = "pending"
  /\ reads' = [reads EXCEPT ![k] = "cancelled"]
  /\ UNCHANGED <<streaming, received, closes, future, taskVars, stateVars, bridge, commits,
                 loop, batch, filter, entry, upstreamVars>>

\* or on the task that the response was given by set_request_iter_task.
CancelTask ==
  /\ future \in {"response", "bare"}
  /\ task = "running"
  /\ task' = "cancelling"
  /\ UNCHANGED <<appVars, future, forwarded, stateVars, bridge, commits, loop, batch,
                 filter, entry, upstreamVars>>

\* What a read finds when it does not have to wait.
Outcome ==
  IF body # <<>> THEN "data"
  ELSE IF exception \/ resetReason THEN "error"
  ELSE "stop"

Ready == body # <<>> \/ endStream

TakeBody ==
  /\ received' = IF Outcome = "data" THEN received \o body ELSE received
  /\ body' = IF Outcome = "data" THEN <<>> ELSE body

\* maybe_copy_trailers_to_py.
CopyTrailers ==
  /\ httpTrailers' = FALSE
  /\ trailersShown' = (trailersShown \/ httpTrailers)

\* __anext__; while there is another read, even one that was cancelled, it
\* returns nothing.
ANext ==
  /\ future = "response"
  /\ Len(reads) < MaxReads
  /\ IF pendingFuture # 0
       THEN /\ reads' = Append(reads, "empty")
            /\ UNCHANGED <<received, pendingFuture, body, httpTrailers, trailersShown>>
       ELSE /\ CopyTrailers
            /\ IF Ready
                 THEN /\ reads' = Append(reads, Outcome)
                      /\ TakeBody
                      /\ UNCHANGED pendingFuture
                 ELSE /\ reads' = Append(reads, "pending")
                      /\ pendingFuture' = Len(reads) + 1
                      /\ UNCHANGED <<received, body>>
  /\ UNCHANGED <<streaming, closes, future, taskVars, endStream, resetReason, exception,
                 bridge, commits, loop, batch, filter, entry, upstreamVars>>

\* aclose, which resets a stream that has not ended.
AClose ==
  /\ future = "response"
  /\ closes < MaxCloses
  /\ closes' = closes + 1
  /\ IF endStream THEN UNCHANGED <<bridge, commits>> ELSE Send(Event("reset", 0))
  /\ UNCHANGED <<streaming, reads, received, future, taskVars, stateVars, loop, batch,
                 filter, entry, upstreamVars>>

-----------------------------------------------------------------------------
(* The event loop: the task that runs forward_bytes.                       *)

\* The request's iterator yields a chunk,
ForwardChunk ==
  /\ task = "running"
  /\ forwarded < MaxForwarded
  /\ forwarded' = forwarded + 1
  /\ Send(Event("data", forwarded + 1))
  /\ UNCHANGED <<appVars, future, task, stateVars, loop, batch, filter, entry, upstreamVars>>

\* or is done, or raises, or the task is cancelled, which it tells the filter.
ForwardLast(state, kind) ==
  /\ task = state
  /\ task' = IF state = "running" /\ kind = "end" THEN "ended" ELSE "failed"
  /\ Send(Event(kind, 0))
  /\ UNCHANGED <<appVars, future, forwarded, stateVars, loop, batch, filter, entry,
                 upstreamVars>>

\* A broken forward_bytes, which ends the body when its task is cancelled.
ForwardEndsAnyway ==
  ForwardLast("running", "end") \/ ForwardLast("running", "fail")
    \/ ForwardLast("cancelling", "end")

ForwardFinish ==
  ForwardLast("running", "end") \/ ForwardLast("running", "fail")
    \/ ForwardLast("cancelling", "reset")

-----------------------------------------------------------------------------
(* The event loop: what Envoy's thread has dispatched to it.               *)

CancelForwarding == task' = IF task = "running" THEN "cancelling" ELSE task

\* RequestContent.start_forwarding.
StartForwarding ==
  /\ task' = "running"
  /\ UNCHANGED <<future, exception, reads, received, pendingFuture, body, httpTrailers,
                 trailersShown>>

\* ReceivedResponseHeadersExecutor.run.
ReceivedHeaders(end) ==
  /\ IF future = "cancelled"
       THEN CancelForwarding /\ UNCHANGED future
       ELSE /\ future' = IF end THEN "bare" ELSE "response"
            /\ UNCHANGED task
  /\ UNCHANGED <<exception, reads, received, pendingFuture, body, httpTrailers,
                 trailersShown>>

\* SetResponseFutureException.run, with the exception that is there by then.
SetException ==
  /\ exception' = FALSE
  /\ future' = IF future = "pending" THEN "error" ELSE future
  /\ CancelForwarding
  /\ UNCHANGED <<reads, received, pendingFuture, body, httpTrailers, trailersShown>>

\* A broken notify, which hands the data to a read that was cancelled.
NotifyCancelled ==
  /\ CopyTrailers
  /\ IF Ready /\ pendingFuture # 0
       THEN /\ pendingFuture' = 0
            /\ IF reads[pendingFuture] = "pending"
                 THEN /\ reads' = [reads EXCEPT ![pendingFuture] = Outcome]
                      /\ TakeBody
                 ELSE /\ body' = <<>>
                      /\ UNCHANGED <<reads, received>>
       ELSE UNCHANGED <<reads, received, pendingFuture, body>>
  /\ UNCHANGED <<task, future, exception>>

\* ResponseContent.notify; the data stays for the next read if this one was
\* cancelled.
Notify ==
  /\ CopyTrailers
  /\ IF Ready /\ pendingFuture # 0
       THEN /\ pendingFuture' = 0
            /\ IF reads[pendingFuture] = "pending"
                 THEN /\ reads' = [reads EXCEPT ![pendingFuture] = Outcome]
                      /\ TakeBody
                 ELSE UNCHANGED <<reads, received, body>>
       ELSE UNCHANGED <<reads, received, pendingFuture, body>>
  /\ UNCHANGED <<task, future, exception>>

RunTask ==
  /\ loop # <<>>
  /\ loop' = Tail(loop)
  /\ CASE Head(loop) = "forward"    -> StartForwarding
       [] Head(loop) = "headers"    -> ReceivedHeaders(FALSE)
       [] Head(loop) = "headersEnd" -> ReceivedHeaders(TRUE)
       [] Head(loop) = "fail"       -> SetException
       [] Head(loop) = "notify"     -> Notify
  /\ UNCHANGED <<streaming, closes, forwarded, endStream, resetReason, bridge, commits,
                 batch, filter, entry, upstreamVars>>

-----------------------------------------------------------------------------
(* Envoy's thread: the filter takes up what is on the bridge.              *)

\* on_scheduled(EVENT_ID_OUTGOING_REQUEST).
OnScheduled ==
  /\ commits > 0 /\ filter # "dropped" /\ batch = <<>>
  /\ commits' = commits - 1
  /\ batch' = bridge
  /\ bridge' = <<>>
  /\ UNCHANGED <<appVars, future, taskVars, stateVars, loop, filter, entry, upstreamVars>>

NotifyIfPending(tasks) == IF pendingFuture # 0 THEN Append(tasks, "notify") ELSE tasks

\* Start: Envoy may not know the cluster.
HandleStart ==
  /\ \/ /\ stream' = "open"
        /\ entry' = "waiting"
        /\ requestEnded' = ~streaming
        /\ loop' = IF streaming THEN Append(loop, "forward") ELSE loop
     \/ /\ loop' = Append(loop, "fail")
        /\ UNCHANGED <<stream, entry, requestEnded>>
  /\ UNCHANGED <<stateVars, answer, fed, requestSeen>>

\* SendData, for a stream that has not been reset by now.
HandleData(e) ==
  /\ IF entry # "none"
       THEN /\ requestSeen' = IF e.kind = "data" THEN Append(requestSeen, e.chunk)
                              ELSE requestSeen
            /\ requestEnded' = (requestEnded \/ e.kind = "end")
       ELSE UNCHANGED <<requestSeen, requestEnded>>
  /\ UNCHANGED <<stateVars, loop, entry, stream, answer, fed>>

\* A broken on_http_stream_reset, which only marks the content.
OnHttpStreamResetSilent ==
  /\ stream' = "gone"
  /\ entry' = "none"
  /\ IF entry = "none"
       THEN UNCHANGED <<endStream, resetReason, loop>>
       ELSE /\ endStream' = TRUE
            /\ resetReason' = TRUE
            /\ loop' = IF entry = "waiting" THEN Append(loop, "fail") ELSE loop

\* on_http_stream_reset: the entry goes, and whoever waits hears of it.
OnHttpStreamReset ==
  /\ stream' = "gone"
  /\ entry' = "none"
  /\ IF entry = "none"
       THEN UNCHANGED <<endStream, resetReason, loop>>
       ELSE /\ endStream' = TRUE
            /\ resetReason' = TRUE
            /\ loop' = NotifyIfPending(IF entry = "waiting" THEN Append(loop, "fail") ELSE loop)

\* Reset, which re-enters on_http_stream_reset.
HandleReset(e) ==
  /\ IF entry # "none"
       THEN exception' = (exception \/ e.kind = "fail") /\ OnHttpStreamReset
       ELSE UNCHANGED <<exception, endStream, resetReason, loop, entry, stream>>
  /\ UNCHANGED <<pendingFuture, body, httpTrailers, trailersShown, answer, fed, requestSeen,
                 requestEnded>>

HandleEvent ==
  /\ batch # <<>>
  /\ batch' = Tail(batch)
  /\ CASE Head(batch).kind = "start"            -> HandleStart
       [] Head(batch).kind \in {"data", "end"}   -> HandleData(Head(batch))
       [] Head(batch).kind \in {"reset", "fail"} -> HandleReset(Head(batch))
  /\ UNCHANGED <<appVars, future, taskVars, bridge, commits, filter>>

-----------------------------------------------------------------------------
(* Envoy's thread: the callbacks of the stream, and of the server's own    *)
(* request.                                                                *)

\* The stream's callbacks come between those of the filter.
Callback == stream = "open" /\ filter # "dropped" /\ batch = <<>>

\* on_http_stream_headers, which resets a stream that the filter has forgotten.
UpstreamHeaders(end) ==
  /\ Callback /\ answer = "none"
  /\ answer' = IF end THEN "ended" ELSE "headers"
  /\ IF entry = "none"
       THEN stream' = "gone" /\ UNCHANGED <<entry, loop>>
       ELSE /\ entry' = "answered"
            /\ loop' = Append(loop, IF end THEN "headersEnd" ELSE "headers")
            /\ UNCHANGED stream
  /\ UNCHANGED <<appVars, future, taskVars, stateVars, bridge, commits, batch, filter, fed,
                 requestSeen, requestEnded>>

\* on_http_stream_data, with a chunk or, at the end, without one.
UpstreamData(hasChunk, end) ==
  /\ Callback /\ answer = "headers"
  /\ hasChunk \/ end
  /\ hasChunk => fed < MaxData
  /\ answer' = IF end THEN "ended" ELSE "headers"
  /\ IF entry = "none"
       THEN UNCHANGED <<fed, body, endStream, loop>>
       ELSE /\ fed' = IF hasChunk THEN fed + 1 ELSE fed
            /\ body' = IF hasChunk THEN Append(body, fed + 1) ELSE body
            /\ endStream' = (endStream \/ end)
            /\ loop' = NotifyIfPending(loop)
  /\ UNCHANGED <<appVars, future, taskVars, pendingFuture, resetReason, exception,
                 httpTrailers, trailersShown, bridge, commits, batch, filter, entry, stream,
                 requestSeen, requestEnded>>

\* on_http_stream_trailers, which are the end.
UpstreamTrailers ==
  /\ Callback /\ answer = "headers"
  /\ answer' = "trailers"
  /\ IF entry = "none"
       THEN UNCHANGED <<httpTrailers, endStream, loop>>
       ELSE /\ httpTrailers' = TRUE
            /\ endStream' = TRUE
            /\ loop' = NotifyIfPending(loop)
  /\ UNCHANGED <<appVars, future, taskVars, pendingFuture, body, resetReason, exception,
                 trailersShown, bridge, commits, batch, filter, entry, stream, fed,
                 requestSeen, requestEnded>>

\* The upstream resets the stream, or its timeout is over.
UpstreamReset ==
  /\ Callback
  /\ OnHttpStreamReset
  /\ UNCHANGED <<appVars, future, taskVars, pendingFuture, body, exception, httpTrailers,
                 trailersShown, bridge, commits, batch, filter, answer, fed, requestSeen,
                 requestEnded>>

\* on_http_stream_complete: both directions have ended.
UpstreamComplete ==
  /\ Callback /\ answer \in {"ended", "trailers"} /\ requestEnded
  /\ stream' = "gone"
  /\ entry' = "none"
  /\ UNCHANGED <<appVars, future, taskVars, stateVars, bridge, commits, loop, batch, filter,
                 answer, fed, requestSeen, requestEnded>>

\* A broken on_stream_complete, which forgets the outgoing requests.
OnStreamCompleteForgets ==
  /\ filter = "live" /\ batch = <<>>
  /\ filter' = "complete"
  /\ entry' = "none"
  /\ UNCHANGED <<appVars, future, taskVars, stateVars, bridge, commits, loop, batch,
                 upstreamVars>>

\* on_stream_complete of the server's request: the outgoing one is failed.
OnStreamComplete ==
  /\ filter = "live" /\ batch = <<>>
  /\ filter' = "complete"
  /\ entry' = "none"
  /\ CASE entry = "waiting"  -> /\ loop' = Append(loop, "fail")
                                /\ UNCHANGED <<endStream, resetReason>>
       [] entry = "answered" -> /\ endStream' = TRUE /\ resetReason' = TRUE
                                /\ loop' = NotifyIfPending(loop)
       [] OTHER              -> UNCHANGED <<loop, endStream, resetReason>>
  /\ UNCHANGED <<appVars, future, taskVars, pendingFuture, body, exception, httpTrailers,
                 trailersShown, bridge, commits, batch, upstreamVars>>

\* Envoy destroys the filter, its streams and the callbacks scheduled on it.
Drop ==
  /\ filter = "complete" /\ batch = <<>>
  /\ filter' = "dropped"
  /\ commits' = 0
  /\ entry' = "none"
  /\ stream' = IF stream = "open" THEN "gone" ELSE stream
  /\ UNCHANGED <<appVars, future, taskVars, stateVars, bridge, loop, batch, answer, fed,
                 requestSeen, requestEnded>>

Terminated ==
  /\ filter = "dropped" /\ loop = <<>> /\ future # "none"
  /\ task \notin {"running", "cancelling"}
  /\ UNCHANGED vars

LoopStep ==
  \/ Execute \/ CancelRequest \/ CancelTask \/ ANext \/ AClose
  \/ \E k \in 1..MaxReads : CancelRead(k)
  \/ ForwardChunk \/ ForwardFinish
  \/ RunTask

UpstreamStep ==
  \/ \E end \in BOOLEAN : UpstreamHeaders(end)
  \/ \E hasChunk, end \in BOOLEAN : UpstreamData(hasChunk, end)
  \/ UpstreamTrailers \/ UpstreamReset \/ UpstreamComplete

Next ==
  \/ LoopStep \/ OnScheduled \/ HandleEvent
  \/ UpstreamStep \/ OnStreamComplete \/ Drop
  \/ Terminated

(***************************************************************************)
(* The event loop and Envoy's thread run what is theirs, and every stream  *)
(* has a timeout, at which Envoy resets it.  The application and the       *)
(* upstream need not do anything, and the server's request may last.       *)
(***************************************************************************)
Fairness ==
  /\ WF_vars(OnScheduled) /\ WF_vars(HandleEvent)
  /\ WF_vars(RunTask)
  /\ WF_vars(UpstreamReset)

Spec == Init /\ [][Next]_vars /\ Fairness

-----------------------------------------------------------------------------
TransportEvents ==
  [kind : {"start", "data", "end", "reset", "fail"}, chunk : 0..MaxForwarded]

\* The states of the parts.
TypeOK ==
  /\ streaming \in BOOLEAN
  /\ future \in {"none", "pending", "cancelled", "response", "bare", "error"}
  /\ reads \in Seq({"pending", "cancelled", "data", "error", "stop", "empty"})
  /\ received \in Seq(1..MaxData) /\ closes \in 0..MaxCloses
  /\ task \in {"none", "running", "cancelling", "ended", "failed"}
  /\ forwarded \in 0..MaxForwarded
  /\ pendingFuture \in 0..Len(reads) /\ body \in Seq(1..MaxData)
  /\ {endStream, resetReason, exception, httpTrailers, trailersShown} \subseteq BOOLEAN
  /\ bridge \in Seq(TransportEvents) /\ batch \in Seq(TransportEvents)
  /\ commits \in Nat
  /\ loop \in Seq({"forward", "headers", "headersEnd", "fail", "notify"})
  /\ filter \in {"live", "complete", "dropped"}
  /\ entry \in {"none", "waiting", "answered"}
  /\ stream \in {"none", "open", "gone"}
  /\ answer \in {"none", "headers", "ended", "trailers"} /\ fed \in 0..MaxData
  /\ requestSeen \in Seq(1..MaxForwarded) /\ requestEnded \in BOOLEAN

(***************************************************************************)
(* The future of the response is in one place while it is pending: with    *)
(* the start of the request, in transport_responses or with a completion   *)
(* that is dispatched, unless the filter was dropped with it; and once it  *)
(* has its result it is in none, so that its result is never set twice.    *)
(* A read that waits is pending_future, and is notified if there is        *)
(* something for it.  The filter has an entry only while there is a        *)
(* stream, so that it never names one to Envoy that is gone.               *)
(***************************************************************************)
Places(place, s, kinds) == {<<place, k>> : k \in {k \in DOMAIN s : s[k] \in kinds}}

Holders ==
  Places("bridge", bridge, {Event("start", 0)})
    \cup Places("filter", batch, {Event("start", 0)})
    \cup Places("loop", loop, {"headers", "headersEnd", "fail"})
    \cup (IF entry = "waiting" THEN {<<"entry", 0>>} ELSE {})

FuturesAccounted ==
  /\ TypeOK
  /\ CASE future = "pending"   -> Cardinality(Holders) = 1
                                    \/ (filter = "dropped" /\ Holders = {})
       [] future = "cancelled" -> Cardinality(Holders) <= 1
       [] OTHER                -> Holders = {}
  /\ \A k \in DOMAIN reads : reads[k] = "pending" => pendingFuture = k
  /\ pendingFuture # 0 /\ Ready => "notify" \in Range(loop)
  /\ entry # "none" => stream = "open"

(***************************************************************************)
(* The application reads the body in order: no chunk is lost to a read     *)
(* that was cancelled, to one that races with the chunk or to a reset that *)
(* follows it.  The reads end only where the response does, and then the   *)
(* body is complete and the trailers are there; they fail only for a       *)
(* reason.                                                                 *)
(***************************************************************************)
ResponseIsTruthful ==
  /\ received \o body = [k \in 1..fed |-> k]
  /\ "stop" \in Range(reads) =>
       /\ body = <<>>
       /\ answer \in {"ended", "trailers"}
       /\ answer = "trailers" => trailersShown
  /\ "error" \in Range(reads) => body = <<>> /\ (resetReason \/ exception)

(***************************************************************************)
(* The upstream sees the chunks of the request in order, and takes it for  *)
(* complete only if the iterator has ended and every chunk is there: one   *)
(* whose iterator failed, or whose task was cancelled, is not ended.  It   *)
(* is reset, unless the task was cancelled before its first step.          *)
(***************************************************************************)
RequestIsTruthful ==
  /\ requestSeen = [k \in 1..Len(requestSeen) |-> k]
  /\ streaming /\ requestEnded => task = "ended" /\ Len(requestSeen) = forwarded

(***************************************************************************)
(* The await of a request returns, and so does every read of its response, *)
(* whatever the upstream does and however the server's request ends; but   *)
(* nothing completes a request that the filter had yet to take up when the *)
(* server's request was complete.                                          *)
(***************************************************************************)
NotTakenUp == filter # "live" /\ Event("start", 0) \in Range(bridge \o batch)

Waits(n) == n \in DOMAIN reads /\ reads[n] = "pending"

CallsReturn ==
  /\ future = "pending" /\ filter = "live" ~> future # "pending" \/ NotTakenUp
  /\ \A n \in 1..MaxReads : Waits(n) /\ filter = "live" ~> ~Waits(n)
=============================================================================
