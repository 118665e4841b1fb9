---------------------------- MODULE WsgiTransport ----------------------------
(***************************************************************************)
(* A request that a WSGI application makes with the HTTP client            *)
(* (src/wsgi/transport.rs): the application's thread hands it to Envoy's   *)
(* thread over the transport bridge and blocks on a channel, to which the  *)
(* filter (src/wsgi/filter.rs) sends what comes of it; a worker of the     *)
(* blocking pool iterates the body of the request.  A deadline may pass at *)
(* any time, and another thread may close the response while it is read,   *)
(* also without a GIL between them.                                        *)
(*                                                                         *)
(* One request is followed.  The chunks of both bodies are numbered.  A    *)
(* commit is scheduled as its event is put on the bridge: no thread does   *)
(* anything between the two.                                               *)
(***************************************************************************)
EXTENDS Integers, Sequences, SequencesExt, Bridge

CONSTANTS MaxForwarded,  \* bound: the chunks of the request
          MaxData,       \* bound: the chunks of the response
          MaxReads       \* bound: the calls of __next__

ASSUME BoundsAssumption == MaxForwarded \in Nat /\ MaxData \in Nat /\ MaxReads \in Nat

Threads == {"reader", "closer"}

VARIABLES
  \* the application
  streaming,        \* whether the request's content is an iterator
  expired,          \* whether the deadline has passed, if the client has a timeout
  call,             \* where execute_sync is, or what became of it
  late,             \* whether the deadline had passed when the receive began
  \* ResponseContent
  reading,          \* whether the reader is in __next__
  results,          \* what its calls have returned
  received,         \* the chunks among them
  trailersShown,    \* whether the application's trailers have been filled in
  ended,
  abandoned,        \* whether it was a close or drop that set ended first
  closing,          \* where each thread is in close: before the "reset", the "iter" or not
  raced,            \* whether a close went on before the reset of another was sent
  \* the request's iterator and ForwardRequest
  requestIter,      \* whether RequestIterCloser, or the response, still owns it
  iterClosed,       \* whether close_request_iterator has closed it
  worker,
  exhausted,        \* whether the iterator has come to its own end
  forwarded,        \* the chunks it has yielded
  \* between the threads
  channel,          \* the TransportResponses on their way
  bridge,           \* transport_bridge
  commits,          \* EVENT_ID_OUTGOING_REQUEST callbacks on their way
  \* the filter
  batch,            \* the drained events it has yet to handle
  filter,           \* "live", "complete" (on_stream_complete ran) or "dropped"
  entry,            \* whether the request is in transport_responses
  \* Envoy and the upstream
  stream,           \* Envoy's stream for the request
  answer,           \* how far the response of the upstream has come
  fed,              \* the chunks of it that the filter has taken
  requestSeen,      \* the chunks of the request that the upstream was sent
  requestEnded      \* whether it was sent the end

readVars == <<reading, results, received, trailersShown>>
closeVars == <<ended, abandoned, closing, raced>>
iterVars == <<requestIter, iterClosed>>
workerVars == <<worker, exhausted, forwarded>>
upstreamVars == <<stream, answer, fed, requestSeen, requestEnded>>
filterVars == <<batch, filter, entry>>
vars == <<streaming, expired, call, late, readVars, closeVars, iterVars, workerVars, channel,
          bridge, commits, filterVars, upstreamVars>>

Init ==
  /\ streaming \in BOOLEAN
  /\ expired = FALSE /\ call = "none" /\ late = FALSE
  /\ reading = FALSE /\ results = <<>> /\ received = <<>> /\ trailersShown = FALSE
  /\ ended = FALSE /\ abandoned = FALSE /\ closing = [t \in Threads |-> "no"]
  /\ raced = FALSE
  /\ requestIter = streaming /\ iterClosed = FALSE
  /\ worker = "none" /\ exhausted = FALSE /\ forwarded = 0
  /\ channel = <<>> /\ bridge = OpenBridge /\ commits = 0 /\ batch = <<>>
  /\ filter = "live" /\ entry = FALSE
  /\ stream = "none" /\ answer = "none" /\ fed = 0
  /\ requestSeen = <<>> /\ requestEnded = FALSE

\* A TransportEvent, of which a "fail" is a reset with an exception, or a
\* TransportResponse, of which a "failure" is one.
Event(kind, chunk) == [kind |-> kind, chunk |-> chunk]

\* An event joins the bridge and a callback follows, or the bridge is closed and
\* the event is dropped.
Send(e) ==
  /\ bridge' = Sent(bridge, e)
  /\ commits' = IF bridge.closed THEN commits ELSE commits + 1

\* The channel closes when the last response_tx is gone: that of the event, or
\* that of the filter.
HasSender == entry \/ Event("start", 0) \in Range(bridge.events \o batch)

\* The time of the deadline comes.
Expire ==
  /\ ~expired /\ call # "none"
  /\ expired' = TRUE
  /\ UNCHANGED <<streaming, call, late, readVars, closeVars, iterVars, workerVars, channel,
                 bridge, commits, filterVars, upstreamVars>>

-----------------------------------------------------------------------------
(* The application's thread in execute_sync.  A receive that begins after  *)
(* the deadline does not look at the channel; one that began before it may *)
(* still time out beside a message.                                        *)

Execute ==
  /\ call = "none"
  /\ call' = "starting"
  /\ Send(Event("start", 0))
  /\ UNCHANGED <<streaming, expired, late, readVars, closeVars, iterVars, workerVars,
                 channel, filterVars, upstreamVars>>

Received(kind) == ~late /\ channel # <<>> /\ Head(channel).kind = kind
ReceivedReset == Received("reset") \/ Received("failure")
Disconnected == ~late /\ channel = <<>> /\ ~HasSender

\* What is left to do about the iterator: nothing if it has no owner any more.
ToCloseIter == IF requestIter THEN "iter" ELSE "no"

\* execute_sync returns, and drops its RequestIterCloser and its receiver.
Over(outcome) ==
  /\ call' = outcome
  /\ closing' = [closing EXCEPT !["reader"] = ToCloseIter]
  /\ channel' = <<>>
  /\ late' = FALSE

\* The stream has started: the pool is given the body of the request.
Started ==
  /\ call = "starting" /\ Received("started")
  /\ call' = "heading"
  /\ channel' = Tail(channel)
  /\ late' = expired
  /\ worker' = IF streaming THEN "queued" ELSE worker
  /\ UNCHANGED <<streaming, expired, readVars, closeVars, iterVars, exhausted, forwarded,
                 bridge, commits, filterVars, upstreamVars>>

\* The response has content, which takes over the iterator and the receiver,
Response ==
  /\ call = "heading" /\ Received("headers")
  /\ call' = "response"
  /\ channel' = Tail(channel)
  /\ UNCHANGED <<streaming, expired, late, readVars, closeVars, iterVars, workerVars, bridge,
                 commits, filterVars, upstreamVars>>

\* or it has none, or there is an error.
Fails ==
  /\ \/ call = "heading" /\ Received("headersEnd") /\ Over("bare")
     \/ call \in {"starting", "heading"} /\ (ReceivedReset \/ Disconnected) /\ Over("failed")
     \/ call = "starting" /\ expired /\ Over("timedOutEarly")
  /\ UNCHANGED <<streaming, expired, readVars, ended, abandoned, raced, iterVars,
                 workerVars, bridge, commits, filterVars, upstreamVars>>

\* The deadline has passed: the stream is reset before the iterator is closed.
HeadingTimedOut ==
  /\ call = "heading" /\ expired
  /\ Over("timedOut")
  /\ Send(Event("reset", 0))
  /\ UNCHANGED <<streaming, expired, readVars, ended, abandoned, raced, iterVars,
                 workerVars, filterVars, upstreamVars>>

-----------------------------------------------------------------------------
(* ResponseContent, read by one thread and closed by that or another one.  *)

\* __next__ of an ended response, or one that begins to wait.
NextBegins ==
  /\ call = "response" /\ ~reading /\ closing["reader"] = "no"
  /\ Len(results) < MaxReads
  /\ IF ended
       THEN results' = Append(results, "stop") /\ UNCHANGED <<reading, late>>
       ELSE reading' = TRUE /\ late' = expired /\ UNCHANGED results
  /\ UNCHANGED <<streaming, expired, call, received, trailersShown, closeVars, iterVars,
                 workerVars, channel, bridge, commits, filterVars, upstreamVars>>

\* __next__ gets a chunk,
NextData ==
  /\ reading /\ Received("body")
  /\ channel' = Tail(channel)
  /\ received' = Append(received, Head(channel).chunk)
  /\ results' = Append(results, "data")
  /\ reading' = FALSE /\ late' = FALSE
  /\ UNCHANGED <<streaming, expired, call, trailersShown, closeVars, iterVars,
                 workerVars, bridge, commits, filterVars, upstreamVars>>

\* or the end of the response, or a reset, or nobody is left to send any,
NextEnds ==
  /\ reading
  /\ \/ Received("end") \/ Received("trailers") \/ ReceivedReset \/ Disconnected
  /\ channel' = IF channel = <<>> THEN channel ELSE Tail(channel)
  /\ results' = Append(results, IF ReceivedReset \/ Disconnected THEN "error" ELSE "stop")
  /\ trailersShown' = Received("trailers")
  /\ reading' = FALSE /\ late' = FALSE
  /\ ended' = TRUE
  /\ UNCHANGED <<streaming, expired, call, received, abandoned, closing, raced,
                 iterVars, workerVars, bridge, commits, filterVars, upstreamVars>>

\* A broken reset, which is not sent if a read is waiting.
BeginCloseUnlessReading(t) ==
  /\ ended' = TRUE
  /\ abandoned' = (abandoned \/ ~ended)
  /\ closing' = [closing EXCEPT ![t] = IF ended \/ reading THEN ToCloseIter ELSE "reset"]
  /\ raced' = (raced \/ (ended /\ requestIter /\ \E u \in Threads : closing[u] = "reset"))

\* close: whoever sets ended is the one to reset the stream.
BeginClose(t) ==
  /\ ended' = TRUE
  /\ abandoned' = (abandoned \/ ~ended)
  /\ closing' = [closing EXCEPT ![t] = IF ended THEN ToCloseIter ELSE "reset"]
  /\ raced' = (raced \/ (ended /\ requestIter /\ \E u \in Threads : closing[u] = "reset"))

\* or the deadline passes, and it closes the response.
NextTimedOut ==
  /\ reading /\ expired
  /\ results' = Append(results, "timeout")
  /\ reading' = FALSE /\ late' = FALSE
  /\ BeginClose("reader")
  /\ UNCHANGED <<streaming, expired, call, received, trailersShown, iterVars,
                 workerVars, channel, bridge, commits, filterVars, upstreamVars>>

\* The application closes the response,
Close(t) ==
  /\ call = "response" /\ closing[t] = "no"
  /\ t = "reader" => ~reading
  /\ BeginClose(t)
  /\ UNCHANGED <<streaming, expired, call, late, readVars, iterVars, workerVars, channel,
                 bridge, commits, filterVars, upstreamVars>>

\* or drops it.
DropResponse ==
  /\ call = "response" /\ ~reading
  /\ \A t \in Threads : closing[t] = "no"
  /\ call' = "dropped"
  /\ channel' = <<>>
  /\ BeginClose("reader")
  /\ UNCHANGED <<streaming, expired, late, readVars, iterVars, workerVars, bridge, commits,
                 filterVars, upstreamVars>>

\* reset_stream,
CloseReset(t) ==
  /\ closing[t] = "reset"
  /\ Send(Event("reset", 0))
  /\ closing' = [closing EXCEPT ![t] = ToCloseIter]
  /\ UNCHANGED <<streaming, expired, call, late, readVars, ended, abandoned, raced, iterVars,
                 workerVars, channel, filterVars, upstreamVars>>

\* and close_request_iter, by whoever takes the iterator; one that is running
\* may have to be left.
CloseIter(t) ==
  /\ closing[t] = "iter"
  /\ closing' = [closing EXCEPT ![t] = "no"]
  /\ requestIter' = FALSE
  /\ \/ iterClosed' = (iterClosed \/ requestIter)
     \/ worker = "reading" /\ UNCHANGED iterClosed
  /\ UNCHANGED <<streaming, expired, call, late, readVars, ended, abandoned, raced,
                 workerVars, channel, bridge, commits, filterVars, upstreamVars>>

-----------------------------------------------------------------------------
(* The worker of the pool: ForwardRequest.run.                             *)

\* The worker comes to the job, or has sent a chunk, and asks for the next,
WorkerAsks ==
  /\ worker \in {"queued", "sending"}
  /\ worker' = "reading"
  /\ IF worker = "sending" THEN Send(Event("data", forwarded)) ELSE UNCHANGED <<bridge, commits>>
  /\ UNCHANGED <<streaming, expired, call, late, readVars, closeVars, iterVars, exhausted,
                 forwarded, channel, filterVars, upstreamVars>>

\* which the iterator yields.
WorkerYields ==
  /\ worker = "reading" /\ ~iterClosed
  /\ forwarded < MaxForwarded
  /\ worker' = "sending"
  /\ forwarded' = forwarded + 1
  /\ UNCHANGED <<streaming, expired, call, late, readVars, closeVars, iterVars, exhausted,
                 channel, bridge, commits, filterVars, upstreamVars>>

\* The iterator is done, for one that was closed also means done, or raises.
WorkerFinishes ==
  /\ worker = "reading"
  /\ \/ /\ worker' = "ended"
        /\ exhausted' = ~iterClosed
        /\ Send(Event("end", 0))
     \/ /\ worker' = "failed"
        /\ UNCHANGED exhausted
        /\ Send(Event("fail", 0))
  /\ UNCHANGED <<streaming, expired, call, late, readVars, closeVars, iterVars, forwarded,
                 channel, filterVars, upstreamVars>>

-----------------------------------------------------------------------------
(* Envoy's thread.                                                         *)

\* on_scheduled(EVENT_ID_OUTGOING_REQUEST).
OnScheduled ==
  /\ commits > 0 /\ filter # "dropped" /\ batch = <<>>
  /\ commits' = commits - 1
  /\ batch' = bridge.events
  /\ bridge' = Drained(bridge)
  /\ UNCHANGED <<streaming, expired, call, late, readVars, closeVars, iterVars, workerVars,
                 channel, filter, entry, upstreamVars>>

\* A message for the application, if it still has the receiver.
HasReceiver == call \in {"starting", "heading", "response"}

Tell(kind) == channel' = IF HasReceiver THEN Append(channel, Event(kind, 0)) ELSE channel

\* Start: Envoy may not know the cluster.
HandleStart ==
  /\ \/ /\ stream' = "open"
        /\ entry' = TRUE
        /\ requestEnded' = ~streaming
        /\ Tell("started")
     \/ /\ Tell("reset")
        /\ UNCHANGED <<stream, entry, requestEnded>>
  /\ UNCHANGED requestSeen

\* A broken SendData, which does not look whether the stream was reset.
HandleDataAnyway(e) ==
  /\ requestSeen' = IF e.kind = "data" THEN Append(requestSeen, e.chunk) ELSE requestSeen
  /\ requestEnded' = (requestEnded \/ e.kind = "end")
  /\ UNCHANGED <<channel, entry, stream>>

\* SendData, for a stream that has not been reset by now.
HandleData(e) ==
  /\ IF entry
       THEN /\ requestSeen' = IF e.kind = "data" THEN Append(requestSeen, e.chunk)
                              ELSE requestSeen
            /\ requestEnded' = (requestEnded \/ e.kind = "end")
       ELSE UNCHANGED <<requestSeen, requestEnded>>
  /\ UNCHANGED <<channel, entry, stream>>

\* on_http_stream_reset: the entry goes, with the sender.
OnHttpStreamReset(kind) ==
  /\ stream' = "gone"
  /\ entry' = FALSE
  /\ IF entry THEN Tell(kind) ELSE UNCHANGED channel

\* Reset, which re-enters on_http_stream_reset.
HandleReset(e) ==
  /\ IF entry
       THEN OnHttpStreamReset(IF e.kind = "fail" THEN "failure" ELSE "reset")
       ELSE UNCHANGED <<channel, entry, stream>>
  /\ UNCHANGED <<requestSeen, requestEnded>>

HandleEvent ==
  /\ batch # <<>>
  /\ batch' = Tail(batch)
  /\ CASE Head(batch).kind = "start"            -> HandleStart
       [] Head(batch).kind \in {"data", "end"}   -> HandleData(Head(batch))
       [] Head(batch).kind \in {"reset", "fail"} -> HandleReset(Head(batch))
  /\ UNCHANGED <<streaming, expired, call, late, readVars, closeVars, iterVars, workerVars,
                 bridge, commits, filter, answer, fed>>

\* The stream's callbacks come between those of the filter.
Callback == stream = "open" /\ filter # "dropped" /\ batch = <<>>

\* on_http_stream_headers, which resets a stream that the filter has forgotten.
UpstreamHeaders(end) ==
  /\ Callback /\ answer = "none"
  /\ answer' = IF end THEN "ended" ELSE "headers"
  /\ IF entry
       THEN Tell(IF end THEN "headersEnd" ELSE "headers") /\ UNCHANGED stream
       ELSE stream' = "gone" /\ UNCHANGED channel
  /\ UNCHANGED <<streaming, expired, call, late, readVars, closeVars, iterVars, workerVars,
                 bridge, commits, filterVars, fed, requestSeen, requestEnded>>

\* A broken on_http_stream_data, which sends the end before the chunk.
EndFirst(chunk, end) == end \o chunk

\* What on_http_stream_data sends: the chunk, then the end.
DataMessages(chunk, end) == chunk \o end

\* on_http_stream_data, with a chunk or, at the end, without one.
UpstreamData(hasChunk, end) ==
  /\ Callback /\ answer = "headers"
  /\ hasChunk \/ end
  /\ hasChunk => fed < MaxData
  /\ answer' = IF end THEN "ended" ELSE "headers"
  /\ fed' = IF entry /\ hasChunk THEN fed + 1 ELSE fed
  /\ channel' = IF entry /\ HasReceiver
                  THEN channel \o DataMessages(IF hasChunk THEN <<Event("body", fed + 1)>> ELSE <<>>,
                                               IF end THEN <<Event("end", 0)>> ELSE <<>>)
                  ELSE channel
  /\ UNCHANGED <<streaming, expired, call, late, readVars, closeVars, iterVars, workerVars,
                 bridge, commits, filterVars, stream, requestSeen, requestEnded>>

\* on_http_stream_trailers.
UpstreamTrailers ==
  /\ Callback /\ answer = "headers"
  /\ answer' = "trailers"
  /\ IF entry THEN Tell("trailers") ELSE UNCHANGED channel
  /\ UNCHANGED <<streaming, expired, call, late, readVars, closeVars, iterVars, workerVars,
                 bridge, commits, filterVars, stream, fed, requestSeen, requestEnded>>

\* The upstream resets the stream, or its timeout is over.
UpstreamReset ==
  /\ Callback
  /\ OnHttpStreamReset("reset")
  /\ UNCHANGED <<streaming, expired, call, late, readVars, closeVars, iterVars, workerVars,
                 bridge, commits, batch, filter, answer, fed, requestSeen, requestEnded>>

\* on_http_stream_complete: both directions have ended.
UpstreamComplete ==
  /\ Callback /\ answer \in {"ended", "trailers"} /\ requestEnded
  /\ stream' = "gone"
  /\ entry' = FALSE
  /\ UNCHANGED <<streaming, expired, call, late, readVars, closeVars, iterVars, workerVars,
                 channel, bridge, commits, batch, filter, answer, fed, requestSeen,
                 requestEnded>>

\* A broken close of the transport bridge, which leaves it open.
CompletedOpen == UNCHANGED bridge

\* on_stream_complete closes the transport bridge, with the senders of requests
\* that were not started,
Completed == bridge' = ClosedBridge

\* and tells the application of those that were.
OnStreamComplete ==
  /\ filter = "live" /\ batch = <<>>
  /\ filter' = "complete"
  /\ Completed
  /\ entry' = FALSE
  /\ IF entry THEN Tell("reset") ELSE UNCHANGED channel
  /\ UNCHANGED <<streaming, expired, call, late, readVars, closeVars, iterVars, workerVars,
                 commits, batch, upstreamVars>>

\* Envoy destroys the filter, its streams and the callbacks scheduled on it.
Drop ==
  /\ filter = "complete" /\ batch = <<>>
  /\ filter' = "dropped"
  /\ commits' = 0
  /\ stream' = IF stream = "open" THEN "gone" ELSE stream
  /\ UNCHANGED <<streaming, expired, call, late, readVars, closeVars, iterVars, workerVars,
                 channel, bridge, batch, entry, answer, fed, requestSeen, requestEnded>>

Terminated ==
  /\ filter = "dropped" /\ call \notin {"none", "starting", "heading"}
  /\ ~reading /\ worker \notin {"queued", "sending"}
  /\ \A t \in Threads : closing[t] = "no"
  /\ UNCHANGED vars

\* What a thread does without being asked to.
CallStep == Started \/ Response \/ Fails \/ HeadingTimedOut
ReadStep == NextData \/ NextEnds \/ NextTimedOut
CloseStep(t) == CloseReset(t) \/ CloseIter(t)

AppStep ==
  \/ Execute \/ Expire \/ NextBegins \/ DropResponse
  \/ CallStep \/ ReadStep
  \/ \E t \in Threads : Close(t) \/ CloseStep(t)
  \/ WorkerAsks \/ WorkerYields \/ WorkerFinishes

UpstreamStep ==
  \/ \E end \in BOOLEAN : UpstreamHeaders(end)
  \/ \E hasChunk, end \in BOOLEAN : UpstreamData(hasChunk, end)
  \/ UpstreamTrailers \/ UpstreamReset \/ UpstreamComplete

Next ==
  \/ AppStep \/ OnScheduled \/ HandleEvent
  \/ UpstreamStep \/ OnStreamComplete \/ Drop
  \/ Terminated

(***************************************************************************)
(* The threads that are not blocked go on, and every stream has a timeout, *)
(* at which Envoy resets it.  The deadline need not pass: the client may   *)
(* have none.                                                              *)
(***************************************************************************)
Fairness ==
  /\ WF_vars(OnScheduled \/ HandleEvent) /\ WF_vars(UpstreamReset)
  /\ WF_vars(CallStep \/ ReadStep \/ CloseStep("reader"))
  /\ WF_vars(CloseStep("closer"))

Spec == Init /\ [][Next]_vars /\ Fairness

-----------------------------------------------------------------------------
Answered == answer \in {"ended", "trailers"}
Waiting == call \in {"starting", "heading"} \/ reading
Idle == \A t \in Threads : closing[t] = "no"

TransportEvents ==
  [kind : {"start", "data", "end", "reset", "fail"}, chunk : 0..MaxForwarded]

TransportResponses ==
  [kind : {"started", "headers", "headersEnd", "body", "end", "trailers", "reset", "failure"},
   chunk : 0..MaxData]

\* The states of the parts.
TypeOK ==
  /\ streaming \in BOOLEAN /\ expired \in BOOLEAN /\ late \in BOOLEAN
  /\ reading \in BOOLEAN /\ trailersShown \in BOOLEAN
  /\ ended \in BOOLEAN /\ abandoned \in BOOLEAN /\ raced \in BOOLEAN
  /\ requestIter \in BOOLEAN /\ iterClosed \in BOOLEAN /\ exhausted \in BOOLEAN
  /\ entry \in BOOLEAN /\ requestEnded \in BOOLEAN
  /\ call \in {"none", "starting", "heading", "response", "dropped", "bare", "failed",
               "timedOut", "timedOutEarly"}
  /\ results \in Seq({"data", "stop", "error", "timeout"})
  /\ received \in Seq(1..MaxData)
  /\ closing \in [Threads -> {"no", "reset", "iter"}]
  /\ worker \in {"none", "queued", "reading", "sending", "ended", "failed"}
  /\ forwarded \in 0..MaxForwarded
  /\ channel \in Seq(TransportResponses)
  /\ bridge \in Bridges(TransportEvents) /\ batch \in Seq(TransportEvents)
  /\ commits \in Nat /\ filter \in {"live", "complete", "dropped"}
  /\ stream \in {"none", "open", "gone"}
  /\ answer \in {"none", "headers", "ended", "trailers"} /\ fed \in 0..MaxData
  /\ requestSeen \in Seq(1..MaxForwarded)

(***************************************************************************)
(* However the request ends, its iterator has been given up by its owner   *)
(* once the call is over or the response is closed, and its stream has     *)
(* been reset or its reset is on its way, rather than being left to        *)
(* Envoy's timeout; only a call that times out before it knows the stream  *)
(* has to leave it.  The filter has an entry only while there is a stream, *)
(* so that it never names one to Envoy that is gone.                       *)
(***************************************************************************)
GivenUp ==
  /\ Idle
  /\ call \in {"dropped", "bare", "failed", "timedOut", "timedOutEarly"}
       \/ (call = "response" /\ abandoned)

NothingIsLeft ==
  /\ TypeOK
  /\ GivenUp => ~requestIter
  /\ GivenUp /\ (abandoned \/ call = "timedOut") /\ entry =>
       \/ Event("reset", 0) \in Range(batch)
       \/ Event("reset", 0) \in Range(bridge.events) /\ (commits > 0 \/ batch # <<>>)
  /\ entry => stream = "open"

(***************************************************************************)
(* The application reads the body in order.  Its reads stop only where the *)
(* response does, with the body complete and the trailers there, or after  *)
(* it has been told of an error or a timeout, or has closed the response   *)
(* itself.                                                                 *)
(***************************************************************************)
ResponseIsTruthful ==
  /\ \A k \in DOMAIN received : received[k] = k
  /\ \A k \in DOMAIN results :
       results[k] = "stop" /\ ~abandoned
         /\ (\A j \in 1..(k - 1) : results[j] \in {"data", "stop"}) =>
       /\ Answered /\ Len(received) = fed
       /\ answer = "trailers" => trailersShown

(***************************************************************************)
(* The upstream sees the chunks of the request in order, and takes it for  *)
(* complete only if the iterator came to its end: an iterator that is      *)
(* closed also stops, but then the stream has been reset before, or the    *)
(* upstream has answered in full.  That the reset comes first takes a      *)
(* single thread that closes: one that finds ended set goes on to the      *)
(* iterator while the reset of another may not be on the bridge yet.       *)
(***************************************************************************)
RequestIsTruthful ==
  /\ requestSeen = [k \in 1..Len(requestSeen) |-> k]
  /\ streaming /\ requestEnded =>
       (exhausted /\ Len(requestSeen) = forwarded) \/ Answered \/ raced

(***************************************************************************)
(* A call of the application returns, whatever the upstream does and       *)
(* however the server's request ends, and so does every read.              *)
(***************************************************************************)
CallsReturn ==
  /\ call \in {"starting", "heading"} ~> call \notin {"starting", "heading"}
  /\ reading ~> ~reading
=============================================================================
