------------------------------ MODULE AsgiSend ------------------------------
(***************************************************************************)
(* The response of an ASGI application: its calls of send (SendCallable in *)
(* src/asgi/python/mod.rs), each of which returns a future unless it ends  *)
(* the body, the bridge to Envoy's thread, the filter, which puts the      *)
(* events on the wire when downstream can take them (src/asgi/filter.rs),  *)
(* and the event loop, to which every completion of a future is            *)
(* dispatched, to be run in order.                                         *)
(*                                                                         *)
(* The chunks of the body are numbered, and so is the future that send     *)
(* returns for each but the last.  Sending the end of a response           *)
(* re-enters on_stream_complete.  The wire is what the filter calls Envoy  *)
(* with, whether or not there still is a response.                         *)
(***************************************************************************)
EXTENDS Integers, Sequences, SequencesExt, FiniteSets, Bridge

CONSTANTS MaxChunks,    \* bound: the chunks an application sends
          MaxTrailers,  \* bound: the trailers messages it sends
          MaxRaises     \* bound: how often a high watermark is exceeded

ASSUME BoundsAssumption ==
  MaxChunks \in Nat /\ MaxTrailers \in Nat /\ MaxRaises \in Nat

VARIABLES
  \* SendCallable
  nextEvent,         \* next_event
  responseStart,     \* the start that is yet to be sent: its trailers flag, or "none"
  closed,            \* whether send has found the bridge closed
  \* the application
  trailersAccepted,  \* whether the client takes trailers
  awaits,            \* whether the application awaits each send before the next
  app,               \* "running", "returned" or "raised"
  committing,        \* whether send, or the done callback, is about to commit
  produced,          \* the chunks that send has taken
  sends,             \* what has become of the future of each chunk
  trailersSent,      \* the trailers messages that send has taken
  trailersFailed,    \* whether the last of them failed
  \* between the threads
  sendBridge,        \* send_bridge
  commits,           \* EVENT_ID_RESPONSE callbacks on their way
  loop,              \* the completions dispatched to the event loop
  \* the filter
  batch,             \* the drained events it has yet to handle
  sending,           \* the frames of a chunk whose send it has completed, yet to be sent
  filter,            \* "live", "complete" (on_stream_complete ran) or "dropped"
  responseTrailers,  \* how many messages Filter.response_trailers holds, or NoTrailers
  level,             \* downstream_watermark_level
  raises,            \* how often it was raised
  wire               \* what went downstream

callVars == <<nextEvent, responseStart, closed>>
appVars == <<trailersAccepted, awaits, app, produced, sends, trailersSent, trailersFailed>>
filterVars == <<sending, filter, responseTrailers, level, raises, wire>>
vars == <<callVars, appVars, committing, sendBridge, commits, loop, batch, filterVars>>

NoTrailers == -1

Init ==
  /\ nextEvent = "Start" /\ responseStart = "none" /\ closed = FALSE
  /\ trailersAccepted \in BOOLEAN /\ awaits \in BOOLEAN /\ app = "running"
  /\ committing = FALSE /\ produced = 0 /\ sends = <<>>
  /\ trailersSent = 0 /\ trailersFailed = FALSE
  /\ sendBridge = OpenBridge /\ commits = 0 /\ loop = <<>>
  /\ batch = <<>> /\ sending = <<>> /\ filter = "live" /\ responseTrailers = NoTrailers
  /\ level = 0 /\ raises = 0 /\ wire = <<>>

\* An event for the filter: `start` says whether it begins the response and
\* whether it announces trailers, `chunk` is its chunk, or 0 for an empty one,
\* and `future` says whether its send waits.
Event(kind, start, chunk, future) ==
  [kind |-> kind, start |-> start, chunk |-> chunk, future |-> future]
Exception == Event("Exception", "none", 0, FALSE)

Completion(chunk, result) == [chunk |-> chunk, result |-> result]

\* The completions of the sends whose SendFuture is dropped with some events,
\* in the order of the events.
DroppedFutures(events) ==
  LET waiting == {i \in DOMAIN events : events[i].future}
      Nth(k)  == CHOOSE i \in waiting : Cardinality({j \in waiting : j <= i}) = k
  IN  [k \in 1..Cardinality(waiting) |-> Completion(events[Nth(k)].chunk, "disconnected")]

-----------------------------------------------------------------------------
(* The loop's thread.  A call of send that fails shows the application an  *)
(* exception, which it may let through (Raise).  It changes nothing, but   *)
(* for the last trailers message.                                          *)

\* The application makes a call, when what it awaits has come.
Calls ==
  /\ app = "running" /\ ~committing
  /\ awaits => \A k \in DOMAIN sends : sends[k] # "pending"

\* A broken send, whose future completes once its event is on the bridge.
SendEventAcknowledges(e) ==
  /\ sendBridge' = Sent(sendBridge, e)
  /\ committing' = ~sendBridge.closed
  /\ loop' = IF sendBridge.closed THEN loop \o DroppedFutures(<<e>>)
             ELSE IF e.future THEN Append(loop, Completion(e.chunk, "sent")) ELSE loop

\* The event joins the bridge and a commit follows, or the bridge is closed and
\* its future is dropped.
SendEvent(e) ==
  /\ sendBridge' = Sent(sendBridge, e)
  /\ committing' = ~sendBridge.closed
  /\ loop' = IF sendBridge.closed THEN loop \o DroppedFutures(<<e>>) ELSE loop

\* send of http.response.start, which is held until there is a body.
SendStart(trailers) ==
  /\ Calls /\ ~closed
  /\ nextEvent = "Start"
  /\ nextEvent' = IF trailers THEN "BodyThenTrailers" ELSE "Body"
  /\ responseStart' = IF trailers /\ trailersAccepted THEN "trailers" ELSE "plain"
  /\ UNCHANGED <<closed, appVars, committing, sendBridge, commits, loop, batch, filterVars>>

\* send of http.response.body.
SendBody(hasChunk, more) ==
  /\ Calls /\ ~closed
  /\ nextEvent \in {"Body", "BodyThenTrailers"}
  /\ more => hasChunk
  /\ hasChunk => produced < MaxChunks
  /\ LET chunk == IF hasChunk THEN produced + 1 ELSE 0
         kind  == IF responseStart = "none" THEN "Body" ELSE "Start"
     IN  SendEvent(Event(kind, responseStart, chunk, more))
  /\ produced' = IF hasChunk THEN produced + 1 ELSE produced
  /\ sends' = IF more THEN Append(sends, "pending") ELSE sends
  /\ nextEvent' = IF more THEN nextEvent
                  ELSE IF nextEvent = "BodyThenTrailers" THEN "Trailers" ELSE "Done"
  /\ responseStart' = "none"
  /\ closed' = sendBridge.closed
  /\ UNCHANGED <<trailersAccepted, awaits, app, trailersSent, trailersFailed, commits, batch,
                 filterVars>>

\* send of http.response.trailers, which goes no further if the client does not
\* take trailers.
SendTrailers(more) ==
  /\ Calls /\ ~closed
  /\ nextEvent = "Trailers"
  /\ trailersSent < MaxTrailers
  /\ trailersSent' = trailersSent + 1
  /\ nextEvent' = IF more THEN "Trailers" ELSE "Done"
  /\ IF trailersAccepted
       THEN /\ SendEvent(Event(IF more THEN "MoreTrailers" ELSE "Trailers", "none", 0, FALSE))
            /\ closed' = sendBridge.closed
       ELSE UNCHANGED <<committing, sendBridge, loop, closed>>
  /\ UNCHANGED <<responseStart, trailersAccepted, awaits, app, produced, sends, trailersFailed,
                 commits, batch, filterVars>>

\* The last trailers message has headers that cannot be extracted: send raises,
\* but takes the response for done by then.
SendTrailersFails ==
  /\ Calls /\ ~closed
  /\ nextEvent = "Trailers" /\ trailersAccepted
  /\ nextEvent' = "Done"
  /\ trailersFailed' = TRUE
  /\ UNCHANGED <<responseStart, closed, trailersAccepted, awaits, app, produced, sends,
                 trailersSent, committing, sendBridge, commits, loop, batch, filterVars>>

\* The application returns, or lets through the ClientDisconnectedError of a
\* send, which the done callback swallows.
Return ==
  /\ Calls
  /\ app' = "returned"
  /\ UNCHANGED <<callVars, trailersAccepted, awaits, produced, sends, trailersSent,
                 trailersFailed, committing, sendBridge, commits, loop, batch, filterVars>>

\* The application raises, and the done callback tells the filter.
Raise ==
  /\ Calls
  /\ app' = "raised"
  /\ SendEvent(Exception)
  /\ UNCHANGED <<callVars, trailersAccepted, awaits, produced, sends, trailersSent,
                 trailersFailed, commits, batch, filterVars>>

\* scheduler.commit, which does nothing for a filter that is gone.
Commit ==
  /\ committing
  /\ committing' = FALSE
  /\ commits' = IF filter = "dropped" THEN commits ELSE commits + 1
  /\ UNCHANGED <<callVars, appVars, sendBridge, loop, batch, filterVars>>

\* The application gives up on a send, by a timeout for instance.
CancelSend(k) ==
  /\ app = "running" /\ ~committing
  /\ k \in DOMAIN sends /\ sends[k] = "pending"
  /\ sends' = [sends EXCEPT ![k] = "cancelled"]
  /\ UNCHANGED <<callVars, trailersAccepted, awaits, app, produced, trailersSent,
                 trailersFailed, committing, sendBridge, commits, loop, batch, filterVars>>

\* The loop completes a future, unless it was cancelled.
RunTask ==
  /\ ~committing
  /\ loop # <<>>
  /\ loop' = Tail(loop)
  /\ LET k == Head(loop).chunk
     IN  sends' = IF sends[k] = "pending"
                    THEN [sends EXCEPT ![k] = Head(loop).result]
                    ELSE sends
  /\ UNCHANGED <<callVars, trailersAccepted, awaits, app, produced, trailersSent,
                 trailersFailed, committing, sendBridge, commits, batch, filterVars>>

-----------------------------------------------------------------------------
(* Envoy's thread.                                                         *)

\* Envoy's thread is in no callback.
Idle == batch = <<>> /\ sending = <<>>

\* on_scheduled(EVENT_ID_RESPONSE) drains the bridge unless downstream is full.
OnScheduled ==
  /\ commits > 0 /\ filter # "dropped" /\ Idle
  /\ commits' = commits - 1
  /\ IF level = 0
       THEN batch' = sendBridge.events /\ sendBridge' = Drained(sendBridge)
       ELSE UNCHANGED <<batch, sendBridge>>
  /\ UNCHANGED <<callVars, appVars, committing, loop, filterVars>>

\* A broken close, which forgets the futures instead of dropping them.
CompletedForgets ==
  /\ filter' = "complete"
  /\ sendBridge' = ClosedBridge
  /\ UNCHANGED loop

\* What on_stream_complete does to the response: the SendFutures on the bridge
\* are dropped.
Completed ==
  /\ filter' = "complete"
  /\ sendBridge' = ClosedBridge
  /\ loop' = loop \o DroppedFutures(sendBridge.events)

\* What a body event puts on the wire, with the headers of the response if it
\* begins it.
BodyFrames(e) ==
  (IF e.kind = "Start" THEN <<<<"headers", 0>>>> ELSE <<>>)
    \o (IF e.chunk # 0 THEN <<<<"data", e.chunk>>>> ELSE <<>>)

\* A broken process_send_events, which ends the response with its body although
\* trailers were announced.
HandleBodyEnds(e) ==
  /\ UNCHANGED responseTrailers
  /\ IF e.future
       THEN /\ loop' = Append(loop, Completion(e.chunk, "sent"))
            /\ sending' = BodyFrames(e)
            /\ UNCHANGED <<wire, filter, sendBridge>>
       ELSE /\ wire' = wire \o BodyFrames(e) \o <<<<"end", 0>>>>
            /\ Completed
            /\ UNCHANGED sending

\* process_send_events, for a body event and perhaps the headers before it: a
\* send that waits is completed before its chunk is sent (SendChunk), and the
\* body without one is the last, which ends the response unless trailers follow.
HandleBody(e) ==
  /\ responseTrailers' = IF e.start = "trailers" THEN 0 ELSE responseTrailers
  /\ IF e.future
       THEN /\ loop' = Append(loop, Completion(e.chunk, "sent"))
            /\ sending' = BodyFrames(e)
            /\ UNCHANGED <<wire, filter, sendBridge>>
       ELSE /\ IF responseTrailers' = NoTrailers
                 THEN wire' = wire \o BodyFrames(e) \o <<<<"end", 0>>>> /\ Completed
                 ELSE /\ wire' = wire \o BodyFrames(e)
                      /\ UNCHANGED <<filter, sendBridge, loop>>
            /\ UNCHANGED sending

\* The trailers are gathered until the last of them, which ends the response.
HandleTrailers(e) ==
  /\ IF responseTrailers = NoTrailers
       THEN UNCHANGED <<wire, responseTrailers, filter, sendBridge, loop>>
       ELSE IF e.kind = "MoreTrailers"
              THEN /\ responseTrailers' = responseTrailers + 1
                   /\ UNCHANGED <<wire, filter, sendBridge, loop>>
              ELSE /\ responseTrailers' = NoTrailers
                   /\ wire' = wire \o <<<<"trailers", responseTrailers + 1>>>>
                   /\ Completed
  /\ UNCHANGED sending

\* send_response answers with an error page, or resets the stream if there is a
\* response already, and be it one that has ended.
HandleException ==
  /\ wire' = wire \o <<<<IF wire = <<>> THEN "error" ELSE "reset", 0>>>>
  /\ Completed
  /\ UNCHANGED <<responseTrailers, sending>>

HandleEvent ==
  /\ batch # <<>> /\ sending = <<>>
  /\ batch' = Tail(batch)
  /\ LET e == Head(batch)
     IN  CASE e.kind \in {"Start", "Body"}            -> HandleBody(e)
           [] e.kind \in {"MoreTrailers", "Trailers"} -> HandleTrailers(e)
           [] e.kind = "Exception"                    -> HandleException
  /\ UNCHANGED <<callVars, appVars, committing, commits, level, raises>>

\* The rest of process_send_events for a chunk whose send was completed.  The loop's
\* thread may have run in between.
SendChunk ==
  /\ sending # <<>>
  /\ wire' = wire \o sending
  /\ sending' = <<>>
  /\ UNCHANGED <<callVars, appVars, committing, sendBridge, commits, loop, batch, filter,
                 responseTrailers, level, raises>>

\* Downstream is above a high watermark, which can also happen while data is
\* being sent,
AboveWatermark ==
  /\ filter = "live"
  /\ raises < MaxRaises
  /\ level' = level + 1
  /\ raises' = raises + 1
  /\ UNCHANGED <<callVars, appVars, committing, sendBridge, commits, loop, batch, sending,
                 filter, responseTrailers, wire>>

\* A broken watermark callback, which does not look at the bridge again.
BelowWatermarkSilent ==
  /\ filter = "live" /\ level > 0 /\ Idle
  /\ level' = level - 1
  /\ UNCHANGED <<callVars, appVars, committing, sendBridge, commits, loop, batch, sending,
                 filter, responseTrailers, raises, wire>>

\* and below the low one again.
BelowWatermark ==
  /\ filter = "live" /\ level > 0 /\ Idle
  /\ level' = level - 1
  /\ commits' = IF level = 1 THEN commits + 1 ELSE commits
  /\ UNCHANGED <<callVars, appVars, committing, sendBridge, loop, batch, sending, filter,
                 responseTrailers, raises, wire>>

\* The client is gone, or the stream is reset.
OnStreamComplete ==
  /\ filter = "live" /\ Idle
  /\ Completed
  /\ UNCHANGED <<callVars, appVars, committing, commits, batch, sending, responseTrailers,
                 level, raises, wire>>

\* Envoy destroys the filter, with the callbacks that were scheduled on it.
Drop ==
  /\ filter = "complete" /\ Idle
  /\ filter' = "dropped"
  /\ commits' = 0
  /\ UNCHANGED <<callVars, appVars, committing, sendBridge, loop, batch, sending,
                 responseTrailers, level, raises, wire>>

Terminated ==
  /\ app # "running" /\ filter = "dropped" /\ loop = <<>> /\ ~committing
  /\ UNCHANGED vars

AppStep ==
  \/ \E trailers \in BOOLEAN : SendStart(trailers)
  \/ \E hasChunk, more \in BOOLEAN : SendBody(hasChunk, more)
  \/ (\E more \in BOOLEAN : SendTrailers(more)) \/ SendTrailersFails
  \/ Return \/ Raise
  \/ \E k \in 1..MaxChunks : CancelSend(k)

Next ==
  \/ AppStep \/ Commit \/ RunTask
  \/ OnScheduled \/ HandleEvent \/ SendChunk
  \/ AboveWatermark \/ BelowWatermark
  \/ OnStreamComplete \/ Drop
  \/ Terminated

(***************************************************************************)
(* The event loop and Envoy's thread run what is theirs; a client that is  *)
(* above a watermark reads on or is disconnected.  The application need    *)
(* not do anything.                                                        *)
(***************************************************************************)
Fairness ==
  /\ WF_vars(OnScheduled) /\ WF_vars(HandleEvent) /\ WF_vars(SendChunk)
  /\ WF_vars(BelowWatermark \/ (level > 0 /\ OnStreamComplete))
  /\ WF_vars(Commit) /\ WF_vars(RunTask)

Safety == Init /\ [][Next]_vars
Spec == Safety /\ Fairness

-----------------------------------------------------------------------------
Starts == {"none", "plain", "trailers"}
Events ==
  [kind : {"Start", "Body", "MoreTrailers", "Trailers", "Exception"}, start : Starts,
   chunk : 0..MaxChunks, future : BOOLEAN]
Frames == {"headers", "data", "end", "trailers", "error", "reset"} \X Nat

\* The state is well formed.
TypeOK ==
  /\ nextEvent \in {"Start", "Body", "BodyThenTrailers", "Trailers", "Done"}
  /\ responseStart \in Starts /\ closed \in BOOLEAN
  /\ trailersAccepted \in BOOLEAN /\ awaits \in BOOLEAN
  /\ app \in {"running", "returned", "raised"} /\ committing \in BOOLEAN
  /\ produced \in 0..MaxChunks /\ trailersSent \in 0..MaxTrailers
  /\ trailersFailed \in BOOLEAN
  /\ sends \in Seq({"pending", "sent", "disconnected", "cancelled"})
  /\ Len(sends) <= produced
  /\ sendBridge \in Bridges(Events) /\ commits \in Nat
  /\ loop \in Seq([chunk : 1..MaxChunks, result : {"sent", "disconnected"}])
  /\ batch \in Seq(Events) /\ sending \in Seq(Frames)
  /\ filter \in {"live", "complete", "dropped"}
  /\ responseTrailers \in NoTrailers..MaxTrailers
  /\ level \in 0..MaxRaises /\ raises \in 0..MaxRaises
  /\ wire \in Seq(Frames)

(***************************************************************************)
(* "These futures must be completed, or else the Python side will hang     *)
(* forever": the future of a send that waits is in one place, on the       *)
(* bridge, in the filter, or in a completion that is dispatched, and one   *)
(* that has its result is in none, so that none is completed twice.        *)
(***************************************************************************)
InEvents(place, events, n) ==
  {<<place, k>> : k \in {k \in DOMAIN events : events[k].future /\ events[k].chunk = n}}

Holders(n) ==
  InEvents("bridge", sendBridge.events, n)
    \cup InEvents("filter", batch, n)
    \cup {<<"loop", k>> : k \in {k \in DOMAIN loop : loop[k].chunk = n}}

OneHolder ==
  /\ TypeOK
  /\ \A n \in DOMAIN sends :
       CASE sends[n] = "pending"   -> Cardinality(Holders(n)) = 1
         [] sends[n] = "cancelled" -> Cardinality(Holders(n)) <= 1
         [] OTHER                  -> Holders(n) = {}

(***************************************************************************)
(* What the filter sends is one response: headers, the chunks in order,    *)
(* and its end, its trailers or a reset; or an error page and nothing      *)
(* else.  Behind an end or trailers there is at most one reset, that of an *)
(* application which raises after it has completed the response            *)
(* (CompleteIsFinal).  A response that ends has every chunk, and the       *)
(* trailers of every message, unless the client does not take them; and    *)
(* one whose last trailers failed does not end.                            *)
(***************************************************************************)
Position(kind) == {k \in DOMAIN wire : wire[k][1] = kind}
Delivered == Cardinality(Position("data"))
Ends == Position("end") \cup Position("trailers")

WellFormedResponse ==
  /\ wire # <<>> => wire[1][1] \in {"headers", "error"}
  /\ Position("headers") \subseteq {1}
  /\ Position("error") # {} => Len(wire) = 1
  /\ Position("reset") \subseteq {Len(wire)}
  /\ \A k \in Ends : \/ k = Len(wire)
                     \/ k = Len(wire) - 1 /\ Last(wire)[1] = "reset" /\ app = "raised"
  /\ \A k \in Position("data") : wire[k] = <<"data", k - 1>>
  /\ Ends # {} => Delivered = produced /\ ~trailersFailed
  /\ Position("end") # {} => trailersSent = 0 \/ ~trailersAccepted
  /\ \A k \in Position("trailers") : wire[k][2] = trailersSent

(***************************************************************************)
(* "Exception after response complete" is a test of the repository, whose  *)
(* client has the response: nothing follows the end of a response, which a *)
(* reset could take back.  No run has this among its properties, as it     *)
(* does not hold: the exception may be drained with the end, and handled   *)
(* behind it.                                                              *)
(***************************************************************************)
CompleteIsFinal == Ends \subseteq {Len(wire)}

(***************************************************************************)
(* An application that awaits its sends is one chunk ahead of what the     *)
(* filter has begun to send at most, so that a slow client holds it back.  *)
(***************************************************************************)
AnyCancelled == \E k \in DOMAIN sends : sends[k] = "cancelled"

SenderIsHeldBack ==
  awaits /\ ~AnyCancelled /\ filter = "live" =>
    produced - Delivered <= IF sending = <<>> THEN 1 ELSE 2

(***************************************************************************)
(* "Future to notify when the body is completed writing": a send that has  *)
(* succeeded has its chunk on the wire.  No run has this among its         *)
(* properties, as it does not hold: the future is completed before the     *)
(* chunk is sent.                                                          *)
(***************************************************************************)
SentIsWritten == \A n \in DOMAIN sends : sends[n] = "sent" => n <= Delivered

(***************************************************************************)
(* Every send returns: what it sent is taken, or the stream is complete.   *)
(* And a response that the application has completed, or given up by       *)
(* raising, ends.  One whose last trailers failed does not, unless the     *)
(* application raises (DoneIsEnded).                                       *)
(***************************************************************************)
Waits(n) == n \in DOMAIN sends /\ sends[n] = "pending"

SendsAndResponsesEnd ==
  /\ \A n \in 1..MaxChunks : Waits(n) ~> ~Waits(n)
  /\ (nextEvent = "Done" /\ ~trailersFailed) \/ app = "raised" ~> filter # "live"

(***************************************************************************)
(* "After response already completed", as send says of a message that      *)
(* comes when next_event is Done: the response ends by then, or soon.  No  *)
(* run has this among its properties, as it does not hold: a last trailers *)
(* message that fails leaves it Done without having sent anything, and the *)
(* client waits.                                                           *)
(***************************************************************************)
DoneIsEnded == nextEvent = "Done" ~> filter # "live"
=============================================================================
