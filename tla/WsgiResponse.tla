---------------------------- MODULE WsgiResponse ----------------------------
(***************************************************************************)
(* The response of a WSGI request: the application's thread, which sends   *)
(* through ResponseSender (src/wsgi/response.rs) and waits for the filter  *)
(* after each item of its iterator (src/wsgi/python.rs), the bridge and    *)
(* the channel between the threads, and the filter, which puts the events  *)
(* on the wire when downstream can take them (src/wsgi/filter.rs).         *)
(*                                                                         *)
(* The chunks of the body (the items of the iterator, be they empty) and   *)
(* the calls of start_response are numbered.                               *)
(* Sending the end of a response re-enters on_stream_complete.             *)
(***************************************************************************)
EXTENDS Integers, Sequences, FiniteSets, Bridge

CONSTANTS MaxChunks,  \* bound: the chunks an application produces
          MaxStarts,  \* bound: its successful calls of start_response
          MaxLevel,   \* bound: the watermarks that are exceeded at a time
          MaxRaises   \* bound: how often a watermark is exceeded

ASSUME BoundsAssumption == {MaxChunks, MaxStarts, MaxLevel, MaxRaises} \subseteq Nat

VARIABLES
  \* ResponseSenderInner
  startEvent,      \* the start_response that is yet to be sent, or 0
  headersSent, closed,
  \* the application's thread
  pc,              \* where it is
  after,           \* where it continues once it has committed
  starts,          \* the start_response calls that were accepted
  produced,        \* the chunks that send has taken from it
  usesWrite,       \* whether it is one that calls write()
  \* between the threads
  bridge,          \* response_bridge
  commits,         \* EVENT_ID_RESPONSE callbacks on their way
  written,         \* the messages in the response_written channel
  \* the filter
  batch,           \* the drained events it has yet to handle
  acknowledged,    \* whether it has acknowledged the first of them
  filter,          \* "live", "complete" or "dropped"
  responseClosed,  \* Filter.response_closed
  level,           \* downstream_watermark_level
  raises,          \* how often it was raised
  wire             \* what went downstream

senderVars == <<startEvent, headersSent, closed>>
appVars == <<pc, after, starts, produced, usesWrite>>
filterVars == <<batch, acknowledged, filter, responseClosed, level, raises, wire>>
vars == <<senderVars, appVars, bridge, commits, written, filterVars>>

Init ==
  /\ startEvent = 0 /\ headersSent = FALSE /\ closed = FALSE
  /\ pc = "app" /\ after = "app" /\ starts = 0 /\ produced = 0
  /\ usesWrite \in BOOLEAN
  /\ bridge = OpenBridge /\ commits = 0 /\ written = 0
  /\ batch = <<>> /\ acknowledged = FALSE
  /\ filter = "live" /\ responseClosed = FALSE
  /\ level = 0 /\ raises = 0 /\ wire = <<>>

\* An event for the filter: `start` is the start_response it carries, or 0, and
\* `chunk` its chunk, or 0 for an empty one.
Event(kind, start, chunk, more) ==
  [kind |-> kind, start |-> start, chunk |-> chunk, more |-> more]

-----------------------------------------------------------------------------
(* The application's thread.  A call that fails changes nothing: the       *)
(* application sees an exception, which it may let through (Raise).        *)

\* The event joins the bridge, and a commit follows if it is open.
SendToFilter(e, next) ==
  /\ bridge' = Sent(bridge, e)
  /\ after' = next
  /\ pc' = IF bridge.closed THEN next ELSE "commit"

Started == startEvent # 0 \/ headersSent

\* ResponseSender::send of a body, with a chunk or empty; the thread continues
\* at `next`, or at `failed` when start_response was not called.
SendBody(hasChunk, more, next, failed) ==
  IF closed
    THEN /\ pc' = next
         /\ UNCHANGED <<senderVars, after, produced, bridge>>
    ELSE /\ closed' = ~more
         /\ headersSent' = Started
         /\ startEvent' = 0
         /\ IF Started
              THEN LET kind  == IF startEvent # 0 THEN "Start" ELSE "Body"
                       chunk == IF hasChunk THEN produced + 1 ELSE 0
                   IN  /\ SendToFilter(Event(kind, startEvent, chunk, more), next)
                       /\ produced' = IF hasChunk THEN chunk ELSE produced
              ELSE pc' = failed /\ UNCHANGED <<after, produced, bridge>>

\* start_response, which exc_info allows to replace an earlier one until the
\* headers are sent.
StartResponse(excInfo) ==
  /\ pc \in {"app", "iter"}
  /\ ~closed /\ ~headersSent
  /\ excInfo \/ startEvent = 0
  /\ starts < MaxStarts
  /\ starts' = starts + 1
  /\ startEvent' = starts + 1
  /\ UNCHANGED <<headersSent, closed, pc, after, produced, usesWrite, bridge, commits,
                 written, filterVars>>

\* The write() callable, which start_response returns.
Write ==
  /\ usesWrite
  /\ pc \in {"app", "iter"} /\ starts > 0
  /\ produced < MaxChunks
  /\ SendBody(TRUE, TRUE, pc, pc)
  /\ UNCHANGED <<starts, usesWrite, commits, written, filterVars>>

\* wsgi.ext.http.send_trailers.
SendTrailers ==
  /\ pc \in {"app", "iter"}
  /\ ~closed
  /\ closed' = TRUE
  /\ startEvent' = 0
  /\ headersSent' = Started
  /\ SendToFilter(Event("Trailers", startEvent, 0, FALSE), pc)
  /\ UNCHANGED <<starts, produced, usesWrite, commits, written, filterVars>>

\* The application returns a list with no item or with one,
ReturnList ==
  /\ pc = "app"
  /\ \E hasChunk \in BOOLEAN :
       /\ hasChunk => produced < MaxChunks
       /\ SendBody(hasChunk, FALSE, "done", "raise")
  /\ UNCHANGED <<starts, usesWrite, commits, written, filterVars>>

\* or an iterator,
ReturnIterator ==
  /\ pc = "app"
  /\ pc' = "iter"
  /\ UNCHANGED <<senderVars, after, starts, produced, usesWrite, bridge, commits,
                 written, filterVars>>

\* A broken loop over the iterator, which does not wait.
YieldNoWait ==
  /\ pc = "iter"
  /\ produced < MaxChunks
  /\ SendBody(TRUE, TRUE, "iter", "raise")
  /\ UNCHANGED <<starts, usesWrite, commits, written, filterVars>>

\* which yields an item, to be sent and waited for,
Yield ==
  /\ pc = "iter"
  /\ produced < MaxChunks
  /\ SendBody(TRUE, TRUE, "recv", "raise")
  /\ UNCHANGED <<starts, usesWrite, commits, written, filterVars>>

\* or is exhausted.
Exhausted ==
  /\ pc = "iter"
  /\ SendBody(FALSE, FALSE, "done", "raise")
  /\ UNCHANGED <<starts, usesWrite, commits, written, filterVars>>

\* execute_app fails, and the worker tells the filter.
Raise ==
  /\ pc \in {"app", "iter", "raise"}
  /\ SendToFilter(Event("Exception", 0, 0, FALSE), "done")
  /\ UNCHANGED <<senderVars, starts, produced, usesWrite, commits, written, filterVars>>

\* scheduler.commit, which does nothing for a filter that is gone.
Commit ==
  /\ pc = "commit"
  /\ commits' = IF filter = "dropped" THEN commits ELSE commits + 1
  /\ pc' = after
  /\ UNCHANGED <<senderVars, after, starts, produced, usesWrite, bridge, written,
                 filterVars>>

\* response_written_rx.recv returns with a message, or fails once the filter is
\* gone, which is ignored.
Written ==
  /\ pc = "recv"
  /\ written > 0 \/ filter = "dropped"
  /\ written' = IF written > 0 THEN written - 1 ELSE 0
  /\ pc' = "iter"
  /\ UNCHANGED <<senderVars, after, starts, produced, usesWrite, bridge, commits,
                 filterVars>>

-----------------------------------------------------------------------------
(* Envoy's thread.                                                         *)

\* What on_stream_complete does to the response.
Completed ==
  /\ filter' = "complete"
  /\ responseClosed' = TRUE
  /\ bridge' = ClosedBridge

\* on_scheduled(EVENT_ID_RESPONSE) drains the bridge unless downstream is full.
OnScheduled ==
  /\ commits > 0 /\ filter # "dropped" /\ batch = <<>>
  /\ commits' = commits - 1
  /\ IF level = 0
       THEN batch' = bridge.events /\ bridge' = Drained(bridge)
       ELSE UNCHANGED <<batch, bridge>>
  /\ UNCHANGED <<senderVars, appVars, written, acknowledged, filter, responseClosed,
                 level, raises, wire>>

\* The frames that an event puts on the wire.
Frames(e) ==
  LET headers == IF e.start # 0 THEN <<<<"headers", e.start>>>> ELSE <<>>
      data    == IF e.chunk # 0 THEN <<<<"data", e.chunk>>>> ELSE <<>>
  IN  CASE e.kind = "Trailers"  -> headers \o <<<<"end", 0>>>>
        [] e.kind = "Exception" -> <<<<"error", 0>>>>
        [] OTHER -> headers \o data \o (IF e.more THEN <<>> ELSE <<<<"end", 0>>>>)

\* A broken acknowledgement, of the first chunk only.
AcknowledgeFirst ==
  /\ batch # <<>> /\ ~acknowledged
  /\ Head(batch).kind = "Start" /\ Head(batch).more
  /\ written' = written + 1
  /\ acknowledged' = TRUE
  /\ UNCHANGED <<senderVars, appVars, bridge, commits, batch, filter, responseClosed,
                 level, raises, wire>>

\* process_send_events, for one event of the batch: it lets the application go
\* on to its next item,
Acknowledge ==
  /\ batch # <<>> /\ ~acknowledged
  /\ Head(batch).more
  /\ written' = written + 1
  /\ acknowledged' = TRUE
  /\ UNCHANGED <<senderVars, appVars, bridge, commits, batch, filter, responseClosed,
                 level, raises, wire>>

\* A broken handler, which answers an exception even after the response's end.
HandleEventAlways ==
  /\ batch # <<>>
  /\ Head(batch).more => acknowledged
  /\ batch' = Tail(batch)
  /\ acknowledged' = FALSE
  /\ wire' = wire \o Frames(Head(batch))
  /\ IF Head(batch).more THEN UNCHANGED <<filter, responseClosed, bridge>>
                         ELSE Completed
  /\ UNCHANGED <<senderVars, appVars, commits, written, level, raises>>

\* and then puts the event on the wire.
HandleEvent ==
  /\ batch # <<>>
  /\ Head(batch).more => acknowledged
  /\ batch' = Tail(batch)
  /\ acknowledged' = FALSE
  /\ IF Head(batch).kind = "Exception" /\ responseClosed
       THEN UNCHANGED <<wire, filter, responseClosed, bridge>>
       ELSE /\ wire' = wire \o Frames(Head(batch))
            /\ IF Head(batch).more THEN UNCHANGED <<filter, responseClosed, bridge>>
                                   ELSE Completed
  /\ UNCHANGED <<senderVars, appVars, commits, written, level, raises>>

\* Downstream is above a high watermark, which can also happen while data is
\* being sent,
AboveWatermark ==
  /\ filter = "live"
  /\ level < MaxLevel /\ raises < MaxRaises
  /\ level' = level + 1
  /\ raises' = raises + 1
  /\ UNCHANGED <<senderVars, appVars, bridge, commits, written, batch, acknowledged,
                 filter, responseClosed, wire>>

\* A broken low watermark, which does not go back to the bridge.
BelowWatermarkNoCommit ==
  /\ filter = "live" /\ level > 0 /\ batch = <<>>
  /\ level' = level - 1
  /\ UNCHANGED <<senderVars, appVars, bridge, commits, written, batch, acknowledged,
                 filter, responseClosed, raises, wire>>

\* and below the low one again.
BelowWatermark ==
  /\ filter = "live" /\ level > 0 /\ batch = <<>>
  /\ level' = level - 1
  /\ commits' = IF level = 1 THEN commits + 1 ELSE commits
  /\ UNCHANGED <<senderVars, appVars, bridge, written, batch, acknowledged, filter,
                 responseClosed, raises, wire>>

\* The client is gone, or the stream is reset.
OnStreamComplete ==
  /\ filter = "live" /\ batch = <<>>
  /\ Completed
  /\ UNCHANGED <<senderVars, appVars, commits, written, batch, acknowledged, level,
                 raises, wire>>

\* Envoy destroys the filter, with the senders and the callbacks of it.
Drop ==
  /\ filter = "complete" /\ batch = <<>>
  /\ filter' = "dropped"
  /\ commits' = 0
  /\ UNCHANGED <<senderVars, appVars, bridge, written, batch, acknowledged,
                 responseClosed, level, raises, wire>>

Terminated == pc = "done" /\ filter = "dropped" /\ UNCHANGED vars

AppStep ==
  \/ \E excInfo \in BOOLEAN : StartResponse(excInfo)
  \/ Write \/ SendTrailers \/ ReturnList \/ ReturnIterator
  \/ Yield \/ Exhausted \/ Raise

Next ==
  \/ AppStep \/ Commit \/ Written
  \/ OnScheduled \/ Acknowledge \/ HandleEvent
  \/ AboveWatermark \/ BelowWatermark
  \/ OnStreamComplete \/ Drop
  \/ Terminated

(***************************************************************************)
(* Envoy runs what is scheduled on a filter and destroys a filter whose    *)
(* stream is complete; a client that is above a watermark reads on or is   *)
(* disconnected; the application's thread runs.                            *)
(***************************************************************************)
Fairness ==
  /\ WF_vars(OnScheduled) /\ WF_vars(Drop)
  /\ WF_vars(Acknowledge) /\ WF_vars(HandleEvent)
  /\ WF_vars(BelowWatermark \/ (level > 0 /\ OnStreamComplete))
  /\ WF_vars(Commit) /\ WF_vars(Written)

Safety == Init /\ [][Next]_vars
Spec == Safety /\ Fairness

-----------------------------------------------------------------------------
Kinds == {"Start", "Body", "Trailers", "Exception"}
Events == [kind : Kinds, start : 0..MaxStarts, chunk : 0..MaxChunks, more : BOOLEAN]
Frame == {"headers", "data", "end", "error"} \X (0..MaxChunks + MaxStarts)

\* The state is well formed.
TypeOK ==
  /\ startEvent \in 0..MaxStarts /\ headersSent \in BOOLEAN /\ closed \in BOOLEAN
  /\ pc \in {"app", "iter", "commit", "recv", "raise", "done"}
  /\ after \in {"app", "iter", "recv", "done"}
  /\ starts \in 0..MaxStarts /\ produced \in 0..MaxChunks /\ usesWrite \in BOOLEAN
  /\ bridge \in Bridges(Events)
  /\ commits \in Nat /\ written \in Nat
  /\ batch \in Seq(Events) /\ acknowledged \in BOOLEAN
  /\ filter \in {"live", "complete", "dropped"} /\ responseClosed \in BOOLEAN
  /\ level \in 0..MaxLevel /\ raises \in 0..MaxRaises
  /\ wire \in Seq(Frame)

\* The application ended the response with trailers and never called
\* start_response, which ResponseSender does not refuse.
TrailersOnly == closed /\ ~headersSent

Position(kind) == {k \in DOMAIN wire : wire[k][1] = kind}

(***************************************************************************)
(* What goes downstream is a response: the headers of the latest           *)
(* start_response, once, before all else, the chunks in order, which are   *)
(* numbered from 1 and so come one place after their number, and nothing   *)
(* after the end or the error.  A response that ends without an error has  *)
(* all the chunks that send took.                                          *)
(***************************************************************************)
ChunksSent == Cardinality(Position("data"))

WellFormedResponse ==
  /\ TypeOK
  /\ wire # <<>> /\ ~TrailersOnly =>
       wire[1] \in {<<"headers", starts>>, <<"error", 0>>}
  /\ Position("headers") \subseteq {1}
  /\ Position("end") \cup Position("error") \subseteq {Len(wire)}
  /\ \A k \in Position("data") : wire[k] = <<"data", k - 1>>
  /\ Position("end") # {} => ChunksSent = produced

(***************************************************************************)
(* An application that yields its chunks, and does not write() them, is at *)
(* most one chunk ahead of what the filter has begun to send, so that a    *)
(* slow client holds it back.                                              *)
(***************************************************************************)
ChunksAhead == produced - ChunksSent

IterationIsHeldBack ==
  filter = "live" /\ ~usesWrite => ChunksAhead <= IF acknowledged THEN 2 ELSE 1

(***************************************************************************)
(* "Request and response backpressure integrated with Envoy's flow         *)
(* control", as README.md has it, of every application: while downstream   *)
(* is full and a chunk waits for it, no other is taken.  This does not     *)
(* hold of an application that uses write(), which waits for nothing.      *)
(***************************************************************************)
Backpressure ==
  [][filter = "live" /\ level > 0 /\ ChunksAhead > 0 => produced' = produced]_vars

(***************************************************************************)
(* The application's thread is never stuck after an item: the filter takes *)
(* it, or is destroyed.                                                    *)
(***************************************************************************)
WriterResumes == pc = "recv" ~> pc # "recv"

(***************************************************************************)
(* Once the application is done, its response ends, whether it returned,   *)
(* sent trailers or raised.                                                *)
(***************************************************************************)
ResponseEnds == pc = "done" ~> filter # "live"
=============================================================================
