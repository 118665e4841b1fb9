-------------------------- MODULE WsgiRequestBody --------------------------
(***************************************************************************)
(* The request body of a WSGI request: the application's blocking reads of *)
(* wsgi.input (RequestInput in src/wsgi/python.rs), the bridge and the     *)
(* channel between its thread and Envoy's, and the filter that answers a   *)
(* read out of Envoy's buffers (src/wsgi/filter.rs).                       *)
(*                                                                         *)
(* Callbacks of the filter run one at a time on Envoy's thread, and each   *)
(* is one step; the steps of the application's thread are between its      *)
(* uses of what the two threads share.  The bytes of the body are          *)
(* numbered in the order in which the client sends them.                   *)
(***************************************************************************)
EXTENDS Integers, Sequences, SequencesExt, FiniteSetsExt, Bridge

CONSTANTS MaxBody,   \* bound: the longest request body
          Newlines,  \* the positions of the newlines in it
          Window,    \* Envoy's buffer limit: the client is held back beyond it
          Reads      \* the reads the application makes

ASSUME BoundsAssumption == MaxBody \in Nat
ASSUME ReadsAssumption ==
  \A r \in Reads : r.kind \in {"Raw", "Line"} /\ r.size \in Int

VARIABLES
  \* Envoy's side
  arrived,        \* the number of bytes the client has sent
  buffered,       \* the bytes in Envoy's buffer
  started,        \* whether on_request_headers has run
  filter,         \* "live", "complete" (on_stream_complete ran) or "dropped"
  requestClosed,  \* Filter.request_closed
  pendingRead,    \* Filter.pending_read
  readBuffer,     \* Filter.read_buffer
  \* between the threads
  readBridge,     \* request_read_bridge
  commits,        \* EVENT_ID_REQUEST callbacks on their way
  channel,        \* the request_body channel
  \* the application's side
  pc,             \* where its thread is in do_read
  reading,        \* the read it is making
  inputClosed,    \* RequestInput.closed
  delivered,      \* the bytes it has been given
  answer          \* what its last read returned

envoyVars == <<arrived, buffered, started, filter, requestClosed, pendingRead,
               readBuffer>>
appVars == <<pc, reading, inputClosed, delivered, answer>>
vars == <<envoyVars, readBridge, commits, channel, appVars>>

Wait == [kind |-> "None", size |-> 0]
NoAnswer == [read |-> Wait, ok |-> TRUE, count |-> 0]

Init ==
  /\ arrived = 0 /\ buffered = <<>> /\ started = FALSE
  /\ filter = "live" /\ requestClosed = FALSE
  /\ pendingRead = Wait /\ readBuffer = <<>>
  /\ readBridge = OpenBridge /\ commits = 0 /\ channel = <<>>
  /\ pc = "idle" /\ reading = Wait /\ inputClosed = FALSE
  /\ delivered = <<>> /\ answer = NoAnswer

-----------------------------------------------------------------------------
(* process_read, over the bytes `available` in Envoy's two buffers.        *)

\* A broken search for the end of the line, which counts the size from the bytes
\* that are available now.
LineEndFresh(available, size) ==
  LET ends == {k \in DOMAIN available :
                 \/ available[k] \in Newlines
                 \/ size > 0 /\ k >= size}
  IN  IF ends = {} THEN 0 ELSE Min(ends)

\* read_request_until_line_or_size: the number of bytes to the end of the line
\* or to the size limit, where the line begins with what was read before; and
\* zero when neither is among the available bytes.
LineEnd(available, size) ==
  LET ends == {k \in DOMAIN available :
                 \/ available[k] \in Newlines
                 \/ size > 0 /\ Len(readBuffer) + k >= size}
  IN  IF ends = {} THEN 0 ELSE Min(ends)

\* The first `taken` available bytes leave Envoy, and with what was read before
\* they answer the read.
Answered(available, taken, closed) ==
  /\ channel' = Append(channel, [bytes |-> readBuffer \o SubSeq(available, 1, taken),
                                 closed |-> closed])
  /\ buffered' = SubSeq(available, taken + 1, Len(available))
  /\ pendingRead' = Wait
  /\ readBuffer' = <<>>

\* All the available bytes leave Envoy to wait for the rest of the answer.
Gathered(available, read) ==
  /\ readBuffer' = readBuffer \o available
  /\ buffered' = <<>>
  /\ pendingRead' = read
  /\ UNCHANGED channel

\* The bytes stay with Envoy.
LeftInEnvoy(available, read) ==
  /\ buffered' = available
  /\ pendingRead' = read
  /\ UNCHANGED <<readBuffer, channel>>

\* A broken read of everything, which is content with what is there.
ReadRawShort(available, read, closed) ==
  LET taken == IF read.size > 0 THEN Min({read.size, Len(available)}) ELSE Len(available)
  IN  Answered(available, taken, closed /\ taken = Len(available))

ReadRaw(available, read, closed) ==
  IF read.size > 0
    THEN LET taken == Min({read.size, Len(available)})
         IN  Answered(available, taken, closed /\ taken = Len(available))
    ELSE IF closed THEN Answered(available, Len(available), TRUE)
                   ELSE Gathered(available, read)

ReadLine(available, read, closed) ==
  LET end == LineEnd(available, read.size)
      taken == IF end > 0 THEN end ELSE Len(available)
  IN  IF end > 0 \/ closed
        THEN Answered(available, taken, closed /\ taken = Len(available))
        ELSE Gathered(available, read)

\* The last read on the bridge, or the one that was pending.
LatestRead ==
  IF readBridge.events = <<>> THEN pendingRead ELSE Last(readBridge.events)

\* A broken process_read, which keeps the latest read although it answers it.
ProcessReadAgain(received, closed) ==
  LET available == buffered \o received
      read == LatestRead
  IN  /\ UNCHANGED readBridge
      /\ IF read.kind = "None" \/ (available = <<>> /\ ~closed)
           THEN LeftInEnvoy(available, read)
           ELSE \/ read.kind = "Raw"  /\ ReadRaw(available, read, closed)
                \/ read.kind = "Line" /\ ReadLine(available, read, closed)

ProcessRead(received, closed) ==
  LET available == buffered \o received
      read == LatestRead
  IN  /\ readBridge' = Drained(readBridge)
      /\ IF read.kind = "None" \/ (available = <<>> /\ ~closed)
           THEN LeftInEnvoy(available, read)
           ELSE \/ read.kind = "Raw"  /\ ReadRaw(available, read, closed)
                \/ read.kind = "Line" /\ ReadLine(available, read, closed)

-----------------------------------------------------------------------------
(* The callbacks of the filter.                                            *)

\* on_request_headers hands the request to the executor.
OnRequestHeaders(endOfStream) ==
  /\ ~started /\ filter = "live"
  /\ started' = TRUE
  /\ requestClosed' = endOfStream
  /\ inputClosed' = endOfStream
  /\ UNCHANGED <<arrived, buffered, filter, pendingRead, readBuffer, readBridge,
                 commits, channel, pc, reading, delivered, answer>>

\* on_request_body with n bytes, for as long as the client may send.
OnRequestBody(n, endOfStream) ==
  /\ started /\ filter = "live" /\ ~requestClosed
  /\ n = 0 => endOfStream
  /\ n > 0 => Len(buffered) < Window
  /\ arrived + n <= MaxBody
  /\ arrived' = arrived + n
  /\ requestClosed' = endOfStream
  /\ ProcessRead([k \in 1..n |-> arrived + k], endOfStream)
  /\ UNCHANGED <<started, filter, commits, appVars>>

\* A broken end of the request, which does not look for a read that waits.
OnRequestTrailersOnly ==
  /\ started /\ filter = "live" /\ ~requestClosed
  /\ requestClosed' = TRUE
  /\ UNCHANGED <<arrived, buffered, started, filter, pendingRead, readBuffer,
                 readBridge, commits, channel, appVars>>

OnRequestTrailers ==
  /\ started /\ filter = "live" /\ ~requestClosed
  /\ requestClosed' = TRUE
  /\ ProcessRead(<<>>, TRUE)
  /\ UNCHANGED <<arrived, started, filter, commits, appVars>>

\* on_scheduled(EVENT_ID_REQUEST), which can also run after on_stream_complete.
OnScheduled ==
  /\ commits > 0 /\ filter # "dropped"
  /\ commits' = commits - 1
  /\ ProcessRead(<<>>, requestClosed)
  /\ UNCHANGED <<arrived, started, filter, requestClosed, appVars>>

\* The response is complete, or the client is gone.
OnStreamComplete ==
  /\ started /\ filter = "live"
  /\ filter' = "complete"
  /\ readBridge' = ClosedBridge
  /\ UNCHANGED <<arrived, buffered, started, requestClosed, pendingRead,
                 readBuffer, commits, channel, appVars>>

\* Envoy destroys the filter, and with it the sender of the channel and the
\* callbacks that were scheduled.
Drop ==
  /\ filter = "complete"
  /\ filter' = "dropped"
  /\ commits' = 0
  /\ buffered' = <<>> /\ readBuffer' = <<>> /\ pendingRead' = Wait
  /\ UNCHANGED <<arrived, started, requestClosed, readBridge, channel, appVars>>

-----------------------------------------------------------------------------
(* The application's thread: read, readline and what is built on them.     *)

\* A read of nothing, or one after the end of the body, returns at once.
ReadNothing(r) ==
  /\ started /\ pc = "idle"
  /\ r.size = 0 \/ inputClosed
  /\ answer' = [read |-> r, ok |-> TRUE, count |-> 0]
  /\ UNCHANGED <<envoyVars, readBridge, commits, channel, pc, reading,
                 inputClosed, delivered>>

SendRead(r) ==
  /\ started /\ pc = "idle"
  /\ r.size # 0 /\ ~inputClosed
  /\ readBridge' = Sent(readBridge, r)
  /\ reading' = r
  /\ pc' = IF readBridge.closed THEN "recv" ELSE "commit"
  /\ UNCHANGED <<envoyVars, commits, channel, inputClosed, delivered, answer>>

\* scheduler.commit, which does nothing for a filter that is gone.
Commit ==
  /\ pc = "commit"
  /\ commits' = IF filter = "dropped" THEN commits ELSE commits + 1
  /\ pc' = "recv"
  /\ UNCHANGED <<envoyVars, readBridge, channel, reading, inputClosed, delivered,
                 answer>>

Receive ==
  /\ pc = "recv"
  /\ channel # <<>>
  /\ delivered' = delivered \o Head(channel).bytes
  /\ inputClosed' = Head(channel).closed
  /\ answer' = [read |-> reading, ok |-> TRUE, count |-> Len(Head(channel).bytes)]
  /\ channel' = Tail(channel)
  /\ reading' = Wait
  /\ pc' = "idle"
  /\ UNCHANGED <<envoyVars, readBridge, commits>>

\* recv fails once the filter, which holds the only sender, is gone.
ReceiveFails ==
  /\ pc = "recv"
  /\ channel = <<>> /\ filter = "dropped"
  /\ answer' = [read |-> reading, ok |-> FALSE, count |-> 0]
  /\ reading' = Wait
  /\ pc' = "idle"
  /\ UNCHANGED <<envoyVars, readBridge, commits, channel, inputClosed, delivered>>

Next ==
  \/ \E endOfStream \in BOOLEAN : OnRequestHeaders(endOfStream)
  \/ \E n \in 0..MaxBody, endOfStream \in BOOLEAN : OnRequestBody(n, endOfStream)
  \/ OnRequestTrailers
  \/ OnScheduled
  \/ OnStreamComplete
  \/ Drop
  \/ \E r \in Reads : ReadNothing(r) \/ SendRead(r)
  \/ Commit \/ Receive \/ ReceiveFails

(***************************************************************************)
(* Envoy runs what was scheduled on a filter and destroys a filter whose   *)
(* stream is complete; the application's thread runs.  The client need not *)
(* send anything, and the application need not read.                       *)
(***************************************************************************)
Fairness ==
  /\ WF_vars(OnScheduled) /\ WF_vars(Drop)
  /\ WF_vars(Commit) /\ WF_vars(Receive) /\ WF_vars(ReceiveFails)

Safety == Init /\ [][Next]_vars
Spec == Safety /\ Fairness

-----------------------------------------------------------------------------
Body == [k \in 1..arrived |-> k]

Messages == [bytes : Seq(1..MaxBody), closed : BOOLEAN]

\* The state is well formed; at most one read is on its way.
TypeOK ==
  /\ arrived \in 0..MaxBody
  /\ buffered \in Seq(1..MaxBody)
  /\ started \in BOOLEAN /\ requestClosed \in BOOLEAN /\ inputClosed \in BOOLEAN
  /\ filter \in {"live", "complete", "dropped"}
  /\ pendingRead \in Reads \cup {Wait}
  /\ readBuffer \in Seq(1..MaxBody)
  /\ readBridge \in Bridges(Reads)
  /\ commits \in Nat
  /\ channel \in Seq(Messages)
  /\ pc \in {"idle", "commit", "recv"}
  /\ reading \in Reads \cup {Wait}
  /\ delivered \in Seq(1..MaxBody)
  /\ answer \in [read : Reads \cup {Wait}, ok : BOOLEAN, count : 0..MaxBody]

InChannel == FlattenSeq([k \in DOMAIN channel |-> channel[k].bytes])

(***************************************************************************)
(* As long as the stream lives, the bytes the client sent are, in order,   *)
(* those the application was given, those in the channel, those gathered   *)
(* for a read, and those in Envoy's buffers.  "Buffering in the filter     *)
(* allows us to drain only as much request body as was requested": bytes   *)
(* leave Envoy's buffers only for a read that waits for them, and never    *)
(* beyond its size or its line.                                            *)
(***************************************************************************)
BodyConserved ==
  LET taken == InChannel \o readBuffer
  IN  /\ filter # "dropped" => Body = delivered \o taken \o buffered
      /\ taken # <<>> =>
           /\ pc # "idle"
           /\ reading.size > 0 => Len(taken) <= reading.size
           /\ reading.kind = "Line" =>
                \A k \in 1 .. Len(taken) - 1 : taken[k] \notin Newlines

(***************************************************************************)
(* An outstanding read is in one place: on the bridge, pending in the      *)
(* filter, or answered in the channel (or it was lost with the stream).    *)
(* So none overwrites another, and no answer goes to a later read.         *)
(***************************************************************************)
ReadsInFlight ==
  Len(readBridge.events) + Len(channel) + (IF pendingRead = Wait THEN 0 ELSE 1)

OneReadOneAnswer ==
  /\ TypeOK
  /\ pc = "idle" => ReadsInFlight = 0
  /\ pc # "idle" => ReadsInFlight = 1 \/ (filter # "live" /\ ReadsInFlight = 0)

(***************************************************************************)
(* wsgi.input is a blocking file over the body, however it arrives.        *)
(***************************************************************************)
Input == INSTANCE WsgiInputSpec WITH
           ended <- requestClosed, completed <- (filter # "live"),
           position <- Len(delivered)

ImplementsInput == Input!Spec

(***************************************************************************)
(* No read blocks for ever: it returns, or fails, once the body has ended, *)
(* the stream is over, or Envoy holds bytes for a read that takes any.     *)
(***************************************************************************)
Answerable ==
  /\ pc # "idle"
  /\ \/ requestClosed
     \/ filter # "live"
     \/ reading.kind = "Raw" /\ reading.size > 0 /\ buffered # <<>>

ReadsReturn == Answerable ~> pc = "idle"
=============================================================================
