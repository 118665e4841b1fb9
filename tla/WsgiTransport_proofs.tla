------------------------ MODULE WsgiTransport_proofs ------------------------
(***************************************************************************)
(* Proofs about WsgiTransport for every number of chunks and of reads: a   *)
(* request that is given up leaves nothing behind, what the application    *)
(* reads is the response, and what the upstream takes for complete is the  *)
(* request.  The invariant follows the two streams of messages: those in   *)
(* the channel, of which it says what each position holds (Delivery), and  *)
(* the events on their way to the filter, up to a reset, after which none  *)
(* matters (Seen).  Who closes the iterator of the request has an excuse:  *)
(* the upstream has answered, or a reset is ahead of what the worker makes *)
(* of it (Excused).                                                        *)
(***************************************************************************)
EXTENDS WsgiTransport, SequenceFacts

-----------------------------------------------------------------------------
(* The inductive invariant.                                                *)

\* The events on their way to the upstream, the oldest first.
Pipe == batch \o bridge.events

StartPending == \E k \in 1..Len(Pipe) : Pipe[k].kind = "start"
ResetUpTo(n) == \E k \in 1..n : Pipe[k].kind = "reset"
ResetOnWay == ResetUpTo(Len(Pipe))

\* The filter has an entry only while it can handle what is sent to it.
Attached ==
  /\ bridge.closed <=> filter # "live"
  /\ filter # "live" => batch = <<>> /\ ~entry
  /\ entry => stream = "open"
  /\ bridge.events # <<>> => commits > 0
  /\ \A k \in 1..Len(Pipe) :
       Pipe[k].kind \in {"start", "reset"} => Pipe[k] = Event(Pipe[k].kind, 0)

\* What has not happened yet in a call that has not come so far.
Beginning ==
  /\ call = "none" => Pipe = <<>> /\ stream = "none" /\ channel = <<>>
  /\ call \in {"none", "starting", "timedOutEarly"} => worker = "none"
  /\ StartPending => /\ call \in {"starting", "timedOutEarly"} /\ Len(Pipe) = 1
                     /\ stream = "none" /\ channel = <<>>
  /\ stream = "none" => requestSeen = <<>> /\ ~requestEnded /\ answer = "none" /\ fed = 0
  /\ worker = "none" => forwarded = 0
  /\ call \in {"none", "starting", "heading"} => Idle /\ ~iterClosed
  /\ call \notin {"response", "dropped"} =>
       received = <<>> /\ results = <<>> /\ ~reading /\ ~ended

\* Why a response has ended, and who is left in it.
Closing ==
  /\ abandoned => ended
  /\ reading => call = "response" /\ closing["reader"] = "no"
  /\ reading /\ ended => abandoned
  /\ \A t \in Threads : closing[t] = "reset" => abandoned
  /\ ended /\ ~abandoned /\ entry => Answered

\* The iterator and the stream of a request that is given up are taken care of.
GivingUp == call \in {"dropped", "bare", "failed", "timedOut", "timedOutEarly"} \/ abandoned
Left ==
  /\ GivingUp /\ requestIter => ~Idle
  /\ (abandoned \/ call = "timedOut") /\ entry =>
       ResetOnWay \/ \E t \in Threads : closing[t] = "reset"

\* The messages of the channel, while there is somebody to read them: of those
\* that were sent, Consumed have been received, the start and the headers first.
Receives == call \in {"starting", "heading"} \/ (call = "response" /\ (~ended \/ reading))
Consumed == CASE call = "starting" -> 0
              [] call = "heading"  -> 1
              [] OTHER             -> 2 + Len(received)

Fits(m, n) ==
  /\ n = 1 => m.kind \in {"started", "reset"}
  /\ n = 2 => m.kind \in {"headers", "headersEnd", "reset", "failure"}
  /\ n > 2 => m.kind \in {"body", "end", "trailers", "reset", "failure"}
  /\ m.kind = "body" => m.chunk = n - 2
  /\ m.kind = "headersEnd" => answer = "ended"
  /\ m.kind = "end" => answer = "ended" /\ fed = n - 3
  /\ m.kind = "trailers" => answer = "trailers" /\ fed = n - 3
  /\ m.kind \in {"reset", "failure"} => ~entry

Delivery ==
  Receives =>
    /\ \A k \in 1..Len(channel) : Fits(channel[k], Consumed + k)
    /\ entry /\ answer = "none" => Consumed + Len(channel) = 1 /\ fed = 0
    /\ entry /\ answer = "headers" => Consumed + Len(channel) = fed + 2

\* What the reader has been told.
Finished == Answered /\ Len(received) = fed /\ (answer = "trailers" => trailersShown)
Stops ==
  \A k \in DOMAIN results :
    results[k] = "stop" /\ ~abandoned
      /\ (\A j \in 1..(k - 1) : results[j] \in {"data", "stop"}) => Finished
Reads ==
  /\ \A k \in DOMAIN received : received[k] = k
  /\ \A k \in DOMAIN results : results[k] # "data" => ended
  /\ ended /\ ~abandoned /\ (\A k \in DOMAIN results : results[k] \in {"data", "stop"}) =>
       Finished
  /\ Stops

\* What the upstream has seen, and what it will see of the events in the pipe.
Handed == IF worker = "sending" THEN forwarded - 1 ELSE forwarded
Complete == exhausted \/ Answered \/ raced

Coming(e, n) ==
  /\ e.kind = "data" => e.chunk = n /\ n <= Handed
  /\ e.kind \in {"end", "fail"} => n - 1 = forwarded /\ worker \in {"ended", "failed"}
  /\ e.kind = "end" => worker = "ended" /\ Complete

Seen ==
  /\ \A k \in 1..Len(requestSeen) : requestSeen[k] = k
  /\ streaming /\ requestEnded =>
       /\ worker = "ended" /\ Complete
       /\ exhausted /\ ~Answered /\ ~raced => Len(requestSeen) = forwarded
  /\ entry =>
       /\ \A k \in 1..Len(Pipe) : ~ResetUpTo(k - 1) => Coming(Pipe[k], Len(requestSeen) + k)
       /\ ~ResetOnWay /\ worker \notin {"ended", "failed"} =>
            Len(requestSeen) + Len(Pipe) = Handed

Excused ==
  iterClosed \/ (requestIter /\ \E t \in Threads : closing[t] = "iter") =>
    worker = "none" \/ ~entry \/ Answered \/ raced \/ ResetOnWay

IInv ==
  /\ TypeOK /\ Attached /\ Beginning /\ Closing /\ Left
  /\ Delivery /\ Reads /\ Seen /\ Excused
-----------------------------------------------------------------------------
(* The sequences, element by element.                                      *)

LEMMA Lengths ==
  ASSUME TypeOK
  PROVE  /\ Len(channel) \in Nat /\ DOMAIN channel = 1..Len(channel)
         /\ channel \in Seq(TransportResponses)
         /\ \A k \in 1..Len(channel) : channel[k] \in TransportResponses
         /\ channel = <<>> <=> Len(channel) = 0
         /\ Len(batch) \in Nat /\ batch \in Seq(TransportEvents)
         /\ Len(bridge.events) \in Nat /\ bridge.events \in Seq(TransportEvents)
         /\ bridge = [closed |-> bridge.closed, events |-> bridge.events]
         /\ bridge.closed \in BOOLEAN /\ (bridge.closed => bridge.events = <<>>)
         /\ Len(requestSeen) \in Nat /\ DOMAIN requestSeen = 1..Len(requestSeen)
         /\ Len(received) \in Nat /\ DOMAIN received = 1..Len(received)
         /\ Len(results) \in Nat /\ DOMAIN results = 1..Len(results)
         /\ Consumed \in Nat /\ forwarded \in Nat /\ fed \in Nat /\ Handed \in Int
<1>1. /\ channel \in Seq(TransportResponses) /\ batch \in Seq(TransportEvents)
      /\ requestSeen \in Seq(1..MaxForwarded) /\ received \in Seq(1..MaxData)
      /\ results \in Seq({"data", "stop", "error", "timeout"})
      /\ bridge \in Bridges(TransportEvents)
      /\ forwarded \in Nat /\ fed \in Nat
  BY BoundsAssumption DEF TypeOK
<1>2. /\ bridge.events \in Seq(TransportEvents) /\ bridge.closed \in BOOLEAN
      /\ bridge = [closed |-> bridge.closed, events |-> bridge.events]
      /\ bridge.closed => bridge.events = <<>>
  BY <1>1 DEF Bridges
<1>3. Len(received) \in Nat /\ DOMAIN received = 1..Len(received)
  BY <1>1, LenProperties
<1>4. Consumed \in Nat /\ Handed \in Int
  BY <1>1, <1>3 DEF Consumed, Handed
<1>5. /\ Len(channel) \in Nat /\ DOMAIN channel = 1..Len(channel)
      /\ \A k \in 1..Len(channel) : channel[k] \in TransportResponses
      /\ channel = <<>> <=> Len(channel) = 0
  BY <1>1, LenProperties, ElementOfSeq, EmptySeq
<1> QED
  BY <1>1, <1>2, <1>3, <1>4, <1>5, LenProperties

LEMMA PipeFacts ==
  ASSUME TypeOK
  PROVE  /\ Pipe \in Seq(TransportEvents) /\ Len(Pipe) \in Nat
         /\ Len(Pipe) = Len(batch) + Len(bridge.events)
         /\ \A k \in 1..Len(Pipe) : Pipe[k] \in TransportEvents
         /\ \A k \in 1..Len(batch) : Pipe[k] = batch[k]
         /\ \A k \in 1..Len(bridge.events) : Pipe[Len(batch) + k] = bridge.events[k]
         /\ Pipe = <<>> <=> Len(Pipe) = 0
         /\ Pipe = <<>> <=> batch = <<>> /\ bridge.events = <<>>
<1>1. /\ Pipe \in Seq(TransportEvents) /\ Len(Pipe) = Len(batch) + Len(bridge.events)
      /\ \A k \in 1..Len(batch) : Pipe[k] = batch[k]
      /\ \A k \in 1..Len(bridge.events) : Pipe[Len(batch) + k] = bridge.events[k]
  BY SMTT(60), Lengths, ConcatFacts DEF Pipe
<1>2. /\ Len(Pipe) \in Nat /\ \A k \in 1..Len(Pipe) : Pipe[k] \in TransportEvents
      /\ Pipe = <<>> <=> Len(Pipe) = 0
  BY <1>1, LenProperties, ElementOfSeq, EmptySeq
<1>3. (batch = <<>> <=> Len(batch) = 0) /\ (bridge.events = <<>> <=> Len(bridge.events) = 0)
  BY Lengths, EmptySeq
<1> QED
  BY <1>1, <1>2, <1>3, Lengths

\* An event that is sent is the last of the pipe, unless the bridge is closed.
LEMMA SendFacts ==
  ASSUME TypeOK, NEW e \in TransportEvents, Send(e), batch' = batch
  PROVE  /\ bridge' \in Bridges(TransportEvents) /\ commits' \in Nat
         /\ bridge'.closed = bridge.closed
         /\ bridge.closed => bridge' = bridge /\ commits' = commits /\ Pipe' = Pipe
         /\ ~bridge.closed =>
              /\ Pipe' = Append(Pipe, e) /\ commits' > 0
              /\ Len(Pipe') = Len(Pipe) + 1 /\ Pipe'[Len(Pipe) + 1] = e
              /\ \A k \in 1..Len(Pipe) : Pipe'[k] = Pipe[k]
<1>1. commits \in Nat
  BY DEF TypeOK
<1>2. CASE bridge.closed
  <2>1. bridge' = bridge /\ commits' = commits
    BY <1>2 DEF Send, Sent
  <2> QED
    BY <1>1, <1>2, <2>1 DEF TypeOK, Pipe
<1>3. CASE ~bridge.closed
  <2>1. bridge' = [bridge EXCEPT !.events = Append(@, e)] /\ commits' = commits + 1
    BY <1>3 DEF Send, Sent
  <2>2. bridge' = [closed |-> bridge.closed, events |-> Append(bridge.events, e)]
    BY <2>1, Lengths
  <2>3. Append(bridge.events, e) \in Seq(TransportEvents)
    BY Lengths, AppendFacts
  <2>4. bridge' \in Bridges(TransportEvents) /\ bridge'.closed = bridge.closed
    BY <1>3, <2>2, <2>3, Lengths DEF Bridges
  <2>5. Pipe' = Append(Pipe, e)
    <3>1. \A b, s \in Seq(TransportEvents) : b \o Append(s, e) = Append(b \o s, e)
      OBVIOUS
    <3>2. bridge'.events = Append(bridge.events, e)
      BY <2>2
    <3> QED
      BY <3>1, <3>2, Lengths DEF Pipe
  <2>6. /\ Len(Append(Pipe, e)) = Len(Pipe) + 1 /\ Append(Pipe, e)[Len(Pipe) + 1] = e
        /\ \A k \in 1..Len(Pipe) : Append(Pipe, e)[k] = Pipe[k]
    BY PipeFacts, AppendFacts
  <2> QED
    BY <1>1, <1>3, <2>1, <2>4, <2>5, <2>6
<1>4. bridge.closed \in BOOLEAN
  BY Lengths
<1> QED
  BY <1>2, <1>3, <1>4

\* The events of this program.
LEMMA EventsAre ==
  /\ \A kind \in {"start", "end", "reset", "fail"} :
       /\ Event(kind, 0) \in TransportEvents
       /\ Event(kind, 0).kind = kind
  /\ \A n \in 0..MaxForwarded :
       /\ Event("data", n) \in TransportEvents
       /\ Event("data", n).kind = "data" /\ Event("data", n).chunk = n
  /\ \A kind \in {"started", "headers", "headersEnd", "end", "trailers", "reset", "failure"} :
       Event(kind, 0) \in TransportResponses /\ Event(kind, 0).kind = kind
  /\ \A n \in 0..MaxData :
       /\ Event("body", n) \in TransportResponses
       /\ Event("body", n).kind = "body" /\ Event("body", n).chunk = n
  BY BoundsAssumption DEF Event, TransportEvents, TransportResponses

\* What a message that is told to the application adds to the channel.
LEMMA TellFacts ==
  ASSUME TypeOK,
         NEW kind \in {"started", "headers", "headersEnd", "end", "trailers", "reset", "failure"},
         Tell(kind)
  PROVE  /\ channel' \in Seq(TransportResponses)
         /\ ~HasReceiver => channel' = channel
         /\ HasReceiver =>
              /\ Len(channel') = Len(channel) + 1
              /\ channel'[Len(channel) + 1].kind = kind
              /\ \A k \in 1..Len(channel) : channel'[k] = channel[k]
<1>1. Event(kind, 0) \in TransportResponses /\ Event(kind, 0).kind = kind
  BY EventsAre
<1>2. channel \in Seq(TransportResponses)
  BY DEF TypeOK
<1>3. CASE HasReceiver
  <2>1. channel' = Append(channel, Event(kind, 0))
    BY <1>3 DEF Tell
  <2> QED
    BY <1>1, <1>2, <1>3, <2>1, AppendFacts
<1>4. CASE ~HasReceiver
  BY <1>2, <1>4 DEF Tell
<1> QED
  BY <1>3, <1>4

\* The message that is received is the first.
LEMMA ChannelTail ==
  ASSUME TypeOK, channel # <<>>
  PROVE  /\ Tail(channel) \in Seq(TransportResponses)
         /\ Len(channel) >= 1 /\ 1 \in 1..Len(channel)
         /\ Head(channel) = channel[1] /\ Head(channel) \in TransportResponses
         /\ Len(Tail(channel)) = Len(channel) - 1
         /\ \A k \in 1..(Len(channel) - 1) :
              Tail(channel)[k] = channel[k + 1] /\ k + 1 \in 1..Len(channel)
<1>1. channel \in Seq(TransportResponses)
  BY DEF TypeOK
<1>2. /\ Tail(channel) \in Seq(TransportResponses)
      /\ Head(channel) = channel[1] /\ Head(channel) \in TransportResponses
      /\ Len(Tail(channel)) = Len(channel) - 1 /\ Len(channel) \in Nat \ {0}
      /\ \A k \in 1..(Len(channel) - 1) : Tail(channel)[k] = channel[k + 1]
  BY <1>1, TailFacts
<1> QED
  BY <1>2

-----------------------------------------------------------------------------
(* What each part of the invariant depends on: a step that leaves it alone *)
(* keeps the part.                                                         *)

\* The events in the pipe are the same, or no longer matter.
PipeKept == Pipe' = Pipe \/ entry' = FALSE

LEMMA AttachedKept ==
  ASSUME Attached, UNCHANGED <<batch, bridge, commits, filter>>,
         entry' => entry, entry' => stream' = "open"
  PROVE  Attached'
  BY DEF Attached, Pipe

LEMMA BeginningKept ==
  ASSUME Beginning,
         UNCHANGED <<Pipe, call, stream, worker, requestSeen, requestEnded, answer, fed,
                     forwarded, closing, iterClosed, received, results, reading, ended>>,
         channel' = channel \/ stream # "none"
  PROVE  Beginning'
<1>1. Pipe' = Pipe /\ (StartPending' <=> StartPending) /\ (Idle' <=> Idle)
  BY DEF StartPending, Idle
<1>2. channel' = channel \/ (call # "none" /\ ~StartPending)
  BY DEF Beginning
<1>3. /\ call' = "none" => Pipe' = <<>> /\ stream' = "none" /\ channel' = <<>>
      /\ StartPending' => /\ call' \in {"starting", "timedOutEarly"} /\ Len(Pipe') = 1
                          /\ stream' = "none" /\ channel' = <<>>
  BY <1>1, <1>2 DEF Beginning
<1> QED
  BY <1>1, <1>3 DEF Beginning

LEMMA ClosingKept ==
  ASSUME Closing, UNCHANGED <<ended, call, abandoned, reading, closing>>,
         entry' => entry, Answered => Answered'
  PROVE  Closing'
  BY DEF Closing

LEMMA LeftKept ==
  ASSUME Left, UNCHANGED <<call, abandoned, requestIter, closing>>, entry' => entry,
         entry' /\ ResetOnWay => ResetOnWay'
  PROVE  Left'
<1>1. (GivingUp' <=> GivingUp) /\ (Idle' <=> Idle)
  BY DEF GivingUp, Idle
<1> HIDE DEF GivingUp, Idle, ResetOnWay
<1> QED
  BY <1>1 DEF Left

LEMMA DeliveryKept ==
  ASSUME Delivery, Receives' => Receives /\ UNCHANGED <<call, received, channel, fed>>,
         entry' => entry, entry' => answer' = answer, Answered => answer' = answer
  PROVE  Delivery'
<1>1. SUFFICES ASSUME Receives' PROVE Delivery'
  BY DEF Delivery
<1>2. Receives /\ UNCHANGED <<received, channel, fed>> /\ Consumed' = Consumed
  BY <1>1 DEF Consumed
<1>3. ASSUME NEW k \in 1..Len(channel') PROVE Fits(channel[k], Consumed + k)'
  <2>1. Fits(channel[k], Consumed + k)
    BY <1>2 DEF Delivery
  <2> QED
    BY <1>2, <2>1 DEF Fits, Answered
<1>4. (entry /\ answer = "none" => Consumed + Len(channel) = 1 /\ fed = 0)'
  BY <1>2 DEF Delivery
<1>5. (entry /\ answer = "headers" => Consumed + Len(channel) = fed + 2)'
  BY <1>2 DEF Delivery
<1> QED
  BY <1>3, <1>4, <1>5 DEF Delivery

LEMMA ReadsKept ==
  ASSUME Reads, UNCHANGED <<received, results, ended, abandoned, trailersShown>>,
         Answered => answer' = answer /\ fed' = fed
  PROVE  Reads'
<1>1. Finished => Finished'
  BY DEF Finished, Answered
<1> HIDE DEF Finished
<1>2. Stops'
  BY <1>1 DEF Reads, Stops
<1> QED
  BY <1>1, <1>2 DEF Reads

Busy == {"sending", "ended", "failed"}

LEMMA SeenKept ==
  ASSUME Seen, UNCHANGED <<streaming, exhausted, forwarded, requestSeen, requestEnded>>,
         worker' = worker \/ (worker \notin Busy /\ worker' \notin Busy), entry' => entry, Answered => Answered', raced => raced', PipeKept
  PROVE  Seen'
<1>1. Handed' = Handed /\ (Complete => Complete')
  BY DEF Handed, Complete, Busy
<1>2. /\ \A k \in 1..Len(requestSeen') : requestSeen'[k] = k
      /\ streaming' /\ requestEnded' =>
           /\ worker' = "ended" /\ Complete'
           /\ exhausted' /\ ~Answered' /\ ~raced' => Len(requestSeen') = forwarded'
  BY <1>1 DEF Seen, Busy
<1>3. CASE entry' = FALSE
  BY <1>2, <1>3 DEF Seen
<1>4. CASE entry' # FALSE /\ Pipe' = Pipe
  <2>1. (ResetOnWay' <=> ResetOnWay) /\ \A n : ResetUpTo(n)' <=> ResetUpTo(n)
    BY <1>4 DEF ResetOnWay, ResetUpTo
  <2>2. ASSUME entry', NEW k \in 1..Len(Pipe'), ~ResetUpTo(k - 1)'
        PROVE  Coming(Pipe[k], Len(requestSeen) + k)'
    <3>1. k \in 1..Len(Pipe) /\ ~ResetUpTo(k - 1) /\ entry
      BY <1>4, <2>1, <2>2
    <3>2. Coming(Pipe[k], Len(requestSeen) + k)
      BY <3>1 DEF Seen
    <3> QED
      BY <1>1, <1>4, <3>2 DEF Coming, Busy
  <2>3. entry' /\ ~ResetOnWay' /\ worker' \notin {"ended", "failed"} =>
          Len(requestSeen') + Len(Pipe') = Handed'
    BY <1>1, <1>4, <2>1 DEF Seen, Busy
  <2> QED
    BY <1>2, <2>2, <2>3 DEF Seen
<1> QED
  BY <1>3, <1>4 DEF PipeKept

LEMMA ExcusedKept ==
  ASSUME Excused, UNCHANGED <<iterClosed, requestIter, closing>>,
         worker = "none" => worker' = "none" \/ ~entry',
         entry' => entry, Answered => Answered', raced => raced',
         entry' /\ ResetOnWay => ResetOnWay'
  PROVE  Excused'
<1> HIDE DEF ResetOnWay, Answered
<1> QED
  BY DEF Excused

\* A response is there, or was: what Beginning says of earlier calls is past.
LEMMA BeginningIsPast ==
  ASSUME Beginning, ~StartPending', call' \in {"response", "dropped"},
         UNCHANGED <<stream, requestSeen, requestEnded, answer, fed, forwarded>>,
         worker' = "none" => worker = "none"
  PROVE  Beginning'
  BY DEF Beginning

-----------------------------------------------------------------------------
(* The application's thread in execute_sync.                               *)

\* Steps that leave the filter, the pipe and the upstream alone.
Aside == UNCHANGED <<streaming, bridge, commits, filterVars, upstreamVars>>

LEMMA AsideFacts ==
  ASSUME Attached, Aside
  PROVE  /\ Attached' /\ Pipe' = Pipe /\ PipeKept
         /\ (StartPending' <=> StartPending) /\ (ResetOnWay' <=> ResetOnWay)
         /\ (Answered' <=> Answered)
         /\ UNCHANGED <<streaming, bridge, commits, batch, filter, entry, stream, answer, fed,
                        requestSeen, requestEnded>>
<1>1. UNCHANGED <<streaming, bridge, commits, batch, filter, entry, stream, answer, fed,
                  requestSeen, requestEnded>>
  BY DEF Aside, filterVars, upstreamVars
<1>2. Attached'
  BY <1>1, AttachedKept DEF Attached
<1>3. Pipe' = Pipe
  BY <1>1 DEF Pipe
<1> QED
  BY <1>1, <1>2, <1>3 DEF PipeKept, StartPending, ResetOnWay, ResetUpTo, Answered

LEMMA ExpireStep == ASSUME IInv, Expire PROVE IInv'
<1> USE DEF IInv
<1>1. /\ Aside /\ expired' = TRUE
      /\ UNCHANGED <<streaming, call, late, readVars, closeVars, iterVars, workerVars, channel>>
  BY DEF Expire, Aside
<1>2. UNCHANGED <<call, late, reading, results, received, trailersShown, ended, abandoned,
                  closing, raced, requestIter, iterClosed, worker, exhausted, forwarded, channel>>
  BY <1>1 DEF readVars, closeVars, iterVars, workerVars
<1>3. TypeOK'
  BY <1>1, <1>2, AsideFacts DEF TypeOK
<1>4. Receives' <=> Receives
  BY <1>2 DEF Receives
<1>5. Attached' /\ Beginning' /\ Closing' /\ Left'
  BY <1>1, <1>2, AsideFacts, BeginningKept, ClosingKept, LeftKept
<1>6. Delivery' /\ Reads' /\ Seen' /\ Excused'
  BY <1>1, <1>2, <1>4, AsideFacts, DeliveryKept, ReadsKept, SeenKept, ExcusedKept
<1> QED
  BY <1>3, <1>5, <1>6

\* A message is received: the others move up.
LEMMA DeliveryShifts ==
  ASSUME TypeOK, Delivery, Receives, channel # <<>>, channel' = Tail(channel),
         Receives' => Consumed' = Consumed + 1, UNCHANGED <<entry, answer, fed>>
  PROVE  Delivery'
<1>1. SUFFICES ASSUME Receives' PROVE Delivery'
  BY DEF Delivery
<1>2. Consumed' = Consumed + 1 /\ Consumed \in Nat /\ Len(channel) \in Nat
      /\ Len(channel') = Len(channel) - 1
  BY <1>1, Lengths, ChannelTail
<1>3. ASSUME NEW k \in 1..Len(channel') PROVE Fits(channel[k], Consumed + k)'
  <2>1. k + 1 \in 1..Len(channel) /\ channel'[k] = channel[k + 1]
        /\ Consumed' + k = Consumed + (k + 1)
    BY <1>2, ChannelTail
  <2>2. Fits(channel[k + 1], Consumed + (k + 1))
    BY <2>1 DEF Delivery
  <2> QED
    BY <2>1, <2>2 DEF Fits
<1>4. Consumed' + Len(channel') = Consumed + Len(channel)
  BY <1>2
<1>5. (entry /\ answer = "none" => Consumed + Len(channel) = 1 /\ fed = 0)'
  BY <1>4 DEF Delivery
<1>6. (entry /\ answer = "headers" => Consumed + Len(channel) = fed + 2)'
  BY <1>4 DEF Delivery
<1> QED
  BY <1>3, <1>5, <1>6 DEF Delivery

\* What the message that is received says.
LEMMA HeadFits ==
  ASSUME TypeOK, Delivery, Receives, channel # <<>>
  PROVE  Fits(Head(channel), Consumed + 1)
  BY ChannelTail DEF Delivery

LEMMA StartedStep == ASSUME IInv, Started PROVE IInv'
<1> USE DEF IInv
<1>1. /\ Aside /\ call = "starting" /\ call' = "heading"
      /\ channel # <<>> /\ channel' = Tail(channel) /\ late' = expired
      /\ worker' = IF streaming THEN "queued" ELSE worker
      /\ UNCHANGED <<streaming, expired, reading, results, received, trailersShown, ended,
                     abandoned, closing, raced, requestIter, iterClosed, exhausted, forwarded>>
  BY DEF Started, Aside, Received, readVars, closeVars, iterVars
<1>2. /\ worker = "none" /\ worker' \in {"none", "queued"} /\ ~StartPending
      /\ Idle /\ ~iterClosed /\ ~reading /\ ~ended /\ ~abandoned
      /\ received = <<>> /\ results = <<>>
  BY <1>1 DEF Beginning, Closing
<1>3. TypeOK'
  BY <1>1, <1>2, AsideFacts, ChannelTail DEF TypeOK
<1>4. (Idle' <=> Idle) /\ Attached' /\ ~StartPending'
  BY <1>1, <1>2, AsideFacts DEF Idle
<1>5. Beginning'
  BY <1>1, <1>2, <1>4, AsideFacts DEF Beginning
<1>6. Closing' /\ Left'
  BY <1>1, <1>2, <1>4, AsideFacts DEF Closing, Left, GivingUp, Idle
<1>7. Delivery'
  <2>1. Receives /\ Consumed = 0 /\ Consumed' = 1
    BY <1>1 DEF Receives, Consumed
  <2> QED
    BY <1>1, <2>1, AsideFacts, DeliveryShifts
<1>8. Reads'
  BY <1>1, AsideFacts, ReadsKept
<1>9. Seen'
  BY <1>1, <1>2, AsideFacts, SeenKept DEF Busy
<1>10. Excused'
  BY <1>1, <1>2 DEF Excused, Idle
<1> QED
  BY <1>3, <1>4, <1>5, <1>6, <1>7, <1>8, <1>9, <1>10

LEMMA ResponseStep == ASSUME IInv, Response PROVE IInv'
<1> USE DEF IInv
<1>1. /\ Aside /\ call = "heading" /\ call' = "response"
      /\ channel # <<>> /\ channel' = Tail(channel)
      /\ UNCHANGED <<streaming, expired, late, reading, results, received, trailersShown, ended,
                     abandoned, closing, raced, requestIter, iterClosed, worker, exhausted,
                     forwarded>>
  BY DEF Response, Aside, Received, readVars, closeVars, iterVars, workerVars
<1>2. /\ ~StartPending /\ Idle /\ ~iterClosed /\ ~reading /\ ~ended /\ ~abandoned
      /\ received = <<>> /\ results = <<>>
  BY <1>1 DEF Beginning, Closing
<1>3. TypeOK'
  BY <1>1, AsideFacts, ChannelTail DEF TypeOK
<1>4. (Idle' <=> Idle) /\ Attached' /\ ~StartPending'
  BY <1>1, <1>2, AsideFacts DEF Idle
<1>5. Beginning'
  BY <1>1, <1>4, AsideFacts, BeginningIsPast
<1>6. Closing' /\ Left'
  BY <1>1, <1>2, <1>4, AsideFacts DEF Closing, Left, GivingUp, Idle
<1>7. Delivery'
  <2>1. Receives /\ Consumed = 1 /\ Consumed' = 2
    BY <1>1, <1>2, EmptySeq DEF Receives, Consumed
  <2> QED
    BY <1>1, <2>1, AsideFacts, DeliveryShifts
<1>8. Reads' /\ Seen' /\ Excused'
  BY <1>1, AsideFacts, ReadsKept, SeenKept, ExcusedKept
<1> QED
  BY <1>3, <1>4, <1>5, <1>6, <1>7, <1>8

LEMMA OverFacts ==
  ASSUME IInv, NEW outcome, Over(outcome), call \in {"starting", "heading"}, requestIter' = requestIter
  PROVE  /\ call' = outcome /\ channel' = <<>> /\ late' = FALSE
         /\ channel' \in Seq(TransportResponses)
         /\ closing' \in [Threads -> {"no", "iter"}]
         /\ requestIter => closing'["reader"] = "iter" /\ ~Idle'
         /\ requestIter /\ (\E t \in Threads : closing'[t] = "iter") <=> requestIter
         /\ ~iterClosed /\ ~ended /\ ~abandoned /\ ~reading
         /\ received = <<>> /\ results = <<>>
<1> USE DEF IInv
<1>1. /\ call' = outcome /\ channel' = <<>> /\ late' = FALSE
      /\ closing' = [closing EXCEPT !["reader"] = ToCloseIter]
  BY DEF Over
<1>2. /\ Idle /\ ~iterClosed /\ ~ended /\ ~abandoned /\ ~reading
      /\ received = <<>> /\ results = <<>>
  BY DEF Beginning, Closing
<1>3. closing \in [Threads -> {"no", "reset", "iter"}] /\ \A t \in Threads : closing[t] = "no"
  BY <1>2 DEF TypeOK, Idle
<1>4. /\ closing' \in [Threads -> {"no", "iter"}]
      /\ closing'["reader"] = ToCloseIter /\ "reader" \in Threads
  BY <1>1, <1>3 DEF ToCloseIter, Threads
<1>5. requestIter => closing'["reader"] = "iter" /\ ~Idle'
  BY <1>4 DEF ToCloseIter, Idle
<1>6. <<>> \in Seq(TransportResponses)
  OBVIOUS
<1> QED
  BY <1>1, <1>2, <1>4, <1>5, <1>6

LEMMA FailsStep == ASSUME IInv, Fails PROVE IInv'
<1> USE DEF IInv
<1>1. /\ Aside /\ call \in {"starting", "heading"}
      /\ UNCHANGED <<streaming, expired, reading, results, received, trailersShown, ended,
                     abandoned, raced, requestIter, iterClosed, worker, exhausted, forwarded>>
  BY DEF Fails, Aside, readVars, iterVars, workerVars
\* The upstream has answered, or there is no entry any more, or no worker.
<1>2. \E outcome \in {"bare", "failed", "timedOutEarly"} :
        /\ Over(outcome)
        /\ outcome = "bare" => Answered /\ ~StartPending
        /\ outcome = "failed" => ~entry /\ ~StartPending
        /\ outcome = "timedOutEarly" => call = "starting"
  <2>1. Receives
    BY <1>1 DEF Receives
  <2>2. CASE call = "heading" /\ Received("headersEnd") /\ Over("bare")
    <3>1. channel # <<>> /\ Head(channel).kind = "headersEnd"
      BY <2>2 DEF Received
    <3>2. Answered
      BY <2>1, <3>1, HeadFits DEF Fits, Answered
    <3> QED
      BY <2>2, <3>2 DEF Beginning
  <2>3. CASE (ReceivedReset \/ Disconnected) /\ Over("failed")
    <3>1. CASE ReceivedReset
      <4>1. channel # <<>> /\ Head(channel).kind \in {"reset", "failure"}
        BY <3>1 DEF ReceivedReset, Received
      <4>2. ~entry
        BY <2>1, <4>1, HeadFits DEF Fits
      <4> QED
        BY <2>3, <4>1, <4>2 DEF Beginning
    <3>2. CASE Disconnected
      <4>1. ~entry /\ Event("start", 0) \notin Range(bridge.events \o batch)
        BY <3>2 DEF Disconnected, HasSender
      <4>2. ASSUME StartPending PROVE FALSE
        <5> DEFINE q == bridge.events \o batch
        <5>1. Len(Pipe) = 1 /\ Pipe[1].kind = "start"
          BY <4>2, PipeFacts DEF Beginning, StartPending
        <5>2. /\ q \in Seq(TransportEvents) /\ Len(q) = 1
              /\ q[1] = Pipe[1]
          <6>1. /\ q \in Seq(TransportEvents) /\ Len(q) = Len(bridge.events) + Len(batch)
                /\ \A k \in 1..Len(bridge.events) : q[k] = bridge.events[k]
                /\ \A k \in 1..Len(batch) : q[Len(bridge.events) + k] = batch[k]
            BY SMTT(60), Lengths, ConcatFacts
          <6> HIDE DEF q
          <6>2. \/ Len(batch) = 1 /\ Len(bridge.events) = 0
                \/ Len(batch) = 0 /\ Len(bridge.events) = 1
            BY <5>1, PipeFacts, Lengths
          <6>3. Len(batch) = 1 /\ Len(bridge.events) = 0 => q[1] = Pipe[1]
            BY <6>1, PipeFacts
          <6>4. Len(batch) = 0 /\ Len(bridge.events) = 1 => q[1] = Pipe[1]
            BY <6>1, PipeFacts
          <6> QED
            BY <6>1, <6>2, <6>3, <6>4
        <5>3. Pipe[1] = Event("start", 0)
          BY <5>1 DEF Attached
        <5>4. q[1] \in Range(q)
          <6> HIDE DEF q
          <6> QED
            BY <5>2, LenProperties DEF Range
        <5> QED
          BY <4>1, <5>1, <5>2, <5>3, <5>4
      <4> QED
        BY <2>3, <4>1, <4>2
    <3> QED
      BY <2>3, <3>1, <3>2
  <2>4. CASE call = "starting" /\ expired /\ Over("timedOutEarly")
    BY <2>4
  <2> QED
    BY <2>2, <2>3, <2>4 DEF Fails
<1>3. PICK outcome \in {"bare", "failed", "timedOutEarly"} :
        /\ Over(outcome)
        /\ outcome = "bare" => Answered /\ ~StartPending
        /\ outcome = "failed" => ~entry /\ ~StartPending
        /\ outcome = "timedOutEarly" => call = "starting"
  BY <1>2
<1>4. /\ call' = outcome /\ channel' = <<>> /\ late' = FALSE
      /\ channel' \in Seq(TransportResponses)
      /\ closing' \in [Threads -> {"no", "iter"}]
      /\ requestIter => closing'["reader"] = "iter" /\ ~Idle'
      /\ requestIter /\ (\E t \in Threads : closing'[t] = "iter") <=> requestIter
      /\ ~iterClosed /\ ~ended /\ ~abandoned /\ ~reading
      /\ received = <<>> /\ results = <<>>
  BY <1>1, <1>3, OverFacts
<1>5. closing' \in [Threads -> {"no", "reset", "iter"}] /\ \A t \in Threads : closing'[t] # "reset"
  BY <1>4
<1>6. TypeOK'
  <2>1. call' \in {"none", "starting", "heading", "response", "dropped", "bare", "failed",
                  "timedOut", "timedOutEarly"}
    BY <1>4
  <2>2. late' \in BOOLEAN /\ channel' \in Seq(TransportResponses)
    BY <1>4
  <2> QED
    BY <1>1, <1>5, <2>1, <2>2, AsideFacts DEF TypeOK
<1>7. Beginning'
  BY <1>1, <1>3, <1>4, AsideFacts DEF Beginning
<1>8. Closing' /\ Left'
  BY <1>1, <1>3, <1>4, <1>5, AsideFacts DEF Closing, Left
<1>9. Delivery'
  BY <1>4 DEF Delivery, Receives
<1>10. Reads' /\ Seen' /\ Attached'
  BY <1>1, AsideFacts, ReadsKept, SeenKept
<1>11. Excused'
  <2>1. outcome = "timedOutEarly" => worker = "none"
    BY <1>3 DEF Beginning
  <2> QED
    BY <1>1, <1>3, <1>4, <2>1, AsideFacts DEF Excused
<1> QED
  BY <1>6, <1>7, <1>8, <1>9, <1>10, <1>11

\* A reset is sent: nothing that follows it in the pipe matters any more.
LEMMA ResetSent ==
  ASSUME IInv, Send(Event("reset", 0)),
         UNCHANGED <<streaming, worker, exhausted, forwarded, filterVars, upstreamVars>>,
         raced' = raced, ~StartPending
  PROVE  /\ Attached' /\ Seen' /\ ~StartPending' /\ (entry' => ResetOnWay')
         /\ bridge' \in Bridges(TransportEvents) /\ commits' \in Nat
         /\ UNCHANGED <<batch, filter, entry, stream, answer, fed, requestSeen, requestEnded>>
<1> USE DEF IInv
<1>1. UNCHANGED <<batch, filter, entry, stream, answer, fed, requestSeen, requestEnded>>
  BY DEF filterVars, upstreamVars
<1>2. Event("reset", 0) \in TransportEvents /\ Event("reset", 0).kind = "reset"
  BY EventsAre
<1>3. /\ bridge' \in Bridges(TransportEvents) /\ commits' \in Nat
      /\ bridge'.closed = bridge.closed
      /\ bridge.closed => bridge' = bridge /\ commits' = commits /\ Pipe' = Pipe
      /\ ~bridge.closed =>
           /\ commits' > 0
           /\ Len(Pipe') = Len(Pipe) + 1 /\ Pipe'[Len(Pipe) + 1] = Event("reset", 0)
           /\ \A k \in 1..Len(Pipe) : Pipe'[k] = Pipe[k]
  BY <1>1, <1>2, SendFacts
<1>4. Len(Pipe) \in Nat
  BY PipeFacts
<1>5. CASE bridge.closed
  <2>1. ~entry /\ Pipe' = Pipe
    BY <1>3, <1>5 DEF Attached
  <2>2. Seen'
    BY <1>1, <2>1, SeenKept DEF PipeKept, Answered
  <2>3. Attached'
    BY <1>1, <1>3, <1>5, AttachedKept DEF Attached
  <2> QED
    BY <1>1, <1>3, <2>1, <2>2, <2>3 DEF StartPending
<1>6. CASE ~bridge.closed
  <2>1. \A k \in 1..Len(Pipe') : k \in 1..Len(Pipe) \/ k = Len(Pipe) + 1
    BY <1>3, <1>4, <1>6
  <2>2. Len(Pipe) + 1 \in 1..Len(Pipe') /\ \A k \in 1..Len(Pipe) : k \in 1..Len(Pipe')
    BY <1>3, <1>4, <1>6
  <2>3. ResetOnWay' /\ ~StartPending'
    BY <1>2, <1>3, <1>6, <2>1, <2>2 DEF ResetOnWay, ResetUpTo, StartPending
  <2>4. Attached'
    <3>1. ASSUME NEW k \in 1..Len(Pipe'), Pipe'[k].kind \in {"start", "reset"}
          PROVE  Pipe'[k] = Event(Pipe'[k].kind, 0)
      BY <1>2, <1>3, <1>6, <2>1, <3>1 DEF Attached
    <3>2. bridge'.closed <=> filter' # "live"
      BY <1>1, <1>3 DEF Attached
    <3> QED
      BY <1>1, <1>3, <1>6, <3>1, <3>2 DEF Attached
  <2>5. ASSUME NEW k \in 1..Len(Pipe'), ~ResetUpTo(k - 1)', entry'
        PROVE  Coming(Pipe[k], Len(requestSeen) + k)'
    <3>1. CASE k = Len(Pipe) + 1
      BY <1>2, <1>3, <1>6, <3>1 DEF Coming
    <3>2. CASE k \in 1..Len(Pipe)
      <4>1. \A j \in 1..(k - 1) : j \in 1..Len(Pipe)
        BY <1>4, <3>2
      <4>2. ~ResetUpTo(k - 1)
        BY <1>3, <1>6, <2>5, <4>1 DEF ResetUpTo
      <4>3. Coming(Pipe[k], Len(requestSeen) + k)
        BY <1>1, <2>5, <3>2, <4>2 DEF Seen
      <4> QED
        BY <1>1, <1>3, <1>6, <3>2, <4>3 DEF Coming, Complete, Handed, Answered
    <3> QED
      BY <2>1, <3>1, <3>2
  <2>6. Seen'
    <3>1. Complete' <=> Complete
      BY <1>1 DEF Complete, Answered
    <3> QED
      BY <1>1, <2>3, <2>5, <3>1 DEF Seen, Answered
  <2> QED
    BY <1>1, <1>3, <2>3, <2>4, <2>6
<1>7. bridge.closed \in BOOLEAN
  BY Lengths
<1> QED
  BY <1>5, <1>6, <1>7

LEMMA HeadingTimedOutStep == ASSUME IInv, HeadingTimedOut PROVE IInv'
<1> USE DEF IInv
<1>1. /\ call = "heading" /\ Over("timedOut") /\ Send(Event("reset", 0))
      /\ UNCHANGED <<streaming, expired, reading, results, received, trailersShown, ended,
                     abandoned, raced, requestIter, iterClosed, worker, exhausted, forwarded,
                     filterVars, upstreamVars>>
  BY DEF HeadingTimedOut, readVars, iterVars, workerVars
<1>2. ~StartPending
  BY <1>1 DEF Beginning
<1>3. /\ Attached' /\ Seen' /\ ~StartPending' /\ (entry' => ResetOnWay')
      /\ bridge' \in Bridges(TransportEvents) /\ commits' \in Nat
      /\ UNCHANGED <<batch, filter, entry, stream, answer, fed, requestSeen, requestEnded>>
  BY <1>1, <1>2, ResetSent
<1>4. /\ call' = "timedOut" /\ channel' = <<>> /\ late' = FALSE
      /\ channel' \in Seq(TransportResponses)
      /\ closing' \in [Threads -> {"no", "iter"}]
      /\ requestIter => closing'["reader"] = "iter" /\ ~Idle'
      /\ ~iterClosed /\ ~ended /\ ~abandoned /\ ~reading
      /\ received = <<>> /\ results = <<>>
  BY <1>1, OverFacts
<1>5. closing' \in [Threads -> {"no", "reset", "iter"}] /\ \A t \in Threads : closing'[t] # "reset"
  BY <1>4
<1>6. TypeOK'
  <2>1. late' \in BOOLEAN
    BY <1>4
  <2> QED
    BY <1>1, <1>3, <1>4, <1>5, <2>1 DEF TypeOK
<1>7. Beginning'
  BY <1>1, <1>3, <1>4 DEF Beginning
<1>8. Closing' /\ Left'
  BY <1>1, <1>3, <1>4, <1>5 DEF Closing, Left
<1>9. Delivery'
  BY <1>4 DEF Delivery, Receives
<1>10. Reads'
  BY <1>1, <1>3, ReadsKept
<1>11. Excused'
  BY <1>3 DEF Excused
<1> QED
  BY <1>3, <1>6, <1>7, <1>8, <1>9, <1>10, <1>11

-----------------------------------------------------------------------------
(* The response that is read and closed.                                   *)

LEMMA CloseResetStep == ASSUME IInv, NEW t \in Threads, CloseReset(t) PROVE IInv'
<1> USE DEF IInv
<1>1. /\ closing[t] = "reset" /\ Send(Event("reset", 0))
      /\ closing' = [closing EXCEPT ![t] = ToCloseIter]
      /\ UNCHANGED <<streaming, expired, call, late, reading, results, received, trailersShown,
                     ended, abandoned, raced, requestIter, iterClosed, worker, exhausted,
                     forwarded, channel, filterVars, upstreamVars>>
  BY DEF CloseReset, readVars, iterVars, workerVars
<1>2. abandoned /\ ended /\ call \in {"response", "dropped"} /\ ~StartPending
  BY <1>1 DEF Closing, Beginning
<1>3. /\ Attached' /\ Seen' /\ ~StartPending' /\ (entry' => ResetOnWay')
      /\ bridge' \in Bridges(TransportEvents) /\ commits' \in Nat
      /\ UNCHANGED <<batch, filter, entry, stream, answer, fed, requestSeen, requestEnded>>
  BY <1>1, <1>2, ResetSent
<1>4. /\ closing' \in [Threads -> {"no", "reset", "iter"}]
      /\ closing'[t] = ToCloseIter /\ \A u \in Threads \ {t} : closing'[u] = closing[u]
  BY <1>1 DEF TypeOK, ToCloseIter
<1>5. TypeOK'
  BY <1>1, <1>3, <1>4 DEF TypeOK
<1>6. Beginning'
  BY <1>1, <1>2, <1>3, BeginningIsPast
<1>7. Closing'
  <2>1. reading => closing'["reader"] = "no"
    <3>1. reading => closing["reader"] = "no" /\ t # "reader"
      BY <1>1 DEF Closing
    <3> QED
      BY <1>4, <3>1 DEF Threads
  <2> QED
    BY <1>1, <1>2, <1>3, <2>1 DEF Closing, Answered
<1>8. Left'
  <2>1. requestIter => ~Idle'
    BY <1>4 DEF Idle, ToCloseIter
  <2> QED
    BY <1>1, <1>3, <2>1 DEF Left
<1>9. Delivery'
  <2>1. Receives' <=> Receives
    BY <1>1 DEF Receives
  <2> QED
    BY <1>1, <1>3, <2>1, DeliveryKept DEF Answered
<1>10. Reads'
  BY <1>1, <1>3, ReadsKept
<1>11. Excused'
  BY <1>3 DEF Excused
<1> QED
  BY <1>3, <1>5, <1>6, <1>7, <1>8, <1>9, <1>10, <1>11

LEMMA CloseIterStep == ASSUME IInv, NEW t \in Threads, CloseIter(t) PROVE IInv'
<1> USE DEF IInv
<1>1. /\ Aside /\ closing[t] = "iter" /\ closing' = [closing EXCEPT ![t] = "no"]
      /\ requestIter' = FALSE
      /\ UNCHANGED <<streaming, expired, call, late, reading, results, received, trailersShown,
                     ended, abandoned, raced, worker, exhausted, forwarded, channel>>
  BY DEF CloseIter, Aside, readVars, workerVars
<1>2. /\ iterClosed' \in BOOLEAN /\ requestIter' \in BOOLEAN
      /\ iterClosed' => iterClosed \/ requestIter
  <2>1. iterClosed' = (iterClosed \/ requestIter) \/ iterClosed' = iterClosed
    BY DEF CloseIter
  <2>2. iterClosed \in BOOLEAN /\ requestIter' \in BOOLEAN
    BY <1>1 DEF TypeOK
  <2>3. CASE iterClosed' = iterClosed
    BY <2>2, <2>3
  <2>4. CASE iterClosed' = (iterClosed \/ requestIter)
    <3>1. iterClosed' \in BOOLEAN
      BY <2>4, Zenon
    <3>2. iterClosed' => iterClosed \/ requestIter
      BY <2>4, Zenon
    <3> QED
      BY <2>2, <3>1, <3>2
  <2> QED
    BY <2>1, <2>3, <2>4
<1>3. /\ closing' \in [Threads -> {"no", "reset", "iter"}]
      /\ closing'[t] = "no" /\ \A u \in Threads \ {t} : closing'[u] = closing[u]
  BY <1>1 DEF TypeOK
<1>4. TypeOK'
  BY <1>1, <1>2, <1>3, AsideFacts DEF TypeOK
<1>5. Beginning'
  <2>1. call \notin {"none", "starting", "heading"}
    BY <1>1 DEF Beginning, Idle
  <2> QED
    BY <1>1, <2>1, AsideFacts DEF Beginning
<1>6. Closing'
  <2>1. /\ \A u \in Threads : closing'[u] = "reset" => closing[u] = "reset"
        /\ closing["reader"] = "no" => closing'["reader"] = "no"
    BY <1>3 DEF Threads
  <2> QED
    BY <1>1, <2>1, AsideFacts DEF Closing
<1>7. Left'
  <2>1. \A u \in Threads : closing[u] = "reset" => closing'[u] = "reset"
    BY <1>1, <1>3
  <2> QED
    BY <1>1, <2>1, AsideFacts DEF Left
<1>8. Delivery'
  <2>1. Receives' <=> Receives
    BY <1>1 DEF Receives
  <2> QED
    BY <1>1, <2>1, AsideFacts, DeliveryKept
<1>9. Reads' /\ Seen' /\ Attached'
  BY <1>1, AsideFacts, ReadsKept, SeenKept
<1>10. Excused'
  BY <1>1, <1>2, AsideFacts DEF Excused
<1> QED
  BY <1>4, <1>5, <1>6, <1>7, <1>8, <1>9, <1>10

\* A thread begins to close the response, which the application may drop at that.
LEMMA Closes ==
  ASSUME IInv, NEW t \in Threads, BeginClose(t), call = "response", closing[t] = "no",
         call' \in {"response", "dropped"}, reading' => reading /\ t # "reader" /\ call' = "response",
         Aside, UNCHANGED <<requestIter, iterClosed, worker, exhausted, forwarded>>
  PROVE  /\ Attached' /\ Beginning' /\ Closing' /\ Left' /\ Seen' /\ Excused'
         /\ ended' = TRUE /\ ended' \in BOOLEAN /\ abandoned' \in BOOLEAN /\ raced' \in BOOLEAN
         /\ (~abandoned' => ended /\ ~abandoned)
         /\ closing' \in [Threads -> {"no", "reset", "iter"}]
<1> USE DEF IInv
<1>1. /\ ended' = TRUE /\ (abandoned' <=> abandoned \/ ~ended)
      /\ closing' = [closing EXCEPT ![t] = IF ended THEN ToCloseIter ELSE "reset"]
      /\ raced => raced'
      /\ ended /\ requestIter /\ (\E u \in Threads : closing[u] = "reset") => raced'
  BY DEF BeginClose
<1>2. /\ closing' \in [Threads -> {"no", "reset", "iter"}]
      /\ closing'[t] = IF ended THEN ToCloseIter ELSE "reset"
      /\ \A u \in Threads \ {t} : closing'[u] = closing[u]
  BY <1>1 DEF TypeOK, ToCloseIter
<1>3. ended' \in BOOLEAN /\ abandoned' \in BOOLEAN /\ raced' \in BOOLEAN
  BY DEF BeginClose, TypeOK
<1>4. ~abandoned' => ended /\ ~abandoned
  BY <1>1
<1>5. \A u \in Threads : closing[u] = "reset" => closing'[u] = "reset"
  BY <1>2
<1>6. Beginning'
  <2>1. ~StartPending
    BY DEF Beginning
  <2> QED
    BY <2>1, AsideFacts, BeginningIsPast
<1>7. Closing'
  <2>1. reading' => call' = "response" /\ closing'["reader"] = "no" /\ abandoned'
    <3>1. reading' => closing["reader"] = "no" /\ t # "reader" /\ (ended => abandoned)
      BY DEF Closing
    <3> QED
      BY <1>1, <1>2, <3>1 DEF Threads
  <2>2. \A u \in Threads : closing'[u] = "reset" => abandoned'
    <3>1. closing'[t] = "reset" => ~ended
      BY <1>2 DEF ToCloseIter
    <3> QED
      BY <1>1, <1>2, <3>1 DEF Closing
  <2>3. ~abandoned' /\ entry' => Answered'
    BY <1>4, AsideFacts DEF Closing
  <2> QED
    BY <1>1, <2>1, <2>2, <2>3 DEF Closing
<1>8. Left'
  <2>1. requestIter => ~Idle'
    BY <1>2 DEF Idle, ToCloseIter
  <2>2. abandoned' /\ entry => ResetOnWay \/ \E u \in Threads : closing'[u] = "reset"
    <3>1. CASE ended
      BY <1>1, <1>5, <3>1 DEF Left
    <3>2. CASE ~ended
      BY <1>2, <3>2
    <3> QED
      BY <3>1, <3>2
  <2> QED
    BY <2>1, <2>2, AsideFacts DEF Left
<1>9. Seen' /\ Attached'
  BY <1>1, AsideFacts, SeenKept
<1>10. Excused'
  <2>1. CASE ~ended
    <3>1. \A u \in Threads : closing'[u] = "iter" => closing[u] = "iter"
      BY <1>2, <2>1
    <3> QED
      BY <1>1, <3>1, AsideFacts DEF Excused
  <2>2. CASE ended
    <3>1. ASSUME requestIter PROVE ~entry \/ Answered \/ raced' \/ ResetOnWay
      <4>1. CASE abandoned
        BY <1>1, <2>2, <3>1, <4>1 DEF Left
      <4>2. CASE ~abandoned
        BY <2>2, <4>2 DEF Closing
      <4> QED
        BY <4>1, <4>2
    <3>2. iterClosed => worker = "none" \/ ~entry \/ Answered \/ raced' \/ ResetOnWay
      BY <1>1 DEF Excused
    <3> QED
      BY <3>1, <3>2, AsideFacts DEF Excused
  <2> QED
    BY <2>1, <2>2
<1> QED
  BY <1>1, <1>2, <1>3, <1>4, <1>6, <1>7, <1>8, <1>9, <1>10

Outcomes == {"data", "stop", "error", "timeout"}

\* A call of __next__ returns.
LEMMA Returns ==
  ASSUME TypeOK, NEW result \in Outcomes, results' = Append(results, result)
  PROVE  /\ results' \in Seq(Outcomes)
         /\ DOMAIN results' = 1..(Len(results) + 1)
         /\ Len(results) + 1 \in DOMAIN results' /\ results'[Len(results) + 1] = result
         /\ \A k \in DOMAIN results : k \in DOMAIN results' /\ results'[k] = results[k]
         /\ \A k \in DOMAIN results' : k \in DOMAIN results \/ k = Len(results) + 1
<1>1. results \in Seq(Outcomes)
  BY DEF TypeOK, Outcomes
<1>2. /\ results' \in Seq(Outcomes) /\ DOMAIN results' = 1..(Len(results) + 1)
      /\ results'[Len(results) + 1] = result /\ Len(results) \in Nat
      /\ DOMAIN results = 1..Len(results)
      /\ \A k \in 1..Len(results) : results'[k] = results[k]
  BY <1>1, AppendFacts
<1> QED
  BY <1>2

LEMMA StopsKept ==
  ASSUME TypeOK, Reads, NEW result \in Outcomes, results' = Append(results, result),
         abandoned => abandoned', ended /\ ~abandoned' => (Finished => Finished'),
         result = "stop" /\ ~abandoned'
           /\ (\A k \in DOMAIN results : results[k] \in {"data", "stop"}) => Finished'
  PROVE  Stops'
<1>1. /\ \A k \in DOMAIN results : k \in DOMAIN results' /\ results'[k] = results[k]
      /\ \A k \in DOMAIN results' : k \in DOMAIN results \/ k = Len(results) + 1
      /\ results'[Len(results) + 1] = result
      /\ DOMAIN results = 1..Len(results) /\ Len(results) \in Nat
  BY Returns, Lengths
<1>2. SUFFICES ASSUME NEW k \in DOMAIN results', results'[k] = "stop", ~abandoned',
                      \A j \in 1..(k - 1) : results'[j] \in {"data", "stop"}
               PROVE  Finished'
  BY DEF Stops
<1>3. \A j \in 1..(k - 1) : j \in DOMAIN results /\ results[j] \in {"data", "stop"}
  BY <1>1, <1>2
<1>4. CASE k \in DOMAIN results
  <2>1. results[k] = "stop" /\ ~abandoned
    BY <1>1, <1>2, <1>4
  <2>2. Finished /\ ended
    BY <1>3, <1>4, <2>1 DEF Reads, Stops
  <2> QED
    BY <1>2, <2>2
<1>5. CASE k = Len(results) + 1
  <2>1. \A j \in DOMAIN results : results[j] \in {"data", "stop"}
    BY <1>1, <1>3, <1>5
  <2> QED
    BY <1>1, <1>2, <1>5, <2>1
<1> QED
  BY <1>1, <1>4, <1>5

LEMMA NextBeginsStep == ASSUME IInv, NextBegins PROVE IInv'
<1> USE DEF IInv
<1>1. /\ Aside /\ call = "response" /\ ~reading /\ closing["reader"] = "no"
      /\ UNCHANGED <<streaming, expired, call, received, trailersShown, ended, abandoned, closing,
                     raced, requestIter, iterClosed, worker, exhausted, forwarded, channel>>
  BY DEF NextBegins, Aside, closeVars, iterVars, workerVars
<1>2. \/ ended /\ results' = Append(results, "stop") /\ UNCHANGED <<reading, late>>
      \/ ~ended /\ reading' = TRUE /\ late' = expired /\ results' = results
  BY DEF NextBegins
<1>3. Attached' /\ Left' /\ Seen' /\ Excused'
  BY <1>1, AsideFacts, LeftKept, SeenKept, ExcusedKept
<1>4. Beginning'
  BY <1>1, AsideFacts, BeginningIsPast DEF Beginning
<1>5. Delivery'
  <2>1. Receives' => Receives
    BY <1>1, <1>2 DEF Receives
  <2> QED
    BY <1>1, <2>1, AsideFacts, DeliveryKept
<1>6. Closing'
  BY <1>1, <1>2, AsideFacts DEF Closing
<1>7. Finished => Finished'
  BY <1>1, AsideFacts DEF Finished, Answered
<1>8. CASE ended /\ results' = Append(results, "stop") /\ UNCHANGED <<reading, late>>
  <2>1. /\ results' \in Seq(Outcomes)
        /\ \A k \in DOMAIN results : k \in DOMAIN results' /\ results'[k] = results[k]
    BY <1>8, Returns DEF Outcomes
  <2>2. TypeOK'
    BY <1>1, <1>8, <2>1, AsideFacts DEF TypeOK, Outcomes
  <2>3. Reads'
    <3>1. Stops'
      BY <1>1, <1>7, <1>8, StopsKept DEF Reads, Outcomes
    <3> QED
      BY <1>1, <1>7, <1>8, <2>1, <3>1 DEF Reads
  <2> QED
    BY <1>3, <1>4, <1>5, <1>6, <2>2, <2>3
<1>9. CASE ~ended /\ reading' = TRUE /\ late' = expired /\ results' = results
  <2>1. reading' \in BOOLEAN
    BY <1>9
  <2>2. TypeOK'
    BY <1>1, <1>9, <2>1, AsideFacts DEF TypeOK
  <2>3. Reads'
    BY <1>1, <1>7, <1>9 DEF Reads, Stops
  <2> QED
    BY <1>3, <1>4, <1>5, <1>6, <2>2, <2>3
<1> QED
  BY <1>2, <1>8, <1>9

LEMMA NextDataStep == ASSUME IInv, NextData PROVE IInv'
<1> USE DEF IInv
<1>1. /\ Aside /\ reading /\ channel # <<>> /\ Head(channel).kind = "body"
      /\ channel' = Tail(channel) /\ received' = Append(received, Head(channel).chunk)
      /\ results' = Append(results, "data") /\ reading' = FALSE /\ late' = FALSE
      /\ UNCHANGED <<streaming, expired, call, trailersShown, ended, abandoned, closing, raced,
                     requestIter, iterClosed, worker, exhausted, forwarded>>
  BY DEF NextData, Aside, Received, closeVars, iterVars, workerVars
<1>2. call = "response" /\ (ended => abandoned) /\ Receives /\ Consumed = 2 + Len(received)
  BY <1>1 DEF Closing, Receives, Consumed
<1> DEFINE chunk == Head(channel).chunk
<1>3. chunk = Len(received) + 1 /\ chunk \in 1..MaxData
  <2>1. chunk = Consumed + 1 - 2
    BY <1>1, <1>2, HeadFits DEF Fits
  <2>2. chunk \in 0..MaxData
    BY <1>1, ChannelTail DEF TransportResponses
  <2> HIDE DEF chunk
  <2> QED
    BY <1>2, <2>1, <2>2, Lengths, BoundsAssumption
<1> HIDE DEF chunk
<1>4. /\ received' \in Seq(1..MaxData) /\ Len(received') = Len(received) + 1
      /\ DOMAIN received' = 1..(Len(received) + 1)
      /\ received'[Len(received) + 1] = Len(received) + 1
      /\ \A k \in 1..Len(received) : received'[k] = received[k]
      /\ Len(received) \in Nat /\ DOMAIN received = 1..Len(received)
  <2>1. received \in Seq(1..MaxData) /\ received' = Append(received, chunk)
    BY <1>1 DEF TypeOK, chunk
  <2> QED
    BY <1>3, <2>1, AppendFacts
<1>5. /\ results' \in Seq(Outcomes) /\ results'[Len(results) + 1] = "data"
      /\ \A k \in DOMAIN results : k \in DOMAIN results' /\ results'[k] = results[k]
      /\ \A k \in DOMAIN results' : k \in DOMAIN results \/ k = Len(results) + 1
  BY <1>1, Returns DEF Outcomes
<1>6. TypeOK'
  <2>1. reading' \in BOOLEAN /\ late' \in BOOLEAN
    BY <1>1
  <2>2. channel' \in Seq(TransportResponses)
    BY <1>1, ChannelTail
  <2> QED
    BY <1>1, <1>4, <1>5, <2>1, <2>2, AsideFacts DEF TypeOK, Outcomes
<1>7. Attached' /\ Left' /\ Seen' /\ Excused'
  BY <1>1, AsideFacts, LeftKept, SeenKept, ExcusedKept
<1>8. Beginning'
  BY <1>1, <1>2, AsideFacts, BeginningIsPast DEF Beginning
<1>9. Closing'
  BY <1>1, AsideFacts DEF Closing
<1>10. Delivery'
  <2>1. Receives' => Consumed' = Consumed + 1
    BY <1>1, <1>2, <1>4 DEF Consumed
  <2> QED
    BY <1>1, <1>2, <2>1, AsideFacts, DeliveryShifts
<1>11. Reads'
  <2>1. \A k \in DOMAIN received' : received'[k] = k
    BY <1>4 DEF Reads
  <2>2. \A k \in DOMAIN results' : results'[k] # "data" => ended'
    BY <1>1, <1>5 DEF Reads
  <2>3. Stops'
    BY <1>1, <1>2, StopsKept DEF Outcomes
  <2> QED
    BY <1>1, <1>2, <2>1, <2>2, <2>3 DEF Reads
<1> QED
  BY <1>6, <1>7, <1>8, <1>9, <1>10, <1>11

LEMMA NextEndsStep == ASSUME IInv, NextEnds PROVE IInv'
<1> USE DEF IInv
<1> DEFINE result == IF ReceivedReset \/ Disconnected THEN "error" ELSE "stop"
<1>1. /\ Aside /\ reading
      /\ Received("end") \/ Received("trailers") \/ ReceivedReset \/ Disconnected
      /\ channel' = IF channel = <<>> THEN channel ELSE Tail(channel)
      /\ results' = Append(results, result) /\ reading' = FALSE /\ late' = FALSE /\ ended' = TRUE
      /\ UNCHANGED <<streaming, expired, call, received, abandoned, closing, raced,
                     requestIter, iterClosed, worker, exhausted, forwarded>>
  BY DEF NextEnds, Aside, iterVars, workerVars
<1>2. trailersShown' \in BOOLEAN /\ (Received("trailers") => trailersShown')
  BY DEF NextEnds, Received
<1>3. call = "response" /\ (ended => abandoned) /\ Receives /\ Consumed = 2 + Len(received)
  BY <1>1 DEF Closing, Receives, Consumed
\* Either there is nobody left to send more, or the response has ended.
<1>4. /\ result = "error" => ~entry
      /\ result = "stop" => Finished'
  <2>1. ReceivedReset => ~entry
    BY <1>3, HeadFits DEF ReceivedReset, Received, Fits
  <2>2. Disconnected => ~entry
    BY DEF Disconnected, HasSender
  <2>3. ASSUME Received("end") PROVE Finished'
    <3>1. answer = "ended" /\ fed = Consumed + 1 - 3
      BY <1>3, <2>3, HeadFits DEF Received, Fits
    <3>2. fed = Len(received)
      BY <1>3, <3>1, Lengths
    <3> QED
      BY <1>1, <3>1, <3>2, AsideFacts DEF Finished, Answered
  <2>4. ASSUME Received("trailers") PROVE Finished'
    <3>1. answer = "trailers" /\ fed = Consumed + 1 - 3
      BY <1>3, <2>4, HeadFits DEF Received, Fits
    <3>2. fed = Len(received)
      BY <1>3, <3>1, Lengths
    <3> QED
      BY <1>1, <1>2, <2>4, <3>1, <3>2, AsideFacts DEF Finished, Answered
  <2> QED
    BY <1>1, <2>1, <2>2, <2>3, <2>4
<1>5. result \in {"error", "stop"}
  OBVIOUS
<1> HIDE DEF result
<1>6. /\ results' \in Seq(Outcomes) /\ results'[Len(results) + 1] = result
      /\ Len(results) + 1 \in DOMAIN results'
  BY <1>1, <1>5, Returns DEF Outcomes
<1>7. TypeOK'
  <2>1. reading' \in BOOLEAN /\ late' \in BOOLEAN /\ ended' \in BOOLEAN
    BY <1>1
  <2>2. channel' \in Seq(TransportResponses)
    BY <1>1, ChannelTail DEF TypeOK
  <2> QED
    BY <1>1, <1>2, <1>6, <2>1, <2>2, AsideFacts DEF TypeOK, Outcomes
<1>8. Attached' /\ Left' /\ Seen' /\ Excused'
  BY <1>1, AsideFacts, LeftKept, SeenKept, ExcusedKept
<1>9. Beginning'
  BY <1>1, <1>3, AsideFacts, BeginningIsPast DEF Beginning
<1>10. Closing'
  <2>1. entry' => Answered'
    BY <1>4, <1>5, AsideFacts, <1>1 DEF Finished
  <2> QED
    BY <1>1, <2>1 DEF Closing
<1>11. Delivery'
  BY <1>1, <1>3 DEF Delivery, Receives
<1>12. Reads'
  <2>1. (\A k \in DOMAIN results' : results'[k] \in {"data", "stop"}) => result = "stop"
    BY <1>5, <1>6
  <2>2. Stops'
    BY <1>1, <1>3, <1>4, <1>5, StopsKept DEF Outcomes
  <2> QED
    BY <1>1, <1>4, <2>1, <2>2 DEF Reads
<1> QED
  BY <1>7, <1>8, <1>9, <1>10, <1>11, <1>12

LEMMA NextTimedOutStep == ASSUME IInv, NextTimedOut PROVE IInv'
<1> USE DEF IInv
<1>1. /\ Aside /\ reading /\ BeginClose("reader")
      /\ results' = Append(results, "timeout") /\ reading' = FALSE /\ late' = FALSE
      /\ UNCHANGED <<streaming, expired, call, received, trailersShown, requestIter, iterClosed,
                     worker, exhausted, forwarded, channel>>
  BY DEF NextTimedOut, Aside, iterVars, workerVars
<1>2. call = "response" /\ closing["reader"] = "no" /\ "reader" \in Threads
  BY <1>1 DEF Closing, Threads
<1>3. /\ Attached' /\ Beginning' /\ Closing' /\ Left' /\ Seen' /\ Excused'
      /\ ended' = TRUE /\ ended' \in BOOLEAN /\ abandoned' \in BOOLEAN /\ raced' \in BOOLEAN
      /\ closing' \in [Threads -> {"no", "reset", "iter"}]
  BY <1>1, <1>2, Closes
<1>4. /\ results' \in Seq(Outcomes) /\ results'[Len(results) + 1] = "timeout"
      /\ Len(results) + 1 \in DOMAIN results'
  BY <1>1, Returns DEF Outcomes
<1>5. TypeOK'
  <2>1. reading' \in BOOLEAN /\ late' \in BOOLEAN
    BY <1>1
  <2> QED
    BY <1>1, <1>3, <1>4, <2>1, AsideFacts DEF TypeOK, Outcomes
<1>6. Delivery'
  BY <1>1, <1>2, <1>3 DEF Delivery, Receives
<1>7. Reads'
  <2>1. ~(\A k \in DOMAIN results' : results'[k] \in {"data", "stop"})
    BY <1>4
  <2>2. Stops'
    <3>1. abandoned'
      BY <1>1 DEF BeginClose, Closing
    <3> QED
      BY <3>1 DEF Stops
  <2> QED
    BY <1>1, <1>3, <2>1, <2>2 DEF Reads
<1> QED
  BY <1>3, <1>5, <1>6, <1>7

LEMMA CloseStepKeeps ==
  ASSUME IInv, NEW t \in Threads, Close(t) \/ (DropResponse /\ t = "reader") PROVE IInv'
<1> USE DEF IInv
<1>1. /\ Aside /\ call = "response" /\ closing[t] = "no" /\ BeginClose(t)
      /\ t = "reader" => ~reading
      /\ UNCHANGED <<streaming, expired, late, reading, results, received, trailersShown,
                     requestIter, iterClosed, worker, exhausted, forwarded>>
  BY DEF Close, DropResponse, Aside, readVars, iterVars, workerVars
<1>2. \/ call' = "response" /\ channel' = channel
      \/ call' = "dropped" /\ channel' = <<>> /\ ~reading
  BY <1>1 DEF Close, DropResponse
<1>3. /\ Attached' /\ Beginning' /\ Closing' /\ Left' /\ Seen' /\ Excused'
      /\ ended' = TRUE /\ ended' \in BOOLEAN /\ abandoned' \in BOOLEAN /\ raced' \in BOOLEAN
      /\ (~abandoned' => ended /\ ~abandoned)
      /\ closing' \in [Threads -> {"no", "reset", "iter"}]
  BY <1>1, <1>2, Closes
<1>4. TypeOK'
  <2>1. <<>> \in Seq(TransportResponses)
    OBVIOUS
  <2>2. channel' \in Seq(TransportResponses)
    BY <1>2, <2>1 DEF TypeOK
  <2> QED
    BY <1>1, <1>2, <1>3, <2>2, AsideFacts DEF TypeOK
<1>5. Delivery'
  <2>1. Receives' => Receives /\ call' = call /\ channel' = channel
    BY <1>1, <1>2, <1>3 DEF Receives
  <2> QED
    BY <1>1, <2>1, AsideFacts, DeliveryKept
<1>6. Reads'
  <2>1. Finished => Finished'
    BY <1>1, AsideFacts DEF Finished, Answered
  <2>2. Stops'
    BY <1>1, <1>3, <2>1 DEF Reads, Stops
  <2> QED
    BY <1>1, <1>3, <2>1, <2>2 DEF Reads
<1> QED
  BY <1>3, <1>4, <1>5, <1>6

-----------------------------------------------------------------------------
(* The start of the request and the worker of the pool.                    *)

LEMMA ExecuteStep == ASSUME IInv, Execute PROVE IInv'
<1> USE DEF IInv
<1>1. /\ call = "none" /\ call' = "starting" /\ Send(Event("start", 0))
      /\ UNCHANGED <<streaming, expired, late, reading, results, received, trailersShown, ended,
                     abandoned, closing, raced, requestIter, iterClosed, worker, exhausted,
                     forwarded, channel, batch, filter, entry, stream, answer, fed, requestSeen,
                     requestEnded>>
  BY DEF Execute, readVars, closeVars, iterVars, workerVars, filterVars, upstreamVars
<1>2. /\ Pipe = <<>> /\ Len(Pipe) = 0 /\ stream = "none" /\ channel = <<>> /\ worker = "none"
      /\ Idle /\ ~iterClosed /\ ~ended /\ ~abandoned /\ ~reading /\ ~entry
      /\ ~requestEnded /\ requestSeen = <<>> /\ forwarded = 0
  BY <1>1, PipeFacts DEF Beginning, Closing, Attached
<1>3. Event("start", 0) \in TransportEvents /\ Event("start", 0).kind = "start"
  BY EventsAre
<1>4. /\ bridge' \in Bridges(TransportEvents) /\ commits' \in Nat
      /\ bridge'.closed = bridge.closed
      /\ bridge.closed => bridge' = bridge /\ commits' = commits /\ Pipe' = Pipe
      /\ ~bridge.closed =>
           /\ commits' > 0
           /\ Len(Pipe') = Len(Pipe) + 1 /\ Pipe'[Len(Pipe) + 1] = Event("start", 0)
  BY <1>1, <1>3, SendFacts
<1>5. bridge.closed \in BOOLEAN
  BY Lengths
<1>6. \/ bridge.closed /\ bridge' = bridge /\ commits' = commits /\ Pipe' = Pipe
      \/ ~bridge.closed /\ commits' > 0 /\ Len(Pipe') = 1 /\ Pipe'[1] = Event("start", 0)
  BY <1>2, <1>4, <1>5
<1>7. \A k \in 1..Len(Pipe') : Len(Pipe') = 1 /\ Pipe'[k] = Event("start", 0)
  BY <1>2, <1>6
<1>8. TypeOK'
  BY <1>1, <1>4 DEF TypeOK
<1>9. Attached'
  BY <1>1, <1>3, <1>4, <1>6, <1>7 DEF Attached
<1>10. Beginning'
  <2>1. Idle' <=> Idle
    BY <1>1 DEF Idle
  <2>2. StartPending' => Len(Pipe') = 1
    BY <1>7 DEF StartPending
  <2> QED
    BY <1>1, <1>2, <2>1, <2>2 DEF Beginning
<1>11. Closing' /\ Left'
  BY <1>1, <1>2 DEF Closing, Left, GivingUp, Idle
<1>12. Delivery'
  <2>1. Len(channel) = 0
    BY <1>2, EmptySeq
  <2> QED
    BY <1>1, <1>2, <2>1 DEF Delivery
<1>13. Reads'
  BY <1>1, ReadsKept
<1>14. Seen' /\ Excused'
  <2>1. entry' = FALSE
    BY <1>1, <1>2 DEF TypeOK
  <2> QED
    BY <1>1, <1>2, <2>1, SeenKept DEF PipeKept, Answered, Excused
<1> QED
  BY <1>8, <1>9, <1>10, <1>11, <1>12, <1>13, <1>14

\* The worker sends an event: it is the next of the events that have been sent.
LEMMA WorkerSends ==
  ASSUME IInv, NEW e \in TransportEvents, e.kind \in {"data", "end", "fail"}, Send(e),
         worker \in {"reading", "sending"}, worker' # "none", Handed' >= Handed, Handed' \in Int,
         UNCHANGED <<streaming, forwarded, requestSeen, requestEnded, answer, raced, batch,
                     filter, entry, stream>>,
         \A n \in Int : n = Handed + 1 /\ entry /\ ~ResetOnWay => Coming(e, n)',
         worker' \notin {"ended", "failed"} => Handed' = Handed + 1
  PROVE  /\ Attached' /\ Seen' /\ ~StartPending' /\ (entry' /\ ResetOnWay => ResetOnWay')
         /\ bridge' \in Bridges(TransportEvents) /\ commits' \in Nat
<1> USE DEF IInv
<1>1. /\ bridge' \in Bridges(TransportEvents) /\ commits' \in Nat
      /\ bridge'.closed = bridge.closed
      /\ bridge.closed => bridge' = bridge /\ commits' = commits /\ Pipe' = Pipe
      /\ ~bridge.closed =>
           /\ commits' > 0
           /\ Len(Pipe') = Len(Pipe) + 1 /\ Pipe'[Len(Pipe) + 1] = e
           /\ \A k \in 1..Len(Pipe) : Pipe'[k] = Pipe[k]
  BY SendFacts
<1>2. Len(Pipe) \in Nat /\ Len(requestSeen) \in Nat /\ Handed \in Int
  BY PipeFacts, Lengths
<1>3. ~StartPending
  BY DEF Beginning
<1>4. ~(streaming /\ requestEnded)
  BY DEF Seen
<1>5. CASE bridge.closed
  <2>1. ~entry /\ Pipe' = Pipe
    BY <1>1, <1>5 DEF Attached
  <2>2. Attached'
    BY <1>1, <1>5, AttachedKept DEF Attached
  <2> QED
    BY <1>1, <1>3, <1>4, <2>1, <2>2 DEF Seen, StartPending
<1>6. CASE ~bridge.closed
  <2>1. \A k \in 1..Len(Pipe') : k \in 1..Len(Pipe) \/ k = Len(Pipe) + 1
    BY <1>1, <1>2, <1>6
  <2>2. \A k \in 1..Len(Pipe) : k \in 1..Len(Pipe')
    BY <1>1, <1>2, <1>6
  <2>3. ~StartPending' /\ (ResetOnWay' <=> ResetOnWay)
    BY <1>1, <1>3, <1>6, <2>1, <2>2 DEF ResetOnWay, ResetUpTo, StartPending
  <2>4. Attached'
    <3>1. ASSUME NEW k \in 1..Len(Pipe'), Pipe'[k].kind \in {"start", "reset"}
          PROVE  Pipe'[k] = Event(Pipe'[k].kind, 0)
      BY <1>1, <1>6, <2>1, <3>1 DEF Attached
    <3>2. bridge'.closed <=> filter' # "live"
      BY <1>1 DEF Attached
    <3> QED
      BY <1>1, <1>6, <3>1, <3>2 DEF Attached
  <2>5. ASSUME NEW k \in 1..Len(Pipe'), ~ResetUpTo(k - 1)', entry'
        PROVE  Coming(Pipe[k], Len(requestSeen) + k)'
    <3>1. CASE k = Len(Pipe) + 1
      <4>1. ~ResetOnWay
        <5>1. k - 1 = Len(Pipe) /\ \A j \in 1..Len(Pipe) : Pipe'[j] = Pipe[j]
          BY <1>1, <1>2, <1>6, <3>1
        <5> QED
          BY <2>5, <5>1 DEF ResetOnWay, ResetUpTo
      <4>2. Len(requestSeen) + Len(Pipe) = Handed
        BY <2>5, <4>1 DEF Seen
      <4>3. Len(requestSeen') + k = Handed + 1 /\ Pipe'[k] = e
        BY <1>1, <1>2, <1>6, <3>1, <4>2
      <4>4. PICK n \in Int : n = Handed + 1
        BY <1>2
      <4>5. Coming(e, n)'
        BY <2>5, <4>1, <4>4
      <4> QED
        BY <4>3, <4>4, <4>5 DEF Coming
    <3>2. CASE k \in 1..Len(Pipe)
      <4>1. \A j \in 1..(k - 1) : j \in 1..Len(Pipe)
        BY <1>2, <3>2
      <4>2. ~ResetUpTo(k - 1)
        BY <1>1, <1>6, <2>5, <4>1 DEF ResetUpTo
      <4>3. Coming(Pipe[k], Len(requestSeen) + k)
        BY <2>5, <3>2, <4>2 DEF Seen
      <4>4. Pipe[k].kind \notin {"end", "fail"}
        BY <4>3 DEF Coming
      <4>5. Pipe'[k] = Pipe[k] /\ Len(requestSeen') + k = Len(requestSeen) + k
        BY <1>1, <1>6, <3>2
      <4>6. Len(requestSeen) + k \in Int
        BY <1>2, <3>2
      <4>7. Pipe[k].kind = "data" => Pipe[k].chunk = Len(requestSeen) + k
                                     /\ Len(requestSeen) + k <= Handed'
        BY <1>2, <4>3, <4>6 DEF Coming
      <4> QED
        BY <4>4, <4>5, <4>7 DEF Coming
    <3> QED
      BY <2>1, <3>1, <3>2
  <2>6. ASSUME entry', ~ResetOnWay', worker' \notin {"ended", "failed"}
        PROVE  Len(requestSeen') + Len(Pipe') = Handed'
    <3>1. Len(requestSeen) + Len(Pipe) = Handed
      BY <2>3, <2>6 DEF Seen
    <3> QED
      BY <1>1, <1>2, <1>6, <2>6, <3>1
  <2>7. Seen'
    BY <1>4, <2>5, <2>6 DEF Seen
  <2> QED
    BY <1>1, <2>3, <2>4, <2>7
<1>7. bridge.closed \in BOOLEAN
  BY Lengths
<1> QED
  BY <1>5, <1>6, <1>7

\* What a step of the worker leaves alone.
LEMMA WorkerKeeps ==
  ASSUME IInv, worker \in {"queued", "reading", "sending"}, worker' # "none", ~StartPending',
         UNCHANGED <<streaming, expired, call, late, reading, results, received, trailersShown,
                     ended, abandoned, closing, raced, requestIter, iterClosed, channel,
                     filter, entry, stream, answer, fed, requestSeen, requestEnded>>,
         entry' /\ ResetOnWay => ResetOnWay'
  PROVE  Beginning' /\ Closing' /\ Left' /\ Delivery' /\ Reads' /\ Excused'
<1> USE DEF IInv
<1>1. call \notin {"none", "starting", "timedOutEarly"}
  BY DEF Beginning
<1>2. Beginning'
  <2>1. Idle' <=> Idle
    BY DEF Idle
  <2> QED
    BY <1>1, <2>1 DEF Beginning
<1>3. Receives' <=> Receives
  BY DEF Receives
<1>4. Closing' /\ Left' /\ Delivery' /\ Reads'
  BY <1>3, ClosingKept, LeftKept, DeliveryKept, ReadsKept DEF Answered
<1>5. Excused'
  BY ExcusedKept DEF Answered
<1> QED
  BY <1>2, <1>4, <1>5

LEMMA WorkerAsksStep == ASSUME IInv, WorkerAsks PROVE IInv'
<1> USE DEF IInv
<1>1. /\ worker \in {"queued", "sending"} /\ worker' = "reading"
      /\ UNCHANGED <<streaming, expired, call, late, reading, results, received, trailersShown,
                     ended, abandoned, closing, raced, requestIter, iterClosed, exhausted,
                     forwarded, channel, batch, filter, entry, stream, answer, fed, requestSeen,
                     requestEnded>>
  BY DEF WorkerAsks, readVars, closeVars, iterVars, filterVars, upstreamVars
<1>2. ~StartPending /\ forwarded \in 0..MaxForwarded /\ forwarded \in Nat
  BY <1>1, Lengths DEF Beginning, TypeOK
<1>3. /\ Attached' /\ Seen' /\ ~StartPending' /\ (entry' /\ ResetOnWay => ResetOnWay')
      /\ bridge' \in Bridges(TransportEvents) /\ commits' \in Nat
  <2>1. CASE worker = "queued"
    <3>1. UNCHANGED <<bridge, commits>>
      BY <2>1 DEF WorkerAsks
    <3>2. Pipe' = Pipe
      BY <1>1, <3>1 DEF Pipe
    <3>3. Attached'
      BY <1>1, <3>1, AttachedKept DEF Attached
    <3>4. Seen'
      BY <1>1, <2>1, <3>2, SeenKept DEF Busy, PipeKept, Answered
    <3> QED
      BY <1>2, <3>1, <3>2, <3>3, <3>4 DEF TypeOK, StartPending, ResetOnWay, ResetUpTo
  <2>2. CASE worker = "sending"
    <3>0. PICK e : e = Event("data", forwarded)
      OBVIOUS
    <3>1. Send(e)
      BY <2>2, <3>0 DEF WorkerAsks
    <3>2. e \in TransportEvents /\ e.kind = "data" /\ e.chunk = forwarded
      BY <1>2, <3>0, EventsAre
    <3>3. Handed = forwarded - 1 /\ Handed' = forwarded
      BY <1>1, <2>2 DEF Handed
    <3>4. \A n \in Int : n = Handed + 1 => Coming(e, n)'
      BY <1>1, <1>2, <3>2, <3>3 DEF Coming
    <3>5. Handed' >= Handed /\ Handed' \in Int /\ Handed' = Handed + 1
      BY <1>2, <3>3
    <3> QED
      BY <1>1, <2>2, <3>1, <3>2, <3>4, <3>5, WorkerSends
  <2> QED
    BY <1>1, <2>1, <2>2
<1>4. TypeOK'
  BY <1>1, <1>3 DEF TypeOK
<1>5. Beginning' /\ Closing' /\ Left' /\ Delivery' /\ Reads' /\ Excused'
  BY <1>1, <1>3, WorkerKeeps
<1> QED
  BY <1>3, <1>4, <1>5

LEMMA WorkerYieldsStep == ASSUME IInv, WorkerYields PROVE IInv'
<1> USE DEF IInv
<1>1. /\ worker = "reading" /\ worker' = "sending" /\ forwarded < MaxForwarded
      /\ forwarded' = forwarded + 1 /\ Aside
      /\ UNCHANGED <<streaming, expired, call, late, reading, results, received, trailersShown,
                     ended, abandoned, closing, raced, requestIter, iterClosed, exhausted,
                     channel>>
  BY DEF WorkerYields, Aside, readVars, closeVars, iterVars
<1>2. ~StartPending /\ forwarded \in Nat
  BY <1>1, Lengths DEF Beginning
<1>3. Handed' = Handed
  BY <1>1, <1>2 DEF Handed
<1>4. TypeOK'
  <2>1. forwarded' \in 0..MaxForwarded
    BY <1>1, <1>2, BoundsAssumption
  <2> QED
    BY <1>1, <2>1, AsideFacts DEF TypeOK
<1>5. Attached' /\ Beginning' /\ Closing' /\ Left' /\ Delivery' /\ Reads' /\ Excused'
  BY <1>1, <1>2, AsideFacts, WorkerKeeps
<1>6. Seen'
  <2>1. ~(streaming /\ requestEnded)
    BY <1>1 DEF Seen
  <2>2. ASSUME entry', NEW k \in 1..Len(Pipe'), ~ResetUpTo(k - 1)'
        PROVE  Coming(Pipe[k], Len(requestSeen) + k)'
    <3>1. ~ResetUpTo(k - 1) /\ k \in 1..Len(Pipe) /\ entry
      BY <1>1, <2>2, AsideFacts DEF ResetUpTo
    <3>2. Coming(Pipe[k], Len(requestSeen) + k)
      BY <3>1 DEF Seen
    <3> QED
      BY <1>1, <1>3, <3>2, AsideFacts DEF Coming
  <2>3. entry' /\ ~ResetOnWay' /\ worker' \notin {"ended", "failed"} =>
          Len(requestSeen') + Len(Pipe') = Handed'
    BY <1>1, <1>3, AsideFacts DEF Seen
  <2> QED
    BY <1>1, <2>1, <2>2, <2>3, AsideFacts DEF Seen
<1> QED
  BY <1>4, <1>5, <1>6

LEMMA WorkerFinishesStep == ASSUME IInv, WorkerFinishes PROVE IInv'
<1> USE DEF IInv
<1>1. /\ worker = "reading" /\ worker' \in {"ended", "failed"}
      /\ UNCHANGED <<streaming, expired, call, late, reading, results, received, trailersShown,
                     ended, abandoned, closing, raced, requestIter, iterClosed,
                     forwarded, channel, batch, filter, entry, stream, answer, fed, requestSeen,
                     requestEnded>>
  BY DEF WorkerFinishes, readVars, closeVars, iterVars, filterVars, upstreamVars
<1>2. forwarded \in Nat /\ Handed = forwarded /\ Handed' = forwarded
  BY <1>1, Lengths DEF Handed
<1>3. exhausted' \in BOOLEAN
  BY DEF WorkerFinishes, TypeOK
<1>4. /\ Attached' /\ Seen' /\ ~StartPending' /\ (entry' /\ ResetOnWay => ResetOnWay')
      /\ bridge' \in Bridges(TransportEvents) /\ commits' \in Nat
  <2>1. CASE worker' = "ended" /\ exhausted' = ~iterClosed /\ Send(Event("end", 0))
    <3> DEFINE e == Event("end", 0)
    <3>1. e \in TransportEvents /\ e.kind = "end"
      BY EventsAre
    <3> HIDE DEF e
    <3>2. entry /\ ~ResetOnWay => Complete'
      <4>1. iterClosed /\ entry /\ ~ResetOnWay => Answered \/ raced
        BY <1>1 DEF Excused
      <4>2. ~iterClosed => exhausted'
        BY <2>1
      <4> QED
        BY <1>1, <4>1, <4>2 DEF Complete, Answered
    <3>3. \A n \in Int : n = Handed + 1 /\ entry /\ ~ResetOnWay => Coming(e, n)'
      BY <1>1, <1>2, <2>1, <3>1, <3>2 DEF Coming
    <3>4. Send(e)
      BY <2>1 DEF e
    <3>5. Handed' >= Handed /\ Handed' \in Int
      BY <1>2
    <3> QED
      BY <1>1, <2>1, <3>1, <3>3, <3>4, <3>5, WorkerSends
  <2>2. CASE worker' = "failed" /\ Send(Event("fail", 0))
    <3> DEFINE e == Event("fail", 0)
    <3>1. e \in TransportEvents /\ e.kind = "fail"
      BY EventsAre
    <3> HIDE DEF e
    <3>2. \A n \in Int : n = Handed + 1 => Coming(e, n)'
      BY <1>1, <1>2, <2>2, <3>1 DEF Coming
    <3>3. Send(e)
      BY <2>2 DEF e
    <3>4. Handed' >= Handed /\ Handed' \in Int
      BY <1>2
    <3> QED
      BY <1>1, <2>2, <3>1, <3>2, <3>3, <3>4, WorkerSends
  <2> QED
    BY <2>1, <2>2 DEF WorkerFinishes
<1>5. TypeOK'
  BY <1>1, <1>3, <1>4 DEF TypeOK
<1>6. Beginning' /\ Closing' /\ Left' /\ Delivery' /\ Reads' /\ Excused'
  BY <1>1, <1>4, WorkerKeeps
<1> QED
  BY <1>4, <1>5, <1>6

-----------------------------------------------------------------------------
(* Envoy's thread: the callbacks of the filter and of the stream.          *)

\* Steps that leave the application alone.
AppAside ==
  UNCHANGED <<streaming, expired, call, late, readVars, closeVars, iterVars, workerVars>>

LEMMA AppAsideFacts ==
  ASSUME AppAside
  PROVE  /\ UNCHANGED <<streaming, expired, call, late, reading, results, received, trailersShown,
                        ended, abandoned, closing, raced, requestIter, iterClosed, worker,
                        exhausted, forwarded>>
         /\ (Receives' <=> Receives) /\ (Receives => HasReceiver)
         /\ Consumed' = Consumed /\ Handed' = Handed /\ (Idle' <=> Idle)
<1>1. UNCHANGED <<streaming, expired, call, late, reading, results, received, trailersShown,
                  ended, abandoned, closing, raced, requestIter, iterClosed, worker,
                  exhausted, forwarded>>
  BY DEF AppAside, readVars, closeVars, iterVars, workerVars
<1>2. (Receives' <=> Receives) /\ (Receives => HasReceiver)
  BY <1>1 DEF Receives, HasReceiver
<1>3. Consumed' = Consumed /\ Handed' = Handed
  BY <1>1 DEF Consumed, Handed
<1>4. Idle' <=> Idle
  BY <1>1 DEF Idle
<1> QED
  BY <1>1, <1>2, <1>3, <1>4

\* A message that is in the channel stays what it is.
LEMMA FitsKept ==
  ASSUME NEW m, NEW n, Fits(m, n), entry' => entry, Answered => answer' = answer /\ fed' = fed
  PROVE  Fits(m, n)'
  BY DEF Fits, Answered

\* One more message is told to the application.
LEMMA Told ==
  ASSUME TypeOK, Delivery, AppAside, entry' => entry,
         Answered => answer' = answer /\ fed' = fed,
         NEW kind \in {"headers", "headersEnd", "trailers", "reset", "failure"}, Tell(kind),
         \A m, n : Receives /\ n = Consumed + Len(channel) + 1 /\ m.kind = kind => Fits(m, n)',
         Receives /\ entry' => /\ answer' # "none"
                               /\ answer' = "headers" => Consumed + Len(channel) + 1 = fed' + 2
  PROVE  Delivery' /\ channel' \in Seq(TransportResponses)
<1>1. channel' \in Seq(TransportResponses)
  BY TellFacts
<1>2. SUFFICES ASSUME Receives PROVE Delivery'
  BY <1>1, AppAsideFacts DEF Delivery
<1>3. /\ Len(channel') = Len(channel) + 1
      /\ channel'[Len(channel) + 1].kind = kind
      /\ \A k \in 1..Len(channel) : channel'[k] = channel[k]
  BY <1>2, AppAsideFacts, TellFacts
<1>4. Consumed \in Nat /\ Len(channel) \in Nat /\ Consumed' = Consumed
  BY Lengths, AppAsideFacts
<1>5. ASSUME NEW k \in 1..Len(channel') PROVE Fits(channel[k], Consumed + k)'
  <2>1. CASE k \in 1..Len(channel)
    <3>1. PICK m, n : m = channel[k] /\ n = Consumed + k
      OBVIOUS
    <3>2. Fits(m, n)
      BY <1>2, <2>1, <3>1 DEF Delivery
    <3>3. Fits(m, n)'
      BY <3>2, FitsKept
    <3>4. channel'[k] = m /\ Consumed' + k = n
      BY <1>3, <1>4, <2>1, <3>1
    <3> QED
      BY <3>3, <3>4
  <2>2. CASE k = Len(channel) + 1
    <3>1. PICK m, n : m = channel'[k] /\ n = Consumed + Len(channel) + 1
      OBVIOUS
    <3>2. Fits(m, n)'
      BY <1>2, <1>3, <2>2, <3>1
    <3>3. Consumed' + k = n
      BY <1>4, <2>2, <3>1
    <3> QED
      BY <3>1, <3>2, <3>3
  <2> QED
    BY <1>3, <1>4, <2>1, <2>2
<1>6. (entry /\ answer = "none" => Consumed + Len(channel) = 1 /\ fed = 0)'
  BY <1>2
<1>7. (entry /\ answer = "headers" => Consumed + Len(channel) = fed + 2)'
  BY <1>2, <1>3, <1>4
<1> QED
  BY <1>1, <1>5, <1>6, <1>7 DEF Delivery

LEMMA OnScheduledStep == ASSUME IInv, OnScheduled PROVE IInv'
<1> USE DEF IInv
<1>1. /\ AppAside /\ commits > 0 /\ commits' = commits - 1 /\ batch = <<>>
      /\ batch' = bridge.events /\ bridge' = Drained(bridge)
      /\ UNCHANGED <<channel, filter, entry, stream, answer, fed, requestSeen, requestEnded>>
  BY DEF OnScheduled, AppAside, upstreamVars
<1>2. bridge' = [closed |-> bridge.closed, events |-> <<>>]
  BY <1>1, Lengths DEF Drained
<1>3. bridge'.events = <<>> /\ bridge'.closed = bridge.closed
  BY <1>2
<1>4. bridge' \in Bridges(TransportEvents) /\ commits' \in Nat
  <2>1. <<>> \in Seq(TransportEvents)
    OBVIOUS
  <2> QED
    BY <1>1, <1>2, <2>1, Lengths DEF Bridges, TypeOK
<1>5. Pipe' = Pipe
  <2>1. \A s \in Seq(TransportEvents) : s \o <<>> = s /\ <<>> \o s = s
    OBVIOUS
  <2> QED
    BY <1>1, <1>3, <2>1, Lengths DEF Pipe
<1>6. TypeOK'
  BY <1>1, <1>4, AppAsideFacts, Lengths DEF TypeOK
<1>7. Attached'
  <2>1. \A k \in 1..Len(Pipe') :
          Pipe'[k].kind \in {"start", "reset"} => Pipe'[k] = Event(Pipe'[k].kind, 0)
    BY <1>5 DEF Attached
  <2> QED
    BY <1>1, <1>3, <2>1, Lengths DEF Attached
<1>8. (ResetOnWay' <=> ResetOnWay) /\ PipeKept
  BY <1>5 DEF ResetOnWay, ResetUpTo, PipeKept
<1>9. Beginning' /\ Closing' /\ Left'
  BY <1>1, <1>5, <1>8, AppAsideFacts, BeginningKept, ClosingKept, LeftKept DEF Answered
<1>10. Delivery' /\ Reads' /\ Seen' /\ Excused'
  BY <1>1, <1>8, AppAsideFacts, DeliveryKept, ReadsKept, SeenKept, ExcusedKept DEF Answered
<1> QED
  BY <1>6, <1>7, <1>9, <1>10

LEMMA OnStreamCompleteStep == ASSUME IInv, OnStreamComplete PROVE IInv'
<1> USE DEF IInv
<1>1. /\ AppAside /\ batch = <<>> /\ batch' = batch /\ filter' = "complete"
      /\ bridge' = [closed |-> TRUE, events |-> <<>>] /\ entry' = FALSE
      /\ UNCHANGED <<commits, stream, answer, fed, requestSeen, requestEnded>>
  BY DEF OnStreamComplete, Completed, ClosedBridge, AppAside, upstreamVars
<1>2. IF entry THEN Tell("reset") ELSE UNCHANGED channel
  BY DEF OnStreamComplete
<1>3. bridge'.events = <<>> /\ bridge'.closed = TRUE
  BY <1>1
<1>4. bridge' \in Bridges(TransportEvents)
  <2>1. <<>> \in Seq(TransportEvents)
    OBVIOUS
  <2> QED
    BY <1>1, <2>1 DEF Bridges
<1>5. Pipe' = <<>> /\ Len(Pipe') = 0
  BY <1>1, <1>3 DEF Pipe
<1>6. Delivery' /\ channel' \in Seq(TransportResponses)
  <2>1. CASE entry
    <3>1. \A m, n : m.kind = "reset" => Fits(m, n)'
      BY <1>1 DEF Fits
    <3> QED
      BY <1>1, <1>2, <2>1, <3>1, Told
  <2>2. CASE ~entry
    BY <1>1, <1>2, <2>2, AppAsideFacts, DeliveryKept DEF TypeOK
  <2> QED
    BY <2>1, <2>2
<1>7. TypeOK'
  <2>1. entry' \in BOOLEAN
    BY <1>1
  <2> QED
    BY <1>1, <1>4, <1>6, <2>1, AppAsideFacts DEF TypeOK
<1>8. Attached'
  BY <1>1, <1>3, <1>5 DEF Attached
<1>9. Beginning'
  <2>1. call = "none" => channel' = <<>>
    BY <1>2 DEF Beginning, Attached
  <2>2. ~StartPending'
    BY <1>5 DEF StartPending
  <2> QED
    BY <1>1, <1>5, <2>1, <2>2, AppAsideFacts DEF Beginning
<1>10. Closing' /\ Left' /\ Reads' /\ Seen' /\ Excused'
  <2>1. /\ PipeKept /\ ~entry' /\ (Answered => Answered')
        /\ Answered => answer' = answer /\ fed' = fed
    BY <1>1 DEF Answered, PipeKept
  <2>2. Closing' /\ Left' /\ Reads'
    BY <1>1, <2>1, AppAsideFacts, ClosingKept, LeftKept, ReadsKept
  <2> QED
    BY <1>1, <2>1, <2>2, AppAsideFacts, SeenKept, ExcusedKept
<1> QED
  BY <1>6, <1>7, <1>8, <1>9, <1>10

LEMMA DropStep == ASSUME IInv, Drop PROVE IInv'
<1> USE DEF IInv
<1>1. /\ AppAside /\ filter = "complete" /\ filter' = "dropped" /\ commits' = 0
      /\ stream' = IF stream = "open" THEN "gone" ELSE stream
      /\ UNCHANGED <<channel, bridge, batch, entry, answer, fed, requestSeen, requestEnded>>
  BY DEF Drop, AppAside
<1>2. /\ ~entry /\ entry' = FALSE /\ bridge.closed /\ bridge.events = <<>> /\ batch = <<>>
      /\ Pipe' = Pipe
  BY <1>1, Lengths DEF Attached, TypeOK, Pipe
<1>3. TypeOK'
  BY <1>1, AppAsideFacts DEF TypeOK
<1>4. Attached'
  BY <1>1, <1>2 DEF Attached
<1>5. Beginning'
  <2>1. (StartPending' <=> StartPending) /\ (stream' = "none" <=> stream = "none")
    BY <1>1, <1>2 DEF StartPending
  <2> QED
    BY <1>1, <1>2, <2>1, AppAsideFacts DEF Beginning
<1>6. Closing' /\ Left' /\ Delivery' /\ Reads' /\ Seen' /\ Excused'
  BY <1>1, <1>2, AppAsideFacts, ClosingKept, LeftKept, DeliveryKept, ReadsKept, SeenKept,
     ExcusedKept DEF Answered, PipeKept
<1> QED
  BY <1>3, <1>4, <1>5, <1>6

\* A callback of the stream leaves the pipe alone.
LEMMA CallbackKeeps ==
  ASSUME IInv, AppAside, UNCHANGED <<batch, bridge, commits, filter, requestSeen, requestEnded>>,
         stream = "open", stream' # "none", entry' => entry /\ stream' = "open",
         Answered => answer' = answer /\ fed' = fed
  PROVE  Attached' /\ Beginning' /\ Closing' /\ Left' /\ Reads' /\ Seen' /\ Excused'
<1> USE DEF IInv
<1>1. Pipe' = Pipe /\ (Answered => Answered')
  BY DEF Pipe, Answered
<1>2. /\ (StartPending' <=> StartPending) /\ (ResetOnWay' <=> ResetOnWay) /\ PipeKept
  BY <1>1 DEF StartPending, ResetOnWay, ResetUpTo, PipeKept
<1>3. call # "none" /\ ~StartPending
  BY DEF Beginning
<1>4. Beginning'
  BY <1>2, <1>3, AppAsideFacts DEF Beginning
<1>5. Attached' /\ Closing' /\ Left'
  BY <1>1, <1>2, AppAsideFacts, AttachedKept, ClosingKept, LeftKept
<1>6. Reads' /\ Seen' /\ Excused'
  BY <1>1, <1>2, AppAsideFacts, ReadsKept, SeenKept, ExcusedKept
<1> QED
  BY <1>4, <1>5, <1>6

LEMMA UpstreamHeadersStep ==
  ASSUME IInv, NEW end \in BOOLEAN, UpstreamHeaders(end) PROVE IInv'
<1> USE DEF IInv
<1> DEFINE kind == IF end THEN "headersEnd" ELSE "headers"
<1>1. /\ AppAside /\ stream = "open" /\ answer = "none"
      /\ answer' = IF end THEN "ended" ELSE "headers"
      /\ UNCHANGED <<batch, bridge, commits, filter, entry, fed, requestSeen, requestEnded>>
  BY DEF UpstreamHeaders, Callback, AppAside, filterVars
<1>2. \/ entry /\ Tell(kind) /\ stream' = stream
      \/ ~entry /\ stream' = "gone" /\ channel' = channel
  BY DEF UpstreamHeaders
<1>3. ~Answered
  BY <1>1 DEF Answered
<1>4. Attached' /\ Beginning' /\ Closing' /\ Left' /\ Reads' /\ Seen' /\ Excused'
  BY <1>1, <1>2, <1>3, CallbackKeeps
<1>5. Delivery' /\ channel' \in Seq(TransportResponses)
  <2>1. CASE entry /\ Tell(kind) /\ stream' = stream
    <3>1. Receives => Consumed + Len(channel) = 1 /\ fed = 0
      BY <1>1, <2>1 DEF Delivery
    <3>2. kind \in {"headers", "headersEnd"} /\ (kind = "headersEnd" => answer' = "ended")
      BY <1>1
    <3> HIDE DEF kind
    <3>3. \A m, n : Receives /\ n = Consumed + Len(channel) + 1 /\ m.kind = kind => Fits(m, n)'
      BY <3>1, <3>2 DEF Fits
    <3>4. Receives /\ entry' => /\ answer' # "none"
                                /\ answer' = "headers" => Consumed + Len(channel) + 1 = fed' + 2
      BY <1>1, <3>1
    <3> QED
      BY <1>1, <1>3, <2>1, <3>2, <3>3, <3>4, Told
  <2>2. CASE ~entry /\ channel' = channel
    BY <1>1, <1>3, <2>2, AppAsideFacts, DeliveryKept DEF TypeOK
  <2> QED
    BY <1>2, <2>1, <2>2
<1>6. TypeOK'
  BY <1>1, <1>2, <1>5, AppAsideFacts DEF TypeOK
<1> QED
  BY <1>4, <1>5, <1>6

LEMMA UpstreamTrailersStep == ASSUME IInv, UpstreamTrailers PROVE IInv'
<1> USE DEF IInv
<1>1. /\ AppAside /\ stream = "open" /\ stream' = "open"
      /\ answer = "headers" /\ answer' = "trailers"
      /\ UNCHANGED <<batch, bridge, commits, filter, entry, fed, requestSeen, requestEnded>>
  BY DEF UpstreamTrailers, Callback, AppAside, filterVars
<1>2. IF entry THEN Tell("trailers") ELSE UNCHANGED channel
  BY DEF UpstreamTrailers
<1>3. ~Answered
  BY <1>1 DEF Answered
<1>4. Attached' /\ Beginning' /\ Closing' /\ Left' /\ Reads' /\ Seen' /\ Excused'
  BY <1>1, <1>3, CallbackKeeps
<1>5. Delivery' /\ channel' \in Seq(TransportResponses)
  <2>1. CASE entry
    <3>1. Receives => Consumed + Len(channel) = fed + 2
      BY <1>1, <2>1 DEF Delivery
    <3>2. fed \in Nat
      BY Lengths
    <3>3. \A m, n : Receives /\ n = Consumed + Len(channel) + 1 /\ m.kind = "trailers" =>
                      Fits(m, n)'
      BY <1>1, <3>1, <3>2 DEF Fits
    <3> QED
      BY <1>1, <1>2, <1>3, <2>1, <3>3, Told
  <2>2. CASE ~entry
    BY <1>1, <1>2, <1>3, <2>2, AppAsideFacts, DeliveryKept DEF TypeOK
  <2> QED
    BY <2>1, <2>2
<1>6. TypeOK'
  BY <1>1, <1>5, AppAsideFacts DEF TypeOK
<1> QED
  BY <1>4, <1>5, <1>6

LEMMA UpstreamGoneStep == ASSUME IInv, UpstreamReset \/ UpstreamComplete PROVE IInv'
<1> USE DEF IInv
<1>1. /\ AppAside /\ stream = "open" /\ stream' = "gone" /\ entry' = FALSE
      /\ UNCHANGED <<batch, bridge, commits, filter, answer, fed, requestSeen, requestEnded>>
  BY DEF UpstreamReset, UpstreamComplete, OnHttpStreamReset, Callback, AppAside
<1>2. Tell("reset") \/ UNCHANGED channel
  BY DEF UpstreamReset, UpstreamComplete, OnHttpStreamReset
<1>3. Attached' /\ Beginning' /\ Closing' /\ Left' /\ Reads' /\ Seen' /\ Excused'
  BY <1>1, CallbackKeeps
<1>4. Delivery' /\ channel' \in Seq(TransportResponses)
  <2>1. CASE Tell("reset")
    <3>1. \A m, n : m.kind = "reset" => Fits(m, n)'
      BY <1>1 DEF Fits
    <3> QED
      BY <1>1, <2>1, <3>1, Told
  <2>2. CASE UNCHANGED channel
    BY <1>1, <2>2, AppAsideFacts, DeliveryKept DEF TypeOK
  <2> QED
    BY <1>2, <2>1, <2>2
<1>5. TypeOK'
  <2>1. entry' \in BOOLEAN
    BY <1>1
  <2> QED
    BY <1>1, <1>4, <2>1, AppAsideFacts DEF TypeOK
<1> QED
  BY <1>3, <1>4, <1>5

\* The body and the end, which come after what was sent of the response so far.
LEMMA UpstreamDataStep ==
  ASSUME IInv, NEW hasChunk \in BOOLEAN, NEW end \in BOOLEAN, UpstreamData(hasChunk, end)
  PROVE  IInv'
<1> USE DEF IInv
<1> DEFINE body == IF hasChunk THEN <<Event("body", fed + 1)>> ELSE <<>>
           last == IF end THEN <<Event("end", 0)>> ELSE <<>>
<1>1. /\ AppAside /\ stream = "open" /\ stream' = "open" /\ answer = "headers"
      /\ hasChunk \/ end
      /\ hasChunk => fed < MaxData
      /\ answer' = IF end THEN "ended" ELSE "headers"
      /\ fed' = IF entry /\ hasChunk THEN fed + 1 ELSE fed
      /\ UNCHANGED <<batch, bridge, commits, filter, entry, requestSeen, requestEnded>>
  BY DEF UpstreamData, Callback, AppAside, filterVars
<1>2. channel' = IF entry /\ HasReceiver THEN channel \o (body \o last) ELSE channel
  BY DEF UpstreamData, DataMessages
<1>3. ~Answered /\ fed \in Nat /\ fed \in 0..MaxData
  BY <1>1, Lengths DEF Answered, TypeOK
<1>4. Attached' /\ Beginning' /\ Closing' /\ Left' /\ Reads' /\ Seen' /\ Excused'
  BY <1>1, <1>3, CallbackKeeps
<1> DEFINE one == IF hasChunk THEN 1 ELSE 0
           two == IF end THEN one + 1 ELSE one
           sent == body \o last
<1>5. /\ sent \in Seq(TransportResponses) /\ Len(sent) = two
      /\ hasChunk => sent[1].kind = "body" /\ sent[1].chunk = fed + 1
      /\ end => sent[two].kind = "end"
  <2>1. /\ Event("end", 0) \in TransportResponses /\ Event("end", 0).kind = "end"
        /\ hasChunk => /\ Event("body", fed + 1) \in TransportResponses
                       /\ Event("body", fed + 1).kind = "body"
                       /\ Event("body", fed + 1).chunk = fed + 1
    BY <1>1, <1>3, EventsAre, BoundsAssumption
  <2>2. PICK b, e : b = Event("body", fed + 1) /\ e = Event("end", 0)
    OBVIOUS
  <2>3. CASE hasChunk /\ end
    <3>1. sent = <<b>> \o <<e>> /\ one = 1 /\ two = 2
      BY <2>2, <2>3
    <3> HIDE DEF sent, one, two
    <3>2. \A x, y \in TransportResponses :
            /\ <<x>> \o <<y>> \in Seq(TransportResponses)
            /\ Len(<<x>> \o <<y>>) = 2
            /\ (<<x>> \o <<y>>)[1] = x /\ (<<x>> \o <<y>>)[2] = y
      OBVIOUS
    <3> QED
      BY <2>1, <2>2, <2>3, <3>1, <3>2
  <2>4. CASE hasChunk /\ ~end
    <3>1. sent = <<b>> \o <<>> /\ one = 1 /\ two = 1
      BY <2>2, <2>4
    <3> HIDE DEF sent, one, two
    <3>2. \A x \in TransportResponses :
            /\ <<x>> \o <<>> \in Seq(TransportResponses)
            /\ Len(<<x>> \o <<>>) = 1 /\ (<<x>> \o <<>>)[1] = x
      OBVIOUS
    <3> QED
      BY <2>1, <2>2, <2>4, <3>1, <3>2
  <2>5. CASE ~hasChunk /\ end
    <3>1. sent = <<>> \o <<e>> /\ one = 0 /\ two = 1
      BY <2>2, <2>5
    <3> HIDE DEF sent, one, two
    <3>2. \A x \in TransportResponses :
            /\ <<>> \o <<x>> \in Seq(TransportResponses)
            /\ Len(<<>> \o <<x>>) = 1 /\ (<<>> \o <<x>>)[1] = x
      OBVIOUS
    <3> QED
      BY <2>1, <2>2, <2>5, <3>1, <3>2
  <2> QED
    BY <1>1, <2>3, <2>4, <2>5
<1>6. channel' = IF entry /\ HasReceiver THEN channel \o sent ELSE channel
  BY <1>2
<1>7. two \in Nat /\ two = one + (IF end THEN 1 ELSE 0) /\ one = IF hasChunk THEN 1 ELSE 0
  OBVIOUS
<1> HIDE DEF body, last, sent, one, two
<1>8. channel' \in Seq(TransportResponses)
  BY <1>5, <1>6, Lengths, ConcatFacts
<1>9. TypeOK'
  <2>1. fed' \in 0..MaxData
    BY <1>1, <1>3, BoundsAssumption
  <2> QED
    BY <1>1, <1>8, <2>1, AppAsideFacts DEF TypeOK
<1>10. Delivery'
  <2>1. SUFFICES ASSUME Receives PROVE Delivery'
    BY <1>1, AppAsideFacts DEF Delivery
  <2>2. CASE ~entry
    BY <1>1, <1>3, <1>6, <2>2, AppAsideFacts, DeliveryKept
  <2>3. CASE entry
    <3>1. channel' = channel \o sent /\ Consumed' = Consumed
      BY <1>1, <1>6, <2>1, <2>3, AppAsideFacts
    <3>2. /\ Len(channel') = Len(channel) + two
          /\ \A k \in 1..Len(channel) : channel'[k] = channel[k]
          /\ \A k \in 1..two : channel'[Len(channel) + k] = sent[k]
      <4>1. channel \in Seq(TransportResponses) /\ sent \in Seq(TransportResponses)
        BY <1>5, Lengths
      <4>2. /\ Len(channel \o sent) = Len(channel) + Len(sent)
            /\ \A k \in 1..Len(channel) : (channel \o sent)[k] = channel[k]
            /\ \A k \in 1..Len(sent) : (channel \o sent)[Len(channel) + k] = sent[k]
        BY <4>1, ConcatFacts
      <4> QED
        BY <1>5, <3>1, <4>2
    <3>3. Consumed + Len(channel) = fed + 2 /\ Consumed \in Nat /\ Len(channel) \in Nat
      BY <1>1, <2>1, <2>3, Lengths DEF Delivery
    <3>4. ASSUME NEW k \in 1..Len(channel') PROVE Fits(channel[k], Consumed + k)'
      <4>1. CASE k \in 1..Len(channel)
        <5>1. PICK m, n : m = channel[k] /\ n = Consumed + k
          OBVIOUS
        <5>2. Fits(m, n)
          BY <2>1, <4>1, <5>1 DEF Delivery
        <5>3. Fits(m, n)'
          BY <1>1, <1>3, <5>2, FitsKept
        <5> QED
          BY <3>1, <3>2, <4>1, <5>1, <5>3
      <4>2. CASE k = Len(channel) + one /\ hasChunk
        <5>1. channel'[k].kind = "body" /\ channel'[k].chunk = fed + 1
          <6>1. one = 1 /\ 1 \in 1..two
            BY <1>7, <4>2
          <6> QED
            BY <1>5, <3>2, <4>2, <6>1
        <5>2. Consumed' + k = fed + 3
          BY <1>3, <1>7, <3>1, <3>3, <4>2
        <5> QED
          BY <1>3, <5>1, <5>2 DEF Fits
      <4>3. CASE k = Len(channel) + two /\ end
        <5>1. channel'[k].kind = "end" /\ answer' = "ended"
          <6>1. two \in 1..two
            BY <1>7, <4>3
          <6> QED
            BY <1>1, <1>5, <3>2, <4>3, <6>1
        <5>2. Consumed' + k = fed' + 3 /\ fed' \in Nat
          BY <1>1, <1>3, <1>7, <2>3, <3>1, <3>3, <4>3
        <5> QED
          BY <5>1, <5>2 DEF Fits
      <4> QED
        BY <1>7, <3>2, <3>3, <4>1, <4>2, <4>3
    <3>5. (entry /\ answer = "none" => Consumed + Len(channel) = 1 /\ fed = 0)'
      BY <1>1
    <3>6. (entry /\ answer = "headers" => Consumed + Len(channel) = fed + 2)'
      BY SMTT(60), <1>1, <1>3, <1>7, <2>3, <3>1, <3>2, <3>3
    <3> QED
      BY <3>4, <3>5, <3>6 DEF Delivery
  <2> QED
    BY <2>2, <2>3
<1> QED
  BY <1>4, <1>9, <1>10

-----------------------------------------------------------------------------
(* Envoy's thread: the events of the batch.                                *)

\* The event that is handled leaves the pipe, and the others move up.
LEMMA PipeShifts ==
  ASSUME TypeOK, batch # <<>>, batch' = Tail(batch), bridge' = bridge
  PROVE  /\ batch' \in Seq(TransportEvents)
         /\ Head(batch) = Pipe[1] /\ Head(batch) \in TransportEvents
         /\ Len(Pipe) \in Nat /\ Len(Pipe) >= 1 /\ 1 \in 1..Len(Pipe)
         /\ Len(Pipe') = Len(Pipe) - 1
         /\ \A k \in 1..Len(Pipe') : k + 1 \in 1..Len(Pipe) /\ Pipe'[k] = Pipe[k + 1]
<1>1. /\ batch' \in Seq(TransportEvents) /\ Len(batch') = Len(batch) - 1
      /\ \A k \in 1..(Len(batch) - 1) : batch'[k] = batch[k + 1]
      /\ Head(batch) = batch[1] /\ Head(batch) \in TransportEvents
      /\ Len(batch) \in Nat \ {0}
  BY Lengths, TailFacts
<1>2. /\ Len(Pipe) = Len(batch) + Len(bridge.events) /\ Len(bridge.events) \in Nat
      /\ \A k \in 1..Len(batch) : Pipe[k] = batch[k]
      /\ \A k \in 1..Len(bridge.events) : Pipe[Len(batch) + k] = bridge.events[k]
  BY PipeFacts, Lengths
<1>3. /\ Len(Pipe') = Len(batch') + Len(bridge.events)
      /\ \A k \in 1..Len(batch') : Pipe'[k] = batch'[k]
      /\ \A k \in 1..Len(bridge.events) : Pipe'[Len(batch') + k] = bridge.events[k]
  <2>1. Pipe' = batch' \o bridge.events
    BY DEF Pipe
  <2>2. batch' \in Seq(TransportEvents) /\ bridge.events \in Seq(TransportEvents)
    BY <1>1, Lengths
  <2>3. /\ Len(batch' \o bridge.events) = Len(batch') + Len(bridge.events)
        /\ \A k \in 1..Len(batch') : (batch' \o bridge.events)[k] = batch'[k]
        /\ \A k \in 1..Len(bridge.events) :
             (batch' \o bridge.events)[Len(batch') + k] = bridge.events[k]
    BY <2>2, ConcatFacts
  <2> QED
    BY <2>1, <2>3
<1>4. Head(batch) = Pipe[1] /\ Len(Pipe) >= 1 /\ Len(Pipe') = Len(Pipe) - 1
  BY <1>1, <1>2, <1>3
<1>5. ASSUME NEW k \in 1..Len(Pipe') PROVE k + 1 \in 1..Len(Pipe) /\ Pipe'[k] = Pipe[k + 1]
  <2>1. k + 1 \in 1..Len(Pipe)
    BY <1>1, <1>2, <1>4
  <2>2. CASE k \in 1..Len(batch')
    BY <1>1, <1>2, <1>3, <2>2
  <2>3. CASE k \notin 1..Len(batch')
    <3>1. PICK j \in 1..Len(bridge.events) : k = Len(batch') + j
      <4>1. k - Len(batch') \in 1..Len(bridge.events)
        BY <1>1, <1>2, <1>3, <2>3
      <4>2. k = Len(batch') + (k - Len(batch'))
        BY <1>1, <1>2, <1>3
      <4> QED
        BY <4>1, <4>2
    <3>2. k + 1 = Len(batch) + j
      BY <1>1, <1>2, <3>1
    <3> QED
      BY <1>2, <1>3, <2>1, <3>1, <3>2
  <2> QED
    BY <2>1, <2>2, <2>3
<1> QED
  BY <1>1, <1>2, <1>4, <1>5

\* So a reset that was further down the pipe still is.
LEMMA ResetShifts ==
  ASSUME TypeOK, batch # <<>>, batch' = Tail(batch), bridge' = bridge, Pipe[1].kind # "reset"
  PROVE  /\ ResetOnWay' <=> ResetOnWay
         /\ \A k \in 1..Len(Pipe') : ~ResetUpTo(k - 1)' => ~ResetUpTo(k)
<1>1. /\ Len(Pipe) \in Nat /\ Len(Pipe) >= 1 /\ Len(Pipe') = Len(Pipe) - 1
      /\ \A k \in 1..Len(Pipe') : k + 1 \in 1..Len(Pipe) /\ Pipe'[k] = Pipe[k + 1]
  BY PipeShifts
<1>2. ASSUME NEW j \in 1..Len(Pipe), Pipe[j].kind = "reset"
      PROVE  j - 1 \in 1..Len(Pipe') /\ Pipe'[j - 1].kind = "reset"
  <2>1. j # 1
    BY <1>2
  <2>2. j - 1 \in 1..Len(Pipe') /\ (j - 1) + 1 = j
    BY <1>1, <2>1
  <2> QED
    BY <1>1, <1>2, <2>2
<1>3. ResetOnWay' <=> ResetOnWay
  BY <1>1, <1>2 DEF ResetOnWay, ResetUpTo
<1>4. ASSUME NEW k \in 1..Len(Pipe'), ResetUpTo(k) PROVE ResetUpTo(k - 1)'
  <2>1. PICK j \in 1..k : Pipe[j].kind = "reset"
    BY <1>4 DEF ResetUpTo
  <2>2. j \in 1..Len(Pipe)
    BY <1>1, <2>1
  <2>3. Pipe'[j - 1].kind = "reset" /\ j - 1 \in 1..(k - 1)
    BY <1>1, <1>2, <2>1, <2>2
  <2> QED
    BY <2>3 DEF ResetUpTo
<1> QED
  BY <1>3, <1>4

\* A start that is handled was all there was in the pipe.
LEMMA HandledFacts ==
  ASSUME IInv, batch # <<>>, batch' = Tail(batch), AppAside, UNCHANGED <<bridge, commits, filter>>
  PROVE  /\ filter = "live" /\ call # "none" /\ ~StartPending'
         /\ (entry' => stream' = "open") => Attached'
<1> USE DEF IInv
<1>1. /\ Len(Pipe) \in Nat /\ Len(Pipe) >= 1 /\ Len(Pipe') = Len(Pipe) - 1
      /\ \A k \in 1..Len(Pipe') : k + 1 \in 1..Len(Pipe) /\ Pipe'[k] = Pipe[k + 1]
  BY PipeShifts
<1>2. filter = "live" /\ call # "none"
  <2>1. Pipe # <<>>
    BY PipeFacts
  <2> QED
    BY <2>1 DEF Attached, Beginning
<1>3. ~StartPending'
  <2>1. SUFFICES ASSUME StartPending' PROVE FALSE
    OBVIOUS
  <2>2. PICK k \in 1..Len(Pipe') : Pipe'[k].kind = "start"
    BY <2>1 DEF StartPending
  <2>3. StartPending
    BY <1>1, <2>2 DEF StartPending
  <2>4. Len(Pipe) = 1
    BY <2>3 DEF Beginning
  <2> QED
    BY <1>1, <2>2, <2>4
<1>4. ASSUME entry' => stream' = "open" PROVE Attached'
  <2>1. \A k \in 1..Len(Pipe') :
          Pipe'[k].kind \in {"start", "reset"} => Pipe'[k] = Event(Pipe'[k].kind, 0)
    BY <1>1 DEF Attached
  <2> QED
    BY <1>2, <1>4, <2>1 DEF Attached
<1> QED
  BY <1>2, <1>3, <1>4

\* The request has no entry: an event changes nothing but the pipe.
LEMMA EventIgnored ==
  ASSUME IInv, batch # <<>>, batch' = Tail(batch), AppAside, ~entry, entry' = FALSE,
         UNCHANGED <<bridge, commits, filter, channel, stream, answer, fed, requestSeen,
                     requestEnded>>
  PROVE  IInv'
<1> USE DEF IInv
<1>1. batch' \in Seq(TransportEvents)
  BY PipeShifts
<1>2. TypeOK'
  <2>1. entry' \in BOOLEAN
    OBVIOUS
  <2> QED
    BY <1>1, <2>1, AppAsideFacts DEF TypeOK
<1>3. call # "none" /\ ~StartPending' /\ Attached'
  BY HandledFacts
<1>4. Beginning'
  BY <1>3, AppAsideFacts DEF Beginning
<1>5. /\ PipeKept /\ (Answered => Answered')
      /\ Answered => answer' = answer /\ fed' = fed
  BY DEF Answered, PipeKept
<1>6. Closing' /\ Left' /\ Delivery' /\ Reads'
  BY <1>5, AppAsideFacts, ClosingKept, LeftKept, DeliveryKept, ReadsKept
<1>7. Seen' /\ Excused'
  BY <1>5, AppAsideFacts, SeenKept, ExcusedKept
<1> QED
  BY <1>2, <1>3, <1>4, <1>6, <1>7

LEMMA HandleStartStep ==
  ASSUME IInv, batch # <<>>, batch' = Tail(batch), AppAside,
         UNCHANGED <<bridge, commits, filter, answer, fed>>,
         Head(batch).kind = "start", HandleStart
  PROVE  IInv'
<1> USE DEF IInv
<1>1. /\ Pipe[1].kind = "start" /\ 1 \in 1..Len(Pipe) /\ batch' \in Seq(TransportEvents)
      /\ Len(Pipe') = Len(Pipe) - 1
  BY PipeShifts
<1>2. StartPending
  BY <1>1 DEF StartPending
<1>3. /\ call \in {"starting", "timedOutEarly"} /\ Len(Pipe') = 0
      /\ stream = "none" /\ channel = <<>> /\ Len(channel) = 0
      /\ requestSeen = <<>> /\ Len(requestSeen) = 0 /\ ~requestEnded
      /\ answer = "none" /\ fed = 0 /\ worker = "none" /\ forwarded = 0
      /\ ~ended /\ ~abandoned /\ ~reading /\ ~entry
  BY <1>1, <1>2, EmptySeq DEF Beginning, Attached, Closing
<1>4. \/ /\ stream' = "open" /\ entry' = TRUE /\ requestEnded' = ~streaming /\ Tell("started")
      \/ /\ Tell("reset") /\ stream' = stream /\ entry' = entry /\ requestEnded' = requestEnded
  BY DEF HandleStart
<1>5. requestSeen' = requestSeen /\ entry' \in BOOLEAN /\ requestEnded' \in BOOLEAN
  BY <1>4 DEF HandleStart, TypeOK
<1>6. entry' => stream' = "open"
  BY <1>3, <1>4
<1>7. ~StartPending' /\ Attached'
  BY <1>6, HandledFacts
<1>8. channel' \in Seq(TransportResponses)
  BY <1>4, TellFacts
<1>9. TypeOK'
  BY <1>1, <1>4, <1>5, <1>8, AppAsideFacts DEF TypeOK
<1>10. Beginning'
  BY <1>3, <1>4, <1>5, <1>7, AppAsideFacts DEF Beginning
<1>11. Closing' /\ Left'
  BY <1>3, AppAsideFacts DEF Closing, Left, GivingUp
<1>12. Delivery'
  <2>1. SUFFICES ASSUME Receives PROVE Delivery'
    BY AppAsideFacts DEF Delivery
  <2>2. call = "starting" /\ Consumed = 0 /\ Consumed' = 0 /\ HasReceiver
    BY <1>3, <2>1, AppAsideFacts DEF Receives, Consumed
  <2>3. Len(channel') = 1 /\ channel'[1].kind \in {"started", "reset"}
        /\ (channel'[1].kind = "reset" => ~entry')
    <3>1. CASE entry' = TRUE /\ Tell("started")
      BY <1>3, <2>2, <3>1, TellFacts
    <3>2. CASE entry' = entry /\ Tell("reset")
      BY <1>3, <2>2, <3>2, TellFacts
    <3> QED
      BY <1>4, <3>1, <3>2
  <2>4. ASSUME NEW k \in 1..Len(channel') PROVE Fits(channel[k], Consumed + k)'
    <3>1. k = 1 /\ Consumed' + k = 1
      BY <2>2, <2>3
    <3> QED
      BY <2>3, <3>1 DEF Fits
  <2> QED
    BY <1>3, <2>2, <2>3, <2>4 DEF Delivery
<1>13. Reads'
  BY AppAsideFacts, ReadsKept
<1>14. Seen'
  <2>1. ~(streaming' /\ requestEnded')
    BY <1>3, <1>4, AppAsideFacts
  <2>2. Len(requestSeen') + Len(Pipe') = Handed'
    BY <1>3, <1>5, AppAsideFacts DEF Handed
  <2>3. /\ \A k \in 1..Len(requestSeen') : requestSeen'[k] = k
        /\ \A k \in 1..Len(Pipe') : FALSE
    BY <1>3, <1>5
  <2> QED
    BY <2>1, <2>2, <2>3 DEF Seen
<1>15. Excused'
  BY <1>3, AppAsideFacts DEF Excused
<1> QED
  BY <1>7, <1>9, <1>10, <1>11, <1>12, <1>13, <1>14, <1>15

\* The entry goes with the reset, so that what is behind it no longer matters.
LEMMA HandleResetStep ==
  ASSUME IInv, batch # <<>>, batch' = Tail(batch), AppAside,
         UNCHANGED <<bridge, commits, filter, answer, fed>>,
         Head(batch).kind \in {"reset", "fail"}, HandleReset(Head(batch))
  PROVE  IInv'
<1> USE DEF IInv
<1>1. requestSeen' = requestSeen /\ requestEnded' = requestEnded
  BY DEF HandleReset
<1>2. CASE ~entry
  <2>1. UNCHANGED <<channel, entry, stream>> /\ entry' = FALSE
    BY <1>2 DEF HandleReset, TypeOK
  <2> QED
    BY <1>1, <1>2, <2>1, EventIgnored
<1>3. CASE entry
  <2> DEFINE kind == IF Head(batch).kind = "fail" THEN "failure" ELSE "reset"
  <2>1. stream' = "gone" /\ entry' = FALSE /\ Tell(kind)
    BY <1>3 DEF HandleReset, OnHttpStreamReset
  <2>2. /\ batch' \in Seq(TransportEvents) /\ Head(batch) = Pipe[1] /\ 1 \in 1..Len(Pipe)
    BY PipeShifts
  <2>3. stream = "open"
    BY <1>3 DEF Attached
  <2>4. kind \in {"reset", "failure"} /\ (kind = "failure" => Head(batch).kind = "fail")
    OBVIOUS
  <2> HIDE DEF kind
\* It is the worker that fails, once the application knows of the stream.
  <2>5. kind = "failure" => call # "starting"
    <3>1. ~ResetUpTo(1 - 1)
      BY DEF ResetUpTo
    <3>2. Coming(Pipe[1], Len(requestSeen) + 1)
      BY <1>3, <2>2, <3>1 DEF Seen
    <3> QED
      BY <2>2, <2>4, <3>2 DEF Coming, Beginning
  <2>6. Delivery' /\ channel' \in Seq(TransportResponses)
    <3>1. \A m, n : Receives /\ n = Consumed + Len(channel) + 1 /\ m.kind = kind => Fits(m, n)'
      <4>1. Receives /\ Consumed + Len(channel) + 1 = 1 => call = "starting"
        BY Lengths DEF Consumed
      <4> QED
        BY <2>1, <2>4, <2>5, <4>1 DEF Fits
    <3>2. Answered => answer' = answer /\ fed' = fed
      OBVIOUS
    <3> QED
      BY <2>1, <2>4, <3>1, <3>2, Told
  <2>7. TypeOK'
    <3>1. entry' \in BOOLEAN
      BY <2>1
    <3> QED
      BY <1>1, <2>1, <2>2, <2>6, <3>1, AppAsideFacts DEF TypeOK
  <2>8. call # "none" /\ ~StartPending' /\ Attached'
    BY <2>1, HandledFacts
  <2>9. Beginning'
    BY <1>1, <2>1, <2>8, AppAsideFacts DEF Beginning
  <2>10. /\ PipeKept /\ (Answered => Answered')
         /\ Answered => answer' = answer /\ fed' = fed
    BY <2>1 DEF Answered, PipeKept
  <2>11. Closing' /\ Left' /\ Reads'
    BY <2>1, <2>10, AppAsideFacts, ClosingKept, LeftKept, ReadsKept
  <2>12. Seen' /\ Excused'
    BY <1>1, <2>1, <2>10, AppAsideFacts, SeenKept, ExcusedKept
  <2> QED
    BY <2>6, <2>7, <2>8, <2>9, <2>11, <2>12
<1> QED
  BY <1>2, <1>3

\* A chunk is the next one, and nothing of the request follows its end.
LEMMA HandleDataStep ==
  ASSUME IInv, batch # <<>>, batch' = Tail(batch), AppAside,
         UNCHANGED <<bridge, commits, filter, answer, fed>>,
         Head(batch).kind \in {"data", "end"}, HandleData(Head(batch))
  PROVE  IInv'
<1> USE DEF IInv
<1>1. UNCHANGED <<channel, entry, stream>>
  BY DEF HandleData
<1>2. CASE ~entry
  <2>1. UNCHANGED <<requestSeen, requestEnded>> /\ entry' = FALSE
    BY <1>1, <1>2 DEF HandleData, TypeOK
  <2> QED
    BY <1>1, <1>2, <2>1, EventIgnored
<1>3. CASE entry
  <2>0. PICK e : e = Head(batch)
    OBVIOUS
  <2>1. /\ requestSeen' = IF e.kind = "data" THEN Append(requestSeen, e.chunk) ELSE requestSeen
        /\ requestEnded' = (requestEnded \/ e.kind = "end")
    BY <1>3, <2>0 DEF HandleData
  <2>2. /\ batch' \in Seq(TransportEvents) /\ e = Pipe[1] /\ 1 \in 1..Len(Pipe)
        /\ Len(Pipe) \in Nat /\ Len(Pipe') = Len(Pipe) - 1
        /\ \A k \in 1..Len(Pipe') : k + 1 \in 1..Len(Pipe) /\ Pipe'[k] = Pipe[k + 1]
    BY <2>0, PipeShifts
  <2>3. e \in TransportEvents
    BY <2>0, PipeShifts
  <2>4. /\ ResetOnWay' <=> ResetOnWay
        /\ \A k \in 1..Len(Pipe') : ~ResetUpTo(k - 1)' => ~ResetUpTo(k)
    BY <2>0, <2>2, ResetShifts
  <2>5. Coming(e, Len(requestSeen) + 1)
    <3>1. ~ResetUpTo(1 - 1)
      BY DEF ResetUpTo
    <3> QED
      BY <1>3, <2>2, <3>1 DEF Seen
  <2>6. /\ forwarded \in Nat /\ forwarded <= MaxForwarded /\ Len(requestSeen) \in Nat
        /\ Handed <= forwarded /\ (worker = "ended" => Handed = forwarded)
        /\ requestSeen \in Seq(1..MaxForwarded)
    BY SMTT(60), BoundsAssumption, Lengths DEF TypeOK, Handed
  <2>7. e.kind = "data" =>
          /\ e.chunk = Len(requestSeen) + 1 /\ Len(requestSeen) + 1 <= Handed
          /\ Len(requestSeen) + 1 \in 1..MaxForwarded
    BY SMTT(60), <2>5, <2>6, BoundsAssumption, Lengths DEF Coming
  <2>8. e.kind = "end" => Len(requestSeen) = forwarded /\ worker = "ended" /\ Complete
    BY <2>5, <2>6 DEF Coming
  <2>9. ASSUME e.kind = "data"
        PROVE  Seen' /\ requestSeen' \in Seq(1..MaxForwarded) /\ requestEnded' \in BOOLEAN
    <3>1. requestSeen' = Append(requestSeen, Len(requestSeen) + 1)
      BY <2>1, <2>7, <2>9
    <3>2. /\ requestSeen' \in Seq(1..MaxForwarded) /\ Len(requestSeen') = Len(requestSeen) + 1
          /\ requestSeen'[Len(requestSeen) + 1] = Len(requestSeen) + 1
          /\ \A k \in 1..Len(requestSeen) : requestSeen'[k] = requestSeen[k]
      BY <2>6, <2>7, <2>9, <3>1, AppendFacts
    <3>3. requestEnded' <=> requestEnded
      BY <2>1, <2>9
    <3>4. \A k \in 1..Len(requestSeen') : requestSeen'[k] = k
      <4>1. \A k \in 1..Len(requestSeen) : requestSeen[k] = k
        BY DEF Seen
      <4>2. \A k \in 1..Len(requestSeen') : k \in 1..Len(requestSeen) \/ k = Len(requestSeen) + 1
        BY <2>6, <3>2
      <4> QED
        BY <3>2, <4>1, <4>2
    <3>5. streaming' /\ requestEnded' =>
            /\ worker' = "ended" /\ Complete'
            /\ exhausted' /\ ~Answered' /\ ~raced' => Len(requestSeen') = forwarded'
      <4>1. UNCHANGED <<streaming, worker, exhausted, raced, forwarded>> /\ (Answered' <=> Answered)
        BY AppAsideFacts DEF Answered
      <4>2. Complete' <=> Complete
        BY <4>1 DEF Complete
      <4>3. streaming /\ requestEnded => /\ worker = "ended" /\ Complete
                                         /\ ~(exhausted /\ ~Answered /\ ~raced)
        BY <2>6, <2>7, <2>9 DEF Seen
      <4> QED
        BY <3>3, <4>1, <4>2, <4>3
    <3>6. ASSUME NEW k \in 1..Len(Pipe'), ~ResetUpTo(k - 1)'
          PROVE  Coming(Pipe[k], Len(requestSeen) + k)'
      <4>1. PICK m, n : m = Pipe[k + 1] /\ n = Len(requestSeen) + (k + 1)
        OBVIOUS
      <4>2. (k + 1) - 1 = k
        OBVIOUS
      <4>3. Coming(m, n)
        BY <1>3, <2>2, <2>4, <3>6, <4>1, <4>2 DEF Seen
      <4>4. Coming(m, n)'
        BY <4>3, AppAsideFacts DEF Coming, Complete, Answered
      <4>5. Len(requestSeen') + k = n /\ Pipe'[k] = m
        BY <2>2, <2>6, <3>2, <4>1
      <4> QED
        BY <4>4, <4>5
    <3>7. ~ResetOnWay' /\ worker' \notin {"ended", "failed"} =>
            Len(requestSeen') + Len(Pipe') = Handed'
      <4>1. ~ResetOnWay /\ worker \notin {"ended", "failed"} =>
              Len(requestSeen) + Len(Pipe) = Handed
        BY <1>3 DEF Seen
      <4> QED
        BY <2>2, <2>4, <2>6, <3>2, <4>1, AppAsideFacts
    <3>8. Seen'
      BY <3>4, <3>5, <3>6, <3>7 DEF Seen
    <3>9. requestEnded' \in BOOLEAN
      BY <2>1
    <3> QED
      BY <3>2, <3>8, <3>9
  <2>10. ASSUME e.kind = "end"
         PROVE  Seen' /\ requestSeen' \in Seq(1..MaxForwarded) /\ requestEnded' \in BOOLEAN
    <3>1. requestSeen' = requestSeen
      BY <2>1, <2>10
    <3>2. ASSUME NEW k \in 1..Len(Pipe'), ~ResetUpTo(k - 1)'
          PROVE  Coming(Pipe[k], Len(requestSeen) + k)'
      <4>1. PICK m, n : m = Pipe[k + 1] /\ n = Len(requestSeen) + (k + 1)
        OBVIOUS
      <4>2. (k + 1) - 1 = k
        OBVIOUS
      <4>3. Coming(m, n)
        BY <1>3, <2>2, <2>4, <3>2, <4>1, <4>2 DEF Seen
      <4>4. m.kind \notin {"data", "end", "fail"}
        BY <2>6, <2>8, <2>10, <4>1, <4>3 DEF Coming
      <4>5. Pipe'[k] = m
        BY <2>2, <4>1
      <4> QED
        BY <4>4, <4>5 DEF Coming
    <3>3. worker' = "ended" /\ Complete' /\ Len(requestSeen') = forwarded'
      BY <2>8, <2>10, <3>1, AppAsideFacts DEF Complete, Answered
    <3>4. \A k \in 1..Len(requestSeen') : requestSeen'[k] = k
      BY <3>1 DEF Seen
    <3>5. Seen'
      BY <3>2, <3>3, <3>4 DEF Seen
    <3>6. requestEnded' \in BOOLEAN
      BY <2>1
    <3> QED
      BY <2>6, <3>1, <3>5, <3>6
  <2>11. Seen' /\ requestSeen' \in Seq(1..MaxForwarded) /\ requestEnded' \in BOOLEAN
    BY <2>0, <2>9, <2>10
  <2>12. TypeOK'
    BY <1>1, <2>2, <2>11, AppAsideFacts DEF TypeOK
  <2>13. call # "none" /\ ~StartPending' /\ Attached'
    BY <1>1, HandledFacts DEF Attached
  <2>14. Beginning'
    <3>1. stream' = "open"
      BY <1>1, <1>3 DEF Attached
    <3> QED
      BY <2>13, <3>1, AppAsideFacts DEF Beginning
  <2>15. /\ Answered => Answered'
         /\ Answered => answer' = answer /\ fed' = fed
    BY DEF Answered
  <2>16. Closing' /\ Left' /\ Delivery' /\ Reads' /\ Excused'
    BY <1>1, <2>4, <2>15, AppAsideFacts, ClosingKept, LeftKept, DeliveryKept, ReadsKept,
       ExcusedKept
  <2> QED
    BY <2>11, <2>12, <2>13, <2>14, <2>16
<1> QED
  BY <1>2, <1>3

LEMMA HandleEventStep == ASSUME IInv, HandleEvent PROVE IInv'
<1>1. /\ batch # <<>> /\ batch' = Tail(batch) /\ AppAside
      /\ UNCHANGED <<bridge, commits, filter, answer, fed>>
  BY DEF HandleEvent, AppAside
<1>2. Head(batch).kind \in {"start", "data", "end", "reset", "fail"}
  BY <1>1, PipeShifts DEF IInv, TransportEvents
<1>3. CASE Head(batch).kind = "start"
  BY <1>1, <1>3, HandleStartStep DEF HandleEvent
<1>4. CASE Head(batch).kind \in {"data", "end"}
  BY <1>1, <1>4, HandleDataStep DEF HandleEvent
<1>5. CASE Head(batch).kind \in {"reset", "fail"}
  BY <1>1, <1>5, HandleResetStep DEF HandleEvent
<1> QED
  BY <1>2, <1>3, <1>4, <1>5

-----------------------------------------------------------------------------
(* The invariant holds.                                                    *)

LEMMA InitIInv == ASSUME Init PROVE IInv
<1> USE DEF Init
<1>1. bridge = [closed |-> FALSE, events |-> <<>>] /\ bridge.events = <<>> /\ ~bridge.closed
  BY DEF OpenBridge
<1>2. Pipe = <<>> /\ Len(Pipe) = 0
  BY <1>1 DEF Pipe
<1>3. TypeOK
  <2>1. /\ <<>> \in Seq(TransportEvents) /\ <<>> \in Seq(TransportResponses)
        /\ <<>> \in Seq({"data", "stop", "error", "timeout"})
        /\ <<>> \in Seq(1..MaxData) /\ <<>> \in Seq(1..MaxForwarded)
    OBVIOUS
  <2>2. bridge \in Bridges(TransportEvents)
    BY <1>1, <2>1 DEF Bridges
  <2>3. 0 \in 0..MaxForwarded /\ 0 \in 0..MaxData /\ 0 \in Nat
    BY BoundsAssumption
  <2>4. closing \in [Threads -> {"no", "reset", "iter"}]
    OBVIOUS
  <2>5. /\ expired \in BOOLEAN /\ late \in BOOLEAN /\ reading \in BOOLEAN
        /\ trailersShown \in BOOLEAN /\ ended \in BOOLEAN /\ abandoned \in BOOLEAN
        /\ raced \in BOOLEAN /\ requestIter \in BOOLEAN /\ iterClosed \in BOOLEAN
        /\ exhausted \in BOOLEAN /\ entry \in BOOLEAN /\ requestEnded \in BOOLEAN
    OBVIOUS
  <2> QED
    BY <2>1, <2>2, <2>3, <2>4, <2>5 DEF TypeOK
<1>4. Idle /\ ~StartPending
  BY <1>2 DEF Idle, StartPending
<1>5. Attached
  BY <1>1, <1>2 DEF Attached
<1>6. Beginning /\ Closing /\ Left
  BY <1>2, <1>4 DEF Beginning, Closing, Left, GivingUp
<1>7. Delivery /\ Excused
  BY DEF Delivery, Receives, Excused
<1>8. Reads
  <2>1. received = <<>> /\ results = <<>> /\ ~ended /\ DOMAIN received = {} /\ DOMAIN results = {}
    OBVIOUS
  <2> QED
    BY <2>1 DEF Reads, Stops
<1>9. Seen
  <2>1. Len(requestSeen) = 0 /\ ~requestEnded /\ ~entry
    BY EmptySeq
  <2>2. \A k \in 1..Len(requestSeen) : requestSeen[k] = k
    BY <2>1
  <2> QED
    BY <2>1, <2>2 DEF Seen
<1> QED
  BY <1>3, <1>5, <1>6, <1>7, <1>8, <1>9 DEF IInv

LEMMA StutterStep == ASSUME IInv, UNCHANGED vars PROVE IInv'
<1>1. Aside /\ AppAside /\ UNCHANGED channel
  BY DEF vars, Aside, AppAside
<1> USE DEF IInv
<1>2. TypeOK'
  BY <1>1, AsideFacts, AppAsideFacts DEF TypeOK
<1>3. Attached' /\ Beginning' /\ Closing' /\ Left'
  BY <1>1, AsideFacts, AppAsideFacts, BeginningKept, ClosingKept, LeftKept
<1>4. Delivery' /\ Reads' /\ Seen' /\ Excused'
  BY <1>1, AsideFacts, AppAsideFacts, DeliveryKept, ReadsKept, SeenKept, ExcusedKept
<1> QED
  BY <1>2, <1>3, <1>4

LEMMA NextIInv == ASSUME IInv, [Next]_vars PROVE IInv'
<1>1. ASSUME AppStep PROVE IInv'
  <2>1. CASE Execute \/ Expire \/ NextBegins
    BY <2>1, ExecuteStep, ExpireStep, NextBeginsStep
  <2>2. CASE CallStep
    BY <2>2, StartedStep, ResponseStep, FailsStep, HeadingTimedOutStep DEF CallStep
  <2>3. CASE ReadStep
    BY <2>3, NextDataStep, NextEndsStep, NextTimedOutStep DEF ReadStep
  <2>4. CASE DropResponse
    <3>1. "reader" \in Threads
      BY DEF Threads
    <3> QED
      BY <2>4, <3>1, CloseStepKeeps
  <2>5. ASSUME NEW t \in Threads, Close(t) \/ CloseStep(t) PROVE IInv'
    BY <2>5, CloseStepKeeps, CloseResetStep, CloseIterStep DEF CloseStep
  <2>6. CASE WorkerAsks \/ WorkerYields \/ WorkerFinishes
    BY <2>6, WorkerAsksStep, WorkerYieldsStep, WorkerFinishesStep
  <2> QED
    BY <1>1, <2>1, <2>2, <2>3, <2>4, <2>5, <2>6 DEF AppStep
<1>2. ASSUME UpstreamStep PROVE IInv'
  BY <1>2, UpstreamHeadersStep, UpstreamDataStep, UpstreamTrailersStep, UpstreamGoneStep
     DEF UpstreamStep
<1>3. CASE OnScheduled \/ HandleEvent \/ OnStreamComplete \/ Drop
  BY <1>3, OnScheduledStep, HandleEventStep, OnStreamCompleteStep, DropStep
<1>4. CASE Terminated \/ UNCHANGED vars
  BY <1>4, StutterStep DEF Terminated
<1> QED
  BY <1>1, <1>2, <1>3, <1>4 DEF Next

THEOREM Inductive == Spec => []IInv
<1>1. Init => IInv
  BY InitIInv
<1>2. IInv /\ [Next]_vars => IInv'
  BY NextIInv
<1> QED
  BY <1>1, <1>2, PTL DEF Spec

\* However the request ends, its iterator is given up by its owner, and its
\* stream has been reset or its reset is on its way (execute_sync and
\* ResponseContent.close in src/wsgi/transport.rs).
THEOREM GivenUpLeavesNothing == Spec => []NothingIsLeft
<1>1. ASSUME IInv PROVE NothingIsLeft
  <2> USE <1>1 DEF IInv
  <2>1. GivenUp => Idle /\ GivingUp
    BY DEF GivenUp, GivingUp
  <2>2. GivenUp => ~requestIter
    BY <2>1 DEF Left
  <2>3. ASSUME GivenUp, abandoned \/ call = "timedOut", entry
        PROVE  \/ Event("reset", 0) \in Range(batch)
               \/ Event("reset", 0) \in Range(bridge.events) /\ (commits > 0 \/ batch # <<>>)
    <3>1. ResetOnWay
      BY <2>1, <2>3 DEF Left, Idle
    <3>2. PICK k \in 1..Len(Pipe) : Pipe[k].kind = "reset"
      BY <3>1 DEF ResetOnWay, ResetUpTo
    <3>3. Pipe[k] = Event("reset", 0)
      BY <3>2 DEF Attached
    <3>4. CASE k \in 1..Len(batch)
      <4>1. DOMAIN batch = 1..Len(batch) /\ batch[k] = Pipe[k]
        BY <3>4, Lengths, PipeFacts, LenProperties
      <4> QED
        BY <3>3, <3>4, <4>1 DEF Range
    <3>5. CASE k \notin 1..Len(batch)
      <4>1. PICK j \in 1..Len(bridge.events) : k = Len(batch) + j
        <5>1. k - Len(batch) \in 1..Len(bridge.events) /\ k = Len(batch) + (k - Len(batch))
          BY <3>5, Lengths, PipeFacts
        <5> QED
          BY <5>1
      <4>2. bridge.events[j] = Pipe[k] /\ DOMAIN bridge.events = 1..Len(bridge.events)
        BY <4>1, Lengths, PipeFacts, LenProperties
      <4>3. bridge.events # <<>>
        BY <4>1, Lengths, EmptySeq
      <4> QED
        BY <3>3, <4>2, <4>3 DEF Range, Attached
    <3> QED
      BY <3>4, <3>5
  <2> QED
    BY <2>2, <2>3 DEF NothingIsLeft, Attached
<1> QED
  BY <1>1, Inductive, PTL

\* The application reads the body in order, and its reads stop only where the
\* response does (ResponseContent.__next__ and the callbacks of the stream in
\* src/wsgi/filter.rs).
THEOREM ReadsAreTruthful == Spec => []ResponseIsTruthful
<1>1. ASSUME IInv PROVE ResponseIsTruthful
  BY <1>1 DEF IInv, Reads, Stops, Finished, ResponseIsTruthful
<1> QED
  BY <1>1, Inductive, PTL

\* The upstream sees the chunks of the request in order, and takes it for
\* complete only if it is, if the upstream has answered, or if two closes raced
\* (ForwardRequest.run and close_request_iter in src/wsgi/transport.rs).
THEOREM UpstreamIsToldTheTruth == Spec => []RequestIsTruthful
<1>1. ASSUME IInv PROVE RequestIsTruthful
  <2> USE <1>1 DEF IInv
  <2>1. \A k \in 1..Len(requestSeen) : requestSeen[k] = k
    BY DEF Seen
  <2>2. requestSeen = [k \in 1..Len(requestSeen) |-> k]
    <3>1. requestSeen = [k \in 1..Len(requestSeen) |-> requestSeen[k]]
      BY SeqDef DEF TypeOK
    <3> QED
      BY <2>1, <3>1
  <2>3. streaming /\ requestEnded =>
          (exhausted /\ Len(requestSeen) = forwarded) \/ Answered \/ raced
    BY DEF Seen, Complete
  <2> QED
    BY <2>2, <2>3 DEF RequestIsTruthful
<1> QED
  BY <1>1, Inductive, PTL
=============================================================================
