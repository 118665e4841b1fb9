------------------------ MODULE WsgiResponse_proofs ------------------------
(***************************************************************************)
(* Proofs about WsgiResponse, for every number of chunks, of calls of      *)
(* start_response and of watermarks: what goes downstream is one response, *)
(* and an application that yields its chunks is held back.                 *)
(*                                                                         *)
(* The invariant says what each position holds, of the wire (OnWire) and   *)
(* of the pipe, which is what the application has sent and the filter has  *)
(* not handled (InThePipe, Beginning): the k-th event of the pipe has the  *)
(* chunk that comes k after those on the wire.  HeldBack counts chunks,    *)
(* waits and acknowledgements.                                             *)
(***************************************************************************)
EXTENDS WsgiResponse, SequenceFacts, FiniteSetTheorems

-----------------------------------------------------------------------------
\* What the application has sent and the filter has not yet handled.
Pipe == batch \o bridge.events

\* The chunks on the wire of a response that goes on.
OnTheWire == IF wire = <<>> THEN 0 ELSE Len(wire) - 1

\* The application has done all it will.
Over == pc = "done" \/ (pc = "commit" /\ after = "done")

Stages ==
  /\ responseClosed <=> filter # "live"
  /\ bridge.closed <=> filter # "live"
  /\ filter # "live" => \A k \in DOMAIN batch : batch[k].kind = "Exception"
  /\ acknowledged => batch # <<>> /\ batch[1].more
  /\ headersSent => startEvent = 0
  /\ startEvent \in {0, starts}
  /\ ~headersSent => produced = 0

\* An event that ends the response, or breaks it off, goes without a chunk unless
\* it is the last part of the body.
EventOK(e) ==
  /\ e.kind \in {"Trailers", "Exception"} => ~e.more /\ e.chunk = 0
  /\ e.kind = "Exception" => e.start = 0

\* Each frame on the wire, by its position.
OnWire ==
  \A k \in DOMAIN wire :
    /\ wire[k] \in {<<"headers", starts>>, <<"data", k - 1>>, <<"end", 0>>, <<"error", 0>>}
    /\ wire[k][1] = "headers" => k = 1 /\ headersSent
    /\ wire[k][1] = "data" => k # 1
    /\ wire[k][1] \in {"end", "error"} => k = Len(wire) /\ filter # "live"
    /\ wire[k][1] = "end" =>
         /\ closed
         /\ k = 1 => ~headersSent
         /\ produced = IF k = 1 THEN 0 ELSE k - 2

\* Each event in the pipe of a response that goes on, by its position.
InThePipe ==
  filter = "live" =>
    \A k \in DOMAIN Pipe :
      /\ Pipe[k].more => Pipe[k].chunk = OnTheWire + k
      /\ ~Pipe[k].more =>
           \/ Pipe[k].kind = "Exception" /\ k = Len(Pipe) /\ Over
           \/ /\ Pipe[k].kind # "Exception" /\ closed
              /\ \/ Pipe[k].chunk = 0 /\ produced = OnTheWire + k - 1
                 \/ Pipe[k].chunk = OnTheWire + k /\ produced = OnTheWire + k
      /\ k > 1 => Pipe[k - 1].more \/ Pipe[k].kind = "Exception"
      /\ Pipe[k].start # 0 =>
           k = 1 /\ wire = <<>> /\ Pipe[k].start = starts /\ headersSent
      /\ k = 1 /\ wire = <<>> /\ Pipe[k].start = 0 =>
           \/ Pipe[k].kind = "Exception"
           \/ Pipe[k].kind = "Trailers" /\ ~headersSent

Shapes ==
  /\ \A k \in DOMAIN batch : EventOK(batch[k])
  /\ \A k \in DOMAIN bridge.events : EventOK(bridge.events[k])

Beginning ==
  filter = "live" =>
       /\ Pipe = <<>> \/ Pipe[Len(Pipe)].more => produced = OnTheWire + Len(Pipe)
       /\ wire = <<>> /\ headersSent => Pipe # <<>>

Waiting == IF pc = "recv" \/ (pc = "commit" /\ after = "recv") THEN 1 ELSE 0

HeldBack ==
  filter = "live" /\ ~usesWrite =>
    /\ pc = "app" \/ (pc = "commit" /\ after = "app") => produced = 0
    /\ \/ produced + written <= OnTheWire + Waiting + (IF acknowledged THEN 1 ELSE 0)
       \/ Over /\ produced <= 1

IInv ==
  /\ TypeOK /\ Stages /\ Shapes /\ OnWire /\ InThePipe /\ Beginning /\ HeldBack
-----------------------------------------------------------------------------
(* What the steps do, element by element.                                  *)

LEMMA Lengths ==
  ASSUME TypeOK
  PROVE  /\ Len(batch) \in Nat /\ DOMAIN batch = 1..Len(batch) /\ batch \in Seq(Events)
         /\ \A k \in 1..Len(batch) : batch[k] \in Events
         /\ batch = <<>> <=> Len(batch) = 0
         /\ Len(bridge.events) \in Nat
         /\ DOMAIN bridge.events = 1..Len(bridge.events)
         /\ bridge.events \in Seq(Events)
         /\ \A k \in 1..Len(bridge.events) : bridge.events[k] \in Events
         /\ bridge = [closed |-> bridge.closed, events |-> bridge.events]
         /\ bridge.closed \in BOOLEAN
         /\ bridge.closed => bridge.events = <<>>
         /\ Len(wire) \in Nat /\ DOMAIN wire = 1..Len(wire) /\ wire \in Seq(Frame)
         /\ \A k \in DOMAIN wire : wire[k] \in Frame
         /\ wire = <<>> <=> Len(wire) = 0
         /\ OnTheWire \in Nat
         /\ produced \in Nat /\ starts \in Nat /\ startEvent \in Nat
         /\ written \in Nat /\ commits \in Nat
<1>1. /\ batch \in Seq(Events) /\ wire \in Seq(Frame) /\ bridge \in Bridges(Events)
  BY DEF TypeOK
<1>2. /\ bridge.events \in Seq(Events) /\ bridge.closed \in BOOLEAN
      /\ bridge = [closed |-> bridge.closed, events |-> bridge.events]
      /\ bridge.closed => bridge.events = <<>>
  BY <1>1 DEF Bridges
<1>3. /\ Len(batch) \in Nat /\ DOMAIN batch = 1..Len(batch)
      /\ \A k \in 1..Len(batch) : batch[k] \in Events
      /\ batch = <<>> <=> Len(batch) = 0
  BY <1>1, LenProperties, ElementOfSeq, EmptySeq
<1>4. /\ Len(bridge.events) \in Nat /\ DOMAIN bridge.events = 1..Len(bridge.events)
      /\ \A k \in 1..Len(bridge.events) : bridge.events[k] \in Events
  BY <1>2, LenProperties, ElementOfSeq
<1>5. /\ Len(wire) \in Nat /\ DOMAIN wire = 1..Len(wire)
      /\ \A k \in DOMAIN wire : wire[k] \in Frame
      /\ wire = <<>> <=> Len(wire) = 0
  BY <1>1, LenProperties, ElementOfSeq, EmptySeq
<1>6. OnTheWire \in Nat
  BY <1>5 DEF OnTheWire
<1>7. /\ produced \in Nat /\ starts \in Nat /\ startEvent \in Nat
      /\ written \in Nat /\ commits \in Nat
  BY BoundsAssumption DEF TypeOK
<1> QED
  BY <1>1, <1>2, <1>3, <1>4, <1>5, <1>6, <1>7

LEMMA PipeFacts ==
  ASSUME NEW b \in Seq(Events), NEW s \in Seq(Events)
  PROVE  /\ b \o s \in Seq(Events)
         /\ Len(b \o s) = Len(b) + Len(s) /\ Len(b \o s) \in Nat
         /\ DOMAIN (b \o s) = 1..Len(b \o s)
         /\ \A k \in 1..Len(b \o s) : (b \o s)[k] \in Events
         /\ \A k \in 1..Len(b) : (b \o s)[k] = b[k]
         /\ \A k \in 1..Len(s) : (b \o s)[Len(b) + k] = s[k]
         /\ b \o s = <<>> <=> Len(b \o s) = 0
<1>1. b \o s \in Seq(Events) /\ Len(b \o s) = Len(b) + Len(s)
  BY ConcatFacts
<1>2. Len(b \o s) \in Nat /\ DOMAIN (b \o s) = 1..Len(b \o s)
  BY <1>1, LenProperties
<1>3. \A k \in 1..Len(b \o s) : (b \o s)[k] \in Events
  BY <1>1, <1>2, ElementOfSeq
<1>4. b \o s = <<>> <=> Len(b \o s) = 0
  BY <1>1, EmptySeq
<1>5. \A k \in 1..Len(b) : (b \o s)[k] = b[k]
  BY ConcatFacts
<1>6. \A k \in 1..Len(s) : (b \o s)[Len(b) + k] = s[k]
  BY ConcatFacts
<1> QED
  BY <1>1, <1>2, <1>3, <1>4, <1>5, <1>6

LEMMA PipeOK ==
  ASSUME TypeOK
  PROVE  /\ Pipe \in Seq(Events) /\ Len(Pipe) \in Nat /\ DOMAIN Pipe = 1..Len(Pipe)
         /\ Len(Pipe) = Len(batch) + Len(bridge.events)
         /\ \A k \in 1..Len(Pipe) : Pipe[k] \in Events
         /\ \A k \in 1..Len(Pipe) :
              Pipe[k].more \in BOOLEAN /\ Pipe[k].start \in Nat /\ Pipe[k].chunk \in Nat
         /\ \A k \in 1..Len(batch) : Pipe[k] = batch[k]
         /\ \A k \in 1..Len(bridge.events) : Pipe[Len(batch) + k] = bridge.events[k]
         /\ Pipe = <<>> <=> Len(Pipe) = 0
<1>1. batch \in Seq(Events) /\ bridge.events \in Seq(Events)
  BY Lengths
<1>2. /\ Pipe \in Seq(Events) /\ Len(Pipe) \in Nat /\ DOMAIN Pipe = 1..Len(Pipe)
      /\ Len(Pipe) = Len(batch) + Len(bridge.events)
      /\ \A k \in 1..Len(Pipe) : Pipe[k] \in Events
      /\ \A k \in 1..Len(batch) : Pipe[k] = batch[k]
      /\ \A k \in 1..Len(bridge.events) : Pipe[Len(batch) + k] = bridge.events[k]
      /\ Pipe = <<>> <=> Len(Pipe) = 0
  BY <1>1, PipeFacts DEF Pipe
<1>3. \A e \in Events : e.more \in BOOLEAN /\ e.start \in Nat /\ e.chunk \in Nat
  BY BoundsAssumption DEF Events
<1> QED
  BY <1>2, <1>3

\* An event that is sent joins the pipe of an open bridge.
LEMMA SentFacts ==
  ASSUME TypeOK, NEW e \in Events, bridge' = Sent(bridge, e), batch' = batch
  PROVE  /\ bridge' \in Bridges(Events) /\ bridge'.closed = bridge.closed
         /\ bridge.closed => bridge' = bridge
         /\ ~bridge.closed =>
              /\ bridge'.events = Append(bridge.events, e)
              /\ Pipe' = Append(Pipe, e)
<1>1. CASE bridge.closed
  BY <1>1 DEF Sent, TypeOK
<1>2. CASE ~bridge.closed
  <2>1. bridge' = [closed |-> FALSE, events |-> Append(bridge.events, e)]
    <3>1. bridge' = [bridge EXCEPT !.events = Append(@, e)]
      BY <1>2 DEF Sent
    <3> HIDE DEF TypeOK
    <3> QED
      BY <1>2, <3>1, Lengths
  <2>2. Append(bridge.events, e) \in Seq(Events)
    BY Lengths, AppendFacts
  <2>7. bridge'.events = Append(bridge.events, e) /\ bridge'.closed = bridge.closed
    <3>1. bridge'.events = Append(bridge.events, e) /\ bridge'.closed = FALSE
      BY <2>1
    <3>2. bridge.closed = FALSE
      BY <1>2, Lengths
    <3> QED
      BY <3>1, <3>2
  <2>3. Pipe' = batch \o Append(bridge.events, e)
    BY <2>7 DEF Pipe
  <2>4. batch \o Append(bridge.events, e) = Append(batch \o bridge.events, e)
    <3>1. \A b, s \in Seq(Events) : b \o Append(s, e) = Append(b \o s, e)
      OBVIOUS
    <3> QED
      BY <3>1, Lengths
  <2>5. bridge' \in Bridges(Events)
    <3> DEFINE b == [closed |-> FALSE, events |-> Append(bridge.events, e)]
    <3>1. b \in [closed : BOOLEAN, events : Seq(Events)] /\ ~b.closed
      BY <2>2
    <3> QED
      BY <2>1, <3>1 DEF Bridges
  <2> HIDE DEF TypeOK
  <2>6. Pipe' = Append(Pipe, e)
    BY <2>3, <2>4 DEF Pipe
  <2> QED
    BY <1>2, <2>7, <2>5, <2>6
<1> QED
  BY <1>1, <1>2, Lengths

\* What became of a call of ResponseSender::send with a body: it is ignored, it
\* fails, or its event is sent.
BodyIgnored(next) ==
  /\ closed /\ pc' = next
  /\ UNCHANGED <<startEvent, headersSent, closed, after, produced, bridge>>

BodyRefused(more, failed) ==
  /\ ~closed /\ ~headersSent /\ closed' = ~more /\ pc' = failed
  /\ startEvent = 0 /\ startEvent' = 0 /\ headersSent' = FALSE
  /\ UNCHANGED <<after, produced, bridge>>

BodySent(e, hasChunk, more, next) ==
  /\ ~closed /\ closed' = ~more
  /\ startEvent # 0 \/ headersSent
  /\ headersSent' = TRUE /\ startEvent' = 0
  /\ e \in Events /\ e.kind \in {"Start", "Body"} /\ e.start = startEvent /\ e.more = more
  /\ hasChunk => e.chunk = produced + 1 /\ produced' = produced + 1
  /\ ~hasChunk => e.chunk = 0 /\ produced' = produced
  /\ bridge' = Sent(bridge, e) /\ after' = next
  /\ pc' = IF bridge.closed THEN next ELSE "commit"

LEMMA SendBodyFacts ==
  ASSUME TypeOK, NEW hasChunk \in BOOLEAN, NEW more \in BOOLEAN, NEW next, NEW failed,
         hasChunk => produced < MaxChunks,
         SendBody(hasChunk, more, next, failed)
  PROVE  \/ BodyIgnored(next)
         \/ BodyRefused(more, failed)
         \/ \E e \in Events : BodySent(e, hasChunk, more, next)
<1>1. CASE closed
  BY <1>1 DEF SendBody, BodyIgnored, senderVars
<1>2. CASE ~closed /\ ~Started
  BY <1>2 DEF SendBody, BodyRefused, Started
<1>3. CASE ~closed /\ Started
  <2> DEFINE kind  == IF startEvent # 0 THEN "Start" ELSE "Body"
             chunk == IF hasChunk THEN produced + 1 ELSE 0
             e == Event(kind, startEvent, chunk, more)
  <2>1. /\ closed' = ~more /\ headersSent' = Started /\ startEvent' = 0
        /\ SendToFilter(e, next)
        /\ produced' = IF hasChunk THEN chunk ELSE produced
    BY <1>3 DEF SendBody
  <2>2. chunk \in 0..MaxChunks
    BY BoundsAssumption DEF TypeOK
  <2>3. e \in Events /\ e.kind \in {"Start", "Body"} /\ e.start = startEvent
        /\ e.more = more /\ e.chunk = chunk
    BY <2>2 DEF Event, Events, Kinds, TypeOK
  <2>4. /\ bridge' = Sent(bridge, e) /\ after' = next
        /\ pc' = IF bridge.closed THEN next ELSE "commit"
    BY <2>1 DEF SendToFilter
  <2>5. headersSent' = TRUE /\ (startEvent # 0 \/ headersSent)
    BY <1>3, <2>1 DEF Started
  <2> HIDE DEF e
  <2>6. BodySent(e, hasChunk, more, next)
    BY <1>3, <2>1, <2>3, <2>4, <2>5 DEF BodySent
  <2> QED
    BY <2>3, <2>6
<1> QED
  BY <1>1, <1>2, <1>3

-----------------------------------------------------------------------------
(* The types.                                                              *)

LEMMA SendBodyType ==
  ASSUME TypeOK, NEW hasChunk \in BOOLEAN, NEW more \in BOOLEAN,
         NEW next \in {"app", "iter", "recv", "done"},
         NEW failed \in {"app", "iter", "raise"},
         hasChunk => produced < MaxChunks,
         SendBody(hasChunk, more, next, failed),
         UNCHANGED <<starts, usesWrite, commits, written, filterVars>>
  PROVE  TypeOK'
<1>1. CASE BodyIgnored(next)
  BY <1>1 DEF BodyIgnored, TypeOK, filterVars
<1>2. CASE BodyRefused(more, failed)
  BY <1>2, BoundsAssumption DEF BodyRefused, TypeOK, filterVars
<1>3. ASSUME NEW e \in Events, BodySent(e, hasChunk, more, next) PROVE TypeOK'
  <2>1. bridge' \in Bridges(Events)
    BY <1>3, SentFacts DEF BodySent, filterVars
  <2>2. produced' \in 0..MaxChunks
    BY <1>3, BoundsAssumption DEF BodySent, TypeOK
  <2> QED
    BY <1>3, <2>1, <2>2, BoundsAssumption DEF BodySent, TypeOK, filterVars
<1> QED
  BY <1>1, <1>2, <1>3, SendBodyFacts

\* SendToFilter of an event that is not a part of the body.
LEMMA SendToFilterType ==
  ASSUME TypeOK, NEW e \in Events, NEW next \in {"app", "iter", "recv", "done"},
         SendToFilter(e, next), batch' = batch
  PROVE  /\ bridge' \in Bridges(Events) /\ after' = next
         /\ pc' \in {"app", "iter", "commit", "recv", "raise", "done"}
BY SentFacts DEF SendToFilter

LEMMA AppStepType == ASSUME TypeOK, AppStep \/ Commit \/ Written PROVE TypeOK'
<1>1. ASSUME NEW excInfo \in BOOLEAN, StartResponse(excInfo) PROVE TypeOK'
  BY <1>1, BoundsAssumption DEF StartResponse, TypeOK, filterVars
<1>2. CASE Write
  BY <1>2, SendBodyType DEF Write, TypeOK
<1>3. CASE SendTrailers
  <2> DEFINE e == Event("Trailers", startEvent, 0, FALSE)
  <2>1. e \in Events
    BY BoundsAssumption DEF Event, Events, Kinds, TypeOK
  <2>2. pc \in {"app", "iter"} /\ SendToFilter(e, pc) /\ batch' = batch
    BY <1>3 DEF SendTrailers, filterVars
  <2> HIDE DEF e
  <2>3. /\ bridge' \in Bridges(Events) /\ after' = pc
        /\ pc' \in {"app", "iter", "commit", "recv", "raise", "done"}
    BY <2>1, <2>2, SendToFilterType
  <2> QED
    BY <1>3, <2>2, <2>3, BoundsAssumption DEF SendTrailers, Started, TypeOK, filterVars
<1>4. CASE ReturnList
  BY <1>4, SendBodyType DEF ReturnList, TypeOK
<1>5. CASE ReturnIterator
  BY <1>5 DEF ReturnIterator, TypeOK, senderVars, filterVars
<1>6. CASE Yield
  BY <1>6, SendBodyType DEF Yield, TypeOK
<1>7. CASE Exhausted
  BY <1>7, SendBodyType DEF Exhausted, TypeOK
<1>8. CASE Raise
  <2> DEFINE e == Event("Exception", 0, 0, FALSE)
  <2>1. e \in Events
    BY BoundsAssumption DEF Event, Events, Kinds
  <2>2. SendToFilter(e, "done") /\ batch' = batch
    BY <1>8 DEF Raise, filterVars
  <2> HIDE DEF e
  <2>3. /\ bridge' \in Bridges(Events) /\ after' = "done"
        /\ pc' \in {"app", "iter", "commit", "recv", "raise", "done"}
    BY <2>1, <2>2, SendToFilterType
  <2> QED
    BY <1>8, <2>3 DEF Raise, TypeOK, senderVars, filterVars
<1>9. CASE Commit
  BY <1>9 DEF Commit, TypeOK, senderVars, filterVars
<1>10. CASE Written
  BY <1>10 DEF Written, TypeOK, senderVars, filterVars
<1> QED
  BY <1>1, <1>2, <1>3, <1>4, <1>5, <1>6, <1>7, <1>8, <1>9, <1>10 DEF AppStep

\* The frames of an event.
LEMMA FramesType == ASSUME NEW e \in Events PROVE Frames(e) \in Seq(Frame)
<1>1. e.start \in 0..MaxStarts /\ e.chunk \in 0..MaxChunks
  BY DEF Events
<1> DEFINE h == <<"headers", e.start>>
           d == <<"data", e.chunk>>
           z == <<"end", 0>>
           x == <<"error", 0>>
<1>2. h \in Frame /\ d \in Frame /\ z \in Frame /\ x \in Frame
  BY <1>1, BoundsAssumption DEF Frame
<1>3. Frames(e) = LET headers == IF e.start # 0 THEN <<h>> ELSE <<>>
                      data    == IF e.chunk # 0 THEN <<d>> ELSE <<>>
                  IN  CASE e.kind = "Trailers"  -> headers \o <<z>>
                        [] e.kind = "Exception" -> <<x>>
                        [] OTHER -> headers \o data \o (IF e.more THEN <<>> ELSE <<z>>)
  BY DEF Frames
<1> HIDE DEF h, d, z, x
<1> QED
  BY <1>2, <1>3

LEMMA FilterStepType ==
  ASSUME TypeOK,
         \/ OnScheduled \/ Acknowledge \/ HandleEvent \/ AboveWatermark
         \/ BelowWatermark \/ OnStreamComplete \/ Drop
  PROVE  TypeOK'
<1>0. ClosedBridge \in Bridges(Events)
  BY EmptySeq DEF ClosedBridge, Bridges
<1>1. CASE OnScheduled
  <2>1. Drained(bridge) \in Bridges(Events)
    <3>1. Drained(bridge) = [closed |-> bridge.closed, events |-> <<>>]
      BY Lengths DEF Drained
    <3> QED
      BY <3>1, Lengths, EmptySeq DEF Bridges
  <2>2. bridge' \in Bridges(Events) /\ batch' \in Seq(Events)
    BY <1>1, <2>1, Lengths, EmptySeq DEF OnScheduled, TypeOK
  <2> QED
    BY <1>1, <2>2 DEF OnScheduled, TypeOK, senderVars, appVars
<1>2. CASE Acknowledge
  BY <1>2 DEF Acknowledge, TypeOK, senderVars, appVars
<1>3. CASE HandleEvent
  <2>1. batch' \in Seq(Events) /\ batch[1] \in Events /\ Head(batch) = batch[1]
    BY <1>3, Lengths, TailFacts DEF HandleEvent
  <2>2. wire \o Frames(batch[1]) \in Seq(Frame)
    BY <2>1, FramesType, Lengths, ConcatFacts
  <2>3. wire' \in Seq(Frame)
    BY <1>3, <2>1, <2>2, Lengths DEF HandleEvent
  <2>4. /\ bridge' \in Bridges(Events) /\ filter' \in {"live", "complete", "dropped"}
        /\ responseClosed' \in BOOLEAN
    BY <1>0, <1>3 DEF HandleEvent, Completed, TypeOK
  <2> QED
    BY <1>3, <2>1, <2>3, <2>4 DEF HandleEvent, TypeOK, senderVars, appVars
<1>4. CASE AboveWatermark
  BY <1>4, BoundsAssumption DEF AboveWatermark, TypeOK, senderVars, appVars
<1>5. CASE BelowWatermark
  BY <1>5, BoundsAssumption DEF BelowWatermark, TypeOK, senderVars, appVars
<1>6. CASE OnStreamComplete
  BY <1>0, <1>6 DEF OnStreamComplete, Completed, TypeOK, senderVars, appVars
<1>7. CASE Drop
  BY <1>7 DEF Drop, TypeOK, senderVars, appVars
<1> QED
  BY <1>1, <1>2, <1>3, <1>4, <1>5, <1>6, <1>7

-----------------------------------------------------------------------------
(* The application's steps.                                                *)

LEMMA OnWireKept ==
  ASSUME OnWire, wire' = wire, filter # "live" => filter' # "live",
         headersSent => headersSent',
         headersSent => starts' = starts,
         closed => closed' /\ produced' = produced /\ (headersSent' => headersSent)
  PROVE  OnWire'
<1> SUFFICES ASSUME NEW k \in DOMAIN wire
             PROVE  /\ wire[k] \in {<<"headers", starts'>>, <<"data", k - 1>>,
                                    <<"end", 0>>, <<"error", 0>>}
                    /\ wire[k][1] = "headers" => k = 1 /\ headersSent'
                    /\ wire[k][1] = "data" => k # 1
                    /\ wire[k][1] \in {"end", "error"} => k = Len(wire) /\ filter' # "live"
                    /\ wire[k][1] = "end" =>
                         /\ closed'
                         /\ k = 1 => ~headersSent'
                         /\ produced' = IF k = 1 THEN 0 ELSE k - 2
  BY DEF OnWire
<1>1. CASE wire[k][1] = "headers"
  <2>1. wire[k] = <<"headers", starts>> /\ k = 1 /\ headersSent
    BY <1>1 DEF OnWire
  <2> QED
    BY <1>1, <2>1
<1>2. CASE wire[k][1] # "headers"
  <2>1. wire[k] \in {<<"data", k - 1>>, <<"end", 0>>, <<"error", 0>>}
    BY <1>2 DEF OnWire
  <2> QED
    BY <1>2, <2>1 DEF OnWire
<1> QED
  BY <1>1, <1>2

LEMMA PipeKept ==
  ASSUME InThePipe, Beginning, Pipe' = Pipe, wire' = wire, filter' = filter,
         produced' = produced, headersSent' = headersSent, closed => closed',
         headersSent => starts' = starts, Over => Over'
  PROVE  InThePipe' /\ Beginning'
<1>1. OnTheWire' = OnTheWire
  BY DEF OnTheWire
<1>2. InThePipe'
  <2> SUFFICES ASSUME filter = "live", NEW k \in DOMAIN Pipe
      PROVE
      /\ Pipe[k].more => Pipe[k].chunk = OnTheWire + k
      /\ ~Pipe[k].more =>
           \/ Pipe[k].kind = "Exception" /\ k = Len(Pipe) /\ Over'
           \/ /\ Pipe[k].kind # "Exception" /\ closed'
              /\ \/ Pipe[k].chunk = 0 /\ produced = OnTheWire + k - 1
                 \/ Pipe[k].chunk = OnTheWire + k /\ produced = OnTheWire + k
      /\ k > 1 => Pipe[k - 1].more \/ Pipe[k].kind = "Exception"
      /\ Pipe[k].start # 0 =>
           k = 1 /\ wire = <<>> /\ Pipe[k].start = starts' /\ headersSent
      /\ k = 1 /\ wire = <<>> /\ Pipe[k].start = 0 =>
           \/ Pipe[k].kind = "Exception"
           \/ Pipe[k].kind = "Trailers" /\ ~headersSent
    BY <1>1 DEF InThePipe
  <2> QED
    BY DEF InThePipe
<1>3. Beginning'
  BY <1>1 DEF Beginning
<1> QED
  BY <1>2, <1>3

\* While the application has more to do and the response is not closed, what is
\* in the pipe is followed by more.
LEMMA AllMore ==
  ASSUME IInv, filter = "live", ~Over, ~closed
  PROVE  /\ \A k \in 1..Len(Pipe) : Pipe[k].more
         /\ produced = OnTheWire + Len(Pipe)
<1>1. Len(Pipe) \in Nat /\ DOMAIN Pipe = 1..Len(Pipe) /\ (Pipe = <<>> <=> Len(Pipe) = 0)
  BY Zenon, PipeOK DEF IInv
<1>2. \A k \in 1..Len(Pipe) : Pipe[k].more
  BY <1>1 DEF IInv, InThePipe
<1>3. Pipe = <<>> \/ Pipe[Len(Pipe)].more
  BY <1>1, <1>2
<1> QED
  BY <1>2, <1>3 DEF IInv, Beginning

\* What is said of the events of the batch and of the bridge is said of the pipe.
LEMMA PipeShapes ==
  ASSUME TypeOK, Shapes
  PROVE  \A k \in 1..Len(Pipe) : EventOK(Pipe[k])
<1>1. /\ Len(batch) \in Nat /\ Len(bridge.events) \in Nat
      /\ Len(Pipe) = Len(batch) + Len(bridge.events)
      /\ \A k \in 1..Len(batch) : Pipe[k] = batch[k] /\ EventOK(batch[k])
      /\ \A k \in 1..Len(bridge.events) :
           Pipe[Len(batch) + k] = bridge.events[k] /\ EventOK(bridge.events[k])
  BY Zenon, PipeOK, Lengths DEF Shapes
<1>2. ASSUME NEW k \in 1..Len(Pipe) PROVE EventOK(Pipe[k])
  <2>1. CASE k <= Len(batch)
    <3>1. k \in 1..Len(batch)
      BY <1>1, <2>1
    <3>2. Pipe[k] = batch[k] /\ EventOK(batch[k])
      BY <1>1, <3>1
    <3> QED
      BY <3>2
  <2>2. CASE k > Len(batch)
    <3>1. PICK j \in 1..Len(bridge.events) : k = Len(batch) + j
      <4>1. k - Len(batch) \in 1..Len(bridge.events) /\ k = Len(batch) + (k - Len(batch))
        BY <1>1, <2>2
      <4> QED
        BY <4>1
    <3>2. Pipe[Len(batch) + j] = bridge.events[j] /\ EventOK(bridge.events[j])
      BY <1>1, <3>1
    <3>3. Pipe[k] = bridge.events[j]
      BY <3>1, <3>2
    <3> QED
      BY <3>2, <3>3
  <2> QED
    BY <1>1, <2>1, <2>2
<1> QED
  BY <1>2

\* Before the headers nothing is in the pipe of an application that goes on.
LEMMA NothingBeforeHeaders ==
  ASSUME IInv, filter = "live", ~Over, ~closed, ~headersSent
  PROVE  wire = <<>> /\ Pipe = <<>> /\ produced = 0
<1>1. /\ Len(Pipe) \in Nat /\ DOMAIN Pipe = 1..Len(Pipe) /\ (Pipe = <<>> <=> Len(Pipe) = 0)
      /\ Len(wire) \in Nat /\ DOMAIN wire = 1..Len(wire) /\ (wire = <<>> <=> Len(wire) = 0)
      /\ \A k \in 1..Len(Pipe) : Pipe[k].more \in BOOLEAN
      /\ \A k \in 1..Len(Pipe) : Pipe[k] \in Events
  BY Zenon, PipeOK, Lengths DEF IInv
<1>2. wire = <<>>
  <2>1. ASSUME wire # <<>> PROVE FALSE
    <3>1. 1 \in DOMAIN wire
      BY <1>1, <2>1
    <3>2. wire[1] \in {<<"headers", starts>>, <<"data", 0>>, <<"end", 0>>, <<"error", 0>>}
      BY <3>1 DEF IInv, OnWire
    <3>3. wire[1][1] \in {"headers", "data", "end", "error"}
      BY <3>2
    <3> QED
      BY <3>1, <3>3 DEF IInv, OnWire
  <2> QED
    BY <2>1
<1>3. Pipe = <<>>
  <2>1. ASSUME Pipe # <<>> PROVE FALSE
    <3>1. 1 \in DOMAIN Pipe /\ Pipe[1].more /\ Pipe[1] \in Events
      BY <1>1, <2>1, AllMore
    <3>2. Pipe[1].start = 0
      BY <3>1 DEF IInv, InThePipe
    <3>3. Pipe[1].kind \in {"Exception", "Trailers"}
      BY <1>2, <3>1, <3>2 DEF IInv, InThePipe
    <3>4. EventOK(Pipe[1])
      BY <3>1, <1>1, PipeShapes DEF IInv
    <3> QED
      BY <3>1, <3>3, <3>4 DEF EventOK
  <2> QED
    BY <2>1
<1> QED
  BY <1>2, <1>3 DEF IInv, Stages

\* An event of the application in a response that goes on joins the pipe.
LEMMA SentLive ==
  ASSUME IInv, filter = "live", ~Over, NEW e \in Events, bridge' = Sent(bridge, e),
         UNCHANGED filterVars, starts' = starts, EventOK(e),
         e.more => e.chunk = produced + 1 /\ produced' = produced + 1,
         e.kind = "Exception" =>
           /\ Over' /\ ~e.more /\ produced' = produced /\ headersSent' = headersSent
           /\ closed' = closed,
         e.kind # "Exception" => ~closed /\ e.start = startEvent,
         e.kind # "Exception" /\ ~e.more =>
           /\ closed'
           /\ \/ e.chunk = 0 /\ produced' = produced
              \/ e.chunk = produced + 1 /\ produced' = produced + 1,
         e.kind # "Exception" => (headersSent' <=> startEvent # 0 \/ headersSent),
         e.kind \in {"Start", "Body"} => headersSent'
  PROVE  InThePipe' /\ Beginning'
<1> DEFINE n == Len(Pipe)
<1>1. /\ n \in Nat /\ Pipe \in Seq(Events) /\ DOMAIN Pipe = 1..n
      /\ Pipe = <<>> <=> n = 0
      /\ \A k \in 1..n : Pipe[k] \in Events /\ Pipe[k].more \in BOOLEAN
      /\ OnTheWire \in Nat /\ produced \in Nat
  BY Zenon, PipeOK, Lengths DEF IInv
<1>2. ~bridge.closed
  BY DEF IInv, Stages
<1>3. Pipe' = Append(Pipe, e)
  BY <1>2, SentFacts DEF IInv, filterVars
<1>4. /\ Len(Pipe') = n + 1 /\ DOMAIN Pipe' = 1..(n + 1)
      /\ \A k \in 1..n : Pipe'[k] = Pipe[k]
      /\ Pipe'[n + 1] = e
      /\ Pipe' # <<>>
  <2>1. /\ Append(Pipe, e) \in Seq(Events) /\ Len(Append(Pipe, e)) = n + 1
        /\ DOMAIN Append(Pipe, e) = 1..(n + 1)
        /\ \A k \in 1..n : Append(Pipe, e)[k] = Pipe[k]
        /\ Append(Pipe, e)[n + 1] = e
    BY <1>1, AppendFacts
  <2> HIDE DEF n
  <2>2. Append(Pipe, e) # <<>>
    BY <1>1, <2>1, EmptySeq
  <2> QED
    BY <1>3, <2>1, <2>2
<1>5. /\ OnTheWire' = OnTheWire /\ wire' = wire /\ filter' = filter
      /\ headersSent => headersSent'
      /\ closed => closed'
  <2>1. OnTheWire' = OnTheWire /\ wire' = wire /\ filter' = filter
    BY DEF OnTheWire, filterVars
  <2> QED
    BY <2>1
<1> HIDE DEF n
<1>6. ASSUME NEW k \in 1..n
      PROVE
      /\ Pipe[k].more => Pipe[k].chunk = OnTheWire + k
      /\ ~Pipe[k].more =>
           \/ Pipe[k].kind = "Exception" /\ k = n + 1 /\ Over'
           \/ /\ Pipe[k].kind # "Exception" /\ closed'
              /\ \/ Pipe[k].chunk = 0 /\ produced' = OnTheWire + k - 1
                 \/ Pipe[k].chunk = OnTheWire + k /\ produced' = OnTheWire + k
      /\ k > 1 => Pipe[k - 1].more \/ Pipe[k].kind = "Exception"
      /\ Pipe[k].start # 0 =>
           k = 1 /\ wire = <<>> /\ Pipe[k].start = starts /\ headersSent'
      /\ k = 1 /\ wire = <<>> /\ Pipe[k].start = 0 =>
           \/ Pipe[k].kind = "Exception"
           \/ Pipe[k].kind = "Trailers" /\ ~headersSent'
  <2>1. k \in DOMAIN Pipe
    BY <1>1
  <2>2. ASSUME ~Pipe[k].more
        PROVE  /\ Pipe[k].kind # "Exception" /\ closed /\ e.kind = "Exception"
               /\ \/ Pipe[k].chunk = 0 /\ produced = OnTheWire + k - 1
                  \/ Pipe[k].chunk = OnTheWire + k /\ produced = OnTheWire + k
    <3>1. /\ Pipe[k].kind # "Exception" /\ closed
          /\ \/ Pipe[k].chunk = 0 /\ produced = OnTheWire + k - 1
             \/ Pipe[k].chunk = OnTheWire + k /\ produced = OnTheWire + k
      BY <2>1, <2>2 DEF IInv, InThePipe
    <3> QED
      BY <3>1
  <2>3. ~Pipe[k].more => produced' = produced /\ headersSent' = headersSent /\ closed'
    BY <2>2
  <2>4. k > 1 => Pipe[k - 1].more \/ Pipe[k].kind = "Exception"
    BY <2>1 DEF IInv, InThePipe
  <2>5. Pipe[k].more => Pipe[k].chunk = OnTheWire + k
    BY <2>1 DEF IInv, InThePipe
  <2>6. Pipe[k].start # 0 =>
           k = 1 /\ wire = <<>> /\ Pipe[k].start = starts /\ headersSent'
    BY <1>5, <2>1 DEF IInv, InThePipe
  <2>7. ASSUME k = 1, wire = <<>>, Pipe[k].start = 0
        PROVE  \/ Pipe[k].kind = "Exception"
               \/ Pipe[k].kind = "Trailers" /\ ~headersSent'
    <3>1. CASE Pipe[k].kind = "Exception"
      BY <3>1
    <3>2. CASE Pipe[k].kind # "Exception"
      <4>1. Pipe[k].kind = "Trailers" /\ ~headersSent
        BY <2>1, <2>7, <3>2 DEF IInv, InThePipe
      <4>2. EventOK(Pipe[k])
        BY PipeShapes DEF IInv, n
      <4>3. ~Pipe[k].more
        BY <4>1, <4>2 DEF EventOK
      <4> QED
        BY <2>3, <4>1, <4>3
    <3> QED
      BY <3>1, <3>2
  <2> QED
    BY <2>2, <2>3, <2>4, <2>5, <2>6, <2>7
<1>7. /\ e.more => e.chunk = OnTheWire + n + 1
      /\ ~e.more =>
           \/ e.kind = "Exception" /\ Over'
           \/ /\ e.kind # "Exception" /\ closed'
              /\ \/ e.chunk = 0 /\ produced' = OnTheWire + n
                 \/ e.chunk = OnTheWire + n + 1 /\ produced' = OnTheWire + n + 1
      /\ e.more => produced' = OnTheWire + n + 1
      /\ n > 0 => Pipe[n].more \/ e.kind = "Exception"
  <2>1. CASE e.kind = "Exception"
    BY <2>1
  <2>2. CASE e.kind # "Exception"
    <3>1. ~closed
      BY <2>2
    <3>2. produced = OnTheWire + n /\ \A k \in 1..n : Pipe[k].more
      BY <3>1, AllMore DEF n
    <3>3. n > 0 => Pipe[n].more
      BY <1>1, <3>2
    <3> QED
      BY <1>1, <2>2, <3>2, <3>3
  <2> QED
    BY <2>1, <2>2
<1>8. /\ e.start # 0 => n = 0 /\ wire = <<>> /\ e.start = starts /\ headersSent'
      /\ n = 0 /\ wire = <<>> /\ e.start = 0 =>
           \/ e.kind = "Exception"
           \/ e.kind = "Trailers" /\ ~headersSent'
  <2>1. CASE e.kind = "Exception"
    BY <2>1 DEF EventOK
  <2>2. CASE e.kind # "Exception"
    <3>1. ~closed /\ e.start = startEvent
      BY <2>2
    <3>2. ASSUME e.start # 0
          PROVE  n = 0 /\ wire = <<>> /\ e.start = starts /\ headersSent'
      <4>1. ~headersSent /\ e.start = starts
        BY <3>1, <3>2 DEF IInv, Stages
      <4>2. wire = <<>> /\ Pipe = <<>>
        BY <3>1, <4>1, NothingBeforeHeaders
      <4> QED
        BY <1>1, <2>2, <3>1, <3>2, <4>1, <4>2
    <3>3. ASSUME n = 0, wire = <<>>, e.start = 0
          PROVE  e.kind = "Trailers" /\ ~headersSent'
      <4>1. ~headersSent
        BY <1>1, <3>3 DEF IInv, Beginning
      <4>2. ~headersSent'
        BY <2>2, <3>1, <3>3, <4>1
      <4>3. e.kind \in {"Start", "Body", "Trailers", "Exception"}
        BY DEF Events, Kinds
      <4> QED
        BY <2>2, <4>2, <4>3
    <3> QED
      BY <3>2, <3>3
  <2> QED
    BY <2>1, <2>2
<1>9. InThePipe'
  <2> SUFFICES ASSUME NEW k \in 1..(n + 1)
      PROVE
      /\ Pipe'[k].more => Pipe'[k].chunk = OnTheWire + k
      /\ ~Pipe'[k].more =>
           \/ Pipe'[k].kind = "Exception" /\ k = n + 1 /\ Over'
           \/ /\ Pipe'[k].kind # "Exception" /\ closed'
              /\ \/ Pipe'[k].chunk = 0 /\ produced' = OnTheWire + k - 1
                 \/ Pipe'[k].chunk = OnTheWire + k /\ produced' = OnTheWire + k
      /\ k > 1 => Pipe'[k - 1].more \/ Pipe'[k].kind = "Exception"
      /\ Pipe'[k].start # 0 =>
           k = 1 /\ wire = <<>> /\ Pipe'[k].start = starts /\ headersSent'
      /\ k = 1 /\ wire = <<>> /\ Pipe'[k].start = 0 =>
           \/ Pipe'[k].kind = "Exception"
           \/ Pipe'[k].kind = "Trailers" /\ ~headersSent'
    BY <1>4, <1>5 DEF InThePipe
  <2>1. CASE k \in 1..n
    <3>1. Pipe'[k] = Pipe[k] /\ (k > 1 => Pipe'[k - 1] = Pipe[k - 1])
      BY <1>1, <1>4, <2>1
    <3> QED
      BY <1>6, <2>1, <3>1
  <2>2. CASE k = n + 1
    <3>1. Pipe'[k] = e /\ (k > 1 => Pipe'[k - 1] = Pipe[n] /\ n > 0)
      BY <1>1, <1>4, <2>2
    <3>2. OnTheWire + n + 1 = OnTheWire + k /\ OnTheWire + n = OnTheWire + k - 1
      BY <1>1, <2>2
    <3>3. k = 1 <=> n = 0
      BY <1>1, <2>2
    <3>4. /\ e.more => e.chunk = OnTheWire + k
          /\ ~e.more =>
               \/ e.kind = "Exception" /\ k = n + 1 /\ Over'
               \/ /\ e.kind # "Exception" /\ closed'
                  /\ \/ e.chunk = 0 /\ produced' = OnTheWire + k - 1
                     \/ e.chunk = OnTheWire + k /\ produced' = OnTheWire + k
      BY <1>7, <2>2, <3>2
    <3>5. k > 1 => Pipe'[k - 1].more \/ e.kind = "Exception"
      BY <1>7, <3>1
    <3> QED
      BY <1>8, <3>1, <3>3, <3>4, <3>5
  <2> QED
    BY <1>1, <2>1, <2>2
<1>10. Beginning'
  <2>1. Pipe'[Len(Pipe')] = e /\ OnTheWire' + Len(Pipe') = OnTheWire + n + 1
    BY <1>1, <1>4, <1>5
  <2>2. e.more => produced' = OnTheWire' + Len(Pipe')
    BY <1>7, <2>1
  <2> QED
    BY <1>4, <2>1, <2>2 DEF Beginning
<1> QED
  BY <1>9, <1>10

LEMMA ShapesSent ==
  ASSUME TypeOK, Shapes, NEW e \in Events, EventOK(e), bridge' = Sent(bridge, e),
         batch' = batch
  PROVE  Shapes'
<1>1. CASE bridge.closed
  BY <1>1, SentFacts DEF Shapes
<1>2. CASE ~bridge.closed
  <2>1. bridge'.events = Append(bridge.events, e)
    BY <1>2, SentFacts
  <2>2. /\ DOMAIN bridge'.events = 1..(Len(bridge.events) + 1)
        /\ \A k \in 1..Len(bridge.events) : bridge'.events[k] = bridge.events[k]
        /\ bridge'.events[Len(bridge.events) + 1] = e
        /\ Len(bridge.events) \in Nat /\ DOMAIN bridge.events = 1..Len(bridge.events)
    BY <2>1, Lengths, AppendFacts
  <2>3. \A k \in DOMAIN bridge'.events : EventOK(bridge'.events[k])
    BY <2>2 DEF Shapes
  <2> QED
    BY <2>3 DEF Shapes
<1> QED
  BY <1>1, <1>2

\* The steps of the application that send no event.
LEMMA SilentStep ==
  ASSUME IInv, TypeOK', UNCHANGED <<filterVars, bridge, produced, usesWrite>>,
         headersSent' = headersSent, closed => closed', headersSent => starts' = starts,
         headersSent => startEvent' = startEvent, startEvent' \in {0, starts'},
         Over => Over',
         filter = "live" => written' + Waiting <= written + Waiting',
         pc' = "app" \/ (pc' = "commit" /\ after' = "app") =>
           pc = "app" \/ (pc = "commit" /\ after = "app") \/ usesWrite \/ filter # "live"
  PROVE  IInv'
<1>1. Pipe' = Pipe /\ OnTheWire' = OnTheWire
  BY DEF Pipe, OnTheWire, filterVars
<1>2. InThePipe' /\ Beginning'
  BY <1>1, PipeKept DEF IInv, filterVars
<1>3. OnWire'
  BY OnWireKept DEF IInv, filterVars
<1>4. Stages' /\ Shapes'
  BY DEF IInv, Stages, Shapes, filterVars
<1>5. HeldBack'
  <2>1. Waiting \in 0..1 /\ Waiting' \in 0..1
    BY DEF Waiting
  <2>2. written \in Nat /\ written' \in Nat /\ produced \in Nat /\ OnTheWire \in Nat
    BY Lengths DEF IInv, TypeOK
  <2>3. SUFFICES ASSUME filter = "live", ~usesWrite
        PROVE  /\ pc' = "app" \/ (pc' = "commit" /\ after' = "app") => produced = 0
               /\ \/ produced + written' <= OnTheWire + Waiting' + (IF acknowledged THEN 1 ELSE 0)
                  \/ Over' /\ produced <= 1
    BY <1>1 DEF HeldBack, filterVars
  <2>4. \/ produced + written <= OnTheWire + Waiting + (IF acknowledged THEN 1 ELSE 0)
        \/ Over /\ produced <= 1
    BY <2>3 DEF IInv, HeldBack
  <2>5. pc' = "app" \/ (pc' = "commit" /\ after' = "app") => produced = 0
    BY <2>3 DEF IInv, HeldBack
  <2> DEFINE a == IF acknowledged THEN 1 ELSE 0
  <2>6. a \in Nat
    OBVIOUS
  <2>7. \/ produced + written <= OnTheWire + Waiting + a
        \/ Over /\ produced <= 1
    BY <2>4
  <2>8. \/ produced + written' <= OnTheWire + Waiting' + a
        \/ Over' /\ produced <= 1
    <3> HIDE DEF a
    <3>1. CASE produced + written <= OnTheWire + Waiting + a
      <4>1. written' + Waiting <= written + Waiting'
        BY <2>3
      <4>2. produced + written' <= OnTheWire + Waiting' + a
        <5>1. \A i, j, k, l, m, n, o \in Nat :
                i + k <= l + m + n /\ j + m <= k + o => i + j <= l + o + n
          OBVIOUS
        <5>2. Waiting \in Nat /\ Waiting' \in Nat
          BY <2>1
        <5> QED
          BY <2>2, <2>6, <3>1, <4>1, <5>1, <5>2
      <4> QED
        BY <4>2
    <3>2. CASE Over /\ produced <= 1
      BY <3>2
    <3> QED
      BY <2>7, <3>1, <3>2
  <2> QED
    BY <2>5, <2>8
<1> QED
  BY <1>2, <1>3, <1>4, <1>5 DEF IInv

LEMMA KeptWaiting ==
  ASSUME written \in Nat, written' = written, Waiting = 0, Waiting' \in Nat
  PROVE  written' + Waiting <= written + Waiting'
<1>1. \A i, j \in Nat : i + 0 <= i + j
  OBVIOUS
<1> QED
  BY <1>1

\* What sending a part of the body leaves.
LEMMA SendBodyStep ==
  ASSUME IInv, TypeOK', NEW hasChunk \in BOOLEAN, NEW more \in BOOLEAN,
         NEW next \in {"app", "iter", "recv", "done"},
         NEW failed \in {"app", "iter", "raise"},
         hasChunk => produced < MaxChunks, more => hasChunk,
         SendBody(hasChunk, more, next, failed), pc \in {"app", "iter"},
         UNCHANGED <<starts, usesWrite, commits, written, filterVars>>,
         ~more => next = "done",
         \/ usesWrite
         \/ next = "recv" /\ pc = "iter" /\ failed = "raise"
         \/ next = "done" /\ failed = "raise" /\ (pc = "app" \/ ~hasChunk)
  PROVE  IInv'
<1>0. ~Over /\ Waiting = 0 /\ written \in Nat /\ Waiting' \in Nat /\ written' = written
  BY Lengths DEF IInv, Over, Waiting
<1>1. CASE BodyIgnored(next)
  <2>1. startEvent \in {0, starts}
    BY DEF IInv, Stages
  <2>2. pc' = next /\ UNCHANGED <<startEvent, headersSent, closed, after, produced, bridge>>
    BY <1>1 DEF BodyIgnored
  <2>3. written' + Waiting <= written + Waiting'
    BY <1>0, KeptWaiting
  <2>4. pc' = "app" \/ (pc' = "commit" /\ after' = "app") => usesWrite
    BY <2>2
  <2> QED
    BY <1>0, <2>1, <2>2, <2>3, <2>4, SilentStep
<1>2. CASE BodyRefused(more, failed)
  <2>1. /\ ~closed /\ ~headersSent /\ pc' = failed
        /\ startEvent' = 0 /\ headersSent' = headersSent
        /\ UNCHANGED <<after, produced, bridge>>
    BY <1>2 DEF BodyRefused, IInv, TypeOK
  <2>3. written' + Waiting <= written + Waiting'
    BY <1>0, KeptWaiting
  <2>4. pc' = "app" \/ (pc' = "commit" /\ after' = "app") => usesWrite
    BY <2>1
  <2> QED
    BY <1>0, <2>1, <2>3, <2>4, SilentStep
<1>3. ASSUME NEW e \in Events, BodySent(e, hasChunk, more, next) PROVE IInv'
  <2>1. /\ ~closed /\ closed' = ~more /\ headersSent' = TRUE /\ startEvent' = 0
        /\ e.kind \in {"Start", "Body"} /\ e.start = startEvent /\ e.more = more
        /\ hasChunk => e.chunk = produced + 1 /\ produced' = produced + 1
        /\ ~hasChunk => e.chunk = 0 /\ produced' = produced
        /\ bridge' = Sent(bridge, e) /\ after' = next
        /\ pc' = IF bridge.closed THEN next ELSE "commit"
        /\ startEvent # 0 \/ headersSent
    BY <1>3 DEF BodySent
  <2>2. EventOK(e)
    BY <2>1 DEF EventOK
  <2>3. Shapes' /\ bridge'.closed = bridge.closed
    BY <2>1, <2>2, ShapesSent, SentFacts DEF IInv, filterVars
  <2>4. Stages'
    <3>1. filter' = filter /\ batch' = batch /\ acknowledged' = acknowledged
          /\ responseClosed' = responseClosed
      BY DEF filterVars
    <3> QED
      BY <2>1, <2>3, <3>1 DEF IInv, Stages
  <2>5. OnWire'
    BY <2>1, OnWireKept DEF IInv, filterVars
  <2>6. InThePipe' /\ Beginning'
    <3>1. CASE filter = "live"
      <4>1. e.kind # "Exception" /\ (headersSent' <=> startEvent # 0 \/ headersSent)
        BY <2>1
      <4>2. e.more => e.chunk = produced + 1 /\ produced' = produced + 1
        BY <2>1
      <4>3. ~e.more => /\ closed'
                       /\ \/ e.chunk = 0 /\ produced' = produced
                          \/ e.chunk = produced + 1 /\ produced' = produced + 1
        BY <2>1
      <4> QED
        BY <1>0, <2>1, <2>2, <3>1, <4>1, <4>2, <4>3, SentLive
    <3>2. CASE filter # "live"
      BY <3>2 DEF InThePipe, Beginning, filterVars
    <3> QED
      BY <3>1, <3>2
  <2>7. HeldBack'
    <3> SUFFICES ASSUME filter = "live", ~usesWrite
        PROVE  /\ pc' = "app" \/ (pc' = "commit" /\ after' = "app") => produced' = 0
               /\ \/ produced' + written <= OnTheWire + Waiting' + (IF acknowledged THEN 1 ELSE 0)
                  \/ Over' /\ produced' <= 1
      <4>1. OnTheWire' = OnTheWire
        BY DEF OnTheWire, filterVars
      <4> QED
        BY <4>1 DEF HeldBack, filterVars
    <3>1. /\ produced + written <= OnTheWire + (IF acknowledged THEN 1 ELSE 0)
          /\ pc = "app" => produced = 0
      <4>1. \/ produced + written <= OnTheWire + Waiting + (IF acknowledged THEN 1 ELSE 0)
            \/ Over /\ produced <= 1
        BY DEF IInv, HeldBack
      <4>2. OnTheWire \in Nat
        BY Lengths DEF IInv
      <4>3. pc = "app" => produced = 0
        BY DEF IInv, HeldBack
      <4> QED
        BY <1>0, <4>1, <4>2, <4>3
    <3>2. produced \in Nat /\ OnTheWire \in Nat
      BY Lengths DEF IInv
    <3>3. ~bridge.closed
      BY DEF IInv, Stages
    <3>4. pc' = "commit" /\ after' = next /\ next # "app"
      BY <2>1, <3>3
    <3>5. CASE next = "recv"
      <4>1. Waiting' = 1 /\ produced' <= produced + 1
        BY <2>1, <3>2, <3>4, <3>5 DEF Waiting
      <4>2. produced' \in Nat
        BY <2>1, <3>2
      <4> DEFINE a == IF acknowledged THEN 1 ELSE 0
      <4>3. a \in Nat /\ produced + written <= OnTheWire + a
        BY <3>1
      <4>4. produced' + written <= OnTheWire + Waiting' + a
        <5> HIDE DEF a
        <5>1. \A i, j, k, l, m \in Nat :
                j + k <= l + m /\ i <= j + 1 => i + k <= l + 1 + m
          OBVIOUS
        <5> QED
          BY <1>0, <3>2, <4>1, <4>2, <4>3, <5>1
      <4> QED
        BY <3>4, <3>5, <4>4
    <3>6. CASE next = "done"
      <4>1. Over' /\ Waiting' = 0
        BY <3>4, <3>6 DEF Over, Waiting
      <4>2. CASE pc = "app"
        BY <2>1, <3>1, <3>4, <4>1, <4>2
      <4>3. CASE ~hasChunk
        BY <1>0, <2>1, <3>1, <3>2, <3>4, <4>1, <4>3
      <4> QED
        BY <3>6, <4>2, <4>3
    <3> QED
      BY <3>5, <3>6
  <2> QED
    BY <2>3, <2>4, <2>5, <2>6, <2>7 DEF IInv
<1>4. TypeOK
  BY DEF IInv
<1> QED
  BY <1>1, <1>2, <1>3, <1>4, SendBodyFacts

\* What sending the trailers or an exception leaves.
LEMMA SendOtherStep ==
  ASSUME IInv, TypeOK', NEW e \in Events, NEW next \in {"app", "iter", "done"},
         ~e.more, e.chunk = 0, pc \in {"app", "iter", "raise"}, SendToFilter(e, next),
         UNCHANGED <<starts, produced, usesWrite, commits, written, filterVars>>,
         \/ e.kind = "Exception" /\ e.start = 0 /\ next = "done" /\ UNCHANGED senderVars
         \/ /\ e.kind = "Trailers" /\ e.start = startEvent /\ next = pc
            /\ ~closed /\ closed' /\ startEvent' = 0
            /\ headersSent' \in BOOLEAN /\ (headersSent' <=> startEvent # 0 \/ headersSent)
  PROVE  IInv'
<1>0. ~Over /\ Waiting = 0 /\ written \in Nat /\ produced \in Nat /\ written' = written
      /\ Waiting' \in Nat /\ produced' = produced /\ starts' = starts
  BY Lengths DEF IInv, Over, Waiting
<1>1. EventOK(e)
  BY DEF EventOK
<1>2. /\ bridge' = Sent(bridge, e) /\ after' = next
      /\ pc' = IF bridge.closed THEN next ELSE "commit"
  BY DEF SendToFilter
<1>3. Shapes' /\ bridge'.closed = bridge.closed
  BY <1>1, <1>2, ShapesSent, SentFacts DEF IInv, filterVars
<1>4. /\ headersSent => headersSent' /\ startEvent' = startEvent
      /\ closed => closed' /\ (headersSent' => headersSent)
      /\ ~headersSent' => ~headersSent
      /\ startEvent' \in {0, startEvent}
      /\ headersSent' => startEvent' = 0
  BY DEF IInv, Stages, senderVars
<1>5. Stages'
  <2>1. filter' = filter /\ batch' = batch /\ acknowledged' = acknowledged
        /\ responseClosed' = responseClosed
    BY DEF filterVars
  <2>2. ~headersSent' => produced = 0
    BY <1>4 DEF IInv, Stages
  <2>3. startEvent' \in {0, starts}
    BY <1>4 DEF IInv, Stages
  <2> QED
    BY <1>0, <1>3, <1>4, <2>1, <2>2, <2>3 DEF IInv, Stages
<1>6. OnWire'
  BY <1>0, <1>4, OnWireKept DEF IInv, filterVars
<1>7. InThePipe' /\ Beginning'
  <2>1. CASE filter = "live"
    <3>1. ~bridge.closed
      BY <2>1 DEF IInv, Stages
    <3>2. e.kind = "Exception" =>
           /\ Over' /\ ~e.more /\ produced' = produced /\ headersSent' = headersSent
           /\ closed' = closed
      BY <1>0, <1>2, <3>1 DEF Over, senderVars
    <3> QED
      BY <1>0, <1>1, <1>2, <2>1, <3>2, SentLive
  <2>2. CASE filter # "live"
    BY <2>2 DEF InThePipe, Beginning, filterVars
  <2> QED
    BY <2>1, <2>2
<1>8. HeldBack'
  <2> SUFFICES ASSUME filter = "live", ~usesWrite
      PROVE  /\ pc' = "app" \/ (pc' = "commit" /\ after' = "app") => produced = 0
             /\ \/ produced + written <= OnTheWire + Waiting' + (IF acknowledged THEN 1 ELSE 0)
                \/ Over' /\ produced <= 1
    <3>1. OnTheWire' = OnTheWire
      BY DEF OnTheWire, filterVars
    <3> QED
      BY <1>0, <3>1 DEF HeldBack, filterVars
  <2>1. Waiting' = Waiting
    BY <1>0, <1>2 DEF Waiting
  <2>2. produced + written <= OnTheWire + Waiting + (IF acknowledged THEN 1 ELSE 0)
    BY <1>0 DEF IInv, HeldBack
  <2>3. pc' = "app" \/ (pc' = "commit" /\ after' = "app") => pc = "app"
    BY <1>2
  <2>4. pc = "app" => produced = 0
    BY DEF IInv, HeldBack
  <2> QED
    BY <2>1, <2>2, <2>3, <2>4
<1> QED
  BY <1>3, <1>5, <1>6, <1>7, <1>8 DEF IInv

LEMMA AppStepIInv == ASSUME IInv, AppStep \/ Commit \/ Written PROVE IInv'
<1>0. TypeOK'
  BY AppStepType DEF IInv
<1>1. ASSUME NEW excInfo \in BOOLEAN, StartResponse(excInfo) PROVE IInv'
  <2>1. /\ UNCHANGED <<filterVars, bridge, produced, usesWrite>> /\ ~headersSent
        /\ headersSent' = headersSent /\ closed' = closed /\ startEvent' = starts'
        /\ pc' = pc /\ after' = after /\ written' = written
    BY <1>1 DEF StartResponse
  <2>2. Waiting' = Waiting /\ Waiting \in Nat /\ written \in Nat /\ (Over => Over')
    BY <2>1, Lengths DEF Waiting, Over, IInv
  <2>3. \A i, j \in Nat : i + j <= i + j
    OBVIOUS
  <2>4. written' + Waiting <= written + Waiting'
    BY <2>1, <2>2, <2>3
  <2> QED
    BY <1>0, <2>1, <2>2, <2>4, SilentStep
<1>2. CASE Write
  <2>1. SendBody(TRUE, TRUE, pc, pc) /\ pc \in {"app", "iter"} /\ usesWrite
        /\ produced < MaxChunks
        /\ UNCHANGED <<starts, usesWrite, commits, written, filterVars>>
    BY <1>2 DEF Write
  <2> QED
    BY <1>0, <2>1, SendBodyStep
<1>3. CASE SendTrailers
  <2> DEFINE e == Event("Trailers", startEvent, 0, FALSE)
  <2>1. e \in Events /\ e.kind = "Trailers" /\ e.start = startEvent /\ e.chunk = 0
        /\ ~e.more
    BY BoundsAssumption DEF Event, Events, Kinds, IInv, TypeOK
  <2>2. /\ pc \in {"app", "iter"} /\ SendToFilter(e, pc) /\ ~closed /\ closed' = TRUE
        /\ startEvent' = 0 /\ headersSent' = Started
        /\ UNCHANGED <<starts, produced, usesWrite, commits, written, filterVars>>
    BY <1>3 DEF SendTrailers
  <2>3. headersSent' \in BOOLEAN /\ (headersSent' <=> startEvent # 0 \/ headersSent)
    BY <2>2 DEF Started, IInv, TypeOK
  <2> HIDE DEF e
  <2> QED
    BY <1>0, <2>1, <2>2, <2>3, SendOtherStep
<1>4. CASE ReturnList
  <2>1. PICK hasChunk \in BOOLEAN :
          /\ hasChunk => produced < MaxChunks
          /\ SendBody(hasChunk, FALSE, "done", "raise")
    BY <1>4 DEF ReturnList
  <2>2. /\ pc = "app" /\ UNCHANGED <<starts, usesWrite, commits, written, filterVars>>
    BY <1>4 DEF ReturnList
  <2> QED
    BY <1>0, <2>1, <2>2, SendBodyStep
<1>5. CASE ReturnIterator
  <2>1. /\ UNCHANGED <<filterVars, bridge, produced, usesWrite>>
        /\ headersSent' = headersSent /\ closed' = closed /\ startEvent' = startEvent
        /\ pc = "app" /\ pc' = "iter" /\ written' = written /\ starts' = starts
    BY <1>5 DEF ReturnIterator, senderVars
  <2>2. Waiting = 0 /\ Waiting' \in Nat /\ written \in Nat /\ ~Over
    BY <2>1, Lengths DEF Waiting, Over, IInv
  <2>3. startEvent \in {0, starts}
    BY DEF IInv, Stages
  <2> QED
    BY <1>0, <2>1, <2>2, <2>3, KeptWaiting, SilentStep
<1>6. CASE Yield
  <2>1. /\ SendBody(TRUE, TRUE, "recv", "raise") /\ pc = "iter"
        /\ produced < MaxChunks
        /\ UNCHANGED <<starts, usesWrite, commits, written, filterVars>>
    BY <1>6 DEF Yield
  <2> QED
    BY <1>0, <2>1, SendBodyStep
<1>7. CASE Exhausted
  <2>1. /\ SendBody(FALSE, FALSE, "done", "raise") /\ pc = "iter"
        /\ UNCHANGED <<starts, usesWrite, commits, written, filterVars>>
    BY <1>7 DEF Exhausted
  <2> QED
    BY <1>0, <2>1, SendBodyStep
<1>8. CASE Raise
  <2> DEFINE e == Event("Exception", 0, 0, FALSE)
  <2>1. e \in Events /\ e.kind = "Exception" /\ e.start = 0 /\ e.chunk = 0 /\ ~e.more
    BY BoundsAssumption DEF Event, Events, Kinds
  <2>2. /\ pc \in {"app", "iter", "raise"} /\ SendToFilter(e, "done")
        /\ UNCHANGED senderVars
        /\ UNCHANGED <<starts, produced, usesWrite, commits, written, filterVars>>
    BY <1>8 DEF Raise, senderVars
  <2> HIDE DEF e
  <2> QED
    BY <1>0, <2>1, <2>2, SendOtherStep
<1>9. CASE Commit
  <2>1. /\ UNCHANGED <<filterVars, bridge, produced, usesWrite>>
        /\ headersSent' = headersSent /\ closed' = closed /\ startEvent' = startEvent
        /\ pc = "commit" /\ pc' = after /\ written' = written /\ starts' = starts
        /\ after' = after
    BY <1>9 DEF Commit, senderVars
  <2>2. Waiting' = Waiting /\ Waiting \in Nat /\ written \in Nat /\ (Over => Over')
    BY <2>1, Lengths DEF Waiting, Over, IInv, TypeOK
  <2>3. \A i, j \in Nat : i + j <= i + j
    OBVIOUS
  <2>4. written' + Waiting <= written + Waiting'
    BY <2>1, <2>2, <2>3
  <2>5. startEvent \in {0, starts} /\ after # "commit"
    BY DEF IInv, Stages, TypeOK
  <2> QED
    BY <1>0, <2>1, <2>2, <2>4, <2>5, SilentStep
<1>10. CASE Written
  <2>1. /\ UNCHANGED <<filterVars, bridge, produced, usesWrite>>
        /\ headersSent' = headersSent /\ closed' = closed /\ startEvent' = startEvent
        /\ pc = "recv" /\ pc' = "iter" /\ starts' = starts
        /\ written > 0 \/ filter = "dropped"
        /\ written' = IF written > 0 THEN written - 1 ELSE 0
    BY <1>10 DEF Written, senderVars
  <2>2. Waiting = 1 /\ Waiting' = 0 /\ written \in Nat /\ ~Over
    BY <2>1, Lengths DEF Waiting, Over, IInv
  <2>3. filter = "live" => written' = written - 1
    BY <2>1
  <2>4. \A i \in Nat : i - 1 + 1 <= i + 0
    OBVIOUS
  <2>5. filter = "live" => written' + Waiting <= written + Waiting'
    BY <2>2, <2>3, <2>4
  <2>6. startEvent \in {0, starts}
    BY DEF IInv, Stages
  <2> QED
    BY <1>0, <2>1, <2>2, <2>5, <2>6, SilentStep
<1> QED
  BY <1>1, <1>2, <1>3, <1>4, <1>5, <1>6, <1>7, <1>8, <1>9, <1>10 DEF AppStep

-----------------------------------------------------------------------------
(* The filter's steps.                                                     *)

\* A wire that holds the headers and n chunks, or nothing yet.
Holds(w, n) ==
  /\ w \in Seq(Frame)
  /\ w = <<>> => n = 0
  /\ w # <<>> =>
       /\ Len(w) = n + 1
       /\ w[1] = <<"headers", starts>>
       /\ \A k \in 2..(n + 1) : w[k] = <<"data", k - 1>>

\* A response that goes on is the headers and the chunks after them.
LEMMA LiveWire ==
  ASSUME IInv, filter = "live"
  PROVE  Holds(wire, OnTheWire) /\ (wire # <<>> => headersSent)
<1>1. /\ Len(wire) \in Nat /\ DOMAIN wire = 1..Len(wire) /\ (wire = <<>> <=> Len(wire) = 0)
      /\ wire \in Seq(Frame)
  BY Lengths DEF IInv
<1>2. ASSUME NEW k \in DOMAIN wire
      PROVE  wire[k] = IF k = 1 THEN <<"headers", starts>> ELSE <<"data", k - 1>>
  <2>1. /\ wire[k] \in {<<"headers", starts>>, <<"data", k - 1>>, <<"end", 0>>, <<"error", 0>>}
        /\ wire[k][1] = "headers" => k = 1
        /\ wire[k][1] = "data" => k # 1
        /\ ~(wire[k][1] \in {"end", "error"})
    BY <1>2 DEF IInv, OnWire
  <2> QED
    BY <2>1
<1>3. wire # <<>> => headersSent
  <2>1. ASSUME wire # <<>> PROVE headersSent
    <3>1. 1 \in DOMAIN wire
      BY <1>1, <2>1
    <3>2. wire[1][1] = "headers"
      BY <1>2, <3>1
    <3> QED
      BY <3>1, <3>2 DEF IInv, OnWire
  <2> QED
    BY <2>1
<1>4. CASE wire = <<>>
  BY <1>1, <1>3, <1>4 DEF Holds, OnTheWire
<1>5. CASE wire # <<>>
  <2>1. OnTheWire = Len(wire) - 1 /\ Len(wire) >= 1
    BY <1>1, <1>5 DEF OnTheWire
  <2>2. \A k \in 2..Len(wire) : wire[k] = <<"data", k - 1>>
    BY <1>1, <1>2
  <2>3. wire[1] = <<"headers", starts>>
    BY <1>1, <1>2, <2>1
  <2>4. OnTheWire + 1 = Len(wire)
    BY <1>1, <2>1
  <2> QED
    BY <1>1, <1>3, <1>5, <2>2, <2>3, <2>4 DEF Holds
<1> QED
  BY <1>4, <1>5

\* One more chunk.
LEMMA HoldsOneMore ==
  ASSUME NEW w, NEW n \in Nat, Holds(w, n), w # <<>>, n + 1 <= MaxChunks
  PROVE  Holds(Append(w, <<"data", n + 1>>), n + 1) /\ Append(w, <<"data", n + 1>>) # <<>>
<1> DEFINE d == <<"data", n + 1>>
           v == Append(w, d)
<1>1. d \in Frame
  BY BoundsAssumption DEF Frame
<1>2. w \in Seq(Frame) /\ Len(w) = n + 1 /\ w[1] = <<"headers", starts>>
      /\ \A k \in 2..(n + 1) : w[k] = <<"data", k - 1>>
  BY DEF Holds
<1> HIDE DEF d
<1>3. /\ v \in Seq(Frame) /\ Len(v) = n + 2 /\ v[n + 2] = d
      /\ \A k \in 1..(n + 1) : v[k] = w[k]
  <2>1. /\ v \in Seq(Frame) /\ Len(v) = Len(w) + 1 /\ v[Len(w) + 1] = d
        /\ \A k \in 1..Len(w) : v[k] = w[k]
    BY <1>1, <1>2, AppendFacts
  <2>2. Len(w) + 1 = n + 2
    BY <1>2
  <2> QED
    BY <1>2, <2>1, <2>2
<1>4. v # <<>>
  BY <1>3, EmptySeq
<1>5. ASSUME NEW k \in 2..(n + 2) PROVE v[k] = <<"data", k - 1>>
  <2>1. CASE k = n + 2
    BY <1>3, <2>1 DEF d
  <2>2. CASE k # n + 2
    <3>1. k \in 1..(n + 1) /\ k \in 2..(n + 1)
      BY <2>2
    <3> QED
      BY <1>2, <1>3, <3>1
  <2> QED
    BY <2>1, <2>2
<1>6. v[1] = <<"headers", starts>> /\ Len(v) = (n + 1) + 1 /\ 2..(n + 2) = 2..((n + 1) + 1)
  BY <1>2, <1>3
<1> HIDE DEF v
<1>7. Holds(v, n + 1)
  BY <1>3, <1>4, <1>5, <1>6 DEF Holds
<1> QED
  BY <1>4, <1>7 DEF v, d

\* What an event adds to the wire, one frame at a time.
WithHeaders(w, e) == IF e.start # 0 THEN <<<<"headers", e.start>>>> ELSE w
WithData(w, e) == IF e.chunk # 0 THEN Append(w, <<"data", e.chunk>>) ELSE w

LEMMA FramesAdd ==
  ASSUME NEW w \in Seq(Frame), NEW e \in Events, EventOK(e), e.start # 0 => w = <<>>
  PROVE  w \o Frames(e) =
           IF e.kind = "Exception" THEN Append(w, <<"error", 0>>)
           ELSE IF e.more THEN WithData(WithHeaders(w, e), e)
           ELSE Append(WithData(WithHeaders(w, e), e), <<"end", 0>>)
<1>1. e.start \in 0..MaxStarts /\ e.chunk \in 0..MaxChunks /\ e.more \in BOOLEAN
  BY DEF Events
<1> DEFINE h == <<"headers", e.start>>
           d == <<"data", e.chunk>>
           z == <<"end", 0>>
           x == <<"error", 0>>
<1>2. h \in Frame /\ d \in Frame /\ z \in Frame /\ x \in Frame
  BY <1>1, BoundsAssumption DEF Frame
<1>3. Frames(e) = LET headers == IF e.start # 0 THEN <<h>> ELSE <<>>
                      data    == IF e.chunk # 0 THEN <<d>> ELSE <<>>
                  IN  CASE e.kind = "Trailers"  -> headers \o <<z>>
                        [] e.kind = "Exception" -> <<x>>
                        [] OTHER -> headers \o data \o (IF e.more THEN <<>> ELSE <<z>>)
  BY DEF Frames
<1>4. /\ WithHeaders(w, e) = IF e.start # 0 THEN <<h>> ELSE w
      /\ \A v : WithData(v, e) = IF e.chunk # 0 THEN Append(v, d) ELSE v
  BY DEF WithHeaders, WithData
<1> HIDE DEF h, d, z, x
<1>5. e.kind = "Trailers" => ~e.more /\ e.chunk = 0
  BY DEF EventOK
<1>6. CASE e.kind = "Exception"
  <2>1. Frames(e) = <<x>>
    BY <1>3, <1>6
  <2>2. w \o <<x>> = Append(w, x)
    BY <1>2
  <2> QED
    BY <1>6, <2>1, <2>2 DEF x
<1>7. CASE e.kind # "Exception"
  <2> DEFINE H == IF e.start # 0 THEN <<h>> ELSE <<>>
             D == IF e.chunk # 0 THEN <<d>> ELSE <<>>
             Z == IF e.more THEN <<>> ELSE <<z>>
             v == WithHeaders(w, e)
             u == WithData(v, e)
  <2>1. H \in Seq(Frame) /\ D \in Seq(Frame) /\ Z \in Seq(Frame) /\ v \in Seq(Frame)
    BY <1>2, <1>4
  <2>2. /\ \A s \in Seq(Frame) : s \o <<>> = s /\ <<>> \o s = s
        /\ \A s \in Seq(Frame), f \in Frame : s \o <<f>> = Append(s, f)
    OBVIOUS
  <2>3. \A s, t, r, q \in Seq(Frame) : s \o (t \o r \o q) = ((s \o t) \o r) \o q
    BY SMTT(60)
  <2>4. w \o H = v
    <3>1. CASE e.start # 0
      BY <1>2, <1>4, <2>1, <2>2, <3>1
    <3>2. CASE e.start = 0
      BY <1>4, <2>2, <3>2
    <3> QED
      BY <3>1, <3>2
  <2>5. v \o D = u /\ u \in Seq(Frame)
    <3> HIDE DEF v
    <3>1. u = IF e.chunk # 0 THEN Append(v, d) ELSE v
      BY <1>4
    <3> HIDE DEF u
    <3>2. CASE e.chunk # 0
      BY <1>2, <2>1, <2>2, <3>1, <3>2
    <3>3. CASE e.chunk = 0
      BY <2>1, <2>2, <3>1, <3>3
    <3> QED
      BY <3>2, <3>3
  <2>6. Frames(e) = H \o D \o Z
    <3>1. CASE e.kind = "Trailers"
      <4>1. Frames(e) = H \o <<z>> /\ D = <<>> /\ Z = <<z>>
        BY <1>3, <1>5, <3>1
      <4> HIDE DEF H, D, Z
      <4> QED
        BY <2>1, <2>2, <4>1
    <3>2. CASE e.kind # "Trailers"
      BY <1>3, <1>7, <3>2
    <3> QED
      BY <3>1, <3>2
  <2> HIDE DEF H, D, v, u
  <2>7. w \o Frames(e) = u \o Z
    <3> HIDE DEF Z
    <3>1. w \o (H \o D \o Z) = ((w \o H) \o D) \o Z
      <4>1. w \in Seq(Frame) /\ H \in Seq(Frame) /\ D \in Seq(Frame) /\ Z \in Seq(Frame)
        BY <2>1
      <4> QED
        BY ONLY SMTT(60), <4>1
    <3>2. w \o Frames(e) = w \o (H \o D \o Z)
      BY <2>6
    <3>3. ((w \o H) \o D) \o Z = u \o Z
      BY <2>4, <2>5
    <3> QED
      BY <3>1, <3>2, <3>3
  <2>8. u \o Z = IF e.more THEN u ELSE Append(u, z)
    BY <1>2, <2>2, <2>5
  <2> QED
    BY <1>7, <2>7, <2>8 DEF z, u, v
<1> QED
  BY <1>6, <1>7

\* What the first event of a response that goes on puts on its wire.
LEMMA FirstEvent ==
  ASSUME IInv, filter = "live", batch # <<>>
  PROVE  LET e == batch[1]
             w == WithData(WithHeaders(wire, e), e)
             n == OnTheWire + (IF e.chunk = 0 THEN 0 ELSE 1)
         IN  /\ e \in Events /\ EventOK(e) /\ e = Pipe[1] /\ 1 \in 1..Len(Pipe)
             /\ e.start # 0 => wire = <<>>
             /\ e.kind # "Exception" =>
                  /\ Holds(w, n)
                  /\ w # <<>> => headersSent
                  /\ w = <<>> => ~headersSent
                  /\ e.more => w # <<>> /\ e.chunk # 0
                  /\ ~e.more => closed /\ produced = n
<1> DEFINE e == batch[1]
           v == WithHeaders(wire, e)
           w == WithData(v, e)
           n == OnTheWire + (IF e.chunk = 0 THEN 0 ELSE 1)
<1>1. 1 \in 1..Len(batch) /\ 1 \in 1..Len(Pipe) /\ e = Pipe[1] /\ e \in Events
  <2>1. Len(batch) \in Nat /\ Len(batch) # 0 /\ Len(bridge.events) \in Nat
    BY Lengths DEF IInv
  <2>2. 1 \in 1..Len(batch)
    BY <2>1
  <2>3. Len(Pipe) = Len(batch) + Len(bridge.events)
    BY Zenon, PipeOK DEF IInv
  <2>4. 1 \in 1..Len(Pipe)
    BY <2>1, <2>2, <2>3
  <2>5. batch[1] \in Events
    BY <2>2, Lengths DEF IInv
  <2>6. Pipe[1] = batch[1]
    BY ZenonT(60), <2>2, PipeOK DEF IInv
  <2> QED
    BY <2>2, <2>4, <2>5, <2>6
<1>2. EventOK(e) /\ 1 \in DOMAIN Pipe
  BY Zenon, <1>1, PipeShapes, PipeOK DEF IInv
<1>3. e.start \in 0..MaxStarts /\ e.chunk \in 0..MaxChunks /\ e.more \in BOOLEAN
  BY <1>1 DEF Events
<1>4. Holds(wire, OnTheWire) /\ (wire # <<>> => headersSent) /\ OnTheWire \in Nat
  BY LiveWire, Lengths DEF IInv
<1> HIDE DEF e
<1>5. /\ e.more => e.chunk = OnTheWire + 1
      /\ ~e.more => \/ e.kind = "Exception"
                    \/ /\ closed
                       /\ \/ e.chunk = 0 /\ produced = OnTheWire + 1 - 1
                          \/ e.chunk = OnTheWire + 1 /\ produced = OnTheWire + 1
      /\ e.start # 0 => wire = <<>> /\ e.start = starts /\ headersSent
      /\ wire = <<>> /\ e.start = 0 => \/ e.kind = "Exception"
                                       \/ e.kind = "Trailers" /\ ~headersSent
  <2>1. InThePipe /\ 1 \in DOMAIN Pipe /\ Pipe[1] = e
    BY <1>1, <1>2 DEF IInv
  <2>2. e.more => e.chunk = OnTheWire + 1
    BY <2>1 DEF InThePipe
  <2>3. ~e.more => \/ e.kind = "Exception"
                   \/ /\ closed
                      /\ \/ e.chunk = 0 /\ produced = OnTheWire + 1 - 1
                         \/ e.chunk = OnTheWire + 1 /\ produced = OnTheWire + 1
    BY <2>1 DEF InThePipe
  <2>4. e.start # 0 => wire = <<>> /\ e.start = starts /\ headersSent
    BY <2>1 DEF InThePipe
  <2>5. wire = <<>> /\ e.start = 0 => \/ e.kind = "Exception"
                                      \/ e.kind = "Trailers" /\ ~headersSent
    BY <2>1 DEF InThePipe
  <2> QED
    BY <2>2, <2>3, <2>4, <2>5
<1>6. e.start # 0 => wire = <<>>
  BY <1>5
<1>7. ASSUME e.kind # "Exception"
      PROVE  /\ Holds(w, n)
             /\ w # <<>> => headersSent
             /\ w = <<>> => ~headersSent
             /\ e.more => w # <<>> /\ e.chunk # 0
             /\ ~e.more => closed /\ produced = n
  <2>1. /\ Holds(v, OnTheWire) /\ (v # <<>> <=> e.start # 0 \/ wire # <<>>)
        /\ v # <<>> => headersSent
    <3>1. CASE e.start # 0
      <4>1. v = <<<<"headers", starts>>>> /\ OnTheWire = 0 /\ headersSent
        BY <1>5, <3>1 DEF WithHeaders, OnTheWire
      <4>2. <<"headers", starts>> \in Frame
        BY <1>3, <1>5, <3>1, BoundsAssumption DEF Frame
      <4> HIDE DEF v
      <4>3. v \in Seq(Frame) /\ Len(v) = 1 /\ v[1] = <<"headers", starts>> /\ v # <<>>
        BY <4>1, <4>2
      <4> QED
        BY <3>1, <4>1, <4>3 DEF Holds
    <3>2. CASE e.start = 0
      BY <1>4, <3>2 DEF WithHeaders
    <3> QED
      BY <3>1, <3>2
  <2>2. v = <<>> => e.kind = "Trailers" /\ ~headersSent /\ e.chunk = 0 /\ ~e.more
    BY <1>2, <1>5, <1>7, <2>1 DEF EventOK
  <2>3. ~e.more => closed /\ produced = n
    <3>1. ASSUME ~e.more PROVE closed /\ produced = n
      <4>1. closed
        BY <1>5, <1>7, <3>1
      <4>2. \/ e.chunk = 0 /\ produced = OnTheWire + 1 - 1
            \/ e.chunk = OnTheWire + 1 /\ produced = OnTheWire + 1
        BY <1>5, <1>7, <3>1
      <4>5. OnTheWire + 1 - 1 = OnTheWire /\ OnTheWire + 0 = OnTheWire
            /\ OnTheWire + 1 # 0
        BY <1>4
      <4>3. CASE e.chunk = 0
        <5>1. n = OnTheWire
          BY <4>3, <4>5
        <5>2. produced = OnTheWire
          BY <4>2, <4>3, <4>5
        <5> QED
          BY <4>1, <5>1, <5>2
      <4>4. CASE e.chunk # 0
        <5>1. n = OnTheWire + 1
          BY <4>4
        <5>2. produced = OnTheWire + 1
          BY <4>2, <4>4
        <5> QED
          BY <4>1, <5>1, <5>2
      <4> QED
        BY <4>1, <4>3, <4>4
    <3> QED
      BY <3>1
  <2>4. e.chunk # 0 => e.chunk = OnTheWire + 1
    BY <1>5, <1>7
  <2> HIDE DEF v
  <2>5. CASE e.chunk = 0
    <3>1. w = v /\ n = OnTheWire /\ ~e.more
      BY <1>4, <1>5, <2>5 DEF WithData
    <3> HIDE DEF w, n
    <3> QED
      BY <2>1, <2>2, <2>3, <3>1
  <2>6. CASE e.chunk # 0
    <3>1. w = Append(v, <<"data", OnTheWire + 1>>) /\ n = OnTheWire + 1
      BY <2>4, <2>6 DEF WithData
    <3>2. v # <<>> /\ OnTheWire + 1 <= MaxChunks
      BY <1>3, <2>2, <2>4, <2>6
    <3>3. Holds(w, n) /\ w # <<>>
      BY <1>4, <2>1, <3>1, <3>2, HoldsOneMore
    <3> HIDE DEF w, n
    <3> QED
      BY <2>1, <2>3, <2>6, <3>2, <3>3
  <2> QED
    BY <2>5, <2>6
<1> HIDE DEF v, w, n
<1>8. e = batch[1] /\ v = WithHeaders(wire, e) /\ w = WithData(v, e)
      /\ n = OnTheWire + (IF e.chunk = 0 THEN 0 ELSE 1)
  BY DEF e, v, w, n
<1> QED
  BY <1>1, <1>2, <1>6, <1>7, <1>8

\* The wire after an event that does not end the response.
LEMMA OnWireGoesOn ==
  ASSUME NEW n \in Nat, Holds(wire', n), wire' # <<>>, headersSent, headersSent' = headersSent,
         starts' = starts
  PROVE  OnWire' /\ OnTheWire' = n
<1>1. /\ wire' \in Seq(Frame) /\ Len(wire') = n + 1 /\ wire'[1] = <<"headers", starts>>
      /\ \A k \in 2..(n + 1) : wire'[k] = <<"data", k - 1>>
  BY DEF Holds
<1>2. DOMAIN wire' = 1..(n + 1)
  BY <1>1, LenProperties
<1>3. OnTheWire' = n
  <2>1. \A i \in Nat : i + 1 - 1 = i
    OBVIOUS
  <2>2. OnTheWire' = Len(wire') - 1
    BY DEF OnTheWire
  <2>3. n + 1 - 1 = n
    BY <2>1
  <2> QED
    BY <1>1, <2>2, <2>3
<1>4. ASSUME NEW k \in 1..(n + 1)
      PROVE  wire'[k] = IF k = 1 THEN <<"headers", starts>> ELSE <<"data", k - 1>>
  <2>1. CASE k = 1
    BY <1>1, <2>1
  <2>2. CASE k # 1
    <3>1. k \in 2..(n + 1)
      BY <2>2
    <3>2. wire'[k] = <<"data", k - 1>>
      BY <1>1, <3>1
    <3> QED
      BY <2>2, <3>2
  <2> QED
    BY <2>1, <2>2
<1>5. OnWire'
  <2> SUFFICES ASSUME NEW k \in 1..(n + 1)
               PROVE  /\ wire'[k] \in {<<"headers", starts>>, <<"data", k - 1>>,
                                      <<"end", 0>>, <<"error", 0>>}
                      /\ wire'[k][1] = "headers" => k = 1 /\ headersSent
                      /\ wire'[k][1] = "data" => k # 1
                      /\ ~(wire'[k][1] \in {"end", "error"})
    BY <1>2 DEF OnWire
  <2>1. CASE k = 1
    <3>1. wire'[k] = <<"headers", starts>>
      BY <1>4, <2>1
    <3>2. wire'[k][1] = "headers"
      BY <3>1
    <3> QED
      BY <2>1, <3>1, <3>2
  <2>2. CASE k # 1
    <3>1. wire'[k] = <<"data", k - 1>>
      BY <1>4, <2>2
    <3>2. wire'[k][1] = "data"
      BY <3>1
    <3> QED
      BY <2>2, <3>1, <3>2
  <2> QED
    BY <2>1, <2>2
<1> QED
  BY <1>3, <1>5

\* The wire after an event that does.
LEMMA OnWireEnds ==
  ASSUME NEW n \in Nat, NEW w, Holds(w, n), w # <<>> => headersSent,
         NEW last \in {<<"end", 0>>, <<"error", 0>>},
         wire' = Append(w, last), filter' # "live",
         headersSent' = headersSent, starts' = starts, closed' = closed,
         produced' = produced,
         last[1] = "end" => closed /\ produced = n /\ (w = <<>> => ~headersSent)
  PROVE  OnWire'
<1>1. w \in Seq(Frame) /\ last \in Frame
  BY BoundsAssumption DEF Holds, Frame
<1>2. /\ Append(w, last) \in Seq(Frame) /\ Len(Append(w, last)) = Len(w) + 1
      /\ DOMAIN Append(w, last) = 1..(Len(w) + 1)
      /\ \A k \in 1..Len(w) : Append(w, last)[k] = w[k]
      /\ Append(w, last)[Len(w) + 1] = last
      /\ Len(w) \in Nat
      /\ w = <<>> <=> Len(w) = 0
  BY <1>1, AppendFacts, EmptySeq
<1>3. /\ Len(wire') = Len(w) + 1 /\ DOMAIN wire' = 1..(Len(w) + 1)
      /\ \A k \in 1..Len(w) : wire'[k] = w[k]
      /\ wire'[Len(w) + 1] = last
  BY <1>2
<1> SUFFICES ASSUME NEW k \in 1..(Len(w) + 1)
             PROVE  /\ wire'[k] \in {<<"headers", starts>>, <<"data", k - 1>>,
                                    <<"end", 0>>, <<"error", 0>>}
                    /\ wire'[k][1] = "headers" => k = 1 /\ headersSent
                    /\ wire'[k][1] = "data" => k # 1
                    /\ wire'[k][1] \in {"end", "error"} => k = Len(w) + 1
                    /\ wire'[k][1] = "end" =>
                         /\ closed
                         /\ k = 1 => ~headersSent
                         /\ produced = IF k = 1 THEN 0 ELSE k - 2
  BY <1>3 DEF OnWire
<1>4. CASE k = Len(w) + 1
  <2>1. wire'[k] = last
    BY <1>3, <1>4
  <2>2. last[1] \in {"end", "error"}
    OBVIOUS
  <2>3. w = <<>> => k = 1 /\ n = 0
    BY <1>2, <1>4 DEF Holds
  <2>4. w # <<>> => k = n + 2
    BY <1>2, <1>4 DEF Holds
  <2>5. n = IF k = 1 THEN 0 ELSE k - 2
    BY <2>3, <2>4
  <2>6. k = 1 => w = <<>>
    BY <2>4
  <2>7. wire'[k][1] = "end" =>
                         /\ closed
                         /\ k = 1 => ~headersSent
                         /\ produced = IF k = 1 THEN 0 ELSE k - 2
    BY <2>1, <2>5, <2>6
  <2> QED
    BY <1>4, <2>1, <2>2, <2>7
<1>5. CASE k # Len(w) + 1
  <2>1. k \in 1..Len(w) /\ w # <<>>
    BY <1>2, <1>5
  <2>2. wire'[k] = IF k = 1 THEN <<"headers", starts>> ELSE <<"data", k - 1>>
    <3>1. wire'[k] = w[k] /\ Len(w) = n + 1
      BY <1>3, <2>1 DEF Holds
    <3>2. k = 1 => w[k] = <<"headers", starts>>
      BY <2>1 DEF Holds
    <3>3. k # 1 => w[k] = <<"data", k - 1>>
      <4>1. k # 1 => k \in 2..(n + 1)
        BY <2>1, <3>1
      <4> QED
        BY <2>1, <4>1 DEF Holds
    <3> QED
      BY <3>1, <3>2, <3>3
  <2>3. CASE k = 1
    BY <2>1, <2>2, <2>3
  <2>4. CASE k # 1
    BY <2>2, <2>4
  <2> QED
    BY <2>3, <2>4
<1> QED
  BY <1>4, <1>5

\* The pipe after the filter has taken an event off its batch.
LEMMA PipeTaken ==
  ASSUME TypeOK, batch # <<>>, batch' = Tail(batch)
  PROVE  /\ batch' \in Seq(Events) /\ Len(batch) \in Nat /\ Len(batch) >= 1
         /\ DOMAIN batch' = 1..(Len(batch) - 1)
         /\ \A k \in 1..(Len(batch) - 1) : batch'[k] = batch[k + 1] /\ k + 1 \in DOMAIN batch
         /\ bridge' = bridge =>
              /\ Len(Pipe') = Len(Pipe) - 1 /\ DOMAIN Pipe' = 1..(Len(Pipe) - 1)
              /\ Pipe' = <<>> <=> Len(Pipe) = 1
              /\ Len(Pipe) \in Nat /\ Len(Pipe) >= 1
              /\ \A k \in 1..(Len(Pipe) - 1) : Pipe'[k] = Pipe[k + 1]
<1> DEFINE n == Len(batch)
           t == Tail(batch)
           s == bridge.events
<1>1. /\ batch \in Seq(Events) /\ n \in Nat /\ DOMAIN batch = 1..n /\ n # 0
      /\ s \in Seq(Events) /\ Len(s) \in Nat
  BY Lengths
<1>2. /\ t \in Seq(Events) /\ Len(t) = n - 1
      /\ \A k \in 1..(n - 1) : t[k] = batch[k + 1]
  BY <1>1, TailFacts
<1>3. DOMAIN t = 1..(n - 1)
  BY <1>2, LenProperties
<1>4. n >= 1 /\ \A k \in 1..(n - 1) : k + 1 \in DOMAIN batch
  BY <1>1
<1>5. /\ Pipe \in Seq(Events) /\ Len(Pipe) = n + Len(s)
      /\ \A k \in 1..n : Pipe[k] = batch[k]
      /\ \A k \in 1..Len(s) : Pipe[n + k] = s[k]
  BY Zenon, PipeOK
<1>6. /\ Len(t \o s) = Len(t) + Len(s) /\ DOMAIN (t \o s) = 1..Len(t \o s)
      /\ \A k \in 1..Len(t) : (t \o s)[k] = t[k]
      /\ \A k \in 1..Len(s) : (t \o s)[Len(t) + k] = s[k]
      /\ t \o s = <<>> <=> Len(t \o s) = 0
  BY <1>1, <1>2, PipeFacts
<1>7. bridge' = bridge => Pipe' = t \o s
  BY DEF Pipe
<1> HIDE DEF n, t, s, TypeOK
<1>8. Len(t \o s) = Len(Pipe) - 1 /\ Len(Pipe) \in Nat /\ Len(Pipe) >= 1
  BY <1>1, <1>2, <1>4, <1>5, <1>6
<1>9. t \o s = <<>> <=> Len(Pipe) = 1
  BY <1>6, <1>8
<1>10. ASSUME NEW k \in 1..(Len(Pipe) - 1) PROVE (t \o s)[k] = Pipe[k + 1]
  <2>1. CASE k <= n - 1
    <3>1. k \in 1..(n - 1) /\ k + 1 \in 1..n
      BY <1>1, <1>8, <2>1
    <3>2. (t \o s)[k] = t[k] /\ t[k] = batch[k + 1] /\ Pipe[k + 1] = batch[k + 1]
      BY <1>2, <1>5, <1>6, <3>1
    <3> QED
      BY <3>2
  <2>2. CASE k > n - 1
    <3>1. PICK j \in 1..Len(s) : k = n - 1 + j
      <4>1. k - (n - 1) \in 1..Len(s) /\ k = n - 1 + (k - (n - 1))
        BY <1>1, <1>5, <1>8, <2>2
      <4> QED
        BY <4>1
    <3>2. (t \o s)[Len(t) + j] = s[j] /\ Pipe[n + j] = s[j]
      BY <1>5, <1>6, <3>1
    <3>3. Len(t) + j = k /\ n + j = k + 1
      BY <1>1, <1>2, <3>1
    <3> QED
      BY <3>2, <3>3
  <2> QED
    BY <1>1, <1>8, <2>1, <2>2
<1>11. bridge' = bridge =>
         /\ Len(Pipe') = Len(Pipe) - 1 /\ DOMAIN Pipe' = 1..(Len(Pipe) - 1)
         /\ Pipe' = <<>> <=> Len(Pipe) = 1
         /\ \A k \in 1..(Len(Pipe) - 1) : Pipe'[k] = Pipe[k + 1]
  BY <1>6, <1>7, <1>8, <1>9, <1>10
<1> QED
  BY <1>1, <1>2, <1>3, <1>4, <1>8, <1>11 DEF n, t

\* A part of the body that is not the last goes on the wire.
LEMMA HandleMore ==
  ASSUME IInv, HandleEvent, filter = "live", batch[1].more
  PROVE  Stages' /\ Shapes' /\ OnWire' /\ InThePipe' /\ Beginning' /\ HeldBack'
<1> DEFINE e == batch[1]
           w == WithData(WithHeaders(wire, e), e)
           n == OnTheWire + 1
           m == Len(Pipe)
<1>1. /\ batch # <<>> /\ acknowledged /\ batch' = Tail(batch) /\ acknowledged' = FALSE
      /\ UNCHANGED <<senderVars, appVars, commits, written, level, raises>>
      /\ ~responseClosed /\ Head(batch) = e
  BY Lengths, TailFacts DEF HandleEvent, IInv, Stages
<1>2. wire' = wire \o Frames(e) /\ UNCHANGED <<filter, responseClosed, bridge>>
  BY <1>1 DEF HandleEvent
<1>3. /\ e \in Events /\ EventOK(e) /\ e = Pipe[1] /\ (e.start # 0 => wire = <<>>)
      /\ e.kind # "Exception" =>
           /\ Holds(w, OnTheWire + (IF e.chunk = 0 THEN 0 ELSE 1))
           /\ w # <<>> => headersSent
           /\ e.more => w # <<>> /\ e.chunk # 0
  BY <1>1, FirstEvent
<1>4. e.kind # "Exception"
  BY <1>3 DEF EventOK
<1>5. /\ OnTheWire \in Nat /\ n \in Nat /\ wire \in Seq(Frame)
      /\ written \in Nat /\ produced \in Nat
  BY Lengths DEF IInv
<1>6. wire' = w
  BY <1>2, <1>3, <1>4, <1>5, FramesAdd
<1>7. Holds(w, n) /\ w # <<>> /\ headersSent
  BY <1>3, <1>4
<1>8. headersSent' = headersSent /\ starts' = starts /\ closed' = closed
      /\ produced' = produced /\ startEvent' = startEvent /\ written' = written
      /\ usesWrite' = usesWrite /\ pc' = pc /\ after' = after
  BY <1>1 DEF senderVars, appVars
<1> HIDE DEF e, w
<1>9. Holds(wire', n) /\ wire' # <<>>
  BY <1>6, <1>7
<1>10. OnWire' /\ OnTheWire' = n
  BY <1>5, <1>7, <1>8, <1>9, OnWireGoesOn
<1>11. /\ DOMAIN batch' = 1..(Len(batch) - 1) /\ Len(batch) \in Nat
       /\ \A k \in 1..(Len(batch) - 1) : batch'[k] = batch[k + 1] /\ k + 1 \in DOMAIN batch
       /\ Len(Pipe') = m - 1 /\ DOMAIN Pipe' = 1..(m - 1)
       /\ Pipe' = <<>> <=> m = 1
       /\ m \in Nat /\ m >= 1
       /\ \A k \in 1..(m - 1) : Pipe'[k] = Pipe[k + 1]
  BY <1>1, <1>2, PipeTaken DEF IInv
<1>12. Shapes'
  BY <1>2, <1>11 DEF IInv, Shapes
<1>13. Stages'
  BY <1>1, <1>2, <1>8 DEF IInv, Stages
<1>14. DOMAIN Pipe = 1..m /\ InThePipe /\ Beginning /\ HeldBack
  BY Zenon, PipeOK DEF IInv
<1>15. Over' = Over
  BY <1>8 DEF Over
<1> HIDE DEF m
<1>16. InThePipe'
  <2> SUFFICES ASSUME NEW k \in 1..(m - 1)
      PROVE
      /\ Pipe'[k].more => Pipe'[k].chunk = n + k
      /\ ~Pipe'[k].more =>
           \/ Pipe'[k].kind = "Exception" /\ k = m - 1 /\ Over
           \/ /\ Pipe'[k].kind # "Exception" /\ closed
              /\ \/ Pipe'[k].chunk = 0 /\ produced = n + k - 1
                 \/ Pipe'[k].chunk = n + k /\ produced = n + k
      /\ k > 1 => Pipe'[k - 1].more \/ Pipe'[k].kind = "Exception"
      /\ Pipe'[k].start = 0
    <3> HIDE DEF n
    <3> QED
      BY <1>8, <1>9, <1>10, <1>11, <1>15 DEF InThePipe
  <2> DEFINE p == Pipe[k + 1]
  <2>1. k + 1 \in DOMAIN Pipe /\ Pipe'[k] = p /\ k + 1 > 1 /\ k + 1 # 1
    BY <1>11, <1>14
  <2>2. OnTheWire + (k + 1) = n + k /\ (k + 1 = m => k = m - 1)
        /\ OnTheWire + (k + 1) - 1 = n + k - 1 /\ (k + 1) - 1 = k
    BY <1>5, <1>11
  <2>3. p.more => p.chunk = OnTheWire + (k + 1)
    BY <1>14, <2>1 DEF InThePipe
  <2>4. ~p.more =>
           \/ p.kind = "Exception" /\ k + 1 = m /\ Over
           \/ /\ p.kind # "Exception" /\ closed
              /\ \/ p.chunk = 0 /\ produced = OnTheWire + (k + 1) - 1
                 \/ p.chunk = OnTheWire + (k + 1) /\ produced = OnTheWire + (k + 1)
    BY <1>14, <2>1 DEF InThePipe, m
  <2>5. k > 1 => Pipe[k].more \/ p.kind = "Exception"
    BY <1>14, <2>1, <2>2 DEF InThePipe
  <2>6. p.start = 0
    BY <1>14, <2>1 DEF InThePipe
  <2>7. k > 1 => Pipe'[k - 1] = Pipe[k]
    <3>1. k > 1 => k - 1 \in 1..(m - 1) /\ (k - 1) + 1 = k
      BY <1>11
    <3> QED
      BY <1>11, <3>1
  <2> HIDE DEF p, n
  <2> QED
    BY <2>1, <2>2, <2>3, <2>4, <2>5, <2>6, <2>7
<1>17. Beginning'
  <2> SUFFICES ASSUME Pipe' = <<>> \/ Pipe'[m - 1].more
               PROVE  produced = n + (m - 1)
    BY <1>8, <1>9, <1>10, <1>11 DEF Beginning
  <2>1. Pipe # <<>> /\ (Pipe[m].more => produced = OnTheWire + m)
    BY <1>2, <1>14, <1>11 DEF Beginning, m
  <2>2. Pipe[m].more
    <3>1. CASE Pipe' = <<>>
      BY <1>3, <1>11, <3>1 DEF e
    <3>2. CASE Pipe' # <<>>
      <4>1. m - 1 \in 1..(m - 1) /\ (m - 1) + 1 = m
        BY <1>11, <3>2
      <4> QED
        BY <1>11, <3>2, <4>1
    <3> QED
      BY <3>1, <3>2
  <2>3. OnTheWire + m = n + (m - 1)
    BY <1>5, <1>11
  <2> QED
    BY <2>1, <2>2, <2>3
<1>18. HeldBack'
  <2>1. Waiting' = Waiting /\ Waiting \in Nat
    BY <1>8 DEF Waiting
  <2> SUFFICES ASSUME ~usesWrite
               PROVE  /\ pc = "app" \/ (pc = "commit" /\ after = "app") => produced = 0
                      /\ \/ produced + written <= n + Waiting + 0
                         \/ Over /\ produced <= 1
    <3> HIDE DEF n
    <3> QED
      BY <1>1, <1>2, <1>8, <1>10, <1>15, <2>1 DEF HeldBack
  <2>2. \/ produced + written <= OnTheWire + Waiting + 1
        \/ Over /\ produced <= 1
    BY <1>1, <1>14 DEF HeldBack
  <2>3. OnTheWire + Waiting + 1 = n + Waiting + 0
    BY <1>5, <2>1
  <2>4. pc = "app" \/ (pc = "commit" /\ after = "app") => produced = 0
    BY <1>14 DEF HeldBack
  <2> HIDE DEF n
  <2> QED
    BY <2>2, <2>3, <2>4
<1> QED
  BY <1>10, <1>12, <1>13, <1>16, <1>17, <1>18

\* An event ends the response or breaks it off.
LEMMA HandleLast ==
  ASSUME IInv, HandleEvent, filter = "live", ~batch[1].more
  PROVE  Stages' /\ Shapes' /\ OnWire' /\ InThePipe' /\ Beginning' /\ HeldBack'
<1> DEFINE e == batch[1]
           w == WithData(WithHeaders(wire, e), e)
           n == OnTheWire + (IF e.chunk = 0 THEN 0 ELSE 1)
<1>1. /\ batch # <<>> /\ batch' = Tail(batch) /\ acknowledged' = FALSE
      /\ UNCHANGED <<senderVars, appVars, commits, written, level, raises>>
      /\ ~responseClosed /\ Head(batch) = e
  BY Lengths, TailFacts DEF HandleEvent, IInv, Stages
<1>2. wire' = wire \o Frames(e) /\ filter' = "complete" /\ responseClosed' = TRUE
      /\ bridge' = ClosedBridge
  BY <1>1 DEF HandleEvent, Completed
<1>3. /\ e \in Events /\ EventOK(e) /\ e = Pipe[1] /\ (e.start # 0 => wire = <<>>)
      /\ e.kind # "Exception" =>
           /\ Holds(w, n)
           /\ w # <<>> => headersSent
           /\ w = <<>> => ~headersSent
           /\ closed /\ produced = n
  BY <1>1, FirstEvent
<1>4. bridge'.closed = TRUE /\ bridge'.events = <<>>
  BY <1>2 DEF ClosedBridge
<1>5. /\ OnTheWire \in Nat /\ wire \in Seq(Frame) /\ e.chunk \in Nat
  BY SMTT(60), <1>3, Lengths, BoundsAssumption DEF IInv, Events
<1>6. n \in Nat
  BY <1>5
<1>7. headersSent' = headersSent /\ starts' = starts /\ closed' = closed
      /\ produced' = produced /\ startEvent' = startEvent
  BY <1>1 DEF senderVars, appVars
<1> HIDE DEF e, w, n
<1>8. wire' = IF e.kind = "Exception" THEN Append(wire, <<"error", 0>>)
              ELSE Append(w, <<"end", 0>>)
  BY <1>2, <1>3, <1>5, FramesAdd DEF e, w
<1>9. OnWire'
  <2>1. CASE e.kind = "Exception"
    <3> DEFINE last == <<"error", 0>>
    <3>1. last \in {<<"end", 0>>, <<"error", 0>>} /\ last[1] # "end"
          /\ wire' = Append(wire, last)
      BY <1>8, <2>1
    <3>2. Holds(wire, OnTheWire) /\ (wire # <<>> => headersSent)
      BY LiveWire
    <3> HIDE DEF last
    <3> QED
      BY <1>2, <1>5, <1>7, <3>1, <3>2, OnWireEnds
  <2>2. CASE e.kind # "Exception"
    <3> DEFINE last == <<"end", 0>>
    <3>1. last \in {<<"end", 0>>, <<"error", 0>>} /\ wire' = Append(w, last)
      BY <1>8, <2>2
    <3> HIDE DEF last
    <3> QED
      BY <1>2, <1>3, <1>6, <1>7, <2>2, <3>1, OnWireEnds
  <2> QED
    BY <2>1, <2>2
<1>10. /\ DOMAIN batch' = 1..(Len(batch) - 1) /\ Len(batch) \in Nat
       /\ \A k \in 1..(Len(batch) - 1) : batch'[k] = batch[k + 1] /\ k + 1 \in DOMAIN batch
  BY <1>1, PipeTaken DEF IInv
<1>11. Shapes'
  BY <1>4, <1>10 DEF IInv, Shapes
<1>12. ASSUME NEW k \in DOMAIN batch' PROVE batch'[k].kind = "Exception"
  <2>1. k \in 1..(Len(batch) - 1) /\ batch'[k] = batch[k + 1] /\ k + 1 \in 1..Len(batch)
    BY <1>10
  <2>2. /\ batch[k + 1] = Pipe[k + 1] /\ DOMAIN Pipe = 1..Len(Pipe) /\ Len(Pipe) \in Nat
        /\ Len(Pipe) = Len(batch) + Len(bridge.events) /\ Len(bridge.events) \in Nat
    BY Zenon, <2>1, PipeOK, Lengths DEF IInv
  <2>3. 2 \in DOMAIN Pipe /\ k + 1 \in DOMAIN Pipe /\ 2 - 1 = 1 /\ 2 > 1
    BY <1>10, <2>1, <2>2
  <2>4. Pipe[1].more \/ Pipe[2].kind = "Exception"
    BY <2>3 DEF IInv, InThePipe
  <2>5. Pipe[2].kind = "Exception"
    BY <1>3, <2>4 DEF e
  <2>6. EventOK(Pipe[2])
    BY <2>2, <2>3, PipeShapes DEF IInv
  <2>7. ~Pipe[2].more
    BY <2>5, <2>6 DEF EventOK
  <2>8. 2 = Len(Pipe)
    BY <2>3, <2>5, <2>7 DEF IInv, InThePipe
  <2>9. k + 1 = 2
    BY <2>1, <2>2, <2>3, <2>8
  <2> QED
    BY <2>1, <2>2, <2>5, <2>9
<1>13. Stages'
  BY <1>1, <1>2, <1>4, <1>7, <1>12 DEF IInv, Stages
<1>14. InThePipe' /\ Beginning' /\ HeldBack'
  BY <1>2 DEF InThePipe, Beginning, HeldBack
<1> QED
  BY <1>9, <1>11, <1>13, <1>14

\* An exception that comes after the end of the response is dropped.
LEMMA HandleLate ==
  ASSUME IInv, HandleEvent, filter # "live"
  PROVE  Stages' /\ Shapes' /\ OnWire' /\ InThePipe' /\ Beginning' /\ HeldBack'
<1>1. /\ batch # <<>> /\ batch' = Tail(batch) /\ acknowledged' = FALSE
      /\ UNCHANGED <<senderVars, appVars, commits, written, level, raises>>
      /\ responseClosed /\ Head(batch) = batch[1]
  BY Lengths, TailFacts DEF HandleEvent, IInv, Stages
<1>2. batch[1].kind = "Exception"
  <2>1. 1 \in DOMAIN batch
    BY <1>1, Lengths DEF IInv
  <2> QED
    BY <2>1 DEF IInv, Stages
<1>3. UNCHANGED <<wire, filter, responseClosed, bridge>>
  BY <1>1, <1>2 DEF HandleEvent
<1>4. headersSent' = headersSent /\ starts' = starts /\ closed' = closed
      /\ produced' = produced /\ startEvent' = startEvent
  BY <1>1 DEF senderVars, appVars
<1>5. /\ DOMAIN batch' = 1..(Len(batch) - 1) /\ Len(batch) \in Nat
      /\ \A k \in 1..(Len(batch) - 1) : batch'[k] = batch[k + 1] /\ k + 1 \in DOMAIN batch
  BY <1>1, PipeTaken DEF IInv
<1>6. Shapes'
  BY <1>3, <1>5 DEF IInv, Shapes
<1>7. Stages'
  BY <1>1, <1>3, <1>4, <1>5 DEF IInv, Stages
<1>8. OnWire'
  BY <1>3, <1>4, OnWireKept DEF IInv
<1>9. InThePipe' /\ Beginning' /\ HeldBack'
  BY <1>3 DEF InThePipe, Beginning, HeldBack
<1> QED
  BY <1>6, <1>7, <1>8, <1>9

\* A step that moves nothing of what was sent.
LEMMA FilterIdles ==
  ASSUME IInv, TypeOK', UNCHANGED <<senderVars, appVars, filter, responseClosed, wire>>,
         Pipe' = Pipe, Stages', Shapes',
         \/ acknowledged' = acknowledged /\ written' = written
         \/ ~acknowledged /\ acknowledged' /\ written' = written + 1
  PROVE  IInv'
<1>1. /\ headersSent' = headersSent /\ closed' = closed /\ produced' = produced
      /\ starts' = starts /\ pc' = pc /\ after' = after /\ usesWrite' = usesWrite
      /\ wire' = wire /\ filter' = filter
  BY DEF senderVars, appVars
<1>2. OnWire'
  BY <1>1, OnWireKept DEF IInv
<1>3. InThePipe' /\ Beginning'
  <2>1. Over => Over'
    BY <1>1 DEF Over
  <2> QED
    BY <1>1, <2>1, PipeKept DEF IInv
<1>4. HeldBack'
  <2>1. /\ Waiting' = Waiting /\ Waiting \in Nat /\ (Over' <=> Over)
        /\ OnTheWire' = OnTheWire
    BY <1>1 DEF Waiting, Over, OnTheWire
  <2>2. produced \in Nat /\ written \in Nat /\ OnTheWire \in Nat
    BY Lengths DEF IInv
  <2> SUFFICES ASSUME filter = "live", ~usesWrite
               PROVE  /\ pc = "app" \/ (pc = "commit" /\ after = "app") => produced = 0
                      /\ \/ produced + written' <= OnTheWire + Waiting
                                                     + (IF acknowledged' THEN 1 ELSE 0)
                         \/ Over /\ produced <= 1
    BY <1>1, <2>1 DEF HeldBack
  <2>3. /\ pc = "app" \/ (pc = "commit" /\ after = "app") => produced = 0
        /\ \/ produced + written <= OnTheWire + Waiting + (IF acknowledged THEN 1 ELSE 0)
           \/ Over /\ produced <= 1
    BY DEF IInv, HeldBack
  <2>4. CASE acknowledged' = acknowledged /\ written' = written
    BY <2>3, <2>4
  <2>5. CASE ~acknowledged /\ acknowledged' /\ written' = written + 1
    <3>1. \A i, j, k, l \in Nat : i + j <= k + l + 0 => i + (j + 1) <= k + l + 1
      OBVIOUS
    <3>2. produced + written <= OnTheWire + Waiting + 0 =>
            produced + (written + 1) <= OnTheWire + Waiting + 1
      BY <2>1, <2>2, <3>1
    <3>3. \/ produced + written <= OnTheWire + Waiting + 0
          \/ Over /\ produced <= 1
      BY <2>3, <2>5
    <3>4. \/ produced + (written + 1) <= OnTheWire + Waiting + 1
          \/ Over /\ produced <= 1
      BY <3>2, <3>3
    <3>5. \/ produced + written' <= OnTheWire + Waiting + (IF acknowledged' THEN 1 ELSE 0)
          \/ Over /\ produced <= 1
      BY <2>5, <3>4
    <3> QED
      BY <2>3, <3>5
  <2> QED
    BY <2>4, <2>5
<1> QED
  BY <1>2, <1>3, <1>4 DEF IInv

LEMMA FilterStepIInv ==
  ASSUME IInv,
         \/ OnScheduled \/ Acknowledge \/ HandleEvent \/ AboveWatermark
         \/ BelowWatermark \/ OnStreamComplete \/ Drop
  PROVE  IInv'
<1>0. TypeOK'
  BY FilterStepType DEF IInv
<1>1. CASE OnScheduled
  <2>1. /\ batch = <<>> /\ UNCHANGED <<senderVars, appVars, filter, responseClosed, wire>>
        /\ acknowledged' = acknowledged /\ written' = written
        /\ \/ batch' = bridge.events /\ bridge' = Drained(bridge)
           \/ UNCHANGED <<batch, bridge>>
    BY <1>1 DEF OnScheduled
  <2>2. /\ bridge.events \in Seq(Events)
        /\ bridge = [closed |-> bridge.closed, events |-> bridge.events]
        /\ bridge.closed \in BOOLEAN /\ (bridge.closed => bridge.events = <<>>)
    BY Lengths DEF IInv
  <2>3. CASE batch' = bridge.events /\ bridge' = Drained(bridge)
    <3>1. bridge' = [closed |-> bridge.closed, events |-> <<>>]
      BY <2>2, <2>3 DEF Drained
    <3>2. bridge'.closed = bridge.closed /\ bridge'.events = <<>>
      BY <3>1
    <3>3. Pipe' = Pipe
      <4>1. \A s \in Seq(Events) : s \o <<>> = <<>> \o s
        OBVIOUS
      <4>2. bridge.events \o <<>> = <<>> \o bridge.events
        BY <2>2, <4>1
      <4> QED
        BY <2>1, <2>3, <3>2, <4>2 DEF Pipe
    <3>4. Shapes'
      BY <2>3, <3>2 DEF IInv, Shapes
    <3>5. ~acknowledged
      BY <2>1 DEF IInv, Stages
    <3>6. filter # "live" => batch' = <<>>
      BY <2>2, <2>3 DEF IInv, Stages
    <3>7. Stages'
      BY <2>1, <3>2, <3>5, <3>6 DEF IInv, Stages, senderVars, appVars
    <3> QED
      BY <1>0, <2>1, <3>3, <3>4, <3>7, FilterIdles
  <2>4. CASE UNCHANGED <<batch, bridge>>
    <3>1. Pipe' = Pipe /\ Shapes'
      BY <2>4 DEF Pipe, IInv, Shapes
    <3>2. Stages'
      BY <2>1, <2>4 DEF IInv, Stages, senderVars, appVars
    <3> QED
      BY <1>0, <2>1, <3>1, <3>2, FilterIdles
  <2> QED
    BY <2>1, <2>3, <2>4
<1>2. CASE Acknowledge
  <2>1. /\ UNCHANGED <<senderVars, appVars, filter, responseClosed, wire, batch, bridge>>
        /\ ~acknowledged /\ acknowledged' = TRUE /\ written' = written + 1
        /\ batch # <<>> /\ Head(batch).more
    BY <1>2 DEF Acknowledge
  <2>2. Head(batch) = batch[1]
    BY <2>1, Lengths, TailFacts DEF IInv
  <2>3. Pipe' = Pipe /\ Shapes'
    BY <2>1 DEF Pipe, IInv, Shapes
  <2>4. Stages'
    BY <2>1, <2>2 DEF IInv, Stages, senderVars, appVars
  <2> QED
    BY <1>0, <2>1, <2>3, <2>4, FilterIdles
<1>3. CASE HandleEvent
  <2>1. Stages' /\ Shapes' /\ OnWire' /\ InThePipe' /\ Beginning' /\ HeldBack'
    BY <1>3, HandleMore, HandleLast, HandleLate
  <2> QED
    BY <1>0, <2>1 DEF IInv
<1>4. CASE AboveWatermark \/ BelowWatermark
  <2>1. /\ UNCHANGED <<senderVars, appVars, filter, responseClosed, wire, batch, bridge,
                       acknowledged, written>>
    BY <1>4 DEF AboveWatermark, BelowWatermark
  <2>2. Pipe' = Pipe /\ Shapes'
    BY <2>1 DEF Pipe, IInv, Shapes
  <2>3. Stages'
    BY <2>1 DEF IInv, Stages, senderVars, appVars
  <2> QED
    BY <1>0, <2>1, <2>2, <2>3, FilterIdles
<1>5. CASE OnStreamComplete \/ Drop
  <2>1. /\ UNCHANGED <<senderVars, appVars, wire, batch, acknowledged>>
        /\ batch = <<>> /\ filter' \in {"complete", "dropped"}
    BY <1>5 DEF OnStreamComplete, Completed, Drop
  <2>2. responseClosed' /\ bridge'.closed /\ bridge'.events = <<>>
    <3>1. CASE OnStreamComplete
      BY <3>1 DEF OnStreamComplete, Completed, ClosedBridge
    <3>2. CASE Drop
      <4>1. responseClosed /\ bridge.closed /\ UNCHANGED <<responseClosed, bridge>>
        BY <3>2 DEF Drop, IInv, Stages
      <4> QED
        BY <4>1, Lengths DEF IInv
    <3> QED
      BY <1>5, <3>1, <3>2
  <2>3. Shapes'
    BY <2>1, <2>2 DEF Shapes
  <2>4. Stages'
    <3>1. /\ headersSent' = headersSent /\ startEvent' = startEvent /\ starts' = starts
          /\ produced' = produced /\ acknowledged' = acknowledged /\ batch' = <<>>
      BY <2>1 DEF senderVars, appVars
    <3>2. ~acknowledged
      BY <2>1 DEF IInv, Stages
    <3> QED
      BY <2>1, <2>2, <3>1, <3>2 DEF IInv, Stages
  <2>5. OnWire'
    <3>1. filter' # "live"
      BY <2>1
    <3> QED
      BY <2>1, <3>1, OnWireKept DEF IInv, senderVars, appVars
  <2>6. InThePipe' /\ Beginning' /\ HeldBack'
    BY <2>1 DEF InThePipe, Beginning, HeldBack
  <2> QED
    BY <1>0, <2>3, <2>4, <2>5, <2>6 DEF IInv
<1> QED
  BY <1>1, <1>2, <1>3, <1>4, <1>5

-----------------------------------------------------------------------------
(* The theorems.                                                           *)

LEMMA InitIInv == Init => IInv
<1> SUFFICES ASSUME Init PROVE IInv
  OBVIOUS
<1>1. bridge.closed = FALSE /\ bridge.events = <<>> /\ bridge \in Bridges(Events)
  BY EmptySeq DEF Init, OpenBridge, Bridges
<1>2. TypeOK
  <2>1. batch \in Seq(Events) /\ wire \in Seq(Frame)
    BY EmptySeq DEF Init
  <2>2. /\ 0 \in 0..MaxStarts /\ 0 \in 0..MaxChunks /\ 0 \in 0..MaxLevel
        /\ 0 \in 0..MaxRaises /\ 0 \in Nat
    BY BoundsAssumption
  <2> QED
    BY <1>1, <2>1, <2>2 DEF Init, TypeOK
<1>3. Pipe = <<>> /\ Len(Pipe) = 0 /\ OnTheWire = 0
  <2>1. Pipe = <<>>
    BY <1>1 DEF Init, Pipe
  <2> QED
    BY <2>1, EmptySeq DEF Init, OnTheWire
<1>4. Stages /\ Shapes /\ OnWire
  BY <1>1 DEF Init, Stages, Shapes, OnWire
<1>5. InThePipe /\ Beginning
  BY <1>3 DEF Init, InThePipe, Beginning
<1>6. HeldBack
  BY <1>3 DEF Init, HeldBack, Waiting
<1> QED
  BY <1>2, <1>4, <1>5, <1>6 DEF IInv

LEMMA NextIInv == IInv /\ [Next]_vars => IInv'
<1> SUFFICES ASSUME IInv, [Next]_vars PROVE IInv'
  OBVIOUS
<1>1. CASE UNCHANGED vars
  <2>1. UNCHANGED <<senderVars, appVars, filter, responseClosed, wire, batch, bridge,
                    acknowledged, written, commits, level, raises>>
    BY <1>1 DEF vars, filterVars
  <2>2. TypeOK'
    BY <2>1 DEF IInv, TypeOK, senderVars, appVars
  <2>3. Pipe' = Pipe /\ Shapes'
    BY <2>1 DEF Pipe, IInv, Shapes
  <2>4. Stages'
    BY <2>1 DEF IInv, Stages, senderVars, appVars
  <2> QED
    BY <2>1, <2>2, <2>3, <2>4, FilterIdles
<1>2. CASE Next
  BY <1>1, <1>2, AppStepIInv, FilterStepIInv DEF Next, Terminated
<1> QED
  BY <1>1, <1>2

\* What the invariant says holds of every execution.
THEOREM Inductive == Safety => []IInv
BY InitIInv, NextIInv, PTL DEF Safety

\* The state is well formed throughout.
THEOREM TypeCorrect == Safety => []TypeOK
<1>1. IInv => TypeOK
  BY DEF IInv
<1> QED
  BY <1>1, Inductive, PTL

\* The positions of the chunks when the rest of the wire is known.
LEMMA ChunksAreAt ==
  ASSUME NEW n \in Nat, Position("data") = 2..(n + 1)
  PROVE  ChunksSent = n
<1>1. Cardinality(2..(n + 1)) = IF 2 > n + 1 THEN 0 ELSE (n + 1) - 2 + 1
  BY FS_Interval
<1>2. ChunksSent = Cardinality(2..(n + 1))
  BY DEF ChunksSent
<1> QED
  BY <1>1, <1>2

LEMMA ChunksOfAnEnd ==
  ASSUME IInv, Position("end") # {}
  PROVE  ChunksSent = produced
<1>1. PICK k \in DOMAIN wire : wire[k][1] = "end"
  BY DEF Position
<1>2. k = Len(wire) /\ produced = IF k = 1 THEN 0 ELSE k - 2
  BY <1>1 DEF IInv, OnWire
<1>3. Len(wire) \in Nat /\ DOMAIN wire = 1..Len(wire)
  BY Lengths DEF IInv
<1>4. ASSUME NEW j \in DOMAIN wire PROVE wire[j][1] = "data" <=> j # 1 /\ j # k
  <2>1. CASE j = k
    BY <1>1, <2>1
  <2>2. CASE j # k
    <3>1. /\ wire[j] \in {<<"headers", starts>>, <<"data", j - 1>>, <<"end", 0>>, <<"error", 0>>}
          /\ wire[j][1] = "headers" => j = 1
          /\ wire[j][1] = "data" => j # 1
          /\ ~(wire[j][1] \in {"end", "error"})
      BY <1>2, <2>2 DEF IInv, OnWire
    <3>2. wire[j][1] \in {"headers", "data", "end", "error"}
      BY <3>1
    <3> QED
      BY <2>2, <3>1, <3>2
  <2> QED
    BY <2>1, <2>2
<1>5. Position("data") = {j \in 1..k : j # 1 /\ j # k}
  BY <1>2, <1>3, <1>4 DEF Position
<1>6. CASE k = 1
  <2>1. 0 \in Nat /\ Position("data") = 2..(0 + 1) /\ produced = 0
    BY <1>2, <1>5, <1>6
  <2> QED
    BY <2>1, ChunksAreAt
<1>7. CASE k # 1
  <2>1. k \in Nat /\ k >= 2 /\ k - 2 \in Nat /\ produced = k - 2
    BY <1>2, <1>3, <1>7
  <2>2. {j \in 1..k : j # 1 /\ j # k} = 2..((k - 2) + 1)
    BY <2>1
  <2> QED
    BY <1>5, <2>1, <2>2, ChunksAreAt
<1> QED
  BY <1>6, <1>7

LEMMA ChunksOfALiveResponse ==
  ASSUME IInv, filter = "live"
  PROVE  ChunksSent = OnTheWire
<1>1. /\ OnTheWire \in Nat /\ DOMAIN wire = 1..Len(wire) /\ Len(wire) \in Nat
      /\ wire = <<>> <=> Len(wire) = 0
  BY Lengths DEF IInv
<1>2. Holds(wire, OnTheWire)
  BY LiveWire
<1>3. Position("data") = 2..(OnTheWire + 1)
  <2>1. CASE wire = <<>>
    BY <1>1, <2>1 DEF Position, OnTheWire
  <2>2. CASE wire # <<>>
    <3>1. /\ Len(wire) = OnTheWire + 1 /\ wire[1] = <<"headers", starts>>
          /\ \A k \in 2..(OnTheWire + 1) : wire[k] = <<"data", k - 1>>
      BY <1>2, <2>2 DEF Holds
    <3>2. wire[1][1] = "headers" /\ \A k \in 2..(OnTheWire + 1) : wire[k][1] = "data"
      BY <3>1
    <3>3. \A k \in 1..(OnTheWire + 1) : k = 1 \/ k \in 2..(OnTheWire + 1)
      BY <1>1
    <3>4. \A k \in 2..(OnTheWire + 1) : k \in 1..(OnTheWire + 1)
      BY <1>1
    <3>5. \A k : k \in Position("data") <=> k \in 1..(OnTheWire + 1) /\ wire[k][1] = "data"
      BY <1>1, <3>1 DEF Position
    <3> QED
      BY <3>2, <3>3, <3>4, <3>5
  <2> QED
    BY <2>1, <2>2
<1> QED
  BY <1>1, <1>3, ChunksAreAt

\* What goes downstream is a response: one set of headers, the latest, then the
\* chunks in order, and nothing after the end, which comes after all of them.
THEOREM ResponsesAreWellFormed == Safety => []WellFormedResponse
<1>1. IInv => WellFormedResponse
  <2> SUFFICES ASSUME IInv PROVE WellFormedResponse
    OBVIOUS
  <2>0. TypeOK /\ OnWire
    BY DEF IInv
  <2>1. ASSUME wire # <<>>, ~TrailersOnly
        PROVE  wire[1] \in {<<"headers", starts>>, <<"error", 0>>}
    <3>1. 1 \in DOMAIN wire
      BY <2>1, Lengths DEF IInv
    <3>2. wire[1] \in {<<"headers", starts>>, <<"data", 1 - 1>>, <<"end", 0>>, <<"error", 0>>}
      BY <2>0, <3>1 DEF OnWire
    <3>3. wire[1][1] # "data" /\ (wire[1][1] = "end" => TrailersOnly)
      BY <2>0, <3>1 DEF OnWire, TrailersOnly
    <3>4. wire[1][1] # "data" /\ wire[1][1] # "end"
      BY <2>1, <3>3
    <3> QED
      BY <3>2, <3>4
  <2>2. Position("headers") \subseteq {1}
    BY <2>0 DEF OnWire, Position
  <2>3. Position("end") \cup Position("error") \subseteq {Len(wire)}
    BY <2>0 DEF OnWire, Position
  <2>4. ASSUME NEW k \in Position("data") PROVE wire[k] = <<"data", k - 1>>
    <3>1. /\ wire[k] \in {<<"headers", starts>>, <<"data", k - 1>>, <<"end", 0>>, <<"error", 0>>}
          /\ wire[k][1] = "data"
      BY <2>0, <2>4 DEF OnWire, Position
    <3> QED
      BY <3>1
  <2>5. Position("end") # {} => ChunksSent = produced
    BY ChunksOfAnEnd
  <2> QED
    BY <2>0, <2>1, <2>2, <2>3, <2>4, <2>5 DEF WellFormedResponse
<1> QED
  BY <1>1, Inductive, PTL

\* The wait for response_written after each item keeps an application that yields
\* its chunks at most one ahead of those the filter has begun to send.
THEOREM IterationsAreHeldBack == Safety => []IterationIsHeldBack
<1>1. IInv => IterationIsHeldBack
  <2> SUFFICES ASSUME IInv, filter = "live", ~usesWrite
               PROVE  ChunksAhead <= IF acknowledged THEN 2 ELSE 1
    BY DEF IterationIsHeldBack
  <2>1. /\ produced \in Nat /\ written \in Nat /\ OnTheWire \in Nat /\ Waiting \in 0..1
        /\ acknowledged \in BOOLEAN
    BY Lengths DEF IInv, TypeOK, Waiting
  <2>2. \/ produced + written <= OnTheWire + Waiting + (IF acknowledged THEN 1 ELSE 0)
        \/ produced <= 1
    BY DEF IInv, HeldBack
  <2>3. ChunksAhead = produced - OnTheWire
    BY ChunksOfALiveResponse DEF ChunksAhead
  <2> HIDE DEF Waiting, OnTheWire
  <2>4. produced - OnTheWire <= IF acknowledged THEN 2 ELSE 1
    BY <2>1, <2>2
  <2> QED
    BY <2>3, <2>4
<1> QED
  BY <1>1, Inductive, PTL
=============================================================================
