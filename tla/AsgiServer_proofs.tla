--------------------------- MODULE AsgiServer_proofs ---------------------------
(***************************************************************************)
(* Proofs about the two halves of an ASGI request.                         *)
(*                                                                         *)
(* AsgiSend, for every number of chunks, of trailers messages and of       *)
(* watermark callbacks: each future of a send is completed once, what the  *)
(* filter sends is one well-formed response with at most a late reset      *)
(* behind it, and an application that awaits its sends is held back.  They *)
(* rest on what the events in the pipe between send and the filter are:    *)
(* while the filter is live, their order and their content follow from how *)
(* many chunks, trailers messages and exceptions were sent and how many    *)
(* are in the response (InThePipe).  The response is the wire with the     *)
(* frames that the filter is about to send, and without a late reset.      *)
(*                                                                         *)
(* AsgiReceive (the instance Rcv), for every length of the body, every     *)
(* window and every number of receives: each future is completed once,     *)
(* with events that are true.  Both rest on one fact, that the futures on  *)
(* the loop and then those on the bridge are the last ones that receive    *)
(* returned, in their order (ReceivesNumbered).                            *)
(***************************************************************************)
EXTENDS AsgiSend, MCAsgiReceive, SequenceFacts, FiniteSetTheorems

-----------------------------------------------------------------------------
(* The inductive invariant.                                                *)

\* The events on their way to the wire, the oldest first.
Pipe == batch \o sendBridge.events

\* A reset behind the end of the response, and the response without it and with
\* the frames that are about to be sent.
LateReset == Len(wire) > 1 /\ wire[Len(wire) - 1][1] \in {"end", "trailers"}
Response == IF LateReset THEN Front(wire) ELSE wire \o sending

Finals == {"end", "trailers", "reset"}
Ended == Response # <<>> /\ Response[Len(Response)][1] \in Finals

\* The chunks that are in the response, and those that are in the pipe.
Taken == IF Response = <<>> THEN 0 ELSE IF Ended THEN Len(Response) - 2 ELSE Len(Response) - 1
Ahead == produced - Taken

\* The trailers, exceptions and bodies in the pipe.
Gathered == IF responseTrailers = NoTrailers THEN 0 ELSE responseTrailers
Trailing == IF trailersAccepted THEN trailersSent - Gathered ELSE 0
Failing == IF app = "raised" THEN 1 ELSE 0
Bodies == Len(Pipe) - Trailing - Failing

BodyNext == nextEvent \in {"Start", "Body", "BodyThenTrailers"}

Counters ==
  /\ responseTrailers <= trailersSent
  /\ produced - 1 <= Len(sends)
  /\ BodyNext => trailersSent = 0 /\ Len(sends) = produced
  /\ trailersFailed => nextEvent = "Done" /\ trailersAccepted

Stages ==
  /\ sendBridge.closed <=> filter # "live"
  /\ closed => filter # "live"
  /\ level <= raises
  /\ filter = "dropped" => batch = <<>>
  /\ filter # "live" =>
       \A k \in DOMAIN batch : batch[k].kind = "Exception" /\ ~batch[k].future

\* The frames that are about to be sent are one chunk and perhaps the headers.
Underway ==
  sending # <<>> =>
    /\ filter = "live"
    /\ IF wire = <<>> THEN Len(sending) = 2 ELSE Len(sending) = 1

\* An exception that was drained with the end of the response, and its reset.
Overdue ==
  /\ LateReset => filter # "live" /\ batch = <<>> /\ app = "raised" /\ Last(wire) = <<"reset", 0>>
  /\ filter # "live" /\ batch # <<>> =>
       /\ ~LateReset /\ Len(batch) = 1 /\ app = "raised"
       /\ wire # <<>> /\ Last(wire)[1] \in {"end", "trailers"}

\* The response begins with headers, or is an error page, and ends with at most
\* one frame that is not data.
OnWire ==
  /\ Response # <<>> => \/ Response[1] = <<"headers", 0>>
                        \/ Response[1] = <<"error", 0>> /\ Len(Response) = 1 /\ filter # "live"
  /\ \A k \in 2..Len(Response) :
       \/ Response[k] = <<"data", k - 1>>
       \/ k = Len(Response) /\ Response[k][1] \in Finals /\ filter # "live"

\* What the last frame says of what was sent.
Truthful ==
  Ended =>
    LET last == Response[Len(Response)]
    IN  /\ last[1] # "reset" => Taken = produced /\ ~BodyNext /\ ~trailersFailed
        /\ last[1] = "end" => ~trailersAccepted \/ (nextEvent = "Done" /\ trailersSent = 0)
        /\ last[1] = "trailers" => nextEvent = "Done" /\ last[2] = trailersSent

\* The bodies are ahead of the trailers and these of the exception.  The first
\* bodies carry the chunks that are not downstream, in order, and a future waits
\* in each of them that is not the last of the response.
InThePipe ==
  \A k \in 1..Len(Pipe) :
    /\ k <= Ahead => Pipe[k].chunk = Taken + k
    /\ k > Ahead => Pipe[k].chunk = 0
    /\ Pipe[k].future <=> k <= Ahead /\ Taken + k <= Len(sends)
    /\ Pipe[k].start # "none" => Pipe[k].kind = "Start"
    /\ Pipe[k].kind = "Start" => k = 1 /\ Response = <<>>
    /\ k <= Bodies => Pipe[k].kind \in {"Start", "Body"}
    /\ k > Bodies /\ k <= Bodies + Trailing => Pipe[k].kind \in {"MoreTrailers", "Trailers"}
    /\ k > Bodies + Trailing => Pipe[k].kind = "Exception"
    /\ Pipe[k].kind = "Trailers" => k = Bodies + Trailing /\ nextEvent = "Done" /\ ~trailersFailed

\* One body more than there are chunks is an empty one that ended the response.
Sizes ==
  /\ Ahead >= 0 /\ Trailing >= 0
  /\ Ahead <= Bodies /\ Bodies <= Ahead + 1
  /\ Bodies = Ahead + 1 => Len(sends) = produced /\ ~BodyNext

\* Trailers are announced, to a client that takes them.
Announced ==
  \/ responseTrailers # NoTrailers \/ responseStart = "trailers"
  \/ Pipe # <<>> /\ Pipe[1].start = "trailers"

\* The response is begun by the event that is first in the pipe, or not yet.
Beginning ==
  /\ Response = <<>> => /\ responseTrailers = NoTrailers
                        /\ Pipe # <<>> => Pipe[1].kind \in {"Start", "Exception"}
  /\ IF nextEvent = "Start" \/ responseStart # "none"
       THEN Response = <<>> /\ Len(Pipe) = Failing /\ BodyNext
       ELSE Response # <<>> \/ Len(Pipe) > Failing
  /\ Announced <=>
       trailersAccepted /\ (\/ nextEvent \in {"BodyThenTrailers", "Trailers"}
                            \/ trailersSent > 0 \/ trailersFailed)

Flowing == filter = "live" => InThePipe /\ Sizes /\ Beginning

\* The futures that have left the pipe, and those that the loop has completed or
\* passed over as cancelled.  The completions on the loop are those in between.
Told == IF filter = "live" /\ Taken < Len(sends) THEN Taken ELSE Len(sends)
Done == Told - Len(loop)

Numbered ==
  /\ Done >= 0
  /\ \A k \in DOMAIN loop : loop[k].chunk = Done + k
  /\ \A n \in DOMAIN sends :
       IF n <= Done THEN sends[n] # "pending" ELSE sends[n] \in {"pending", "cancelled"}

HeldBack == awaits /\ ~AnyCancelled /\ filter = "live" => Ahead <= 1

IInv ==
  /\ TypeOK /\ Counters /\ Stages
  /\ Underway /\ Overdue
  /\ OnWire /\ Truthful /\ Flowing /\ Numbered /\ HeldBack
-----------------------------------------------------------------------------
(* What the steps do, element by element.                                  *)

Completions == [chunk : 1..MaxChunks, result : {"sent", "disconnected"}]
Results == {"pending", "sent", "disconnected", "cancelled"}

\* The completions of chunks from + 1 up to from + n are added to the loop.
Dispatches(n, from) ==
  /\ loop' \in Seq(Completions)
  /\ Len(loop') = Len(loop) + n
  /\ \A k \in 1..Len(loop) : loop'[k] = loop[k]
  /\ \A k \in 1..n : loop'[Len(loop) + k].chunk = from + k

LEMMA Lengths ==
  ASSUME TypeOK
  PROVE  /\ Len(loop) \in Nat /\ DOMAIN loop = 1..Len(loop)
         /\ loop \in Seq(Completions) /\ \A k \in DOMAIN loop : loop[k] \in Completions
         /\ Len(batch) \in Nat /\ DOMAIN batch = 1..Len(batch) /\ batch \in Seq(Events)
         /\ Len(sendBridge.events) \in Nat
         /\ DOMAIN sendBridge.events = 1..Len(sendBridge.events)
         /\ sendBridge.events \in Seq(Events)
         /\ sendBridge = [closed |-> sendBridge.closed, events |-> sendBridge.events]
         /\ sendBridge.closed \in BOOLEAN
         /\ sendBridge.closed => sendBridge.events = <<>>
         /\ Len(sends) \in Nat /\ DOMAIN sends = 1..Len(sends) /\ sends \in Seq(Results)
         /\ \A n \in DOMAIN sends : sends[n] \in Results
         /\ Len(wire) \in Nat /\ DOMAIN wire = 1..Len(wire) /\ wire \in Seq(Frames)
         /\ wire = <<>> <=> Len(wire) = 0
         /\ sending \in Seq(Frames)
         /\ Len(Response) \in Nat /\ DOMAIN Response = 1..Len(Response) /\ Response \in Seq(Frames)
         /\ \A k \in DOMAIN Response : Response[k] \in Frames
         /\ Response = <<>> <=> Len(Response) = 0
<1>1. /\ loop \in Seq(Completions) /\ batch \in Seq(Events) /\ sends \in Seq(Results)
      /\ wire \in Seq(Frames) /\ sending \in Seq(Frames) /\ sendBridge \in Bridges(Events)
  BY DEF TypeOK, Completions, Results, Frames
<1>2. /\ sendBridge.events \in Seq(Events) /\ sendBridge.closed \in BOOLEAN
      /\ sendBridge = [closed |-> sendBridge.closed, events |-> sendBridge.events]
      /\ sendBridge.closed => sendBridge.events = <<>>
  BY <1>1 DEF Bridges
<1>3. Response \in Seq(Frames)
  <2>1. CASE LateReset
    <3>1. wire # <<>>
      BY <2>1, EmptySeq DEF LateReset
    <3>2. Front(wire) \in Seq(Frames)
      BY <1>1, <3>1, FrontFacts
    <3> QED
      BY <2>1, <3>2 DEF Response
  <2>2. CASE ~LateReset
    <3>1. wire \o sending \in Seq(Frames)
      BY <1>1, ConcatFacts
    <3> QED
      BY <2>2, <3>1 DEF Response
  <2> QED
    BY <2>1, <2>2
<1> QED
  BY <1>1, <1>2, <1>3, LenProperties, ElementOfSeq, EmptySeq

\* While the filter is live, the response is what it has sent and what it is about
\* to send.
LEMMA LiveResponse ==
  ASSUME TypeOK, Overdue, filter = "live"
  PROVE  /\ ~LateReset /\ Response = wire \o sending
         /\ sending = <<>> => Response = wire
<1>1. ~LateReset
  BY DEF Overdue
<1>2. \A w \in Seq(Frames) : w \o <<>> = w
  OBVIOUS
<1> QED
  BY <1>1, <1>2, Lengths DEF Response

\* A step that sends nothing keeps the response.
LEMMA Untouched ==
  ASSUME Underway, Overdue, UNCHANGED <<wire, sending>>,
         filter' = "live" <=> filter = "live",
         batch' = batch \/ filter = "live",
         app = "raised" => app' = "raised"
  PROVE  Response' = Response /\ Underway' /\ Overdue'
<1>1. Response' = Response /\ LateReset' = LateReset
  BY DEF Response, LateReset
<1>2. Underway'
  BY DEF Underway
<1>3. Overdue'
  BY <1>1 DEF Overdue
<1> QED
  BY <1>1, <1>2, <1>3

\* What is left without the last element.
LEMMA FrontOfAppend ==
  ASSUME NEW S, NEW w \in Seq(S), NEW f \in S
  PROVE  Front(Append(w, f)) = w
<1> DEFINE v == Append(w, f)
<1>1. v \in Seq(S) /\ Len(v) = Len(w) + 1 /\ Len(w) \in Nat
      /\ \A k \in 1..Len(w) : v[k] = w[k]
  BY AppendFacts
<1> HIDE DEF v
<1>2. v # <<>>
  <2>1. Len(v) # 0
    BY <1>1
  <2> QED
    BY <1>1, <2>1, EmptySeq
<1>3. /\ Front(v) \in Seq(S) /\ Len(Front(v)) = Len(v) - 1
      /\ \A k \in 1..(Len(v) - 1) : Front(v)[k] = v[k]
  BY <1>1, <1>2, FrontFacts
<1>4. Len(Front(v)) = Len(w) /\ \A k \in 1..Len(w) : Front(v)[k] = w[k]
  BY <1>1, <1>3
<1> DEFINE u == Front(v)
<1>5. u \in Seq(S) /\ Len(u) = Len(w) /\ \A k \in 1..Len(w) : u[k] = w[k]
  BY <1>3, <1>4
<1> HIDE DEF u
<1>6. u = w
  BY <1>5, SeqEqual
<1> QED
  BY <1>6 DEF u, v

\* The response that is sent at once is not late: before its last frame there are
\* only headers and chunks.
LEMMA Enlarged ==
  ASSUME NEW r \in Seq(Frames), wire' = r, sending' = <<>>,
         \A k \in 1..(Len(r) - 1) : r[k][1] \in {"headers", "data"}
  PROVE  ~LateReset' /\ Response' = r
<1>1. Len(r) \in Nat /\ r \o <<>> = r
  BY LenProperties
<1>2. Len(r) > 1 => Len(r) - 1 \in 1..(Len(r) - 1)
  BY <1>1
<1>3. ~LateReset'
  BY <1>2 DEF LateReset
<1> QED
  BY <1>1, <1>3 DEF Response

\* The events in the pipe.
LEMMA PipeFacts ==
  ASSUME NEW b \in Seq(Events), NEW s \in Seq(Events)
  PROVE  /\ b \o s \in Seq(Events)
         /\ Len(b \o s) = Len(b) + Len(s) /\ Len(b \o s) \in Nat
         /\ DOMAIN (b \o s) = 1..Len(b \o s)
         /\ \A k \in 1..Len(b \o s) : (b \o s)[k] \in Events
         /\ \A k \in 1..Len(b) : (b \o s)[k] = b[k]
         /\ \A k \in 1..Len(s) : (b \o s)[Len(b) + k] = s[k]
         /\ b \o s = <<>> <=> Len(b \o s) = 0
<1>1. b \o s \in Seq(Events) /\ Len(b \o s) = Len(b) + Len(s)
  BY ConcatFacts
<1>2. Len(b \o s) \in Nat /\ DOMAIN (b \o s) = 1..Len(b \o s)
  BY <1>1, LenProperties
<1>3. \A k \in 1..Len(b \o s) : (b \o s)[k] \in Events
  BY <1>1, <1>2, ElementOfSeq
<1>4. b \o s = <<>> <=> Len(b \o s) = 0
  BY <1>1, EmptySeq
<1>5. \A k \in 1..Len(b) : (b \o s)[k] = b[k]
  BY ConcatFacts
<1>6. \A k \in 1..Len(s) : (b \o s)[Len(b) + k] = s[k]
  BY ConcatFacts
<1> QED
  BY <1>1, <1>2, <1>3, <1>4, <1>5, <1>6

\* The futures of the first m events are completed in the order of the events.
LEMMA DroppedFacts ==
  ASSUME NEW events \in Seq(Events), NEW m \in Nat, m <= Len(events),
         \A i \in 1..Len(events) : events[i].future <=> i <= m,
         \A i \in 1..m : events[i].chunk # 0
  PROVE  /\ DroppedFutures(events) \in Seq(Completions)
         /\ Len(DroppedFutures(events)) = m
         /\ \A k \in 1..m : DroppedFutures(events)[k].chunk = events[k].chunk
<1> DEFINE waiting == {i \in DOMAIN events : events[i].future}
           Nth(k) == CHOOSE i \in waiting : Cardinality({j \in waiting : j <= i}) = k
           dropped == [k \in 1..m |-> Completion(events[k].chunk, "disconnected")]
<1>1. Len(events) \in Nat /\ DOMAIN events = 1..Len(events)
  BY LenProperties
<1>2. waiting = 1..m
  BY <1>1
<1>3. \A i \in 0..m : Cardinality(1..i) = i
  <2>1. \A i \in 0..m : Cardinality(1..i) = IF 1 > i THEN 0 ELSE i - 1 + 1
    BY FS_Interval
  <2> QED
    BY <2>1
<1>4. Cardinality(waiting) = m
  <2> HIDE DEF waiting
  <2> QED
    BY <1>2, <1>3
<1>5. ASSUME NEW k \in 1..m PROVE Nth(k) = k
  <2>1. \A i \in waiting : {j \in waiting : j <= i} = 1..i
    BY <1>2
  <2>2. k \in waiting
    BY <1>2
  <2> HIDE DEF waiting
  <2>3. \A i \in waiting : i \in 0..m
    BY <1>2
  <2>4. \A i \in waiting : Cardinality({j \in waiting : j <= i}) = i
    BY <1>3, <2>1, <2>3
  <2> QED
    BY <2>2, <2>4
<1>6. dropped \in [1..m -> Completions]
  <2> HIDE DEF dropped
  <2>1. \A k \in 1..Len(events) : events[k].chunk \in 0..MaxChunks
    <3>1. \A k \in 1..Len(events) : events[k] \in Events
      BY ElementOfSeq
    <3> QED
      BY <3>1 DEF Events
  <2>2. \A k \in 1..m : events[k].chunk \in 1..MaxChunks
    BY <2>1, BoundsAssumption
  <2> QED
    BY <2>2 DEF Completion, Completions, dropped
<1>7. DroppedFutures(events) = [k \in 1..m |-> Completion(events[Nth(k)].chunk, "disconnected")]
  <2>1. DroppedFutures(events) =
          [k \in 1..Cardinality(waiting) |-> Completion(events[Nth(k)].chunk, "disconnected")]
    BY DEF DroppedFutures
  <2> HIDE DEF waiting, Nth
  <2> QED
    BY <1>4, <2>1
<1>8. \A k \in 1..m : /\ DroppedFutures(events)[k] = dropped[k]
                      /\ dropped[k].chunk = events[k].chunk
  <2> HIDE DEF Nth
  <2> QED
    BY <1>5, <1>7 DEF Completion
<1>9. DroppedFutures(events) \in [1..m -> Completions]
  <2> DEFINE F == DroppedFutures(events)
  <2>1. DOMAIN F = 1..m /\ F = [k \in DOMAIN F |-> F[k]]
    <3> HIDE DEF Nth
    <3> QED
      BY <1>7
  <2>2. \A k \in 1..m : F[k] \in Completions
    <3> HIDE DEF dropped, F
    <3>1. \A k \in 1..m : F[k] = dropped[k]
      BY <1>8 DEF F
    <3> QED
      BY <1>6, <3>1
  <2> HIDE DEF F
  <2>3. F \in [1..m -> Completions]
    BY <2>1, <2>2
  <2> QED
    BY <2>3 DEF F
<1> HIDE DEF dropped
<1> QED
  BY <1>8, <1>9, FunctionIsSeq

\* Whatever is added to the loop is dispatched after what is on it.
LEMMA DispatchFacts ==
  ASSUME TypeOK, NEW added \in Seq(Completions), loop' = loop \o added,
         NEW from \in Int, \A k \in 1..Len(added) : added[k].chunk = from + k
  PROVE  Dispatches(Len(added), from)
<1>1. loop \in Seq(Completions)
  BY Lengths
<1>2. /\ loop \o added \in Seq(Completions)
      /\ Len(loop \o added) = Len(loop) + Len(added)
      /\ \A k \in 1..Len(loop) : (loop \o added)[k] = loop[k]
      /\ \A k \in 1..Len(added) : (loop \o added)[Len(loop) + k] = added[k]
  BY <1>1, ConcatFacts
<1> QED
  BY <1>2 DEF Dispatches

LEMMA NothingDispatched ==
  ASSUME TypeOK, loop' = loop, NEW from
  PROVE  Dispatches(0, from)
  BY Lengths DEF Dispatches

\* A completion is put at the end of the loop.
LEMMA OneDispatched ==
  ASSUME TypeOK, NEW n \in 1..MaxChunks, NEW from \in Int, n = from + 1,
         NEW result \in {"sent", "disconnected"}, loop' = Append(loop, Completion(n, result))
  PROVE  Dispatches(1, from)
<1>1. Completion(n, result) \in Completions /\ Completion(n, result).chunk = n
  BY DEF Completion, Completions
<1>2. loop \in Seq(Completions)
  BY Lengths
<1>3. /\ loop' \in Seq(Completions) /\ Len(loop') = Len(loop) + 1
      /\ \A k \in 1..Len(loop) : loop'[k] = loop[k]
      /\ loop'[Len(loop) + 1].chunk = n
  BY <1>1, <1>2, AppendFacts
<1> QED
  BY <1>3 DEF Dispatches

\* What send leaves of its event.
LEMMA SendEventFacts ==
  ASSUME TypeOK, NEW e \in Events, e.future => e.chunk # 0, SendEvent(e), batch' = batch
  PROVE  /\ sendBridge' \in Bridges(Events) /\ committing' \in BOOLEAN
         /\ sendBridge'.closed = sendBridge.closed
         /\ sendBridge.closed =>
              Dispatches(IF e.future THEN 1 ELSE 0, e.chunk - 1)
         /\ ~sendBridge.closed =>
              /\ Dispatches(0, 0)
              /\ Pipe \in Seq(Events) /\ Pipe' = Append(Pipe, e)
<1>1. CASE sendBridge.closed
  <2>1. sendBridge' = sendBridge /\ loop' = loop \o DroppedFutures(<<e>>) /\ committing' = FALSE
    BY <1>1 DEF SendEvent, Sent
  <2> DEFINE one == <<e>>
             m == IF e.future THEN 1 ELSE 0
  <2>2. one \in Seq(Events) /\ Len(one) = 1 /\ one[1] = e
    OBVIOUS
  <2>3. m \in Nat /\ m <= Len(one)
    BY <2>2
  <2>4. e.future \in BOOLEAN /\ e.chunk \in 0..MaxChunks
    BY DEF Events
  <2>5. \A i \in 1..Len(one) : one[i].future <=> i <= m
    BY <2>2, <2>4
  <2>6. \A i \in 1..m : one[i].chunk # 0
    BY <2>2
  <2>7. loop' = loop \o DroppedFutures(one)
    BY <2>1
  <2>8. \A k \in 1..m : one[k].chunk = (e.chunk - 1) + k
    BY <2>2, <2>4, BoundsAssumption
  <2>9. e.chunk - 1 \in Int
    BY <2>4, BoundsAssumption
  <2> HIDE DEF one, m
  <2>10. /\ DroppedFutures(one) \in Seq(Completions) /\ Len(DroppedFutures(one)) = m
         /\ \A k \in 1..m : DroppedFutures(one)[k].chunk = one[k].chunk
    BY <2>2, <2>3, <2>5, <2>6, DroppedFacts
  <2>11. Dispatches(m, e.chunk - 1)
    BY <2>7, <2>8, <2>9, <2>10, DispatchFacts
  <2> USE DEF m
  <2> QED
    BY <1>1, <2>1, <2>11 DEF TypeOK
<1>2. CASE ~sendBridge.closed
  <2>1. /\ sendBridge' = [sendBridge EXCEPT !.events = Append(@, e)]
        /\ loop' = loop /\ committing' = TRUE
    BY <1>2 DEF SendEvent, Sent, TypeOK, Bridges
  <2>2. /\ sendBridge'.closed = sendBridge.closed
        /\ sendBridge'.events = Append(sendBridge.events, e)
    BY <2>1 DEF TypeOK, Bridges
  <2>3. sendBridge' \in Bridges(Events)
    <3>1. Append(sendBridge.events, e) \in Seq(Events)
      BY Lengths, AppendFacts
    <3>2. sendBridge' = [closed |-> sendBridge.closed, events |-> Append(sendBridge.events, e)]
      BY <2>1, Lengths
    <3> HIDE DEF TypeOK
    <3> QED
      BY <1>2, <3>1, <3>2, Lengths DEF Bridges
  <2>4. Pipe \in Seq(Events)
    BY Lengths, PipeFacts DEF Pipe
  <2>5. Pipe' = Append(Pipe, e)
    <3>1. \A b, s \in Seq(Events) : b \o Append(s, e) = Append(b \o s, e)
      OBVIOUS
    <3> QED
      BY <2>2, <3>1, Lengths DEF Pipe
  <2> QED
    BY <1>2, <2>1, <2>2, <2>3, <2>4, <2>5, NothingDispatched
<1>3. sendBridge.closed \in BOOLEAN
  BY Lengths
<1> QED
  BY <1>1, <1>2, <1>3

\* What is left when the stream is complete: the first m of the events on the
\* bridge hold a future.
LEMMA CompletedFacts ==
  ASSUME TypeOK, Completed, NEW m \in Nat, m <= Len(sendBridge.events),
         NEW from \in Int,
         \A i \in 1..Len(sendBridge.events) : sendBridge.events[i].future <=> i <= m,
         \A i \in 1..m : sendBridge.events[i].chunk = from + i,
         from >= 0
  PROVE  /\ Dispatches(m, from)
         /\ sendBridge' \in Bridges(Events) /\ sendBridge'.closed /\ filter' = "complete"
<1> DEFINE events == sendBridge.events
<1>1. loop' = loop \o DroppedFutures(events) /\ sendBridge' = ClosedBridge
      /\ filter' = "complete"
  BY DEF Completed
<1>2. events \in Seq(Events)
  BY Lengths
<1> HIDE DEF events
<1>3. \A i \in 1..m : events[i].chunk # 0 /\ events[i].chunk = from + i
  BY DEF events
<1>4. m <= Len(events) /\ \A i \in 1..Len(events) : events[i].future <=> i <= m
  BY DEF events
<1>5. /\ DroppedFutures(events) \in Seq(Completions) /\ Len(DroppedFutures(events)) = m
      /\ \A k \in 1..m : DroppedFutures(events)[k].chunk = events[k].chunk
  BY <1>2, <1>3, <1>4, DroppedFacts
<1>6. Dispatches(m, from)
  BY <1>1, <1>3, <1>5, DispatchFacts
<1>7. sendBridge' \in Bridges(Events)
  BY <1>1, EmptySeq DEF ClosedBridge, Bridges
<1> QED
  BY <1>1, <1>6, <1>7 DEF ClosedBridge
-----------------------------------------------------------------------------
(* The futures.                                                            *)

LEMMA Numbers ==
  ASSUME TypeOK
  PROVE  /\ Taken \in Int /\ Ahead \in Int /\ produced \in Nat
         /\ Taken + Ahead = produced
         /\ Told \in Int /\ Done \in Int
         /\ Gathered \in Int /\ Trailing \in Int /\ Failing \in 0..1
         /\ trailersSent \in Nat /\ responseTrailers \in Int
         /\ Len(Pipe) \in Nat /\ DOMAIN Pipe = 1..Len(Pipe) /\ Bodies \in Int
         /\ Bodies + Trailing + Failing = Len(Pipe)
         /\ Pipe = <<>> <=> Len(Pipe) = 0
         /\ \A k \in 1..Len(Pipe) : Pipe[k] \in Events
<1>1. /\ produced \in Nat /\ trailersSent \in Nat /\ responseTrailers \in Int
  BY BoundsAssumption DEF TypeOK, NoTrailers
<1>2. Taken \in Int
  BY Lengths DEF Taken
<1>3. Ahead \in Int /\ Taken + Ahead = produced
  BY <1>1, <1>2 DEF Ahead
<1>4. Told \in Int /\ Done \in Int
  BY <1>2, Lengths DEF Told, Done
<1>5. Gathered \in Int
  BY <1>1 DEF Gathered
<1>6. Trailing \in Int
  BY <1>1, <1>5 DEF Trailing
<1>7. Failing \in 0..1
  BY DEF Failing
<1>8. /\ Len(Pipe) \in Nat /\ DOMAIN Pipe = 1..Len(Pipe) /\ Pipe = <<>> <=> Len(Pipe) = 0
      /\ \A k \in 1..Len(Pipe) : Pipe[k] \in Events
  BY Lengths, PipeFacts DEF Pipe
<1>9. Bodies \in Int /\ Bodies + Trailing + Failing = Len(Pipe)
  BY <1>6, <1>7, <1>8 DEF Bodies
<1> QED
  BY <1>1, <1>2, <1>3, <1>4, <1>5, <1>6, <1>7, <1>8, <1>9

\* The futures stay numbered when those that leave the pipe are dispatched, and
\* those of a send are pending.
LEMMA NumberedSteady ==
  ASSUME TypeOK, Numbered, NEW n \in Nat, Dispatches(n, Told), Told' = Told + n,
         sends' \in {sends, Append(sends, "pending")}
  PROVE  Numbered'
<1>1. /\ Len(loop) \in Nat /\ Len(loop') = Len(loop) + n
      /\ DOMAIN loop = 1..Len(loop) /\ DOMAIN loop' = 1..Len(loop')
  BY Lengths, LenProperties DEF Dispatches
<1>2. Done \in Int /\ Told \in Int /\ Done = Told - Len(loop)
  BY Numbers DEF Done
<1>3. Done' = Done
  <2>1. Done' = Told' - Len(loop')
    BY DEF Done
  <2> QED
    BY <1>1, <1>2, <2>1
<1>4. ASSUME NEW k \in DOMAIN loop' PROVE loop'[k].chunk = Done' + k
  <2>1. CASE k <= Len(loop)
    <3>1. k \in 1..Len(loop) /\ loop'[k] = loop[k]
      BY <1>1, <2>1 DEF Dispatches
    <3> QED
      BY <1>1, <1>3, <3>1 DEF Numbered
  <2>2. CASE k > Len(loop)
    <3>1. k - Len(loop) \in 1..n
      BY <1>1, <2>2
    <3>2. loop'[Len(loop) + (k - Len(loop))].chunk = Told + (k - Len(loop))
      BY <3>1 DEF Dispatches
    <3>3. Len(loop) + (k - Len(loop)) = k
      BY <1>1
    <3>4. Told + (k - Len(loop)) = Done + k
      BY <1>1, <1>2
    <3> QED
      BY <1>3, <3>2, <3>3, <3>4
  <2> QED
    BY <1>1, <2>1, <2>2
<1>5. ASSUME NEW k \in DOMAIN sends'
      PROVE  IF k <= Done' THEN sends'[k] # "pending" ELSE sends'[k] \in {"pending", "cancelled"}
  <2>1. CASE sends' = sends
    BY <1>3, <2>1 DEF Numbered
  <2>2. CASE sends' = Append(sends, "pending")
    <3>1. "pending" \in Results /\ sends \in Seq(Results)
      BY Lengths DEF Results
    <3>2. /\ DOMAIN sends' = 1..(Len(sends) + 1) /\ DOMAIN sends = 1..Len(sends)
          /\ Len(sends) \in Nat
          /\ \A j \in 1..Len(sends) : sends'[j] = sends[j]
          /\ sends'[Len(sends) + 1] = "pending"
      BY <2>2, <3>1, AppendFacts
    <3>3. CASE k \in 1..Len(sends)
      BY <1>3, <3>2, <3>3 DEF Numbered
    <3>4. CASE k = Len(sends) + 1
      <4>1. Done <= Len(sends)
        <5>1. Told <= Len(sends)
          BY SMTT(60), <3>2, Numbers DEF Told
        <5> QED
          BY <1>1, <1>2, <3>2, <5>1
      <4>2. ~(k <= Done')
        BY <1>2, <1>3, <3>2, <3>4, <4>1
      <4> QED
        BY <3>2, <3>4, <4>2
    <3> QED
      BY <3>2, <3>3, <3>4
  <2> QED
    BY <2>1, <2>2
<1> QED
  BY <1>2, <1>3, <1>4, <1>5 DEF Numbered

\* The loop completes the future that comes next.
LEMMA NumberedRunTask ==
  ASSUME TypeOK, Numbered, RunTask, Told' = Told
  PROVE  Numbered' /\ sends' \in Seq(Results) /\ Len(sends') = Len(sends)
         /\ loop' \in Seq(Completions)
         /\ \A k \in DOMAIN sends : sends[k] = "cancelled" => sends'[k] = "cancelled"
<1> DEFINE k == Head(loop).chunk
<1>1. /\ Len(loop) \in Nat \ {0} /\ loop' \in Seq(Completions)
      /\ Len(loop') = Len(loop) - 1 /\ DOMAIN loop' = 1..(Len(loop) - 1)
      /\ \A j \in 1..(Len(loop) - 1) : loop'[j] = loop[j + 1]
      /\ Head(loop) = loop[1] /\ Head(loop) \in Completions
      /\ DOMAIN loop = 1..Len(loop)
  BY Lengths, TailFacts DEF RunTask
<1>2. /\ Done \in Int /\ Told \in Int /\ Done = Told - Len(loop) /\ Done >= 0
      /\ Told <= Len(sends) /\ Len(sends) \in Nat /\ DOMAIN sends = 1..Len(sends)
  BY SMTT(60), Numbers, Lengths DEF Done, Numbered, Told
<1>3. Done' = Done + 1
  <2>1. Done' = Told' - Len(loop')
    BY DEF Done
  <2> QED
    BY <1>1, <1>2, <2>1
<1>4. k = Done + 1 /\ k \in 1..Len(sends)
  <2>1. loop[1].chunk = Done + 1
    BY <1>1 DEF Numbered
  <2> QED
    BY <1>1, <1>2, <2>1
<1>5. Head(loop).result \in {"sent", "disconnected"}
  BY <1>1 DEF Completions
<1>6. sends' = IF sends[k] = "pending" THEN [sends EXCEPT ![k] = Head(loop).result] ELSE sends
  BY DEF RunTask
<1> HIDE DEF k
<1>7. sends[k] \in {"pending", "cancelled"}
  BY <1>2, <1>4 DEF Numbered
<1>8. /\ sends' \in [1..Len(sends) -> Results]
      /\ \A n \in 1..Len(sends) : n # k => sends'[n] = sends[n]
      /\ sends'[k] \in {"sent", "disconnected", "cancelled"}
      /\ sends[k] = "cancelled" => sends'[k] = "cancelled"
  BY <1>2, <1>4, <1>5, <1>6, <1>7, Lengths DEF Results
<1>9. sends' \in Seq(Results) /\ Len(sends') = Len(sends) /\ DOMAIN sends' = 1..Len(sends)
  BY <1>2, <1>8, FunctionIsSeq
<1>10. \A j \in DOMAIN loop' : loop'[j].chunk = Done' + j
  <2>1. \A j \in 1..(Len(loop) - 1) : loop[j + 1].chunk = Done + (j + 1)
    BY <1>1 DEF Numbered
  <2>2. \A j \in 1..(Len(loop) - 1) : Done + (j + 1) = Done' + j
    BY <1>1, <1>2, <1>3
  <2> QED
    BY <1>1, <2>1, <2>2
<1>11. ASSUME NEW n \in DOMAIN sends'
       PROVE  IF n <= Done' THEN sends'[n] # "pending" ELSE sends'[n] \in {"pending", "cancelled"}
  <2>1. n \in 1..Len(sends) /\ n \in Int
    BY <1>9
  <2>2. CASE n = k
    <3>1. n <= Done'
      BY <1>2, <1>3, <1>4, <2>2
    <3> QED
      BY <1>8, <2>2, <3>1
  <2>3. CASE n # k
    <3>1. n <= Done' <=> n <= Done
      BY <1>2, <1>3, <1>4, <2>1, <2>3
    <3> QED
      BY <1>2, <1>8, <2>1, <2>3, <3>1 DEF Numbered
  <2> QED
    BY <2>2, <2>3
<1> QED
  BY <1>1, <1>2, <1>3, <1>8, <1>9, <1>10, <1>11 DEF Numbered

LEMMA NumberedCancel ==
  ASSUME TypeOK, Numbered, NEW k, CancelSend(k), Told' = Told
  PROVE  Numbered' /\ sends' \in Seq(Results) /\ Len(sends') = Len(sends)
         /\ AnyCancelled'
<1>1. k \in 1..Len(sends) /\ sends[k] = "pending" /\ loop' = loop
      /\ sends' = [sends EXCEPT ![k] = "cancelled"]
  BY Lengths DEF CancelSend
<1>2. /\ sends' \in [1..Len(sends) -> Results]
      /\ \A n \in 1..Len(sends) : n # k => sends'[n] = sends[n]
      /\ sends'[k] = "cancelled"
  BY <1>1, Lengths DEF Results
<1>3. sends' \in Seq(Results) /\ Len(sends') = Len(sends) /\ DOMAIN sends' = 1..Len(sends)
  BY <1>2, Lengths, FunctionIsSeq
<1>4. Done' = Done
  BY <1>1 DEF Done
<1>5. ~(k <= Done)
  BY <1>1, Lengths DEF Numbered
<1>6. Numbered'
  BY <1>1, <1>2, <1>3, <1>4, <1>5, Lengths DEF Numbered
<1>7. AnyCancelled'
  BY <1>1, <1>2, <1>3 DEF AnyCancelled
<1> QED
  BY <1>3, <1>6, <1>7
-----------------------------------------------------------------------------
(* Every step keeps the invariant.  First the steps that move no event and *)
(* no completion, and leave the response as it is.                         *)

Quiet ==
  /\ UNCHANGED <<nextEvent, responseStart, trailersAccepted, awaits, produced, sends,
                 trailersSent, trailersFailed, loop, responseTrailers>>
  /\ Response' = Response /\ Underway' /\ Overdue'
  /\ Pipe' = Pipe
  /\ batch' = batch \/ filter = "live"
  /\ app' = "raised" <=> app = "raised"
  /\ filter' = "live" <=> filter = "live"

LEMMA QuietKeeps ==
  ASSUME IInv, Quiet
  PROVE  /\ Counters' /\ Underway' /\ Overdue'
         /\ OnWire' /\ Truthful' /\ Flowing' /\ Numbered' /\ HeldBack'
<1>0. Response' = Response /\ Underway' /\ Overdue'
  BY DEF Quiet
<1>1. Ended' = Ended /\ Taken' = Taken
  BY <1>0 DEF Ended, Taken
<1>2. Ahead' = Ahead /\ BodyNext' = BodyNext /\ Gathered' = Gathered /\ AnyCancelled' = AnyCancelled
  BY <1>1 DEF Quiet, Ahead, BodyNext, Gathered, AnyCancelled
<1>3. Trailing' = Trailing /\ Failing' = Failing
  BY <1>2 DEF Quiet, Trailing, Failing
<1>4. Bodies' = Bodies
  BY <1>3 DEF Quiet, Bodies
<1>5. Announced' = Announced
  BY DEF Quiet, Announced
<1>6. Told' = Told /\ Done' = Done
  BY <1>1 DEF Quiet, Told, Done
<1>7. Counters'
  BY <1>2 DEF Quiet, IInv, Counters
<1>8. OnWire'
  BY <1>0 DEF Quiet, IInv, OnWire
<1>9. Truthful'
  BY <1>0, <1>1, <1>2 DEF Quiet, IInv, Truthful
<1>10. Flowing'
  <2> SUFFICES ASSUME filter' = "live" PROVE InThePipe' /\ Sizes' /\ Beginning'
    BY DEF Flowing
  <2>1. InThePipe /\ Sizes /\ Beginning
    BY DEF Quiet, IInv, Flowing
  <2>2. InThePipe'
    BY <1>0, <1>1, <1>2, <1>3, <1>4, <2>1 DEF Quiet, InThePipe
  <2>3. Sizes'
    BY <1>2, <1>3, <1>4, <2>1 DEF Quiet, Sizes
  <2>4. Beginning'
    BY <1>0, <1>2, <1>3, <1>5, <2>1 DEF Quiet, Beginning
  <2> QED
    BY <2>2, <2>3, <2>4
<1>11. Numbered'
  BY <1>6 DEF Quiet, IInv, Numbered
<1>12. HeldBack'
  BY <1>2 DEF Quiet, IInv, HeldBack
<1> QED
  BY <1>0, <1>7, <1>8, <1>9, <1>10, <1>11, <1>12

LEMMA OnScheduledStep ==
  ASSUME IInv, OnScheduled
  PROVE  IInv'
<1> USE DEF IInv
<1>1. UNCHANGED <<callVars, appVars, committing, loop, filterVars>> /\ filter # "dropped"
      /\ commits' = commits - 1 /\ commits > 0 /\ batch = <<>>
  BY DEF OnScheduled, Idle
<1>2. \/ batch' = batch /\ sendBridge' = sendBridge
      \/ batch' = sendBridge.events /\ sendBridge' = [closed |-> sendBridge.closed, events |-> <<>>]
  BY Lengths DEF OnScheduled, Drained
<1>3. <<>> \in Seq(Events) /\ \A s \in Seq(Events) : s \o <<>> = s /\ <<>> \o s = s
  OBVIOUS
<1>4. Pipe' = Pipe
  BY <1>1, <1>2, <1>3, Lengths DEF Pipe
<1>5. Quiet
  <2>1. batch' = batch \/ filter = "live"
    BY <1>1, <1>2, Lengths DEF Stages
  <2>2. Response' = Response /\ Underway' /\ Overdue'
    BY <1>1, <2>1, Untouched DEF appVars, filterVars
  <2> QED
    BY <1>1, <1>4, <2>1, <2>2 DEF Quiet, callVars, appVars, filterVars
<1>6. sendBridge' \in Bridges(Events) /\ batch' \in Seq(Events)
  <2>1. [closed |-> sendBridge.closed, events |-> <<>>] \in Bridges(Events)
    BY <1>3, Lengths DEF Bridges
  <2>2. sendBridge \in Bridges(Events) /\ batch \in Seq(Events)
    BY DEF TypeOK
  <2> QED
    BY <1>2, <2>1, <2>2, Lengths
<1>7. commits' \in Nat
  BY <1>1 DEF TypeOK
<1>8. TypeOK'
  BY <1>1, <1>6, <1>7 DEF TypeOK, callVars, appVars, filterVars
<1>9. batch' = <<>> \/ filter = "live" \/ batch' = batch
  BY <1>1, <1>2, Lengths DEF Stages
<1>10. DOMAIN <<>> = {}
  OBVIOUS
<1>11. Stages'
  BY <1>1, <1>2, <1>9, <1>10 DEF Stages, callVars, filterVars
<1> QED
  BY <1>5, <1>8, <1>11, QuietKeeps

LEMMA OtherQuietSteps ==
  ASSUME IInv,
         \/ Commit \/ AboveWatermark \/ BelowWatermark \/ Drop \/ Return
         \/ UNCHANGED vars
  PROVE  IInv'
<1> USE DEF IInv
<1>1. /\ UNCHANGED <<callVars, trailersAccepted, awaits, produced, sends, trailersSent,
                     trailersFailed, sendBridge, loop, batch, sending, responseTrailers, wire>>
      /\ app' \in {app, "returned"} /\ (app' # app => app = "running")
      /\ filter' = filter \/ (filter = "complete" /\ filter' = "dropped" /\ batch = <<>>)
  BY DEF Commit, AboveWatermark, BelowWatermark, Drop, Return, Calls, Idle, vars,
         callVars, appVars, filterVars
<1>2. committing' \in BOOLEAN /\ commits' \in Nat
  <2>1. committing \in BOOLEAN /\ commits \in Nat
    BY DEF TypeOK
  <2>2. CASE Commit
    <3>1. committing' = FALSE /\ commits' \in {commits, commits + 1}
      BY <2>2 DEF Commit
    <3>2. \A c \in Nat : c + 1 \in Nat
      OBVIOUS
    <3>3. commits' \in Nat
      BY <2>1, <3>1, <3>2
    <3> QED
      BY <3>1, <3>3
  <2>3. CASE BelowWatermark
    BY <2>1, <2>3 DEF BelowWatermark
  <2>4. CASE Drop
    BY <2>1, <2>4 DEF Drop
  <2>5. CASE AboveWatermark \/ Return \/ UNCHANGED vars
    BY <2>1, <2>5 DEF AboveWatermark, Return, vars
  <2> QED
    BY <2>2, <2>3, <2>4, <2>5
<1>3. level' \in 0..MaxRaises /\ raises' \in 0..MaxRaises /\ level' <= raises'
  <2>1. level \in 0..MaxRaises /\ raises \in 0..MaxRaises /\ level <= raises /\ MaxRaises \in Nat
    BY BoundsAssumption DEF TypeOK, Stages
  <2>2. CASE level' = level /\ raises' = raises
    BY <2>1, <2>2
  <2>3. CASE AboveWatermark
    BY <2>1, <2>3 DEF AboveWatermark
  <2>4. CASE BelowWatermark
    BY <2>1, <2>4 DEF BelowWatermark
  <2> QED
    BY <2>2, <2>3, <2>4 DEF Commit, Drop, Return, vars, filterVars
<1>7. Response' = Response /\ Underway' /\ Overdue'
  BY <1>1, Untouched
<1>4. Quiet
  BY <1>1, <1>7 DEF Quiet, Pipe, callVars
<1>5. TypeOK'
  BY <1>1, <1>2, <1>3 DEF TypeOK, callVars
<1>6. Stages'
  BY <1>1, <1>3 DEF Stages, callVars
<1> QED
  BY <1>4, <1>5, <1>6, QuietKeeps

\* The loop completes or passes over a future, or one is cancelled.
LEMMA FutureSteps ==
  ASSUME IInv, RunTask \/ \E k \in 1..MaxChunks : CancelSend(k)
  PROVE  IInv'
<1> USE DEF IInv
<1>1. /\ UNCHANGED <<callVars, trailersAccepted, awaits, app, produced, trailersSent,
                     trailersFailed, committing, sendBridge, commits, batch, filterVars>>
  BY DEF RunTask, CancelSend
<1>0. Response' = Response /\ Underway' /\ Overdue'
  BY <1>1, Untouched DEF filterVars
<1>2. Len(sends') = Len(sends) => Told' = Told /\ Taken' = Taken
  BY <1>0, <1>1 DEF Told, Taken, Ended, filterVars
<1>3. Len(sends') = Len(sends)
  <2>1. CASE RunTask
    <3>1. IF sends[Head(loop).chunk] = "pending"
            THEN sends' = [sends EXCEPT ![Head(loop).chunk] = Head(loop).result]
            ELSE sends' = sends
      BY <2>1 DEF RunTask
    <3>2. \A k, r : Len([sends EXCEPT ![k] = r]) = Len(sends)
      BY Lengths
    <3> QED
      BY <3>1, <3>2
  <2>2. CASE \E k \in 1..MaxChunks : CancelSend(k)
    <3>1. \A k, r : Len([sends EXCEPT ![k] = r]) = Len(sends)
      BY Lengths
    <3> QED
      BY <2>2, <3>1 DEF CancelSend
  <2> QED
    BY <2>1, <2>2
<1>4. /\ Numbered' /\ sends' \in Seq(Results)
      /\ loop' \in Seq(Completions)
      /\ AnyCancelled => AnyCancelled'
  <2>1. CASE RunTask
    <3>1. /\ Numbered' /\ sends' \in Seq(Results) /\ loop' \in Seq(Completions)
          /\ \A k \in DOMAIN sends : sends[k] = "cancelled" => sends'[k] = "cancelled"
      BY <1>2, <1>3, <2>1, NumberedRunTask
    <3>2. DOMAIN sends' = DOMAIN sends
      BY <1>3, <3>1, Lengths, LenProperties
    <3> QED
      BY <3>1, <3>2 DEF AnyCancelled
  <2>2. ASSUME NEW k \in 1..MaxChunks, CancelSend(k)
        PROVE  Numbered' /\ sends' \in Seq(Results) /\ AnyCancelled' /\ loop' = loop
    BY <1>2, <1>3, <2>2, NumberedCancel DEF CancelSend
  <2> QED
    BY <2>1, <2>2, Lengths
<1>5. TypeOK'
  BY <1>1, <1>3, <1>4 DEF TypeOK, callVars, filterVars, Results, Completions
<1>6. Counters' /\ BodyNext' = BodyNext
  BY <1>1, <1>3 DEF Counters, BodyNext, callVars, filterVars
<1>7. Stages'
  BY <1>1 DEF Stages, callVars, filterVars
<1>8. OnWire'
  BY <1>0, <1>1 DEF OnWire, filterVars
<1>9. Taken' = Taken /\ Ended' = Ended /\ Ahead' = Ahead
  BY <1>0, <1>1 DEF Taken, Ended, Ahead
<1>10. Truthful'
  BY <1>0, <1>1, <1>6, <1>9 DEF Truthful, callVars
<1>11. Pipe' = Pipe /\ Trailing' = Trailing /\ Failing' = Failing
  BY <1>1 DEF Pipe, Trailing, Failing, Gathered, filterVars
<1>12. Bodies' = Bodies
  BY <1>11 DEF Bodies
<1>13. Flowing'
  <2> SUFFICES ASSUME filter' = "live" PROVE InThePipe' /\ Sizes' /\ Beginning'
    BY DEF Flowing
  <2>1. InThePipe /\ Sizes /\ Beginning
    BY <1>1 DEF Flowing, filterVars
  <2>2. InThePipe'
    BY <1>0, <1>1, <1>3, <1>9, <1>11, <1>12, <2>1 DEF InThePipe, callVars, filterVars
  <2>3. Sizes'
    BY <1>1, <1>3, <1>6, <1>9, <1>11, <1>12, <2>1 DEF Sizes
  <2>4. Beginning'
    BY <1>0, <1>1, <1>6, <1>11, <2>1 DEF Beginning, Announced, callVars, filterVars
  <2> QED
    BY <2>2, <2>3, <2>4
<1>14. HeldBack'
  BY <1>1, <1>4, <1>9 DEF HeldBack, filterVars
<1> QED
  BY <1>0, <1>4, <1>5, <1>6, <1>7, <1>8, <1>10, <1>13, <1>14

-----------------------------------------------------------------------------
(* The application's sends.  What they leave of the response is one of     *)
(* these: the filter is not live, and the wire stays as it is;             *)

Discards ==
  /\ filter # "live" /\ filter' # "live"
  /\ UNCHANGED <<Response, responseTrailers>>

\* or it is live, and an event joins the pipe, or none.
Joins(e) ==
  /\ filter = "live" /\ filter' = "live"
  /\ UNCHANGED <<Response, responseTrailers>>
  /\ Pipe \in Seq(Events) /\ e \in Events /\ Pipe' = Append(Pipe, e)

LEMMA JoinsFacts ==
  ASSUME TypeOK, NEW e, Joins(e)
  PROVE  /\ Len(Pipe') = Len(Pipe) + 1 /\ Pipe' # <<>>
         /\ \A k \in 1..Len(Pipe) : Pipe'[k] = Pipe[k]
         /\ Pipe'[Len(Pipe) + 1] = e
         /\ Pipe = <<>> => Pipe'[1] = e
         /\ Pipe # <<>> => Pipe'[1] = Pipe[1]
         /\ Len(Pipe) \in Nat /\ Taken' = Taken /\ Gathered' = Gathered /\ Ended' = Ended
<1>1. /\ Len(Pipe') = Len(Pipe) + 1
      /\ \A k \in 1..Len(Pipe) : Pipe'[k] = Pipe[k]
      /\ Pipe'[Len(Pipe) + 1] = e
      /\ Len(Pipe) \in Nat
  BY AppendFacts DEF Joins
<1>2. Pipe' # <<>>
  BY DEF Joins
<1>3. Pipe = <<>> => Len(Pipe) = 0
  OBVIOUS
<1>4. Pipe # <<>> => 1 \in 1..Len(Pipe)
  BY Numbers
<1>5. Taken' = Taken /\ Gathered' = Gathered /\ Ended' = Ended
  BY DEF Joins, Taken, Ended, Gathered
<1> QED
  BY <1>1, <1>2, <1>3, <1>4, <1>5

LEMMA SendStartStep ==
  ASSUME IInv, NEW trailers \in BOOLEAN, SendStart(trailers)
  PROVE  IInv'
<1> USE DEF IInv
<1>1. /\ UNCHANGED <<closed, appVars, committing, sendBridge, commits, loop, batch, filterVars>>
      /\ app = "running" /\ nextEvent = "Start"
      /\ nextEvent' = IF trailers THEN "BodyThenTrailers" ELSE "Body"
      /\ responseStart' = IF trailers /\ trailersAccepted THEN "trailers" ELSE "plain"
  BY DEF SendStart, Calls
<1>0. Response' = Response /\ Underway' /\ Overdue'
  BY <1>1, Untouched DEF appVars, filterVars
<1>2. /\ Taken' = Taken /\ Ended' = Ended /\ Ahead' = Ahead
      /\ Pipe' = Pipe /\ Trailing' = Trailing /\ Failing' = Failing /\ Told' = Told
      /\ AnyCancelled' = AnyCancelled
  BY <1>0, <1>1
     DEF appVars, filterVars, Taken, Ended, Ahead, Pipe, Trailing, Failing, Gathered,
              Told, AnyCancelled
<1>3. Bodies' = Bodies /\ Done' = Done
  BY <1>1, <1>2 DEF Bodies, Done
<1>4. BodyNext /\ BodyNext'
  BY <1>1 DEF BodyNext
<1>5. TypeOK'
  BY <1>1 DEF TypeOK, appVars, filterVars, Starts
<1>6. Counters'
  BY <1>1, <1>4 DEF Counters, appVars, filterVars
<1>7. Stages'
  BY <1>1 DEF Stages, filterVars
<1>8. OnWire'
  BY <1>0, <1>1 DEF OnWire, filterVars
<1>9. Truthful'
  <2>1. Ended => Response[Len(Response)][1] = "reset"
    BY <1>4, Lengths DEF Truthful, Ended, Finals
  <2> QED
    BY <1>0, <1>1, <1>2, <2>1 DEF Truthful
<1>10. Flowing'
  <2> SUFFICES ASSUME filter' = "live" PROVE InThePipe' /\ Sizes' /\ Beginning'
    BY DEF Flowing
  <2>1. InThePipe /\ Sizes /\ Beginning
    BY <1>1 DEF Flowing, filterVars
  <2>2. Response = <<>> /\ Pipe = <<>> /\ responseTrailers = NoTrailers
    BY <1>1, <2>1, Numbers DEF Beginning, Failing
  <2>3. InThePipe'
    BY <1>2, <2>2, Numbers DEF InThePipe
  <2>4. Sizes'
    BY <1>1, <1>2, <1>3, <1>4, <2>1, <2>2, Numbers DEF Sizes
  <2>5. trailersSent = 0
    BY <1>4 DEF Counters
  <2>6. Beginning'
    <3>1. responseStart' # "none" /\ (responseStart' = "trailers" <=> trailers /\ trailersAccepted)
      BY <1>1
    <3>2. nextEvent' \in {"BodyThenTrailers", "Trailers"} <=> trailers
      BY <1>1
    <3>3. Announced' <=> trailersAccepted /\ trailers
      BY <1>1, <1>2, <2>2, <3>1 DEF Announced, filterVars
    <3>4. Len(Pipe') = Failing'
      BY <1>1, <1>2, <2>1 DEF Beginning
    <3>5. trailersAccepted' = trailersAccepted /\ trailersSent' = 0 /\ Response' = <<>>
          /\ ~trailersFailed'
          /\ responseTrailers' = NoTrailers /\ Pipe' = <<>>
      BY <1>0, <1>1, <1>2, <2>2, <2>5 DEF Counters, appVars, filterVars
    <3>6. ~(trailersSent' > 0)
      BY <3>5
    <3> QED
      BY <1>4, <3>1, <3>2, <3>3, <3>4, <3>5, <3>6 DEF Beginning
  <2> QED
    BY <2>3, <2>4, <2>6
<1>11. Numbered'
  BY <1>1, <1>2, <1>3 DEF Numbered, appVars
<1>12. HeldBack'
  BY <1>1, <1>2 DEF HeldBack, appVars, filterVars
<1> QED
  BY <1>0, <1>5, <1>6, <1>7, <1>8, <1>9, <1>10, <1>11, <1>12

\* A send by which the response gets an event, or none, keeps what is on the wire
\* and the futures.
LEMMA SendKeeps ==
  ASSUME IInv, Discards \/ \E e \in Events : Joins(e),
         UNCHANGED <<trailersAccepted, awaits, commits, batch, level, raises>>,
         sendBridge'.closed = sendBridge.closed,
         closed' \in {closed, sendBridge.closed}, filter' = filter
  PROVE  /\ Stages' /\ OnWire' /\ Taken' = Taken /\ Ended' = Ended
<1> USE DEF IInv
<1>1. Response' = Response /\ responseTrailers' = responseTrailers
  BY DEF Discards, Joins
<1>2. Taken' = Taken /\ Ended' = Ended
  BY <1>1 DEF Taken, Ended
<1>3. OnWire'
  BY <1>1 DEF OnWire
<1>4. Stages'
  BY DEF Stages
<1> QED
  BY <1>2, <1>3, <1>4

LEMMA SendBodyStep ==
  ASSUME IInv, NEW hasChunk \in BOOLEAN, NEW more \in BOOLEAN, SendBody(hasChunk, more)
  PROVE  IInv'
<1> USE DEF IInv
<1> DEFINE chunk == IF hasChunk THEN produced + 1 ELSE 0
           kind == IF responseStart = "none" THEN "Body" ELSE "Start"
           e == Event(kind, responseStart, chunk, more)
<1>1. /\ app = "running" /\ ~closed /\ nextEvent \in {"Body", "BodyThenTrailers"}
      /\ awaits => \A k \in DOMAIN sends : sends[k] # "pending"
      /\ more => hasChunk
      /\ hasChunk => produced < MaxChunks
      /\ SendEvent(e)
      /\ produced' = IF hasChunk THEN produced + 1 ELSE produced
      /\ sends' = IF more THEN Append(sends, "pending") ELSE sends
      /\ nextEvent' = IF more THEN nextEvent
                      ELSE IF nextEvent = "BodyThenTrailers" THEN "Trailers" ELSE "Done"
      /\ responseStart' = "none" /\ closed' = sendBridge.closed
      /\ UNCHANGED <<trailersAccepted, awaits, app, trailersSent, trailersFailed, commits, batch,
                     filterVars>>
  BY DEF SendBody, Calls
<1>0. Response' = Response /\ Underway' /\ Overdue'
  BY <1>1, Untouched DEF filterVars
<1>2. /\ e \in Events /\ e.kind = kind /\ e.start = responseStart
      /\ e.chunk = chunk /\ e.future = more
  <2>1. chunk \in 0..MaxChunks
    BY <1>1, BoundsAssumption DEF TypeOK
  <2>2. responseStart \in Starts /\ kind \in {"Start", "Body"}
    BY DEF TypeOK
  <2> HIDE DEF chunk, kind, IInv
  <2> QED
    BY <2>1, <2>2 DEF Event, Events
<1> HIDE DEF e
<1>3. e.future => e.chunk # 0
  BY <1>1, <1>2 DEF TypeOK
<1>4. /\ sendBridge' \in Bridges(Events) /\ committing' \in BOOLEAN
      /\ sendBridge'.closed = sendBridge.closed
      /\ sendBridge.closed => Dispatches(IF e.future THEN 1 ELSE 0, e.chunk - 1)
      /\ ~sendBridge.closed =>
           /\ Dispatches(0, 0)
           /\ Pipe \in Seq(Events) /\ Pipe' = Append(Pipe, e)
  BY <1>1, <1>2, <1>3, SendEventFacts
<1>5. BodyNext /\ trailersSent = 0 /\ Len(sends) = produced
      /\ (BodyNext' <=> more)
  BY <1>1 DEF BodyNext, Counters
<1>6. /\ sends' \in Seq(Results)
      /\ Len(sends') = IF more THEN Len(sends) + 1 ELSE Len(sends)
      /\ sends' \in {sends, Append(sends, "pending")}
      /\ AnyCancelled => AnyCancelled'
  <2>1. CASE ~more
    BY <1>1, <2>1, Lengths DEF AnyCancelled
  <2>2. CASE more
    <3>1. "pending" \in Results
      BY DEF Results
    <3>2. sends' = Append(sends, "pending")
      BY <1>1, <2>2
    <3>3. /\ sends' \in Seq(Results) /\ Len(sends') = Len(sends) + 1
          /\ DOMAIN sends' = 1..(Len(sends) + 1) /\ DOMAIN sends = 1..Len(sends)
          /\ \A k \in 1..Len(sends) : sends'[k] = sends[k] /\ k \in DOMAIN sends'
      BY <3>1, <3>2, Lengths, AppendFacts
    <3> QED
      BY <2>2, <3>2, <3>3 DEF AnyCancelled
  <2> QED
    BY <2>1, <2>2
<1>7. produced \in Nat /\ Len(sends) \in Nat /\ Taken \in Int /\ Told \in Int
      /\ Taken + Ahead = produced /\ Ahead \in Int
  BY Numbers, Lengths
<1>8. TypeOK'
  <2>1. produced' \in 0..MaxChunks /\ Len(sends') <= produced'
    BY <1>1, <1>5, <1>6, <1>7, BoundsAssumption DEF TypeOK
  <2>2. loop' \in Seq(Completions)
    BY <1>4 DEF Dispatches
  <2>3. nextEvent' \in {"Start", "Body", "BodyThenTrailers", "Trailers", "Done"}
        /\ closed' \in BOOLEAN
    BY <1>1, Lengths
  <2> QED
    BY <1>1, <1>4, <1>6, <2>1, <2>2, <2>3
       DEF TypeOK, Results, Completions, filterVars, Starts
<1>9. Discards \/ Joins(e)
  BY <1>0, <1>1, <1>2, <1>4 DEF Discards, Joins, Stages, filterVars
<1>10. Stages' /\ OnWire' /\ Taken' = Taken /\ Ended' = Ended
  BY <1>1, <1>2, <1>4, <1>9, SendKeeps DEF filterVars
<1>11. Counters'
  <2>1. responseTrailers' <= trailersSent' /\ trailersSent' = 0
    BY <1>1, <1>5 DEF Counters, filterVars
  <2>2. produced' - 1 <= Len(sends') /\ (more => Len(sends') = produced')
    BY <1>1, <1>5, <1>6, <1>7
  <2>3. ~trailersFailed'
    BY <1>1 DEF Counters
  <2> QED
    BY <1>5, <2>1, <2>2, <2>3 DEF Counters
<1>12. Truthful'
  <2>1. Ended => Response[Len(Response)][1] = "reset"
    BY <1>5, Lengths DEF Truthful, Ended, Finals
  <2> QED
    BY <1>0, <1>1, <1>10, <2>1 DEF Truthful
<1>13. filter = "live" => Ahead >= 0 /\ Taken <= Len(sends) /\ Told = Taken
  <2>1. filter = "live" => Ahead >= 0
    BY DEF Flowing, Sizes
  <2> QED
    BY <1>5, <1>7, <2>1 DEF Told
<1>14. Numbered'
  <2>1. CASE Joins(e)
    <3>1. filter = "live" /\ filter' = "live" /\ ~sendBridge.closed
      BY <2>1 DEF Joins, Stages
    <3>2. Told' = Told
      <4>1. Taken <= Len(sends')
        BY <1>6, <1>7, <1>13, <3>1
      <4> QED
        BY <1>6, <1>7, <1>10, <1>13, <3>1, <4>1 DEF Told
    <3>3. Dispatches(0, Told)
      BY <1>4, <3>1 DEF Dispatches
    <3> QED
      BY <1>6, <1>7, <3>2, <3>3, NumberedSteady
  <2>2. CASE Discards
    <3> DEFINE n == IF more THEN 1 ELSE 0
    <3>1. filter # "live" /\ filter' # "live" /\ sendBridge.closed
      BY <2>2 DEF Discards, Stages
    <3>2. Told = Len(sends) /\ Told' = Len(sends')
      BY <3>1 DEF Told
    <3>3. Told' = Told + n
      BY <1>6, <1>7, <3>2
    <3>4. n = 1 => chunk - 1 = Told
      BY <1>1, <1>5, <1>7, <3>2
    <3>5. Dispatches(n, chunk - 1)
      BY <1>2, <1>4, <3>1
    <3>6. n \in {0, 1}
      OBVIOUS
    <3> HIDE DEF n, chunk
    <3>7. Dispatches(n, Told)
      BY <3>4, <3>5, <3>6 DEF Dispatches
    <3> QED
      BY <1>6, <3>3, <3>6, <3>7, NumberedSteady
  <2> QED
    BY <1>9, <2>1, <2>2
<1>15. Flowing'
  <2> SUFFICES ASSUME filter' = "live" PROVE InThePipe' /\ Sizes' /\ Beginning'
    BY DEF Flowing
  <2>1. Joins(e) /\ InThePipe /\ Sizes /\ Beginning
    BY <1>9 DEF Flowing, Discards, Joins
  <2> DEFINE L == Len(Pipe)
  <2>2. /\ Len(Pipe') = L + 1 /\ Pipe' # <<>>
        /\ \A k \in 1..L : Pipe'[k] = Pipe[k]
        /\ Pipe'[L + 1] = e
        /\ Pipe = <<>> => Pipe'[1] = e
        /\ Pipe # <<>> => Pipe'[1] = Pipe[1]
        /\ L \in Nat /\ Gathered' = Gathered
        /\ Response' = Response /\ responseTrailers' = responseTrailers
    BY <2>1, JoinsFacts DEF Joins
  <2>3. Gathered = 0
    <3>1. responseTrailers \in -1..MaxTrailers /\ responseTrailers <= 0
      BY <1>5, BoundsAssumption DEF Counters, TypeOK, NoTrailers
    <3>2. responseTrailers = -1 \/ responseTrailers = 0
      BY <3>1, BoundsAssumption
    <3> QED
      BY <3>2 DEF Gathered, NoTrailers
  <2>4. Trailing = 0 /\ Trailing' = 0 /\ Failing = 0 /\ Failing' = 0
    BY <1>1, <1>5, <2>2, <2>3 DEF Trailing, Failing
  <2>5. Bodies = L /\ Bodies' = L + 1
    BY <2>2, <2>4 DEF Bodies
  <2>6. Ahead = L
    BY <1>5, <1>7, <2>1, <2>2, <2>5 DEF Sizes
  <2>7. Ahead' = IF hasChunk THEN L + 1 ELSE L
    <3>1. Ahead' = produced' - Taken
      BY <1>10 DEF Ahead
    <3> QED
      BY <1>1, <1>7, <2>2, <2>6, <3>1
  <2>8. /\ responseStart # "none" => Response = <<>> /\ L = 0
        /\ responseStart = "none" => Response # <<>> \/ L > 0
    BY <1>1, <2>1, <2>4 DEF Beginning
  <2>9. L = 0 <=> Pipe = <<>>
    BY Numbers
  <2> HIDE DEF L, chunk
  <2>10. ASSUME NEW k \in 1..(L + 1)
         PROVE  /\ k <= Ahead' => Pipe'[k].chunk = Taken + k
                /\ k > Ahead' => Pipe'[k].chunk = 0
                /\ Pipe'[k].future <=> k <= Ahead' /\ Taken + k <= Len(sends')
                /\ Pipe'[k].start # "none" => Pipe'[k].kind = "Start"
                /\ Pipe'[k].kind = "Start" => k = 1 /\ Response = <<>>
                /\ Pipe'[k].kind \in {"Start", "Body"}
    <3>1. CASE k \in 1..L
      <4>1. /\ Pipe[k].chunk = Taken + k
            /\ Pipe[k].future <=> Taken + k <= Len(sends)
            /\ Pipe[k].start # "none" => Pipe[k].kind = "Start"
            /\ Pipe[k].kind = "Start" => k = 1 /\ Response = <<>>
            /\ Pipe[k].kind \in {"Start", "Body"}
        BY <2>1, <2>5, <2>6, <3>1 DEF InThePipe, L
      <4>2. k <= Ahead' /\ ~(k > Ahead')
        BY <2>2, <2>7, <3>1
      <4>3. Taken + k <= Len(sends) /\ Taken + k <= Len(sends')
        BY <1>5, <1>6, <1>7, <2>2, <2>6, <3>1
      <4> QED
        BY <2>2, <3>1, <4>1, <4>2, <4>3
    <3>2. CASE k = L + 1
      <4>1. Pipe'[k] = e
        BY <2>2, <3>2
      <4>2. k <= Ahead' <=> hasChunk
        BY <2>2, <2>7, <3>2
      <4>3. k > Ahead' <=> ~hasChunk
        BY <2>2, <2>7, <3>2
      <4>4. hasChunk => chunk = Taken + k
        BY <1>7, <2>2, <2>6, <3>2 DEF chunk
      <4>5. ~hasChunk => chunk = 0
        BY DEF chunk
      <4>6. hasChunk => (more <=> Taken + k <= Len(sends'))
        BY <1>5, <1>6, <1>7, <2>2, <2>6, <3>2
      <4>7. kind = "Start" => k = 1 /\ Response = <<>>
        BY <2>2, <2>8, <3>2
      <4> QED
        BY <1>1, <1>2, <4>1, <4>2, <4>3, <4>4, <4>5, <4>6, <4>7
    <3> QED
      BY <2>2, <3>1, <3>2
  <2>11. InThePipe'
    BY <1>10, <2>2, <2>4, <2>5, <2>10 DEF InThePipe
  <2>12. Sizes'
    <3>1. ~hasChunk => ~more /\ Len(sends') = produced'
      BY <1>1, <1>5
    <3>2. Ahead' >= 0 /\ Ahead' <= L + 1 /\ L + 1 <= Ahead' + 1 /\ (L + 1 = Ahead' + 1 => ~hasChunk)
      BY <2>2, <2>7
    <3> QED
      BY <1>5, <2>4, <2>5, <3>1, <3>2 DEF Sizes
  <2>13. Beginning'
    <3>1. Response' = <<>> => responseTrailers' = NoTrailers /\ Pipe'[1].kind \in {"Start", "Exception"}
      <4>1. Response = <<>> /\ L = 0 => e.kind = "Start"
        BY <1>2, <2>8, <2>2
      <4> QED
        BY <2>1, <2>2, <2>9, <4>1 DEF Beginning
    <3>2. ~(nextEvent' = "Start" \/ responseStart' # "none") /\ Len(Pipe') > Failing'
      BY <1>1, <2>2, <2>4
    <3>3. Announced' <=> Announced
      <4>1. CASE L = 0
        BY <1>1, <1>2, <2>2, <2>9, <4>1 DEF Announced
      <4>2. CASE L > 0
        <5>1. responseStart = "none" /\ Pipe # <<>>
          BY <2>2, <2>8, <2>9, <4>2
        <5> QED
          BY <1>1, <2>2, <5>1 DEF Announced
      <4> QED
        BY <2>2, <4>1, <4>2
    <3>4. /\ trailersAccepted' = trailersAccepted /\ trailersSent' = trailersSent
          /\ trailersFailed' = trailersFailed
          /\ nextEvent' \in {"BodyThenTrailers", "Trailers"} <=>
               nextEvent \in {"BodyThenTrailers", "Trailers"}
      BY <1>1
    <3> QED
      BY <2>1, <3>1, <3>2, <3>3, <3>4 DEF Beginning
  <2> QED
    BY <2>11, <2>12, <2>13
<1>16. HeldBack'
  <2> SUFFICES ASSUME awaits', ~AnyCancelled', filter' = "live" PROVE Ahead' <= 1
    BY DEF HeldBack
  <2>1. awaits /\ ~AnyCancelled /\ filter = "live"
    BY <1>1, <1>6 DEF filterVars
  <2>2. Taken = Len(sends)
    <3>1. ASSUME NEW n \in 1..Len(sends) PROVE n <= Done
      <4>1. n \in DOMAIN sends
        BY Lengths
      <4>2. sends[n] \notin {"pending", "cancelled"}
        BY <1>1, <2>1, <4>1 DEF AnyCancelled
      <4> QED
        BY <4>1, <4>2 DEF Numbered
    <3>2. Done \in Int /\ Done <= Told /\ Told <= Len(sends)
      BY SMTT(60), <1>7, Lengths, Numbers DEF Done, Told
    <3>3. Done >= Len(sends)
      <4>1. CASE Len(sends) = 0
        BY <4>1 DEF Numbered
      <4>2. CASE Len(sends) # 0
        <5>1. Len(sends) \in 1..Len(sends)
          BY <1>7, <4>2
        <5> QED
          BY <3>1, <5>1
      <4> QED
        BY <4>1, <4>2
    <3> QED
      BY <1>7, <1>13, <2>1, <3>2, <3>3
  <2>3. Ahead' = produced' - Taken
    BY <1>10 DEF Ahead
  <2> QED
    BY <1>1, <1>5, <1>7, <2>2, <2>3
<1> QED
  BY <1>0, <1>8, <1>10, <1>11, <1>12, <1>14, <1>15, <1>16

\* An event that holds no future, while the application sends no body.
LEMMA PlainSendKeeps ==
  ASSUME IInv, NEW e \in Events, ~e.future, e.chunk = 0, SendEvent(e),
         UNCHANGED <<trailersAccepted, awaits, produced, sends, commits, batch, filterVars>>,
         closed' \in {closed, sendBridge.closed}, app = "raised" => app' = "raised"
  PROVE  /\ sendBridge' \in Bridges(Events) /\ committing' \in BOOLEAN /\ closed' \in BOOLEAN
         /\ loop' \in Seq(Completions)
         /\ Stages' /\ Underway' /\ Overdue' /\ OnWire' /\ Numbered' /\ HeldBack'
         /\ Response' = Response
         /\ Taken' = Taken /\ Ended' = Ended /\ Ahead' = Ahead /\ Gathered' = Gathered
         /\ Discards \/ Joins(e)
<1> USE DEF IInv
<1>0. Response' = Response /\ Underway' /\ Overdue'
  BY Untouched DEF filterVars
<1>1. /\ sendBridge' \in Bridges(Events) /\ committing' \in BOOLEAN
      /\ sendBridge'.closed = sendBridge.closed
      /\ sendBridge.closed => Dispatches(0, e.chunk - 1)
      /\ ~sendBridge.closed =>
           /\ Dispatches(0, 0)
           /\ Pipe \in Seq(Events) /\ Pipe' = Append(Pipe, e)
  BY SendEventFacts
<1>2. sendBridge.closed \in BOOLEAN /\ closed \in BOOLEAN
  BY Lengths DEF TypeOK
<1>3. Dispatches(0, Told)
  BY <1>1, <1>2 DEF Dispatches
<1>4. Discards \/ Joins(e)
  BY <1>0, <1>1 DEF Discards, Joins, Stages, filterVars
<1>5. Stages' /\ OnWire' /\ Taken' = Taken /\ Ended' = Ended
  BY <1>1, <1>4, SendKeeps DEF filterVars
<1>6. Told' = Told + 0
  BY <1>5, Numbers DEF Told, filterVars
<1>7. Numbered'
  BY <1>3, <1>6, NumberedSteady
<1>8. Ahead' = Ahead /\ AnyCancelled' = AnyCancelled /\ Gathered' = Gathered
  BY <1>5 DEF Ahead, AnyCancelled, Gathered, filterVars
<1>9. HeldBack'
  BY <1>8 DEF HeldBack, filterVars
<1>10. loop' \in Seq(Completions) /\ closed' \in BOOLEAN
  BY <1>2, <1>3 DEF Dispatches
<1> QED
  BY <1>0, <1>1, <1>4, <1>5, <1>7, <1>8, <1>9, <1>10

\* An event with no future, that comes after the bodies and trailers that are in
\* the pipe, keeps them in order.
LEMMA JoinsInOrder ==
  ASSUME IInv, NEW e \in Events, ~e.future, e.chunk = 0, e.start = "none", Joins(e),
         e.kind \in {"MoreTrailers", "Trailers", "Exception"},
         e.kind = "Exception" => Trailing' = Trailing /\ Failing = 0 /\ Failing' = 1
                                 /\ nextEvent' = nextEvent /\ trailersFailed' = trailersFailed,
         e.kind # "Exception" => Trailing' = Trailing + 1 /\ Failing = 0 /\ Failing' = 0
                                 /\ nextEvent = "Trailers",
         e.kind = "Trailers" => nextEvent' = "Done" /\ ~trailersFailed',
         UNCHANGED <<produced, sends>>
  PROVE  InThePipe' /\ Sizes /\ Bodies' = Bodies /\ Beginning /\ Len(Pipe') > 0
<1> USE DEF IInv
<1> DEFINE L == Len(Pipe)
<1>1. InThePipe /\ Sizes /\ Beginning
  BY DEF Flowing, Joins
<1>2. /\ Len(Pipe') = L + 1
      /\ \A k \in 1..L : Pipe'[k] = Pipe[k]
      /\ Pipe'[L + 1] = e
      /\ L \in Nat /\ Taken' = Taken /\ Response' = Response
  BY JoinsFacts DEF Joins
<1>3. /\ Bodies \in Int /\ Trailing \in Int /\ Ahead \in Int /\ Failing = 0
      /\ Bodies + Trailing = L /\ Trailing >= 0 /\ Ahead <= Bodies
  BY SMTT(60), <1>1, Numbers DEF Sizes
<1>4. Bodies' = Len(Pipe') - Trailing' - Failing'
  BY DEF Bodies
<1> HIDE DEF L
<1>5. Bodies' = Bodies
  BY <1>2, <1>3, <1>4
<1>6. Ahead' = Ahead
  BY <1>2 DEF Ahead
<1>7. ASSUME NEW k \in 1..(L + 1)
      PROVE  /\ k <= Ahead => Pipe'[k].chunk = Taken + k
             /\ k > Ahead => Pipe'[k].chunk = 0
             /\ Pipe'[k].future <=> k <= Ahead /\ Taken + k <= Len(sends)
             /\ Pipe'[k].start # "none" => Pipe'[k].kind = "Start"
             /\ Pipe'[k].kind = "Start" => k = 1 /\ Response = <<>>
             /\ k <= Bodies => Pipe'[k].kind \in {"Start", "Body"}
             /\ k > Bodies /\ k <= Bodies + Trailing' =>
                  Pipe'[k].kind \in {"MoreTrailers", "Trailers"}
             /\ k > Bodies + Trailing' => Pipe'[k].kind = "Exception"
             /\ Pipe'[k].kind = "Trailers" => k = Bodies + Trailing' /\ nextEvent' = "Done"
                                            /\ ~trailersFailed'
  <2>1. CASE k \in 1..L
    <3>1. /\ k <= Ahead => Pipe[k].chunk = Taken + k
          /\ k > Ahead => Pipe[k].chunk = 0
          /\ Pipe[k].future <=> k <= Ahead /\ Taken + k <= Len(sends)
          /\ Pipe[k].start # "none" => Pipe[k].kind = "Start"
          /\ Pipe[k].kind = "Start" => k = 1 /\ Response = <<>>
          /\ k <= Bodies => Pipe[k].kind \in {"Start", "Body"}
          /\ k > Bodies /\ k <= Bodies + Trailing =>
               Pipe[k].kind \in {"MoreTrailers", "Trailers"}
          /\ k > Bodies + Trailing => Pipe[k].kind = "Exception"
          /\ Pipe[k].kind = "Trailers" => k = Bodies + Trailing /\ nextEvent = "Done"
                                          /\ ~trailersFailed
      BY <1>1, <2>1 DEF InThePipe, L
    <3>2. k <= Bodies + Trailing /\ k <= Bodies + Trailing'
          /\ ~(k > Bodies + Trailing) /\ ~(k > Bodies + Trailing')
      BY <1>2, <1>3, <2>1
    <3>3. Pipe'[k] = Pipe[k]
      BY <1>2, <2>1
    <3>4. Pipe[k].kind = "Trailers" => k = Bodies + Trailing' /\ nextEvent' = "Done"
                                       /\ ~trailersFailed'
      BY <3>1
    <3> QED
      BY <3>1, <3>2, <3>3, <3>4
  <2>2. CASE k = L + 1
    <3>1. Pipe'[k] = e
      BY <1>2, <2>2
    <3>2. k > Ahead /\ ~(k <= Ahead) /\ ~(k <= Bodies) /\ k > Bodies
      BY <1>2, <1>3, <2>2
    <3>3. e.kind = "Exception" => k > Bodies + Trailing' /\ ~(k <= Bodies + Trailing')
      BY <1>2, <1>3, <2>2
    <3>4. e.kind # "Exception" => k = Bodies + Trailing' /\ ~(k > Bodies + Trailing')
      BY <1>2, <1>3, <2>2
    <3> QED
      BY <3>1, <3>2, <3>3, <3>4
  <2> QED
    BY <1>2, <2>1, <2>2
<1>8. InThePipe'
  BY <1>2, <1>5, <1>6, <1>7 DEF InThePipe
<1> QED
  BY <1>1, <1>2, <1>5, <1>8

LEMMA SendTrailersStep ==
  ASSUME IInv, NEW more \in BOOLEAN, SendTrailers(more)
  PROVE  IInv'
<1> USE DEF IInv
<1> DEFINE kind == IF more THEN "MoreTrailers" ELSE "Trailers"
           e == Event(kind, "none", 0, FALSE)
<1>1. /\ app = "running" /\ nextEvent = "Trailers" /\ trailersSent < MaxTrailers
      /\ trailersSent' = trailersSent + 1
      /\ nextEvent' = IF more THEN "Trailers" ELSE "Done"
      /\ IF trailersAccepted
           THEN SendEvent(e) /\ closed' = sendBridge.closed
           ELSE UNCHANGED <<committing, sendBridge, loop, closed>>
      /\ UNCHANGED <<responseStart, trailersAccepted, awaits, app, produced, sends, trailersFailed,
                     commits, batch, filterVars>>
  BY DEF SendTrailers, Calls
<1>0. Response' = Response /\ Underway' /\ Overdue'
  BY <1>1, Untouched DEF filterVars
<1>2. /\ e \in Events /\ e.kind = kind /\ e.start = "none" /\ e.chunk = 0 /\ ~e.future
      /\ kind \in {"MoreTrailers", "Trailers"}
  BY BoundsAssumption DEF Event, Events, Starts
<1> HIDE DEF e
<1>3. ~BodyNext /\ ~BodyNext' /\ trailersSent \in Nat /\ trailersSent' \in 0..MaxTrailers
      /\ trailersSent' > 0 /\ ~trailersFailed /\ ~trailersFailed'
  BY <1>1, BoundsAssumption DEF BodyNext, TypeOK, Counters
<1>4. Counters'
  <2>1. responseTrailers' <= trailersSent'
    BY SMTT(60), <1>1, <1>3, Numbers DEF Counters, filterVars
  <2> QED
    BY <1>1, <1>3, <2>1 DEF Counters
<1>5. nextEvent' \in {"Trailers", "Done"}
  BY <1>1
<1>6. CASE trailersAccepted
  <2>1. /\ sendBridge' \in Bridges(Events) /\ committing' \in BOOLEAN /\ closed' \in BOOLEAN
        /\ loop' \in Seq(Completions)
        /\ Stages' /\ OnWire' /\ Numbered' /\ HeldBack'
        /\ Taken' = Taken /\ Ended' = Ended /\ Ahead' = Ahead /\ Gathered' = Gathered
        /\ Discards \/ Joins(e)
    BY <1>1, <1>2, <1>6, PlainSendKeeps
  <2>2. TypeOK'
    BY <1>1, <1>3, <1>5, <2>1 DEF TypeOK, filterVars, Completions
  <2>3. Truthful'
    BY <1>0, <1>1, <1>3, <1>6, <2>1 DEF Truthful
  <2>4. Flowing'
    <3> SUFFICES ASSUME filter' = "live" PROVE InThePipe' /\ Sizes' /\ Beginning'
      BY DEF Flowing
    <3>1. Joins(e)
      BY <2>1 DEF Discards
    <3>2. Trailing' = Trailing + 1
      BY <1>1, <1>3, <1>6, <2>1, Numbers DEF Trailing
    <3>3. Failing = 0 /\ Failing' = 0
      BY <1>1 DEF Failing
    <3>4. InThePipe' /\ Sizes /\ Bodies' = Bodies /\ Beginning /\ Len(Pipe') > 0
      BY <1>1, <1>2, <1>3, <3>1, <3>2, <3>3, JoinsInOrder
    <3>5. Sizes'
      BY SMTT(60), <1>1, <1>3, <2>1, <3>2, <3>4, Numbers DEF Sizes
    <3>6. /\ Pipe' # <<>>
          /\ Pipe = <<>> => Pipe'[1] = e
          /\ Pipe # <<>> => Pipe'[1] = Pipe[1]
          /\ Response' = Response /\ responseTrailers' = responseTrailers
      BY <3>1, JoinsFacts DEF Joins
    <3>7. Response # <<>> \/ Pipe # <<>>
      BY <1>1, <1>3, <3>3, <3>4, Numbers DEF Beginning
    <3>8. Announced' <=> Announced
      BY <1>1, <1>2, <3>6 DEF Announced
    <3>9. responseStart = "none" /\ responseStart' = "none"
      BY <1>1, <1>3, <3>4 DEF Beginning
    <3>10. Response' = <<>> => responseTrailers' = NoTrailers /\ Pipe'[1].kind \in {"Start", "Exception"}
      BY <3>4, <3>6, <3>7 DEF Beginning
    <3>11. ~(nextEvent' = "Start" \/ responseStart' # "none")
      BY <1>5, <3>9
    <3>12. Announced' /\ trailersAccepted'
      BY <1>1, <1>6, <3>4, <3>8 DEF Beginning
    <3>13. Beginning'
      BY <1>3, <3>3, <3>4, <3>10, <3>11, <3>12 DEF Beginning
    <3> QED
      BY <3>4, <3>5, <3>13
  <2> QED
    BY <1>0, <1>4, <2>1, <2>2, <2>3, <2>4
<1>7. CASE ~trailersAccepted
  <2>1. UNCHANGED <<committing, sendBridge, loop, closed>>
    BY <1>1, <1>7
  <2>2. /\ Taken' = Taken /\ Ended' = Ended /\ Ahead' = Ahead /\ Pipe' = Pipe
        /\ Trailing' = Trailing /\ Failing' = Failing /\ Told' = Told
        /\ AnyCancelled' = AnyCancelled
    BY <1>0, <1>1, <1>7, <2>1
       DEF filterVars, Taken, Ended, Ahead, Pipe, Trailing, Failing, Told,
                AnyCancelled
  <2>3. Bodies' = Bodies /\ Done' = Done
    BY <2>1, <2>2 DEF Bodies, Done
  <2>4. TypeOK'
    BY <1>1, <1>3, <1>5, <2>1 DEF TypeOK, filterVars
  <2>5. Stages'
    BY <1>1, <2>1 DEF Stages, filterVars
  <2>6. OnWire'
    BY <1>0, <1>1 DEF OnWire, filterVars
  <2>7. Truthful'
    BY <1>0, <1>1, <1>3, <1>7, <2>2 DEF Truthful
  <2>8. Numbered'
    BY <1>1, <2>1, <2>3 DEF Numbered
  <2>9. HeldBack'
    BY <1>1, <2>2 DEF HeldBack, filterVars
  <2>10. Flowing'
    <3> SUFFICES ASSUME filter' = "live" PROVE InThePipe' /\ Sizes' /\ Beginning'
      BY DEF Flowing
    <3>1. InThePipe /\ Sizes /\ Beginning
      BY <1>1 DEF Flowing, filterVars
    <3>2. \A k \in 1..Len(Pipe) : Pipe[k].kind # "Trailers"
      BY <1>1, <3>1 DEF InThePipe
    <3>3. InThePipe'
      BY <1>0, <1>1, <2>2, <2>3, <3>1, <3>2 DEF InThePipe
    <3>4. Sizes'
      BY <1>1, <1>3, <2>2, <2>3, <3>1 DEF Sizes
    <3>5. Announced' <=> Announced
      BY <1>1, <2>2 DEF Announced, filterVars
    <3>6. ~Announced
      BY <1>7, <3>1 DEF Beginning
    <3>7. responseStart = "none"
      BY <1>1, <1>3, <3>1 DEF Beginning
    <3>8. Beginning'
      BY <1>0, <1>1, <1>5, <1>7, <2>2, <3>1, <3>5, <3>6, <3>7 DEF Beginning, filterVars
    <3> QED
      BY <3>3, <3>4, <3>8
  <2> QED
    BY <1>0, <1>4, <2>4, <2>5, <2>6, <2>7, <2>8, <2>9, <2>10
<1>8. trailersAccepted \in BOOLEAN
  BY DEF TypeOK
<1> QED
  BY <1>6, <1>7, <1>8

\* The last trailers message fails.
LEMMA SendTrailersFailsStep ==
  ASSUME IInv, SendTrailersFails
  PROVE  IInv'
<1> USE DEF IInv
<1>1. /\ nextEvent = "Trailers" /\ nextEvent' = "Done" /\ trailersAccepted /\ trailersFailed' = TRUE
      /\ UNCHANGED <<responseStart, closed, trailersAccepted, awaits, app, produced, sends,
                     trailersSent, committing, sendBridge, commits, loop, batch, filterVars>>
  BY DEF SendTrailersFails
<1>2. Response' = Response /\ Underway' /\ Overdue'
  BY <1>1, Untouched DEF filterVars
<1>3. ~BodyNext /\ ~BodyNext'
  BY <1>1 DEF BodyNext
<1>4. /\ Taken' = Taken /\ Ended' = Ended /\ Ahead' = Ahead /\ Pipe' = Pipe
      /\ Trailing' = Trailing /\ Failing' = Failing /\ Told' = Told
      /\ AnyCancelled' = AnyCancelled
  BY <1>1, <1>2 DEF filterVars, Taken, Ended, Ahead, Pipe, Trailing, Failing, Gathered, Told,
                    AnyCancelled
<1>5. Bodies' = Bodies /\ Done' = Done
  BY <1>1, <1>4 DEF Bodies, Done
<1>6. TypeOK'
  BY <1>1 DEF TypeOK, filterVars
<1>7. Counters'
  BY <1>1, <1>3 DEF Counters, filterVars
<1>8. Stages'
  BY <1>1 DEF Stages, filterVars
<1>9. OnWire'
  BY <1>1, <1>2 DEF OnWire, filterVars
<1>10. Truthful'
  <2>1. Ended => Response[Len(Response)][1] = "reset"
    <3>1. Ended => Response[Len(Response)][1] \in {"end", "trailers", "reset"}
      BY DEF Ended, Finals
    <3> QED
      BY <1>1, <3>1 DEF Truthful
  <2> QED
    BY <1>2, <1>4, <2>1 DEF Truthful
<1>11. Numbered'
  BY <1>1, <1>5 DEF Numbered
<1>12. HeldBack'
  BY <1>1, <1>4 DEF HeldBack, filterVars
<1>13. Flowing'
  <2> SUFFICES ASSUME filter' = "live" PROVE InThePipe' /\ Sizes' /\ Beginning'
    BY DEF Flowing
  <2>1. InThePipe /\ Sizes /\ Beginning
    BY <1>1 DEF Flowing, filterVars
  <2>2. \A k \in 1..Len(Pipe) : Pipe[k].kind # "Trailers"
    BY <1>1, <2>1 DEF InThePipe
  <2>3. InThePipe'
    BY <1>1, <1>2, <1>4, <1>5, <2>1, <2>2 DEF InThePipe
  <2>4. Sizes'
    BY <1>1, <1>3, <1>4, <1>5, <2>1 DEF Sizes
  <2>5. Announced' <=> Announced
    BY <1>1, <1>4 DEF Announced, filterVars
  <2>6. responseStart = "none" /\ Announced
    BY <1>1, <1>3, <2>1 DEF Beginning
  <2>7. Beginning'
    BY <1>1, <1>2, <1>4, <2>1, <2>5, <2>6 DEF Beginning, filterVars
  <2> QED
    BY <2>3, <2>4, <2>7
<1> QED
  BY <1>2, <1>6, <1>7, <1>8, <1>9, <1>10, <1>11, <1>12, <1>13

LEMMA RaiseStep ==
  ASSUME IInv, Raise
  PROVE  IInv'
<1> USE DEF IInv
<1>1. /\ app = "running" /\ app' = "raised" /\ SendEvent(Exception)
      /\ UNCHANGED <<callVars, trailersAccepted, awaits, produced, sends, trailersSent,
                     trailersFailed, commits, batch, filterVars>>
  BY DEF Raise, Calls
<1> DEFINE e == Exception
<1>2. /\ e \in Events /\ e.kind = "Exception" /\ e.start = "none" /\ e.chunk = 0 /\ ~e.future
  BY BoundsAssumption DEF Exception, Event, Events, Starts
<1>3. SendEvent(e)
  BY <1>1
<1> HIDE DEF e
<1>4. /\ sendBridge' \in Bridges(Events) /\ committing' \in BOOLEAN /\ closed' \in BOOLEAN
      /\ loop' \in Seq(Completions)
      /\ Stages' /\ Underway' /\ Overdue' /\ OnWire' /\ Numbered' /\ HeldBack'
      /\ Response' = Response
      /\ Taken' = Taken /\ Ended' = Ended /\ Ahead' = Ahead /\ Gathered' = Gathered
      /\ Discards \/ Joins(e)
  BY <1>1, <1>2, <1>3, PlainSendKeeps DEF callVars
<1>5. TypeOK'
  BY <1>1, <1>4 DEF TypeOK, callVars, filterVars, Completions
<1>6. BodyNext' = BodyNext
  BY <1>1 DEF BodyNext, callVars
<1>7. Counters'
  BY <1>1, <1>6 DEF Counters, callVars, filterVars
<1>8. Truthful'
  BY <1>1, <1>4, <1>6 DEF Truthful, callVars, filterVars
<1>9. Flowing'
  <2> SUFFICES ASSUME filter' = "live" PROVE InThePipe' /\ Sizes' /\ Beginning'
    BY DEF Flowing
  <2>1. Joins(e)
    BY <1>4 DEF Discards
  <2>2. Trailing' = Trailing /\ Failing = 0 /\ Failing' = 1
    BY <1>1, <1>4 DEF Trailing, Failing
  <2>3. InThePipe' /\ Sizes /\ Bodies' = Bodies /\ Beginning /\ Len(Pipe') > 0
    BY <1>1, <1>2, <2>1, <2>2, JoinsInOrder DEF callVars
  <2>4. Sizes'
    BY <1>1, <1>4, <1>6, <2>2, <2>3 DEF Sizes
  <2>5. /\ Pipe' # <<>> /\ Len(Pipe') = Len(Pipe) + 1 /\ Len(Pipe) \in Nat
        /\ Pipe = <<>> => Pipe'[1] = e
        /\ Pipe # <<>> => Pipe'[1] = Pipe[1]
        /\ Response' = Response /\ responseTrailers' = responseTrailers
    BY <2>1, JoinsFacts DEF Joins
  <2>6. Announced' <=> Announced
    BY <1>1, <1>2, <2>5 DEF Announced, callVars
  <2>7. Response' = <<>> => responseTrailers' = NoTrailers /\ Pipe'[1].kind \in {"Start", "Exception"}
    BY <1>2, <2>3, <2>5 DEF Beginning
  <2>8. Len(Pipe) = Failing => Len(Pipe') = Failing'
    BY <2>2, <2>5
  <2>9. Len(Pipe) > Failing => Len(Pipe') > Failing'
    BY <2>2, <2>5
  <2>10. Beginning'
    BY <1>1, <1>6, <2>3, <2>5, <2>6, <2>7, <2>8, <2>9 DEF Beginning, callVars
  <2> QED
    BY <2>3, <2>4, <2>10
<1> QED
  BY <1>4, <1>5, <1>7, <1>8, <1>9
-----------------------------------------------------------------------------
(* The filter.  While it is live, the wire holds the headers and then the  *)
(* chunks that were taken.                                                 *)

LEMMA LiveWire ==
  ASSUME IInv, filter = "live"
  PROVE  /\ ~Ended /\ Taken \in Nat
         /\ Response = <<>> => Taken = 0 /\ Len(Response) = 0
         /\ Response # <<>> => Len(Response) = Taken + 1 /\ Response[1] = <<"headers", 0>>
         /\ \A k \in 2..Len(Response) : Response[k] = <<"data", k - 1>>
         /\ InThePipe /\ Sizes /\ Beginning
<1> USE DEF IInv
<1>1. \A k \in 2..Len(Response) : Response[k] = <<"data", k - 1>>
  BY DEF OnWire
<1>2. Response # <<>> => Response[1] = <<"headers", 0>>
  BY DEF OnWire
<1>3. Len(Response) \in Nat /\ (Response = <<>> <=> Len(Response) = 0)
  BY Lengths
<1>4. Response # <<>> => Response[Len(Response)][1] \in {"headers", "data"}
  <2>1. \A n \in Nat : n = 0 \/ n = 1 \/ n \in 2..n
    OBVIOUS
  <2> QED
    BY <1>1, <1>2, <1>3, <2>1
<1>5. ~Ended
  BY <1>4 DEF Ended, Finals
<1>6. Taken \in Nat /\ (Response # <<>> => Len(Response) = Taken + 1) /\ (Response = <<>> => Taken = 0)
  BY <1>3, <1>5 DEF Taken
<1> QED
  BY <1>1, <1>2, <1>3, <1>5, <1>6 DEF Flowing

\* The frames of a chunk are sent.
LEMMA SendChunkStep ==
  ASSUME IInv, SendChunk
  PROVE  IInv'
<1> USE DEF IInv
<1>1. /\ sending # <<>> /\ wire' = wire \o sending /\ sending' = <<>>
      /\ UNCHANGED <<callVars, appVars, committing, sendBridge, commits, loop, batch, filter,
                     responseTrailers, level, raises>>
  BY DEF SendChunk
<1>2. filter = "live"
  BY <1>1 DEF Underway
<1>3. Response = wire \o sending
  BY <1>2, LiveResponse
<1>4. \A k \in 1..(Len(Response) - 1) : Response[k][1] \in {"headers", "data"}
  <2>1. Len(Response) \in Nat /\ (Response = <<>> <=> Len(Response) = 0)
    BY Lengths
  <2>2. \A k \in 1..(Len(Response) - 1) : Response # <<>> /\ (k = 1 \/ k \in 2..Len(Response))
    BY <2>1
  <2>3. /\ Response # <<>> => Response[1] = <<"headers", 0>>
        /\ \A k \in 2..Len(Response) : Response[k] = <<"data", k - 1>>
    BY <1>2, LiveWire
  <2> QED
    BY <2>2, <2>3
<1>5. ~LateReset' /\ Response' = Response
  <2> DEFINE r == Response
  <2>1. r \in Seq(Frames) /\ wire' = r /\ \A k \in 1..(Len(r) - 1) : r[k][1] \in {"headers", "data"}
    BY <1>1, <1>3, <1>4, Lengths
  <2> HIDE DEF r
  <2>2. ~LateReset' /\ Response' = r
    BY <1>1, <2>1, Enlarged
  <2> QED
    BY <2>2 DEF r
<1>6. Underway' /\ Overdue'
  BY <1>1, <1>2, <1>5 DEF Underway, Overdue
<1>7. Quiet
  BY <1>1, <1>5, <1>6 DEF Quiet, Pipe, callVars, appVars
<1>8. TypeOK'
  <2>1. wire' \in Seq(Frames) /\ sending' \in Seq(Frames)
    BY <1>1, <1>3, Lengths, EmptySeq
  <2> QED
    BY <1>1, <2>1 DEF TypeOK, callVars, appVars
<1>9. Stages'
  BY <1>1 DEF Stages, callVars
<1> QED
  BY <1>7, <1>8, <1>9, QuietKeeps

\* The first event of the pipe is handled.
LEMMA FirstOfPipe ==
  ASSUME TypeOK, batch # <<>>, batch' = Tail(batch)
  PROVE  /\ Head(batch) = Pipe[1] /\ Head(batch) \in Events /\ Head(batch) = batch[1]
         /\ 1 \in DOMAIN batch
         /\ Len(Pipe) >= 1 /\ Pipe # <<>>
         /\ batch' \in Seq(Events)
         /\ \A k \in DOMAIN batch' : k + 1 \in 2..Len(Pipe) /\ batch'[k] = Pipe[k + 1]
         /\ \A k \in 1..Len(sendBridge.events) :
              Len(batch) + k \in 2..Len(Pipe) /\ sendBridge.events[k] = Pipe[Len(batch) + k]
         /\ sendBridge' = sendBridge =>
              /\ Len(Pipe') = Len(Pipe) - 1
              /\ \A k \in 1..(Len(Pipe) - 1) : Pipe'[k] = Pipe[k + 1]
<1> DEFINE s == sendBridge.events
<1>1. batch \in Seq(Events) /\ s \in Seq(Events) /\ Len(batch) \in Nat /\ Len(s) \in Nat
  BY Lengths
<1> HIDE DEF s
<1>2. /\ batch' \in Seq(Events) /\ Len(batch') = Len(batch) - 1
      /\ DOMAIN batch' = 1..(Len(batch) - 1)
      /\ \A k \in 1..(Len(batch) - 1) : batch'[k] = batch[k + 1]
      /\ Head(batch) = batch[1] /\ Head(batch) \in Events
      /\ Len(batch) \in Nat \ {0} /\ DOMAIN batch = 1..Len(batch)
  BY <1>1, TailFacts
<1>3. /\ Len(batch \o s) = Len(batch) + Len(s)
      /\ \A k \in 1..Len(batch) : (batch \o s)[k] = batch[k]
      /\ \A k \in 1..Len(s) : (batch \o s)[Len(batch) + k] = s[k]
  BY <1>1, PipeFacts
<1>4. /\ Len(Pipe) = Len(batch) + Len(s)
      /\ \A k \in 1..Len(batch) : Pipe[k] = batch[k]
      /\ \A k \in 1..Len(s) : Pipe[Len(batch) + k] = s[k]
  BY <1>3 DEF Pipe, s
<1>5. \A k \in DOMAIN batch' : k + 1 \in 2..Len(Pipe) /\ batch'[k] = Pipe[k + 1]
  BY <1>1, <1>2, <1>4
<1>6. \A k \in 1..Len(s) : Len(batch) + k \in 2..Len(Pipe) /\ s[k] = Pipe[Len(batch) + k]
  BY <1>1, <1>2, <1>4
<1>7. ASSUME sendBridge' = sendBridge
      PROVE  /\ Len(Pipe') = Len(Pipe) - 1
             /\ \A k \in 1..(Len(Pipe) - 1) : Pipe'[k] = Pipe[k + 1]
  <2>1. Pipe' = batch' \o s
    BY <1>7 DEF Pipe, s
  <2> DEFINE b == batch'
  <2>2. b \in Seq(Events) /\ Len(b) = Len(batch) - 1
    BY <1>2
  <2> HIDE DEF b
  <2>3. /\ Len(b \o s) = Len(b) + Len(s)
        /\ \A k \in 1..Len(b) : (b \o s)[k] = b[k]
        /\ \A k \in 1..Len(s) : (b \o s)[Len(b) + k] = s[k]
    BY <1>1, <2>2, PipeFacts
  <2>4. Pipe' = b \o s
    BY <2>1 DEF b
  <2>5. Len(Pipe') = Len(Pipe) - 1
    BY <1>1, <1>4, <2>2, <2>3, <2>4
  <2>6. ASSUME NEW k \in 1..(Len(Pipe) - 1) PROVE Pipe'[k] = Pipe[k + 1]
    <3>1. CASE k < Len(batch)
      <4>1. k \in 1..Len(b) /\ k + 1 \in 1..Len(batch) /\ k \in 1..(Len(batch) - 1)
        BY <1>1, <2>2, <3>1
      <4>2. b[k] = batch[k + 1]
        BY <1>2, <4>1 DEF b
      <4> QED
        BY <1>4, <2>3, <2>4, <4>1, <4>2
    <3>2. CASE k >= Len(batch)
      <4> DEFINE j == k - Len(b)
      <4>1. j \in 1..Len(s) /\ Len(b) + j = k /\ Len(batch) + j = k + 1
        BY <1>1, <1>4, <2>2, <3>2
      <4> HIDE DEF j
      <4>2. (b \o s)[Len(b) + j] = s[j] /\ Pipe[Len(batch) + j] = s[j]
        BY <1>4, <2>3, <4>1
      <4> QED
        BY <2>4, <4>1, <4>2
    <3> QED
      BY <1>1, <3>1, <3>2
  <2> QED
    BY <2>5, <2>6
<1>8. Head(batch) = Pipe[1] /\ Len(Pipe) >= 1 /\ 1 \in DOMAIN batch
  BY <1>1, <1>2, <1>4
<1>9. Pipe # <<>>
  BY <1>8, Numbers
<1> USE DEF s
<1> QED
  BY <1>2, <1>5, <1>6, <1>7, <1>8, <1>9

\* Up to three frames go downstream at once.
LEMMA ThreeFrames ==
  ASSUME NEW w \in Seq(Frames), NEW h \in Seq(Frames), NEW d \in Seq(Frames),
         NEW z \in Seq(Frames),
         Len(h) \in {0, 1}, Len(d) \in {0, 1}, Len(z) \in {0, 1}
  PROVE  /\ w \o (h \o d \o z) \in Seq(Frames)
         /\ Len(w \o (h \o d \o z)) = Len(w) + Len(h) + Len(d) + Len(z)
         /\ \A k \in 1..Len(w) : (w \o (h \o d \o z))[k] = w[k]
         /\ Len(h) = 1 => (w \o (h \o d \o z))[Len(w) + 1] = h[1]
         /\ Len(d) = 1 => (w \o (h \o d \o z))[Len(w) + Len(h) + 1] = d[1]
         /\ Len(z) = 1 => (w \o (h \o d \o z))[Len(w) + Len(h) + Len(d) + 1] = z[1]
<1> DEFINE hd == h \o d
           hdz == hd \o z
           all == w \o hdz
<1>0. \A s, t \in Seq(Frames) :
        /\ s \o t \in Seq(Frames) /\ Len(s \o t) = Len(s) + Len(t)
        /\ \A k \in 1..Len(s) : (s \o t)[k] = s[k]
        /\ \A k \in 1..Len(t) : (s \o t)[Len(s) + k] = t[k]
  BY ConcatFacts
<1>1. /\ hd \in Seq(Frames) /\ Len(hd) = Len(h) + Len(d)
      /\ \A k \in 1..Len(h) : hd[k] = h[k]
      /\ \A k \in 1..Len(d) : hd[Len(h) + k] = d[k]
  BY <1>0
<1> HIDE DEF hd
<1>2. /\ hdz \in Seq(Frames) /\ Len(hdz) = Len(hd) + Len(z)
      /\ \A k \in 1..Len(hd) : hdz[k] = hd[k]
      /\ \A k \in 1..Len(z) : hdz[Len(hd) + k] = z[k]
  <2>1. hd \in Seq(Frames)
    BY <1>1
  <2> QED
    BY <1>0, <2>1
<1> HIDE DEF hdz
<1>3. /\ all \in Seq(Frames) /\ Len(all) = Len(w) + Len(hdz)
      /\ \A k \in 1..Len(w) : all[k] = w[k]
      /\ \A k \in 1..Len(hdz) : all[Len(w) + k] = hdz[k]
  <2>1. hdz \in Seq(Frames)
    BY <1>2
  <2> QED
    BY <1>0, <2>1
<1> HIDE DEF all
<1>4. Len(w) \in Nat
  BY LenProperties
<1>5. Len(all) = Len(w) + Len(h) + Len(d) + Len(z)
  BY <1>1, <1>2, <1>3, <1>4
<1>6. ASSUME Len(h) = 1 PROVE all[Len(w) + 1] = h[1]
  <2>1. 1 \in 1..Len(h) /\ 1 \in 1..Len(hd) /\ 1 \in 1..Len(hdz)
    BY <1>1, <1>2, <1>6
  <2> QED
    BY <1>1, <1>2, <1>3, <2>1
<1>7. ASSUME Len(d) = 1 PROVE all[Len(w) + Len(h) + 1] = d[1]
  <2>1. 1 \in 1..Len(d) /\ Len(h) + 1 \in 1..Len(hd) /\ Len(h) + 1 \in 1..Len(hdz)
    BY <1>1, <1>2, <1>7
  <2>2. Len(w) + (Len(h) + 1) = Len(w) + Len(h) + 1
    BY <1>4
  <2>3. hd[Len(h) + 1] = d[1] /\ hdz[Len(h) + 1] = hd[Len(h) + 1]
        /\ all[Len(w) + (Len(h) + 1)] = hdz[Len(h) + 1]
    BY <1>1, <1>2, <1>3, <2>1
  <2> QED
    BY <2>2, <2>3
<1>8. ASSUME Len(z) = 1 PROVE all[Len(w) + Len(h) + Len(d) + 1] = z[1]
  <2>1. 1 \in 1..Len(z) /\ Len(hd) + 1 \in 1..Len(hdz)
    BY <1>1, <1>2, <1>8
  <2>2. Len(w) + (Len(hd) + 1) = Len(w) + Len(h) + Len(d) + 1
    BY <1>1, <1>4
  <2>3. hdz[Len(hd) + 1] = z[1] /\ all[Len(w) + (Len(hd) + 1)] = hdz[Len(hd) + 1]
    BY <1>2, <1>3, <2>1
  <2> QED
    BY <2>2, <2>3
<1>9. \A k \in 1..Len(w) : all[k] = w[k]
  BY <1>3
<1>10. all \in Seq(Frames)
  BY <1>3
<1>11. all = w \o (h \o d \o z)
  BY DEF all, hdz, hd
<1> QED
  BY <1>5, <1>6, <1>7, <1>8, <1>9, <1>10, <1>11

\* What a body event puts on the wire.
LEMMA BodyOnTheWire ==
  ASSUME IInv, filter = "live", Pipe # <<>>, Pipe[1].kind \in {"Start", "Body"},
         NEW ends \in BOOLEAN, NEW r,
         r = Response \o (BodyFrames(Pipe[1]) \o (IF ends THEN <<<<"end", 0>>>> ELSE <<>>))
  PROVE  /\ Bodies >= 1
         /\ Pipe[1].chunk = IF Ahead >= 1 THEN Taken + 1 ELSE 0
         /\ BodyFrames(Pipe[1]) \in Seq(Frames)
         /\ Len(BodyFrames(Pipe[1])) =
              (IF Response = <<>> THEN 1 ELSE 0) + (IF Ahead >= 1 THEN 1 ELSE 0)
         /\ r \in Seq(Frames) /\ r # <<>>
         /\ r[1] = <<"headers", 0>>
         /\ \A k \in 2..Len(r) : \/ r[k] = <<"data", k - 1>>
                                 \/ ends /\ k = Len(r) /\ r[k] = <<"end", 0>>
         /\ ends => r[Len(r)] = <<"end", 0>>
         /\ \A k \in 1..(Len(r) - 1) : r[k][1] \in {"headers", "data"}
         /\ Response' = r => /\ Taken' = Taken + (IF Ahead >= 1 THEN 1 ELSE 0)
                             /\ Ended' <=> ends
<1> DEFINE e == Pipe[1]
           h == IF Pipe[1].kind = "Start" THEN <<<<"headers", 0>>>> ELSE <<>>
           d == IF Pipe[1].chunk # 0 THEN <<<<"data", Pipe[1].chunk>>>> ELSE <<>>
           z == IF ends THEN <<<<"end", 0>>>> ELSE <<>>
           more == IF Ahead >= 1 THEN 1 ELSE 0
<1>1. /\ ~Ended /\ Taken \in Nat
      /\ Response = <<>> => Taken = 0 /\ Len(Response) = 0
      /\ Response # <<>> => Len(Response) = Taken + 1 /\ Response[1] = <<"headers", 0>>
      /\ \A k \in 2..Len(Response) : Response[k] = <<"data", k - 1>>
      /\ InThePipe /\ Sizes /\ Beginning
  BY LiveWire
<1>2. TypeOK
  BY DEF IInv
<1>3. /\ Ahead \in Int /\ Bodies \in Int /\ Trailing \in Int /\ 1 \in 1..Len(Pipe)
      /\ Pipe[1] \in Events
  BY <1>2, Numbers
<1>4. Bodies >= 1
  BY <1>1, <1>3 DEF InThePipe, Sizes
<1>5. e.chunk = IF Ahead >= 1 THEN Taken + 1 ELSE 0
  BY <1>1, <1>3 DEF InThePipe
<1>6. e.kind = "Start" <=> Response = <<>>
  BY <1>1, <1>3 DEF InThePipe, Beginning
<1>7. e.chunk # 0 <=> Ahead >= 1
  BY <1>1, <1>3, <1>5
<1>8. more \in {0, 1} /\ (more = 1 <=> Ahead >= 1)
  OBVIOUS
<1>9. h \in Seq(Frames) /\ Len(h) = (IF Response = <<>> THEN 1 ELSE 0)
      /\ (Response = <<>> => h[1] = <<"headers", 0>>)
  <2>1. CASE Response = <<>>
    <3>1. h = <<<<"headers", 0>>>> /\ <<"headers", 0>> \in Frames
      BY <1>6, <2>1 DEF Frames
    <3> HIDE DEF h
    <3> QED
      BY <2>1, <3>1
  <2>2. CASE Response # <<>>
    <3>1. h = <<>>
      BY <1>6, <2>2
    <3> HIDE DEF h
    <3> QED
      BY <2>2, <3>1
  <2> QED
    BY <2>1, <2>2
<1>10. d \in Seq(Frames) /\ Len(d) = more /\ (more = 1 => d[1] = <<"data", Taken + 1>>)
  <2>1. CASE Ahead >= 1
    <3>1. d = <<<<"data", Taken + 1>>>> /\ <<"data", Taken + 1>> \in Frames
      BY <1>1, <1>5, <1>7, <2>1 DEF Frames
    <3>2. more = 1
      BY <2>1
    <3> HIDE DEF d, more
    <3> QED
      BY <3>1, <3>2
  <2>2. CASE ~(Ahead >= 1)
    <3>1. d = <<>> /\ more = 0
      BY <1>7, <2>2
    <3> HIDE DEF d, more
    <3> QED
      BY <3>1
  <2> QED
    BY <2>1, <2>2
<1>11. z \in Seq(Frames) /\ Len(z) = (IF ends THEN 1 ELSE 0) /\ (ends => z[1] = <<"end", 0>>)
  <2>1. CASE ends
    <3>1. z = <<<<"end", 0>>>> /\ <<"end", 0>> \in Frames
      BY <2>1 DEF Frames
    <3> HIDE DEF z
    <3> QED
      BY <2>1, <3>1
  <2>2. CASE ~ends
    <3>1. z = <<>>
      BY <2>2
    <3> HIDE DEF z
    <3> QED
      BY <2>2, <3>1
  <2> QED
    BY <2>1, <2>2
<1>12. r = Response \o (h \o d \o z) /\ Response \in Seq(Frames) /\ BodyFrames(Pipe[1]) = h \o d
  BY <1>2, Lengths DEF BodyFrames
<1> HIDE DEF h, d, z, more, e
<1>13. /\ r \in Seq(Frames) /\ Len(r) = Len(Response) + Len(h) + Len(d) + Len(z)
       /\ \A k \in 1..Len(Response) : r[k] = Response[k]
       /\ Len(h) = 1 => r[Len(Response) + 1] = h[1]
       /\ Len(d) = 1 => r[Len(Response) + Len(h) + 1] = d[1]
       /\ Len(z) = 1 => r[Len(Response) + Len(h) + Len(d) + 1] = z[1]
  <2>1. Len(h) \in {0, 1} /\ Len(d) \in {0, 1} /\ Len(z) \in {0, 1}
    BY <1>8, <1>9, <1>10, <1>11
  <2>2. /\ Response \in Seq(Frames) /\ h \in Seq(Frames)
        /\ d \in Seq(Frames) /\ z \in Seq(Frames)
    BY <1>9, <1>10, <1>11, <1>12
  <2>3. r = Response \o (h \o d \o z)
    BY <1>12
  <2>4. Response \o (h \o d \o z) \in Seq(Frames)
    BY <2>1, <2>2, ThreeFrames
  <2>5. Len(Response \o (h \o d \o z)) = Len(Response) + Len(h) + Len(d) + Len(z)
    BY <2>1, <2>2, ThreeFrames
  <2>6. \A k \in 1..Len(Response) : (Response \o (h \o d \o z))[k] = Response[k]
    BY <2>1, <2>2, ThreeFrames
  <2>7. Len(h) = 1 => (Response \o (h \o d \o z))[Len(Response) + 1] = h[1]
    BY <2>1, <2>2, ThreeFrames
  <2>8. Len(d) = 1 => (Response \o (h \o d \o z))[Len(Response) + Len(h) + 1] = d[1]
    BY SMTT(60), <2>1, <2>2, ThreeFrames
  <2>9. Len(z) = 1 => (Response \o (h \o d \o z))[Len(Response) + Len(h) + Len(d) + 1] = z[1]
    BY SMTT(60), <2>1, <2>2, ThreeFrames
  <2> QED
    BY <2>3, <2>4, <2>5, <2>6, <2>7, <2>8, <2>9
<1>14. Len(Response) + Len(h) = Taken + 1 /\ Len(d) = more /\ Len(Response) \in Nat
  BY <1>1, <1>9, <1>10
<1>15. Len(r) = Taken + 1 + more + (IF ends THEN 1 ELSE 0)
  BY <1>1, <1>8, <1>11, <1>13, <1>14
<1>16. r[1] = <<"headers", 0>>
  <2>1. CASE Response = <<>>
    BY <1>1, <1>9, <1>13, <2>1
  <2>2. CASE Response # <<>>
    <3>1. 1 \in 1..Len(Response)
      BY <1>1, <2>2
    <3> QED
      BY <1>1, <1>13, <2>2, <3>1
  <2> QED
    BY <2>1, <2>2
<1>17. more = 1 => r[Taken + 2] = <<"data", Taken + 1>>
  <2>1. Len(Response) + Len(h) + 1 = Taken + 2
    BY <1>1, <1>14
  <2> QED
    BY <1>10, <1>13, <2>1
<1>18. ends => r[Len(r)] = <<"end", 0>>
  <2> SUFFICES ASSUME ends PROVE r[Len(r)] = <<"end", 0>>
    OBVIOUS
  <2>1. Len(z) = 1
    BY <1>11
  <2>2. Len(Response) + Len(h) + Len(d) + 1 = Len(r)
    BY <1>1, <1>8, <1>14, <1>15
  <2> QED
    BY <1>11, <1>13, <2>1, <2>2
<1>19. ASSUME NEW k \in 2..(Taken + 1 + more) PROVE r[k] = <<"data", k - 1>>
  <2>1. CASE k <= Taken + 1
    <3>1. Response # <<>>
      BY <1>1, <2>1
    <3>2. k \in 2..Len(Response) /\ k \in 1..Len(Response)
      BY <1>1, <2>1, <3>1
    <3> QED
      BY <1>1, <1>13, <3>2
  <2>2. CASE k > Taken + 1
    <3>1. more = 1 /\ k = Taken + 2 /\ k - 1 = Taken + 1
      BY <1>1, <1>8, <2>2
    <3> QED
      BY <1>17, <3>1
  <2>3. k <= Taken + 1 \/ k > Taken + 1
    BY <1>1, <1>8
  <2> QED
    BY <2>1, <2>2, <2>3
<1>20. ASSUME NEW k \in 2..Len(r)
       PROVE  \/ r[k] = <<"data", k - 1>>
              \/ ends /\ k = Len(r) /\ r[k] = <<"end", 0>>
  <2>1. CASE k <= Taken + 1 + more
    <3>1. k \in 2..(Taken + 1 + more)
      BY <1>1, <1>8, <1>15, <2>1
    <3> QED
      BY <1>19, <3>1
  <2>2. CASE ~(k <= Taken + 1 + more)
    <3>1. ends /\ k = Len(r)
      BY <1>1, <1>8, <1>15, <2>2
    <3> QED
      BY Zenon, <1>18, <3>1
  <2> QED
    BY <2>1, <2>2
<1>21. r # <<>> /\ Len(r) \in Nat /\ Len(r) >= 1
  <2>1. Len(r) \in Nat /\ Len(r) >= 1
    BY <1>1, <1>8, <1>15
  <2> QED
    BY <1>13, <2>1, EmptySeq
<1>22. ~ends => r[Len(r)][1] \in {"headers", "data"}
  <2> DEFINE last == Len(r)
  <2>1. last \in Nat /\ last >= 1
    BY <1>21
  <2> HIDE DEF last
  <2>2. last = 1 \/ last \in 2..last
    BY <2>1
  <2>3. r[1][1] \in {"headers", "data"}
    BY ONLY <1>16
  <2>4. ASSUME ~ends, last \in 2..last PROVE r[last] = <<"data", last - 1>>
    BY <1>20, <2>4 DEF last
  <2> QED
    BY <2>2, <2>3, <2>4 DEF last
<1>23. ends => r[Len(r)][1] = "end"
  BY ONLY <1>18
<1>24. ASSUME Response' = r PROVE Taken' = Taken + more /\ (Ended' <=> ends)
  <2>1. Ended' <=> ends
    BY <1>21, <1>22, <1>23, <1>24 DEF Ended, Finals
  <2>2. Taken' = IF ends THEN Len(r) - 2 ELSE Len(r) - 1
    BY <1>21, <1>24, <2>1 DEF Taken
  <2> QED
    BY <1>1, <1>8, <1>15, <2>1, <2>2
<1>25. ASSUME NEW k \in 1..(Len(r) - 1) PROVE r[k][1] \in {"headers", "data"}
  <2>1. k = 1 \/ (k \in 2..Len(r) /\ k # Len(r))
    BY <1>21
  <2>2. r[1][1] = "headers"
    BY ONLY <1>16
  <2>3. ASSUME k \in 2..Len(r), k # Len(r) PROVE r[k][1] = "data"
    <3>1. r[k] = <<"data", k - 1>>
      BY <1>20, <2>3
    <3> QED
      BY ONLY <3>1
  <2> QED
    BY <2>1, <2>2, <2>3
<1>26. /\ BodyFrames(Pipe[1]) \in Seq(Frames)
       /\ Len(BodyFrames(Pipe[1])) = (IF Response = <<>> THEN 1 ELSE 0) + more
  <2>1. h \o d \in Seq(Frames) /\ Len(h \o d) = Len(h) + Len(d)
    BY <1>9, <1>10, ConcatFacts
  <2> QED
    BY <1>9, <1>10, <1>12, <2>1
<1> USE DEF more, e
<1> QED
  BY Zenon, <1>4, <1>5, <1>13, <1>16, <1>18, <1>20, <1>21, <1>24, <1>25, <1>26

\* The event that ends the response, behind which there are only exceptions.
LEMMA LastEvent ==
  ASSUME IInv, HandleEvent, filter = "live", Completed,
         \A k \in 2..Len(Pipe) : Pipe[k].kind = "Exception" /\ ~Pipe[k].future,
         Len(sends) <= Taken,
         NEW r \in Seq(Frames), wire' = r, sending' = <<>>, ~LateReset', OnWire', Truthful',
         Len(Pipe) > 1 => /\ Len(Pipe) = 2 /\ app = "raised"
                          /\ r # <<>> /\ r[Len(r)][1] \in {"end", "trailers"},
         responseTrailers' \in NoTrailers..MaxTrailers, responseTrailers' <= trailersSent
  PROVE  IInv'
<1> USE DEF IInv
<1>1. /\ batch # <<>> /\ batch' = Tail(batch)
      /\ UNCHANGED <<callVars, appVars, committing, commits, level, raises>>
  BY DEF HandleEvent
<1>2. /\ batch' \in Seq(Events)
      /\ \A k \in DOMAIN batch' : batch'[k].kind = "Exception" /\ ~batch'[k].future
      /\ \A k \in 1..Len(sendBridge.events) : ~sendBridge.events[k].future
  <2>1. /\ batch' \in Seq(Events)
        /\ \A k \in DOMAIN batch' : k + 1 \in 2..Len(Pipe) /\ batch'[k] = Pipe[k + 1]
    BY <1>1, FirstOfPipe
  <2>2. \A k \in 1..Len(sendBridge.events) :
          Len(batch) + k \in 2..Len(Pipe) /\ sendBridge.events[k] = Pipe[Len(batch) + k]
    BY <1>1, FirstOfPipe
  <2> HIDE DEF IInv
  <2>3. \A k \in 2..Len(Pipe) : Pipe[k].kind = "Exception" /\ ~Pipe[k].future
    OBVIOUS
  <2>4. \A k \in DOMAIN batch' : batch'[k].kind = "Exception" /\ ~batch'[k].future
    BY <2>1, <2>3
  <2>5. \A k \in 1..Len(sendBridge.events) : ~sendBridge.events[k].future
    BY <2>2, <2>3
  <2> QED
    BY <2>1, <2>4, <2>5
<1>3. Told = Len(sends)
  BY SMTT(60), Lengths, Numbers DEF Told
<1>4. Told >= 0 /\ Told \in Int
  BY <1>3, Lengths
<1>5. /\ Dispatches(0, Told)
      /\ sendBridge' \in Bridges(Events) /\ sendBridge'.closed /\ filter' = "complete"
  <2> DEFINE m == 0
  <2>1. m \in Nat /\ m <= Len(sendBridge.events) /\ \A i \in 1..m : FALSE
    BY Lengths
  <2>2. \A i \in 1..Len(sendBridge.events) : ~(i <= m)
    OBVIOUS
  <2>3. \A i \in 1..Len(sendBridge.events) : sendBridge.events[i].future <=> i <= m
    BY <1>2, <2>2
  <2> HIDE DEF m
  <2>4. /\ Dispatches(m, Told)
        /\ sendBridge' \in Bridges(Events) /\ sendBridge'.closed /\ filter' = "complete"
    BY <1>4, <2>1, <2>3, CompletedFacts
  <2> QED
    BY <2>4 DEF m
<1>6. loop' \in Seq(Completions)
  BY <1>5 DEF Dispatches
<1>13. Underway'
  BY DEF Underway
<1>14. Overdue'
  <2>1. batch' # <<>> => Len(Pipe) > 1 /\ Len(batch') \in 1..(Len(Pipe) - 1)
    <3>1. batch' \in Seq(Events) /\ \A k \in DOMAIN batch' : k + 1 \in 2..Len(Pipe)
      BY <1>1, FirstOfPipe
    <3>2. Len(batch') \in Nat /\ DOMAIN batch' = 1..Len(batch') /\ (batch' = <<>> <=> Len(batch') = 0)
      BY <3>1, LenProperties, EmptySeq
    <3>3. batch' # <<>> => Len(batch') \in 1..Len(batch')
      BY <3>2
    <3> HIDE DEF IInv
    <3>4. batch' # <<>> => Len(batch') + 1 \in 2..Len(Pipe)
      BY <3>1, <3>2, <3>3
    <3>5. TypeOK
      BY DEF IInv
    <3>6. Len(Pipe) \in Nat
      BY <3>5, Numbers
    <3> QED
      BY <3>2, <3>4, <3>6
  <2>2. app' = app
    BY <1>1 DEF appVars
  <2>3. Len(Pipe) \in Nat
    BY Numbers
  <2>5. Len(Pipe) > 1 => Len(Pipe) = 2
    OBVIOUS
  <2> HIDE DEF IInv
  <2>6. \A a \in 1..(2 - 1) : a = 1
    OBVIOUS
  <2>7. batch' # <<>> => Len(batch') \in 1..(2 - 1)
    BY ONLY Zenon, <2>1, <2>5
  <2>4. batch' # <<>> => Len(batch') = 1
    BY ONLY Zenon, <2>6, <2>7
  <2> QED
    BY <2>1, <2>2, <2>4 DEF Overdue, Last
<1>7. TypeOK'
  BY <1>1, <1>2, <1>5, <1>6, EmptySeq DEF TypeOK, callVars, appVars, Frames, Completions
<1>8. Counters'
  BY <1>1 DEF Counters, BodyNext, callVars, appVars
<1>9. Stages'
  BY <1>1, <1>2, <1>5 DEF Stages, callVars
<1>10. Told' = Told + 0
  BY <1>1, <1>3, <1>4, <1>5 DEF Told, appVars
<1>11. Numbered'
  BY <1>1, <1>5, <1>10, NumberedSteady DEF appVars
<1>12. Flowing' /\ HeldBack'
  BY <1>5 DEF Flowing, HeldBack
<1> QED
  BY <1>7, <1>8, <1>9, <1>11, <1>12, <1>13, <1>14

\* After the end there is only an exception, whose reset is late.
LEMMA LateEvent ==
  ASSUME IInv, HandleEvent, filter # "live"
  PROVE  IInv'
<1> USE DEF IInv
<1>1. /\ batch # <<>> /\ batch' = Tail(batch)
      /\ UNCHANGED <<callVars, appVars, committing, commits, level, raises>>
  BY DEF HandleEvent
<1>2. /\ batch' \in Seq(Events) /\ Head(batch) = batch[1] /\ 1 \in DOMAIN batch
      /\ \A k \in DOMAIN batch' : batch'[k] = batch[k + 1] /\ k + 1 \in DOMAIN batch
  BY <1>1, Lengths, TailFacts
<1>3. /\ Head(batch).kind = "Exception" /\ filter = "complete" /\ sendBridge.closed
      /\ \A k \in DOMAIN batch' : batch'[k].kind = "Exception" /\ ~batch'[k].future
  BY <1>1, <1>2 DEF Stages, TypeOK
<1>4. HandleException
  BY <1>3 DEF HandleEvent
<1> DEFINE f == <<"reset", 0>>
<1>17. /\ ~LateReset /\ Len(batch) = 1 /\ app = "raised" /\ wire # <<>> /\ sending = <<>>
       /\ wire[Len(wire)][1] \in {"end", "trailers"}
  BY <1>1 DEF Overdue, HandleEvent, Last
<1>18. responseTrailers' = responseTrailers /\ Completed
       /\ wire' = Append(wire, f) /\ sending' = <<>> /\ wire \in Seq(Frames) /\ f \in Frames
  <2>1. wire \in Seq(Frames) /\ f \in Frames
    BY Lengths DEF Frames
  <2>2. wire' = wire \o <<f>>
    BY <1>4, <1>17 DEF HandleException
  <2> HIDE DEF f
  <2>3. wire' = Append(wire, f)
    BY <2>1, <2>2
  <2> QED
    BY <1>4, <1>17, <2>1, <2>3 DEF HandleException
<1> HIDE DEF f
<1>19. /\ wire' \in Seq(Frames) /\ Len(wire') = Len(wire) + 1 /\ Len(wire) \in Nat \ {0}
       /\ \A k \in 1..Len(wire) : wire'[k] = wire[k]
       /\ wire'[Len(wire) + 1] = f
  <2>1. Len(wire) \in Nat /\ Len(wire) # 0
    BY <1>17, Lengths
  <2>2. /\ Append(wire, f) \in Seq(Frames) /\ Len(Append(wire, f)) = Len(wire) + 1
        /\ \A k \in 1..Len(wire) : Append(wire, f)[k] = wire[k]
        /\ Append(wire, f)[Len(wire) + 1] = f
    BY <1>18, AppendFacts
  <2>3. wire' = Append(wire, f)
    BY <1>18
  <2> HIDE DEF IInv
  <2> QED
    BY ONLY <2>1, <2>2, <2>3
<1>20. LateReset'
  <2>1. Len(wire') > 1 /\ Len(wire') - 1 = Len(wire) /\ Len(wire) \in 1..Len(wire)
    BY <1>19
  <2> QED
    BY <1>17, <1>19, <2>1 DEF LateReset
<1>21. Response' = Response
  <2>1. Response = wire
    <3>1. wire \o <<>> = wire
      BY <1>18
    <3> QED
      BY <1>17, <3>1 DEF Response
  <2>2. Front(Append(wire, f)) = wire
    BY <1>18, FrontOfAppend
  <2> QED
    BY <1>18, <1>20, <2>1, <2>2 DEF Response
<1>22. batch' = <<>>
  <2>1. batch' \in Seq(Events) /\ Len(batch') = 0
    BY <1>1, <1>17, Lengths, TailFacts
  <2> QED
    BY <2>1, EmptySeq
<1>5. /\ UNCHANGED <<responseTrailers, Response>> /\ Completed
  BY <1>18, <1>21
<1>23. Underway'
  BY <1>18 DEF Underway
<1>6. Told = Len(sends) /\ Told' = Len(sends) /\ filter' = "complete"
  BY <1>1, <1>3, <1>5 DEF Told, Completed, appVars
<1>7. Dispatches(0, Told) /\ sendBridge' \in Bridges(Events) /\ sendBridge'.closed
  <2> DEFINE m == 0
  <2>1. sendBridge.events = <<>> /\ Len(sendBridge.events) = 0
    BY <1>3, Lengths
  <2>2. m \in Nat /\ m <= Len(sendBridge.events) /\ \A i \in 1..m : FALSE
    BY <2>1
  <2>3. \A i \in 1..Len(sendBridge.events) : sendBridge.events[i].future <=> i <= m
    BY <2>1
  <2>4. Told \in Int /\ Told >= 0
    BY <1>6, Lengths
  <2> HIDE DEF m
  <2>5. Dispatches(m, Told) /\ sendBridge' \in Bridges(Events) /\ sendBridge'.closed
    BY <1>5, <2>2, <2>3, <2>4, CompletedFacts
  <2> QED
    BY <2>5 DEF m
<1>8. loop' \in Seq(Completions)
  BY <1>7 DEF Dispatches
<1>9. TypeOK'
  BY <1>1, <1>2, <1>5, <1>6, <1>7, <1>8, <1>18, <1>19, EmptySeq
     DEF TypeOK, callVars, appVars, Completions
<1>10. Counters'
  BY <1>1, <1>5 DEF Counters, BodyNext, callVars, appVars
<1>11. Stages'
  BY <1>1, <1>3, <1>6, <1>7 DEF Stages, callVars
<1>12. OnWire'
  BY <1>3, <1>5, <1>6 DEF OnWire
<1>13. Truthful'
  BY <1>1, <1>5 DEF Truthful, Ended, Taken, BodyNext, callVars, appVars
<1>14. Told' = Told + 0
  BY <1>6, Lengths
<1>15. Numbered'
  BY <1>1, <1>7, <1>14, NumberedSteady DEF appVars
<1>16. Flowing' /\ HeldBack'
  BY <1>6 DEF Flowing, HeldBack
<1>24. Overdue'
  <2>1. Last(wire') = f
    BY <1>19 DEF Last
  <2> QED
    BY <1>1, <1>6, <1>17, <1>20, <1>22, <2>1 DEF Overdue, appVars, f
<1> QED
  BY <1>9, <1>10, <1>11, <1>12, <1>13, <1>15, <1>16, <1>23, <1>24

\* A body that is handled while the response goes on.
LEMMA BodyGoesOn ==
  ASSUME IInv, HandleEvent, filter = "live", filter' = filter, sendBridge' = sendBridge,
         Pipe[1].kind \in {"Start", "Body"},
         loop' = IF Pipe[1].future THEN Append(loop, Completion(Pipe[1].chunk, "sent")) ELSE loop,
         responseTrailers' = IF Pipe[1].start = "trailers" THEN 0 ELSE responseTrailers,
         wire' \in Seq(Frames), sending' \in Seq(Frames), Underway', ~LateReset',
         Response' \in Seq(Frames), Response' # <<>>, Response'[1] = <<"headers", 0>>,
         \A k \in 2..Len(Response') : Response'[k] = <<"data", k - 1>>,
         Taken' = Taken + (IF Ahead >= 1 THEN 1 ELSE 0), ~Ended'
  PROVE  IInv'
<1> USE DEF IInv
<1>1. /\ batch # <<>> /\ batch' = Tail(batch)
      /\ UNCHANGED <<callVars, appVars, committing, commits, level, raises>>
  BY DEF HandleEvent
<1> DEFINE d == IF Ahead >= 1 THEN 1 ELSE 0
           L == Len(Pipe)
<1>2. /\ batch' \in Seq(Events) /\ Len(Pipe) >= 1 /\ Pipe # <<>>
      /\ Len(Pipe') = L - 1
      /\ \A k \in 1..(L - 1) : Pipe'[k] = Pipe[k + 1]
  BY <1>1, FirstOfPipe
<1>3. /\ InThePipe /\ Sizes /\ Beginning /\ Taken \in Nat
  BY LiveWire
<1>4. /\ Ahead \in Int /\ Bodies \in Int /\ Trailing \in Int /\ Failing \in 0..1 /\ L \in Nat
      /\ Bodies + Trailing + Failing = L /\ Taken + Ahead = produced /\ produced \in Nat
      /\ Len(sends) \in Nat /\ trailersSent \in Nat
  BY Numbers, Lengths
<1> HIDE DEF L
<1>5. 1 \in 1..L /\ 1 <= L
  BY <1>2, <1>4 DEF L
<1>6. /\ Bodies >= 1
      /\ Pipe[1].chunk = IF Ahead >= 1 THEN Taken + 1 ELSE 0
      /\ Pipe[1].future <=> 1 <= Ahead /\ Taken + 1 <= Len(sends)
      /\ Pipe[1].start # "none" => Pipe[1].kind = "Start"
      /\ Pipe[1].kind = "Start" => Response = <<>>
  BY <1>3, <1>4, <1>5 DEF InThePipe, Sizes, L
<1>7. d \in {0, 1} /\ Taken' = Taken + d /\ (d = 1 <=> Ahead >= 1)
  OBVIOUS
<1> HIDE DEF d
<1>8. Ahead' = Ahead - d
  BY <1>1, <1>3, <1>4, <1>7 DEF Ahead, appVars
<1>9. ~(nextEvent = "Start" \/ responseStart # "none")
  <2>1. L > Failing
    BY <1>3, <1>4, <1>6 DEF Sizes
  <2> QED
    BY <1>3, <1>4, <2>1 DEF Beginning, L
<1>10. Gathered' = Gathered
  <2>1. CASE Pipe[1].start = "trailers"
    <3>1. responseTrailers = NoTrailers /\ responseTrailers' = 0
      BY <1>3, <1>6, <2>1 DEF Beginning
    <3>2. 0 # NoTrailers
      BY DEF NoTrailers
    <3> QED
      BY <3>1, <3>2 DEF Gathered
  <2>2. CASE Pipe[1].start # "trailers"
    BY <2>2 DEF Gathered
  <2> QED
    BY <2>1, <2>2
<1>11. Trailing' = Trailing /\ Failing' = Failing
  BY <1>1, <1>10 DEF Trailing, Failing, appVars
<1>12. Bodies' = Bodies - 1
  <2>1. Bodies' = (L - 1) - Trailing - Failing
    BY <1>2, <1>11 DEF Bodies
  <2> QED
    BY <1>4, <2>1
<1>13. BodyNext' = BodyNext
  BY <1>1 DEF BodyNext, callVars
<1>14. responseTrailers' \in NoTrailers..MaxTrailers /\ responseTrailers' <= trailersSent
  <2>1. responseTrailers \in NoTrailers..MaxTrailers /\ responseTrailers <= trailersSent
    BY DEF TypeOK, Counters
  <2>2. 0 \in NoTrailers..MaxTrailers /\ 0 <= trailersSent
    BY <1>4, BoundsAssumption DEF NoTrailers
  <2> QED
    BY <2>1, <2>2
<1>15. Pipe[1].future => Pipe[1].chunk \in 1..MaxChunks
  <2>1. produced <= MaxChunks /\ MaxChunks \in Nat
    BY BoundsAssumption DEF TypeOK
  <2>2. Pipe[1].future => Ahead >= 1 /\ Taken + 1 <= produced
    BY <1>3, <1>4, <1>6
  <2> QED
    BY <1>3, <1>4, <1>6, <2>1, <2>2
<1>16. /\ loop' \in Seq(Completions) /\ Numbered'
  <2>1. CASE Pipe[1].future
    <3>1. Taken < Len(sends) /\ d = 1
      BY <1>3, <1>4, <1>6, <1>7, <2>1
    <3>2. Told = Taken /\ Told' = Taken + 1
      <4>1. Told = Taken
        BY <3>1 DEF Told
      <4>2. Taken' = Taken + 1 /\ sends' = sends /\ filter' = "live"
        BY <1>1, <1>7, <3>1 DEF appVars
      <4>3. Told' = IF Taken + 1 < Len(sends) THEN Taken + 1 ELSE Len(sends)
        BY <4>2 DEF Told
      <4> QED
        BY <1>3, <1>4, <3>1, <4>1, <4>3
    <3> DEFINE n == Pipe[1].chunk
    <3>3. n = Taken + 1 /\ n \in 1..MaxChunks /\ Taken \in Int
      BY <1>3, <1>6, <1>7, <1>15, <2>1, <3>1
    <3>4. loop' = Append(loop, Completion(n, "sent"))
      BY <2>1
    <3> HIDE DEF n
    <3>5. Dispatches(1, Taken)
      BY <3>3, <3>4, OneDispatched
    <3>6. Numbered'
      BY <1>1, <3>2, <3>5, NumberedSteady DEF appVars
    <3> QED
      BY <3>5, <3>6 DEF Dispatches
  <2>2. CASE ~Pipe[1].future
    <3>1. ~(Taken < Len(sends))
      <4>1. Len(sends) <= produced
        BY DEF TypeOK
      <4> QED
        BY <1>3, <1>4, <1>6, <2>2, <4>1
    <3>2. Told = Len(sends) /\ Told' = Told
      <4>1. Told = Len(sends)
        BY <3>1 DEF Told
      <4>2. ~(Taken' < Len(sends)) /\ sends' = sends
        BY <1>1, <1>3, <1>4, <1>7, <3>1 DEF appVars
      <4> QED
        BY <4>1, <4>2 DEF Told
    <3>3. Dispatches(0, Told)
      BY <2>2, NothingDispatched
    <3>4. Told' = Told + 0
      BY <1>4, <3>2
    <3>5. Numbered'
      BY <1>1, <3>3, <3>4, NumberedSteady DEF appVars
    <3> QED
      BY <3>3, <3>5 DEF Dispatches
  <2> QED
    BY <2>1, <2>2
<1>17. TypeOK'
  BY <1>1, <1>2, <1>14, <1>16 DEF TypeOK, callVars, appVars, Completions, Frames
<1>18. Counters'
  BY <1>1, <1>13, <1>14 DEF Counters, callVars, appVars
<1>19. Stages'
  BY <1>1 DEF Stages, callVars
<1>20. OnWire'
  BY DEF OnWire
<1>21. Truthful'
  BY DEF Truthful
<1>22. HeldBack'
  <2>1. Ahead <= 1 => Ahead' <= 1
    BY <1>4, <1>7, <1>8
  <2> QED
    BY <1>1, <2>1 DEF HeldBack, AnyCancelled, appVars
<1>23. Sizes'
  <2>1. Ahead' >= 0
    BY <1>3, <1>4, <1>7, <1>8 DEF Sizes
  <2>2. Ahead' <= Bodies' /\ Bodies' <= Ahead' + 1
    BY <1>3, <1>4, <1>6, <1>7, <1>8, <1>12 DEF Sizes
  <2>3. Bodies' = Ahead' + 1 => Bodies = Ahead + 1
    BY <1>3, <1>4, <1>6, <1>7, <1>8, <1>12 DEF Sizes
  <2> QED
    BY <1>1, <1>3, <1>11, <1>13, <2>1, <2>2, <2>3 DEF Sizes, appVars
<1>24. InThePipe'
  <2>1. ASSUME NEW k \in 1..(L - 1)
        PROVE  /\ k <= Ahead - d => Pipe'[k].chunk = Taken + d + k
               /\ k > Ahead - d => Pipe'[k].chunk = 0
               /\ Pipe'[k].future <=> k <= Ahead - d /\ Taken + d + k <= Len(sends)
               /\ Pipe'[k].start # "none" => Pipe'[k].kind = "Start"
               /\ Pipe'[k].kind # "Start"
               /\ k <= Bodies - 1 => Pipe'[k].kind \in {"Start", "Body"}
               /\ k > Bodies - 1 /\ k <= Bodies - 1 + Trailing =>
                    Pipe'[k].kind \in {"MoreTrailers", "Trailers"}
               /\ k > Bodies - 1 + Trailing => Pipe'[k].kind = "Exception"
               /\ Pipe'[k].kind = "Trailers" =>
                    k = Bodies - 1 + Trailing /\ nextEvent = "Done" /\ ~trailersFailed
    <3> DEFINE j == k + 1
    <3>1. j \in 1..L /\ j # 1 /\ k \in Nat /\ Pipe'[k] = Pipe[j]
      BY SMTT(60), <1>2, <1>4
    <3> HIDE DEF j
    <3>2. /\ j <= Ahead => Pipe[j].chunk = Taken + j
          /\ j > Ahead => Pipe[j].chunk = 0
          /\ Pipe[j].future <=> j <= Ahead /\ Taken + j <= Len(sends)
          /\ Pipe[j].start # "none" => Pipe[j].kind = "Start"
          /\ Pipe[j].kind # "Start"
          /\ j <= Bodies => Pipe[j].kind \in {"Start", "Body"}
          /\ j > Bodies /\ j <= Bodies + Trailing => Pipe[j].kind \in {"MoreTrailers", "Trailers"}
          /\ j > Bodies + Trailing => Pipe[j].kind = "Exception"
          /\ Pipe[j].kind = "Trailers" =>
               j = Bodies + Trailing /\ nextEvent = "Done" /\ ~trailersFailed
      BY <1>3, <3>1 DEF InThePipe, L
    <3>3. /\ k <= Ahead - d <=> j <= Ahead
          /\ k > Ahead - d <=> j > Ahead
      BY <1>4, <1>7, <3>1 DEF j
    <3>4. j <= Ahead => Taken + d + k = Taken + j
      BY <1>3, <1>4, <1>7, <3>1 DEF j
    <3>5. /\ k <= Bodies - 1 <=> j <= Bodies
          /\ k > Bodies - 1 <=> j > Bodies
          /\ k <= Bodies - 1 + Trailing <=> j <= Bodies + Trailing
          /\ k > Bodies - 1 + Trailing <=> j > Bodies + Trailing
          /\ k = Bodies - 1 + Trailing <=> j = Bodies + Trailing
      <4>1. \A b \in Int : /\ k <= b - 1 <=> j <= b
                           /\ k > b - 1 <=> j > b
                           /\ k = b - 1 <=> j = b
        BY ONLY <3>1 DEF j
      <4>2. Bodies + Trailing \in Int /\ Bodies - 1 + Trailing = (Bodies + Trailing) - 1
        BY <1>4
      <4> QED
        BY <1>4, <4>1, <4>2
    <3> QED
      BY <3>1, <3>2, <3>3, <3>4, <3>5
  <2>2. nextEvent' = nextEvent /\ sends' = sends /\ trailersFailed' = trailersFailed
    BY <1>1 DEF callVars, appVars
  <2> QED
    BY <1>2, <1>7, <1>8, <1>11, <1>12, <2>1, <2>2 DEF InThePipe
<1>25. Beginning'
  <2>1. UNCHANGED <<nextEvent, responseStart, trailersAccepted, trailersSent, trailersFailed>>
    BY <1>1 DEF callVars, appVars
  <2>2. Pipe' # <<>> => Pipe'[1].start = "none"
    <3> SUFFICES ASSUME Pipe' # <<>> PROVE Pipe'[1].start = "none"
      OBVIOUS
    <3>1. Len(Pipe') # 0
      BY <1>17, PipeFacts, Lengths, <1>2 DEF Pipe
    <3>2. 1 \in 1..(L - 1) /\ 2 \in 1..L
      BY <1>2, <1>4, <3>1
    <3>3. Pipe'[1] = Pipe[2]
      BY <1>2, <3>2
    <3>4. Pipe[2].start # "none" => Pipe[2].kind = "Start"
      BY <1>3, <3>2 DEF InThePipe, L
    <3>5. Pipe[2].kind = "Start" => 2 = 1
      BY <1>3, <3>2 DEF InThePipe, L
    <3> QED
      BY <3>3, <3>4, <3>5
  <2>3. 0 # NoTrailers
    BY DEF NoTrailers
  <2>4. Announced' <=> Announced
    BY <1>2, <2>1, <2>2, <2>3 DEF Announced
  <2> QED
    BY <1>3, <1>9, <2>1, <2>4 DEF Beginning
<1>26. Flowing'
  BY <1>23, <1>24, <1>25 DEF Flowing
<1>27. Overdue'
  BY DEF Overdue
<1> QED
  BY <1>16, <1>17, <1>18, <1>19, <1>20, <1>21, <1>22, <1>26, <1>27

\* process_send_events, for a body.
LEMMA HandleBodyStep ==
  ASSUME IInv, HandleEvent, filter = "live", Head(batch).kind \in {"Start", "Body"}
  PROVE  IInv'
<1> USE DEF IInv
<1> DEFINE e == Pipe[1]
           trailers == IF e.start = "trailers" THEN 0 ELSE responseTrailers
           ends == ~e.future /\ trailers = NoTrailers
<1>1. /\ batch # <<>> /\ batch' = Tail(batch)
      /\ UNCHANGED <<callVars, appVars, committing, commits, level, raises>>
  BY DEF HandleEvent
<1>2. Head(batch) = e /\ e \in Events /\ Pipe # <<>> /\ 1 \in 1..Len(Pipe)
  <2>1. Head(batch) = e /\ Head(batch) \in Events /\ Pipe # <<>> /\ Len(Pipe) >= 1
    BY <1>1, FirstOfPipe
  <2> HIDE DEF e
  <2> QED
    BY <2>1, Numbers
<1>3. HandleBody(e)
  <2>1. e.kind \in {"Start", "Body"}
    BY <1>2
  <2> HIDE DEF e, IInv
  <2> QED
    BY <1>2, <2>1 DEF HandleEvent
<1>4. ends \in BOOLEAN /\ e.future \in BOOLEAN /\ e.kind \in {"Start", "Body"}
  BY <1>2 DEF Events
<1> DEFINE r == Response \o (BodyFrames(e) \o (IF ends THEN <<<<"end", 0>>>> ELSE <<>>))
<1>5. /\ Bodies >= 1
      /\ e.chunk = IF Ahead >= 1 THEN Taken + 1 ELSE 0
      /\ BodyFrames(e) \in Seq(Frames)
      /\ Len(BodyFrames(e)) =
           (IF Response = <<>> THEN 1 ELSE 0) + (IF Ahead >= 1 THEN 1 ELSE 0)
      /\ r \in Seq(Frames) /\ r # <<>>
      /\ r[1] = <<"headers", 0>>
      /\ \A k \in 2..Len(r) : \/ r[k] = <<"data", k - 1>>
                              \/ ends /\ k = Len(r) /\ r[k] = <<"end", 0>>
      /\ ends => r[Len(r)] = <<"end", 0>>
      /\ \A k \in 1..(Len(r) - 1) : r[k][1] \in {"headers", "data"}
      /\ Response' = r => /\ Taken' = Taken + (IF Ahead >= 1 THEN 1 ELSE 0)
                          /\ Ended' <=> ends
  <2> HIDE DEF ends
  <2> QED
    BY ZenonT(60), <1>2, <1>4, BodyOnTheWire
<1>9. /\ sending = <<>> /\ wire = Response /\ ~LateReset /\ wire \in Seq(Frames)
  BY LiveResponse, Lengths DEF HandleEvent
<1>10. r = wire \o BodyFrames(e) \o (IF ends THEN <<<<"end", 0>>>> ELSE <<>>)
  <2> DEFINE z == IF ends THEN <<<<"end", 0>>>> ELSE <<>>
             f == BodyFrames(e)
  <2>1. z \in Seq(Frames)
    BY DEF Frames
  <2>2. f \in Seq(Frames)
    BY <1>5
  <2> HIDE DEF z, f
  <2>3. (wire \o f) \o z = wire \o (f \o z)
    BY <1>9, <2>1, <2>2, ConcatAssociative
  <2> QED
    BY <1>9, <2>3 DEF z, f
<1>11. wire \o BodyFrames(e) \in Seq(Frames) /\ (~ends => r = wire \o BodyFrames(e))
  <2> DEFINE f == BodyFrames(e)
             w == wire \o f
  <2>1. f \in Seq(Frames)
    BY <1>5
  <2> HIDE DEF f
  <2>2. w \in Seq(Frames)
    BY <1>9, <2>1, ConcatFacts
  <2>3. ~ends => r = w \o <<>>
    BY <1>10 DEF f
  <2> HIDE DEF w, r, ends
  <2>4. w \o <<>> = w
    BY <2>2, ConcatEmptySeq
  <2> QED
    BY <2>2, <2>3, <2>4 DEF w, f
<1> HIDE DEF r
<1>12. responseTrailers' = trailers
  <2> HIDE DEF e, IInv
  <2> QED
    BY <1>3 DEF HandleBody
<1>6. CASE e.future
  <2>1. /\ loop' = Append(loop, Completion(e.chunk, "sent")) /\ sending' = BodyFrames(e)
        /\ wire' = wire /\ filter' = filter /\ sendBridge' = sendBridge
    <3> HIDE DEF e, IInv
    <3> QED
      BY <1>3, <1>6 DEF HandleBody
  <2>2. ~ends /\ r = wire \o BodyFrames(e)
    BY <1>6, <1>11
  <2> HIDE DEF ends
  <2>3. ~LateReset'
    BY <1>9, <2>1 DEF LateReset
  <2>4. Response' = r
    BY <2>1, <2>2, <2>3 DEF Response
  <2>5. Ahead >= 1
    <3>1. InThePipe
      BY LiveWire
    <3>2. Ahead \in Int
      BY Numbers
    <3> QED
      BY <1>2, <1>6, <3>1, <3>2 DEF InThePipe
  <2>6. Underway'
    <3>1. Len(BodyFrames(e)) = (IF Response = <<>> THEN 1 ELSE 0) + 1
      BY <1>5, <2>5
    <3> HIDE DEF e, IInv
    <3>2. IF wire' = <<>> THEN Len(sending') = 2 ELSE Len(sending') = 1
      BY <1>9, <2>1, <3>1
    <3> QED
      BY <2>1, <3>2 DEF Underway
  <2>7. \A k \in 2..Len(r) : r[k] = <<"data", k - 1>>
    BY <1>5, <2>2
  <2> HIDE DEF e
  <2> QED
    BY <1>4, <1>5, <1>6, <1>9, <1>12, <2>1, <2>2, <2>3, <2>4, <2>6, <2>7, BodyGoesOn DEF e
<1>7. CASE ~ends /\ ~e.future
  <2>1. /\ wire' = wire \o BodyFrames(e) /\ sending' = sending /\ loop' = loop
        /\ filter' = filter /\ sendBridge' = sendBridge
    <3>1. responseTrailers' # NoTrailers
      BY <1>7, <1>12
    <3> HIDE DEF e, IInv, ends
    <3> QED
      BY <1>3, <1>7, <3>1 DEF HandleBody
  <2>2. wire' = r /\ sending' = <<>>
    BY <1>7, <1>9, <1>11, <2>1
  <2> HIDE DEF ends
  <2>3. ~LateReset' /\ Response' = r
    BY <1>5, <2>2, Enlarged
  <2>4. Underway'
    BY <2>2 DEF Underway
  <2>5. \A k \in 2..Len(r) : r[k] = <<"data", k - 1>>
    BY <1>5, <1>7
  <2>6. sending' \in Seq(Frames)
    BY <2>2, EmptySeq
  <2> HIDE DEF e
  <2> QED
    BY <1>4, <1>5, <1>7, <1>12, <2>1, <2>2, <2>3, <2>4, <2>5, <2>6, BodyGoesOn DEF e
<1>8. CASE ends
  <2>1. Completed /\ ~e.future /\ trailers = NoTrailers
        /\ wire' = wire \o BodyFrames(e) \o <<<<"end", 0>>>> /\ sending' = sending
    <3>1. responseTrailers' = NoTrailers /\ ~e.future
      BY <1>8, <1>12
    <3> HIDE DEF e, IInv, ends
    <3> QED
      BY <1>3, <1>12, <3>1 DEF HandleBody
  <2>19. wire' = r /\ sending' = <<>>
    BY <1>8, <1>9, <1>10, <2>1
  <2>2. responseTrailers = NoTrailers /\ responseTrailers' = NoTrailers /\ e.start # "trailers"
    <3>1. 0 # NoTrailers
      BY DEF NoTrailers
    <3> QED
      BY <1>12, <2>1, <3>1
  <2> HIDE DEF ends
  <2>20. ~LateReset' /\ Response' = r
    BY <1>5, <2>19, Enlarged
  <2>21. Taken' = Taken + (IF Ahead >= 1 THEN 1 ELSE 0) /\ (Ended' <=> ends)
    BY <1>5, <2>20
  <2>3. InThePipe /\ Sizes /\ Beginning /\ Taken \in Nat
    BY LiveWire
  <2>4. /\ Ahead \in Int /\ Bodies \in Int /\ Trailing \in Int /\ Failing \in 0..1
        /\ Bodies + Trailing + Failing = Len(Pipe) /\ Len(Pipe) \in Nat
        /\ Taken + Ahead = produced /\ produced \in Nat
        /\ Len(sends) \in Nat /\ trailersSent \in Nat
        /\ \A k \in 1..Len(Pipe) : Pipe[k] \in Events
    BY Numbers, Lengths
  <2>5. Len(Pipe) > Failing
    BY <1>5, <2>3, <2>4 DEF Sizes
  <2>6. ~(nextEvent = "Start" \/ responseStart # "none")
    BY <2>3, <2>4, <2>5 DEF Beginning
  <2>7. ~(1 <= Ahead /\ Taken + 1 <= Len(sends))
    BY <1>2, <2>1, <2>3 DEF InThePipe
  <2>8. Len(sends) <= Taken /\ Ahead <= 1 /\ (Ahead = 1 => Len(sends) # produced)
    <3>1. Len(sends) <= produced /\ produced - 1 <= Len(sends)
      BY DEF TypeOK, Counters
    <3>2. Ahead >= 0
      BY <2>3 DEF Sizes
    <3> QED
      BY <2>3, <2>4, <2>7, <3>1, <3>2
  <2>9. Bodies = 1 /\ ~BodyNext
    <3>1. CASE Ahead = 1
      <4>1. Len(sends) # produced /\ Bodies # 2
        BY <2>3, <2>4, <2>8, <3>1 DEF Sizes
      <4>2. Bodies = 1
        BY <1>5, <2>3, <2>4, <3>1, <4>1 DEF Sizes
      <4> QED
        BY <4>1, <4>2 DEF Counters
    <3>2. CASE Ahead # 1
      <4>1. Ahead = 0
        BY <2>3, <2>4, <2>8, <3>2 DEF Sizes
      <4>2. Bodies = Ahead + 1 /\ Bodies = 1
        BY <1>5, <2>3, <2>4, <4>1 DEF Sizes
      <4> QED
        BY <2>3, <4>2 DEF Sizes
    <3> QED
      BY <3>1, <3>2
  <2>10. ~Announced
    BY <2>2, <2>6 DEF Announced
  <2>11. /\ ~trailersAccepted \/ (nextEvent = "Done" /\ trailersSent = 0)
         /\ ~trailersFailed
    <3>1. trailersAccepted =>
            /\ ~(nextEvent \in {"BodyThenTrailers", "Trailers"}) /\ ~(trailersSent > 0)
            /\ ~trailersFailed
      BY <2>3, <2>10 DEF Beginning
    <3>2. nextEvent \in {"Start", "Body", "BodyThenTrailers", "Trailers", "Done"}
      BY DEF TypeOK
    <3>3. ~(trailersSent > 0) => trailersSent = 0
      BY <2>4
    <3> QED
      BY <2>9, <3>1, <3>2, <3>3 DEF BodyNext, Counters
  <2>12. Trailing = 0
    <3>1. Gathered = 0
      BY <2>2 DEF Gathered
    <3> QED
      BY <2>4, <2>11, <3>1 DEF Trailing
  <2>13. ASSUME NEW k \in 2..Len(Pipe) PROVE Pipe[k].kind = "Exception" /\ ~Pipe[k].future
    <3>1. k \in 1..Len(Pipe) /\ k > Bodies + Trailing /\ ~(k <= Ahead)
      BY <2>4, <2>8, <2>9, <2>12
    <3> QED
      BY <2>3, <3>1 DEF InThePipe
  <2>14. Taken' = produced
    BY <2>3, <2>4, <2>8, <2>21 DEF Sizes
  <2>15. BodyNext' = BodyNext /\ filter' = "complete"
         /\ UNCHANGED <<trailersAccepted, nextEvent, trailersSent, trailersFailed, produced>>
    BY <1>1, <2>1 DEF BodyNext, Completed, callVars, appVars
  <2>16. OnWire'
    <3>1. "end" \in Finals /\ <<"end", 0>>[1] = "end"
      BY DEF Finals
    <3> QED
      BY <1>5, <2>15, <2>20, <3>1 DEF OnWire
  <2>17. Truthful'
    BY <1>5, <1>8, <2>9, <2>11, <2>14, <2>15, <2>20, <2>21 DEF Truthful
  <2>22. Len(Pipe) > 1 => /\ Len(Pipe) = 2 /\ app = "raised"
                          /\ r # <<>> /\ r[Len(r)][1] \in {"end", "trailers"}
    <3>1. Len(Pipe) = 1 + Failing
      BY <2>4, <2>9, <2>12
    <3>2. Len(Pipe) > 1 => Len(Pipe) = 2 /\ Failing = 1
      BY <2>4, <3>1
    <3>3. r[Len(r)][1] = "end"
      BY <1>5, <1>8
    <3> QED
      BY <1>5, <3>2, <3>3 DEF Failing
  <2>18. responseTrailers' \in NoTrailers..MaxTrailers /\ responseTrailers' <= trailersSent
    BY <2>2 DEF TypeOK, Counters
  <2> QED
    BY <1>5, <2>1, <2>8, <2>13, <2>16, <2>17, <2>18, <2>19, <2>20, <2>22, LastEvent
<1> QED
  BY <1>6, <1>7, <1>8

\* One frame goes downstream.
LEMMA OneFrame ==
  ASSUME TypeOK, NEW f \in Frames, NEW r, r = Response \o <<f>>
  PROVE  /\ r \in Seq(Frames) /\ Len(r) = Len(Response) + 1 /\ r # <<>>
         /\ \A k \in 1..Len(Response) : r[k] = Response[k]
         /\ r[Len(Response) + 1] = f
<1>1. Response \in Seq(Frames)
  BY Lengths
<1>2. r = Append(Response, f)
  BY <1>1
<1>3. r # <<>>
  BY <1>2, <1>1
<1> QED
  BY <1>1, <1>2, <1>3, AppendFacts

\* What is in the pipe behind an event that is no body.
LEMMA NoBodyFirst ==
  ASSUME IInv, filter = "live", Pipe # <<>>,
         Pipe[1].kind \in {"MoreTrailers", "Trailers", "Exception"}
  PROVE  /\ Bodies = 0 \/ (Pipe[1].kind = "Exception" /\ Bodies + Trailing < 1)
         /\ Ahead = 0 /\ Taken = produced /\ Len(sends) <= Taken /\ ~Pipe[1].future
         /\ \A k \in 1..Len(Pipe) : ~Pipe[k].future
         /\ Pipe[1].kind # "Exception" => Trailing >= 1
         /\ Pipe[1].kind # "MoreTrailers" =>
              \A k \in 2..Len(Pipe) : Pipe[k].kind = "Exception"
         /\ Pipe[1].kind # "MoreTrailers" /\ Len(Pipe) > 1 =>
              Len(Pipe) = 2 /\ app = "raised" /\ Pipe[1].kind = "Trailers"
<1> USE DEF IInv
<1>1. InThePipe /\ Sizes /\ Beginning /\ Taken \in Nat
  BY LiveWire
<1>2. /\ Ahead \in Int /\ Bodies \in Int /\ Trailing \in Int /\ Taken + Ahead = produced
      /\ produced \in Nat /\ Len(sends) \in Nat /\ Len(Pipe) \in Nat /\ 1 \in 1..Len(Pipe)
      /\ \A k \in 1..Len(Pipe) : Pipe[k] \in Events
  BY Numbers, Lengths
<1>3. ~(1 <= Bodies)
  BY <1>1, <1>2 DEF InThePipe
<1>4. Bodies = 0 /\ Ahead = 0 /\ Taken = produced
  BY <1>1, <1>2, <1>3 DEF Sizes
<1>5. Len(sends) <= produced
  BY DEF TypeOK
<1>6. \A k \in 1..Len(Pipe) : ~(k <= Ahead)
  BY <1>2, <1>4
<1>7. \A k \in 1..Len(Pipe) : ~Pipe[k].future
  BY <1>1, <1>6 DEF InThePipe
<1>8. Pipe[1].kind # "Exception" => Trailing >= 1
  <2>1. Pipe[1].kind # "Exception" => ~(1 > Bodies + Trailing)
    BY <1>1, <1>2 DEF InThePipe
  <2> QED
    BY <1>2, <1>4, <2>1
<1>9. Pipe[1].kind # "MoreTrailers" => Trailing <= 1
  <2>1. Pipe[1].kind = "Trailers" => 1 = Bodies + Trailing
    BY <1>1, <1>2 DEF InThePipe
  <2>2. Pipe[1].kind = "Exception" => ~(1 > Bodies /\ 1 <= Bodies + Trailing)
    BY <1>1, <1>2 DEF InThePipe
  <2>3. Pipe[1].kind = "Trailers" => Trailing <= 1
    BY <1>2, <1>4, <2>1
  <2>4. Pipe[1].kind = "Exception" => Trailing <= 1
    BY <1>2, <1>4, <2>2
  <2> QED
    BY <2>3, <2>4
<1>10. ASSUME Pipe[1].kind # "MoreTrailers", NEW k \in 2..Len(Pipe)
       PROVE  Pipe[k].kind = "Exception"
  <2>1. k \in 1..Len(Pipe) /\ k > Bodies + Trailing
    BY <1>2, <1>4, <1>9, <1>10
  <2> QED
    BY <1>1, <2>1 DEF InThePipe
<1>11. ASSUME Pipe[1].kind # "MoreTrailers", Len(Pipe) > 1
       PROVE  Len(Pipe) = 2 /\ app = "raised" /\ Pipe[1].kind = "Trailers"
  <2>1. Failing \in 0..1 /\ Bodies + Trailing + Failing = Len(Pipe)
    BY Numbers
  <2>2. Trailing <= 1 /\ Trailing >= 0
    BY <1>1, <1>9, <1>11 DEF Sizes
  <2>3. Len(Pipe) = 2 /\ Failing = 1 /\ Trailing = 1
    BY <1>2, <1>4, <1>11, <2>1, <2>2
  <2>4. Pipe[1].kind # "Exception"
    BY <1>1, <1>2, <1>4, <2>3 DEF InThePipe
  <2> QED
    BY <1>11, <2>3, <2>4 DEF Failing
<1> QED
  BY <1>2, <1>4, <1>5, <1>7, <1>8, <1>10, <1>11

\* Trailers reach only a filter that expects them.
LEMMA TrailersAnnounced ==
  ASSUME IInv, filter = "live", Pipe # <<>>, Pipe[1].kind \in {"MoreTrailers", "Trailers"}
  PROVE  /\ responseTrailers \in Nat /\ responseTrailers # NoTrailers
         /\ trailersAccepted /\ Trailing = trailersSent - responseTrailers
         /\ ~BodyNext /\ Response # <<>> /\ responseStart = "none" /\ Announced
<1> USE DEF IInv
<1>1. InThePipe /\ Sizes /\ Beginning
  BY LiveWire
<1>2. Trailing >= 1 /\ Trailing \in Int /\ trailersSent \in Nat /\ 1 \in 1..Len(Pipe)
  BY NoBodyFirst, Numbers
<1>3. trailersAccepted /\ Trailing = trailersSent - Gathered
  BY <1>2 DEF Trailing
<1>4. responseTrailers \in -1..MaxTrailers /\ MaxTrailers \in Nat
  BY BoundsAssumption DEF TypeOK, NoTrailers
<1>5. trailersSent > 0
  <2>1. Gathered >= 0 /\ Gathered \in Int
    BY <1>4 DEF Gathered, NoTrailers
  <2> QED
    BY <1>2, <1>3, <2>1
<1>6. ~BodyNext
  BY <1>2, <1>5 DEF Counters
<1>7. responseStart = "none"
  BY <1>1, <1>6 DEF Beginning
<1>8. Announced
  BY <1>1, <1>3, <1>5 DEF Beginning
<1>9. Pipe[1].start # "trailers"
  BY <1>1, <1>2 DEF InThePipe
<1>10. responseTrailers # NoTrailers
  BY <1>7, <1>8, <1>9 DEF Announced
<1>11. responseTrailers \in Nat
  BY <1>4, <1>10 DEF NoTrailers
<1>12. Gathered = responseTrailers
  BY <1>10 DEF Gathered
<1>13. Response # <<>>
  BY <1>1, <1>10 DEF Beginning
<1> QED
  BY <1>3, <1>6, <1>7, <1>8, <1>10, <1>11, <1>12, <1>13

LEMMA HandleTrailersStep ==
  ASSUME IInv, HandleEvent, filter = "live", Head(batch).kind \in {"MoreTrailers", "Trailers"}
  PROVE  IInv'
<1> USE DEF IInv
<1> DEFINE e == Pipe[1]
           L == Len(Pipe)
<1>1. /\ batch # <<>> /\ batch' = Tail(batch)
      /\ UNCHANGED <<callVars, appVars, committing, commits, level, raises>>
  BY DEF HandleEvent
<1>2. Head(batch) = e /\ Pipe # <<>> /\ batch' \in Seq(Events)
  BY <1>1, FirstOfPipe
<1>3. e.kind \in {"MoreTrailers", "Trailers"}
  BY <1>2
<1>4. HandleTrailers(e)
  <2> HIDE DEF e, IInv
  <2> QED
    BY <1>2, <1>3 DEF HandleEvent
<1>5. /\ responseTrailers \in Nat /\ responseTrailers # NoTrailers
      /\ trailersAccepted /\ Trailing = trailersSent - responseTrailers
      /\ ~BodyNext /\ Response # <<>> /\ responseStart = "none" /\ Announced
  BY <1>2, <1>3, TrailersAnnounced
<1>6. /\ Bodies = 0 /\ Ahead = 0 /\ Taken = produced /\ Len(sends) <= Taken
      /\ \A k \in 1..Len(Pipe) : ~Pipe[k].future
      /\ Trailing >= 1
      /\ e.kind # "MoreTrailers" => \A k \in 2..Len(Pipe) : Pipe[k].kind = "Exception"
  BY <1>2, <1>3, NoBodyFirst
<1>7. InThePipe /\ Sizes /\ Beginning /\ Taken \in Nat
  BY LiveWire
<1>8. /\ Trailing \in Int /\ Failing \in 0..1 /\ L \in Nat /\ trailersSent \in Nat
      /\ Bodies + Trailing + Failing = L /\ trailersSent <= MaxTrailers /\ MaxTrailers \in Nat
  BY Numbers, BoundsAssumption DEF TypeOK
<1>11. sending = <<>> /\ wire = Response /\ ~LateReset
  BY LiveResponse DEF HandleEvent
<1>9. CASE e.kind = "MoreTrailers"
  <2>0. /\ responseTrailers' = responseTrailers + 1
        /\ UNCHANGED <<wire, sending, filter, sendBridge, loop>>
    BY <1>4, <1>5, <1>9 DEF HandleTrailers
  <2>19. Response' = Response /\ Underway' /\ Overdue'
    BY <1>1, <2>0, Untouched DEF appVars
  <2>1. /\ responseTrailers' = responseTrailers + 1
        /\ UNCHANGED <<Response, filter, sendBridge, loop>>
    BY <2>0, <2>19
  <2>2. /\ Len(Pipe') = L - 1
        /\ \A k \in 1..(L - 1) : Pipe'[k] = Pipe[k + 1]
    BY <1>1, <2>1, FirstOfPipe
  <2> HIDE DEF L, e
  <2>3. Taken' = Taken /\ Ended' = Ended /\ Ahead' = Ahead /\ Told' = Told /\ BodyNext' = BodyNext
    BY <1>1, <2>1 DEF Taken, Ended, Ahead, Told, BodyNext, callVars, appVars
  <2>4. responseTrailers' # NoTrailers
    BY <1>5, <2>1 DEF NoTrailers
  <2>5. Trailing' = Trailing - 1 /\ Failing' = Failing
    <3>1. Gathered' = responseTrailers + 1
      BY <2>1, <2>4 DEF Gathered
    <3>2. Trailing' = trailersSent - (responseTrailers + 1)
      BY <1>1, <1>5, <3>1 DEF Trailing, appVars
    <3>3. Failing' = Failing
      BY <1>1 DEF Failing, appVars
    <3> QED
      BY <1>5, <1>8, <3>2, <3>3
  <2>6. Bodies' = 0
    <3>1. Bodies' = (L - 1) - Trailing' - Failing'
      BY <2>2 DEF Bodies
    <3> QED
      BY <1>6, <1>8, <2>5, <3>1
  <2>7. responseTrailers' <= trailersSent /\ responseTrailers' \in NoTrailers..MaxTrailers
    BY <1>5, <1>6, <1>8, <2>1 DEF NoTrailers
  <2>8. TypeOK'
    BY <1>1, <1>2, <2>0, <2>7 DEF TypeOK, callVars, appVars
  <2>9. Counters'
    BY <1>1, <2>3, <2>7 DEF Counters, callVars, appVars
  <2>10. Stages'
    BY <1>1, <2>1 DEF Stages, callVars
  <2>11. OnWire'
    BY <2>1 DEF OnWire
  <2>12. ~Ended
    BY LiveWire
  <2>13. Truthful'
    BY <2>3, <2>12 DEF Truthful
  <2>14. Numbered'
    <3>1. Done' = Done
      BY <2>1, <2>3 DEF Done
    <3> QED
      BY <1>1, <2>1, <3>1 DEF Numbered, appVars
  <2>15. HeldBack'
    BY <1>1, <2>1, <2>3 DEF HeldBack, AnyCancelled, appVars
  <2>16. Sizes'
    BY <1>6, <1>8, <2>3, <2>5, <2>6 DEF Sizes
  <2>17. InThePipe'
    <3>1. ASSUME NEW k \in 1..(L - 1)
          PROVE  /\ ~(k <= 0) /\ k > 0 /\ Pipe'[k].chunk = 0 /\ ~Pipe'[k].future
                 /\ Pipe'[k].start # "none" => Pipe'[k].kind = "Start"
                 /\ Pipe'[k].kind # "Start"
                 /\ k <= 0 + Trailing' => Pipe'[k].kind \in {"MoreTrailers", "Trailers"}
                 /\ k > 0 + Trailing' => Pipe'[k].kind = "Exception"
                 /\ Pipe'[k].kind = "Trailers" =>
                      k = 0 + Trailing' /\ nextEvent = "Done" /\ ~trailersFailed
      <4> DEFINE j == k + 1
      <4>1. j \in 1..L /\ j # 1 /\ Pipe'[k] = Pipe[j] /\ j > Bodies /\ j > Ahead
            /\ ~(k <= 0) /\ k > 0
        BY <1>6, <1>8, <2>2
      <4>2. /\ k <= 0 + Trailing' <=> j <= Bodies + Trailing
            /\ k > 0 + Trailing' <=> j > Bodies + Trailing
            /\ j = Bodies + Trailing => k = 0 + Trailing'
        BY <1>6, <1>8, <2>5
      <4> HIDE DEF j
      <4>3. /\ j > Ahead => Pipe[j].chunk = 0
            /\ Pipe[j].start # "none" => Pipe[j].kind = "Start"
            /\ Pipe[j].kind # "Start"
            /\ j > Bodies /\ j <= Bodies + Trailing => Pipe[j].kind \in {"MoreTrailers", "Trailers"}
            /\ j > Bodies + Trailing => Pipe[j].kind = "Exception"
            /\ Pipe[j].kind = "Trailers" =>
                 j = Bodies + Trailing /\ nextEvent = "Done" /\ ~trailersFailed
        BY <1>7, <4>1 DEF InThePipe, L
      <4>4. ~Pipe[j].future
        BY <1>6, <4>1 DEF L
      <4> QED
        BY <4>1, <4>2, <4>3, <4>4
    <3>2. nextEvent' = nextEvent /\ trailersFailed' = trailersFailed
      BY <1>1 DEF callVars, appVars
    <3>3. Ahead' = 0
      BY <1>6, <2>3
    <3> QED
      BY <2>2, <2>6, <3>1, <3>2, <3>3 DEF InThePipe
  <2>18. Beginning'
    <3>1. Announced'
      BY <2>4 DEF Announced
    <3>2. ~(nextEvent = "Start")
      BY <1>5 DEF BodyNext
    <3> QED
      BY <1>1, <1>5, <1>7, <2>1, <3>1, <3>2 DEF Beginning, callVars, appVars
  <2> QED
    BY <2>8, <2>9, <2>10, <2>11, <2>13, <2>14, <2>15, <2>16, <2>17, <2>18, <2>19 DEF Flowing
<1>10. CASE e.kind = "Trailers"
  <2> DEFINE f == <<"trailers", responseTrailers + 1>>
             r == Response \o <<f>>
  <2>1. /\ responseTrailers' = NoTrailers /\ wire' = r /\ sending' = <<>> /\ Completed
    BY <1>4, <1>5, <1>10, <1>11 DEF HandleTrailers
  <2>2. 1 = Bodies + Trailing /\ nextEvent = "Done" /\ ~trailersFailed
    <3>1. 1 \in 1..Len(Pipe)
      BY <1>2, Numbers
    <3> QED
      BY <1>7, <1>10, <3>1 DEF InThePipe
  <2>3. trailersSent = responseTrailers + 1
    BY <1>5, <1>6, <1>8, <2>2
  <2>4. f \in Frames /\ f[1] = "trailers" /\ f[2] = trailersSent
    BY <1>5, <2>3 DEF Frames
  <2> HIDE DEF f
  <2>14. /\ r \in Seq(Frames) /\ Len(r) = Len(Response) + 1 /\ r # <<>>
         /\ \A k \in 1..Len(Response) : r[k] = Response[k]
         /\ r[Len(Response) + 1] = f
    BY <2>4, OneFrame
  <2> HIDE DEF r
  <2>6. /\ Len(Response) = Taken + 1 /\ Response[1] = <<"headers", 0>>
        /\ \A k \in 2..Len(Response) : Response[k] = <<"data", k - 1>>
    BY <1>5, LiveWire
  <2>15. ~LateReset' /\ Response' = r
    <3>1. \A k \in 1..(Len(r) - 1) : r[k] = Response[k] /\ (k = 1 \/ k \in 2..Len(Response))
      BY <1>7, <2>6, <2>14
    <3>2. \A k \in 1..(Len(r) - 1) : r[k][1] \in {"headers", "data"}
      BY <2>6, <3>1
    <3> QED
      BY <2>1, <2>14, <3>2, Enlarged
  <2>5. /\ Response' \in Seq(Frames) /\ Len(Response') = Len(Response) + 1 /\ Response' # <<>>
        /\ \A k \in 1..Len(Response) : Response'[k] = Response[k]
        /\ Response'[Len(Response) + 1] = f
    BY <2>14, <2>15
  <2>7. Ended' /\ Response'[Len(Response')] = f
    BY <2>4, <2>5 DEF Ended, Finals
  <2>8. Taken' = Taken
    <3>1. Taken' = Len(Response') - 2
      BY <2>5, <2>7 DEF Taken
    <3> QED
      BY <1>7, <2>5, <2>6, <3>1
  <2>9. filter' = "complete" /\ BodyNext' = BodyNext
        /\ UNCHANGED <<nextEvent, trailersSent, trailersFailed, produced, trailersAccepted>>
    BY <1>1, <2>1 DEF Completed, BodyNext, callVars, appVars
  <2>10. OnWire'
    <3>1. Response'[1] = <<"headers", 0>>
      <4>1. 1 \in 1..Len(Response)
        BY <1>7, <2>6
      <4> QED
        BY <2>5, <2>6, <4>1
    <3>2. ASSUME NEW k \in 2..Len(Response')
          PROVE  Response'[k] = <<"data", k - 1>> \/ (k = Len(Response') /\ Response'[k] = f)
      <4>1. k \in 2..Len(Response) \/ k = Len(Response) + 1
        BY <1>7, <2>5, <2>6
      <4>2. k \in 2..Len(Response) => k \in 1..Len(Response)
        BY <1>7, <2>6
      <4> QED
        BY <2>5, <2>6, <4>1, <4>2
    <3> QED
      BY <2>4, <2>9, <3>1, <3>2 DEF OnWire, Finals
  <2>11. Truthful'
    BY <1>5, <1>6, <2>2, <2>4, <2>7, <2>8, <2>9 DEF Truthful
  <2>12. responseTrailers' \in NoTrailers..MaxTrailers /\ responseTrailers' <= trailersSent
    BY <1>8, <2>1 DEF NoTrailers
  <2>13. \A k \in 2..Len(Pipe) : Pipe[k].kind = "Exception" /\ ~Pipe[k].future
    BY <1>6, <1>8, <1>10
  <2>16. Len(Pipe) > 1 => /\ Len(Pipe) = 2 /\ app = "raised"
                          /\ r # <<>> /\ r[Len(r)][1] \in {"end", "trailers"}
    BY <1>2, <1>3, <1>10, <2>4, <2>7, <2>14, <2>15, NoBodyFirst
  <2> QED
    BY <1>6, <2>1, <2>10, <2>11, <2>12, <2>13, <2>14, <2>15, <2>16, LastEvent
<1> QED
  BY <1>3, <1>9, <1>10

LEMMA HandleExceptionStep ==
  ASSUME IInv, HandleEvent, filter = "live", Head(batch).kind = "Exception"
  PROVE  IInv'
<1> USE DEF IInv
<1> DEFINE name == IF Response = <<>> THEN "error" ELSE "reset"
           f == <<name, 0>>
           r == Response \o <<f>>
<1>1. /\ batch # <<>> /\ batch' = Tail(batch)
      /\ UNCHANGED <<callVars, appVars, committing, commits, level, raises>>
  BY DEF HandleEvent
<1>2. Head(batch) = Pipe[1] /\ Pipe # <<>>
  BY <1>1, FirstOfPipe
<1>3. HandleException
  BY DEF HandleEvent
<1>16. sending = <<>> /\ wire = Response /\ ~LateReset
  BY LiveResponse DEF HandleEvent
<1>4. responseTrailers' = responseTrailers /\ wire' = r /\ sending' = <<>> /\ Completed
  BY <1>3, <1>16 DEF HandleException
<1>5. /\ Taken = produced /\ Len(sends) <= Taken
      /\ \A k \in 1..Len(Pipe) : ~Pipe[k].future
      /\ \A k \in 2..Len(Pipe) : Pipe[k].kind = "Exception"
      /\ ~(Len(Pipe) > 1)
  <2>1. Pipe[1].kind = "Exception"
    BY <1>2
  <2> QED
    BY <1>2, <2>1, NoBodyFirst
<1>6. \A k \in 2..Len(Pipe) : Pipe[k].kind = "Exception" /\ ~Pipe[k].future
  <2>1. Len(Pipe) \in Nat
    BY Numbers
  <2> QED
    BY <1>5, <2>1
<1>7. /\ Response = <<>> => Len(Response) = 0
      /\ Response # <<>> => Len(Response) = Taken + 1 /\ Response[1] = <<"headers", 0>>
      /\ \A k \in 2..Len(Response) : Response[k] = <<"data", k - 1>>
      /\ Taken \in Nat
  BY LiveWire
<1>8. f \in Frames /\ f[1] \in {"error", "reset"} /\ f[2] = 0
  BY DEF Frames
<1>9. Response = <<>> => f = <<"error", 0>>
  OBVIOUS
<1>10. Response # <<>> => f[1] = "reset"
  OBVIOUS
<1> HIDE DEF f
<1>17. /\ r \in Seq(Frames) /\ Len(r) = Len(Response) + 1 /\ r # <<>>
       /\ \A k \in 1..Len(Response) : r[k] = Response[k]
       /\ r[Len(Response) + 1] = f
  BY <1>8, OneFrame
<1> HIDE DEF r
<1>18. ~LateReset' /\ Response' = r
  <2>1. \A k \in 1..(Len(r) - 1) :
          r[k] = Response[k] /\ Response # <<>> /\ (k = 1 \/ k \in 2..Len(Response))
    BY <1>7, <1>17
  <2>2. \A k \in 1..(Len(r) - 1) : r[k][1] \in {"headers", "data"}
    BY <1>7, <2>1
  <2> QED
    BY <1>4, <1>17, <2>2, Enlarged
<1>11. /\ Response' \in Seq(Frames) /\ Len(Response') = Len(Response) + 1 /\ Response' # <<>>
       /\ \A k \in 1..Len(Response) : Response'[k] = Response[k]
       /\ Response'[Len(Response) + 1] = f
  BY <1>17, <1>18
<1>12. filter' = "complete"
  BY <1>4 DEF Completed
<1>13. OnWire'
  <2>1. CASE Response = <<>>
    <3>1. Len(Response') = 1 /\ Response'[1] = <<"error", 0>>
      BY <1>7, <1>9, <1>11, <2>1
    <3> QED
      BY <1>12, <3>1 DEF OnWire
  <2>2. CASE Response # <<>>
    <3>1. Response'[1] = <<"headers", 0>>
      <4>1. 1 \in 1..Len(Response)
        BY <1>7, <2>2
      <4> QED
        BY <1>7, <1>11, <2>2, <4>1
    <3>2. ASSUME NEW k \in 2..Len(Response')
          PROVE  Response'[k] = <<"data", k - 1>> \/ (k = Len(Response') /\ Response'[k] = f)
      <4>1. k \in 2..Len(Response) \/ k = Len(Response) + 1
        BY <1>7, <1>11, <2>2
      <4>2. k \in 2..Len(Response) => k \in 1..Len(Response)
        BY <1>7, <2>2
      <4> QED
        BY <1>7, <1>11, <4>1, <4>2
    <3> QED
      BY <1>10, <1>12, <2>2, <3>1, <3>2 DEF OnWire, Finals
  <2> QED
    BY <2>1, <2>2
<1>14. Truthful'
  <2>1. Response'[Len(Response')] = f
    BY <1>11
  <2> QED
    BY <1>8, <2>1 DEF Truthful, Ended, Finals
<1>15. responseTrailers' \in NoTrailers..MaxTrailers /\ responseTrailers' <= trailersSent
  BY <1>4 DEF TypeOK, Counters
<1> QED
  BY <1>4, <1>5, <1>6, <1>13, <1>14, <1>15, <1>17, <1>18, LastEvent

\* on_stream_complete drops the futures that are on the bridge.
LEMMA OnStreamCompleteStep ==
  ASSUME IInv, OnStreamComplete
  PROVE  IInv'
<1> USE DEF IInv
<1>0. /\ filter = "live" /\ batch = <<>> /\ sending = <<>> /\ Completed
      /\ UNCHANGED <<callVars, appVars, committing, commits, batch, sending, responseTrailers,
                     level, raises, wire>>
  BY DEF OnStreamComplete, Idle
<1>18. Response' = Response /\ LateReset' = LateReset /\ ~LateReset
  BY <1>0, LiveResponse DEF Response, LateReset
<1>1. /\ filter = "live" /\ batch = <<>> /\ Completed
      /\ UNCHANGED <<callVars, appVars, committing, commits, batch, responseTrailers, level,
                     raises, Response>>
  BY <1>0, <1>18
<1>19. Underway' /\ Overdue'
  BY <1>0, <1>18 DEF Underway, Overdue
<1>2. InThePipe /\ Sizes /\ Taken \in Nat
  BY <1>1, LiveWire
<1>3. /\ Ahead \in Int /\ Bodies \in Int /\ Trailing \in Int /\ Failing \in 0..1
      /\ Bodies + Trailing + Failing = Len(Pipe) /\ Len(Pipe) \in Nat
      /\ Taken + Ahead = produced /\ produced \in Nat /\ Len(sends) \in Nat
  BY Numbers, Lengths
<1>4. Pipe = sendBridge.events
  <2>1. \A s \in Seq(Events) : <<>> \o s = s
    OBVIOUS
  <2> QED
    BY <1>1, <2>1, Lengths DEF Pipe
<1> DEFINE m == IF Taken < Len(sends) THEN Len(sends) - Taken ELSE 0
<1>5. m \in Nat /\ m <= Len(Pipe) /\ m <= Ahead /\ Told + m = Len(sends)
      /\ (m > 0 => Told = Taken) /\ Told \in Int /\ Told >= 0
  <2>1. Len(sends) <= produced
    BY DEF TypeOK
  <2>2. Ahead <= Len(Pipe) /\ Ahead >= 0
    BY <1>2, <1>3 DEF Sizes
  <2>3. CASE Taken < Len(sends)
    <3>1. m = Len(sends) - Taken /\ Told = Taken
      BY <1>1, <2>3 DEF Told
    <3> HIDE DEF m
    <3> QED
      BY <1>2, <1>3, <2>1, <2>2, <2>3, <3>1
  <2>4. CASE ~(Taken < Len(sends))
    <3>1. m = 0 /\ Told = Len(sends)
      BY <1>1, <2>4 DEF Told
    <3> HIDE DEF m
    <3> QED
      BY <1>2, <1>3, <2>1, <2>2, <2>4, <3>1
  <2> QED
    BY <2>3, <2>4
<1>6. \A i \in 1..Len(Pipe) : Pipe[i].future <=> i <= m
  <2>1. \A i \in 1..Len(Pipe) : i <= Ahead /\ Taken + i <= Len(sends) <=> i <= m
    <3>1. ASSUME NEW i \in 1..Len(Pipe)
          PROVE  Taken + i <= Len(sends) <=> i <= m
      <4>1. CASE Taken < Len(sends)
        BY <1>2, <1>3, <4>1
      <4>2. CASE ~(Taken < Len(sends))
        BY <1>2, <1>3, <4>2
      <4> QED
        BY <4>1, <4>2
    <3>2. \A i \in 1..Len(Pipe) : i <= m => i <= Ahead
      <4> HIDE DEF m
      <4> QED
        BY <1>3, <1>5
    <3> QED
      BY <3>1, <3>2
  <2> HIDE DEF m
  <2> QED
    BY <1>2, <2>1 DEF InThePipe
<1> HIDE DEF m
<1>7. \A i \in 1..m : Pipe[i].chunk = Told + i
  <2>1. ASSUME NEW i \in 1..m PROVE Pipe[i].chunk = Told + i
    <3>1. i \in 1..Len(Pipe) /\ i <= Ahead /\ Told = Taken
      BY <1>3, <1>5
    <3> QED
      BY <1>2, <3>1 DEF InThePipe
  <2> QED
    BY <2>1
<1>8. /\ Dispatches(m, Told)
      /\ sendBridge' \in Bridges(Events) /\ sendBridge'.closed /\ filter' = "complete"
  BY <1>1, <1>4, <1>5, <1>6, <1>7, CompletedFacts
<1>9. loop' \in Seq(Completions)
  BY <1>8 DEF Dispatches
<1>10. TypeOK'
  BY <1>0, <1>8, <1>9 DEF TypeOK, callVars, appVars, Completions
<1>11. Counters' /\ BodyNext' = BodyNext
  BY <1>1 DEF Counters, BodyNext, callVars, appVars
<1>12. Stages'
  <2>1. DOMAIN <<>> = {}
    OBVIOUS
  <2> QED
    BY <1>1, <1>8, <2>1 DEF Stages, callVars
<1>13. OnWire'
  BY <1>1 DEF OnWire
<1>14. Truthful'
  BY <1>1, <1>11 DEF Truthful, Ended, Taken, callVars, appVars
<1>15. Told' = Told + m
  BY <1>1, <1>5, <1>8 DEF Told, appVars
<1>16. Numbered'
  BY <1>1, <1>5, <1>8, <1>15, NumberedSteady DEF appVars
<1>17. Flowing' /\ HeldBack'
  BY <1>8 DEF Flowing, HeldBack
<1> QED
  BY <1>10, <1>11, <1>12, <1>13, <1>14, <1>16, <1>17, <1>19

-----------------------------------------------------------------------------
LEMMA InitIInv == Init => IInv
<1> SUFFICES ASSUME Init PROVE IInv
  OBVIOUS
<1>1. /\ nextEvent = "Start" /\ responseStart = "none" /\ closed = FALSE
      /\ trailersAccepted \in BOOLEAN /\ awaits \in BOOLEAN /\ app = "running"
      /\ committing = FALSE /\ produced = 0 /\ sends = <<>> /\ trailersSent = 0
      /\ trailersFailed = FALSE /\ sending = <<>> /\ wire = <<>>
      /\ sendBridge = OpenBridge /\ commits = 0 /\ loop = <<>>
      /\ batch = <<>> /\ filter = "live" /\ responseTrailers = NoTrailers
      /\ level = 0 /\ raises = 0
  BY DEF Init
<1>2. /\ \A S : <<>> \in Seq(S)
      /\ Len(<<>>) = 0 /\ DOMAIN <<>> = {}
  OBVIOUS
<1>15. ~LateReset /\ Response = <<>>
  <2>1. ~(Len(wire) > 1) /\ <<>> \o <<>> = <<>>
    BY <1>1
  <2> QED
    BY <1>1, <2>1 DEF LateReset, Response
<1>16. Underway /\ Overdue
  BY <1>1, <1>15 DEF Underway, Overdue
<1>3. 0 \in 0..MaxChunks /\ 0 \in 0..MaxTrailers /\ 0 \in 0..MaxRaises
      /\ NoTrailers \in NoTrailers..MaxTrailers
  BY BoundsAssumption DEF NoTrailers
<1>4. sendBridge \in Bridges(Events) /\ sendBridge.closed = FALSE /\ sendBridge.events = <<>>
  BY <1>1, <1>2 DEF OpenBridge, Bridges
<1>5. TypeOK
  <2>1. Len(sends) <= produced
    BY <1>1, <1>2
  <2>2. commits \in Nat
    BY <1>1
  <2>3. /\ sends \in Seq({"pending", "sent", "disconnected", "cancelled"})
        /\ loop \in Seq([chunk : 1..MaxChunks, result : {"sent", "disconnected"}])
        /\ batch \in Seq(Events)
        /\ wire \in Seq(Frames) /\ sending \in Seq(Frames)
    BY <1>1, <1>2
  <2> QED
    BY <1>1, <1>3, <1>4, <2>1, <2>2, <2>3 DEF TypeOK, Starts
<1>6. Taken = 0 /\ Ended = FALSE /\ Ahead = 0 /\ Told = 0 /\ Done = 0
  <2>1. Taken = 0 /\ Ended = FALSE
    BY <1>15 DEF Taken, Ended
  <2> QED
    BY <1>1, <1>2, <2>1 DEF Ahead, Told, Done
<1>7. Pipe = <<>> /\ Trailing = 0 /\ Failing = 0 /\ Bodies = 0
  <2>1. Pipe = <<>>
    BY <1>1, <1>4 DEF Pipe
  <2>2. Trailing = 0 /\ Failing = 0
    BY <1>1 DEF Trailing, Failing, Gathered
  <2> QED
    BY <1>2, <2>1, <2>2 DEF Bodies
<1>8. Counters
  BY <1>1, <1>2 DEF Counters, NoTrailers
<1>9. Stages
  <2>1. level <= raises
    BY <1>1
  <2> QED
    BY <1>1, <1>4, <2>1 DEF Stages
<1>10. OnWire
  <2>1. \A k \in 2..Len(Response) : FALSE
    BY <1>2, <1>15
  <2> QED
    BY <1>15, <2>1 DEF OnWire
<1>11. Truthful
  BY <1>6 DEF Truthful
<1>12. Flowing
  <2>1. InThePipe
    BY <1>2, <1>7 DEF InThePipe
  <2>2. Sizes
    BY <1>6, <1>7 DEF Sizes
  <2>3. ~(trailersSent > 0)
    BY <1>1
  <2>4. Beginning
    BY <1>1, <1>2, <1>7, <1>15, <2>3 DEF Beginning, Announced, BodyNext
  <2> QED
    BY <2>1, <2>2, <2>4 DEF Flowing
<1>13. Numbered
  BY <1>1, <1>2, <1>6 DEF Numbered
<1>14. HeldBack
  BY <1>6 DEF HeldBack
<1> QED
  BY <1>5, <1>8, <1>9, <1>10, <1>11, <1>12, <1>13, <1>14, <1>16 DEF IInv

LEMMA HandleEventStep ==
  ASSUME IInv, HandleEvent
  PROVE  IInv'
<1>1. batch # <<>> /\ TypeOK
  BY DEF HandleEvent, IInv
<1>2. Head(batch) \in Events
  BY <1>1, Lengths, TailFacts
<1>3. \/ Head(batch).kind \in {"Start", "Body"}
      \/ Head(batch).kind \in {"MoreTrailers", "Trailers"}
      \/ Head(batch).kind = "Exception"
  BY <1>2 DEF Events
<1> QED
  BY <1>3, LateEvent, HandleBodyStep, HandleTrailersStep, HandleExceptionStep

LEMMA NextIInv == IInv /\ [Next]_vars => IInv'
<1> SUFFICES ASSUME IInv, [Next]_vars PROVE IInv'
  OBVIOUS
<1>1. CASE \E trailers \in BOOLEAN : SendStart(trailers)
  BY <1>1, SendStartStep
<1>2. CASE \E hasChunk, more \in BOOLEAN : SendBody(hasChunk, more)
  BY <1>2, SendBodyStep
<1>3. CASE \E more \in BOOLEAN : SendTrailers(more)
  BY <1>3, SendTrailersStep
<1>4. CASE Raise
  BY <1>4, RaiseStep
<1>5. CASE RunTask \/ \E k \in 1..MaxChunks : CancelSend(k)
  BY <1>5, FutureSteps
<1>6. CASE OnScheduled
  BY <1>6, OnScheduledStep
<1>7. CASE HandleEvent
  BY <1>7, HandleEventStep
<1>8. CASE OnStreamComplete
  BY <1>8, OnStreamCompleteStep
<1>9. CASE Commit \/ AboveWatermark \/ BelowWatermark \/ Drop \/ Return \/ UNCHANGED vars
  BY <1>9, OtherQuietSteps
<1>10. CASE SendTrailersFails
  BY <1>10, SendTrailersFailsStep
<1>11. CASE SendChunk
  BY <1>11, SendChunkStep
<1> QED
  BY <1>1, <1>2, <1>3, <1>4, <1>5, <1>6, <1>7, <1>8, <1>9, <1>10, <1>11 DEF Next, AppStep, Terminated

\* The invariant holds in every state, and with it the types.
THEOREM Inductive == Spec => []IInv
BY InitIInv, NextIInv, PTL DEF Spec, Safety

-----------------------------------------------------------------------------
(* What follows from the invariant.                                        *)

\* The numbers among these facts, for steps that need no more.
LEMMA Positions ==
  ASSUME TypeOK
  PROVE  /\ Len(sends) \in Nat /\ DOMAIN sends = 1..Len(sends)
         /\ Len(loop) \in Nat /\ DOMAIN loop = 1..Len(loop)
         /\ Len(batch) \in Nat /\ DOMAIN batch = 1..Len(batch)
         /\ Len(sendBridge.events) \in Nat
         /\ DOMAIN sendBridge.events = 1..Len(sendBridge.events)
         /\ Told \in Int /\ Taken \in Int /\ Done \in Int /\ Done = Told - Len(loop)
<1>1. Told \in Int /\ Taken \in Int /\ Done \in Int
  BY Numbers
<1>2. Done = Told - Len(loop)
  BY DEF Done
<1> QED
  BY <1>1, <1>2, Lengths

\* The future of chunk n waits in the event of that chunk, until it leaves the
\* pipe.
LEMMA HeldInThePipe ==
  ASSUME IInv, NEW n \in DOMAIN sends
  PROVE  /\ \A k \in DOMAIN batch :
              batch[k].future /\ batch[k].chunk = n <=> n > Told /\ k = n - Taken
         /\ \A k \in DOMAIN sendBridge.events :
              sendBridge.events[k].future /\ sendBridge.events[k].chunk = n
                <=> n > Told /\ k = n - Taken - Len(batch)
         /\ n > Told => /\ n - Taken \in 1..(Len(batch) + Len(sendBridge.events))
                        /\ Taken \in Int
<1> USE DEF IInv
<1>1. /\ n \in Nat /\ n <= Len(sends) /\ n >= 1 /\ Len(sends) \in Nat /\ Told \in Int
      /\ Taken \in Int /\ Len(batch) \in Nat /\ Len(sendBridge.events) \in Nat
      /\ DOMAIN batch = 1..Len(batch)
      /\ DOMAIN sendBridge.events = 1..Len(sendBridge.events)
  BY Positions
<1>2. CASE filter # "live"
  <2>1. Told = Len(sends) /\ ~(n > Told)
    <3>1. Told = Len(sends)
      BY <1>2 DEF Told
    <3> QED
      BY <1>1, <3>1
  <2>2. sendBridge.events = <<>> /\ DOMAIN <<>> = {}
    BY <1>2, Lengths DEF Stages
  <2> QED
    BY <1>2, <2>1, <2>2 DEF Stages
<1>3. CASE filter = "live"
  <2>1. InThePipe /\ Sizes /\ Taken \in Nat
    BY <1>3, LiveWire
  <2>2. /\ Len(Pipe) = Len(batch) + Len(sendBridge.events)
        /\ \A k \in 1..Len(batch) : Pipe[k] = batch[k]
        /\ \A k \in 1..Len(sendBridge.events) : Pipe[Len(batch) + k] = sendBridge.events[k]
    BY Lengths, PipeFacts DEF Pipe
  <2>3. /\ Ahead \in Int /\ Bodies \in Int /\ Trailing \in Int /\ Failing \in 0..1
        /\ Bodies + Trailing + Failing = Len(Pipe)
        /\ Taken + Ahead = produced /\ produced \in Nat /\ Len(sends) <= produced
    BY Numbers DEF TypeOK
  <2>4. n > Told <=> n > Taken
    BY <1>1, <1>3, <2>1 DEF Told
  <2>5. n > Taken => n - Taken <= Ahead /\ n - Taken \in 1..Len(Pipe)
    BY <1>1, <2>1, <2>2, <2>3 DEF Sizes
  <2>6. ASSUME NEW k \in 1..Len(Pipe)
        PROVE  Pipe[k].future /\ Pipe[k].chunk = n <=> n > Told /\ k = n - Taken
    <3>1. /\ k <= Ahead => Pipe[k].chunk = Taken + k
          /\ Pipe[k].future <=> k <= Ahead /\ Taken + k <= Len(sends)
      BY <2>1 DEF InThePipe
    <3>2. Taken + k = n <=> k = n - Taken
      BY <1>1, <2>1
    <3>3. k = n - Taken => n > Taken /\ Taken + k <= Len(sends)
      BY <1>1, <2>1
    <3> QED
      BY <2>4, <2>5, <3>1, <3>2, <3>3
  <2>7. \A k \in 1..Len(batch) : k \in 1..Len(Pipe)
    BY <1>1, <2>2
  <2>8. \A k \in 1..Len(sendBridge.events) :
          /\ Len(batch) + k \in 1..Len(Pipe)
          /\ Len(batch) + k = n - Taken <=> k = n - Taken - Len(batch)
    BY <1>1, <2>2
  <2>9. \A k \in DOMAIN batch :
          batch[k].future /\ batch[k].chunk = n <=> n > Told /\ k = n - Taken
    BY <1>1, <2>2, <2>6, <2>7
  <2>10. ASSUME NEW k \in DOMAIN sendBridge.events
         PROVE  sendBridge.events[k].future /\ sendBridge.events[k].chunk = n
                  <=> n > Told /\ k = n - Taken - Len(batch)
    <3>1. k \in 1..Len(sendBridge.events)
      BY <1>1
    <3> DEFINE i == Len(batch) + k
    <3>2. i \in 1..Len(Pipe) /\ (i = n - Taken <=> k = n - Taken - Len(batch))
      BY <2>8, <3>1
    <3>3. Pipe[i] = sendBridge.events[k]
      BY <2>2, <3>1
    <3> HIDE DEF i
    <3>4. Pipe[i].future /\ Pipe[i].chunk = n <=> n > Told /\ i = n - Taken
      BY <2>6, <3>2
    <3> QED
      BY <3>2, <3>3, <3>4
  <2>11. n > Told => n - Taken \in 1..(Len(batch) + Len(sendBridge.events))
    BY <2>2, <2>4, <2>5
  <2> QED
    BY <1>1, <2>9, <2>10, <2>11
<1> QED
  BY <1>2, <1>3

LEMMA HoldersAre ==
  ASSUME IInv, NEW n \in DOMAIN sends
  PROVE  /\ n <= Done => Holders(n) = {}
         /\ n > Done => \E h : Holders(n) = {h}
<1> DEFINE inBridge == {k \in DOMAIN sendBridge.events :
                          sendBridge.events[k].future /\ sendBridge.events[k].chunk = n}
           inBatch  == {k \in DOMAIN batch : batch[k].future /\ batch[k].chunk = n}
           onLoop   == {k \in DOMAIN loop : loop[k].chunk = n}
<1>1. TypeOK /\ Numbered
  BY DEF IInv
<1>2. /\ n \in Nat /\ n <= Len(sends) /\ n >= 1 /\ Len(sends) \in Nat
      /\ Told \in Int /\ Done \in Int /\ Done = Told - Len(loop) /\ Len(loop) \in Nat
      /\ Len(batch) \in Nat /\ Len(sendBridge.events) \in Nat
      /\ DOMAIN batch = 1..Len(batch) /\ DOMAIN loop = 1..Len(loop)
      /\ DOMAIN sendBridge.events = 1..Len(sendBridge.events)
  <2> HIDE DEF inBridge, inBatch, onLoop
  <2> QED
    BY <1>1, Positions
<1>3. Holders(n) = {<<"bridge", k>> : k \in inBridge} \cup {<<"filter", k>> : k \in inBatch}
                     \cup {<<"loop", k>> : k \in onLoop}
  BY DEF Holders, InEvents
<1>4. onLoop = {n - Done} \cap DOMAIN loop
  <2>1. \A k \in DOMAIN loop : loop[k].chunk = n <=> k = n - Done
    BY <1>1, <1>2 DEF Numbered
  <2> QED
    BY <2>1
<1>5. inBatch = IF n > Told THEN {n - Taken} \cap DOMAIN batch ELSE {}
  BY HeldInThePipe
<1>6. inBridge = IF n > Told THEN {n - Taken - Len(batch)} \cap DOMAIN sendBridge.events ELSE {}
  BY HeldInThePipe
<1> HIDE DEF inBridge, inBatch, onLoop
<1>7. CASE n > Told
  <2>1. n - Done \notin DOMAIN loop /\ n > Done /\ ~(n <= Done)
    BY <1>2, <1>7
  <2>2. n - Taken \in 1..(Len(batch) + Len(sendBridge.events)) /\ Taken \in Int
    BY <1>7, HeldInThePipe
  <2>3. CASE n - Taken \in DOMAIN batch
    <3>1. n - Taken - Len(batch) \notin DOMAIN sendBridge.events
      BY <1>2, <2>2, <2>3
    <3>2. Holders(n) = {<<"filter", n - Taken>>}
      BY <1>3, <1>4, <1>5, <1>6, <1>7, <2>1, <2>3, <3>1
    <3> QED
      BY <2>1, <3>2
  <2>4. CASE n - Taken \notin DOMAIN batch
    <3>1. n - Taken - Len(batch) \in DOMAIN sendBridge.events
      BY SMTT(60), <1>2, <2>2, <2>4
    <3>2. Holders(n) = {<<"bridge", n - Taken - Len(batch)>>}
      BY <1>3, <1>4, <1>5, <1>6, <1>7, <2>1, <2>4, <3>1
    <3> QED
      BY <2>1, <3>2
  <2> QED
    BY <2>3, <2>4
<1>8. CASE ~(n > Told) /\ n > Done
  <2>1. n - Done \in DOMAIN loop /\ ~(n <= Done)
    BY <1>2, <1>8
  <2>2. Holders(n) = {<<"loop", n - Done>>}
    BY <1>3, <1>4, <1>5, <1>6, <1>8, <2>1
  <2> QED
    BY <2>1, <2>2
<1>9. CASE n <= Done
  <2>1. n - Done \notin DOMAIN loop /\ ~(n > Told) /\ ~(n > Done)
    BY <1>2, <1>9
  <2>2. Holders(n) = {}
    BY <1>3, <1>4, <1>5, <1>6, <2>1
  <2> QED
    BY <2>1, <2>2
<1>10. n <= Done \/ n > Done
  BY <1>2
<1> QED
  BY <1>7, <1>8, <1>9, <1>10

\* The future of a send that waits is in one place, and one that is completed in
\* none: each is completed exactly once, however many chunks are sent.
THEOREM FuturesHaveOneHolder == Spec => []OneHolder
<1>1. ASSUME IInv PROVE OneHolder
  <2>1. TypeOK /\ Numbered
    BY <1>1 DEF IInv
  <2>2. ASSUME NEW n \in DOMAIN sends
        PROVE  CASE sends[n] = "pending"   -> Cardinality(Holders(n)) = 1
                 [] sends[n] = "cancelled" -> Cardinality(Holders(n)) <= 1
                 [] OTHER                  -> Holders(n) = {}
    <3>1. n <= Done \/ n > Done
      BY <2>1, Positions
    <3>2. CASE n <= Done
      <4>1. sends[n] # "pending"
        BY <2>1, <3>2 DEF Numbered
      <4>2. Holders(n) = {}
        BY <1>1, <3>2, HoldersAre
      <4>3. Cardinality({}) = 0
        BY FS_EmptySet
      <4> QED
        BY <4>1, <4>2, <4>3
    <3>3. CASE n > Done
      <4>1. ~(n <= Done)
        BY <2>1, <3>3, Positions
      <4>2. sends[n] \in {"pending", "cancelled"}
        BY <2>1, <4>1 DEF Numbered
      <4>3. \E h : Holders(n) = {h}
        BY <1>1, <3>3, HoldersAre
      <4>4. Cardinality(Holders(n)) = 1
        BY <4>3, FS_Singleton
      <4> QED
        BY <4>2, <4>4
    <3> QED
      BY <3>1, <3>2, <3>3
  <2> QED
    BY <2>1, <2>2 DEF OneHolder
<1> QED
  BY <1>1, Inductive, PTL

-----------------------------------------------------------------------------
(* What the invariant says of the wire.                                    *)

\* The response is headers or an error page first, then the chunks that are taken
\* from the pipe, then the frame that ends it, if there is one.
LEMMA WireIs ==
  ASSUME TypeOK, OnWire
  PROVE  /\ Taken \in Nat
         /\ \A k \in 2..(Taken + 1) : k \in DOMAIN Response /\ Response[k] = <<"data", k - 1>>
         /\ \A k \in DOMAIN Response :
              \/ k = 1 /\ Response[k][1] \in {"headers", "error"}
              \/ k \in 2..(Taken + 1)
              \/ k = Len(Response) /\ k = Taken + 2 /\ Ended
         /\ Ended => Response[1] = <<"headers", 0>> /\ Len(Response) = Taken + 2
<1>1. Len(Response) \in Nat /\ DOMAIN Response = 1..Len(Response) /\ (Response = <<>> <=> Len(Response) = 0)
  BY Lengths
<1>2. Response # <<>> => Response[1][1] \in {"headers", "error"}
  BY DEF OnWire
<1>3. \A k \in 2..Len(Response) :
        \/ Response[k] = <<"data", k - 1>>
        \/ k = Len(Response) /\ Response[k][1] \in Finals
  BY DEF OnWire
<1>4. Ended => Len(Response) # 1
  BY <1>2 DEF Ended, Finals
<1>5. Ended => Len(Response) \in 2..Len(Response) /\ Taken = Len(Response) - 2
  BY <1>1, <1>4 DEF Ended, Taken
<1>6. Ended => \A k \in 2..Len(Response) : k # Len(Response) => Response[k] = <<"data", k - 1>>
  BY <1>3
<1>7. ~Ended /\ Response # <<>> => Taken = Len(Response) - 1
  BY DEF Taken
<1>8. ~Ended => \A k \in 2..Len(Response) : Response[k] = <<"data", k - 1>>
  <2>1. ~Ended /\ Response # <<>> => Response[Len(Response)][1] \notin Finals
    BY DEF Ended
  <2>2. \A k \in 2..Len(Response) : Response # <<>>
    BY <1>1
  <2> QED
    BY <1>3, <2>1, <2>2
<1>9. Response = <<>> => Taken = 0
  BY DEF Taken
<1>10. Ended => Response[1] = <<"headers", 0>>
  BY <1>4 DEF OnWire, Ended
<1>11. CASE Ended
  <2>1. Taken = Len(Response) - 2 /\ Taken \in Nat /\ Len(Response) \in Nat
    BY <1>1, <1>5, <1>11
  <2>2. \A k \in 2..(Taken + 1) : k \in 2..Len(Response) /\ k # Len(Response) /\ k \in 1..Len(Response)
    BY <2>1
  <2>3. \A k \in 1..Len(Response) : k = 1 \/ k \in 2..(Taken + 1) \/ (k = Len(Response) /\ k = Taken + 2)
    BY <2>1
  <2>4. Response # <<>>
    BY <1>11 DEF Ended
  <2>5. \A k \in 2..(Taken + 1) : k \in DOMAIN Response /\ Response[k] = <<"data", k - 1>>
    BY ZenonT(60), <1>1, <1>6, <1>11, <2>2
  <2>6. \A k \in DOMAIN Response :
          \/ k = 1 /\ Response[k][1] \in {"headers", "error"}
          \/ k \in 2..(Taken + 1)
          \/ k = Len(Response) /\ k = Taken + 2 /\ Ended
    BY <1>1, <1>2, <1>11, <2>3, <2>4
  <2> QED
    BY <1>10, <2>1, <2>5, <2>6
<1>12. CASE ~Ended
  BY <1>1, <1>2, <1>7, <1>8, <1>9, <1>12
<1> QED
  BY <1>11, <1>12

\* The wire is the response, or lacks the chunk that is about to be sent, or has a
\* reset behind it.
Held == IF sending = <<>> THEN 0 ELSE 1

LEMMA WireOf ==
  ASSUME IInv
  PROVE  /\ \A k \in DOMAIN wire :
              \/ k \in DOMAIN Response /\ wire[k] = Response[k]
              \/ LateReset /\ k = Len(wire) /\ wire[k] = <<"reset", 0>>
         /\ \A k \in 2..(Taken + 1 - Held) : k \in DOMAIN wire /\ wire[k] = Response[k]
         /\ \A k \in DOMAIN wire : k \in 2..(Taken + 1) => k <= Taken + 1 - Held
         /\ LateReset => /\ Len(wire) = Len(Response) + 1 /\ Response # <<>>
                         /\ Response[Len(Response)][1] \in {"end", "trailers"}
                         /\ sending = <<>> /\ app = "raised" /\ Last(wire) = <<"reset", 0>>
         /\ ~LateReset /\ sending = <<>> => wire = Response
         /\ sending # <<>> => filter = "live" /\ ~LateReset
<1> USE DEF IInv
<1>1. /\ wire \in Seq(Frames) /\ sending \in Seq(Frames) /\ Len(wire) \in Nat
      /\ DOMAIN wire = 1..Len(wire) /\ (wire = <<>> <=> Len(wire) = 0)
      /\ Len(Response) \in Nat /\ DOMAIN Response = 1..Len(Response)
      /\ (Response = <<>> <=> Len(Response) = 0)
  BY Lengths
<1>2. Taken \in Nat /\ \A k \in 2..(Taken + 1) : k \in DOMAIN Response
  BY WireIs
<1>3. CASE LateReset
  <2>1. filter # "live" /\ app = "raised" /\ Last(wire) = <<"reset", 0>> /\ sending = <<>>
    BY <1>3 DEF Overdue, Underway
  <2>2. Len(wire) > 1 /\ wire[Len(wire) - 1][1] \in {"end", "trailers"}
    BY <1>3 DEF LateReset
  <2>3. /\ Response = Front(wire) /\ Len(Response) = Len(wire) - 1
        /\ \A k \in 1..(Len(wire) - 1) : Response[k] = wire[k]
    <3>1. wire # <<>>
      BY <1>1, <2>2
    <3>2. Response = Front(wire)
      BY <1>3 DEF Response
    <3> QED
      BY <1>1, <3>1, <3>2, FrontFacts
  <2>4. wire[Len(wire)] = <<"reset", 0>>
    BY <2>1 DEF Last
  <2>5. \A k \in DOMAIN wire : k \in 1..(Len(wire) - 1) \/ k = Len(wire)
    BY <1>1
  <2>6. DOMAIN Response = 1..(Len(wire) - 1) /\ Len(wire) - 1 \in 1..(Len(wire) - 1)
        /\ 1..(Len(wire) - 1) \subseteq DOMAIN wire
    BY <1>1, <2>2, <2>3
  <2>7. Response[Len(Response)][1] \in {"end", "trailers"} /\ Response # <<>>
    BY <1>1, <2>2, <2>3, <2>6
  <2>8. Held = 0 /\ Taken + 1 - Held = Taken + 1
    BY <1>2, <2>1 DEF Held
  <2>9. \A k \in 2..(Taken + 1 - Held) : k \in DOMAIN wire /\ wire[k] = Response[k]
    BY <1>2, <2>3, <2>6, <2>8
  <2>10. \A k \in DOMAIN wire : k \in 2..(Taken + 1) => k <= Taken + 1 - Held
    BY <1>2, <2>8
  <2>11. Len(wire) = Len(Response) + 1
    BY <1>1, <2>3
  <2> QED
    BY <1>3, <2>1, <2>3, <2>4, <2>5, <2>6, <2>7, <2>9, <2>10, <2>11
<1>4. CASE ~LateReset /\ sending = <<>>
  <2>1. Response = wire \o <<>> /\ wire \o <<>> = wire
    BY <1>1, <1>4 DEF Response
  <2>2. Held = 0 /\ Taken + 1 - Held = Taken + 1
    BY <1>2, <1>4 DEF Held
  <2>3. wire = Response
    BY <2>1
  <2>4. \A k \in DOMAIN wire : k \in 2..(Taken + 1) => k <= Taken + 1 - Held
    BY <1>2, <2>2
  <2> QED
    BY <1>2, <1>4, <2>2, <2>3, <2>4
<1>5. CASE sending # <<>>
  <2>1. /\ filter = "live" /\ ~LateReset
        /\ IF wire = <<>> THEN Len(sending) = 2 ELSE Len(sending) = 1
    BY <1>5, LiveResponse DEF Underway
  <2>2. Response = wire \o sending
    BY <2>1, LiveResponse
  <2>3. /\ Len(wire \o sending) = Len(wire) + Len(sending)
        /\ \A k \in 1..Len(wire) : (wire \o sending)[k] = wire[k]
    BY <1>1, ConcatFacts
  <2>4. Len(Response) = Len(wire) + Len(sending) /\ \A k \in 1..Len(wire) : Response[k] = wire[k]
    BY <2>2, <2>3
  <2>5. Len(Response) = Taken + 1
    <3>1. Len(Response) # 0
      BY <1>1, <2>1, <2>4
    <3> QED
      BY <1>1, <2>1, <3>1, LiveWire
  <2>6. Held = 1 /\ Taken + 1 - Held = Taken
    BY <1>2, <1>5 DEF Held
  <2> DEFINE n == Len(wire)
             t == Taken
  <2>7. n \in Nat /\ t \in Nat /\ ((n = 0 /\ t = 1) \/ n = t)
    <3>1. IF n = 0 THEN Len(sending) = 2 ELSE Len(sending) = 1
      BY <1>1, <2>1
    <3>2. n + Len(sending) = t + 1 /\ n \in Nat /\ t \in Nat
      BY <1>1, <1>2, <2>4, <2>5
    <3> HIDE DEF n, t
    <3>3. /\ \A b \in Nat : 0 + 2 = b + 1 => b = 1
          /\ \A a, b \in Nat : a + 1 = b + 1 => a = b
      OBVIOUS
    <3>4. CASE n = 0
      <4>1. 0 + 2 = t + 1
        BY ONLY Zenon, <3>1, <3>2, <3>4
      <4> QED
        BY ONLY Zenon, <3>2, <3>3, <3>4, <4>1
    <3>5. CASE n # 0
      <4>1. n + 1 = t + 1
        BY ONLY Zenon, <3>1, <3>2, <3>5
      <4> QED
        BY ONLY Zenon, <3>2, <3>3, <4>1
    <3> QED
      BY <3>4, <3>5
  <2> HIDE DEF n, t
  <2>11. /\ \A k \in 1..n : k \in 1..(t + 1)
         /\ \A k \in 2..t : k \in 1..n
         /\ \A k \in 1..n : k \in 2..(t + 1) => k <= t
    BY ONLY <2>7
  <2>8. \A k \in DOMAIN wire : k \in DOMAIN Response /\ wire[k] = Response[k]
    BY <1>1, <2>4, <2>5, <2>11 DEF n, t
  <2>9. \A k \in 2..Taken : k \in 1..Len(wire)
    BY <2>11 DEF n, t
  <2>10. \A k \in 1..Len(wire) : k \in 2..(Taken + 1) => k <= Taken
    BY <2>11 DEF n, t
  <2> QED
    BY <1>1, <1>5, <2>1, <2>6, <2>8, <2>9, <2>10
<1> QED
  BY <1>3, <1>4, <1>5

\* What is delivered is what is taken from the pipe, less the chunk that is about to
\* be sent.
LEMMA DeliveredIsTaken ==
  ASSUME IInv
  PROVE  Position("data") = 2..(Taken + 1 - Held) /\ Delivered = Taken - Held
<1>1. TypeOK /\ OnWire
  BY DEF IInv
<1>2. Taken \in Nat /\ Held \in 0..1
  BY <1>1, WireIs DEF Held
<1>3. \A k \in DOMAIN Response : Response[k][1] = "data" <=> k \in 2..(Taken + 1)
  <2>1. \A k \in 2..(Taken + 1) : Response[k][1] = "data" /\ k # 1 /\ k # Taken + 2
    BY <1>1, WireIs
  <2>2. Ended => Response[Len(Response)][1] # "data"
    BY DEF Ended, Finals
  <2> QED
    BY <1>1, <2>1, <2>2, WireIs
<1>4. \A k \in 2..(Taken + 1 - Held) : k \in 2..(Taken + 1)
  BY <1>2
<1>5. \A k \in DOMAIN wire : wire[k][1] = "data" => k \in 2..(Taken + 1 - Held)
  <2> SUFFICES ASSUME NEW k \in DOMAIN wire, wire[k][1] = "data"
               PROVE  k \in 2..(Taken + 1 - Held)
    OBVIOUS
  <2>1. k \in DOMAIN Response /\ wire[k] = Response[k]
    BY WireOf
  <2>2. k \in 2..(Taken + 1)
    BY <1>3, <2>1
  <2>3. k <= Taken + 1 - Held
    BY <2>2, WireOf
  <2> QED
    BY <1>2, <2>2, <2>3
<1>6. \A k \in 2..(Taken + 1 - Held) : k \in DOMAIN wire /\ wire[k][1] = "data"
  <2> SUFFICES ASSUME NEW k \in 2..(Taken + 1 - Held)
               PROVE  k \in DOMAIN wire /\ wire[k][1] = "data"
    OBVIOUS
  <2>1. k \in DOMAIN wire /\ wire[k] = Response[k]
    BY WireOf
  <2>2. Response[k] = <<"data", k - 1>>
    BY <1>1, <1>4, WireIs
  <2> QED
    BY <2>1, <2>2
<1>7. Position("data") = 2..(Taken + 1 - Held)
  BY <1>5, <1>6 DEF Position
<1>8. Cardinality(2..(Taken + 1 - Held)) =
        IF 2 > Taken + 1 - Held THEN 0 ELSE Taken + 1 - Held - 2 + 1
  BY <1>2, FS_Interval
<1>9. Taken + 1 - Held >= 1
  <2>1. sending # <<>> => Taken >= 1
    <3> SUFFICES ASSUME sending # <<>> PROVE Taken >= 1
      OBVIOUS
    <3>1. filter = "live" /\ Response = wire \o sending
      BY LiveResponse DEF IInv, Underway
    <3>2. Len(Response) = Len(wire) + Len(sending) /\ Len(wire) \in Nat
      BY <1>1, <3>1, Lengths, ConcatFacts
    <3>3. Len(Response) > 1
      <4>1. IF wire = <<>> THEN Len(sending) = 2 ELSE Len(sending) = 1
        BY DEF IInv, Underway
      <4>2. wire = <<>> <=> Len(wire) = 0
        BY <1>1, Lengths
      <4> QED
        BY <3>2, <4>1, <4>2
    <3>4. Response # <<>> /\ Len(Response) = Taken + 1
      BY <1>1, <3>1, <3>3, LiveWire, Lengths
    <3> QED
      BY <1>2, <3>3, <3>4
  <2> QED
    BY <1>2, <2>1 DEF Held
<1>10. Delivered = Taken - Held
  BY <1>2, <1>7, <1>8, <1>9 DEF Delivered
<1> QED
  BY <1>7, <1>10

\* The filter sends one response: its headers, the chunks in order, and one end,
\* which says what was sent and has at most a late reset behind it; or an error
\* page.
THEOREM WireIsOneResponse == Spec => []WellFormedResponse
<1>1. ASSUME IInv PROVE WellFormedResponse
  <2> DEFINE L == Len(Response)
  <2>1. TypeOK /\ OnWire /\ Truthful
    BY <1>1 DEF IInv
  <2>2. /\ L \in Nat /\ DOMAIN Response = 1..L /\ (Response = <<>> <=> L = 0)
        /\ Len(wire) \in Nat /\ DOMAIN wire = 1..Len(wire) /\ (wire = <<>> <=> Len(wire) = 0)
    BY <2>1, Lengths
  <2>3. Taken \in Nat /\ Delivered = Taken - Held /\ Position("data") = 2..(Taken + 1 - Held)
    BY <1>1, <2>1, WireIs, DeliveredIsTaken
  <2>4. \A k \in DOMAIN Response : k # 1 /\ Response[k][1] # "data" => k = L /\ Ended
    BY <2>1, WireIs
  <2>5. Response # <<>> => Response[1] = <<"headers", 0>> \/ (Response[1] = <<"error", 0>> /\ L = 1)
    BY <2>1 DEF OnWire
  <2>6. Ended => Response[L][1] \in Finals /\ Response[1] = <<"headers", 0>>
    BY <2>1, WireIs DEF Ended
  <2>7. Response # <<>> => Response[1][1] \in {"headers", "error"}
    BY <2>5
  <2>8. \A k \in DOMAIN Response : Response[k][1] \in {"headers", "error"} => k = 1
    BY <2>4, <2>6 DEF Finals
  <2>9. \A k \in DOMAIN Response : Response[k][1] \in Finals => k = L /\ Ended
    <3>1. \A k \in DOMAIN Response : k = 1 => Response[k][1] \notin Finals
      BY <2>2, <2>7 DEF Finals
    <3> QED
      BY <2>4, <3>1 DEF Finals
  <2>10. /\ \A k \in DOMAIN wire :
              \/ k \in DOMAIN Response /\ wire[k] = Response[k]
              \/ LateReset /\ k = Len(wire) /\ wire[k] = <<"reset", 0>>
         /\ LateReset => /\ Len(wire) = L + 1 /\ Response # <<>>
                         /\ Response[L][1] \in {"end", "trailers"}
                         /\ sending = <<>> /\ app = "raised" /\ Last(wire) = <<"reset", 0>>
         /\ ~LateReset /\ sending = <<>> => wire = Response
         /\ sending # <<>> => filter = "live" /\ ~LateReset
    BY <1>1, WireOf
  <2>11. Ended => sending = <<>> /\ Held = 0
    BY <1>1, <2>10, LiveWire DEF Held
  <2> HIDE DEF L
  <2>12. ASSUME NEW k \in DOMAIN wire, wire[k][1] # "reset"
         PROVE  k \in DOMAIN Response /\ wire[k] = Response[k]
    BY <2>10, <2>12
  <2>13. wire # <<>> => wire[1][1] \in {"headers", "error"}
    <3> SUFFICES ASSUME wire # <<>> PROVE wire[1][1] \in {"headers", "error"}
      OBVIOUS
    <3>1. 1 \in DOMAIN wire
      BY <2>2
    <3>2. LateReset => 1 # Len(wire)
      BY <2>2 DEF LateReset
    <3>3. 1 \in DOMAIN Response /\ wire[1] = Response[1]
      BY <2>10, <3>1, <3>2
    <3>4. Response # <<>>
      BY <2>2, <3>3
    <3> QED
      BY <2>7, <3>3, <3>4
  <2>14. Position("headers") \subseteq {1}
    BY <2>8, <2>12 DEF Position
  <2>15. Position("error") # {} => Len(wire) = 1
    <3> SUFFICES ASSUME NEW k \in Position("error") PROVE Len(wire) = 1
      OBVIOUS
    <3>1. k \in DOMAIN Response /\ Response[k][1] = "error"
      BY <2>12 DEF Position
    <3>2. k = 1 /\ Response # <<>>
      BY <2>2, <2>8, <3>1
    <3>3. Response[1] = <<"error", 0>> /\ L = 1
      BY <2>5, <3>1, <3>2
    <3>4. sending = <<>>
      <4>1. filter = "live" => Response[1] = <<"headers", 0>>
        BY <1>1, <3>2, LiveWire
      <4> QED
        BY <2>10, <3>3, <4>1
    <3>5. ~LateReset
      BY <2>10, <3>3
    <3> QED
      BY <2>10, <3>3, <3>4, <3>5 DEF L
  <2>16. \A k \in Position("reset") : k = Len(wire)
    <3> SUFFICES ASSUME NEW k \in Position("reset"), ~(LateReset /\ k = Len(wire))
                 PROVE  k = Len(wire)
      OBVIOUS
    <3>1. k \in DOMAIN Response /\ Response[k][1] = "reset"
      BY <2>10 DEF Position
    <3>2. k = L /\ Ended
      BY <2>9, <3>1 DEF Finals
    <3>3. ~LateReset /\ sending = <<>>
      BY <2>10, <2>11, <3>1, <3>2
    <3> QED
      BY <2>10, <3>2, <3>3 DEF L
  <2>17. ASSUME NEW kind \in {"end", "trailers"}, NEW k \in Position(kind)
         PROVE  /\ Ended /\ k = L /\ Response[L][1] = kind /\ wire[k] = Response[L]
                /\ \/ k = Len(wire)
                   \/ k = Len(wire) - 1 /\ Last(wire)[1] = "reset" /\ app = "raised"
    <3>1. k \in DOMAIN wire /\ wire[k][1] = kind
      BY DEF Position
    <3>2. k \in DOMAIN Response /\ wire[k] = Response[k]
      BY <2>12, <3>1
    <3>3. Ended /\ k = L
      BY <2>9, <3>1, <3>2 DEF Finals
    <3>4. CASE LateReset
      <4>3. k = L /\ Len(wire) = L + 1 /\ L \in Nat /\ app = "raised"
        BY <2>2, <2>10, <3>3, <3>4
      <4>4. \A a \in Nat : \A b : b = a + 1 => b - 1 = a
        OBVIOUS
      <4>1. k = Len(wire) - 1 /\ app = "raised"
        BY ONLY Zenon, <4>3, <4>4
      <4>2. Last(wire)[1] = "reset"
        BY <2>10, <3>4
      <4> QED
        BY <3>1, <3>2, <3>3, <4>1, <4>2
    <3>5. CASE ~LateReset
      BY <2>10, <2>11, <3>1, <3>2, <3>3, <3>5 DEF L
    <3> QED
      BY <3>4, <3>5
  <2>18. \A k \in Ends : \/ k = Len(wire)
                         \/ k = Len(wire) - 1 /\ Last(wire)[1] = "reset" /\ app = "raised"
    BY <2>17 DEF Ends
  <2>19. \A k \in Position("data") : wire[k] = <<"data", k - 1>>
    <3> SUFFICES ASSUME NEW k \in Position("data") PROVE wire[k] = <<"data", k - 1>>
      OBVIOUS
    <3>1. wire[k] = Response[k]
      BY <2>12 DEF Position
    <3>2. k \in 2..(Taken + 1)
      BY <2>3 DEF Held
    <3> QED
      BY <2>1, <3>1, <3>2, WireIs
  <2>20. Ends # {} => Delivered = produced /\ ~trailersFailed
    <3> SUFFICES ASSUME NEW k \in Ends PROVE Delivered = produced /\ ~trailersFailed
      OBVIOUS
    <3>1. Ended /\ Response[L][1] # "reset"
      BY <2>17 DEF Ends
    <3> QED
      BY <2>1, <2>3, <2>11, <3>1 DEF Truthful, L
  <2>21. Position("end") # {} => trailersSent = 0 \/ ~trailersAccepted
    <3> SUFFICES ASSUME NEW k \in Position("end") PROVE trailersSent = 0 \/ ~trailersAccepted
      OBVIOUS
    <3>1. Ended /\ Response[L][1] = "end"
      BY <2>17
    <3> QED
      BY <2>1, <3>1 DEF Truthful, L
  <2>22. \A k \in Position("trailers") : wire[k][2] = trailersSent
    <3> SUFFICES ASSUME NEW k \in Position("trailers") PROVE wire[k][2] = trailersSent
      OBVIOUS
    <3>1. Ended /\ Response[L][1] = "trailers" /\ wire[k] = Response[L]
      BY <2>17
    <3> QED
      BY <2>1, <3>1 DEF Truthful, L
  <2> QED
    BY <2>13, <2>14, <2>15, <2>16, <2>18, <2>19, <2>20, <2>21, <2>22 DEF WellFormedResponse
<1> QED
  BY <1>1, Inductive, PTL

\* An application that awaits its sends is never more than one chunk ahead of
\* what the filter has begun to send, whatever the watermarks do.
THEOREM SenderHeldBack == Spec => []SenderIsHeldBack
<1>1. ASSUME IInv PROVE SenderIsHeldBack
  <2>1. Delivered = Taken - Held /\ Taken \in Int /\ produced \in Int
    BY <1>1, DeliveredIsTaken, Numbers DEF IInv
  <2>2. awaits /\ ~AnyCancelled /\ filter = "live" => produced - Taken <= 1
    BY <1>1 DEF IInv, HeldBack, Ahead
  <2>3. Held = IF sending = <<>> THEN 0 ELSE 1
    BY DEF Held
  <2>4. produced - Taken <= 1 => produced - Delivered <= IF sending = <<>> THEN 1 ELSE 2
    BY <2>1, <2>3
  <2> QED
    BY <2>2, <2>4 DEF SenderIsHeldBack
<1> QED
  BY <1>1, Inductive, PTL
-----------------------------------------------------------------------------
(* The receives: their inductive invariant.                                *)

Waiting == recvBridge.events

\* The futures that the loop has completed, or passed over as cancelled.
Returned == Len(receives) - Len(receiveLoop) - Len(Waiting)

ReceivesNumbered ==
  /\ Returned >= 0
  /\ \A k \in DOMAIN receiveLoop : receiveLoop[k].future = Returned + k
  /\ \A k \in DOMAIN Waiting : Waiting[k] = Returned + Len(receiveLoop) + k
  /\ \A n \in DOMAIN receives :
       IF n <= Returned THEN receives[n] # Rcv!Pending ELSE receives[n] \in {Rcv!Pending, Rcv!Cancelled}

\* Every callback that is on its way was committed by a receive.
CommitsCounted == receiveCommits + (IF receiveCommitting THEN 1 ELSE 0) <= Len(receives)

\* What the stages of the filter say of the rest.
RequestStages ==
  /\ recvBridge.closed <=> requestFilter \in {"complete", "dropped"}
  /\ requestFilter = "new" => receives = <<>> /\ arrived = 0 /\ ~requestClosed
  /\ empty => /\ receiveLoop = <<>> /\ Waiting = <<>>
              /\ requestClosed /\ arrived = 0

WellFormed == Rcv!TypeOK /\ CommitsCounted

\* The number of futures that have left the bridge, and what a future has been
\* told or will be by the loop.
Dispatched == Returned + Len(receiveLoop)

EventOf(n) ==
  IF n <= Returned THEN receives[n]
  ELSE IF n <= Dispatched THEN receiveLoop[n - Returned].event ELSE Rcv!Pending

BytesInOrder ==
  /\ \A n \in DOMAIN receives :
       /\ Rcv!Increasing(EventOf(n).body)
       /\ Rcv!Before(EventOf(n).body, buffered)
       /\ \A m \in DOMAIN receives : n < m => Rcv!Before(EventOf(n).body, EventOf(m).body)
  /\ Rcv!Increasing(buffered)

ToldUpTo(b, n) == \E m \in DOMAIN receives : m <= n /\ b \in Range(EventOf(m).body)

BytesArrived ==
  /\ \A n \in DOMAIN receives : Range(EventOf(n).body) \subseteq 1..arrived
  /\ Range(buffered) \subseteq 1..arrived
  /\ requestFilter # "dropped" /\ ~Rcv!AnyCancelled =>
       \A b \in 1..arrived : ToldUpTo(b, Dispatched) \/ b \in Range(buffered)

EndsBody(event) == event.type = "request" /\ ~event.more

EndsAreTrue ==
  \A n \in DOMAIN receives : EndsBody(EventOf(n)) =>
    /\ requestClosed
    /\ Rcv!AnyCancelled \/ \A b \in 1..arrived : ToldUpTo(b, n)

DisconnectsAreTrue ==
  \A n \in DOMAIN receives : EventOf(n) = Rcv!Disconnect =>
    /\ requestFilter \in {"complete", "dropped"}
    /\ \A m \in DOMAIN receives :
         n <= m => EventOf(m) \in {Rcv!Disconnect, Rcv!Pending, Rcv!Cancelled}

ReceiveInv ==
  /\ WellFormed /\ RequestStages /\ ReceivesNumbered
  /\ BytesInOrder /\ BytesArrived /\ EndsAreTrue /\ DisconnectsAreTrue
-----------------------------------------------------------------------------
(* What the steps do, element by element.                                  *)

ReceiveCompletions == [future : Rcv!Futures, event : Rcv!Events]

LEMMA ReceiveLengths ==
  ASSUME Rcv!TypeOK
  PROVE  /\ Len(receiveLoop) \in Nat /\ DOMAIN receiveLoop = 1..Len(receiveLoop)
         /\ Len(Waiting) \in Nat /\ DOMAIN Waiting = 1..Len(Waiting)
         /\ Len(receives) \in Nat /\ DOMAIN receives = 1..Len(receives)
         /\ Len(buffered) \in Nat /\ DOMAIN buffered = 1..Len(buffered)
         /\ receiveLoop \in Seq(ReceiveCompletions) /\ Waiting \in Seq(Rcv!Futures)
         /\ \A k \in DOMAIN receiveLoop : receiveLoop[k] \in ReceiveCompletions
         /\ \A k \in DOMAIN Waiting : Waiting[k] \in Rcv!Futures
         /\ \A n \in DOMAIN receives : receives[n] \in Rcv!Events \cup {Rcv!Pending, Rcv!Cancelled}
<1>1. receiveLoop \in Seq(ReceiveCompletions) /\ Waiting \in Seq(Rcv!Futures)
  BY DEF Rcv!TypeOK, ReceiveCompletions, Waiting, Rcv!Bridges
<1> QED
  BY <1>1, LenProperties, ElementOfSeq DEF Rcv!TypeOK

\* handle_read answers every future on the bridge, or keeps the bytes.
Answers(available, ended) ==
  /\ Waiting # <<>>
  /\ ended \/ available # <<>>
  /\ receiveLoop' \in Seq(ReceiveCompletions)
  /\ DOMAIN receiveLoop' = 1..(Len(receiveLoop) + Len(Waiting))
  /\ Len(receiveLoop') = Len(receiveLoop) + Len(Waiting)
  /\ \A k \in 1..Len(receiveLoop) : receiveLoop'[k] = receiveLoop[k]
  /\ \A k \in 1..Len(Waiting) :
       receiveLoop'[Len(receiveLoop) + k] =
         Rcv!Completion(Waiting[k], Rcv!Request(IF k = 1 THEN available ELSE <<>>, ~ended))
  /\ recvBridge' = Rcv!Drained(recvBridge)
  /\ buffered' = <<>>

Keeps(available) ==
  /\ receiveLoop' = receiveLoop /\ recvBridge' = recvBridge
  /\ buffered' = available

LEMMA HandleReadFacts ==
  ASSUME Rcv!TypeOK, NEW received \in Seq(1..MaxBody), NEW ended \in BOOLEAN,
         Rcv!HandleRead(received, ended)
  PROVE  /\ buffered \o received \in Seq(1..MaxBody)
         /\ Answers(buffered \o received, ended) \/ Keeps(buffered \o received)
<1> DEFINE available == buffered \o received
           answers == [k \in DOMAIN Waiting |->
                         Rcv!Completion(Waiting[k],
                                    Rcv!Request(IF k = 1 THEN available ELSE <<>>, ~ended))]
<1>1. available \in Seq(1..MaxBody) /\ <<>> \in Seq(1..MaxBody)
  BY ConcatFacts DEF Rcv!TypeOK
<1>2. CASE (ended \/ available # <<>>) /\ Waiting # <<>>
  <2>1. receiveLoop' = receiveLoop \o answers /\ recvBridge' = Rcv!Drained(recvBridge) /\ buffered' = <<>>
    BY <1>2 DEF Rcv!HandleRead, Waiting
  <2>2. \A k \in DOMAIN Waiting :
          /\ answers[k] = Rcv!Completion(Waiting[k],
                                    Rcv!Request(IF k = 1 THEN available ELSE <<>>, ~ended))
          /\ answers[k] \in ReceiveCompletions
    BY <1>1, ReceiveLengths
       DEF ReceiveCompletions, Rcv!Completion, Rcv!Request, Rcv!Events
  <2>3. answers \in [1..Len(Waiting) -> ReceiveCompletions]
    BY <2>2, ReceiveLengths
  <2>4. answers \in Seq(ReceiveCompletions) /\ Len(answers) = Len(Waiting)
    BY <2>3, FunctionIsSeq, ReceiveLengths
  <2> HIDE DEF answers
  <2>5. /\ receiveLoop' \in Seq(ReceiveCompletions)
        /\ DOMAIN receiveLoop' = 1..(Len(receiveLoop) + Len(Waiting))
        /\ Len(receiveLoop') = Len(receiveLoop) + Len(Waiting)
        /\ \A k \in 1..Len(receiveLoop) : receiveLoop'[k] = receiveLoop[k]
        /\ \A k \in 1..Len(Waiting) : receiveLoop'[Len(receiveLoop) + k] = answers[k]
    BY <2>1, <2>4, ReceiveLengths, ConcatFacts
  <2> QED
    BY <1>1, <1>2, <2>1, <2>2, <2>5, ReceiveLengths DEF Answers
<1>3. CASE ~((ended \/ available # <<>>) /\ Waiting # <<>>)
  BY <1>1, <1>3 DEF Rcv!HandleRead, Waiting, Keeps
<1> QED
  BY <1>2, <1>3

\* The callbacks of the filter that call handle_read, with the bytes received.
Reads(received, ended) ==
  /\ requestFilter \in {"live", "complete"}
  /\ \A k \in 1..Len(received) : received[k] = arrived + k
  /\ arrived' = arrived + Len(received) /\ arrived' <= MaxBody
  /\ requestClosed => ended /\ received = <<>>
  /\ requestClosed' = ended
  /\ receiveCommits' \in {receiveCommits, receiveCommits - 1} /\ receiveCommits' >= 0
  /\ Answers(buffered \o received, ended) \/ Keeps(buffered \o received)
  /\ UNCHANGED <<requestFilter, empty, receiveCommitting, receives>>

HandleReads ==
  \/ \E n \in 0..MaxBody, endOfStream \in BOOLEAN : Rcv!OnRequestBody(n, endOfStream)
  \/ Rcv!OnRequestTrailers
  \/ Rcv!OnScheduled

LEMMA ReadSteps ==
  ASSUME Rcv!TypeOK, HandleReads
  PROVE  \E received \in Seq(1..MaxBody), ended \in BOOLEAN : Reads(received, ended)
<1>1. <<>> \in Seq(1..MaxBody) /\ Len(<<>>) = 0
  OBVIOUS
<1>2. /\ arrived \in 0..MaxBody /\ receiveCommits \in Nat /\ requestClosed \in BOOLEAN
      /\ MaxBody \in Nat
  BY ReceiveBounds DEF Rcv!TypeOK
<1>3. ASSUME NEW n \in 0..MaxBody, NEW endOfStream \in BOOLEAN,
             Rcv!OnRequestBody(n, endOfStream)
      PROVE  \E received \in Seq(1..MaxBody), ended \in BOOLEAN : Reads(received, ended)
  <2> DEFINE received == [k \in 1..n |-> arrived + k]
  <2>1. arrived + n <= MaxBody
    BY <1>3 DEF Rcv!OnRequestBody
  <2>2. received \in [1..n -> 1..MaxBody]
    BY <1>2, <2>1
  <2>3. \A k \in 1..n : received[k] = arrived + k
    OBVIOUS
  <2>4. Rcv!HandleRead(received, endOfStream)
    BY <1>3 DEF Rcv!OnRequestBody
  <2> HIDE DEF received
  <2>5. received \in Seq(1..MaxBody) /\ Len(received) = n
    BY <1>2, <2>2, FunctionIsSeq
  <2>6. \/ Answers(buffered \o received, endOfStream)
        \/ Keeps(buffered \o received)
    BY <2>4, <2>5, HandleReadFacts
  <2>7. Reads(received, endOfStream)
    BY <1>2, <1>3, <2>1, <2>3, <2>5, <2>6 DEF Rcv!OnRequestBody, Reads
  <2> QED
    BY <2>5, <2>7
<1>4. ASSUME Rcv!OnRequestTrailers PROVE \E ended \in BOOLEAN : Reads(<<>>, ended)
  <2> DEFINE ended == TRUE
  <2>1. ended \in BOOLEAN /\ ended /\ requestClosed' = ended /\ Rcv!HandleRead(<<>>, ended)
    BY <1>4 DEF Rcv!OnRequestTrailers
  <2> HIDE DEF ended
  <2>2. Answers(buffered \o <<>>, ended) \/ Keeps(buffered \o <<>>)
    BY <1>1, <2>1, HandleReadFacts
  <2>3. requestFilter = "live" /\ UNCHANGED <<arrived, requestFilter, receiveCommits, empty, receiveCommitting, receives>>
        /\ ~requestClosed
    BY <1>4 DEF Rcv!OnRequestTrailers
  <2>4. arrived' = arrived + Len(<<>>) /\ arrived' <= MaxBody
    BY <1>1, <1>2, <2>3
  <2>5. receiveCommits' \in {receiveCommits, receiveCommits - 1} /\ receiveCommits' >= 0
    BY <1>2, <2>3
  <2>6. \A k \in 1..Len(<<>>) : <<>>[k] = arrived + k
    BY <1>1
  <2>7. Reads(<<>>, ended)
    BY <2>1, <2>2, <2>3, <2>4, <2>5, <2>6 DEF Reads
  <2> QED
    BY <2>1, <2>7
<1>5. ASSUME Rcv!OnScheduled PROVE Reads(<<>>, requestClosed)
  <2>1. Answers(buffered \o <<>>, requestClosed) \/ Keeps(buffered \o <<>>)
    BY <1>1, <1>2, <1>5, HandleReadFacts DEF Rcv!OnScheduled
  <2> QED
    BY <1>1, <1>2, <1>5, <2>1 DEF Rcv!OnScheduled, Reads
<1> QED
  BY <1>1, <1>2, <1>3, <1>4, <1>5 DEF HandleReads

\* on_stream_complete disconnects every future on the bridge.
LEMMA OnStreamCompleteFacts ==
  ASSUME Rcv!TypeOK, Rcv!OnStreamComplete
  PROVE  /\ receiveLoop' \in Seq(ReceiveCompletions)
         /\ DOMAIN receiveLoop' = 1..(Len(receiveLoop) + Len(Waiting))
         /\ Len(receiveLoop') = Len(receiveLoop) + Len(Waiting)
         /\ \A k \in 1..Len(receiveLoop) : receiveLoop'[k] = receiveLoop[k]
         /\ \A k \in 1..Len(Waiting) :
              receiveLoop'[Len(receiveLoop) + k] = Rcv!Completion(Waiting[k], Rcv!Disconnect)
<1> DEFINE answers == [k \in DOMAIN Waiting |-> Rcv!Completion(Waiting[k], Rcv!Disconnect)]
<1>1. Rcv!Disconnect \in Rcv!Events
  BY DEF Rcv!Disconnect, Rcv!NoRequest, Rcv!Events
<1>2. answers \in [1..Len(Waiting) -> ReceiveCompletions]
  BY <1>1, ReceiveLengths DEF ReceiveCompletions, Rcv!Completion
<1>3. answers \in Seq(ReceiveCompletions) /\ Len(answers) = Len(Waiting)
  BY <1>2, FunctionIsSeq, ReceiveLengths
<1>4. \A k \in 1..Len(Waiting) : answers[k] = Rcv!Completion(Waiting[k], Rcv!Disconnect)
  BY ReceiveLengths
<1>5. receiveLoop' = receiveLoop \o answers
  BY DEF Rcv!OnStreamComplete, Waiting
<1> HIDE DEF answers
<1>. receiveLoop \in Seq(ReceiveCompletions)
  BY ReceiveLengths
<1>6. /\ receiveLoop' \in Seq(ReceiveCompletions)
      /\ DOMAIN receiveLoop' = 1..(Len(receiveLoop) + Len(Waiting))
      /\ Len(receiveLoop') = Len(receiveLoop) + Len(Waiting)
      /\ \A k \in 1..Len(receiveLoop) : receiveLoop'[k] = receiveLoop[k]
      /\ \A k \in 1..Len(Waiting) : receiveLoop'[Len(receiveLoop) + k] = answers[k]
  <2>1. \A s, t \in Seq(ReceiveCompletions) :
          /\ s \o t \in Seq(ReceiveCompletions)
          /\ Len(s \o t) = Len(s) + Len(t)
          /\ DOMAIN (s \o t) = 1..(Len(s) + Len(t))
          /\ \A k \in 1..Len(s) : (s \o t)[k] = s[k]
          /\ \A k \in 1..Len(t) : (s \o t)[Len(s) + k] = t[k]
    BY ConcatFacts
  <2>2. receiveLoop' \in Seq(ReceiveCompletions)
    BY <1>3, <1>5, <2>1
  <2>3. Len(receiveLoop') = Len(receiveLoop) + Len(Waiting)
    BY <1>3, <1>5, <2>1
  <2>4. DOMAIN receiveLoop' = 1..(Len(receiveLoop) + Len(Waiting))
    BY <1>3, <1>5, <2>1
  <2>5. \A k \in 1..Len(receiveLoop) : receiveLoop'[k] = receiveLoop[k]
    BY <1>3, <1>5, <2>1
  <2>6. \A k \in 1..Len(Waiting) : receiveLoop'[Len(receiveLoop) + k] = answers[k]
    BY <1>3, <1>5, <2>1
  <2> QED
    BY <2>2, <2>3, <2>4, <2>5, <2>6
<1> QED
  BY <1>4, <1>6

LEMMA ReceiveFacts ==
  ASSUME Rcv!TypeOK, Rcv!Receive
  PROVE  LET future == Len(receives) + 1 IN
         /\ future \in Rcv!Futures
         /\ receives' \in Seq(Rcv!Events \cup {Rcv!Pending, Rcv!Cancelled})
         /\ Len(receives') = future /\ DOMAIN receives' = 1..future
         /\ \A n \in 1..Len(receives) : receives'[n] = receives[n]
         /\ receives'[future] = Rcv!Pending
         /\ \/ /\ recvBridge.closed /\ recvBridge' = recvBridge
               /\ ~receiveCommitting'
               /\ receiveLoop' \in Seq(ReceiveCompletions)
               /\ Len(receiveLoop') = Len(receiveLoop) + 1 /\ DOMAIN receiveLoop' = 1..(Len(receiveLoop) + 1)
               /\ \A k \in 1..Len(receiveLoop) : receiveLoop'[k] = receiveLoop[k]
               /\ receiveLoop'[Len(receiveLoop) + 1] = Rcv!Completion(future, Rcv!Disconnect)
            \/ /\ ~recvBridge.closed /\ receiveLoop' = receiveLoop
               /\ receiveCommitting'
               /\ recvBridge' \in Rcv!Bridges(Rcv!Futures) /\ ~recvBridge'.closed
               /\ Waiting' \in Seq(Rcv!Futures)
               /\ Len(Waiting') = Len(Waiting) + 1
               /\ DOMAIN Waiting' = 1..(Len(Waiting) + 1)
               /\ \A k \in 1..Len(Waiting) : Waiting'[k] = Waiting[k]
               /\ Waiting'[Len(Waiting) + 1] = future
<1> DEFINE future == Len(receives) + 1
<1>1. future \in Rcv!Futures
  BY ReceiveLengths, ReceiveBounds DEF Rcv!Receive, Rcv!Futures
<1>2. /\ receives' \in Seq(Rcv!Events \cup {Rcv!Pending, Rcv!Cancelled})
      /\ Len(receives') = future /\ DOMAIN receives' = 1..future
      /\ \A n \in 1..Len(receives) : receives'[n] = receives[n]
      /\ receives'[future] = Rcv!Pending
  BY AppendFacts DEF Rcv!Receive, Rcv!TypeOK
<1>3. CASE recvBridge.closed
  <2>1. recvBridge' = recvBridge /\ receiveLoop' = Append(receiveLoop, Rcv!Completion(future, Rcv!Disconnect))
        /\ receiveCommitting' = FALSE
    BY <1>3 DEF Rcv!Receive, Rcv!Sent
  <2>2. Rcv!Completion(future, Rcv!Disconnect) \in ReceiveCompletions
    BY <1>1
       DEF Rcv!Completion, ReceiveCompletions, Rcv!Disconnect, Rcv!NoRequest, Rcv!Events
  <2> QED
    BY <1>1, <1>2, <1>3, <2>1, <2>2, ReceiveLengths, AppendFacts
<1>4. CASE ~recvBridge.closed
  <2>1. /\ recvBridge' = [recvBridge EXCEPT !.events = Append(@, future)] /\ receiveLoop' = receiveLoop
        /\ receiveCommitting' = TRUE
    BY <1>4 DEF Rcv!Receive, Rcv!Sent
  <2>2. recvBridge \in [closed : BOOLEAN, events : Seq(Rcv!Futures)]
    BY DEF Rcv!TypeOK, Rcv!Bridges
  <2>3. Waiting' = Append(Waiting, future) /\ ~recvBridge'.closed
    BY <1>4, <2>1, <2>2 DEF Waiting
  <2>4. /\ Waiting' \in Seq(Rcv!Futures)
        /\ Len(Waiting') = Len(Waiting) + 1
        /\ DOMAIN Waiting' = 1..(Len(Waiting) + 1)
        /\ \A k \in 1..Len(Waiting) : Waiting'[k] = Waiting[k]
        /\ Waiting'[Len(Waiting) + 1] = future
    BY <1>1, <2>3, ReceiveLengths, AppendFacts
  <2>5. recvBridge' \in Rcv!Bridges(Rcv!Futures)
    BY <2>1, <2>2, <2>3, <2>4 DEF Rcv!Bridges, Waiting
  <2> QED
    BY <1>1, <1>2, <1>4, <2>1, <2>3, <2>4, <2>5
<1> QED
  BY <1>3, <1>4

LEMMA RunTaskFacts ==
  ASSUME Rcv!TypeOK, ReceivesNumbered, Rcv!RunTask
  PROVE  LET n == Returned + 1 IN
         /\ n \in DOMAIN receives /\ receiveLoop # <<>> /\ Len(receiveLoop) \in Nat \ {0}
         /\ Head(receiveLoop) = receiveLoop[1] /\ receiveLoop[1].future = n
         /\ receiveLoop' \in Seq(ReceiveCompletions)
         /\ Len(receiveLoop') = Len(receiveLoop) - 1 /\ DOMAIN receiveLoop' = 1..(Len(receiveLoop) - 1)
         /\ \A k \in 1..(Len(receiveLoop) - 1) : receiveLoop'[k] = receiveLoop[k + 1]
         /\ receives' \in Seq(Rcv!Events \cup {Rcv!Pending, Rcv!Cancelled})
         /\ Len(receives') = Len(receives) /\ DOMAIN receives' = DOMAIN receives
         /\ \A m \in DOMAIN receives : m # n => receives'[m] = receives[m]
         /\ \/ receives[n] = Rcv!Pending /\ receives'[n] = receiveLoop[1].event
            \/ receives[n] = Rcv!Cancelled /\ receives'[n] = Rcv!Cancelled
         /\ UNCHANGED <<Rcv!envoyVars, recvBridge, receiveCommits, empty, receiveCommitting>>
<1> DEFINE n == Returned + 1
<1>1. /\ receiveLoop # <<>> /\ Len(receiveLoop) \in Nat \ {0}
      /\ Head(receiveLoop) = receiveLoop[1] /\ receiveLoop[1] \in ReceiveCompletions
      /\ receiveLoop' \in Seq(ReceiveCompletions)
      /\ Len(receiveLoop') = Len(receiveLoop) - 1 /\ DOMAIN receiveLoop' = 1..(Len(receiveLoop) - 1)
      /\ \A k \in 1..(Len(receiveLoop) - 1) : receiveLoop'[k] = receiveLoop[k + 1]
  BY ReceiveLengths, TailFacts DEF Rcv!RunTask
<1> Returned \in Nat /\ Len(receives) = Returned + Len(receiveLoop) + Len(Waiting)
  BY ReceiveLengths DEF ReceivesNumbered, Returned
<1>2. n \in DOMAIN receives /\ receiveLoop[1].future = n
  BY <1>1, ReceiveLengths DEF ReceivesNumbered
<1>3. receives[n] \in {Rcv!Pending, Rcv!Cancelled}
  BY <1>1, <1>2, ReceiveLengths DEF ReceivesNumbered
<1>4. receives' = IF receives[n] = Rcv!Pending
                    THEN [receives EXCEPT ![n] = receiveLoop[1].event] ELSE receives
  BY <1>1, <1>2 DEF Rcv!RunTask
<1>5. receiveLoop[1].event \in Rcv!Events \cup {Rcv!Pending, Rcv!Cancelled} /\ Rcv!Pending # Rcv!Cancelled
  BY <1>1 DEF ReceiveCompletions, Rcv!Pending, Rcv!Cancelled, Rcv!NoRequest
<1>6. /\ receives' \in Seq(Rcv!Events \cup {Rcv!Pending, Rcv!Cancelled})
      /\ Len(receives') = Len(receives) /\ DOMAIN receives' = DOMAIN receives
      /\ \A m \in DOMAIN receives : m # n => receives'[m] = receives[m]
      /\ \/ receives[n] = Rcv!Pending /\ receives'[n] = receiveLoop[1].event
         \/ receives[n] = Rcv!Cancelled /\ receives'[n] = Rcv!Cancelled
  <2>1. CASE receives[n] = Rcv!Pending
    <3>1. receives' = [receives EXCEPT ![n] = receiveLoop[1].event]
      BY <1>4, <2>1
    <3>2. receives \in Seq(Rcv!Events \cup {Rcv!Pending, Rcv!Cancelled}) /\ n \in 1..Len(receives)
      BY <1>2, ReceiveLengths DEF Rcv!TypeOK
    <3> QED
      BY <1>5, <2>1, <3>1, <3>2, <1>2, ReceiveLengths, ExceptSeq
  <2>2. CASE receives[n] # Rcv!Pending
    BY <1>3, <1>4, <2>2 DEF Rcv!TypeOK
  <2> QED
    BY <2>1, <2>2
<1> QED
  BY <1>1, <1>2, <1>6 DEF Rcv!RunTask

LEMMA CancelFacts ==
  ASSUME Rcv!TypeOK, NEW n \in 1..MaxReceives, Rcv!CancelReceive(n)
  PROVE  /\ n \in DOMAIN receives /\ receives[n] = Rcv!Pending
         /\ receives' \in Seq(Rcv!Events \cup {Rcv!Pending, Rcv!Cancelled})
         /\ Len(receives') = Len(receives) /\ DOMAIN receives' = DOMAIN receives
         /\ \A m \in DOMAIN receives : m # n => receives'[m] = receives[m]
         /\ receives'[n] = Rcv!Cancelled
<1>1. n \in 1..Len(receives) /\ receives \in Seq(Rcv!Events \cup {Rcv!Pending, Rcv!Cancelled})
  BY ReceiveLengths DEF Rcv!CancelReceive, Rcv!TypeOK
<1>2. receives' = [receives EXCEPT ![n] = Rcv!Cancelled]
  BY DEF Rcv!CancelReceive
<1> QED
  BY <1>1, <1>2, ReceiveLengths, ExceptSeq DEF Rcv!CancelReceive

LEMMA ReceiveEmptyFacts ==
  ASSUME Rcv!TypeOK, Rcv!ReceiveEmpty
  PROVE  LET future == Len(receives) + 1 IN
         /\ empty /\ requestFilter # "new" /\ future <= MaxReceives
         /\ receives' \in Seq(Rcv!Events \cup {Rcv!Pending, Rcv!Cancelled})
         /\ Len(receives') = future /\ DOMAIN receives' = 1..future
         /\ \A n \in 1..Len(receives) : receives'[n] = receives[n]
         /\ receives'[future] = IF requestFilter = "live" THEN Rcv!Request(<<>>, FALSE) ELSE Rcv!Disconnect
<1>1. {Rcv!Request(<<>>, FALSE), Rcv!Disconnect} \subseteq Rcv!Events
  BY DEF Rcv!Request, Rcv!Disconnect, Rcv!NoRequest, Rcv!Events
<1>2. Len(receives) + 1 <= MaxReceives
  BY ReceiveLengths, ReceiveBounds DEF Rcv!ReceiveEmpty
<1> DEFINE event == IF requestFilter = "live" THEN Rcv!Request(<<>>, FALSE) ELSE Rcv!Disconnect
<1>3. /\ event \in Rcv!Events \cup {Rcv!Pending, Rcv!Cancelled}
      /\ receives \in Seq(Rcv!Events \cup {Rcv!Pending, Rcv!Cancelled})
      /\ receives' = Append(receives, event)
  BY <1>1 DEF Rcv!ReceiveEmpty, Rcv!TypeOK
<1> HIDE DEF event
<1>4. /\ receives' \in Seq(Rcv!Events \cup {Rcv!Pending, Rcv!Cancelled})
      /\ Len(receives') = Len(receives) + 1 /\ DOMAIN receives' = 1..(Len(receives) + 1)
      /\ \A n \in 1..Len(receives) : receives'[n] = receives[n]
      /\ receives'[Len(receives) + 1] = event
  BY <1>3, AppendFacts
<1> QED
  BY <1>2, <1>4 DEF event, Rcv!ReceiveEmpty
-----------------------------------------------------------------------------
(* What the steps do to what the futures are told.                         *)

LEMMA Counts ==
  ASSUME Rcv!TypeOK, ReceivesNumbered
  PROVE  /\ Returned \in Nat /\ Dispatched \in Nat
         /\ Dispatched = Returned + Len(receiveLoop)
         /\ Len(receives) = Dispatched + Len(Waiting)
         /\ \A n \in DOMAIN receives : n \in Nat /\ 1 <= n /\ n <= Len(receives)
         /\ \A n \in DOMAIN receives : n > Returned => receives[n] \in {Rcv!Pending, Rcv!Cancelled}
         /\ \A n \in DOMAIN receives : n <= Returned => receives[n] # Rcv!Pending
         /\ \A n \in DOMAIN receives : n > Dispatched => EventOf(n) = Rcv!Pending
<1>1. /\ Len(receiveLoop) \in Nat /\ Len(Waiting) \in Nat /\ Len(receives) \in Nat
      /\ DOMAIN receives = 1..Len(receives)
  BY ReceiveLengths
<1>2. /\ Returned \in Nat /\ Dispatched \in Nat
      /\ Dispatched = Returned + Len(receiveLoop)
      /\ Len(receives) = Dispatched + Len(Waiting)
  BY <1>1 DEF ReceivesNumbered, Returned, Dispatched
<1>3. \A n \in DOMAIN receives : n \in Nat /\ 1 <= n /\ n <= Len(receives)
  BY <1>1
<1> QED
  BY <1>1, <1>2, <1>3 DEF ReceivesNumbered, EventOf

\* The futures that had left the bridge are told the same as before, and the
\* next ones something new.
ToldNext(first, others) ==
  \A n \in DOMAIN receives' :
    EventOf(n)' = IF n <= Dispatched THEN EventOf(n)
               ELSE IF n = Dispatched + 1 THEN first ELSE others

KeepsCancelled == Rcv!AnyCancelled => Rcv!AnyCancelled'
Grows ==
  /\ DOMAIN receives \subseteq DOMAIN receives'
  /\ Dispatched' \in Nat /\ Dispatched <= Dispatched' /\ Dispatched' <= Len(receives')
  /\ DOMAIN receives' = 1..Len(receives') /\ Len(receives') \in Nat

LEMMA QuietTells ==
  ASSUME Rcv!TypeOK, ReceivesNumbered, UNCHANGED <<receiveLoop, recvBridge, receives>>
  PROVE  ReceivesNumbered' /\ ToldNext(Rcv!Pending, Rcv!Pending) /\ KeepsCancelled /\ Grows
<1>1. Waiting' = Waiting /\ Returned' = Returned /\ Dispatched' = Dispatched
  BY DEF Waiting, Returned, Dispatched
<1>2. ReceivesNumbered'
  BY <1>1 DEF ReceivesNumbered
<1>3. ToldNext(Rcv!Pending, Rcv!Pending)
  BY <1>1, Counts DEF ToldNext, EventOf
<1>4. KeepsCancelled
  BY DEF KeepsCancelled, Rcv!AnyCancelled
<1>5. Grows
  BY <1>1, Counts, ReceiveLengths DEF Grows
<1> QED
  BY <1>2, <1>3, <1>4, <1>5

\* A step that dispatches all the futures of the bridge.
LEMMA DispatchTells ==
  ASSUME Rcv!TypeOK, ReceivesNumbered, NEW first, NEW others,
         Waiting' = <<>>, receives' = receives,
         Len(receiveLoop') = Len(receiveLoop) + Len(Waiting),
         DOMAIN receiveLoop' = 1..(Len(receiveLoop) + Len(Waiting)),
         \A k \in 1..Len(receiveLoop) : receiveLoop'[k] = receiveLoop[k],
         \A k \in 1..Len(Waiting) :
           receiveLoop'[Len(receiveLoop) + k] = Rcv!Completion(Waiting[k], IF k = 1 THEN first ELSE others)
  PROVE  /\ ReceivesNumbered' /\ KeepsCancelled /\ Grows /\ ToldNext(first, others)
         /\ Dispatched' = Len(receives')
<1> DEFINE event(k) == IF k = 1 THEN first ELSE others
<1>1. /\ Len(receiveLoop) \in Nat /\ Len(Waiting) \in Nat /\ Len(receives) \in Nat
      /\ DOMAIN receiveLoop = 1..Len(receiveLoop) /\ DOMAIN Waiting = 1..Len(Waiting)
      /\ DOMAIN receives = 1..Len(receives)
  BY ReceiveLengths
<1>2. Len(Waiting') = 0 /\ DOMAIN Waiting' = {}
  OBVIOUS
<1>3. \A k \in 1..Len(Waiting) : /\ receiveLoop'[Len(receiveLoop) + k].future = Waiting[k]
                                 /\ receiveLoop'[Len(receiveLoop) + k].event = event(k)
  <2>1. \A f, e : Rcv!Completion(f, e).future = f /\ Rcv!Completion(f, e).event = e
    BY DEF Rcv!Completion
  <2> QED
    BY <2>1
<1>4. Returned' = Returned /\ Dispatched' = Len(receives)
  BY <1>1, <1>2, <1>3, Counts DEF Returned, Dispatched
<1>5. ReceivesNumbered'
  <2>1. \A k \in DOMAIN receiveLoop' : receiveLoop'[k].future = Returned + k
    <3> TAKE k \in DOMAIN receiveLoop'
    <3>1. CASE k \in 1..Len(receiveLoop)
      BY <1>1, <1>3, <3>1 DEF ReceivesNumbered
    <3>2. CASE k \notin 1..Len(receiveLoop)
      <4>1. k - Len(receiveLoop) \in 1..Len(Waiting) /\ Len(receiveLoop) + (k - Len(receiveLoop)) = k
        BY <1>1, <1>3, <3>2
      <4>2. receiveLoop'[k].future = Waiting[k - Len(receiveLoop)]
        BY <1>3, <4>1
      <4>3. Waiting[k - Len(receiveLoop)] = Returned + Len(receiveLoop) + (k - Len(receiveLoop))
        BY <1>1, <4>1 DEF ReceivesNumbered
      <4> QED
        BY <1>1, <4>1, <4>2, <4>3, Counts
    <3> QED
      BY <3>1, <3>2
  <2> QED
    BY <1>2, <1>4, <2>1 DEF ReceivesNumbered
<1>6. ToldNext(first, others)
  <2> SUFFICES ASSUME NEW n \in DOMAIN receives'
               PROVE  EventOf(n)' = IF n <= Dispatched THEN EventOf(n)
                                 ELSE IF n = Dispatched + 1 THEN first ELSE others
    BY DEF ToldNext
  <2>1. n \in 1..Len(receives)
    BY <1>1
  <2>2. CASE n <= Returned
    BY <1>1, <1>4, <2>1, <2>2, Counts DEF EventOf
  <2>3. CASE n > Returned /\ n <= Dispatched
    <3>1. n - Returned \in 1..Len(receiveLoop)
      BY <1>1, <2>1, <2>3, Counts
    <3> QED
      BY <1>1, <1>3, <1>4, <2>1, <2>3, <3>1, Counts DEF EventOf
  <2>4. CASE n > Dispatched
    <3>1. /\ n - Dispatched \in 1..Len(Waiting) /\ n - Returned = Len(receiveLoop) + (n - Dispatched)
          /\ ~(n <= Returned)
      BY <1>1, <2>1, <2>4, Counts
    <3>2. EventOf(n)' = receiveLoop'[n - Returned].event
      BY <1>1, <1>4, <2>1, <3>1 DEF EventOf
    <3>3. EventOf(n)' = event(n - Dispatched)
      BY <1>3, <3>1, <3>2
    <3> QED
      BY SMTT(60), <2>1, <2>4, <3>1, <3>3, Counts
  <2> QED
    BY <2>1, <2>2, <2>3, <2>4, Counts
<1>7. KeepsCancelled /\ Grows
  BY <1>1, <1>4, Counts DEF KeepsCancelled, Rcv!AnyCancelled, Grows
<1> QED
  BY <1>4, <1>5, <1>6, <1>7

LEMMA AnswersTells ==
  ASSUME Rcv!TypeOK, ReceivesNumbered, NEW available, NEW ended,
         Answers(available, ended), receives' = receives
  PROVE  /\ ReceivesNumbered' /\ KeepsCancelled /\ Grows
         /\ ToldNext(Rcv!Request(available, ~ended), Rcv!Request(<<>>, ~ended))
         /\ Dispatched' = Len(receives')
<1>1. Waiting' = <<>>
  BY DEF Answers, Rcv!Drained, Waiting, Rcv!TypeOK, Rcv!Bridges
<1> DEFINE first == Rcv!Request(available, ~ended)
           others == Rcv!Request(<<>>, ~ended)
<1>2. \A k \in 1..Len(Waiting) :
        receiveLoop'[Len(receiveLoop) + k] =
          Rcv!Completion(Waiting[k], IF k = 1 THEN first ELSE others)
  BY DEF Answers, Rcv!Request
<1>3. /\ Len(receiveLoop') = Len(receiveLoop) + Len(Waiting)
      /\ DOMAIN receiveLoop' = 1..(Len(receiveLoop) + Len(Waiting))
      /\ \A k \in 1..Len(receiveLoop) : receiveLoop'[k] = receiveLoop[k]
  BY DEF Answers
<1> HIDE DEF first, others, Answers
<1>4. /\ ReceivesNumbered' /\ KeepsCancelled /\ Grows /\ ToldNext(first, others)
      /\ Dispatched' = Len(receives')
  BY <1>1, <1>2, <1>3, DispatchTells
<1> QED
  BY <1>4 DEF first, others

LEMMA OnStreamCompleteTells ==
  ASSUME Rcv!TypeOK, ReceivesNumbered, Rcv!OnStreamComplete
  PROVE  ReceivesNumbered' /\ KeepsCancelled /\ Grows /\ ToldNext(Rcv!Disconnect, Rcv!Disconnect)
<1>1. Waiting' = <<>> /\ receives' = receives
  BY DEF Rcv!OnStreamComplete, Rcv!ClosedBridge, Waiting
<1>2. \A k \in 1..Len(Waiting) :
        receiveLoop'[Len(receiveLoop) + k] =
          Rcv!Completion(Waiting[k], IF k = 1 THEN Rcv!Disconnect ELSE Rcv!Disconnect)
  BY OnStreamCompleteFacts
<1>3. /\ Len(receiveLoop') = Len(receiveLoop) + Len(Waiting)
      /\ DOMAIN receiveLoop' = 1..(Len(receiveLoop) + Len(Waiting))
      /\ \A k \in 1..Len(receiveLoop) : receiveLoop'[k] = receiveLoop[k]
  BY OnStreamCompleteFacts
<1> QED
  BY <1>1, <1>2, <1>3, DispatchTells

LEMMA ReceiveTells ==
  ASSUME Rcv!TypeOK, ReceivesNumbered, Rcv!Receive
  PROVE  /\ ReceivesNumbered' /\ KeepsCancelled /\ Grows
         /\ \/ recvBridge.closed /\ ToldNext(Rcv!Disconnect, Rcv!Disconnect)
            \/ ~recvBridge.closed /\ ToldNext(Rcv!Pending, Rcv!Pending)
<1> DEFINE N == Len(receives)
<1>1. /\ N \in Nat /\ DOMAIN receives = 1..N /\ DOMAIN receiveLoop = 1..Len(receiveLoop)
      /\ Len(receiveLoop) \in Nat /\ Len(Waiting) \in Nat /\ DOMAIN Waiting = 1..Len(Waiting)
  BY ReceiveLengths
<1>2. /\ Len(receives') = N + 1 /\ DOMAIN receives' = 1..(N + 1)
      /\ \A n \in 1..N : receives'[n] = receives[n]
      /\ receives'[N + 1] = Rcv!Pending
  BY ReceiveFacts
<1>3. KeepsCancelled
  BY <1>1, <1>2 DEF KeepsCancelled, Rcv!AnyCancelled
<1>4. CASE recvBridge.closed
  <2>1. /\ Waiting' = Waiting /\ Waiting = <<>> /\ Len(Waiting) = 0
        /\ Len(receiveLoop') = Len(receiveLoop) + 1 /\ DOMAIN receiveLoop' = 1..(Len(receiveLoop) + 1)
        /\ \A k \in 1..Len(receiveLoop) : receiveLoop'[k] = receiveLoop[k]
        /\ receiveLoop'[Len(receiveLoop) + 1].future = N + 1
        /\ receiveLoop'[Len(receiveLoop) + 1].event = Rcv!Disconnect
    BY SMTT(60), <1>4, ReceiveFacts DEF Waiting, Rcv!TypeOK, Rcv!Bridges, Rcv!Completion
  <2>2. Returned' = Returned /\ Dispatched' = N + 1 /\ Dispatched = N
    BY <1>1, <1>2, <2>1, Counts DEF Returned, Dispatched
  <2>3. ReceivesNumbered'
    <3>1. \A k \in DOMAIN receiveLoop' : receiveLoop'[k].future = Returned + k
      <4> TAKE k \in DOMAIN receiveLoop'
      <4>1. CASE k <= Len(receiveLoop)
        BY <1>1, <2>1, <4>1 DEF ReceivesNumbered
      <4>2. CASE k > Len(receiveLoop)
        <5>1. k = Len(receiveLoop) + 1 /\ Returned + k = N + 1
          BY SMTT(60), <1>1, <2>1, <2>2, <4>2, Counts
        <5> QED
          BY <2>1, <5>1
      <4> QED
        BY <1>1, <2>1, <4>1, <4>2
    <3>2. \A n \in DOMAIN receives' :
            IF n <= Returned THEN receives'[n] # Rcv!Pending ELSE receives'[n] \in {Rcv!Pending, Rcv!Cancelled}
      BY <1>1, <1>2, Counts DEF ReceivesNumbered
    <3> QED
      BY <2>1, <2>2, <3>1, <3>2, Counts DEF ReceivesNumbered
  <2>4. ToldNext(Rcv!Disconnect, Rcv!Disconnect)
    <3> SUFFICES ASSUME NEW n \in DOMAIN receives'
                 PROVE  EventOf(n)' = IF n <= Dispatched THEN EventOf(n) ELSE Rcv!Disconnect
      BY DEF ToldNext
    <3>1. CASE n <= Returned
      BY <1>1, <1>2, <2>2, <3>1, Counts DEF EventOf
    <3>2. CASE n > Returned /\ n <= Dispatched
      <4>1. n - Returned \in 1..Len(receiveLoop)
        BY <1>1, <1>2, <3>2, Counts
      <4> QED
        BY <1>1, <1>2, <2>1, <2>2, <3>2, <4>1, Counts DEF EventOf
    <3>3. CASE n > Dispatched
      <4>1. n - Returned = Len(receiveLoop) + 1 /\ ~(n <= Returned)
        BY <1>1, <1>2, <2>2, <3>3, Counts
      <4> QED
        BY <1>1, <1>2, <2>1, <2>2, <3>3, <4>1, Counts DEF EventOf
    <3> QED
      BY <1>1, <1>2, <3>1, <3>2, <3>3, Counts
  <2>5. Grows
    BY <1>1, <1>2, <2>2, Counts DEF Grows
  <2> QED
    BY <1>3, <1>4, <2>3, <2>4, <2>5
<1>5. CASE ~recvBridge.closed
  <2>1. /\ receiveLoop' = receiveLoop
        /\ Len(Waiting') = Len(Waiting) + 1 /\ DOMAIN Waiting' = 1..(Len(Waiting) + 1)
        /\ \A k \in 1..Len(Waiting) : Waiting'[k] = Waiting[k]
        /\ Waiting'[Len(Waiting) + 1] = N + 1
    BY <1>5, ReceiveFacts
  <2>2. Returned' = Returned /\ Dispatched' = Dispatched
    BY <1>1, <1>2, <2>1, Counts DEF Returned, Dispatched
  <2>3. \A k \in DOMAIN Waiting' : Waiting'[k] = Returned + Len(receiveLoop) + k
    <3> TAKE k \in DOMAIN Waiting'
    <3>1. CASE k <= Len(Waiting)
      BY <1>1, <2>1, <3>1 DEF ReceivesNumbered
    <3>2. CASE k > Len(Waiting)
      <4>1. k = Len(Waiting) + 1 /\ Returned + Len(receiveLoop) + k = N + 1
        BY <1>1, <2>1, <3>2, Counts
      <4> QED
        BY <2>1, <4>1
    <3> QED
      BY <1>1, <2>1, <3>1, <3>2
  <2>4. ReceivesNumbered'
    <3>1. \A n \in DOMAIN receives' :
            IF n <= Returned THEN receives'[n] # Rcv!Pending ELSE receives'[n] \in {Rcv!Pending, Rcv!Cancelled}
      BY <1>1, <1>2, Counts DEF ReceivesNumbered
    <3> QED
      BY <2>1, <2>2, <2>3, <3>1, Counts DEF ReceivesNumbered
  <2>5. ToldNext(Rcv!Pending, Rcv!Pending)
    BY <1>1, <1>2, <2>1, <2>2, Counts DEF ToldNext, EventOf
  <2>6. Grows
    BY <1>1, <1>2, <2>2, Counts DEF Grows
  <2> QED
    BY <1>3, <1>5, <2>4, <2>5, <2>6
<1> QED
  BY <1>4, <1>5

LEMMA ReceiveEmptyTells ==
  ASSUME Rcv!TypeOK, ReceivesNumbered, RequestStages, Rcv!ReceiveEmpty
  PROVE  /\ ReceivesNumbered' /\ KeepsCancelled /\ Grows
         /\ \/ requestFilter = "live" /\ ToldNext(Rcv!Request(<<>>, FALSE), Rcv!Request(<<>>, FALSE))
            \/ requestFilter # "live" /\ ToldNext(Rcv!Disconnect, Rcv!Disconnect)
<1> DEFINE N == Len(receives)
           event == IF requestFilter = "live" THEN Rcv!Request(<<>>, FALSE) ELSE Rcv!Disconnect
<1>1. /\ N \in Nat /\ DOMAIN receives = 1..N
      /\ receiveLoop = <<>> /\ receiveLoop' = <<>> /\ Waiting = <<>> /\ Waiting' = <<>>
      /\ Len(<<>>) = 0 /\ DOMAIN <<>> = {}
  BY ReceiveLengths DEF RequestStages, Rcv!ReceiveEmpty, Waiting
<1>2. /\ Len(receives') = N + 1 /\ DOMAIN receives' = 1..(N + 1)
      /\ \A n \in 1..N : receives'[n] = receives[n]
      /\ receives'[N + 1] = event
  BY ReceiveEmptyFacts
<1>3. event # Rcv!Pending
  BY DEF Rcv!Request, Rcv!Disconnect, Rcv!Pending, Rcv!NoRequest
<1>4. Returned = N /\ Dispatched = N /\ Returned' = N + 1 /\ Dispatched' = N + 1
  BY <1>1, <1>2 DEF Returned, Dispatched
<1> HIDE DEF event
<1>5. ReceivesNumbered'
  BY <1>1, <1>2, <1>3, <1>4, Counts DEF ReceivesNumbered
<1>6. KeepsCancelled /\ Grows
  BY <1>1, <1>2, <1>4 DEF KeepsCancelled, Rcv!AnyCancelled, Grows
<1>7. ToldNext(event, event)
  BY <1>1, <1>2, <1>4 DEF ToldNext, EventOf
<1> QED
  BY <1>5, <1>6, <1>7 DEF event

\* What the loop brings to a future that was cancelled is lost.
Loses ==
  /\ Rcv!AnyCancelled' /\ DOMAIN receives' = DOMAIN receives
  /\ \A n \in DOMAIN receives' : EventOf(n)' = IF n = Returned + 1 THEN Rcv!Cancelled ELSE EventOf(n)

LEMMA RunTaskTells ==
  ASSUME Rcv!TypeOK, ReceivesNumbered, Rcv!RunTask
  PROVE  ReceivesNumbered' /\ KeepsCancelled /\ Grows /\ (ToldNext(Rcv!Pending, Rcv!Pending) \/ Loses)
<1> DEFINE d == Returned + 1
<1>1. /\ Len(receives) \in Nat /\ DOMAIN receives = 1..Len(receives)
      /\ Len(receiveLoop) \in Nat /\ DOMAIN receiveLoop = 1..Len(receiveLoop) /\ Len(Waiting) \in Nat
      /\ \A k \in DOMAIN receiveLoop : receiveLoop[k] \in ReceiveCompletions
  BY ReceiveLengths
<1>2. /\ d \in DOMAIN receives /\ Len(receiveLoop) \in Nat \ {0} /\ receiveLoop[1].future = d
      /\ Len(receiveLoop') = Len(receiveLoop) - 1 /\ DOMAIN receiveLoop' = 1..(Len(receiveLoop) - 1)
      /\ \A k \in 1..(Len(receiveLoop) - 1) : receiveLoop'[k] = receiveLoop[k + 1]
  BY RunTaskFacts
<1>3. /\ Len(receives') = Len(receives) /\ DOMAIN receives' = DOMAIN receives
      /\ \A m \in DOMAIN receives : m # d => receives'[m] = receives[m]
      /\ \/ receives[d] = Rcv!Pending /\ receives'[d] = receiveLoop[1].event
         \/ receives[d] = Rcv!Cancelled /\ receives'[d] = Rcv!Cancelled
  BY RunTaskFacts
<1>4. Waiting' = Waiting
  BY DEF Rcv!RunTask, Waiting
<1>5. /\ Returned' = d /\ Dispatched' = Dispatched
      /\ Returned \in Nat /\ d \in Nat /\ d = Returned + 1
  <2>1. Returned \in Nat
    BY Counts
  <2>2. Returned' = d
    BY <1>1, <1>2, <1>3, <1>4 DEF Returned
  <2>3. Dispatched' = Returned' + Len(receiveLoop') /\ Dispatched = Returned + Len(receiveLoop)
    BY DEF Dispatched
  <2> QED
    BY <1>1, <1>2, <2>1, <2>2, <2>3
<1> HIDE DEF d
<1>6. receiveLoop[1].event # Rcv!Pending /\ Rcv!Cancelled # Rcv!Pending
  BY SMTT(60), <1>1, <1>2
     DEF ReceiveCompletions, Rcv!Events, Rcv!Pending, Rcv!Cancelled, Rcv!NoRequest
<1>7. ReceivesNumbered'
  <2>1. \A k \in DOMAIN receiveLoop' : receiveLoop'[k].future = d + k
    <3> TAKE k \in DOMAIN receiveLoop'
    <3>1. k + 1 \in DOMAIN receiveLoop /\ receiveLoop'[k] = receiveLoop[k + 1]
      BY <1>1, <1>2
    <3>2. receiveLoop[k + 1].future = Returned + (k + 1)
      BY <3>1 DEF ReceivesNumbered
    <3> QED
      BY <1>1, <1>2, <1>5, <3>1, <3>2
  <2>2. \A k \in DOMAIN Waiting' : Waiting'[k] = d + Len(receiveLoop') + k
    <3> TAKE k \in DOMAIN Waiting'
    <3>1. Waiting[k] = Returned + Len(receiveLoop) + k /\ k \in Nat
      BY <1>4, ReceiveLengths DEF ReceivesNumbered
    <3> QED
      BY <1>1, <1>2, <1>4, <1>5, <3>1
  <2>3. \A n \in DOMAIN receives' :
          IF n <= d THEN receives'[n] # Rcv!Pending ELSE receives'[n] \in {Rcv!Pending, Rcv!Cancelled}
    <3> TAKE n \in DOMAIN receives'
    <3>1. CASE n = d
      BY <1>1, <1>2, <1>3, <1>6, <3>1
    <3>2. CASE n # d
      BY <1>1, <1>3, <1>5, <3>2, Counts
    <3> QED
      BY <3>1, <3>2
  <2>4. Returned' >= 0
    BY <1>5
  <2> QED
    BY <1>5, <2>1, <2>2, <2>3, <2>4 DEF ReceivesNumbered
<1>8. KeepsCancelled
  BY <1>3, <1>6 DEF KeepsCancelled, Rcv!AnyCancelled
<1>9. Grows
  BY <1>1, <1>3, <1>5, Counts DEF Grows
<1>10. \A n \in DOMAIN receives' : n # d => EventOf(n)' = EventOf(n)
  <2> SUFFICES ASSUME NEW n \in DOMAIN receives, n # d
               PROVE  EventOf(n)' = EventOf(n)
    BY <1>3
  <2>1. CASE n <= Returned
    BY <1>1, <1>3, <1>5, <2>1 DEF EventOf
  <2>2. CASE n > Returned /\ n <= Dispatched
    <3>1. /\ n - d \in 1..(Len(receiveLoop) - 1) /\ (n - d) + 1 = n - Returned
          /\ ~(n <= d) /\ ~(n <= Returned)
      BY <1>1, <1>5, <2>2, Counts
    <3>2. EventOf(n)' = receiveLoop'[n - d].event
      BY <1>5, <2>2, <3>1 DEF EventOf
    <3>3. EventOf(n) = receiveLoop[n - Returned].event
      BY <2>2, <3>1 DEF EventOf
    <3> QED
      BY <1>2, <3>1, <3>2, <3>3
  <2>3. CASE n > Dispatched
    <3>1. ~(n <= d) /\ ~(n <= Returned) /\ ~(n <= Dispatched)
      BY <1>1, <1>2, <1>5, <2>3, Counts
    <3> QED
      BY <1>5, <3>1 DEF EventOf
  <2> QED
    BY <1>1, <1>5, <2>1, <2>2, <2>3, Counts
<1>11. EventOf(d) = receiveLoop[1].event /\ d <= Dispatched
  <2>1. ~(d <= Returned) /\ d <= Dispatched /\ d - Returned = 1
    BY <1>1, <1>2, <1>5, Counts
  <2> QED
    BY <2>1 DEF EventOf
<1>12. \A n \in DOMAIN receives' : n = d => EventOf(n)' = receives'[d]
  <2>1. d <= Returned'
    BY <1>5
  <2> QED
    BY <2>1 DEF EventOf
<1>13. CASE receives[d] = Rcv!Pending
  <2>1. \A n \in DOMAIN receives' : EventOf(n)' = EventOf(n)
    BY <1>3, <1>6, <1>10, <1>11, <1>12, <1>13
  <2>2. ToldNext(Rcv!Pending, Rcv!Pending)
    BY <1>3, <2>1, Counts, <1>1 DEF ToldNext
  <2> QED
    BY <1>7, <1>8, <1>9, <2>2
<1>14. CASE receives[d] # Rcv!Pending
  <2>1. receives'[d] = Rcv!Cancelled
    BY <1>3, <1>14
  <2>2. Rcv!AnyCancelled'
    BY <1>2, <1>3, <2>1 DEF Rcv!AnyCancelled
  <2>3. Loses
    BY <1>3, <1>5, <1>10, <1>12, <2>1, <2>2 DEF Loses
  <2> QED
    BY <1>7, <1>8, <1>9, <2>3
<1> QED
  BY <1>13, <1>14

LEMMA CancelTells ==
  ASSUME Rcv!TypeOK, ReceivesNumbered, NEW n \in 1..MaxReceives, Rcv!CancelReceive(n)
  PROVE  ReceivesNumbered' /\ KeepsCancelled /\ Grows /\ ToldNext(Rcv!Pending, Rcv!Pending)
<1>1. /\ Len(receives) \in Nat /\ DOMAIN receives = 1..Len(receives)
      /\ Len(receiveLoop) \in Nat /\ Len(Waiting) \in Nat
  BY ReceiveLengths
<1>2. /\ n \in DOMAIN receives /\ receives[n] = Rcv!Pending
      /\ Len(receives') = Len(receives) /\ DOMAIN receives' = DOMAIN receives
      /\ \A m \in DOMAIN receives : m # n => receives'[m] = receives[m]
      /\ receives'[n] = Rcv!Cancelled
  BY CancelFacts
<1>3. receiveLoop' = receiveLoop /\ Waiting' = Waiting
  BY DEF Rcv!CancelReceive, Waiting
<1>4. Returned' = Returned /\ Dispatched' = Dispatched
  BY <1>2, <1>3 DEF Returned, Dispatched
<1>5. n > Returned
  BY <1>1, <1>2, Counts
<1>6. ReceivesNumbered'
  <2>1. \A m \in DOMAIN receives' :
          IF m <= Returned THEN receives'[m] # Rcv!Pending ELSE receives'[m] \in {Rcv!Pending, Rcv!Cancelled}
    BY <1>1, <1>2, <1>5, Counts
  <2> QED
    BY <1>3, <1>4, <2>1 DEF ReceivesNumbered
<1>7. KeepsCancelled /\ Grows
  BY <1>1, <1>2, <1>4, Counts DEF KeepsCancelled, Rcv!AnyCancelled, Grows
<1>8. ToldNext(Rcv!Pending, Rcv!Pending)
  <2>1. \A m \in DOMAIN receives : m <= Returned => receives'[m] = receives[m]
    BY <1>1, <1>2, <1>5, Counts
  <2> QED
    BY <1>1, <1>2, <1>3, <1>4, <2>1, Counts DEF ToldNext, EventOf
<1> QED
  BY <1>6, <1>7, <1>8

-----------------------------------------------------------------------------
(* Every step is of one of five kinds.                                     *)

Over == requestFilter \in {"complete", "dropped"}
Onwards == (Over => Over') /\ (requestFilter = "dropped" => requestFilter' = "dropped")

\* A step that tells nothing.
Steady ==
  /\ ToldNext(Rcv!Pending, Rcv!Pending)
  /\ arrived' = arrived /\ (requestClosed => requestClosed')
  /\ Onwards
  /\ \/ buffered' = buffered /\ (requestFilter' = "dropped" => requestFilter = "dropped")
     \/ buffered' = <<>> /\ requestFilter' = "dropped"

\* A step that tells the next futures an event without bytes.
Tells(event) ==
  /\ ToldNext(event, event)
  /\ UNCHANGED <<arrived, buffered, requestClosed>>
  /\ Onwards
  /\ requestFilter' = "dropped" => requestFilter = "dropped"
  /\ \/ event = Rcv!Disconnect /\ Over'
     \/ event = Rcv!Request(<<>>, FALSE) /\ ~Over /\ requestClosed /\ arrived = 0

Misses == Loses /\ UNCHANGED <<arrived, buffered, requestClosed, requestFilter>>

\* Steps that receive bytes, and keep them or hand them over.
Receives(received, ended) ==
  /\ \A k \in 1..Len(received) : received[k] = arrived + k
  /\ arrived' = arrived + Len(received)
  /\ requestClosed => ended /\ received = <<>>
  /\ requestClosed' = ended
  /\ requestFilter' = requestFilter

Keeping(received, ended) ==
  /\ Receives(received, ended)
  /\ ToldNext(Rcv!Pending, Rcv!Pending) /\ buffered' = buffered \o received

Handing(received, ended) ==
  /\ Receives(received, ended) /\ ~Over
  /\ ToldNext(Rcv!Request(buffered \o received, ~ended), Rcv!Request(<<>>, ~ended))
  /\ buffered' = <<>>
  /\ Dispatched + 1 \in DOMAIN receives' /\ Dispatched' = Len(receives')

Kinds ==
  \/ Steady \/ Misses
  \/ \E event \in {Rcv!Disconnect, Rcv!Request(<<>>, FALSE)} : Tells(event)
  \/ \E received \in Seq(1..MaxBody), ended \in BOOLEAN :
       Keeping(received, ended) \/ Handing(received, ended)

LEMMA StepKinds ==
  ASSUME Rcv!TypeOK, RequestStages, ReceivesNumbered, [Rcv!Next]_(Rcv!vars)
  PROVE  ReceivesNumbered' /\ KeepsCancelled /\ Grows /\ Kinds
<1>1. ASSUME NEW endOfStream \in BOOLEAN, Rcv!OnRequestHeaders(endOfStream)
      PROVE  ReceivesNumbered' /\ KeepsCancelled /\ Grows /\ Steady
  BY <1>1, QuietTells DEF Rcv!OnRequestHeaders, Steady, Onwards, Over, RequestStages
<1>2. ASSUME HandleReads PROVE ReceivesNumbered' /\ KeepsCancelled /\ Grows /\ Kinds
  <2>1. PICK received \in Seq(1..MaxBody), ended \in BOOLEAN : Reads(received, ended)
    BY <1>2, ReadSteps
  <2>2. Receives(received, ended) /\ receives' = receives
    BY <2>1 DEF Reads, Receives
  <2>3. CASE Keeps(buffered \o received)
    <3>1. ReceivesNumbered' /\ KeepsCancelled /\ Grows /\ ToldNext(Rcv!Pending, Rcv!Pending)
      BY <2>2, <2>3, QuietTells DEF Keeps
    <3>2. Keeping(received, ended)
      BY <2>2, <2>3, <3>1 DEF Keeping, Keeps
    <3> QED
      BY <3>1, <3>2 DEF Kinds
  <2>4. CASE Answers(buffered \o received, ended)
    <3>1. /\ ReceivesNumbered' /\ KeepsCancelled /\ Grows
          /\ ToldNext(Rcv!Request(buffered \o received, ~ended), Rcv!Request(<<>>, ~ended))
          /\ Dispatched' = Len(receives')
      BY <2>2, <2>4, AnswersTells
    <3>2. Waiting # <<>> /\ buffered' = <<>>
      BY <2>4 DEF Answers
    <3>3. ~recvBridge.closed
      BY <3>2 DEF Rcv!TypeOK, Rcv!Bridges, Waiting
    <3>4. ~Over
      BY <3>3 DEF RequestStages, Over
    <3>5. Len(Waiting) \in Nat \ {0} /\ DOMAIN receives = 1..Len(receives)
      BY <3>2, ReceiveLengths, EmptySeq
    <3>6. Dispatched + 1 \in DOMAIN receives'
      BY <2>2, <3>5, Counts
    <3>7. Handing(received, ended)
      BY <2>2, <3>1, <3>2, <3>4, <3>6 DEF Handing
    <3> QED
      BY <3>1, <3>7 DEF Kinds
  <2> QED
    BY <2>1, <2>3, <2>4 DEF Reads
<1>3. ASSUME Rcv!OnStreamComplete PROVE ReceivesNumbered' /\ KeepsCancelled /\ Grows /\ Tells(Rcv!Disconnect)
  <2>1. ReceivesNumbered' /\ KeepsCancelled /\ Grows /\ ToldNext(Rcv!Disconnect, Rcv!Disconnect)
    BY <1>3, OnStreamCompleteTells
  <2> QED
    BY <1>3, <2>1 DEF Rcv!OnStreamComplete, Tells, Onwards, Over
<1>4. ASSUME Rcv!Drop PROVE ReceivesNumbered' /\ KeepsCancelled /\ Grows /\ Steady
  BY <1>4, QuietTells DEF Rcv!Drop, Steady, Onwards, Over
<1>5. ASSUME Rcv!Receive PROVE ReceivesNumbered' /\ KeepsCancelled /\ Grows /\ (Steady \/ Tells(Rcv!Disconnect))
  <2>1. UNCHANGED <<arrived, buffered, requestFilter, requestClosed>>
    BY <1>5 DEF Rcv!Receive, Rcv!envoyVars
  <2>2. recvBridge.closed => Over
    BY DEF RequestStages, Over
  <2>3. /\ ReceivesNumbered' /\ KeepsCancelled /\ Grows
        /\ \/ recvBridge.closed /\ ToldNext(Rcv!Disconnect, Rcv!Disconnect)
           \/ ~recvBridge.closed /\ ToldNext(Rcv!Pending, Rcv!Pending)
    BY <1>5, ReceiveTells
  <2>4. Steady \/ Tells(Rcv!Disconnect)
    BY <2>1, <2>2, <2>3 DEF Steady, Tells, Onwards, Over
  <2> QED
    BY <2>3, <2>4
<1>6. ASSUME Rcv!Commit PROVE ReceivesNumbered' /\ KeepsCancelled /\ Grows /\ Steady
  BY <1>6, QuietTells DEF Rcv!Commit, Steady, Onwards, Over, Rcv!envoyVars
<1>7. ASSUME Rcv!ReceiveEmpty
      PROVE  /\ ReceivesNumbered' /\ KeepsCancelled /\ Grows
             /\ Tells(Rcv!Disconnect) \/ Tells(Rcv!Request(<<>>, FALSE))
  <2>1. UNCHANGED <<arrived, buffered, requestFilter, requestClosed>> /\ empty /\ requestFilter # "new"
    BY <1>7 DEF Rcv!ReceiveEmpty, Rcv!envoyVars
  <2>2. requestClosed /\ arrived = 0
    BY <2>1 DEF RequestStages
  <2>3. requestFilter = "live" \/ Over
    BY <2>1 DEF Over, Rcv!TypeOK
  <2>4. /\ ReceivesNumbered' /\ KeepsCancelled /\ Grows
        /\ \/ requestFilter = "live" /\ ToldNext(Rcv!Request(<<>>, FALSE), Rcv!Request(<<>>, FALSE))
           \/ requestFilter # "live" /\ ToldNext(Rcv!Disconnect, Rcv!Disconnect)
    BY <1>7, ReceiveEmptyTells
  <2>5. CASE requestFilter = "live"
    BY <2>1, <2>2, <2>4, <2>5 DEF Tells, Onwards, Over
  <2>6. CASE requestFilter # "live"
    BY <2>1, <2>3, <2>4, <2>6 DEF Tells, Onwards, Over
  <2> QED
    BY <2>4, <2>5, <2>6
<1>8. ASSUME NEW n \in 1..MaxReceives, Rcv!CancelReceive(n)
      PROVE  ReceivesNumbered' /\ KeepsCancelled /\ Grows /\ Steady
  BY <1>8, CancelTells DEF Rcv!CancelReceive, Steady, Onwards, Over, Rcv!envoyVars
<1>9. ASSUME Rcv!RunTask PROVE ReceivesNumbered' /\ KeepsCancelled /\ Grows /\ (Steady \/ Misses)
  <2>1. ReceivesNumbered' /\ KeepsCancelled /\ Grows /\ (ToldNext(Rcv!Pending, Rcv!Pending) \/ Loses)
    BY <1>9, RunTaskTells
  <2>2. UNCHANGED <<arrived, buffered, requestFilter, requestClosed>>
    BY <1>9 DEF Rcv!RunTask, Rcv!envoyVars
  <2> QED
    BY <2>1, <2>2 DEF Steady, Misses, Onwards, Over
<1>10. ASSUME UNCHANGED Rcv!vars PROVE ReceivesNumbered' /\ KeepsCancelled /\ Grows /\ Steady
  BY <1>10, QuietTells DEF Rcv!vars, Rcv!envoyVars, Steady, Onwards, Over
<1>11. ASSUME Rcv!Terminated PROVE ReceivesNumbered' /\ KeepsCancelled /\ Grows /\ Steady
  BY <1>10, <1>11 DEF Rcv!Terminated
<1> QED
  BY <1>1, <1>2, <1>3, <1>4, <1>5, <1>6, <1>7, <1>8, <1>9, <1>10, <1>11
     DEF Rcv!Next, Kinds, HandleReads

-----------------------------------------------------------------------------
(* What is told stays true.                                                *)

LEMMA Empty ==
  /\ Range(<<>>) = {} /\ Rcv!Increasing(<<>>)
  /\ \A s : Rcv!Before(<<>>, s) /\ Rcv!Before(s, <<>>)
<1>1. DOMAIN <<>> = {}
  OBVIOUS
<1> QED
  BY <1>1 DEF Range, Rcv!Increasing, Rcv!Before

LEMMA ToldFacts ==
  ASSUME Rcv!TypeOK, ReceivesNumbered
  PROVE  /\ \A n \in DOMAIN receives : EventOf(n).body \in Seq(1..MaxBody)
         /\ \A n \in DOMAIN receives : n > Dispatched => EventOf(n) = Rcv!Pending
         /\ Rcv!Pending.body = <<>> /\ Rcv!Cancelled.body = <<>> /\ Rcv!Disconnect.body = <<>>
         /\ ~EndsBody(Rcv!Pending) /\ ~EndsBody(Rcv!Cancelled) /\ ~EndsBody(Rcv!Disconnect)
         /\ Rcv!Pending # Rcv!Disconnect /\ Rcv!Cancelled # Rcv!Disconnect
<1>1. <<>> \in Seq(1..MaxBody)
  OBVIOUS
<1>2. /\ Rcv!Pending.body = <<>> /\ Rcv!Cancelled.body = <<>> /\ Rcv!Disconnect.body = <<>>
      /\ ~EndsBody(Rcv!Pending) /\ ~EndsBody(Rcv!Cancelled) /\ ~EndsBody(Rcv!Disconnect)
      /\ Rcv!Pending # Rcv!Disconnect /\ Rcv!Cancelled # Rcv!Disconnect
  BY DEF Rcv!Pending, Rcv!Cancelled, Rcv!Disconnect, Rcv!NoRequest, EndsBody
<1>3. ASSUME NEW n \in DOMAIN receives PROVE EventOf(n).body \in Seq(1..MaxBody)
  <2>1. CASE n <= Returned
    <3>1. receives[n] \in Rcv!Events \cup {Rcv!Pending, Rcv!Cancelled}
      BY ReceiveLengths
    <3> QED
      BY <1>1, <1>2, <2>1, <3>1 DEF EventOf, Rcv!Events
  <2>2. CASE n > Returned /\ n <= Dispatched
    <3>1. n - Returned \in DOMAIN receiveLoop /\ ~(n <= Returned)
      BY <2>2, Counts, ReceiveLengths
    <3>2. receiveLoop[n - Returned].event \in Rcv!Events
      BY <3>1, ReceiveLengths DEF ReceiveCompletions
    <3> QED
      BY <2>2, <3>1, <3>2 DEF EventOf, Rcv!Events
  <2>3. CASE n > Dispatched
    BY <1>1, <1>2, <2>3, Counts
  <2> QED
    BY <2>1, <2>2, <2>3, Counts
<1> QED
  BY <1>2, <1>3, Counts

\* What was dispatched before is still told, to the same futures.
Lasts ==
  \A n \in DOMAIN receives : n <= Dispatched => n \in DOMAIN receives' /\ EventOf(n)' = EventOf(n)

LEMMA ToldStays ==
  ASSUME Rcv!TypeOK, ReceivesNumbered, Grows, Lasts
  PROVE  /\ \A b, n : ToldUpTo(b, n) => ToldUpTo(b, n)'
         /\ \A b : ToldUpTo(b, Dispatched) => ToldUpTo(b, Dispatched)'
<1>1. \A b : b \notin Range(Rcv!Pending.body)
  BY ToldFacts, Empty
<1>2. \A b, n : ToldUpTo(b, n) =>
        \E m \in DOMAIN receives : m <= n /\ m <= Dispatched /\ b \in Range(EventOf(m).body)
  BY <1>1, Counts DEF ToldUpTo
<1>3. \A b, n : ToldUpTo(b, n) =>
        \E m \in DOMAIN receives' : m <= n /\ m <= Dispatched /\ b \in Range(EventOf(m).body')
  BY <1>2 DEF Lasts
<1>4. \A b, n : ToldUpTo(b, n) => ToldUpTo(b, n)'
  BY <1>3 DEF ToldUpTo
<1>5. ASSUME NEW b, ToldUpTo(b, Dispatched) PROVE ToldUpTo(b, Dispatched)'
  <2>1. PICK m \in DOMAIN receives' : m <= Dispatched /\ b \in Range(EventOf(m).body')
    BY <1>3, <1>5
  <2>2. m <= Dispatched'
    BY <2>1, Counts DEF Grows
  <2> QED
    BY <2>1, <2>2 DEF ToldUpTo
<1> QED
  BY <1>4, <1>5

LEMMA NextLasts ==
  ASSUME Rcv!TypeOK, ReceivesNumbered, Grows, NEW first, NEW others, ToldNext(first, others)
  PROVE  /\ Lasts
         /\ \A n \in DOMAIN receives' : n <= Dispatched => n \in DOMAIN receives
         /\ \A n \in DOMAIN receives' : n > Dispatched => EventOf(n)' \in {first, others}
         /\ \A n \in DOMAIN receives' : n \in Nat /\ Dispatched \in Nat
<1>1. \A n \in DOMAIN receives' : n \in Nat /\ 1 <= n /\ Dispatched \in Nat
  BY Counts DEF Grows
<1>2. DOMAIN receives = 1..Len(receives) /\ Dispatched <= Len(receives)
      /\ Len(receives) \in Nat
  BY Counts, ReceiveLengths
<1> QED
  BY <1>1, <1>2 DEF Lasts, ToldNext, Grows

\* A step that neither receives nor moves bytes.
Uneventful ==
  /\ arrived' = arrived /\ buffered' \in {buffered, <<>>}
  /\ \A n \in DOMAIN receives' :
       \/ EventOf(n)'.body = <<>>
       \/ n \in DOMAIN receives /\ EventOf(n)'.body = EventOf(n).body
  /\ requestFilter' # "dropped" /\ ~Rcv!AnyCancelled' =>
       buffered' = buffered /\ Lasts /\ requestFilter # "dropped"

LEMMA UneventfulBytes ==
  ASSUME Rcv!TypeOK, ReceivesNumbered, BytesInOrder, BytesArrived, KeepsCancelled, Grows, Uneventful
  PROVE  BytesInOrder' /\ BytesArrived'
<1>1. \A n \in DOMAIN receives' :
        /\ Rcv!Increasing(EventOf(n)'.body)
        /\ Rcv!Before(EventOf(n)'.body, buffered')
        /\ Range(EventOf(n)'.body) \subseteq 1..arrived
  BY Empty DEF Uneventful, BytesInOrder, BytesArrived
<1>2. \A n, m \in DOMAIN receives' : n < m => Rcv!Before(EventOf(n)'.body, EventOf(m)'.body)
  BY Empty DEF Uneventful, BytesInOrder
<1>3. Rcv!Increasing(buffered') /\ Range(buffered') \subseteq 1..arrived
  BY Empty DEF Uneventful, BytesInOrder, BytesArrived
<1>4. BytesInOrder'
  BY <1>1, <1>2, <1>3 DEF BytesInOrder
<1>5. ASSUME requestFilter' # "dropped", ~Rcv!AnyCancelled', NEW b \in 1..arrived
      PROVE  ToldUpTo(b, Dispatched)' \/ b \in Range(buffered')
  <2>1. buffered' = buffered /\ Lasts /\ requestFilter # "dropped" /\ ~Rcv!AnyCancelled
    BY <1>5 DEF Uneventful, KeepsCancelled
  <2>2. ToldUpTo(b, Dispatched) \/ b \in Range(buffered)
    BY <2>1 DEF BytesArrived
  <2> QED
    BY <2>1, <2>2, ToldStays
<1>6. BytesArrived'
  BY <1>1, <1>3, <1>5 DEF Uneventful, BytesArrived
<1> QED
  BY <1>4, <1>6

LEMMA UneventfulKinds ==
  ASSUME Rcv!TypeOK, ReceivesNumbered, Grows,
         \/ Steady \/ Misses
         \/ \E event \in {Rcv!Disconnect, Rcv!Request(<<>>, FALSE)} : Tells(event)
  PROVE  Uneventful
<1>1. /\ Rcv!Pending.body = <<>> /\ Rcv!Cancelled.body = <<>> /\ Rcv!Disconnect.body = <<>>
      /\ Rcv!Request(<<>>, FALSE).body = <<>>
  BY ToldFacts DEF Rcv!Request
<1>2. ASSUME NEW event \in {Rcv!Pending, Rcv!Disconnect, Rcv!Request(<<>>, FALSE)},
             ToldNext(event, event)
      PROVE  /\ Lasts
             /\ \A n \in DOMAIN receives' :
                  \/ EventOf(n)'.body = <<>>
                  \/ n \in DOMAIN receives /\ EventOf(n)'.body = EventOf(n).body
  <2>1. event.body = <<>>
    BY <1>1
  <2> QED
    BY <1>2, <2>1, NextLasts DEF ToldNext
<1>3. CASE Steady
  BY <1>2, <1>3 DEF Steady, Onwards, Uneventful
<1>4. CASE Misses
  <2>1. \A n \in DOMAIN receives' :
          \/ EventOf(n)'.body = <<>>
          \/ n \in DOMAIN receives /\ EventOf(n)'.body = EventOf(n).body
    BY <1>1, <1>4 DEF Misses, Loses
  <2> QED
    BY <1>4, <2>1 DEF Misses, Loses, Uneventful
<1>5. ASSUME NEW event \in {Rcv!Disconnect, Rcv!Request(<<>>, FALSE)}, Tells(event)
      PROVE  Uneventful
  BY <1>2, <1>5 DEF Tells, Onwards, Uneventful
<1> QED
  BY <1>3, <1>4, <1>5

\* The bytes of the buffer and those received now.
Available(s) ==
  /\ s \in Seq(1..MaxBody) /\ Rcv!Increasing(s) /\ Range(s) \subseteq 1..arrived'
  /\ \A b \in Range(buffered) : b \in Range(s)
  /\ \A b \in 1..arrived' : b > arrived => b \in Range(s)
  /\ \A t \in Seq(1..MaxBody) :
       Range(t) \subseteq 1..arrived /\ Rcv!Before(t, buffered) => Rcv!Before(t, s)

LEMMA ReceivedBytes ==
  ASSUME Rcv!TypeOK, BytesInOrder, BytesArrived,
         NEW received \in Seq(1..MaxBody), NEW ended, Receives(received, ended)
  PROVE  Available(buffered \o received) /\ arrived \in Nat /\ arrived' \in Nat
         /\ arrived <= arrived' /\ 1..arrived \subseteq 1..arrived'
<1> DEFINE s == buffered \o received
           B == Len(buffered)
           R == Len(received)
<1>1. /\ arrived \in Nat /\ B \in Nat /\ R \in Nat /\ arrived' = arrived + R
      /\ buffered \in Seq(1..MaxBody) /\ DOMAIN buffered = 1..B
      /\ DOMAIN received = 1..R
  BY ReceiveBounds, LenProperties DEF Rcv!TypeOK, Receives
<1>2. /\ s \in Seq(1..MaxBody) /\ DOMAIN s = 1..(B + R)
      /\ \A k \in 1..B : s[k] = buffered[k]
      /\ \A k \in 1..R : s[B + k] = received[k]
  BY <1>1, ConcatFacts
<1>3. \A k \in 1..R : received[k] = arrived + k
  BY DEF Receives
<1>4. /\ \A k \in 1..B : buffered[k] \in 1..arrived
      /\ \A j, k \in 1..B : j < k => buffered[j] < buffered[k]
  BY <1>1 DEF BytesArrived, BytesInOrder, Rcv!Increasing, Range
<1> HIDE DEF s, B, R
<1>5. \A k \in 1..(B + R) :
        \/ k \in 1..B /\ s[k] = buffered[k]
        \/ k > B /\ k - B \in 1..R /\ s[k] = arrived + (k - B)
  <2> TAKE k \in 1..(B + R)
  <2>1. CASE k <= B
    BY <1>1, <1>2, <2>1
  <2>2. CASE k > B
    <3>1. k - B \in 1..R /\ B + (k - B) = k
      BY <1>1, <2>2
    <3>2. s[B + (k - B)] = received[k - B] /\ received[k - B] = arrived + (k - B)
      BY <1>2, <1>3, <3>1
    <3> QED
      BY <2>2, <3>1, <3>2
  <2> QED
    BY <1>1, <2>1, <2>2
<1>6. Rcv!Increasing(s)
  <2> SUFFICES ASSUME NEW j \in 1..(B + R), NEW k \in 1..(B + R), j < k
               PROVE  s[j] < s[k]
    BY <1>2 DEF Rcv!Increasing
  <2>1. CASE k \in 1..B
    <3>1. j \in 1..B
      BY <1>1, <2>1
    <3> QED
      BY <1>2, <1>4, <2>1, <3>1
  <2>2. CASE k > B /\ s[k] = arrived + (k - B)
    <3>1. CASE j \in 1..B /\ s[j] = buffered[j]
      <4>1. s[j] \in 1..arrived
        BY <1>4, <3>1
      <4> QED
        BY <1>1, <2>2, <4>1
    <3>2. CASE s[j] = arrived + (j - B)
      BY <1>1, <2>2, <3>2
    <3> QED
      BY <1>5, <3>1, <3>2
  <2> QED
    BY <1>5, <2>1, <2>2
<1>7. \A k \in 1..(B + R) : s[k] \in 1..(arrived + R)
  <2> TAKE k \in 1..(B + R)
  <2>1. CASE k \in 1..B /\ s[k] = buffered[k]
    <3>1. s[k] \in 1..arrived
      BY <1>4, <2>1
    <3> QED
      BY <1>1, <3>1
  <2>2. CASE k - B \in 1..R /\ s[k] = arrived + (k - B)
    BY <1>1, <2>2
  <2> QED
    BY <1>5, <2>1, <2>2
<1>8. Range(s) \subseteq 1..arrived'
  BY <1>1, <1>2, <1>7 DEF Range
<1>9. \A b \in Range(buffered) : b \in Range(s)
  <2>1. \A k \in 1..B : k \in 1..(B + R) /\ s[k] = buffered[k]
    BY <1>1, <1>2
  <2> QED
    BY <1>1, <1>2, <2>1 DEF Range
<1>10. ASSUME NEW b \in 1..arrived', b > arrived PROVE b \in Range(s)
  <2>1. b - arrived \in 1..R /\ B + (b - arrived) \in 1..(B + R)
    BY <1>1, <1>10
  <2>2. s[B + (b - arrived)] = b
    <3>1. s[B + (b - arrived)] = received[b - arrived]
      BY <1>2, <2>1
    <3>2. received[b - arrived] = arrived + (b - arrived)
      BY <1>3, <2>1
    <3> QED
      BY <1>1, <3>1, <3>2, <1>10
  <2> QED
    BY <1>2, <2>1, <2>2 DEF Range
<1>11. ASSUME NEW t \in Seq(1..MaxBody), Range(t) \subseteq 1..arrived, Rcv!Before(t, buffered)
       PROVE  Rcv!Before(t, s)
  <2> SUFFICES ASSUME NEW j \in DOMAIN t, NEW k \in 1..(B + R) PROVE t[j] < s[k]
    BY <1>2 DEF Rcv!Before
  <2>1. t[j] \in 1..arrived
    BY <1>11 DEF Range
  <2>2. CASE k \in 1..B /\ s[k] = buffered[k]
    BY <1>1, <1>11, <2>2 DEF Rcv!Before
  <2>3. CASE k - B \in 1..R /\ s[k] = arrived + (k - B)
    BY <1>1, <2>1, <2>3
  <2> QED
    BY <1>5, <2>2, <2>3
<1>12. Available(s)
  BY <1>2, <1>6, <1>8, <1>9, <1>10, <1>11 DEF Available
<1> QED
  BY <1>1, <1>12 DEF s

LEMMA KeepingBytes ==
  ASSUME Rcv!TypeOK, ReceivesNumbered, BytesInOrder, BytesArrived, KeepsCancelled, Grows,
         NEW received \in Seq(1..MaxBody), NEW ended, Keeping(received, ended)
  PROVE  BytesInOrder' /\ BytesArrived'
<1>1. /\ Available(buffered') /\ arrived \in Nat /\ arrived' \in Nat
      /\ 1..arrived \subseteq 1..arrived'
  BY ReceivedBytes DEF Keeping
<1>2. \A n \in DOMAIN receives' :
        \/ EventOf(n)'.body = <<>>
        \/ n \in DOMAIN receives /\ EventOf(n)'.body = EventOf(n).body
  BY NextLasts, ToldFacts DEF Keeping, ToldNext
<1>3. \A n \in DOMAIN receives' :
        /\ Rcv!Increasing(EventOf(n)'.body)
        /\ Rcv!Before(EventOf(n)'.body, buffered')
        /\ Range(EventOf(n)'.body) \subseteq 1..arrived'
  BY <1>1, <1>2, Empty, ToldFacts DEF Available, BytesInOrder, BytesArrived
<1>4. \A n, m \in DOMAIN receives' : n < m => Rcv!Before(EventOf(n)'.body, EventOf(m)'.body)
  BY <1>2, Empty DEF BytesInOrder
<1>5. BytesInOrder'
  BY <1>1, <1>3, <1>4 DEF BytesInOrder, Available
<1>6. ASSUME requestFilter' # "dropped", ~Rcv!AnyCancelled', NEW b \in 1..arrived'
      PROVE  ToldUpTo(b, Dispatched)' \/ b \in Range(buffered')
  <2>1. CASE b \in 1..arrived
    <3>1. requestFilter # "dropped" /\ ~Rcv!AnyCancelled
      BY <1>6 DEF Keeping, Receives, KeepsCancelled
    <3>2. ToldUpTo(b, Dispatched) \/ b \in Range(buffered)
      BY <2>1, <3>1 DEF BytesArrived
    <3>3. Lasts
      BY NextLasts DEF Keeping
    <3> QED
      BY <1>1, <3>2, <3>3, ToldStays DEF Available
  <2>2. CASE b > arrived
    BY <1>1, <2>2 DEF Available
  <2> QED
    BY <1>1, <2>1, <2>2
<1>7. BytesArrived'
  BY <1>1, <1>3, <1>6 DEF BytesArrived, Available
<1> QED
  BY <1>5, <1>7

LEMMA HandingBytes ==
  ASSUME Rcv!TypeOK, ReceivesNumbered, BytesInOrder, BytesArrived, KeepsCancelled, Grows,
         NEW received \in Seq(1..MaxBody), NEW ended, Handing(received, ended)
  PROVE  BytesInOrder' /\ BytesArrived'
<1> DEFINE s == buffered \o received
           f == Dispatched + 1
<1>1. /\ Available(s) /\ arrived \in Nat /\ arrived' \in Nat
      /\ 1..arrived \subseteq 1..arrived'
  BY ReceivedBytes DEF Handing
<1>2. /\ \A c, e : Rcv!Request(c, e).body = c
      /\ ToldNext(Rcv!Request(s, ~ended), Rcv!Request(<<>>, ~ended))
  BY DEF Rcv!Request, Handing
<1>3. Lasts /\ f \in DOMAIN receives' /\ f \in Nat /\ Dispatched \in Nat
      /\ f <= Len(receives')
  BY <1>2, NextLasts, Counts DEF Handing, Grows
<1>4. \A n \in DOMAIN receives' :
        /\ n < f => n \in DOMAIN receives /\ EventOf(n)'.body = EventOf(n).body
        /\ n = f => EventOf(n)'.body = s
        /\ n > f => EventOf(n)'.body = <<>>
  <2> TAKE n \in DOMAIN receives'
  <2>1. n \in Nat /\ (n <= Dispatched => n \in DOMAIN receives)
    BY <1>2, NextLasts
  <2>2. CASE n < f
    BY <1>2, <1>3, <2>1, <2>2 DEF ToldNext
  <2>3. CASE n = f
    <3>0. ~(n <= Dispatched) /\ n = Dispatched + 1
      BY <1>3, <2>3
    <3>1. EventOf(n)' = Rcv!Request(s, ~ended)
      BY <1>2, <3>0 DEF ToldNext
    <3>2. EventOf(n)'.body = s
      BY <1>2, <3>1
    <3> QED
      BY <1>3, <2>1, <2>3, <3>2
  <2>4. CASE n > f
    <3>1. EventOf(n)' = Rcv!Request(<<>>, ~ended)
      BY <1>2, <1>3, <2>1, <2>4 DEF ToldNext
    <3> QED
      BY <1>2, <1>3, <2>1, <2>4, <3>1
  <2> QED
    BY <1>3, <2>1, <2>2, <2>3, <2>4
<1> HIDE DEF s, f
<1>5. \A n \in DOMAIN receives' : n \in Nat
  BY DEF Grows
<1>6. \A n \in DOMAIN receives' :
        /\ Rcv!Increasing(EventOf(n)'.body)
        /\ Range(EventOf(n)'.body) \subseteq 1..arrived'
  <2> TAKE n \in DOMAIN receives'
  <2>1. CASE n < f
    BY <1>1, <1>4, <2>1 DEF BytesInOrder, BytesArrived
  <2>2. CASE n = f
    BY <1>1, <1>4, <2>2 DEF Available
  <2>3. CASE n > f
    BY <1>4, <2>3, Empty
  <2> QED
    BY <1>3, <1>5, <2>1, <2>2, <2>3
<1>7. \A n, m \in DOMAIN receives' : n < m => Rcv!Before(EventOf(n)'.body, EventOf(m)'.body)
  <2> TAKE n, m \in DOMAIN receives'
  <2> HAVE n < m
  <2>1. CASE m < f
    <3>1. n < f
      BY <1>3, <1>5, <2>1
    <3> QED
      BY <1>4, <2>1, <3>1 DEF BytesInOrder
  <2>2. CASE m = f
    <3>1. n \in DOMAIN receives /\ EventOf(n)'.body = EventOf(n).body /\ EventOf(m)'.body = s
      BY <1>4, <2>2
    <3>2. /\ EventOf(n).body \in Seq(1..MaxBody)
          /\ Range(EventOf(n).body) \subseteq 1..arrived
          /\ Rcv!Before(EventOf(n).body, buffered)
      BY <3>1, ToldFacts DEF BytesArrived, BytesInOrder
    <3> QED
      BY <1>1, <3>1, <3>2 DEF Available
  <2>3. CASE m > f
    BY <1>4, <2>3, Empty
  <2> QED
    BY <1>3, <1>5, <2>1, <2>2, <2>3
<1>8. buffered' = <<>>
  BY DEF Handing
<1>9. BytesInOrder'
  BY <1>6, <1>7, <1>8, Empty DEF BytesInOrder
<1>10. ASSUME NEW b \in Range(s) PROVE ToldUpTo(b, Dispatched)'
  <2>1. f <= Dispatched'
    BY <1>3 DEF Handing
  <2>2. \A n : n = f => n \in DOMAIN receives' /\ n <= Dispatched' /\ b \in Range(EventOf(n)'.body)
    BY <1>3, <1>4, <1>10, <2>1
  <2> QED
    BY <2>2 DEF ToldUpTo
<1>11. ASSUME requestFilter' # "dropped", ~Rcv!AnyCancelled', NEW b \in 1..arrived'
       PROVE  ToldUpTo(b, Dispatched)'
  <2>1. CASE b \in 1..arrived
    <3>1. requestFilter # "dropped" /\ ~Rcv!AnyCancelled
      BY <1>11 DEF Handing, Receives, KeepsCancelled
    <3>2. ToldUpTo(b, Dispatched) \/ b \in Range(buffered)
      BY <2>1, <3>1 DEF BytesArrived
    <3> QED
      BY <1>1, <1>3, <1>10, <3>2, ToldStays DEF Available
  <2>2. CASE b > arrived
    BY <1>1, <1>10, <2>2 DEF Available
  <2> QED
    BY <1>1, <2>1, <2>2
<1>12. BytesArrived'
  BY <1>6, <1>8, <1>11, Empty DEF BytesArrived
<1> QED
  BY <1>9, <1>12

\* An end that was told before stays true.
LEMMA EndsStay ==
  ASSUME Rcv!TypeOK, ReceivesNumbered, EndsAreTrue, KeepsCancelled, Grows, Lasts,
         requestClosed => requestClosed' /\ arrived' = arrived
  PROVE  \A n \in DOMAIN receives : n <= Dispatched /\ EndsBody(EventOf(n)) =>
           /\ requestClosed'
           /\ Rcv!AnyCancelled' \/ \A b \in 1..arrived' : ToldUpTo(b, n)'
<1> SUFFICES ASSUME NEW n \in DOMAIN receives, EndsBody(EventOf(n)), ~Rcv!AnyCancelled'
             PROVE  requestClosed /\ \A b \in 1..arrived : ToldUpTo(b, n)'
  BY DEF EndsAreTrue
<1>1. requestClosed /\ \A b \in 1..arrived : ToldUpTo(b, n)
  BY DEF EndsAreTrue, KeepsCancelled
<1> QED
  BY <1>1, ToldStays

LEMMA KindsEnd ==
  ASSUME Rcv!TypeOK, ReceivesNumbered, BytesInOrder, BytesArrived, EndsAreTrue, KeepsCancelled, Grows,
         Kinds
  PROVE  EndsAreTrue'
<1> USE DEF Onwards
<1>1. ASSUME NEW first, NEW others, ToldNext(first, others),
             requestClosed => requestClosed' /\ arrived' = arrived,
             \A n \in DOMAIN receives' : n > Dispatched /\ EndsBody(EventOf(n)') =>
                /\ requestClosed'
                /\ Rcv!AnyCancelled' \/ \A b \in 1..arrived' : ToldUpTo(b, n)'
      PROVE  EndsAreTrue'
  <2>1. ASSUME NEW n \in DOMAIN receives', n <= Dispatched, EndsBody(EventOf(n)')
        PROVE  /\ requestClosed'
               /\ Rcv!AnyCancelled' \/ \A b \in 1..arrived' : ToldUpTo(b, n)'
    <3>1. n \in DOMAIN receives /\ Lasts
      BY <1>1, <2>1, NextLasts
    <3>2. EndsBody(EventOf(n))
      BY <2>1, <3>1 DEF Lasts
    <3> QED
      BY <1>1, <2>1, <3>1, <3>2, EndsStay
  <2>2. \A n \in DOMAIN receives' : n <= Dispatched \/ n > Dispatched
    BY <1>1, NextLasts
  <2> QED
    BY <1>1, <2>1, <2>2 DEF EndsAreTrue, EndsBody
<1>2. CASE Steady
  <2>1. \A n \in DOMAIN receives' : n > Dispatched => ~EndsBody(EventOf(n)')
    BY <1>2, NextLasts, ToldFacts DEF Steady
  <2> QED
    BY <1>1, <1>2, <2>1 DEF Steady
<1>3. CASE Misses
  <2>1. Rcv!AnyCancelled' /\ requestClosed' = requestClosed
    BY <1>3 DEF Misses, Loses
  <2>2. \A n \in DOMAIN receives' :
          EndsBody(EventOf(n)') => n \in DOMAIN receives /\ EndsBody(EventOf(n))
    BY <1>3, ToldFacts DEF Misses, Loses
  <2> QED
    BY <2>1, <2>2 DEF EndsAreTrue, EndsBody
<1>4. ASSUME NEW event \in {Rcv!Disconnect, Rcv!Request(<<>>, FALSE)}, Tells(event)
      PROVE  EndsAreTrue'
  <2>1. arrived' = arrived /\ requestClosed' = requestClosed /\ ToldNext(event, event)
    BY <1>4 DEF Tells
  <2>2. \A n \in DOMAIN receives' : n > Dispatched => EventOf(n)' = event
    BY <2>1, NextLasts
  <2>3. CASE event = Rcv!Disconnect
    <3>1. \A n \in DOMAIN receives' : n > Dispatched => ~EndsBody(EventOf(n)')
      BY <2>2, <2>3, ToldFacts
    <3> QED
      BY <1>1, <2>1, <3>1
  <2>4. CASE requestClosed /\ arrived = 0
    <3>1. requestClosed' /\ 1..arrived' = {}
      BY <2>1, <2>4
    <3> QED
      BY <1>1, <2>1, <3>1
  <2> QED
    BY <1>4, <2>3, <2>4 DEF Tells
<1>5. ASSUME NEW received \in Seq(1..MaxBody), NEW ended \in BOOLEAN,
             Receives(received, ended)
      PROVE  requestClosed => requestClosed' /\ arrived' = arrived
  BY <1>5, ReceiveBounds DEF Receives, Rcv!TypeOK
<1>6. ASSUME NEW received \in Seq(1..MaxBody), NEW ended \in BOOLEAN,
             Keeping(received, ended)
      PROVE  EndsAreTrue'
  <2>1. ToldNext(Rcv!Pending, Rcv!Pending) /\ (requestClosed => requestClosed' /\ arrived' = arrived)
    BY <1>5, <1>6 DEF Keeping
  <2>2. \A n \in DOMAIN receives' : n > Dispatched => ~EndsBody(EventOf(n)')
    BY <2>1, NextLasts, ToldFacts
  <2> QED
    BY <1>1, <2>1, <2>2
<1>7. ASSUME NEW received \in Seq(1..MaxBody), NEW ended \in BOOLEAN,
             Handing(received, ended)
      PROVE  EndsAreTrue'
  <2> DEFINE s == buffered \o received
             first == Rcv!Request(s, ~ended)
             others == Rcv!Request(<<>>, ~ended)
  <2>1. ToldNext(first, others) /\ (requestClosed => requestClosed' /\ arrived' = arrived)
    BY <1>5, <1>7 DEF Handing
  <2>2. /\ Available(s) /\ arrived \in Nat /\ arrived' \in Nat
    BY <1>7, ReceivedBytes DEF Handing
  <2>3. first.body = s /\ (EndsBody(first) => ended) /\ (EndsBody(others) => ended)
    BY DEF Rcv!Request, EndsBody
  <2>4. requestClosed' = ended /\ ~Over /\ Dispatched + 1 \in DOMAIN receives'
    BY <1>7 DEF Handing, Receives
  <2> HIDE DEF s, first, others
  <2>5. Lasts /\ \A n \in DOMAIN receives' : n \in Nat /\ Dispatched \in Nat
    BY <2>1, NextLasts
  <2>6. \A m : m = Dispatched + 1 => EventOf(m)' = first /\ m \in DOMAIN receives'
    <3>1. \A m \in DOMAIN receives' : m = Dispatched + 1 => ~(m <= Dispatched)
      BY <2>5
    <3> QED
      BY <2>1, <2>4, <3>1 DEF ToldNext
  <2>7. ASSUME NEW n \in DOMAIN receives', n > Dispatched, NEW b \in Range(s)
        PROVE  ToldUpTo(b, n)'
    <3>1. Dispatched + 1 <= n
      BY <2>5, <2>7
    <3>2. \A m : m = Dispatched + 1 =>
            m \in DOMAIN receives' /\ m <= n /\ b \in Range(EventOf(m)'.body)
      BY <2>3, <2>6, <2>7, <3>1
    <3> QED
      BY <3>2 DEF ToldUpTo
  <2>8. ASSUME NEW n \in DOMAIN receives', n > Dispatched, EndsBody(EventOf(n)')
        PROVE  /\ requestClosed'
               /\ Rcv!AnyCancelled' \/ \A b \in 1..arrived' : ToldUpTo(b, n)'
    <3>1. requestClosed'
      BY <2>1, <2>3, <2>4, <2>8, NextLasts
    <3>2. ASSUME ~Rcv!AnyCancelled', NEW b \in 1..arrived' PROVE ToldUpTo(b, n)'
      <4>1. CASE b \in 1..arrived
        <5>1. ToldUpTo(b, Dispatched) \/ b \in Range(buffered)
          BY <2>4, <3>2, <4>1 DEF BytesArrived, Over, KeepsCancelled
        <5>2. ASSUME ToldUpTo(b, Dispatched) PROVE ToldUpTo(b, n)'
          <6>1. ToldUpTo(b, n)
            BY <2>5, <2>8, <5>2, Counts DEF ToldUpTo
          <6> QED
            BY <2>5, <6>1, ToldStays
        <5>3. ASSUME b \in Range(buffered) PROVE ToldUpTo(b, n)'
          BY <2>2, <2>7, <2>8, <5>3 DEF Available
        <5> QED
          BY <5>1, <5>2, <5>3
      <4>2. CASE b > arrived
        BY <2>2, <2>7, <2>8, <4>2 DEF Available
      <4> QED
        BY <2>2, <4>1, <4>2
    <3> QED
      BY <3>1, <3>2
  <2> QED
    BY <1>1, <2>1, <2>8
<1> QED
  BY <1>2, <1>3, <1>4, <1>6, <1>7 DEF Kinds

LEMMA KindsDisconnect ==
  ASSUME Rcv!TypeOK, ReceivesNumbered, DisconnectsAreTrue, Grows, Kinds
  PROVE  DisconnectsAreTrue'
<1> DEFINE Silent == {Rcv!Disconnect, Rcv!Pending, Rcv!Cancelled}
<1> USE DEF Onwards
<1>1. \A n \in DOMAIN receives : EventOf(n) = Rcv!Disconnect =>
        Over /\ \A m \in DOMAIN receives : n <= m => EventOf(m) \in Silent
  BY DEF DisconnectsAreTrue, Over
<1>2. ASSUME NEW first \in Silent, ToldNext(first, first),
             Over => Over', first = Rcv!Disconnect => Over'
      PROVE  DisconnectsAreTrue'
  <2>1. /\ \A n \in DOMAIN receives' : n <= Dispatched => n \in DOMAIN receives
        /\ \A n \in DOMAIN receives' : n > Dispatched => EventOf(n)' = first
        /\ \A n \in DOMAIN receives' : n <= Dispatched => EventOf(n)' = EventOf(n)
        /\ \A n \in DOMAIN receives' : n \in Nat /\ Dispatched \in Nat
    BY <1>2, NextLasts DEF ToldNext
  <2> SUFFICES ASSUME NEW n \in DOMAIN receives', EventOf(n)' = Rcv!Disconnect
               PROVE  Over' /\ \A m \in DOMAIN receives' : n <= m => EventOf(m)' \in Silent
    BY DEF DisconnectsAreTrue, Over
  <2>2. CASE n <= Dispatched
    BY <1>1, <1>2, <2>1, <2>2
  <2>3. CASE n > Dispatched
    BY <1>2, <2>1, <2>3
  <2> QED
    BY <2>1, <2>2, <2>3
<1>3. CASE Steady
  BY <1>2, <1>3, ToldFacts DEF Steady
<1>4. CASE Misses
  <2>1. \A n \in DOMAIN receives' :
          n \in DOMAIN receives /\ (EventOf(n)' = EventOf(n) \/ EventOf(n)' = Rcv!Cancelled)
    BY <1>4 DEF Misses, Loses
  <2>2. Over' = Over
    BY <1>4 DEF Misses, Over
  <2> QED
    BY <1>1, <2>1, <2>2, ToldFacts DEF DisconnectsAreTrue, Over
<1>5. ASSUME NEW event, ~Over, ToldNext(event, event), event # Rcv!Disconnect
      PROVE  DisconnectsAreTrue'
  BY <1>1, <1>5, NextLasts DEF DisconnectsAreTrue, Lasts
<1>6. \A c, e : Rcv!Request(c, e) # Rcv!Disconnect
  BY DEF Rcv!Request, Rcv!Disconnect, Rcv!NoRequest
<1>7. ASSUME NEW event \in {Rcv!Disconnect, Rcv!Request(<<>>, FALSE)}, Tells(event)
      PROVE  DisconnectsAreTrue'
  BY <1>2, <1>5, <1>6, <1>7 DEF Tells
<1>8. ASSUME NEW received \in Seq(1..MaxBody), NEW ended \in BOOLEAN,
             Keeping(received, ended)
      PROVE  DisconnectsAreTrue'
  BY <1>2, <1>8, ToldFacts DEF Keeping, Receives, Over
<1>9. ASSUME NEW received \in Seq(1..MaxBody), NEW ended \in BOOLEAN,
             Handing(received, ended)
      PROVE  DisconnectsAreTrue'
  <2>1. ~Over /\ ToldNext(Rcv!Request(buffered \o received, ~ended), Rcv!Request(<<>>, ~ended))
    BY <1>9 DEF Handing
  <2>2. \A n \in DOMAIN receives' : EventOf(n)' # Rcv!Disconnect
    BY <1>1, <1>6, <2>1, NextLasts DEF Lasts
  <2> QED
    BY <2>2 DEF DisconnectsAreTrue, Rcv!Disconnect, Rcv!NoRequest
<1> QED
  BY <1>3, <1>4, <1>7, <1>8, <1>9 DEF Kinds

-----------------------------------------------------------------------------
(* The inductive invariant holds.                                          *)

LEMMA TypeOKNext ==
  ASSUME ReceiveInv, [Rcv!Next]_(Rcv!vars)
  PROVE  Rcv!TypeOK'
<1> USE DEF ReceiveInv, WellFormed
<1> DEFINE Told1 == Rcv!Events \cup {Rcv!Pending, Rcv!Cancelled}
<1>1. ASSUME NEW endOfStream \in BOOLEAN, Rcv!OnRequestHeaders(endOfStream) PROVE Rcv!TypeOK'
  BY <1>1 DEF Rcv!OnRequestHeaders, Rcv!TypeOK
<1>2. ASSUME HandleReads PROVE Rcv!TypeOK'
  <2>1. PICK received \in Seq(1..MaxBody), ended \in BOOLEAN : Reads(received, ended)
    BY <1>2, ReadSteps
  <2>2. /\ buffered \o received \in Seq(1..MaxBody) /\ <<>> \in Seq(1..MaxBody)
        /\ Len(received) \in Nat
    <3>1. <<>> \in Seq(1..MaxBody)
      OBVIOUS
    <3> QED
      BY <3>1, ConcatFacts DEF Rcv!TypeOK
  <2>3. receiveLoop' \in Seq(ReceiveCompletions) /\ buffered' \in Seq(1..MaxBody)
    BY <2>1, <2>2, ReceiveLengths DEF Reads, Answers, Keeps
  <2>4. recvBridge' \in Rcv!Bridges(Rcv!Futures)
    <3>1. <<>> \in Seq(Rcv!Futures)
      OBVIOUS
    <3> QED
      BY <2>1, <3>1 DEF Reads, Answers, Keeps, Rcv!Drained, Rcv!Bridges, Rcv!TypeOK
  <2>5. arrived' \in 0..MaxBody /\ receiveCommits' \in 0..MaxReceives
    BY <2>1, <2>2, ReceiveBounds DEF Reads, Rcv!TypeOK
  <2>6. requestFilter' = requestFilter /\ requestClosed' \in BOOLEAN
        /\ UNCHANGED <<empty, receiveCommitting, receives>>
    BY <2>1 DEF Reads
  <2> QED
    BY <2>3, <2>4, <2>5, <2>6 DEF Rcv!TypeOK, ReceiveCompletions
<1>3. ASSUME Rcv!OnStreamComplete PROVE Rcv!TypeOK'
  <2>1. Rcv!ClosedBridge \in Rcv!Bridges(Rcv!Futures)
    <3>1. <<>> \in Seq(Rcv!Futures)
      OBVIOUS
    <3> QED
      BY <3>1 DEF Rcv!ClosedBridge, Rcv!Bridges
  <2>2. receiveLoop' \in Seq(ReceiveCompletions)
    BY <1>3, OnStreamCompleteFacts
  <2> QED
    BY <1>3, <2>1, <2>2 DEF Rcv!OnStreamComplete, Rcv!TypeOK, ReceiveCompletions
<1>4. ASSUME Rcv!Drop PROVE Rcv!TypeOK'
  <2>1. <<>> \in Seq(1..MaxBody)
    OBVIOUS
  <2> QED
    BY <1>4, <2>1, ReceiveBounds DEF Rcv!Drop, Rcv!TypeOK
<1>5. ASSUME Rcv!Receive PROVE Rcv!TypeOK'
  <2>1. receives' \in Seq(Told1) /\ Len(receives') <= MaxReceives
    BY <1>5, ReceiveFacts, ReceiveBounds DEF Rcv!Futures
  <2>2. receiveLoop' \in Seq(ReceiveCompletions) /\ recvBridge' \in Rcv!Bridges(Rcv!Futures)
        /\ receiveCommitting' \in BOOLEAN
    BY <1>5, ReceiveFacts, ReceiveLengths DEF Rcv!TypeOK, Rcv!Receive
  <2>3. UNCHANGED <<Rcv!envoyVars, receiveCommits, empty>>
    BY <1>5 DEF Rcv!Receive
  <2> QED
    BY <2>1, <2>2, <2>3 DEF Rcv!TypeOK, ReceiveCompletions, Rcv!envoyVars
<1>6. ASSUME Rcv!Commit PROVE Rcv!TypeOK'
  <2>1. receiveCommits' \in 0..MaxReceives
    BY <1>6, ReceiveLengths, ReceiveBounds DEF Rcv!Commit, CommitsCounted, Rcv!TypeOK
  <2> QED
    BY <1>6, <2>1 DEF Rcv!Commit, Rcv!TypeOK, Rcv!envoyVars
<1>7. ASSUME Rcv!ReceiveEmpty PROVE Rcv!TypeOK'
  <2>1. receives' \in Seq(Told1) /\ Len(receives') <= MaxReceives
    BY <1>7, ReceiveEmptyFacts
  <2> QED
    BY <1>7, <2>1 DEF Rcv!ReceiveEmpty, Rcv!TypeOK, Rcv!envoyVars
<1>8. ASSUME NEW n \in 1..MaxReceives, Rcv!CancelReceive(n) PROVE Rcv!TypeOK'
  <2>1. receives' \in Seq(Told1) /\ Len(receives') = Len(receives)
    BY <1>8, CancelFacts
  <2> QED
    BY <1>8, <2>1 DEF Rcv!CancelReceive, Rcv!TypeOK, Rcv!envoyVars
<1>9. ASSUME Rcv!RunTask PROVE Rcv!TypeOK'
  <2>1. /\ receives' \in Seq(Told1) /\ Len(receives') = Len(receives)
        /\ receiveLoop' \in Seq(ReceiveCompletions)
        /\ UNCHANGED <<Rcv!envoyVars, recvBridge, receiveCommits, empty, receiveCommitting>>
    BY <1>9, RunTaskFacts
  <2> QED
    BY <2>1 DEF Rcv!TypeOK, ReceiveCompletions, Rcv!envoyVars
<1>10. ASSUME UNCHANGED Rcv!vars PROVE Rcv!TypeOK'
  BY <1>10 DEF Rcv!vars, Rcv!envoyVars, Rcv!TypeOK
<1>11. ASSUME Rcv!Terminated PROVE Rcv!TypeOK'
  BY <1>10, <1>11 DEF Rcv!Terminated
<1> QED
  BY <1>1, <1>2, <1>3, <1>4, <1>5, <1>6, <1>7, <1>8, <1>9, <1>10, <1>11
     DEF Rcv!Next, HandleReads

LEMMA CommitsCountedNext ==
  ASSUME ReceiveInv, [Rcv!Next]_(Rcv!vars)
  PROVE  CommitsCounted'
<1> USE DEF ReceiveInv, WellFormed, CommitsCounted
<1>1. /\ receiveCommits \in Nat /\ receiveCommitting \in BOOLEAN /\ Len(receives) \in Nat
  BY ReceiveLengths, ReceiveBounds DEF Rcv!TypeOK
<1>2. CASE HandleReads
  <2>1. PICK received \in Seq(1..MaxBody), ended \in BOOLEAN : Reads(received, ended)
    BY <1>2, ReadSteps
  <2> QED
    BY <1>1, <2>1 DEF Reads
<1>3. CASE Rcv!Receive
  BY <1>1, <1>3, ReceiveFacts DEF Rcv!Receive
<1>4. CASE Rcv!ReceiveEmpty
  BY <1>1, <1>4, ReceiveEmptyFacts DEF Rcv!ReceiveEmpty
<1>5. CASE \E n \in 1..MaxReceives : Rcv!CancelReceive(n)
  BY <1>5, CancelFacts DEF Rcv!CancelReceive
<1>6. CASE Rcv!RunTask
  BY <1>6, RunTaskFacts
<1>7. CASE Rcv!Commit
  BY <1>1, <1>7 DEF Rcv!Commit
<1>8. CASE Rcv!Drop
  BY <1>1, <1>8 DEF Rcv!Drop
<1>9. CASE Rcv!OnStreamComplete \/ Rcv!Terminated \/ UNCHANGED Rcv!vars
           \/ \E endOfStream \in BOOLEAN : Rcv!OnRequestHeaders(endOfStream)
  BY <1>1, <1>9
     DEF Rcv!OnStreamComplete, Rcv!Terminated, Rcv!vars, Rcv!envoyVars,
            Rcv!OnRequestHeaders
<1> QED
  BY <1>2, <1>3, <1>4, <1>5, <1>6, <1>7, <1>8, <1>9 DEF Rcv!Next, HandleReads

LEMMA StagesNext ==
  ASSUME ReceiveInv, [Rcv!Next]_(Rcv!vars)
  PROVE  RequestStages'
<1> USE DEF ReceiveInv, WellFormed
<1>0. requestFilter \in {"new", "live", "complete", "dropped"} /\ requestClosed \in BOOLEAN
  BY DEF Rcv!TypeOK
<1>1. ASSUME NEW endOfStream \in BOOLEAN, Rcv!OnRequestHeaders(endOfStream) PROVE RequestStages'
  <2>1. receives = <<>> /\ arrived = 0 /\ Len(receives) = 0
    BY <1>1 DEF Rcv!OnRequestHeaders, RequestStages
  <2>2. Len(receiveLoop) = 0 /\ Len(Waiting) = 0
    BY <2>1, Counts, ReceiveLengths
  <2>3. receiveLoop = <<>> /\ Waiting = <<>>
    BY <2>2, ReceiveLengths, EmptySeq
  <2> QED
    BY <1>1, <2>1, <2>3 DEF Rcv!OnRequestHeaders, RequestStages, Waiting
<1>2. ASSUME HandleReads PROVE RequestStages'
  <2>1. PICK received \in Seq(1..MaxBody), ended \in BOOLEAN : Reads(received, ended)
    BY <1>2, ReadSteps
  <2>2. /\ requestFilter' = requestFilter /\ requestFilter # "new" /\ empty' = empty /\ receives' = receives
        /\ requestClosed => requestClosed' /\ received = <<>>
        /\ arrived' = arrived + Len(received) /\ requestClosed' = ended
        /\ Answers(buffered \o received, ended) \/ Keeps(buffered \o received)
    BY <2>1 DEF Reads
  <2>3. recvBridge'.closed = recvBridge.closed
    BY <2>2 DEF Answers, Keeps, Rcv!Drained, Rcv!TypeOK, Rcv!Bridges
  <2>4. ASSUME empty PROVE receiveLoop' = <<>> /\ Waiting' = <<>> /\ requestClosed' /\ arrived' = 0
    <3>1. Keeps(buffered \o received)
      BY <2>2, <2>4 DEF Answers, RequestStages
    <3> QED
      BY <2>2, <2>4, <3>1 DEF Keeps, RequestStages, Waiting
  <2> QED
    BY <2>2, <2>3, <2>4 DEF RequestStages
<1>3. ASSUME Rcv!OnStreamComplete PROVE RequestStages'
  <2>1. ASSUME empty PROVE receiveLoop' = <<>>
    <3>1. receiveLoop = <<>> /\ Waiting = <<>>
      BY <2>1 DEF RequestStages
    <3>2. Len(receiveLoop') = 0 /\ receiveLoop' \in Seq(ReceiveCompletions)
      BY <1>3, <3>1, OnStreamCompleteFacts
    <3> QED
      BY <3>2, EmptySeq
  <2> QED
    BY <1>3, <2>1 DEF Rcv!OnStreamComplete, RequestStages, Rcv!ClosedBridge, Waiting
<1>4. ASSUME Rcv!Drop PROVE RequestStages'
  BY <1>4 DEF Rcv!Drop, RequestStages, Waiting
<1>5. ASSUME Rcv!Receive PROVE RequestStages'
  <2>1. requestFilter # "new" /\ ~empty /\ UNCHANGED <<requestFilter, empty, arrived, requestClosed>>
    BY <1>5 DEF Rcv!Receive, Rcv!envoyVars
  <2>2. recvBridge'.closed = recvBridge.closed
    BY <1>5, ReceiveFacts DEF Rcv!TypeOK, Rcv!Bridges
  <2> QED
    BY <2>1, <2>2 DEF RequestStages
<1>6. ASSUME Rcv!Commit PROVE RequestStages'
  BY <1>6 DEF Rcv!Commit, RequestStages, Rcv!envoyVars, Waiting
<1>7. ASSUME Rcv!ReceiveEmpty PROVE RequestStages'
  BY <1>7 DEF Rcv!ReceiveEmpty, RequestStages, Rcv!envoyVars, Waiting
<1>8. ASSUME NEW n \in 1..MaxReceives, Rcv!CancelReceive(n) PROVE RequestStages'
  <2>1. requestFilter # "new"
    BY <1>8 DEF Rcv!CancelReceive, RequestStages
  <2> QED
    BY <1>8, <2>1 DEF Rcv!CancelReceive, RequestStages, Rcv!envoyVars, Waiting
<1>9. ASSUME Rcv!RunTask PROVE RequestStages'
  <2>1. requestFilter # "new" /\ ~empty
    BY <1>9, RunTaskFacts DEF Rcv!RunTask, RequestStages
  <2> QED
    BY <1>9, <2>1 DEF Rcv!RunTask, RequestStages, Rcv!envoyVars
<1>10. ASSUME UNCHANGED Rcv!vars PROVE RequestStages'
  BY <1>10 DEF Rcv!vars, Rcv!envoyVars, RequestStages, Waiting
<1>11. ASSUME Rcv!Terminated PROVE RequestStages'
  BY <1>10, <1>11 DEF Rcv!Terminated
<1> QED
  BY <1>1, <1>2, <1>3, <1>4, <1>5, <1>6, <1>7, <1>8, <1>9, <1>10, <1>11
     DEF Rcv!Next, HandleReads

LEMMA ReceiveInvInit == Rcv!Init => ReceiveInv
<1> SUFFICES ASSUME Rcv!Init PROVE ReceiveInv
  OBVIOUS
<1>1. /\ <<>> \in Seq(1..MaxBody) /\ <<>> \in Seq(Rcv!Futures)
      /\ <<>> \in Seq([future : Rcv!Futures, event : Rcv!Events])
      /\ <<>> \in Seq(Rcv!Events \cup {Rcv!Pending, Rcv!Cancelled})
      /\ Len(<<>>) = 0 /\ DOMAIN <<>> = {}
  OBVIOUS
<1>2. recvBridge \in Rcv!Bridges(Rcv!Futures) /\ ~recvBridge.closed /\ Waiting = <<>>
  BY <1>1 DEF Rcv!Init, Rcv!OpenBridge, Rcv!Bridges, Waiting
<1>3. Rcv!TypeOK
  <2>1. 0 \in 0..MaxBody /\ 0 \in 0..MaxReceives /\ 0 <= MaxReceives
    BY ReceiveBounds
  <2> QED
    BY <1>1, <1>2, <2>1 DEF Rcv!Init, Rcv!TypeOK
<1>4. CommitsCounted /\ RequestStages
  BY <1>1, <1>2 DEF Rcv!Init, CommitsCounted, RequestStages
<1>5. ReceivesNumbered
  BY <1>1, <1>2 DEF Rcv!Init, ReceivesNumbered, Returned
<1>6. BytesInOrder /\ EndsAreTrue /\ DisconnectsAreTrue
  BY <1>1, Empty DEF Rcv!Init, BytesInOrder, EndsAreTrue, DisconnectsAreTrue
<1>7. BytesArrived
  BY <1>1, Empty DEF Rcv!Init, BytesArrived
<1> QED
  BY <1>3, <1>4, <1>5, <1>6, <1>7 DEF ReceiveInv, WellFormed

LEMMA ReceiveInvNext == ReceiveInv /\ [Rcv!Next]_(Rcv!vars) => ReceiveInv'
<1> SUFFICES ASSUME ReceiveInv, [Rcv!Next]_(Rcv!vars) PROVE ReceiveInv'
  OBVIOUS
<1>1. Rcv!TypeOK /\ RequestStages /\ ReceivesNumbered
      /\ BytesInOrder /\ BytesArrived /\ EndsAreTrue /\ DisconnectsAreTrue
  BY DEF ReceiveInv, WellFormed
<1>2. ReceivesNumbered' /\ KeepsCancelled /\ Grows /\ Kinds
  BY <1>1, StepKinds
<1>3. BytesInOrder' /\ BytesArrived'
  <2>1. CASE \/ Steady \/ Misses
             \/ \E event \in {Rcv!Disconnect, Rcv!Request(<<>>, FALSE)} : Tells(event)
    <3>1. Uneventful
      BY <1>1, <1>2, <2>1, UneventfulKinds
    <3> QED
      BY <1>1, <1>2, <3>1, UneventfulBytes
  <2>2. ASSUME NEW received \in Seq(1..MaxBody), NEW ended \in BOOLEAN,
               Keeping(received, ended)
        PROVE  BytesInOrder' /\ BytesArrived'
    BY <1>1, <1>2, <2>2, KeepingBytes
  <2>3. ASSUME NEW received \in Seq(1..MaxBody), NEW ended \in BOOLEAN,
               Handing(received, ended)
        PROVE  BytesInOrder' /\ BytesArrived'
    BY <1>1, <1>2, <2>3, HandingBytes
  <2> QED
    BY <1>2, <2>1, <2>2, <2>3 DEF Kinds
<1>4. EndsAreTrue'
  BY <1>1, <1>2, KindsEnd
<1>5. DisconnectsAreTrue'
  BY <1>1, <1>2, KindsDisconnect
<1> QED
  BY <1>2, <1>3, <1>4, <1>5, TypeOKNext, CommitsCountedNext, StagesNext
     DEF ReceiveInv, WellFormed

THEOREM ReceiveInductive == ReceiveSteps => []ReceiveInv
BY ReceiveInvInit, ReceiveInvNext, PTL DEF ReceiveSteps, Rcv!Spec, Rcv!Safety

-----------------------------------------------------------------------------
(* Every future is held once.                                              *)

LEMMA ReceiveHoldersAre ==
  ASSUME Rcv!TypeOK, ReceivesNumbered, NEW n \in DOMAIN receives
  PROVE  /\ n <= Returned => Rcv!Holders(n) = {}
         /\ n > Returned /\ n <= Dispatched => Rcv!Holders(n) = {<<"loop", n - Returned>>}
         /\ n > Dispatched => Rcv!Holders(n) = {<<"bridge", n - Dispatched>>}
<1>1. /\ DOMAIN receiveLoop = 1..Len(receiveLoop) /\ DOMAIN Waiting = 1..Len(Waiting)
      /\ Len(receiveLoop) \in Nat /\ Len(Waiting) \in Nat
      /\ Returned \in Nat /\ Dispatched \in Nat /\ Dispatched = Returned + Len(receiveLoop)
      /\ Len(receives) = Dispatched + Len(Waiting)
      /\ n \in Nat /\ n <= Len(receives)
  BY ReceiveLengths, Counts
<1>2. \A k \in DOMAIN receiveLoop : receiveLoop[k].future = n <=> k = n - Returned
  BY <1>1 DEF ReceivesNumbered
<1>3. \A k \in DOMAIN Waiting : Waiting[k] = n <=> k = n - Dispatched
  <2> TAKE k \in DOMAIN Waiting
  <2>1. Waiting[k] = Dispatched + k
    BY <1>1 DEF ReceivesNumbered
  <2> QED
    BY <1>1, <2>1
<1>4. /\ {k \in DOMAIN receiveLoop : receiveLoop[k].future = n} = {n - Returned} \cap DOMAIN receiveLoop
      /\ {k \in DOMAIN Waiting : Waiting[k] = n} = {n - Dispatched} \cap DOMAIN Waiting
  BY <1>2, <1>3
<1>5. CASE n <= Returned
  <2>1. n - Returned \notin DOMAIN receiveLoop /\ n - Dispatched \notin DOMAIN Waiting
    BY <1>1, <1>5
  <2> QED
    BY <1>1, <1>4, <1>5, <2>1 DEF Rcv!Holders, Waiting
<1>6. CASE n > Returned /\ n <= Dispatched
  <2>1. n - Returned \in DOMAIN receiveLoop /\ n - Dispatched \notin DOMAIN Waiting
    BY <1>1, <1>6
  <2> QED
    BY <1>1, <1>4, <1>6, <2>1 DEF Rcv!Holders, Waiting
<1>7. CASE n > Dispatched
  <2>1. n - Returned \notin DOMAIN receiveLoop /\ n - Dispatched \in DOMAIN Waiting
    BY <1>1, <1>7
  <2> QED
    BY <1>1, <1>4, <1>7, <2>1 DEF Rcv!Holders, Waiting
<1> QED
  BY <1>1, <1>5, <1>6, <1>7

\* A future that is pending is in one place, and one that has its event in
\* none, so that each is completed exactly once, for every number of receives.
THEOREM ReceivesHaveOneHolder == ReceiveSteps => []OneHolderPerReceive
<1>1. ASSUME ReceiveInv PROVE OneHolderPerReceive
  <2>1. Rcv!TypeOK /\ ReceivesNumbered
    BY <1>1 DEF ReceiveInv, WellFormed
  <2>2. ASSUME NEW n \in DOMAIN receives
        PROVE  CASE receives[n] = Rcv!Pending   -> Cardinality(Rcv!Holders(n)) = 1
                 [] receives[n] = Rcv!Cancelled -> Cardinality(Rcv!Holders(n)) <= 1
                 [] OTHER                   -> Rcv!Holders(n) = {}
    <3>1. n <= Returned => receives[n] # Rcv!Pending /\ Rcv!Holders(n) = {}
      BY <2>1, Counts, ReceiveHoldersAre
    <3>2. n > Returned => receives[n] \in {Rcv!Pending, Rcv!Cancelled}
      BY <2>1, Counts
    <3>3. n > Returned => Cardinality(Rcv!Holders(n)) = 1
      <4>1. n > Returned => \E h : Rcv!Holders(n) = {h}
        <5>1. CASE n <= Dispatched
          BY <2>1, <5>1, ReceiveHoldersAre
        <5>2. CASE n > Dispatched
          BY <2>1, <5>2, ReceiveHoldersAre
        <5>3. n <= Dispatched \/ n > Dispatched
          BY <2>1, Counts
        <5> QED
          BY <5>1, <5>2, <5>3
      <4> QED
        BY <4>1, FS_Singleton
    <3>4. Cardinality({}) = 0
      BY FS_EmptySet
    <3>5. Rcv!Pending # Rcv!Cancelled
      BY DEF Rcv!Pending, Rcv!Cancelled, Rcv!NoRequest
    <3>6. n <= Returned \/ n > Returned
      BY <2>1, Counts
    <3>7. CASE n <= Returned
      BY <3>1, <3>4, <3>7
    <3>8. CASE n > Returned
      BY <3>2, <3>3, <3>5, <3>8
    <3> QED
      BY <3>6, <3>7, <3>8
  <2>3. \A S : Rcv!Cardinality(S) = Cardinality(S)
    BY DEF Rcv!Cardinality, Cardinality
  <2> QED
    BY <2>1, <2>2, <2>3 DEF OneHolderPerReceive, Rcv!OneHolder
<1> QED
  BY <1>1, ReceiveInductive, PTL

-----------------------------------------------------------------------------
(* The events tell the body in order.                                      *)

\* The future of a fragment, if it has one.
FutureOf(j) == IF j <= Len(receives) THEN j ELSE Returned + (j - Len(receives))

LEMMA FragmentFacts ==
  ASSUME Rcv!TypeOK, ReceivesNumbered
  PROVE  LET N == Len(receives)
             L == Len(receiveLoop)
         IN  /\ N \in Nat /\ L \in Nat /\ DOMAIN Rcv!Fragments = 1..(N + L + 1)
             /\ \A n \in DOMAIN receives : n <= Returned => Rcv!Fragments[n] = EventOf(n).body
             /\ \A n \in DOMAIN receives : n > Returned /\ n <= Dispatched =>
                  N + (n - Returned) \in 1..(N + L) /\ Rcv!Fragments[N + (n - Returned)] = EventOf(n).body
             /\ Rcv!Fragments[N + L + 1] = buffered
             /\ \A j \in 1..(N + L) :
                  \/ Rcv!Fragments[j] = <<>>
                  \/ /\ FutureOf(j) \in DOMAIN receives
                     /\ Rcv!Fragments[j] = EventOf(FutureOf(j)).body
                     /\ j <= N => FutureOf(j) <= Returned
                     /\ j > N => FutureOf(j) > Returned
<1> DEFINE N == Len(receives)
           L == Len(receiveLoop)
           S == Seq(1..MaxBody)
           told == [n \in DOMAIN receives |-> receives[n].body]
           dispatched == [k \in DOMAIN receiveLoop |-> receiveLoop[k].event.body]
<1>1. /\ N \in Nat /\ L \in Nat /\ DOMAIN receives = 1..N /\ DOMAIN receiveLoop = 1..L
      /\ Returned \in Nat /\ Dispatched = Returned + L /\ Dispatched <= N /\ Dispatched \in Nat
  BY ReceiveLengths, Counts
<1>2. <<>> \in S /\ buffered \in S
  BY DEF Rcv!TypeOK
<1>3. Rcv!Pending.body = <<>> /\ Rcv!Cancelled.body = <<>>
  BY ToldFacts
<1>4. \A n \in 1..N : receives[n].body \in S
  <2> TAKE n \in 1..N
  <2>1. receives[n] \in Rcv!Events \/ receives[n] \in {Rcv!Pending, Rcv!Cancelled}
    BY <1>1, ReceiveLengths
  <2> QED
    BY <1>2, <1>3, <2>1 DEF Rcv!Events
<1>5. \A k \in 1..L : receiveLoop[k].event.body \in S
  BY <1>1, ReceiveLengths DEF ReceiveCompletions, Rcv!Events
<1>6. told \in [1..N -> S] /\ dispatched \in [1..L -> S]
  BY <1>1, <1>4, <1>5
<1>7. told \in Seq(S) /\ Len(told) = N /\ dispatched \in Seq(S) /\ Len(dispatched) = L
  BY <1>1, <1>6, FunctionIsSeq
<1>8. /\ \A n \in 1..N : told[n] = receives[n].body
      /\ \A k \in 1..L : dispatched[k] = receiveLoop[k].event.body
  BY <1>1
<1>9. Rcv!Fragments = (told \o dispatched) \o <<buffered>>
  BY DEF Rcv!Fragments
<1>10. <<buffered>> \in Seq(S) /\ Len(<<buffered>>) = 1 /\ <<buffered>>[1] = buffered
  BY <1>2
<1> HIDE DEF told, dispatched, S
<1>11. /\ told \o dispatched \in Seq(S) /\ Len(told \o dispatched) = N + L
       /\ \A n \in 1..N : (told \o dispatched)[n] = told[n]
       /\ \A k \in 1..L : (told \o dispatched)[N + k] = dispatched[k]
  <2>1. \A s, t \in Seq(S) :
          /\ s \o t \in Seq(S) /\ Len(s \o t) = Len(s) + Len(t)
          /\ \A k \in 1..Len(s) : (s \o t)[k] = s[k]
          /\ \A k \in 1..Len(t) : (s \o t)[Len(s) + k] = t[k]
    BY ConcatFacts
  <2>2. told \o dispatched \in Seq(S) /\ Len(told \o dispatched) = N + L
    BY <1>7, <2>1
  <2>3. \A n \in 1..N : (told \o dispatched)[n] = told[n]
    BY <1>7, <2>1
  <2>4. \A k \in 1..L : (told \o dispatched)[N + k] = dispatched[k]
    BY <1>7, <2>1
  <2> QED
    BY <2>2, <2>3, <2>4
<1>12. /\ DOMAIN Rcv!Fragments = 1..(N + L + 1)
       /\ \A j \in 1..(N + L) : Rcv!Fragments[j] = (told \o dispatched)[j]
       /\ Rcv!Fragments[N + L + 1] = buffered
  <2> DEFINE front == told \o dispatched
             last == <<buffered>>
  <2>1. /\ front \in Seq(S) /\ Len(front) = N + L /\ last \in Seq(S) /\ Len(last) = 1
        /\ last[1] = buffered /\ Rcv!Fragments = front \o last
    BY <1>9, <1>10, <1>11
  <2> HIDE DEF front, last
  <2>2. /\ DOMAIN (front \o last) = 1..(Len(front) + Len(last))
        /\ \A j \in 1..Len(front) : (front \o last)[j] = front[j]
        /\ \A k \in 1..Len(last) : (front \o last)[Len(front) + k] = last[k]
    <3>1. \A s, t \in Seq(S) :
            /\ DOMAIN (s \o t) = 1..(Len(s) + Len(t))
            /\ \A k \in 1..Len(s) : (s \o t)[k] = s[k]
            /\ \A k \in 1..Len(t) : (s \o t)[Len(s) + k] = t[k]
      BY ConcatFacts
    <3> QED
      BY <2>1, <3>1
  <2> QED
    BY <2>1, <2>2 DEF front
<1>13. /\ \A n \in 1..N : Rcv!Fragments[n] = receives[n].body
       /\ \A k \in 1..L : Rcv!Fragments[N + k] = receiveLoop[k].event.body
  <2>1. /\ \A n \in 1..N : n \in 1..(N + L)
        /\ \A k \in 1..L : N + k \in 1..(N + L)
    BY <1>1
  <2> QED
    BY <1>8, <1>11, <1>12, <2>1
<1>14. \A n \in DOMAIN receives : n <= Returned => Rcv!Fragments[n] = EventOf(n).body
  BY <1>1, <1>13 DEF EventOf
<1>15. ASSUME NEW n \in DOMAIN receives, n > Returned, n <= Dispatched
       PROVE  N + (n - Returned) \in 1..(N + L) /\ Rcv!Fragments[N + (n - Returned)] = EventOf(n).body
  <2>1. n - Returned \in 1..L /\ N + (n - Returned) \in 1..(N + L) /\ ~(n <= Returned)
    BY <1>1, <1>15
  <2> QED
    BY <1>13, <1>15, <2>1 DEF EventOf
<1>16. ASSUME NEW j \in 1..(N + L)
       PROVE  \/ Rcv!Fragments[j] = <<>>
              \/ /\ FutureOf(j) \in DOMAIN receives
                 /\ Rcv!Fragments[j] = EventOf(FutureOf(j)).body
                 /\ j <= N => FutureOf(j) <= Returned
                 /\ j > N => FutureOf(j) > Returned
  <2>1. CASE j <= N /\ j <= Returned
    BY <1>1, <1>14, <2>1 DEF FutureOf
  <2>2. CASE j <= N /\ j > Returned
    <3>1. receives[j] \in {Rcv!Pending, Rcv!Cancelled} /\ j \in 1..N
      BY <1>1, <2>2, Counts
    <3> QED
      BY <1>3, <1>13, <3>1
  <2>3. CASE j > N
    <3>1. /\ FutureOf(j) = Returned + (j - N) /\ FutureOf(j) \in DOMAIN receives
          /\ FutureOf(j) > Returned /\ FutureOf(j) <= Dispatched
          /\ N + (FutureOf(j) - Returned) = j /\ ~(j <= N)
      BY <1>1, <2>3 DEF FutureOf
    <3> QED
      BY <1>15, <3>1
  <2> QED
    BY <1>1, <2>1, <2>2, <2>3
<1> QED
  BY <1>1, <1>12, <1>14, <1>15, <1>16

LEMMA BodyIsConserved == ReceiveInv => Rcv!BodyConserved
<1> SUFFICES ASSUME ReceiveInv PROVE Rcv!BodyConserved
  OBVIOUS
<1> USE DEF ReceiveInv, WellFormed
<1> DEFINE N == Len(receives)
           L == Len(receiveLoop)
<1>1. /\ N \in Nat /\ L \in Nat /\ DOMAIN Rcv!Fragments = 1..(N + L + 1)
      /\ Rcv!Fragments[N + L + 1] = buffered
      /\ \A j \in 1..(N + L) :
           \/ Rcv!Fragments[j] = <<>>
           \/ /\ FutureOf(j) \in DOMAIN receives
              /\ Rcv!Fragments[j] = EventOf(FutureOf(j)).body
              /\ j <= N => FutureOf(j) <= Returned
              /\ j > N => FutureOf(j) > Returned
  BY FragmentFacts
<1>2. Returned \in Nat /\ \A n \in DOMAIN receives : n \in Nat
  BY Counts
<1>3. \A j \in DOMAIN Rcv!Fragments : j \in 1..(N + L) \/ j = N + L + 1
  BY <1>1
<1>4. \A j \in DOMAIN Rcv!Fragments :
        Rcv!Increasing(Rcv!Fragments[j]) /\ Range(Rcv!Fragments[j]) \subseteq 1..arrived
  BY <1>1, <1>3, Empty DEF BytesInOrder, BytesArrived
<1>5. ASSUME NEW j \in DOMAIN Rcv!Fragments, NEW k \in DOMAIN Rcv!Fragments, j < k
      PROVE  Rcv!Before(Rcv!Fragments[j], Rcv!Fragments[k])
  <2>1. j \in 1..(N + L)
    BY <1>1, <1>5
  <2>2. CASE Rcv!Fragments[j] = <<>> \/ Rcv!Fragments[k] = <<>>
    BY <2>2, Empty
  <2>3. CASE Rcv!Fragments[j] # <<>> /\ k = N + L + 1
    BY <1>1, <2>1, <2>3 DEF BytesInOrder
  <2>4. CASE Rcv!Fragments[j] # <<>> /\ Rcv!Fragments[k] # <<>> /\ k \in 1..(N + L)
    <3>1. /\ FutureOf(j) \in DOMAIN receives /\ Rcv!Fragments[j] = EventOf(FutureOf(j)).body
          /\ FutureOf(k) \in DOMAIN receives /\ Rcv!Fragments[k] = EventOf(FutureOf(k)).body
          /\ j <= N => FutureOf(j) <= Returned
          /\ k > N => FutureOf(k) > Returned
      BY <1>1, <2>1, <2>4
    <3>2. FutureOf(j) < FutureOf(k)
      <4>1. CASE k <= N
        BY <1>1, <1>5, <2>1, <2>4, <4>1 DEF FutureOf
      <4>2. CASE k > N /\ j <= N
        BY <1>2, <3>1, <4>2
      <4>3. CASE k > N /\ j > N
        BY <1>1, <1>2, <1>5, <2>1, <2>4, <4>3 DEF FutureOf
      <4> QED
        BY <1>1, <2>1, <2>4, <4>1, <4>2, <4>3
    <3> QED
      BY <3>1, <3>2 DEF BytesInOrder
  <2> QED
    BY <1>3, <2>2, <2>3, <2>4
<1>6. ASSUME requestFilter # "dropped", ~Rcv!AnyCancelled PROVE Rcv!BytesOf(Rcv!Fragments) = 1..arrived
  <2>1. Rcv!BytesOf(Rcv!Fragments) \subseteq 1..arrived
    BY <1>4 DEF Rcv!BytesOf, Rcv!Range, Range
  <2>2. ASSUME NEW b \in 1..arrived
        PROVE  \E j \in DOMAIN Rcv!Fragments : b \in Range(Rcv!Fragments[j])
    <3>1. ToldUpTo(b, Dispatched) \/ b \in Range(buffered)
      BY <1>6 DEF BytesArrived
    <3>2. CASE b \in Range(buffered)
      <4>1. N + L + 1 \in DOMAIN Rcv!Fragments
        BY <1>1
      <4> QED
        BY <1>1, <3>2, <4>1
    <3>3. CASE ToldUpTo(b, Dispatched)
      <4>1. PICK m \in DOMAIN receives : m <= Dispatched /\ b \in Range(EventOf(m).body)
        BY <3>3 DEF ToldUpTo
      <4>2. CASE m <= Returned
        <5>1. m \in DOMAIN Rcv!Fragments
          BY <1>1, ReceiveLengths
        <5>2. Rcv!Fragments[m] = EventOf(m).body
          BY <4>2, FragmentFacts
        <5> QED
          BY <4>1, <5>1, <5>2
      <4>3. CASE m > Returned
        <5>1. N + (m - Returned) \in 1..(N + L) /\ Rcv!Fragments[N + (m - Returned)] = EventOf(m).body
          BY <4>1, <4>3, FragmentFacts
        <5>2. N + (m - Returned) \in DOMAIN Rcv!Fragments
          BY <1>1, <5>1
        <5> QED
          BY <4>1, <5>1, <5>2
      <4> QED
        BY <1>2, <4>2, <4>3
    <3> QED
      BY <3>1, <3>2, <3>3
  <2> QED
    BY <2>1, <2>2 DEF Rcv!BytesOf, Rcv!Range, Range
<1> QED
  BY <1>4, <1>5, <1>6 DEF Rcv!BodyConserved

\* The application is told the bytes of the body in order, none of them twice,
\* none missing unless it cancelled a receive, and the end of the body and of
\* the stream when they are reached, for every body and every window.
THEOREM ToldTheTruth == ReceiveSteps => []EventsAreTruthful
<1>1. ASSUME ReceiveInv PROVE EventsAreTruthful
  <2> USE DEF ReceiveInv, WellFormed
  <2>1. /\ \A n \in DOMAIN receives : n \in Nat /\ 1 <= n /\ n <= Len(receives)
        /\ Returned \in Nat /\ Len(receives) \in Nat /\ DOMAIN receives = 1..Len(receives)
        /\ \A n \in DOMAIN receives : n > Returned => receives[n] \in {Rcv!Pending, Rcv!Cancelled}
        /\ \A n \in DOMAIN receives : n <= Returned => EventOf(n) = receives[n]
    BY <1>1, Counts, ReceiveLengths DEF EventOf
  <2>2. ASSUME NEW n \in DOMAIN receives, EndsBody(receives[n])
        PROVE  requestClosed /\ (Rcv!AnyCancelled \/ Rcv!ReceivedUpTo(n) = 1..arrived)
    <3>1. n <= Returned /\ EventOf(n) = receives[n]
      BY <1>1, <2>1, <2>2, ToldFacts
    <3>2. requestClosed /\ (Rcv!AnyCancelled \/ \A b \in 1..arrived : ToldUpTo(b, n))
      BY <1>1, <2>2, <3>1 DEF EndsAreTrue
    <3>3. \A m \in 1..n : m \in DOMAIN receives /\ m <= Returned /\ EventOf(m) = receives[m]
      BY <2>1, <3>1
    <3> DEFINE told == [m \in 1..n |-> receives[m].body]
    <3>4. \A b : b \in Rcv!ReceivedUpTo(n) <=> \E m \in 1..n : b \in Range(receives[m].body)
      <4>1. DOMAIN told = 1..n /\ \A m \in 1..n : told[m] = receives[m].body
        OBVIOUS
      <4>2. Rcv!ReceivedUpTo(n) = Rcv!BytesOf(told)
        BY DEF Rcv!ReceivedUpTo
      <4> HIDE DEF told
      <4> QED
        BY <4>1, <4>2 DEF Rcv!BytesOf, Rcv!Range, Range
    <3>5. Rcv!ReceivedUpTo(n) \subseteq 1..arrived
      BY <1>1, <3>3, <3>4 DEF BytesArrived
    <3>6. ASSUME NEW b \in 1..arrived, ToldUpTo(b, n) PROVE b \in Rcv!ReceivedUpTo(n)
      <4>1. PICK m \in DOMAIN receives : m <= n /\ b \in Range(EventOf(m).body)
        BY <3>6 DEF ToldUpTo
      <4>2. m \in 1..n
        BY <2>1, <4>1
      <4> QED
        BY <3>3, <3>4, <4>1, <4>2
    <3> QED
      BY <3>2, <3>5, <3>6
  <2>3. ASSUME NEW n \in DOMAIN receives, receives[n] = Rcv!Disconnect
        PROVE  /\ requestFilter \notin {"new", "live"}
               /\ \A m \in n..Len(receives) : receives[m] \in {Rcv!Disconnect, Rcv!Pending, Rcv!Cancelled}
    <3>1. n <= Returned /\ EventOf(n) = Rcv!Disconnect
      BY <1>1, <2>1, <2>3, ToldFacts
    <3>2. /\ requestFilter \in {"complete", "dropped"}
          /\ \A m \in DOMAIN receives : n <= m => EventOf(m) \in {Rcv!Disconnect, Rcv!Pending, Rcv!Cancelled}
      BY <1>1, <3>1 DEF DisconnectsAreTrue
    <3>3. \A m \in n..Len(receives) : m \in DOMAIN receives /\ n <= m
      BY <2>1
    <3>4. ASSUME NEW m \in n..Len(receives)
          PROVE  receives[m] \in {Rcv!Disconnect, Rcv!Pending, Rcv!Cancelled}
      <4>1. CASE m <= Returned
        BY <2>1, <3>2, <3>3, <4>1
      <4>2. CASE m > Returned
        BY <2>1, <3>3, <4>2
      <4> QED
        BY <2>1, <4>1, <4>2
    <3> QED
      BY <3>2, <3>4
  <2>4. Rcv!BodyConserved
    BY <1>1, BodyIsConserved
  <2> QED
    BY <2>2, <2>3, <2>4 DEF EventsAreTruthful, Rcv!EventsAreTruthful, EndsBody
<1> QED
  BY <1>1, ReceiveInductive, PTL
=============================================================================
