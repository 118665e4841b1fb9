------------------------ MODULE AsgiTransport_proofs ------------------------
(***************************************************************************)
(* Proofs about AsgiTransport for every number of chunks, reads and        *)
(* closes: each future is accounted for, the application reads the body    *)
(* that the upstream sent, and the upstream sees the request that the      *)
(* application sent.  The future of the response has one place             *)
(* (OnePlace); a stream that is forgotten is never taken up again          *)
(* (Forgotten); and the events in the pipe between the loop and the        *)
(* upstream are, up to the first reset, chunks in order and then the end   *)
(* (Seen).                                                                 *)
(***************************************************************************)
EXTENDS AsgiTransport, SequenceFacts, FiniteSetTheorems

-----------------------------------------------------------------------------
(* The inductive invariant.                                                *)

\* The events on their way to the upstream, the oldest first.
Pipe == batch \o bridge

StartPending == \E k \in 1..Len(Pipe) : Pipe[k].kind = "start"
ResetUpTo(n) == \E k \in 1..n : Pipe[k].kind \in {"reset", "fail"}
ResetOnWay == ResetUpTo(Len(Pipe))

\* The completions of the response's future.
Completions == {"headers", "headersEnd", "fail"}
Completing == \E k \in DOMAIN loop : loop[k] \in Completions

\* What has not happened yet before the request has a stream.
Beginning ==
  /\ future = "none" => Pipe = <<>> /\ stream = "none" /\ loop = <<>>
  /\ StartPending => /\ future \in {"pending", "cancelled"} /\ stream = "none"
                     /\ Len(Pipe) = 1 /\ Pipe[1] = Event("start", 0) /\ loop = <<>>
  /\ stream = "none" => /\ task = "none" /\ \A k \in DOMAIN loop : loop[k] # "forward"
                        /\ requestSeen = <<>> /\ ~requestEnded
                        /\ answer = "none" /\ fed = 0 /\ ~endStream

\* Where the response's future is.
OnePlace ==
  /\ \A j, k \in DOMAIN loop : loop[j] \in Completions /\ loop[k] \in Completions => j = k
  /\ Completing => entry # "waiting"
  /\ future = "pending" =>
       StartPending \/ entry = "waiting" \/ Completing \/ filter = "dropped"
  /\ future \notin {"pending", "cancelled"} => entry # "waiting" /\ ~Completing

\* The entry is there only while the stream is, and not again once it has gone.
Forgotten ==
  /\ entry # "none" => stream = "open"
  /\ entry = "waiting" => answer = "none"
  /\ entry = "answered" => answer # "none"
  /\ resetReason => entry = "none" /\ endStream
  /\ exception => resetReason

\* The read that waits, and the completion that is on its way to it.
Waiting ==
  /\ \A k \in DOMAIN reads : reads[k] = "pending" => pendingFuture = k
  /\ pendingFuture # 0 /\ Ready => \E k \in DOMAIN loop : loop[k] = "notify"

\* The task begins once, before anything else is told about the stream.
Forwarding ==
  /\ \A k \in DOMAIN loop : loop[k] = "forward" => k = 1 /\ task = "none" /\ streaming
  /\ task # "none" => streaming
  /\ task = "none" => forwarded = 0

\* What the reads have returned, and will.
Answered == answer \in {"ended", "trailers"}
Reads ==
  /\ received \o body = [k \in 1..fed |-> k]
  /\ endStream /\ ~resetReason =>
       Answered /\ (answer = "trailers" => httpTrailers \/ trailersShown)
  /\ \A k \in DOMAIN reads :
       /\ reads[k] = "stop" =>
            body = <<>> /\ Answered /\ (answer = "trailers" => trailersShown)
       /\ reads[k] = "error" => body = <<>> /\ resetReason

\* What the upstream has seen, and what it will see of the events in the pipe.
Coming(e, n) ==
  \/ e.kind = "data" /\ e.chunk = n /\ n <= forwarded
  \/ e.kind = "end" /\ task = "ended" /\ n = forwarded + 1

Seen ==
  /\ \A k \in 1..Len(requestSeen) : requestSeen[k] = k
  /\ streaming /\ requestEnded => task = "ended" /\ Len(requestSeen) = forwarded
  /\ entry # "none" =>
       /\ \A k \in 1..Len(Pipe) : ~ResetUpTo(k) => Coming(Pipe[k], Len(requestSeen) + k)
       /\ ~ResetOnWay /\ task \notin {"ended", "failed"} =>
            Len(requestSeen) + Len(Pipe) = forwarded

IInv ==
  /\ TypeOK /\ Beginning /\ OnePlace /\ Forgotten
  /\ Waiting /\ Forwarding /\ Reads /\ Seen

-----------------------------------------------------------------------------
(* The sequences, element by element.                                      *)

LoopTasks == {"forward", "headers", "headersEnd", "fail", "notify"}
Outcomes == {"pending", "cancelled", "data", "error", "stop", "empty"}

LEMMA Bounds ==
  /\ MaxForwarded \in Nat /\ MaxData \in Nat
  /\ MaxReads \in Nat /\ MaxCloses \in Nat
  BY BoundsAssumption

LEMMA Lengths ==
  ASSUME TypeOK
  PROVE  /\ loop \in Seq(LoopTasks) /\ Len(loop) \in Nat /\ DOMAIN loop = 1..Len(loop)
         /\ \A k \in 1..Len(loop) : loop[k] \in LoopTasks
         /\ reads \in Seq(Outcomes) /\ Len(reads) \in Nat /\ DOMAIN reads = 1..Len(reads)
         /\ batch \in Seq(TransportEvents) /\ Len(batch) \in Nat
         /\ bridge \in Seq(TransportEvents) /\ Len(bridge) \in Nat
         /\ requestSeen \in Seq(1..MaxForwarded) /\ Len(requestSeen) \in Nat
         /\ DOMAIN requestSeen = 1..Len(requestSeen)
         /\ forwarded \in Nat /\ fed \in Nat
<1>1. /\ loop \in Seq(LoopTasks) /\ reads \in Seq(Outcomes)
      /\ batch \in Seq(TransportEvents) /\ bridge \in Seq(TransportEvents)
      /\ requestSeen \in Seq(1..MaxForwarded) /\ forwarded \in Nat /\ fed \in Nat
  BY Bounds DEF TypeOK, LoopTasks, Outcomes
<1> QED
  BY <1>1, LenProperties, ElementOfSeq

LEMMA PipeFacts ==
  ASSUME TypeOK
  PROVE  /\ Pipe \in Seq(TransportEvents) /\ Len(Pipe) \in Nat
         /\ Len(Pipe) = Len(batch) + Len(bridge)
         /\ \A k \in 1..Len(Pipe) : Pipe[k] \in TransportEvents
         /\ \A k \in 1..Len(batch) : Pipe[k] = batch[k]
         /\ \A k \in 1..Len(bridge) : Pipe[Len(batch) + k] = bridge[k]
         /\ Pipe = <<>> <=> Len(Pipe) = 0
         /\ batch # <<>> => Pipe # <<>>
<1>1. /\ Pipe \in Seq(TransportEvents) /\ Len(Pipe) = Len(batch) + Len(bridge)
      /\ \A k \in 1..Len(batch) : Pipe[k] = batch[k]
      /\ \A k \in 1..Len(bridge) : Pipe[Len(batch) + k] = bridge[k]
  BY Lengths, ConcatFacts DEF Pipe
<1>2. /\ Len(Pipe) \in Nat /\ \A k \in 1..Len(Pipe) : Pipe[k] \in TransportEvents
      /\ Pipe = <<>> <=> Len(Pipe) = 0
  BY <1>1, LenProperties, ElementOfSeq, EmptySeq
<1>3. batch = <<>> <=> Len(batch) = 0
  BY Lengths, EmptySeq
<1> QED
  BY <1>1, <1>2, <1>3, Lengths

\* An event that is sent is the last of the pipe.
LEMMA SendFacts ==
  ASSUME TypeOK, NEW e \in TransportEvents, Send(e), batch' = batch
  PROVE  /\ bridge' \in Seq(TransportEvents) /\ commits' \in Nat
         /\ Len(Pipe') = Len(Pipe) + 1 /\ Pipe'[Len(Pipe) + 1] = e
         /\ \A k \in 1..Len(Pipe) : Pipe'[k] = Pipe[k]
         /\ Pipe' # <<>>
<1>1. bridge' = Append(bridge, e) /\ bridge' \in Seq(TransportEvents)
  BY Lengths, AppendFacts DEF Send
<1>2. commits' \in Nat
  BY DEF Send, TypeOK
<1>3. Pipe' = Append(Pipe, e)
  <2>1. \A b, s \in Seq(TransportEvents) : b \o Append(s, e) = Append(b \o s, e)
    OBVIOUS
  <2> QED
    BY <1>1, <2>1, Lengths DEF Pipe
<1>4. /\ Len(Append(Pipe, e)) = Len(Pipe) + 1 /\ Append(Pipe, e)[Len(Pipe) + 1] = e
      /\ \A k \in 1..Len(Pipe) : Append(Pipe, e)[k] = Pipe[k]
      /\ Append(Pipe, e) # <<>>
  BY PipeFacts, AppendFacts, EmptySeq
<1> QED
  BY <1>1, <1>2, <1>3, <1>4

\* The event that is handled was the first of the pipe.
LEMMA PipeShifts ==
  ASSUME TypeOK, batch # <<>>, batch' = Tail(batch), bridge' = bridge
  PROVE  /\ batch' \in Seq(TransportEvents)
         /\ Head(batch) = Pipe[1] /\ Head(batch) \in TransportEvents
         /\ Len(Pipe) \in Nat /\ Len(Pipe) >= 1 /\ 1 \in 1..Len(Pipe)
         /\ Len(Pipe') = Len(Pipe) - 1
         /\ \A k \in 1..Len(Pipe') : k + 1 \in 1..Len(Pipe) /\ Pipe'[k] = Pipe[k + 1]
<1>1. /\ batch' \in Seq(TransportEvents) /\ Len(batch') = Len(batch) - 1
      /\ \A k \in 1..(Len(batch) - 1) : batch'[k] = batch[k + 1]
      /\ Head(batch) = batch[1] /\ Head(batch) \in TransportEvents
      /\ Len(batch) \in Nat \ {0}
  BY Lengths, TailFacts
<1>2. /\ Len(Pipe) = Len(batch) + Len(bridge) /\ Len(bridge) \in Nat
      /\ \A k \in 1..Len(batch) : Pipe[k] = batch[k]
      /\ \A k \in 1..Len(bridge) : Pipe[Len(batch) + k] = bridge[k]
  BY PipeFacts, Lengths
<1>3. /\ Len(Pipe') = Len(batch') + Len(bridge)
      /\ \A k \in 1..Len(batch') : Pipe'[k] = batch'[k]
      /\ \A k \in 1..Len(bridge) : Pipe'[Len(batch') + k] = bridge[k]
  <2>1. Pipe' = batch' \o bridge
    BY DEF Pipe
  <2>2. batch' \in Seq(TransportEvents) /\ bridge \in Seq(TransportEvents)
    BY <1>1, Lengths
  <2>3. /\ Len(batch' \o bridge) = Len(batch') + Len(bridge)
        /\ \A k \in 1..Len(batch') : (batch' \o bridge)[k] = batch'[k]
        /\ \A k \in 1..Len(bridge) : (batch' \o bridge)[Len(batch') + k] = bridge[k]
    BY <2>2, ConcatFacts
  <2> QED
    BY <2>1, <2>3
<1>4. Head(batch) = Pipe[1] /\ Len(Pipe) >= 1 /\ Len(Pipe') = Len(Pipe) - 1
  BY <1>1, <1>2, <1>3
<1>5. ASSUME NEW k \in 1..Len(Pipe') PROVE k + 1 \in 1..Len(Pipe) /\ Pipe'[k] = Pipe[k + 1]
  <2>1. k + 1 \in 1..Len(Pipe)
    BY <1>1, <1>2, <1>4
  <2>2. CASE k \in 1..Len(batch')
    BY <1>1, <1>2, <1>3, <2>2
  <2>3. CASE k \notin 1..Len(batch')
    <3>1. PICK j \in 1..Len(bridge) : k = Len(batch') + j
      <4>1. k - Len(batch') \in 1..Len(bridge)
        BY <1>1, <1>2, <1>3, <2>3
      <4>2. k = Len(batch') + (k - Len(batch'))
        BY <1>1, <1>2, <1>3
      <4> QED
        BY <4>1, <4>2
    <3>2. k + 1 = Len(batch) + j
      BY <1>1, <1>2, <3>1
    <3> QED
      BY <1>2, <1>3, <2>1, <3>1, <3>2
  <2> QED
    BY <2>1, <2>2, <2>3
<1> QED
  BY <1>1, <1>2, <1>4, <1>5

\* The drain moves the bridge to an empty batch.
LEMMA DrainFacts ==
  ASSUME TypeOK, batch = <<>>, batch' = bridge, bridge' = <<>>
  PROVE  /\ Pipe' = Pipe
         /\ batch' \in Seq(TransportEvents) /\ bridge' \in Seq(TransportEvents)
<1>1. \A s \in Seq(TransportEvents) : s \o <<>> = s /\ <<>> \o s = s
  OBVIOUS
<1>2. <<>> \in Seq(TransportEvents)
  OBVIOUS
<1> QED
  BY <1>1, <1>2, Lengths DEF Pipe

\* The tasks that are dispatched to the loop are behind those that are there,
\* and one of them at most completes the response's future.
Adds(kinds) ==
  /\ loop' \in Seq(LoopTasks) /\ Len(loop') \in Nat /\ Len(loop') >= Len(loop)
  /\ DOMAIN loop = 1..Len(loop) /\ DOMAIN loop' = 1..Len(loop')
  /\ \A k \in 1..Len(loop) : loop'[k] = loop[k]
  /\ \A k \in 1..Len(loop') : k > Len(loop) => loop'[k] \in kinds
  /\ \A j, k \in 1..Len(loop') :
       /\ j > Len(loop) /\ k > Len(loop)
       /\ loop'[j] \in Completions /\ loop'[k] \in Completions
       => j = k

LEMMA AddOne ==
  ASSUME TypeOK, NEW kind \in LoopTasks, loop' = Append(loop, kind)
  PROVE  Adds({kind}) /\ Len(loop') = Len(loop) + 1 /\ loop'[Len(loop) + 1] = kind
<1>1. /\ loop' \in Seq(LoopTasks) /\ Len(loop') = Len(loop) + 1
      /\ DOMAIN loop' = 1..(Len(loop) + 1)
      /\ \A k \in 1..Len(loop) : loop'[k] = loop[k]
      /\ loop'[Len(loop) + 1] = kind
      /\ Len(loop) \in Nat /\ DOMAIN loop = 1..Len(loop)
  BY Lengths, AppendFacts
<1> QED
  BY <1>1 DEF Adds

LEMMA AddNotify ==
  ASSUME TypeOK, loop' = NotifyIfPending(loop)
  PROVE  /\ Adds({"notify"})
         /\ pendingFuture # 0 => \E k \in DOMAIN loop' : loop'[k] = "notify"
<1>1. CASE pendingFuture # 0
  <2>1. Adds({"notify"}) /\ Len(loop') = Len(loop) + 1 /\ loop'[Len(loop) + 1] = "notify"
    BY <1>1, AddOne DEF NotifyIfPending, LoopTasks
  <2> QED
    BY <2>1, Lengths DEF Adds
<1>2. CASE pendingFuture = 0
  BY <1>2, Lengths DEF NotifyIfPending, Adds
<1> QED
  BY <1>1, <1>2

LEMMA AddFailNotify ==
  ASSUME TypeOK, loop' = NotifyIfPending(Append(loop, "fail"))
  PROVE  /\ Adds({"fail", "notify"})
         /\ \E k \in DOMAIN loop' : loop'[k] = "fail"
         /\ pendingFuture # 0 => \E k \in DOMAIN loop' : loop'[k] = "notify"
<1> DEFINE one == Append(loop, "fail")
           two == Append(one, "notify")
<1>1. /\ one \in Seq(LoopTasks) /\ Len(one) = Len(loop) + 1
      /\ DOMAIN one = 1..(Len(loop) + 1)
      /\ \A k \in 1..Len(loop) : one[k] = loop[k]
      /\ one[Len(loop) + 1] = "fail"
      /\ Len(loop) \in Nat /\ DOMAIN loop = 1..Len(loop)
  BY Lengths, AppendFacts DEF LoopTasks
<1> HIDE DEF one
<1>2. /\ two \in Seq(LoopTasks) /\ Len(two) = Len(one) + 1
      /\ DOMAIN two = 1..(Len(one) + 1)
      /\ \A k \in 1..Len(one) : two[k] = one[k]
      /\ two[Len(one) + 1] = "notify"
  BY <1>1, AppendFacts DEF LoopTasks
<1>3. loop' = IF pendingFuture # 0 THEN two ELSE one
  BY DEF NotifyIfPending, one
<1> HIDE DEF two
<1>4. CASE pendingFuture # 0
  <2>1. loop' = two
    BY <1>3, <1>4
  <2>2. \A k \in 1..Len(loop') : k > Len(loop) =>
          \/ k = Len(loop) + 1 /\ loop'[k] = "fail"
          \/ k = Len(loop) + 2 /\ loop'[k] = "notify"
    BY <1>1, <1>2, <2>1
  <2>3. \A k \in 1..Len(loop) : loop'[k] = loop[k]
    BY <1>1, <1>2, <2>1
  <2>4. Adds({"fail", "notify"})
    BY <1>1, <1>2, <2>1, <2>2, <2>3 DEF Adds, Completions
  <2> QED
    BY <1>1, <1>2, <2>1, <2>4
<1>5. CASE pendingFuture = 0
  <2>1. loop' = one
    BY <1>3, <1>5
  <2>2. \A k \in 1..Len(loop') : k > Len(loop) => k = Len(loop) + 1 /\ loop'[k] = "fail"
    BY <1>1, <2>1
  <2>3. Adds({"fail", "notify"})
    BY <1>1, <2>1, <2>2 DEF Adds
  <2> QED
    BY <1>1, <1>5, <2>1, <2>3
<1> QED
  BY <1>4, <1>5

-----------------------------------------------------------------------------
(* What each part of the invariant depends on: a step that leaves it alone *)
(* keeps the part.                                                         *)

LEMMA BeginningKept ==
  ASSUME Beginning, stream' = stream, loop' = loop,
         future' = "none" => future = "none" /\ Pipe' = Pipe,
         StartPending' => StartPending /\ Pipe' = Pipe /\ future' \in {"pending", "cancelled"},
         stream = "none" =>
           UNCHANGED <<task, requestSeen, requestEnded, answer, fed, endStream>>
  PROVE  Beginning'
<1>1. /\ future' = "none" => Pipe' = <<>> /\ stream' = "none" /\ loop' = <<>>
      /\ StartPending' => /\ future' \in {"pending", "cancelled"} /\ stream' = "none"
                          /\ Len(Pipe') = 1 /\ Pipe'[1] = Event("start", 0) /\ loop' = <<>>
  BY DEF Beginning
<1>2. stream' = "none" => /\ task' = "none" /\ \A k \in DOMAIN loop' : loop'[k] # "forward"
                          /\ requestSeen' = <<>> /\ ~requestEnded'
                          /\ answer' = "none" /\ fed' = 0 /\ ~endStream'
  BY DEF Beginning
<1> QED
  BY <1>1, <1>2 DEF Beginning

\* Once there is a stream, nothing is beginning any more.
LEMMA BeginningIsPast ==
  ASSUME IInv, stream # "none", stream' # "none", future' # "none",
         \A k \in 1..Len(Pipe') : Pipe'[k].kind = "start"
           => \E j \in 1..Len(Pipe) : Pipe[j].kind = "start"
  PROVE  Beginning' /\ future # "none" /\ ~StartPending
<1>1. future # "none" /\ ~StartPending
  BY DEF IInv, Beginning
<1>2. ~StartPending'
  BY <1>1 DEF StartPending
<1> QED
  BY <1>1, <1>2 DEF Beginning

LEMMA OnePlaceKept ==
  ASSUME OnePlace, UNCHANGED <<loop, future>>, filter = "dropped" => filter' = "dropped",
         entry' = entry \/ (entry # "waiting" /\ entry' = "none"),
         StartPending => StartPending'
  PROVE  OnePlace'
<1>1. (Completing' <=> Completing) /\ (entry' = "waiting" <=> entry = "waiting")
  BY DEF Completing
<1>2. \A j, k \in DOMAIN loop' :
        loop'[j] \in Completions /\ loop'[k] \in Completions => j = k
  BY DEF OnePlace
<1> HIDE DEF Completing, StartPending
<1> QED
  BY <1>1, <1>2 DEF OnePlace

\* Tasks that complete nothing are of no concern to the response's future.
LEMMA OnePlaceAdds ==
  ASSUME OnePlace, TypeOK, Adds({"notify"}), future' = future,
         filter = "dropped" => filter' = "dropped",
         entry' = entry \/ (entry # "waiting" /\ entry' = "none"),
         StartPending => StartPending'
  PROVE  OnePlace'
<1>1. \A k \in DOMAIN loop' : loop'[k] \in Completions => k \in DOMAIN loop /\ loop[k] = loop'[k]
  BY DEF Adds, Completions
<1>2. \A k \in DOMAIN loop : k \in DOMAIN loop' /\ loop'[k] = loop[k]
  BY DEF Adds
<1>3. (Completing' <=> Completing) /\ (entry' = "waiting" <=> entry = "waiting")
  BY <1>1, <1>2 DEF Completing
<1>4. \A j, k \in DOMAIN loop' :
        loop'[j] \in Completions /\ loop'[k] \in Completions => j = k
  BY <1>1 DEF OnePlace
<1> HIDE DEF Completing, StartPending
<1> QED
  BY <1>3, <1>4 DEF OnePlace

\* The future leaves the entry for a task that completes it.
LEMMA OnePlaceMoves ==
  ASSUME IInv, entry = "waiting", entry' # "waiting", future' = future,
         NEW kinds, Adds(kinds), Completing'
  PROVE  OnePlace'
<1>1. ~Completing /\ future \in {"pending", "cancelled"}
  BY DEF IInv, OnePlace, TypeOK
<1>2. \A k \in DOMAIN loop' : loop'[k] \in Completions => k > Len(loop)
  <2>1. Len(loop) \in Nat
    BY Lengths DEF IInv
  <2> QED
    BY <1>1, <2>1 DEF Adds, Completing
<1>3. \A j, k \in DOMAIN loop' :
        loop'[j] \in Completions /\ loop'[k] \in Completions => j = k
  BY <1>2 DEF Adds
<1> HIDE DEF Completing
<1> QED
  BY <1>1, <1>3 DEF OnePlace

LEMMA ForgottenKept ==
  ASSUME Forgotten, UNCHANGED <<entry, answer, resetReason, endStream, exception>>,
         entry # "none" => stream' = stream
  PROVE  Forgotten'
  BY DEF Forgotten

LEMMA WaitingKept ==
  ASSUME Waiting, UNCHANGED <<reads, pendingFuture, body, endStream>>,
         loop' = loop \/ \E kinds : Adds(kinds)
  PROVE  Waiting'
<1>1. Ready' <=> Ready
  BY DEF Ready
<1>2. \A k \in DOMAIN loop : k \in DOMAIN loop' /\ loop'[k] = loop[k]
  BY DEF Adds
<1> QED
  BY <1>1, <1>2 DEF Waiting

\* What is new for a read that waits is notified.
LEMMA WaitingNotified ==
  ASSUME Waiting, UNCHANGED <<reads, pendingFuture>>,
         pendingFuture # 0 => \E k \in DOMAIN loop' : loop'[k] = "notify"
  PROVE  Waiting'
  BY DEF Waiting

LEMMA ForwardingKept ==
  ASSUME Forwarding, UNCHANGED <<streaming, task, forwarded>>,
         loop' = loop \/ \E kinds : Adds(kinds) /\ "forward" \notin kinds
  PROVE  Forwarding'
<1>1. \A k \in DOMAIN loop' : loop'[k] = "forward" => k \in DOMAIN loop /\ loop[k] = "forward"
  BY DEF Adds
<1> QED
  BY <1>1 DEF Forwarding

LEMMA ReadsKept ==
  ASSUME Reads, UNCHANGED <<received, body, fed, reads, httpTrailers, trailersShown>>,
         UNCHANGED <<answer, endStream, resetReason>> \/ (resetReason' /\ answer' = answer)
  PROVE  Reads'
<1>1. Answered' <=> Answered
  BY DEF Answered
<1>2. endStream' /\ ~resetReason' =>
        Answered' /\ (answer' = "trailers" => httpTrailers' \/ trailersShown')
  BY <1>1 DEF Reads
<1>3. resetReason => resetReason'
  OBVIOUS
<1>4. received' \o body' = [k \in 1..fed' |-> k]
  BY DEF Reads
<1> HIDE DEF Answered
<1> QED
  BY <1>1, <1>2, <1>3, <1>4 DEF Reads

LEMMA SeenKept ==
  ASSUME Seen, UNCHANGED <<streaming, forwarded, requestSeen, requestEnded>>,
         task' = task \/ {task, task'} \subseteq {"none", "running", "cancelling"},
         entry' # "none" => entry # "none" /\ Pipe' = Pipe
  PROVE  Seen'
<1>1. /\ \A k \in 1..Len(requestSeen') : requestSeen'[k] = k
      /\ streaming' /\ requestEnded' => task' = "ended" /\ Len(requestSeen') = forwarded'
  BY DEF Seen
<1>2. CASE entry' = "none"
  BY <1>1, <1>2 DEF Seen
<1>3. CASE entry' # "none"
  <2>1. (ResetOnWay' <=> ResetOnWay) /\ \A n : ResetUpTo(n)' <=> ResetUpTo(n)
    BY <1>3 DEF ResetOnWay, ResetUpTo
  <2>2. ASSUME NEW k \in 1..Len(Pipe'), ~ResetUpTo(k)'
        PROVE  Coming(Pipe[k], Len(requestSeen) + k)'
    <3>1. k \in 1..Len(Pipe) /\ ~ResetUpTo(k) /\ entry # "none"
      BY <1>3, <2>1, <2>2
    <3>2. Coming(Pipe[k], Len(requestSeen) + k)
      BY <3>1 DEF Seen
    <3> QED
      BY <1>3, <3>2 DEF Coming
  <2>3. ~ResetOnWay' /\ task' \notin {"ended", "failed"} =>
          Len(requestSeen') + Len(Pipe') = forwarded'
    BY <1>3, <2>1 DEF Seen
  <2> QED
    BY <1>1, <2>2, <2>3 DEF Seen
<1> QED
  BY <1>2, <1>3

-----------------------------------------------------------------------------
(* The application, on the event loop.                                     *)

LEMMA CancelRequestStep == ASSUME IInv, CancelRequest PROVE IInv'
<1> USE DEF IInv
<1>1. /\ future = "pending" /\ future' = "cancelled"
      /\ UNCHANGED <<appVars, taskVars, stateVars, bridge, commits, loop, batch, filter,
                     entry, upstreamVars>>
  BY DEF CancelRequest
<1> USE DEF appVars, taskVars, stateVars, upstreamVars
<1>2. TypeOK'
  BY <1>1 DEF TypeOK
<1>3. Pipe' = Pipe /\ (StartPending' <=> StartPending)
  BY <1>1 DEF Pipe, StartPending
<1>4. Beginning'
  BY <1>1, <1>3, BeginningKept
<1>5. OnePlace'
  <2>1. Completing' <=> Completing
    BY <1>1 DEF Completing
  <2> QED
    BY <1>1, <2>1 DEF OnePlace
<1>6. Forgotten' /\ Waiting' /\ Forwarding'
  BY <1>1, ForgottenKept, WaitingKept, ForwardingKept
<1>7. Reads' /\ Seen'
  BY <1>1, <1>3, ReadsKept, SeenKept
<1> QED
  BY <1>2, <1>4, <1>5, <1>6, <1>7

LEMMA CancelTaskStep == ASSUME IInv, CancelTask PROVE IInv'
<1> USE DEF IInv
<1>1. /\ task = "running" /\ task' = "cancelling"
      /\ UNCHANGED <<appVars, future, forwarded, stateVars, bridge, commits, loop, batch,
                     filter, entry, upstreamVars>>
  BY DEF CancelTask
<1> USE DEF appVars, stateVars, upstreamVars
<1>2. TypeOK'
  BY <1>1 DEF TypeOK
<1>3. Pipe' = Pipe /\ (StartPending' <=> StartPending)
  BY <1>1 DEF Pipe, StartPending
<1>4. Beginning'
  <2>1. stream # "none"
    BY <1>1 DEF Beginning
  <2> QED
    BY <1>1, <1>3, <2>1 DEF Beginning
<1>5. OnePlace' /\ Forgotten' /\ Waiting'
  BY <1>1, <1>3, OnePlaceKept, ForgottenKept, WaitingKept
<1>6. Forwarding'
  BY <1>1 DEF Forwarding
<1>7. Reads' /\ Seen'
  BY <1>1, <1>3, ReadsKept, SeenKept
<1> QED
  BY <1>2, <1>4, <1>5, <1>6, <1>7

\* A read concerns the state of the response only.
LEMMA ReadStep ==
  ASSUME IInv, TypeOK', Waiting', Reads', endStream' = endStream,
         UNCHANGED <<streaming, future, taskVars, resetReason, exception, bridge, commits,
                     loop, batch, filter, entry, upstreamVars>>
  PROVE  IInv'
<1> USE DEF IInv, taskVars, upstreamVars
<1>1. Pipe' = Pipe /\ (StartPending' <=> StartPending)
  BY DEF Pipe, StartPending
<1>2. Beginning'
  <2>1. StartPending => future \in {"pending", "cancelled"}
    BY DEF Beginning
  <2> QED
    BY <1>1, <2>1, BeginningKept
<1>3. OnePlace' /\ Forgotten' /\ Forwarding'
  BY <1>1, OnePlaceKept, ForgottenKept, ForwardingKept
<1>4. Seen'
  BY <1>1, SeenKept
<1> QED
  BY <1>2, <1>3, <1>4

LEMMA CancelReadStep == ASSUME IInv, NEW k \in 1..MaxReads, CancelRead(k) PROVE IInv'
<1> USE DEF IInv
<1>1. /\ k \in DOMAIN reads /\ reads' = [reads EXCEPT ![k] = "cancelled"]
      /\ UNCHANGED <<streaming, received, closes, future, taskVars, stateVars, bridge,
                     commits, loop, batch, filter, entry, upstreamVars>>
  BY DEF CancelRead
<1> USE DEF taskVars, stateVars, upstreamVars
<1>2. /\ reads' \in Seq(Outcomes) /\ DOMAIN reads' = DOMAIN reads /\ Len(reads') = Len(reads)
      /\ \A j \in DOMAIN reads : reads'[j] = IF j = k THEN "cancelled" ELSE reads[j]
  BY <1>1, Lengths DEF Outcomes
<1>3. TypeOK'
  BY <1>1, <1>2 DEF TypeOK, Outcomes
<1>4. Waiting'
  <2>1. Ready' <=> Ready
    BY <1>1 DEF Ready
  <2> QED
    BY <1>1, <1>2, <2>1 DEF Waiting
<1>5. Reads'
  BY <1>1, <1>2 DEF Reads, Answered
<1> QED
  BY <1>1, <1>3, <1>4, <1>5, ReadStep

\* The outcomes of the reads in the next state are those of this one, and at n
\* that of a read which takes what there is.
LEMMA TakesBody ==
  ASSUME IInv, Ready, CopyTrailers, TakeBody, NEW n \in Nat,
         UNCHANGED <<fed, answer, endStream, resetReason>>,
         n \in DOMAIN reads' => reads'[n] = Outcome,
         \A k \in DOMAIN reads' : k # n => k \in DOMAIN reads /\ reads'[k] = reads[k]
  PROVE  /\ Reads' /\ Outcome \in {"data", "error", "stop"}
         /\ received' \in Seq(1..MaxData) /\ body' \in Seq(1..MaxData)
         /\ httpTrailers' \in BOOLEAN /\ trailersShown' \in BOOLEAN
<1> USE DEF IInv
<1>1. PICK o : o = Outcome
  OBVIOUS
<1>2. received \in Seq(1..MaxData) /\ body \in Seq(1..MaxData)
  BY DEF TypeOK
<1>3. /\ received \o body \in Seq(1..MaxData) /\ <<>> \in Seq(1..MaxData)
      /\ (received \o body) \o <<>> = received \o body
  <2>1. \A s \in Seq(1..MaxData) : s \o <<>> = s
    OBVIOUS
  <2>2. received \o body \in Seq(1..MaxData)
    BY <1>2, ConcatFacts
  <2> QED
    BY <2>1, <2>2, EmptySeq
<1>4. /\ received' = IF o = "data" THEN received \o body ELSE received
      /\ body' = IF o = "data" THEN <<>> ELSE body
  BY <1>1 DEF TakeBody
<1>5. \/ o = "data" /\ body # <<>>
      \/ o = "error" /\ body = <<>> /\ (exception \/ resetReason)
      \/ o = "stop" /\ body = <<>> /\ ~exception /\ ~resetReason
  BY <1>1 DEF Outcome
<1>6. received' \o body' = received \o body
  BY <1>3, <1>4
<1>7. received' \in Seq(1..MaxData) /\ body' \in Seq(1..MaxData)
  BY <1>2, <1>3, <1>4
<1>8. /\ httpTrailers' = FALSE
      /\ trailersShown' = (trailersShown \/ httpTrailers)
  BY DEF CopyTrailers
<1>9. httpTrailers' \in BOOLEAN /\ trailersShown' \in BOOLEAN
  BY <1>8
<1>10. httpTrailers \/ trailersShown => trailersShown'
  BY <1>8
<1>11. body = <<>> => body' = <<>>
  BY <1>4
<1>12. (Answered' <=> Answered) /\ answer' = answer
  BY DEF Answered
<1>13. ASSUME NEW k \in DOMAIN reads'
       PROVE  /\ reads'[k] = "stop" => body' = <<>> /\ Answered'
                                       /\ (answer' = "trailers" => trailersShown')
              /\ reads'[k] = "error" => body' = <<>> /\ resetReason'
  <2>1. CASE k = n
    <3>1. reads'[k] = o
      BY <1>1, <1>13, <2>1
    <3>2. o = "stop" => endStream /\ ~resetReason
      BY <1>5 DEF Ready
    <3>3. o = "stop" => Answered /\ (answer = "trailers" => httpTrailers \/ trailersShown)
      BY <3>2 DEF Reads
    <3>4. o = "error" => resetReason
      BY <1>5 DEF Forgotten
    <3> HIDE DEF Answered
    <3> QED
      BY <1>5, <1>10, <1>11, <1>12, <3>1, <3>3, <3>4
  <2>2. CASE k # n
    <3>1. k \in DOMAIN reads /\ reads'[k] = reads[k]
      BY <1>13, <2>2
    <3> QED
      BY <1>10, <1>11, <1>12, <3>1 DEF Reads
  <2> QED
    BY <2>1, <2>2
<1>14. endStream' /\ ~resetReason' =>
         Answered' /\ (answer' = "trailers" => httpTrailers' \/ trailersShown')
  BY <1>10, <1>12 DEF Reads
<1>15. received' \o body' = [k \in 1..fed' |-> k]
  BY <1>6 DEF Reads
<1>16. Reads'
  BY <1>13, <1>14, <1>15 DEF Reads
<1> QED
  BY <1>1, <1>5, <1>7, <1>9, <1>16

\* A read that adds its outcome.
LEMMA ReadAdded ==
  ASSUME TypeOK, NEW outcome \in Outcomes, reads' = Append(reads, outcome)
  PROVE  /\ reads' \in Seq(Outcomes) /\ Len(reads') = Len(reads) + 1
         /\ DOMAIN reads' = 1..Len(reads') /\ Len(reads) \in Nat
         /\ reads'[Len(reads) + 1] = outcome
         /\ \A k \in DOMAIN reads' : k # Len(reads) + 1 =>
              k \in DOMAIN reads /\ reads'[k] = reads[k]
<1>1. /\ reads' \in Seq(Outcomes) /\ Len(reads') = Len(reads) + 1
      /\ DOMAIN reads' = 1..(Len(reads) + 1)
      /\ \A k \in 1..Len(reads) : reads'[k] = reads[k]
      /\ reads'[Len(reads) + 1] = outcome
      /\ Len(reads) \in Nat /\ DOMAIN reads = 1..Len(reads)
  BY Lengths, AppendFacts
<1> QED
  BY <1>1

LEMMA ANextStep == ASSUME IInv, ANext PROVE IInv'
<1> USE DEF IInv
<1>1. UNCHANGED <<streaming, closes, future, taskVars, endStream, resetReason, exception,
                  bridge, commits, loop, batch, filter, entry, upstreamVars>>
  BY DEF ANext
<1>2. UNCHANGED <<task, forwarded, stream, answer, fed, requestSeen, requestEnded>>
  BY <1>1 DEF taskVars, upstreamVars
<1>3. Len(reads) \in Nat /\ pendingFuture \in 0..Len(reads)
  BY Lengths DEF TypeOK
<1>4. TypeOK' /\ Waiting' /\ Reads'
  <2>1. CASE pendingFuture # 0
    <3>1. /\ reads' = Append(reads, "empty")
          /\ UNCHANGED <<received, pendingFuture, body, httpTrailers, trailersShown>>
      BY <2>1 DEF ANext
    <3>2. /\ reads' \in Seq(Outcomes) /\ Len(reads') = Len(reads) + 1
          /\ reads'[Len(reads) + 1] = "empty"
          /\ \A k \in DOMAIN reads' : k # Len(reads) + 1 =>
               k \in DOMAIN reads /\ reads'[k] = reads[k]
      BY <3>1, ReadAdded DEF Outcomes
    <3>3. pendingFuture' \in 0..Len(reads')
      BY <1>3, <3>1, <3>2
    <3>4. TypeOK'
      BY <1>1, <1>2, <3>1, <3>2, <3>3 DEF TypeOK, Outcomes
    <3>5. Waiting'
      <4>1. Ready' <=> Ready
        BY <1>1, <3>1 DEF Ready
      <4> QED
        BY <1>1, <3>1, <3>2, <4>1 DEF Waiting
    <3>6. Reads'
      BY <1>1, <1>2, <3>1, <3>2 DEF Reads, Answered
    <3> QED
      BY <3>4, <3>5, <3>6
  <2>2. CASE pendingFuture = 0 /\ Ready
    <3> DEFINE o == Outcome
    <3>1. /\ reads' = Append(reads, o) /\ TakeBody /\ CopyTrailers
          /\ pendingFuture' = pendingFuture
      BY <2>2 DEF ANext
    <3>2. o \in Outcomes /\ o # "pending"
      BY DEF Outcome, Outcomes
    <3> HIDE DEF o
    <3>3. /\ reads' \in Seq(Outcomes) /\ Len(reads') = Len(reads) + 1
          /\ reads'[Len(reads) + 1] = o
          /\ \A k \in DOMAIN reads' : k # Len(reads) + 1 =>
               k \in DOMAIN reads /\ reads'[k] = reads[k]
      BY <3>1, <3>2, ReadAdded
    <3>4. PICK n \in Nat : n = Len(reads) + 1
      BY <1>3
    <3>5. /\ n \in DOMAIN reads' => reads'[n] = Outcome
          /\ \A k \in DOMAIN reads' : k # n => k \in DOMAIN reads /\ reads'[k] = reads[k]
      BY <3>3, <3>4 DEF o
    <3>6. /\ Reads' /\ received' \in Seq(1..MaxData) /\ body' \in Seq(1..MaxData)
          /\ httpTrailers' \in BOOLEAN /\ trailersShown' \in BOOLEAN
      BY <1>1, <1>2, <2>2, <3>1, <3>5, TakesBody
    <3>7. pendingFuture' \in 0..Len(reads')
      BY <1>3, <3>1, <3>3
    <3>8. TypeOK'
      BY <1>1, <1>2, <3>3, <3>6, <3>7 DEF TypeOK, Outcomes
    <3>9. Waiting'
      <4>1. pendingFuture' = 0
        BY <2>2, <3>1
      <4>2. \A k \in DOMAIN reads' : reads'[k] # "pending"
        <5> SUFFICES ASSUME NEW k \in DOMAIN reads', reads'[k] = "pending" PROVE FALSE
          OBVIOUS
        <5>1. k \in DOMAIN reads /\ reads[k] = "pending"
          BY <3>2, <3>3
        <5> QED
          BY <2>2, <5>1, Lengths DEF Waiting
      <4> QED
        BY <4>1, <4>2 DEF Waiting
    <3> QED
      BY <3>6, <3>8, <3>9
  <2>3. CASE pendingFuture = 0 /\ ~Ready
    <3>1. /\ reads' = Append(reads, "pending") /\ CopyTrailers
          /\ pendingFuture' = Len(reads) + 1 /\ UNCHANGED <<received, body>>
      BY <2>3 DEF ANext
    <3>2. /\ reads' \in Seq(Outcomes) /\ Len(reads') = Len(reads) + 1
          /\ reads'[Len(reads) + 1] = "pending"
          /\ \A k \in DOMAIN reads' : k # Len(reads) + 1 =>
               k \in DOMAIN reads /\ reads'[k] = reads[k]
      BY <3>1, ReadAdded DEF Outcomes
    <3>3. pendingFuture' \in 0..Len(reads')
      BY <1>3, <3>1, <3>2
    <3>4. /\ httpTrailers' = FALSE
          /\ trailersShown' = (trailersShown \/ httpTrailers)
      BY <3>1 DEF CopyTrailers
    <3>5. httpTrailers' \in BOOLEAN /\ trailersShown' \in BOOLEAN
      BY <3>4
    <3>6. TypeOK'
      BY <1>1, <1>2, <3>1, <3>2, <3>3, <3>5 DEF TypeOK, Outcomes
    <3>7. Waiting'
      <4>1. ~Ready'
        BY <1>1, <2>3, <3>1 DEF Ready
      <4>2. \A k \in DOMAIN reads' : reads'[k] = "pending" => k = pendingFuture'
        <5> SUFFICES ASSUME NEW k \in DOMAIN reads', reads'[k] = "pending",
                            k # Len(reads) + 1
                     PROVE  FALSE
          BY <3>1
        <5>1. k \in DOMAIN reads /\ reads[k] = "pending"
          BY <3>2
        <5> QED
          BY <2>3, <5>1, Lengths DEF Waiting
      <4> QED
        BY <4>1, <4>2 DEF Waiting
    <3>8. Reads'
      <4>1. httpTrailers \/ trailersShown => trailersShown'
        BY <3>4
      <4> QED
        BY <1>1, <1>2, <3>1, <3>2, <4>1 DEF Reads, Answered
    <3> QED
      BY <3>6, <3>7, <3>8
  <2> QED
    BY <2>1, <2>2, <2>3
<1>5. UNCHANGED <<taskVars, upstreamVars>>
  BY <1>1
<1> QED
  BY <1>1, <1>4, <1>5, ReadStep

-----------------------------------------------------------------------------
(* The events that the loop's thread sends.                                *)

LEMMA EventsAre ==
  /\ \A kind \in {"start", "end", "reset", "fail"} :
       Event(kind, 0) \in TransportEvents /\ Event(kind, 0).kind = kind
  /\ \A n \in 0..MaxForwarded :
       /\ Event("data", n) \in TransportEvents
       /\ Event("data", n).kind = "data" /\ Event("data", n).chunk = n
  BY Bounds DEF Event, TransportEvents

LEMMA ExecuteStep == ASSUME IInv, Execute PROVE IInv'
<1> USE DEF IInv
<1>1. /\ future = "none" /\ future' = "pending" /\ Send(Event("start", 0))
      /\ UNCHANGED <<appVars, taskVars, stateVars, loop, batch, filter, entry,
                     upstreamVars>>
  BY DEF Execute
<1> USE DEF appVars, taskVars, stateVars, upstreamVars
<1>2. /\ bridge' \in Seq(TransportEvents) /\ commits' \in Nat
      /\ Len(Pipe') = Len(Pipe) + 1 /\ Pipe'[Len(Pipe) + 1] = Event("start", 0)
  BY <1>1, EventsAre, SendFacts
<1>3. Pipe = <<>> /\ Len(Pipe) = 0 /\ stream = "none" /\ loop = <<>> /\ entry = "none"
  BY <1>1, PipeFacts DEF Beginning, Forgotten
<1>4. Len(Pipe') = 1 /\ Pipe'[1] = Event("start", 0) /\ Pipe'[1].kind = "start"
  BY <1>2, <1>3, EventsAre
<1>5. StartPending'
  BY <1>4 DEF StartPending
<1>6. TypeOK'
  BY <1>1, <1>2 DEF TypeOK
<1>7. Beginning'
  BY <1>1, <1>3, <1>4 DEF Beginning
<1>8. OnePlace'
  <2>1. Completing' <=> Completing
    BY <1>1 DEF Completing
  <2>2. future \notin {"pending", "cancelled"}
    BY <1>1
  <2> HIDE DEF Completing
  <2> QED
    BY <1>1, <1>5, <2>1, <2>2 DEF OnePlace
<1>9. Forgotten' /\ Waiting' /\ Forwarding' /\ Reads'
  BY <1>1, ForgottenKept, WaitingKept, ForwardingKept, ReadsKept
<1>10. Seen'
  BY <1>1, <1>3, SeenKept
<1> QED
  BY <1>6, <1>7, <1>8, <1>9, <1>10

\* An event that is sent for a stream is the next of the request, or comes after
\* a reset.
LEMMA SendStep ==
  ASSUME IInv, NEW e \in TransportEvents, Send(e), e.kind # "start",
         future # "none", ~StartPending,
         UNCHANGED <<streaming, future, stateVars, loop, batch, filter, entry,
                     upstreamVars>>,
         UNCHANGED <<reads, received>>, closes' \in 0..MaxCloses,
         task' \in {"none", "running", "cancelling", "ended", "failed"},
         forwarded' \in 0..MaxForwarded, forwarded' >= forwarded,
         (task' = "none") <=> (task = "none"), task' = "none" => forwarded' = forwarded,
         task' = task \/ task \in {"running", "cancelling"},
         task = "ended" => forwarded' = forwarded,
         e.kind \in {"reset", "fail"} => task' = task \/ task' = "failed",
         \/ e.kind \in {"reset", "fail"} /\ forwarded' = forwarded
         \/ e.kind = "data" /\ task \notin {"ended", "failed"} /\ task' = task
              /\ e.chunk = forwarded + 1 /\ forwarded' = forwarded + 1
         \/ e.kind = "end" /\ task \notin {"ended", "failed"} /\ task' = "ended"
              /\ forwarded' = forwarded
  PROVE  IInv'
<1> USE DEF IInv, stateVars, upstreamVars
<1>1. /\ bridge' \in Seq(TransportEvents) /\ commits' \in Nat
      /\ Len(Pipe') = Len(Pipe) + 1 /\ Pipe'[Len(Pipe) + 1] = e
      /\ \A k \in 1..Len(Pipe) : Pipe'[k] = Pipe[k]
  BY SendFacts
<1>2. Len(Pipe) \in Nat /\ Len(requestSeen) \in Nat /\ forwarded \in Nat
  BY PipeFacts, Lengths
<1>3. TypeOK'
  BY <1>1 DEF TypeOK
<1>4. ~StartPending'
  <2> SUFFICES ASSUME NEW k \in 1..Len(Pipe'), Pipe'[k].kind = "start" PROVE FALSE
    BY DEF StartPending
  <2>1. CASE k = Len(Pipe) + 1
    BY <1>1, <2>1
  <2>2. CASE k \in 1..Len(Pipe)
    BY <1>1, <2>2 DEF StartPending
  <2> QED
    BY <1>1, <1>2, <2>1, <2>2
<1>5. Beginning'
  BY <1>4 DEF Beginning
<1>6. OnePlace'
  BY OnePlaceKept
<1>7. Forgotten' /\ Waiting' /\ Reads'
  BY ForgottenKept, WaitingKept, ReadsKept
<1>8. Forwarding'
  BY DEF Forwarding
<1>9. ASSUME NEW n \in 1..Len(Pipe) PROVE ResetUpTo(n)' <=> ResetUpTo(n)
  <2>1. \A k \in 1..n : Pipe'[k] = Pipe[k]
    BY <1>1, <1>2
  <2> QED
    BY <2>1 DEF ResetUpTo
<1>10. ~ResetOnWay' => ~ResetOnWay /\ e.kind \notin {"reset", "fail"}
  BY <1>1, <1>2 DEF ResetOnWay, ResetUpTo
<1>11. Seen'
  <2>1. /\ \A k \in 1..Len(requestSeen') : requestSeen'[k] = k
        /\ streaming' /\ requestEnded' => task' = "ended" /\ Len(requestSeen') = forwarded'
    BY DEF Seen
  <2>2. ASSUME entry # "none", NEW k \in 1..Len(Pipe'), ~ResetUpTo(k)'
        PROVE  Coming(Pipe[k], Len(requestSeen) + k)'
    <3>1. CASE k \in 1..Len(Pipe)
      <4>1. ~ResetUpTo(k) /\ Pipe'[k] = Pipe[k]
        BY <1>1, <1>2, <1>9, <2>2, <3>1
      <4>2. Coming(Pipe[k], Len(requestSeen) + k)
        BY <2>2, <3>1, <4>1 DEF Seen
      <4> QED
        BY SMTT(60), <1>2, <4>1, <4>2 DEF Coming, TypeOK
    <3>2. CASE k = Len(Pipe) + 1
      <4>1. ~ResetOnWay' /\ Pipe'[k] = e
        BY <1>1, <2>2, <3>2 DEF ResetOnWay
      <4>2. ~ResetOnWay /\ e.kind \notin {"reset", "fail"}
        BY <1>10, <4>1
      <4>3. task \notin {"ended", "failed"} => Len(requestSeen) + Len(Pipe) = forwarded
        BY <2>2, <4>2 DEF Seen
      <4> QED
        BY <1>2, <3>2, <4>1, <4>2, <4>3 DEF Coming
    <3> QED
      BY <1>1, <1>2, <3>1, <3>2
  <2>3. ASSUME entry # "none", ~ResetOnWay', task' \notin {"ended", "failed"}
        PROVE  Len(requestSeen') + Len(Pipe') = forwarded'
    <3>1. ~ResetOnWay /\ e.kind = "data" /\ forwarded' = forwarded + 1
      BY <1>10, <2>3
    <3>2. Len(requestSeen) + Len(Pipe) = forwarded
      BY <2>3, <3>1 DEF Seen
    <3> QED
      BY <1>1, <1>2, <3>1, <3>2
  <2> QED
    BY <2>1, <2>2, <2>3 DEF Seen
<1> QED
  BY <1>3, <1>5, <1>6, <1>7, <1>8, <1>11

LEMMA ACloseStep == ASSUME IInv, AClose PROVE IInv'
<1> USE DEF IInv
<1>1. /\ future = "response" /\ closes < MaxCloses /\ closes' = closes + 1
      /\ UNCHANGED <<streaming, reads, received, future, taskVars, stateVars, loop, batch,
                     filter, entry, upstreamVars>>
  BY DEF AClose
<1> USE DEF taskVars, stateVars, upstreamVars
<1>2. closes' \in 0..MaxCloses
  BY <1>1, Bounds DEF TypeOK
<1>3. future # "none" /\ ~StartPending
  BY <1>1 DEF Beginning
<1>4. CASE endStream
  <2>1. UNCHANGED <<bridge, commits>>
    BY <1>4 DEF AClose
  <2>2. Pipe' = Pipe /\ (StartPending' <=> StartPending)
    BY <1>1, <2>1 DEF Pipe, StartPending
  <2>3. TypeOK'
    BY <1>1, <1>2, <2>1 DEF TypeOK
  <2>4. Beginning' /\ OnePlace' /\ Forgotten' /\ Waiting'
    BY <1>1, <1>3, <2>1, <2>2, BeginningKept, OnePlaceKept, ForgottenKept, WaitingKept
  <2>5. Forwarding' /\ Reads' /\ Seen'
    BY <1>1, <2>2, ForwardingKept, ReadsKept, SeenKept
  <2> QED
    BY <2>3, <2>4, <2>5
<1>5. CASE ~endStream
  <2>1. PICK e \in TransportEvents : e.kind = "reset" /\ Send(e)
    <3>1. Send(Event("reset", 0))
      BY <1>5 DEF AClose
    <3> QED
      BY <3>1, EventsAre
  <2>2. /\ task' \in {"none", "running", "cancelling", "ended", "failed"}
        /\ forwarded' \in 0..MaxForwarded /\ forwarded' >= forwarded
    BY <1>1, Lengths DEF TypeOK
  <2> QED
    BY <1>1, <1>2, <1>3, <2>1, <2>2, SendStep
<1> QED
  BY <1>4, <1>5

\* The task that forwards the body has a stream to forward it to.
LEMMA ForwardingIsLate ==
  ASSUME IInv, task # "none"
  PROVE  future # "none" /\ stream # "none" /\ ~StartPending
  BY DEF IInv, Beginning

LEMMA ForwardChunkStep == ASSUME IInv, ForwardChunk PROVE IInv'
<1>1. /\ task = "running" /\ forwarded < MaxForwarded /\ forwarded' = forwarded + 1
      /\ Send(Event("data", forwarded + 1))
      /\ UNCHANGED <<appVars, future, task, stateVars, loop, batch, filter, entry,
                     upstreamVars>>
  BY DEF ForwardChunk
<1> USE DEF appVars
<1>2. /\ forwarded' \in 0..MaxForwarded /\ forwarded' >= forwarded
      /\ closes' \in 0..MaxCloses
  BY <1>1, Bounds DEF IInv, TypeOK
<1>3. PICK e \in TransportEvents : e.kind = "data" /\ e.chunk = forwarded + 1 /\ Send(e)
  <2>1. forwarded + 1 \in 0..MaxForwarded
    BY <1>1, <1>2
  <2> QED
    BY <1>1, <2>1, EventsAre
<1>4. future # "none" /\ ~StartPending
  BY <1>1, ForwardingIsLate
<1> QED
  BY <1>1, <1>2, <1>3, <1>4, SendStep

LEMMA ForwardFinishStep == ASSUME IInv, ForwardFinish PROVE IInv'
<1>1. PICK kind \in {"end", "fail", "reset"} :
        /\ task \in {"running", "cancelling"}
        /\ task' = IF kind = "end" THEN "ended" ELSE "failed"
        /\ Send(Event(kind, 0))
        /\ UNCHANGED <<appVars, future, forwarded, stateVars, loop, batch, filter, entry,
                       upstreamVars>>
  BY DEF ForwardFinish, ForwardLast
<1> USE DEF appVars
<1>2. PICK e \in TransportEvents : e.kind = kind /\ Send(e)
  BY <1>1, EventsAre
<1>3. /\ forwarded' \in 0..MaxForwarded /\ forwarded' >= forwarded
      /\ closes' \in 0..MaxCloses
  BY <1>1, Lengths DEF IInv, TypeOK
<1>4. future # "none" /\ ~StartPending
  BY <1>1, ForwardingIsLate
<1> QED
  BY <1>1, <1>2, <1>3, <1>4, SendStep

-----------------------------------------------------------------------------
(* Envoy's thread: the drain, and the callbacks.                           *)

LEMMA OnScheduledStep == ASSUME IInv, OnScheduled PROVE IInv'
<1> USE DEF IInv
<1>1. /\ commits > 0 /\ batch = <<>> /\ commits' = commits - 1
      /\ batch' = bridge /\ bridge' = <<>>
      /\ UNCHANGED <<appVars, future, taskVars, stateVars, loop, filter, entry,
                     upstreamVars>>
  BY DEF OnScheduled
<1> USE DEF appVars, taskVars, stateVars, upstreamVars
<1>2. /\ Pipe' = Pipe /\ batch' \in Seq(TransportEvents)
      /\ bridge' \in Seq(TransportEvents)
  BY <1>1, DrainFacts
<1>3. commits' \in Nat
  BY <1>1 DEF TypeOK
<1>4. TypeOK'
  BY <1>1, <1>2, <1>3 DEF TypeOK
<1>5. StartPending' <=> StartPending
  BY <1>2 DEF StartPending
<1>6. Beginning'
  <2>1. StartPending => future \in {"pending", "cancelled"}
    BY DEF Beginning
  <2> HIDE DEF StartPending
  <2> QED
    BY <1>1, <1>2, <1>5, <2>1, BeginningKept
<1>7. OnePlace' /\ Forgotten' /\ Waiting' /\ Forwarding' /\ Reads' /\ Seen'
  BY <1>1, <1>2, <1>5, OnePlaceKept, ForgottenKept, WaitingKept, ForwardingKept, ReadsKept,
     SeenKept
<1> QED
  BY <1>4, <1>6, <1>7

\* The application's part is left alone by Envoy's thread.
Aside == UNCHANGED <<streaming, reads, received, closes, future, task, forwarded,
                     pendingFuture, trailersShown, bridge, batch>>

LEMMA AsideFacts ==
  ASSUME IInv, stream = "open", Aside
  PROVE  /\ Pipe' = Pipe /\ ~StartPending /\ ~StartPending' /\ future' # "none"
         /\ (StartPending => StartPending')
<1>1. Pipe' = Pipe /\ (StartPending' <=> StartPending)
  BY DEF Aside, Pipe, StartPending
<1>2. ~StartPending /\ future # "none"
  BY DEF IInv, Beginning
<1> QED
  BY <1>1, <1>2 DEF Aside

LEMMA UpstreamHeadersStep ==
  ASSUME IInv, NEW end \in BOOLEAN, UpstreamHeaders(end)
  PROVE  IInv'
<1> USE DEF IInv
<1>1. /\ stream = "open" /\ answer = "none"
      /\ answer' = IF end THEN "ended" ELSE "headers"
      /\ IF entry = "none"
           THEN stream' = "gone" /\ UNCHANGED <<entry, loop>>
           ELSE /\ entry' = "answered"
                /\ loop' = Append(loop, IF end THEN "headersEnd" ELSE "headers")
                /\ UNCHANGED stream
      /\ UNCHANGED <<appVars, future, taskVars, stateVars, bridge, commits, batch, filter,
                     fed, requestSeen, requestEnded>>
  BY DEF UpstreamHeaders, Callback
<1> USE DEF appVars, taskVars, stateVars
<1>2. Aside /\ stream' # "none"
  BY <1>1 DEF Aside
<1>3. /\ Pipe' = Pipe /\ ~StartPending /\ ~StartPending' /\ future' # "none"
      /\ (StartPending => StartPending')
  BY <1>1, <1>2, AsideFacts
<1>4. \/ entry = "none" /\ loop' = loop
      \/ /\ entry = "waiting"
         /\ \E kind \in {"headers", "headersEnd"} :
              Adds({kind}) /\ loop'[Len(loop) + 1] = kind /\ Len(loop') = Len(loop) + 1
  <2>1. CASE entry = "none"
    BY <1>1, <2>1
  <2>2. CASE entry # "none"
    <3>1. entry = "waiting"
      BY <1>1, <2>2 DEF TypeOK, Forgotten
    <3>2. PICK kind \in {"headers", "headersEnd"} : loop' = Append(loop, kind)
      BY <1>1, <2>2
    <3>3. kind \in LoopTasks
      BY DEF LoopTasks
    <3>4. Adds({kind}) /\ Len(loop') = Len(loop) + 1 /\ loop'[Len(loop) + 1] = kind
      BY <3>2, <3>3, AddOne
    <3> QED
      BY <3>1, <3>4
  <2> QED
    BY <2>1, <2>2
<1>5. TypeOK'
  <2>1. loop' \in Seq(LoopTasks)
    BY <1>4, Lengths DEF Adds
  <2> QED
    BY <1>1, <2>1 DEF TypeOK, LoopTasks
<1>6. Beginning'
  BY <1>1, <1>2, <1>3, BeginningIsPast
<1>7. OnePlace'
  <2>1. CASE entry = "none"
    BY <1>1, <1>3, <2>1, OnePlaceKept
  <2>2. CASE entry # "none"
    <3>1. PICK kind \in {"headers", "headersEnd"} :
            /\ entry = "waiting" /\ Adds({kind})
            /\ loop'[Len(loop) + 1] = kind /\ Len(loop') = Len(loop) + 1
      BY <1>4, <2>2
    <3>2. Completing'
      <4>1. Len(loop) + 1 \in DOMAIN loop'
        BY <3>1, Lengths DEF Adds
      <4> QED
        BY <3>1, <4>1 DEF Completing, Completions
    <3> QED
      BY <1>1, <2>2, <3>1, <3>2, OnePlaceMoves
  <2> QED
    BY <2>1, <2>2
<1>8. Forgotten'
  BY <1>1, <1>4 DEF Forgotten
<1>9. Waiting' /\ Forwarding'
  BY <1>1, <1>4, WaitingKept, ForwardingKept
<1>10. Reads'
  <2>1. ~Answered
    BY <1>1 DEF Answered
  <2>2. /\ ~(endStream' /\ ~resetReason')
        /\ \A k \in DOMAIN reads' : reads'[k] # "stop"
    BY <1>1, <2>1 DEF Reads
  <2> HIDE DEF Answered
  <2> QED
    BY <1>1, <2>2 DEF Reads
<1>11. Seen'
  BY <1>1, <1>3, SeenKept
<1> QED
  BY <1>5, <1>6, <1>7, <1>8, <1>9, <1>10, <1>11

LEMMA AppendToConcat ==
  ASSUME NEW S, NEW s \in Seq(S), NEW t \in Seq(S), NEW e \in S
  PROVE  s \o Append(t, e) = Append(s \o t, e)
  OBVIOUS

\* The count goes on.
LEMMA CountingOn ==
  ASSUME NEW r \in Seq(Nat), NEW b \in Seq(Nat), NEW n \in Nat,
         r \o b = [k \in 1..n |-> k]
  PROVE  r \o Append(b, n + 1) = [k \in 1..(n + 1) |-> k]
<1> DEFINE f == [k \in 1..n |-> k]
           g == [k \in 1..(n + 1) |-> k]
<1>1. /\ f \in Seq(Nat) /\ Len(f) = n
      /\ g \in Seq(Nat) /\ Len(g) = n + 1
  BY FunctionIsSeq
<1>2. /\ \A k \in 1..n : f[k] = k
      /\ \A k \in 1..(n + 1) : g[k] = k
  OBVIOUS
<1>3. r \o b = f
  OBVIOUS
<1> HIDE DEF f, g
<1>4. r \o Append(b, n + 1) = Append(f, n + 1)
  BY SMTT(60), <1>3, AppendToConcat
<1>5. /\ Append(f, n + 1) \in Seq(Nat) /\ Len(Append(f, n + 1)) = n + 1
      /\ \A k \in 1..n : Append(f, n + 1)[k] = f[k]
      /\ Append(f, n + 1)[n + 1] = n + 1
  BY <1>1, AppendFacts
<1>6. Append(f, n + 1) = g
  <2>1. \A k \in 1..(n + 1) : Append(f, n + 1)[k] = g[k]
    BY <1>2, <1>5
  <2> QED
    BY <1>1, <1>5, <2>1, SeqEqual
<1> QED
  BY <1>4, <1>6 DEF g

\* The part of the loop's task in a callback that brings something for the reads.
LEMMA CallbackNotifies ==
  ASSUME IInv, stream = "open", stream' = "open", Aside, entry = "answered",
         loop' = NotifyIfPending(loop),
         UNCHANGED <<resetReason, exception, filter, entry, requestSeen, requestEnded>>,
         answer' # "none"
  PROVE  /\ Beginning' /\ OnePlace' /\ Forgotten' /\ Waiting' /\ Forwarding' /\ Seen'
         /\ loop' \in Seq(LoopTasks)
<1> USE DEF IInv
<1>1. /\ Pipe' = Pipe /\ ~StartPending /\ ~StartPending' /\ future' # "none"
      /\ (StartPending => StartPending')
  BY AsideFacts
<1>2. /\ Adds({"notify"})
      /\ pendingFuture # 0 => \E k \in DOMAIN loop' : loop'[k] = "notify"
  BY AddNotify
<1>3. loop' \in Seq(LoopTasks)
  BY <1>2 DEF Adds
<1>4. Beginning'
  BY <1>1, BeginningIsPast
<1>5. OnePlace'
  BY <1>1, <1>2, OnePlaceAdds DEF Aside
<1>6. Forgotten'
  BY DEF Forgotten
<1>7. Waiting'
  BY <1>2, WaitingNotified DEF Aside
<1>8. Forwarding'
  BY <1>2, ForwardingKept DEF Aside
<1>9. Seen'
  BY <1>1, SeenKept DEF Aside
<1> QED
  BY <1>3, <1>4, <1>5, <1>6, <1>7, <1>8, <1>9

\* A callback for a stream that the filter has forgotten.
LEMMA CallbackIgnored ==
  ASSUME IInv, stream = "open", stream' = "open", Aside, entry = "none", answer = "headers",
         UNCHANGED <<fed, body, endStream, resetReason, exception, httpTrailers, loop,
                     filter, entry, requestSeen, requestEnded, commits>>,
         answer' \in {"headers", "ended", "trailers"}
  PROVE  IInv'
<1> USE DEF IInv, Aside
<1>1. /\ Pipe' = Pipe /\ ~StartPending /\ ~StartPending' /\ future' # "none"
      /\ (StartPending => StartPending')
  BY AsideFacts
<1>2. TypeOK'
  BY DEF TypeOK
<1>3. Beginning'
  BY <1>1, BeginningIsPast
<1>4. OnePlace'
  BY <1>1, OnePlaceKept
<1>5. Forgotten'
  BY DEF Forgotten
<1>6. Waiting' /\ Forwarding' /\ Seen'
  BY <1>1, WaitingKept, ForwardingKept, SeenKept
<1>7. Reads'
  <2>1. ~Answered
    BY DEF Answered
  <2>2. /\ ~(endStream' /\ ~resetReason')
        /\ \A k \in DOMAIN reads' : reads'[k] # "stop"
    BY <2>1 DEF Reads
  <2> HIDE DEF Answered
  <2> QED
    BY <2>2 DEF Reads
<1> QED
  BY <1>2, <1>3, <1>4, <1>5, <1>6, <1>7

LEMMA UpstreamDataStep ==
  ASSUME IInv, NEW hasChunk \in BOOLEAN, NEW end \in BOOLEAN, UpstreamData(hasChunk, end)
  PROVE  IInv'
<1> USE DEF IInv
<1>1. /\ stream = "open" /\ answer = "headers" /\ stream' = "open"
      /\ hasChunk => fed < MaxData
      /\ answer' = IF end THEN "ended" ELSE "headers"
      /\ UNCHANGED <<appVars, future, taskVars, pendingFuture, resetReason, exception,
                     httpTrailers, trailersShown, bridge, commits, batch, filter, entry,
                     requestSeen, requestEnded>>
  BY DEF UpstreamData, Callback
<1> USE DEF appVars, taskVars
<1>2. Aside
  BY <1>1 DEF Aside
<1>3. CASE entry = "none"
  <2>1. UNCHANGED <<fed, body, endStream, loop>>
    BY <1>3 DEF UpstreamData
  <2> QED
    BY <1>1, <1>2, <1>3, <2>1, CallbackIgnored
<1>4. CASE entry # "none"
  <2>1. /\ entry = "answered" /\ ~resetReason
    BY <1>1, <1>4 DEF TypeOK, Forgotten
  <2>2. /\ fed' = IF hasChunk THEN fed + 1 ELSE fed
        /\ body' = IF hasChunk THEN Append(body, fed + 1) ELSE body
        /\ endStream' = (endStream \/ end)
        /\ loop' = NotifyIfPending(loop)
    BY <1>4 DEF UpstreamData
  <2>3. /\ Beginning' /\ OnePlace' /\ Forgotten' /\ Waiting' /\ Forwarding' /\ Seen'
        /\ loop' \in Seq(LoopTasks)
    BY <1>1, <1>2, <2>1, <2>2, CallbackNotifies
  <2>4. /\ fed \in Nat /\ fed \in 0..MaxData /\ MaxData \in Nat
        /\ body \in Seq(1..MaxData) /\ received \in Seq(1..MaxData)
    BY Bounds, Lengths DEF TypeOK
  <2>5. fed' \in 0..MaxData /\ body' \in Seq(1..MaxData)
    <3>1. CASE hasChunk
      <4>1. fed + 1 \in 1..MaxData
        BY <1>1, <2>4, <3>1
      <4> QED
        BY <2>2, <2>4, <3>1, <4>1, AppendFacts
    <3>2. CASE ~hasChunk
      BY <2>2, <2>4, <3>2
    <3> QED
      BY <3>1, <3>2
  <2>6. endStream' \in BOOLEAN
    BY <2>2
  <2>7. TypeOK'
    BY <1>1, <2>3, <2>5, <2>6 DEF TypeOK, LoopTasks
  <2>8. ~Answered /\ ~endStream
    <3>1. ~Answered
      BY <1>1 DEF Answered
    <3> QED
      BY <2>1, <3>1 DEF Reads
  <2>9. received' \o body' = [k \in 1..fed' |-> k]
    <3>1. received \o body = [k \in 1..fed |-> k]
      BY DEF Reads
    <3>2. CASE hasChunk
      <4>1. received \in Seq(Nat) /\ body \in Seq(Nat)
        <5>1. ASSUME NEW s \in Seq(1..MaxData) PROVE s \in Seq(Nat)
          <6>1. Len(s) \in Nat /\ s \in [1..Len(s) -> 1..MaxData]
            BY LenProperties
          <6>2. s \in [1..Len(s) -> Nat]
            BY <2>4, <6>1
          <6> QED
            BY <6>1, <6>2, FunctionIsSeq
        <5> QED
          BY <2>4, <5>1
      <4>2. received \o Append(body, fed + 1) = [k \in 1..(fed + 1) |-> k]
        <5>1. fed \in Nat
          BY <2>4
        <5> QED
          BY ONLY ZenonT(120), <3>1, <4>1, <5>1, CountingOn
      <4> QED
        BY <1>1, <2>2, <3>2, <4>2
    <3>3. CASE ~hasChunk
      BY <1>1, <2>2, <3>1, <3>3
    <3> QED
      BY <3>2, <3>3
  <2>10. endStream' => Answered' /\ answer' # "trailers"
    BY <1>1, <2>2, <2>8 DEF Answered
  <2>11. \A k \in DOMAIN reads' : reads'[k] \notin {"stop", "error"}
    <3> HIDE DEF Answered
    <3> QED
      BY <1>1, <2>1, <2>8 DEF Reads
  <2>12. Reads'
    BY <2>9, <2>10, <2>11 DEF Reads
  <2> QED
    BY <2>3, <2>7, <2>12
<1> QED
  BY <1>3, <1>4

LEMMA UpstreamTrailersStep == ASSUME IInv, UpstreamTrailers PROVE IInv'
<1> USE DEF IInv
<1>1. /\ stream = "open" /\ answer = "headers" /\ stream' = "open"
      /\ answer' = "trailers"
      /\ UNCHANGED <<appVars, future, taskVars, pendingFuture, body, resetReason, exception,
                     trailersShown, bridge, commits, batch, filter, entry, fed,
                     requestSeen, requestEnded>>
  BY DEF UpstreamTrailers, Callback
<1> USE DEF appVars, taskVars
<1>2. Aside
  BY <1>1 DEF Aside
<1>3. CASE entry = "none"
  <2>1. UNCHANGED <<httpTrailers, endStream, loop>>
    BY <1>3 DEF UpstreamTrailers
  <2> QED
    BY <1>1, <1>2, <1>3, <2>1, CallbackIgnored
<1>4. CASE entry # "none"
  <2>1. /\ entry = "answered" /\ ~resetReason
    BY <1>1, <1>4 DEF TypeOK, Forgotten
  <2>2. /\ httpTrailers' = TRUE /\ endStream' = TRUE
        /\ loop' = NotifyIfPending(loop)
    BY <1>4 DEF UpstreamTrailers
  <2>3. /\ Beginning' /\ OnePlace' /\ Forgotten' /\ Waiting' /\ Forwarding' /\ Seen'
        /\ loop' \in Seq(LoopTasks)
    BY <1>1, <1>2, <2>1, <2>2, CallbackNotifies
  <2>4. httpTrailers' \in BOOLEAN /\ endStream' \in BOOLEAN
    BY <2>2
  <2>5. TypeOK'
    BY <1>1, <2>3, <2>4 DEF TypeOK, LoopTasks
  <2>6. ~Answered /\ Answered'
    BY <1>1 DEF Answered
  <2>7. \A k \in DOMAIN reads' : reads'[k] \notin {"stop", "error"}
    <3> HIDE DEF Answered
    <3> QED
      BY <1>1, <2>1, <2>6 DEF Reads
  <2>8. Reads'
    <3> HIDE DEF Answered
    <3> QED
      BY <1>1, <2>2, <2>6, <2>7 DEF Reads
  <2> QED
    BY <2>3, <2>5, <2>8
<1> QED
  BY <1>3, <1>4

\* What the loop's thread is told of a stream that is forgotten.
LEMMA ForgetsStream ==
  ASSUME IInv, entry # "none", entry' = "none", future' = future,
         filter = "dropped" => filter' = "dropped",
         UNCHANGED <<reads, pendingFuture, streaming, task, forwarded>>,
         \/ /\ entry = "waiting"
            /\ \/ loop' = NotifyIfPending(Append(loop, "fail"))
               \/ loop' = Append(loop, "fail") /\ UNCHANGED <<body, endStream>>
         \/ entry = "answered" /\ loop' = NotifyIfPending(loop)
  PROVE  OnePlace' /\ Waiting' /\ Forwarding' /\ loop' \in Seq(LoopTasks)
<1> USE DEF IInv
<1>1. CASE entry = "waiting"
  <2>1. \/ loop' = NotifyIfPending(Append(loop, "fail"))
        \/ loop' = Append(loop, "fail") /\ UNCHANGED <<body, endStream>>
    BY <1>1
  <2>2. PICK kinds : /\ Adds(kinds) /\ "forward" \notin kinds
                     /\ \E k \in DOMAIN loop' : loop'[k] = "fail"
    <3>1. CASE loop' = NotifyIfPending(Append(loop, "fail"))
      BY <3>1, AddFailNotify
    <3>2. CASE loop' = Append(loop, "fail")
      <4>1. Adds({"fail"}) /\ Len(loop') = Len(loop) + 1 /\ loop'[Len(loop) + 1] = "fail"
        BY <3>2, AddOne DEF LoopTasks
      <4>2. Len(loop) + 1 \in DOMAIN loop'
        BY <4>1, Lengths DEF Adds
      <4> QED
        BY <4>1, <4>2
    <3> QED
      BY <2>1, <3>1, <3>2
  <2>3. Completing'
    BY <2>2 DEF Completing, Completions
  <2>4. OnePlace'
    BY <1>1, <2>2, <2>3, OnePlaceMoves
  <2>5. Waiting'
    BY <2>1, <2>2, AddFailNotify, WaitingNotified, WaitingKept
  <2>6. Forwarding' /\ loop' \in Seq(LoopTasks)
    <3>1. loop' \in Seq(LoopTasks)
      BY <2>2 DEF Adds
    <3> QED
      BY <2>2, <3>1, ForwardingKept
  <2> QED
    BY <2>4, <2>5, <2>6
<1>2. CASE entry # "waiting"
  <2>1. /\ Adds({"notify"})
        /\ pendingFuture # 0 => \E k \in DOMAIN loop' : loop'[k] = "notify"
    BY <1>2, AddNotify
  <2>2. ~StartPending
    BY DEF Beginning, Forgotten
  <2>3. OnePlace'
    BY <1>2, <2>1, <2>2, OnePlaceAdds
  <2>4. Waiting' /\ Forwarding'
    BY <2>1, WaitingNotified, ForwardingKept
  <2>5. loop' \in Seq(LoopTasks)
    BY <2>1 DEF Adds
  <2> QED
    BY <2>3, <2>4, <2>5
<1> QED
  BY <1>1, <1>2

LEMMA ResetStep ==
  ASSUME IInv, stream # "none", OnHttpStreamReset,
         UNCHANGED <<streaming, reads, received, closes, future, task, forwarded,
                     pendingFuture, body, httpTrailers, trailersShown, commits, filter,
                     answer, fed, requestSeen, requestEnded>>,
         bridge' \in Seq(TransportEvents), batch' \in Seq(TransportEvents),
         exception' \in BOOLEAN, exception' => entry # "none" \/ exception,
         \A k \in 1..Len(Pipe') : Pipe'[k].kind = "start"
           => \E j \in 1..Len(Pipe) : Pipe[j].kind = "start"
  PROVE  IInv'
<1> USE DEF IInv
<1>1. stream' = "gone" /\ entry' = "none"
  BY DEF OnHttpStreamReset
<1>2. future' # "none"
  BY DEF Beginning
<1>3. Beginning' /\ ~StartPending
  BY <1>1, <1>2, BeginningIsPast
<1>4. Seen'
  BY <1>1, SeenKept
<1>5. CASE entry = "none"
  <2>1. UNCHANGED <<endStream, resetReason, loop, entry>>
    BY <1>1, <1>5 DEF OnHttpStreamReset
  <2>2. TypeOK'
    BY <1>1, <2>1 DEF TypeOK
  <2>3. OnePlace' /\ Waiting' /\ Forwarding' /\ Reads'
    BY <1>3, <2>1, OnePlaceKept, WaitingKept, ForwardingKept, ReadsKept
  <2>4. Forgotten'
    BY <1>1, <1>5, <2>1 DEF Forgotten
  <2> QED
    BY <1>3, <1>4, <2>2, <2>3, <2>4
<1>6. CASE entry # "none"
  <2>1. /\ endStream' = TRUE /\ resetReason' = TRUE
        /\ loop' = NotifyIfPending(IF entry = "waiting" THEN Append(loop, "fail") ELSE loop)
    BY <1>6 DEF OnHttpStreamReset
  <2>2. \/ entry = "waiting" /\ loop' = NotifyIfPending(Append(loop, "fail"))
        \/ entry = "answered" /\ loop' = NotifyIfPending(loop)
    BY <1>6, <2>1 DEF TypeOK
  <2>3. OnePlace' /\ Waiting' /\ Forwarding' /\ loop' \in Seq(LoopTasks)
    BY <1>1, <1>6, <2>2, ForgetsStream
  <2>4. endStream' \in BOOLEAN /\ resetReason' \in BOOLEAN
    BY <2>1
  <2>5. TypeOK'
    BY <1>1, <2>3, <2>4 DEF TypeOK, LoopTasks
  <2>6. Forgotten' /\ Reads'
    BY <1>1, <2>1, ReadsKept DEF Forgotten
  <2> QED
    BY <1>3, <1>4, <2>3, <2>5, <2>6
<1> QED
  BY <1>5, <1>6

LEMMA UpstreamResetStep == ASSUME IInv, UpstreamReset PROVE IInv'
<1>1. /\ stream = "open" /\ OnHttpStreamReset
      /\ UNCHANGED <<appVars, future, taskVars, pendingFuture, body, exception,
                     httpTrailers, trailersShown, bridge, commits, batch, filter, answer,
                     fed, requestSeen, requestEnded>>
  BY DEF UpstreamReset, Callback
<1> USE DEF appVars, taskVars
<1>2. Pipe' = Pipe
  BY <1>1 DEF Pipe
<1>3. /\ bridge' \in Seq(TransportEvents) /\ batch' \in Seq(TransportEvents)
      /\ exception' \in BOOLEAN
  BY <1>1 DEF IInv, TypeOK
<1> QED
  BY <1>1, <1>2, <1>3, ResetStep

\* The filter lets go of a stream that owes nobody anything.
LEMMA LetsGo ==
  ASSUME IInv, entry' = "none", stream' = IF stream = "open" THEN "gone" ELSE stream,
         UNCHANGED <<appVars, future, taskVars, stateVars, bridge, loop, batch, answer, fed,
                     requestSeen, requestEnded>>,
         commits' \in Nat, filter' \in {"live", "complete", "dropped"},
         entry = "waiting" \/ filter = "dropped" => filter' = "dropped"
  PROVE  IInv'
<1> USE DEF IInv, appVars, taskVars, stateVars
<1>1. Pipe' = Pipe /\ (StartPending' <=> StartPending)
  BY DEF Pipe, StartPending
<1>2. TypeOK'
  BY DEF TypeOK
<1>3. Beginning'
  <2>1. CASE stream = "none"
    <3>1. StartPending => future \in {"pending", "cancelled"}
      BY DEF Beginning
    <3> HIDE DEF StartPending
    <3> QED
      BY <1>1, <2>1, <3>1, BeginningKept
  <2>2. CASE stream # "none"
    <3>1. future' # "none"
      BY <2>2 DEF Beginning
    <3> QED
      BY <1>1, <2>2, <3>1, BeginningIsPast
  <2> QED
    BY <2>1, <2>2
<1>4. OnePlace'
  <2>1. Completing' <=> Completing
    BY DEF Completing
  <2> HIDE DEF Completing, StartPending
  <2> QED
    BY <1>1, <2>1 DEF OnePlace
<1>5. Forgotten'
  BY DEF Forgotten
<1>6. Waiting' /\ Forwarding' /\ Reads' /\ Seen'
  BY <1>1, WaitingKept, ForwardingKept, ReadsKept, SeenKept
<1> QED
  BY <1>2, <1>3, <1>4, <1>5, <1>6

LEMMA UpstreamCompleteStep == ASSUME IInv, UpstreamComplete PROVE IInv'
<1>1. /\ stream = "open" /\ answer \in {"ended", "trailers"}
      /\ stream' = "gone" /\ entry' = "none"
      /\ UNCHANGED <<appVars, future, taskVars, stateVars, bridge, commits, loop, batch,
                     filter, answer, fed, requestSeen, requestEnded>>
  BY DEF UpstreamComplete, Callback
<1>2. entry # "waiting" /\ commits' \in Nat /\ filter' \in {"live", "complete", "dropped"}
  BY <1>1 DEF IInv, TypeOK, Forgotten
<1> QED
  BY <1>1, <1>2, LetsGo

LEMMA DropStep == ASSUME IInv, Drop PROVE IInv'
<1>1. /\ filter' = "dropped" /\ commits' = 0 /\ entry' = "none"
      /\ stream' = IF stream = "open" THEN "gone" ELSE stream
      /\ UNCHANGED <<appVars, future, taskVars, stateVars, bridge, loop, batch, answer, fed,
                     requestSeen, requestEnded>>
  BY DEF Drop
<1> QED
  BY <1>1, LetsGo

LEMMA OnStreamCompleteStep == ASSUME IInv, OnStreamComplete PROVE IInv'
<1> USE DEF IInv
<1>1. /\ filter = "live" /\ filter' = "complete" /\ entry' = "none"
      /\ UNCHANGED <<appVars, future, taskVars, pendingFuture, body, exception,
                     httpTrailers, trailersShown, bridge, commits, batch, upstreamVars>>
  BY DEF OnStreamComplete
<1> USE DEF appVars, taskVars, upstreamVars
<1>2. Pipe' = Pipe /\ (StartPending' <=> StartPending)
  BY <1>1 DEF Pipe, StartPending
<1>3. Seen'
  BY <1>1, SeenKept
<1>4. CASE entry = "none"
  <2>1. UNCHANGED <<loop, endStream, resetReason, entry>>
    BY <1>1, <1>4 DEF OnStreamComplete
  <2>2. TypeOK'
    BY <1>1, <2>1 DEF TypeOK
  <2>3. Beginning'
    <3>1. StartPending => future \in {"pending", "cancelled"}
      BY DEF Beginning
    <3> HIDE DEF StartPending
    <3> QED
      BY <1>1, <1>2, <2>1, <3>1, BeginningKept
  <2>4. OnePlace' /\ Forgotten' /\ Waiting' /\ Forwarding' /\ Reads'
    BY <1>1, <1>2, <2>1, OnePlaceKept, ForgottenKept, WaitingKept, ForwardingKept,
       ReadsKept
  <2> QED
    BY <1>3, <2>2, <2>3, <2>4
<1>5. CASE entry # "none"
  <2>1. \/ /\ entry = "waiting" /\ loop' = Append(loop, "fail")
           /\ UNCHANGED <<endStream, resetReason>>
        \/ /\ entry = "answered" /\ endStream' = TRUE /\ resetReason' = TRUE
           /\ loop' = NotifyIfPending(loop)
    BY <1>5 DEF OnStreamComplete, TypeOK
  <2>2. OnePlace' /\ Waiting' /\ Forwarding' /\ loop' \in Seq(LoopTasks)
    BY <1>1, <1>5, <2>1, ForgetsStream
  <2>3. endStream' \in BOOLEAN /\ resetReason' \in BOOLEAN
    BY <2>1 DEF TypeOK
  <2>4. TypeOK'
    BY <1>1, <2>2, <2>3 DEF TypeOK, LoopTasks
  <2>5. Beginning'
    <3>1. stream # "none"
      BY <1>5 DEF Forgotten
    <3>2. future' # "none"
      BY <1>1, <3>1 DEF Beginning
    <3> QED
      BY <1>1, <1>2, <3>1, <3>2, BeginningIsPast
  <2>6. Forgotten' /\ Reads'
    BY <1>1, <2>1, ReadsKept DEF Forgotten
  <2> QED
    BY <1>3, <2>2, <2>4, <2>5, <2>6
<1> QED
  BY <1>4, <1>5

-----------------------------------------------------------------------------
(* Envoy's thread: the events of the batch.                                *)

\* After the event that was handled, the start is no longer on its way.
LEMMA HandledFacts ==
  ASSUME IInv, batch # <<>>, batch' = Tail(batch), bridge' = bridge
  PROVE  /\ batch' \in Seq(TransportEvents) /\ bridge' \in Seq(TransportEvents)
         /\ ~StartPending' /\ future # "none"
         /\ \A k \in 1..Len(Pipe') : Pipe'[k].kind = "start"
              => \E j \in 1..Len(Pipe) : Pipe[j].kind = "start"
<1> USE DEF IInv
<1>1. /\ batch' \in Seq(TransportEvents) /\ bridge' \in Seq(TransportEvents)
      /\ Len(Pipe) \in Nat /\ Len(Pipe) >= 1 /\ Len(Pipe') = Len(Pipe) - 1
      /\ \A k \in 1..Len(Pipe') : k + 1 \in 1..Len(Pipe) /\ Pipe'[k] = Pipe[k + 1]
  BY PipeShifts, Lengths
<1>2. \A k \in 1..Len(Pipe') : Pipe'[k].kind = "start"
        => \E j \in 1..Len(Pipe) : Pipe[j].kind = "start"
  BY <1>1
<1>3. StartPending' => StartPending
  BY <1>2 DEF StartPending
<1>4. ASSUME StartPending PROVE Len(Pipe') = 0
  <2>1. Len(Pipe) = 1
    BY <1>4 DEF Beginning
  <2>2. Len(Pipe') = Len(Pipe) - 1
    BY <1>1
  <2> QED
    BY <2>1, <2>2
<1>5. ~StartPending'
  <2>1. StartPending' => Len(Pipe') # 0
    BY DEF StartPending
  <2> QED
    BY <1>3, <1>4, <2>1
<1>6. future # "none"
  BY PipeFacts DEF Beginning
<1> QED
  BY <1>1, <1>2, <1>5, <1>6

LEMMA EventIgnored ==
  ASSUME IInv, batch # <<>>, batch' = Tail(batch), entry = "none",
         UNCHANGED <<appVars, future, taskVars, stateVars, bridge, commits, loop, filter,
                     entry, upstreamVars>>,
         ~StartPending
  PROVE  IInv'
<1> USE DEF IInv, appVars, taskVars, stateVars, upstreamVars
<1>1. /\ batch' \in Seq(TransportEvents) /\ bridge' \in Seq(TransportEvents)
      /\ ~StartPending' /\ future # "none"
  BY HandledFacts
<1>2. TypeOK'
  BY <1>1 DEF TypeOK
<1>3. Beginning'
  BY <1>1 DEF Beginning
<1>4. OnePlace'
  <2>1. StartPending => StartPending'
    OBVIOUS
  <2> QED
    BY <2>1, OnePlaceKept
<1>5. Forgotten' /\ Waiting' /\ Forwarding' /\ Reads' /\ Seen'
  BY ForgottenKept, WaitingKept, ForwardingKept, ReadsKept, SeenKept
<1> QED
  BY <1>2, <1>3, <1>4, <1>5

LEMMA HandleStartStep ==
  ASSUME IInv, batch # <<>>, batch' = Tail(batch), Head(batch).kind = "start", HandleStart,
         UNCHANGED <<appVars, future, taskVars, bridge, commits, filter>>
  PROVE  IInv'
<1> USE DEF IInv, appVars, taskVars
<1>1. /\ batch' \in Seq(TransportEvents) /\ bridge' \in Seq(TransportEvents)
      /\ ~StartPending' /\ future # "none"
  BY HandledFacts
<1>2. StartPending
  BY PipeShifts DEF StartPending
<1>3. /\ future \in {"pending", "cancelled"} /\ stream = "none" /\ loop = <<>>
      /\ Len(Pipe) = 1
  BY <1>2 DEF Beginning
<1>4. /\ task = "none" /\ requestSeen = <<>> /\ answer = "none" /\ ~endStream
      /\ ~requestEnded /\ entry = "none" /\ ~resetReason /\ forwarded = 0 /\ fed = 0
  BY <1>3 DEF Beginning, Forgotten, Forwarding
<1>5. Len(Pipe') = 0
  <2>1. Len(Pipe') = Len(Pipe) - 1
    BY PipeShifts
  <2> QED
    BY <1>3, <2>1
<1>6. UNCHANGED <<stateVars, answer, fed, requestSeen>>
  BY DEF HandleStart
<1> USE DEF stateVars
<1>7. Len(loop) = 0 /\ Len(requestSeen) = 0 /\ DOMAIN loop = {} /\ ~Completing
  <2>1. Len(loop) = 0 /\ Len(requestSeen) = 0
    BY <1>3, <1>4, EmptySeq
  <2>2. DOMAIN loop = {}
    BY <2>1, Lengths
  <2> QED
    BY <2>1, <2>2 DEF Completing
<1>8. CASE /\ stream' = "open" /\ entry' = "waiting" /\ requestEnded' = ~streaming
           /\ loop' = IF streaming THEN Append(loop, "forward") ELSE loop
  <2>1. \/ streaming /\ Adds({"forward"}) /\ Len(loop') = 1 /\ loop'[1] = "forward"
        \/ loop' = loop /\ ~streaming
    <3>1. CASE streaming
      <4>1. Adds({"forward"}) /\ Len(loop') = Len(loop) + 1 /\ loop'[Len(loop) + 1] = "forward"
        BY <1>8, <3>1, AddOne DEF LoopTasks
      <4> QED
        BY <1>7, <3>1, <4>1
    <3>2. CASE ~streaming
      BY <1>8, <3>2
    <3> QED
      BY <3>1, <3>2
  <2>2. /\ loop' \in Seq(LoopTasks)
        /\ \A k \in DOMAIN loop' : k = 1 /\ loop'[k] = "forward" /\ streaming
    <3>1. CASE streaming /\ Adds({"forward"}) /\ Len(loop') = 1 /\ loop'[1] = "forward"
      BY <3>1 DEF Adds
    <3>2. CASE loop' = loop
      BY <1>7, <3>2, Lengths
    <3> QED
      BY <2>1, <3>1, <3>2
  <2>3. TypeOK'
    <3>1. requestEnded' \in BOOLEAN
      BY <1>8
    <3> QED
      BY <1>1, <1>6, <1>8, <2>2, <3>1 DEF TypeOK, LoopTasks
  <2>4. Beginning'
    BY <1>1, <1>8 DEF Beginning
  <2>5. OnePlace'
    <3>1. ~Completing'
      BY <2>2 DEF Completing, Completions
    <3>2. \A j, k \in DOMAIN loop' : j = k
      BY <2>2
    <3> HIDE DEF Completing
    <3> QED
      BY <1>3, <1>8, <3>1, <3>2 DEF OnePlace
  <2>6. Forgotten'
    BY <1>4, <1>6, <1>8 DEF Forgotten
  <2>7. Waiting' /\ Reads'
    BY <1>6, <2>1, WaitingKept, ReadsKept
  <2>8. Forwarding'
    BY <1>4, <2>2 DEF Forwarding
  <2>9. Seen'
    <3>1. Len(requestSeen') = 0 /\ Len(requestSeen') + Len(Pipe') = forwarded'
      BY <1>4, <1>5, <1>6, <1>7
    <3>2. \A k \in 1..Len(requestSeen') : requestSeen'[k] = k
      BY <3>1
    <3>3. \A k \in 1..Len(Pipe') : FALSE
      BY <1>5
    <3>4. ~(streaming' /\ requestEnded')
      BY <1>8
    <3> QED
      BY <3>1, <3>2, <3>3, <3>4 DEF Seen
  <2> QED
    BY <2>3, <2>4, <2>5, <2>6, <2>7, <2>8, <2>9
<1>9. CASE loop' = Append(loop, "fail") /\ UNCHANGED <<stream, entry, requestEnded>>
  <2>1. Adds({"fail"}) /\ Len(loop') = Len(loop) + 1 /\ loop'[Len(loop) + 1] = "fail"
    BY <1>9, AddOne DEF LoopTasks
  <2>2. /\ loop' \in Seq(LoopTasks) /\ 1 \in DOMAIN loop' /\ loop'[1] = "fail"
        /\ \A k \in DOMAIN loop' : k = 1
    BY <1>7, <2>1 DEF Adds
  <2>3. TypeOK'
    BY <1>1, <1>6, <1>9, <2>2 DEF TypeOK, LoopTasks
  <2>4. Beginning'
    <3>1. \A k \in DOMAIN loop' : loop'[k] # "forward"
      BY <2>2
    <3> QED
      BY <1>1, <1>3, <1>4, <1>6, <1>9, <3>1 DEF Beginning
  <2>5. OnePlace'
    <3>1. Completing'
      BY <2>2 DEF Completing, Completions
    <3>2. \A j, k \in DOMAIN loop' : j = k
      BY <2>2
    <3> HIDE DEF Completing
    <3> QED
      BY <1>3, <1>4, <1>9, <3>1, <3>2 DEF OnePlace
  <2>6. Forgotten' /\ Waiting' /\ Forwarding' /\ Reads'
    BY <1>6, <1>9, <2>1, ForgottenKept, WaitingKept, ForwardingKept, ReadsKept
  <2>7. Seen'
    BY <1>4, <1>6, <1>9, SeenKept
  <2> QED
    BY <2>3, <2>4, <2>5, <2>6, <2>7
<1> QED
  BY <1>8, <1>9 DEF HandleStart

LEMMA HandleResetStep ==
  ASSUME IInv, batch # <<>>, batch' = Tail(batch), Head(batch).kind \in {"reset", "fail"},
         HandleReset(Head(batch)),
         UNCHANGED <<appVars, future, taskVars, bridge, commits, filter>>
  PROVE  IInv'
<1> USE DEF appVars, taskVars
<1>1. UNCHANGED <<pendingFuture, body, httpTrailers, trailersShown, answer, fed,
                  requestSeen, requestEnded>>
  BY DEF HandleReset
<1>2. CASE entry # "none"
  <2>1. /\ exception' = (exception \/ Head(batch).kind = "fail") /\ OnHttpStreamReset
    BY <1>2 DEF HandleReset
  <2>2. exception' \in BOOLEAN
    BY <2>1
  <2>3. stream # "none"
    BY <1>2 DEF IInv, Forgotten
  <2> QED
    BY <1>1, <1>2, <2>1, <2>2, <2>3, HandledFacts, ResetStep
<1>3. CASE entry = "none"
  <2>1. UNCHANGED <<exception, endStream, resetReason, loop, entry, stream>>
    BY <1>3 DEF HandleReset
  <2>2. ~StartPending
    <3>1. ASSUME StartPending PROVE FALSE
      <4>1. Pipe[1].kind = "start"
        BY <3>1, EventsAre DEF IInv, Beginning
      <4> QED
        BY <4>1, PipeShifts DEF IInv
    <3> QED
      BY <3>1
  <2> QED
    BY <1>1, <1>3, <2>1, <2>2, EventIgnored DEF stateVars, upstreamVars
<1> QED
  BY <1>2, <1>3

\* The event is the next of the request, and the others follow it.
LEMMA HandleDataStep ==
  ASSUME IInv, batch # <<>>, batch' = Tail(batch), Head(batch).kind \in {"data", "end"},
         HandleData(Head(batch)),
         UNCHANGED <<appVars, future, taskVars, bridge, commits, filter>>
  PROVE  IInv'
<1> USE DEF IInv, appVars, taskVars
<1>1. UNCHANGED <<stateVars, loop, entry, stream, answer, fed>>
  BY DEF HandleData
<1> USE DEF stateVars
<1>2. /\ Head(batch) = Pipe[1] /\ Head(batch) \in TransportEvents
      /\ Len(Pipe) \in Nat /\ Len(Pipe) >= 1 /\ 1 \in 1..Len(Pipe)
      /\ Len(Pipe') = Len(Pipe) - 1
      /\ \A k \in 1..Len(Pipe') : k + 1 \in 1..Len(Pipe) /\ Pipe'[k] = Pipe[k + 1]
  BY PipeShifts
<1>3. /\ batch' \in Seq(TransportEvents) /\ bridge' \in Seq(TransportEvents)
      /\ ~StartPending' /\ future # "none"
  BY HandledFacts
<1>4. ~StartPending
  <2>1. ASSUME StartPending PROVE FALSE
    <3>1. Pipe[1].kind = "start"
      BY <2>1, EventsAre DEF Beginning
    <3> QED
      BY <1>2, <3>1
  <2> QED
    BY <2>1
<1>5. CASE entry = "none"
  <2>1. UNCHANGED <<requestSeen, requestEnded>>
    BY <1>5 DEF HandleData
  <2> QED
    BY <1>1, <1>4, <1>5, <2>1, EventIgnored DEF upstreamVars
<1>6. CASE entry # "none"
  <2>1. PICK e \in TransportEvents : e = Head(batch)
    BY <1>2
  <2>2. /\ e = Pipe[1] /\ e.kind \in {"data", "end"}
        /\ requestSeen' = IF e.kind = "data" THEN Append(requestSeen, e.chunk)
                          ELSE requestSeen
        /\ requestEnded' = (requestEnded \/ e.kind = "end")
    BY <1>2, <1>6, <2>1 DEF HandleData
  <2>3. ~ResetUpTo(1) /\ \A k \in 1..Len(Pipe') : ~ResetUpTo(k)' => ~ResetUpTo(k + 1)
    <3>1. ~ResetUpTo(1)
      BY <2>2 DEF ResetUpTo
    <3>2. ASSUME NEW k \in 1..Len(Pipe'), ResetUpTo(k + 1) PROVE ResetUpTo(k)'
      <4>1. PICK j \in 1..(k + 1) : Pipe[j].kind \in {"reset", "fail"}
        BY <3>2 DEF ResetUpTo
      <4>2. j # 1
        BY <2>2, <4>1
      <4>3. k \in Nat /\ j - 1 \in 1..k /\ j - 1 \in 1..Len(Pipe')
        BY <1>2, <4>1, <4>2
      <4>4. Pipe'[j - 1] = Pipe[j]
        BY <1>2, <4>1, <4>3
      <4> QED
        BY <4>1, <4>3, <4>4 DEF ResetUpTo
    <3> QED
      BY <3>1, <3>2
  <2>4. Coming(e, Len(requestSeen) + 1)
    BY <1>2, <1>6, <2>2, <2>3 DEF Seen
  <2>5. /\ Len(requestSeen) \in Nat /\ forwarded \in Nat
        /\ requestSeen \in Seq(1..MaxForwarded) /\ forwarded \in 0..MaxForwarded
    BY Lengths DEF TypeOK
  <2>6. requestEnded' \in BOOLEAN
    BY <2>2
  <2>7. ASSUME NEW k \in 1..Len(Pipe'), ~ResetUpTo(k)'
        PROVE  Coming(Pipe[k + 1], Len(requestSeen) + (k + 1)) /\ Pipe'[k] = Pipe[k + 1]
    <3>1. k + 1 \in 1..Len(Pipe) /\ Pipe'[k] = Pipe[k + 1] /\ ~ResetUpTo(k + 1)
      BY <1>2, <2>3, <2>7
    <3> QED
      BY <1>6, <3>1 DEF Seen
  <2>8. ResetOnWay => ResetOnWay'
    <3>1. ASSUME ResetOnWay PROVE ResetOnWay'
      <4>1. PICK j \in 1..Len(Pipe) : Pipe[j].kind \in {"reset", "fail"}
        BY <3>1 DEF ResetOnWay, ResetUpTo
      <4>2. j # 1
        BY <2>2, <4>1
      <4>3. j - 1 \in 1..Len(Pipe')
        BY <1>2, <4>1, <4>2
      <4>4. Pipe'[j - 1] = Pipe[j]
        BY <1>2, <4>1, <4>3
      <4> QED
        BY <4>1, <4>3, <4>4 DEF ResetOnWay, ResetUpTo
    <3> QED
      BY <3>1
  <2>9. Beginning'
    <3>1. stream # "none"
      BY <1>6 DEF Forgotten
    <3> QED
      BY <1>1, <1>3, <3>1 DEF Beginning
  <2>10. OnePlace' /\ Forgotten' /\ Waiting' /\ Forwarding' /\ Reads'
    BY <1>1, <1>4, OnePlaceKept, ForgottenKept, WaitingKept, ForwardingKept, ReadsKept
  <2>11. CASE e.kind = "data"
    <3>1. /\ e.chunk = Len(requestSeen) + 1 /\ e.chunk <= forwarded
          /\ e.chunk \in 1..MaxForwarded
      BY <2>4, <2>5, <2>11, Bounds DEF Coming
    <3>2. requestEnded' = requestEnded
      BY <2>2, <2>11 DEF TypeOK
    <3>3. /\ requestSeen' \in Seq(1..MaxForwarded)
          /\ Len(requestSeen') = Len(requestSeen) + 1
          /\ \A k \in 1..Len(requestSeen) : requestSeen'[k] = requestSeen[k]
          /\ requestSeen'[Len(requestSeen) + 1] = e.chunk
      BY <2>2, <2>5, <2>11, <3>1, AppendFacts
    <3>4. TypeOK'
      BY <1>1, <1>3, <2>6, <3>3 DEF TypeOK
    <3>5. \A k \in 1..Len(requestSeen') : requestSeen'[k] = k
      <4> TAKE k \in 1..Len(requestSeen')
      <4>1. CASE k = Len(requestSeen) + 1
        BY <3>1, <3>3, <4>1
      <4>2. CASE k # Len(requestSeen) + 1
        <5>1. k \in 1..Len(requestSeen)
          BY <2>5, <3>3, <4>2
        <5> QED
          BY <3>3, <5>1 DEF Seen
      <4> QED
        BY <4>1, <4>2
    <3>6. ~(streaming /\ requestEnded)
      <4>1. streaming /\ requestEnded => Len(requestSeen) = forwarded
        BY DEF Seen
      <4> QED
        BY <2>5, <3>1, <4>1
    <3>7. ASSUME NEW k \in 1..Len(Pipe'), ~ResetUpTo(k)'
          PROVE  Coming(Pipe[k], Len(requestSeen) + k)'
      <4>1. PICK d, n : d = Pipe[k + 1] /\ n = Len(requestSeen) + (k + 1)
        OBVIOUS
      <4>2. Coming(d, n) /\ Pipe'[k] = d
        BY <2>7, <3>7, <4>1
      <4>3. n = Len(requestSeen') + k
        BY <1>2, <2>5, <3>3, <4>1
      <4> QED
        BY <4>2, <4>3 DEF Coming
    <3>8. ASSUME ~ResetOnWay', task' \notin {"ended", "failed"}
          PROVE  Len(requestSeen') + Len(Pipe') = forwarded'
      <4>1. Len(requestSeen) + Len(Pipe) = forwarded
        BY <1>6, <2>8, <3>8 DEF Seen
      <4>2. /\ Len(requestSeen') = Len(requestSeen) + 1 /\ Len(Pipe') = Len(Pipe) - 1
            /\ Len(Pipe) \in Nat /\ Len(requestSeen) \in Nat
        BY <1>2, <2>5, <3>3
      <4> QED
        BY <4>1, <4>2
    <3>9. Seen'
      BY <3>2, <3>5, <3>6, <3>7, <3>8 DEF Seen
    <3> QED
      BY <2>9, <2>10, <3>4, <3>9
  <2>12. CASE e.kind = "end"
    <3>1. task = "ended" /\ Len(requestSeen) = forwarded /\ requestSeen' = requestSeen
      BY <2>2, <2>4, <2>5, <2>12 DEF Coming
    <3>2. TypeOK'
      BY <1>1, <1>3, <2>6, <3>1 DEF TypeOK
    <3>3. ASSUME NEW k \in 1..Len(Pipe'), ~ResetUpTo(k)' PROVE FALSE
      <4>1. Coming(Pipe[k + 1], Len(requestSeen) + (k + 1))
        BY <2>7, <3>3
      <4> QED
        BY <1>2, <2>5, <3>1, <4>1 DEF Coming
    <3>4. \A k \in 1..Len(requestSeen') : requestSeen'[k] = k
      BY <3>1 DEF Seen
    <3>5. Seen'
      BY <3>1, <3>3, <3>4 DEF Seen
    <3> QED
      BY <2>9, <2>10, <3>2, <3>5
  <2> QED
    BY <2>2, <2>11, <2>12
<1> QED
  BY <1>5, <1>6

LEMMA HandleEventStep == ASSUME IInv, HandleEvent PROVE IInv'
<1>1. /\ batch # <<>> /\ batch' = Tail(batch)
      /\ UNCHANGED <<appVars, future, taskVars, bridge, commits, filter>>
  BY DEF HandleEvent
<1>2. Head(batch).kind \in {"start", "data", "end", "reset", "fail"}
  <2>1. Head(batch) \in TransportEvents
    BY <1>1, Lengths, TailFacts DEF IInv
  <2> QED
    BY <2>1 DEF TransportEvents
<1>3. CASE Head(batch).kind = "start"
  BY <1>1, <1>3, HandleStartStep DEF HandleEvent
<1>4. CASE Head(batch).kind \in {"data", "end"}
  BY <1>1, <1>4, HandleDataStep DEF HandleEvent
<1>5. CASE Head(batch).kind \in {"reset", "fail"}
  BY <1>1, <1>5, HandleResetStep DEF HandleEvent
<1> QED
  BY <1>2, <1>3, <1>4, <1>5

-----------------------------------------------------------------------------
(* The event loop: the tasks.                                              *)

\* The tasks behind the one that runs move up.
LEMMA LoopShifts ==
  ASSUME TypeOK, loop # <<>>, loop' = Tail(loop)
  PROVE  /\ loop' \in Seq(LoopTasks) /\ Len(loop') \in Nat
         /\ Head(loop) = loop[1] /\ 1 \in DOMAIN loop /\ Head(loop) \in LoopTasks
         /\ \A k \in DOMAIN loop' :
              k # 0 /\ k + 1 # 1 /\ k + 1 \in DOMAIN loop /\ loop'[k] = loop[k + 1]
         /\ \A k \in DOMAIN loop : k # 1 => \E j \in DOMAIN loop' : loop'[j] = loop[k]
<1>1. /\ loop' \in Seq(LoopTasks) /\ DOMAIN loop' = 1..(Len(loop) - 1)
      /\ \A k \in 1..(Len(loop) - 1) : loop'[k] = loop[k + 1]
      /\ Head(loop) = loop[1] /\ Head(loop) \in LoopTasks
      /\ Len(loop) \in Nat \ {0} /\ DOMAIN loop = 1..Len(loop)
      /\ Len(loop') = Len(loop) - 1
  BY Lengths, TailFacts
<1>2. ASSUME NEW k \in DOMAIN loop, k # 1 PROVE \E j \in DOMAIN loop' : loop'[j] = loop[k]
  <2>1. k - 1 \in DOMAIN loop' /\ (k - 1) + 1 = k
    BY <1>1, <1>2
  <2> QED
    BY <1>1, <2>1
<1> QED
  BY <1>1, <1>2

\* What every task leaves alone, and what it may do to the future and the task.
LEMMA TaskStep ==
  ASSUME IInv, loop # <<>>, loop' = Tail(loop), TypeOK', Waiting', Reads',
         UNCHANGED <<streaming, closes, forwarded, endStream, resetReason, bridge, commits,
                     batch, filter, entry, upstreamVars>>,
         exception' \in {exception, FALSE}, future' # "none",
         task' = task \/ {task, task'} \subseteq {"none", "running", "cancelling"},
         task' = task \/ (task' # "none" /\ (task # "none" \/ Head(loop) = "forward")),
         Head(loop) \in Completions => future' # "pending",
         Head(loop) \notin Completions => future' = future
  PROVE  IInv'
<1> USE DEF IInv, upstreamVars
<1>1. /\ Head(loop) = loop[1] /\ 1 \in DOMAIN loop
      /\ \A k \in DOMAIN loop' :
           k # 0 /\ k + 1 # 1 /\ k + 1 \in DOMAIN loop /\ loop'[k] = loop[k + 1]
      /\ \A k \in DOMAIN loop : k # 1 => \E j \in DOMAIN loop' : loop'[j] = loop[k]
  BY LoopShifts
<1>2. Pipe' = Pipe /\ (StartPending' <=> StartPending)
  BY DEF Pipe, StartPending
<1>3. future # "none" /\ ~StartPending
  BY DEF Beginning
<1>4. \A k \in DOMAIN loop' : loop'[k] # "forward"
  BY <1>1 DEF Forwarding
<1>5. stream = "none" => task' = "none"
  BY <1>1 DEF Beginning
<1>6. Beginning'
  BY <1>2, <1>3, <1>4, <1>5 DEF Beginning
<1>7. OnePlace'
  <2>1. Completing' => Completing
    BY <1>1 DEF Completing
  <2>2. \A j, k \in DOMAIN loop' :
          loop'[j] \in Completions /\ loop'[k] \in Completions => j = k
    <3> SUFFICES ASSUME NEW j \in DOMAIN loop', NEW k \in DOMAIN loop',
                        loop'[j] \in Completions, loop'[k] \in Completions
                 PROVE  j = k
      OBVIOUS
    <3>1. j + 1 = k + 1
      BY <1>1 DEF OnePlace
    <3>2. j \in Nat /\ k \in Nat
      <4>1. DOMAIN loop' = 1..Len(loop') /\ Len(loop') \in Nat
        BY LoopShifts, LenProperties
      <4> QED
        BY <4>1
    <3> QED
      BY <3>1, <3>2
  <2>3. CASE Head(loop) \in Completions
    <3>1. Completing /\ entry # "waiting"
      BY <1>1, <2>3 DEF Completing, OnePlace
    <3>2. ~Completing'
      BY <1>1, <2>3 DEF Completing, OnePlace
    <3> HIDE DEF Completing
    <3> QED
      BY <2>2, <2>3, <3>1, <3>2 DEF OnePlace
  <2>4. CASE Head(loop) \notin Completions
    <3>1. Completing => Completing'
      <4>1. ASSUME NEW k \in DOMAIN loop, loop[k] \in Completions
            PROVE  \E j \in DOMAIN loop' : loop'[j] \in Completions
        <5>1. k # 1
          BY <1>1, <2>4, <4>1
        <5> QED
          BY <1>1, <4>1, <5>1
      <4> QED
        BY <4>1 DEF Completing
    <3> HIDE DEF Completing, StartPending
    <3> QED
      BY <1>3, <2>1, <2>2, <2>4, <3>1 DEF OnePlace
  <2> QED
    BY <2>3, <2>4
<1>8. Forgotten'
  <2>1. CASE exception' = exception
    BY <2>1 DEF Forgotten
  <2>2. CASE exception' = FALSE
    BY <2>2 DEF Forgotten
  <2> QED
    BY <2>1, <2>2
<1>9. Forwarding'
  BY <1>1, <1>4 DEF Forwarding
<1>10. Seen'
  BY <1>2, SeenKept
<1> QED
  BY <1>6, <1>7, <1>8, <1>9, <1>10

\* A task that is not a notification leaves the reads to those that are behind it.
LEMMA ReadsAside ==
  ASSUME IInv, loop # <<>>, loop' = Tail(loop), Head(loop) # "notify",
         UNCHANGED <<reads, received, pendingFuture, body, httpTrailers, trailersShown,
                     endStream, resetReason, upstreamVars>>
  PROVE  Waiting' /\ Reads'
<1> USE DEF IInv, upstreamVars
<1>1. /\ Head(loop) = loop[1]
      /\ \A k \in DOMAIN loop : k # 1 => \E j \in DOMAIN loop' : loop'[j] = loop[k]
  BY LoopShifts
<1>2. (\E k \in DOMAIN loop : loop[k] = "notify") => \E k \in DOMAIN loop' : loop'[k] = "notify"
  BY <1>1
<1>3. Ready' <=> Ready
  BY DEF Ready
<1>4. Waiting'
  BY <1>2, <1>3 DEF Waiting
<1> QED
  BY <1>4, ReadsKept

LEMMA NotifyFacts ==
  ASSUME IInv, Notify,
         UNCHANGED <<endStream, resetReason, upstreamVars>>
  PROVE  /\ Waiting' /\ Reads'
         /\ received' \in Seq(1..MaxData) /\ body' \in Seq(1..MaxData)
         /\ httpTrailers' \in BOOLEAN /\ trailersShown' \in BOOLEAN
         /\ reads' \in Seq(Outcomes) /\ pendingFuture' \in 0..Len(reads')
<1> USE DEF IInv, upstreamVars
<1>1. CopyTrailers
  BY DEF Notify
<1>2. /\ httpTrailers' = FALSE
      /\ trailersShown' = (trailersShown \/ httpTrailers)
  BY <1>1 DEF CopyTrailers
<1>3. httpTrailers' \in BOOLEAN /\ trailersShown' \in BOOLEAN
  BY <1>2
<1>4. httpTrailers \/ trailersShown => trailersShown'
  BY <1>2
<1>5. /\ reads \in Seq(Outcomes) /\ pendingFuture \in 0..Len(reads) /\ Len(reads) \in Nat
      /\ received \in Seq(1..MaxData) /\ body \in Seq(1..MaxData)
      /\ DOMAIN reads = 1..Len(reads)
  BY Lengths DEF TypeOK
<1>6. CASE UNCHANGED <<reads, received, body>>
  <2>1. Reads'
    BY <1>4, <1>6 DEF Reads, Answered
  <2>2. \/ pendingFuture' = 0 /\ reads[pendingFuture] # "pending"
        \/ pendingFuture' = pendingFuture /\ ~(Ready /\ pendingFuture # 0)
        \/ pendingFuture' = 0 /\ reads[pendingFuture] = "pending" /\ reads'[pendingFuture] # "pending"
    <3>1. CASE Ready /\ pendingFuture # 0 /\ reads[pendingFuture] = "pending"
      <4>1. /\ pendingFuture' = 0 /\ reads' = [reads EXCEPT ![pendingFuture] = Outcome]
            /\ Outcome # "pending" /\ pendingFuture \in DOMAIN reads
        BY <1>5, <3>1 DEF Notify, Outcome
      <4> QED
        BY <3>1, <4>1
    <3> QED
      BY <3>1 DEF Notify
  <2>3. Ready' <=> Ready
    BY <1>6 DEF Ready
  <2>4. Waiting'
    <3>1. CASE pendingFuture' = pendingFuture /\ ~(Ready /\ pendingFuture # 0)
      BY <1>6, <2>3, <3>1 DEF Waiting
    <3>2. CASE pendingFuture' = 0 /\ reads[pendingFuture] # "pending"
      BY <1>6, <3>2 DEF Waiting
    <3> QED
      BY <1>6, <2>2, <3>1, <3>2
  <2>5. pendingFuture' \in 0..Len(reads')
    BY <1>5, <1>6, <2>2
  <2> QED
    BY <1>3, <1>5, <1>6, <2>1, <2>4, <2>5
<1>7. CASE ~UNCHANGED <<reads, received, body>>
  <2>1. /\ Ready /\ pendingFuture # 0 /\ pendingFuture' = 0
        /\ reads[pendingFuture] = "pending"
        /\ reads' = [reads EXCEPT ![pendingFuture] = Outcome] /\ TakeBody
    BY <1>7 DEF Notify
  <2>2. PICK n \in Nat : n = pendingFuture
    BY <1>5
  <2>3. PICK o : o = Outcome
    OBVIOUS
  <2>4. /\ o \in Outcomes /\ o # "pending" /\ n \in DOMAIN reads
        /\ reads' = [reads EXCEPT ![n] = o]
    BY <1>5, <2>1, <2>2, <2>3 DEF Outcome, Outcomes
  <2>5. /\ reads' \in Seq(Outcomes) /\ Len(reads') = Len(reads)
        /\ reads'[n] = o /\ DOMAIN reads' = DOMAIN reads
        /\ \A k \in DOMAIN reads' : k # n => k \in DOMAIN reads /\ reads'[k] = reads[k]
    BY <1>5, <2>4
  <2>6. /\ n \in DOMAIN reads' => reads'[n] = Outcome
        /\ \A k \in DOMAIN reads' : k # n => k \in DOMAIN reads /\ reads'[k] = reads[k]
    BY <2>3, <2>5
  <2>7. Reads' /\ received' \in Seq(1..MaxData) /\ body' \in Seq(1..MaxData)
    BY <1>1, <2>1, <2>6, TakesBody
  <2>8. \A k \in DOMAIN reads' : reads'[k] # "pending"
    <3> SUFFICES ASSUME NEW k \in DOMAIN reads', reads'[k] = "pending" PROVE FALSE
      OBVIOUS
    <3>1. k # n /\ k \in DOMAIN reads /\ reads[k] = "pending"
      BY <2>4, <2>5
    <3> QED
      BY <2>2, <3>1 DEF Waiting
  <2>9. Waiting'
    BY <2>1, <2>8 DEF Waiting
  <2>10. pendingFuture' \in 0..Len(reads')
    BY <1>5, <2>1, <2>5
  <2> QED
    BY <1>3, <2>5, <2>7, <2>9, <2>10
<1> QED
  BY <1>6, <1>7

LEMMA RunTaskStep == ASSUME IInv, RunTask PROVE IInv'
<1> USE DEF IInv
<1>1. /\ loop # <<>> /\ loop' = Tail(loop)
      /\ UNCHANGED <<streaming, closes, forwarded, endStream, resetReason, bridge, commits,
                     batch, filter, entry, upstreamVars>>
  BY DEF RunTask
<1>2. /\ loop' \in Seq(LoopTasks) /\ Head(loop) = loop[1] /\ 1 \in DOMAIN loop
      /\ Head(loop) \in LoopTasks
  BY <1>1, LoopShifts
<1>3. future # "none"
  BY <1>1 DEF Beginning
<1>4. /\ endStream' \in BOOLEAN /\ resetReason' \in BOOLEAN
      /\ exception \in BOOLEAN
  BY <1>1 DEF TypeOK
<1>5. CASE Head(loop) = "forward"
  <2>1. /\ task' = "running"
        /\ UNCHANGED <<future, exception, reads, received, pendingFuture, body,
                       httpTrailers, trailersShown>>
    BY <1>5 DEF RunTask, StartForwarding
  <2>2. task = "none"
    BY <1>2, <1>5 DEF Forwarding
  <2>3. TypeOK'
    BY <1>1, <1>2, <2>1 DEF TypeOK, LoopTasks, upstreamVars
  <2>4. Waiting' /\ Reads'
    BY <1>1, <1>5, <2>1, ReadsAside
  <2> QED
    BY <1>1, <1>3, <1>5, <2>1, <2>2, <2>3, <2>4, TaskStep DEF Completions
<1>6. CASE Head(loop) \in {"headers", "headersEnd"}
  <2>1. PICK end \in BOOLEAN : ReceivedHeaders(end)
    BY <1>6 DEF RunTask
  <2>2. UNCHANGED <<exception, reads, received, pendingFuture, body, httpTrailers,
                    trailersShown>>
    BY <2>1 DEF ReceivedHeaders
  <2>3. /\ future' \in {"cancelled", "bare", "response"}
        /\ task' = task \/ (task = "running" /\ task' = "cancelling")
    BY <2>1 DEF ReceivedHeaders, CancelForwarding
  <2>4. TypeOK'
    BY <1>1, <1>2, <2>2, <2>3 DEF TypeOK, LoopTasks, upstreamVars
  <2>5. Waiting' /\ Reads'
    BY <1>1, <1>6, <2>2, ReadsAside
  <2>6. /\ Head(loop) \in Completions /\ exception' \in {exception, FALSE}
        /\ future' # "none" /\ future' # "pending"
    BY <1>6, <2>2, <2>3 DEF Completions
  <2>7. /\ task' = task \/ {task, task'} \subseteq {"none", "running", "cancelling"}
        /\ task' = task \/ (task' # "none" /\ (task # "none" \/ Head(loop) = "forward"))
    BY <2>3
  <2> QED
    BY <1>1, <2>4, <2>5, <2>6, <2>7, TaskStep
<1>7. CASE Head(loop) = "fail"
  <2>1. /\ exception' = FALSE
        /\ future' = IF future = "pending" THEN "error" ELSE future
        /\ task' = IF task = "running" THEN "cancelling" ELSE task
        /\ UNCHANGED <<reads, received, pendingFuture, body, httpTrailers, trailersShown>>
    BY <1>7 DEF RunTask, SetException, CancelForwarding
  <2>2. exception' \in BOOLEAN
    BY <2>1
  <2>3. TypeOK'
    BY <1>1, <1>2, <2>1, <2>2 DEF TypeOK, LoopTasks, upstreamVars
  <2>4. Waiting' /\ Reads'
    BY <1>1, <1>7, <2>1, ReadsAside
  <2>5. /\ Head(loop) \in Completions /\ exception' \in {exception, FALSE}
        /\ future' # "none" /\ future' # "pending"
    BY <1>3, <1>7, <2>1 DEF Completions
  <2>6. /\ task' = task \/ {task, task'} \subseteq {"none", "running", "cancelling"}
        /\ task' = task \/ (task' # "none" /\ (task # "none" \/ Head(loop) = "forward"))
    BY <2>1
  <2> QED
    BY <1>1, <2>3, <2>4, <2>5, <2>6, TaskStep
<1>8. CASE Head(loop) = "notify"
  <2>1. Notify /\ UNCHANGED <<task, future, exception>>
    BY <1>8 DEF RunTask, Notify
  <2>2. /\ Waiting' /\ Reads'
        /\ received' \in Seq(1..MaxData) /\ body' \in Seq(1..MaxData)
        /\ httpTrailers' \in BOOLEAN /\ trailersShown' \in BOOLEAN
        /\ reads' \in Seq(Outcomes) /\ pendingFuture' \in 0..Len(reads')
    BY <1>1, <2>1, NotifyFacts
  <2>3. TypeOK'
    BY <1>1, <1>2, <2>1, <2>2 DEF TypeOK, LoopTasks, Outcomes, upstreamVars
  <2>4. Head(loop) \notin Completions /\ exception' \in {exception, FALSE}
    BY <1>8, <2>1 DEF Completions
  <2>5. future' # "none"
    BY <1>3, <2>1
  <2> QED
    BY <1>1, <2>1, <2>2, <2>3, <2>4, <2>5, TaskStep
<1> QED
  BY <1>2, <1>5, <1>6, <1>7, <1>8 DEF LoopTasks

-----------------------------------------------------------------------------
(* The invariant holds.                                                    *)

LEMMA InitIInv == ASSUME Init PROVE IInv
<1> USE DEF Init
<1>1. Pipe = <<>> /\ Len(Pipe) = 0
  <2>1. <<>> \in Seq(TransportEvents) /\ \A s \in Seq(TransportEvents) : s \o <<>> = s
    OBVIOUS
  <2> QED
    BY <2>1, EmptySeq DEF Pipe
<1>2. TypeOK
  <2>1. /\ <<>> \in Seq(TransportEvents) /\ <<>> \in Seq(LoopTasks) /\ <<>> \in Seq(Outcomes)
        /\ <<>> \in Seq(1..MaxData) /\ <<>> \in Seq(1..MaxForwarded)
    OBVIOUS
  <2>2. /\ 0 \in 0..MaxForwarded /\ 0 \in 0..MaxData /\ 0 \in 0..MaxCloses /\ 0 \in Nat
        /\ pendingFuture \in 0..Len(reads)
    BY Bounds, EmptySeq
  <2>3. /\ endStream \in BOOLEAN /\ resetReason \in BOOLEAN /\ exception \in BOOLEAN
        /\ httpTrailers \in BOOLEAN /\ trailersShown \in BOOLEAN /\ requestEnded \in BOOLEAN
    OBVIOUS
  <2> QED
    BY <2>1, <2>2, <2>3 DEF TypeOK, LoopTasks, Outcomes
<1>3. ~StartPending /\ ~Completing
  BY <1>1 DEF StartPending, Completing
<1>4. Beginning
  BY <1>1, <1>3 DEF Beginning
<1>5. OnePlace /\ Forgotten /\ Forwarding
  BY <1>3 DEF OnePlace, Forgotten, Forwarding
<1>6. Waiting
  BY DEF Waiting
<1>7. Reads
  <2>1. received \o body = [k \in 1..fed |-> k]
    <3>1. received \o body = <<>> /\ Len(received \o body) = 0
      BY EmptySeq, ConcatFacts
    <3>2. [k \in 1..0 |-> k] = <<>>
      OBVIOUS
    <3> QED
      BY <3>1, <3>2
  <2>2. DOMAIN reads = {} /\ ~endStream
    OBVIOUS
  <2> QED
    BY <2>1, <2>2 DEF Reads
<1>8. Seen
  <2>1. Len(requestSeen) = 0 /\ ~requestEnded /\ entry = "none"
    BY EmptySeq
  <2>2. \A k \in 1..Len(requestSeen) : requestSeen[k] = k
    BY <2>1
  <2> QED
    BY <2>1, <2>2 DEF Seen
<1> QED
  BY <1>2, <1>4, <1>5, <1>6, <1>7, <1>8 DEF IInv

LEMMA StutterStep == ASSUME IInv, UNCHANGED vars PROVE IInv'
<1> USE DEF IInv, vars, appVars, taskVars, stateVars, upstreamVars
<1>1. Pipe' = Pipe /\ (StartPending' <=> StartPending)
  BY DEF Pipe, StartPending
<1>2. TypeOK'
  BY DEF TypeOK
<1>3. Beginning'
  BY <1>1 DEF Beginning
<1>4. OnePlace' /\ Forgotten' /\ Waiting'
  BY <1>1, OnePlaceKept, ForgottenKept, WaitingKept
<1>5. Forwarding' /\ Reads' /\ Seen'
  BY <1>1, ForwardingKept, ReadsKept, SeenKept
<1> QED
  BY <1>2, <1>3, <1>4, <1>5

LEMMA NextIInv == ASSUME IInv, [Next]_vars PROVE IInv'
<1>1. CASE LoopStep
  <2>1. CASE Execute \/ CancelRequest \/ CancelTask \/ ANext \/ AClose
    BY <2>1, ExecuteStep, CancelRequestStep, CancelTaskStep, ANextStep, ACloseStep
  <2>2. CASE \E k \in 1..MaxReads : CancelRead(k)
    BY <2>2, CancelReadStep
  <2>3. CASE ForwardChunk \/ ForwardFinish \/ RunTask
    BY <2>3, ForwardChunkStep, ForwardFinishStep, RunTaskStep
  <2> QED
    BY <1>1, <2>1, <2>2, <2>3 DEF LoopStep
<1>2. CASE UpstreamStep
  BY <1>2, UpstreamHeadersStep, UpstreamDataStep, UpstreamTrailersStep, UpstreamResetStep,
     UpstreamCompleteStep DEF UpstreamStep
<1>3. CASE OnScheduled \/ HandleEvent \/ OnStreamComplete \/ Drop
  BY <1>3, OnScheduledStep, HandleEventStep, OnStreamCompleteStep, DropStep
<1>4. CASE Terminated \/ UNCHANGED vars
  BY <1>4, StutterStep DEF Terminated
<1> QED
  BY <1>1, <1>2, <1>3, <1>4 DEF Next

THEOREM Inductive == Spec => []IInv
<1>1. Init => IInv
  BY InitIInv
<1>2. IInv /\ [Next]_vars => IInv'
  BY NextIInv
<1> QED
  BY <1>1, <1>2, PTL DEF Spec

-----------------------------------------------------------------------------
(* What it says.                                                           *)

\* A sequence holds the future in one place at most, if one element of it does.
LEMMA PlacesAre ==
  ASSUME NEW place, NEW s, NEW kinds
  PROVE  /\ (\A k \in DOMAIN s : s[k] \notin kinds) => Places(place, s, kinds) = {}
         /\ \A n \in DOMAIN s :
              s[n] \in kinds /\ (\A k \in DOMAIN s : s[k] \in kinds => k = n)
                => Places(place, s, kinds) = {<<place, n>>}
<1>1. ASSUME \A k \in DOMAIN s : s[k] \notin kinds PROVE Places(place, s, kinds) = {}
  BY <1>1 DEF Places
<1>2. ASSUME NEW n \in DOMAIN s, s[n] \in kinds,
             \A k \in DOMAIN s : s[k] \in kinds => k = n
      PROVE  Places(place, s, kinds) = {<<place, n>>}
  <2>1. {k \in DOMAIN s : s[k] \in kinds} = {n}
    BY <1>2
  <2> QED
    BY <2>1 DEF Places
<1> QED
  BY <1>1, <1>2

LEMMA HoldersAre ==
  ASSUME IInv
  PROVE  /\ StartPending \/ entry = "waiting" \/ Completing => \E h : Holders = {h}
         /\ ~StartPending /\ entry # "waiting" /\ ~Completing => Holders = {}
<1> USE DEF IInv
<1> DEFINE inBridge == Places("bridge", bridge, {Event("start", 0)})
           inBatch == Places("filter", batch, {Event("start", 0)})
           inLoop == Places("loop", loop, {"headers", "headersEnd", "fail"})
           inEntry == IF entry = "waiting" THEN {<<"entry", 0>>} ELSE {}
<1>1. Holders = inBridge \cup inBatch \cup inLoop \cup inEntry
  BY DEF Holders
<1>2. ~Completing => inLoop = {}
  BY PlacesAre DEF Completing, Completions
<1>3. Completing => (\E h : inLoop = {h}) /\ entry # "waiting"
  <2>1. ASSUME Completing PROVE (\E h : inLoop = {h})
    <3>1. PICK n \in DOMAIN loop : loop[n] \in Completions
      BY <2>1 DEF Completing
    <3>2. \A k \in DOMAIN loop : loop[k] \in Completions => k = n
      BY <3>1 DEF OnePlace
    <3>3. inLoop = {<<"loop", n>>}
      BY <3>1, <3>2, PlacesAre DEF Completions
    <3> QED
      BY <3>3
  <2> QED
    BY <2>1 DEF OnePlace
<1>4. /\ \A k \in 1..Len(batch) : Pipe[k] = batch[k]
      /\ \A k \in 1..Len(bridge) : Pipe[Len(batch) + k] = bridge[k]
      /\ Len(Pipe) = Len(batch) + Len(bridge)
      /\ Len(batch) \in Nat /\ Len(bridge) \in Nat
      /\ DOMAIN batch = 1..Len(batch) /\ DOMAIN bridge = 1..Len(bridge)
  BY PipeFacts, Lengths, LenProperties
<1>5. ~StartPending => inBridge = {} /\ inBatch = {}
  <2>1. ASSUME ~StartPending PROVE inBridge = {}
    <3>1. ASSUME NEW k \in 1..Len(bridge) PROVE bridge[k] # Event("start", 0)
      <4>1. Len(batch) + k \in 1..Len(Pipe)
        BY <1>4
      <4>2. bridge[k].kind # "start"
        BY <1>4, <2>1, <4>1 DEF StartPending
      <4> QED
        BY <4>2, EventsAre
    <3> QED
      BY <1>4, <3>1, PlacesAre
  <2>2. ASSUME ~StartPending PROVE inBatch = {}
    <3>1. ASSUME NEW k \in 1..Len(batch) PROVE batch[k] # Event("start", 0)
      <4>1. k \in 1..Len(Pipe)
        BY <1>4
      <4>2. batch[k].kind # "start"
        BY <1>4, <2>2, <4>1 DEF StartPending
      <4> QED
        BY <4>2, EventsAre
    <3> QED
      BY <1>4, <3>1, PlacesAre
  <2> QED
    BY <2>1, <2>2
<1>6. ASSUME StartPending
      PROVE  /\ \E h : inBridge \cup inBatch = {h}
             /\ entry # "waiting" /\ ~Completing
  <2>1. /\ Len(Pipe) = 1 /\ Pipe[1] = Event("start", 0) /\ loop = <<>> /\ stream = "none"
    BY <1>6 DEF Beginning
  <2>2. entry # "waiting" /\ ~Completing
    BY <2>1 DEF Forgotten, Completing
  <2>3. CASE Len(batch) = 0
    <3>1. Len(bridge) = 1 /\ DOMAIN bridge = 1..1 /\ DOMAIN batch = {}
      <4>1. Len(bridge) = 1 /\ Len(batch) = 0
        <5>1. \A p, q, r \in Nat : p = 0 /\ r = p + q /\ r = 1 => q = 1
          OBVIOUS
        <5>2. Len(Pipe) = 1 /\ Len(Pipe) \in Nat
          BY <2>1
        <5> QED
          BY <1>4, <2>3, <5>1, <5>2, Zenon
      <4>2. 1..0 = {}
        OBVIOUS
      <4> QED
        BY <1>4, <4>1, <4>2
    <3>2. bridge[1] = Event("start", 0)
      BY <1>4, <2>1, <2>3, <3>1
    <3>3. inBridge = {<<"bridge", 1>>}
      BY <3>1, <3>2, PlacesAre
    <3>4. inBatch = {}
      BY <3>1, PlacesAre
    <3> QED
      BY <2>2, <3>3, <3>4
  <2>4. CASE Len(batch) # 0
    <3>1. Len(batch) = 1 /\ DOMAIN batch = 1..1 /\ DOMAIN bridge = {}
      <4>1. Len(batch) = 1 /\ Len(bridge) = 0
        BY <1>4, <2>1, <2>4
      <4>2. 1..0 = {}
        OBVIOUS
      <4> QED
        BY <1>4, <4>1, <4>2
    <3>2. batch[1] = Event("start", 0)
      BY <1>4, <2>1, <3>1
    <3>3. inBatch = {<<"filter", 1>>}
      BY <3>1, <3>2, PlacesAre
    <3>4. inBridge = {}
      BY <3>1, PlacesAre
    <3> QED
      BY <2>2, <3>3, <3>4
  <2> QED
    BY <2>3, <2>4
<1> HIDE DEF inBridge, inBatch, inLoop
<1>7. CASE StartPending
  <2>1. PICK h : inBridge \cup inBatch = {h}
    BY <1>6, <1>7
  <2>2. inLoop = {} /\ inEntry = {}
    BY <1>2, <1>6, <1>7
  <2>3. Holders = {h}
    BY <1>1, <2>1, <2>2
  <2> QED
    BY <1>7, <2>3
<1>8. CASE ~StartPending /\ Completing
  <2>1. PICK h : inLoop = {h}
    BY <1>3, <1>8
  <2>2. Holders = {h}
    BY <1>1, <1>3, <1>5, <1>8, <2>1
  <2> QED
    BY <1>8, <2>2
<1>9. CASE ~StartPending /\ ~Completing
  <2>1. Holders = inEntry
    BY <1>1, <1>2, <1>5, <1>9
  <2> QED
    BY <1>9, <2>1
<1> QED
  BY <1>7, <1>8, <1>9

LEMMA WaitsAreNotified ==
  ASSUME IInv
  PROVE  /\ TypeOK
         /\ \A k \in DOMAIN reads : reads[k] = "pending" => pendingFuture = k
         /\ pendingFuture # 0 /\ Ready => "notify" \in Range(loop)
         /\ entry # "none" => stream = "open"
  BY DEF IInv, Waiting, Forgotten, Range

\* The future of the response has one holder while it is pending and none after,
\* a read that waits is notified, and an entry has its stream (transport_responses
\* of src/asgi/filter.rs and ResponseContent of src/asgi/transport.rs).
THEOREM EveryFutureHasAHolder == Spec => []FuturesAccounted
<1>1. ASSUME IInv PROVE FuturesAccounted
  <2> USE <1>1 DEF IInv
  <2>1. TypeOK
    OBVIOUS
  <2>2. \A h : Cardinality({h}) = 1
    BY FS_Singleton
  <2>3. Cardinality({}) = 0
    BY FS_EmptySet
  <2>4. CASE future = "pending"
    <3>1. StartPending \/ entry = "waiting" \/ Completing \/ filter = "dropped"
      BY <2>4 DEF OnePlace
    <3>2. Cardinality(Holders) = 1 \/ (filter = "dropped" /\ Holders = {})
      BY <2>2, <3>1, HoldersAre
    <3> QED
      BY <2>4, <3>2, WaitsAreNotified DEF FuturesAccounted
  <2>5. CASE future = "cancelled"
    <3>1. Cardinality(Holders) <= 1
      <4>1. Cardinality(Holders) \in {0, 1}
        BY <2>2, <2>3, HoldersAre
      <4> QED
        BY <4>1
    <3> QED
      BY <2>5, <3>1, WaitsAreNotified DEF FuturesAccounted
  <2>6. CASE future \notin {"pending", "cancelled"}
    <3>1. ~StartPending /\ entry # "waiting" /\ ~Completing
      BY <2>6 DEF OnePlace, Beginning
    <3>2. Holders = {}
      BY <3>1, HoldersAre
    <3> QED
      BY <2>6, <3>2, WaitsAreNotified DEF FuturesAccounted
  <2> QED
    BY <2>4, <2>5, <2>6
<1> QED
  BY <1>1, Inductive, PTL

\* The application reads the body in order, whatever becomes of its reads, and
\* the reads stop only where the response does (ResponseContent.__anext__ and
\* notify in src/asgi/transport.rs).
THEOREM ReadsAreTruthful == Spec => []ResponseIsTruthful
<1>1. ASSUME IInv PROVE ResponseIsTruthful
  <2>1. ASSUME NEW o, o \in Range(reads) PROVE \E k \in DOMAIN reads : reads[k] = o
    BY <2>1 DEF Range
  <2> QED
    BY <1>1, <2>1 DEF IInv, Reads, Answered, ResponseIsTruthful
<1> QED
  BY <1>1, Inductive, PTL

\* The upstream sees the chunks of the request in order, and takes it for
\* complete only if it is (forward_bytes in src/asgi/transport.rs).
THEOREM UpstreamIsToldTheTruth == Spec => []RequestIsTruthful
<1>1. ASSUME IInv PROVE RequestIsTruthful
  <2> USE <1>1 DEF IInv
  <2>1. \A k \in 1..Len(requestSeen) : requestSeen[k] = k
    BY DEF Seen
  <2>2. requestSeen = [k \in 1..Len(requestSeen) |-> k]
    <3>1. requestSeen = [k \in 1..Len(requestSeen) |-> requestSeen[k]]
      BY SeqDef DEF TypeOK
    <3> QED
      BY <2>1, <3>1
  <2>3. streaming /\ requestEnded => task = "ended" /\ Len(requestSeen) = forwarded
    BY DEF Seen
  <2> QED
    BY <2>2, <2>3 DEF RequestIsTruthful
<1> QED
  BY <1>1, Inductive, PTL
=============================================================================
