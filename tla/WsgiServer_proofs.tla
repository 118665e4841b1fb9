-------------------------- MODULE WsgiServer_proofs -------------------------
(***************************************************************************)
(* Proofs about the server side of WSGI.  WsgiRequestBody, for every       *)
(* longest body, every placing of the newlines, every buffer limit and     *)
(* every set of reads: no byte is lost or reordered, every read gets its   *)
(* own answer, and wsgi.input is a blocking file.  WsgiExecutor, for every *)
(* set of requests, every non-empty finite set of application threads and  *)
(* every finite set of pool threads: the count that shutdown waits on is   *)
(* exact, no job runs twice, and shutdown leaves nothing behind.           *)
(***************************************************************************)
EXTENDS MCWsgiRequestBody, MCWsgiExecutor, SequenceFacts, FiniteSetTheorems,
        WellFoundedInduction

-----------------------------------------------------------------------------
(* The request body: its inductive invariant.                              *)

\* The bytes of the answer that waits in the channel, of which there is one at
\* most.
InAnswer == IF channel = <<>> THEN <<>> ELSE channel[1].bytes

\* Before the request nothing has happened, the bridge is closed by the end of
\* the stream, and a dropped filter holds nothing.
Stages ==
  /\ ~started => /\ pc = "idle" /\ arrived = 0 /\ delivered = <<>>
                 /\ ~requestClosed /\ filter = "live"
  /\ readBridge.closed <=> filter # "live"
  /\ filter = "dropped" =>
       pendingRead = Wait /\ buffered = <<>> /\ readBuffer = <<>>

\* The read the application waits for is in one place, and nothing is anywhere
\* for an application that does not wait.
ReadInOnePlace ==
  /\ pc = "idle" => /\ reading = Wait /\ pendingRead = Wait
                    /\ readBridge.events = <<>> /\ channel = <<>>
  /\ pc # "idle" => reading \in Reads /\ reading.size # 0 /\ ~inputClosed
  /\ readBridge.events # <<>> =>
       readBridge.events = <<reading>> /\ pendingRead = Wait /\ channel = <<>>
  /\ pendingRead # Wait => pendingRead = reading /\ channel = <<>>
  /\ channel # <<>> => Len(channel) = 1
  /\ pc # "idle" /\ filter = "live" =>
       readBridge.events # <<>> \/ pendingRead # Wait \/ channel # <<>>

\* The bytes are numbered through from what the application was given to what
\* is left with Envoy, and until the filter is dropped none is missing.
Numbered ==
  /\ \A k \in 1..Len(delivered) : delivered[k] = k
  /\ \A k \in 1..Len(InAnswer) : InAnswer[k] = Len(delivered) + k
  /\ \A k \in 1..Len(readBuffer) : readBuffer[k] = Len(delivered) + k
  /\ \A k \in 1..Len(buffered) :
       buffered[k] = Len(delivered) + Len(InAnswer) + Len(readBuffer) + k

Counted ==
  /\ Len(delivered) + Len(InAnswer) + Len(readBuffer) + Len(buffered) <= arrived
  /\ filter # "dropped" =>
       Len(delivered) + Len(InAnswer) + Len(readBuffer) + Len(buffered) = arrived

\* What was gathered is not yet an answer to the read r.
StillGathering(r) ==
  /\ r.kind = "Raw" /\ r.size > 0 => readBuffer = <<>>
  /\ r.kind = "Line" =>
       /\ r.size > 0 => Len(readBuffer) < r.size
       /\ \A k \in 1..Len(readBuffer) : readBuffer[k] \notin Newlines

Gathering ==
  /\ pendingRead = Wait => readBuffer = <<>>
  /\ pendingRead # Wait => StillGathering(pendingRead)

\* An answer fits the read it is for, and says that the body is over when it is.
AnswerFits ==
  channel # <<>> =>
    /\ Input!Fits(reading, Len(InAnswer))
    /\ channel[1].closed => requestClosed /\ Len(delivered) + Len(InAnswer) = arrived

\* An input that is closed was read to its end.
ClosedAtEnd == inputClosed => requestClosed /\ Len(delivered) = arrived

IInv ==
  /\ TypeOK /\ Stages /\ ReadInOnePlace /\ Numbered /\ Counted /\ Gathering
  /\ AnswerFits /\ ClosedAtEnd

-----------------------------------------------------------------------------
(* Sequences and numbers.                                                  *)
\* A non-empty set of naturals has a least element.
LEMMA MinFacts ==
  ASSUME NEW S \in SUBSET Nat, S # {}
  PROVE  Min(S) \in S /\ \A k \in S : Min(S) <= k
<1>1. PICK m \in S : \A k \in S : ~(<<k, m>> \in OpToRel(<, Nat))
  BY WFMin, NatLessThanWellFounded, Zenon
<1>2. \A k \in S : k \in Nat /\ m \in Nat
  OBVIOUS
<1>3. \A k \in Nat : k < m => <<k, m>> \in OpToRel(<, Nat)
  BY <1>2, Zenon DEF OpToRel
<1>4. \A k \in S : m <= k
  <2>1. \A k \in S : ~(k < m)
    BY <1>1, <1>2, <1>3, Zenon
  <2> QED
    BY <1>2, <2>1
<1> QED
  BY <1>4, <1>2 DEF Min

\* Flattening one sequence gives that sequence.
LEMMA FlattenOne ==
  ASSUME NEW S, NEW s \in Seq(S), Len(s) \in {0, 1}
  PROVE  FlattenSeq(s) = IF s = <<>> THEN <<>> ELSE s[1]
<1>1. Len(s) \in Nat /\ (Len(s) = 0 <=> s = <<>>)
  BY EmptySeq, LenProperties
<1>2. CASE Len(s) = 0
  BY <1>1, <1>2 DEF FlattenSeq
<1>3. CASE Len(s) = 1
  <2> DEFINE P(f) == f = [i \in 1..Len(s) |-> IF i = 1 THEN s[i] ELSE f[i - 1] \o s[i]]
             F == CHOOSE f : P(f)
  <2>1. P([i \in 1..Len(s) |-> s[i]])
    <3>1. \A i \in 1..Len(s) : i = 1
      BY <1>3
    <3> QED
      BY <3>1
  <2>2. P(F)
    BY <2>1, Zenon
  <2>3. F[1] = s[1]
    <3> HIDE DEF F
    <3>1. 1 \in 1..Len(s)
      BY <1>3
    <3> QED BY <2>2, <3>1
  <2>4. FlattenSeq(s) = F[1]
    BY <1>3 DEF FlattenSeq
  <2> QED
    BY <2>3, <2>4, <1>1, <1>3
<1> QED
  BY <1>2, <1>3

\* The two parts of a sequence that is cut after m elements.
LEMMA CutFacts ==
  ASSUME NEW S, NEW s \in Seq(S), NEW m \in 0..Len(s)
  PROVE  /\ SubSeq(s, 1, m) \in Seq(S) /\ Len(SubSeq(s, 1, m)) = m
         /\ \A k \in 1..m : SubSeq(s, 1, m)[k] = s[k]
         /\ SubSeq(s, m + 1, Len(s)) \in Seq(S)
         /\ Len(SubSeq(s, m + 1, Len(s))) = Len(s) - m
         /\ \A k \in 1..(Len(s) - m) : SubSeq(s, m + 1, Len(s))[k] = s[m + k]
<1>1. Len(s) \in Nat /\ m \in Nat /\ m <= Len(s)
  BY LenProperties
<1>2. \A i \in 1..m : s[i] \in S
  BY <1>1, ElementOfSeq
<1>3. \A i \in m + 1 .. Len(s) : s[i] \in S
  BY <1>1, ElementOfSeq
<1>4. /\ SubSeq(s, 1, m) \in Seq(S) /\ Len(SubSeq(s, 1, m)) = m
      /\ \A k \in 1..m : SubSeq(s, 1, m)[k] = s[k]
  BY <1>1, <1>2, SubSeqProperties
<1>5. /\ SubSeq(s, m + 1, Len(s)) \in Seq(S)
      /\ Len(SubSeq(s, m + 1, Len(s))) = Len(s) - m
      /\ \A k \in 1..(Len(s) - m) : SubSeq(s, m + 1, Len(s))[k] = s[m + k]
  BY <1>1, <1>3, SubSeqProperties
<1> QED
  BY <1>4, <1>5

LEMMA WaitIsNoRead == \A r \in Reads : r # Wait /\ r.kind # "None"
<1>1. Wait.kind = "None"
  BY DEF Wait
<1> QED
  BY <1>1, ReadsAssumption

\* The lengths of the parts of the body are numbers.
LEMMA Lengths ==
  ASSUME TypeOK, ReadInOnePlace
  PROVE  /\ Len(delivered) \in Nat /\ Len(readBuffer) \in Nat
         /\ Len(buffered) \in Nat /\ Len(InAnswer) \in Nat
         /\ InAnswer \in Seq(1..MaxBody)
         /\ channel # <<>> => channel[1] \in Messages
         /\ arrived \in Nat
<1>1. /\ delivered \in Seq(1..MaxBody) /\ readBuffer \in Seq(1..MaxBody)
      /\ buffered \in Seq(1..MaxBody) /\ channel \in Seq(Messages)
      /\ arrived \in Nat
  BY BoundsAssumption DEF TypeOK
<1>2. channel # <<>> => channel[1] \in Messages
  <2> SUFFICES ASSUME channel # <<>> PROVE channel[1] \in Messages
    OBVIOUS
  <2>1. 1 \in 1..Len(channel)
    BY DEF ReadInOnePlace
  <2> QED
    BY <1>1, <2>1, ElementOfSeq
<1>3. InAnswer \in Seq(1..MaxBody)
  BY <1>2, EmptySeq DEF InAnswer, Messages
<1> QED
  BY <1>1, <1>2, <1>3, LenProperties

-----------------------------------------------------------------------------
(* process_read.  Three callbacks run it, and what they have in common is  *)
(* this: the bytes received follow those that arrived before, and no byte  *)
(* comes after the end.                                                    *)

Processing(received, last) ==
  /\ filter # "dropped"
  /\ received \in Seq(1..MaxBody)
  /\ \A k \in 1..Len(received) : received[k] = arrived + k
  /\ arrived' = arrived + Len(received) /\ arrived' <= MaxBody
  /\ last \in BOOLEAN /\ requestClosed' = last
  /\ requestClosed => last /\ Len(received) = 0
  /\ ~started => Len(received) = 0 /\ ~last
  /\ commits' \in Nat
  /\ ProcessRead(received, last)
  /\ UNCHANGED <<started, filter, appVars>>

Available(received) == buffered \o received

\* The available bytes are the rest of the body, in order.
LEMMA AvailableFacts ==
  ASSUME IInv, NEW received, NEW last, Processing(received, last)
  PROVE  /\ Available(received) \in Seq(1..MaxBody)
         /\ Len(Available(received)) \in Nat
         /\ \A k \in 1..Len(Available(received)) :
              Available(received)[k]
                = Len(delivered) + Len(InAnswer) + Len(readBuffer) + k
         /\ Len(delivered) + Len(InAnswer) + Len(readBuffer) + Len(Available(received))
              = arrived'
         /\ arrived' \in 0..MaxBody
         /\ Available(received) = <<>> <=> Len(Available(received)) = 0
<1> DEFINE base == Len(delivered) + Len(InAnswer) + Len(readBuffer)
<1>1. /\ Len(delivered) \in Nat /\ Len(InAnswer) \in Nat /\ Len(readBuffer) \in Nat
      /\ Len(buffered) \in Nat /\ arrived \in Nat
  BY Lengths DEF IInv
<1>2. base \in Nat /\ base + Len(buffered) = arrived
  BY <1>1 DEF IInv, Counted, Processing
<1>3. buffered \in Seq(1..MaxBody) /\ received \in Seq(1..MaxBody)
  BY DEF IInv, TypeOK, Processing
<1>4. /\ Available(received) \in Seq(1..MaxBody)
      /\ Len(Available(received)) = Len(buffered) + Len(received)
      /\ \A k \in 1..Len(buffered) : Available(received)[k] = buffered[k]
      /\ \A k \in 1..Len(received) : Available(received)[Len(buffered) + k] = received[k]
      /\ Len(received) \in Nat
  BY <1>3, ConcatFacts DEF Available
<1>5. arrived' = arrived + Len(received) /\ arrived' <= MaxBody
  BY DEF Processing
<1>6. ASSUME NEW k \in 1..Len(Available(received)) PROVE Available(received)[k] = base + k
  <2>1. CASE k <= Len(buffered)
    <3>1. k \in 1..Len(buffered)
      BY <2>1, <1>1
    <3>2. buffered[k] = base + k
      BY <3>1 DEF IInv, Numbered
    <3> QED
      BY <3>1, <3>2, <1>4
  <2>2. CASE ~(k <= Len(buffered))
    <3> DEFINE j == k - Len(buffered)
    <3>1. j \in 1..Len(received) /\ Len(buffered) + j = k
      BY <2>2, <1>1, <1>4
    <3>2. Available(received)[k] = received[j]
      BY <3>1, <1>4
    <3>3. received[j] = arrived + j
      BY <3>1 DEF Processing
    <3> HIDE DEF base, j
    <3>4. arrived + j = base + k
      BY <3>1, <1>1, <1>2
    <3> QED
      BY <3>2, <3>3, <3>4
  <2> QED
    BY <2>1, <2>2
<1>7. arrived' \in 0..MaxBody /\ base + Len(Available(received)) = arrived'
  <2> HIDE DEF base
  <2>1. Len(Available(received)) = Len(buffered) + Len(received) /\ Len(received) \in Nat
    BY <1>4
  <2>2. MaxBody \in Nat
    BY BoundsAssumption
  <2>3. arrived' \in 0..MaxBody
    BY <1>1, <1>5, <2>1, <2>2
  <2> QED
    BY <1>1, <1>2, <1>5, <2>1, <2>3
<1>8. Available(received) = <<>> <=> Len(Available(received)) = 0
  BY <1>4, EmptySeq, LenProperties
<1> QED
  BY <1>4, <1>6, <1>7, <1>8, <1>1

\* The latest read is the outstanding one, or there is none.
LEMMA LatestReadFacts ==
  ASSUME IInv
  PROVE  /\ LatestRead.kind = "None" =>
              /\ LatestRead = Wait /\ pendingRead = Wait /\ readBuffer = <<>>
              /\ readBridge.events = <<>>
         /\ LatestRead.kind # "None" =>
              /\ LatestRead = reading /\ LatestRead \in Reads
              /\ LatestRead # Wait /\ pc # "idle" /\ channel = <<>>
              /\ StillGathering(LatestRead)
         /\ LatestRead \in Reads \cup {Wait}
<1>1. /\ readBridge.events \in Seq(Reads) /\ pendingRead \in Reads \cup {Wait}
  BY DEF IInv, TypeOK, Bridges
<1>2. CASE readBridge.events = <<>>
  <2>1. LatestRead = pendingRead
    BY <1>2 DEF LatestRead
  <2>2. pendingRead.kind = "None" <=> pendingRead = Wait
    BY <1>1, WaitIsNoRead DEF Wait
  <2> QED
    BY <1>1, <1>2, <2>1, <2>2 DEF IInv, ReadInOnePlace, Gathering
<1>3. CASE readBridge.events # <<>>
  <2>1. readBridge.events = <<reading>> /\ pendingRead = Wait /\ channel = <<>>
    BY <1>3 DEF IInv, ReadInOnePlace
  <2>2. LatestRead = reading
    BY <1>3, <2>1 DEF LatestRead, Last
  <2>3. pc # "idle" /\ reading \in Reads
    BY <1>3 DEF IInv, ReadInOnePlace
  <2>4. reading # Wait /\ reading.kind # "None"
    BY <2>3, WaitIsNoRead
  <2>5. readBuffer = <<>>
    BY <2>1 DEF IInv, Gathering
  <2>6. StillGathering(reading)
    <3>1. Len(readBuffer) = 0 /\ 1..0 = {}
      BY <2>5
    <3> QED
      BY <3>1, <2>5 DEF StillGathering
  <2> QED
    BY <2>1, <2>2, <2>3, <2>4, <2>6
<1> QED
  BY <1>2, <1>3

\* What processing the reads leaves alone, and that the bridge is empty after it.
LEMMA ProcessingFrame ==
  ASSUME IInv, NEW received, NEW last, Processing(received, last)
  PROVE  /\ readBridge'.events = <<>> /\ readBridge'.closed = readBridge.closed
         /\ readBridge' \in Bridges(Reads)
         /\ started' = started /\ filter' = filter /\ pc' = pc /\ reading' = reading
         /\ inputClosed' = inputClosed /\ delivered' = delivered /\ answer' = answer
         /\ filter # "dropped" /\ commits' \in Nat
         /\ requestClosed' = last /\ last \in BOOLEAN
         /\ arrived' \in Nat /\ arrived <= arrived'
         /\ requestClosed => requestClosed' /\ last /\ arrived' = arrived
         /\ ~started => ~requestClosed' /\ ~last /\ arrived' = 0
<1>1. readBridge \in [closed : BOOLEAN, events : Seq(Reads)]
  BY DEF IInv, TypeOK, Bridges
<1>2. readBridge' = [readBridge EXCEPT !.events = <<>>]
  BY DEF Processing, ProcessRead, Drained
<1>3. <<>> \in Seq(Reads)
  BY EmptySeq
<1>4. /\ readBridge'.events = <<>> /\ readBridge'.closed = readBridge.closed
      /\ readBridge' \in [closed : BOOLEAN, events : Seq(Reads)]
  BY <1>1, <1>2, <1>3
<1>5. readBridge' \in Bridges(Reads)
  BY <1>4 DEF Bridges
<1>6. arrived \in Nat /\ Len(received) \in Nat /\ arrived' = arrived + Len(received)
  BY LenProperties, BoundsAssumption DEF IInv, TypeOK, Processing
<1>7. arrived' \in Nat /\ arrived <= arrived'
  BY <1>6
<1>8. requestClosed => requestClosed' /\ last /\ arrived' = arrived
  BY <1>6 DEF Processing
<1>9. ~started => ~requestClosed' /\ ~last /\ arrived' = 0
  BY <1>6 DEF Processing, IInv, Stages
<1> QED
  BY <1>4, <1>5, <1>7, <1>8, <1>9 DEF Processing, appVars

\* An answer that waits still fits when more of the body has come.
LEMMA AnswerFitsKept ==
  ASSUME IInv, channel' = channel, delivered' = delivered, reading' = reading,
         arrived' \in Nat, arrived <= arrived',
         requestClosed => requestClosed' /\ arrived' = arrived
  PROVE  AnswerFits'
<1> SUFFICES ASSUME channel # <<>>
             PROVE  /\ Input!Fits(reading, Len(InAnswer))'
                    /\ channel[1].closed =>
                         requestClosed' /\ Len(delivered) + Len(InAnswer) = arrived'
  BY DEF AnswerFits, InAnswer
<1>1. /\ Input!Fits(reading, Len(InAnswer))
      /\ channel[1].closed => requestClosed /\ Len(delivered) + Len(InAnswer) = arrived
  BY DEF IInv, AnswerFits
<1>2. InAnswer' = InAnswer
  BY DEF InAnswer
<1>3. Len(delivered) \in Nat /\ Len(InAnswer) \in Nat /\ arrived \in Nat
  BY Lengths DEF IInv
<1>4. Input!Fits(reading, Len(InAnswer))'
  <2> DEFINE p == Len(delivered)
             n == Len(InAnswer)
  <2>1. p + n <= arrived'
    BY <1>1, <1>3 DEF Input!Fits
  <2>2. n = 0 => reading.size = 0 \/ (requestClosed' /\ p = arrived')
    BY <1>1 DEF Input!Fits, Input!AtEOF
  <2>3. reading.kind = "Raw" =>
          IF reading.size >= 0 THEN n <= reading.size
                               ELSE requestClosed' /\ p + n = arrived'
    BY <1>1 DEF Input!Fits
  <2>4. reading.kind = "Line" /\ reading.size # 0 => Input!IsLine(reading, n)'
    <3> SUFFICES ASSUME reading.kind = "Line", reading.size # 0
                 PROVE  Input!IsLine(reading, n)'
      OBVIOUS
    <3>1. Input!IsLine(reading, n)
      BY <1>1 DEF Input!Fits
    <3> QED
      BY <3>1, <1>2 DEF Input!IsLine
  <2>5. reading.size = 0 => n = 0
    BY <1>1 DEF Input!Fits
  <2> QED
    BY <1>2, <2>1, <2>2, <2>3, <2>4, <2>5 DEF Input!Fits, Input!AtEOF
<1> QED
  BY <1>1, <1>4

\* The end of the body stays where it was.
LEMMA ClosedAtEndKept ==
  ASSUME IInv, inputClosed' = inputClosed, delivered' = delivered,
         requestClosed => requestClosed' /\ arrived' = arrived
  PROVE  ClosedAtEnd'
<1> SUFFICES ASSUME inputClosed' PROVE requestClosed' /\ Len(delivered)' = arrived'
  BY DEF ClosedAtEnd
<1>1. inputClosed
  OBVIOUS
<1>2. requestClosed /\ Len(delivered) = arrived
  BY <1>1 DEF IInv, ClosedAtEnd
<1> QED
  BY <1>2

\* A read that needs more than there is waits.
LEMMA LeftStep ==
  ASSUME IInv, NEW received, NEW last, Processing(received, last),
         LatestRead.kind = "None" \/ (Available(received) = <<>> /\ ~last),
         LeftInEnvoy(Available(received), LatestRead)
  PROVE  IInv'
<1>1. /\ buffered' = Available(received) /\ pendingRead' = LatestRead
      /\ readBuffer' = readBuffer /\ channel' = channel
  BY DEF LeftInEnvoy
<1>2. InAnswer' = InAnswer
  BY <1>1 DEF InAnswer
<1>3. TypeOK'
  BY <1>1, ProcessingFrame, AvailableFacts, LatestReadFacts DEF IInv, TypeOK
<1>4. Stages'
  BY <1>1, ProcessingFrame DEF IInv, Stages
<1>5. ReadInOnePlace'
  BY <1>1, ProcessingFrame, LatestReadFacts DEF IInv, ReadInOnePlace
<1>6. Numbered'
  <2>1. UNCHANGED <<delivered, readBuffer, InAnswer>>
    BY <1>1, <1>2, ProcessingFrame
  <2>2. \A k \in 1..Len(buffered') :
          buffered'[k] = Len(delivered) + Len(InAnswer) + Len(readBuffer) + k
    BY <1>1, AvailableFacts
  <2>3. Numbered
    BY DEF IInv
  <2> QED
    BY ONLY <2>1, <2>2, <2>3 DEF Numbered
<1>7. Counted'
  <2>1. Len(delivered) + Len(InAnswer) + Len(readBuffer) + Len(Available(received))
          = arrived'
    BY AvailableFacts
  <2> QED
    BY <1>1, <1>2, <2>1, ProcessingFrame DEF Counted
<1>8. Gathering'
  BY <1>1, LatestReadFacts DEF IInv, Gathering, StillGathering
<1>9. AnswerFits'
  BY <1>1, ProcessingFrame, AnswerFitsKept
<1>10. ClosedAtEnd'
  BY ClosedAtEndKept, ProcessingFrame
<1> QED
  BY <1>3, <1>4, <1>5, <1>6, <1>7, <1>8, <1>9, <1>10 DEF IInv

\* What an answer is made of, and what it leaves with Envoy.
LEMMA AnsweredFacts ==
  ASSUME IInv, NEW received, NEW last, Processing(received, last),
         LatestRead.kind # "None",
         NEW taken \in 0..Len(Available(received)), NEW flag \in BOOLEAN,
         Answered(Available(received), taken, flag)
  PROVE  /\ InAnswer = <<>> /\ readBuffer' = <<>> /\ pendingRead' = Wait
         /\ channel' \in Seq(Messages) /\ Len(channel') = 1 /\ channel' # <<>>
         /\ channel'[1].closed = flag
         /\ InAnswer' \in Seq(1..MaxBody)
         /\ Len(InAnswer') = Len(readBuffer) + taken
         /\ \A k \in 1..Len(readBuffer) : InAnswer'[k] = readBuffer[k]
         /\ \A k \in 1..taken :
              InAnswer'[Len(readBuffer) + k] = Available(received)[k]
         /\ buffered' \in Seq(1..MaxBody)
         /\ Len(buffered') = Len(Available(received)) - taken
         /\ \A k \in 1..Len(buffered') :
              buffered'[k] = Available(received)[taken + k]
<1> DEFINE front == SubSeq(Available(received), 1, taken)
           bs == readBuffer \o front
           m == [bytes |-> bs, closed |-> flag]
<1>1. channel = <<>>
  BY LatestReadFacts
<1>2. Available(received) \in Seq(1..MaxBody)
  BY AvailableFacts
<1>3. /\ channel' = Append(channel, m) /\ pendingRead' = Wait /\ readBuffer' = <<>>
      /\ buffered' = SubSeq(Available(received), taken + 1, Len(Available(received)))
  BY DEF Answered
<1>4. /\ front \in Seq(1..MaxBody) /\ Len(front) = taken
      /\ \A k \in 1..taken : front[k] = Available(received)[k]
      /\ buffered' \in Seq(1..MaxBody)
      /\ Len(buffered') = Len(Available(received)) - taken
      /\ \A k \in 1..Len(buffered') :
           buffered'[k] = Available(received)[taken + k]
  BY ZenonT(60), <1>2, <1>3, CutFacts
<1>5. readBuffer \in Seq(1..MaxBody)
  BY DEF IInv, TypeOK
<1>6. /\ bs \in Seq(1..MaxBody) /\ Len(bs) = Len(readBuffer) + taken
      /\ \A k \in 1..Len(readBuffer) : bs[k] = readBuffer[k]
      /\ \A k \in 1..taken : bs[Len(readBuffer) + k] = front[k]
  <2>1. front \in Seq(1..MaxBody) /\ readBuffer \in Seq(1..MaxBody)
    BY <1>4, <1>5
  <2> HIDE DEF front, m
  <2>2. /\ bs \in Seq(1..MaxBody) /\ Len(bs) = Len(readBuffer) + Len(front)
        /\ \A k \in 1..Len(readBuffer) : bs[k] = readBuffer[k]
        /\ \A k \in 1..Len(front) : bs[Len(readBuffer) + k] = front[k]
    BY ONLY <2>1, ConcatFacts
  <2> QED
    BY <1>4, <2>2
<1>7. m \in Messages /\ m.bytes = bs /\ m.closed = flag
  BY <1>6 DEF Messages
<1>8. /\ channel' = <<m>> /\ channel' \in Seq(Messages)
      /\ Len(channel') = 1 /\ channel' # <<>> /\ channel'[1] = m
  <2> HIDE DEF m
  <2> QED
    BY <1>1, <1>3, <1>7
<1>9. InAnswer' = bs
  BY <1>7, <1>8 DEF InAnswer
<1>10. InAnswer = <<>>
  BY <1>1 DEF InAnswer
<1> HIDE DEF m, bs, front
<1> QED
  BY <1>3, <1>4, <1>6, <1>7, <1>8, <1>9, <1>10

\* A read is answered, with what was gathered for it and the next bytes.
LEMMA AnsweredStep ==
  ASSUME IInv, NEW received, NEW last, Processing(received, last),
         LatestRead.kind # "None",
         NEW taken \in 0..Len(Available(received)), NEW flag \in BOOLEAN,
         Answered(Available(received), taken, flag),
         AnswerFits'
  PROVE  IInv'
<1> DEFINE d == Len(delivered)
           g == Len(readBuffer)
<1>1. /\ d \in Nat /\ g \in Nat /\ Len(InAnswer) = 0
      /\ Len(Available(received)) \in Nat /\ taken \in Nat
  <2>1. d \in Nat /\ g \in Nat
    BY Lengths DEF IInv
  <2>2. InAnswer = <<>>
    BY AnsweredFacts
  <2>3. Len(Available(received)) \in Nat
    BY AvailableFacts
  <2> QED
    BY <2>1, <2>2, <2>3
<1>2. /\ Len(InAnswer') = g + taken /\ Len(readBuffer') = 0
      /\ Len(buffered') = Len(Available(received)) - taken
  <2>1. readBuffer' = <<>>
    BY AnsweredFacts
  <2>2. Len(InAnswer') = g + taken
    BY AnsweredFacts
  <2>4. Len(readBuffer') = 0
    BY <2>1
  <2>3. Len(buffered') = Len(Available(received)) - taken
    BY AnsweredFacts
  <2> QED
    BY <2>2, <2>3, <2>4
<1>3. TypeOK'
  <2>1. /\ channel' \in Seq(Messages) /\ buffered' \in Seq(1..MaxBody)
        /\ readBuffer' \in Seq(1..MaxBody) /\ pendingRead' \in Reads \cup {Wait}
    BY AnsweredFacts, EmptySeq
  <2>2. arrived' \in 0..MaxBody
    BY AvailableFacts
  <2> QED
    BY <2>1, <2>2, ProcessingFrame DEF IInv, TypeOK
<1>4. Stages'
  BY AnsweredFacts, ProcessingFrame DEF IInv, Stages
<1>5. ReadInOnePlace'
  <2>1. pc # "idle"
    BY LatestReadFacts
  <2> QED
    BY <2>1, AnsweredFacts, ProcessingFrame DEF IInv, ReadInOnePlace
<1>6. Numbered'
  <2>1. \A k \in 1..Len(delivered') : delivered'[k] = k
    BY ProcessingFrame DEF IInv, Numbered
  <2>2. ASSUME NEW k \in 1..(g + taken) PROVE InAnswer'[k] = d + k
    <3>1. CASE k <= g
      <4>1. k \in 1..g
        BY <3>1, <1>1
      <4> QED
        BY <4>1, AnsweredFacts DEF IInv, Numbered
    <3>2. CASE ~(k <= g)
      <4> DEFINE j == k - g
      <4>1. j \in 1..taken /\ g + j = k /\ j \in 1..Len(Available(received))
        BY <3>2, <1>1
      <4>2. InAnswer'[g + j] = Available(received)[j]
        BY <4>1, AnsweredFacts
      <4>3. Available(received)[j] = d + 0 + g + j
        BY <4>1, <1>1, AvailableFacts
      <4> HIDE DEF j, d, g
      <4>4. d + 0 + g + j = d + k
        BY <1>1, <4>1
      <4> QED
        BY <4>1, <4>2, <4>3, <4>4
    <3> QED
      BY <3>1, <3>2
  <2>3. ASSUME NEW k \in 1..Len(buffered')
        PROVE  buffered'[k] = d + (g + taken) + 0 + k
    <3>1. taken + k \in 1..Len(Available(received)) /\ k \in Nat
      BY <1>1, <1>2
    <3>2. buffered'[k] = Available(received)[taken + k]
      BY AnsweredFacts
    <3>3. Available(received)[taken + k] = d + 0 + g + (taken + k)
      BY <3>1, <1>1, AvailableFacts
    <3> HIDE DEF d, g
    <3>4. d + 0 + g + (taken + k) = d + (g + taken) + 0 + k
      BY <1>1, <3>1
    <3> QED
      BY <3>2, <3>3, <3>4
  <2>4. \A k \in 1..Len(readBuffer') : readBuffer'[k] = d + k
    BY <1>2
  <2>5. delivered' = delivered
    BY ProcessingFrame
  <2> QED
    BY <1>2, <2>1, <2>2, <2>3, <2>4, <2>5 DEF Numbered
<1>7. Counted'
  <2>1. d + 0 + g + Len(Available(received)) = arrived'
    BY AvailableFacts, <1>1
  <2>2. d + (g + taken) + 0 + (Len(Available(received)) - taken) = arrived'
    <3> HIDE DEF d, g
    <3> QED
      BY <1>1, <2>1
  <2>3. delivered' = delivered /\ arrived' \in Nat
    BY ProcessingFrame
  <2> QED
    BY <1>2, <2>2, <2>3 DEF Counted
<1>8. Gathering'
  BY AnsweredFacts DEF Gathering
<1>9. ClosedAtEnd'
  BY ClosedAtEndKept, ProcessingFrame
<1> QED
  BY <1>3, <1>4, <1>5, <1>6, <1>7, <1>8, <1>9 DEF IInv

\* All the available bytes are gathered for a read that needs more.
LEMMA GatheredStep ==
  ASSUME IInv, NEW received, NEW last, Processing(received, last),
         LatestRead.kind # "None",
         Gathered(Available(received), LatestRead),
         NEW r, r = LatestRead, StillGathering(r)'
  PROVE  IInv'
<1> DEFINE d == Len(delivered)
           g == Len(readBuffer)
           n == Len(Available(received))
<1>1. channel = <<>> /\ channel' = <<>> /\ InAnswer = <<>> /\ InAnswer' = <<>>
  BY LatestReadFacts DEF Gathered, InAnswer
<1>2. d \in Nat /\ g \in Nat /\ n \in Nat
  BY Lengths, AvailableFacts DEF IInv
<1>3. /\ readBuffer' \in Seq(1..MaxBody) /\ Len(readBuffer') = g + n
      /\ \A k \in 1..g : readBuffer'[k] = readBuffer[k]
      /\ \A k \in 1..n : readBuffer'[g + k] = Available(received)[k]
  <2>1. readBuffer \in Seq(1..MaxBody) /\ Available(received) \in Seq(1..MaxBody)
    BY AvailableFacts DEF IInv, TypeOK
  <2>2. readBuffer' = readBuffer \o Available(received)
    BY DEF Gathered
  <2> QED
    BY ONLY <2>1, <2>2, ConcatFacts
<1>4. buffered' = <<>> /\ pendingRead' = LatestRead
  BY DEF Gathered
<1>5. TypeOK'
  <2>1. /\ channel' \in Seq(Messages) /\ buffered' \in Seq(1..MaxBody)
        /\ pendingRead' \in Reads \cup {Wait}
    BY <1>1, <1>4, EmptySeq, LatestReadFacts
  <2>2. arrived' \in 0..MaxBody
    BY AvailableFacts
  <2> QED
    BY <1>3, <2>1, <2>2, ProcessingFrame DEF IInv, TypeOK
<1>6. Stages'
  BY ProcessingFrame DEF IInv, Stages
<1>7. ReadInOnePlace'
  BY <1>1, <1>4, LatestReadFacts, ProcessingFrame DEF IInv, ReadInOnePlace
<1>8. Numbered'
  <2>1. delivered' = delivered
    BY ProcessingFrame
  <2>2. \A k \in 1..Len(delivered) : delivered[k] = k
    BY DEF IInv, Numbered
  <2>3. ASSUME NEW k \in 1..(g + n) PROVE readBuffer'[k] = d + k
    <3>1. CASE k <= g
      <4>1. k \in 1..g
        BY <3>1, <1>2
      <4> QED
        BY <4>1, <1>3 DEF IInv, Numbered
    <3>2. CASE ~(k <= g)
      <4> DEFINE j == k - g
      <4>1. j \in 1..n /\ g + j = k
        BY <3>2, <1>2
      <4>2. Available(received)[j] = d + 0 + g + j
        BY <4>1, <1>1, AvailableFacts
      <4>3. readBuffer'[g + j] = Available(received)[j]
        BY <4>1, <1>3
      <4> HIDE DEF j, d, g
      <4>4. d + 0 + g + j = d + k
        BY <4>1, <1>2
      <4> QED
        BY <4>1, <4>2, <4>3, <4>4
    <3> QED
      BY <3>1, <3>2
  <2>4. Len(buffered') = 0 /\ Len(InAnswer') = 0 /\ 1..0 = {}
    BY <1>1, <1>4
  <2> QED
    BY <1>3, <2>1, <2>2, <2>3, <2>4 DEF Numbered
<1>9. Counted'
  <2>1. d + 0 + g + n = arrived'
    BY AvailableFacts, <1>1
  <2>2. d + 0 + (g + n) + 0 = arrived'
    <3> HIDE DEF d, g, n
    <3> QED
      BY <1>2, <2>1
  <2>3. Len(InAnswer') = 0 /\ Len(buffered') = 0
    BY <1>1, <1>4
  <2>4. delivered' = delivered /\ arrived' \in Nat
    BY ProcessingFrame
  <2> QED
    BY <1>3, <2>2, <2>3, <2>4 DEF Counted
<1>10. Gathering'
  <2>1. pendingRead' # Wait
    BY <1>4, LatestReadFacts
  <2> QED
    BY <1>4, <2>1 DEF Gathering, StillGathering
<1>11. AnswerFits'
  BY <1>1 DEF AnswerFits
<1>12. ClosedAtEnd'
  BY ClosedAtEndKept, ProcessingFrame
<1> QED
  BY <1>5, <1>6, <1>7, <1>8, <1>9, <1>10, <1>11, <1>12 DEF IInv

\* When an answer fits: n bytes of it, of which the last `taken` were available.
LEMMA FittingAnswer ==
  ASSUME IInv, NEW received, NEW last, Processing(received, last),
         LatestRead.kind # "None",
         NEW taken \in 0..Len(Available(received)), NEW flag \in BOOLEAN,
         Answered(Available(received), taken, flag),
         NEW n \in Nat, n = Len(readBuffer) + taken,
         flag \/ n = 0 => last /\ taken = Len(Available(received)),
         reading.kind = "Raw" =>
           IF reading.size > 0 THEN n <= reading.size
                               ELSE last /\ taken = Len(Available(received)),
         reading.kind = "Line" =>
           /\ reading.size > 0 => n <= reading.size
           /\ \A j \in 1 .. n - 1 : Len(delivered) + j \notin Newlines
           /\ \/ Len(delivered) + n \in Newlines
              \/ n = reading.size
              \/ last /\ taken = Len(Available(received))
  PROVE  IInv'
<1> DEFINE d == Len(delivered)
           all == Len(Available(received))
<1>1. d \in Nat /\ Len(readBuffer) \in Nat /\ all \in Nat /\ taken \in Nat
  BY Lengths, AvailableFacts DEF IInv
<1>2. Len(InAnswer') = n
  BY AnsweredFacts
<1>3. /\ delivered' = delivered /\ reading' = reading
      /\ requestClosed' = last /\ arrived' \in Nat
  BY ProcessingFrame
<1>4. d + n <= arrived' /\ (taken = all => d + n = arrived')
  <2>1. d + 0 + Len(readBuffer) + all = arrived'
    <3>1. Len(InAnswer) = 0
      BY AnsweredFacts
    <3> QED
      BY <3>1, AvailableFacts
  <2>2. taken <= all
    BY <1>1
  <2> HIDE DEF d, all
  <2>3. d + n <= arrived'
    BY <1>1, <1>3, <2>1, <2>2
  <2>4. ASSUME taken = all PROVE d + n = arrived'
    BY <1>1, <1>3, <2>1, <2>4
  <2> QED
    BY <2>3, <2>4
<1>5. reading \in Reads /\ reading.size # 0 /\ reading.size \in Int
  BY LatestReadFacts, ReadsAssumption DEF IInv, ReadInOnePlace
<1>6. n = 0 \/ flag => last /\ d + n = arrived'
  BY <1>4
<1>7. Input!Fits(reading, n)'
  <2>1. reading.kind = "Raw" =>
          IF reading.size >= 0 THEN n <= reading.size ELSE last /\ d + n = arrived'
    BY <1>4, <1>5
  <2>2. reading.kind = "Line" => Input!IsLine(reading, n)'
    <3> SUFFICES ASSUME reading.kind = "Line" PROVE Input!IsLine(reading, n)'
      OBVIOUS
    <3>1. /\ n > 0 /\ reading.size > 0 => n <= reading.size
          /\ d + n \in Newlines \/ n = reading.size \/ (last /\ d + n = arrived')
      BY <1>4
    <3>2. ASSUME NEW j \in d + 1 .. d + n - 1 PROVE j \notin Newlines
      <4> DEFINE i == j - d
      <4>1. i \in 1 .. n - 1 /\ d + i = j
        BY <1>1
      <4>2. d + i \notin Newlines
        BY <4>1
      <4> QED
        BY <4>1, <4>2
    <3> QED
      BY <1>3, <3>1, <3>2 DEF Input!IsLine
  <2>3. n = 0 => last /\ d = arrived'
    BY <1>1, <1>6
  <2> QED
    BY <1>3, <1>4, <1>5, <2>1, <2>2, <2>3 DEF Input!Fits, Input!AtEOF
<1>8. AnswerFits'
  <2>1. channel'[1].closed = flag
    BY AnsweredFacts
  <2>2. flag => last /\ d + n = arrived'
    BY <1>6
  <2> QED
    BY <1>2, <1>3, <1>7, <2>1, <2>2 DEF AnswerFits
<1> QED
  BY <1>8, AnsweredStep

-----------------------------------------------------------------------------
(* Reads of a number of bytes or of everything, and reads of a line.       *)

LEMMA ReadRawStep ==
  ASSUME IInv, NEW received, NEW last, Processing(received, last),
         LatestRead.kind = "Raw", ~(Available(received) = <<>> /\ ~last),
         ReadRaw(Available(received), LatestRead, last)
  PROVE  IInv'
<1> DEFINE g == Len(readBuffer)
           all == Len(Available(received))
<1>1. /\ LatestRead = reading /\ reading \in Reads /\ StillGathering(reading)
      /\ reading.kind = "Raw" /\ LatestRead.kind # "None"
  BY LatestReadFacts
<1>2. reading.size \in Int /\ last \in BOOLEAN
  BY <1>1, ReadsAssumption, ProcessingFrame
<1>3. g \in Nat /\ all \in Nat /\ (all = 0 => last)
  <2>1. all = 0 => last
    BY AvailableFacts
  <2> QED
    BY <2>1, Lengths, AvailableFacts DEF IInv
<1>4. CASE reading.size > 0
  <2> DEFINE taken == Min({reading.size, all})
             flag == last /\ taken = all
  <2>1. taken \in {reading.size, all} /\ taken <= reading.size /\ taken <= all
    <3>1. {reading.size, all} \in SUBSET Nat /\ {reading.size, all} # {}
      BY <1>2, <1>3, <1>4
    <3> QED
      BY <3>1, MinFacts
  <2>2. Answered(Available(received), taken, flag)
    BY <1>1, <1>4 DEF ReadRaw
  <2>3. g = 0
    <3>1. readBuffer = <<>>
      BY <1>1, <1>4 DEF StillGathering
    <3> QED
      BY <3>1
  <2> HIDE DEF taken
  <2>4. taken \in 0..all /\ taken \in Nat /\ taken = g + taken
    BY <1>2, <1>3, <1>4, <2>1, <2>3
  <2>5. flag \in BOOLEAN
    OBVIOUS
  <2>6. flag \/ taken = 0 => last /\ taken = all
    <3>1. ASSUME taken = 0 PROVE last /\ taken = all
      BY <1>2, <1>3, <1>4, <2>1, <3>1
    <3> QED
      BY <3>1
  <2>7. reading.kind = "Raw" =>
          IF reading.size > 0 THEN taken <= reading.size ELSE last /\ taken = all
    BY <1>4, <2>1
  <2>8. reading.kind # "Line"
    BY <1>1
  <2> HIDE DEF flag
  <2> QED
    BY <1>1, <2>2, <2>4, <2>5, <2>6, <2>7, <2>8, FittingAnswer
<1>5. CASE ~(reading.size > 0) /\ last
  <2>1. Answered(Available(received), all, TRUE)
    BY <1>1, <1>5 DEF ReadRaw
  <2>2. all \in 0..all /\ g + all \in Nat
    BY <1>3
  <2>3. reading.kind # "Line"
    BY <1>1
  <2> QED
    BY <1>1, <1>5, <2>1, <2>2, <2>3, FittingAnswer
<1>6. CASE ~(reading.size > 0) /\ ~last
  <2>1. Gathered(Available(received), LatestRead)
    BY <1>1, <1>6 DEF ReadRaw
  <2>2. PICK q : q = LatestRead
    OBVIOUS
  <2>3. StillGathering(q)'
    BY <1>1, <1>6, <2>2 DEF StillGathering
  <2> QED
    BY <1>1, <2>1, <2>2, <2>3, GatheredStep
<1> QED
  BY <1>4, <1>5, <1>6

\* The end of a line is the first newline or the last byte that the size allows.
LEMMA LineEndFacts ==
  ASSUME NEW available \in Seq(1..MaxBody), NEW size,
         NEW end, end = LineEnd(available, size)
  PROVE  /\ end \in 0..Len(available)
         /\ end > 0 => \/ available[end] \in Newlines
                       \/ size > 0 /\ Len(readBuffer) + end >= size
         /\ \A k \in 1..Len(available) : end = 0 \/ k < end =>
              /\ available[k] \notin Newlines
              /\ ~(size > 0 /\ Len(readBuffer) + k >= size)
<1> DEFINE Ends == {k \in DOMAIN available :
                      \/ available[k] \in Newlines
                      \/ size > 0 /\ Len(readBuffer) + k >= size}
<1>1. Len(available) \in Nat /\ DOMAIN available = 1..Len(available)
  BY LenProperties
<1>2. end = IF Ends = {} THEN 0 ELSE Min(Ends)
  BY DEF LineEnd
<1>3. CASE Ends = {}
  <2>1. end = 0
    BY <1>2, <1>3
  <2> QED
    BY <1>1, <1>3, <2>1
<1>4. CASE Ends # {}
  <2>1. Ends \in SUBSET Nat
    BY <1>1
  <2>2. end \in Ends /\ \A k \in Ends : end <= k
    <3> HIDE DEF Ends
    <3> QED
      <4>1. Min(Ends) \in Ends /\ \A k \in Ends : Min(Ends) <= k
        BY ONLY <1>4, <2>1, MinFacts
      <4>2. end = Min(Ends)
        BY <1>2, <1>4
      <4> QED
        BY ONLY <4>1, <4>2
  <2>3. end \in 1..Len(available)
    BY <2>2, <1>1
  <2>4. ASSUME NEW k \in 1..Len(available), end = 0 \/ k < end PROVE k \notin Ends
    BY <2>2, <2>3, <2>4, <1>1
  <2> QED
    BY <1>1, <2>2, <2>3, <2>4
<1> QED
  BY <1>3, <1>4

LEMMA ReadLineStep ==
  ASSUME IInv, NEW received, NEW last, Processing(received, last),
         LatestRead.kind = "Line", ~(Available(received) = <<>> /\ ~last),
         ReadLine(Available(received), LatestRead, last)
  PROVE  IInv'
<1> DEFINE d == Len(delivered)
           g == Len(readBuffer)
           all == Len(Available(received))
           Bytes == Available(received)
           size == reading.size
<1>1. /\ LatestRead = reading /\ reading \in Reads /\ StillGathering(reading)
      /\ reading.kind = "Line" /\ LatestRead.kind # "None"
  BY LatestReadFacts
<1>2. PICK end : end = LineEnd(Available(received), reading.size)
  OBVIOUS
<1>3. /\ end \in 0..all
      /\ end > 0 => Bytes[end] \in Newlines \/ (size > 0 /\ g + end >= size)
      /\ \A k \in 1..all : end = 0 \/ k < end =>
           Bytes[k] \notin Newlines /\ ~(size > 0 /\ g + k >= size)
  BY <1>2, AvailableFacts, LineEndFacts
<1>4. /\ size \in Int /\ last \in BOOLEAN
      /\ d \in Nat /\ g \in Nat /\ all \in Nat /\ end \in Nat
  BY <1>1, <1>3, ReadsAssumption, ProcessingFrame, AvailableFacts, Lengths DEF IInv
<1>5. /\ size > 0 => g < size
      /\ \A k \in 1..g : readBuffer[k] = d + k /\ d + k \notin Newlines
  <2>1. \A k \in 1..g : readBuffer[k] = d + k /\ readBuffer[k] \notin Newlines
    BY <1>1 DEF StillGathering, IInv, Numbered
  <2>2. size > 0 => g < size
    BY <1>1 DEF StillGathering
  <2> QED
    BY <2>1, <2>2
<1>6. ASSUME NEW k \in 1..all PROVE Bytes[k] = d + (g + k)
  <2>1. Len(InAnswer) = 0
    BY LatestReadFacts DEF InAnswer
  <2>2. Bytes[k] = d + 0 + g + k
    BY <2>1, AvailableFacts
  <2> HIDE DEF Bytes, d, g, all
  <2> QED
    BY <2>2, <1>4
\* The first bytes of the line, those before the end that was found.
<1>7. ASSUME NEW m \in Nat, m <= all, end = 0 \/ m < end
      PROVE  /\ size > 0 => g + m < size
             /\ \A j \in 1..(g + m) : d + j \notin Newlines
  <2>1. ASSUME size > 0 PROVE g + m < size
    <3>1. CASE m = 0
      BY <1>4, <1>5, <2>1, <3>1
    <3>2. CASE m # 0
      <4>1. m \in 1..all
        BY <1>4, <1>7, <3>2
      <4>2. ~(g + m >= size)
        BY <1>3, <1>7, <2>1, <4>1
      <4> HIDE DEF g, size
      <4> QED
        BY <1>4, <4>2
    <3> QED
      BY <3>1, <3>2
  <2>2. ASSUME NEW j \in 1..(g + m) PROVE d + j \notin Newlines
    <3>1. CASE j <= g
      <4>1. j \in 1..g
        BY <3>1, <1>4
      <4> QED
        BY <4>1, <1>5
    <3>2. CASE ~(j <= g)
      <4> DEFINE i == j - g
      <4>1. i \in 1..m /\ g + i = j
        BY <3>2, <1>4
      <4> HIDE DEF i
      <4>2. i \in 1..all /\ (end = 0 \/ i < end)
        BY <1>4, <1>7, <4>1
      <4>3. Bytes[i] \notin Newlines
        BY <1>3, <4>2
      <4>4. Bytes[i] = d + j
        BY <1>6, <4>1, <4>2
      <4> QED
        BY <4>3, <4>4
    <3> QED
      BY <3>1, <3>2
  <2> QED
    BY <2>1, <2>2
<1>8. CASE end > 0
  <2> DEFINE flag == last /\ end = all
             n == g + end
  <2>1. Answered(Available(received), end, flag)
    BY <1>1, <1>2, <1>8 DEF ReadLine
  <2>2. flag \in BOOLEAN /\ n \in Nat /\ n # 0 /\ end \in 0..all
    BY <1>3, <1>4, <1>8
  <2>3. /\ size > 0 => g + (end - 1) < size
        /\ \A j \in 1..(g + (end - 1)) : d + j \notin Newlines
    <3>1. end - 1 \in Nat /\ end - 1 <= all /\ end - 1 < end
      BY <1>3, <1>4, <1>8
    <3> QED
      BY <3>1, <1>7
  <2>4. size > 0 => n <= size
    BY <1>4, <2>3
  <2>5. \A j \in 1 .. n - 1 : d + j \notin Newlines
    <3>1. n - 1 = g + (end - 1)
      BY <1>4
    <3> QED
      BY <2>3, <3>1
  <2>6. d + n \in Newlines \/ n = size
    <3>1. CASE Bytes[end] \in Newlines
      <4>1. end \in 1..all
        BY <1>3, <1>4, <1>8
      <4> QED
        BY <3>1, <4>1, <1>6
    <3>2. CASE size > 0 /\ g + end >= size
      BY <3>2, <2>4, <1>4
    <3> QED
      BY <3>1, <3>2, <1>3, <1>8
  <2>7. reading.kind # "Raw"
    BY <1>1
  <2>8. flag \/ n = 0 => last /\ end = all
    BY <2>2
  <2> HIDE DEF flag
  <2> QED
    BY <1>1, <2>1, <2>2, <2>4, <2>5, <2>6, <2>7, <2>8, FittingAnswer
<1>9. CASE ~(end > 0) /\ last
  <2> DEFINE n == g + all
  <2>1. end = 0
    BY <1>4, <1>9
  <2>2. Answered(Available(received), all, TRUE)
    BY <1>1, <1>2, <1>9 DEF ReadLine
  <2>3. all \in 0..all /\ n \in Nat
    BY <1>4
  <2>4. /\ size > 0 => g + all < size
        /\ \A j \in 1..(g + all) : d + j \notin Newlines
    BY <1>4, <1>7, <2>1
  <2>5. size > 0 => n <= size
    BY <1>4, <2>4
  <2>6. \A j \in 1 .. n - 1 : d + j \notin Newlines
    <3>1. \A j \in 1 .. n - 1 : j \in 1..(g + all)
      BY <1>4
    <3> QED
      BY <2>4, <3>1
  <2>7. reading.kind # "Raw"
    BY <1>1
  <2> QED
    BY <1>1, <1>9, <2>2, <2>3, <2>5, <2>6, <2>7, FittingAnswer
<1>10. CASE ~(end > 0) /\ ~last
  <2>1. end = 0
    BY <1>4, <1>10
  <2>2. Gathered(Available(received), LatestRead)
    BY <1>1, <1>2, <1>10 DEF ReadLine
  <2>3. PICK q : q = LatestRead
    OBVIOUS
  <2>4. /\ size > 0 => g + all < size
        /\ \A j \in 1..(g + all) : d + j \notin Newlines
    BY <1>4, <1>7, <2>1
  <2>5. StillGathering(q)'
    <3>1. readBuffer \in Seq(1..MaxBody) /\ Bytes \in Seq(1..MaxBody)
      BY AvailableFacts DEF IInv, TypeOK
    <3>2. readBuffer' = readBuffer \o Bytes
      BY <2>2 DEF Gathered
    <3>3. /\ Len(readBuffer') = g + all
          /\ \A k \in 1..g : readBuffer'[k] = readBuffer[k]
          /\ \A k \in 1..all : readBuffer'[g + k] = Bytes[k]
      BY ONLY <3>1, <3>2, ConcatFacts
    <3>4. ASSUME NEW k \in 1..(g + all) PROVE readBuffer'[k] = d + k
      <4>1. CASE k <= g
        <5>1. k \in 1..g
          BY <4>1, <1>4
        <5> QED
          BY <5>1, <1>5, <3>3
      <4>2. CASE ~(k <= g)
        <5> DEFINE i == k - g
        <5>1. i \in 1..all /\ g + i = k
          BY <4>2, <1>4
        <5> HIDE DEF i
        <5> QED
          BY <5>1, <1>6, <3>3
      <4> QED
        BY <4>1, <4>2
    <3>5. q.kind = "Line" /\ q.size = size
      BY <1>1, <2>3
    <3> HIDE DEF g, all, d, Bytes, size
    <3> QED
      BY <2>4, <3>3, <3>4, <3>5 DEF StillGathering
  <2> QED
    BY <1>1, <2>2, <2>3, <2>5, GatheredStep
<1> QED
  BY <1>8, <1>9, <1>10

LEMMA ProcessingStep ==
  ASSUME IInv, NEW received, NEW last, Processing(received, last)
  PROVE  IInv'
<1> DEFINE waits == LatestRead.kind = "None" \/ (Available(received) = <<>> /\ ~last)
<1>1. IF waits
        THEN LeftInEnvoy(Available(received), LatestRead)
        ELSE \/ LatestRead.kind = "Raw" /\ ReadRaw(Available(received), LatestRead, last)
             \/ LatestRead.kind = "Line" /\ ReadLine(Available(received), LatestRead, last)
  BY DEF Processing, ProcessRead, Available
<1>2. CASE waits
  BY <1>1, <1>2, LeftStep
<1>3. CASE ~waits /\ LatestRead.kind = "Raw" /\ ReadRaw(Available(received), LatestRead, last)
  BY <1>3, ReadRawStep
<1>4. CASE ~waits /\ LatestRead.kind = "Line" /\ ReadLine(Available(received), LatestRead, last)
  BY <1>4, ReadLineStep
<1> QED
  BY <1>1, <1>2, <1>3, <1>4

-----------------------------------------------------------------------------
(* The callbacks of the filter.                                            *)

LEMMA OnRequestHeadersStep ==
  ASSUME IInv, NEW endOfStream \in BOOLEAN, OnRequestHeaders(endOfStream)
  PROVE  IInv'
<1>1. /\ pc = "idle" /\ arrived = 0 /\ delivered = <<>> /\ filter = "live"
      /\ reading = Wait /\ channel = <<>>
  BY DEF OnRequestHeaders, IInv, Stages, ReadInOnePlace
<1>2. /\ arrived' = arrived /\ buffered' = buffered /\ filter' = filter
      /\ pendingRead' = pendingRead /\ readBuffer' = readBuffer
      /\ readBridge' = readBridge /\ commits' = commits /\ channel' = channel
      /\ pc' = pc /\ reading' = reading /\ delivered' = delivered /\ answer' = answer
      /\ started' = TRUE /\ InAnswer' = InAnswer
  BY DEF OnRequestHeaders, InAnswer
<1>3. requestClosed' = endOfStream /\ inputClosed' = endOfStream
  BY DEF OnRequestHeaders
<1>4. TypeOK'
  BY <1>2, <1>3 DEF IInv, TypeOK
<1>5. Stages'
  BY <1>2 DEF IInv, Stages
<1>6. ReadInOnePlace'
  BY <1>1, <1>2 DEF IInv, ReadInOnePlace
<1>7. Numbered' /\ Counted' /\ Gathering'
  BY <1>2 DEF IInv, Numbered, Counted, Gathering, StillGathering
<1>8. AnswerFits'
  BY <1>1, <1>2 DEF AnswerFits
<1>9. ClosedAtEnd'
  <2>1. Len(delivered') = 0
    BY <1>1, <1>2
  <2> QED
    BY <1>1, <1>2, <1>3, <2>1 DEF ClosedAtEnd
<1> QED
  BY <1>4, <1>5, <1>6, <1>7, <1>8, <1>9 DEF IInv

LEMMA OnRequestBodyStep ==
  ASSUME IInv, NEW n \in 0..MaxBody, NEW endOfStream \in BOOLEAN,
         OnRequestBody(n, endOfStream)
  PROVE  IInv'
<1> DEFINE received == [k \in 1..n |-> arrived + k]
<1>1. n \in Nat /\ arrived \in Nat /\ arrived + n <= MaxBody /\ MaxBody \in Nat
  BY BoundsAssumption DEF IInv, TypeOK, OnRequestBody
<1>2. received \in [1..n -> 1..MaxBody]
  BY <1>1
<1>3. received \in Seq(1..MaxBody) /\ Len(received) = n
  <2> HIDE DEF received
  <2> QED
    BY <1>1, <1>2, FunctionIsSeq
<1>4. \A k \in 1..Len(received) : received[k] = arrived + k
  BY <1>3
<1>5. /\ ProcessRead(received, endOfStream)
      /\ arrived' = arrived + n /\ requestClosed' = endOfStream
      /\ ~requestClosed /\ started /\ filter = "live"
      /\ UNCHANGED <<started, filter, commits, appVars>>
  BY DEF OnRequestBody
<1>6. commits' \in Nat
  BY <1>5 DEF IInv, TypeOK
<1>7. arrived' = arrived + Len(received) /\ arrived' <= MaxBody
  BY <1>1, <1>3, <1>5
<1> HIDE DEF received
<1>8. Processing(received, endOfStream)
  BY <1>3, <1>4, <1>5, <1>6, <1>7 DEF Processing
<1> QED
  BY <1>8, ProcessingStep

\* The end of the body, or a scheduled callback, brings no bytes.
LEMMA NothingReceived ==
  ASSUME IInv, NEW last \in BOOLEAN, ProcessRead(<<>>, last), filter # "dropped",
         arrived' = arrived, requestClosed' = last, requestClosed => last,
         ~started => ~last, commits' \in Nat, UNCHANGED <<started, filter, appVars>>
  PROVE  IInv'
<1>1. <<>> \in Seq(1..MaxBody) /\ Len(<<>>) = 0
  BY EmptySeq
<1>2. arrived \in Nat /\ arrived <= MaxBody /\ 1..0 = {}
  BY BoundsAssumption DEF IInv, TypeOK
<1>3. arrived' = arrived + Len(<<>>) /\ arrived' <= MaxBody
  BY <1>1, <1>2
<1>4. Processing(<<>>, last)
  BY <1>1, <1>2, <1>3 DEF Processing
<1> QED
  BY <1>4, ProcessingStep

LEMMA OnRequestTrailersStep == ASSUME IInv, OnRequestTrailers PROVE IInv'
<1>1. commits' \in Nat
  BY DEF IInv, TypeOK, OnRequestTrailers
<1> QED
  BY <1>1, NothingReceived DEF OnRequestTrailers

LEMMA OnScheduledStep == ASSUME IInv, OnScheduled PROVE IInv'
<1>1. commits' \in Nat
  BY DEF IInv, TypeOK, OnScheduled
<1>2. requestClosed \in BOOLEAN /\ (~started => ~requestClosed)
  BY DEF IInv, TypeOK, Stages
<1>3. requestClosed' = requestClosed
  BY DEF OnScheduled
<1> QED
  BY <1>1, <1>2, <1>3, NothingReceived DEF OnScheduled

LEMMA OnStreamCompleteStep == ASSUME IInv, OnStreamComplete PROVE IInv'
<1>1. /\ arrived' = arrived /\ buffered' = buffered /\ started' = started
      /\ requestClosed' = requestClosed /\ pendingRead' = pendingRead
      /\ readBuffer' = readBuffer /\ commits' = commits /\ channel' = channel
      /\ pc' = pc /\ reading' = reading /\ inputClosed' = inputClosed
      /\ delivered' = delivered /\ answer' = answer /\ InAnswer' = InAnswer
      /\ started /\ filter = "live" /\ filter' = "complete"
      /\ readBridge' = ClosedBridge
  BY DEF OnStreamComplete, appVars, InAnswer
<1>2. /\ ClosedBridge.closed = TRUE /\ ClosedBridge.events = <<>>
      /\ ClosedBridge \in Bridges(Reads)
  BY EmptySeq DEF ClosedBridge, Bridges
<1>3. TypeOK'
  BY <1>1, <1>2 DEF IInv, TypeOK
<1>4. Stages'
  BY <1>1, <1>2 DEF IInv, Stages
<1>5. ReadInOnePlace'
  BY <1>1, <1>2 DEF IInv, ReadInOnePlace
<1>6. Numbered' /\ Counted' /\ Gathering'
  BY <1>1 DEF IInv, Numbered, Counted, Gathering, StillGathering
<1>7. AnswerFits'
  <2>1. arrived \in Nat /\ arrived <= arrived' /\ arrived' \in Nat
    BY <1>1, BoundsAssumption DEF IInv, TypeOK
  <2> QED
    BY <1>1, <2>1, AnswerFitsKept
<1>8. ClosedAtEnd'
  BY <1>1, ClosedAtEndKept
<1> QED
  BY <1>3, <1>4, <1>5, <1>6, <1>7, <1>8 DEF IInv

\* What the filter still holds is lost with it; an answer in the channel is not.
LEMMA DropStep == ASSUME IInv, Drop PROVE IInv'
<1>1. /\ arrived' = arrived /\ started' = started /\ requestClosed' = requestClosed
      /\ readBridge' = readBridge /\ channel' = channel
      /\ pc' = pc /\ reading' = reading /\ inputClosed' = inputClosed
      /\ delivered' = delivered /\ answer' = answer /\ InAnswer' = InAnswer
      /\ filter = "complete" /\ filter' = "dropped" /\ commits' = 0
      /\ buffered' = <<>> /\ readBuffer' = <<>> /\ pendingRead' = Wait
  BY DEF Drop, appVars, InAnswer
<1>2. TypeOK'
  BY <1>1, EmptySeq DEF IInv, TypeOK
<1>3. Stages'
  BY <1>1 DEF IInv, Stages
<1>4. ReadInOnePlace'
  BY <1>1 DEF IInv, ReadInOnePlace
<1>5. Numbered' /\ Gathering'
  <2>1. Len(buffered') = 0 /\ Len(readBuffer') = 0 /\ 1..0 = {}
    BY <1>1
  <2> QED
    BY <1>1, <2>1 DEF IInv, Numbered, Gathering
<1>6. Counted'
  <2>1. /\ Len(delivered) \in Nat /\ Len(InAnswer) \in Nat /\ Len(readBuffer) \in Nat
        /\ Len(buffered) \in Nat /\ arrived \in Nat
    BY Lengths DEF IInv
  <2>2. Len(delivered) + Len(InAnswer) + Len(readBuffer) + Len(buffered) = arrived
    BY <1>1 DEF IInv, Counted
  <2>3. Len(delivered) + Len(InAnswer) + 0 + 0 <= arrived
    BY <2>1, <2>2
  <2>4. Len(buffered') = 0 /\ Len(readBuffer') = 0
    BY <1>1
  <2> QED
    BY <1>1, <2>3, <2>4 DEF Counted
<1>7. AnswerFits'
  <2>1. arrived \in Nat /\ arrived <= arrived' /\ arrived' \in Nat
    BY <1>1, BoundsAssumption DEF IInv, TypeOK
  <2> QED
    BY <1>1, <2>1, AnswerFitsKept
<1>8. ClosedAtEnd'
  BY <1>1, ClosedAtEndKept
<1> QED
  BY <1>2, <1>3, <1>4, <1>5, <1>6, <1>7, <1>8 DEF IInv

-----------------------------------------------------------------------------
(* The application's thread.                                               *)

LEMMA ReadNothingStep == ASSUME IInv, NEW r \in Reads, ReadNothing(r) PROVE IInv'
<1>1. /\ UNCHANGED <<arrived, buffered, started, filter, requestClosed, pendingRead,
                     readBuffer, readBridge, commits, channel, pc, reading,
                     inputClosed, delivered>>
      /\ answer' = [read |-> r, ok |-> TRUE, count |-> 0]
      /\ InAnswer' = InAnswer
  BY DEF ReadNothing, envoyVars, InAnswer
<1>2. TypeOK'
  BY <1>1, BoundsAssumption DEF IInv, TypeOK
<1>3. Stages' /\ ReadInOnePlace'
  BY <1>1 DEF IInv, Stages, ReadInOnePlace
<1>4. Numbered' /\ Counted' /\ Gathering'
  BY <1>1 DEF IInv, Numbered, Counted, Gathering, StillGathering
<1>5. AnswerFits'
  <2>1. arrived \in Nat /\ arrived <= arrived' /\ arrived' \in Nat
    BY <1>1, BoundsAssumption DEF IInv, TypeOK
  <2> QED
    BY <1>1, <2>1, AnswerFitsKept
<1>6. ClosedAtEnd'
  BY <1>1, ClosedAtEndKept
<1> QED
  BY <1>2, <1>3, <1>4, <1>5, <1>6 DEF IInv

LEMMA SendReadStep == ASSUME IInv, NEW r \in Reads, SendRead(r) PROVE IInv'
<1>1. /\ UNCHANGED <<arrived, buffered, started, filter, requestClosed, pendingRead,
                     readBuffer, commits, channel, inputClosed, delivered, answer>>
      /\ started /\ pc = "idle" /\ r.size # 0 /\ ~inputClosed
      /\ readBridge' = Sent(readBridge, r) /\ reading' = r
      /\ pc' \in {"recv", "commit"} /\ InAnswer' = InAnswer
  BY DEF SendRead, envoyVars, InAnswer
<1>2. /\ readBridge.events = <<>> /\ pendingRead = Wait /\ channel = <<>>
  BY <1>1 DEF IInv, ReadInOnePlace
<1>3. /\ readBridge' \in Bridges(Reads) /\ readBridge'.closed = readBridge.closed
      /\ readBridge'.events = IF readBridge.closed THEN <<>> ELSE <<r>>
  <2>1. readBridge \in [closed : BOOLEAN, events : Seq(Reads)]
    BY DEF IInv, TypeOK, Bridges
  <2>2. Append(<<>>, r) = <<r>> /\ <<r>> \in Seq(Reads)
    BY EmptySeq
  <2> QED
    BY <1>1, <1>2, <2>1, <2>2 DEF Sent, Bridges, IInv, TypeOK
<1>4. TypeOK'
  BY <1>1, <1>3 DEF IInv, TypeOK
<1>5. Stages'
  BY <1>1, <1>3 DEF IInv, Stages
<1>6. ReadInOnePlace'
  BY <1>1, <1>2, <1>3 DEF IInv, ReadInOnePlace, Stages
<1>7. Numbered' /\ Counted' /\ Gathering'
  BY <1>1 DEF IInv, Numbered, Counted, Gathering, StillGathering
<1>8. AnswerFits'
  BY <1>1, <1>2 DEF AnswerFits
<1>9. ClosedAtEnd'
  BY <1>1, ClosedAtEndKept
<1> QED
  BY <1>4, <1>5, <1>6, <1>7, <1>8, <1>9 DEF IInv

LEMMA CommitStep == ASSUME IInv, Commit PROVE IInv'
<1>1. /\ UNCHANGED <<arrived, buffered, started, filter, requestClosed, pendingRead,
                     readBuffer, readBridge, channel, reading, inputClosed,
                     delivered, answer>>
      /\ pc = "commit" /\ pc' = "recv" /\ InAnswer' = InAnswer
      /\ commits' \in {commits, commits + 1}
  BY DEF Commit, envoyVars, InAnswer
<1>2. TypeOK'
  BY <1>1 DEF IInv, TypeOK
<1>3. Stages' /\ ReadInOnePlace'
  BY <1>1 DEF IInv, Stages, ReadInOnePlace
<1>4. Numbered' /\ Counted' /\ Gathering'
  BY <1>1 DEF IInv, Numbered, Counted, Gathering, StillGathering
<1>5. AnswerFits'
  <2>1. arrived \in Nat /\ arrived <= arrived' /\ arrived' \in Nat
    BY <1>1, BoundsAssumption DEF IInv, TypeOK
  <2> QED
    BY <1>1, <2>1, AnswerFitsKept
<1>6. ClosedAtEnd'
  BY <1>1, ClosedAtEndKept
<1> QED
  BY <1>2, <1>3, <1>4, <1>5, <1>6 DEF IInv

LEMMA ReceiveFailsStep == ASSUME IInv, ReceiveFails PROVE IInv'
<1>1. /\ UNCHANGED <<arrived, buffered, started, filter, requestClosed, pendingRead,
                     readBuffer, readBridge, commits, channel, inputClosed, delivered>>
      /\ pc = "recv" /\ pc' = "idle" /\ channel = <<>> /\ filter = "dropped"
      /\ reading' = Wait /\ InAnswer' = InAnswer
      /\ answer' = [read |-> reading, ok |-> FALSE, count |-> 0]
  BY DEF ReceiveFails, envoyVars, InAnswer
<1>2. TypeOK'
  BY <1>1, BoundsAssumption DEF IInv, TypeOK
<1>3. Stages'
  BY <1>1 DEF IInv, Stages
<1>4. ReadInOnePlace'
  <2>1. pendingRead = Wait /\ readBridge.closed
    BY <1>1 DEF IInv, Stages
  <2>2. readBridge.events = <<>>
    BY <2>1 DEF IInv, TypeOK, Bridges
  <2> QED
    BY <1>1, <2>1, <2>2 DEF IInv, ReadInOnePlace
<1>5. Numbered' /\ Counted' /\ Gathering'
  BY <1>1 DEF IInv, Numbered, Counted, Gathering, StillGathering
<1>6. AnswerFits'
  BY <1>1 DEF AnswerFits
<1>7. ClosedAtEnd'
  BY <1>1, ClosedAtEndKept
<1> QED
  BY <1>2, <1>3, <1>4, <1>5, <1>6, <1>7 DEF IInv

\* What the application is given, and that nothing is left on its way.
LEMMA ReceiveFacts ==
  ASSUME IInv, Receive
  PROVE  /\ UNCHANGED <<arrived, buffered, started, filter, requestClosed, pendingRead,
                        readBuffer, readBridge, commits>>
         /\ pc = "recv" /\ pc' = "idle" /\ reading' = Wait
         /\ channel # <<>> /\ channel' = <<>> /\ InAnswer' = <<>>
         /\ pendingRead = Wait /\ readBuffer = <<>> /\ readBridge.events = <<>>
         /\ delivered' \in Seq(1..MaxBody)
         /\ Len(delivered') = Len(delivered) + Len(InAnswer)
         /\ \A k \in 1..Len(delivered) : delivered'[k] = delivered[k]
         /\ \A k \in 1..Len(InAnswer) : delivered'[Len(delivered) + k] = InAnswer[k]
         /\ inputClosed' = channel[1].closed /\ inputClosed' \in BOOLEAN
         /\ answer' = [read |-> reading, ok |-> TRUE, count |-> Len(InAnswer)]
         /\ Len(InAnswer) \in 0..MaxBody
<1>1. channel # <<>> /\ channel \in Seq(Messages) /\ Len(channel) = 1
  BY DEF Receive, IInv, TypeOK, ReadInOnePlace
<1>2. /\ Head(channel) = channel[1] /\ Head(channel).bytes = InAnswer
      /\ Tail(channel) = <<>> /\ channel[1].closed \in BOOLEAN
  <2>1. Head(channel) = channel[1] /\ Tail(channel) \in Seq(Messages) /\ Len(Tail(channel)) = 0
    BY <1>1, TailFacts
  <2>2. Tail(channel) = <<>>
    BY <2>1, EmptySeq
  <2>3. channel[1] \in Messages
    BY <1>1, Lengths DEF IInv
  <2> QED
    BY <1>1, <2>1, <2>2, <2>3 DEF InAnswer, Messages
<1>3. delivered \in Seq(1..MaxBody) /\ InAnswer \in Seq(1..MaxBody)
  BY Lengths DEF IInv, TypeOK
<1>4. delivered' = delivered \o InAnswer
  BY <1>2 DEF Receive
<1>5. /\ delivered' \in Seq(1..MaxBody)
      /\ Len(delivered') = Len(delivered) + Len(InAnswer)
      /\ \A k \in 1..Len(delivered) : delivered'[k] = delivered[k]
      /\ \A k \in 1..Len(InAnswer) : delivered'[Len(delivered) + k] = InAnswer[k]
  BY ONLY <1>3, <1>4, ConcatFacts
<1>6. pendingRead = Wait /\ readBuffer = <<>> /\ readBridge.events = <<>>
  BY <1>1 DEF IInv, ReadInOnePlace, Gathering
<1>7. Len(InAnswer) \in 0..MaxBody
  <2>1. /\ Len(delivered) \in Nat /\ Len(InAnswer) \in Nat /\ Len(readBuffer) \in Nat
        /\ Len(buffered) \in Nat /\ arrived \in Nat /\ arrived <= MaxBody
    BY Lengths, BoundsAssumption DEF IInv, TypeOK
  <2>2. Len(delivered) + Len(InAnswer) + Len(readBuffer) + Len(buffered) <= arrived
    BY DEF IInv, Counted
  <2> QED
    BY <2>1, <2>2, BoundsAssumption
<1>8. channel' = <<>> /\ InAnswer' = <<>>
  BY <1>2 DEF Receive, InAnswer
<1> QED
  BY <1>1, <1>2, <1>5, <1>6, <1>7, <1>8 DEF Receive, envoyVars

LEMMA ReceiveStep == ASSUME IInv, Receive PROVE IInv'
<1> DEFINE d == Len(delivered)
           n == Len(InAnswer)
<1>1. /\ d \in Nat /\ n \in Nat /\ Len(buffered) \in Nat /\ arrived \in Nat
      /\ Len(readBuffer) = 0 /\ Len(readBuffer') = 0 /\ Len(InAnswer') = 0
      /\ Len(delivered') = d + n
  <2>1. readBuffer = <<>> /\ readBuffer' = <<>> /\ InAnswer' = <<>>
    BY ReceiveFacts
  <2>2. Len(delivered') = d + n
    BY ReceiveFacts
  <2> QED
    BY <2>1, <2>2, Lengths DEF IInv
<1>2. TypeOK'
  <2>1. channel' \in Seq(Messages) /\ inputClosed' \in BOOLEAN /\ reading \in Reads \cup {Wait}
    BY ReceiveFacts, EmptySeq DEF IInv, TypeOK
  <2>2. answer' \in [read : Reads \cup {Wait}, ok : BOOLEAN, count : 0..MaxBody]
    <3>1. /\ answer' = [read |-> reading, ok |-> TRUE, count |-> n]
          /\ n \in 0..MaxBody
      BY ReceiveFacts
    <3> QED
      BY ONLY <3>1, <2>1
  <2>3. /\ UNCHANGED <<arrived, buffered, started, filter, requestClosed, pendingRead,
                       readBuffer, readBridge, commits>>
        /\ pc' = "idle" /\ reading' = Wait /\ delivered' \in Seq(1..MaxBody)
    BY ReceiveFacts
  <2> QED
    BY <2>1, <2>2, <2>3 DEF IInv, TypeOK
<1>3. Stages'
  <2>1. started
    BY ReceiveFacts DEF IInv, Stages
  <2> QED
    BY <2>1, ReceiveFacts DEF IInv, Stages
<1>4. ReadInOnePlace'
  BY ReceiveFacts DEF ReadInOnePlace
<1>5. Numbered'
  <2>1. ASSUME NEW k \in 1..(d + n) PROVE delivered'[k] = k
    <3>1. CASE k <= d
      <4>1. k \in 1..d
        BY <3>1, <1>1
      <4> QED
        BY <4>1, ReceiveFacts DEF IInv, Numbered
    <3>2. CASE ~(k <= d)
      <4> DEFINE j == k - d
      <4>1. j \in 1..n /\ d + j = k
        BY <3>2, <1>1
      <4> HIDE DEF j
      <4>2. delivered'[d + j] = InAnswer[j]
        BY <4>1, ReceiveFacts
      <4>3. InAnswer[j] = d + j
        BY <4>1 DEF IInv, Numbered
      <4> QED
        BY <4>1, <4>2, <4>3
    <3> QED
      BY <3>1, <3>2
  <2>2. ASSUME NEW k \in 1..Len(buffered) PROVE buffered[k] = (d + n) + 0 + 0 + k
    <3>1. buffered[k] = d + n + 0 + k
      BY <1>1 DEF IInv, Numbered
    <3> HIDE DEF d, n
    <3> QED
      BY <1>1, <3>1
  <2>3. buffered' = buffered /\ 1..0 = {}
    BY ReceiveFacts
  <2> QED
    BY <1>1, <2>1, <2>2, <2>3 DEF Numbered
<1>6. Counted'
  <2>1. /\ d + n + 0 + Len(buffered) <= arrived
        /\ filter # "dropped" => d + n + 0 + Len(buffered) = arrived
    BY <1>1 DEF IInv, Counted
  <2>2. /\ (d + n) + 0 + 0 + Len(buffered) <= arrived
        /\ filter # "dropped" => (d + n) + 0 + 0 + Len(buffered) = arrived
    <3> HIDE DEF d, n
    <3> QED
      BY <1>1, <2>1
  <2>3. buffered' = buffered /\ arrived' = arrived /\ filter' = filter
    BY ReceiveFacts
  <2> QED
    BY <1>1, <2>2, <2>3 DEF Counted
<1>7. Gathering'
  BY ReceiveFacts DEF Gathering
<1>8. AnswerFits'
  BY ReceiveFacts DEF AnswerFits
<1>9. ClosedAtEnd'
  <2>1. channel[1].closed => requestClosed /\ d + n = arrived
    BY ReceiveFacts DEF IInv, AnswerFits
  <2>2. SUFFICES ASSUME inputClosed' PROVE requestClosed' /\ Len(delivered') = arrived'
    BY DEF ClosedAtEnd
  <2>3. channel[1].closed
    BY <2>2, ReceiveFacts
  <2>4. requestClosed' = requestClosed /\ arrived' = arrived
    BY ReceiveFacts
  <2> QED
    BY <1>1, <2>1, <2>3, <2>4
<1> QED
  BY <1>2, <1>3, <1>4, <1>5, <1>6, <1>7, <1>8, <1>9 DEF IInv

-----------------------------------------------------------------------------
(* The invariant.                                                          *)

LEMMA InitIInv == ASSUME Init PROVE IInv
<1>1. Len(<<>>) = 0 /\ 1..0 = {}
  OBVIOUS
<1>2. InAnswer = <<>>
  BY DEF Init, InAnswer
<1>3. TypeOK
  <2>1. readBridge \in Bridges(Reads)
    BY EmptySeq DEF Init, OpenBridge, Bridges
  <2>2. answer \in [read : Reads \cup {Wait}, ok : BOOLEAN, count : 0..MaxBody]
    BY BoundsAssumption DEF Init, NoAnswer
  <2>3. arrived \in 0..MaxBody /\ commits \in Nat
    BY BoundsAssumption DEF Init
  <2>4. /\ started \in BOOLEAN /\ requestClosed \in BOOLEAN /\ inputClosed \in BOOLEAN
        /\ filter \in {"live", "complete", "dropped"} /\ pc \in {"idle", "commit", "recv"}
        /\ pendingRead \in Reads \cup {Wait} /\ reading \in Reads \cup {Wait}
    BY DEF Init
  <2>5. /\ buffered \in Seq(1..MaxBody) /\ readBuffer \in Seq(1..MaxBody)
        /\ channel \in Seq(Messages) /\ delivered \in Seq(1..MaxBody)
    BY EmptySeq DEF Init
  <2> QED
    BY <2>1, <2>2, <2>3, <2>4, <2>5 DEF TypeOK
<1>4. Stages /\ ReadInOnePlace
  BY DEF Init, Stages, ReadInOnePlace, OpenBridge
<1>5. Numbered /\ Counted
  BY <1>1, <1>2 DEF Init, Numbered, Counted
<1>6. Gathering /\ AnswerFits /\ ClosedAtEnd
  BY DEF Init, Gathering, AnswerFits, ClosedAtEnd
<1> QED
  BY <1>3, <1>4, <1>5, <1>6 DEF IInv

LEMMA NextIInv == ASSUME IInv, [Next]_vars PROVE IInv'
<1>1. ASSUME NEW endOfStream \in BOOLEAN, OnRequestHeaders(endOfStream) PROVE IInv'
  BY <1>1, OnRequestHeadersStep
<1>2. ASSUME NEW n \in 0..MaxBody, NEW endOfStream \in BOOLEAN,
             OnRequestBody(n, endOfStream)
      PROVE IInv'
  BY <1>2, OnRequestBodyStep
<1>3. CASE OnRequestTrailers \/ OnScheduled \/ OnStreamComplete \/ Drop
  BY <1>3, OnRequestTrailersStep, OnScheduledStep, OnStreamCompleteStep, DropStep
<1>4. ASSUME NEW r \in Reads, ReadNothing(r) \/ SendRead(r) PROVE IInv'
  BY <1>4, ReadNothingStep, SendReadStep
<1>5. CASE Commit \/ Receive \/ ReceiveFails
  BY <1>5, CommitStep, ReceiveStep, ReceiveFailsStep
<1>6. CASE UNCHANGED vars
  BY <1>6 DEF vars, envoyVars, appVars, IInv, TypeOK, Stages, ReadInOnePlace, Numbered,
              Counted, Gathering, StillGathering, AnswerFits, ClosedAtEnd, InAnswer,
              Input!Fits, Input!AtEOF, Input!IsLine
<1> QED
  BY <1>1, <1>2, <1>3, <1>4, <1>5, <1>6 DEF Next

\* In every reachable state the invariant holds.
THEOREM Inductive == Spec => []IInv
<1>1. Init => IInv
  BY InitIInv
<1>2. IInv /\ [Next]_vars => IInv'
  BY NextIInv
<1> QED
  BY <1>1, <1>2, PTL DEF Spec, Safety

-----------------------------------------------------------------------------
(* What the invariant says about the body and the reads.                   *)

\* What the answers in the channel hold is what the one answer holds.
LEMMA InChannelIsInAnswer == ASSUME IInv PROVE InChannel = InAnswer
<1> DEFINE parts == [k \in DOMAIN channel |-> channel[k].bytes]
<1>1. channel \in Seq(Messages) /\ Len(channel) \in {0, 1}
  BY DEF IInv, TypeOK, ReadInOnePlace
<1>2. Len(channel) \in Nat /\ DOMAIN channel = 1..Len(channel)
  BY <1>1, LenProperties
<1>3. \A k \in DOMAIN channel : channel[k].bytes \in Seq(1..MaxBody)
  <2>1. \A k \in DOMAIN channel : channel[k] \in Messages
    BY <1>1, <1>2, ElementOfSeq
  <2> QED
    BY <2>1 DEF Messages
<1>4. parts \in Seq(Seq(1..MaxBody)) /\ Len(parts) = Len(channel)
  <2>1. parts \in [1..Len(channel) -> Seq(1..MaxBody)]
    BY <1>2, <1>3
  <2> HIDE DEF parts
  <2> QED
    BY <1>2, <2>1, FunctionIsSeq
<1>5. FlattenSeq(parts) = IF parts = <<>> THEN <<>> ELSE parts[1]
  <2> HIDE DEF parts
  <2> QED
    BY <1>1, <1>4, FlattenOne
<1>6. parts = <<>> <=> channel = <<>>
  <2> HIDE DEF parts
  <2> QED
    BY <1>1, <1>4, EmptySeq
<1>7. channel # <<>> => parts[1] = channel[1].bytes
  <2> SUFFICES ASSUME channel # <<>> PROVE 1 \in DOMAIN channel
    OBVIOUS
  <2> QED
    BY <1>1, <1>2 DEF IInv, ReadInOnePlace
<1> HIDE DEF parts
<1> QED
  BY <1>5, <1>6, <1>7 DEF InChannel, parts, InAnswer

\* The bytes taken for a read: of an answer, or of one that is being gathered.
LEMMA TakenFacts ==
  ASSUME IInv, NEW taken, taken = InChannel \o readBuffer
  PROVE  /\ taken \in Seq(1..MaxBody) /\ Len(taken) \in Nat
         /\ Len(taken) = Len(InAnswer) + Len(readBuffer)
         /\ \A k \in 1..Len(taken) : taken[k] = Len(delivered) + k
         /\ taken = InAnswer \/ (taken = readBuffer /\ InAnswer = <<>>)
<1>1. InAnswer \in Seq(1..MaxBody) /\ readBuffer \in Seq(1..MaxBody)
  BY Lengths DEF IInv, TypeOK
<1>2. taken = InAnswer \o readBuffer
  BY InChannelIsInAnswer
<1>3. CASE channel = <<>>
  <2>1. InAnswer = <<>>
    BY <1>3 DEF InAnswer
  <2>2. taken = readBuffer
    BY <1>1, <1>2, <2>1, ConcatEmptySeq
  <2>3. Len(InAnswer) = 0
    BY <2>1
  <2>4. Len(readBuffer) \in Nat
    BY Lengths DEF IInv
  <2> QED
    BY <1>1, <2>1, <2>2, <2>3, <2>4 DEF IInv, Numbered
<1>4. CASE channel # <<>>
  <2>1. readBuffer = <<>>
    BY <1>4 DEF IInv, ReadInOnePlace, Gathering
  <2>2. taken = InAnswer
    BY <1>1, <1>2, <2>1, ConcatEmptySeq
  <2>3. Len(readBuffer) = 0
    BY <2>1
  <2>4. Len(InAnswer) \in Nat
    BY Lengths DEF IInv
  <2> QED
    BY <1>1, <2>2, <2>3, <2>4 DEF IInv, Numbered
<1> QED
  BY <1>3, <1>4

LEMMA BodyIsConserved == ASSUME IInv PROVE BodyConserved
<1> DEFINE taken == InChannel \o readBuffer
           d == Len(delivered)
           n == Len(taken)
           b == Len(buffered)
<1>1. /\ taken \in Seq(1..MaxBody) /\ n \in Nat
      /\ n = Len(InAnswer) + Len(readBuffer)
      /\ \A k \in 1..n : taken[k] = d + k
      /\ taken = InAnswer \/ (taken = readBuffer /\ InAnswer = <<>>)
  BY TakenFacts
<1>2. /\ delivered \in Seq(1..MaxBody) /\ buffered \in Seq(1..MaxBody)
      /\ arrived \in Nat /\ d \in Nat /\ b \in Nat
      /\ Len(InAnswer) \in Nat /\ Len(readBuffer) \in Nat
  BY Lengths DEF IInv, TypeOK
<1> HIDE DEF taken
<1>3. ASSUME filter # "dropped" PROVE Body = delivered \o taken \o buffered
  <2> DEFINE front == delivered \o taken
             all == front \o buffered
  <2>1. /\ front \in Seq(1..MaxBody) /\ Len(front) = d + n
        /\ \A k \in 1..d : front[k] = delivered[k]
        /\ \A k \in 1..n : front[d + k] = taken[k]
    BY ONLY <1>1, <1>2, ConcatFacts
  <2> HIDE DEF front
  <2>2. /\ all \in Seq(1..MaxBody) /\ Len(all) = Len(front) + b
        /\ \A k \in 1..Len(front) : all[k] = front[k]
        /\ \A k \in 1..b : all[Len(front) + k] = buffered[k]
    <3>1. front \in Seq(1..MaxBody) /\ buffered \in Seq(1..MaxBody)
      BY <1>2, <2>1
    <3> QED
      BY ONLY <3>1, ConcatFacts
  <2> HIDE DEF all
  <2>3. (d + n) + b = arrived
    <3>1. d + Len(InAnswer) + Len(readBuffer) + b = arrived
      BY <1>3 DEF IInv, Counted
    <3> HIDE DEF d, n, b
    <3> QED
      BY <1>1, <1>2, <3>1
  <2>4. ASSUME NEW k \in 1..arrived PROVE all[k] = k
    <3>1. CASE k <= d
      <4>1. k \in 1..d /\ k \in 1..Len(front)
        BY <1>1, <1>2, <2>1, <3>1
      <4>2. delivered[k] = k
        BY <4>1 DEF IInv, Numbered
      <4> QED
        BY <2>1, <2>2, <4>1, <4>2
    <3>2. CASE d < k /\ k <= d + n
      <4> DEFINE j == k - d
      <4>1. j \in 1..n /\ d + j = k /\ k \in 1..Len(front)
        BY <1>1, <1>2, <2>1, <3>2
      <4> HIDE DEF j
      <4>2. front[d + j] = taken[j] /\ taken[j] = d + j
        BY <1>1, <2>1, <4>1
      <4>3. all[k] = front[k]
        BY <2>2, <4>1
      <4> QED
        BY <4>1, <4>2, <4>3
    <3>3. CASE d + n < k
      <4> DEFINE j == k - (d + n)
      <4>1. j \in 1..b /\ (d + n) + j = k
        BY <1>1, <1>2, <2>3, <3>3
      <4> HIDE DEF j
      <4>2. all[(d + n) + j] = buffered[j]
        BY <2>1, <2>2, <4>1
      <4>3. buffered[j] = d + Len(InAnswer) + Len(readBuffer) + j
        BY <4>1 DEF IInv, Numbered
      <4> HIDE DEF d, n, b
      <4>4. d + Len(InAnswer) + Len(readBuffer) + j = (d + n) + j
        BY <1>1, <1>2, <4>1
      <4> QED
        BY <4>1, <4>2, <4>3, <4>4
    <3> HIDE DEF d, n
    <3> QED
      BY <1>1, <1>2, <3>1, <3>2, <3>3
  <2>5. Len(all) = arrived
    BY <2>1, <2>2, <2>3
  <2>6. Body \in Seq(Nat) /\ Len(Body) = arrived
    <3>1. Body \in [1..arrived -> Nat]
      BY DEF Body
    <3> QED
      BY <1>2, <3>1, FunctionIsSeq
  <2>7. all = Body
    <3>1. DOMAIN all = 1..arrived /\ all = [k \in 1..arrived |-> all[k]]
      BY <2>2, <2>5, LenProperties
    <3> QED
      BY <2>4, <3>1 DEF Body
  <2> QED
    BY <2>7 DEF all, front
<1>4. ASSUME taken # <<>>
      PROVE  /\ pc # "idle"
             /\ reading.size > 0 => n <= reading.size
             /\ reading.kind = "Line" =>
                  \A k \in 1 .. n - 1 : taken[k] \notin Newlines
  <2>1. CASE channel # <<>>
    <3>1. readBuffer = <<>> /\ pc # "idle" /\ reading \in Reads
      BY <2>1 DEF IInv, ReadInOnePlace, Gathering
    <3>2. Len(readBuffer) = 0
      BY <3>1
    <3>3. n = Len(InAnswer)
      BY <1>1, <1>2, <3>2
    <3>4. Input!Fits(reading, n)
      BY <2>1, <3>3 DEF IInv, AnswerFits
    <3>5. reading.kind \in {"Raw", "Line"} /\ reading.size \in Int
      BY <3>1, ReadsAssumption
    <3>6. ASSUME reading.size > 0 PROVE n <= reading.size
      <4>1. CASE n = 0
        BY <3>5, <3>6, <4>1
      <4>2. CASE n # 0
        BY <1>1, <3>4, <3>5, <3>6, <4>2 DEF Input!Fits, Input!IsLine
      <4> QED
        BY <4>1, <4>2
    <3>7. ASSUME reading.kind = "Line", NEW k \in 1 .. n - 1
          PROVE  taken[k] \notin Newlines
      <4>1. reading.size # 0
        BY <3>1 DEF IInv, ReadInOnePlace
      <4>2. \A j \in d + 1 .. d + n - 1 : j \notin Newlines
        BY <3>4, <3>7, <4>1 DEF Input!Fits, Input!IsLine
      <4> HIDE DEF d, n
      <4>3. d + k \in d + 1 .. d + n - 1 /\ k \in 1..n
        BY <1>1, <1>2
      <4> QED
        BY <1>1, <4>2, <4>3
    <3> QED
      BY <3>1, <3>6, <3>7
  <2>2. CASE channel = <<>>
    <3>1. InAnswer = <<>>
      BY <2>2 DEF InAnswer
    <3>2. taken = readBuffer
      BY <1>1, <3>1
    <3>3. pendingRead # Wait /\ StillGathering(pendingRead)
      BY <1>4, <3>2 DEF IInv, Gathering
    <3>4. pendingRead = reading /\ pc # "idle" /\ reading \in Reads
      BY <3>3 DEF IInv, ReadInOnePlace
    <3>5. reading.kind \in {"Raw", "Line"} /\ reading.size \in Int
      BY <3>4, ReadsAssumption
    <3>6. ASSUME reading.size > 0 PROVE n <= reading.size
      <4>1. reading.kind = "Line"
        BY <1>4, <3>2, <3>3, <3>4, <3>5, <3>6 DEF StillGathering
      <4>2. Len(readBuffer) < reading.size
        BY <3>3, <3>4, <3>6, <4>1 DEF StillGathering
      <4> QED
        BY <1>2, <3>2, <3>5, <4>2
    <3>7. ASSUME reading.kind = "Line", NEW k \in 1 .. n - 1
          PROVE  taken[k] \notin Newlines
      <4>1. k \in 1..Len(readBuffer)
        BY <1>2, <3>2
      <4> QED
        BY <3>2, <3>3, <3>4, <3>7, <4>1 DEF StillGathering
    <3> QED
      BY <3>4, <3>6, <3>7
  <2> QED
    BY <2>1, <2>2
<1> QED
  BY <1>3, <1>4 DEF BodyConserved, taken

\* Where the outstanding read is, counted.
LEMMA OneReadIsInFlight == ASSUME IInv PROVE OneReadOneAnswer
<1>1. Len(<<>>) = 0 /\ Len(<<reading>>) = 1
  OBVIOUS
<1>2. /\ Len(readBridge.events) = IF readBridge.events = <<>> THEN 0 ELSE 1
      /\ Len(channel) = IF channel = <<>> THEN 0 ELSE 1
  <2>1. readBridge.events # <<>> => readBridge.events = <<reading>>
    BY DEF IInv, ReadInOnePlace
  <2>2. channel # <<>> => Len(channel) = 1
    BY DEF IInv, ReadInOnePlace
  <2>3. Len(readBridge.events) = IF readBridge.events = <<>> THEN 0 ELSE 1
    BY ONLY <1>1, <2>1
  <2>4. Len(channel) = IF channel = <<>> THEN 0 ELSE 1
    BY ONLY <1>1, <2>2
  <2> QED
    BY <2>3, <2>4
<1>3. /\ readBridge.events # <<>> => pendingRead = Wait /\ channel = <<>>
      /\ pendingRead # Wait => channel = <<>>
      /\ pc = "idle" => /\ readBridge.events = <<>> /\ pendingRead = Wait
                        /\ channel = <<>>
      /\ pc # "idle" /\ filter = "live" =>
           readBridge.events # <<>> \/ pendingRead # Wait \/ channel # <<>>
  BY DEF IInv, ReadInOnePlace
<1>4. CASE readBridge.events # <<>>
  BY <1>2, <1>3, <1>4 DEF OneReadOneAnswer, ReadsInFlight, IInv
<1>5. CASE readBridge.events = <<>> /\ pendingRead # Wait
  BY <1>2, <1>3, <1>5 DEF OneReadOneAnswer, ReadsInFlight, IInv
<1>6. CASE readBridge.events = <<>> /\ pendingRead = Wait
  BY <1>2, <1>3, <1>6 DEF OneReadOneAnswer, ReadsInFlight, IInv
<1> QED
  BY <1>4, <1>5, <1>6

(***************************************************************************)
(* TypeOK, which says that every part of the state is of its type, holds   *)
(* in every reachable state.                                               *)
(***************************************************************************)
THEOREM TypeCorrect == Spec => []TypeOK
<1>1. IInv => TypeOK
  BY DEF IInv
<1> QED
  BY <1>1, Inductive, PTL

(***************************************************************************)
(* process_read loses no byte of the request body, changes the order of    *)
(* none, and takes none from Envoy but for the read that waits for it.     *)
(***************************************************************************)
THEOREM BodyIsNeverLost == Spec => []BodyConserved
<1>1. IInv => BodyConserved
  BY BodyIsConserved
<1> QED
  BY <1>1, Inductive, PTL

(***************************************************************************)
(* A read that the application sends over the bridge is answered once: it  *)
(* is in one place until then, and no later read gets its answer.          *)
(***************************************************************************)
THEOREM EveryReadHasItsAnswer == Spec => []OneReadOneAnswer
<1>1. IInv => OneReadOneAnswer
  BY OneReadIsInFlight
<1> QED
  BY <1>1, Inductive, PTL

-----------------------------------------------------------------------------
(* The refinement: the reads, with the bridge, the channel and the filter  *)
(* between them and the body, are those of a blocking file.                *)

LEMMA WaitIsNoReadThere == Input!NoRead = Wait /\ Input!NoAnswer = NoAnswer
BY DEF Input!NoRead, Input!NoAnswer, Wait, NoAnswer

\* A callback of the filter brings more of the body, its end, or the end of the
\* stream.
LEMMA CallbackRefines ==
  ASSUME IInv,
         reading' = reading, delivered' = delivered, answer' = answer,
         filter' = filter, arrived' \in Nat, arrived <= arrived', arrived' <= MaxBody,
         requestClosed' \in BOOLEAN,
         requestClosed => requestClosed' /\ arrived' = arrived
  PROVE  [Input!Next]_(Input!vars)
<1>1. CASE requestClosed
  <2>1. requestClosed' = requestClosed
    BY <1>1 DEF IInv, TypeOK
  <2>2. UNCHANGED Input!vars
    BY <1>1, <2>1 DEF Input!vars
  <2> QED
    BY <2>2
<1>2. CASE ~requestClosed
  <2>1. arrived' \in arrived..MaxBody
    BY BoundsAssumption DEF IInv, TypeOK
  <2>2. Input!Arrive
    BY <1>2, <2>1 DEF Input!Arrive
  <2> QED
    BY <2>2 DEF Input!Next
<1> QED
  BY <1>1, <1>2

LEMMA CompleteRefines ==
  ASSUME IInv, OnStreamComplete \/ Drop
  PROVE  [Input!Next]_(Input!vars)
<1>1. /\ arrived' = arrived /\ requestClosed' = requestClosed
      /\ reading' = reading /\ answer' = answer /\ Len(delivered)' = Len(delivered)
  BY DEF OnStreamComplete, Drop, appVars
<1>2. (filter # "live")' = TRUE
  BY DEF OnStreamComplete, Drop
<1>3. Input!Complete
  BY <1>1, <1>2 DEF Input!Complete
<1> QED
  BY <1>3 DEF Input!Next

LEMMA CallRefines ==
  ASSUME IInv, NEW r \in Reads, SendRead(r)
  PROVE  [Input!Next]_(Input!vars)
<1>1. reading = Input!NoRead
  BY WaitIsNoReadThere DEF SendRead, IInv, ReadInOnePlace
<1>2. Input!Call(r)
  BY <1>1 DEF Input!Call, SendRead, envoyVars
<1> QED
  BY <1>2 DEF Input!Next

LEMMA ReturnAtOnceRefines ==
  ASSUME IInv, NEW r \in Reads, ReadNothing(r)
  PROVE  [Input!Next]_(Input!vars)
<1>1. reading = Input!NoRead
  BY WaitIsNoReadThere DEF ReadNothing, IInv, ReadInOnePlace
<1>2. r.kind \in {"Raw", "Line"} /\ r.size \in Int
  BY ReadsAssumption
<1>3. /\ Len(delivered) \in Nat /\ arrived \in Nat
      /\ Len(InAnswer) \in Nat /\ Len(readBuffer) \in Nat /\ Len(buffered) \in Nat
  BY Lengths DEF IInv
<1>4. Len(delivered) <= arrived
  <2>1. Len(delivered) + Len(InAnswer) + Len(readBuffer) + Len(buffered) <= arrived
    BY DEF IInv, Counted
  <2> QED
    BY <1>3, <2>1
<1>5. r.size = 0 \/ (requestClosed /\ Len(delivered) = arrived)
  BY DEF ReadNothing, IInv, ClosedAtEnd
<1>6. Input!Fits(r, 0)
  <2>1. r.kind = "Raw" =>
          IF r.size >= 0 THEN 0 <= r.size
                         ELSE requestClosed /\ Len(delivered) + 0 = arrived
    BY <1>2, <1>3, <1>5
  <2>2. r.kind = "Line" /\ r.size # 0 => Input!IsLine(r, 0)
    <3>1. \A j \in Len(delivered) + 1 .. Len(delivered) + 0 - 1 : FALSE
      BY <1>3
    <3>2. Len(delivered) + 0 = Len(delivered) /\ ~(0 > 0)
      BY <1>3
    <3> QED
      BY <1>5, <3>1, <3>2 DEF Input!IsLine
  <2> QED
    BY <1>3, <1>4, <1>5, <2>1, <2>2 DEF Input!Fits, Input!AtEOF
<1>7. Input!ReturnAtOnce(r)
  BY <1>1, <1>6 DEF Input!ReturnAtOnce, ReadNothing, envoyVars
<1> QED
  BY <1>7 DEF Input!Next

\* What the application is given is what its read may return.
LEMMA ReturnRefines == ASSUME IInv, Receive PROVE [Input!Next]_(Input!vars)
<1>1. reading # Input!NoRead
  <2>1. reading \in Reads
    BY ReceiveFacts DEF IInv, ReadInOnePlace
  <2> QED
    BY <2>1, WaitIsNoRead, WaitIsNoReadThere
<1>2. PICK k \in 0..MaxBody : k = Len(InAnswer)
  BY ReceiveFacts
<1>3. Input!Fits(reading, k)
  BY <1>2, ReceiveFacts DEF IInv, AnswerFits
<1>4. /\ Len(delivered)' = Len(delivered) + k
      /\ answer' = [read |-> reading, ok |-> TRUE, count |-> k]
      /\ reading' = Input!NoRead
  BY <1>2, ReceiveFacts, WaitIsNoReadThere
<1>5. arrived' = arrived /\ requestClosed' = requestClosed /\ filter' = filter
  BY ReceiveFacts
<1>6. Input!Return
  BY <1>1, <1>3, <1>4, <1>5 DEF Input!Return
<1> QED
  BY <1>6 DEF Input!Next

\* A read fails only when the stream is over.
LEMMA FailRefines == ASSUME IInv, ReceiveFails PROVE [Input!Next]_(Input!vars)
<1>1. reading # Input!NoRead
  <2>1. reading \in Reads
    BY DEF ReceiveFails, IInv, ReadInOnePlace
  <2> QED
    BY <2>1, WaitIsNoRead, WaitIsNoReadThere
<1>2. Input!Fail
  BY <1>1, WaitIsNoReadThere DEF Input!Fail, ReceiveFails, envoyVars
<1> QED
  BY <1>2 DEF Input!Next

LEMMA StepRefines == ASSUME IInv, [Next]_vars PROVE [Input!Next]_(Input!vars)
<1>1. arrived \in Nat /\ arrived <= MaxBody /\ MaxBody \in Nat /\ requestClosed \in BOOLEAN
  BY BoundsAssumption DEF IInv, TypeOK
<1>2. ASSUME NEW endOfStream \in BOOLEAN, OnRequestHeaders(endOfStream)
      PROVE  [Input!Next]_(Input!vars)
  <2>1. ~requestClosed
    BY <1>2 DEF OnRequestHeaders, IInv, Stages
  <2> QED
    BY <1>1, <1>2, <2>1, CallbackRefines DEF OnRequestHeaders
<1>3. ASSUME NEW n \in 0..MaxBody, NEW endOfStream \in BOOLEAN,
             OnRequestBody(n, endOfStream)
      PROVE  [Input!Next]_(Input!vars)
  <2>1. arrived' \in Nat /\ arrived <= arrived' /\ arrived' <= MaxBody
    BY <1>1, <1>3 DEF OnRequestBody
  <2> QED
    BY <1>3, <2>1, CallbackRefines DEF OnRequestBody, appVars
<1>4. CASE OnRequestTrailers
  BY <1>1, <1>4, CallbackRefines DEF OnRequestTrailers, appVars
<1>5. CASE OnScheduled
  BY <1>1, <1>5, CallbackRefines DEF OnScheduled, appVars
<1>6. CASE OnStreamComplete \/ Drop
  BY <1>6, CompleteRefines
<1>7. ASSUME NEW r \in Reads, ReadNothing(r) \/ SendRead(r)
      PROVE  [Input!Next]_(Input!vars)
  BY <1>7, ReturnAtOnceRefines, CallRefines
<1>8. CASE Commit \/ UNCHANGED vars
  BY <1>8 DEF Commit, Input!vars, vars, envoyVars, appVars
<1>9. CASE Receive \/ ReceiveFails
  BY <1>9, ReturnRefines, FailRefines
<1> QED
  BY <1>2, <1>3, <1>4, <1>5, <1>6, <1>7, <1>8, <1>9 DEF Next

(***************************************************************************)
(* RequestInput is a blocking file over the request body, however Envoy    *)
(* cuts the body up and whenever it ends the stream.                       *)
(***************************************************************************)
THEOREM InputRefines == Spec => ImplementsInput
<1>1. Init => Input!Init
  <2>1. Init => Len(delivered) = 0 /\ (filter # "live") = FALSE
    BY DEF Init
  <2> QED
    BY <2>1, WaitIsNoReadThere DEF Init, Input!Init
<1>2. IInv /\ [Next]_vars => [Input!Next]_(Input!vars)
  BY StepRefines
<1> QED
  BY <1>1, <1>2, Inductive, PTL DEF Spec, Safety, ImplementsInput, Input!Spec

-----------------------------------------------------------------------------
(* The executor: its inductive invariant.                                  *)

ExecutorOK ==
  /\ Exec!TypeOK
  /\ queue \in Seq(Items) /\ closed \in BOOLEAN /\ pushed \subseteq Items
  /\ holding \in [Workers -> Items \cup {NoItem}] /\ gone \subseteq Workers

\* A request is in the queue or with one application thread, and submits its
\* job from there.
RequestsApart ==
  /\ \A j, k \in DOMAIN queue : queue[j] = queue[k] => j = k
  /\ \A k \in DOMAIN queue :
       /\ queue[k] \in pushed /\ queue[k] \notin submitted
       /\ \A w \in Workers : holding[w] # queue[k]
  /\ \A w \in Workers : holding[w] # NoItem => holding[w] \in pushed
  /\ \A v, w \in Workers : holding[v] = holding[w] /\ holding[v] # NoItem => v = w

\* A job was submitted, and runs on no thread while it is being handed over.
JobsApart ==
  /\ \A t \in PoolThreads : job[t] # NoItem => job[t] \in submitted
  /\ \A w \in Workers : executing[w] # "app" =>
       /\ holding[w] \in submitted
       /\ \A t \in PoolThreads : job[t] # holding[w]
  /\ \A t, u \in PoolThreads : job[t] = job[u] /\ job[t] # NoItem => t = u

Spawned == {t \in PoolThreads : pool[t] # "none"}
Spawning == {w \in Workers : executing[w] = "spawn"}
CountIsExact == workers = Cardinality(Spawned) + Cardinality(Spawning)

\* How far shutdown has come is what the parts know of it: in particular no
\* application thread is left when the pool's flag is set.
ShutdownStages ==
  /\ closed <=> closer # "serving"
  /\ \A w \in gone : closed /\ queue = <<>> /\ holding[w] = NoItem
  /\ closer \notin {"serving", "joining"} => gone = Workers
  /\ shutdown => closer \notin {"serving", "joining", "joined"}
  /\ closer = "done" => workers = 0
  /\ dropped = {}

ExecutorInv ==
  ExecutorOK /\ RequestsApart /\ JobsApart /\ CountIsExact /\ ShutdownStages

-----------------------------------------------------------------------------
(* The count.                                                              *)

LEMMA CountsAreFinite ==
  /\ IsFiniteSet(Spawned) /\ Cardinality(Spawned) \in Nat
  /\ IsFiniteSet(Spawning) /\ Cardinality(Spawning) \in Nat
<1>1. Spawned \subseteq PoolThreads /\ Spawning \subseteq Workers
  BY DEF Spawned, Spawning
<1>2. IsFiniteSet(Spawned) /\ IsFiniteSet(Spawning)
  BY <1>1, FS_Subset, WorkersAssumption, PoolThreadsAssumption
<1> QED
  BY <1>2, FS_CardinalityType

\* A thread that is there has been counted.
LEMMA CountedThreads ==
  ASSUME CountIsExact
  PROVE  /\ workers \in Nat
         /\ \A t \in PoolThreads : pool[t] # "none" => workers > 0
         /\ workers = 0 => \A t \in PoolThreads : pool[t] = "none"
<1>1. workers \in Nat /\ (workers = 0 => Cardinality(Spawned) = 0)
  BY CountsAreFinite DEF CountIsExact
<1>2. Cardinality(Spawned) = 0 => Spawned = {}
  BY CountsAreFinite, FS_EmptySet
<1>3. Spawned = {} => \A t \in PoolThreads : pool[t] = "none"
  BY DEF Spawned
<1> QED
  BY <1>1, <1>2, <1>3

LEMMA CountIsExactInit == Exec!Init => CountIsExact
<1> SUFFICES ASSUME Exec!Init PROVE CountIsExact
  OBVIOUS
<1>1. Spawned = {} /\ Spawning = {}
  BY DEF Exec!Init, Spawned, Spawning
<1> QED
  BY <1>1, FS_EmptySet DEF Exec!Init, CountIsExact

LEMMA CountIsExactNext ==
  ExecutorOK /\ CountIsExact /\ [Exec!Next]_(Exec!vars) => CountIsExact'
<1> SUFFICES ASSUME ExecutorOK, CountIsExact, [Exec!Next]_(Exec!vars)
             PROVE  CountIsExact'
  OBVIOUS
<1> USE DEF ExecutorOK, Exec!TypeOK
<1>0. ASSUME Spawned' = Spawned, Spawning' = Spawning, workers' = workers
      PROVE  CountIsExact'
  BY <1>0 DEF CountIsExact
<1>1. ASSUME NEW w \in Workers, Exec!CountThread(w) PROVE CountIsExact'
  <2>1. w \notin Spawning /\ Spawning' = Spawning \cup {w} /\ Spawned' = Spawned
    BY <1>1 DEF Exec!CountThread, Spawning, Spawned
  <2>2. Cardinality(Spawning') = Cardinality(Spawning) + 1
    BY <2>1, CountsAreFinite, FS_AddElement
  <2> QED
    BY <1>1, <2>1, <2>2, CountsAreFinite DEF Exec!CountThread, CountIsExact
<1>2. ASSUME NEW w \in Workers, NEW t \in PoolThreads, Exec!SpawnThread(w, t)
      PROVE  CountIsExact'
  <2>1. /\ w \in Spawning /\ Spawning' = Spawning \ {w}
        /\ t \notin Spawned /\ Spawned' = Spawned \cup {t}
    BY <1>2 DEF Exec!SpawnThread, Spawning, Spawned
  <2>2. /\ Cardinality(Spawning') = Cardinality(Spawning) - 1
        /\ Cardinality(Spawned') = Cardinality(Spawned) + 1
    BY <2>1, CountsAreFinite, FS_AddElement, FS_RemoveElement
  <2> QED
    BY <1>2, <2>2, CountsAreFinite DEF Exec!SpawnThread, CountIsExact
<1>3. ASSUME NEW t \in PoolThreads, Exec!Uncount(t) PROVE CountIsExact'
  <2>1. t \in Spawned /\ Spawned' = Spawned \ {t} /\ Spawning' = Spawning
    BY <1>3 DEF Exec!Uncount, Spawning, Spawned
  <2>2. Cardinality(Spawned') = Cardinality(Spawned) - 1
    BY <2>1, CountsAreFinite, FS_RemoveElement
  <2> QED
    BY <1>3, <2>1, <2>2, CountsAreFinite DEF Exec!Uncount, CountIsExact
<1>4. ASSUME NEW w \in Workers, NEW t \in PoolThreads, Exec!HandOver(w, t)
      PROVE  CountIsExact'
  BY <1>0, <1>4 DEF Exec!HandOver, Spawning, Spawned
<1>5. ASSUME NEW w \in Workers, Exec!Submit(w) PROVE CountIsExact'
  BY <1>0, <1>5 DEF Exec!Submit, Spawning, Spawned, Exec!poolVars
<1>6. ASSUME NEW t \in PoolThreads,
             Exec!JobEnds(t) \/ Exec!JobPanics(t) \/ Exec!KeepAliveElapses(t)
               \/ Exec!Disconnected(t)
      PROVE  CountIsExact'
  BY <1>0, <1>6
  DEF Exec!JobEnds, Exec!JobPanics, Exec!KeepAliveElapses, Exec!Disconnected,
      Spawning, Spawned
<1>7. ASSUME UNCHANGED <<executing, pool, workers>> PROVE CountIsExact'
  BY <1>0, <1>7 DEF Spawning, Spawned
<1>8. ASSUME NEW i \in Items, Exec!Push(i) PROVE CountIsExact'
  BY <1>7, <1>8 DEF Exec!Push, Exec!poolVars
<1>9. ASSUME NEW w \in Workers, Exec!Take(w) \/ Exec!Finish(w) \/ Exec!Leave(w)
      PROVE  CountIsExact'
  BY <1>7, <1>9 DEF Exec!Take, Exec!Finish, Exec!Leave, Exec!poolVars
<1>10. ASSUME Exec!CloseQueue \/ Exec!JoinWorkers \/ Exec!SetShutdown
                \/ Exec!Disconnect \/ Exec!AwaitWorkers
                \/ Exec!SpuriousWakeup \/ Exec!Terminated \/ UNCHANGED Exec!vars
       PROVE  CountIsExact'
  BY <1>7, <1>10
  DEF Exec!CloseQueue, Exec!JoinWorkers, Exec!SetShutdown, Exec!Disconnect,
      Exec!AwaitWorkers, Exec!SpuriousWakeup, Exec!Terminated, Exec!vars,
      Exec!poolVars
<1> QED
  BY <1>1, <1>2, <1>3, <1>4, <1>5, <1>6, <1>8, <1>9, <1>10 DEF Exec!Next

-----------------------------------------------------------------------------
(* Type correctness.                                                       *)

LEMMA ExecutorOKInit == Exec!Init => ExecutorOK
<1> SUFFICES ASSUME Exec!Init PROVE ExecutorOK
  OBVIOUS
<1>1. Exec!TypeOK
  BY DEF Exec!Init, Exec!Queue!Init, Exec!TypeOK
<1>2. <<>> \in Seq(Items)
  OBVIOUS
<1> QED
  BY <1>1, <1>2 DEF Exec!Init, Exec!Queue!Init, ExecutorOK

LEMMA ExecutorOKNext ==
  ExecutorOK /\ CountIsExact /\ RequestsApart /\ [Exec!Next]_(Exec!vars)
      => ExecutorOK'
<1> SUFFICES ASSUME ExecutorOK, CountIsExact, RequestsApart, [Exec!Next]_(Exec!vars)
             PROVE  ExecutorOK'
  OBVIOUS
<1> USE DEF ExecutorOK, Exec!TypeOK, Exec!queueVars, Exec!poolVars
<1>1. ASSUME NEW i \in Items, Exec!Push(i) PROVE ExecutorOK'
  BY <1>1, AppendFacts DEF Exec!Push, Exec!Queue!Push
<1>2. ASSUME NEW w \in Workers, Exec!Take(w) PROVE ExecutorOK'
  BY <1>2, TailFacts DEF Exec!Take, Exec!Queue!Take
<1>3. ASSUME NEW w \in Workers, Exec!Finish(w) PROVE ExecutorOK'
  BY <1>3 DEF Exec!Finish, Exec!Queue!Finish
<1>4. ASSUME NEW w \in Workers, Exec!Leave(w) PROVE ExecutorOK'
  BY <1>4 DEF Exec!Leave, Exec!Queue!Leave
<1>5. ASSUME NEW w \in Workers, Exec!Submit(w) PROVE ExecutorOK'
  BY <1>5 DEF Exec!Submit, RequestsApart
<1>6. ASSUME NEW w \in Workers, Exec!CountThread(w) PROVE ExecutorOK'
  BY <1>6 DEF Exec!CountThread
<1>7. ASSUME NEW w \in Workers, NEW t \in PoolThreads,
             Exec!HandOver(w, t) \/ Exec!SpawnThread(w, t)
      PROVE  ExecutorOK'
  BY <1>7 DEF Exec!HandOver, Exec!SpawnThread
<1>8. ASSUME NEW t \in PoolThreads,
             Exec!JobEnds(t) \/ Exec!JobPanics(t) \/ Exec!KeepAliveElapses(t)
               \/ Exec!Disconnected(t)
      PROVE  ExecutorOK'
  BY <1>8 DEF Exec!JobEnds, Exec!JobPanics, Exec!KeepAliveElapses, Exec!Disconnected
<1>9. ASSUME NEW t \in PoolThreads, Exec!Uncount(t) PROVE ExecutorOK'
  <2>1. workers - 1 \in Nat
    BY <1>9, CountedThreads DEF Exec!Uncount
  <2> QED
    BY <1>9, <2>1 DEF Exec!Uncount
<1>10. ASSUME Exec!CloseQueue \/ Exec!JoinWorkers \/ Exec!SetShutdown
                \/ Exec!Disconnect \/ Exec!AwaitWorkers
                \/ Exec!SpuriousWakeup
       PROVE  ExecutorOK'
  BY <1>10
  DEF Exec!CloseQueue, Exec!Queue!Close, Exec!JoinWorkers, Exec!SetShutdown,
      Exec!Disconnect, Exec!AwaitWorkers, Exec!SpuriousWakeup
<1>11. ASSUME UNCHANGED Exec!vars PROVE ExecutorOK'
  BY <1>11 DEF Exec!vars
<1> QED
  BY <1>1, <1>2, <1>3, <1>4, <1>5, <1>6, <1>7, <1>8, <1>9, <1>10, <1>11
  DEF Exec!Next, Exec!Terminated

-----------------------------------------------------------------------------
(* Requests and jobs.                                                      *)

LEMMA RequestsApartNext ==
  ExecutorOK /\ RequestsApart /\ [Exec!Next]_(Exec!vars) => RequestsApart'
<1> SUFFICES ASSUME ExecutorOK, RequestsApart, [Exec!Next]_(Exec!vars)
             PROVE  RequestsApart'
  OBVIOUS
<1> USE DEF ExecutorOK, Exec!TypeOK, RequestsApart
<1>1. ASSUME NEW i \in Items, Exec!Push(i) PROVE RequestsApart'
  <2>1. /\ DOMAIN queue = 1..Len(queue) /\ Len(queue) \in Nat
        /\ DOMAIN queue' = 1..(Len(queue) + 1)
        /\ \A k \in 1..Len(queue) : queue'[k] = queue[k]
        /\ queue'[Len(queue) + 1] = i
    BY <1>1, AppendFacts DEF Exec!Push, Exec!Queue!Push
  <2>2. /\ i \notin pushed /\ i # NoItem /\ pushed' = pushed \cup {i}
        /\ holding' = holding /\ submitted' = submitted
    BY <1>1, NoItemAssumption DEF Exec!Push, Exec!Queue!Push
  <2>3. \A k \in DOMAIN queue' : k \in DOMAIN queue \/ k = Len(queue) + 1
    BY <2>1
  <2>4. \A j, k \in DOMAIN queue' : queue'[j] = queue'[k] => j = k
    BY <2>1, <2>2, <2>3
  <2>5. ASSUME NEW k \in DOMAIN queue'
        PROVE  /\ queue'[k] \in pushed' /\ queue'[k] \notin submitted'
               /\ \A w \in Workers : holding'[w] # queue'[k]
    BY <2>1, <2>2, <2>3
  <2> QED
    BY <2>2, <2>4, <2>5
<1>2. ASSUME NEW w \in Workers, Exec!Take(w) PROVE RequestsApart'
  <2>1. queue # <<>> /\ holding[w] = NoItem
    BY <1>2 DEF Exec!Take, Exec!Queue!Take
  <2>2. /\ DOMAIN queue = 1..Len(queue) /\ Len(queue) \in Nat \ {0}
        /\ DOMAIN queue' = 1..(Len(queue) - 1)
        /\ \A k \in 1..(Len(queue) - 1) : queue'[k] = queue[k + 1]
        /\ Head(queue) = queue[1]
    BY <1>2, <2>1, TailFacts DEF Exec!Take, Exec!Queue!Take
  <2>3. /\ holding' = [holding EXCEPT ![w] = queue[1]]
        /\ pushed' = pushed /\ submitted' = submitted
    BY <1>2, <2>2 DEF Exec!Take, Exec!Queue!Take
  <2>4. \A k \in DOMAIN queue' : k + 1 \in DOMAIN queue /\ k + 1 # 1
    BY <2>2
  <2>5. 1 \in DOMAIN queue
    BY <2>2
  <2>6. \A j, k \in DOMAIN queue' : queue'[j] = queue'[k] => j = k
    BY <2>2, <2>4
  <2>7. ASSUME NEW k \in DOMAIN queue'
        PROVE  /\ queue'[k] \in pushed' /\ queue'[k] \notin submitted'
               /\ \A v \in Workers : holding'[v] # queue'[k]
    BY SMTT(60), <2>2, <2>3, <2>4, <2>5
  <2>8. \A v \in Workers : holding'[v] # NoItem => holding'[v] \in pushed'
    BY <2>3, <2>5
  <2>9. \A u, v \in Workers : holding'[u] = holding'[v] /\ holding'[u] # NoItem
      => u = v
    BY <2>3, <2>5
  <2> QED
    BY <2>6, <2>7, <2>8, <2>9
<1>3. ASSUME NEW w \in Workers, Exec!Finish(w) PROVE RequestsApart'
  <2>1. /\ holding' = [holding EXCEPT ![w] = NoItem]
        /\ queue' = queue /\ pushed' = pushed /\ submitted' = submitted
    BY <1>3 DEF Exec!Finish, Exec!Queue!Finish
  <2>2. \A k \in DOMAIN queue : queue[k] # NoItem
    BY NoItemAssumption
  <2> QED
    BY <2>1, <2>2
<1>4. ASSUME NEW w \in Workers, Exec!Submit(w) PROVE RequestsApart'
  BY <1>4 DEF Exec!Submit, Exec!queueVars
<1>5. ASSUME UNCHANGED <<queue, pushed, holding, submitted>> PROVE RequestsApart'
  BY <1>5
<1>6. ASSUME NEW w \in Workers, Exec!Leave(w) \/ Exec!CountThread(w)
      PROVE  RequestsApart'
  BY <1>5, <1>6 DEF Exec!Leave, Exec!Queue!Leave, Exec!CountThread, Exec!queueVars
<1>7. ASSUME NEW w \in Workers, NEW t \in PoolThreads,
             Exec!HandOver(w, t) \/ Exec!SpawnThread(w, t)
      PROVE  RequestsApart'
  BY <1>5, <1>7 DEF Exec!HandOver, Exec!SpawnThread, Exec!queueVars
<1>8. ASSUME NEW t \in PoolThreads,
             Exec!JobEnds(t) \/ Exec!JobPanics(t) \/ Exec!KeepAliveElapses(t)
               \/ Exec!Disconnected(t)
               \/ Exec!Uncount(t)
      PROVE  RequestsApart'
  BY <1>5, <1>8
  DEF Exec!JobEnds, Exec!JobPanics, Exec!KeepAliveElapses, Exec!Disconnected,
      Exec!Uncount, Exec!queueVars
<1>9. ASSUME Exec!CloseQueue \/ Exec!JoinWorkers \/ Exec!SetShutdown
               \/ Exec!Disconnect \/ Exec!AwaitWorkers
               \/ Exec!SpuriousWakeup \/ Exec!Terminated \/ UNCHANGED Exec!vars
      PROVE  RequestsApart'
  BY <1>5, <1>9
  DEF Exec!CloseQueue, Exec!Queue!Close, Exec!JoinWorkers, Exec!SetShutdown,
      Exec!Disconnect, Exec!AwaitWorkers, Exec!SpuriousWakeup, Exec!Terminated,
      Exec!vars, Exec!queueVars
<1> QED
  BY <1>1, <1>2, <1>3, <1>4, <1>6, <1>7, <1>8, <1>9 DEF Exec!Next

LEMMA JobsApartNext ==
  ExecutorOK /\ RequestsApart /\ JobsApart /\ [Exec!Next]_(Exec!vars) => JobsApart'
<1> SUFFICES ASSUME ExecutorOK, RequestsApart, JobsApart, [Exec!Next]_(Exec!vars)
             PROVE  JobsApart'
  OBVIOUS
<1> USE DEF ExecutorOK, Exec!TypeOK, JobsApart
\* A thread that is handing its job over keeps its request meanwhile.
<1>1. ASSUME NEW w \in Workers, Exec!Take(w) \/ Exec!Finish(w) PROVE JobsApart'
  <2>1. /\ executing[w] = "app" /\ executing' = executing
        /\ submitted' = submitted /\ job' = job
        /\ \A v \in Workers : v # w => holding'[v] = holding[v]
    BY <1>1
    DEF Exec!Take, Exec!Queue!Take, Exec!Finish, Exec!Queue!Finish, Exec!poolVars
  <2> QED
    BY <2>1
\* A job that is submitted is on no thread, as those were submitted before.
<1>2. ASSUME NEW w \in Workers, Exec!Submit(w) PROVE JobsApart'
  <2>1. /\ holding[w] # NoItem /\ holding[w] \notin submitted
        /\ submitted' = submitted \cup {holding[w]}
        /\ job' = job /\ holding' = holding
        /\ \A v \in Workers : v # w => executing'[v] = executing[v]
    BY <1>2 DEF Exec!Submit, Exec!poolVars, Exec!queueVars
  <2> QED
    BY <2>1
<1>3. ASSUME NEW w \in Workers, Exec!CountThread(w) PROVE JobsApart'
  BY <1>3 DEF Exec!CountThread, Exec!queueVars
<1>4. ASSUME NEW w \in Workers, NEW t \in PoolThreads,
             Exec!HandOver(w, t) \/ Exec!SpawnThread(w, t)
      PROVE  JobsApart'
  <2>1. /\ executing[w] # "app" /\ executing' = [executing EXCEPT ![w] = "app"]
        /\ job' = [job EXCEPT ![t] = holding[w]]
        /\ holding' = holding /\ submitted' = submitted
    BY <1>4 DEF Exec!HandOver, Exec!SpawnThread, Exec!queueVars
  <2>2. /\ holding[w] # NoItem /\ holding[w] \in submitted
        /\ \A u \in PoolThreads : job[u] # holding[w]
        /\ \A v \in Workers : v # w => holding[v] # holding[w]
    BY <2>1 DEF RequestsApart
  <2> QED
    BY <2>1, <2>2
<1>5. ASSUME NEW t \in PoolThreads, Exec!JobEnds(t) \/ Exec!JobPanics(t)
      PROVE  JobsApart'
  <2>1. /\ job' = [job EXCEPT ![t] = NoItem]
        /\ holding' = holding /\ submitted' = submitted /\ executing' = executing
    BY <1>5 DEF Exec!JobEnds, Exec!JobPanics, Exec!queueVars
  <2> QED
    BY <2>1
<1>6. ASSUME UNCHANGED <<submitted, job, executing, holding>> PROVE JobsApart'
  BY <1>6
<1>7. ASSUME NEW i \in Items, Exec!Push(i) PROVE JobsApart'
  BY <1>6, <1>7 DEF Exec!Push, Exec!Queue!Push, Exec!poolVars
<1>8. ASSUME NEW w \in Workers, Exec!Leave(w) PROVE JobsApart'
  BY <1>6, <1>8 DEF Exec!Leave, Exec!Queue!Leave, Exec!poolVars
<1>9. ASSUME NEW t \in PoolThreads, Exec!KeepAliveElapses(t)
               \/ Exec!Disconnected(t) \/ Exec!Uncount(t)
      PROVE  JobsApart'
  BY <1>6, <1>9
  DEF Exec!KeepAliveElapses, Exec!Disconnected, Exec!Uncount, Exec!queueVars
<1>10. ASSUME Exec!CloseQueue \/ Exec!JoinWorkers \/ Exec!SetShutdown
                \/ Exec!Disconnect \/ Exec!AwaitWorkers
                \/ Exec!SpuriousWakeup \/ Exec!Terminated \/ UNCHANGED Exec!vars
       PROVE  JobsApart'
  BY <1>6, <1>10
  DEF Exec!CloseQueue, Exec!Queue!Close, Exec!JoinWorkers, Exec!SetShutdown,
      Exec!Disconnect, Exec!AwaitWorkers, Exec!SpuriousWakeup, Exec!Terminated,
      Exec!vars, Exec!queueVars, Exec!poolVars
<1> QED
  BY <1>1, <1>2, <1>3, <1>4, <1>5, <1>7, <1>8, <1>9, <1>10 DEF Exec!Next

-----------------------------------------------------------------------------
(* Shutdown.                                                               *)

LEMMA ShutdownStagesNext ==
  ExecutorOK /\ CountIsExact /\ ShutdownStages /\ [Exec!Next]_(Exec!vars)
    => ShutdownStages'
<1> SUFFICES ASSUME ExecutorOK, CountIsExact, ShutdownStages, [Exec!Next]_(Exec!vars)
             PROVE  ShutdownStages'
  OBVIOUS
<1> USE DEF ExecutorOK, Exec!TypeOK, ShutdownStages
<1>1. ASSUME NEW i \in Items, Exec!Push(i) PROVE ShutdownStages'
  BY <1>1 DEF Exec!Push, Exec!Queue!Push, Exec!poolVars
\* A thread that takes work is not gone.
<1>2. ASSUME NEW w \in Workers, Exec!Take(w) \/ Exec!Finish(w) PROVE ShutdownStages'
  <2>1. /\ w \notin gone \/ holding' = [holding EXCEPT ![w] = NoItem]
        /\ gone # {} => queue' = queue
        /\ \A v \in Workers : v # w => holding'[v] = holding[v]
        /\ UNCHANGED <<closed, gone, closer, shutdown, workers, dropped>>
    BY <1>2
    DEF Exec!Take, Exec!Queue!Take, Exec!Finish, Exec!Queue!Finish, Exec!poolVars
  <2> QED
    BY <2>1
<1>3. ASSUME NEW w \in Workers, Exec!Leave(w) PROVE ShutdownStages'
  <2>1. /\ closed /\ queue = <<>> /\ holding[w] = NoItem
        /\ gone' = gone \cup {w} /\ gone \subseteq Workers
        /\ UNCHANGED <<closed, queue, holding, closer, shutdown, workers, dropped>>
    BY <1>3 DEF Exec!Leave, Exec!Queue!Leave, Exec!poolVars
  <2> QED
    BY <2>1
\* No job meets the flag: once it is set, no thread holds a request.
<1>4. ASSUME NEW w \in Workers, Exec!Submit(w) PROVE ShutdownStages'
  <2>1. holding[w] # NoItem
    BY <1>4 DEF Exec!Submit
  <2>2. ~shutdown
    BY <2>1
  <2> QED
    BY <1>4, <2>2 DEF Exec!Submit, Exec!queueVars, Exec!poolVars
<1>5. ASSUME NEW w \in Workers, Exec!CountThread(w) PROVE ShutdownStages'
  <2>1. holding[w] # NoItem
    BY <1>5 DEF Exec!CountThread
  <2>2. closer # "done"
    BY <2>1
  <2> QED
    BY <1>5, <2>2 DEF Exec!CountThread, Exec!queueVars
<1>6. ASSUME NEW w \in Workers, NEW t \in PoolThreads,
             Exec!HandOver(w, t) \/ Exec!SpawnThread(w, t)
      PROVE  ShutdownStages'
  BY <1>6 DEF Exec!HandOver, Exec!SpawnThread, Exec!queueVars
<1>7. ASSUME NEW t \in PoolThreads,
             Exec!JobEnds(t) \/ Exec!JobPanics(t) \/ Exec!KeepAliveElapses(t)
               \/ Exec!Disconnected(t)
      PROVE  ShutdownStages'
  BY <1>7
  DEF Exec!JobEnds, Exec!JobPanics, Exec!KeepAliveElapses, Exec!Disconnected,
      Exec!queueVars
<1>8. ASSUME NEW t \in PoolThreads, Exec!Uncount(t) PROVE ShutdownStages'
  <2>1. workers > 0
    BY <1>8, CountedThreads DEF Exec!Uncount
  <2>2. closer # "done" /\ closer' # "done"
    BY <1>8, <2>1 DEF Exec!Uncount
  <2>3. closer' = closer \/ (closer = "asleep" /\ closer' = "waiting")
    BY <1>8 DEF Exec!Uncount
  <2> QED
    BY <1>8, <2>2, <2>3 DEF Exec!Uncount, Exec!queueVars
<1>9. ASSUME Exec!CloseQueue PROVE ShutdownStages'
  BY <1>9 DEF Exec!CloseQueue, Exec!Queue!Close, Exec!poolVars
<1>10. ASSUME Exec!JoinWorkers \/ Exec!SetShutdown \/ Exec!Disconnect \/ Exec!SpuriousWakeup
       PROVE  ShutdownStages'
  BY <1>10
  DEF Exec!JoinWorkers, Exec!SetShutdown, Exec!Disconnect, Exec!SpuriousWakeup,
      Exec!queueVars, Exec!poolVars
<1>11. ASSUME Exec!AwaitWorkers PROVE ShutdownStages'
  <2>1. workers > 0 \/ workers = 0
    OBVIOUS
  <2> QED
    BY <1>11, <2>1 DEF Exec!AwaitWorkers, Exec!queueVars, Exec!poolVars
<1>12. ASSUME UNCHANGED Exec!vars PROVE ShutdownStages'
  BY <1>12 DEF Exec!vars, Exec!queueVars, Exec!poolVars
<1> QED
  BY <1>1, <1>2, <1>3, <1>4, <1>5, <1>6, <1>7, <1>8, <1>9, <1>10, <1>11, <1>12
  DEF Exec!Next, Exec!Terminated

-----------------------------------------------------------------------------
(* The theorems about the executor.                                        *)

LEMMA ExecutorInvInit == Exec!Init => ExecutorInv
<1> SUFFICES ASSUME Exec!Init PROVE ExecutorInv
  OBVIOUS
<1>1. ExecutorOK /\ CountIsExact
  BY ExecutorOKInit, CountIsExactInit
<1>2. queue = <<>> /\ DOMAIN <<>> = {}
  BY EmptySeq, LenProperties DEF Exec!Init, Exec!Queue!Init
<1>3. RequestsApart
  BY <1>2 DEF Exec!Init, Exec!Queue!Init, RequestsApart
<1>4. JobsApart /\ ShutdownStages
  BY DEF Exec!Init, Exec!Queue!Init, JobsApart, ShutdownStages
<1> QED
  BY <1>1, <1>3, <1>4 DEF ExecutorInv

LEMMA ExecutorInvNext == ExecutorInv /\ [Exec!Next]_(Exec!vars) => ExecutorInv'
  BY ExecutorOKNext, RequestsApartNext, JobsApartNext, CountIsExactNext,
     ShutdownStagesNext
  DEF ExecutorInv

LEMMA ExecutorInvAlways == ExecutorSteps => []ExecutorInv
  BY ExecutorInvInit, ExecutorInvNext, PTL DEF ExecutorSteps, Exec!Spec, Exec!Safety

\* The count of BlockingPool is that of its threads, however their jobs end, and
\* a job that was handed over is on one of them only.
THEOREM CountIsThatOfThreads == ExecutorSteps => []WorkersCounted
<1>c. \A S : Exec!Cardinality(S) = Cardinality(S)
  BY DEF Cardinality, Exec!Cardinality
<1>1. ExecutorInv => WorkersCounted
  BY <1>c DEF ExecutorInv, ExecutorOK, JobsApart, CountIsExact, Spawned, Spawning,
         WorkersCounted, Exec!WorkersCounted
<1> QED
  BY <1>1, ExecutorInvAlways, PTL

\* Executor::shutdown drops no job, and when it returns every request that was
\* queued has been run and every thread is gone.
THEOREM ShutdownLeavesNothing == ExecutorSteps => []ShutdownIsComplete
<1>1. ExecutorInv => ShutdownIsComplete
  <2> SUFFICES ASSUME ExecutorInv PROVE ShutdownIsComplete
    OBVIOUS
  <2>1. ASSUME closer = "done"
        PROVE  /\ queue = <<>> /\ gone = Workers
               /\ \A w \in Workers : holding[w] = NoItem
               /\ \A t \in PoolThreads : pool[t] = "none"
    <3>1. gone = Workers /\ workers = 0
      BY <2>1 DEF ExecutorInv, ShutdownStages
    <3>2. \E w \in Workers : TRUE
      BY WorkersAssumption
    <3>3. queue = <<>> /\ \A w \in Workers : holding[w] = NoItem
      BY <3>1, <3>2 DEF ExecutorInv, ShutdownStages
    <3> QED
      BY <3>1, <3>3, CountedThreads DEF ExecutorInv
  <2> QED
    BY <2>1 DEF ExecutorInv, ShutdownStages, ShutdownIsComplete,
                      Exec!ShutdownIsComplete
<1> QED
  BY <1>1, ExecutorInvAlways, PTL
=============================================================================
