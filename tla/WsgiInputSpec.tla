--------------------------- MODULE WsgiInputSpec ---------------------------
(***************************************************************************)
(* What wsgi.input promises to an application, whatever the arrival of the *)
(* request body: it is a file whose reads block.  The bytes of the body    *)
(* are numbered in the order in which the client sends them.               *)
(***************************************************************************)
EXTENDS Integers

CONSTANTS MaxBody,   \* the longest request body
          Newlines,  \* the positions of the newlines in it
          Reads      \* the reads that the application makes

VARIABLES arrived,    \* the number of bytes that the client has sent
          ended,      \* whether the client has sent all of its body
          completed,  \* whether the stream is over, in full or not
          position,   \* the number of bytes that the application has read
          reading,    \* the outstanding read, if any
          answer      \* what the last read returned

vars == <<arrived, ended, completed, position, reading, answer>>

NoRead == [kind |-> "None", size |-> 0]
NoAnswer == [read |-> NoRead, ok |-> TRUE, count |-> 0]

Init ==
  /\ arrived = 0 /\ ended = FALSE /\ completed = FALSE
  /\ position = 0
  /\ reading = NoRead
  /\ answer = NoAnswer

\* The client sends more of the body, or the end of it, or both.
Arrive ==
  /\ ~ended
  /\ arrived' \in arrived..MaxBody
  /\ ended' \in BOOLEAN
  /\ UNCHANGED <<completed, position, reading, answer>>

\* The stream is over: the response is complete, or the client is gone.
Complete ==
  /\ completed' = TRUE
  /\ UNCHANGED <<arrived, ended, position, reading, answer>>

Call(r) ==
  /\ reading = NoRead
  /\ reading' = r
  /\ UNCHANGED <<arrived, ended, completed, position, answer>>

AtEOF == ended /\ position = arrived

\* A line of k bytes: it ends after its newline, or at the size limit.
IsLine(r, k) ==
  /\ k > 0 /\ r.size > 0 => k <= r.size
  /\ \A j \in position + 1 .. position + k - 1 : j \notin Newlines
  /\ \/ position + k \in Newlines
     \/ k = r.size
     \/ ended /\ position + k = arrived

\* The number of bytes that a read may return.  Only at the end of the body,
\* or when asked for nothing, is it zero.
Fits(r, k) ==
  /\ position + k <= arrived
  /\ k = 0 => r.size = 0 \/ AtEOF
  /\ r.kind = "Raw" => IF r.size >= 0 THEN k <= r.size ELSE ended /\ position + k = arrived
  /\ r.kind = "Line" /\ r.size # 0 => IsLine(r, k)
  /\ r.size = 0 => k = 0

Return ==
  /\ reading # NoRead
  /\ \E k \in 0..MaxBody :
       /\ Fits(reading, k)
       /\ position' = position + k
       /\ answer' = [read |-> reading, ok |-> TRUE, count |-> k]
  /\ reading' = NoRead
  /\ UNCHANGED <<arrived, ended, completed>>

\* A read that has nothing to wait for returns at once.
ReturnAtOnce(r) ==
  /\ reading = NoRead
  /\ Fits(r, 0)
  /\ answer' = [read |-> r, ok |-> TRUE, count |-> 0]
  /\ UNCHANGED <<arrived, ended, completed, position, reading>>

\* Once the stream is over a read may fail: "the channel receives will fail
\* with an error".
Fail ==
  /\ reading # NoRead
  /\ completed
  /\ answer' = [read |-> reading, ok |-> FALSE, count |-> 0]
  /\ reading' = NoRead
  /\ UNCHANGED <<arrived, ended, completed, position>>

Next ==
  \/ Arrive \/ Complete
  \/ \E r \in Reads : Call(r) \/ ReturnAtOnce(r)
  \/ Return \/ Fail

Spec == Init /\ [][Next]_vars
=============================================================================
