---------------------------- MODULE EventBridge ----------------------------
(***************************************************************************)
(* The bridge of src/eventbridge.rs in its representation: the `Inner`     *)
(* enum, which keeps a single event without a vector.  Each operation is   *)
(* one critical section of the mutex; process handles what it drained      *)
(* after it has released the mutex, so that sends, and a close that a      *)
(* handler causes, come in between.                                        *)
(***************************************************************************)
EXTENDS Integers, Sequences, SequencesExt

CONSTANT Events  \* the events sent, each at most once

VARIABLES inner,     \* the enum
          batch,     \* drained events process has yet to call its handler with
          handled,   \* the events handled so far, in order
          accepted,  \* the events for which send returned Ok, in order
          refused,   \* the events for which send returned Err
          dropped    \* the events that were on the bridge when it was closed

vars == <<inner, batch, handled, accepted, refused, dropped>>

Closed           == [kind |-> "Closed",   events |-> <<>>]
Empty            == [kind |-> "Empty",    events |-> <<>>]
Single(e)        == [kind |-> "Single",   events |-> <<e>>]
Multiple(events) == [kind |-> "Multiple", events |-> events]

Init ==
  /\ inner = Empty
  /\ batch = <<>>
  /\ handled = <<>>
  /\ accepted = <<>>
  /\ refused = {}
  /\ dropped = <<>>

\* Each event is sent once; e was not sent yet.
Unsent(e) == e \notin refused /\ ~Contains(accepted, e)

\* A broken send, which replaces the event of a single-event bridge.
AfterSendReplaces(e) ==
  CASE inner.kind \in {"Empty", "Single"} -> Single(e)
    [] inner.kind = "Multiple" -> Multiple(Append(inner.events, e))

\* What send leaves behind in a bridge that is open.
AfterSend(e) ==
  CASE inner.kind = "Empty"    -> Single(e)
    [] inner.kind = "Single"   -> Multiple(<<inner.events[1], e>>)
    [] inner.kind = "Multiple" -> Multiple(Append(inner.events, e))

Send(e) ==
  /\ Unsent(e)
  /\ IF inner.kind = "Closed"
       THEN refused' = refused \cup {e} /\ UNCHANGED <<inner, accepted>>
       ELSE inner' = AfterSend(e) /\ accepted' = Append(accepted, e) /\ UNCHANGED refused
  /\ UNCHANGED <<batch, handled, dropped>>

\* A broken process, which leaves an empty bridge whatever it found.
ProcessReopens ==
  /\ batch = <<>>
  /\ batch' = inner.events
  /\ inner' = Empty
  /\ UNCHANGED <<handled, accepted, refused, dropped>>

\* process takes everything under the lock and must not reopen the bridge.
Process ==
  /\ batch = <<>>
  /\ batch' = inner.events
  /\ inner' = IF inner.kind = "Closed" THEN Closed ELSE Empty
  /\ UNCHANGED <<handled, accepted, refused, dropped>>

Handle ==
  /\ batch # <<>>
  /\ handled' = Append(handled, Head(batch))
  /\ batch' = Tail(batch)
  /\ UNCHANGED <<inner, accepted, refused, dropped>>

\* get takes the first event; the vector of the others stays as it is.
AfterGet ==
  IF inner.kind = "Multiple" /\ Len(inner.events) > 1
    THEN Multiple(Tail(inner.events))
    ELSE Empty

Get ==
  /\ batch = <<>>
  /\ inner.kind \in {"Single", "Multiple"}
  /\ handled' = Append(handled, Head(inner.events))
  /\ inner' = AfterGet
  /\ UNCHANGED <<batch, accepted, refused, dropped>>

Close ==
  /\ inner' = Closed
  /\ dropped' = inner.events \o dropped
  /\ UNCHANGED <<batch, handled, accepted, refused>>

Next ==
  \/ \E e \in Events : Send(e)
  \/ Process \/ Handle \/ Get \/ Close

Spec == Init /\ [][Next]_vars

-----------------------------------------------------------------------------
Kinds == {"Closed", "Empty", "Single", "Multiple"}

\* The enum holds the number of events its name says.
InnerOK(i) ==
  /\ i \in [kind : Kinds, events : Seq(Events)]
  /\ i.kind \in {"Closed", "Empty"} => i.events = <<>>
  /\ i.kind = "Single" => Len(i.events) = 1
  /\ i.kind = "Multiple" => Len(i.events) >= 1

\* The enum is well formed after every operation on it.
TypeOK ==
  /\ InnerOK(inner)
  /\ batch \in Seq(Events)
  /\ handled \in Seq(Events)
  /\ accepted \in Seq(Events)
  /\ refused \subseteq Events
  /\ dropped \in Seq(Events)

(***************************************************************************)
(* The events for which send returned Ok are those that were handled,      *)
(* those being handled, those on the bridge and those that a close found   *)
(* on it, in the order of the sends: none is lost, repeated or overtaken.  *)
(***************************************************************************)
NothingLost == accepted = handled \o (batch \o (inner.events \o dropped))

(***************************************************************************)
(* Once the bridge is closed, nothing is accepted any more: a sender that  *)
(* is told Ok must not wait for an answer that cannot come.                *)
(***************************************************************************)
ClosedForGood ==
  [][inner.kind = "Closed" => inner'.kind = "Closed" /\ accepted' = accepted]_vars

(***************************************************************************)
(* The enum implements the abstract bridge.                                *)
(***************************************************************************)
Abstract == INSTANCE BridgeSpec WITH
  bridge <- [closed |-> inner.kind = "Closed", events |-> inner.events]

ImplementsBridge == Abstract!Spec
=============================================================================
