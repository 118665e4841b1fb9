------------------------------- MODULE Bridge -------------------------------
(***************************************************************************)
(* What the bridge from Python to an Envoy filter promises: a queue that   *)
(* takes events until it is closed, that is drained as a whole, and whose  *)
(* events are dropped when it closes.  The modules of the filters use a    *)
(* bridge through these operators; EventBridge shows that the              *)
(* representation of src/eventbridge.rs implements them.                   *)
(***************************************************************************)
EXTENDS Sequences

OpenBridge   == [closed |-> FALSE, events |-> <<>>]
ClosedBridge == [closed |-> TRUE,  events |-> <<>>]

Bridges(Events) ==
  {b \in [closed : BOOLEAN, events : Seq(Events)] : b.closed => b.events = <<>>}

\* The bridge after send(e), which fails and changes nothing once it is closed.
Sent(b, e) == IF b.closed THEN b ELSE [b EXCEPT !.events = Append(@, e)]

\* The bridge after process has taken the events off it.
Drained(b) == [b EXCEPT !.events = <<>>]

\* The bridge after get has taken its first event, if any.
Shifted(b) == IF b.events = <<>> THEN b ELSE [b EXCEPT !.events = Tail(@)]
=============================================================================
