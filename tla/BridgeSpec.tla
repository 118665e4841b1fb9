----------------------------- MODULE BridgeSpec -----------------------------
(***************************************************************************)
(* The abstract bridge as a system: the senders' side, the filter that     *)
(* drains it and handles what it took outside the lock, and the close.     *)
(***************************************************************************)
EXTENDS Bridge

CONSTANT Events

VARIABLES bridge,  \* the abstract bridge
          batch,   \* drained events the filter has yet to handle
          handled  \* the events handled so far, in order

vars == <<bridge, batch, handled>>

Init == bridge = OpenBridge /\ batch = <<>> /\ handled = <<>>

Send(e) == bridge' = Sent(bridge, e) /\ UNCHANGED <<batch, handled>>

Process ==
  /\ batch = <<>>
  /\ batch' = bridge.events
  /\ bridge' = Drained(bridge)
  /\ UNCHANGED handled

Handle ==
  /\ batch # <<>>
  /\ handled' = Append(handled, Head(batch))
  /\ batch' = Tail(batch)
  /\ UNCHANGED bridge

Get ==
  /\ batch = <<>>
  /\ bridge.events # <<>>
  /\ handled' = Append(handled, Head(bridge.events))
  /\ bridge' = Shifted(bridge)
  /\ UNCHANGED batch

Close == bridge' = ClosedBridge /\ UNCHANGED <<batch, handled>>

Next ==
  \/ \E e \in Events : Send(e)
  \/ Process \/ Handle \/ Get \/ Close

Spec == Init /\ [][Next]_vars
=============================================================================
