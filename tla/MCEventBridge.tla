---------------------------- MODULE MCEventBridge ----------------------------
(***************************************************************************)
(* EventBridge as an instance: its properties keep their names, and those  *)
(* of its parts (Init, Next, ...) remain free, so that a module can extend *)
(* this one and another component.                                         *)
(***************************************************************************)
CONSTANT Events

VARIABLES inner, batch, handled, accepted, refused, dropped

Bridge == INSTANCE EventBridge

BridgeSteps == Bridge!Spec

\* Each event for which send returned Ok was handled, is in the batch, waits on
\* the bridge or was dropped by the close, in the order of the sends.
NothingLost == Bridge!NothingLost

\* A closed bridge stays closed, and accepts no event.
ClosedForGood == Bridge!ClosedForGood

\* The enum implements the abstract bridge.
ImplementsBridge == Bridge!ImplementsBridge
=============================================================================
