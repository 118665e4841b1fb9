---------------------------- MODULE MCAsgiReceive ----------------------------
(***************************************************************************)
(* AsgiReceive as an instance: its properties keep their names where these *)
(* are free, and those of its parts (Init, Next, ...) remain free, so that *)
(* a module can extend this one and AsgiSend.                              *)
(***************************************************************************)
EXTENDS Naturals

CONSTANTS MaxBody, Window, MaxReceives

\* All three are bounds of a run.
ASSUME ReceiveBounds == MaxBody \in Nat /\ Window \in Nat /\ MaxReceives \in Nat

VARIABLES arrived, buffered, requestFilter, requestClosed, recvBridge,
          receiveCommits, receiveLoop, empty, receiveCommitting, receives

Rcv == INSTANCE AsgiReceive WITH filter     <- requestFilter,
                                 commits    <- receiveCommits,
                                 loop       <- receiveLoop,
                                 committing <- receiveCommitting

ReceiveSteps == Rcv!Spec

\* A pending receive is in one place, and one that has its event in none.
OneHolderPerReceive == Rcv!OneHolder

\* What the application is told of its request is true.
EventsAreTruthful == Rcv!EventsAreTruthful

\* A receive returns when there is something to tell.
ReceivesReturn == Rcv!ReceivesReturn
=============================================================================
