---------------------------- MODULE MCMonitoring ----------------------------
(***************************************************************************)
(* Two instances.  One circuit with everything that can happen to it, and  *)
(* the tick alone rotating over two.                                       *)
(***************************************************************************)
EXTENDS Monitoring

OneCircuit == [c \in Circuits |-> {"tunnel_down"}]
TwoCircuits ==
  [c \in Circuits |-> IF c = 2 THEN {"tunnel_down"} ELSE {"metric"}]

\* The invariants are about untainted circuits.  A circuit that was activated
\* while it was loaded stays so, as it is activated once.
SomeUntainted == tainted # Circuits /\ straddled # Circuits
=============================================================================
