------------------------------ MODULE MCPorts ------------------------------
(***************************************************************************)
(* One port of one device, for two circuits.                               *)
(***************************************************************************)
EXTENDS Ports, TLC

CONSTANTS a, b, w1, w2, r1, r2, t10

On(encap) == [device |-> 1, iface |-> 1, encap |-> encap]
Ten == {On(t10)}

Symmetry == Permutations({a, b}) \union Permutations({w1, w2}) \union Permutations({r1, r2})
=============================================================================
