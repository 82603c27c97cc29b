----------------------------- MODULE MCOverlay -----------------------------
(***************************************************************************)
(* Two workers and one request thread over circuits that may share         *)
(* devices and take up each other's VNIs.  VNIs are allocated in order, so *)
(* they are no symmetric set.                                              *)
(***************************************************************************)
EXTENDS Overlay, TLC

Symmetry ==
  Permutations(Circuits) \union Permutations(Workers)

\* Once every VNI in use is tainted, the invariants say nothing of those circuits.
InUse == ({vni[c] : c \in Circuits} \union {tx[s].vni : s \in Sessions}) \ {None}
SomeUntainted == tainted # {} => ~(InUse \subseteq tainted)
=============================================================================
