--------------------------- MODULE MCProvisioning ---------------------------
(***************************************************************************)
(* Small instances of Provisioning.  Threads are named after the process   *)
(* they live in: a1, a2 are workers and ra, rb requests of node "a", b1 is *)
(* a worker of node "b".                                                   *)
(***************************************************************************)
EXTENDS Provisioning, TLC

CONSTANTS a1, a2, b1, ra, rb, c1, c2, d1, d2, d3

MCNodeOf == [t \in Workers \union Requests |-> IF t = b1 THEN "b" ELSE "a"]

\* The circuits share device d2.
MCEndpointDevices ==
  [c \in Circuits |-> IF c = c1 THEN {d1, d2} ELSE {d2, d3}]

\* What operators do: order circuits, everything but execute, or order by order.
ProvisionOnly == {"provision"}
ProvisionAndDelete == {"provision", "delete_circuit"}
NoExecute == OperationName \ {"execute"}
OrderByOrder == {"create", "submit", "approve", "execute", "provision"}

ProvisionAndDecommission == {"provision", "decommission"}

WorkerSymmetry == Permutations({a1, a2})
RequestSymmetry == Permutations({ra, rb})
=============================================================================
