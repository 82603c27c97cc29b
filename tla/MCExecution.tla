---------------------------- MODULE MCExecution ----------------------------
(***************************************************************************)
(* Up to three bindings: one at a Bugis site (2, by the control plane 1),  *)
(* one at a site of another vendor's controller (4, by 3), one at a plain  *)
(* site (5) on a border leaf that is the site's gateway (6) as well.       *)
(***************************************************************************)
EXTENDS Execution

NoController == 0

MCGroup ==
  [b \in Bindings |-> CASE b = 2 -> 1 [] b = 4 -> 3 [] OTHER -> NoController]
MCGatewaysOf == [b \in Bindings |-> IF b = 5 THEN Gateways ELSE {}]
MCDeviceOf == [t \in Bindings \union Gateways |-> IF t = 6 THEN 5 ELSE t]
=============================================================================
