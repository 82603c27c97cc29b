--------------------------- MODULE MCDeviceLocks ---------------------------
(***************************************************************************)
(* Three threads over three devices: the smallest circle of waiting that   *)
(* is not a pair.                                                          *)
(***************************************************************************)
EXTENDS DeviceLocks
=============================================================================
