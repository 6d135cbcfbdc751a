---------------------------- MODULE MCGcsAdapter ----------------------------
(* Two drones, one of which has no UUID, and two runs of the loop: one more *)
(* than may ever be active.                                                 *)
EXTENDS GcsAdapter

CONSTANTS d1, d2, l1, l2
=============================================================================
