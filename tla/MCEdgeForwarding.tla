--------------------------- MODULE MCEdgeForwarding ---------------------------
(***************************************************************************)
(* Instances of EdgeForwarding for TLC: its constants are plain values, so *)
(* the configurations give them directly.                                  *)
(***************************************************************************)
EXTENDS EdgeForwarding
=============================================================================
