--------------------------- MODULE MCMonitorClient ---------------------------
(***************************************************************************)
(* Instances of MonitorClient for TLC.                                     *)
(***************************************************************************)
EXTENDS MonitorClient
=============================================================================
