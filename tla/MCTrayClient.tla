---------------------------- MODULE MCTrayClient ----------------------------
(* Instance of TrayClient for TLC. *)
EXTENDS TrayClient, TLC
=============================================================================
