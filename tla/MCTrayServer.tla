---------------------------- MODULE MCTrayServer ----------------------------
(* Instance of TrayServer for TLC. *)
EXTENDS TrayServer, TLC
=============================================================================
