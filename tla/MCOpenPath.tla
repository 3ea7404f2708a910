----------------------------- MODULE MCOpenPath -----------------------------
(* Instance of OpenPath for TLC. *)
EXTENDS OpenPath, TLC
=============================================================================
