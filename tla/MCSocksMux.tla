----------------------------- MODULE MCSocksMux -----------------------------
(* Instances of SocksMux for TLC. *)
EXTENDS SocksMux
=============================================================================
