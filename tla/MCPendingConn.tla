--------------------------- MODULE MCPendingConn ---------------------------
(* Instances of PendingConn for TLC. *)
EXTENDS PendingConn, TLC

Symmetry == Permutations(DataConns) 
=============================================================================
