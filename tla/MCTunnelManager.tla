-------------------------- MODULE MCTunnelManager --------------------------
(* Instance of TunnelManager for TLC.  Both sessions compete for one routing *)
(* slot (the tables do not interact) and for one port; no symmetry, because  *)
(* liveness is checked.                                                      *)
EXTENDS TunnelManager, TLC
=============================================================================
