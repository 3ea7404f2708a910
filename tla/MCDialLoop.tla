----------------------------- MODULE MCDialLoop -----------------------------
(* Instance of DialLoop for TLC. *)
EXTENDS DialLoop, TLC

\* Every loop dials a client of the same name.
SharedName == [l \in Loops |-> CHOOSE n \in Names : TRUE]
=============================================================================
