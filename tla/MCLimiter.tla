----------------------------- MODULE MCLimiter -----------------------------
(* Instances of Limiter for TLC. *)
EXTENDS Limiter, TLC

\* Every connection comes from the same address.
SameIp == [c \in Conns |-> CHOOSE i \in Ips : TRUE]

\* Both limits on, and both off.
OnAndOff == {[rated |-> TRUE, maxGlobal |-> 2], [rated |-> FALSE, maxGlobal |-> 0]}

Symmetry == Permutations(Conns)
=============================================================================
