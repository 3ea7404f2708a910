----------------------------- MODULE Rendezvous -----------------------------
(***************************************************************************)
(* What Manager promises about pending connections, with no threads, locks,*)
(* channels or tokens: an external connection is offered once, and is then *)
(* either matched with one data connection that no other external          *)
(* connection has, or withdrawn; neither is ever undone.                   *)
(***************************************************************************)
CONSTANTS Conns, DataConns, NoData

VARIABLES
    offer,   \* offer[x]: "absent", "open", "matched" or "withdrawn"
    match    \* match[x]: the data connection x was matched with, or NoData

absVars == <<offer, match>>

AbsInit ==
    /\ offer = [x \in Conns |-> "absent"]
    /\ match = [x \in Conns |-> NoData]

Offer(x) ==
    /\ offer[x] = "absent"
    /\ offer' = [offer EXCEPT ![x] = "open"]
    /\ UNCHANGED match

Match(x, d) ==
    /\ offer[x] = "open"
    /\ \A y \in Conns : match[y] # d
    /\ offer' = [offer EXCEPT ![x] = "matched"]
    /\ match' = [match EXCEPT ![x] = d]

Withdraw(x) ==
    /\ offer[x] = "open"
    /\ offer' = [offer EXCEPT ![x] = "withdrawn"]
    /\ UNCHANGED match

AbsNext ==
    \E x \in Conns : Offer(x) \/ Withdraw(x) \/ \E d \in DataConns : Match(x, d)

AbsSpec == AbsInit /\ [][AbsNext]_absVars
=============================================================================
