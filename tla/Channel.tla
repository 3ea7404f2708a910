------------------------------- MODULE Channel -------------------------------
(***************************************************************************)
(* What one direction of a control connection promises to those who write  *)
(* and read messages: a message whose write succeeded is received once, as *)
(* a whole, and in the order of the writes.  The only exception is the end *)
(* of the connection, after which nothing is received any more.            *)
(***************************************************************************)
EXTENDS Sequences

CONSTANTS Msgs, NoMsg

VARIABLES
    queue,   \* messages written and not yet received
    got,     \* the message received last
    up,      \* the connection is intact
    over     \* the reader has given up

absVars == <<queue, got, up, over>>

AbsInit ==
    /\ queue = <<>>
    /\ got = NoMsg
    /\ up = TRUE
    /\ over = FALSE

Send(m) ==
    /\ queue' = Append(queue, m)
    /\ UNCHANGED <<got, up, over>>

Receive ==
    /\ ~over
    /\ queue # <<>>
    /\ got' = Head(queue)
    /\ queue' = Tail(queue)
    /\ UNCHANGED <<up, over>>

Lose ==
    /\ up
    /\ up' = FALSE
    /\ UNCHANGED <<queue, got, over>>

\* The reader gives up only on a connection that is lost.
GiveUp ==
    /\ ~up
    /\ ~over
    /\ over' = TRUE
    /\ UNCHANGED <<queue, got, up>>

AbsNext == (\E m \in Msgs : Send(m)) \/ Receive \/ Lose \/ GiveUp

AbsSpec == AbsInit /\ [][AbsNext]_absVars
=============================================================================
