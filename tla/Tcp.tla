-------------------------------- MODULE Tcp --------------------------------
(***************************************************************************)
(* TCP connections as the relays use them (external: the operating system  *)
(* and package net).  Every connection has two ends; an end is the state   *)
(* one party sees.  Operators map the state t of all ends to the state     *)
(* after a call.  A buffer holds at most Cap units and a write that finds  *)
(* it full blocks.                                                         *)
(***************************************************************************)
EXTENDS Naturals, Sequences

CONSTANTS
    Ends,    \* ends of the connections
    Peer,    \* Peer[e]: the other end of its connection
    Cap,     \* units that fit between two ends
    Data     \* units that may be in a buffer

EndType == [st : {"none", "open", "half", "closed"},   \* "half": CloseWrite was called
            buf : Seq(Data),      \* received and not read
            eof : BOOLEAN,        \* the peer's FIN follows buf
            rst : BOOLEAN,        \* the connection was reset
            late : BOOLEAN]       \* its deadline is in the past

NoConn == [st |-> "none", buf |-> <<>>, eof |-> FALSE, rst |-> FALSE, late |-> FALSE]

\* The connection of end e is established.
Connected(t, e) == [t EXCEPT ![e].st = "open", ![Peer[e]].st = "open"]

Live(t, e) == t[e].st \in {"open", "half"}

\* A read of e returns a unit, or ends with EOF or an error.
HasData(t, e) == Live(t, e) /\ ~t[e].late /\ ~t[e].rst /\ t[e].buf # <<>>
ReadEnds(t, e) == \/ ~Live(t, e) \/ t[e].late \/ t[e].rst
                  \/ t[e].buf = <<>> /\ t[e].eof
Taken(t, e) == [t EXCEPT ![e].buf = Tail(@)]

\* A write at e completes, or fails.  Data for an end that is gone is answered
\* with a reset, which also discards what was received and not read.
CanWrite(t, e) == /\ t[e].st = "open" /\ ~t[e].late /\ ~t[e].rst
                  /\ Live(t, Peer[e]) => Len(t[Peer[e]].buf) < Cap
WriteEnds(t, e) == t[e].st # "open" \/ t[e].late \/ t[e].rst
Written(t, e, x) == IF Live(t, Peer[e])
                    THEN [t EXCEPT ![Peer[e]].buf = Append(@, x)]
                    ELSE [t EXCEPT ![e].rst = TRUE, ![e].buf = <<>>]

\* The network resets the connection of e, seen by whichever end is still there.
Reset(t, e) == [x \in Ends |-> IF x \in {e, Peer[e]} /\ Live(t, x)
                               THEN [t[x] EXCEPT !.rst = TRUE, !.buf = <<>>] ELSE t[x]]

\* CloseWrite, SetDeadline in the past, Close.  A close with unread data resets
\* the connection.
ShutWrite(t, e) == IF t[e].st = "open"
                   THEN [t EXCEPT ![e].st = "half", ![Peer[e]].eof = @ \/ Live(t, Peer[e])]
                   ELSE t
Expired(t, e) == IF Live(t, e) THEN [t EXCEPT ![e].late = TRUE] ELSE t
Closed(t, e) == IF ~Live(t, e) THEN t
                ELSE LET p == Peer[e]
                         lost == t[e].buf # <<>>
                         there == Live(t, p) IN
                     [t EXCEPT ![e] = [NoConn EXCEPT !.st = "closed"],
                               ![p].eof = @ \/ there,
                               ![p].rst = @ \/ (there /\ lost),
                               ![p].buf = IF lost THEN <<>> ELSE @]
=============================================================================
