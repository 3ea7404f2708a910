------------------------------- MODULE Relay -------------------------------
(***************************************************************************)
(* internal/tunnel/relay.go, RelayBiDirectional between the ends A and B:  *)
(* two copying goroutines and one that waits for the context.  The first   *)
(* copy to end cancels the context at once; the deadlines in the past then *)
(* end the other, wherever it is.                                          *)
(***************************************************************************)
EXTENDS Tcp

CONSTANTS A, B

VARIABLES
    tcp,      \* all connections
    rl,       \* this call of RelayBiDirectional
    ctxDone   \* the context it was given is done (only read here)

Dirs == {"ab", "ba"}
Src(d) == IF d = "ab" THEN A ELSE B
Dst(d) == IF d = "ab" THEN B ELSE A

RelayType == [st : {"off", "on", "returned"},
              cancelled : BOOLEAN,              \* its own context is cancelled
              watched : BOOLEAN,                \* the deadlines are set
              pc : [Dirs -> {"read", "write", "done"}],
              x : [Dirs -> {<<>>} \cup {<<v>> : v \in Data}]]  \* unit read and not written

NoRelay == [st |-> "off", cancelled |-> FALSE, watched |-> FALSE,
            pc |-> [d \in Dirs |-> "read"], x |-> [d \in Dirs |-> <<>>]]

Started == [NoRelay EXCEPT !.st = "on"]

\* io.CopyBuffer: a read, then the write of what was read.
CopyRead(d) ==
    /\ rl.st = "on"
    /\ rl.pc[d] = "read"
    /\ HasData(tcp, Src(d))
    /\ rl' = [rl EXCEPT !.pc[d] = "write", !.x[d] = <<Head(tcp[Src(d)].buf)>>]
    /\ tcp' = Taken(tcp, Src(d))

CopyWrite(d) ==
    /\ rl.st = "on"
    /\ rl.pc[d] = "write"
    /\ CanWrite(tcp, Dst(d))
    /\ tcp' = Written(tcp, Dst(d), Head(rl.x[d]))
    /\ rl' = [rl EXCEPT !.pc[d] = "read", !.x[d] = <<>>]

\* The copy has ended, with EOF or an error.
CopyIsOver_EofFirst(d) ==
    \/ rl.pc[d] = "read" /\ (ReadEnds(tcp, Src(d)) \/ tcp[Src(d)].eof)
    \/ rl.pc[d] = "write" /\ WriteEnds(tcp, Dst(d))
CopyIsOver(d) == \/ rl.pc[d] = "read" /\ ReadEnds(tcp, Src(d))
                 \/ rl.pc[d] = "write" /\ WriteEnds(tcp, Dst(d))

\* CloseWrite, cancel by whoever is first, and the send on done.
CopyEnds_NoCancel(d) ==
    /\ rl.st = "on"
    /\ CopyIsOver(d)
    /\ tcp' = ShutWrite(tcp, Dst(d))
    /\ rl' = [rl EXCEPT !.pc[d] = "done", !.x[d] = <<>>]
CopyEnds(d) ==
    /\ rl.st = "on"
    /\ CopyIsOver(d)
    /\ tcp' = ShutWrite(tcp, Dst(d))
    /\ rl' = [rl EXCEPT !.pc[d] = "done", !.x[d] = <<>>, !.cancelled = TRUE]

\* The goroutine that waits for the context sets both deadlines in the past.
Watch ==
    /\ rl.st = "on"
    /\ rl.cancelled \/ ctxDone
    /\ ~rl.watched
    /\ tcp' = Expired(Expired(tcp, A), B)
    /\ rl' = [rl EXCEPT !.watched = TRUE]

\* Both copies are done: both connections are closed.
Return ==
    /\ rl.st = "on"
    /\ \A d \in Dirs : rl.pc[d] = "done"
    /\ tcp' = Closed(Closed(tcp, A), B)
    /\ rl' = [NoRelay EXCEPT !.st = "returned"]

RelayStep ==
    \/ \E d \in Dirs : CopyRead(d) \/ CopyWrite(d) \/ CopyEnds(d)
    \/ Watch
    \/ Return
=============================================================================
