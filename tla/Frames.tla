------------------------------- MODULE Frames -------------------------------
(***************************************************************************)
(* Messages on a control connection, server to client:                     *)
(*   internal/protocol/framing.go      WriteMessage, ReadMessage           *)
(*   internal/tunnel/ctrl_registry.go  CtrlConnWriter                      *)
(*                                                                         *)
(* A frame is written in two writes, the length and the body, by any of    *)
(* several goroutines; the reader takes a length and then that many bytes. *)
(* What it takes is a frame only if nobody wrote in between, which is what *)
(* CtrlConnWriter is for.  A frame of m is the units [msg |-> m,           *)
(* i |-> 0..BodyLen], unit 0 being its length.                             *)
(***************************************************************************)
EXTENDS Naturals, Sequences

CONSTANTS
    Writers,    \* goroutines that write messages
    Msgs,       \* messages
    BodyLen,    \* units in a body
    NoWriter, NoMsg

ASSUME WritersAssumption == NoWriter \notin Writers
ASSUME MsgsAssumption == NoMsg \notin Msgs
ASSUME BodyLenAssumption == BodyLen \in Nat \ {0}

VARIABLES
    mu,       \* holder of CtrlConnWriter.mu
    wr,       \* wr[w]: a call of Write, and what it returned
    stream,   \* units written and not yet read
    up,       \* nobody has closed the connection and the network has not broken it
    rd,       \* ReadMessage: whose frame, units of the body read, and all of them right
    got       \* the message decoded last

frameVars == <<mu, wr, stream, up, rd, got>>

Unit(m, i) == [msg |-> m, i |-> i]
Units == [msg : Msgs, i : 0..BodyLen]
IdleCall == [pc |-> "idle", msg |-> NoMsg]
AtLength == [pc |-> "length", msg |-> NoMsg, n |-> 0, ok |-> TRUE]

FramesTypeOK ==
    /\ mu \in Writers \cup {NoWriter}
    /\ wr \in [Writers -> [pc : {"idle", "length", "body", "ok", "err"}, msg : Msgs \cup {NoMsg}]]
    /\ stream \in Seq(Units)
    /\ up \in BOOLEAN
    /\ rd \in [pc : {"length", "body", "failed"}, msg : Msgs \cup {NoMsg}, n : 0..BodyLen, ok : BOOLEAN]
    /\ got \in Msgs \cup {NoMsg}

FramesInit ==
    /\ mu = NoWriter
    /\ wr = [w \in Writers |-> IdleCall]
    /\ stream = <<>>
    /\ up = TRUE
    /\ rd = AtLength
    /\ got = NoMsg

\* CtrlConnWriter.Write takes the lock.
Begin_NoLock(w, m) ==
    /\ wr[w].pc = "idle"
    /\ wr' = [wr EXCEPT ![w] = [pc |-> "length", msg |-> m]]
    /\ UNCHANGED <<mu, stream, up, rd, got>>
Begin(w, m) ==
    /\ wr[w].pc = "idle"
    /\ mu = NoWriter
    /\ mu' = w
    /\ wr' = [wr EXCEPT ![w] = [pc |-> "length", msg |-> m]]
    /\ UNCHANGED <<stream, up, rd, got>>

\* Write returns, and its deferred unlock runs.
Unlock(w) == mu' = IF mu = w THEN NoWriter ELSE mu

\* A connection that broke may still take what it does not deliver.
Put(units) == stream' = IF up THEN stream \o units ELSE stream

\* binary.Write of the length.
WriteLength(w) ==
    /\ wr[w].pc = "length"
    /\ Put(<<Unit(wr[w].msg, 0)>>)
    /\ wr' = [wr EXCEPT ![w].pc = "body"]
    /\ UNCHANGED <<mu, up, rd, got>>

\* conn.Write of the body.
WriteBody(w) ==
    /\ wr[w].pc = "body"
    /\ Put([i \in 1..BodyLen |-> Unit(wr[w].msg, i)])
    /\ wr' = [wr EXCEPT ![w].pc = "ok"]
    /\ Unlock(w)
    /\ UNCHANGED <<up, rd, got>>

\* Either write fails; part of the body may have gone out before the break.
WriteFails(w, n) ==
    /\ wr[w].pc \in {"length", "body"}
    /\ ~up
    /\ n \in 0..(BodyLen - 1)
    /\ wr[w].pc = "length" => n = 0
    /\ stream' = stream \o [i \in 1..n |-> Unit(wr[w].msg, i)]
    /\ wr' = [wr EXCEPT ![w].pc = "err"]
    /\ Unlock(w)
    /\ UNCHANGED <<up, rd, got>>

\* ReadMessage, one unit at a time: binary.Read of a length, then io.ReadFull of
\* the body, then the decoding.  Something that is no length, or a body with other
\* units in it, is an error, and the message loop returns.
ReadUnit(v) ==
    LET n == rd.n + 1
        right == rd.ok /\ v = Unit(rd.msg, n) IN
    /\ rd.pc # "failed"
    /\ stream # <<>>
    /\ v = Head(stream)
    /\ stream' = Tail(stream)
    /\ rd' = CASE rd.pc = "length" /\ v.i = 0 -> [pc |-> "body", msg |-> v.msg, n |-> 0, ok |-> TRUE]
               [] rd.pc = "body" /\ n < BodyLen -> [rd EXCEPT !.n = n, !.ok = right]
               [] rd.pc = "body" /\ n = BodyLen /\ right -> AtLength
               [] OTHER -> [AtLength EXCEPT !.pc = "failed"]
    /\ got' = IF rd.pc = "body" /\ n = BodyLen /\ right THEN rd.msg ELSE got
    /\ UNCHANGED <<mu, wr, up>>

\* EOF or an error, at a frame's edge or inside it; what was in flight may be lost.
ReadFails ==
    /\ ~up
    /\ rd.pc # "failed"
    /\ rd' = [AtLength EXCEPT !.pc = "failed"]
    /\ UNCHANGED <<mu, wr, stream, up, got>>

\* Either end closes the connection, or the network breaks it.
Break ==
    /\ up
    /\ up' = FALSE
    /\ UNCHANGED <<mu, wr, stream, rd, got>>

\* The caller goes on with the result of Write.
Returned(w, result) ==
    /\ wr[w].pc = result
    /\ wr' = [wr EXCEPT ![w] = IdleCall]
    /\ UNCHANGED <<mu, stream, up, rd, got>>

-----------------------------------------------------------------------------
\* The messages of the abstract channel: those whose last unit is in the stream.
WithUnit(q, v) == IF v.i = BodyLen THEN Append(q, v.msg) ELSE q
Whole(s) ==
    LET upTo[n \in 0..Len(s)] == IF n = 0 THEN <<>> ELSE WithUnit(upTo[n - 1], s[n])
    IN  upTo[Len(s)]
Unread == Whole(stream)

Abstract == INSTANCE Channel WITH queue <- Unread, over <- rd.pc = "failed"

\* A control connection behaves as a channel of whole messages: concurrent
\* writers, a close between the two writes of a frame and partial writes never
\* make the reader see a message twice, out of order or mixed with another, or
\* give up on a connection that works.
ImplementsChannel == Abstract!AbsSpec
=============================================================================
