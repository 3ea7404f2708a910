------------------------------ MODULE OpenPath ------------------------------
(***************************************************************************)
(* One external user from accept to the last byte, composed of Frames (the *)
(* control connection) and two instances of Relay:                         *)
(*   internal/tunnel/server.go       StartPublicListener, relayExternalConn,*)
(*                                   handleDataConn                        *)
(*   internal/tunnel/https_proxy.go  handleHTTPSConn, peekSNI, relayHTTPSConn *)
(*   internal/tunnel/client.go       handleOpenConnAsync                   *)
(*                                                                         *)
(*      user -- server --- client -- service                               *)
(*         us    ds  dc     lc                                             *)
(*                                                                         *)
(* Three TCP connections of two ends each.  A TCP user is served under the *)
(* session's context, an HTTPS user, whose ClientHello is read to find the *)
(* tunnel and written to the data connection later, under the server's.    *)
(* The pending table of one user is a single entry; PendingConn has the    *)
(* rest of it.                                                             *)
(***************************************************************************)
EXTENDS Frames, FiniteSets

CONSTANTS
    Cap,        \* units that fit into a connection's buffer
    MaxUp,      \* units the user sends at most
    MaxDown     \* units the service sends at most

ASSUME PathAssumption ==
    /\ Cap \in Nat \ {0} /\ MaxUp \in Nat /\ MaxDown \in Nat
    /\ {"accept", "heartbeat"} \subseteq Writers
    /\ {"Open", "Ping"} \subseteq Msgs

Ends == {"user", "us", "ds", "dc", "lc", "service"}
Peer == [user |-> "us", us |-> "user", ds |-> "dc", dc |-> "ds", lc |-> "service", service |-> "lc"]
Apps == {"user", "service"}

Hello == [from |-> "client", n |-> 0]
Payload(e, k) == [from |-> e, n |-> k]
Data == {Hello} \cup {Payload("user", k) : k \in 1..MaxUp}
                \cup {Payload("service", k) : k \in 1..MaxDown}

VARIABLES
    tcp,        \* the ends of the three connections
    app,        \* app[e]: units sent and received by the user and by the service
    kind,       \* kind of the user: "tcp" or "https"
    sv,         \* the server's goroutine for this user
    peeked,     \* bytes read by peekSNI
    pend,       \* the entry of the pending table
    dh,         \* handleDataConn on the server
    ch,         \* handleOpenConnAsync on the client
    relayS, relayC,   \* RelayBiDirectional on the server and on the client
    ctxDone     \* the user's context is done: the session's or, for HTTPS, the server's

pathVars == <<tcp, app, kind, sv, peeked, pend, dh, ch, relayS, relayC>>
vars     == <<frameVars, pathVars, ctxDone>>

T == INSTANCE Tcp

SR == INSTANCE Relay WITH A <- "us", B <- "ds", rl <- relayS, ctxDone <- ctxDone
CR == INSTANCE Relay WITH A <- "lc", B <- "dc", rl <- relayC, ctxDone <- FALSE

\* Types of the path and of the control connection.
TypeOK ==
    /\ FramesTypeOK
    /\ tcp \in [Ends -> T!EndType]
    /\ \A e \in Ends : Len(tcp[e].buf) <= Cap
    /\ app \in [Apps -> [sent : 0..(MaxUp + MaxDown), rcvd : Seq(Data)]]
    /\ kind \in {"tcp", "https"}
    /\ sv \in {"idle", "peek", "open", "writing", "wait", "replay", "relay", "done"}
    /\ peeked \in {<<>>} \cup {<<v>> : v \in Data}
    /\ pend \in {"none", "open", "given", "cancelled"}
    /\ dh \in {"none", "hello", "done"}
    /\ ch \in {"idle", "dial", "hello", "local", "relay", "done"}
    /\ relayS \in SR!RelayType /\ relayC \in CR!RelayType
    /\ ctxDone \in BOOLEAN

Init ==
    /\ FramesInit
    /\ tcp = [e \in Ends |-> T!NoConn]
    /\ app = [e \in Apps |-> [sent |-> 0, rcvd |-> <<>>]]
    /\ kind \in {"tcp", "https"}
    /\ sv = "idle"
    /\ peeked = <<>>
    /\ pend = "none"
    /\ dh = "none"
    /\ ch = "idle"
    /\ relayS = SR!NoRelay /\ relayC = CR!NoRelay
    /\ ctxDone = FALSE

-----------------------------------------------------------------------------
(* The server's goroutine for the user.                                    *)

\* Accept of the public listener or of the HTTPS proxy.
Accept ==
    /\ sv = "idle"
    /\ ~ctxDone
    /\ tcp' = T!Connected(tcp, "us")
    /\ sv' = IF kind = "tcp" THEN "open" ELSE "peek"
    /\ UNCHANGED <<frameVars, app, kind, peeked, pend, dh, ch, relayS, relayC, ctxDone>>

\* peekSNI reads the ClientHello and a tunnel is found for its name.
Peek ==
    /\ sv = "peek"
    /\ T!HasData(tcp, "us")
    /\ peeked' = <<Head(tcp["us"].buf)>>
    /\ tcp' = T!Taken(tcp, "us")
    /\ sv' = "open"
    /\ UNCHANGED <<frameVars, app, kind, pend, dh, ch, relayS, relayC, ctxDone>>

\* The user sends nothing within 10 s, no ClientHello, or one nobody serves.
PeekFails ==
    /\ sv = "peek"
    /\ tcp' = T!Closed(tcp, "us")
    /\ sv' = "done"
    /\ UNCHANGED <<frameVars, app, kind, peeked, pend, dh, ch, relayS, relayC, ctxDone>>

\* RegisterPending, and OpenConnection on its way through the control writer.
SendOpen ==
    /\ sv = "open"
    /\ Begin("accept", "Open")
    /\ pend' = "open"
    /\ sv' = "writing"
    /\ UNCHANGED <<tcp, app, kind, peeked, dh, ch, relayS, relayC, ctxDone>>

\* Write returned: wait for the data connection, or let the user go.
OpenSent ==
    /\ sv = "writing"
    /\ \/ Returned("accept", "ok") /\ sv' = "wait" /\ UNCHANGED tcp
       \/ Returned("accept", "err") /\ sv' = "done" /\ tcp' = T!Closed(tcp, "us")
    /\ UNCHANGED <<app, kind, peeked, pend, dh, ch, relayS, relayC, ctxDone>>

StartRelay == sv' = "relay" /\ relayS' = SR!Started

\* The data connection is there.
TakeData ==
    /\ sv = "wait"
    /\ pend = "given"
    /\ IF kind = "https" THEN sv' = "replay" /\ UNCHANGED relayS ELSE StartRelay
    /\ UNCHANGED <<frameVars, tcp, app, kind, peeked, pend, dh, ch, relayC, ctxDone>>

\* The context is done, or the 15 s of the proxy are over: the user is let go.
\* Only the TCP path takes the entry out of the pending table.
GiveUpWaiting ==
    /\ sv = "wait"
    /\ kind = "https" \/ ctxDone
    /\ pend' = IF kind = "tcp" /\ pend = "open" THEN "cancelled" ELSE pend
    /\ tcp' = T!Closed(tcp, "us")
    /\ sv' = "done"
    /\ UNCHANGED <<frameVars, app, kind, peeked, dh, ch, relayS, relayC, ctxDone>>

\* The peeked bytes are written to the data connection before the relay starts.
Replay_Skipped ==
    /\ sv = "replay"
    /\ StartRelay
    /\ UNCHANGED <<frameVars, tcp, app, kind, peeked, pend, dh, ch, relayC, ctxDone>>
Replay ==
    /\ sv = "replay"
    /\ T!CanWrite(tcp, "ds")
    /\ tcp' = T!Written(tcp, "ds", Head(peeked))
    /\ StartRelay
    /\ peeked' = <<>>
    /\ UNCHANGED <<frameVars, app, kind, pend, dh, ch, relayC, ctxDone>>

ReplayFails ==
    /\ sv = "replay"
    /\ T!WriteEnds(tcp, "ds")
    /\ tcp' = T!Closed(T!Closed(tcp, "us"), "ds")
    /\ sv' = "done"
    /\ UNCHANGED <<frameVars, app, kind, peeked, pend, dh, ch, relayS, relayC, ctxDone>>

-----------------------------------------------------------------------------
(* handleDataConn.                                                         *)

\* ReadMessage takes the hello and not a byte more; FulfillPending hands the
\* connection over or refuses it, and it is closed.
Fulfil == IF pend = "open" THEN pend' = "given" /\ tcp' = T!Taken(tcp, "ds")
          ELSE UNCHANGED pend /\ tcp' = T!Closed(T!Taken(tcp, "ds"), "ds")
ReadHello ==
    /\ dh = "hello"
    /\ T!HasData(tcp, "ds")
    /\ Fulfil
    /\ dh' = "done"
    /\ UNCHANGED <<frameVars, app, kind, sv, peeked, ch, relayS, relayC, ctxDone>>

\* The connection ends before its hello, or the deadline passes.
HelloFails ==
    /\ dh = "hello"
    /\ tcp["ds"].buf = <<>>
    /\ tcp' = T!Closed(tcp, "ds")
    /\ dh' = "done"
    /\ UNCHANGED <<frameVars, app, kind, sv, peeked, pend, ch, relayS, relayC, ctxDone>>

-----------------------------------------------------------------------------
(* The client: its message loop and handleOpenConnAsync.                   *)

\* ReadMessage of the message loop; OpenConnection starts the handler.
CtrlRead ==
    /\ \E v \in Units : ReadUnit(v)
    /\ ch' = IF got' = "Open" /\ ch = "idle" THEN "dial" ELSE ch
    /\ UNCHANGED <<tcp, app, kind, sv, peeked, pend, dh, relayS, relayC, ctxDone>>

DialServer(ok) ==
    /\ ch = "dial"
    /\ IF ok THEN /\ tcp' = T!Connected(tcp, "dc")
                  /\ dh' = "hello" /\ ch' = "hello"
             ELSE /\ ch' = "done"
                  /\ UNCHANGED <<tcp, dh>>
    /\ UNCHANGED <<frameVars, app, kind, sv, peeked, pend, relayS, relayC, ctxDone>>

WriteHello ==
    /\ ch = "hello"
    /\ \/ /\ T!CanWrite(tcp, "dc")
          /\ tcp' = T!Written(tcp, "dc", Hello)
          /\ ch' = "local"
       \/ /\ T!WriteEnds(tcp, "dc")
          /\ tcp' = T!Closed(tcp, "dc")
          /\ ch' = "done"
    /\ UNCHANGED <<frameVars, app, kind, sv, peeked, pend, dh, relayS, relayC, ctxDone>>

DialLocal(ok) ==
    /\ ch = "local"
    /\ IF ok THEN /\ tcp' = T!Connected(tcp, "lc")
                  /\ ch' = "relay" /\ relayC' = CR!Started
             ELSE /\ tcp' = T!Closed(tcp, "dc")
                  /\ ch' = "done" /\ UNCHANGED relayC
    /\ UNCHANGED <<frameVars, app, kind, sv, peeked, pend, dh, relayS, ctxDone>>

-----------------------------------------------------------------------------
(* The relays, the other writers, the user and the service.                *)

RelayOnServer ==
    /\ SR!RelayStep
    /\ UNCHANGED <<frameVars, app, kind, sv, peeked, pend, dh, ch, relayC, ctxDone>>

RelayOnClient ==
    /\ CR!RelayStep
    /\ UNCHANGED <<frameVars, app, kind, sv, peeked, pend, dh, ch, relayS, ctxDone>>

\* StartHeartbeat writes a Ping.  Bound: one, before the user's Open begins.
Ping ==
    /\ sv \in {"idle", "peek", "open"}
    /\ up /\ stream = <<>> /\ got = NoMsg
    /\ Begin("heartbeat", "Ping")
    /\ UNCHANGED <<pathVars, ctxDone>>

\* A Ping that cannot be written ends the session.
PingSent ==
    /\ \/ Returned("heartbeat", "ok") /\ UNCHANGED ctxDone
       \/ Returned("heartbeat", "err") /\ ctxDone' = (ctxDone \/ kind = "tcp")
    /\ UNCHANGED pathVars

FrameStep ==
    /\ \/ \E w \in Writers : WriteLength(w) \/ WriteBody(w) \/ \E n \in 0..BodyLen : WriteFails(w, n)
       \/ ReadFails
    /\ UNCHANGED <<pathVars, ctxDone>>

\* Bound: a break after the Open has gone out does not concern this user.
CtrlBreaks ==
    /\ ch = "idle"
    /\ \A k \in DOMAIN stream : stream[k] # Unit("Open", BodyLen)
    /\ Break
    /\ UNCHANGED <<pathVars, ctxDone>>

\* The network resets the data connection.  Bound: only before the server relays,
\* where it is not the end of a copy.
DataBreaks ==
    /\ sv = "replay"
    /\ T!Live(tcp, "ds") /\ ~tcp["ds"].rst
    /\ tcp' = T!Reset(tcp, "ds")
    /\ UNCHANGED <<frameVars, app, kind, sv, peeked, pend, dh, ch, relayS, relayC, ctxDone>>

AppSend(e) ==
    /\ T!CanWrite(tcp, e)
    /\ app[e].sent < (IF e = "user" THEN MaxUp ELSE MaxDown)
    /\ tcp' = T!Written(tcp, e, Payload(e, app[e].sent + 1))
    /\ app' = [app EXCEPT ![e].sent = @ + 1]
    /\ UNCHANGED <<frameVars, kind, sv, peeked, pend, dh, ch, relayS, relayC, ctxDone>>

AppReceive(e) ==
    /\ T!HasData(tcp, e)
    /\ tcp' = T!Taken(tcp, e)
    /\ app' = [app EXCEPT ![e].rcvd = Append(@, Head(tcp[e].buf))]
    /\ UNCHANGED <<frameVars, kind, sv, peeked, pend, dh, ch, relayS, relayC, ctxDone>>

\* The user or the service half-closes or closes its connection.
AppEnds(e) ==
    /\ T!Live(tcp, e)
    /\ \/ tcp[e].st = "open" /\ tcp' = T!ShutWrite(tcp, e)
       \/ tcp' = T!Closed(tcp, e)
    /\ UNCHANGED <<frameVars, app, kind, sv, peeked, pend, dh, ch, relayS, relayC, ctxDone>>

\* The session ends, or the server shuts down.
ContextEnds ==
    /\ ~ctxDone
    /\ ctxDone' = TRUE
    /\ UNCHANGED <<frameVars, pathVars>>

-----------------------------------------------------------------------------
ServerStep ==
    \/ Peek \/ PeekFails \/ SendOpen \/ OpenSent \/ TakeData \/ GiveUpWaiting
    \/ Replay \/ ReplayFails \/ ReadHello \/ HelloFails \/ RelayOnServer

ClientStep ==
    \/ CtrlRead \/ WriteHello \/ RelayOnClient
    \/ \E ok \in BOOLEAN : DialServer(ok) \/ DialLocal(ok)

WriterStep == FrameStep \/ PingSent

Next ==
    \/ ServerStep \/ ClientStep \/ WriterStep
    \/ Accept \/ Ping \/ CtrlBreaks \/ DataBreaks \/ ContextEnds
    \/ \E e \in Apps : AppSend(e) \/ AppReceive(e) \/ AppEnds(e)

Spec == Init /\ [][Next]_vars

\* As long as some goroutine of the program can run, one does, and an end that
\* was sent something reads it, as does the client's message loop.  The bounds make
\* all of their work finite, so none is left out.  Nobody has to send, to close or
\* to end a session.
Fairness == WF_vars(ServerStep \/ ClientStep \/ WriterStep \/ \E e \in Apps : AppReceive(e))

FairSpec == Spec /\ Fairness

-----------------------------------------------------------------------------
(* Properties.                                                             *)

SentBy(e) == [k \in 1..app[e].sent |-> Payload(e, k)]
IsPrefixOf(p, s) == Len(p) <= Len(s) /\ p = SubSeq(s, 1, Len(p))

\* Types, and each side receives a prefix of what the other sent: the peeked
\* ClientHello first and once, and never the hello that opened the data connection,
\* although server and client both start to copy at times of their own.
StreamsIntact ==
    /\ TypeOK
    /\ IsPrefixOf(app["service"].rcvd, SentBy("user"))
    /\ IsPrefixOf(app["user"].rcvd, SentBy("service"))

\* The first copy to end cancels the other one, but when it is the service that
\* ends, with nothing of the user's left to read, everything the service sent is
\* with the user or in its buffer once the server's relay has returned.
ServiceEndLosesNothing ==
    /\ relayS.st = "returned"
    /\ tcp["user"].st = "open"
    /\ ~ctxDone
    /\ app["service"].rcvd = SentBy("user")
    => app["user"].rcvd \o tcp["user"].buf = SentBy("service")

\* When the user's context ends, whatever its goroutine is doing, the user is let
\* go; and when either end closes a relayed connection, both relays return and
\* nothing of the path stays open.
RelayEnds ==
    /\ (ctxDone /\ sv # "idle") ~> ~T!Live(tcp, "us")
    /\ (relayS.st = "on" /\ relayC.st = "on" /\ \E e \in Apps : tcp[e].st = "closed")
           ~> (\A e \in Ends \ Apps : ~T!Live(tcp, e))
=============================================================================
