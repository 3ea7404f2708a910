--------------------------- MODULE ControlSession ---------------------------
(***************************************************************************)
(* One control connection, both ends and what travels between them:        *)
(*   internal/control/handler.go    HandleControlConn: handshake, loop     *)
(*   internal/control/heartbeat.go  StartHeartbeat                         *)
(*   internal/client/handler.go     HandleServerConn: handshake, the       *)
(*                                  registration of the tunnels, loop      *)
(*   internal/client/pool.go, cmd/client/main.go  the session in the pool  *)
(*                                                                         *)
(* The server dials, so it greets first.  Heartbeat, public listeners and  *)
(* proxies of the server, and SOCKS users of the client, write to the      *)
(* connection while the other end expects the next message of its dialogue.*)
(* TCP keeps the order of messages; a broken connection loses a suffix.    *)
(* No write has a deadline once the handshake is over, and a loop that     *)
(* delivers a payload waits for its reader: both may take for ever.        *)
(***************************************************************************)
EXTENDS Naturals, FiniteSets, Sequences, SequencesExt

CONSTANTS
    Cfg,        \* the client's configured tunnels, in order: "tcp" or "http"
    MaxEvents   \* bound: ticks and breaks of the connection, and twice the users, SOCKS
                \* payloads and shutdowns

ASSUME CfgAssumption == Cfg \in Seq({"tcp", "http"})
ASSUME BoundsAssumption == MaxEvents \in Nat

Tunnels == DOMAIN Cfg
MaxMissed == 2        \* maxMissed

VARIABLES
    toC, toS,    \* messages on their way to the client, to the server
    up,          \* neither end has closed the connection and it works
    sv,          \* HandleControlConn: "greet", "await", in its loop "loop", writing
                 \* "reply" or "ack", in Deliver "deliver"; "gone"
    replyTo,     \* tunnel whose request the server is answering, 0 if none
    replyOk,     \* what it answers
    routed,      \* tunnels whose users the server accepts
    cl,          \* HandleServerConn: "greet", writing "resp", "refuse" or "ask",
                 \* "await", in its loop "loop", "pong", "ack", "deliver"; "gone"
    nth,         \* index of the next tunnel to register
    dataAddrs,   \* keys of tunnelDataAddrs: tunnels the client knows
    hb,          \* the heartbeat goroutine: "off", "on", "ping" in a write, "fired"
    missed,      \* its counter
    due,         \* its ticker's channel, of one place, holds a tick
    age,         \* intervals since LastHeartbeat
    unanswered,  \* pings sent since the last Pong was read
    stalled,     \* since then a tick came during the write of a ping
    svCancelled, \* clientCtx is done
    bye,         \* the shutdown broadcast to this client: "no", "saying", "said"
    clStop,      \* the client's context is done
    saidBye,     \* its shutdown goroutine has run
    disturbed,   \* the client left over a message that was no answer
    dials,       \* goroutines of the server that dial for a SOCKS user
    chans,       \* SOCKS channels the server has confirmed
    events       \* what came from outside so far: bounds the model

svVars  == <<sv, replyTo, replyOk, routed>>
clVars  == <<cl, nth, dataAddrs>>
hbVars  == <<hb, missed, due, age, unanswered, stalled>>
ctxVars == <<svCancelled, bye, clStop, saidBye>>
chVars  == <<dials, chans>>
vars    == <<toC, toS, up, svVars, clVars, hbVars, ctxVars, disturbed, chVars, events>>

Msg(t, i, ok) == [type |-> t, tun |-> i, ok |-> ok]
Plain(t) == Msg(t, 0, TRUE)
MsgTypes == {"Register", "RegisterResp", "RequestTunnel", "TunnelResp", "Ping", "Pong", "Open",
             "SOCKSConnect", "SOCKSReady", "Data", "Disconnect", "DisconnectAck", "Cut"}

Serving == sv \in {"loop", "reply", "ack", "deliver"}
InLoop  == cl \in {"loop", "pong", "ack", "deliver"}

\* Types of both ends and of the two streams.
TypeOK ==
    /\ \A q \in {toC, toS} :
           q \in Seq([type : MsgTypes, tun : Tunnels \cup {0}, ok : BOOLEAN])
    /\ up \in BOOLEAN
    /\ sv \in {"greet", "await", "loop", "reply", "ack", "deliver", "gone"}
    /\ replyTo \in Tunnels \cup {0} /\ (sv = "reply" => replyTo # 0)
    /\ replyOk \in BOOLEAN
    /\ routed \subseteq Tunnels
    /\ cl \in {"greet", "resp", "refuse", "ask", "await", "loop", "pong", "ack", "deliver", "gone"}
    /\ nth \in 1..Len(Cfg) + 1
    /\ dataAddrs \subseteq Tunnels
    /\ hb \in {"off", "on", "ping", "fired"}
    /\ missed \in 0..MaxEvents /\ age \in 0..MaxEvents /\ unanswered \in 0..MaxEvents
    /\ due \in BOOLEAN /\ stalled \in BOOLEAN
    /\ svCancelled \in BOOLEAN /\ clStop \in BOOLEAN /\ saidBye \in BOOLEAN
    /\ bye \in {"no", "saying", "said"}
    /\ disturbed \in BOOLEAN
    /\ dials \in Nat /\ chans \in Nat
    /\ events \in 0..MaxEvents

Init ==
    /\ toC = <<>> /\ toS = <<>> /\ up = TRUE
    /\ sv = "greet" /\ replyTo = 0 /\ replyOk = FALSE /\ routed = {}
    /\ cl = "greet" /\ nth = 1 /\ dataAddrs = {}
    /\ hb = "off" /\ missed = 0 /\ due = FALSE /\ age = 0 /\ unanswered = 0 /\ stalled = FALSE
    /\ svCancelled = FALSE /\ bye = "no" /\ clStop = FALSE /\ saidBye = FALSE
    /\ disturbed = FALSE
    /\ dials = 0 /\ chans = 0
    /\ events = 0

\* What follows a frame cut by another is never read as a message, and a write to a
\* broken connection fails or is lost.
IsCut(q) == \E k \in DOMAIN q : q[k].type = "Cut"
Written(q, m) == IF up /\ ~IsCut(q) THEN Append(q, m) ELSE q

\* WriteMessage on the connection itself: the client's messages before its loop, the
\* server's greeting and its shutdown broadcast.
RawC(m) == toC' = Written(toC, m)
RawS(m) == toS' = Written(toS, m)

\* While one of those is being written, a frame that goes through the lock of the
\* connection's writer may come between its length and its body, or it between theirs.
RawWriteC == bye = "saying"
RawWriteS == cl \in {"resp", "refuse"} \/ (cl = "ask" /\ nth \in Tunnels)
SendC(m) == \/ toC' = Written(toC, m)
            \/ RawWriteC /\ toC' = Written(toC, Plain("Cut"))
SendS(m) == \/ toS' = Written(toS, m)
            \/ RawWriteS /\ toS' = Written(toS, Plain("Cut"))

\* Something that MaxEvents bounds, and how much of it.
Comes(n) == events + n <= MaxEvents /\ events' = events + n

ReadC(m) == toC # <<>> /\ m = Head(toC)
ReadS(m) == toS # <<>> /\ m = Head(toS)

-----------------------------------------------------------------------------
(* The server.                                                             *)

\* HandleControlConn returns: the deferred cleanup and conn.Close.  What it has not
\* read is never read, and the writes of its goroutines fail.
SvLeave_KeepsConn ==
    /\ sv' = "gone" /\ replyTo' = 0 /\ replyOk' = FALSE /\ routed' = {}
    /\ svCancelled' = TRUE /\ bye' = "said"
    /\ toS' = <<>>
    /\ hb' = IF hb = "fired" THEN hb ELSE "off"
    /\ missed' = 0 /\ due' = FALSE /\ age' = 0 /\ unanswered' = 0 /\ stalled' = FALSE
    /\ dials' = 0 /\ chans' = 0
    /\ UNCHANGED up
SvLeave ==
    /\ sv' = "gone" /\ replyTo' = 0 /\ replyOk' = FALSE /\ routed' = {}
    /\ svCancelled' = TRUE /\ bye' = "said"
    /\ toS' = <<>>
    /\ hb' = IF hb = "fired" THEN hb ELSE "off"
    /\ missed' = 0 /\ due' = FALSE /\ age' = 0 /\ unanswered' = 0 /\ stalled' = FALSE
    /\ dials' = 0 /\ chans' = 0
    /\ up' = FALSE

SvGreet ==
    /\ sv = "greet"
    /\ RawC(Plain("Register"))
    /\ sv' = "await"
    /\ UNCHANGED <<toS, up, replyTo, replyOk, routed, clVars, hbVars, ctxVars, disturbed,
                   chVars, events>>

\* RegisterResp "ok": reg.Register stamps LastHeartbeat, the heartbeat starts.
SvRegistered ==
    /\ sv = "await"
    /\ ReadS(Plain("RegisterResp"))
    /\ toS' = Tail(toS)
    /\ sv' = "loop" /\ hb' = "on"
    /\ UNCHANGED <<toC, up, replyTo, replyOk, routed, clVars, missed, due, age, unanswered,
                   stalled, ctxVars, disturbed, chVars, events>>

\* The client refused, or something else came first.
SvNotRegistered ==
    /\ sv = "await"
    /\ toS # <<>> /\ Head(toS) # Plain("RegisterResp") /\ Head(toS).type # "Cut"
    /\ SvLeave
    /\ UNCHANGED <<disturbed, toC, clVars, clStop, saidBye, events>>

\* The connection fails, what comes is no message, or the 10 s deadline passes.
SvHandshakeFails ==
    /\ sv \in {"greet", "await"}
    /\ SvLeave
    /\ UNCHANGED <<disturbed, toC, clVars, clStop, saidBye, events>>

\* Pong: SetLastHeartbeat.  The heartbeat's own counter is not touched.
SvPong ==
    /\ sv = "loop"
    /\ ReadS(Plain("Pong"))
    /\ toS' = Tail(toS)
    /\ age' = 0 /\ unanswered' = 0 /\ stalled' = FALSE
    /\ UNCHANGED <<toC, up, svVars, clVars, hb, missed, due, ctxVars, disturbed, chVars, events>>

\* handleRequestTunnel: the port listens before the reply is written, or it cannot be
\* had and the reply says so.
SvTCPTunnel_Silent(i, ok) ==
    /\ sv = "loop"
    /\ Cfg[i] = "tcp"
    /\ ReadS(Msg("RequestTunnel", i, TRUE))
    /\ toS' = Tail(toS)
    /\ routed' = IF ok THEN routed \cup {i} ELSE routed
    /\ IF ok THEN sv' = "reply" /\ replyTo' = i /\ replyOk' = ok
             ELSE UNCHANGED <<sv, replyTo, replyOk>>
    /\ UNCHANGED <<toC, up, clVars, hbVars, ctxVars, disturbed, chVars, events>>
SvTCPTunnel_AlwaysOK(i, ok) ==
    /\ sv = "loop"
    /\ Cfg[i] = "tcp"
    /\ ReadS(Msg("RequestTunnel", i, TRUE))
    /\ toS' = Tail(toS)
    /\ routed' = IF ok THEN routed \cup {i} ELSE routed
    /\ sv' = "reply" /\ replyTo' = i /\ replyOk' = TRUE
    /\ UNCHANGED <<toC, up, clVars, hbVars, ctxVars, disturbed, chVars, events>>
SvTCPTunnel(i, ok) ==
    /\ sv = "loop"
    /\ Cfg[i] = "tcp"
    /\ ReadS(Msg("RequestTunnel", i, TRUE))
    /\ toS' = Tail(toS)
    /\ routed' = IF ok THEN routed \cup {i} ELSE routed
    /\ sv' = "reply" /\ replyTo' = i /\ replyOk' = ok
    /\ UNCHANGED <<toC, up, clVars, hbVars, ctxVars, disturbed, chVars, events>>

\* handleHTTPTunnelRequest: the route is there before the reply is written.  When the
\* hostname is another session's, AddHTTPTunnel says so, nobody looks, and the reply
\* is the same.
SvHTTPTunnel(i, free) ==
    /\ sv = "loop"
    /\ Cfg[i] = "http"
    /\ ReadS(Msg("RequestTunnel", i, TRUE))
    /\ toS' = Tail(toS)
    /\ routed' = IF free THEN routed \cup {i} ELSE routed
    /\ sv' = "reply" /\ replyTo' = i /\ replyOk' = TRUE
    /\ UNCHANGED <<toC, up, clVars, hbVars, ctxVars, disturbed, chVars, events>>

\* The reply is written.  When that fails the port is closed again.
SvReply ==
    /\ sv = "reply"
    /\ SendC(Msg("TunnelResp", replyTo, replyOk))
    /\ sv' = "loop" /\ replyTo' = 0 /\ replyOk' = FALSE
    /\ routed' = IF ~up /\ Cfg[replyTo] = "tcp" THEN routed \ {replyTo} ELSE routed
    /\ UNCHANGED <<toS, up, clVars, hbVars, ctxVars, disturbed, chVars, events>>

\* An answer to no question is logged.
SvOther ==
    /\ sv = "loop"
    /\ toS # <<>> /\ Head(toS).type \in {"RegisterResp", "DisconnectAck"}
    /\ toS' = Tail(toS)
    /\ UNCHANGED <<toC, up, svVars, clVars, hbVars, ctxVars, disturbed, chVars, events>>

\* SOCKSConnect: a goroutine dials the target and says how that went.
SvSocksConnect ==
    /\ sv = "loop"
    /\ ReadS(Plain("SOCKSConnect"))
    /\ toS' = Tail(toS)
    /\ dials' = dials + 1
    /\ UNCHANGED <<toC, up, svVars, clVars, hbVars, ctxVars, disturbed, chans, events>>

SvDialed(ok) ==
    /\ dials > 0
    /\ dials' = dials - 1
    /\ chans' = IF ok THEN chans + 1 ELSE chans
    /\ SendC(Msg("SOCKSReady", 0, ok))
    /\ UNCHANGED <<toS, up, svVars, clVars, hbVars, ctxVars, disturbed, events>>

\* The relay of a channel has read from the target.
SvSocksData ==
    /\ Serving /\ chans > 0
    /\ Comes(2)
    /\ SendC(Plain("Data"))
    /\ UNCHANGED <<toS, up, svVars, clVars, hbVars, ctxVars, disturbed, chVars>>

\* SOCKSData: the loop is in Deliver until the channel's reader has taken the payload.
SvData ==
    /\ sv = "loop"
    /\ ReadS(Plain("Data"))
    /\ toS' = Tail(toS)
    /\ sv' = "deliver"
    /\ UNCHANGED <<toC, up, replyTo, replyOk, routed, clVars, hbVars, ctxVars, disturbed,
                   chVars, events>>

SvDelivered ==
    /\ sv = "deliver"
    /\ sv' = "loop"
    /\ UNCHANGED <<toC, toS, up, replyTo, replyOk, routed, clVars, hbVars, ctxVars, disturbed,
                   chVars, events>>

SvDisconnect ==
    /\ sv = "loop"
    /\ ReadS(Plain("Disconnect"))
    /\ toS' = Tail(toS)
    /\ sv' = "ack"
    /\ UNCHANGED <<toC, up, replyTo, replyOk, routed, clVars, hbVars, ctxVars, disturbed,
                   chVars, events>>

SvAck ==
    /\ sv = "ack"
    /\ SendC(Plain("DisconnectAck"))
    /\ SvLeave
    /\ UNCHANGED <<disturbed, clVars, clStop, saidBye, events>>

\* clientCtx is done at the top of the loop, the read fails or finds no message, or
\* nothing came for 45 s.
SvLoopEnds ==
    /\ sv = "loop"
    /\ svCancelled \/ ~up \/ (toS # <<>> => Head(toS).type = "Cut")
    /\ SvLeave
    /\ UNCHANGED <<disturbed, toC, clVars, clStop, saidBye, events>>

\* HeartbeatInterval passes.  The ticker keeps one tick for a heartbeat that is in a
\* write and drops the others; one that waits for a tick takes it within the interval.
ClockTick ==
    /\ hb \in {"on", "ping"}
    /\ hb = "on" => ~due
    /\ Comes(1)
    /\ age' = age + 1
    /\ due' = TRUE
    /\ stalled' = (stalled \/ hb = "ping")
    /\ UNCHANGED <<toC, toS, up, svVars, clVars, hb, missed, unanswered, ctxVars, disturbed,
                   chVars>>

\* The Pong came between two ticks, so after three of them time.Since may or may not
\* have passed the 30 s.
Stale_CounterOnly(late) == missed >= MaxMissed
Stale(late) ==
    /\ age > MaxMissed + 1 \/ (age = MaxMissed + 1 /\ late)
    /\ missed >= MaxMissed

HeartbeatTick(late) ==
    /\ hb = "on" /\ due
    /\ due' = FALSE
    /\ IF Stale(late) THEN hb' = "fired" /\ svCancelled' = TRUE
                      ELSE hb' = "ping" /\ UNCHANGED svCancelled
    /\ UNCHANGED <<toC, toS, up, svVars, clVars, missed, age, unanswered, stalled, bye, clStop,
                   saidBye, disturbed, chVars, events>>

\* The Ping is written, however long that took.
Pinged ==
    /\ hb = "ping"
    /\ SendC(Plain("Ping"))
    /\ hb' = "on" /\ missed' = missed + 1 /\ unanswered' = unanswered + 1
    /\ UNCHANGED <<toS, up, svVars, clVars, due, age, stalled, ctxVars, disturbed, chVars,
                   events>>

\* It cannot be written: cancelFn.  Or the context is done.
HeartbeatEnds ==
    /\ \/ hb = "ping" /\ ~up
       \/ hb = "on" /\ svCancelled
    /\ hb' = "off" /\ svCancelled' = TRUE
    /\ UNCHANGED <<toC, toS, up, svVars, clVars, missed, due, age, unanswered, stalled, bye,
                   clStop, saidBye, disturbed, chVars, events>>

\* StartPublicListener, handleHTTPConn: a user arrives, OpenConnection is sent.  A
\* public port is accepted from once the reply is written.
UserArrives(i) ==
    /\ i \in routed
    /\ Cfg[i] = "tcp" => replyTo # i
    /\ Comes(2)
    /\ SendC(Msg("Open", i, TRUE))
    /\ UNCHANGED <<toS, up, svVars, clVars, hbVars, ctxVars, disturbed, chVars>>

\* StartPublicListener closes the port when clientCtx is done.
ListenerCloses(i) ==
    /\ i \in routed /\ Cfg[i] = "tcp" /\ replyTo # i
    /\ svCancelled
    /\ routed' = routed \ {i}
    /\ UNCHANGED <<toC, toS, up, sv, replyTo, replyOk, clVars, hbVars, ctxVars, disturbed,
                   chVars, events>>

\* The root context is cancelled, then every registered client is sent Disconnect.
ServerShutdown ==
    /\ sv # "gone" /\ bye = "no"
    /\ Comes(2)
    /\ svCancelled' = TRUE
    /\ bye' = IF Serving THEN "saying" ELSE "said"
    /\ UNCHANGED <<toC, toS, up, svVars, clVars, hbVars, clStop, saidBye, disturbed, chVars>>

ServerSaysBye ==
    /\ bye = "saying"
    /\ RawC(Plain("Disconnect"))
    /\ bye' = "said"
    /\ UNCHANGED <<toS, up, svVars, clVars, hbVars, svCancelled, clStop, saidBye, disturbed,
                   chVars, events>>

-----------------------------------------------------------------------------
(* The client.                                                             *)

\* HandleServerConn returns: conn.Close, and the session leaves the pool.
ClLeave ==
    /\ cl' = "gone"
    /\ toC' = <<>>
    /\ up' = FALSE

\* ClientRegister is read, with the right token or not.
ClGreeted(ok) ==
    /\ cl = "greet"
    /\ ReadC(Plain("Register"))
    /\ toC' = Tail(toC)
    /\ cl' = IF ok THEN "resp" ELSE "refuse"
    /\ UNCHANGED <<toS, up, svVars, nth, dataAddrs, hbVars, ctxVars, disturbed, chVars, events>>

ClHandshake ==
    /\ cl = "resp"
    /\ RawS(Plain("RegisterResp"))
    /\ cl' = "ask"
    /\ UNCHANGED <<toC, up, svVars, nth, dataAddrs, hbVars, ctxVars, disturbed, chVars, events>>

ClRefuses ==
    /\ cl = "refuse"
    /\ RawS(Msg("RegisterResp", 0, FALSE))
    /\ ClLeave
    /\ UNCHANGED <<disturbed, svVars, nth, dataAddrs, hbVars, ctxVars, chVars, events>>

\* The connection fails or the 10 s deadline passes.
ClHandshakeFails ==
    /\ cl \in {"greet", "resp", "refuse"}
    /\ ClLeave
    /\ UNCHANGED <<toS, disturbed, svVars, nth, dataAddrs, hbVars, ctxVars, chVars, events>>

\* The request of the next configured tunnel is written.
ClAsk ==
    /\ cl = "ask" /\ nth \in Tunnels
    /\ RawS(Msg("RequestTunnel", nth, TRUE))
    /\ cl' = "await"
    /\ UNCHANGED <<toC, up, svVars, nth, dataAddrs, hbVars, ctxVars, disturbed, chVars, events>>

\* All are registered: the loop.
ClBegins ==
    /\ cl = "ask" /\ nth \notin Tunnels
    /\ cl' = "loop"
    /\ UNCHANGED <<toC, toS, up, svVars, nth, dataAddrs, hbVars, ctxVars, disturbed, chVars,
                   events>>

\* The next message is the answer.
ClAnswered(i) ==
    /\ cl = "await"
    /\ ReadC(Msg("TunnelResp", i, TRUE))
    /\ toC' = Tail(toC)
    /\ dataAddrs' = dataAddrs \cup {i}
    /\ nth' = nth + 1
    /\ cl' = "ask"
    /\ UNCHANGED <<toS, up, svVars, hbVars, ctxVars, disturbed, chVars, events>>

\* The next message is a refusal, or is no answer at all.
ClNotAnswered ==
    /\ cl = "await"
    /\ toC # <<>> /\ Head(toC).type # "Cut" /\ ~(Head(toC).type = "TunnelResp" /\ Head(toC).ok)
    /\ disturbed' = (Head(toC).type # "TunnelResp")
    /\ ClLeave
    /\ UNCHANGED <<toS, svVars, nth, dataAddrs, hbVars, ctxVars, chVars, events>>

\* A read or a write fails.
ClConnFails ==
    /\ cl \in {"ask", "await", "loop", "pong"}
    /\ ~up
    /\ ClLeave
    /\ UNCHANGED <<toS, disturbed, svVars, nth, dataAddrs, hbVars, ctxVars, chVars, events>>

\* What comes is no message.  No deadline is armed, so the read may also wait for more.
ClGarbled ==
    /\ cl \in {"await", "loop"}
    /\ toC # <<>> /\ Head(toC).type = "Cut"
    /\ ClLeave
    /\ UNCHANGED <<toS, disturbed, svVars, nth, dataAddrs, hbVars, ctxVars, chVars, events>>

\* A Ping, a payload or a Disconnect: the loop writes Pong, is in Deliver, or writes
\* DisconnectAck.
ClTakes(t, phase) ==
    /\ cl = "loop"
    /\ ReadC(Plain(t))
    /\ toC' = Tail(toC)
    /\ cl' = phase
    /\ UNCHANGED <<toS, up, svVars, nth, dataAddrs, hbVars, ctxVars, disturbed, chVars, events>>
ClReads == ClTakes("Ping", "pong") \/ ClTakes("Data", "deliver") \/ ClTakes("Disconnect", "ack")

ClPong ==
    /\ cl = "pong"
    /\ SendS(Plain("Pong"))
    /\ cl' = "loop"
    /\ UNCHANGED <<toC, up, svVars, nth, dataAddrs, hbVars, ctxVars, disturbed, chVars, events>>

ClDelivered ==
    /\ cl = "deliver"
    /\ cl' = "loop"
    /\ UNCHANGED <<toC, toS, up, svVars, nth, dataAddrs, hbVars, ctxVars, disturbed, chVars,
                   events>>

ClAck ==
    /\ cl = "ack"
    /\ SendS(Plain("DisconnectAck"))
    /\ ClLeave
    /\ UNCHANGED <<disturbed, svVars, nth, dataAddrs, hbVars, ctxVars, chVars, events>>

\* OpenConnection: HandleOpenConnection for a known tunnel, else a log line.
\* SOCKSReady wakes its user; DisconnectAck is logged.
ClOther ==
    /\ cl = "loop"
    /\ toC # <<>> /\ Head(toC).type \in {"Open", "SOCKSReady", "DisconnectAck"}
    /\ toC' = Tail(toC)
    /\ UNCHANGED <<toS, up, svVars, clVars, hbVars, ctxVars, disturbed, chVars, events>>

\* The context is cancelled; the goroutine started before the loop says so and then
\* arms a deadline of 2 s, the loop returns at its top, or when that passes.
ClStop ==
    /\ cl # "gone" /\ ~clStop
    /\ Comes(2)
    /\ clStop' = TRUE
    /\ UNCHANGED <<toC, toS, up, svVars, clVars, hbVars, svCancelled, bye, saidBye, disturbed,
                   chVars>>

ClSaysBye ==
    /\ InLoop
    /\ clStop /\ ~saidBye
    /\ saidBye' = TRUE
    /\ SendS(Plain("Disconnect"))
    /\ UNCHANGED <<toC, up, svVars, clVars, hbVars, svCancelled, bye, clStop, disturbed, chVars,
                   events>>

ClLoopEnds ==
    /\ \/ cl = "loop" /\ clStop
       \/ cl \in {"pong", "ack"} /\ saidBye
    /\ ClLeave
    /\ UNCHANGED <<toS, disturbed, svVars, nth, dataAddrs, hbVars, ctxVars, chVars, events>>

\* pool.Pick hands out the session from the moment it is accepted.
SocksUser ==
    /\ cl # "gone"
    /\ Comes(2)
    /\ SendS(Plain("SOCKSConnect"))
    /\ UNCHANGED <<toC, up, svVars, clVars, hbVars, ctxVars, disturbed, chVars>>

\* A user whose channel is confirmed sends a payload.
SocksData ==
    /\ InLoop
    /\ chans > Cardinality({k \in DOMAIN toC : toC[k].type = "SOCKSReady" /\ toC[k].ok})
    /\ Comes(2)
    /\ SendS(Plain("Data"))
    /\ UNCHANGED <<toC, up, svVars, clVars, hbVars, ctxVars, disturbed, chVars>>

-----------------------------------------------------------------------------
LinkBreaks ==
    /\ up
    /\ up' = FALSE
    /\ Comes(1)
    /\ UNCHANGED <<toC, toS, svVars, clVars, hbVars, ctxVars, disturbed, chVars>>

\* A broken connection loses what was not read yet, from the end.
Lose ==
    /\ ~up
    /\ \/ toC # <<>> /\ toC' = Front(toC) /\ UNCHANGED toS
       \/ toS # <<>> /\ toS' = Front(toS) /\ UNCHANGED toC
    /\ UNCHANGED <<up, svVars, clVars, hbVars, ctxVars, disturbed, chVars, events>>

\* Steps of the two handlers that wait for a message, with a deadline or without, or
\* for nothing.
ServerStep ==
    \/ SvGreet \/ SvRegistered \/ SvNotRegistered \/ SvHandshakeFails
    \/ SvPong \/ SvOther \/ SvSocksConnect \/ SvData \/ SvDisconnect \/ SvLoopEnds
    \/ \E i \in Tunnels, ok \in BOOLEAN : SvTCPTunnel(i, ok) \/ SvHTTPTunnel(i, ok)

ClientStep ==
    \/ \E ok \in BOOLEAN : ClGreeted(ok)
    \/ ClHandshake \/ ClRefuses \/ ClHandshakeFails
    \/ ClBegins \/ ClNotAnswered \/ \E i \in Tunnels : ClAnswered(i)
    \/ ClConnFails \/ ClReads \/ ClOther

\* Writes without a deadline.
ServerWrites == SvReply \/ SvAck
ClientWrites == ClAsk \/ ClPong \/ ClAck

\* The heartbeat, the listeners, the SOCKS goroutines, the two shutdowns.
Others ==
    \/ \E late \in BOOLEAN : HeartbeatTick(late)
    \/ ClockTick \/ Pinged \/ HeartbeatEnds
    \/ \E i \in Tunnels : UserArrives(i) \/ ListenerCloses(i)
    \/ SocksUser \/ SocksData \/ SvSocksData \/ \E ok \in BOOLEAN : SvDialed(ok)
    \/ ServerShutdown \/ ServerSaysBye \/ ClStop \/ ClSaysBye

Next ==
    \/ ServerStep \/ ServerWrites \/ SvDelivered
    \/ ClientStep \/ ClientWrites \/ ClDelivered \/ ClGarbled \/ ClLoopEnds
    \/ Others
    \/ LinkBreaks \/ Lose

Spec == Init /\ [][Next]_vars

\* The goroutines of both handlers run, and a write to a connection that is closed or
\* broken returns.  Nothing else has to: no write to a peer that does not read, no
\* Deliver, no tick, no user.
Fairness ==
    /\ WF_vars(ServerStep \/ (~up /\ ServerWrites))
    /\ WF_vars(ClientStep \/ (~up /\ ClientWrites))

FairSpec == Spec /\ Fairness

-----------------------------------------------------------------------------
(* Properties.                                                             *)

\* The public port of a tunnel the client counts as established is open for as long
\* as the server serves the session: no answer overtakes the work it reports, or
\* reports work that failed.  (An HTTP tunnel is answered "ok" either way.)
EstablishedIsRouted ==
    Serving /\ ~svCancelled => \A i \in dataAddrs : Cfg[i] = "tcp" => i \in routed

\* Positions of the requests and of their answers among the messages on their way.
Asked == {k \in DOMAIN toS : toS[k].type = "RequestTunnel"}
Given == {k \in DOMAIN toC : toC[k].type = "TunnelResp"}

\* While the client waits for the answer to a request, exactly one of them is on its
\* way or being worked on, unless the frame of a SOCKS user or of the shutdown has cut
\* it: it never takes the answer to another request for its own, and waits for ever
\* only behind such a cut or a server that is stuck.
AnswerIsOnItsWay ==
    cl = "await" /\ up /\ Serving =>
        /\ Cardinality(Asked) + Cardinality(Given) + (IF sv = "reply" THEN 1 ELSE 0)
               \in (IF IsCut(toS) \/ IsCut(toC) THEN {0, 1} ELSE {1})
        /\ \A k \in Asked : toS[k].tun = nth
        /\ \A k \in Given : toC[k].tun = nth
        /\ sv = "reply" => replyTo = nth

\* OpenConnection is never dropped as "unknown tunnelID" by the client's loop,
\* whether the user came before or after the answer to the registration.
OpensAreKnown ==
    InLoop => \A m \in ToSet(toC) : m.type = "Open" => m.tun \in dataAddrs

\* The dialogue that sets the tunnels up stays in step with the messages around
\* it: one answer per request, and no user announced for an unknown tunnel.
SetupInv == TypeOK /\ AnswerIsOnItsWay /\ OpensAreKnown

\* The heartbeat gives up on a client only after MaxMissed pings without a Pong,
\* although its counter is never reset.  When the write of a ping outlasts the
\* interval one is enough: the next tick is already there when it returns.
NoEarlyTimeout ==
    [][hb # "fired" /\ hb' = "fired" =>
           unanswered >= (IF stalled THEN 1 ELSE MaxMissed)]_vars

\* When one end has left, for whatever reason, so does the other, unless it is in
\* Deliver and nobody ever takes the payload: neither the end of the connection nor a
\* cancelled context calls a loop out of that.
EndsTogether ==
    /\ <>[](cl = "deliver") \/ ((sv = "gone") ~> (cl = "gone"))
    /\ <>[](sv = "deliver") \/ ((cl = "gone") ~> (sv = "gone"))

\* What HandleServerConn says it does: it registers every tunnel and runs its
\* loop until the connection is lost or the context is cancelled.  So no message
\* the server may send at that time makes it drop a working session.
ClientSetupUndisturbed == ~disturbed
=============================================================================
