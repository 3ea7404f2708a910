--------------------------- MODULE TunnelManager ---------------------------
(***************************************************************************)
(* The server's routing tables and the control sessions that own them:     *)
(*   internal/tunnel/manager.go        Manager (TCP, HTTP, HTTPS tunnels)  *)
(*   internal/tunnel/ctrl_registry.go  ControlConnRegistry                 *)
(*   internal/control/registry.go      ClientRegistry                      *)
(*   internal/control/handler.go       HandleControlConn, its message loop,*)
(*                                     its tunnel handlers and its cleanup *)
(*   internal/tunnel/http_proxy.go, https_proxy.go   the routing lookup    *)
(*                                                                         *)
(* A session is one run of HandleControlConn: it gets a fresh uuid from    *)
(* ClientRegistry.Register, so an element of Sessions is used once.  The   *)
(* tables are protected by one mutex each; a step of this specification is *)
(* what happens under one lock, so every interleaving of the session       *)
(* goroutines, the proxies, the heartbeat and the admin API is a behaviour.*)
(***************************************************************************)
EXTENDS Naturals, FiniteSets

CONSTANTS
    Sessions,   \* client IDs (uuids), one per control connection
    Kinds,      \* the routing tables: plain HTTP, HTTPS/SNI
    Hosts,      \* hostnames that clients register
    TunnelIDs,  \* IDs (uuids) of TCP tunnels
    Ports,      \* TCP ports the server may listen on
    Requests,   \* external HTTP / HTTPS connections being routed
    NoSession   \* "no entry" in a table

ASSUME NoSessionAssumption == NoSession \notin Sessions

Keys  == Kinds \X Hosts             \* one routing slot of one table
AnyPort == "any"                    \* RequestedPort = 0

\* Where HandleControlConn is.  "rmTCP" ... "closeConn" are its deferred calls.
Phases == {"idle", "registered", "top", "read", "deliver", "replyTCP", "reply", "ack",
           "rmTCP", "rmHTTP", "deregCtrl", "deregClient", "cancel", "closeConn", "closed"}

\* The loop is in a CtrlConnWriter.Write: the TunnelResp of a new tunnel, any
\* other reply, or the DisconnectAck.  None of them has a deadline.
Writing == {"replyTCP", "reply", "ack"}

\* The session runs its message loop: its tunnels and routes are in service.
Serving == {"top", "read", "deliver"} \cup Writing

VARIABLES
    phase,      \* phase[s]: program counter of the session's goroutine
    conn,       \* conn[s]: its control connection: "none", "open", "broken", "closed"
    ctxDone,    \* ctxDone[s]: clientCtx has been cancelled
    rootDone,   \* the server's root context has been cancelled
    clients,    \* ClientRegistry.clients
    writers,    \* ControlConnRegistry.writers
    tunnels,    \* Manager.tunnels: owner of each TCP tunnel, or NoSession
    byClient,   \* Manager.byClient
    listener,   \* listener[t]: the public listener of tunnel t
    served,     \* served[t]: session whose StartPublicListener goroutine runs
    routes,     \* Manager.httpTunnels / httpsTunnels: owner of each slot
    hostsOf,    \* Manager.httpByClient / httpsByClient
    req         \* req[r]: progress of one proxied connection

sessVars   == <<phase, conn, ctxDone, rootDone>>
regVars    == <<clients, writers>>
tcpVars    == <<tunnels, byClient, listener, served>>
httpVars   == <<routes, hostsOf>>
vars       == <<sessVars, regVars, tcpVars, httpVars, req>>

IdleReq == [st |-> "idle", key |-> CHOOSE k \in Keys : TRUE, owner |-> NoSession]

\* A proxied connection that found a route holds the session it leads to.
ReqType == {IdleReq} \cup [st : {"found", "ready"}, key : Keys, owner : Sessions]

\* Types of the tables and program counters.
TypeOK ==
    /\ phase \in [Sessions -> Phases]
    /\ conn \in [Sessions -> {"none", "open", "broken", "closed"}]
    /\ ctxDone \in [Sessions -> BOOLEAN]
    /\ rootDone \in BOOLEAN
    /\ clients \subseteq Sessions
    /\ writers \subseteq Sessions
    /\ tunnels \in [TunnelIDs -> Sessions \cup {NoSession}]
    /\ byClient \in [Sessions -> SUBSET TunnelIDs]
    /\ listener \in [TunnelIDs -> [st : {"none", "open", "closed"}, port : Ports \cup {AnyPort}]]
    /\ served \in [TunnelIDs -> Sessions \cup {NoSession}]
    /\ routes \in [Keys -> Sessions \cup {NoSession}]
    /\ hostsOf \in [Sessions -> SUBSET Keys]
    /\ req \in [Requests -> ReqType]

Init ==
    /\ phase = [s \in Sessions |-> "idle"]
    /\ conn = [s \in Sessions |-> "none"]
    /\ ctxDone = [s \in Sessions |-> FALSE]
    /\ rootDone = FALSE
    /\ clients = {}
    /\ writers = {}
    /\ tunnels = [t \in TunnelIDs |-> NoSession]
    /\ byClient = [s \in Sessions |-> {}]
    /\ listener = [t \in TunnelIDs |-> [st |-> "none", port |-> AnyPort]]
    /\ served = [t \in TunnelIDs |-> NoSession]
    /\ routes = [k \in Keys |-> NoSession]
    /\ hostsOf = [s \in Sessions |-> {}]
    /\ req = [r \in Requests |-> IdleReq]

InLoop(s) == phase[s] \in Serving

Goto(s, p) == phase' = [phase EXCEPT ![s] = p]

\* A write to a connection this side closed fails; to one the peer dropped it
\* may fail or be swallowed by the kernel.
WriteReturns(s, ok) == CASE conn[s] = "open"   -> ok
                         [] conn[s] = "broken" -> ok \in BOOLEAN
                         [] OTHER              -> ~ok

-----------------------------------------------------------------------------
(* The session goroutine: HandleControlConn after a successful handshake.  *)

\* reg.Register with a fresh client ID, under a context derived from the root.
Register(s) ==
    /\ phase[s] = "idle"
    /\ Goto(s, "registered")
    /\ conn' = [conn EXCEPT ![s] = "open"]
    /\ ctxDone' = [ctxDone EXCEPT ![s] = rootDone]
    /\ clients' = clients \cup {s}
    /\ UNCHANGED <<rootDone, writers, tcpVars, httpVars, req>>

\* conn.SetDeadline failed: an admin disconnect closed the connection already.
RegisterAbort(s) ==
    /\ phase[s] = "registered"
    /\ conn[s] = "closed"
    /\ clients' = clients \ {s}
    /\ ctxDone' = [ctxDone EXCEPT ![s] = TRUE]
    /\ Goto(s, "closeConn")
    /\ UNCHANGED <<conn, rootDone, writers, tcpVars, httpVars, req>>

\* The deadline is cleared; ccReg.Register; the message loop starts.
EnterLoop(s) ==
    /\ phase[s] = "registered"
    /\ conn[s] # "closed"
    /\ writers' = writers \cup {s}
    /\ Goto(s, "top")
    /\ UNCHANGED <<conn, ctxDone, rootDone, clients, tcpVars, httpVars, req>>

\* Top of the loop: leave if clientCtx is done, otherwise block in ReadMessage.
LoopTop_IgnoreCtx(s) ==
    /\ phase[s] = "top"
    /\ Goto(s, "read")
    /\ UNCHANGED <<conn, ctxDone, rootDone, regVars, tcpVars, httpVars, req>>
LoopTop(s) ==
    /\ phase[s] = "top"
    /\ Goto(s, IF ctxDone[s] THEN "rmTCP" ELSE "read")
    /\ UNCHANGED <<conn, ctxDone, rootDone, regVars, tcpVars, httpVars, req>>

\* ReadMessage fails (EOF, reset, closed by the admin API, or the 45 s read
\* deadline): the handler returns.
LeaveLoop(s) ==
    /\ phase[s] = "read"
    /\ Goto(s, "rmTCP")
    /\ UNCHANGED <<conn, ctxDone, rootDone, regVars, tcpVars, httpVars, req>>

\* A message arrived, and its handling leads to p: a connection this side
\* closed delivers none.
Received(s, p) ==
    /\ phase[s] = "read"
    /\ conn[s] # "closed"
    /\ Goto(s, p)

OpenPorts == {listener[t].port : t \in {u \in TunnelIDs : listener[u].st = "open"}}

\* net.Listen fails: the requested port is taken.  An error reply, no state.
RequestTunnelRefused(s, want) ==
    /\ Received(s, "reply")
    /\ want \in OpenPorts
    /\ UNCHANGED <<conn, ctxDone, rootDone, regVars, tcpVars, httpVars, req>>

\* handleRequestTunnel: listen, AddTunnel, and into the write of the reply.
RequestTunnel(s, want, t, p) ==
    /\ Received(s, "replyTCP")
    /\ tunnels[t] = NoSession /\ listener[t].st = "none"
    /\ want \in {AnyPort, p}
    /\ p \notin OpenPorts
    /\ tunnels' = [tunnels EXCEPT ![t] = s]
    /\ byClient' = [byClient EXCEPT ![s] = @ \cup {t}]
    /\ listener' = [listener EXCEPT ![t] = [st |-> "open", port |-> p]]
    /\ UNCHANGED <<conn, ctxDone, rootDone, regVars, served, httpVars, req>>

\* The write of the TunnelResp returns: the accept goroutine starts, or the
\* listener is closed and the entry stays.
TunnelReplied(s, t, ok) ==
    /\ phase[s] = "replyTCP"
    /\ tunnels[t] = s /\ listener[t].st = "open" /\ served[t] = NoSession
    /\ WriteReturns(s, ok)
    /\ listener' = [listener EXCEPT ![t].st = IF ok THEN "open" ELSE "closed"]
    /\ served' = [served EXCEPT ![t] = IF ok THEN s ELSE NoSession]
    /\ Goto(s, "top")
    /\ UNCHANGED <<conn, ctxDone, rootDone, regVars, tunnels, byClient, httpVars, req>>

\* Any other write returns; its result is logged or dropped.
ReplyWritten(s) ==
    /\ \/ phase[s] = "reply" /\ Goto(s, "top")
       \/ phase[s] = "ack" /\ Goto(s, "rmTCP")
    /\ UNCHANGED <<conn, ctxDone, rootDone, regVars, tcpVars, httpVars, req>>

\* Manager.AddHTTPTunnel and AddHTTPSTunnel, k being the slot of their table.
AddHTTPTunnel_AnyOwner(s, k) ==
    /\ routes' = [routes EXCEPT ![k] = s]
    /\ hostsOf' = [hostsOf EXCEPT ![s] = @ \cup {k}]
AddHTTPTunnel_Untracked(s, k) ==
    IF routes[k] \in {NoSession, s}
    THEN /\ routes' = [routes EXCEPT ![k] = s]
         /\ UNCHANGED hostsOf
    ELSE UNCHANGED <<routes, hostsOf>>
AddHTTPTunnel(s, k) ==
    IF routes[k] \in {NoSession, s}
    THEN /\ routes' = [routes EXCEPT ![k] = s]
         /\ hostsOf' = [hostsOf EXCEPT ![s] = @ \cup {k}]
    ELSE UNCHANGED <<routes, hostsOf>>

\* handleHTTPTunnelRequest: the error of AddHTTPTunnel is dropped and the
\* reply says "ok" in every case; the result of the write is dropped too.
RequestHTTPTunnel(s, k) ==
    /\ Received(s, "reply")
    /\ AddHTTPTunnel(s, k)
    /\ UNCHANGED <<conn, ctxDone, rootDone, regVars, tcpVars, req>>

\* Pong and SOCKS frames are handled without touching a table (SOCKS connects
\* only start a goroutine); an undecodable request is answered; a Disconnect is
\* acknowledged and ends the loop.
OtherMessage(s) ==
    /\ \E p \in {"top", "reply", "ack"} : Received(s, p)
    /\ UNCHANGED <<conn, ctxDone, rootDone, regVars, tcpVars, httpVars, req>>

\* A SOCKSData frame: serverMux.Deliver writes the payload into the channel's
\* pipe and blocks there until that channel's relay has taken it; the loop
\* neither reads nor looks at clientCtx meanwhile.
DeliverBlocks(s) ==
    /\ phase[s] = "read"
    /\ conn[s] # "closed"
    /\ Goto(s, "deliver")
    /\ UNCHANGED <<conn, ctxDone, rootDone, regVars, tcpVars, httpVars, req>>

\* The target accepted the bytes, or the relay ended and closed the pipe.
DeliverReturns(s) ==
    /\ phase[s] = "deliver"
    /\ Goto(s, "top")
    /\ UNCHANGED <<conn, ctxDone, rootDone, regVars, tcpVars, httpVars, req>>

-----------------------------------------------------------------------------
(* The deferred cleanup of HandleControlConn, one step per call.           *)

\* mgr.RemoveTunnelsForClient
RemoveTunnelsForClient_NoListenerClose(s) ==
    /\ phase[s] = "rmTCP"
    /\ tunnels' = [t \in TunnelIDs |-> IF t \in byClient[s] THEN NoSession ELSE tunnels[t]]
    /\ byClient' = [byClient EXCEPT ![s] = {}]
    /\ Goto(s, "rmHTTP")
    /\ UNCHANGED <<conn, ctxDone, rootDone, regVars, listener, served, httpVars, req>>
RemoveTunnelsForClient_SkipsHTTP(s) ==
    /\ phase[s] = "rmTCP"
    /\ tunnels' = [t \in TunnelIDs |-> IF t \in byClient[s] THEN NoSession ELSE tunnels[t]]
    /\ byClient' = [byClient EXCEPT ![s] = {}]
    /\ listener' = [t \in TunnelIDs |-> IF t \in byClient[s]
                                        THEN [listener[t] EXCEPT !.st = "closed"]
                                        ELSE listener[t]]
    /\ Goto(s, "deregCtrl")
    /\ UNCHANGED <<conn, ctxDone, rootDone, regVars, served, httpVars, req>>
RemoveTunnelsForClient(s) ==
    /\ phase[s] = "rmTCP"
    /\ tunnels' = [t \in TunnelIDs |-> IF t \in byClient[s] THEN NoSession ELSE tunnels[t]]
    /\ byClient' = [byClient EXCEPT ![s] = {}]
    /\ listener' = [t \in TunnelIDs |-> IF t \in byClient[s]
                                        THEN [listener[t] EXCEPT !.st = "closed"]
                                        ELSE listener[t]]
    /\ Goto(s, "rmHTTP")
    /\ UNCHANGED <<conn, ctxDone, rootDone, regVars, served, httpVars, req>>

\* mgr.RemoveHTTPTunnelsForClient: deletes the slots the client's lists name,
\* without looking at who owns them now.
RemoveHTTPTunnelsForClient(s) ==
    /\ phase[s] = "rmHTTP"
    /\ routes' = [k \in Keys |-> IF k \in hostsOf[s] THEN NoSession ELSE routes[k]]
    /\ hostsOf' = [hostsOf EXCEPT ![s] = {}]
    /\ Goto(s, "deregCtrl")
    /\ UNCHANGED <<conn, ctxDone, rootDone, regVars, tcpVars, req>>

\* ccReg.Deregister
DeregisterCtrl(s) ==
    /\ phase[s] = "deregCtrl"
    /\ writers' = writers \ {s}
    /\ Goto(s, "deregClient")
    /\ UNCHANGED <<conn, ctxDone, rootDone, clients, tcpVars, httpVars, req>>

\* reg.Deregister
DeregisterClient(s) ==
    /\ phase[s] = "deregClient"
    /\ clients' = clients \ {s}
    /\ Goto(s, "cancel")
    /\ UNCHANGED <<conn, ctxDone, rootDone, writers, tcpVars, httpVars, req>>

\* cancel()
CancelContext(s) ==
    /\ phase[s] = "cancel"
    /\ ctxDone' = [ctxDone EXCEPT ![s] = TRUE]
    /\ Goto(s, "closeConn")
    /\ UNCHANGED <<conn, rootDone, regVars, tcpVars, httpVars, req>>

\* defer conn.Close()
CloseConn(s) ==
    /\ phase[s] = "closeConn"
    /\ conn' = [conn EXCEPT ![s] = "closed"]
    /\ Goto(s, "closed")
    /\ UNCHANGED <<ctxDone, rootDone, regVars, tcpVars, httpVars, req>>

-----------------------------------------------------------------------------
(* Everybody else.                                                         *)

\* The peer or the network drops the control connection.
Break(s) ==
    /\ conn[s] = "open"
    /\ conn' = [conn EXCEPT ![s] = "broken"]
    /\ UNCHANGED <<phase, ctxDone, rootDone, regVars, tcpVars, httpVars, req>>

\* StartHeartbeat gives up on the client: client.cancelFn(), nothing else.
HeartbeatTimeout(s) ==
    /\ InLoop(s)
    /\ ~ctxDone[s]
    /\ ctxDone' = [ctxDone EXCEPT ![s] = TRUE]
    /\ UNCHANGED <<phase, conn, rootDone, regVars, tcpVars, httpVars, req>>

\* ClientRegistry.Disconnect / DisconnectByName: cancel, then close.
Disconnect(s) ==
    /\ s \in clients
    /\ conn[s] # "closed"
    /\ ctxDone' = [ctxDone EXCEPT ![s] = TRUE]
    /\ conn' = [conn EXCEPT ![s] = "closed"]
    /\ UNCHANGED <<phase, rootDone, regVars, tcpVars, httpVars, req>>

\* The root context is cancelled, and with it every clientCtx derived from it.
Shutdown ==
    /\ ~rootDone
    /\ rootDone' = TRUE
    /\ ctxDone' = [s \in Sessions |-> phase[s] # "idle" \/ ctxDone[s]]
    /\ UNCHANGED <<phase, conn, regVars, tcpVars, httpVars, req>>

\* StartPublicListener's goroutine closes the listener once clientCtx is done.
ListenerCtxClose(t) ==
    /\ served[t] # NoSession
    /\ ctxDone[served[t]]
    /\ listener[t].st = "open"
    /\ listener' = [listener EXCEPT ![t].st = "closed"]
    /\ UNCHANGED <<sessVars, regVars, tunnels, byClient, served, httpVars, req>>

\* handleHTTPConn / handleHTTPSConn: GetHTTPTunnel or GetHTTPSTunnel.
ProxyLookup_NoNilCheck(r, k) ==
    /\ req[r].st = "idle"
    /\ req' = [req EXCEPT ![r] = [st |-> "found", key |-> k, owner |-> routes[k]]]
    /\ UNCHANGED <<sessVars, regVars, tcpVars, httpVars>>
ProxyLookup(r, k) ==
    /\ req[r].st = "idle"
    /\ req' = [req EXCEPT ![r] = IF routes[k] = NoSession THEN IdleReq
                                 ELSE [st |-> "found", key |-> k, owner |-> routes[k]]]
    /\ UNCHANGED <<sessVars, regVars, tcpVars, httpVars>>

\* ctrlConns.Get(entry.ClientID): a second lock, taken later.
ProxyGetWriter(r) ==
    /\ req[r].st = "found"
    /\ req' = [req EXCEPT ![r] = IF req[r].owner \in writers THEN [req[r] EXCEPT !.st = "ready"]
                                 ELSE IdleReq]
    /\ UNCHANGED <<sessVars, regVars, tcpVars, httpVars>>

\* RegisterPending and clientConn.Write(OpenConnection), whose outcome is the
\* matter of PendingConn: the handler is done with the tables.
ProxySend(r) ==
    /\ req[r].st = "ready"
    /\ req' = [req EXCEPT ![r] = IdleReq]
    /\ UNCHANGED <<sessVars, regVars, tcpVars, httpVars>>

-----------------------------------------------------------------------------
Cleanup(s) ==
    \/ RemoveTunnelsForClient(s)
    \/ RemoveHTTPTunnelsForClient(s)
    \/ DeregisterCtrl(s)
    \/ DeregisterClient(s)
    \/ CancelContext(s)
    \/ CloseConn(s)

SessionStep(s) ==
    \/ RegisterAbort(s)
    \/ EnterLoop(s)
    \/ LoopTop(s)
    \/ LeaveLoop(s)
    \/ \E want \in Ports : RequestTunnelRefused(s, want)
    \/ \E want \in Ports \cup {AnyPort}, t \in TunnelIDs, p \in Ports : RequestTunnel(s, want, t, p)
    \/ \E k \in Keys : RequestHTTPTunnel(s, k)
    \/ OtherMessage(s)
    \/ DeliverBlocks(s)
    \/ Cleanup(s)

Written(s) ==
    \/ \E t \in TunnelIDs, ok \in BOOLEAN : TunnelReplied(s, t, ok)
    \/ ReplyWritten(s)

Environment(s) ==
    Register(s) \/ Break(s) \/ HeartbeatTimeout(s) \/ Disconnect(s) \/ DeliverReturns(s)

ProxyStep(r) ==
    \/ \E k \in Keys : ProxyLookup(r, k)
    \/ ProxyGetWriter(r)
    \/ ProxySend(r)

Next ==
    \/ \E s \in Sessions : SessionStep(s) \/ Written(s) \/ Environment(s)
    \/ Shutdown
    \/ \E t \in TunnelIDs : ListenerCtxClose(t)
    \/ \E r \in Requests : ProxyStep(r)

Spec == Init /\ [][Next]_vars

\* A goroutine that can run does run; a blocked ReadMessage returns, because
\* the loop arms a 45 s read deadline before every read.  Nothing bounds the
\* time a Deliver waits for a target that does not read, nor the time a write
\* waits for a client that keeps its connection and does not read: no fairness
\* for them.  A write to a connection that is closed, or whose peer is gone
\* (then the kernel gives up), returns.
Fairness ==
    \A s \in Sessions :
        /\ WF_vars(SessionStep(s))
        /\ WF_vars(conn[s] # "open" /\ Written(s))

FairSpec == Spec /\ Fairness

-----------------------------------------------------------------------------
(* Properties.                                                             *)

\* The owner recorded in a routing slot and the per-client lists are two views
\* of one relation: RemoveHTTPTunnelsForClient deletes by list without checking
\* the owner, so a host in a list that someone else owns would be torn down
\* with the wrong client, and a slot in nobody's list would never be freed.
RoutesMatchLists ==
    \A s \in Sessions, k \in Keys : routes[k] = s <=> k \in hostsOf[s]

\* A slot is owned only by a session that the HTTP proxy can still reach: it is
\* in ControlConnRegistry and ClientRegistry and its cleanup has not passed
\* RemoveHTTPTunnelsForClient.  The order of the deferred calls ensures it.
RouteOwnerReachable ==
    \A k \in Keys : routes[k] # NoSession =>
        /\ routes[k] \in writers \cap clients
        /\ phase[routes[k]] \in Serving \cup {"rmTCP", "rmHTTP"}

\* A routing decision taken by the proxy does not go stale while the chosen
\* session is serving: between GetHTTPTunnel and the OpenConnection write the
\* host may be freed only by that session's own cleanup.
LookupFreshWhileServing ==
    \A r \in Requests :
        /\ req[r].st \in {"found", "ready"}
        /\ InLoop(req[r].owner)
        => routes[req[r].key] = req[r].owner

\* Every listening public port is known to the table its session's cleanup
\* walks, whatever failed in handleRequestTunnel: none can outlive its session.
OpenListenersTracked ==
    \A t \in TunnelIDs : listener[t].st = "open" =>
        /\ tunnels[t] # NoSession
        /\ t \in byClient[tunnels[t]]
        /\ phase[tunnels[t]] \in Serving \cup {"rmTCP"}

\* No table of the server mentions session s any more.
Forgotten(s) ==
    /\ s \notin clients \cup writers
    /\ \A k \in Keys : routes[k] # s
    /\ \A t \in TunnelIDs : tunnels[t] # s
    /\ conn[s] = "closed"

\* A slot held by a session that is serving is never taken over or dropped.
NoRouteTakeover ==
    [][\A k \in Keys : routes[k] # NoSession /\ InLoop(routes[k]) => routes'[k] = routes[k]]_vars

\* The loop waits for somebody outside the server: the target of a SOCKS
\* channel that does not read, or the client.
HeldUp(s) == phase[s] = "deliver" \/ (phase[s] \in Writing /\ conn[s] = "open")

\* A session whose context is cancelled (heartbeat, admin, shutdown) ends up in
\* no table and with its connection closed, unless its loop is held up for ever
\* in a Deliver or in a write to a client that does not read: neither looks at
\* the context, and cancelling (unlike an admin disconnect) leaves the
\* connection open.
CancelledIsForgotten ==
    \A s \in Sessions :
        \/ <>[]HeldUp(s)
        \/ (ctxDone[s] /\ phase[s] # "idle") ~> Forgotten(s)
=============================================================================
