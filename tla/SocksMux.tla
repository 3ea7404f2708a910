------------------------------ MODULE SocksMux ------------------------------
(***************************************************************************)
(* SOCKS5, HTTP CONNECT and port-forward connections multiplexed over one  *)
(* control connection:                                                     *)
(*   internal/tunnel/socks_mux.go    SOCKSMux                              *)
(*   internal/tunnel/relay_mux.go    RelayMuxChannel, run on both sides    *)
(*   internal/socks/client.go, httpconnect.go, portforward.go              *)
(*                                   the client's connection handlers      *)
(*   internal/control/handler.go     handleServerSOCKSConnect and the      *)
(*                                   server's message loop                 *)
(*   internal/client/handler.go      the client's message loop             *)
(*                                                                         *)
(* The local endpoint of a channel is the user on the client side and the  *)
(* dialled target on the server side.  Deliver writes into an io.Pipe, so  *)
(* the message loop stands still until goroutine B has taken the payload.  *)
(***************************************************************************)
EXTENDS Integers, Sequences, FiniteSets

CONSTANTS
    Chans,     \* connIDs (uuids) of multiplexed connections
    MaxData    \* bound: payloads one endpoint sends on one channel

ASSUME MaxDataAssumption == MaxData \in Nat

NoChan == "none"
ASSUME ChansAssumption == NoChan \notin Chans

Sides == {"client", "server"}
Other(s) == IF s = "client" THEN "server" ELSE "client"

VARIABLES
    link,    \* link[s]: control messages on their way to side s
    up,      \* the control connection works
    loop,    \* loop[s]: message loop: "run", "deliver", "closeAll", "close", "over"
    dl,      \* dl[s]: channel whose pipe the loop is writing to while "deliver"
    mux,     \* mux[s]: channels registered in the SOCKSMux of side s
    wg,      \* wg[s]: SOCKSMux.wg
    torn,    \* torn[s][c]: channel closed: done closed, pipe at EOF
    readyCh, \* readyCh[c]: the client's ReadyCh: "none", "ok", "fail"
    pc,      \* pc[s][c]: the goroutine that handles c on side s
    relayA,  \* relayA[s][c]: local reader and mux writer: "off", "run", "done"
    relayB,  \* relayB[s][c]: pipe to local endpoint: "off", "run", "done"
    local,   \* local[s][c]: the local endpoint: "open", "half" (it sent FIN), "gone"
    sent,    \* sent[s][c]: payloads read from the local endpoint
    got      \* got[s][c]: payloads written to the local endpoint

muxVars   == <<mux, wg, torn>>
relayVars == <<relayA, relayB, local, sent, got>>
vars      == <<link, up, loop, dl, muxVars, readyCh, pc, relayVars>>

MsgTypes == {"Connect", "ReadyOK", "ReadyFail", "Data", "Close"}
PerChan(S) == [Sides -> [Chans -> S]]

\* Types; no endpoint receives more than the bound on what the other one sends.
TypeOK ==
    /\ link \in [Sides -> Seq([type : MsgTypes, conn : Chans])]
    /\ up \in BOOLEAN
    /\ loop \in [Sides -> {"run", "deliver", "closeAll", "close", "over"}]
    /\ dl \in [Sides -> Chans \cup {NoChan}]
    /\ mux \in [Sides -> SUBSET Chans]
    /\ wg \in [Sides -> Int]
    /\ torn \in PerChan(BOOLEAN)
    /\ readyCh \in [Chans -> {"none", "ok", "fail"}]
    /\ pc \in PerChan({"idle", "spawned", "dialing", "waiting", "relay", "done"})
    /\ relayA \in PerChan({"off", "run", "done"})
    /\ relayB \in PerChan({"off", "run", "done"})
    /\ local \in PerChan({"open", "half", "gone"})
    /\ sent \in PerChan(0..MaxData)
    /\ got \in PerChan(0..MaxData)

Init ==
    /\ link = [s \in Sides |-> <<>>]
    /\ up = TRUE
    /\ loop = [s \in Sides |-> "run"]
    /\ dl = [s \in Sides |-> NoChan]
    /\ mux = [s \in Sides |-> {}]
    /\ wg = [s \in Sides |-> 0]
    /\ torn = [s \in Sides |-> [c \in Chans |-> FALSE]]
    /\ readyCh = [c \in Chans |-> "none"]
    /\ pc = [s \in Sides |-> [c \in Chans |-> "idle"]]
    /\ relayA = [s \in Sides |-> [c \in Chans |-> "off"]]
    /\ relayB = [s \in Sides |-> [c \in Chans |-> "off"]]
    /\ local = [s \in Sides |-> [c \in Chans |-> "open"]]
    /\ sent = [s \in Sides |-> [c \in Chans |-> 0]]
    /\ got = [s \in Sides |-> [c \in Chans |-> 0]]

Goto(s, c, p) == pc' = [pc EXCEPT ![s][c] = p]

\* A control message: a broken connection swallows it or fails the write.
Send(s, t, c) ==
    link' = IF up THEN [link EXCEPT ![Other(s)] = Append(@, [type |-> t, conn |-> c])] ELSE link

-----------------------------------------------------------------------------
(* SOCKSMux.                                                               *)

NewChannel(s, c) ==
    /\ mux' = [mux EXCEPT ![s] = @ \cup {c}]
    /\ wg' = [wg EXCEPT ![s] = @ + 1]
    /\ UNCHANGED torn

\* Remove and DeliverClose: delete under the lock, then close, once.
Remove_AlwaysDone(s, c) ==
    /\ mux' = [mux EXCEPT ![s] = @ \ {c}]
    /\ wg' = [wg EXCEPT ![s] = @ - 1]
    /\ torn' = [torn EXCEPT ![s][c] = @ \/ c \in mux[s]]
Remove(s, c) ==
    /\ mux' = [mux EXCEPT ![s] = @ \ {c}]
    /\ wg' = [wg EXCEPT ![s] = IF c \in mux[s] THEN @ - 1 ELSE @]
    /\ torn' = [torn EXCEPT ![s][c] = @ \/ c \in mux[s]]

CloseAll(s) ==
    /\ mux' = [mux EXCEPT ![s] = {}]
    /\ wg' = [wg EXCEPT ![s] = @ - Cardinality(mux[s])]
    /\ torn' = [torn EXCEPT ![s] = [c \in Chans |-> @[c] \/ c \in mux[s]]]

-----------------------------------------------------------------------------
(* The client's handler of one local connection.                           *)

\* pool.Pick, NewChannel, WriteMsg(SOCKSConnect).  A session stays in the pool
\* until its teardown is over, so a dying one can still be picked.
ClientConnect(c) ==
    /\ pc["client"][c] = "idle"
    /\ loop["client"] # "over"
    /\ NewChannel("client", c)
    /\ Send("client", "Connect", c)
    /\ Goto("client", c, "waiting")
    /\ UNCHANGED <<up, loop, dl, readyCh, relayVars>>

\* No session in the pool, or SOCKSConnect cannot be written: rejected.
ClientReject(c) ==
    /\ pc["client"][c] = "idle"
    /\ loop["client"] = "over" \/ ~up
    /\ Goto("client", c, "done")
    /\ UNCHANGED <<link, up, loop, dl, muxVars, readyCh, relayVars>>

StartRelay(s, c) ==
    /\ Goto(s, c, "relay")
    /\ relayA' = [relayA EXCEPT ![s][c] = "run"]
    /\ relayB' = [relayB EXCEPT ![s][c] = "run"]

\* The select took ReadyCh and the dial had succeeded.
ClientReady(c) ==
    /\ pc["client"][c] = "waiting"
    /\ readyCh[c] = "ok"
    /\ StartRelay("client", c)
    /\ readyCh' = [readyCh EXCEPT ![c] = "none"]
    /\ UNCHANGED <<link, up, loop, dl, muxVars, local, sent, got>>

\* The select took ch.Done, ctx.Done, the 30 s timer, or a failed result: the
\* deferred Remove runs and the server is told nothing.
ClientGiveUp(c) ==
    /\ pc["client"][c] = "waiting"
    /\ Remove("client", c)
    /\ Goto("client", c, "done")
    /\ UNCHANGED <<link, up, loop, dl, readyCh, relayVars>>

\* HTTP CONNECT only: the user is gone before "200" could be written.
ClientAbort(c) ==
    /\ pc["client"][c] = "waiting"
    /\ readyCh[c] = "ok"
    /\ Send("client", "Close", c)
    /\ Remove("client", c)
    /\ Goto("client", c, "done")
    /\ UNCHANGED <<up, loop, dl, readyCh, relayVars>>

-----------------------------------------------------------------------------
(* The server's goroutine for one SOCKSConnect.                            *)

\* protocol.ValidateTarget fails.
ServerRefuse(c) ==
    /\ pc["server"][c] = "spawned"
    /\ Send("server", "ReadyFail", c)
    /\ Goto("server", c, "done")
    /\ UNCHANGED <<up, loop, dl, muxVars, readyCh, relayVars>>

\* mux.NewChannel, then DialContext.
ServerDial(c) ==
    /\ pc["server"][c] = "spawned"
    /\ NewChannel("server", c)
    /\ Goto("server", c, "dialing")
    /\ UNCHANGED <<link, up, loop, dl, readyCh, relayVars>>

\* The target answered: SOCKSReady is written and the relay starts.  Once the
\* session is over its context is cancelled and its connection closed.
ServerDialed(c) ==
    /\ pc["server"][c] = "dialing"
    /\ loop["server"] # "over"
    /\ Send("server", "ReadyOK", c)
    /\ StartRelay("server", c)
    /\ UNCHANGED <<up, loop, dl, muxVars, readyCh, local, sent, got>>

\* The dial fails, meets its 15 s timeout or the context, or SOCKSReady cannot
\* be written: the deferred Remove runs.
ServerDialFails(c) ==
    /\ pc["server"][c] = "dialing"
    /\ Send("server", "ReadyFail", c)
    /\ Remove("server", c)
    /\ Goto("server", c, "done")
    /\ UNCHANGED <<up, loop, dl, readyCh, relayVars>>

-----------------------------------------------------------------------------
(* RelayMuxChannel, the same code on both sides.                           *)

\* Goroutine A reads a payload, the mux writer frames it; a failed write makes
\* the writer drain and drop what follows.
ReadLocal(s, c) ==
    /\ relayA[s][c] = "run"
    /\ local[s][c] = "open"
    /\ sent[s][c] < MaxData
    /\ sent' = [sent EXCEPT ![s][c] = @ + 1]
    /\ Send(s, "Data", c)
    /\ UNCHANGED <<up, loop, dl, muxVars, readyCh, pc, relayA, relayB, local, got>>

\* EOF or an error from the local endpoint, everything framed: closeMsg goes out.
FinishA_NoClose(s, c) ==
    /\ relayA[s][c] = "run"
    /\ local[s][c] # "open"
    /\ relayA' = [relayA EXCEPT ![s][c] = "done"]
    /\ UNCHANGED <<link, up, loop, dl, muxVars, readyCh, pc, relayB, local, sent, got>>
FinishA(s, c) ==
    /\ relayA[s][c] = "run"
    /\ local[s][c] # "open"
    /\ relayA' = [relayA EXCEPT ![s][c] = "done"]
    /\ Send(s, "Close", c)
    /\ UNCHANGED <<up, loop, dl, muxVars, readyCh, pc, relayB, local, sent, got>>

\* Goroutine B takes the payload the loop is writing into the pipe.
ReadPipe_Repeats(s, c) ==
    /\ relayB[s][c] = "run"
    /\ loop[s] = "deliver" /\ dl[s] = c
    /\ ~torn[s][c]
    /\ got' = [got EXCEPT ![s][c] = @ + 1]
    /\ UNCHANGED <<link, up, loop, dl, muxVars, readyCh, pc, relayA, relayB, local, sent>>
ReadPipe(s, c) ==
    /\ relayB[s][c] = "run"
    /\ loop[s] = "deliver" /\ dl[s] = c
    /\ ~torn[s][c]
    /\ got' = [got EXCEPT ![s][c] = @ + 1]
    /\ loop' = [loop EXCEPT ![s] = "run"]
    /\ dl' = [dl EXCEPT ![s] = NoChan]
    /\ UNCHANGED <<link, up, muxVars, readyCh, pc, relayA, relayB, local, sent>>

\* Goroutine B sees EOF on the pipe.
FinishB(s, c) ==
    /\ relayB[s][c] = "run"
    /\ torn[s][c]
    /\ relayB' = [relayB EXCEPT ![s][c] = "done"]
    /\ UNCHANGED <<link, up, loop, dl, muxVars, readyCh, pc, relayA, local, sent, got>>

\* Goroutine B takes a payload that the reset endpoint no longer accepts: its
\* io.Copy ends, and nobody reads the pipe until the channel is removed.
WriteLocalFails(s, c) ==
    /\ relayB[s][c] = "run"
    /\ loop[s] = "deliver" /\ dl[s] = c
    /\ ~torn[s][c]
    /\ local[s][c] = "gone"
    /\ relayB' = [relayB EXCEPT ![s][c] = "done"]
    /\ UNCHANGED <<link, up, loop, dl, muxVars, readyCh, pc, relayA, local, sent, got>>

\* Both are done: the relay returns, Remove, the local connection is closed.
FinishRelay(s, c) ==
    /\ pc[s][c] = "relay"
    /\ relayA[s][c] = "done" /\ relayB[s][c] = "done"
    /\ Remove(s, c)
    /\ Goto(s, c, "done")
    /\ UNCHANGED <<link, up, loop, dl, readyCh, relayVars>>

-----------------------------------------------------------------------------
(* The message loops.                                                      *)

\* The loop reads the next message.
Head_(s, t, c) ==
    /\ loop[s] = "run"
    /\ link[s] # <<>>
    /\ Head(link[s]) = [type |-> t, conn |-> c]
    /\ link' = [link EXCEPT ![s] = Tail(@)]

OnConnect(c) ==
    /\ Head_("server", "Connect", c)
    /\ Goto("server", c, "spawned")
    /\ UNCHANGED <<up, loop, dl, muxVars, readyCh, relayVars>>

\* DeliverReady: dropped for an unknown channel, or when one is buffered.
OnReady(c, t) ==
    /\ Head_("client", t, c)
    /\ readyCh' = IF c \in mux["client"] /\ readyCh[c] = "none"
                  THEN [readyCh EXCEPT ![c] = IF t = "ReadyOK" THEN "ok" ELSE "fail"]
                  ELSE readyCh
    /\ UNCHANGED <<up, loop, dl, muxVars, pc, relayVars>>

\* Deliver: dropped for an unknown channel, otherwise the loop blocks.
OnData_Lossy(s, c) ==
    /\ Head_(s, "Data", c)
    /\ IF c \in mux[s] /\ relayB[s][c] = "run"
       THEN /\ loop' = [loop EXCEPT ![s] = "deliver"]
            /\ dl' = [dl EXCEPT ![s] = c]
       ELSE UNCHANGED <<loop, dl>>
    /\ UNCHANGED <<up, muxVars, readyCh, pc, relayVars>>
OnData(s, c) ==
    /\ Head_(s, "Data", c)
    /\ IF c \in mux[s]
       THEN /\ loop' = [loop EXCEPT ![s] = "deliver"]
            /\ dl' = [dl EXCEPT ![s] = c]
       ELSE UNCHANGED <<loop, dl>>
    /\ UNCHANGED <<up, muxVars, readyCh, pc, relayVars>>

\* The pipe was closed under the blocked Deliver: it returns an error.
DeliverFails(s) ==
    /\ loop[s] = "deliver"
    /\ torn[s][dl[s]]
    /\ loop' = [loop EXCEPT ![s] = "run"]
    /\ dl' = [dl EXCEPT ![s] = NoChan]
    /\ UNCHANGED <<link, up, muxVars, readyCh, pc, relayVars>>

\* DeliverClose
OnClose(s, c) ==
    /\ Head_(s, "Close", c)
    /\ Remove(s, c)
    /\ UNCHANGED <<up, loop, dl, readyCh, pc, relayVars>>

\* The loop returns from a connection that may still work, whatever is queued on
\* it: ctx is done (shutdown, heartbeat), a Disconnect arrived, or a Pong cannot
\* be written.
LoopLeaves(s) ==
    /\ loop[s] = "run"
    /\ loop' = [loop EXCEPT ![s] = "closeAll"]
    /\ UNCHANGED <<link, up, dl, muxVars, readyCh, pc, relayVars>>

\* ReadMessage fails.
LoopEnds(s) == ~up /\ LoopLeaves(s)

\* mux.CloseAll
Teardown(s) ==
    /\ loop[s] = "closeAll"
    /\ CloseAll(s)
    /\ loop' = [loop EXCEPT ![s] = "close"]
    /\ UNCHANGED <<link, up, dl, readyCh, pc, relayVars>>

\* conn.Close, for both sides; the client removes the session from its pool.
ConnCloses(s) ==
    /\ loop[s] = "close"
    /\ loop' = [loop EXCEPT ![s] = "over"]
    /\ up' = FALSE
    /\ link' = [link EXCEPT ![s] = <<>>]
    /\ UNCHANGED <<dl, muxVars, readyCh, pc, relayVars>>

-----------------------------------------------------------------------------
(* The environment.                                                        *)

LinkBreaks ==
    /\ up
    /\ up' = FALSE
    /\ UNCHANGED <<link, loop, dl, muxVars, readyCh, pc, relayVars>>

\* The user or the target half-closes or resets its connection.
LocalCloses(s, c, how) ==
    /\ pc[s][c] \in {"waiting", "relay"}
    /\ local[s][c] # "gone" /\ local[s][c] # how
    /\ local' = [local EXCEPT ![s][c] = how]
    /\ UNCHANGED <<link, up, loop, dl, muxVars, readyCh, pc, relayA, relayB, sent, got>>

-----------------------------------------------------------------------------
ClientHandler(c) ==
    \/ ClientReady(c)
    \/ ClientGiveUp(c)
    \/ ClientAbort(c)

ServerHandler(c) ==
    \/ ServerRefuse(c)
    \/ ServerDial(c)
    \/ ServerDialed(c)
    \/ ServerDialFails(c)

Relay(s, c) ==
    \/ FinishA(s, c)
    \/ FinishB(s, c)
    \/ FinishRelay(s, c)

TakePayload(s, c) == ReadPipe(s, c) \/ WriteLocalFails(s, c)

MessageLoop(s) ==
    \/ \E c \in Chans :
        \/ s = "server" /\ OnConnect(c)
        \/ s = "client" /\ \E t \in {"ReadyOK", "ReadyFail"} : OnReady(c, t)
        \/ OnData(s, c)
        \/ OnClose(s, c)
    \/ DeliverFails(s)
    \/ LoopEnds(s)
    \/ Teardown(s)
    \/ ConnCloses(s)

Next ==
    \/ \E c \in Chans :
        \/ ClientConnect(c) \/ ClientReject(c)
        \/ ClientHandler(c) \/ ServerHandler(c)
        \/ \E s \in Sides :
            \/ Relay(s, c) \/ ReadLocal(s, c) \/ TakePayload(s, c)
            \/ \E how \in {"half", "gone"} : LocalCloses(s, c, how)
    \/ \E s \in Sides : MessageLoop(s) \/ LoopLeaves(s)
    \/ LinkBreaks

Spec == Init /\ [][Next]_vars

\* Goroutines that can run do run; a local endpoint that is sent data reads it.
\* Nothing makes an endpoint send data, close, the connection break, or a loop
\* leave a working one.
Fairness ==
    /\ \A c \in Chans :
        /\ WF_vars(ClientHandler(c))
        /\ WF_vars(ServerHandler(c))
        /\ \A s \in Sides : WF_vars(Relay(s, c)) /\ WF_vars(TakePayload(s, c))
    /\ \A s \in Sides : WF_vars(MessageLoop(s))

FairSpec == Spec /\ Fairness

-----------------------------------------------------------------------------
(* Properties.                                                             *)

\* The WaitGroup of a mux counts exactly its registered channels, whichever of
\* Remove, DeliverClose and CloseAll raced for them: it never goes negative
\* (which panics) and DrainAndClose waits for exactly what is open.
WaitGroupBalanced ==
    \A s \in Sides : wg[s] = Cardinality(mux[s])

\* The message loop of side s has not left.
Serving(s) == loop[s] \in {"run", "deliver"}

\* Half-close loses nothing: when the last byte of one endpoint has been framed
\* and the other side's goroutine B has ended, every payload has reached the other
\* endpoint, as long as the connection works, the receiving side's loop has not
\* left it, and that endpoint was not reset.  A loop that leaves (ctx done,
\* Disconnect) runs CloseAll with payloads and Closes still queued: they are lost,
\* but no channel of a session that goes on loses any.
NoLossOnHalfClose ==
    \A s \in Sides, c \in Chans :
        /\ up /\ Serving(s)
        /\ relayB[s][c] = "done" /\ relayA[Other(s)][c] = "done"
        /\ local[s][c] # "gone"
        => got[s][c] = sent[Other(s)][c]

\* A finished handler leaves no channel behind in the mux of its side.
FinishedIsUnregistered ==
    \A s \in Sides, c \in Chans : pc[s][c] = "done" => c \notin mux[s]

\* The channel table of each side is exact: the WaitGroup counts what is in it,
\* and nothing is in it whose handler has ended.
ChannelInv == TypeOK /\ WaitGroupBalanced /\ FinishedIsUnregistered

\* Payloads of side s for channel c that have left the other endpoint and not
\* reached this one.
Positions(q, m) == {i \in DOMAIN q : q[i] = m}
InFlight(s, c) ==
    Cardinality(Positions(link[s], [type |-> "Data", conn |-> c]))
        + (IF dl[s] = c THEN 1 ELSE 0)

\* Backpressure instead of loss: as long as a channel is registered, each payload
\* the other endpoint sent is either on the control connection, in the blocked
\* Deliver, or written exactly once to the local endpoint.  It holds before the
\* client has seen SOCKSReady too, when nobody reads the pipe yet.
PayloadsConserved ==
    \A s \in Sides, c \in Chans :
        /\ up
        /\ c \in mux[s]
        /\ local[s][c] # "gone"
        => sent[Other(s)][c] = got[s][c] + InFlight(s, c)

\* Once the client relays, both endpoints closing ends both handlers, whether
\* the control connection survives or not, unless the server's handler registered
\* its channel after the CloseAll of its session: nobody closes the pipe of that
\* one any more, and its relay waits for ever.
BothClosedEndsRelay ==
    \A c \in Chans :
        (pc["client"][c] = "relay" /\ \A s \in Sides : local[s][c] # "open")
            ~> (/\ pc["client"][c] = "done"
                /\ \/ pc["server"][c] = "done"
                   \/ c \in mux["server"] /\ loop["server"] \in {"close", "over"})
=============================================================================
