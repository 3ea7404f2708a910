---------------------------- MODULE PendingConn ----------------------------
(***************************************************************************)
(* How an external user's connection meets the data connection the client  *)
(* dials back:                                                             *)
(*   internal/tunnel/manager.go     RegisterPending, FulfillPending,       *)
(*                                  CancelPending, WaitReady               *)
(*   internal/tunnel/server.go      StartPublicListener, relayExternalConn,*)
(*                                  handleDataConn                         *)
(*   internal/tunnel/http_proxy.go, https_proxy.go  the same, with a       *)
(*                                  timeout and the root context           *)
(*   internal/tunnel/client.go      handleOpenConnAsync                    *)
(*                                                                         *)
(* One control session serves the connections.  A TCP connection waits     *)
(* under that session's context, an HTTP or HTTPS one under the server's   *)
(* root context and for at most 15 s.  FulfillPending deletes the map      *)
(* entry under the lock and hands the connection over after unlocking, so  *)
(* it is two steps here.                                                   *)
(***************************************************************************)
EXTENDS Naturals

CONSTANTS
    Conns,      \* external connections, identified by connID (uuid)
    DataConns,  \* connections accepted by the data listener
    NoData,     \* nil dataConn
    NoToken     \* the empty data token (the RNG failed)

ASSUME NoDataAssumption == NoData \notin DataConns
ASSUME NoTokenAssumption == NoToken \notin Conns

VARIABLES
    pc,        \* pc[x]: the goroutine serving x on the server
    kind,      \* kind[x]: "tcp" (public listener) or "proxy" (HTTP, HTTPS)
    ext,       \* ext[x]: the user's connection
    token,     \* token[x]: pendingConn.dataToken; x stands for its 256 bits
    pending,   \* keys of Manager.pending
    ready,     \* ready[x]: pendingConn.ready is closed
    dataConn,  \* dataConn[x]: pendingConn.dataConn
    closers,   \* closers[x]: how many calls reached closeOnce.Do
    data,      \* data[d]: a data connection and the hello it sent
    open,      \* OpenConnection messages on their way to the client
    listening, \* which of the two kinds of listener still accept
    ctrlUp,    \* the control connection still works
    sessDone,  \* clientCtx is done
    rootDone   \* the server's root context is done

connVars == <<pc, kind, ext, token>>
mgrVars  == <<pending, ready, dataConn, closers>>
envVars  == <<listening, ctrlUp, sessDone, rootDone>>
vars     == <<connVars, mgrVars, data, open, envVars>>

NoConn == NoToken   \* no hello read yet
Tokens == Conns \cup {NoToken}
Kinds  == {"tcp", "proxy"}

\* Types; a data connection has named an external one as soon as it has spoken.
TypeOK ==
    /\ pc \in [Conns -> {"idle", "registered", "waiting", "relaying", "done"}]
    /\ kind \in [Conns -> Kinds]
    /\ ext \in [Conns -> {"none", "open", "closed"}]
    /\ token \in [Conns -> Tokens]
    /\ pending \subseteq Conns
    /\ ready \in [Conns -> BOOLEAN]
    /\ dataConn \in [Conns -> DataConns \cup {NoData}]
    /\ closers \in [Conns -> Nat]
    /\ data \in [DataConns -> [st : {"none", "hello", "taken", "given", "closed"},
                               conn : Conns \cup {NoConn}, tok : Tokens]]
    /\ \A d \in DataConns : data[d].st = "none" <=> data[d].conn = NoConn
    /\ open \subseteq Conns
    /\ listening \subseteq Kinds
    /\ ctrlUp \in BOOLEAN /\ sessDone \in BOOLEAN /\ rootDone \in BOOLEAN

Init ==
    /\ pc = [x \in Conns |-> "idle"]
    /\ kind = [x \in Conns |-> "tcp"]
    /\ ext = [x \in Conns |-> "none"]
    /\ token = [x \in Conns |-> NoToken]
    /\ pending = {}
    /\ ready = [x \in Conns |-> FALSE]
    /\ dataConn = [x \in Conns |-> NoData]
    /\ closers = [x \in Conns |-> 0]
    /\ data = [d \in DataConns |-> [st |-> "none", conn |-> NoConn, tok |-> NoToken]]
    /\ open = {}
    /\ listening = Kinds
    /\ ctrlUp = TRUE /\ sessDone = FALSE /\ rootDone = FALSE

CtxDone(x) == IF kind[x] = "tcp" THEN sessDone ELSE rootDone

-----------------------------------------------------------------------------
(* The server goroutine that serves an external connection.                *)

\* The listener accepts a user and RegisterPending stores it with a fresh
\* token, which is empty if the random source failed.
Accept(x, k, tok) ==
    /\ pc[x] = "idle"
    /\ k \in listening
    /\ pc' = [pc EXCEPT ![x] = "registered"]
    /\ kind' = [kind EXCEPT ![x] = k]
    /\ ext' = [ext EXCEPT ![x] = "open"]
    /\ token' = [token EXCEPT ![x] = tok]
    /\ pending' = pending \cup {x}
    /\ UNCHANGED <<ready, dataConn, closers, data, open, envVars>>

\* cw.Write(OpenConnection) succeeds; the relay goroutine waits.
SendOpen(x) ==
    /\ pc[x] = "registered"
    /\ pc' = [pc EXCEPT ![x] = "waiting"]
    /\ open' = IF ctrlUp THEN open \cup {x} ELSE open
    /\ UNCHANGED <<kind, ext, token, mgrVars, data, envVars>>

\* The write fails: the user is dropped, the map entry stays.
SendOpenFails(x) ==
    /\ pc[x] = "registered"
    /\ ~ctrlUp
    /\ pc' = [pc EXCEPT ![x] = "done"]
    /\ ext' = [ext EXCEPT ![x] = "closed"]
    /\ UNCHANGED <<kind, token, mgrVars, data, open, envVars>>

\* WaitReady returned and the select took its branch.
WaitDone(x) ==
    /\ pc[x] = "waiting"
    /\ ready[x]
    /\ pc' = [pc EXCEPT ![x] = "relaying"]
    /\ UNCHANGED <<kind, ext, token, mgrVars, data, open, envVars>>

\* Manager.CancelPending
CancelPending_Unchecked(x) ==
    /\ pending' = pending \ {x}
    /\ ready' = [ready EXCEPT ![x] = TRUE]
    /\ closers' = [closers EXCEPT ![x] = @ + 1]
    /\ UNCHANGED dataConn
CancelPending(x) ==
    /\ pending' = pending \ {x}
    /\ ready' = [ready EXCEPT ![x] = @ \/ x \in pending]
    /\ closers' = [closers EXCEPT ![x] = IF x \in pending THEN @ + 1 ELSE @]
    /\ UNCHANGED dataConn

\* relayExternalConn: ctx.Done before the data connection.
CancelTCP_KeepsWaiting(x) ==
    /\ pc[x] = "waiting"
    /\ kind[x] = "tcp"
    /\ sessDone
    /\ CancelPending(x)
    /\ UNCHANGED <<connVars, data, open, envVars>>
CancelTCP(x) ==
    /\ pc[x] = "waiting"
    /\ kind[x] = "tcp"
    /\ sessDone
    /\ CancelPending(x)
    /\ pc' = [pc EXCEPT ![x] = "done"]
    /\ ext' = [ext EXCEPT ![x] = "closed"]
    /\ UNCHANGED <<kind, token, data, open, envVars>>

\* relayHTTPConn / relayHTTPSConn: 15 s timer or root context; the entry stays.
GiveUpProxy(x) ==
    /\ pc[x] = "waiting"
    /\ kind[x] = "proxy"
    /\ pc' = [pc EXCEPT ![x] = "done"]
    /\ ext' = [ext EXCEPT ![x] = "closed"]
    /\ UNCHANGED <<kind, token, mgrVars, data, open, envVars>>

\* RelayBiDirectional returns (a side closed, an error, or the context), or the
\* proxy could not replay the request: both connections are closed.
RelayEnds(x) ==
    /\ pc[x] = "relaying"
    /\ pc' = [pc EXCEPT ![x] = "done"]
    /\ ext' = [ext EXCEPT ![x] = "closed"]
    /\ data' = [data EXCEPT ![dataConn[x]].st = "closed"]
    /\ UNCHANGED <<kind, token, mgrVars, open, envVars>>

-----------------------------------------------------------------------------
(* The client, and whoever else dials the data port.                       *)

\* handleOpenConnAsync dials the data port and echoes connID and token.
ClientDials(x, d) ==
    /\ x \in open
    /\ data[d].st = "none"
    /\ open' = open \ {x}
    /\ data' = [data EXCEPT ![d] = [st |-> "hello", conn |-> x, tok |-> token[x]]]
    /\ UNCHANGED <<connVars, mgrVars, envVars>>

\* OpenConnection is lost with the connection, names an unknown tunnel, or the
\* client cannot dial: nothing tells the server.
OpenLost(x) ==
    /\ x \in open
    /\ open' = open \ {x}
    /\ UNCHANGED <<connVars, mgrVars, data, envVars>>

\* A data connection with an arbitrary connID and a token issued at some time.
StrayHello(d, x, y) ==
    /\ data[d].st = "none"
    /\ pc[y] # "idle"
    /\ data' = [data EXCEPT ![d] = [st |-> "hello", conn |-> x, tok |-> token[y]]]
    /\ UNCHANGED <<connVars, mgrVars, open, envVars>>

-----------------------------------------------------------------------------
(* handleDataConn.                                                         *)

\* The check FulfillPending makes under the lock.
TokenMatches_EmptyOK(d) ==
    data[d].conn \in pending /\ token[data[d].conn] = data[d].tok
TokenMatches_NoLookup(d) ==
    token[data[d].conn] # NoToken /\ token[data[d].conn] = data[d].tok
TokenMatches(d) ==
    /\ data[d].conn \in pending
    /\ token[data[d].conn] # NoToken
    /\ token[data[d].conn] = data[d].tok

\* FulfillPending succeeds: the entry is deleted, the lock released.
FulfillTake(d) ==
    /\ data[d].st = "hello"
    /\ TokenMatches(d)
    /\ pending' = pending \ {data[d].conn}
    /\ data' = [data EXCEPT ![d].st = "taken"]
    /\ UNCHANGED <<connVars, ready, dataConn, closers, open, envVars>>

\* p.dataConn = dataConn; close(p.ready)
FulfillHandOver(d) ==
    /\ data[d].st = "taken"
    /\ dataConn' = [dataConn EXCEPT ![data[d].conn] = d]
    /\ ready' = [ready EXCEPT ![data[d].conn] = TRUE]
    /\ closers' = [closers EXCEPT ![data[d].conn] = @ + 1]
    /\ data' = [data EXCEPT ![d].st = "given"]
    /\ UNCHANGED <<connVars, pending, open, envVars>>

\* ReadMessage fails or meets its 10 s deadline, or the message is no hello.
HelloUnread_KeepsOpen(d) ==
    /\ data[d].st = "hello"
    /\ data' = [data EXCEPT ![d].st = "none"]
    /\ UNCHANGED <<connVars, mgrVars, open, envVars>>
HelloUnread(d) ==
    /\ data[d].st = "hello"
    /\ data' = [data EXCEPT ![d].st = "closed"]
    /\ UNCHANGED <<connVars, mgrVars, open, envVars>>

\* FulfillPending refuses the hello.
DataConnRefused(d) ==
    /\ data[d].st = "hello"
    /\ ~TokenMatches(d)
    /\ data' = [data EXCEPT ![d].st = "closed"]
    /\ UNCHANGED <<connVars, mgrVars, open, envVars>>

-----------------------------------------------------------------------------
(* Failures.                                                               *)

CtrlBreaks ==
    /\ ctrlUp
    /\ ctrlUp' = FALSE
    /\ UNCHANGED <<connVars, mgrVars, data, open, listening, sessDone, rootDone>>

\* clientCtx is cancelled: heartbeat, admin API, or the end of the session.
SessionEnds ==
    /\ ~sessDone
    /\ sessDone' = TRUE
    /\ UNCHANGED <<connVars, mgrVars, data, open, listening, ctrlUp, rootDone>>

\* The public listener is closed by RemoveTunnelsForClient or on ctx.Done, the
\* proxy's listener when the root context is done.
ListenerCloses(k) ==
    /\ k \in listening
    /\ k = "proxy" => rootDone
    /\ listening' = listening \ {k}
    /\ UNCHANGED <<connVars, mgrVars, data, open, ctrlUp, sessDone, rootDone>>

\* The root context ends every session's context too.
ServerStops ==
    /\ ~rootDone
    /\ rootDone' = TRUE
    /\ sessDone' = TRUE
    /\ UNCHANGED <<connVars, mgrVars, data, open, listening, ctrlUp>>

-----------------------------------------------------------------------------
ServeConn(x) ==
    \/ SendOpen(x)
    \/ SendOpenFails(x)
    \/ WaitDone(x)
    \/ CancelTCP(x)
    \/ GiveUpProxy(x)
    \/ RelayEnds(x)

HandleData(d) == FulfillTake(d) \/ FulfillHandOver(d) \/ HelloUnread(d) \/ DataConnRefused(d)

Next ==
    \/ \E x \in Conns :
        \/ \E k \in Kinds, tok \in {x, NoToken} : Accept(x, k, tok)
        \/ ServeConn(x)
        \/ OpenLost(x)
        \/ \E d \in DataConns : ClientDials(x, d)
    \/ \E d \in DataConns :
        \/ HandleData(d)
        \/ \E x, y \in Conns : StrayHello(d, x, y)
    \/ CtrlBreaks
    \/ SessionEnds
    \/ ServerStops
    \/ \E k \in Kinds : ListenerCloses(k)

Spec == Init /\ [][Next]_vars

-----------------------------------------------------------------------------
(* Properties.                                                             *)

\* A relay starts only with a real data connection, although CancelPending
\* closes the same ready channel that announces one: the goroutine that could
\* see the nil connection has left its select by then.
RelayHasDataConn ==
    \A x \in Conns : pc[x] = "relaying" => dataConn[x] # NoData

\* Two users never share a data connection, and a user's data connection is
\* one that echoed the non-empty token issued for this very connID.
PairedByToken ==
    \A x \in Conns : dataConn[x] # NoData =>
        /\ data[dataConn[x]].conn = x
        /\ token[x] # NoToken
        /\ data[dataConn[x]].tok = token[x]
        /\ \A y \in Conns \ {x} : dataConn[y] # dataConn[x]

\* The winner of Manager.pending's lock is the only one to close the ready
\* channel: closeOnce is never needed twice for one pending connection, and a
\* data token is used at most once.
ReadyClosedOnce ==
    \A x \in Conns :
        /\ closers[x] <= 1
        /\ \A d, e \in {c \in DataConns : data[c].conn = x} :
               data[d].st = "taken" /\ (data[e].st = "taken" \/ dataConn[x] = e) => d = e

\* A handed-over connection is never replaced or taken back.
HandOverIsFinal ==
    [][\A x \in Conns : dataConn[x] # NoData => dataConn'[x] = dataConn[x]]_vars

\* The state of the abstract rendezvous that this one is in: a connection is
\* matched from the moment FulfillPending deletes its entry.
absMatch == [x \in Conns |-> IF dataConn[x] # NoData THEN dataConn[x]
                             ELSE IF \E d \in DataConns : data[d].st = "taken" /\ data[d].conn = x
                             THEN CHOOSE d \in DataConns : data[d].st = "taken" /\ data[d].conn = x
                             ELSE NoData]
absOffer == [x \in Conns |-> IF pc[x] = "idle" THEN "absent"
                             ELSE IF x \in pending THEN "open"
                             ELSE IF absMatch[x] # NoData THEN "matched"
                             ELSE "withdrawn"]

Abstract == INSTANCE Rendezvous WITH offer <- absOffer, match <- absMatch

\* Pending connections behave as the abstract rendezvous: offered once, then
\* matched once with an unused data connection or withdrawn, for good.
ImplementsRendezvous == Abstract!AbsSpec
=============================================================================
