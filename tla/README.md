# A TLA+ model of reversproxy

reversproxy exposes services behind NAT. The *client* runs next to the
services; the *server* has the public address and, unusually, dials the client.
One TLS control connection per client carries everything that is not bulk data
of a tunnel: registration, heartbeat, requests to open data connections, and the
multiplexed frames of SOCKS5, HTTP CONNECT and port-forward users.

All paths below are relative to `src/`.

## 1. Inventory

| Part | State | Operations | Talks to |
|---|---|---|---|
| `internal/tunnel/manager.go` `Manager` | tables of TCP tunnels, HTTP and HTTPS hostnames with per-client lists, pending connections | Add/Remove tunnels, RegisterPending, FulfillPending, CancelPending | handlers, proxies, data listener |
| `internal/control/registry.go`, `internal/tunnel/ctrl_registry.go` | live clients; one writer per control connection | Register, Deregister, Disconnect, Write | session, heartbeat, admin API, proxies |
| `internal/control/handler.go` `HandleControlConn` | one goroutine per session, its context, its SOCKS mux | handshake, message loop, tunnel requests, deferred cleanup | client |
| `internal/control/heartbeat.go` | miss counter, `LastHeartbeat` | tick | session's context |
| `internal/tunnel/server.go`, `http_proxy.go`, `https_proxy.go` | goroutine per external user | accept, look up, ask the client for a data connection, wait, relay | Manager, control writer |
| `internal/tunnel/ratelimit.go` `Limiter` | bucket per address, count of handlers | Allow, Acquire, Release | both proxies |
| `internal/tunnel/socks_mux.go`, `relay_mux.go` | channel table, WaitGroup, pipes | NewChannel, Remove, Deliver, DeliverReady, DeliverClose, CloseAll; half-close relay | message loops of both sides |
| `internal/socks/*.go` | goroutine per local user | pick a session, connect, wait 30 s, relay | pool, mux |
| `internal/client/handler.go`, `pool.go`, `cmd/client/main.go` | pool of sessions, known tunnels | handshake, register tunnels one by one, message loop | server |
| `cmd/server/main.go`, `internal/control/approval.go`, `knownhosts.go`, `internal/reconnect/backoff.go` | dial loops, approval queue, pinned fingerprints in memory and on disk, delay | dial, trust on first use, Submit/Decide, Add/Remove, Next/Reset | operator through `internal/admin/api.go` |
| `internal/protocol/framing.go`, `CtrlConnWriter` | the lock of one connection's writer | WriteMessage (a length, then a body), ReadMessage | everybody who writes to a client |
| `internal/tunnel/relay.go` | a context and two copying goroutines per relayed user | RelayBiDirectional | `server.go`, both proxies, `client.go` |
| `cmd/winclient` | tray state, cancel function of the current run, a request channel of one slot, a pool per run | toggle, reconnect, quit; listen, accept, session up and down | menu goroutine, windows, runs, sessions |
| `cmd/winserver`, `internal/app/server_app.go` | current application, its cancel function, running flag; per application its listeners and dial loops | start, stop, restart, quit; Start, dial, drain | menu goroutine, console, goroutines of Start |
| `internal/filetransfer` | part files, drop folder, gate per name | SendFile, HEAD, PUT | a pair of its own |

What is hard here: every table has its own lock and several operations take two
of them one after the other; locks are released between a decision and its
effect (`FulfillPending`, `Decide`, `uniquePath`/`Rename`, `Allow`); a message
loop writes into an unbuffered pipe; two ends write to one connection while the
other expects the next message of a dialogue; connections break, timers race
with late answers, processes restart with files on disk. `PROJECT.json` lists
these hazards at their lines, with the properties that watch them.

What makes each part correct, in a sentence: a hostname or port belongs to one
live session and is given back when that ends; a user is paired with the one
data connection that echoed its token; a multiplexed byte arrives once or the
connection is gone; a delivered file is intact and a reported success is a
delivered file; nothing is trusted that was not approved; an admission limit
holds under races; both ends of a session agree on what is set up and end
together; a message on a control connection arrives whole; a relayed stream is
what was sent, from its first byte on; a tray that is switched off, restarted or
reconfigured leaves nothing behind and does what was asked last.

## 2. Modules

| Module | Models | Granularity |
|---|---|---|
| `TunnelManager` | `Manager`'s routing tables, both registries, the life of `HandleControlConn`, the lookup of the proxies | a step is what happens under one lock; one step per deferred call of the cleanup; a write of the loop, which may block, is a phase |
| `PendingConn` | the pending table, its waiters, the data listener, the client's dial-back | `FulfillPending` is two steps, before and after the unlock |
| `Rendezvous` | what `PendingConn` promises, without threads and tokens | offer, match, withdraw |
| `SocksMux` | both muxes, both message loops, `RelayMuxChannel` on both sides, the handlers | a payload or control message per step; a blocked `Deliver` is a state of the loop, and a loop can leave a working connection |
| `FileTransfer` | `SendFile`, `handlePut`, the per-name gate | a byte per step; lock, unlock and count are separate |
| `DialLoop` | `dialClientLoop`, `tofuCheck`, `Approver`, `KnownHosts`, admin calls | channel operations and map operations are separate steps; a pause has any length |
| `ControlSession` | both ends of one control connection from handshake to close | one message per step, two ordered streams; a write and a `Deliver` are states in which an end can stay |
| `Limiter` | `Limiter` and the accept loops that share it | clock, bucket, charge, load and swap are separate steps |
| `Channel` | what one direction of a control connection promises | send, receive, lose, give up |
| `Frames` | `WriteMessage`, `ReadMessage`, `CtrlConnWriter` | one write of a writer, one unit of the reader |
| `Tcp` | TCP connections as the relays use them (external) | operators on the state of all ends; a bounded buffer per end |
| `Relay` | `RelayBiDirectional` | one read, one write, the end of a copy, the watcher, the return |
| `OpenPath` | one user from accept to the last byte: `Frames` and two instances of `Relay` with the handlers between them | a call on a connection per step |
| `TrayClient` | the Windows client: menu goroutine, runs, sessions | what lies between two stores to the shared state |
| `TrayServer` | the Windows server and `ServerApp.Start` | as above; one step per listener |
| `TunnelManagerProofs`, `PendingConnProofs`, `DialLoopProofs`, `LimiterProofs`, `SocksMuxProofs`, `FileTransferProofs`, `ControlSessionProofs`, `OpenPathProofs` | theorems about the module each is named after; `ControlSessionProofs` and `DialLoopProofs` also about the tray program around it (`TrayClient`, `TrayServer`) | |
| `MC...` | instances for TLC | |

Definitions carry the names of the functions they model where there is one;
`PROJECT.json` maps each to its lines. An operator whose name ends in an
underscore and a word (`AddHTTPTunnel_AnyOwner`) is a faulty variant of the
definition after it; no specification uses it, it exists to show that a property
notices that fault.

How the modules fit: a session of `ControlSession` is a session of
`TunnelManager` once registered; `TunnelManager`'s `ProxySend` and a public
listener's accept are `PendingConn`'s `SendOpen`; the `deliver` phase of
`TunnelManager` is the blocked loop of `SocksMux`; `DialLoop`'s `serve` is a whole
run of `HandleControlConn`; `Limiter`'s `HandOff` starts what `PendingConn` calls
waiting. `OpenPath` composes for one user what `PendingConn` and `ControlSession`
show in breadth: its pending table has one entry, its control connection consists
of frames, and the relay that `PendingConn` and `Limiter` take for a start and an
end is played out on both sides. Because `Frames` implements `Channel`, the other
modules may treat a message as one step. `TrayServer`'s dial loops are those of
`server_app.go`, which have no approval gate; `TrayClient`'s sessions are
`ControlSession`'s client end. The others are checked separately: the shared steps are
over-approximated on the side that does not own them (for instance a `Deliver`
may block at any data frame and stay blocked).

## 3. Runs

Passing runs and what they show:

| Run | Bounds | Properties |
|---|---|---|
| `tunnel_manager` | 2 sessions, 1 routing slot, 1 tunnel, 1 port, 1 proxied request | `RoutesMatchLists`, `RouteOwnerReachable`, `OpenListenersTracked`, `NoRouteTakeover`, `CancelledIsForgotten` |
| `pending` | 2 users, 2 data connections | `RelayHasDataConn`, `PairedByToken`, `ReadyClosedOnce`, `ImplementsRendezvous` |
| `open_path` | 1 user, TCP or HTTPS; 2 units up, 1 down, buffers of 1; a Ping and the OpenConnection with bodies of 2 units | `StreamsIntact`, `ServiceEndLosesNothing`, `ImplementsChannel`, `RelayEnds` |
| `socks_mux` | 1 channel, 2 payloads each way | `ChannelInv`, `PayloadsConserved`, `NoLossOnHalfClose`, `BothClosedEndsRelay` |
| `file_transfer` | 2 senders of one name, or of `a` and `a (1)`, with files of 2 and 1 bytes; a file `a` in the folder, a leftover of 3 bytes for `a`; 1 retry, 1 restart, 2 handlers | `GateInv`, `DeliveredIsIntact`, `SentMeansDelivered`, `ClobbersOnlyAcrossNames`, `SendReturns` |
| `dial_loop` | 2 loops sharing a name, 2 fingerprints, 3 requests, 1 concurrent Decide, any number of restarts | `ApprovalInv`, `NoUnapprovedTrust`, `PinIsNotReplaced`, `ShutdownStopsLoops` |
| `control_session` | a TCP and an HTTP tunnel, 6 events (a heartbeat tick or a break is one; a user of a tunnel, a SOCKS user, a payload or a shutdown two) | `SetupInv`, `EstablishedIsRouted`, `NoEarlyTimeout`, `EndsTogether` |
| `limiter` | 2 loops, 4 connections of one address; burst 2, 2 places and 3 units of time, or no limits | `PlacesInv`, `RateIsKept` |
| `tray_client` | 3 runs, 1 session at a time | `RequestNotLost`, `CancelNotLost`, `CancelledRunsEnd` |
| `tray_server` | 3 starts, 2 addresses, 1 dialled client | `FlagIsRight`, `CancelledAppsEnd`, `RestartIsShown` |

Each module has one type invariant too; where it is not a property of its own it is
the first conjunct of one (`ChannelInv`, `GateInv`, `ApprovalInv`, `SetupInv`,
`PlacesInv`, `StreamsIntact`, `RequestNotLost`, `FlagIsRight`), together with the
invariants of the same table: `ChannelInv` says that a channel's WaitGroup is
balanced and that a handler that is done has unregistered, `GateInv` that one
handler at a time works on a name and that gates of idle names are dropped,
`ApprovalInv` that every waiting request can be decided and no finished one is shown,
`SetupInv` that an awaited answer is on its way exactly once, unless the frame of
another writer has cut it, and that an OpenConnection is for a tunnel the client knows or is about to hear of, `PlacesInv`
that the limiter's count is that of the handlers and within its bound.

Why the bounds are enough: a conflict
over a slot, a name, a token or a place needs two parties; a third adds no new
kind of interleaving because the tables are keyed. Two payloads are the least
that can be reordered, lost or repeated against each other, and all properties of
the mux are about one channel at a time. A leftover of 3 bytes is longer than both
files, so the rewind happens, and the first failed upload removes it, so that
uploads to an empty part file happen as well; files of 2 and 1 bytes let a
part file of one sender be a prefix, all or more than the other's. With `a` in the
folder, an upload of `a` looks for another path and meets that of `a (1)`. Six events let
the heartbeat fire after an answered Ping, without one, and behind a ping whose write
outlasts an interval, with a user or a shutdown beside it. The routing tables for HTTP and
HTTPS do not interact, so one slot stands for a slot of either. Requests are reused as
soon as nobody refers to them, so three serve two loops and one operator for an
unbounded number of rounds.
In `open_path` two units of the user are the ClientHello that is peeked and one that
is relayed, and a buffer of one unit is full after one, so that every write can
block; a body of two units can be cut in the middle. Pings after the user's
OpenConnection, and breaks of the control connection after it, do not touch this
user and are left out. The network resets the data connection only before the
server's relay starts; later a reset would be one more way for a copy to end. Three runs are a run that is ending, the current one and one
that replaces it; three starts are an application and two overlapping restarts.
Constants named `Max...` cap what the program does not
bound. Symmetry is used over interchangeable identifiers only, never in a run
that checks liveness.

### Fairness

Weak fairness of goroutines that can run, and of timers the code arms: the 45 s
read deadline of the server's loop (`LeaveLoop`, `SvLoopEnds`), the 10 s handshake
deadlines, the 15 s and 30 s timers of proxies and SOCKS handlers, the back-off
pause, the sleeps and the 350 ms and 5 s timers of the tray programs, the deadlines of
the file sender. Not assumed:
that a SOCKS target reads (`DeliverReturns`), that an operator decides, that a
session ends (`HandleControlConn` and `HandleServerConn` can be blocked in `Deliver`,
so a cancelled run or application may leave one behind), that users come or close,
that links break or heal, that anybody clicks, a message box included (`BoxClosed`,
`MenuBoxClosed`).

A write on a control connection has no deadline, so none is assumed to end while the
connection stands. In `TunnelManager` the replies and the DisconnectAck of the loop are
phases (`Writing`) without fairness until the connection is closed; in `ControlSession` so
are the answers, Pings, Pongs and acknowledgements of both ends (`ServerWrites`,
`ClientWrites`); in `TrayServer` so is the broadcast of Disconnect while a client is
served (`MayBlock`). The liveness properties except exactly the states that
stay for ever on that account. `open_path` is about one user's stream and assumes that
the user and the service read what they are sent and that the client reads its control
connection.
In `SocksMux` an endpoint that is sent data reads it (`TakePayload`), because
`BothClosedEndsRelay` is about ending; the endpoint that does not read is why
`CancelledIsForgotten` and `EndsTogether` except a session that is blocked in `Deliver`.

`CHECK_DEADLOCK FALSE` stands where the program really may come to rest (all
bounded work done, processes stopped).

## 4. Where the code and its comments disagree

Two runs end in a counterexample: each states what a comment of the code says and
shows that the code does otherwise. `findings` in `PROJECT.json` quotes the comment.

| Run | What happens |
|---|---|
| `control_session_client` | a Ping or OpenConnection that arrives while the client registers its tunnels is taken for the answer, and the client drops the session |
| `file_transfer_rewind` | after the part file is cut to a smaller offset, the limit still uses the size before the cut: the body is not appended whole and the upload fails its checksum |

The models show more of the same kind. They are not runs, but their behaviours are
behaviours of the modules, and the properties above are stated so that they hold
in spite of them:

- `internal/control/handler.go:465` drops the error of `AddHTTPTunnel` and answers
  `ok` for a hostname that is taken, also by an earlier session of the same client that
  is still being cleaned up. `RequestHTTPTunnel` of `TunnelManager` leaves the slot with
  its owner, `SvHTTPTunnel` of `ControlSession` may route or not and answers "ok" either
  way, and `EstablishedIsRouted` is about TCP tunnels.
- `internal/control/handler.go:256`, `478`, `538`: the replies of the message loop are
  written without a deadline. Behind a client that does not read, a session stays in such
  a write whatever happens to its context, with its routes in the tables;
  `CancelledIsForgotten` excepts it.
- `internal/control/heartbeat.go:45`: the write of a Ping has no deadline either, while the
  ticker keeps one tick. When the write outlasts the interval the next tick is there at
  once and one unanswered Ping is enough, against line 41 ("AND we have already
  fired maxMissed unanswered pings"), which `missed` does not count: it is never reset.
  `NoEarlyTimeout` says when it can happen (`stalled`).
- `internal/client/handler.go:65`, `73`, `81`, `118`, `163` and `208` write the setup
  messages on the connection itself, while the pool already hands the session to SOCKS
  users, whose frames go through `ConnWriter`; the shutdown goroutine writes too. A frame
  is two writes, so one of these can be cut by another, and what follows is garbage to
  the reader. The model has a message `Cut` for it
  (`RawC`, `SendC`, and `RawS`, `SendS` for the server, whose `cmd/server/main.go:254`
  does the same). It takes a cut frame for one that does not decode, whatever its bytes.
  `SetupInv` excepts a stream with a cut.
- `internal/control/heartbeat.go:41` cancels a context that a loop blocked in
  `Deliver` does not look at, so a heartbeat timeout does not end such a session;
  hence the exceptions in `CancelledIsForgotten` and `EndsTogether`.
- `internal/control/handler.go:213`, `246`, `internal/client/handler.go:267`, `298`: a loop
  that leaves on its context or on Disconnect runs `CloseAll` while the connection works
  and Data and Close messages are still queued: they are lost (`LoopLeaves`).
  `NoLossOnHalfClose` is about loops that have not left.
- `internal/control/handler.go:350`: the goroutine that dials for a SOCKS user registers its
  channel when the target has answered, which may be after the `CloseAll` of its session.
  Nobody closes that channel: its relay waits for ever. `BothClosedEndsRelay` excepts it.
- `internal/tunnel/http_proxy.go:207` and the failed writes of OpenConnection close
  the user without `CancelPending`; the entry stays in the table (`GiveUpProxy`,
  `SendOpenFails` of `PendingConn`).
- `internal/socks/client.go:163`: a client handler that gives up sends no
  close, and the server's relay, whose target has closed, waits; hence
  `BothClosedEndsRelay` starts when the client relays.
- `internal/control/handler.go:193`: `CloseAll` does not end the goroutine that reads
  the local endpoint; hence `BothClosedEndsRelay` needs both endpoints closed.
- `internal/filetransfer/receiver.go:220`: the gate is per name, and the paths of `a` and
  of `a (1)` meet: two uploads can find one destination free and the later `Rename` replaces
  the earlier file, against `internal/filetransfer/protocol.go:87` ("so an arriving file never
  clobbers an existing one in the drop folder"). `ClobbersOnlyAcrossNames` says that this is the only way in
  which a delivered file is lost.
- `cmd/server/main.go:411`: two dial loops whose targets share a name both find no
  pin, and the second `Add` replaces the first. `PinIsNotReplaced` excepts exactly the
  loops that were already asking when the pin was set.
- `internal/control/approval.go:98`: `Decide` can send to a request whose `Submit`
  has taken another decision, and returns true (`DecideSend` of `DialLoop`).
- `cmd/server/main.go:368`: the pause after a served session is computed before
  `Reset`, so the first reconnect waits as long as the failures before it. No decision
  depends on the length of a pause, and it is not in the model.
- `cmd/client/main.go:255`: a session is in the pool before its handshake; a SOCKS
  user's frame before `RegisterResp` ends it (`SocksUser`, `SvNotRegistered`).
- `internal/tunnel/ratelimit.go:116`: the first charge of a bucket comes late, so
  one connection more than the burst can pass; `RateIsKept` allows for it.
- `cmd/server/main.go:254` broadcasts Disconnect with `WriteMessage` on the connection
  itself, against `internal/tunnel/ctrl_registry.go:15` ("Every write to a control conn
  must go through the one CtrlConnWriter that owns it"); a frame of another writer can
  be cut by it. It happens only at the end of the process (`server_app.go:318` does it
  right). `ControlSession` has the cut; `Frames` has no writer that bypasses the lock.
- `internal/tunnel/relay.go:46` announces a grace period for the other direction and
  cancels at once. What a user still has to receive when it half-closes is lost
  (`CopyEnds`, `Watch` of `Relay`); `ServiceEndLosesNothing` says what is not.
- `internal/tunnel/server.go:178`, `https_proxy.go:175`: when the data connection arrives
  together with the end of the context or the timeout, the select may take either, and
  a data connection that was handed over is then closed by nobody on the server
  (`GiveUpWaiting` with `pend = "given"`); hence `RelayEnds` starts when both relays run.
- `cmd/winclient/main.go:226` publishes "connecting" so that a click cannot start a
  duplicate run. An earlier run that ends late stores "disconnected" over it, also
  during the half second in which a reconnect sleeps, and after it nothing stores
  "connecting" again until the new run listens; the next click then starts a second
  run and loses the cancel function of the first. `CancelNotLost` excepts exactly
  this.
- `cmd/winclient/main.go:128`: with no configuration at start-up, the first cancel function
  is the root's. A reconnect cancels it, every later run starts with a cancelled
  context, and the file receiver ends, against line 132 ("Lives for the whole tray
  lifetime (rootCtx), independent of tunnel toggles") (`Cancel` with `cancelFn = Root`).
- `cmd/winclient/main.go:400`: when `Accept` fails by itself the run returns without
  cancelling its context, and its local proxies and sessions go on without it.
- `cmd/winclient/main.go:441`: the count of sessions and the status that follows from
  it are two steps, so a session that comes between them is shown as "waiting", against
  line 409 ("Tray status follows the pool's active-session count") (`SessionEnds`,
  `SessionReports`).
- `cmd/winserver/main.go:191`: two restarts that overlap (tray and console, or two clicks
  within 900 ms) cancel the same application and start two; `setApp` of the second
  overwrites the cancel function of the first, which keeps its ports until the process
  exits. `CancelledAppsEnd` is about applications that were cancelled.
- `cmd/winserver/main.go:175`: an error of Start that comes after the 350 ms, or whose
  report lies between the timer and the status, is followed or overwritten by
  "running"; and when restarts overlap, so is the error of one by the "running" of
  another. `RestartIsShown` says that an error heard in time is not.
- `cmd/winserver/main.go:132`, `139` show a modal box before the status is set, so the
  tray says "restarting" until somebody clicks; `cmd/winclient/main.go:354` does the same
  before a run returns, and `211`, `217`, `286` before the menu goroutine goes on. A context
  that is cancelled closes no box. `RestartIsShown` and `CancelledRunsEnd` except it.
- `internal/app/server_app.go:237`: the broadcast of Disconnect writes without a deadline
  before the 5 s of line 248 begin, so behind a client that does not read Start does
  not return ("shutdown timeout: forcing exit" does not come). `CancelledAppsEnd` excepts
  it; the addresses are given back all the same.
- `internal/app/server_app.go:162`: a Start that fails leaves the listeners opened before
  open until somebody cancels the context, which nobody but a later stop does.
- `internal/tunnel/http_proxy.go:79`: a place is released when the handler hands over
  to its relay; `ActiveIsExact` is about handlers, and relays are not limited.

## 5. Proofs

Eight modules hold theorems: each extends the module it is about, defines the parts of
an inductive invariant (`IInv`, and further ones named below), shows `Init => IInv` and
`IInv /\ [Next]_vars => IInv'` with a step per action, and derives the properties from
`IInv`. They hold for every value of the constants; the runs check the same formulas on
small ones, and the invariants themselves were model-checked there before they were
proved. `PROJECT.json` lists 31 theorems for a property that a run checks, which are all
the invariants, action properties and refinements of the passing runs; two more state a
consequence that no run repeats: `LookupsStayFresh` (a routing decision stays valid
while the chosen session serves) and `HandOverIsPermanent` (a handed-over connection is
never replaced).

What is assumed of the constants is written as named `ASSUME`s in the modules that
declare them, which TLC evaluates: the "no session", "no request", "no gate" values lie
outside the sets they stand beside; configuration has its type (`NameOf`, `Size`, `Cfg`,
`Cands`, `Limits`); bounds are natural numbers, and `Burst` and `Cap` are not zero; the set
of handlers is finite, there is a client name, a run of the Windows client, and a start
of the Windows server, and the writers and messages that `OpenPath` uses are among
those of `Frames`.

*TunnelManager.* The properties are not inductive: `RoutesMatchLists` is kept by a
cleanup that looks at lists only, so the proof must know which sessions can have a
non-empty list. `IInv` adds that both registries are functions of the session's
program counter (`RegistriesFollowPhase`), that lists are non-empty only between the
start of the loop and their removal (`ListsFollowPhase`), the same relation for TCP
tunnels (`TunnelsMatchLists`), and that a lookup in progress refers to a session
that has entered its loop (`LookupsAreOld`). `RouteOwnerReachable` then follows from
the order of the deferred calls, `NoRouteTakeover` from the guard of
`AddHTTPTunnel`.

*PendingConn.* The argument is that after its creation an entry has one owner at a
time: it is in the table untouched (`EntryIsFresh`), or one data connection has
taken it and nobody else can close its channel (`TakenIsExclusive`), or it was
handed over with the evidence of its hello (`GivenIsPaired`), or it was cancelled and
its only waiter has left (`CancelledIsDone`). The last is why a relay never sees the
nil connection although `CancelPending` closes the same channel.
`Refinement` maps a connection to `matched` from the moment its entry is deleted by
`FulfillPending`, and shows each step to be an offer, a match, a withdrawal or a
stutter of `Rendezvous`.

*DialLoop.* A `Decide` looks up a request under the lock and sends to its channel
after the unlock, so the request may by then have left the queue, or a newer one may
stand in its place. The proof says what such a `Decide` holds (`DecideHoldsRequest`),
that a request belongs to one `Submit` and shows that loop's name and fingerprint for as
long as it waits (`RequestIsOwn`, `EntryHasWaiter`), and that an approval is in the
history wherever it is now: in the channel, received, or acted on
(`ApprovalIsRecorded`). `NoUnapprovedTrust` is then inductive through failed writes and
restarts, and `ApprovalInv` follows. `PinIsNotReplaced` is an action property; it needs
`AskingIsEarly`, that whoever asks while the name is pinned was asking before.

*Limiter.* `CountIsExact` says that the counter is the number of running handlers; it
cannot pass the limit because the compare-and-swap succeeds only on the value that
was compared with the limit (`SwapSawRoom`). For the rate, two accept loops share a
bucket and charge clock readings out of order, so a charge may find a bucket whose
`last` is later than its own time, and set it back. What survives this is the bucket's
credit, tokens less the time they were counted at: refilling never raises it, at
whatever time, and each admission lowers it by one. `CreditIsSpent` states that the
credit is at most what the burst leaves after each admission and those that
followed; `RateIsKept` follows for every pair of admissions (`TokenBucket`).

*SocksMux.* Messages are counted per channel with the positions at which they stand
in a queue (`Counting`, `CountAppend`, `CountTail`), since a filtered sequence would
need induction. `CountInv` and `TableInv` tie the WaitGroup and the table to the
handlers. For `NoLossOnHalfClose` the argument is one of order: a `Close` is the last its
sender has to say of the channel (`CloseIsLast`), and a loop that takes it from the
connection is not in a `Deliver`, so a channel torn by it has received everything
(`TornIsComplete`). `ConnectInv` and `ServerFirst` rule out a `Close` of a channel that has not
been opened. `NothingInvented` bounds what is received by what was sent and gives
the rest of the type invariant.

*FileTransfer.* `GateOfName`, `CountInv` and `HolderInv` say that all handlers of a name
refer to the gate the map has for it, that its count is the number of those
handlers, and that who is between lock and unlock holds it; mutual exclusion by
name (`Exclusion`) follows, so the partial file cannot change between checksum and
rename (`RenameInv`), and what is delivered is intact. Nothing is assumed of the
candidate paths of different names, which do meet. A rename puts a file where
`uniquePath` found nothing, and only a handler that is outside this name's gate, hence one of
another name, can have put something there since (`DestFresh`): so what is replaced was put there by
another name, and never was there from the start (`ClobbersOnlyAcrossNames`).
`SentMeansDelivered` follows from the same step: a success is told of a file that was
renamed, and what stands in its place later is a file of another name.

*ControlSession.* The setup dialogue has at most one request under way, being worked on or
answered (`AtMostOne`), and it is the one the client waits for, lost only with
the connection or to a cut (`DueInv`); other messages may stand around it, and lemmas
about quiet steps (`AppendIsQuiet`, `TailIsQuiet`, `OutsideKeepsDialogue`) deal with them once.
A cut message is one of those: what is behind it may be lost to the reader, but it is never
taken for an answer. `RoutedInv` says that a TCP tunnel that is confirmed or about to be
confirmed is routed. For the heartbeat, until it fires and unless a tick came during the
write of a ping, the age of the last Pong is at most the pings sent since, with the one
being written and the tick that waits (`HeartbeatInv`).

*OpenPath.* Each direction is a flow through five places: the buffer the receiver reads,
a copy of one relay, the buffer of the data connection, a copy of the other relay (or
the peeked bytes), and the buffer the sender fills. Any place may lose what it holds
when an end closes, resets or a copy ends, but then it is lost for good. `UpFlow` and `DownFlow`
state that from the receiver up to the first place that has lost something, the
places hold consecutive units of what was sent, and that nothing is missing when no
place has. The lemmas `FlowMove1` to `FlowMove4`, `FlowReceive`, `FlowSend` and `FlowCut` are about
flows alone; each action is shown to be one of them in either direction. `HelloInv` says that the hello
is the first unit of the data connection and is taken before the server relays, `PeekInv` that
the peeked bytes are replayed before it does. `StreamsIntact` follows; the bounds of the
run on buffers and data are gone.

`ServiceEndLosesNothing` is about the order in which ends are lost, of which `UpFlow` and
`DownFlow` say nothing. The proof counts. The user's units lie in six places, from what the
service has received back to what the user has written (`U1` to `U6`); they never multiply
(`UpBound`), so as long as their number is what the user has sent, none was ever lost. While
that holds, the user keeps its end open, and neither the context nor the server's half of
the path has failed (`Good`), a step of the system either leaves it for good or keeps
`PathGood`: all the service's units are in their six places (`D1` to `D6`), an end on
the way is reset or past its deadline only for a relay that is ending, and each end's FIN
and each relay's end has a cause further towards the service. `ServerGood` is the heart of it: a relay of the
server that is on its way to its end has written everything from the data connection
and seen the client half-close it, and the client had by then written all of a service
that had ended (`Drained`). The watcher that closes both ends when the first copy is
done cannot interfere, because by then its other copy has nothing left. When the server's
relay has returned and the service has read everything, the four places between are
empty, and what the user holds is what the service sent. The hypothesis that the service
has read everything is needed: otherwise the reset that a close with unread data causes
overtakes the answer, and `Good` is what the proof makes of it.

*Frames* (in `OpenPathProofs`). The refinement maps the bytes under way and the state of the
reader to the messages still to be received (`Unread`, a recursive function over the
prefixes of the stream). `FrameInv` says that the stream is whole frames that continue what the
reader has begun, the last of them complete but for what the holder of the lock still
writes; and, once the connection has failed, that whatever was written behind them never
completes one (`StreamInv`, `UpInv`). The mapping is then shown to change by one message when
a body is completed, or when the reader takes the last unit of one, and by nothing
otherwise. What a filter of the whole stream is after a step at its front or its back needs
an induction on its length. The library's induction theorems take an operator, so the
proof states the set of lengths for which the claim holds and uses `NatSetInduction`: a
set of naturals with 0 and successors is all of them. That takes a set, and is proved
from the library's theorem that a well-founded relation has minimal elements.

*TrayClient* (in `ControlSessionProofs`). What the menu goroutine reads before it starts a run is a
state that others store. `TrayInv` says whose word that is: while the goroutine sleeps in a
reconnect, the run it will replace is cancelled (`SleepsOverCancelled`); a "disconnected" that
it or the current run has stored is true (`DisconnectedIsTrue`); and only runs that were started
store anything (`OnlyStartedRunsAct`), so a new run never answers for a value stored before
it. What a click read is remembered while its message box is open (`read`, a history
variable; `BoxIsTrue`), because the state is stored only when the box is closed.
`CancelNotLost` follows, with the exception section 4 describes. `RequestNotLost` is
inductive beside the types.

*TrayServer* (in `DialLoopProofs`). `FlagIsRight` is inductive with the types; the step that
matters is the comparison in `clearRunningIf`. The definitions of the two tray modules
that every module has are called `TrayInit`, `TraySpec` and so on, so that a module of
proofs can extend them beside another.

Only model-checked: all liveness (`RelayEnds`, `BothClosedEndsRelay`, `SendReturns`,
`EndsTogether`, `ShutdownStopsLoops`, `CancelledRunsEnd`, `CancelledAppsEnd`,
`RestartIsShown`, `CancelledIsForgotten`). It rests on fairness and on `ENABLED`, which are
outside what the proof system handles. The two runs that expect a violation state what
a comment says and the code does not do, and have nothing to prove.

## 6. Not modelled

- Parsing and formatting: gob payloads, SNI and Host extraction, the SOCKS5
  dialogue, YAML. A failed decode is an outcome of the action that reads it.
- The HTTP proxy's path in `open_path`: `relayHTTPConn` differs from the HTTPS one in
  what it replays (the request it has parsed instead of the bytes it has read).
- Client-to-server framing: `ConnWriter` of `internal/client/pool.go` is the mirror image of
  `CtrlConnWriter`.
- The choice between several sessions in `ServerPool.Pick`; its callers work with any.
- The length of pauses and with it `Backoff`; TLS and certificates beyond a
  fingerprint; statistics, logging, dashboard and the event bus, which drops events
  by design and which nothing reads back.
- Windows, dialogs, installers and autostart; `TrayClient` and `TrayServer` have their
  reconnect and restart buttons.
- The server-side SOCKS path that no binary starts; `StartCleanup` of the limiter,
  which nothing calls.

## 7. Plan

1. Done: routing tables and sessions, rendezvous with its abstraction, mux, file
   transfer, dial loop, control session, limiter; framing with its abstraction, relay
   and their composition; both tray programs with the server application; proofs of
   all safety properties the runs check, and of both refinements.
2. Left: the HTTP proxy's path in `OpenPath`, and the client's `ConnWriter` as a second
   instance of `Frames`.
