----------------------------- MODULE TrayClient -----------------------------
(***************************************************************************)
(* The Windows client's life cycle (cmd/winclient/main.go):                *)
(* the menu goroutine, which alone starts and stops runs of the tunnel;    *)
(* the runs (runTunnelLoop), each with its listener and the goroutine that *)
(* closes it; their sessions (handleServerSession); and the windows and    *)
(* menu items from which a reconnect is asked for.                         *)
(*                                                                         *)
(* currentState, which every one of them stores, decides what the next     *)
(* click on the toggle does.  The titles and the console's copy of the     *)
(* state follow it and are not kept apart.                                 *)
(***************************************************************************)
CONSTANTS
    Runs,       \* calls of runTunnelLoop; bound: that many are started
    Sessions,   \* bound: sessions alive at a time
    Root,       \* the root context, as a value of cancelFn
    NoRun

ASSUME RootAssumption == Runs # {} /\ {Root, NoRun} \cap Runs = {}

VARIABLES
    state,      \* currentState
    cancelFn,   \* the context the next cancel ends
    rootDone,   \* rootCtx is done
    run,        \* run[r]: a call of runTunnelLoop
    ses,        \* ses[s]: a call of handleServerSession
    menu,       \* the menu goroutine
    queued,     \* reconnectReqCh, of capacity 1, is full
    asked,      \* history: the configuration was not loaded since a reconnect was asked for
    by,         \* history: who gave state its value, NoRun being the menu goroutine
    read        \* history: the same of the value that the menu goroutine has read

trayVars == <<state, cancelFn, rootDone, run, ses, menu, queued, asked, by, read>>

NewRun == [pc |-> "listen", done |-> FALSE, bound |-> FALSE]
NoSession == [pc |-> "none", run |-> NoRun]

TrayTypeOK ==
    /\ state \in {"disconnected", "connecting", "connected"}
    /\ cancelFn \in Runs \cup {Root}
    /\ rootDone \in BOOLEAN
    /\ run \in [Runs -> [pc : {"none", "listen", "ready", "accept", "box", "failed", "over"},
                         done : BOOLEAN, bound : BOOLEAN]]
    /\ ses \in [Sessions -> [pc : {"none", "added", "up", "last"}, run : Runs \cup {NoRun}]]
    /\ menu \in {"loop", "sleep", "box", "quit"}
    /\ queued \in BOOLEAN
    /\ asked \in BOOLEAN
    /\ by \in Runs \cup {NoRun}

\* The context of r is derived from the root.
Done(r) == run[r].done \/ rootDone
Live(r) == run[r].pc \notin {"none", "over"} /\ ~Done(r)
Pool(r) == {s \in Sessions : ses[s].run = r /\ ses[s].pc \in {"added", "up"}}

\* updateStatus, by a goroutine of run r and by the menu goroutine.
RunStatus(r, st) == state' = st /\ by' = IF state = st THEN by ELSE r
MenuStatus(st) == RunStatus(NoRun, st)

\* cancelFn().
Cancel == IF cancelFn = Root
          THEN rootDone' = TRUE /\ UNCHANGED run
          ELSE run' = [run EXCEPT ![cancelFn].done = TRUE] /\ UNCHANGED rootDone

\* The configuration on disk is loaded and a run of it started.
Unused == {r \in Runs : run[r].pc = "none"}
Start(r) ==
    /\ Unused # {}
    /\ r = CHOOSE q \in Unused : TRUE
    /\ run' = [run EXCEPT ![r] = NewRun]
    /\ cancelFn' = r
    /\ asked' = FALSE

\* onReady: the configuration is there and is good, or it is not and cancelFn
\* stays what it was set to first.
Idle == [pc |-> "none", done |-> FALSE, bound |-> FALSE]
TrayInit ==
    /\ \/ LET r == CHOOSE q \in Runs : TRUE IN
          /\ run = [q \in Runs |-> IF q = r THEN NewRun ELSE Idle]
          /\ cancelFn = r
          /\ state = "connecting"
       \/ /\ run = [q \in Runs |-> Idle]
          /\ cancelFn = Root
          /\ state = "disconnected"
    /\ rootDone = FALSE
    /\ ses = [s \in Sessions |-> NoSession]
    /\ menu = "loop"
    /\ queued = FALSE
    /\ asked = FALSE
    /\ by = NoRun /\ read = NoRun

-----------------------------------------------------------------------------
(* The menu goroutine.                                                     *)

\* The toggle, when the state is "disconnected".  The state is published before
\* the run is spawned.
ToggleOn_Unpublished(r) ==
    /\ menu = "loop"
    /\ state = "disconnected"
    /\ Start(r)
    /\ UNCHANGED <<state, by, read, rootDone, ses, menu, queued>>
ToggleOn(r) ==
    /\ menu = "loop"
    /\ state = "disconnected"
    /\ Start(r)
    /\ MenuStatus("connecting")
    /\ UNCHANGED <<rootDone, ses, menu, queued, read>>

\* The configuration is missing or wrong; a message box says so.
ToggleOnFails ==
    /\ menu = "loop"
    /\ state = "disconnected"
    /\ read' = by
    /\ asked' = FALSE
    /\ menu' = "box"
    /\ UNCHANGED <<state, cancelFn, rootDone, run, ses, queued, by>>

\* The user has closed the box; only then the state is stored.
MenuBoxClosed ==
    /\ menu = "box"
    /\ RunStatus(read, "disconnected")
    /\ read' = NoRun
    /\ menu' = "loop"
    /\ UNCHANGED <<cancelFn, rootDone, run, ses, queued, asked>>

ToggleOff ==
    /\ menu = "loop"
    /\ state # "disconnected"
    /\ Cancel
    /\ MenuStatus("disconnected")
    /\ UNCHANGED <<cancelFn, ses, menu, queued, asked, read>>

\* A reconnect is taken from the channel: the run is cancelled, and the goroutine
\* sleeps for half a second.
Reconnect ==
    /\ menu = "loop"
    /\ queued
    /\ queued' = FALSE
    /\ Cancel
    /\ MenuStatus("connecting")
    /\ menu' = "sleep"
    /\ UNCHANGED <<cancelFn, ses, asked, read>>

ReconnectStart(r) ==
    /\ menu = "sleep"
    /\ Start(r)
    /\ menu' = "loop"
    /\ UNCHANGED <<state, rootDone, ses, queued, by, read>>

\* The configuration is wrong, or there is none: then no box is shown.
ReconnectFails ==
    /\ menu = "sleep"
    /\ asked' = FALSE
    /\ menu' = "box"
    /\ UNCHANGED <<state, cancelFn, rootDone, run, ses, queued, by, read>>

\* The current run is cancelled and, half a second later, the root context by the
\* deferred rootCancel.  What is still queued then has nobody to take it.
Quit ==
    /\ menu = "loop"
    /\ rootDone' = TRUE
    /\ menu' = "quit"
    /\ queued' = FALSE /\ asked' = FALSE
    /\ UNCHANGED <<state, cancelFn, run, ses, by, read>>

-----------------------------------------------------------------------------
(* reconnectTunnel.                                                       *)

\* reconnectTunnel, from the menu or the console.
AskReconnect_OnceConnected ==
    /\ menu # "quit"
    /\ queued' = (queued \/ state = "connected")
    /\ asked' = TRUE
    /\ UNCHANGED <<state, cancelFn, rootDone, run, ses, menu, by, read>>
AskReconnect ==
    /\ menu # "quit"
    /\ queued' = TRUE
    /\ asked' = TRUE
    /\ UNCHANGED <<state, cancelFn, rootDone, run, ses, menu, by, read>>

-----------------------------------------------------------------------------
(* runTunnelLoop and the goroutine that closes its listener.               *)

\* The certificate is loaded, which may fail, and tls.Listen called, which fails when
\* the port is taken or for other reasons; a message box says so.
Listen(r, to) ==
    /\ run[r].pc = "listen"
    /\ to = "ready" => \A q \in Runs : ~run[q].bound
    /\ run' = [run EXCEPT ![r].pc = to, ![r].bound = (to = "ready")]
    /\ UNCHANGED <<state, cancelFn, rootDone, ses, menu, queued, asked, by, read>>

\* The user has closed the box.
BoxClosed(r) ==
    /\ run[r].pc = "box"
    /\ run' = [run EXCEPT ![r].pc = "failed"]
    /\ UNCHANGED <<state, cancelFn, rootDone, ses, menu, queued, asked, by, read>>

ReportFailure(r) ==
    /\ run[r].pc = "failed"
    /\ RunStatus(r, "disconnected")
    /\ run' = [run EXCEPT ![r].pc = "over"]
    /\ UNCHANGED <<cancelFn, rootDone, ses, menu, queued, asked, read>>

CloseListener_AtQuit(r) ==
    /\ rootDone
    /\ run[r].bound
    /\ run' = [run EXCEPT ![r].bound = FALSE]
    /\ UNCHANGED <<state, cancelFn, rootDone, ses, menu, queued, asked, by, read>>
CloseListener(r) ==
    /\ Done(r)
    /\ run[r].bound
    /\ run' = [run EXCEPT ![r].bound = FALSE]
    /\ UNCHANGED <<state, cancelFn, rootDone, ses, menu, queued, asked, by, read>>

\* The proxies have been started; the accept loop begins.
Ready(r) ==
    /\ run[r].pc = "ready"
    /\ RunStatus(r, "connecting")
    /\ run' = [run EXCEPT ![r].pc = "accept"]
    /\ UNCHANGED <<cancelFn, rootDone, ses, menu, queued, asked, read>>

\* A server connects; its session is in the pool.
Accept(r, s) ==
    /\ run[r].pc = "accept"
    /\ run[r].bound
    /\ ses[s].pc = "none"
    /\ ses' = [ses EXCEPT ![s] = [pc |-> "added", run |-> r]]
    /\ UNCHANGED <<state, cancelFn, rootDone, run, menu, queued, asked, by, read>>

\* Accept returns an error, because the listener is closed or by itself.
AcceptFails(r) ==
    /\ run[r].pc = "accept"
    /\ RunStatus(r, "disconnected")
    /\ run' = [run EXCEPT ![r].pc = "over", ![r].bound = FALSE]
    /\ UNCHANGED <<cancelFn, rootDone, ses, menu, queued, asked, read>>

-----------------------------------------------------------------------------
(* handleServerSession.                                                    *)

SessionUp(s) ==
    /\ ses[s].pc = "added"
    /\ RunStatus(ses[s].run, "connected")
    /\ ses' = [ses EXCEPT ![s].pc = "up"]
    /\ UNCHANGED <<cancelFn, rootDone, run, menu, queued, asked, read>>

\* HandleServerConn returns; the session leaves the pool and looks whether it was
\* the last one of a run that goes on.
SessionEnds(s) ==
    /\ ses[s].pc = "up"
    /\ ses' = [ses EXCEPT ![s] = IF Pool(@.run) = {s} /\ ~Done(@.run)
                                 THEN [@ EXCEPT !.pc = "last"] ELSE NoSession]
    /\ UNCHANGED <<state, cancelFn, rootDone, run, menu, queued, asked, by, read>>

SessionReports(s) ==
    /\ ses[s].pc = "last"
    /\ RunStatus(ses[s].run, "connecting")
    /\ ses' = [ses EXCEPT ![s] = NoSession]
    /\ UNCHANGED <<cancelFn, rootDone, run, menu, queued, asked, read>>

-----------------------------------------------------------------------------
RunNext(r) == \/ ReportFailure(r) \/ CloseListener(r) \/ Ready(r) \/ AcceptFails(r)
              \/ \E to \in {"ready", "box", "failed"} : Listen(r, to)
SessionNext(s) == SessionUp(s) \/ SessionEnds(s) \/ SessionReports(s)

TrayNext ==
    \/ \E r \in Runs : ToggleOn(r) \/ ReconnectStart(r) \/ RunNext(r) \/ BoxClosed(r)
    \/ ToggleOnFails \/ ToggleOff \/ Reconnect \/ ReconnectFails \/ MenuBoxClosed \/ Quit
    \/ AskReconnect
    \/ \E s \in Sessions : SessionNext(s) \/ \E r \in Runs : Accept(r, s)

TraySpec == TrayInit /\ [][TrayNext]_trayVars

\* Every run goes on as long as it can and has finitely many steps to take, but
\* Accept need not fail on an open listener.  So does every session, but nothing
\* makes HandleServerConn return: its loop may be blocked in a Deliver.  Nothing makes
\* the user click, on the menu or in a message box.
TrayFairness ==
    /\ \A r \in Runs : WF_trayVars(RunNext(r) /\ (run[r].bound => run'[r].pc # "over"))
    /\ \A s \in Sessions : WF_trayVars(SessionUp(s) \/ SessionReports(s))

TrayFairSpec == TraySpec /\ TrayFairness

-----------------------------------------------------------------------------
(* Properties.                                                             *)

\* Types, and no reconnect is lost: the channel holds one request and drops the
\* others, but after every one of them, also one asked for while a reconnect is under
\* way, the configuration is loaded, with the settings saved before, or is about to be.
RequestNotLost ==
    /\ TrayTypeOK
    /\ asked => queued \/ menu = "sleep"

\* However fast the toggle is clicked and reconnects are asked for, cancelFn is not
\* overwritten while its run goes on (which nobody could stop any more), unless
\* a run from before it has stored the state that this click, or one that ended in a
\* message box, has read.
CancelNotLost ==
    [][cancelFn' # cancelFn /\ cancelFn # Root /\ Live(cancelFn) => by \notin {NoRun, cancelFn}]_trayVars

\* A cancelled run, whatever it is doing, gives its port back, and none of its
\* sessions is left but those HandleServerConn is still busy with.  It returns, too,
\* unless it shows the error of its listener and nobody ever closes the box: the
\* context does not.
CancelledRunsEnd ==
    \A r \in Runs :
        /\ (run[r].pc # "none" /\ Done(r))
                ~> /\ run[r].pc \in {"box", "failed", "over"} /\ ~run[r].bound
                   /\ \A s \in Sessions : ses[s].run = r => ses[s].pc = "up"
        /\ \/ <>[](run[r].pc = "box")
           \/ (run[r].pc # "none" /\ Done(r)) ~> (run[r].pc = "over")
=============================================================================
