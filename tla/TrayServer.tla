----------------------------- MODULE TrayServer -----------------------------
(***************************************************************************)
(* The Windows server's life cycle (cmd/winserver/main.go, status.go) and  *)
(* the application it runs (internal/app/server_app.go): the server is     *)
(* started and restarted from the tray's menu and from the console, whose  *)
(* threads share currentApp, appCancel and srvRunning; every start has a   *)
(* goroutine of its own that runs ServerApp.Start, and that has listeners  *)
(* and dial loops.                                                         *)
(*                                                                         *)
(* Call i of startServer and the application it makes have one name.  The  *)
(* first call is the tray's at its start; every other one follows a        *)
(* stopServer, 900 ms later, in restartServer.                             *)
(***************************************************************************)
EXTENDS Naturals

CONSTANTS
    MaxStarts,   \* bound: calls of startServer
    Ports,       \* addresses Start cannot do without, in its order: 1..Ports
    Targets      \* clients the server dials

ASSUME StartsAssumption == MaxStarts \in Nat \ {0}
ASSUME PortsAssumption == Ports \in Nat

Apps == 1..MaxStarts
NoApp == 0

VARIABLES
    currentApp,   \* currentApp; appCancel is the cancel function of the same one
    srvRunning,   \* srvRunning
    call,         \* call[i]: the thread in restartServer and startServer
    app,          \* app[i]: the goroutine of Start
    done,         \* the applications whose context is cancelled
    bound,        \* bound[i]: addresses an application listens on
    loop,         \* loop[i][t]: dialClientLoop
    shown,        \* the status in the tray; "stale" is a "running", see ShowRunning
    quit,         \* the process has exited
    stopped       \* history: markStopped ran since the last setApp

trayVars == <<currentApp, srvRunning, call, app, done, bound, loop, shown, quit, stopped>>

TrayTypeOK ==
    /\ currentApp \in Apps \cup {NoApp}
    /\ srvRunning \in BOOLEAN
    /\ call \in [Apps -> {"none", "mark", "show", "sleep", "box", "wait",
                       "failed", "over"}]
    /\ app \in [Apps -> [pc : {"none", "listen", "serve", "broadcast", "drain", "returned",
                               "cleared", "over"},
                         next : 1..(Ports + 1)]]
    /\ done \subseteq Apps
    /\ bound \in [Apps -> SUBSET (1..Ports)]
    /\ loop \in [Apps -> [Targets -> {"off", "dialing", "serving"}]]
    /\ shown \in {"starting", "restarting", "running", "stale", "failed"}
    /\ quit \in BOOLEAN
    /\ stopped \in BOOLEAN

NotStarted == [pc |-> "none", next |-> 1]

TrayInit ==
    /\ currentApp = NoApp
    /\ srvRunning = FALSE
    /\ app = [i \in Apps |-> NotStarted]
    /\ done = {}
    /\ bound = [i \in Apps |-> {}]
    /\ loop = [i \in Apps |-> [t \in Targets |-> "off"]]
    /\ shown = "starting"
    /\ stopped = FALSE
    /\ call = [i \in Apps |-> IF i = 1 THEN "sleep" ELSE "none"]
    /\ quit = FALSE

statusVars == <<currentApp, srvRunning, stopped>>
appVars == <<app, bound, loop>>

-----------------------------------------------------------------------------
(* restartServer and stopServer.                                           *)

\* The menu goroutine and the console's thread; neither before the first start, which
\* runs on the menu goroutine.
MayClick == call[1] \in {"failed", "over"}

\* stopServer takes appCancel under the lock and calls it.
CancelCurrent == done' = done \cup ({currentApp} \ {NoApp})

RestartServer(i) ==
    /\ MayClick
    /\ call[i] = "none"
    /\ \A j \in 1..(i - 1) : call[j] # "none"
    /\ CancelCurrent
    /\ call' = [call EXCEPT ![i] = "mark"]
    /\ UNCHANGED <<statusVars, appVars, shown, quit>>

\* markStopped, whichever application is current by now.
MarkStopped(i) ==
    /\ call[i] = "mark"
    /\ srvRunning' = FALSE
    /\ stopped' = TRUE
    /\ call' = [call EXCEPT ![i] = "show"]
    /\ UNCHANGED <<currentApp, appVars, done, shown, quit>>

ShowRestarting(i) ==
    /\ call[i] = "show"
    /\ shown' = "restarting"
    /\ call' = [call EXCEPT ![i] = "sleep"]
    /\ UNCHANGED <<statusVars, appVars, done, quit>>

\* The menu's Quit is a stopServer too, and 700 ms later the process exits.
Exit(i) ==
    /\ call[i] = "show"
    /\ quit' = TRUE
    /\ call' = [call EXCEPT ![i] = "over"]
    /\ UNCHANGED <<statusVars, appVars, done, shown>>

-----------------------------------------------------------------------------
(* startServer.                                                            *)

\* The configuration cannot be loaded, or NewServerApp refuses it: showError opens a
\* modal box, and the thread is in it until somebody clicks.
StartRefused(i) ==
    /\ call[i] = "sleep"
    /\ call' = [call EXCEPT ![i] = "box"]
    /\ UNCHANGED <<statusVars, appVars, done, shown, quit>>

\* setStatus comes after the box.
BoxClosed(i) ==
    /\ call[i] = "box"
    /\ shown' = "failed"
    /\ call' = [call EXCEPT ![i] = "failed"]
    /\ UNCHANGED <<statusVars, appVars, done, quit>>

\* setApp, and the goroutine of Start.
SetApp(i) ==
    /\ call[i] = "sleep"
    /\ currentApp' = i
    /\ srvRunning' = TRUE
    /\ stopped' = FALSE
    /\ app' = [app EXCEPT ![i].pc = "listen"]
    /\ call' = [call EXCEPT ![i] = "wait"]
    /\ UNCHANGED <<done, bound, loop, shown, quit>>

\* Start's error arrives within 350 ms; the goroutine of Start shows it.
HeardError(i) ==
    /\ call[i] = "wait"
    /\ app[i].pc \in {"returned", "cleared", "over"}
    /\ call' = [call EXCEPT ![i] = "failed"]
    /\ UNCHANGED <<statusVars, appVars, done, shown, quit>>

\* The last click so far is the one that made call i.
Newest(i) == i = MaxStarts \/ call[i + 1] = "none"

\* The 350 ms are over.  "running" is stale when a click came in between.
ShowRunning(i) ==
    /\ call[i] = "wait"
    /\ shown' = IF Newest(i) THEN "running" ELSE "stale"
    /\ call' = [call EXCEPT ![i] = "over"]
    /\ UNCHANGED <<statusVars, appVars, done, quit>>

-----------------------------------------------------------------------------
(* ServerApp.Start and the end of its goroutine.                           *)

\* The next address.  The ones before it stay open when it cannot be had.
ListenOk(i) ==
    LET p == app[i].next IN
    /\ app[i].pc = "listen"
    /\ p <= Ports
    /\ \A j \in Apps : p \notin bound[j]
    /\ bound' = [bound EXCEPT ![i] = @ \cup {p}]
    /\ app' = [app EXCEPT ![i].next = p + 1]
    /\ UNCHANGED <<statusVars, call, done, loop, shown, quit>>

ListenFails(i) ==
    /\ app[i].pc = "listen"
    /\ app[i].next <= Ports
    /\ app' = [app EXCEPT ![i] = [pc |-> "returned", next |-> 1]]
    /\ UNCHANGED <<statusVars, call, done, bound, loop, shown, quit>>

\* startClientDialLoops: one goroutine per target.
Serve(i) ==
    /\ app[i].pc = "listen"
    /\ app[i].next > Ports
    /\ app' = [app EXCEPT ![i] = [pc |-> "serve", next |-> 1]]
    /\ loop' = [loop EXCEPT ![i] = [t \in Targets |-> "dialing"]]
    /\ UNCHANGED <<statusVars, call, done, bound, shown, quit>>

\* The context is done: broadcastDisconnect writes to every registered client.
Broadcast(i) ==
    /\ app[i].pc = "serve"
    /\ i \in done
    /\ app' = [app EXCEPT ![i].pc = "broadcast"]
    /\ UNCHANGED <<statusVars, call, done, bound, loop, shown, quit>>

\* The writes have no deadline, and the 5 s of the wait begin after them: one to a
\* client that does not read lasts as long as that client's session.
MayBlock(i) == \E t \in Targets : loop[i][t] = "serving"

\* All are written, or have failed; then the wait for the loops.
Drain(i) ==
    /\ app[i].pc = "broadcast"
    /\ app' = [app EXCEPT ![i].pc = "drain"]
    /\ UNCHANGED <<statusVars, call, done, bound, loop, shown, quit>>

\* All loops have ended, or 5 s are over.
StartReturns(i) ==
    /\ app[i].pc = "drain"
    /\ app' = [app EXCEPT ![i].pc = "returned"]
    /\ UNCHANGED <<statusVars, call, done, bound, loop, shown, quit>>

\* clearRunningIf compares, since another application may be current by now.
ClearRunningIf_Always(i) ==
    /\ app[i].pc = "returned"
    /\ srvRunning' = FALSE
    /\ app' = [app EXCEPT ![i].pc = "cleared"]
    /\ UNCHANGED <<currentApp, stopped, call, done, bound, loop, shown, quit>>
ClearRunningIf(i) ==
    /\ app[i].pc = "returned"
    /\ srvRunning' = (srvRunning /\ currentApp # i)
    /\ app' = [app EXCEPT ![i].pc = "cleared"]
    /\ UNCHANGED <<currentApp, stopped, call, done, bound, loop, shown, quit>>

\* An error that is not the end of the context is shown.
Report_Silent(i) ==
    /\ app[i].pc = "cleared"
    /\ app' = [app EXCEPT ![i].pc = "over"]
    /\ UNCHANGED <<statusVars, call, done, bound, loop, shown, quit>>
Report(i) ==
    /\ app[i].pc = "cleared"
    /\ shown' = IF i \in done THEN shown ELSE "failed"
    /\ app' = [app EXCEPT ![i].pc = "over"]
    /\ UNCHANGED <<statusVars, call, done, bound, loop, quit>>

\* Every listener has a goroutine that closes it when the context is done.
CloseListener_WhenServing(i, p) ==
    /\ i \in done
    /\ p \in bound[i]
    /\ app[i].pc \in {"serve", "broadcast", "drain"}
    /\ bound' = [bound EXCEPT ![i] = @ \ {p}]
    /\ UNCHANGED <<statusVars, call, app, done, loop, shown, quit>>
CloseListener(i, p) ==
    /\ i \in done
    /\ p \in bound[i]
    /\ bound' = [bound EXCEPT ![i] = @ \ {p}]
    /\ UNCHANGED <<statusVars, call, app, done, loop, shown, quit>>

-----------------------------------------------------------------------------
(* dialClientLoop, in which a dial that fails is repeated after a pause.   *)

LoopGoes(i, t, from, to) ==
    /\ loop[i][t] = from
    /\ loop' = [loop EXCEPT ![i][t] = to]
    /\ UNCHANGED <<statusVars, call, app, done, bound, shown, quit>>

DialOk(i, t) == i \notin done /\ LoopGoes(i, t, "dialing", "serving")

\* HandleControlConn returns.
ConnEnds(i, t) == LoopGoes(i, t, "serving", IF i \in done THEN "off" ELSE "dialing")

\* The context is done, which the dial and the pauses watch.
LoopEnds(i, t) == i \in done /\ LoopGoes(i, t, "dialing", "off")

-----------------------------------------------------------------------------
CallStep(i) ==
    \/ MarkStopped(i) \/ ShowRestarting(i) \/ StartRefused(i) \/ SetApp(i)
    \/ HeardError(i) \/ ShowRunning(i)
AppStep(i) ==
    \/ ListenOk(i) \/ ListenFails(i) \/ Serve(i) \/ Broadcast(i) \/ StartReturns(i)
    \/ ClearRunningIf(i) \/ Report(i) \/ \E p \in 1..Ports : CloseListener(i, p)
DialStep(i, t) == DialOk(i, t) \/ ConnEnds(i, t) \/ LoopEnds(i, t)

TrayNext ==
    /\ ~quit
    /\ \E i \in Apps : \/ RestartServer(i) \/ Exit(i) \/ CallStep(i) \/ BoxClosed(i)
                       \/ AppStep(i) \/ Drain(i)
                       \/ \E t \in Targets : DialStep(i, t)

TraySpec == TrayInit /\ [][TrayNext]_trayVars

\* The threads and goroutines go on as long as they can, and all of them together have
\* finitely many steps to take.  Nobody has to accept a dial, and nothing makes
\* HandleControlConn return: its loop may be blocked in a Deliver.  Nobody has to click
\* a message box away, and no client has to read what is broadcast.
TrayFairness ==
    WF_trayVars(/\ ~quit
                /\ \E i \in Apps : \/ CallStep(i) \/ AppStep(i)
                                   \/ ~MayBlock(i) /\ Drain(i)
                                   \/ \E t \in Targets : LoopEnds(i, t))

TrayFairSpec == TraySpec /\ TrayFairness

-----------------------------------------------------------------------------
(* Properties.                                                             *)

\* Types, and the console's running flag belongs to the current application: it is
\* set exactly while that one's Start has not returned and nobody has marked it as
\* stopped, however late the goroutines of earlier applications end.
FlagIsRight ==
    /\ TrayTypeOK
    /\ srvRunning <=> /\ currentApp # NoApp
                      /\ app[currentApp].pc \in {"listen", "serve", "broadcast", "drain", "returned"}
                      /\ ~stopped

\* An application that is cancelled, also one whose Start has failed with some of
\* its listeners open, gives back every address and dials nobody any more, and its
\* Start returns unless its broadcast is blocked behind a client it still serves; all
\* of it unless the process exits first.  (A cancelled application stays one, and a
\* broadcast blocks once: "leads to" excepts the ones that are blocked for ever.)
CancelledAppsEnd ==
    \A i \in Apps :
        (i \in done)
          ~> \/ /\ bound[i] = {}
                /\ \A t \in Targets : loop[i][t] # "dialing"
                /\ app[i].pc = "over" \/ (app[i].pc = "broadcast" /\ MayBlock(i))
             \/ quit

\* The tray does not go on showing "restarting" unless a message box of startServer is
\* open: whichever of overlapping restarts fails, one of them tells what became of the
\* server.  And it does not show "running" over an error that startServer met, or heard
\* from Start within its 350 ms, unless an earlier startServer was still waiting when
\* the last click came ("stale").  (An error after the 350 ms may be overwritten.)
RestartIsShown ==
    /\ (shown = "restarting")
        ~> (shown # "restarting" \/ quit \/ \E i \in Apps : call[i] = "box")
    /\ [](\A i \in Apps : call[i] = "failed" /\ app[i].pc \in {"none", "over"} /\ Newest(i)
            => shown # "running")
=============================================================================
