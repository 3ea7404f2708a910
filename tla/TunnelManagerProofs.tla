------------------------ MODULE TunnelManagerProofs ------------------------
(***************************************************************************)
(* Proofs, for every set of sessions, hosts, tunnels, ports and requests,  *)
(* of the safety properties of TunnelManager.                              *)
(***************************************************************************)
EXTENDS TunnelManager, TLAPS

\* The two registries follow the program counter of the session.
RegistriesFollowPhase ==
    \A s \in Sessions :
        /\ s \in clients <=> phase[s] \in Serving \cup {"registered", "rmTCP", "rmHTTP",
                                                       "deregCtrl", "deregClient"}
        /\ s \in writers <=> phase[s] \in Serving \cup {"rmTCP", "rmHTTP", "deregCtrl"}

\* Per-client lists are empty outside the part of the life that may fill them.
ListsFollowPhase ==
    \A s \in Sessions :
        /\ hostsOf[s] # {} => phase[s] \in Serving \cup {"rmTCP", "rmHTTP"}
        /\ byClient[s] # {} => phase[s] \in Serving \cup {"rmTCP"}

\* The TCP table and its per-client lists are one relation, and only tunnels in
\* the table have an open listener.
TunnelsMatchLists ==
    /\ \A s \in Sessions, t \in TunnelIDs : tunnels[t] = s <=> t \in byClient[s]
    /\ \A t \in TunnelIDs : listener[t].st = "open" => tunnels[t] # NoSession

\* A proxied connection holds a session that has at least entered its loop.
LookupsAreOld ==
    \A r \in Requests : req[r].st \in {"found", "ready"} =>
        /\ req[r].owner \in Sessions
        /\ phase[req[r].owner] \notin {"idle", "registered"}

\* The inductive invariant.
IInv ==
    /\ TypeOK
    /\ RegistriesFollowPhase
    /\ ListsFollowPhase
    /\ TunnelsMatchLists
    /\ RoutesMatchLists
    /\ LookupsAreOld
    /\ LookupFreshWhileServing

\* The value an idle proxy slot holds is well typed and names no lookup.
LEMMA IdleReqType ==
    IdleReq \in ReqType /\ IdleReq.st = "idle"
  BY DEF ReqType, IdleReq

\* The empty tables of NewManager, NewClientRegistry and NewControlConnRegistry
\* satisfy the invariant.
LEMMA InitIInv == Init => IInv
<1> SUFFICES ASSUME Init PROVE IInv
  OBVIOUS
<1>1. TypeOK
  BY IdleReqType DEF Init, TypeOK, Phases
<1>2. RegistriesFollowPhase /\ ListsFollowPhase
  BY DEF Init, Serving, Writing, RegistriesFollowPhase, ListsFollowPhase
<1>3. TunnelsMatchLists /\ RoutesMatchLists
  BY NoSessionAssumption DEF Init, TunnelsMatchLists, RoutesMatchLists
<1>4. LookupsAreOld /\ LookupFreshWhileServing
  BY IdleReqType DEF Init, LookupsAreOld, LookupFreshWhileServing
<1> QED
  BY <1>1, <1>2, <1>3, <1>4 DEF IInv

\* Every step of the session goroutine preserves the invariant.
LEMMA SessionStepIInv ==
    ASSUME IInv, NEW s \in Sessions, SessionStep(s)
    PROVE  IInv'
<1> USE DEF IInv, Serving, Writing
<1>1. CASE RegisterAbort(s)
  <2>1. TypeOK'
    BY <1>1 DEF RegisterAbort, Goto, TypeOK, Phases, tcpVars, httpVars
  <2>2. RegistriesFollowPhase' /\ ListsFollowPhase'
    BY <1>1 DEF RegisterAbort, Goto, TypeOK, tcpVars, httpVars,
                RegistriesFollowPhase, ListsFollowPhase
  <2>3. TunnelsMatchLists' /\ RoutesMatchLists'
    BY <1>1 DEF RegisterAbort, tcpVars, httpVars, TunnelsMatchLists, RoutesMatchLists
  <2>4. LookupsAreOld' /\ LookupFreshWhileServing'
    BY <1>1 DEF RegisterAbort, Goto, TypeOK, tcpVars, httpVars, InLoop,
                LookupsAreOld, LookupFreshWhileServing
  <2> QED BY <2>1, <2>2, <2>3, <2>4
<1>2. CASE EnterLoop(s)
  <2>1. TypeOK'
    BY <1>2 DEF EnterLoop, Goto, TypeOK, Phases, tcpVars, httpVars
  <2>2. RegistriesFollowPhase' /\ ListsFollowPhase'
    BY <1>2 DEF EnterLoop, Goto, TypeOK, tcpVars, httpVars,
                RegistriesFollowPhase, ListsFollowPhase
  <2>3. TunnelsMatchLists' /\ RoutesMatchLists'
    BY <1>2 DEF EnterLoop, tcpVars, httpVars, TunnelsMatchLists, RoutesMatchLists
  <2>4. LookupsAreOld' /\ LookupFreshWhileServing'
    BY <1>2 DEF EnterLoop, Goto, TypeOK, tcpVars, httpVars, InLoop,
                LookupsAreOld, LookupFreshWhileServing
  <2> QED BY <2>1, <2>2, <2>3, <2>4
<1>3. ASSUME \/ LoopTop(s) \/ LeaveLoop(s) \/ OtherMessage(s) \/ DeliverBlocks(s)
             \/ \E want \in Ports : RequestTunnelRefused(s, want)
      PROVE  IInv'
  <2>0. /\ phase[s] \in {"top", "read"}
        /\ \E p \in {"top", "read", "deliver", "reply", "ack", "rmTCP"} : Goto(s, p)
        /\ UNCHANGED <<conn, ctxDone, rootDone, regVars, tcpVars, httpVars, req>>
    BY <1>3 DEF LoopTop, LeaveLoop, OtherMessage, DeliverBlocks, RequestTunnelRefused, Received, Goto
  <2>1. TypeOK'
    BY <2>0 DEF Goto, TypeOK, Phases, regVars, tcpVars, httpVars
  <2>2. RegistriesFollowPhase' /\ ListsFollowPhase'
    BY <2>0 DEF Goto, TypeOK, regVars, tcpVars, httpVars,
                RegistriesFollowPhase, ListsFollowPhase
  <2>3. TunnelsMatchLists' /\ RoutesMatchLists'
    BY <2>0 DEF tcpVars, httpVars, TunnelsMatchLists, RoutesMatchLists
  <2>4. LookupsAreOld' /\ LookupFreshWhileServing'
    BY <2>0 DEF Goto, TypeOK, tcpVars, httpVars, InLoop,
                LookupsAreOld, LookupFreshWhileServing
  <2> QED BY <2>1, <2>2, <2>3, <2>4
<1>4. ASSUME NEW want \in Ports \cup {AnyPort}, NEW t \in TunnelIDs, NEW p \in Ports,
             RequestTunnel(s, want, t, p)
      PROVE  IInv'
  <2>1. TypeOK'
    BY <1>4 DEF RequestTunnel, Received, Goto, TypeOK, Phases, regVars, httpVars
  <2>2. RegistriesFollowPhase' /\ ListsFollowPhase'
    BY <1>4 DEF RequestTunnel, Received, Goto, TypeOK, regVars, httpVars,
                RegistriesFollowPhase, ListsFollowPhase
  <2>3. TunnelsMatchLists'
    BY <1>4, NoSessionAssumption DEF RequestTunnel, TypeOK, TunnelsMatchLists
  <2>4. RoutesMatchLists'
    BY <1>4 DEF RequestTunnel, httpVars, RoutesMatchLists
  <2>5. LookupsAreOld' /\ LookupFreshWhileServing'
    BY <1>4 DEF RequestTunnel, Received, Goto, TypeOK, httpVars, InLoop,
                LookupsAreOld, LookupFreshWhileServing
  <2> QED BY <2>1, <2>2, <2>3, <2>4, <2>5
<1>5. ASSUME NEW k \in Keys, RequestHTTPTunnel(s, k)
      PROVE  IInv'
  <2>t. /\ routes \in [Keys -> Sessions \cup {NoSession}]
        /\ hostsOf \in [Sessions -> SUBSET Keys]
    BY DEF TypeOK
  <2>a. routes' \in [Keys -> Sessions \cup {NoSession}] /\ hostsOf' \in [Sessions -> SUBSET Keys]
    BY <1>5, <2>t DEF RequestHTTPTunnel, AddHTTPTunnel
  <2>c. phase' \in [Sessions -> Phases]
    BY <1>5 DEF RequestHTTPTunnel, Received, Goto, TypeOK, Phases
  <2>1. TypeOK'
    BY <1>5, <2>a, <2>c DEF RequestHTTPTunnel, TypeOK, regVars, tcpVars
  <2>2. RegistriesFollowPhase' /\ ListsFollowPhase'
    BY <1>5 DEF RequestHTTPTunnel, AddHTTPTunnel, Received, Goto, TypeOK, regVars, tcpVars,
                RegistriesFollowPhase, ListsFollowPhase
  <2>3. TunnelsMatchLists'
    BY <1>5 DEF RequestHTTPTunnel, tcpVars, TunnelsMatchLists
  <2>4. RoutesMatchLists'
    BY <1>5, <2>t, NoSessionAssumption
       DEF RequestHTTPTunnel, AddHTTPTunnel, RoutesMatchLists
  <2>5. LookupsAreOld'
    BY <1>5 DEF RequestHTTPTunnel, Received, Goto, TypeOK, LookupsAreOld
  <2>6. ASSUME NEW r \in Requests, req[r].st \in {"found", "ready"}, InLoop(req[r].owner)'
        PROVE  routes'[req[r].key] = req[r].owner
    <3>t. phase \in [Sessions -> Phases] /\ req[r] \in ReqType
      BY DEF TypeOK
    <3>1. req[r].owner \in Sessions /\ req[r].key \in Keys
      BY <2>6, <3>t, IdleReqType DEF ReqType
    <3>2. InLoop(req[r].owner)
      BY <1>5, <2>6, <3>t, <3>1 DEF RequestHTTPTunnel, Received, Goto, InLoop
    <3>3. routes[req[r].key] = req[r].owner
      BY <2>6, <3>2 DEF LookupFreshWhileServing
    <3> QED
      BY <1>5, <2>t, <3>1, <3>3, NoSessionAssumption DEF RequestHTTPTunnel, AddHTTPTunnel
  <2>7. LookupFreshWhileServing'
    BY <1>5, <2>6 DEF RequestHTTPTunnel, LookupFreshWhileServing
  <2> QED BY <2>1, <2>2, <2>3, <2>4, <2>5, <2>7
<1>6. CASE RemoveTunnelsForClient(s)
  <2>1. TypeOK'
    BY <1>6 DEF RemoveTunnelsForClient, Goto, TypeOK, Phases, regVars, httpVars
  <2>2. RegistriesFollowPhase' /\ ListsFollowPhase'
    BY <1>6 DEF RemoveTunnelsForClient, Goto, TypeOK, regVars, httpVars,
                RegistriesFollowPhase, ListsFollowPhase
  <2>3. TunnelsMatchLists'
    BY <1>6, NoSessionAssumption DEF RemoveTunnelsForClient, TypeOK, TunnelsMatchLists
  <2>4. RoutesMatchLists'
    BY <1>6 DEF RemoveTunnelsForClient, httpVars, RoutesMatchLists
  <2>5. LookupsAreOld' /\ LookupFreshWhileServing'
    BY <1>6 DEF RemoveTunnelsForClient, Goto, TypeOK, httpVars, InLoop,
                LookupsAreOld, LookupFreshWhileServing
  <2> QED BY <2>1, <2>2, <2>3, <2>4, <2>5
<1>7. CASE RemoveHTTPTunnelsForClient(s)
  <2>1. TypeOK'
    BY <1>7 DEF RemoveHTTPTunnelsForClient, Goto, TypeOK, Phases, regVars, tcpVars
  <2>2. RegistriesFollowPhase' /\ ListsFollowPhase'
    BY <1>7 DEF RemoveHTTPTunnelsForClient, Goto, TypeOK, regVars, tcpVars,
                RegistriesFollowPhase, ListsFollowPhase
  <2>3. TunnelsMatchLists'
    BY <1>7 DEF RemoveHTTPTunnelsForClient, tcpVars, TunnelsMatchLists
  <2>4. RoutesMatchLists'
    BY <1>7, NoSessionAssumption DEF RemoveHTTPTunnelsForClient, TypeOK, RoutesMatchLists
  <2>5. LookupsAreOld'
    BY <1>7 DEF RemoveHTTPTunnelsForClient, Goto, TypeOK, LookupsAreOld
  <2>6. ASSUME NEW r \in Requests, req[r].st \in {"found", "ready"}, InLoop(req[r].owner)'
        PROVE  routes'[req[r].key] = req[r].owner
    <3>t. /\ phase \in [Sessions -> Phases]
          /\ routes \in [Keys -> Sessions \cup {NoSession}]
          /\ req[r] \in ReqType
      BY DEF TypeOK
    <3>1. req[r].owner \in Sessions /\ req[r].key \in Keys
      BY <2>6, <3>t, IdleReqType DEF ReqType
    <3>2. req[r].owner # s /\ InLoop(req[r].owner)
      BY <1>7, <2>6, <3>t, <3>1 DEF RemoveHTTPTunnelsForClient, Goto, InLoop
    <3>3. routes[req[r].key] = req[r].owner
      BY <2>6, <3>2 DEF LookupFreshWhileServing
    <3>4. req[r].key \notin hostsOf[s]
      BY <3>1, <3>2, <3>3 DEF RoutesMatchLists
    <3> QED
      BY <1>7, <3>1, <3>3, <3>4 DEF RemoveHTTPTunnelsForClient
  <2>7. LookupFreshWhileServing'
    BY <1>7, <2>6 DEF RemoveHTTPTunnelsForClient, LookupFreshWhileServing
  <2> QED BY <2>1, <2>2, <2>3, <2>4, <2>5, <2>7
<1>8. ASSUME DeregisterCtrl(s) \/ DeregisterClient(s) \/ CancelContext(s) \/ CloseConn(s)
      PROVE  IInv'
  <2>0. /\ phase[s] \in {"deregCtrl", "deregClient", "cancel", "closeConn"}
        /\ \E p \in {"deregClient", "cancel", "closeConn", "closed"} : Goto(s, p)
        /\ UNCHANGED <<tcpVars, httpVars, req>>
    BY <1>8 DEF DeregisterCtrl, DeregisterClient, CancelContext, CloseConn
  <2>1. TypeOK'
    BY <1>8 DEF DeregisterCtrl, DeregisterClient, CancelContext, CloseConn,
                Goto, TypeOK, Phases, regVars, tcpVars, httpVars
  <2>2. RegistriesFollowPhase'
    <3>1. CASE DeregisterCtrl(s)
      BY <3>1 DEF DeregisterCtrl, Goto, TypeOK, RegistriesFollowPhase
    <3>2. CASE DeregisterClient(s)
      BY <3>2 DEF DeregisterClient, Goto, TypeOK, RegistriesFollowPhase
    <3>3. CASE CancelContext(s) \/ CloseConn(s)
      BY <3>3 DEF CancelContext, CloseConn, Goto, TypeOK, regVars, RegistriesFollowPhase
    <3> QED BY <1>8, <3>1, <3>2, <3>3
  <2>3. ListsFollowPhase'
    BY <2>0 DEF Goto, TypeOK, tcpVars, httpVars, ListsFollowPhase
  <2>4. TunnelsMatchLists' /\ RoutesMatchLists'
    BY <2>0 DEF tcpVars, httpVars, TunnelsMatchLists, RoutesMatchLists
  <2>5. LookupsAreOld' /\ LookupFreshWhileServing'
    BY <2>0 DEF Goto, TypeOK, httpVars, InLoop, LookupsAreOld, LookupFreshWhileServing
  <2> QED BY <2>1, <2>2, <2>3, <2>4, <2>5
<1> QED
  BY <1>1, <1>2, <1>3, <1>4, <1>5, <1>6, <1>7, <1>8 DEF SessionStep, Cleanup

\* So does everything the other goroutines and the environment do.
LEMMA OtherStepIInv ==
    ASSUME IInv,
           \/ \E s \in Sessions : Environment(s) \/ Written(s)
           \/ Shutdown
           \/ \E t \in TunnelIDs : ListenerCtxClose(t)
           \/ \E r \in Requests : ProxyStep(r)
           \/ UNCHANGED vars
    PROVE  IInv'
<1> USE DEF IInv, Serving, Writing
<1>1. ASSUME NEW s \in Sessions, Register(s)
      PROVE  IInv'
  <2>1. TypeOK'
    BY <1>1 DEF Register, Goto, TypeOK, Phases, tcpVars, httpVars
  <2>2. RegistriesFollowPhase' /\ ListsFollowPhase'
    BY <1>1 DEF Register, Goto, TypeOK, tcpVars, httpVars,
                RegistriesFollowPhase, ListsFollowPhase
  <2>3. TunnelsMatchLists' /\ RoutesMatchLists'
    BY <1>1 DEF Register, tcpVars, httpVars, TunnelsMatchLists, RoutesMatchLists
  <2>4. LookupsAreOld' /\ LookupFreshWhileServing'
    BY <1>1 DEF Register, Goto, TypeOK, tcpVars, httpVars, InLoop,
                LookupsAreOld, LookupFreshWhileServing
  <2> QED BY <2>1, <2>2, <2>3, <2>4
<1>2. ASSUME \/ \E s \in Sessions : Break(s) \/ HeartbeatTimeout(s) \/ Disconnect(s)
             \/ Shutdown
             \/ UNCHANGED vars
      PROVE  IInv'
  <2>0. /\ UNCHANGED <<phase, regVars, tcpVars, httpVars, req>>
        /\ conn' \in [Sessions -> {"none", "open", "broken", "closed"}]
        /\ ctxDone' \in [Sessions -> BOOLEAN]
        /\ rootDone' \in BOOLEAN
    BY <1>2 DEF Break, HeartbeatTimeout, Disconnect, Shutdown, vars, sessVars, TypeOK
  <2>1. TypeOK'
    BY <2>0 DEF TypeOK, regVars, tcpVars, httpVars
  <2>2. /\ RegistriesFollowPhase' /\ ListsFollowPhase'
        /\ TunnelsMatchLists' /\ RoutesMatchLists'
    BY <2>0 DEF regVars, tcpVars, httpVars, RegistriesFollowPhase, ListsFollowPhase,
                TunnelsMatchLists, RoutesMatchLists
  <2>3. LookupsAreOld' /\ LookupFreshWhileServing'
    BY <2>0 DEF httpVars, InLoop, LookupsAreOld, LookupFreshWhileServing
  <2> QED BY <2>1, <2>2, <2>3
<1>3. ASSUME NEW t \in TunnelIDs, ListenerCtxClose(t)
      PROVE  IInv'
  <2>1. TypeOK'
    BY <1>3 DEF ListenerCtxClose, TypeOK, sessVars, regVars, httpVars
  <2>2. RegistriesFollowPhase' /\ ListsFollowPhase' /\ RoutesMatchLists'
    BY <1>3 DEF ListenerCtxClose, sessVars, regVars, httpVars,
                RegistriesFollowPhase, ListsFollowPhase, RoutesMatchLists
  <2>3. TunnelsMatchLists'
    BY <1>3 DEF ListenerCtxClose, TypeOK, TunnelsMatchLists
  <2>4. LookupsAreOld' /\ LookupFreshWhileServing'
    BY <1>3 DEF ListenerCtxClose, sessVars, httpVars, InLoop,
                LookupsAreOld, LookupFreshWhileServing
  <2> QED BY <2>1, <2>2, <2>3, <2>4
<1>4. ASSUME NEW r \in Requests, ProxyStep(r)
      PROVE  IInv'
  <2>0. UNCHANGED <<sessVars, regVars, tcpVars, httpVars>>
    BY <1>4 DEF ProxyStep, ProxyLookup, ProxyGetWriter, ProxySend
  <2>1. /\ RegistriesFollowPhase' /\ ListsFollowPhase'
        /\ TunnelsMatchLists' /\ RoutesMatchLists'
    BY <2>0 DEF sessVars, regVars, tcpVars, httpVars, RegistriesFollowPhase,
                ListsFollowPhase, TunnelsMatchLists, RoutesMatchLists
  <2>2. ASSUME NEW k \in Keys, ProxyLookup(r, k)
        PROVE  TypeOK' /\ LookupsAreOld' /\ LookupFreshWhileServing'
    <3>b. routes[k] # NoSession => [st |-> "found", key |-> k, owner |-> routes[k]] \in ReqType
      BY DEF TypeOK, ReqType
    <3>1. TypeOK'
      BY <2>0, <2>2, <3>b, IdleReqType DEF ProxyLookup, TypeOK, sessVars, regVars, tcpVars, httpVars
    <3>2. routes[k] # NoSession => \/ InLoop(routes[k])
                                   \/ phase[routes[k]] \in {"rmTCP", "rmHTTP"}
      BY DEF RoutesMatchLists, ListsFollowPhase, TypeOK, InLoop
    <3>3. routes[k] # NoSession => routes[k] \in Sessions
      BY DEF TypeOK
    <3>4. LookupsAreOld'
      BY <2>0, <2>2, <3>2, <3>3, IdleReqType DEF ProxyLookup, TypeOK, sessVars, InLoop, LookupsAreOld
    <3>5. LookupFreshWhileServing'
      BY <2>0, <2>2, IdleReqType DEF ProxyLookup, TypeOK, sessVars, httpVars, InLoop, LookupFreshWhileServing
    <3> QED BY <3>1, <3>4, <3>5
  <2>3. CASE ProxyGetWriter(r) \/ ProxySend(r)
    <3>a. req[r].st \in {"found", "ready"}
      BY <2>3 DEF ProxyGetWriter, ProxySend
    <3>b. [req[r] EXCEPT !.st = "ready"] \in ReqType
      BY <3>a, IdleReqType DEF TypeOK, ReqType
    <3>c. PICK x \in {IdleReq, [req[r] EXCEPT !.st = "ready"]} : req' = [req EXCEPT ![r] = x]
      BY <2>3 DEF ProxyGetWriter, ProxySend
    <3>d. x.st \in {"found", "ready"} => x.owner = req[r].owner /\ x.key = req[r].key
      BY <3>a, <3>c, IdleReqType DEF TypeOK, ReqType
    <3>1. TypeOK'
      BY <2>0, <3>b, <3>c, IdleReqType DEF TypeOK, sessVars, regVars, tcpVars, httpVars
    <3>2. LookupsAreOld' /\ LookupFreshWhileServing'
      BY <2>0, <3>a, <3>c, <3>d DEF TypeOK, sessVars, httpVars, InLoop,
                        LookupsAreOld, LookupFreshWhileServing
    <3> QED BY <2>1, <3>1, <3>2
  <2> QED BY <1>4, <2>1, <2>2, <2>3 DEF ProxyStep
<1>5. ASSUME NEW s \in Sessions, DeliverReturns(s) \/ ReplyWritten(s)
      PROVE  IInv'
  <2>0. /\ phase[s] \in Serving
        /\ \E p \in {"top", "rmTCP"} : Goto(s, p)
        /\ UNCHANGED <<conn, ctxDone, rootDone, regVars, tcpVars, httpVars, req>>
    BY <1>5 DEF DeliverReturns, ReplyWritten
  <2>1. TypeOK'
    BY <2>0 DEF Goto, TypeOK, Phases, regVars, tcpVars, httpVars
  <2>2. RegistriesFollowPhase' /\ ListsFollowPhase'
    BY <2>0 DEF Goto, TypeOK, regVars, tcpVars, httpVars,
                RegistriesFollowPhase, ListsFollowPhase
  <2>3. TunnelsMatchLists' /\ RoutesMatchLists'
    BY <2>0 DEF tcpVars, httpVars, TunnelsMatchLists, RoutesMatchLists
  <2>4. LookupsAreOld' /\ LookupFreshWhileServing'
    BY <2>0 DEF Goto, TypeOK, tcpVars, httpVars, InLoop,
                LookupsAreOld, LookupFreshWhileServing
  <2> QED BY <2>1, <2>2, <2>3, <2>4
<1>6. ASSUME NEW s \in Sessions, NEW t \in TunnelIDs, NEW ok \in BOOLEAN, TunnelReplied(s, t, ok)
      PROVE  IInv'
  <2>1. TypeOK'
    BY <1>6 DEF TunnelReplied, Goto, TypeOK, Phases, regVars, httpVars
  <2>2. RegistriesFollowPhase' /\ ListsFollowPhase'
    BY <1>6 DEF TunnelReplied, Goto, TypeOK, regVars, httpVars,
                RegistriesFollowPhase, ListsFollowPhase
  <2>3. TunnelsMatchLists' /\ RoutesMatchLists'
    BY <1>6, NoSessionAssumption DEF TunnelReplied, TypeOK, httpVars, TunnelsMatchLists,
                RoutesMatchLists
  <2>4. LookupsAreOld' /\ LookupFreshWhileServing'
    BY <1>6 DEF TunnelReplied, Goto, TypeOK, httpVars, InLoop,
                LookupsAreOld, LookupFreshWhileServing
  <2> QED BY <2>1, <2>2, <2>3, <2>4
<1> QED
  BY <1>1, <1>2, <1>3, <1>4, <1>5, <1>6 DEF Environment, Written

\* The invariant is inductive, hence true of every reachable state.
THEOREM Invariance == Spec => []IInv
<1>1. IInv /\ [Next]_vars => IInv'
  BY SessionStepIInv, OtherStepIInv DEF Next
<1> QED
  BY InitIInv, <1>1, PTL DEF Spec

\* All tables and program counters keep their types.
THEOREM TypeCorrect == Spec => []TypeOK
<1>1. IInv => TypeOK
  BY DEF IInv
<1> QED
  BY Invariance, <1>1, PTL

\* Cleanup by list is safe: the lists of RemoveHTTPTunnelsForClient name
\* exactly the slots that the client owns.
THEOREM CleanupRemovesOwnRoutes == Spec => []RoutesMatchLists
<1>1. IInv => RoutesMatchLists
  BY DEF IInv
<1> QED
  BY Invariance, <1>1, PTL

\* A slot found by the HTTP or HTTPS proxy leads to a registered writer.
THEOREM RoutesAreReachable == Spec => []RouteOwnerReachable
<1>1. IInv => RouteOwnerReachable
  <2> SUFFICES ASSUME IInv, NEW k \in Keys, routes[k] # NoSession
               PROVE  /\ routes[k] \in writers \cap clients
                      /\ phase[routes[k]] \in Serving \cup {"rmTCP", "rmHTTP"}
    BY DEF RouteOwnerReachable
  <2>1. routes[k] \in Sessions /\ hostsOf[routes[k]] # {}
    BY DEF IInv, TypeOK, RoutesMatchLists
  <2> QED
    BY <2>1 DEF IInv, ListsFollowPhase, RegistriesFollowPhase
<1> QED
  BY Invariance, <1>1, PTL

\* The routing decision of the proxy stays valid while its session serves.
THEOREM LookupsStayFresh == Spec => []LookupFreshWhileServing
<1>1. IInv => LookupFreshWhileServing
  BY DEF IInv
<1> QED
  BY Invariance, <1>1, PTL

\* No public listener outlives the session that opened it.
THEOREM NoListenerLeak == Spec => []OpenListenersTracked
<1>1. IInv => OpenListenersTracked
  <2> SUFFICES ASSUME IInv, NEW t \in TunnelIDs, listener[t].st = "open"
               PROVE  /\ tunnels[t] # NoSession
                      /\ t \in byClient[tunnels[t]]
                      /\ phase[tunnels[t]] \in Serving \cup {"rmTCP"}
    BY DEF OpenListenersTracked
  <2>1. tunnels[t] \in Sessions /\ t \in byClient[tunnels[t]]
    BY DEF IInv, TypeOK, TunnelsMatchLists
  <2> QED
    BY <2>1, NoSessionAssumption DEF IInv, ListsFollowPhase
<1> QED
  BY Invariance, <1>1, PTL

\* A slot of a serving session changes hands in no step of anybody.
THEOREM RoutesAreNotTakenOver == Spec => NoRouteTakeover
<1>1. ASSUME IInv, [Next]_vars
      PROVE  [\A k \in Keys : routes[k] # NoSession /\ InLoop(routes[k]) => routes'[k] = routes[k]]_vars
  <2> SUFFICES ASSUME Next, NEW k \in Keys, routes[k] # NoSession, InLoop(routes[k])
               PROVE  routes'[k] = routes[k]
    BY <1>1
  <2>1. routes[k] \in Sessions
    BY <1>1 DEF IInv, TypeOK
  <2>2. ASSUME NEW s \in Sessions, NEW j \in Keys, RequestHTTPTunnel(s, j)
        PROVE  routes'[k] = routes[k]
    BY <1>1, <2>2 DEF IInv, TypeOK, RequestHTTPTunnel, AddHTTPTunnel
  <2>3. ASSUME NEW s \in Sessions, RemoveHTTPTunnelsForClient(s)
        PROVE  routes'[k] = routes[k]
    BY <1>1, <2>1, <2>3 DEF IInv, RoutesMatchLists, RemoveHTTPTunnelsForClient, InLoop, Serving, Writing
  <2>4. ASSUME NEW s \in Sessions, SessionStep(s)
        PROVE  routes'[k] = routes[k]
    BY <2>2, <2>3, <2>4 DEF SessionStep, Cleanup, RegisterAbort, EnterLoop, LoopTop,
       LeaveLoop, RequestTunnelRefused, RequestTunnel, OtherMessage, DeliverBlocks,
       RemoveTunnelsForClient,
       DeregisterCtrl, DeregisterClient, CancelContext, CloseConn, httpVars
  <2>5. CASE ~ \E s \in Sessions : SessionStep(s)
    BY <2>5 DEF Next, Environment, Register, Break, HeartbeatTimeout, Disconnect, DeliverReturns, Shutdown,
       Written, TunnelReplied, ReplyWritten,
       ListenerCtxClose, ProxyStep, ProxyLookup, ProxyGetWriter, ProxySend, httpVars
  <2> QED BY <2>4, <2>5
<1> QED
  BY Invariance, <1>1, PTL DEF Spec, NoRouteTakeover
=============================================================================
