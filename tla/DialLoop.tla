------------------------------ MODULE DialLoop ------------------------------
(***************************************************************************)
(* How the server comes to trust a client and keeps dialling it:           *)
(*   cmd/server/main.go              dialClientLoop, tofuCheck             *)
(*   internal/control/approval.go    Approver                              *)
(*   internal/control/knownhosts.go  KnownHosts, in memory and on disk     *)
(*   internal/admin/api.go           handleDecide, handleKnownHosts        *)
(*                                                                         *)
(* One goroutine per configured client.  Two entries of the configuration  *)
(* may carry one name, and the name is the key of both the approval queue  *)
(* and the store.  Submit and Decide meet on a channel with one slot.      *)
(***************************************************************************)
CONSTANTS
    Loops,        \* dial loops, one per entry of cfg.Clients
    Names,        \* client names
    NameOf,       \* NameOf[l]: ClientTarget.Name
    Fps,          \* certificate fingerprints
    Reqs,         \* PendingRequest objects; one that nobody refers to is reused
    Ops,          \* concurrent calls of handleDecide
    AutoApprove,  \* cfg.AutoApprove
    NoReq, NoFp

ASSUME NoReqAssumption == NoReq \notin Reqs
ASSUME NoFpAssumption == NoFp \notin Fps
ASSUME NamesAssumption == Names # {}
ASSUME ConfigAssumption == /\ NameOf \in [Loops -> Names]
                           /\ AutoApprove \in BOOLEAN

VARIABLES
    pc,        \* pc[l]: where the dial loop is
    fp,        \* fp[l]: fingerprint of the certificate of its connection
    mine,      \* mine[l]: the request its Submit waits on
    req,       \* req[r]: slot of the channel decision, the name and fingerprint it
               \* shows, and what its Submit returns ("open" until that is known)
    pending,   \* Approver.pending
    known,     \* KnownHosts.hosts
    disk,      \* contents of known_hosts.yaml
    op,        \* op[o]: one call of Decide
    approved,  \* history: name and fingerprint of every request an approval was sent to
    early,     \* history: loops that looked their name up before it was pinned and
               \* have not heard from their operator or stored their answer yet
    rootDone   \* the root context is cancelled

loopVars  == <<pc, fp, mine>>
reqVars   == <<req, pending>>
storeVars == <<known, disk, early>>
vars      == <<loopVars, reqVars, storeVars, op, approved, rootDone>>

Decisions == {"approved", "rejected"}
Pairs == Names \X Fps
NewReq(n, f) == [slot |-> "empty", name |-> n, fp |-> f, outcome |-> "open"]
FreeReq == NewReq(CHOOSE n \in Names : TRUE, NoFp)
IdleOp == [st |-> "idle", req |-> NoReq]

\* Types of the loops, the approval queue and the store.
TypeOK ==
    /\ pc \in [Loops -> {"dial", "tofu", "submit", "wait", "leave", "add", "serve",
                         "backoff", "stopped"}]
    /\ fp \in [Loops -> Fps \cup {NoFp}]
    /\ mine \in [Loops -> Reqs \cup {NoReq}]
    /\ req \in [Reqs -> [slot : Decisions \cup {"empty"}, name : Names, fp : Fps \cup {NoFp},
                         outcome : Decisions \cup {"open"}]]
    /\ pending \in [Names -> Reqs \cup {NoReq}]
    /\ known \in [Names -> Fps \cup {NoFp}]
    /\ disk \in [Names -> Fps \cup {NoFp}]
    /\ op \in [Ops -> [st : {"idle", "send"}, req : Reqs \cup {NoReq}]]
    /\ approved \subseteq Pairs
    /\ early \subseteq Loops
    /\ rootDone \in BOOLEAN

Init ==
    /\ pc = [l \in Loops |-> "dial"]
    /\ fp = [l \in Loops |-> NoFp]
    /\ mine = [l \in Loops |-> NoReq]
    /\ req = [r \in Reqs |-> FreeReq]
    /\ pending = [n \in Names |-> NoReq]
    /\ known = [n \in Names |-> NoFp]
    /\ disk = [n \in Names |-> NoFp]
    /\ op = [o \in Ops |-> IdleOp]
    /\ approved = {}
    /\ early = {}
    /\ rootDone = FALSE

Goto(l, p) == pc' = [pc EXCEPT ![l] = p]

\* The connection, if there is one, is closed; the wait of backoff.Next(), or the
\* return when the context is done.  How long the wait is decides nothing here.
Pause(l) ==
    /\ fp' = [fp EXCEPT ![l] = NoFp]
    /\ Goto(l, IF rootDone THEN "stopped" ELSE "backoff")

-----------------------------------------------------------------------------
(* dialClientLoop and tofuCheck.                                           *)

\* TLS is up and the peer presented the certificate f.
Dial(l, f) ==
    /\ pc[l] = "dial"
    /\ ~rootDone
    /\ fp' = [fp EXCEPT ![l] = f]
    /\ Goto(l, "tofu")
    /\ UNCHANGED <<mine, reqVars, storeVars, op, approved, rootDone>>

\* The dial fails, or the context is done.
DialFails(l) ==
    /\ pc[l] = "dial"
    /\ Pause(l)
    /\ UNCHANGED <<mine, reqVars, storeVars, op, approved, rootDone>>

\* known.Lookup: accept a match, refuse a mismatch, otherwise ask or trust.
TofuCheck_MismatchAsks(l) ==
    LET k == known[NameOf[l]] IN
    /\ pc[l] = "tofu"
    /\ IF k = fp[l] THEN Goto(l, "serve")
       ELSE Goto(l, IF AutoApprove THEN "add" ELSE "submit")
    /\ UNCHANGED <<fp, mine, reqVars, storeVars, op, approved, rootDone>>
TofuCheck_AnyKnown(l) ==
    LET k == known[NameOf[l]] IN
    /\ pc[l] = "tofu"
    /\ IF k # NoFp THEN Goto(l, "serve")
       ELSE Goto(l, IF AutoApprove THEN "add" ELSE "submit")
    /\ UNCHANGED <<fp, mine, reqVars, storeVars, op, approved, rootDone>>
TofuCheck(l) ==
    LET k == known[NameOf[l]] IN
    /\ pc[l] = "tofu"
    /\ \/ /\ k = fp[l]
          /\ Goto(l, "serve")
          /\ UNCHANGED fp
       \/ /\ k \notin {fp[l], NoFp}
          /\ Pause(l)
       \/ /\ k = NoFp
          /\ Goto(l, IF AutoApprove THEN "add" ELSE "submit")
          /\ UNCHANGED fp
    /\ UNCHANGED <<mine, reqVars, storeVars, op, approved, rootDone>>

\* Requests that no goroutine and no map entry refers to: one of them, no matter
\* which, stands for the new PendingRequest.
Unused == {r \in Reqs : /\ \A l \in Loops : mine[l] # r
                        /\ \A n \in Names : pending[n] # r
                        /\ \A o \in Ops : op[o].req # r}

\* Submit, under a.mu: tell the request it replaces, unless its slot is full,
\* and take its place.
Submit_Silent(l) ==
    LET r == CHOOSE q \in Unused : TRUE IN
    /\ pc[l] = "submit"
    /\ Unused # {}
    /\ req' = [req EXCEPT ![r] = NewReq(NameOf[l], fp[l])]
    /\ pending' = [pending EXCEPT ![NameOf[l]] = r]
    /\ mine' = [mine EXCEPT ![l] = r]
    /\ Goto(l, "wait")
    /\ UNCHANGED <<fp, storeVars, op, approved, rootDone>>
Submit(l) ==
    LET r == CHOOSE q \in Unused : TRUE
        prev == pending[NameOf[l]] IN
    /\ pc[l] = "submit"
    /\ Unused # {}
    /\ req' = [q \in Reqs |->
                  IF q = r THEN NewReq(NameOf[l], fp[l])
                  ELSE IF q = prev /\ req[q].slot = "empty" THEN [req[q] EXCEPT !.slot = "rejected"]
                  ELSE req[q]]
    /\ pending' = [pending EXCEPT ![NameOf[l]] = r]
    /\ mine' = [mine EXCEPT ![l] = r]
    /\ Goto(l, "wait")
    /\ UNCHANGED <<fp, storeVars, op, approved, rootDone>>

\* The select in Submit: the decision, or the context.
Receive(l) ==
    /\ pc[l] = "wait"
    /\ req[mine[l]].slot # "empty"
    /\ req' = [req EXCEPT ![mine[l]].outcome = req[mine[l]].slot, ![mine[l]].slot = "empty"]
    /\ Goto(l, "leave")
    /\ UNCHANGED <<fp, mine, pending, storeVars, op, approved, rootDone>>

CtxCancelled_Ignored(l) ==
    /\ pc[l] = "wait"
    /\ rootDone
    /\ UNCHANGED vars
CtxCancelled(l) ==
    /\ pc[l] = "wait"
    /\ rootDone
    /\ req' = [req EXCEPT ![mine[l]].outcome = "rejected"]
    /\ Goto(l, "leave")
    /\ UNCHANGED <<fp, mine, pending, storeVars, op, approved, rootDone>>

\* Submit returns to tofuCheck; its request lives on in a Decide that holds it.
Return(l) ==
    /\ mine' = [mine EXCEPT ![l] = NoReq]
    /\ req' = IF \E o \in Ops : op[o].req = mine[l] THEN req
              ELSE [req EXCEPT ![mine[l]] = FreeReq]
    /\ \/ req[mine[l]].outcome = "approved" /\ Goto(l, "add") /\ UNCHANGED <<fp, early>>
       \/ req[mine[l]].outcome = "rejected" /\ Pause(l) /\ early' = early \ {l}

\* The deferred delete, only if the entry is still this request, and the return.
LeaveSubmit(l) ==
    /\ pc[l] = "leave"
    /\ pending' = [pending EXCEPT ![NameOf[l]] = IF @ = mine[l] THEN NoReq ELSE @]
    /\ Return(l)
    /\ UNCHANGED <<known, disk, op, approved, rootDone>>

\* Loops past their look-up of name n and short of storing its fingerprint.
Asking(n) == {l \in Loops : NameOf[l] = n /\ pc[l] \in {"submit", "wait", "leave", "add"}}

\* known.Add: memory first, then the file; when the write fails the memory
\* keeps the entry and the connection is refused.
AddHost(l, ok) ==
    /\ pc[l] = "add"
    /\ known' = [known EXCEPT ![NameOf[l]] = fp[l]]
    /\ disk' = IF ok THEN known' ELSE disk
    /\ early' = (early \cup Asking(NameOf[l])) \ {l}
    /\ approved' = IF AutoApprove THEN approved \cup {<<NameOf[l], fp[l]>>} ELSE approved
    /\ \/ ok /\ Goto(l, "serve") /\ UNCHANGED fp
       \/ ~ok /\ Pause(l)
    /\ UNCHANGED <<mine, reqVars, op, rootDone>>

\* HandleControlConn returns.
ServeEnds(l) ==
    /\ pc[l] = "serve"
    /\ Pause(l)
    /\ UNCHANGED <<mine, reqVars, storeVars, op, approved, rootDone>>

\* The context is done, or the delay is over.
PauseEnds(l) ==
    /\ pc[l] = "backoff"
    /\ Goto(l, "dial") \/ (rootDone /\ Goto(l, "stopped"))
    /\ UNCHANGED <<fp, mine, reqVars, storeVars, op, approved, rootDone>>

-----------------------------------------------------------------------------
(* The admin API.                                                          *)

\* Decide: the lookup under the read lock.  No entry: false, nothing happens.
DecideLook(o, n) ==
    /\ op[o].st = "idle"
    /\ pending[n] # NoReq
    /\ op' = [op EXCEPT ![o] = [st |-> "send", req |-> pending[n]]]
    /\ UNCHANGED <<loopVars, reqVars, storeVars, approved, rootDone>>

\* Decide: the send of d after the unlock, if the slot is free; false if it is not.
DecideSend(o, d) ==
    LET r == op[o].req
        sent == req[r].slot = "empty"
        held == (\E l \in Loops : mine[l] = r) \/ (\E p \in Ops \ {o} : op[p].req = r) IN
    /\ op[o].st = "send"
    /\ op' = [op EXCEPT ![o] = IdleOp]
    /\ req' = [req EXCEPT ![r] = IF ~held THEN FreeReq
                                 ELSE IF sent THEN [@ EXCEPT !.slot = d] ELSE @]
    /\ approved' = IF sent /\ d = "approved" THEN approved \cup {<<req[r].name, req[r].fp>>}
                   ELSE approved
    /\ UNCHANGED <<loopVars, pending, storeVars, rootDone>>

\* handleKnownHosts, DELETE: Remove, present or not, and a write that may fail.
RemoveHost(n, ok) ==
    /\ known' = [known EXCEPT ![n] = NoFp]
    /\ disk' = IF ok THEN known' ELSE disk
    /\ early' = early \ {l \in Loops : NameOf[l] = n}
    /\ UNCHANGED <<loopVars, reqVars, op, approved, rootDone>>

-----------------------------------------------------------------------------
(* The process.                                                            *)

Shutdown ==
    /\ ~rootDone
    /\ rootDone' = TRUE
    /\ UNCHANGED <<loopVars, reqVars, storeVars, op, approved>>

\* The process ends at any point and starts again with LoadKnownHosts.
Restart ==
    /\ pc' = [l \in Loops |-> "dial"]
    /\ fp' = [l \in Loops |-> NoFp]
    /\ mine' = [l \in Loops |-> NoReq]
    /\ req' = [r \in Reqs |-> FreeReq]
    /\ pending' = [n \in Names |-> NoReq]
    /\ known' = disk
    /\ early' = {}
    /\ op' = [o \in Ops |-> IdleOp]
    /\ rootDone' = FALSE
    /\ UNCHANGED <<disk, approved>>

-----------------------------------------------------------------------------
LoopStep(l) ==
    \/ DialFails(l) \/ \E f \in Fps : Dial(l, f)
    \/ TofuCheck(l) \/ Submit(l)
    \/ Receive(l) \/ CtxCancelled(l) \/ LeaveSubmit(l)
    \/ \E ok \in BOOLEAN : AddHost(l, ok)
    \/ PauseEnds(l)

OpStep(o) ==
    \/ \E n \in Names : DecideLook(o, n)
    \/ \E d \in Decisions : DecideSend(o, d)

Next ==
    \/ \E l \in Loops : LoopStep(l) \/ ServeEnds(l)
    \/ \E o \in Ops : OpStep(o)
    \/ \E n \in Names, ok \in BOOLEAN : RemoveHost(n, ok)
    \/ Shutdown
    \/ Restart

Spec == Init /\ [][Next]_vars

\* Loops that can run do run, and timers fire.  Nothing makes a session end (its
\* read loop may be stuck, see TunnelManager) and no operator has to decide.
Fairness == \A l \in Loops : WF_vars(LoopStep(l))

FairSpec == Spec /\ Fairness

-----------------------------------------------------------------------------
(* Properties.                                                             *)

\* No session is served, and no fingerprint kept in memory or on disk, unless
\* an operator's approval was sent to a request showing that very name and
\* fingerprint (or the configuration trusts everybody), however submissions,
\* decisions, failed writes and restarts interleave.
NoUnapprovedTrust ==
    /\ \A l \in Loops : pc[l] = "serve" => <<NameOf[l], fp[l]>> \in approved
    /\ \A n \in Names : {known[n], disk[n]} \subseteq {NoFp} \cup {f \in Fps : <<n, f>> \in approved}

\* A waiting Submit can always be reached: it is the entry the operator sees
\* under its name, or its decision is already in its channel.
WaiterReachable ==
    \A l \in Loops : pc[l] = "wait" =>
        pending[NameOf[l]] = mine[l] \/ req[mine[l]].slot # "empty"

\* The queue shows no request whose Submit has returned.
PendingHasWaiter ==
    \A n \in Names : pending[n] # NoReq =>
        \E l \in Loops : mine[l] = pending[n] /\ pc[l] \in {"wait", "leave"}

\* The approval queue and its waiters are one to one, however submissions replace
\* each other and decisions come late.
ApprovalInv == TypeOK /\ WaiterReachable /\ PendingHasWaiter

\* A pinned fingerprint is replaced without its removal only by a loop of the same
\* name that was already asking its operator when the pin was set, never by a
\* connection made later: that one is refused.  A restart loads what the file holds.
PinIsNotReplaced ==
    [][\A n \in Names : known[n] # NoFp
           => \/ known'[n] \in {known[n], NoFp}
              \/ Restart
              \/ \E l \in early : NameOf[l] = n /\ pc[l] = "add" /\ fp[l] = known'[n]]_vars

\* After the shutdown every dial loop returns unless it is inside a session, also
\* one that waits for an operator who never answers.
ShutdownStopsLoops ==
    rootDone ~> ((\A l \in Loops : pc[l] \in {"stopped", "serve"}) \/ ~rootDone)
=============================================================================
