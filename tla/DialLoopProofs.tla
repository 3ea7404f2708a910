--------------------------- MODULE DialLoopProofs ---------------------------
(***************************************************************************)
(* Proofs, for every configuration of clients and every number of          *)
(* concurrent decisions, that only approved fingerprints are trusted and   *)
(* that the approval queue and its waiters belong together; and, for any   *)
(* number of restarts of the Windows server, that its running flag is      *)
(* right.                                                                  *)
(***************************************************************************)
EXTENDS DialLoop, TrayServer, TLAPS

\* A loop past its TLS handshake knows its peer's fingerprint.
ConnectionHasFp ==
    \A l \in Loops :
        pc[l] \in {"tofu", "submit", "wait", "leave", "add", "serve"} => fp[l] \in Fps

\* A request belongs to one Submit, and shows that loop's name and fingerprint.
RequestIsOwn ==
    \A l \in Loops :
        /\ pc[l] \in {"wait", "leave"} <=> mine[l] # NoReq
        /\ mine[l] # NoReq => /\ req[mine[l]].name = NameOf[l]
                              /\ req[mine[l]].fp = fp[l]
                              /\ \A m \in Loops : mine[m] = mine[l] => m = l

\* A call of Decide past its look-up holds a request that was submitted.
DecideHoldsRequest ==
    \A o \in Ops :
        /\ op[o].st = "send" => op[o].req \in Reqs
        /\ op[o].req # NoReq => req[op[o].req].fp \in Fps

\* The entry under a name is the request of a Submit of that name.
EntryHasWaiter ==
    \A n \in Names : pending[n] # NoReq =>
        \E l \in Loops : mine[l] = pending[n] /\ NameOf[l] = n

\* An approval, in the channel, received or acted on, is in the history.
ApprovalIsRecorded ==
    /\ \A r \in Reqs : "approved" \in {req[r].slot, req[r].outcome}
                           => <<req[r].name, req[r].fp>> \in approved
    /\ \A l \in Loops : pc[l] = "add" /\ ~AutoApprove => <<NameOf[l], fp[l]>> \in approved

\* A loop that is asking while its name is pinned was asking before.
AskingIsEarly ==
    \A n \in Names : known[n] # NoFp => Asking(n) \subseteq early

\* The inductive invariant.
IInv ==
    /\ TypeOK
    /\ ConnectionHasFp
    /\ RequestIsOwn
    /\ DecideHoldsRequest
    /\ EntryHasWaiter
    /\ WaiterReachable
    /\ ApprovalIsRecorded
    /\ NoUnapprovedTrust
    /\ AskingIsEarly

\* An unused request has its type, whichever name stands in it.
LEMMA FreeReqType ==
    FreeReq \in [slot : Decisions \cup {"empty"}, name : Names, fp : Fps \cup {NoFp},
                 outcome : Decisions \cup {"open"}]
BY NamesAssumption DEF FreeReq, NewReq

\* Every loop starts at its dial, with an empty queue and an empty store.
LEMMA InitIInv == Init => IInv
<1> SUFFICES ASSUME Init PROVE IInv
  OBVIOUS
<1>1. TypeOK
  BY FreeReqType DEF Init, TypeOK, IdleOp
<1>2. ConnectionHasFp /\ RequestIsOwn /\ EntryHasWaiter /\ WaiterReachable
  BY DEF Init, ConnectionHasFp, RequestIsOwn, EntryHasWaiter, WaiterReachable
<1>3. DecideHoldsRequest
  BY DEF Init, DecideHoldsRequest, IdleOp
<1>4. ApprovalIsRecorded /\ NoUnapprovedTrust /\ AskingIsEarly
  BY DEF Init, ApprovalIsRecorded, NoUnapprovedTrust, AskingIsEarly, FreeReq, NewReq
<1> QED
  BY <1>1, <1>2, <1>3, <1>4 DEF IInv

\* A step of a loop outside Submit, which leaves queue, store and history alone.
LEMMA LoopMoves ==
    ASSUME IInv, NEW l \in Loops, NEW f \in Fps \cup {NoFp},
           NEW p \in {"dial", "tofu", "submit", "add", "serve", "backoff", "stopped"},
           pc[l] \notin {"wait", "leave"},
           pc' = [pc EXCEPT ![l] = p],
           fp' = [fp EXCEPT ![l] = f],
           p \notin {"dial", "backoff", "stopped"} => f \in Fps,
           p \in {"submit", "add"} => known[NameOf[l]] = NoFp,
           p = "add" => AutoApprove,
           p = "serve" => <<NameOf[l], f>> \in approved,
           UNCHANGED <<mine, reqVars, storeVars, op, approved, rootDone>>
    PROVE  IInv'
<1> USE DEF IInv, reqVars, storeVars
<1>1. TypeOK' /\ ConnectionHasFp'
  BY DEF TypeOK, ConnectionHasFp
<1>2. RequestIsOwn'
  BY DEF TypeOK, RequestIsOwn
<1>3. DecideHoldsRequest' /\ EntryHasWaiter' /\ WaiterReachable'
  BY DEF TypeOK, DecideHoldsRequest, EntryHasWaiter, WaiterReachable
<1>4. ApprovalIsRecorded' /\ NoUnapprovedTrust'
  BY DEF TypeOK, ApprovalIsRecorded, NoUnapprovedTrust
<1>5. AskingIsEarly'
  BY DEF TypeOK, AskingIsEarly, Asking
<1> QED
  BY <1>1, <1>2, <1>3, <1>4, <1>5

\* Each step of the loops, the operator and the process preserves it.
LEMMA NextIInv ==
    ASSUME IInv, [Next]_vars
    PROVE  IInv'
<1> USE DEF IInv
<1>1. ASSUME NEW l \in Loops, NEW f \in Fps, Dial(l, f)
      PROVE  IInv'
  BY <1>1, LoopMoves DEF Dial, Goto
<1>2. ASSUME NEW l \in Loops, DialFails(l) \/ ServeEnds(l)
      PROVE  IInv'
  <2>1. PICK p \in {"stopped", "backoff"} : pc' = [pc EXCEPT ![l] = p]
    BY <1>2 DEF DialFails, ServeEnds, Pause, Goto
  <2> QED
    BY <1>2, <2>1, LoopMoves DEF DialFails, ServeEnds, Pause
<1>3. ASSUME NEW l \in Loops, TofuCheck(l)
      PROVE  IInv'
  <2> DEFINE k == known[NameOf[l]]
  <2> USE <1>3 DEF TofuCheck
  <2>1. CASE k = fp[l] /\ Goto(l, "serve") /\ UNCHANGED fp
    <3>1. fp[l] \in Fps /\ fp' = [fp EXCEPT ![l] = fp[l]]
      BY <2>1 DEF ConnectionHasFp, TypeOK
    <3>2. <<NameOf[l], fp[l]>> \in approved
      BY <2>1, <3>1, ConfigAssumption, NoFpAssumption DEF NoUnapprovedTrust
    <3> QED
      BY <2>1, <3>1, <3>2, LoopMoves DEF Goto
  <2>2. CASE k \notin {fp[l], NoFp} /\ Pause(l)
    <3>1. PICK p \in {"stopped", "backoff"} : pc' = [pc EXCEPT ![l] = p]
      BY <2>2 DEF Pause, Goto
    <3> QED
      BY <2>2, <3>1, LoopMoves DEF Pause
  <2>3. CASE k = NoFp /\ Goto(l, IF AutoApprove THEN "add" ELSE "submit") /\ UNCHANGED fp
    <3>1. fp[l] \in Fps /\ fp' = [fp EXCEPT ![l] = fp[l]]
      BY <2>3 DEF ConnectionHasFp, TypeOK
    <3>2. PICK p \in {"add", "submit"} : pc' = [pc EXCEPT ![l] = p] /\ (p = "add" => AutoApprove)
      BY <2>3, ConfigAssumption DEF Goto
    <3> QED
      BY <2>3, <3>1, <3>2, LoopMoves
  <2> QED
    BY <2>1, <2>2, <2>3
<1>4. ASSUME NEW l \in Loops, PauseEnds(l)
      PROVE  IInv'
  <2>1. PICK p \in {"stopped", "dial"} : pc' = [pc EXCEPT ![l] = p]
    BY <1>4 DEF PauseEnds, Goto
  <2>2. fp[l] \in Fps \cup {NoFp} /\ fp' = [fp EXCEPT ![l] = fp[l]]
    BY <1>4 DEF PauseEnds, TypeOK
  <2> QED
    BY <1>4, <2>1, <2>2, LoopMoves DEF PauseEnds
<1>5. ASSUME NEW l \in Loops, Submit(l)
      PROVE  IInv'
  <2>1. PICK r \in Unused :
          /\ req' = [q \in Reqs |->
                  IF q = r THEN NewReq(NameOf[l], fp[l])
                  ELSE IF q = pending[NameOf[l]] /\ req[q].slot = "empty"
                       THEN [req[q] EXCEPT !.slot = "rejected"]
                  ELSE req[q]]
          /\ pending' = [pending EXCEPT ![NameOf[l]] = r]
          /\ mine' = [mine EXCEPT ![l] = r]
    BY <1>5 DEF Submit
  <2>2. /\ pc[l] = "submit"
        /\ pc' = [pc EXCEPT ![l] = "wait"]
        /\ UNCHANGED <<fp, storeVars, op, approved, rootDone>>
        /\ NameOf[l] \in Names
        /\ fp[l] \in Fps
    BY <1>5, ConfigAssumption DEF Submit, Goto, ConnectionHasFp
  <2>3. /\ r \in Reqs
        /\ r # NoReq
        /\ \A m \in Loops : mine[m] # r
        /\ \A o \in Ops : op[o].req # r
    BY <2>1, NoReqAssumption DEF Unused
  <2>4. /\ req'[r] = NewReq(NameOf[l], fp[l])
        /\ \A q \in Reqs \ {r} :
             /\ req'[q].name = req[q].name
             /\ req'[q].fp = req[q].fp
             /\ req'[q].outcome = req[q].outcome
             /\ req'[q].slot \in {req[q].slot, "rejected"}
             /\ req[q].slot # "empty" => req'[q].slot # "empty"
             /\ q = pending[NameOf[l]] => req'[q].slot # "empty"
    BY <2>1, <2>3 DEF TypeOK
  <2>5. TypeOK'
    <3>1. req' \in [Reqs -> [slot : Decisions \cup {"empty"}, name : Names,
                             fp : Fps \cup {NoFp}, outcome : Decisions \cup {"open"}]]
      BY <2>1, <2>2 DEF TypeOK, NewReq, Decisions
    <3> QED
      BY <2>1, <2>2, <2>3, <3>1 DEF TypeOK, storeVars
  <2>6. ConnectionHasFp'
    BY <2>2 DEF TypeOK, ConnectionHasFp
  <2>7. RequestIsOwn'
    BY <2>1, <2>2, <2>3, <2>4 DEF TypeOK, RequestIsOwn, NewReq
  <2>8. DecideHoldsRequest'
    BY <2>2, <2>3, <2>4 DEF TypeOK, DecideHoldsRequest
  <2>9. EntryHasWaiter'
    <3>1. mine[l] = NoReq
      BY <2>2 DEF RequestIsOwn
    <3> QED
      BY <2>1, <2>2, <2>3, <3>1 DEF TypeOK, EntryHasWaiter
  <2>10. WaiterReachable'
    <3> SUFFICES ASSUME NEW m \in Loops, pc'[m] = "wait"
                 PROVE  pending'[NameOf[m]] = mine'[m] \/ req'[mine'[m]].slot # "empty"
      BY <2>2, ConfigAssumption DEF WaiterReachable
    <3>1. CASE m = l
      BY <2>1, <2>2, <3>1 DEF TypeOK
    <3>2. CASE m # l
      <4>1. pc[m] = "wait" /\ mine'[m] = mine[m] /\ mine[m] \in Reqs \ {r}
        BY <2>1, <2>2, <2>3, <3>2 DEF TypeOK, RequestIsOwn
      <4>2. NameOf[m] \in Names
        BY ConfigAssumption
      <4> QED
        BY <2>1, <2>2, <2>4, <4>1, <4>2 DEF TypeOK, WaiterReachable
    <3> QED
      BY <3>1, <3>2
  <2>11. ApprovalIsRecorded' /\ NoUnapprovedTrust'
    <3>1. NoUnapprovedTrust'
      BY <2>2 DEF TypeOK, NoUnapprovedTrust, storeVars
    <3>2. \A q \in Reqs : "approved" \in {req'[q].slot, req'[q].outcome}
                           => <<req'[q].name, req'[q].fp>> \in approved'
      BY <2>2, <2>3, <2>4 DEF ApprovalIsRecorded, NewReq
    <3>3. \A m \in Loops : pc'[m] = "add" /\ ~AutoApprove => <<NameOf[m], fp'[m]>> \in approved'
      BY <2>2 DEF TypeOK, ApprovalIsRecorded
    <3> QED
      BY <3>1, <3>2, <3>3 DEF ApprovalIsRecorded
  <2>12. AskingIsEarly'
    BY <2>2 DEF TypeOK, AskingIsEarly, Asking, storeVars
  <2> QED
    BY <2>5, <2>6, <2>7, <2>8, <2>9, <2>10, <2>11, <2>12
<1>6. ASSUME NEW l \in Loops, Receive(l) \/ CtxCancelled(l)
      PROVE  IInv'
  <2>1. /\ pc[l] = "wait"
        /\ mine[l] \in Reqs
        /\ pc' = [pc EXCEPT ![l] = "leave"]
        /\ UNCHANGED <<fp, mine, pending, storeVars, op, approved, rootDone>>
    BY <1>6 DEF Receive, CtxCancelled, Goto, TypeOK, RequestIsOwn
  <2>2. PICK u \in [slot : Decisions \cup {"empty"}, name : {req[mine[l]].name},
                    fp : {req[mine[l]].fp}, outcome : Decisions] :
          /\ req' = [req EXCEPT ![mine[l]] = u]
          /\ u.outcome = "approved" => req[mine[l]].slot = "approved"
          /\ u.slot \in {req[mine[l]].slot, "empty"}
    <3>1. CASE Receive(l)
      <4> DEFINE u == [req[mine[l]] EXCEPT !.outcome = req[mine[l]].slot, !.slot = "empty"]
      <4>1. req' = [req EXCEPT ![mine[l]] = u]
        BY <2>1, <3>1 DEF Receive, TypeOK
      <4>2. /\ u \in [slot : Decisions \cup {"empty"}, name : {req[mine[l]].name},
                       fp : {req[mine[l]].fp}, outcome : Decisions]
            /\ u.outcome = req[mine[l]].slot /\ u.slot = "empty"
        BY <2>1, <3>1 DEF Receive, TypeOK
      <4> HIDE DEF u
      <4> QED
        BY <4>1, <4>2
    <3>2. CASE CtxCancelled(l)
      <4> DEFINE u == [req[mine[l]] EXCEPT !.outcome = "rejected"]
      <4>1. req' = [req EXCEPT ![mine[l]] = u]
        BY <2>1, <3>2 DEF CtxCancelled, TypeOK
      <4>2. /\ u \in [slot : Decisions \cup {"empty"}, name : {req[mine[l]].name},
                       fp : {req[mine[l]].fp}, outcome : Decisions]
            /\ u.outcome = "rejected" /\ u.slot = req[mine[l]].slot
        <5>1. "rejected" \in Decisions
          BY DEF Decisions
        <5>2. req[mine[l]] \in [slot : Decisions \cup {"empty"}, name : Names,
                                fp : Fps \cup {NoFp}, outcome : Decisions \cup {"open"}]
          BY <2>1 DEF TypeOK
        <5> QED
          BY <5>1, <5>2
      <4> HIDE DEF u
      <4> QED
        BY <4>1, <4>2
    <3> QED
      BY <1>6, <3>1, <3>2
  <2>3. TypeOK' /\ ConnectionHasFp'
    BY <2>1, <2>2 DEF TypeOK, ConnectionHasFp, storeVars, Decisions
  <2>4. RequestIsOwn'
    BY <2>1, <2>2 DEF TypeOK, RequestIsOwn
  <2>5. DecideHoldsRequest' /\ EntryHasWaiter'
    BY <2>1, <2>2 DEF TypeOK, DecideHoldsRequest, EntryHasWaiter
  <2>6. WaiterReachable'
    BY <2>1, <2>2 DEF TypeOK, WaiterReachable, RequestIsOwn
  <2>7. ApprovalIsRecorded' /\ NoUnapprovedTrust'
    BY <2>1, <2>2 DEF TypeOK, ApprovalIsRecorded, NoUnapprovedTrust, storeVars
  <2>8. AskingIsEarly'
    BY <2>1 DEF TypeOK, AskingIsEarly, Asking, storeVars
  <2> QED
    BY <2>3, <2>4, <2>5, <2>6, <2>7, <2>8
<1>7. ASSUME NEW l \in Loops, LeaveSubmit(l)
      PROVE  IInv'
  <2>1. /\ pc[l] = "leave"
        /\ mine[l] \in Reqs
        /\ NameOf[l] \in Names
        /\ mine' = [mine EXCEPT ![l] = NoReq]
        /\ pending' = [pending EXCEPT ![NameOf[l]] = IF @ = mine[l] THEN NoReq ELSE @]
        /\ UNCHANGED <<known, disk, op, approved, rootDone>>
    BY <1>7, ConfigAssumption DEF LeaveSubmit, Return, TypeOK, RequestIsOwn
  <2>2. /\ req' \in [Reqs -> [slot : Decisions \cup {"empty"}, name : Names,
                              fp : Fps \cup {NoFp}, outcome : Decisions \cup {"open"}]]
        /\ \A q \in Reqs \ {mine[l]} : req'[q] = req[q]
        /\ req'[mine[l]] \in {req[mine[l]], FreeReq}
        /\ (\E o \in Ops : op[o].req = mine[l]) => req' = req
    BY <1>7, <2>1, FreeReqType DEF LeaveSubmit, Return, TypeOK
  <2>3. PICK p \in {"add", "stopped", "backoff"} :
          /\ pc' = [pc EXCEPT ![l] = p]
          /\ p = "add" => req[mine[l]].outcome = "approved" /\ UNCHANGED <<fp, early>>
          /\ p # "add" => fp' = [fp EXCEPT ![l] = NoFp] /\ early' = early \ {l}
    BY <1>7 DEF LeaveSubmit, Return, Pause, Goto
  <2>4. \A m \in Loops : m # l => mine[m] # mine[l] /\ fp'[m] = fp[m]
    BY <2>1, <2>3, NoReqAssumption DEF RequestIsOwn, TypeOK
  <2>5. TypeOK'
    BY <2>1, <2>2, <2>3 DEF TypeOK
  <2>6. ConnectionHasFp'
    BY <2>1, <2>3 DEF TypeOK, ConnectionHasFp
  <2>7. RequestIsOwn'
    BY <2>1, <2>2, <2>3, <2>4 DEF TypeOK, RequestIsOwn
  <2>8. DecideHoldsRequest'
    BY <2>1, <2>2 DEF TypeOK, DecideHoldsRequest
  <2>9. EntryHasWaiter'
    <3> SUFFICES ASSUME NEW n \in Names, pending'[n] # NoReq
                 PROVE  \E m \in Loops : mine'[m] = pending'[n] /\ NameOf[m] = n
      BY DEF EntryHasWaiter
    <3>1. pending[n] # NoReq /\ pending'[n] = pending[n]
      BY <2>1 DEF TypeOK
    <3>2. PICK m \in Loops : mine[m] = pending[n] /\ NameOf[m] = n
      BY <3>1 DEF EntryHasWaiter
    <3>3. m # l
      BY <2>1, <3>1, <3>2 DEF TypeOK
    <3> QED
      BY <2>1, <3>1, <3>2, <3>3 DEF TypeOK
  <2>10. WaiterReachable'
    <3> SUFFICES ASSUME NEW m \in Loops, pc'[m] = "wait"
                 PROVE  pending'[NameOf[m]] = mine'[m] \/ req'[mine'[m]].slot # "empty"
      BY DEF WaiterReachable
    <3>1. m # l /\ pc[m] = "wait" /\ mine'[m] = mine[m] /\ mine[m] \in Reqs \ {mine[l]}
      BY <2>1, <2>3, <2>4 DEF TypeOK, RequestIsOwn
    <3>2. NameOf[m] \in Names
      BY ConfigAssumption
    <3> QED
      BY <2>1, <2>2, <3>1, <3>2 DEF TypeOK, WaiterReachable
  <2>11. ApprovalIsRecorded'
    <3>1. \A q \in Reqs : "approved" \in {req'[q].slot, req'[q].outcome}
                           => <<req'[q].name, req'[q].fp>> \in approved'
      BY <2>1, <2>2 DEF ApprovalIsRecorded, FreeReq, NewReq
    <3>2. pc'[l] = "add" => <<NameOf[l], fp'[l]>> \in approved'
      BY <2>1, <2>3 DEF TypeOK, ApprovalIsRecorded, RequestIsOwn
    <3>3. \A m \in Loops : pc'[m] = "add" /\ ~AutoApprove => <<NameOf[m], fp'[m]>> \in approved'
      BY <2>1, <2>3, <2>4, <3>2 DEF TypeOK, ApprovalIsRecorded
    <3> QED
      BY <3>1, <3>3 DEF ApprovalIsRecorded
  <2>12. NoUnapprovedTrust'
    BY <2>1, <2>3, <2>4 DEF TypeOK, NoUnapprovedTrust
  <2>13. AskingIsEarly'
    BY <2>1, <2>3 DEF TypeOK, AskingIsEarly, Asking
  <2> QED
    BY <2>5, <2>6, <2>7, <2>8, <2>9, <2>10, <2>11, <2>12, <2>13
<1>8. ASSUME NEW l \in Loops, NEW ok \in BOOLEAN, AddHost(l, ok)
      PROVE  IInv'
  <2>1. /\ pc[l] = "add"
        /\ NameOf[l] \in Names
        /\ fp[l] \in Fps
        /\ known' = [known EXCEPT ![NameOf[l]] = fp[l]]
        /\ disk' \in {known', disk}
        /\ early' = (early \cup Asking(NameOf[l])) \ {l}
        /\ UNCHANGED <<mine, req, pending, op, rootDone>>
    BY <1>8, ConfigAssumption DEF AddHost, ConnectionHasFp, reqVars
  <2>2. /\ approved \subseteq approved'
        /\ approved' \subseteq Pairs
        /\ <<NameOf[l], fp[l]>> \in approved'
    BY <1>8, <2>1 DEF AddHost, ApprovalIsRecorded, TypeOK, Pairs
  <2>3. PICK p \in {"serve", "stopped", "backoff"}, f \in {fp[l], NoFp} :
          /\ pc' = [pc EXCEPT ![l] = p]
          /\ fp' = [fp EXCEPT ![l] = f]
          /\ p = "serve" => f = fp[l]
    BY <1>8 DEF AddHost, Pause, Goto, TypeOK
  <2>4. mine[l] = NoReq
    BY <2>1 DEF RequestIsOwn
  <2>5. TypeOK'
    BY <2>1, <2>2, <2>3 DEF TypeOK, Asking
  <2>6. ConnectionHasFp' /\ RequestIsOwn'
    BY <2>1, <2>3, <2>4 DEF TypeOK, ConnectionHasFp, RequestIsOwn
  <2>7. DecideHoldsRequest' /\ EntryHasWaiter' /\ WaiterReachable'
    BY <2>1, <2>3 DEF TypeOK, DecideHoldsRequest, EntryHasWaiter, WaiterReachable
  <2>8. ApprovalIsRecorded'
    BY <2>1, <2>2, <2>3 DEF TypeOK, ApprovalIsRecorded
  <2>9. NoUnapprovedTrust'
    <3>1. \A m \in Loops : pc'[m] = "serve" => <<NameOf[m], fp'[m]>> \in approved'
      BY <2>1, <2>2, <2>3 DEF TypeOK, NoUnapprovedTrust
    <3>2. \A n \in Names : \A h \in {known[n], disk[n]} :
             h = NoFp \/ (h \in Fps /\ <<n, h>> \in approved')
      BY <2>2 DEF NoUnapprovedTrust
    <3>3. \A n \in Names : known'[n] = NoFp \/ (known'[n] \in Fps /\ <<n, known'[n]>> \in approved')
      BY <2>1, <2>2, <3>2 DEF TypeOK
    <3>4. \A n \in Names : disk'[n] = NoFp \/ (disk'[n] \in Fps /\ <<n, disk'[n]>> \in approved')
      BY <2>1, <3>2, <3>3
    <3> QED
      BY <3>1, <3>3, <3>4 DEF NoUnapprovedTrust
  <2>10. AskingIsEarly'
    BY <2>1, <2>3 DEF TypeOK, AskingIsEarly, Asking
  <2> QED
    BY <2>5, <2>6, <2>7, <2>8, <2>9, <2>10
<1>9. ASSUME NEW o \in Ops, NEW n \in Names, DecideLook(o, n)
      PROVE  IInv'
  <2>1. /\ pending[n] \in Reqs
        /\ op' = [op EXCEPT ![o] = [st |-> "send", req |-> pending[n]]]
        /\ UNCHANGED <<pc, fp, mine, req, pending, known, disk, early, approved, rootDone>>
    BY <1>9 DEF DecideLook, TypeOK, loopVars, reqVars, storeVars
  <2>2. PICK l \in Loops : mine[l] = pending[n]
    BY <2>1, NoReqAssumption DEF EntryHasWaiter
  <2>3. req[pending[n]].fp \in Fps
    BY <2>1, <2>2, NoReqAssumption DEF RequestIsOwn, ConnectionHasFp
  <2>4. TypeOK' /\ ConnectionHasFp'
    BY <2>1 DEF TypeOK, ConnectionHasFp
  <2>5. RequestIsOwn' /\ EntryHasWaiter' /\ WaiterReachable'
    BY <2>1 DEF RequestIsOwn, EntryHasWaiter, WaiterReachable
  <2>6. DecideHoldsRequest'
    BY <2>1, <2>3 DEF TypeOK, DecideHoldsRequest
  <2>7. ApprovalIsRecorded' /\ NoUnapprovedTrust' /\ AskingIsEarly'
    BY <2>1 DEF ApprovalIsRecorded, NoUnapprovedTrust, AskingIsEarly, Asking
  <2> QED
    BY <2>4, <2>5, <2>6, <2>7
<1>10. ASSUME NEW o \in Ops, NEW d \in Decisions, DecideSend(o, d)
      PROVE  IInv'
  <2> DEFINE r == op[o].req
             held == (\E l \in Loops : mine[l] = r) \/ (\E p \in Ops \ {o} : op[p].req = r)
  <2>1. /\ r \in Reqs
        /\ req[r].fp \in Fps
        /\ op' = [op EXCEPT ![o] = IdleOp]
        /\ UNCHANGED <<pc, fp, mine, pending, known, disk, early, rootDone>>
    BY <1>10, NoReqAssumption DEF DecideSend, DecideHoldsRequest, loopVars, storeVars
  <2>2. /\ approved \subseteq approved'
        /\ approved' \subseteq Pairs
        /\ req[r].slot = "empty" /\ d = "approved" => <<req[r].name, req[r].fp>> \in approved'
    BY <1>10, <2>1 DEF DecideSend, TypeOK, Pairs
  <2>3. /\ req' \in [Reqs -> [slot : Decisions \cup {"empty"}, name : Names,
                              fp : Fps \cup {NoFp}, outcome : Decisions \cup {"open"}]]
        /\ \A q \in Reqs \ {r} : req'[q] = req[q]
        /\ ~held => req'[r] = FreeReq
        /\ held => \/ req'[r] = req[r]
                   \/ req[r].slot = "empty" /\ req'[r] = [req[r] EXCEPT !.slot = d]
    <3>1. CASE ~held
      BY <1>10, <2>1, <3>1, FreeReqType DEF DecideSend, TypeOK
    <3>2. CASE held
      <4>1. req' = [req EXCEPT ![r] = IF req[r].slot = "empty" THEN [req[r] EXCEPT !.slot = d]
                                      ELSE req[r]]
        BY <1>10, <2>1, <3>2 DEF DecideSend, TypeOK
      <4>2. [req[r] EXCEPT !.slot = d]
              \in [slot : Decisions \cup {"empty"}, name : Names,
                   fp : Fps \cup {NoFp}, outcome : Decisions \cup {"open"}]
        BY <2>1 DEF TypeOK
      <4> QED
        BY <2>1, <3>2, <4>1, <4>2 DEF TypeOK
    <3> QED
      BY <3>1, <3>2
  <2>4. held => /\ req'[r].name = req[r].name
                /\ req'[r].fp = req[r].fp
                /\ req'[r].outcome = req[r].outcome
                /\ req[r].slot # "empty" => req'[r].slot # "empty"
    BY <2>1, <2>3 DEF TypeOK, Decisions
  <2> HIDE DEF held
  <2>5. \A l \in Loops : mine[l] = r => held
    BY DEF held
  <2>6. \A p \in Ops : p # o /\ op[p].req = r => held
    BY DEF held
  <2>7. TypeOK' /\ ConnectionHasFp'
    BY <2>1, <2>2, <2>3 DEF TypeOK, ConnectionHasFp, IdleOp
  <2>8. RequestIsOwn'
    BY <2>1, <2>3, <2>4, <2>5 DEF TypeOK, RequestIsOwn
  <2>9. DecideHoldsRequest'
    BY <2>1, <2>3, <2>4, <2>6 DEF TypeOK, DecideHoldsRequest, IdleOp
  <2>10. EntryHasWaiter'
    BY <2>1 DEF EntryHasWaiter
  <2>11. WaiterReachable'
    BY <2>1, <2>3, <2>4, <2>5 DEF TypeOK, WaiterReachable, RequestIsOwn
  <2>12. ApprovalIsRecorded'
    <3>1. \A q \in Reqs : "approved" \in {req'[q].slot, req'[q].outcome}
                           => <<req'[q].name, req'[q].fp>> \in approved'
      <4>1. \A q \in Reqs \ {r} : "approved" \in {req[q].slot, req[q].outcome}
                           => <<req[q].name, req[q].fp>> \in approved'
        BY <2>2 DEF ApprovalIsRecorded
      <4>2. CASE ~held
        BY <2>3, <4>1, <4>2 DEF FreeReq, NewReq
      <4>3. CASE held
        <5>1. req'[r].slot = "approved"
                 => req[r].slot = "approved" \/ (req[r].slot = "empty" /\ d = "approved")
          BY <2>1, <2>3, <4>3 DEF TypeOK
        <5>2. "approved" \in {req[r].slot, req[r].outcome}
                 => <<req[r].name, req[r].fp>> \in approved'
          BY <2>1, <2>2 DEF ApprovalIsRecorded
        <5> QED
          BY <2>2, <2>3, <2>4, <4>1, <4>3, <5>1, <5>2
      <4> QED
        BY <4>2, <4>3
    <3> QED
      BY <2>1, <2>2, <3>1 DEF ApprovalIsRecorded
  <2>13. NoUnapprovedTrust' /\ AskingIsEarly'
    BY <2>1, <2>2 DEF NoUnapprovedTrust, AskingIsEarly, Asking
  <2> QED
    BY <2>7, <2>8, <2>9, <2>10, <2>11, <2>12, <2>13
<1>11. ASSUME NEW n \in Names, NEW ok \in BOOLEAN, RemoveHost(n, ok)
      PROVE  IInv'
  <2>1. /\ known' = [known EXCEPT ![n] = NoFp]
        /\ disk' \in {known', disk}
        /\ early' = early \ {l \in Loops : NameOf[l] = n}
        /\ UNCHANGED <<pc, fp, mine, req, pending, op, approved, rootDone>>
    BY <1>11 DEF RemoveHost, loopVars, reqVars
  <2>2. TypeOK' /\ ConnectionHasFp'
    BY <2>1 DEF TypeOK, ConnectionHasFp
  <2>3. RequestIsOwn' /\ EntryHasWaiter' /\ WaiterReachable' /\ DecideHoldsRequest'
    BY <2>1 DEF RequestIsOwn, EntryHasWaiter, WaiterReachable, DecideHoldsRequest
  <2>4. ApprovalIsRecorded' /\ NoUnapprovedTrust'
    <3>1. \A m \in Names : known'[m] \in {known[m], NoFp} /\ disk'[m] \in {known[m], disk[m], NoFp}
      BY <2>1 DEF TypeOK
    <3> QED
      BY <2>1, <3>1 DEF ApprovalIsRecorded, NoUnapprovedTrust
  <2>5. AskingIsEarly'
    BY <2>1 DEF TypeOK, AskingIsEarly, Asking
  <2> QED
    BY <2>2, <2>3, <2>4, <2>5
<1>12. ASSUME Shutdown PROVE IInv'
  <2>1. rootDone' = TRUE /\ UNCHANGED <<pc, fp, mine, req, pending, known, disk, early, op, approved>>
    BY <1>12 DEF Shutdown, loopVars, reqVars, storeVars
  <2> QED
    BY <2>1 DEF TypeOK, ConnectionHasFp, RequestIsOwn, DecideHoldsRequest, EntryHasWaiter,
                WaiterReachable, ApprovalIsRecorded, NoUnapprovedTrust, AskingIsEarly, Asking
<1>13. ASSUME Restart PROVE IInv'
  <2>1. TypeOK'
    BY <1>13, FreeReqType DEF Restart, TypeOK, IdleOp
  <2>2. ConnectionHasFp' /\ RequestIsOwn' /\ EntryHasWaiter' /\ WaiterReachable'
    BY <1>13 DEF Restart, ConnectionHasFp, RequestIsOwn, EntryHasWaiter, WaiterReachable
  <2>3. DecideHoldsRequest'
    BY <1>13 DEF Restart, DecideHoldsRequest, IdleOp
  <2>4. ApprovalIsRecorded' /\ NoUnapprovedTrust'
    BY <1>13 DEF Restart, ApprovalIsRecorded, NoUnapprovedTrust, FreeReq, NewReq
  <2>5. AskingIsEarly'
    BY <1>13 DEF Restart, AskingIsEarly, Asking
  <2> QED
    BY <2>1, <2>2, <2>3, <2>4, <2>5
<1>14. CASE UNCHANGED vars
  <2>1. UNCHANGED <<pc, fp, mine, req, pending, known, disk, early, op, approved, rootDone>>
    BY <1>14 DEF vars, loopVars, reqVars, storeVars
  <2> QED
    BY <2>1 DEF TypeOK, ConnectionHasFp, RequestIsOwn, DecideHoldsRequest, EntryHasWaiter,
                WaiterReachable, ApprovalIsRecorded, NoUnapprovedTrust, AskingIsEarly, Asking
<1> QED
  BY <1>1, <1>2, <1>3, <1>4, <1>5, <1>6, <1>7, <1>8, <1>9, <1>10, <1>11, <1>12, <1>13, <1>14
  DEF Next, LoopStep, OpStep

\* The invariant holds in every state the server can be in.
THEOREM Invariance == Spec => []IInv
BY InitIInv, NextIInv, PTL DEF Spec

\* No connection is served and no fingerprint stored, in memory or on disk, without
\* an approval sent for that name and fingerprint: tofuCheck, Submit, Decide and
\* KnownHosts.Add and Remove, through failed writes and restarts.
THEOREM OnlyApprovedIsTrusted == Spec => []NoUnapprovedTrust
<1>1. IInv => NoUnapprovedTrust
  BY DEF IInv
<1> QED
  BY <1>1, Invariance, PTL

\* The approval queue and its waiters are one to one: every waiting Submit can be
\* decided and every entry the operator sees has a Submit behind it.
THEOREM QueueMatchesWaiters == Spec => []ApprovalInv
<1>1. ASSUME IInv PROVE ApprovalInv
  <2>1. PendingHasWaiter
    BY <1>1 DEF IInv, PendingHasWaiter, EntryHasWaiter, RequestIsOwn
  <2> QED
    BY <1>1, <2>1 DEF IInv, ApprovalInv
<1> QED
  BY <1>1, Invariance, PTL

\* What a pinned fingerprint may become: nothing, unless it is removed, the
\* process restarts, or a loop that was already asking stores its own.
LEMMA PinStep ==
    ASSUME IInv, [Next]_vars, NEW n \in Names, known[n] # NoFp
    PROVE  \/ known'[n] \in {known[n], NoFp}
           \/ Restart
           \/ \E l \in early : NameOf[l] = n /\ pc[l] = "add" /\ fp[l] = known'[n]
<1> USE DEF IInv
<1>1. ASSUME NEW l \in Loops, NEW ok \in BOOLEAN, AddHost(l, ok)
      PROVE  known'[n] = known[n] \/ (l \in early /\ NameOf[l] = n /\ pc[l] = "add"
                                        /\ fp[l] = known'[n])
  <2>1. pc[l] = "add" /\ known' = [known EXCEPT ![NameOf[l]] = fp[l]]
    BY <1>1 DEF AddHost
  <2>2. CASE NameOf[l] = n
    BY <2>1, <2>2 DEF TypeOK, AskingIsEarly, Asking
  <2>3. CASE NameOf[l] # n
    BY <2>1, <2>3, ConfigAssumption DEF TypeOK
  <2> QED
    BY <2>2, <2>3
<1>2. ASSUME NEW m \in Names, NEW ok \in BOOLEAN, RemoveHost(m, ok)
      PROVE  known'[n] \in {known[n], NoFp}
  BY <1>2 DEF RemoveHost, TypeOK
<1>3. ASSUME NEW l \in Loops,
             \/ DialFails(l) \/ TofuCheck(l) \/ Submit(l) \/ Receive(l) \/ CtxCancelled(l)
             \/ LeaveSubmit(l) \/ PauseEnds(l) \/ ServeEnds(l) \/ \E f \in Fps : Dial(l, f)
      PROVE  known' = known
  BY <1>3 DEF DialFails, TofuCheck, Submit, Receive, CtxCancelled, LeaveSubmit, PauseEnds,
              ServeEnds, Dial, storeVars
<1>4. ASSUME NEW o \in Ops, OpStep(o)
      PROVE  known' = known
  BY <1>4 DEF OpStep, DecideLook, DecideSend, storeVars
<1>5. ASSUME Shutdown \/ UNCHANGED vars
      PROVE  known' = known
  BY <1>5 DEF Shutdown, vars, storeVars
<1> QED
  BY <1>1, <1>2, <1>3, <1>4, <1>5 DEF Next, LoopStep, TypeOK

\* A pin is never replaced by a connection made after it was set: tofuCheck
\* refuses the mismatch, and the loops that were already past it are the only
\* ones that can still store.
THEOREM PinsAreNotReplaced == Spec => PinIsNotReplaced
<1>1. ASSUME IInv, [Next]_vars
      PROVE  [\A n \in Names : known[n] # NoFp
                 => \/ known'[n] \in {known[n], NoFp}
                    \/ Restart
                    \/ \E l \in early : NameOf[l] = n /\ pc[l] = "add" /\ fp[l] = known'[n]]_vars
  BY <1>1, PinStep
<1> QED
  BY <1>1, Invariance, PTL DEF Spec, PinIsNotReplaced

-----------------------------------------------------------------------------
(* The Windows server around the loops: it starts and restarts the application     *)
(* that runs them.                                                                 *)

\* Every step keeps the types.
LEMMA ServerTypes ==
    ASSUME TrayTypeOK, [TrayNext]_trayVars
    PROVE  TrayTypeOK'
<1> USE DEF TrayTypeOK, statusVars, appVars
<1>1. ASSUME NEW i \in Apps, RestartServer(i) \/ MarkStopped(i) \/ ShowRestarting(i) \/ Exit(i)
      PROVE  TrayTypeOK'
  BY <1>1 DEF RestartServer, CancelCurrent, MarkStopped, ShowRestarting, Exit
<1>3. ASSUME NEW i \in Apps, \/ StartRefused(i) \/ BoxClosed(i)
                                \/ HeardError(i) \/ ShowRunning(i)
      PROVE  TrayTypeOK'
  BY <1>3 DEF StartRefused, BoxClosed, HeardError, ShowRunning
<1>4. ASSUME NEW i \in Apps, SetApp(i)
      PROVE  TrayTypeOK'
  BY <1>4 DEF SetApp
<1>5. ASSUME NEW i \in Apps, ListenOk(i)
      PROVE  TrayTypeOK'
  <2>1. app[i].next \in 1..Ports /\ app[i].next + 1 \in 1..(Ports + 1)
    BY <1>5, PortsAssumption DEF ListenOk
  <2> QED
    BY <1>5, <2>1 DEF ListenOk
<1>6. ASSUME NEW i \in Apps, ListenFails(i) \/ Serve(i)
      PROVE  TrayTypeOK'
  <2>1. 1 \in 1..(Ports + 1)
    BY PortsAssumption
  <2>2. CASE ListenFails(i)
    BY <2>1, <2>2 DEF ListenFails
  <2>3. CASE Serve(i)
    BY <2>1, <2>3 DEF Serve
  <2> QED
    BY <1>6, <2>2, <2>3
<1>7. ASSUME NEW i \in Apps, Broadcast(i) \/ Drain(i) \/ StartReturns(i)
      PROVE  TrayTypeOK'
  <2>3. CASE Broadcast(i)
    BY <2>3 DEF Broadcast
  <2>1. CASE Drain(i)
    BY <2>1 DEF Drain
  <2>2. CASE StartReturns(i)
    BY <2>2 DEF StartReturns
  <2> QED
    BY <1>7, <2>1, <2>2, <2>3
<1>8. ASSUME NEW i \in Apps, ClearRunningIf(i)
      PROVE  TrayTypeOK'
  BY <1>8 DEF ClearRunningIf
<1>9. ASSUME NEW i \in Apps, Report(i)
      PROVE  TrayTypeOK'
  BY <1>9 DEF Report
<1>10. ASSUME NEW i \in Apps, NEW p \in 1..Ports, CloseListener(i, p)
       PROVE  TrayTypeOK'
  BY <1>10 DEF CloseListener
<1>11. ASSUME NEW i \in Apps, NEW t \in Targets, DialStep(i, t)
       PROVE  TrayTypeOK'
  <2>1. PICK from \in {"off", "dialing", "serving"}, to \in {"off", "dialing", "serving"} :
            LoopGoes(i, t, from, to)
    BY <1>11 DEF DialStep, DialOk, ConnEnds, LoopEnds
  <2> QED
    BY <2>1 DEF LoopGoes
<1>12. ASSUME UNCHANGED trayVars
       PROVE  TrayTypeOK'
  BY <1>12 DEF trayVars
<1> QED
  BY <1>1, <1>3, <1>4, <1>5, <1>6, <1>7, <1>8, <1>9, <1>10, <1>11, <1>12
  DEF TrayNext, CallStep, AppStep

\* What the flag says: the current application goes on.
CurrentGoesOn ==
    /\ currentApp # NoApp
    /\ app[currentApp].pc \in {"listen", "serve", "broadcast", "drain", "returned"}
    /\ ~stopped

\* Every step keeps the flag right: whichever application's goroutine ends, and however
\* late, clearRunningIf compares.
LEMMA FlagStep ==
    ASSUME TrayTypeOK, srvRunning <=> CurrentGoesOn, [TrayNext]_trayVars
    PROVE  (srvRunning <=> CurrentGoesOn)'
<1> USE DEF CurrentGoesOn, NoApp, statusVars, appVars
<1>1. ASSUME NEW i \in Apps, \/ RestartServer(i) \/ ShowRestarting(i) \/ Exit(i)
                                \/ StartRefused(i) \/ BoxClosed(i) \/ HeardError(i)
                                \/ ShowRunning(i)
      PROVE  (srvRunning <=> CurrentGoesOn)'
  <2>1. UNCHANGED <<currentApp, srvRunning, stopped, app>>
    BY <1>1 DEF RestartServer, ShowRestarting, Exit, StartRefused, BoxClosed, HeardError,
                ShowRunning
  <2> QED
    BY <2>1
<1>2. ASSUME NEW i \in Apps, MarkStopped(i)
      PROVE  (srvRunning <=> CurrentGoesOn)'
  BY <1>2 DEF MarkStopped
<1>3. ASSUME NEW i \in Apps, NEW p \in 1..Ports, CloseListener(i, p)
      PROVE  (srvRunning <=> CurrentGoesOn)'
  BY <1>3 DEF CloseListener
<1>4. ASSUME NEW i \in Apps, SetApp(i)
      PROVE  (srvRunning <=> CurrentGoesOn)'
  <2>1. i # 0
    BY DEF Apps
  <2>2. app'[i].pc = "listen"
    BY <1>4 DEF SetApp, TrayTypeOK
  <2> QED
    BY <1>4, <2>1, <2>2 DEF SetApp
<1>5. ASSUME NEW i \in Apps, \/ ListenOk(i) \/ ListenFails(i) \/ Serve(i)
                                \/ Broadcast(i) \/ Drain(i) \/ StartReturns(i)
      PROVE  (srvRunning <=> CurrentGoesOn)'
  <2>1. /\ app[i].pc \in {"listen", "serve", "broadcast", "drain"}
        /\ app'[i].pc \in {"listen", "serve", "broadcast", "drain", "returned"}
        /\ \A j \in Apps : j # i => app'[j] = app[j]
    BY <1>5 DEF TrayTypeOK, ListenOk, ListenFails, Serve, Broadcast, Drain, StartReturns
  <2>2. UNCHANGED <<currentApp, srvRunning, stopped>>
    BY <1>5 DEF ListenOk, ListenFails, Serve, Broadcast, Drain, StartReturns
  <2> QED
    BY <2>1, <2>2 DEF TrayTypeOK
<1>6. ASSUME NEW i \in Apps, ClearRunningIf(i) \/ Report(i)
      PROVE  (srvRunning <=> CurrentGoesOn)'
  <2>1. /\ app'[i].pc \in {"cleared", "over"}
        /\ \A j \in Apps : j # i => app'[j] = app[j]
    BY <1>6 DEF TrayTypeOK, ClearRunningIf, Report
  <2>2. UNCHANGED <<currentApp, stopped>> /\ (srvRunning' <=> srvRunning /\ currentApp # i)
    BY <1>6 DEF ClearRunningIf, Report
  <2> QED
    BY <2>1, <2>2 DEF TrayTypeOK
<1>7. ASSUME NEW i \in Apps, NEW t \in Targets, DialStep(i, t)
      PROVE  (srvRunning <=> CurrentGoesOn)'
  <2>1. UNCHANGED <<currentApp, srvRunning, stopped, app>>
    BY <1>7 DEF DialStep, DialOk, ConnEnds, LoopEnds, LoopGoes
  <2> QED
    BY <2>1
<1>8. ASSUME UNCHANGED trayVars
      PROVE  (srvRunning <=> CurrentGoesOn)'
  BY <1>8 DEF trayVars
<1> QED
  BY <1>1, <1>2, <1>3, <1>4, <1>5, <1>6, <1>7, <1>8 DEF TrayNext, CallStep, AppStep

\* The running flag the console shows is set exactly while the Start of the current
\* application has not returned and nobody has marked it as stopped.
THEOREM FlagIsAlwaysRight == TraySpec => []FlagIsRight
<1> DEFINE Inv == TrayTypeOK /\ (srvRunning <=> CurrentGoesOn)
<1>1. TrayInit => Inv
  <2>1. 1 \in 1..(Ports + 1)
    BY PortsAssumption
  <2>2. ASSUME TrayInit
        PROVE  TrayTypeOK
    <3>1. app \in [Apps -> [pc : {"none", "listen", "serve", "broadcast", "drain", "returned", "cleared",
                                     "over"}, next : 1..(Ports + 1)]]
      BY <2>1, <2>2 DEF TrayInit, NotStarted
    <3>2. /\ call \in [Apps -> {"none", "mark", "show", "sleep", "box", "wait", "failed", "over"}]
          /\ bound \in [Apps -> SUBSET (1..Ports)]
          /\ loop \in [Apps -> [Targets -> {"off", "dialing", "serving"}]]
      BY <2>2 DEF TrayInit
    <3> QED
      BY <2>2, <3>1, <3>2 DEF TrayInit, TrayTypeOK
  <2> QED
    BY <2>2 DEF TrayInit, CurrentGoesOn
<1>2. Inv /\ [TrayNext]_trayVars => Inv'
  BY ServerTypes, FlagStep
<1>3. Inv => FlagIsRight
  BY DEF FlagIsRight, CurrentGoesOn
<1> QED
  BY <1>1, <1>2, <1>3, PTL DEF TraySpec
=============================================================================
