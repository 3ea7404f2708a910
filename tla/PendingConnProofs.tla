------------------------- MODULE PendingConnProofs -------------------------
(***************************************************************************)
(* Proofs, for every set of connections, of the safety of the rendezvous   *)
(* and of its refinement of the abstract one.                              *)
(***************************************************************************)
EXTENDS PendingConn, TLAPS

\* An entry of Manager.pending is untouched: nobody closed its channel.
EntryIsFresh ==
    \A x \in pending : pc[x] # "idle" /\ ~ready[x] /\ dataConn[x] = NoData

\* Between the two halves of FulfillPending the connection belongs to exactly
\* one data connection, and to nobody who could close its channel.
TakenIsExclusive ==
    \A d \in DataConns : data[d].st = "taken" =>
        /\ data[d].conn \in Conns \ pending
        /\ pc[data[d].conn] # "idle"
        /\ ~ready[data[d].conn]
        /\ dataConn[data[d].conn] = NoData
        /\ token[data[d].conn] # NoToken
        /\ token[data[d].conn] = data[d].tok
        /\ \A e \in DataConns : data[e].st = "taken" /\ data[e].conn = data[d].conn => e = d

\* A handed-over connection keeps the evidence of its hello.
GivenIsPaired ==
    \A x \in Conns : dataConn[x] # NoData =>
        /\ data[dataConn[x]].st \in {"given", "closed"}
        /\ data[dataConn[x]].conn = x
        /\ token[x] # NoToken
        /\ data[dataConn[x]].tok = token[x]
        /\ ready[x]

\* A closed channel without a connection is seen only after its waiter left.
CancelledIsDone ==
    \A x \in Conns :
        /\ ready[x] /\ dataConn[x] = NoData => pc[x] = "done"
        /\ pc[x] = "relaying" => ready[x]
        /\ pc[x] = "idle" => ~ready[x]
        /\ closers[x] = IF ready[x] THEN 1 ELSE 0

\* The inductive invariant.
IInv ==
    /\ TypeOK
    /\ EntryIsFresh
    /\ TakenIsExclusive
    /\ GivenIsPaired
    /\ CancelledIsDone

\* NewManager's empty tables satisfy the invariant.
LEMMA InitIInv == Init => IInv
<1> SUFFICES ASSUME Init PROVE IInv
  OBVIOUS
<1>1. TypeOK
  BY DEF Init, TypeOK, Kinds, Tokens, NoConn
<1>2. EntryIsFresh /\ TakenIsExclusive
  BY DEF Init, EntryIsFresh, TakenIsExclusive
<1>3. GivenIsPaired /\ CancelledIsDone
  BY DEF Init, GivenIsPaired, CancelledIsDone
<1> QED
  BY <1>1, <1>2, <1>3 DEF IInv

\* Each step of the server, the client and the environment preserves it.
LEMMA NextIInv ==
    ASSUME IInv, [Next]_vars
    PROVE  IInv'
<1> USE DEF IInv
<1>1. ASSUME NEW x \in Conns, NEW k \in Kinds, NEW tok \in {x, NoToken}, Accept(x, k, tok)
      PROVE  IInv'
  <2>1. TypeOK'
    BY <1>1 DEF Accept, TypeOK, Tokens, envVars
  <2>2. EntryIsFresh' /\ CancelledIsDone'
    BY <1>1 DEF Accept, TypeOK, EntryIsFresh, CancelledIsDone, GivenIsPaired
  <2>3. TakenIsExclusive'
    BY <1>1 DEF Accept, TypeOK, TakenIsExclusive
  <2>4. GivenIsPaired'
    BY <1>1 DEF Accept, TypeOK, GivenIsPaired, CancelledIsDone
  <2> QED BY <2>1, <2>2, <2>3, <2>4
<1>2. ASSUME NEW x \in Conns, SendOpen(x) \/ SendOpenFails(x) \/ WaitDone(x) \/ GiveUpProxy(x)
      PROVE  IInv'
  <2>1. PICK p \in {"waiting", "relaying", "done"} :
           /\ pc' = [pc EXCEPT ![x] = p]
           /\ p = "relaying" => ready[x]
    BY <1>2 DEF SendOpen, SendOpenFails, WaitDone, GiveUpProxy
  <2>2. /\ pc[x] \in {"registered", "waiting"}
        /\ UNCHANGED <<kind, token, mgrVars, data, envVars>>
        /\ open' \subseteq Conns
        /\ ext' \in [Conns -> {"none", "open", "closed"}]
    BY <1>2 DEF SendOpen, SendOpenFails, WaitDone, GiveUpProxy, TypeOK
  <2>3. ready[x] /\ dataConn[x] = NoData => p = "done"
    BY <2>2 DEF CancelledIsDone
  <2>4. TypeOK'
    BY <2>1, <2>2 DEF TypeOK, mgrVars, envVars
  <2>5. EntryIsFresh' /\ TakenIsExclusive' /\ GivenIsPaired'
    BY <2>1, <2>2 DEF TypeOK, mgrVars, EntryIsFresh, TakenIsExclusive, GivenIsPaired
  <2>6. CancelledIsDone'
    BY <2>1, <2>2, <2>3 DEF TypeOK, mgrVars, CancelledIsDone
  <2> QED BY <2>4, <2>5, <2>6
<1>3. ASSUME NEW x \in Conns, CancelTCP(x)
      PROVE  IInv'
  <2>1. TypeOK'
    BY <1>3 DEF CancelTCP, CancelPending, TypeOK, envVars
  <2>2. EntryIsFresh'
    BY <1>3 DEF CancelTCP, CancelPending, TypeOK, EntryIsFresh
  <2>3. TakenIsExclusive'
    BY <1>3 DEF CancelTCP, CancelPending, TypeOK, TakenIsExclusive
  <2>4. GivenIsPaired'
    BY <1>3 DEF CancelTCP, CancelPending, TypeOK, GivenIsPaired
  <2>5. CancelledIsDone'
    <3>1. CASE x \in pending
      <4>1. /\ ready' = [ready EXCEPT ![x] = TRUE]
            /\ closers' = [closers EXCEPT ![x] = closers[x] + 1]
            /\ pc' = [pc EXCEPT ![x] = "done"]
            /\ dataConn' = dataConn
            /\ ~ready[x]
        BY <1>3, <3>1 DEF CancelTCP, CancelPending, EntryIsFresh
      <4> QED BY <4>1 DEF TypeOK, CancelledIsDone
    <3>2. CASE x \notin pending
      <4>1. /\ ready' = ready
            /\ closers' = closers
            /\ pc' = [pc EXCEPT ![x] = "done"]
            /\ dataConn' = dataConn
            /\ pc[x] = "waiting"
        BY <1>3, <3>2 DEF CancelTCP, CancelPending, TypeOK
      <4> QED BY <4>1 DEF TypeOK, CancelledIsDone
    <3> QED BY <3>1, <3>2
  <2> QED BY <2>1, <2>2, <2>3, <2>4, <2>5
<1>4. ASSUME NEW x \in Conns, RelayEnds(x)
      PROVE  IInv'
  <2>1. dataConn[x] \in DataConns
    BY <1>4 DEF RelayEnds, TypeOK, CancelledIsDone
  <2>a. data[dataConn[x]].st # "none"
    BY <1>4, <2>1, NoDataAssumption DEF RelayEnds, GivenIsPaired
  <2>2. TypeOK'
    BY <1>4, <2>1, <2>a DEF RelayEnds, TypeOK, mgrVars, envVars
  <2>3. EntryIsFresh' /\ CancelledIsDone'
    BY <1>4 DEF RelayEnds, TypeOK, mgrVars, EntryIsFresh, CancelledIsDone
  <2>4. TakenIsExclusive'
    BY <1>4, <2>1 DEF RelayEnds, TypeOK, mgrVars, TakenIsExclusive
  <2>5. GivenIsPaired'
    BY <1>4, <2>1, NoDataAssumption DEF RelayEnds, TypeOK, mgrVars, GivenIsPaired
  <2> QED BY <2>2, <2>3, <2>4, <2>5
<1>5. ASSUME NEW d \in DataConns, NEW x \in Conns, NEW y \in Conns,
             ClientDials(x, d) \/ StrayHello(d, x, y)
      PROVE  IInv'
  <2>1. PICK tk \in Tokens : data' = [data EXCEPT ![d] = [st |-> "hello", conn |-> x, tok |-> tk]]
    BY <1>5 DEF ClientDials, StrayHello, TypeOK
  <2>2. /\ data[d].st = "none"
        /\ open' \subseteq Conns
        /\ UNCHANGED <<connVars, mgrVars, envVars>>
    BY <1>5 DEF ClientDials, StrayHello, TypeOK
  <2>3. TypeOK'
    BY <2>1, <2>2, NoTokenAssumption DEF TypeOK, NoConn, connVars, mgrVars, envVars
  <2>4. EntryIsFresh' /\ CancelledIsDone'
    BY <2>2 DEF connVars, mgrVars, EntryIsFresh, CancelledIsDone
  <2>5. TakenIsExclusive'
    BY <2>1, <2>2 DEF TypeOK, connVars, mgrVars, TakenIsExclusive
  <2>6. GivenIsPaired'
    BY <2>1, <2>2 DEF TypeOK, connVars, mgrVars, GivenIsPaired
  <2> QED BY <2>3, <2>4, <2>5, <2>6
<1>6. ASSUME NEW d \in DataConns, FulfillTake(d)
      PROVE  IInv'
  <2>1. /\ data[d].conn \in pending
        /\ data[d].conn \in Conns
    BY <1>6 DEF FulfillTake, TokenMatches, TypeOK
  <2>2. TypeOK'
    BY <1>6 DEF FulfillTake, TypeOK, connVars, envVars
  <2>3. EntryIsFresh' /\ CancelledIsDone'
    BY <1>6 DEF FulfillTake, connVars, EntryIsFresh, CancelledIsDone
  <2>4. TakenIsExclusive'
    BY <1>6, <2>1 DEF FulfillTake, TokenMatches, TypeOK, connVars, TakenIsExclusive, EntryIsFresh
  <2>5. GivenIsPaired'
    BY <1>6 DEF FulfillTake, TypeOK, connVars, GivenIsPaired
  <2> QED BY <2>2, <2>3, <2>4, <2>5
<1>7. ASSUME NEW d \in DataConns, FulfillHandOver(d)
      PROVE  IInv'
  <2>1. /\ data[d].conn \in Conns \ pending
        /\ ~ready[data[d].conn]
        /\ dataConn[data[d].conn] = NoData
    BY <1>7 DEF FulfillHandOver, TakenIsExclusive
  <2>2. TypeOK'
    BY <1>7, <2>1 DEF FulfillHandOver, TypeOK, connVars, envVars
  <2>3. EntryIsFresh'
    BY <1>7, <2>1 DEF FulfillHandOver, TypeOK, connVars, EntryIsFresh
  <2>4. TakenIsExclusive'
    BY <1>7, <2>1 DEF FulfillHandOver, TypeOK, connVars, TakenIsExclusive
  <2>5. GivenIsPaired'
    BY <1>7, <2>1, NoDataAssumption
       DEF FulfillHandOver, TypeOK, connVars, GivenIsPaired, TakenIsExclusive
  <2>6. CancelledIsDone'
    BY <1>7, <2>1, NoDataAssumption
       DEF FulfillHandOver, TypeOK, connVars, CancelledIsDone, TakenIsExclusive
  <2> QED BY <2>2, <2>3, <2>4, <2>5, <2>6
<1>8. ASSUME NEW d \in DataConns, HelloUnread(d) \/ DataConnRefused(d)
      PROVE  IInv'
  <2>1. /\ data[d].st = "hello"
        /\ data' = [data EXCEPT ![d].st = "closed"]
        /\ UNCHANGED <<connVars, mgrVars, open, envVars>>
    BY <1>8 DEF HelloUnread, DataConnRefused
  <2>2. TypeOK' /\ EntryIsFresh' /\ CancelledIsDone'
    BY <2>1 DEF TypeOK, connVars, mgrVars, envVars, EntryIsFresh, CancelledIsDone
  <2>3. TakenIsExclusive' /\ GivenIsPaired'
    BY <2>1 DEF TypeOK, connVars, mgrVars, TakenIsExclusive, GivenIsPaired
  <2> QED BY <2>2, <2>3
<1>9. ASSUME \/ \E x \in Conns : OpenLost(x)
             \/ \E k \in Kinds : ListenerCloses(k)
             \/ CtrlBreaks \/ SessionEnds \/ ServerStops
             \/ UNCHANGED vars
      PROVE  IInv'
  <2>1. UNCHANGED <<connVars, mgrVars, data>>
    BY <1>9 DEF OpenLost, ListenerCloses, CtrlBreaks, SessionEnds, ServerStops, vars
  <2>2. TypeOK'
    BY <1>9 DEF OpenLost, ListenerCloses, CtrlBreaks, SessionEnds, ServerStops, vars,
                TypeOK, connVars, mgrVars, envVars
  <2>3. EntryIsFresh' /\ TakenIsExclusive' /\ GivenIsPaired' /\ CancelledIsDone'
    BY <2>1 DEF connVars, mgrVars, EntryIsFresh, TakenIsExclusive, GivenIsPaired, CancelledIsDone
  <2> QED BY <2>2, <2>3
<1> QED
  BY <1>1, <1>2, <1>3, <1>4, <1>5, <1>6, <1>7, <1>8, <1>9 DEF Next, ServeConn, HandleData

\* The invariant holds in every reachable state.
THEOREM Invariance == Spec => []IInv
  BY InitIInv, NextIInv, PTL DEF Spec

\* All the state of the rendezvous keeps its type.
THEOREM TypeCorrect == Spec => []TypeOK
<1>1. IInv => TypeOK
  BY DEF IInv
<1> QED BY Invariance, <1>1, PTL

\* A relay never starts on the nil connection of a cancelled entry.
THEOREM RelayIsSafe == Spec => []RelayHasDataConn
<1>1. IInv => RelayHasDataConn
  BY DEF IInv, CancelledIsDone, RelayHasDataConn
<1> QED BY Invariance, <1>1, PTL

\* A user is paired only with a data connection that echoed its own token, and
\* no data connection serves two users.
THEOREM PairingIsExclusive == Spec => []PairedByToken
<1>1. IInv => PairedByToken
  <2> SUFFICES ASSUME IInv, NEW x \in Conns, dataConn[x] # NoData
               PROVE  /\ data[dataConn[x]].conn = x
                      /\ token[x] # NoToken
                      /\ data[dataConn[x]].tok = token[x]
                      /\ \A y \in Conns \ {x} : dataConn[y] # dataConn[x]
    BY DEF PairedByToken
  <2> QED BY DEF IInv, GivenIsPaired
<1> QED BY Invariance, <1>1, PTL

\* FulfillPending and CancelPending never both close one ready channel, and a
\* token is spent once.
THEOREM TokenIsSingleUse == Spec => []ReadyClosedOnce
<1>1. IInv => ReadyClosedOnce
  <2> SUFFICES ASSUME IInv, NEW x \in Conns
               PROVE  /\ closers[x] <= 1
                      /\ \A d, e \in {c \in DataConns : data[c].conn = x} :
                           data[d].st = "taken" /\ (data[e].st = "taken" \/ dataConn[x] = e) => d = e
    BY DEF ReadyClosedOnce
  <2>1. closers[x] <= 1
    BY DEF IInv, CancelledIsDone
  <2>2. ASSUME NEW d \in DataConns, data[d].conn = x, data[d].st = "taken",
               NEW e \in DataConns, data[e].conn = x, data[e].st = "taken" \/ dataConn[x] = e
        PROVE  d = e
    BY <2>2, NoDataAssumption DEF IInv, TakenIsExclusive
  <2> QED BY <2>1, <2>2
<1> QED BY Invariance, <1>1, PTL

\* Once handed over, a data connection stays with its user.
THEOREM HandOverIsPermanent == Spec => HandOverIsFinal
<1>1. ASSUME IInv, [Next]_vars
      PROVE  [\A x \in Conns : dataConn[x] # NoData => dataConn'[x] = dataConn[x]]_vars
  <2> SUFFICES ASSUME Next, NEW x \in Conns, dataConn[x] # NoData
               PROVE  dataConn'[x] = dataConn[x]
    BY <1>1
  <2>1. ASSUME NEW d \in DataConns, FulfillHandOver(d)
        PROVE  dataConn'[x] = dataConn[x]
    BY <1>1, <2>1 DEF IInv, TypeOK, TakenIsExclusive, FulfillHandOver
  <2>2. CASE ~ \E d \in DataConns : FulfillHandOver(d)
    BY <2>2 DEF Next, Accept, ServeConn, SendOpen, SendOpenFails, WaitDone, CancelTCP,
       CancelPending, GiveUpProxy, RelayEnds, OpenLost, ClientDials, HandleData, FulfillTake,
       HelloUnread, DataConnRefused, StrayHello, CtrlBreaks, SessionEnds, ServerStops,
       ListenerCloses, mgrVars
  <2> QED BY <2>1, <2>2
<1> QED BY Invariance, <1>1, PTL DEF Spec, HandOverIsFinal

-----------------------------------------------------------------------------
(* Refinement of the abstract rendezvous.                                  *)

\* What the refinement mapping says of a connection, without CHOOSE.
MatchFacts ==
    /\ absMatch \in [Conns -> DataConns \cup {NoData}]
    /\ \A x \in Conns : dataConn[x] # NoData => absMatch[x] = dataConn[x]
    /\ \A d \in DataConns : data[d].st = "taken" => absMatch[data[d].conn] = d
    /\ \A x \in Conns : dataConn[x] = NoData /\ (\A d \in DataConns : ~(data[d].st = "taken" /\ data[d].conn = x))
                        => absMatch[x] = NoData

\* The mapping is determined by who took and who was handed the connection.
LEMMA MatchFactsHold == IInv => MatchFacts
<1> SUFFICES ASSUME IInv PROVE MatchFacts
  OBVIOUS
<1>1. ASSUME NEW x \in Conns
      PROVE  absMatch[x] \in DataConns \cup {NoData}
  BY DEF absMatch, IInv, TypeOK
<1>2. absMatch \in [Conns -> DataConns \cup {NoData}]
  BY <1>1 DEF absMatch
<1>3. ASSUME NEW x \in Conns, dataConn[x] # NoData
      PROVE  absMatch[x] = dataConn[x]
  BY <1>3 DEF absMatch
<1>4. ASSUME NEW d \in DataConns, data[d].st = "taken"
      PROVE  absMatch[data[d].conn] = d
  <2>1. data[d].conn \in Conns /\ dataConn[data[d].conn] = NoData
    BY <1>4 DEF IInv, TakenIsExclusive
  <2>2. \A e \in DataConns : data[e].st = "taken" /\ data[e].conn = data[d].conn => e = d
    BY <1>4 DEF IInv, TakenIsExclusive
  <2>3. (CHOOSE e \in DataConns : data[e].st = "taken" /\ data[e].conn = data[d].conn) = d
    BY <1>4, <2>2
  <2> QED BY <1>4, <2>1, <2>3 DEF absMatch
<1>5. ASSUME NEW x \in Conns, dataConn[x] = NoData,
             \A d \in DataConns : ~(data[d].st = "taken" /\ data[d].conn = x)
      PROVE  absMatch[x] = NoData
  BY <1>5 DEF absMatch
<1> QED BY <1>2, <1>3, <1>4, <1>5 DEF MatchFacts

\* Every step of the rendezvous is a step of the abstract one or leaves it alone.
LEMMA StepRefines ==
    ASSUME IInv, IInv', MatchFacts, MatchFacts', [Next]_vars
    PROVE  [Abstract!AbsNext]_(Abstract!absVars)
<1> DEFINE Same == absMatch' = absMatch /\ absOffer' = absOffer
<1>a. absOffer = [x \in Conns |-> IF pc[x] = "idle" THEN "absent"
                                  ELSE IF x \in pending THEN "open"
                                  ELSE IF absMatch[x] # NoData THEN "matched" ELSE "withdrawn"]
  BY DEF absOffer
<1>b. absOffer' = [x \in Conns |-> IF pc'[x] = "idle" THEN "absent"
                                  ELSE IF x \in pending' THEN "open"
                                  ELSE IF absMatch'[x] # NoData THEN "matched" ELSE "withdrawn"]
  BY DEF absOffer
<1>c. ASSUME \A x \in Conns : absMatch'[x] = absMatch[x]
      PROVE  absMatch' = absMatch
  BY <1>c DEF MatchFacts
<1>1. ASSUME NEW x \in Conns, NEW k \in Kinds, NEW tok \in {x, NoToken}, Accept(x, k, tok)
      PROVE  Abstract!Offer(x)
  <2>1. absMatch' = absMatch
    <3> SUFFICES ASSUME NEW y \in Conns PROVE absMatch'[y] = absMatch[y]
      BY <1>c
    <3> QED BY <1>1 DEF Accept, MatchFacts
  <2>2. absOffer[x] = "absent"
    BY <1>1, <1>a DEF Accept
  <2>3. absOffer' = [absOffer EXCEPT ![x] = "open"]
    BY <1>1, <1>a, <1>b, <2>1 DEF Accept, IInv, TypeOK
  <2> QED BY <2>1, <2>2, <2>3 DEF Abstract!Offer
<1>2. ASSUME NEW x \in Conns, SendOpen(x) \/ SendOpenFails(x) \/ WaitDone(x) \/ GiveUpProxy(x)
      PROVE  Same
  <2>1. /\ pc' \in [Conns -> {"idle", "registered", "waiting", "relaying", "done"}]
        /\ \A y \in Conns : pc'[y] = "idle" <=> pc[y] = "idle"
        /\ UNCHANGED <<mgrVars, data>>
    BY <1>2 DEF SendOpen, SendOpenFails, WaitDone, GiveUpProxy, IInv, TypeOK
  <2>2. absMatch' = absMatch
    <3> SUFFICES ASSUME NEW y \in Conns PROVE absMatch'[y] = absMatch[y]
      BY <1>c
    <3> QED BY <2>1 DEF mgrVars, MatchFacts
  <2>3. absOffer' = absOffer
    BY <1>a, <1>b, <2>1, <2>2 DEF mgrVars
  <2> QED BY <2>2, <2>3
<1>3. ASSUME NEW x \in Conns, CancelTCP(x)
      PROVE  Abstract!Withdraw(x) \/ Same
  <2>1. absMatch' = absMatch
    <3> SUFFICES ASSUME NEW y \in Conns PROVE absMatch'[y] = absMatch[y]
      BY <1>c
    <3> QED BY <1>3 DEF CancelTCP, CancelPending, MatchFacts
  <2>2. CASE x \in pending
    <3>1. absMatch[x] = NoData
      BY <2>2 DEF IInv, EntryIsFresh, TakenIsExclusive, MatchFacts
    <3>2. absOffer[x] = "open"
      BY <1>a, <2>2 DEF IInv, EntryIsFresh
    <3>3. absOffer' = [absOffer EXCEPT ![x] = "withdrawn"]
      BY <1>3, <1>a, <1>b, <2>1, <3>1 DEF CancelTCP, CancelPending, IInv, TypeOK
    <3> QED BY <2>1, <3>2, <3>3 DEF Abstract!Withdraw
  <2>3. CASE x \notin pending
    <3>1. absOffer' = absOffer
      BY <1>3, <1>a, <1>b, <2>1, <2>3 DEF CancelTCP, CancelPending, IInv, TypeOK
    <3> QED BY <2>1, <3>1
  <2> QED BY <2>2, <2>3
<1>4. ASSUME NEW x \in Conns, RelayEnds(x)
      PROVE  Same
  <2>1. /\ dataConn[x] \in DataConns
        /\ data[dataConn[x]].st # "taken"
    BY <1>4 DEF RelayEnds, IInv, TypeOK, CancelledIsDone, GivenIsPaired
  <2>2. \A d \in DataConns : /\ data'[d].conn = data[d].conn
                             /\ data'[d].st = "taken" <=> data[d].st = "taken"
    BY <1>4, <2>1 DEF RelayEnds, IInv, TypeOK
  <2>3. absMatch' = absMatch
    <3> SUFFICES ASSUME NEW y \in Conns PROVE absMatch'[y] = absMatch[y]
      BY <1>c
    <3> QED BY <1>4, <2>2 DEF RelayEnds, mgrVars, MatchFacts
  <2>4. absOffer' = absOffer
    BY <1>4, <1>a, <1>b, <2>3 DEF RelayEnds, mgrVars, IInv, TypeOK
  <2> QED BY <2>3, <2>4
<1>5. ASSUME NEW d \in DataConns,
             \/ \E x \in Conns : ClientDials(x, d) \/ \E y \in Conns : StrayHello(d, x, y)
             \/ HelloUnread(d) \/ DataConnRefused(d)
      PROVE  Same
  <2>1. /\ UNCHANGED <<connVars, mgrVars>>
        /\ data[d].st \in {"none", "hello"}
        /\ data'[d].st \in {"hello", "closed"}
        /\ \A e \in DataConns \ {d} : data'[e] = data[e]
    BY <1>5 DEF ClientDials, StrayHello, HelloUnread, DataConnRefused, IInv, TypeOK
  <2>2. absMatch' = absMatch
    <3> SUFFICES ASSUME NEW y \in Conns PROVE absMatch'[y] = absMatch[y]
      BY <1>c
    <3> QED BY <2>1 DEF mgrVars, MatchFacts
  <2>3. absOffer' = absOffer
    BY <1>a, <1>b, <2>1, <2>2 DEF connVars, mgrVars
  <2> QED BY <2>2, <2>3
<1>6. ASSUME NEW d \in DataConns, FulfillTake(d)
      PROVE  \E x \in Conns : Abstract!Match(x, d)
  <2> DEFINE x == data[d].conn
  <2>1. x \in Conns /\ x \in pending
    BY <1>6 DEF FulfillTake, TokenMatches, IInv, TypeOK
  <2>2. /\ data'[d].st = "taken" /\ data'[d].conn = x
        /\ \A e \in DataConns \ {d} : data'[e] = data[e]
        /\ dataConn' = dataConn /\ pc' = pc /\ pending' = pending \ {x}
    BY <1>6 DEF FulfillTake, connVars, IInv, TypeOK
  <2>3. absMatch'[x] = d
    BY <2>2 DEF MatchFacts
  <2>4. ASSUME NEW y \in Conns, y # x
        PROVE  absMatch'[y] = absMatch[y]
    BY <1>6, <2>2, <2>4 DEF FulfillTake, MatchFacts
  <2>5. absMatch' = [absMatch EXCEPT ![x] = d]
    BY <2>1, <2>3, <2>4 DEF MatchFacts
  <2>6. ASSUME NEW y \in Conns
        PROVE  absMatch[y] # d
    <3>1. dataConn[y] # d
      BY <1>6, NoDataAssumption DEF FulfillTake, IInv, GivenIsPaired
    <3> QED BY <1>6, <3>1, NoDataAssumption DEF FulfillTake, MatchFacts, IInv, TypeOK
  <2>7. absOffer[x] = "open"
    BY <1>a, <2>1 DEF IInv, EntryIsFresh
  <2>8. absOffer' = [absOffer EXCEPT ![x] = "matched"]
    <3>1. pc[x] # "idle"
      BY <2>1 DEF IInv, EntryIsFresh
    <3> QED BY <1>a, <1>b, <2>1, <2>2, <2>3, <2>4, <3>1, NoDataAssumption
  <2> QED BY <2>1, <2>5, <2>6, <2>7, <2>8 DEF Abstract!Match
<1>7. ASSUME NEW d \in DataConns, FulfillHandOver(d)
      PROVE  Same
  <2> DEFINE x == data[d].conn
  <2>1. /\ x \in Conns
        /\ dataConn' = [dataConn EXCEPT ![x] = d]
        /\ data'[d].st = "given"
        /\ \A e \in DataConns \ {d} : data'[e] = data[e]
        /\ pc' = pc /\ pending' = pending
        /\ data[d].st = "taken"
    BY <1>7 DEF FulfillHandOver, connVars, IInv, TypeOK, TakenIsExclusive
  <2>2. absMatch'[x] = absMatch[x]
    BY <2>1, NoDataAssumption DEF MatchFacts, IInv, TypeOK
  <2>3. ASSUME NEW y \in Conns, y # x
        PROVE  absMatch'[y] = absMatch[y]
    <3>1. dataConn'[y] = dataConn[y]
      BY <2>1, <2>3 DEF IInv, TypeOK
    <3>2. ASSUME NEW e \in DataConns
          PROVE  (data'[e].st = "taken" /\ data'[e].conn = y) <=> (data[e].st = "taken" /\ data[e].conn = y)
      BY <2>1, <2>3
    <3> QED BY <3>1, <3>2 DEF MatchFacts
  <2>4. absMatch' = absMatch
    BY <1>c, <2>2, <2>3
  <2>5. absOffer' = absOffer
    BY <1>a, <1>b, <2>1, <2>4
  <2> QED BY <2>4, <2>5
<1>8. ASSUME \/ \E x \in Conns : OpenLost(x)
             \/ \E k \in Kinds : ListenerCloses(k)
             \/ CtrlBreaks \/ SessionEnds \/ ServerStops
             \/ UNCHANGED vars
      PROVE  Same
  <2>1. UNCHANGED <<connVars, mgrVars, data>>
    BY <1>8 DEF OpenLost, ListenerCloses, CtrlBreaks, SessionEnds, ServerStops, vars
  <2>2. absMatch' = absMatch
    <3> SUFFICES ASSUME NEW y \in Conns PROVE absMatch'[y] = absMatch[y]
      BY <1>c
    <3> QED BY <2>1 DEF mgrVars, MatchFacts
  <2>3. absOffer' = absOffer
    BY <1>a, <1>b, <2>1, <2>2 DEF connVars, mgrVars
  <2> QED BY <2>2, <2>3
<1>9. \/ \E x \in Conns : Abstract!Offer(x) \/ Abstract!Withdraw(x)
                          \/ \E d \in DataConns : Abstract!Match(x, d)
      \/ Same
  BY <1>1, <1>2, <1>3, <1>4, <1>5, <1>6, <1>7, <1>8 DEF Next, ServeConn, HandleData
<1> QED BY <1>9 DEF Abstract!AbsNext, Abstract!absVars

\* The pending table, its locks, channels and tokens implement the abstract
\* rendezvous: offered once, matched once or withdrawn, never undone.
THEOREM Refinement == Spec => ImplementsRendezvous
<1>1. Init => Abstract!AbsInit
  <2> SUFFICES ASSUME Init PROVE Abstract!AbsInit
    OBVIOUS
  <2>1. absMatch = [x \in Conns |-> NoData]
    BY DEF Init, absMatch
  <2>2. absOffer = [x \in Conns |-> "absent"]
    BY DEF Init, absOffer
  <2> QED BY <2>1, <2>2 DEF Abstract!AbsInit
<1>2. IInv /\ IInv' /\ MatchFacts /\ MatchFacts' /\ [Next]_vars
        => [Abstract!AbsNext]_(Abstract!absVars)
  BY StepRefines
<1> QED
  BY <1>1, <1>2, Invariance, MatchFactsHold, PTL DEF Spec, ImplementsRendezvous, Abstract!AbsSpec
=============================================================================
