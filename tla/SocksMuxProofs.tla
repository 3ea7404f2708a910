--------------------------- MODULE SocksMuxProofs ---------------------------
(***************************************************************************)
(* Proofs, for every number of channels and payloads, that the channel     *)
(* tables are exact, that payloads are neither lost nor invented, and that *)
(* half-closing a connection loses nothing.                                *)
(***************************************************************************)
EXTENDS SocksMux, FiniteSetTheorems, TLAPS

\* What the invariant says of the messages q on their way to a side: m is among them,
\* is there at most once, and no payload of c comes after its Close.
Msg(t, c) == [type |-> t, conn |-> c]
In(q, m) == \E i \in DOMAIN q : q[i] = m
Once(q, m) == \A i, j \in DOMAIN q : q[i] = m /\ q[j] = m => i = j
InOrder(q, c) ==
    \A i, j \in DOMAIN q : q[i] = Msg("Close", c) /\ i < j => q[j] # Msg("Data", c)

\* TypeOK, but for the bound on what an endpoint receives.
Types ==
    /\ link \in [Sides -> Seq([type : MsgTypes, conn : Chans])]
    /\ up \in BOOLEAN
    /\ loop \in [Sides -> {"run", "deliver", "closeAll", "close", "over"}]
    /\ dl \in [Sides -> Chans \cup {NoChan}]
    /\ mux \in [Sides -> SUBSET Chans]
    /\ wg \in [Sides -> Int]
    /\ torn \in PerChan(BOOLEAN)
    /\ readyCh \in [Chans -> {"none", "ok", "fail"}]
    /\ pc \in PerChan({"idle", "spawned", "dialing", "waiting", "relay", "done"})
    /\ relayA \in PerChan({"off", "run", "done"})
    /\ relayB \in PerChan({"off", "run", "done"})
    /\ local \in PerChan({"open", "half", "gone"})
    /\ sent \in PerChan(0..MaxData)
    /\ got \in PerChan(Nat)

\* A loop in Deliver has a channel, and one that is over has closed its connection.
LoopInv ==
    \A s \in Sides :
        /\ loop[s] = "deliver" <=> dl[s] # NoChan
        /\ loop[s] = "over" => ~up

\* The WaitGroup counts the registered channels, of which there are finitely many.
CountInv == \A s \in Sides : IsFiniteSet(mux[s]) /\ wg[s] = Cardinality(mux[s])

\* A registered channel has a handler and is not torn; a torn one had a handler.
TableInv ==
    \A s \in Sides, c \in Chans :
        /\ c \in mux[s] => pc[s][c] \in {"dialing", "waiting", "relay"} /\ ~torn[s][c]
        /\ torn[s][c] => pc[s][c] \notin {"idle", "spawned"}

\* The two goroutines of a relay belong to a handler that relays or has done so.
RelayInv ==
    \A s \in Sides, c \in Chans :
        /\ relayA[s][c] = "off" <=> relayB[s][c] = "off"
        /\ pc[s][c] \notin {"relay", "done"} => relayA[s][c] = "off"
        /\ pc[s][c] = "relay" => relayA[s][c] # "off"
        /\ pc[s][c] = "done" => relayA[s][c] # "run"
        /\ relayA[s][c] = "off" => sent[s][c] = 0
        /\ relayB[s][c] = "done" => torn[s][c] \/ local[s][c] = "gone"

\* A channel is opened once: its Connect is sent once and taken once.
ConnectInv ==
    \A c \in Chans :
        /\ pc["client"][c] = "idle" => pc["server"][c] = "idle"
        /\ In(link["server"], Msg("Connect", c)) => /\ pc["client"][c] # "idle"
                                                   /\ pc["server"][c] = "idle"
        /\ Once(link["server"], Msg("Connect", c))

\* Until the server relays, the client does not, and neither has closed anything.
ServerFirst ==
    \A c \in Chans : relayA["server"][c] = "off" =>
        /\ readyCh[c] # "ok"
        /\ ~In(link["client"], Msg("ReadyOK", c))
        /\ relayA["client"][c] = "off"
        /\ \A s \in Sides : ~In(link[s], Msg("Close", c))

\* The Close of a channel is the last its sender has to say of it.
CloseIsLast ==
    \A s \in Sides, c \in Chans :
        /\ In(link[s], Msg("Close", c)) => /\ relayA[Other(s)][c] # "run"
                                          /\ pc[Other(s)][c] \in {"relay", "done"}
        /\ InOrder(link[s], c)

\* No endpoint receives what the other one has not sent.
NothingInvented ==
    \A s \in Sides, c \in Chans : got[s][c] + InFlight(s, c) <= sent[Other(s)][c]

\* A channel that was torn under its handler by the other side's Close, and not by
\* the CloseAll of its own side, is complete.
TornIsComplete ==
    \A s \in Sides, c \in Chans :
        /\ up /\ Serving(s)
        /\ torn[s][c]
        /\ local[s][c] # "gone"
        /\ pc[s][c] = "done" => relayB[s][c] # "off"
        => /\ got[s][c] = sent[Other(s)][c]
           /\ relayA[Other(s)][c] # "run"
           /\ pc[Other(s)][c] \in {"relay", "done"}

\* The inductive invariant.
IInv ==
    /\ Types
    /\ LoopInv
    /\ CountInv
    /\ TableInv
    /\ RelayInv
    /\ ConnectInv
    /\ ServerFirst
    /\ CloseIsLast
    /\ NothingInvented
    /\ PayloadsConserved
    /\ TornIsComplete

-----------------------------------------------------------------------------
(* The messages on the control connection.                                 *)

\* WriteMsg puts a message at the end of the other side's queue.
LEMMA AppendMsg ==
    ASSUME NEW q \in Seq([type : MsgTypes, conn : Chans]),
           NEW x \in [type : MsgTypes, conn : Chans]
    PROVE  /\ Append(q, x) \in Seq([type : MsgTypes, conn : Chans])
           /\ \A m : In(Append(q, x), m) <=> In(q, m) \/ x = m
           /\ \A m : Once(q, m) /\ (x = m => ~In(q, m)) => Once(Append(q, x), m)
           /\ \A c : InOrder(q, c) /\ (x = Msg("Data", c) => ~In(q, Msg("Close", c)))
                         => InOrder(Append(q, x), c)
<1> DEFINE r == Append(q, x)
           n == Len(q)
<1>1. /\ r \in Seq([type : MsgTypes, conn : Chans])
      /\ n \in Nat
      /\ DOMAIN q = 1..n
      /\ DOMAIN r = 1..(n + 1)
      /\ r[n + 1] = x
      /\ \A i \in 1..n : r[i] = q[i]
  OBVIOUS
<1> HIDE DEF r, n
<1>2. \A m : In(r, m) <=> In(q, m) \/ x = m
  BY <1>1 DEF In
<1>3. ASSUME NEW m, Once(q, m), x = m => ~In(q, m)
      PROVE  Once(r, m)
  BY <1>1, <1>3 DEF Once, In
<1>4. ASSUME NEW c, InOrder(q, c), x = Msg("Data", c) => ~In(q, Msg("Close", c))
      PROVE  InOrder(r, c)
  <2> SUFFICES ASSUME NEW i \in 1..(n + 1), NEW j \in 1..(n + 1), i < j,
                      r[i] = Msg("Close", c), r[j] = Msg("Data", c)
               PROVE  FALSE
    BY <1>1 DEF InOrder
  <2>1. i \in 1..n /\ q[i] = Msg("Close", c)
    BY <1>1
  <2>2. CASE j = n + 1
    BY <1>1, <1>4, <2>1, <2>2 DEF In
  <2>3. CASE j # n + 1
    <3>1. j \in 1..n /\ q[j] = Msg("Data", c)
      BY <1>1, <2>3
    <3> QED
      BY <1>1, <1>4, <2>1, <3>1 DEF InOrder
  <2> QED
    BY <2>2, <2>3
<1> QED
  BY <1>1, <1>2, <1>3, <1>4 DEF r

\* ReadMessage takes the message at the front.
LEMMA TailMsg ==
    ASSUME NEW q \in Seq([type : MsgTypes, conn : Chans]), q # <<>>
    PROVE  /\ Tail(q) \in Seq([type : MsgTypes, conn : Chans])
           /\ In(q, Head(q))
           /\ \A m : In(Tail(q), m) => In(q, m)
           /\ \A m : Once(q, m) => Once(Tail(q), m) /\ (Head(q) = m => ~In(Tail(q), m))
           /\ \A c : InOrder(q, c) => /\ InOrder(Tail(q), c)
                                      /\ Head(q) = Msg("Close", c) => ~In(Tail(q), Msg("Data", c))
<1> DEFINE r == Tail(q)
           n == Len(q)
<1>1. /\ r \in Seq([type : MsgTypes, conn : Chans])
      /\ n \in Nat \ {0}
      /\ DOMAIN q = 1..n
      /\ DOMAIN r = 1..(n - 1)
      /\ Head(q) = q[1]
      /\ \A i \in 1..(n - 1) : r[i] = q[i + 1]
  OBVIOUS
<1> HIDE DEF r, n
<1>2. \A i \in 1..(n - 1) : i + 1 \in 1..n /\ i + 1 # 1 /\ 1 < i + 1
  BY <1>1
<1>3. In(q, Head(q)) /\ \A m : In(r, m) => In(q, m)
  BY <1>1, <1>2 DEF In
<1>4. ASSUME NEW m, Once(q, m)
      PROVE  Once(r, m) /\ (Head(q) = m => ~In(r, m))
  <2>1. ASSUME NEW i \in 1..(n - 1), NEW j \in 1..(n - 1), r[i] = m, r[j] = m
        PROVE  i = j
    <3>1. q[i + 1] = m /\ q[j + 1] = m
      BY <1>1, <2>1
    <3>2. i + 1 = j + 1
      BY <1>1, <1>2, <1>4, <3>1 DEF Once
    <3> QED
      BY <1>1, <3>2
  <2>2. ASSUME Head(q) = m, NEW i \in 1..(n - 1), r[i] = m
        PROVE  FALSE
    <3>1. q[1] = m /\ q[i + 1] = m /\ 1 \in 1..n
      BY <1>1, <2>2
    <3> QED
      BY <1>1, <1>2, <1>4, <3>1 DEF Once
  <2> QED
    BY <1>1, <2>1, <2>2 DEF Once, In
<1>5. ASSUME NEW c, InOrder(q, c)
      PROVE  InOrder(r, c) /\ (Head(q) = Msg("Close", c) => ~In(r, Msg("Data", c)))
  <2>1. ASSUME NEW i \in 1..(n - 1), NEW j \in 1..(n - 1), i < j,
               r[i] = Msg("Close", c), r[j] = Msg("Data", c)
        PROVE  FALSE
    <3>1. q[i + 1] = Msg("Close", c) /\ q[j + 1] = Msg("Data", c) /\ i + 1 < j + 1
      BY <1>1, <2>1
    <3> QED
      BY <1>1, <1>2, <1>5, <3>1 DEF InOrder
  <2>2. ASSUME Head(q) = Msg("Close", c), NEW j \in 1..(n - 1), r[j] = Msg("Data", c)
        PROVE  FALSE
    <3>1. q[1] = Msg("Close", c) /\ q[j + 1] = Msg("Data", c) /\ 1 \in 1..n
      BY <1>1, <2>2
    <3> QED
      BY <1>1, <1>2, <1>5, <3>1 DEF InOrder
  <2> QED
    BY <1>1, <2>1, <2>2 DEF InOrder, In
<1> QED
  BY <1>1, <1>3, <1>4, <1>5 DEF r

\* How many messages m are waiting.
LEMMA Counting ==
    ASSUME NEW q \in Seq([type : MsgTypes, conn : Chans]), NEW m
    PROVE  /\ IsFiniteSet(Positions(q, m))
           /\ Cardinality(Positions(q, m)) \in Nat
           /\ ~In(q, m) => Cardinality(Positions(q, m)) = 0
<1>1. Positions(q, m) \in SUBSET (1..Len(q)) /\ Len(q) \in Int
  BY DEF Positions
<1>2. IsFiniteSet(Positions(q, m))
  BY <1>1, FS_Interval, FS_Subset
<1>3. ~In(q, m) => Positions(q, m) = {}
  BY DEF In, Positions
<1> QED
  BY <1>2, <1>3, FS_CardinalityType, FS_EmptySet

LEMMA CountAppend ==
    ASSUME NEW q \in Seq([type : MsgTypes, conn : Chans]),
           NEW x \in [type : MsgTypes, conn : Chans], NEW m
    PROVE  Cardinality(Positions(Append(q, x), m))
               = Cardinality(Positions(q, m)) + (IF x = m THEN 1 ELSE 0)
<1> DEFINE n == Len(q)
           r == Append(q, x)
<1>1. /\ n \in Nat
      /\ DOMAIN q = 1..n
      /\ DOMAIN r = 1..(n + 1)
      /\ r[n + 1] = x
      /\ \A i \in 1..n : r[i] = q[i]
  OBVIOUS
<1> HIDE DEF n, r
<1>2. n + 1 \notin Positions(q, m)
  BY <1>1 DEF Positions
<1>3. IsFiniteSet(Positions(q, m)) /\ Cardinality(Positions(q, m)) \in Nat
  BY Counting
<1>4. CASE x = m
  <2>1. Positions(r, m) = Positions(q, m) \cup {n + 1}
    BY <1>1, <1>4 DEF Positions
  <2> QED
    BY <1>2, <1>3, <1>4, <2>1, FS_AddElement DEF r
<1>5. CASE x # m
  <2>1. Positions(r, m) = Positions(q, m)
    BY <1>1, <1>5 DEF Positions
  <2> QED
    BY <1>3, <1>5, <2>1 DEF r
<1> QED
  BY <1>4, <1>5

LEMMA CountTail ==
    ASSUME NEW q \in Seq([type : MsgTypes, conn : Chans]), q # <<>>, NEW m
    PROVE  Cardinality(Positions(Tail(q), m))
               = Cardinality(Positions(q, m)) - (IF Head(q) = m THEN 1 ELSE 0)
<1> DEFINE n == Len(q)
           r == Tail(q)
           S == Positions(q, m) \ {1}
           T == Positions(r, m)
           F == [i \in T |-> i + 1]
<1>1. /\ n \in Nat \ {0}
      /\ DOMAIN q = 1..n
      /\ DOMAIN r = 1..(n - 1)
      /\ Head(q) = q[1]
      /\ \A i \in 1..(n - 1) : r[i] = q[i + 1]
      /\ r \in Seq([type : MsgTypes, conn : Chans])
  OBVIOUS
<1> HIDE DEF n, r
<1>2. IsFiniteSet(Positions(q, m)) /\ Cardinality(Positions(q, m)) \in Nat /\ IsFiniteSet(T)
  BY <1>1, Counting
<1>3. T \subseteq Nat /\ S \subseteq Nat
  BY <1>1 DEF Positions
<1>4. F \in [T -> S]
  <2>1. ASSUME NEW i \in T PROVE i + 1 \in S
    BY <1>1 DEF Positions
  <2> QED
    BY <2>1
<1>5. \A i, j \in T : F[i] = F[j] => i = j
  BY <1>3
<1>6. \A k \in S : \E i \in T : F[i] = k
  <2>1. ASSUME NEW k \in S PROVE k - 1 \in T /\ F[k - 1] = k
    <3>1. k \in 2..n /\ q[k] = m
      BY <1>1 DEF Positions
    <3>2. k - 1 \in 1..(n - 1) /\ r[k - 1] = q[(k - 1) + 1] /\ (k - 1) + 1 = k
      BY <1>1, <3>1
    <3> QED
      BY <1>1, <3>1, <3>2 DEF Positions
  <2> QED
    BY <2>1
<1> HIDE DEF S, T, F
<1>7. Cardinality(S) = Cardinality(T)
  <2>1. F \in Bijection(T, S)
    BY <1>4, <1>5, <1>6 DEF Bijection, Injection, IsInjective, Surjection
  <2>2. ExistsBijection(T, S)
    BY <2>1 DEF ExistsBijection
  <2> QED
    BY <1>2, <2>2, FS_Bijection
<1>8. 1 \in Positions(q, m) <=> Head(q) = m
  BY <1>1 DEF Positions
<1>9. Cardinality(S) = IF Head(q) = m THEN Cardinality(Positions(q, m)) - 1
                       ELSE Cardinality(Positions(q, m))
  BY <1>2, <1>8, FS_RemoveElement DEF S
<1> QED
  BY <1>2, <1>7, <1>9 DEF r, T

\* Payloads of channel c on their way, as a number.
N(q, c) == Cardinality(Positions(q, Msg("Data", c)))

LEMMA MsgFacts ==
    /\ \A t \in MsgTypes, c \in Chans : Msg(t, c) \in [type : MsgTypes, conn : Chans]
    /\ \A t, u, c, d : Msg(t, c) = Msg(u, d) <=> t = u /\ c = d
BY DEF Msg

LEMMA SideFacts ==
    /\ "client" \in Sides /\ "server" \in Sides
    /\ Other("client") = "server" /\ Other("server") = "client"
    /\ \A s \in Sides : Other(s) \in Sides /\ Other(s) # s /\ Other(Other(s)) = s
    /\ \A r, s \in Sides : r # s => r = Other(s)
    /\ \A s \in Sides : s \in {"client", "server"}
BY DEF Sides, Other

\* What sending a message, or failing to, does to the queues.
LEMMA SendEffect ==
    ASSUME Types, NEW s \in Sides, NEW t \in MsgTypes, NEW c \in Chans, Send(s, t, c)
    PROVE  /\ link' \in [Sides -> Seq([type : MsgTypes, conn : Chans])]
           /\ \A r \in Sides : \A m : In(link'[r], m) => In(link[r], m) \/ (r = Other(s) /\ m = Msg(t, c))
           /\ \A r \in Sides : \A m : /\ Once(link[r], m)
                                      /\ m = Msg(t, c) => ~In(link[r], m)
                                      => Once(link'[r], m)
           /\ \A r \in Sides, d \in Chans :
                 /\ InOrder(link[r], d)
                 /\ r = Other(s) /\ t = "Data" /\ d = c => ~In(link[r], Msg("Close", d))
                 => InOrder(link'[r], d)
           /\ \A r \in Sides, d \in Chans :
                 N(link'[r], d) = N(link[r], d)
                     + (IF up /\ r = Other(s) /\ t = "Data" /\ d = c THEN 1 ELSE 0)
<1>1. Msg(t, c) \in [type : MsgTypes, conn : Chans] /\ Other(s) \in Sides
  BY MsgFacts, SideFacts
<1>2. /\ \A r \in Sides : link[r] \in Seq([type : MsgTypes, conn : Chans])
      /\ link'  = IF up THEN [link EXCEPT ![Other(s)] = Append(link[Other(s)], Msg(t, c))] ELSE link
  BY <1>1 DEF Types, Send, Msg
<1>3. \A r \in Sides : link'[r] = IF up /\ r = Other(s) THEN Append(link[r], Msg(t, c)) ELSE link[r]
  BY <1>1, <1>2 DEF Types
<1>4. link' \in [Sides -> Seq([type : MsgTypes, conn : Chans])]
  BY <1>1, <1>2, AppendMsg DEF Types
<1>5. ASSUME NEW r \in Sides, NEW m
      PROVE  /\ In(link'[r], m) => In(link[r], m) \/ (r = Other(s) /\ m = Msg(t, c))
             /\ /\ Once(link[r], m)
                /\ m = Msg(t, c) => ~In(link[r], m)
                => Once(link'[r], m)
  <2>1. CASE up /\ r = Other(s)
    <3>1. link[r] \in Seq([type : MsgTypes, conn : Chans]) /\ link'[r] = Append(link[r], Msg(t, c))
      BY <1>2, <1>3, <2>1
    <3>2. In(Append(link[r], Msg(t, c)), m) <=> In(link[r], m) \/ Msg(t, c) = m
      BY <1>1, <3>1, AppendMsg
    <3>3. Once(link[r], m) /\ (Msg(t, c) = m => ~In(link[r], m)) => Once(Append(link[r], Msg(t, c)), m)
      BY <1>1, <3>1, AppendMsg
    <3> QED
      BY <2>1, <3>1, <3>2, <3>3
  <2>2. CASE ~(up /\ r = Other(s))
    BY <1>3, <2>2
  <2> QED
    BY <2>1, <2>2
<1>6. ASSUME NEW r \in Sides, NEW d \in Chans
      PROVE  /\ /\ InOrder(link[r], d)
                /\ r = Other(s) /\ t = "Data" /\ d = c => ~In(link[r], Msg("Close", d))
                => InOrder(link'[r], d)
             /\ N(link'[r], d) = N(link[r], d)
                     + (IF up /\ r = Other(s) /\ t = "Data" /\ d = c THEN 1 ELSE 0)
  <2>1. N(link[r], d) \in Nat
    BY <1>2, Counting DEF N
  <2>2. Msg(t, c) = Msg("Data", d) <=> t = "Data" /\ d = c
    BY MsgFacts
  <2>3. CASE up /\ r = Other(s)
    <3>1. N(Append(link[r], Msg(t, c)), d)
             = N(link[r], d) + (IF Msg(t, c) = Msg("Data", d) THEN 1 ELSE 0)
      BY <1>1, <1>2, CountAppend DEF N
    <3>2. link'[r] = Append(link[r], Msg(t, c))
      BY <1>3, <2>3
    <3>3. InOrder(link[r], d) /\ (Msg(t, c) = Msg("Data", d) => ~In(link[r], Msg("Close", d)))
             => InOrder(Append(link[r], Msg(t, c)), d)
      BY <1>1, <1>2, AppendMsg
    <3> QED
      BY <2>2, <2>3, <3>1, <3>2, <3>3
  <2>4. CASE ~(up /\ r = Other(s))
    BY <1>3, <2>1, <2>4
  <2> QED
    BY <2>3, <2>4
<1> QED
  BY <1>4, <1>5, <1>6

\* The queues after side s has taken a message of channel c.
Taken(s, t, c) ==
    /\ link' \in [Sides -> Seq([type : MsgTypes, conn : Chans])]
    /\ In(link[s], Msg(t, c))
    /\ \A r \in Sides : \A m : In(link'[r], m) => In(link[r], m)
    /\ \A r \in Sides : \A m : Once(link[r], m) => Once(link'[r], m)
    /\ Once(link[s], Msg(t, c)) => ~In(link'[s], Msg(t, c))
    /\ \A r \in Sides, d \in Chans : InOrder(link[r], d) => InOrder(link'[r], d)
    /\ t = "Close" /\ InOrder(link[s], c) => N(link[s], c) = 0
    /\ \A r \in Sides, d \in Chans :
          N(link'[r], d) = N(link[r], d)
              - (IF r = s /\ t = "Data" /\ d = c THEN 1 ELSE 0)

\* What taking a message does to the queues.
LEMMA HeadEffect ==
    ASSUME Types, NEW s \in Sides, NEW t \in MsgTypes, NEW c \in Chans, Head_(s, t, c)
    PROVE  Taken(s, t, c)
<1>1. /\ \A r \in Sides : link[r] \in Seq([type : MsgTypes, conn : Chans])
      /\ link[s] # <<>>
      /\ Head(link[s]) = Msg(t, c)
      /\ link' = [link EXCEPT ![s] = Tail(link[s])]
  BY DEF Types, Head_, Msg
<1>2. \A r \in Sides : link'[r] = IF r = s THEN Tail(link[r]) ELSE link[r]
  BY <1>1 DEF Types
<1>3. link' \in [Sides -> Seq([type : MsgTypes, conn : Chans])]
  BY <1>1, TailMsg DEF Types
<1>a. /\ In(link[s], Head(link[s]))
      /\ \A m : In(Tail(link[s]), m) => In(link[s], m)
      /\ \A m : Once(link[s], m) => /\ Once(Tail(link[s]), m)
                                    /\ Head(link[s]) = m => ~In(Tail(link[s]), m)
      /\ \A d : InOrder(link[s], d) => InOrder(Tail(link[s]), d)
  BY <1>1, TailMsg
<1>b. link'[s] = Tail(link[s]) /\ \A r \in Sides : r # s => link'[r] = link[r]
  BY <1>2
<1>4. In(link[s], Msg(t, c)) /\ (Once(link[s], Msg(t, c)) => ~In(link'[s], Msg(t, c)))
  BY <1>1, <1>a, <1>b
<1>5. ASSUME NEW r \in Sides, NEW m
      PROVE  /\ In(link'[r], m) => In(link[r], m)
             /\ Once(link[r], m) => Once(link'[r], m)
  BY <1>a, <1>b
<1>6. ASSUME NEW r \in Sides, NEW d \in Chans
      PROVE  /\ InOrder(link[r], d) => InOrder(link'[r], d)
             /\ N(link'[r], d) = N(link[r], d)
                     - (IF r = s /\ t = "Data" /\ d = c THEN 1 ELSE 0)
  <2>1. N(link[r], d) \in Nat
    BY <1>1, Counting DEF N
  <2>2. Msg(t, c) = Msg("Data", d) <=> t = "Data" /\ d = c
    BY MsgFacts
  <2>3. CASE r = s
    <3>1. N(Tail(link[r]), d)
             = N(link[r], d) - (IF Msg(t, c) = Msg("Data", d) THEN 1 ELSE 0)
      BY <1>1, <2>3, CountTail DEF N
    <3> QED
      BY <1>a, <1>b, <2>1, <2>2, <2>3, <3>1
  <2>4. CASE r # s
    BY <1>2, <2>1, <2>4
  <2> QED
    BY <2>3, <2>4
<1>7. ASSUME t = "Close", InOrder(link[s], c)
      PROVE  N(link[s], c) = 0
  <2>1. ~In(Tail(link[s]), Msg("Data", c)) /\ Tail(link[s]) \in Seq([type : MsgTypes, conn : Chans])
    BY <1>1, <1>7, TailMsg
  <2>2. N(Tail(link[s]), c) = 0
    BY <2>1, Counting DEF N
  <2>3. N(link'[s], c) = N(link[s], c) - 0 /\ N(link[s], c) \in Nat
    BY <1>1, <1>6, <1>7, Counting DEF N
  <2> QED
    BY <1>2, <2>2, <2>3
<1> QED
  BY <1>3, <1>4, <1>5, <1>6, <1>7 DEF Taken

-----------------------------------------------------------------------------
(* The parts of the invariant.                                             *)

PcStates == {"idle", "spawned", "dialing", "waiting", "relay", "done"}

\* The handlers after that of channel c on side s has moved to p.
Moved(s, c, p) ==
    /\ pc' \in PerChan(PcStates)
    /\ \A r \in Sides, d \in Chans :
          pc'[r][d] = IF r = s /\ d = c THEN p ELSE pc[r][d]

\* A handler moves.
LEMMA GotoEffect ==
    ASSUME Types, NEW s \in Sides, NEW c \in Chans, NEW p \in PcStates, Goto(s, c, p)
    PROVE  Moved(s, c, p)
BY DEF Types, Goto, PerChan, PcStates, Moved

\* The tables after channel c was registered on side s.
Registered(s, c) ==
    /\ mux' \in [Sides -> SUBSET Chans] /\ wg' \in [Sides -> Int] /\ torn' = torn
    /\ \A r \in Sides, d \in Chans : d \in mux'[r] <=> d \in mux[r] \/ (r = s /\ d = c)
    /\ CountInv'

\* A channel is registered.
LEMMA NewChannelEffect ==
    ASSUME Types, CountInv, NEW s \in Sides, NEW c \in Chans, c \notin mux[s], NewChannel(s, c)
    PROVE  Registered(s, c)
<1>1. /\ mux' = [mux EXCEPT ![s] = mux[s] \cup {c}]
      /\ wg' = [wg EXCEPT ![s] = wg[s] + 1]
      /\ torn' = torn
  BY DEF NewChannel
<1>2. /\ IsFiniteSet(mux[s] \cup {c})
      /\ Cardinality(mux[s] \cup {c}) = Cardinality(mux[s]) + 1
  BY FS_AddElement DEF CountInv
<1>3. CountInv'
  BY <1>1, <1>2 DEF Types, CountInv
<1> QED
  BY <1>1, <1>3 DEF Types, Registered

\* The tables after channel c was removed on side s, if it was there.
Removed(s, c) ==
    /\ mux' \in [Sides -> SUBSET Chans] /\ wg' \in [Sides -> Int]
    /\ torn' \in PerChan(BOOLEAN)
    /\ \A r \in Sides, d \in Chans : d \in mux'[r] <=> d \in mux[r] /\ ~(r = s /\ d = c)
    /\ \A r \in Sides, d \in Chans :
          torn'[r][d] <=> torn[r][d] \/ (r = s /\ d = c /\ c \in mux[s])
    /\ CountInv'

\* A channel is removed, if it is still there.
LEMMA RemoveEffect ==
    ASSUME Types, CountInv, NEW s \in Sides, NEW c \in Chans, Remove(s, c)
    PROVE  Removed(s, c)
<1>1. /\ mux' = [mux EXCEPT ![s] = mux[s] \ {c}]
      /\ wg' = [wg EXCEPT ![s] = IF c \in mux[s] THEN wg[s] - 1 ELSE wg[s]]
      /\ torn' = [torn EXCEPT ![s][c] = torn[s][c] \/ c \in mux[s]]
  BY DEF Remove
<1>2. /\ IsFiniteSet(mux[s] \ {c})
      /\ Cardinality(mux[s] \ {c})
            = IF c \in mux[s] THEN Cardinality(mux[s]) - 1 ELSE Cardinality(mux[s])
  BY FS_RemoveElement DEF CountInv
<1>3. CountInv'
  BY <1>1, <1>2 DEF Types, CountInv
<1>4. mux' \in [Sides -> SUBSET Chans] /\ wg' \in [Sides -> Int]
  BY <1>1 DEF Types
<1>5. \A r \in Sides, d \in Chans : d \in mux'[r] <=> d \in mux[r] /\ ~(r = s /\ d = c)
  BY <1>1 DEF Types
<1>6. /\ torn' \in PerChan(BOOLEAN)
      /\ \A r \in Sides, d \in Chans :
            torn'[r][d] = IF r = s /\ d = c THEN torn[s][c] \/ c \in mux[s] ELSE torn[r][d]
  <2> DEFINE b == torn[s][c] \/ c \in mux[s]
  <2>1. b \in BOOLEAN /\ torn' = [torn EXCEPT ![s][c] = b]
    BY <1>1
  <2> HIDE DEF b
  <2>2. /\ torn' \in PerChan(BOOLEAN)
        /\ \A r \in Sides, d \in Chans : torn'[r][d] = IF r = s /\ d = c THEN b ELSE torn[r][d]
    BY <2>1 DEF Types, PerChan
  <2> QED
    BY <2>2 DEF b
<1> QED
  BY <1>3, <1>4, <1>5, <1>6 DEF Removed

\* What does not touch a part of the invariant preserves it.
LEMMA Frames ==
    ASSUME IInv
    PROVE  /\ UNCHANGED <<loop, dl, up>> => LoopInv'
           /\ UNCHANGED <<mux, wg>> => CountInv'
           /\ UNCHANGED <<mux, torn, pc>> => TableInv'
           /\ UNCHANGED <<relayA, relayB, pc, sent, torn, local>> => RelayInv'
           /\ UNCHANGED <<pc, link>> => ConnectInv'
           /\ UNCHANGED <<relayA, readyCh, link>> => ServerFirst'
           /\ UNCHANGED <<relayA, pc, link>> => CloseIsLast'
<1> USE DEF IInv
<1>1. UNCHANGED <<loop, dl, up>> => LoopInv'
  BY DEF LoopInv
<1>2. UNCHANGED <<mux, wg>> => CountInv'
  BY DEF CountInv
<1>3. UNCHANGED <<mux, torn, pc>> => TableInv'
  BY DEF TableInv
<1>4. UNCHANGED <<relayA, relayB, pc, sent, torn, local>> => RelayInv'
  BY DEF RelayInv
<1>5. UNCHANGED <<pc, link>> => ConnectInv'
  BY DEF ConnectInv
<1>6. UNCHANGED <<relayA, readyCh, link>> => ServerFirst'
  BY DEF ServerFirst
<1>7. UNCHANGED <<relayA, pc, link>> => CloseIsLast'
  BY DEF CloseIsLast
<1> QED
  BY <1>1, <1>2, <1>3, <1>4, <1>5, <1>6, <1>7

\* The payloads are where they were.
LEMMA FlowKept ==
    ASSUME NothingInvented, PayloadsConserved, UNCHANGED <<dl, sent, got>>,
           \A r \in Sides, d \in Chans : N(link'[r], d) = N(link[r], d),
           up' => up,
           \A r \in Sides, d \in Chans : d \in mux'[r] => d \in mux[r],
           \A r \in Sides, d \in Chans : local'[r][d] # "gone" => local[r][d] # "gone"
    PROVE  NothingInvented' /\ PayloadsConserved'
<1>1. \A r \in Sides, d \in Chans : InFlight(r, d)' = InFlight(r, d)
  BY DEF InFlight, N, Msg
<1> QED
  BY <1>1, SideFacts DEF NothingInvented, PayloadsConserved

\* Nothing is torn that was not, and who has stopped sending does not start.
LEMMA TornKept ==
    ASSUME TornIsComplete, UNCHANGED <<sent, got>>,
           \A r \in Sides : Serving(r)' => Serving(r),
           \A r \in Sides, d \in Chans :
              /\ up' /\ torn'[r][d] /\ local'[r][d] # "gone"
              /\ pc'[r][d] = "done" => relayB'[r][d] # "off"
              => /\ up /\ torn[r][d] /\ local[r][d] # "gone"
                 /\ pc[r][d] = "done" => relayB[r][d] # "off",
           \A r \in Sides, d \in Chans :
              relayA[r][d] # "run" /\ pc[r][d] \in {"relay", "done"}
              => relayA'[r][d] # "run" /\ pc'[r][d] \in {"relay", "done"}
    PROVE  TornIsComplete'
BY SideFacts DEF TornIsComplete

\* Nothing is registered, sent or received at the start.
LEMMA InitIInv == Init => IInv
<1> SUFFICES ASSUME Init PROVE IInv
  OBVIOUS
<1>1. Types
  BY MaxDataAssumption DEF Init, Types, PerChan
<1>2. LoopInv /\ TableInv /\ RelayInv
  BY ChansAssumption DEF Init, LoopInv, TableInv, RelayInv
<1>3. CountInv
  BY FS_EmptySet DEF Init, CountInv
<1>4. \A s \in Sides : link[s] = <<>>
  BY DEF Init
<1>5. \A s \in Sides : \A m : ~In(link[s], m) /\ Once(link[s], m)
  BY <1>4 DEF In, Once
<1>6. \A s \in Sides : \A c : InOrder(link[s], c)
  BY <1>4 DEF InOrder
<1>7. ConnectInv /\ ServerFirst /\ CloseIsLast
  BY <1>5, <1>6, SideFacts DEF Init, ConnectInv, ServerFirst, CloseIsLast
<1>8. \A s \in Sides, c \in Chans : InFlight(s, c) = 0
  <2> SUFFICES ASSUME NEW s \in Sides, NEW c \in Chans
               PROVE  InFlight(s, c) = 0
    OBVIOUS
  <2>1. Positions(link[s], [type |-> "Data", conn |-> c]) = {}
    BY <1>4 DEF Positions
  <2>2. dl[s] # c
    BY ChansAssumption DEF Init
  <2> QED
    BY <2>1, <2>2, FS_EmptySet DEF InFlight
<1>9. NothingInvented /\ PayloadsConserved /\ TornIsComplete
  BY <1>8, SideFacts DEF Init, NothingInvented, PayloadsConserved, TornIsComplete
<1> QED
  BY <1>1, <1>2, <1>3, <1>7, <1>9 DEF IInv

-----------------------------------------------------------------------------
(* Every step preserves the invariant.                                     *)

\* The numbers that the invariant adds and compares.
LEMMA FlowFacts ==
    ASSUME Types
    PROVE  \A s \in Sides, c \in Chans :
              /\ got[s][c] \in Nat
              /\ sent[s][c] \in Nat
              /\ N(link[s], c) \in Nat
              /\ InFlight(s, c) = N(link[s], c) + (IF dl[s] = c THEN 1 ELSE 0)
              /\ InFlight(s, c) \in Nat
<1> SUFFICES ASSUME NEW s \in Sides, NEW c \in Chans
             PROVE  /\ got[s][c] \in Nat
                    /\ sent[s][c] \in Nat
                    /\ N(link[s], c) \in Nat
                    /\ InFlight(s, c) = N(link[s], c) + (IF dl[s] = c THEN 1 ELSE 0)
                    /\ InFlight(s, c) \in Nat
  OBVIOUS
<1>1. got[s][c] \in Nat /\ sent[s][c] \in Nat
  BY MaxDataAssumption DEF Types, PerChan
<1>2. N(link[s], c) \in Nat
  BY Counting DEF Types, N
<1>3. InFlight(s, c) = N(link[s], c) + (IF dl[s] = c THEN 1 ELSE 0)
  BY DEF InFlight, N, Msg
<1> QED
  BY <1>1, <1>2, <1>3

\* A channel is registered before anything was sent on it.
LEMMA FlowStarts ==
    ASSUME IInv, NEW s \in Sides, NEW c \in Chans, relayA[Other(s)][c] = "off",
           UNCHANGED <<dl, sent, got, local, up>>,
           \A r \in Sides, d \in Chans : N(link'[r], d) = N(link[r], d),
           \A r \in Sides, d \in Chans : d \in mux'[r] <=> d \in mux[r] \/ (r = s /\ d = c)
    PROVE  NothingInvented' /\ PayloadsConserved'
<1>1. \A r \in Sides, d \in Chans : InFlight(r, d)' = InFlight(r, d)
  <2>1. \A r \in Sides, d \in Chans :
           Cardinality(Positions(link'[r], [type |-> "Data", conn |-> d]))
           = Cardinality(Positions(link[r], [type |-> "Data", conn |-> d]))
    BY DEF N, Msg
  <2> QED
    BY <2>1 DEF InFlight
<1>2. sent[Other(s)][c] = 0
  BY SideFacts DEF IInv, RelayInv
<1>3. sent[Other(s)][c] = got[s][c] + InFlight(s, c)
  BY <1>2, FlowFacts DEF IInv, NothingInvented
<1>4. NothingInvented'
  BY <1>1, SideFacts DEF IInv, NothingInvented
<1>5. ASSUME NEW r \in Sides, NEW d \in Chans, up', d \in mux'[r], local'[r][d] # "gone"
      PROVE  sent'[Other(r)][d] = got'[r][d] + InFlight(r, d)'
  <2>1. CASE r = s /\ d = c
    BY <1>1, <1>3, <2>1
  <2>2. CASE ~(r = s /\ d = c)
    BY <1>1, <1>5, <2>2 DEF IInv, PayloadsConserved
  <2> QED
    BY <2>1, <2>2
<1>6. PayloadsConserved'
  BY <1>5 DEF PayloadsConserved
<1> QED
  BY <1>4, <1>6

\* The queues after side s has sent a message of channel c, or has failed to.
Sent(s, t, c) ==
    /\ link' \in [Sides -> Seq([type : MsgTypes, conn : Chans])]
    /\ \A r \in Sides, u \in MsgTypes, d \in Chans :
          In(link'[r], Msg(u, d)) => In(link[r], Msg(u, d)) \/ (r = Other(s) /\ u = t /\ d = c)
    /\ \A d \in Chans : /\ Once(link["server"], Msg("Connect", d))
                        /\ t = "Connect" /\ d = c => ~In(link["server"], Msg("Connect", d))
                        => Once(link'["server"], Msg("Connect", d))
    /\ \A r \in Sides, d \in Chans : InOrder(link[r], d) => InOrder(link'[r], d)
    /\ \A r \in Sides, d \in Chans : N(link'[r], d) = N(link[r], d)

\* A message that is not a payload.
LEMMA SendControl ==
    ASSUME Types, NEW s \in Sides, NEW t \in MsgTypes \ {"Data"}, NEW c \in Chans, Send(s, t, c)
    PROVE  Sent(s, t, c)
<1>1. /\ link' \in [Sides -> Seq([type : MsgTypes, conn : Chans])]
      /\ \A r \in Sides : \A m : In(link'[r], m) => In(link[r], m) \/ (r = Other(s) /\ m = Msg(t, c))
      /\ \A r \in Sides : \A m : /\ Once(link[r], m)
                                 /\ m = Msg(t, c) => ~In(link[r], m)
                                 => Once(link'[r], m)
  BY SendEffect
<1>2. \A r \in Sides, d \in Chans : InOrder(link[r], d) => InOrder(link'[r], d)
  BY SendEffect
<1>3. \A r \in Sides, d \in Chans : N(link'[r], d) = N(link[r], d)
  <2>1. \A r \in Sides, d \in Chans : N(link'[r], d) = N(link[r], d) + 0
    BY SendEffect
  <2> QED
    BY <2>1, FlowFacts
<1>4. ASSUME NEW r \in Sides, NEW u \in MsgTypes, NEW d \in Chans, In(link'[r], Msg(u, d))
      PROVE  In(link[r], Msg(u, d)) \/ (r = Other(s) /\ u = t /\ d = c)
  BY <1>1, <1>4, MsgFacts
<1>5. ASSUME NEW d \in Chans, Once(link["server"], Msg("Connect", d)),
             t = "Connect" /\ d = c => ~In(link["server"], Msg("Connect", d))
      PROVE  Once(link'["server"], Msg("Connect", d))
  <2>1. Msg("Connect", d) = Msg(t, c) => ~In(link["server"], Msg("Connect", d))
    BY <1>5, MsgFacts
  <2> QED
    BY <1>1, <1>5, <2>1, SideFacts
<1> QED
  BY <1>1, <1>2, <1>3, <1>4, <1>5 DEF Sent

LEMMA ClientConnectStep ==
    ASSUME IInv, NEW c \in Chans, ClientConnect(c)
    PROVE  IInv'
<1> USE DEF IInv
<1>0. /\ pc["client"][c] = "idle" /\ pc["server"][c] = "idle"
      /\ NewChannel("client", c) /\ Send("client", "Connect", c) /\ Goto("client", c, "waiting")
      /\ UNCHANGED <<up, loop, dl, readyCh, relayVars>>
  BY DEF ClientConnect, ConnectInv
<1>1. c \notin mux["client"] /\ ~In(link["server"], Msg("Connect", c)) /\ relayA["server"][c] = "off"
  BY <1>0, SideFacts DEF TableInv, ConnectInv, RelayInv
<1>2. Registered("client", c)
  BY <1>0, <1>1, NewChannelEffect, SideFacts
<1>3. Moved("client", c, "waiting")
  BY <1>0, GotoEffect, SideFacts DEF PcStates
<1>4. Sent("client", "Connect", c)
  BY <1>0, SendControl, SideFacts DEF MsgTypes
<1>5. Types'
  BY <1>0, <1>2, <1>3, <1>4 DEF Types, relayVars, PcStates, Registered, Moved, Sent
<1>6. LoopInv'
  BY <1>0, Frames
<1>7. TableInv' /\ CountInv'
  BY <1>0, <1>2, <1>3 DEF TableInv, Registered, Moved
<1>8. RelayInv'
  BY <1>0, <1>2, <1>3 DEF RelayInv, relayVars, Registered, Moved
<1>9. ConnectInv'
  BY <1>0, <1>1, <1>3, <1>4, SideFacts DEF ConnectInv, Moved, Sent, MsgTypes
<1>10. ServerFirst'
  BY <1>0, <1>4, SideFacts DEF ServerFirst, relayVars, Sent, MsgTypes
<1>11. CloseIsLast'
  BY <1>0, <1>3, <1>4, SideFacts DEF CloseIsLast, relayVars, Moved, Sent, MsgTypes
<1>12. NothingInvented' /\ PayloadsConserved'
  <2>1. /\ relayA[Other("client")][c] = "off"
        /\ UNCHANGED <<dl, sent, got, local, up>>
        /\ \A r \in Sides, d \in Chans : N(link'[r], d) = N(link[r], d)
        /\ \A r \in Sides, d \in Chans : d \in mux'[r] <=> d \in mux[r] \/ (r = "client" /\ d = c)
    BY <1>0, <1>1, <1>2, <1>4, SideFacts DEF relayVars, Registered, Sent
  <2> HIDE DEF IInv
  <2> QED
    BY <2>1, FlowStarts, SideFacts
<1>13. TornIsComplete'
  BY <1>0, <1>2, <1>3, TornKept, SideFacts DEF Serving, TableInv, relayVars, Registered, Moved
<1> QED
  BY <1>5, <1>6, <1>7, <1>8, <1>9, <1>10, <1>11, <1>12, <1>13

\* A handler that ends, after its relay or without one, and removes its channel.
LEMMA HandlerEnds ==
    ASSUME IInv, NEW s \in Sides, NEW c \in Chans,
           pc[s][c] \in {"dialing", "waiting", "relay"},
           relayA[s][c] # "run", relayB[s][c] # "run",
           Removed(s, c), Moved(s, c, "done"),
           UNCHANGED <<up, loop, dl, readyCh, relayVars>>,
           \A r \in Sides, d \in Chans : N(link'[r], d) = N(link[r], d),
           link' \in [Sides -> Seq([type : MsgTypes, conn : Chans])]
    PROVE  /\ Types' /\ LoopInv' /\ CountInv' /\ TableInv' /\ RelayInv'
           /\ NothingInvented' /\ PayloadsConserved' /\ TornIsComplete'
<1>1. Types'
  BY DEF IInv, Types, relayVars, PcStates, Removed, Moved
<1>2. LoopInv'
  BY Frames
<1>a. ASSUME NEW r \in Sides, NEW d \in Chans
      PROVE  /\ pc'[r][d] = IF r = s /\ d = c THEN "done" ELSE pc[r][d]
             /\ d \in mux'[r] <=> d \in mux[r] /\ ~(r = s /\ d = c)
             /\ torn'[r][d] => torn[r][d] \/ (r = s /\ d = c)
             /\ torn[r][d] => torn'[r][d]
  BY DEF Removed, Moved
<1>3. TableInv' /\ CountInv'
  BY <1>a DEF IInv, TableInv, Removed
<1>4. RelayInv'
  BY <1>a DEF IInv, RelayInv, relayVars
<1>5. NothingInvented' /\ PayloadsConserved'
  <2>1. /\ UNCHANGED <<dl, sent, got>> /\ up' = up
        /\ \A r \in Sides, d \in Chans : d \in mux'[r] => d \in mux[r]
        /\ \A r \in Sides, d \in Chans : local'[r][d] # "gone" => local[r][d] # "gone"
    BY DEF relayVars, Removed
  <2>2. NothingInvented /\ PayloadsConserved
    BY DEF IInv
  <2> QED
    BY <2>1, <2>2, FlowKept
<1>6. TornIsComplete'
  <2>1. ASSUME NEW r \in Sides, NEW d \in Chans,
               up' /\ torn'[r][d] /\ local'[r][d] # "gone",
               pc'[r][d] = "done" => relayB'[r][d] # "off"
        PROVE  /\ up /\ torn[r][d] /\ local[r][d] # "gone"
               /\ pc[r][d] = "done" => relayB[r][d] # "off"
    <3>1. CASE r = s /\ d = c
      <4>1. relayB[s][c] = "done"
        BY <2>1, <3>1 DEF IInv, Types, PerChan, relayVars, Moved
      <4> QED
        BY <2>1, <3>1, <4>1 DEF IInv, RelayInv, relayVars
    <3>2. CASE ~(r = s /\ d = c)
      BY <2>1, <3>2 DEF relayVars, Removed, Moved
    <3> QED
      BY <3>1, <3>2
  <2>2. ASSUME NEW r \in Sides, NEW d \in Chans,
               relayA[r][d] # "run" /\ pc[r][d] \in {"relay", "done"}
        PROVE  relayA'[r][d] # "run" /\ pc'[r][d] \in {"relay", "done"}
    BY <2>2 DEF relayVars, Moved
  <2>3. /\ TornIsComplete /\ UNCHANGED <<sent, got>>
        /\ \A r \in Sides : Serving(r)' => Serving(r)
    BY DEF IInv, relayVars, Serving
  <2> QED
    BY <2>1, <2>2, <2>3, TornKept
<1> QED
  BY <1>1, <1>2, <1>3, <1>4, <1>5, <1>6

LEMMA ClientRejectStep ==
    ASSUME IInv, NEW c \in Chans, ClientReject(c)
    PROVE  IInv'
<1> USE DEF IInv
<1>0. /\ pc["client"][c] = "idle"
      /\ Goto("client", c, "done")
      /\ UNCHANGED <<link, up, loop, dl, muxVars, readyCh, relayVars>>
  BY DEF ClientReject
<1>1. Moved("client", c, "done")
  BY <1>0, GotoEffect, SideFacts DEF PcStates
<1>2. Types'
  BY <1>0, <1>1 DEF Types, muxVars, relayVars, PcStates, Moved
<1>3. LoopInv' /\ CountInv' /\ ServerFirst'
  BY <1>0, Frames DEF muxVars, relayVars
<1>4. TableInv'
  BY <1>0, <1>1 DEF TableInv, muxVars, Moved
<1>5. RelayInv'
  BY <1>0, <1>1 DEF RelayInv, muxVars, relayVars, Moved
<1>6. ConnectInv'
  BY <1>0, <1>1, SideFacts DEF ConnectInv, Moved
<1>7. CloseIsLast'
  BY <1>0, <1>1, SideFacts DEF CloseIsLast, relayVars, Moved
<1>8. NothingInvented' /\ PayloadsConserved'
  BY <1>0, FlowKept DEF muxVars, relayVars
<1>9. TornIsComplete'
  BY <1>0, <1>1, TornKept, SideFacts DEF Serving, TableInv, muxVars, relayVars, Moved
<1> QED
  BY <1>2, <1>3, <1>4, <1>5, <1>6, <1>7, <1>8, <1>9

LEMMA ClientGiveUpStep ==
    ASSUME IInv, NEW c \in Chans, ClientGiveUp(c)
    PROVE  IInv'
<1> USE DEF IInv
<1>0. /\ pc["client"][c] = "waiting" /\ relayA["client"][c] = "off" /\ relayB["client"][c] = "off"
      /\ Remove("client", c) /\ Goto("client", c, "done")
      /\ UNCHANGED <<link, up, loop, dl, readyCh, relayVars>>
  BY SideFacts DEF ClientGiveUp, RelayInv
<1>1. Removed("client", c) /\ Moved("client", c, "done")
  BY <1>0, RemoveEffect, GotoEffect, SideFacts DEF PcStates
<1>2. /\ Types' /\ LoopInv' /\ CountInv' /\ TableInv' /\ RelayInv'
      /\ NothingInvented' /\ PayloadsConserved' /\ TornIsComplete'
  <2>1. link \in [Sides -> Seq([type : MsgTypes, conn : Chans])]
    BY DEF Types
  <2> HIDE DEF IInv
  <2> QED
    BY <1>0, <1>1, <2>1, HandlerEnds, SideFacts
<1>3. ServerFirst'
  BY <1>0, Frames DEF relayVars
<1>4. ConnectInv'
  BY <1>0, <1>1, SideFacts DEF ConnectInv, Moved
<1>5. CloseIsLast'
  BY <1>0, <1>1, SideFacts DEF CloseIsLast, relayVars, Moved
<1> QED
  BY <1>2, <1>3, <1>4, <1>5

LEMMA ClientAbortStep ==
    ASSUME IInv, NEW c \in Chans, ClientAbort(c)
    PROVE  IInv'
<1> USE DEF IInv
<1>0. /\ pc["client"][c] = "waiting" /\ relayA["client"][c] = "off" /\ relayB["client"][c] = "off"
      /\ relayA["server"][c] # "off"
      /\ Send("client", "Close", c) /\ Remove("client", c) /\ Goto("client", c, "done")
      /\ UNCHANGED <<up, loop, dl, readyCh, relayVars>>
  BY SideFacts DEF ClientAbort, RelayInv, ServerFirst
<1>1. Removed("client", c) /\ Moved("client", c, "done") /\ Sent("client", "Close", c)
  BY <1>0, RemoveEffect, GotoEffect, SendControl, SideFacts DEF PcStates, MsgTypes
<1>2. /\ Types' /\ LoopInv' /\ CountInv' /\ TableInv' /\ RelayInv'
      /\ NothingInvented' /\ PayloadsConserved' /\ TornIsComplete'
  <2> HIDE DEF IInv
  <2> QED
    BY <1>0, <1>1, HandlerEnds, SideFacts DEF Sent
<1>3. ServerFirst'
  BY <1>0, <1>1, SideFacts DEF ServerFirst, relayVars, Sent, MsgTypes
<1>4. ConnectInv'
  BY <1>0, <1>1, SideFacts DEF ConnectInv, Moved, Sent, MsgTypes
<1>5. CloseIsLast'
  BY <1>0, <1>1, SideFacts DEF CloseIsLast, relayVars, Moved, Sent, MsgTypes
<1> QED
  BY <1>2, <1>3, <1>4, <1>5

LEMMA ServerDialFailsStep ==
    ASSUME IInv, NEW c \in Chans, ServerDialFails(c)
    PROVE  IInv'
<1> USE DEF IInv
<1>0. /\ pc["server"][c] = "dialing" /\ relayA["server"][c] = "off" /\ relayB["server"][c] = "off"
      /\ Send("server", "ReadyFail", c) /\ Remove("server", c) /\ Goto("server", c, "done")
      /\ UNCHANGED <<up, loop, dl, readyCh, relayVars>>
  BY SideFacts DEF ServerDialFails, RelayInv
<1>1. Removed("server", c) /\ Moved("server", c, "done") /\ Sent("server", "ReadyFail", c)
  BY <1>0, RemoveEffect, GotoEffect, SendControl, SideFacts DEF PcStates, MsgTypes
<1>2. /\ Types' /\ LoopInv' /\ CountInv' /\ TableInv' /\ RelayInv'
      /\ NothingInvented' /\ PayloadsConserved' /\ TornIsComplete'
  <2> HIDE DEF IInv
  <2> QED
    BY <1>0, <1>1, HandlerEnds, SideFacts DEF Sent
<1>3. ServerFirst'
  BY <1>0, <1>1, SideFacts DEF ServerFirst, relayVars, Sent, MsgTypes
<1>4. ConnectInv'
  BY <1>0, <1>1, SideFacts DEF ConnectInv, Moved, Sent, MsgTypes
<1>5. CloseIsLast'
  BY <1>0, <1>1, SideFacts DEF CloseIsLast, relayVars, Moved, Sent, MsgTypes
<1> QED
  BY <1>2, <1>3, <1>4, <1>5

LEMMA FinishRelayStep ==
    ASSUME IInv, NEW s \in Sides, NEW c \in Chans, FinishRelay(s, c)
    PROVE  IInv'
<1> USE DEF IInv
<1>0. /\ pc[s][c] = "relay" /\ relayA[s][c] = "done" /\ relayB[s][c] = "done"
      /\ Remove(s, c) /\ Goto(s, c, "done")
      /\ UNCHANGED <<link, up, loop, dl, readyCh, relayVars>>
  BY DEF FinishRelay
<1>1. Removed(s, c) /\ Moved(s, c, "done")
  BY <1>0, RemoveEffect, GotoEffect DEF PcStates
<1>2. /\ Types' /\ LoopInv' /\ CountInv' /\ TableInv' /\ RelayInv'
      /\ NothingInvented' /\ PayloadsConserved' /\ TornIsComplete'
  <2>1. link \in [Sides -> Seq([type : MsgTypes, conn : Chans])]
    BY DEF Types
  <2> HIDE DEF IInv
  <2> QED
    BY <1>0, <1>1, <2>1, HandlerEnds
<1>3. ServerFirst'
  BY <1>0, Frames DEF relayVars
<1>4. ConnectInv'
  BY <1>0, <1>1, SideFacts DEF ConnectInv, Moved
<1>5. CloseIsLast'
  BY <1>0, <1>1, SideFacts DEF CloseIsLast, relayVars, Moved
<1> QED
  BY <1>2, <1>3, <1>4, <1>5

\* The relay of channel c starts on side s.
Started(s, c) ==
    /\ Moved(s, c, "relay")
    /\ relayA' \in PerChan({"off", "run", "done"}) /\ relayB' \in PerChan({"off", "run", "done"})
    /\ \A r \in Sides, d \in Chans :
          /\ relayA'[r][d] = IF r = s /\ d = c THEN "run" ELSE relayA[r][d]
          /\ relayB'[r][d] = IF r = s /\ d = c THEN "run" ELSE relayB[r][d]

LEMMA StartEffect ==
    ASSUME Types, NEW s \in Sides, NEW c \in Chans, StartRelay(s, c)
    PROVE  Started(s, c)
<1>1. Moved(s, c, "relay")
  BY GotoEffect DEF StartRelay, PcStates
<1>2. /\ relayA' \in PerChan({"off", "run", "done"})
      /\ \A r \in Sides, d \in Chans :
            relayA'[r][d] = IF r = s /\ d = c THEN "run" ELSE relayA[r][d]
  BY DEF StartRelay, Types, PerChan
<1>3. /\ relayB' \in PerChan({"off", "run", "done"})
      /\ \A r \in Sides, d \in Chans :
            relayB'[r][d] = IF r = s /\ d = c THEN "run" ELSE relayB[r][d]
  BY DEF StartRelay, Types, PerChan
<1> QED
  BY <1>1, <1>2, <1>3 DEF Started

\* A relay that starts before its side has closed anything leaves the rest intact.
LEMMA RelayStarts ==
    ASSUME IInv, NEW s \in Sides, NEW c \in Chans,
           pc[s][c] \in {"waiting", "dialing"}, Started(s, c),
           UNCHANGED <<up, loop, dl, muxVars, local, sent, got>>,
           \A r \in Sides, d \in Chans : N(link'[r], d) = N(link[r], d)
    PROVE  /\ LoopInv' /\ CountInv' /\ TableInv' /\ RelayInv'
           /\ NothingInvented' /\ PayloadsConserved' /\ TornIsComplete'
<1>1. LoopInv' /\ CountInv'
  BY Frames DEF muxVars
<1>2. TableInv'
  BY DEF IInv, TableInv, muxVars, Started, Moved
<1>3. RelayInv'
  BY DEF IInv, RelayInv, muxVars, Started, Moved
<1>4. NothingInvented' /\ PayloadsConserved'
  <2>1. /\ NothingInvented /\ PayloadsConserved
        /\ UNCHANGED <<dl, sent, got>> /\ up' = up /\ local' = local /\ mux' = mux
    BY DEF IInv, muxVars
  <2> QED
    BY <2>1, FlowKept
<1>5. TornIsComplete'
  <2>1. ASSUME NEW r \in Sides, NEW d \in Chans,
               up' /\ torn'[r][d] /\ local'[r][d] # "gone",
               pc'[r][d] = "done" => relayB'[r][d] # "off"
        PROVE  /\ up /\ torn[r][d] /\ local[r][d] # "gone"
               /\ pc[r][d] = "done" => relayB[r][d] # "off"
    BY <2>1 DEF muxVars, Started, Moved
  <2>2. ASSUME NEW r \in Sides, NEW d \in Chans,
               relayA[r][d] # "run" /\ pc[r][d] \in {"relay", "done"}
        PROVE  relayA'[r][d] # "run" /\ pc'[r][d] \in {"relay", "done"}
    BY <2>2 DEF Started, Moved
  <2>3. /\ TornIsComplete /\ UNCHANGED <<sent, got>>
        /\ \A r \in Sides : Serving(r)' => Serving(r)
    BY DEF IInv, Serving
  <2> QED
    BY <2>1, <2>2, <2>3, TornKept
<1> QED
  BY <1>1, <1>2, <1>3, <1>4, <1>5

LEMMA ClientReadyStep ==
    ASSUME IInv, NEW c \in Chans, ClientReady(c)
    PROVE  IInv'
<1> USE DEF IInv
<1>0. /\ pc["client"][c] = "waiting" /\ relayA["server"][c] # "off"
      /\ StartRelay("client", c)
      /\ readyCh' = [readyCh EXCEPT ![c] = "none"]
      /\ UNCHANGED <<link, up, loop, dl, muxVars, local, sent, got>>
  BY SideFacts DEF ClientReady, ServerFirst
<1>1. Started("client", c)
  BY <1>0, StartEffect, SideFacts
<1>2. Types'
  BY <1>0, <1>1 DEF Types, muxVars, PcStates, Started, Moved
<1>3. /\ LoopInv' /\ CountInv' /\ TableInv' /\ RelayInv'
      /\ NothingInvented' /\ PayloadsConserved' /\ TornIsComplete'
  <2> HIDE DEF IInv
  <2> QED
    BY <1>0, <1>1, RelayStarts, SideFacts
<1>4. ConnectInv'
  BY <1>0, <1>1, SideFacts DEF ConnectInv, Started, Moved
<1>5. ServerFirst'
  <2>1. \A d \in Chans : readyCh'[d] = IF d = c THEN "none" ELSE readyCh[d]
    BY <1>0 DEF Types
  <2>2. \A d \in Chans : relayA'["server"][d] = relayA["server"][d]
    BY <1>1, SideFacts DEF Started
  <2> QED
    BY <1>0, <1>1, <2>1, <2>2, SideFacts DEF ServerFirst, Started
<1>6. CloseIsLast'
  BY <1>0, <1>1, SideFacts DEF CloseIsLast, Started, Moved
<1> QED
  BY <1>2, <1>3, <1>4, <1>5, <1>6

LEMMA ServerDialedStep ==
    ASSUME IInv, NEW c \in Chans, ServerDialed(c)
    PROVE  IInv'
<1> USE DEF IInv
<1>0. /\ pc["server"][c] = "dialing" /\ relayA["server"][c] = "off"
      /\ Send("server", "ReadyOK", c) /\ StartRelay("server", c)
      /\ UNCHANGED <<up, loop, dl, muxVars, readyCh, local, sent, got>>
  BY SideFacts DEF ServerDialed, RelayInv
<1>1. Started("server", c) /\ Sent("server", "ReadyOK", c)
  BY <1>0, StartEffect, SendControl, SideFacts DEF MsgTypes
<1>2. Types'
  BY <1>0, <1>1 DEF Types, muxVars, PcStates, Started, Moved, Sent
<1>3. /\ LoopInv' /\ CountInv' /\ TableInv' /\ RelayInv'
      /\ NothingInvented' /\ PayloadsConserved' /\ TornIsComplete'
  <2> HIDE DEF IInv
  <2> QED
    BY <1>0, <1>1, RelayStarts, SideFacts DEF Sent
<1>4. ConnectInv'
  BY <1>0, <1>1, SideFacts DEF ConnectInv, Started, Moved, Sent, MsgTypes
<1>5. ServerFirst'
  BY <1>0, <1>1, SideFacts DEF ServerFirst, Started, Sent, MsgTypes
<1>6. CloseIsLast'
  <2>1. \A r \in Sides : ~In(link'[r], Msg("Close", c))
    BY <1>0, <1>1 DEF ServerFirst, Sent, MsgTypes
  <2> QED
    BY <1>1, <2>1, SideFacts DEF CloseIsLast, Started, Moved, Sent, MsgTypes
<1> QED
  BY <1>2, <1>3, <1>4, <1>5, <1>6

LEMMA ServerRefuseStep ==
    ASSUME IInv, NEW c \in Chans, ServerRefuse(c)
    PROVE  IInv'
<1> USE DEF IInv
<1>0. /\ pc["server"][c] = "spawned"
      /\ Send("server", "ReadyFail", c) /\ Goto("server", c, "done")
      /\ UNCHANGED <<up, loop, dl, muxVars, readyCh, relayVars>>
  BY DEF ServerRefuse
<1>1. Moved("server", c, "done") /\ Sent("server", "ReadyFail", c)
  BY <1>0, GotoEffect, SendControl, SideFacts DEF PcStates, MsgTypes
<1>2. Types'
  BY <1>0, <1>1 DEF Types, muxVars, relayVars, PcStates, Moved, Sent
<1>3. LoopInv' /\ CountInv'
  BY <1>0, Frames DEF muxVars
<1>4. TableInv'
  BY <1>0, <1>1 DEF TableInv, muxVars, Moved
<1>5. RelayInv'
  BY <1>0, <1>1 DEF RelayInv, muxVars, relayVars, Moved
<1>6. ConnectInv'
  BY <1>0, <1>1, SideFacts DEF ConnectInv, Moved, Sent, MsgTypes
<1>7. ServerFirst'
  BY <1>0, <1>1, SideFacts DEF ServerFirst, relayVars, Sent, MsgTypes
<1>8. CloseIsLast'
  BY <1>0, <1>1, SideFacts DEF CloseIsLast, relayVars, Moved, Sent, MsgTypes
<1>9. NothingInvented' /\ PayloadsConserved'
  BY <1>0, <1>1, FlowKept DEF muxVars, relayVars, Sent
<1>10. TornIsComplete'
  BY <1>0, <1>1, TornKept, SideFacts DEF Serving, TableInv, muxVars, relayVars, Moved
<1> QED
  BY <1>2, <1>3, <1>4, <1>5, <1>6, <1>7, <1>8, <1>9, <1>10

LEMMA ServerDialStep ==
    ASSUME IInv, NEW c \in Chans, ServerDial(c)
    PROVE  IInv'
<1> USE DEF IInv
<1>0. /\ pc["server"][c] = "spawned"
      /\ NewChannel("server", c) /\ Goto("server", c, "dialing")
      /\ UNCHANGED <<link, up, loop, dl, readyCh, relayVars>>
  BY DEF ServerDial
<1>1. c \notin mux["server"] /\ relayA["client"][c] = "off"
  BY <1>0, SideFacts DEF TableInv, RelayInv, ServerFirst
<1>2. Registered("server", c) /\ Moved("server", c, "dialing")
  BY <1>0, <1>1, NewChannelEffect, GotoEffect, SideFacts DEF PcStates
<1>3. Types'
  BY <1>0, <1>2 DEF Types, relayVars, PcStates, Registered, Moved
<1>4. LoopInv' /\ ServerFirst'
  BY <1>0, Frames DEF relayVars
<1>5. TableInv' /\ CountInv'
  BY <1>0, <1>2 DEF TableInv, Registered, Moved
<1>6. RelayInv'
  BY <1>0, <1>2 DEF RelayInv, relayVars, Registered, Moved
<1>7. ConnectInv'
  BY <1>0, <1>2, SideFacts DEF ConnectInv, Moved
<1>8. CloseIsLast'
  BY <1>0, <1>2, SideFacts DEF CloseIsLast, relayVars, Moved
<1>9. NothingInvented' /\ PayloadsConserved'
  <2>1. /\ relayA[Other("server")][c] = "off"
        /\ UNCHANGED <<dl, sent, got, local, up>>
        /\ \A r \in Sides, d \in Chans : N(link'[r], d) = N(link[r], d)
        /\ \A r \in Sides, d \in Chans : d \in mux'[r] <=> d \in mux[r] \/ (r = "server" /\ d = c)
    BY <1>0, <1>1, <1>2, SideFacts DEF relayVars, Registered
  <2> HIDE DEF IInv
  <2> QED
    BY <2>1, FlowStarts, SideFacts
<1>10. TornIsComplete'
  BY <1>0, <1>2, TornKept, SideFacts DEF Serving, TableInv, relayVars, Registered, Moved
<1> QED
  BY <1>3, <1>4, <1>5, <1>6, <1>7, <1>8, <1>9, <1>10

-----------------------------------------------------------------------------
(* The relays.                                                             *)

\* A payload is sent: it is the last of its queue, if the connection works.
SentData(s, c) ==
    /\ link' \in [Sides -> Seq([type : MsgTypes, conn : Chans])]
    /\ \A r \in Sides, u \in MsgTypes, d \in Chans :
          u # "Data" /\ In(link'[r], Msg(u, d)) => In(link[r], Msg(u, d))
    /\ \A d \in Chans : Once(link["server"], Msg("Connect", d))
                        => Once(link'["server"], Msg("Connect", d))
    /\ \A r \in Sides, d \in Chans : InOrder(link[r], d) => InOrder(link'[r], d)
    /\ \A r \in Sides, d \in Chans :
          N(link'[r], d) = N(link[r], d) + (IF up /\ r = Other(s) /\ d = c THEN 1 ELSE 0)

LEMMA SendData ==
    ASSUME Types, NEW s \in Sides, NEW c \in Chans, Send(s, "Data", c),
           ~In(link[Other(s)], Msg("Close", c))
    PROVE  SentData(s, c)
<1>0. "Data" \in MsgTypes
  BY DEF MsgTypes
<1>1. /\ link' \in [Sides -> Seq([type : MsgTypes, conn : Chans])]
      /\ \A r \in Sides : \A m : In(link'[r], m) => In(link[r], m) \/ (r = Other(s) /\ m = Msg("Data", c))
      /\ \A r \in Sides : \A m : /\ Once(link[r], m)
                                 /\ m = Msg("Data", c) => ~In(link[r], m)
                                 => Once(link'[r], m)
  BY <1>0, SendEffect
<1>2. \A r \in Sides, d \in Chans :
         /\ InOrder(link[r], d)
         /\ r = Other(s) /\ d = c => ~In(link[r], Msg("Close", d))
         => InOrder(link'[r], d)
  BY <1>0, SendEffect
<1>3. \A r \in Sides, d \in Chans :
         N(link'[r], d) = N(link[r], d) + (IF up /\ r = Other(s) /\ d = c THEN 1 ELSE 0)
  BY <1>0, SendEffect
<1>4. \A u, d : Msg(u, d) = Msg("Data", c) => u = "Data"
  BY MsgFacts
<1>5. /\ \A r \in Sides, u \in MsgTypes, d \in Chans :
            u # "Data" /\ In(link'[r], Msg(u, d)) => In(link[r], Msg(u, d))
      /\ \A d \in Chans : Once(link["server"], Msg("Connect", d))
                          => Once(link'["server"], Msg("Connect", d))
  BY <1>1, <1>4, SideFacts
<1>6. \A r \in Sides, d \in Chans : InOrder(link[r], d) => InOrder(link'[r], d)
  BY <1>2
<1> QED
  BY <1>1, <1>3, <1>5, <1>6 DEF SentData

LEMMA ReadLocalStep ==
    ASSUME IInv, NEW s \in Sides, NEW c \in Chans, ReadLocal(s, c)
    PROVE  IInv'
<1> USE DEF IInv
<1> DEFINE o == Other(s)
           n == sent[s][c]
<1>0. /\ relayA[s][c] = "run"
      /\ n \in 0..MaxData /\ n + 1 \in 0..MaxData
      /\ sent' = [sent EXCEPT ![s][c] = n + 1]
      /\ Send(s, "Data", c)
      /\ UNCHANGED <<up, loop, dl, muxVars, readyCh, pc, relayA, relayB, local, got>>
  BY MaxDataAssumption DEF ReadLocal, Types, PerChan
<1>1. /\ sent' \in PerChan(0..MaxData)
      /\ \A r \in Sides, d \in Chans : sent'[r][d] = IF r = s /\ d = c THEN n + 1 ELSE sent[r][d]
  BY <1>0 DEF Types, PerChan
<1>2. o \in Sides /\ Other(o) = s /\ ~In(link[o], Msg("Close", c))
  BY <1>0, SideFacts DEF CloseIsLast
<1>3. SentData(s, c)
  BY <1>0, <1>2, SendData
<1> HIDE DEF o, n
<1>4. Types'
  BY <1>0, <1>1, <1>3 DEF Types, muxVars, SentData
<1>5. LoopInv' /\ CountInv' /\ TableInv'
  BY <1>0, Frames DEF muxVars
<1>6. RelayInv'
  BY <1>0, <1>1 DEF RelayInv, muxVars
<1>7. ConnectInv'
  BY <1>0, <1>3, SideFacts DEF ConnectInv, MsgTypes, SentData
<1>8. ServerFirst'
  BY <1>0, <1>3, SideFacts DEF ServerFirst, MsgTypes, SentData
<1>9. CloseIsLast'
  BY <1>0, <1>3, SideFacts DEF CloseIsLast, MsgTypes, SentData
<1>10. ASSUME NEW r \in Sides, NEW d \in Chans
       PROVE  /\ InFlight(r, d)' = InFlight(r, d) + (IF up /\ r = o /\ d = c THEN 1 ELSE 0)
              /\ sent'[Other(r)][d] = sent[Other(r)][d] + (IF r = o /\ d = c THEN 1 ELSE 0)
              /\ got'[r][d] = got[r][d]
              /\ InFlight(r, d) \in Nat /\ sent[Other(r)][d] \in Nat /\ got[r][d] \in Nat
  <2>1. /\ InFlight(r, d) = N(link[r], d) + (IF dl[r] = d THEN 1 ELSE 0)
        /\ InFlight(r, d) \in Nat /\ N(link[r], d) \in Nat
        /\ sent[Other(r)][d] \in Nat /\ got[r][d] \in Nat
    BY FlowFacts, SideFacts
  <2>2. InFlight(r, d)' = N(link'[r], d) + (IF dl'[r] = d THEN 1 ELSE 0)
    BY DEF InFlight, N, Msg
  <2>3. N(link'[r], d) = N(link[r], d) + (IF up /\ r = o /\ d = c THEN 1 ELSE 0)
    BY <1>3 DEF SentData, o
  <2>4. Other(r) = s <=> r = o
    BY SideFacts DEF o
  <2>5. sent'[Other(r)][d] = sent[Other(r)][d] + (IF r = o /\ d = c THEN 1 ELSE 0)
    BY <1>1, <2>1, <2>4, SideFacts DEF n
  <2> QED
    BY <1>0, <2>1, <2>2, <2>3, <2>5
<1>11. NothingInvented'
  BY <1>10 DEF NothingInvented
<1>12. PayloadsConserved'
  BY <1>0, <1>10 DEF PayloadsConserved, muxVars
<1>13. TornIsComplete'
  BY <1>0, <1>1, SideFacts DEF TornIsComplete, muxVars, Serving
<1> QED
  BY <1>4, <1>5, <1>6, <1>7, <1>8, <1>9, <1>11, <1>12, <1>13

LEMMA FinishAStep ==
    ASSUME IInv, NEW s \in Sides, NEW c \in Chans, FinishA(s, c)
    PROVE  IInv'
<1> USE DEF IInv
<1>0. /\ relayA[s][c] = "run" /\ relayB[s][c] # "off" /\ pc[s][c] \in {"relay", "done"}
      /\ relayA["server"][c] # "off"
      /\ relayA' = [relayA EXCEPT ![s][c] = "done"]
      /\ Send(s, "Close", c)
      /\ UNCHANGED <<up, loop, dl, muxVars, readyCh, pc, relayB, local, sent, got>>
  BY SideFacts DEF FinishA, RelayInv, ServerFirst
<1>1. /\ relayA' \in PerChan({"off", "run", "done"})
      /\ \A r \in Sides, d \in Chans :
            relayA'[r][d] = IF r = s /\ d = c THEN "done" ELSE relayA[r][d]
  BY <1>0 DEF Types, PerChan
<1>2. Sent(s, "Close", c)
  BY <1>0, SendControl DEF MsgTypes
<1>3. Types'
  BY <1>0, <1>1, <1>2 DEF Types, muxVars, Sent
<1>4. LoopInv' /\ CountInv' /\ TableInv'
  BY <1>0, Frames DEF muxVars
<1>5. RelayInv'
  BY <1>0, <1>1 DEF RelayInv, muxVars
<1>6. ConnectInv'
  BY <1>0, <1>2, SideFacts DEF ConnectInv, Sent, MsgTypes
<1>7. ServerFirst'
  BY <1>0, <1>1, <1>2, SideFacts DEF ServerFirst, Sent, MsgTypes
<1>8. CloseIsLast'
  BY <1>0, <1>1, <1>2, SideFacts DEF CloseIsLast, Sent, MsgTypes
<1>9. NothingInvented' /\ PayloadsConserved'
  BY <1>0, <1>2, FlowKept DEF muxVars, Sent
<1>10. TornIsComplete'
  BY <1>0, <1>1, TornKept DEF Serving, muxVars
<1> QED
  BY <1>3, <1>4, <1>5, <1>6, <1>7, <1>8, <1>9, <1>10

LEMMA ReadPipeStep ==
    ASSUME IInv, NEW s \in Sides, NEW c \in Chans, ReadPipe(s, c)
    PROVE  IInv'
<1> USE DEF IInv
<1> DEFINE n == got[s][c]
<1>0. /\ loop[s] = "deliver" /\ dl[s] = c /\ ~torn[s][c]
      /\ n \in Nat /\ n + 1 \in Nat
      /\ got' = [got EXCEPT ![s][c] = n + 1]
      /\ loop' = [loop EXCEPT ![s] = "run"]
      /\ dl' = [dl EXCEPT ![s] = NoChan]
      /\ UNCHANGED <<link, up, muxVars, readyCh, pc, relayA, relayB, local, sent>>
  BY DEF ReadPipe, Types, PerChan
<1>1. /\ got' \in PerChan(Nat)
      /\ \A r \in Sides, d \in Chans : got'[r][d] = IF r = s /\ d = c THEN n + 1 ELSE got[r][d]
  BY <1>0 DEF Types, PerChan
<1>2. \A r \in Sides : dl'[r] = (IF r = s THEN NoChan ELSE dl[r])
  BY <1>0 DEF Types
<1>3. Types'
  BY <1>0, <1>1 DEF Types, muxVars
<1>4. LoopInv'
  BY <1>0, <1>2 DEF Types, LoopInv
<1>5. CountInv' /\ TableInv' /\ RelayInv' /\ ConnectInv' /\ ServerFirst' /\ CloseIsLast'
  BY <1>0, Frames DEF muxVars
<1>6. \A r \in Sides, d \in Chans :
         InFlight(r, d)' = InFlight(r, d) - (IF r = s /\ d = c THEN 1 ELSE 0)
  <2> TAKE r \in Sides, d \in Chans
  <2>1. InFlight(r, d)' = N(link'[r], d) + (IF dl'[r] = d THEN 1 ELSE 0)
    BY DEF InFlight, N, Msg
  <2>2. /\ InFlight(r, d) = N(link[r], d) + (IF dl[r] = d THEN 1 ELSE 0)
        /\ N(link[r], d) \in Nat
    BY FlowFacts
  <2>3. dl'[r] = d <=> dl[r] = d /\ ~(r = s /\ d = c)
    BY <1>0, <1>2, ChansAssumption
  <2>4. r = s /\ d = c => dl[r] = d
    BY <1>0
  <2>5. link' = link
    BY <1>0
  <2> QED
    BY <2>1, <2>2, <2>3, <2>4, <2>5
<1>7. NothingInvented'
  BY <1>0, <1>1, <1>6, FlowFacts, SideFacts DEF NothingInvented
<1>8. PayloadsConserved'
  BY <1>0, <1>1, <1>6, FlowFacts, SideFacts DEF PayloadsConserved, muxVars
<1>9. TornIsComplete'
  BY <1>0, <1>1, SideFacts DEF TornIsComplete, muxVars, Serving, Types
<1> QED
  BY <1>3, <1>4, <1>5, <1>7, <1>8, <1>9

\* Goroutine B ends: at EOF, or because the endpoint is gone.
LEMMA FinishBStep ==
    ASSUME IInv, NEW s \in Sides, NEW c \in Chans, FinishB(s, c) \/ WriteLocalFails(s, c)
    PROVE  IInv'
<1> USE DEF IInv
<1>0. /\ relayB[s][c] = "run" /\ (torn[s][c] \/ local[s][c] = "gone")
      /\ relayB' = [relayB EXCEPT ![s][c] = "done"]
      /\ UNCHANGED <<link, up, loop, dl, muxVars, readyCh, pc, relayA, local, sent, got>>
  BY DEF FinishB, WriteLocalFails
<1>1. /\ relayB' \in PerChan({"off", "run", "done"})
      /\ \A r \in Sides, d \in Chans :
            relayB'[r][d] = IF r = s /\ d = c THEN "done" ELSE relayB[r][d]
  BY <1>0 DEF Types, PerChan
<1>2. Types'
  BY <1>0, <1>1 DEF Types, muxVars
<1>3. LoopInv' /\ CountInv' /\ TableInv' /\ ConnectInv' /\ ServerFirst' /\ CloseIsLast'
  BY <1>0, Frames DEF muxVars
<1>4. RelayInv'
  BY <1>0, <1>1 DEF RelayInv, muxVars
<1>5. NothingInvented' /\ PayloadsConserved'
  BY <1>0, FlowKept DEF muxVars
<1>6. TornIsComplete'
  BY <1>0, <1>1, TornKept DEF Serving, muxVars
<1> QED
  BY <1>2, <1>3, <1>4, <1>5, <1>6

\* The user or the target closes its connection.
LEMMA LocalClosesStep ==
    ASSUME IInv, NEW s \in Sides, NEW c \in Chans, NEW how \in {"half", "gone"},
           LocalCloses(s, c, how)
    PROVE  IInv'
<1> USE DEF IInv
<1>0. /\ local[s][c] # "gone"
      /\ local' = [local EXCEPT ![s][c] = how]
      /\ UNCHANGED <<link, up, loop, dl, muxVars, readyCh, pc, relayA, relayB, sent, got>>
  BY DEF LocalCloses
<1>1. /\ local' \in PerChan({"open", "half", "gone"})
      /\ \A r \in Sides, d \in Chans : local'[r][d] = IF r = s /\ d = c THEN how ELSE local[r][d]
  BY <1>0 DEF Types, PerChan
<1>2. Types'
  BY <1>0, <1>1 DEF Types, muxVars
<1>3. LoopInv' /\ CountInv' /\ TableInv' /\ ConnectInv' /\ ServerFirst' /\ CloseIsLast'
  BY <1>0, Frames DEF muxVars
<1>4. RelayInv'
  BY <1>0, <1>1 DEF RelayInv, muxVars
<1>5. NothingInvented' /\ PayloadsConserved'
  BY <1>0, <1>1, FlowKept DEF muxVars
<1>6. TornIsComplete'
  BY <1>0, <1>1, TornKept DEF Serving, muxVars
<1> QED
  BY <1>2, <1>3, <1>4, <1>5, <1>6

-----------------------------------------------------------------------------
(* The message loops.                                                      *)

\* A message that is not a payload is taken: no payload moves.
LEMMA ControlTaken ==
    ASSUME Types, NEW s \in Sides, NEW t \in MsgTypes \ {"Data"}, NEW c \in Chans, Taken(s, t, c)
    PROVE  \A r \in Sides, d \in Chans : N(link'[r], d) = N(link[r], d)
<1>1. \A r \in Sides, d \in Chans : N(link'[r], d) = N(link[r], d) - 0
  BY DEF Taken
<1> QED
  BY <1>1, FlowFacts

\* Taking a message leaves what is said of the queues true.
LEMMA TakenKeeps ==
    ASSUME IInv, NEW s \in Sides, NEW t \in MsgTypes, NEW c \in Chans, Taken(s, t, c)
    PROVE  /\ UNCHANGED pc => ConnectInv'
           /\ UNCHANGED <<relayA, readyCh>> => ServerFirst'
           /\ UNCHANGED <<relayA, pc>> => CloseIsLast'
<1>1. UNCHANGED pc => ConnectInv'
  BY SideFacts DEF IInv, ConnectInv, Taken
<1>2. UNCHANGED <<relayA, readyCh>> => ServerFirst'
  BY SideFacts DEF IInv, ServerFirst, Taken
<1>3. UNCHANGED <<relayA, pc>> => CloseIsLast'
  BY SideFacts DEF IInv, CloseIsLast, Taken
<1> QED
  BY <1>1, <1>2, <1>3

LEMMA OnConnectStep ==
    ASSUME IInv, NEW c \in Chans, OnConnect(c)
    PROVE  IInv'
<1> USE DEF IInv
<1>0. /\ Head_("server", "Connect", c) /\ Goto("server", c, "spawned")
      /\ UNCHANGED <<up, loop, dl, muxVars, readyCh, relayVars>>
  BY DEF OnConnect
<1>1. Taken("server", "Connect", c) /\ Moved("server", c, "spawned")
  BY <1>0, HeadEffect, GotoEffect, SideFacts DEF MsgTypes, PcStates
<1>2. /\ pc["server"][c] = "idle" /\ pc["client"][c] # "idle"
      /\ ~In(link'["server"], Msg("Connect", c))
  BY <1>1, SideFacts DEF ConnectInv, Taken
<1>3. Types'
  BY <1>0, <1>1 DEF Types, muxVars, relayVars, PcStates, Moved, Taken
<1>4. LoopInv' /\ CountInv'
  BY <1>0, Frames DEF muxVars
<1>5. TableInv'
  BY <1>0, <1>1, <1>2 DEF TableInv, muxVars, Moved
<1>6. RelayInv'
  BY <1>0, <1>1, <1>2 DEF RelayInv, muxVars, relayVars, Moved
<1>7. ConnectInv'
  BY <1>1, <1>2, SideFacts DEF ConnectInv, Moved, Taken
<1>8. ServerFirst'
  <2> HIDE DEF IInv
  <2> QED
    BY <1>0, <1>1, TakenKeeps, SideFacts DEF relayVars, MsgTypes
<1>9. CloseIsLast'
  BY <1>0, <1>1, <1>2, SideFacts DEF CloseIsLast, relayVars, Moved, Taken
<1>10. NothingInvented' /\ PayloadsConserved'
  <2>1. \A r \in Sides, d \in Chans : N(link'[r], d) = N(link[r], d)
    BY <1>1, ControlTaken, SideFacts DEF MsgTypes
  <2> QED
    BY <1>0, <2>1, FlowKept DEF muxVars, relayVars
<1>11. TornIsComplete'
  BY <1>0, <1>1, <1>2, TornKept DEF Serving, TableInv, muxVars, relayVars, Moved
<1> QED
  BY <1>3, <1>4, <1>5, <1>6, <1>7, <1>8, <1>9, <1>10, <1>11

LEMMA OnReadyStep ==
    ASSUME IInv, NEW c \in Chans, NEW t \in {"ReadyOK", "ReadyFail"}, OnReady(c, t)
    PROVE  IInv'
<1> USE DEF IInv
<1>0. /\ Head_("client", t, c) /\ t \in MsgTypes \ {"Data"}
      /\ readyCh' = IF c \in mux["client"] /\ readyCh[c] = "none"
                    THEN [readyCh EXCEPT ![c] = IF t = "ReadyOK" THEN "ok" ELSE "fail"]
                    ELSE readyCh
      /\ UNCHANGED <<up, loop, dl, muxVars, pc, relayVars>>
  BY DEF OnReady, MsgTypes
<1>1. Taken("client", t, c)
  BY <1>0, HeadEffect, SideFacts
<1>2. /\ readyCh' \in [Chans -> {"none", "ok", "fail"}]
      /\ \A d \in Chans : readyCh'[d] # readyCh[d] /\ readyCh'[d] = "ok" => d = c /\ t = "ReadyOK"
  BY <1>0 DEF Types
<1>3. Types'
  BY <1>0, <1>1, <1>2 DEF Types, muxVars, relayVars, Taken
<1>4. LoopInv' /\ CountInv' /\ TableInv' /\ RelayInv'
  BY <1>0, Frames DEF muxVars, relayVars
<1>5. ConnectInv' /\ CloseIsLast'
  <2> HIDE DEF IInv
  <2> QED
    BY <1>0, <1>1, TakenKeeps, SideFacts DEF relayVars
<1>6. ServerFirst'
  <2>1. ASSUME NEW d \in Chans, relayA["server"][d] = "off" PROVE readyCh'[d] # "ok"
    BY <1>1, <1>2, <2>1 DEF ServerFirst, Taken
  <2> QED
    BY <1>0, <1>1, <2>1, SideFacts DEF ServerFirst, relayVars, Taken
<1>7. NothingInvented' /\ PayloadsConserved'
  <2>1. \A r \in Sides, d \in Chans : N(link'[r], d) = N(link[r], d)
    BY <1>0, <1>1, ControlTaken, SideFacts
  <2> QED
    BY <1>0, <2>1, FlowKept DEF muxVars, relayVars
<1>8. TornIsComplete'
  BY <1>0, TornKept DEF Serving, muxVars, relayVars
<1> QED
  BY <1>3, <1>4, <1>5, <1>6, <1>7, <1>8

\* A payload goes from the queue into Deliver, or is dropped with its channel.
LEMMA OnDataStep ==
    ASSUME IInv, NEW s \in Sides, NEW c \in Chans, OnData(s, c)
    PROVE  IInv'
<1> USE DEF IInv
<1>0. /\ Head_(s, "Data", c) /\ loop[s] = "run" /\ dl[s] = NoChan
      /\ IF c \in mux[s] THEN /\ loop' = [loop EXCEPT ![s] = "deliver"]
                              /\ dl' = [dl EXCEPT ![s] = c]
                         ELSE UNCHANGED <<loop, dl>>
      /\ UNCHANGED <<up, muxVars, readyCh, pc, relayVars>>
  BY DEF OnData, Head_, LoopInv
<1>1. Taken(s, "Data", c)
  BY <1>0, HeadEffect DEF MsgTypes
<1>2. /\ loop' \in [Sides -> {"run", "deliver", "closeAll", "close", "over"}]
      /\ dl' \in [Sides -> Chans \cup {NoChan}]
      /\ \A r \in Sides : dl'[r] = IF r = s /\ c \in mux[s] THEN c ELSE dl[r]
      /\ \A r \in Sides : loop'[r] = IF r = s /\ c \in mux[s] THEN "deliver" ELSE loop[r]
  <2>1. CASE c \in mux[s]
    BY <1>0, <2>1 DEF Types
  <2>2. CASE c \notin mux[s]
    BY <1>0, <2>2 DEF Types
  <2> QED
    BY <2>1, <2>2
<1>3. Types'
  BY <1>0, <1>1, <1>2 DEF Types, muxVars, relayVars, Taken
<1>4. LoopInv'
  BY <1>0, <1>2, ChansAssumption DEF LoopInv
<1>5. CountInv' /\ TableInv' /\ RelayInv'
  BY <1>0, Frames DEF muxVars, relayVars
<1>6. ConnectInv' /\ ServerFirst' /\ CloseIsLast'
  <2> HIDE DEF IInv
  <2> QED
    BY <1>0, <1>1, TakenKeeps DEF relayVars, MsgTypes
<1>7. ASSUME NEW r \in Sides, NEW d \in Chans
      PROVE  /\ InFlight(r, d)' = InFlight(r, d) - (IF r = s /\ d = c /\ c \notin mux[s] THEN 1 ELSE 0)
             /\ InFlight(r, d) \in Nat /\ sent[Other(r)][d] \in Nat /\ got[r][d] \in Nat
  <2>1. /\ InFlight(r, d) = N(link[r], d) + (IF dl[r] = d THEN 1 ELSE 0)
        /\ InFlight(r, d) \in Nat /\ N(link[r], d) \in Nat
        /\ sent[Other(r)][d] \in Nat /\ got[r][d] \in Nat
    BY FlowFacts, SideFacts
  <2>2. InFlight(r, d)' = N(link'[r], d) + (IF dl'[r] = d THEN 1 ELSE 0)
    BY DEF InFlight, N, Msg
  <2>3. N(link'[r], d) = N(link[r], d) - (IF r = s /\ d = c THEN 1 ELSE 0)
    BY <1>1 DEF Taken
  <2>4. /\ dl'[r] = IF r = s /\ c \in mux[s] THEN c ELSE dl[r]
        /\ r = s => dl[r] # d
    BY <1>0, <1>2, ChansAssumption
  <2> QED
    BY <2>1, <2>2, <2>3, <2>4
<1>8. NothingInvented'
  BY <1>0, <1>7 DEF NothingInvented, relayVars
<1>9. PayloadsConserved'
  BY <1>0, <1>7 DEF PayloadsConserved, muxVars, relayVars
<1>10. TornIsComplete'
  BY <1>0, <1>2, TornKept DEF Serving, muxVars, relayVars
<1> QED
  BY <1>3, <1>4, <1>5, <1>6, <1>8, <1>9, <1>10

\* The payload in Deliver is dropped with its channel.
LEMMA DeliverFailsStep ==
    ASSUME IInv, NEW s \in Sides, DeliverFails(s)
    PROVE  IInv'
<1> USE DEF IInv
<1>0. /\ loop[s] = "deliver" /\ dl[s] \in Chans /\ torn[s][dl[s]]
      /\ loop' = [loop EXCEPT ![s] = "run"]
      /\ dl' = [dl EXCEPT ![s] = NoChan]
      /\ UNCHANGED <<link, up, muxVars, readyCh, pc, relayVars>>
  BY DEF DeliverFails, LoopInv, Types
<1>1. dl[s] \notin mux[s]
  BY <1>0 DEF TableInv
<1>2. Types'
  BY <1>0 DEF Types, muxVars, relayVars
<1>3. LoopInv'
  BY <1>0 DEF LoopInv, Types
<1>4. CountInv' /\ TableInv' /\ RelayInv' /\ ConnectInv' /\ ServerFirst' /\ CloseIsLast'
  BY <1>0, Frames DEF muxVars, relayVars
<1>5. ASSUME NEW r \in Sides, NEW d \in Chans
      PROVE  /\ InFlight(r, d)' = InFlight(r, d) - (IF r = s /\ d = dl[s] THEN 1 ELSE 0)
             /\ InFlight(r, d) \in Nat /\ sent[Other(r)][d] \in Nat /\ got[r][d] \in Nat
  <2>1. /\ InFlight(r, d) = N(link[r], d) + (IF dl[r] = d THEN 1 ELSE 0)
        /\ InFlight(r, d) \in Nat /\ N(link[r], d) \in Nat
        /\ sent[Other(r)][d] \in Nat /\ got[r][d] \in Nat
    BY FlowFacts, SideFacts
  <2>2. InFlight(r, d)' = N(link'[r], d) + (IF dl'[r] = d THEN 1 ELSE 0)
    BY DEF InFlight, N, Msg
  <2>3. dl'[r] = (IF r = s THEN NoChan ELSE dl[r]) /\ d # NoChan
    BY <1>0, ChansAssumption DEF Types
  <2> QED
    BY <1>0, <2>1, <2>2, <2>3
<1>6. NothingInvented'
  BY <1>0, <1>5 DEF NothingInvented, relayVars
<1>7. PayloadsConserved'
  BY <1>0, <1>1, <1>5 DEF PayloadsConserved, muxVars, relayVars
<1>8. TornIsComplete'
  BY <1>0, TornKept DEF Serving, muxVars, relayVars
<1> QED
  BY <1>2, <1>3, <1>4, <1>6, <1>7, <1>8

\* The Close of the other side tears the channel only when all its payloads have
\* been delivered: none is behind it in the queue, and the loop is not in Deliver.
LEMMA OnCloseStep ==
    ASSUME IInv, NEW s \in Sides, NEW c \in Chans, OnClose(s, c)
    PROVE  IInv'
<1> USE DEF IInv
<1>0. /\ Head_(s, "Close", c) /\ loop[s] = "run" /\ dl[s] = NoChan
      /\ Remove(s, c)
      /\ UNCHANGED <<up, loop, dl, readyCh, pc, relayVars>>
  BY DEF OnClose, Head_, LoopInv
<1>1. Taken(s, "Close", c) /\ Removed(s, c)
  BY <1>0, HeadEffect, RemoveEffect DEF MsgTypes
<1>2. \A r \in Sides, d \in Chans : N(link'[r], d) = N(link[r], d)
  BY <1>1, ControlTaken DEF MsgTypes
<1>3. ASSUME NEW r \in Sides, NEW d \in Chans
      PROVE  /\ d \in mux'[r] <=> d \in mux[r] /\ ~(r = s /\ d = c)
             /\ torn'[r][d] => torn[r][d] \/ (r = s /\ d = c /\ c \in mux[s])
             /\ torn[r][d] => torn'[r][d]
  BY <1>1 DEF Removed
<1>4. Types'
  BY <1>0, <1>1 DEF Types, relayVars, Taken, Removed
<1>5. LoopInv'
  BY <1>0, Frames
<1>6. TableInv' /\ CountInv'
  BY <1>0, <1>1, <1>3 DEF TableInv, Removed
<1>7. RelayInv'
  BY <1>0, <1>3 DEF RelayInv, relayVars
<1>8. ConnectInv' /\ ServerFirst' /\ CloseIsLast'
  <2> HIDE DEF IInv
  <2> QED
    BY <1>0, <1>1, TakenKeeps DEF relayVars, MsgTypes
<1>9. NothingInvented' /\ PayloadsConserved'
  BY <1>0, <1>2, <1>3, FlowKept DEF relayVars
<1>10. ASSUME up, c \in mux[s], local[s][c] # "gone"
       PROVE  got[s][c] = sent[Other(s)][c]
  <2>1. sent[Other(s)][c] = got[s][c] + InFlight(s, c)
    BY <1>10 DEF PayloadsConserved
  <2>2. N(link[s], c) = 0
    BY <1>1 DEF Taken, CloseIsLast
  <2>3. InFlight(s, c) = 0 /\ got[s][c] \in Nat
    BY <1>0, <2>2, FlowFacts, ChansAssumption
  <2> QED
    BY <2>1, <2>3
<1>11. relayA[Other(s)][c] # "run" /\ pc[Other(s)][c] \in {"relay", "done"}
  BY <1>1 DEF Taken, CloseIsLast
<1>12. TornIsComplete'
  <2> SUFFICES ASSUME NEW r \in Sides, NEW d \in Chans,
                      up, Serving(r), torn'[r][d], local[r][d] # "gone",
                      pc[r][d] = "done" => relayB[r][d] # "off"
               PROVE  /\ got[r][d] = sent[Other(r)][d]
                      /\ relayA[Other(r)][d] # "run"
                      /\ pc[Other(r)][d] \in {"relay", "done"}
    BY <1>0 DEF TornIsComplete, relayVars, Serving
  <2>1. CASE torn[r][d]
    BY <2>1 DEF TornIsComplete
  <2>2. CASE r = s /\ d = c /\ c \in mux[s]
    BY <1>10, <1>11, <2>2
  <2> QED
    BY <1>3, <2>1, <2>2
<1> QED
  BY <1>4, <1>5, <1>6, <1>7, <1>8, <1>9, <1>12

\* The loop goes from reading to CloseAll.
LEMMA LoopLeavesStep ==
    ASSUME IInv, NEW s \in Sides, LoopLeaves(s)
    PROVE  IInv'
<1> USE DEF IInv
<1>0. /\ loop[s] = "run"
      /\ loop' = [loop EXCEPT ![s] = "closeAll"]
      /\ UNCHANGED <<link, up, dl, muxVars, readyCh, pc, relayVars>>
  BY DEF LoopLeaves
<1>1. Types'
  BY <1>0 DEF Types, muxVars, relayVars
<1>2. LoopInv'
  BY <1>0 DEF LoopInv, Types
<1>3. CountInv' /\ TableInv' /\ RelayInv' /\ ConnectInv' /\ ServerFirst' /\ CloseIsLast'
  BY <1>0, Frames DEF muxVars, relayVars
<1>4. NothingInvented' /\ PayloadsConserved'
  BY <1>0, FlowKept DEF muxVars, relayVars
<1>5. TornIsComplete'
  BY <1>0, TornKept DEF Serving, muxVars, relayVars
<1> QED
  BY <1>1, <1>2, <1>3, <1>4, <1>5

\* CloseAll empties the table and gives back exactly what it held.
LEMMA TeardownStep ==
    ASSUME IInv, NEW s \in Sides, Teardown(s)
    PROVE  IInv'
<1> USE DEF IInv
<1>0. /\ loop[s] = "closeAll"
      /\ mux' = [mux EXCEPT ![s] = {}]
      /\ wg' = [wg EXCEPT ![s] = wg[s] - Cardinality(mux[s])]
      /\ torn' = [torn EXCEPT ![s] = [c \in Chans |-> torn[s][c] \/ c \in mux[s]]]
      /\ loop' = [loop EXCEPT ![s] = "close"]
      /\ UNCHANGED <<link, up, dl, readyCh, pc, relayVars>>
  BY DEF Teardown, CloseAll, LoopInv
<1>1. mux[s] \in SUBSET Chans /\ IsFiniteSet(mux[s]) /\ wg[s] = Cardinality(mux[s]) /\ wg[s] \in Int
  BY DEF Types, CountInv
<1>2. mux' \in [Sides -> SUBSET Chans] /\ \A r \in Sides : mux'[r] = IF r = s THEN {} ELSE mux[r]
  BY <1>0 DEF Types
<1>3. wg' \in [Sides -> Int] /\ \A r \in Sides : wg'[r] = IF r = s THEN 0 ELSE wg[r]
  BY <1>0, <1>1 DEF Types
<1>4. CountInv'
  BY <1>2, <1>3, FS_EmptySet DEF CountInv
<1>5. /\ torn' \in PerChan(BOOLEAN)
      /\ \A r \in Sides, d \in Chans :
            torn'[r][d] <=> torn[r][d] \/ (r = s /\ d \in mux[s])
  <2> DEFINE f == [c \in Chans |-> torn[s][c] \/ c \in mux[s]]
  <2>1. /\ f \in [Chans -> BOOLEAN]
        /\ \A d \in Chans : f[d] <=> torn[s][d] \/ d \in mux[s]
        /\ torn' = [torn EXCEPT ![s] = f]
    BY <1>0
  <2> HIDE DEF f
  <2>2. /\ torn' \in PerChan(BOOLEAN)
        /\ \A r \in Sides : torn'[r] = IF r = s THEN f ELSE torn[r]
    BY <2>1 DEF Types, PerChan
  <2> QED
    BY <2>1, <2>2
<1>6. ASSUME NEW r \in Sides, NEW d \in Chans
      PROVE  /\ d \in mux'[r] => d \in mux[r] /\ r # s
             /\ torn'[r][d] => torn[r][d] \/ (r = s /\ d \in mux[r])
             /\ torn[r][d] => torn'[r][d]
  BY <1>2, <1>5
<1>7. Types'
  BY <1>0, <1>2, <1>3, <1>5 DEF Types, relayVars
<1>8. LoopInv'
  BY <1>0 DEF LoopInv, Types
<1>9. TableInv'
  BY <1>0, <1>6 DEF TableInv
<1>10. RelayInv'
  BY <1>0, <1>6 DEF RelayInv, relayVars
<1>11. ConnectInv' /\ ServerFirst' /\ CloseIsLast'
  BY <1>0, Frames DEF relayVars
<1>12. NothingInvented' /\ PayloadsConserved'
  BY <1>0, <1>6, FlowKept DEF relayVars
<1>13. TornIsComplete'
  <2>1. \A r \in Sides : Serving(r)' => Serving(r) /\ r # s
    BY <1>0 DEF Serving, Types
  <2> QED
    BY <1>0, <1>6, <2>1 DEF TornIsComplete, relayVars
<1> QED
  BY <1>4, <1>7, <1>8, <1>9, <1>10, <1>11, <1>12, <1>13

\* The side closes the connection, with what was on its way to it.
LEMMA ConnClosesStep ==
    ASSUME IInv, NEW s \in Sides, ConnCloses(s)
    PROVE  IInv'
<1> USE DEF IInv
<1>0. /\ loop[s] = "close" /\ ~up'
      /\ loop' = [loop EXCEPT ![s] = "over"]
      /\ link' = [link EXCEPT ![s] = <<>>]
      /\ UNCHANGED <<dl, muxVars, readyCh, pc, relayVars>>
      /\ up' \in BOOLEAN
  BY DEF ConnCloses
<1>1. \A r \in Sides : link'[r] = IF r = s THEN <<>> ELSE link[r]
  BY <1>0 DEF Types
<1>2. ASSUME NEW r \in Sides, NEW m
      PROVE  (In(link'[r], m) => In(link[r], m)) /\ (Once(link[r], m) => Once(link'[r], m))
  BY <1>1 DEF In, Once
<1>3. ASSUME NEW r \in Sides, NEW d \in Chans
      PROVE  InOrder(link[r], d) => InOrder(link'[r], d)
  BY <1>1 DEF InOrder
<1>4. Types'
  <2> DEFINE Queues == Seq([type : MsgTypes, conn : Chans])
  <2>a. <<>> \in Queues
    OBVIOUS
  <2>1. link \in [Sides -> Queues]
    BY DEF Types
  <2> HIDE DEF Queues
  <2>2. link' \in [Sides -> Queues]
    BY <1>0, <2>a, <2>1
  <2> QED
    BY <1>0, <2>2 DEF Types, muxVars, relayVars, Queues
<1>5. LoopInv'
  BY <1>0 DEF LoopInv, Types
<1>6. CountInv' /\ TableInv' /\ RelayInv'
  BY <1>0, Frames DEF muxVars, relayVars
<1>7. ConnectInv'
  BY <1>0, <1>2, SideFacts DEF ConnectInv
<1>8. ServerFirst'
  BY <1>0, <1>2, SideFacts DEF ServerFirst, relayVars
<1>9. CloseIsLast'
  BY <1>0, <1>2, <1>3 DEF CloseIsLast, relayVars
<1>10. ASSUME NEW r \in Sides, NEW d \in Chans
       PROVE  /\ InFlight(r, d)' <= InFlight(r, d)
              /\ InFlight(r, d)' \in Nat /\ InFlight(r, d) \in Nat
              /\ sent[Other(r)][d] \in Nat /\ got[r][d] \in Nat
  <2>1. /\ InFlight(r, d) = N(link[r], d) + (IF dl[r] = d THEN 1 ELSE 0)
        /\ InFlight(r, d) \in Nat /\ N(link[r], d) \in Nat
        /\ sent[Other(r)][d] \in Nat /\ got[r][d] \in Nat
    BY FlowFacts, SideFacts
  <2>2. InFlight(r, d)' = N(link'[r], d) + (IF dl'[r] = d THEN 1 ELSE 0)
    BY DEF InFlight, N, Msg
  <2>3. N(<<>>, d) = 0
    <3>1. Positions(<<>>, Msg("Data", d)) = {}
      BY DEF Positions
    <3> QED
      BY <3>1, FS_EmptySet DEF N
  <2> QED
    BY <1>0, <1>1, <2>1, <2>2, <2>3
<1>11. NothingInvented'
  BY <1>0, <1>10 DEF NothingInvented, relayVars
<1>12. PayloadsConserved' /\ TornIsComplete'
  BY <1>0 DEF PayloadsConserved, TornIsComplete
<1> QED
  BY <1>4, <1>5, <1>6, <1>7, <1>8, <1>9, <1>11, <1>12

\* The connection breaks, or nothing happens.
LEMMA LinkBreaksStep ==
    ASSUME IInv, LinkBreaks \/ UNCHANGED vars
    PROVE  IInv'
<1> USE DEF IInv
<1>0. /\ up' \in BOOLEAN /\ (up' => up)
      /\ UNCHANGED <<link, loop, dl, muxVars, readyCh, pc, relayVars>>
  <2>1. CASE LinkBreaks
    BY <2>1 DEF LinkBreaks
  <2>2. CASE UNCHANGED vars
    BY <2>2 DEF vars, Types
  <2> QED
    BY <2>1, <2>2
<1>1. Types'
  BY <1>0 DEF Types, muxVars, relayVars
<1>2. LoopInv'
  BY <1>0 DEF LoopInv
<1>3. CountInv' /\ TableInv' /\ RelayInv' /\ ConnectInv' /\ ServerFirst' /\ CloseIsLast'
  BY <1>0, Frames DEF muxVars, relayVars
<1>4. NothingInvented' /\ PayloadsConserved'
  BY <1>0, FlowKept DEF muxVars, relayVars
<1>5. TornIsComplete'
  BY <1>0, TornKept DEF Serving, muxVars, relayVars
<1> QED
  BY <1>1, <1>2, <1>3, <1>4, <1>5

-----------------------------------------------------------------------------
(* The theorems.                                                           *)

\* IInv is an invariant of both sides together, whatever the number of channels.
THEOREM Invariance == Spec => []IInv
<1>1. IInv /\ [Next]_vars => IInv'
  <2> SUFFICES ASSUME IInv, [Next]_vars PROVE IInv'
    OBVIOUS
  <2>1. ASSUME NEW c \in Chans,
               ClientConnect(c) \/ ClientReject(c) \/ ClientHandler(c) \/ ServerHandler(c)
        PROVE  IInv'
    BY <2>1, ClientConnectStep, ClientRejectStep, ClientReadyStep, ClientGiveUpStep,
       ClientAbortStep, ServerRefuseStep, ServerDialStep, ServerDialedStep, ServerDialFailsStep
       DEF ClientHandler, ServerHandler
  <2>2. ASSUME NEW c \in Chans, NEW s \in Sides,
               Relay(s, c) \/ ReadLocal(s, c) \/ TakePayload(s, c)
                   \/ \E how \in {"half", "gone"} : LocalCloses(s, c, how)
        PROVE  IInv'
    BY <2>2, FinishAStep, FinishBStep, FinishRelayStep, ReadLocalStep, ReadPipeStep, LocalClosesStep
       DEF Relay, TakePayload
  <2>3. ASSUME NEW s \in Sides, MessageLoop(s) \/ LoopLeaves(s)
        PROVE  IInv'
    BY <2>3, OnConnectStep, OnReadyStep, OnDataStep, OnCloseStep, DeliverFailsStep,
       LoopLeavesStep, TeardownStep, ConnClosesStep
       DEF MessageLoop, LoopEnds
  <2>4. CASE LinkBreaks \/ UNCHANGED vars
    BY <2>4, LinkBreaksStep
  <2> QED
    BY <2>1, <2>2, <2>3, <2>4 DEF Next
<1> QED
  BY InitIInv, <1>1, PTL DEF Spec

\* The channel table of each side is exact: its WaitGroup counts what is registered,
\* no finished handler leaves a channel behind, and no endpoint receives more than
\* the other one can have sent.
THEOREM TablesAreExact == Spec => []ChannelInv
<1>1. IInv => ChannelInv
  <2> SUFFICES ASSUME IInv PROVE ChannelInv
    OBVIOUS
  <2> USE DEF IInv
  <2>1. ASSUME NEW s \in Sides, NEW c \in Chans PROVE got[s][c] \in 0..MaxData
    <3>1. got[s][c] + InFlight(s, c) <= sent[Other(s)][c] /\ Other(s) \in Sides
      BY SideFacts DEF NothingInvented
    <3>2. got[s][c] \in Nat /\ InFlight(s, c) \in Nat /\ sent[Other(s)][c] \in 0..MaxData
      BY <3>1, FlowFacts DEF Types, PerChan
    <3> QED
      BY <3>1, <3>2, MaxDataAssumption
  <2>2. TypeOK
    <3>1. got \in PerChan(0..MaxData)
      BY <2>1 DEF Types, PerChan
    <3> QED
      BY <3>1 DEF Types, TypeOK
  <2>3. WaitGroupBalanced
    BY DEF CountInv, WaitGroupBalanced
  <2>4. FinishedIsUnregistered
    BY DEF TableInv, FinishedIsUnregistered
  <2> QED
    BY <2>2, <2>3, <2>4 DEF ChannelInv
<1> QED
  BY Invariance, <1>1, PTL

\* While a channel is registered over a working connection, every payload of the
\* other endpoint is in the queue, in the blocked Deliver, or delivered once.
THEOREM BackpressureLosesNothing == Spec => []PayloadsConserved
<1>1. IInv => PayloadsConserved
  BY DEF IInv
<1> QED
  BY Invariance, <1>1, PTL

\* When both directions of a relay have ended over a working connection, a half-close
\* has cost no payload, unless the receiving endpoint itself was reset.
THEOREM HalfCloseLosesNothing == Spec => []NoLossOnHalfClose
<1>1. IInv => NoLossOnHalfClose
  <2> SUFFICES ASSUME IInv, NEW s \in Sides, NEW c \in Chans,
                      up, Serving(s), relayB[s][c] = "done", local[s][c] # "gone"
               PROVE  got[s][c] = sent[Other(s)][c]
    BY DEF NoLossOnHalfClose
  <2>1. torn[s][c]
    BY DEF IInv, RelayInv
  <2> QED
    BY <2>1 DEF IInv, TornIsComplete
<1> QED
  BY Invariance, <1>1, PTL
=============================================================================
