--------------------------- MODULE OpenPathProofs ---------------------------
(***************************************************************************)
(* Proof, for buffers of any size and any amount of data, that what the    *)
(* user and the service receive is a prefix of what the other sent, and    *)
(* that nothing of the service's is lost when it ends the conversation;    *)
(* and, for frames of any length, that the control connection implements   *)
(* the channel of whole messages.                                          *)
(*                                                                         *)
(* Each direction is a flow through five places: the buffer the receiver   *)
(* reads, a copy of a relay, the buffer of the data connection, a copy of  *)
(* the other relay, and the buffer the sender fills.  A place may lose     *)
(* what it holds, but only for good: from then on nothing leaves it.       *)
(***************************************************************************)
EXTENDS OpenPath, SequenceTheorems, WellFoundedInduction, TLAPS

\* Units n+1, n+2, ... of what e sends.
Run(q, n, e) == \A k \in 1..Len(q) : q[k] = Payload(e, n + k)

\* r was received, place i holds qi, and s was sent.  The first c places have lost
\* nothing; what lies beyond a place that has will never be received.
Flow(e, r, q1, q2, q3, q4, q5, c, s) ==
    LET n1 == Len(r) + Len(q1)
        n2 == n1 + Len(q2)
        n3 == n2 + Len(q3)
        n4 == n3 + Len(q4)
        n5 == n4 + Len(q5)
    IN  /\ Run(r, 0, e) /\ Len(r) <= s
        /\ c >= 1 => Run(q1, Len(r), e) /\ n1 <= s
        /\ c >= 2 => Run(q2, n1, e) /\ n2 <= s
        /\ c >= 3 => Run(q3, n2, e) /\ n3 <= s
        /\ c >= 4 => Run(q4, n3, e) /\ n4 <= s
        /\ c >= 5 => Run(q5, n4, e) /\ n5 = s

\* Nothing that came to end e of t was lost, and a copy of relay r still copies.
Alive(t, e) == t[e].st # "closed" /\ ~t[e].rst /\ ~t[e].late
Copying(r, d) == r.st # "returned" /\ r.pc[d] # "done"

\* What the server has read from the user and not written to the data connection,
\* and what of the data connection's buffer is the service's: not the hello.
FromUser == IF peeked # <<>> THEN peeked ELSE relayS.x["ab"]
DsData == IF dh = "hello" /\ tcp["ds"].buf # <<>> THEN Tail(tcp["ds"].buf) ELSE tcp["ds"].buf

\* The places of the two flows that have lost nothing, from the receiver.
UpIntact(t, c, s) ==
    IF ~Alive(t, "service") THEN 0 ELSE IF ~Copying(c, "ba") THEN 1
    ELSE IF ~Alive(t, "dc") THEN 2 ELSE IF ~Copying(s, "ab") THEN 3
    ELSE IF ~Alive(t, "us") THEN 4 ELSE 5

DownIntact(t, c, s) ==
    IF ~Alive(t, "user") THEN 0 ELSE IF ~Copying(s, "ba") THEN 1
    ELSE IF ~Alive(t, "ds") THEN 2 ELSE IF ~Copying(c, "ab") THEN 3
    ELSE IF ~Alive(t, "lc") THEN 4 ELSE 5

UpFlow ==
    Flow("user", app["service"].rcvd,
         tcp["service"].buf, relayC.x["ba"], tcp["dc"].buf, FromUser, tcp["us"].buf,
         UpIntact(tcp, relayC, relayS), app["user"].sent)

DownFlow ==
    Flow("service", app["user"].rcvd,
         tcp["user"].buf, relayS.x["ba"], DsData, relayC.x["ab"], tcp["lc"].buf,
         DownIntact(tcp, relayC, relayS), app["service"].sent)

\* A call of Write has a message until it returns.
CallsInv == \A w \in Writers : wr[w].pc \in {"length", "body"} => wr[w].msg \in Msgs

\* Both ends of a connection come into being with it.
ConnInv ==
    /\ \A e \in Ends : tcp[e].st = "none" => tcp[e] = T!NoConn /\ tcp[Peer[e]].st = "none"
    /\ tcp["us"].st = "none" <=> sv = "idle"
    /\ tcp["ds"].st = "none" <=> dh = "none"
    /\ tcp["lc"].st = "none" <=> ch # "relay"

\* A copy holds a unit between its read and its write; a relay starts once.
CopyInv(r) ==
    /\ \A d \in {"ab", "ba"} : r.pc[d] = "write" <=> r.x[d] # <<>>
    /\ r.st = "off" => \A d \in {"ab", "ba"} : r.pc[d] = "read"

RelayInv ==
    /\ CopyInv(relayS) /\ CopyInv(relayC)
    /\ relayS.st = "off" <=> sv # "relay"
    /\ relayC.st = "off" <=> ch # "relay"

\* The peeked bytes are there until they are replayed, before the relay starts.
PeekInv ==
    /\ peeked # <<>> => kind = "https" /\ relayS.st = "off"
    /\ sv = "peek" => peeked = <<>>
    /\ sv = "idle" => peeked = <<>>
    /\ kind = "https" /\ sv \in {"open", "writing", "wait", "replay"} => peeked # <<>>
    /\ sv \in {"peek", "replay"} => kind = "https"

\* The hello is the first unit of the data connection and is taken before the server
\* relays; while it is being written nothing else is.
HelloInv ==
    /\ ch \in {"idle", "dial"} => dh = "none"
    /\ ch \in {"hello", "local", "relay"} => dh # "none"
    /\ ch = "hello" => tcp["ds"].buf = <<>> /\ (dh = "hello" \/ tcp["ds"].st = "closed")
    /\ dh = "hello" /\ Alive(tcp, "ds") /\ ch \in {"local", "relay"} => tcp["ds"].buf # <<>>
    /\ pend = "given" => dh = "done"
    /\ sv \in {"replay", "relay"} => pend = "given"
    /\ sv \in {"replay", "relay"} => dh = "done"

SentInv == app["user"].sent <= MaxUp /\ app["service"].sent <= MaxDown

\* The inductive invariant.
IInv ==
    /\ TypeOK
    /\ SentInv
    /\ CallsInv
    /\ ConnInv
    /\ RelayInv
    /\ PeekInv
    /\ HelloInv
    /\ UpFlow
    /\ DownFlow

-----------------------------------------------------------------------------
(* Flows.                                                                  *)

LEMMA RunAppend ==
    ASSUME NEW q \in Seq(Data), NEW n \in Nat, NEW e, NEW x \in Data, Run(q, n, e),
           x = Payload(e, n + Len(q) + 1)
    PROVE  Run(Append(q, x), n, e) /\ Len(Append(q, x)) = Len(q) + 1
<1>1. /\ Len(Append(q, x)) = Len(q) + 1 /\ Len(q) \in Nat
      /\ \A k \in 1..Len(q) : Append(q, x)[k] = q[k]
      /\ Append(q, x)[Len(q) + 1] = x
  OBVIOUS
<1>2. ASSUME NEW k \in 1..Len(Append(q, x)) PROVE Append(q, x)[k] = Payload(e, n + k)
  <2>1. CASE k = Len(q) + 1
    <3>1. n + Len(q) + 1 = n + k
      BY <1>1, <2>1
    <3> QED  BY <1>1, <2>1, <3>1
  <2>2. CASE k \in 1..Len(q)
    BY <1>1, <2>2 DEF Run
  <2> QED  BY <1>1, <2>1, <2>2
<1> QED  BY <1>1, <1>2 DEF Run

LEMMA RunTail ==
    ASSUME NEW q \in Seq(Data), q # <<>>, NEW n \in Nat, NEW e, Run(q, n, e)
    PROVE  Head(q) = Payload(e, n + 1) /\ Run(Tail(q), n + 1, e) /\ Len(Tail(q)) = Len(q) - 1
<1>1. /\ Len(Tail(q)) = Len(q) - 1 /\ Len(q) \in Nat \ {0}
      /\ \A k \in 1..Len(Tail(q)) : Tail(q)[k] = q[k + 1] /\ k + 1 \in 1..Len(q)
      /\ Head(q) = q[1]
  OBVIOUS
<1>2. ASSUME NEW k \in 1..Len(Tail(q)) PROVE Tail(q)[k] = Payload(e, n + 1 + k)
  <2>1. n + (k + 1) = n + 1 + k
    BY <1>1
  <2>2. q[k + 1] = Payload(e, n + (k + 1))
    BY <1>1 DEF Run
  <2> QED  BY <1>1, <2>1, <2>2
<1> QED  BY <1>1, <1>2 DEF Run

\* The types of a flow.
FlowArgs(r, q1, q2, q3, q4, q5, c, s) ==
    /\ r \in Seq(Data)
    /\ q1 \in Seq(Data) /\ q2 \in Seq(Data) /\ q3 \in Seq(Data) /\ q4 \in Seq(Data) /\ q5 \in Seq(Data)
    /\ c \in 0..5 /\ s \in Nat

\* A place may lose what it holds, and then so may those beyond it.
LEMMA FlowCut ==
    ASSUME NEW e, NEW r, NEW s, NEW c, NEW b,
           NEW q1, NEW q2, NEW q3, NEW q4, NEW q5, NEW t1, NEW t2, NEW t3, NEW t4, NEW t5,
           FlowArgs(r, q1, q2, q3, q4, q5, c, s), FlowArgs(r, t1, t2, t3, t4, t5, b, s), b <= c,
           b >= 1 => t1 = q1, b >= 2 => t2 = q2, b >= 3 => t3 = q3,
           b >= 4 => t4 = q4, b >= 5 => t5 = q5,
           Flow(e, r, q1, q2, q3, q4, q5, c, s)
    PROVE  Flow(e, r, t1, t2, t3, t4, t5, b, s)
<1>1. CASE b = 0
  BY <1>1 DEF Flow, FlowArgs
<1>2. CASE b = 1
  BY <1>2 DEF Flow, FlowArgs
<1>3. CASE b = 2
  BY <1>3 DEF Flow, FlowArgs
<1>4. CASE b = 3
  BY <1>4 DEF Flow, FlowArgs
<1>5. CASE b = 4
  BY <1>5 DEF Flow, FlowArgs
<1>6. CASE b = 5
  BY <1>6 DEF Flow, FlowArgs
<1> QED  BY <1>1, <1>2, <1>3, <1>4, <1>5, <1>6 DEF FlowArgs

\* A unit is received.
LEMMA FlowReceive ==
    ASSUME NEW e, NEW r, NEW s, NEW c, NEW q1, NEW q2, NEW q3, NEW q4, NEW q5,
           FlowArgs(r, q1, q2, q3, q4, q5, c, s), c # 0, q1 # <<>>,
           Flow(e, r, q1, q2, q3, q4, q5, c, s)
    PROVE  Flow(e, Append(r, Head(q1)), Tail(q1), q2, q3, q4, q5, c, s)
<1>1. /\ r \in Seq(Data) /\ s \in Nat /\ c \in 0..5
      /\ q1 \in Seq(Data) /\ q2 \in Seq(Data) /\ q3 \in Seq(Data)
      /\ q4 \in Seq(Data) /\ q5 \in Seq(Data)
      /\ c >= 1
  BY DEF FlowArgs
<1>2. /\ Head(q1) = Payload(e, Len(r) + 1) /\ Run(Tail(q1), Len(r) + 1, e)
      /\ Len(Tail(q1)) = Len(q1) - 1 /\ Head(q1) \in Data /\ Len(q1) \in Nat \ {0} /\ Len(r) \in Nat
  BY <1>1, RunTail DEF Flow
<1>3. 0 + Len(r) + 1 = Len(r) + 1
  BY <1>1, <1>2
<1>4. Run(Append(r, Head(q1)), 0, e) /\ Len(Append(r, Head(q1))) = Len(r) + 1
  BY <1>1, <1>2, <1>3, RunAppend DEF Flow
<1>5. Len(r) + 1 + Len(Tail(q1)) = Len(r) + Len(q1) /\ Len(r) + 1 <= Len(r) + Len(q1)
  BY <1>1, <1>2
<1>6. Len(r) + 1 <= s
  BY <1>1, <1>2 DEF Flow
<1> QED  BY <1>1, <1>2, <1>4, <1>5, <1>6 DEF Flow

\* A unit moves from place 2 to place 1.
LEMMA FlowMove1 ==
    ASSUME NEW e, NEW r, NEW s, NEW c, NEW q1, NEW q2, NEW q3, NEW q4, NEW q5,
           FlowArgs(r, q1, q2, q3, q4, q5, c, s), c # 1, q2 # <<>>,
           Flow(e, r, q1, q2, q3, q4, q5, c, s)
    PROVE  Flow(e, r, Append(q1, Head(q2)), Tail(q2), q3, q4, q5, c, s)
<1> DEFINE n == Len(r)
<1>1. /\ r \in Seq(Data) /\ s \in Nat /\ c \in 0..5
      /\ q1 \in Seq(Data) /\ q2 \in Seq(Data) /\ q3 \in Seq(Data)
      /\ q4 \in Seq(Data) /\ q5 \in Seq(Data)
  BY DEF FlowArgs
<1>2. /\ Len(r) \in Nat /\ Len(q1) \in Nat /\ Len(q2) \in Nat /\ Len(q3) \in Nat
      /\ Len(q4) \in Nat /\ Len(q5) \in Nat /\ n \in Nat /\ n + Len(q1) \in Nat
  BY <1>1
<1>3. CASE c < 1
  BY <1>1, <1>3, <1>2 DEF Flow
<1>4. CASE c > 1
  <2>1. Run(q1, n, e) /\ Run(q2, n + Len(q1), e)
    BY <1>1, <1>4 DEF Flow
  <2>2. /\ Head(q2) = Payload(e, n + Len(q1) + 1) /\ Run(Tail(q2), n + Len(q1) + 1, e)
        /\ Len(Tail(q2)) = Len(q2) - 1 /\ Head(q2) \in Data /\ Len(q2) \in Nat \ {0}
    BY <1>1, <1>2, <2>1, RunTail
  <2>3. Run(Append(q1, Head(q2)), n, e) /\ Len(Append(q1, Head(q2))) = Len(q1) + 1
    BY <1>1, <1>2, <2>1, <2>2, RunAppend
  <2>4. /\ n + (Len(q1) + 1) = n + Len(q1) + 1
        /\ n + (Len(q1) + 1) + (Len(q2) - 1) = n + Len(q1) + Len(q2)
        /\ n + (Len(q1) + 1) <= n + Len(q1) + Len(q2)
    BY <1>1, <1>2, <2>2
  <2>5. n + (Len(q1) + 1) <= s
    BY <1>1, <1>2, <1>4, <2>2 DEF Flow
  <2> QED  BY <1>1, <1>2, <1>4, <2>2, <2>3, <2>4, <2>5 DEF Flow
<1> QED  BY <1>1, <1>3, <1>4

\* A unit moves from place 3 to place 2.
LEMMA FlowMove2 ==
    ASSUME NEW e, NEW r, NEW s, NEW c, NEW q1, NEW q2, NEW q3, NEW q4, NEW q5,
           FlowArgs(r, q1, q2, q3, q4, q5, c, s), c # 2, q3 # <<>>,
           Flow(e, r, q1, q2, q3, q4, q5, c, s)
    PROVE  Flow(e, r, q1, Append(q2, Head(q3)), Tail(q3), q4, q5, c, s)
<1> DEFINE n == Len(r) + Len(q1)
<1>1. /\ r \in Seq(Data) /\ s \in Nat /\ c \in 0..5
      /\ q1 \in Seq(Data) /\ q2 \in Seq(Data) /\ q3 \in Seq(Data)
      /\ q4 \in Seq(Data) /\ q5 \in Seq(Data)
  BY DEF FlowArgs
<1>2. /\ Len(r) \in Nat /\ Len(q1) \in Nat /\ Len(q2) \in Nat /\ Len(q3) \in Nat
      /\ Len(q4) \in Nat /\ Len(q5) \in Nat /\ n \in Nat /\ n + Len(q2) \in Nat
  BY <1>1
<1>3. CASE c < 2
  BY <1>1, <1>3, <1>2 DEF Flow
<1>4. CASE c > 2
  <2>1. Run(q2, n, e) /\ Run(q3, n + Len(q2), e)
    BY <1>1, <1>4 DEF Flow
  <2>2. /\ Head(q3) = Payload(e, n + Len(q2) + 1) /\ Run(Tail(q3), n + Len(q2) + 1, e)
        /\ Len(Tail(q3)) = Len(q3) - 1 /\ Head(q3) \in Data /\ Len(q3) \in Nat \ {0}
    BY <1>1, <1>2, <2>1, RunTail
  <2>3. Run(Append(q2, Head(q3)), n, e) /\ Len(Append(q2, Head(q3))) = Len(q2) + 1
    BY <1>1, <1>2, <2>1, <2>2, RunAppend
  <2>4. /\ n + (Len(q2) + 1) = n + Len(q2) + 1
        /\ n + (Len(q2) + 1) + (Len(q3) - 1) = n + Len(q2) + Len(q3)
        /\ n + (Len(q2) + 1) <= n + Len(q2) + Len(q3)
    BY <1>1, <1>2, <2>2
  <2>5. n + (Len(q2) + 1) <= s
    BY <1>1, <1>2, <1>4, <2>2 DEF Flow
  <2> QED  BY <1>1, <1>2, <1>4, <2>2, <2>3, <2>4, <2>5 DEF Flow
<1> QED  BY <1>1, <1>3, <1>4

\* A unit moves from place 4 to place 3.
LEMMA FlowMove3 ==
    ASSUME NEW e, NEW r, NEW s, NEW c, NEW q1, NEW q2, NEW q3, NEW q4, NEW q5,
           FlowArgs(r, q1, q2, q3, q4, q5, c, s), c # 3, q4 # <<>>,
           Flow(e, r, q1, q2, q3, q4, q5, c, s)
    PROVE  Flow(e, r, q1, q2, Append(q3, Head(q4)), Tail(q4), q5, c, s)
<1> DEFINE n == Len(r) + Len(q1) + Len(q2)
<1>1. /\ r \in Seq(Data) /\ s \in Nat /\ c \in 0..5
      /\ q1 \in Seq(Data) /\ q2 \in Seq(Data) /\ q3 \in Seq(Data)
      /\ q4 \in Seq(Data) /\ q5 \in Seq(Data)
  BY DEF FlowArgs
<1>2. /\ Len(r) \in Nat /\ Len(q1) \in Nat /\ Len(q2) \in Nat /\ Len(q3) \in Nat
      /\ Len(q4) \in Nat /\ Len(q5) \in Nat /\ n \in Nat /\ n + Len(q3) \in Nat
  BY <1>1
<1>3. CASE c < 3
  BY <1>1, <1>3, <1>2 DEF Flow
<1>4. CASE c > 3
  <2>1. Run(q3, n, e) /\ Run(q4, n + Len(q3), e)
    BY <1>1, <1>4 DEF Flow
  <2>2. /\ Head(q4) = Payload(e, n + Len(q3) + 1) /\ Run(Tail(q4), n + Len(q3) + 1, e)
        /\ Len(Tail(q4)) = Len(q4) - 1 /\ Head(q4) \in Data /\ Len(q4) \in Nat \ {0}
    BY <1>1, <1>2, <2>1, RunTail
  <2>3. Run(Append(q3, Head(q4)), n, e) /\ Len(Append(q3, Head(q4))) = Len(q3) + 1
    BY <1>1, <1>2, <2>1, <2>2, RunAppend
  <2>4. /\ n + (Len(q3) + 1) = n + Len(q3) + 1
        /\ n + (Len(q3) + 1) + (Len(q4) - 1) = n + Len(q3) + Len(q4)
        /\ n + (Len(q3) + 1) <= n + Len(q3) + Len(q4)
    BY <1>1, <1>2, <2>2
  <2>5. n + (Len(q3) + 1) <= s
    BY <1>1, <1>2, <1>4, <2>2 DEF Flow
  <2> QED  BY <1>1, <1>2, <1>4, <2>2, <2>3, <2>4, <2>5 DEF Flow
<1> QED  BY <1>1, <1>3, <1>4

\* A unit moves from place 5 to place 4.
LEMMA FlowMove4 ==
    ASSUME NEW e, NEW r, NEW s, NEW c, NEW q1, NEW q2, NEW q3, NEW q4, NEW q5,
           FlowArgs(r, q1, q2, q3, q4, q5, c, s), c # 4, q5 # <<>>,
           Flow(e, r, q1, q2, q3, q4, q5, c, s)
    PROVE  Flow(e, r, q1, q2, q3, Append(q4, Head(q5)), Tail(q5), c, s)
<1> DEFINE n == Len(r) + Len(q1) + Len(q2) + Len(q3)
<1>1. /\ r \in Seq(Data) /\ s \in Nat /\ c \in 0..5
      /\ q1 \in Seq(Data) /\ q2 \in Seq(Data) /\ q3 \in Seq(Data)
      /\ q4 \in Seq(Data) /\ q5 \in Seq(Data)
  BY DEF FlowArgs
<1>2. /\ Len(r) \in Nat /\ Len(q1) \in Nat /\ Len(q2) \in Nat /\ Len(q3) \in Nat
      /\ Len(q4) \in Nat /\ Len(q5) \in Nat /\ n \in Nat /\ n + Len(q4) \in Nat
  BY <1>1
<1>3. CASE c < 4
  BY <1>1, <1>3, <1>2 DEF Flow
<1>4. CASE c > 4
  <2>1. Run(q4, n, e) /\ Run(q5, n + Len(q4), e)
    BY <1>1, <1>4 DEF Flow
  <2>2. /\ Head(q5) = Payload(e, n + Len(q4) + 1) /\ Run(Tail(q5), n + Len(q4) + 1, e)
        /\ Len(Tail(q5)) = Len(q5) - 1 /\ Head(q5) \in Data /\ Len(q5) \in Nat \ {0}
    BY <1>1, <1>2, <2>1, RunTail
  <2>3. Run(Append(q4, Head(q5)), n, e) /\ Len(Append(q4, Head(q5))) = Len(q4) + 1
    BY <1>1, <1>2, <2>1, <2>2, RunAppend
  <2>4. /\ n + (Len(q4) + 1) = n + Len(q4) + 1
        /\ n + (Len(q4) + 1) + (Len(q5) - 1) = n + Len(q4) + Len(q5)
        /\ n + (Len(q4) + 1) <= n + Len(q4) + Len(q5)
    BY <1>1, <1>2, <2>2
  <2>5. n + (Len(q4) + 1) <= s
    BY <1>1, <1>2, <1>4, <2>2 DEF Flow
  <2> QED  BY <1>1, <1>2, <1>4, <2>2, <2>3, <2>4, <2>5 DEF Flow
<1> QED  BY <1>1, <1>3, <1>4

\* A unit is sent, into the last place or, when some place has lost something, anywhere.
LEMMA FlowSend ==
    ASSUME NEW e, NEW r, NEW s, NEW c, NEW q1, NEW q2, NEW q3, NEW q4, NEW q5, NEW t5,
           FlowArgs(r, q1, q2, q3, q4, q5, c, s), Payload(e, s + 1) \in Data,
           c = 5 => t5 = Append(q5, Payload(e, s + 1)),
           Flow(e, r, q1, q2, q3, q4, q5, c, s)
    PROVE  Flow(e, r, q1, q2, q3, q4, t5, c, s + 1)
<1> DEFINE n == Len(r) + Len(q1) + Len(q2) + Len(q3) + Len(q4)
<1>1. /\ r \in Seq(Data) /\ s \in Nat /\ c \in 0..5
      /\ q1 \in Seq(Data) /\ q2 \in Seq(Data) /\ q3 \in Seq(Data)
      /\ q4 \in Seq(Data) /\ q5 \in Seq(Data)
  BY DEF FlowArgs
<1>2. /\ Len(r) \in Nat /\ Len(q1) \in Nat /\ Len(q2) \in Nat /\ Len(q3) \in Nat
      /\ Len(q4) \in Nat /\ Len(q5) \in Nat /\ n \in Nat
  BY <1>1
<1>3. c >= 5 => Run(t5, n, e) /\ n + Len(t5) = s + 1
  <2> SUFFICES ASSUME c >= 5 PROVE Run(t5, n, e) /\ n + Len(t5) = s + 1
    OBVIOUS
  <2>1. c = 5
    BY <1>1
  <2>2. Run(q5, n, e) /\ n + Len(q5) = s /\ t5 = Append(q5, Payload(e, s + 1))
    BY <2>1 DEF Flow
  <2> HIDE DEF n
  <2>3. n + Len(q5) + 1 = s + 1 /\ n + (Len(q5) + 1) = s + 1
    BY <1>1, <1>2, <2>2
  <2>4. Payload(e, s + 1) = Payload(e, n + Len(q5) + 1)
    BY <2>3
  <2>5. Run(Append(q5, Payload(e, s + 1)), n, e) /\ Len(Append(q5, Payload(e, s + 1))) = Len(q5) + 1
    BY <1>1, <1>2, <2>2, <2>4, RunAppend
  <2> QED  BY <2>2, <2>3, <2>5
<1> QED  BY <1>1, <1>2, <1>3 DEF Flow

\* The same, and places may lose what they hold in the same step.
LEMMA FlowMoved1 ==
    ASSUME NEW e, NEW r, NEW s, NEW c, NEW b,
           NEW q1, NEW q2, NEW q3, NEW q4, NEW q5, NEW t1, NEW t2, NEW t3, NEW t4, NEW t5,
           FlowArgs(r, q1, q2, q3, q4, q5, c, s), FlowArgs(r, t1, t2, t3, t4, t5, b, s), b <= c,
           c # 1, q2 # <<>>,
           b >= 1 => t1 = Append(q1, Head(q2)), b >= 2 => t2 = Tail(q2), b >= 3 => t3 = q3,
           b >= 4 => t4 = q4, b >= 5 => t5 = q5,
           Flow(e, r, q1, q2, q3, q4, q5, c, s)
    PROVE  Flow(e, r, t1, t2, t3, t4, t5, b, s)
<1>1. Flow(e, r, Append(q1, Head(q2)), Tail(q2), q3, q4, q5, c, s)
  BY FlowMove1
<1>2. FlowArgs(r, Append(q1, Head(q2)), Tail(q2), q3, q4, q5, c, s)
  BY DEF FlowArgs
<1> QED  BY <1>1, <1>2, FlowCut

LEMMA FlowMoved2 ==
    ASSUME NEW e, NEW r, NEW s, NEW c, NEW b,
           NEW q1, NEW q2, NEW q3, NEW q4, NEW q5, NEW t1, NEW t2, NEW t3, NEW t4, NEW t5,
           FlowArgs(r, q1, q2, q3, q4, q5, c, s), FlowArgs(r, t1, t2, t3, t4, t5, b, s), b <= c,
           c # 2, q3 # <<>>,
           b >= 1 => t1 = q1, b >= 2 => t2 = Append(q2, Head(q3)), b >= 3 => t3 = Tail(q3),
           b >= 4 => t4 = q4, b >= 5 => t5 = q5,
           Flow(e, r, q1, q2, q3, q4, q5, c, s)
    PROVE  Flow(e, r, t1, t2, t3, t4, t5, b, s)
<1>1. Flow(e, r, q1, Append(q2, Head(q3)), Tail(q3), q4, q5, c, s)
  BY FlowMove2
<1>2. FlowArgs(r, q1, Append(q2, Head(q3)), Tail(q3), q4, q5, c, s)
  BY DEF FlowArgs
<1> QED  BY <1>1, <1>2, FlowCut

LEMMA FlowMoved3 ==
    ASSUME NEW e, NEW r, NEW s, NEW c, NEW b,
           NEW q1, NEW q2, NEW q3, NEW q4, NEW q5, NEW t1, NEW t2, NEW t3, NEW t4, NEW t5,
           FlowArgs(r, q1, q2, q3, q4, q5, c, s), FlowArgs(r, t1, t2, t3, t4, t5, b, s), b <= c,
           c # 3, q4 # <<>>,
           b >= 1 => t1 = q1, b >= 2 => t2 = q2, b >= 3 => t3 = Append(q3, Head(q4)),
           b >= 4 => t4 = Tail(q4), b >= 5 => t5 = q5,
           Flow(e, r, q1, q2, q3, q4, q5, c, s)
    PROVE  Flow(e, r, t1, t2, t3, t4, t5, b, s)
<1>1. Flow(e, r, q1, q2, Append(q3, Head(q4)), Tail(q4), q5, c, s)
  BY FlowMove3
<1>2. FlowArgs(r, q1, q2, Append(q3, Head(q4)), Tail(q4), q5, c, s)
  BY DEF FlowArgs
<1> QED  BY <1>1, <1>2, FlowCut

LEMMA FlowMoved4 ==
    ASSUME NEW e, NEW r, NEW s, NEW c, NEW b,
           NEW q1, NEW q2, NEW q3, NEW q4, NEW q5, NEW t1, NEW t2, NEW t3, NEW t4, NEW t5,
           FlowArgs(r, q1, q2, q3, q4, q5, c, s), FlowArgs(r, t1, t2, t3, t4, t5, b, s), b <= c,
           c # 4, q5 # <<>>,
           b >= 1 => t1 = q1, b >= 2 => t2 = q2, b >= 3 => t3 = q3,
           b >= 4 => t4 = Append(q4, Head(q5)), b >= 5 => t5 = Tail(q5),
           Flow(e, r, q1, q2, q3, q4, q5, c, s)
    PROVE  Flow(e, r, t1, t2, t3, t4, t5, b, s)
<1>1. Flow(e, r, q1, q2, q3, Append(q4, Head(q5)), Tail(q5), c, s)
  BY FlowMove4
<1>2. FlowArgs(r, q1, q2, q3, Append(q4, Head(q5)), Tail(q5), c, s)
  BY DEF FlowArgs
<1> QED  BY <1>1, <1>2, FlowCut

LEMMA FlowReceived ==
    ASSUME NEW e, NEW r, NEW s, NEW c, NEW b,
           NEW q1, NEW q2, NEW q3, NEW q4, NEW q5, NEW t1, NEW t2, NEW t3, NEW t4, NEW t5,
           FlowArgs(r, q1, q2, q3, q4, q5, c, s), c # 0, q1 # <<>>,
           FlowArgs(Append(r, Head(q1)), t1, t2, t3, t4, t5, b, s), b <= c,
           b >= 1 => t1 = Tail(q1), b >= 2 => t2 = q2, b >= 3 => t3 = q3,
           b >= 4 => t4 = q4, b >= 5 => t5 = q5,
           Flow(e, r, q1, q2, q3, q4, q5, c, s)
    PROVE  Flow(e, Append(r, Head(q1)), t1, t2, t3, t4, t5, b, s)
<1>1. Flow(e, Append(r, Head(q1)), Tail(q1), q2, q3, q4, q5, c, s)
  BY FlowReceive
<1>2. FlowArgs(Append(r, Head(q1)), Tail(q1), q2, q3, q4, q5, c, s)
  BY DEF FlowArgs
<1> QED  BY <1>1, <1>2, FlowCut

LEMMA FlowSent ==
    ASSUME NEW e, NEW r, NEW s, NEW c, NEW b,
           NEW q1, NEW q2, NEW q3, NEW q4, NEW q5, NEW t1, NEW t2, NEW t3, NEW t4, NEW t5,
           FlowArgs(r, q1, q2, q3, q4, q5, c, s), FlowArgs(r, t1, t2, t3, t4, t5, b, s + 1), b <= c,
           Payload(e, s + 1) \in Data,
           b >= 1 => t1 = q1, b >= 2 => t2 = q2, b >= 3 => t3 = q3,
           b >= 4 => t4 = q4, b >= 5 => t5 = Append(q5, Payload(e, s + 1)),
           Flow(e, r, q1, q2, q3, q4, q5, c, s)
    PROVE  Flow(e, r, t1, t2, t3, t4, t5, b, s + 1)
<1>1. Flow(e, r, q1, q2, q3, q4, Append(q5, Payload(e, s + 1)), c, s + 1)
  BY FlowSend
<1>2. FlowArgs(r, q1, q2, q3, q4, Append(q5, Payload(e, s + 1)), c, s + 1)
  BY DEF FlowArgs
<1> QED  BY <1>1, <1>2, FlowCut

-----------------------------------------------------------------------------
(* The ends of the connections.                                            *)

\* States of the ends in which connections have two ends.
Conns(t) ==
    /\ t \in [Ends -> T!EndType]
    /\ \A e \in Ends : t[e].st = "none" => t[e] = T!NoConn /\ t[Peer[e]].st = "none"

\* From t to u ends may lose what they hold and no more be read, and nothing else.
Decays(t, u) ==
    /\ u \in [Ends -> T!EndType]
    /\ \A x \in Ends :
           /\ Alive(u, x) => Alive(t, x) /\ u[x].buf = t[x].buf
           /\ u[x].buf = t[x].buf \/ u[x].buf = <<>>
           /\ u[x].st = "none" <=> t[x].st = "none"
           /\ u[x].st = "none" => u[x] = t[x]
           /\ t[x].st = "closed" => u[x].st = "closed"

LEMMA PeerFacts ==
    ASSUME NEW e \in Ends
    PROVE  Peer[e] \in Ends /\ Peer[e] # e /\ Peer[Peer[e]] = e
BY DEF Ends, Peer

LEMMA EmptyBuffer == <<>> \in Seq(Data)
OBVIOUS

LEMMA DecaysSame ==
    ASSUME NEW t, Conns(t)
    PROVE  Decays(t, t)
BY DEF Conns, Decays

LEMMA DecaysAgain ==
    ASSUME NEW t, NEW u, NEW v, Decays(t, u), Decays(u, v)
    PROVE  Decays(t, v)
BY DEF Decays

LEMMA DecaysConns ==
    ASSUME NEW t, NEW u, Conns(t), Decays(t, u)
    PROVE  Conns(u)
BY PeerFacts DEF Conns, Decays

LEMMA ShutWriteDecays ==
    ASSUME NEW t, Conns(t), NEW e \in Ends
    PROVE  Decays(t, T!ShutWrite(t, e))
<1> DEFINE p == Peer[e]
           u == T!ShutWrite(t, e)
<1>1. CASE t[e].st = "open"
  <2>1. p \in Ends /\ p # e
    BY PeerFacts
  <2>2. u = [t EXCEPT ![e].st = "half", ![p].eof = @ \/ T!Live(t, p)]
    BY <1>1 DEF T!ShutWrite
  <2>3. /\ u[e] = [t[e] EXCEPT !.st = "half"]
        /\ u[p] = [t[p] EXCEPT !.eof = @ \/ T!Live(t, p)]
        /\ \A x \in Ends \ {e, p} : u[x] = t[x]
        /\ u = [x \in Ends |-> u[x]]
    BY <2>1, <2>2 DEF Conns
  <2> HIDE DEF u, p
  <2>4. t[e] \in T!EndType /\ t[p] \in T!EndType /\ t[p].st # "none"
    BY <1>1, <2>1, PeerFacts DEF Conns, p
  <2>5. ASSUME NEW x \in Ends
        PROVE  /\ u[x] \in T!EndType
               /\ Alive(u, x) => Alive(t, x) /\ u[x].buf = t[x].buf
               /\ u[x].buf = t[x].buf
               /\ u[x].st = "none" <=> t[x].st = "none"
               /\ u[x].st = "none" => u[x] = t[x]
               /\ t[x].st = "closed" => u[x].st = "closed"
    <3>1. CASE x = e
      BY <3>1, <1>1, <2>3, <2>4 DEF Alive, T!EndType
    <3>2. CASE x = p
      BY <3>2, <2>3, <2>4 DEF Alive, T!EndType
    <3>3. CASE x \notin {e, p}
      BY <3>3, <2>3 DEF Alive, Conns
    <3> QED  BY <3>1, <3>2, <3>3
  <2>6. u \in [Ends -> T!EndType]
    BY <2>3, <2>5
  <2>7. Decays(t, u)
    BY <2>5, <2>6 DEF Decays
  <2> QED  BY <2>7 DEF u
<1>2. CASE t[e].st # "open"
  BY <1>2, DecaysSame DEF T!ShutWrite
<1> QED  BY <1>1, <1>2

LEMMA ExpiredDecays ==
    ASSUME NEW t, Conns(t), NEW e \in Ends
    PROVE  Decays(t, T!Expired(t, e))
<1> DEFINE u == T!Expired(t, e)
<1>1. CASE T!Live(t, e)
  <2>1. u = [t EXCEPT ![e].late = TRUE]
    BY <1>1 DEF T!Expired
  <2>2. /\ u[e] = [t[e] EXCEPT !.late = TRUE]
        /\ \A x \in Ends \ {e} : u[x] = t[x]
        /\ u = [x \in Ends |-> u[x]]
    BY <2>1 DEF Conns
  <2> HIDE DEF u
  <2>3. t[e] \in T!EndType
    BY DEF Conns
  <2>4. u[e] \in T!EndType /\ ~Alive(u, e) /\ u[e].buf = t[e].buf /\ u[e].st = t[e].st
    BY <2>2, <2>3 DEF Alive, T!EndType
  <2>5. u \in [Ends -> T!EndType]
    BY <2>2, <2>4 DEF Conns
  <2>6. Decays(t, u)
    BY <1>1, <2>2, <2>4, <2>5 DEF Decays, Alive, T!Live
  <2> QED  BY <2>6 DEF u
<1>2. CASE ~T!Live(t, e)
  BY <1>2, DecaysSame DEF T!Expired
<1> QED  BY <1>1, <1>2

LEMMA ResetDecays ==
    ASSUME NEW t, Conns(t), NEW e \in Ends
    PROVE  Decays(t, T!Reset(t, e))
<1> DEFINE u == T!Reset(t, e)
<1>1. ASSUME NEW x \in Ends
      PROVE  /\ u[x] \in T!EndType
             /\ Alive(u, x) => Alive(t, x) /\ u[x].buf = t[x].buf
             /\ u[x].buf = t[x].buf \/ u[x].buf = <<>>
             /\ u[x].st = t[x].st
             /\ u[x].st = "none" => u[x] = t[x]
  <2>1. t[x] \in T!EndType
    BY DEF Conns
  <2>2. CASE x \in {e, Peer[e]} /\ T!Live(t, x)
    <3>1. u[x] = [t[x] EXCEPT !.rst = TRUE, !.buf = <<>>]
      BY <2>2 DEF T!Reset
    <3> HIDE DEF u
    <3> QED  BY <2>1, <2>2, <3>1, EmptyBuffer DEF Alive, T!EndType, T!Live
  <2>3. CASE ~(x \in {e, Peer[e]} /\ T!Live(t, x))
    <3>1. u[x] = t[x]
      BY <2>3 DEF T!Reset
    <3> HIDE DEF u
    <3> QED  BY <2>1, <3>1 DEF Alive
  <2> QED  BY <2>2, <2>3
<1>2. u = [x \in Ends |-> u[x]]
  BY DEF T!Reset
<1> HIDE DEF u
<1>3. u \in [Ends -> T!EndType]
  BY <1>1, <1>2
<1>4. Decays(t, u)
  BY <1>1, <1>3 DEF Decays
<1> QED  BY <1>4 DEF u

LEMMA ClosedDecays ==
    ASSUME NEW t, Conns(t), NEW e \in Ends
    PROVE  Decays(t, T!Closed(t, e)) /\ T!Closed(t, e)[e].st \in {"none", "closed"}
<1> DEFINE p == Peer[e]
           u == T!Closed(t, e)
<1>1. CASE T!Live(t, e)
  <2> DEFINE lost == t[e].buf # <<>>
             there == T!Live(t, p)
  <2>1. p \in Ends /\ p # e
    BY PeerFacts
  <2>2. u = [t EXCEPT ![e] = [T!NoConn EXCEPT !.st = "closed"],
                      ![p].eof = @ \/ there,
                      ![p].rst = @ \/ (there /\ lost),
                      ![p].buf = IF lost THEN <<>> ELSE @]
    BY <1>1 DEF T!Closed
  <2>3. t[e] \in T!EndType /\ t[p] \in T!EndType /\ t[p].st # "none" /\ t \in [Ends -> T!EndType]
    BY <1>1, <2>1, PeerFacts DEF Conns, p, T!Live
  <2>4. /\ u[e] = [T!NoConn EXCEPT !.st = "closed"]
        /\ u[p] = [t[p] EXCEPT !.eof = @ \/ there, !.rst = @ \/ (there /\ lost),
                               !.buf = IF lost THEN <<>> ELSE @]
        /\ \A x \in Ends \ {e, p} : u[x] = t[x]
        /\ u = [x \in Ends |-> u[x]]
    BY <2>1, <2>2, <2>3
  <2> HIDE DEF u, p
  <2>5. u[e].st = "closed" /\ u[e].buf = <<>> /\ u[e] \in T!EndType
    BY <2>4, EmptyBuffer DEF T!NoConn, T!EndType
  <2>6. /\ u[p] \in T!EndType
        /\ Alive(u, p) => Alive(t, p) /\ u[p].buf = t[p].buf
        /\ u[p].buf = t[p].buf \/ u[p].buf = <<>>
        /\ u[p].st = t[p].st
    BY <2>3, <2>4, EmptyBuffer DEF Alive, T!EndType, T!Live
  <2>7. ASSUME NEW x \in Ends
        PROVE  /\ u[x] \in T!EndType
               /\ Alive(u, x) => Alive(t, x) /\ u[x].buf = t[x].buf
               /\ u[x].buf = t[x].buf \/ u[x].buf = <<>>
               /\ u[x].st = "none" <=> t[x].st = "none"
               /\ u[x].st = "none" => u[x] = t[x]
               /\ t[x].st = "closed" => u[x].st = "closed"
    <3>1. CASE x = e
      BY <3>1, <2>5, <1>1 DEF Alive, T!Live
    <3>2. CASE x = p
      BY <3>2, <2>6, <2>3
    <3>3. CASE x \notin {e, p}
      BY <3>3, <2>4 DEF Alive, Conns
    <3> QED  BY <3>1, <3>2, <3>3
  <2>8. u \in [Ends -> T!EndType]
    BY <2>4, <2>7
  <2>9. Decays(t, u)
    BY <2>7, <2>8 DEF Decays
  <2> QED  BY <2>5, <2>9 DEF u
<1>2. CASE ~T!Live(t, e)
  BY <1>2, DecaysSame DEF T!Closed, T!Live, Conns, T!EndType
<1> QED  BY <1>1, <1>2

\* A unit is read from e.
Reads(t, u, e) ==
    /\ u \in [Ends -> T!EndType]
    /\ u[e] = [t[e] EXCEPT !.buf = Tail(@)]
    /\ u[e].buf = Tail(t[e].buf)
    /\ \A x \in Ends : x # e => u[x] = t[x]
    /\ \A x \in Ends : u[x].st = t[x].st /\ (Alive(u, x) <=> Alive(t, x))

LEMMA TakenReads ==
    ASSUME NEW t, Conns(t), NEW e \in Ends, T!HasData(t, e)
    PROVE  /\ Reads(t, T!Taken(t, e), e) /\ Conns(T!Taken(t, e))
           /\ t[e].buf # <<>> /\ t[e].buf \in Seq(Data) /\ Head(t[e].buf) \in Data /\ Alive(t, e)
           /\ t[e].st # "none" /\ Len(Tail(t[e].buf)) <= Len(t[e].buf)
<1> DEFINE u == T!Taken(t, e)
<1>1. /\ t[e].buf # <<>> /\ t[e].buf \in Seq(Data) /\ Alive(t, e) /\ t[e] \in T!EndType
      /\ t[e].st # "none"
  BY DEF Conns, T!HasData, T!EndType, T!Live, Alive
<1>2. Head(t[e].buf) \in Data /\ Tail(t[e].buf) \in Seq(Data) /\ Len(Tail(t[e].buf)) <= Len(t[e].buf)
  BY <1>1
<1>3. /\ u \in [Ends -> T!EndType]
      /\ u[e] = [t[e] EXCEPT !.buf = Tail(@)]
      /\ \A x \in Ends : x # e => u[x] = t[x]
  BY <1>1, <1>2 DEF T!Taken, Conns, T!EndType
<1> HIDE DEF u
<1>4. Reads(t, u, e)
  BY <1>1, <1>3 DEF Reads, Alive, T!EndType
<1>5. Conns(u)
  BY <1>1, <1>3, <1>4, PeerFacts DEF Conns, Reads
<1> QED  BY <1>1, <1>2, <1>4, <1>5 DEF u

\* A unit is written at e, to a peer that is there or to nobody.
Writes(t, u, e, v) ==
    \/ /\ u \in [Ends -> T!EndType]
       /\ u[Peer[e]].buf = Append(t[Peer[e]].buf, v)
       /\ Len(t[Peer[e]].buf) < Cap
       /\ \A x \in Ends : x # Peer[e] => u[x] = t[x]
       /\ \A x \in Ends : u[x].st = t[x].st /\ (Alive(u, x) <=> Alive(t, x))
       /\ t[Peer[e]].st \in {"open", "half"}
    \/ /\ Decays(t, u)
       /\ t[Peer[e]].st = "closed"

LEMMA WrittenWrites ==
    ASSUME NEW t, Conns(t), NEW e \in Ends, NEW v \in Data, T!CanWrite(t, e)
    PROVE  Writes(t, T!Written(t, e, v), e, v) /\ Conns(T!Written(t, e, v))
<1> DEFINE p == Peer[e]
           u == T!Written(t, e, v)
<1>1. /\ p \in Ends /\ p # e /\ t[e] \in T!EndType /\ t[p] \in T!EndType /\ t[e].st = "open"
      /\ t[p].st # "none"
  BY PeerFacts DEF Conns, T!CanWrite
<1>2. CASE T!Live(t, p)
  <2>1. Append(t[p].buf, v) \in Seq(Data) /\ Len(t[p].buf) < Cap /\ t[p].st \in {"open", "half"}
    BY <1>1, <1>2 DEF T!EndType, T!CanWrite, T!Live
  <2>2. /\ u \in [Ends -> T!EndType]
        /\ u[p] = [t[p] EXCEPT !.buf = Append(@, v)]
        /\ \A x \in Ends : x # p => u[x] = t[x]
    BY <1>1, <1>2, <2>1 DEF T!Written, Conns, T!EndType
  <2> HIDE DEF u
  <2>3. /\ u[p].buf = Append(t[p].buf, v)
        /\ \A x \in Ends : u[x].st = t[x].st /\ (Alive(u, x) <=> Alive(t, x))
    BY <1>1, <2>2 DEF Alive, T!EndType
  <2>4. Writes(t, u, e, v)
    BY <2>1, <2>2, <2>3 DEF Writes
  <2>5. Conns(u)
    BY <1>1, <2>2, <2>3, PeerFacts DEF Conns
  <2> QED  BY <2>4, <2>5 DEF u
<1>3. CASE ~T!Live(t, p)
  <2>1. t[p].st = "closed"
    BY <1>1, <1>3 DEF T!Live, T!EndType
  <2>2. /\ u \in [Ends -> T!EndType]
        /\ u[e] = [t[e] EXCEPT !.rst = TRUE, !.buf = <<>>]
        /\ \A x \in Ends : x # e => u[x] = t[x]
    BY <1>1, <1>3, EmptyBuffer DEF T!Written, Conns, T!EndType
  <2> HIDE DEF u
  <2>3. Decays(t, u)
    BY <1>1, <2>2 DEF Decays, Alive, T!EndType
  <2>4. Conns(u)
    BY <2>3, DecaysConns
  <2> QED  BY <2>1, <2>3, <2>4 DEF Writes, u
<1> QED  BY <1>2, <1>3

\* The connection of e is established.
Connects(t, u, e) ==
    /\ u \in [Ends -> T!EndType]
    /\ \A x \in Ends : u[x].buf = t[x].buf /\ (Alive(u, x) <=> Alive(t, x))
    /\ u[e].st = "open" /\ u[Peer[e]].st = "open"
    /\ \A x \in Ends : x \notin {e, Peer[e]} => u[x] = t[x]

LEMMA ConnectedConnects ==
    ASSUME NEW t, Conns(t), NEW e \in Ends, t[e].st = "none"
    PROVE  Connects(t, T!Connected(t, e), e) /\ Conns(T!Connected(t, e))
<1> DEFINE p == Peer[e]
           u == T!Connected(t, e)
<1>1. p \in Ends /\ p # e /\ t[p].st = "none" /\ t[e] \in T!EndType /\ t[p] \in T!EndType
  BY PeerFacts DEF Conns
<1>2. /\ u[e] = [t[e] EXCEPT !.st = "open"]
      /\ u[p] = [t[p] EXCEPT !.st = "open"]
      /\ \A x \in Ends : x \notin {e, p} => u[x] = t[x]
      /\ u = [x \in Ends |-> u[x]]
  BY <1>1 DEF T!Connected, Conns
<1> HIDE DEF u, p
<1>3. ASSUME NEW x \in {e, p}
      PROVE  /\ u[x] \in T!EndType /\ u[x].buf = t[x].buf /\ u[x].st = "open"
             /\ Alive(u, x) <=> Alive(t, x)
  <2>1. t[x] \in T!EndType /\ t[x].st = "none" /\ u[x] = [t[x] EXCEPT !.st = "open"]
    BY <1>1, <1>2
  <2> QED  BY <2>1 DEF Alive, T!EndType
<1>4. u \in [Ends -> T!EndType]
  BY <1>2, <1>3 DEF Conns
<1>5. Connects(t, u, e)
  BY <1>2, <1>3, <1>4 DEF Connects, Alive, p
<1>6. Conns(u)
  <2> SUFFICES ASSUME NEW x \in Ends, u[x].st = "none"
               PROVE  u[x] = T!NoConn /\ u[Peer[x]].st = "none"
    BY <1>4 DEF Conns
  <2>1. x \notin {e, p} /\ t[x].st = "none"
    BY <1>2, <1>3
  <2>2. Peer[x] \in Ends /\ Peer[x] \notin {e, p}
    BY <2>1, PeerFacts DEF p
  <2> QED  BY <1>2, <2>1, <2>2 DEF Conns
<1> QED  BY <1>5, <1>6 DEF u

-----------------------------------------------------------------------------
(* Steps that move no data.                                                *)

Bounded(t) == \A e \in Ends : Len(t[e].buf) <= Cap

LEMMA DecaysBounded ==
    ASSUME NEW t, NEW u, Bounded(t), Decays(t, u)
    PROVE  Bounded(u)
<1>1. Len(<<>>) = 0 /\ 0 <= Cap
  BY PathAssumption
<1> QED  BY <1>1 DEF Bounded, Decays

LEMMA ReadsBounded ==
    ASSUME NEW t, NEW u, NEW e \in Ends, Conns(t), Bounded(t), Reads(t, u, e), t[e].buf # <<>>
    PROVE  Bounded(u)
<1>1. Len(u[e].buf) <= Cap
  <2>1. t[e].buf \in Seq(Data) /\ Len(t[e].buf) <= Cap
    BY DEF Conns, Bounded, T!EndType
  <2>2. Len(Tail(t[e].buf)) = Len(t[e].buf) - 1 /\ Len(t[e].buf) \in Nat
    BY <2>1
  <2> QED  BY <2>1, <2>2, PathAssumption DEF Reads
<1> QED  BY <1>1 DEF Bounded, Reads

LEMMA WritesBounded ==
    ASSUME NEW t, NEW u, NEW e \in Ends, NEW v \in Data, Conns(t), Bounded(t), Writes(t, u, e, v)
    PROVE  Bounded(u)
<1>1. CASE Decays(t, u)
  BY <1>1, DecaysBounded
<1>2. CASE ~Decays(t, u)
  <2>1. /\ u[Peer[e]].buf = Append(t[Peer[e]].buf, v) /\ Len(t[Peer[e]].buf) < Cap
        /\ \A x \in Ends : x # Peer[e] => u[x] = t[x]
        /\ t[Peer[e]].buf \in Seq(Data)
    BY <1>2, PeerFacts DEF Writes, Conns, T!EndType
  <2>2. Len(u[Peer[e]].buf) = Len(t[Peer[e]].buf) + 1 /\ Len(t[Peer[e]].buf) \in Nat
    BY <2>1
  <2>3. Len(u[Peer[e]].buf) <= Cap
    BY <2>1, <2>2, PathAssumption
  <2> QED  BY <2>1, <2>3 DEF Bounded
<1> QED  BY <1>1, <1>2

LEMMA ConnectsBounded ==
    ASSUME NEW t, NEW u, NEW e \in Ends, Bounded(t), Connects(t, u, e)
    PROVE  Bounded(u)
BY DEF Bounded, Connects

\* The types of what flows.
FlowTypes ==
    /\ FlowArgs(app["service"].rcvd,
                tcp["service"].buf, relayC.x["ba"], tcp["dc"].buf, FromUser, tcp["us"].buf,
                UpIntact(tcp, relayC, relayS), app["user"].sent)
    /\ FlowArgs(app["user"].rcvd,
                tcp["user"].buf, relayS.x["ba"], DsData, relayC.x["ab"], tcp["lc"].buf,
                DownIntact(tcp, relayC, relayS), app["service"].sent)

LEMMA UnitTyped ==
    ASSUME NEW x \in {<<>>} \cup {<<v>> : v \in Data}
    PROVE  x \in Seq(Data) /\ (x # <<>> => Head(x) \in Data /\ Tail(x) = <<>> /\ x = <<Head(x)>>)
<1>1. CASE x = <<>>
  BY <1>1, EmptyBuffer
<1>2. CASE \E v \in Data : x = <<v>>
  <2>1. PICK v \in Data : x = <<v>>
    BY <1>2
  <2>2. <<v>> \in Seq(Data) /\ Head(<<v>>) = v
    OBVIOUS
  <2>3. Tail(<<v>>) = <<>>
    OBVIOUS
  <2> QED  BY <2>1, <2>2, <2>3
<1> QED  BY <1>1, <1>2

LEMMA FlowTyped == (TypeOK => FlowTypes) /\ (TypeOK' => FlowTypes')
<1>1. TypeOK => FlowTypes
  <2> SUFFICES ASSUME TypeOK PROVE FlowTypes
    OBVIOUS
  <2>1. \A e \in Ends : tcp[e].buf \in Seq(Data)
    BY DEF TypeOK, T!EndType
  <2>2. \A e \in Apps : app[e].rcvd \in Seq(Data) /\ app[e].sent \in Nat
    BY PathAssumption DEF TypeOK
  <2>3. \A d \in {"ab", "ba"} : relayS.x[d] \in Seq(Data) /\ relayC.x[d] \in Seq(Data)
    BY UnitTyped DEF TypeOK, SR!RelayType, CR!RelayType, SR!Dirs, CR!Dirs
  <2>4. peeked \in Seq(Data)
    BY UnitTyped DEF TypeOK
  <2>5. FromUser \in Seq(Data)
    BY <2>3, <2>4 DEF FromUser
  <2>6. DsData \in Seq(Data)
    BY <2>1 DEF DsData, Ends
  <2>7. /\ UpIntact(tcp, relayC, relayS) \in 0..5
        /\ DownIntact(tcp, relayC, relayS) \in 0..5
    BY DEF UpIntact, DownIntact
  <2> QED  BY <2>1, <2>2, <2>3, <2>5, <2>6, <2>7 DEF FlowTypes, FlowArgs, Apps, Ends
<1>2. TypeOK' => FlowTypes'
  <2> SUFFICES ASSUME TypeOK' PROVE FlowTypes'
    OBVIOUS
  <2>1. \A e \in Ends : tcp'[e].buf \in Seq(Data)
    BY DEF TypeOK, T!EndType
  <2>2. \A e \in Apps : app'[e].rcvd \in Seq(Data) /\ app'[e].sent \in Nat
    BY PathAssumption DEF TypeOK
  <2>3. \A d \in {"ab", "ba"} : relayS'.x[d] \in Seq(Data) /\ relayC'.x[d] \in Seq(Data)
    BY UnitTyped DEF TypeOK, SR!RelayType, CR!RelayType, SR!Dirs, CR!Dirs
  <2>4. peeked' \in Seq(Data)
    BY UnitTyped DEF TypeOK
  <2>5. FromUser' \in Seq(Data)
    BY <2>3, <2>4 DEF FromUser
  <2>6. DsData' \in Seq(Data)
    BY <2>1 DEF DsData, Ends
  <2>7. /\ UpIntact(tcp', relayC', relayS') \in 0..5
        /\ DownIntact(tcp', relayC', relayS') \in 0..5
    BY DEF UpIntact, DownIntact
  <2> QED  BY <2>1, <2>2, <2>3, <2>5, <2>6, <2>7 DEF FlowTypes, FlowArgs, Apps, Ends
<1> QED  BY <1>1, <1>2

\* The copies of a relay may end and lose what they hold, and nothing else.
RelayDecays(r, s) == \A d \in {"ab", "ba"} : Copying(s, d) => Copying(r, d) /\ s.x[d] = r.x[d]

\* Places lose data, or keep what they have.  What lies beyond a place that has lost
\* something may change in any way.
LEMMA UpKept ==
    ASSUME TypeOK, TypeOK', UpFlow,
           app'["service"].rcvd = app["service"].rcvd, app'["user"].sent = app["user"].sent,
           \A x \in {"service", "dc", "us"} :
               Alive(tcp', x) => Alive(tcp, x) /\ tcp'[x].buf = tcp[x].buf,
           Alive(tcp', "service") /\ Copying(relayC', "ba")
               => Copying(relayC, "ba") /\ relayC'.x["ba"] = relayC.x["ba"],
           Alive(tcp', "dc") /\ Copying(relayS', "ab")
               => Copying(relayS, "ab") /\ FromUser' = FromUser
    PROVE  UpFlow'
<1>1. FlowTypes /\ FlowTypes'
  BY FlowTyped
<1> DEFINE c == UpIntact(tcp, relayC, relayS)
           b == UpIntact(tcp', relayC', relayS')
<1>2. /\ c \in 0..5 /\ b \in 0..5 /\ b <= c
      /\ b >= 1 => Alive(tcp', "service")
      /\ b >= 2 => Copying(relayC', "ba")
      /\ b >= 3 => Alive(tcp', "dc")
      /\ b >= 4 => Copying(relayS', "ab")
      /\ b >= 5 => Alive(tcp', "us")
  BY DEF UpIntact
<1> HIDE DEF c, b
<1>3. /\ b >= 1 => tcp'["service"].buf = tcp["service"].buf
      /\ b >= 2 => relayC'.x["ba"] = relayC.x["ba"]
      /\ b >= 3 => tcp'["dc"].buf = tcp["dc"].buf
      /\ b >= 4 => FromUser' = FromUser
      /\ b >= 5 => tcp'["us"].buf = tcp["us"].buf
  BY <1>2
<1> QED  BY <1>1, <1>2, <1>3, FlowCut DEF UpFlow, FlowTypes, b, c

LEMMA DownKept ==
    ASSUME TypeOK, TypeOK', DownFlow,
           app'["user"].rcvd = app["user"].rcvd, app'["service"].sent = app["service"].sent,
           \A x \in {"user", "lc"} :
               Alive(tcp', x) => Alive(tcp, x) /\ tcp'[x].buf = tcp[x].buf,
           Alive(tcp', "ds") => Alive(tcp, "ds") /\ DsData' = DsData,
           Alive(tcp', "user") /\ Copying(relayS', "ba")
               => Copying(relayS, "ba") /\ relayS'.x["ba"] = relayS.x["ba"],
           Alive(tcp', "ds") /\ Copying(relayC', "ab")
               => Copying(relayC, "ab") /\ relayC'.x["ab"] = relayC.x["ab"]
    PROVE  DownFlow'
<1>1. FlowTypes /\ FlowTypes'
  BY FlowTyped
<1> DEFINE c == DownIntact(tcp, relayC, relayS)
           b == DownIntact(tcp', relayC', relayS')
<1>2. /\ c \in 0..5 /\ b \in 0..5 /\ b <= c
      /\ b >= 1 => Alive(tcp', "user")
      /\ b >= 2 => Copying(relayS', "ba")
      /\ b >= 3 => Alive(tcp', "ds")
      /\ b >= 4 => Copying(relayC', "ab")
      /\ b >= 5 => Alive(tcp', "lc")
  BY DEF DownIntact
<1> HIDE DEF c, b
<1>3. /\ b >= 1 => tcp'["user"].buf = tcp["user"].buf
      /\ b >= 2 => relayS'.x["ba"] = relayS.x["ba"]
      /\ b >= 3 => DsData' = DsData
      /\ b >= 4 => relayC'.x["ab"] = relayC.x["ab"]
      /\ b >= 5 => tcp'["lc"].buf = tcp["lc"].buf
  BY <1>2
<1> QED  BY <1>1, <1>2, <1>3, FlowCut DEF DownFlow, FlowTypes, b, c

LEMMA FlowsKept ==
    ASSUME TypeOK, TypeOK', UpFlow, DownFlow, UNCHANGED app,
           \A x \in Ends : Alive(tcp', x) => /\ Alive(tcp, x)
                                             /\ x # "ds" => tcp'[x].buf = tcp[x].buf,
           Alive(tcp', "ds") => DsData' = DsData,
           RelayDecays(relayS, relayS'), RelayDecays(relayC, relayC'),
           Copying(relayS', "ab") => FromUser' = FromUser
    PROVE  UpFlow' /\ DownFlow'
<1>1. {"user", "us", "ds", "dc", "lc", "service"} \subseteq Ends
  BY DEF Ends
<1> QED  BY <1>1, UpKept, DownKept DEF RelayDecays

\* The relays use the same connections.
LEMMA SameConnections ==
    ASSUME NEW t, NEW e, NEW v
    PROVE  /\ SR!HasData(t, e) = T!HasData(t, e) /\ CR!HasData(t, e) = T!HasData(t, e)
           /\ SR!CanWrite(t, e) = T!CanWrite(t, e) /\ CR!CanWrite(t, e) = T!CanWrite(t, e)
           /\ SR!Taken(t, e) = T!Taken(t, e) /\ CR!Taken(t, e) = T!Taken(t, e)
           /\ SR!Written(t, e, v) = T!Written(t, e, v) /\ CR!Written(t, e, v) = T!Written(t, e, v)
           /\ SR!ShutWrite(t, e) = T!ShutWrite(t, e) /\ CR!ShutWrite(t, e) = T!ShutWrite(t, e)
           /\ SR!Expired(t, e) = T!Expired(t, e) /\ CR!Expired(t, e) = T!Expired(t, e)
           /\ SR!Closed(t, e) = T!Closed(t, e) /\ CR!Closed(t, e) = T!Closed(t, e)
BY DEF SR!HasData, CR!HasData, T!HasData, SR!CanWrite, CR!CanWrite, T!CanWrite, SR!Taken, CR!Taken,
       T!Taken, SR!Written, CR!Written, T!Written, SR!ShutWrite, CR!ShutWrite, T!ShutWrite,
       SR!Expired, CR!Expired, T!Expired, SR!Closed, CR!Closed, T!Closed, SR!Live, CR!Live, T!Live,
       SR!NoConn, CR!NoConn, T!NoConn

\* The invariant on its way through a step that writes no frame.
LEMMA FramesSame ==
    ASSUME FramesTypeOK, CallsInv, UNCHANGED frameVars
    PROVE  FramesTypeOK' /\ CallsInv'
BY DEF FramesTypeOK, CallsInv, frameVars

LEMMA ConnsOK ==
    ASSUME TypeOK, ConnInv
    PROVE  /\ Conns(tcp) /\ Bounded(tcp)
           /\ {"user", "us", "ds", "dc", "lc", "service"} \subseteq Ends
           /\ Peer["us"] = "user" /\ Peer["user"] = "us" /\ Peer["ds"] = "dc"
           /\ Peer["dc"] = "ds" /\ Peer["lc"] = "service" /\ Peer["service"] = "lc"
BY DEF TypeOK, ConnInv, Conns, Bounded, Ends, Peer

\* Connections and copies only lose data.
LEMMA FlowsDecay ==
    ASSUME TypeOK, TypeOK', UpFlow, DownFlow, UNCHANGED <<app, peeked, dh>>, Decays(tcp, tcp'),
           RelayDecays(relayS, relayS'), RelayDecays(relayC, relayC')
    PROVE  UpFlow' /\ DownFlow'
<1>1. \A x \in Ends : Alive(tcp', x) => Alive(tcp, x) /\ tcp'[x].buf = tcp[x].buf
  BY DEF Decays
<1>2. Alive(tcp', "ds") => DsData' = DsData
  BY <1>1 DEF DsData, Ends
<1>3. Copying(relayS', "ab") => FromUser' = FromUser
  BY DEF FromUser, RelayDecays
<1> QED  BY <1>1, <1>2, <1>3, FlowsKept

LEMMA RelaySame ==
    ASSUME NEW r
    PROVE  RelayDecays(r, r)
BY DEF RelayDecays

\* The steps of the server's and the client's goroutines that end something, wait for
\* something or are about frames: no data moves.
QuietSv ==
    \/ sv' = sv
    \/ sv = "open" /\ sv' = "writing"
    \/ sv = "writing" /\ sv' = "wait"
    \/ sv \in {"peek", "writing", "wait", "replay"} /\ sv' = "done"

QuietCh ==
    \/ ch' = ch
    \/ ch = "idle" /\ ch' = "dial"
    \/ ch \in {"dial", "hello", "local"} /\ ch' = "done"

QuietPend ==
    /\ pend' \in {"none", "open", "given", "cancelled"}
    /\ pend' = "given" => pend = "given"
    /\ sv' \in {"replay", "relay"} => pend' = pend

LEMMA QuietStep ==
    ASSUME IInv, FramesTypeOK', CallsInv', Decays(tcp, tcp'), QuietSv, QuietCh, QuietPend,
           ctxDone' \in BOOLEAN, UNCHANGED <<app, kind, peeked, dh, relayS, relayC>>
    PROVE  IInv'
<1> USE DEF IInv
<1>1. Conns(tcp) /\ Bounded(tcp) /\ {"us", "ds", "lc"} \subseteq Ends
  BY ConnsOK
<1>2. Conns(tcp') /\ Bounded(tcp')
  BY <1>1, DecaysConns, DecaysBounded
<1>3. TypeOK'
  <2>1. sv' \in {"idle", "peek", "open", "writing", "wait", "replay", "relay", "done"}
    BY DEF QuietSv, TypeOK
  <2>2. ch' \in {"idle", "dial", "hello", "local", "relay", "done"}
    BY DEF QuietCh, TypeOK
  <2> QED  BY <1>2, <2>1, <2>2 DEF TypeOK, QuietPend, Conns, Bounded
<1>4. ConnInv'
  BY <1>1, <1>2 DEF ConnInv, Conns, Decays, QuietSv, QuietCh
<1>5. RelayInv' /\ PeekInv' /\ SentInv'
  BY DEF RelayInv, PeekInv, SentInv, QuietSv, QuietCh
<1>6. HelloInv'
  BY <1>1 DEF HelloInv, Decays, QuietSv, QuietCh, QuietPend
<1>7. UpFlow' /\ DownFlow'
  BY <1>3, FlowsDecay, RelaySame
<1> QED  BY <1>3, <1>4, <1>5, <1>6, <1>7

\* Closing what is left of the path.
LEMMA PeekFailsStep ==
    ASSUME IInv, PeekFails
    PROVE  IInv'
<1>1. FramesTypeOK' /\ CallsInv'
  BY FramesSame DEF IInv, TypeOK, PeekFails
<1>2. Decays(tcp, tcp')
  BY ConnsOK, ClosedDecays DEF IInv, PeekFails
<1>3. QuietSv /\ QuietCh /\ QuietPend
  BY DEF IInv, TypeOK, PeekFails, QuietSv, QuietCh, QuietPend
<1> QED  BY <1>1, <1>2, <1>3, QuietStep DEF PeekFails, IInv, TypeOK

LEMMA GiveUpWaitingStep ==
    ASSUME IInv, GiveUpWaiting
    PROVE  IInv'
<1>1. FramesTypeOK' /\ CallsInv'
  BY FramesSame DEF IInv, TypeOK, GiveUpWaiting
<1>2. Decays(tcp, tcp')
  BY ConnsOK, ClosedDecays DEF IInv, GiveUpWaiting
<1>3. QuietSv /\ QuietCh /\ QuietPend
  BY DEF IInv, TypeOK, GiveUpWaiting, QuietSv, QuietCh, QuietPend
<1> QED  BY <1>1, <1>2, <1>3, QuietStep DEF GiveUpWaiting, IInv, TypeOK

LEMMA ReplayFailsStep ==
    ASSUME IInv, ReplayFails
    PROVE  IInv'
<1>1. FramesTypeOK' /\ CallsInv'
  BY FramesSame DEF IInv, TypeOK, ReplayFails
<1>2. Decays(tcp, tcp')
  <2>1. Decays(tcp, T!Closed(tcp, "us")) /\ Conns(T!Closed(tcp, "us"))
    BY ConnsOK, ClosedDecays, DecaysConns DEF IInv
  <2>2. Decays(T!Closed(tcp, "us"), T!Closed(T!Closed(tcp, "us"), "ds"))
    BY <2>1, ConnsOK, ClosedDecays DEF IInv
  <2> QED  BY <2>1, <2>2, DecaysAgain DEF ReplayFails
<1>3. QuietSv /\ QuietCh /\ QuietPend
  BY DEF IInv, TypeOK, ReplayFails, QuietSv, QuietCh, QuietPend
<1> QED  BY <1>1, <1>2, <1>3, QuietStep DEF ReplayFails, IInv, TypeOK

LEMMA DataBreaksStep ==
    ASSUME IInv, DataBreaks
    PROVE  IInv'
<1>1. FramesTypeOK' /\ CallsInv'
  BY FramesSame DEF IInv, TypeOK, DataBreaks
<1>2. Decays(tcp, tcp')
  BY ConnsOK, ResetDecays DEF IInv, DataBreaks
<1>3. QuietSv /\ QuietCh /\ QuietPend
  BY DEF IInv, TypeOK, DataBreaks, QuietSv, QuietCh, QuietPend
<1> QED  BY <1>1, <1>2, <1>3, QuietStep DEF DataBreaks, IInv, TypeOK

LEMMA AppEndsStep ==
    ASSUME IInv, NEW e \in Apps, AppEnds(e)
    PROVE  IInv'
<1>1. FramesTypeOK' /\ CallsInv'
  BY FramesSame DEF IInv, TypeOK, AppEnds
<1>2. Decays(tcp, tcp')
  BY ConnsOK, ClosedDecays, ShutWriteDecays DEF IInv, AppEnds, Apps
<1>3. QuietSv /\ QuietCh /\ QuietPend
  BY DEF IInv, TypeOK, AppEnds, QuietSv, QuietCh, QuietPend
<1> QED  BY <1>1, <1>2, <1>3, QuietStep DEF AppEnds, IInv, TypeOK

LEMMA ContextEndsStep ==
    ASSUME IInv, ContextEnds
    PROVE  IInv'
<1>1. FramesTypeOK' /\ CallsInv'
  BY FramesSame DEF IInv, TypeOK, ContextEnds
<1>2. Decays(tcp, tcp')
  BY ConnsOK, DecaysSame DEF IInv, ContextEnds, pathVars
<1>3. QuietSv /\ QuietCh /\ QuietPend
  BY DEF IInv, TypeOK, ContextEnds, pathVars, QuietSv, QuietCh, QuietPend
<1> QED  BY <1>1, <1>2, <1>3, QuietStep DEF ContextEnds, pathVars

LEMMA StutterStep ==
    ASSUME IInv, UNCHANGED vars
    PROVE  IInv'
<1>1. FramesTypeOK' /\ CallsInv'
  BY FramesSame DEF IInv, TypeOK, vars
<1>2. Decays(tcp, tcp')
  BY ConnsOK, DecaysSame DEF IInv, vars, pathVars
<1>3. QuietSv /\ QuietCh /\ QuietPend
  BY DEF IInv, TypeOK, vars, pathVars, QuietSv, QuietCh, QuietPend
<1> QED  BY <1>1, <1>2, <1>3, QuietStep DEF vars, pathVars, IInv, TypeOK

-----------------------------------------------------------------------------
(* Frames.                                                                 *)

LEMMA BeginOK ==
    ASSUME FramesTypeOK, CallsInv, NEW w \in Writers, NEW m \in Msgs, Begin(w, m)
    PROVE  FramesTypeOK' /\ CallsInv'
<1>1. wr' = [wr EXCEPT ![w] = [pc |-> "length", msg |-> m]]
  BY DEF Begin
<1>2. wr' \in [Writers -> [pc : {"idle", "length", "body", "ok", "err"}, msg : Msgs \cup {NoMsg}]]
  BY <1>1 DEF FramesTypeOK
<1>3. CallsInv'
  BY <1>1 DEF FramesTypeOK, CallsInv
<1> QED  BY <1>2, <1>3 DEF Begin, FramesTypeOK

LEMMA ReturnedOK ==
    ASSUME FramesTypeOK, CallsInv, NEW w \in Writers, NEW r, Returned(w, r)
    PROVE  FramesTypeOK' /\ CallsInv'
<1>1. wr' = [wr EXCEPT ![w] = IdleCall]
  BY DEF Returned
<1>2. wr' \in [Writers -> [pc : {"idle", "length", "body", "ok", "err"}, msg : Msgs \cup {NoMsg}]]
  BY <1>1 DEF FramesTypeOK, IdleCall
<1>3. CallsInv'
  BY <1>1 DEF FramesTypeOK, CallsInv, IdleCall
<1> QED  BY <1>2, <1>3 DEF Returned, FramesTypeOK

\* A call goes on and writes some units of its message.
LEMMA CallGoesOn ==
    ASSUME FramesTypeOK, CallsInv, NEW w \in Writers, NEW p \in {"body", "ok", "err"},
           wr[w].pc \in {"length", "body"}, p = "body" => wr[w].pc = "length",
           wr' = [wr EXCEPT ![w].pc = p]
    PROVE  /\ wr' \in [Writers -> [pc : {"idle", "length", "body", "ok", "err"},
                                      msg : Msgs \cup {NoMsg}]]
           /\ CallsInv'
           /\ wr[w].msg \in Msgs
<1>1. wr[w] \in [pc : {"idle", "length", "body", "ok", "err"}, msg : Msgs \cup {NoMsg}]
  BY DEF FramesTypeOK
<1>2. /\ wr'[w] = [wr[w] EXCEPT !.pc = p] /\ \A v \in Writers : v # w => wr'[v] = wr[v]
      /\ wr' = [v \in Writers |-> wr'[v]]
  BY DEF FramesTypeOK
<1>3. wr[w].msg \in Msgs
  BY DEF CallsInv
<1>4. /\ wr'[w] \in [pc : {"idle", "length", "body", "ok", "err"}, msg : Msgs \cup {NoMsg}]
      /\ wr'[w].msg = wr[w].msg
  BY <1>1, <1>2
<1>5. wr' \in [Writers -> [pc : {"idle", "length", "body", "ok", "err"}, msg : Msgs \cup {NoMsg}]]
  BY <1>2, <1>4 DEF FramesTypeOK
<1>6. CallsInv'
  BY <1>2, <1>3, <1>4 DEF CallsInv
<1> QED  BY <1>3, <1>5, <1>6

LEMMA WriteLengthOK ==
    ASSUME FramesTypeOK, CallsInv, NEW w \in Writers, WriteLength(w)
    PROVE  FramesTypeOK' /\ CallsInv'
<1>1. /\ wr' \in [Writers -> [pc : {"idle", "length", "body", "ok", "err"}, msg : Msgs \cup {NoMsg}]]
      /\ CallsInv' /\ wr[w].msg \in Msgs
  BY CallGoesOn DEF WriteLength
<1>2. <<Unit(wr[w].msg, 0)>> \in Seq(Units)
  BY <1>1, BodyLenAssumption DEF Unit, Units
<1>3. stream' \in Seq(Units)
  BY <1>2 DEF WriteLength, Put, FramesTypeOK
<1> QED  BY <1>1, <1>3 DEF WriteLength, FramesTypeOK

LEMMA WriteBodyOK ==
    ASSUME FramesTypeOK, CallsInv, NEW w \in Writers, WriteBody(w)
    PROVE  FramesTypeOK' /\ CallsInv'
<1>1. /\ wr' \in [Writers -> [pc : {"idle", "length", "body", "ok", "err"}, msg : Msgs \cup {NoMsg}]]
      /\ CallsInv' /\ wr[w].msg \in Msgs
  BY CallGoesOn DEF WriteBody
<1>2. [i \in 1..BodyLen |-> Unit(wr[w].msg, i)] \in Seq(Units)
  BY <1>1, BodyLenAssumption, IsASeq DEF Unit, Units
<1>3. stream' \in Seq(Units)
  BY <1>2 DEF WriteBody, Put, FramesTypeOK
<1> QED  BY <1>1, <1>3 DEF WriteBody, Unlock, FramesTypeOK

LEMMA WriteFailsOK ==
    ASSUME FramesTypeOK, CallsInv, NEW w \in Writers, NEW n \in 0..BodyLen, WriteFails(w, n)
    PROVE  FramesTypeOK' /\ CallsInv'
<1>1. /\ wr' \in [Writers -> [pc : {"idle", "length", "body", "ok", "err"}, msg : Msgs \cup {NoMsg}]]
      /\ CallsInv' /\ wr[w].msg \in Msgs
  BY CallGoesOn DEF WriteFails
<1>2. [i \in 1..n |-> Unit(wr[w].msg, i)] \in Seq(Units)
  BY <1>1, BodyLenAssumption, IsASeq DEF Unit, Units
<1>3. stream' \in Seq(Units)
  BY <1>2 DEF WriteFails, FramesTypeOK
<1> QED  BY <1>1, <1>3 DEF WriteFails, Unlock, FramesTypeOK

LEMMA ReadUnitOK ==
    ASSUME FramesTypeOK, CallsInv, NEW v \in Units, ReadUnit(v)
    PROVE  FramesTypeOK' /\ CallsInv'
<1> DEFINE Reading == [pc : {"length", "body", "failed"}, msg : Msgs \cup {NoMsg},
                       n : 0..BodyLen, ok : BOOLEAN]
           n == rd.n + 1
           right == rd.ok /\ v = Unit(rd.msg, n)
<1>1. stream' \in Seq(Units)
  BY DEF ReadUnit, FramesTypeOK
<1>2. 0 \in 0..BodyLen /\ v.msg \in Msgs /\ rd \in Reading
  BY BodyLenAssumption DEF Units, FramesTypeOK
<1>3. AtLength \in Reading /\ [AtLength EXCEPT !.pc = "failed"] \in Reading
  BY <1>2 DEF AtLength
<1>4. [pc |-> "body", msg |-> v.msg, n |-> 0, ok |-> TRUE] \in Reading
  BY <1>2
<1>5. n < BodyLen => [rd EXCEPT !.n = n, !.ok = right] \in Reading
  <2>1. n < BodyLen => n \in 0..BodyLen
    BY <1>2, BodyLenAssumption
  <2>2. right \in BOOLEAN
    BY <1>2
  <2> HIDE DEF n, right
  <2> QED  BY <1>2, <2>1, <2>2
<1>6. \/ rd' = [pc |-> "body", msg |-> v.msg, n |-> 0, ok |-> TRUE]
      \/ n < BodyLen /\ rd' = [rd EXCEPT !.n = n, !.ok = right]
      \/ rd' = AtLength
      \/ rd' = [AtLength EXCEPT !.pc = "failed"]
  BY DEF ReadUnit
<1>7. rd' \in Reading
  <2> HIDE DEF n, right, Reading
  <2> QED  BY <1>3, <1>4, <1>5, <1>6
<1>8. got' \in Msgs \cup {NoMsg}
  BY DEF ReadUnit, FramesTypeOK
<1>9. CallsInv'
  BY DEF ReadUnit, CallsInv
<1> QED  BY <1>1, <1>7, <1>8, <1>9 DEF ReadUnit, FramesTypeOK

LEMMA ReadFailsOK ==
    ASSUME FramesTypeOK, CallsInv, ReadFails \/ Break
    PROVE  FramesTypeOK' /\ CallsInv'
<1>1. CASE ReadFails
  <2>1. 0 \in 0..BodyLen
    BY BodyLenAssumption
  <2>2. rd' \in [pc : {"length", "body", "failed"}, msg : Msgs \cup {NoMsg}, n : 0..BodyLen,
            ok : BOOLEAN]
    BY <1>1, <2>1 DEF ReadFails, AtLength
  <2> QED  BY <1>1, <2>2 DEF ReadFails, FramesTypeOK, CallsInv
<1>2. CASE Break
  BY <1>2 DEF Break, FramesTypeOK, CallsInv
<1> QED  BY <1>1, <1>2

\* The writers of the control connection and its reader.
LEMMA SendOpenStep ==
    ASSUME IInv, SendOpen
    PROVE  IInv'
<1>1. FramesTypeOK' /\ CallsInv'
  BY BeginOK, PathAssumption DEF IInv, TypeOK, SendOpen
<1>2. Decays(tcp, tcp')
  BY ConnsOK, DecaysSame DEF IInv, SendOpen
<1>3. QuietSv /\ QuietCh /\ QuietPend
  BY DEF IInv, TypeOK, SendOpen, QuietSv, QuietCh, QuietPend
<1> QED  BY <1>1, <1>2, <1>3, QuietStep DEF SendOpen, IInv, TypeOK

LEMMA OpenSentStep ==
    ASSUME IInv, OpenSent
    PROVE  IInv'
<1>1. FramesTypeOK' /\ CallsInv'
  BY ReturnedOK, PathAssumption DEF IInv, TypeOK, OpenSent
<1>2. Decays(tcp, tcp')
  BY ConnsOK, DecaysSame, ClosedDecays DEF IInv, OpenSent
<1>3. QuietSv /\ QuietCh /\ QuietPend
  BY DEF IInv, TypeOK, OpenSent, QuietSv, QuietCh, QuietPend
<1> QED  BY <1>1, <1>2, <1>3, QuietStep DEF OpenSent, IInv, TypeOK

LEMMA CtrlReadStep ==
    ASSUME IInv, CtrlRead
    PROVE  IInv'
<1>1. FramesTypeOK' /\ CallsInv'
  BY ReadUnitOK DEF IInv, TypeOK, CtrlRead
<1>2. Decays(tcp, tcp')
  BY ConnsOK, DecaysSame DEF IInv, CtrlRead
<1>3. QuietSv /\ QuietCh /\ QuietPend
  BY DEF IInv, TypeOK, CtrlRead, QuietSv, QuietCh, QuietPend
<1> QED  BY <1>1, <1>2, <1>3, QuietStep DEF CtrlRead, IInv, TypeOK

LEMMA FramesStep ==
    ASSUME IInv, Ping \/ PingSent \/ FrameStep \/ CtrlBreaks
    PROVE  IInv'
<1>1. FramesTypeOK' /\ CallsInv'
  <2> USE DEF IInv, TypeOK
  <2>1. CASE Ping
    BY <2>1, BeginOK, PathAssumption DEF Ping
  <2>2. CASE PingSent
    BY <2>2, ReturnedOK, PathAssumption DEF PingSent
  <2>3. CASE FrameStep
    BY <2>3, WriteLengthOK, WriteBodyOK, WriteFailsOK, ReadFailsOK DEF FrameStep
  <2>4. CASE CtrlBreaks
    BY <2>4, ReadFailsOK DEF CtrlBreaks
  <2> QED  BY <2>1, <2>2, <2>3, <2>4
<1>2. UNCHANGED pathVars /\ ctxDone' \in BOOLEAN
  BY DEF Ping, PingSent, FrameStep, CtrlBreaks, IInv, TypeOK
<1>3. Decays(tcp, tcp')
  BY <1>2, ConnsOK, DecaysSame DEF IInv, pathVars
<1>4. QuietSv /\ QuietCh /\ QuietPend
  BY <1>2 DEF IInv, TypeOK, pathVars, QuietSv, QuietCh, QuietPend
<1> QED  BY <1>1, <1>2, <1>3, <1>4, QuietStep DEF pathVars

-----------------------------------------------------------------------------
(* The path is set up.                                                     *)

LEMMA StartedOK ==
    /\ SR!Started \in SR!RelayType /\ CR!Started \in CR!RelayType
    /\ CopyInv(SR!Started) /\ CopyInv(CR!Started)
    /\ SR!Started.st = "on" /\ CR!Started.st = "on"
    /\ \A d \in {"ab", "ba"} : /\ SR!Started.pc[d] = "read" /\ SR!Started.x[d] = <<>>
                              /\ CR!Started.pc[d] = "read" /\ CR!Started.x[d] = <<>>
    /\ \A r : r.st = "off" /\ CopyInv(r) => RelayDecays(r, SR!Started) /\ RelayDecays(r, CR!Started)
<1>1. /\ SR!Started \in SR!RelayType /\ SR!Started.st = "on"
      /\ \A d \in {"ab", "ba"} : SR!Started.pc[d] = "read" /\ SR!Started.x[d] = <<>>
  BY DEF SR!Started, SR!NoRelay, SR!RelayType, SR!Dirs
<1>2. /\ CR!Started \in CR!RelayType /\ CR!Started.st = "on"
      /\ \A d \in {"ab", "ba"} : CR!Started.pc[d] = "read" /\ CR!Started.x[d] = <<>>
  BY DEF CR!Started, CR!NoRelay, CR!RelayType, CR!Dirs
<1>3. CopyInv(SR!Started) /\ CopyInv(CR!Started)
  BY <1>1, <1>2 DEF CopyInv
<1>4. ASSUME NEW r, r.st = "off", CopyInv(r)
      PROVE  RelayDecays(r, SR!Started) /\ RelayDecays(r, CR!Started)
  BY <1>1, <1>2, <1>4 DEF CopyInv, RelayDecays, Copying
<1> QED  BY <1>1, <1>2, <1>3, <1>4

LEMMA TakeDataStep ==
    ASSUME IInv, TakeData
    PROVE  IInv'
<1> USE DEF IInv
<1>1. FramesTypeOK' /\ CallsInv'
  BY FramesSame DEF TypeOK, TakeData
<1>2. /\ relayS' \in SR!RelayType /\ CopyInv(relayS') /\ RelayDecays(relayS, relayS')
      /\ relayS'.st = "off" <=> sv' # "relay"
      /\ sv' \in {"replay", "relay"} /\ (sv' = "replay" <=> kind = "https")
      /\ sv' = "replay" => relayS' = relayS
  BY StartedOK, RelaySame DEF TakeData, StartRelay, RelayInv, TypeOK
<1>3. TypeOK'
  BY <1>1, <1>2 DEF TakeData, TypeOK
<1>4. ConnInv' /\ SentInv'
  BY <1>2 DEF TakeData, ConnInv, SentInv
<1>5. RelayInv' /\ PeekInv'
  BY <1>2 DEF TakeData, RelayInv, PeekInv
<1>6. HelloInv'
  BY <1>2 DEF TakeData, HelloInv
<1>7. UpFlow' /\ DownFlow'
  BY <1>2, <1>3, ConnsOK, DecaysSame, RelaySame, FlowsDecay DEF TakeData
<1> QED  BY <1>1, <1>3, <1>4, <1>5, <1>6, <1>7

\* A connection is established: it is empty.
LEMMA FlowsConnect ==
    ASSUME TypeOK, TypeOK', UpFlow, DownFlow, NEW e \in Ends, Connects(tcp, tcp', e),
           UNCHANGED <<app, peeked>>, tcp["ds"].buf = <<>> \/ dh' = dh,
           RelayDecays(relayS, relayS'), RelayDecays(relayC, relayC')
    PROVE  UpFlow' /\ DownFlow'
<1>1. \A x \in Ends : Alive(tcp', x) => Alive(tcp, x) /\ tcp'[x].buf = tcp[x].buf
  BY DEF Connects
<1>2. DsData' = DsData
  <2>1. tcp'["ds"].buf = tcp["ds"].buf
    BY DEF Connects, Ends
  <2> QED  BY <2>1 DEF DsData
<1>3. Copying(relayS', "ab") => FromUser' = FromUser
  BY DEF FromUser, RelayDecays
<1> QED  BY <1>1, <1>2, <1>3, FlowsKept

LEMMA AcceptStep ==
    ASSUME IInv, Accept
    PROVE  IInv'
<1> USE DEF IInv
<1>1. FramesTypeOK' /\ CallsInv'
  BY FramesSame DEF TypeOK, Accept
<1>2. Connects(tcp, tcp', "us") /\ Conns(tcp') /\ Bounded(tcp')
  BY ConnsOK, ConnectedConnects, ConnectsBounded DEF Accept, ConnInv
<1>3. /\ sv = "idle" /\ sv' \in {"open", "peek"}
      /\ (sv' = "open" <=> kind = "tcp") /\ (sv' = "peek" <=> kind = "https")
  BY DEF Accept, TypeOK
<1>4. TypeOK'
  BY <1>1, <1>2, <1>3 DEF Accept, TypeOK, Conns, Bounded
<1>5. /\ tcp'["ds"] = tcp["ds"] /\ tcp'["lc"] = tcp["lc"] /\ tcp'["us"].st = "open"
      /\ Alive(tcp', "ds") <=> Alive(tcp, "ds")
  BY <1>2, ConnsOK DEF Connects
<1>6. ConnInv'
  BY <1>2, <1>3, <1>5 DEF Accept, ConnInv, Conns
<1>7. RelayInv' /\ PeekInv' /\ SentInv'
  BY <1>3 DEF Accept, RelayInv, PeekInv, SentInv
<1>8. HelloInv'
  BY <1>3, <1>5 DEF Accept, HelloInv
<1>9. UpFlow' /\ DownFlow'
  BY <1>2, <1>4, ConnsOK, RelaySame, FlowsConnect DEF Accept
<1> QED  BY <1>1, <1>4, <1>6, <1>7, <1>8, <1>9

LEMMA DialServerStep ==
    ASSUME IInv, NEW ok \in BOOLEAN, DialServer(ok)
    PROVE  IInv'
<1>1. FramesTypeOK' /\ CallsInv'
  BY FramesSame DEF IInv, TypeOK, DialServer
<1>2. CASE ok
  <2> USE DEF IInv
  <2>1. dh = "none" /\ tcp["ds"].st = "none" /\ tcp["dc"].st = "none" /\ tcp["ds"].buf = <<>>
    <3>1. ch = "dial"
      BY DEF DialServer
    <3>2. dh = "none" /\ tcp["ds"].st = "none"
      BY <3>1 DEF HelloInv, ConnInv
    <3>3. tcp["ds"] = T!NoConn /\ tcp["dc"].st = "none"
      BY <3>2, ConnsOK DEF ConnInv
    <3> QED  BY <3>2, <3>3 DEF T!NoConn
  <2>2. Connects(tcp, tcp', "dc") /\ Conns(tcp') /\ Bounded(tcp')
    BY <1>2, <2>1, ConnsOK, ConnectedConnects, ConnectsBounded DEF DialServer
  <2>3. TypeOK'
    BY <1>1, <1>2, <2>2 DEF DialServer, TypeOK, Conns, Bounded
  <2>4. /\ tcp'["us"] = tcp["us"] /\ tcp'["lc"] = tcp["lc"] /\ tcp'["ds"].st = "open"
        /\ tcp'["ds"].buf = <<>>
    BY <2>1, <2>2, ConnsOK DEF Connects
  <2>5. ConnInv'
    BY <1>2, <2>2, <2>4 DEF DialServer, ConnInv, Conns
  <2>6. RelayInv' /\ PeekInv' /\ SentInv'
    BY <1>2 DEF DialServer, RelayInv, PeekInv, SentInv
  <2>7. HelloInv'
    BY <1>2, <2>1, <2>4 DEF DialServer, HelloInv
  <2>8. UpFlow' /\ DownFlow'
    BY <2>1, <2>2, <2>3, ConnsOK, RelaySame, FlowsConnect DEF DialServer
  <2> QED  BY <1>1, <2>3, <2>5, <2>6, <2>7, <2>8
<1>3. CASE ~ok
  <2>1. Decays(tcp, tcp')
    BY <1>3, ConnsOK, DecaysSame DEF IInv, DialServer
  <2>2. QuietSv /\ QuietCh /\ QuietPend
    BY <1>3 DEF IInv, TypeOK, DialServer, QuietSv, QuietCh, QuietPend
  <2> QED  BY <1>1, <1>3, <2>1, <2>2, QuietStep DEF DialServer, IInv, TypeOK
<1> QED  BY <1>2, <1>3

LEMMA DialLocalStep ==
    ASSUME IInv, NEW ok \in BOOLEAN, DialLocal(ok)
    PROVE  IInv'
<1>1. FramesTypeOK' /\ CallsInv'
  BY FramesSame DEF IInv, TypeOK, DialLocal
<1>2. CASE ok
  <2> USE DEF IInv
  <2>1. tcp["lc"].st = "none" /\ ch = "local" /\ relayC.st = "off" /\ relayC' = CR!Started
    BY <1>2 DEF DialLocal, ConnInv, RelayInv
  <2>2. Connects(tcp, tcp', "lc") /\ Conns(tcp') /\ Bounded(tcp')
    BY <1>2, <2>1, ConnsOK, ConnectedConnects, ConnectsBounded DEF DialLocal
  <2>3. TypeOK'
    BY <1>1, <1>2, <2>1, <2>2, StartedOK DEF DialLocal, TypeOK, Conns, Bounded
  <2>4. /\ tcp'["us"] = tcp["us"] /\ tcp'["ds"] = tcp["ds"] /\ tcp'["lc"].st = "open"
        /\ Alive(tcp', "ds") <=> Alive(tcp, "ds")
    BY <2>1, <2>2, ConnsOK DEF Connects
  <2>5. ConnInv'
    BY <1>2, <2>2, <2>4 DEF DialLocal, ConnInv, Conns
  <2>6. RelayInv' /\ PeekInv' /\ SentInv'
    BY <1>2, <2>1, StartedOK DEF DialLocal, RelayInv, PeekInv, SentInv
  <2>7. HelloInv'
    BY <1>2, <2>1, <2>4 DEF DialLocal, HelloInv
  <2>8. RelayDecays(relayC, relayC')
    BY <2>1, StartedOK DEF RelayInv
  <2>9. UpFlow' /\ DownFlow'
    BY <2>1, <2>2, <2>3, <2>8, ConnsOK, RelaySame, FlowsConnect DEF DialLocal
  <2> QED  BY <1>1, <2>3, <2>5, <2>6, <2>7, <2>9
<1>3. CASE ~ok
  <2>1. Decays(tcp, tcp')
    BY <1>3, ConnsOK, ClosedDecays DEF IInv, DialLocal
  <2>2. QuietSv /\ QuietCh /\ QuietPend
    BY <1>3 DEF IInv, TypeOK, DialLocal, QuietSv, QuietCh, QuietPend
  <2> QED  BY <1>1, <1>3, <2>1, <2>2, QuietStep DEF DialLocal, IInv, TypeOK
<1> QED  BY <1>2, <1>3

-----------------------------------------------------------------------------
(* The hello of the data connection.                                       *)

LEMMA HelloFailsStep ==
    ASSUME IInv, HelloFails
    PROVE  IInv'
<1> USE DEF IInv
<1>1. FramesTypeOK' /\ CallsInv'
  BY FramesSame DEF TypeOK, HelloFails
<1>2. Decays(tcp, tcp') /\ Conns(tcp') /\ Bounded(tcp') /\ tcp'["ds"].st \in {"none", "closed"}
  BY ConnsOK, ClosedDecays, DecaysConns, DecaysBounded DEF HelloFails
<1>3. dh = "hello" /\ dh' = "done" /\ tcp'["ds"].st = "closed" /\ tcp'["ds"].buf = <<>>
  BY <1>2, ConnsOK DEF HelloFails, ConnInv, Decays
<1>4. TypeOK'
  BY <1>1, <1>2, <1>3 DEF HelloFails, TypeOK, Conns, Bounded
<1>5. ConnInv'
  BY <1>2, <1>3, ConnsOK DEF HelloFails, ConnInv, Conns, Decays
<1>6. RelayInv' /\ PeekInv' /\ SentInv'
  BY DEF HelloFails, RelayInv, PeekInv, SentInv
<1>7. HelloInv'
  BY <1>3 DEF HelloFails, HelloInv
<1>8. UpFlow' /\ DownFlow'
  <2>1. /\ \A x \in Ends : Alive(tcp', x) => Alive(tcp, x) /\ tcp'[x].buf = tcp[x].buf
        /\ ~Alive(tcp', "ds")
    BY <1>2, <1>3 DEF Decays, Alive
  <2>2. FromUser' = FromUser
    BY DEF HelloFails, FromUser
  <2> QED  BY <1>4, <2>1, <2>2, RelaySame, FlowsKept DEF HelloFails
<1> QED  BY <1>1, <1>4, <1>5, <1>6, <1>7, <1>8

LEMMA ReadHelloStep ==
    ASSUME IInv, ReadHello
    PROVE  IInv'
<1> USE DEF IInv
<1> DEFINE u == T!Taken(tcp, "ds")
<1>1. FramesTypeOK' /\ CallsInv'
  BY FramesSame DEF TypeOK, ReadHello
<1>2. Reads(tcp, u, "ds") /\ Conns(u) /\ Bounded(u) /\ tcp["ds"].buf # <<>> /\ tcp["ds"].st # "none"
  BY ConnsOK, TakenReads, ReadsBounded DEF ReadHello
<1>3. dh = "hello" /\ dh' = "done" /\ sv \notin {"replay", "relay"} /\ ch # "hello"
  BY <1>2 DEF ReadHello, HelloInv
<1> HIDE DEF u
<1>4. /\ Conns(tcp') /\ Bounded(tcp')
      /\ \A x \in Ends : Alive(tcp', x) => /\ Alive(tcp, x)
                                           /\ x # "ds" => tcp'[x].buf = tcp[x].buf
      /\ \A x \in Ends : tcp'[x].st = "none" <=> tcp[x].st = "none"
      /\ Alive(tcp', "ds") => tcp'["ds"].buf = Tail(tcp["ds"].buf)
      /\ pend' \in {"none", "open", "given", "cancelled"}
  <2>1. CASE pend = "open"
    <3>1. tcp' = u /\ pend' = "given"
      BY <2>1 DEF ReadHello, Fulfil, u
    <3> QED  BY <1>2, <3>1 DEF Reads, Alive
  <2>2. CASE pend # "open"
    <3>1. tcp' = T!Closed(u, "ds") /\ pend' = pend
      BY <2>2 DEF ReadHello, Fulfil, u
    <3>2. Decays(u, tcp') /\ tcp'["ds"].st \in {"none", "closed"}
      BY <1>2, <3>1, ConnsOK, ClosedDecays
    <3>3. Conns(tcp') /\ Bounded(tcp')
      BY <1>2, <3>2, DecaysConns, DecaysBounded
    <3>4. ASSUME NEW x \in Ends
          PROVE  /\ Alive(tcp', x) => Alive(tcp, x) /\ (x # "ds" => tcp'[x].buf = tcp[x].buf)
                 /\ tcp'[x].st = "none" <=> tcp[x].st = "none"
      BY <1>2, <3>2 DEF Decays, Reads
    <3>5. Alive(tcp', "ds") => tcp'["ds"].buf = Tail(tcp["ds"].buf)
      BY <1>2, <3>2, ConnsOK DEF Decays, Reads
    <3> QED  BY <3>1, <3>3, <3>4, <3>5 DEF TypeOK
  <2> QED  BY <2>1, <2>2
<1>5. TypeOK'
  BY <1>1, <1>3, <1>4 DEF ReadHello, TypeOK, Conns, Bounded
<1>6. ConnInv'
  BY <1>3, <1>4, ConnsOK DEF ReadHello, ConnInv, Conns
<1>7. RelayInv' /\ PeekInv' /\ SentInv'
  BY DEF ReadHello, RelayInv, PeekInv, SentInv
<1>8. HelloInv'
  BY <1>3 DEF ReadHello, HelloInv
<1>9. UpFlow' /\ DownFlow'
  <2>1. Alive(tcp', "ds") => DsData' = DsData
    BY <1>2, <1>3, <1>4 DEF DsData
  <2>2. FromUser' = FromUser
    BY DEF ReadHello, FromUser
  <2> QED  BY <1>4, <1>5, <2>1, <2>2, RelaySame, FlowsKept DEF ReadHello
<1> QED  BY <1>1, <1>5, <1>6, <1>7, <1>8, <1>9

LEMMA WriteHelloStep ==
    ASSUME IInv, WriteHello
    PROVE  IInv'
<1>1. FramesTypeOK' /\ CallsInv'
  BY FramesSame DEF IInv, TypeOK, WriteHello
<1>2. CASE T!CanWrite(tcp, "dc") /\ tcp' = T!Written(tcp, "dc", Hello) /\ ch' = "local"
  <2> USE DEF IInv
  <2>1. Writes(tcp, tcp', "dc", Hello) /\ Conns(tcp') /\ Bounded(tcp')
    <3>1. Hello \in Data
      BY DEF Data
    <3> QED  BY <1>2, <3>1, ConnsOK, WrittenWrites, WritesBounded
  <2>2. /\ ch = "hello" /\ dh # "none" /\ tcp["ds"].buf = <<>>
        /\ dh = "hello" \/ tcp["ds"].st = "closed"
    BY DEF WriteHello, HelloInv
  <2>3. TypeOK'
    BY <1>1, <1>2, <2>1 DEF WriteHello, TypeOK, Conns, Bounded
  <2>4. /\ \A x \in Ends : tcp'[x].st = "none" <=> tcp[x].st = "none"
        /\ \A x \in Ends : Alive(tcp', x) => /\ Alive(tcp, x)
                                             /\ x # "ds" => tcp'[x].buf = tcp[x].buf
        /\ Alive(tcp', "ds") => dh = "hello" /\ tcp'["ds"].buf = Append(tcp["ds"].buf, Hello)
    <3>1. CASE Decays(tcp, tcp') /\ tcp["ds"].st = "closed"
      BY <3>1, ConnsOK DEF Decays, Alive
    <3>2. CASE ~(Decays(tcp, tcp') /\ tcp["ds"].st = "closed")
      BY <2>1, <2>2, <3>2, ConnsOK DEF Writes
    <3> QED  BY <3>1, <3>2
  <2>5. ConnInv'
    BY <1>2, <2>1, <2>2, <2>4, ConnsOK DEF WriteHello, ConnInv, Conns
  <2>6. RelayInv' /\ PeekInv' /\ SentInv'
    BY <1>2, <2>2 DEF WriteHello, RelayInv, PeekInv, SentInv
  <2>7. Append(<<>>, Hello) # <<>> /\ Tail(Append(<<>>, Hello)) = <<>>
    OBVIOUS
  <2>8. HelloInv'
    BY <1>2, <2>2, <2>4, <2>7 DEF WriteHello, HelloInv
  <2>9. UpFlow' /\ DownFlow'
    <3>1. Alive(tcp', "ds") => DsData' = DsData
      BY <2>2, <2>4, <2>7 DEF DsData, WriteHello
    <3>2. FromUser' = FromUser
      BY DEF WriteHello, FromUser
    <3> QED  BY <2>3, <2>4, <3>1, <3>2, RelaySame, FlowsKept DEF WriteHello
  <2> QED  BY <1>1, <2>3, <2>5, <2>6, <2>8, <2>9
<1>3. CASE tcp' = T!Closed(tcp, "dc") /\ ch' = "done"
  <2>1. Decays(tcp, tcp')
    BY <1>3, ConnsOK, ClosedDecays DEF IInv
  <2>2. QuietSv /\ QuietCh /\ QuietPend
    BY <1>3 DEF IInv, TypeOK, WriteHello, QuietSv, QuietCh, QuietPend
  <2> QED  BY <1>1, <1>3, <2>1, <2>2, QuietStep DEF WriteHello, IInv, TypeOK
<1> QED  BY <1>2, <1>3 DEF WriteHello

-----------------------------------------------------------------------------
(* A unit moves.                                                           *)

\* What a step does to all ends but e, where it reads or where its data arrives.
Spares(t, u, e) ==
    /\ u \in [Ends -> T!EndType] /\ Conns(u) /\ Bounded(u)
    /\ \A x \in Ends : Alive(u, x) => Alive(t, x) /\ (x # e => u[x].buf = t[x].buf)
    /\ \A x \in Ends : u[x].st = "none" <=> t[x].st = "none"
    /\ \A x \in Ends : t[x].st = "closed" => u[x].st = "closed"
    /\ \A x \in Ends : x # e => u[x].buf = t[x].buf \/ u[x].buf = <<>>

LEMMA TakenSpares ==
    ASSUME NEW t, Conns(t), Bounded(t), NEW e \in Ends, T!HasData(t, e)
    PROVE  /\ Spares(t, T!Taken(t, e), e) /\ T!Taken(t, e)[e].buf = Tail(t[e].buf)
           /\ t[e].buf # <<>> /\ t[e].buf \in Seq(Data) /\ Head(t[e].buf) \in Data /\ Alive(t, e)
<1> DEFINE u == T!Taken(t, e)
<1>1. Reads(t, u, e) /\ Conns(u) /\ Alive(t, e) /\ t[e].buf # <<>> /\ Head(t[e].buf) \in Data
  BY TakenReads
<1>2. Bounded(u)
  BY <1>1, ReadsBounded
<1> HIDE DEF u
<1>3. Spares(t, u, e) /\ u[e].buf = Tail(t[e].buf)
  BY <1>1, <1>2 DEF Spares, Reads, Alive
<1> QED  BY <1>1, <1>3 DEF u, Conns, T!EndType

LEMMA WrittenSpares ==
    ASSUME NEW t, Conns(t), Bounded(t), NEW e \in Ends, NEW v \in Data, T!CanWrite(t, e)
    PROVE  /\ Spares(t, T!Written(t, e, v), Peer[e])
           /\ Alive(T!Written(t, e, v), Peer[e])
                  => T!Written(t, e, v)[Peer[e]].buf = Append(t[Peer[e]].buf, v)
<1> DEFINE u == T!Written(t, e, v)
<1>1. Writes(t, u, e, v) /\ Conns(u)
  BY WrittenWrites
<1>2. Bounded(u) /\ Peer[e] \in Ends
  BY <1>1, WritesBounded, PeerFacts
<1> HIDE DEF u
<1>3. Spares(t, u, Peer[e]) /\ (Alive(u, Peer[e]) => u[Peer[e]].buf = Append(t[Peer[e]].buf, v))
  <2>1. CASE Decays(t, u) /\ t[Peer[e]].st = "closed"
    BY <1>1, <1>2, <2>1 DEF Spares, Decays, Alive
  <2>2. CASE ~(Decays(t, u) /\ t[Peer[e]].st = "closed")
    BY <1>1, <1>2, <2>2 DEF Spares, Writes
  <2> QED  BY <2>1, <2>2
<1> QED  BY <1>3 DEF u

\* The same in the two flows, as the relays move their units.
LEMMA UpMoved1 ==
    ASSUME TypeOK, TypeOK', UpFlow, UNCHANGED app, Spares(tcp, tcp', "service"),
           relayC.x["ba"] # <<>>,
           Alive(tcp', "service") => tcp'["service"].buf = Append(tcp["service"].buf, Head(relayC.x["ba"])),
           relayC'.x["ba"] = Tail(relayC.x["ba"]), Copying(relayC, "ba"), Copying(relayC', "ba"),
           Copying(relayS', "ab") <=> Copying(relayS, "ab"), FromUser' = FromUser
    PROVE  UpFlow'
<1> DEFINE c == UpIntact(tcp, relayC, relayS)
           b == UpIntact(tcp', relayC', relayS')
<1>1. FlowTypes /\ FlowTypes' /\ app' = app
  BY FlowTyped
<1>2. /\ b <= c /\ c # 1 /\ b \in 0..5
      /\ b >= 1 => tcp'["service"].buf = Append(tcp["service"].buf, Head(relayC.x["ba"]))
      /\ b >= 3 => tcp'["dc"].buf = tcp["dc"].buf
      /\ b >= 5 => tcp'["us"].buf = tcp["us"].buf
  BY DEF UpIntact, Spares, Ends
<1>3. /\ FlowArgs(app["service"].rcvd, tcp["service"].buf, relayC.x["ba"], tcp["dc"].buf,
                  FromUser, tcp["us"].buf, c, app["user"].sent)
      /\ FlowArgs(app["service"].rcvd, tcp'["service"].buf, relayC'.x["ba"], tcp'["dc"].buf,
                  FromUser', tcp'["us"].buf, b, app["user"].sent)
      /\ Flow("user", app["service"].rcvd, tcp["service"].buf, relayC.x["ba"], tcp["dc"].buf,
              FromUser, tcp["us"].buf, c, app["user"].sent)
  BY <1>1 DEF UpFlow, FlowTypes
<1> HIDE DEF c, b
<1>4. Flow("user", app["service"].rcvd, tcp'["service"].buf, relayC'.x["ba"], tcp'["dc"].buf,
           FromUser', tcp'["us"].buf, b, app["user"].sent)
  BY <1>2, <1>3, FlowMoved1
<1> QED  BY <1>1, <1>4 DEF UpFlow, b

LEMMA UpMoved2 ==
    ASSUME TypeOK, TypeOK', UpFlow, UNCHANGED app, Spares(tcp, tcp', "dc"),
           tcp["dc"].buf # <<>>, Alive(tcp, "dc"), tcp'["dc"].buf = Tail(tcp["dc"].buf),
           relayC'.x["ba"] = Append(relayC.x["ba"], Head(tcp["dc"].buf)), Copying(relayC, "ba"),
           Copying(relayC', "ba"),
           Copying(relayS', "ab") <=> Copying(relayS, "ab"), FromUser' = FromUser
    PROVE  UpFlow'
<1> DEFINE c == UpIntact(tcp, relayC, relayS)
           b == UpIntact(tcp', relayC', relayS')
<1>1. FlowTypes /\ FlowTypes' /\ app' = app
  BY FlowTyped
<1>2. /\ b <= c /\ c # 2 /\ b \in 0..5
      /\ b >= 1 => tcp'["service"].buf = tcp["service"].buf
      /\ b >= 5 => tcp'["us"].buf = tcp["us"].buf
  BY DEF UpIntact, Spares, Ends
<1>3. /\ FlowArgs(app["service"].rcvd, tcp["service"].buf, relayC.x["ba"], tcp["dc"].buf,
                  FromUser, tcp["us"].buf, c, app["user"].sent)
      /\ FlowArgs(app["service"].rcvd, tcp'["service"].buf, relayC'.x["ba"], tcp'["dc"].buf,
                  FromUser', tcp'["us"].buf, b, app["user"].sent)
      /\ Flow("user", app["service"].rcvd, tcp["service"].buf, relayC.x["ba"], tcp["dc"].buf,
              FromUser, tcp["us"].buf, c, app["user"].sent)
  BY <1>1 DEF UpFlow, FlowTypes
<1> HIDE DEF c, b
<1>4. Flow("user", app["service"].rcvd, tcp'["service"].buf, relayC'.x["ba"], tcp'["dc"].buf,
           FromUser', tcp'["us"].buf, b, app["user"].sent)
  BY <1>2, <1>3, FlowMoved2
<1> QED  BY <1>1, <1>4 DEF UpFlow, b

LEMMA UpMoved3 ==
    ASSUME TypeOK, TypeOK', UpFlow, UNCHANGED app, Spares(tcp, tcp', "dc"),
           FromUser # <<>>, Alive(tcp', "dc") => tcp'["dc"].buf = Append(tcp["dc"].buf, Head(FromUser)),
           FromUser' = Tail(FromUser), Copying(relayS, "ab"), Copying(relayS', "ab"),
           Copying(relayC', "ba") <=> Copying(relayC, "ba"), relayC'.x["ba"] = relayC.x["ba"]
    PROVE  UpFlow'
<1> DEFINE c == UpIntact(tcp, relayC, relayS)
           b == UpIntact(tcp', relayC', relayS')
<1>1. FlowTypes /\ FlowTypes' /\ app' = app
  BY FlowTyped
<1>2. /\ b <= c /\ c # 3 /\ b \in 0..5
      /\ b >= 1 => tcp'["service"].buf = tcp["service"].buf
      /\ b >= 3 => tcp'["dc"].buf = Append(tcp["dc"].buf, Head(FromUser))
      /\ b >= 5 => tcp'["us"].buf = tcp["us"].buf
  BY DEF UpIntact, Spares, Ends
<1>3. /\ FlowArgs(app["service"].rcvd, tcp["service"].buf, relayC.x["ba"], tcp["dc"].buf,
                  FromUser, tcp["us"].buf, c, app["user"].sent)
      /\ FlowArgs(app["service"].rcvd, tcp'["service"].buf, relayC'.x["ba"], tcp'["dc"].buf,
                  FromUser', tcp'["us"].buf, b, app["user"].sent)
      /\ Flow("user", app["service"].rcvd, tcp["service"].buf, relayC.x["ba"], tcp["dc"].buf,
              FromUser, tcp["us"].buf, c, app["user"].sent)
  BY <1>1 DEF UpFlow, FlowTypes
<1> HIDE DEF c, b
<1>4. Flow("user", app["service"].rcvd, tcp'["service"].buf, relayC'.x["ba"], tcp'["dc"].buf,
           FromUser', tcp'["us"].buf, b, app["user"].sent)
  BY <1>2, <1>3, FlowMoved3
<1> QED  BY <1>1, <1>4 DEF UpFlow, b

LEMMA UpMoved4 ==
    ASSUME TypeOK, TypeOK', UpFlow, UNCHANGED app, Spares(tcp, tcp', "us"),
           tcp["us"].buf # <<>>, Alive(tcp, "us"), tcp'["us"].buf = Tail(tcp["us"].buf),
           FromUser' = Append(FromUser, Head(tcp["us"].buf)), Copying(relayS, "ab"),
           Copying(relayS', "ab"),
           Copying(relayC', "ba") <=> Copying(relayC, "ba"), relayC'.x["ba"] = relayC.x["ba"]
    PROVE  UpFlow'
<1> DEFINE c == UpIntact(tcp, relayC, relayS)
           b == UpIntact(tcp', relayC', relayS')
<1>1. FlowTypes /\ FlowTypes' /\ app' = app
  BY FlowTyped
<1>2. /\ b <= c /\ c # 4 /\ b \in 0..5
      /\ b >= 1 => tcp'["service"].buf = tcp["service"].buf
      /\ b >= 3 => tcp'["dc"].buf = tcp["dc"].buf
  BY DEF UpIntact, Spares, Ends
<1>3. /\ FlowArgs(app["service"].rcvd, tcp["service"].buf, relayC.x["ba"], tcp["dc"].buf,
                  FromUser, tcp["us"].buf, c, app["user"].sent)
      /\ FlowArgs(app["service"].rcvd, tcp'["service"].buf, relayC'.x["ba"], tcp'["dc"].buf,
                  FromUser', tcp'["us"].buf, b, app["user"].sent)
      /\ Flow("user", app["service"].rcvd, tcp["service"].buf, relayC.x["ba"], tcp["dc"].buf,
              FromUser, tcp["us"].buf, c, app["user"].sent)
  BY <1>1 DEF UpFlow, FlowTypes
<1> HIDE DEF c, b
<1>4. Flow("user", app["service"].rcvd, tcp'["service"].buf, relayC'.x["ba"], tcp'["dc"].buf,
           FromUser', tcp'["us"].buf, b, app["user"].sent)
  BY <1>2, <1>3, FlowMoved4
<1> QED  BY <1>1, <1>4 DEF UpFlow, b

LEMMA DownMoved1 ==
    ASSUME TypeOK, TypeOK', DownFlow, UNCHANGED app, Spares(tcp, tcp', "user"),
           relayS.x["ba"] # <<>>,
           Alive(tcp', "user") => tcp'["user"].buf = Append(tcp["user"].buf, Head(relayS.x["ba"])),
           relayS'.x["ba"] = Tail(relayS.x["ba"]), Copying(relayS, "ba"), Copying(relayS', "ba"),
           Copying(relayC', "ab") <=> Copying(relayC, "ab"), relayC'.x["ab"] = relayC.x["ab"],
           Alive(tcp', "ds") => DsData' = DsData
    PROVE  DownFlow'
<1> DEFINE c == DownIntact(tcp, relayC, relayS)
           b == DownIntact(tcp', relayC', relayS')
<1>1. FlowTypes /\ FlowTypes' /\ app' = app
  BY FlowTyped
<1>2. /\ b <= c /\ c # 1 /\ b \in 0..5
      /\ b >= 1 => tcp'["user"].buf = Append(tcp["user"].buf, Head(relayS.x["ba"]))
      /\ b >= 3 => DsData' = DsData
      /\ b >= 5 => tcp'["lc"].buf = tcp["lc"].buf
  BY DEF DownIntact, Spares, Ends
<1>3. /\ FlowArgs(app["user"].rcvd, tcp["user"].buf, relayS.x["ba"], DsData, relayC.x["ab"],
                  tcp["lc"].buf, c, app["service"].sent)
      /\ FlowArgs(app["user"].rcvd, tcp'["user"].buf, relayS'.x["ba"], DsData', relayC'.x["ab"],
                  tcp'["lc"].buf, b, app["service"].sent)
      /\ Flow("service", app["user"].rcvd, tcp["user"].buf, relayS.x["ba"], DsData,
              relayC.x["ab"], tcp["lc"].buf, c, app["service"].sent)
  BY <1>1 DEF DownFlow, FlowTypes
<1> HIDE DEF c, b
<1>4. Flow("service", app["user"].rcvd, tcp'["user"].buf, relayS'.x["ba"], DsData',
           relayC'.x["ab"], tcp'["lc"].buf, b, app["service"].sent)
  BY <1>2, <1>3, FlowMoved1
<1> QED  BY <1>1, <1>4 DEF DownFlow, b

LEMMA DownMoved2 ==
    ASSUME TypeOK, TypeOK', DownFlow, UNCHANGED app, Spares(tcp, tcp', "ds"),
           DsData # <<>>, Alive(tcp, "ds"), DsData' = Tail(DsData),
           relayS'.x["ba"] = Append(relayS.x["ba"], Head(DsData)), Copying(relayS, "ba"),
           Copying(relayS', "ba"),
           Copying(relayC', "ab") <=> Copying(relayC, "ab"), relayC'.x["ab"] = relayC.x["ab"]
    PROVE  DownFlow'
<1> DEFINE c == DownIntact(tcp, relayC, relayS)
           b == DownIntact(tcp', relayC', relayS')
<1>1. FlowTypes /\ FlowTypes' /\ app' = app
  BY FlowTyped
<1>2. /\ b <= c /\ c # 2 /\ b \in 0..5
      /\ b >= 1 => tcp'["user"].buf = tcp["user"].buf
      /\ b >= 5 => tcp'["lc"].buf = tcp["lc"].buf
  BY DEF DownIntact, Spares, Ends
<1>3. /\ FlowArgs(app["user"].rcvd, tcp["user"].buf, relayS.x["ba"], DsData, relayC.x["ab"],
                  tcp["lc"].buf, c, app["service"].sent)
      /\ FlowArgs(app["user"].rcvd, tcp'["user"].buf, relayS'.x["ba"], DsData', relayC'.x["ab"],
                  tcp'["lc"].buf, b, app["service"].sent)
      /\ Flow("service", app["user"].rcvd, tcp["user"].buf, relayS.x["ba"], DsData,
              relayC.x["ab"], tcp["lc"].buf, c, app["service"].sent)
  BY <1>1 DEF DownFlow, FlowTypes
<1> HIDE DEF c, b
<1>4. Flow("service", app["user"].rcvd, tcp'["user"].buf, relayS'.x["ba"], DsData',
           relayC'.x["ab"], tcp'["lc"].buf, b, app["service"].sent)
  BY <1>2, <1>3, FlowMoved2
<1> QED  BY <1>1, <1>4 DEF DownFlow, b

LEMMA DownMoved3 ==
    ASSUME TypeOK, TypeOK', DownFlow, UNCHANGED app, Spares(tcp, tcp', "ds"),
           relayC.x["ab"] # <<>>, Alive(tcp', "ds") => DsData' = Append(DsData, Head(relayC.x["ab"])),
           relayC'.x["ab"] = Tail(relayC.x["ab"]), Copying(relayC, "ab"), Copying(relayC', "ab"),
           Copying(relayS', "ba") <=> Copying(relayS, "ba"), relayS'.x["ba"] = relayS.x["ba"]
    PROVE  DownFlow'
<1> DEFINE c == DownIntact(tcp, relayC, relayS)
           b == DownIntact(tcp', relayC', relayS')
<1>1. FlowTypes /\ FlowTypes' /\ app' = app
  BY FlowTyped
<1>2. /\ b <= c /\ c # 3 /\ b \in 0..5
      /\ b >= 1 => tcp'["user"].buf = tcp["user"].buf
      /\ b >= 3 => DsData' = Append(DsData, Head(relayC.x["ab"]))
      /\ b >= 5 => tcp'["lc"].buf = tcp["lc"].buf
  BY DEF DownIntact, Spares, Ends
<1>3. /\ FlowArgs(app["user"].rcvd, tcp["user"].buf, relayS.x["ba"], DsData, relayC.x["ab"],
                  tcp["lc"].buf, c, app["service"].sent)
      /\ FlowArgs(app["user"].rcvd, tcp'["user"].buf, relayS'.x["ba"], DsData', relayC'.x["ab"],
                  tcp'["lc"].buf, b, app["service"].sent)
      /\ Flow("service", app["user"].rcvd, tcp["user"].buf, relayS.x["ba"], DsData,
              relayC.x["ab"], tcp["lc"].buf, c, app["service"].sent)
  BY <1>1 DEF DownFlow, FlowTypes
<1> HIDE DEF c, b
<1>4. Flow("service", app["user"].rcvd, tcp'["user"].buf, relayS'.x["ba"], DsData',
           relayC'.x["ab"], tcp'["lc"].buf, b, app["service"].sent)
  BY <1>2, <1>3, FlowMoved3
<1> QED  BY <1>1, <1>4 DEF DownFlow, b

LEMMA DownMoved4 ==
    ASSUME TypeOK, TypeOK', DownFlow, UNCHANGED app, Spares(tcp, tcp', "lc"),
           tcp["lc"].buf # <<>>, Alive(tcp, "lc"), tcp'["lc"].buf = Tail(tcp["lc"].buf),
           relayC'.x["ab"] = Append(relayC.x["ab"], Head(tcp["lc"].buf)), Copying(relayC, "ab"),
           Copying(relayC', "ab"),
           Copying(relayS', "ba") <=> Copying(relayS, "ba"), relayS'.x["ba"] = relayS.x["ba"],
           Alive(tcp', "ds") => DsData' = DsData
    PROVE  DownFlow'
<1> DEFINE c == DownIntact(tcp, relayC, relayS)
           b == DownIntact(tcp', relayC', relayS')
<1>1. FlowTypes /\ FlowTypes' /\ app' = app
  BY FlowTyped
<1>2. /\ b <= c /\ c # 4 /\ b \in 0..5
      /\ b >= 1 => tcp'["user"].buf = tcp["user"].buf
      /\ b >= 3 => DsData' = DsData
  BY DEF DownIntact, Spares, Ends
<1>3. /\ FlowArgs(app["user"].rcvd, tcp["user"].buf, relayS.x["ba"], DsData, relayC.x["ab"],
                  tcp["lc"].buf, c, app["service"].sent)
      /\ FlowArgs(app["user"].rcvd, tcp'["user"].buf, relayS'.x["ba"], DsData', relayC'.x["ab"],
                  tcp'["lc"].buf, b, app["service"].sent)
      /\ Flow("service", app["user"].rcvd, tcp["user"].buf, relayS.x["ba"], DsData,
              relayC.x["ab"], tcp["lc"].buf, c, app["service"].sent)
  BY <1>1 DEF DownFlow, FlowTypes
<1> HIDE DEF c, b
<1>4. Flow("service", app["user"].rcvd, tcp'["user"].buf, relayS'.x["ba"], DsData',
           relayC'.x["ab"], tcp'["lc"].buf, b, app["service"].sent)
  BY <1>2, <1>3, FlowMoved4
<1> QED  BY <1>1, <1>4 DEF DownFlow, b

LEMMA PeekStep ==
    ASSUME IInv, Peek
    PROVE  IInv'
<1> USE DEF IInv
<1>1. FramesTypeOK' /\ CallsInv'
  BY FramesSame DEF TypeOK, Peek
<1>2. /\ Spares(tcp, tcp', "us") /\ tcp'["us"].buf = Tail(tcp["us"].buf) /\ Alive(tcp, "us")
      /\ tcp["us"].buf # <<>> /\ Head(tcp["us"].buf) \in Data
  BY ConnsOK, TakenSpares DEF Peek
<1>3. /\ sv = "peek" /\ sv' = "open" /\ kind = "https" /\ relayS.st = "off"
      /\ peeked' = <<Head(tcp["us"].buf)>> /\ peeked' # <<>> /\ FromUser = <<>>
      /\ FromUser' = Append(FromUser, Head(tcp["us"].buf))
  <2>1. sv = "peek" /\ sv' = "open" /\ kind = "https" /\ relayS.st = "off" /\ peeked = <<>>
        /\ peeked' = <<Head(tcp["us"].buf)>>
    BY DEF Peek, PeekInv, RelayInv
  <2>2. relayS.x["ab"] = <<>>
    BY <2>1 DEF RelayInv, CopyInv
  <2>3. Append(<<>>, Head(tcp["us"].buf)) = <<Head(tcp["us"].buf)>>
        /\ <<Head(tcp["us"].buf)>> # <<>>
    OBVIOUS
  <2> QED  BY <2>1, <2>2, <2>3 DEF FromUser
<1>4. TypeOK'
  BY <1>1, <1>2, <1>3 DEF Peek, TypeOK, Spares, Bounded
<1>5. ConnInv'
  BY <1>2, <1>3, ConnsOK DEF Peek, ConnInv, Spares, Conns
<1>6. RelayInv' /\ PeekInv' /\ SentInv'
  BY <1>3 DEF Peek, RelayInv, PeekInv, SentInv
<1>7. HelloInv'
  <2>1. /\ Alive(tcp', "ds") => Alive(tcp, "ds") /\ tcp'["ds"].buf = tcp["ds"].buf
        /\ tcp["ds"].st = "closed" => tcp'["ds"].st = "closed"
        /\ tcp'["ds"].buf = tcp["ds"].buf \/ tcp'["ds"].buf = <<>>
    BY <1>2, ConnsOK DEF Spares
  <2> QED  BY <1>3, <2>1 DEF Peek, HelloInv
<1>8. UpFlow'
  <2>1. Copying(relayS, "ab") /\ relayS' = relayS /\ relayC' = relayC
    BY <1>3 DEF RelayInv, CopyInv, Copying, Peek
  <2> QED  BY <1>2, <1>3, <1>4, <2>1, UpMoved4 DEF Peek
<1>9. DownFlow'
  <2>1. Alive(tcp', "ds") => DsData' = DsData
    BY <1>2, ConnsOK DEF DsData, Spares, Peek
  <2> QED  BY <1>2, <1>4, <2>1, ConnsOK, DownKept DEF Spares, Peek
<1> QED  BY <1>1, <1>4, <1>5, <1>6, <1>7, <1>8, <1>9

LEMMA ReplayStep ==
    ASSUME IInv, Replay
    PROVE  IInv'
<1> USE DEF IInv
<1>1. FramesTypeOK' /\ CallsInv'
  BY FramesSame DEF TypeOK, Replay
<1>2. /\ sv = "replay" /\ sv' = "relay" /\ kind = "https" /\ relayS.st = "off" /\ peeked # <<>>
      /\ peeked' = <<>> /\ relayS' = SR!Started /\ dh = "done" /\ pend = "given"
      /\ Head(peeked) \in Data /\ Tail(peeked) = <<>>
  BY UnitTyped DEF Replay, StartRelay, PeekInv, RelayInv, HelloInv, TypeOK
<1>3. /\ Spares(tcp, tcp', "dc")
      /\ Alive(tcp', "dc") => tcp'["dc"].buf = Append(tcp["dc"].buf, Head(peeked))
  BY <1>2, ConnsOK, WrittenSpares DEF Replay
<1>4. TypeOK'
  BY <1>1, <1>2, <1>3, StartedOK DEF Replay, TypeOK, Spares, Bounded
<1>5. ConnInv'
  BY <1>2, <1>3, ConnsOK DEF Replay, ConnInv, Spares, Conns
<1>6. RelayInv' /\ PeekInv' /\ SentInv'
  BY <1>2, StartedOK DEF Replay, RelayInv, PeekInv, SentInv
<1>7. /\ Alive(tcp', "ds") => Alive(tcp, "ds") /\ tcp'["ds"].buf = tcp["ds"].buf
      /\ tcp["ds"].st = "closed" => tcp'["ds"].st = "closed"
      /\ tcp'["ds"].buf = tcp["ds"].buf \/ tcp'["ds"].buf = <<>>
  BY <1>3, ConnsOK DEF Spares
<1>8. HelloInv'
  BY <1>2, <1>7 DEF Replay, HelloInv
<1>9. RelayDecays(relayS, relayS') /\ Copying(relayS, "ab") /\ Copying(relayS', "ab")
  BY <1>2, StartedOK DEF RelayInv, CopyInv, Copying
<1>10. UpFlow'
  <2>1. FromUser = peeked /\ FromUser' = Tail(FromUser)
    BY <1>2, StartedOK DEF FromUser, CopyInv, RelayInv
  <2>2. relayC' = relayC
    BY DEF Replay
  <2> QED  BY <1>2, <1>3, <1>4, <1>9, <2>1, <2>2, UpMoved3 DEF Replay
<1>11. DownFlow'
  <2>1. Alive(tcp', "ds") => DsData' = DsData
    BY <1>7 DEF DsData, Replay
  <2> QED  BY <1>3, <1>4, <1>7, <1>9, <2>1, ConnsOK, DownKept DEF Spares, Replay, RelayDecays
<1> QED  BY <1>1, <1>4, <1>5, <1>6, <1>8, <1>10, <1>11

-----------------------------------------------------------------------------
(* The user and the service.                                               *)

\* What such a step leaves alone.
LEMMA AppMoves ==
    ASSUME IInv, NEW e \in {"user", "us", "lc", "service"}, Spares(tcp, tcp', e),
           app' \in [Apps -> [sent : 0..(MaxUp + MaxDown), rcvd : Seq(Data)]], SentInv',
           UNCHANGED <<frameVars, kind, sv, peeked, pend, dh, ch, relayS, relayC, ctxDone>>
    PROVE  /\ TypeOK'
           /\ UpFlow' /\ DownFlow' => IInv'
           /\ Alive(tcp', "ds") => DsData' = DsData
<1> USE DEF IInv
<1>1. FramesTypeOK' /\ CallsInv'
  BY FramesSame DEF TypeOK
<1>2. TypeOK'
  BY <1>1 DEF TypeOK, Spares, Bounded
<1>3. ConnInv'
  BY ConnsOK DEF ConnInv, Spares, Conns
<1>4. RelayInv' /\ PeekInv'
  BY DEF RelayInv, PeekInv
<1>5. /\ Alive(tcp', "ds") => Alive(tcp, "ds") /\ tcp'["ds"].buf = tcp["ds"].buf
      /\ tcp["ds"].st = "closed" => tcp'["ds"].st = "closed"
      /\ tcp'["ds"].buf = tcp["ds"].buf \/ tcp'["ds"].buf = <<>>
  BY ConnsOK DEF Spares
<1>6. HelloInv'
  BY <1>5 DEF HelloInv
<1>7. Alive(tcp', "ds") => DsData' = DsData
  BY <1>5 DEF DsData
<1> QED  BY <1>1, <1>2, <1>3, <1>4, <1>6, <1>7

LEMMA AppSendStep ==
    ASSUME IInv, NEW e \in Apps, AppSend(e)
    PROVE  IInv'
<1> DEFINE v == Payload(e, app[e].sent + 1)
<1>1. TypeOK /\ SentInv /\ UpFlow /\ DownFlow /\ ConnInv
  BY DEF IInv
<1>2. /\ app \in [Apps -> [sent : 0..(MaxUp + MaxDown), rcvd : Seq(Data)]]
      /\ app' = [app EXCEPT ![e].sent = @ + 1]
  BY <1>1 DEF TypeOK, AppSend
<1>3. /\ app'[e].sent = app[e].sent + 1 /\ \A x \in Apps : app'[x].rcvd = app[x].rcvd
      /\ \A x \in Apps : x # e => app'[x] = app[x]
      /\ app'[e] = [app[e] EXCEPT !.sent = @ + 1]
      /\ app' = [x \in Apps |-> app'[x]]
  BY <1>2
<1>4. /\ app[e].sent \in Nat /\ v \in Data /\ SentInv'
      /\ app[e].sent + 1 \in 0..(MaxUp + MaxDown)
  <2>1. CASE e = "user"
    <3>1. app[e].sent \in Nat /\ app[e].sent < MaxUp
      BY <1>2, <2>1, PathAssumption DEF AppSend
    <3>2. app[e].sent + 1 \in 1..MaxUp /\ app[e].sent + 1 \in 0..(MaxUp + MaxDown)
      BY <3>1, PathAssumption
    <3>3. "service" \in Apps /\ "service" # e /\ app["service"].sent <= MaxDown
      BY <1>1, <2>1 DEF Apps, SentInv
    <3>4. SentInv'
      <4>1. app'["user"].sent = app["user"].sent + 1 /\ app'["service"].sent = app["service"].sent
        BY <1>3, <2>1, <3>3
      <4> QED  BY <2>1, <3>1, <3>2, <3>3, <4>1, PathAssumption DEF SentInv
    <3> QED  BY <2>1, <3>1, <3>2, <3>4 DEF Data
  <2>2. CASE e = "service"
    <3>1. app[e].sent \in Nat /\ app[e].sent < MaxDown
      BY <1>2, <2>2, PathAssumption DEF AppSend
    <3>2. app[e].sent + 1 \in 1..MaxDown /\ app[e].sent + 1 \in 0..(MaxUp + MaxDown)
      BY <3>1, PathAssumption
    <3>3. "user" \in Apps /\ "user" # e /\ app["user"].sent <= MaxUp
      BY <1>1, <2>2 DEF Apps, SentInv
    <3>4. SentInv'
      <4>1. app'["service"].sent = app["service"].sent + 1 /\ app'["user"].sent = app["user"].sent
        BY <1>3, <2>2, <3>3
      <4> QED  BY <2>2, <3>1, <3>2, <3>3, <4>1, PathAssumption DEF SentInv
    <3> QED  BY <2>2, <3>1, <3>2, <3>4 DEF Data
  <2> QED  BY <2>1, <2>2 DEF Apps
<1>5. app' \in [Apps -> [sent : 0..(MaxUp + MaxDown), rcvd : Seq(Data)]]
  <2>1. app'[e] \in [sent : 0..(MaxUp + MaxDown), rcvd : Seq(Data)]
    <3>1. app[e] \in [sent : 0..(MaxUp + MaxDown), rcvd : Seq(Data)]
      BY <1>2
    <3> QED  BY <1>3, <1>4, <3>1
  <2> QED  BY <1>2, <1>3, <2>1
<1>6. /\ Spares(tcp, tcp', Peer[e]) /\ Peer[e] \in {"us", "lc"}
      /\ Alive(tcp', Peer[e]) => tcp'[Peer[e]].buf = Append(tcp[Peer[e]].buf, v)
  <2>1. e \in Ends /\ Peer[e] \in {"us", "lc"}
    BY DEF Apps, Ends, Peer
  <2> HIDE DEF v
  <2>2. T!CanWrite(tcp, e) /\ tcp' = T!Written(tcp, e, v)
    BY DEF AppSend, v
  <2> QED  BY <1>1, <1>4, <2>1, <2>2, ConnsOK, WrittenSpares
<1>7. /\ TypeOK' /\ (UpFlow' /\ DownFlow' => IInv')
      /\ Alive(tcp', "ds") => DsData' = DsData
  BY <1>4, <1>5, <1>6, AppMoves DEF AppSend
<1>8. FlowTypes /\ FlowTypes' /\ relayS' = relayS /\ relayC' = relayC /\ FromUser' = FromUser
  BY <1>1, <1>7, FlowTyped DEF AppSend, FromUser
<1>9. CASE e = "user"
  <2> DEFINE c == UpIntact(tcp, relayC, relayS)
             b == UpIntact(tcp', relayC', relayS')
  <2>1. Peer[e] = "us" /\ "service" \in Apps /\ "user" \in Apps
    BY <1>9 DEF Peer, Apps
  <2>2. /\ b <= c /\ b \in 0..5
        /\ b >= 1 => tcp'["service"].buf = tcp["service"].buf
        /\ b >= 3 => tcp'["dc"].buf = tcp["dc"].buf
        /\ b >= 5 => tcp'["us"].buf = Append(tcp["us"].buf, v)
    BY <1>6, <1>8, <2>1 DEF UpIntact, Spares, Ends
  <2>3. /\ FlowArgs(app["service"].rcvd, tcp["service"].buf, relayC.x["ba"], tcp["dc"].buf, FromUser,
                    tcp["us"].buf, c, app["user"].sent)
        /\ FlowArgs(app["service"].rcvd, tcp'["service"].buf, relayC.x["ba"], tcp'["dc"].buf, FromUser,
                    tcp'["us"].buf, b, app["user"].sent + 1)
        /\ Flow("user", app["service"].rcvd, tcp["service"].buf, relayC.x["ba"], tcp["dc"].buf,
                FromUser,
                tcp["us"].buf, c, app["user"].sent)
    BY <1>1, <1>3, <1>8, <1>9, <2>1 DEF UpFlow, FlowTypes
  <2> HIDE DEF c, b
  <2>4. Flow("user", app["service"].rcvd, tcp'["service"].buf, relayC.x["ba"], tcp'["dc"].buf, FromUser,
             tcp'["us"].buf, b, app["user"].sent + 1)
    BY <1>4, <1>9, <2>2, <2>3, FlowSent
  <2>5. UpFlow'
    BY <1>3, <1>8, <1>9, <2>1, <2>4 DEF UpFlow, b
  <2>6. DownFlow'
    BY <1>1, <1>3, <1>6, <1>7, <1>8, <1>9, <2>1, ConnsOK, DownKept DEF Spares
  <2> QED  BY <1>7, <2>5, <2>6
<1>10. CASE e = "service"
  <2> DEFINE c == DownIntact(tcp, relayC, relayS)
             b == DownIntact(tcp', relayC', relayS')
  <2>1. Peer[e] = "lc" /\ "service" \in Apps /\ "user" \in Apps
    BY <1>10 DEF Peer, Apps
  <2>2. /\ b <= c /\ b \in 0..5
        /\ b >= 1 => tcp'["user"].buf = tcp["user"].buf
        /\ b >= 3 => DsData' = DsData
        /\ b >= 5 => tcp'["lc"].buf = Append(tcp["lc"].buf, v)
    BY <1>6, <1>7, <1>8, <2>1 DEF DownIntact, Spares, Ends
  <2>3. /\ FlowArgs(app["user"].rcvd, tcp["user"].buf, relayS.x["ba"], DsData, relayC.x["ab"],
                    tcp["lc"].buf, c, app["service"].sent)
        /\ FlowArgs(app["user"].rcvd, tcp'["user"].buf, relayS.x["ba"], DsData', relayC.x["ab"],
                    tcp'["lc"].buf, b, app["service"].sent + 1)
        /\ Flow("service", app["user"].rcvd, tcp["user"].buf, relayS.x["ba"], DsData, relayC.x["ab"],
                tcp["lc"].buf, c, app["service"].sent)
    BY <1>1, <1>3, <1>8, <1>10, <2>1 DEF DownFlow, FlowTypes
  <2> HIDE DEF c, b
  <2>4. Flow("service", app["user"].rcvd, tcp'["user"].buf, relayS.x["ba"], DsData', relayC.x["ab"],
             tcp'["lc"].buf, b, app["service"].sent + 1)
    BY <1>4, <1>10, <2>2, <2>3, FlowSent
  <2>5. DownFlow'
    BY <1>3, <1>8, <1>10, <2>1, <2>4 DEF DownFlow, b
  <2>6. UpFlow'
    BY <1>1, <1>3, <1>6, <1>7, <1>8, <1>10, <2>1, ConnsOK, UpKept DEF Spares
  <2> QED  BY <1>7, <2>5, <2>6
<1> QED  BY <1>9, <1>10 DEF Apps

LEMMA AppReceiveStep ==
    ASSUME IInv, NEW e \in Apps, AppReceive(e)
    PROVE  IInv'
<1>1. TypeOK /\ SentInv /\ UpFlow /\ DownFlow /\ ConnInv /\ e \in Ends /\ e \in {"user", "service"}
  BY DEF IInv, Apps, Ends
<1>2. /\ app \in [Apps -> [sent : 0..(MaxUp + MaxDown), rcvd : Seq(Data)]]
      /\ app' = [app EXCEPT ![e].rcvd = Append(@, Head(tcp[e].buf))]
  BY <1>1 DEF TypeOK, AppReceive
<1>3. /\ app'[e].rcvd = Append(app[e].rcvd, Head(tcp[e].buf))
      /\ \A x \in Apps : app'[x].sent = app[x].sent
      /\ \A x \in Apps : x # e => app'[x] = app[x]
      /\ app'[e] = [app[e] EXCEPT !.rcvd = Append(@, Head(tcp[e].buf))]
      /\ app' = [x \in Apps |-> app'[x]]
  BY <1>2
<1>4. /\ Spares(tcp, tcp', e) /\ tcp'[e].buf = Tail(tcp[e].buf)
      /\ tcp[e].buf # <<>> /\ Head(tcp[e].buf) \in Data /\ Alive(tcp, e)
  BY <1>1, ConnsOK, TakenSpares DEF AppReceive
<1>5. app' \in [Apps -> [sent : 0..(MaxUp + MaxDown), rcvd : Seq(Data)]] /\ SentInv'
  <2>1. app[e] \in [sent : 0..(MaxUp + MaxDown), rcvd : Seq(Data)]
    BY <1>2
  <2>2. Append(app[e].rcvd, Head(tcp[e].buf)) \in Seq(Data)
    BY <1>4, <2>1
  <2>3. app'[e] \in [sent : 0..(MaxUp + MaxDown), rcvd : Seq(Data)]
    BY <1>3, <2>1, <2>2
  <2>4. SentInv'
    BY <1>1, <1>3 DEF SentInv, Apps
  <2> QED  BY <1>2, <1>3, <2>3, <2>4
<1>6. /\ TypeOK' /\ (UpFlow' /\ DownFlow' => IInv')
      /\ Alive(tcp', "ds") => DsData' = DsData
  BY <1>1, <1>4, <1>5, AppMoves DEF AppReceive
<1>7. FlowTypes /\ FlowTypes' /\ relayS' = relayS /\ relayC' = relayC /\ FromUser' = FromUser
  BY <1>1, <1>6, FlowTyped DEF AppReceive, FromUser
<1>8. CASE e = "service"
  <2> DEFINE c == UpIntact(tcp, relayC, relayS)
             b == UpIntact(tcp', relayC', relayS')
             r == Append(app["service"].rcvd, Head(tcp["service"].buf))
  <2>1. "service" \in Apps /\ "user" \in Apps
    BY DEF Apps
  <2>2. /\ b <= c /\ c # 0 /\ b \in 0..5
        /\ b >= 3 => tcp'["dc"].buf = tcp["dc"].buf
        /\ b >= 5 => tcp'["us"].buf = tcp["us"].buf
    BY <1>4, <1>7, <1>8 DEF UpIntact, Spares, Ends
  <2>3. /\ FlowArgs(app["service"].rcvd, tcp["service"].buf, relayC.x["ba"], tcp["dc"].buf, FromUser,
                    tcp["us"].buf, c, app["user"].sent)
        /\ FlowArgs(r, tcp'["service"].buf, relayC.x["ba"], tcp'["dc"].buf, FromUser,
                    tcp'["us"].buf, b, app["user"].sent)
        /\ Flow("user", app["service"].rcvd, tcp["service"].buf, relayC.x["ba"], tcp["dc"].buf,
                FromUser,
                tcp["us"].buf, c, app["user"].sent)
    BY <1>1, <1>3, <1>7, <1>8, <2>1 DEF UpFlow, FlowTypes
  <2> HIDE DEF c, b
  <2>4. Flow("user", r, tcp'["service"].buf, relayC.x["ba"], tcp'["dc"].buf, FromUser,
             tcp'["us"].buf, b, app["user"].sent)
    BY <1>4, <1>8, <2>2, <2>3, FlowReceived
  <2>5. UpFlow'
    BY <1>3, <1>7, <1>8, <2>1, <2>4 DEF UpFlow, b
  <2>6. DownFlow'
    BY <1>1, <1>3, <1>4, <1>6, <1>7, <1>8, <2>1, ConnsOK, DownKept DEF Spares
  <2> QED  BY <1>6, <2>5, <2>6
<1>9. CASE e = "user"
  <2> DEFINE c == DownIntact(tcp, relayC, relayS)
             b == DownIntact(tcp', relayC', relayS')
             r == Append(app["user"].rcvd, Head(tcp["user"].buf))
  <2>1. "service" \in Apps /\ "user" \in Apps
    BY DEF Apps
  <2>2. /\ b <= c /\ c # 0 /\ b \in 0..5
        /\ b >= 3 => DsData' = DsData
        /\ b >= 5 => tcp'["lc"].buf = tcp["lc"].buf
    BY <1>4, <1>6, <1>7, <1>9 DEF DownIntact, Spares, Ends
  <2>3. /\ FlowArgs(app["user"].rcvd, tcp["user"].buf, relayS.x["ba"], DsData, relayC.x["ab"],
                    tcp["lc"].buf, c, app["service"].sent)
        /\ FlowArgs(r, tcp'["user"].buf, relayS.x["ba"], DsData', relayC.x["ab"],
                    tcp'["lc"].buf, b, app["service"].sent)
        /\ Flow("service", app["user"].rcvd, tcp["user"].buf, relayS.x["ba"], DsData, relayC.x["ab"],
                tcp["lc"].buf, c, app["service"].sent)
    BY <1>1, <1>3, <1>7, <1>9, <2>1 DEF DownFlow, FlowTypes
  <2> HIDE DEF c, b
  <2>4. Flow("service", r, tcp'["user"].buf, relayS.x["ba"], DsData', relayC.x["ab"],
             tcp'["lc"].buf, b, app["service"].sent)
    BY <1>4, <1>9, <2>2, <2>3, FlowReceived
  <2>5. DownFlow'
    BY <1>3, <1>7, <1>9, <2>1, <2>4 DEF DownFlow, b
  <2>6. UpFlow'
    BY <1>1, <1>3, <1>4, <1>6, <1>7, <1>9, <2>1, ConnsOK, UpKept DEF Spares
  <2> QED  BY <1>6, <2>5, <2>6
<1> QED  BY <1>8, <1>9 DEF Apps

-----------------------------------------------------------------------------
(* The relays.                                                             *)

\* In relay r copy d goes to p and holds y, and the other copy stays as it is.
Copies(r, s, d, p, y) ==
    /\ s \in SR!RelayType
    /\ s.st = r.st
    /\ s.pc[d] = p /\ s.x[d] = y
    /\ \A f \in {"ab", "ba"} : f # d => s.pc[f] = r.pc[f] /\ s.x[f] = r.x[f]

LEMMA CopyMoves ==
    ASSUME NEW r \in SR!RelayType, NEW d \in {"ab", "ba"}, NEW p \in {"read", "write", "done"},
           NEW y \in {<<>>} \cup {<<v>> : v \in Data}
    PROVE  /\ Copies(r, [r EXCEPT !.pc[d] = p, !.x[d] = y], d, p, y)
           /\ Copies(r, [r EXCEPT !.pc[d] = p, !.x[d] = y, !.cancelled = TRUE], d, p, y)
<1> DEFINE Unit1 == {<<>>} \cup {<<v>> : v \in Data}
<1> HIDE DEF Unit1
<1>1. /\ r.pc \in [{"ab", "ba"} -> {"read", "write", "done"}] /\ r.x \in [{"ab", "ba"} -> Unit1]
      /\ y \in Unit1
  BY DEF SR!RelayType, SR!Dirs, Unit1
<1> DEFINE pc == [r.pc EXCEPT ![d] = p]
           x  == [r.x EXCEPT ![d] = y]
<1>2. /\ pc \in [{"ab", "ba"} -> {"read", "write", "done"}] /\ x \in [{"ab", "ba"} -> Unit1]
      /\ pc[d] = p /\ x[d] = y
      /\ \A f \in {"ab", "ba"} : f # d => pc[f] = r.pc[f] /\ x[f] = r.x[f]
  BY <1>1
<1>3. /\ [r EXCEPT !.pc[d] = p, !.x[d] = y] = [r EXCEPT !.pc = pc, !.x = x]
      /\ [r EXCEPT !.pc[d] = p, !.x[d] = y, !.cancelled = TRUE]
             = [r EXCEPT !.pc = pc, !.x = x, !.cancelled = TRUE]
  BY DEF SR!RelayType
<1> HIDE DEF pc, x
<1>4. Copies(r, [r EXCEPT !.pc = pc, !.x = x], d, p, y)
  BY <1>2 DEF Copies, SR!RelayType, SR!Dirs, Unit1
<1>5. Copies(r, [r EXCEPT !.pc = pc, !.x = x, !.cancelled = TRUE], d, p, y)
  BY <1>2 DEF Copies, SR!RelayType, SR!Dirs, Unit1
<1> QED  BY <1>3, <1>4, <1>5

LEMMA CopiesKeep ==
    ASSUME NEW r, NEW s, NEW d \in {"ab", "ba"}, NEW p, NEW y, CopyInv(r), Copies(r, s, d, p, y),
           (p = "write" /\ y # <<>>) \/ (p # "write" /\ y = <<>>), r.st = "on"
    PROVE  CopyInv(s)
BY DEF CopyInv, Copies

LEMMA DecaysSpares ==
    ASSUME NEW t, NEW u, NEW e, Conns(t), Bounded(t), Decays(t, u)
    PROVE  Spares(t, u, e)
BY DecaysConns, DecaysBounded DEF Decays, Spares

\* What a step of the server's relay leaves alone.
LEMMA ServerRelayMoves ==
    ASSUME IInv, relayS.st = "on", NEW e \in Ends, Spares(tcp, tcp', e),
           e = "ds" => tcp["ds"].st # "closed",
           relayS' \in SR!RelayType, CopyInv(relayS'), relayS'.st # "off",
           UNCHANGED <<frameVars, app, kind, sv, peeked, pend, dh, ch, relayC, ctxDone>>
    PROVE  /\ TypeOK'
           /\ UpFlow' /\ DownFlow' => IInv'
           /\ FromUser = relayS.x["ab"] /\ FromUser' = relayS'.x["ab"]
           /\ DsData = tcp["ds"].buf /\ DsData' = tcp'["ds"].buf
<1> USE DEF IInv
<1>1. FramesTypeOK' /\ CallsInv'
  BY FramesSame DEF TypeOK
<1>2. sv = "relay" /\ dh = "done" /\ peeked = <<>>
  BY DEF RelayInv, HelloInv, PeekInv
<1>3. TypeOK'
  BY <1>1 DEF TypeOK, Spares, Bounded
<1>4. ConnInv' /\ SentInv'
  BY ConnsOK DEF ConnInv, Spares, Conns, SentInv
<1>5. RelayInv' /\ PeekInv'
  BY <1>2 DEF RelayInv, PeekInv
<1>6. /\ tcp["ds"].st = "closed" => tcp'["ds"].st = "closed"
      /\ tcp["ds"].st = "closed" => tcp'["ds"].buf = tcp["ds"].buf \/ tcp'["ds"].buf = <<>>
  BY ConnsOK DEF Spares
<1>7. HelloInv'
  BY <1>2, <1>6 DEF HelloInv
<1> QED  BY <1>1, <1>2, <1>3, <1>4, <1>5, <1>7 DEF FromUser, DsData

LEMMA ServerReads ==
    ASSUME IInv, NEW d \in {"ab", "ba"}, SR!CopyRead(d),
           UNCHANGED <<frameVars, app, kind, sv, peeked, pend, dh, ch, relayC, ctxDone>>
    PROVE  IInv'
<1> DEFINE e == SR!Src(d)
<1>1. /\ TypeOK /\ ConnInv /\ RelayInv /\ UpFlow /\ DownFlow
      /\ e = (IF d = "ab" THEN "us" ELSE "ds") /\ e \in Ends
  BY DEF IInv, SR!Src, Ends
<1> HIDE DEF e
<1>2. /\ relayS.st = "on" /\ relayS.pc[d] = "read" /\ T!HasData(tcp, e) /\ tcp' = T!Taken(tcp, e)
      /\ relayS' = [relayS EXCEPT !.pc[d] = "write", !.x[d] = <<Head(tcp[e].buf)>>]
  BY SameConnections DEF SR!CopyRead, e
<1>3. /\ Spares(tcp, tcp', e) /\ tcp'[e].buf = Tail(tcp[e].buf)
      /\ tcp[e].buf # <<>> /\ Head(tcp[e].buf) \in Data /\ Alive(tcp, e)
  BY <1>1, <1>2, ConnsOK, TakenSpares
<1>4. Copies(relayS, relayS', d, "write", <<Head(tcp[e].buf)>>)
  BY <1>1, <1>2, <1>3, CopyMoves DEF TypeOK
<1>5. <<Head(tcp[e].buf)>> # <<>> /\ Append(<<>>, Head(tcp[e].buf)) = <<Head(tcp[e].buf)>>
  OBVIOUS
<1>6. CopyInv(relayS') /\ relayS' \in SR!RelayType /\ relayS'.st = "on" /\ relayS.x[d] = <<>>
  BY <1>1, <1>2, <1>4, <1>5, CopiesKeep DEF RelayInv, Copies, CopyInv
<1>7. /\ TypeOK' /\ (UpFlow' /\ DownFlow' => IInv')
      /\ FromUser = relayS.x["ab"] /\ FromUser' = relayS'.x["ab"]
      /\ DsData = tcp["ds"].buf /\ DsData' = tcp'["ds"].buf
  BY <1>1, <1>2, <1>3, <1>6, ServerRelayMoves DEF Alive
<1>8. /\ Copying(relayS, d) /\ Copying(relayS', d) /\ relayC' = relayC
      /\ relayS'.x[d] = Append(relayS.x[d], Head(tcp[e].buf))
      /\ \A f \in {"ab", "ba"} : Copying(relayS', f) <=> Copying(relayS, f)
      /\ \A f \in {"ab", "ba"} : f # d => relayS'.x[f] = relayS.x[f]
  BY <1>2, <1>4, <1>5, <1>6 DEF Copies, Copying
<1>9. CASE d = "ab"
  <2>1. UpFlow'
    BY <1>1, <1>3, <1>7, <1>8, <1>9, UpMoved4
  <2>2. DownFlow'
    BY <1>1, <1>3, <1>7, <1>8, <1>9, ConnsOK, DownKept DEF Spares
  <2> QED  BY <1>7, <2>1, <2>2
<1>10. CASE d = "ba"
  <2>1. DownFlow'
    BY <1>1, <1>3, <1>7, <1>8, <1>10, DownMoved2
  <2>2. UpFlow'
    BY <1>1, <1>3, <1>7, <1>8, <1>10, ConnsOK, UpKept DEF Spares
  <2> QED  BY <1>7, <2>1, <2>2
<1> QED  BY <1>9, <1>10

LEMMA ServerWrites ==
    ASSUME IInv, NEW d \in {"ab", "ba"}, SR!CopyWrite(d),
           UNCHANGED <<frameVars, app, kind, sv, peeked, pend, dh, ch, relayC, ctxDone>>
    PROVE  IInv'
<1> DEFINE e == SR!Dst(d)
           v == Head(relayS.x[d])
<1>1. /\ TypeOK /\ ConnInv /\ RelayInv /\ UpFlow /\ DownFlow
      /\ e = (IF d = "ab" THEN "ds" ELSE "us") /\ e \in Ends
      /\ Peer[e] = (IF d = "ab" THEN "dc" ELSE "user") /\ Peer[e] \in Ends
  BY DEF IInv, SR!Dst, Ends, Peer
<1> HIDE DEF e
<1>2. /\ relayS.st = "on" /\ relayS.pc[d] = "write" /\ T!CanWrite(tcp, e) /\ tcp' = T!Written(tcp, e, v)
      /\ relayS' = [relayS EXCEPT !.pc[d] = "read", !.x[d] = <<>>]
  BY SameConnections DEF SR!CopyWrite, e
<1>3. relayS.x[d] # <<>> /\ v \in Data /\ Tail(relayS.x[d]) = <<>>
  <2>1. relayS.x[d] \in {<<>>} \cup {<<w>> : w \in Data}
    BY <1>1 DEF TypeOK, SR!RelayType, SR!Dirs
  <2>2. relayS.x[d] # <<>>
    BY <1>1, <1>2 DEF RelayInv, CopyInv
  <2> QED  BY <2>1, <2>2, UnitTyped
<1> HIDE DEF v
<1>4. /\ Spares(tcp, tcp', Peer[e])
      /\ Alive(tcp', Peer[e]) => tcp'[Peer[e]].buf = Append(tcp[Peer[e]].buf, v)
  BY <1>1, <1>2, <1>3, ConnsOK, WrittenSpares
<1>5. Copies(relayS, relayS', d, "read", <<>>)
  BY <1>1, <1>2, CopyMoves DEF TypeOK
<1>6. CopyInv(relayS') /\ relayS' \in SR!RelayType /\ relayS'.st = "on"
  <2>1. CopyInv(relayS) /\ "read" # "write"
    BY <1>1 DEF RelayInv
  <2>2. CopyInv(relayS')
    BY <1>2, <1>5, <2>1, CopiesKeep
  <2> QED  BY <1>2, <1>5, <2>2 DEF Copies
<1>7. /\ TypeOK' /\ (UpFlow' /\ DownFlow' => IInv')
      /\ FromUser = relayS.x["ab"] /\ FromUser' = relayS'.x["ab"]
      /\ DsData = tcp["ds"].buf /\ DsData' = tcp'["ds"].buf
  BY <1>1, <1>2, <1>4, <1>6, ServerRelayMoves
<1>8. /\ Copying(relayS, d) /\ Copying(relayS', d) /\ relayC' = relayC
      /\ relayS'.x[d] = Tail(relayS.x[d])
      /\ \A f \in {"ab", "ba"} : Copying(relayS', f) <=> Copying(relayS, f)
      /\ \A f \in {"ab", "ba"} : f # d => relayS'.x[f] = relayS.x[f]
  BY <1>2, <1>3, <1>5, <1>6 DEF Copies, Copying
<1>9. CASE d = "ab"
  <2>1. UpFlow'
    BY <1>1, <1>3, <1>4, <1>7, <1>8, <1>9, UpMoved3 DEF v
  <2>2. DownFlow'
    BY <1>1, <1>4, <1>7, <1>8, <1>9, ConnsOK, DownKept DEF Spares
  <2> QED  BY <1>7, <2>1, <2>2
<1>10. CASE d = "ba"
  <2>1. DownFlow'
    <3>1. Alive(tcp', "ds") => DsData' = DsData
      BY <1>1, <1>4, <1>7, <1>10, ConnsOK DEF Spares
    <3> QED  BY <1>1, <1>3, <1>4, <1>7, <1>8, <1>10, <3>1, DownMoved1 DEF v
  <2>2. UpFlow'
    BY <1>1, <1>4, <1>7, <1>8, <1>10, ConnsOK, UpKept DEF Spares
  <2> QED  BY <1>7, <2>1, <2>2
<1> QED  BY <1>9, <1>10

LEMMA TailAppend ==
    ASSUME NEW q \in Seq(Data), q # <<>>, NEW v \in Data
    PROVE  Tail(Append(q, v)) = Append(Tail(q), v) /\ Append(q, v) # <<>>
OBVIOUS

\* What a step of the client's relay leaves alone.
LEMMA ClientRelayMoves ==
    ASSUME IInv, relayC.st = "on", NEW e \in Ends, Spares(tcp, tcp', e),
           Alive(tcp', "ds") /\ tcp["ds"].buf # <<>> => tcp'["ds"].buf # <<>>,
           relayC' \in CR!RelayType, CopyInv(relayC'), relayC'.st # "off",
           UNCHANGED <<frameVars, app, kind, sv, peeked, pend, dh, ch, relayS, ctxDone>>
    PROVE  /\ TypeOK'
           /\ UpFlow' /\ DownFlow' => IInv'
           /\ FromUser' = FromUser
           /\ e # "ds" /\ Alive(tcp', "ds") => DsData' = DsData
           /\ Alive(tcp', "ds") => dh # "hello" \/ tcp["ds"].buf # <<>>
<1> USE DEF IInv
<1>1. FramesTypeOK' /\ CallsInv'
  BY FramesSame DEF TypeOK
<1>2. ch = "relay"
  BY DEF RelayInv
<1>3. TypeOK'
  BY <1>1 DEF TypeOK, Spares, Bounded
<1>4. ConnInv' /\ SentInv'
  BY ConnsOK DEF ConnInv, Spares, Conns, SentInv
<1>5. RelayInv' /\ PeekInv' /\ FromUser' = FromUser
  BY <1>2 DEF RelayInv, PeekInv, FromUser
<1>6. Alive(tcp', "ds") => Alive(tcp, "ds") /\ (e # "ds" => tcp'["ds"].buf = tcp["ds"].buf)
  BY ConnsOK DEF Spares
<1>7. HelloInv' /\ (Alive(tcp', "ds") => dh # "hello" \/ tcp["ds"].buf # <<>>)
  BY <1>2, <1>6 DEF HelloInv
<1>8. e # "ds" /\ Alive(tcp', "ds") => DsData' = DsData
  BY <1>6 DEF DsData
<1> QED  BY <1>1, <1>3, <1>4, <1>5, <1>7, <1>8

LEMMA ClientReads ==
    ASSUME IInv, NEW d \in {"ab", "ba"}, CR!CopyRead(d),
           UNCHANGED <<frameVars, app, kind, sv, peeked, pend, dh, ch, relayS, ctxDone>>
    PROVE  IInv'
<1> DEFINE e == CR!Src(d)
<1>1. /\ TypeOK /\ ConnInv /\ RelayInv /\ UpFlow /\ DownFlow
      /\ e = (IF d = "ab" THEN "lc" ELSE "dc") /\ e \in Ends /\ relayC \in SR!RelayType
  BY DEF IInv, CR!Src, Ends, TypeOK, SR!RelayType, CR!RelayType, SR!Dirs, CR!Dirs
<1> HIDE DEF e
<1>2. /\ relayC.st = "on" /\ relayC.pc[d] = "read" /\ T!HasData(tcp, e) /\ tcp' = T!Taken(tcp, e)
      /\ relayC' = [relayC EXCEPT !.pc[d] = "write", !.x[d] = <<Head(tcp[e].buf)>>]
  BY SameConnections DEF CR!CopyRead, e
<1>3. /\ Spares(tcp, tcp', e) /\ tcp'[e].buf = Tail(tcp[e].buf)
      /\ tcp[e].buf # <<>> /\ Head(tcp[e].buf) \in Data /\ Alive(tcp, e)
  BY <1>1, <1>2, ConnsOK, TakenSpares
<1>4. Copies(relayC, relayC', d, "write", <<Head(tcp[e].buf)>>)
  BY <1>1, <1>2, <1>3, CopyMoves
<1>5. <<Head(tcp[e].buf)>> # <<>> /\ Append(<<>>, Head(tcp[e].buf)) = <<Head(tcp[e].buf)>>
  OBVIOUS
<1>6. CopyInv(relayC') /\ relayC' \in SR!RelayType /\ relayC'.st = "on" /\ relayC.x[d] = <<>>
  <2>1. CopyInv(relayC) /\ relayC.st = "on" /\ relayC.pc[d] = "read"
    BY <1>1, <1>2 DEF RelayInv
  <2>2. CopyInv(relayC')
    BY <1>4, <1>5, <2>1 DEF CopyInv, Copies
  <2> QED  BY <1>4, <2>1, <2>2 DEF Copies, CopyInv
<1>7. /\ TypeOK' /\ (UpFlow' /\ DownFlow' => IInv')
      /\ FromUser' = FromUser /\ (Alive(tcp', "ds") => DsData' = DsData)
  <2>1. relayC' \in CR!RelayType
    BY <1>6 DEF SR!RelayType, CR!RelayType, SR!Dirs, CR!Dirs
  <2>2. e # "ds" /\ (Alive(tcp', "ds") => tcp'["ds"].buf = tcp["ds"].buf)
    BY <1>1, <1>3, ConnsOK DEF Spares
  <2> QED  BY <1>1, <1>2, <1>3, <1>6, <2>1, <2>2, ClientRelayMoves
<1>8. /\ Copying(relayC, d) /\ Copying(relayC', d) /\ relayS' = relayS
      /\ relayC'.x[d] = Append(relayC.x[d], Head(tcp[e].buf))
      /\ \A f \in {"ab", "ba"} : Copying(relayC', f) <=> Copying(relayC, f)
      /\ \A f \in {"ab", "ba"} : f # d => relayC'.x[f] = relayC.x[f]
  BY <1>2, <1>4, <1>5, <1>6 DEF Copies, Copying
<1>9. CASE d = "ab"
  <2>1. DownFlow'
    BY <1>1, <1>3, <1>7, <1>8, <1>9, DownMoved4
  <2>2. UpFlow'
    BY <1>1, <1>3, <1>7, <1>8, <1>9, ConnsOK, UpKept DEF Spares
  <2> QED  BY <1>7, <2>1, <2>2
<1>10. CASE d = "ba"
  <2>1. UpFlow'
    BY <1>1, <1>3, <1>7, <1>8, <1>10, UpMoved2
  <2>2. DownFlow'
    BY <1>1, <1>3, <1>7, <1>8, <1>10, ConnsOK, DownKept DEF Spares
  <2> QED  BY <1>7, <2>1, <2>2
<1> QED  BY <1>9, <1>10

LEMMA ClientWrites ==
    ASSUME IInv, NEW d \in {"ab", "ba"}, CR!CopyWrite(d),
           UNCHANGED <<frameVars, app, kind, sv, peeked, pend, dh, ch, relayS, ctxDone>>
    PROVE  IInv'
<1> DEFINE e == CR!Dst(d)
           v == Head(relayC.x[d])
<1>1. /\ TypeOK /\ ConnInv /\ RelayInv /\ UpFlow /\ DownFlow
      /\ e = (IF d = "ab" THEN "dc" ELSE "lc") /\ e \in Ends
      /\ Peer[e] = (IF d = "ab" THEN "ds" ELSE "service") /\ Peer[e] \in Ends
      /\ relayC \in SR!RelayType /\ tcp["ds"].buf \in Seq(Data)
  BY DEF IInv, CR!Dst, Ends, Peer, TypeOK, SR!RelayType, CR!RelayType, SR!Dirs, CR!Dirs, T!EndType
<1> HIDE DEF e
<1>2. /\ relayC.st = "on" /\ relayC.pc[d] = "write" /\ T!CanWrite(tcp, e) /\ tcp' = T!Written(tcp, e, v)
      /\ relayC' = [relayC EXCEPT !.pc[d] = "read", !.x[d] = <<>>]
  BY SameConnections DEF CR!CopyWrite, e
<1>3. relayC.x[d] # <<>> /\ v \in Data /\ Tail(relayC.x[d]) = <<>>
  <2>1. relayC.x[d] \in {<<>>} \cup {<<w>> : w \in Data}
    BY <1>1 DEF SR!RelayType, SR!Dirs
  <2>2. relayC.x[d] # <<>>
    BY <1>1, <1>2 DEF RelayInv, CopyInv
  <2> QED  BY <2>1, <2>2, UnitTyped
<1> HIDE DEF v
<1>4. /\ Spares(tcp, tcp', Peer[e])
      /\ Alive(tcp', Peer[e]) => tcp'[Peer[e]].buf = Append(tcp[Peer[e]].buf, v)
  BY <1>1, <1>2, <1>3, ConnsOK, WrittenSpares
<1>5. Copies(relayC, relayC', d, "read", <<>>)
  BY <1>1, <1>2, CopyMoves
<1>6. CopyInv(relayC') /\ relayC' \in SR!RelayType /\ relayC'.st = "on"
  <2>1. CopyInv(relayC) /\ "read" # "write"
    BY <1>1 DEF RelayInv
  <2>2. CopyInv(relayC')
    BY <1>2, <1>5, <2>1, CopiesKeep
  <2> QED  BY <1>2, <1>5, <2>2 DEF Copies
<1>7. /\ TypeOK' /\ (UpFlow' /\ DownFlow' => IInv')
      /\ FromUser' = FromUser /\ (Peer[e] # "ds" /\ Alive(tcp', "ds") => DsData' = DsData)
      /\ Alive(tcp', "ds") => dh # "hello" \/ tcp["ds"].buf # <<>>
  <2>1. relayC' \in CR!RelayType
    BY <1>6 DEF SR!RelayType, CR!RelayType, SR!Dirs, CR!Dirs
  <2>2. Alive(tcp', "ds") /\ tcp["ds"].buf # <<>> => tcp'["ds"].buf # <<>>
    BY <1>1, <1>3, <1>4, TailAppend, ConnsOK DEF Spares
  <2> QED  BY <1>1, <1>2, <1>4, <1>6, <2>1, <2>2, ClientRelayMoves
<1>8. /\ Copying(relayC, d) /\ Copying(relayC', d) /\ relayS' = relayS
      /\ relayC'.x[d] = Tail(relayC.x[d])
      /\ \A f \in {"ab", "ba"} : Copying(relayC', f) <=> Copying(relayC, f)
      /\ \A f \in {"ab", "ba"} : f # d => relayC'.x[f] = relayC.x[f]
  BY <1>2, <1>3, <1>5, <1>6 DEF Copies, Copying
<1>9. CASE d = "ab"
  <2>1. Alive(tcp', "ds") => DsData' = Append(DsData, v)
    <3> SUFFICES ASSUME Alive(tcp', "ds") PROVE DsData' = Append(DsData, v)
      OBVIOUS
    <3>1. tcp'["ds"].buf = Append(tcp["ds"].buf, v) /\ dh' = dh
      BY <1>1, <1>4, <1>9
    <3>2. CASE dh = "hello"
      BY <1>1, <1>3, <1>7, <3>1, <3>2, TailAppend DEF DsData
    <3>3. CASE dh # "hello"
      BY <3>1, <3>3 DEF DsData
    <3> QED  BY <3>2, <3>3
  <2>2. DownFlow'
    BY <1>1, <1>3, <1>4, <1>7, <1>8, <1>9, <2>1, DownMoved3 DEF v
  <2>3. UpFlow'
    BY <1>1, <1>4, <1>7, <1>8, <1>9, ConnsOK, UpKept DEF Spares
  <2> QED  BY <1>7, <2>2, <2>3
<1>10. CASE d = "ba"
  <2>1. UpFlow'
    BY <1>1, <1>3, <1>4, <1>7, <1>8, <1>10, UpMoved1 DEF v
  <2>2. DownFlow'
    BY <1>1, <1>4, <1>7, <1>8, <1>10, ConnsOK, DownKept DEF Spares
  <2> QED  BY <1>7, <2>1, <2>2
<1> QED  BY <1>9, <1>10

\* A copy ends, the deadlines are set, or the relay returns: data is only lost.
RelayLoses(r, s) == s \in SR!RelayType /\ CopyInv(s) /\ s.st # "off" /\ RelayDecays(r, s)

LEMMA CopyLoses ==
    ASSUME NEW r \in SR!RelayType, CopyInv(r), r.st = "on", NEW d \in {"ab", "ba"}
    PROVE  RelayLoses(r, [r EXCEPT !.pc[d] = "done", !.x[d] = <<>>, !.cancelled = TRUE])
<1> DEFINE s == [r EXCEPT !.pc[d] = "done", !.x[d] = <<>>, !.cancelled = TRUE]
<1>1. Copies(r, s, d, "done", <<>>)
  BY CopyMoves
<1> HIDE DEF s
<1>2. "done" # "write"
  OBVIOUS
<1>3. CopyInv(s)
  BY <1>1, <1>2, CopiesKeep
<1>4. RelayDecays(r, s)
  BY <1>1 DEF Copies, RelayDecays, Copying
<1> QED  BY <1>1, <1>3, <1>4 DEF RelayLoses, Copies, s

LEMMA WatchLoses ==
    ASSUME NEW r \in SR!RelayType, CopyInv(r), r.st = "on"
    PROVE  RelayLoses(r, [r EXCEPT !.watched = TRUE])
<1> DEFINE s == [r EXCEPT !.watched = TRUE]
<1>1. s \in SR!RelayType /\ s.st = r.st /\ s.pc = r.pc /\ s.x = r.x
  BY DEF SR!RelayType
<1> HIDE DEF s
<1> QED  BY <1>1 DEF RelayLoses, CopyInv, RelayDecays, Copying, s

LEMMA ReturnLoses ==
    ASSUME NEW r
    PROVE  /\ RelayLoses(r, [SR!NoRelay EXCEPT !.st = "returned"])
           /\ RelayLoses(r, [CR!NoRelay EXCEPT !.st = "returned"])
<1>1. ASSUME NEW s, s = [SR!NoRelay EXCEPT !.st = "returned"]
      PROVE  RelayLoses(r, s)
  <2>1. /\ s \in SR!RelayType /\ s.st = "returned"
        /\ \A d \in {"ab", "ba"} : s.pc[d] = "read" /\ s.x[d] = <<>>
    BY <1>1 DEF SR!NoRelay, SR!RelayType, SR!Dirs
  <2> QED  BY <2>1 DEF RelayLoses, CopyInv, RelayDecays, Copying
<1>2. CR!NoRelay = SR!NoRelay
  BY DEF CR!NoRelay, SR!NoRelay, CR!Dirs, SR!Dirs
<1> QED  BY <1>1, <1>2

LEMMA ServerLoses ==
    ASSUME IInv, relayS.st = "on", Decays(tcp, tcp'), RelayLoses(relayS, relayS'),
           UNCHANGED <<frameVars, app, kind, sv, peeked, pend, dh, ch, relayC, ctxDone>>
    PROVE  IInv'
<1>1. TypeOK /\ ConnInv /\ UpFlow /\ DownFlow /\ "us" \in Ends
  BY ConnsOK DEF IInv
<1>2. Spares(tcp, tcp', "us")
  BY <1>1, ConnsOK, DecaysSpares
<1>3. TypeOK' /\ (UpFlow' /\ DownFlow' => IInv')
  BY <1>1, <1>2, ServerRelayMoves DEF RelayLoses
<1>4. UpFlow' /\ DownFlow'
  BY <1>1, <1>3, RelaySame, FlowsDecay DEF RelayLoses
<1> QED  BY <1>3, <1>4

LEMMA ClientLoses ==
    ASSUME IInv, relayC.st = "on", Decays(tcp, tcp'), RelayLoses(relayC, relayC'),
           UNCHANGED <<frameVars, app, kind, sv, peeked, pend, dh, ch, relayS, ctxDone>>
    PROVE  IInv'
<1>1. TypeOK /\ ConnInv /\ UpFlow /\ DownFlow /\ "us" \in Ends /\ "ds" \in Ends
  BY ConnsOK DEF IInv
<1>2. Spares(tcp, tcp', "us") /\ (Alive(tcp', "ds") => tcp'["ds"].buf = tcp["ds"].buf)
  BY <1>1, ConnsOK, DecaysSpares DEF Decays
<1>3. relayC' \in CR!RelayType /\ CopyInv(relayC') /\ relayC'.st # "off"
  BY DEF RelayLoses, SR!RelayType, CR!RelayType, SR!Dirs, CR!Dirs
<1>4. TypeOK' /\ (UpFlow' /\ DownFlow' => IInv')
  BY <1>1, <1>2, <1>3, ClientRelayMoves
<1>5. UpFlow' /\ DownFlow'
  BY <1>1, <1>4, RelaySame, FlowsDecay DEF RelayLoses
<1> QED  BY <1>4, <1>5

\* Both ends of a relay close or expire.
LEMMA BothDecay ==
    ASSUME NEW t, Conns(t), NEW e \in Ends, NEW f \in Ends
    PROVE  Decays(t, T!Closed(T!Closed(t, e), f)) /\ Decays(t, T!Expired(T!Expired(t, e), f))
<1>1. Decays(t, T!Closed(t, e)) /\ Conns(T!Closed(t, e))
  BY ClosedDecays, DecaysConns
<1>2. Decays(t, T!Expired(t, e)) /\ Conns(T!Expired(t, e))
  BY ExpiredDecays, DecaysConns
<1>3. Decays(T!Closed(t, e), T!Closed(T!Closed(t, e), f))
  BY <1>1, ClosedDecays
<1>4. Decays(T!Expired(t, e), T!Expired(T!Expired(t, e), f))
  BY <1>2, ExpiredDecays
<1> QED  BY <1>1, <1>2, <1>3, <1>4, DecaysAgain

LEMMA RelayOnServerStep ==
    ASSUME IInv, RelayOnServer
    PROVE  IInv'
<1>1. /\ UNCHANGED <<frameVars, app, kind, sv, peeked, pend, dh, ch, relayC, ctxDone>>
      /\ SR!RelayStep /\ SR!Dirs = {"ab", "ba"}
  BY DEF RelayOnServer, SR!Dirs
<1>2. Conns(tcp) /\ "us" \in Ends /\ "ds" \in Ends /\ relayS \in SR!RelayType /\ CopyInv(relayS)
  BY ConnsOK DEF IInv, TypeOK, RelayInv
<1>3. ASSUME NEW d \in {"ab", "ba"}, SR!CopyRead(d) PROVE IInv'
  BY <1>1, <1>3, ServerReads
<1>4. ASSUME NEW d \in {"ab", "ba"}, SR!CopyWrite(d) PROVE IInv'
  BY <1>1, <1>4, ServerWrites
<1>5. ASSUME NEW d \in {"ab", "ba"}, SR!CopyEnds(d) PROVE IInv'
  <2>1. relayS.st = "on" /\ RelayLoses(relayS, relayS')
    BY <1>2, <1>5, CopyLoses DEF SR!CopyEnds
  <2>2. tcp' = T!ShutWrite(tcp, SR!Dst(d)) /\ SR!Dst(d) \in Ends
    BY <1>2, <1>5, SameConnections DEF SR!CopyEnds, SR!Dst
  <2>3. Decays(tcp, tcp')
    BY <1>2, <2>2, ShutWriteDecays
  <2> QED  BY <1>1, <2>1, <2>3, ServerLoses
<1>6. CASE SR!Watch
  <2>1. relayS.st = "on" /\ RelayLoses(relayS, relayS')
    BY <1>2, <1>6, WatchLoses DEF SR!Watch
  <2>2. tcp' = T!Expired(T!Expired(tcp, "us"), "ds")
    BY <1>6, SameConnections DEF SR!Watch
  <2> QED  BY <1>1, <1>2, <2>1, <2>2, BothDecay, ServerLoses
<1>7. CASE SR!Return
  <2>1. relayS.st = "on" /\ RelayLoses(relayS, relayS')
    BY <1>7, ReturnLoses DEF SR!Return
  <2>2. tcp' = T!Closed(T!Closed(tcp, "us"), "ds")
    BY <1>7, SameConnections DEF SR!Return
  <2> QED  BY <1>1, <1>2, <2>1, <2>2, BothDecay, ServerLoses
<1> QED  BY <1>1, <1>3, <1>4, <1>5, <1>6, <1>7 DEF SR!RelayStep

LEMMA RelayOnClientStep ==
    ASSUME IInv, RelayOnClient
    PROVE  IInv'
<1>1. /\ UNCHANGED <<frameVars, app, kind, sv, peeked, pend, dh, ch, relayS, ctxDone>>
      /\ CR!RelayStep /\ CR!Dirs = {"ab", "ba"}
  BY DEF RelayOnClient, CR!Dirs
<1>2. Conns(tcp) /\ "lc" \in Ends /\ "dc" \in Ends /\ relayC \in SR!RelayType /\ CopyInv(relayC)
  BY ConnsOK DEF IInv, TypeOK, RelayInv, SR!RelayType, CR!RelayType, SR!Dirs, CR!Dirs
<1>3. ASSUME NEW d \in {"ab", "ba"}, CR!CopyRead(d) PROVE IInv'
  BY <1>1, <1>3, ClientReads
<1>4. ASSUME NEW d \in {"ab", "ba"}, CR!CopyWrite(d) PROVE IInv'
  BY <1>1, <1>4, ClientWrites
<1>5. ASSUME NEW d \in {"ab", "ba"}, CR!CopyEnds(d) PROVE IInv'
  <2>1. relayC.st = "on" /\ RelayLoses(relayC, relayC')
    BY <1>2, <1>5, CopyLoses DEF CR!CopyEnds
  <2>2. tcp' = T!ShutWrite(tcp, CR!Dst(d)) /\ CR!Dst(d) \in Ends
    BY <1>2, <1>5, SameConnections DEF CR!CopyEnds, CR!Dst
  <2>3. Decays(tcp, tcp')
    BY <1>2, <2>2, ShutWriteDecays
  <2> QED  BY <1>1, <2>1, <2>3, ClientLoses
<1>6. CASE CR!Watch
  <2>1. relayC.st = "on" /\ RelayLoses(relayC, relayC')
    BY <1>2, <1>6, WatchLoses DEF CR!Watch
  <2>2. tcp' = T!Expired(T!Expired(tcp, "lc"), "dc")
    BY <1>6, SameConnections DEF CR!Watch
  <2> QED  BY <1>1, <1>2, <2>1, <2>2, BothDecay, ClientLoses
<1>7. CASE CR!Return
  <2>1. relayC.st = "on" /\ RelayLoses(relayC, relayC')
    BY <1>7, ReturnLoses DEF CR!Return
  <2>2. tcp' = T!Closed(T!Closed(tcp, "lc"), "dc")
    BY <1>7, SameConnections DEF CR!Return
  <2> QED  BY <1>1, <1>2, <2>1, <2>2, BothDecay, ClientLoses
<1> QED  BY <1>1, <1>3, <1>4, <1>5, <1>6, <1>7 DEF CR!RelayStep

-----------------------------------------------------------------------------
(* The specification.                                                      *)

LEMMA InitOK == Init => IInv
<1> SUFFICES ASSUME Init PROVE IInv
  OBVIOUS
<1>1. FramesTypeOK /\ CallsInv
  <2>1. 0 \in 0..BodyLen /\ <<>> \in Seq(Units)
    BY BodyLenAssumption
  <2>2. AtLength \in [pc : {"length", "body", "failed"}, msg : Msgs \cup {NoMsg}, n : 0..BodyLen,
            ok : BOOLEAN]
    BY <2>1 DEF AtLength
  <2>3. IdleCall \in [pc : {"idle", "length", "body", "ok", "err"}, msg : Msgs \cup {NoMsg}]
        /\ IdleCall.pc = "idle"
    BY DEF IdleCall
  <2> QED  BY <2>1, <2>2, <2>3 DEF Init, FramesInit, FramesTypeOK, CallsInv
<1>2. /\ tcp = [e \in Ends |-> T!NoConn] /\ T!NoConn \in T!EndType
      /\ T!NoConn.buf = <<>> /\ T!NoConn.st = "none" /\ ~T!NoConn.rst /\ ~T!NoConn.late
  BY EmptyBuffer DEF Init, T!NoConn, T!EndType
<1>3. /\ SR!NoRelay \in SR!RelayType /\ SR!NoRelay.st = "off"
      /\ \A d \in {"ab", "ba"} : SR!NoRelay.pc[d] = "read" /\ SR!NoRelay.x[d] = <<>>
  BY DEF SR!NoRelay, SR!RelayType, SR!Dirs
<1>4. /\ CR!NoRelay \in CR!RelayType /\ CR!NoRelay.st = "off"
      /\ \A d \in {"ab", "ba"} : CR!NoRelay.pc[d] = "read" /\ CR!NoRelay.x[d] = <<>>
  BY DEF CR!NoRelay, CR!RelayType, CR!Dirs
<1>5. /\ relayS = SR!NoRelay /\ relayC = CR!NoRelay /\ sv = "idle" /\ peeked = <<>> /\ pend = "none"
      /\ dh = "none" /\ ch = "idle" /\ ctxDone = FALSE /\ kind \in {"tcp", "https"}
      /\ app = [e \in Apps |-> [sent |-> 0, rcvd |-> <<>>]]
  BY DEF Init
<1>6. /\ app \in [Apps -> [sent : 0..(MaxUp + MaxDown), rcvd : Seq(Data)]]
      /\ app["user"].sent = 0 /\ app["service"].sent = 0
      /\ app["user"].rcvd = <<>> /\ app["service"].rcvd = <<>>
  <2>1. 0 \in 0..(MaxUp + MaxDown)
    BY PathAssumption
  <2> QED  BY <1>5, <2>1, EmptyBuffer DEF Apps
<1>7. {"user", "us", "ds", "dc", "lc", "service"} = Ends /\ Len(<<>>) = 0 /\ 0 <= Cap
  BY PathAssumption DEF Ends
<1>8. TypeOK
  BY <1>1, <1>2, <1>3, <1>4, <1>5, <1>6, <1>7 DEF TypeOK
<1>9. ConnInv
  BY <1>2, <1>5, <1>7, PeerFacts DEF ConnInv
<1>10. RelayInv /\ PeekInv /\ SentInv /\ HelloInv
  BY <1>3, <1>4, <1>5, <1>6, PathAssumption DEF RelayInv, CopyInv, PeekInv, SentInv, HelloInv
<1>11. ASSUME NEW e, NEW c \in 0..5
       PROVE  Flow(e, <<>>, <<>>, <<>>, <<>>, <<>>, <<>>, c, 0)
  <2>1. Run(<<>>, 0, e)
    BY <1>7 DEF Run
  <2> QED  BY <1>7, <2>1 DEF Flow
<1>12. FromUser = <<>> /\ DsData = <<>> /\ \A e \in Ends : tcp[e].buf = <<>>
  BY <1>2, <1>3, <1>5, <1>7 DEF FromUser, DsData
<1>13. UpIntact(tcp, relayC, relayS) \in 0..5 /\ DownIntact(tcp, relayC, relayS) \in 0..5
  BY DEF UpIntact, DownIntact
<1>14. UpFlow /\ DownFlow
  BY <1>3, <1>4, <1>5, <1>6, <1>7, <1>11, <1>12, <1>13 DEF UpFlow, DownFlow
<1> QED  BY <1>1, <1>8, <1>9, <1>10, <1>14 DEF IInv

LEMMA NextOK == IInv /\ [Next]_vars => IInv'
<1> SUFFICES ASSUME IInv, [Next]_vars PROVE IInv'
  OBVIOUS
<1>1. CASE ServerStep
  BY <1>1, PeekStep, PeekFailsStep, SendOpenStep, OpenSentStep, TakeDataStep, GiveUpWaitingStep,
     ReplayStep, ReplayFailsStep, ReadHelloStep, HelloFailsStep, RelayOnServerStep DEF ServerStep
<1>2. CASE ClientStep
  BY <1>2, CtrlReadStep, WriteHelloStep, RelayOnClientStep, DialServerStep, DialLocalStep
     DEF ClientStep
<1>3. CASE WriterStep \/ Ping \/ CtrlBreaks
  BY <1>3, FramesStep DEF WriterStep
<1>4. CASE Accept \/ DataBreaks \/ ContextEnds
  BY <1>4, AcceptStep, DataBreaksStep, ContextEndsStep
<1>5. ASSUME NEW e \in Apps, AppSend(e) \/ AppReceive(e) \/ AppEnds(e) PROVE IInv'
  BY <1>5, AppSendStep, AppReceiveStep, AppEndsStep
<1>6. CASE UNCHANGED vars
  BY <1>6, StutterStep
<1> QED  BY <1>1, <1>2, <1>3, <1>4, <1>5, <1>6 DEF Next

\* IInv holds in every state.
THEOREM Invariance == Spec => []IInv
<1> QED  BY InitOK, NextOK, PTL DEF Spec

\* What is received is a prefix of what was sent.
LEMMA ReceivedIsPrefix ==
    ASSUME NEW e \in Apps, NEW r \in Seq(Data), app[e].sent \in Nat,
           \A k \in 1..app[e].sent : Payload(e, k) \in Data,
           Run(r, 0, e), Len(r) <= app[e].sent
    PROVE  IsPrefixOf(r, SentBy(e))
<1> DEFINE n == app[e].sent
           s == SentBy(e)
<1>1. s \in Seq(Data) /\ Len(s) = n /\ \A k \in 1..n : s[k] = Payload(e, k)
  <2>1. s = [k \in 1..n |-> Payload(e, k)]
    BY DEF SentBy
  <2> HIDE DEF s
  <2>2. s \in Seq(Data)
    BY <2>1, IsASeq
  <2> QED  BY <2>1, <2>2
<1>2. \A k \in 1..Len(r) : r[k] = s[k]
  <2> SUFFICES ASSUME NEW k \in 1..Len(r) PROVE r[k] = s[k]
    OBVIOUS
  <2>1. k \in 1..n /\ 0 + k = k
    OBVIOUS
  <2> QED  BY <1>1, <2>1 DEF Run
<1> HIDE DEF s, n
<1>3. Len(r) \in 0..Len(s) /\ 1 \in 1..(Len(s) + 1)
  BY <1>1 DEF n
<1>4. /\ SubSeq(s, 1, Len(r)) \in Seq(Data) /\ Len(SubSeq(s, 1, Len(r))) = Len(r)
      /\ \A k \in 1..Len(r) : SubSeq(s, 1, Len(r))[k] = s[k]
  BY <1>1, <1>3
<1>5. r = SubSeq(s, 1, Len(r))
  BY <1>2, <1>4, SeqEqual
<1> QED  BY <1>1, <1>3, <1>5 DEF IsPrefixOf, n, s

\* Whatever the size of the buffers and the amount of data, each side receives a
\* prefix of what the other sent: the ClientHello that peekSNI took first and once,
\* and never the hello that opened the data connection.
THEOREM StreamsArePrefixes == Spec => []StreamsIntact
<1>1. IInv => StreamsIntact
  <2> SUFFICES ASSUME IInv PROVE StreamsIntact
    OBVIOUS
  <2>1. TypeOK /\ SentInv /\ UpFlow /\ DownFlow /\ FlowTypes
    BY FlowTyped DEF IInv
  <2>2. /\ Run(app["service"].rcvd, 0, "user") /\ Len(app["service"].rcvd) <= app["user"].sent
        /\ Run(app["user"].rcvd, 0, "service") /\ Len(app["user"].rcvd) <= app["service"].sent
    BY <2>1 DEF UpFlow, DownFlow, Flow
  <2>3. /\ app["user"].rcvd \in Seq(Data) /\ app["service"].rcvd \in Seq(Data)
        /\ app["user"].sent \in Nat /\ app["service"].sent \in Nat
    BY <2>1 DEF FlowTypes, FlowArgs
  <2>4. \A k \in 1..app["user"].sent : Payload("user", k) \in Data
    <3>1. \A k \in 1..app["user"].sent : k \in 1..MaxUp
      BY <2>1, <2>3, PathAssumption DEF SentInv
    <3> QED  BY <3>1 DEF Data
  <2>5. \A k \in 1..app["service"].sent : Payload("service", k) \in Data
    <3>1. \A k \in 1..app["service"].sent : k \in 1..MaxDown
      BY <2>1, <2>3, PathAssumption DEF SentInv
    <3> QED  BY <3>1 DEF Data
  <2>6. "user" \in Apps /\ "service" \in Apps
    BY DEF Apps
  <2>7. IsPrefixOf(app["service"].rcvd, SentBy("user"))
    BY <2>2, <2>3, <2>4, <2>6, ReceivedIsPrefix
  <2>8. IsPrefixOf(app["user"].rcvd, SentBy("service"))
    BY <2>2, <2>3, <2>5, <2>6, ReceivedIsPrefix
  <2> QED  BY <2>1, <2>7, <2>8 DEF StreamsIntact
<1> QED  BY <1>1, Invariance, PTL

-----------------------------------------------------------------------------
(* The control connection implements the channel of whole messages.        *)

\* A set of numbers that has 0 and with every number the next one has them all.
LEMMA NatSetInduction ==
    ASSUME NEW S \in SUBSET Nat, 0 \in S, \A n \in S : n + 1 \in S
    PROVE  S = Nat
<1> DEFINE U == Nat \ S
           R == OpToRel(<, Nat)
<1> SUFFICES ASSUME U # {} PROVE FALSE
  OBVIOUS
<1>1. IsWellFoundedOn(R, Nat)
  BY NatLessThanWellFounded
<1> HIDE DEF R
<1>2. PICK x \in U : \A y \in U : ~ (<<y, x>> \in R)
  BY <1>1, WFMin, Zenon
<1>3. \A y \in Nat : y < x => <<y, x>> \in R
  BY <1>2, Zenon DEF R, OpToRel
<1>4. x # 0
  BY <1>2
<1>5. x - 1 \in Nat /\ x - 1 < x /\ x - 1 + 1 = x
  BY <1>2, <1>4
<1>6. x - 1 \in S
  BY <1>2, <1>3, <1>5
<1> QED
  BY <1>6, <1>5, <1>2

\* u follows the definition of Whole on the first n units of s.
Counts(u, s, n) == u = [k \in 0..n |-> IF k = 0 THEN <<>> ELSE WithUnit(u[k - 1], s[k])]

\* The same, unit by unit.
GoesOn(u, s, n) == u[0] = <<>> /\ \A k \in 1..n : u[k] = WithUnit(u[k - 1], s[k])

\* The two say the same of a function.
LEMMA CountsEach ==
    ASSUME NEW u, NEW s, NEW n \in Nat
    PROVE  Counts(u, s, n) <=>
               /\ u = [k \in 0..n |-> u[k]]
               /\ GoesOn(u, s, n)
<1> DEFINE w == [k \in 0..n |-> IF k = 0 THEN <<>> ELSE WithUnit(u[k - 1], s[k])]
<1>1. w = [k \in 0..n |-> w[k]] /\ w[0] = <<>>
  OBVIOUS
<1>2. \A k \in 1..n : k \in 0..n /\ k # 0
  OBVIOUS
<1>3. \A k \in 1..n : w[k] = WithUnit(u[k - 1], s[k])
  BY <1>2
<1>4. \A k \in 0..n : k = 0 \/ k \in 1..n
  OBVIOUS
<1> HIDE DEF w
<1>5. Counts(u, s, n) <=> u = w
  BY DEF Counts, w
<1>6. u = w => /\ u = [k \in 0..n |-> u[k]]
               /\ u[0] = <<>>
               /\ \A k \in 1..n : u[k] = WithUnit(u[k - 1], s[k])
  BY <1>1, <1>3, Zenon
<1>7. ASSUME u = [k \in 0..n |-> u[k]], u[0] = <<>>,
             \A k \in 1..n : u[k] = WithUnit(u[k - 1], s[k])
      PROVE  u = w
  <2>1. \A k \in 0..n : u[k] = w[k]
    BY <1>1, <1>3, <1>4, <1>7, Zenon
  <2> QED  BY <2>1, <1>1, <1>7, Zenon
<1> QED  BY <1>5, <1>6, <1>7 DEF GoesOn

\* There is one for the first m units, whatever m: by induction.
LEMMA CountsExists ==
    ASSUME NEW s \in Seq(Units), NEW m \in Nat, m <= Len(s)
    PROVE  \E u \in [0..m -> Seq(Msgs)] : Counts(u, s, m)
<1> DEFINE S == {n \in Nat : n <= Len(s) => \E u \in [0..n -> Seq(Msgs)] : Counts(u, s, n)}
<1>1. 0 \in S
  <2> DEFINE u == [k \in 0..0 |-> <<>>]
  <2>1. /\ u \in [0..0 -> Seq(Msgs)] /\ u = [k \in 0..0 |-> u[k]] /\ u[0] = <<>>
        /\ 0 \in Nat /\ 1..0 = {}
    OBVIOUS
  <2> HIDE DEF u
  <2>2. Counts(u, s, 0)
    BY <2>1, CountsEach DEF GoesOn
  <2> QED  BY <2>1, <2>2
<1>2. ASSUME NEW n \in S PROVE n + 1 \in S
  <2> SUFFICES ASSUME n + 1 <= Len(s)
               PROVE  \E w \in [0..n + 1 -> Seq(Msgs)] : Counts(w, s, n + 1)
    OBVIOUS
  <2>1. PICK u \in [0..n -> Seq(Msgs)] : Counts(u, s, n)
    OBVIOUS
  <2>2. /\ n \in Nat /\ n \in 0..n /\ n + 1 \in 1..Len(s) /\ s[n + 1] \in Units /\ n + 1 - 1 = n
        /\ \A k \in 0..n + 1 : k \in 0..n \/ k = n + 1
        /\ \A k \in 1..n + 1 : (k \in 1..n /\ k # n + 1) \/ k = n + 1
        /\ \A k \in 1..n + 1 : k \in 0..n + 1 /\ k - 1 \in 0..n
        /\ 0 \in 0..n /\ 0 # n + 1 /\ \A k \in 0..n : k # n + 1 /\ k \in 0..n + 1
        /\ n + 1 \in Nat /\ \A k \in 1..n : k \in 0..n
    OBVIOUS
  <2> DEFINE next == WithUnit(u[n], s[n + 1])
             w == [k \in 0..n + 1 |-> IF k = n + 1 THEN next ELSE u[k]]
  <2>3. next \in Seq(Msgs)
    <3>1. u[n] \in Seq(Msgs) /\ s[n + 1].msg \in Msgs
      BY <2>2 DEF Units
    <3> QED  BY <3>1 DEF WithUnit
  <2> HIDE DEF next
  <2>4. /\ w \in [0..n + 1 -> Seq(Msgs)] /\ w[n + 1] = next /\ \A k \in 0..n : w[k] = u[k]
        /\ w = [k \in 0..n + 1 |-> w[k]]
    BY <2>2, <2>3
  <2> HIDE DEF w
  <2>5. u[0] = <<>> /\ \A k \in 1..n : u[k] = WithUnit(u[k - 1], s[k])
    <3>1. GoesOn(u, s, n)
      BY <2>1, CountsEach
    <3> QED  BY ONLY <3>1 DEF GoesOn
  <2>6. \A k \in 1..n + 1 : w[k] = WithUnit(w[k - 1], s[k])
    <3> TAKE k \in 1..n + 1
    <3>1. w[k - 1] = u[k - 1]
      BY <2>2, <2>4
    <3>2. CASE k \in 1..n
      <4>1. w[k] = u[k]
        BY <2>2, <2>4, <3>2
      <4> QED  BY <2>5, <3>1, <3>2, <4>1
    <3>3. CASE k = n + 1
      BY <2>2, <2>4, <3>1, <3>3 DEF next
    <3> QED  BY <2>2, <3>2, <3>3
  <2>7. Counts(w, s, n + 1)
    <3>1. w[0] = <<>>
      BY <2>2, <2>4, <2>5
    <3> QED  BY <2>2, <2>4, <2>6, <3>1, CountsEach DEF GoesOn
  <2> QED  BY <2>4, <2>7
<1>3. S \in SUBSET Nat
  OBVIOUS
<1> HIDE DEF S
<1>4. S = Nat
  BY <1>1, <1>2, <1>3, NatSetInduction
<1> QED  BY <1>4 DEF S

\* Two functions that start alike and go on alike are alike.
LEMMA CountsSame ==
    ASSUME NEW u, NEW w, NEW s, NEW t, NEW m \in Nat, GoesOn(u, s, m), GoesOn(w, t, m),
           \A k \in 1..m : s[k] = t[k]
    PROVE  \A k \in 0..m : u[k] = w[k]
<1> DEFINE S == {n \in Nat : n <= m => u[n] = w[n]}
<1>1. ASSUME NEW n \in S PROVE n + 1 \in S
  <2> SUFFICES ASSUME n + 1 <= m PROVE u[n + 1] = w[n + 1]
    OBVIOUS
  <2> DEFINE k == n + 1
  <2>1. k \in 1..m /\ u[k - 1] = w[k - 1]
    OBVIOUS
  <2> HIDE DEF S, k
  <2>2. u[k] = w[k]
    BY <2>1 DEF GoesOn
  <2> QED  BY <2>2 DEF k
<1>2. 0 \in S /\ S \in SUBSET Nat
  BY DEF GoesOn
<1> HIDE DEF S
<1>3. S = Nat
  BY <1>1, <1>2, NatSetInduction
<1> QED  BY <1>3 DEF S

\* What Whole counts is a sequence of messages.
LEMMA WholeCounts ==
    ASSUME NEW s \in Seq(Units)
    PROVE  \E u \in [0..Len(s) -> Seq(Msgs)] : GoesOn(u, s, Len(s)) /\ Whole(s) = u[Len(s)]
<1> DEFINE u == CHOOSE u : Counts(u, s, Len(s))
<1>1. Len(s) \in Nat /\ Len(s) \in 0..Len(s) /\ Len(s) <= Len(s)
  OBVIOUS
<1>2. PICK w : w \in [0..Len(s) -> Seq(Msgs)] /\ Counts(w, s, Len(s))
  BY <1>1, CountsExists
<1>3. Counts(u, s, Len(s))
  BY <1>2, Zenon
<1>4. Whole(s) = u[Len(s)]
  BY DEF Whole, Counts
<1> HIDE DEF u
<1>5. GoesOn(u, s, Len(s)) /\ GoesOn(w, s, Len(s))
  BY <1>1, <1>2, <1>3, CountsEach
<1>6. u[Len(s)] = w[Len(s)]
  BY <1>1, <1>5, CountsSame
<1> QED  BY <1>2, <1>4, <1>5, <1>6

\* Units that are no last ones may follow, and then a last one.
LEMMA WholeExtends ==
    ASSUME NEW s \in Seq(Units), NEW t \in Seq(Units), Len(s) < Len(t),
           \A k \in 1..Len(s) : t[k] = s[k],
           \A k \in Len(s) + 1..Len(t) - 1 : t[k].i # BodyLen
    PROVE  Whole(t) = WithUnit(Whole(s), t[Len(t)])
<1>1. PICK u \in [0..Len(s) -> Seq(Msgs)] : GoesOn(u, s, Len(s)) /\ Whole(s) = u[Len(s)]
  BY WholeCounts
<1>2. PICK w \in [0..Len(t) -> Seq(Msgs)] : GoesOn(w, t, Len(t)) /\ Whole(t) = w[Len(t)]
  BY WholeCounts
<1>3. \A k \in 0..Len(s) : u[k] = w[k]
  <2>1. Len(s) \in Nat /\ \A k \in 1..Len(s) : k \in 1..Len(t)
    OBVIOUS
  <2>2. GoesOn(w, t, Len(s))
    BY <1>2, <2>1 DEF GoesOn
  <2> QED  BY <1>1, <2>1, <2>2, CountsSame
<1> DEFINE S == {n \in Nat : Len(s) + n < Len(t) => w[Len(s) + n] = Whole(s)}
<1>4. 0 \in S /\ S \in SUBSET Nat
  <2>1. Len(s) + 0 = Len(s) /\ Len(s) \in 0..Len(s)
    OBVIOUS
  <2> QED  BY <2>1, <1>1, <1>3
<1>5. ASSUME NEW n \in S PROVE n + 1 \in S
  <2> SUFFICES ASSUME Len(s) + (n + 1) < Len(t) PROVE w[Len(s) + (n + 1)] = Whole(s)
    OBVIOUS
  <2> DEFINE k == Len(s) + (n + 1)
  <2>1. /\ k \in 1..Len(t) /\ k \in Len(s) + 1..Len(t) - 1 /\ k - 1 = Len(s) + n
        /\ w[Len(s) + n] = Whole(s)
    OBVIOUS
  <2> HIDE DEF k, S
  <2>2. w[k] = WithUnit(w[k - 1], t[k]) /\ t[k].i # BodyLen
    BY <1>2, <2>1 DEF GoesOn
  <2> QED  BY <2>1, <2>2 DEF WithUnit, k
<1> HIDE DEF S
<1>6. S = Nat
  BY <1>4, <1>5, NatSetInduction
<1>7. Len(t) - 1 - Len(s) \in Nat /\ Len(s) + (Len(t) - 1 - Len(s)) = Len(t) - 1 /\ Len(t) \in 1..Len(t)
      /\ Len(s) + (Len(t) - 1 - Len(s)) < Len(t)
  OBVIOUS
<1>8. w[Len(t) - 1] = Whole(s)
  BY <1>6, <1>7 DEF S
<1> QED  BY <1>2, <1>7, <1>8 DEF GoesOn

\* What is appended behind goes behind what was put in front.
LEMMA AppendMoves ==
    \A f \in Seq(Msgs) : \A x \in Seq(Msgs) : \A m \in Msgs :
       Append(f \o x, m) = f \o Append(x, m)
OBVIOUS

\* The first message goes with its last unit.
LEMMA WholeTail ==
    ASSUME NEW s \in Seq(Units), s # <<>>
    PROVE  /\ Whole(s) \in Seq(Msgs)
           /\ Head(s).i # BodyLen => Whole(Tail(s)) = Whole(s)
           /\ Head(s).i = BodyLen => /\ Whole(s) # <<>> /\ Head(Whole(s)) = Head(s).msg
                                     /\ Whole(Tail(s)) = Tail(Whole(s))
<1> DEFINE t == Tail(s)
           first == IF Head(s).i = BodyLen THEN <<Head(s).msg>> ELSE <<>>
<1>1. /\ t \in Seq(Units) /\ Len(t) \in Nat /\ Len(s) = Len(t) + 1 /\ Head(s) = s[1] /\ s[1] \in Units
      /\ \A k \in 1..Len(t) : t[k] = s[k + 1] /\ t[k] \in Units
  OBVIOUS
<1>2. PICK u \in [0..Len(s) -> Seq(Msgs)] : GoesOn(u, s, Len(s)) /\ Whole(s) = u[Len(s)]
  BY WholeCounts
<1> HIDE DEF t
<1>3. PICK w \in [0..Len(t) -> Seq(Msgs)] : GoesOn(w, t, Len(t)) /\ Whole(t) = w[Len(t)]
  BY <1>1, WholeCounts
<1>4. first \in Seq(Msgs) /\ first = u[1]
  <2>1. s[1].msg \in Msgs
    BY <1>1 DEF Units
  <2>2. 1 \in 1..Len(s) /\ 1 - 1 = 0
    BY <1>1
  <2>3. u[1] = WithUnit(<<>>, s[1])
    BY <1>2, <2>2 DEF GoesOn
  <2> QED  BY <1>1, <2>1, <2>3 DEF WithUnit
<1> HIDE DEF first
<1> DEFINE S == {n \in Nat : n <= Len(t) => u[n + 1] = first \o w[n]}
<1>5. 0 \in S /\ S \in SUBSET Nat
  <2>1. first \o <<>> = first /\ 0 + 1 = 1
    BY <1>4
  <2> QED  BY <1>3, <1>4, <2>1 DEF GoesOn
<1>6. ASSUME NEW n \in S PROVE n + 1 \in S
  <2> SUFFICES ASSUME n + 1 <= Len(t) PROVE u[n + 1 + 1] = first \o w[n + 1]
    OBVIOUS
  <2> DEFINE k == n + 1
  <2>1. /\ k \in 1..Len(t) /\ k + 1 \in 1..Len(s) /\ k + 1 - 1 = k /\ k - 1 \in 0..Len(t)
        /\ u[k] = first \o w[k - 1]
    BY <1>1
  <2> HIDE DEF S, k
  <2>5. /\ u[k + 1] = WithUnit(u[k + 1 - 1], s[k + 1])
        /\ w[k] = WithUnit(w[k - 1], t[k])
    BY <1>2, <1>3, <2>1 DEF GoesOn
  <2>6. s[k + 1] = t[k] /\ w[k - 1] \in Seq(Msgs) /\ t[k] \in Units
    BY <1>1, <2>1
  <2>2. /\ u[k + 1] = WithUnit(u[k], s[k + 1]) /\ s[k + 1] = t[k]
        /\ w[k] = WithUnit(w[k - 1], t[k])
        /\ w[k - 1] \in Seq(Msgs) /\ t[k].msg \in Msgs
    BY <2>1, <2>5, <2>6 DEF Units
  <2>3. \A x \in Seq(Msgs) : \A m \in Msgs : Append(first \o x, m) = first \o Append(x, m)
    BY ONLY <1>4, AppendMoves, Zenon
  <2>4. u[k + 1] = first \o w[k]
    BY <2>1, <2>2, <2>3, Zenon DEF WithUnit
  <2> QED  BY <2>4 DEF k
<1> HIDE DEF S
<1>7. S = Nat
  BY <1>5, <1>6, NatSetInduction
<1>8. Whole(s) = first \o Whole(t) /\ Whole(t) \in Seq(Msgs)
  <2>1. Len(t) \in Nat /\ Len(t) \in S /\ Len(t) \in 0..Len(t) /\ Len(t) <= Len(t)
    BY <1>1, <1>7
  <2>2. u[Len(t) + 1] = first \o w[Len(t)]
    BY ONLY <2>1 DEF S
  <2>3. w[Len(t)] \in Seq(Msgs)
    BY <1>3, <2>1
  <2> QED  BY ONLY <1>1, <1>2, <1>3, <2>2, <2>3
<1>9. \A q \in Seq(Msgs) : <<>> \o q = q
  OBVIOUS
<1>10. \A q \in Seq(Msgs) : \A m \in Msgs :
          <<m>> \o q # <<>> /\ Head(<<m>> \o q) = m /\ Tail(<<m>> \o q) = q
  OBVIOUS
<1>11. first \o Whole(t) \in Seq(Msgs) /\ s[1].msg \in Msgs
  BY <1>1, <1>4, <1>8 DEF Units
<1> QED  BY <1>1, <1>8, <1>9, <1>10, <1>11 DEF first, t

\* In a row of whole frames u comes behind v.
Follows(v, u) == IF v.i = BodyLen THEN u.i = 0 ELSE u = Unit(v.msg, v.i + 1)

\* What a reader r goes on with.
Fits(r, v) == \/ r.pc = "length" /\ v.i = 0
              \/ r.pc = "body" /\ r.ok /\ v = Unit(r.msg, r.n + 1)

\* The first c units of s are what r goes on with, frame by frame; behind them no
\* frame ends.
Sound(s, r, c) ==
    /\ c >= 1 /\ r.pc # "failed" => Fits(r, s[1])
    /\ \A p \in 1..c - 1 : Follows(s[p], s[p + 1])
    /\ \A p \in c + 1..Len(s) : s[p].i # BodyLen

\* The last thing written, be it read or not, is the length of m; or a whole frame.
EndsIn(s, r, m) == IF s = <<>> THEN r.pc = "body" /\ r.ok /\ r.msg = m /\ r.n = 0
                   ELSE s[Len(s)] = Unit(m, 0)
EndsBetween(s, r) == IF s = <<>> THEN r.pc = "length" ELSE s[Len(s)].i = BodyLen

\* Whoever writes holds the lock; as long as the connection works, all of the
\* stream is frames, the last of which is complete but for the holder's body; and
\* once it does not, whatever follows the frames never completes one.
LockInv == \A w \in Writers : mu = w <=> wr[w].pc \in {"length", "body"}
ReaderInv == rd.pc = "body" => rd.msg \in Msgs /\ rd.n < BodyLen
StreamInv == \E c \in 0..Len(stream) : Sound(stream, rd, c)
InBody == mu # NoWriter /\ wr[mu].pc = "body"
UpInv == up => /\ rd.pc # "failed"
               /\ Sound(stream, rd, Len(stream))
               /\ IF InBody THEN EndsIn(stream, rd, wr[mu].msg) ELSE EndsBetween(stream, rd)
FrameInv == LockInv /\ ReaderInv /\ StreamInv /\ UpInv

\* What the rest of the stream and of the channel are after a write.
Unseen == UNCHANGED <<Unread, got, up, rd.pc = "failed">>

\* The first n units of a body, put behind s.
LEMMA BodyUnits ==
    ASSUME NEW s \in Seq(Units), NEW m \in Msgs, NEW n \in 1..BodyLen
    PROVE  LET t == s \o [i \in 1..n |-> Unit(m, i)]
           IN  /\ t \in Seq(Units) /\ Len(t) = Len(s) + n
               /\ \A k \in 1..Len(s) : t[k] = s[k]
               /\ \A k \in Len(s) + 1..Len(s) + n : t[k] = Unit(m, k - Len(s))
<1> DEFINE b == [i \in 1..n |-> Unit(m, i)]
<1>1. n \in Nat /\ \A i \in 1..n : Unit(m, i) \in Units
  BY BodyLenAssumption DEF Units, Unit
<1>2. b \in Seq(Units) /\ Len(b) = n /\ \A i \in 1..n : b[i] = Unit(m, i)
  BY <1>1
<1> HIDE DEF b
<1>3. /\ s \o b \in Seq(Units) /\ Len(s \o b) = Len(s) + Len(b)
      /\ \A k \in 1..Len(s) + Len(b) : (s \o b)[k] = IF k <= Len(s) THEN s[k] ELSE b[k - Len(s)]
  BY <1>2, ConcatProperties
<1>4. /\ \A k \in 1..Len(s) : (s \o b)[k] = s[k]
      /\ \A k \in Len(s) + 1..Len(s) + n : (s \o b)[k] = Unit(m, k - Len(s))
  BY <1>1, <1>2, <1>3
<1> QED  BY <1>2, <1>3, <1>4 DEF b

\* Taking the lock changes nothing of the stream.
LEMMA BeginFrames ==
    ASSUME FramesTypeOK, FrameInv, NEW w \in Writers, NEW m \in Msgs, Begin(w, m)
    PROVE  FrameInv' /\ Unseen
<1> USE DEF FramesTypeOK, Begin
<1>1. LockInv'
  BY WritersAssumption DEF FrameInv, LockInv
<1>2. ~InBody /\ ~InBody'
  BY WritersAssumption DEF InBody
<1>3. ReaderInv' /\ StreamInv' /\ UpInv'
  BY <1>2 DEF FrameInv, ReaderInv, StreamInv, UpInv
<1> QED  BY <1>1, <1>3 DEF FrameInv, Unseen, Unread

\* Neither does the caller's return.
LEMMA ReturnedFrames ==
    ASSUME FramesTypeOK, FrameInv, NEW w \in Writers, NEW result \in {"ok", "err"}, Returned(w, result)
    PROVE  FrameInv' /\ Unseen
<1> USE DEF FramesTypeOK, Returned
<1>1. LockInv' /\ mu # w
  BY DEF FrameInv, LockInv, IdleCall
<1>2. /\ InBody' <=> InBody
      /\ InBody => wr'[mu'] = wr[mu]
  BY <1>1 DEF InBody
<1>3. ReaderInv' /\ StreamInv' /\ UpInv'
  BY <1>2 DEF FrameInv, ReaderInv, StreamInv, UpInv
<1> QED  BY <1>1, <1>3 DEF FrameInv, Unseen, Unread

\* A length goes behind a whole frame.
LEMMA WriteLengthFrames ==
    ASSUME FramesTypeOK, CallsInv, FrameInv, NEW w \in Writers, WriteLength(w)
    PROVE  FrameInv' /\ Unseen
<1> DEFINE m == wr[w].msg
<1>1. /\ mu = w /\ wr[w].pc = "length" /\ m \in Msgs /\ mu \in Writers /\ mu # NoWriter /\ mu' = mu
      /\ wr'[w].pc = "body" /\ wr'[w].msg = m /\ \A o \in Writers \ {w} : wr'[o] = wr[o]
  BY WritersAssumption DEF FramesTypeOK, CallsInv, FrameInv, LockInv, WriteLength
<1>2. LockInv'
  BY <1>1 DEF FrameInv, LockInv, FramesTypeOK
<1>3. ~InBody /\ InBody' /\ wr'[mu'].msg = m
  BY <1>1 DEF InBody
<1>4. stream \in Seq(Units) /\ Len(stream) \in Nat /\ rd' = rd /\ up' = up /\ got' = got
  BY DEF FramesTypeOK, WriteLength
<1>5. CASE ~up
  <2>1. stream' = stream
    BY <1>5 DEF WriteLength, Put
  <2>2. ReaderInv' /\ StreamInv' /\ UpInv'
    BY <2>1, <1>4, <1>5 DEF FrameInv, ReaderInv, StreamInv, UpInv
  <2> QED  BY <1>2, <1>4, <2>1, <2>2 DEF FrameInv, Unseen, Unread
<1>6. CASE up
  <2>1. Unit(m, 0) \in Units /\ Unit(m, 0).i = 0 /\ 0 # BodyLen
    BY <1>1, BodyLenAssumption DEF Unit, Units
  <2>2. stream' = stream \o <<Unit(m, 0)>>
    BY <1>6 DEF WriteLength, Put
  <2> DEFINE L == Len(stream)
  <2>3. /\ stream' \in Seq(Units) /\ Len(stream') = L + 1
        /\ \A k \in 1..L : stream'[k] = stream[k]
        /\ stream'[L + 1] = Unit(m, 0) /\ stream' # <<>>
    BY <1>4, <2>1, <2>2
  <2>4. Sound(stream, rd, L) /\ EndsBetween(stream, rd) /\ rd.pc # "failed"
    BY <1>3, <1>6 DEF FrameInv, UpInv
  <2>5. Sound(stream', rd', L + 1)
    <3>1. Fits(rd, stream'[1])
      <4>1. CASE L = 0
        BY <4>1, <1>4, <2>1, <2>3, <2>4 DEF EndsBetween, Fits
      <4>2. CASE L >= 1
        BY <4>2, <1>4, <2>3, <2>4 DEF Sound
      <4> QED  BY <4>1, <4>2, <1>4
    <3>2. ASSUME NEW p \in 1..L + 1 - 1 PROVE Follows(stream'[p], stream'[p + 1])
      <4>1. CASE p = L
        <5>1. stream # <<>> /\ stream[L].i = BodyLen /\ stream'[p] = stream[L]
          BY <1>4, <4>1, <2>3, <2>4 DEF EndsBetween
        <5> QED  BY <5>1, <4>1, <2>1, <2>3 DEF Follows
      <4>2. CASE p # L
        <5>1. p \in 1..L - 1 /\ stream'[p] = stream[p] /\ stream'[p + 1] = stream[p + 1]
          BY <1>4, <4>2, <2>3
        <5> QED  BY <5>1, <2>4 DEF Sound
      <4> QED  BY <4>1, <4>2
    <3> QED  BY <1>4, <2>3, <3>1, <3>2 DEF Sound
  <2>6. EndsIn(stream', rd', m)
    BY <2>3 DEF EndsIn
  <2>7. ReaderInv' /\ StreamInv' /\ UpInv'
    BY <1>3, <1>4, <2>3, <2>4, <2>5, <2>6 DEF FrameInv, ReaderInv, StreamInv, UpInv
  <2>8. Whole(stream') = WithUnit(Whole(stream), stream'[Len(stream')])
    <3>1. /\ L < L + 1 /\ \A k \in L + 1..L + 1 - 1 : stream'[k].i # BodyLen
      BY <1>4
    <3> QED  BY <1>4, <2>3, <3>1, WholeExtends
  <2>9. Unread' = Unread
    BY <2>8, <2>3, <2>1 DEF Unread, WithUnit
  <2> QED  BY <1>2, <1>4, <2>7, <2>9 DEF FrameInv, Unseen
<1> QED  BY <1>5, <1>6

\* A body goes behind its length, and the message is sent.
LEMMA WriteBodyFrames ==
    ASSUME FramesTypeOK, CallsInv, FrameInv, NEW w \in Writers, WriteBody(w)
    PROVE  /\ FrameInv'
           /\ \/ Unseen
              \/ /\ Unread' = Append(Unread, wr[w].msg)
                 /\ wr[w].msg \in Msgs
                 /\ UNCHANGED <<got, up, rd.pc = "failed">>
<1> DEFINE m == wr[w].msg
<1>1. /\ mu = w /\ wr[w].pc = "body" /\ m \in Msgs /\ mu # NoWriter /\ mu' = NoWriter
      /\ wr'[w].pc = "ok" /\ \A o \in Writers \ {w} : wr'[o] = wr[o] /\ wr[o].pc \notin {"length", "body"}
  BY WritersAssumption DEF FramesTypeOK, CallsInv, FrameInv, LockInv, WriteBody, Unlock
<1>2. LockInv'
  BY <1>1, WritersAssumption DEF LockInv, FramesTypeOK
<1>3. InBody /\ wr[mu].msg = m /\ ~InBody'
  BY <1>1 DEF InBody
<1>4. stream \in Seq(Units) /\ Len(stream) \in Nat /\ rd' = rd /\ up' = up /\ got' = got
  BY DEF FramesTypeOK, WriteBody
<1>5. CASE ~up
  <2>1. stream' = stream
    BY <1>5 DEF WriteBody, Put
  <2>2. ReaderInv' /\ StreamInv' /\ UpInv'
    BY <2>1, <1>4, <1>5 DEF FrameInv, ReaderInv, StreamInv, UpInv
  <2> QED  BY <1>2, <1>4, <2>1, <2>2 DEF FrameInv, Unseen, Unread
<1>6. CASE up
  <2> DEFINE L == Len(stream)
             B == BodyLen
  <2>1. B \in Nat /\ B >= 1 /\ B \in 1..BodyLen /\ B # 0
    BY BodyLenAssumption
  <2>2. stream' = stream \o [i \in 1..BodyLen |-> Unit(m, i)]
    BY <1>6 DEF WriteBody, Put
  <2> HIDE DEF m
  <2>3. /\ stream' \in Seq(Units) /\ Len(stream') = L + B
        /\ \A k \in 1..L : stream'[k] = stream[k]
        /\ \A k \in L + 1..L + B : stream'[k] = Unit(m, k - L)
    BY <1>1, <1>4, <2>1, <2>2, BodyUnits
  <2>4. Sound(stream, rd, L) /\ EndsIn(stream, rd, m) /\ rd.pc # "failed"
    BY <1>3, <1>6 DEF FrameInv, UpInv
  <2>5. /\ \A i \in Nat : Unit(m, i).i = i /\ Unit(m, i).msg = m
        /\ stream' # <<>> /\ stream'[L + B] = Unit(m, B) /\ stream'[L + 1] = Unit(m, 1)
    BY <1>4, <2>1, <2>3 DEF Unit
  <2>6. Sound(stream', rd', L + B)
    <3>1. Fits(rd, stream'[1])
      <4>1. CASE L = 0
        BY <4>1, <1>4, <2>5, <2>4 DEF EndsIn, Fits
      <4>2. CASE L >= 1
        BY <4>2, <1>4, <2>3, <2>4 DEF Sound
      <4> QED  BY <4>1, <4>2, <1>4
    <3>2. ASSUME NEW p \in 1..L + B - 1 PROVE Follows(stream'[p], stream'[p + 1])
      <4>1. CASE p = L
        <5>1. stream # <<>> /\ stream[L] = Unit(m, 0) /\ stream'[p] = stream[L]
          BY <1>4, <4>1, <2>3, <2>4 DEF EndsIn
        <5> QED  BY <5>1, <4>1, <2>1, <2>5 DEF Follows
      <4>2. CASE p < L
        <5>1. p \in 1..L - 1 /\ stream'[p] = stream[p] /\ stream'[p + 1] = stream[p + 1]
          BY <1>4, <4>2, <2>3
        <5> QED  BY <5>1, <2>4 DEF Sound
      <4>3. CASE p > L
        <5>1. /\ p - L \in Nat /\ p - L # B /\ p + 1 - L = (p - L) + 1
              /\ stream'[p] = Unit(m, p - L) /\ stream'[p + 1] = Unit(m, p + 1 - L)
          BY <1>4, <4>3, <2>1, <2>3
        <5> QED  BY <5>1, <2>5 DEF Follows
      <4> QED  BY <4>1, <4>2, <4>3, <1>4, <2>1
    <3> QED  BY <1>4, <2>1, <2>3, <3>1, <3>2 DEF Sound
  <2>7. EndsBetween(stream', rd')
    BY <2>1, <2>3, <2>5 DEF EndsBetween
  <2>8. L + B \in 0..Len(stream')
    BY <1>4, <2>1, <2>3
  <2>9. ReaderInv' /\ StreamInv' /\ UpInv'
    BY <1>3, <1>4, <2>3, <2>4, <2>6, <2>7, <2>8 DEF FrameInv, ReaderInv, StreamInv, UpInv
  <2>10. Whole(stream') = WithUnit(Whole(stream), stream'[Len(stream')])
    <3>1. ASSUME NEW k \in L + 1..L + B - 1 PROVE stream'[k].i # BodyLen
      <4>1. stream'[k] = Unit(m, k - L) /\ k - L \in Nat /\ k - L # B
        BY <1>4, <2>1, <2>3
      <4> QED  BY <4>1, <2>5
    <3>2. /\ Len(stream) < Len(stream')
          /\ \A k \in Len(stream) + 1..Len(stream') - 1 : stream'[k].i # BodyLen
      BY <1>4, <2>1, <2>3, <3>1
    <3> HIDE DEF L, B
    <3>3. \A k \in 1..Len(stream) : stream'[k] = stream[k]
      BY <2>3 DEF L
    <3> QED  BY <1>4, <2>3, <3>2, <3>3, WholeExtends
  <2>11. Unread' = Append(Unread, m)
    BY <2>10, <2>3, <2>5, <2>1 DEF Unread, WithUnit
  <2>12. FrameInv'
    BY <1>2, <2>9 DEF FrameInv
  <2>13. (rd.pc = "failed")' = (rd.pc = "failed")
    BY <1>4
  <2>14. Unread' = Append(Unread, wr[w].msg) /\ wr[w].msg \in Msgs
    BY <1>1, <2>11 DEF m
  <2> QED  BY <1>4, <2>12, <2>13, <2>14
<1> QED  BY <1>5, <1>6

\* A part of a body completes no frame.
LEMMA WriteFailsFrames ==
    ASSUME FramesTypeOK, CallsInv, FrameInv, NEW w \in Writers, NEW n \in 0..BodyLen, WriteFails(w, n)
    PROVE  FrameInv' /\ Unseen
<1> DEFINE m == wr[w].msg
<1>1. /\ mu = w /\ m \in Msgs /\ mu' = NoWriter /\ wr'[w].pc = "err" /\ mu # NoWriter
      /\ \A o \in Writers \ {w} : wr'[o] = wr[o] /\ wr[o].pc \notin {"length", "body"}
  BY WritersAssumption DEF FramesTypeOK, CallsInv, FrameInv, LockInv, WriteFails, Unlock
<1>2. LockInv'
  BY <1>1, WritersAssumption DEF LockInv, FramesTypeOK
<1>3. stream \in Seq(Units) /\ Len(stream) \in Nat /\ rd' = rd /\ up' = up /\ got' = got /\ ~up
  BY DEF FramesTypeOK, WriteFails
<1>4. BodyLen \in Nat /\ n \in Nat /\ n < BodyLen /\ n \in 0..(BodyLen - 1)
  BY BodyLenAssumption DEF WriteFails
<1>5. stream' = stream \o [i \in 1..n |-> Unit(m, i)]
  BY DEF WriteFails
<1>6. ReaderInv' /\ UpInv'
  BY <1>3 DEF FrameInv, ReaderInv, UpInv
<1> HIDE DEF m
<1>7. CASE n = 0
  <2>1. stream' = stream
    <3>1. [i \in 1..n |-> Unit(m, i)] = <<>>
      BY <1>7
    <3> QED  BY <3>1, <1>3, <1>5
  <2> QED  BY <1>2, <1>3, <1>6, <2>1 DEF FrameInv, StreamInv, Unseen, Unread
<1>8. CASE n # 0
  <2> DEFINE L == Len(stream)
  <2>1. n \in 1..BodyLen
    BY <1>4, <1>8
  <2>2. /\ stream' \in Seq(Units) /\ Len(stream') = L + n
        /\ \A k \in 1..L : stream'[k] = stream[k]
        /\ \A k \in L + 1..L + n : stream'[k] = Unit(m, k - L)
    BY <1>1, <1>3, <1>5, <2>1, BodyUnits
  <2>3. ASSUME NEW k \in L + 1..L + n PROVE stream'[k].i # BodyLen
    <3>1. stream'[k] = Unit(m, k - L) /\ k - L # BodyLen
      BY <1>3, <1>4, <2>2
    <3> QED  BY <3>1 DEF Unit
  <2>4. StreamInv'
    <3>1. PICK c \in 0..L : Sound(stream, rd, c)
      BY DEF FrameInv, StreamInv
    <3>2. Sound(stream', rd', c)
      <4>1. c \in Nat /\ c <= L
        BY <1>3
      <4>2. c >= 1 => stream'[1] = stream[1]
        BY <1>3, <4>1, <2>2
      <4>3. \A p \in 1..c - 1 : stream'[p] = stream[p] /\ stream'[p + 1] = stream[p + 1]
        BY <1>3, <4>1, <2>2
      <4>4. \A p \in c + 1..L + n : \/ p \in c + 1..L /\ stream'[p] = stream[p]
                                    \/ p \in L + 1..L + n
        BY <1>3, <1>4, <4>1, <2>2
      <4>5. \A p \in c + 1..L + n : stream'[p].i # BodyLen
        BY <3>1, <4>4, <2>3 DEF Sound
      <4> QED  BY <1>3, <2>2, <3>1, <4>2, <4>3, <4>5 DEF Sound
    <3>3. c \in 0..Len(stream')
      BY <1>3, <1>4, <2>2
    <3> QED  BY <3>2, <3>3 DEF StreamInv
  <2>5. Whole(stream') = WithUnit(Whole(stream), stream'[Len(stream')])
    <3>1. /\ Len(stream) < Len(stream')
          /\ \A k \in Len(stream) + 1..Len(stream') - 1 : stream'[k].i # BodyLen
      BY <1>3, <1>4, <1>8, <2>2, <2>3
    <3> HIDE DEF L
    <3>2. \A k \in 1..Len(stream) : stream'[k] = stream[k]
      BY <2>2 DEF L
    <3> QED  BY <1>3, <2>2, <3>1, <3>2, WholeExtends
  <2>6. Unread' = Unread
    <3>1. Len(stream') \in L + 1..L + n
      BY <1>3, <1>4, <1>8, <2>2
    <3> QED  BY <2>3, <2>5, <3>1 DEF Unread, WithUnit
  <2> QED  BY <1>2, <1>3, <1>6, <2>4, <2>6 DEF FrameInv, Unseen
<1> QED  BY <1>7, <1>8

\* The reader gives up on a connection that does not work.
LEMMA ReadFailsFrames ==
    ASSUME FramesTypeOK, FrameInv, ReadFails
    PROVE  /\ FrameInv'
           /\ ~up /\ rd.pc # "failed" /\ rd'.pc = "failed"
           /\ UNCHANGED <<Unread, got, up>>
<1> USE DEF FramesTypeOK, ReadFails, AtLength
<1>1. LockInv' /\ ReaderInv' /\ UpInv' /\ rd'.pc = "failed"
  BY DEF FrameInv, LockInv, ReaderInv, UpInv
<1>2. StreamInv'
  <2>1. PICK c \in 0..Len(stream) : Sound(stream, rd, c)
    BY DEF FrameInv, StreamInv
  <2>2. Sound(stream', rd', c)
    BY <1>1, <2>1 DEF Sound
  <2> QED  BY <2>2 DEF StreamInv
<1> QED  BY <1>1, <1>2 DEF FrameInv, Unread

\* The connection is lost.
LEMMA BreakFrames ==
    ASSUME FramesTypeOK, FrameInv, Break
    PROVE  FrameInv' /\ up /\ ~up' /\ UNCHANGED <<Unread, got, rd>>
BY DEF FramesTypeOK, FrameInv, LockInv, ReaderInv, StreamInv, UpInv, Break, Unread

\* A whole frame is read, a part of one, or the connection is given up.
LEMMA ReadUnitFrames ==
    ASSUME FramesTypeOK, FrameInv, NEW v \in Units, ReadUnit(v)
    PROVE  /\ FrameInv'
           /\ UNCHANGED up
           /\ \/ Unseen
              \/ /\ rd.pc # "failed" /\ rd'.pc # "failed"
                 /\ Unread # <<>> /\ got' = Head(Unread) /\ Unread' = Tail(Unread)
              \/ /\ ~up /\ rd.pc # "failed" /\ rd'.pc = "failed"
                 /\ UNCHANGED <<Unread, got>>
<1> DEFINE L == Len(stream)
           n == rd.n + 1
<1>1. /\ stream \in Seq(Units) /\ L \in Nat /\ stream # <<>> /\ L >= 1 /\ v = stream[1] /\ v = Head(stream)
      /\ up' = up /\ mu' = mu /\ wr' = wr /\ rd.pc \in {"length", "body"} /\ rd.n \in Nat
      /\ v.i \in 0..BodyLen /\ v.msg \in Msgs
  BY BodyLenAssumption DEF FramesTypeOK, ReadUnit, Units
<1>2. /\ stream' \in Seq(Units) /\ Len(stream') = L - 1 /\ \A p \in 1..L - 1 : stream'[p] = stream[p + 1]
      /\ stream' = Tail(stream)
  BY <1>1 DEF ReadUnit
<1>3. LockInv' /\ (InBody' <=> InBody)
  BY <1>1 DEF FrameInv, LockInv, InBody
<1>4. \/ v.i # BodyLen /\ Unread' = Unread
      \/ v.i = BodyLen /\ Unread # <<>> /\ Head(Unread) = v.msg /\ Unread' = Tail(Unread)
  <2>1. /\ v.i # BodyLen => Whole(Tail(stream)) = Whole(stream)
        /\ v.i = BodyLen => /\ Whole(stream) # <<>> /\ Head(Whole(stream)) = v.msg
                            /\ Whole(Tail(stream)) = Tail(Whole(stream))
    BY <1>1, WholeTail
  <2> QED  BY <1>2, <2>1 DEF Unread
\* What the reader becomes.
<1>5. rd.pc = "body" => rd.msg \in Msgs /\ rd.n < BodyLen
  BY DEF FrameInv, ReaderInv
<1>6. BodyLen \in Nat /\ BodyLen >= 1
  BY BodyLenAssumption
<1> DEFINE Starts == /\ rd.pc = "length" /\ v.i = 0
                     /\ rd'.pc = "body" /\ rd'.msg = v.msg /\ rd'.n = 0 /\ rd'.ok /\ got' = got
           Goes == /\ rd.pc = "body" /\ v.i = n /\ v.msg = rd.msg /\ n < BodyLen
                   /\ rd'.pc = "body" /\ rd'.msg = v.msg /\ rd'.n = n /\ rd'.ok /\ got' = got
           Completes == /\ rd.pc = "body" /\ v.i = n /\ v.msg = rd.msg /\ n = BodyLen
                        /\ rd'.pc = "length" /\ got' = v.msg
<1>7. Fits(rd, v) => Starts \/ Goes \/ Completes
  <2>1. CASE rd.pc = "length" /\ v.i = 0
    BY <2>1 DEF ReadUnit
  <2>2. CASE rd.pc = "body" /\ rd.ok /\ v = Unit(rd.msg, n)
    <3>1. v.i = n /\ v.msg = rd.msg /\ (n < BodyLen \/ n = BodyLen) /\ (rd.ok /\ v = Unit(rd.msg, n)) /\ rd.ok = TRUE
      BY <1>1, <1>5, <1>6, <2>2 DEF Unit, FramesTypeOK
    <3>2. CASE n < BodyLen
      <4>1. rd' = [rd EXCEPT !.n = n, !.ok = rd.ok /\ v = Unit(rd.msg, n)] /\ got' = got
        BY <1>1, <1>6, <2>2, <3>2 DEF ReadUnit
      <4> QED  BY <2>2, <3>1, <3>2, <4>1 DEF FramesTypeOK
    <3>3. CASE n = BodyLen
      <4>1. rd' = AtLength /\ got' = rd.msg
        BY <1>1, <1>6, <2>2, <3>1, <3>3 DEF ReadUnit
      <4> QED  BY <2>2, <3>1, <3>3, <4>1 DEF AtLength
    <3> QED  BY <3>1, <3>2, <3>3
  <2> QED  BY <2>1, <2>2 DEF Fits
<1>8. /\ rd'.pc = "body" => \/ rd'.msg = v.msg /\ rd'.n = 0
                            \/ rd.pc = "body" /\ rd'.msg = rd.msg /\ rd'.n = n /\ n < BodyLen
      /\ got' # got => rd'.pc = "length" /\ v.i = BodyLen
      /\ rd'.pc = "length" => v.i = BodyLen
  BY <1>1, <1>5, <1>6 DEF ReadUnit, FramesTypeOK, AtLength, Unit
<1>9. ReaderInv'
  BY <1>1, <1>5, <1>6, <1>8 DEF ReaderInv
<1>10. Fits(rd, v) =>
         /\ rd'.pc # "failed"
         /\ \A u \in Units : Follows(v, u) => Fits(rd', u)
         /\ \/ v.i # BodyLen /\ got' = got
            \/ v.i = BodyLen /\ got' = v.msg
  <2>1. \A u \in Units : u = Unit(u.msg, u.i)
    BY DEF Units, Unit
  <2>2. CASE Starts
    <3>1. v.i # BodyLen /\ rd'.pc # "failed" /\ got' = got
      BY <1>6, <2>2
    <3>2. rd'.pc = "body" /\ rd'.ok /\ Unit(rd'.msg, rd'.n + 1) = Unit(v.msg, v.i + 1)
      BY <2>2
    <3>3. ASSUME NEW u \in Units, Follows(v, u) PROVE Fits(rd', u)
      <4>1. u = Unit(rd'.msg, rd'.n + 1)
        BY <3>1, <3>2, <3>3 DEF Follows
      <4> QED  BY <3>2, <4>1 DEF Fits
    <3> QED  BY <3>1, <3>3
  <2>3. CASE Goes
    <3>1. v.i # BodyLen /\ rd'.pc # "failed" /\ got' = got
      BY <1>1, <1>6, <2>3
    <3>2. rd'.pc = "body" /\ rd'.ok /\ Unit(rd'.msg, rd'.n + 1) = Unit(v.msg, v.i + 1)
      BY <2>3
    <3>3. ASSUME NEW u \in Units, Follows(v, u) PROVE Fits(rd', u)
      <4>1. u = Unit(rd'.msg, rd'.n + 1)
        BY <3>1, <3>2, <3>3 DEF Follows
      <4> QED  BY <3>2, <4>1 DEF Fits
    <3> QED  BY <3>1, <3>3
  <2>4. CASE Completes
    BY <2>4 DEF Fits, Follows
  <2> QED  BY <1>7, <2>2, <2>3, <2>4
\* The stream behind the unit.
<1>11. ASSUME NEW c \in 1..L, Sound(stream, rd, c)
       PROVE  Fits(rd, v) /\ Sound(stream', rd', c - 1)
  <2>1. Fits(rd, v)
    BY <1>1, <1>11 DEF Sound
  <2>2. c - 1 >= 1 => Fits(rd', stream'[1])
    <3>1. SUFFICES ASSUME c - 1 >= 1 PROVE Fits(rd', stream'[1])
      OBVIOUS
    <3>2. 1 \in 1..c - 1 /\ 1 \in 1..L - 1 /\ 2 \in 1..L
      BY <1>1, <3>1
    <3>3. Follows(v, stream[1 + 1]) /\ stream'[1] = stream[1 + 1] /\ stream'[1] \in Units
      BY <1>1, <1>2, <1>11, <3>2 DEF Sound
    <3> QED  BY <1>10, <2>1, <3>3
  <2>3. ASSUME NEW p \in 1..c - 1 - 1 PROVE Follows(stream'[p], stream'[p + 1])
    <3>1. p + 1 \in 1..c - 1 /\ stream'[p] = stream[p + 1] /\ stream'[p + 1] = stream[p + 1 + 1]
      BY <1>1, <1>2
    <3> QED  BY <1>11, <3>1 DEF Sound
  <2>4. ASSUME NEW p \in c - 1 + 1..L - 1 PROVE stream'[p].i # BodyLen
    <3>1. p + 1 \in c + 1..L /\ stream'[p] = stream[p + 1]
      BY <1>1, <1>2
    <3> QED  BY <1>11, <3>1 DEF Sound
  <2> QED  BY <1>2, <2>1, <2>2, <2>3, <2>4 DEF Sound
<1>12. ASSUME Sound(stream, rd, 0)
       PROVE  Sound(stream', rd', 0) /\ v.i # BodyLen
  <2>1. 1 \in 0 + 1..L /\ \A p \in 0 + 1..L - 1 : p + 1 \in 0 + 1..L
    BY <1>1
  <2>2. \A p \in 0 + 1..L - 1 : stream'[p].i # BodyLen
    BY <1>2, <1>12, <2>1 DEF Sound
  <2>3. v.i # BodyLen
    BY <1>1, <1>12, <2>1 DEF Sound
  <2> QED  BY <1>2, <2>2, <2>3 DEF Sound
<1>13. PICK c \in 0..L : Sound(stream, rd, c)
  BY DEF FrameInv, StreamInv
<1>14. StreamInv'
  <2>1. CASE c = 0
    <3>1. 0 \in 0..Len(stream')
      BY <1>1, <1>2
    <3> QED  BY <1>12, <1>13, <2>1, <3>1 DEF StreamInv
  <2>2. CASE c # 0
    <3>1. c \in 1..L /\ c - 1 \in 0..Len(stream')
      BY <1>1, <1>2, <2>2
    <3> QED  BY <1>11, <1>13, <3>1 DEF StreamInv
  <2> QED  BY <2>1, <2>2
<1>15. up => Fits(rd, v) /\ rd'.pc # "failed" /\ Sound(stream', rd', Len(stream'))
  <2>1. SUFFICES ASSUME up PROVE Fits(rd, v) /\ Sound(stream', rd', Len(stream'))
    BY <1>10
  <2>2. Sound(stream, rd, L) /\ L \in 1..L
    BY <1>1, <2>1 DEF FrameInv, UpInv
  <2> QED  BY <1>2, <1>11, <2>2
<1>16. UpInv'
  <2>1. SUFFICES ASSUME up
                 PROVE IF InBody THEN EndsIn(stream', rd', wr[mu].msg) ELSE EndsBetween(stream', rd')
    BY <1>1, <1>3, <1>15 DEF UpInv
  <2>2. IF InBody THEN stream[L] = Unit(wr[mu].msg, 0) ELSE stream[L].i = BodyLen
    BY <1>1, <2>1 DEF FrameInv, UpInv, EndsIn, EndsBetween
  <2>3. CASE L = 1
    <3>1. stream' = <<>> /\ v = stream[L]
      BY <1>1, <1>2, <2>3
    <3>2. CASE InBody
      <4>1. v.i = 0 /\ v.msg = wr[mu].msg
        BY <2>2, <3>1, <3>2 DEF Unit
      <4>2. rd'.pc = "body" /\ rd'.ok /\ rd'.msg = wr[mu].msg /\ rd'.n = 0
        BY <1>1, <1>7, <1>15, <2>1, <4>1, <1>6 DEF Unit
      <4> QED  BY <3>1, <3>2, <4>2 DEF EndsIn
    <3>3. CASE ~InBody
      <4>1. v.i = BodyLen
        BY <2>2, <3>1, <3>3
      <4>2. rd'.pc = "length"
        BY <1>1, <1>7, <1>15, <2>1, <4>1, <1>6 DEF Unit, AtLength
      <4> QED  BY <3>1, <3>3, <4>2 DEF EndsBetween
    <3> QED  BY <3>2, <3>3
  <2>4. CASE L # 1
    <3>1. stream' # <<>> /\ Len(stream') \in 1..L - 1 /\ stream'[Len(stream')] = stream[L]
      <4>1. L - 1 \in 1..L - 1 /\ L - 1 + 1 = L /\ L - 1 # 0
        <5>1. L \in Nat /\ L >= 1
          BY <1>1
        <5> HIDE DEF L
        <5> QED  BY <2>4, <5>1
      <4>2. stream' # <<>>
        BY <1>2, <4>1
      <4> HIDE DEF L
      <4> QED  BY <1>2, <4>1, <4>2
    <3> QED  BY <2>2, <3>1 DEF EndsIn, EndsBetween
  <2> QED  BY <2>3, <2>4
<1>17. FrameInv'
  BY <1>3, <1>9, <1>14, <1>16 DEF FrameInv
\* What the step is to the channel.
<1>18. CASE Fits(rd, v)
  <2>1. rd'.pc # "failed" /\ rd.pc # "failed"
    BY <1>1, <1>10, <1>18
  <2> QED  BY <1>1, <1>4, <1>10, <1>17, <1>18, <2>1 DEF Unseen
<1>19. CASE ~Fits(rd, v)
  <2>1. ~up /\ v.i # BodyLen
    <3>1. c = 0
      BY <1>11, <1>13, <1>19
    <3> QED  BY <1>12, <1>13, <1>15, <1>19, <3>1
  <2>2. got' = got /\ Unread' = Unread
    BY <1>4, <1>8, <2>1
  <2> QED  BY <1>1, <1>17, <2>1, <2>2 DEF Unseen
<1> QED  BY <1>18, <1>19

\* A step of the control connection is a step of the channel, or none.
LEMMA FramesImplement ==
    ASSUME FramesTypeOK, CallsInv, FrameInv,
           \/ \E w \in Writers : \/ \E m \in Msgs : Begin(w, m)
                                 \/ \E result \in {"ok", "err"} : Returned(w, result)
                                 \/ WriteLength(w) \/ WriteBody(w)
                                 \/ \E n \in 0..BodyLen : WriteFails(w, n)
           \/ \E v \in Units : ReadUnit(v)
           \/ ReadFails
           \/ Break
    PROVE  FrameInv' /\ [Abstract!AbsNext]_(Abstract!absVars)
<1>1. Unseen => UNCHANGED Abstract!absVars
  BY Zenon DEF Unseen, Abstract!absVars
<1>2. ASSUME NEW w \in Writers,
             \/ \E m \in Msgs : Begin(w, m)
             \/ \E result \in {"ok", "err"} : Returned(w, result)
             \/ WriteLength(w) \/ \E n \in 0..BodyLen : WriteFails(w, n)
      PROVE  FrameInv' /\ Unseen
  BY <1>2, BeginFrames, ReturnedFrames, WriteLengthFrames, WriteFailsFrames
<1>3. ASSUME NEW w \in Writers, WriteBody(w)
      PROVE  FrameInv' /\ [Abstract!AbsNext]_(Abstract!absVars)
  <2>1. FrameInv' /\ (Unseen \/ \E m \in Msgs : Abstract!Send(m))
    BY <1>3, WriteBodyFrames DEF Abstract!Send
  <2> QED  BY <1>1, <2>1 DEF Abstract!AbsNext
<1>4. ASSUME NEW v \in Units, ReadUnit(v)
      PROVE  FrameInv' /\ [Abstract!AbsNext]_(Abstract!absVars)
  <2>1. FrameInv' /\ (Unseen \/ Abstract!Receive \/ Abstract!GiveUp)
    BY <1>4, ReadUnitFrames DEF Abstract!Receive, Abstract!GiveUp
  <2> QED  BY <1>1, <2>1 DEF Abstract!AbsNext
<1>5. CASE ReadFails
  BY <1>5, ReadFailsFrames DEF Abstract!GiveUp, Abstract!AbsNext
<1>6. CASE Break
  BY <1>6, BreakFrames DEF Abstract!Lose, Abstract!AbsNext
<1> QED  BY <1>1, <1>2, <1>3, <1>4, <1>5, <1>6

\* Every other step of the path leaves the control connection alone.
LEMMA StepFrames ==
    ASSUME IInv, FrameInv, [Next]_vars
    PROVE  FrameInv' /\ [Abstract!AbsNext]_(Abstract!absVars)
<1>1. FramesTypeOK /\ CallsInv /\ {"accept", "heartbeat"} \subseteq Writers /\ {"Open", "Ping"} \subseteq Msgs
  BY PathAssumption DEF IInv, TypeOK
<1>2. CASE UNCHANGED frameVars
  <2>1. UNCHANGED <<mu, wr, stream, up, rd, got>>
    BY <1>2 DEF frameVars
  <2>2. FrameInv'
    BY <2>1 DEF FrameInv, LockInv, ReaderInv, StreamInv, UpInv, InBody
  <2> QED  BY <2>1, <2>2 DEF Abstract!absVars, Unread
<1>3. CASE SendOpen \/ Ping
  BY <1>1, <1>3, FramesImplement DEF SendOpen, Ping
<1>4. CASE OpenSent \/ PingSent
  BY <1>1, <1>4, FramesImplement DEF OpenSent, PingSent
<1>5. CASE CtrlRead
  BY <1>1, <1>5, FramesImplement DEF CtrlRead
<1>6. CASE FrameStep
  BY <1>1, <1>6, FramesImplement DEF FrameStep
<1>7. CASE CtrlBreaks
  BY <1>1, <1>7, FramesImplement DEF CtrlBreaks
<1>8. CASE Peek \/ PeekFails \/ TakeData \/ GiveUpWaiting \/ Replay \/ ReplayFails
           \/ ReadHello \/ HelloFails \/ RelayOnServer
  BY <1>2, <1>8 DEF Peek, PeekFails, TakeData, GiveUpWaiting, Replay, ReplayFails, ReadHello,
     HelloFails, RelayOnServer
<1>9. CASE WriteHello \/ RelayOnClient \/ \E ok \in BOOLEAN : DialServer(ok) \/ DialLocal(ok)
  BY <1>2, <1>9 DEF WriteHello, RelayOnClient, DialServer, DialLocal
<1>10. CASE Accept \/ DataBreaks \/ ContextEnds \/ \E e \in Apps : AppSend(e) \/ AppReceive(e) \/ AppEnds(e)
  BY <1>2, <1>10 DEF Accept, DataBreaks, ContextEnds, AppSend, AppReceive, AppEnds
<1>11. CASE UNCHANGED vars
  BY <1>2, <1>11 DEF vars
<1> QED
  BY <1>3, <1>4, <1>5, <1>6, <1>7, <1>8, <1>9, <1>10, <1>11
     DEF Next, ServerStep, ClientStep, WriterStep

\* At first nothing is written.
LEMMA InitFrames == Init => FrameInv /\ Abstract!AbsInit
<1> SUFFICES ASSUME Init PROVE FrameInv /\ Abstract!AbsInit
  OBVIOUS
<1>1. /\ mu = NoWriter /\ wr = [w \in Writers |-> IdleCall] /\ stream = <<>> /\ up = TRUE
      /\ rd = AtLength /\ got = NoMsg
  BY DEF Init, FramesInit
<1>2. /\ rd.pc = "length" /\ \A w \in Writers : wr[w].pc = "idle" /\ w # NoWriter
  BY <1>1, WritersAssumption DEF AtLength, IdleCall
<1>3. stream \in Seq(Units) /\ Len(stream) = 0 /\ 0 \in 0..0 /\ 0..Len(stream) = {0}
  BY <1>1
<1>4. Sound(stream, rd, 0)
  BY <1>3 DEF Sound
<1>5. FrameInv
  BY <1>1, <1>2, <1>3, <1>4 DEF FrameInv, LockInv, ReaderInv, StreamInv, UpInv, InBody, EndsBetween
<1>6. Unread = <<>>
  <2>1. PICK u \in [0..Len(stream) -> Seq(Msgs)] : GoesOn(u, stream, Len(stream)) /\ Whole(stream) = u[Len(stream)]
    BY <1>3, WholeCounts
  <2> QED  BY <1>3, <2>1 DEF GoesOn, Unread
<1> QED  BY <1>1, <1>2, <1>5, <1>6 DEF Abstract!AbsInit

\* Whatever the writers, the messages and the lengths of their bodies: a message
\* written under CtrlConnWriter's lock is read once, whole and in its order, and the
\* message loop gives up only on a connection that does not work any more.
THEOREM ChannelIsImplemented == Spec => ImplementsChannel
<1>1. Init => Abstract!AbsInit /\ IInv /\ FrameInv
  BY InitOK, InitFrames
<1>2. IInv /\ FrameInv /\ [Next]_vars => /\ (IInv /\ FrameInv)'
                                         /\ [Abstract!AbsNext]_(Abstract!absVars)
  BY NextOK, StepFrames
<1> QED  BY <1>1, <1>2, PTL DEF Spec, ImplementsChannel, Abstract!AbsSpec

\* How many units the places of the two flows hold, from the receiver.
U1 == Len(app["service"].rcvd)
U2 == Len(tcp["service"].buf)
U3 == Len(relayC.x["ba"])
U4 == Len(tcp["dc"].buf)
U5 == Len(FromUser)
U6 == Len(tcp["us"].buf)
D1 == Len(app["user"].rcvd)
D2 == Len(tcp["user"].buf)
D3 == Len(relayS.x["ba"])
D4 == Len(DsData)
D5 == Len(relayC.x["ab"])
D6 == Len(tcp["lc"].buf)

UpTotal == U1 + U2 + U3 + U4 + U5 + U6
DownTotal == D1 + D2 + D3 + D4 + D5 + D6

\* The user's units do not multiply.
UpBound == UpTotal <= app["user"].sent

\* Nothing has happened after which no property is promised: the user has closed
\* nothing and lost nothing, and neither the server nor the data connection failed.
Kept ==
    /\ tcp["user"].st \in {"none", "open"}
    /\ ~ctxDone
    /\ sv # "done"
    /\ dh = "done" => pend = "given"
    /\ ~(sv = "replay" /\ tcp["ds"].rst)
Good == Kept /\ UpTotal = app["user"].sent

\* A relay r is on its way to its end; its copy d is over; end e will send no more.
Ending(r) == r.st = "returned" \/ r.cancelled \/ r.watched \/ r.pc["ab"] = "done" \/ r.pc["ba"] = "done"
Over(r, d) == r.st = "returned" \/ r.pc[d] = "done"
Shut(t, e) == t[e].st \in {"half", "closed"}

\* Nothing more will come from the service, and the client has written all of it.
Drained ==
    /\ ch \in {"relay", "done"}
    /\ tcp["service"].st # "open" /\ tcp["lc"].buf = <<>> /\ relayC.x["ab"] = <<>>

\* The connections under Good, end by end, and what the end of a relay says.
UsGood ==
    /\ ~tcp["us"].eof /\ ~tcp["us"].rst
    /\ tcp["us"].late => Ending(relayS)
    /\ Shut(tcp, "us") => Over(relayS, "ba")
    /\ tcp["us"].st = "closed" => relayS.st = "returned"
UserGood == ~tcp["user"].rst /\ ~tcp["user"].late
DownGood == DownTotal = app["service"].sent
ServerGood ==
    Ending(relayS) => Over(relayS, "ba") /\ tcp["ds"].buf = <<>> /\ Shut(tcp, "dc") /\ Drained
DsGood ==
    /\ ~tcp["ds"].rst
    /\ tcp["ds"].eof => Shut(tcp, "dc")
    /\ tcp["ds"].late => Ending(relayS)
    /\ tcp["ds"].st = "half" => Over(relayS, "ab")
    /\ tcp["ds"].st = "closed" => relayS.st = "returned"
DcGood ==
    /\ Shut(tcp, "dc") => Drained /\ (relayC.st = "on" => Over(relayC, "ab"))
    /\ tcp["dc"].eof => Ending(relayS)
    /\ tcp["dc"].rst => relayS.st = "returned"
    /\ tcp["dc"].late => Ending(relayC)
ClientGood == Ending(relayC) => Drained /\ Over(relayC, "ab")
LcGood ==
    /\ ~tcp["lc"].rst
    /\ tcp["lc"].eof => Shut(tcp, "service")
    /\ tcp["lc"].late => Ending(relayC)
    /\ tcp["lc"].st = "closed" => relayC.st = "returned"

PathGood == /\ UsGood /\ UserGood /\ DownGood /\ ServerGood
            /\ DsGood /\ DcGood /\ ClientGood /\ LcGood

LossInv == UpBound /\ (Good => PathGood)

-----------------------------------------------------------------------------
(* What the calls do to the fields of the ends.                            *)

\* End x is the same in t and u, but for its buffer.
Flags(t, u, x) == /\ u[x].st = t[x].st /\ u[x].eof = t[x].eof
                  /\ u[x].rst = t[x].rst /\ u[x].late = t[x].late

\* What the types of the connections say of end e.
LEMMA EndFacts ==
    ASSUME NEW t, Conns(t), NEW e \in Ends
    PROVE  /\ t[e] \in T!EndType
           /\ t[e].st \in {"none", "open", "half", "closed"} /\ t[e].buf \in Seq(Data)
           /\ t[e].eof \in BOOLEAN /\ t[e].rst \in BOOLEAN /\ t[e].late \in BOOLEAN
           /\ Len(t[e].buf) \in Nat /\ (t[e].buf = <<>> <=> Len(t[e].buf) = 0)
           /\ t[e].st = "none" => ~t[e].eof /\ ~t[e].rst /\ ~t[e].late /\ t[e].buf = <<>>
           /\ t[e].st = "none" <=> t[Peer[e]].st = "none"
<1>1. t[e] \in T!EndType
  BY DEF Conns
<1>2. /\ t[e].st \in {"none", "open", "half", "closed"} /\ t[e].buf \in Seq(Data)
      /\ t[e].eof \in BOOLEAN /\ t[e].rst \in BOOLEAN /\ t[e].late \in BOOLEAN
  BY <1>1 DEF T!EndType
<1>3. Len(t[e].buf) \in Nat /\ (t[e].buf = <<>> <=> Len(t[e].buf) = 0)
  BY <1>2
<1>4. t[e].st = "none" => ~t[e].eof /\ ~t[e].rst /\ ~t[e].late /\ t[e].buf = <<>>
  BY DEF Conns, T!NoConn
<1>5. t[e].st = "none" <=> t[Peer[e]].st = "none"
  BY PeerFacts DEF Conns
<1> QED  BY <1>1, <1>2, <1>3, <1>4, <1>5

\* What a read does to the fields of the ends.
LEMMA TakenFields ==
    ASSUME NEW t, Conns(t), NEW e \in Ends, T!HasData(t, e)
    PROVE  LET u == T!Taken(t, e)
           IN  /\ \A x \in Ends : Flags(t, u, x)
               /\ \A x \in Ends : x # e => u[x].buf = t[x].buf
               /\ u[e].buf = Tail(t[e].buf) /\ Len(u[e].buf) + 1 = Len(t[e].buf)
<1> DEFINE u == T!Taken(t, e)
<1>1. Reads(t, u, e) /\ t[e].buf # <<>> /\ t[e].buf \in Seq(Data)
  BY TakenReads
<1> HIDE DEF u
<1>2. Len(u[e].buf) + 1 = Len(t[e].buf) /\ u[e].buf = Tail(t[e].buf)
  BY <1>1 DEF Reads
<1>3. ASSUME NEW x \in Ends PROVE Flags(t, u, x)
  <2>1. t[e] \in T!EndType
    BY EndFacts
  <2> QED  BY <1>1, <2>1 DEF Reads, Flags, T!EndType
<1>4. \A x \in Ends : x # e => u[x].buf = t[x].buf
  BY <1>1 DEF Reads
<1> QED  BY <1>2, <1>3, <1>4 DEF u

\* A write reaches the peer, or the peer is gone.
Delivered(t, u, p, v) ==
    /\ T!Live(t, p)
    /\ \A x \in Ends : Flags(t, u, x)
    /\ \A x \in Ends : x # p => u[x].buf = t[x].buf
    /\ u[p].buf = Append(t[p].buf, v) /\ Len(u[p].buf) = Len(t[p].buf) + 1
Refused(t, u, e) ==
    /\ t[Peer[e]].st = "closed"
    /\ \A x \in Ends : x # e => u[x] = t[x]
    /\ u[e].st = t[e].st /\ u[e].eof = t[e].eof /\ u[e].late = t[e].late
    /\ u[e].rst = TRUE /\ u[e].buf = <<>>

\* What a write does to the fields of the ends.
LEMMA WrittenFields ==
    ASSUME NEW t, Conns(t), NEW e \in Ends, NEW v \in Data, T!CanWrite(t, e)
    PROVE  \/ Delivered(t, T!Written(t, e, v), Peer[e], v)
           \/ Refused(t, T!Written(t, e, v), e)
<1> DEFINE p == Peer[e]
           u == T!Written(t, e, v)
<1>1. p \in Ends /\ p # e /\ t[e] \in T!EndType /\ t[p] \in T!EndType /\ t[e].st = "open" /\ t[p].st # "none"
      /\ t[p].buf \in Seq(Data) /\ t \in [Ends -> T!EndType]
  BY PeerFacts, EndFacts DEF T!CanWrite, Conns
<1>2. CASE T!Live(t, p)
  <2>1. u = [t EXCEPT ![p].buf = Append(@, v)]
    BY <1>2 DEF T!Written
  <2>2. u[p] = [t[p] EXCEPT !.buf = Append(@, v)] /\ \A x \in Ends : x # p => u[x] = t[x]
    BY <1>1, <2>1
  <2> HIDE DEF u, p
  <2>3. u[p].buf = Append(t[p].buf, v) /\ Flags(t, u, p)
    BY <1>1, <2>2 DEF T!EndType, Flags
  <2>4. Len(Append(t[p].buf, v)) = Len(t[p].buf) + 1
    BY <1>1
  <2>5. \A x \in Ends : Flags(t, u, x)
    BY <2>2, <2>3 DEF Flags
  <2>6. \A x \in Ends : x # p => u[x].buf = t[x].buf
    BY <2>2
  <2> QED  BY <1>2, <2>3, <2>4, <2>5, <2>6 DEF u, p, Delivered
<1>3. CASE ~T!Live(t, p)
  <2>1. u = [t EXCEPT ![e].rst = TRUE, ![e].buf = <<>>]
    BY <1>3 DEF T!Written
  <2>2. u[e] = [t[e] EXCEPT !.rst = TRUE, !.buf = <<>>] /\ \A x \in Ends : x # e => u[x] = t[x]
    BY <1>1, <2>1
  <2>3. t[p].st = "closed"
    BY <1>1, <1>3 DEF T!Live, T!EndType
  <2> HIDE DEF u, p
  <2>4. /\ u[e].st = t[e].st /\ u[e].eof = t[e].eof /\ u[e].late = t[e].late
        /\ u[e].rst = TRUE /\ u[e].buf = <<>>
    BY <1>1, <2>2 DEF T!EndType
  <2> QED  BY <2>2, <2>3, <2>4 DEF u, p, Refused
<1> QED  BY <1>2, <1>3

\* End e, which was open, is half-closed; its peer p will see the end of the stream.
HalfClosed(t, u, e, p) ==
    /\ t[e].st = "open" /\ u[e].st = "half" /\ u[p].st = t[p].st
    /\ u[e].eof = t[e].eof /\ (u[p].eof => t[p].eof \/ T!Live(t, p))
    /\ \A x \in Ends : u[x].rst = t[x].rst /\ u[x].late = t[x].late /\ u[x].buf = t[x].buf
    /\ \A x \in Ends : x \notin {e, p} => u[x] = t[x]

\* What CloseWrite does to the fields of the ends.
LEMMA ShutWriteFields ==
    ASSUME NEW t, Conns(t), NEW e \in Ends
    PROVE  \/ t[e].st # "open" /\ T!ShutWrite(t, e) = t
           \/ HalfClosed(t, T!ShutWrite(t, e), e, Peer[e])
<1> DEFINE p == Peer[e]
           u == T!ShutWrite(t, e)
<1>1. p \in Ends /\ p # e /\ t[e] \in T!EndType /\ t[p] \in T!EndType /\ t \in [Ends -> T!EndType]
  BY PeerFacts, EndFacts DEF Conns
<1>2. CASE t[e].st = "open"
  <2>1. u = [t EXCEPT ![e].st = "half", ![p].eof = @ \/ T!Live(t, p)]
    BY <1>2 DEF T!ShutWrite
  <2>2. /\ u[e] = [t[e] EXCEPT !.st = "half"] /\ u[p] = [t[p] EXCEPT !.eof = @ \/ T!Live(t, p)]
        /\ \A x \in Ends : x \notin {e, p} => u[x] = t[x]
    BY <1>1, <2>1
  <2> HIDE DEF u, p
  <2>3. /\ u[e].st = "half" /\ u[e].eof = t[e].eof
        /\ u[e].rst = t[e].rst /\ u[e].late = t[e].late /\ u[e].buf = t[e].buf
    BY <1>1, <2>2 DEF T!EndType
  <2>4. /\ u[p].st = t[p].st /\ (u[p].eof => t[p].eof \/ T!Live(t, p))
        /\ u[p].rst = t[p].rst /\ u[p].late = t[p].late /\ u[p].buf = t[p].buf
    BY <1>1, <2>2 DEF T!EndType
  <2>5. \A x \in Ends : u[x].rst = t[x].rst /\ u[x].late = t[x].late /\ u[x].buf = t[x].buf
    BY <2>2, <2>3, <2>4
  <2> QED  BY <1>2, <2>2, <2>3, <2>4, <2>5 DEF u, p, HalfClosed
<1>3. CASE t[e].st # "open"
  BY <1>3 DEF T!ShutWrite
<1> QED  BY <1>2, <1>3

\* What a deadline in the past does to the fields of the ends.
LEMMA ExpiredFields ==
    ASSUME NEW t, Conns(t), NEW e \in Ends
    PROVE  LET u == T!Expired(t, e)
           IN  /\ \A x \in Ends : u[x].st = t[x].st /\ u[x].eof = t[x].eof /\ u[x].rst = t[x].rst
                                  /\ u[x].buf = t[x].buf
               /\ \A x \in Ends : x # e => u[x].late = t[x].late
<1> DEFINE u == T!Expired(t, e)
<1>1. t[e] \in T!EndType /\ t \in [Ends -> T!EndType]
  BY EndFacts DEF Conns
<1>2. CASE T!Live(t, e)
  <2>1. u = [t EXCEPT ![e].late = TRUE]
    BY <1>2 DEF T!Expired
  <2>2. u[e] = [t[e] EXCEPT !.late = TRUE] /\ \A x \in Ends : x # e => u[x] = t[x]
    BY <1>1, <2>1
  <2> HIDE DEF u
  <2>3. u[e].st = t[e].st /\ u[e].eof = t[e].eof /\ u[e].rst = t[e].rst /\ u[e].buf = t[e].buf
    BY <1>1, <2>2 DEF T!EndType
  <2> QED  BY <2>2, <2>3 DEF u
<1>3. CASE ~T!Live(t, e)
  BY <1>3 DEF T!Expired
<1> QED  BY <1>2, <1>3

\* End e is closed; its peer p loses what it has not read if e had not read everything.
Ended(t, u, e, p) ==
    /\ u[e].st = "closed" /\ u[e].buf = <<>> /\ ~u[e].eof /\ ~u[e].rst /\ ~u[e].late
    /\ u[p].st = t[p].st /\ u[p].late = t[p].late
    /\ t[e].buf = <<>> => u[p].buf = t[p].buf /\ u[p].rst = t[p].rst
    /\ t[e].buf # <<>> => u[p].buf = <<>>
    /\ t[p].rst => u[p].rst
    /\ \A x \in Ends : x \notin {e, p} => u[x] = t[x]

\* What Close does to the fields of the ends.
LEMMA ClosedFields ==
    ASSUME NEW t, Conns(t), NEW e \in Ends
    PROVE  \/ ~T!Live(t, e) /\ T!Closed(t, e) = t
           \/ T!Live(t, e) /\ Ended(t, T!Closed(t, e), e, Peer[e])
<1> DEFINE p == Peer[e]
           u == T!Closed(t, e)
           lost == t[e].buf # <<>>
           there == T!Live(t, p)
<1>1. p \in Ends /\ p # e /\ t[e] \in T!EndType /\ t[p] \in T!EndType /\ t \in [Ends -> T!EndType]
  BY PeerFacts, EndFacts DEF Conns
<1>2. CASE T!Live(t, e)
  <2>1. u = [t EXCEPT ![e] = [T!NoConn EXCEPT !.st = "closed"],
                      ![p].eof = @ \/ there,
                      ![p].rst = @ \/ (there /\ lost),
                      ![p].buf = IF lost THEN <<>> ELSE @]
    BY <1>2 DEF T!Closed
  <2>2. /\ u[e] = [T!NoConn EXCEPT !.st = "closed"]
        /\ u[p] = [t[p] EXCEPT !.eof = @ \/ there, !.rst = @ \/ (there /\ lost),
                               !.buf = IF lost THEN <<>> ELSE @]
        /\ \A x \in Ends : x \notin {e, p} => u[x] = t[x]
    BY <1>1, <2>1
  <2> HIDE DEF u, p
  <2>3. u[e].st = "closed" /\ u[e].buf = <<>> /\ ~u[e].eof /\ ~u[e].rst /\ ~u[e].late
    BY <2>2 DEF T!NoConn
  <2>4. /\ u[p].st = t[p].st /\ u[p].late = t[p].late
        /\ t[e].buf # <<>> => u[p].buf = <<>>
        /\ t[e].buf = <<>> => u[p].buf = t[p].buf
        /\ u[p].rst = (t[p].rst \/ (there /\ lost))
    BY <1>1, <2>2 DEF T!EndType
  <2>5. t[e].buf = <<>> => u[p].rst = t[p].rst
    BY <1>1, <2>4 DEF T!EndType
  <2>6. t[p].rst => u[p].rst
    BY <1>1, <2>4 DEF T!EndType
  <2> QED  BY <1>2, <2>2, <2>3, <2>4, <2>5, <2>6 DEF u, p, Ended
<1>3. CASE ~T!Live(t, e)
  BY <1>3 DEF T!Closed
<1> QED  BY <1>2, <1>3

\* What a new connection does to the fields of the ends.
LEMMA ConnectedFields ==
    ASSUME NEW t, Conns(t), NEW e \in Ends, t[e].st = "none"
    PROVE  LET u == T!Connected(t, e)
               p == Peer[e]
           IN  /\ \A x \in {e, p} : /\ u[x].st = "open" /\ u[x].buf = <<>>
                                    /\ ~u[x].eof /\ ~u[x].rst /\ ~u[x].late
               /\ \A x \in Ends : x \notin {e, p} => u[x] = t[x]
               /\ \A x \in Ends : u[x].buf = t[x].buf
<1> DEFINE p == Peer[e]
           u == T!Connected(t, e)
<1>1. p \in Ends /\ p # e /\ t[e] = T!NoConn /\ t[p] = T!NoConn /\ t \in [Ends -> T!EndType]
  BY PeerFacts DEF Conns
<1>2. /\ u[e] = [t[e] EXCEPT !.st = "open"] /\ u[p] = [t[p] EXCEPT !.st = "open"]
      /\ \A x \in Ends : x \notin {e, p} => u[x] = t[x]
  BY <1>1 DEF T!Connected
<1> HIDE DEF u, p
<1>3. \A x \in {e, p} : /\ u[x].st = "open" /\ u[x].buf = <<>>
                        /\ ~u[x].eof /\ ~u[x].rst /\ ~u[x].late
  BY <1>1, <1>2 DEF T!NoConn
<1>4. \A x \in Ends : u[x].buf = t[x].buf
  BY <1>1, <1>2, <1>3 DEF T!NoConn
<1> QED  BY <1>2, <1>3, <1>4 DEF u, p

-----------------------------------------------------------------------------
(* Sizes, and steps after which nothing is promised.                       *)

Sized(q) == Len(q) \in Nat /\ (q = <<>> <=> Len(q) = 0)

Sizes ==
    /\ Sized(app["service"].rcvd) /\ Sized(tcp["service"].buf) /\ Sized(relayC.x["ba"])
    /\ Sized(tcp["dc"].buf) /\ Sized(FromUser) /\ Sized(tcp["us"].buf)
    /\ Sized(app["user"].rcvd) /\ Sized(tcp["user"].buf) /\ Sized(relayS.x["ba"])
    /\ Sized(DsData) /\ Sized(relayC.x["ab"]) /\ Sized(tcp["lc"].buf)
    /\ Sized(tcp["ds"].buf)
    /\ app["user"].sent \in Nat /\ app["service"].sent \in Nat
    /\ U1 \in Nat /\ U2 \in Nat /\ U3 \in Nat /\ U4 \in Nat /\ U5 \in Nat /\ U6 \in Nat
    /\ D1 \in Nat /\ D2 \in Nat /\ D3 \in Nat /\ D4 \in Nat /\ D5 \in Nat /\ D6 \in Nat

\* A sequence has a length, and the empty one has length 0.
LEMMA SeqSized ==
    ASSUME NEW q \in Seq(Data)
    PROVE  Sized(q)
BY DEF Sized

\* The sizes follow from the types.
LEMMA SizesOK == (TypeOK => Sizes) /\ (TypeOK' => Sizes')
<1>1. ASSUME TypeOK PROVE Sizes
  <2>1. FlowTypes
    BY <1>1, FlowTyped
  <2>2. tcp["ds"].buf \in Seq(Data)
    BY <1>1 DEF TypeOK, T!EndType, Ends
  <2> QED  BY <2>1, <2>2, SeqSized DEF FlowTypes, FlowArgs, Sizes, Sized, U1, U2, U3, U4, U5, U6, D1, D2, D3, D4, D5, D6
<1>2. ASSUME TypeOK' PROVE Sizes'
  <2>1. FlowTypes'
    BY <1>2, FlowTyped
  <2>2. tcp'["ds"].buf \in Seq(Data)
    BY <1>2 DEF TypeOK, T!EndType, Ends
  <2> QED  BY <2>1, <2>2, SeqSized DEF FlowTypes, FlowArgs, Sizes, Sized, U1, U2, U3, U4, U5, U6, D1, D2, D3, D4, D5, D6
<1> QED  BY <1>1, <1>2

\* No place of the user's units has got more of them.
UpLess == U2' <= U2 /\ U3' <= U3 /\ U4' <= U4 /\ U5' <= U5 /\ U6' <= U6

\* When no place has got more and all of the user's units are still there, no place has less.
LEMMA UpLessBound ==
    ASSUME Sizes, Sizes', UpBound, UpLess, U1' = U1, app'["user"].sent = app["user"].sent
    PROVE  /\ UpBound'
           /\ UpTotal' = app'["user"].sent =>
                UpTotal = app["user"].sent /\ UNCHANGED <<U2, U3, U4, U5, U6>>
<1> DEFINE a == U1  b == U2  c == U3  d == U4  e == U5  f == U6  s == app["user"].sent
           b2 == U2'  c2 == U3'  d2 == U4'  e2 == U5'  f2 == U6'
<1>1. /\ a \in Nat /\ b \in Nat /\ c \in Nat /\ d \in Nat /\ e \in Nat /\ f \in Nat /\ s \in Nat
      /\ b2 \in Nat /\ c2 \in Nat /\ d2 \in Nat /\ e2 \in Nat /\ f2 \in Nat
  BY DEF Sizes
<1>2. /\ U1' = a /\ app'["user"].sent = s
      /\ a + b + c + d + e + f <= s
      /\ b2 <= b /\ c2 <= c /\ d2 <= d /\ e2 <= e /\ f2 <= f
  BY DEF UpBound, UpTotal, UpLess
<1> HIDE DEF a, b, c, d, e, f, s, b2, c2, d2, e2, f2
<1>3. /\ a + b2 + c2 + d2 + e2 + f2 <= s
      /\ a + b2 + c2 + d2 + e2 + f2 = s =>
            a + b + c + d + e + f = s /\ b2 = b /\ c2 = c /\ d2 = d /\ e2 = e /\ f2 = f
  BY ONLY <1>1, <1>2
<1> QED  BY <1>2, <1>3 DEF UpBound, UpTotal, a, b, c, d, e, f, s, b2, c2, d2, e2, f2

\* Connections that only lose data give no place more of it.
LEMMA DecaysLess ==
    ASSUME Sizes, Sizes', Decays(tcp, tcp'), U5' <= U5, U3' <= U3
    PROVE  UpLess
<1>1. ASSUME NEW x \in {"service", "dc", "us"} PROVE Len(tcp'[x].buf) <= Len(tcp[x].buf)
  <2>1. x \in Ends /\ (tcp'[x].buf = tcp[x].buf \/ tcp'[x].buf = <<>>)
    BY DEF Decays, Ends
  <2>2. Sized(tcp[x].buf) /\ Sized(tcp'[x].buf)
    BY DEF Sizes
  <2> QED  BY <2>1, <2>2 DEF Sized
<1> QED  BY <1>1 DEF UpLess, U2, U4, U6

\* A step in which the user's units only get lost.
LEMMA LessStep ==
    ASSUME IInv, IInv', LossInv, UpLess, U1' = U1, app'["user"].sent = app["user"].sent, Kept' => Kept,
           Kept' /\ PathGood /\ UNCHANGED <<U2, U3, U4, U5, U6>> => PathGood'
    PROVE  LossInv'
<1>1. Sizes /\ Sizes'
  BY SizesOK DEF IInv
<1>2. /\ UpBound'
      /\ Good' => Good /\ UNCHANGED <<U2, U3, U4, U5, U6>>
  BY <1>1, UpLessBound DEF LossInv, Good
<1>3. Good' => PathGood'
  BY <1>2 DEF LossInv, Good
<1> QED  BY <1>2, <1>3 DEF LossInv

\* After the step nothing is promised.
LEMMA BadStep ==
    ASSUME IInv, IInv', LossInv, UpLess, ~Good', UNCHANGED app
    PROVE  LossInv'
<1>1. Sizes /\ Sizes' /\ U1' = U1
  BY SizesOK DEF IInv, U1
<1> QED  BY <1>1, UpLessBound DEF LossInv

\* The same, when the connections only lose data.
LEMMA BadDecay ==
    ASSUME IInv, IInv', LossInv, Decays(tcp, tcp'), ~Good',
           UNCHANGED <<app, peeked, relayS, relayC>>
    PROVE  LossInv'
<1>1. Sizes /\ Sizes'
  BY SizesOK DEF IInv
<1>2. U5' <= U5 /\ U3' <= U3
  BY <1>1 DEF U5, U3, FromUser, Sizes
<1> QED  BY <1>1, <1>2, DecaysLess, BadStep

\* A step that leaves connections, data and relays alone.
LEMMA IdleStep ==
    ASSUME IInv, LossInv, UNCHANGED <<tcp, app, peeked, dh, relayS, relayC>>,
           ctxDone => ctxDone', sv = "done" => sv' = "done",
           pend' = "given" => pend = "given",
           sv = "replay" => sv' \in {"replay", "done"},
           ch \in {"relay", "done"} => ch' = ch
    PROVE  LossInv'
<1>1. UpTotal' = UpTotal /\ DownTotal' = DownTotal /\ (Good' => Good)
  BY DEF UpTotal, DownTotal, FromUser, DsData, Good, Kept, U1, U2, U3, U4, U5, U6, D1, D2, D3, D4, D5, D6
<1>2. Drained => Drained'
  BY DEF Drained
<1>3. \A x : /\ (Shut(tcp', x) <=> Shut(tcp, x))
  BY DEF Shut
<1>4. PathGood => PathGood'
  BY <1>1, <1>2, <1>3 DEF PathGood, UsGood, UserGood, DownGood, ServerGood, DsGood, DcGood, ClientGood, LcGood
<1> QED  BY <1>1, <1>4 DEF LossInv, UpBound

-----------------------------------------------------------------------------
(* A unit moves.                                                           *)

\* The relay is as far as it was.
SameState(r, s) ==
    /\ s.st = "returned" <=> r.st = "returned"
    /\ Ending(s) <=> Ending(r)
    /\ \A d \in {"ab", "ba"} : Over(s, d) <=> Over(r, d)

\* The connections, but for their buffers, and the relays are as they were.
LEMMA MoveGood ==
    ASSUME PathGood, \A x \in Ends : Flags(tcp, tcp', x),
           SameState(relayS, relayS'), SameState(relayC, relayC'), relayC'.st = relayC.st,
           Drained => Drained', Ending(relayS) => tcp'["ds"].buf = <<>>, DownGood'
    PROVE  PathGood'
<1>1. \A x \in Ends : /\ tcp'[x].st = tcp[x].st /\ tcp'[x].eof = tcp[x].eof
                      /\ tcp'[x].rst = tcp[x].rst /\ tcp'[x].late = tcp[x].late
                      /\ (Shut(tcp', x) <=> Shut(tcp, x))
  BY DEF Flags, Shut
<1>2. /\ "user" \in Ends /\ "us" \in Ends /\ "ds" \in Ends /\ "dc" \in Ends /\ "lc" \in Ends
      /\ "service" \in Ends
  BY DEF Ends
<1>3. UsGood' /\ UserGood'
  BY <1>1, <1>2 DEF PathGood, UsGood, UserGood, SameState
<1>4. ServerGood' /\ DsGood'
  BY <1>1, <1>2 DEF PathGood, ServerGood, DsGood, SameState
<1>5. DcGood' /\ ClientGood' /\ LcGood'
  BY <1>1, <1>2 DEF PathGood, DcGood, ClientGood, LcGood, SameState
<1> QED  BY <1>3, <1>4, <1>5 DEF PathGood

\* A step that loses nothing, in which a unit goes on or none does.
LEMMA MoveStep ==
    ASSUME LossInv, \A x \in Ends : Flags(tcp, tcp', x),
           UpTotal' = UpTotal, DownTotal' = DownTotal, ctxDone' = ctxDone, UNCHANGED <<dh, pend>>,
           \A e \in Apps : app'[e].sent = app[e].sent,
           sv = "done" => sv' = "done", sv = "replay" /\ tcp["ds"].rst => sv' = "replay",
           PathGood => /\ SameState(relayS, relayS') /\ SameState(relayC, relayC') /\ relayC'.st = relayC.st
                       /\ Drained => Drained'
                       /\ Ending(relayS) => tcp'["ds"].buf = <<>>
    PROVE  LossInv'
<1>1. /\ "user" \in Apps /\ "service" \in Apps /\ "user" \in Ends /\ "ds" \in Ends
  BY DEF Apps, Ends
<1>2. Good' => Good
  BY <1>1 DEF Good, Kept, Flags
<1>3. PathGood => PathGood'
  BY <1>1, MoveGood DEF PathGood, DownGood
<1> QED  BY <1>1, <1>2, <1>3 DEF LossInv, UpBound

\* Copy d of relay r, now s, has read or written, and holds y.
CopyMoved(r, s, d, y) ==
    /\ SameState(r, s) /\ s.st = r.st /\ s.x[d] = y
    /\ \A f \in {"ab", "ba"} : f # d => s.x[f] = r.x[f]

\* A read or a write of a copy brings its relay no nearer to its end.
LEMMA CopySteps ==
    ASSUME NEW r \in SR!RelayType, NEW d \in {"ab", "ba"}, NEW p \in {"read", "write"},
           NEW y \in {<<>>} \cup {<<v>> : v \in Data}, r.pc[d] # "done",
           NEW s, s = [r EXCEPT !.pc[d] = p, !.x[d] = y]
    PROVE  CopyMoved(r, s, d, y)
<1>1. Copies(r, s, d, p, y)
  BY CopyMoves
<1>2. s.cancelled = r.cancelled /\ s.watched = r.watched
  BY DEF SR!RelayType
<1>3. /\ s.st = r.st /\ s.pc[d] = p /\ s.x[d] = y /\ p # "done"
      /\ \A f \in {"ab", "ba"} : f # d => s.pc[f] = r.pc[f] /\ s.x[f] = r.x[f]
  BY <1>1 DEF Copies
<1>4. \A f \in {"ab", "ba"} : Over(s, f) <=> Over(r, f)
  BY <1>3 DEF Over
<1>5. Ending(s) <=> Ending(r)
  BY <1>2, <1>3 DEF Ending
<1> QED  BY <1>3, <1>4, <1>5 DEF SameState, CopyMoved

\* Steps that move nothing.
LEMMA IdleSteps ==
    ASSUME IInv, LossInv,
           \/ SendOpen \/ CtrlRead \/ FrameStep \/ Ping \/ PingSent \/ CtrlBreaks \/ UNCHANGED vars
           \/ OpenSent /\ sv' = "wait"
           \/ TakeData /\ kind = "https"
           \/ DialServer(FALSE)
    PROVE  LossInv'
<1>1. /\ UNCHANGED <<tcp, app, peeked, dh, relayS, relayC>>
      /\ pend' = "given" => pend = "given"
  BY DEF SendOpen, CtrlRead, FrameStep, Ping, PingSent, CtrlBreaks, vars, OpenSent, TakeData, DialServer,
         pathVars
<1>4. ctxDone => ctxDone'
  <2>1. CASE PingSent
    BY <2>1 DEF PingSent
  <2>2. CASE ~PingSent
    BY <2>2 DEF SendOpen, CtrlRead, FrameStep, Ping, CtrlBreaks, vars, OpenSent, TakeData, DialServer
  <2> QED  BY <2>1, <2>2
<1>2. /\ sv = "done" => sv' = "done"
      /\ sv = "replay" => sv' \in {"replay", "done"}
  BY DEF SendOpen, CtrlRead, FrameStep, Ping, PingSent, CtrlBreaks, vars, OpenSent, TakeData, DialServer,
         pathVars
<1>3. ch \in {"relay", "done"} => ch' = ch
  BY DEF SendOpen, CtrlRead, FrameStep, Ping, PingSent, CtrlBreaks, vars, OpenSent, TakeData, DialServer,
         pathVars
<1> QED  BY <1>1, <1>2, <1>3, <1>4, IdleStep

\* The path is given up, the data connection breaks, the user ends or the context does.
LEMMA BadSteps ==
    ASSUME IInv, IInv', LossInv,
           \/ PeekFails \/ GiveUpWaiting \/ ReplayFails \/ HelloFails \/ DataBreaks \/ ContextEnds
           \/ OpenSent /\ sv' = "done"
           \/ AppEnds("user")
    PROVE  LossInv'
<1>1. Conns(tcp) /\ "us" \in Ends /\ "ds" \in Ends /\ "user" \in Ends
  BY ConnsOK DEF IInv
<1>2. Decays(tcp, tcp')
  <2>1. CASE PeekFails \/ GiveUpWaiting \/ HelloFails \/ AppEnds("user") \/ (OpenSent /\ sv' = "done")
    BY <1>1, <2>1, ClosedDecays, ShutWriteDecays DEF PeekFails, GiveUpWaiting, HelloFails, AppEnds, OpenSent
  <2>2. CASE ReplayFails
    BY <1>1, <2>2, BothDecay DEF ReplayFails
  <2>3. CASE DataBreaks
    BY <1>1, <2>3, ResetDecays DEF DataBreaks
  <2>4. CASE ContextEnds
    BY <1>1, <2>4, DecaysSame DEF ContextEnds, pathVars
  <2> QED  BY <2>1, <2>2, <2>3, <2>4
<1>3. UNCHANGED <<app, peeked, relayS, relayC>>
  BY DEF PeekFails, GiveUpWaiting, ReplayFails, HelloFails, DataBreaks, ContextEnds, OpenSent, AppEnds,
         pathVars
<1>4. ~Good'
  <2>1. CASE PeekFails \/ GiveUpWaiting \/ ReplayFails \/ ContextEnds \/ (OpenSent /\ sv' = "done")
    BY <2>1 DEF PeekFails, GiveUpWaiting, ReplayFails, ContextEnds, Good, Kept
  <2>2. CASE HelloFails
    <3>1. dh = "hello" /\ dh' = "done" /\ pend' = pend
      BY <2>2 DEF HelloFails
    <3>2. pend # "given"
      BY <3>1 DEF IInv, HelloInv
    <3> QED  BY <3>1, <3>2 DEF Good, Kept
  <2>3. CASE DataBreaks
    <3>1. sv' = "replay" /\ T!Live(tcp, "ds") /\ tcp' = T!Reset(tcp, "ds")
      BY <2>3 DEF DataBreaks
    <3>2. tcp'["ds"] = [tcp["ds"] EXCEPT !.rst = TRUE, !.buf = <<>>]
      BY <1>1, <3>1 DEF T!Reset
    <3>3. tcp["ds"] \in T!EndType
      BY <1>1 DEF Conns
    <3> QED  BY <3>1, <3>2, <3>3 DEF Good, Kept, T!EndType
  <2>4. CASE AppEnds("user")
    <3>1. T!Live(tcp, "user")
      BY <2>4 DEF AppEnds
    <3>2. CASE tcp["user"].st = "open" /\ tcp' = T!ShutWrite(tcp, "user")
      <4>1. tcp'["user"].st = "half"
        BY <1>1, <3>2, ShutWriteFields DEF HalfClosed
      <4> QED  BY <4>1 DEF Good, Kept
    <3>3. CASE tcp' = T!Closed(tcp, "user")
      <4>1. tcp'["user"].st = "closed"
        BY <1>1, <3>1, <3>3, ClosedFields DEF Ended
      <4> QED  BY <4>1 DEF Good, Kept
    <3> QED  BY <2>4, <3>2, <3>3 DEF AppEnds
  <2> QED  BY <2>1, <2>2, <2>3, <2>4
<1> QED  BY <1>2, <1>3, <1>4, BadDecay

\* The hello is refused, or taken.
LEMMA ReadHelloLoss ==
    ASSUME IInv, IInv', LossInv, ReadHello
    PROVE  LossInv'
<1> DEFINE u == T!Taken(tcp, "ds")
<1>1. /\ Conns(tcp) /\ "ds" \in Ends /\ "dc" \in Ends /\ "us" \in Ends /\ "service" \in Ends
      /\ Peer["ds"] = "dc" /\ T!HasData(tcp, "ds") /\ TypeOK /\ TypeOK'
  BY ConnsOK DEF IInv, ReadHello
<1>2. /\ Conns(u) /\ \A x \in Ends : Flags(tcp, u, x)
      /\ \A x \in Ends : x # "ds" => u[x].buf = tcp[x].buf
      /\ u["ds"].buf = Tail(tcp["ds"].buf) /\ tcp["ds"].buf # <<>>
  BY <1>1, TakenReads, TakenFields
<1>3. dh = "hello" /\ dh' = "done" /\ UNCHANGED <<app, sv, peeked, ch, relayS, relayC, ctxDone>>
  BY DEF ReadHello
<1>4. Sizes /\ Sizes' /\ FromUser' = FromUser
  BY <1>1, <1>3, SizesOK DEF FromUser
<1> HIDE DEF u
<1>5. CASE pend = "open"
  <2>1. tcp' = u /\ pend' = "given"
    BY <1>5 DEF ReadHello, Fulfil, u
  <2>2. DsData' = DsData
    BY <1>2, <1>3, <2>1 DEF DsData
  <2>3. UpTotal' = UpTotal /\ DownTotal' = DownTotal
    BY <1>1, <1>2, <1>3, <1>4, <2>1, <2>2, ConnsOK DEF UpTotal, DownTotal, IInv, U1, U2, U3, U4, U5, U6, D1, D2, D3, D4, D5, D6
  <2>4. Good' => Good
    BY <1>1, <1>2, <1>3, <2>1, <2>3, ConnsOK DEF Good, Kept, Flags, IInv
  <2>5. Drained => Drained'
    BY <1>2, <1>3, <2>1, ConnsOK DEF Drained, Flags, IInv
  <2>6. Good => (Ending(relayS) => tcp'["ds"].buf = <<>>)
    BY <1>2 DEF LossInv, PathGood, ServerGood
  <2>7. SameState(relayS, relayS') /\ SameState(relayC, relayC')
    BY <1>3 DEF SameState
  <2>8. Good => PathGood'
    BY <1>2, <1>3, <2>1, <2>3, <2>5, <2>6, <2>7, MoveGood DEF LossInv, PathGood, DownGood
  <2> QED  BY <1>3, <2>3, <2>4, <2>8 DEF LossInv, UpBound
<1>6. CASE pend # "open"
  <2>1. tcp' = T!Closed(u, "ds") /\ pend' = pend
    BY <1>6 DEF ReadHello, Fulfil, u
  <2>2. pend # "given"
    BY <1>3 DEF IInv, HelloInv
  <2>3. ~Good'
    BY <1>3, <2>1, <2>2 DEF Good, Kept
  <2>4. Decays(u, tcp')
    BY <1>1, <1>2, <2>1, ClosedDecays
  <2>5. ASSUME NEW x \in {"service", "dc", "us"} PROVE Len(tcp'[x].buf) <= Len(tcp[x].buf)
    <3>1. tcp'[x].buf = tcp[x].buf \/ tcp'[x].buf = <<>>
      BY <1>1, <1>2, <2>4 DEF Decays
    <3>2. Sized(tcp[x].buf) /\ Sized(tcp'[x].buf)
      BY <1>4 DEF Sizes
    <3> QED  BY <3>1, <3>2 DEF Sized
  <2>6. UpLess
    <3>1. U2' <= U2 /\ U4' <= U4 /\ U6' <= U6
      BY <2>5 DEF U2, U4, U6
    <3>2. U3' <= U3 /\ U5' <= U5
      BY <1>3, <1>4 DEF U3, U5, Sizes
    <3> QED  BY <3>1, <3>2 DEF UpLess
  <2> QED  BY <1>3, <2>3, <2>6, BadStep
<1> QED  BY <1>5, <1>6

\* A unit goes from one place of the user's flow to the next.
LEMMA UpShifts ==
    ASSUME Sizes, Sizes',
           \/ U1' = U1 + 1 /\ U2' + 1 = U2 /\ UNCHANGED <<U3, U4, U5, U6>>
           \/ U2' = U2 + 1 /\ U3' + 1 = U3 /\ UNCHANGED <<U1, U4, U5, U6>>
           \/ U3' = U3 + 1 /\ U4' + 1 = U4 /\ UNCHANGED <<U1, U2, U5, U6>>
           \/ U4' = U4 + 1 /\ U5' + 1 = U5 /\ UNCHANGED <<U1, U2, U3, U6>>
           \/ U5' = U5 + 1 /\ U6' + 1 = U6 /\ UNCHANGED <<U1, U2, U3, U4>>
    PROVE  UpTotal' = UpTotal
<1> DEFINE a == U1  b == U2  c == U3  d == U4  e == U5  f == U6
           a2 == U1'  b2 == U2'  c2 == U3'  d2 == U4'  e2 == U5'  f2 == U6'
<1>1. /\ a \in Nat /\ b \in Nat /\ c \in Nat /\ d \in Nat /\ e \in Nat /\ f \in Nat
      /\ a2 \in Nat /\ b2 \in Nat /\ c2 \in Nat /\ d2 \in Nat /\ e2 \in Nat /\ f2 \in Nat
  BY DEF Sizes
<1>2. \/ a2 = a + 1 /\ b2 + 1 = b /\ c2 = c /\ d2 = d /\ e2 = e /\ f2 = f
      \/ b2 = b + 1 /\ c2 + 1 = c /\ a2 = a /\ d2 = d /\ e2 = e /\ f2 = f
      \/ c2 = c + 1 /\ d2 + 1 = d /\ a2 = a /\ b2 = b /\ e2 = e /\ f2 = f
      \/ d2 = d + 1 /\ e2 + 1 = e /\ a2 = a /\ b2 = b /\ c2 = c /\ f2 = f
      \/ e2 = e + 1 /\ f2 + 1 = f /\ a2 = a /\ b2 = b /\ c2 = c /\ d2 = d
  OBVIOUS
<1> HIDE DEF a, b, c, d, e, f, a2, b2, c2, d2, e2, f2
<1>3. a2 + b2 + c2 + d2 + e2 + f2 = a + b + c + d + e + f
  BY ONLY <1>1, <1>2
<1> QED  BY <1>3 DEF UpTotal, a, b, c, d, e, f, a2, b2, c2, d2, e2, f2

\* A unit goes from one place of the service's flow to the next.
LEMMA DownShifts ==
    ASSUME Sizes, Sizes',
           \/ D1' = D1 + 1 /\ D2' + 1 = D2 /\ UNCHANGED <<D3, D4, D5, D6>>
           \/ D2' = D2 + 1 /\ D3' + 1 = D3 /\ UNCHANGED <<D1, D4, D5, D6>>
           \/ D3' = D3 + 1 /\ D4' + 1 = D4 /\ UNCHANGED <<D1, D2, D5, D6>>
           \/ D4' = D4 + 1 /\ D5' + 1 = D5 /\ UNCHANGED <<D1, D2, D3, D6>>
           \/ D5' = D5 + 1 /\ D6' + 1 = D6 /\ UNCHANGED <<D1, D2, D3, D4>>
    PROVE  DownTotal' = DownTotal
<1> DEFINE a == D1  b == D2  c == D3  d == D4  e == D5  f == D6
           a2 == D1'  b2 == D2'  c2 == D3'  d2 == D4'  e2 == D5'  f2 == D6'
<1>1. /\ a \in Nat /\ b \in Nat /\ c \in Nat /\ d \in Nat /\ e \in Nat /\ f \in Nat
      /\ a2 \in Nat /\ b2 \in Nat /\ c2 \in Nat /\ d2 \in Nat /\ e2 \in Nat /\ f2 \in Nat
  BY DEF Sizes
<1>2. \/ a2 = a + 1 /\ b2 + 1 = b /\ c2 = c /\ d2 = d /\ e2 = e /\ f2 = f
      \/ b2 = b + 1 /\ c2 + 1 = c /\ a2 = a /\ d2 = d /\ e2 = e /\ f2 = f
      \/ c2 = c + 1 /\ d2 + 1 = d /\ a2 = a /\ b2 = b /\ e2 = e /\ f2 = f
      \/ d2 = d + 1 /\ e2 + 1 = e /\ a2 = a /\ b2 = b /\ c2 = c /\ f2 = f
      \/ e2 = e + 1 /\ f2 + 1 = f /\ a2 = a /\ b2 = b /\ c2 = c /\ d2 = d
  OBVIOUS
<1> HIDE DEF a, b, c, d, e, f, a2, b2, c2, d2, e2, f2
<1>3. a2 + b2 + c2 + d2 + e2 + f2 = a + b + c + d + e + f
  BY ONLY <1>1, <1>2
<1> QED  BY <1>3 DEF DownTotal, a, b, c, d, e, f, a2, b2, c2, d2, e2, f2

-----------------------------------------------------------------------------
(* The steps that move a unit.                                             *)

\* Ends and peers, and the sizes of what they hold, before and after a step.
LEMMA PathFacts ==
    ASSUME IInv, IInv'
    PROVE  /\ Conns(tcp) /\ Conns(tcp') /\ Sizes /\ Sizes'
           /\ {"user", "us", "ds", "dc", "lc", "service"} \subseteq Ends
           /\ Peer["us"] = "user" /\ Peer["user"] = "us" /\ Peer["ds"] = "dc"
           /\ Peer["dc"] = "ds" /\ Peer["lc"] = "service" /\ Peer["service"] = "lc"
           /\ relayS \in SR!RelayType /\ relayC \in SR!RelayType
           /\ relayS.st = "on" => sv = "relay" /\ dh = "done" /\ peeked = <<>>
<1>1. Conns(tcp) /\ Sizes /\ Sizes'
  BY ConnsOK, SizesOK DEF IInv
<1>2. Conns(tcp')
  BY DEF IInv, TypeOK, ConnInv, Conns
<1>3. relayS \in SR!RelayType /\ relayC \in SR!RelayType
  BY DEF IInv, TypeOK, SR!RelayType, CR!RelayType, SR!Dirs, CR!Dirs
<1>4. relayS.st = "on" => sv = "relay" /\ dh = "done" /\ peeked = <<>>
  BY DEF IInv, RelayInv, HelloInv, PeekInv
<1> QED  BY <1>1, <1>2, <1>3, <1>4, ConnsOK DEF IInv

\* The length of what a copy holds.
LEMMA OneUnit ==
    ASSUME NEW x
    PROVE  Len(<<x>>) = 1 /\ Len(<<>>) = 0 /\ <<x>> # <<>> /\ Head(<<x>>) = x
OBVIOUS

\* Nothing has happened to a relay.
LEMMA SameSelf ==
    ASSUME NEW r
    PROVE  SameState(r, r)
BY DEF SameState

\* A relay that is off has not begun to end, and starting it is no step towards that.
LEMMA StartedSame ==
    ASSUME NEW r \in SR!RelayType, CopyInv(r), r.st = "off"
    PROVE  /\ r.pc["ab"] # "done" /\ r.pc["ba"] # "done" /\ ~Over(r, "ab") /\ ~Over(r, "ba")
           /\ ~Ending(SR!Started) /\ SR!Started.st = "on" /\ SR!Started.x["ab"] = <<>>
           /\ SR!Started.x["ba"] = <<>> /\ r.x["ab"] = <<>> /\ r.x["ba"] = <<>>
           /\ ~Over(SR!Started, "ab") /\ ~Over(SR!Started, "ba") /\ CR!Started = SR!Started
<1> DEFINE s == SR!Started
<1>1. /\ s.st = "on" /\ ~s.cancelled /\ ~s.watched
      /\ \A d \in {"ab", "ba"} : s.pc[d] = "read" /\ s.x[d] = <<>>
  BY DEF SR!Started, SR!NoRelay, SR!Dirs
<1>2. CR!Started = SR!Started
  BY DEF SR!Started, SR!NoRelay, SR!Dirs, CR!Started, CR!NoRelay, CR!Dirs
<1> HIDE DEF s
<1>3. /\ \A d \in {"ab", "ba"} : r.pc[d] = "read" /\ r.x[d] = <<>>
  BY DEF CopyInv
<1>4. ~Ending(s) /\ ~Over(s, "ab") /\ ~Over(s, "ba")
  BY <1>1 DEF Ending, Over
<1> QED  BY <1>1, <1>2, <1>3, <1>4 DEF s, Over

\* Under PathGood a relay that is off is not ending.
LEMMA OffIsSame ==
    ASSUME IInv, PathGood
    PROVE  /\ relayS.st = "off" => ~Ending(relayS) /\ SameState(relayS, SR!Started)
           /\ relayC.st = "off" => ~Ending(relayC) /\ SameState(relayC, CR!Started)
<1>1. /\ relayS \in SR!RelayType /\ CopyInv(relayS) /\ relayC \in SR!RelayType /\ CopyInv(relayC)
  BY DEF IInv, TypeOK, RelayInv, SR!RelayType, CR!RelayType, SR!Dirs, CR!Dirs
<1>2. /\ Ending(relayS) => Over(relayS, "ba")
      /\ Ending(relayC) => Over(relayC, "ab")
  BY DEF PathGood, ServerGood, ClientGood
<1>3. ASSUME relayS.st = "off" PROVE ~Ending(relayS) /\ SameState(relayS, SR!Started)
  BY <1>1, <1>2, <1>3, StartedSame DEF SameState
<1>4. ASSUME relayC.st = "off" PROVE ~Ending(relayC) /\ SameState(relayC, CR!Started)
  BY <1>1, <1>2, <1>4, StartedSame DEF SameState
<1> QED  BY <1>3, <1>4

\* The same, place by place.
LEMMA PlacesLess ==
    ASSUME IInv, IInv', U2' = U2 \/ U2' <= U2, U3' = U3 \/ U3' <= U3, U4' = U4 \/ U4' <= U4,
           U5' = U5 \/ U5' <= U5, U6' = U6 \/ U6' <= U6
    PROVE  UpLess
<1> DEFINE b == U2  c == U3  d == U4  e == U5  f == U6
<1>1. b \in Nat /\ c \in Nat /\ d \in Nat /\ e \in Nat /\ f \in Nat
  BY PathFacts DEF Sizes
<1> HIDE DEF b, c, d, e, f
<1>2. b <= b /\ c <= c /\ d <= d /\ e <= e /\ f <= f
  BY <1>1
<1> QED  BY <1>2 DEF UpLess, b, c, d, e, f

\* peekSNI takes the ClientHello.
LEMMA PeekLoss ==
    ASSUME IInv, IInv', LossInv, Peek
    PROVE  LossInv'
<1>1. T!HasData(tcp, "us") /\ tcp' = T!Taken(tcp, "us") /\ peeked' = <<Head(tcp["us"].buf)>>
  BY DEF Peek
<1>2. /\ \A x \in Ends : Flags(tcp, tcp', x)
      /\ \A x \in Ends : x # "us" => tcp'[x].buf = tcp[x].buf
      /\ Len(tcp'["us"].buf) + 1 = Len(tcp["us"].buf)
  BY <1>1, PathFacts, TakenFields
<1>3. sv = "peek" /\ sv' = "open" /\ peeked = <<>> /\ relayS.x["ab"] = <<>>
      /\ UNCHANGED <<app, pend, dh, ch, relayS, relayC, ctxDone>>
  BY DEF Peek, IInv, PeekInv, RelayInv, CopyInv
<1>4. /\ U5' = U5 + 1 /\ U6' + 1 = U6 /\ UNCHANGED <<U1, U2, U3, U4>>
      /\ UNCHANGED <<D1, D2, D3, D4, D5, D6>>
  <2>1. Len(FromUser) = 0 /\ Len(FromUser') = 1
    BY <1>1, <1>3, OneUnit DEF FromUser
  <2>2. DsData' = DsData
    BY <1>2, <1>3, PathFacts DEF DsData
  <2> QED  BY <1>2, <1>3, <2>1, <2>2, PathFacts DEF U1, U2, U3, U4, U5, U6, D1, D2, D3, D4, D5, D6
<1>5. UpTotal' = UpTotal /\ DownTotal' = DownTotal
  BY <1>4, PathFacts, UpShifts DEF DownTotal
<1>6. Drained => Drained'
  BY <1>2, <1>3, PathFacts DEF Drained, Flags
<1>7. PathGood => (Ending(relayS) => tcp'["ds"].buf = <<>>)
  BY <1>2, PathFacts DEF PathGood, ServerGood
<1> QED  BY <1>2, <1>3, <1>5, <1>6, <1>7, SameSelf, MoveStep

\* The relay on the server starts at once.
LEMMA TakeDataLoss ==
    ASSUME IInv, IInv', LossInv, TakeData, kind # "https"
    PROVE  LossInv'
<1>1. relayS' = SR!Started /\ sv = "wait" /\ relayS.st = "off"
      /\ UNCHANGED <<tcp, app, peeked, pend, dh, ch, relayC, ctxDone>>
  BY DEF TakeData, StartRelay, IInv, RelayInv
<1>2. relayS \in SR!RelayType /\ CopyInv(relayS)
  BY PathFacts DEF IInv, RelayInv
<1>3. relayS'.x["ab"] = relayS.x["ab"] /\ relayS'.x["ba"] = relayS.x["ba"]
  BY <1>1, <1>2, StartedSame
<1>4. UpTotal' = UpTotal /\ DownTotal' = DownTotal
  BY <1>1, <1>3 DEF UpTotal, DownTotal, U1, U2, U3, U4, U5, U6, D1, D2, D3, D4, D5, D6, FromUser, DsData
<1>5. \A x \in Ends : Flags(tcp, tcp', x)
  BY <1>1 DEF Flags
<1>6. Drained => Drained'
  BY <1>1 DEF Drained
<1>7. PathGood => SameState(relayS, relayS') /\ (Ending(relayS) => tcp'["ds"].buf = <<>>)
  BY <1>1, OffIsSame DEF PathGood, ServerGood
<1> QED  BY <1>1, <1>4, <1>5, <1>6, <1>7, SameSelf, MoveStep

\* relayHTTPSConn replays the ClientHello and starts the relay.
LEMMA ReplayLoss ==
    ASSUME IInv, IInv', LossInv, Replay
    PROVE  LossInv'
<1>1. /\ sv = "replay" /\ sv' = "relay" /\ relayS.st = "off" /\ peeked # <<>> /\ peeked' = <<>>
      /\ relayS' = SR!Started /\ dh = "done" /\ pend = "given" /\ Head(peeked) \in Data
      /\ peeked \in {<<v>> : v \in Data}
      /\ T!CanWrite(tcp, "ds") /\ tcp' = T!Written(tcp, "ds", Head(peeked))
      /\ UNCHANGED <<app, pend, dh, ch, relayC, ctxDone>>
  BY UnitTyped DEF Replay, StartRelay, IInv, PeekInv, RelayInv, HelloInv, TypeOK
<1>2. relayS \in SR!RelayType /\ CopyInv(relayS)
  BY PathFacts DEF IInv, RelayInv
<1>3. relayS'.x["ab"] = <<>> /\ relayS.x["ab"] = <<>> /\ relayS'.x["ba"] = relayS.x["ba"]
  BY <1>1, <1>2, StartedSame
<1>4. U5' + 1 = U5 /\ U5' <= U5 /\ U5' # U5 /\ D3' = D3
  <2>1. Len(FromUser) = 1 /\ Len(FromUser') = 0
    BY <1>1, <1>3, OneUnit DEF FromUser
  <2> QED  BY <1>3, <2>1 DEF U5, D3
<1>5. tcp["ds"].rst = FALSE
  BY <1>1, PathFacts, EndFacts DEF T!CanWrite
<1>6. CASE Delivered(tcp, tcp', "dc", Head(peeked))
  <2>0. /\ \A x \in Ends : Flags(tcp, tcp', x)
        /\ \A x \in Ends : x # "dc" => tcp'[x].buf = tcp[x].buf
        /\ Len(tcp'["dc"].buf) = Len(tcp["dc"].buf) + 1
    BY <1>6 DEF Delivered
  <2>1. /\ U4' = U4 + 1 /\ UNCHANGED <<U1, U2, U3, U6>> /\ UNCHANGED <<D1, D2, D4, D5, D6>>
    BY <1>1, <2>0, PathFacts DEF U1, U2, U3, U4, U6, D1, D2, D4, D5, D6, DsData
  <2>2. UpTotal' = UpTotal /\ DownTotal' = DownTotal
    BY <1>4, <2>1, PathFacts, UpShifts DEF DownTotal
  <2>3. Drained => Drained'
    BY <1>1, <2>0, PathFacts DEF Drained, Flags
  <2>4. PathGood => SameState(relayS, relayS') /\ (Ending(relayS) => tcp'["ds"].buf = <<>>)
    BY <1>1, <2>0, PathFacts, OffIsSame DEF PathGood, ServerGood
  <2> QED  BY <1>1, <1>5, <2>0, <2>2, <2>3, <2>4, SameSelf, MoveStep
<1>7. CASE Refused(tcp, tcp', "ds")
  <2>0. \A x \in Ends : x # "ds" => tcp'[x] = tcp[x]
    BY <1>7 DEF Refused
  <2>1. U1' = U1 /\ U2' = U2 /\ U3' = U3 /\ U4' = U4 /\ U6' = U6
    BY <1>1, <2>0, PathFacts DEF U1, U2, U3, U4, U6
  <2>2. UpLess /\ U5' # U5
    BY <1>4, <2>1, PlacesLess
  <2>3. Kept' => Kept
    BY <1>1, <1>5, <2>0, PathFacts DEF Kept
  <2> QED  BY <1>1, <2>1, <2>2, <2>3, LessStep
<1>8. Conns(tcp) /\ "ds" \in Ends /\ Peer["ds"] = "dc"
  BY PathFacts
<1>9. Delivered(tcp, tcp', "dc", Head(peeked)) \/ Refused(tcp, tcp', "ds")
  BY <1>1, <1>8, WrittenFields
<1> QED  BY <1>6, <1>7, <1>9

\* The client writes the hello.
LEMMA WriteHelloLoss ==
    ASSUME IInv, IInv', LossInv, WriteHello
    PROVE  LossInv'
<1>1. /\ ch = "hello" /\ UNCHANGED <<app, sv, peeked, pend, dh, relayS, relayC, ctxDone>>
      /\ tcp["ds"].buf = <<>> /\ (dh = "hello" \/ tcp["ds"].st = "closed")
      /\ relayC.st = "off" /\ dh # "none"
  BY DEF WriteHello, IInv, HelloInv, RelayInv
<1>2. ~Drained
  BY <1>1 DEF Drained
<1>3. dh = "hello" => relayS.st = "off"
  BY DEF IInv, RelayInv, HelloInv
<1>4. PathGood => ~Ending(relayS)
  BY <1>2 DEF PathGood, ServerGood
<1>5. PathGood => tcp["ds"].st # "closed"
  BY <1>4 DEF PathGood, DsGood, Ending
<1>6. U1' = U1 /\ U3' = U3 /\ U5' = U5
  BY <1>1 DEF U1, U3, U5, FromUser
<1>7. CASE T!CanWrite(tcp, "dc") /\ tcp' = T!Written(tcp, "dc", Hello)
  <2>1. CASE Delivered(tcp, tcp', "ds", Hello)
    <3>0. /\ T!Live(tcp, "ds") /\ \A x \in Ends : Flags(tcp, tcp', x)
          /\ \A x \in Ends : x # "ds" => tcp'[x].buf = tcp[x].buf
          /\ tcp'["ds"].buf = Append(tcp["ds"].buf, Hello)
      BY <2>1 DEF Delivered
    <3>1. dh = "hello"
      BY <1>1, <3>0 DEF T!Live
    <3>2. DsData = <<>> /\ DsData' = <<>>
      BY <1>1, <3>0, <3>1 DEF DsData
    <3>3. UpTotal' = UpTotal /\ DownTotal' = DownTotal
      BY <1>1, <1>6, <3>0, <3>2, PathFacts DEF UpTotal, DownTotal, U2, U4, U6, D1, D2, D3, D4, D5, D6
    <3> QED  BY <1>1, <1>2, <1>4, <3>0, <3>3, PathFacts, SameSelf, MoveStep
  <2>2. CASE Refused(tcp, tcp', "dc")
    <3>0. /\ tcp["ds"].st = "closed" /\ \A x \in Ends : x # "dc" => tcp'[x] = tcp[x]
          /\ tcp'["dc"].buf = <<>>
      BY <2>2, PathFacts DEF Refused
    <3>1. U2' = U2 /\ U6' = U6 /\ U4' <= U4
      <4>1. U2' = U2 /\ U6' = U6
        BY <3>0, PathFacts DEF U2, U6
      <4>2. U4' = 0 /\ U4 \in Nat
        BY <3>0, PathFacts DEF U4, Sizes, Sized
      <4> QED  BY <4>1, <4>2
    <3>2. UpLess
      BY <1>6, <3>1, PlacesLess
    <3>3. Kept' => Kept
      BY <1>1, <3>0, PathFacts DEF Kept
    <3> QED  BY <1>1, <1>5, <1>6, <3>0, <3>2, <3>3, LessStep
  <2>3. Conns(tcp) /\ "dc" \in Ends /\ Peer["dc"] = "ds" /\ Hello \in Data
    BY PathFacts DEF Data
  <2>4. Delivered(tcp, tcp', "ds", Hello) \/ Refused(tcp, tcp', "dc")
    BY <1>7, <2>3, WrittenFields
  <2> QED  BY <2>1, <2>2, <2>4
<1>8. CASE T!WriteEnds(tcp, "dc") /\ tcp' = T!Closed(tcp, "dc") /\ ch' = "done"
  <2>1. tcp["dc"].st # "none" /\ tcp["ds"].st # "none"
    <3>1. tcp["ds"].st # "none"
      BY <1>1 DEF IInv, ConnInv
    <3>2. Conns(tcp) /\ "dc" \in Ends /\ Peer["dc"] = "ds"
      BY PathFacts
    <3> QED  BY <3>1, <3>2, EndFacts
  <2>2. PathGood => tcp["dc"].st = "open" /\ ~tcp["dc"].rst /\ ~tcp["dc"].late
    <3> SUFFICES ASSUME PathGood PROVE tcp["dc"].st = "open" /\ ~tcp["dc"].rst /\ ~tcp["dc"].late
      OBVIOUS
    <3>1. ~Shut(tcp, "dc")
      BY <1>2 DEF PathGood, DcGood
    <3>2. tcp["dc"].st = "open"
      <4>1. Conns(tcp) /\ "dc" \in Ends
        BY PathFacts
      <4>2. tcp["dc"].st \in {"none", "open", "half", "closed"}
        BY <4>1, EndFacts
      <4> QED  BY <2>1, <3>1, <4>2 DEF Shut
    <3>3. ~tcp["dc"].rst
      BY <1>4 DEF PathGood, DcGood, Ending
    <3>4. ~tcp["dc"].late
      BY <1>1, OffIsSame DEF PathGood, DcGood
    <3> QED  BY <3>2, <3>3, <3>4
  <2>3. ~PathGood
    BY <1>8, <2>2 DEF T!WriteEnds
  <2>4. Decays(tcp, tcp')
    BY <1>8, PathFacts, ClosedDecays
  <2>5. UpLess
    <3>1. U3' <= U3 /\ U5' <= U5
      <4>1. U3 \in Nat /\ U5 \in Nat
        BY PathFacts DEF Sizes
      <4> QED  BY <1>6, <4>1
    <3> QED  BY <2>4, <3>1, PathFacts, DecaysLess
  <2>6. Kept' => Kept
    <3>1. tcp'["user"] = tcp["user"] /\ (tcp["ds"].rst => tcp'["ds"].rst)
      <4>1. Conns(tcp) /\ "dc" \in Ends /\ "user" \in Ends /\ Peer["dc"] = "ds"
        BY PathFacts
      <4>2. tcp' = tcp \/ Ended(tcp, tcp', "dc", "ds")
        BY <1>8, <4>1, ClosedFields
      <4> QED  BY <4>1, <4>2 DEF Ended
    <3> QED  BY <1>1, <3>1 DEF Kept
  <2> QED  BY <1>1, <1>6, <2>3, <2>5, <2>6, LessStep
<1> QED  BY <1>7, <1>8 DEF WriteHello

\* A unit is read at one end, and nothing else happens to the connections.
LEMMA TakenCase ==
    ASSUME Conns(tcp), NEW e \in Ends, T!HasData(tcp, e), tcp' = T!Taken(tcp, e)
    PROVE  /\ \A x \in Ends : Flags(tcp, tcp', x)
           /\ \A x \in Ends : x # e => tcp'[x].buf = tcp[x].buf
           /\ Len(tcp'[e].buf) + 1 = Len(tcp[e].buf)
           /\ tcp'[e].buf = Tail(tcp[e].buf) /\ tcp[e].buf # <<>> /\ Head(tcp[e].buf) \in Data
BY TakenFields, TakenReads

\* The user or the service receives.
LEMMA AppReceiveLoss ==
    ASSUME IInv, IInv', LossInv, NEW e \in Apps, AppReceive(e)
    PROVE  LossInv'
<1>1. /\ T!HasData(tcp, e) /\ tcp' = T!Taken(tcp, e) /\ e \in Ends
      /\ app' = [app EXCEPT ![e].rcvd = Append(@, Head(tcp[e].buf))]
      /\ UNCHANGED <<sv, peeked, pend, dh, ch, relayS, relayC, ctxDone>>
  BY PathFacts DEF AppReceive, Apps
<1>2. /\ \A x \in Ends : Flags(tcp, tcp', x)
      /\ \A x \in Ends : x # e => tcp'[x].buf = tcp[x].buf
      /\ Len(tcp'[e].buf) + 1 = Len(tcp[e].buf)
  BY <1>1, PathFacts, TakenCase
<1>3. /\ \A f \in Apps : app'[f].sent = app[f].sent
      /\ \A f \in Apps : f # e => app'[f].rcvd = app[f].rcvd
      /\ Len(app'[e].rcvd) = Len(app[e].rcvd) + 1
  <2>1. app \in [Apps -> [sent : 0..(MaxUp + MaxDown), rcvd : Seq(Data)]]
    BY DEF IInv, TypeOK
  <2> QED  BY <1>1, <2>1
<1>4. "user" \in Apps /\ "service" \in Apps /\ FromUser' = FromUser /\ DsData' = DsData
  BY <1>1, <1>2, PathFacts DEF Apps, FromUser, DsData
<1>5. UpTotal' = UpTotal /\ DownTotal' = DownTotal
  <2>1. CASE e = "user"
    <3>1. D1' = D1 + 1 /\ D2' + 1 = D2 /\ UNCHANGED <<D3, D4, D5, D6>> /\ UNCHANGED <<U1, U2, U3, U4, U5, U6>>
      BY <1>1, <1>2, <1>3, <1>4, <2>1, PathFacts DEF U1, U2, U3, U4, U5, U6, D1, D2, D3, D4, D5, D6
    <3> QED  BY <3>1, PathFacts, DownShifts DEF UpTotal
  <2>2. CASE e = "service"
    <3>1. U1' = U1 + 1 /\ U2' + 1 = U2 /\ UNCHANGED <<U3, U4, U5, U6>> /\ UNCHANGED <<D1, D2, D3, D4, D5, D6>>
      BY <1>1, <1>2, <1>3, <1>4, <2>2, PathFacts DEF U1, U2, U3, U4, U5, U6, D1, D2, D3, D4, D5, D6
    <3> QED  BY <3>1, PathFacts, UpShifts DEF DownTotal
  <2> QED  BY <2>1, <2>2 DEF Apps
<1>6. /\ Drained => Drained'
      /\ PathGood => (Ending(relayS) => tcp'["ds"].buf = <<>>)
  <2>1. e # "lc" /\ e # "ds"
    BY DEF Apps
  <2> QED  BY <1>1, <1>2, <2>1, PathFacts DEF Drained, Flags, PathGood, ServerGood
<1> QED  BY <1>1, <1>2, <1>3, <1>5, <1>6, SameSelf, MoveStep

\* What one more unit, sent and in the last place, does to the sum.
LEMMA OneMore ==
    ASSUME NEW a \in Nat, NEW b \in Nat, NEW c \in Nat, NEW d \in Nat, NEW e \in Nat, NEW f \in Nat,
           NEW s \in Nat
    PROVE  /\ a + b + c + d + e + (f + 1) <= s + 1 <=> a + b + c + d + e + f <= s
           /\ a + b + c + d + e + (f + 1) = s + 1 <=> a + b + c + d + e + f = s
           /\ a + b + c + d + e + f <= s => a + b + c + d + e + f <= s + 1
           /\ a + b + c + d + e + f <= s => a + b + c + d + e + f # s + 1
OBVIOUS

\* What a step that sends does to app.
LEMMA SentOne ==
    ASSUME IInv, NEW e \in Apps, app' = [app EXCEPT ![e].sent = @ + 1]
    PROVE  /\ app'[e].sent = app[e].sent + 1
           /\ \A f \in Apps : app'[f].rcvd = app[f].rcvd
           /\ \A f \in Apps : f # e => app'[f].sent = app[f].sent
<1>1. app \in [Apps -> [sent : 0..(MaxUp + MaxDown), rcvd : Seq(Data)]]
  BY DEF IInv, TypeOK
<1> QED  BY <1>1

\* What is sent is data.
LEMMA SendTyped ==
    ASSUME IInv, NEW e \in Apps, app[e].sent < (IF e = "user" THEN MaxUp ELSE MaxDown)
    PROVE  Payload(e, app[e].sent + 1) \in Data
<1>1. app[e].sent \in Nat
  BY PathAssumption DEF IInv, TypeOK
<1>2. CASE e = "user"
  <2>1. app[e].sent + 1 \in 1..MaxUp
    BY <1>1, <1>2, PathAssumption
  <2> QED  BY <1>2, <2>1 DEF Data
<1>3. CASE e = "service"
  <2>1. app[e].sent + 1 \in 1..MaxDown
    BY <1>1, <1>3, PathAssumption
  <2> QED  BY <1>3, <2>1 DEF Data
<1> QED  BY <1>2, <1>3 DEF Apps

\* The user sends.
LEMMA UserSendLoss ==
    ASSUME IInv, IInv', LossInv, AppSend("user")
    PROVE  LossInv'
<1> DEFINE v == Payload("user", app["user"].sent + 1)
           s == app["user"].sent
<1>1. /\ T!CanWrite(tcp, "user") /\ tcp' = T!Written(tcp, "user", v) /\ "user" \in Apps /\ "service" \in Apps
      /\ UNCHANGED <<sv, peeked, pend, dh, ch, relayS, relayC, ctxDone>> /\ v \in Data
      /\ app'["user"].sent = s + 1 /\ app'["service"].sent = app["service"].sent
      /\ app'["user"].rcvd = app["user"].rcvd /\ app'["service"].rcvd = app["service"].rcvd
  BY SentOne, SendTyped DEF AppSend, Apps
<1> HIDE DEF v
<1>2. Conns(tcp) /\ "user" \in Ends /\ Peer["user"] = "us"
  BY PathFacts
<1>3. Delivered(tcp, tcp', "us", v) \/ Refused(tcp, tcp', "user")
  BY <1>1, <1>2, WrittenFields
<1>4. U1' = U1 /\ U3' = U3 /\ U5' = U5 /\ D1' = D1 /\ D3' = D3 /\ D5' = D5
  BY <1>1 DEF U1, U3, U5, D1, D3, D5, FromUser
<1>5. /\ U1 \in Nat /\ U2 \in Nat /\ U3 \in Nat /\ U4 \in Nat /\ U5 \in Nat /\ U6 \in Nat /\ s \in Nat
  BY PathFacts DEF Sizes
<1>6. CASE Delivered(tcp, tcp', "us", v)
  <2>1. /\ \A x \in Ends : Flags(tcp, tcp', x)
        /\ \A x \in Ends : x # "us" => tcp'[x].buf = tcp[x].buf
        /\ Len(tcp'["us"].buf) = Len(tcp["us"].buf) + 1
    BY <1>6 DEF Delivered
  <2>2. U6' = U6 + 1 /\ UNCHANGED <<U2, U4, D2, D4, D6>>
    BY <1>1, <2>1, PathFacts DEF U2, U4, U6, D2, D4, D6, DsData
  <2>3. UpBound' /\ (UpTotal' = app'["user"].sent => UpTotal = s) /\ DownTotal' = DownTotal
    <3>1. U1 + U2 + U3 + U4 + U5 + U6 <= s
      BY DEF LossInv, UpBound, UpTotal
    <3>2. /\ U1 + U2 + U3 + U4 + U5 + (U6 + 1) <= s + 1
          /\ U1 + U2 + U3 + U4 + U5 + (U6 + 1) = s + 1 => U1 + U2 + U3 + U4 + U5 + U6 = s
      BY <1>5, <3>1, OneMore
    <3> QED  BY <1>1, <1>4, <2>2, <3>2 DEF UpBound, UpTotal, DownTotal
  <2>4. Good' => Good
    BY <1>1, <2>1, <2>3, PathFacts DEF Good, Kept, Flags
  <2>5. Drained => Drained'
    BY <1>1, <2>1, PathFacts DEF Drained, Flags
  <2>6. ASSUME PathGood PROVE PathGood'
    <3>1. Ending(relayS) => tcp'["ds"].buf = <<>>
      BY <2>1, <2>6, PathFacts DEF PathGood, ServerGood
    <3>2. DownGood'
      BY <1>1, <2>3, <2>6 DEF PathGood, DownGood
    <3>3. SameState(relayS, relayS') /\ SameState(relayC, relayC') /\ relayC'.st = relayC.st
      BY <1>1 DEF SameState
    <3> QED  BY <2>1, <2>5, <2>6, <3>1, <3>2, <3>3, MoveGood
  <2> QED  BY <2>3, <2>4, <2>6 DEF LossInv
<1>7. CASE Refused(tcp, tcp', "user")
  <2>1. \A x \in Ends : x # "user" => tcp'[x] = tcp[x]
    BY <1>7 DEF Refused
  <2>2. U2' = U2 /\ U4' = U4 /\ U6' = U6
    BY <2>1, PathFacts DEF U2, U4, U6
  <2>3. UpTotal' = UpTotal
    BY <1>4, <2>2 DEF UpTotal
  <2>4. UpTotal <= s + 1 /\ UpTotal # s + 1
    <3>1. U1 + U2 + U3 + U4 + U5 + U6 <= s
      BY DEF LossInv, UpBound, UpTotal
    <3>2. U1 + U2 + U3 + U4 + U5 + U6 <= s + 1 /\ U1 + U2 + U3 + U4 + U5 + U6 # s + 1
      BY <1>5, <3>1, OneMore
    <3> QED  BY <3>2 DEF UpTotal
  <2> QED  BY <1>1, <2>3, <2>4 DEF LossInv, UpBound, Good
<1> QED  BY <1>3, <1>6, <1>7

\* The service sends.
LEMMA ServiceSendLoss ==
    ASSUME IInv, IInv', LossInv, AppSend("service")
    PROVE  LossInv'
<1> DEFINE v == Payload("service", app["service"].sent + 1)
           s == app["service"].sent
<1>1. /\ T!CanWrite(tcp, "service") /\ tcp' = T!Written(tcp, "service", v)
      /\ "user" \in Apps /\ "service" \in Apps
      /\ UNCHANGED <<sv, peeked, pend, dh, ch, relayS, relayC, ctxDone>> /\ v \in Data
      /\ app'["service"].sent = s + 1 /\ app'["user"].sent = app["user"].sent
      /\ app'["user"].rcvd = app["user"].rcvd /\ app'["service"].rcvd = app["service"].rcvd
  BY SentOne, SendTyped DEF AppSend, Apps
<1> HIDE DEF v
<1>2. Conns(tcp) /\ "service" \in Ends /\ Peer["service"] = "lc"
  BY PathFacts
<1>3. Delivered(tcp, tcp', "lc", v) \/ Refused(tcp, tcp', "service")
  BY <1>1, <1>2, WrittenFields
<1>4. U1' = U1 /\ U3' = U3 /\ U5' = U5 /\ D1' = D1 /\ D3' = D3 /\ D5' = D5
  BY <1>1 DEF U1, U3, U5, D1, D3, D5, FromUser
<1>5. ~Drained
  BY <1>1 DEF Drained, T!CanWrite
<1>6. CASE Delivered(tcp, tcp', "lc", v)
  <2>1. /\ \A x \in Ends : Flags(tcp, tcp', x)
        /\ \A x \in Ends : x # "lc" => tcp'[x].buf = tcp[x].buf
        /\ Len(tcp'["lc"].buf) = Len(tcp["lc"].buf) + 1
    BY <1>6 DEF Delivered
  <2>2. D6' = D6 + 1 /\ UNCHANGED <<U2, U4, U6, D2, D4>>
    BY <1>1, <2>1, PathFacts DEF U2, U4, U6, D2, D4, D6, DsData
  <2>3. UpTotal' = UpTotal
    BY <1>4, <2>2 DEF UpTotal
  <2>4. Good' => Good
    BY <1>1, <2>1, <2>3, PathFacts DEF Good, Kept, Flags
  <2>5. ASSUME PathGood PROVE PathGood'
    <3>1. Ending(relayS) => tcp'["ds"].buf = <<>>
      BY <2>1, <2>5, PathFacts DEF PathGood, ServerGood
    <3>2. DownGood'
      <4>1. D1 + D2 + D3 + D4 + D5 + D6 = s
        BY <2>5 DEF PathGood, DownGood, DownTotal
      <4>2. /\ D1 \in Nat /\ D2 \in Nat /\ D3 \in Nat /\ D4 \in Nat /\ D5 \in Nat /\ D6 \in Nat /\ s \in Nat
        BY PathFacts DEF Sizes
      <4>3. D1 + D2 + D3 + D4 + D5 + (D6 + 1) = s + 1
        BY <4>1, <4>2, OneMore
      <4> QED  BY <1>1, <1>4, <2>2, <4>3 DEF DownGood, DownTotal
    <3>3. SameState(relayS, relayS') /\ SameState(relayC, relayC') /\ relayC'.st = relayC.st
      BY <1>1 DEF SameState
    <3> QED  BY <1>5, <2>1, <2>5, <3>1, <3>2, <3>3, MoveGood
  <2> QED  BY <1>1, <2>3, <2>4, <2>5 DEF LossInv, UpBound
<1>7. CASE Refused(tcp, tcp', "service")
  <2>1. /\ \A x \in Ends : x # "service" => tcp'[x] = tcp[x]
        /\ tcp'["service"].buf = <<>> /\ tcp["lc"].st = "closed"
    BY <1>7, PathFacts DEF Refused
  <2>2. U4' = U4 /\ U6' = U6 /\ U2' <= U2
    <3>1. U4' = U4 /\ U6' = U6
      BY <2>1, PathFacts DEF U4, U6
    <3>2. U2' = 0 /\ U2 \in Nat
      BY <2>1, PathFacts DEF U2, Sizes, Sized
    <3> QED  BY <3>1, <3>2
  <2>3. UpLess
    BY <1>4, <2>2, PlacesLess
  <2>4. Kept' => Kept
    BY <1>1, <2>1, PathFacts DEF Kept
  <2>5. ~PathGood
    <3> SUFFICES ASSUME PathGood PROVE FALSE
      OBVIOUS
    <3>1. relayC.st = "returned"
      BY <2>1 DEF PathGood, LcGood
    <3>2. Drained
      BY <3>1 DEF PathGood, ClientGood, Ending
    <3> QED  BY <1>5, <3>2
  <2> QED  BY <1>1, <1>4, <2>3, <2>4, <2>5, LessStep
<1> QED  BY <1>3, <1>6, <1>7

-----------------------------------------------------------------------------
(* The copies of the relays.                                               *)

\* What the server's relay reads and writes in the two flows.
LEMMA ServerPlaces ==
    ASSUME IInv, relayS.st = "on", UNCHANGED <<app, peeked, dh, relayC>>
    PROVE  /\ FromUser = relayS.x["ab"] /\ FromUser' = relayS'.x["ab"]
           /\ DsData = tcp["ds"].buf /\ DsData' = tcp'["ds"].buf
BY DEF IInv, RelayInv, HelloInv, PeekInv, FromUser, DsData

\* The server's relay reads a unit.
LEMMA ServerReadLoss ==
    ASSUME IInv, IInv', LossInv, NEW d \in {"ab", "ba"}, SR!CopyRead(d),
           UNCHANGED <<frameVars, app, kind, sv, peeked, pend, dh, ch, relayC, ctxDone>>
    PROVE  LossInv'
<1> DEFINE e == IF d = "ab" THEN "us" ELSE "ds"
           y == <<Head(tcp[e].buf)>>
<1>1. /\ relayS.st = "on" /\ relayS.pc[d] = "read" /\ T!HasData(tcp, e) /\ tcp' = T!Taken(tcp, e)
      /\ relayS' = [relayS EXCEPT !.pc[d] = "write", !.x[d] = y]
      /\ e \in Ends
  BY SameConnections, PathFacts DEF SR!CopyRead, SR!Src
<1>2. /\ \A x \in Ends : Flags(tcp, tcp', x)
      /\ \A x \in Ends : x # e => tcp'[x].buf = tcp[x].buf
      /\ Len(tcp'[e].buf) + 1 = Len(tcp[e].buf)
      /\ tcp[e].buf # <<>> /\ Head(tcp[e].buf) \in Data
  BY <1>1, PathFacts, TakenCase
<1> HIDE DEF e
<1>3. /\ SameState(relayS, relayS') /\ relayS'.x[d] = y
      /\ \A f \in {"ab", "ba"} : f # d => relayS'.x[f] = relayS.x[f]
  <2>1. y \in {<<>>} \cup {<<w>> : w \in Data} /\ relayS.pc[d] # "done"
    BY <1>1, <1>2
  <2> HIDE DEF y
  <2>2. relayS \in SR!RelayType /\ "write" \in {"read", "write"}
    BY PathFacts
  <2>3. CopyMoved(relayS, relayS', d, y)
    BY <1>1, <2>1, <2>2, CopySteps
  <2> QED  BY <2>3 DEF CopyMoved
<1>4. Len(relayS'.x[d]) = Len(relayS.x[d]) + 1
  <2>1. Len(relayS.x[d]) = 0 /\ Len(y) = 1
    BY <1>1, OneUnit DEF IInv, RelayInv, CopyInv
  <2> HIDE DEF y
  <2> QED  BY <1>3, <2>1
<1> HIDE DEF y
<1>5. UpTotal' = UpTotal /\ DownTotal' = DownTotal
  <2>1. CASE d = "ab"
    <3>1. /\ tcp'["service"].buf = tcp["service"].buf /\ tcp'["dc"].buf = tcp["dc"].buf
          /\ tcp'["user"].buf = tcp["user"].buf /\ tcp'["ds"].buf = tcp["ds"].buf
          /\ tcp'["lc"].buf = tcp["lc"].buf
          /\ Len(tcp'["us"].buf) + 1 = Len(tcp["us"].buf)
      BY <1>2, <2>1, PathFacts DEF e
    <3>2. Len(relayS'.x["ab"]) = Len(relayS.x["ab"]) + 1 /\ relayS'.x["ba"] = relayS.x["ba"]
      BY <1>3, <1>4, <2>1
    <3>3. /\ U5' = U5 + 1 /\ U6' + 1 = U6 /\ UNCHANGED <<U1, U2, U3, U4>>
          /\ UNCHANGED <<D1, D2, D3, D4, D5, D6>>
      BY <1>1, <3>1, <3>2, ServerPlaces DEF U1, U2, U3, U4, U5, U6, D1, D2, D3, D4, D5, D6
    <3> QED  BY <3>3, PathFacts, UpShifts DEF DownTotal
  <2>2. CASE d = "ba"
    <3>1. /\ tcp'["service"].buf = tcp["service"].buf /\ tcp'["dc"].buf = tcp["dc"].buf
          /\ tcp'["us"].buf = tcp["us"].buf /\ tcp'["user"].buf = tcp["user"].buf
          /\ tcp'["lc"].buf = tcp["lc"].buf
          /\ Len(tcp'["ds"].buf) + 1 = Len(tcp["ds"].buf)
      BY <1>2, <2>2, PathFacts DEF e
    <3>2. Len(relayS'.x["ba"]) = Len(relayS.x["ba"]) + 1 /\ relayS'.x["ab"] = relayS.x["ab"]
      BY <1>3, <1>4, <2>2
    <3>3. /\ D3' = D3 + 1 /\ D4' + 1 = D4 /\ UNCHANGED <<D1, D2, D5, D6>>
          /\ UNCHANGED <<U1, U2, U3, U4, U5, U6>>
      BY <1>1, <3>1, <3>2, ServerPlaces DEF U1, U2, U3, U4, U5, U6, D1, D2, D3, D4, D5, D6
    <3> QED  BY <3>3, PathFacts, DownShifts DEF UpTotal
  <2> QED  BY <2>1, <2>2
<1>6. Drained => Drained'
  BY <1>2, PathFacts DEF Drained, Flags, e
<1>7. PathGood => (Ending(relayS) => tcp'["ds"].buf = <<>>)
  BY <1>2, PathFacts DEF PathGood, ServerGood, e
<1> QED  BY <1>2, <1>3, <1>5, <1>6, <1>7, SameSelf, MoveStep

\* The server's relay writes a unit.
LEMMA ServerWriteLoss ==
    ASSUME IInv, IInv', LossInv, NEW d \in {"ab", "ba"}, SR!CopyWrite(d),
           UNCHANGED <<frameVars, app, kind, sv, peeked, pend, dh, ch, relayC, ctxDone>>
    PROVE  LossInv'
<1> DEFINE e == IF d = "ab" THEN "ds" ELSE "us"
           p == IF d = "ab" THEN "dc" ELSE "user"
           v == Head(relayS.x[d])
<1>1. /\ relayS.st = "on" /\ relayS.pc[d] = "write" /\ T!CanWrite(tcp, e) /\ tcp' = T!Written(tcp, e, v)
      /\ relayS' = [relayS EXCEPT !.pc[d] = "read", !.x[d] = <<>>]
      /\ e \in Ends /\ p \in Ends /\ p = Peer[e] /\ Conns(tcp) /\ sv = "relay"
  BY SameConnections, PathFacts DEF SR!CopyWrite, SR!Dst
<1>2. relayS.x[d] # <<>> /\ v \in Data /\ Len(relayS.x[d]) = 1
  <2>1. relayS.x[d] \in {<<>>} \cup {<<w>> : w \in Data}
    BY PathFacts DEF SR!RelayType, SR!Dirs
  <2>2. relayS.x[d] # <<>>
    BY <1>1 DEF IInv, RelayInv, CopyInv
  <2> QED  BY <2>1, <2>2, OneUnit, UnitTyped
<1> HIDE DEF e, p, v
<1>3. /\ SameState(relayS, relayS') /\ relayS'.x[d] = <<>> /\ Len(relayS'.x[d]) = 0
      /\ \A f \in {"ab", "ba"} : f # d => relayS'.x[f] = relayS.x[f]
  <2>1. "read" \in {"read", "write"} /\ <<>> \in {<<>>} \cup {<<w>> : w \in Data} /\ relayS.pc[d] # "done"
    BY <1>1
  <2>2. relayS \in SR!RelayType /\ Len(<<>>) = 0
    BY PathFacts
  <2>3. CopyMoved(relayS, relayS', d, <<>>)
    BY <1>1, <2>1, <2>2, CopySteps
  <2> QED  BY <2>3 DEF CopyMoved
<1>7. Len(relayS'.x[d]) + 1 = Len(relayS.x[d])
  BY <1>2, <1>3
<1>4. Delivered(tcp, tcp', p, v) \/ Refused(tcp, tcp', e)
  BY <1>1, <1>2, WrittenFields
<1>5. CASE Delivered(tcp, tcp', p, v)
  <2>1. /\ \A x \in Ends : Flags(tcp, tcp', x)
        /\ \A x \in Ends : x # p => tcp'[x].buf = tcp[x].buf
        /\ Len(tcp'[p].buf) = Len(tcp[p].buf) + 1
    BY <1>5 DEF Delivered
  <2>2. UpTotal' = UpTotal /\ DownTotal' = DownTotal
    <3>1. CASE d = "ab"
      <4>1. /\ tcp'["service"].buf = tcp["service"].buf /\ tcp'["us"].buf = tcp["us"].buf
            /\ tcp'["user"].buf = tcp["user"].buf /\ tcp'["ds"].buf = tcp["ds"].buf
            /\ tcp'["lc"].buf = tcp["lc"].buf
            /\ Len(tcp'["dc"].buf) = Len(tcp["dc"].buf) + 1
        BY <2>1, <3>1, PathFacts DEF p
      <4>2. Len(relayS'.x["ab"]) + 1 = Len(relayS.x["ab"]) /\ relayS'.x["ba"] = relayS.x["ba"]
        BY <1>3, <1>7, <3>1
      <4>3. /\ U4' = U4 + 1 /\ U5' + 1 = U5 /\ UNCHANGED <<U1, U2, U3, U6>>
            /\ UNCHANGED <<D1, D2, D3, D4, D5, D6>>
        BY <1>1, <4>1, <4>2, ServerPlaces DEF U1, U2, U3, U4, U5, U6, D1, D2, D3, D4, D5, D6
      <4> QED  BY <4>3, PathFacts, UpShifts DEF DownTotal
    <3>2. CASE d = "ba"
      <4>1. /\ tcp'["service"].buf = tcp["service"].buf /\ tcp'["dc"].buf = tcp["dc"].buf
            /\ tcp'["us"].buf = tcp["us"].buf /\ tcp'["ds"].buf = tcp["ds"].buf
            /\ tcp'["lc"].buf = tcp["lc"].buf
            /\ Len(tcp'["user"].buf) = Len(tcp["user"].buf) + 1
        BY <2>1, <3>2, PathFacts DEF p
      <4>2. Len(relayS'.x["ba"]) + 1 = Len(relayS.x["ba"]) /\ relayS'.x["ab"] = relayS.x["ab"]
        BY <1>3, <1>7, <3>2
      <4>3. /\ D2' = D2 + 1 /\ D3' + 1 = D3 /\ UNCHANGED <<D1, D4, D5, D6>>
            /\ UNCHANGED <<U1, U2, U3, U4, U5, U6>>
        BY <1>1, <4>1, <4>2, ServerPlaces DEF U1, U2, U3, U4, U5, U6, D1, D2, D3, D4, D5, D6
      <4> QED  BY <4>3, PathFacts, DownShifts DEF UpTotal
    <3> QED  BY <3>1, <3>2
  <2>3. Drained => Drained'
    BY <2>1, PathFacts DEF Drained, Flags, p
  <2>4. PathGood => (Ending(relayS) => tcp'["ds"].buf = <<>>)
    BY <2>1, PathFacts DEF PathGood, ServerGood, p
  <2> QED  BY <1>3, <2>1, <2>2, <2>3, <2>4, SameSelf, MoveStep
<1>6. CASE Refused(tcp, tcp', e)
  <2>1. /\ \A x \in Ends : x # e => tcp'[x] = tcp[x]
        /\ tcp'[e].buf = <<>> /\ tcp[p].st = "closed" /\ tcp'[e].rst = TRUE
    BY <1>1, <1>6 DEF Refused
  <2>2. U1' = U1 /\ U2' = U2 /\ U3' = U3 /\ U4' = U4
    BY <2>1, PathFacts DEF U1, U2, U3, U4, e
  <2>3. CASE d = "ab"
    <3>1. U5' = 0 /\ U5 = 1 /\ U6' = U6
      BY <1>1, <1>2, <1>3, <2>1, <2>3, PathFacts, ServerPlaces DEF U5, U6, e
    <3>2. UpLess /\ ~UNCHANGED <<U2, U3, U4, U5, U6>>
      BY <2>2, <3>1, PlacesLess
    <3>3. Kept' => Kept
      BY <1>1, <2>1, <2>3, PathFacts DEF Kept, e
    <3> QED  BY <2>2, <3>2, <3>3, LessStep
  <2>4. CASE d = "ba"
    <3>1. U5' = U5 /\ U6' <= U6
      <4>1. U6' = 0 /\ U6 \in Nat
        BY <2>1, <2>4, PathFacts, OneUnit DEF U6, e, Sizes
      <4>2. U5' = U5
        BY <1>1, <1>3, <2>4, ServerPlaces DEF U5
      <4> QED  BY <4>1, <4>2
    <3>2. UpLess
      BY <2>2, <3>1, PlacesLess
    <3>3. ~Good'
      <4>1. tcp'["user"].st = "closed"
        BY <2>1, <2>4, PathFacts DEF e, p
      <4> QED  BY <4>1 DEF Good, Kept
    <3> QED  BY <3>2, <3>3, BadStep
  <2> QED  BY <2>3, <2>4
<1> QED  BY <1>4, <1>5, <1>6

\* The client's relay reads a unit.
LEMMA ClientReadLoss ==
    ASSUME IInv, IInv', LossInv, NEW d \in {"ab", "ba"}, CR!CopyRead(d),
           UNCHANGED <<frameVars, app, kind, sv, peeked, pend, dh, ch, relayS, ctxDone>>
    PROVE  LossInv'
<1> DEFINE e == IF d = "ab" THEN "lc" ELSE "dc"
           y == <<Head(tcp[e].buf)>>
<1>1. /\ relayC.st = "on" /\ relayC.pc[d] = "read" /\ T!HasData(tcp, e) /\ tcp' = T!Taken(tcp, e)
      /\ relayC' = [relayC EXCEPT !.pc[d] = "write", !.x[d] = y]
      /\ e \in Ends
  BY SameConnections, PathFacts DEF CR!CopyRead, CR!Src
<1>2. /\ \A x \in Ends : Flags(tcp, tcp', x)
      /\ \A x \in Ends : x # e => tcp'[x].buf = tcp[x].buf
      /\ Len(tcp'[e].buf) + 1 = Len(tcp[e].buf)
      /\ tcp[e].buf # <<>> /\ Head(tcp[e].buf) \in Data
  BY <1>1, PathFacts, TakenCase
<1> HIDE DEF e
<1>3. /\ SameState(relayC, relayC') /\ relayC'.x[d] = y /\ relayC'.st = relayC.st
      /\ \A f \in {"ab", "ba"} : f # d => relayC'.x[f] = relayC.x[f]
  <2>1. y \in {<<>>} \cup {<<w>> : w \in Data} /\ relayC.pc[d] # "done"
    BY <1>1, <1>2
  <2> HIDE DEF y
  <2>2. relayC \in SR!RelayType /\ "write" \in {"read", "write"}
    BY PathFacts
  <2>3. CopyMoved(relayC, relayC', d, y)
    BY <1>1, <2>1, <2>2, CopySteps
  <2> QED  BY <2>3 DEF CopyMoved
<1>4. Len(relayC'.x[d]) = Len(relayC.x[d]) + 1
  <2>1. Len(relayC.x[d]) = 0 /\ Len(y) = 1
    BY <1>1, OneUnit DEF IInv, RelayInv, CopyInv
  <2> HIDE DEF y
  <2> QED  BY <1>3, <2>1
<1> HIDE DEF y
<1>5. UpTotal' = UpTotal /\ DownTotal' = DownTotal
  <2>1. FromUser' = FromUser /\ DsData' = DsData
    BY <1>1, <1>2, PathFacts DEF FromUser, DsData, e
  <2>2. CASE d = "ba"
    <3>1. /\ tcp'["service"].buf = tcp["service"].buf /\ tcp'["us"].buf = tcp["us"].buf
          /\ tcp'["user"].buf = tcp["user"].buf /\ tcp'["ds"].buf = tcp["ds"].buf
          /\ tcp'["lc"].buf = tcp["lc"].buf
          /\ Len(tcp'["dc"].buf) + 1 = Len(tcp["dc"].buf)
      BY <1>2, <2>2, PathFacts DEF e
    <3>2. Len(relayC'.x["ba"]) = Len(relayC.x["ba"]) + 1 /\ relayC'.x["ab"] = relayC.x["ab"]
      BY <1>3, <1>4, <2>2
    <3>3. /\ U3' = U3 + 1 /\ U4' + 1 = U4 /\ UNCHANGED <<U1, U2, U5, U6>>
          /\ UNCHANGED <<D1, D2, D3, D4, D5, D6>>
      BY <2>1, <3>1, <3>2 DEF U1, U2, U3, U4, U5, U6, D1, D2, D3, D4, D5, D6
    <3> QED  BY <3>3, PathFacts, UpShifts DEF DownTotal
  <2>3. CASE d = "ab"
    <3>1. /\ tcp'["service"].buf = tcp["service"].buf /\ tcp'["dc"].buf = tcp["dc"].buf
          /\ tcp'["us"].buf = tcp["us"].buf /\ tcp'["user"].buf = tcp["user"].buf
          /\ tcp'["ds"].buf = tcp["ds"].buf
          /\ Len(tcp'["lc"].buf) + 1 = Len(tcp["lc"].buf)
      BY <1>2, <2>3, PathFacts DEF e
    <3>2. Len(relayC'.x["ab"]) = Len(relayC.x["ab"]) + 1 /\ relayC'.x["ba"] = relayC.x["ba"]
      BY <1>3, <1>4, <2>3
    <3>3. /\ D5' = D5 + 1 /\ D6' + 1 = D6 /\ UNCHANGED <<D1, D2, D3, D4>>
          /\ UNCHANGED <<U1, U2, U3, U4, U5, U6>>
      BY <2>1, <3>1, <3>2 DEF U1, U2, U3, U4, U5, U6, D1, D2, D3, D4, D5, D6
    <3> QED  BY <3>3, PathFacts, DownShifts DEF UpTotal
  <2> QED  BY <2>2, <2>3
<1>6. Drained => Drained'
  <2>1. CASE d = "ab"
    BY <1>2, <2>1, PathFacts DEF Drained, e
  <2>2. CASE d = "ba"
    BY <1>2, <1>3, <2>2, PathFacts DEF Drained, Flags, e
  <2> QED  BY <2>1, <2>2
<1>7. PathGood => (Ending(relayS) => tcp'["ds"].buf = <<>>)
  BY <1>2, PathFacts DEF PathGood, ServerGood, e
<1> QED  BY <1>2, <1>3, <1>5, <1>6, <1>7, SameSelf, MoveStep

\* A unit put behind the hello, or where the hello was.
LEMMA DsDataGrows ==
    ASSUME IInv, ch = "relay", NEW v \in Data, Alive(tcp, "ds"), dh' = dh,
           tcp'["ds"].buf = Append(tcp["ds"].buf, v)
    PROVE  Len(DsData') = Len(DsData) + 1
<1>1. tcp["ds"].buf \in Seq(Data)
  BY DEF IInv, TypeOK, T!EndType, Ends
<1>2. CASE dh = "hello"
  <2>1. tcp["ds"].buf # <<>>
    BY <1>2 DEF IInv, HelloInv
  <2>2. DsData' = Append(Tail(tcp["ds"].buf), v) /\ DsData = Tail(tcp["ds"].buf)
    BY <1>1, <1>2, <2>1, TailAppend DEF DsData
  <2> QED  BY <1>1, <2>1, <2>2
<1>3. CASE dh # "hello"
  <2>1. DsData' = Append(tcp["ds"].buf, v) /\ DsData = tcp["ds"].buf
    BY <1>3 DEF DsData
  <2> QED  BY <1>1, <2>1
<1> QED  BY <1>2, <1>3

\* The client's relay writes a unit.
LEMMA ClientWriteLoss ==
    ASSUME IInv, IInv', LossInv, NEW d \in {"ab", "ba"}, CR!CopyWrite(d),
           UNCHANGED <<frameVars, app, kind, sv, peeked, pend, dh, ch, relayS, ctxDone>>
    PROVE  LossInv'
<1> DEFINE e == IF d = "ab" THEN "dc" ELSE "lc"
           p == IF d = "ab" THEN "ds" ELSE "service"
           v == Head(relayC.x[d])
<1>1. /\ relayC.st = "on" /\ relayC.pc[d] = "write" /\ T!CanWrite(tcp, e) /\ tcp' = T!Written(tcp, e, v)
      /\ relayC' = [relayC EXCEPT !.pc[d] = "read", !.x[d] = <<>>]
      /\ e \in Ends /\ p \in Ends /\ p = Peer[e] /\ Conns(tcp) /\ ch = "relay"
  BY SameConnections, PathFacts DEF CR!CopyWrite, CR!Dst, IInv, RelayInv
<1>2. relayC.x[d] # <<>> /\ v \in Data /\ Len(relayC.x[d]) = 1
  <2>1. relayC.x[d] \in {<<>>} \cup {<<w>> : w \in Data}
    BY PathFacts DEF SR!RelayType, SR!Dirs
  <2>2. relayC.x[d] # <<>>
    BY <1>1 DEF IInv, RelayInv, CopyInv
  <2> QED  BY <2>1, <2>2, OneUnit, UnitTyped
<1> HIDE DEF e, p, v
<1>3. /\ SameState(relayC, relayC') /\ relayC'.x[d] = <<>> /\ Len(relayC'.x[d]) = 0
      /\ \A f \in {"ab", "ba"} : f # d => relayC'.x[f] = relayC.x[f]
      /\ relayC'.st = relayC.st
  <2>1. "read" \in {"read", "write"} /\ <<>> \in {<<>>} \cup {<<w>> : w \in Data} /\ relayC.pc[d] # "done"
    BY <1>1
  <2>2. relayC \in SR!RelayType /\ Len(<<>>) = 0
    BY PathFacts
  <2>3. CopyMoved(relayC, relayC', d, <<>>)
    BY <1>1, <2>1, <2>2, CopySteps
  <2> QED  BY <2>2, <2>3 DEF CopyMoved
<1>4. Len(relayC'.x[d]) + 1 = Len(relayC.x[d])
  BY <1>2, <1>3
<1>5. Delivered(tcp, tcp', p, v) \/ Refused(tcp, tcp', e)
  BY <1>1, <1>2, WrittenFields
<1>6. U1' = U1 /\ U5' = U5 /\ D1' = D1 /\ D3' = D3
  BY DEF U1, U5, D1, D3, FromUser
<1>7. CASE Delivered(tcp, tcp', p, v) /\ d = "ba"
  <2>1. /\ \A x \in Ends : Flags(tcp, tcp', x)
        /\ \A x \in Ends : x # p => tcp'[x].buf = tcp[x].buf
        /\ Len(tcp'[p].buf) = Len(tcp[p].buf) + 1
    BY <1>7 DEF Delivered
  <2>2. UpTotal' = UpTotal /\ DownTotal' = DownTotal
    <3>1. /\ tcp'["dc"].buf = tcp["dc"].buf /\ tcp'["us"].buf = tcp["us"].buf
          /\ tcp'["user"].buf = tcp["user"].buf /\ tcp'["ds"].buf = tcp["ds"].buf
          /\ tcp'["lc"].buf = tcp["lc"].buf
          /\ Len(tcp'["service"].buf) = Len(tcp["service"].buf) + 1
      BY <2>1, <1>7, PathFacts DEF p
    <3>2. Len(relayC'.x["ba"]) + 1 = Len(relayC.x["ba"]) /\ relayC'.x["ab"] = relayC.x["ab"]
      BY <1>3, <1>4, <1>7
    <3>3. U2' = U2 + 1 /\ U3' + 1 = U3 /\ UNCHANGED <<U4, U6, D2, D4, D5, D6>>
      BY <1>1, <3>1, <3>2 DEF U2, U3, U4, U6, D2, D4, D5, D6, DsData
    <3> QED  BY <1>6, <3>3, PathFacts, UpShifts DEF DownTotal
  <2>3. Drained => Drained'
    BY <1>3, <1>7, <2>1, PathFacts DEF Drained, Flags, p
  <2>4. PathGood => (Ending(relayS) => tcp'["ds"].buf = <<>>)
    BY <1>7, <2>1, PathFacts DEF PathGood, ServerGood, p
  <2> QED  BY <1>3, <2>1, <2>2, <2>3, <2>4, SameSelf, MoveStep
<1>8. CASE Delivered(tcp, tcp', p, v) /\ d = "ab"
  <2>1. /\ T!Live(tcp, "ds") /\ p = "ds"
        /\ \A x \in Ends : Flags(tcp, tcp', x)
        /\ \A x \in Ends : x # p => tcp'[x].buf = tcp[x].buf
        /\ tcp'[p].buf = Append(tcp[p].buf, v)
    BY <1>8 DEF Delivered, p
  <2>2. /\ tcp'["service"].buf = tcp["service"].buf /\ tcp'["dc"].buf = tcp["dc"].buf
        /\ tcp'["us"].buf = tcp["us"].buf /\ tcp'["user"].buf = tcp["user"].buf
        /\ tcp'["lc"].buf = tcp["lc"].buf
    BY <2>1, PathFacts
  <2>3. Len(relayC'.x["ab"]) + 1 = Len(relayC.x["ab"]) /\ relayC'.x["ba"] = relayC.x["ba"]
        /\ relayC.x["ab"] # <<>>
    BY <1>2, <1>3, <1>4, <1>8
  <2>4. UNCHANGED <<U1, U2, U3, U4, U5, U6>> /\ UNCHANGED <<D1, D2, D3, D6>> /\ D5' + 1 = D5
    BY <1>6, <2>2, <2>3 DEF U2, U3, U4, U6, D2, D5, D6
  <2>5. CASE ~PathGood
    <3>1. UpLess
      BY <2>4, PlacesLess
    <3>2. Kept' => Kept
      BY <2>1, PathFacts DEF Kept, Flags
    <3> QED  BY <2>4, <2>5, <3>1, <3>2, LessStep
  <2>6. CASE PathGood
    <3>4. ~Drained
      BY <2>3 DEF Drained
    <3>5. ~Ending(relayS)
      BY <2>6, <3>4 DEF PathGood, ServerGood
    <3>1. Alive(tcp, "ds")
      BY <2>1, <2>6, <3>5 DEF PathGood, DsGood, Alive, T!Live
    <3>2. D4' = D4 + 1
      <4>1. tcp'["ds"].buf = Append(tcp["ds"].buf, v)
        BY <2>1
      <4> QED  BY <1>1, <1>2, <3>1, <4>1, DsDataGrows DEF D4
    <3>3. UpTotal' = UpTotal /\ DownTotal' = DownTotal
      BY <2>4, <3>2, PathFacts, DownShifts DEF UpTotal
    <3> QED  BY <1>3, <2>1, <3>3, <3>4, <3>5, SameSelf, MoveStep
  <2> QED  BY <2>5, <2>6
<1>9. CASE Refused(tcp, tcp', e)
  <2>1. /\ \A x \in Ends : x # e => tcp'[x] = tcp[x]
        /\ tcp'[e].buf = <<>> /\ tcp[p].st = "closed"
    BY <1>1, <1>9 DEF Refused
  <2>2. U2' = U2 /\ U6' = U6
    BY <2>1, PathFacts DEF U2, U6, e
  <2>3. Kept' => Kept
    BY <2>1, PathFacts DEF Kept, e
  <2>4. CASE d = "ab"
    <3>1. U3' = U3
      BY <1>3, <2>4 DEF U3
    <3>2. U4' = 0 /\ U4 \in Nat
      BY <2>1, <2>4, PathFacts, OneUnit DEF U4, e, Sizes
    <3>3. U4' <= U4
      BY <3>2
    <3>4. UpLess
      BY <1>6, <2>2, <3>1, <3>3, PlacesLess
    <3>5. relayC.x["ab"] # <<>> /\ tcp["ds"].st = "closed"
      BY <1>2, <2>1, <2>4 DEF p
    <3>6. ~PathGood
      <4>1. ~Drained
        BY <3>5 DEF Drained
      <4> QED  BY <3>5, <4>1 DEF PathGood, DsGood, ServerGood, Ending
    <3> QED  BY <1>6, <2>3, <3>4, <3>6, LessStep
  <2>5. CASE d = "ba"
    <3>1. U4' = U4
      BY <2>1, <2>5, PathFacts DEF U4, e
    <3>2. U3' = 0 /\ U3 = 1
      BY <1>2, <1>3, <2>5 DEF U3
    <3>3. UpLess /\ U3' # U3
      <4>1. U3' <= U3 /\ U3' # U3
        BY <3>2
      <4> QED  BY <1>6, <2>2, <3>1, <4>1, PlacesLess
    <3> QED  BY <1>6, <2>3, <3>3, LessStep
  <2> QED  BY <2>4, <2>5
<1> QED  BY <1>5, <1>7, <1>8, <1>9

-----------------------------------------------------------------------------
(* The ends of the copies.                                                 *)

\* End e is shut, if it was open; its peer is p.
ShutEffect(t, u, e, p) ==
    /\ \A x \in Ends : u[x].rst = t[x].rst /\ u[x].late = t[x].late /\ u[x].buf = t[x].buf
    /\ \A x \in Ends : x # p => u[x].eof = t[x].eof
    /\ \A x \in Ends : x # e => u[x].st = t[x].st
    /\ u[e].st # "open" /\ (u[e].st = t[e].st \/ u[e].st = "half")
    /\ t[e].st # "none" => Shut(u, e)
    /\ \A x \in Ends : Shut(t, x) => Shut(u, x)

\* CloseWrite has that effect, also when it does nothing.
LEMMA ShutEffects ==
    ASSUME NEW t, Conns(t), NEW e \in Ends, NEW u, u = T!ShutWrite(t, e)
    PROVE  ShutEffect(t, u, e, Peer[e])
<1>1. t[e].st \in {"none", "open", "half", "closed"}
  BY EndFacts
<1>2. CASE t[e].st # "open" /\ u = t
  BY <1>1, <1>2 DEF ShutEffect, Shut
<1>3. CASE HalfClosed(t, u, e, Peer[e])
  <2> DEFINE p == Peer[e]
  <2>1. /\ t[e].st = "open" /\ u[e].st = "half" /\ u[p].st = t[p].st /\ u[e].eof = t[e].eof
        /\ \A x \in Ends : u[x].rst = t[x].rst /\ u[x].late = t[x].late /\ u[x].buf = t[x].buf
        /\ \A x \in Ends : x \notin {e, p} => u[x] = t[x]
    BY <1>3 DEF HalfClosed
  <2> HIDE DEF p
  <2>2. \A x \in Ends : x # p => u[x].eof = t[x].eof
    BY <2>1
  <2>3. \A x \in Ends : x # e => u[x].st = t[x].st
    BY <2>1
  <2>4. Shut(u, e) /\ \A x \in Ends : Shut(t, x) => Shut(u, x)
    BY <2>1, <2>3 DEF Shut
  <2> QED  BY <2>1, <2>2, <2>3, <2>4 DEF ShutEffect, p
<1> QED  BY <1>2, <1>3, ShutWriteFields

\* Copy d of relay r is over, and r is s.
CopyOvered(r, s, d) ==
    /\ s.st = r.st /\ s.x[d] = <<>> /\ Ending(s) /\ Over(s, d)
    /\ \A f \in {"ab", "ba"} : Over(r, f) => Over(s, f)
    /\ \A f \in {"ab", "ba"} : f # d => s.x[f] = r.x[f]

\* The end of a copy has that effect on its relay.
LEMMA CopyOverSteps ==
    ASSUME NEW r \in SR!RelayType, NEW d \in {"ab", "ba"},
           NEW s, s = [r EXCEPT !.pc[d] = "done", !.x[d] = <<>>, !.cancelled = TRUE]
    PROVE  CopyOvered(r, s, d)
<1>1. Copies(r, s, d, "done", <<>>)
  BY CopyMoves
<1>2. s.cancelled
  BY DEF SR!RelayType
<1>3. /\ s.st = r.st /\ s.pc[d] = "done" /\ s.x[d] = <<>>
      /\ \A f \in {"ab", "ba"} : f # d => s.pc[f] = r.pc[f] /\ s.x[f] = r.x[f]
  BY <1>1 DEF Copies
<1>4. Over(s, d) /\ \A f \in {"ab", "ba"} : Over(r, f) => Over(s, f)
  BY <1>3 DEF Over
<1>5. Ending(s)
  BY <1>2 DEF Ending
<1> QED  BY <1>3, <1>4, <1>5 DEF CopyOvered

\* When a copy of the server's relay ends and nothing of the user's is lost, the
\* service's flow was empty up to the server.
LEMMA ServerMayEnd ==
    ASSUME IInv, IInv', PathGood, NEW d \in {"ab", "ba"}, relayS.st = "on", SR!CopyIsOver(d),
           d = "ab" => relayS.pc[d] = "read"
    PROVE  /\ Over(relayS, "ba") \/ d = "ba"
           /\ relayS.pc["ba"] = "write" => d # "ba"
           /\ tcp["ds"].buf = <<>> /\ Shut(tcp, "dc") /\ Drained
<1>1. tcp["us"].st # "none" /\ tcp["ds"].st # "none" /\ relayS.st # "returned"
  BY PathFacts DEF IInv, ConnInv
<1>2. tcp["us"].st \in {"open", "half", "closed"} /\ tcp["ds"].st \in {"open", "half", "closed"}
  BY <1>1, PathFacts, EndFacts
<1>3. tcp["us"].st # "closed" /\ tcp["ds"].st # "closed"
  BY <1>1 DEF PathGood, UsGood, DsGood
<1>4. ~tcp["us"].eof /\ ~tcp["us"].rst /\ ~tcp["ds"].rst
  BY DEF PathGood, UsGood, DsGood
<1>5. ASSUME Ending(relayS)
      PROVE  /\ relayS.pc["ba"] = "done" /\ Over(relayS, "ba")
             /\ tcp["ds"].buf = <<>> /\ Shut(tcp, "dc") /\ Drained
  BY <1>1, <1>5 DEF PathGood, ServerGood, Over
<1>6. CASE d = "ab"
  <2>1. SR!ReadEnds(tcp, "us")
    BY <1>6 DEF SR!CopyIsOver, SR!Src
  <2>2. tcp["us"].late
    BY <1>2, <1>3, <1>4, <2>1 DEF SR!ReadEnds, SR!Live
  <2>3. Ending(relayS)
    BY <2>2 DEF PathGood, UsGood
  <2> QED  BY <1>5, <1>6, <2>3
<1>7. CASE d = "ba" /\ relayS.pc[d] = "read"
  <2>1. SR!ReadEnds(tcp, "ds")
    BY <1>7 DEF SR!CopyIsOver, SR!Src
  <2>2. tcp["ds"].late \/ (tcp["ds"].buf = <<>> /\ tcp["ds"].eof)
    BY <1>2, <1>3, <1>4, <2>1 DEF SR!ReadEnds, SR!Live
  <2>3. CASE tcp["ds"].late
    <3>1. Ending(relayS)
      BY <2>3 DEF PathGood, DsGood
    <3> QED  BY <1>5, <1>7, <3>1
  <2>4. CASE tcp["ds"].buf = <<>> /\ tcp["ds"].eof
    <3>1. Shut(tcp, "dc")
      BY <2>4 DEF PathGood, DsGood
    <3>2. Drained
      BY <3>1 DEF PathGood, DcGood
    <3> QED  BY <1>7, <2>4, <3>1, <3>2
  <2> QED  BY <2>2, <2>3, <2>4
<1>8. CASE d = "ba" /\ relayS.pc[d] # "read"
  <2>1. relayS.pc["ba"] = "write" /\ SR!WriteEnds(tcp, "us")
    BY <1>8 DEF SR!CopyIsOver, SR!Dst
  <2>2. ~Over(relayS, "ba")
    BY <1>1, <2>1 DEF Over
  <2>3. ~Ending(relayS)
    BY <2>2, <1>5
  <2>4. ~tcp["us"].late /\ ~Shut(tcp, "us")
    BY <2>2, <2>3 DEF PathGood, UsGood
  <2>5. tcp["us"].st = "open"
    BY <1>2, <2>4 DEF Shut
  <2>6. FALSE
    BY <1>4, <2>1, <2>4, <2>5 DEF SR!WriteEnds
  <2> QED  BY <2>6
<1> QED  BY <1>6, <1>7, <1>8

\* After a copy of the server's relay has ended.
LEMMA ServerEndGood ==
    ASSUME IInv, IInv', PathGood, NEW d \in {"ab", "ba"}, relayS.st = "on",
           CopyOvered(relayS, relayS', d), UNCHANGED <<app, peeked, dh, ch, relayC>>,
           ShutEffect(tcp, tcp', IF d = "ab" THEN "ds" ELSE "us", IF d = "ab" THEN "dc" ELSE "user"),
           Over(relayS, "ba") \/ d = "ba", relayS'.x["ba"] = relayS.x["ba"],
           tcp["ds"].buf = <<>>, Shut(tcp, "dc"), Drained
    PROVE  PathGood'
<1> DEFINE e == IF d = "ab" THEN "ds" ELSE "us"
           p == IF d = "ab" THEN "dc" ELSE "user"
<1>1. /\ \A x \in Ends : tcp'[x].rst = tcp[x].rst /\ tcp'[x].late = tcp[x].late /\ tcp'[x].buf = tcp[x].buf
      /\ \A x \in Ends : x # p => tcp'[x].eof = tcp[x].eof
      /\ \A x \in Ends : x # e => tcp'[x].st = tcp[x].st
      /\ tcp'[e].st = tcp[e].st \/ tcp'[e].st = "half"
      /\ \A x \in Ends : Shut(tcp, x) => Shut(tcp', x)
  BY DEF ShutEffect
<1>2. /\ relayS'.st = "on" /\ Ending(relayS') /\ Over(relayS', d) /\ Over(relayS', "ba")
      /\ \A f \in {"ab", "ba"} : Over(relayS, f) => Over(relayS', f)
  BY DEF CopyOvered
<1>3. /\ "user" \in Ends /\ "us" \in Ends /\ "ds" \in Ends /\ "dc" \in Ends /\ "lc" \in Ends
      /\ "service" \in Ends
  BY DEF Ends
<1>4. /\ e # "user" /\ e # "dc" /\ e # "lc" /\ e # "service" /\ p # "us" /\ p # "ds" /\ p # "lc"
      /\ (e = "ds" => d = "ab") /\ (e = "us" => d = "ba") /\ (p = "dc" => d = "ab")
  OBVIOUS
<1> HIDE DEF e, p
<1>5. UsGood' /\ UserGood'
  <2>1. /\ ~tcp["us"].eof /\ ~tcp["us"].rst /\ ~tcp["user"].rst /\ ~tcp["user"].late
        /\ tcp["us"].st # "closed"
    BY DEF PathGood, UsGood, UserGood
  <2>2. tcp'["us"].st # "closed"
    BY <1>1, <1>3, <2>1
  <2> QED  BY <1>1, <1>2, <1>3, <1>4, <2>1, <2>2 DEF UsGood, UserGood
<1>6. Drained'
  BY <1>1, <1>3, <1>4 DEF Drained
<1>7. Shut(tcp', "dc") /\ tcp'["ds"].buf = <<>>
  BY <1>1, <1>3
<1>8. ServerGood'
  BY <1>2, <1>6, <1>7 DEF ServerGood
<1>9. DownGood'
  <2>1. UNCHANGED <<D1, D2, D3, D4, D5, D6>>
    BY <1>1, <1>3 DEF D1, D2, D3, D4, D5, D6, DsData
  <2> QED  BY <2>1 DEF PathGood, DownGood, DownTotal
<1>10. DsGood'
  <2>1. ~tcp["ds"].rst /\ tcp["ds"].st # "closed"
    BY DEF PathGood, DsGood
  <2>2. tcp'["ds"].st # "closed"
    BY <1>1, <1>3, <2>1
  <2>3. tcp'["ds"].st = "half" => Over(relayS', "ab")
    <3>1. tcp["ds"].st = "half" => Over(relayS, "ab")
      BY DEF PathGood, DsGood
    <3> QED  BY <1>1, <1>2, <1>3, <1>4, <3>1
  <2> QED  BY <1>1, <1>2, <1>3, <1>7, <2>1, <2>2, <2>3 DEF DsGood
<1>11. DcGood'
  <2>1. relayC'.st = "on" => Over(relayC', "ab")
    BY DEF PathGood, DcGood, Over
  <2>2. tcp["dc"].rst => FALSE
    BY DEF PathGood, DcGood
  <2>3. tcp["dc"].late => Ending(relayC)
    BY DEF PathGood, DcGood
  <2> QED  BY <1>1, <1>2, <1>3, <1>6, <2>1, <2>2, <2>3 DEF DcGood
<1>12. ClientGood'
  BY <1>6 DEF PathGood, ClientGood
<1>13. LcGood'
  <2>1. LcGood
    BY DEF PathGood
  <2> QED  BY <1>1, <1>3, <1>4, <2>1 DEF LcGood
<1> QED  BY <1>5, <1>8, <1>9, <1>10, <1>11, <1>12, <1>13 DEF PathGood

\* A copy of the server's relay ends.
LEMMA ServerEndsLoss ==
    ASSUME IInv, IInv', LossInv, NEW d \in {"ab", "ba"}, SR!CopyEnds(d),
           UNCHANGED <<frameVars, app, kind, sv, peeked, pend, dh, ch, relayC, ctxDone>>
    PROVE  LossInv'
<1> DEFINE e == IF d = "ab" THEN "ds" ELSE "us"
           p == IF d = "ab" THEN "dc" ELSE "user"
<1>1. /\ relayS.st = "on" /\ SR!CopyIsOver(d) /\ tcp' = T!ShutWrite(tcp, e)
      /\ relayS' = [relayS EXCEPT !.pc[d] = "done", !.x[d] = <<>>, !.cancelled = TRUE]
      /\ e \in Ends /\ p \in Ends /\ p = Peer[e] /\ Conns(tcp) /\ sv = "relay"
      /\ relayS \in SR!RelayType
  BY SameConnections, PathFacts DEF SR!CopyEnds, SR!Dst
<1>2. ShutEffect(tcp, tcp', e, p)
  BY <1>1, ShutEffects
<1>3. CopyOvered(relayS, relayS', d)
  BY <1>1, CopyOverSteps
<1> HIDE DEF e, p
<1>4. \A x \in Ends : tcp'[x].buf = tcp[x].buf /\ tcp'[x].rst = tcp[x].rst /\ (x # e => tcp'[x].st = tcp[x].st)
  BY <1>2 DEF ShutEffect
<1>5. /\ relayS'.x[d] = <<>>
      /\ \A f \in {"ab", "ba"} : f # d => relayS'.x[f] = relayS.x[f]
  BY <1>3 DEF CopyOvered
<1>6. U1' = U1 /\ U2' = U2 /\ U3' = U3 /\ U4' = U4 /\ U6' = U6
  BY <1>4, PathFacts DEF U1, U2, U3, U4, U6
<1>7. Kept' => Kept
  <2>1. e # "user"
    BY DEF e
  <2> QED  BY <1>1, <1>4, <2>1, PathFacts DEF Kept
<1>8. relayS.pc[d] = "read" => relayS.x[d] = <<>>
  BY DEF IInv, RelayInv, CopyInv
<1>9. U5 = Len(relayS.x["ab"]) /\ U5' = Len(relayS'.x["ab"]) /\ U5 \in Nat
  BY <1>1, ServerPlaces, PathFacts DEF U5, Sizes
<1>10. CASE d = "ab" /\ relayS.pc[d] # "read"
  <2>1. relayS.x["ab"] # <<>> /\ relayS'.x["ab"] = <<>>
    BY <1>1, <1>5, <1>10 DEF SR!CopyIsOver, IInv, RelayInv, CopyInv
  <2>2. U5' = 0 /\ U5 # 0
    <3>1. FromUser = relayS.x["ab"] /\ Sized(FromUser)
      BY <1>1, ServerPlaces, PathFacts DEF Sizes
    <3> QED  BY <1>9, <2>1, <3>1, OneUnit DEF Sized
  <2>3. U5' <= U5 /\ U5' # U5
    BY <1>9, <2>2
  <2>4. UpLess
    BY <1>6, <2>3, PlacesLess
  <2> QED  BY <1>6, <1>7, <2>3, <2>4, LessStep
<1>11. CASE ~(d = "ab" /\ relayS.pc[d] # "read")
  <2>1. U5' = U5
    <3>1. relayS'.x["ab"] = relayS.x["ab"]
      BY <1>5, <1>8, <1>11
    <3> QED  BY <1>9, <3>1
  <2>2. UpLess
    BY <1>6, <2>1, PlacesLess
  <2>3. ASSUME PathGood PROVE PathGood'
    <3>1. d = "ab" => relayS.pc[d] = "read"
      BY <1>11
    <3>2. /\ Over(relayS, "ba") \/ d = "ba"
          /\ relayS.pc["ba"] = "write" => d # "ba"
          /\ tcp["ds"].buf = <<>> /\ Shut(tcp, "dc") /\ Drained
      BY <1>1, <2>3, <3>1, ServerMayEnd
    <3>3. relayS'.x["ba"] = relayS.x["ba"]
      <4>1. CASE d = "ba"
        <5>1. relayS.pc[d] = "read"
          BY <1>1, <3>2, <4>1 DEF SR!CopyIsOver
        <5> QED  BY <1>5, <1>8, <4>1, <5>1
      <4> QED  BY <1>5, <4>1
    <3> QED  BY <1>1, <1>2, <1>3, <2>3, <3>2, <3>3, ServerEndGood DEF e, p
  <2> QED  BY <1>6, <1>7, <2>2, <2>3, LessStep
<1> QED  BY <1>10, <1>11

\* When a copy of the client's relay ends and nothing of the user's is lost, the
\* service's flow was empty up to the client's writes.
LEMMA ClientMayEnd ==
    ASSUME IInv, IInv', PathGood, NEW d \in {"ab", "ba"}, relayC.st = "on", CR!CopyIsOver(d),
           d = "ba" => relayC.pc[d] = "read"
    PROVE  /\ Over(relayC, "ab") \/ d = "ab"
           /\ relayC.pc["ab"] = "write" => d # "ab"
           /\ Drained
<1>1. /\ ch = "relay" /\ relayC.st # "returned" /\ tcp["lc"].st # "none" /\ tcp["dc"].st # "none"
      /\ tcp["lc"].st \in {"open", "half", "closed"} /\ tcp["dc"].st \in {"open", "half", "closed"}
  <2>1. ch = "relay" /\ dh # "none"
    BY DEF IInv, RelayInv, HelloInv
  <2>2. tcp["lc"].st # "none" /\ tcp["ds"].st # "none"
    BY <2>1 DEF IInv, ConnInv
  <2>3. tcp["dc"].st # "none"
    BY <2>2, PathFacts, EndFacts
  <2> QED  BY <2>1, <2>2, <2>3, PathFacts, EndFacts
<1>2. tcp["lc"].st # "closed" /\ ~tcp["lc"].rst
  BY <1>1 DEF PathGood, LcGood
<1>3. ASSUME Ending(relayC) PROVE relayC.pc["ab"] = "done" /\ Over(relayC, "ab") /\ Drained
  BY <1>1, <1>3 DEF PathGood, ClientGood, Over
<1>4. ASSUME Ending(relayS) \/ Shut(tcp, "dc") PROVE Over(relayC, "ab") /\ Drained
  <2>1. Shut(tcp, "dc")
    BY <1>4 DEF PathGood, ServerGood
  <2> QED  BY <2>1 DEF PathGood, DcGood
<1>5. CASE d = "ba"
  <2>1. CR!ReadEnds(tcp, "dc")
    BY <1>5 DEF CR!CopyIsOver, CR!Src
  <2>2. tcp["dc"].st = "closed" \/ tcp["dc"].late \/ tcp["dc"].rst \/ tcp["dc"].eof
    BY <1>1, <2>1 DEF CR!ReadEnds, CR!Live
  <2>3. Ending(relayC) \/ Ending(relayS) \/ Shut(tcp, "dc")
    BY <2>2 DEF PathGood, DcGood, Shut, Ending
  <2> QED  BY <1>3, <1>4, <1>5, <2>3
<1>6. CASE d = "ab" /\ relayC.pc[d] = "read"
  <2>1. CR!ReadEnds(tcp, "lc")
    BY <1>6 DEF CR!CopyIsOver, CR!Src
  <2>2. tcp["lc"].late \/ (tcp["lc"].buf = <<>> /\ tcp["lc"].eof)
    BY <1>1, <1>2, <2>1 DEF CR!ReadEnds, CR!Live
  <2>3. CASE tcp["lc"].late
    <3>1. Ending(relayC)
      BY <2>3 DEF PathGood, LcGood
    <3> QED  BY <1>3, <1>6, <3>1
  <2>4. CASE tcp["lc"].buf = <<>> /\ tcp["lc"].eof
    <3>1. tcp["service"].st # "open"
      BY <2>4 DEF PathGood, LcGood, Shut
    <3>2. relayC.x["ab"] = <<>>
      BY <1>6 DEF IInv, RelayInv, CopyInv
    <3> QED  BY <1>1, <1>6, <2>4, <3>1, <3>2 DEF Drained
  <2> QED  BY <2>2, <2>3, <2>4
<1>7. CASE d = "ab" /\ relayC.pc[d] # "read"
  <2>1. relayC.pc["ab"] = "write" /\ CR!WriteEnds(tcp, "dc")
    BY <1>7 DEF CR!CopyIsOver, CR!Dst
  <2>2. relayC.x["ab"] # <<>> /\ ~Over(relayC, "ab")
    BY <1>1, <2>1 DEF IInv, RelayInv, CopyInv, Over
  <2>3. ~Ending(relayC) /\ ~Ending(relayS) /\ ~Shut(tcp, "dc")
    BY <1>3, <1>4, <2>2
  <2>4. ~tcp["dc"].late /\ ~tcp["dc"].rst
    BY <2>3 DEF PathGood, DcGood, Ending
  <2>5. tcp["dc"].st = "open"
    BY <1>1, <2>3 DEF Shut
  <2>6. FALSE
    BY <2>1, <2>4, <2>5 DEF CR!WriteEnds
  <2> QED  BY <2>6
<1> QED  BY <1>5, <1>6, <1>7

\* After a copy of the client's relay has ended.
LEMMA ClientEndGood ==
    ASSUME IInv, IInv', PathGood, NEW d \in {"ab", "ba"}, relayC.st = "on",
           CopyOvered(relayC, relayC', d), UNCHANGED <<app, peeked, dh, ch, relayS>>,
           ShutEffect(tcp, tcp', IF d = "ab" THEN "dc" ELSE "lc", IF d = "ab" THEN "ds" ELSE "service"),
           Over(relayC, "ab") \/ d = "ab", relayC'.x["ab"] = relayC.x["ab"], Drained
    PROVE  PathGood'
<1> DEFINE e == IF d = "ab" THEN "dc" ELSE "lc"
           p == IF d = "ab" THEN "ds" ELSE "service"
<1>1. /\ \A x \in Ends : tcp'[x].rst = tcp[x].rst /\ tcp'[x].late = tcp[x].late /\ tcp'[x].buf = tcp[x].buf
      /\ \A x \in Ends : x # p => tcp'[x].eof = tcp[x].eof
      /\ \A x \in Ends : x # e => tcp'[x].st = tcp[x].st
      /\ tcp'[e].st = tcp[e].st \/ tcp'[e].st = "half"
      /\ tcp[e].st # "none" => Shut(tcp', e)
      /\ \A x \in Ends : Shut(tcp, x) => Shut(tcp', x)
  BY DEF ShutEffect
<1>2. /\ relayC'.st = "on" /\ Ending(relayC') /\ Over(relayC', d) /\ Over(relayC', "ab")
      /\ \A f \in {"ab", "ba"} : Over(relayC, f) => Over(relayC', f)
  BY DEF CopyOvered
<1>3. /\ "user" \in Ends /\ "us" \in Ends /\ "ds" \in Ends /\ "dc" \in Ends /\ "lc" \in Ends
      /\ "service" \in Ends
  BY DEF Ends
<1>4. /\ e # "user" /\ e # "us" /\ e # "ds" /\ e # "service" /\ p # "us" /\ p # "user" /\ p # "dc" /\ p # "lc"
      /\ (e = "dc" <=> d = "ab") /\ (e = "lc" <=> d = "ba") /\ (p = "ds" <=> d = "ab")
  OBVIOUS
<1> HIDE DEF e, p
<1>5. UsGood' /\ UserGood'
  <2>1. UsGood /\ UserGood
    BY DEF PathGood
  <2>2. Shut(tcp', "us") <=> Shut(tcp, "us")
    BY <1>1, <1>3, <1>4 DEF Shut
  <2> QED  BY <1>1, <1>3, <1>4, <2>1, <2>2 DEF UsGood, UserGood
<1>6. Drained'
  BY <1>1, <1>3, <1>4 DEF Drained
<1>7. ServerGood'
  <2>1. ServerGood
    BY DEF PathGood
  <2> QED  BY <1>1, <1>3, <1>6, <2>1 DEF ServerGood
<1>8. DownGood'
  <2>1. UNCHANGED <<D1, D2, D3, D4, D5, D6>>
    BY <1>1, <1>3 DEF D1, D2, D3, D4, D5, D6, DsData
  <2> QED  BY <2>1 DEF PathGood, DownGood, DownTotal
<1>9. DsGood'
  <2>1. DsGood
    BY DEF PathGood
  <2>2. CASE d = "ab"
    <3>1. tcp["dc"].st # "none"
      <4>1. dh # "none"
        BY DEF IInv, RelayInv, HelloInv
      <4>2. tcp["ds"].st # "none"
        BY <4>1 DEF IInv, ConnInv
      <4> QED  BY <4>2, PathFacts, EndFacts
    <3>2. Shut(tcp', "dc")
      BY <1>1, <1>4, <2>2, <3>1
    <3> QED  BY <1>1, <1>3, <1>4, <2>1, <3>2 DEF DsGood
  <2>3. CASE d = "ba"
    BY <1>1, <1>3, <1>4, <2>1, <2>3 DEF DsGood
  <2> QED  BY <2>2, <2>3
<1>10. DcGood'
  <2>1. DcGood
    BY DEF PathGood
  <2> QED  BY <1>1, <1>2, <1>3, <1>4, <1>6, <2>1 DEF DcGood
<1>11. ClientGood'
  BY <1>2, <1>6 DEF ClientGood
<1>12. LcGood'
  <2>1. ~tcp["lc"].rst /\ tcp["lc"].st # "closed" /\ (tcp["lc"].eof => Shut(tcp, "service"))
    BY DEF PathGood, LcGood
  <2>2. tcp'["lc"].st # "closed"
    BY <1>1, <1>3, <2>1
  <2> QED  BY <1>1, <1>2, <1>3, <1>4, <2>1, <2>2 DEF LcGood
<1> QED  BY <1>5, <1>7, <1>8, <1>9, <1>10, <1>11, <1>12 DEF PathGood

\* A copy of the client's relay ends.
LEMMA ClientEndsLoss ==
    ASSUME IInv, IInv', LossInv, NEW d \in {"ab", "ba"}, CR!CopyEnds(d),
           UNCHANGED <<frameVars, app, kind, sv, peeked, pend, dh, ch, relayS, ctxDone>>
    PROVE  LossInv'
<1> DEFINE e == IF d = "ab" THEN "dc" ELSE "lc"
           p == IF d = "ab" THEN "ds" ELSE "service"
<1>1. /\ relayC.st = "on" /\ CR!CopyIsOver(d) /\ tcp' = T!ShutWrite(tcp, e)
      /\ relayC' = [relayC EXCEPT !.pc[d] = "done", !.x[d] = <<>>, !.cancelled = TRUE]
      /\ e \in Ends /\ p \in Ends /\ p = Peer[e] /\ Conns(tcp) /\ relayC \in SR!RelayType
  BY SameConnections, PathFacts DEF CR!CopyEnds, CR!Dst
<1>2. ShutEffect(tcp, tcp', e, p)
  BY <1>1, ShutEffects
<1>3. CopyOvered(relayC, relayC', d)
  BY <1>1, CopyOverSteps
<1> HIDE DEF e, p
<1>4. \A x \in Ends : tcp'[x].buf = tcp[x].buf /\ tcp'[x].rst = tcp[x].rst /\ (x # e => tcp'[x].st = tcp[x].st)
  BY <1>2 DEF ShutEffect
<1>5. /\ relayC'.x[d] = <<>>
      /\ \A f \in {"ab", "ba"} : f # d => relayC'.x[f] = relayC.x[f]
  BY <1>3 DEF CopyOvered
<1>6. U1' = U1 /\ U2' = U2 /\ U4' = U4 /\ U5' = U5 /\ U6' = U6
  BY <1>4, PathFacts DEF U1, U2, U4, U5, U6, FromUser
<1>7. Kept' => Kept
  <2>1. e # "user"
    BY DEF e
  <2> QED  BY <1>1, <1>4, <2>1, PathFacts DEF Kept
<1>8. relayC.pc[d] = "read" => relayC.x[d] = <<>>
  BY DEF IInv, RelayInv, CopyInv
<1>9. CASE d = "ba" /\ relayC.pc[d] # "read"
  <2>1. relayC.x["ba"] # <<>> /\ relayC'.x["ba"] = <<>>
    BY <1>1, <1>5, <1>9 DEF CR!CopyIsOver, IInv, RelayInv, CopyInv
  <2>2. U3' = 0 /\ U3 # 0 /\ U3 \in Nat
    BY <2>1, PathFacts, OneUnit DEF U3, Sizes, Sized
  <2>3. U3' <= U3 /\ U3' # U3
    BY <2>2
  <2>4. UpLess
    BY <1>6, <2>3, PlacesLess
  <2> QED  BY <1>6, <1>7, <2>3, <2>4, LessStep
<1>10. CASE ~(d = "ba" /\ relayC.pc[d] # "read")
  <2>1. U3' = U3
    <3>1. relayC'.x["ba"] = relayC.x["ba"]
      BY <1>5, <1>8, <1>10
    <3> QED  BY <3>1 DEF U3
  <2>2. UpLess
    BY <1>6, <2>1, PlacesLess
  <2>3. ASSUME PathGood PROVE PathGood'
    <3>1. d = "ba" => relayC.pc[d] = "read"
      BY <1>10
    <3>2. /\ Over(relayC, "ab") \/ d = "ab"
          /\ relayC.pc["ab"] = "write" => d # "ab"
          /\ Drained
      BY <1>1, <2>3, <3>1, ClientMayEnd
    <3>3. relayC'.x["ab"] = relayC.x["ab"]
      <4>1. CASE d = "ab"
        <5>1. relayC.pc[d] = "read"
          BY <1>1, <3>2, <4>1 DEF CR!CopyIsOver
        <5> QED  BY <1>5, <1>8, <4>1, <5>1
      <4> QED  BY <1>5, <4>1
    <3> QED  BY <1>1, <1>2, <1>3, <2>3, <3>2, <3>3, ClientEndGood DEF e, p
  <2> QED  BY <1>6, <1>7, <2>2, <2>3, LessStep
<1> QED  BY <1>9, <1>10

-----------------------------------------------------------------------------
(* The deadlines, and the returns of the relays.                           *)

\* Two deadlines are set in the past.
ExpiredEffect(t, u, e, f) ==
    /\ \A x \in Ends : u[x].st = t[x].st /\ u[x].eof = t[x].eof /\ u[x].rst = t[x].rst /\ u[x].buf = t[x].buf
    /\ \A x \in Ends : x \notin {e, f} => u[x].late = t[x].late

\* The deadlines of a relay have that effect.
LEMMA ExpiredTwice ==
    ASSUME NEW t, Conns(t), NEW e \in Ends, NEW f \in Ends, NEW u, u = T!Expired(T!Expired(t, e), f)
    PROVE  ExpiredEffect(t, u, e, f)
<1> DEFINE v == T!Expired(t, e)
<1>1. Conns(v)
  BY ExpiredDecays, DecaysConns
<1>2. /\ \A x \in Ends : v[x].st = t[x].st /\ v[x].eof = t[x].eof /\ v[x].rst = t[x].rst /\ v[x].buf = t[x].buf
      /\ \A x \in Ends : x # e => v[x].late = t[x].late
  BY ExpiredFields
<1> HIDE DEF v
<1>3. u = T!Expired(v, f)
  BY DEF v
<1>4. /\ \A x \in Ends : u[x].st = v[x].st /\ u[x].eof = v[x].eof /\ u[x].rst = v[x].rst /\ u[x].buf = v[x].buf
      /\ \A x \in Ends : x # f => u[x].late = v[x].late
  BY <1>1, <1>3, ExpiredFields
<1> QED  BY <1>2, <1>4 DEF ExpiredEffect

\* A relay r whose deadlines are set is as far as it was.
LEMMA WatchedSame ==
    ASSUME NEW r \in SR!RelayType, NEW s, s = [r EXCEPT !.watched = TRUE]
    PROVE  /\ s.st = r.st /\ s.x = r.x /\ s.pc = r.pc /\ Ending(s)
           /\ \A d \in {"ab", "ba"} : Over(s, d) <=> Over(r, d)
<1>1. s.st = r.st /\ s.x = r.x /\ s.pc = r.pc /\ s.watched
  BY DEF SR!RelayType
<1> QED  BY <1>1 DEF Ending, Over

\* The deadlines of the server's relay are set.
LEMMA ServerWatchLoss ==
    ASSUME IInv, IInv', LossInv, SR!Watch,
           UNCHANGED <<frameVars, app, kind, sv, peeked, pend, dh, ch, relayC, ctxDone>>
    PROVE  LossInv'
<1>1. /\ relayS.cancelled \/ ctxDone
      /\ tcp' = T!Expired(T!Expired(tcp, "us"), "ds") /\ relayS' = [relayS EXCEPT !.watched = TRUE]
      /\ relayS \in SR!RelayType /\ Conns(tcp) /\ "us" \in Ends /\ "ds" \in Ends
  BY SameConnections, PathFacts DEF SR!Watch
<1>2. ExpiredEffect(tcp, tcp', "us", "ds")
  BY <1>1, ExpiredTwice
<1>3. /\ relayS'.st = relayS.st /\ relayS'.x = relayS.x /\ Ending(relayS')
      /\ \A d \in {"ab", "ba"} : Over(relayS', d) <=> Over(relayS, d)
  BY <1>1, WatchedSame
<1>4. \A x \in Ends : /\ tcp'[x].st = tcp[x].st /\ tcp'[x].eof = tcp[x].eof
                      /\ tcp'[x].rst = tcp[x].rst /\ tcp'[x].buf = tcp[x].buf
                      /\ (Shut(tcp', x) <=> Shut(tcp, x))
  BY <1>2 DEF ExpiredEffect, Shut
<1>5. /\ tcp'["user"].late = tcp["user"].late /\ tcp'["dc"].late = tcp["dc"].late
      /\ tcp'["lc"].late = tcp["lc"].late
  BY <1>2, PathFacts DEF ExpiredEffect
<1>6. UNCHANGED <<U1, U2, U3, U4, U5, U6>> /\ UNCHANGED <<D1, D2, D3, D4, D5, D6>>
  BY <1>3, <1>4, PathFacts DEF U1, U2, U3, U4, U5, U6, D1, D2, D3, D4, D5, D6, FromUser, DsData
<1>7. UpLess
  BY <1>6, PlacesLess
<1>8. Kept' => Kept
  BY <1>4, PathFacts DEF Kept
<1>9. ASSUME Kept', PathGood PROVE PathGood'
  <2>1. Ending(relayS)
    BY <1>1, <1>9 DEF Kept, Ending
  <2>2. Drained'
    BY <1>4, <1>9, <2>1, PathFacts DEF PathGood, ServerGood, Drained
  <2>3. UsGood' /\ UserGood'
    BY <1>3, <1>4, <1>5, <1>9, PathFacts DEF PathGood, UsGood, UserGood
  <2>4. DownGood'
    BY <1>6, <1>9 DEF PathGood, DownGood, DownTotal
  <2>5. ServerGood' /\ DsGood'
    BY <1>3, <1>4, <1>9, <2>1, <2>2, PathFacts DEF PathGood, ServerGood, DsGood
  <2>6. DcGood' /\ ClientGood' /\ LcGood'
    BY <1>3, <1>4, <1>5, <1>9, <2>2, PathFacts DEF PathGood, DcGood, ClientGood, LcGood
  <2> QED  BY <2>3, <2>4, <2>5, <2>6 DEF PathGood
<1> QED  BY <1>6, <1>7, <1>8, <1>9, LessStep

\* The deadlines of the client's relay are set.
LEMMA ClientWatchLoss ==
    ASSUME IInv, IInv', LossInv, CR!Watch,
           UNCHANGED <<frameVars, app, kind, sv, peeked, pend, dh, ch, relayS, ctxDone>>
    PROVE  LossInv'
<1>1. /\ relayC.cancelled
      /\ tcp' = T!Expired(T!Expired(tcp, "lc"), "dc") /\ relayC' = [relayC EXCEPT !.watched = TRUE]
      /\ relayC \in SR!RelayType /\ Conns(tcp) /\ "lc" \in Ends /\ "dc" \in Ends
  BY SameConnections, PathFacts DEF CR!Watch
<1>2. ExpiredEffect(tcp, tcp', "lc", "dc")
  BY <1>1, ExpiredTwice
<1>3. /\ relayC'.st = relayC.st /\ relayC'.x = relayC.x /\ Ending(relayC') /\ Ending(relayC)
      /\ \A d \in {"ab", "ba"} : Over(relayC', d) <=> Over(relayC, d)
  BY <1>1, WatchedSame DEF Ending
<1>4. \A x \in Ends : /\ tcp'[x].st = tcp[x].st /\ tcp'[x].eof = tcp[x].eof
                      /\ tcp'[x].rst = tcp[x].rst /\ tcp'[x].buf = tcp[x].buf
                      /\ (Shut(tcp', x) <=> Shut(tcp, x))
  BY <1>2 DEF ExpiredEffect, Shut
<1>5. /\ tcp'["user"].late = tcp["user"].late /\ tcp'["us"].late = tcp["us"].late
      /\ tcp'["ds"].late = tcp["ds"].late
  BY <1>2, PathFacts DEF ExpiredEffect
<1>6. UNCHANGED <<U1, U2, U3, U4, U5, U6>> /\ UNCHANGED <<D1, D2, D3, D4, D5, D6>>
  BY <1>3, <1>4, PathFacts DEF U1, U2, U3, U4, U5, U6, D1, D2, D3, D4, D5, D6, FromUser, DsData
<1>7. UpLess
  BY <1>6, PlacesLess
<1>8. Kept' => Kept
  BY <1>4, PathFacts DEF Kept
<1>9. ASSUME PathGood PROVE PathGood'
  <2>2. Drained'
    BY <1>3, <1>4, <1>9, PathFacts DEF PathGood, ClientGood, Drained
  <2>3. UsGood' /\ UserGood'
    BY <1>4, <1>5, <1>9, PathFacts DEF PathGood, UsGood, UserGood
  <2>4. DownGood'
    BY <1>6, <1>9 DEF PathGood, DownGood, DownTotal
  <2>5. ServerGood' /\ DsGood'
    BY <1>4, <1>5, <1>9, <2>2, PathFacts DEF PathGood, ServerGood, DsGood
  <2>6. DcGood' /\ ClientGood' /\ LcGood'
    BY <1>3, <1>4, <1>9, <2>2, PathFacts DEF PathGood, DcGood, ClientGood, LcGood
  <2> QED  BY <2>3, <2>4, <2>5, <2>6 DEF PathGood
<1> QED  BY <1>6, <1>7, <1>8, <1>9, LessStep

\* A relay whose copies are both done holds nothing; it returns as NoRelay.
LEMMA ReturnedRelay ==
    ASSUME NEW r, CopyInv(r), \A d \in {"ab", "ba"} : r.pc[d] = "done",
           NEW s, s = [SR!NoRelay EXCEPT !.st = "returned"]
    PROVE  /\ r.x["ab"] = <<>> /\ r.x["ba"] = <<>> /\ s.x["ab"] = <<>> /\ s.x["ba"] = <<>>
           /\ s.st = "returned" /\ Ending(s) /\ Over(s, "ab") /\ Over(s, "ba") /\ Ending(r)
           /\ CR!NoRelay = SR!NoRelay
<1>1. r.x["ab"] = <<>> /\ r.x["ba"] = <<>>
  BY DEF CopyInv
<1>2. s.st = "returned" /\ s.x["ab"] = <<>> /\ s.x["ba"] = <<>>
  BY DEF SR!NoRelay, SR!Dirs
<1>3. Ending(s) /\ Over(s, "ab") /\ Over(s, "ba") /\ Ending(r)
  BY <1>2 DEF Ending, Over
<1>4. CR!NoRelay = SR!NoRelay
  BY DEF CR!NoRelay, SR!NoRelay, CR!Dirs, SR!Dirs
<1> QED  BY <1>1, <1>2, <1>3, <1>4

\* End e, where nothing is left to read, is closed: its peer p only learns of it.
Quit(t, u, e, p) ==
    /\ u[e].st = "closed" /\ u[e].buf = <<>> /\ ~u[e].eof /\ ~u[e].rst /\ ~u[e].late
    /\ u[p].st = t[p].st /\ u[p].late = t[p].late /\ u[p].buf = t[p].buf /\ u[p].rst = t[p].rst
    /\ \A x \in Ends : x \notin {e, p} => u[x] = t[x]

\* Close has that effect on a live end.
LEMMA QuitEffect ==
    ASSUME NEW t, Conns(t), NEW e \in Ends, T!Live(t, e), t[e].buf = <<>>
    PROVE  Quit(t, T!Closed(t, e), e, Peer[e])
BY ClosedFields DEF Ended, Quit

\* After the server's relay has returned.
LEMMA ServerReturnGood ==
    ASSUME IInv, IInv', PathGood, NEW t, Quit(tcp, t, "us", "user"), Quit(t, tcp', "ds", "dc"),
           relayS.x["ba"] = <<>>, relayS'.x["ba"] = <<>>, relayS'.st = "returned", Ending(relayS),
           dh = "done", UNCHANGED <<app, peeked, dh, ch, relayC>>
    PROVE  PathGood'
<1>1. /\ tcp'["us"] = t["us"] /\ tcp'["user"] = t["user"] /\ tcp'["lc"] = t["lc"]
      /\ tcp'["service"] = t["service"] /\ t["ds"] = tcp["ds"] /\ t["dc"] = tcp["dc"]
      /\ t["lc"] = tcp["lc"] /\ t["service"] = tcp["service"]
  BY PathFacts DEF Quit
<1>2. /\ tcp'["us"].st = "closed" /\ ~tcp'["us"].eof /\ ~tcp'["us"].rst /\ ~tcp'["us"].late
      /\ tcp'["user"].late = tcp["user"].late /\ tcp'["user"].buf = tcp["user"].buf
      /\ tcp'["user"].rst = tcp["user"].rst
  BY <1>1 DEF Quit
<1>3. /\ tcp'["ds"].st = "closed" /\ tcp'["ds"].buf = <<>>
      /\ ~tcp'["ds"].eof /\ ~tcp'["ds"].rst /\ ~tcp'["ds"].late
      /\ tcp'["dc"].late = tcp["dc"].late /\ tcp'["dc"].st = tcp["dc"].st
      /\ tcp'["dc"].rst = tcp["dc"].rst
      /\ tcp'["lc"] = tcp["lc"] /\ tcp'["service"] = tcp["service"]
  BY <1>1 DEF Quit
<1>4. Ending(relayS') /\ Over(relayS', "ba") /\ Over(relayS', "ab")
  BY DEF Ending, Over
<1>5. tcp["ds"].buf = <<>> /\ Shut(tcp, "dc") /\ Drained
  BY DEF PathGood, ServerGood
<1>6. Drained' /\ Shut(tcp', "dc")
  BY <1>3, <1>5 DEF Drained, Shut
<1>7. UsGood' /\ UserGood'
  BY <1>2, <1>4 DEF PathGood, UsGood, UserGood
<1>8. DownGood'
  <2>1. UNCHANGED <<D1, D2, D3, D4, D5, D6>>
    BY <1>2, <1>3, <1>5 DEF D1, D2, D3, D4, D5, D6, DsData
  <2> QED  BY <2>1 DEF PathGood, DownGood, DownTotal
<1>9. ServerGood' /\ DsGood'
  BY <1>3, <1>4, <1>6 DEF ServerGood, DsGood
<1>10. DcGood' /\ ClientGood' /\ LcGood'
  <2>1. DcGood'
    BY <1>3, <1>4, <1>5, <1>6 DEF PathGood, DcGood
  <2>2. ClientGood'
    BY <1>6 DEF PathGood, ClientGood
  <2>3. LcGood'
    BY <1>3 DEF PathGood, LcGood, Shut
  <2> QED  BY <2>1, <2>2, <2>3
<1> QED  BY <1>7, <1>8, <1>9, <1>10 DEF PathGood

\* The server's relay returns and closes both of its connections.
LEMMA ServerReturnLoss ==
    ASSUME IInv, IInv', LossInv, SR!Return,
           UNCHANGED <<frameVars, app, kind, sv, peeked, pend, dh, ch, relayC, ctxDone>>
    PROVE  LossInv'
<1> DEFINE t == T!Closed(tcp, "us")
<1>1. /\ relayS.st = "on" /\ \A d \in {"ab", "ba"} : relayS.pc[d] = "done"
      /\ tcp' = T!Closed(t, "ds") /\ relayS' = [SR!NoRelay EXCEPT !.st = "returned"]
      /\ Conns(tcp) /\ "us" \in Ends /\ "ds" \in Ends /\ "user" \in Ends /\ "dc" \in Ends
      /\ Peer["us"] = "user" /\ Peer["ds"] = "dc"
      /\ sv = "relay" /\ dh = "done" /\ CopyInv(relayS)
  BY SameConnections, PathFacts DEF SR!Return, SR!Dirs, IInv, RelayInv
<1>2. /\ relayS.x["ab"] = <<>> /\ relayS.x["ba"] = <<>> /\ relayS'.x["ab"] = <<>> /\ relayS'.x["ba"] = <<>>
      /\ relayS'.st = "returned" /\ Ending(relayS)
  BY <1>1, ReturnedRelay
<1>3. Decays(tcp, tcp') /\ Decays(tcp, t) /\ Conns(t)
  BY <1>1, BothDecay, ClosedDecays, DecaysConns
<1>4. U3' = U3 /\ U5' = U5 /\ U1' = U1
  BY <1>1, <1>2, ServerPlaces DEF U1, U3, U5
<1>5. UpLess
  <2>1. U3' <= U3 /\ U5' <= U5
    <3>1. U3 \in Nat /\ U5 \in Nat
      BY PathFacts DEF Sizes
    <3> QED  BY <1>4, <3>1
  <2> QED  BY <1>3, <2>1, PathFacts, DecaysLess
<1> HIDE DEF t
<1>6. \/ ~T!Live(tcp, "us") /\ t = tcp
      \/ T!Live(tcp, "us") /\ Ended(tcp, t, "us", "user")
  BY <1>1, ClosedFields DEF t
<1>7. \/ ~T!Live(t, "ds") /\ tcp' = t
      \/ T!Live(t, "ds") /\ Ended(t, tcp', "ds", "dc")
  BY <1>1, <1>3, ClosedFields
<1>8. tcp'["user"].st = tcp["user"].st
  <2>1. t["user"].st = tcp["user"].st
    BY <1>6 DEF Ended
  <2>2. tcp'["user"].st = t["user"].st
    BY <1>1, <1>7 DEF Ended
  <2> QED  BY <2>1, <2>2
<1>9. Kept' => Kept
  BY <1>1, <1>8 DEF Kept
<1>10. ASSUME PathGood, U6' = U6 PROVE PathGood'
  <2>1. T!Live(tcp, "us") /\ T!Live(tcp, "ds")
    <3>1. tcp["us"].st # "none" /\ tcp["ds"].st # "none"
      BY <1>1 DEF IInv, ConnInv
    <3>2. tcp["us"].st # "closed" /\ tcp["ds"].st # "closed"
      BY <1>1, <1>10 DEF PathGood, UsGood, DsGood
    <3> QED  BY <1>1, <3>1, <3>2, EndFacts DEF T!Live
  <2>2. tcp["us"].buf = <<>>
    <3>1. t["us"].buf = <<>> /\ tcp'["us"] = t["us"]
      <4>1. t["us"].buf = <<>>
        BY <1>6, <2>1 DEF Ended
      <4>2. tcp'["us"] = t["us"]
        BY <1>1, <1>7 DEF Ended
      <4> QED  BY <4>1, <4>2
    <3>2. Len(tcp["us"].buf) = 0
      BY <1>10, <3>1, OneUnit DEF U6
    <3> QED  BY <3>2, PathFacts DEF Sizes, Sized
  <2>3. Quit(tcp, t, "us", "user")
    BY <1>1, <2>1, <2>2, QuitEffect DEF t
  <2>4. t["ds"] = tcp["ds"]
    BY <1>1, <2>3 DEF Quit
  <2>5. T!Live(t, "ds") /\ t["ds"].buf = <<>>
    <3>1. tcp["ds"].buf = <<>>
      BY <1>2, <1>10 DEF PathGood, ServerGood
    <3> QED  BY <2>1, <2>4, <3>1 DEF T!Live
  <2>6. Quit(t, tcp', "ds", "dc")
    BY <1>1, <1>3, <2>5, QuitEffect
  <2> QED  BY <1>1, <1>2, <1>10, <2>3, <2>6, ServerReturnGood
<1> QED  BY <1>4, <1>5, <1>9, <1>10, LessStep

\* After the client's relay has returned.
LEMMA ClientReturnGood ==
    ASSUME IInv, IInv', PathGood, NEW t, Quit(tcp, t, "lc", "service"),
           Quit(t, tcp', "dc", "ds") \/ (tcp' = t /\ tcp["dc"].st = "closed"),
           relayC.x["ab"] = <<>>, relayC'.x["ab"] = <<>>, relayC'.st = "returned", Ending(relayC),
           ch = "relay", UNCHANGED <<app, peeked, dh, ch, relayS>>
    PROVE  PathGood'
<1>1. /\ t["ds"] = tcp["ds"] /\ t["dc"] = tcp["dc"] /\ t["us"] = tcp["us"] /\ t["user"] = tcp["user"]
      /\ t["service"].st = tcp["service"].st
  BY PathFacts DEF Quit
<1>2. /\ tcp'["lc"] = t["lc"] /\ tcp'["service"] = t["service"] /\ tcp'["us"] = tcp["us"]
      /\ tcp'["user"] = tcp["user"]
  BY <1>1, PathFacts DEF Quit
<1>3. /\ tcp'["lc"].st = "closed" /\ tcp'["lc"].buf = <<>> /\ ~tcp'["lc"].eof /\ ~tcp'["lc"].rst
      /\ ~tcp'["lc"].late /\ tcp'["service"].st = tcp["service"].st
  BY <1>1, <1>2 DEF Quit
<1>4. /\ tcp'["ds"].st = tcp["ds"].st /\ tcp'["ds"].buf = tcp["ds"].buf
      /\ tcp'["ds"].rst = tcp["ds"].rst /\ tcp'["ds"].late = tcp["ds"].late
  BY <1>1 DEF Quit
<1>5. /\ tcp'["dc"].st = "closed"
      /\ tcp'["dc"].eof => tcp["dc"].eof
      /\ tcp'["dc"].rst => tcp["dc"].rst
  BY <1>1 DEF Quit
<1>6. Ending(relayC') /\ Over(relayC', "ab")
  BY DEF Ending, Over
<1>7. Drained
  BY DEF PathGood, ClientGood
<1>8. Drained' /\ Shut(tcp', "dc") /\ tcp["lc"].buf = <<>>
  BY <1>3, <1>5, <1>7 DEF Drained, Shut
<1>9. UsGood' /\ UserGood'
  BY <1>2 DEF PathGood, UsGood, UserGood, Shut
<1>10. DownGood'
  <2>1. UNCHANGED <<D1, D2, D3, D4, D5, D6>>
    BY <1>2, <1>3, <1>4, <1>8 DEF D1, D2, D3, D4, D5, D6, DsData
  <2> QED  BY <2>1 DEF PathGood, DownGood, DownTotal
<1>11. ServerGood' /\ DsGood'
  BY <1>4, <1>8 DEF PathGood, ServerGood, DsGood
<1>12. DcGood' /\ ClientGood'
  BY <1>5, <1>6, <1>8 DEF PathGood, DcGood, ClientGood
<1>13. LcGood'
  BY <1>3 DEF LcGood
<1> QED  BY <1>9, <1>10, <1>11, <1>12, <1>13 DEF PathGood

\* The client's relay returns and closes both of its connections.
LEMMA ClientReturnLoss ==
    ASSUME IInv, IInv', LossInv, CR!Return,
           UNCHANGED <<frameVars, app, kind, sv, peeked, pend, dh, ch, relayS, ctxDone>>
    PROVE  LossInv'
<1> DEFINE t == T!Closed(tcp, "lc")
<1>1. /\ relayC.st = "on" /\ \A d \in {"ab", "ba"} : relayC.pc[d] = "done"
      /\ tcp' = T!Closed(t, "dc") /\ relayC' = [CR!NoRelay EXCEPT !.st = "returned"]
      /\ Conns(tcp) /\ "lc" \in Ends /\ "dc" \in Ends /\ "user" \in Ends
      /\ Peer["lc"] = "service" /\ Peer["dc"] = "ds"
      /\ ch = "relay" /\ dh # "none" /\ CopyInv(relayC)
  BY SameConnections, PathFacts DEF CR!Return, CR!Dirs, IInv, RelayInv, HelloInv
<1>2. /\ relayC.x["ab"] = <<>> /\ relayC.x["ba"] = <<>> /\ relayC'.x["ab"] = <<>> /\ relayC'.x["ba"] = <<>>
      /\ relayC'.st = "returned" /\ Ending(relayC)
  <2>1. CR!NoRelay = SR!NoRelay
    BY DEF CR!NoRelay, SR!NoRelay, CR!Dirs, SR!Dirs
  <2> QED  BY <1>1, <2>1, ReturnedRelay
<1>3. Decays(tcp, tcp') /\ Decays(tcp, t) /\ Conns(t)
  BY <1>1, BothDecay, ClosedDecays, DecaysConns
<1>4. U3' = U3 /\ U5' = U5 /\ U1' = U1
  BY <1>2 DEF U1, U3, U5, FromUser
<1>5. UpLess
  <2>1. U3' <= U3 /\ U5' <= U5
    <3>1. U3 \in Nat /\ U5 \in Nat
      BY PathFacts DEF Sizes
    <3> QED  BY <1>4, <3>1
  <2> QED  BY <1>3, <2>1, PathFacts, DecaysLess
<1> HIDE DEF t
<1>6. \/ ~T!Live(tcp, "lc") /\ t = tcp
      \/ T!Live(tcp, "lc") /\ Ended(tcp, t, "lc", "service")
  BY <1>1, ClosedFields DEF t
<1>7. \/ ~T!Live(t, "dc") /\ tcp' = t
      \/ T!Live(t, "dc") /\ Ended(t, tcp', "dc", "ds")
  BY <1>1, <1>3, ClosedFields
<1>8. tcp'["user"] = tcp["user"] /\ (tcp["ds"].rst => tcp'["ds"].rst)
  <2>1. t["user"] = tcp["user"] /\ t["ds"] = tcp["ds"]
    BY <1>6, PathFacts DEF Ended
  <2>2. tcp'["user"] = t["user"] /\ (t["ds"].rst => tcp'["ds"].rst)
    BY <1>1, <1>7 DEF Ended
  <2> QED  BY <2>1, <2>2
<1>9. Kept' => Kept
  BY <1>8 DEF Kept
<1>10. ASSUME PathGood, U4' = U4 PROVE PathGood'
  <2>1. T!Live(tcp, "lc")
    <3>1. tcp["lc"].st # "none"
      BY <1>1 DEF IInv, ConnInv
    <3>2. tcp["lc"].st # "closed"
      BY <1>1, <1>10 DEF PathGood, LcGood
    <3> QED  BY <1>1, <3>1, <3>2, EndFacts DEF T!Live
  <2>2. tcp["lc"].buf = <<>>
    BY <1>2, <1>10 DEF PathGood, ClientGood, Drained
  <2>3. Quit(tcp, t, "lc", "service")
    BY <1>1, <2>1, <2>2, QuitEffect DEF t
  <2>4. t["dc"] = tcp["dc"]
    BY <1>1, <2>3 DEF Quit
  <2>5. CASE ~T!Live(t, "dc") /\ tcp' = t
    <3>1. tcp["dc"].st # "none"
      <4>1. tcp["ds"].st # "none"
        BY <1>1 DEF IInv, ConnInv
      <4> QED  BY <4>1, PathFacts, EndFacts
    <3>2. tcp["dc"].st = "closed"
      BY <1>1, <2>4, <2>5, <3>1, EndFacts DEF T!Live
    <3> QED  BY <1>1, <1>2, <1>10, <2>3, <2>5, <3>2, ClientReturnGood
  <2>6. CASE T!Live(t, "dc") /\ Ended(t, tcp', "dc", "ds")
    <3>1. tcp'["dc"].buf = <<>>
      BY <2>6 DEF Ended
    <3>2. Len(tcp["dc"].buf) = 0
      BY <1>10, <3>1, OneUnit DEF U4
    <3>3. t["dc"].buf = <<>>
      BY <2>4, <3>2, PathFacts DEF Sizes, Sized
    <3>4. Quit(t, tcp', "dc", "ds")
      BY <1>1, <1>3, <2>6, <3>3, QuitEffect
    <3> QED  BY <1>1, <1>2, <1>10, <2>3, <3>4, ClientReturnGood
  <2> QED  BY <1>7, <2>5, <2>6
<1> QED  BY <1>4, <1>5, <1>9, <1>10, LessStep

\* The client cannot reach the service and closes the data connection.
LEMMA DialLocalFailsLoss ==
    ASSUME IInv, IInv', LossInv, DialLocal(FALSE)
    PROVE  LossInv'
<1>1. /\ ch = "local" /\ ch' = "done" /\ tcp' = T!Closed(tcp, "dc") /\ dh # "none" /\ relayC.st = "off"
      /\ UNCHANGED <<app, kind, sv, peeked, pend, dh, relayS, relayC, ctxDone>>
      /\ Conns(tcp) /\ "dc" \in Ends /\ Peer["dc"] = "ds" /\ CopyInv(relayC) /\ relayC \in SR!RelayType
  BY PathFacts DEF DialLocal, IInv, HelloInv, RelayInv
<1>2. tcp["lc"] = T!NoConn /\ tcp["service"] = T!NoConn
  BY <1>1, PathFacts DEF IInv, ConnInv
<1>3. \/ ~T!Live(tcp, "dc") /\ tcp' = tcp
      \/ T!Live(tcp, "dc") /\ Ended(tcp, tcp', "dc", "ds")
  BY <1>1, ClosedFields
<1>4. U1' = U1 /\ U3' = U3 /\ U5' = U5
  BY <1>1 DEF U1, U3, U5, FromUser
<1>5. UpLess
  <2>1. Decays(tcp, tcp')
    BY <1>1, ClosedDecays
  <2>2. U3' <= U3 /\ U5' <= U5
    <3>1. U3 \in Nat /\ U5 \in Nat
      BY PathFacts DEF Sizes
    <3> QED  BY <1>4, <3>1
  <2> QED  BY <2>1, <2>2, PathFacts, DecaysLess
<1>6. Kept' => Kept
  <2>1. tcp'["user"] = tcp["user"] /\ (tcp["ds"].rst => tcp'["ds"].rst)
    BY <1>3, PathFacts DEF Ended
  <2> QED  BY <1>1, <2>1 DEF Kept
<1>7. ASSUME PathGood, U4' = U4 PROVE PathGood'
  <2>1. ~Drained
    BY <1>1 DEF Drained
  <2>2. ~Ending(relayS) /\ ~Ending(relayC)
    BY <1>7, <2>1 DEF PathGood, ServerGood, ClientGood
  <2>3. T!Live(tcp, "dc")
    <3>1. tcp["dc"].st # "none"
      <4>1. tcp["ds"].st # "none"
        BY <1>1 DEF IInv, ConnInv
      <4> QED  BY <4>1, PathFacts, EndFacts
    <3>2. tcp["dc"].st # "closed"
      BY <1>7, <2>1 DEF PathGood, DcGood, Shut
    <3> QED  BY <1>1, <3>1, <3>2, EndFacts DEF T!Live
  <2>4. tcp["dc"].buf = <<>>
    <3>1. tcp'["dc"].buf = <<>>
      BY <1>3, <2>3 DEF Ended
    <3>2. Len(tcp["dc"].buf) = 0
      BY <1>7, <3>1, OneUnit DEF U4
    <3> QED  BY <3>2, PathFacts DEF Sizes, Sized
  <2>5. Quit(tcp, tcp', "dc", "ds")
    BY <1>1, <2>3, <2>4, QuitEffect
  <2>6. /\ tcp'["us"] = tcp["us"] /\ tcp'["user"] = tcp["user"] /\ tcp'["lc"] = tcp["lc"]
        /\ tcp'["service"] = tcp["service"]
        /\ tcp'["ds"].st = tcp["ds"].st /\ tcp'["ds"].buf = tcp["ds"].buf
        /\ tcp'["ds"].rst = tcp["ds"].rst /\ tcp'["ds"].late = tcp["ds"].late
        /\ tcp'["dc"].st = "closed" /\ ~tcp'["dc"].eof /\ ~tcp'["dc"].rst /\ ~tcp'["dc"].late
    BY <2>5, PathFacts DEF Quit
  <2>7. relayC.x["ab"] = <<>>
    BY <1>1, StartedSame
  <2>8. Drained' /\ Shut(tcp', "dc")
    BY <1>1, <1>2, <2>6, <2>7 DEF Drained, Shut, T!NoConn
  <2>9. UsGood' /\ UserGood'
    BY <1>1, <1>7, <2>6 DEF PathGood, UsGood, UserGood, Shut
  <2>10. DownGood'
    <3>1. UNCHANGED <<D1, D2, D3, D4, D5, D6>>
      BY <1>1, <2>6 DEF D1, D2, D3, D4, D5, D6, DsData
    <3> QED  BY <1>1, <1>7, <3>1 DEF PathGood, DownGood, DownTotal
  <2>11. ServerGood' /\ DsGood'
    BY <1>1, <1>7, <2>2, <2>6, <2>8 DEF PathGood, ServerGood, DsGood
  <2>12. DcGood' /\ ClientGood'
    BY <1>1, <2>2, <2>6, <2>8 DEF DcGood, ClientGood
  <2>13. LcGood'
    BY <1>1, <1>7, <2>6 DEF PathGood, LcGood, Shut
  <2> QED  BY <2>9, <2>10, <2>11, <2>12, <2>13 DEF PathGood
<1> QED  BY <1>1, <1>4, <1>5, <1>6, <1>7, LessStep

\* After the service has ended.
LEMMA ServiceEndGood ==
    ASSUME PathGood, Shut(tcp', "service"),
           /\ tcp'["lc"].st = tcp["lc"].st /\ tcp'["lc"].buf = tcp["lc"].buf
           /\ tcp'["lc"].rst = tcp["lc"].rst /\ tcp'["lc"].late = tcp["lc"].late,
           \A x \in Ends : x \notin {"service", "lc"} => tcp'[x] = tcp[x],
           UNCHANGED <<app, peeked, dh, ch, relayS, relayC>>
    PROVE  PathGood'
<1>1. /\ tcp'["us"] = tcp["us"] /\ tcp'["user"] = tcp["user"] /\ tcp'["ds"] = tcp["ds"]
      /\ tcp'["dc"] = tcp["dc"]
  BY DEF Ends
<1>2. Drained => Drained'
  BY DEF Drained, Shut
<1>3. /\ Shut(tcp', "us") <=> Shut(tcp, "us")
      /\ Shut(tcp', "dc") <=> Shut(tcp, "dc")
  BY <1>1 DEF Shut
<1>4. UsGood' /\ UserGood'
  BY <1>1, <1>3 DEF PathGood, UsGood, UserGood
<1>5. DownGood'
  <2>1. UNCHANGED <<D1, D2, D3, D4, D5, D6>>
    BY <1>1 DEF D1, D2, D3, D4, D5, D6, DsData
  <2> QED  BY <2>1 DEF PathGood, DownGood, DownTotal
<1>6. ServerGood' /\ DsGood'
  BY <1>1, <1>2, <1>3 DEF PathGood, ServerGood, DsGood
<1>7. DcGood' /\ ClientGood'
  BY <1>1, <1>2, <1>3 DEF PathGood, DcGood, ClientGood
<1>8. LcGood'
  BY DEF PathGood, LcGood
<1> QED  BY <1>4, <1>5, <1>6, <1>7, <1>8 DEF PathGood

\* The service half-closes or closes its connection.
LEMMA ServiceEndLoss ==
    ASSUME IInv, IInv', LossInv, AppEnds("service")
    PROVE  LossInv'
<1>1. /\ T!Live(tcp, "service") /\ Conns(tcp) /\ "service" \in Ends /\ "lc" \in Ends /\ Peer["service"] = "lc"
      /\ UNCHANGED <<app, kind, sv, peeked, pend, dh, ch, relayS, relayC, ctxDone>>
  BY PathFacts DEF AppEnds
<1>2. U1' = U1 /\ U3' = U3 /\ U5' = U5
  BY <1>1 DEF U1, U3, U5, FromUser
<1>3. ASSUME tcp'["user"] = tcp["user"], tcp'["ds"] = tcp["ds"] PROVE Kept' => Kept
  BY <1>1, <1>3 DEF Kept
<1>4. CASE tcp' = T!ShutWrite(tcp, "service")
  <2>1. ShutEffect(tcp, tcp', "service", "lc")
    BY <1>1, <1>4, ShutEffects
  <2>2. \/ tcp' = tcp
        \/ HalfClosed(tcp, tcp', "service", "lc")
    BY <1>1, <1>4, ShutWriteFields
  <2>3. \A x \in Ends : x \notin {"service", "lc"} => tcp'[x] = tcp[x]
    BY <2>2 DEF HalfClosed
  <2>4. /\ tcp'["lc"].st = tcp["lc"].st /\ tcp'["lc"].buf = tcp["lc"].buf
        /\ tcp'["lc"].rst = tcp["lc"].rst /\ tcp'["lc"].late = tcp["lc"].late
        /\ tcp'["service"].buf = tcp["service"].buf /\ Shut(tcp', "service")
    BY <1>1, <2>1 DEF ShutEffect, T!Live
  <2>5. tcp'["user"] = tcp["user"] /\ tcp'["ds"] = tcp["ds"] /\ tcp'["dc"] = tcp["dc"] /\ tcp'["us"] = tcp["us"]
    BY <2>3, PathFacts
  <2>6. U2' = U2 /\ U4' = U4 /\ U6' = U6
    BY <2>4, <2>5 DEF U2, U4, U6
  <2>7. UpLess
    BY <1>2, <2>6, PlacesLess
  <2>8. Kept' => Kept
    BY <1>3, <2>5
  <2>9. PathGood => PathGood'
    BY <1>1, <2>3, <2>4, ServiceEndGood
  <2> QED  BY <1>1, <1>2, <2>7, <2>8, <2>9, LessStep
<1>5. CASE tcp' = T!Closed(tcp, "service")
  <2>1. Ended(tcp, tcp', "service", "lc")
    BY <1>1, <1>5, ClosedFields
  <2>2. tcp'["user"] = tcp["user"] /\ tcp'["ds"] = tcp["ds"]
    BY <2>1, PathFacts DEF Ended
  <2>3. UpLess
    <3>1. Decays(tcp, tcp')
      BY <1>1, <1>5, ClosedDecays
    <3>2. U3' <= U3 /\ U5' <= U5
      <4>1. U3 \in Nat /\ U5 \in Nat
        BY PathFacts DEF Sizes
      <4> QED  BY <1>2, <4>1
    <3> QED  BY <3>1, <3>2, PathFacts, DecaysLess
  <2>4. Kept' => Kept
    BY <1>3, <2>2
  <2>5. ASSUME PathGood, U2' = U2 PROVE PathGood'
    <3>1. tcp["service"].buf = <<>>
      <4>1. tcp'["service"].buf = <<>>
        BY <2>1 DEF Ended
      <4>2. Len(tcp["service"].buf) = 0
        BY <2>5, <4>1, OneUnit DEF U2
      <4> QED  BY <4>2, PathFacts DEF Sizes, Sized
    <3>2. Quit(tcp, tcp', "service", "lc")
      BY <1>1, <1>5, <3>1, QuitEffect
    <3>3. /\ tcp'["lc"].st = tcp["lc"].st /\ tcp'["lc"].buf = tcp["lc"].buf
          /\ tcp'["lc"].rst = tcp["lc"].rst /\ tcp'["lc"].late = tcp["lc"].late
          /\ Shut(tcp', "service")
          /\ \A x \in Ends : x \notin {"service", "lc"} => tcp'[x] = tcp[x]
      BY <3>2 DEF Quit, Shut
    <3> QED  BY <1>1, <2>5, <3>3, ServiceEndGood
  <2> QED  BY <1>1, <1>2, <2>3, <2>4, <2>5, LessStep
<1> QED  BY <1>4, <1>5 DEF AppEnds

-----------------------------------------------------------------------------
(* New connections.                                                        *)

\* Ends e and p are new, and nothing is on its way.
Opened(t, u, e, p) ==
    /\ t[e] = T!NoConn /\ t[p] = T!NoConn
    /\ u[e].st = "open" /\ ~u[e].eof /\ ~u[e].rst /\ ~u[e].late
    /\ u[p].st = "open" /\ ~u[p].eof /\ ~u[p].rst /\ ~u[p].late
    /\ \A x \in Ends : x \notin {e, p} => u[x] = t[x]
    /\ \A x \in Ends : u[x].buf = t[x].buf

\* A dial or an accept has that effect.
LEMMA OpenedEffect ==
    ASSUME NEW t, Conns(t), NEW e \in Ends, t[e].st = "none"
    PROVE  Opened(t, T!Connected(t, e), e, Peer[e])
<1>1. t[e] = T!NoConn /\ t[Peer[e]] = T!NoConn
  BY PeerFacts DEF Conns
<1> QED  BY <1>1, ConnectedFields DEF Opened

\* A user is accepted.
LEMMA AcceptLoss ==
    ASSUME IInv, IInv', LossInv, Accept
    PROVE  LossInv'
<1>1. /\ sv = "idle" /\ tcp' = T!Connected(tcp, "us") /\ "us" \in Ends /\ Peer["us"] = "user" /\ Conns(tcp)
      /\ UNCHANGED <<app, kind, peeked, pend, dh, ch, relayS, relayC, ctxDone>>
  BY PathFacts DEF Accept
<1>2. tcp["us"].st = "none"
  BY <1>1 DEF IInv, ConnInv
<1>3. Opened(tcp, tcp', "us", "user")
  BY <1>1, <1>2, OpenedEffect
<1>4. /\ tcp'["ds"] = tcp["ds"] /\ tcp'["dc"] = tcp["dc"] /\ tcp'["lc"] = tcp["lc"]
      /\ tcp'["service"] = tcp["service"] /\ tcp["user"].st = "none"
      /\ \A x \in Ends : tcp'[x].buf = tcp[x].buf
  BY <1>3, PathFacts DEF Opened, T!NoConn
<1>5. UNCHANGED <<U1, U2, U3, U4, U5, U6>> /\ UNCHANGED <<D1, D2, D3, D4, D5, D6>>
  BY <1>1, <1>4, PathFacts DEF U1, U2, U3, U4, U5, U6, D1, D2, D3, D4, D5, D6, FromUser, DsData
<1>6. UpLess
  BY <1>5, PlacesLess
<1>7. Kept' => Kept
  BY <1>1, <1>4 DEF Kept
<1>8. ASSUME PathGood PROVE PathGood'
  <2>1. Drained => Drained'
    BY <1>1, <1>4 DEF Drained
  <2>2. UsGood' /\ UserGood'
    BY <1>3 DEF UsGood, UserGood, Opened, Shut
  <2>3. DownGood'
    BY <1>1, <1>5, <1>8 DEF PathGood, DownGood, DownTotal
  <2>4. ServerGood' /\ DsGood'
    BY <1>1, <1>4, <1>8, <2>1 DEF PathGood, ServerGood, DsGood, Shut
  <2>5. DcGood' /\ ClientGood' /\ LcGood'
    BY <1>1, <1>4, <1>8, <2>1 DEF PathGood, DcGood, ClientGood, LcGood, Shut
  <2> QED  BY <2>2, <2>3, <2>4, <2>5 DEF PathGood
<1> QED  BY <1>1, <1>5, <1>6, <1>7, <1>8, LessStep

\* The client connects to the server.
LEMMA DialServerLoss ==
    ASSUME IInv, IInv', LossInv, DialServer(TRUE)
    PROVE  LossInv'
<1>1. /\ ch = "dial" /\ ch' = "hello" /\ dh' = "hello" /\ tcp' = T!Connected(tcp, "dc")
      /\ "dc" \in Ends /\ Peer["dc"] = "ds" /\ Conns(tcp) /\ dh = "none"
      /\ UNCHANGED <<app, kind, sv, peeked, pend, relayS, relayC, ctxDone>>
  BY PathFacts DEF DialServer, IInv, HelloInv
<1>2. tcp["dc"].st = "none"
  <2>1. tcp["ds"].st = "none"
    BY <1>1 DEF IInv, ConnInv
  <2> QED  BY <2>1, PathFacts, EndFacts
<1>3. Opened(tcp, tcp', "dc", "ds")
  BY <1>1, <1>2, OpenedEffect
<1>4. /\ tcp'["us"] = tcp["us"] /\ tcp'["user"] = tcp["user"] /\ tcp'["lc"] = tcp["lc"]
      /\ tcp'["service"] = tcp["service"] /\ ~tcp["ds"].rst /\ tcp["ds"].buf = <<>>
      /\ \A x \in Ends : tcp'[x].buf = tcp[x].buf
  BY <1>3, PathFacts DEF Opened, T!NoConn
<1>5. UNCHANGED <<U1, U2, U3, U4, U5, U6>> /\ UNCHANGED <<D1, D2, D3, D4, D5, D6>>
  <2>1. DsData' = DsData
    BY <1>1, <1>4, PathFacts DEF DsData
  <2> QED  BY <1>1, <1>4, <2>1, PathFacts DEF U1, U2, U3, U4, U5, U6, D1, D2, D3, D4, D5, D6, FromUser
<1>6. UpLess
  BY <1>5, PlacesLess
<1>7. Kept' => Kept
  BY <1>1, <1>4 DEF Kept
<1>8. ASSUME PathGood PROVE PathGood'
  <2>1. ~Drained
    BY <1>1 DEF Drained
  <2>2. ~Ending(relayS) /\ ~Ending(relayC)
    BY <1>8, <2>1 DEF PathGood, ServerGood, ClientGood
  <2>3. UsGood' /\ UserGood'
    BY <1>1, <1>4, <1>8 DEF PathGood, UsGood, UserGood, Shut
  <2>4. DownGood'
    BY <1>1, <1>5, <1>8 DEF PathGood, DownGood, DownTotal
  <2>5. ServerGood' /\ DsGood'
    BY <1>1, <1>3, <2>2 DEF ServerGood, DsGood, Opened
  <2>6. DcGood' /\ ClientGood'
    BY <1>1, <1>3, <2>2 DEF DcGood, ClientGood, Opened, Shut
  <2>7. LcGood'
    BY <1>1, <1>4, <1>8 DEF PathGood, LcGood, Shut
  <2> QED  BY <2>3, <2>4, <2>5, <2>6, <2>7 DEF PathGood
<1> QED  BY <1>1, <1>5, <1>6, <1>7, <1>8, LessStep

\* The client connects to the service and starts its relay.
LEMMA DialLocalLoss ==
    ASSUME IInv, IInv', LossInv, DialLocal(TRUE)
    PROVE  LossInv'
<1>1. /\ ch = "local" /\ ch' = "relay" /\ tcp' = T!Connected(tcp, "lc") /\ relayC' = CR!Started
      /\ "lc" \in Ends /\ Peer["lc"] = "service" /\ Conns(tcp) /\ relayC.st = "off"
      /\ CopyInv(relayC) /\ relayC \in SR!RelayType
      /\ UNCHANGED <<app, kind, sv, peeked, pend, dh, relayS, ctxDone>>
  BY PathFacts DEF DialLocal, IInv, RelayInv
<1>2. tcp["lc"].st = "none"
  BY <1>1 DEF IInv, ConnInv
<1>3. Opened(tcp, tcp', "lc", "service")
  BY <1>1, <1>2, OpenedEffect
<1>4. /\ tcp'["us"] = tcp["us"] /\ tcp'["user"] = tcp["user"] /\ tcp'["ds"] = tcp["ds"]
      /\ tcp'["dc"] = tcp["dc"] /\ \A x \in Ends : tcp'[x].buf = tcp[x].buf
  BY <1>3, PathFacts DEF Opened
<1>5. /\ relayC'.x["ab"] = relayC.x["ab"] /\ relayC'.x["ba"] = relayC.x["ba"]
      /\ ~Ending(relayC')
  BY <1>1, StartedSame
<1>6. UNCHANGED <<U1, U2, U3, U4, U5, U6>> /\ UNCHANGED <<D1, D2, D3, D4, D5, D6>>
  BY <1>1, <1>4, <1>5, PathFacts DEF U1, U2, U3, U4, U5, U6, D1, D2, D3, D4, D5, D6, FromUser, DsData
<1>7. UpLess
  BY <1>6, PlacesLess
<1>8. Kept' => Kept
  BY <1>1, <1>4 DEF Kept
<1>9. ASSUME PathGood PROVE PathGood'
  <2>1. ~Drained
    BY <1>1 DEF Drained
  <2>2. ~Ending(relayS) /\ ~Ending(relayC) /\ ~Shut(tcp, "dc")
    BY <1>9, <2>1 DEF PathGood, ServerGood, ClientGood, DcGood
  <2>3. UsGood' /\ UserGood'
    BY <1>1, <1>4, <1>9 DEF PathGood, UsGood, UserGood, Shut
  <2>4. DownGood'
    BY <1>1, <1>6, <1>9 DEF PathGood, DownGood, DownTotal
  <2>5. ServerGood' /\ DsGood'
    BY <1>1, <1>4, <1>9, <2>2 DEF PathGood, ServerGood, DsGood, Shut
  <2>6. DcGood'
    BY <1>1, <1>4, <1>9, <2>2 DEF PathGood, DcGood, Shut
  <2>7. ClientGood'
    BY <1>5 DEF ClientGood
  <2>8. LcGood'
    BY <1>3 DEF LcGood, Opened
  <2> QED  BY <2>3, <2>4, <2>5, <2>6, <2>7, <2>8 DEF PathGood
<1> QED  BY <1>1, <1>6, <1>7, <1>8, <1>9, LessStep

-----------------------------------------------------------------------------
(* Every step keeps LossInv.                                               *)

\* A relay of the server that has returned holds nothing.
ReturnedEmpty == relayS.st = "returned" => relayS.x["ba"] = <<>>

\* It stays so.
LEMMA ReturnedStays ==
    ASSUME IInv, ReturnedEmpty, [Next]_vars
    PROVE  ReturnedEmpty'
<1>1. CASE relayS' = relayS
  BY <1>1 DEF ReturnedEmpty
<1>2. CASE relayS' = SR!Started
  BY <1>2 DEF ReturnedEmpty, SR!Started, SR!NoRelay
<1>3. CASE SR!RelayStep
  <2>1. relayS \in SR!RelayType
    BY DEF IInv, TypeOK
  <2>2. CASE SR!Return
    BY <2>2 DEF ReturnedEmpty, SR!Return, SR!NoRelay, SR!Dirs
  <2>3. CASE SR!Watch
    BY <2>1, <2>3 DEF ReturnedEmpty, SR!Watch, SR!RelayType
  <2>4. ASSUME NEW d \in SR!Dirs, SR!CopyRead(d) \/ SR!CopyWrite(d) \/ SR!CopyEnds(d)
        PROVE  ReturnedEmpty'
    <3>1. relayS.st = "on" /\ relayS'.st = relayS.st
      BY <2>1, <2>4 DEF SR!CopyRead, SR!CopyWrite, SR!CopyEnds, SR!RelayType
    <3> QED  BY <3>1 DEF ReturnedEmpty
  <2> QED  BY <1>3, <2>2, <2>3, <2>4 DEF SR!RelayStep
<1>4. relayS' = relayS \/ relayS' = SR!Started \/ SR!RelayStep
  <2>1. CASE ServerStep
    BY <2>1 DEF ServerStep, Peek, PeekFails, SendOpen, OpenSent, TakeData, GiveUpWaiting, Replay,
       ReplayFails, ReadHello, HelloFails, RelayOnServer, StartRelay
  <2>2. CASE ClientStep
    BY <2>2 DEF ClientStep, CtrlRead, WriteHello, RelayOnClient, DialServer, DialLocal
  <2>3. CASE WriterStep \/ Ping \/ CtrlBreaks \/ ContextEnds \/ UNCHANGED vars
    BY <2>3 DEF WriterStep, FrameStep, PingSent, Ping, CtrlBreaks, ContextEnds, vars, pathVars
  <2>4. CASE Accept \/ DataBreaks
    BY <2>4 DEF Accept, DataBreaks
  <2>5. CASE \E e \in Apps : AppSend(e) \/ AppReceive(e) \/ AppEnds(e)
    BY <2>5 DEF AppSend, AppReceive, AppEnds
  <2> QED  BY <2>1, <2>2, <2>3, <2>4, <2>5 DEF Next
<1> QED  BY <1>1, <1>2, <1>3, <1>4

\* In the initial state nothing has been sent.
LEMMA InitLoss == Init => LossInv /\ ReturnedEmpty
<1> SUFFICES ASSUME Init PROVE LossInv /\ ReturnedEmpty
  OBVIOUS
<1>1. /\ tcp = [e \in Ends |-> T!NoConn] /\ app = [e \in Apps |-> [sent |-> 0, rcvd |-> <<>>]]
      /\ relayS = SR!NoRelay /\ relayC = CR!NoRelay /\ peeked = <<>> /\ ch = "idle" /\ sv = "idle"
  BY DEF Init
<1>2. /\ \A e \in Ends : /\ tcp[e].st = "none" /\ tcp[e].buf = <<>> /\ ~tcp[e].eof
                         /\ ~tcp[e].rst /\ ~tcp[e].late /\ ~Shut(tcp, e)
  BY <1>1 DEF T!NoConn, Shut
<1>3. /\ \A e \in Apps : app[e].sent = 0 /\ app[e].rcvd = <<>>
  BY <1>1
<1>4. /\ relayS.st = "off" /\ ~relayS.cancelled /\ ~relayS.watched
      /\ \A d \in {"ab", "ba"} : relayS.pc[d] = "read" /\ relayS.x[d] = <<>>
  BY <1>1 DEF SR!NoRelay, SR!Dirs
<1>5. /\ relayC.st = "off" /\ ~relayC.cancelled /\ ~relayC.watched
      /\ \A d \in {"ab", "ba"} : relayC.pc[d] = "read" /\ relayC.x[d] = <<>>
  BY <1>1 DEF CR!NoRelay, CR!Dirs
<1>6. ~Ending(relayS) /\ ~Ending(relayC)
  BY <1>4, <1>5 DEF Ending
<1>7. /\ "user" \in Ends /\ "us" \in Ends /\ "ds" \in Ends /\ "dc" \in Ends /\ "lc" \in Ends
      /\ "service" \in Ends /\ "user" \in Apps /\ "service" \in Apps
  BY DEF Ends, Apps
<1>8. FromUser = <<>> /\ DsData = <<>>
  BY <1>1, <1>2, <1>4, <1>7 DEF FromUser, DsData
<1>9. /\ U1 = 0 /\ U2 = 0 /\ U3 = 0 /\ U4 = 0 /\ U5 = 0 /\ U6 = 0
      /\ D1 = 0 /\ D2 = 0 /\ D3 = 0 /\ D4 = 0 /\ D5 = 0 /\ D6 = 0
  BY <1>2, <1>3, <1>4, <1>5, <1>7, <1>8, OneUnit DEF U1, U2, U3, U4, U5, U6, D1, D2, D3, D4, D5, D6
<1>10. UpTotal = 0 /\ DownTotal = 0
  BY <1>9 DEF UpTotal, DownTotal
<1>11. UpBound /\ DownGood
  BY <1>3, <1>7, <1>10 DEF UpBound, DownGood
<1>12. UsGood /\ UserGood /\ ServerGood /\ DsGood
  BY <1>2, <1>6, <1>7 DEF UsGood, UserGood, ServerGood, DsGood
<1>13. DcGood /\ ClientGood /\ LcGood
  BY <1>2, <1>6, <1>7 DEF DcGood, ClientGood, LcGood
<1>14. ReturnedEmpty
  BY <1>4 DEF ReturnedEmpty
<1> QED  BY <1>11, <1>12, <1>13, <1>14 DEF LossInv, PathGood

\* One case for every action.
LEMMA StepLoss ==
    ASSUME IInv, IInv', LossInv, [Next]_vars
    PROVE  LossInv'
<1>1. CASE ServerStep
  <2>1. CASE TakeData
    BY <2>1, TakeDataLoss, IdleSteps
  <2>2. CASE OpenSent
    <3>1. sv' = "wait" \/ sv' = "done"
      BY <2>2 DEF OpenSent
    <3> QED  BY <2>2, <3>1, IdleSteps, BadSteps
  <2>3. CASE RelayOnServer
    <3>1. UNCHANGED <<frameVars, app, kind, sv, peeked, pend, dh, ch, relayC, ctxDone>>
      BY <2>3 DEF RelayOnServer
    <3>2. \/ \E d \in {"ab", "ba"} : SR!CopyRead(d) \/ SR!CopyWrite(d) \/ SR!CopyEnds(d)
          \/ SR!Watch \/ SR!Return
      BY <2>3 DEF RelayOnServer, SR!RelayStep, SR!Dirs
    <3> QED  BY <3>1, <3>2, ServerReadLoss, ServerWriteLoss, ServerEndsLoss, ServerWatchLoss, ServerReturnLoss
  <2>4. CASE Peek \/ Replay \/ ReadHello
    BY <2>4, PeekLoss, ReplayLoss, ReadHelloLoss
  <2>5. CASE SendOpen
    BY <2>5, IdleSteps
  <2>6. CASE PeekFails \/ GiveUpWaiting \/ ReplayFails \/ HelloFails
    BY <2>6, BadSteps
  <2> QED  BY <1>1, <2>1, <2>2, <2>3, <2>4, <2>5, <2>6 DEF ServerStep
<1>2. CASE ClientStep
  <2>1. CASE RelayOnClient
    <3>1. UNCHANGED <<frameVars, app, kind, sv, peeked, pend, dh, ch, relayS, ctxDone>>
      BY <2>1 DEF RelayOnClient
    <3>2. \/ \E d \in {"ab", "ba"} : CR!CopyRead(d) \/ CR!CopyWrite(d) \/ CR!CopyEnds(d)
          \/ CR!Watch \/ CR!Return
      BY <2>1 DEF RelayOnClient, CR!RelayStep, CR!Dirs
    <3> QED  BY <3>1, <3>2, ClientReadLoss, ClientWriteLoss, ClientEndsLoss, ClientWatchLoss, ClientReturnLoss
  <2>2. CASE CtrlRead
    BY <2>2, IdleSteps
  <2>3. CASE WriteHello
    BY <2>3, WriteHelloLoss
  <2>4. CASE DialServer(TRUE) \/ DialLocal(TRUE)
    BY <2>4, DialServerLoss, DialLocalLoss
  <2>5. CASE DialServer(FALSE)
    BY <2>5, IdleSteps
  <2>6. CASE DialLocal(FALSE)
    BY <2>6, DialLocalFailsLoss
  <2>7. \A ok \in BOOLEAN : ok = TRUE \/ ok = FALSE
    OBVIOUS
  <2> QED  BY <1>2, <2>1, <2>2, <2>3, <2>4, <2>5, <2>6, <2>7 DEF ClientStep
<1>3. CASE WriterStep \/ Ping \/ CtrlBreaks \/ UNCHANGED vars
  BY <1>3, IdleSteps DEF WriterStep
<1>4. CASE Accept \/ DataBreaks \/ ContextEnds
  BY <1>4, AcceptLoss, BadSteps
<1>5. ASSUME NEW e \in Apps, AppSend(e) \/ AppReceive(e) \/ AppEnds(e) PROVE LossInv'
  <2>1. e = "user" \/ e = "service"
    BY DEF Apps
  <2>2. CASE AppReceive(e)
    BY <2>2, AppReceiveLoss
  <2>3. CASE AppSend(e)
    BY <2>1, <2>3, UserSendLoss, ServiceSendLoss
  <2>4. CASE AppEnds(e)
    <3>1. CASE e = "user"
      BY <2>4, <3>1, BadSteps
    <3>2. CASE e = "service"
      BY <2>4, <3>2, ServiceEndLoss
    <3> QED  BY <2>1, <3>1, <3>2
  <2> QED  BY <1>5, <2>2, <2>3, <2>4
<1> QED  BY <1>1, <1>2, <1>3, <1>4, <1>5 DEF Next

\* Two runs one after the other are all of what was sent.
LEMMA AllOfIt ==
    ASSUME NEW e \in Apps, NEW r \in Seq(Data), NEW q \in Seq(Data), app[e].sent \in Nat,
           \A k \in 1..app[e].sent : Payload(e, k) \in Data,
           Run(r, 0, e), Run(q, Len(r), e), Len(r) + Len(q) = app[e].sent
    PROVE  r \o q = SentBy(e)
<1> DEFINE n == app[e].sent
           s == SentBy(e)
           w == r \o q
<1>1. s \in Seq(Data) /\ Len(s) = n /\ \A k \in 1..n : s[k] = Payload(e, k)
  <2>1. s = [k \in 1..n |-> Payload(e, k)]
    BY DEF SentBy
  <2>2. n \in Nat /\ \A k \in 1..n : Payload(e, k) \in Data
    OBVIOUS
  <2> HIDE DEF s, n
  <2>3. s \in Seq(Data)
    BY <2>1, <2>2, IsASeq
  <2> QED  BY <2>1, <2>2, <2>3
<1>2. w \in Seq(Data) /\ Len(w) = Len(r) + Len(q) /\ Len(r) \in Nat /\ Len(q) \in Nat
  OBVIOUS
<1>3. ASSUME NEW k \in 1..Len(w) PROVE w[k] = s[k]
  <2>1. k \in 1..n
    BY <1>2
  <2>2. CASE k <= Len(r)
    <3>1. k \in 1..Len(r) /\ 0 + k = k /\ w[k] = r[k]
      BY <1>2, <2>2
    <3> QED  BY <1>1, <2>1, <3>1 DEF Run
  <2>3. CASE ~(k <= Len(r))
    <3>1. k - Len(r) \in 1..Len(q) /\ Len(r) + (k - Len(r)) = k /\ w[k] = q[k - Len(r)]
      BY <1>2, <2>3
    <3>2. q[k - Len(r)] = Payload(e, Len(r) + (k - Len(r)))
      BY <3>1 DEF Run
    <3> QED  BY <1>1, <2>1, <3>1, <3>2
  <2> QED  BY <2>2, <2>3
<1> HIDE DEF s, w
<1>4. w = s
  BY <1>1, <1>2, <1>3, SeqEqual
<1> QED  BY <1>4 DEF s, w

\* When the first place has all of it the others have nothing, and the other way round.
LEMMA RestIsEmpty ==
    ASSUME NEW a \in Nat, NEW b \in Nat, NEW c \in Nat, NEW d \in Nat, NEW e \in Nat, NEW f \in Nat,
           NEW s \in Nat
    PROVE  /\ a = s /\ a + b + c + d + e + f <= s => a + b + c + d + e + f = s
           /\ a + b + c + d + e + f = s /\ c = 0 /\ d = 0 /\ e = 0 /\ f = 0 => a + b = s
OBVIOUS

\* Whatever the sizes: when the service ends the conversation and nothing of the
\* user's is left unread, the early cancel of the relays cuts nothing off.
THEOREM ServiceEndIsClean == Spec => []ServiceEndLosesNothing
<1>1. IInv /\ LossInv /\ ReturnedEmpty => ServiceEndLosesNothing
  <2> SUFFICES ASSUME IInv, LossInv, ReturnedEmpty, relayS.st = "returned", tcp["user"].st = "open",
                      ~ctxDone, app["service"].rcvd = SentBy("user")
               PROVE  app["user"].rcvd \o tcp["user"].buf = SentBy("service")
    BY DEF ServiceEndLosesNothing
  <2>1. sv = "relay" /\ pend = "given" /\ dh = "done" /\ relayS.x["ba"] = <<>>
    BY DEF IInv, RelayInv, HelloInv, ReturnedEmpty
  <2>2. TypeOK /\ SentInv /\ DownFlow /\ FlowTypes /\ Sizes
    BY FlowTyped, SizesOK DEF IInv
  <2>3. U1 = app["user"].sent
    <3>1. app["user"].sent \in Nat
      BY <2>2 DEF Sizes
    <3>2. SentBy("user") = [k \in 1..app["user"].sent |-> Payload("user", k)]
      BY DEF SentBy
    <3> QED  BY <3>1, <3>2 DEF U1
  <2>4. PathGood
    <3>1. Kept
      BY <2>1 DEF Kept
    <3>2. UpTotal = app["user"].sent
      <4>1. U1 + U2 + U3 + U4 + U5 + U6 <= app["user"].sent
        BY DEF LossInv, UpBound, UpTotal
      <4>2. /\ U1 \in Nat /\ U2 \in Nat /\ U3 \in Nat /\ U4 \in Nat /\ U5 \in Nat /\ U6 \in Nat
            /\ app["user"].sent \in Nat
        BY <2>2 DEF Sizes
      <4> QED  BY <2>3, <4>1, <4>2, RestIsEmpty DEF UpTotal
    <3> QED  BY <3>1, <3>2 DEF LossInv, Good
  <2>5. Drained /\ tcp["ds"].buf = <<>>
    BY <2>4 DEF PathGood, ServerGood, Ending
  <2>6. D3 = 0 /\ D4 = 0 /\ D5 = 0 /\ D6 = 0
    <3>1. DsData = <<>>
      BY <2>1, <2>5 DEF DsData
    <3> QED  BY <2>1, <2>5, <3>1, OneUnit DEF D3, D4, D5, D6, Drained
  <2>7. D1 + D2 = app["service"].sent
    <3>1. D1 + D2 + D3 + D4 + D5 + D6 = app["service"].sent
      BY <2>4 DEF PathGood, DownGood, DownTotal
    <3>2. /\ D1 \in Nat /\ D2 \in Nat /\ D3 \in Nat /\ D4 \in Nat /\ D5 \in Nat /\ D6 \in Nat
          /\ app["service"].sent \in Nat
      BY <2>2 DEF Sizes
    <3> QED  BY <2>6, <3>1, <3>2, RestIsEmpty
  <2>8. Run(app["user"].rcvd, 0, "service") /\ Run(tcp["user"].buf, Len(app["user"].rcvd), "service")
    <3>1. Alive(tcp, "user")
      BY <2>4 DEF PathGood, UserGood, Alive
    <3>2. DownIntact(tcp, relayC, relayS) >= 1
      BY <3>1 DEF DownIntact
    <3> QED  BY <2>2, <3>2 DEF DownFlow, Flow
  <2>9. \A k \in 1..app["service"].sent : Payload("service", k) \in Data
    <3>1. \A k \in 1..app["service"].sent : k \in 1..MaxDown
      BY <2>2, PathAssumption DEF SentInv, Sizes
    <3> QED  BY <3>1 DEF Data
  <2>10. /\ "service" \in Apps /\ app["user"].rcvd \in Seq(Data) /\ tcp["user"].buf \in Seq(Data)
         /\ app["service"].sent \in Nat
    BY <2>2 DEF FlowTypes, FlowArgs, Apps
  <2> QED  BY <2>7, <2>8, <2>9, <2>10, AllOfIt DEF D1, D2
<1>2. Init => IInv /\ LossInv /\ ReturnedEmpty
  BY InitOK, InitLoss
<1>3. IInv /\ LossInv /\ ReturnedEmpty /\ [Next]_vars => (IInv /\ LossInv /\ ReturnedEmpty)'
  BY NextOK, StepLoss, ReturnedStays
<1> QED  BY <1>1, <1>2, <1>3, PTL DEF Spec

=============================================================================
