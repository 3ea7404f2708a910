------------------------ MODULE ControlSessionProofs ------------------------
(***************************************************************************)
(* Proofs, for every list of tunnels and any number of ticks and users,    *)
(* that the dialogue which sets the tunnels up stays in step, that the port*)
(* of a TCP tunnel the client counts as established is open, and that the  *)
(* heartbeat does not give up on a client early; and, for any number of    *)
(* runs and sessions of the Windows client, that no reconnect is lost and  *)
(* no run forgotten.                                                       *)
(***************************************************************************)
EXTENDS ControlSession, TrayClient, FiniteSetTheorems, SequenceTheorems, TLAPS

Message == [type : MsgTypes, tun : Tunnels \cup {0}, ok : BOOLEAN]

\* A ping in its write, and a tick the heartbeat has not taken.
Writing == IF hb = "ping" THEN 1 ELSE 0
Waiting == IF due THEN 1 ELSE 0

\* The counters of the heartbeat are bounded by the ticks, and unless a tick came
\* during the write of a ping every interval without a Pong has seen its ping.
HeartbeatInv ==
    /\ missed + Writing + Waiting <= events
    /\ age <= events
    /\ unanswered <= missed
    /\ hb \in {"on", "ping"} /\ ~stalled => age <= unanswered + Writing + Waiting
    /\ hb = "on" /\ unanswered = 0 => age <= Waiting

\* An end that has left has closed the connection and left nothing to be read.
GoneInv ==
    /\ sv = "gone" => ~up /\ toS = <<>>
    /\ cl = "gone" => ~up /\ toC = <<>>

\* Before the handshake is over the server has routed and answered nothing.
EarlyInv ==
    sv \in {"greet", "await"} =>
        /\ hb = "off" /\ age = 0
        /\ routed = {} /\ dataAddrs = {} /\ Given = {}

\* The client knows the tunnels before the next one, all of them in its loop.
NthInv ==
    /\ dataAddrs = 1..(nth - 1)
    /\ cl = "await" => nth \in Tunnels
    /\ InLoop => nth = Len(Cfg) + 1

\* Requests, answers and users name a tunnel.
TunnelsNamed ==
    /\ \A k \in Asked : toS[k].tun \in Tunnels
    /\ \A k \in DOMAIN toC : toC[k].type \in {"TunnelResp", "Open"} => toC[k].tun \in Tunnels

\* The port of a TCP tunnel that is confirmed, or about to be, is open.
IsOpen(i) == Cfg[i] = "tcp" => i \in routed
RoutedInv ==
    Serving /\ ~svCancelled =>
        /\ \A i \in dataAddrs : IsOpen(i)
        /\ \A k \in Given : toC[k].ok => IsOpen(toC[k].tun)
        /\ sv = "reply" /\ replyOk => IsOpen(replyTo)

\* There is at most one request, being worked on or answered.
AtMostOne ==
    /\ \A j, k \in Asked : j = k
    /\ \A j, k \in Given : j = k
    /\ Asked # {} => Given = {} /\ sv # "reply"
    /\ Given # {} => sv # "reply"

\* It is the request of the tunnel the client waits for, which is lost only with the
\* connection or to a cut; a client that does not wait has none.
DueInv ==
    /\ cl \notin {"await", "gone"} => Asked = {} /\ Given = {} /\ sv # "reply"
    /\ \A k \in Asked : toS[k].tun = nth
    /\ \A k \in Given : toC[k].tun = nth
    /\ sv = "reply" => replyTo = nth
    /\ cl = "await" /\ up /\ ~IsCut(toS) /\ ~IsCut(toC) => Asked # {} \/ Given # {} \/ sv = "reply"

\* The inductive invariant.
IInv ==
    /\ TypeOK
    /\ HeartbeatInv
    /\ GoneInv
    /\ EarlyInv
    /\ NthInv
    /\ TunnelsNamed
    /\ RoutedInv
    /\ AtMostOne
    /\ DueInv

-----------------------------------------------------------------------------
(* Messages around the dialogue.                                           *)

\* A message that neither asks for a tunnel nor answers, and names one if it is an Open.
Harmless(m) ==
    /\ m \in Message
    /\ m.type \notin {"RequestTunnel", "TunnelResp"}
    /\ m.type = "Open" => m.tun \in Tunnels

OfType(q, t) == {k \in DOMAIN q : q[k].type = t}

\* The queue r has no message that q had not, but harmless ones, and of type t none
\* a second time.
Quiet(q, r, t) ==
    /\ r \in Seq(Message)
    /\ \A k \in DOMAIN r : (\E j \in DOMAIN q : r[k] = q[j]) \/ Harmless(r[k])
    /\ (\A j, k \in OfType(q, t) : j = k) => (\A j, k \in OfType(r, t) : j = k)

\* The messages of type t in q, and a cut, are still there in r.
Survives(q, r, t) ==
    /\ OfType(q, t) # {} => OfType(r, t) # {}
    /\ IsCut(q) => IsCut(r)

\* Both queues have only chatted, and the dialogue goes on while the connection works.
Chat ==
    /\ Quiet(toS, toS', "RequestTunnel")
    /\ Quiet(toC, toC', "TunnelResp")
    /\ up' => /\ up
              /\ Survives(toS, toS', "RequestTunnel")
              /\ Survives(toC, toC', "TunnelResp")

\* A queue that is left alone.
LEMMA SameIsQuiet ==
    ASSUME NEW q \in Seq(Message), NEW t
    PROVE  Quiet(q, q, t) /\ Survives(q, q, t)
BY DEF Quiet, Survives

\* A harmless message is written.
LEMMA AppendIsQuiet ==
    ASSUME NEW q \in Seq(Message), NEW m, Harmless(m),
           NEW t \in {"RequestTunnel", "TunnelResp"}
    PROVE  Quiet(q, Append(q, m), t) /\ Survives(q, Append(q, m), t)
<1> DEFINE r == Append(q, m)
<1>1. m \in Message
  BY DEF Harmless
<1>2. /\ r \in Seq(Message) /\ DOMAIN r = 1..Len(q) + 1 /\ DOMAIN q = 1..Len(q) /\ Len(q) \in Nat
      /\ \A k \in DOMAIN q : r[k] = q[k]
      /\ r[Len(q) + 1] = m
  BY <1>1
<1> HIDE DEF r
<1>3. OfType(r, t) = OfType(q, t)
  BY <1>2 DEF OfType, Harmless
<1>4. \A k \in DOMAIN r : (\E j \in DOMAIN q : r[k] = q[j]) \/ Harmless(r[k])
  <2> SUFFICES ASSUME NEW k \in DOMAIN r, k # Len(q) + 1
               PROVE  \E j \in DOMAIN q : r[k] = q[j]
    BY <1>2
  <2>1. k \in DOMAIN q /\ r[k] = q[k]
    BY <1>2
  <2> QED  BY <2>1
<1>5. IsCut(q) => IsCut(r)
  BY <1>2 DEF IsCut
<1>6. Quiet(q, r, t) /\ Survives(q, r, t)
  BY <1>2, <1>3, <1>4, <1>5 DEF Quiet, Survives
<1> QED  BY <1>6 DEF r

\* A message of another type is read.
LEMMA TailIsQuiet ==
    ASSUME NEW q \in Seq(Message), q # <<>>, NEW t, Head(q).type \notin {t, "Cut"}
    PROVE  Quiet(q, Tail(q), t) /\ Survives(q, Tail(q), t)
<1> DEFINE r == Tail(q)
<1>1. /\ r \in Seq(Message) /\ Len(q) \in Nat \ {0}
      /\ DOMAIN r = 1..Len(q) - 1 /\ DOMAIN q = 1..Len(q)
      /\ \A k \in DOMAIN r : k + 1 \in DOMAIN q /\ r[k] = q[k + 1]
      /\ \A k \in DOMAIN q : k # 1 => k - 1 \in DOMAIN r /\ r[k - 1] = q[k]
      /\ q[1].type \notin {t, "Cut"}
  OBVIOUS
<1> HIDE DEF r
<1>2. Survives(q, r, t)
  BY <1>1 DEF Survives, OfType, IsCut
<1>3. \A k \in DOMAIN r : \E j \in DOMAIN q : r[k] = q[j]
  BY <1>1
<1>4. (\A j, k \in OfType(q, t) : j = k) => (\A j, k \in OfType(r, t) : j = k)
  <2> SUFFICES ASSUME \A j, k \in OfType(q, t) : j = k,
                      NEW j \in OfType(r, t), NEW k \in OfType(r, t)
               PROVE  j = k
    OBVIOUS
  <2>1. j + 1 \in OfType(q, t) /\ k + 1 \in OfType(q, t)
    BY <1>1 DEF OfType
  <2>2. j + 1 = k + 1 /\ j \in Nat /\ k \in Nat
    BY <2>1, <1>1 DEF OfType
  <2> QED  BY <2>2
<1>5. Quiet(q, r, t) /\ Survives(q, r, t)
  BY <1>1, <1>2, <1>3, <1>4 DEF Quiet
<1> QED  BY <1>5 DEF r

\* The last message is lost.
LEMMA FrontIsQuiet ==
    ASSUME NEW q \in Seq(Message), q # <<>>, NEW t
    PROVE  Quiet(q, Front(q), t)
<1> DEFINE r == Front(q)
<1>1. /\ r \in Seq(Message) /\ Len(q) \in Nat \ {0}
      /\ DOMAIN r = 1..Len(q) - 1 /\ DOMAIN q = 1..Len(q)
      /\ \A k \in DOMAIN r : k \in DOMAIN q /\ r[k] = q[k]
  BY SubSeqProperties DEF Front
<1> HIDE DEF r
<1>2. \A k \in OfType(r, t) : k \in OfType(q, t)
  BY <1>1 DEF OfType
<1>3. Quiet(q, r, t)
  BY <1>1, <1>2 DEF Quiet
<1> QED  BY <1>3 DEF r

\* What an end had not read when it left is gone.
LEMMA EmptyIsQuiet ==
    ASSUME NEW q, NEW t
    PROVE  Quiet(q, <<>>, t)
<1>1. <<>> \in Seq(Message) /\ DOMAIN <<>> = {}
  OBVIOUS
<1> QED  BY <1>1 DEF Quiet, OfType

\* The same for the connection: a write is lost when it is broken or out of step, and
\* may be cut.
LEMMA SendIsQuiet ==
    ASSUME TypeOK, NEW m, Harmless(m)
    PROVE  /\ SendC(m) \/ RawC(m)
               => Quiet(toC, toC', "TunnelResp") /\ Survives(toC, toC', "TunnelResp")
           /\ SendS(m) \/ RawS(m)
               => Quiet(toS, toS', "RequestTunnel") /\ Survives(toS, toS', "RequestTunnel")
<1>1. toC \in Seq(Message) /\ toS \in Seq(Message)
  BY DEF TypeOK, Message
<1>2. Harmless(Plain("Cut"))
  BY DEF Harmless, Plain, Msg, Message, MsgTypes
<1>3. ASSUME NEW q \in Seq(Message), NEW n, Harmless(n),
             NEW t \in {"RequestTunnel", "TunnelResp"}
      PROVE  Quiet(q, Written(q, n), t) /\ Survives(q, Written(q, n), t)
  BY <1>3, AppendIsQuiet, SameIsQuiet DEF Written
<1> QED  BY <1>1, <1>2, <1>3 DEF SendC, SendS, RawC, RawS

LEMMA ReadIsQuiet ==
    ASSUME TypeOK
    PROVE  /\ toC # <<>> /\ Head(toC).type \notin {"TunnelResp", "Cut"} /\ toC' = Tail(toC)
               => Quiet(toC, toC', "TunnelResp") /\ Survives(toC, toC', "TunnelResp")
           /\ toS # <<>> /\ Head(toS).type \notin {"RequestTunnel", "Cut"} /\ toS' = Tail(toS)
               => Quiet(toS, toS', "RequestTunnel") /\ Survives(toS, toS', "RequestTunnel")
<1>1. toC \in Seq(Message) /\ toS \in Seq(Message)
  BY DEF TypeOK, Message
<1> QED  BY <1>1, TailIsQuiet

LEMMA NothingIsQuiet ==
    ASSUME TypeOK
    PROVE  /\ UNCHANGED toC => Quiet(toC, toC', "TunnelResp") /\ Survives(toC, toC', "TunnelResp")
           /\ UNCHANGED toS => Quiet(toS, toS', "RequestTunnel") /\ Survives(toS, toS', "RequestTunnel")
           /\ toC' = <<>> => Quiet(toC, toC', "TunnelResp")
           /\ toS' = <<>> => Quiet(toS, toS', "RequestTunnel")
<1>1. toC \in Seq(Message) /\ toS \in Seq(Message)
  BY DEF TypeOK, Message
<1> QED  BY <1>1, SameIsQuiet, EmptyIsQuiet

\* The messages without a tunnel, but for the dialogue's, and the announcement of a user.
LEMMA HarmlessMessages ==
    /\ \A t \in MsgTypes \ {"RequestTunnel", "TunnelResp", "Open"} :
           Harmless(Plain(t)) /\ Plain(t).type = t
    /\ \A ok \in BOOLEAN : /\ Harmless(Msg("RegisterResp", 0, ok))
                          /\ Harmless(Msg("SOCKSReady", 0, ok))
    /\ \A i \in Tunnels : Harmless(Msg("Open", i, TRUE))
BY DEF Harmless, Plain, Msg, Message, MsgTypes

-----------------------------------------------------------------------------
(* Steps outside the dialogue: only harmless messages travel.              *)

\* The server is where it was or elsewhere in its handshake or loop, but answers no
\* request, and closes ports only when its context is done; or it has left.
SvOutside ==
    /\ svCancelled => svCancelled'
    /\ \/ /\ UNCHANGED <<replyTo, replyOk>> /\ (svCancelled' \/ UNCHANGED routed)
          /\ sv = "reply" <=> sv' = "reply"
          /\ Serving' => Serving \/ sv = "await"
       \/ sv' = "gone" /\ ~up'

\* The client is where it was, or elsewhere without waiting for an answer, or it has left.
ClOutside ==
    /\ UNCHANGED <<nth, dataAddrs>>
    /\ cl' = cl \/ cl' = "gone" \/ (cl \notin {"await", "gone"} /\ cl' \notin {"await", "gone"})

\* The parts of the invariant that are about the dialogue.
Dialogue == TunnelsNamed /\ RoutedInv /\ AtMostOne /\ DueInv

LEMMA OutsideKeepsDialogue ==
    ASSUME IInv, Chat, SvOutside, ClOutside
    PROVE  Dialogue' /\ (Given = {} => Given' = {})
<1> USE DEF IInv
<1>1. /\ \A k \in Asked' : \E j \in Asked : toS'[k] = toS[j]
      /\ \A k \in Given' : \E j \in Given : toC'[k] = toC[j]
  BY DEF Chat, Quiet, Harmless, Asked, Given
<1>2. /\ (\A j, k \in Asked : j = k) => (\A j, k \in Asked' : j = k)
      /\ (\A j, k \in Given : j = k) => (\A j, k \in Given' : j = k)
  BY DEF Chat, Quiet, OfType, Asked, Given
<1>3. up' => /\ up /\ (Asked # {} => Asked' # {}) /\ (Given # {} => Given' # {})
             /\ IsCut(toS) => IsCut(toS')
             /\ IsCut(toC) => IsCut(toC')
  BY DEF Chat, Survives, OfType, Asked, Given
<1>4. TunnelsNamed'
  BY <1>1 DEF TunnelsNamed, Chat, Quiet, Harmless, Given
<1>5. RoutedInv'
  <2> SUFFICES ASSUME Serving', ~svCancelled'
               PROVE  /\ \A i \in dataAddrs : IsOpen(i)'
                      /\ \A k \in Given' : toC'[k].ok => (Cfg[toC'[k].tun] = "tcp" => toC'[k].tun \in routed')
                      /\ sv' = "reply" /\ replyOk' => IsOpen(replyTo)'
    BY DEF RoutedInv, ClOutside, IsOpen
  <2>1. /\ ~svCancelled /\ UNCHANGED <<replyTo, replyOk, routed>>
        /\ sv = "reply" <=> sv' = "reply"
        /\ Serving \/ sv = "await"
    BY DEF SvOutside, Serving
  <2> QED  BY <1>1, <2>1 DEF RoutedInv, EarlyInv, IsOpen, Serving
<1>6. AtMostOne'
  BY <1>1, <1>2 DEF AtMostOne, SvOutside
<1>7. DueInv'
  <2>1. /\ \A k \in Asked' : toS'[k].tun = nth'
        /\ \A k \in Given' : toC'[k].tun = nth'
    BY <1>1 DEF DueInv, ClOutside
  <2>2. sv' = "reply" => sv = "reply" /\ replyTo' = replyTo
    BY DEF SvOutside
  <2>3. cl' \notin {"await", "gone"} => Asked' = {} /\ Given' = {} /\ sv' # "reply"
    BY <1>1, <2>2 DEF DueInv, ClOutside
  <2>4. cl' = "await" => cl = "await"
    BY DEF ClOutside
  <2>5. up' /\ sv = "reply" => sv' = "reply"
    BY DEF SvOutside
  <2> QED  BY <1>3, <2>1, <2>2, <2>3, <2>4, <2>5 DEF DueInv, ClOutside
<1> QED  BY <1>1, <1>4, <1>5, <1>6, <1>7 DEF Dialogue

\* SvGreet: ClientRegister is written.
LEMMA SvGreetStep ==
    ASSUME IInv, SvGreet
    PROVE  IInv'
<1> USE DEF IInv
<1>1. Chat
  BY NothingIsQuiet, SendIsQuiet, HarmlessMessages DEF MsgTypes, SvGreet, Chat
<1>2. SvOutside /\ ClOutside
  BY DEF SvGreet, SvOutside, ClOutside, Serving, svVars, clVars, hbVars, ctxVars, chVars
<1>3. Dialogue' /\ (Given = {} => Given' = {})
  BY <1>1, <1>2, OutsideKeepsDialogue
<1>4. TypeOK'
  <2>1. toC' \in Seq(Message) /\ toS' \in Seq(Message)
    BY <1>1 DEF Chat, Quiet
  <2> QED
    BY <2>1 DEF SvGreet, TypeOK, Message, svVars, clVars, hbVars, ctxVars, chVars
<1>5. HeartbeatInv'
  BY DEF SvGreet, TypeOK, HeartbeatInv, EarlyInv, Writing, Waiting, svVars, clVars, hbVars,
    ctxVars, chVars
<1>6. GoneInv'
  BY DEF SvGreet, SendC, SendS, RawC, RawS, Written, GoneInv, svVars, clVars, hbVars, ctxVars,
    chVars
<1>7. EarlyInv' /\ NthInv'
  BY <1>3 DEF SvGreet, TypeOK, EarlyInv, NthInv, InLoop, svVars, clVars, hbVars, ctxVars, chVars
<1> QED  BY <1>3, <1>4, <1>5, <1>6, <1>7 DEF Dialogue

\* RegisterResp is read; the heartbeat starts at zero.
LEMMA SvRegisteredStep ==
    ASSUME IInv, SvRegistered
    PROVE  IInv'
<1> USE DEF IInv
<1>1. Chat
  BY NothingIsQuiet, ReadIsQuiet, HarmlessMessages DEF MsgTypes, SvRegistered, ReadC, ReadS,
    Plain, Msg,
    Chat
<1>2. SvOutside /\ ClOutside
  BY DEF SvRegistered, SvOutside, ClOutside, Serving, svVars, clVars, hbVars, ctxVars, chVars
<1>3. Dialogue' /\ (Given = {} => Given' = {})
  BY <1>1, <1>2, OutsideKeepsDialogue
<1>4. TypeOK'
  <2>1. toC' \in Seq(Message) /\ toS' \in Seq(Message)
    BY <1>1 DEF Chat, Quiet
  <2> QED
    BY <2>1 DEF SvRegistered, TypeOK, Message, svVars, clVars, hbVars, ctxVars, chVars
<1>5. HeartbeatInv'
  BY DEF SvRegistered, TypeOK, HeartbeatInv, EarlyInv, Writing, Waiting, svVars, clVars, hbVars,
    ctxVars, chVars
<1>6. GoneInv'
  BY DEF SvRegistered, GoneInv, svVars, clVars, hbVars, ctxVars, chVars
<1>7. EarlyInv' /\ NthInv'
  BY <1>3 DEF SvRegistered, TypeOK, EarlyInv, NthInv, InLoop, svVars, clVars, hbVars, ctxVars,
    chVars
<1> QED  BY <1>3, <1>4, <1>5, <1>6, <1>7 DEF Dialogue

\* A Pong is read.
LEMMA SvPongStep ==
    ASSUME IInv, SvPong
    PROVE  IInv'
<1> USE DEF IInv
<1>1. Chat
  BY NothingIsQuiet, ReadIsQuiet, HarmlessMessages DEF MsgTypes, SvPong, ReadC, ReadS, Plain,
    Msg, Chat
<1>2. SvOutside /\ ClOutside
  BY DEF SvPong, SvOutside, ClOutside, Serving, svVars, clVars, hbVars, ctxVars, chVars
<1>3. Dialogue' /\ (Given = {} => Given' = {})
  BY <1>1, <1>2, OutsideKeepsDialogue
<1>4. TypeOK'
  <2>1. toC' \in Seq(Message) /\ toS' \in Seq(Message)
    BY <1>1 DEF Chat, Quiet
  <2>2. age' \in 0..MaxEvents /\ unanswered' \in 0..MaxEvents
    BY BoundsAssumption DEF SvPong
  <2>3. /\ stalled' \in BOOLEAN
        /\ UNCHANGED <<up, svVars, clVars, hb, missed, due, ctxVars, disturbed, chVars, events>>
    BY DEF SvPong
  <2> QED
    BY <2>1, <2>2, <2>3 DEF TypeOK, Message, svVars, clVars, hbVars, ctxVars, chVars
<1>5. HeartbeatInv'
  BY DEF SvPong, TypeOK, HeartbeatInv, EarlyInv, Writing, Waiting, svVars, clVars, hbVars,
    ctxVars, chVars
<1>6. GoneInv'
  BY DEF SvPong, GoneInv, svVars, clVars, hbVars, ctxVars, chVars
<1>7. EarlyInv' /\ NthInv'
  BY <1>3 DEF SvPong, TypeOK, EarlyInv, NthInv, InLoop, svVars, clVars, hbVars, ctxVars, chVars
<1> QED  BY <1>3, <1>4, <1>5, <1>6, <1>7 DEF Dialogue

\* An answer to no question is read.
LEMMA SvOtherStep ==
    ASSUME IInv, SvOther
    PROVE  IInv'
<1> USE DEF IInv
<1>1. Chat
  BY NothingIsQuiet, ReadIsQuiet, HarmlessMessages DEF MsgTypes, SvOther, ReadC, ReadS, Plain,
    Msg, Chat
<1>2. SvOutside /\ ClOutside
  BY DEF SvOther, SvOutside, ClOutside, Serving, svVars, clVars, hbVars, ctxVars, chVars
<1>3. Dialogue' /\ (Given = {} => Given' = {})
  BY <1>1, <1>2, OutsideKeepsDialogue
<1>4. TypeOK'
  <2>1. toC' \in Seq(Message) /\ toS' \in Seq(Message)
    BY <1>1 DEF Chat, Quiet
  <2> QED
    BY <2>1 DEF SvOther, TypeOK, Message, svVars, clVars, hbVars, ctxVars, chVars
<1>5. HeartbeatInv'
  BY DEF SvOther, TypeOK, HeartbeatInv, EarlyInv, Writing, Waiting, svVars, clVars, hbVars,
    ctxVars, chVars
<1>6. GoneInv'
  BY DEF SvOther, GoneInv, svVars, clVars, hbVars, ctxVars, chVars
<1>7. EarlyInv' /\ NthInv'
  BY <1>3 DEF SvOther, TypeOK, EarlyInv, NthInv, InLoop, svVars, clVars, hbVars, ctxVars, chVars
<1> QED  BY <1>3, <1>4, <1>5, <1>6, <1>7 DEF Dialogue

\* A SOCKS user asks for a target.
LEMMA SvSocksConnectStep ==
    ASSUME IInv, SvSocksConnect
    PROVE  IInv'
<1> USE DEF IInv
<1>1. Chat
  BY NothingIsQuiet, ReadIsQuiet, HarmlessMessages DEF MsgTypes, SvSocksConnect, ReadC, ReadS,
    Plain, Msg,
    Chat
<1>2. SvOutside /\ ClOutside
  BY DEF SvSocksConnect, SvOutside, ClOutside, Serving, svVars, clVars, hbVars, ctxVars, chVars
<1>3. Dialogue' /\ (Given = {} => Given' = {})
  BY <1>1, <1>2, OutsideKeepsDialogue
<1>4. TypeOK'
  <2>1. toC' \in Seq(Message) /\ toS' \in Seq(Message)
    BY <1>1 DEF Chat, Quiet
  <2> QED
    BY <2>1 DEF SvSocksConnect, TypeOK, Message, svVars, clVars, hbVars, ctxVars, chVars
<1>5. HeartbeatInv'
  BY DEF SvSocksConnect, TypeOK, HeartbeatInv, EarlyInv, Writing, Waiting, svVars, clVars,
    hbVars, ctxVars, chVars
<1>6. GoneInv'
  BY DEF SvSocksConnect, GoneInv, svVars, clVars, hbVars, ctxVars, chVars
<1>7. EarlyInv' /\ NthInv'
  BY <1>3 DEF SvSocksConnect, TypeOK, EarlyInv, NthInv, InLoop, svVars, clVars, hbVars, ctxVars,
    chVars
<1> QED  BY <1>3, <1>4, <1>5, <1>6, <1>7 DEF Dialogue

\* It is told how the dial went.
LEMMA SvDialedStep ==
    ASSUME IInv, NEW ok \in BOOLEAN, SvDialed(ok)
    PROVE  IInv'
<1> USE DEF IInv
<1>1. Chat
  BY NothingIsQuiet, SendIsQuiet, HarmlessMessages DEF MsgTypes, SvDialed, Chat
<1>2. SvOutside /\ ClOutside
  BY DEF SvDialed, SvOutside, ClOutside, Serving, svVars, clVars, hbVars, ctxVars, chVars
<1>3. Dialogue' /\ (Given = {} => Given' = {})
  BY <1>1, <1>2, OutsideKeepsDialogue
<1>4. TypeOK'
  <2>1. toC' \in Seq(Message) /\ toS' \in Seq(Message)
    BY <1>1 DEF Chat, Quiet
  <2> QED
    BY <2>1 DEF SvDialed, TypeOK, Message, svVars, clVars, hbVars, ctxVars, chVars
<1>5. HeartbeatInv'
  BY DEF SvDialed, TypeOK, HeartbeatInv, EarlyInv, Writing, Waiting, svVars, clVars, hbVars,
    ctxVars, chVars
<1>6. GoneInv'
  BY DEF SvDialed, SendC, SendS, RawC, RawS, Written, GoneInv, svVars, clVars, hbVars, ctxVars,
    chVars
<1>7. EarlyInv' /\ NthInv'
  BY <1>3 DEF SvDialed, TypeOK, EarlyInv, NthInv, InLoop, svVars, clVars, hbVars, ctxVars,
    chVars
<1> QED  BY <1>3, <1>4, <1>5, <1>6, <1>7 DEF Dialogue

\* A payload is sent to it.
LEMMA SvSocksDataStep ==
    ASSUME IInv, SvSocksData
    PROVE  IInv'
<1> USE DEF IInv
<1>1. Chat
  BY NothingIsQuiet, SendIsQuiet, HarmlessMessages DEF MsgTypes, SvSocksData, Chat
<1>2. SvOutside /\ ClOutside
  BY DEF SvSocksData, SvOutside, ClOutside, Serving, svVars, clVars, hbVars, ctxVars, chVars
<1>3. Dialogue' /\ (Given = {} => Given' = {})
  BY <1>1, <1>2, OutsideKeepsDialogue
<1>4. TypeOK'
  <2>1. toC' \in Seq(Message) /\ toS' \in Seq(Message)
    BY <1>1 DEF Chat, Quiet
  <2> QED
    BY <2>1, BoundsAssumption DEF SvSocksData, Comes, TypeOK, Message, svVars, clVars, hbVars,
      ctxVars, chVars
<1>5. HeartbeatInv'
  BY BoundsAssumption DEF SvSocksData, Comes, TypeOK, HeartbeatInv, EarlyInv, Writing, Waiting,
    svVars, clVars, hbVars, ctxVars, chVars
<1>6. GoneInv'
  BY DEF SvSocksData, SendC, SendS, RawC, RawS, Written, GoneInv, svVars, clVars, hbVars,
    ctxVars, chVars
<1>7. EarlyInv' /\ NthInv'
  BY <1>3 DEF SvSocksData, TypeOK, EarlyInv, NthInv, InLoop, svVars, clVars, hbVars, ctxVars,
    chVars
<1> QED  BY <1>3, <1>4, <1>5, <1>6, <1>7 DEF Dialogue

\* Deliver begins.
LEMMA SvDataStep ==
    ASSUME IInv, SvData
    PROVE  IInv'
<1> USE DEF IInv
<1>1. Chat
  BY NothingIsQuiet, ReadIsQuiet, HarmlessMessages DEF MsgTypes, SvData, ReadC, ReadS, Plain,
    Msg, Chat
<1>2. SvOutside /\ ClOutside
  BY DEF SvData, SvOutside, ClOutside, Serving, svVars, clVars, hbVars, ctxVars, chVars
<1>3. Dialogue' /\ (Given = {} => Given' = {})
  BY <1>1, <1>2, OutsideKeepsDialogue
<1>4. TypeOK'
  <2>1. toC' \in Seq(Message) /\ toS' \in Seq(Message)
    BY <1>1 DEF Chat, Quiet
  <2> QED
    BY <2>1 DEF SvData, TypeOK, Message, svVars, clVars, hbVars, ctxVars, chVars
<1>5. HeartbeatInv'
  BY DEF SvData, TypeOK, HeartbeatInv, EarlyInv, Writing, Waiting, svVars, clVars, hbVars,
    ctxVars, chVars
<1>6. GoneInv'
  BY DEF SvData, GoneInv, svVars, clVars, hbVars, ctxVars, chVars
<1>7. EarlyInv' /\ NthInv'
  BY <1>3 DEF SvData, TypeOK, EarlyInv, NthInv, InLoop, svVars, clVars, hbVars, ctxVars, chVars
<1> QED  BY <1>3, <1>4, <1>5, <1>6, <1>7 DEF Dialogue

\* Deliver ends.
LEMMA SvDeliveredStep ==
    ASSUME IInv, SvDelivered
    PROVE  IInv'
<1> USE DEF IInv
<1>1. Chat
  BY NothingIsQuiet DEF SvDelivered, Chat
<1>2. SvOutside /\ ClOutside
  BY DEF SvDelivered, SvOutside, ClOutside, Serving, svVars, clVars, hbVars, ctxVars, chVars
<1>3. Dialogue' /\ (Given = {} => Given' = {})
  BY <1>1, <1>2, OutsideKeepsDialogue
<1>4. TypeOK'
  <2>1. toC' \in Seq(Message) /\ toS' \in Seq(Message)
    BY <1>1 DEF Chat, Quiet
  <2> QED
    BY <2>1 DEF SvDelivered, TypeOK, Message, svVars, clVars, hbVars, ctxVars, chVars
<1>5. HeartbeatInv'
  BY DEF SvDelivered, TypeOK, HeartbeatInv, EarlyInv, Writing, Waiting, svVars, clVars, hbVars,
    ctxVars, chVars
<1>6. GoneInv'
  BY DEF SvDelivered, GoneInv, svVars, clVars, hbVars, ctxVars, chVars
<1>7. EarlyInv' /\ NthInv'
  BY <1>3 DEF SvDelivered, TypeOK, EarlyInv, NthInv, InLoop, svVars, clVars, hbVars, ctxVars,
    chVars
<1> QED  BY <1>3, <1>4, <1>5, <1>6, <1>7 DEF Dialogue

\* Disconnect is read.
LEMMA SvDisconnectStep ==
    ASSUME IInv, SvDisconnect
    PROVE  IInv'
<1> USE DEF IInv
<1>1. Chat
  BY NothingIsQuiet, ReadIsQuiet, HarmlessMessages DEF MsgTypes, SvDisconnect, ReadC, ReadS,
    Plain, Msg,
    Chat
<1>2. SvOutside /\ ClOutside
  BY DEF SvDisconnect, SvOutside, ClOutside, Serving, svVars, clVars, hbVars, ctxVars, chVars
<1>3. Dialogue' /\ (Given = {} => Given' = {})
  BY <1>1, <1>2, OutsideKeepsDialogue
<1>4. TypeOK'
  <2>1. toC' \in Seq(Message) /\ toS' \in Seq(Message)
    BY <1>1 DEF Chat, Quiet
  <2> QED
    BY <2>1 DEF SvDisconnect, TypeOK, Message, svVars, clVars, hbVars, ctxVars, chVars
<1>5. HeartbeatInv'
  BY DEF SvDisconnect, TypeOK, HeartbeatInv, EarlyInv, Writing, Waiting, svVars, clVars, hbVars,
    ctxVars, chVars
<1>6. GoneInv'
  BY DEF SvDisconnect, GoneInv, svVars, clVars, hbVars, ctxVars, chVars
<1>7. EarlyInv' /\ NthInv'
  BY <1>3 DEF SvDisconnect, TypeOK, EarlyInv, NthInv, InLoop, svVars, clVars, hbVars, ctxVars,
    chVars
<1> QED  BY <1>3, <1>4, <1>5, <1>6, <1>7 DEF Dialogue

\* HandleControlConn returns, perhaps after an acknowledgement.
LEMMA ServerLeaves ==
    ASSUME IInv, SvLeave, UNCHANGED toC \/ SendC(Plain("DisconnectAck")),
           UNCHANGED <<disturbed, clVars, clStop, saidBye, events>>
    PROVE  IInv'
<1> USE DEF IInv
<1>1. Chat
  BY NothingIsQuiet, SendIsQuiet, HarmlessMessages DEF SvLeave, Chat, MsgTypes
<1>2. SvOutside /\ ClOutside
  BY DEF SvLeave, SvOutside, ClOutside, clVars
<1>3. Dialogue' /\ (Given = {} => Given' = {})
  BY <1>1, <1>2, OutsideKeepsDialogue
<1>4. TypeOK'
  <2>1. toC' \in Seq(Message) /\ toS' \in Seq(Message)
    BY <1>1 DEF Chat, Quiet
  <2>2. hb' \in {"off", "on", "ping", "fired"} /\ 0 \in 0..MaxEvents
    BY BoundsAssumption DEF SvLeave, TypeOK
  <2> QED  BY <2>1, <2>2 DEF SvLeave, TypeOK, Message, clVars
<1>5. HeartbeatInv' /\ GoneInv'
  BY DEF SvLeave, SendC, Written, TypeOK, HeartbeatInv, GoneInv, Writing, Waiting, clVars
<1>6. EarlyInv' /\ NthInv'
  BY DEF SvLeave, EarlyInv, NthInv, InLoop, clVars
<1> QED  BY <1>3, <1>4, <1>5, <1>6 DEF Dialogue

\* An interval passes.
LEMMA ClockTickStep ==
    ASSUME IInv, ClockTick
    PROVE  IInv'
<1> USE DEF IInv
<1>1. Chat
  BY NothingIsQuiet DEF ClockTick, Chat
<1>2. SvOutside /\ ClOutside
  BY DEF ClockTick, SvOutside, ClOutside, Serving, svVars, clVars, hbVars, ctxVars, chVars
<1>3. Dialogue' /\ (Given = {} => Given' = {})
  BY <1>1, <1>2, OutsideKeepsDialogue
<1>4. TypeOK'
  <2>1. toC' \in Seq(Message) /\ toS' \in Seq(Message)
    BY <1>1 DEF Chat, Quiet
  <2> QED
    BY <2>1, BoundsAssumption DEF ClockTick, Comes, TypeOK, Message, HeartbeatInv, svVars,
      clVars, hbVars, ctxVars, chVars
<1>5. HeartbeatInv'
  BY BoundsAssumption DEF ClockTick, Comes, TypeOK, HeartbeatInv, EarlyInv, Writing, Waiting,
    svVars, clVars, hbVars, ctxVars, chVars
<1>6. GoneInv'
  BY DEF ClockTick, GoneInv, svVars, clVars, hbVars, ctxVars, chVars
<1>7. EarlyInv' /\ NthInv'
  BY <1>3 DEF ClockTick, TypeOK, EarlyInv, NthInv, InLoop, svVars, clVars, hbVars, ctxVars,
    chVars
<1> QED  BY <1>3, <1>4, <1>5, <1>6, <1>7 DEF Dialogue

\* The heartbeat takes a tick: it gives up, or begins to write a ping.
LEMMA HeartbeatTickStep ==
    ASSUME IInv, NEW late \in BOOLEAN, HeartbeatTick(late)
    PROVE  IInv'
<1> USE DEF IInv
<1>1. Chat
  BY NothingIsQuiet DEF HeartbeatTick, Chat
<1>2. SvOutside /\ ClOutside
  BY DEF HeartbeatTick, SvOutside, ClOutside, Serving, svVars, clVars, hbVars, ctxVars, chVars
<1>3. Dialogue' /\ (Given = {} => Given' = {})
  BY <1>1, <1>2, OutsideKeepsDialogue
<1>4. TypeOK'
  <2>1. toC' \in Seq(Message) /\ toS' \in Seq(Message)
    BY <1>1 DEF Chat, Quiet
  <2>2. /\ hb' \in {"off", "on", "ping", "fired"}
        /\ svCancelled' \in BOOLEAN /\ due' \in BOOLEAN
    BY DEF HeartbeatTick, TypeOK
  <2> QED
    BY <2>1, <2>2 DEF HeartbeatTick, TypeOK, Message, svVars, clVars, hbVars, ctxVars, chVars
<1>5. HeartbeatInv'
  BY DEF HeartbeatTick, TypeOK, HeartbeatInv, EarlyInv, Writing, Waiting, svVars, clVars,
    hbVars, ctxVars, chVars
<1>6. GoneInv'
  BY DEF HeartbeatTick, GoneInv, svVars, clVars, hbVars, ctxVars, chVars
<1>7. EarlyInv' /\ NthInv'
  BY <1>3 DEF HeartbeatTick, TypeOK, EarlyInv, NthInv, InLoop, svVars, clVars, hbVars, ctxVars,
    chVars
<1> QED  BY <1>3, <1>4, <1>5, <1>6, <1>7 DEF Dialogue

\* A ping is written.
LEMMA PingedStep ==
    ASSUME IInv, Pinged
    PROVE  IInv'
<1> USE DEF IInv
<1>1. Chat
  BY NothingIsQuiet, SendIsQuiet, HarmlessMessages DEF MsgTypes, Pinged, Chat
<1>2. SvOutside /\ ClOutside
  BY DEF Pinged, SvOutside, ClOutside, Serving, svVars, clVars, hbVars, ctxVars, chVars
<1>3. Dialogue' /\ (Given = {} => Given' = {})
  BY <1>1, <1>2, OutsideKeepsDialogue
<1>4. TypeOK'
  <2>1. toC' \in Seq(Message) /\ toS' \in Seq(Message)
    BY <1>1 DEF Chat, Quiet
  <2>2. missed' \in 0..MaxEvents /\ unanswered' \in 0..MaxEvents
    BY BoundsAssumption DEF Pinged, TypeOK, HeartbeatInv, Writing, Waiting
  <2> QED
    BY <2>1, <2>2 DEF Pinged, TypeOK, Message, svVars, clVars, hbVars, ctxVars, chVars
<1>5. HeartbeatInv'
  BY DEF Pinged, TypeOK, HeartbeatInv, EarlyInv, Writing, Waiting, svVars, clVars, hbVars,
    ctxVars, chVars
<1>6. GoneInv'
  BY DEF Pinged, SendC, SendS, RawC, RawS, Written, GoneInv, svVars, clVars, hbVars, ctxVars,
    chVars
<1>7. EarlyInv' /\ NthInv'
  BY <1>3 DEF Pinged, TypeOK, EarlyInv, NthInv, InLoop, svVars, clVars, hbVars, ctxVars, chVars
<1> QED  BY <1>3, <1>4, <1>5, <1>6, <1>7 DEF Dialogue

\* The heartbeat ends.
LEMMA HeartbeatEndsStep ==
    ASSUME IInv, HeartbeatEnds
    PROVE  IInv'
<1> USE DEF IInv
<1>1. Chat
  BY NothingIsQuiet DEF HeartbeatEnds, Chat
<1>2. SvOutside /\ ClOutside
  BY DEF HeartbeatEnds, SvOutside, ClOutside, Serving, svVars, clVars, hbVars, ctxVars, chVars
<1>3. Dialogue' /\ (Given = {} => Given' = {})
  BY <1>1, <1>2, OutsideKeepsDialogue
<1>4. TypeOK'
  <2>1. toC' \in Seq(Message) /\ toS' \in Seq(Message)
    BY <1>1 DEF Chat, Quiet
  <2> QED
    BY <2>1 DEF HeartbeatEnds, TypeOK, Message, svVars, clVars, hbVars, ctxVars, chVars
<1>5. HeartbeatInv'
  BY DEF HeartbeatEnds, TypeOK, HeartbeatInv, EarlyInv, Writing, Waiting, svVars, clVars,
    hbVars, ctxVars, chVars
<1>6. GoneInv'
  BY DEF HeartbeatEnds, GoneInv, svVars, clVars, hbVars, ctxVars, chVars
<1>7. EarlyInv' /\ NthInv'
  BY <1>3 DEF HeartbeatEnds, TypeOK, EarlyInv, NthInv, InLoop, svVars, clVars, hbVars, ctxVars,
    chVars
<1> QED  BY <1>3, <1>4, <1>5, <1>6, <1>7 DEF Dialogue

\* A user arrives.
LEMMA UserArrivesStep ==
    ASSUME IInv, NEW i \in Tunnels, UserArrives(i)
    PROVE  IInv'
<1> USE DEF IInv
<1>1. Chat
  BY NothingIsQuiet, SendIsQuiet, HarmlessMessages DEF MsgTypes, UserArrives, Chat
<1>2. SvOutside /\ ClOutside
  BY DEF UserArrives, SvOutside, ClOutside, Serving, svVars, clVars, hbVars, ctxVars, chVars
<1>3. Dialogue' /\ (Given = {} => Given' = {})
  BY <1>1, <1>2, OutsideKeepsDialogue
<1>4. TypeOK'
  <2>1. toC' \in Seq(Message) /\ toS' \in Seq(Message)
    BY <1>1 DEF Chat, Quiet
  <2> QED
    BY <2>1, BoundsAssumption DEF UserArrives, Comes, TypeOK, Message, svVars, clVars, hbVars,
      ctxVars, chVars
<1>5. HeartbeatInv'
  BY BoundsAssumption DEF UserArrives, Comes, TypeOK, HeartbeatInv, EarlyInv, Writing, Waiting,
    svVars, clVars, hbVars, ctxVars, chVars
<1>6. GoneInv'
  BY DEF UserArrives, SendC, SendS, RawC, RawS, Written, GoneInv, svVars, clVars, hbVars,
    ctxVars, chVars
<1>7. EarlyInv' /\ NthInv'
  BY <1>3 DEF UserArrives, TypeOK, EarlyInv, NthInv, InLoop, svVars, clVars, hbVars, ctxVars,
    chVars
<1> QED  BY <1>3, <1>4, <1>5, <1>6, <1>7 DEF Dialogue

\* A port is closed.
LEMMA ListenerClosesStep ==
    ASSUME IInv, NEW i \in Tunnels, ListenerCloses(i)
    PROVE  IInv'
<1> USE DEF IInv
<1>1. Chat
  BY NothingIsQuiet DEF ListenerCloses, Chat
<1>2. SvOutside /\ ClOutside
  BY DEF ListenerCloses, SvOutside, ClOutside, Serving, svVars, clVars, hbVars, ctxVars, chVars
<1>3. Dialogue' /\ (Given = {} => Given' = {})
  BY <1>1, <1>2, OutsideKeepsDialogue
<1>4. TypeOK'
  <2>1. toC' \in Seq(Message) /\ toS' \in Seq(Message)
    BY <1>1 DEF Chat, Quiet
  <2> QED
    BY <2>1 DEF ListenerCloses, TypeOK, Message, svVars, clVars, hbVars, ctxVars, chVars
<1>5. HeartbeatInv'
  BY DEF ListenerCloses, TypeOK, HeartbeatInv, EarlyInv, Writing, Waiting, svVars, clVars,
    hbVars, ctxVars, chVars
<1>6. GoneInv'
  BY DEF ListenerCloses, GoneInv, svVars, clVars, hbVars, ctxVars, chVars
<1>7. EarlyInv' /\ NthInv'
  BY <1>3 DEF ListenerCloses, TypeOK, EarlyInv, NthInv, InLoop, svVars, clVars, hbVars, ctxVars,
    chVars
<1> QED  BY <1>3, <1>4, <1>5, <1>6, <1>7 DEF Dialogue

\* The server shuts down.
LEMMA ServerShutdownStep ==
    ASSUME IInv, ServerShutdown
    PROVE  IInv'
<1> USE DEF IInv
<1>1. Chat
  BY NothingIsQuiet DEF ServerShutdown, Chat
<1>2. SvOutside /\ ClOutside
  BY DEF ServerShutdown, SvOutside, ClOutside, Serving, svVars, clVars, hbVars, ctxVars, chVars
<1>3. Dialogue' /\ (Given = {} => Given' = {})
  BY <1>1, <1>2, OutsideKeepsDialogue
<1>4. TypeOK'
  <2>1. toC' \in Seq(Message) /\ toS' \in Seq(Message)
    BY <1>1 DEF Chat, Quiet
  <2> QED
    BY <2>1, BoundsAssumption DEF ServerShutdown, Comes, TypeOK, Message, svVars, clVars,
      hbVars, ctxVars, chVars
<1>5. HeartbeatInv'
  BY BoundsAssumption DEF ServerShutdown, Comes, TypeOK, HeartbeatInv, EarlyInv, Writing,
    Waiting, svVars, clVars, hbVars, ctxVars, chVars
<1>6. GoneInv'
  BY DEF ServerShutdown, GoneInv, svVars, clVars, hbVars, ctxVars, chVars
<1>7. EarlyInv' /\ NthInv'
  BY <1>3 DEF ServerShutdown, TypeOK, EarlyInv, NthInv, InLoop, svVars, clVars, hbVars, ctxVars,
    chVars
<1> QED  BY <1>3, <1>4, <1>5, <1>6, <1>7 DEF Dialogue

\* It says so.
LEMMA ServerSaysByeStep ==
    ASSUME IInv, ServerSaysBye
    PROVE  IInv'
<1> USE DEF IInv
<1>1. Chat
  BY NothingIsQuiet, SendIsQuiet, HarmlessMessages DEF MsgTypes, ServerSaysBye, Chat
<1>2. SvOutside /\ ClOutside
  BY DEF ServerSaysBye, SvOutside, ClOutside, Serving, svVars, clVars, hbVars, ctxVars, chVars
<1>3. Dialogue' /\ (Given = {} => Given' = {})
  BY <1>1, <1>2, OutsideKeepsDialogue
<1>4. TypeOK'
  <2>1. toC' \in Seq(Message) /\ toS' \in Seq(Message)
    BY <1>1 DEF Chat, Quiet
  <2> QED
    BY <2>1 DEF ServerSaysBye, TypeOK, Message, svVars, clVars, hbVars, ctxVars, chVars
<1>5. HeartbeatInv'
  BY DEF ServerSaysBye, TypeOK, HeartbeatInv, EarlyInv, Writing, Waiting, svVars, clVars,
    hbVars, ctxVars, chVars
<1>6. GoneInv'
  BY DEF ServerSaysBye, SendC, SendS, RawC, RawS, Written, GoneInv, svVars, clVars, hbVars,
    ctxVars, chVars
<1>7. EarlyInv' /\ NthInv'
  BY <1>3 DEF ServerSaysBye, TypeOK, EarlyInv, NthInv, InLoop, svVars, clVars, hbVars, ctxVars,
    chVars
<1> QED  BY <1>3, <1>4, <1>5, <1>6, <1>7 DEF Dialogue

\* HandleServerConn returns, perhaps after a last message.
LEMMA ClientLeaves ==
    ASSUME IInv, ClLeave,
           UNCHANGED toS \/ \E m : Harmless(m) /\ (SendS(m) \/ RawS(m)),
           disturbed' \in BOOLEAN,
           UNCHANGED <<svVars, nth, dataAddrs, hbVars, ctxVars, chVars, events>>
    PROVE  IInv'
<1> USE DEF IInv
<1>1. Chat
  BY NothingIsQuiet, SendIsQuiet DEF ClLeave, Chat
<1>2. SvOutside /\ ClOutside
  BY DEF ClLeave, SvOutside, ClOutside, Serving, svVars, ctxVars
<1>3. Dialogue' /\ (Given = {} => Given' = {})
  BY <1>1, <1>2, OutsideKeepsDialogue
<1>4. TypeOK'
  <2>1. toC' \in Seq(Message) /\ toS' \in Seq(Message)
    BY <1>1 DEF Chat, Quiet
  <2>2. up' \in BOOLEAN /\ cl' = "gone"
    BY DEF ClLeave
  <2> QED  BY <2>1, <2>2 DEF TypeOK, Message, svVars, hbVars, ctxVars, chVars
<1>5. HeartbeatInv'
  BY DEF ClLeave, HeartbeatInv, Writing, Waiting, hbVars
<1>6. GoneInv'
  <2>1. ~up => UNCHANGED toS
    BY DEF SendS, RawS, Written
  <2> QED  BY <2>1 DEF ClLeave, GoneInv, svVars
<1>7. EarlyInv' /\ NthInv'
  BY <1>3 DEF ClLeave, EarlyInv, NthInv, InLoop, svVars, hbVars
<1> QED  BY <1>3, <1>4, <1>5, <1>6, <1>7 DEF Dialogue

\* ClientRegister is read.
LEMMA ClGreetedStep ==
    ASSUME IInv, NEW ok \in BOOLEAN, ClGreeted(ok)
    PROVE  IInv'
<1> USE DEF IInv
<1>1. Chat
  BY NothingIsQuiet, ReadIsQuiet, HarmlessMessages DEF MsgTypes, ClGreeted, ReadC, ReadS, Plain,
    Msg, Chat
<1>2. SvOutside /\ ClOutside
  BY DEF ClGreeted, SvOutside, ClOutside, Serving, svVars, clVars, hbVars, ctxVars, chVars
<1>3. Dialogue' /\ (Given = {} => Given' = {})
  BY <1>1, <1>2, OutsideKeepsDialogue
<1>4. TypeOK'
  <2>1. toC' \in Seq(Message) /\ toS' \in Seq(Message)
    BY <1>1 DEF Chat, Quiet
  <2> QED
    BY <2>1 DEF ClGreeted, TypeOK, Message, svVars, clVars, hbVars, ctxVars, chVars
<1>5. HeartbeatInv'
  BY DEF ClGreeted, TypeOK, HeartbeatInv, EarlyInv, Writing, Waiting, svVars, clVars, hbVars,
    ctxVars, chVars
<1>6. GoneInv'
  BY DEF ClGreeted, GoneInv, svVars, clVars, hbVars, ctxVars, chVars
<1>7. EarlyInv' /\ NthInv'
  BY <1>3 DEF ClGreeted, TypeOK, EarlyInv, NthInv, InLoop, svVars, clVars, hbVars, ctxVars,
    chVars
<1> QED  BY <1>3, <1>4, <1>5, <1>6, <1>7 DEF Dialogue

\* It is answered.
LEMMA ClHandshakeStep ==
    ASSUME IInv, ClHandshake
    PROVE  IInv'
<1> USE DEF IInv
<1>1. Chat
  BY NothingIsQuiet, SendIsQuiet, HarmlessMessages DEF MsgTypes, ClHandshake, Chat
<1>2. SvOutside /\ ClOutside
  BY DEF ClHandshake, SvOutside, ClOutside, Serving, svVars, clVars, hbVars, ctxVars, chVars
<1>3. Dialogue' /\ (Given = {} => Given' = {})
  BY <1>1, <1>2, OutsideKeepsDialogue
<1>4. TypeOK'
  <2>1. toC' \in Seq(Message) /\ toS' \in Seq(Message)
    BY <1>1 DEF Chat, Quiet
  <2> QED
    BY <2>1 DEF ClHandshake, TypeOK, Message, svVars, clVars, hbVars, ctxVars, chVars
<1>5. HeartbeatInv'
  BY DEF ClHandshake, TypeOK, HeartbeatInv, EarlyInv, Writing, Waiting, svVars, clVars, hbVars,
    ctxVars, chVars
<1>6. GoneInv'
  BY DEF ClHandshake, SendC, SendS, RawC, RawS, Written, GoneInv, svVars, clVars, hbVars,
    ctxVars, chVars
<1>7. EarlyInv' /\ NthInv'
  BY <1>3 DEF ClHandshake, TypeOK, EarlyInv, NthInv, InLoop, svVars, clVars, hbVars, ctxVars,
    chVars
<1> QED  BY <1>3, <1>4, <1>5, <1>6, <1>7 DEF Dialogue

\* All tunnels are registered.
LEMMA ClBeginsStep ==
    ASSUME IInv, ClBegins
    PROVE  IInv'
<1> USE DEF IInv
<1>1. Chat
  BY NothingIsQuiet DEF ClBegins, Chat
<1>2. SvOutside /\ ClOutside
  BY DEF ClBegins, SvOutside, ClOutside, Serving, svVars, clVars, hbVars, ctxVars, chVars
<1>3. Dialogue' /\ (Given = {} => Given' = {})
  BY <1>1, <1>2, OutsideKeepsDialogue
<1>4. TypeOK'
  <2>1. toC' \in Seq(Message) /\ toS' \in Seq(Message)
    BY <1>1 DEF Chat, Quiet
  <2> QED
    BY <2>1 DEF ClBegins, TypeOK, Message, svVars, clVars, hbVars, ctxVars, chVars
<1>5. HeartbeatInv'
  BY DEF ClBegins, TypeOK, HeartbeatInv, EarlyInv, Writing, Waiting, svVars, clVars, hbVars,
    ctxVars, chVars
<1>6. GoneInv'
  BY DEF ClBegins, GoneInv, svVars, clVars, hbVars, ctxVars, chVars
<1>7. EarlyInv' /\ NthInv'
  BY <1>3, CfgAssumption DEF ClBegins, Tunnels, TypeOK, EarlyInv, NthInv, InLoop, svVars,
    clVars, hbVars, ctxVars,
    chVars
<1> QED  BY <1>3, <1>4, <1>5, <1>6, <1>7 DEF Dialogue

\* A Ping, a payload or a Disconnect is read.
LEMMA ClReadsStep ==
    ASSUME IInv, ClReads
    PROVE  IInv'
<1> USE DEF IInv
<1>1. Chat
  BY NothingIsQuiet, ReadIsQuiet, HarmlessMessages DEF MsgTypes, ClReads, ClTakes, ReadC, ReadS,
    Plain,
    Msg, Chat
<1>2. SvOutside /\ ClOutside
  BY DEF ClReads, ClTakes, SvOutside, ClOutside, Serving, svVars, clVars, hbVars, ctxVars,
    chVars
<1>3. Dialogue' /\ (Given = {} => Given' = {})
  BY <1>1, <1>2, OutsideKeepsDialogue
<1>4. TypeOK'
  <2>1. toC' \in Seq(Message) /\ toS' \in Seq(Message)
    BY <1>1 DEF Chat, Quiet
  <2>2. /\ cl' \in {"pong", "ack", "deliver"}
        /\ UNCHANGED <<up, svVars, nth, dataAddrs, hbVars, ctxVars, disturbed, chVars, events>>
    BY DEF ClReads, ClTakes
  <2> QED
    BY <2>1, <2>2 DEF ClReads, ClTakes, TypeOK, Message, svVars, clVars, hbVars, ctxVars, chVars
<1>5. HeartbeatInv'
  BY DEF ClReads, ClTakes, TypeOK, HeartbeatInv, EarlyInv, Writing, Waiting, svVars, clVars,
    hbVars, ctxVars, chVars
<1>6. GoneInv'
  BY DEF ClReads, ClTakes, GoneInv, svVars, clVars, hbVars, ctxVars, chVars
<1>7. EarlyInv' /\ NthInv'
  BY <1>3 DEF ClReads, ClTakes, TypeOK, EarlyInv, NthInv, InLoop, svVars, clVars, hbVars,
    ctxVars, chVars
<1> QED  BY <1>3, <1>4, <1>5, <1>6, <1>7 DEF Dialogue

\* A Ping is answered.
LEMMA ClPongStep ==
    ASSUME IInv, ClPong
    PROVE  IInv'
<1> USE DEF IInv
<1>1. Chat
  BY NothingIsQuiet, SendIsQuiet, HarmlessMessages DEF MsgTypes, ClPong, Chat
<1>2. SvOutside /\ ClOutside
  BY DEF ClPong, SvOutside, ClOutside, Serving, svVars, clVars, hbVars, ctxVars, chVars
<1>3. Dialogue' /\ (Given = {} => Given' = {})
  BY <1>1, <1>2, OutsideKeepsDialogue
<1>4. TypeOK'
  <2>1. toC' \in Seq(Message) /\ toS' \in Seq(Message)
    BY <1>1 DEF Chat, Quiet
  <2> QED
    BY <2>1 DEF ClPong, TypeOK, Message, svVars, clVars, hbVars, ctxVars, chVars
<1>5. HeartbeatInv'
  BY DEF ClPong, TypeOK, HeartbeatInv, EarlyInv, Writing, Waiting, svVars, clVars, hbVars,
    ctxVars, chVars
<1>6. GoneInv'
  BY DEF ClPong, SendC, SendS, RawC, RawS, Written, GoneInv, svVars, clVars, hbVars, ctxVars,
    chVars
<1>7. EarlyInv' /\ NthInv'
  BY <1>3 DEF ClPong, TypeOK, EarlyInv, NthInv, InLoop, svVars, clVars, hbVars, ctxVars, chVars
<1> QED  BY <1>3, <1>4, <1>5, <1>6, <1>7 DEF Dialogue

\* Deliver ends.
LEMMA ClDeliveredStep ==
    ASSUME IInv, ClDelivered
    PROVE  IInv'
<1> USE DEF IInv
<1>1. Chat
  BY NothingIsQuiet DEF ClDelivered, Chat
<1>2. SvOutside /\ ClOutside
  BY DEF ClDelivered, SvOutside, ClOutside, Serving, svVars, clVars, hbVars, ctxVars, chVars
<1>3. Dialogue' /\ (Given = {} => Given' = {})
  BY <1>1, <1>2, OutsideKeepsDialogue
<1>4. TypeOK'
  <2>1. toC' \in Seq(Message) /\ toS' \in Seq(Message)
    BY <1>1 DEF Chat, Quiet
  <2> QED
    BY <2>1 DEF ClDelivered, TypeOK, Message, svVars, clVars, hbVars, ctxVars, chVars
<1>5. HeartbeatInv'
  BY DEF ClDelivered, TypeOK, HeartbeatInv, EarlyInv, Writing, Waiting, svVars, clVars, hbVars,
    ctxVars, chVars
<1>6. GoneInv'
  BY DEF ClDelivered, GoneInv, svVars, clVars, hbVars, ctxVars, chVars
<1>7. EarlyInv' /\ NthInv'
  BY <1>3 DEF ClDelivered, TypeOK, EarlyInv, NthInv, InLoop, svVars, clVars, hbVars, ctxVars,
    chVars
<1> QED  BY <1>3, <1>4, <1>5, <1>6, <1>7 DEF Dialogue

\* Another message is read.
LEMMA ClOtherStep ==
    ASSUME IInv, ClOther
    PROVE  IInv'
<1> USE DEF IInv
<1>1. Chat
  BY NothingIsQuiet, ReadIsQuiet, HarmlessMessages DEF MsgTypes, ClOther, ReadC, ReadS, Plain,
    Msg, Chat
<1>2. SvOutside /\ ClOutside
  BY DEF ClOther, SvOutside, ClOutside, Serving, svVars, clVars, hbVars, ctxVars, chVars
<1>3. Dialogue' /\ (Given = {} => Given' = {})
  BY <1>1, <1>2, OutsideKeepsDialogue
<1>4. TypeOK'
  <2>1. toC' \in Seq(Message) /\ toS' \in Seq(Message)
    BY <1>1 DEF Chat, Quiet
  <2> QED
    BY <2>1 DEF ClOther, TypeOK, Message, svVars, clVars, hbVars, ctxVars, chVars
<1>5. HeartbeatInv'
  BY DEF ClOther, TypeOK, HeartbeatInv, EarlyInv, Writing, Waiting, svVars, clVars, hbVars,
    ctxVars, chVars
<1>6. GoneInv'
  BY DEF ClOther, GoneInv, svVars, clVars, hbVars, ctxVars, chVars
<1>7. EarlyInv' /\ NthInv'
  BY <1>3 DEF ClOther, TypeOK, EarlyInv, NthInv, InLoop, svVars, clVars, hbVars, ctxVars, chVars
<1> QED  BY <1>3, <1>4, <1>5, <1>6, <1>7 DEF Dialogue

\* The client's context ends.
LEMMA ClStopStep ==
    ASSUME IInv, ClStop
    PROVE  IInv'
<1> USE DEF IInv
<1>1. Chat
  BY NothingIsQuiet DEF ClStop, Chat
<1>2. SvOutside /\ ClOutside
  BY DEF ClStop, SvOutside, ClOutside, Serving, svVars, clVars, hbVars, ctxVars, chVars
<1>3. Dialogue' /\ (Given = {} => Given' = {})
  BY <1>1, <1>2, OutsideKeepsDialogue
<1>4. TypeOK'
  <2>1. toC' \in Seq(Message) /\ toS' \in Seq(Message)
    BY <1>1 DEF Chat, Quiet
  <2> QED
    BY <2>1, BoundsAssumption DEF ClStop, Comes, TypeOK, Message, svVars, clVars, hbVars,
      ctxVars, chVars
<1>5. HeartbeatInv'
  BY BoundsAssumption DEF ClStop, Comes, TypeOK, HeartbeatInv, EarlyInv, Writing, Waiting,
    svVars, clVars, hbVars, ctxVars, chVars
<1>6. GoneInv'
  BY DEF ClStop, GoneInv, svVars, clVars, hbVars, ctxVars, chVars
<1>7. EarlyInv' /\ NthInv'
  BY <1>3 DEF ClStop, TypeOK, EarlyInv, NthInv, InLoop, svVars, clVars, hbVars, ctxVars, chVars
<1> QED  BY <1>3, <1>4, <1>5, <1>6, <1>7 DEF Dialogue

\* The client says goodbye.
LEMMA ClSaysByeStep ==
    ASSUME IInv, ClSaysBye
    PROVE  IInv'
<1> USE DEF IInv
<1>1. Chat
  BY NothingIsQuiet, SendIsQuiet, HarmlessMessages DEF MsgTypes, ClSaysBye, Chat
<1>2. SvOutside /\ ClOutside
  BY DEF ClSaysBye, SvOutside, ClOutside, Serving, svVars, clVars, hbVars, ctxVars, chVars
<1>3. Dialogue' /\ (Given = {} => Given' = {})
  BY <1>1, <1>2, OutsideKeepsDialogue
<1>4. TypeOK'
  <2>1. toC' \in Seq(Message) /\ toS' \in Seq(Message)
    BY <1>1 DEF Chat, Quiet
  <2> QED
    BY <2>1 DEF ClSaysBye, TypeOK, Message, svVars, clVars, hbVars, ctxVars, chVars
<1>5. HeartbeatInv'
  BY DEF ClSaysBye, TypeOK, HeartbeatInv, EarlyInv, Writing, Waiting, svVars, clVars, hbVars,
    ctxVars, chVars
<1>6. GoneInv'
  BY DEF ClSaysBye, SendC, SendS, RawC, RawS, Written, GoneInv, svVars, clVars, hbVars, ctxVars,
    chVars
<1>7. EarlyInv' /\ NthInv'
  BY <1>3 DEF ClSaysBye, TypeOK, EarlyInv, NthInv, InLoop, svVars, clVars, hbVars, ctxVars,
    chVars
<1> QED  BY <1>3, <1>4, <1>5, <1>6, <1>7 DEF Dialogue

\* A SOCKS user of the client.
LEMMA SocksUserStep ==
    ASSUME IInv, SocksUser
    PROVE  IInv'
<1> USE DEF IInv
<1>1. Chat
  BY NothingIsQuiet, SendIsQuiet, HarmlessMessages DEF MsgTypes, SocksUser, Chat
<1>2. SvOutside /\ ClOutside
  BY DEF SocksUser, SvOutside, ClOutside, Serving, svVars, clVars, hbVars, ctxVars, chVars
<1>3. Dialogue' /\ (Given = {} => Given' = {})
  BY <1>1, <1>2, OutsideKeepsDialogue
<1>4. TypeOK'
  <2>1. toC' \in Seq(Message) /\ toS' \in Seq(Message)
    BY <1>1 DEF Chat, Quiet
  <2> QED
    BY <2>1, BoundsAssumption DEF SocksUser, Comes, TypeOK, Message, svVars, clVars, hbVars,
      ctxVars, chVars
<1>5. HeartbeatInv'
  BY BoundsAssumption DEF SocksUser, Comes, TypeOK, HeartbeatInv, EarlyInv, Writing, Waiting,
    svVars, clVars, hbVars, ctxVars, chVars
<1>6. GoneInv'
  BY DEF SocksUser, SendC, SendS, RawC, RawS, Written, GoneInv, svVars, clVars, hbVars, ctxVars,
    chVars
<1>7. EarlyInv' /\ NthInv'
  BY <1>3 DEF SocksUser, TypeOK, EarlyInv, NthInv, InLoop, svVars, clVars, hbVars, ctxVars,
    chVars
<1> QED  BY <1>3, <1>4, <1>5, <1>6, <1>7 DEF Dialogue

\* It sends a payload.
LEMMA SocksDataStep ==
    ASSUME IInv, SocksData
    PROVE  IInv'
<1> USE DEF IInv
<1>1. Chat
  BY NothingIsQuiet, SendIsQuiet, HarmlessMessages DEF MsgTypes, SocksData, Chat
<1>2. SvOutside /\ ClOutside
  BY DEF SocksData, SvOutside, ClOutside, Serving, svVars, clVars, hbVars, ctxVars, chVars
<1>3. Dialogue' /\ (Given = {} => Given' = {})
  BY <1>1, <1>2, OutsideKeepsDialogue
<1>4. TypeOK'
  <2>1. toC' \in Seq(Message) /\ toS' \in Seq(Message)
    BY <1>1 DEF Chat, Quiet
  <2> QED
    BY <2>1, BoundsAssumption DEF SocksData, Comes, TypeOK, Message, svVars, clVars, hbVars,
      ctxVars, chVars
<1>5. HeartbeatInv'
  BY BoundsAssumption DEF SocksData, Comes, TypeOK, HeartbeatInv, EarlyInv, Writing, Waiting,
    svVars, clVars, hbVars, ctxVars, chVars
<1>6. GoneInv'
  BY DEF SocksData, SendC, SendS, RawC, RawS, Written, GoneInv, svVars, clVars, hbVars, ctxVars,
    chVars
<1>7. EarlyInv' /\ NthInv'
  BY <1>3 DEF SocksData, TypeOK, EarlyInv, NthInv, InLoop, svVars, clVars, hbVars, ctxVars,
    chVars
<1> QED  BY <1>3, <1>4, <1>5, <1>6, <1>7 DEF Dialogue

\* The connection breaks.
LEMMA LinkBreaksStep ==
    ASSUME IInv, LinkBreaks
    PROVE  IInv'
<1> USE DEF IInv
<1>1. Chat
  BY NothingIsQuiet DEF LinkBreaks, Chat
<1>2. SvOutside /\ ClOutside
  BY DEF LinkBreaks, SvOutside, ClOutside, Serving, svVars, clVars, hbVars, ctxVars, chVars
<1>3. Dialogue' /\ (Given = {} => Given' = {})
  BY <1>1, <1>2, OutsideKeepsDialogue
<1>4. TypeOK'
  <2>1. toC' \in Seq(Message) /\ toS' \in Seq(Message)
    BY <1>1 DEF Chat, Quiet
  <2>2. events' \in 0..MaxEvents
    BY BoundsAssumption DEF LinkBreaks, Comes, TypeOK
  <2>3. up' \in BOOLEAN /\ UNCHANGED <<svVars, clVars, hbVars, ctxVars, disturbed, chVars>>
    BY DEF LinkBreaks
  <2> QED
    BY <2>1, <2>2, <2>3 DEF TypeOK, Message, svVars, clVars, hbVars, ctxVars, chVars
<1>5. HeartbeatInv'
  BY BoundsAssumption DEF LinkBreaks, Comes, TypeOK, HeartbeatInv, EarlyInv, Writing, Waiting,
    svVars, clVars, hbVars, ctxVars, chVars
<1>6. GoneInv'
  BY DEF LinkBreaks, GoneInv, svVars, clVars, hbVars, ctxVars, chVars
<1>7. EarlyInv' /\ NthInv'
  BY <1>3 DEF LinkBreaks, TypeOK, EarlyInv, NthInv, InLoop, svVars, clVars, hbVars, ctxVars,
    chVars
<1> QED  BY <1>3, <1>4, <1>5, <1>6, <1>7 DEF Dialogue

\* A broken connection loses a suffix.
LEMMA LoseStep ==
    ASSUME IInv, Lose
    PROVE  IInv'
<1> USE DEF IInv
<1>1. Chat
  BY NothingIsQuiet, FrontIsQuiet DEF Lose, TypeOK, Message, Chat
<1>2. SvOutside /\ ClOutside
  BY DEF Lose, SvOutside, ClOutside, Serving, svVars, clVars, hbVars, ctxVars, chVars
<1>3. Dialogue' /\ (Given = {} => Given' = {})
  BY <1>1, <1>2, OutsideKeepsDialogue
<1>4. TypeOK'
  <2>1. toC' \in Seq(Message) /\ toS' \in Seq(Message)
    BY <1>1 DEF Chat, Quiet
  <2> QED
    BY <2>1 DEF Lose, TypeOK, Message, svVars, clVars, hbVars, ctxVars, chVars
<1>5. HeartbeatInv'
  BY DEF Lose, TypeOK, HeartbeatInv, EarlyInv, Writing, Waiting, svVars, clVars, hbVars,
    ctxVars, chVars
<1>6. GoneInv'
  BY DEF Lose, GoneInv, svVars, clVars, hbVars, ctxVars, chVars
<1>7. EarlyInv' /\ NthInv'
  BY <1>3 DEF Lose, TypeOK, EarlyInv, NthInv, InLoop, svVars, clVars, hbVars, ctxVars, chVars
<1> QED  BY <1>3, <1>4, <1>5, <1>6, <1>7 DEF Dialogue

-----------------------------------------------------------------------------
(* The dialogue.                                                           *)

\* The only message of type t in q is read; r is what remains.
TakesOnly(q, r, t) ==
    /\ r \in Seq(Message)
    /\ OfType(r, t) = {}
    /\ \A k \in DOMAIN r : \E j \in DOMAIN q : r[k] = q[j]
    /\ IsCut(q) => IsCut(r)

LEMMA TailTakesOnly ==
    ASSUME NEW q \in Seq(Message), q # <<>>, NEW t, t # "Cut", Head(q).type = t,
           \A j, k \in OfType(q, t) : j = k
    PROVE  /\ 1 \in OfType(q, t) /\ q[1] = Head(q)
           /\ TakesOnly(q, Tail(q), t)
<1> DEFINE r == Tail(q)
<1>1. /\ r \in Seq(Message) /\ Len(q) \in Nat \ {0}
      /\ DOMAIN r = 1..Len(q) - 1 /\ DOMAIN q = 1..Len(q)
      /\ \A k \in DOMAIN r : k + 1 \in DOMAIN q /\ k + 1 # 1 /\ r[k] = q[k + 1]
      /\ \A k \in DOMAIN q : k # 1 => k - 1 \in DOMAIN r /\ r[k - 1] = q[k]
      /\ q[1] = Head(q)
  OBVIOUS
<1> HIDE DEF r
<1>2. 1 \in OfType(q, t)
  BY <1>1 DEF OfType
<1>3. OfType(r, t) = {}
  <2> SUFFICES ASSUME NEW k \in OfType(r, t) PROVE FALSE
    OBVIOUS
  <2>1. k + 1 \in OfType(q, t) /\ k + 1 # 1
    BY <1>1 DEF OfType
  <2> QED  BY <2>1, <1>2
<1>4. \A k \in DOMAIN r : \E j \in DOMAIN q : r[k] = q[j]
  BY <1>1
<1>5. IsCut(q) => IsCut(r)
  BY <1>1 DEF IsCut
<1>6. TakesOnly(q, r, t)
  BY <1>1, <1>3, <1>4, <1>5 DEF TakesOnly
<1> QED  BY <1>1, <1>2, <1>6 DEF r

\* Queue r is q with m added, the only message of its type.
AddsFirst(q, r, m) ==
    /\ r \in Seq(Message)
    /\ OfType(r, m.type) = {Len(q) + 1}
    /\ r[Len(q) + 1] = m
    /\ \A k \in DOMAIN r : r[k] = m \/ \E j \in DOMAIN q : r[k] = q[j]

LEMMA AppendAddsFirst ==
    ASSUME NEW q \in Seq(Message), NEW m \in Message, OfType(q, m.type) = {}
    PROVE  AddsFirst(q, Append(q, m), m)
<1> DEFINE r == Append(q, m)
<1>1. /\ r \in Seq(Message) /\ DOMAIN r = 1..Len(q) + 1 /\ DOMAIN q = 1..Len(q) /\ Len(q) \in Nat
      /\ \A k \in DOMAIN q : r[k] = q[k]
      /\ r[Len(q) + 1] = m
      /\ \A k \in DOMAIN r : k = Len(q) + 1 \/ k \in DOMAIN q
      /\ Len(q) + 1 \in DOMAIN r
  OBVIOUS
<1> HIDE DEF r
<1>2. OfType(r, m.type) = {Len(q) + 1}
  BY <1>1 DEF OfType
<1>3. AddsFirst(q, r, m)
  BY <1>1, <1>2 DEF AddsFirst
<1> QED  BY <1>3 DEF r


\* The server takes the request: it is the client's only one, for the tunnel it
\* waits for, and nothing answers it yet.
TakesRequest(i) ==
    /\ toS' \in Seq(Message)
    /\ Asked' = {}
    /\ IsCut(toS) => IsCut(toS')
    /\ Given = {}
    /\ cl \in {"await", "gone"}
    /\ nth = i
    /\ i \in Tunnels

LEMMA ServerTakesRequest ==
    ASSUME IInv, NEW i \in Tunnels, sv = "loop",
           ReadS(Msg("RequestTunnel", i, TRUE)), toS' = Tail(toS)
    PROVE  TakesRequest(i)
<1> USE DEF IInv
<1>1. toS \in Seq(Message) /\ \A j, k \in OfType(toS, "RequestTunnel") : j = k
  BY DEF TypeOK, Message, AtMostOne, OfType, Asked
<1>2. toS # <<>> /\ Head(toS).type = "RequestTunnel" /\ Head(toS).tun = i
  BY DEF ReadS, Msg
<1>3. /\ 1 \in OfType(toS, "RequestTunnel") /\ toS[1] = Head(toS)
      /\ TakesOnly(toS, toS', "RequestTunnel")
  BY <1>1, <1>2, TailTakesOnly
<1>4. 1 \in Asked /\ toS[1].tun = i
  BY <1>2, <1>3 DEF OfType, Asked
<1>5. toS' \in Seq(Message) /\ Asked' = {} /\ (IsCut(toS) => IsCut(toS'))
  BY <1>3 DEF TakesOnly, OfType, Asked
<1> QED  BY <1>4, <1>5 DEF TakesRequest, AtMostOne, DueInv, TypeOK

\* The request of tunnel i is taken, and its port or its route is there if ok: what
\* both kinds have in common.
TakesUp(i, ok) ==
    /\ sv = "loop" /\ sv' = "reply" /\ replyTo' = i /\ replyOk' \in BOOLEAN
    /\ routed \subseteq routed' /\ routed' \subseteq Tunnels
    /\ replyOk' /\ Cfg[i] = "tcp" => i \in routed'
    /\ UNCHANGED <<toC, up, clVars, hbVars, ctxVars, disturbed, chVars, events>>

LEMMA TakesUpStep ==
    ASSUME IInv, NEW i \in Tunnels, NEW ok \in BOOLEAN,
           ReadS(Msg("RequestTunnel", i, TRUE)), toS' = Tail(toS), TakesUp(i, ok)
    PROVE  IInv'
<1>1. TakesRequest(i)
  BY ServerTakesRequest DEF TakesUp
<1> USE DEF IInv
<1>2. Given' = Given /\ IsCut(toC)' = IsCut(toC)
  BY DEF TakesUp, Given, IsCut
<1>3. TypeOK'
  <2>1. i # 0
    BY CfgAssumption DEF Tunnels
  <2> QED  BY <1>1, <2>1 DEF TakesRequest, TakesUp, TypeOK, Message, clVars, hbVars, ctxVars,
    chVars
<1>4. HeartbeatInv'
  BY DEF TakesUp, HeartbeatInv, Writing, Waiting, hbVars
<1>5. GoneInv' /\ EarlyInv' /\ NthInv'
  BY DEF TakesUp, GoneInv, EarlyInv, NthInv, InLoop, clVars
<1>6. TunnelsNamed'
  BY <1>1 DEF TakesRequest, TunnelsNamed, TakesUp
<1>7. RoutedInv'
  BY <1>1, <1>2 DEF TakesRequest, RoutedInv, IsOpen, Serving, TakesUp, clVars, ctxVars
<1>8. AtMostOne' /\ DueInv'
  BY <1>1, <1>2 DEF TakesRequest, AtMostOne, DueInv, TakesUp, clVars
<1> QED  BY <1>3, <1>4, <1>5, <1>6, <1>7, <1>8

\* A TCP tunnel's port is opened, unless it cannot be had.
LEMMA SvTCPTunnelStep ==
    ASSUME IInv, NEW i \in Tunnels, NEW ok \in BOOLEAN, SvTCPTunnel(i, ok)
    PROVE  IInv'
<1>1. TakesUp(i, ok)
  BY DEF IInv, SvTCPTunnel, TakesUp, TypeOK
<1> QED  BY <1>1, TakesUpStep DEF SvTCPTunnel

\* An HTTP tunnel is routed, unless its hostname is taken.
LEMMA SvHTTPTunnelStep ==
    ASSUME IInv, NEW i \in Tunnels, NEW free \in BOOLEAN, SvHTTPTunnel(i, free)
    PROVE  IInv'
<1>1. TakesUp(i, free)
  BY DEF IInv, SvHTTPTunnel, TakesUp, TypeOK
<1> QED  BY <1>1, TakesUpStep DEF SvHTTPTunnel

\* The server answers a request when no other answer is on its way: the answer gets
\* there, or is lost with the connection or to a cut.
Answers(m) ==
    /\ toC' \in Seq(Message)
    /\ \/ Given' = {Len(toC) + 1} /\ toC'[Len(toC) + 1] = m
       \/ Given' = {} /\ (up => IsCut(toC'))
    /\ \A k \in DOMAIN toC' : toC'[k] = m \/ Harmless(toC'[k])
                                \/ \E j \in DOMAIN toC : toC'[k] = toC[j]

LEMMA ServerAnswers ==
    ASSUME TypeOK, Given = {}, NEW i \in Tunnels, NEW ok \in BOOLEAN,
           SendC(Msg("TunnelResp", i, ok))
    PROVE  Answers(Msg("TunnelResp", i, ok))
<1> DEFINE m == Msg("TunnelResp", i, ok)
           c == Plain("Cut")
<1>1. m \in Message /\ m.type = "TunnelResp"
  BY DEF Message, Msg, MsgTypes
<1>2. toC \in Seq(Message) /\ OfType(toC, "TunnelResp") = {}
  BY DEF TypeOK, Message, OfType, Given
<1>3. c \in Message /\ c.type = "Cut" /\ Harmless(c)
  BY DEF Harmless, Message, Plain, Msg, MsgTypes
<1>4. CASE toC' = toC /\ (up => IsCut(toC))
  BY <1>2, <1>4 DEF OfType, Given, Answers, IsCut
<1>5. CASE toC' = Append(toC, m)
  <2>1. AddsFirst(toC, toC', m)
    BY <1>1, <1>2, <1>5, AppendAddsFirst
  <2>2. Given' = {Len(toC) + 1}
    BY <2>1, <1>1 DEF AddsFirst, OfType, Given
  <2> QED  BY <2>1, <2>2 DEF AddsFirst, Answers
<1>6. CASE toC' = Append(toC, c)
  <2> DEFINE r == Append(toC, c)
  <2>1. /\ r \in Seq(Message) /\ DOMAIN r = 1..Len(toC) + 1
        /\ DOMAIN toC = 1..Len(toC) /\ Len(toC) \in Nat
        /\ \A k \in DOMAIN toC : r[k] = toC[k]
        /\ r[Len(toC) + 1] = c
        /\ \A k \in DOMAIN r : k = Len(toC) + 1 \/ k \in DOMAIN toC
        /\ Len(toC) + 1 \in DOMAIN r
    BY <1>2, <1>3
  <2>2. toC' = r
    BY <1>6
  <2> HIDE DEF r, c
  <2>3. Given' = {}
    BY <1>2, <1>3, <2>1, <2>2 DEF OfType, Given
  <2>4. IsCut(toC')
    BY <1>3, <2>1, <2>2 DEF IsCut
  <2>5. \A k \in DOMAIN r : Harmless(r[k]) \/ \E j \in DOMAIN toC : r[k] = toC[j]
    BY <1>3, <2>1
  <2> QED  BY <2>1, <2>2, <2>3, <2>4, <2>5 DEF Answers
<1> QED  BY <1>4, <1>5, <1>6 DEF SendC, Written

\* The answer is written, or the port is closed again.
LEMMA SvReplyStep ==
    ASSUME IInv, SvReply
    PROVE  IInv'
<1> DEFINE m == Msg("TunnelResp", replyTo, replyOk)
<1> USE DEF IInv
<1>1. /\ Given = {} /\ Asked = {} /\ replyTo \in Tunnels /\ replyOk \in BOOLEAN
      /\ nth = replyTo /\ cl \in {"await", "gone"}
  BY DEF SvReply, AtMostOne, DueInv, TypeOK
<1>2. Answers(m)
  BY <1>1, ServerAnswers DEF SvReply
<1>3. m.type = "TunnelResp" /\ m.tun = replyTo /\ m.ok = replyOk
  BY DEF Msg
<1> HIDE DEF m
<1>4. Asked' = {} /\ toS' = toS
  BY <1>1 DEF SvReply, Asked
<1>5. /\ sv = "reply" /\ sv' = "loop" /\ replyTo' = 0 /\ replyOk' = FALSE
      /\ routed' \subseteq routed
      /\ \A i \in Tunnels : Cfg[i] = "tcp" /\ i \in routed /\ i # replyTo => i \in routed'
      /\ up => routed' = routed
      /\ UNCHANGED <<up, clVars, hbVars, ctxVars, disturbed, chVars, events>>
  BY DEF SvReply
<1>6. TypeOK'
  <2>1. toC' \in Seq(Message) /\ toS' \in Seq(Message) /\ routed' \subseteq Tunnels
    BY <1>2, <1>4, <1>5 DEF Answers, TypeOK, Message
  <2>2. replyTo' \in Tunnels \cup {0} /\ replyOk' \in BOOLEAN /\ sv' = "loop"
    BY <1>5
  <2> QED  BY <1>5, <2>1, <2>2 DEF TypeOK, Message, clVars, hbVars, ctxVars, chVars
<1>7. HeartbeatInv'
  BY <1>5 DEF HeartbeatInv, Writing, Waiting, hbVars
<1>8. GoneInv'
  BY <1>5 DEF SvReply, SendC, Written, GoneInv, clVars
<1>9. EarlyInv' /\ NthInv'
  BY <1>5 DEF EarlyInv, NthInv, InLoop, clVars
<1>10. TunnelsNamed'
  BY <1>1, <1>2, <1>3, <1>4 DEF Answers, TunnelsNamed, Harmless
<1>11. RoutedInv'
  <2>1. replyTo \notin dataAddrs /\ dataAddrs \subseteq Tunnels
    BY <1>1 DEF NthInv, TypeOK
  <2> SUFFICES ASSUME Serving', ~svCancelled'
               PROVE  /\ \A i \in dataAddrs : Cfg[i] = "tcp" => i \in routed'
                      /\ \A k \in Given' : toC'[k].ok =>
                             (Cfg[toC'[k].tun] = "tcp" => toC'[k].tun \in routed')
    BY <1>5 DEF RoutedInv, IsOpen, clVars
  <2>2. RoutedInv /\ Serving /\ ~svCancelled
    BY <1>5 DEF Serving, ctxVars
  <2>3. \A i \in dataAddrs : Cfg[i] = "tcp" => i \in routed'
    BY <1>5, <2>1, <2>2 DEF RoutedInv, IsOpen
  <2>4. up => \A k \in Given' : toC'[k].ok =>
                  (Cfg[toC'[k].tun] = "tcp" => toC'[k].tun \in routed')
    BY <1>2, <1>3, <1>5, <2>2 DEF Answers, RoutedInv, IsOpen
  <2>5. ~up => Given' = {}
    BY <1>1 DEF SvReply, SendC, Written, Given
  <2> QED  BY <2>3, <2>4, <2>5
<1>12. AtMostOne' /\ DueInv'
  BY <1>1, <1>2, <1>3, <1>4, <1>5 DEF Answers, AtMostOne, DueInv, clVars
<1> QED  BY <1>6, <1>7, <1>8, <1>9, <1>10, <1>11, <1>12

\* The client asks for its next tunnel.
LEMMA ClAskStep ==
    ASSUME IInv, ClAsk
    PROVE  IInv'
<1> USE DEF IInv
<1> DEFINE m == Msg("RequestTunnel", nth, TRUE)
<1>1. /\ toS \in Seq(Message) /\ Asked = {} /\ Given = {} /\ Given' = {} /\ sv # "reply"
      /\ nth \in Tunnels
  BY DEF ClAsk, DueInv, TypeOK, Message, Given
<1>2. m \in Message /\ m.type = "RequestTunnel" /\ m.tun = nth
  BY <1>1 DEF Msg, Message, MsgTypes
<1>3. /\ toS' \in Seq(Message)
      /\ \/ up /\ Asked' = {Len(toS) + 1} /\ toS'[Len(toS) + 1].tun = nth
         \/ Asked' = {} /\ toS' = toS /\ (up => IsCut(toS))
  <2>1. CASE toS' = Append(toS, m) /\ up
    <3>1. AddsFirst(toS, toS', m)
      BY <1>1, <1>2, <2>1, AppendAddsFirst DEF OfType, Asked
    <3> QED  BY <1>2, <2>1, <3>1 DEF AddsFirst, OfType, Asked
  <2>2. CASE toS' = toS /\ (up => IsCut(toS))
    BY <1>1, <2>2 DEF Asked
  <2> QED  BY <2>1, <2>2 DEF ClAsk, RawS, Written
<1> HIDE DEF m
<1>4. TypeOK'
  BY <1>3 DEF ClAsk, TypeOK, Message, svVars, hbVars, ctxVars, chVars
<1>5. HeartbeatInv'
  BY DEF ClAsk, HeartbeatInv, Writing, Waiting, hbVars
<1>6. GoneInv' /\ EarlyInv' /\ NthInv'
  BY <1>1, <1>3 DEF ClAsk, RawS, Written, GoneInv, EarlyInv, NthInv, InLoop, svVars, hbVars
<1>7. TunnelsNamed'
  BY <1>1, <1>3 DEF TunnelsNamed, ClAsk
<1>8. RoutedInv'
  BY <1>1 DEF RoutedInv, IsOpen, Serving, ClAsk, svVars, ctxVars
<1>9. AtMostOne' /\ DueInv'
  BY <1>1, <1>3 DEF AtMostOne, DueInv, IsCut, ClAsk, svVars
<1> QED  BY <1>4, <1>5, <1>6, <1>7, <1>8, <1>9

\* The client reads the answer: it is that of the tunnel it waits for.
LEMMA ClAnsweredStep ==
    ASSUME IInv, NEW i \in Tunnels, ClAnswered(i)
    PROVE  IInv'
<1> USE DEF IInv
<1>1. toC \in Seq(Message) /\ \A j, k \in OfType(toC, "TunnelResp") : j = k
  BY DEF TypeOK, Message, AtMostOne, OfType, Given
<1>2. /\ toC # <<>> /\ Head(toC).type = "TunnelResp" /\ Head(toC).tun = i /\ Head(toC).ok
      /\ toC' = Tail(toC)
  BY DEF ClAnswered, ReadC, Msg
<1>3. /\ 1 \in OfType(toC, "TunnelResp") /\ toC[1] = Head(toC)
      /\ TakesOnly(toC, toC', "TunnelResp")
  BY <1>1, <1>2, TailTakesOnly
<1>4. 1 \in Given /\ toC[1].tun = i /\ toC[1].ok
  BY <1>2, <1>3 DEF OfType, Given
<1>5. toC' \in Seq(Message) /\ Given' = {}
  BY <1>3 DEF TakesOnly, OfType, Given
<1>6. i = nth /\ Asked = {} /\ Asked' = {} /\ sv # "reply"
  BY <1>4 DEF ClAnswered, DueInv, AtMostOne, Asked
<1>7. sv \notin {"greet", "await"}
  BY <1>4 DEF EarlyInv
<1>8. nth \in 1..Len(Cfg) /\ Len(Cfg) \in Nat /\ Tunnels = 1..Len(Cfg)
  BY <1>6, CfgAssumption DEF Tunnels
<1>9. TypeOK'
  <2>1. nth' \in 1..Len(Cfg) + 1
    BY <1>8 DEF ClAnswered
  <2> QED  BY <1>5, <2>1 DEF ClAnswered, TypeOK, Message, svVars, hbVars, ctxVars, chVars
<1>10. HeartbeatInv'
  BY DEF ClAnswered, HeartbeatInv, Writing, Waiting, hbVars
<1>11. GoneInv' /\ EarlyInv'
  BY <1>7 DEF ClAnswered, GoneInv, EarlyInv, svVars
<1>12. NthInv'
  BY <1>6, <1>8 DEF ClAnswered, NthInv, InLoop
<1>13. TunnelsNamed'
  BY <1>3, <1>6 DEF TakesOnly, TunnelsNamed
<1>14. RoutedInv'
  BY <1>4, <1>5 DEF RoutedInv, IsOpen, Serving, ClAnswered, svVars, ctxVars
<1>15. AtMostOne' /\ DueInv'
  BY <1>5, <1>6 DEF AtMostOne, DueInv, ClAnswered, svVars
<1> QED  BY <1>9, <1>10, <1>11, <1>12, <1>13, <1>14, <1>15

-----------------------------------------------------------------------------
(* The theorems.                                                           *)

LEMMA InitOK == Init => IInv
<1> SUFFICES ASSUME Init PROVE IInv
  OBVIOUS
<1>1. <<>> \in Seq(Message) /\ DOMAIN <<>> = {}
  OBVIOUS
<1>2. Len(Cfg) \in Nat /\ 1 \in 1..Len(Cfg) + 1 /\ 0 \in 0..MaxEvents /\ 0 \in Nat
  BY CfgAssumption, BoundsAssumption
<1>3. TypeOK
  BY <1>1, <1>2 DEF Init, TypeOK, Message
<1>4. Asked = {} /\ Given = {}
  BY <1>1 DEF Init, Asked, Given
<1>5. NthInv /\ HeartbeatInv
  BY DEF Init, NthInv, InLoop, HeartbeatInv, Writing, Waiting
<1>6. TunnelsNamed
  BY <1>1, <1>4 DEF Init, TunnelsNamed
<1>7. GoneInv /\ EarlyInv /\ RoutedInv
  BY <1>4 DEF Init, GoneInv, EarlyInv, RoutedInv, Serving
<1>8. AtMostOne /\ DueInv
  BY <1>4 DEF Init, AtMostOne, DueInv
<1> QED  BY <1>3, <1>5, <1>6, <1>7, <1>8 DEF IInv

LEMMA ServerStepOK ==
    ASSUME IInv, ServerStep \/ ServerWrites \/ SvDelivered
    PROVE  IInv'
<1>1. ASSUME SvLeave, UNCHANGED toC \/ SendC(Plain("DisconnectAck")),
             UNCHANGED <<disturbed, clVars, clStop, saidBye, events>>
      PROVE  IInv'
  BY <1>1, ServerLeaves
<1>2. CASE SvNotRegistered
  BY <1>1, <1>2 DEF SvNotRegistered
<1>3. CASE SvHandshakeFails
  BY <1>1, <1>3 DEF SvHandshakeFails
<1>4. CASE SvAck
  BY <1>1, <1>4 DEF SvAck
<1>5. CASE SvLoopEnds
  BY <1>1, <1>5 DEF SvLoopEnds
<1>6. CASE SvGreet \/ SvRegistered \/ SvPong \/ SvOther \/ SvSocksConnect
  BY <1>6, SvGreetStep, SvRegisteredStep, SvPongStep, SvOtherStep, SvSocksConnectStep
<1>7. CASE SvData \/ SvDelivered \/ SvDisconnect \/ SvReply
  BY <1>7, SvDataStep, SvDeliveredStep, SvDisconnectStep, SvReplyStep
<1>8. CASE \E i \in Tunnels, ok \in BOOLEAN : SvTCPTunnel(i, ok) \/ SvHTTPTunnel(i, ok)
  BY <1>8, SvHTTPTunnelStep, SvTCPTunnelStep
<1> QED
  BY <1>2, <1>3, <1>4, <1>5, <1>6, <1>7, <1>8 DEF ServerStep, ServerWrites

LEMMA ClientStepOK ==
    ASSUME IInv, ClientStep \/ ClientWrites \/ ClDelivered \/ ClGarbled \/ ClLoopEnds
    PROVE  IInv'
<1>1. ASSUME ClLeave, UNCHANGED toS \/ \E m : Harmless(m) /\ (SendS(m) \/ RawS(m)),
             disturbed' \in BOOLEAN,
             UNCHANGED <<svVars, nth, dataAddrs, hbVars, ctxVars, chVars, events>>
      PROVE  IInv'
  BY <1>1, ClientLeaves
<1>2. disturbed \in BOOLEAN
  BY DEF IInv, TypeOK
<1>3. CASE ClRefuses
  BY <1>1, <1>2, <1>3, HarmlessMessages DEF ClRefuses
<1>4. CASE ClHandshakeFails
  BY <1>1, <1>2, <1>4 DEF ClHandshakeFails
<1>5. CASE ClNotAnswered
  BY <1>1, <1>5 DEF ClNotAnswered
<1>6. CASE ClConnFails
  BY <1>1, <1>2, <1>6 DEF ClConnFails
<1>7. CASE ClGarbled
  BY <1>1, <1>2, <1>7 DEF ClGarbled
<1>8. CASE ClAck
  BY <1>1, <1>2, <1>8, HarmlessMessages DEF ClAck, MsgTypes
<1>9. CASE ClLoopEnds
  BY <1>1, <1>2, <1>9 DEF ClLoopEnds
<1>10. CASE \/ \E ok \in BOOLEAN : ClGreeted(ok)
            \/ ClHandshake \/ ClBegins \/ \E i \in Tunnels : ClAnswered(i)
  BY <1>10, ClGreetedStep, ClHandshakeStep, ClBeginsStep, ClAnsweredStep
<1>11. CASE ClReads \/ ClOther \/ ClAsk \/ ClPong \/ ClDelivered
  BY <1>11, ClReadsStep, ClOtherStep, ClAskStep, ClPongStep, ClDeliveredStep
<1> QED
  BY <1>3, <1>4, <1>5, <1>6, <1>7, <1>8, <1>9, <1>10, <1>11 DEF ClientStep, ClientWrites

LEMMA OthersOK ==
    ASSUME IInv, Others
    PROVE  IInv'
<1>1. CASE \/ \E late \in BOOLEAN : HeartbeatTick(late)
           \/ ClockTick \/ Pinged \/ HeartbeatEnds
  BY <1>1, HeartbeatTickStep, ClockTickStep, PingedStep, HeartbeatEndsStep
<1>2. CASE \E i \in Tunnels : UserArrives(i) \/ ListenerCloses(i)
  BY <1>2, UserArrivesStep, ListenerClosesStep
<1>3. CASE SocksUser \/ SocksData \/ SvSocksData \/ \E ok \in BOOLEAN : SvDialed(ok)
  BY <1>3, SocksUserStep, SocksDataStep, SvSocksDataStep, SvDialedStep
<1>4. CASE ServerShutdown \/ ServerSaysBye \/ ClStop \/ ClSaysBye
  BY <1>4, ServerShutdownStep, ServerSaysByeStep, ClStopStep, ClSaysByeStep
<1> QED  BY <1>1, <1>2, <1>3, <1>4 DEF Others

LEMMA StutterOK ==
    ASSUME IInv, UNCHANGED vars
    PROVE  IInv'
<1> USE DEF IInv, vars, svVars, clVars, hbVars, ctxVars, chVars
<1>1. TypeOK' /\ HeartbeatInv' /\ NthInv' /\ GoneInv'
  BY DEF TypeOK, HeartbeatInv, Writing, Waiting, NthInv, InLoop, GoneInv
<1>2. Asked' = Asked /\ Given' = Given /\ IsCut(toS)' = IsCut(toS) /\ IsCut(toC)' = IsCut(toC)
  BY DEF Asked, Given, IsCut
<1>3. EarlyInv' /\ TunnelsNamed' /\ RoutedInv' /\ AtMostOne' /\ DueInv'
  BY <1>2 DEF EarlyInv, TunnelsNamed, RoutedInv, IsOpen, Serving, AtMostOne, DueInv
<1> QED  BY <1>1, <1>3

\* The invariant holds in every state of the session of HandleControlConn and
\* HandleServerConn, for every list of tunnels.
THEOREM Invariance == Spec => []IInv
<1>1. IInv /\ [Next]_vars => IInv'
  <2> SUFFICES ASSUME IInv, [Next]_vars PROVE IInv'
    OBVIOUS
  <2>1. CASE ServerStep \/ ServerWrites \/ SvDelivered
    BY <2>1, ServerStepOK
  <2>2. CASE ClientStep \/ ClientWrites \/ ClDelivered \/ ClGarbled \/ ClLoopEnds
    BY <2>2, ClientStepOK
  <2>3. CASE Others
    BY <2>3, OthersOK
  <2>4. CASE LinkBreaks \/ Lose
    BY <2>4, LinkBreaksStep, LoseStep
  <2>5. CASE UNCHANGED vars
    BY <2>5, StutterOK
  <2> QED  BY <2>1, <2>2, <2>3, <2>4, <2>5 DEF Next
<1> QED  BY <1>1, InitOK, PTL DEF Spec

\* The dialogue of HandleServerConn and HandleControlConn stays in step: while the
\* client waits there is one request or answer, and it is the one it waits for, unless
\* a SOCKS user's frame has cut it; and no OpenConnection reaches the client's loop
\* for a tunnel it does not know.
THEOREM SetupStaysInStep == Spec => []SetupInv
<1>1. IInv => SetupInv
  <2> SUFFICES ASSUME IInv PROVE SetupInv
    OBVIOUS
  <2> USE DEF IInv
  <2>1. AnswerIsOnItsWay
    <3> DEFINE n == Cardinality(Asked) + Cardinality(Given) + (IF sv = "reply" THEN 1 ELSE 0)
    <3> SUFFICES ASSUME cl = "await", up, Serving
                 PROVE  n \in (IF IsCut(toS) \/ IsCut(toC) THEN {0, 1} ELSE {1})
      BY DEF AnswerIsOnItsWay, DueInv
    <3>1. Cardinality({}) = 0
      BY FS_EmptySet
    <3>2. CASE Asked # {}
      <4>1. PICK k \in Asked : TRUE
        BY <3>2
      <4>2. Asked = {k} /\ Given = {} /\ sv # "reply"
        BY <4>1 DEF AtMostOne
      <4>3. Cardinality({k}) = 1
        BY FS_Singleton
      <4> QED  BY <3>1, <4>2, <4>3
    <3>3. CASE Asked = {} /\ Given # {}
      <4>1. PICK k \in Given : TRUE
        BY <3>3
      <4>2. Given = {k} /\ sv # "reply"
        BY <4>1 DEF AtMostOne
      <4>3. Cardinality({k}) = 1
        BY FS_Singleton
      <4> QED  BY <3>1, <3>3, <4>2, <4>3
    <3>4. CASE Asked = {} /\ Given = {}
      BY <3>1, <3>4 DEF DueInv
    <3> QED  BY <3>2, <3>3, <3>4
  <2>2. OpensAreKnown
    <3> SUFFICES ASSUME InLoop, NEW k \in DOMAIN toC, toC[k].type = "Open"
                 PROVE  toC[k].tun \in dataAddrs
      BY DEF OpensAreKnown, ToSet
    <3>1. toC[k].tun \in Tunnels
      BY DEF TunnelsNamed
    <3>2. dataAddrs = Tunnels
      BY CfgAssumption DEF NthInv, Tunnels
    <3> QED  BY <3>1, <3>2
  <2> QED  BY <2>1, <2>2 DEF SetupInv
<1> QED  BY <1>1, Invariance, PTL

\* No answer of handleRequestTunnel overtakes the work it reports: the port of a TCP
\* tunnel that the client counts as established is open as long as the server serves
\* the session.
THEOREM EstablishedTunnelsAreRouted == Spec => []EstablishedIsRouted
<1>1. IInv => EstablishedIsRouted
  BY DEF IInv, RoutedInv, IsOpen, EstablishedIsRouted
<1> QED  BY <1>1, Invariance, PTL

\* StartHeartbeat, whose own counter is never reset, gives up on a client only after
\* MaxMissed pings without a Pong, or one if a tick came while a ping was being written.
THEOREM HeartbeatIsPatient == Spec => NoEarlyTimeout
<1> DEFINE Patient == unanswered >= (IF stalled THEN 1 ELSE MaxMissed)
<1>1. IInv /\ [Next]_vars => [hb # "fired" /\ hb' = "fired" => Patient]_vars
  <2> SUFFICES ASSUME IInv, Next, hb # "fired", hb' = "fired"
               PROVE  Patient
    BY DEF vars, hbVars
  <2> USE DEF IInv
  <2>1. CASE \E late \in BOOLEAN : HeartbeatTick(late)
    <3>1. PICK late \in BOOLEAN : HeartbeatTick(late)
      BY <2>1
    <3>2. Stale(late) /\ hb = "on" /\ due
      BY <3>1 DEF HeartbeatTick
    <3>3. age \in Nat /\ unanswered \in Nat /\ age >= 3
      BY <3>2, BoundsAssumption DEF Stale, MaxMissed, TypeOK
    <3>4. /\ ~stalled => age <= unanswered + 1
          /\ unanswered = 0 => age <= 1
      <4>1. Writing = 0 /\ Waiting = 1
        BY <3>2 DEF Writing, Waiting
      <4>2. /\ ~stalled => age <= unanswered + Writing + Waiting
            /\ unanswered = 0 => age <= Waiting
        BY <3>2 DEF HeartbeatInv
      <4>3. unanswered + 0 + 1 = unanswered + 1
        BY <3>3
      <4> QED  BY <4>1, <4>2, <4>3
    <3>5. CASE stalled
      <4>1. unanswered >= 1
        BY <3>3, <3>4
      <4> QED  BY <3>5, <4>1
    <3>6. CASE ~stalled
      <4>1. unanswered >= 2
        BY <3>3, <3>4, <3>6
      <4> QED  BY <3>6, <4>1 DEF MaxMissed
    <3> QED  BY <3>5, <3>6
  <2>2. ~(ServerStep \/ ServerWrites \/ SvDelivered)
    BY DEF ServerStep, ServerWrites, SvGreet, SvRegistered, SvNotRegistered, SvHandshakeFails,
       SvPong, SvReply, SvOther, SvSocksConnect, SvData, SvDelivered, SvDisconnect, SvAck,
       SvLoopEnds, SvHTTPTunnel, SvTCPTunnel, SvLeave, hbVars
  <2>3. ~(ClientStep \/ ClientWrites \/ ClDelivered \/ ClGarbled \/ ClLoopEnds)
    BY DEF ClientStep, ClientWrites, ClGreeted, ClHandshake, ClRefuses, ClHandshakeFails, ClAsk,
       ClBegins, ClNotAnswered, ClAnswered, ClConnFails, ClGarbled, ClReads, ClTakes, ClPong,
       ClDelivered, ClAck, ClOther, ClLoopEnds, hbVars
  <2>4. ~(ClockTick \/ Pinged \/ HeartbeatEnds \/ ServerShutdown \/ ServerSaysBye \/ ClStop
            \/ ClSaysBye \/ SocksUser \/ SocksData \/ SvSocksData \/ LinkBreaks \/ Lose)
    BY DEF ClockTick, Pinged, HeartbeatEnds, ServerShutdown, ServerSaysBye, ClStop, ClSaysBye,
       SocksUser, SocksData, SvSocksData, LinkBreaks, Lose, hbVars
  <2>5. ~\E i \in Tunnels : UserArrives(i) \/ ListenerCloses(i)
    BY DEF UserArrives, ListenerCloses, hbVars
  <2>6. ~\E ok \in BOOLEAN : SvDialed(ok)
    BY DEF SvDialed, hbVars
  <2> QED  BY <2>1, <2>2, <2>3, <2>4, <2>5, <2>6 DEF Next, Others
<1> QED  BY <1>1, Invariance, PTL DEF Spec, NoEarlyTimeout

-----------------------------------------------------------------------------
(* The Windows client around the session: the menu goroutine, which starts and     *)
(* stops the runs whose sessions these are.                                        *)

\* A session was accepted by a run, and a state was stored by one, that was started.
OnlyStartedRunsAct ==
    /\ \A s \in Sessions : ses[s].pc # "none" =>
           ses[s].run \in Runs /\ run[ses[s].run].pc # "none"
    /\ \A q \in {by, read} : q # NoRun => q \in Runs /\ run[q].pc # "none"

\* While the menu goroutine sleeps, the run it will replace is cancelled already; it
\* may still store "disconnected", but the menu goroutine has not.
SleepsOverCancelled ==
    menu = "sleep" =>
        /\ cancelFn # Root => Done(cancelFn)
        /\ state = "disconnected" => by # NoRun

\* A "disconnected" that the menu goroutine or the current run has stored is true:
\* the current run is over or cancelled.
DisconnectedIsTrue ==
    state = "disconnected" /\ by \in {NoRun, cancelFn} /\ cancelFn # Root => ~Live(cancelFn)

\* So is the one that the menu goroutine has read before it shows a message box.
BoxIsTrue ==
    menu = "box" /\ read \in {NoRun, cancelFn} /\ cancelFn # Root => ~Live(cancelFn)

\* A request that the configuration was not loaded for is held by somebody.
RequestIsHeld == asked => queued \/ menu = "sleep"

\* The inductive invariant.
TrayInv ==
    /\ TrayTypeOK /\ RequestIsHeld /\ OnlyStartedRunsAct
    /\ SleepsOverCancelled /\ DisconnectedIsTrue /\ BoxIsTrue

\* Whether the first configuration is good or not.
LEMMA InitTrayInv == ASSUME TrayInit PROVE TrayInv
<1>1. (CHOOSE q \in Runs : TRUE) \in Runs
  BY RootAssumption
<1>2. TrayTypeOK
  <2>1. run \in [Runs -> [pc : {"none", "listen", "ready", "accept", "box", "failed", "over"},
                          done : BOOLEAN, bound : BOOLEAN]]
    <3> DEFINE first == CHOOSE q \in Runs : TRUE
    <3>1. CASE run = [q \in Runs |-> IF q = first THEN NewRun ELSE Idle]
      BY <3>1 DEF NewRun, Idle
    <3>2. CASE run = [q \in Runs |-> Idle]
      BY <3>2 DEF Idle
    <3> QED
      BY <3>1, <3>2 DEF TrayInit
  <2>2. ses \in [Sessions -> [pc : {"none", "added", "up", "last"}, run : Runs \cup {NoRun}]]
    BY DEF TrayInit, NoSession
  <2>3. state \in {"disconnected", "connecting", "connected"} /\ cancelFn \in Runs \cup {Root}
    BY <1>1 DEF TrayInit
  <2> QED
    BY <2>1, <2>2, <2>3 DEF TrayInit, TrayTypeOK
<1>3. OnlyStartedRunsAct
  BY DEF TrayInit, OnlyStartedRunsAct, NoSession
<1>4. RequestIsHeld /\ SleepsOverCancelled /\ DisconnectedIsTrue /\ BoxIsTrue
  BY DEF TrayInit, RequestIsHeld, SleepsOverCancelled, DisconnectedIsTrue, BoxIsTrue
<1> QED
  BY <1>2, <1>3, <1>4 DEF TrayInv

\* The two places where the menu goroutine starts a run.
LEMMA TrayStarts ==
    ASSUME TrayInv, NEW r \in Runs,
           ToggleOn(r) \/ ReconnectStart(r)
    PROVE  TrayInv'
<1>1. /\ run[r].pc = "none"
      /\ run' = [run EXCEPT ![r] = [pc |-> "listen", done |-> FALSE, bound |-> FALSE]]
      /\ cancelFn' = r /\ asked' = FALSE /\ menu' = "loop"
      /\ UNCHANGED <<rootDone, ses, queued, read>>
  BY DEF ToggleOn, ReconnectStart, Start, Unused, NewRun
<1>2. /\ state' \in {"disconnected", "connecting", "connected"}
      /\ by' \in {by, NoRun}
      /\ state' = "disconnected" => by' = by /\ by # NoRun
  <2>1. CASE ToggleOn(r)
    BY <2>1 DEF ToggleOn, MenuStatus, RunStatus
  <2>2. CASE ReconnectStart(r)
    BY <2>2 DEF ReconnectStart, TrayInv, TrayTypeOK, SleepsOverCancelled
  <2> QED
    BY <2>1, <2>2
<1>3. TrayTypeOK'
  <2>1. run' \in [Runs -> [pc : {"none", "listen", "ready", "accept", "box", "failed", "over"},
                           done : BOOLEAN, bound : BOOLEAN]]
    BY <1>1 DEF TrayInv, TrayTypeOK
  <2> QED
    BY <1>1, <1>2, <2>1 DEF TrayInv, TrayTypeOK
<1>4. OnlyStartedRunsAct'
  BY <1>1, <1>2 DEF TrayInv, OnlyStartedRunsAct, TrayTypeOK
<1>5. RequestIsHeld' /\ SleepsOverCancelled' /\ BoxIsTrue'
  BY <1>1 DEF RequestIsHeld, SleepsOverCancelled, BoxIsTrue
<1>6. DisconnectedIsTrue'
  BY <1>1, <1>2 DEF TrayInv, DisconnectedIsTrue, OnlyStartedRunsAct
<1> QED
  BY <1>3, <1>4, <1>5, <1>6 DEF TrayInv

\* cancelFn(): the current run is done, and nothing else of any run changes.
LEMMA TrayCancels ==
    ASSUME TrayTypeOK, Cancel, cancelFn' = cancelFn
    PROVE  /\ rootDone' \in BOOLEAN
           /\ run' \in [Runs -> [pc : {"none", "listen", "ready", "accept", "box", "failed", "over"},
                                 done : BOOLEAN, bound : BOOLEAN]]
           /\ \A r \in Runs : run'[r].pc = run[r].pc
           /\ cancelFn # Root => Done(cancelFn)'
<1>1. CASE cancelFn = Root
  <2>1. rootDone' = TRUE /\ run' = run
    BY <1>1 DEF Cancel
  <2> QED
    BY <1>1, <2>1 DEF TrayTypeOK
<1>2. CASE cancelFn # Root
  <2>1. cancelFn \in Runs /\ rootDone' = rootDone /\ run' = [run EXCEPT ![cancelFn].done = TRUE]
    BY <1>2 DEF Cancel, TrayTypeOK
  <2>2. run'[cancelFn].done = TRUE /\ \A r \in Runs : run'[r].pc = run[r].pc
    BY <2>1 DEF TrayTypeOK
  <2> QED
    BY <2>1, <2>2 DEF TrayTypeOK, Done
<1> QED
  BY <1>1, <1>2

\* What else the menu goroutine does, and a reconnect that is asked for.
LEMMA TrayMenu ==
    ASSUME TrayInv,
           ToggleOnFails \/ ToggleOff \/ Reconnect \/ ReconnectFails \/ MenuBoxClosed
               \/ Quit \/ AskReconnect
    PROVE  TrayInv'
<1> USE DEF TrayInv
<1>1. CASE ToggleOnFails
  <2>1. /\ menu = "loop" /\ menu' = "box" /\ read' = by /\ asked' = FALSE
        /\ state = "disconnected"
        /\ UNCHANGED <<state, cancelFn, rootDone, run, ses, queued, by>>
    BY <1>1 DEF ToggleOnFails
  <2>2. TrayTypeOK' /\ RequestIsHeld' /\ OnlyStartedRunsAct'
    BY <2>1 DEF TrayTypeOK, RequestIsHeld, OnlyStartedRunsAct
  <2>3. SleepsOverCancelled' /\ DisconnectedIsTrue' /\ BoxIsTrue'
    BY <2>1 DEF SleepsOverCancelled, DisconnectedIsTrue, BoxIsTrue, Live, Done
  <2> QED
    BY <2>2, <2>3
<1>2. CASE ToggleOff
  <2>1. Cancel /\ cancelFn' = cancelFn /\ menu = "loop" /\ state' = "disconnected"
        /\ by' \in {by, NoRun} /\ UNCHANGED <<ses, menu, queued, asked, read>>
    BY <1>2 DEF ToggleOff, MenuStatus, RunStatus
  <2>2. TrayTypeOK'
    BY <2>1, TrayCancels DEF TrayTypeOK
  <2>3. OnlyStartedRunsAct'
    BY <2>1, TrayCancels DEF OnlyStartedRunsAct, TrayTypeOK
  <2>4. RequestIsHeld' /\ SleepsOverCancelled' /\ BoxIsTrue'
    BY <2>1 DEF RequestIsHeld, SleepsOverCancelled, BoxIsTrue
  <2>5. DisconnectedIsTrue'
    BY <2>1, TrayCancels DEF DisconnectedIsTrue, Live
  <2> QED
    BY <2>2, <2>3, <2>4, <2>5
<1>3. CASE Reconnect
  <2>1. Cancel /\ cancelFn' = cancelFn /\ menu' = "sleep" /\ state' = "connecting"
        /\ by' \in {by, NoRun} /\ queued' = FALSE /\ UNCHANGED <<ses, asked, read>>
    BY <1>3 DEF Reconnect, MenuStatus, RunStatus
  <2>2. TrayTypeOK'
    BY <2>1, TrayCancels DEF TrayTypeOK
  <2>3. OnlyStartedRunsAct'
    BY <2>1, TrayCancels DEF OnlyStartedRunsAct, TrayTypeOK
  <2>4. SleepsOverCancelled'
    BY <2>1, TrayCancels DEF SleepsOverCancelled
  <2>5. RequestIsHeld' /\ DisconnectedIsTrue' /\ BoxIsTrue'
    BY <2>1 DEF RequestIsHeld, DisconnectedIsTrue, BoxIsTrue
  <2> QED
    BY <2>2, <2>3, <2>4, <2>5
<1>4. CASE ReconnectFails
  <2>1. /\ menu = "sleep" /\ menu' = "box" /\ asked' = FALSE
        /\ UNCHANGED <<state, cancelFn, rootDone, run, ses, queued, by, read>>
    BY <1>4 DEF ReconnectFails
  <2>2. TrayTypeOK' /\ RequestIsHeld' /\ OnlyStartedRunsAct'
    BY <2>1 DEF TrayTypeOK, RequestIsHeld, OnlyStartedRunsAct
  <2>3. SleepsOverCancelled' /\ DisconnectedIsTrue' /\ BoxIsTrue'
    BY <2>1 DEF SleepsOverCancelled, DisconnectedIsTrue, BoxIsTrue, Live, Done
  <2> QED
    BY <2>2, <2>3
<1>5. CASE Quit
  <2>1. menu' = "quit" /\ rootDone' = TRUE /\ queued' = FALSE /\ asked' = FALSE
        /\ UNCHANGED <<state, cancelFn, run, ses, by, read>>
    BY <1>5 DEF Quit
  <2>2. TrayTypeOK' /\ OnlyStartedRunsAct'
    BY <2>1 DEF TrayTypeOK, OnlyStartedRunsAct
  <2>3. RequestIsHeld' /\ SleepsOverCancelled' /\ DisconnectedIsTrue' /\ BoxIsTrue'
    BY <2>1 DEF RequestIsHeld, SleepsOverCancelled, DisconnectedIsTrue, BoxIsTrue, Live, Done
  <2> QED
    BY <2>2, <2>3
<1>6. CASE AskReconnect
  <2>1. /\ queued' = TRUE /\ asked' = TRUE
        /\ UNCHANGED <<state, cancelFn, rootDone, run, ses, menu, by, read>>
    BY <1>6 DEF AskReconnect
  <2> QED
    BY <2>1 DEF TrayTypeOK, RequestIsHeld, OnlyStartedRunsAct, SleepsOverCancelled,
                DisconnectedIsTrue, BoxIsTrue, Live, Done
<1>7. CASE MenuBoxClosed
  <2>1. /\ menu = "box" /\ menu' = "loop" /\ state' = "disconnected" /\ read' = NoRun
        /\ by' = IF state = "disconnected" THEN by ELSE read
        /\ UNCHANGED <<cancelFn, rootDone, run, ses, queued, asked>>
    BY <1>7 DEF MenuBoxClosed, RunStatus
  <2>2. TrayTypeOK' /\ RequestIsHeld' /\ OnlyStartedRunsAct'
    BY <2>1 DEF TrayTypeOK, RequestIsHeld, OnlyStartedRunsAct
  <2>3. SleepsOverCancelled' /\ DisconnectedIsTrue' /\ BoxIsTrue'
    BY <2>1 DEF SleepsOverCancelled, DisconnectedIsTrue, BoxIsTrue, Live, Done
  <2> QED
    BY <2>2, <2>3
<1> QED
  BY <1>1, <1>2, <1>3, <1>4, <1>5, <1>6, <1>7

\* What a step of run r, or of one of its sessions, leaves alone: it starts and revives
\* no run, cancels none, stores a state under r's name only, and "disconnected" only
\* when r is over with it.
LEMMA TrayFrame ==
    ASSUME TrayInv, TrayTypeOK', NEW r \in Runs, run[r].pc # "none",
           UNCHANGED <<cancelFn, rootDone, menu, queued, asked, read>>,
           \A q \in Runs : /\ run'[q].done = run[q].done
                           /\ run'[q].pc = "none" <=> run[q].pc = "none"
                           /\ run[q].pc = "over" => run'[q].pc = "over",
           \A s \in Sessions : ses'[s].pc # "none" =>
               ses'[s].run = r \/ (ses[s].pc # "none" /\ ses'[s].run = ses[s].run),
           \/ UNCHANGED <<state, by>>
           \/ \E st \in {"disconnected", "connecting", "connected"} :
                  RunStatus(r, st) /\ (st = "disconnected" => run'[r].pc = "over")
    PROVE  TrayInv'
<1> USE DEF TrayInv
<1>1. /\ by' \in {by, r}
      /\ state' = "disconnected" => \/ state = "disconnected" /\ by' = by
                                    \/ by' = r /\ run'[r].pc = "over"
  BY DEF RunStatus
<1>2. OnlyStartedRunsAct'
  BY <1>1 DEF OnlyStartedRunsAct, TrayTypeOK
<1>3. RequestIsHeld'
  BY DEF RequestIsHeld
<1>4. SleepsOverCancelled'
  BY <1>1, RootAssumption DEF SleepsOverCancelled, Done, TrayTypeOK
<1>5. DisconnectedIsTrue'
  BY <1>1, RootAssumption DEF DisconnectedIsTrue, Live, Done, TrayTypeOK
<1>6. BoxIsTrue'
  BY RootAssumption DEF BoxIsTrue, Live, Done, TrayTypeOK
<1> QED
  BY <1>2, <1>3, <1>4, <1>5, <1>6

\* runTunnelLoop and the goroutine that closes its listener.
LEMMA TrayRun ==
    ASSUME TrayInv, NEW r \in Runs, RunNext(r) \/ BoxClosed(r)
    PROVE  TrayInv'
<1> USE DEF TrayTypeOK
<1>0. TrayTypeOK
  BY DEF TrayInv
<1>1. CASE ReportFailure(r)
  <2>1. TrayTypeOK'
    BY <1>0, <1>1 DEF ReportFailure, RunStatus
  <2> QED
    BY <1>0, <1>1, <2>1, TrayFrame DEF ReportFailure
<1>2. CASE CloseListener(r)
  <2>1. TrayTypeOK'
    BY <1>0, <1>2 DEF CloseListener
  <2>2. /\ \A q \in Runs : run'[q].done = run[q].done /\ run'[q].pc = run[q].pc
        /\ UNCHANGED <<state, cancelFn, rootDone, ses, menu, queued, asked, by, read>>
    BY <1>0, <1>2 DEF CloseListener
  <2> QED
    BY <2>1, <2>2 DEF TrayInv, RequestIsHeld, OnlyStartedRunsAct, SleepsOverCancelled,
                      DisconnectedIsTrue, BoxIsTrue, Live, Done
<1>3. CASE Ready(r)
  <2>1. TrayTypeOK'
    BY <1>0, <1>3 DEF Ready, RunStatus
  <2> QED
    BY <1>0, <1>3, <2>1, TrayFrame DEF Ready
<1>4. CASE AcceptFails(r)
  <2>1. TrayTypeOK'
    BY <1>0, <1>4 DEF AcceptFails, RunStatus
  <2> QED
    BY <1>0, <1>4, <2>1, TrayFrame DEF AcceptFails
<1>5. ASSUME run[r].pc = "listen", run' = [run EXCEPT ![r].pc = "ready", ![r].bound = TRUE],
             UNCHANGED <<state, cancelFn, rootDone, ses, menu, queued, asked, by, read>>
      PROVE  TrayInv'
  <2>1. TrayTypeOK'
    BY <1>0, <1>5
  <2> QED
    BY <1>0, <1>5, <2>1, TrayFrame
<1>6. ASSUME NEW to \in {"box", "failed"}, run[r].pc = "listen",
             run' = [run EXCEPT ![r].pc = to, ![r].bound = FALSE],
             UNCHANGED <<state, cancelFn, rootDone, ses, menu, queued, asked, by, read>>
      PROVE  TrayInv'
  <2>1. TrayTypeOK'
    BY <1>0, <1>6
  <2> QED
    BY <1>0, <1>6, <2>1, TrayFrame
<1>7. ASSUME NEW to \in {"ready", "box", "failed"}, Listen(r, to)
      PROVE  TrayInv'
  <2>1. CASE to = "ready"
    <3>1. run' = [run EXCEPT ![r].pc = "ready", ![r].bound = TRUE]
      BY <1>7, <2>1 DEF Listen
    <3> QED  BY <1>5, <1>7, <3>1 DEF Listen
  <2>2. CASE to # "ready"
    <3>1. run' = [run EXCEPT ![r].pc = to, ![r].bound = FALSE] /\ to \in {"box", "failed"}
      BY <1>7, <2>2 DEF Listen
    <3> QED  BY <1>6, <1>7, <3>1 DEF Listen
  <2> QED
    BY <2>1, <2>2
<1>8. CASE BoxClosed(r)
  <2>1. TrayTypeOK'
    BY <1>0, <1>8 DEF BoxClosed
  <2> QED
    BY <1>0, <1>8, <2>1, TrayFrame DEF BoxClosed
<1> QED
  BY <1>1, <1>2, <1>3, <1>4, <1>7, <1>8 DEF RunNext

\* A session, from its Accept to its report.
LEMMA TraySession ==
    ASSUME TrayInv, NEW s \in Sessions,
           SessionNext(s) \/ \E r \in Runs : Accept(r, s)
    PROVE  TrayInv'
<1> USE DEF TrayInv, TrayTypeOK
<1>1. CASE SessionUp(s)
  <2>1. TrayTypeOK'
    BY <1>1 DEF SessionUp, RunStatus, OnlyStartedRunsAct
  <2>2. ses[s].run \in Runs /\ run[ses[s].run].pc # "none"
    BY <1>1 DEF SessionUp, OnlyStartedRunsAct
  <2> QED
    BY <1>1, <2>1, <2>2, TrayFrame DEF SessionUp
<1>2. CASE SessionEnds(s)
  <2>1. \/ ses' = [ses EXCEPT ![s].pc = "last"]
        \/ ses' = [ses EXCEPT ![s] = [pc |-> "none", run |-> NoRun]]
    BY <1>2 DEF SessionEnds, NoSession
  <2>2. TrayTypeOK'
    BY <1>2, <2>1 DEF SessionEnds
  <2>3. ses[s].run \in Runs /\ run[ses[s].run].pc # "none"
    BY <1>2 DEF SessionEnds, OnlyStartedRunsAct
  <2>4. \A t \in Sessions : ses'[t].pc # "none" => ses[t].pc # "none" /\ ses'[t].run = ses[t].run
    BY <1>2, <2>1 DEF SessionEnds
  <2> QED
    BY <1>2, <2>2, <2>3, <2>4, TrayFrame DEF SessionEnds
<1>3. CASE SessionReports(s)
  <2>1. ses' = [ses EXCEPT ![s] = [pc |-> "none", run |-> NoRun]]
    BY <1>3 DEF SessionReports, NoSession
  <2>2. ses[s].run \in Runs /\ run[ses[s].run].pc # "none"
    BY <1>3 DEF SessionReports, OnlyStartedRunsAct
  <2>3. TrayTypeOK'
    BY <1>3, <2>1, <2>2 DEF SessionReports, RunStatus
  <2>4. \A t \in Sessions : ses'[t].pc # "none" => ses[t].pc # "none" /\ ses'[t].run = ses[t].run
    BY <2>1
  <2> QED
    BY <1>3, <2>2, <2>3, <2>4, TrayFrame DEF SessionReports
<1>4. ASSUME NEW r \in Runs, Accept(r, s)
      PROVE  TrayInv'
  <2>1. TrayTypeOK'
    BY <1>4 DEF Accept
  <2>2. \A t \in Sessions : ses'[t].pc # "none" =>
            ses'[t].run = r \/ (ses[t].pc # "none" /\ ses'[t].run = ses[t].run)
    BY <1>4 DEF Accept
  <2> QED
    BY <1>4, <2>1, <2>2, TrayFrame DEF Accept
<1> QED
  BY <1>1, <1>2, <1>3, <1>4 DEF SessionNext

\* Every step.
LEMMA TrayStep == ASSUME TrayInv, [TrayNext]_trayVars PROVE TrayInv'
<1>1. ASSUME UNCHANGED trayVars
      PROVE  TrayInv'
  BY <1>1 DEF trayVars, TrayInv, TrayTypeOK, RequestIsHeld, OnlyStartedRunsAct,
    SleepsOverCancelled,
         DisconnectedIsTrue, BoxIsTrue, Live, Done
<1> QED
  BY <1>1, TrayStarts, TrayMenu, TrayRun, TraySession DEF TrayNext

\* reconnectTunnel drops a request when the channel is full, and the loop that reads it
\* sleeps while a reconnect is under way: still the configuration is loaded after every
\* request, or is about to be.
THEOREM ReconnectsAreNotLost == TraySpec => []RequestNotLost
<1>1. TrayInit => TrayInv
  BY InitTrayInv
<1>2. TrayInv /\ [TrayNext]_trayVars => TrayInv'
  BY TrayStep
<1>3. TrayInv => RequestNotLost
  BY DEF TrayInv, RequestIsHeld, RequestNotLost
<1> QED
  BY <1>1, <1>2, <1>3, PTL DEF TraySpec

\* A run that goes on is replaced only by a click that read "disconnected" as an earlier
\* run had stored it: what the menu goroutine and the current run store is true, and
\* the reconnect has cancelled the run it replaces.
LEMMA TrayKeepsCancel ==
    ASSUME TrayInv, [TrayNext]_trayVars
    PROVE  [cancelFn' # cancelFn /\ cancelFn # Root /\ Live(cancelFn)
                => by \notin {NoRun, cancelFn}]_trayVars
<1>1. ASSUME NEW r \in Runs, ToggleOn(r), cancelFn # Root, Live(cancelFn)
      PROVE  by \notin {NoRun, cancelFn}
  BY <1>1 DEF ToggleOn, TrayInv, DisconnectedIsTrue
<1>2. ASSUME NEW r \in Runs, ReconnectStart(r), cancelFn # Root
      PROVE  ~Live(cancelFn)
  BY <1>2 DEF ReconnectStart, TrayInv, SleepsOverCancelled, Live
<1>3. ASSUME NEW r \in Runs, RunNext(r) \/ BoxClosed(r)
      PROVE  cancelFn' = cancelFn
  BY <1>3 DEF RunNext, BoxClosed, ReportFailure, CloseListener, Ready, AcceptFails, Listen
<1>4. ASSUME NEW s \in Sessions, SessionNext(s) \/ \E r \in Runs : Accept(r, s)
      PROVE  cancelFn' = cancelFn
  BY <1>4 DEF SessionNext, SessionUp, SessionEnds, SessionReports, Accept
<1>5. ASSUME ToggleOnFails \/ ToggleOff \/ Reconnect \/ ReconnectFails \/ MenuBoxClosed
                 \/ Quit \/ AskReconnect
      PROVE  cancelFn' = cancelFn
  BY <1>5 DEF ToggleOnFails, ToggleOff, Reconnect, ReconnectFails, MenuBoxClosed, Quit,
    AskReconnect
<1> QED
  BY <1>1, <1>2, <1>3, <1>4, <1>5 DEF TrayNext

\* cancelFn, the only handle on a run, is not overwritten while its run goes on, unless
\* a run from before it has stored the state a click on the toggle read.
THEOREM NoRunIsForgotten == TraySpec => CancelNotLost
<1>1. TrayInit => TrayInv
  BY InitTrayInv
<1>2. TrayInv /\ [TrayNext]_trayVars => TrayInv'
  BY TrayStep
<1>3. TrayInv /\ [TrayNext]_trayVars
          => [cancelFn' # cancelFn /\ cancelFn # Root /\ Live(cancelFn)
                  => by \notin {NoRun, cancelFn}]_trayVars
  BY TrayKeepsCancel
<1> QED
  BY <1>1, <1>2, <1>3, PTL DEF TraySpec, CancelNotLost
=============================================================================
