------------------------------ MODULE Limiter ------------------------------
(***************************************************************************)
(* Admission of external connections by the HTTP and the HTTPS proxy, whose*)
(* two accept loops share one limiter:                                     *)
(*   internal/tunnel/ratelimit.go    Limiter, ipLimiter                    *)
(*   internal/tunnel/http_proxy.go   StartHTTPProxy, handleHTTPConn        *)
(*   internal/tunnel/https_proxy.go  StartHTTPSProxy, handleHTTPSConn      *)
(*                                                                         *)
(* Time is counted in the intervals in which a bucket earns one token.     *)
(* Allow reads the clock, finds or makes the bucket, and charges it, in    *)
(* three steps that the other loop may interleave; Acquire is a load and a *)
(* compare-and-swap.  Nothing calls StartCleanup: a bucket stays.          *)
(***************************************************************************)
EXTENDS Integers, Sequences, FiniteSets

CONSTANTS
    Conns,      \* external connections
    Ips,        \* their remote addresses
    IpOf,       \* IpOf[c]: address of c
    Burst,      \* Limiter.burst
    Limits,     \* what NewLimiter may be called with, see limits
    MaxTime,    \* bound: the clock
    NoConn

ASSUME NoConnAssumption == NoConn \notin Conns /\ IpOf \in [Conns -> Ips]
ASSUME LimitsAssumption == /\ Limits \subseteq [rated : BOOLEAN, maxGlobal : Nat]
                           /\ Burst \in Nat \ {0} /\ MaxTime \in Nat

Loops == {"http", "https"}

VARIABLES
    limits,   \* rated: maxRate > 0; maxGlobal: 0 for no limit
    now,      \* the clock
    pc,       \* pc[l]: accept loop l
    cur,      \* cur[l]: the connection it decides on
    stamp,    \* stamp[l]: the time its Allow has read
    seen,     \* seen[l]: the count its Acquire has read
    bucket,   \* bucket[i]: ipLimiter of address i
    active,   \* Limiter.active
    conn,     \* conn[c]: an external connection
    admits,   \* admits[i]: times Allow had read for the connections it let in
    ctxDone   \* the server's root context is done

loopVars == <<pc, cur, stamp, seen>>
vars     == <<limits, now, loopVars, bucket, active, conn, admits, ctxDone>>

NoBucket == [made |-> FALSE, tokens |-> 0, last |-> 0]

\* Types; a loop holds a connection exactly while it decides on one.
TypeOK ==
    /\ limits \in Limits
    /\ now \in 0..MaxTime
    /\ pc \in [Loops -> {"accept", "clock", "find", "first", "charge", "acquire", "swap", "stopped"}]
    /\ cur \in [Loops -> Conns \cup {NoConn}]
    /\ \A l \in Loops : cur[l] = NoConn <=> pc[l] \in {"accept", "stopped"}
    /\ stamp \in [Loops -> 0..MaxTime]
    /\ seen \in [Loops -> Nat]
    /\ bucket \in [Ips -> [made : BOOLEAN, tokens : Int, last : 0..MaxTime]]
    /\ active \in Nat
    /\ conn \in [Conns -> {"new", "accepted", "handled", "relayed", "closed"}]
    /\ admits \in [Ips -> Seq(0..MaxTime)]
    /\ ctxDone \in BOOLEAN

Init ==
    /\ limits \in Limits
    /\ now = 0
    /\ pc = [l \in Loops |-> "accept"]
    /\ cur = [l \in Loops |-> NoConn]
    /\ stamp = [l \in Loops |-> 0]
    /\ seen = [l \in Loops |-> 0]
    /\ bucket = [i \in Ips |-> NoBucket]
    /\ active = 0
    /\ conn = [c \in Conns |-> "new"]
    /\ admits = [i \in Ips |-> <<>>]
    /\ ctxDone = FALSE

Goto(l, p) == pc' = [pc EXCEPT ![l] = p]

Ip(l) == IpOf[cur[l]]

-----------------------------------------------------------------------------
(* The accept loops.                                                       *)

Accept(l, c) ==
    /\ pc[l] = "accept"
    /\ conn[c] = "new"
    /\ cur' = [cur EXCEPT ![l] = c]
    /\ conn' = [conn EXCEPT ![c] = "accepted"]
    /\ Goto(l, IF limits.rated THEN "clock" ELSE "acquire")
    /\ UNCHANGED <<limits, now, stamp, seen, bucket, active, admits, ctxDone>>

\* The listener was closed because the context is done.
AcceptFails(l) ==
    /\ pc[l] = "accept"
    /\ ctxDone
    /\ Goto(l, "stopped")
    /\ UNCHANGED <<limits, now, cur, stamp, seen, bucket, active, conn, admits, ctxDone>>

\* Allow: time.Now()
ReadClock(l) ==
    /\ pc[l] = "clock"
    /\ stamp' = [stamp EXCEPT ![l] = now]
    /\ Goto(l, "find")
    /\ UNCHANGED <<limits, now, cur, seen, bucket, active, conn, admits, ctxDone>>

\* Allow lets the connection in.
Admit(l) == admits' = [admits EXCEPT ![Ip(l)] = Append(@, stamp[l])]

\* Allow: ips.LoadOrStore with a full bucket; whoever made it will pass.
FindBucket(l) ==
    /\ pc[l] = "find"
    /\ \/ /\ bucket[Ip(l)].made
          /\ Goto(l, "charge")
          /\ UNCHANGED <<bucket, admits>>
       \/ /\ ~bucket[Ip(l)].made
          /\ bucket' = [bucket EXCEPT ![Ip(l)] = [made |-> TRUE, tokens |-> Burst, last |-> stamp[l]]]
          /\ Admit(l)
          /\ Goto(l, "first")
    /\ UNCHANGED <<limits, now, cur, stamp, seen, active, conn, ctxDone>>

\* Allow: whoever made the bucket is charged under a lock of its own.
ChargeFirst(l) ==
    /\ pc[l] = "first"
    /\ bucket' = [bucket EXCEPT ![Ip(l)].tokens = @ - 1]
    /\ Goto(l, "acquire")
    /\ UNCHANGED <<limits, now, cur, stamp, seen, active, conn, admits, ctxDone>>

\* The connection is closed and the loop accepts the next one.
Refuse(l) ==
    /\ conn' = [conn EXCEPT ![cur[l]] = "closed"]
    /\ cur' = [cur EXCEPT ![l] = NoConn]
    /\ Goto(l, "accept")

\* ipLimiter.allow: refill up to the burst, also when the time that was read is
\* older than the last one.
Refilled_Uncapped(l) == bucket[Ip(l)].tokens + stamp[l] - bucket[Ip(l)].last
Refilled(l) ==
    LET t == bucket[Ip(l)].tokens + stamp[l] - bucket[Ip(l)].last
    IN  IF t > Burst THEN Burst ELSE t

Charge(l) ==
    /\ pc[l] = "charge"
    /\ \/ /\ Refilled(l) >= 1
          /\ bucket' = [bucket EXCEPT ![Ip(l)].tokens = Refilled(l) - 1, ![Ip(l)].last = stamp[l]]
          /\ Admit(l)
          /\ Goto(l, "acquire")
          /\ UNCHANGED <<cur, conn>>
       \/ /\ Refilled(l) < 1
          /\ bucket' = [bucket EXCEPT ![Ip(l)].tokens = Refilled(l), ![Ip(l)].last = stamp[l]]
          /\ Refuse(l)
          /\ UNCHANGED admits
    /\ UNCHANGED <<limits, now, stamp, seen, active, ctxDone>>

\* The handler goroutine starts and the loop goes on.
Spawn(l) ==
    /\ conn' = [conn EXCEPT ![cur[l]] = "handled"]
    /\ cur' = [cur EXCEPT ![l] = NoConn]
    /\ Goto(l, "accept")

\* Acquire: an unlimited count is added to, a limited one is loaded.
AcquireLoad(l) ==
    /\ pc[l] = "acquire"
    /\ \/ /\ limits.maxGlobal = 0
          /\ active' = active + 1
          /\ Spawn(l)
          /\ UNCHANGED seen
       \/ /\ limits.maxGlobal # 0 /\ active >= limits.maxGlobal
          /\ Refuse(l)
          /\ UNCHANGED <<active, seen>>
       \/ /\ limits.maxGlobal # 0 /\ active < limits.maxGlobal
          /\ seen' = [seen EXCEPT ![l] = active]
          /\ Goto(l, "swap")
          /\ UNCHANGED <<active, cur, conn>>
    /\ UNCHANGED <<limits, now, stamp, bucket, admits, ctxDone>>

\* Acquire: CompareAndSwap, or another round.
AcquireSwap_Add(l) ==
    /\ pc[l] = "swap"
    /\ active' = active + 1
    /\ Spawn(l)
    /\ UNCHANGED <<limits, now, stamp, seen, bucket, admits, ctxDone>>
AcquireSwap(l) ==
    /\ pc[l] = "swap"
    /\ \/ /\ active = seen[l]
          /\ active' = active + 1
          /\ Spawn(l)
       \/ /\ active # seen[l]
          /\ Goto(l, "acquire")
          /\ UNCHANGED <<active, cur, conn>>
    /\ UNCHANGED <<limits, now, stamp, seen, bucket, admits, ctxDone>>

-----------------------------------------------------------------------------
(* The handlers, which Release on return.                                  *)

\* The request has no route, or cannot be read, or OpenConnection not sent.
HandlerFails(c) ==
    /\ conn[c] = "handled"
    /\ conn' = [conn EXCEPT ![c] = "closed"]
    /\ active' = active - 1
    /\ UNCHANGED <<limits, now, loopVars, bucket, admits, ctxDone>>

\* OpenConnection is sent: a new goroutine waits and relays, the handler returns.
HandOff(c) ==
    /\ conn[c] = "handled"
    /\ conn' = [conn EXCEPT ![c] = "relayed"]
    /\ active' = active - 1
    /\ UNCHANGED <<limits, now, loopVars, bucket, admits, ctxDone>>

RelayEnds(c) ==
    /\ conn[c] = "relayed"
    /\ conn' = [conn EXCEPT ![c] = "closed"]
    /\ UNCHANGED <<limits, now, loopVars, bucket, active, admits, ctxDone>>

Tick ==
    /\ now < MaxTime
    /\ now' = now + 1
    /\ UNCHANGED <<limits, loopVars, bucket, active, conn, admits, ctxDone>>

Shutdown ==
    /\ ~ctxDone
    /\ ctxDone' = TRUE
    /\ UNCHANGED <<limits, now, loopVars, bucket, active, conn, admits>>

-----------------------------------------------------------------------------
LoopStep(l) ==
    \/ AcceptFails(l) \/ \E c \in Conns : Accept(l, c)
    \/ ReadClock(l) \/ FindBucket(l) \/ ChargeFirst(l) \/ Charge(l)
    \/ AcquireLoad(l) \/ AcquireSwap(l)

Next ==
    \/ \E l \in Loops : LoopStep(l)
    \/ \E c \in Conns : HandlerFails(c) \/ HandOff(c) \/ RelayEnds(c)
    \/ Tick
    \/ Shutdown

Spec == Init /\ [][Next]_vars

-----------------------------------------------------------------------------
(* Properties.                                                             *)

\* The count is that of the running handlers and stays within the limit, also
\* when both loops see the last free place at once and however handlers end.
ActiveIsExact ==
    /\ active = Cardinality({c \in Conns : conn[c] = "handled"})
    /\ limits.maxGlobal # 0 => active <= limits.maxGlobal

\* Places are never over-committed and none is lost.
PlacesInv == TypeOK /\ ActiveIsExact

\* The rate is kept: after any connection let in from one address, no more pass
\* until a later one than the burst and what was earned in the time between the
\* two, although clock readings are used out of order.  The first connection is
\* not counted: its charge comes late, and the other loop may spend its token.
RateIsKept ==
    \A i \in Ips : \A j, k \in DOMAIN admits[i] :
        j < k => k - j <= Burst + admits[i][k] - admits[i][j]
=============================================================================
