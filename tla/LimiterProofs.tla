--------------------------- MODULE LimiterProofs ---------------------------
(***************************************************************************)
(* Proofs, for every number of connections and addresses, every limit and  *)
(* every burst, that places are counted exactly and the rate is kept.      *)
(***************************************************************************)
EXTENDS Limiter, FiniteSetTheorems, TLAPS

Handled == {c \in Conns : conn[c] = "handled"}

\* The connection an accept loop decides on is its own, and not handled yet.
DecidesOnOwn ==
    \A l \in Loops : cur[l] # NoConn =>
        /\ conn[cur[l]] = "accepted"
        /\ \A m \in Loops : cur[m] = cur[l] => m = l

\* A loop about to swap has seen a free place.
SwapSawRoom ==
    \A l \in Loops : pc[l] = "swap" => limits.maxGlobal # 0 /\ seen[l] < limits.maxGlobal

\* A bucket that is about to be charged has been made.
ChargeFindsBucket == \A l \in Loops : pc[l] = "charge" => bucket[Ip(l)].made

\* The count is that of the running handlers, of which there are finitely many.
CountIsExact == IsFiniteSet(Handled) /\ ActiveIsExact

\* A bucket's credit is its tokens, less the time they were counted at.
Credit(b) == b.tokens - b.last

\* For a bucket whose credit is v and which has let in connections at the times a: the
\* credit is no more than the burst leaves after each of them and those that followed.
Spent(a, v) == \A j \in 1..Len(a) : v + (Len(a) - j) <= Burst - a[j]
CreditIsSpent ==
    \A i \in Ips : /\ Spent(admits[i], Credit(bucket[i]))
                   /\ ~bucket[i].made => admits[i] = <<>>

\* The inductive invariant.
IInv ==
    /\ TypeOK
    /\ DecidesOnOwn
    /\ SwapSawRoom
    /\ CountIsExact
    /\ ChargeFindsBucket
    /\ CreditIsSpent
    /\ RateIsKept

\* A bucket's fields, and the addresses they belong to, have their types.
LEMMA Types ==
    ASSUME TypeOK, NEW l \in Loops, pc[l] \notin {"accept", "stopped"}
    PROVE  /\ cur[l] \in Conns
           /\ Ip(l) \in Ips
           /\ stamp[l] \in Int /\ stamp[l] \in 0..MaxTime
           /\ bucket[Ip(l)].tokens \in Int
           /\ bucket[Ip(l)].last \in Int
<1>1. cur[l] \in Conns /\ Ip(l) \in Ips
  BY NoConnAssumption DEF TypeOK, Ip
<1>2. stamp[l] \in 0..MaxTime /\ bucket[Ip(l)].last \in 0..MaxTime /\ bucket[Ip(l)].tokens \in Int
  BY <1>1 DEF TypeOK
<1> QED
  BY <1>1, <1>2, LimitsAssumption

-----------------------------------------------------------------------------
(* The places.                                                             *)

\* Spawn: one more handler.
LEMMA HandledGrows ==
    ASSUME TypeOK, IsFiniteSet(Handled), NEW c \in Conns, conn[c] # "handled",
           conn' = [conn EXCEPT ![c] = "handled"]
    PROVE  IsFiniteSet(Handled') /\ Cardinality(Handled') = Cardinality(Handled) + 1
<1>1. Handled' = Handled \cup {c} /\ c \notin Handled
  BY DEF TypeOK, Handled
<1> QED
  BY <1>1, FS_AddElement

\* The handler returns and releases its place.
LEMMA HandledShrinks ==
    ASSUME TypeOK, IsFiniteSet(Handled), NEW c \in Conns, conn[c] = "handled",
           NEW s, s # "handled", conn' = [conn EXCEPT ![c] = s]
    PROVE  IsFiniteSet(Handled') /\ Cardinality(Handled') = Cardinality(Handled) - 1
<1>1. Handled' = Handled \ {c} /\ c \in Handled
  BY DEF TypeOK, Handled
<1> QED
  BY <1>1, FS_RemoveElement

\* Every other step leaves the handlers as they are.
LEMMA HandledSame ==
    ASSUME TypeOK, NEW c \in Conns, conn[c] # "handled",
           NEW s, s # "handled", conn' = [conn EXCEPT ![c] = s]
    PROVE  Handled' = Handled
BY DEF TypeOK, Handled

\* The count stays exact when the handlers, the count and the limit do not change.
LEMMA SameCount ==
    ASSUME CountIsExact, Handled' = Handled, UNCHANGED <<active, limits>>
    PROVE  CountIsExact'
BY DEF CountIsExact, ActiveIsExact, Handled

\* A loop that has decided on its connection, by refusing or spawning it.
LEMMA LoopIsFree ==
    ASSUME TypeOK, DecidesOnOwn, SwapSawRoom, NEW l \in Loops, cur[l] # NoConn,
           NEW s \in {"closed", "handled"},
           conn' = [conn EXCEPT ![cur[l]] = s], cur' = [cur EXCEPT ![l] = NoConn],
           pc' = [pc EXCEPT ![l] = "accept"], UNCHANGED <<limits, seen>>
    PROVE  /\ DecidesOnOwn' /\ SwapSawRoom'
           /\ cur[l] \in Conns /\ conn[cur[l]] = "accepted"
           /\ conn' \in [Conns -> {"new", "accepted", "handled", "relayed", "closed"}]
           /\ cur' \in [Loops -> Conns \cup {NoConn}]
           /\ pc' \in [Loops -> {"accept", "clock", "find", "first", "charge", "acquire",
                                 "swap", "stopped"}]
           /\ \A m \in Loops : cur'[m] = NoConn <=> pc'[m] \in {"accept", "stopped"}
<1>1. cur[l] \in Conns /\ conn[cur[l]] = "accepted"
  BY DEF TypeOK, DecidesOnOwn
<1>2. DecidesOnOwn'
  BY <1>1 DEF TypeOK, DecidesOnOwn
<1>3. SwapSawRoom'
  BY DEF TypeOK, SwapSawRoom
<1> QED
  BY <1>1, <1>2, <1>3 DEF TypeOK

\* A loop that goes on with the connection it decides on.
LEMMA LoopGoesOn ==
    ASSUME TypeOK, DecidesOnOwn, SwapSawRoom, NEW l \in Loops, cur[l] # NoConn,
           NEW p \in {"clock", "find", "first", "charge", "acquire", "swap"},
           pc' = [pc EXCEPT ![l] = p],
           p = "swap" => limits.maxGlobal # 0 /\ seen'[l] < limits.maxGlobal,
           \A m \in Loops : m # l => seen'[m] = seen[m],
           UNCHANGED <<limits, cur, conn>>
    PROVE  /\ DecidesOnOwn' /\ SwapSawRoom'
           /\ pc' \in [Loops -> {"accept", "clock", "find", "first", "charge", "acquire",
                                 "swap", "stopped"}]
           /\ \A m \in Loops : cur'[m] = NoConn <=> pc'[m] \in {"accept", "stopped"}
<1>1. DecidesOnOwn' /\ SwapSawRoom'
  BY DEF TypeOK, DecidesOnOwn, SwapSawRoom
<1> QED
  BY <1>1 DEF TypeOK

-----------------------------------------------------------------------------
(* The rate.                                                               *)

\* RateIsKept for one address, which let in connections at the times a.
Kept(a) == \A j, k \in 1..Len(a) : j < k => k - j <= Burst + a[k] - a[j]

\* The arithmetic of a token bucket: one more is let in at time s, by when a token was
\* there, and the credit becomes w, one less and no more than a full bucket's.  The
\* first one finds no bucket.
LEMMA TokenBucket ==
    ASSUME NEW a \in Seq(0..MaxTime), NEW v \in Int, NEW w \in Int, NEW s \in 0..MaxTime,
           Spent(a, v), Kept(a),
           w <= Burst - s,
           Len(a) # 0 => w <= v - 1 /\ v + s >= 1
    PROVE  Spent(Append(a, s), w) /\ Kept(Append(a, s))
<1> DEFINE n == Len(a)
           b == Append(a, s)
<1>1. /\ n \in Nat
      /\ Burst \in Int /\ s \in Int
      /\ Len(b) = n + 1
      /\ b[n + 1] = s
      /\ \A j \in 1..n : a[j] \in Int /\ b[j] = a[j]
  BY LimitsAssumption
<1>2. \A j \in 1..n : v + (n - j) <= Burst - a[j]
  BY DEF Spent
<1>3. \A j, k \in 1..n : j < k => k - j <= Burst + a[k] - a[j]
  BY DEF Kept
<1>4. n # 0 => w <= v - 1 /\ v + s >= 1
  OBVIOUS
<1> HIDE DEF n, b
<1>5. ASSUME NEW j \in 1..n
      PROVE  w + (n + 1 - j) <= Burst - b[j] /\ n + 1 - j <= Burst + s - b[j]
  <2>1. j \in Int /\ n # 0 /\ b[j] = a[j] /\ a[j] \in Int
    BY <1>1
  <2>2. v + (n - j) <= Burst - a[j]
    BY <1>2
  <2> QED
    BY <1>1, <1>4, <2>1, <2>2
<1>6. ASSUME NEW j \in 1..(n + 1)
      PROVE  w + (n + 1 - j) <= Burst - b[j]
  <2>1. CASE j = n + 1
    BY <1>1, <2>1
  <2>2. CASE j # n + 1
    <3>1. j \in 1..n
      BY <1>1, <2>2
    <3> QED
      BY <1>5, <3>1
  <2> QED
    BY <2>1, <2>2
<1>7. ASSUME NEW j \in 1..(n + 1), NEW k \in 1..(n + 1), j < k
      PROVE  k - j <= Burst + b[k] - b[j]
  <2>1. j \in 1..n
    BY <1>1, <1>7
  <2>2. CASE k = n + 1
    BY <1>1, <1>5, <2>1, <2>2
  <2>3. CASE k # n + 1
    <3>1. k \in 1..n /\ b[j] = a[j] /\ b[k] = a[k]
      BY <1>1, <2>1, <2>3
    <3> QED
      BY <1>3, <1>7, <2>1, <3>1
  <2> QED
    BY <2>2, <2>3
<1>8. Spent(b, w)
  BY <1>1, <1>6 DEF Spent
<1>9. Kept(b)
  BY <1>1, <1>7 DEF Kept
<1> QED
  BY <1>8, <1>9 DEF b

\* A bucket's credit may only fall while nobody is let in.
LEMMA FallingCredit ==
    ASSUME NEW a \in Seq(0..MaxTime), NEW v \in Int, NEW w \in Int, w <= v, Spent(a, v)
    PROVE  Spent(a, w)
<1>1. ASSUME NEW j \in 1..Len(a)
      PROVE  w + (Len(a) - j) <= Burst - a[j]
  <2>1. j \in Int /\ Len(a) \in Int /\ a[j] \in Int /\ Burst \in Int
    BY LimitsAssumption
  <2>2. v + (Len(a) - j) <= Burst - a[j]
    BY DEF Spent
  <2> QED
    BY <2>1, <2>2
<1> QED
  BY <1>1 DEF Spent

\* The rate is kept if it is for every address.
LEMMA RateByAddress ==
    ASSUME TypeOK
    PROVE  RateIsKept <=> \A i \in Ips : Kept(admits[i])
<1>1. \A i \in Ips : DOMAIN admits[i] = 1..Len(admits[i])
  BY DEF TypeOK
<1> QED
  BY <1>1 DEF RateIsKept, Kept

\* One address is charged, and perhaps lets a connection in at time s.
LEMMA OneBucket ==
    ASSUME TypeOK, TypeOK', CreditIsSpent, RateIsKept, NEW i \in Ips, NEW s \in 0..MaxTime,
           \A k \in Ips : k # i => bucket'[k] = bucket[k] /\ admits'[k] = admits[k],
           \/ /\ admits'[i] = admits[i]
              /\ bucket'[i].made = bucket[i].made
              /\ Credit(bucket'[i]) <= Credit(bucket[i])
           \/ /\ admits'[i] = Append(admits[i], s)
              /\ bucket'[i].made
              /\ Credit(bucket'[i]) <= Burst - s
              /\ bucket[i].made => /\ Credit(bucket'[i]) <= Credit(bucket[i]) - 1
                                   /\ Credit(bucket[i]) + s >= 1
    PROVE  CreditIsSpent' /\ RateIsKept'
<1>1. \A k \in Ips : admits[k] \in Seq(0..MaxTime) /\ Credit(bucket[k]) \in Int
  BY LimitsAssumption DEF TypeOK, Credit
<1>2. s \in Int /\ Credit(bucket'[i]) \in Int
  BY LimitsAssumption DEF TypeOK, Credit
<1>3. \A k \in Ips : /\ Kept(admits[k]) /\ Spent(admits[k], Credit(bucket[k]))
                     /\ ~bucket[k].made => admits[k] = <<>>
  BY RateByAddress DEF CreditIsSpent
<1>4. /\ Kept(admits'[i]) /\ Spent(admits'[i], Credit(bucket'[i]))
      /\ ~bucket'[i].made => admits'[i] = <<>>
  <2>1. CASE /\ admits'[i] = admits[i]
             /\ bucket'[i].made = bucket[i].made
             /\ Credit(bucket'[i]) <= Credit(bucket[i])
    BY <1>1, <1>2, <1>3, <2>1, FallingCredit
  <2>2. CASE /\ admits'[i] = Append(admits[i], s)
             /\ bucket'[i].made
             /\ Credit(bucket'[i]) <= Burst - s
             /\ bucket[i].made => /\ Credit(bucket'[i]) <= Credit(bucket[i]) - 1
                                  /\ Credit(bucket[i]) + s >= 1
    <3>1. Len(admits[i]) # 0 => bucket[i].made
      BY <1>3
    <3> QED
      BY <1>1, <1>2, <1>3, <2>2, <3>1, TokenBucket
  <2> QED
    BY <2>1, <2>2
<1>5. \A k \in Ips : /\ Kept(admits'[k]) /\ Spent(admits'[k], Credit(bucket'[k]))
                     /\ ~bucket'[k].made => admits'[k] = <<>>
  BY <1>3, <1>4
<1>6. RateIsKept'
  <2>1. \A k \in Ips : DOMAIN admits'[k] = 1..Len(admits'[k])
    BY DEF TypeOK
  <2> QED
    BY <1>5, <2>1 DEF RateIsKept, Kept
<1> QED
  BY <1>5, <1>6 DEF CreditIsSpent

\* Buckets stay, so a loop that has found one keeps it.
LEMMA BucketStays ==
    ASSUME TypeOK, ChargeFindsBucket, NEW l \in Loops,
           \A i \in Ips : bucket[i].made => bucket'[i].made,
           \A m \in Loops : m # l => pc'[m] = pc[m] /\ cur'[m] = cur[m],
           pc'[l] = "charge" => cur'[l] = cur[l] /\ bucket'[Ip(l)].made
    PROVE  ChargeFindsBucket'
<1>1. ASSUME NEW m \in Loops, pc'[m] = "charge"
      PROVE  bucket'[IpOf[cur'[m]]].made
  <2>1. CASE m = l
    BY <1>1, <2>1 DEF Ip
  <2>2. CASE m # l
    <3>1. pc[m] = "charge" /\ cur'[m] = cur[m]
      BY <1>1, <2>2
    <3>2. bucket[Ip(m)].made /\ Ip(m) \in Ips
      BY <3>1, Types DEF ChargeFindsBucket
    <3> QED
      BY <3>1, <3>2 DEF Ip
  <2> QED
    BY <2>1, <2>2
<1> QED
  BY <1>1 DEF ChargeFindsBucket, Ip

-----------------------------------------------------------------------------
\* Nothing is handled and no bucket made at the start.
LEMMA InitIInv == Init => IInv
<1> SUFFICES ASSUME Init PROVE IInv
  OBVIOUS
<1>1. TypeOK
  <2>1. 0 \in 0..MaxTime
    BY LimitsAssumption
  <2>2. bucket \in [Ips -> [made : BOOLEAN, tokens : Int, last : 0..MaxTime]]
    BY <2>1 DEF Init, NoBucket
  <2>3. admits \in [Ips -> Seq(0..MaxTime)]
    BY DEF Init
  <2> QED
    BY <2>1, <2>2, <2>3 DEF Init, TypeOK
<1>2. DecidesOnOwn /\ SwapSawRoom /\ ChargeFindsBucket
  BY DEF Init, DecidesOnOwn, SwapSawRoom, ChargeFindsBucket
<1>3. Handled = {} /\ limits.maxGlobal \in Nat /\ active = 0
  BY LimitsAssumption DEF Init, Handled
<1>4. CountIsExact
  BY <1>3, FS_EmptySet DEF CountIsExact, ActiveIsExact, Handled
<1>5. \A i \in Ips : admits[i] = <<>> /\ Len(admits[i]) = 0 /\ DOMAIN admits[i] = {}
  BY DEF Init
<1>6. CreditIsSpent /\ RateIsKept
  BY <1>5 DEF CreditIsSpent, RateIsKept, Spent
<1> QED
  BY <1>1, <1>2, <1>4, <1>6 DEF IInv

\* Each step of the accept loops, the handlers and the clock preserves it.
LEMMA NextIInv ==
    ASSUME IInv, [Next]_vars
    PROVE  IInv'
<1> USE DEF IInv
<1>1. ASSUME NEW l \in Loops, NEW c \in Conns, Accept(l, c)
      PROVE  IInv'
  <2>1. PICK p \in {"clock", "acquire"} : pc' = [pc EXCEPT ![l] = p]
    BY <1>1 DEF Accept, Goto
  <2>2. /\ conn[c] = "new"
        /\ cur' = [cur EXCEPT ![l] = c]
        /\ conn' = [conn EXCEPT ![c] = "accepted"]
        /\ UNCHANGED <<limits, now, stamp, seen, bucket, active, admits, ctxDone>>
    BY <1>1 DEF Accept
  <2>3. TypeOK'
    BY <2>1, <2>2, NoConnAssumption DEF TypeOK
  <2>4. DecidesOnOwn' /\ SwapSawRoom'
    BY <2>1, <2>2, NoConnAssumption DEF TypeOK, DecidesOnOwn, SwapSawRoom
  <2>5. CountIsExact'
    BY <2>2, HandledSame, SameCount
  <2>6. CreditIsSpent' /\ RateIsKept'
    BY <2>2 DEF CreditIsSpent, RateIsKept
  <2>7. ChargeFindsBucket'
    BY <2>1, <2>2, BucketStays DEF TypeOK
  <2> QED
    BY <2>3, <2>4, <2>5, <2>6, <2>7
<1>2. ASSUME NEW l \in Loops, AcceptFails(l)
      PROVE  IInv'
  <2>1. /\ pc[l] = "accept"
        /\ pc' = [pc EXCEPT ![l] = "stopped"]
        /\ UNCHANGED <<limits, now, cur, stamp, seen, bucket, active, conn, admits, ctxDone>>
    BY <1>2 DEF AcceptFails, Goto
  <2>2. TypeOK' /\ DecidesOnOwn' /\ SwapSawRoom'
    BY <2>1 DEF TypeOK, DecidesOnOwn, SwapSawRoom
  <2>3. CountIsExact'
    BY <2>1 DEF CountIsExact, ActiveIsExact, Handled
  <2>4. CreditIsSpent' /\ RateIsKept'
    BY <2>1 DEF CreditIsSpent, RateIsKept
  <2>5. ChargeFindsBucket'
    BY <2>1, BucketStays DEF TypeOK
  <2> QED
    BY <2>2, <2>3, <2>4, <2>5
<1>3. ASSUME NEW l \in Loops, ReadClock(l)
      PROVE  IInv'
  <2>1. /\ pc[l] = "clock"
        /\ pc' = [pc EXCEPT ![l] = "find"]
        /\ stamp' = [stamp EXCEPT ![l] = now]
        /\ UNCHANGED <<limits, now, cur, seen, bucket, active, conn, admits, ctxDone>>
    BY <1>3 DEF ReadClock, Goto
  <2>2. TypeOK' /\ DecidesOnOwn' /\ SwapSawRoom'
    BY <2>1 DEF TypeOK, DecidesOnOwn, SwapSawRoom
  <2>3. CountIsExact'
    BY <2>1 DEF CountIsExact, ActiveIsExact, Handled
  <2>4. CreditIsSpent' /\ RateIsKept'
    BY <2>1 DEF CreditIsSpent, RateIsKept
  <2>5. ChargeFindsBucket'
    BY <2>1, BucketStays DEF TypeOK
  <2> QED
    BY <2>2, <2>3, <2>4, <2>5
<1>4. ASSUME NEW l \in Loops, FindBucket(l)
      PROVE  IInv'
  <2> DEFINE i == Ip(l)
  <2>1. /\ pc[l] = "find"
        /\ cur[l] # NoConn
        /\ UNCHANGED <<limits, now, cur, stamp, seen, active, conn, ctxDone>>
    BY <1>4 DEF FindBucket, TypeOK
  <2>2. /\ i \in Ips
        /\ stamp[l] \in 0..MaxTime
        /\ stamp[l] \in Int
    BY <2>1, Types
  <2>3. CountIsExact'
    BY <2>1 DEF CountIsExact, ActiveIsExact, Handled
  <2>4. CASE bucket[i].made
    <3>1. pc' = [pc EXCEPT ![l] = "charge"] /\ UNCHANGED <<bucket, admits>>
      BY <1>4, <2>4 DEF FindBucket, Goto
    <3>2. TypeOK' /\ DecidesOnOwn' /\ SwapSawRoom'
      BY <2>1, <3>1, LoopGoesOn DEF TypeOK
    <3>3. CreditIsSpent' /\ RateIsKept'
      BY <3>1 DEF CreditIsSpent, RateIsKept
    <3>4. ChargeFindsBucket'
      BY <2>1, <2>4, <3>1, BucketStays DEF TypeOK
    <3> QED
      BY <2>3, <3>2, <3>3, <3>4
  <2>5. CASE ~bucket[i].made
    <3>1. /\ pc' = [pc EXCEPT ![l] = "first"]
          /\ bucket' = [bucket EXCEPT ![i] = [made |-> TRUE, tokens |-> Burst, last |-> stamp[l]]]
          /\ admits' = [admits EXCEPT ![i] = Append(admits[i], stamp[l])]
      BY <1>4, <2>5 DEF FindBucket, Goto, Admit
    <3>2. DecidesOnOwn' /\ SwapSawRoom'
      BY <2>1, <3>1, LoopGoesOn
    <3>3. TypeOK'
      <4>1. bucket' \in [Ips -> [made : BOOLEAN, tokens : Int, last : 0..MaxTime]]
        BY <2>2, <3>1, LimitsAssumption DEF TypeOK
      <4>2. admits' \in [Ips -> Seq(0..MaxTime)]
        BY <2>2, <3>1 DEF TypeOK
      <4> QED
        BY <2>1, <3>1, <4>1, <4>2, LoopGoesOn DEF TypeOK
    <3>4. /\ \A k \in Ips : k # i => bucket'[k] = bucket[k] /\ admits'[k] = admits[k]
          /\ admits'[i] = Append(admits[i], stamp[l])
          /\ bucket'[i].made
          /\ Credit(bucket'[i]) = Burst - stamp[l]
      BY <2>2, <3>1 DEF TypeOK, Credit
    <3>5. CreditIsSpent' /\ RateIsKept'
      <4>1. Credit(bucket'[i]) <= Burst - stamp[l]
        BY <2>2, <3>4, LimitsAssumption
      <4> QED
        BY <2>2, <2>5, <3>3, <3>4, <4>1, OneBucket
    <3>6. ChargeFindsBucket'
      BY <2>1, <3>1, <3>4, BucketStays DEF TypeOK
    <3> QED
      BY <2>3, <3>2, <3>3, <3>5, <3>6
  <2> QED
    BY <2>4, <2>5
<1>5. ASSUME NEW l \in Loops, ChargeFirst(l)
      PROVE  IInv'
  <2> DEFINE i == Ip(l)
  <2>1. /\ pc[l] = "first"
        /\ cur[l] # NoConn
        /\ pc' = [pc EXCEPT ![l] = "acquire"]
        /\ bucket' = [bucket EXCEPT ![i].tokens = bucket[i].tokens - 1]
        /\ UNCHANGED <<limits, now, cur, stamp, seen, active, conn, admits, ctxDone>>
    BY <1>5 DEF ChargeFirst, Goto, TypeOK
  <2>2. /\ i \in Ips
        /\ bucket[i].tokens \in Int
        /\ bucket[i].last \in Int
        /\ stamp[l] \in 0..MaxTime
    BY <2>1, Types
  <2>3. CountIsExact'
    BY <2>1 DEF CountIsExact, ActiveIsExact, Handled
  <2>4. DecidesOnOwn' /\ SwapSawRoom'
    BY <2>1, LoopGoesOn
  <2>5. TypeOK'
    <3>1. bucket' \in [Ips -> [made : BOOLEAN, tokens : Int, last : 0..MaxTime]]
      <4>1. bucket[i].tokens - 1 \in Int
        BY <2>2
      <4> QED
        BY <2>1, <2>2, <4>1 DEF TypeOK
    <3> QED
      BY <2>1, <3>1, LoopGoesOn DEF TypeOK
  <2>6. /\ \A k \in Ips : k # i => bucket'[k] = bucket[k]
        /\ bucket'[i].made = bucket[i].made
        /\ bucket'[i].tokens = bucket[i].tokens - 1
        /\ bucket'[i].last = bucket[i].last
    BY <2>1, <2>2 DEF TypeOK
  <2>7. Credit(bucket'[i]) <= Credit(bucket[i])
    BY <2>2, <2>6 DEF Credit
  <2>8. CreditIsSpent' /\ RateIsKept'
    BY <2>1, <2>2, <2>5, <2>6, <2>7, OneBucket
  <2>9. ChargeFindsBucket'
    BY <2>1, <2>6, BucketStays DEF TypeOK
  <2> QED
    BY <2>3, <2>4, <2>5, <2>8, <2>9
<1>6. ASSUME NEW l \in Loops, Charge(l)
      PROVE  IInv'
  <2> DEFINE i == Ip(l)
             t == Refilled(l)
             b == bucket[i]
             s == stamp[l]
  <2>1. /\ pc[l] = "charge"
        /\ cur[l] # NoConn
        /\ UNCHANGED <<limits, now, stamp, seen, active, ctxDone>>
    BY <1>6 DEF Charge, TypeOK
  <2>2. /\ i \in Ips
        /\ b.tokens \in Int
        /\ b.last \in Int
        /\ s \in Int
        /\ s \in 0..MaxTime
        /\ Burst \in Int
    BY <2>1, Types, LimitsAssumption
  <2>3. /\ t \in Int
        /\ t <= Burst
        /\ t <= b.tokens + s - b.last
    BY <2>2 DEF Refilled
  <2> HIDE DEF t
  <2>4. CASE t >= 1
    <3>1. /\ bucket' = [bucket EXCEPT ![i].tokens = t - 1, ![i].last = s]
          /\ admits' = [admits EXCEPT ![i] = Append(admits[i], s)]
          /\ pc' = [pc EXCEPT ![l] = "acquire"]
          /\ UNCHANGED <<cur, conn>>
      BY <1>6, <2>3, <2>4 DEF Charge, Admit, Goto, t
    <3>2. DecidesOnOwn' /\ SwapSawRoom'
      BY <2>1, <3>1, LoopGoesOn
    <3>3. /\ bucket' \in [Ips -> [made : BOOLEAN, tokens : Int, last : 0..MaxTime]]
          /\ \A k \in Ips : k # i => bucket'[k] = bucket[k]
          /\ bucket'[i].made = b.made
          /\ bucket'[i].tokens = t - 1
          /\ bucket'[i].last = s
      <4> DEFINE u == t - 1
      <4>1. u \in Int /\ bucket' = [bucket EXCEPT ![i].tokens = u, ![i].last = s]
        BY <2>3, <3>1
      <4> HIDE DEF u
      <4>2. /\ bucket' \in [Ips -> [made : BOOLEAN, tokens : Int, last : 0..MaxTime]]
            /\ \A k \in Ips : k # i => bucket'[k] = bucket[k]
            /\ bucket'[i].made = b.made
            /\ bucket'[i].tokens = u
            /\ bucket'[i].last = s
        BY <2>2, <4>1 DEF TypeOK
      <4> QED
        BY <4>2 DEF u
    <3>4. /\ admits' \in [Ips -> Seq(0..MaxTime)]
          /\ \A k \in Ips : k # i => admits'[k] = admits[k]
          /\ admits'[i] = Append(admits[i], s)
      BY <2>2, <3>1 DEF TypeOK
    <3>5. TypeOK'
      BY <2>1, <3>1, <3>3, <3>4, LoopGoesOn DEF TypeOK
    <3>6. /\ Credit(bucket'[i]) <= Burst - s
          /\ Credit(bucket'[i]) <= Credit(b) - 1
          /\ Credit(b) + s >= 1
      BY <2>2, <2>3, <2>4, <3>3 DEF Credit
    <3>7. CreditIsSpent' /\ RateIsKept'
      <4>1. CASE b.made
        BY <2>2, <3>3, <3>4, <3>5, <3>6, <4>1, OneBucket
      <4>2. CASE ~b.made
        BY <2>1, <4>2 DEF ChargeFindsBucket
      <4> QED
        BY <4>1, <4>2
    <3>8. CountIsExact'
      BY <2>1, <3>1 DEF CountIsExact, ActiveIsExact, Handled
    <3>9. ChargeFindsBucket'
      BY <2>1, <3>1, <3>3, BucketStays DEF TypeOK
    <3> QED
      BY <3>2, <3>5, <3>7, <3>8, <3>9
  <2>5. CASE ~(t >= 1)
    <3>1. /\ bucket' = [bucket EXCEPT ![i].tokens = t, ![i].last = s]
          /\ conn' = [conn EXCEPT ![cur[l]] = "closed"]
          /\ cur' = [cur EXCEPT ![l] = NoConn]
          /\ pc' = [pc EXCEPT ![l] = "accept"]
          /\ UNCHANGED admits
      BY <1>6, <2>3, <2>5 DEF Charge, Refuse, Goto, t
    <3>2. DecidesOnOwn' /\ SwapSawRoom' /\ cur[l] \in Conns /\ conn[cur[l]] = "accepted"
      BY <2>1, <3>1, LoopIsFree
    <3>3. /\ bucket' \in [Ips -> [made : BOOLEAN, tokens : Int, last : 0..MaxTime]]
          /\ \A k \in Ips : k # i => bucket'[k] = bucket[k]
          /\ bucket'[i].made = b.made
          /\ bucket'[i].tokens = t
          /\ bucket'[i].last = s
      BY <2>2, <2>3, <3>1 DEF TypeOK
    <3>4. TypeOK'
      BY <2>1, <3>1, <3>3, LoopIsFree DEF TypeOK
    <3>5. Credit(bucket'[i]) <= Credit(b)
      BY <2>2, <2>3, <3>3 DEF Credit
    <3>6. CreditIsSpent' /\ RateIsKept'
      BY <2>2, <3>1, <3>3, <3>4, <3>5, OneBucket
    <3>7. CountIsExact'
      BY <2>1, <3>1, <3>2, HandledSame, SameCount
    <3>8. ChargeFindsBucket'
      BY <2>1, <3>1, <3>3, BucketStays DEF TypeOK
    <3> QED
      BY <3>2, <3>4, <3>6, <3>7, <3>8
  <2> QED
    BY <2>4, <2>5
<1>7. ASSUME NEW l \in Loops, AcquireLoad(l) \/ AcquireSwap(l)
      PROVE  IInv'
  <2>1. /\ pc[l] \in {"acquire", "swap"}
        /\ cur[l] # NoConn
        /\ UNCHANGED <<limits, now, stamp, bucket, admits, ctxDone>>
    BY <1>7 DEF AcquireLoad, AcquireSwap, TypeOK
  <2>a. active \in Nat /\ limits.maxGlobal \in Nat
    BY LimitsAssumption DEF TypeOK
  <2>2. CreditIsSpent' /\ RateIsKept'
    BY <2>1 DEF CreditIsSpent, RateIsKept
  <2>3. \/ /\ limits.maxGlobal = 0 \/ active < limits.maxGlobal
           /\ active' = active + 1
           /\ Spawn(l)
           /\ UNCHANGED seen
        \/ /\ Refuse(l)
           /\ UNCHANGED <<active, seen>>
        \/ /\ limits.maxGlobal # 0 /\ active < limits.maxGlobal
           /\ seen' = [seen EXCEPT ![l] = active]
           /\ pc' = [pc EXCEPT ![l] = "swap"]
           /\ UNCHANGED <<active, cur, conn>>
        \/ /\ pc' = [pc EXCEPT ![l] = "acquire"]
           /\ UNCHANGED <<active, cur, conn, seen>>
    BY <1>7 DEF AcquireLoad, AcquireSwap, Goto, SwapSawRoom
  <2>4. CASE /\ limits.maxGlobal = 0 \/ active < limits.maxGlobal
             /\ active' = active + 1
             /\ Spawn(l)
             /\ UNCHANGED seen
    <3>1. /\ conn' = [conn EXCEPT ![cur[l]] = "handled"]
          /\ cur' = [cur EXCEPT ![l] = NoConn]
          /\ pc' = [pc EXCEPT ![l] = "accept"]
      BY <2>4 DEF Spawn, Goto
    <3>2. DecidesOnOwn' /\ SwapSawRoom' /\ cur[l] \in Conns /\ conn[cur[l]] = "accepted"
      BY <2>1, <2>4, <3>1, LoopIsFree
    <3>3. TypeOK'
      BY <2>1, <2>a, <2>4, <3>1, LoopIsFree DEF TypeOK
    <3>4. IsFiniteSet(Handled') /\ Cardinality(Handled') = Cardinality(Handled) + 1
      BY <3>1, <3>2, HandledGrows DEF CountIsExact
    <3>5. CountIsExact'
      BY <2>1, <2>a, <2>4, <3>4 DEF CountIsExact, ActiveIsExact, Handled
    <3>6. ChargeFindsBucket'
      BY <2>1, <3>1, BucketStays DEF TypeOK
    <3> QED
      BY <2>2, <3>2, <3>3, <3>5, <3>6
  <2>5. CASE Refuse(l) /\ UNCHANGED <<active, seen>>
    <3>1. /\ conn' = [conn EXCEPT ![cur[l]] = "closed"]
          /\ cur' = [cur EXCEPT ![l] = NoConn]
          /\ pc' = [pc EXCEPT ![l] = "accept"]
      BY <2>5 DEF Refuse, Goto
    <3>2. DecidesOnOwn' /\ SwapSawRoom' /\ cur[l] \in Conns /\ conn[cur[l]] = "accepted"
      BY <2>1, <2>5, <3>1, LoopIsFree
    <3>3. TypeOK'
      BY <2>1, <2>5, <3>1, LoopIsFree DEF TypeOK
    <3>4. CountIsExact'
      BY <2>1, <2>5, <3>1, <3>2, HandledSame, SameCount
    <3>5. ChargeFindsBucket'
      BY <2>1, <3>1, BucketStays DEF TypeOK
    <3> QED
      BY <2>2, <3>2, <3>3, <3>4, <3>5
  <2>6. ASSUME NEW p \in {"acquire", "swap"},
               pc' = [pc EXCEPT ![l] = p],
               UNCHANGED <<active, cur, conn>>,
               p = "swap" => /\ limits.maxGlobal # 0 /\ active < limits.maxGlobal
                             /\ seen' = [seen EXCEPT ![l] = active],
               p = "acquire" => UNCHANGED seen
        PROVE  IInv'
    <3>1. DecidesOnOwn' /\ SwapSawRoom'
      BY <2>1, <2>6 DEF TypeOK, DecidesOnOwn, SwapSawRoom
    <3>2. TypeOK'
      BY <2>1, <2>6 DEF TypeOK
    <3>3. CountIsExact'
      BY <2>1, <2>6 DEF CountIsExact, ActiveIsExact, Handled
    <3>4. ChargeFindsBucket'
      BY <2>1, <2>6, BucketStays DEF TypeOK
    <3> QED
      BY <2>2, <3>1, <3>2, <3>3, <3>4
  <2> QED
    BY <2>3, <2>4, <2>5, <2>6
<1>8. ASSUME NEW c \in Conns, HandlerFails(c) \/ HandOff(c)
      PROVE  IInv'
  <2>1. PICK s \in {"closed", "relayed"} : conn' = [conn EXCEPT ![c] = s]
    BY <1>8 DEF HandlerFails, HandOff
  <2>2. /\ conn[c] = "handled"
        /\ active' = active - 1
        /\ UNCHANGED <<limits, now, pc, cur, stamp, seen, bucket, admits, ctxDone>>
    BY <1>8 DEF HandlerFails, HandOff, loopVars
  <2>3. /\ IsFiniteSet(Handled')
        /\ Cardinality(Handled') = Cardinality(Handled) - 1
        /\ active = Cardinality(Handled)
    BY <2>1, <2>2, HandledShrinks DEF CountIsExact, ActiveIsExact, Handled
  <2>4. active' \in Nat
    BY <2>2, <2>3, FS_CardinalityType
  <2>5. TypeOK'
    BY <2>1, <2>2, <2>4 DEF TypeOK
  <2>6. DecidesOnOwn' /\ SwapSawRoom'
    BY <2>1, <2>2 DEF TypeOK, DecidesOnOwn, SwapSawRoom
  <2>7. CountIsExact'
    <3>1. limits.maxGlobal \in Nat /\ active \in Nat
      BY LimitsAssumption DEF TypeOK
    <3> QED
      BY <2>2, <2>3, <3>1 DEF CountIsExact, ActiveIsExact, Handled
  <2>8. CreditIsSpent' /\ RateIsKept'
    BY <2>2 DEF CreditIsSpent, RateIsKept
  <2>9. ChargeFindsBucket'
    BY <2>2 DEF ChargeFindsBucket, Ip
  <2> QED
    BY <2>5, <2>6, <2>7, <2>8, <2>9
<1>9. ASSUME NEW c \in Conns, RelayEnds(c)
      PROVE  IInv'
  <2>1. /\ conn[c] = "relayed"
        /\ conn' = [conn EXCEPT ![c] = "closed"]
        /\ UNCHANGED <<limits, now, pc, cur, stamp, seen, bucket, active, admits, ctxDone>>
    BY <1>9 DEF RelayEnds, loopVars
  <2>2. TypeOK' /\ DecidesOnOwn' /\ SwapSawRoom'
    BY <2>1 DEF TypeOK, DecidesOnOwn, SwapSawRoom
  <2>3. CountIsExact'
    BY <2>1, HandledSame, SameCount
  <2>4. CreditIsSpent' /\ RateIsKept'
    BY <2>1 DEF CreditIsSpent, RateIsKept
  <2>5. ChargeFindsBucket'
    BY <2>1 DEF ChargeFindsBucket, Ip
  <2> QED
    BY <2>2, <2>3, <2>4, <2>5
<1>10. ASSUME Tick \/ Shutdown \/ UNCHANGED vars
       PROVE  IInv'
  <2>1. /\ now' \in 0..MaxTime
        /\ ctxDone' \in BOOLEAN
        /\ UNCHANGED <<limits, pc, cur, stamp, seen, bucket, active, conn, admits>>
    <3>1. CASE Tick
      BY <3>1, LimitsAssumption DEF Tick, loopVars, TypeOK
    <3>2. CASE Shutdown
      BY <3>2 DEF Shutdown, loopVars, TypeOK
    <3>3. CASE UNCHANGED vars
      BY <3>3 DEF vars, loopVars, TypeOK
    <3> QED
      BY <1>10, <3>1, <3>2, <3>3
  <2>2. TypeOK' /\ DecidesOnOwn' /\ SwapSawRoom'
    BY <2>1 DEF TypeOK, DecidesOnOwn, SwapSawRoom
  <2>3. CountIsExact'
    BY <2>1 DEF CountIsExact, ActiveIsExact, Handled
  <2>4. CreditIsSpent' /\ RateIsKept'
    BY <2>1 DEF CreditIsSpent, RateIsKept
  <2>5. ChargeFindsBucket'
    BY <2>1 DEF ChargeFindsBucket, Ip
  <2> QED
    BY <2>2, <2>3, <2>4, <2>5
<1> QED
  BY <1>1, <1>2, <1>3, <1>4, <1>5, <1>6, <1>7, <1>8, <1>9, <1>10 DEF Next, LoopStep

\* The invariant holds in every state of the proxies.
THEOREM Invariance == Spec => []IInv
BY InitIInv, NextIInv, PTL DEF Spec

\* Acquire and Release count exactly the running handlers and never let the count
\* pass maxGlobal, whatever the two accept loops and the handlers do in between.
THEOREM PlacesAreExact == Spec => []PlacesInv
<1>1. IInv => PlacesInv
  BY DEF IInv, PlacesInv, CountIsExact
<1> QED
  BY <1>1, Invariance, PTL

\* No address is ever let in more often than its burst and the time that passed
\* allow, although Allow's clock readings are charged out of order.
THEOREM RateIsAlwaysKept == Spec => []RateIsKept
<1>1. IInv => RateIsKept
  BY DEF IInv
<1> QED
  BY <1>1, Invariance, PTL
=============================================================================
