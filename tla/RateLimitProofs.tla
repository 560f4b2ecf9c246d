-------------------------- MODULE RateLimitProofs --------------------------
(***************************************************************************)
(* Proofs about RateLimit, for every set of clients and proxies, every     *)
(* limit and window, routes of any length through proxies that join or add *)
(* values and headers of any length.                                       *)
(***************************************************************************)
EXTENDS RateLimit, SequenceTheorems, WellFoundedInduction, TLAPS

-----------------------------------------------------------------------------
(* Whom a call is counted for *)

\* The last address of the header that parses and is no proxy.
LEMMA LastHop ==
  ASSUME NEW S \in SUBSET Nat, NEW n \in S, \A m \in S : m <= n
  PROVE  Max(S) = n
<1>1. \A x \in S : (\A y \in S : x >= y) => x = n
  OBVIOUS
<1>2. n \in S /\ \A y \in S : n >= y
  OBVIOUS
<1> QED BY <1>1, <1>2 DEF Max

\* A set of places on the way has a last one.
LEMMA GreatestHop ==
  ASSUME NEW n \in Nat, NEW S \in SUBSET (1 .. n), S # {}
  PROVE  Max(S) \in S
<1>0. \A y \in S : y \in Nat
  OBVIOUS
<1> DEFINE R == OpToRel(<, Nat)
           T == {n - x : x \in S}
<1>1. IsWellFoundedOn(R, Nat)
  BY NatLessThanWellFounded, Zenon
<1>2. \A x, y \in Nat : x < y => <<x, y>> \in R
  BY DEF OpToRel
<1> HIDE DEF R
<1>3. T \subseteq Nat /\ T # {}
  <2>1. \A x \in S : x \in 1 .. n /\ n - x \in Nat
    OBVIOUS
  <2> QED BY <2>1
<1>4. \E x \in T : \A y \in T : ~(<<y, x>> \in R)
  <2> HIDE DEF T
  <2> QED BY <1>1, <1>3, WFMin, Zenon
<1>5. PICK t \in T : \A u \in T : ~(<<u, t>> \in R)
  BY <1>4
<1>6. PICK x \in S : t = n - x
  OBVIOUS
<1>7. \A y \in S : x >= y
  <2>1. ASSUME NEW y \in S, x < y PROVE FALSE
    <3>1. n - y \in T /\ n - y \in Nat /\ t \in Nat /\ n - y < t
      BY <1>6, <2>1
    <3> QED BY <1>2, <1>5, <3>1
  <2> HIDE DEF T
  <2> QED BY ONLY <1>0, <1>6, <2>1
<1> QED BY <1>6, <1>7 DEF Max

\* Whatever a client writes into x-forwarded-for, and whichever sound way the call
\* comes, ClientIP finds the client: what the proxies write into the first value comes
\* after what the client wrote, and the walk from the right stops at the first address
\* that is none of theirs.
LEMMA ClientFound ==
  ASSUME NEW c \in Clients, NEW way \in Ways(c), NEW written \in Written,
         Sound(way, written)
  PROVE  ClientIP(PeerOf(way), HeaderOf(way, written)) = c
<1>1. PICK a \in {c} \X {"plain", "mapped"},
           route \in SeqsUpTo(Proxies \X {"plain"}, MaxProxies) : way = Way(a, route)
  BY DEF Ways
<1>2. PICK n \in 0 .. MaxProxies : route \in [1 .. n -> Proxies \X {"plain"}]
  BY DEF SeqsUpTo
<1>3. PICK first \in SeqsUpTo(Entries, MaxWritten), others \in SeqsUpTo(Entries, MaxWritten) :
        written = <<first, others>>
  BY DEF Written
<1>4. n \in Nat /\ first \in Seq(Entries) /\ others \in Seq(Entries)
  BY RateLimitAssumption DEF SeqsUpTo
<1>5. /\ a[1] = c /\ ~ Trust(a) /\ Parses(a)
      /\ \A k \in 1 .. n : Trust(route[k])
  BY <1>2, RateLimitAssumption DEF Trust, Unmap, Parses, Hosts
<1>6. /\ way \in Seq(Hosts \X {"plain", "mapped"}) /\ Len(way) = n + 1
      /\ way[1] = a /\ \A k \in 1 .. n : way[k + 1] = route[k]
  <2>1. <<a>> \in Seq(Hosts \X {"plain", "mapped"}) /\ Len(<<a>>) = 1 /\ <<a>>[1] = a
    BY DEF Hosts
  <2>2. route \in Seq(Hosts \X {"plain", "mapped"}) /\ Len(route) = n
    BY <1>2, <1>4 DEF Hosts
  <2> QED BY <1>1, <1>4, <2>1, <2>2 DEF Way
<1>7. CASE n = 0
  <2>1. PeerOf(way) = a
    BY <1>6, <1>7 DEF PeerOf
  <2> QED BY <1>5, <2>1 DEF ClientIP, Unmap
<1>8. n > 0 => PeerOf(way) = route[n] /\ Trust(PeerOf(way))
  BY <1>4, <1>5, <1>6 DEF PeerOf
<1>9. CASE n > 0 /\ JoinedBy(way) = {}
  <2> DEFINE h == HeaderOf(way, written)
             hops == {i \in 1 .. Len(h) : Parses(h[i]) /\ ~ Trust(h[i])}
  <2>1. h = <<a>>
    BY <1>4, <1>6, <1>9 DEF HeaderOf, Sound
  <2>2. Len(h) = 1 /\ h[1] = a
    BY <2>1
  <2> HIDE DEF h
  <2>3. 1 \in hops /\ \A i \in hops : i <= 1
    BY <1>5, <2>2
  <2>4. Max(hops) = 1
    BY <2>3, LastHop
  <2>5. ClientIP(PeerOf(way), h) = Unmap(h[Max(hops)])
    BY <1>8, <1>9, <2>3 DEF ClientIP
  <2> QED BY <1>5, <2>2, <2>4, <2>5 DEF Unmap, h
<1>10. CASE n > 0 /\ JoinedBy(way) # {}
  <2> DEFINE j == Max(JoinedBy(way))
             w == first \o others
             m == Len(w)
             h == HeaderOf(way, written)
             hops == {i \in 1 .. Len(h) : Parses(h[i]) /\ ~ Trust(h[i])}
             sub == SubSeq(way, 1, j)
  <2>1. j \in 1 .. n
    <3>1. JoinedBy(way) \in SUBSET (1 .. n) /\ JoinedBy(way) # {}
      BY <1>4, <1>6, <1>10 DEF JoinedBy
    <3> QED BY <1>4, <3>1, GreatestHop
  <2> HIDE DEF j
  <2>2. /\ sub \in Seq(Hosts \X {"plain", "mapped"}) /\ Len(sub) = j
        /\ \A k \in 1 .. j : sub[k] = way[k]
    BY <1>4, <1>6, <2>1
  <2>3. w \in Seq(Entries) /\ m \in Nat
    BY <1>4
  <2>4. /\ Len(h) = m + j /\ h[m + 1] = a
        /\ \A k \in 1 .. j - 1 : h[m + 1 + k] = route[k]
    <3>1. h = w \o sub
      BY <1>3, <1>10 DEF HeaderOf, j
    <3> HIDE DEF sub, w, h
    <3>2. Len(h) = m + j /\ \A k \in 1 .. j : h[m + k] = sub[k]
      <4>1. sub \in Seq(Entries)
        BY <2>2 DEF Entries, Addresses
      <4>2. /\ Len(h) = m + j
            /\ \A i \in 1 .. m + j : h[i] = IF i <= m THEN w[i] ELSE sub[i - m]
        <5>1. /\ Len(w \o sub) = Len(w) + Len(sub)
              /\ \A i \in 1 .. Len(w) + Len(sub) : (w \o sub)[i] =
                    IF i <= Len(w) THEN w[i] ELSE sub[i - Len(w)]
          BY ONLY <2>3, <4>1, ConcatProperties, Zenon
        <5> QED BY ONLY <2>2, <3>1, <5>1, Zenon
      <4>3. \A k \in 1 .. j : m + k \in 1 .. m + j /\ m + k > m /\ (m + k) - m = k
        BY <2>1, <2>3
      <4> QED BY <2>1, <4>2, <4>3
    <3>3. h[m + 1] = a
      BY <1>6, <2>1, <2>2, <3>2
    <3>4. ASSUME NEW k \in 1 .. j - 1 PROVE h[m + 1 + k] = route[k]
      <4>1. k + 1 \in 1 .. j /\ m + (k + 1) = m + 1 + k /\ k \in 1 .. n
        BY <1>4, <2>1, <2>3, <3>4
      <4>2. h[m + (k + 1)] = sub[k + 1] /\ sub[k + 1] = way[k + 1]
        BY <2>2, <3>2, <4>1
      <4> QED BY <1>6, <4>1, <4>2
    <3> QED BY <3>2, <3>3, <3>4
  <2> HIDE DEF h, m
  <2>5. m + 1 \in hops
    BY <1>5, <2>1, <2>3, <2>4
  <2>6. \A i \in hops : i <= m + 1
    <3> SUFFICES ASSUME NEW i \in hops, i > m + 1 PROVE FALSE
      BY <2>3
    <3>1. i - (m + 1) \in 1 .. j - 1 /\ m + 1 + (i - (m + 1)) = i
      BY <2>1, <2>3, <2>4
    <3>2. h[i] = route[i - (m + 1)] /\ i - (m + 1) \in 1 .. n
      BY <1>4, <2>1, <2>4, <3>1
    <3> QED BY <1>5, <3>2
  <2>7. Max(hops) = m + 1
    BY <2>3, <2>5, <2>6, LastHop
  <2>8. ClientIP(PeerOf(way), h) = Unmap(h[Max(hops)])
    BY <1>8, <1>10, <2>5 DEF ClientIP
  <2> QED BY <1>5, <2>4, <2>7, <2>8 DEF Unmap, h
<1> QED BY <1>4, <1>7, <1>9, <1>10

\* So all calls of a client, and no others, are counted under its own address.
LEMMA KeysAreClients == \A c \in Clients : KeysOf[c] \subseteq {c}
  BY ClientFound DEF KeysOf

-----------------------------------------------------------------------------
(* The window of Redis and the client's own *)

\* The counter in Redis counts exactly the calls of its client, and expires when
\* the client's own window, of the same length, is over; what was admitted or promised belongs to that
\* window.  BudgetHeld and WaitIsEnough are not inductive without it: a counter that
\* was dropped early, or shared, would admit more or start another wait.
WindowInv ==
  \A c \in Clients :
    /\ count[c] = made[c]
    /\ made[c] = 0 => admitted[c] = 0 /\ age[c] = 0 /\ promise[c] = 0
    /\ made[c] > 0 => ttl[c] = Expiry - age[c]
    /\ admitted[c] <= made[c]

LimitInv == TypeOK /\ WindowInv /\ BudgetHeld /\ WaitIsEnough

\* A counter lives a whole number of seconds, at least one: as long as was configured
\* if that is a number of whole seconds, less than a second longer or shorter if not.
LEMMA ExpiryOfWindow ==
  /\ Expiry \in Nat \ {0} /\ Expiry % 4 = 0
  /\ Window % 4 = 0 => Expiry = Window
  /\ Window < Expiry + 4 /\ Expiry < Window + 4
  BY RateLimitAssumption DEF Expiry

\* What the steps below need of it.
LEMMA ExpiryType == Expiry \in Nat \ {0}
  BY ExpiryOfWindow

USE RateLimitAssumption, ExpiryType DEF Keys, Hosts

\* Before the first call there is no counter.
LEMMA InitLimit == Init => LimitInv
  BY DEF Init, LimitInv, TypeOK, WindowInv, BudgetHeld, WaitIsEnough

\* The retry-after a client is told misses the end of its window by less than half a
\* second either way.
LEMMA Rounded ==
  ASSUME NEW t \in Nat
  PROVE  /\ 4 * RetryAfter(t) \in Nat
         /\ t <= 4 * RetryAfter(t) + 1 /\ 4 * RetryAfter(t) <= t + 2
  BY DEF RetryAfter

\* A transaction counts one call more and starts no window within a window.
LEMMA ExecLimit ==
  ASSUME LimitInv, NEW c \in Clients, Exec(c), NEW ok \in BOOLEAN, Noted(c, ok),
         ok => count[c] < Limit, NEW p \in 0 .. Expiry + 2,
         promise' = [promise EXCEPT ![c] = p],
         p > 0 => NewTtl(c) <= p + 1
  PROVE  LimitInv'
<1> USE DEF LimitInv, TypeOK
<1>1. /\ count[c] \in 0 .. Limit + 1 /\ ttl[c] \in 0 .. Expiry
      /\ made[c] \in 0 .. Limit + 1 /\ admitted[c] \in 0 .. Limit + 1
      /\ age[c] \in 0 .. Expiry - 1
      /\ count[c] > 0 <=> ttl[c] > 0
  OBVIOUS
<1>2. /\ Saturated(count[c] + 1) \in 1 .. Limit + 1
      /\ NewTtl(c) \in 1 .. Expiry
      /\ Saturated(made[c] + 1) \in 1 .. Limit + 1
      /\ Saturated(made[c] + 1) >= made[c]
      /\ made[c] <= Limit => Saturated(made[c] + 1) = made[c] + 1
      /\ Saturated(admitted[c] + 1) \in 1 .. Limit + 1
      /\ admitted[c] <= Limit => Saturated(admitted[c] + 1) = admitted[c] + 1
  BY <1>1 DEF Saturated, NewTtl
<1>3. /\ count' = [count EXCEPT ![c] = Saturated(count[c] + 1)]
      /\ ttl' = [ttl EXCEPT ![c] = NewTtl(c)]
      /\ made' = [made EXCEPT ![c] = Saturated(made[c] + 1)]
      /\ admitted' = [admitted EXCEPT ![c] = IF ok THEN Saturated(admitted[c] + 1)
                                                   ELSE admitted[c]]
      /\ age' = age
  BY DEF Exec, Noted
<1>4. TypeOK'
  BY <1>1, <1>2, <1>3
<1>5. ASSUME NEW d \in Clients
      PROVE  /\ count'[d] = made'[d]
             /\ made'[d] = 0 => admitted'[d] = 0 /\ age'[d] = 0 /\ promise'[d] = 0
             /\ made'[d] > 0 => ttl'[d] = Expiry - age'[d]
             /\ admitted'[d] <= made'[d] /\ admitted'[d] <= Limit
             /\ promise'[d] > 0 => ttl'[d] <= promise'[d] + 1
  <2>1. CASE d # c
    BY <1>3, <2>1 DEF WindowInv, BudgetHeld, WaitIsEnough
  <2>2. CASE d = c
    <3>1. /\ count'[c] = Saturated(count[c] + 1) /\ ttl'[c] = NewTtl(c)
          /\ made'[c] = Saturated(made[c] + 1) /\ promise'[c] = p
          /\ admitted'[c] = IF ok THEN Saturated(admitted[c] + 1) ELSE admitted[c]
      BY <1>3
    <3>2. NewTtl(c) = Expiry - age[c]
      BY <1>1 DEF WindowInv, NewTtl
    <3>3. admitted'[c] <= made'[c] /\ admitted'[c] <= Limit
      BY <1>1, <1>2, <3>1 DEF WindowInv, BudgetHeld
    <3> QED BY <1>1, <1>2, <1>3, <2>2, <3>1, <3>2, <3>3 DEF WindowInv
  <2> QED BY <2>1, <2>2
<1> QED BY <1>4, <1>5 DEF WindowInv, BudgetHeld, WaitIsEnough

\* Every step preserves the invariant.
LEMMA StepLimit == LimitInv /\ [Next]_vars => LimitInv'
<1> SUFFICES ASSUME LimitInv, [Next]_vars PROVE LimitInv'
  OBVIOUS
<1>1. TypeOK /\ \A c \in Clients : \A key \in KeysOf[c] : key = c
  BY KeysAreClients DEF LimitInv
<1>2. \A c \in Clients : promise[c] \in 0 .. Expiry + 2
                       /\ promise = [promise EXCEPT ![c] = promise[c]]
  BY <1>1 DEF TypeOK
<1>3. \A c \in Clients : promise[c] > 0 => NewTtl(c) <= promise[c] + 1
  BY <1>1 DEF LimitInv, TypeOK, WindowInv, WaitIsEnough, NewTtl
<1>4. ASSUME NEW c \in Clients, Allow(c) PROVE LimitInv'
  <2>1. count[c] < Limit /\ Exec(c) /\ Noted(c, TRUE) /\ promise' = promise
    BY <1>1, <1>4 DEF Allow
  <2> QED BY <1>2, <1>3, <2>1, ExecLimit
<1>5. ASSUME NEW c \in Clients, Refuse(c) PROVE LimitInv'
  <2> DEFINE p == 4 * RetryAfter(NewTtl(c))
  <2>1. Exec(c) /\ Noted(c, FALSE) /\ promise' = [promise EXCEPT ![c] = p]
    BY <1>1, <1>5 DEF Refuse
  <2>2. NewTtl(c) \in 0 .. Expiry
    BY <1>1 DEF TypeOK, NewTtl
  <2>3. p \in 0 .. Expiry + 2 /\ NewTtl(c) <= p + 1
    BY <2>2, Rounded
  <2> HIDE DEF p
  <2> QED BY <2>1, <2>3, ExecLimit
<1>6. ASSUME NEW c \in Clients, FailOpen(c) PROVE LimitInv'
  <2>1. CASE Exec(c) /\ Noted(c, FALSE) /\ promise' = promise
    BY <1>2, <1>3, <2>1, ExecLimit
  <2>2. CASE UNCHANGED vars
    BY <2>2 DEF vars, LimitInv, TypeOK, WindowInv, BudgetHeld, WaitIsEnough
  <2> QED BY <1>1, <1>6, <2>1, <2>2 DEF FailOpen, seen, vars
<1>7. ASSUME NEW c \in Clients, Reset(c) PROVE LimitInv'
  BY <1>7 DEF Reset, LimitInv, TypeOK, WindowInv, BudgetHeld, WaitIsEnough
<1>8. CASE Tick
  <2>1. TypeOK'
    <3>1. /\ count' \in [Keys -> 0 .. Limit + 1] /\ ttl' \in [Keys -> 0 .. Expiry]
          /\ \A k \in Keys : count'[k] > 0 <=> ttl'[k] > 0
      <4>1. ttl' \in [Keys -> 0 .. Expiry]
        BY <1>1, <1>8 DEF Tick, TypeOK
      <4>2. count' \in [Keys -> 0 .. Limit + 1]
        BY <1>1, <1>8 DEF Tick, TypeOK
      <4>3. \A k \in Keys : count'[k] > 0 <=> ttl'[k] > 0
        BY <1>1, <1>8 DEF Tick, TypeOK
      <4> QED BY <4>1, <4>2, <4>3
    <3>2. /\ made' \in [Clients -> 0 .. Limit + 1]
          /\ admitted' \in [Clients -> 0 .. Limit + 1]
      BY <1>1, <1>8 DEF Tick, TypeOK
    <3>3. age' \in [Clients -> 0 .. Expiry - 1]
      <4>1. \A a \in 0 .. Expiry - 1 :
              IF a + 1 = Expiry THEN 0 \in 0 .. Expiry - 1 ELSE a + 1 \in 0 .. Expiry - 1
        BY <1>1
      <4>2. \A c \in Clients : age[c] \in 0 .. Expiry - 1 /\ 0 \in 0 .. Expiry - 1
        BY <1>1 DEF TypeOK
      <4>3. age' = [c \in Clients |->
                      IF made[c] = 0 \/ age[c] + 1 = Expiry THEN 0 ELSE age[c] + 1]
        BY <1>8 DEF Tick
      <4> QED BY ONLY <4>1, <4>2, <4>3
    <3>4. promise' \in [Clients -> 0 .. Expiry + 2]
      BY <1>1, <1>8 DEF Tick, TypeOK
    <3> QED BY <3>1, <3>2, <3>3, <3>4 DEF TypeOK
  <2>2. ASSUME NEW c \in Clients
        PROVE  /\ count'[c] = made'[c]
               /\ made'[c] = 0 => admitted'[c] = 0 /\ age'[c] = 0 /\ promise'[c] = 0
               /\ made'[c] > 0 => ttl'[c] = Expiry - age'[c]
               /\ admitted'[c] <= made'[c] /\ admitted'[c] <= Limit
               /\ promise'[c] > 0 => ttl'[c] <= promise'[c] + 1
    BY <1>1, <1>8 DEF Tick, TypeOK, LimitInv, WindowInv, BudgetHeld, WaitIsEnough
  <2> QED BY <2>1, <2>2 DEF LimitInv, WindowInv, BudgetHeld, WaitIsEnough
<1>9. CASE UNCHANGED vars
  BY <1>9 DEF vars, LimitInv, TypeOK, WindowInv, BudgetHeld, WaitIsEnough
<1> QED BY <1>4, <1>5, <1>6, <1>7, <1>8, <1>9 DEF Next

\* Whatever clients write into x-forwarded-for and whichever sound way their calls
\* come, the limiter allows none of them more than Limit calls in a window as Redis
\* keeps it (ExpiryOfWindow relates it to the configured one).
THEOREM LimitIsKept == Spec => []BudgetHeld
<1>1. LimitInv => BudgetHeld
  BY DEF LimitInv
<1> QED BY <1>1, InitLimit, StepLimit, PTL DEF Spec

\* A client that waits one second more than the retry-after it was told finds its
\* counter gone, for every window: rounding to the nearest second costs no more.
THEOREM RetryAfterSuffices == Spec => []WaitIsEnough
<1>1. LimitInv => WaitIsEnough
  BY DEF LimitInv
<1> QED BY <1>1, InitLimit, StepLimit, PTL DEF Spec

\* No client is refused for the calls of another, or for calls of an earlier window as
\* Redis keeps it.
THEOREM NobodyPaysForOthers == Spec => InnocentNotRefused
<1>1. LimitInv /\ [Next]_vars =>
        [\A c \in Clients : Refuse(c) => made'[c] > Limit]_vars
  <2> SUFFICES ASSUME LimitInv, NEW c \in Clients, Refuse(c) PROVE made'[c] > Limit
    OBVIOUS
  <2>1. count[c] >= Limit /\ made' = [made EXCEPT ![c] = Saturated(@ + 1)]
    BY KeysAreClients DEF Refuse, Noted
  <2> QED BY <2>1 DEF LimitInv, TypeOK, WindowInv, Saturated
<1> QED BY <1>1, InitLimit, StepLimit, PTL DEF Spec, InnocentNotRefused

=============================================================================
