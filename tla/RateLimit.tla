----------------------------- MODULE RateLimit -----------------------------
(***************************************************************************)
(* The rate limiter: ratelimit.Limiter counts calls per key in Redis, in   *)
(* windows of fixed length; grpcserver.RateLimitUnaryInterceptor asks it   *)
(* for the address ClientIP finds behind the trusted proxies and lets the  *)
(* call through when the limiter cannot answer.                            *)
(*                                                                         *)
(* Time is counted in quarters of a second, which tell rounding up from    *)
(* rounding to the nearest second, and cut Window where EXPIRE cuts it.    *)
(* A call writes any x-forwarded-for it likes, in several metadata values  *)
(* if it likes; every proxy it then passes adds the address it was called  *)
(* from, plain or as an IPv4-mapped IPv6 address: at the end of the one    *)
(* value it joins all others to, or as a further value behind them.        *)
(***************************************************************************)
EXTENDS Naturals, Sequences, FiniteSetsExt

CONSTANTS
  Clients,   \* addresses calls come from
  Proxies,   \* addresses of TrustedProxies
  Joins,     \* those that join x-forwarded-for into one value
  Limit,     \* Config.Limit
  Window,    \* Config.Window, in quarters of a second
  MaxProxies,\* the longest way through the proxies
  MaxWritten \* the most a client writes into the first value, and into the others

Hosts == Clients \cup Proxies
Keys == Hosts

\* What does not parse as an address.
Garbage == "garbage"

ASSUME RateLimitAssumption ==
  /\ Clients \cap Proxies = {} /\ Limit \in Nat \ {0} /\ Window \in Nat \ {0}
  /\ MaxProxies \in Nat /\ MaxWritten \in Nat /\ Joins \subseteq Proxies
  /\ Garbage \notin Hosts

\* One address as it is written: the host and the form.
Addresses == Hosts \X {"plain", "mapped"}
Entries == Addresses \cup {<<Garbage, "plain">>}
Parses(entry) == entry[1] # Garbage
Unmap(address) == address[1]
SeqsUpTo(S, n) == UNION {[1 .. k -> S] : k \in 0 .. n}

VARIABLES
  count,    \* the counter of each key in Redis; one more than Limit stands for all beyond
  ttl,      \* the time each counter has left; 0 when there is no counter
  made,     \* calls of each client that Redis counted since the first, saturated alike
  admitted, \* those of them the limiter allowed
  age,      \* the time since that first call
  promise   \* the time left of the last retry-after the client was told in the window

vars == <<count, ttl, made, admitted, age, promise>>
seen == <<made, admitted, age>>

-----------------------------------------------------------------------------
\* TrustedProxies.Trust.
Trust(address) == Unmap(address) \in Proxies

\* Slip: the header read from the left.
ClientIPLeftmost(peer, forwarded) ==
  LET hops == {i \in 1 .. Len(forwarded) : Parses(forwarded[i]) /\ ~ Trust(forwarded[i])}
  IN  IF ~ Trust(peer) \/ hops = {} THEN Unmap(peer) ELSE Unmap(forwarded[Min(hops)])

\* Slip: the header believed whoever sends it.
ClientIPGullible(peer, forwarded) ==
  LET hops == {i \in 1 .. Len(forwarded) : Parses(forwarded[i]) /\ ~ Trust(forwarded[i])}
  IN  IF hops = {} THEN Unmap(peer) ELSE Unmap(forwarded[Max(hops)])

\* ClientIP: the peer, unless it is a trusted proxy; then the last address in the
\* header that parses and is not one.
ClientIP(peer, forwarded) ==
  LET hops == {i \in 1 .. Len(forwarded) : Parses(forwarded[i]) /\ ~ Trust(forwarded[i])}
  IN  IF ~ Trust(peer) \/ hops = {} THEN Unmap(peer) ELSE Unmap(forwarded[Max(hops)])

\* What the server sees of a call: the way is the client followed by its proxies.
Way(client, route) == <<client>> \o route
PeerOf(way) == way[Len(way)]
JoinedBy(way) == {k \in 1 .. Len(way) - 1 : way[k + 1][1] \in Joins}

\* What the client writes itself: the first value and all that is in further ones.
Written == SeqsUpTo(Entries, MaxWritten) \X SeqsUpTo(Entries, MaxWritten)
Nothing == <<<<>>, <<>>>>

\* metadataValue: the first value only.  The last proxy that joins has put into it all
\* that was written before, and the address it was called from; without such a proxy
\* it is the client's, or that of the first proxy if the client wrote none.
HeaderOf(way, written) ==
  CASE JoinedBy(way) # {} ->
         (written[1] \o written[2]) \o SubSeq(way, 1, Max(JoinedBy(way)))
    [] JoinedBy(way) = {} /\ written = Nothing /\ Len(way) > 1 -> <<way[1]>>
    [] OTHER -> written[1]

\* The deployment the limiter relies on: a call with a header of its own comes
\* directly or passes a proxy that joins.  Behind proxies that only add values the
\* first one is what the client likes, and so is the address it is counted under.
Sound(way, written) == Len(way) = 1 \/ JoinedBy(way) # {} \/ written = Nothing

Ways(c) == {Way(a, route) : a \in {c} \X {"plain", "mapped"},
                            route \in SeqsUpTo(Proxies \X {"plain"}, MaxProxies)}
KeysOf == [c \in Clients |->
             {ClientIP(PeerOf(call[1]), HeaderOf(call[1], call[2])) :
                call \in {x \in Ways(c) \X Written : Sound(x[1], x[2])}}]

-----------------------------------------------------------------------------
Saturated(n) == IF n > Limit THEN Limit + 1 ELSE n

\* ExpireNX sends Window in whole seconds: the fraction is dropped, and less than a
\* second becomes one.  This, and not Window, is how long a counter lives.
Expiry == IF Window < 4 THEN 4 ELSE 4 * (Window \div 4)

\* Slip: every call starts the window again.
NewTtlAlways(key) == Expiry

\* EXPIRE NX: only a counter without an expiry gets one.
NewTtl(key) == IF ttl[key] = 0 THEN Expiry ELSE ttl[key]

\* MULTI INCR, EXPIRE NX, PTTL EXEC.
Exec(key) ==
  /\ count' = [count EXCEPT ![key] = Saturated(@ + 1)]
  /\ ttl' = [ttl EXCEPT ![key] = NewTtl(key)]

\* The client's own account of its calls, from outside.
Noted(c, ok) ==
  /\ made' = [made EXCEPT ![c] = Saturated(@ + 1)]
  /\ admitted' = [admitted EXCEPT ![c] = IF ok THEN Saturated(@ + 1) ELSE @]
  /\ UNCHANGED age

\* The call is counted within the limit.
Allow(c) ==
  /\ \E key \in KeysOf[c] : count[key] < Limit /\ Exec(key)
  /\ Noted(c, TRUE)
  /\ UNCHANGED promise

\* Slip: the fraction of a second cut off.
RetryAfterCut(remaining) == remaining \div 4

\* int(retryAfter.Seconds() + 0.5).
RetryAfter(remaining) == (remaining + 2) \div 4

\* The call is beyond the limit: it is refused with the time the window has left.
Refuse(c) ==
  /\ \E key \in KeysOf[c] :
       /\ count[key] >= Limit
       /\ Exec(key)
       /\ promise' = [promise EXCEPT ![c] = 4 * RetryAfter(NewTtl(key))]
  /\ Noted(c, FALSE)

\* Redis does not answer; the transaction may have been executed all the same.
FailOpen(c) ==
  /\ \/ (\E key \in KeysOf[c] : Exec(key)) /\ Noted(c, FALSE)
     \/ UNCHANGED <<count, ttl, seen>>
  /\ UNCHANGED promise

\* Limiter.Reset: the service forgives the calls of a client.
Reset(c) ==
  /\ count' = [count EXCEPT ![c] = 0]
  /\ ttl' = [ttl EXCEPT ![c] = 0]
  /\ made' = [made EXCEPT ![c] = 0]
  /\ admitted' = [admitted EXCEPT ![c] = 0]
  /\ age' = [age EXCEPT ![c] = 0]
  /\ promise' = [promise EXCEPT ![c] = 0]

\* A quarter of a second passes: Redis drops the counters whose time is over.
Tick ==
  /\ ttl' = [k \in Keys |-> IF ttl[k] = 0 THEN 0 ELSE ttl[k] - 1]
  /\ count' = [k \in Keys |-> IF ttl[k] = 1 THEN 0 ELSE count[k]]
  /\ age' = [c \in Clients |-> IF made[c] = 0 \/ age[c] + 1 = Expiry THEN 0 ELSE age[c] + 1]
  /\ made' = [c \in Clients |-> IF age[c] + 1 = Expiry THEN 0 ELSE made[c]]
  /\ admitted' = [c \in Clients |-> IF age[c] + 1 = Expiry THEN 0 ELSE admitted[c]]
  /\ promise' = [c \in Clients |-> IF promise[c] = 0 \/ age[c] + 1 = Expiry THEN 0 ELSE promise[c] - 1]

Init ==
  /\ count = [k \in Keys |-> 0] /\ ttl = [k \in Keys |-> 0]
  /\ made = [c \in Clients |-> 0] /\ admitted = [c \in Clients |-> 0]
  /\ age = [c \in Clients |-> 0] /\ promise = [c \in Clients |-> 0]

Next ==
  \/ \E c \in Clients : Allow(c) \/ Refuse(c) \/ FailOpen(c) \/ Reset(c)
  \/ Tick

\* Time passes, however often clients call.
Spec == Init /\ [][Next]_vars /\ WF_vars(Tick)

-----------------------------------------------------------------------------
\* Counters and times stay in range, and no counter is without an expiry.
TypeOK ==
  /\ count \in [Keys -> 0 .. Limit + 1] /\ ttl \in [Keys -> 0 .. Expiry]
  /\ made \in [Clients -> 0 .. Limit + 1] /\ admitted \in [Clients -> 0 .. Limit + 1]
  /\ age \in [Clients -> 0 .. Expiry - 1] /\ promise \in [Clients -> 0 .. Expiry + 2]
  /\ \A k \in Keys : count[k] > 0 <=> ttl[k] > 0

\* The limiter allows a client no more than Limit calls in a window, whatever the
\* client writes into x-forwarded-for and whichever sound way its calls come
\* (clientip.go).  The window is the one Redis keeps, Expiry from the first call on:
\* the configured one if that is a number of whole seconds, up to a second less if not.
BudgetHeld == \A c \in Clients : admitted[c] <= Limit

\* Nobody is refused for what others do: a client that has made no more than Limit
\* calls in its window is not refused (clientip.go, ratelimit.go).  The window is again
\* Expiry long, which is more than was configured if that was less than a second.
InnocentNotRefused ==
  [][\A c \in Clients : Refuse(c) => made'[c] > Limit]_vars

\* The counter of a refused client ends at most half a second after the retry-after it
\* was told, so one second more is always enough (grpcserver/ratelimit.go).
WaitIsEnough ==
  \A c \in Clients : promise[c] > 0 => ttl[c] <= promise[c] + 1

\* A client at its limit is let in again even if it never stops calling (ExpireNX).
EventuallyFreed ==
  \A c \in Clients : count[c] > Limit ~> count[c] = 0
=============================================================================
