----------------------------- MODULE ServiceToken -----------------------------
(***************************************************************************)
(* ServiceTokenSource of package grpcclient with Manager.Issue and         *)
(* Manager.Parse of package token: the calls of one process share a cached *)
(* token, and another process verifies it with a clock of its own.         *)
(*                                                                         *)
(* Clocks are offsets from true time and may jump within Skew; the dates   *)
(* of a token are the time left to them, so Tick moves them all.  A second *)
(* is UnitsPerSecond units: jwt.NewNumericDate drops the fraction.         *)
(***************************************************************************)
EXTENDS Integers

CONSTANTS
    Calls,               \* calls that pass ServiceTokenUnaryInterceptor
    RequestedTTL,        \* the ttl argument of NewServiceTokenSource
    DefaultServiceTokenTTL, RenewBefore,
    Leeway,              \* JWT_LEEWAY of the verifier
    CallTimeout,         \* the deadline of a call
    UnitsPerSecond,      \* clock units in a second
    Skew,                \* how far a clock may be from true time
    Free                 \* the mutex without a holder

\* NewServiceTokenSource.
TTL == IF RequestedTTL <= 0 THEN DefaultServiceTokenTTL ELSE RequestedTTL

ASSUME DurationsAssumption ==
    /\ RequestedTTL \in Int
    /\ DefaultServiceTokenTTL \in Nat \ {0}
    /\ RenewBefore \in Nat
    /\ Leeway \in Nat
    /\ CallTimeout \in Nat
    /\ UnitsPerSecond \in Nat \ {0}
    /\ Skew \in Nat
    /\ Free \notin Calls

\* The clocks are close enough for the leeway and the early renewal.  With the
\* defaults (30 s each, a TTL of 5 min, calls of 5 s) each may be 15 s off.
ASSUME SkewAssumption ==
    /\ 2 * Skew <= Leeway
    /\ 2 * Skew + CallTimeout <= Leeway + RenewBefore
    /\ 2 * Skew + CallTimeout <= Leeway + TTL - UnitsPerSecond

Offsets == (-Skew)..Skew

\* Bound: the dates of a token are followed until no clock takes them for valid.
Oldest == -(Skew + Leeway + 1)

VARIABLES
    setup,     \* one of Setups
    phase,     \* true time within its second
    issuer,    \* offset of the clock of the process that signs
    verifier,  \* offset of the clock of the process that verifies
    mutex,     \* the call inside Token, or Free
    cached,    \* the source has a token
    cacheExp, cacheNbf,  \* its dates, in units from now
    pc,        \* [Calls -> PCs]
    left,      \* [Calls -> Nat], time to the deadline of the call
    exp, nbf   \* [Calls -> Int], the dates of the token of the call

clockVars == <<phase, issuer, verifier>>
sourceVars == <<mutex, cached, cacheExp, cacheNbf>>
callVars == <<pc, left, exp, nbf>>
vars == <<setup, clockVars, sourceVars, callVars>>

\* What NewManager makes of the configuration: a secret or a private key signs
\* and verifies, a public key only verifies, and anything else is an error, which
\* leaves the source without a manager.
Setups == {"unset", "verifyOnly", "full"}

PCs == {"idle", "token", "issue", "sent", "served", "refused", "error"}

TypeOK ==
    /\ setup \in Setups
    /\ phase \in 0..(UnitsPerSecond - 1)
    /\ issuer \in Offsets
    /\ verifier \in Offsets
    /\ mutex \in Calls \cup {Free}
    /\ cached \in BOOLEAN
    /\ cacheExp \in Int
    /\ cacheNbf \in Int
    /\ pc \in [Calls -> PCs]
    /\ left \in [Calls -> 0..CallTimeout]
    /\ exp \in [Calls -> Int]
    /\ nbf \in [Calls -> Int]

Init ==
    /\ setup \in Setups
    /\ phase = 0
    /\ issuer \in Offsets
    /\ verifier \in Offsets
    /\ mutex = Free
    /\ cached = FALSE
    /\ cacheExp = 0
    /\ cacheNbf = 0
    /\ pc = [c \in Calls |-> "idle"]
    /\ left = [c \in Calls |-> 0]
    /\ exp = [c \in Calls |-> 0]
    /\ nbf = [c \in Calls |-> 0]

-------------------------------------------------------------------------------
\* jwt.NewNumericDate(t) for t = d units from what the issuer's clock shows,
\* as an offset from true time.
NumericDate(d) ==
    issuer + d - ((phase + issuer + d) % UnitsPerSecond)

\* Slip: a token is renewed when it has expired, not before.
FreshUntilExpiry == cached /\ issuer < cacheExp

\* now.Before(s.expires.Add(-serviceTokenRenewBefore)).
Fresh == cached /\ issuer < cacheExp - RenewBefore

\* The checks of the parser, as the verifier's clock shows at this moment:
\* exp within the leeway and nbf within the leeway.
Accepts(e, n) == verifier < e + Leeway /\ n <= verifier + Leeway

\* The call ends, with or without an answer, and drops its token.
Ends(c, outcome) ==
    /\ pc' = [pc EXCEPT ![c] = outcome]
    /\ left' = [left EXCEPT ![c] = 0]
    /\ exp' = [exp EXCEPT ![c] = 0]
    /\ nbf' = [nbf EXCEPT ![c] = 0]

\* A call sets out: its deadline runs before the interceptor asks for a token.
Begin(c) ==
    /\ pc[c] = "idle"
    /\ pc' = [pc EXCEPT ![c] = "token"]
    /\ left' = [left EXCEPT ![c] = CallTimeout]
    /\ UNCHANGED <<setup, clockVars, sourceVars, exp, nbf>>

\* Token without a manager: the error comes before the mutex.
NotConfigured(c) ==
    /\ pc[c] = "token"
    /\ setup = "unset"
    /\ Ends(c, "error")
    /\ UNCHANGED <<setup, clockVars, sourceVars>>

\* Token returns the cached token.
Reuse(c) ==
    /\ pc[c] = "token"
    /\ setup # "unset"
    /\ mutex = Free
    /\ Fresh
    /\ pc' = [pc EXCEPT ![c] = "sent"]
    /\ exp' = [exp EXCEPT ![c] = cacheExp]
    /\ nbf' = [nbf EXCEPT ![c] = cacheNbf]
    /\ UNCHANGED <<setup, clockVars, sourceVars, left>>

\* Token finds nothing to reuse and goes on to IssueAccess with the mutex.
Renew(c) ==
    /\ pc[c] = "token"
    /\ setup # "unset"
    /\ mutex = Free
    /\ ~Fresh
    /\ mutex' = c
    /\ pc' = [pc EXCEPT ![c] = "issue"]
    /\ UNCHANGED <<setup, clockVars, cached, cacheExp, cacheNbf, left, exp, nbf>>

\* Issue reads the clock once more, signs, and the source keeps the token.
Issue(c) ==
    /\ pc[c] = "issue"
    /\ setup = "full"
    /\ mutex' = Free
    /\ cached' = TRUE
    /\ cacheExp' = NumericDate(TTL)
    /\ cacheNbf' = NumericDate(0)
    /\ pc' = [pc EXCEPT ![c] = "sent"]
    /\ exp' = [exp EXCEPT ![c] = cacheExp']
    /\ nbf' = [nbf EXCEPT ![c] = cacheNbf']
    /\ UNCHANGED <<setup, clockVars, left>>

\* Slip: the error path returns with the mutex held.
IssueFailsLocked(c) ==
    /\ pc[c] = "issue"
    /\ setup = "verifyOnly"
    /\ Ends(c, "error")
    /\ UNCHANGED <<setup, clockVars, sourceVars>>

\* Issue has no key to sign with; the deferred Unlock runs.
IssueFails(c) ==
    /\ pc[c] = "issue"
    /\ setup = "verifyOnly"
    /\ mutex' = Free
    /\ Ends(c, "error")
    /\ UNCHANGED <<setup, clockVars, cached, cacheExp, cacheNbf>>

\* An attempt of the call reaches the server before the deadline.  Attempts
\* that are lost leave the call in "sent": the next carries the same token.
Arrive(c) ==
    /\ pc[c] = "sent"
    /\ left[c] > 0
    /\ Ends(c, IF Accepts(exp[c], nbf[c]) THEN "served" ELSE "refused")
    /\ UNCHANGED <<setup, clockVars, sourceVars>>

\* The deadline has passed: the call has failed and nobody waits for it.
Expire(c) ==
    /\ pc[c] = "sent"
    /\ left[c] = 0
    /\ Ends(c, "error")
    /\ UNCHANGED <<setup, clockVars, sourceVars>>

\* The next call.
Again(c) ==
    /\ pc[c] \in {"served", "error"}
    /\ pc' = [pc EXCEPT ![c] = "idle"]
    /\ UNCHANGED <<setup, clockVars, sourceVars, left, exp, nbf>>

\* A clock is set.
Jump ==
    /\ \/ issuer' \in Offsets /\ UNCHANGED verifier
       \/ verifier' \in Offsets /\ UNCHANGED issuer
    /\ UNCHANGED <<setup, phase, sourceVars, callVars>>

Sooner(d) == IF d > Oldest THEN d - 1 ELSE Oldest

\* A unit of time passes; goroutines may be paused for any time.
Tick ==
    /\ phase' = (phase + 1) % UnitsPerSecond
    /\ cacheExp' = IF cached THEN Sooner(cacheExp) ELSE 0
    /\ cacheNbf' = IF cached THEN Sooner(cacheNbf) ELSE 0
    /\ left' = [c \in Calls |-> IF left[c] > 0 THEN left[c] - 1 ELSE 0]
    /\ exp' = [c \in Calls |-> IF pc[c] = "sent" THEN Sooner(exp[c]) ELSE 0]
    /\ nbf' = [c \in Calls |-> IF pc[c] = "sent" THEN Sooner(nbf[c]) ELSE 0]
    /\ UNCHANGED <<setup, issuer, verifier, mutex, cached, pc>>

\* A step of the goroutine of call c.
CallStep(c) ==
    \/ NotConfigured(c) \/ Reuse(c) \/ Renew(c) \/ Issue(c) \/ IssueFails(c)
    \/ Arrive(c) \/ Expire(c)

Next ==
    \/ \E c \in Calls : Begin(c) \/ CallStep(c) \/ Again(c)
    \/ Jump
    \/ Tick

Spec == Init /\ [][Next]_vars

\* sync.Mutex is starvation free, and a goroutine that can run does.
Fairness ==
    /\ WF_vars(Tick)
    /\ \A c \in Calls :
        SF_vars(Reuse(c) \/ Renew(c)) /\ WF_vars(CallStep(c))

FairSpec == Spec /\ Fairness

-------------------------------------------------------------------------------
\* A token that Token handed out, cached or new, is accepted whenever an
\* attempt of the call arrives before its deadline, although the two clocks
\* differ and jump, dates lose their fraction and retries reuse the token.
NeverRefused == \A c \in Calls : pc[c] # "refused"

\* Every call gets out of Token, and is over after its deadline: no error
\* path keeps the mutex.
EveryCallEnds ==
    \A c \in Calls : pc[c] = "token" ~> pc[c] \in {"served", "error"}

===============================================================================
