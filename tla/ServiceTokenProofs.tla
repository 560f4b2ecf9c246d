-------------------------- MODULE ServiceTokenProofs --------------------------
(* Theorems about ServiceToken. *)
EXTENDS ServiceToken, TLAPS

\* What makes NeverRefused inductive: the token of a call outlives the deadline
\* of the call on the verifier's clock, wherever that clock is within Skew.
TokensLast ==
    \A c \in Calls : pc[c] = "sent" /\ left[c] > 0 =>
        /\ Skew + left[c] <= exp[c] + Leeway
        /\ nbf[c] <= Skew

\* No token is from the future by more than Skew.
CacheHasBegun == cacheNbf <= Skew

Inv == TypeOK /\ TokensLast /\ CacheHasBegun /\ NeverRefused

\* The dates of a new token: NewNumericDate takes less than a second away.
LEMMA DatesLoseAFraction ==
    ASSUME TypeOK, NEW d \in Int
    PROVE  /\ NumericDate(d) \in Int
           /\ NumericDate(d) <= issuer + d
           /\ issuer + d - UnitsPerSecond < NumericDate(d)
<1>1. /\ phase + issuer + d \in Int
      /\ UnitsPerSecond \in Nat \ {0}
  BY DurationsAssumption DEF TypeOK, Offsets
<1>2. /\ (phase + issuer + d) % UnitsPerSecond \in Int
      /\ 0 <= (phase + issuer + d) % UnitsPerSecond
      /\ (phase + issuer + d) % UnitsPerSecond < UnitsPerSecond
  BY <1>1
<1>3. issuer \in Int
  BY DurationsAssumption DEF TypeOK, Offsets
<1> QED
  BY <1>1, <1>2, <1>3 DEF NumericDate

\* NewServiceTokenSource leaves no TTL that is not positive.
LEMMA TTLType == TTL \in Nat \ {0}
BY DurationsAssumption DEF TTL

\* The types of the durations.
LEMMA ConstantTypes ==
    /\ RenewBefore \in Nat /\ Leeway \in Nat /\ CallTimeout \in Nat
    /\ UnitsPerSecond \in Nat \ {0} /\ Skew \in Nat /\ TTL \in Nat \ {0}
    /\ Oldest \in Int
BY DurationsAssumption, TTLType DEF Oldest

\* The invariant holds before the first call asks for a token.
LEMMA InvInit == Init => Inv
<1> SUFFICES ASSUME Init PROVE Inv
  OBVIOUS
<1>1. TypeOK
  <2>1. phase \in 0..(UnitsPerSecond - 1)
    BY ConstantTypes DEF Init
  <2>2. left \in [Calls -> 0..CallTimeout]
    BY ConstantTypes DEF Init
  <2>3. exp \in [Calls -> Int] /\ nbf \in [Calls -> Int]
        /\ cacheExp \in Int /\ cacheNbf \in Int
    BY DEF Init
  <2>4. cached \in BOOLEAN
    BY DEF Init
  <2>5. pc \in [Calls -> PCs]
    BY DEF Init, PCs
  <2>6. /\ setup \in Setups
        /\ issuer \in Offsets /\ verifier \in Offsets
        /\ mutex \in Calls \cup {Free}
    BY DEF Init
  <2> QED
    BY <2>1, <2>2, <2>3, <2>4, <2>5, <2>6 DEF TypeOK
<1>2. TokensLast /\ NeverRefused
  BY DEF Init, TokensLast, NeverRefused
<1>3. CacheHasBegun
  BY ConstantTypes DEF Init, CacheHasBegun
<1> QED
  BY <1>1, <1>2, <1>3 DEF Inv

\* Every step keeps the types.
LEMMA TypeStep == TypeOK /\ [Next]_vars => TypeOK'
<1> SUFFICES ASSUME TypeOK, [Next]_vars PROVE TypeOK'
  OBVIOUS
<1> USE DEF TypeOK, PCs, clockVars, sourceVars, callVars
<1>1. ASSUME NEW c \in Calls, Begin(c) PROVE TypeOK'
  BY <1>1, ConstantTypes DEF Begin
<1>2. ASSUME NEW c \in Calls, NotConfigured(c) PROVE TypeOK'
  BY <1>2, ConstantTypes DEF NotConfigured, Ends
<1>3. ASSUME NEW c \in Calls, Reuse(c) PROVE TypeOK'
  BY <1>3 DEF Reuse
<1>4. ASSUME NEW c \in Calls, Renew(c) PROVE TypeOK'
  BY <1>4 DEF Renew
<1>5. ASSUME NEW c \in Calls, Issue(c) PROVE TypeOK'
  <2>1. NumericDate(TTL) \in Int /\ NumericDate(0) \in Int
    BY DatesLoseAFraction, ConstantTypes
  <2> QED
    BY <1>5, <2>1 DEF Issue
<1>6. ASSUME NEW c \in Calls, IssueFails(c) PROVE TypeOK'
  BY <1>6, ConstantTypes DEF IssueFails, Ends
<1>7. ASSUME NEW c \in Calls, Arrive(c) PROVE TypeOK'
  BY <1>7, ConstantTypes DEF Arrive, Ends
<1>8. ASSUME NEW c \in Calls, Expire(c) PROVE TypeOK'
  BY <1>8, ConstantTypes DEF Expire, Ends
<1>9. ASSUME NEW c \in Calls, Again(c) PROVE TypeOK'
  BY <1>9 DEF Again
<1>10. CASE Jump
  BY <1>10 DEF Jump
<1>11. CASE Tick
  <2>1. phase' \in 0..(UnitsPerSecond - 1)
    BY <1>11, ConstantTypes DEF Tick
  <2>2. left' \in [Calls -> 0..CallTimeout]
    BY <1>11, ConstantTypes DEF Tick
  <2>3. \A d \in Int : Sooner(d) \in Int
    BY ConstantTypes DEF Sooner
  <2>4. exp' \in [Calls -> Int] /\ nbf' \in [Calls -> Int]
    BY <1>11, <2>3 DEF Tick
  <2>5. cacheExp' \in Int /\ cacheNbf' \in Int
    BY <1>11, <2>3 DEF Tick
  <2> QED
    BY <1>11, <2>1, <2>2, <2>4, <2>5 DEF Tick
<1>12. CASE UNCHANGED vars
  BY <1>12 DEF vars
<1> QED
  BY <1>1, <1>2, <1>3, <1>4, <1>5, <1>6, <1>7, <1>8, <1>9, <1>10, <1>11, <1>12
  DEF Next, CallStep

\* A token whose dates fit is accepted by a clock within Skew.
LEMMA LastingIsAccepted ==
    ASSUME TypeOK, TokensLast, NEW c \in Calls, pc[c] = "sent", left[c] > 0
    PROVE  Accepts(exp[c], nbf[c])
<1>1. /\ verifier \in Int /\ -Skew <= verifier /\ verifier <= Skew
      /\ left[c] \in Int /\ exp[c] \in Int /\ nbf[c] \in Int
  BY ConstantTypes DEF TypeOK, Offsets
<1>2. Skew + left[c] <= exp[c] + Leeway /\ nbf[c] <= Skew
  BY DEF TokensLast
<1> QED
  BY <1>1, <1>2, ConstantTypes, SkewAssumption DEF Accepts

\* Every step keeps the invariant: a token is handed out with enough time left,
\* and time takes as much from the deadline as from the token.
LEMMA InvStep == Inv /\ [Next]_vars => Inv'
<1> SUFFICES ASSUME Inv, [Next]_vars PROVE Inv'
  OBVIOUS
<1>t. TypeOK /\ TypeOK'
  BY TypeStep DEF Inv
<1>k. TokensLast /\ CacheHasBegun /\ NeverRefused
  BY DEF Inv
<1> USE DEF TokensLast, CacheHasBegun, NeverRefused, clockVars, sourceVars,
            callVars
<1>i. /\ issuer \in Int /\ -Skew <= issuer /\ issuer <= Skew
      /\ pc \in [Calls -> PCs] /\ left \in [Calls -> 0..CallTimeout]
      /\ exp \in [Calls -> Int] /\ nbf \in [Calls -> Int]
      /\ cacheExp \in Int /\ cacheNbf \in Int
  BY <1>t, ConstantTypes DEF TypeOK, Offsets
<1>1. ASSUME NEW c \in Calls, Begin(c) PROVE Inv'
  BY <1>1, <1>t, <1>k, <1>i DEF Begin, Inv
<1>2. ASSUME NEW c \in Calls,
             NotConfigured(c) \/ IssueFails(c) \/ Expire(c) \/ Again(c)
                \/ Renew(c)
      PROVE  Inv'
  BY <1>2, <1>t, <1>k, <1>i
  DEF NotConfigured, IssueFails, Expire, Again, Renew, Ends, Inv
<1>3. ASSUME NEW c \in Calls, Reuse(c) PROVE Inv'
  <2>1. -Skew < cacheExp - RenewBefore
    BY <1>3, <1>i, ConstantTypes DEF Reuse, Fresh
  <2>2. left[c] \in Int /\ left[c] <= CallTimeout
    BY <1>i, ConstantTypes
  <2>3. Skew + left[c] <= cacheExp + Leeway
    BY <2>1, <2>2, <1>i, ConstantTypes, SkewAssumption
  <2> QED
    BY <1>3, <2>3, <1>t, <1>k, <1>i DEF Reuse, Inv
<1>4. ASSUME NEW c \in Calls, Issue(c) PROVE Inv'
  <2>1. /\ NumericDate(TTL) \in Int /\ NumericDate(0) \in Int
        /\ issuer + TTL - UnitsPerSecond < NumericDate(TTL)
        /\ NumericDate(0) <= issuer + 0
    BY <1>t, DatesLoseAFraction, ConstantTypes
  <2>2. left[c] \in Int /\ left[c] <= CallTimeout
    BY <1>i, ConstantTypes
  <2>3. /\ Skew + left[c] <= NumericDate(TTL) + Leeway
        /\ NumericDate(0) <= Skew
    BY <2>1, <2>2, <1>i, ConstantTypes, SkewAssumption
  <2> QED
    BY <1>4, <2>1, <2>3, <1>t, <1>k, <1>i DEF Issue, Inv
<1>5. ASSUME NEW c \in Calls, Arrive(c) PROVE Inv'
  <2>1. Accepts(exp[c], nbf[c])
    BY <1>5, <1>t, <1>k, LastingIsAccepted DEF Arrive
  <2> QED
    BY <1>5, <2>1, <1>t, <1>k, <1>i DEF Arrive, Ends, Inv
<1>6. CASE Jump
  BY <1>6, <1>t, <1>k DEF Jump, Inv
<1>7. CASE Tick
  <2>1. \A d \in Int : /\ Sooner(d) \in Int
                       /\ d - 1 <= Sooner(d)
                       /\ d >= Oldest => Sooner(d) <= d
                       /\ d <= Skew => Sooner(d) <= Skew
    BY ConstantTypes DEF Sooner, Oldest
  <2>2. TokensLast'
    <3> SUFFICES ASSUME NEW c \in Calls, pc'[c] = "sent", left'[c] > 0
                 PROVE  Skew + left'[c] <= exp'[c] + Leeway /\ nbf'[c] <= Skew
      OBVIOUS
    <3>1. /\ pc[c] = "sent" /\ left[c] > 0 /\ left'[c] = left[c] - 1
          /\ exp'[c] = Sooner(exp[c]) /\ nbf'[c] = Sooner(nbf[c])
      BY <1>7, <1>i, ConstantTypes DEF Tick
    <3>2. /\ left[c] \in Int /\ exp[c] \in Int /\ nbf[c] \in Int
      BY <1>i, ConstantTypes
    <3>3. Skew + left[c] <= exp[c] + Leeway /\ nbf[c] <= Skew
      BY <3>1, <1>k
    <3> QED
      BY <3>1, <3>2, <3>3, <2>1, ConstantTypes
  <2>3. CacheHasBegun'
    BY <1>7, <1>i, <1>k, <2>1, ConstantTypes DEF Tick
  <2>4. NeverRefused'
    BY <1>7, <1>k DEF Tick
  <2> QED
    BY <2>2, <2>3, <2>4, <1>t DEF Inv
<1>8. CASE UNCHANGED vars
  BY <1>8, <1>t, <1>k DEF vars, Inv
<1> QED
  BY <1>1, <1>2, <1>3, <1>4, <1>5, <1>6, <1>7, <1>8 DEF Next, CallStep

\* A token handed out by Token is accepted by Parse whenever the call arrives,
\* for every TTL, leeway, deadline and skew that fit SkewAssumption.
THEOREM TokensAreAccepted == Spec => []NeverRefused
<1>1. Init => Inv
  BY InvInit
<1>2. Inv /\ [Next]_vars => Inv'
  BY InvStep
<1>3. Inv => NeverRefused
  BY DEF Inv
<1> QED BY <1>1, <1>2, <1>3, PTL DEF Spec

===============================================================================
