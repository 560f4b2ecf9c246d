----------------------------- MODULE OutboxProofs -----------------------------
(***************************************************************************)
(* Proofs about Outbox, for every set of messages and replicas and every   *)
(* configuration that Config.validate accepts.                             *)
(***************************************************************************)
EXTENDS Outbox, FiniteSetTheorems, WellFoundedInduction, TLAPS

-------------------------------------------------------------------------------
(* Induction and iteration *)

\* Induction over the numbers, for a set of them.
LEMMA SetInduction ==
  ASSUME NEW S \in SUBSET Nat, 0 \in S, \A n \in S : n + 1 \in S
  PROVE  S = Nat
<1> SUFFICES ASSUME Nat \ S # {} PROVE FALSE
  OBVIOUS
<1> DEFINE R == OpToRel(<, Nat)
<1>1. IsWellFoundedOn(R, Nat)
  BY NatLessThanWellFounded, Zenon
<1>2. \A x, y \in Nat : x < y => <<x, y>> \in R
  BY DEF OpToRel
<1> HIDE DEF R
<1>3. \E x \in Nat \ S : \A y \in Nat \ S : ~(<<y, x>> \in R)
  BY <1>1, WFMin, Zenon
<1>4. PICK x \in Nat \ S : \A y \in Nat \ S : ~(<<y, x>> \in R)
  BY <1>3
<1>5. x # 0 /\ x - 1 \in Nat /\ x - 1 < x
  OBVIOUS
<1>6. x - 1 \notin S
  BY <1>5
<1> QED BY <1>2, <1>4, <1>5, <1>6

\* A function on V can be applied again and again: the results are a function of the
\* number of times.
LEMMA Iteration ==
  ASSUME NEW V, NEW v0 \in V, NEW s \in [V -> V]
  PROVE  \E f \in [Nat -> V] : f[0] = v0 /\ \A n \in Nat : f[n + 1] = s[f[n]]
<1> DEFINE P(m, f) == f[0] = v0 /\ \A k \in 0..(m - 1) : f[k + 1] = s[f[k]]
<1> DEFINE A(m) == {f \in [0..m -> V] : P(m, f)}
<1>1. \A m \in Nat : A(m) # {}
  <2> DEFINE S == {m \in Nat : A(m) # {}}
  <2>1. 0 \in S
    <3>1. [k \in 0..0 |-> v0] \in A(0)
      OBVIOUS
    <3> QED BY <3>1
  <2>2. ASSUME NEW m \in S PROVE m + 1 \in S
    <3>1. PICK f \in [0..m -> V] : P(m, f)
      BY <2>2
    <3> DEFINE g == [k \in 0..(m + 1) |-> IF k = m + 1 THEN s[f[m]] ELSE f[k]]
    <3>2. g \in [0..(m + 1) -> V]
      <4>1. ASSUME NEW k \in 0..(m + 1) PROVE g[k] \in V
        BY <4>1
      <4> QED BY <4>1
    <3>3. g[0] = v0
      BY <3>1
    <3>4. ASSUME NEW k \in 0..m PROVE g[k + 1] = s[g[k]]
      <4>1. CASE k = m
        BY <4>1
      <4>2. CASE k # m
        <5>1. k \in 0..(m - 1) /\ k + 1 \in 0..m /\ k + 1 # m + 1 /\ k # m + 1
          BY <4>2
        <5> QED BY <3>1, <5>1
      <4> QED BY <4>1, <4>2
    <3>5. (m + 1) - 1 = m /\ m + 1 \in Nat
      OBVIOUS
    <3> HIDE DEF g
    <3>6. g \in A(m + 1)
      BY <3>2, <3>3, <3>4, <3>5
    <3> QED BY <3>5, <3>6
  <2>3. S = Nat
    <3> HIDE DEF S
    <3>1. S \in SUBSET Nat
      BY DEF S
    <3> QED BY <2>1, <2>2, <3>1, SetInduction
  <2> QED BY <2>3
<1>2. \A n \in Nat : \A m1, m2 \in Nat : \A f \in A(m1), g \in A(m2) :
        n <= m1 /\ n <= m2 => f[n] = g[n]
  <2> DEFINE T == {n \in Nat : \A m1, m2 \in Nat : \A f \in A(m1), g \in A(m2) :
                                 n <= m1 /\ n <= m2 => f[n] = g[n]}
  <2>1. 0 \in T
    OBVIOUS
  <2>2. ASSUME NEW n \in T PROVE n + 1 \in T
    <3> SUFFICES ASSUME NEW m1 \in Nat, NEW m2 \in Nat, NEW f \in A(m1),
                        NEW g \in A(m2), n + 1 <= m1, n + 1 <= m2
                 PROVE  f[n + 1] = g[n + 1]
      OBVIOUS
    <3>1. n \in Nat /\ n <= m1 /\ n <= m2
      OBVIOUS
    <3>2. f[n] = g[n]
      BY <2>2, <3>1, Zenon
    <3>3. n \in 0..(m1 - 1) /\ n \in 0..(m2 - 1)
      OBVIOUS
    <3> QED BY <3>2, <3>3
  <2>3. T = Nat
    <3> HIDE DEF T
    <3>1. T \in SUBSET Nat
      BY DEF T
    <3> QED BY <2>1, <2>2, <3>1, SetInduction
  <2> QED BY <2>3
<1> DEFINE F == [n \in Nat |-> (CHOOSE f \in A(n) : TRUE)[n]]
<1>3. ASSUME NEW n \in Nat PROVE \E f \in A(n) : F[n] = f[n]
  <2>1. (CHOOSE f \in A(n) : TRUE) \in A(n)
    BY <1>1
  <2> QED BY <2>1
<1> SUFFICES F \in [Nat -> V] /\ F[0] = v0 /\ \A n \in Nat : F[n + 1] = s[F[n]]
  OBVIOUS
<1>4. F \in [Nat -> V]
  <2>1. ASSUME NEW n \in Nat PROVE F[n] \in V
    <3>1. PICK f \in A(n) : F[n] = f[n]
      BY <1>3
    <3> HIDE DEF F
    <3> QED BY <3>1
  <2> QED BY <2>1
<1> HIDE DEF F
<1>5. F[0] = v0
  <2>1. PICK f \in A(0) : F[0] = f[0]
    BY <1>3
  <2> QED BY <2>1
<1>6. ASSUME NEW n \in Nat PROVE F[n + 1] = s[F[n]]
  <2>1. n + 1 \in Nat /\ n <= n /\ n <= n + 1 /\ n \in 0..((n + 1) - 1)
    OBVIOUS
  <2>2. PICK f \in A(n + 1) : F[n + 1] = f[n + 1]
    BY <1>3, <2>1
  <2>3. PICK g \in A(n) : F[n] = g[n]
    BY <1>3
  <2>4. f[n] = g[n]
    <3> HIDE DEF A
    <3> QED BY <1>2, <2>1, Zenon
  <2>5. f[n + 1] = s[f[n]]
    BY <2>1
  <2> QED BY <2>2, <2>3, <2>4, <2>5
<1> QED BY <1>4, <1>5, <1>6

-------------------------------------------------------------------------------
(* The loop of backoffFor *)

\* The loop is well defined, whatever the ceiling, and does in an iteration what its
\* body says.
LEMMA LoopUnfolds ==
  ASSUME NEW ceiling \in Nat
  PROVE  /\ backoffLoop(ceiling) \in [Nat -> [Nat -> Nat]]
         /\ \A b \in Nat : backoffLoop(ceiling)[0][b] = b
         /\ \A n, b \in Nat :
              backoffLoop(ceiling)[n + 1][b]
                = IF 2 * b >= ceiling THEN ceiling
                                      ELSE backoffLoop(ceiling)[n][2 * b]
<1> DEFINE V == [Nat -> Nat]
           v0 == [b \in Nat |-> b]
           Iterate(g) == [b \in Nat |-> IF 2 * b >= ceiling THEN ceiling
                                                            ELSE g[2 * b]]
           s == [g \in V |-> Iterate(g)]
           Loop(f) == [n \in Nat |-> IF n = 0 THEN v0 ELSE Iterate(f[n - 1])]
<1>1. v0 \in V /\ \A g \in V : Iterate(g) \in V
  OBVIOUS
<1>2. s \in [V -> V]
  BY <1>1
<1>3. PICK f \in [Nat -> V] : f[0] = v0 /\ \A n \in Nat : f[n + 1] = s[f[n]]
  <2> HIDE DEF V, v0, s
  <2> QED BY <1>1, <1>2, Iteration
<1>4. f = Loop(f)
  <2>1. ASSUME NEW n \in Nat PROVE f[n] = Loop(f)[n]
    <3> HIDE DEF V, v0, Iterate
    <3>1. CASE n = 0
      BY <3>1, <1>3
    <3>2. CASE n # 0
      <4>1. n - 1 \in Nat /\ (n - 1) + 1 = n
        BY <3>2
      <4>2. f[n] = s[f[n - 1]]
        BY <4>1, <1>3
      <4>3. f[n - 1] \in V
        BY <4>1
      <4> QED BY <3>2, <4>2, <4>3
    <3> QED BY <3>1, <3>2
  <2> HIDE DEF V, v0, Iterate
  <2> QED BY <2>1
<1>5. PICK l : l = backoffLoop(ceiling)
  OBVIOUS
<1>6. l = Loop(l)
  <2>1. l = CHOOSE g : g = Loop(g)
    BY <1>5 DEF backoffLoop
  <2> HIDE DEF Loop
  <2> QED BY <1>4, <2>1
<1>7. l[0] = v0 /\ \A n \in Nat : l[n + 1] = Iterate(l[n])
  <2> HIDE DEF v0, Iterate
  <2>1. \A n \in Nat : n + 1 \in Nat /\ n + 1 # 0 /\ (n + 1) - 1 = n
    OBVIOUS
  <2> QED BY <1>6, <2>1
<1>8. \A n \in Nat : l[n] \in V
  <2> DEFINE S == {n \in Nat : l[n] \in V}
  <2>1. 0 \in S
    BY <1>1, <1>7
  <2>2. ASSUME NEW n \in S PROVE n + 1 \in S
    <3> HIDE DEF V, v0, Iterate
    <3>1. n \in Nat /\ n + 1 \in Nat /\ l[n] \in V
      OBVIOUS
    <3>2. l[n + 1] = Iterate(l[n])
      BY <1>7, <3>1, Zenon
    <3> QED BY <1>1, <3>1, <3>2
  <2>3. S = Nat
    <3>1. S \in SUBSET Nat
      OBVIOUS
    <3> HIDE DEF S
    <3> QED BY <2>1, <2>2, <3>1, SetInduction
  <2> QED BY <2>3
<1>9. l \in [Nat -> V]
  <2>1. l = [n \in Nat |-> l[n]]
    <3> HIDE DEF v0, Iterate
    <3> QED BY <1>6
  <2> QED BY <1>8, <2>1
<1>10. \A b \in Nat : l[0][b] = b
  BY <1>7
<1>11. ASSUME NEW n \in Nat, NEW b \in Nat
       PROVE  l[n + 1][b] = IF 2 * b >= ceiling THEN ceiling ELSE l[n][2 * b]
  <2>1. l[n + 1] = Iterate(l[n])
    BY <1>7
  <2> QED BY <2>1
<1> QED BY <1>5, <1>9, <1>10, <1>11

\* One more iteration at the end of the loop does what one at its beginning does: it
\* doubles the pause and cuts it at the ceiling.  An early return is no exception, as
\* the ceiling doubled is cut to the ceiling.
LEMMA LoopDoubles ==
  ASSUME NEW ceiling \in Nat
  PROVE  \A n, b \in Nat :
           backoffLoop(ceiling)[n + 1][b]
             = IF 2 * backoffLoop(ceiling)[n][b] >= ceiling
               THEN ceiling ELSE 2 * backoffLoop(ceiling)[n][b]
<1>1. PICK l : l = backoffLoop(ceiling)
  OBVIOUS
<1>2. /\ l \in [Nat -> [Nat -> Nat]]
      /\ \A b \in Nat : l[0][b] = b
      /\ \A n, b \in Nat :
           l[n + 1][b] = IF 2 * b >= ceiling THEN ceiling ELSE l[n][2 * b]
  BY <1>1, LoopUnfolds
<1> DEFINE Cut(x) == IF 2 * x >= ceiling THEN ceiling ELSE 2 * x
           S == {n \in Nat : \A b \in Nat : l[n + 1][b] = Cut(l[n][b])}
<1>3. 0 \in S
  <2> SUFFICES ASSUME NEW b \in Nat PROVE l[0 + 1][b] = Cut(l[0][b])
    OBVIOUS
  <2>1. l[0 + 1][b] = IF 2 * b >= ceiling THEN ceiling ELSE l[0][2 * b]
    BY <1>2, Zenon
  <2>2. l[0][b] = b /\ l[0][2 * b] = 2 * b
    <3>1. 2 * b \in Nat
      OBVIOUS
    <3> QED BY <1>2, <3>1, Zenon
  <2> QED BY <2>1, <2>2
<1>4. \A n \in S : n + 1 \in S
  <2> SUFFICES ASSUME NEW n \in S, NEW b \in Nat
               PROVE  l[(n + 1) + 1][b] = Cut(l[n + 1][b])
    OBVIOUS
  <2>1. n \in Nat /\ n + 1 \in Nat /\ 2 * b \in Nat
    OBVIOUS
  <2>2. l[n + 1][2 * b] = Cut(l[n][2 * b])
    BY <2>1
  <2>3. l[(n + 1) + 1][b] = IF 2 * b >= ceiling THEN ceiling ELSE l[n + 1][2 * b]
    BY <1>2, <2>1
  <2>4. l[n + 1][b] = IF 2 * b >= ceiling THEN ceiling ELSE l[n][2 * b]
    BY <1>2, <2>1
  <2>5. Cut(ceiling) = ceiling
    OBVIOUS
  <2> HIDE DEF Cut
  <2> QED BY <2>2, <2>3, <2>4, <2>5
<1>5. S = Nat
  <2>1. S \in SUBSET Nat
    OBVIOUS
  <2> HIDE DEF S
  <2> QED BY <1>3, <1>4, <2>1, SetInduction
<1> QED BY <1>1, <1>5

-------------------------------------------------------------------------------
(* The arithmetic of the timers *)

\* A duration that went through int32(d.Seconds()) is still a duration.
LEMMA SecondsType == ASSUME NEW d \in Nat PROVE Seconds(d) \in Nat
<1>1. UnitsPerSecond \in Nat /\ UnitsPerSecond > 0
  BY ConfigAssumption
<1>2. d \div UnitsPerSecond \in Nat
  BY <1>1
<1> QED BY <1>1, <1>2 DEF Seconds, wholeSeconds

\* The number of attempts Enqueue stores is positive.
LEMMA MaxAttemptsType == MaxAttempts \in Nat /\ MaxAttempts > 0
  BY ConfigAssumption DEF MaxAttempts, defaultMaxAttempts

\* The pause of backoffFor is a duration.
LEMMA BackoffType == ASSUME NEW a \in Int PROVE backoffFor(a) \in Nat
<1>1. iterations(a) \in Nat
  BY DEF iterations
<1>2. BaseBackoff \in Nat /\ MaxBackoff \in Nat
  BY ConfigAssumption
<1>3. backoffLoop(MaxBackoff) \in [Nat -> [Nat -> Nat]]
  BY <1>2, LoopUnfolds
<1> QED BY <1>1, <1>2, <1>3 DEF backoffFor, pauseAfter

\* Slow start, ceiling and bounds of the pauses of a message, attempt after attempt.
\* The first pause is BaseBackoff; each later one doubles the one before, cut at
\* MaxBackoff; pauses never shrink if BaseBackoff is no longer than MaxBackoff, and
\* are MaxBackoff from some attempt on; and backoffFor never doubles more than the
\* longer of the two, for any number of attempts: the multiplication cannot
\* overflow where twice the longer one does not.
THEOREM BackoffDoubles ==
  /\ \A a \in Int : a <= 1 => backoffFor(a) = BaseBackoff
  /\ \A a \in Nat \ {0} :
       /\ backoffFor(a + 1) = IF 2 * backoffFor(a) >= MaxBackoff
                              THEN MaxBackoff ELSE 2 * backoffFor(a)
       /\ BaseBackoff <= MaxBackoff => backoffFor(a) <= backoffFor(a + 1)
       /\ a > 1 /\ a >= MaxBackoff => backoffFor(a) = MaxBackoff
       /\ backoffFor(a) <= BaseBackoff \/ backoffFor(a) <= MaxBackoff
<1>1. BaseBackoff \in Nat /\ BaseBackoff > 0 /\ MaxBackoff \in Nat /\ MaxBackoff > 0
  BY ConfigAssumption
<1> DEFINE l == backoffLoop(MaxBackoff)
           p == [n \in Nat |-> l[n][BaseBackoff]]
<1>2. p \in [Nat -> Nat] /\ p[0] = BaseBackoff
  <2>1. l \in [Nat -> [Nat -> Nat]] /\ l[0][BaseBackoff] = BaseBackoff
    BY <1>1, LoopUnfolds
  <2> HIDE DEF l
  <2> QED BY <1>1, <2>1
<1>3. \A n \in Nat : p[n + 1] = IF 2 * p[n] >= MaxBackoff THEN MaxBackoff ELSE 2 * p[n]
  BY <1>1, LoopDoubles
<1>4. \A a \in Int : backoffFor(a) = p[iterations(a)] /\ iterations(a) \in Nat
  BY DEF backoffFor, pauseAfter, iterations
<1> HIDE DEF l, p
<1> DEFINE S == {n \in Nat :
             /\ BaseBackoff <= MaxBackoff => p[n] <= MaxBackoff
             /\ n > 0 => p[n] <= MaxBackoff
             /\ p[n] >= MaxBackoff \/ p[n] >= n + 1}
<1>5. 0 \in S
  BY <1>1, <1>2
<1>6. \A n \in S : n + 1 \in S
  <2> SUFFICES ASSUME NEW n \in S PROVE n + 1 \in S
    OBVIOUS
  <2>1. p[n] \in Nat /\ n + 1 \in Nat
    BY <1>2
  <2> QED BY <1>1, <1>3, <2>1
<1>7. S = Nat
  <2>1. S \in SUBSET Nat
    OBVIOUS
  <2> HIDE DEF S
  <2> QED BY <1>5, <1>6, <2>1, SetInduction
<1>8. ASSUME NEW a \in Int, a <= 1 PROVE backoffFor(a) = BaseBackoff
  BY <1>2, <1>4, <1>8 DEF iterations
<1>9. ASSUME NEW a \in Nat \ {0}
      PROVE  /\ backoffFor(a + 1) = IF 2 * backoffFor(a) >= MaxBackoff
                                    THEN MaxBackoff ELSE 2 * backoffFor(a)
             /\ BaseBackoff <= MaxBackoff => backoffFor(a) <= backoffFor(a + 1)
             /\ a > 1 /\ a >= MaxBackoff => backoffFor(a) = MaxBackoff
             /\ backoffFor(a) <= BaseBackoff \/ backoffFor(a) <= MaxBackoff
  <2>1. PICK n \in Nat : a = n + 1
    <3>1. a - 1 \in Nat /\ a = (a - 1) + 1
      OBVIOUS
    <3> QED BY <3>1
  <2>2. iterations(a) = n /\ iterations(a + 1) = n + 1 /\ a + 1 \in Int
    BY <2>1 DEF iterations
  <2>3. backoffFor(a) = p[n] /\ backoffFor(a + 1) = p[n + 1]
    BY <1>4, <2>2
  <2>4. /\ p[n] \in Nat
        /\ BaseBackoff <= MaxBackoff => p[n] <= MaxBackoff
        /\ n > 0 => p[n] <= MaxBackoff
        /\ p[n] >= MaxBackoff \/ p[n] >= n + 1
    BY <1>2, <1>7
  <2>5. p[n + 1] = IF 2 * p[n] >= MaxBackoff THEN MaxBackoff ELSE 2 * p[n]
    BY <1>3
  <2>6. n = 0 => p[n] = BaseBackoff
    BY <1>2
  <2> QED BY <1>1, <2>1, <2>3, <2>4, <2>5, <2>6
<1> QED BY <1>8, <1>9

\* The durations that reach the table.
LEMMA DurationTypes ==
  /\ Lease \in Nat
  /\ Seconds(ConflictBackoff) \in Nat
  /\ Seconds(FailedRetention) \in Nat
  BY SecondsType, ConfigAssumption DEF Lease

-------------------------------------------------------------------------------
(* The batch of a claim *)

\* What the subquery of Claim returns are due rows, BatchSize at most.
LEMMA PicksAreDue ==
  ASSUME NEW w, NEW S \in Picks(w)
  PROVE  S \in SUBSET Due /\ Cardinality(S) <= BatchSize
  BY DEF Picks

\* What Claim does with its batch.
LEMMA ClaimParts ==
  ASSUME NEW w \in Workers, Claim(w)
  PROVE  \E S \in (SUBSET Due) \ {{}} :
            /\ Cardinality(S) <= BatchSize
            /\ ClaimRows(S)
            /\ job' = [job EXCEPT ![w] =
                         [i \in Ids |-> IF i \in S THEN "queued" ELSE "idle"]]
            /\ att' = [att EXCEPT ![w] =
                         [i \in Ids |-> IF i \in S THEN attempts[i] + 1 ELSE 0]]
<1>1. PICK S \in Picks(w) \ {{}} :
        /\ ClaimRows(S)
        /\ job' = [job EXCEPT ![w] =
                     [i \in Ids |-> IF i \in S THEN "queued" ELSE "idle"]]
        /\ att' = [att EXCEPT ![w] =
                     [i \in Ids |-> IF i \in S THEN attempts[i] + 1 ELSE 0]]
  BY Zenon DEF Claim
<1>2. S \in SUBSET Due /\ Cardinality(S) <= BatchSize
  BY <1>1, PicksAreDue, Zenon
<1>3. S \in (SUBSET Due) \ {{}}
  BY <1>1, <1>2, Zenon
<1> QED BY <1>1, <1>2, <1>3, Zenon

\* What a claim whose rows are lost does to the table.
LEMMA ClaimLostParts ==
  ASSUME NEW w \in Workers, ClaimLost(w)
  PROVE  \E S \in SUBSET Due : ClaimRows(S)
  BY PicksAreDue DEF ClaimLost

\* The order of the due rows stays one of rows.
LEMMA RequeueType ==
  ASSUME TypeOK, NEW S \in SUBSET Ids, Requeue(S)
  PROVE  older' \subseteq Ids \X Ids
<1>1. Due' \subseteq Ids /\ Due \subseteq Ids
  BY DEF Due
<1> QED BY <1>1 DEF TypeOK, Requeue

-------------------------------------------------------------------------------
(* Type correctness *)

USE DEF RowStates, PCs, JobStates

\* Init establishes the types of the variables.
LEMMA InitType == Init => TypeOK
  BY MaxAttemptsType, DurationTypes, ConfigAssumption DEF Init, TypeOK

\* Every step of Run, of a goroutine of deliver, of the producer and of the
\* environment preserves the types.
LEMMA StepType == TypeOK /\ [Next]_vars => TypeOK'
<1> SUFFICES ASSUME TypeOK, [Next]_vars PROVE TypeOK'
  OBVIOUS
<1> USE MaxAttemptsType, DurationTypes, ConfigAssumption
        DEF TypeOK, rowVars, loopVars, jobVars, history, Fault
<1>1. ASSUME NEW i \in Ids, Enqueue(i) PROVE TypeOK'
  BY <1>1, RequeueType DEF Enqueue
<1>2. ASSUME NEW w \in Workers, RunStep(w) PROVE TypeOK'
  <2>1. CASE Claim(w)
    <3>1. PICK S \in (SUBSET Due) \ {{}} :
            /\ ClaimRows(S)
            /\ job' = [job EXCEPT ![w] =
                         [i \in Ids |-> IF i \in S THEN "queued" ELSE "idle"]]
            /\ att' = [att EXCEPT ![w] =
                         [i \in Ids |-> IF i \in S THEN attempts[i] + 1 ELSE 0]]
      BY <2>1, ClaimParts
    <3>2. older' \subseteq Ids \X Ids
      BY <3>1, RequeueType DEF ClaimRows, Take, Due
    <3> QED BY <2>1, <3>1, <3>2 DEF Claim, ClaimRows, Take
  <2>2. CASE ClaimEmpty(w)
    BY <2>2 DEF ClaimEmpty
  <2>3. CASE ClaimFails(w)
    BY <2>3 DEF ClaimFails, AfterError
  <2>4. CASE ClaimLost(w)
    <3>1. PICK S \in SUBSET Due : ClaimRows(S)
      BY <2>4, ClaimLostParts
    <3>2. older' \subseteq Ids \X Ids
      BY <3>1, RequeueType DEF ClaimRows, Take, Due
    <3> QED BY <2>4, <3>1, <3>2 DEF ClaimLost, ClaimRows, Take, AfterError
  <2>5. CASE BatchDone(w)
    BY <2>5 DEF BatchDone
  <2>6. CASE CleanupSkip(w)
    BY <2>6 DEF CleanupSkip, AfterCleanup
  <2>7. CASE DeleteOldFailed(w)
    BY <2>7 DEF DeleteOldFailed, AfterCleanup
  <2>8. CASE Poll(w)
    BY <2>8 DEF Poll
  <2>9. CASE Stop(w)
    BY <2>9 DEF Stop
  <2> QED BY <1>2, <2>1, <2>2, <2>3, <2>4, <2>5, <2>6, <2>7, <2>8, <2>9
          DEF RunStep
<1>3. ASSUME NEW w \in Workers, NEW i \in Ids, JobStep(w, i) PROVE TypeOK'
  <2> USE DEF Return, Record
  <2>1. CASE StartSend(w, i)
    BY <2>1 DEF StartSend
  <2>2. CASE SendAccepted(w, i)
    BY <2>2 DEF SendAccepted
  <2>3. CASE SendAborted(w, i)
    BY <2>3 DEF SendAborted
  <2>4. CASE SendRejected(w, i)
    BY <2>4 DEF SendRejected
  <2>5. CASE SendConflict(w, i)
    BY <2>5 DEF SendConflict
  <2>6. CASE SendFailed(w, i)
    <3>1. (att[w][i] >= MaxAttempts) \in BOOLEAN
      OBVIOUS
    <3> QED BY <2>6, <3>1 DEF SendFailed, FailedSend
  <2>0. ASSUME Requeue({i}) PROVE older' \subseteq Ids \X Ids
    BY <2>0, RequeueType
  <2>7. CASE Complete(w, i)
    BY <2>0, <2>7 DEF Complete
  <2>8. CASE Retry(w, i)
    <3>1. Seconds(backoffFor(att[w][i])) \in Nat
      BY BackoffType, SecondsType
    <3> QED BY <2>0, <2>8, <3>1 DEF Retry, Reschedule
  <2>9. CASE Defer(w, i)
    BY <2>0, <2>9 DEF Defer
  <2>10. CASE Fail(w, i)
    BY <2>0, <2>10 DEF Fail
  <2>11. CASE DbError(w, i)
    BY <2>11 DEF DbError
  <2> QED BY <1>3, <2>1, <2>2, <2>3, <2>4, <2>5, <2>6, <2>7, <2>8, <2>9,
             <2>10, <2>11 DEF JobStep
<1>4. ASSUME NEW w \in Workers, Cancel(w) \/ Crash(w) \/ Restart(w)
      PROVE TypeOK'
  <2>1. CASE Cancel(w)
    BY <2>1 DEF Cancel
  <2>2. CASE Crash(w)
    BY <2>2 DEF Crash, DropBatch
  <2>3. CASE Restart(w)
    BY <2>3 DEF Restart
  <2> QED BY <1>4, <2>1, <2>2, <2>3
<1>5. CASE Tick
  <2>1. Due \subseteq Ids /\ Due' \subseteq Ids
    BY DEF Due
  <2>2. older' \subseteq Ids \X Ids
    BY <1>5, <2>1 DEF Tick
  <2> QED BY <1>5, <2>2 DEF Tick
<1>6. CASE UNCHANGED vars
  BY <1>6 DEF vars
<1> QED BY <1>1, <1>2, <1>3, <1>4, <1>5, <1>6 DEF Next

\* The columns, the timers, the loops of the workers and the goroutines keep
\* their types; in particular attempts stays a smallint and a timer never goes
\* below zero.
THEOREM TypeCorrect == Spec => []TypeOK
  BY InitType, StepType, PTL DEF Spec

-------------------------------------------------------------------------------
(* No message is lost in silence *)

\* The column never runs ahead of the claims really made: Defer gives back at
\* most what a Claim took, and Complete and the cleanup reset it.
AttemptsBacked ==
    \A i \in Ids : attempts[i] <= claims[i] \/ claims[i] >= MaxAttempts

\* A goroutine about to delete its row has delivered it, and one about to fail
\* its row has logged it.
JobsHonest ==
    \A w \in Workers, i \in Ids :
        /\ job[w][i] = "complete" => accepted[i]
        /\ job[w][i] = "fail" => condemned[i]

\* A failed row was rejected or ran out of attempts.
FailedJustified ==
    \A i \in Ids : rowState[i] = "failed" =>
        condemned[i] \/ claims[i] >= MaxAttempts

\* NoSilentLoss is not inductive: whether the cleanup may delete a failed row
\* depends on how it became failed, and that on what goroutines do next.
LossInv ==
    /\ TypeOK
    /\ AttemptsBacked
    /\ JobsHonest
    /\ FailedJustified
    /\ NoSilentLoss

\* The empty table satisfies the invariant.
LEMMA InitLoss == Init => LossInv
<1> SUFFICES ASSUME Init PROVE LossInv
  OBVIOUS
<1>1. TypeOK
  BY InitType
<1> QED BY <1>1 DEF Init, LossInv, AttemptsBacked, JobsHonest,
           FailedJustified, NoSilentLoss

\* Steps of Worker.Run: a claim raises attempts and claims together, and only
\* the cleanup removes rows.
LEMMA RunStepLoss ==
  ASSUME LossInv, NEW w \in Workers, RunStep(w), TypeOK'
  PROVE  LossInv'
<1> USE MaxAttemptsType, ConfigAssumption
    DEF LossInv, TypeOK, AttemptsBacked, JobsHonest, FailedJustified,
        NoSilentLoss, rowVars, loopVars, jobVars, history
<1>1. ASSUME NEW S \in SUBSET Due, ClaimRows(S),
             UNCHANGED <<accepted, condemned>>
      PROVE  AttemptsBacked' /\ FailedJustified' /\ NoSilentLoss'
  <2>1. AttemptsBacked'
    BY <1>1 DEF ClaimRows, Take
  <2>2. FailedJustified' /\ NoSilentLoss'
    BY <1>1 DEF ClaimRows, Take
  <2> QED BY <2>1, <2>2
<1>2. CASE Claim(w)
  <2>1. PICK S \in (SUBSET Due) \ {{}} :
          /\ Cardinality(S) <= BatchSize
          /\ ClaimRows(S)
          /\ job' = [job EXCEPT ![w] =
                       [i \in Ids |-> IF i \in S THEN "queued" ELSE "idle"]]
          /\ att' = [att EXCEPT ![w] =
                       [i \in Ids |-> IF i \in S THEN attempts[i] + 1 ELSE 0]]
    BY <1>2, ClaimParts, Zenon
  <2>2. UNCHANGED <<accepted, condemned>>
    BY <1>2 DEF Claim
  <2>3. JobsHonest'
    BY <2>1, <2>2
  <2> QED BY <1>1, <2>1, <2>2, <2>3
<1>3. CASE ClaimEmpty(w)
  BY <1>3 DEF ClaimEmpty
<1>4. CASE ClaimFails(w)
  BY <1>4 DEF ClaimFails, AfterError
<1>5. CASE ClaimLost(w)
  <2>1. PICK S \in SUBSET Due : ClaimRows(S)
    BY <1>5, ClaimLostParts
  <2>2. UNCHANGED <<jobVars, accepted, condemned>>
    BY <1>5 DEF ClaimLost
  <2>3. JobsHonest'
    BY <2>2
  <2> QED BY <1>1, <2>1, <2>2, <2>3
<1>6. CASE BatchDone(w)
  BY <1>6 DEF BatchDone
<1>7. CASE CleanupSkip(w)
  BY <1>7 DEF CleanupSkip, AfterCleanup
<1>8. CASE DeleteOldFailed(w)
  BY <1>8 DEF DeleteOldFailed, AfterCleanup
<1>9. CASE Poll(w)
  BY <1>9 DEF Poll
<1>10. CASE Stop(w)
  BY <1>10 DEF Stop
<1> QED BY <1>2, <1>3, <1>4, <1>5, <1>6, <1>7, <1>8, <1>9, <1>10 DEF RunStep

\* Steps of deliver: only Complete removes a row, and a row that Retry fails
\* has as many attempts, so as many claims, as it may have.
LEMMA JobStepLoss ==
  ASSUME LossInv, NEW w \in Workers, NEW i \in Ids, JobStep(w, i), TypeOK'
  PROVE  LossInv'
<1> USE MaxAttemptsType, ConfigAssumption
    DEF LossInv, TypeOK, AttemptsBacked, JobsHonest, FailedJustified,
        NoSilentLoss, rowVars, loopVars, jobVars, history, Return, Record
<1>1. CASE StartSend(w, i)
  BY <1>1 DEF StartSend
<1>2. CASE SendAccepted(w, i)
  BY <1>2 DEF SendAccepted
<1>3. CASE SendAborted(w, i)
  BY <1>3 DEF SendAborted
<1>4. CASE SendRejected(w, i)
  BY <1>4 DEF SendRejected
<1>5. CASE SendConflict(w, i)
  BY <1>5 DEF SendConflict
<1>6. CASE SendFailed(w, i)
  BY <1>6 DEF SendFailed, FailedSend
<1>7. CASE Complete(w, i)
  BY <1>7 DEF Complete
<1>8. CASE Retry(w, i)
  BY <1>8 DEF Retry, Reschedule
<1>9. CASE Defer(w, i)
  BY <1>9 DEF Defer
<1>10. CASE Fail(w, i)
  BY <1>10 DEF Fail
<1>11. CASE DbError(w, i)
  BY <1>11 DEF DbError
<1> QED BY <1>1, <1>2, <1>3, <1>4, <1>5, <1>6, <1>7, <1>8, <1>9, <1>10,
           <1>11 DEF JobStep

\* Every step preserves the invariant.
LEMMA StepLoss == LossInv /\ [Next]_vars => LossInv'
<1> SUFFICES ASSUME LossInv, [Next]_vars PROVE LossInv'
  OBVIOUS
<1>1. TypeOK'
  BY StepType DEF LossInv
<1> USE DEF LossInv, TypeOK, AttemptsBacked, JobsHonest, FailedJustified,
        NoSilentLoss, rowVars, loopVars, jobVars, history
<1>2. ASSUME NEW i \in Ids, Enqueue(i) PROVE LossInv'
  BY <1>1, <1>2 DEF Enqueue
<1>3. ASSUME NEW w \in Workers, RunStep(w) PROVE LossInv'
  BY <1>1, <1>3, RunStepLoss
<1>4. ASSUME NEW w \in Workers, NEW i \in Ids, JobStep(w, i) PROVE LossInv'
  BY <1>1, <1>4, JobStepLoss
<1>5. ASSUME NEW w \in Workers, Cancel(w) \/ Crash(w) \/ Restart(w)
      PROVE LossInv'
  <2>1. CASE Cancel(w)
    BY <1>1, <2>1 DEF Cancel
  <2>2. CASE Crash(w)
    BY <1>1, <2>2 DEF Crash, DropBatch
  <2>3. CASE Restart(w)
    BY <1>1, <2>3 DEF Restart
  <2> QED BY <1>5, <2>1, <2>2, <2>3
<1>6. CASE Tick
  BY <1>1, <1>6 DEF Tick
<1>7. CASE UNCHANGED vars
  BY <1>1, <1>7 DEF vars
<1> QED BY <1>2, <1>3, <1>4, <1>5, <1>6, <1>7 DEF Next

\* Whatever goroutines are paused, processes crash and statements fail: a row
\* leaves the table only if it was delivered, or logged as never to be
\* delivered, or claimed max_attempts times.
THEOREM LossIsNeverSilent == Spec => []NoSilentLoss
<1>1. LossInv => NoSilentLoss
  BY DEF LossInv
<1> QED BY InitLoss, StepLoss, <1>1, PTL DEF Spec

-------------------------------------------------------------------------------
(* Prompt goroutines and a lease that outlasts the waves of a batch *)

Waves == wavesOf(BatchSize, Concurrency)

\* What the lease has to be for a batch, as it reaches the table: validate
\* compares the same numbers before they lose their fraction of a second, and
\* accepts equality.
LeaseOutlasts == Waves * SendTimeout < Lease

\* A second more than validate asks for is enough, and so is any margin if
\* VisibilityTimeout is a number of whole seconds: all that is lost on the way to
\* the table is the fraction of a second.
THEOREM MarginSuffices ==
  ASSUME \/ Waves * SendTimeout + UnitsPerSecond <= VisibilityTimeout
         \/ /\ Waves * SendTimeout < VisibilityTimeout
            /\ \E k \in Nat : VisibilityTimeout = k * UnitsPerSecond
  PROVE  LeaseOutlasts
<1> DEFINE n == UnitsPerSecond
           d == VisibilityTimeout
           q == d \div n
<1>1. n \in Nat /\ n > 0 /\ d \in Nat
  BY ConfigAssumption
<1>2. q \in Nat /\ Lease = q * n
  BY <1>1 DEF Lease, Seconds, wholeSeconds
<1>3. q * n <= d /\ d < q * n + n
  BY <1>1
<1>4. Waves * SendTimeout \in Int
  BY ConfigAssumption DEF Waves, wavesOf
<1>5. CASE Waves * SendTimeout + n <= d
  BY <1>1, <1>2, <1>3, <1>4, <1>5 DEF LeaseOutlasts
<1>6. CASE Waves * SendTimeout < d /\ \E k \in Nat : d = k * n
  <2>1. PICK k \in Nat : d = k * n
    BY <1>6
  <2>2. k = q
    BY <1>1, <2>1
  <2> QED BY <1>2, <1>6, <2>1, <2>2 DEF LeaseOutlasts
<1> QED BY <1>5, <1>6

\* While a row is in hand, it is pending, nobody else has it, and the goroutine
\* knows its attempts.
HandInv ==
    \A w \in Workers, i \in Ids : job[w][i] # "idle" =>
        /\ pc[w] = "deliver"
        /\ rowState[i] = "pending"
        /\ att[w][i] = attempts[i]
        /\ \A v \in Workers \ {w} : job[v][i] = "idle"

\* The sends of w that go on for more than r units.
Sending(w, r) == {i \in Ids : job[w][i] = "sending" /\ left[w][i] > r}

\* k waves are over, or the k-th is with r units to go: so many sends were
\* started, and those on top that end later than the wave.
Wave(w, k, r) ==
    /\ \A i \in Queued(w) : dueIn[i] = Lease - k * SendTimeout + r
    /\ started[w] >= k * Concurrency + Cardinality(Sending(w, r))

\* The batch of w keeps its timetable: no send ends after the last wave, and as
\* long as rows are queued the waves are full.
Timetable(w) ==
    /\ started[w] + Cardinality(Queued(w)) <= BatchSize
    /\ \A i \in Ids : job[w][i] \in Busy =>
        Lease - dueIn[i] + left[w][i] <= Waves * SendTimeout
    /\ Queued(w) # {} =>
        \E k \in Nat, r \in 0..(SendTimeout - 1) : Wave(w, k, r)

TimeInv == \A w \in Workers : pc[w] = "deliver" => Timetable(w)

\* The parts of a batch are finite sets.
LEMMA BatchFinite ==
  ASSUME NEW S \in SUBSET Ids
  PROVE  IsFiniteSet(S) /\ Cardinality(S) \in Nat
  BY SetsAssumption, FS_Subset, FS_CardinalityType

\* A wave that is not the last one leaves room for another.
LEMMA WavesCover ==
  /\ Waves \in Nat
  /\ Waves * SendTimeout \in Nat
  /\ \A k \in Nat : k * Concurrency < BatchSize =>
        k * SendTimeout + SendTimeout <= Waves * SendTimeout
<1> USE ConfigAssumption
<1>1. Waves \in Nat
  BY DEF Waves, wavesOf
<1>2. Waves * Concurrency > BatchSize - 1
  BY DEF Waves, wavesOf
<1>3. ASSUME NEW k \in Nat, k * Concurrency < BatchSize
      PROVE  k + 1 <= Waves
  <2> SUFFICES ASSUME k + 1 > Waves PROVE FALSE
    BY <1>1
  <2>1. k >= Waves
    BY <1>1
  <2>2. k * Concurrency >= Waves * Concurrency
    BY <1>1, <2>1
  <2>3. k * Concurrency \in Nat /\ Waves * Concurrency \in Nat
    BY <1>1
  <2> QED BY <1>2, <1>3, <2>2, <2>3
<1>4. ASSUME NEW k \in Nat, k + 1 <= Waves
      PROVE  k * SendTimeout + SendTimeout <= Waves * SendTimeout
  BY <1>1, <1>4
<1>5. Waves * SendTimeout \in Nat
  BY <1>1
<1> QED BY <1>1, <1>3, <1>4, <1>5

\* A batch whose goroutines and rows do not change keeps its timetable.
LEMMA TimetableFrame ==
  ASSUME NEW w \in Workers, Timetable(w),
         job'[w] = job[w], left'[w] = left[w], started'[w] = started[w],
         \A i \in Ids : job[w][i] # "idle" => dueIn'[i] = dueIn[i]
  PROVE  Timetable(w)'
<1>1. Queued(w)' = Queued(w) /\ \A r : Sending(w, r)' = Sending(w, r)
  BY DEF Queued, Sending
<1>2. \A k, r : Wave(w, k, r) => Wave(w, k, r)'
  BY <1>1 DEF Wave, Queued
<1>3. started'[w] + Cardinality(Queued(w)') <= BatchSize
  BY <1>1 DEF Timetable
<1>4. \A i \in Ids : job'[w][i] \in Busy =>
        Lease - dueIn'[i] + left'[w][i] <= Waves * SendTimeout
  BY DEF Timetable, Busy
<1>5. Queued(w)' # {} => \E k \in Nat, r \in 0..(SendTimeout - 1) : Wave(w, k, r)'
  BY <1>1, <1>2 DEF Timetable
<1> QED BY <1>3, <1>4, <1>5 DEF Timetable

\* A goroutine that has its result, or has recorded it, delays nobody: the
\* timetable of its batch is kept whatever becomes of its row.
LEMMA TimetableEnd ==
  ASSUME TypeOK, NEW w \in Workers, Timetable(w), NEW i \in Ids,
         job[w][i] \in Busy,
         NEW st \in JobStates \ {"queued", "sending"},
         job' = [job EXCEPT ![w][i] = st],
         left' = [left EXCEPT ![w][i] = 0],
         started'[w] = started[w],
         \A j \in Ids \ {i} : dueIn'[j] = dueIn[j],
         dueIn'[i] \in Nat, st \in Busy => dueIn'[i] = dueIn[i]
  PROVE  Timetable(w)'
<1> USE DEF TypeOK, Busy
<1>1. Queued(w)' = Queued(w) /\ i \notin Queued(w)
  BY DEF Queued
<1>2. \A r \in Nat : Sending(w, r)' \subseteq Sending(w, r)
  BY DEF Sending
<1>3. started'[w] + Cardinality(Queued(w)') <= BatchSize
  BY <1>1 DEF Timetable
<1>4. \A j \in Ids : job'[w][j] \in Busy =>
        Lease - dueIn'[j] + left'[w][j] <= Waves * SendTimeout
  <2> SUFFICES ASSUME NEW j \in Ids, job'[w][j] \in Busy
               PROVE  Lease - dueIn'[j] + left'[w][j] <= Waves * SendTimeout
    OBVIOUS
  <2>1. CASE j # i
    BY <2>1 DEF Timetable
  <2>2. CASE j = i
    <3>1. left'[w][i] = 0 /\ dueIn'[i] = dueIn[i] /\ left[w][i] \in Nat
      BY <2>2, ConfigAssumption
    <3>2. Lease - dueIn[i] + left[w][i] <= Waves * SendTimeout
      BY DEF Timetable
    <3> QED BY <2>2, <3>1, <3>2, DurationTypes, WavesCover
  <2> QED BY <2>1, <2>2
<1>5. ASSUME NEW k \in Nat, NEW r \in 0..(SendTimeout - 1), Wave(w, k, r)
      PROVE  Wave(w, k, r)'
  <2>1. Cardinality(Sending(w, r)') <= Cardinality(Sending(w, r))
    BY <1>2, BatchFinite, FS_Subset, ConfigAssumption DEF Sending
  <2>2. Cardinality(Sending(w, r)') \in Nat /\ Cardinality(Sending(w, r)) \in Nat
    BY <1>2, BatchFinite, ConfigAssumption DEF Sending
  <2>3. k * Concurrency \in Nat /\ started[w] \in Nat
    BY ConfigAssumption
  <2>4. started'[w] >= k * Concurrency + Cardinality(Sending(w, r)')
    BY <1>5, <2>1, <2>2, <2>3 DEF Wave
  <2>5. \A j \in Queued(w)' : dueIn'[j] = Lease - k * SendTimeout + r
    BY <1>1, <1>5 DEF Wave, Queued
  <2> QED BY <2>4, <2>5 DEF Wave
<1>6. Queued(w)' # {} => \E k \in Nat, r \in 0..(SendTimeout - 1) : Wave(w, k, r)'
  BY <1>1, <1>5 DEF Timetable
<1> QED BY <1>3, <1>4, <1>6 DEF Timetable

\* A send that starts ends with the last wave at the latest: the waves before it
\* were full, and the batch is not longer than BatchSize.
LEMMA TimetableStart ==
  ASSUME TypeOK, NEW w \in Workers, Timetable(w), NEW i \in Ids, StartSend(w, i)
  PROVE  Timetable(w)'
<1> USE DEF TypeOK, Busy
<1>1. /\ job' = [job EXCEPT ![w][i] = "sending"] /\ job[w][i] = "queued"
      /\ left' = [left EXCEPT ![w][i] = SendTimeout]
      /\ started' = [started EXCEPT ![w] = @ + 1]
      /\ dueIn' = dueIn
  BY DEF StartSend, rowVars
<1>2. Queued(w)' = Queued(w) \ {i} /\ i \in Queued(w)
  BY <1>1 DEF Queued
<1>3. Cardinality(Queued(w)') = Cardinality(Queued(w)) - 1
      /\ Cardinality(Queued(w)) \in Nat /\ Cardinality(Queued(w)') \in Nat
  <2>1. Queued(w) \in SUBSET Ids /\ Queued(w)' \in SUBSET Ids
    BY DEF Queued
  <2>2. IsFiniteSet(Queued(w))
        /\ Cardinality(Queued(w)) \in Nat /\ Cardinality(Queued(w)') \in Nat
    BY <2>1, BatchFinite
  <2> QED BY <1>2, <2>2, FS_RemoveElement
<1>4. started'[w] = started[w] + 1 /\ started[w] \in Nat
  BY <1>1
<1>5. started'[w] + Cardinality(Queued(w)') <= BatchSize
  BY <1>3, <1>4, ConfigAssumption DEF Timetable
<1>6. PICK k \in Nat, r \in 0..(SendTimeout - 1) : Wave(w, k, r)
  BY <1>2 DEF Timetable
<1>7. Cardinality(Sending(w, r)) \in Nat
  BY BatchFinite DEF Sending
<1>8. k * Concurrency \in Nat /\ k * SendTimeout \in Nat
  BY ConfigAssumption
<1>9. k * Concurrency < BatchSize
  <2> DEFINE m == k * Concurrency
  <2>1. m \in Nat /\ started[w] >= m + Cardinality(Sending(w, r))
    BY <1>6, <1>8 DEF Wave
  <2> HIDE DEF m
  <2>2. m < BatchSize
    BY <1>3, <1>4, <1>5, <1>7, <2>1, ConfigAssumption
  <2> QED BY <2>2 DEF m
<1>10. Lease - dueIn[i] + SendTimeout <= Waves * SendTimeout
  <2>1. dueIn[i] = Lease - k * SendTimeout + r
    BY <1>2, <1>6 DEF Wave
  <2>2. k * SendTimeout + SendTimeout <= Waves * SendTimeout
    BY <1>9, WavesCover
  <2>3. r \in Nat /\ SendTimeout \in Nat /\ Lease \in Nat
        /\ Waves * SendTimeout \in Nat
    BY ConfigAssumption, DurationTypes, WavesCover
  <2> DEFINE x == k * SendTimeout
             y == Waves * SendTimeout
  <2>4. x \in Nat /\ y \in Nat /\ dueIn[i] = Lease - x + r /\ x + SendTimeout <= y
    BY <1>8, <2>1, <2>2, <2>3
  <2> HIDE DEF x, y
  <2>5. Lease - dueIn[i] + SendTimeout <= y
    BY <2>3, <2>4
  <2> QED BY <2>5 DEF y
<1>11. \A j \in Ids : job'[w][j] \in Busy =>
         Lease - dueIn'[j] + left'[w][j] <= Waves * SendTimeout
  BY <1>1, <1>10 DEF Timetable
<1>12. Wave(w, k, r)'
  <2>1. Sending(w, r)' = Sending(w, r) \cup {i} /\ i \notin Sending(w, r)
    BY <1>1, ConfigAssumption DEF Sending
  <2>2. Cardinality(Sending(w, r)') = Cardinality(Sending(w, r)) + 1
    <3>1. Sending(w, r) \in SUBSET Ids
      BY DEF Sending
    <3>2. IsFiniteSet(Sending(w, r))
      BY <3>1, BatchFinite
    <3> QED BY ONLY <2>1, <3>2, FS_AddElement
  <2>3. started'[w] >= k * Concurrency + Cardinality(Sending(w, r)')
    BY <1>4, <1>6, <1>7, <1>8, <2>2 DEF Wave
  <2>4. \A j \in Queued(w)' : dueIn'[j] = Lease - k * SendTimeout + r
    BY <1>1, <1>2, <1>6 DEF Wave
  <2> QED BY <2>3, <2>4 DEF Wave
<1> QED BY <1>5, <1>11, <1>12 DEF Timetable

\* A row of a batch that keeps its timetable is not due.
LEMMA TimetableLeases ==
  ASSUME LeaseOutlasts, TypeOK, NEW w \in Workers, Timetable(w),
         NEW i \in Ids, job[w][i] # "idle"
  PROVE  dueIn[i] > 0
<1>1. CASE job[w][i] = "queued"
  <2>1. Queued(w) \in SUBSET Ids /\ i \in Queued(w)
    BY <1>1 DEF Queued
  <2>2. Cardinality(Queued(w)) \in Nat /\ Cardinality(Queued(w)) # 0
    BY <2>1, BatchFinite, FS_EmptySet
  <2>3. PICK k \in Nat, r \in 0..(SendTimeout - 1) : Wave(w, k, r)
    BY <2>1 DEF Timetable
  <2>4. Cardinality(Sending(w, r)) \in Nat
    BY BatchFinite DEF Sending
  <2>5. k * Concurrency \in Nat /\ k * SendTimeout \in Nat /\ started[w] \in Nat
    BY ConfigAssumption DEF TypeOK
  <2>6. k * Concurrency < BatchSize
    <3> DEFINE m == k * Concurrency
    <3>1. /\ m \in Nat /\ started[w] >= m + Cardinality(Sending(w, r))
          /\ started[w] + Cardinality(Queued(w)) <= BatchSize
          /\ BatchSize \in Nat
      BY <2>3, <2>5, ConfigAssumption DEF Timetable, Wave
    <3> HIDE DEF m
    <3>2. m < BatchSize
      BY <2>2, <2>4, <2>5, <3>1
    <3> QED BY <3>2 DEF m
  <2>7. k * SendTimeout + SendTimeout <= Waves * SendTimeout
    BY <2>6, WavesCover
  <2>8. dueIn[i] = Lease - k * SendTimeout + r
    BY <2>1, <2>3 DEF Wave
  <2>9. r \in Nat /\ SendTimeout \in Nat /\ Lease \in Nat
        /\ Waves * SendTimeout \in Nat
    BY ConfigAssumption, DurationTypes, WavesCover
  <2> DEFINE x == k * SendTimeout
             y == Waves * SendTimeout
  <2>10. x \in Nat /\ y \in Nat /\ dueIn[i] = Lease - x + r
         /\ x + SendTimeout <= y /\ y < Lease
    BY <2>5, <2>7, <2>8, <2>9 DEF LeaseOutlasts
  <2> HIDE DEF x, y
  <2> QED BY <2>9, <2>10
<1>2. CASE job[w][i] # "queued"
  <2>1. Lease - dueIn[i] + left[w][i] <= Waves * SendTimeout
    BY <1>2 DEF Timetable, TypeOK, Busy
  <2>2. dueIn[i] \in Nat /\ left[w][i] \in Nat /\ Lease \in Nat
        /\ Waves * SendTimeout \in Nat
    BY ConfigAssumption, DurationTypes, WavesCover DEF TypeOK
  <2> DEFINE y == Waves * SendTimeout
  <2>3. y \in Nat /\ y < Lease /\ Lease - dueIn[i] + left[w][i] <= y
    BY <2>1, <2>2 DEF LeaseOutlasts
  <2> HIDE DEF y
  <2> QED BY <2>2, <2>3
<1> QED BY <1>1, <1>2

\* Time passes only when nothing is urgent: then every goroutine of the batch is
\* in a send, and the slots of the group are full while rows are queued, so
\* that the end of a wave finds the next one started in full.
LEMMA TimetableTick ==
  ASSUME Prompt, LeaseOutlasts, TypeOK, NEW w \in Workers, Timetable(w), Tick
  PROVE  Timetable(w)'
<1> USE DEF TypeOK, Busy
<1>1. /\ job' = job /\ started' = started
      /\ \A i \in Ids : dueIn'[i] = IF dueIn[i] > 0 THEN dueIn[i] - 1 ELSE 0
      /\ \A i \in Ids : left'[w][i] = IF left[w][i] > 0 THEN left[w][i] - 1 ELSE 0
  BY DEF Tick, loopVars
<1>2. ~Urgent(w)
  BY DEF Tick
<1>3. \A i \in Ids : job[w][i] \in Busy => job[w][i] = "sending" /\ left[w][i] > 0
  <2> SUFFICES ASSUME NEW i \in Ids, job[w][i] \in Busy
               PROVE  job[w][i] = "sending" /\ left[w][i] > 0
    OBVIOUS
  <2>1. job[w][i] = "sending" /\ left[w][i] # 0
    BY <1>2 DEF Urgent
  <2>2. left[w][i] \in 0..SendTimeout
    OBVIOUS
  <2> QED BY <2>1, <2>2, ConfigAssumption
<1>4. \A i \in Ids : job[w][i] # "idle" => dueIn[i] > 0
  BY TimetableLeases
<1>5. Queued(w)' = Queued(w)
  BY <1>1 DEF Queued
<1>6. started'[w] + Cardinality(Queued(w)') <= BatchSize
  BY <1>1, <1>5 DEF Timetable
<1>7. \A i \in Ids : job'[w][i] \in Busy =>
        Lease - dueIn'[i] + left'[w][i] <= Waves * SendTimeout
  <2> SUFFICES ASSUME NEW i \in Ids, job[w][i] \in Busy
               PROVE  Lease - dueIn'[i] + left'[w][i] <= Waves * SendTimeout
    BY <1>1
  <2>1. dueIn'[i] = dueIn[i] - 1 /\ left'[w][i] = left[w][i] - 1
    BY <1>1, <1>3, <1>4
  <2>2. Lease - dueIn[i] + left[w][i] <= Waves * SendTimeout
    BY DEF Timetable
  <2>3. dueIn[i] \in Nat /\ left[w][i] \in Nat /\ Lease \in Nat
    BY ConfigAssumption, DurationTypes
  <2>4. Lease - dueIn'[i] + left'[w][i] = Lease - dueIn[i] + left[w][i]
    BY <2>1, <2>3
  <2> QED BY <2>2, <2>4
<1>8. ASSUME Queued(w) # {}
      PROVE  \E k \in Nat, r \in 0..(SendTimeout - 1) : Wave(w, k, r)'
  <2>1. PICK k \in Nat, r \in 0..(SendTimeout - 1) : Wave(w, k, r)
    BY <1>8 DEF Timetable
  <2>2. k * Concurrency \in Nat /\ k * SendTimeout \in Nat
        /\ started[w] \in Nat /\ Lease \in Nat
        /\ SendTimeout \in Nat /\ Concurrency \in Nat
    BY ConfigAssumption, DurationTypes
  <2>3. \A i \in Queued(w) : dueIn'[i] = (Lease - k * SendTimeout + r) - 1
    <3> SUFFICES ASSUME NEW i \in Queued(w)
                 PROVE  dueIn'[i] = (Lease - k * SendTimeout + r) - 1
      OBVIOUS
    <3>1. i \in Ids /\ job[w][i] # "idle"
      BY DEF Queued
    <3>2. dueIn'[i] = dueIn[i] - 1 /\ dueIn[i] = Lease - k * SendTimeout + r
      BY <1>1, <1>4, <2>1, <3>1 DEF Wave
    <3> QED BY <3>2
  <2>4. CASE r > 0
    <3>1. r - 1 \in 0..(SendTimeout - 1)
      BY <2>2, <2>4
    <3>2. Sending(w, r - 1)' = Sending(w, r)
      <4>1. \A i \in Ids : job[w][i] = "sending" =>
              (left'[w][i] > r - 1 <=> left[w][i] > r)
        <5> SUFFICES ASSUME NEW i \in Ids, job[w][i] = "sending"
                     PROVE  left'[w][i] > r - 1 <=> left[w][i] > r
          OBVIOUS
        <5>1. left'[w][i] = left[w][i] - 1 /\ left[w][i] \in Nat /\ r \in Nat
          <6>1. left[w][i] \in 0..SendTimeout /\ left[w][i] > 0
            BY <1>3
          <6>2. left'[w][i] = left[w][i] - 1
            BY <1>1, <6>1
          <6> QED BY <2>2, <6>1, <6>2
        <5> QED BY <5>1
      <4> QED BY <1>1, <4>1 DEF Sending
    <3>3. \A i \in Queued(w)' : dueIn'[i] = Lease - k * SendTimeout + (r - 1)
      <4> DEFINE x == k * SendTimeout
      <4>1. x \in Nat /\ \A i \in Queued(w) : dueIn'[i] = (Lease - x + r) - 1
        BY <2>2, <2>3
      <4> HIDE DEF x
      <4>2. (Lease - x + r) - 1 = Lease - x + (r - 1)
        BY <2>2, <4>1
      <4> QED BY <1>5, <4>1, <4>2 DEF x
    <3>4. Wave(w, k, r - 1)'
      BY <1>1, <2>1, <3>2, <3>3 DEF Wave
    <3> QED BY <3>1, <3>4
  <2>5. CASE r = 0
    <3>1. SendTimeout - 1 \in 0..(SendTimeout - 1) /\ k + 1 \in Nat
      BY ConfigAssumption
    <3>2. Running(w) = Sending(w, 0)
      BY <1>3 DEF Running, Sending
    <3>3. ~(Cardinality(Running(w)) < Concurrency)
      BY <1>2, <1>8 DEF Urgent, Queued
    <3>4. Cardinality(Sending(w, 0)) \in Nat
      BY BatchFinite DEF Sending
    <3>5. started[w] >= k * Concurrency + Concurrency
      BY <2>1, <2>2, <2>5, <3>2, <3>3, <3>4 DEF Wave
    <3>6. Sending(w, SendTimeout - 1)' = {}
      <4> SUFFICES ASSUME NEW i \in Ids, job[w][i] = "sending",
                          left'[w][i] > SendTimeout - 1
                   PROVE  FALSE
        BY <1>1 DEF Sending
      <4>1. left'[w][i] = left[w][i] - 1 /\ left[w][i] \in 0..SendTimeout
        BY <1>1, <1>3
      <4> QED BY <4>1, <2>2
    <3>7. (k + 1) * Concurrency = k * Concurrency + Concurrency
          /\ (k + 1) * SendTimeout = k * SendTimeout + SendTimeout
      BY <2>2
    <3>8. started'[w] >= (k + 1) * Concurrency
                         + Cardinality(Sending(w, SendTimeout - 1)')
      <4>1. Cardinality(Sending(w, SendTimeout - 1)') = 0
        BY <3>6, FS_EmptySet
      <4> DEFINE x == k * Concurrency
                 y == (k + 1) * Concurrency
      <4>2. x \in Nat /\ y = x + Concurrency /\ started'[w] >= x + Concurrency
        BY <1>1, <2>2, <3>5, <3>7
      <4> HIDE DEF x, y
      <4>3. started'[w] >= y + 0
        BY <2>2, <4>2
      <4> QED BY <4>1, <4>3 DEF y
    <3>9. \A i \in Queued(w)' :
            dueIn'[i] = Lease - (k + 1) * SendTimeout + (SendTimeout - 1)
      <4> DEFINE x == k * SendTimeout
                 y == (k + 1) * SendTimeout
      <4>1. x \in Nat /\ y = x + SendTimeout
            /\ \A i \in Queued(w) : dueIn'[i] = (Lease - x + r) - 1
        BY <2>2, <2>3, <3>7
      <4> HIDE DEF x, y
      <4>2. (Lease - x + r) - 1 = Lease - y + (SendTimeout - 1)
        BY <2>2, <2>5, <4>1
      <4> QED BY <1>5, <4>1, <4>2 DEF y
    <3>10. Wave(w, k + 1, SendTimeout - 1)'
      BY <3>8, <3>9 DEF Wave
    <3> QED BY <3>1, <3>10
  <2> QED BY <2>4, <2>5, ConfigAssumption
<1> QED BY <1>5, <1>6, <1>7, <1>8 DEF Timetable

\* A fresh batch is at the beginning of its timetable.
LEMMA TimetableClaim ==
  ASSUME TypeOK, NEW w \in Workers, NEW S \in SUBSET Ids,
         Cardinality(S) <= BatchSize,
         job'[w] = [i \in Ids |-> IF i \in S THEN "queued" ELSE "idle"],
         \A i \in S : dueIn'[i] = Lease,
         started'[w] = 0
  PROVE  Timetable(w)'
<1>1. Queued(w)' = S /\ Sending(w, 0)' = {}
  BY DEF Queued, Sending
<1>2. \A i \in Ids : job'[w][i] \notin Busy
  BY DEF Busy
<1>3. Cardinality(S) \in Nat /\ Cardinality({}) = 0
  BY BatchFinite, FS_EmptySet
<1>4. Lease - 0 * SendTimeout + 0 = Lease /\ 0 >= 0 * Concurrency + 0
  BY ConfigAssumption, DurationTypes
<1>5. Wave(w, 0, 0)'
  <2>1. \A i \in Queued(w)' : dueIn'[i] = Lease - 0 * SendTimeout + 0
    BY <1>1, <1>4
  <2>2. started'[w] >= 0 * Concurrency + Cardinality(Sending(w, 0)')
    BY <1>1, <1>3, <1>4, Zenon
  <2> QED BY <2>1, <2>2 DEF Wave
<1>6. 0 \in Nat /\ 0 \in 0..(SendTimeout - 1)
  BY ConfigAssumption
<1>7. started'[w] + Cardinality(Queued(w)') <= BatchSize
  BY <1>1, <1>3, ConfigAssumption
<1> QED BY <1>2, <1>5, <1>6, <1>7 DEF Timetable

LeaseInv == TypeOK /\ HandInv /\ TimeInv

\* No row in hand is due.
LEMMA HandLeased ==
  ASSUME LeaseOutlasts, LeaseInv, NEW w \in Workers, NEW i \in Ids,
         job[w][i] # "idle"
  PROVE  pc[w] = "deliver" /\ dueIn[i] > 0 /\ rowState[i] = "pending" /\ i \notin Due
<1>1. pc[w] = "deliver" /\ rowState[i] = "pending"
  BY DEF LeaseInv, HandInv
<1>2. dueIn[i] > 0
  BY <1>1, TimetableLeases DEF LeaseInv, TimeInv
<1> QED BY <1>1, <1>2 DEF Due

\* A claim takes only rows that nobody has in hand.
LEMMA ClaimLease ==
  ASSUME LeaseOutlasts, LeaseInv, NEW w \in Workers, Claim(w)
  PROVE  HandInv' /\ TimeInv'
<1>1. PICK S \in (SUBSET Due) \ {{}} :
        /\ Cardinality(S) <= BatchSize
        /\ ClaimRows(S)
        /\ job' = [job EXCEPT ![w] =
                     [i \in Ids |-> IF i \in S THEN "queued" ELSE "idle"]]
        /\ att' = [att EXCEPT ![w] =
                     [i \in Ids |-> IF i \in S THEN attempts[i] + 1 ELSE 0]]
  BY ClaimParts, Zenon
<1>2. /\ pc[w] = "claim" /\ pc' = [pc EXCEPT ![w] = "deliver"]
      /\ started' = [started EXCEPT ![w] = 0] /\ left' = left
  BY DEF Claim
<1>3. /\ S \subseteq Due /\ S \subseteq Ids /\ Cardinality(S) <= BatchSize
      /\ attempts' = [i \in Ids |-> IF i \in S THEN attempts[i] + 1
                                               ELSE attempts[i]]
      /\ dueIn' = [i \in Ids |-> IF i \in S THEN Lease ELSE dueIn[i]]
      /\ rowState' = rowState
  BY <1>1 DEF ClaimRows, Take, Due
<1>4. \A v \in Workers, i \in Ids : job[v][i] # "idle" => i \notin S
  BY <1>3, HandLeased
<1>5. \A i \in S : rowState[i] = "pending"
  BY <1>3 DEF Due
<1>6. /\ \A i \in Ids : job[w][i] = "idle"
      /\ job'[w] = [i \in Ids |-> IF i \in S THEN "queued" ELSE "idle"]
      /\ att'[w] = [i \in Ids |-> IF i \in S THEN attempts[i] + 1 ELSE 0]
      /\ \A v \in Workers \ {w} : job'[v] = job[v] /\ att'[v] = att[v]
  BY <1>1, <1>2 DEF LeaseInv, HandInv, TypeOK
<1>7. HandInv'
  <2> SUFFICES ASSUME NEW v \in Workers, NEW i \in Ids, job'[v][i] # "idle"
               PROVE  /\ pc'[v] = "deliver" /\ rowState'[i] = "pending"
                      /\ att'[v][i] = attempts'[i]
                      /\ \A u \in Workers \ {v} : job'[u][i] = "idle"
    BY DEF HandInv
  <2>1. CASE v = w
    BY <1>2, <1>3, <1>4, <1>5, <1>6, <2>1 DEF LeaseInv, TypeOK
  <2>2. CASE v # w
    <3>1. job[v][i] # "idle" /\ i \notin S
      BY <1>4, <1>6, <2>2
    <3>2. pc'[v] = "deliver" /\ rowState'[i] = "pending"
          /\ att'[v][i] = attempts'[i]
      BY <1>2, <1>3, <1>6, <2>2, <3>1 DEF LeaseInv, HandInv, TypeOK
    <3>3. ASSUME NEW u \in Workers \ {v} PROVE job'[u][i] = "idle"
      <4>1. CASE u = w
        BY <1>6, <3>1, <4>1
      <4>2. CASE u # w
        BY <1>6, <3>1, <4>2 DEF LeaseInv, HandInv
      <4> QED BY <4>1, <4>2
    <3> QED BY <3>2, <3>3
  <2> QED BY <2>1, <2>2
<1>8. TimeInv'
  <2> SUFFICES ASSUME NEW v \in Workers, pc'[v] = "deliver" PROVE Timetable(v)'
    BY DEF TimeInv
  <2>1. CASE v = w
    <3>1. started'[w] = 0 /\ \A i \in S : dueIn'[i] = Lease
      BY <1>2, <1>3 DEF LeaseInv, TypeOK
    <3> QED BY <1>3, <1>6, <2>1, <3>1, TimetableClaim DEF LeaseInv
  <2>2. CASE v # w
    <3>1. Timetable(v)
      BY <1>2, <2>2 DEF LeaseInv, TypeOK, TimeInv
    <3>2. job'[v] = job[v] /\ left'[v] = left[v] /\ started'[v] = started[v]
      BY <1>2, <1>6, <2>2 DEF LeaseInv, TypeOK
    <3>3. \A i \in Ids : job[v][i] # "idle" => dueIn'[i] = dueIn[i]
      BY <1>3, <1>4
    <3> QED BY <3>1, <3>2, <3>3, TimetableFrame
  <2> QED BY <2>1, <2>2
<1> QED BY <1>7, <1>8

\* The other steps of Run leave the rows in hand alone.
LEMMA RunLease ==
  ASSUME LeaseOutlasts, LeaseInv, NEW w \in Workers, RunStep(w)
  PROVE  HandInv' /\ TimeInv'
<1>1. ASSUME UNCHANGED jobVars,
             \A v \in Workers, i \in Ids : job[v][i] # "idle" =>
                /\ pc'[v] = "deliver" /\ started'[v] = started[v]
                /\ rowState'[i] = rowState[i] /\ attempts'[i] = attempts[i]
                /\ dueIn'[i] = dueIn[i],
             \A v \in Workers : pc'[v] = "deliver" =>
                pc[v] = "deliver" /\ started'[v] = started[v]
      PROVE  HandInv' /\ TimeInv'
  <2>1. HandInv'
    BY <1>1 DEF jobVars, LeaseInv, HandInv
  <2>2. ASSUME NEW v \in Workers, pc'[v] = "deliver" PROVE Timetable(v)'
    <3>1. Timetable(v)
      BY <1>1, <2>2 DEF LeaseInv, TimeInv
    <3> QED BY <1>1, <2>2, <3>1, TimetableFrame DEF jobVars
  <2> QED BY <2>1, <2>2 DEF TimeInv
<1>2. \A v \in Workers, i \in Ids : job[v][i] # "idle" =>
        pc[v] = "deliver" /\ rowState[i] = "pending" /\ i \notin Due
  BY HandLeased
<1> USE <1>2 DEF LeaseInv, TypeOK, rowVars, AfterError, AfterCleanup
<1>3. CASE Claim(w)
  BY <1>3, ClaimLease
<1>4. CASE ClaimEmpty(w)
  BY <1>1, <1>4 DEF ClaimEmpty
<1>5. CASE ClaimFails(w)
  BY <1>1, <1>5 DEF ClaimFails
<1>6. CASE ClaimLost(w)
  <2>1. PICK S \in SUBSET Due : ClaimRows(S)
    BY <1>6, ClaimLostParts
  <2>2. \A v \in Workers, i \in Ids : job[v][i] # "idle" =>
            /\ rowState'[i] = rowState[i] /\ attempts'[i] = attempts[i]
            /\ dueIn'[i] = dueIn[i]
    BY <2>1 DEF ClaimRows, Take
  <2>3. /\ UNCHANGED jobVars /\ UNCHANGED started /\ pc[w] = "claim"
        /\ pc' = [pc EXCEPT ![w] = IF cancelled[w] THEN "stopped" ELSE "cleanup"]
    BY <1>6 DEF ClaimLost
  <2>4. \A v \in Workers : v # w => pc'[v] = pc[v]
    BY <2>3
  <2>5. pc'[w] # "deliver"
    BY <2>3
  <2>6. \A i \in Ids : job[w][i] = "idle"
    BY <2>3
  <2> QED BY <1>1, <2>2, <2>3, <2>4, <2>5, <2>6
<1>7. CASE BatchDone(w)
  <2>1. \A i \in Ids : job[w][i] = "idle"
    BY <1>7 DEF BatchDone, Queued, Running, Busy
  <2> QED BY <1>1, <1>7, <2>1 DEF BatchDone
<1>8. CASE CleanupSkip(w)
  BY <1>1, <1>8 DEF CleanupSkip
<1>9. CASE DeleteOldFailed(w)
  BY <1>1, <1>9 DEF DeleteOldFailed
<1>10. CASE Poll(w)
  BY <1>1, <1>10 DEF Poll
<1>11. CASE Stop(w)
  BY <1>1, <1>11 DEF Stop
<1> QED BY <1>3, <1>4, <1>5, <1>6, <1>7, <1>8, <1>9, <1>10, <1>11 DEF RunStep

\* The rows and goroutines that a goroutine does not change keep what the
\* invariant says of them.
LEMMA OthersKeep ==
  ASSUME LeaseInv, NEW w \in Workers, NEW i \in Ids, job[w][i] # "idle",
         NEW st \in JobStates, job' = [job EXCEPT ![w][i] = st],
         pc' = pc,
         \A v \in Workers, j \in Ids : j # i => att'[v][j] = att[v][j],
         \A j \in Ids : j # i => /\ rowState'[j] = rowState[j]
                                 /\ attempts'[j] = attempts[j]
                                 /\ dueIn'[j] = dueIn[j],
         \A v \in Workers : v # w => /\ left'[v] = left[v]
                                     /\ started'[v] = started[v],
         Timetable(w)',
         st # "idle" => /\ rowState'[i] = rowState[i]
                        /\ attempts'[i] = attempts[i]
                        /\ att'[w][i] = att[w][i]
  PROVE  HandInv' /\ TimeInv'
<1>1. /\ pc[w] = "deliver" /\ rowState[i] = "pending" /\ att[w][i] = attempts[i]
      /\ \A v \in Workers : v # w => job[v][i] = "idle"
  BY DEF LeaseInv, HandInv
<1>2. /\ job'[w][i] = st
      /\ \A v \in Workers, j \in Ids : v # w \/ j # i => job'[v][j] = job[v][j]
      /\ \A v \in Workers : v # w => job'[v] = job[v]
  BY DEF LeaseInv, TypeOK
<1>3. ASSUME NEW v \in Workers, NEW j \in Ids, job'[v][j] # "idle"
      PROVE  /\ pc'[v] = "deliver" /\ rowState'[j] = "pending"
             /\ att'[v][j] = attempts'[j]
             /\ \A u \in Workers \ {v} : job'[u][j] = "idle"
  <2>1. CASE j = i
    BY <1>1, <1>2, <1>3, <2>1
  <2>2. CASE j # i
    BY <1>2, <1>3, <2>2 DEF LeaseInv, HandInv
  <2> QED BY <2>1, <2>2
<1>4. ASSUME NEW v \in Workers, pc'[v] = "deliver" PROVE Timetable(v)'
  <2>1. CASE v # w
    <3>1. Timetable(v)
      BY <1>4 DEF LeaseInv, TimeInv
    <3>2. \A j \in Ids : job[v][j] # "idle" => dueIn'[j] = dueIn[j]
      BY <1>1, <2>1
    <3> QED BY <1>2, <2>1, <3>1, <3>2, TimetableFrame
  <2> QED BY <2>1
<1> QED BY <1>3, <1>4 DEF HandInv, TimeInv

\* A goroutine changes only the row it has in hand, which is in no other batch.
LEMMA JobLease ==
  ASSUME LeaseInv, NEW w \in Workers, NEW i \in Ids, JobStep(w, i)
  PROVE  HandInv' /\ TimeInv'
<1>1. job[w][i] # "idle"
  BY DEF JobStep, StartSend, SendAccepted, SendAborted, SendRejected,
     SendConflict, SendFailed, FailedSend, Complete, Retry, Reschedule, Defer,
     Fail, DbError
<1>2. TypeOK /\ Timetable(w)
  BY <1>1 DEF LeaseInv, HandInv, TimeInv
<1>3. CASE StartSend(w, i)
  <2>1. Timetable(w)'
    BY <1>2, <1>3, TimetableStart
  <2>2. /\ job' = [job EXCEPT ![w][i] = "sending"]
        /\ UNCHANGED <<rowState, attempts, dueIn, pc, att>>
    BY <1>3 DEF StartSend, rowVars
  <2>3. \A v \in Workers : v # w => left'[v] = left[v] /\ started'[v] = started[v]
    BY <1>2, <1>3 DEF StartSend, TypeOK
  <2> QED BY <1>1, <2>1, <2>2, <2>3, OthersKeep
\* A goroutine that ends its send or its work leaves the timetable.
<1>4. ASSUME NEW st \in {"idle", "complete", "retry", "defer", "fail"},
             job' = [job EXCEPT ![w][i] = st],
             left' = [left EXCEPT ![w][i] = 0],
             job[w][i] \in {"sending", "complete", "retry", "defer", "fail"},
             pc' = pc, started' = started,
             \A v \in Workers, j \in Ids : j # i => att'[v][j] = att[v][j],
             \A j \in Ids : j # i => /\ rowState'[j] = rowState[j]
                                     /\ attempts'[j] = attempts[j]
                                     /\ dueIn'[j] = dueIn[j],
             dueIn'[i] \in Nat,
             st # "idle" => /\ rowState'[i] = rowState[i]
                            /\ attempts'[i] = attempts[i]
                            /\ dueIn'[i] = dueIn[i]
                            /\ att'[w][i] = att[w][i]
      PROVE  HandInv' /\ TimeInv'
  <2>1. /\ job[w][i] \in Busy /\ st \in JobStates \ {"queued", "sending"}
        /\ st \in Busy => dueIn'[i] = dueIn[i]
        /\ \A j \in Ids \ {i} : dueIn'[j] = dueIn[j]
    BY <1>4 DEF Busy
  <2>2. Timetable(w)'
    BY <1>2, <1>4, <2>1, TimetableEnd
  <2>3. \A v \in Workers : v # w => left'[v] = left[v] /\ started'[v] = started[v]
    BY <1>2, <1>4 DEF TypeOK
  <2> QED BY <1>1, <1>4, <2>2, <2>3, OthersKeep
<1>5. ASSUME NEW st \in {"complete", "retry", "defer", "fail"}, Record(w, i, st),
             job[w][i] = "sending", UNCHANGED <<rowVars, loopVars>>
      PROVE  HandInv' /\ TimeInv'
  <2>1. dueIn[i] \in Nat
    BY <1>2 DEF TypeOK
  <2>2. /\ job' = [job EXCEPT ![w][i] = st] /\ left' = [left EXCEPT ![w][i] = 0]
        /\ UNCHANGED <<att, pc, started, rowState, attempts, dueIn>>
    BY <1>5 DEF Record, rowVars, loopVars
  <2> QED BY <1>4, <1>5, <2>1, <2>2
<1>6. ASSUME Return(w, i), UNCHANGED loopVars,
             job[w][i] \in {"sending", "complete", "retry", "defer", "fail"},
             dueIn'[i] \in Nat,
             \A j \in Ids : j # i => /\ rowState'[j] = rowState[j]
                                     /\ attempts'[j] = attempts[j]
                                     /\ dueIn'[j] = dueIn[j]
      PROVE  HandInv' /\ TimeInv'
  <2>1. /\ job' = [job EXCEPT ![w][i] = "idle"]
        /\ left' = [left EXCEPT ![w][i] = 0]
        /\ UNCHANGED <<pc, started>>
    BY <1>6 DEF Return, loopVars
  <2>2. \A v \in Workers, j \in Ids : j # i => att'[v][j] = att[v][j]
    BY <1>2, <1>6 DEF Return, TypeOK
  <2> QED BY <1>4, <1>6, <2>1, <2>2
<1>7. CASE SendAccepted(w, i)
  BY <1>5, <1>7 DEF SendAccepted
<1>8. CASE SendRejected(w, i)
  BY <1>5, <1>8 DEF SendRejected
<1>9. CASE SendConflict(w, i)
  BY <1>5, <1>9 DEF SendConflict
<1>10. CASE SendFailed(w, i)
  BY <1>5, <1>10 DEF SendFailed, FailedSend
<1>11. \A j \in Ids : dueIn[j] \in Nat
  BY <1>2 DEF TypeOK
<1>12. CASE SendAborted(w, i)
  BY <1>6, <1>11, <1>12 DEF SendAborted, rowVars
<1>13. CASE DbError(w, i)
  BY <1>6, <1>11, <1>13 DEF DbError, rowVars
<1> USE <1>2 DEF TypeOK
<1>14. CASE Complete(w, i)
  BY <1>6, <1>14 DEF Complete
<1>15. CASE Retry(w, i)
  <2>1. Seconds(backoffFor(att[w][i])) \in Nat
    BY BackoffType, SecondsType
  <2> QED BY <1>6, <1>15, <2>1 DEF Retry, Reschedule
<1>16. CASE Defer(w, i)
  BY <1>6, <1>16, DurationTypes DEF Defer
<1>17. CASE Fail(w, i)
  BY <1>6, <1>17 DEF Fail
<1> QED BY <1>3, <1>7, <1>8, <1>9, <1>10, <1>12, <1>13, <1>14, <1>15, <1>16, <1>17
        DEF JobStep

\* Every step preserves the invariant of the leases.
LEMMA StepLease ==
  ASSUME Prompt, LeaseOutlasts
  PROVE  LeaseInv /\ [Next]_vars => LeaseInv'
<1> SUFFICES ASSUME LeaseInv, [Next]_vars PROVE HandInv' /\ TimeInv'
  BY StepType DEF LeaseInv
<1>1. ASSUME NEW i \in Ids, Enqueue(i) PROVE HandInv' /\ TimeInv'
  <2>1. HandInv'
    BY <1>1 DEF Enqueue, loopVars, jobVars, LeaseInv, TypeOK, HandInv
  <2>2. ASSUME NEW w \in Workers, pc'[w] = "deliver" PROVE Timetable(w)'
    BY <1>1, <2>2, TimetableFrame DEF Enqueue, loopVars, jobVars, LeaseInv, TimeInv
  <2> QED BY <2>1, <2>2 DEF TimeInv
<1>2. ASSUME NEW w \in Workers, RunStep(w) PROVE HandInv' /\ TimeInv'
  BY <1>2, RunLease
<1>3. ASSUME NEW w \in Workers, NEW i \in Ids, JobStep(w, i)
      PROVE  HandInv' /\ TimeInv'
  BY <1>3, JobLease
<1>4. ASSUME NEW w \in Workers, Cancel(w) \/ Crash(w) \/ Restart(w)
      PROVE  HandInv' /\ TimeInv'
  <2>1. /\ UNCHANGED rowVars
        /\ \A v \in Workers : pc'[v] = "deliver" =>
            /\ pc[v] = "deliver" /\ job'[v] = job[v] /\ att'[v] = att[v]
            /\ left'[v] = left[v] /\ started'[v] = started[v]
        /\ \A v \in Workers, i \in Ids : job'[v][i] # "idle" =>
            /\ pc'[v] = "deliver" /\ job[v][i] # "idle"
        /\ \A v \in Workers, i \in Ids : job[v][i] = "idle" => job'[v][i] = "idle"
    <3>1. CASE Cancel(w)
      BY <3>1 DEF Cancel, jobVars, LeaseInv, TypeOK, HandInv
    <3>2. CASE Crash(w)
      BY <3>2 DEF Crash, DropBatch, LeaseInv, TypeOK, HandInv
    <3>3. CASE Restart(w)
      BY <3>3 DEF Restart, jobVars, LeaseInv, TypeOK, HandInv
    <3> QED BY <1>4, <3>1, <3>2, <3>3
  <2>2. HandInv'
    BY <2>1 DEF rowVars, LeaseInv, HandInv
  <2>3. ASSUME NEW v \in Workers, pc'[v] = "deliver" PROVE Timetable(v)'
    BY <2>1, <2>3, TimetableFrame DEF rowVars, LeaseInv, TimeInv
  <2> QED BY <2>2, <2>3 DEF TimeInv
<1>5. CASE Tick
  <2>1. HandInv'
    BY <1>5 DEF Tick, loopVars, LeaseInv, HandInv
  <2>2. ASSUME NEW w \in Workers, pc'[w] = "deliver" PROVE Timetable(w)'
    <3>1. Timetable(w)
      BY <1>5, <2>2 DEF Tick, loopVars, LeaseInv, TimeInv
    <3> QED BY <1>5, <3>1, TimetableTick DEF LeaseInv
  <2> QED BY <2>1, <2>2 DEF TimeInv
<1>6. CASE UNCHANGED vars
  <2>1. HandInv'
    BY <1>6 DEF vars, rowVars, loopVars, jobVars, LeaseInv, HandInv
  <2>2. ASSUME NEW w \in Workers, pc'[w] = "deliver" PROVE Timetable(w)'
    BY <1>6, <2>2, TimetableFrame
       DEF vars, rowVars, loopVars, jobVars, LeaseInv, TimeInv
  <2> QED BY <2>1, <2>2 DEF TimeInv
<1> QED BY <1>1, <1>2, <1>3, <1>4, <1>5, <1>6 DEF Next

\* In the initial state nobody has a row in hand.
LEMMA InitLease == Init => LeaseInv
  BY InitType DEF Init, LeaseInv, HandInv, TimeInv

\* If goroutines run promptly and the lease, as it reaches the table, outlasts
\* the waves of a batch, then SKIP LOCKED and the lease give every row to one
\* replica at a time, for any number of replicas, messages, crashes, lost
\* claims and failed statements.
THEOREM OneReplicaPerRow ==
  ASSUME Prompt, LeaseOutlasts
  PROVE  Spec => []NoTwoReplicasDeliver
<1>1. LeaseInv => NoTwoReplicasDeliver
  BY DEF LeaseInv, HandInv, NoTwoReplicasDeliver
<1>2. LeaseInv /\ [Next]_vars => LeaseInv'
  BY StepLease
<1> QED BY <1>1, <1>2, InitLease, PTL DEF Spec

-------------------------------------------------------------------------------
(* Failing a row: once, for good and announced *)

\* What the goroutines know of a row that is in hand holds as long as they have
\* it, and Due never offers it.
LEMMA InHand ==
  ASSUME LeaseOutlasts, LeaseInv
  PROVE  \A w \in Workers, i \in Ids : job[w][i] # "idle" =>
            /\ pc[w] = "deliver" /\ rowState[i] = "pending" /\ i \notin Due
            /\ att[w][i] = attempts[i]
            /\ \A v \in Workers : v # w => job[v][i] = "idle"
  BY HandLeased DEF LeaseInv, HandInv

\* What a step does to the state of one row.
LEMMA RowSteps ==
  ASSUME LeaseOutlasts, LeaseInv, NEW i \in Ids, [Next]_vars
  PROVE  \/ rowState'[i] = rowState[i]
         \/ rowState[i] = "new" /\ rowState'[i] = "pending"
         \/ rowState[i] = "pending" /\ rowState'[i] \in {"failed", "gone"}
         \/ rowState[i] = "failed" /\ rowState'[i] = "gone"
<1> USE DEF rowVars
<1>0. rowState \in [Ids -> RowStates]
  BY DEF LeaseInv, TypeOK
<1>1. ASSUME NEW j \in Ids, Enqueue(j)
      PROVE  \/ rowState'[i] = rowState[i]
             \/ rowState[i] = "new" /\ rowState'[i] = "pending"
  BY <1>0, <1>1 DEF Enqueue
<1>2. ASSUME NEW w \in Workers, RunStep(w)
      PROVE  \/ rowState'[i] = rowState[i]
             \/ rowState[i] = "failed" /\ rowState'[i] = "gone"
  <2>1. CASE DeleteOldFailed(w)
    BY <2>1 DEF DeleteOldFailed
  <2> QED BY <1>2, <2>1 DEF RunStep, Claim, ClaimEmpty, ClaimFails, ClaimLost,
             ClaimRows, Take, BatchDone, CleanupSkip, Poll, Stop
<1>3. ASSUME NEW w \in Workers, NEW j \in Ids, JobStep(w, j)
      PROVE  \/ rowState'[i] = rowState[i]
             \/ rowState[i] = "pending" /\ rowState'[i] \in {"failed", "gone"}
  <2>0. job[w][j] # "idle" => rowState[j] = "pending"
    BY InHand
  <2>1. CASE Complete(w, j)
    BY <1>0, <2>0, <2>1 DEF Complete
  <2>2. CASE Retry(w, j)
    BY <1>0, <2>0, <2>2 DEF Retry, Reschedule
  <2>3. CASE Fail(w, j)
    BY <1>0, <2>0, <2>3 DEF Fail
  <2> QED BY <1>3, <2>1, <2>2, <2>3 DEF JobStep, StartSend, SendAccepted,
             SendAborted, SendRejected, SendConflict, SendFailed, FailedSend,
             Defer, DbError
<1> QED BY <1>1, <1>2, <1>3 DEF Next, vars, Cancel, Crash, Restart, Tick

\* While the leases hold, the statements that do not look at failed_at (Retry and
\* Complete) never meet a failed row: giving up on a message is final.
THEOREM GivingUpIsFinal ==
  ASSUME Prompt, LeaseOutlasts
  PROVE  Spec => FailedIsFinal
<1>1. LeaseInv /\ [Next]_vars =>
        [\A i \in Ids : rowState[i] = "failed" =>
                         rowState'[i] \in {"failed", "gone"}]_vars
  BY RowSteps
<1> QED BY <1>1, InitLease, StepLease, PTL DEF Spec, FailedIsFinal

\* A goroutine that goes for the UPDATE of Retry with its last attempt has
\* logged it.
LastIsLogged ==
    \A w \in Workers, i \in Ids :
        job[w][i] = "retry" /\ att[w][i] >= MaxAttempts => condemned[i]

\* Every step preserves it, and marks no row failed that was not logged: the
\* attempts that the goroutine claimed are those of the column that Retry reads.
LEMMA StepAnnounced ==
  ASSUME LeaseOutlasts, LossInv, LeaseInv, LastIsLogged, FailedIsAnnounced,
         [Next]_vars
  PROVE  LastIsLogged' /\ FailedIsAnnounced'
<1>0. TypeOK
  BY DEF LeaseInv
<1> USE <1>0, MaxAttemptsType, ConfigAssumption
    DEF TypeOK, LastIsLogged, FailedIsAnnounced, rowVars, loopVars, jobVars, history
<1>1. ASSUME NEW i \in Ids, Enqueue(i) PROVE LastIsLogged' /\ FailedIsAnnounced'
  BY <1>1 DEF Enqueue
<1>2. ASSUME NEW w \in Workers, RunStep(w)
      PROVE  LastIsLogged' /\ FailedIsAnnounced'
  <2>1. CASE Claim(w)
    <3>0. PICK S \in (SUBSET Due) \ {{}} :
            /\ Cardinality(S) <= BatchSize
            /\ ClaimRows(S)
            /\ job' = [job EXCEPT ![w] =
                         [i \in Ids |-> IF i \in S THEN "queued" ELSE "idle"]]
            /\ att' = [att EXCEPT ![w] =
                         [i \in Ids |-> IF i \in S THEN attempts[i] + 1 ELSE 0]]
      BY <2>1, ClaimParts, Zenon
    <3>1. \A i \in Ids : job'[w][i] # "retry"
      BY <3>0
    <3>2. \A v \in Workers : v # w => job'[v] = job[v] /\ att'[v] = att[v]
      BY <3>0
    <3>3. condemned' = condemned /\ rowState' = rowState
      BY <2>1 DEF Claim, ClaimRows, Take
    <3> QED BY <3>1, <3>2, <3>3
  <2>2. CASE DeleteOldFailed(w)
    BY <2>2 DEF DeleteOldFailed
  <2>3. CASE ClaimLost(w)
    BY <2>3 DEF ClaimLost, ClaimRows, Take
  <2> QED BY <1>2, <2>1, <2>2, <2>3 DEF RunStep, ClaimEmpty, ClaimFails, BatchDone,
             CleanupSkip, Poll, Stop
<1>3. ASSUME NEW w \in Workers, NEW i \in Ids, JobStep(w, i)
      PROVE  LastIsLogged' /\ FailedIsAnnounced'
  <2> USE DEF Return, Record
  <2>1. CASE StartSend(w, i)
    BY <2>1 DEF StartSend
  <2>2. CASE SendAccepted(w, i)
    BY <2>2 DEF SendAccepted
  <2>3. CASE SendAborted(w, i)
    BY <2>3 DEF SendAborted
  <2>4. CASE SendRejected(w, i)
    BY <2>4 DEF SendRejected
  <2>5. CASE SendConflict(w, i)
    BY <2>5 DEF SendConflict
  <2>6. CASE SendFailed(w, i)
    BY <2>6 DEF SendFailed, FailedSend
  <2>7. CASE Complete(w, i)
    BY <2>7 DEF Complete
  <2>8. CASE Retry(w, i)
    <3>1. job[w][i] = "retry"
      BY <2>8 DEF Retry, Reschedule
    <3>2. att[w][i] = attempts[i]
      BY <3>1, InHand, Zenon
    <3>3. attempts[i] >= MaxAttempts => condemned[i]
      BY <3>1, <3>2
    <3> QED BY <2>8, <3>3 DEF Retry, Reschedule
  <2>9. CASE Defer(w, i)
    BY <2>9 DEF Defer
  <2>10. CASE Fail(w, i)
    BY <2>10 DEF Fail, LossInv, JobsHonest
  <2>11. CASE DbError(w, i)
    BY <2>11 DEF DbError
  <2> QED BY <1>3, <2>1, <2>2, <2>3, <2>4, <2>5, <2>6, <2>7, <2>8, <2>9,
             <2>10, <2>11 DEF JobStep
<1>4. ASSUME NEW w \in Workers, Cancel(w) \/ Crash(w) \/ Restart(w)
      PROVE  LastIsLogged' /\ FailedIsAnnounced'
  <2>1. CASE Cancel(w)
    BY <2>1 DEF Cancel
  <2>2. CASE Crash(w)
    BY <2>2 DEF Crash, DropBatch
  <2>3. CASE Restart(w)
    BY <2>3 DEF Restart
  <2> QED BY <1>4, <2>1, <2>2, <2>3
<1> QED BY <1>1, <1>2, <1>3, <1>4 DEF Next, vars, Tick

\* While the leases hold, a row is marked failed only if the log said that it
\* never will be delivered: the goroutine logs by the attempts it claimed, Retry
\* decides by the column, and the two agree.
THEOREM FailureIsAnnounced ==
  ASSUME Prompt, LeaseOutlasts
  PROVE  Spec => []FailedIsAnnounced
<1>1. Init => LossInv /\ LeaseInv /\ LastIsLogged /\ FailedIsAnnounced
  BY InitLoss, InitLease DEF Init, LastIsLogged, FailedIsAnnounced
<1>2. LossInv /\ LeaseInv /\ LastIsLogged /\ FailedIsAnnounced /\ [Next]_vars =>
        (LossInv /\ LeaseInv /\ LastIsLogged /\ FailedIsAnnounced)'
  BY StepLoss, StepLease, StepAnnounced
<1> QED BY <1>1, <1>2, PTL DEF Spec

-------------------------------------------------------------------------------
(* Without a fault nothing is sent twice *)

\* As long as no fault happened, no context is done, and a delivered message is
\* off the table or its goroutine is about to take it off.
CalmInv ==
    faults = MaxFaults =>
        /\ \A w \in Workers : ~cancelled[w]
        /\ \A i \in Ids : accepted[i] =>
            rowState[i] = "gone" \/ \E w \in Workers : job[w][i] = "complete"

\* Every step preserves it: the row of a delivered message is leased until its
\* goroutine deletes it, and only a fault keeps the goroutine from that.
LEMMA StepCalm ==
  ASSUME LeaseOutlasts, LeaseInv, CalmInv, [Next]_vars
  PROVE  CalmInv'
<1> SUFFICES ASSUME faults' = MaxFaults
             PROVE  /\ \A w \in Workers : ~cancelled'[w]
                    /\ \A i \in Ids : accepted'[i] =>
                        \/ rowState'[i] = "gone"
                        \/ \E w \in Workers : job'[w][i] = "complete"
  BY DEF CalmInv
<1>0. TypeOK
  BY DEF LeaseInv
<1>1. /\ ~Fault /\ faults = MaxFaults
      /\ \A w \in Workers : ~Cancel(w) /\ ~Crash(w)
  <2>1. faults \in 0..MaxFaults /\ ~Fault
    BY <1>0, ConfigAssumption DEF TypeOK, Fault
  <2>2. \A w \in Workers : ~Cancel(w) /\ ~Crash(w)
    BY <2>1 DEF Cancel, Crash
  <2>3. faults' = faults
    <3>1. ASSUME NEW w \in Workers, RunStep(w) PROVE faults' = faults
      BY <2>1, <3>1 DEF RunStep, Claim, ClaimEmpty, ClaimFails, ClaimLost,
         BatchDone, CleanupSkip, DeleteOldFailed, Poll, Stop
    <3>2. ASSUME NEW w \in Workers, NEW i \in Ids, JobStep(w, i)
          PROVE  faults' = faults
      BY <2>1, <3>2 DEF JobStep, StartSend, SendAccepted, SendAborted,
         SendRejected, SendConflict, SendFailed, FailedSend, Complete, Retry,
         Reschedule, Defer, Fail, DbError
    <3> QED BY <2>2, <3>1, <3>2 DEF Next, vars, Enqueue, Restart, Tick
  <2> QED BY <2>1, <2>2, <2>3
<1>2. /\ \A w \in Workers : ~cancelled[w]
      /\ \A i \in Ids : accepted[i] =>
            rowState[i] = "gone" \/ \E w \in Workers : job[w][i] = "complete"
  BY <1>1 DEF CalmInv
<1>3. \A w \in Workers : ~cancelled'[w]
  <2>1. cancelled' = cancelled \/ \E w \in Workers : Restart(w)
    <3>1. ASSUME NEW w \in Workers, RunStep(w) PROVE cancelled' = cancelled
      BY <3>1 DEF RunStep, Claim, ClaimEmpty, ClaimFails, ClaimLost, AfterError,
         AfterCleanup, BatchDone, CleanupSkip, DeleteOldFailed, Poll, Stop
    <3>2. ASSUME NEW w \in Workers, NEW i \in Ids, JobStep(w, i)
          PROVE  cancelled' = cancelled
      BY <3>2 DEF JobStep, StartSend, SendAccepted, SendAborted, SendRejected,
         SendConflict, SendFailed, FailedSend, Complete, Retry, Reschedule, Defer,
         Fail, DbError, loopVars
    <3> QED BY <1>1, <3>1, <3>2 DEF Next, vars, Enqueue, Tick, loopVars
  <2>2. ASSUME NEW w \in Workers, Restart(w), NEW v \in Workers
        PROVE  ~cancelled'[v]
    <3>1. cancelled' = [cancelled EXCEPT ![w] = FALSE]
      BY <2>2 DEF Restart
    <3>2. cancelled \in [Workers -> BOOLEAN]
      BY <1>0 DEF TypeOK
    <3>3. cancelled'[v] = IF v = w THEN FALSE ELSE cancelled[v]
      BY <3>1, <3>2
    <3> QED BY <1>2, <3>3
  <2> QED BY <1>2, <2>1, <2>2
<1>4. ASSUME NEW i \in Ids, accepted'[i]
      PROVE  rowState'[i] = "gone" \/ \E w \in Workers : job'[w][i] = "complete"
  <2>1. \/ rowState'[i] = rowState[i]
        \/ rowState[i] = "new" /\ rowState'[i] = "pending"
        \/ rowState[i] = "pending" /\ rowState'[i] \in {"failed", "gone"}
        \/ rowState[i] = "failed" /\ rowState'[i] = "gone"
    BY RowSteps
  <2>2. CASE rowState[i] = "gone"
    BY <2>1, <2>2
  <2>3. CASE accepted[i] /\ rowState[i] # "gone"
    <3>1. PICK v \in Workers : job[v][i] = "complete"
      BY <1>2, <2>3
    <3>2. pc[v] = "deliver" /\ \A w \in Workers : w # v => job[w][i] = "idle"
      BY <3>1, InHand, Zenon
    <3>3. CASE job'[v] = job[v]
      BY <3>1, <3>3
    <3>4. CASE job'[v] # job[v]
      <4>1. ASSUME NEW w \in Workers, RunStep(w) PROVE FALSE
        <5>1. job'[v] = job[v]
          BY <1>0, <3>2, <4>1, ClaimParts DEF TypeOK, RunStep, Claim, ClaimEmpty,
             ClaimFails, ClaimLost, BatchDone, CleanupSkip, DeleteOldFailed, Poll,
             Stop, jobVars
        <5> QED BY <3>4, <5>1
      <4>2. PICK w \in Workers, j \in Ids : JobStep(w, j)
        BY <1>1, <3>4, <4>1 DEF Next, vars, Enqueue, Restart, Tick, jobVars
      <4>3. job' = [job EXCEPT ![w][j] = job'[w][j]]
        BY <1>0, <4>2 DEF TypeOK, JobStep, StartSend, SendAccepted, SendAborted,
           SendRejected, SendConflict, SendFailed, FailedSend, Complete, Retry,
           Reschedule, Defer, Fail, DbError, Record, Return
      <4>4. CASE w # v \/ j # i
        <5>1. job \in [Workers -> [Ids -> JobStates]]
          BY <1>0 DEF TypeOK
        <5>2. job'[v][i] = job[v][i]
          BY <4>3, <4>4, <5>1
        <5> QED BY <3>1, <5>2
      <4>5. CASE w = v /\ j = i
        <5>1. Complete(v, i)
          BY <1>1, <1>2, <3>1, <4>2, <4>5 DEF JobStep, StartSend, SendAccepted,
             SendAborted, SendRejected, SendConflict, SendFailed, FailedSend,
             Retry, Reschedule, Defer, Fail, DbError
        <5> QED BY <1>0, <5>1 DEF Complete, TypeOK
      <4> QED BY <4>4, <4>5
    <3> QED BY <3>3, <3>4
  <2>4. CASE ~accepted[i]
    <3>1. PICK w \in Workers, j \in Ids : SendAccepted(w, j)
      <4>1. ASSUME NEW w \in Workers, RunStep(w) PROVE accepted' = accepted
        BY <4>1 DEF RunStep, Claim, ClaimEmpty, ClaimFails, ClaimLost, BatchDone,
           CleanupSkip, DeleteOldFailed, Poll, Stop, history
      <4>2. ASSUME NEW w \in Workers, NEW j \in Ids, JobStep(w, j),
                   ~SendAccepted(w, j)
            PROVE  accepted' = accepted
        BY <4>2 DEF JobStep, StartSend, SendAborted, SendRejected, SendConflict,
           SendFailed, FailedSend, Complete, Retry, Reschedule, Defer, Fail,
           DbError, history
      <4> QED BY <1>4, <2>4, <4>1, <4>2 DEF Next, vars, history, Enqueue, Cancel,
                 Crash, Restart, Tick
    <3>2. j = i
      BY <1>0, <1>4, <2>4, <3>1 DEF SendAccepted, TypeOK
    <3> QED BY <1>0, <3>1, <3>2 DEF SendAccepted, Record, TypeOK
  <2> QED BY <2>2, <2>3, <2>4
<1> QED BY <1>3, <1>4

\* As long as no process is stopped or dies, no conflict is reported and no
\* statement fails, a message that a Send delivered is never sent again, by any
\* replica.
THEOREM NothingIsSentTwice ==
  ASSUME Prompt, LeaseOutlasts
  PROVE  Spec => []NoDuplicateWithoutFault
<1>1. Init => LeaseInv /\ CalmInv
  BY InitLease DEF Init, CalmInv
<1>2. LeaseInv /\ CalmInv /\ [Next]_vars => (LeaseInv /\ CalmInv)'
  BY StepLease, StepCalm
<1>3. LeaseInv /\ CalmInv => NoDuplicateWithoutFault
  BY DEF LeaseInv, HandInv, CalmInv, NoDuplicateWithoutFault
<1> QED BY <1>1, <1>2, <1>3, PTL DEF Spec

-------------------------------------------------------------------------------
(* The budget of attempts *)

\* Nobody whose context is not done works on the row.
Abandoned(i) == \A w \in Workers : job[w][i] # "idle" => cancelled[w]

\* The attempts a row may have, faults included; one less where the next step of
\* the row is a claim.
Budget(i) ==
    /\ attempts[i] <= MaxAttempts + (MaxFaults - faults)
    /\ rowState[i] = "new" => attempts[i] = 0
    /\ rowState[i] = "pending" /\ Abandoned(i) =>
        attempts[i] < MaxAttempts + (MaxFaults - faults)

BudgetInv == \A i \in Ids : Budget(i)

\* Every step preserves the budget of every row.
LEMMA StepBudget ==
  ASSUME LeaseOutlasts, LeaseInv, BudgetInv, [Next]_vars, NEW i \in Ids
  PROVE  Budget(i)'
<1>0. /\ TypeOK /\ Budget(i) /\ attempts[i] \in Nat /\ faults \in Int
      /\ job \in [Workers -> [Ids -> JobStates]]
      /\ cancelled \in [Workers -> BOOLEAN]
  BY DEF LeaseInv, TypeOK, BudgetInv, Budget
<1>11. \A w \in Workers, j \in Ids : job[w][j] # "idle" =>
        pc[w] = "deliver" /\ rowState[j] = "pending" /\ j \notin Due
  BY InHand
<1> USE MaxAttemptsType, ConfigAssumption
\* A step that leaves the row alone, or resolves it.
<1>1. ASSUME attempts'[i] = attempts[i],
             rowState'[i] = rowState[i] \/ rowState'[i] \in {"failed", "gone"},
             faults' = faults,
             rowState[i] = "pending" /\ Abandoned(i)' => Abandoned(i)
      PROVE  Budget(i)'
  BY <1>0, <1>1 DEF Budget
\* A fault pays for one attempt more.
<1>2. ASSUME attempts'[i] = attempts[i],
             rowState'[i] = rowState[i] \/ rowState'[i] \in {"failed", "gone"},
             Fault
      PROVE  Budget(i)'
  BY <1>0, <1>2 DEF Budget, Fault
<1>3. ASSUME NEW j \in Ids, Enqueue(j) PROVE Budget(i)'
  <2>1. CASE j = i
    BY <1>0, <1>3, <2>1 DEF Enqueue, Budget, TypeOK
  <2>2. CASE j # i
    BY <1>0, <1>1, <1>3, <2>2 DEF Enqueue, Abandoned, TypeOK, jobVars, loopVars
  <2> QED BY <2>1, <2>2
\* The attempts of a row that is claimed.
<1>4. ASSUME NEW S \in SUBSET Due, ClaimRows(S), i \in S
      PROVE  /\ rowState[i] = "pending" /\ rowState'[i] = "pending"
             /\ attempts'[i] = attempts[i] + 1
             /\ attempts[i] < MaxAttempts + (MaxFaults - faults)
  <2>1. Abandoned(i)
    BY <1>11, <1>4 DEF Abandoned
  <2> QED BY <1>0, <1>4, <2>1 DEF ClaimRows, Take, Due, Budget
<1>5. ASSUME NEW w \in Workers, RunStep(w) PROVE Budget(i)'
  <2>1. CASE Claim(w)
    <3>1. PICK S \in (SUBSET Due) \ {{}} :
            /\ ClaimRows(S)
            /\ job' = [job EXCEPT ![w] =
                         [j \in Ids |-> IF j \in S THEN "queued" ELSE "idle"]]
      BY <2>1, ClaimParts
    <3>2. /\ faults' = faults /\ cancelled' = cancelled
          /\ ~cancelled[w] /\ pc[w] = "claim"
      BY <2>1 DEF Claim
    <3>3. CASE i \in S
      <4>1. job'[w][i] = "queued"
        BY <1>0, <3>1, <3>3
      <4>2. ~Abandoned(i)'
        BY <3>2, <4>1 DEF Abandoned
      <4> QED BY <1>0, <1>4, <3>1, <3>2, <3>3, <4>2 DEF Budget
    <3>4. CASE i \notin S
      <4>1. attempts'[i] = attempts[i] /\ rowState'[i] = rowState[i]
        BY <3>1, <3>4 DEF ClaimRows, Take
      <4>2. \A v \in Workers : job'[v][i] = job[v][i]
        BY <1>0, <1>11, <3>1, <3>2, <3>4
      <4> QED BY <1>1, <3>2, <4>1, <4>2 DEF Abandoned
    <3> QED BY <3>3, <3>4
  <2>2. CASE ClaimLost(w)
    <3>1. PICK S \in SUBSET Due : ClaimRows(S)
      BY <2>2, ClaimLostParts
    <3>2. Fault
      BY <2>2 DEF ClaimLost
    <3>3. CASE i \in S
      BY <1>0, <1>4, <3>1, <3>2, <3>3 DEF Budget, Fault
    <3>4. CASE i \notin S
      <4>1. attempts'[i] = attempts[i] /\ rowState'[i] = rowState[i]
        BY <3>1, <3>4 DEF ClaimRows, Take
      <4> QED BY <1>2, <3>2, <4>1
    <3> QED BY <3>3, <3>4
  <2>3. CASE ClaimFails(w)
    BY <1>1, <1>2, <2>3 DEF ClaimFails, AfterError, Abandoned, rowVars, jobVars
  <2>4. CASE DeleteOldFailed(w)
    <3>1. /\ faults' = faults /\ UNCHANGED <<job, cancelled>>
          /\ \/ attempts'[i] = attempts[i] /\ rowState'[i] = rowState[i]
             \/ attempts'[i] = 0 /\ rowState'[i] = "gone"
      BY <2>4 DEF DeleteOldFailed, AfterCleanup, jobVars
    <3> QED BY <1>0, <1>1, <3>1 DEF Budget, Abandoned
  <2> QED BY <1>1, <1>5, <2>1, <2>2, <2>3, <2>4 DEF RunStep, ClaimEmpty, BatchDone,
             CleanupSkip, AfterCleanup, Poll, Stop, Abandoned, rowVars, jobVars
<1>6. ASSUME NEW w \in Workers, NEW j \in Ids, JobStep(w, j) PROVE Budget(i)'
  <2>1. /\ job[w][j] # "idle" /\ cancelled' = cancelled
        /\ \E st \in JobStates : job' = [job EXCEPT ![w][j] = st]
        /\ faults' = faults \/ Fault
    BY <1>6 DEF JobStep, StartSend, SendAccepted, SendAborted, SendRejected,
       SendConflict, SendFailed, FailedSend, Complete, Retry, Reschedule, Defer,
       Fail, DbError, Record, Return, loopVars
  <2>2. CASE j # i
    <3>1. attempts'[i] = attempts[i] /\ rowState'[i] = rowState[i]
      BY <1>0, <1>6, <2>2 DEF JobStep, StartSend, SendAccepted, SendAborted,
         SendRejected, SendConflict, SendFailed, FailedSend, Complete, Retry,
         Reschedule, Defer, Fail, DbError, rowVars, TypeOK
    <3>2. \A v \in Workers : job'[v][i] = job[v][i]
      BY <1>0, <2>1, <2>2
    <3> QED BY <1>1, <1>2, <2>1, <3>1, <3>2 DEF Abandoned
  <2>3. CASE j = i
    <3>1. ASSUME NEW st \in JobStates \ {"idle"}, job' = [job EXCEPT ![w][i] = st],
                 UNCHANGED rowVars
          PROVE  Budget(i)'
      <4>1. Abandoned(i)' => Abandoned(i)
        <5>1. \A v \in Workers : job[v][i] # "idle" => job'[v][i] # "idle"
          BY <1>0, <3>1
        <5> QED BY <2>1, <5>1 DEF Abandoned
      <4> QED BY <1>1, <1>2, <2>1, <3>1, <4>1 DEF rowVars
    <3>2. CASE StartSend(w, i)
      BY <3>1, <3>2 DEF StartSend
    <3>3. CASE SendAccepted(w, i)
      BY <3>1, <3>3 DEF SendAccepted, Record
    <3>4. CASE SendRejected(w, i)
      BY <3>1, <3>4 DEF SendRejected, Record
    <3>5. CASE SendConflict(w, i)
      BY <3>1, <3>5 DEF SendConflict, Record
    <3>6. CASE SendFailed(w, i)
      BY <3>1, <3>6 DEF SendFailed, FailedSend, Record
    <3>7. ASSUME cancelled[w], UNCHANGED rowVars, faults' = faults
          PROVE  Budget(i)'
      <4>1. \A v \in Workers : v # w => job'[v][i] = job[v][i]
        BY <1>0, <2>1
      <4>2. Abandoned(i)' => Abandoned(i)
        BY <2>1, <3>7, <4>1 DEF Abandoned
      <4> QED BY <1>1, <3>7, <4>2 DEF rowVars
    <3>8. CASE SendAborted(w, i)
      BY <3>7, <3>8 DEF SendAborted
    <3>9. CASE DbError(w, i)
      BY <1>2, <3>7, <3>9 DEF DbError, rowVars
    <3>10. CASE Complete(w, i)
      BY <1>0, <3>10 DEF Complete, Budget, TypeOK
    <3>11. CASE Retry(w, i)
      <4>1. rowState[i] = "pending"
        BY <1>11, <2>1, <2>3
      <4>2. /\ attempts' = attempts /\ faults' = faults
            /\ rowState'[i] = IF attempts[i] >= MaxAttempts THEN "failed" ELSE "pending"
        BY <1>0, <3>11, <4>1 DEF Retry, Reschedule, TypeOK
      <4> QED BY <1>0, <4>1, <4>2 DEF Budget, TypeOK
    <3>12. CASE Defer(w, i)
      <4>1. rowState[i] = "pending"
        BY <1>11, <2>1, <2>3
      <4>2. /\ rowState' = rowState /\ faults' = faults
            /\ attempts'[i] = IF attempts[i] > 0 THEN attempts[i] - 1 ELSE 0
        BY <1>0, <3>12 DEF Defer, TypeOK
      <4> QED BY <1>0, <4>1, <4>2 DEF Budget, TypeOK
    <3>13. CASE Fail(w, i)
      <4>1. rowState[i] = "pending"
        BY <1>11, <2>1, <2>3
      <4>2. attempts' = attempts /\ faults' = faults /\ rowState'[i] = "failed"
        BY <1>0, <3>13, <4>1 DEF Fail, TypeOK
      <4> QED BY <1>0, <4>2 DEF Budget
    <3> QED BY <1>6, <2>3, <3>2, <3>3, <3>4, <3>5, <3>6, <3>8, <3>9, <3>10,
               <3>11, <3>12, <3>13 DEF JobStep
  <2> QED BY <2>2, <2>3
<1>7. ASSUME NEW w \in Workers, Restart(w) PROVE Budget(i)'
  <2>1. /\ pc[w] # "deliver" /\ UNCHANGED <<job, attempts, rowState, faults>>
        /\ cancelled' = [cancelled EXCEPT ![w] = FALSE]
    BY <1>7 DEF Restart, jobVars, rowVars
  <2>2. \A v \in Workers : v # w => cancelled'[v] = cancelled[v]
    BY <1>0, <2>1
  <2>3. Abandoned(i)' => Abandoned(i)
    BY <1>11, <2>1, <2>2 DEF Abandoned
  <2> QED BY <1>1, <2>1, <2>3
<1>8. ASSUME NEW w \in Workers, Cancel(w) \/ Crash(w) PROVE Budget(i)'
  BY <1>2, <1>8 DEF Cancel, Crash, rowVars
<1>9. CASE Tick
  BY <1>1, <1>9 DEF Tick, Abandoned, loopVars
<1>10. CASE UNCHANGED vars
  BY <1>1, <1>10 DEF vars, rowVars, loopVars, jobVars, Abandoned
<1> QED BY <1>3, <1>5, <1>6, <1>7, <1>8, <1>9, <1>10 DEF Next

\* While the leases hold, the attempts of a row exceed max_attempts by at most
\* the number of faults: every lost batch, aborted send and failed statement costs
\* one, and nothing else does.
THEOREM AttemptsAreBudgeted ==
  ASSUME Prompt, LeaseOutlasts
  PROVE  Spec => []AttemptsBudget
<1>1. Init => LeaseInv /\ BudgetInv
  BY InitLease, MaxAttemptsType, ConfigAssumption DEF Init, BudgetInv, Budget
<1>2. LeaseInv /\ BudgetInv /\ [Next]_vars => (LeaseInv /\ BudgetInv)'
  BY StepLease, StepBudget DEF BudgetInv
<1>3. BudgetInv => AttemptsBudget
  BY DEF BudgetInv, Budget, AttemptsBudget
<1> QED BY <1>1, <1>2, <1>3, PTL DEF Spec

-------------------------------------------------------------------------------
(* The contract with the producer *)

\* Every step of the outbox is a step of the contract or none: Enqueue submits,
\* SendAccepted delivers, Complete settles, Retry and Fail give up, the cleanup
\* purges.
LEMMA StepContract ==
  ASSUME LeaseOutlasts, LossInv, LeaseInv, [Next]_vars
  PROVE  [Contract!Next]_<<rowState, accepted>>
<1>0. rowState \in [Ids -> RowStates] /\ accepted \in [Ids -> BOOLEAN]
  BY DEF LeaseInv, TypeOK
<1>1. ASSUME NEW i \in Ids, Enqueue(i) PROVE Contract!Next
  <2>1. Contract!Submit(i)
    BY <1>1 DEF Enqueue, Contract!Submit, history
  <2> QED BY <2>1 DEF Contract!Next
<1>2. ASSUME NEW w \in Workers, RunStep(w)
      PROVE  Contract!Next \/ UNCHANGED <<rowState, accepted>>
  <2>1. CASE DeleteOldFailed(w)
    <3> DEFINE old == {i \in Ids : /\ rowState[i] = "failed"
                                   /\ failedAge[i] > Seconds(FailedRetention)}
    <3>1. Contract!Purge(old)
      BY <2>1 DEF DeleteOldFailed, Contract!Purge, history
    <3>2. old \in SUBSET Ids
      OBVIOUS
    <3> QED BY <3>1, <3>2 DEF Contract!Next
  <2> QED BY <1>2, <2>1 DEF RunStep, Claim, ClaimEmpty, ClaimFails, ClaimLost,
             ClaimRows, Take, BatchDone, CleanupSkip, Poll, Stop, rowVars, history
<1>3. ASSUME NEW w \in Workers, NEW i \in Ids, JobStep(w, i)
      PROVE  Contract!Next \/ UNCHANGED <<rowState, accepted>>
  <2>1. job[w][i] # "idle" => rowState[i] = "pending"
    BY InHand
  <2>2. CASE SendAccepted(w, i)
    <3>1. Contract!Deliver(i)
      BY <2>1, <2>2 DEF SendAccepted, Contract!Deliver, rowVars
    <3> QED BY <3>1 DEF Contract!Next
  <2>3. CASE Complete(w, i)
    <3>1. accepted[i]
      BY <2>3 DEF Complete, LossInv, JobsHonest
    <3>2. Contract!Settle(i)
      BY <2>1, <2>3, <3>1 DEF Complete, Contract!Settle, history
    <3> QED BY <3>2 DEF Contract!Next, Contract!Resolve
  <2>4. CASE Retry(w, i)
    <3>1. accepted' = accepted /\ rowState[i] = "pending"
      BY <2>1, <2>4 DEF Retry, Reschedule, history
    <3>2. CASE attempts[i] >= MaxAttempts
      <4>1. Contract!GiveUp(i)
        BY <1>0, <2>4, <3>1, <3>2 DEF Retry, Reschedule, Contract!GiveUp
      <4> QED BY <4>1 DEF Contract!Next, Contract!Resolve
    <3>3. CASE ~(attempts[i] >= MaxAttempts)
      <4>1. rowState' = [rowState EXCEPT ![i] = "pending"]
        BY <1>0, <2>4, <3>1, <3>3 DEF Retry, Reschedule
      <4>2. rowState' = rowState
        BY <1>0, <3>1, <4>1
      <4> QED BY <3>1, <4>2
    <3> QED BY <3>2, <3>3
  <2>5. CASE Fail(w, i)
    <3>1. Contract!GiveUp(i)
      BY <1>0, <2>1, <2>5 DEF Fail, Contract!GiveUp, history
    <3> QED BY <3>1 DEF Contract!Next, Contract!Resolve
  <2> QED BY <1>3, <2>2, <2>3, <2>4, <2>5 DEF JobStep, StartSend, SendAborted,
             SendRejected, SendConflict, SendFailed, FailedSend, Defer, DbError,
             rowVars, history
<1> QED BY <1>1, <1>2, <1>3 DEF Next, vars, rowVars, history, Cancel, Crash,
           Restart, Tick

\* While the leases hold, table, statements, goroutines and replicas together
\* implement the contract: an enqueued message is owed until it is delivered or
\* given up on, and giving up is final.
THEOREM OutboxKeepsItsContract ==
  ASSUME Prompt, LeaseOutlasts
  PROVE  Spec => ImplementsContract
<1>1. Init => LossInv /\ LeaseInv /\ Contract!Init
  BY InitLoss, InitLease DEF Init, Contract!Init
<1>2. LossInv /\ LeaseInv /\ [Next]_vars => (LossInv /\ LeaseInv)'
  BY StepLoss, StepLease
<1>3. LossInv /\ LeaseInv /\ [Next]_vars => [Contract!Next]_(Contract!vars)
  BY StepContract DEF Contract!vars
<1> QED BY <1>1, <1>2, <1>3, PTL DEF Spec, ImplementsContract, Contract!SafeSpec

===============================================================================
