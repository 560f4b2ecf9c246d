-------------------------- MODULE RegistrationProofs --------------------------
(***************************************************************************)
(* Proofs about Registration, for every set of requests and keys, finite   *)
(* or not, every size of the pool and every number of slots.               *)
(***************************************************************************)
EXTENDS Registration, FiniteSetTheorems, TLAPS

-------------------------------------------------------------------------------
(* Types *)

MessageStates == {"new", "pending", "failed", "gone"}

TypeOK ==
    /\ ctxDone \in [Requests -> BOOLEAN]
    /\ delivered \in [Requests -> BOOLEAN]
    /\ hash \in [Requests -> HashStates]
    /\ waiters \in Seq(Requests)
    /\ used \in Int
    /\ tx \in [Requests -> TxStates]
    /\ answer \in [Requests -> Answers]
    /\ conn \in [Requests -> BOOLEAN]
    /\ cut \in [Requests -> Cuts]
    /\ session \in [Requests -> Sessions]
    /\ wrote \in [Requests -> SUBSET {"row", "message"}]
    /\ rowOf \in [Keys -> Requests \cup {NoTx}]
    /\ outbox \in [Requests -> MessageStates]

USE DEF MessageStates, HashStates, TxStates, Answers, Cuts, Sessions

\* The list stays one of requests when a waiter leaves it.
LEMMA LeavesType ==
  ASSUME waiters \in Seq(Requests), NEW c \in Requests, Leaves(c)
  PROVE  waiters' \in Seq(Requests)
<1>1. PICK i \in 1..Len(waiters) :
        waiters[i] = c /\ waiters' = RemoveAt(waiters, i)
  BY DEF Leaves
<1>2. SubSeq(waiters, 1, i - 1) \in Seq(Requests)
  OBVIOUS
<1>3. SubSeq(waiters, i + 1, Len(waiters)) \in Seq(Requests)
  OBVIOUS
<1> QED BY <1>1, <1>2, <1>3 DEF RemoveAt


\* Init establishes the types of the variables.
LEMMA InitType == Init => TypeOK
  BY KeysAssumption DEF Init, HashInit, TxInit, TypeOK

\* Every call of the hasher preserves the types.
LEMMA HashingType ==
  ASSUME TypeOK, NEW r \in Requests, Hashing(r)
  PROVE  TypeOK'
<1> USE DEF TypeOK, txVars, dbVars
<1>1. ASSUME NEW result \in HashStates, Release(r, result)
      PROVE  hash' \in [Requests -> HashStates]
             /\ waiters' \in Seq(Requests) /\ used' \in Int
  <2>1. CASE waiters = <<>>
    BY <1>1, <2>1 DEF Release
  <2>2. CASE waiters # <<>>
    <3>1. Head(waiters) \in Requests /\ Tail(waiters) \in Seq(Requests)
      BY <2>2
    <3>2. hash' = [hash EXCEPT ![r] = result, ![Head(waiters)] = "granted"]
      BY <1>1, <2>2 DEF Release
    <3>3. hash' \in [Requests -> HashStates]
      BY <3>1, <3>2
    <3> QED BY <1>1, <2>2, <3>1, <3>3 DEF Release
  <2> QED BY <2>1, <2>2
<1>2. hash' \in [Requests -> HashStates]
      /\ waiters' \in Seq(Requests) /\ used' \in Int
  <2>1. CASE AcquireRefused(r) \/ AcquireNow(r) \/ AcquireWaits(r)
    <3>1. CASE AcquireRefused(r)
      BY <3>1 DEF AcquireRefused
    <3>2. CASE AcquireNow(r)
      BY <3>2 DEF AcquireNow
    <3>3. CASE AcquireWaits(r)
      BY <3>3 DEF AcquireWaits
    <3> QED BY <2>1, <3>1, <3>2, <3>3
  <2>2. CASE GiveUp(r)
    BY <2>2, LeavesType DEF GiveUp
  <2>3. CASE Granted(r)
    BY <2>3, <1>1 DEF Granted
  <2>4. ASSUME NEW results \in SUBSET HashStates, Compute(r, results)
        PROVE  hash' \in [Requests -> HashStates]
               /\ waiters' \in Seq(Requests) /\ used' \in Int
    <3>1. PICK result \in results : Release(r, result)
      BY <2>4 DEF Compute
    <3> QED BY <3>1, <1>1
  <2> QED BY <2>1, <2>2, <2>3, <2>4
          DEF Hashing, HashStep, HashResults, VerifyResults
<1> QED BY <1>2 DEF Hashing

\* Every step of InTx and of the server preserves the types.
LEMMA InTxType ==
  ASSUME TypeOK, NEW r \in Requests, InTxStep(r)
  PROVE  TypeOK'
<1> USE KeysAssumption
    DEF TypeOK, InTxStep, hashVars, txVars, dbVars, Leave, SessionEnds,
        CommitReturns, Applied
<1>1. CASE Progress(r)
  <2>1. CASE Begin(r)
    BY <2>1 DEF Begin
  <2>2. CASE Insert(r)
    BY <2>2 DEF Insert
  <2>3. CASE InsertConflicts(r)
    <3>1. tx' \in [Requests -> TxStates] /\ answer' \in [Requests -> Answers]
      <4>1. CASE Leave(r, "refused")
        BY <4>1
      <4>2. CASE tx' = [tx EXCEPT ![r] = "enqueue"] /\ UNCHANGED answer
        BY <4>2
      <4> QED BY <2>3, <4>1, <4>2 DEF InsertConflicts
    <3> QED BY <2>3, <3>1 DEF InsertConflicts
  <2>4. CASE Enqueue(r)
    BY <2>4 DEF Enqueue
  <2>5. CASE StatementFails(r)
    BY <2>5 DEF StatementFails
  <2>6. CASE Commit(r)
    BY <2>6 DEF Commit
  <2>7. CASE CommitRollsBack(r)
    BY <2>7 DEF CommitRollsBack
  <2>8. CASE CommitNotSent(r)
    BY <2>8 DEF CommitNotSent
  <2>9. CASE Rollback(r)
    <3>1. CASE cut[r] # "no"
      BY <2>9, <3>1 DEF Rollback
    <3>2. CASE cut[r] = "no"
      BY <2>9, <3>2 DEF Rollback
    <3> QED BY <3>1, <3>2
  <2> QED BY <1>1, <2>1, <2>2, <2>3, <2>4, <2>5, <2>6, <2>7, <2>8, <2>9 DEF Progress
<1>2. CASE Misfortune(r)
  <2>1. CASE BeginFails(r)
    BY <2>1 DEF BeginFails
  <2>2. CASE FnFails(r)
    BY <2>2 DEF FnFails
  <2>3. CASE Interrupted(r)
    BY <2>3 DEF Interrupted
  <2>4. CASE CommitUnknown(r)
    BY <2>4 DEF CommitUnknown
  <2> QED BY <1>2, <2>1, <2>2, <2>3, <2>4 DEF Misfortune
<1>3. CASE ServerStep(r)
  <2>1. CASE ServerNotices(r)
    BY <2>1 DEF ServerNotices
  <2>2. CASE ServerDecides(r)
    BY <2>2 DEF ServerDecides
  <2> QED BY <1>3, <2>1, <2>2 DEF ServerStep
<1> QED BY <1>1, <1>2, <1>3

\* Every step preserves the types.
LEMMA StepType == TypeOK /\ [Next]_vars => TypeOK'
<1> SUFFICES ASSUME TypeOK, [Next]_vars PROVE TypeOK'
  OBVIOUS
<1> USE DEF TypeOK, hashVars, txVars, dbVars
<1>1. ASSUME NEW r \in Requests, Arrive(r) \/ CallInTx(r) \/ Cancel(r)
      PROVE  TypeOK'
  <2>1. CASE Arrive(r)
    BY <2>1 DEF Arrive
  <2>2. CASE CallInTx(r)
    BY <2>2 DEF CallInTx
  <2>3. CASE Cancel(r)
    BY <2>3 DEF Cancel
  <2> QED BY <1>1, <2>1, <2>2, <2>3
<1>2. CASE OutboxStep
  <2>1. ASSUME NEW r \in Requests, Contract!Deliver(r) PROVE TypeOK'
    BY <1>2, <2>1 DEF OutboxStep, Contract!Deliver
  <2>2. ASSUME NEW r \in Requests, Contract!Resolve(r) PROVE TypeOK'
    BY <1>2, <2>2
       DEF OutboxStep, Contract!Resolve, Contract!Settle, Contract!GiveUp
  <2>3. ASSUME NEW S \in SUBSET Requests, Contract!Purge(S) PROVE TypeOK'
    BY <1>2, <2>3 DEF OutboxStep, Contract!Purge
  <2> QED BY <1>2, <2>1, <2>2, <2>3 DEF OutboxStep
<1>3. CASE UNCHANGED vars
  BY <1>3 DEF vars
<1> QED BY <1>1, <1>2, <1>3, HashingType, InTxType DEF Next

-------------------------------------------------------------------------------
(* The slots of the hasher *)

Holding == {r \in Requests : hash[r] \in {"granted", "works"}}

\* HashesBounded is not inductive: the count of the semaphore has to be the
\* number of those that hold a slot, woken waiters included, and nobody may be
\* in the list who does not wait, or be in it twice.
SlotInv ==
    /\ IsFiniteSet(Holding)
    /\ used = Cardinality(Holding)
    /\ used <= Slots
    /\ \A i \in DOMAIN waiters : hash[waiters[i]] = "waits"
    /\ \A i, j \in DOMAIN waiters : waiters[i] = waiters[j] => i = j

\* There is at least one slot.
LEMMA SlotsType == Slots \in Nat /\ Slots > 0
  BY SlotsAssumption DEF Slots

\* What a list is without the element at i: the elements after it move up.
LEMMA LeavesList ==
  ASSUME waiters \in Seq(Requests), NEW c \in Requests, Leaves(c)
  PROVE  \E i \in 1..Len(waiters) :
            /\ waiters[i] = c
            /\ DOMAIN waiters' = 1..(Len(waiters) - 1)
            /\ \A k \in DOMAIN waiters' :
                waiters'[k] = IF k < i THEN waiters[k] ELSE waiters[k + 1]
<1>1. PICK i \in 1..Len(waiters) :
        waiters[i] = c /\ waiters' = RemoveAt(waiters, i)
  BY DEF Leaves
<1> DEFINE s == SubSeq(waiters, 1, i - 1)
           t == SubSeq(waiters, i + 1, Len(waiters))
<1>2. s \in Seq(Requests) /\ Len(s) = i - 1
      /\ \A k \in 1..(i - 1) : s[k] = waiters[k]
  OBVIOUS
<1>3. t \in Seq(Requests) /\ Len(t) = Len(waiters) - i
      /\ \A k \in 1..(Len(waiters) - i) : t[k] = waiters[k + i]
  OBVIOUS
<1>4. waiters' = s \o t
  BY <1>1 DEF RemoveAt
<1> HIDE DEF s, t
<1>5. DOMAIN waiters' = 1..(Len(waiters) - 1)
  BY <1>2, <1>3, <1>4
<1>6. \A k \in 1..(Len(waiters) - 1) :
        waiters'[k] = IF k < i THEN waiters[k] ELSE waiters[k + 1]
  BY <1>2, <1>3, <1>4
<1> QED BY <1>1, <1>5, <1>6

\* Init: nobody holds a slot.
LEMMA InitSlot == Init => SlotInv
<1> SUFFICES ASSUME Init PROVE SlotInv
  OBVIOUS
<1>1. Holding = {}
  BY DEF Init, HashInit, Holding
<1> QED BY <1>1, FS_EmptySet, SlotsType DEF Init, HashInit, SlotInv

\* Release hands the slot of its caller to the first waiter, or frees it.
LEMMA ReleaseSlot ==
  ASSUME TypeOK, SlotInv, NEW r \in Requests, r \in Holding,
         NEW result \in HashStates \ {"granted", "works"}, Release(r, result)
  PROVE  SlotInv'
<1> USE DEF TypeOK
<1>1. CASE waiters = <<>>
  <2>1. Holding' = Holding \ {r}
    BY <1>1 DEF Release, Holding
  <2>2. used' = used - 1 /\ waiters' = <<>>
    BY <1>1 DEF Release
  <2> QED BY <2>1, <2>2, FS_RemoveElement, SlotsType DEF SlotInv
<1>2. CASE waiters # <<>>
  <2> DEFINE h == Head(waiters)
  <2>1. h \in Requests /\ h = waiters[1] /\ 1 \in DOMAIN waiters
    BY <1>2
  <2>2. hash[h] = "waits" /\ h \notin Holding
    BY <2>1 DEF SlotInv, Holding
  <2>3. h # r
    BY <2>2
  <2>4. /\ hash' = [hash EXCEPT ![r] = result, ![h] = "granted"]
        /\ waiters' = Tail(waiters)
        /\ used' = used
    BY <1>2 DEF Release
  <2> HIDE DEF h
  <2>5. Holding' = (Holding \ {r}) \cup {h}
    BY <2>1, <2>3, <2>4 DEF Holding
  <2>6. IsFiniteSet(Holding \ {r})
        /\ Cardinality(Holding \ {r}) = Cardinality(Holding) - 1
    BY FS_RemoveElement DEF SlotInv
  <2>7. IsFiniteSet(Holding') /\ Cardinality(Holding') = Cardinality(Holding)
    <3>1. h \notin Holding \ {r} /\ Cardinality(Holding) \in Int
      BY <2>2 DEF SlotInv
    <3>2. IsFiniteSet((Holding \ {r}) \cup {h})
          /\ Cardinality((Holding \ {r}) \cup {h}) = Cardinality(Holding \ {r}) + 1
      BY <2>6, <3>1, FS_AddElement
    <3> QED BY <2>5, <2>6, <3>1, <3>2
  <2>8. /\ DOMAIN waiters' = 1..(Len(waiters) - 1)
        /\ \A k \in DOMAIN waiters' : waiters'[k] = waiters[k + 1]
                                      /\ k + 1 \in DOMAIN waiters
                                      /\ k + 1 # 1
    BY <1>2, <2>4
  <2>9. \A k \in DOMAIN waiters' : waiters'[k] # h /\ waiters'[k] # r
    BY <2>1, <2>8 DEF SlotInv, Holding
  <2>10. \A k \in DOMAIN waiters' : hash'[waiters'[k]] = "waits"
    BY <2>4, <2>8, <2>9 DEF SlotInv
  <2>11. \A j, k \in DOMAIN waiters' : waiters'[j] = waiters'[k] => j = k
    BY <2>8 DEF SlotInv
  <2> QED BY <2>4, <2>7, <2>10, <2>11 DEF SlotInv
<1> QED BY <1>1, <1>2

\* A call of Hash or Verify preserves the invariant of the slots.
LEMMA HashingSlot ==
  ASSUME TypeOK, SlotInv, NEW r \in Requests, Hashing(r)
  PROVE  SlotInv'
<1> USE DEF TypeOK
<1>1. CASE AcquireRefused(r)
  <2>1. Holding' = Holding
    BY <1>1 DEF AcquireRefused, Holding
  <2> QED BY <1>1, <2>1 DEF AcquireRefused, SlotInv
<1>2. CASE AcquireNow(r)
  <2>1. Holding' = Holding \cup {r} /\ r \notin Holding
    BY <1>2 DEF AcquireNow, Holding
  <2>2. IsFiniteSet(Holding') /\ Cardinality(Holding') = Cardinality(Holding) + 1
    BY <2>1, FS_AddElement DEF SlotInv
  <2> QED BY <1>2, <2>2, SlotsType DEF AcquireNow, SlotInv
<1>3. CASE AcquireWaits(r)
  <2>1. Holding' = Holding
    BY <1>3 DEF AcquireWaits, Holding
  <2>2. \A i \in DOMAIN waiters : waiters[i] # r
    BY <1>3 DEF AcquireWaits, SlotInv
  <2>3. /\ DOMAIN waiters' = 1..(Len(waiters) + 1)
        /\ waiters'[Len(waiters) + 1] = r
        /\ \A k \in 1..Len(waiters) : waiters'[k] = waiters[k]
        /\ hash' = [hash EXCEPT ![r] = "waits"]
        /\ used' = used
    BY <1>3 DEF AcquireWaits
  <2> DEFINE n == Len(waiters)
  <2>4. n \in Nat /\ DOMAIN waiters = 1..n /\ DOMAIN waiters' = 1..(n + 1)
    BY <2>3
  <2>5. /\ waiters'[n + 1] = r
        /\ \A k \in 1..n : waiters'[k] = waiters[k] /\ waiters[k] \in Requests
    BY <2>3
  <2> HIDE DEF n
  <2>6. \A k \in DOMAIN waiters' : k = n + 1 \/ k \in 1..n
    BY <2>4
  <2>7. \A k \in DOMAIN waiters' : hash'[waiters'[k]] = "waits"
    <3>1. hash'[r] = "waits"
      BY <2>3
    <3>2. \A k \in 1..n : hash'[waiters[k]] = "waits"
      BY <2>2, <2>3, <2>4, <2>5 DEF SlotInv
    <3> QED BY <2>5, <2>6, <3>1, <3>2
  <2>8. \A j, k \in 1..n : waiters[j] = waiters[k] => j = k
    BY <2>4 DEF SlotInv
  <2>9. \A j, k \in DOMAIN waiters' : waiters'[j] = waiters'[k] => j = k
    BY ONLY <2>2, <2>4, <2>5, <2>6, <2>8
  <2> QED BY <2>1, <2>3, <2>7, <2>9 DEF SlotInv
<1>4. CASE GiveUp(r)
  <2>1. Holding' = Holding
    BY <1>4 DEF GiveUp, Holding
  <2>2. PICK i \in 1..Len(waiters) :
            /\ waiters[i] = r
            /\ DOMAIN waiters' = 1..(Len(waiters) - 1)
            /\ \A k \in DOMAIN waiters' :
                waiters'[k] = IF k < i THEN waiters[k] ELSE waiters[k + 1]
    BY <1>4, LeavesList DEF GiveUp
  <2>3. hash' = [hash EXCEPT ![r] = "busy"] /\ used' = used
    BY <1>4 DEF GiveUp
  <2>4. \A k \in DOMAIN waiters' : waiters'[k] # r
    BY <2>2 DEF SlotInv
  <2>5. \A k \in DOMAIN waiters' : hash'[waiters'[k]] = "waits"
    BY <2>2, <2>3, <2>4 DEF SlotInv
  <2>6. \A j, k \in DOMAIN waiters' : waiters'[j] = waiters'[k] => j = k
    <3> DEFINE was(k) == IF k < i THEN k ELSE k + 1
    <3>1. \A k \in 1..(Len(waiters) - 1) :
            was(k) \in DOMAIN waiters /\ waiters'[k] = waiters[was(k)]
      <4>1. DOMAIN waiters = 1..Len(waiters) /\ Len(waiters) \in Nat
        OBVIOUS
      <4>2. \A k \in 1..(Len(waiters) - 1) : was(k) \in 1..Len(waiters)
        BY ONLY <4>1
      <4>3. \A k \in 1..(Len(waiters) - 1) : waiters'[k] = waiters[was(k)]
        BY ONLY <2>2, Zenon
      <4> QED BY ONLY <4>1, <4>2, <4>3, Zenon
    <3>2. \A j, k \in 1..(Len(waiters) - 1) : was(j) = was(k) => j = k
      OBVIOUS
    <3> HIDE DEF was
    <3>3. \A j, k \in DOMAIN waiters : waiters[j] = waiters[k] => j = k
      BY DEF SlotInv
    <3>4. DOMAIN waiters' = 1..(Len(waiters) - 1)
      BY <2>2
    <3> QED BY ONLY <3>1, <3>2, <3>3, <3>4, Zenon
  <2> QED BY <2>1, <2>3, <2>5, <2>6 DEF SlotInv
<1>5. CASE Granted(r)
  <2>1. r \in Holding
    BY <1>5 DEF Granted, Holding
  <2>2. CASE ctxDone[r]
    BY <1>5, <2>1, <2>2, ReleaseSlot DEF Granted
  <2>3. CASE ~ctxDone[r]
    <3>1. hash' = [hash EXCEPT ![r] = "works"] /\ UNCHANGED <<waiters, used>>
      BY <1>5, <2>3 DEF Granted
    <3>2. Holding' = Holding
      BY <2>1, <3>1 DEF Holding
    <3>3. \A k \in DOMAIN waiters' : hash'[waiters'[k]] = "waits"
      BY <2>1, <3>1 DEF SlotInv, Holding
    <3> QED BY <3>1, <3>2, <3>3 DEF SlotInv
  <2> QED BY <2>2, <2>3
<1>6. ASSUME NEW results \in SUBSET {"ok", "failed"}, Compute(r, results)
      PROVE  SlotInv'
  <2>1. r \in Holding
    BY <1>6 DEF Compute, Holding
  <2>2. PICK result \in results : Release(r, result)
    BY <1>6 DEF Compute
  <2> QED BY <2>1, <2>2, ReleaseSlot
<1> QED BY <1>1, <1>2, <1>3, <1>4, <1>5, <1>6
        DEF Hashing, HashStep, HashResults, VerifyResults

\* Every step preserves the invariant of the slots.
LEMMA StepSlot == TypeOK /\ SlotInv /\ [Next]_vars => SlotInv'
<1> SUFFICES ASSUME TypeOK, SlotInv, [Next]_vars PROVE SlotInv'
  OBVIOUS
<1>1. ASSUME NEW r \in Requests, Arrive(r) PROVE SlotInv'
  <2>1. Holding' = Holding
    BY <1>1 DEF Arrive, Holding, TypeOK
  <2>2. \A k \in DOMAIN waiters : hash'[waiters[k]] = "waits"
    BY <1>1 DEF Arrive, SlotInv, TypeOK
  <2> QED BY <1>1, <2>1, <2>2 DEF Arrive, SlotInv
<1>2. CASE UNCHANGED hashVars
  BY <1>2 DEF hashVars, SlotInv, Holding
<1> QED BY <1>1, <1>2, HashingSlot
        DEF Next, vars, CallInTx, InTxStep, Cancel, OutboxStep

\* However contexts end, in the queue or after the slot was granted: never do
\* more calls of argon2 run at once than the semaphore has slots.
THEOREM MemoryIsBounded == Spec => []HashesBounded
<1>1. TypeOK /\ SlotInv => HashesBounded
  <2> SUFFICES ASSUME TypeOK, SlotInv PROVE HashesBounded
    OBVIOUS
  <2>1. {r \in Requests : hash[r] = "works"} \in SUBSET Holding
    BY DEF Holding
  <2>2. Cardinality({r \in Requests : hash[r] = "works"}) <= Cardinality(Holding)
    BY <2>1, FS_Subset DEF SlotInv
  <2>3. Cardinality({r \in Requests : hash[r] = "works"}) \in Nat
    BY <2>1, FS_Subset, FS_CardinalityType DEF SlotInv
  <2> QED BY <2>2, <2>3, SlotsType DEF SlotInv, HashesBounded, TypeOK
<1> QED BY <1>1, InitType, StepType, InitSlot, StepSlot, PTL DEF Spec

-------------------------------------------------------------------------------
(* The transactions *)

Stored(t) == rowOf[KeyOf[t]] = t

\* Where InTx is tells what it has in hand and what it will return.
PlaceInv ==
    \A t \in Requests :
        /\ conn[t] <=> tx[t] \in {"insert", "enqueue", "commit", "rollback"}
        /\ tx[t] \in {"none", "begin"} => session[t] = "none" /\ cut[t] = "no"
        /\ tx[t] = "rollback" => answer[t] \in {"refused", "panic"}
        /\ answer[t] # "none" => tx[t] \in {"rollback", "over"}
        /\ tx[t] = "over" => answer[t] # "none"
        /\ tx[t] = "over" /\ cut[t] = "no" => session[t] = "none"
        /\ cut[t] = "dropped" => tx[t] = "over" /\ answer[t] = "commitError"
        /\ session[t] = "committing" => tx[t] = "over" /\ answer[t] = "commitError"

\* Where InTx is tells what its transaction has written, while it can still be
\* used; a failed transaction and one that is over have written nothing.
WroteInv ==
    \A t \in Requests :
        /\ session[t] \in {"none", "aborted"} => wrote[t] = {}
        /\ tx[t] \in {"none", "begin", "insert"} => wrote[t] = {}
        /\ tx[t] = "enqueue" /\ session[t] = "open" /\ cut[t] = "no"
             => wrote[t] = {"row"}
        /\ tx[t] = "commit" /\ session[t] = "open" /\ cut[t] = "no"
             => wrote[t] = {"row", "message"}
        /\ session[t] = "committing" => wrote[t] = {"row", "message"}

\* The unique index: a transaction that wrote its row is the only one with that
\* key, and no row with that key is committed.
KeyInv ==
    \A t \in Requests : "row" \in wrote[t] =>
        /\ rowOf[KeyOf[t]] = NoTx
        /\ \A u \in Requests :
            "row" \in wrote[u] /\ KeyOf[u] = KeyOf[t] => u = t

\* What is committed came with its message, and its client was told so or was
\* told of an error of Commit.
StoredInv ==
    \A t \in Requests :
        /\ Stored(t) <=> outbox[t] # "new"
        /\ Stored(t) => /\ tx[t] = "over" /\ session[t] = "none"
                        /\ answer[t] \in {"nil", "commitError"}
        /\ answer[t] = "nil" => Stored(t)

\* AnswerMatchesDatabase is not inductive: what a COMMIT makes visible was
\* decided by the statements before it, and whether a row may be written by
\* the other transactions.
TxInv == PlaceInv /\ WroteInv /\ KeyInv /\ StoredInv

\* Init: nothing is begun and nothing stored.
LEMMA InitTxInv == Init => TxInv
  BY KeysAssumption
     DEF Init, TxInit, TxInv, PlaceInv, WroteInv, KeyInv, StoredInv, Stored

\* A step of InTx or of the server preserves what the place of InTx tells.
LEMMA InTxPlace ==
  ASSUME TypeOK, PlaceInv, NEW r \in Requests, InTxStep(r)
  PROVE  PlaceInv'
<1> USE DEF TypeOK, PlaceInv, Usable, Leave, SessionEnds, CommitReturns
<1>1. CASE Progress(r)
  <2>1. CASE Begin(r)
    BY <2>1 DEF Begin
  <2>2. CASE Insert(r)
    BY <2>2 DEF Insert
  <2>3. CASE InsertConflicts(r)
    BY <2>3 DEF InsertConflicts
  <2>4. CASE Enqueue(r)
    BY <2>4 DEF Enqueue
  <2>5. CASE StatementFails(r)
    BY <2>5 DEF StatementFails
  <2>6. CASE Commit(r)
    BY <2>6 DEF Commit
  <2>7. CASE CommitRollsBack(r)
    BY <2>7 DEF CommitRollsBack
  <2>8. CASE CommitNotSent(r)
    BY <2>8 DEF CommitNotSent
  <2>9. CASE Rollback(r)
    BY <2>9 DEF Rollback
  <2> QED BY <1>1, <2>1, <2>2, <2>3, <2>4, <2>5, <2>6, <2>7, <2>8, <2>9 DEF Progress
<1>2. CASE Misfortune(r)
  <2>1. CASE BeginFails(r)
    BY <2>1 DEF BeginFails
  <2>2. CASE FnFails(r)
    BY <2>2 DEF FnFails
  <2>3. CASE Interrupted(r)
    BY <2>3 DEF Interrupted
  <2>4. CASE CommitUnknown(r)
    BY <2>4 DEF CommitUnknown
  <2> QED BY <1>2, <2>1, <2>2, <2>3, <2>4 DEF Misfortune
<1>3. CASE ServerStep(r)
  <2>1. CASE ServerNotices(r)
    BY <2>1 DEF ServerNotices
  <2>2. CASE ServerDecides(r)
    BY <2>2 DEF ServerDecides
  <2> QED BY <1>3, <2>1, <2>2 DEF ServerStep
<1> QED BY <1>1, <1>2, <1>3 DEF InTxStep

\* A step of InTx or of the server preserves what its place tells of what was
\* written.
LEMMA InTxWrote ==
  ASSUME TypeOK, PlaceInv, WroteInv, NEW r \in Requests, InTxStep(r)
  PROVE  WroteInv'
<1> USE DEF TypeOK, PlaceInv, WroteInv, Usable, Leave, SessionEnds, CommitReturns
<1>1. CASE Progress(r)
  <2>1. CASE Begin(r)
    BY <2>1 DEF Begin
  <2>2. CASE Insert(r)
    BY <2>2 DEF Insert
  <2>3. CASE InsertConflicts(r)
    BY <2>3 DEF InsertConflicts
  <2>4. CASE Enqueue(r)
    BY <2>4 DEF Enqueue
  <2>5. CASE StatementFails(r)
    BY <2>5 DEF StatementFails
  <2>6. CASE Commit(r)
    BY <2>6 DEF Commit
  <2>7. CASE CommitRollsBack(r)
    BY <2>7 DEF CommitRollsBack
  <2>8. CASE CommitNotSent(r)
    BY <2>8 DEF CommitNotSent
  <2>9. CASE Rollback(r)
    BY <2>9 DEF Rollback
  <2> QED BY <1>1, <2>1, <2>2, <2>3, <2>4, <2>5, <2>6, <2>7, <2>8, <2>9 DEF Progress
<1>2. CASE Misfortune(r)
  <2>1. CASE BeginFails(r)
    BY <2>1 DEF BeginFails
  <2>2. CASE FnFails(r)
    BY <2>2 DEF FnFails
  <2>3. CASE Interrupted(r)
    BY <2>3 DEF Interrupted
  <2>4. CASE CommitUnknown(r)
    BY <2>4 DEF CommitUnknown
  <2> QED BY <1>2, <2>1, <2>2, <2>3, <2>4 DEF Misfortune
<1>3. CASE ServerStep(r)
  <2>1. CASE ServerNotices(r)
    BY <2>1 DEF ServerNotices
  <2>2. CASE ServerDecides(r)
    BY <2>2 DEF ServerDecides
  <2> QED BY <1>3, <2>1, <2>2 DEF ServerStep
<1> QED BY <1>1, <1>2, <1>3 DEF InTxStep

\* A step of InTx or of the server preserves the unique index.
LEMMA InTxKey ==
  ASSUME TypeOK, PlaceInv, WroteInv, KeyInv, NEW r \in Requests, InTxStep(r)
  PROVE  KeyInv'
<1> USE KeysAssumption
    DEF TypeOK, WroteInv, KeyInv, Usable, Leave, SessionEnds, CommitReturns,
        Applied, Holders, dbVars
<1>1. CASE Progress(r)
  <2>1. CASE Begin(r)
    BY <2>1 DEF Begin
  <2>2. CASE Insert(r)
    BY <2>2 DEF Insert
  <2>3. CASE InsertConflicts(r)
    BY <2>3 DEF InsertConflicts
  <2>4. CASE Enqueue(r)
    BY <2>4 DEF Enqueue
  <2>5. CASE StatementFails(r)
    BY <2>5 DEF StatementFails
  <2>6. CASE Commit(r)
    BY <2>6 DEF Commit
  <2>7. CASE CommitRollsBack(r)
    BY <2>7 DEF CommitRollsBack
  <2>8. CASE CommitNotSent(r)
    BY <2>8 DEF CommitNotSent
  <2>9. CASE Rollback(r)
    <3>1. wrote' = wrote \/ wrote' = [wrote EXCEPT ![r] = {}]
      BY <2>9 DEF Rollback
    <3>2. UNCHANGED dbVars
      BY <2>9 DEF Rollback
    <3>3. CASE wrote' = wrote
      BY <3>2, <3>3
    <3>4. CASE wrote' = [wrote EXCEPT ![r] = {}]
      BY <3>2, <3>4
    <3> QED BY <3>1, <3>3, <3>4
  <2> QED BY <1>1, <2>1, <2>2, <2>3, <2>4, <2>5, <2>6, <2>7, <2>8, <2>9 DEF Progress
<1>2. CASE Misfortune(r)
  <2>1. CASE BeginFails(r)
    BY <2>1 DEF BeginFails
  <2>2. CASE FnFails(r)
    BY <2>2 DEF FnFails
  <2>3. CASE Interrupted(r)
    BY <2>3 DEF Interrupted
  <2>4. CASE CommitUnknown(r)
    BY <2>4 DEF CommitUnknown
  <2> QED BY <1>2, <2>1, <2>2, <2>3, <2>4 DEF Misfortune
<1>3. CASE ServerStep(r)
  <2>1. CASE ServerNotices(r)
    BY <2>1 DEF ServerNotices
  <2>2. CASE ServerDecides(r)
    BY <2>2 DEF ServerDecides
  <2> QED BY <1>3, <2>1, <2>2 DEF ServerStep
<1> QED BY <1>1, <1>2, <1>3 DEF InTxStep

\* A step of InTx or of the server stores row and message together, and answers
\* accordingly.
LEMMA InTxStored ==
  ASSUME TypeOK, TxInv, NEW r \in Requests, InTxStep(r)
  PROVE  StoredInv'
<1> USE KeysAssumption
    DEF TypeOK, TxInv, PlaceInv, WroteInv, KeyInv, StoredInv, Stored, Usable,
        Leave, SessionEnds, CommitReturns, Applied, dbVars
<1>1. CASE Progress(r)
  <2>1. CASE Begin(r)
    BY <2>1 DEF Begin
  <2>2. CASE Insert(r)
    BY <2>2 DEF Insert
  <2>3. CASE InsertConflicts(r)
    BY <2>3 DEF InsertConflicts
  <2>4. CASE Enqueue(r)
    BY <2>4 DEF Enqueue
  <2>5. CASE StatementFails(r)
    BY <2>5 DEF StatementFails
  <2>6. CASE Commit(r)
    BY <2>6 DEF Commit
  <2>7. CASE CommitRollsBack(r)
    BY <2>7 DEF CommitRollsBack
  <2>8. CASE CommitNotSent(r)
    BY <2>8 DEF CommitNotSent
  <2>9. CASE Rollback(r)
    BY <2>9 DEF Rollback
  <2> QED BY <1>1, <2>1, <2>2, <2>3, <2>4, <2>5, <2>6, <2>7, <2>8, <2>9 DEF Progress
<1>2. CASE Misfortune(r)
  <2>1. CASE BeginFails(r)
    BY <2>1 DEF BeginFails
  <2>2. CASE FnFails(r)
    BY <2>2 DEF FnFails
  <2>3. CASE Interrupted(r)
    BY <2>3 DEF Interrupted
  <2>4. CASE CommitUnknown(r)
    BY <2>4 DEF CommitUnknown
  <2> QED BY <1>2, <2>1, <2>2, <2>3, <2>4 DEF Misfortune
<1>3. CASE ServerStep(r)
  <2>1. CASE ServerNotices(r)
    BY <2>1 DEF ServerNotices
  <2>2. CASE ServerDecides(r)
    BY <2>2 DEF ServerDecides
  <2> QED BY <1>3, <2>1, <2>2 DEF ServerStep
<1> QED BY <1>1, <1>2, <1>3 DEF InTxStep

\* Every step preserves the invariant of the transactions: the outbox never
\* makes a message new again, and the rest of a handler touches none of it.
LEMMA StepTxInv == TypeOK /\ TxInv /\ [Next]_vars => TxInv'
<1> SUFFICES ASSUME TypeOK, TxInv, [Next]_vars PROVE TxInv'
  OBVIOUS
<1> USE DEF TypeOK, PlaceInv, WroteInv, KeyInv, StoredInv, Stored
<1>1. ASSUME NEW r \in Requests, InTxStep(r) PROVE TxInv'
  BY <1>1, InTxPlace, InTxWrote, InTxKey, InTxStored DEF TxInv
<1>2. ASSUME NEW r \in Requests, CallInTx(r) PROVE TxInv'
  BY <1>2 DEF CallInTx, dbVars, TxInv
<1>3. CASE OutboxStep
  <2>1. ASSUME NEW r \in Requests, Contract!Deliver(r) PROVE UNCHANGED outbox
    BY <2>1 DEF Contract!Deliver
  <2>2. ASSUME NEW r \in Requests, Contract!Resolve(r)
        PROVE  \A t \in Requests : outbox'[t] = "new" <=> outbox[t] = "new"
    BY <2>2 DEF Contract!Resolve, Contract!Settle, Contract!GiveUp
  <2>3. ASSUME NEW S \in SUBSET Requests, Contract!Purge(S)
        PROVE  \A t \in Requests : outbox'[t] = "new" <=> outbox[t] = "new"
    BY <2>3 DEF Contract!Purge
  <2>4. \A t \in Requests : outbox'[t] = "new" <=> outbox[t] = "new"
    BY <1>3, <2>1, <2>2, <2>3 DEF OutboxStep
  <2> QED BY <1>3, <2>4 DEF OutboxStep, txVars, TxInv
<1>4. CASE UNCHANGED <<txVars, dbVars>>
  BY <1>4 DEF txVars, dbVars, TxInv
<1> QED BY <1>1, <1>2, <1>3, <1>4 DEF Next, vars, Arrive, Hashing, Cancel

\* For any number of requests, keys and retries of one key: whatever is cut off
\* when, row and message are there together or not at all, they are there if
\* InTx returned nil, and never if fn failed or panicked.
THEOREM AnswersAreTrue == Spec => []AnswerMatchesDatabase
<1>1. TypeOK /\ TxInv => AnswerMatchesDatabase
  BY DEF TypeOK, TxInv, StoredInv, Stored, AnswerMatchesDatabase
<1> QED BY <1>1, InitType, StepType, InitTxInv, StepTxInv, PTL DEF Spec

-------------------------------------------------------------------------------
(* The connections of the pool *)

\* The pool has lent finitely many connections, and no more than it has.
PoolInv == IsFiniteSet(InUse) /\ Cardinality(InUse) <= MaxConns

\* The size of the pool is a positive number.
LEMMA MaxConnsType == MaxConns \in Nat /\ MaxConns > 0
  BY PoolAssumption DEF MaxConns, Validate

\* Init: no connection is lent.
LEMMA InitPool == Init => PoolInv
<1> SUFFICES ASSUME Init PROVE PoolInv
  OBVIOUS
<1>1. InUse = {}
  BY DEF Init, TxInit, InUse
<1> QED BY <1>1, FS_EmptySet, MaxConnsType DEF PoolInv

\* Begin takes a connection if one is free; nothing else takes one.
LEMMA StepPool == TypeOK /\ PoolInv /\ [Next]_vars => PoolInv'
<1> SUFFICES ASSUME TypeOK, PoolInv, [Next]_vars PROVE PoolInv'
  OBVIOUS
<1>1. ASSUME NEW r \in Requests, Begin(r) PROVE PoolInv'
  <2>1. InUse' = InUse \cup {r}
    BY <1>1 DEF Begin, InUse, TypeOK
  <2>2. Cardinality(InUse) \in Nat /\ Cardinality(InUse) < MaxConns
    BY <1>1, FS_CardinalityType DEF Begin, PoolInv
  <2>3. IsFiniteSet(InUse') /\ Cardinality(InUse') <= Cardinality(InUse) + 1
    <3>1. IsFiniteSet(InUse)
      BY DEF PoolInv
    <3>2. /\ IsFiniteSet(InUse \cup {r})
          /\ r \in InUse => Cardinality(InUse \cup {r}) = Cardinality(InUse)
          /\ r \notin InUse => Cardinality(InUse \cup {r}) = Cardinality(InUse) + 1
      BY ONLY <3>1, FS_AddElement
    <3> QED BY ONLY <2>1, <2>2, <3>2
  <2>4. Cardinality(InUse') \in Nat
    BY <2>3, FS_CardinalityType
  <2> QED BY <2>2, <2>3, <2>4, MaxConnsType DEF PoolInv
<1>2. CASE InUse' \subseteq InUse
  <2>1. IsFiniteSet(InUse') /\ Cardinality(InUse') <= Cardinality(InUse)
    BY <1>2, FS_Subset DEF PoolInv
  <2>2. Cardinality(InUse') \in Nat /\ Cardinality(InUse) \in Nat
    BY <2>1, FS_CardinalityType DEF PoolInv
  <2> QED BY <2>1, <2>2, MaxConnsType DEF PoolInv
<1>3. ASSUME NEW r \in Requests, UNCHANGED conn \/ conn' = [conn EXCEPT ![r] = FALSE]
      PROVE  InUse' \subseteq InUse
  BY <1>3 DEF InUse, TypeOK
<1>4. ASSUME NEW r \in Requests, InTxStep(r) PROVE PoolInv'
  <2>1. Begin(r) \/ UNCHANGED conn \/ conn' = [conn EXCEPT ![r] = FALSE]
    BY <1>4 DEF InTxStep, Progress, Misfortune, ServerStep, Insert,
       InsertConflicts, Enqueue, StatementFails, Commit, CommitRollsBack,
       CommitNotSent, Rollback, BeginFails, FnFails, Interrupted, CommitUnknown,
       ServerNotices, ServerDecides, CommitReturns
  <2> QED BY <1>1, <1>2, <1>3, <2>1
<1>5. CASE UNCHANGED conn
  BY <1>2, <1>5 DEF InUse
<1> QED BY <1>4, <1>5
        DEF Next, vars, txVars, Arrive, Hashing, CallInTx, Cancel, OutboxStep

\* For any size of the pool: it never lends more connections than it has, and
\* what InTx returned from is over on the server too, unless its connection broke
\* under a statement or COMMIT was not sent; a context that ended inside fn, or on
\* its error path, leaves nothing behind.
THEOREM NothingStaysHeld == Spec => []NothingHeldOnReturn
<1>1. TypeOK /\ TxInv /\ PoolInv => NothingHeldOnReturn
  BY DEF TypeOK, TxInv, PlaceInv, WroteInv, PoolInv, NothingHeldOnReturn
<1> QED BY <1>1, InitType, StepType, InitTxInv, StepTxInv, InitPool, StepPool,
           PTL DEF Spec

-------------------------------------------------------------------------------
(* Waiting *)

\* The three things a request may wait for.
WaitsForSlot(r) == hash[r] = "waits"
WaitsForConn(r) == tx[r] = "begin" /\ Cardinality(InUse) >= MaxConns
WaitsForKey(r) == tx[r] = "insert" /\ Usable(r) /\ Holders(r) # {}

\* Who waits for a slot is in the list, where Release finds it, and all slots are
\* taken by requests that have one or were woken to take one: no wakeup is lost.
SlotsNeverIdle ==
    \A r \in Requests : WaitsForSlot(r) =>
        (\E i \in DOMAIN waiters : waiters[i] = r) /\ Cardinality(Holding) = Slots

\* The waiting has a direction.  Who has a slot waits for nothing more, who has a
\* connection waits for no slot and no other connection, and who has written the row of
\* a key waits for nothing at all: requests never wait for each other in a circle.
NoCircularWait ==
    \A r \in Requests :
        /\ r \in Holding => ~WaitsForSlot(r) /\ ~WaitsForConn(r) /\ ~WaitsForKey(r)
        /\ conn[r] => ~WaitsForSlot(r) /\ ~WaitsForConn(r)
        /\ "row" \in wrote[r] =>
             ~WaitsForSlot(r) /\ ~WaitsForConn(r) /\ ~WaitsForKey(r)

\* The list has every waiter, is not empty only if the slots are taken, and InTx is
\* called with the password hashed.
WaitInv ==
    /\ \A r \in Requests : hash[r] = "waits" => \E i \in DOMAIN waiters : waiters[i] = r
    /\ waiters # <<>> => used = Slots
    /\ \A r \in Requests : tx[r] # "none" => hash[r] = "ok"

\* Init: nobody waits.
LEMMA InitWait == Init => WaitInv
  BY DEF Init, HashInit, TxInit, WaitInv

\* Release wakes the first waiter, and only that one leaves the list.
LEMMA ReleaseWait ==
  ASSUME TypeOK, SlotInv, WaitInv, NEW r \in Requests, r \in Holding,
         NEW result \in HashStates \ {"granted", "works", "waits"},
         Release(r, result), UNCHANGED tx
  PROVE  WaitInv'
<1> USE DEF TypeOK
<1>1. tx[r] = "none"
  BY DEF WaitInv, Holding
<1>2. CASE waiters = <<>>
  <2>1. waiters' = <<>> /\ hash' = [hash EXCEPT ![r] = result]
    BY <1>2 DEF Release
  <2> QED BY <1>1, <1>2, <2>1 DEF WaitInv
<1>3. CASE waiters # <<>>
  <2> DEFINE h == Head(waiters)
  <2>1. h \in Requests /\ h = waiters[1] /\ 1 \in DOMAIN waiters
    BY <1>3
  <2>2. hash[h] = "waits" /\ tx[h] = "none"
    BY <2>1 DEF SlotInv, WaitInv
  <2>3. /\ hash' = [hash EXCEPT ![r] = result, ![h] = "granted"]
        /\ waiters' = Tail(waiters)
        /\ used' = used
    BY <1>3 DEF Release
  <2> HIDE DEF h
  <2>4. /\ DOMAIN waiters' = 1..(Len(waiters) - 1)
        /\ \A k \in DOMAIN waiters' : waiters'[k] = waiters[k + 1]
    BY <1>3, <2>3
  <2>5. ASSUME NEW q \in Requests, hash'[q] = "waits"
        PROVE  \E i \in DOMAIN waiters' : waiters'[i] = q
    <3>1. hash[q] = "waits" /\ q # h
      BY <2>1, <2>3, <2>5
    <3>2. PICK i \in DOMAIN waiters : waiters[i] = q
      BY <3>1 DEF WaitInv
    <3>3. i # 1
      BY <2>1, <3>1, <3>2
    <3>4. i - 1 \in 1..(Len(waiters) - 1) /\ (i - 1) + 1 = i
      BY <3>3
    <3>5. waiters'[i - 1] = q
      BY <2>4, <3>2, <3>4
    <3> QED BY <2>4, <3>4, <3>5
  <2>6. used' = Slots
    BY <1>3, <2>3 DEF WaitInv
  <2>7. \A q \in Requests : tx'[q] # "none" => hash'[q] = "ok"
    BY <1>1, <2>1, <2>2, <2>3 DEF WaitInv
  <2> QED BY <2>5, <2>6, <2>7 DEF WaitInv
<1> QED BY <1>2, <1>3

\* A call of Hash or Verify preserves the invariant.
LEMMA HashingWait ==
  ASSUME TypeOK, SlotInv, WaitInv, NEW r \in Requests, Hashing(r)
  PROVE  WaitInv'
<1> USE DEF TypeOK
<1>1. UNCHANGED tx
  BY DEF Hashing, txVars
<1>2. CASE AcquireRefused(r)
  BY <1>1, <1>2 DEF AcquireRefused, WaitInv
<1>3. CASE AcquireNow(r)
  BY <1>1, <1>3 DEF AcquireNow, WaitInv
<1>4. CASE AcquireWaits(r)
  <2>1. /\ DOMAIN waiters' = 1..(Len(waiters) + 1)
        /\ waiters'[Len(waiters) + 1] = r
        /\ \A k \in 1..Len(waiters) : waiters'[k] = waiters[k]
        /\ hash' = [hash EXCEPT ![r] = "waits"]
        /\ used' = used
    BY <1>4 DEF AcquireWaits
  <2>2. used = Slots
    BY <1>4, SlotsType DEF AcquireWaits, SlotInv, WaitInv
  <2>3. ASSUME NEW q \in Requests, hash'[q] = "waits"
        PROVE  \E i \in DOMAIN waiters' : waiters'[i] = q
    <3>1. CASE q = r
      <4>1. Len(waiters) + 1 \in 1..(Len(waiters) + 1)
        OBVIOUS
      <4> QED BY <2>1, <3>1, <4>1, Zenon
    <3>2. CASE q # r
      <4>1. PICK i \in DOMAIN waiters : waiters[i] = q
        BY <2>1, <2>3, <3>2 DEF WaitInv
      <4>2. i \in 1..Len(waiters) /\ i \in 1..(Len(waiters) + 1)
        OBVIOUS
      <4> QED BY <2>1, <4>1, <4>2
    <3> QED BY <3>1, <3>2
  <2>4. \A q \in Requests : tx'[q] # "none" => hash'[q] = "ok"
    BY <1>1, <1>4, <2>1 DEF AcquireWaits, WaitInv
  <2> QED BY <2>1, <2>2, <2>3, <2>4 DEF WaitInv
<1>5. CASE GiveUp(r)
  <2>1. PICK j \in 1..Len(waiters) :
            /\ waiters[j] = r
            /\ DOMAIN waiters' = 1..(Len(waiters) - 1)
            /\ \A k \in DOMAIN waiters' :
                waiters'[k] = IF k < j THEN waiters[k] ELSE waiters[k + 1]
    BY <1>5, LeavesList DEF GiveUp
  <2>2. hash' = [hash EXCEPT ![r] = "busy"] /\ used' = used /\ hash[r] = "waits"
    BY <1>5 DEF GiveUp
  <2>3. ASSUME NEW q \in Requests, hash'[q] = "waits"
        PROVE  \E i \in DOMAIN waiters' : waiters'[i] = q
    <3>1. hash[q] = "waits" /\ q # r
      BY <2>2, <2>3
    <3>2. PICK i \in DOMAIN waiters : waiters[i] = q
      BY <3>1 DEF WaitInv
    <3>3. i # j /\ i \in 1..Len(waiters) /\ Len(waiters) \in Nat
      BY <2>1, <3>1, <3>2
    <3>4. CASE i < j
      <4>1. i \in DOMAIN waiters'
        BY <2>1, <3>3, <3>4
      <4> QED BY <2>1, <3>2, <3>4, <4>1
    <3>5. CASE i > j
      <4>1. i - 1 \in DOMAIN waiters' /\ ~(i - 1 < j) /\ (i - 1) + 1 = i
        BY <2>1, <3>3, <3>5
      <4> QED BY <2>1, <3>2, <4>1
    <3> QED BY <3>3, <3>4, <3>5
  <2>4. used' = Slots
    BY <2>1, <2>2 DEF WaitInv
  <2>5. \A q \in Requests : tx'[q] # "none" => hash'[q] = "ok"
    BY <1>1, <2>2 DEF WaitInv
  <2> QED BY <2>3, <2>4, <2>5 DEF WaitInv
<1>6. CASE Granted(r)
  <2>1. r \in Holding
    BY <1>6 DEF Granted, Holding
  <2>2. CASE ctxDone[r]
    BY <1>1, <1>6, <2>1, <2>2, ReleaseWait DEF Granted
  <2>3. CASE ~ctxDone[r]
    BY <1>1, <1>6, <2>3 DEF Granted, WaitInv
  <2> QED BY <2>2, <2>3
<1>7. ASSUME NEW results \in SUBSET {"ok", "failed"}, Compute(r, results)
      PROVE  WaitInv'
  <2>1. r \in Holding
    BY <1>7 DEF Compute, Holding
  <2>2. PICK result \in results : Release(r, result)
    BY <1>7 DEF Compute
  <2> QED BY <1>1, <2>1, <2>2, ReleaseWait
<1> QED BY <1>2, <1>3, <1>4, <1>5, <1>6, <1>7
        DEF Hashing, HashStep, HashResults, VerifyResults

\* Every step preserves the invariant.
LEMMA StepWait == TypeOK /\ SlotInv /\ WaitInv /\ [Next]_vars => WaitInv'
<1> SUFFICES ASSUME TypeOK, SlotInv, WaitInv, [Next]_vars PROVE WaitInv'
  OBVIOUS
<1> USE DEF TypeOK, WaitInv
<1>1. ASSUME NEW r \in Requests, Arrive(r) PROVE WaitInv'
  BY <1>1 DEF Arrive, txVars
<1>2. ASSUME NEW r \in Requests, CallInTx(r) PROVE WaitInv'
  BY <1>2 DEF CallInTx, hashVars
<1>3. ASSUME NEW r \in Requests, InTxStep(r) PROVE WaitInv'
  <2>1. UNCHANGED hashVars
    BY <1>3 DEF InTxStep
  <2>2. tx[r] # "none" \/ UNCHANGED tx
    BY <1>3 DEF InTxStep, Progress, Misfortune, ServerStep, Begin, Insert,
       InsertConflicts, Enqueue, StatementFails, Commit, CommitRollsBack,
       CommitNotSent, Rollback, BeginFails, FnFails, Interrupted, CommitUnknown,
       ServerNotices, ServerDecides
  <2>3. \A q \in Requests : q # r => tx'[q] = tx[q]
    BY <1>3 DEF InTxStep, Progress, Misfortune, ServerStep, Begin, Insert,
       InsertConflicts, Enqueue, StatementFails, Commit, CommitRollsBack,
       CommitNotSent, Rollback, BeginFails, FnFails, Interrupted, CommitUnknown,
       ServerNotices, ServerDecides, Leave, CommitReturns
  <2> QED BY <2>1, <2>2, <2>3 DEF hashVars
<1>4. CASE UNCHANGED <<hashVars, tx>>
  BY <1>4 DEF hashVars
<1> QED BY <1>1, <1>2, <1>3, <1>4, HashingWait
        DEF Next, vars, txVars, Cancel, OutboxStep

\* However many requests, slots, connections and retries of one key, and whatever is
\* cut off when: no request waits for a slot while one is free or without being in
\* the list.
THEOREM NoLostWakeup == Spec => []SlotsNeverIdle
<1>1. TypeOK /\ SlotInv /\ WaitInv => SlotsNeverIdle
  <2> SUFFICES ASSUME TypeOK, SlotInv, WaitInv, NEW r \in Requests, WaitsForSlot(r)
               PROVE  (\E i \in DOMAIN waiters : waiters[i] = r)
                      /\ Cardinality(Holding) = Slots
    BY DEF SlotsNeverIdle
  <2>1. PICK i \in DOMAIN waiters : waiters[i] = r
    BY DEF WaitInv, WaitsForSlot
  <2>2. waiters # <<>>
    BY <2>1
  <2> QED BY <2>1, <2>2 DEF SlotInv, WaitInv
<1> QED BY <1>1, InitType, StepType, InitSlot, StepSlot, InitWait, StepWait, PTL
        DEF Spec

\* Hasher, pool and unique index together: what a request holds while it waits is
\* never what those it waits for are waiting for.
THEOREM WaitsAreAcyclic == Spec => []NoCircularWait
<1>1. TypeOK /\ TxInv /\ WaitInv => NoCircularWait
  BY DEF TypeOK, TxInv, PlaceInv, WroteInv, WaitInv, NoCircularWait, Holding,
     WaitsForSlot, WaitsForConn, WaitsForKey
<1> QED BY <1>1, InitType, StepType, InitTxInv, StepTxInv, InitSlot, StepSlot,
           InitWait, StepWait, PTL DEF Spec

-------------------------------------------------------------------------------
(* The transactions as producers of the outbox *)

\* A step of InTx or of the server leaves the messages alone, or submits one that was
\* never submitted: a COMMIT takes effect once, also if nobody hears of it.
LEMMA InTxSubmits ==
  ASSUME TypeOK, TxInv, NEW r \in Requests, InTxStep(r)
  PROVE  UNCHANGED outbox \/ Contract!Submit(r)
<1>1. UNCHANGED delivered
  BY DEF InTxStep
<1>2. ASSUME Applied(r), wrote[r] = {"row", "message"}, session[r] # "none"
      PROVE  Contract!Submit(r)
  BY <1>1, <1>2 DEF Applied, Contract!Submit, TypeOK, TxInv, StoredInv
<1>3. CASE Commit(r)
  BY <1>2, <1>3 DEF Commit, Usable, TxInv, WroteInv, TypeOK
<1>4. CASE ServerDecides(r)
  BY <1>2, <1>4 DEF ServerDecides, dbVars, TxInv, WroteInv, TypeOK
<1> QED BY <1>3, <1>4
        DEF InTxStep, Progress, Misfortune, ServerStep, Begin, Insert,
        InsertConflicts, Enqueue, StatementFails, CommitRollsBack, CommitNotSent,
        Rollback, BeginFails, FnFails, Interrupted, CommitUnknown, ServerNotices,
        dbVars

\* The transactions use the outbox as its contract says: each message is submitted at
\* most once, and with the steps of the outbox itself nothing else happens to it.
THEOREM ProducersKeepContract == Spec => Contract!SafeSpec
<1>1. Init => Contract!Init
  BY DEF Init, TxInit, Contract!Init
<1>2. TypeOK /\ TxInv /\ [Next]_vars => [Contract!Next]_(Contract!vars)
  <2> SUFFICES ASSUME TypeOK, TxInv, [Next]_vars
               PROVE  [Contract!Next]_(Contract!vars)
    OBVIOUS
  <2>1. ASSUME NEW r \in Requests, InTxStep(r)
        PROVE  [Contract!Next]_(Contract!vars)
    <3>1. UNCHANGED delivered
      BY <2>1 DEF InTxStep
    <3> QED BY <2>1, <3>1, InTxSubmits DEF Contract!Next, Contract!vars
  <2>2. CASE OutboxStep
    BY <2>2 DEF OutboxStep, Contract!Next
  <2>3. CASE UNCHANGED <<outbox, delivered>>
    BY <2>3 DEF Contract!vars
  <2> QED BY <2>1, <2>2, <2>3
          DEF Next, vars, dbVars, Arrive, Hashing, CallInTx, Cancel
<1> QED BY <1>1, <1>2, InitType, StepType, InitTxInv, StepTxInv, PTL
        DEF Spec, Contract!SafeSpec

===============================================================================
