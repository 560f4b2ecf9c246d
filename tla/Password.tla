------------------------------- MODULE Password -------------------------------
(***************************************************************************)
(* Hasher of package password: every Hash and Verify holds a slot of one   *)
(* semaphore while argon2 runs.  The semaphore is the one of               *)
(* golang.org/x/sync: first come, first served, and a waiter whose context *)
(* ends leaves the queue.                                                  *)
(***************************************************************************)
EXTENDS Contexts, Integers, Sequences, SequencesExt

CONSTANTS
    MaxConcurrent,   \* the argument of WithMaxConcurrent
    MaxProcs         \* runtime.GOMAXPROCS(0)

ASSUME SlotsAssumption == MaxConcurrent \in Int /\ MaxProcs \in Int

\* NewHasher and WithMaxConcurrent: an n that is not positive changes nothing.
Slots == IF MaxConcurrent > 0 THEN MaxConcurrent
         ELSE IF MaxProcs > 1 THEN MaxProcs ELSE 1

VARIABLES
    hash,     \* [Requests -> HashStates]
    waiters,  \* the queue of the semaphore
    used      \* the slots taken, as the semaphore counts them

hashVars == <<hash, waiters, used>>

\* "granted": the semaphore has woken the waiter, which has not run yet.
HashStates == {"none", "asks", "waits", "granted", "works", "ok", "busy", "failed"}

HashInit ==
    /\ hash = [c \in Requests |-> "none"]
    /\ waiters = <<>>
    /\ used = 0

-------------------------------------------------------------------------------
\* Release: the slot goes to the first waiter, if there is one.  The caller
\* leaves with the given result.
Release(c, result) ==
    IF waiters = <<>>
    THEN /\ used' = used - 1
         /\ hash' = [hash EXCEPT ![c] = result]
         /\ UNCHANGED waiters
    ELSE /\ hash' = [hash EXCEPT ![c] = result, ![Head(waiters)] = "granted"]
         /\ waiters' = Tail(waiters)
         /\ UNCHANGED used

\* Acquire with a context that is done.
AcquireRefused(c) ==
    /\ hash[c] = "asks"
    /\ ctxDone[c]
    /\ hash' = [hash EXCEPT ![c] = "busy"]
    /\ UNCHANGED <<waiters, used>>

\* Acquire finds a slot and nobody before it.
AcquireNow(c) ==
    /\ hash[c] = "asks"
    /\ ~ctxDone[c]
    /\ used < Slots /\ waiters = <<>>
    /\ hash' = [hash EXCEPT ![c] = "works"]
    /\ used' = used + 1
    /\ UNCHANGED waiters

\* Acquire joins the queue.
AcquireWaits(c) ==
    /\ hash[c] = "asks"
    /\ ~ctxDone[c]
    /\ ~(used < Slots /\ waiters = <<>>)
    /\ hash' = [hash EXCEPT ![c] = "waits"]
    /\ waiters' = Append(waiters, c)
    /\ UNCHANGED used

\* The element of c is taken out of the list of waiters.
Leaves(c) ==
    \E i \in DOMAIN waiters :
        waiters[i] = c /\ waiters' = RemoveAt(waiters, i)

\* Slip: Release is deferred before Acquire has succeeded.
GiveUpReleases(c) ==
    /\ hash[c] = "waits"
    /\ ctxDone[c]
    /\ hash' = [hash EXCEPT ![c] = "busy"]
    /\ Leaves(c)
    /\ used' = used - 1

\* The context ends first: the waiter leaves the queue.
GiveUp(c) ==
    /\ hash[c] = "waits"
    /\ ctxDone[c]
    /\ hash' = [hash EXCEPT ![c] = "busy"]
    /\ Leaves(c)
    /\ UNCHANGED used

\* The waiter runs on with its slot, or hands it on if its context has ended.
Granted(c) ==
    /\ hash[c] = "granted"
    /\ IF ctxDone[c]
       THEN Release(c, "busy")
       ELSE hash' = [hash EXCEPT ![c] = "works"] /\ UNCHANGED <<waiters, used>>

\* What Hash returns: rand.Read may fail.
HashResults == {"ok", "failed"}

\* What Verify returns: decode may refuse the encoded hash, and the keys may
\* differ.
VerifyResults == {"ok", "failed"}

\* Slip: an error returns without the slot.
ComputeLeaks(c, results) ==
    /\ hash[c] = "works"
    /\ \/ Release(c, "ok")
       \/ /\ "failed" \in results
          /\ hash' = [hash EXCEPT ![c] = "failed"]
          /\ UNCHANGED <<waiters, used>>

\* argon2 runs to its end, whatever the context does; the deferred Release
\* covers each return.
Compute(c, results) ==
    /\ hash[c] = "works"
    /\ \E result \in results : Release(c, result)

\* A call of Hasher.Hash or Hasher.Verify, with its results.
HashStep(c, results) ==
    \/ AcquireRefused(c) \/ AcquireNow(c) \/ AcquireWaits(c)
    \/ GiveUp(c) \/ Granted(c) \/ Compute(c, results)

===============================================================================
