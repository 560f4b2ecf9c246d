-------------------------------- MODULE Outbox --------------------------------
(***************************************************************************)
(* The transactional outbox of package outbox: the table, the SQL          *)
(* statements of Repository and the replicas of Worker that drain it.      *)
(*                                                                         *)
(* Each SQL statement is one atomic step (the code runs every one of them  *)
(* in a transaction of its own), and each goroutine of a batch is a        *)
(* process: Send and the statement that records its result are two steps.  *)
(* Between them the row may change hands, because no statement checks that *)
(* the caller still owns the row.                                          *)
(*                                                                         *)
(* Time is a countdown.  next_attempt_at is modelled by dueIn, the time    *)
(* left until the row is due, and Tick moves every timer by one unit.      *)
(* A second is UnitsPerSecond units: durations reach PostgreSQL as         *)
(* int32(d.Seconds()), which drops the fraction.                           *)
(***************************************************************************)
EXTENDS OutboxTiming, FiniteSets

CONSTANTS
    Ids,               \* the messages, a row of the table each
    Workers,           \* the replicas of the worker
    RequestedAttempts, \* the maxAttempts argument of Enqueue
    SmallintMax,       \* the largest value of the smallint column attempts
    BatchSize, Concurrency, VisibilityTimeout, SendTimeout,
    BaseBackoff, MaxBackoff, ConflictBackoff, FailedRetention,
    UnitsPerSecond,    \* clock units in a second
    Prompt,            \* TRUE: time never overtakes a runnable goroutine
    MaxFaults          \* bound: crashes, cancellations, lost or failed
                       \* statements and conflicts a behaviour may have

\* The defaults of Enqueue.
defaultMaxAttempts == 5

MaxAttempts ==
    IF RequestedAttempts <= 0 THEN defaultMaxAttempts ELSE RequestedAttempts

ASSUME ConfigAssumption ==
    /\ RequestedAttempts \in Int
    /\ SmallintMax \in Nat \ {0}
    /\ BatchSize \in Nat \ {0}
    /\ Concurrency \in Nat \ {0}
    /\ VisibilityTimeout \in Nat \ {0}
    /\ SendTimeout \in Nat \ {0}
    /\ BaseBackoff \in Nat \ {0}
    /\ MaxBackoff \in Nat \ {0}
    /\ ConflictBackoff \in Nat \ {0}
    /\ FailedRetention \in Nat \ {0}
    /\ UnitsPerSecond \in Nat \ {0}
    /\ Prompt \in BOOLEAN
    /\ MaxFaults \in Nat

ASSUME SetsAssumption == IsFiniteSet(Ids)

\* Config.validate: the lease covers the waves of a batch.
validate == wavesOf(BatchSize, Concurrency) * SendTimeout <= VisibilityTimeout

ASSUME ValidateAssumption == validate

\* int32(d.Seconds()), back in clock units.
Seconds(d) == wholeSeconds(d, UnitsPerSecond)

\* Slip: the lease covers one send instead of the whole batch.
LeaseOfOneSend == Seconds(SendTimeout)

\* How long a claimed row stays invisible to the other replicas.
Lease == Seconds(VisibilityTimeout)

backoffFor(a) == pauseAfter(BaseBackoff, MaxBackoff, a)

-------------------------------------------------------------------------------
VARIABLES
    rowState,   \* [Ids -> RowStates]; failed_at IS NULL iff "pending"
    attempts,   \* [Ids -> 0..SmallintMax], the column
    dueIn,      \* [Ids -> Nat], next_attempt_at - now() of a pending row, or 0
    older,      \* {<<i, j>>}: i and j are due and next_attempt_at of i comes first
    failedAge,  \* [Ids -> Nat], now() - failed_at, cut one past the retention
    pc,         \* [Workers -> PCs], where Worker.Run is
    cancelled,  \* [Workers -> BOOLEAN], ctx is done
    full,       \* [Workers -> BOOLEAN], processed >= BatchSize and no error
    started,    \* [Workers -> Nat], iterations of the loop in processBatch
    job,        \* [Workers -> [Ids -> JobStates]], the goroutines of the batch
    att,        \* [Workers -> [Ids -> Nat]], message.Attempts as claimed
    left,       \* [Workers -> [Ids -> Nat]], time to the deadline of sendCtx
    faults,     \* faults the behaviour may still have
    claims,     \* history: claims of the row, cut at MaxAttempts
    accepted,   \* history: a Send of the message returned nil
    condemned   \* history: "it will never be delivered" was logged

rowVars == <<rowState, attempts, dueIn, older, failedAge>>
loopVars == <<pc, cancelled, full, started>>
jobVars == <<job, att, left>>
history == <<claims, accepted, condemned>>
vars == <<rowVars, loopVars, jobVars, faults, history>>

RowStates == {"new", "pending", "failed", "gone"}
PCs == {"claim", "deliver", "cleanup", "poll", "stopped", "down"}
JobStates == {"idle", "queued", "sending", "complete", "retry", "defer", "fail"}

\* The goroutines that have begun deliver and not returned from it.
Busy == JobStates \ {"idle", "queued"}

TypeOK ==
    /\ rowState \in [Ids -> RowStates]
    /\ attempts \in [Ids -> 0..SmallintMax]
    /\ dueIn \in [Ids -> Nat]
    /\ older \subseteq Ids \X Ids
    /\ failedAge \in [Ids -> 0..(Seconds(FailedRetention) + 1)]
    /\ pc \in [Workers -> PCs]
    /\ cancelled \in [Workers -> BOOLEAN]
    /\ full \in [Workers -> BOOLEAN]
    /\ started \in [Workers -> Nat]
    /\ job \in [Workers -> [Ids -> JobStates]]
    /\ att \in [Workers -> [Ids -> 0..SmallintMax]]
    /\ left \in [Workers -> [Ids -> 0..SendTimeout]]
    /\ faults \in 0..MaxFaults
    /\ claims \in [Ids -> 0..MaxAttempts]
    /\ accepted \in [Ids -> BOOLEAN]
    /\ condemned \in [Ids -> BOOLEAN]

Init ==
    /\ rowState = [i \in Ids |-> "new"]
    /\ attempts = [i \in Ids |-> 0]
    /\ dueIn = [i \in Ids |-> 0]
    /\ older = {}
    /\ failedAge = [i \in Ids |-> 0]
    /\ pc = [w \in Workers |-> "claim"]
    /\ cancelled = [w \in Workers |-> FALSE]
    /\ full = [w \in Workers |-> FALSE]
    /\ started = [w \in Workers |-> 0]
    /\ job = [w \in Workers |-> [i \in Ids |-> "idle"]]
    /\ att = [w \in Workers |-> [i \in Ids |-> 0]]
    /\ left = [w \in Workers |-> [i \in Ids |-> 0]]
    /\ faults = MaxFaults
    /\ claims = [i \in Ids |-> 0]
    /\ accepted = [i \in Ids |-> FALSE]
    /\ condemned = [i \in Ids |-> FALSE]

-------------------------------------------------------------------------------
(* Helpers *)

Running(w) == {i \in Ids : job[w][i] \in Busy}

Queued(w) == {i \in Ids : job[w][i] = "queued"}

\* Slip: the claim forgets failed_at IS NULL.
DueOrFailed ==
    {i \in Ids : rowState[i] \in {"pending", "failed"} /\ dueIn[i] = 0}

\* Slip: the claim skips the rows that have only their last attempt left.
DueBeforeLast ==
    {i \in Ids : /\ rowState[i] = "pending" /\ dueIn[i] = 0
                 /\ attempts[i] + 1 < MaxAttempts}

\* The rows that the subquery of Claim looks at.
Due == {i \in Ids : rowState[i] = "pending" /\ dueIn[i] = 0}

\* The rows S leave their places in the order of the due rows; those that are due
\* after the step have waited less than the others.
Requeue(S) ==
    older' = {p \in older : p[1] \notin S /\ p[2] \notin S}
                \cup ((Due \ S) \X (Due' \cap S))

Fault == faults > 0 /\ faults' = faults - 1

\* The goroutine of message i leaves deliver.
Return(w, i) ==
    /\ job' = [job EXCEPT ![w][i] = "idle"]
    /\ att' = [att EXCEPT ![w][i] = 0]
    /\ left' = [left EXCEPT ![w][i] = 0]

\* The goroutine of message i goes from Send to the statement st.
Record(w, i, st) ==
    /\ job' = [job EXCEPT ![w][i] = st]
    /\ left' = [left EXCEPT ![w][i] = 0]
    /\ UNCHANGED att

\* Every goroutine of w ceases to exist.
DropBatch(w) ==
    /\ job' = [job EXCEPT ![w] = [i \in Ids |-> "idle"]]
    /\ att' = [att EXCEPT ![w] = [i \in Ids |-> 0]]
    /\ left' = [left EXCEPT ![w] = [i \in Ids |-> 0]]

-------------------------------------------------------------------------------
(* The producer: Enqueue inside the transaction of the caller, seen when that
   transaction commits. *)

Enqueue(i) ==
    /\ rowState[i] = "new"
    /\ rowState' = [rowState EXCEPT ![i] = "pending"]
    /\ UNCHANGED <<attempts, dueIn, failedAge, loopVars, jobVars, faults,
                   history>>
    /\ Requeue({i})

-------------------------------------------------------------------------------
(* Worker.Run *)

\* A row that the UPDATE of Claim cannot count up any more.
Spent == {i \in Due : attempts[i] = SmallintMax}

\* The rows that another replica may have locked: a statement of its goroutines is
\* about to write them, or its own Claim is about to fail on a batch with a row
\* that is spent.
Locked(w) ==
    {i \in Due : \E v \in Workers \ {w} :
        \/ job[v][i] \in Busy \ {"sending"}
        \/ pc[v] = "claim" /\ ~cancelled[v] /\ Spent # {}}

\* What the subquery of Claim may return: ORDER BY next_attempt_at FOR UPDATE SKIP
\* LOCKED LIMIT BatchSize.
Picks(w) ==
    {S \in SUBSET Due : \E skipped \in SUBSET Locked(w) :
        LET free == Due \ skipped
        IN  /\ S \subseteq free
            /\ Cardinality(S) <= BatchSize
            /\ Cardinality(S) = BatchSize \/ S = free
            /\ \A i \in S, j \in free \ S : <<j, i>> \notin older}

\* Raises attempts and pushes next_attempt_at of the rows S.
Take(S) ==
    /\ attempts' = [i \in Ids |-> IF i \in S THEN attempts[i] + 1
                                             ELSE attempts[i]]
    /\ dueIn' = [i \in Ids |-> IF i \in S THEN Lease ELSE dueIn[i]]
    /\ claims' = [i \in Ids |-> IF i \in S /\ claims[i] < MaxAttempts
                                THEN claims[i] + 1 ELSE claims[i]]
    /\ UNCHANGED <<rowState, failedAge>>
    /\ Requeue(S)

\* Slip: the column is taken for an unbounded integer.
ClaimRowsUnbounded(S) == Take(S)

\* The UPDATE of Claim on the rows S.
ClaimRows(S) ==
    /\ \A i \in S : attempts[i] < SmallintMax
    /\ Take(S)

\* Claim returns a batch and processBatch starts on it.
Claim(w) ==
    /\ pc[w] = "claim"
    /\ ~cancelled[w]
    /\ \E S \in Picks(w) \ {{}} :
        /\ ClaimRows(S)
        /\ job' = [job EXCEPT ![w] =
                     [i \in Ids |-> IF i \in S THEN "queued" ELSE "idle"]]
        /\ att' = [att EXCEPT ![w] =
                     [i \in Ids |-> IF i \in S THEN attempts[i] + 1 ELSE 0]]
    /\ pc' = [pc EXCEPT ![w] = "deliver"]
    /\ started' = [started EXCEPT ![w] = 0]
    /\ UNCHANGED <<cancelled, full, left, faults, accepted, condemned>>

\* Claim returns no rows.
ClaimEmpty(w) ==
    /\ pc[w] = "claim"
    /\ ~cancelled[w]
    /\ {} \in Picks(w)
    /\ pc' = [pc EXCEPT ![w] = "cleanup"]
    /\ full' = [full EXCEPT ![w] = FALSE]
    /\ UNCHANGED <<rowVars, cancelled, started, jobVars, faults, history>>

\* Slip: an error never ends the loop, a done context included.
AfterErrorGoOn(w) ==
    /\ pc' = [pc EXCEPT ![w] = "cleanup"]
    /\ full' = [full EXCEPT ![w] = FALSE]
    /\ UNCHANGED <<cancelled, started>>

\* Where Run goes when processBatch returns an error.
AfterError(w) ==
    /\ pc' = [pc EXCEPT ![w] = IF cancelled[w] THEN "stopped" ELSE "cleanup"]
    /\ full' = [full EXCEPT ![w] = FALSE]
    /\ UNCHANGED <<cancelled, started>>

\* Claim fails and changes nothing: the context is done, the statement
\* overflows the smallint of a row it picked, or the database is away.
ClaimFails(w) ==
    /\ pc[w] = "claim"
    /\ \/ cancelled[w] /\ UNCHANGED faults
       \/ /\ \E S \in Picks(w) : S \cap Spent # {}
          /\ UNCHANGED faults
       \/ Fault
    /\ AfterError(w)
    /\ UNCHANGED <<rowVars, jobVars, history>>

\* Claim commits and its rows never reach the caller: the connection breaks,
\* or a row fails to scan.  The batch is leased and nobody works on it.
ClaimLost(w) ==
    /\ pc[w] = "claim"
    /\ Fault
    /\ \E S \in Picks(w) \ {{}} : ClaimRows(S)
    /\ AfterError(w)
    /\ UNCHANGED <<jobVars, accepted, condemned>>

\* An iteration of the loop of processBatch: group.Go blocks while Concurrency
\* goroutines run, then deliver begins and sendCtx gets its deadline.
StartSend(w, i) ==
    /\ pc[w] = "deliver"
    /\ job[w][i] = "queued"
    /\ Cardinality(Running(w)) < Concurrency
    /\ job' = [job EXCEPT ![w][i] = "sending"]
    /\ left' = [left EXCEPT ![w][i] = SendTimeout]
    /\ started' = [started EXCEPT ![w] = @ + 1]
    /\ UNCHANGED <<rowVars, pc, cancelled, full, att, faults, history>>

\* group.Wait returns.
BatchDone(w) ==
    /\ pc[w] = "deliver"
    /\ Queued(w) = {} /\ Running(w) = {}
    /\ pc' = [pc EXCEPT ![w] = "cleanup"]
    /\ full' = [full EXCEPT ![w] = started[w] >= BatchSize]
    /\ started' = [started EXCEPT ![w] = 0]
    /\ UNCHANGED <<rowVars, cancelled, jobVars, faults, history>>

\* What follows the cleanup: straight back to Claim after a full batch.
AfterCleanup(w) ==
    /\ pc' = [pc EXCEPT ![w] = IF full[w] THEN "claim" ELSE "poll"]
    /\ full' = [full EXCEPT ![w] = FALSE]
    /\ UNCHANGED <<cancelled, started>>

\* The cleanup ticker has not fired, or DeleteOldFailed fails.
CleanupSkip(w) ==
    /\ pc[w] = "cleanup"
    /\ AfterCleanup(w)
    /\ UNCHANGED <<rowVars, jobVars, faults, history>>

\* The cleanup ticker has fired: DeleteOldFailed.
DeleteOldFailed(w) ==
    LET old == {i \in Ids : /\ rowState[i] = "failed"
                            /\ failedAge[i] > Seconds(FailedRetention)}
    IN  /\ pc[w] = "cleanup"
        /\ old # {}
        /\ rowState' = [i \in Ids |-> IF i \in old THEN "gone"
                                                   ELSE rowState[i]]
        /\ attempts' = [i \in Ids |-> IF i \in old THEN 0 ELSE attempts[i]]
        /\ failedAge' = [i \in Ids |-> IF i \in old THEN 0 ELSE failedAge[i]]
        /\ AfterCleanup(w)
        /\ UNCHANGED <<dueIn, older, jobVars, faults, history>>

\* poll.C fires (the select may choose it even when the context is done).
Poll(w) ==
    /\ pc[w] = "poll"
    /\ pc' = [pc EXCEPT ![w] = "claim"]
    /\ UNCHANGED <<rowVars, cancelled, full, started, jobVars, faults, history>>

\* ctx.Done() wins the select of the poll.
Stop(w) ==
    /\ pc[w] = "poll"
    /\ cancelled[w]
    /\ pc' = [pc EXCEPT ![w] = "stopped"]
    /\ UNCHANGED <<rowVars, cancelled, full, started, jobVars, faults, history>>

-------------------------------------------------------------------------------
(* deliver: the outcomes of Send *)

\* Send returns nil.
SendAccepted(w, i) ==
    /\ job[w][i] = "sending"
    /\ Record(w, i, "complete")
    /\ accepted' = [accepted EXCEPT ![i] = TRUE]
    /\ UNCHANGED <<rowVars, loopVars, faults, claims, condemned>>

\* Send fails and the context is cancelled: the row keeps its lease.
SendAborted(w, i) ==
    /\ job[w][i] = "sending"
    /\ cancelled[w]
    /\ Return(w, i)
    /\ UNCHANGED <<rowVars, loopVars, faults, history>>

\* Send returns an error wrapped by Terminal.
SendRejected(w, i) ==
    /\ job[w][i] = "sending"
    /\ ~cancelled[w]
    /\ Record(w, i, "fail")
    /\ condemned' = [condemned EXCEPT ![i] = TRUE]
    /\ UNCHANGED <<rowVars, loopVars, faults, claims, accepted>>

\* Send returns an error wrapped by Conflict.
SendConflict(w, i) ==
    /\ job[w][i] = "sending"
    /\ ~cancelled[w]
    /\ Fault
    /\ Record(w, i, "defer")
    /\ UNCHANGED <<rowVars, loopVars, history>>

\* Send returns an error that is neither; last: it is logged as the last one.
FailedSend(w, i, last) ==
    /\ job[w][i] = "sending"
    /\ ~cancelled[w]
    /\ Record(w, i, "retry")
    /\ condemned' = [condemned EXCEPT ![i] = @ \/ last]
    /\ UNCHANGED <<rowVars, loopVars, faults, claims, accepted>>

\* Slip: the last attempt is logged as one more to be retried.
SendFailedOffByOne(w, i) == FailedSend(w, i, att[w][i] > MaxAttempts)

\* Send returns any other error, the deadline of sendCtx included.
SendFailed(w, i) == FailedSend(w, i, att[w][i] >= MaxAttempts)

-------------------------------------------------------------------------------
(* deliver: the statement that records the outcome *)

\* Slip: the row of a delivered message stays.
CompleteKeepsRow(w, i) ==
    /\ job[w][i] = "complete"
    /\ Return(w, i)
    /\ UNCHANGED <<rowVars, loopVars, faults, history>>

\* DELETE ... WHERE id, whatever became of the row.
Complete(w, i) ==
    /\ job[w][i] = "complete"
    /\ rowState' = [rowState EXCEPT ![i] = "gone"]
    /\ attempts' = [attempts EXCEPT ![i] = 0]
    /\ dueIn' = [dueIn EXCEPT ![i] = 0]
    /\ failedAge' = [failedAge EXCEPT ![i] = 0]
    /\ Return(w, i)
    /\ UNCHANGED <<loopVars, faults, history>>
    /\ Requeue({i})

\* The UPDATE of Retry; exhausted: the CASE of failed_at.
Reschedule(w, i, exhausted) ==
    /\ job[w][i] = "retry"
    /\ rowState' = [rowState EXCEPT ![i] =
                      CASE @ = "gone" -> "gone"
                        [] @ # "gone" /\ exhausted -> "failed"
                        [] @ # "gone" /\ ~exhausted -> "pending"]
    /\ dueIn' = [dueIn EXCEPT ![i] =
                   IF rowState[i] = "gone" \/ exhausted
                   THEN 0 ELSE Seconds(backoffFor(att[w][i]))]
    /\ failedAge' = [failedAge EXCEPT ![i] = 0]
    /\ Return(w, i)
    /\ UNCHANGED <<attempts, loopVars, faults, history>>
    /\ Requeue({i})

\* Slips: one attempt too many, one too few.
RetryTooLate(w, i) == Reschedule(w, i, attempts[i] > MaxAttempts)

RetryTooEarly(w, i) == Reschedule(w, i, attempts[i] >= MaxAttempts - 1)

\* UPDATE ... WHERE id: failed_at is decided by the columns of the row, the
\* pause by the attempts the goroutine claimed.
Retry(w, i) == Reschedule(w, i, attempts[i] >= MaxAttempts)

\* UPDATE ... WHERE id: the attempt is given back, failed_at stays.
Defer(w, i) ==
    /\ job[w][i] = "defer"
    /\ attempts' = [attempts EXCEPT ![i] = IF @ > 0 THEN @ - 1 ELSE 0]
    /\ dueIn' = [dueIn EXCEPT ![i] = IF rowState[i] = "pending"
                                     THEN Seconds(ConflictBackoff) ELSE @]
    /\ Return(w, i)
    /\ UNCHANGED <<rowState, failedAge, loopVars, faults, history>>
    /\ Requeue({i})

\* Slip: a rejected message is deleted like a delivered one.
FailDeletesRow(w, i) ==
    /\ job[w][i] = "fail"
    /\ rowState' = [rowState EXCEPT ![i] = "gone"]
    /\ dueIn' = [dueIn EXCEPT ![i] = 0]
    /\ Return(w, i)
    /\ UNCHANGED <<attempts, failedAge, loopVars, faults, history>>
    /\ Requeue({i})

\* UPDATE ... WHERE id AND failed_at IS NULL.
Fail(w, i) ==
    /\ job[w][i] = "fail"
    /\ rowState' = [rowState EXCEPT ![i] =
                      IF @ = "pending" THEN "failed" ELSE @]
    /\ dueIn' = [dueIn EXCEPT ![i] = 0]
    /\ Return(w, i)
    /\ UNCHANGED <<attempts, failedAge, loopVars, faults, history>>
    /\ Requeue({i})

\* The statement fails, the error is logged and deliver returns.
DbError(w, i) ==
    /\ job[w][i] \in {"complete", "retry", "defer", "fail"}
    /\ \/ cancelled[w] /\ UNCHANGED faults
       \/ Fault
    /\ Return(w, i)
    /\ UNCHANGED <<rowVars, loopVars, history>>

-------------------------------------------------------------------------------
(* The environment *)

\* The process is told to stop: ctx is cancelled.
Cancel(w) ==
    /\ pc[w] \notin {"stopped", "down"}
    /\ ~cancelled[w]
    /\ Fault
    /\ cancelled' = [cancelled EXCEPT ![w] = TRUE]
    /\ UNCHANGED <<rowVars, pc, full, started, jobVars, history>>

\* The process dies.
Crash(w) ==
    /\ pc[w] \notin {"stopped", "down"}
    /\ Fault
    /\ pc' = [pc EXCEPT ![w] = "down"]
    /\ cancelled' = [cancelled EXCEPT ![w] = FALSE]
    /\ full' = [full EXCEPT ![w] = FALSE]
    /\ started' = [started EXCEPT ![w] = 0]
    /\ DropBatch(w)
    /\ UNCHANGED <<rowVars, history>>

\* The process starts again.
Restart(w) ==
    /\ pc[w] \in {"stopped", "down"}
    /\ pc' = [pc EXCEPT ![w] = "claim"]
    /\ cancelled' = [cancelled EXCEPT ![w] = FALSE]
    /\ UNCHANGED <<rowVars, full, started, jobVars, faults, history>>

\* Something a goroutine of w does without waiting: a send at its deadline, a
\* statement, or the next send while a slot of the group is free.
Urgent(w) ==
    \E i \in Ids :
        \/ job[w][i] = "sending" /\ left[w][i] = 0
        \/ job[w][i] \in Busy \ {"sending"}
        \/ job[w][i] = "queued" /\ Cardinality(Running(w)) < Concurrency

\* A unit of time passes.
Tick ==
    /\ Prompt => \A w \in Workers : ~Urgent(w)
    /\ dueIn' = [i \in Ids |-> IF dueIn[i] > 0 THEN dueIn[i] - 1 ELSE 0]
    /\ failedAge' = [i \in Ids |->
                       IF /\ rowState[i] = "failed"
                          /\ failedAge[i] <= Seconds(FailedRetention)
                       THEN failedAge[i] + 1 ELSE failedAge[i]]
    /\ left' = [w \in Workers |-> [i \in Ids |->
                  IF left[w][i] > 0 THEN left[w][i] - 1 ELSE 0]]
    /\ UNCHANGED <<rowState, attempts, loopVars, job, att, faults, history>>
    /\ older' = older \cup (Due \X (Due' \ Due))

-------------------------------------------------------------------------------
\* A step of the goroutine of Run.
RunStep(w) ==
    \/ Claim(w) \/ ClaimEmpty(w) \/ ClaimFails(w) \/ ClaimLost(w)
    \/ BatchDone(w)
    \/ CleanupSkip(w) \/ DeleteOldFailed(w)
    \/ Poll(w) \/ Stop(w)

\* A step of the goroutine of message i.
JobStep(w, i) ==
    \/ StartSend(w, i)
    \/ SendAccepted(w, i) \/ SendAborted(w, i) \/ SendRejected(w, i)
    \/ SendConflict(w, i) \/ SendFailed(w, i)
    \/ Complete(w, i) \/ Retry(w, i) \/ Defer(w, i) \/ Fail(w, i)
    \/ DbError(w, i)

Next ==
    \/ \E i \in Ids : Enqueue(i)
    \/ \E w \in Workers :
        \/ RunStep(w)
        \/ \E i \in Ids : JobStep(w, i)
        \/ Cancel(w) \/ Crash(w) \/ Restart(w)
    \/ Tick

Spec == Init /\ [][Next]_vars

\* What a process does by itself, and that it is started again.
ProcessStep(w) == RunStep(w) \/ (\E i \in Ids : JobStep(w, i)) \/ Restart(w)

\* A running process keeps taking steps, a stopped one is started again and
\* time goes on.  The steps of a batch are finitely many, so that none of its
\* goroutines is left behind.  Nothing forces a message in, a fault or a
\* cancellation.
Fairness == WF_vars(Tick) /\ \A w \in Workers : WF_vars(ProcessStep(w))

FairSpec == Spec /\ Fairness

-------------------------------------------------------------------------------
(* What the outbox promises *)

\* Two replicas never have the same row in hand (the claim of
\* README "How it works": SKIP LOCKED and the lease of Claim).
NoTwoReplicasDeliver ==
    \A i \in Ids : \A v, w \in Workers :
        v # w => job[v][i] = "idle" \/ job[w][i] = "idle"

\* A row leaves the table only if a Send of it succeeded, or an operator was
\* told that it never will, or all of its attempts were spent: neither the
\* cleanup nor a goroutine that lost its lease deletes a message still owed.
NoSilentLoss ==
    \A i \in Ids : rowState[i] = "gone" =>
        accepted[i] \/ condemned[i] \/ claims[i] >= MaxAttempts

\* A row that Fail or Retry marked failed is never put back in the queue.
FailedIsFinal ==
    [][\A i \in Ids : rowState[i] = "failed" =>
                      rowState'[i] \in {"failed", "gone"}]_vars

\* A row is marked failed only after deliver logged "it will never be
\* delivered" for it (the log uses the attempts claimed, Retry the column).
FailedIsAnnounced ==
    \A i \in Ids : rowState[i] = "failed" => condemned[i]

\* Without a crash, a cancellation, a conflict or a failed statement, a
\* message that a Send delivered is never sent again.
NoDuplicateWithoutFault ==
    faults = MaxFaults =>
        \A i \in Ids : accepted[i] =>
            \A w \in Workers : job[w][i] \in {"idle", "complete"}

\* Every claim past max_attempts is paid for by a fault: the column alone
\* never stops Claim, only the failed_at that Retry sets does.
AttemptsBudget ==
    \A i \in Ids : attempts[i] <= MaxAttempts + (MaxFaults - faults)

\* Every message enqueued ends up delivered or failed, whatever crashes, is lost
\* or paused on the way, unless some row has used up its smallint: that one comes
\* first in ORDER BY next_attempt_at from then on, the UPDATE of every batch that
\* has it fails, and it keeps the other rows waiting behind it.
EventuallySettled ==
    <>[](\/ \A i \in Ids : rowState[i] # "pending"
         \/ \E i \in Ids : rowState[i] = "pending" /\ attempts[i] = SmallintMax)

\* Worker.Run returns after its context is cancelled: a behaviour cancels it
\* finitely often, and in the end no cancelled worker is found still at work.
ShutdownCompletes ==
    <>[](\A w \in Workers : cancelled[w] => pc[w] = "stopped")

\* The promise to the producer, as a specification of its own.
Contract == INSTANCE OutboxContract WITH state <- rowState, delivered <- accepted

\* While the leases hold, every step of the outbox is a step of its contract: a
\* message is owed until it is delivered or given up on, and giving up is final.
\* (That nothing is owed for ever is EventuallySettled.)
ImplementsContract == Contract!SafeSpec

===============================================================================
