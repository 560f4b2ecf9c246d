-------------------------------- MODULE Migrate --------------------------------
(***************************************************************************)
(* Up, UpTo and Down of package migrate: processes that migrate one        *)
(* database.  goose and PostgreSQL are the environment: an advisory lock   *)
(* belongs to a session, the pending versions are read once, each is a     *)
(* transaction of its own, and the session of a process that died lives on *)
(* until the server notices.                                               *)
(***************************************************************************)
EXTENDS Integers, Sequences

CONSTANTS
    Migrators,            \* the processes that call the package
    DisableSessionLock,   \* Config.DisableSessionLock
    NoOne, Ghost          \* not in Migrators

ASSUME MigratorsAssumption ==
    /\ DisableSessionLock \in BOOLEAN
    /\ NoOne \notin Migrators /\ Ghost \notin Migrators /\ NoOne # Ghost

VARIABLES
    applied,   \* the table of versions: one entry for each that was applied
    lock,      \* the holder of the advisory lock: a migrator, Ghost or NoOne
    ghostNext, \* what a dead session may still commit: a version, Revert or 0
    mig,       \* [Migrators -> MigStates]
    goal,      \* [Migrators -> Int], the version that the call is to reach, or
               \* Revert for Down
    next       \* [Migrators -> Int], the version it applies next, or Revert

migVars == <<applied, lock, ghostNext, mig, goal, next>>

Revert == -1

MigStates == {"idle", "open", "lock", "read", "apply", "done", "failed"}

MigInit ==
    /\ applied = <<>>
    /\ lock = NoOne
    /\ ghostNext = 0
    /\ mig = [p \in Migrators |-> "idle"]
    /\ goal = [p \in Migrators |-> 0]
    /\ next = [p \in Migrators |-> 0]

-------------------------------------------------------------------------------
\* The table of versions after version v was applied, or the last one reverted.
Recorded(v) ==
    IF v > 0 THEN Append(applied, v)
    ELSE IF applied = <<>> THEN <<>> ELSE SubSeq(applied, 1, Len(applied) - 1)

\* The transaction that p has under way, or 0.
UnderWay(p) ==
    IF mig[p] = "apply" /\ (next[p] = Revert \/ next[p] \in 1..goal[p])
    THEN next[p] ELSE 0

\* The call begins: Up with the last version in the binary, UpTo with another,
\* Down with Revert.
CallMigrate(p, version) ==
    /\ mig' = [mig EXCEPT ![p] = "open"]
    /\ goal' = [goal EXCEPT ![p] = version]
    /\ UNCHANGED <<applied, lock, ghostNext, next>>

\* withProvider returns; closing the handle ends the session and its lock.
CloseDb(p, result) ==
    /\ mig' = [mig EXCEPT ![p] = result]
    /\ lock' = IF lock = p THEN NoOne ELSE lock
    /\ goal' = [goal EXCEPT ![p] = 0]
    /\ next' = [next EXCEPT ![p] = 0]

\* The session of p is lost with its process or its connection: the server
\* goes on with the statement under way and keeps the lock.
LoseSession(p, result) ==
    /\ mig' = [mig EXCEPT ![p] = result]
    /\ goal' = [goal EXCEPT ![p] = 0]
    /\ next' = [next EXCEPT ![p] = 0]
    /\ IF lock = p
       THEN /\ lock' = Ghost
            /\ ghostNext' = UnderWay(p)
       ELSE UNCHANGED <<lock, ghostNext>>
    /\ UNCHANGED applied

\* PingContext succeeds and the provider is made, with the locker or without.
OpenDb(p) ==
    /\ mig[p] = "open"
    /\ mig' = [mig EXCEPT ![p] = IF DisableSessionLock THEN "read" ELSE "lock"]
    /\ UNCHANGED <<applied, lock, ghostNext, goal, next>>

\* Slip: the lock is asked for and its absence is not noticed.
TakeLockAnyway(p) ==
    /\ mig[p] = "lock"
    /\ lock' = p
    /\ mig' = [mig EXCEPT ![p] = "read"]
    /\ UNCHANGED <<applied, ghostNext, goal, next>>

\* pg_try_advisory_lock succeeds.
TakeLock(p) ==
    /\ mig[p] = "lock"
    /\ lock = NoOne
    /\ lock' = p
    /\ mig' = [mig EXCEPT ![p] = "read"]
    /\ UNCHANGED <<applied, ghostNext, goal, next>>

\* Slip: somebody else migrates, so there is nothing to wait for.
LeaveItToOthers(p) ==
    /\ mig[p] = "lock"
    /\ lock # NoOne
    /\ CloseDb(p, "done")
    /\ UNCHANGED <<applied, ghostNext>>

\* The retries of the locker, five minutes of them, are used up.
LockTimesOut(p) ==
    /\ mig[p] = "lock"
    /\ lock # NoOne
    /\ CloseDb(p, "failed")
    /\ UNCHANGED <<applied, ghostNext>>

\* The pending versions are read.  A database that is ahead has none.
ReadVersions(p) ==
    /\ mig[p] = "read"
    /\ mig' = [mig EXCEPT ![p] = "apply"]
    /\ next' = [next EXCEPT ![p] = IF goal[p] = Revert THEN Revert
                                          ELSE Len(applied) + 1]
    /\ UNCHANGED <<applied, lock, ghostNext, goal>>

\* A pending version is applied and recorded.
ApplyNext(p) ==
    /\ UnderWay(p) > 0
    /\ applied' = Recorded(next[p])
    /\ next' = [next EXCEPT ![p] = @ + 1]
    /\ UNCHANGED <<lock, ghostNext, mig, goal>>

\* Down takes the last version back.
RevertLast(p) ==
    /\ UnderWay(p) = Revert
    /\ applied' = Recorded(Revert)
    /\ CloseDb(p, "done")
    /\ UNCHANGED ghostNext

\* Slip: the lock is not given back; its session stays open in the pool of a handle
\* that is not closed.
AppliedAllLocked(p) ==
    /\ mig[p] = "apply"
    /\ UnderWay(p) = 0
    /\ mig' = [mig EXCEPT ![p] = "done"]
    /\ goal' = [goal EXCEPT ![p] = 0]
    /\ next' = [next EXCEPT ![p] = 0]
    /\ UNCHANGED <<applied, lock, ghostNext>>

\* Nothing is pending any more; goose unlocks and withProvider returns nil.
AppliedAll(p) ==
    /\ mig[p] = "apply"
    /\ UnderWay(p) = 0
    /\ CloseDb(p, "done")
    /\ UNCHANGED <<applied, ghostNext>>

\* A statement fails: its transaction is rolled back and Up returns the error.
MigrationFails(p) ==
    /\ mig[p] \in {"open", "read", "apply"}
    /\ CloseDb(p, "failed")
    /\ UNCHANGED <<applied, ghostNext>>

\* The dead session commits the version it was at.
GhostCommits ==
    /\ ghostNext # 0
    /\ applied' = Recorded(ghostNext)
    /\ ghostNext' = 0
    /\ UNCHANGED <<lock, mig, goal, next>>

\* The server ends the dead session, and the lock with it.
GhostEnds ==
    /\ lock = Ghost
    /\ lock' = NoOne
    /\ ghostNext' = 0
    /\ UNCHANGED <<applied, mig, goal, next>>

\* What a call does by itself.
MigStep(p) ==
    \/ OpenDb(p) \/ TakeLock(p) \/ ReadVersions(p)
    \/ ApplyNext(p) \/ RevertLast(p) \/ AppliedAll(p)

GhostStep == GhostCommits \/ GhostEnds

===============================================================================
