---------------------------- MODULE StartupProofs ----------------------------
(***************************************************************************)
(* Proofs about Startup, for every set of replicas, every version of their *)
(* binaries and every number of faults.  They are about the configuration  *)
(* of the package: migrations take the session lock.                       *)
(***************************************************************************)
EXTENDS Startup, TLAPS

-------------------------------------------------------------------------------
(* Types *)

TypeOK ==
    /\ applied \in Seq(Nat)
    /\ lock \in Migrators \cup {Ghost, NoOne}
    /\ ghostNext \in Int
    /\ mig \in [Migrators -> MigStates]
    /\ goal \in [Migrators -> Int]
    /\ next \in [Migrators -> Int]
    /\ boot \in [Replicas -> BootStates]
    /\ away \in Stores \cup {"none"}
    /\ bucket \in BOOLEAN
    /\ rule \in BOOLEAN
    /\ downgraded \in BOOLEAN
    /\ faults \in Nat

USE DEF MigStates, BootStates, Stores, Revert

\* Every replica migrates.
LEMMA ReplicasMigrate == Replicas \subseteq Migrators /\ Operator \in Migrators
  BY ReplicasAssumption

\* The table of versions stays one when a version is recorded or taken back.
LEMMA RecordedType ==
  ASSUME applied \in Seq(Nat), NEW v \in Int
  PROVE  Recorded(v) \in Seq(Nat)
<1>1. CASE v > 0
  BY <1>1 DEF Recorded
<1>2. CASE ~(v > 0) /\ applied = <<>>
  BY <1>2 DEF Recorded
<1>3. CASE ~(v > 0) /\ applied # <<>>
  BY <1>3 DEF Recorded
<1> QED BY <1>1, <1>2, <1>3

\* Init establishes the types.
LEMMA InitType == Init => TypeOK
<1> SUFFICES ASSUME Init PROVE TypeOK
  OBVIOUS
<1>1. applied \in Seq(Nat)
  BY DEF Init, MigInit
<1>2. bucket \in BOOLEAN /\ rule \in BOOLEAN /\ downgraded \in BOOLEAN
  BY DEF Init
<1> QED BY <1>1, <1>2, ReplicasAssumption DEF Init, MigInit, TypeOK

\* The steps of a call of the package preserve the types.
LEMMA MigratingType ==
  ASSUME TypeOK, NEW p \in Migrators, Migrating(p) \/ MigratingFails(p) \/ GhostWorks
  PROVE  TypeOK'
<1> USE DEF TypeOK, bootVars, Remember, CloseDb, LoseSession, UnderWay, Fault
<1>1. CASE Migrating(p)
  <2>1. downgraded' \in BOOLEAN
    BY <1>1 DEF Migrating
  <2> USE <2>1 DEF Migrating
  <2>2. CASE OpenDb(p)
    BY <1>1, <2>2 DEF OpenDb
  <2>3. CASE TakeLock(p)
    BY <1>1, <2>3 DEF TakeLock
  <2>4. CASE ReadVersions(p)
    BY <1>1, <2>4 DEF ReadVersions
  <2>5. CASE ApplyNext(p)
    <3>1. applied' \in Seq(Nat)
      BY <2>5, RecordedType DEF ApplyNext
    <3> QED BY <1>1, <2>5, <3>1 DEF ApplyNext
  <2>6. CASE RevertLast(p)
    <3>1. applied' \in Seq(Nat)
      BY <2>6, RecordedType DEF RevertLast
    <3> QED BY <1>1, <2>6, <3>1 DEF RevertLast
  <2>7. CASE AppliedAll(p)
    BY <1>1, <2>7 DEF AppliedAll
  <2> QED BY <1>1, <2>2, <2>3, <2>4, <2>5, <2>6, <2>7 DEF MigStep
<1>2. CASE MigratingFails(p)
  <2>1. faults' \in Nat
    BY <1>2 DEF MigratingFails
  <2>2. CASE MigrationFails(p) \/ LockTimesOut(p)
    <3>1. CloseDb(p, "failed") /\ UNCHANGED <<applied, ghostNext>>
      BY <2>2 DEF MigrationFails, LockTimesOut
    <3> QED BY <1>2, <2>1, <3>1 DEF MigratingFails
  <2>3. CASE LoseSession(p, "failed")
    BY <1>2, <2>1, <2>3 DEF MigratingFails
  <2> QED BY <1>2, <2>2, <2>3 DEF MigratingFails
<1>3. CASE GhostWorks
  <2>1. downgraded' \in BOOLEAN
    BY <1>3 DEF GhostWorks
  <2>2. CASE GhostCommits
    <3>1. applied' \in Seq(Nat)
      BY <2>2, RecordedType DEF GhostCommits
    <3> QED BY <1>3, <2>1, <2>2, <3>1 DEF GhostWorks, GhostCommits
  <2>3. CASE GhostEnds
    BY <1>3, <2>1, <2>3 DEF GhostWorks, GhostEnds
  <2> QED BY <1>3, <2>2, <2>3 DEF GhostWorks, GhostStep
<1> QED BY <1>1, <1>2, <1>3

\* Every step preserves the types.
LEMMA StepType == TypeOK /\ [Next]_vars => TypeOK'
<1> SUFFICES ASSUME TypeOK, [Next]_vars PROVE TypeOK'
  OBVIOUS
<1> USE ReplicasMigrate, ReplicasAssumption
    DEF TypeOK, migVars, bootVars, Goto, CallMigrate, LoseSession, UnderWay, Fault
<1>1. ASSUME NEW r \in Replicas, Start(r) PROVE TypeOK'
  <2>1. CASE Versions[r] > 0
    <3>1. Versions[r] \in Int /\ r \in Migrators
      OBVIOUS
    <3>2. Goto(r, "migrate") /\ CallMigrate(r, Versions[r])
      BY <1>1, <2>1 DEF Start
    <3> QED BY <1>1, <3>1, <3>2 DEF Start
  <2>2. CASE ~(Versions[r] > 0)
    BY <1>1, <2>2 DEF Start
  <2> QED BY <2>1, <2>2
<1>2. ASSUME NEW r \in Replicas, Migrated(r) PROVE TypeOK'
  BY <1>2 DEF Migrated
<1>3. ASSUME NEW r \in Replicas, OpenPool(r) \/ OpenRedis(r) \/ CheckBucket(r)
      PROVE  TypeOK'
  BY <1>3 DEF OpenPool, OpenRedis, CheckBucket, Opening
<1>4. ASSUME NEW r \in Replicas, MakeBucket(r) PROVE TypeOK'
  BY <1>4 DEF MakeBucket
<1>5. ASSUME NEW r \in Replicas, ApplyLifecycle(r) PROVE TypeOK'
  BY <1>5 DEF ApplyLifecycle
<1>6. ASSUME NEW r \in Replicas, Dial(r) \/ DialTimesOut(r) PROVE TypeOK'
  BY <1>6 DEF Dial, DialTimesOut
<1>7. ASSUME NEW r \in Replicas, Kill(r) PROVE TypeOK'
  BY <1>7 DEF Kill
<1>8. CASE OperatorCalls
  BY <1>8 DEF OperatorCalls
<1>9. CASE Outage \/ Recovery
  BY <1>9 DEF Outage, Recovery
<1>10. CASE UNCHANGED vars
  BY <1>10 DEF vars
<1>11. ASSUME NEW p \in Migrators,
              Migrating(p) \/ MigratingFails(p) \/ GhostWorks
       PROVE  TypeOK'
  BY <1>11, MigratingType
<1> QED BY <1>1, <1>2, <1>3, <1>4, <1>5, <1>6, <1>7, <1>8, <1>9, <1>10, <1>11
        DEF Next, BootStep

-------------------------------------------------------------------------------
(* Migrations *)

\* Who is past the lock holds it, and goes on where the table ends; a dead
\* session that may still commit holds the lock too.
LockInv ==
    /\ \A p \in Migrators :
        /\ mig[p] \in {"read", "apply"} => lock = p
        /\ mig[p] = "apply" =>
            next[p] = IF goal[p] = Revert THEN Revert ELSE Len(applied) + 1
    /\ ghostNext # 0 =>
        lock = Ghost /\ ghostNext \in {Revert, Len(applied) + 1}

\* A migration under way is the last one's revert or the one after the last.
LEMMA UnderWayNext ==
  ASSUME TypeOK, LockInv, NEW p \in Migrators
  PROVE  UnderWay(p) \in {0, Revert, Len(applied) + 1}
  BY DEF TypeOK, LockInv, UnderWay

\* Recording the version after the last, or taking the last one back, leaves
\* the versions 1..n.
LEMMA RecordedOnce ==
  ASSUME TypeOK, AppliedOnce, NEW v \in {Revert, Len(applied) + 1},
         applied' = Recorded(v)
  PROVE  /\ AppliedOnce'
         /\ Len(applied') = IF v = Revert
                            THEN IF Len(applied) = 0 THEN 0 ELSE Len(applied) - 1
                            ELSE Len(applied) + 1
<1> USE DEF TypeOK, AppliedOnce
<1>1. CASE v = Len(applied) + 1
  <2>1. applied' = Append(applied, v) /\ v # Revert
    BY <1>1 DEF Recorded
  <2>2. Len(applied') = Len(applied) + 1
        /\ \A i \in 1..Len(applied') :
             applied'[i] = IF i <= Len(applied) THEN applied[i] ELSE v
    BY <2>1
  <2>3. DOMAIN applied' = 1..Len(applied') /\ DOMAIN applied = 1..Len(applied)
    BY <2>1
  <2> QED BY <1>1, <2>1, <2>2, <2>3
<1>2. CASE v = Revert /\ applied = <<>>
  BY <1>2 DEF Recorded
<1>3. CASE v = Revert /\ applied # <<>>
  <2> DEFINE n == Len(applied) - 1
             t == SubSeq(applied, 1, n)
  <2>1. applied' = t /\ n \in Nat /\ Len(applied) = n + 1
    BY <1>3 DEF Recorded
  <2>2. Len(t) = n /\ DOMAIN t = 1..n
    BY <2>1
  <2>3. \A i \in 1..n : t[i] = applied[i] /\ i \in DOMAIN applied
    BY <2>1
  <2> HIDE DEF n, t
  <2>4. AppliedOnce'
    BY <2>1, <2>2, <2>3
  <2>5. Len(applied') = n /\ Len(applied) # 0
    BY <2>1, <2>2
  <2> QED BY <1>3, <2>1, <2>4, <2>5
<1> QED BY <1>1, <1>2, <1>3

\* A step of a call of the package, or of a dead session, preserves both.
LEMMA MigratingOnce ==
  ASSUME ~DisableSessionLock, TypeOK, LockInv, AppliedOnce, NEW p \in Migrators,
         MigStep(p) \/ MigrationFails(p) \/ LockTimesOut(p) \/ GhostStep
  PROVE  LockInv' /\ AppliedOnce'
<1> USE MigratorsAssumption DEF TypeOK, LockInv
<1>1. CASE OpenDb(p)
  BY <1>1 DEF OpenDb, AppliedOnce
<1>2. CASE TakeLock(p)
  BY <1>2 DEF TakeLock, AppliedOnce
<1>3. CASE ReadVersions(p)
  BY <1>3 DEF ReadVersions, AppliedOnce
<1>4. CASE ApplyNext(p)
  <2>1. /\ mig[p] = "apply" /\ lock = p /\ goal[p] # Revert
        /\ next[p] = Len(applied) + 1 /\ ghostNext = 0
    BY <1>4 DEF ApplyNext, UnderWay
  <2>2. AppliedOnce' /\ Len(applied') = Len(applied) + 1
    BY <1>4, <2>1, RecordedOnce DEF ApplyNext
  <2> QED BY <1>4, <2>1, <2>2 DEF ApplyNext
<1>5. CASE RevertLast(p)
  <2>1. mig[p] = "apply" /\ lock = p /\ ghostNext = 0
    BY <1>5 DEF RevertLast, UnderWay
  <2>2. AppliedOnce'
    BY <1>5, RecordedOnce DEF RevertLast
  <2> QED BY <1>5, <2>1, <2>2 DEF RevertLast, CloseDb
<1>6. CASE AppliedAll(p) \/ MigrationFails(p) \/ LockTimesOut(p)
  <2>1. AppliedOnce' /\ Len(applied') = Len(applied) /\ ghostNext' = ghostNext
    BY <1>6 DEF AppliedAll, MigrationFails, LockTimesOut, CloseDb, AppliedOnce
  <2>2. PICK result \in {"done", "failed"} : CloseDb(p, result)
    BY <1>6 DEF AppliedAll, MigrationFails, LockTimesOut
  <2>3. ASSUME NEW q \in Migrators, q # p
        PROVE  /\ mig'[q] = mig[q] /\ next'[q] = next[q] /\ goal'[q] = goal[q]
               /\ mig[q] \in {"read", "apply"} => lock' = q
    BY <2>2, <2>3 DEF CloseDb
  <2>4. mig'[p] \notin {"read", "apply"}
    BY <2>2 DEF CloseDb
  <2>5. ghostNext # 0 => lock' = Ghost
    BY <2>2 DEF CloseDb
  <2> QED BY <2>1, <2>3, <2>4, <2>5
<1>7. CASE GhostCommits
  <2>1. lock = Ghost /\ ghostNext \in {Revert, Len(applied) + 1}
    BY <1>7 DEF GhostCommits
  <2>2. AppliedOnce'
    BY <1>7, <2>1, RecordedOnce DEF GhostCommits
  <2>3. \A q \in Migrators : mig[q] \notin {"read", "apply"}
    BY <2>1
  <2> QED BY <1>7, <2>2, <2>3 DEF GhostCommits
<1>8. CASE GhostEnds
  BY <1>8 DEF GhostEnds, AppliedOnce
<1> QED BY <1>1, <1>2, <1>3, <1>4, <1>5, <1>6, <1>7, <1>8
        DEF MigStep, GhostStep

\* A session that is lost keeps the lock and what it had under way.
LEMMA LoseSessionOnce ==
  ASSUME TypeOK, LockInv, AppliedOnce, NEW p \in Migrators,
         NEW result \in {"idle", "failed"}, LoseSession(p, result)
  PROVE  LockInv' /\ AppliedOnce'
  BY UnderWayNext, MigratorsAssumption
     DEF TypeOK, LockInv, AppliedOnce, LoseSession

\* Every step preserves both.
LEMMA StepOnce ==
  ASSUME ~DisableSessionLock
  PROVE  TypeOK /\ LockInv /\ AppliedOnce /\ [Next]_vars => LockInv' /\ AppliedOnce'
<1> SUFFICES ASSUME TypeOK, LockInv, AppliedOnce, [Next]_vars
             PROVE  LockInv' /\ AppliedOnce'
  OBVIOUS
<1>1. CASE UNCHANGED migVars
  BY <1>1 DEF migVars, LockInv, AppliedOnce
<1>2. ASSUME NEW p \in Migrators, NEW v, CallMigrate(p, v)
      PROVE  LockInv' /\ AppliedOnce'
  BY <1>2 DEF CallMigrate, LockInv, AppliedOnce, TypeOK
<1>3. ASSUME NEW r \in Replicas, Start(r) PROVE LockInv' /\ AppliedOnce'
  BY <1>1, <1>2, <1>3, ReplicasMigrate DEF Start
<1>4. ASSUME NEW r \in Replicas, Migrated(r) PROVE LockInv' /\ AppliedOnce'
  BY <1>4, ReplicasMigrate DEF Migrated, LockInv, AppliedOnce, TypeOK
<1>5. ASSUME NEW r \in Replicas, Kill(r) PROVE LockInv' /\ AppliedOnce'
  BY <1>5, LoseSessionOnce, ReplicasMigrate DEF Kill
<1>6. ASSUME NEW p \in Migrators, Migrating(p) \/ GhostWorks
      PROVE  LockInv' /\ AppliedOnce'
  BY <1>6, MigratingOnce DEF Migrating, GhostWorks
<1>7. ASSUME NEW p \in Migrators, MigratingFails(p)
      PROVE  LockInv' /\ AppliedOnce'
  BY <1>7, MigratingOnce, LoseSessionOnce DEF MigratingFails
<1>8. CASE OperatorCalls
  BY <1>2, <1>8, ReplicasMigrate DEF OperatorCalls
<1>9. ASSUME NEW r \in Replicas, BootStep(r) \/ Dial(r) \/ DialTimesOut(r)
      PROVE  LockInv' /\ AppliedOnce'
  BY <1>1, <1>9 DEF BootStep, OpenPool, OpenRedis, CheckBucket, Opening,
     MakeBucket, ApplyLifecycle, Dial, DialTimesOut
<1>10. CASE Outage \/ Recovery \/ UNCHANGED vars
  BY <1>1, <1>10 DEF Outage, Recovery, vars
<1> QED BY <1>3, <1>4, <1>5, <1>6, <1>7, <1>8, <1>9, <1>10, ReplicasMigrate DEF Next

\* With the session lock, however many replicas start at once, are killed in the
\* middle of a migration or leave a session behind that still commits: each
\* version is applied once and in order.
THEOREM MigratedOnce ==
  ASSUME ~DisableSessionLock
  PROVE  Spec => []AppliedOnce
<1>1. Init => LockInv /\ AppliedOnce
  BY DEF Init, MigInit, LockInv, AppliedOnce
<1>2. TypeOK /\ LockInv /\ AppliedOnce /\ [Next]_vars => LockInv' /\ AppliedOnce'
  BY StepOnce
<1> QED BY <1>1, <1>2, InitType, StepType, PTL DEF Spec

-------------------------------------------------------------------------------
(* Readiness *)

HasSchema(r) == downgraded \/ Len(applied) >= Versions[r]

\* Where main is tells what it has been through: a call of Up is under way only
\* in "migrate", for the version of the binary; after it the schema is there,
\* and later the bucket and its rule.
MainInv ==
    /\ CreateBucket \/ bucket
    /\ \A r \in Replicas :
        /\ mig[r] # "idle" => boot[r] = "migrate"
        /\ mig[r] \in {"open", "lock", "read", "apply"} => goal[r] = Versions[r]
        /\ mig[r] = "done" => HasSchema(r)
        /\ boot[r] \notin {"down", "migrate"} => HasSchema(r)
        /\ boot[r] \in {"rule", "dial", "up"} => bucket
        /\ boot[r] \in {"dial", "up"} => (Staging => rule)

\* A table that loses no version, or loses it and is remembered, is no worse.
LEMMA SchemaStays ==
  ASSUME TypeOK, TypeOK', NEW r \in Replicas, HasSchema(r),
         Remember \/ UNCHANGED <<applied, downgraded>>
  PROVE  HasSchema(r)'
  BY ReplicasAssumption DEF HasSchema, Remember, TypeOK

\* A step of a call of the package preserves what main has been through.
LEMMA MigratingMain ==
  ASSUME TypeOK, TypeOK', LockInv, MainInv, NEW p \in Migrators, Migrating(p)
  PROVE  MainInv'
<1>1. \A r \in Replicas : HasSchema(r) => HasSchema(r)'
  BY SchemaStays DEF Migrating
<1>2. \A r \in Replicas : r \in Migrators /\ Versions[r] \in Nat
  BY ReplicasAssumption
<1> USE <1>1, <1>2 DEF TypeOK, MainInv, Migrating, bootVars
<1>3. CASE OpenDb(p)
  BY <1>3 DEF OpenDb
<1>4. CASE TakeLock(p)
  BY <1>4 DEF TakeLock
<1>5. CASE ReadVersions(p)
  BY <1>5 DEF ReadVersions
<1>6. CASE ApplyNext(p)
  BY <1>6 DEF ApplyNext
<1>7. CASE RevertLast(p)
  <2>1. next[p] = Revert /\ mig[p] = "apply"
    BY <1>7 DEF RevertLast, UnderWay
  <2>2. goal[p] = Revert
    BY <2>1 DEF LockInv
  <2>3. p \notin Replicas
    <3> SUFFICES ASSUME p \in Replicas PROVE FALSE
      OBVIOUS
    <3>1. goal[p] = Versions[p] /\ Versions[p] \in Nat
      BY <2>1
    <3> QED BY <2>2, <3>1
  <2> QED BY <1>7, <2>3 DEF RevertLast, CloseDb
<1>8. CASE AppliedAll(p)
  <2>1. p \in Replicas => HasSchema(p)
    <3> SUFFICES ASSUME p \in Replicas PROVE HasSchema(p)
      OBVIOUS
    <3>1. goal[p] = Versions[p] /\ mig[p] = "apply" /\ UnderWay(p) = 0
      BY <1>8 DEF AppliedAll
    <3>2. next[p] = Len(applied) + 1
      BY <3>1 DEF LockInv
    <3> QED BY <3>1, <3>2 DEF UnderWay, HasSchema
  <2> QED BY <1>8, <2>1 DEF AppliedAll, CloseDb
<1> QED BY <1>3, <1>4, <1>5, <1>6, <1>7, <1>8 DEF MigStep

\* Every step preserves what main has been through.
LEMMA StepMain == TypeOK /\ TypeOK' /\ LockInv /\ MainInv /\ [Next]_vars => MainInv'
<1> SUFFICES ASSUME TypeOK, TypeOK', LockInv, MainInv, [Next]_vars PROVE MainInv'
  OBVIOUS
<1>1. \A r \in Replicas : r \in Migrators /\ Versions[r] \in Nat
                          /\ r # Operator
  BY ReplicasAssumption
<1>2. ASSUME UNCHANGED <<applied, downgraded>>
      PROVE  \A r \in Replicas : HasSchema(r) => HasSchema(r)'
  BY <1>2, SchemaStays
<1> USE <1>1 DEF TypeOK, MainInv, migVars, bootVars, Goto
<1>3. ASSUME NEW r \in Replicas, Start(r) PROVE MainInv'
  <2>1. CASE Versions[r] > 0
    BY <1>2, <1>3, <2>1 DEF Start, CallMigrate
  <2>2. CASE ~(Versions[r] > 0)
    <3>1. HasSchema(r)'
      <4>1. Versions[r] \in Nat
        BY <1>1, Zenon
      <4>2. Versions[r] = 0
        BY ONLY <2>2, <4>1
      <4>3. Len(applied') \in Nat
        BY DEF TypeOK
      <4> QED BY ONLY <4>2, <4>3 DEF HasSchema
    <3>2. /\ boot' = [boot EXCEPT ![r] = "redis"] /\ boot[r] = "down"
          /\ UNCHANGED <<mig, goal, applied, bucket, rule, downgraded>>
      BY <1>3, <2>2 DEF Start
    <3>3. \A q \in Replicas : HasSchema(q) => HasSchema(q)'
      BY <1>2, <3>2
    <3> HIDE DEF HasSchema
    <3> QED BY <3>1, <3>2, <3>3
  <2> QED BY <2>1, <2>2
<1>4. ASSUME NEW r \in Replicas, Migrated(r) PROVE MainInv'
  BY <1>2, <1>4 DEF Migrated
<1>5. ASSUME NEW r \in Replicas, Kill(r) PROVE MainInv'
  BY <1>2, <1>5 DEF Kill, LoseSession
<1>6. ASSUME NEW p \in Migrators, Migrating(p) PROVE MainInv'
  BY <1>6, MigratingMain
<1>7. ASSUME NEW p \in Migrators, MigratingFails(p) PROVE MainInv'
  <2>1. /\ mig[p] # "idle"
        /\ mig' = [mig EXCEPT ![p] = "failed"]
        /\ goal' = [goal EXCEPT ![p] = 0]
        /\ UNCHANGED <<applied, downgraded, boot, bucket, rule>>
    BY <1>7 DEF MigratingFails, MigrationFails, LockTimesOut, CloseDb, LoseSession
  <2> QED BY <1>2, <2>1
<1>8. CASE GhostWorks
  <2>1. \A r \in Replicas : HasSchema(r) => HasSchema(r)'
    BY <1>8, SchemaStays DEF GhostWorks
  <2>2. UNCHANGED <<mig, goal>>
    BY <1>8 DEF GhostWorks, GhostStep, GhostCommits, GhostEnds
  <2> QED BY <1>8, <2>1, <2>2 DEF GhostWorks
<1>9. CASE OperatorCalls
  BY <1>2, <1>9 DEF OperatorCalls, CallMigrate
<1>10. ASSUME NEW r \in Replicas, OpenPool(r) \/ OpenRedis(r) \/ CheckBucket(r)
       PROVE  MainInv'
  BY <1>2, <1>10 DEF OpenPool, OpenRedis, CheckBucket, Opening
<1>11. ASSUME NEW r \in Replicas, MakeBucket(r) PROVE MainInv'
  BY <1>2, <1>11 DEF MakeBucket
<1>12. ASSUME NEW r \in Replicas, ApplyLifecycle(r) PROVE MainInv'
  BY <1>2, <1>12 DEF ApplyLifecycle
<1>13. ASSUME NEW r \in Replicas, Dial(r) \/ DialTimesOut(r) PROVE MainInv'
  <2>1. /\ boot[r] = "dial" /\ UNCHANGED <<mig, goal, applied, downgraded, bucket, rule>>
        /\ \/ boot' = [boot EXCEPT ![r] = "up"]
           \/ boot' = [boot EXCEPT ![r] = "down"]
    BY <1>13 DEF Dial, DialTimesOut
  <2>2. \A q \in Replicas : HasSchema(q) => HasSchema(q)'
    BY <1>2, <2>1
  <2> HIDE DEF HasSchema
  <2> QED BY <2>1, <2>2
<1>14. CASE Outage \/ Recovery \/ UNCHANGED vars
  BY <1>2, <1>14 DEF Outage, Recovery, vars
<1> QED BY <1>3, <1>4, <1>5, <1>6, <1>7, <1>8, <1>9, <1>10, <1>11, <1>12, <1>13,
           <1>14 DEF Next, BootStep

\* With the session lock, whatever is killed or away when and however replicas
\* race for the bucket: a replica that answers /readyz with success has the
\* schema of its binary unless an operator took it back, and its bucket with
\* its rule.
THEOREM ReadyIsUsable ==
  ASSUME ~DisableSessionLock
  PROVE  Spec => []ReadyMeansUsable
<1>1. Init => LockInv /\ AppliedOnce /\ MainInv
  <2> SUFFICES ASSUME Init PROVE LockInv /\ AppliedOnce /\ MainInv
    OBVIOUS
  <2>1. LockInv /\ AppliedOnce
    BY DEF Init, MigInit, LockInv, AppliedOnce
  <2>2. \A r \in Replicas : mig[r] = "idle" /\ boot[r] = "down"
    BY ReplicasMigrate DEF Init, MigInit
  <2> QED BY <2>1, <2>2 DEF Init, MainInv
<1>2. TypeOK /\ LockInv /\ AppliedOnce /\ [Next]_vars => LockInv' /\ AppliedOnce'
  BY StepOnce
<1>3. MainInv => ReadyMeansUsable
  BY DEF MainInv, HasSchema, ReadyMeansUsable, Readyz
<1> QED BY <1>1, <1>2, <1>3, InitType, StepType, StepMain, PTL DEF Spec

-------------------------------------------------------------------------------
(* The lock and the direction of a start *)

\* The advisory lock is held by whoever works under it and by nobody else, a dead
\* session apart: a call of the package that has returned, with an error or without,
\* has left no lock behind in a process that lives.
LockIsExact == \A p \in Migrators : lock = p <=> mig[p] \in {"read", "apply"}

\* A start never takes a version back, not even that of a binary older than the
\* database; nor does the session that a replica leaves behind when it dies.
StartNeverReverts ==
    [][\A r \in Replicas :
        /\ Migrating(r) => Len(applied') >= Len(applied)
        /\ Kill(r) \/ MigratingFails(r) =>
             (ghostNext' = Revert => ghostNext = Revert)]_vars

\* The half of LockIsExact that LockInv does not say.
HolderWorks == \A p \in Migrators : lock = p => mig[p] \in {"read", "apply"}

\* Every step preserves it: the lock is taken on the way into the work, and every way
\* out of it, errors and the end of the process included, gives it up.
LEMMA StepHolder == TypeOK /\ MainInv /\ HolderWorks /\ [Next]_vars => HolderWorks'
<1> SUFFICES ASSUME TypeOK, MainInv, HolderWorks, [Next]_vars PROVE HolderWorks'
  OBVIOUS
<1> USE MigratorsAssumption, ReplicasMigrate DEF TypeOK, HolderWorks
<1>1. CASE UNCHANGED <<lock, mig>>
  BY <1>1
<1>2. ASSUME NEW r \in Replicas, Start(r) PROVE HolderWorks'
  BY <1>2 DEF Start, CallMigrate, migVars, MainInv
<1>3. ASSUME NEW r \in Replicas, Migrated(r) PROVE HolderWorks'
  BY <1>3 DEF Migrated
<1>4. ASSUME NEW p \in Migrators, NEW result \in {"idle", "failed", "done"},
             CloseDb(p, result) \/ LoseSession(p, result)
      PROVE  HolderWorks'
  BY <1>4 DEF CloseDb, LoseSession
<1>5. ASSUME NEW r \in Replicas, Kill(r) PROVE HolderWorks'
  BY <1>4, <1>5 DEF Kill
<1>6. ASSUME NEW p \in Migrators, MigStep(p) PROVE HolderWorks'
  <2>1. CASE OpenDb(p)
    BY <2>1 DEF OpenDb
  <2>2. CASE TakeLock(p)
    BY <2>2 DEF TakeLock
  <2>3. CASE ReadVersions(p)
    BY <2>3 DEF ReadVersions
  <2>4. CASE ApplyNext(p)
    BY <2>4 DEF ApplyNext
  <2>5. CASE RevertLast(p) \/ AppliedAll(p)
    BY <1>4, <2>5 DEF RevertLast, AppliedAll
  <2> QED BY <1>6, <2>1, <2>2, <2>3, <2>4, <2>5 DEF MigStep
<1>7. ASSUME NEW p \in Migrators, MigratingFails(p) PROVE HolderWorks'
  BY <1>4, <1>7 DEF MigratingFails, MigrationFails, LockTimesOut
<1>8. CASE GhostWorks
  BY <1>8 DEF GhostWorks, GhostStep, GhostCommits, GhostEnds
<1>9. CASE OperatorCalls
  BY <1>9 DEF OperatorCalls, CallMigrate
<1>10. ASSUME NEW r \in Replicas, BootStep(r) \/ Dial(r) \/ DialTimesOut(r)
       PROVE  HolderWorks'
  BY <1>1, <1>10 DEF BootStep, OpenPool, OpenRedis, CheckBucket, Opening,
     MakeBucket, ApplyLifecycle, Dial, DialTimesOut, migVars
<1>11. CASE Outage \/ Recovery \/ UNCHANGED vars
  BY <1>1, <1>11 DEF Outage, Recovery, vars, migVars
<1> QED BY <1>2, <1>3, <1>5, <1>6, <1>7, <1>8, <1>9, <1>10, <1>11
        DEF Next, Migrating

\* The invariants of this module together hold of every behaviour.
LEMMA StartupInv ==
  ASSUME ~DisableSessionLock
  PROVE  Spec => [](TypeOK /\ LockInv /\ MainInv /\ HolderWorks)
<1>1. Init => LockInv /\ AppliedOnce /\ MainInv /\ HolderWorks
  <2> SUFFICES ASSUME Init PROVE LockInv /\ AppliedOnce /\ MainInv /\ HolderWorks
    OBVIOUS
  <2>1. LockInv /\ AppliedOnce
    BY DEF Init, MigInit, LockInv, AppliedOnce
  <2>2. \A r \in Replicas : mig[r] = "idle" /\ boot[r] = "down"
    BY ReplicasMigrate DEF Init, MigInit
  <2>3. MainInv
    BY <2>2 DEF Init, MainInv
  <2>4. HolderWorks
    BY MigratorsAssumption DEF Init, MigInit, HolderWorks
  <2> QED BY <2>1, <2>3, <2>4
<1>2. TypeOK /\ LockInv /\ AppliedOnce /\ [Next]_vars => LockInv' /\ AppliedOnce'
  BY StepOnce
<1> QED BY <1>1, <1>2, InitType, StepType, StepMain, StepHolder, PTL DEF Spec

\* With the session lock, whoever is killed, cut off or refused by a statement when:
\* the lock is held exactly by the call that works under it.
THEOREM LockIsNeverOrphaned ==
  ASSUME ~DisableSessionLock
  PROVE  Spec => []LockIsExact
<1>1. TypeOK /\ LockInv /\ HolderWorks => LockIsExact
  BY DEF LockInv, HolderWorks, LockIsExact
<1> QED BY <1>1, StartupInv, PTL

\* With the session lock, replicas of different versions, old ones started again over
\* a newer database included, only ever add versions.
THEOREM StartsOnlyAdd ==
  ASSUME ~DisableSessionLock
  PROVE  Spec => StartNeverReverts
<1> DEFINE Adds ==
        \A r \in Replicas :
            /\ Migrating(r) => Len(applied') >= Len(applied)
            /\ Kill(r) \/ MigratingFails(r) =>
                 (ghostNext' = Revert => ghostNext = Revert)
<1>1. TypeOK /\ LockInv /\ MainInv => Adds
  <2> SUFFICES ASSUME TypeOK, LockInv, MainInv, NEW r \in Replicas
               PROVE  /\ Migrating(r) => Len(applied') >= Len(applied)
                      /\ Kill(r) \/ MigratingFails(r) =>
                           (ghostNext' = Revert => ghostNext = Revert)
    OBVIOUS
  <2>1. r \in Migrators /\ Versions[r] \in Nat
    BY ReplicasAssumption
  <2>2. mig[r] = "apply" => goal[r] = Versions[r] /\ next[r] = Len(applied) + 1
    BY <2>1 DEF MainInv, LockInv, TypeOK
  <2>3. Len(applied) \in Nat
    BY DEF TypeOK
  <2>4. UnderWay(r) # Revert
    BY <2>1, <2>2, <2>3 DEF UnderWay
  <2>5. ASSUME Migrating(r) PROVE Len(applied') >= Len(applied)
    <3>1. CASE ApplyNext(r)
      <4>1. next[r] = Len(applied) + 1 /\ next[r] > 0
        BY <2>2, <2>3, <3>1 DEF ApplyNext, UnderWay
      <4>2. applied' = Append(applied, next[r])
        BY <3>1, <4>1 DEF ApplyNext, Recorded
      <4> QED BY <2>3, <4>1, <4>2 DEF TypeOK
    <3>2. CASE UNCHANGED applied
      BY <2>3, <3>2
    <3> QED BY <2>4, <2>5, <3>1, <3>2
            DEF Migrating, MigStep, OpenDb, TakeLock, ReadVersions, RevertLast,
            AppliedAll
  <2>6. ASSUME NEW result, LoseSession(r, result)
        PROVE  ghostNext' = Revert => ghostNext = Revert
    BY <2>4, <2>6 DEF LoseSession
  <2> QED BY <2>5, <2>6
          DEF Kill, MigratingFails, MigrationFails, LockTimesOut
<1>2. TypeOK /\ LockInv /\ MainInv /\ [Next]_vars => [Adds]_vars
  BY <1>1
<1>3. (Spec => [][Adds]_vars) => (Spec => StartNeverReverts)
  BY DEF StartNeverReverts
<1> HIDE DEF Adds
<1> QED BY <1>2, <1>3, StartupInv, PTL DEF Spec

===============================================================================
