-------------------------------- MODULE Startup --------------------------------
(***************************************************************************)
(* How the replicas of a service come up: migrate.Up, postgresql.Open,     *)
(* redisclient.Open, filestorage.Open and grpcclient.New with              *)
(* WaitForConnection, in the order in which a main calls them; then /readyz *)
(* of httpserver.Ops answers from the flag and the checks.  Any error ends *)
(* the process, which is started again.  Replicas may have different       *)
(* versions of the service, and an operator migrates by hand.              *)
(***************************************************************************)
EXTENDS Migrate

CONSTANTS
    Replicas,
    Operator,       \* a migrator that is no replica
    Versions,       \* [Replicas -> Nat], the last migration in the binary; 0
                    \* for a service without a database
    Needs,          \* [Replicas -> SUBSET Replicas], who serves its Target; {}
                    \* if it dials nobody or does not wait
    CreateBucket,   \* S3_CREATE_BUCKET
    Staging,        \* S3_STAGING_PREFIX and _TTL_DAYS ask for a lifecycle rule
    MaxFaults       \* bound: kills, outages, failed statements and operator
                    \* calls of a behaviour

ASSUME ReplicasAssumption ==
    /\ Migrators = Replicas \cup {Operator} /\ Operator \notin Replicas
    /\ Versions \in [Replicas -> Nat]
    /\ Needs \in [Replicas -> SUBSET Replicas]
    /\ CreateBucket \in BOOLEAN /\ Staging \in BOOLEAN
    /\ MaxFaults \in Nat

VARIABLES
    boot,       \* [Replicas -> BootStates], where main is
    away,       \* the store that cannot be reached, or "none"
    bucket,     \* the bucket exists
    rule,       \* its lifecycle rule is set
    downgraded, \* history: a version was taken back
    faults

bootVars == <<boot, bucket, rule>>
vars == <<migVars, bootVars, away, downgraded, faults>>

BootStates ==
    {"down", "migrate", "pool", "redis", "bucket", "create", "rule", "dial",
     "up"}

Stores == {"postgres", "redis", "s3"}

Init ==
    /\ MigInit
    /\ boot = [r \in Replicas |-> "down"]
    /\ away = "none"
    /\ bucket \in BOOLEAN /\ (CreateBucket \/ bucket)
    /\ rule = FALSE
    /\ downgraded = FALSE
    /\ faults = MaxFaults

-------------------------------------------------------------------------------
Fault == faults > 0 /\ faults' = faults - 1

Goto(r, state) == boot' = [boot EXCEPT ![r] = state]

\* A downgrade is remembered, whoever carries it out.
Remember == downgraded' = (downgraded \/ Len(applied') < Len(applied))

\* The process starts and calls migrate.Up, if it has a database.
Start(r) ==
    /\ boot[r] = "down"
    /\ IF Versions[r] > 0
       THEN Goto(r, "migrate") /\ CallMigrate(r, Versions[r])
       ELSE Goto(r, "redis") /\ UNCHANGED migVars
    /\ UNCHANGED <<away, bucket, rule, downgraded, faults>>

\* The call goes on; a step that talks to the database needs it.
Migrating(p) ==
    /\ MigStep(p)
    /\ away # "postgres"
    /\ Remember
    /\ UNCHANGED <<bootVars, away, faults>>

\* The database cannot be reached, a statement fails, or the lock is held for
\* longer than the locker tries.
MigratingFails(p) ==
    /\ \/ away = "postgres" /\ mig[p] = "open" /\ UNCHANGED faults
          /\ MigrationFails(p)
       \/ away = "postgres" /\ mig[p] \in {"lock", "read", "apply"}
          /\ UNCHANGED faults /\ LoseSession(p, "failed")
       \/ Fault /\ (MigrationFails(p) \/ LockTimesOut(p))
    /\ UNCHANGED <<bootVars, away, downgraded>>

GhostWorks ==
    /\ GhostStep
    /\ Remember
    /\ UNCHANGED <<bootVars, away, faults>>

\* Up returns to main.
Migrated(r) ==
    /\ boot[r] = "migrate"
    /\ \/ mig[r] = "done" /\ Goto(r, "pool")
       \/ mig[r] = "failed" /\ Goto(r, "down")
    /\ mig' = [mig EXCEPT ![r] = "idle"]
    /\ UNCHANGED <<applied, lock, ghostNext, goal, next, bucket, rule, away,
                   downgraded, faults>>

\* A call of main to a store: on an error main returns.
Opening(r, at, fails, then) ==
    /\ boot[r] = at
    /\ Goto(r, IF fails THEN "down" ELSE then)
    /\ UNCHANGED <<migVars, bucket, rule, away, downgraded, faults>>

\* postgresql.Open and redisclient.Open: the ping decides.
OpenPool(r) == Opening(r, "pool", away = "postgres", "redis")

OpenRedis(r) == Opening(r, "redis", away = "redis", "bucket")

\* filestorage.Open: BucketExists, if the bucket is to be made.
CheckBucket(r) ==
    Opening(r, "bucket", CreateBucket /\ away = "s3",
            IF CreateBucket /\ ~bucket THEN "create" ELSE "rule")

\* MakeBucket, after another replica may have made it: then it is an error.
MakeBucket(r) ==
    /\ boot[r] = "create"
    /\ IF away = "s3" \/ bucket
       THEN Goto(r, "down") /\ UNCHANGED bucket
       ELSE Goto(r, "rule") /\ bucket' = TRUE
    /\ UNCHANGED <<migVars, rule, away, downgraded, faults>>

\* applyLifecycle.
ApplyLifecycle(r) ==
    /\ boot[r] = "rule"
    /\ IF away = "s3" /\ Staging
       THEN Goto(r, "down") /\ UNCHANGED rule
       ELSE Goto(r, "dial") /\ rule' = (rule \/ Staging)
    /\ UNCHANGED <<migVars, bucket, away, downgraded, faults>>

\* waitForConnection: the connection is ready once a replica of the target
\* serves; main then sets the flag and runs the servers.
Dial(r) ==
    /\ boot[r] = "dial"
    /\ Needs[r] # {} => \E s \in Needs[r] : boot[s] = "up"
    /\ Goto(r, "up")
    /\ UNCHANGED <<migVars, bucket, rule, away, downgraded, faults>>

\* ConnectTimeout.
DialTimesOut(r) ==
    /\ boot[r] = "dial"
    /\ Needs[r] # {} /\ \A s \in Needs[r] : boot[s] # "up"
    /\ Goto(r, "down")
    /\ UNCHANGED <<migVars, bucket, rule, away, downgraded, faults>>

-------------------------------------------------------------------------------
(* The environment *)

\* The operator calls Down, or UpTo the first version.
OperatorCalls ==
    /\ mig[Operator] \in {"idle", "done", "failed"}
    /\ Fault
    /\ \E version \in {Revert, 1} : CallMigrate(Operator, version)
    /\ UNCHANGED <<bootVars, away, downgraded>>

\* A process is killed.
Kill(r) ==
    /\ boot[r] # "down"
    /\ Fault
    /\ Goto(r, "down")
    /\ LoseSession(r, "idle")
    /\ UNCHANGED <<bucket, rule, away, downgraded>>

\* A store becomes unreachable, and comes back.
Outage ==
    /\ away = "none"
    /\ Fault
    /\ away' \in Stores
    /\ UNCHANGED <<migVars, bootVars, downgraded>>

Recovery ==
    /\ away # "none"
    /\ away' = "none"
    /\ UNCHANGED <<migVars, bootVars, downgraded, faults>>

\* A step of main after the migrations.
BootStep(r) ==
    \/ OpenPool(r) \/ OpenRedis(r) \/ CheckBucket(r) \/ MakeBucket(r)
    \/ ApplyLifecycle(r)

Next ==
    \/ \E r \in Replicas :
        \/ Start(r) \/ Migrated(r) \/ BootStep(r) \/ Dial(r) \/ DialTimesOut(r)
        \/ Kill(r)
    \/ \E p \in Migrators : Migrating(p) \/ MigratingFails(p)
    \/ GhostWorks
    \/ OperatorCalls \/ Outage \/ Recovery

\* Processes run and are started again, calls to stores end, the server
\* notices dead sessions, and outages end.
Fairness ==
    /\ \A r \in Replicas :
        /\ WF_vars(Start(r)) /\ WF_vars(Migrated(r)) /\ WF_vars(BootStep(r))
        /\ WF_vars(Dial(r) \/ DialTimesOut(r))
    /\ \A p \in Migrators : WF_vars(Migrating(p) \/ MigratingFails(p))
    /\ WF_vars(GhostWorks /\ lock' = NoOne)
    /\ WF_vars(Recovery)

Spec == Init /\ [][Next]_vars /\ Fairness

-------------------------------------------------------------------------------
\* GET /readyz: the flag of Ready and every check.
Readyz(r) == boot[r] = "up" /\ away = "none"

\* Whoever migrates, is killed, or lives on as a dead session: the database has
\* had the versions 1..n, each once and in order.
AppliedOnce == \A i \in DOMAIN applied : applied[i] = i

\* A replica that says it is ready has the schema its binary was written for
\* (unless an operator took it back), its bucket and the rule of the bucket.
ReadyMeansUsable ==
    \A r \in Replicas : Readyz(r) =>
        /\ downgraded \/ Len(applied) >= Versions[r]
        /\ bucket
        /\ Staging => rule

\* Every replica gets ready and stays so, once faults end: the lock of a dead
\* process, the race for the bucket and the wait for another service cost
\* restarts and no more.
EventuallyReady == \A r \in Replicas : <>[]Readyz(r)

===============================================================================
