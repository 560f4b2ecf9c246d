# Formal models of hockey-libs

`hockey-libs` is the Go library the services of HockeyNights are assembled from: a
Runner that starts and stops components, a gRPC server with its interceptors, a gRPC
client, an HTTP server for the operational port, a transactional outbox, a rate limiter
and smaller helpers around PostgreSQL, Redis, tokens and passwords. This directory holds
TLA+ modules of the parts whose behaviour depends on order, time and failure, the TLC
configurations that check them, and TLAPS proofs. `PROJECT.json` links every definition
to the lines it models, every property to a plausible slip of the code that breaks it,
and lists the hazards the properties are for.

To check: `tlc -config Outbox….cfg MCOutbox`, `tlc -config Service.cfg Service`,
`tlc -config Rpc….cfg MCRpc`, `tlc -config RateLimit.cfg RateLimit`,
`tlc -config ServiceToken.cfg ServiceToken`, `tlc -config Registration.cfg MCRegistration`,
`tlc -config Startup.cfg MCStartup`; `tlapm X.tla` for each of the eight modules
`…Proofs`.

## 1. Inventory

| Component | State it keeps | Operations | Talks to | What is hard | What makes it correct |
|---|---|---|---|---|---|
| `outbox` | table `outbox` (attempts, next_attempt_at, failed_at); a batch of goroutines per replica | Enqueue, Claim, Complete, Retry, Defer, Fail, DeleteOldFailed; Worker.Run | PostgreSQL, the sender callback | several replicas, a lease that is only a timestamp, crashes between Send and the statement, whole seconds | no row is lost in silence; no two replicas deliver one row; every message is settled |
| `runner` | errgroup, result, shutdown timer, signal handler | Run, SignalContext | every component | early returns, components that ignore the context, a second signal | one component's end stops all; a signal ends the process |
| `grpcserver` (life) | serve goroutine, error channel, health status, timers | Run, stop | grpc library, balancer probes | drain, graceful stop and forced stop in sequence; handlers that never return | no call refused while the balancer is told SERVING; a planned stop is no error |
| `httpserver` | as above | Run, handlers of ops.go | net/http | Shutdown's own deadline, Close after it | nothing left open; nothing cut before the timeout |
| `grpcserver` (interceptors, auth, errors, metrics) | context of the call, gauge, counter, log | one pair of calls per interceptor | handlers, `token`, `apperr` | order of the chain, panics, ended contexts | who is let in; log, metric and caller agree; causes stay inside |
| `grpcclient` | cached service token, outgoing metadata | New, interceptors, ServiceTokenSource | inner services | several writers of one header, retries beside abandoned attempts, hanging peers | the right identity is forwarded; no call without a bound |
| `ratelimit`, client address | counter and expiry in Redis | Allow, Reset, ClientIP | Redis, `grpcserver` | forged headers, lost answers, windows | neither escape a budget nor spend another's; a refusal ends |
| `apperr`, `postgresql` errors | – | New, Wrap, MapError | interceptors | nesting of errors | the kind decides the code |
| `postgresql` transactions, pool | pgx transaction, connections of the pool | InTx, InTxOptions, Open | producers of the outbox, PostgreSQL | contexts that end inside the transaction, commit of unknown outcome, row locks | the answer fits the database; nothing stays held |
| `token`, service token of `grpcclient` | keys; cached token, its end, a mutex | Issue, Parse; Token | auth, inner services | two clocks, whole seconds, renewal under a mutex | a token handed out is accepted |
| `password` | semaphore | Hash, Verify | argon2 | waiters that give up | the memory of hashes is bounded, no slot is lost |
| `migrate` | table of versions, session lock | Up, UpTo, Down | goose, PostgreSQL | replicas that start together, killed processes | each version once and in order |
| start of a service: `postgresql.Open`, `redisclient.Open`, `filestorage.Open`, `waitForConnection`, `/readyz` | pools, bucket and its rule, readiness flag | the Open functions, Ready | PostgreSQL, Redis, S3, other services | a race for the bucket, waits for each other, outages | ready means usable; every replica gets ready |
| `requestid`, `logger` | context values | | interceptors | one id across services | `OneRequestId` of Rpc |
| `secret`, `config`, `observability`, `grpcgateway`, `cmd/healthcheck` | none of their own | | libraries | – | not modelled (section 7) |

How they meet: the Runner gives all components one context; each server turns the end of
that context into its own stop procedure, whose timeouts must fit inside the Runner's.
A call goes through the server's interceptors to a handler, which calls on through the
client's interceptors to another server. The outbox worker is one more component of the
Runner, and its replicas meet only in the table. The rate limiter's instances meet only
in Redis. A handler that registers a user shares the hasher with every other request of
its process, the pool and the row locks with every request that writes, and its message
with the outbox. Processes that start meet in the database they migrate, in the bucket
they create and at the services they wait for.

## 2. Modules

| Module | Models | Notes |
|---|---|---|
| `OutboxTiming` | `int32(d.Seconds())`, the waves of `Config.validate`, the loop of `backoffFor` iteration by iteration | pure operators and a recursive function |
| `OutboxBackoff` | what that loop computes, in closed form | its assumption `LoopIsClosedForm` compares the two, whenever TLC runs `MCOutbox` |
| `Outbox` | `outbox/outbox.go`, `outbox/worker.go` | table, statements, replicas |
| `OutboxContract` | what the producer may rely on | abstract; `Outbox` implements it |
| `MCOutbox` | symmetry and the bound on messages and faults together, for TLC | |
| `OutboxProofs` | theorems about `Outbox` | |
| `Runner` | `runner/runner.go`, SignalContext, main | |
| `GrpcServer` | `Run`, `stop`, `normalizeServeError` | with the documented grpc library and a probing balancer as environment |
| `GrpcServerProofs` | theorem about `GrpcServer` | |
| `HttpServer` | `httpserver/server.go` | with net/http as environment |
| `Service` | the three above on one clock, with an outbox-like worker and the pool that main closes | composition by `INSTANCE … WITH` |
| `ServiceProofs` | theorems about `Service` and its parts | the invariants of `Runner`, `GrpcServer` and `HttpServer` under the instance names |
| `ErrorMapping` | `apperr` kinds, `postgresql.MapError`, `grpcserver/errors.go` | pure operators |
| `Credentials` | bearer tokens, `auth.go`, `internal.go`, roles, and the tokens of the client | pure operators |
| `Rpc` | one request through an edge service and its call to an inner one | uses the two above |
| `MCRpc` | configurations, requests and failures | |
| `RpcProofs` | theorems about `Rpc` | for chains of any length and order |
| `RateLimit` | `ratelimit.go` of both packages and `clientip.go` | |
| `RateLimitProofs` | theorems about `RateLimit` | |
| `ServiceToken` | `grpcclient/service.go`, `Issue` and the dates `Parse` checks | |
| `ServiceTokenProofs` | theorem about `ServiceToken` | |
| `Contexts` | the contexts of the requests of a process | shared by the next three |
| `Password` | the semaphore of `password.Hasher` | with x/sync/semaphore as environment |
| `PgTx` | `postgresql/tx.go`, `outbox.Enqueue`, the size of the pool | with pgx and PostgreSQL as environment |
| `Registration` | a handler that hashes, writes a row and enqueues a message; logins beside it | composes `Password`, `PgTx` and the actions of `OutboxContract` |
| `MCRegistration` | one key for all requests | |
| `RegistrationProofs` | theorems about `Registration` | |
| `Migrate` | `migrate/migrate.go` | with goose and PostgreSQL as environment |
| `Startup` | `Migrate`, the Open functions, `waitForConnection` and `/readyz` | |
| `MCStartup` | versions of the binaries and who waits for whom | |
| `StartupProofs` | theorems about `Startup` and its `Migrate` | |

Definitions whose comment begins with "Slip" are not part of the models: each is the
definition after it with a plausible mistake, used to see that a property notices.

### Outbox

`rowState`, `attempts`, `dueIn` and `failedAge` are the columns; time is a countdown, so
`dueIn` is `next_attempt_at - now()`. Every SQL statement is one step. `pc` is the place
of `Worker.Run` in its loop, `job`, `att` and `left` are the goroutines of the batch, the
attempts they claimed and the time to the deadline of their `sendCtx`. `Send` and the
statement that records its result are two steps, and the row may change hands between
them. The faults, bounded by `MaxFaults`, are: a crash, a cancellation, a statement that
fails before or after its commit, a claim whose rows are lost, a conflict answered by the
receiver. `Prompt` says whether goroutines are scheduled before time passes; without it
any goroutine may be paused past its lease. `claims`, `accepted` and `condemned` are
history. The clock has `UnitsPerSecond` units in a second because durations reach
PostgreSQL in whole seconds. The smallint has the bound `SmallintMax`, and a claim that
would overflow fails, as the UPDATE does.

A claim takes the rows that have been due longest. `dueIn` stops at 0, so `older` holds the
order of `next_attempt_at` among the due rows, and `Requeue` is the last conjunct of every
step that moves a row. `Picks` is what the subquery may return: the first `BatchSize` rows
in that order, of those left after `SKIP LOCKED` has skipped any of `Locked`, the rows a
statement or a failing claim of another replica is about to have. A row whose smallint is
used up (`Spent`) stays the oldest, and the claims that pick it fail for all their rows: it
holds up the queue behind it, which is the exception `EventuallySettled` names.

### Runner, GrpcServer, HttpServer, Service

Each of the three modules has the program counter of its `Run`, the state of the serving
goroutine, the channel it reports through, and the timers. The libraries are actions of
the environment: when `Serve` returns, when `GracefulStop` returns, what `Stop` does to
handlers. In `GrpcServer` a balancer probes the health service and routes calls by the
last probe. `Service` identifies the servers' `ctxDone` with the Runner's `groupDone`
and the Runner's component results with the servers' results; one `Tick` moves all
timers, and only when no goroutine has something to do at once. `Ready` says in each
module when that is so, action by action: on the instance of `service`, TLC finds
`process = "up" => (Ready <=> ENABLED ServiceStep)` in each of the 825565 states. The
worker returns when the group is done, unless a Send of its batch ignores its context
(`hanging`): `Worker.Run` waits for the batch (`worker.go:143`). main is the one of the
README of the repository: when Run has returned, its deferred `pool.Close` waits for the
connections that handlers hold (`PoolUsers`), and only then `stop` and the end of the
process follow.

### ErrorMapping, Credentials, Rpc

An error is a record of its class (none, status, domain error, context error, database
error, other), its code, and whether its text is meant for the public or raw. A token is
one of a few sorts (user, admin, service, refused, …). `stack[c]` is the Go call stack of
call `c`: the context each interceptor was given. An interceptor passes a context on
(push), returns (pop), or is unwound by a panic, and sees its own context whenever
control comes back, which is what decides which request id a log line carries. Call 1 is
the request at the edge; the others are the attempts of its inner call, which may overlap
when a connection is lost. The stream interceptors do what the unary ones do and are
covered by a configuration with `kind = "stream"`; only the client's log differs, where a
stream is logged when it has been created (`CallReport`). Refusals are logged where the
code does so: not when nothing is configured to check a token, or there is none.

Interceptors of different calls share only the gauge, the counter and the log, where the
order of two calls makes no difference; so one call's interceptors run on at a time, and
what calls can tell apart (handlers, timers, network) is interleaved.

### RateLimit

The counter and its expiry in Redis per key, in quarters of a second. `ExpireNX` is sent
in whole seconds, so a counter lives for `Expiry`: the configured window without its
fraction, and a second if it is shorter than one. A client writes any `x-forwarded-for`,
in one or several metadata values, and comes through any way of trusted proxies; each adds
the address it was called from, at the end of the one value it joins all others to
(`Joins`) or as a value of its own. `ClientIP` reads the first value (`HeaderOf`). The
model lets in calls that are `Sound`: they come directly, pass a proxy that joins, or have
no header of their own. Behind proxies that only add values the first one is what the
client wrote, and without `Sound` TLC finds `BudgetHeld` violated. A call may be counted
and its answer lost, or fail before it is counted; both let the call through. `made`,
`admitted`, `age` and `promise` are history of what each client experienced.

### ServiceToken

`Token` is two steps, since time passes between the look at the cache and `Issue`, which
reads the clock again; the mutex is held in between. Clocks are offsets from true time
(`issuer`, `verifier`) that may jump within `Skew`, and dates are kept as the time left
to them, so that `Tick` moves them all; `NumericDate` drops the fraction of a second. A
call carries its token from `Token` until its deadline, and an attempt may arrive at any
moment in between. `setup` says which manager the source has: none, one that can only
verify, or one that signs. An attempt that arrives is judged by `Accepts`, which is what
the parser does with `exp`, `nbf` and the leeway.

### Password, PgTx, Registration

The semaphore is a queue with a count: a released slot goes to the first waiter, which
runs later and may find its context done. `PgTx` has, per request, the place of `InTx`,
what it will answer, whether it has a connection and whether that connection is closed;
and for the server the transaction and what it wrote. `Interrupted` closes the connection
at any point, pgx closes it when the context had ended before COMMIT could be sent (`cut`
tells the two causes apart), the server notices later (`ServerNotices`), and a COMMIT
without an answer is decided later still (`ServerDecides`). fn may return an error, panic,
or go on after an error it should have returned. An INSERT of a key waits for other
transactions with that key. `Registration` lets several requests of one key, a retry or a
double submission, go through the hasher and `InTx`, beside logins that only verify; what
is committed is handed to `OutboxContract`.

### Migrate, Startup

`applied` is the table of versions. A process that is killed, or loses the database,
leaves its session behind as `Ghost`: it holds the lock and may still commit the version
it was at. `Startup` runs `main` of each replica through its calls in order; an error
ends the process, and it is started again. `away` is the one store that cannot be
reached. An operator calls `Down` and `UpTo`; `downgraded` remembers it.

## 3. Runs

| Run | Checks | Shows |
|---|---|---|
| `outbox_prompt` | NoTwoReplicasDeliver, FailedIsAnnounced, NoDuplicateWithoutFault, AttemptsBudget, FailedIsFinal, ImplementsContract | while goroutines keep to time, the lease gives each row to one replica, a failed row was announced and stays failed, a message is delivered twice or claimed past `max_attempts` only at the price of a fault, and every step is one of `OutboxContract` |
| `outbox_paused` | TypeOK, NoSilentLoss, EventuallySettled, ShutdownCompletes | with any pause: a row leaves the table only delivered, condemned or out of attempts; each message is settled unless a row that used up its smallint holds up the queue; a cancelled worker returns |
| `service` | FailureIsReported, GracefulUnlessInsisted, TimeoutMeansStuck, ExitLeavesNoCall, NoCallRefused, RequestGetsItsTime, SignalEndsProcess, OneStopsAll | a service stopped at any moment by signals or by the end of a component: nested timeouts fit, the failure of a listener and nothing else is the error of Run, an HTTP request gets the whole shutdown timeout of its server, calls are neither refused nor abandoned, the process ends whatever handlers do, unless one keeps a connection of the pool |
| `rpc` | OnlyEntitled, IdentityFollows, ServiceCallsAuthenticate, CodesAgree, CauseStaysInside, GaugeExact, OneRequestId, EventuallyAnswered | who is let in, whom the inner call speaks for, what caller, log and metrics are told, and that a hanging inner service does not hang the edge |
| `ratelimit` | BudgetHeld, WaitIsEnough, InnocentNotRefused, EventuallyFreed | no client escapes its budget or spends another's in the window Redis keeps; the wait it is told is enough up to the rounding; it is let in again |
| `service_token` | NeverRefused, EveryCallEnds | the leeway and the early renewal absorb skewed clocks, dropped fractions, deadlines and retries; no error keeps the mutex |
| `registration` | AnswerMatchesDatabase, HashesBounded, NothingHeldOnReturn, EveryRequestEnds, MessageFollows | row and message appear together or not at all, and as the client was told unless Commit failed; no slot, connection or lock is lost; a committed message reaches its end |
| `startup` | AppliedOnce, ReadyMeansUsable, EventuallyReady | each version is applied once and in order whoever dies when; a ready replica has what it needs; faults cost restarts and no more |
| `outbox_subsecond`, `outbox_revival`, `rpc_static_token`, `rpc_original_text` | one property each | violated: see section 6 |

### Bounds

- Outbox: two replicas are what a lost lease takes; two messages are what a second wave of
  a batch takes. In `outbox_prompt` the lease is one unit longer than the waves:
  `validate` accepts equality too, but then the last send may reach its deadline in the
  instant the row is due again, its statement races the next claim, and
  NoTwoReplicasDeliver does not hold. Two or three faults let one behaviour combine a lost
  claim with a failed statement, or a crash with a conflict. In `outbox_paused` one
  message meets three faults or two messages one (`WithinLoad`): three faults are what a
  long series of lost attempts takes, two messages what waiting behind another one takes.
  `SmallintMax` is 2 there, equal to `max_attempts`, so that one lost attempt leaves a row
  that is spent and the other message behind it; the property without its exception is
  violated in this instance. Durations are one unit, since without `Prompt` time may pass
  at any point anyway. Counters of history are cut at the values that matter. Elsewhere
  durations are a few units with the order that `validate` asks for.
- `OutboxBackoff`: every base and ceiling up to 12 and attempts up to 6 contain a base
  above, at and below the ceiling, and doublings that pass it in one and several steps.
- Service: two gRPC calls, one of whose handlers may never return; one HTTP request; two
  signals. The Runner's timeout (4) exceeds drain plus graceful stop (2 + 1) by one; the
  defaults leave room (30 s over 3 s + 10 s), and the drain exceeds the period of the
  probe, as grpcserver/README.md asks. The handler that may never return has a connection
  of the pool, so that the exception of `SignalEndsProcess` is in the instance. A second
  call of each kind adds nothing that the first does not meet.
- Rpc: one request per behaviour, two attempts of the inner call, six configurations
  (the chain of the README, optional authentication without metrics, no authenticator
  with a limiter, a token chosen by the handler with roles, a service token with
  retries, a stream). Requests carry every sort of authorization header. Calls of
  different requests share nothing but gauge, counter and log.
- RateLimit: two clients, two proxies of which one joins values and one adds its own, ways
  through up to two of them, headers of up to two entries in the first value and two in
  others, limit 2, window of 9 quarter seconds (8 in Redis, so that the cut shows).
  Counters saturate at one more than the limit, beyond which nothing looks at them.

- ServiceToken: two calls are what a shared cache and a mutex take. The durations satisfy
  `SkewAssumption` with equality where they can, so that one unit less of leeway or margin
  would show; seconds have two units, so that dates lose a fraction. Dates are
  followed until no clock takes them for valid (`Oldest`).
- Registration: two registrations of one key and one login, one slot of the hasher (its
  default on one processor), two connections. A third registration meets the
  same locks, connections and slots as the second.
- Startup: two replicas of a service with versions 2 and 1 of its binary, a service
  without a database that waits for them, and the operator; two faults, so that a killed
  process can meet an outage, a timeout of the lock or a second kill.

Deadlock is checked except where the program stops by design: `service` (a process that
has ended), `registration` (every request is over), `startup` (every replica is up).

### Fairness

- Outbox: weak fairness of time and of each process, its restart included (`ProcessStep`):
  the Go scheduler runs what is runnable, `sendCtx` has a deadline, and a deployment
  restarts what died. Goroutines of one process need none of their own, since the steps of
  a batch are finitely many. Enqueue, faults and what the
  receiver answers are not fair.
- Service: weak fairness of the process (`ServiceStep`: the steps of the Runner, the
  servers and the worker, finitely many between two ticks), of the balancer's probe and of
  time. Nothing is assumed of a handler before its connection is cut, and nothing at all of
  the handlers in `StuckCalls` or of a Send that hangs.
- Rpc: weak fairness of the interceptors, of the edge handler once it is not blocked in
  its call, and of the client library (it hands out an answer it has, and its timers
  fire). An inner handler may hang, and no connection has to break.
- RateLimit: weak fairness of time.
- ServiceToken: weak fairness of time and of each call's goroutine; strong fairness of
  getting out of `Lock`, since `sync.Mutex` hands over to a waiter that has waited long.
- Registration: weak fairness of the hasher's steps (the semaphore is first come, first
  served, and argon2 ends), of the server (keepalive finds dead connections) and of the
  outbox contract; strong fairness of the steps of `InTx`, since the pool and the row
  locks of PostgreSQL serve their waiters in turn. No context has to end.
- Startup: weak fairness of each process and of its restart by the supervisor, of the
  end of dead sessions and of outages. Kills, outages, failed statements and timeouts of
  the lock are bounded faults: the locker tries for five minutes, and a migration that
  always takes longer would never let the others start.

## 4. Theorems

Proved by TLAPS for every value of the constants that satisfies the named assumptions.
Each theorem about behaviours has an inductive invariant, named below, that holds
initially, is kept by every step and implies the property; the property alone is inductive
in none of them.

**Outbox** (`OutboxProofs`), any set of replicas, any finite set of messages, any
configuration `validate` accepts:

- `TypeCorrect`: types hold, and the smallint never overflows.
- `LossIsNeverSilent`: no row leaves the table unless it was delivered, condemned in the
  log, or claimed `max_attempts` times, however late a goroutine that lost its lease
  writes. A row is deleted because of what a goroutine or the table holds, so `LossInv`
  adds that the column is backed by real claims (`AttemptsBacked`), that a goroutine about
  to write Complete or Fail has a reason (`JobsHonest`), and that a failed row has one
  (`FailedJustified`). No fencing is needed, which is why it holds in spite of section 6.
- With two hypotheses, `Prompt` (time does not overtake a runnable goroutine) and
  `LeaseOutlasts` (the waves of a batch take less than the lease the table stores):
  `OneReplicaPerRow`, `GivingUpIsFinal`, `FailureIsAnnounced`, `NothingIsSentTwice`,
  `AttemptsAreBudgeted`, and `OutboxKeepsItsContract`, the refinement of `OutboxContract`.
  The argument is a timetable: while rows are queued every wave is full, so the k-th wave
  begins no later than k - 1 send timeouts after the claim, and the last send ends before
  the row is due again (`TimeInv`). Hence a row in hand is pending and in nobody else's
  hand (`HandInv`), and the rest follows, with `CalmInv` for duplicates and `BudgetInv`
  for attempts. Both hypotheses are necessary: `outbox_revival` drops the first, equality
  or a fraction of a second (`outbox_subsecond`) the second. `validate` guarantees `<=` on
  the durations before they are cut to seconds, so `LeaseOutlasts` is stated, not assumed
  of the code. `MarginSuffices` says when it holds: if `VisibilityTimeout` exceeds the
  waves by a second, or is a number of whole seconds and exceeds them at all. The defaults
  (three waves of 30 s in 2 min) do.
- `BackoffDoubles`: the pauses of `backoffFor`, for every number of attempts. The first is
  `BaseBackoff`; each next one doubles the one before, cut at `MaxBackoff`; they do not
  shrink if `BaseBackoff <= MaxBackoff`, are `MaxBackoff` from some attempt on, and nothing
  longer than the longer of the two is ever doubled. This is an induction over data. The
  library's induction theorems, which take an operator, cannot be used; `SetInduction`
  states induction for a set of numbers and follows from the well-foundedness of `<`, and
  `Iteration` obtains from it the results of applying a function n times. With these
  `LoopUnfolds` shows that the recursive function `backoffLoop` exists and does what its
  body says, and `LoopDoubles` that an iteration at the end of the loop does what one at
  its beginning does, early returns included.

**The life of a service** (`GrpcServerProofs`, `ServiceProofs`), any components, calls,
requests, signals and timeouts:

- `StopIsClean`: a stop that was asked for reports no error in any order of context,
  Serve, GracefulStop and Stop. `CleanInv` adds that nothing is served or returned before
  `net.Listen`, and that the channel is empty until Serve returns. It covers the context
  that ends before Serve has begun, which the `service` run does not meet.
- `OnlyASecondSignalInsists` by `RunnerInv`: which signals are in the channel, who still
  listens to them, and that the result is decided when nobody is left to return.
- `NoCallIsLeftBehind` and `FailuresReachTheExit` by `BackInv`, that is `RunnerInv`,
  `GrpcInv`, `HttpInv` and `ReturnsInv`: a Run that has returned never listened, lost its
  listener to an error, or has seen the last of its calls end, and its result says which;
  and the Runner sees a server return only after its Run has, with that result. The second
  theorem says nothing of a timeout: when the last return and the timer of the Runner come
  together, select may take either (`runner.go:92-97`), and a clean stop be reported as one
  that timed out.
- `RequestsAreGivenTheirTime`: the timer of Shutdown and that of the Runner start in the
  instant the group ends and run on one clock, so that what the Runner has waited and what
  is left to Shutdown make up at least the timeout (`PatienceInv`); it takes `StopInv` for
  where the two can be, and that no time passes between the end of the group and the start
  of Shutdown.
- `PlannedStopRefusesNobody`, if `EnableHealth => DrainDelay > ProbePeriod`, by
  `RouteInv`: the balancer sends calls here only if the health service said so within its
  last period. grpcserver/README.md asks for a delay longer than the period; with
  equality the delay may end in the same instant before the probe.
- `OnlyStuckCallsTimeOut`, if `TimeoutsFit` (drain plus graceful stop, and the timeout of
  the HTTP server, are shorter than the Runner's; 13 s and 10 s in 30 s by default). Time
  passes only if nobody is `Ready`; so, unless a stuck call was made or a Send hangs, a unit of time
  passes after the end of the group only while the Runner waits and a server is in a
  timed wait of its own (`TickWaits`). `PaceInv` adds the timetable: what the Runner has
  waited and what is left of a server's timer never exceed the end of that server's stop.
  So the timer of the Runner cannot run out first. A step that is not of time moves none
  of it (`StepStop`, `RunnerPace`, `ServerPace`), and `StopInv` says where the parts can be
  relative to each other.
- `PartsKeepTheirSpecifications`: `Spec => R!Spec /\ G!Spec /\ H!Spec`. The end of the
  group, whoever causes it, is `Cancel` to a server, the return of a server is
  `ComponentReturns` to the Runner, and the common `Tick` is one of each part or none
  (`ClockInv`: the timers are numbers, and that of the Runner runs only while Run waits).
  `StopIsCleanInCompany` uses it to carry `StopIsClean` over to the service.

**The path of a request** (`RpcProofs`), any configurations, requests and errors of
handlers, any number of attempts, chains of any length with the user's interceptors in any
order. Seventeen actions of interceptors have five shapes (`Enters`, `Refuses`, `Returns`,
`Unwinds`, `Catches`; lemma `Shapes`), and the steps of the client but for the delivery
have one (`ClientMoves`), so that every later invariant is proved for eight cases (lemma
`Steps`). `FlowInv` says that stacks fit chains, that an attempt not delivered has left no
trace, and that the edge handler is blocked while its call is under way. On top of it:

- `TypesHold`, and `GaugeNeverDrifts`, where each step moves the gauge as it moves one
  call into or out of the set that is counted;
- `EveryoneIsToldTheSame` and `CausesAreKept` by `Reported`: what is on its way out is the
  handler's error, mapped once it has passed `ErrorMapping`, or the status of an
  interceptor; the counter and the log have the code that is still on its way. The lemma
  `Mapping` is about `MapError` for every error;
- `OneIdEverywhere` by `IdInv`: contexts outside of `withRequestID` have no id and all
  others the same one, attempts under way carry it;
- `HandlersServeTheEntitled` by `Vouched`: claims in a context are those of the token
  the call came with, and each interceptor that was passed was right to let it pass;
- `CallsSpeakForTheirCaller` by `Vouched` and `OutInv`, which says that every attempt
  carries what the client chose, retries included;
- `ServicesAreLetIn` under `SetUpForServices`: the service token is set and not
  appended (`rpc_static_token` shows why), and the inner chain of such a configuration
  asks for no role of a user.

**The rest:**

- `ServiceTokenProofs!TokensAreAccepted`, any calls and durations: if two clocks differ by
  no more than `SkewAssumption` allows, no attempt that arrives before its deadline is
  refused. `TokensLast` says that a call's token, with the leeway, outlasts its deadline
  by `Skew` and is from the future by no more than `Skew`; `CacheHasBegun` says the latter
  of the cached token. Its end needs no invariant: `Fresh` is looked at in the step
  that hands the token out. The lemma `DatesLoseAFraction` bounds what `NumericDate` drops.
- `RateLimitProofs`: `LimitIsKept`, `RetryAfterSuffices`, `NobodyPaysForOthers`, any
  clients, proxies, limit and window. The lemma `ClientFound` shows that `ClientIP` finds
  the client for every header it may write and every sound way through trusted proxies
  (behind the client's address there are only proxies in the value it reads);
  `WindowInv` says that the counter counts exactly that client's calls and expires with
  its window, `Expiry` long.
- `RegistrationProofs`: `MemoryIsBounded` by `SlotInv` (the count of the semaphore is the
  number of those that hold a slot, woken waiters included); `AnswersAreTrue` by `TxInv`
  (where InTx is tells what it wrote, and the unique index lets one transaction write a
  key); `NothingStaysHeld` with `PoolInv`. `NoLostWakeup` and `WaitsAreAcyclic` by
  `WaitInv` (who waits is in the list, a list that is not empty means that all slots are
  taken, InTx is called with the password hashed): slots, connections and the unique key
  are asked for in this order, and who has written a key waits for nothing. They are the
  safe half of `EveryRequestEnds`. `ProducersKeepContract` is the refinement of
  `OutboxContract`: by `StoredInv` and `WroteInv` a COMMIT, also one that the server
  carries out when nobody listens any more, is the one `Submit` of its message.
- `StartupProofs`, if the session lock is not disabled: `MigratedOnce` by `LockInv`
  (whoever is past the lock holds it and goes on where the table ends; so does a dead
  session that may still commit), `ReadyIsUsable` by `MainInv`. With `DisableSessionLock`
  both fail, as section 6 says. `LockIsNeverOrphaned` adds `HolderWorks` to `LockInv`: the
  lock is held exactly by the call that works under it. `StartsOnlyAdd`, an action property,
  says that starts of replicas, of old binaries too, only ever add versions.

Assumptions on the constants, all of which TLC evaluates in the runs: `ConfigAssumption`
(durations and sizes are positive, as `validate` and the defaults make them),
`SetsAssumption` (finitely many messages), `ValidateAssumption` (the lease covers the
waves), `DurationsAssumption` and `ServiceAssumption` (durations are natural numbers,
those with a default positive, and the stuck calls are calls), `SkewAssumption` (twice the
skew fits in the leeway; with a call's deadline, in leeway plus margin and in leeway plus
TTL less a second; with the defaults each clock may be 15 s off), `RateLimitAssumption`
(clients are no proxies, those that join are proxies, limit and window are positive, and
what is no address is no host), `SlotsAssumption`, `PoolAssumption` (what `Open` accepts),
`KeysAssumption`, `LoginsAssumption`, `MigratorsAssumption`, `ReplicasAssumption` (names
are distinct, functions have their domains) and `RpcAssumption` (the set-ups the options
allow; at most one authorization header from outside; a new request id is not empty).

One attempt showed a fault of the model: the verdicts of `Credentials` were CASEs with
overlapping guards, whose value TLA+ leaves open and TLC takes from the first. They are
now IFs in the order of the code.

## 5. What is only model-checked

- Liveness under fairness, which is out of the prover's reach: `EventuallySettled`,
  `ShutdownCompletes`, `SignalEndsProcess`, `OneStopsAll`, `EventuallyAnswered`,
  `EventuallyFreed`, `EveryCallEnds`, `EveryRequestEnds`, `MessageFollows`,
  `EventuallyReady`.
- That `Ready` is `ENABLED ServiceStep` while the process is up: the provers do not
  reason about ENABLED.
- That the loop of `backoffFor` computes a power of two (`LoopIsClosedForm` of
  `OutboxBackoff`, evaluated over the bounds): the provers know nothing of `^`, and
  `BackoffDoubles` states the recurrence instead.
- The runs that are expected to fail.

## 6. Where code and documents disagree

Each is a run that is expected to fail, with the quotation in `PROJECT.json`:

- `outbox_subsecond`: a lease of 5/3 s is 1 s in the table (`outbox.go:80`), although
  `validate` compared 5/3 s with a send of 4/3 s, and two replicas may hold one row.
- `outbox_revival`: `Retry` of a goroutine that lost its lease clears `failed_at` of a
  row another replica has failed (`outbox.go:111`).
- `rpc_static_token`: `StaticTokenInterceptor` appends behind the forwarded token, and
  the server reads the first value (`grpcclient/interceptors.go:113`).
- `rpc_original_text`: the request is logged after its error was mapped, so the
  original text is in no log line (`grpcserver/interceptors.go:146`).

Seen while modelling, and written into the properties as they are:

- `validate` accepts a lease exactly as long as the waves of a batch, which leaves no time
  for the statement after the last send (`worker.go:258`, see the bounds above);
- the first pause is `BaseBackoff` even when it exceeds `MaxBackoff` (`worker.go:210-218`);
- an attempt that ends without a `Retry` (a crash, a cancellation, a failed statement)
  does not count against `max_attempts`, since `Claim` looks only at `failed_at`
  (`outbox.go:73`): `AttemptsBudget` bounds the overrun by the faults;
- a row that has used up its smallint is the oldest due row from then on, and every batch
  that picks it fails, so that the rows behind it wait too (`outbox.go:69-76`);
- the log and the metric of a last attempt go by the attempts the goroutine claimed, the
  column by its own value (`worker.go:195`): while leases hold they agree, after a pause
  past the lease a row may fail although a retry was announced;
- "it will never be delivered" is logged before the statement that makes it so, and that
  statement may fail;
- the log line of a panic has no request id, since recovery is the outermost interceptor,
  and panicking requests are not in `requests_total`;
- a context that ends inside a database query reaches the caller as Internal, through
  `postgresql.MapError`;
- the window of the limiter is kept in whole seconds (`ratelimit.go:44`): 2.25 s are 2 s,
  half a second is one;
- only the first value of `x-forwarded-for` is read (`clientip.go:68`), so the limiter
  needs a proxy that joins the values, or clients that come directly;
- `retry-after` may be up to half a second short (`WaitIsEnough` says: no more than that);
- after its timeout the Runner returns, but the deferred `pool.Close` of main waits for a
  handler that still holds a connection, and one signal does not end the process.
  `SignalEndsProcess` and `OneStopsAll` name this exception, which the instance of
  `service` reaches; a second signal still ends the process;
- an error of Commit leaves open whether row and message are stored (`tx.go:52`), and a
  client that tries again then meets a conflict; `Rollback` has no deadline of its own
  (`tx.go:45`);
- fn that swallows an error of a statement gets an error of Commit, because the server
  answers ROLLBACK; an error of `Enqueue` that comes before its statement (no kind, no
  payload) would not fail the transaction, and fn must return it;
- the package functions `password.Hash` and `password.Verify` do not pass the shared
  semaphore (`argon2id.go:155-179`);
- two replicas that find no bucket race for it, and one of them is started again
  (`filestorage.go:73-81`); services that wait for each other with `WaitForConnection`
  never start; with `DisableSessionLock` nothing keeps two replicas from applying one
  version twice, and a session lock needs a connection of its own, which a pooler in
  transaction mode does not give.

## 7. What is not modelled

- Libraries: grpc, net/http, pgx, go-redis, goose and OpenTelemetry appear only as the
  environment the code meets, by their documented behaviour.
- Text: log wording, metric names and durations, parsing of addresses and prefixes,
  rules of protovalidate (a free choice of the model), signatures of tokens.
- `config` (reflection over environment variables), `secret` and argon2 (cryptography),
  `observability` and the options of pgx and Redis (set-up of libraries), `grpcgateway`
  (stateless, unused so far), the links, objects and images of `filestorage` (single
  calls of an object storage, parsing of headers), the loopback target and
  `cmd/healthcheck` (a string function and one GET).
- `Version`, `HasPending` and `Status` of `migrate` and `NeedsRehash` of `password`: they
  read and change nothing.
- In the outbox: the row locks of a claim that a fault rolls back, depth gauges, counters,
  `last_error`, and the arguments Enqueue refuses.

## 8. Plan

Done: the outbox, the life of a service, the path of a request, the rate limiter, the
service token, the path of a registration and the start of a deployment; every safety
property of the passing runs is a theorem, `Outbox` and `Registration` both refine
`OutboxContract`, one as its implementation and one as its user, and `Service` refines
each of its parts. What is left:

1. Liveness, if a prover for it becomes available; the safe halves (`NoLostWakeup`,
   `WaitsAreAcyclic`, `LockIsNeverOrphaned`, the timetables of `TimeInv` and `PaceInv`) are
   there.
2. Smaller parts of the libraries that are not modelled yet (section 7), if they gain
   state of their own.
