----------------------------- MODULE OutboxTiming -----------------------------
(* The arithmetic of package outbox: pauses and leases. *)
EXTENDS Integers

\* for range max(attempts - 1, 0).
iterations(attempts) == IF attempts > 1 THEN attempts - 1 ELSE 0

\* The loop of Worker.backoffFor: an iteration doubles the pause and returns the
\* ceiling if that reaches it.  Given the pause at hand, the n-th function is what
\* the loop returns with n iterations to go.
backoffLoop(ceiling) ==
    LET loop[n \in Nat] ==
          IF n = 0
          THEN [backoff \in Nat |-> backoff]
          ELSE [backoff \in Nat |-> IF 2 * backoff >= ceiling
                                    THEN ceiling
                                    ELSE loop[n - 1][2 * backoff]]
    IN  loop

\* Worker.backoffFor, for the BaseBackoff and the MaxBackoff of a Config.
pauseAfter(base, ceiling, attempts) ==
    backoffLoop(ceiling)[iterations(attempts)][base]

\* int32(d.Seconds()) for a second of n clock units, back in clock units: the
\* fraction of a second is lost.
wholeSeconds(d, n) == (d \div n) * n

\* Config.validate: sends run in waves, and the lease covers them all.
wavesOf(batch, concurrency) == (batch + concurrency - 1) \div concurrency

===============================================================================
