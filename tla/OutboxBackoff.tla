---------------------------- MODULE OutboxBackoff ----------------------------
(***************************************************************************)
(* What the loop of Worker.backoffFor computes, in closed form, for every  *)
(* base, ceiling and attempt within the bounds.                            *)
(***************************************************************************)
EXTENDS OutboxTiming

CONSTANTS
    MaxDuration,  \* bound: BaseBackoff and MaxBackoff are 1..MaxDuration
    MaxAttempt    \* bound: attempts is 0..MaxAttempt

ASSUME BoundsAssumption ==
    MaxDuration \in Nat \ {0} /\ MaxAttempt \in Nat

\* The base doubled once for every attempt after the first, and cut at the
\* ceiling, but only if there was a doubling.
closedForm(base, ceiling, attempts) ==
    LET pause == base * 2^iterations(attempts)
    IN  IF attempts > 1 /\ pause >= ceiling THEN ceiling ELSE pause

\* The loop of backoffFor computes the closed form: zero attempts, the first
\* attempt and a base above the ceiling included.  TLC evaluates this.
ASSUME LoopIsClosedForm ==
    \A base, ceiling \in 1..MaxDuration : \A attempts \in 0..MaxAttempt :
        pauseAfter(base, ceiling, attempts)
            = closedForm(base, ceiling, attempts)

===============================================================================
