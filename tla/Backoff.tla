------------------------------- MODULE Backoff -------------------------------
(***************************************************************************)
(* The two delay computations that grow: the terminal publisher's capped   *)
(* exponential with jitter (internal/terminal/retry.go) and the            *)
(* scheduler's poll interval (nextBackoff in internal/worker/scheduler.go).*)
(*                                                                         *)
(* A duration is a signed integer of Width bits and an attempt an unsigned *)
(* one; the code has 64.  The jitter and the backoff factor, floats in the *)
(* code, are the ratios JitterNum / JitterDen and factor / 2; a product is *)
(* rounded towards zero when it becomes a duration.                        *)
(***************************************************************************)
EXTENDS Integers

CONSTANTS
  Width,        \* bits of a duration and of an attempt
  JitterNum, JitterDen,
  RandomSteps,  \* RandomFloat64 returns r / RandomSteps, r in 0 .. RandomSteps
  Factors       \* twice the poll backoff factors tried

ASSUME BackoffAssumption ==
  /\ Width \in Nat /\ Width > 2 /\ RandomSteps \in Nat \ {0}
  /\ JitterDen \in Nat \ {0} /\ JitterNum \in 0 .. JitterDen
  /\ Factors \subseteq Nat

\* The powers of two, uint64(1) << n for n below Width.
Pow2[n \in Nat] == IF n = 0 THEN 1 ELSE 2 * Pow2[n - 1]

MaxDuration == Pow2[Width - 1] - 1
MaxAttempt == Pow2[Width] - 1

AtMost(x, bound) == IF x > bound THEN bound ELSE x

\* The pairs of delays NewExponentialRetryPolicy and the scheduler accept.
Delays == {d \in (1 .. MaxDuration) \X (1 .. MaxDuration) : d[1] <= d[2]}

-----------------------------------------------------------------------------
(* terminal/retry.go                                                       *)

\* A product computed in Width bits.
Wrapped(x) == ((x + Pow2[Width - 1]) % Pow2[Width]) - Pow2[Width - 1]

\* Mutant: the product is formed before it is compared with the maximum.
MultiplyFirst(initial, maximum, n) ==
  IF n <= 1 THEN initial
  ELSE IF n - 1 >= Width - 1 THEN maximum
       ELSE AtMost(Wrapped(initial * Pow2[n - 1]), maximum)

CappedExponential(initial, maximum, n) ==
  IF n <= 1 THEN initial
  ELSE IF n - 1 >= Width - 1 THEN maximum
       ELSE IF initial > maximum \div Pow2[n - 1] THEN maximum
            ELSE AtMost(Wrapped(initial * Pow2[n - 1]), maximum)

Jittered(delay, r) ==
  (delay * (JitterDen * RandomSteps - JitterNum * RandomSteps + 2 * JitterNum * r))
    \div (JitterDen * RandomSteps)

\* The delays NextDelay may return.
NextDelay(initial, maximum, n) ==
  {AtMost(Jittered(CappedExponential(initial, maximum, n), r), maximum) : r \in 0 .. RandomSteps}

\* The attempt counter of Publish stops at its largest value.
NextAttempt(n) == IF n = MaxAttempt THEN n ELSE n + 1

-----------------------------------------------------------------------------
(* nextBackoff                                                             *)

\* What the conversion of a float out of range yields depends on the
\* processor: the largest or the smallest duration.
ToDuration(x) ==
  IF x <= MaxDuration THEN {x} ELSE {MaxDuration, -MaxDuration - 1}

Clamped(x, min, max) == IF x < min THEN min ELSE AtMost(x, max)

\* Mutant: a product above the maximum starts over.
StartOver(current, min, max, factor) ==
  IF factor <= 2 THEN {Clamped(current, min, max)}
  ELSE {IF next > max THEN min ELSE Clamped(next, min, max) :
          next \in ToDuration((current * factor) \div 2)}

NextBackoff(current, min, max, factor) ==
  IF factor <= 2 THEN {Clamped(current, min, max)}
  ELSE {Clamped(next, min, max) : next \in ToDuration((current * factor) \div 2)}

-----------------------------------------------------------------------------
(* Properties, over all durations and attempts of the given width.         *)

\* From one attempt to the next the delay before jitter doubles until it is the
\* maximum and then stays there, through every value of the attempt counter:
\* cappedExponential neither wraps nor skips, and the counter does not start again.
DelayDoubles ==
  \A d \in Delays, n \in 1 .. MaxAttempt :
    CappedExponential(d[1], d[2], NextAttempt(n)) = AtMost(2 * CappedExponential(d[1], d[2], n), d[2])

\* A retry never sleeps longer than its maximum, and the jitter takes no
\* more than its share of the delay and the rounding.
SleepBounded ==
  \A d \in Delays, n \in 1 .. MaxAttempt :
    NextDelay(d[1], d[2], n) \subseteq Jittered(CappedExponential(d[1], d[2], n), 0) .. d[2]

\* From an interval between the configured bounds, a poll that finds nothing
\* goes to another between them, also when the product leaves the range of a
\* duration; and never to a shorter one when it stays in that range
\* (nextBackoff).
PollBacksOff ==
  \A d \in Delays, factor \in Factors : \A current \in d[1] .. d[2] :
    \A next \in NextBackoff(current, d[1], d[2], factor) :
      /\ next \in d[1] .. d[2]
      /\ (current * factor) \div 2 <= MaxDuration => next >= current
=============================================================================
