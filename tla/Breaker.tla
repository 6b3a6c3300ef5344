------------------------------ MODULE Breaker ------------------------------
(***************************************************************************)
(* The circuit breaker of internal/breaker/breaker.go as operators on a    *)
(* breaker record.  Every method of the code runs under b.mu, so each one  *)
(* is a function from the record before the call to the record after it.   *)
(*                                                                         *)
(* Two fields are kept in the smallest form the code can tell apart:       *)
(*   elapsed   now - openedAt, which the code only compares with Cooldown, *)
(*             so it saturates there; openedAt's zero value lies more than *)
(*             a Cooldown in the past;                                     *)
(*   failures  is only compared with FailureThreshold, and saturates there.*)
(***************************************************************************)
EXTENDS Naturals

CONSTANTS
    FailureThreshold,   \* Config.FailureThreshold, after withDefaults
    Cooldown            \* Config.Cooldown in clock ticks, after withDefaults

\* withDefaults replaces a threshold below 1 and a cooldown of 0 or less.
ASSUME BreakerAssumption ==
    /\ FailureThreshold \in Nat \ {0}
    /\ Cooldown \in Nat \ {0}

Closed   == "closed"
Open     == "open"
HalfOpen == "half_open"

\* type Breaker struct
BreakerRecord ==
    [ state            : {Closed, Open, HalfOpen},
      failures         : 0..FailureThreshold,
      elapsed          : 0..Cooldown,
      halfOpenInFlight : BOOLEAN ]

NewBreaker ==
    [ state |-> Closed, failures |-> 0, elapsed |-> Cooldown,
      halfOpenInFlight |-> FALSE ]

\* The passing of one tick of wall-clock time, as openedAt sees it.
Age(b) == [b EXCEPT !.elapsed = IF @ < Cooldown THEN @ + 1 ELSE @]

----------------------------------------------------------------------------

\* Mutant of maybeHalfOpen: the cooldown ends one tick early.
MutantMaybeHalfOpen(b) ==
    IF b.state = Open /\ b.elapsed + 1 >= Cooldown
    THEN [b EXCEPT !.state = HalfOpen, !.halfOpenInFlight = FALSE]
    ELSE b

\* maybeHalfOpenLocked: every method that reads the state goes through it.
maybeHalfOpen(b) ==
    IF b.state = Open /\ b.elapsed >= Cooldown
    THEN [b EXCEPT !.state = HalfOpen, !.halfOpenInFlight = FALSE]
    ELSE b

(* More mutants: bugs this code could plausibly have.  No specification    *)
(* uses them; each breaks a property that the real definition satisfies.   *)

\* Success that forgets to restart the count of consecutive failures.
MutantSuccessKeepsCount(b) ==
    [b EXCEPT !.state = Closed, !.halfOpenInFlight = FALSE]

\* The failed probe reopens the breaker but keeps its slot.
MutantFailureKeepsSlot(b) ==
    LET n == IF b.failures < FailureThreshold THEN b.failures + 1 ELSE b.failures
    IN  IF b.state = HalfOpen \/ n >= FailureThreshold
        THEN [b EXCEPT !.failures = n, !.state = Open, !.elapsed = 0]
        ELSE [b EXCEPT !.failures = n]

\* Release that leaves the slot taken.
MutantReleaseNothing(b) == b

\* Release that also takes back a failure.
MutantReleaseForgives(b) ==
    [b EXCEPT !.halfOpenInFlight = FALSE, !.failures = @ - 1]

----------------------------------------------------------------------------

\* What Eligible answers; the call also leaves maybeHalfOpen(b) behind.
Eligible(b) ==
    LET s == maybeHalfOpen(b) IN
    \/ s.state = Closed
    \/ s.state = HalfOpen /\ ~s.halfOpenInFlight

\* What Allow answers, and the breaker it leaves: an admission in HalfOpen
\* takes the probe slot.
Allowed(b) == Eligible(b)
AllowProbes(b) == maybeHalfOpen(b).state = HalfOpen
Allow(b) ==
    LET s == maybeHalfOpen(b) IN
    IF s.state = HalfOpen /\ ~s.halfOpenInFlight
    THEN [s EXCEPT !.halfOpenInFlight = TRUE]
    ELSE s

Success(b) ==
    [b EXCEPT !.failures = 0, !.state = Closed, !.halfOpenInFlight = FALSE]

\* A failed probe reopens without counting; any other failure counts, and
\* restarts the cooldown whenever the count is at the threshold.
Failure(b) ==
    IF b.state = HalfOpen
    THEN [b EXCEPT !.state = Open, !.elapsed = 0, !.halfOpenInFlight = FALSE]
    ELSE LET n == IF b.failures < FailureThreshold THEN b.failures + 1 ELSE b.failures
         IN  IF n >= FailureThreshold
             THEN [b EXCEPT !.failures = n, !.state = Open, !.elapsed = 0]
             ELSE [b EXCEPT !.failures = n]

\* Release frees a half-open probe without counting success or failure.
Release(b) == [b EXCEPT !.halfOpenInFlight = FALSE]
============================================================================
