---------------------------- MODULE BreakerCalls ----------------------------
(***************************************************************************)
(* One breaker under concurrent upstream calls and a clock: the use that   *)
(* endpoint.Pool makes of breaker.Breaker.  A call asks Allow and, when    *)
(* admitted, reports exactly one of Success, Failure and Release when the  *)
(* upstream answers, however late: the breaker may meanwhile have opened,  *)
(* cooled down and gone half-open again.                                   *)
(***************************************************************************)
EXTENDS Breaker

CONSTANT Calls          \* concurrent callers

VARIABLES
    br,                 \* the breaker
    call,               \* call[c]: "idle", "call" (admitted while Closed) or
                        \* "probe" (admitted while HalfOpen)
    streak              \* history: failures reported since the last success
                        \* (saturating at FailureThreshold)

vars == <<br, call, streak>>

Outcomes == {"success", "failure", "release"}

TypeOK ==
    /\ br \in BreakerRecord
    /\ call \in [Calls -> {"idle", "call", "probe"}]
    /\ streak \in 0..FailureThreshold

Init ==
    /\ br = NewBreaker
    /\ call = [c \in Calls |-> "idle"]
    /\ streak = 0

----------------------------------------------------------------------------

\* Allow, with its caller going on to the upstream when it is admitted.
Admit(c) ==
    /\ call[c] = "idle"
    /\ Allowed(br)
    /\ br' = Allow(br)
    /\ call' = [call EXCEPT ![c] = IF AllowProbes(br) THEN "probe" ELSE "call"]
    /\ UNCHANGED streak

\* Allow that answers false, and Eligible and State: they only let an open
\* breaker whose cooldown is over go half-open.
Look ==
    /\ br' = maybeHalfOpen(br)
    /\ UNCHANGED <<call, streak>>

\* The call's result reaches the breaker (Pool.Report).
Report(c, outcome) ==
    /\ call[c] # "idle"
    /\ call' = [call EXCEPT ![c] = "idle"]
    /\ br' = IF outcome = "success" THEN Success(br)
             ELSE IF outcome = "release" THEN Release(br)
             ELSE Failure(br)
    /\ streak' = IF outcome = "success" THEN 0
                 ELSE IF outcome = "failure" /\ streak < FailureThreshold THEN streak + 1
                 ELSE streak

Tick ==
    /\ br' = Age(br)
    /\ UNCHANGED <<call, streak>>

Next ==
    \/ \E c \in Calls : Admit(c)
    \/ Look
    \/ \E c \in Calls, o \in Outcomes : Report(c, o)
    \/ Tick

\* Upstream calls return (the wait for a header has a timeout, and the client
\* of a stalled answer does not wait for ever) and time passes.  Nothing is
\* assumed about which outcome a call has.
Fairness ==
    /\ \A c \in Calls : WF_vars(\E o \in Outcomes : Report(c, o))
    /\ WF_vars(Tick)

Spec == Init /\ [][Next]_vars

FairSpec == Spec /\ Fairness

----------------------------------------------------------------------------

\* breaker.go:105-119 with 97-103: the breaker is Closed exactly while fewer
\* than FailureThreshold failures have been reported since the last success,
\* whichever states it went through in between; a Release neither counts nor
\* breaks the run of consecutive failures.
ClosedIffStreakBelowThreshold ==
    br.state = Closed <=> streak < FailureThreshold

\* breaker.go:78-95 and 105-126: the probe slot is taken only in HalfOpen, and
\* then by a call that is still in flight, so that someone will free it.  (The
\* converse does not hold: the result of a call from before the breaker opened
\* frees the slot too, and a second probe may start beside the first.)
ProbeSlotOwned ==
    br.halfOpenInFlight =>
        /\ br.state = HalfOpen
        /\ \E c \in Calls : call[c] = "probe"

\* breaker.go:78-95: an Open breaker sheds load.  No call is admitted, and
\* no reader finds it half-open, before a whole Cooldown has gone by without
\* a failure.
OpenShedsLoad ==
    [][br.state = Open /\ br.elapsed < Cooldown
         => /\ \A c \in Calls : call[c] = "idle" => call'[c] = "idle"
            /\ br'.state # HalfOpen]_vars

\* However the late results of earlier calls interleave, the breaker is
\* always eventually willing to admit a call: it gets stuck neither Open (late
\* failures restart the cooldown) nor HalfOpen with its slot taken.
EventuallyAdmits == []<>Eligible(br)
============================================================================
