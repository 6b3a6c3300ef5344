--------------------------- MODULE BreakerProofs ---------------------------
(***************************************************************************)
(* Invariance proofs for BreakerCalls, for every threshold, cooldown and   *)
(* set of callers.                                                         *)
(***************************************************************************)
EXTENDS BreakerCalls, TLAPS

(***************************************************************************)
(* The inductive invariant.  ClosedIffStreakBelowThreshold is not          *)
(* inductive by itself: it needs the breaker's own counter to agree with   *)
(* the history, which a half-open failure preserves only because the       *)
(* counter already is at the threshold.                                    *)
(***************************************************************************)
CountAgrees == br.failures = streak

BreakerInv ==
    /\ TypeOK
    /\ CountAgrees
    /\ ClosedIffStreakBelowThreshold
    /\ ProbeSlotOwned

\* Each breaker method returns a breaker.
LEMMA OperatorsTyped ==
    ASSUME NEW b \in BreakerRecord
    PROVE  /\ maybeHalfOpen(b) \in BreakerRecord
           /\ Allow(b) \in BreakerRecord
           /\ Success(b) \in BreakerRecord
           /\ Failure(b) \in BreakerRecord
           /\ Release(b) \in BreakerRecord
           /\ Age(b) \in BreakerRecord
  <1>1. maybeHalfOpen(b) \in BreakerRecord
    BY DEF maybeHalfOpen, BreakerRecord
  <1>2. Allow(b) \in BreakerRecord
    BY DEF Allow, maybeHalfOpen, BreakerRecord
  <1>3. 0 \in 0..FailureThreshold /\ 0 \in 0..Cooldown
    BY BreakerAssumption
  <1>4. Success(b) \in BreakerRecord
    BY <1>3 DEF Success, BreakerRecord
  <1>5. Failure(b) \in BreakerRecord
    <2>1. CASE b.state = HalfOpen
      BY <1>3, <2>1 DEF Failure, BreakerRecord
    <2>2. CASE b.state # HalfOpen
      <3> DEFINE n == IF b.failures < FailureThreshold THEN b.failures + 1 ELSE b.failures
      <3>1. n \in 0..FailureThreshold
        BY BreakerAssumption DEF BreakerRecord
      <3>2. Failure(b) \in {[b EXCEPT !.failures = n, !.state = Open, !.elapsed = 0],
                            [b EXCEPT !.failures = n]}
        BY <2>2 DEF Failure
      <3> HIDE DEF n
      <3> QED
        BY <1>3, <3>1, <3>2 DEF BreakerRecord
    <2> QED
      BY <2>1, <2>2
  <1>6. Release(b) \in BreakerRecord
    BY DEF Release, BreakerRecord
  <1>7. Age(b) \in BreakerRecord
    BY BreakerAssumption DEF Age, BreakerRecord
  <1> QED
    BY <1>1, <1>2, <1>4, <1>5, <1>6, <1>7

\* The initial state satisfies the inductive invariant.
LEMMA InitEstablishesInv == Init => BreakerInv
  BY BreakerAssumption
     DEF Init, BreakerInv, TypeOK, CountAgrees, ClosedIffStreakBelowThreshold,
         ProbeSlotOwned, NewBreaker, BreakerRecord, Closed, Open, HalfOpen

\* Every step of BreakerCalls preserves the inductive invariant.
LEMMA NextPreservesInv == BreakerInv /\ [Next]_vars => BreakerInv'
  <1> SUFFICES ASSUME BreakerInv, [Next]_vars PROVE BreakerInv'
    OBVIOUS
  <1> USE DEF BreakerInv
  <1>1. ASSUME NEW c \in Calls, Admit(c) PROVE BreakerInv'
    <2>1. TypeOK'
      BY <1>1, OperatorsTyped DEF TypeOK, Admit
    <2>2. /\ br'.failures = br.failures
          /\ br'.state = Closed <=> br.state = Closed
      BY <1>1 DEF TypeOK, Admit, Allow, maybeHalfOpen, BreakerRecord,
                  Closed, Open, HalfOpen
    <2>3. CountAgrees' /\ ClosedIffStreakBelowThreshold'
      BY <1>1, <2>2 DEF Admit, CountAgrees, ClosedIffStreakBelowThreshold
    <2>4. ASSUME br'.halfOpenInFlight
          PROVE  br'.state = HalfOpen /\ call'[c] = "probe"
      <3>1. AllowProbes(br) /\ br'.state = HalfOpen
        BY <1>1, <2>4 DEF TypeOK, Admit, Allow, AllowProbes, maybeHalfOpen,
              ProbeSlotOwned, BreakerRecord, Closed, Open, HalfOpen
      <3> QED
        BY <1>1, <3>1 DEF TypeOK, Admit
    <2> QED
      BY <2>1, <2>3, <2>4 DEF ProbeSlotOwned
  <1>2. ASSUME Look PROVE BreakerInv'
    <2>1. TypeOK'
      BY <1>2, OperatorsTyped DEF TypeOK, Look
    <2>2. /\ br'.failures = br.failures
          /\ br'.state = Closed <=> br.state = Closed
          /\ br'.halfOpenInFlight => br' = br
      BY <1>2 DEF TypeOK, Look, maybeHalfOpen, BreakerRecord, Closed, Open, HalfOpen
    <2> QED
      BY <1>2, <2>1, <2>2 DEF Look, CountAgrees, ClosedIffStreakBelowThreshold, ProbeSlotOwned
  <1>3. ASSUME NEW c \in Calls, NEW o \in Outcomes, Report(c, o) PROVE BreakerInv'
    <2>1. TypeOK'
      BY <1>3, OperatorsTyped, BreakerAssumption DEF TypeOK, Report, Outcomes
    <2>2. CASE o = "success"
      <3>1. br' = Success(br) /\ streak' = 0
        BY <1>3, <2>2 DEF Report
      <3> QED
        BY <2>1, <3>1, BreakerAssumption DEF TypeOK, BreakerRecord, Success, CountAgrees,
           ClosedIffStreakBelowThreshold, ProbeSlotOwned
    <2>3. CASE o = "failure"
      <3>1. /\ br' = Failure(br)
            /\ streak' = IF streak < FailureThreshold THEN streak + 1 ELSE streak
        BY <1>3, <2>3 DEF Report
      <3>2. CountAgrees' /\ ClosedIffStreakBelowThreshold'
        BY <3>1, BreakerAssumption DEF TypeOK, BreakerRecord, Failure, CountAgrees,
           ClosedIffStreakBelowThreshold, Closed, Open, HalfOpen
      <3>3. ~br'.halfOpenInFlight
        BY <3>1 DEF TypeOK, BreakerRecord, Failure, ProbeSlotOwned, Closed, Open, HalfOpen
      <3> QED
        BY <2>1, <3>2, <3>3 DEF ProbeSlotOwned
    <2>4. CASE o = "release"
      <3>1. br' = Release(br) /\ streak' = streak
        BY <1>3, <2>4 DEF Report
      <3> QED
        BY <2>1, <3>1 DEF TypeOK, BreakerRecord, Release, CountAgrees,
           ClosedIffStreakBelowThreshold, ProbeSlotOwned
    <2> QED
      BY <2>2, <2>3, <2>4 DEF Outcomes
  <1>4. ASSUME Tick PROVE BreakerInv'
    <2>1. TypeOK'
      BY <1>4, OperatorsTyped DEF TypeOK, Tick
    <2>2. /\ br'.failures = br.failures
          /\ br'.state = br.state
          /\ br'.halfOpenInFlight = br.halfOpenInFlight
      BY <1>4 DEF TypeOK, Tick, Age, BreakerRecord
    <2> QED
      BY <1>4, <2>1, <2>2 DEF Tick, CountAgrees, ClosedIffStreakBelowThreshold, ProbeSlotOwned
  <1>5. ASSUME UNCHANGED vars PROVE BreakerInv'
    BY <1>5 DEF vars, TypeOK, CountAgrees, ClosedIffStreakBelowThreshold, ProbeSlotOwned
  <1> QED
    BY <1>1, <1>2, <1>3, <1>4, <1>5 DEF Next

\* The inductive invariant holds in every reachable state.
THEOREM Invariance == Spec => []BreakerInv
  BY InitEstablishesInv, NextPreservesInv, PTL DEF Spec

\* breaker.go: every method keeps the breaker well formed.
THEOREM TypeCorrect == Spec => []TypeOK
  BY Invariance, PTL DEF BreakerInv

\* breaker.go:97-119: the breaker is Closed exactly while the run of failures
\* reported since the last success is shorter than the threshold.
THEOREM ClosedMeansShortStreak == Spec => []ClosedIffStreakBelowThreshold
  BY Invariance, PTL DEF BreakerInv

\* breaker.go:78-126: a taken probe slot belongs to a call still in flight.
THEOREM ProbeSlotNeverLeaks == Spec => []ProbeSlotOwned
  BY Invariance, PTL DEF BreakerInv

\* breaker.go:78-95: a cooling breaker admits nobody and stays out of HalfOpen.
THEOREM CoolingBreakerSheds == Spec => OpenShedsLoad
  <1>1. ASSUME BreakerInv, [Next]_vars, br.state = Open, br.elapsed < Cooldown
        PROVE  /\ \A c \in Calls : call[c] = "idle" => call'[c] = "idle"
               /\ br'.state # HalfOpen
    <2> USE <1>1 DEF BreakerInv, TypeOK, BreakerRecord, Closed, Open, HalfOpen
    <2>1. ASSUME NEW c \in Calls, Admit(c) PROVE FALSE
      BY <2>1, BreakerAssumption DEF Admit, Allowed, Eligible, maybeHalfOpen
    <2>2. CASE Look
      BY <2>2, BreakerAssumption DEF Look, maybeHalfOpen
    <2>3. ASSUME NEW c \in Calls, NEW o \in Outcomes, Report(c, o)
          PROVE  /\ \A d \in Calls : call[d] = "idle" => call'[d] = "idle"
                 /\ br'.state # HalfOpen
      <3>1. \A d \in Calls : call[d] = "idle" => call'[d] = "idle"
        BY <2>3 DEF Report
      <3>2. br' \in {Success(br), Failure(br), Release(br)}
        BY <2>3 DEF Report, Outcomes
      <3>3. br'.state # HalfOpen
        BY <3>2 DEF Success, Failure, Release
      <3> QED BY <3>1, <3>3
    <2>4. CASE Tick
      BY <2>4 DEF Tick, Age
    <2>5. CASE UNCHANGED vars
      BY <2>5 DEF vars
    <2> QED BY <2>1, <2>2, <2>3, <2>4, <2>5 DEF Next
  <1> QED
    BY <1>1, Invariance, PTL DEF Spec, OpenShedsLoad
============================================================================
