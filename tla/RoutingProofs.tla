--------------------------- MODULE RoutingProofs ---------------------------
(***************************************************************************)
(* Proofs about the pool and the router, for every set of endpoints,       *)
(* models and callers, every endpoint table, threshold and cooldown: what  *)
(* Pick returns, that the pool implements a BreakerCalls for every         *)
(* endpoint, how far the round robin's credits can drift, and that         *)
(* refreshes and health checks leave all that alone.                       *)
(***************************************************************************)
EXTENDS Routing, FiniteSums

(***************************************************************************)
(* What the pool's members always satisfy.  The probe slot is taken only   *)
(* in HalfOpen, and a breaker is closed while its count is below the       *)
(* threshold; positions tell the members apart, without which nextWRR      *)
(* would have no first among equals; and the pool is finite, without which *)
(* there would be no highest candidate and no total weight.                *)
(***************************************************************************)
SoundBreaker ==
    {b \in BreakerRecord : /\ b.halfOpenInFlight => b.state = HalfOpen
                           /\ b.state = Closed <=> b.failures < FailureThreshold}

MembersOK(ms) ==
    /\ DOMAIN ms \subseteq Endpoints
    /\ IsFiniteSet(DOMAIN ms)
    /\ ms \in [DOMAIN ms -> MemberRecord]
    /\ \A e \in DOMAIN ms : ms[e].breaker \in SoundBreaker
    /\ \A e, f \in DOMAIN ms : ms[e].pos = ms[f].pos => e = f

\* new has the members of ms, of which only the breaker and the round-robin
\* state may differ.
Keeps(ms, new) ==
    /\ DOMAIN new = DOMAIN ms
    /\ \A e \in DOMAIN ms :
          /\ new[e].model = ms[e].model
          /\ new[e].health = ms[e].health
          /\ new[e].weight = ms[e].weight

\* The breakers of ms were at most asked, or asked whether they admit a call.
Looked(ms, new) ==
    \A e \in DOMAIN ms : new[e].breaker \in {ms[e].breaker, maybeHalfOpen(ms[e].breaker)}

\* No probe slot of ms is taken in new that was free, and no breaker is closed
\* that was not.
Calm(ms, new) ==
    \A e \in DOMAIN ms :
        /\ new[e].breaker.halfOpenInFlight => ms[e].breaker.halfOpenInFlight
        /\ ms[e].breaker.state # Closed => new[e].breaker.state # Closed

----------------------------------------------------------------------------
(* The breaker's methods *)

\* Every method leaves a breaker, and no method takes the probe slot outside
\* of HalfOpen.
LEMMA MethodsSound ==
    ASSUME NEW b \in SoundBreaker
    PROVE  /\ maybeHalfOpen(b) \in SoundBreaker
           /\ Allow(b) \in SoundBreaker
           /\ Success(b) \in SoundBreaker
           /\ Failure(b) \in SoundBreaker
           /\ Release(b) \in SoundBreaker
           /\ Age(b) \in SoundBreaker
  <1> USE DEF SoundBreaker, BreakerRecord, Closed, Open, HalfOpen
  <1>1. maybeHalfOpen(b) \in SoundBreaker
    BY DEF maybeHalfOpen
  <1>2. Allow(b) \in SoundBreaker
    BY DEF Allow, maybeHalfOpen
  <1>3. 0 \in 0..FailureThreshold /\ 0 \in 0..Cooldown
    BY BreakerAssumption
  <1>4. Success(b) \in SoundBreaker
    <2>1. /\ Success(b) \in BreakerRecord /\ Success(b).state = Closed
          /\ Success(b).failures = 0 /\ Success(b).halfOpenInFlight = FALSE
      BY <1>3 DEF Success
    <2>2. 0 < FailureThreshold
      BY BreakerAssumption
    <2> QED
      BY <2>1, <2>2
  <1>5. Failure(b) \in SoundBreaker
    <2>1. CASE b.state = HalfOpen
      BY <1>3, <2>1 DEF Failure
    <2>2. CASE b.state # HalfOpen
      <3> DEFINE n == IF b.failures < FailureThreshold THEN b.failures + 1 ELSE b.failures
      <3>1. n \in 0..FailureThreshold
        BY BreakerAssumption
      <3>2. b.halfOpenInFlight = FALSE
        BY <2>2
      <3>3. CASE n >= FailureThreshold
        <4>1. Failure(b) = [b EXCEPT !.failures = n, !.state = Open, !.elapsed = 0]
          BY <2>2, <3>3 DEF Failure
        <4> HIDE DEF n
        <4>2. /\ Failure(b) \in BreakerRecord /\ Failure(b).state = Open
              /\ Failure(b).failures = n /\ Failure(b).halfOpenInFlight = FALSE
          BY <1>3, <3>1, <3>2, <4>1
        <4>3. ~(n < FailureThreshold)
          BY <3>1, <3>3, BreakerAssumption
        <4> QED
          BY <4>2, <4>3
      <3>4. CASE n < FailureThreshold
        <4>1. Failure(b) = [b EXCEPT !.failures = n]
          BY <2>2, <3>4, BreakerAssumption DEF Failure
        <4>2. b.state = Closed
          BY <3>4
        <4> HIDE DEF n
        <4> QED
          BY <3>1, <3>2, <3>4, <4>1, <4>2
      <3> QED
        BY <3>1, <3>3, <3>4, BreakerAssumption
    <2> QED
      BY <2>1, <2>2
  <1>6. Release(b) \in SoundBreaker
    BY DEF Release
  <1>7. Age(b) \in SoundBreaker
    BY BreakerAssumption DEF Age
  <1> QED
    BY <1>1, <1>2, <1>4, <1>5, <1>6, <1>7

\* Only Allow takes the slot; the result of a call frees it whatever it is;
\* and only a result closes a breaker.
LEMMA MethodsAndSlot ==
    ASSUME NEW b \in SoundBreaker
    PROVE  /\ maybeHalfOpen(b).halfOpenInFlight => b.halfOpenInFlight
           /\ Age(b).halfOpenInFlight = b.halfOpenInFlight
           /\ ~Success(b).halfOpenInFlight
           /\ ~Failure(b).halfOpenInFlight
           /\ ~Release(b).halfOpenInFlight
           /\ b.state # Closed => /\ maybeHalfOpen(b).state # Closed
                                  /\ Allow(b).state # Closed
                                  /\ Age(b).state # Closed
  <1> USE DEF SoundBreaker, BreakerRecord, Closed, Open, HalfOpen
  <1>1. maybeHalfOpen(b).halfOpenInFlight => b.halfOpenInFlight
    BY DEF maybeHalfOpen
  <1>2. Age(b).halfOpenInFlight = b.halfOpenInFlight
    BY DEF Age
  <1>3. ~Success(b).halfOpenInFlight /\ ~Release(b).halfOpenInFlight
    BY DEF Success, Release
  <1>4. ~Failure(b).halfOpenInFlight
    <2>1. CASE b.state = HalfOpen
      BY <2>1 DEF Failure
    <2>2. CASE b.state # HalfOpen
      BY <2>2 DEF Failure
    <2> QED
      BY <2>1, <2>2
  <1>5. b.state # Closed => maybeHalfOpen(b).state # Closed /\ Age(b).state # Closed
    BY DEF maybeHalfOpen, Age
  <1>6. b.state # Closed => Allow(b).state # Closed
    BY DEF maybeHalfOpen, Allow
  <1> QED
    BY <1>1, <1>2, <1>3, <1>4, <1>5, <1>6

----------------------------------------------------------------------------
(* The pool's operators *)

\* Changing breakers and round-robin state keeps the pool sound.
LEMMA UpdateKeeps ==
    ASSUME NEW ms, MembersOK(ms), NEW new,
           new = [e \in DOMAIN ms |-> new[e]],
           \A e \in DOMAIN ms : \E b \in SoundBreaker, n \in Int :
               new[e] = [ms[e] EXCEPT !.breaker = b, !.current = n]
    PROVE  MembersOK(new) /\ Keeps(ms, new)
  <1>1. DOMAIN new = DOMAIN ms
    OBVIOUS
  <1>2. ASSUME NEW e \in DOMAIN ms
        PROVE  /\ new[e] \in MemberRecord /\ new[e].breaker \in SoundBreaker
               /\ new[e].pos = ms[e].pos /\ new[e].model = ms[e].model
               /\ new[e].health = ms[e].health /\ new[e].weight = ms[e].weight
    <2>1. PICK b \in SoundBreaker, n \in Int :
            new[e] = [ms[e] EXCEPT !.breaker = b, !.current = n]
      OBVIOUS
    <2>2. ms[e] \in MemberRecord /\ b \in BreakerRecord
      BY DEF MembersOK, SoundBreaker
    <2> QED
      BY <2>1, <2>2 DEF MemberRecord
  <1>3. new \in [DOMAIN new -> MemberRecord]
    BY <1>1, <1>2
  <1>4. Keeps(ms, new)
    BY <1>1, <1>2 DEF Keeps
  <1>5. DOMAIN new \subseteq Endpoints /\ IsFiniteSet(DOMAIN new)
    BY <1>1 DEF MembersOK
  <1>6. \A e \in DOMAIN new : new[e].breaker \in SoundBreaker
    BY <1>1, <1>2
  <1>7. ASSUME NEW e \in DOMAIN new, NEW f \in DOMAIN new, new[e].pos = new[f].pos PROVE e = f
    <2>1. e \in DOMAIN ms /\ f \in DOMAIN ms /\ ms[e].pos = ms[f].pos
      BY <1>1, <1>2, <1>7
    <2> QED
      BY <2>1 DEF MembersOK
  <1> QED
    BY <1>3, <1>4, <1>5, <1>6, <1>7 DEF MembersOK

\* nextWRR chooses the candidate with the highest credit.
LEMMA NextWRRChooses ==
    ASSUME NEW ms, MembersOK(ms), NEW cands \in SUBSET DOMAIN ms, cands # {}
    PROVE  LET best == NextWRR(ms, cands)
           IN  /\ best \in cands
               /\ \A e \in cands :
                    ms[e].current + ms[e].weight <= ms[best].current + ms[best].weight
  <1> DEFINE raised == [e \in cands |-> ms[e].current + ms[e].weight]
             pos == [e \in cands |-> ms[e].pos]
             Wins(e) == \A f \in cands \ {e} :
                            \/ raised[e] > raised[f]
                            \/ raised[e] = raised[f] /\ ms[e].pos < ms[f].pos
  <1>1. IsFiniteSet(cands)
    BY FS_Subset DEF MembersOK
  <1>2. \A e \in cands : raised[e] \in Int /\ pos[e] \in Nat
    BY DEF MembersOK, MemberRecord
  <1>3. \A e, f \in cands : pos[e] = pos[f] => e = f
    BY DEF MembersOK
  <1>4. \A e \in cands : pos[e] = ms[e].pos
    OBVIOUS
  <1> HIDE DEF raised, pos
  <1>5. \E e \in cands : \A f \in cands \ {e} :
            raised[e] > raised[f] \/ (raised[e] = raised[f] /\ pos[e] < pos[f])
    BY <1>1, <1>2, <1>3, HighestExists
  <1>6. \E e \in cands : Wins(e)
    BY <1>4, <1>5
  <1>7. NextWRR(ms, cands) = CHOOSE e \in cands : Wins(e)
    BY DEF NextWRR, raised
  <1> HIDE DEF Wins
  <1>8. PICK best \in cands : best = NextWRR(ms, cands) /\ Wins(best)
    BY <1>6, <1>7
  <1>9. \A e \in cands : raised[e] <= raised[best]
    BY <1>2, <1>8 DEF Wins
  <1>10. \A e \in cands : raised[e] = ms[e].current + ms[e].weight
    BY DEF raised
  <1> QED
    BY <1>8, <1>9, <1>10

\* The total weight of some members is an integer.
LEMMA TotalWeightType ==
    ASSUME NEW ms, MembersOK(ms), NEW S \in SUBSET DOMAIN ms
    PROVE  TotalWeight(ms, S) \in Int
  <1> DEFINE w == [e \in S |-> ms[e].weight]
  <1>1. IsFiniteSet(S)
    BY FS_Subset DEF MembersOK
  <1>2. \A e \in S : w[e] \in Int
    BY DEF MembersOK, MemberRecord
  <1> HIDE DEF w
  <1>3. SumFunctionOnSet(w, S) \in Int
    BY <1>1, <1>2, SumType
  <1> QED
    BY <1>3 DEF TotalWeight, w

\* Asking breakers whether they are eligible is harmless.
LEMMA AskedKeeps ==
    ASSUME NEW ms, MembersOK(ms), NEW S
    PROVE  /\ MembersOK(Asked(ms, S)) /\ Keeps(ms, Asked(ms, S))
           /\ Looked(ms, Asked(ms, S)) /\ Calm(ms, Asked(ms, S))
  <1> DEFINE new == Asked(ms, S)
  <1>1. /\ new = [e \in DOMAIN ms |-> new[e]] /\ DOMAIN new = DOMAIN ms
        /\ \A e \in DOMAIN ms :
              new[e] = IF e \in S THEN [ms[e] EXCEPT !.breaker = maybeHalfOpen(@)] ELSE ms[e]
    BY DEF Asked
  <1> HIDE DEF new
  <1>2. ASSUME NEW e \in DOMAIN ms
        PROVE  /\ \E b \in SoundBreaker, n \in Int :
                    new[e] = [ms[e] EXCEPT !.breaker = b, !.current = n]
               /\ new[e].breaker.halfOpenInFlight => ms[e].breaker.halfOpenInFlight
               /\ ms[e].breaker.state # Closed => new[e].breaker.state # Closed
               /\ new[e].breaker \in {ms[e].breaker, maybeHalfOpen(ms[e].breaker)}
    <2> DEFINE old == ms[e].breaker
               b == IF e \in S THEN maybeHalfOpen(old) ELSE old
    <2>1. ms[e] \in MemberRecord /\ old \in SoundBreaker
      BY DEF MembersOK
    <2>2. /\ b \in SoundBreaker /\ b \in {old, maybeHalfOpen(old)}
          /\ b.halfOpenInFlight => old.halfOpenInFlight
          /\ old.state # Closed => b.state # Closed
      BY <2>1, MethodsSound, MethodsAndSlot
    <2>3. new[e] = [ms[e] EXCEPT !.breaker = b, !.current = ms[e].current] /\ ms[e].current \in Int
      BY <1>1, <2>1 DEF MemberRecord
    <2>4. new[e].breaker = b
      BY <2>1, <2>3 DEF MemberRecord
    <2> HIDE DEF b
    <2> QED
      BY <2>2, <2>3, <2>4
  <1>3. MembersOK(new) /\ Keeps(ms, new)
    BY <1>1, <1>2, UpdateKeeps
  <1> QED
    BY <1>2, <1>3 DEF Calm, Looked, new

\* nextWRR touches no breaker.
LEMMA AfterWRRKeeps ==
    ASSUME NEW ms, MembersOK(ms), NEW cands \in SUBSET DOMAIN ms
    PROVE  /\ MembersOK(AfterWRR(ms, cands)) /\ Keeps(ms, AfterWRR(ms, cands))
           /\ \A e \in DOMAIN ms : AfterWRR(ms, cands)[e].breaker = ms[e].breaker
  <1> DEFINE new == AfterWRR(ms, cands)
             paid(e) == IF e = NextWRR(ms, cands) THEN TotalWeight(ms, cands) ELSE 0
  <1>1. /\ new = [e \in DOMAIN ms |-> new[e]] /\ DOMAIN new = DOMAIN ms
        /\ \A e \in DOMAIN ms :
              new[e] = IF e \notin cands THEN ms[e]
                       ELSE [ms[e] EXCEPT !.current = @ + ms[e].weight - paid(e)]
    BY DEF AfterWRR
  <1>2. \A e : paid(e) \in Int
    BY TotalWeightType
  <1> HIDE DEF new, paid
  <1>3. ASSUME NEW e \in DOMAIN ms
        PROVE  /\ \E b \in SoundBreaker, n \in Int :
                    new[e] = [ms[e] EXCEPT !.breaker = b, !.current = n]
               /\ new[e].breaker = ms[e].breaker
    <2>1. ms[e] \in MemberRecord /\ ms[e].breaker \in SoundBreaker
      BY DEF MembersOK
    <2>2. PICK n \in Int : n = IF e \notin cands THEN ms[e].current
                               ELSE ms[e].current + ms[e].weight - paid(e)
      BY <1>2, <2>1 DEF MemberRecord
    <2>3. new[e] = [ms[e] EXCEPT !.breaker = ms[e].breaker, !.current = n]
      BY <1>1, <2>1, <2>2 DEF MemberRecord
    <2>4. new[e].breaker = ms[e].breaker
      BY <2>1, <2>3 DEF MemberRecord
    <2> QED
      BY <2>1, <2>2, <2>3, <2>4
  <1>4. MembersOK(new) /\ Keeps(ms, new)
    BY <1>1, <1>3, UpdateKeeps
  <1> QED
    BY <1>3, <1>4 DEF new

\* One member's breaker changes.
LEMMA BreakerChangeKeeps ==
    ASSUME NEW ms, MembersOK(ms), NEW e \in DOMAIN ms, NEW b \in SoundBreaker
    PROVE  LET new == [ms EXCEPT ![e].breaker = b]
           IN  /\ MembersOK(new) /\ Keeps(ms, new)
               /\ new[e].breaker = b
               /\ \A f \in DOMAIN ms \ {e} : new[f] = ms[f]
  <1> DEFINE new == [ms EXCEPT ![e].breaker = b]
  <1>1. /\ new = [f \in DOMAIN ms |-> new[f]] /\ DOMAIN new = DOMAIN ms
        /\ new[e] = [ms[e] EXCEPT !.breaker = b]
        /\ \A f \in DOMAIN ms \ {e} : new[f] = ms[f]
    BY DEF MembersOK
  <1> HIDE DEF new
  <1>2. ASSUME NEW f \in DOMAIN ms
        PROVE  \E c \in SoundBreaker, n \in Int :
                    new[f] = [ms[f] EXCEPT !.breaker = c, !.current = n]
    <2>1. ms[f] \in MemberRecord /\ ms[f].breaker \in SoundBreaker
      BY DEF MembersOK
    <2>2. PICK c \in SoundBreaker : c = IF f = e THEN b ELSE ms[f].breaker
      BY <2>1
    <2>3. new[f] = [ms[f] EXCEPT !.breaker = c, !.current = ms[f].current] /\ ms[f].current \in Int
      BY <1>1, <2>1, <2>2 DEF MemberRecord
    <2> QED
      BY <2>3
  <1>3. MembersOK(new) /\ Keeps(ms, new)
    BY <1>1, <1>2, UpdateKeeps
  <1>4. new[e].breaker = b
    BY <1>1 DEF MembersOK, MemberRecord
  <1> QED
    BY <1>1, <1>3, <1>4 DEF new

\* Report frees the endpoint's probe slot whatever the result is, and leaves
\* the other endpoints alone.
LEMMA ReportedKeeps ==
    ASSUME NEW ms, MembersOK(ms), NEW e, NEW o
    PROVE  LET new == Reported(ms, e, o)
           IN  /\ MembersOK(new) /\ Keeps(ms, new)
               /\ e \in DOMAIN ms => ~new[e].breaker.halfOpenInFlight
               /\ \A f \in DOMAIN ms \ {e} : new[f] = ms[f]
  <1> DEFINE new == Reported(ms, e, o)
  <1>1. CASE e \notin DOMAIN ms
    BY <1>1 DEF Reported, Keeps
  <1>2. CASE e \in DOMAIN ms
    <2> DEFINE old == ms[e].breaker
    <2>1. old \in SoundBreaker
      BY <1>2 DEF MembersOK
    <2>2. PICK b \in {Success(old), Release(old), Failure(old)} :
            new = [ms EXCEPT ![e].breaker = b]
      BY <1>2 DEF Reported
    <2> HIDE DEF new, old
    <2>3. b \in SoundBreaker /\ ~b.halfOpenInFlight
      <3>1. CASE b = Success(old)
        BY <2>1, <3>1, MethodsSound, MethodsAndSlot
      <3>2. CASE b = Release(old)
        BY <2>1, <3>2, MethodsSound, MethodsAndSlot
      <3>3. CASE b = Failure(old)
        BY <2>1, <3>3, MethodsSound, MethodsAndSlot
      <3> QED
        BY <2>2, <3>1, <3>2, <3>3
    <2>4. /\ MembersOK(new) /\ Keeps(ms, new) /\ new[e].breaker = b
          /\ \A f \in DOMAIN ms \ {e} : new[f] = ms[f]
      BY <1>2, <2>2, <2>3, BreakerChangeKeeps
    <2> QED
      BY <2>3, <2>4 DEF new
  <1> QED
    BY <1>1, <1>2

\* Time passes for every breaker.
LEMMA AgedKeeps ==
    ASSUME NEW ms, MembersOK(ms)
    PROVE  LET new == [e \in DOMAIN ms |-> [ms[e] EXCEPT !.breaker = Age(@)]]
           IN  MembersOK(new) /\ Keeps(ms, new) /\ Calm(ms, new)
  <1> DEFINE new == [e \in DOMAIN ms |-> [ms[e] EXCEPT !.breaker = Age(@)]]
  <1>1. /\ new = [e \in DOMAIN ms |-> new[e]] /\ DOMAIN new = DOMAIN ms
        /\ \A e \in DOMAIN ms : new[e] = [ms[e] EXCEPT !.breaker = Age(@)]
    OBVIOUS
  <1> HIDE DEF new
  <1>2. ASSUME NEW e \in DOMAIN ms
        PROVE  /\ \E b \in SoundBreaker, n \in Int :
                    new[e] = [ms[e] EXCEPT !.breaker = b, !.current = n]
               /\ new[e].breaker.halfOpenInFlight => ms[e].breaker.halfOpenInFlight
               /\ ms[e].breaker.state # Closed => new[e].breaker.state # Closed
    <2> DEFINE old == ms[e].breaker
    <2>1. ms[e] \in MemberRecord /\ old \in SoundBreaker
      BY DEF MembersOK
    <2>2. /\ Age(old) \in SoundBreaker
          /\ Age(old).halfOpenInFlight => old.halfOpenInFlight
          /\ old.state # Closed => Age(old).state # Closed
      BY <2>1, MethodsSound, MethodsAndSlot
    <2>3. /\ new[e] = [ms[e] EXCEPT !.breaker = Age(old), !.current = ms[e].current]
          /\ ms[e].current \in Int
      BY <1>1, <2>1 DEF MemberRecord
    <2>4. new[e].breaker = Age(old)
      BY <2>1, <2>3 DEF MemberRecord
    <2> QED
      BY <2>2, <2>3, <2>4
  <1>3. MembersOK(new) /\ Keeps(ms, new)
    BY <1>1, <1>2, UpdateKeeps
  <1> QED
    BY <1>2, <1>3 DEF Calm, new

\* Replace: the members that stay keep health and breaker, new ones are healthy
\* and closed.
LEMMA ReplacedKeeps ==
    ASSUME NEW rows \in Seq(RowRecord), NEW old, MembersOK(old)
    PROVE  LET new == Replaced(rows, old)
           IN  /\ MembersOK(new)
               /\ \A e \in DOMAIN new :
                     IF e \in DOMAIN old
                     THEN new[e].breaker = old[e].breaker /\ new[e].health = old[e].health
                     ELSE new[e].breaker = NewBreaker /\ new[e].health = Healthy
  <1> DEFINE new == Replaced(rows, old)
             at(e) == CHOOSE j \in DOMAIN rows : rows[j].id = e
  <1>1. CASE ~\A i \in DOMAIN rows : Validate(rows[i])
    BY <1>1 DEF Replaced
  <1>2. CASE \A i \in DOMAIN rows : Validate(rows[i])
    <2>1. /\ DOMAIN new = Rows(rows)
          /\ new = [e \in Rows(rows) |-> MemberOf(rows, at(e), old)]
      BY <1>2 DEF Replaced
    <2>2. /\ DOMAIN rows = 1..Len(rows) /\ Len(rows) \in Nat
          /\ \A i \in DOMAIN rows : rows[i] \in RowRecord
      OBVIOUS
    <2>3. Rows(rows) \subseteq Endpoints
      BY <2>2 DEF Rows, RowRecord
    <2>4. IsFiniteSet(Rows(rows))
      <3> DEFINE ids == [i \in DOMAIN rows |-> rows[i].id]
      <3>1. IsFiniteSet(DOMAIN rows)
        BY <2>2, FS_Interval
      <3>2. ids \in Surjection(DOMAIN rows, Rows(rows))
        BY DEF Rows, Surjection
      <3> QED
        BY <3>1, <3>2, FS_Surjection
    <2>5. \A e \in Rows(rows) : at(e) \in DOMAIN rows /\ rows[at(e)].id = e
      BY DEF Rows
    <2> HIDE DEF new, at
    <2>6. ASSUME NEW e \in Rows(rows)
          PROVE  /\ new[e] \in MemberRecord /\ new[e].breaker \in SoundBreaker
                 /\ new[e].pos = at(e)
                 /\ IF e \in DOMAIN old
                    THEN new[e].breaker = old[e].breaker /\ new[e].health = old[e].health
                    ELSE new[e].breaker = NewBreaker /\ new[e].health = Healthy
      <3> DEFINE row == rows[at(e)]
      <3>1. /\ row \in RowRecord /\ row.id = e /\ row.weight >= 0 /\ at(e) \in Nat
        BY <1>2, <2>2, <2>5 DEF Validate
      <3>2. NewBreaker \in SoundBreaker
        BY BreakerAssumption DEF NewBreaker, SoundBreaker, BreakerRecord, Closed, Open, HalfOpen
      <3>3. PICK b \in SoundBreaker : b = IF e \in DOMAIN old THEN old[e].breaker ELSE NewBreaker
        BY <3>2 DEF MembersOK
      <3>4. PICK h \in {Healthy, Unhealthy} : h = IF e \in DOMAIN old THEN old[e].health ELSE Healthy
        BY DEF MembersOK, MemberRecord
      <3>5. PICK n \in Int : n = IF e \in DOMAIN old THEN old[e].current ELSE 0
        BY DEF MembersOK, MemberRecord
      <3>6. PICK w \in Nat \ {0} : w = IF row.weight = 0 THEN 1 ELSE row.weight
        <4>1. row.weight \in Int
          BY <3>1 DEF RowRecord
        <4> HIDE DEF row
        <4> QED
          BY <3>1, <4>1
      <3>7. new[e] = [model |-> row.model, provider |-> ProviderOf(row), pos |-> at(e), weight |-> w,
                      health |-> h, breaker |-> b, current |-> n]
        BY <2>1, <3>1, <3>3, <3>4, <3>5, <3>6 DEF MemberOf
      <3>8. row.model \in Models /\ ProviderOf(row) \in ProviderNames
        BY <3>1 DEF RowRecord, ProviderOf, ProviderNames
      <3>9. b \in BreakerRecord
        BY DEF SoundBreaker
      <3> HIDE DEF row
      <3>10. new[e] \in MemberRecord
        BY <3>1, <3>7, <3>8, <3>9 DEF MemberRecord
      <3>11. new[e].breaker = b /\ new[e].health = h /\ new[e].pos = at(e)
        BY <3>7
      <3> QED
        BY <3>3, <3>4, <3>10, <3>11
    <2>7. new \in [DOMAIN new -> MemberRecord]
      BY <2>1, <2>6
    <2>8. ASSUME NEW e \in DOMAIN new, NEW f \in DOMAIN new, new[e].pos = new[f].pos PROVE e = f
      <3>1. at(e) = at(f)
        BY <2>1, <2>6, <2>8
      <3> QED
        BY <2>1, <2>5, <3>1
    <2>9. MembersOK(new)
      <3>1. DOMAIN new \subseteq Endpoints /\ IsFiniteSet(DOMAIN new)
        BY <2>1, <2>3, <2>4
      <3>2. \A e \in DOMAIN new : new[e].breaker \in SoundBreaker
        BY <2>1, <2>6
      <3> QED
        BY <2>7, <2>8, <3>1, <3>2 DEF MembersOK
    <2> QED
      BY <2>1, <2>6, <2>9 DEF new
  <1> QED
    BY <1>1, <1>2

----------------------------------------------------------------------------
(***************************************************************************)
(* The pool's inductive invariant.  The lock is held by the one request    *)
(* that is in the middle of its Pick (LockHeld), and what its scan found   *)
(* still stands (ScanHolds), because whoever could change it needs the     *)
(* lock: this is what makes the returned endpoint servable although the    *)
(* breakers move while Pick runs.                                          *)
(***************************************************************************)
Picking(c) == pick[c].pc \in {"allow", "retry"}

LockHeld == \A c \in Callers : Picking(c) <=> lock = c

ScanHolds ==
    \A c \in Callers : Picking(c) =>
        /\ pick[c].chosen \in pick[c].cands
        /\ \A e \in pick[c].cands :
              /\ e \in DOMAIN members \ pick[c].exclude
              /\ members[e].model = pick[c].model
              /\ members[e].health = Healthy

ReturnsEndpoint == \A c \in Callers : Got(c) => pick[c].chosen \in Endpoints

PoolInv ==
    /\ MembersOK(members)
    /\ lock \in Callers \cup {Nobody}
    /\ pick \in [Callers -> PickRecord]
    /\ LockHeld
    /\ ScanHolds
    /\ ReturnsEndpoint

\* A request outside of Pick changes where it is, and perhaps a breaker.
LEMMA OutsidePick ==
    ASSUME PoolInv, NEW c \in Callers, ~Picking(c),
           MembersOK(members'), Keeps(members, members'), UNCHANGED lock,
           NEW p \in PickRecord, p.pc \notin {"allow", "retry", "got"},
           pick' = [pick EXCEPT ![c] = p]
    PROVE  PoolInv'
  <1>1. /\ pick' \in [Callers -> PickRecord]
        /\ pick'[c] = p
        /\ \A d \in Callers \ {c} : pick'[d] = pick[d]
    BY DEF PoolInv
  <1>2. ~Picking(c)' /\ \A d \in Callers \ {c} : Picking(d)' <=> Picking(d)
    BY <1>1 DEF Picking
  <1>3. LockHeld' /\ ReturnsEndpoint'
    BY <1>1, <1>2 DEF PoolInv, LockHeld, ReturnsEndpoint, Got
  <1>4. ScanHolds'
    <2> SUFFICES ASSUME NEW d \in Callers, Picking(d)'
                 PROVE  /\ pick'[d].chosen \in pick'[d].cands
                        /\ \A e \in pick'[d].cands :
                              /\ e \in DOMAIN members' \ pick'[d].exclude
                              /\ members'[e].model = pick'[d].model
                              /\ members'[e].health = Healthy
      BY DEF ScanHolds
    <2>1. d # c /\ Picking(d) /\ pick'[d] = pick[d]
      BY <1>1, <1>2
    <2> QED
      BY <2>1 DEF PoolInv, ScanHolds, Keeps
  <1> QED
    BY <1>1, <1>3, <1>4 DEF PoolInv

\* Nothing but breakers and round-robin state changes.
LEMMA OnlyMembersMove ==
    ASSUME PoolInv, MembersOK(members'), UNCHANGED <<lock, pick>>,
           Keeps(members, members') \/ lock = Nobody
    PROVE  PoolInv'
  <1>1. \A c \in Callers : Picking(c)' <=> Picking(c)
    BY DEF Picking
  <1>2. LockHeld' /\ ReturnsEndpoint'
    BY <1>1 DEF PoolInv, LockHeld, ReturnsEndpoint, Got
  <1>3. ScanHolds'
    <2>1. CASE Keeps(members, members')
      BY <1>1, <2>1 DEF PoolInv, ScanHolds, Keeps
    <2>2. CASE lock = Nobody
      BY <1>1, <2>2, PoolAssumption DEF PoolInv, ScanHolds, LockHeld
    <2> QED
      BY <2>1, <2>2
  <1> QED
    BY <1>2, <1>3 DEF PoolInv

\* The lock is with c or with nobody.
Alone(c) == \A d \in Callers \ {c} : ~Picking(d)

\* c leaves Pick, with an endpoint or without.
LEMMA LeavesPick ==
    ASSUME PoolInv, NEW c \in Callers, Alone(c), MembersOK(members'),
           NEW p \in PickRecord, p.pc \notin {"allow", "retry"},
           p.pc = "got" => p.chosen \in Endpoints,
           pick' = [pick EXCEPT ![c] = p], lock' = Nobody
    PROVE  PoolInv'
  <1>1. /\ pick' \in [Callers -> PickRecord]
        /\ pick'[c] = p
        /\ \A d \in Callers \ {c} : pick'[d] = pick[d]
    BY DEF PoolInv
  <1>2. \A d \in Callers : ~Picking(d)'
    BY <1>1 DEF Picking, Alone
  <1>3. ReturnsEndpoint'
    BY <1>1 DEF PoolInv, ReturnsEndpoint, Got
  <1> QED
    BY <1>1, <1>2, <1>3, PoolAssumption DEF PoolInv, LockHeld, ScanHolds

\* c goes on in Pick with the lock and a choice among candidates.
LEMMA GoesOnInPick ==
    ASSUME PoolInv, NEW c \in Callers, Alone(c),
           MembersOK(members'), Keeps(members, members'),
           NEW p \in PickRecord, p.pc \in {"allow", "retry"}, p.chosen \in p.cands,
           \A e \in p.cands : /\ e \in DOMAIN members \ p.exclude
                              /\ members[e].model = p.model
                              /\ members[e].health = Healthy,
           pick' = [pick EXCEPT ![c] = p], lock' = c
    PROVE  PoolInv'
  <1>1. /\ pick' \in [Callers -> PickRecord]
        /\ pick'[c] = p
        /\ \A d \in Callers \ {c} : pick'[d] = pick[d]
    BY DEF PoolInv
  <1>2. Picking(c)' /\ \A d \in Callers \ {c} : ~Picking(d)'
    BY <1>1 DEF Picking, Alone
  <1>3. LockHeld' /\ ReturnsEndpoint'
    BY <1>1, <1>2 DEF LockHeld, PoolInv, ReturnsEndpoint, Got
  <1>4. ScanHolds'
    BY <1>1, <1>2 DEF ScanHolds, Keeps
  <1> QED
    BY <1>1, <1>3, <1>4 DEF PoolInv

\* A scan of the members in S, and a choice among the eligible ones in T.
LEMMA ScanKeeps ==
    ASSUME NEW ms, MembersOK(ms), NEW S, NEW T \in SUBSET DOMAIN ms, T # {}
    PROVE  LET new == AfterWRR(Asked(ms, S), T)
           IN  /\ MembersOK(new) /\ Keeps(ms, new) /\ Looked(ms, new) /\ Calm(ms, new)
               /\ NextWRR(Asked(ms, S), T) \in T
  <1> DEFINE mid == Asked(ms, S)
             new == AfterWRR(mid, T)
  <1>1. MembersOK(mid) /\ Keeps(ms, mid) /\ Looked(ms, mid) /\ Calm(ms, mid)
    BY AskedKeeps
  <1> HIDE DEF mid
  <1>2. DOMAIN mid = DOMAIN ms /\ T \in SUBSET DOMAIN mid
    BY <1>1 DEF Keeps
  <1>3. MembersOK(new) /\ Keeps(mid, new) /\ \A e \in DOMAIN mid : new[e].breaker = mid[e].breaker
    BY <1>1, <1>2, AfterWRRKeeps
  <1>4. NextWRR(mid, T) \in T
    BY <1>1, <1>2, NextWRRChooses
  <1> HIDE DEF new
  <1>5. Keeps(ms, new)
    BY <1>1, <1>3 DEF Keeps
  <1>6. Calm(ms, new) /\ Looked(ms, new)
    BY <1>1, <1>2, <1>3 DEF Calm, Looked
  <1> QED
    BY <1>3, <1>4, <1>5, <1>6 DEF mid, new

\* What a step of c's Pick may do to the pool.
PickEffect(c) ==
    /\ PoolInv'
    /\ Keeps(members, members')
    /\ ~Got(c)
    /\ \A d \in Callers \ {c} : pick'[d] = pick[d]
    /\ \A e \in DOMAIN members :
          /\ members[e].breaker.state # Closed => members'[e].breaker.state # Closed
          /\ members'[e].breaker.halfOpenInFlight =>
                members[e].breaker.halfOpenInFlight \/ (Got(c)' /\ pick'[c].chosen = e)
    /\ \A e \in DOMAIN members :
          ~(Got(c)' /\ pick'[c].chosen = e) =>
              members'[e].breaker \in {members[e].breaker, maybeHalfOpen(members[e].breaker)}
    /\ pick'[c].pc \in {"allow", "retry", "got", "none"}
    /\ pick[c].exclude \subseteq pick'[c].exclude
    /\ pick'[c].model = pick[c].model
    /\ Got(c)' => LET e == pick'[c].chosen IN
                  /\ e \in DOMAIN members \ pick[c].exclude
                  /\ members[e].model = pick[c].model
                  /\ members[e].health = Healthy
                  /\ pick'[c].exclude = pick[c].exclude
                  /\ Allowed(members[e].breaker)
                  /\ members'[e].breaker = Allow(members[e].breaker)
                  /\ pick'[c].probe = AllowProbes(members[e].breaker)
                  /\ pick'[c].provider = members[e].provider

\* Every step of Pick keeps the pool sound, and what Pick returns can serve the
\* request.
LEMMA PickStepKeeps ==
    ASSUME PoolInv, NEW c \in Callers, PickStep(c)
    PROVE  PickEffect(c)
  <1>a. /\ pick[c] \in PickRecord /\ MembersOK(members) /\ pick \in [Callers -> PickRecord]
        /\ DOMAIN members \subseteq Endpoints
    BY DEF PoolInv, MembersOK
  <1>b. Alone(c)
    <2>1. lock \in {c, Nobody}
      <3>1. CASE PickScan(c)
        BY <3>1 DEF PickScan
      <3>2. CASE Picking(c)
        BY <3>2 DEF PoolInv, LockHeld
      <3> QED
        BY <3>1, <3>2 DEF PickStep, PickGranted, PickRefused, PickGivesUp, Picking
    <2> QED
      BY <2>1, PoolAssumption DEF PoolInv, LockHeld, Alone
  <1>1. CASE PickScan(c)
    <2> DEFINE asked == Servable(members, pick[c].model, pick[c].exclude)
               ms == Asked(members, asked)
               cands == EligibleIn(members, asked)
    <2>1. pick[c].pc = "pick" /\ lock = Nobody
      BY <1>1 DEF PickScan
    <2>2. \A e \in cands : /\ e \in DOMAIN members \ pick[c].exclude
                           /\ members[e].model = pick[c].model
                           /\ members[e].health = Healthy
      BY DEF EligibleIn, Servable
    <2>3. CASE cands = {}
      <3> DEFINE p == [pick[c] EXCEPT !.pc = "none"]
      <3>1. members' = ms /\ pick' = [pick EXCEPT ![c] = p] /\ lock' = Nobody
        BY <1>1, <1>a, <2>3 DEF PickScan
      <3>2. /\ MembersOK(members') /\ Keeps(members, members') /\ Calm(members, members')
            /\ Looked(members, members')
        BY <1>a, <3>1, AskedKeeps
      <3>3. /\ p \in PickRecord /\ p.pc = "none" /\ p.exclude = pick[c].exclude
            /\ p.model = pick[c].model
        BY <1>a DEF PickRecord
      <3> HIDE DEF p, ms, cands, asked
      <3>4. PoolInv'
        BY <1>b, <3>1, <3>2, <3>3, LeavesPick
      <3>5. pick'[c] = p /\ \A d \in Callers \ {c} : pick'[d] = pick[d]
        BY <1>a, <3>1
      <3> QED
        BY <2>1, <3>2, <3>3, <3>4, <3>5 DEF PickEffect, Calm, Looked, Got
    <2>4. CASE cands # {}
      <3> DEFINE x == NextWRR(ms, cands)
                 p == [pick[c] EXCEPT !.pc = "allow", !.cands = cands, !.chosen = x]
      <3>1. members' = AfterWRR(ms, cands) /\ pick' = [pick EXCEPT ![c] = p] /\ lock' = c
        BY <1>1, <1>a, <2>4 DEF PickScan
      <3>2. cands \in SUBSET DOMAIN members
        BY <2>2
      <3> HIDE DEF cands, asked
      <3>3. /\ MembersOK(members') /\ Keeps(members, members') /\ Calm(members, members')
            /\ Looked(members, members') /\ x \in cands
        BY <1>a, <2>4, <3>1, <3>2, ScanKeeps
      <3> HIDE DEF x, ms
      <3>4. /\ p \in PickRecord /\ p.pc = "allow" /\ p.exclude = pick[c].exclude
            /\ p.model = pick[c].model /\ p.cands = cands /\ p.chosen = x
        BY <1>a, <3>2, <3>3 DEF PickRecord
      <3> HIDE DEF p
      <3>5. PoolInv'
        BY <1>b, <2>2, <3>1, <3>3, <3>4, GoesOnInPick
      <3>6. pick'[c] = p /\ \A d \in Callers \ {c} : pick'[d] = pick[d]
        BY <1>a, <3>1
      <3> QED
        BY <2>1, <3>3, <3>4, <3>5, <3>6 DEF PickEffect, Calm, Looked, Got
    <2> QED
      BY <2>3, <2>4
  <1>2. ASSUME Picking(c)
        PROVE  LET e == pick[c].chosen IN
               /\ e \in pick[c].cands /\ pick[c].cands \subseteq DOMAIN members
               /\ \A f \in pick[c].cands : /\ f \in DOMAIN members \ pick[c].exclude
                                           /\ members[f].model = pick[c].model
                                           /\ members[f].health = Healthy
               /\ lock = c /\ ~Got(c)
    BY <1>2 DEF PoolInv, ScanHolds, LockHeld, Picking, Got
  <1>3. CASE PickGranted(c)
    <2> DEFINE e == pick[c].chosen
               br == members[e].breaker
               p == [pick[c] EXCEPT !.pc = "got", !.cands = {}, !.probe = AllowProbes(br),
                                    !.provider = members[e].provider]
    <2>1. Picking(c)
      BY <1>3 DEF PickGranted, Picking
    <2>2. e \in DOMAIN members
      BY <1>2, <2>1
    <2>3. br \in SoundBreaker /\ members[e] \in MemberRecord
      BY <1>a, <2>2 DEF MembersOK
    <2>4. /\ members' = [members EXCEPT ![e].breaker = Allow(br)]
          /\ pick' = [pick EXCEPT ![c] = p] /\ lock' = Nobody
      <3>1. pick' = [pick EXCEPT ![c] = p]
        BY <1>3, <1>a DEF PickGranted
      <3>2. members' = [members EXCEPT ![e].breaker = Allow(br)]
        BY <1>3, <1>a, <2>2 DEF PickGranted
      <3> QED
        BY <1>3, <3>1, <3>2 DEF PickGranted
    <2>5. Allow(br) \in SoundBreaker /\ (br.state # Closed => Allow(br).state # Closed)
      BY <2>3, MethodsSound, MethodsAndSlot
    <2>6. /\ p \in PickRecord /\ p.pc = "got" /\ p.probe = AllowProbes(br) /\ p.exclude = pick[c].exclude
          /\ p.model = pick[c].model /\ p.chosen = e /\ e \in Endpoints
          /\ p.provider = members[e].provider
      <3>1. AllowProbes(br) \in BOOLEAN /\ members[e].provider \in ProviderNames
        BY <2>3 DEF AllowProbes, MemberRecord
      <3> QED
        BY <1>a, <2>2, <3>1 DEF PickRecord
    <2> HIDE DEF e, br, p
    <2>7. /\ MembersOK(members') /\ Keeps(members, members') /\ members'[e].breaker = Allow(br)
          /\ \A f \in DOMAIN members \ {e} : members'[f] = members[f]
      BY <1>a, <2>2, <2>4, <2>5, BreakerChangeKeeps
    <2>8. PoolInv'
      BY <1>b, <2>4, <2>6, <2>7, LeavesPick
    <2>9. pick'[c] = p /\ \A d \in Callers \ {c} : pick'[d] = pick[d]
      BY <1>a, <2>4
    <2>10. ASSUME NEW f \in DOMAIN members
           PROVE  /\ members[f].breaker.state # Closed => members'[f].breaker.state # Closed
                  /\ f # e => members'[f].breaker = members[f].breaker
      BY <2>5, <2>7 DEF br
    <2>11. /\ e \in DOMAIN members \ pick[c].exclude
           /\ members[e].model = pick[c].model
           /\ members[e].health = Healthy /\ ~Got(c)
      BY <1>2, <2>1 DEF e
    <2>12. Allowed(br)
      BY <1>3 DEF PickGranted, e, br
    <2> QED
      BY <2>6, <2>7, <2>8, <2>9, <2>10, <2>11, <2>12 DEF PickEffect, Got, br
  <1>4. CASE PickRefused(c)
    <2> DEFINE e == pick[c].chosen
               asked == pick[c].cands
               ms == Asked(members, asked)
               rest == EligibleIn(members, asked \ {e})
    <2>1. Picking(c)
      BY <1>4 DEF PickRefused, Picking
    <2>2. /\ e \in Endpoints
          /\ \A f \in rest : /\ f \in DOMAIN members \ (pick[c].exclude \cup {e})
                             /\ members[f].model = pick[c].model
                             /\ members[f].health = Healthy
      BY <1>2, <1>a, <2>1 DEF EligibleIn
    <2>3. CASE rest = {}
      <3> DEFINE p == [pick[c] EXCEPT !.pc = "none", !.cands = {}, !.exclude = @ \cup {e}]
      <3>1. members' = ms /\ pick' = [pick EXCEPT ![c] = p] /\ lock' = Nobody
        BY <1>4, <1>a, <2>3 DEF PickRefused
      <3>2. /\ MembersOK(members') /\ Keeps(members, members') /\ Calm(members, members')
            /\ Looked(members, members')
        BY <1>a, <3>1, AskedKeeps
      <3>3. /\ p \in PickRecord /\ p.pc = "none" /\ pick[c].exclude \subseteq p.exclude
            /\ p.model = pick[c].model
        BY <1>a, <2>2 DEF PickRecord
      <3> HIDE DEF p, ms, rest, asked
      <3>4. PoolInv'
        BY <1>b, <3>1, <3>2, <3>3, LeavesPick
      <3>5. pick'[c] = p /\ \A d \in Callers \ {c} : pick'[d] = pick[d]
        BY <1>a, <3>1
      <3> QED
        BY <1>2, <2>1, <3>2, <3>3, <3>4, <3>5 DEF PickEffect, Calm, Looked, Got
    <2>4. CASE rest # {}
      <3> DEFINE x == NextWRR(ms, rest)
                 p == [pick[c] EXCEPT !.pc = "retry", !.cands = rest, !.exclude = @ \cup {e},
                                      !.chosen = x]
      <3>1. members' = AfterWRR(ms, rest) /\ pick' = [pick EXCEPT ![c] = p] /\ lock' = c
        BY <1>2, <1>4, <1>a, <2>1, <2>4 DEF PickRefused
      <3>2. rest \in SUBSET DOMAIN members
        BY <2>2
      <3> HIDE DEF rest, asked
      <3>3. /\ MembersOK(members') /\ Keeps(members, members') /\ Calm(members, members')
            /\ Looked(members, members') /\ x \in rest
        BY <1>a, <2>4, <3>1, <3>2, ScanKeeps
      <3> HIDE DEF x, ms, e
      <3>4. /\ p \in PickRecord /\ p.pc = "retry" /\ p.exclude = pick[c].exclude \cup {e}
            /\ p.model = pick[c].model /\ p.cands = rest /\ p.chosen = x
        BY <1>a, <2>2, <3>2, <3>3 DEF PickRecord
      <3> HIDE DEF p
      <3>5. PoolInv'
        BY <1>b, <2>2, <3>1, <3>3, <3>4, GoesOnInPick
      <3>6. pick'[c] = p /\ \A d \in Callers \ {c} : pick'[d] = pick[d]
        BY <1>a, <3>1
      <3> QED
        BY <1>2, <2>1, <3>3, <3>4, <3>5, <3>6 DEF PickEffect, Calm, Looked, Got
    <2> QED
      BY <2>3, <2>4
  <1>5. CASE PickGivesUp(c)
    <2> DEFINE p == [pick[c] EXCEPT !.pc = "none", !.cands = {}]
    <2>1. Picking(c)
      BY <1>5 DEF PickGivesUp, Picking
    <2>2. /\ members' = Asked(members, {pick[c].chosen})
          /\ pick' = [pick EXCEPT ![c] = p] /\ lock' = Nobody
      BY <1>5, <1>a DEF PickGivesUp
    <2>3. /\ MembersOK(members') /\ Keeps(members, members') /\ Calm(members, members')
          /\ Looked(members, members')
      BY <1>a, <2>2, AskedKeeps
    <2>4. /\ p \in PickRecord /\ p.pc = "none" /\ p.exclude = pick[c].exclude
          /\ p.model = pick[c].model
      BY <1>a DEF PickRecord
    <2> HIDE DEF p
    <2>5. PoolInv'
      BY <1>b, <2>2, <2>3, <2>4, LeavesPick
    <2>6. pick'[c] = p /\ \A d \in Callers \ {c} : pick'[d] = pick[d]
      BY <1>a, <2>2
    <2> QED
      BY <1>2, <2>1, <2>3, <2>4, <2>5, <2>6 DEF PickEffect, Calm, Looked, Got
  <1> QED
    BY <1>1, <1>3, <1>4, <1>5 DEF PickStep

----------------------------------------------------------------------------
(* Steps of the pool and of the router *)

\* What ProbeSlotHeld, HandedOutServable and OnlyResultsClose say of one step.
SlotStep == ProbeSlotHeld => ProbeSlotHeld'

ServableStep ==
    \A c \in Callers :
        ~Got(c) /\ Got(c)' =>
            LET e == pick'[c].chosen IN
            /\ e \in DOMAIN members
            /\ members[e].model = pick[c].model
            /\ members[e].health = Healthy
            /\ e \notin pick[c].exclude

ClosingStep ==
    \A e \in DOMAIN members :
        /\ e \in DOMAIN members'
        /\ members[e].breaker.state # Closed
        /\ members'[e].breaker.state = Closed
        => \E c \in Callers : Got(c) /\ ~Got(c)' /\ pick[c].chosen = e

\* A step that leaves the requests alone and only calms breakers.
LEMMA CalmStep ==
    ASSUME UNCHANGED pick, Calm(members, members'), DOMAIN members' = DOMAIN members
    PROVE  SlotStep /\ ServableStep /\ ClosingStep
  <1>1. \A c \in Callers : Got(c)' <=> Got(c)
    BY DEF Got
  <1>2. SlotStep
    BY <1>1 DEF SlotStep, ProbeSlotHeld, Calm
  <1>3. ServableStep
    BY <1>1 DEF ServableStep
  <1>4. ClosingStep
    BY DEF ClosingStep, Calm
  <1> QED
    BY <1>2, <1>3, <1>4

\* The initial pool is sound.
LEMMA PoolInitSound == PoolInit => PoolInv /\ ProbeSlotHeld
  <1> SUFFICES ASSUME PoolInit PROVE PoolInv /\ ProbeSlotHeld
    OBVIOUS
  <1>1. /\ members = Replaced(FirstTable, NoMembers) /\ lock = Nobody
        /\ pick = [c \in Callers |-> NoPick]
    BY DEF PoolInit, NewPool
  <1>2. MembersOK(NoMembers) /\ DOMAIN NoMembers = {}
    <2>1. DOMAIN NoMembers = {}
      BY DEF NoMembers
    <2>2. NoMembers \in [DOMAIN NoMembers -> MemberRecord]
      BY DEF NoMembers
    <2> QED
      BY <2>1, <2>2, FS_EmptySet DEF MembersOK
  <1>3. FirstTable \in Seq(RowRecord)
    BY PoolAssumption
  <1>4. MembersOK(members) /\ \A e \in DOMAIN members : members[e].breaker = NewBreaker
    BY <1>1, <1>2, <1>3, ReplacedKeeps
  <1>5. ProbeSlotHeld
    BY <1>4 DEF ProbeSlotHeld, NewBreaker
  <1>6. NoPick \in PickRecord /\ NoPick.pc = "idle"
    BY DEF NoPick, PickRecord, Nobody
  <1>7. \A c \in Callers : pick[c] = NoPick
    BY <1>1
  <1>8. pick \in [Callers -> PickRecord] /\ \A c \in Callers : ~Picking(c) /\ ~Got(c)
    BY <1>1, <1>6, <1>7 DEF Picking, Got
  <1> QED
    BY <1>1, <1>4, <1>5, <1>8, PoolAssumption DEF PoolInv, LockHeld, ScanHolds, ReturnsEndpoint

\* A request's step outside of Pick, after which it has no endpoint.
LEMMA LetsGo ==
    ASSUME PoolInv, NEW c \in Callers, ~Picking(c),
           MembersOK(members'), Keeps(members, members'), UNCHANGED lock,
           NEW p \in PickRecord, p.pc \notin {"allow", "retry", "got"},
           pick' = [pick EXCEPT ![c] = p],
           Got(c) => \/ pick[c].chosen \notin DOMAIN members
                     \/ ~members'[pick[c].chosen].breaker.halfOpenInFlight,
           \A e \in DOMAIN members :
               ~(Got(c) /\ pick[c].chosen = e) => members'[e] = members[e]
    PROVE  PoolInv' /\ SlotStep /\ ServableStep /\ ClosingStep
  <1>1. PoolInv'
    BY OutsidePick
  <1>2. pick'[c] = p /\ \A d \in Callers \ {c} : pick'[d] = pick[d]
    BY DEF PoolInv
  <1>3. ~Got(c)' /\ \A d \in Callers \ {c} : Got(d)' <=> Got(d)
    BY <1>2 DEF Got
  <1>4. SlotStep
    <2> SUFFICES ASSUME ProbeSlotHeld, NEW e \in DOMAIN members,
                        members'[e].breaker.halfOpenInFlight
                 PROVE  \E d \in Callers : Got(d)' /\ pick'[d].chosen = e
      BY DEF SlotStep, ProbeSlotHeld, Keeps
    <2>1. ~(Got(c) /\ pick[c].chosen = e)
      OBVIOUS
    <2>2. members[e].breaker.halfOpenInFlight
      BY <2>1
    <2>3. PICK d \in Callers : Got(d) /\ pick[d].chosen = e
      BY <2>2 DEF ProbeSlotHeld
    <2> QED
      BY <1>2, <1>3, <2>1, <2>3
  <1>5. ServableStep
    BY <1>3 DEF ServableStep
  <1>6. ClosingStep
    BY <1>3 DEF ClosingStep
  <1> QED
    BY <1>1, <1>4, <1>5, <1>6

\* A step of Pick takes a probe slot only for the request that gets the endpoint.
LEMMA PickStepServes ==
    ASSUME PoolInv, NEW c \in Callers, PickStep(c)
    PROVE  PoolInv' /\ SlotStep /\ Keeps(members, members') /\ ServableStep /\ ClosingStep
  <1>1. PickEffect(c)
    BY PickStepKeeps
  <1>2. Keeps(members, members') /\ PoolInv' /\ ~Got(c)
    BY <1>1 DEF PickEffect
  <1>3. \A d \in Callers \ {c} : pick'[d] = pick[d]
    BY <1>1 DEF PickEffect
  <1>4. \A d \in Callers \ {c} : Got(d)' <=> Got(d)
    BY <1>3 DEF Got
  <1>5. \A e \in DOMAIN members :
          /\ members[e].breaker.state # Closed => members'[e].breaker.state # Closed
          /\ members'[e].breaker.halfOpenInFlight =>
               members[e].breaker.halfOpenInFlight \/ (Got(c)' /\ pick'[c].chosen = e)
    BY <1>1 DEF PickEffect
  <1>6. SlotStep
    <2> SUFFICES ASSUME ProbeSlotHeld, NEW e \in DOMAIN members,
                        members'[e].breaker.halfOpenInFlight
                 PROVE  \E d \in Callers : Got(d)' /\ pick'[d].chosen = e
      BY <1>2 DEF SlotStep, ProbeSlotHeld, Keeps
    <2>1. CASE members[e].breaker.halfOpenInFlight
      <3>1. PICK d \in Callers : Got(d) /\ pick[d].chosen = e
        BY <2>1 DEF ProbeSlotHeld
      <3> QED
        BY <1>2, <1>3, <1>4, <3>1
    <2> QED
      BY <1>5, <2>1
  <1>7. ClosingStep
    BY <1>5 DEF ClosingStep
  <1>8. ServableStep
    <2>1. ASSUME Got(c)'
          PROVE  LET e == pick'[c].chosen IN
                 /\ e \in DOMAIN members
                 /\ members[e].model = pick[c].model
                 /\ members[e].health = Healthy
                 /\ e \notin pick[c].exclude
      BY <1>1, <2>1 DEF PickEffect
    <2> QED
      BY <1>4, <2>1 DEF ServableStep
  <1> QED
    BY <1>2, <1>6, <1>7, <1>8

\* Every step of a request keeps the pool sound.
LEMMA RequestStepKeeps ==
    ASSUME PoolInv, NEW c \in Callers, RequestStep(c)
    PROVE  PoolInv' /\ SlotStep /\ Keeps(members, members') /\ ServableStep /\ ClosingStep
  <1>a. /\ pick[c] \in PickRecord /\ pick \in [Callers -> PickRecord] /\ MembersOK(members)
        /\ NoPick \in PickRecord /\ NoPick.pc = "idle"
    BY DEF PoolInv, NoPick, PickRecord, Nobody
  <1>b. ASSUME UNCHANGED members PROVE MembersOK(members') /\ Keeps(members, members')
    BY <1>a, <1>b DEF Keeps
  <1>1. ASSUME NEW m \in Models, Arrive(c, m)
        PROVE  PoolInv' /\ SlotStep /\ Keeps(members, members') /\ ServableStep /\ ClosingStep
    <2> DEFINE p == [NoPick EXCEPT !.pc = "pick", !.model = m]
    <2>1. /\ p \in PickRecord /\ p.pc = "pick" /\ ~Picking(c) /\ ~Got(c)
      BY <1>1, <1>a DEF Arrive, Picking, Got, PickRecord, NoPick
    <2>2. pick' = [pick EXCEPT ![c] = p] /\ UNCHANGED <<members, lock>>
      BY <1>1 DEF Arrive
    <2> HIDE DEF p
    <2> QED
      BY <1>b, <2>1, <2>2, LetsGo
  <1>2. CASE PickStep(c)
    BY <1>2, PickStepServes
  <1>3. ASSUME NEW o \in Outcomes, NEW again \in BOOLEAN, Finish(c, o, again)
        PROVE  PoolInv' /\ SlotStep /\ Keeps(members, members') /\ ServableStep /\ ClosingStep
    <2> DEFINE e == pick[c].chosen
    <2>1. Got(c) /\ ~Picking(c) /\ UNCHANGED lock /\ members' = Reported(members, e, o)
      BY <1>3 DEF Finish, Got, Picking
    <2>2. /\ MembersOK(members') /\ Keeps(members, members')
          /\ e \in DOMAIN members => ~members'[e].breaker.halfOpenInFlight
          /\ \A f \in DOMAIN members \ {e} : members'[f] = members[f]
      BY <1>a, <2>1, ReportedKeeps
    <2>3. PICK p \in PickRecord : /\ p.pc \in {"pick", "idle"}
                                  /\ pick' = [pick EXCEPT ![c] = p]
      <3>1. CASE again /\ o # "success"
        <4> DEFINE p == [pick[c] EXCEPT !.pc = "pick", !.chosen = Nobody, !.probe = FALSE,
                                        !.provider = Nobody, !.exclude = @ \cup {e}]
        <4>1. pick' = [pick EXCEPT ![c] = p]
          BY <1>3, <1>a, <3>1 DEF Finish
        <4>2. e \in Endpoints
          BY <2>1 DEF PoolInv, ReturnsEndpoint
        <4>3. p \in PickRecord /\ p.pc = "pick"
          BY <1>a, <4>2 DEF PickRecord, Nobody
        <4> QED
          BY <4>1, <4>3
      <3>2. CASE ~(again /\ o # "success")
        BY <1>3, <1>a, <3>2 DEF Finish
      <3> QED
        BY <3>1, <3>2
    <2> QED
      BY <2>1, <2>2, <2>3, LetsGo
  <1>4. CASE NoEndpoint(c)
    <2>1. ~Picking(c) /\ ~Got(c)
      BY <1>4 DEF NoEndpoint, Picking, Got
    <2>2. pick' = [pick EXCEPT ![c] = NoPick] /\ UNCHANGED <<members, lock>>
      BY <1>4 DEF NoEndpoint
    <2> QED
      BY <1>a, <1>b, <2>1, <2>2, LetsGo
  <1> QED
    BY <1>1, <1>2, <1>3, <1>4 DEF RequestStep, Return

\* A tick changes nothing that a request could notice but a breaker's age.
LEMMA PoolTickKeeps ==
    ASSUME PoolInv, PoolTick
    PROVE  PoolInv' /\ SlotStep /\ Keeps(members, members') /\ ServableStep /\ ClosingStep
  <1>1. MembersOK(members') /\ Keeps(members, members') /\ Calm(members, members')
    BY AgedKeeps DEF PoolTick, PoolInv
  <1>2. UNCHANGED <<lock, pick>>
    BY DEF PoolTick
  <1>3. PoolInv'
    BY <1>1, <1>2, OnlyMembersMove
  <1>4. SlotStep /\ ServableStep /\ ClosingStep
    BY <1>1, <1>2, CalmStep DEF Keeps
  <1> QED
    BY <1>1, <1>3, <1>4

\* Stuttering.
LEMMA PoolStutter ==
    ASSUME PoolInv, UNCHANGED poolVars
    PROVE  PoolInv' /\ SlotStep /\ Keeps(members, members') /\ ServableStep /\ ClosingStep
  <1>1. UNCHANGED members /\ UNCHANGED lock /\ UNCHANGED pick
    BY DEF poolVars
  <1>2. MembersOK(members') /\ Keeps(members, members') /\ Calm(members, members')
    BY <1>1 DEF PoolInv, Keeps, Calm
  <1>3. PoolInv'
    BY <1>1, <1>2, OnlyMembersMove
  <1>4. SlotStep /\ ServableStep /\ ClosingStep
    BY <1>1, <1>2, CalmStep
  <1> QED
    BY <1>2, <1>3, <1>4

\* A refresh keeps the pool sound: it neither frees nor closes a breaker.
LEMMA ReplaceKeeps ==
    ASSUME PoolInv, NEW rows \in Tables, Replace(rows)
    PROVE  /\ PoolInv' /\ SlotStep /\ ServableStep /\ ClosingStep
           /\ \A e \in DOMAIN members' :
                 IF e \in DOMAIN members THEN members'[e].health = members[e].health
                 ELSE members'[e].health = Healthy
  <1>1. rows \in Seq(RowRecord)
    BY PoolAssumption
  <1>2. MembersOK(members) /\ members' = Replaced(rows, members) /\ lock = Nobody
    BY DEF PoolInv, Replace
  <1>3. UNCHANGED <<lock, pick>>
    BY DEF Replace
  <1>4. /\ MembersOK(members')
        /\ \A e \in DOMAIN members' :
              IF e \in DOMAIN members
              THEN /\ members'[e].breaker = members[e].breaker
                   /\ members'[e].health = members[e].health
              ELSE members'[e].breaker = NewBreaker /\ members'[e].health = Healthy
    BY <1>1, <1>2, ReplacedKeeps
  <1>5. PoolInv'
    BY <1>2, <1>3, <1>4, OnlyMembersMove
  <1>6. \A c \in Callers : Got(c)' <=> Got(c)
    BY <1>3 DEF Got
  <1>7. SlotStep
    <2> SUFFICES ASSUME ProbeSlotHeld, NEW e \in DOMAIN members',
                        members'[e].breaker.halfOpenInFlight
                 PROVE  \E c \in Callers : Got(c)' /\ pick'[c].chosen = e
      BY DEF SlotStep, ProbeSlotHeld
    <2>1. e \in DOMAIN members /\ members'[e].breaker = members[e].breaker
      BY <1>4 DEF NewBreaker
    <2> QED
      BY <1>3, <1>6, <2>1 DEF ProbeSlotHeld
  <1>8. ServableStep
    BY <1>6 DEF ServableStep
  <1>9. ClosingStep
    BY <1>4 DEF ClosingStep
  <1> QED
    BY <1>4, <1>5, <1>7, <1>8, <1>9

\* SetHealth changes one member's health and nothing else.
LEMMA SetHealthKeeps ==
    ASSUME PoolInv, NEW e, NEW h \in {Healthy, Unhealthy}, SetHealth(e, h)
    PROVE  /\ PoolInv' /\ SlotStep /\ ServableStep /\ ClosingStep
           /\ DOMAIN members' = DOMAIN members
           /\ \A f \in DOMAIN members :
                 /\ members'[f].health = IF f = e THEN h ELSE members[f].health
                 /\ members'[f].breaker = members[f].breaker
  <1>1. MembersOK(members) /\ lock = Nobody /\ UNCHANGED <<lock, pick>>
    BY DEF PoolInv, SetHealth
  <1>2. /\ DOMAIN members' = DOMAIN members
        /\ members' = [f \in DOMAIN members |-> members'[f]]
        /\ \A f \in DOMAIN members :
              members'[f] = IF f = e THEN [members[f] EXCEPT !.health = h] ELSE members[f]
    BY <1>1 DEF SetHealth, MembersOK
  <1>3. ASSUME NEW f \in DOMAIN members
        PROVE  /\ members'[f] \in MemberRecord
               /\ members'[f].breaker = members[f].breaker
               /\ members'[f].breaker \in SoundBreaker
               /\ members'[f].pos = members[f].pos
               /\ members'[f].health = IF f = e THEN h ELSE members[f].health
    <2>1. members[f] \in MemberRecord /\ members[f].breaker \in SoundBreaker
      BY <1>1 DEF MembersOK
    <2> QED
      BY <1>2, <2>1 DEF MemberRecord
  <1>4. MembersOK(members')
    <2>1. members' \in [DOMAIN members' -> MemberRecord]
      BY <1>2, <1>3
    <2>2. DOMAIN members' \subseteq Endpoints /\ IsFiniteSet(DOMAIN members')
      BY <1>1, <1>2 DEF MembersOK
    <2>3. ASSUME NEW f \in DOMAIN members', NEW g \in DOMAIN members',
                 members'[f].pos = members'[g].pos
          PROVE  f = g
      <3>1. f \in DOMAIN members /\ g \in DOMAIN members /\ members[f].pos = members[g].pos
        BY <1>2, <1>3, <2>3
      <3> QED
        BY <1>1, <3>1 DEF MembersOK
    <2>4. \A f \in DOMAIN members' : members'[f].breaker \in SoundBreaker
      BY <1>2, <1>3
    <2> QED
      BY <2>1, <2>2, <2>3, <2>4 DEF MembersOK
  <1>5. PoolInv'
    BY <1>1, <1>4, OnlyMembersMove
  <1>6. Calm(members, members')
    BY <1>3 DEF Calm
  <1>7. SlotStep /\ ServableStep /\ ClosingStep
    BY <1>1, <1>2, <1>6, CalmStep
  <1> QED
    BY <1>2, <1>3, <1>5, <1>7

----------------------------------------------------------------------------
(* The pool under concurrent requests *)

\* The pool's inductive invariant holds in every reachable state.
THEOREM PoolInvariance == PoolSpec => [](PoolInv /\ ProbeSlotHeld)
  <1>1. ASSUME PoolInv /\ ProbeSlotHeld, [PoolNext]_poolVars
        PROVE  PoolInv' /\ ProbeSlotHeld'
    <2>1. ASSUME NEW c \in Callers, RequestStep(c) PROVE PoolInv' /\ ProbeSlotHeld'
      BY <1>1, <2>1, RequestStepKeeps DEF SlotStep
    <2>2. CASE PoolTick
      BY <1>1, <2>2, PoolTickKeeps DEF SlotStep
    <2>3. CASE UNCHANGED poolVars
      BY <1>1, <2>3, PoolStutter DEF SlotStep
    <2> QED
      BY <1>1, <2>1, <2>2, <2>3 DEF PoolNext
  <1> QED
    BY <1>1, PoolInitSound, PTL DEF PoolSpec

\* The inductive invariant implies the type invariant.
LEMMA PoolInvTyped == PoolInv => PoolTypeOK
  BY DEF PoolInv, PoolTypeOK, MembersOK

\* internal/endpoint: Pick, Report and the clock keep the pool well formed;
\* above all nextWRR always finds a winner among its candidates.
THEOREM PoolTypeCorrect == PoolSpec => []PoolTypeOK
  BY PoolInvariance, PoolInvTyped, PTL

----------------------------------------------------------------------------
(* The refinement of BreakerCalls, endpoint by endpoint *)

\* The breaker of module BreakerCalls, as the pool instantiates it, has the
\* methods of the pool's own.
LEMMA SameMethods ==
    ASSUME NEW e, NEW b
    PROVE  /\ BreakerOf(e)!maybeHalfOpen(b) = maybeHalfOpen(b)
           /\ BreakerOf(e)!Allowed(b) = Allowed(b)
           /\ BreakerOf(e)!AllowProbes(b) = AllowProbes(b)
           /\ BreakerOf(e)!Allow(b) = Allow(b)
           /\ BreakerOf(e)!Success(b) = Success(b)
           /\ BreakerOf(e)!Release(b) = Release(b)
           /\ BreakerOf(e)!Failure(b) = Failure(b)
           /\ BreakerOf(e)!Age(b) = Age(b)
           /\ BreakerOf(e)!NewBreaker = NewBreaker
  <1> USE DEF BreakerOf!Closed, Closed, BreakerOf!Open, Open, BreakerOf!HalfOpen, HalfOpen
  <1>1. BreakerOf(e)!maybeHalfOpen(b) = maybeHalfOpen(b)
    BY DEF BreakerOf!maybeHalfOpen, maybeHalfOpen
  <1>2. BreakerOf(e)!Allowed(b) = Allowed(b)
    BY <1>1 DEF BreakerOf!Allowed, Allowed, BreakerOf!Eligible, Eligible
  <1>3. BreakerOf(e)!AllowProbes(b) = AllowProbes(b)
    BY <1>1 DEF BreakerOf!AllowProbes, AllowProbes
  <1>4. BreakerOf(e)!Allow(b) = Allow(b)
    BY <1>1 DEF BreakerOf!Allow, Allow
  <1>5. BreakerOf(e)!Success(b) = Success(b) /\ BreakerOf(e)!Release(b) = Release(b)
    BY DEF BreakerOf!Success, Success, BreakerOf!Release, Release
  <1>6. BreakerOf(e)!Failure(b) = Failure(b)
    BY DEF BreakerOf!Failure, Failure
  <1>7. BreakerOf(e)!Age(b) = Age(b) /\ BreakerOf(e)!NewBreaker = NewBreaker
    BY DEF BreakerOf!Age, Age, BreakerOf!NewBreaker, NewBreaker
  <1> QED
    BY <1>1, <1>2, <1>3, <1>4, <1>5, <1>6, <1>7

\* How the methods count failures.  A failed probe does not count, which makes
\* no difference: the count is at the threshold by then.
LEMMA MethodsCount ==
    ASSUME NEW b \in SoundBreaker
    PROVE  /\ maybeHalfOpen(b).failures = b.failures
           /\ Allow(b).failures = b.failures
           /\ Age(b).failures = b.failures
           /\ Release(b).failures = b.failures
           /\ Success(b).failures = 0
           /\ Failure(b).failures =
                IF b.failures < FailureThreshold THEN b.failures + 1 ELSE b.failures
  <1> USE DEF SoundBreaker, BreakerRecord, Closed, Open, HalfOpen
  <1>1. maybeHalfOpen(b).failures = b.failures
    BY DEF maybeHalfOpen
  <1>2. Allow(b).failures = b.failures
    BY DEF maybeHalfOpen, Allow
  <1>3. /\ Age(b).failures = b.failures /\ Release(b).failures = b.failures
        /\ Success(b).failures = 0
    BY DEF Age, Release, Success
  <1>4. Failure(b).failures =
            IF b.failures < FailureThreshold THEN b.failures + 1 ELSE b.failures
    <2>1. CASE b.state = HalfOpen
      BY <2>1 DEF Failure
    <2>2. CASE b.state # HalfOpen
      BY <2>2 DEF Failure
    <2> QED
      BY <2>1, <2>2
  <1> QED
    BY <1>1, <1>2, <1>3, <1>4

\* A step of BreakerCalls for the breaker of e, or none.
BreakerStep(e) == BreakerOf(e)!Next \/ UNCHANGED BreakerOf(e)!vars

\* At most, somebody asked the breaker.
LEMMA LookIsBreakerStep ==
    ASSUME NEW e, members[e].breaker \in SoundBreaker,
           members'[e].breaker \in {members[e].breaker, maybeHalfOpen(members[e].breaker)},
           \A c \in Callers : CallTo(e, c)' = CallTo(e, c)
    PROVE  BreakerStep(e)
  <1>1. [c \in Callers |-> CallTo(e, c)]' = [c \in Callers |-> CallTo(e, c)]
    OBVIOUS
  <1>2. members'[e].breaker.failures = members[e].breaker.failures
    BY MethodsCount
  <1>3. CASE members'[e].breaker = members[e].breaker
    BY <1>1, <1>3 DEF BreakerStep, BreakerOf!vars
  <1>4. CASE members'[e].breaker = maybeHalfOpen(members[e].breaker)
    <2>1. members'[e].breaker = BreakerOf(e)!maybeHalfOpen(members[e].breaker)
      BY <1>4, SameMethods
    <2>2. BreakerOf(e)!Look
      BY <1>1, <1>2, <2>1 DEF BreakerOf!Look
    <2> QED
      BY <2>2 DEF BreakerStep, BreakerOf!Next
  <1> QED
    BY <1>3, <1>4

\* Pick's Allow that says yes is the Admit of BreakerCalls.
LEMMA AdmitIsBreakerStep ==
    ASSUME NEW e, NEW c \in Callers, LET b == members[e].breaker IN
               /\ b \in SoundBreaker /\ Allowed(b) /\ members'[e].breaker = Allow(b)
               /\ CallTo(e, c)' = IF AllowProbes(b) THEN "probe" ELSE "call",
           CallTo(e, c) = "idle",
           \A d \in Callers \ {c} : CallTo(e, d)' = CallTo(e, d)
    PROVE  BreakerStep(e)
  <1> DEFINE b == members[e].breaker
             call == [d \in Callers |-> CallTo(e, d)]
  <1>1. call' = [call EXCEPT ![c] = IF AllowProbes(b) THEN "probe" ELSE "call"]
    OBVIOUS
  <1>2. call[c] = "idle"
    OBVIOUS
  <1>3. members'[e].breaker.failures = b.failures
    BY MethodsCount
  <1>4. /\ BreakerOf(e)!Allowed(b) /\ members'[e].breaker = BreakerOf(e)!Allow(b)
        /\ BreakerOf(e)!AllowProbes(b) = AllowProbes(b)
    BY SameMethods
  <1>5. BreakerOf(e)!Admit(c)
    BY <1>1, <1>2, <1>3, <1>4 DEF BreakerOf!Admit
  <1> QED
    BY <1>5 DEF BreakerStep, BreakerOf!Next

\* Pool.Report is the Report of BreakerCalls.
LEMMA ReportIsBreakerStep ==
    ASSUME NEW e \in DOMAIN members, MembersOK(members), NEW c \in Callers, NEW o \in Outcomes,
           members' = Reported(members, e, o),
           CallTo(e, c) # "idle", CallTo(e, c)' = "idle",
           \A d \in Callers \ {c} : CallTo(e, d)' = CallTo(e, d)
    PROVE  BreakerStep(e)
  <1> DEFINE b == members[e].breaker
             call == [d \in Callers |-> CallTo(e, d)]
             after == IF o = "success" THEN Success(b) ELSE IF o = "release" THEN Release(b)
                      ELSE Failure(b)
  <1>1. call' = [call EXCEPT ![c] = "idle"] /\ call[c] # "idle"
    OBVIOUS
  <1>2. b \in SoundBreaker /\ members[e] \in MemberRecord
    BY DEF MembersOK
  <1>3. members'[e].breaker = after
    <2>1. members' = [members EXCEPT ![e].breaker = after]
      BY DEF Reported
    <2> HIDE DEF after
    <2> QED
      BY <1>2, <2>1 DEF MemberRecord, MembersOK
  <1>4. after = IF o = "success" THEN BreakerOf(e)!Success(b)
                ELSE IF o = "release" THEN BreakerOf(e)!Release(b) ELSE BreakerOf(e)!Failure(b)
    BY SameMethods
  <1>5. after.failures = IF o = "success" THEN 0
                         ELSE IF o = "failure" /\ b.failures < FailureThreshold THEN b.failures + 1
                         ELSE b.failures
    BY <1>2, MethodsCount DEF Outcomes
  <1> HIDE DEF after, call
  <1>6. BreakerOf(e)!Report(c, o)
    BY <1>1, <1>3, <1>4, <1>5 DEF BreakerOf!Report, call
  <1>7. o \in BreakerOf(e)!Outcomes
    BY DEF BreakerOf!Outcomes, Outcomes
  <1> QED
    BY <1>6, <1>7 DEF BreakerStep, BreakerOf!Next

\* Nobody gets an endpoint or lets one go, and breakers are at most asked.
LEMMA AsideIsBreakerStep ==
    ASSUME PoolInv, NEW e \in DOMAIN members,
           members'[e].breaker \in {members[e].breaker, maybeHalfOpen(members[e].breaker)},
           \A d \in Callers : (Got(d)' <=> Got(d)) /\ (Got(d) => pick'[d] = pick[d])
    PROVE  BreakerStep(e)
  <1>1. members[e].breaker \in SoundBreaker
    BY DEF PoolInv, MembersOK
  <1>2. \A d \in Callers : CallTo(e, d)' = CallTo(e, d)
    BY DEF CallTo
  <1> QED
    BY <1>1, <1>2, LookIsBreakerStep

\* The clock is the Tick of BreakerCalls.
LEMMA TickIsBreakerStep ==
    ASSUME PoolInv, PoolTick, NEW e \in DOMAIN members
    PROVE  BreakerStep(e)
  <1> DEFINE b == members[e].breaker
             call == [d \in Callers |-> CallTo(e, d)]
  <1>a. MembersOK(members) /\ b \in SoundBreaker
    BY DEF PoolInv, MembersOK
  <1>1. members' = [f \in DOMAIN members |-> [members[f] EXCEPT !.breaker = Age(@)]]
    BY DEF PoolTick
  <1>2. members'[e].breaker = Age(b)
    BY <1>a, <1>1 DEF MembersOK, MemberRecord
  <1>3. call' = call
    BY DEF PoolTick, CallTo, Got
  <1>4. members'[e].breaker.failures = b.failures
    BY <1>a, <1>2, MethodsCount
  <1>5. members'[e].breaker = BreakerOf(e)!Age(b)
    BY <1>2, SameMethods
  <1>6. BreakerOf(e)!Tick
    BY <1>3, <1>4, <1>5 DEF BreakerOf!Tick
  <1> QED
    BY <1>6 DEF BreakerStep, BreakerOf!Next

\* A step of Pick looks at breakers, or is admitted by one.
LEMMA PickIsBreakerStep ==
    ASSUME PoolInv, NEW c \in Callers, PickStep(c), NEW e \in DOMAIN members
    PROVE  BreakerStep(e)
  <1>a. members[e].breaker \in SoundBreaker
    BY DEF PoolInv, MembersOK
  <1>1. PickEffect(c)
    BY PickStepKeeps
  <1>2. ~Got(c) /\ \A d \in Callers \ {c} : pick'[d] = pick[d]
    BY <1>1 DEF PickEffect
  <1>3. CallTo(e, c) = "idle" /\ \A d \in Callers \ {c} : CallTo(e, d)' = CallTo(e, d)
    BY <1>2 DEF CallTo, Got
  <1>4. CASE Got(c)' /\ pick'[c].chosen = e
    <2>1. /\ Allowed(members[e].breaker) /\ members'[e].breaker = Allow(members[e].breaker)
          /\ pick'[c].probe = AllowProbes(members[e].breaker)
      BY <1>1, <1>4 DEF PickEffect
    <2>2. CallTo(e, c)' = IF AllowProbes(members[e].breaker) THEN "probe" ELSE "call"
      BY <1>4, <2>1 DEF CallTo
    <2> QED
      BY <1>a, <1>3, <2>1, <2>2, AdmitIsBreakerStep
  <1>5. CASE ~(Got(c)' /\ pick'[c].chosen = e)
    <2>1. members'[e].breaker \in {members[e].breaker, maybeHalfOpen(members[e].breaker)}
      BY <1>1, <1>5 DEF PickEffect
    <2>2. \A d \in Callers : CallTo(e, d)' = CallTo(e, d)
      BY <1>3, <1>5 DEF CallTo
    <2> QED
      BY <1>a, <2>1, <2>2, LookIsBreakerStep
  <1> QED
    BY <1>4, <1>5

\* A result is reported to the breaker of the endpoint that was called, and to
\* no other.
LEMMA ResultIsBreakerStep ==
    ASSUME PoolInv, NEW c \in Callers, NEW o \in Outcomes, Got(c), ~Got(c)',
           members' = Reported(members, pick[c].chosen, o),
           \A d \in Callers \ {c} : pick'[d] = pick[d], NEW e \in DOMAIN members
    PROVE  BreakerStep(e)
  <1>a. MembersOK(members) /\ members[e].breaker \in SoundBreaker
    BY DEF PoolInv, MembersOK
  <1>1. CallTo(e, c)' = "idle" /\ \A d \in Callers \ {c} : CallTo(e, d)' = CallTo(e, d)
    BY DEF CallTo, Got
  <1>2. CASE pick[c].chosen = e
    <2>1. CallTo(e, c) # "idle"
      BY <1>2 DEF CallTo
    <2> QED
      BY <1>a, <1>1, <1>2, <2>1, ReportIsBreakerStep
  <1>3. CASE pick[c].chosen # e
    <2>1. members'[e] = members[e]
      BY <1>a, <1>3, ReportedKeeps
    <2>2. \A d \in Callers : CallTo(e, d)' = CallTo(e, d)
      BY <1>1, <1>3 DEF CallTo
    <2> QED
      BY <1>a, <2>1, <2>2, LookIsBreakerStep
  <1> QED
    BY <1>2, <1>3

\* Every step of a request is one of each endpoint's breaker, or none.
LEMMA RequestIsBreakerStep ==
    ASSUME PoolInv, NEW c \in Callers, RequestStep(c), NEW e \in DOMAIN members
    PROVE  BreakerStep(e)
  <1>1. ASSUME NEW m \in Models, Arrive(c, m) PROVE BreakerStep(e)
    <2>1. /\ UNCHANGED members
          /\ \A d \in Callers : (Got(d)' <=> Got(d)) /\ (Got(d) => pick'[d] = pick[d])
      BY <1>1 DEF Arrive, Got, NoPick, PoolInv
    <2> QED
      BY <2>1, AsideIsBreakerStep
  <1>2. CASE NoEndpoint(c)
    <2>1. /\ UNCHANGED members
          /\ \A d \in Callers : (Got(d)' <=> Got(d)) /\ (Got(d) => pick'[d] = pick[d])
      BY <1>2 DEF NoEndpoint, Got, NoPick, PoolInv
    <2> QED
      BY <2>1, AsideIsBreakerStep
  <1>3. ASSUME NEW o \in Outcomes, NEW again \in BOOLEAN, Finish(c, o, again)
        PROVE  BreakerStep(e)
    <2>1. Got(c) /\ members' = Reported(members, pick[c].chosen, o)
      BY <1>3 DEF Finish, Got
    <2>2. ~Got(c)' /\ \A d \in Callers \ {c} : pick'[d] = pick[d]
      BY <1>3 DEF Finish, Got, NoPick, PoolInv, PickRecord
    <2> QED
      BY <2>1, <2>2, ResultIsBreakerStep
  <1> QED
    BY <1>1, <1>2, <1>3, PickIsBreakerStep DEF RequestStep, Return

\* Every step of the pool is one of each endpoint's breaker, or none.
LEMMA PoolStepIsBreakerStep ==
    ASSUME PoolInv, [PoolNext]_poolVars, NEW e \in DOMAIN members
    PROVE  BreakerStep(e)
  <1>1. CASE UNCHANGED poolVars
    <2>1. UNCHANGED members /\ UNCHANGED pick
      BY <1>1 DEF poolVars
    <2>2. \A d \in Callers : (Got(d)' <=> Got(d)) /\ (Got(d) => pick'[d] = pick[d])
      BY <2>1 DEF Got
    <2> QED
      BY <2>1, <2>2, AsideIsBreakerStep
  <1> QED
    BY <1>1, RequestIsBreakerStep, TickIsBreakerStep DEF PoolNext

\* pool.go:80-158: the pool uses every endpoint's breaker as BreakerCalls lets
\* its callers, so that what is proved of BreakerCalls holds of the breaker of
\* every endpoint.
THEOREM PoolRefinesBreakers == PoolSpec => PoolImplementsBreakers
  <1> DEFINE Fixed == DOMAIN members = FirstMembers
  <1>1. PoolInit => Fixed
    BY DEF PoolInit, NewPool, FirstMembers
  <1>2. ASSUME PoolInit, NEW e \in FirstMembers PROVE BreakerOf(e)!Init
    <2>1. /\ members = Replaced(FirstTable, NoMembers) /\ e \in DOMAIN members
          /\ pick = [c \in Callers |-> NoPick]
      BY <1>2 DEF PoolInit, NewPool, FirstMembers
    <2>2. DOMAIN NoMembers = {} /\ NoMembers \in [DOMAIN NoMembers -> MemberRecord]
      BY DEF NoMembers
    <2>3. MembersOK(NoMembers)
      BY <2>2, FS_EmptySet DEF MembersOK
    <2>4. FirstTable \in Seq(RowRecord)
      BY PoolAssumption
    <2>5. members[e].breaker = NewBreaker
      BY <2>1, <2>2, <2>3, <2>4, ReplacedKeeps
    <2>6. members[e].breaker.failures = 0
      BY <2>5 DEF NewBreaker
    <2>7. \A c \in Callers : CallTo(e, c) = "idle"
      BY <2>1 DEF CallTo, Got, NoPick
    <2>8. members[e].breaker = BreakerOf(e)!NewBreaker
      BY <2>5, SameMethods
    <2> QED
      BY <2>6, <2>7, <2>8 DEF BreakerOf!Init
  <1>3. ASSUME PoolInv /\ ProbeSlotHeld, Fixed, [PoolNext]_poolVars
        PROVE  Fixed' /\ \A e \in FirstMembers : BreakerStep(e)
    <2>1. \A e \in FirstMembers : BreakerStep(e)
      BY <1>3, PoolStepIsBreakerStep
    <2>2. DOMAIN members' = DOMAIN members
      <3>1. ASSUME NEW c \in Callers, RequestStep(c) PROVE DOMAIN members' = DOMAIN members
        BY <1>3, <3>1, RequestStepKeeps DEF Keeps
      <3>2. CASE PoolTick
        BY <3>2 DEF PoolTick
      <3>3. CASE UNCHANGED poolVars
        BY <3>3 DEF poolVars
      <3> QED
        BY <1>3, <3>1, <3>2, <3>3 DEF PoolNext
    <2> QED
      BY <1>3, <2>1, <2>2 DEF FirstMembers
  <1>4. ASSUME PoolInv /\ ProbeSlotHeld, Fixed, [PoolNext]_poolVars
        PROVE  [\A e \in FirstMembers :
                    BreakerOf(e)!Next \/ UNCHANGED BreakerOf(e)!vars]_poolVars
    BY <1>3, <1>4 DEF BreakerStep
  <1>5. PoolInit => \A e \in FirstMembers : BreakerOf(e)!Init
    BY <1>2
  <1>6. ASSUME PoolInv /\ ProbeSlotHeld, Fixed, [PoolNext]_poolVars PROVE Fixed'
    BY <1>3, <1>6
  <1> HIDE DEF Fixed
  <1> QED
    BY <1>1, <1>4, <1>5, <1>6, PoolInvariance, PTL DEF PoolSpec, PoolImplementsBreakers

----------------------------------------------------------------------------
(***************************************************************************)
(* How smooth the smooth weighted round robin is when each round leaves    *)
(* out other members.  Of a pool of L members whose weights are at most c, *)
(* any "a" members together have a credit or a debt of at most             *)
(* Spread(c, L, a), because a round in which one of them wins is one in    *)
(* which it had more credit than the candidates outside of the set.        *)
(***************************************************************************)
Spread(c, L, a) == c * (a * (L - a))

\* Multiplication by a natural number is monotone.
LEMMA TimesMonotone ==
    ASSUME NEW t \in Nat, NEW u \in Int, NEW v \in Int, u <= v
    PROVE  t * u <= t * v
  OBVIOUS

\* A positive factor keeps the sign.
LEMMA TimesSign ==
    ASSUME NEW t \in Nat, NEW z \in Int, 0 <= (1 + t) * z
    PROVE  0 <= z
  <1> SUFFICES ASSUME z <= -1 PROVE FALSE
    OBVIOUS
  <1>1. t * z <= t * 0
    BY TimesMonotone
  <1>2. (1 + t) * z = z + t * z
    OBVIOUS
  <1>3. t * 0 = 0 /\ t * z \in Int
    OBVIOUS
  <1> QED
    BY <1>1, <1>2, <1>3

\* Spread at three sizes, the set with t more members and with one less.
LEMMA SpreadIdentity ==
    ASSUME NEW c \in Int, NEW L \in Int, NEW a \in Int, NEW t \in Int
    PROVE  Spread(c, L, a + t) + t * Spread(c, L, a - 1)
             = (1 + t) * Spread(c, L, a) - c * (t * (t + 1))
  BY DEF Spread

\* The same with t members less and with one more.
LEMMA SpreadIdentityDown ==
    ASSUME NEW c \in Int, NEW L \in Int, NEW a \in Int, NEW t \in Int
    PROVE  Spread(c, L, a - t) + t * Spread(c, L, a + 1)
             = (1 + t) * Spread(c, L, a) - c * (t * (t + 1))
  BY DEF Spread

\* A round that a member of the set wins: the set pays the weight wT of the t
\* candidates outside of it, whose credit XT the winner's exceeded.
LEMMA LowerArith ==
    ASSUME NEW t \in Nat, NEW c \in Int, NEW p \in Int, NEW q \in Int, NEW r \in Int,
           NEW X \in Int, NEW XT \in Int, NEW xk \in Int, NEW wk \in Int,
           NEW wT \in Int,
           r + t * q = (1 + t) * p - c * (t * (t + 1)),
           wk <= c, wT <= t * c, XT + wT <= t * (xk + wk),
           -r <= X + XT, xk <= X + q
    PROVE  -p <= X - wT
  <1>1. t * (xk + wk) <= t * (X + q + c)
    BY TimesMonotone
  <1>2. t * wT <= t * (t * c)
    BY TimesMonotone
  <1>3. t * (X + q + c) = t * X + t * q + t * c
    OBVIOUS
  <1>4. (1 + t) * (X - wT + p) = X - wT + p + t * X - t * wT + t * p
    OBVIOUS
  <1>5. (1 + t) * p = p + t * p
    OBVIOUS
  <1>6. c * (t * (t + 1)) = t * (t * c) + t * c
    OBVIOUS
  <1>7. PICK tX \in Int, tq \in Int, tc \in Int, tw \in Int, tp \in Int, ttc \in Int :
           tX = t * X /\ tq = t * q /\ tc = t * c /\ tw = t * wT /\ tp = t * p /\ ttc = t * (t * c)
    OBVIOUS
  <1>8. XT + wT <= tX + tq + tc
    BY <1>1, <1>3, <1>7
  <1>9. r + tq = p + tp - (ttc + tc)
    BY <1>5, <1>6, <1>7
  <1>10. tw <= ttc
    BY <1>2, <1>7
  <1>11. 0 <= X - wT + p + tX - tw + tp
    BY <1>8, <1>9, <1>10
  <1>12. 0 <= (1 + t) * (X - wT + p)
    BY <1>4, <1>7, <1>11
  <1>13. 0 <= X - wT + p
    BY <1>12, TimesSign
  <1> QED
    BY <1>13

\* A round that no member of the set wins: the set gains the weight wU of its t
\* candidates, whose credit XU the winner's exceeded.
LEMMA UpperArith ==
    ASSUME NEW t \in Nat, NEW c \in Int, NEW p \in Int, NEW q \in Int, NEW r \in Int,
           NEW X \in Int, NEW XU \in Int, NEW XR \in Int, NEW xk \in Int, NEW wk \in Int,
           NEW wU \in Int,
           r + t * q = (1 + t) * p - c * (t * (t + 1)),
           wk <= c, wU <= t * c, XU + wU <= t * (xk + wk),
           X = XU + XR, XR <= r, X + xk <= q
    PROVE  X + wU <= p
  <1>1. t * (xk + wk) <= t * (q - X + c)
    BY TimesMonotone
  <1>2. t * wU <= t * (t * c)
    BY TimesMonotone
  <1>3. t * (q - X + c) = t * q - t * X + t * c
    OBVIOUS
  <1>4. (1 + t) * (p - X - wU) = p - X - wU + t * p - t * X - t * wU
    OBVIOUS
  <1>5. (1 + t) * p = p + t * p
    OBVIOUS
  <1>6. c * (t * (t + 1)) = t * (t * c) + t * c
    OBVIOUS
  <1>7. PICK tX \in Int, tq \in Int, tc \in Int, tw \in Int, tp \in Int, ttc \in Int :
           tX = t * X /\ tq = t * q /\ tc = t * c /\ tw = t * wU /\ tp = t * p /\ ttc = t * (t * c)
    OBVIOUS
  <1>8. XU + wU <= tq - tX + tc
    BY <1>1, <1>3, <1>7
  <1>9. r + tq = p + tp - (ttc + tc)
    BY <1>5, <1>6, <1>7
  <1>10. tw <= ttc
    BY <1>2, <1>7
  <1>11. 0 <= p - X - wU + tp - tX - tw
    BY <1>8, <1>9, <1>10
  <1>12. 0 <= (1 + t) * (p - X - wU)
    BY <1>4, <1>7, <1>11
  <1>13. 0 <= p - X - wU
    BY <1>12, TimesSign
  <1> QED
    BY <1>13

\* The credit x of the members in D is spread.
Level(x, D, c, L) ==
    \A S \in SUBSET D :
        LET most == Spread(c, L, Cardinality(S))
        IN  -most <= SumFunctionOnSet(x, S) /\ SumFunctionOnSet(x, S) <= most

\* Candidates that the winner's v exceeds have together at most so much.
LEMMA WinnerSum ==
    ASSUME NEW T, IsFiniteSet(T), NEW x, NEW w, NEW v \in Int,
           \A e \in T : x[e] \in Int /\ w[e] \in Int /\ x[e] + w[e] <= v
    PROVE  SumFunctionOnSet(x, T) + SumFunctionOnSet(w, T) <= Cardinality(T) * v
  <1> DEFINE z == [e \in T |-> x[e] + w[e]]
  <1>1. \A e \in T : x[e] \in Int /\ w[e] \in Int /\ z[e] = x[e] + w[e] /\ z[e] \in Int /\ z[e] <= v
    OBVIOUS
  <1> HIDE DEF z
  <1>2. SumFunctionOnSet(z, T) <= Cardinality(T) * v
    BY <1>1, SumAtMost
  <1>3. SumFunctionOnSet(z, T) = SumFunctionOnSet(x, T) + SumFunctionOnSet(w, T)
    BY <1>1, SumAdds
  <1> QED
    BY <1>2, <1>3

\* One round among the candidates C, which k wins, keeps the credit spread.
LEMMA RoundKeepsLevel ==
    ASSUME NEW D, IsFiniteSet(D), NEW C \in SUBSET D, NEW k \in C,
           NEW x, NEW w, NEW y, NEW c \in Nat, NEW L \in Int,
           \A e \in D : x[e] \in Int /\ w[e] \in 0..c,
           \A e \in C : x[e] + w[e] <= x[k] + w[k],
           \A e \in D \ C : y[e] = x[e],
           \A e \in C \ {k} : y[e] = x[e] + w[e],
           y[k] = x[k] + w[k] - SumFunctionOnSet(w, C),
           Level(x, D, c, L)
    PROVE  Level(y, D, c, L)
  <1> SUFFICES ASSUME NEW S \in SUBSET D
               PROVE  /\ -Spread(c, L, Cardinality(S)) <= SumFunctionOnSet(y, S)
                      /\ SumFunctionOnSet(y, S) <= Spread(c, L, Cardinality(S))
    BY DEF Level
  <1> DEFINE X(s) == SumFunctionOnSet(x, s)
             W(s) == SumFunctionOnSet(w, s)
             F(n) == Spread(c, L, n)
             U == S \cap C
             T == C \ S
             z == [e \in D |-> IF e \in C THEN x[e] + w[e] ELSE x[e]]
  <1>1. \A s \in SUBSET D : /\ IsFiniteSet(s) /\ Cardinality(s) \in Nat
                            /\ X(s) \in Int /\ W(s) \in Nat /\ W(s) <= Cardinality(s) * c
    <2> SUFFICES ASSUME NEW s \in SUBSET D
                 PROVE  /\ IsFiniteSet(s) /\ Cardinality(s) \in Nat
                        /\ X(s) \in Int /\ W(s) \in Nat /\ W(s) <= Cardinality(s) * c
      OBVIOUS
    <2>1. IsFiniteSet(s) /\ Cardinality(s) \in Nat
      BY FS_Subset, FS_CardinalityType
    <2>2. \A e \in s : x[e] \in Int /\ w[e] \in Nat /\ w[e] \in Int /\ w[e] <= c
      OBVIOUS
    <2>3. X(s) \in Int
      BY <2>1, <2>2, SumType
    <2>4. W(s) \in Nat
      BY <2>1, <2>2, SumNatural
    <2>5. W(s) <= Cardinality(s) * c
      <3>1. c \in Int /\ \A e \in s : w[e] \in Int /\ w[e] <= c
        BY <2>2
      <3> QED
        BY <2>1, <3>1, SumAtMost
    <2> QED
      BY <2>1, <2>3, <2>4, <2>5
  <1>2. \A s \in SUBSET D : -F(Cardinality(s)) <= X(s) /\ X(s) <= F(Cardinality(s))
    BY DEF Level
  <1>3. \A n \in Int : F(n) \in Int
    BY DEF Spread
  <1>4. U \in SUBSET D /\ T \in SUBSET D /\ C \in SUBSET D /\ k \in D
    OBVIOUS
  <1>5. /\ x[k] \in Int /\ w[k] \in Int /\ w[k] <= c
        /\ \A e \in D : x[e] \in Int /\ w[e] \in Int /\ z[e] \in Int
        /\ \A e \in D : z[e] = IF e \in C THEN x[e] + w[e] ELSE x[e]
        /\ \A e \in D : e # k => y[e] = z[e]
        /\ y[k] = z[k] - W(C)
    <2>1. \A e \in D : z[e] = IF e \in C THEN x[e] + w[e] ELSE x[e]
      OBVIOUS
    <2>2. \A e \in D : x[e] \in Int /\ w[e] \in Int
      OBVIOUS
    <2> HIDE DEF z, W
    <2>3. \A e \in D : z[e] \in Int
      BY <2>1, <2>2
    <2>4. \A e \in D : e # k => y[e] = z[e]
      BY <2>1
    <2>5. z[k] = x[k] + w[k]
      BY <1>4, <2>1
    <2>6. y[k] = z[k] - W(C)
      <3>1. y[k] = x[k] + w[k] - W(C)
        BY DEF W
      <3>2. x[k] \in Int /\ w[k] \in Int /\ W(C) \in Int
        BY <1>1, <1>4, <2>2
      <3> QED
        BY <2>5, <3>1, <3>2
    <2> QED
      BY <1>4, <2>1, <2>2, <2>3, <2>4, <2>6
  <1> HIDE DEF z
  <1>6. SumFunctionOnSet(z, S) = X(S) + W(U)
    <2> DEFINE R == S \ C
    <2>1. IsFiniteSet(U) /\ IsFiniteSet(R) /\ U \cap R = {} /\ S = U \cup R
      BY <1>1
    <2>2. \A e \in U : x[e] \in Int /\ w[e] \in Int /\ z[e] \in Int /\ z[e] = x[e] + w[e]
      BY <1>5
    <2>3. \A e \in R : x[e] \in Int /\ z[e] = x[e]
      BY <1>5
    <2>4. W(U) \in Int /\ X(U) \in Int /\ X(R) \in Int
      BY <1>1, <1>4
    <2> HIDE DEF U, R
    <2>5. SumFunctionOnSet(z, U) = X(U) + W(U)
      BY <2>1, <2>2, SumAdds
    <2>6. SumFunctionOnSet(z, R) = X(R)
      BY <2>1, <2>3, SumOfSame
    <2>7. SumFunctionOnSet(z, U \cup R) = SumFunctionOnSet(z, U) + SumFunctionOnSet(z, R)
      BY <2>1, <2>2, <2>3, SumDisjoint
    <2>8. X(U \cup R) = X(U) + X(R)
      BY <2>1, <2>2, <2>3, SumDisjoint
    <2> HIDE DEF X, W
    <2>9. SumFunctionOnSet(z, U \cup R) = X(U \cup R) + W(U)
      BY <2>4, <2>5, <2>6, <2>7, <2>8
    <2> QED
      BY <2>1, <2>9
  <1>7. W(C) \in Int /\ y[k] \in Int /\ \A e \in D : e # k => y[e] = z[e]
    BY <1>1, <1>4, <1>5
  <1>8. CASE k \in S
    <2>1. SumFunctionOnSet(y, S) = X(S) - W(T)
      <3>1. \A e \in S : z[e] \in Int /\ y[e] \in Int
        BY <1>5, <1>7
      <3>2. SumFunctionOnSet(y, S) = SumFunctionOnSet(z, S) + y[k] - z[k]
        <4>1. IsFiniteSet(S) /\ \A e \in S : e # k => y[e] = z[e]
          BY <1>1, <1>7
        <4> QED
          BY <1>8, <3>1, <4>1, SumChanges
      <3>3. y[k] = z[k] - W(C) /\ z[k] \in Int
        BY <1>4, <1>5
      <3>4. W(C) = W(U) + W(T)
        <4>1. C = U \cup T /\ U \cap T = {} /\ IsFiniteSet(U) /\ IsFiniteSet(T)
          BY <1>1, <1>4
        <4>2. \A e \in U \cup T : w[e] \in Int
          BY <1>5, <4>1
        <4> HIDE DEF U, T
        <4>3. W(U \cup T) = W(U) + W(T)
          BY <4>1, <4>2, SumDisjoint
        <4> QED
          BY <4>1, <4>3
      <3>5. X(S) \in Int /\ W(U) \in Int /\ W(T) \in Int
        BY <1>1, <1>4
      <3> HIDE DEF U, T, X, W
      <3> QED
        BY <1>6, <3>2, <3>3, <3>4, <3>5
    <2>2. SumFunctionOnSet(y, S) <= F(Cardinality(S))
      <3>1. X(S) \in Int /\ W(T) \in Nat /\ X(S) <= F(Cardinality(S)) /\ F(Cardinality(S)) \in Int
        BY <1>1, <1>2, <1>3, <1>4
      <3> HIDE DEF X, W, F, T
      <3> QED
        BY <2>1, <3>1
    <2>3. -F(Cardinality(S)) <= X(S) - W(T)
      <3> DEFINE R == S \ {k}
                 n == Cardinality(S)
                 t == Cardinality(T)
      <3>1. R \in SUBSET D /\ S \cup T \in SUBSET D /\ n \in Nat /\ t \in Nat
        BY <1>1, <1>4
      <3>2. Cardinality(R) = n - 1
        BY <1>1, <1>8, FS_RemoveElement
      <3>3. Cardinality(S \cup T) = n + t
        <4>1. S \cap T = {} /\ IsFiniteSet(S) /\ IsFiniteSet(T)
          BY <1>1, <1>4
        <4>2. Cardinality(S \cap T) = 0
          BY <4>1, FS_EmptySet
        <4>3. Cardinality(S \cup T) = Cardinality(S) + Cardinality(T) - Cardinality(S \cap T)
          BY <4>1, FS_Union
        <4> QED
          BY <3>1, <4>2, <4>3
      <3>4. X(S \cup T) = X(S) + X(T)
        <4>1. S \cap T = {} /\ IsFiniteSet(S) /\ IsFiniteSet(T) /\ \A e \in S \cup T : x[e] \in Int
          BY <1>1, <1>4, <1>5
        <4> QED
          BY <4>1, SumDisjoint
      <3>5. X(S) = x[k] + X(R)
        BY <1>1, <1>5, <1>8, SumRemoves
      <3>6. X(T) + W(T) <= t * (x[k] + w[k])
        <4>1. /\ IsFiniteSet(T) /\ x[k] + w[k] \in Int
              /\ \A e \in T : x[e] \in Int /\ w[e] \in Int /\ x[e] + w[e] <= x[k] + w[k]
          BY <1>1, <1>4, <1>5
        <4> QED
          BY <4>1, WinnerSum
      <3>7. W(T) <= t * c
        BY <1>1, <1>4
      <3>8. F(n + t) + t * F(n - 1) = (1 + t) * F(n) - c * (t * (t + 1))
        BY <3>1, SpreadIdentity
      <3>9. -F(n + t) <= X(S) + X(T)
        BY <1>2, <3>1, <3>3, <3>4
      <3>10. -F(n - 1) <= X(R)
        BY <1>2, <3>1, <3>2
      <3>11. /\ X(S) \in Int /\ X(T) \in Int /\ X(R) \in Int /\ W(T) \in Int
             /\ c \in Int /\ F(n) \in Int /\ F(n - 1) \in Int /\ F(n + t) \in Int
        BY <1>1, <1>3, <1>4, <3>1
      <3> HIDE DEF X, W, F, T, R, n, t
      <3>12. x[k] <= X(S) + F(n - 1)
        BY <1>5, <3>5, <3>10, <3>11
      <3>13. -F(n) <= X(S) - W(T)
        BY <1>5, <3>1, <3>6, <3>7, <3>8, <3>9, <3>11, <3>12, LowerArith
      <3> QED
        BY <3>13 DEF n
    <2> QED
      BY <2>1, <2>2, <2>3
  <1>9. CASE k \notin S
    <2>1. SumFunctionOnSet(y, S) = X(S) + W(U)
      <3>1. \A e \in S : z[e] \in Int /\ y[e] = z[e]
        BY <1>5, <1>7, <1>9
      <3>2. SumFunctionOnSet(y, S) = SumFunctionOnSet(z, S)
        BY <1>1, <3>1, SumOfSame
      <3> QED
        BY <1>6, <3>2
    <2>2. -F(Cardinality(S)) <= SumFunctionOnSet(y, S)
      <3>1. X(S) \in Int /\ W(U) \in Nat /\ -F(Cardinality(S)) <= X(S) /\ F(Cardinality(S)) \in Int
        BY <1>1, <1>2, <1>3, <1>4
      <3> HIDE DEF X, W, F, U
      <3> QED
        BY <2>1, <3>1
    <2>3. X(S) + W(U) <= F(Cardinality(S))
      <3> DEFINE R == S \ U
                 n == Cardinality(S)
                 t == Cardinality(U)
      <3>1. R \in SUBSET D /\ S \cup {k} \in SUBSET D /\ n \in Nat /\ t \in Nat
        BY <1>1, <1>4
      <3>2. S = R \cup U /\ R \cap U = {} /\ IsFiniteSet(R) /\ IsFiniteSet(U)
        BY <1>1, <1>4, <3>1
      <3>3. Cardinality(R) = n - t
        <4>1. Cardinality(R \cap U) = 0
          BY <3>2, FS_EmptySet
        <4>2. Cardinality(R \cup U) = Cardinality(R) + Cardinality(U) - Cardinality(R \cap U)
          BY <3>2, FS_Union
        <4>3. Cardinality(R \cup U) = n
          BY <3>2
        <4>4. Cardinality(R) \in Nat
          BY <1>1, <3>1
        <4> QED
          BY <3>1, <4>1, <4>2, <4>3, <4>4
      <3>4. Cardinality(S \cup {k}) = n + 1
        BY <1>1, <1>9, FS_AddElement
      <3>5. X(S) = X(U) + X(R)
        <4>1. \A e \in R \cup U : x[e] \in Int
          BY <1>5
        <4>2. X(R \cup U) = X(R) + X(U)
          BY <3>2, <4>1, SumDisjoint
        <4>3. X(R \cup U) = X(S)
          BY <3>2
        <4>4. X(R) \in Int /\ X(U) \in Int
          BY <1>1, <1>4, <3>1
        <4> HIDE DEF X
        <4> QED
          BY <4>2, <4>3, <4>4
      <3>6. X(S \cup {k}) = x[k] + X(S)
        BY <1>1, <1>5, <1>9, SumGrows
      <3>7. X(U) + W(U) <= t * (x[k] + w[k])
        <4>1. /\ IsFiniteSet(U) /\ x[k] + w[k] \in Int
              /\ \A e \in U : x[e] \in Int /\ w[e] \in Int /\ x[e] + w[e] <= x[k] + w[k]
          BY <1>1, <1>4, <1>5
        <4> QED
          BY <4>1, WinnerSum
      <3>8. W(U) <= t * c
        BY <1>1, <1>4
      <3>9. F(n - t) + t * F(n + 1) = (1 + t) * F(n) - c * (t * (t + 1))
        BY <3>1, SpreadIdentityDown
      <3>10. X(R) <= F(n - t)
        BY <1>2, <3>1, <3>3
      <3>11. /\ X(S) \in Int /\ X(U) \in Int /\ X(R) \in Int /\ W(U) \in Int
             /\ c \in Int /\ F(n) \in Int /\ F(n - t) \in Int /\ F(n + 1) \in Int
        BY <1>1, <1>3, <1>4, <3>1
      <3>12. X(S) + x[k] <= F(n + 1)
        <4>1. X(S \cup {k}) <= F(n + 1)
          BY <1>2, <3>1, <3>4
        <4> HIDE DEF X, F
        <4> QED
          BY <1>5, <3>6, <3>11, <4>1
      <3> HIDE DEF X, W, F, U, R, n, t
      <3>13. X(S) + W(U) <= F(n)
        BY <1>5, <3>1, <3>5, <3>7, <3>8, <3>9, <3>10, <3>11, <3>12, UpperArith
      <3> QED
        BY <3>13 DEF n
    <2> QED
      BY <2>1, <2>2, <2>3
  <1> QED
    BY <1>8, <1>9

----------------------------------------------------------------------------
(* The round-robin state of the pool *)

Credit(ms) == [e \in DOMAIN ms |-> ms[e].current]

\* No weight is above c, and the credit is spread as one of L members allows.
Balanced(ms, c, L) ==
    /\ \A e \in DOMAIN ms : ms[e].weight <= c
    /\ Level(Credit(ms), DOMAIN ms, c, L)

\* new has the members of ms with their weights and their round-robin state.
SameCredit(ms, new) ==
    /\ DOMAIN new = DOMAIN ms
    /\ \A e \in DOMAIN ms : new[e].current = ms[e].current /\ new[e].weight = ms[e].weight

\* What does not touch the round-robin state keeps it balanced.
LEMMA SameCreditBalanced ==
    ASSUME NEW ms, NEW new, SameCredit(ms, new), NEW c, NEW L, Balanced(ms, c, L)
    PROVE  Balanced(new, c, L)
  <1>1. Credit(new) = Credit(ms)
    BY DEF SameCredit, Credit
  <1> QED
    BY <1>1 DEF Balanced, SameCredit

\* A choice of nextWRR keeps the credit balanced, whatever the candidates are.
LEMMA AfterWRRBalanced ==
    ASSUME NEW ms, MembersOK(ms), NEW cands \in SUBSET DOMAIN ms, cands # {},
           NEW c \in Nat, NEW L \in Int, Balanced(ms, c, L)
    PROVE  LET new == AfterWRR(ms, cands)
           IN  /\ Balanced(new, c, L) /\ DOMAIN new = DOMAIN ms
               /\ \A e \in DOMAIN ms : new[e].weight = ms[e].weight
  <1> DEFINE new == AfterWRR(ms, cands)
             D == DOMAIN ms
             k == NextWRR(ms, cands)
             x == Credit(ms)
             y == Credit(new)
             w == [e \in D |-> ms[e].weight]
             total == SumFunctionOnSet(w, cands)
  <1>1. IsFiniteSet(D) /\ \A e \in D : ms[e] \in MemberRecord
    BY DEF MembersOK
  <1>2. k \in cands /\ \A e \in cands : ms[e].current + ms[e].weight <= ms[k].current + ms[k].weight
    BY NextWRRChooses
  <1>3. TotalWeight(ms, cands) = total
    <2> DEFINE v == [e \in cands |-> ms[e].weight]
    <2>1. IsFiniteSet(cands)
      BY <1>1, FS_Subset
    <2>2. \A e \in cands : w[e] \in Int /\ v[e] = w[e]
      BY <1>1 DEF MemberRecord
    <2> HIDE DEF v, w
    <2>3. SumFunctionOnSet(v, cands) = SumFunctionOnSet(w, cands)
      BY <2>1, <2>2, SumOfSame
    <2> QED
      BY <2>3 DEF TotalWeight, v
  <1>4. total \in Int
    BY <1>3, TotalWeightType
  <1>5. /\ DOMAIN new = D
        /\ \A e \in D : new[e] = IF e \notin cands THEN ms[e]
                                 ELSE [ms[e] EXCEPT !.current =
                                         @ + ms[e].weight - (IF e = k THEN total ELSE 0)]
    BY <1>3 DEF AfterWRR
  <1>6. \A e \in D : ms[e].current \in Int /\ ms[e].weight \in Nat /\ ms[e].weight <= c
    BY <1>1 DEF MemberRecord, Balanced
  <1> HIDE DEF new, k, total
  <1>7. ASSUME NEW e \in D
        PROVE  /\ new[e].weight = ms[e].weight
               /\ new[e].current = (IF e \in cands THEN ms[e].current + ms[e].weight
                                    ELSE ms[e].current) - (IF e = k THEN total ELSE 0)
    <2>1. CASE e \notin cands
      <3>1. new[e] = ms[e] /\ e # k
        BY <1>2, <1>5, <2>1
      <3> QED
        BY <1>6, <2>1, <3>1
    <2>2. CASE e \in cands
      <3>1. PICK d \in Int : d = IF e = k THEN total ELSE 0
        BY <1>4
      <3>2. new[e] = [ms[e] EXCEPT !.current = @ + ms[e].weight - d]
        BY <1>5, <2>2, <3>1
      <3>3. new[e].weight = ms[e].weight /\ new[e].current = ms[e].current + ms[e].weight - d
        BY <1>1, <3>2 DEF MemberRecord
      <3> QED
        BY <1>4, <1>6, <2>2, <3>1, <3>3
    <2> QED
      BY <2>1, <2>2
  <1>8. /\ \A e \in D : x[e] \in Int /\ w[e] \in 0..c
        /\ \A e \in cands : x[e] + w[e] <= x[k] + w[k]
    BY <1>2, <1>6 DEF Credit
  <1>9. /\ \A e \in D \ cands : y[e] = x[e]
        /\ \A e \in cands \ {k} : y[e] = x[e] + w[e]
        /\ y[k] = x[k] + w[k] - SumFunctionOnSet(w, cands)
    <2>1. /\ \A e \in D : x[e] = ms[e].current /\ w[e] = ms[e].weight /\ y[e] = new[e].current
          /\ k \in D /\ SumFunctionOnSet(w, cands) = total
      BY <1>2, <1>5 DEF Credit, total
    <2> HIDE DEF x, y, w
    <2>2. \A e \in D \ cands : y[e] = x[e]
      BY <1>2, <1>6, <1>7, <2>1
    <2>3. \A e \in cands \ {k} : y[e] = x[e] + w[e]
      BY <1>2, <1>6, <1>7, <2>1
    <2>4. y[k] = x[k] + w[k] - total
      <3>1. k \in D /\ k \in cands
        BY <1>2, <2>1
      <3>2. new[k].current = ms[k].current + ms[k].weight - total
        BY <1>4, <1>6, <1>7, <3>1
      <3> QED
        BY <2>1, <3>1, <3>2
    <2> QED
      BY <2>1, <2>2, <2>3, <2>4
  <1>10. Level(x, D, c, L)
    BY DEF Balanced
  <1> HIDE DEF x, y, w, D
  <1>11. Level(y, D, c, L)
    <2>1. cands \in SUBSET D
      BY DEF D
    <2> QED
      BY <1>1, <1>2, <1>8, <1>9, <1>10, <2>1, RoundKeepsLevel
  <1>12. \A e \in D : new[e].weight <= c
    BY <1>6, <1>7
  <1>13. Balanced(new, c, L)
    BY <1>5, <1>11, <1>12 DEF Balanced, y
  <1> QED
    BY <1>5, <1>7, <1>13 DEF new, D

\* Asking the breakers of some members is nothing to the round robin.
LEMMA AskedCredit ==
    ASSUME NEW ms, MembersOK(ms), NEW S
    PROVE  SameCredit(ms, Asked(ms, S))
  <1>1. \A e \in DOMAIN ms : ms[e] \in MemberRecord
    BY DEF MembersOK
  <1>2. DOMAIN Asked(ms, S) = DOMAIN ms
    BY DEF Asked
  <1>3. ASSUME NEW e \in DOMAIN ms
        PROVE  /\ Asked(ms, S)[e].current = ms[e].current
               /\ Asked(ms, S)[e].weight = ms[e].weight
    BY <1>1 DEF Asked, MemberRecord
  <1> QED
    BY <1>2, <1>3 DEF SameCredit

\* The members new follow on ms in the same pool: the same members with the
\* same weights, balanced if those of ms were.
Follows(ms, new) ==
    /\ DOMAIN new = DOMAIN ms
    /\ \A e \in DOMAIN ms : new[e].weight = ms[e].weight
    /\ \A c \in Nat, L \in Int : Balanced(ms, c, L) => Balanced(new, c, L)

\* What does not touch the round-robin state follows.
LEMMA SameCreditFollows ==
    ASSUME NEW ms, NEW new, SameCredit(ms, new)
    PROVE  Follows(ms, new)
  BY SameCreditBalanced DEF Follows, SameCredit

\* A scan and a choice follow.
LEMMA ScanFollows ==
    ASSUME NEW ms, MembersOK(ms), NEW S, NEW T \in SUBSET DOMAIN ms, T # {}
    PROVE  Follows(ms, AfterWRR(Asked(ms, S), T))
  <1> DEFINE mid == Asked(ms, S)
             new == AfterWRR(mid, T)
  <1>1. MembersOK(mid) /\ SameCredit(ms, mid)
    BY AskedKeeps, AskedCredit
  <1> HIDE DEF mid
  <1>2. DOMAIN mid = DOMAIN ms /\ T \in SUBSET DOMAIN mid
    BY <1>1 DEF SameCredit
  <1>3. \A c \in Nat, L \in Int : Balanced(ms, c, L) =>
            /\ Balanced(mid, c, L) /\ Balanced(new, c, L)
    BY <1>1, <1>2, SameCreditBalanced, AfterWRRBalanced
  <1>4. DOMAIN new = DOMAIN mid /\ \A e \in DOMAIN mid : new[e].weight = mid[e].weight
    BY <1>1, <1>2, AfterWRRKeeps DEF Keeps
  <1> QED
    BY <1>1, <1>2, <1>3, <1>4 DEF Follows, SameCredit, mid, new

\* A result is nothing to the round robin.
LEMMA ReportedFollows ==
    ASSUME NEW ms, MembersOK(ms), NEW e, NEW o
    PROVE  Follows(ms, Reported(ms, e, o))
  <1> DEFINE new == Reported(ms, e, o)
  <1>1. CASE e \notin DOMAIN ms
    BY <1>1, SameCreditFollows DEF Reported, SameCredit
  <1>2. CASE e \in DOMAIN ms
    <2>1. PICK b : new = [ms EXCEPT ![e].breaker = b]
      BY <1>2 DEF Reported
    <2>2. \A f \in DOMAIN ms : ms[f] \in MemberRecord
      BY DEF MembersOK
    <2> HIDE DEF new
    <2>3. SameCredit(ms, new)
      BY <1>2, <2>1, <2>2 DEF SameCredit, MemberRecord
    <2> QED
      BY <2>3, SameCreditFollows DEF new
  <1> QED
    BY <1>1, <1>2

\* Every step of a request, and the clock, keeps the credit balanced.
LEMMA RequestFollows ==
    ASSUME PoolInv, NEW c \in Callers, RequestStep(c)
    PROVE  Follows(members, members')
  <1>a. MembersOK(members) /\ \A e \in DOMAIN members : members[e] \in MemberRecord
    BY DEF PoolInv, MembersOK
  <1>b. \A S : SameCredit(members, Asked(members, S))
    BY <1>a, AskedCredit
  <1>c. SameCredit(members, members)
    BY DEF SameCredit
  <1>d. ASSUME NEW e \in DOMAIN members, NEW b, members' = [members EXCEPT ![e].breaker = b]
        PROVE  SameCredit(members, members')
    <2>1. members[e] \in MemberRecord
      BY <1>a
    <2> QED
      BY <1>d, <2>1 DEF SameCredit, MemberRecord
  <1>1. ASSUME NEW m \in Models, Arrive(c, m) PROVE Follows(members, members')
    BY <1>1, <1>c, SameCreditFollows DEF Arrive
  <1>2. CASE NoEndpoint(c)
    BY <1>2, <1>c, SameCreditFollows DEF NoEndpoint
  <1>3. ASSUME NEW o \in Outcomes, NEW again \in BOOLEAN, Finish(c, o, again)
        PROVE  Follows(members, members')
    BY <1>3, <1>a, ReportedFollows DEF Finish
  <1>4. CASE PickScan(c)
    <2> DEFINE asked == Servable(members, pick[c].model, pick[c].exclude)
               cands == EligibleIn(members, asked)
    <2>1. cands \in SUBSET DOMAIN members
      BY DEF EligibleIn, Servable
    <2>2. \/ members' = Asked(members, asked)
          \/ cands # {} /\ members' = AfterWRR(Asked(members, asked), cands)
      BY <1>4 DEF PickScan
    <2> HIDE DEF asked, cands
    <2> QED
      BY <1>a, <1>b, <2>1, <2>2, SameCreditFollows, ScanFollows
  <1>5. ASSUME Picking(c) PROVE pick[c].chosen \in pick[c].cands /\ pick[c].cands \subseteq DOMAIN members
    BY <1>5 DEF PoolInv, ScanHolds
  <1>6. CASE PickGranted(c)
    <2>1. pick[c].chosen \in DOMAIN members
      BY <1>5, <1>6 DEF PickGranted, Picking
    <2>2. \E b : members' = [members EXCEPT ![pick[c].chosen].breaker = b]
      BY <1>6, <2>1 DEF PickGranted
    <2> QED
      BY <1>d, <2>1, <2>2, SameCreditFollows
  <1>7. CASE PickRefused(c)
    <2> DEFINE asked == pick[c].cands
               rest == EligibleIn(members, asked \ {pick[c].chosen})
    <2>1. rest \in SUBSET DOMAIN members
      BY <1>5, <1>7 DEF PickRefused, Picking, EligibleIn
    <2>2. \/ members' = Asked(members, asked)
          \/ rest # {} /\ members' = AfterWRR(Asked(members, asked), rest)
      BY <1>7 DEF PickRefused
    <2> HIDE DEF asked, rest
    <2> QED
      BY <1>a, <1>b, <2>1, <2>2, SameCreditFollows, ScanFollows
  <1>8. CASE PickGivesUp(c)
    BY <1>8, <1>b, SameCreditFollows DEF PickGivesUp
  <1> QED
    BY <1>1, <1>2, <1>3, <1>4, <1>6, <1>7, <1>8 DEF RequestStep, PickStep, Return

\* The clock is nothing to the round robin.
LEMMA PoolTickFollows ==
    ASSUME PoolInv, PoolTick
    PROVE  Follows(members, members')
  <1>1. \A e \in DOMAIN members : members[e] \in MemberRecord
    BY DEF PoolInv, MembersOK
  <1>2. /\ DOMAIN members' = DOMAIN members
        /\ \A e \in DOMAIN members : members'[e] = [members[e] EXCEPT !.breaker = Age(@)]
    BY DEF PoolTick
  <1>3. SameCredit(members, members')
    BY <1>1, <1>2 DEF SameCredit, MemberRecord
  <1> QED
    BY <1>3, SameCreditFollows

\* The members of a fresh pool have no credit.
LEMMA FirstBalanced ==
    ASSUME PoolInit
    PROVE  /\ \A e \in DOMAIN members : members[e].current = 0
           /\ \A c \in Nat, L \in Nat :
                 /\ \A e \in DOMAIN members : members[e].weight <= c
                 /\ Cardinality(DOMAIN members) <= L
                 => Balanced(members, c, L)
  <1>1. MembersOK(members)
    BY PoolInitSound DEF PoolInv
  <1>2. ASSUME NEW e \in DOMAIN members PROVE members[e].current = 0
    <2>1. members = Replaced(FirstTable, NoMembers) /\ DOMAIN NoMembers = {}
      BY DEF PoolInit, NewPool, NoMembers
    <2>2. PICK i : members[e] = MemberOf(FirstTable, i, NoMembers)
      BY <2>1, <1>2 DEF Replaced
    <2> QED
      BY <2>1, <2>2 DEF MemberOf
  <1>3. ASSUME NEW c \in Nat, NEW L \in Nat, Cardinality(DOMAIN members) <= L
        PROVE  Level(Credit(members), DOMAIN members, c, L)
    <2> DEFINE x == Credit(members)
               D == DOMAIN members
    <2>1. IsFiniteSet(D) /\ \A e \in D : x[e] = 0
      BY <1>1, <1>2 DEF MembersOK, Credit
    <2> HIDE DEF x
    <2>2. ASSUME NEW S \in SUBSET D
          PROVE  SumFunctionOnSet(x, S) = 0 /\ 0 <= Spread(c, L, Cardinality(S))
                 /\ Spread(c, L, Cardinality(S)) \in Int
      <3>1. IsFiniteSet(S) /\ Cardinality(S) \in Nat /\ Cardinality(S) <= Cardinality(D)
            /\ Cardinality(D) \in Nat
        BY <2>1, FS_Subset, FS_CardinalityType
      <3>2. SumFunctionOnSet(x, S) = 0
        BY <2>1, <3>1, SumOfZeros
      <3>3. PICK n \in Nat : n = Cardinality(S)
        BY <3>1
      <3>4. L - n \in Nat
        BY <1>3, <3>1, <3>3
      <3>5. n * (L - n) \in Nat
        BY <3>4
      <3>6. Spread(c, L, n) \in Nat
        BY <3>5 DEF Spread
      <3> QED
        BY <3>2, <3>3, <3>6
    <2>3. Level(x, D, c, L)
      BY <2>2 DEF Level
    <2> QED
      BY <2>3 DEF x
  <1> QED
    BY <1>2, <1>3 DEF Balanced

\* The heaviest weight is one of the pool's, and none is heavier.
LEMMA HeaviestFacts ==
    ASSUME NEW ms, MembersOK(ms), DOMAIN ms # {}
    PROVE  /\ Heaviest(ms) \in Nat
           /\ \A e \in DOMAIN ms : ms[e].weight <= Heaviest(ms)
  <1> DEFINE W == {ms[e].weight : e \in DOMAIN ms}
             value == [e \in DOMAIN ms |-> ms[e].weight]
             pos == [e \in DOMAIN ms |-> ms[e].pos]
  <1>a. \A e \in DOMAIN ms : value[e] \in Int /\ pos[e] \in Nat
    BY DEF MembersOK, MemberRecord
  <1>b. \A e, f \in DOMAIN ms : pos[e] = pos[f] => e = f
    BY DEF MembersOK
  <1>c. IsFiniteSet(DOMAIN ms)
    BY DEF MembersOK
  <1>1. \A e \in DOMAIN ms : value[e] = ms[e].weight /\ ms[e].weight \in Nat
    BY DEF MembersOK, MemberRecord
  <1> HIDE DEF value, pos
  <1>2. PICK e \in DOMAIN ms : \A f \in DOMAIN ms \ {e} :
            value[e] > value[f] \/ (value[e] = value[f] /\ pos[e] < pos[f])
    BY <1>a, <1>b, <1>c, HighestExists
  <1>3. \A f \in DOMAIN ms : ms[e].weight >= ms[f].weight
    BY <1>1, <1>2
  <1>4. \E n \in W : \A m \in W : n >= m
    BY <1>3
  <1>5. Heaviest(ms) \in W /\ \A m \in W : Heaviest(ms) >= m
    <2>1. Heaviest(ms) = CHOOSE n \in W : \A m \in W : n >= m
      BY DEF Heaviest, Max
    <2> HIDE DEF W
    <2> QED
      BY <1>4, <2>1
  <1> QED
    BY <1>1, <1>5

\* What balance says of one member.
LEMMA BalancedBounds ==
    ASSUME NEW ms, MembersOK(ms), NEW c \in Nat, NEW L \in Int, Balanced(ms, c, L),
           NEW e \in DOMAIN ms
    PROVE  ms[e].current \in -((L - 1) * c)..((L - 1) * c)
  <1> DEFINE x == Credit(ms)
  <1>1. x[e] = ms[e].current /\ ms[e].current \in Int
    BY DEF Credit, MembersOK, MemberRecord
  <1> HIDE DEF x
  <1>2. IsFiniteSet({e}) /\ Cardinality({e}) = 1 /\ {e} \in SUBSET DOMAIN ms
    BY FS_Singleton
  <1>3. SumFunctionOnSet(x, {e}) = x[e]
    <2>1. {e} = {} \cup {e} /\ IsFiniteSet({})
      BY FS_EmptySet
    <2>2. SumFunctionOnSet(x, {} \cup {e}) = x[e] + SumFunctionOnSet(x, {})
      BY <1>1, <2>1, SumGrows
    <2>3. SumFunctionOnSet(x, {}) = 0
      BY <2>1, SumOfZeros
    <2> QED
      BY <1>1, <2>1, <2>2, <2>3
  <1>4. -Spread(c, L, 1) <= x[e] /\ x[e] <= Spread(c, L, 1)
    BY <1>2, <1>3 DEF Balanced, Level, x
  <1>5. Spread(c, L, 1) = (L - 1) * c /\ (L - 1) * c \in Int
    BY DEF Spread
  <1> QED
    BY <1>1, <1>4, <1>5

(***************************************************************************)
(* wrr.go:3-17: credit is bounded by one turn of the heaviest member for   *)
(* each of the others.  That is not inductive: the invariant bounds the    *)
(* credit of every set of members (Level), by a product that is largest    *)
(* for a half of them and 0 for all of them.                               *)
(***************************************************************************)
CreditInv ==
    DOMAIN members # {} =>
        Balanced(members, Heaviest(members), Cardinality(DOMAIN members))

\* Credit is spread over the members of a pool that is not refreshed.
THEOREM CreditInvariance == PoolSpec => []CreditInv
  <1>1. ASSUME PoolInit PROVE CreditInv
    <2> SUFFICES ASSUME DOMAIN members # {}
                 PROVE  Balanced(members, Heaviest(members), Cardinality(DOMAIN members))
      BY DEF CreditInv
    <2>1. MembersOK(members)
      BY <1>1, PoolInitSound DEF PoolInv
    <2>2. Heaviest(members) \in Nat /\ \A e \in DOMAIN members : members[e].weight <= Heaviest(members)
      BY <2>1, HeaviestFacts
    <2>3. Cardinality(DOMAIN members) \in Nat
      BY <2>1, FS_CardinalityType DEF MembersOK
    <2>4. Cardinality(DOMAIN members) <= Cardinality(DOMAIN members)
      BY <2>3
    <2> QED
      BY <1>1, <2>2, <2>3, <2>4, FirstBalanced
  <1>2. ASSUME PoolInv, CreditInv, [PoolNext]_poolVars PROVE CreditInv'
    <2>1. Follows(members, members')
      <3>1. CASE UNCHANGED poolVars
        BY <3>1, SameCreditFollows DEF poolVars, SameCredit
      <3> QED
        BY <1>2, <3>1, RequestFollows, PoolTickFollows DEF PoolNext
    <2> SUFFICES ASSUME DOMAIN members' # {}
                 PROVE  Balanced(members', Heaviest(members'), Cardinality(DOMAIN members'))
      BY DEF CreditInv
    <2>2. /\ DOMAIN members' = DOMAIN members /\ DOMAIN members # {} /\ MembersOK(members)
          /\ \A e \in DOMAIN members : members'[e].weight = members[e].weight
      BY <1>2, <2>1 DEF Follows, PoolInv
    <2>3. PICK c \in Nat : c = Heaviest(members)
      BY <2>2, HeaviestFacts
    <2>4. Heaviest(members') = c
      <3>1. {members'[e].weight : e \in DOMAIN members'} = {members[e].weight : e \in DOMAIN members}
        BY <2>2
      <3> QED
        BY <2>3, <3>1 DEF Heaviest
    <2>5. PICK L \in Int : L = Cardinality(DOMAIN members)
      BY <2>2, FS_CardinalityType DEF MembersOK
    <2>6. Balanced(members', c, L)
      BY <1>2, <2>1, <2>2, <2>3, <2>5 DEF CreditInv, Follows
    <2> QED
      BY <2>2, <2>4, <2>5, <2>6
  <1> QED
    BY <1>1, <1>2, PoolInvariance, PTL DEF PoolSpec

\* wrr.go:3-17: whatever candidates the picks leave out, no member's credit or
\* debt exceeds one turn of the heaviest for each of the others.
THEOREM CreditIsBounded == PoolSpec => []WRRBounded
  <1>1. ASSUME PoolInv, CreditInv PROVE WRRBounded
    <2> SUFFICES ASSUME NEW e \in DOMAIN members
                 PROVE  LET most == (Cardinality(DOMAIN members) - 1) * Heaviest(members)
                        IN  members[e].current \in -most..most
      BY DEF WRRBounded
    <2>1. MembersOK(members) /\ DOMAIN members # {}
      BY <1>1 DEF PoolInv
    <2>2. Heaviest(members) \in Nat /\ Cardinality(DOMAIN members) \in Int
      BY <2>1, HeaviestFacts, FS_CardinalityType DEF MembersOK
    <2>3. Balanced(members, Heaviest(members), Cardinality(DOMAIN members))
      BY <1>1, <2>1 DEF CreditInv
    <2> QED
      BY <2>1, <2>2, <2>3, BalancedBounds
  <1> QED
    BY <1>1, PoolInvariance, CreditInvariance, PTL

----------------------------------------------------------------------------
(* The router *)

(***************************************************************************)
(* The router's inductive invariant: the pool's, and what ties the checker *)
(* to the pool, of which UnhealthyOnlyAfterFails is inductive because a    *)
(* refresh carries the health over and the streaks are kept by ID.         *)
(***************************************************************************)
RoutingInv ==
    /\ PoolInv
    /\ ProbeSlotHeld
    /\ HealthTypeOK
    /\ up \in [Endpoints -> BOOLEAN]
    /\ UnhealthyOnlyAfterFails

\* The initial router satisfies the invariant.
LEMMA RoutingInitSound == RoutingInit => RoutingInv
  <1> SUFFICES ASSUME RoutingInit PROVE RoutingInv
    OBVIOUS
  <1>1. PoolInv /\ ProbeSlotHeld
    BY PoolInitSound DEF RoutingInit, PoolInit
  <1>2. HealthTypeOK /\ up \in [Endpoints -> BOOLEAN]
    BY DEF RoutingInit, HealthInit, HealthTypeOK, Fails
  <1>3. UnhealthyOnlyAfterFails
    <2>1. members = Replaced(FirstTable, NoMembers) /\ FirstTable \in Seq(RowRecord)
      BY PoolAssumption DEF RoutingInit, NewPool
    <2>2. DOMAIN NoMembers = {} /\ NoMembers \in [DOMAIN NoMembers -> MemberRecord]
      BY DEF NoMembers
    <2>3. MembersOK(NoMembers)
      BY <2>2, FS_EmptySet DEF MembersOK
    <2>4. \A e \in DOMAIN members : members[e].health = Healthy
      BY <2>1, <2>2, <2>3, ReplacedKeeps
    <2> QED
      BY <2>4 DEF UnhealthyOnlyAfterFails, Healthy, Unhealthy
  <1> QED
    BY <1>1, <1>2, <1>3 DEF RoutingInv

\* Every step of the router keeps the invariant, hands out only endpoints that
\* can serve, and closes no breaker without a result.
LEMMA RoutingStepKeeps ==
    ASSUME RoutingInv, [RoutingNext]_routingVars
    PROVE  RoutingInv' /\ ServableStep /\ ClosingStep
  <1> USE DEF RoutingInv
  <1>a. ASSUME Keeps(members, members'), UNCHANGED streak PROVE UnhealthyOnlyAfterFails'
    BY <1>a DEF UnhealthyOnlyAfterFails, Keeps
  <1>1. ASSUME NEW c \in Callers, Request(c) PROVE RoutingInv' /\ ServableStep /\ ClosingStep
    <2>1. RequestStep(c) /\ UNCHANGED streak /\ UNCHANGED round /\ UNCHANGED up
      BY <1>1 DEF Request, healthVars
    <2>2. PoolInv' /\ ProbeSlotHeld' /\ Keeps(members, members') /\ ServableStep /\ ClosingStep
      BY <2>1, RequestStepKeeps DEF SlotStep
    <2> QED
      BY <1>a, <2>1, <2>2 DEF HealthTypeOK
  <1>2. ASSUME NEW e \in Endpoints, Probe(e) PROVE RoutingInv' /\ ServableStep /\ ClosingStep
    <2>1. PICK ok \in BOOLEAN : Check(e, ok)
      BY <1>2 DEF Probe
    <2>2. UNCHANGED up /\ round' = round \ {e} /\ mark(e, ok)
      BY <1>2, <2>1 DEF Probe, Check
    <2>3. /\ streak' \in [Endpoints -> 0..Fails]
          /\ streak'[e] = IF ok THEN 0 ELSE IF streak[e] < Fails THEN streak[e] + 1 ELSE streak[e]
          /\ \A f \in Endpoints \ {e} : streak'[f] = streak[f]
      BY <2>2 DEF mark, HealthTypeOK, Fails
    <2>4. HealthTypeOK'
      BY <2>2, <2>3 DEF HealthTypeOK
    <2>5. DOMAIN members \subseteq Endpoints
      BY DEF PoolInv, MembersOK
    <2>6. ASSUME SetHealth(e, Healthy) PROVE RoutingInv' /\ ServableStep /\ ClosingStep
      <3>1. /\ PoolInv' /\ ProbeSlotHeld' /\ ServableStep /\ ClosingStep
            /\ DOMAIN members' = DOMAIN members
            /\ \A f \in DOMAIN members :
                 members'[f].health = IF f = e THEN Healthy ELSE members[f].health
        BY <2>6, SetHealthKeeps DEF SlotStep
      <3>2. UnhealthyOnlyAfterFails'
        BY <2>3, <2>5, <3>1 DEF UnhealthyOnlyAfterFails, Healthy, Unhealthy
      <3> QED
        BY <2>2, <2>4, <3>1, <3>2
    <2>7. ASSUME SetHealth(e, Unhealthy), streak'[e] >= Fails
          PROVE  RoutingInv' /\ ServableStep /\ ClosingStep
      <3>1. /\ PoolInv' /\ ProbeSlotHeld' /\ ServableStep /\ ClosingStep
            /\ DOMAIN members' = DOMAIN members
            /\ \A f \in DOMAIN members :
                 members'[f].health = IF f = e THEN Unhealthy ELSE members[f].health
        BY <2>7, SetHealthKeeps DEF SlotStep
      <3>2. UnhealthyOnlyAfterFails'
        BY <2>3, <2>5, <2>7, <3>1 DEF UnhealthyOnlyAfterFails, Healthy, Unhealthy
      <3> QED
        BY <2>2, <2>4, <3>1, <3>2
    <2>8. ASSUME UNCHANGED poolVars, ~ok
          PROVE  RoutingInv' /\ ServableStep /\ ClosingStep
      <3>1. /\ PoolInv' /\ ProbeSlotHeld' /\ ServableStep /\ ClosingStep
        BY <2>8, PoolStutter DEF SlotStep
      <3>2. streak'[e] >= streak[e]
        BY <2>3, <2>8 DEF HealthTypeOK, Fails
      <3>3. UNCHANGED members
        BY <2>8 DEF poolVars
      <3>4. UnhealthyOnlyAfterFails'
        BY <2>3, <2>5, <3>2, <3>3 DEF UnhealthyOnlyAfterFails, HealthTypeOK, Fails
      <3> QED
        BY <2>2, <2>4, <3>1, <3>4
    <2> QED
      BY <2>2, <2>6, <2>7, <2>8 DEF mark
  <1>3. ASSUME NEW e \in Endpoints, Recover(e) PROVE RoutingInv' /\ ServableStep /\ ClosingStep
    <2>1. UNCHANGED poolVars /\ UNCHANGED streak /\ UNCHANGED round /\ up' = [up EXCEPT ![e] = TRUE]
      BY <1>3 DEF Recover, healthVars
    <2>2. PoolInv' /\ ProbeSlotHeld' /\ Keeps(members, members') /\ ServableStep /\ ClosingStep
      BY <2>1, PoolStutter DEF SlotStep
    <2> QED
      BY <1>a, <2>1, <2>2 DEF HealthTypeOK
  <1>4. ASSUME StartRound PROVE RoutingInv' /\ ServableStep /\ ClosingStep
    <2>1. UNCHANGED poolVars /\ UNCHANGED streak /\ UNCHANGED up /\ round' = DOMAIN members
      BY <1>4 DEF StartRound, CheckAll
    <2>2. PoolInv' /\ ProbeSlotHeld' /\ Keeps(members, members') /\ ServableStep /\ ClosingStep
      BY <2>1, PoolStutter DEF SlotStep
    <2> QED
      BY <1>a, <2>1, <2>2 DEF HealthTypeOK, PoolInv, MembersOK
  <1>5. ASSUME NEW rows \in Tables, RefreshEndpoints(rows)
        PROVE  RoutingInv' /\ ServableStep /\ ClosingStep
    <2>1. Replace(rows) /\ UNCHANGED streak /\ UNCHANGED round /\ UNCHANGED up
      BY <1>5 DEF RefreshEndpoints, healthVars
    <2>2. /\ PoolInv' /\ ProbeSlotHeld' /\ ServableStep /\ ClosingStep
          /\ \A e \in DOMAIN members' :
                IF e \in DOMAIN members THEN members'[e].health = members[e].health
                ELSE members'[e].health = Healthy
      BY <2>1, ReplaceKeeps DEF SlotStep
    <2>3. UnhealthyOnlyAfterFails'
      BY <2>1, <2>2 DEF UnhealthyOnlyAfterFails, Healthy, Unhealthy
    <2> QED
      BY <2>1, <2>2, <2>3 DEF HealthTypeOK
  <1>6. ASSUME Scrape PROVE RoutingInv' /\ ServableStep /\ ClosingStep
    <2>1. /\ members' = Asked(members, DOMAIN members) /\ UNCHANGED <<lock, pick>>
          /\ UNCHANGED streak /\ UNCHANGED round /\ UNCHANGED up
      BY <1>6 DEF Scrape, Snapshot, healthVars
    <2>2. MembersOK(members') /\ Keeps(members, members') /\ Calm(members, members')
      BY <2>1, AskedKeeps DEF PoolInv
    <2>3. PoolInv'
      BY <2>1, <2>2, OnlyMembersMove
    <2>4. ProbeSlotHeld' /\ ServableStep /\ ClosingStep
      BY <2>1, <2>2, CalmStep DEF Keeps, SlotStep
    <2> QED
      BY <1>a, <2>1, <2>2, <2>3, <2>4 DEF HealthTypeOK
  <1>7. ASSUME RouterTick PROVE RoutingInv' /\ ServableStep /\ ClosingStep
    <2>1. PoolTick /\ UNCHANGED streak /\ UNCHANGED round /\ UNCHANGED up
      BY <1>7 DEF RouterTick, healthVars
    <2>2. PoolInv' /\ ProbeSlotHeld' /\ Keeps(members, members') /\ ServableStep /\ ClosingStep
      BY <2>1, PoolTickKeeps DEF SlotStep
    <2> QED
      BY <1>a, <2>1, <2>2 DEF HealthTypeOK
  <1>8. ASSUME UNCHANGED routingVars PROVE RoutingInv' /\ ServableStep /\ ClosingStep
    <2>1. UNCHANGED poolVars /\ UNCHANGED streak /\ UNCHANGED round /\ UNCHANGED up
      BY <1>8 DEF routingVars, healthVars
    <2>2. PoolInv' /\ ProbeSlotHeld' /\ Keeps(members, members') /\ ServableStep /\ ClosingStep
      BY <2>1, PoolStutter DEF SlotStep
    <2> QED
      BY <1>a, <2>1, <2>2 DEF HealthTypeOK
  <1> QED
    BY <1>1, <1>2, <1>3, <1>4, <1>5, <1>6, <1>7, <1>8 DEF RoutingNext

\* The router's inductive invariant holds in every reachable state.
THEOREM RoutingInvariance == RoutingSpec => []RoutingInv
  BY RoutingInitSound, RoutingStepKeeps, PTL DEF RoutingSpec

\* The router's state is always well formed, through refreshes too.
THEOREM RoutingTypeCorrect == RoutingSpec => []RoutingTypeOK
  <1>1. RoutingInv => RoutingTypeOK
    BY PoolInvTyped DEF RoutingInv, RoutingTypeOK
  <1> QED
    BY <1>1, RoutingInvariance, PTL

\* pool.go:80-158: a taken probe slot is always one that a request in flight
\* will free.
THEOREM ProbeSlotsAreHeld == RoutingSpec => []ProbeSlotHeld
  BY RoutingInvariance, PTL DEF RoutingInv

\* checker.go:107-120: an endpoint is out only after Fails failed probes in a
\* row, whatever refreshes happened between them.
THEOREM OutOnlyAfterFails == RoutingSpec => []UnhealthyOnlyAfterFails
  BY RoutingInvariance, PTL DEF RoutingInv

\* pool.go:80-131: what Pick returns can serve the request when it returns.
THEOREM PickReturnsServable == RoutingSpec => HandedOutServable
  <1>1. ASSUME RoutingInv, [RoutingNext]_routingVars PROVE [ServableStep]_poolVars
    BY <1>1, RoutingStepKeeps
  <1> QED
    BY <1>1, RoutingInvariance, PTL DEF RoutingSpec, HandedOutServable, ServableStep

\* pool.go:49-78: an open breaker of an endpoint that stays in the pool closes
\* only when the result of a call to it is reported.
THEOREM BreakersCloseByResults == RoutingSpec => OnlyResultsClose
  <1>1. ASSUME RoutingInv, [RoutingNext]_routingVars PROVE [ClosingStep]_poolVars
    BY <1>1, RoutingStepKeeps
  <1> QED
    BY <1>1, RoutingInvariance, PTL DEF RoutingSpec, OnlyResultsClose, ClosingStep

\* The breaker of every endpoint that stays moves as BreakerCalls lets it.
BreakersStep == \A e \in DOMAIN members : e \in DOMAIN members' => BreakerStep(e)

\* A step in which no request moves, and that at most asks the breakers of the
\* members that stay.
LEMMA AsideKeepsBreakers ==
    ASSUME PoolInv, UNCHANGED pick,
           \A e \in DOMAIN members : e \in DOMAIN members' =>
               members'[e].breaker \in {members[e].breaker, maybeHalfOpen(members[e].breaker)}
    PROVE  BreakersStep
  <1>1. \A d \in Callers : (Got(d)' <=> Got(d)) /\ (Got(d) => pick'[d] = pick[d])
    BY DEF Got
  <1> QED
    BY <1>1, AsideIsBreakerStep DEF BreakersStep

\* A refresh hands the breakers of the members that stay over as they are.
LEMMA ReplaceKeepsBreakers ==
    ASSUME PoolInv, NEW rows \in Tables, Replace(rows)
    PROVE  BreakersStep
  <1>1. rows \in Seq(RowRecord) /\ MembersOK(members) /\ members' = Replaced(rows, members)
    BY PoolAssumption DEF PoolInv, Replace
  <1>2. \A e \in DOMAIN members' : e \in DOMAIN members => members'[e].breaker = members[e].breaker
    BY <1>1, ReplacedKeeps
  <1>3. UNCHANGED pick
    BY DEF Replace
  <1> QED
    BY <1>2, <1>3, AsideKeepsBreakers

\* pool.go:49-158 with checker.go:107-120: the refinement of BreakerCalls, step
\* by step, survives refreshes, health checks and scrapes: the breaker of an
\* endpoint that stays in the pool never does what BreakerCalls does not allow.
THEOREM RouterUsesBreakers == RoutingSpec => [][BreakersStep]_poolVars
  <1>1. ASSUME RoutingInv, [RoutingNext]_routingVars PROVE BreakersStep
    <2>a. PoolInv
      BY <1>1 DEF RoutingInv
    <2>b. ASSUME UNCHANGED poolVars PROVE BreakersStep
      <3>1. UNCHANGED pick /\ UNCHANGED members
        BY <2>b DEF poolVars
      <3> QED
        BY <2>a, <3>1, AsideKeepsBreakers
    <2>1. ASSUME NEW c \in Callers, Request(c) PROVE BreakersStep
      BY <2>a, <2>1, RequestIsBreakerStep DEF Request, BreakersStep
    <2>2. ASSUME NEW e \in Endpoints, Probe(e) PROVE BreakersStep
      <3>1. ASSUME NEW h \in {Healthy, Unhealthy}, SetHealth(e, h) PROVE BreakersStep
        <4>1. UNCHANGED pick
          BY <3>1 DEF SetHealth
        <4>2. \A f \in DOMAIN members : members'[f].breaker = members[f].breaker
          BY <2>a, <3>1, SetHealthKeeps
        <4> QED
          BY <2>a, <4>1, <4>2, AsideKeepsBreakers
      <3> QED
        BY <2>2, <2>b, <3>1 DEF Probe, Check, mark
    <2>3. ASSUME NEW e \in Endpoints, Recover(e) PROVE BreakersStep
      BY <2>3, <2>b DEF Recover
    <2>4. CASE StartRound
      BY <2>4, <2>b DEF StartRound, CheckAll
    <2>5. ASSUME NEW rows \in Tables, RefreshEndpoints(rows) PROVE BreakersStep
      BY <2>a, <2>5, ReplaceKeepsBreakers DEF RefreshEndpoints
    <2>6. CASE Scrape
      <3>1. UNCHANGED pick /\ members' = Asked(members, DOMAIN members) /\ MembersOK(members)
        BY <2>a, <2>6 DEF Scrape, Snapshot, PoolInv
      <3>2. Looked(members, members')
        BY <3>1, AskedKeeps
      <3> QED
        BY <2>a, <3>1, <3>2, AsideKeepsBreakers DEF Looked
    <2>7. CASE RouterTick
      BY <2>a, <2>7, TickIsBreakerStep DEF RouterTick, BreakersStep
    <2>8. CASE UNCHANGED routingVars
      BY <2>8, <2>b DEF routingVars
    <2> QED
      BY <1>1, <2>1, <2>2, <2>3, <2>4, <2>5, <2>6, <2>7, <2>8 DEF RoutingNext
  <1>2. ASSUME RoutingInv, [RoutingNext]_routingVars PROVE [BreakersStep]_poolVars
    BY <1>1, <1>2
  <1> QED
    BY <1>2, RoutingInvariance, PTL DEF RoutingSpec

----------------------------------------------------------------------------
(* Credit through refreshes *)

\* Up to half of L, more members may have more credit.
LEMMA SpreadGrows ==
    ASSUME NEW c \in Nat, NEW n \in Nat, NEW a \in Nat, NEW b \in Nat, a <= b, b <= n
    PROVE  Spread(c, 2 * n - 1, a) <= Spread(c, 2 * n - 1, b)
  <1> DEFINE L == 2 * n - 1
  <1>1. CASE a = b
    BY <1>1 DEF Spread
  <1>2. CASE a < b
    <2>1. b - a \in Nat /\ L - a - b \in Nat
      BY <1>2
    <2>2. (b - a) * (L - a - b) \in Nat
      BY <2>1
    <2>3. c * ((b - a) * (L - a - b)) \in Nat
      BY <2>2
    <2>4. Spread(c, L, b) = Spread(c, L, a) + c * ((b - a) * (L - a - b))
      BY DEF Spread
    <2>5. Spread(c, L, a) \in Int
      BY DEF Spread
    <2> QED
      BY <2>3, <2>4, <2>5
  <1> QED
    BY <1>1, <1>2

\* Members that leave take their credit with them and members that come have
\* none: the credit of a set is that of the members it had before.
LEMMA ReplacedBalanced ==
    ASSUME IsFiniteSet(Endpoints), NEW rows \in Seq(RowRecord), NEW c \in Nat \ {0},
           \A i \in DOMAIN rows : rows[i].weight <= c,
           NEW old, MembersOK(old), Balanced(old, c, 2 * Cardinality(Endpoints) - 1)
    PROVE  Balanced(Replaced(rows, old), c, 2 * Cardinality(Endpoints) - 1)
  <1> DEFINE new == Replaced(rows, old)
             x == Credit(old)
             y == Credit(new)
             D == DOMAIN old
  <1>1. PICK n \in Nat : n = Cardinality(Endpoints)
    BY FS_CardinalityType
  <1>2. PICK L \in Int : L = 2 * n - 1
    OBVIOUS
  <1>3. MembersOK(new)
    BY ReplacedKeeps
  <1>4. CASE ~\A i \in DOMAIN rows : Validate(rows[i])
    BY <1>4 DEF Replaced
  <1>5. CASE \A i \in DOMAIN rows : Validate(rows[i])
    <2>1. ASSUME NEW e \in DOMAIN new
          PROVE  /\ new[e].weight <= c
                 /\ new[e].current = IF e \in D THEN old[e].current ELSE 0
      <3>1. PICK i \in DOMAIN rows : rows[i].id = e /\ new[e] = MemberOf(rows, i, old)
        BY <1>5, <2>1 DEF Replaced, Rows
      <3>2. rows[i].weight \in Int /\ rows[i].weight <= c
        <4>1. rows[i] \in RowRecord
          BY <3>1
        <4> QED
          BY <4>1 DEF RowRecord
      <3>3. new[e].weight = IF rows[i].weight = 0 THEN 1 ELSE rows[i].weight
        BY <3>1 DEF MemberOf
      <3>4. new[e].current = IF e \in D THEN old[e].current ELSE 0
        BY <3>1 DEF MemberOf
      <3> QED
        BY <3>2, <3>3, <3>4
    <2>2. \A e \in DOMAIN new : y[e] = IF e \in D THEN x[e] ELSE 0
      BY <2>1 DEF Credit
    <2>3. \A e \in D : x[e] \in Int
      BY DEF Credit, MembersOK, MemberRecord
    <2>4. DOMAIN new \subseteq Endpoints /\ IsFiniteSet(DOMAIN new)
      BY <1>3 DEF MembersOK
    <2>5. Level(x, D, c, L)
      BY <1>1, <1>2 DEF Balanced
    <2> HIDE DEF new, x, y, D
    <2>6. ASSUME NEW S \in SUBSET DOMAIN new
          PROVE  LET most == Spread(c, L, Cardinality(S))
                 IN  -most <= SumFunctionOnSet(y, S) /\ SumFunctionOnSet(y, S) <= most
      <3> DEFINE A == S \cap D
                 B == S \ D
      <3>1. IsFiniteSet(S) /\ Cardinality(S) \in Nat /\ Cardinality(S) <= n
        <4>1. S \in SUBSET Endpoints
          BY <2>4
        <4> QED
          BY <1>1, <4>1, FS_Subset, FS_CardinalityType
      <3>2. /\ IsFiniteSet(A) /\ IsFiniteSet(B) /\ A \cap B = {} /\ S = A \cup B
            /\ Cardinality(A) \in Nat /\ Cardinality(A) <= Cardinality(S)
        BY <3>1, FS_Subset, FS_CardinalityType
      <3>3. \A e \in A : x[e] \in Int /\ y[e] = x[e]
        BY <2>2, <2>3
      <3>4. \A e \in B : y[e] = 0
        BY <2>2
      <3>5. A \in SUBSET D
        OBVIOUS
      <3> HIDE DEF A, B
      <3>6. SumFunctionOnSet(y, A) = SumFunctionOnSet(x, A) /\ SumFunctionOnSet(x, A) \in Int
        BY <3>2, <3>3, SumOfSame, SumType
      <3>7. SumFunctionOnSet(y, B) = 0
        BY <3>2, <3>4, SumOfZeros
      <3>8. \A e \in A \cup B : y[e] \in Int
        BY <3>3, <3>4
      <3>9. SumFunctionOnSet(y, A \cup B) = SumFunctionOnSet(y, A) + SumFunctionOnSet(y, B)
        BY <3>2, <3>8, SumDisjoint
      <3>10. SumFunctionOnSet(y, S) = SumFunctionOnSet(x, A)
        BY <3>2, <3>6, <3>7, <3>9
      <3>11. /\ -Spread(c, L, Cardinality(A)) <= SumFunctionOnSet(x, A)
             /\ SumFunctionOnSet(x, A) <= Spread(c, L, Cardinality(A))
        BY <2>5, <3>5 DEF Level
      <3>12. Spread(c, L, Cardinality(A)) <= Spread(c, L, Cardinality(S))
        BY <1>2, <3>1, <3>2, SpreadGrows
      <3>13. Spread(c, L, Cardinality(A)) \in Int /\ Spread(c, L, Cardinality(S)) \in Int
        BY <3>1, <3>2 DEF Spread
      <3> QED
        BY <3>6, <3>10, <3>11, <3>12, <3>13
    <2>7. Level(y, DOMAIN new, c, L)
      BY <2>6 DEF Level
    <2> QED
      BY <1>1, <1>2, <2>1, <2>7 DEF Balanced, new, y
  <1> QED
    BY <1>4, <1>5

\* Weights of at most c.
WeightsWithin(c) ==
    \A rows \in Tables \cup {FirstTable} : \A i \in DOMAIN rows : rows[i].weight <= c

\* The first table is balanced, however large the pool may grow.
LEMMA FirstTableBalanced ==
    ASSUME IsFiniteSet(Endpoints), NEW c \in Nat \ {0}, WeightsWithin(c), PoolInit
    PROVE  Balanced(members, c, 2 * Cardinality(Endpoints) - 1)
  <1>0. c \in Nat /\ Cardinality(Endpoints) \in Nat /\ 2 * Cardinality(Endpoints) - 1 \in Int
    BY FS_CardinalityType
  <1>1. members = Replaced(FirstTable, NoMembers) /\ FirstTable \in Seq(RowRecord)
    BY PoolAssumption DEF PoolInit, NewPool
  <1>2. DOMAIN NoMembers = {} /\ NoMembers \in [DOMAIN NoMembers -> MemberRecord]
    BY DEF NoMembers
  <1>3. MembersOK(NoMembers)
    BY <1>2, FS_EmptySet DEF MembersOK
  <1>4. Balanced(NoMembers, c, 2 * Cardinality(Endpoints) - 1)
    <2>1. SumFunctionOnSet(Credit(NoMembers), {}) = 0 /\ Cardinality({}) = 0
      BY SumOfZeros, FS_EmptySet
    <2>2. \A L \in Int : Spread(c, L, 0) = 0
      BY <1>0 DEF Spread
    <2>3. Spread(c, 2 * Cardinality(Endpoints) - 1, 0) = 0
      BY <1>0, <2>2
    <2>4. ASSUME NEW S \in SUBSET DOMAIN NoMembers
          PROVE  LET most == Spread(c, 2 * Cardinality(Endpoints) - 1, Cardinality(S))
                 IN  /\ -most <= SumFunctionOnSet(Credit(NoMembers), S)
                     /\ SumFunctionOnSet(Credit(NoMembers), S) <= most
      <3>1. S = {}
        BY <1>2
      <3>2. Cardinality(S) = 0 /\ SumFunctionOnSet(Credit(NoMembers), S) = 0
        BY <2>1, <3>1
      <3> QED
        BY <2>3, <3>2
    <2>5. Level(Credit(NoMembers), DOMAIN NoMembers, c, 2 * Cardinality(Endpoints) - 1)
      BY <2>4 DEF Level
    <2> QED
      BY <1>2, <2>5 DEF Balanced
  <1> QED
    BY <1>1, <1>3, <1>4, ReplacedBalanced DEF WeightsWithin

\* Every member's credit is between -b and b.
CreditWithin(b) == \A e \in DOMAIN members : members[e].current \in -b..b

\* What that balance says of every member.
LEMMA BalancedWithin ==
    ASSUME IsFiniteSet(Endpoints), NEW c \in Nat \ {0}, PoolInv,
           Balanced(members, c, 2 * Cardinality(Endpoints) - 1)
    PROVE  CreditWithin(2 * (Cardinality(Endpoints) - 1) * c)
  <1>0. c \in Nat /\ Cardinality(Endpoints) \in Nat /\ 2 * Cardinality(Endpoints) - 1 \in Int
    BY FS_CardinalityType
  <1>1. PICK n \in Nat : n = Cardinality(Endpoints)
    BY <1>0
  <1>2. MembersOK(members)
    BY DEF PoolInv
  <1>3. \A e \in DOMAIN members :
          members[e].current \in -((2 * n - 1 - 1) * c)..((2 * n - 1 - 1) * c)
    BY <1>0, <1>1, <1>2, BalancedBounds
  <1>4. (2 * n - 1 - 1) * c = 2 * (n - 1) * c
    OBVIOUS
  <1> QED
    BY <1>1, <1>3, <1>4 DEF CreditWithin

\* wrr.go:3-17 with pool.go:49-78: refreshes that drop members, bring them back
\* and change weights at most double the bound, because the credit of the
\* members that stay need not add up to 0 any more.
THEOREM RefreshedCreditIsBounded ==
    ASSUME IsFiniteSet(Endpoints), NEW c \in Nat \ {0}, WeightsWithin(c)
    PROVE  RoutingSpec => []CreditWithin(2 * (Cardinality(Endpoints) - 1) * c)
  <1> DEFINE Steady == Balanced(members, c, 2 * Cardinality(Endpoints) - 1)
  <1>0. c \in Nat /\ Cardinality(Endpoints) \in Nat /\ 2 * Cardinality(Endpoints) - 1 \in Int
    BY FS_CardinalityType
  <1>1. ASSUME RoutingInit PROVE Steady
    BY <1>1, FirstTableBalanced DEF RoutingInit, PoolInit
  <1>2. ASSUME PoolInv, Steady, [RoutingNext]_routingVars PROVE Steady'
    <2>a. MembersOK(members) /\ \A e \in DOMAIN members : members[e] \in MemberRecord
      BY <1>2 DEF PoolInv, MembersOK
    <2>b. ASSUME Follows(members, members') PROVE Steady'
      BY <1>0, <1>2, <2>b DEF Follows
    <2>c. ASSUME UNCHANGED poolVars PROVE Steady'
      BY <1>2, <2>c DEF poolVars
    <2>1. ASSUME NEW r \in Callers, Request(r) PROVE Steady'
      BY <1>2, <2>1, <2>b, RequestFollows DEF Request
    <2>2. ASSUME NEW e \in Endpoints, Probe(e) PROVE Steady'
      <3>1. ASSUME NEW h, SetHealth(e, h) PROVE Steady'
        <4>1. SameCredit(members, members')
          BY <2>a, <3>1 DEF SetHealth, SameCredit, MemberRecord
        <4> QED
          BY <2>b, <4>1, SameCreditFollows
      <3> QED
        BY <2>2, <2>c, <3>1 DEF Probe, Check, mark
    <2>3. ASSUME NEW e \in Endpoints, Recover(e) PROVE Steady'
      BY <2>3, <2>c DEF Recover
    <2>4. CASE StartRound
      BY <2>4, <2>c DEF StartRound, CheckAll
    <2>5. ASSUME NEW rows \in Tables, RefreshEndpoints(rows) PROVE Steady'
      <3>1. members' = Replaced(rows, members) /\ rows \in Seq(RowRecord)
        BY <2>5, PoolAssumption DEF RefreshEndpoints, Replace
      <3> QED
        BY <1>2, <2>a, <3>1, ReplacedBalanced DEF WeightsWithin
    <2>6. CASE Scrape
      <3>1. SameCredit(members, members')
        BY <2>6, <2>a, AskedCredit DEF Scrape, Snapshot
      <3> QED
        BY <2>b, <3>1, SameCreditFollows
    <2>7. CASE RouterTick
      BY <1>2, <2>7, <2>b, PoolTickFollows DEF RouterTick
    <2>8. CASE UNCHANGED routingVars
      BY <2>8, <2>c DEF routingVars
    <2> QED
      BY <1>2, <2>1, <2>2, <2>3, <2>4, <2>5, <2>6, <2>7, <2>8 DEF RoutingNext
  <1>3. ASSUME PoolInv, Steady PROVE CreditWithin(2 * (Cardinality(Endpoints) - 1) * c)
    BY <1>3, BalancedWithin
  <1>4. RoutingInv => PoolInv
    BY DEF RoutingInv
  <1> HIDE DEF Steady
  <1> QED
    BY <1>1, <1>2, <1>3, <1>4, RoutingInvariance, PTL DEF RoutingSpec
============================================================================
