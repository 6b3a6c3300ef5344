-------------------------- MODULE KeyCacheProofs --------------------------
(***************************************************************************)
(* What a lookup of an API key is answered with is recent, for any number  *)
(* of replicas and callers, any lives of the cache's entries and of its    *)
(* lock, and whatever fails; and nobody waits for a call that is not there.*)
(***************************************************************************)
EXTENDS KeyCache, TLAPS

(***************************************************************************)
(* The strengthening.  An answer is stale for at most as long as its call  *)
(* has held it; a call stores only what the database said; a call that is  *)
(* gone has left nothing behind, and no caller.                            *)
(***************************************************************************)
AnswerAge ==
    \A r \in Replicas : HasAnswer(flight[r]) => flight[r].stale <= flight[r].held

StoresRows ==
    \A r \in Replicas : flight[r].stage = "store" => flight[r].value \in Values

GoneIsGone ==
    \A r \in Replicas : flight[r].stage = "none" => flight[r] = NoFlight

\* cache.go:56-84: a caller that waits in group.Do waits for a call that is
\* under way in its own replica.
WaitersHaveFlight ==
    \A c \in Callers : pc[c] = "wait" => flight[Home[c]].stage # "none"

KeyInv ==
    KeyTypeOK /\ AnswersAreRecent /\ AnswerAge /\ StoresRows /\ GoneIsGone /\ WaitersHaveFlight

\* The LEFT JOIN has an answer for every pair of rows.
LEMMA RowOfType == \A k, u : RowOf(k, u) \in Values
  BY DEF RowOf, Values

\* A tick ages a copy by at most one, and never beyond Forever.
LEMMA OlderFacts ==
    ASSUME NEW v, NEW stale \in 0..Forever
    PROVE  /\ Older(v, stale) \in 0..Forever
           /\ Older(v, stale) <= stale + 1
           /\ Older(v, stale) \in Nat
  BY KeyCacheAssumption DEF Older, Forever

----------------------------------------------------------------------------
(* The steps of a call *)

\* What a call may look like.
Flights == [stage : Stages \cup {"none"}, value : Values \cup {"none", "error"},
            stale : 0..Forever, held : 0..MaxDelay]

SoundFlight(f) ==
    /\ f \in Flights
    /\ HasAnswer(f) => f.stale <= f.held
    /\ f.stage = "store" => f.value \in Values
    /\ f.stage = "none" => f = NoFlight

\* A step that changes one replica's call keeps the invariant if the new call
\* is well formed, leaves the cache alone, and strands nobody.
LEMMA OneFlightChanges ==
    ASSUME KeyInv, NEW r \in Replicas, NEW f, SoundFlight(f),
           flight' = [flight EXCEPT ![r] = f],
           pc' \in [Callers -> {"idle", "join", "wait"}],
           \A c \in Callers : pc'[c] = "wait" =>
               IF Home[c] = r THEN f.stage # "none" ELSE pc[c] = "wait",
           UNCHANGED <<key, user, entry>>, lock' \in 0..LockTTL
    PROVE  KeyInv'
  <1>1. flight \in [Replicas -> Flights] /\ f \in Flights
    BY DEF KeyInv, KeyTypeOK, Flights, SoundFlight
  <1>2. \A x \in Replicas : flight'[x] = IF x = r THEN f ELSE flight[x]
    BY <1>1
  <1>3. KeyTypeOK'
    BY <1>1 DEF KeyInv, KeyTypeOK, Flights
  <1>4. AnswerAge' /\ StoresRows' /\ GoneIsGone'
    BY <1>2 DEF SoundFlight, KeyInv, AnswerAge, StoresRows, GoneIsGone, HasAnswer
  <1>5. WaitersHaveFlight'
    BY <1>2, KeyCacheAssumption DEF KeyInv, WaitersHaveFlight
  <1>6. \A x \in Replicas : HasAnswer(flight'[x]) => flight'[x].stale <= MaxDelay
    <2> SUFFICES ASSUME NEW x \in Replicas, HasAnswer(flight'[x]) PROVE flight'[x].stale <= MaxDelay
      OBVIOUS
    <2>1. flight'[x].stale <= flight'[x].held
      BY <1>4 DEF AnswerAge, HasAnswer
    <2>2. flight'[x].stale \in 0..Forever /\ flight'[x].held \in 0..MaxDelay
      BY <1>3 DEF KeyTypeOK
    <2> QED
      BY <2>1, <2>2, KeyCacheAssumption DEF Forever
  <1>7. AnswersAreRecent'
    BY <1>6 DEF KeyInv, AnswersAreRecent, HasAnswer
  <1> QED
    BY <1>3, <1>4, <1>5, <1>7 DEF KeyInv

\* Every step of a caller, of a replica's call, of the operator who writes the
\* database, of time, and every death of a replica keeps the invariant.
LEMMA NextPreservesKeyInv == KeyInv /\ [KeyNext]_keyVars => KeyInv'
  <1> SUFFICES ASSUME KeyInv, [KeyNext]_keyVars PROVE KeyInv'
    OBVIOUS
  <1> USE DEF Flights
  <1>a. /\ flight \in [Replicas -> Flights] /\ pc \in [Callers -> {"idle", "join", "wait"}]
        /\ lock \in 0..LockTTL
    BY DEF KeyInv, KeyTypeOK
  <1>b. /\ AnswersAreRecent /\ AnswerAge /\ StoresRows /\ GoneIsGone /\ WaitersHaveFlight
    BY DEF KeyInv
  <1>c. 0 \in 0..Forever /\ 0 \in 0..MaxDelay /\ 0 \in 0..LockTTL /\ LockTTL \in 0..LockTTL
    BY KeyCacheAssumption DEF Forever
  <1>d. NoFlight \in Flights /\ ~HasAnswer(NoFlight) /\ NoFlight.stage = "none"
    BY <1>c DEF NoFlight, HasAnswer
  <1>e. \A r \in Replicas : /\ flight[r] \in Flights
                            /\ HasAnswer(flight[r]) => flight[r].stale <= flight[r].held
                            /\ flight[r].stage = "store" => flight[r].value \in Values
                            /\ flight[r].stage = "none" => flight[r] = NoFlight
    BY <1>a, <1>b DEF AnswerAge, StoresRows, GoneIsGone
  <1>1. ASSUME NEW c \in Callers, LookupKey(c) PROVE KeyInv'
    <2>1. KeyTypeOK'
      BY <1>1 DEF LookupKey, Goto, KeyInv, KeyTypeOK
    <2>2. WaitersHaveFlight'
      BY <1>1, <1>a, <1>b DEF LookupKey, Goto, WaitersHaveFlight
    <2> QED
      BY <1>1, <1>b, <2>1, <2>2
         DEF LookupKey, KeyInv, AnswersAreRecent, AnswerAge, StoresRows, GoneIsGone, HasAnswer
  <1>2. ASSUME NEW c \in Callers, Join(c) PROVE KeyInv'
    <2>1. PICK r \in Replicas : r = Home[c]
      BY KeyCacheAssumption
    <2>a. PICK f : f = IF flight[r] = NoFlight THEN [NoFlight EXCEPT !.stage = "recheck"] ELSE flight[r]
      OBVIOUS
    <2>2. f \in Flights /\ f.stage # "none" /\ (HasAnswer(f) => f.stale <= f.held)
          /\ (f.stage = "store" => f.value \in Values)
      BY <1>c, <1>e, <2>a DEF NoFlight, HasAnswer, Stages
    <2>3. flight' = [flight EXCEPT ![r] = f] /\ UNCHANGED <<key, user, entry, lock>>
          /\ pc' = [pc EXCEPT ![c] = "wait"]
      BY <1>2, <2>1, <2>a DEF Join, Goto
    <2>4. /\ pc' \in [Callers -> {"idle", "join", "wait"}]
          /\ \A x \in Callers : pc'[x] = "wait" =>
                IF Home[x] = r THEN f.stage # "none" ELSE pc[x] = "wait"
      BY <1>a, <2>1, <2>2, <2>3
    <2>5. SoundFlight(f)
      BY <2>2 DEF SoundFlight
    <2>6. /\ flight' = [flight EXCEPT ![r] = f]
          /\ UNCHANGED <<key, user, entry>> /\ lock' \in 0..LockTTL
      BY <1>a, <2>3
    <2> QED
      BY <2>4, <2>5, <2>6, OneFlightChanges
  <1>3. ASSUME NEW r \in Replicas, NEW stage \in Stages, stage # "store", FlightGoto(r, stage),
               flight[r].stage # "none",
               UNCHANGED <<key, user, entry, pc>>, lock' \in 0..LockTTL
        PROVE  KeyInv'
    <2> DEFINE f == [flight[r] EXCEPT !.stage = stage]
    <2>1. /\ f \in Flights /\ f.stage # "none" /\ f.stage # "store"
          /\ HasAnswer(f) => f.stale <= f.held
      BY <1>3, <1>e DEF HasAnswer, Stages
    <2>2. flight' = [flight EXCEPT ![r] = f]
      BY <1>3 DEF FlightGoto
    <2>3. /\ pc' \in [Callers -> {"idle", "join", "wait"}]
          /\ \A x \in Callers : pc'[x] = "wait" =>
                IF Home[x] = r THEN f.stage # "none" ELSE pc[x] = "wait"
      BY <1>3, <1>a, <2>1
    <2> HIDE DEF f
    <2>4. SoundFlight(f)
      BY <2>1 DEF SoundFlight
    <2>5. r \in Replicas /\ UNCHANGED <<key, user, entry>> /\ lock' \in 0..LockTTL
      BY <1>3
    <2> QED
      BY <2>2, <2>3, <2>4, <2>5, OneFlightChanges
  <1>4. ASSUME NEW r \in Replicas, flight' = [flight EXCEPT ![r] = NoFlight],
               pc' \in [Callers -> {"idle", "join", "wait"}],
               \A c \in Callers : pc'[c] = "wait" => Home[c] # r /\ pc[c] = "wait",
               UNCHANGED <<key, user, entry>>, lock' \in 0..LockTTL
        PROVE  KeyInv'
    <2>1. SoundFlight(NoFlight)
      BY <1>d DEF SoundFlight
    <2>2. \A c \in Callers : pc'[c] = "wait" =>
             IF Home[c] = r THEN NoFlight.stage # "none" ELSE pc[c] = "wait"
      BY <1>4
    <2> QED
      BY <1>4, <2>1, <2>2, OneFlightChanges
  <1>5. ASSUME NEW r \in Replicas, AnswerAll(r), UNCHANGED <<key, user, entry>>, lock' \in 0..LockTTL
        PROVE  KeyInv'
    BY <1>5, <1>4, <1>a DEF AnswerAll
  <1>6. ASSUME NEW r \in Replicas, Recheck(r) PROVE KeyInv'
    BY <1>6, <1>3, <1>5, <1>a DEF Recheck, Stages
  <1>7. ASSUME NEW r \in Replicas, TryLock(r) PROVE KeyInv'
    <2>1. /\ flight[r].stage = "lock" /\ UNCHANGED <<key, user, entry, pc>> /\ lock' \in 0..LockTTL
          /\ FlightGoto(r, "query") \/ FlightGoto(r, "sleep")
      BY <1>7, <1>a, <1>c DEF TryLock
    <2> QED
      BY <1>3, <2>1 DEF Stages
  <1>8. ASSUME NEW r \in Replicas, Query(r) PROVE KeyInv'
    <2> DEFINE row == RowOf(key, user)
    <2>1. PICK f \in {[stage |-> "store", value |-> row, stale |-> 0, held |-> 0],
                      [stage |-> "unlock", value |-> "error", stale |-> 0, held |-> 0]} :
             flight' = [flight EXCEPT ![r] = f]
      BY <1>8 DEF Query
    <2>2. row \in Values
      BY RowOfType
    <2> HIDE DEF row
    <2>3. /\ f \in Flights /\ (HasAnswer(f) => f.stale <= f.held)
          /\ f.stage = "store" => f.value \in Values
          /\ f.stage # "none"
      BY <1>c, <2>1, <2>2 DEF HasAnswer, Stages
    <2>4. UNCHANGED <<key, user, entry, lock, pc>>
      BY <1>8 DEF Query
    <2>5. /\ pc' \in [Callers -> {"idle", "join", "wait"}]
          /\ \A x \in Callers : pc'[x] = "wait" =>
                IF Home[x] = r THEN f.stage # "none" ELSE pc[x] = "wait"
      BY <1>a, <2>3, <2>4
    <2>6. SoundFlight(f) /\ UNCHANGED <<key, user, entry>> /\ lock' \in 0..LockTTL
      BY <1>a, <2>3, <2>4 DEF SoundFlight
    <2> QED
      BY <2>1, <2>5, <2>6, OneFlightChanges
  <1>9. ASSUME NEW r \in Replicas, Store(r) PROVE KeyInv'
    <2> DEFINE v == flight[r].value
    <2>1. /\ flight[r].stage = "store" /\ v \in Values /\ UNCHANGED <<key, user, lock, pc>>
          /\ FlightGoto(r, "unlock")
      BY <1>9, <1>b DEF Store, StoresRows
    <2>2. CASE entry' = entry
      BY <1>3, <1>a, <2>1, <2>2 DEF Stages
    <2>3. ASSUME NEW ttl \in (IF v = "null" THEN {NullTTL} ELSE TTL..(TTL + MaxJitter)),
                 entry' = [value |-> v, ttl |-> ttl, stale |-> flight[r].stale]
          PROVE  KeyInv'
      <3>1. flight[r].stale \in 0..Forever /\ flight[r].stale <= MaxDelay
        BY <1>b, <1>e, <2>1 DEF AnswersAreRecent, HasAnswer, Values
      <3>2. ttl \in Nat /\ ttl <= MaxTTL(v) /\ ttl \in 0..(NullTTL + TTL + MaxJitter) /\ MaxTTL(v) \in Nat
        BY <2>3, KeyCacheAssumption DEF MaxTTL
      <3>3. entry' \in [value : Values \cup {"none"}, ttl : 0..(NullTTL + TTL + MaxJitter), stale : 0..Forever]
        BY <2>1, <2>3, <3>1, <3>2
      <3>4. entry'.stale + entry'.ttl <= MaxTTL(entry'.value) + MaxDelay
        BY <2>3, <3>1, <3>2, KeyCacheAssumption
      <3> DEFINE f == [flight[r] EXCEPT !.stage = "unlock"]
      <3>5. f \in Flights /\ f.stage = "unlock" /\ (HasAnswer(f) <=> HasAnswer(flight[r]))
            /\ f.stale = flight[r].stale /\ f.held = flight[r].held
        BY <1>e DEF HasAnswer, Stages
      <3>6. flight' = [flight EXCEPT ![r] = f]
        BY <2>1 DEF FlightGoto
      <3> HIDE DEF f
      <3>7. \A x \in Replicas : flight'[x] = IF x = r THEN f ELSE flight[x]
        BY <1>a, <3>6
      <3>8. KeyTypeOK'
        BY <1>a, <2>1, <3>3, <3>5, <3>6 DEF KeyInv, KeyTypeOK
      <3>9. AnswersAreRecent'
        BY <1>b, <3>4, <3>5, <3>7 DEF AnswersAreRecent, HasAnswer
      <3>10. AnswerAge' /\ StoresRows' /\ GoneIsGone' /\ WaitersHaveFlight'
        BY <1>b, <1>e, <2>1, <3>5, <3>7, KeyCacheAssumption
           DEF AnswerAge, StoresRows, GoneIsGone, WaitersHaveFlight, HasAnswer
      <3> QED
        BY <3>8, <3>9, <3>10 DEF KeyInv
    <2> QED
      BY <1>9, <2>2, <2>3 DEF Store
  <1>10. ASSUME NEW r \in Replicas, Unlock(r) PROVE KeyInv'
    BY <1>10, <1>5, <1>a, <1>c DEF Unlock
  <1>11. ASSUME NEW r \in Replicas, Restart(r) PROVE KeyInv'
    BY <1>11, <1>4, <1>a DEF Restart
  <1>12. ASSUME WriteDatabase PROVE KeyInv'
    <2> DEFINE row == RowOf(key', user')
    <2>1. row \in Values
      BY RowOfType
    <2>2. /\ entry' = Compared(entry, row)
          /\ flight' = [r \in Replicas |-> Compared(flight[r], row)]
          /\ UNCHANGED <<lock, pc>>
          /\ key' \in KeyStatuses /\ user' \in UserStatuses
      BY <1>12 DEF WriteDatabase, KeyInv, KeyTypeOK
    <2> HIDE DEF row
    <2>3. entry \in [value : Values \cup {"none"}, ttl : 0..(NullTTL + TTL + MaxJitter), stale : 0..Forever]
      BY DEF KeyInv, KeyTypeOK
    <2>4. /\ entry' \in [value : Values \cup {"none"}, ttl : 0..(NullTTL + TTL + MaxJitter), stale : 0..Forever]
          /\ entry'.value = entry.value /\ entry'.ttl = entry.ttl
          /\ entry'.stale \in 0..Forever /\ entry'.stale <= entry.stale
          /\ entry = NoEntry => entry' = NoEntry
      BY <1>c, <2>1, <2>2, <2>3 DEF Compared, NoEntry, Values
    <2>5. \A r \in Replicas : /\ flight'[r] \in Flights
                              /\ flight'[r].value = flight[r].value
                              /\ flight'[r].stage = flight[r].stage
                              /\ flight'[r].held = flight[r].held
                              /\ flight'[r].stale <= flight[r].stale
                              /\ flight[r] = NoFlight => flight'[r] = NoFlight
      BY <1>c, <1>e, <2>1, <2>2 DEF Compared, NoFlight, Values
    <2>6. KeyTypeOK'
      BY <1>a, <2>2, <2>4, <2>5 DEF KeyTypeOK
    <2>7. MaxTTL(entry.value) \in Nat
      BY KeyCacheAssumption DEF MaxTTL
    <2>8. entry' # NoEntry => entry'.stale + entry'.ttl <= MaxTTL(entry'.value) + MaxDelay
      <3> SUFFICES ASSUME entry' # NoEntry
                   PROVE  entry'.stale + entry'.ttl <= MaxTTL(entry'.value) + MaxDelay
        OBVIOUS
      <3>1. entry.stale + entry.ttl <= MaxTTL(entry.value) + MaxDelay
        BY <1>b, <2>4 DEF AnswersAreRecent
      <3>2. entry.stale \in Nat /\ entry'.stale \in Nat /\ entry.ttl \in Nat /\ MaxDelay \in Nat
        BY <2>3, <2>4, KeyCacheAssumption DEF Forever
      <3> QED
        BY <2>4, <2>7, <3>1, <3>2
    <2>9. \A r \in Replicas : HasAnswer(flight'[r]) =>
             flight'[r].stale <= MaxDelay /\ flight'[r].stale <= flight'[r].held
      <3> SUFFICES ASSUME NEW r \in Replicas, HasAnswer(flight'[r])
                   PROVE  flight'[r].stale <= MaxDelay /\ flight'[r].stale <= flight'[r].held
        OBVIOUS
      <3>1. /\ flight[r].stale <= MaxDelay /\ flight[r].stale <= flight[r].held
            /\ flight'[r].stale <= flight[r].stale
            /\ flight[r].stale \in 0..Forever /\ flight'[r].stale \in 0..Forever
            /\ flight[r].held \in 0..MaxDelay /\ flight'[r].held = flight[r].held
        BY <1>b, <1>e, <2>5 DEF AnswersAreRecent, HasAnswer
      <3> QED
        BY <3>1, KeyCacheAssumption DEF Forever
    <2>10. AnswersAreRecent' /\ AnswerAge'
      BY <2>8, <2>9 DEF AnswersAreRecent, AnswerAge, HasAnswer
    <2>11. StoresRows' /\ GoneIsGone' /\ WaitersHaveFlight'
      BY <1>b, <2>2, <2>5, KeyCacheAssumption DEF StoresRows, GoneIsGone, WaitersHaveFlight
    <2> QED
      BY <2>6, <2>10, <2>11 DEF KeyInv
  <1>13. ASSUME Tick PROVE KeyInv'
    <2>1. /\ \A r \in Replicas : HasAnswer(flight[r]) => flight[r].held < MaxDelay
          /\ entry' = IF entry.ttl <= 1 THEN NoEntry
                      ELSE [entry EXCEPT !.ttl = @ - 1, !.stale = Older(entry.value, @)]
          /\ lock' = IF lock = 0 THEN 0 ELSE lock - 1
          /\ flight' = [r \in Replicas |->
                 IF HasAnswer(flight[r])
                 THEN [flight[r] EXCEPT !.held = @ + 1, !.stale = Older(flight[r].value, @)]
                 ELSE flight[r]]
          /\ UNCHANGED <<key, user, pc>>
      BY <1>13 DEF Tick
    <2>2. entry \in [value : Values \cup {"none"}, ttl : 0..(NullTTL + TTL + MaxJitter), stale : 0..Forever]
      BY DEF KeyInv, KeyTypeOK
    <2>3. /\ Older(entry.value, entry.stale) \in 0..Forever
          /\ Older(entry.value, entry.stale) \in Nat
          /\ Older(entry.value, entry.stale) <= entry.stale + 1
      BY <2>2, OlderFacts
    <2>4. lock' \in 0..LockTTL
      <3>1. lock' = IF lock = 0 THEN 0 ELSE lock - 1
        BY <2>1
      <3> QED
        BY <1>a, <3>1, KeyCacheAssumption
    <2> DEFINE Entries == [value : Values \cup {"none"}, ttl : 0..(NullTTL + TTL + MaxJitter), stale : 0..Forever]
               Recent == entry' # NoEntry => entry'.stale + entry'.ttl <= MaxTTL(entry'.value) + MaxDelay
    <2>5. ASSUME entry.ttl <= 1 PROVE entry' \in Entries /\ Recent
      <3>1. entry' = NoEntry
        BY <2>1, <2>5
      <3>2. NoEntry \in [value : Values \cup {"none"}, ttl : 0..(NullTTL + TTL + MaxJitter), stale : 0..Forever]
        BY <1>c, KeyCacheAssumption DEF NoEntry
      <3> QED
        BY <3>1, <3>2
    <2>6. ASSUME ~(entry.ttl <= 1) PROVE entry' \in Entries /\ Recent
      <3>1. /\ entry' = [entry EXCEPT !.ttl = @ - 1, !.stale = Older(entry.value, @)]
            /\ entry.ttl \in 0..(NullTTL + TTL + MaxJitter) /\ entry.value \in Values \cup {"none"}
            /\ entry.stale \in 0..Forever
        BY <2>1, <2>2, <2>6
      <3>2. entry.ttl - 1 \in 0..(NullTTL + TTL + MaxJitter) /\ entry.ttl \in Nat /\ entry.stale \in Nat
        BY <2>6, <3>1, KeyCacheAssumption DEF Forever
      <3>3. /\ entry'.ttl = entry.ttl - 1 /\ entry'.value = entry.value
            /\ entry'.stale = Older(entry.value, entry.stale)
            /\ entry' \in [value : Values \cup {"none"}, ttl : 0..(NullTTL + TTL + MaxJitter), stale : 0..Forever]
        BY <2>2, <2>3, <3>1, <3>2
      <3>4. entry # NoEntry
        BY <2>6, <3>2 DEF NoEntry
      <3>5. MaxTTL(entry.value) \in Nat
        BY KeyCacheAssumption DEF MaxTTL
      <3>6. entry'.stale + entry'.ttl <= MaxTTL(entry'.value) + MaxDelay
        BY <1>b, <2>3, <3>2, <3>3, <3>4, <3>5, KeyCacheAssumption DEF AnswersAreRecent
      <3> QED
        BY <3>3, <3>6
    <2>7. /\ entry' \in [value : Values \cup {"none"}, ttl : 0..(NullTTL + TTL + MaxJitter), stale : 0..Forever]
          /\ entry' # NoEntry => entry'.stale + entry'.ttl <= MaxTTL(entry'.value) + MaxDelay
      BY <2>5, <2>6
    <2>8. ASSUME NEW r \in Replicas
          PROVE  /\ flight'[r] \in Flights
                 /\ flight'[r].value = flight[r].value /\ flight'[r].stage = flight[r].stage
                 /\ HasAnswer(flight'[r]) => flight'[r].stale <= flight'[r].held /\ flight'[r].stale <= MaxDelay
                 /\ flight[r] = NoFlight => flight'[r] = NoFlight
      <3>1. CASE ~HasAnswer(flight[r])
        BY <1>e, <2>1, <3>1
      <3>2. CASE HasAnswer(flight[r])
        <4> DEFINE age == Older(flight[r].value, flight[r].stale)
        <4>1. /\ flight[r] \in Flights /\ flight[r].held \in 0..MaxDelay /\ flight[r].held < MaxDelay
              /\ flight[r].stale \in 0..Forever /\ flight[r].stale <= flight[r].held
          BY <1>e, <2>1, <3>2
        <4>2. age \in 0..Forever /\ age \in Nat /\ age <= flight[r].stale + 1
          BY <4>1, OlderFacts
        <4>3. flight'[r] = [flight[r] EXCEPT !.held = @ + 1, !.stale = age]
          BY <2>1, <3>2
        <4> HIDE DEF age
        <4>4. flight[r].held + 1 \in 0..MaxDelay /\ age <= flight[r].held + 1 /\ age <= MaxDelay
          BY <4>1, <4>2, KeyCacheAssumption DEF Forever
        <4>5. /\ flight'[r] \in Flights /\ flight'[r].value = flight[r].value
              /\ flight'[r].stage = flight[r].stage /\ flight'[r].stale = age
              /\ flight'[r].held = flight[r].held + 1
          BY <4>1, <4>2, <4>3, <4>4
        <4>6. flight[r] # NoFlight
          BY <1>d, <3>2
        <4> QED
          BY <4>4, <4>5, <4>6
      <3> QED
        BY <3>1, <3>2
    <2>9. flight' \in [Replicas -> Flights]
      BY <2>1, <2>8
    <2>10. KeyTypeOK'
      BY <1>a, <2>1, <2>4, <2>7, <2>9 DEF KeyInv, KeyTypeOK
    <2>11. AnswersAreRecent' /\ AnswerAge'
      BY <2>7, <2>8 DEF AnswersAreRecent, AnswerAge, HasAnswer
    <2>12. StoresRows' /\ GoneIsGone' /\ WaitersHaveFlight'
      <3>1. \A r \in Replicas : /\ flight'[r].value = flight[r].value /\ flight'[r].stage = flight[r].stage
                                /\ flight[r] = NoFlight => flight'[r] = NoFlight
        BY <2>8
      <3>2. pc' = pc /\ \A c \in Callers : Home[c] \in Replicas
        BY <2>1, KeyCacheAssumption
      <3> QED
        BY <1>b, <3>1, <3>2 DEF StoresRows, GoneIsGone, WaitersHaveFlight
    <2> QED
      BY <2>10, <2>11, <2>12 DEF KeyInv
  <1>14. ASSUME UNCHANGED keyVars PROVE KeyInv'
    BY <1>14 DEF keyVars, KeyInv, KeyTypeOK, AnswersAreRecent, AnswerAge, StoresRows,
                 GoneIsGone, WaitersHaveFlight, HasAnswer
  <1> QED
    BY <1>1, <1>2, <1>6, <1>7, <1>8, <1>9, <1>10, <1>11, <1>12, <1>13, <1>14
       DEF KeyNext, FlightStep

----------------------------------------------------------------------------
(* The theorems *)

\* The inductive invariant holds in every reachable state.
THEOREM KeyInvariance == KeySpec => []KeyInv
  <1>1. KeyInit => KeyInv
    <2> SUFFICES ASSUME KeyInit PROVE KeyInv
      OBVIOUS
    <2>1. 0 \in 0..Forever /\ 0 \in 0..MaxDelay /\ 0 \in 0..LockTTL /\ 0 \in 0..(NullTTL + TTL + MaxJitter)
      BY KeyCacheAssumption DEF Forever
    <2>2. KeyTypeOK
      BY <2>1 DEF KeyInit, KeyTypeOK, NoEntry, NoFlight
    <2>3. \A r \in Replicas : flight[r] = NoFlight
      BY DEF KeyInit
    <2>4. AnswersAreRecent /\ AnswerAge /\ StoresRows /\ GoneIsGone
      BY <2>3 DEF KeyInit, AnswersAreRecent, AnswerAge, StoresRows, GoneIsGone, HasAnswer, NoFlight
    <2>5. WaitersHaveFlight
      BY DEF KeyInit, WaitersHaveFlight
    <2> QED
      BY <2>2, <2>4, <2>5 DEF KeyInv
  <1> QED
    BY <1>1, NextPreservesKeyInv, PTL DEF KeySpec

\* The state of the cache, its lock and its calls is well formed.
THEOREM KeyTypeCorrect == KeySpec => []KeyTypeOK
  BY KeyInvariance, PTL DEF KeyInv

\* cache.go:47-92: whatever a lookup can be answered with was the database's
\* answer within the life of a cache entry and the delay of one call.
THEOREM AnswersStayRecent == KeySpec => []AnswersAreRecent
  BY KeyInvariance, PTL DEF KeyInv

\* cache.go:56-84: every caller that waits has a call to wait for, also after
\* another caller of its replica, the lock's holder or a replica has died.
THEOREM NobodyIsStranded == KeySpec => []WaitersHaveFlight
  BY KeyInvariance, PTL DEF KeyInv
============================================================================
