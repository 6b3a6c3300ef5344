------------------------------ MODULE KeyCache ------------------------------
(***************************************************************************)
(* internal/store/cache.go, internal/auth: lookups of one API key by the   *)
(* callers of several replicas, which share the database and Redis.        *)
(* Within a replica singleflight lets one caller's lookup serve all; its   *)
(* steps are calls of Redis and of the database, each of which may fail    *)
(* (an outage, or the end of the context of the caller that started it).   *)
(* Time passes in ticks; a copy of the row carries the time since the      *)
(* database last agreed with it.  What a caller is told is that copy: the  *)
(* entry in Redis, or the answer its replica's call has in hand.           *)
(***************************************************************************)
EXTENDS Integers, FiniteSets

CONSTANTS
    Replicas,
    Callers,
    Home,               \* Home[c]: the replica of caller c
    KeyStatuses,        \* what the key's row may say; "none": there is no row
    UserStatuses,       \* the same of its user's row
    NullTTL,            \* life of a cached "no such key"
    TTL,                \* life of a cached record, without jitter
    MaxJitter,          \* the most that jitteredTTL adds
    LockTTL,            \* life of the lookup lock
    MaxDelay            \* bound: ticks between a flight's answer and its end

Values == {"null", "disabled", "active"}
MaxTTL(v) == IF v = "null" THEN NullTTL ELSE TTL + MaxJitter

\* Staleness is counted up to here.
Forever == NullTTL + TTL + MaxJitter + MaxDelay + 1

ASSUME KeyCacheAssumption ==
    /\ Home \in [Callers -> Replicas]
    /\ NullTTL \in Nat \ {0} /\ TTL \in Nat \ {0} /\ LockTTL \in Nat \ {0}
    /\ MaxJitter \in Nat /\ MaxDelay \in Nat

VARIABLES
    key,                \* the key's row: its status, or "none"
    user,               \* the status of the row of its user, or "none"
    entry,              \* the value under rkey, its remaining life, its staleness
    lock,               \* the remaining life of rkey:lock, 0 when there is none
    flight,             \* flight[r]: the call in r's singleflight group
    pc                  \* pc[c]: where c's LookupKey is

keyVars == <<key, user, entry, lock, flight, pc>>

NoEntry == [value |-> "none", ttl |-> 0, stale |-> 0]
NoFlight == [stage |-> "none", value |-> "none", stale |-> 0, held |-> 0]

Stages == {"recheck", "lock", "sleep", "query", "store", "unlock"}

KeyTypeOK ==
    /\ key \in KeyStatuses
    /\ user \in UserStatuses
    /\ entry \in [value : Values \cup {"none"}, ttl : 0..(NullTTL + TTL + MaxJitter),
                  stale : 0..Forever]
    /\ lock \in 0..LockTTL
    /\ flight \in [Replicas -> [stage : Stages \cup {"none"},
                                value : Values \cup {"none", "error"},
                                stale : 0..Forever, held : 0..MaxDelay]]
    /\ pc \in [Callers -> {"idle", "join", "wait"}]

KeyInit ==
    /\ key \in KeyStatuses
    /\ user \in UserStatuses
    /\ entry = NoEntry
    /\ lock = 0
    /\ flight = [r \in Replicas |-> NoFlight]
    /\ pc = [c \in Callers |-> "idle"]

\* MySQL.LookupKey: a LEFT JOIN, so a key whose user has no row, or one without a
\* status, is judged by its own.
RowOf(k, u) ==
    IF k = "none" THEN "null"
    ELSE IF k # "active" \/ u \notin {"none", "", "active"} THEN "disabled"
    ELSE "active"

----------------------------------------------------------------------------
(* One caller *)

Goto(c, place) == pc' = [pc EXCEPT ![c] = place]

\* The first fromRedis.  A hit answers the caller and changes nothing; a miss or
\* a failure goes on.
LookupKey(c) ==
    /\ pc[c] = "idle"
    /\ Goto(c, "join")
    /\ UNCHANGED <<key, user, entry, lock, flight>>

\* group.Do: start a call, or wait for the one that is under way.
Join(c) ==
    /\ pc[c] = "join"
    /\ Goto(c, "wait")
    /\ flight' = [flight EXCEPT ![Home[c]] =
                      IF @ = NoFlight THEN [NoFlight EXCEPT !.stage = "recheck"] ELSE @]
    /\ UNCHANGED <<key, user, entry, lock>>

----------------------------------------------------------------------------
(* The shared call of one replica *)

FlightGoto(r, stage) == flight' = [flight EXCEPT ![r].stage = stage]

\* Mutant of AnswerAll: only one of the callers learns the answer.
MutantAnswerAll(r) ==
    /\ \E c \in Callers : Home[c] = r /\ pc[c] = "wait" /\ Goto(c, "idle")
    /\ flight' = [flight EXCEPT ![r] = NoFlight]

\* The call returns: its value, or its error, goes to every caller that waits.
AnswerAll(r) ==
    /\ pc' = [c \in Callers |-> IF Home[c] = r /\ pc[c] = "wait" THEN "idle" ELSE pc[c]]
    /\ flight' = [flight EXCEPT ![r] = NoFlight]

\* fromRedis inside the call, before the lock and after the sleep.
Recheck(r) ==
    /\ flight[r].stage \in {"recheck", "sleep"}
    /\ \/ entry # NoEntry /\ AnswerAll(r)
       \/ /\ FlightGoto(r, IF flight[r].stage = "recheck" THEN "lock" ELSE "query")
          /\ UNCHANGED pc
    /\ UNCHANGED <<key, user, entry, lock>>

\* Mutant of TryLock: a lock that is held gets another life.
MutantTryLock(r) ==
    /\ flight[r].stage = "lock"
    /\ lock' = lock + LockTTL
    /\ FlightGoto(r, IF lock = 0 THEN "query" ELSE "sleep")
    /\ UNCHANGED <<key, user, entry, pc>>

\* SETNX; an error counts as a lock that was taken.
TryLock(r) ==
    /\ flight[r].stage = "lock"
    /\ \/ lock = 0 /\ lock' = LockTTL /\ FlightGoto(r, "query")
       \/ lock > 0 /\ FlightGoto(r, "sleep") /\ UNCHANGED lock
       \/ FlightGoto(r, "query") /\ UNCHANGED lock
    /\ UNCHANGED <<key, user, entry, pc>>

\* Mutant of Query: every error of the database is taken for a missing row.
MutantQuery(r) ==
    /\ flight[r].stage = "query"
    /\ flight' = [flight EXCEPT ![r] = [stage |-> "store", value |-> "null",
                      stale |-> IF RowOf(key, user) = "null" THEN 0 ELSE Forever, held |-> 0]]
    /\ UNCHANGED <<key, user, entry, lock, pc>>

\* inner.LookupKey.  A failure is not cached.
Query(r) ==
    /\ flight[r].stage = "query"
    /\ flight' = [flight EXCEPT ![r] =
           [stage |-> "store", value |-> RowOf(key, user), stale |-> 0, held |-> 0]]
       \/ flight' = [flight EXCEPT ![r] =
           [stage |-> "unlock", value |-> "error", stale |-> 0, held |-> 0]]
    /\ UNCHANGED <<key, user, entry, lock, pc>>

\* SET with the sentinel's or the record's life; it may fail.
Store(r) ==
    LET v == flight[r].value IN
    /\ flight[r].stage = "store"
    /\ \/ \E ttl \in (IF v = "null" THEN {NullTTL} ELSE TTL..(TTL + MaxJitter)) :
              entry' = [value |-> v, ttl |-> ttl, stale |-> flight[r].stale]
       \/ UNCHANGED entry
    /\ FlightGoto(r, "unlock")
    /\ UNCHANGED <<key, user, lock, pc>>

\* DEL of the lock, whoever holds it; it may fail.
Unlock(r) ==
    /\ flight[r].stage = "unlock"
    /\ lock' = 0 \/ UNCHANGED lock
    /\ AnswerAll(r)
    /\ UNCHANGED <<key, user, entry>>

FlightStep(r) ==
    Recheck(r) \/ TryLock(r) \/ Query(r) \/ Store(r) \/ Unlock(r)

----------------------------------------------------------------------------
(* The environment *)

\* A copy that agrees with the database is not stale.
Compared(copy, row) == [copy EXCEPT !.stale = IF copy.value = row THEN 0 ELSE @]

\* An operator creates, revokes, restores or deletes the key, or its user.
WriteDatabase ==
    /\ \/ key' \in KeyStatuses \ {key} /\ UNCHANGED user
       \/ user' \in UserStatuses \ {user} /\ UNCHANGED key
    /\ entry' = Compared(entry, RowOf(key', user'))
    /\ flight' = [r \in Replicas |-> Compared(flight[r], RowOf(key', user'))]
    /\ UNCHANGED <<lock, pc>>

\* The staleness of a copy of value v after a tick.
Older(v, stale) ==
    IF v \notin Values \/ v = RowOf(key, user) \/ stale = Forever THEN stale ELSE stale + 1

HasAnswer(f) == f.value # "none"

Tick ==
    /\ \A r \in Replicas : HasAnswer(flight[r]) => flight[r].held < MaxDelay
    /\ entry' = IF entry.ttl <= 1 THEN NoEntry
                ELSE [entry EXCEPT !.ttl = @ - 1, !.stale = Older(entry.value, @)]
    /\ lock' = IF lock = 0 THEN 0 ELSE lock - 1
    /\ flight' = [r \in Replicas |->
           IF HasAnswer(flight[r])
           THEN [flight[r] EXCEPT !.held = @ + 1, !.stale = Older(flight[r].value, @)]
           ELSE flight[r]]
    /\ UNCHANGED <<key, user, pc>>

\* A replica dies and comes back: its callers are gone, its lock stays.
Restart(r) ==
    /\ flight' = [flight EXCEPT ![r] = NoFlight]
    /\ pc' = [c \in Callers |-> IF Home[c] = r THEN "idle" ELSE pc[c]]
    /\ UNCHANGED <<key, user, entry, lock>>

KeyNext ==
    \/ \E c \in Callers : LookupKey(c) \/ Join(c)
    \/ \E r \in Replicas : FlightStep(r) \/ Restart(r)
    \/ WriteDatabase \/ Tick

KeySpec == KeyInit /\ [][KeyNext]_keyVars

\* Callers run, and Redis and the database answer or fail.
KeyFairness ==
    /\ \A c \in Callers : WF_keyVars(Join(c))
    /\ \A r \in Replicas : WF_keyVars(FlightStep(r))

KeyFairSpec == KeySpec /\ KeyFairness

----------------------------------------------------------------------------
(* Properties *)

\* cache.go:47-92: whatever expires, fails or is answered late, and however
\* replicas overwrite each other's entries, all that a lookup can be answered
\* with was the database's answer within the life of a cache entry and the delay
\* of one call: a revoked key is not accepted longer, a new one not refused
\* longer, and a failure never becomes a refusal.
AnswersAreRecent ==
    /\ entry # NoEntry => entry.stale + entry.ttl <= MaxTTL(entry.value) + MaxDelay
    /\ \A r \in Replicas : HasAnswer(flight[r]) => flight[r].stale <= MaxDelay

\* cache.go:56-84: every lookup returns, whoever holds the lock, and also if the
\* replica that holds it has died.
EveryLookupReturns == \A c \in Callers : pc[c] = "join" ~> pc[c] = "idle"
============================================================================
