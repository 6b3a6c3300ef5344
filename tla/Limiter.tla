------------------------------ MODULE Limiter ------------------------------
(***************************************************************************)
(* pkg/limiter and lua/rate_limit_prededuct.lua: the sliding-window rate   *)
(* limit and the token quota that all gateway replicas share in Redis.     *)
(*                                                                         *)
(* PreDeduct is three steps, between which other replicas run: SETNX of    *)
(* the first balance, reading the clock, and the Lua script, which Redis   *)
(* runs as one command.  SettleQuota is one INCRBY or DECRBY.  Any command *)
(* may fail before Redis has run it or lose its reply afterwards, a        *)
(* command whose reply is lost may be sent again by the client library     *)
(* (go-redis retries by default), a replica may crash with tokens frozen,  *)
(* and Redis, which k8s/redis runs without a volume, may lose everything.  *)
(***************************************************************************)
EXTENDS Integers, Sequences, FiniteSets, Functions

CONSTANTS
    Users,
    Requests,           \* each element is one request of one user
    Limit,              \* Config.Limit: requests per window
    Window,             \* Config.Window, in ticks
    Expiry,             \* the window key's EXPIRE: Window rounded up to seconds
    Bucket,             \* ticks that tostring(now) cannot tell apart: Lua prints a
                        \* number with 14 digits, which leaves 100 microseconds
    MaxJitter,          \* bound on seq % 1000 and on the replicas' clock skew
    DefaultBalance,     \* Config.DefaultBalance
    Estimates,          \* token estimates PreDeduct is called with
    Actuals,            \* token usages SettleQuota is called with; a provider's
                        \* record is not checked, so they may be negative
    Missing,            \* the value of a Redis key that does not exist
    MaxTime,            \* bound on the clock
    MaxLosses           \* bound on Redis restarts, and on commands sent again

ASSUME LimiterAssumption ==
    /\ IsFiniteSet(Requests)            \* so that what they have taken has a sum
    /\ Limit \in Nat \ {0}
    /\ Window \in Nat \ {0}
    /\ Expiry \in Nat /\ Expiry >= Window
    /\ Bucket \in Nat \ {0}
    /\ MaxJitter \in Nat
    /\ DefaultBalance \in Nat
    /\ Estimates \subseteq Nat \ {0}    \* estimateTokens never returns less than 1
    /\ Actuals \subseteq Int
    /\ Missing \notin Int
    /\ MaxTime \in Nat
    /\ MaxLosses \in Nat

VARIABLES
    \* Redis
    zset,               \* zset[u]: the window key, a set of [at, nth, score]; <<at, nth>>
                        \* is the member's name
    expireAt,           \* expireAt[u]: when the window key expires
    bal,                \* bal[u]: the balance key, or Missing
    \* the requests
    pc,                 \* pc[r]: where r is in PreDeduct, the upstream call and Settle
    user,               \* user[r]
    est,                \* est[r]: preDeductedTokens
    now,                \* now[r]: the time stamp r sends to the script
    \* the environment
    time,
    losses,
    \* history
    net,                \* net[r]: tokens r's commands have taken from its balance
    act,                \* act[r]: tokens r's settlement charges
    fault,              \* fault[r]: r lost a command, a reply or its replica
    log,                \* log[u]: the time stamps the script admitted for u, in order
    short               \* short[u]: tokens settlements have charged beyond estimates

redisVars   == <<zset, expireAt, bal>>
requestVars == <<pc, user, est, now>>
historyVars == <<net, act, fault, log, short>>
vars == <<redisVars, requestVars, time, losses, historyVars>>

Stages == {"idle", "seed", "clock", "script", "held", "settle",
           "rate", "poor", "error", "done", "crashed"}

TypeOK ==
    /\ zset \in [Users -> SUBSET [at : Nat, nth : Nat, score : Nat]]
    /\ \A u \in Users : IsFiniteSet(zset[u])
    /\ expireAt \in [Users -> Nat]
    /\ bal \in [Users -> Int \cup {Missing}]
    /\ pc \in [Requests -> Stages]
    /\ user \in [Requests -> Users]
    /\ est \in [Requests -> Nat]
    /\ now \in [Requests -> Nat]
    /\ time \in Nat
    /\ losses \in Nat
    /\ net \in [Requests -> Int]
    /\ act \in [Requests -> Nat]
    /\ fault \in [Requests -> BOOLEAN]
    /\ log \in [Users -> Seq(Nat)]
    /\ short \in [Users -> Nat]

Init ==
    /\ zset = [u \in Users |-> {}]
    /\ expireAt = [u \in Users |-> 0]
    /\ bal = [u \in Users |-> Missing]
    /\ pc = [r \in Requests |-> "idle"]
    /\ user \in [Requests -> Users]
    /\ est = [r \in Requests |-> 0]
    /\ now = [r \in Requests |-> 0]
    /\ time = 0
    /\ losses = 0
    /\ net = [r \in Requests |-> 0]
    /\ act = [r \in Requests |-> 0]
    /\ fault = [r \in Requests |-> FALSE]
    /\ log = [u \in Users |-> <<>>]
    /\ short = [u \in Users |-> 0]

Goto(r, stage) == pc' = [pc EXCEPT ![r] = stage]

\* Mutant of IncrBy: the balance is set to the difference.
MutantIncrBy(b, d) == d

\* INCRBY (DECRBY with d < 0) takes a missing key for 0.
IncrBy(b, d) == IF b = Missing THEN d ELSE b + d

----------------------------------------------------------------------------
(* Mutants *)

\* The script compares the balance before the estimate is known to fit.
MutantPoor(u, r) == bal[u] = Missing \/ bal[u] < 1

\* The window keeps what it should evict.
MutantLive(u, t) == zset[u]

\* PreDeduct passes the script's own status word on.
MutantVerdict(r) == IF MutantPoor(user[r], r) THEN "INSUFFICIENT_BALANCE" ELSE "held"

\* The settlement's difference has the wrong sign.
MutantDiffSwapped(r, a) == a - est[r]

\* The settlement forgets that usage may exceed the estimate.
MutantDiff(r, a) == IF a > est[r] THEN 0 ELSE est[r] - a

----------------------------------------------------------------------------
(* PreDeduct *)

Arrive(r, n) ==
    /\ pc[r] = "idle"
    /\ Goto(r, "seed")
    /\ est' = [est EXCEPT ![r] = n]
    /\ UNCHANGED <<redisVars, user, now, time, losses, historyVars>>

Seeded(u) ==
    IF DefaultBalance > 0 /\ bal[u] = Missing
    THEN [bal EXCEPT ![u] = DefaultBalance] ELSE bal

\* SETNX of the user's first balance.
Seed(r) ==
    /\ pc[r] = "seed"
    /\ bal' = Seeded(user[r])
    /\ Goto(r, "clock")
    /\ UNCHANGED <<zset, expireAt, user, est, now, time, losses, historyVars>>

\* The SETNX fails, before or after Redis has run it.
SeedFails(r) ==
    /\ pc[r] = "seed"
    /\ DefaultBalance > 0
    /\ bal' \in {bal, Seeded(user[r])}
    /\ Goto(r, "error")
    /\ UNCHANGED <<zset, expireAt, user, est, now, time, losses, historyVars>>

\* now_us, plus seq % 1000.
ReadClock(r) ==
    /\ pc[r] = "clock"
    /\ \E j \in 0..MaxJitter : now' = [now EXCEPT ![r] = time + j]
    /\ Goto(r, "script")
    /\ UNCHANGED <<redisVars, user, est, time, losses, historyVars>>

\* The entries that survive ZREMRANGEBYSCORE -inf (now - window).
Live(u, t) == {z \in zset[u] : z.score > t - Window}

Poor(u, r) == bal[u] = Missing \/ bal[u] < est[r]

\* What the script answers; it evicts before it looks at anything else.
Verdict(r) ==
    IF Cardinality(Live(user[r], now[r])) >= Limit THEN "rate"
    ELSE IF Poor(user[r], r) THEN "poor"
    ELSE "held"

\* tostring(now): %.14g rounds to the nearest multiple of Bucket.
Rounded(t) == (2 * t + Bucket) \div (2 * Bucket)

\* The entries that have the name of the member the script adds.
SameName(u, t) ==
    {z \in Live(u, t) : z.at = Rounded(t) /\ z.nth = Cardinality(Live(u, t)) + 1}

\* ZADD of a member named after now and count+1: a member of that name gets
\* the new score.
Added(u, t) ==
    (Live(u, t) \ SameName(u, t))
    \cup {[at |-> Rounded(t), nth |-> Cardinality(Live(u, t)) + 1, score |-> t]}

\* The Lua script's effect on Redis and on the history.
Script(r) ==
    LET u == user[r] IN
    IF Verdict(r) = "held"
    THEN /\ bal' = [bal EXCEPT ![u] = @ - est[r]]
         /\ zset' = [zset EXCEPT ![u] = Added(u, now[r])]
         /\ expireAt' = [expireAt EXCEPT ![u] = time + Expiry]
         /\ net' = [net EXCEPT ![r] = @ + est[r]]
         /\ log' = [log EXCEPT ![u] = Append(@, now[r])]
    ELSE /\ zset' = [zset EXCEPT ![u] = Live(u, now[r])]
         /\ UNCHANGED <<bal, expireAt, net, log>>

RunScript(r) ==
    /\ pc[r] = "script"
    /\ Script(r)
    /\ Goto(r, Verdict(r))
    /\ UNCHANGED <<user, est, now, time, losses, act, fault, short>>

\* The script fails before Redis has run it, or its reply is lost: PreDeduct
\* returns an error and the gateway answers 503 without a settlement.
ScriptFails(r) ==
    /\ pc[r] = "script"
    /\ Script(r) \/ UNCHANGED <<redisVars, net, log>>
    /\ Goto(r, "error")
    /\ fault' = [fault EXCEPT ![r] = TRUE]
    /\ UNCHANGED <<user, est, now, time, losses, act, short>>

\* The reply is lost and the client library sends the script once more.
ScriptAgain(r) ==
    /\ pc[r] = "script"
    /\ losses < MaxLosses
    /\ losses' = losses + 1
    /\ Script(r)
    /\ fault' = [fault EXCEPT ![r] = TRUE]
    /\ UNCHANGED <<requestVars, time, act, short>>

----------------------------------------------------------------------------
(* SettleQuota *)

\* A negative usage is charged as none.
Charged(a) == IF a < 0 THEN 0 ELSE a

\* The upstream call is over and SettleQuota is called with its usage.
Used(r, a) ==
    /\ pc[r] = "held"
    /\ Goto(r, "settle")
    /\ act' = [act EXCEPT ![r] = Charged(a)]
    /\ UNCHANGED <<redisVars, user, est, now, time, losses, net, fault, log, short>>

Diff(r, a) == est[r] - a

\* INCRBY when positive, DECRBY when negative, no command when nothing is due.
Settlement(r) ==
    LET u == user[r]
        d == Diff(r, act[r])
    IN  /\ bal' = IF d = 0 THEN bal ELSE [bal EXCEPT ![u] = IncrBy(@, d)]
        /\ net' = [net EXCEPT ![r] = @ - d]
        /\ short' = [short EXCEPT ![u] = IF act[r] > est[r] THEN @ + act[r] - est[r] ELSE @]

Settle(r) ==
    /\ pc[r] = "settle"
    /\ Settlement(r)
    /\ Goto(r, "done")
    /\ UNCHANGED <<zset, expireAt, user, est, now, time, losses, act, fault, log>>

\* The command does not reach Redis: the error is logged and nothing retries.
\* (A reply lost after the command is the same as Settle: only the log differs.)
SettleFails(r) ==
    /\ pc[r] = "settle"
    /\ est[r] # act[r]
    /\ Goto(r, "done")
    /\ fault' = [fault EXCEPT ![r] = TRUE]
    /\ UNCHANGED <<redisVars, user, est, now, time, losses, net, act, log, short>>

\* The reply is lost and the client library sends the command once more.
SettleAgain(r) ==
    /\ pc[r] = "settle"
    /\ est[r] # act[r]
    /\ losses < MaxLosses
    /\ losses' = losses + 1
    /\ Settlement(r)
    /\ fault' = [fault EXCEPT ![r] = TRUE]
    /\ UNCHANGED <<zset, expireAt, requestVars, time, act, log>>

----------------------------------------------------------------------------
(* The environment *)

\* The replica that serves r dies; nothing remembers the reservation.
Crash(r) ==
    /\ pc[r] \in {"seed", "clock", "script", "held", "settle"}
    /\ Goto(r, "crashed")
    /\ fault' = [fault EXCEPT ![r] = TRUE]
    /\ UNCHANGED <<redisVars, user, est, now, time, losses, net, act, log, short>>

\* Redis restarts empty.
RedisRestart ==
    /\ losses < MaxLosses
    /\ losses' = losses + 1
    /\ bal' = [u \in Users |-> Missing]
    /\ zset' = [u \in Users |-> {}]
    /\ UNCHANGED <<expireAt, requestVars, time, historyVars>>

Tick ==
    /\ time < MaxTime
    /\ time' = time + 1
    /\ zset' = [u \in Users |-> IF time' >= expireAt[u] THEN {} ELSE zset[u]]
    /\ UNCHANGED <<expireAt, bal, requestVars, losses, historyVars>>

Step(r) ==
    \/ \E n \in Estimates : Arrive(r, n)
    \/ Seed(r) \/ SeedFails(r)
    \/ ReadClock(r)
    \/ RunScript(r) \/ ScriptFails(r) \/ ScriptAgain(r)
    \/ \E a \in Actuals : Used(r, a)
    \/ Settle(r) \/ SettleFails(r) \/ SettleAgain(r)
    \/ Crash(r)

Next == (\E r \in Requests : Step(r)) \/ RedisRestart \/ Tick

Spec == Init /\ [][Next]_vars

----------------------------------------------------------------------------
(* Properties *)

\* limiter.go:71-144: what a request's commands have taken from its user's
\* balance is, when nothing was lost, its frozen estimate while it runs, the
\* upstream's usage once it is settled, and nothing when it was refused,
\* however the replicas' commands interleave.
TakenMatchesStage ==
    \A r \in Requests :
        ~fault[r] =>
            net[r] = CASE pc[r] \in {"held", "settle"} -> est[r]
                       [] pc[r] = "done"               -> act[r]
                       [] OTHER                        -> 0

\* limiter.go:89-144: the price of having no reservation ledger.  Unless a
\* command was sent twice, a request that lost a command, a reply or its
\* replica has taken nothing, its whole estimate or exactly its usage.
LossIsBounded ==
    \A r \in Requests :
        losses = 0 => net[r] \in {0, est[r], act[r]}

\* lua:30-40 with limiter.go:128-139: concurrent requests never spend the same
\* tokens twice.  A balance is below zero at most by what settlements charged
\* beyond their estimates.
NoOverdraft ==
    \A u \in Users : bal[u] # Missing => bal[u] + short[u] >= 0

\* What the requests of u have taken, together.
Taken(u) == SumFunctionOnSet(net, {r \in Requests : user[r] = u})

\* limiter.go:71-144 with the script: while Redis keeps its data and no command
\* is sent twice, no token appears or disappears: the balance and what the
\* user's requests have taken from it always add up to the first balance.
Conserved ==
    \A u \in Users :
        losses = 0 /\ bal[u] # Missing => bal[u] + Taken(u) = DefaultBalance

\* lua:23-28: a request is turned away for its rate only if the script has
\* admitted Limit time stamps of its user that are younger than the window
\* before its own, in whatever order the replicas' scripts ran.
RefusalJustified ==
    [][\A r \in Requests :
         pc[r] = "script" /\ pc'[r] = "rate" =>
            Cardinality({i \in DOMAIN log[user[r]] :
                log[user[r]][i] > now[r] - Window}) >= Limit]_vars
============================================================================
