--------------------------- MODULE LimiterProofs ---------------------------
(***************************************************************************)
(* The accounting and the window of module Limiter, proved for any number  *)
(* of users, requests, replicas' commands, losses and restarts: what each  *)
(* request has taken, that no token appears or disappears, and how many    *)
(* requests a window admits and why it refuses one.                        *)
(*                                                                         *)
(* The script's effect and the settlement's are each used by several       *)
(* actions (a run, a lost reply, a resend), so what they do to the Redis   *)
(* state and to the balances is stated once, as lemmas about those parts.  *)
(***************************************************************************)
EXTENDS Limiter, FiniteSums

\* What LossIsBounded needs by induction: as long as no command has been sent
\* twice, what a request has taken is known at each of its stages.
TakenAtStage ==
    losses = 0 =>
        \A r \in Requests :
            /\ pc[r] \in {"idle", "seed", "clock", "script", "rate", "poor"} => net[r] = 0
            /\ pc[r] \in {"held", "settle"} => net[r] = est[r]
            /\ pc[r] \in {"error", "crashed"} => net[r] \in {0, est[r]}
            /\ pc[r] = "done" => net[r] \in {est[r], act[r]}

----------------------------------------------------------------------------
(* The operators *)

\* lua:42-43: the rounded time stamp of a member's name is a natural number.
LEMMA RoundedType == \A t \in Nat : Rounded(t) \in Nat
  <1> SUFFICES ASSUME NEW t \in Nat PROVE Rounded(t) \in Nat
    OBVIOUS
  <1>1. 2 * t + Bucket \in Nat /\ 2 * Bucket \in Nat \ {0}
    BY LimiterAssumption
  <1>2. \A x \in Nat, y \in Nat \ {0} : x \div y \in Nat
    BY SMT
  <1> QED
    BY <1>1, <1>2 DEF Rounded

\* The entries of one window key, and the type of the Redis state.
Entries == [at : Nat, nth : Nat, score : Nat]

RedisOK ==
    /\ zset \in [Users -> SUBSET Entries]
    /\ \A u \in Users : IsFiniteSet(zset[u])
    /\ expireAt \in [Users -> Nat]
    /\ bal \in [Users -> Int \cup {Missing}]

\* lua:23-28: evicting leaves a finite window.
LEMMA LiveType ==
    ASSUME TypeOK, NEW u \in Users, NEW t \in Nat
    PROVE  /\ Live(u, t) \in SUBSET Entries
           /\ IsFiniteSet(Live(u, t))
  <1>1. Live(u, t) \subseteq zset[u]
    BY DEF Live
  <1>2. zset[u] \in SUBSET Entries /\ IsFiniteSet(zset[u])
    BY DEF TypeOK, Entries
  <1> QED
    BY <1>1, <1>2, FS_Subset

\* lua:42-43: ZADD leaves a finite window of well-formed entries.
LEMMA AddedType ==
    ASSUME TypeOK, NEW u \in Users, NEW t \in Nat
    PROVE  /\ Added(u, t) \in SUBSET Entries
           /\ IsFiniteSet(Added(u, t))
  <1> DEFINE live == Live(u, t)
             n    == Cardinality(live) + 1
             same == SameName(u, t)
             new  == [at |-> Rounded(t), nth |-> n, score |-> t]
  <1>1. live \in SUBSET Entries /\ IsFiniteSet(live)
    BY LiveType
  <1>2. n \in Nat
    BY <1>1, FS_CardinalityType
  <1>3. new \in Entries
    BY <1>2, RoundedType DEF Entries
  <1>4. IsFiniteSet(live \ same)
    <2>1. live \ same \subseteq live
      OBVIOUS
    <2> QED
      BY <1>1, <2>1, FS_Subset
  <1>5. IsFiniteSet((live \ same) \cup {new})
    BY <1>4, FS_AddElement
  <1>6. Added(u, t) = (live \ same) \cup {new}
    BY DEF Added
  <1> QED
    BY <1>1, <1>3, <1>5, <1>6

\* lua:15-51: whatever the script answers it leaves well-formed keys, takes the
\* estimate of an admitted request and nothing of another one, and never takes
\* more than there is.
LEMMA ScriptEffect ==
    ASSUME TypeOK, NEW r \in Requests, Script(r)
    PROVE  /\ RedisOK'
           /\ net' = [net EXCEPT ![r] = IF Verdict(r) = "held" THEN @ + est[r] ELSE @]
           /\ log' \in [Users -> Seq(Nat)]
           /\ \A u \in Users : bal'[u] = bal[u] \/ (bal'[u] \in Int /\ bal'[u] >= 0)
  <1> DEFINE u   == user[r]
             new == now[r]
  <1>1. u \in Users /\ now[r] \in Nat /\ est[r] \in Nat /\ time + Expiry \in Nat
    BY LimiterAssumption DEF TypeOK
  <1>2. CASE Verdict(r) = "held"
    <2>1. bal[u] \in Int /\ bal[u] - est[r] \in Int /\ bal[u] - est[r] >= 0
      BY <1>1, <1>2 DEF Verdict, Poor, TypeOK
    <2>2. /\ bal' = [bal EXCEPT ![u] = bal[u] - est[r]]
          /\ zset' = [zset EXCEPT ![u] = Added(u, now[r])]
          /\ expireAt' = [expireAt EXCEPT ![u] = time + Expiry]
          /\ net' = [net EXCEPT ![r] = @ + est[r]]
          /\ log' = [log EXCEPT ![u] = Append(@, new)]
      BY <1>2 DEF Script
    <2>3. zset' \in [Users -> SUBSET Entries] /\ \A v \in Users : IsFiniteSet(zset'[v])
      BY <1>1, <2>2, AddedType DEF TypeOK, Entries
    <2>4. expireAt' \in [Users -> Nat] /\ bal' \in [Users -> Int \cup {Missing}]
      BY <1>1, <2>1, <2>2 DEF TypeOK
    <2>5. new \in Nat
      BY DEF TypeOK
    <2>6. log' \in [Users -> Seq(Nat)]
      <3> HIDE DEF new
      <3> QED
        BY <1>1, <2>2, <2>5 DEF TypeOK
    <2> QED
      BY <1>1, <1>2, <2>1, <2>2, <2>3, <2>4, <2>6 DEF RedisOK, TypeOK
  <1>3. CASE Verdict(r) # "held"
    <2>1. /\ zset' = [zset EXCEPT ![u] = Live(u, now[r])]
          /\ UNCHANGED <<bal, expireAt, net, log>>
      BY <1>3 DEF Script
    <2>2. zset' \in [Users -> SUBSET Entries] /\ \A v \in Users : IsFiniteSet(zset'[v])
      BY <1>1, <2>1, LiveType DEF TypeOK, Entries
    <2> QED
      BY <1>1, <1>3, <2>1, <2>2 DEF RedisOK, TypeOK
  <1> QED
    BY <1>2, <1>3

\* limiter.go:121-144: a settlement leaves a well-formed balance, turns what was
\* taken into what was used, and lowers a balance only by what it adds to short.
LEMMA SettlementEffect ==
    ASSUME TypeOK, NEW r \in Requests, Settlement(r)
    PROVE  /\ bal' \in [Users -> Int \cup {Missing}]
           /\ net' = [net EXCEPT ![r] = @ - (est[r] - act[r])]
           /\ net' \in [Requests -> Int]
           /\ short' \in [Users -> Nat]
           /\ NoOverdraft => NoOverdraft'
  <1> DEFINE u == user[r]
             d == est[r] - act[r]
  <1>1. u \in Users /\ d \in Int
    BY DEF TypeOK
  <1>2. /\ bal' = IF d = 0 THEN bal ELSE [bal EXCEPT ![u] = IncrBy(bal[u], d)]
        /\ net' = [net EXCEPT ![r] = @ - d]
        /\ short' = [short EXCEPT ![u] = IF act[r] > est[r] THEN short[u] + act[r] - est[r] ELSE short[u]]
    BY DEF Settlement, Diff
  <1>3. IncrBy(bal[u], d) \in Int
    BY <1>1 DEF IncrBy, TypeOK
  <1>4. bal' \in [Users -> Int \cup {Missing}]
    BY <1>1, <1>2, <1>3 DEF TypeOK
  <1>5. net' \in [Requests -> Int] /\ short' \in [Users -> Nat]
    <2>1. /\ net \in [Requests -> Int] /\ net[r] - d \in Int
          /\ short \in [Users -> Nat] /\ short[u] \in Nat /\ est[r] \in Nat /\ act[r] \in Nat
      BY <1>1 DEF TypeOK
    <2>2. (IF act[r] > est[r] THEN short[u] + act[r] - est[r] ELSE short[u]) \in Nat
      BY <2>1
    <2>3. net' \in [Requests -> Int]
      BY <1>2, <2>1
    <2>4. short' \in [Users -> Nat]
      BY <1>1, <1>2, <2>1, <2>2
    <2> QED
      BY <2>3, <2>4
  <1>6. ASSUME NoOverdraft, NEW v \in Users, bal'[v] # Missing
        PROVE  bal'[v] + short'[v] >= 0
    <2>1. CASE v # u
      BY <1>2, <1>6, <2>1 DEF NoOverdraft, TypeOK
    <2>2. CASE v = u
      <3>1. short'[u] \in Nat /\ short'[u] >= short[u] - d /\ short'[u] >= short[u] /\ short[u] \in Nat
        <4>1. short \in [Users -> Nat] /\ short[u] \in Nat /\ est[r] \in Nat /\ act[r] \in Nat
          BY <1>1 DEF TypeOK
        <4>2. short'[u] = IF act[r] > est[r] THEN short[u] + act[r] - est[r] ELSE short[u]
          BY <1>1, <1>2, <4>1
        <4> QED
          BY <4>1, <4>2
      <3>2. CASE d = 0
        BY <1>1, <1>2, <1>6, <2>2, <3>1, <3>2 DEF NoOverdraft, TypeOK
      <3>3. CASE d # 0
        <4>1. bal'[u] = IncrBy(bal[u], d)
          BY <1>1, <1>2, <3>3 DEF TypeOK
        <4>2. CASE bal[u] = Missing
          BY <1>1, <2>2, <3>1, <4>1, <4>2 DEF IncrBy
        <4>3. CASE bal[u] # Missing
          BY <1>1, <1>6, <2>2, <3>1, <4>1, <4>3 DEF IncrBy, NoOverdraft, TypeOK
        <4> QED
          BY <4>2, <4>3
      <3> QED
        BY <3>2, <3>3
    <2> QED
      BY <2>1, <2>2
  <1> QED
    BY <1>2, <1>4, <1>5, <1>6 DEF NoOverdraft

----------------------------------------------------------------------------
(* Type correctness *)

\* Every step of Limiter preserves the type invariant.
LEMMA NextPreservesType == TypeOK /\ [Next]_vars => TypeOK'
  <1> SUFFICES ASSUME TypeOK, [Next]_vars PROVE TypeOK'
    OBVIOUS
  <1>1. ASSUME NEW r \in Requests, NEW n \in Estimates, Arrive(r, n) PROVE TypeOK'
    BY <1>1, LimiterAssumption
       DEF TypeOK, Arrive, Goto, Stages, redisVars, historyVars
  <1>2. ASSUME NEW r \in Requests PROVE Seeded(user[r]) \in [Users -> Int \cup {Missing}]
    BY LimiterAssumption DEF Seeded, TypeOK
  <1>3. ASSUME NEW r \in Requests, Seed(r) PROVE TypeOK'
    BY <1>2, <1>3 DEF TypeOK, Seed, Goto, Stages, historyVars
  <1>4. ASSUME NEW r \in Requests, SeedFails(r) PROVE TypeOK'
    BY <1>2, <1>4 DEF TypeOK, SeedFails, Goto, Stages, historyVars
  <1>5. ASSUME NEW r \in Requests, ReadClock(r) PROVE TypeOK'
    <2>1. now' \in [Requests -> Nat] /\ pc' \in [Requests -> Stages]
      BY <1>5, LimiterAssumption DEF TypeOK, ReadClock, Goto, Stages
    <2>2. UNCHANGED <<redisVars, user, est, time, losses, historyVars>>
      BY <1>5 DEF ReadClock
    <2> QED
      BY <2>1, <2>2 DEF TypeOK, redisVars, historyVars
  <1>6. ASSUME NEW r \in Requests, Script(r) PROVE RedisOK' /\ net' \in [Requests -> Int]
                                                   /\ log' \in [Users -> Seq(Nat)]
    <2>1. /\ RedisOK' /\ log' \in [Users -> Seq(Nat)]
          /\ net' = [net EXCEPT ![r] = IF Verdict(r) = "held" THEN @ + est[r] ELSE @]
      BY <1>6, ScriptEffect
    <2>2. net \in [Requests -> Int] /\ net[r] \in Int /\ net[r] + est[r] \in Int
      BY DEF TypeOK
    <2> QED
      BY <2>1, <2>2
  <1>7. ASSUME NEW r \in Requests, RunScript(r) PROVE TypeOK'
    <2>1. Verdict(r) \in Stages
      BY DEF Verdict, Stages
    <2> QED
      BY <1>6, <1>7, <2>1 DEF TypeOK, RedisOK, Entries, RunScript, Goto
  <1>8. ASSUME NEW r \in Requests, ScriptFails(r) PROVE TypeOK'
    BY <1>6, <1>8 DEF TypeOK, RedisOK, Entries, ScriptFails, Goto, Stages, redisVars
  <1>9. ASSUME NEW r \in Requests, ScriptAgain(r) PROVE TypeOK'
    <2>1. RedisOK' /\ net' \in [Requests -> Int] /\ log' \in [Users -> Seq(Nat)]
      BY <1>6, <1>9 DEF ScriptAgain
    <2>2. losses' \in Nat /\ fault' \in [Requests -> BOOLEAN]
      BY <1>9 DEF ScriptAgain, TypeOK
    <2>3. UNCHANGED <<pc, user, est, now, time, act, short>>
      BY <1>9 DEF ScriptAgain, requestVars
    <2> QED
      BY <2>1, <2>2, <2>3 DEF TypeOK, RedisOK, Entries
  <1>10. ASSUME NEW r \in Requests, NEW a \in Actuals, Used(r, a) PROVE TypeOK'
    BY <1>10, LimiterAssumption DEF TypeOK, Used, Charged, Goto, Stages, redisVars
  <1>11. ASSUME NEW r \in Requests, Settle(r) PROVE TypeOK'
    BY <1>11, SettlementEffect DEF TypeOK, Settle, Goto, Stages
  <1>12. ASSUME NEW r \in Requests, SettleFails(r) PROVE TypeOK'
    BY <1>12 DEF TypeOK, SettleFails, Goto, Stages, redisVars
  <1>13. ASSUME NEW r \in Requests, SettleAgain(r) PROVE TypeOK'
    <2>1. /\ bal' \in [Users -> Int \cup {Missing}]
          /\ net' \in [Requests -> Int]
          /\ short' \in [Users -> Nat]
      BY <1>13, SettlementEffect DEF SettleAgain
    <2>2. losses' \in Nat /\ fault' \in [Requests -> BOOLEAN]
      BY <1>13 DEF SettleAgain, TypeOK
    <2>3. UNCHANGED <<zset, expireAt, pc, user, est, now, time, act, log>>
      BY <1>13 DEF SettleAgain, requestVars
    <2> QED
      BY <2>1, <2>2, <2>3 DEF TypeOK
  <1>14. ASSUME NEW r \in Requests, Crash(r) PROVE TypeOK'
    BY <1>14 DEF TypeOK, Crash, Goto, Stages, redisVars
  <1>15. ASSUME RedisRestart PROVE TypeOK'
    BY <1>15, FS_EmptySet DEF TypeOK, RedisRestart, requestVars, historyVars
  <1>16. ASSUME Tick PROVE TypeOK'
    BY <1>16, FS_EmptySet DEF TypeOK, Tick, requestVars, historyVars
  <1>17. ASSUME UNCHANGED vars PROVE TypeOK'
    BY <1>17 DEF TypeOK, vars, redisVars, requestVars, historyVars
  <1> QED
    BY <1>1, <1>3, <1>4, <1>5, <1>7, <1>8, <1>9, <1>10, <1>11, <1>12, <1>13, <1>14,
       <1>15, <1>16, <1>17 DEF Next, Step

\* The limiter's state is well formed at all times: in particular every window
\* key stays finite and every balance an integer or absent.
THEOREM TypeCorrect == Spec => []TypeOK
  <1>1. Init => TypeOK
    BY FS_EmptySet, LimiterAssumption DEF Init, TypeOK, Stages
  <1> QED
    BY <1>1, NextPreservesType, PTL DEF Spec

----------------------------------------------------------------------------
(* The accounting *)

AccountInv == TakenMatchesStage /\ TakenAtStage /\ NoOverdraft

\* Every step of Limiter preserves the accounting invariant.
LEMMA NextPreservesAccount == TypeOK /\ AccountInv /\ [Next]_vars => AccountInv'
  <1> SUFFICES ASSUME TypeOK, AccountInv, [Next]_vars PROVE AccountInv'
    OBVIOUS
  <1> USE DEF AccountInv
  <1>a. losses \in Nat
    BY DEF TypeOK
  <1>1. ASSUME NEW r \in Requests, NEW n \in Estimates, Arrive(r, n) PROVE AccountInv'
    <2>1. TakenMatchesStage'
      BY <1>1 DEF TypeOK, TakenMatchesStage, Arrive, Goto, historyVars
    <2>2. TakenAtStage'
      BY <1>1 DEF TypeOK, TakenAtStage, Arrive, Goto, historyVars
    <2>3. NoOverdraft'
      BY <1>1 DEF NoOverdraft, Arrive, redisVars, historyVars
    <2> QED
      BY <2>1, <2>2, <2>3
  <1>2. ASSUME NEW r \in Requests, bal' \in {bal, Seeded(user[r])}, UNCHANGED short
        PROVE  NoOverdraft'
    <2>1. \A u \in Users : bal'[u] = bal[u] \/ (bal'[u] = DefaultBalance)
      BY <1>2 DEF Seeded, TypeOK
    <2>2. \A u \in Users : DefaultBalance + short[u] >= 0
      BY LimiterAssumption DEF TypeOK
    <2> QED
      BY <1>2, <2>1, <2>2 DEF NoOverdraft
  <1>3. ASSUME NEW r \in Requests, Seed(r) PROVE AccountInv'
    <2>1. TakenMatchesStage'
      BY <1>3 DEF TypeOK, TakenMatchesStage, Seed, Goto, historyVars
    <2>2. TakenAtStage'
      BY <1>3 DEF TypeOK, TakenAtStage, Seed, Goto, historyVars
    <2> QED
      BY <1>2, <1>3, <2>1, <2>2 DEF Seed, historyVars
  <1>4. ASSUME NEW r \in Requests, SeedFails(r) PROVE AccountInv'
    <2>1. TakenMatchesStage'
      BY <1>4 DEF TypeOK, TakenMatchesStage, SeedFails, Goto, historyVars
    <2>2. TakenAtStage'
      BY <1>4 DEF TypeOK, TakenAtStage, SeedFails, Goto, historyVars
    <2> QED
      BY <1>2, <1>4, <2>1, <2>2 DEF SeedFails, historyVars
  <1>5. ASSUME NEW r \in Requests, ReadClock(r) PROVE AccountInv'
    <2>1. TakenMatchesStage'
      BY <1>5 DEF TypeOK, TakenMatchesStage, ReadClock, Goto, historyVars
    <2>2. TakenAtStage'
      BY <1>5 DEF TypeOK, TakenAtStage, ReadClock, Goto, historyVars
    <2>3. NoOverdraft'
      BY <1>5 DEF NoOverdraft, ReadClock, redisVars, historyVars
    <2> QED
      BY <2>1, <2>2, <2>3
  <1>6. ASSUME NEW r \in Requests, Script(r), UNCHANGED short PROVE NoOverdraft'
    <2>1. \A u \in Users : bal'[u] = bal[u] \/ (bal'[u] \in Int /\ bal'[u] >= 0)
      BY <1>6, ScriptEffect
    <2>2. \A u \in Users : short[u] \in Nat
      BY DEF TypeOK
    <2>3. \A u \in Users : bal'[u] \in Int /\ bal'[u] >= 0 => bal'[u] + short[u] >= 0
      BY <2>2
    <2> QED
      BY <1>6, <2>1, <2>3 DEF NoOverdraft
  <1>7. ASSUME NEW r \in Requests, RunScript(r) PROVE AccountInv'
    <2>1. net' = [net EXCEPT ![r] = IF Verdict(r) = "held" THEN @ + est[r] ELSE @]
      BY <1>7, ScriptEffect DEF RunScript
    <2>2. Verdict(r) \in {"held", "rate", "poor"}
      BY DEF Verdict
    <2>3. TakenMatchesStage'
      BY <1>7, <2>1, <2>2 DEF TypeOK, TakenMatchesStage, RunScript, Goto
    <2>4. TakenAtStage'
      BY <1>7, <2>1, <2>2 DEF TypeOK, TakenAtStage, RunScript, Goto
    <2> QED
      BY <1>6, <1>7, <2>3, <2>4 DEF RunScript
  <1>8. ASSUME NEW r \in Requests, ScriptFails(r) PROVE AccountInv'
    <2>1. \/ net' = [net EXCEPT ![r] = @ + est[r]]
          \/ net' = [net EXCEPT ![r] = @]
          \/ net' = net
      BY <1>8, ScriptEffect DEF ScriptFails
    <2>2. TakenMatchesStage'
      BY <1>8, <2>1 DEF TypeOK, TakenMatchesStage, ScriptFails, Goto
    <2>3. TakenAtStage'
      BY <1>8, <2>1 DEF TypeOK, TakenAtStage, ScriptFails, Goto
    <2>4. NoOverdraft'
      BY <1>6, <1>8 DEF ScriptFails, redisVars, NoOverdraft
    <2> QED
      BY <2>2, <2>3, <2>4
  <1>9. ASSUME NEW r \in Requests, ScriptAgain(r) PROVE AccountInv'
    <2>1. \A q \in Requests : q # r => net'[q] = net[q]
      BY <1>9, ScriptEffect DEF ScriptAgain, TypeOK
    <2>2. TakenMatchesStage'
      BY <1>9, <2>1 DEF TypeOK, TakenMatchesStage, ScriptAgain, requestVars
    <2>3. TakenAtStage'
      BY <1>9, <1>a DEF TakenAtStage, ScriptAgain
    <2> QED
      BY <1>6, <1>9, <2>2, <2>3 DEF ScriptAgain
  <1>10. ASSUME NEW r \in Requests, NEW a \in Actuals, Used(r, a) PROVE AccountInv'
    <2>1. TakenMatchesStage'
      BY <1>10 DEF TypeOK, TakenMatchesStage, Used, Goto
    <2>2. TakenAtStage'
      BY <1>10 DEF TypeOK, TakenAtStage, Used, Goto
    <2>3. NoOverdraft'
      BY <1>10 DEF NoOverdraft, Used, redisVars
    <2> QED
      BY <2>1, <2>2, <2>3
  <1>11. ASSUME NEW r \in Requests, Settle(r) PROVE AccountInv'
    <2>1. net' = [net EXCEPT ![r] = @ - (est[r] - act[r])] /\ NoOverdraft'
      BY <1>11, SettlementEffect DEF Settle
    <2>2. TakenMatchesStage'
      <3>1. /\ pc[r] = "settle" /\ pc' = [pc EXCEPT ![r] = "done"] /\ UNCHANGED <<est, act, fault>>
            /\ pc \in [Requests -> Stages] /\ net \in [Requests -> Int]
        BY <1>11 DEF Settle, Goto, TypeOK
      <3>2. est[r] \in Nat /\ act[r] \in Nat
        BY DEF TypeOK
      <3>3. ~fault[r] => net'[r] = act[r]
        BY <2>1, <3>1, <3>2 DEF TakenMatchesStage
      <3> QED
        BY <2>1, <3>1, <3>3 DEF TakenMatchesStage
    <2>3. TakenAtStage'
      BY <1>11, <2>1 DEF TypeOK, TakenAtStage, Settle, Goto
    <2> QED
      BY <2>1, <2>2, <2>3
  <1>12. ASSUME NEW r \in Requests, SettleFails(r) PROVE AccountInv'
    <2>1. TakenMatchesStage'
      BY <1>12 DEF TypeOK, TakenMatchesStage, SettleFails, Goto
    <2>2. TakenAtStage'
      BY <1>12 DEF TypeOK, TakenAtStage, SettleFails, Goto
    <2>3. NoOverdraft'
      BY <1>12 DEF NoOverdraft, SettleFails, redisVars
    <2> QED
      BY <2>1, <2>2, <2>3
  <1>13. ASSUME NEW r \in Requests, SettleAgain(r) PROVE AccountInv'
    <2>1. net' = [net EXCEPT ![r] = @ - (est[r] - act[r])] /\ NoOverdraft'
      BY <1>13, SettlementEffect DEF SettleAgain
    <2>2. TakenMatchesStage'
      BY <1>13, <2>1 DEF TypeOK, TakenMatchesStage, SettleAgain, requestVars
    <2>3. TakenAtStage'
      BY <1>13, <1>a DEF TakenAtStage, SettleAgain
    <2> QED
      BY <2>1, <2>2, <2>3
  <1>14. ASSUME NEW r \in Requests, Crash(r) PROVE AccountInv'
    <2>1. TakenMatchesStage'
      BY <1>14 DEF TypeOK, TakenMatchesStage, Crash, Goto
    <2>2. TakenAtStage'
      BY <1>14 DEF TypeOK, TakenAtStage, Crash, Goto
    <2>3. NoOverdraft'
      BY <1>14 DEF NoOverdraft, Crash, redisVars
    <2> QED
      BY <2>1, <2>2, <2>3
  <1>15. ASSUME RedisRestart PROVE AccountInv'
    <2>1. TakenMatchesStage'
      BY <1>15 DEF TakenMatchesStage, RedisRestart, requestVars, historyVars
    <2>2. TakenAtStage' /\ NoOverdraft'
      BY <1>15, <1>a DEF TakenAtStage, NoOverdraft, RedisRestart
    <2> QED
      BY <2>1, <2>2
  <1>16. ASSUME Tick \/ UNCHANGED vars PROVE AccountInv'
    BY <1>16 DEF TakenMatchesStage, TakenAtStage, NoOverdraft, Tick,
                 vars, redisVars, requestVars, historyVars
  <1> QED
    BY <1>1, <1>3, <1>4, <1>5, <1>7, <1>8, <1>9, <1>10, <1>11, <1>12, <1>13, <1>14,
       <1>15, <1>16 DEF Next, Step

\* The accounting invariant holds in every reachable state.
THEOREM Accounting == Spec => []AccountInv
  <1>1. Init => AccountInv
    BY DEF Init, AccountInv, TakenMatchesStage, TakenAtStage, NoOverdraft
  <1> QED
    BY <1>1, TypeCorrect, NextPreservesAccount, PTL DEF Spec

\* limiter.go:71-144: without a lost command, reply or replica, a request has
\* taken its estimate while it runs, its usage once it is settled, and nothing
\* when it was refused.
THEOREM TakenIsExact == Spec => []TakenMatchesStage
  BY Accounting, PTL DEF AccountInv

\* limiter.go:89-144: a lost command, reply or replica costs the user or the
\* operator at most one estimate or one usage, never a mixture.
THEOREM LossIsAtMostOneEstimate == Spec => []LossIsBounded
  <1>1. TypeOK /\ AccountInv => LossIsBounded
    BY DEF TypeOK, Stages, AccountInv, TakenAtStage, LossIsBounded
  <1> QED
    BY <1>1, TypeCorrect, Accounting, PTL

\* lua:30-40, limiter.go:128-139: no interleaving of requests, resends and
\* Redis restarts spends the same tokens twice.
THEOREM NeverOverdrawn == Spec => []NoOverdraft
  BY Accounting, PTL DEF AccountInv

----------------------------------------------------------------------------
(* The sum of what was taken *)

Mine(u) == {r \in Requests : user[r] = u}

\* What Conserved needs by induction: a balance that was never set has paid for
\* nothing, and nobody is running on it.
Ledger ==
    losses = 0 =>
        \A u \in Users :
            /\ bal[u] = Missing => /\ Taken(u) = 0
                                  /\ \A r \in Mine(u) : pc[r] \notin {"held", "settle"}
            /\ bal[u] # Missing => bal[u] + Taken(u) = DefaultBalance

\* What the users' requests have taken changes with what one of them takes.
LEMMA TakenChanges ==
    ASSUME TypeOK, NEW r \in Requests, NEW d \in Int, UNCHANGED user,
           net' = [net EXCEPT ![r] = @ + d]
    PROVE  \A u \in Users : /\ Taken(u) \in Int
                            /\ Taken(u)' = IF u = user[r] THEN Taken(u) + d ELSE Taken(u)
  <1> SUFFICES ASSUME NEW u \in Users
               PROVE  /\ Taken(u) \in Int
                      /\ Taken(u)' = IF u = user[r] THEN Taken(u) + d ELSE Taken(u)
    OBVIOUS
  <1> DEFINE S == {q \in Requests : user[q] = u}
  <1>1. IsFiniteSet(S)
    BY LimiterAssumption, FS_Subset
  <1>2. \A q \in S : net[q] \in Int /\ net'[q] \in Int /\ (q # r => net'[q] = net[q])
    BY DEF TypeOK
  <1>3. Taken(u) = SumFunctionOnSet(net, S) /\ Taken(u)' = SumFunctionOnSet(net', S)
    BY DEF Taken
  <1>4. r \in S <=> u = user[r]
    OBVIOUS
  <1>5. net'[r] - net[r] = d /\ net'[r] \in Int /\ net[r] \in Int
    BY DEF TypeOK
  <1> HIDE DEF S
  <1>6. SumFunctionOnSet(net, S) \in Int
    BY <1>1, <1>2, SumType
  <1>7. CASE r \in S
    <2>1. SumFunctionOnSet(net', S) = SumFunctionOnSet(net, S) + net'[r] - net[r]
      <3>1. PICK f, h, T : f = net /\ h = net' /\ T = S
        OBVIOUS
      <3>2. /\ IsFiniteSet(T) /\ r \in T
            /\ \A q \in T : f[q] \in Int /\ h[q] \in Int
            /\ \A q \in T : q # r => h[q] = f[q]
        BY <1>1, <1>2, <1>7, <3>1
      <3>3. SumFunctionOnSet(h, T) = SumFunctionOnSet(f, T) + h[r] - f[r]
        BY <3>2, SumChanges
      <3> QED
        BY <3>1, <3>3
    <2> QED
      BY <1>3, <1>4, <1>5, <1>6, <1>7, <2>1
  <1>8. CASE r \notin S
    <2>1. \A q \in S : net[q] \in Int /\ net'[q] = net[q]
      BY <1>2, <1>8
    <2>2. SumFunctionOnSet(net', S) = SumFunctionOnSet(net, S)
      BY <1>1, <2>1, SumOfSame
    <2> QED
      BY <1>3, <1>4, <1>6, <1>8, <2>2
  <1> QED
    BY <1>7, <1>8

\* A step of one request that takes d tokens and pays for them with its balance,
\* or that sets the balance for the first time.
LEMMA LedgerStep ==
    ASSUME TypeOK, TypeOK', Ledger, losses' = 0 => losses = 0, UNCHANGED user,
           NEW r \in Requests, NEW d \in Int,
           net' = [net EXCEPT ![r] = @ + d],
           \A q \in Requests \ {r} : pc'[q] = pc[q],
           \A u \in Users \ {user[r]} : bal'[u] = bal[u],
           losses = 0 =>
              \/ bal[user[r]] # Missing /\ bal'[user[r]] = bal[user[r]] - d
              \/ /\ bal[user[r]] = Missing /\ d = 0 /\ bal'[user[r]] \in {Missing, DefaultBalance}
                 /\ pc'[r] \notin {"held", "settle"}
    PROVE  Ledger'
  <1> SUFFICES ASSUME losses' = 0, NEW u \in Users
               PROVE  /\ bal'[u] = Missing =>
                            /\ Taken(u)' = 0
                            /\ \A q \in Mine(u)' : pc'[q] \notin {"held", "settle"}
                      /\ bal'[u] # Missing => bal'[u] + Taken(u)' = DefaultBalance
    BY DEF Ledger
  <1>1. /\ bal[u] = Missing => /\ Taken(u) = 0
                              /\ \A q \in Mine(u) : pc[q] \notin {"held", "settle"}
        /\ bal[u] # Missing => bal[u] + Taken(u) = DefaultBalance
    BY DEF Ledger
  <1>2. /\ Taken(u) \in Int
        /\ Taken(u)' = IF u = user[r] THEN Taken(u) + d ELSE Taken(u)
    BY TakenChanges
  <1>3. Mine(u)' = Mine(u) /\ Mine(u) \subseteq Requests /\ (r \in Mine(u) <=> u = user[r])
    BY DEF Mine
  <1>4. bal[u] \in Int \cup {Missing} /\ DefaultBalance \in Int /\ Missing \notin Int
    BY LimiterAssumption DEF TypeOK
  <1>5. CASE u # user[r]
    <2>1. bal'[u] = bal[u] /\ Taken(u)' = Taken(u)
      BY <1>2, <1>5
    <2>2. \A q \in Mine(u) : pc'[q] = pc[q]
      BY <1>3, <1>5
    <2> QED
      BY <1>1, <1>3, <2>1, <2>2
  <1>6. CASE u = user[r] /\ bal[u] # Missing
    <2>1. bal'[u] = bal[u] - d /\ bal[u] \in Int /\ Taken(u)' = Taken(u) + d
      BY <1>2, <1>4, <1>6
    <2> QED
      BY <1>1, <1>2, <1>4, <1>6, <2>1
  <1>7. CASE u = user[r] /\ bal[u] = Missing
    <2>1. /\ bal'[u] \in {Missing, DefaultBalance} /\ d = 0 /\ pc'[r] \notin {"held", "settle"}
          /\ Taken(u)' = 0
      BY <1>1, <1>2, <1>7
    <2>2. \A q \in Mine(u) : pc'[q] \notin {"held", "settle"}
      BY <1>1, <1>3, <1>7, <2>1
    <2> QED
      BY <1>3, <1>4, <2>1, <2>2
  <1> QED
    BY <1>5, <1>6, <1>7

\* Every step of Limiter keeps the ledger.
LEMMA NextPreservesLedger == TypeOK /\ TypeOK' /\ Ledger /\ [Next]_vars => Ledger'
  <1> SUFFICES ASSUME TypeOK, TypeOK', Ledger, [Next]_vars PROVE Ledger'
    OBVIOUS
  <1>a. losses \in Nat /\ net \in [Requests -> Int]
    BY DEF TypeOK
  <1>b. ASSUME NEW r \in Requests PROVE user[r] \in Users /\ net = [net EXCEPT ![r] = @ + 0]
    BY DEF TypeOK
  \* A step of r that touches neither balances nor what was taken.
  <1>1. ASSUME NEW r \in Requests, UNCHANGED bal, UNCHANGED net, UNCHANGED user, UNCHANGED losses,
               NEW s, pc' = [pc EXCEPT ![r] = s], s \in {"held", "settle"} => pc[r] = "held"
        PROVE  Ledger'
    <2>1. bal[user[r]] \in Int \cup {Missing}
      BY <1>b DEF TypeOK
    <2>2. bal[user[r]] = Missing /\ losses = 0 => pc[r] # "held"
      BY <1>b DEF Ledger, Mine
    <2>3. pc'[r] = s /\ \A q \in Requests \ {r} : pc'[q] = pc[q]
      BY <1>1 DEF TypeOK
    <2>4. losses = 0 =>
              \/ bal[user[r]] # Missing /\ bal'[user[r]] = bal[user[r]] - 0
              \/ /\ bal[user[r]] = Missing /\ bal'[user[r]] \in {Missing, DefaultBalance}
                 /\ pc'[r] \notin {"held", "settle"}
      BY <1>1, <2>1, <2>2, <2>3
    <2>5. net' = [net EXCEPT ![r] = @ + 0]
      BY <1>1, <1>b
    <2>6. PICK d \in Int : d = 0
      OBVIOUS
    <2> QED
      BY <1>1, <2>3, <2>4, <2>5, <2>6, LedgerStep
  \* A seed, lost or not.
  <1>2. ASSUME NEW r \in Requests, bal' \in {bal, Seeded(user[r])}, UNCHANGED net, UNCHANGED user,
               UNCHANGED losses, NEW s \in {"clock", "error"}, pc' = [pc EXCEPT ![r] = s]
        PROVE  Ledger'
    <2>1. /\ \A u \in Users \ {user[r]} : bal'[u] = bal[u]
          /\ bal[user[r]] # Missing => bal'[user[r]] = bal[user[r]]
          /\ bal[user[r]] = Missing => bal'[user[r]] \in {Missing, DefaultBalance}
      BY <1>2, <1>b DEF Seeded, TypeOK
    <2>2. bal[user[r]] \in Int \cup {Missing}
      BY <1>b DEF TypeOK
    <2>3. pc'[r] = s /\ \A q \in Requests \ {r} : pc'[q] = pc[q]
      BY <1>2 DEF TypeOK
    <2>4. \/ bal[user[r]] # Missing /\ bal'[user[r]] = bal[user[r]] - 0
          \/ /\ bal[user[r]] = Missing /\ bal'[user[r]] \in {Missing, DefaultBalance}
             /\ pc'[r] \notin {"held", "settle"}
      BY <2>1, <2>2, <2>3
    <2>5. net' = [net EXCEPT ![r] = @ + 0]
      BY <1>2, <1>b
    <2>6. PICK d \in Int : d = 0
      OBVIOUS
    <2> QED
      BY <1>2, <2>1, <2>3, <2>4, <2>5, <2>6, LedgerStep
  \* The script, its reply lost or not.
  <1>3. ASSUME NEW r \in Requests, Script(r), UNCHANGED user, UNCHANGED losses,
               NEW s, pc' = [pc EXCEPT ![r] = s], s \in {"held", "settle"} => Verdict(r) = "held"
        PROVE  Ledger'
    <2> DEFINE d == IF Verdict(r) = "held" THEN est[r] ELSE 0
    <2>1. net' = [net EXCEPT ![r] = @ + d] /\ d \in Int
      <3>1. est[r] \in Int /\ net[r] \in Int
        BY DEF TypeOK
      <3> QED
        BY <1>3, <1>a, <3>1, ScriptEffect
    <2>2. pc'[r] = s /\ \A q \in Requests \ {r} : pc'[q] = pc[q]
      BY <1>3 DEF TypeOK
    <2>3. CASE Verdict(r) = "held"
      <3>1. bal[user[r]] # Missing /\ bal' = [bal EXCEPT ![user[r]] = @ - est[r]]
        BY <1>3, <2>3 DEF Script, Verdict, Poor
      <3>2. /\ bal'[user[r]] = bal[user[r]] - d
            /\ \A u \in Users \ {user[r]} : bal'[u] = bal[u]
        BY <1>b, <2>3, <3>1 DEF TypeOK
      <3> HIDE DEF d
      <3> QED
        BY <1>3, <2>1, <2>2, <3>1, <3>2, LedgerStep
    <2>4. CASE Verdict(r) # "held"
      <3>1. UNCHANGED bal /\ d = 0
        BY <1>3, <2>4 DEF Script
      <3>2. UNCHANGED net
        BY <1>3, <2>4 DEF Script
      <3>3. s \in {"held", "settle"} => pc[r] = "held"
        BY <1>3, <2>4
      <3> QED
        BY <1>1, <1>3, <3>1, <3>2, <3>3
    <2> QED
      BY <2>3, <2>4
  \* The settlement.
  <1>4. ASSUME NEW r \in Requests, Settle(r) PROVE Ledger'
    <2> DEFINE d == act[r] - est[r]
    <2>1. est[r] \in Nat /\ act[r] \in Nat /\ net[r] \in Int
      BY DEF TypeOK
    <2>2. net' = [net EXCEPT ![r] = @ + d] /\ d \in Int
      <3>1. net[r] - (est[r] - act[r]) = net[r] + d /\ d \in Int
        BY <2>1
      <3>2. net' = [net EXCEPT ![r] = net[r] - (est[r] - act[r])]
        BY <1>4, SettlementEffect DEF Settle
      <3> QED
        BY <3>1, <3>2
    <2>3. losses = 0 => bal[user[r]] # Missing
      BY <1>4, <1>b DEF Settle, Ledger, Mine
    <2>4. /\ \A u \in Users \ {user[r]} : bal'[u] = bal[u]
          /\ bal[user[r]] # Missing => bal'[user[r]] = bal[user[r]] - d
      <3>1. bal' = IF est[r] - act[r] = 0 THEN bal
                   ELSE [bal EXCEPT ![user[r]] = IncrBy(bal[user[r]], est[r] - act[r])]
        BY <1>4 DEF Settle, Settlement, Diff
      <3>2. bal[user[r]] # Missing =>
                /\ bal[user[r]] \in Int
                /\ IncrBy(bal[user[r]], est[r] - act[r]) = bal[user[r]] + (est[r] - act[r])
        BY <1>b DEF IncrBy, TypeOK
      <3>3. \A u \in Users \ {user[r]} : bal'[u] = bal[u]
        BY <1>b, <3>1 DEF TypeOK
      <3>4. ASSUME bal[user[r]] # Missing PROVE bal'[user[r]] = bal[user[r]] - d
        <4>1. CASE est[r] - act[r] = 0
          BY <2>1, <3>1, <3>2, <3>4, <4>1
        <4>2. CASE est[r] - act[r] # 0
          <5>1. bal'[user[r]] = bal[user[r]] + (est[r] - act[r])
            BY <1>b, <3>1, <3>2, <3>4, <4>2 DEF TypeOK
          <5> QED
            BY <2>1, <3>2, <3>4, <5>1
        <4> QED
          BY <4>1, <4>2
      <3> QED
        BY <3>3, <3>4
    <2>5. \A q \in Requests \ {r} : pc'[q] = pc[q]
      BY <1>4 DEF Settle, Goto, TypeOK
    <2>6. UNCHANGED user /\ UNCHANGED losses
      BY <1>4 DEF Settle
    <2> HIDE DEF d
    <2> QED
      BY <2>2, <2>3, <2>4, <2>5, <2>6, LedgerStep
  <1>5. ASSUME NEW r \in Requests, Step(r) PROVE Ledger'
    <2>1. ASSUME NEW n \in Estimates, Arrive(r, n) PROVE Ledger'
      BY <1>1, <2>1 DEF Arrive, Goto, redisVars, historyVars
    <2>2. CASE Seed(r)
      BY <1>2, <2>2 DEF Seed, Goto, historyVars
    <2>3. CASE SeedFails(r)
      BY <1>2, <2>3 DEF SeedFails, Goto, historyVars
    <2>4. CASE ReadClock(r)
      BY <1>1, <2>4 DEF ReadClock, Goto, redisVars, historyVars
    <2>5. CASE RunScript(r)
      <3>1. Verdict(r) \in {"held", "settle"} => Verdict(r) = "held"
        BY DEF Verdict
      <3> QED
        BY <1>3, <2>5, <3>1 DEF RunScript, Goto
    <2>6. CASE ScriptFails(r)
      <3>1. UNCHANGED user /\ UNCHANGED losses /\ pc' = [pc EXCEPT ![r] = "error"]
        BY <2>6 DEF ScriptFails, Goto
      <3>2. Script(r) \/ (UNCHANGED bal /\ UNCHANGED net)
        BY <2>6 DEF ScriptFails, redisVars
      <3> QED
        BY <1>1, <1>3, <3>1, <3>2
    <2>7. CASE ScriptAgain(r) \/ SettleAgain(r)
      BY <1>a, <2>7 DEF ScriptAgain, SettleAgain, Ledger
    <2>8. ASSUME NEW a \in Actuals, Used(r, a) PROVE Ledger'
      BY <1>1, <2>8 DEF Used, Goto, redisVars
    <2>9. CASE SettleFails(r)
      BY <1>1, <2>9 DEF SettleFails, Goto, redisVars
    <2>10. CASE Crash(r)
      BY <1>1, <2>10 DEF Crash, Goto, redisVars
    <2> QED
      BY <1>4, <1>5, <2>1, <2>2, <2>3, <2>4, <2>5, <2>6, <2>7, <2>8, <2>9, <2>10 DEF Step
  <1>6. CASE RedisRestart
    BY <1>a, <1>6 DEF RedisRestart, Ledger
  <1>7. CASE Tick \/ UNCHANGED vars
    BY <1>7 DEF Tick, vars, redisVars, requestVars, historyVars, Ledger, Taken, Mine
  <1> QED
    BY <1>5, <1>6, <1>7 DEF Next

\* limiter.go:71-144 with the script: while Redis keeps its data and no command
\* is sent twice, balance and takings add up to the first balance, for any
\* number of users and requests.
THEOREM TokensConserved == Spec => []Conserved
  <1>1. Init => Ledger
    <2> SUFFICES ASSUME Init, NEW u \in Users
                 PROVE  bal[u] = Missing /\ Taken(u) = 0 /\ \A r \in Mine(u) : pc[r] = "idle"
      BY DEF Ledger
    <2> DEFINE S == {r \in Requests : user[r] = u}
    <2>1. IsFiniteSet(S) /\ \A r \in S : net[r] = 0
      BY LimiterAssumption, FS_Subset DEF Init
    <2> HIDE DEF S
    <2>2. SumFunctionOnSet(net, S) = 0
      BY <2>1, SumOfZeros
    <2> QED
      BY <2>2 DEF Init, Taken, S, Mine
  <1>2. Ledger => Conserved
    BY DEF Ledger, Conserved
  <1> QED
    BY <1>1, <1>2, TypeCorrect, NextPreservesLedger, PTL DEF Spec

----------------------------------------------------------------------------
(* The window *)

\* Every entry of a window stems from an admission of its own.
Stems(zs, adm, j) ==
    /\ j \in [zs -> DOMAIN adm]
    /\ \A y, z \in zs : j[y] = j[z] => y = z
    /\ \A z \in zs : z.score = adm[j[z]]

Logged(u) == \E j : Stems(zset[u], log[u], j)

WindowInv == \A u \in Users : Logged(u)

\* What an append adds to a log.
LEMMA AppendedLog ==
    ASSUME NEW T, NEW adm \in Seq(T), NEW a \in T
    PROVE  /\ Len(adm) + 1 \in Nat /\ Len(adm) + 1 \notin DOMAIN adm
           /\ DOMAIN Append(adm, a) = DOMAIN adm \cup {Len(adm) + 1}
           /\ \A i \in DOMAIN adm : Append(adm, a)[i] = adm[i] /\ i \in Nat /\ i <= Len(adm) + 1
           /\ Append(adm, a)[Len(adm) + 1] = a
  <1>1. Len(adm) \in Nat /\ DOMAIN adm = 1..Len(adm)
    OBVIOUS
  <1>2. Append(adm, a) \in Seq(T) /\ Len(Append(adm, a)) = Len(adm) + 1
    OBVIOUS
  <1>3. DOMAIN Append(adm, a) = 1..(Len(adm) + 1)
    BY <1>2
  <1>4. \A i \in DOMAIN adm : Append(adm, a)[i] = adm[i]
    BY <1>1
  <1>5. Append(adm, a)[Len(adm) + 1] = a
    BY <1>1
  <1> QED
    BY <1>1, <1>3, <1>4, <1>5

\* Fewer entries stem from admissions, too.
LEMMA StemsShrinks ==
    ASSUME NEW zs, NEW ws \in SUBSET zs, NEW adm, NEW j, Stems(zs, adm, j)
    PROVE  \E k : Stems(ws, adm, k)
  <1> DEFINE k == [z \in ws |-> j[z]]
  <1>1. Stems(ws, adm, k)
    BY DEF Stems
  <1> QED
    BY <1>1

\* The new entry stems from the new admission.
LEMMA StemsGrows ==
    ASSUME NEW zs, NEW adm \in Seq(Nat), NEW j, Stems(zs, adm, j),
           NEW z, z \notin zs, NEW a \in Nat, z.score = a
    PROVE  \E k : Stems(zs \cup {z}, Append(adm, a), k)
  <1> DEFINE N == Len(adm) + 1
             bs == Append(adm, a)
             k == [y \in zs \cup {z} |-> IF y = z THEN N ELSE j[y]]
  <1>1. /\ N \notin DOMAIN adm /\ DOMAIN bs = DOMAIN adm \cup {N} /\ bs[N] = a
        /\ \A i \in DOMAIN adm : bs[i] = adm[i]
    BY AppendedLog
  <1> HIDE DEF N, bs
  <1>2. k \in [zs \cup {z} -> DOMAIN bs]
    BY <1>1 DEF Stems
  <1>3. \A x, y \in zs \cup {z} : k[x] = k[y] => x = y
    <2>1. \A x \in zs : k[x] = j[x] /\ j[x] \in DOMAIN adm
      BY DEF Stems
    <2>2. k[z] = N
      OBVIOUS
    <2>3. \A x, y \in zs : j[x] = j[y] => x = y
      BY DEF Stems
    <2> QED
      BY <1>1, <2>1, <2>2, <2>3
  <1>4. \A y \in zs \cup {z} : y.score = bs[k[y]]
    BY <1>1 DEF Stems
  <1>5. Stems(zs \cup {z}, bs, k)
    BY <1>2, <1>3, <1>4 DEF Stems
  <1> QED
    BY <1>5 DEF bs

\* What is not touched stays as it was, and a window may lose entries.
LEMMA ShrunkWindow ==
    ASSUME NEW u \in Users, Logged(u), zset'[u] \in SUBSET zset[u], log'[u] = log[u]
    PROVE  Logged(u)'
  <1>1. PICK j : Stems(zset[u], log[u], j)
    BY DEF Logged
  <1>2. PICK k : Stems(zset'[u], log[u], k)
    BY <1>1, StemsShrinks
  <1> QED
    BY <1>2 DEF Logged

\* lua:15-51: the script keeps the window, whatever it answers; an entry that
\* takes the name of another one replaces it.
LEMMA ScriptKeepsWindow ==
    ASSUME TypeOK, WindowInv, NEW r \in Requests, Script(r)
    PROVE  WindowInv'
  <1>1. PICK u \in Users : u = user[r]
    BY DEF TypeOK
  <1> DEFINE L == Live(u, now[r])
             same == SameName(u, now[r])
  <1>2. L \in SUBSET zset[u] /\ same \in SUBSET L /\ log[u] \in Seq(Nat) /\ now[r] \in Nat
    BY DEF TypeOK, Live, SameName
  <1>3. CASE Verdict(r) # "held"
    <2>1. zset'[u] = L /\ UNCHANGED log /\ \A v \in Users \ {u} : zset'[v] = zset[v]
      BY <1>1, <1>3 DEF Script, TypeOK
    <2>2. ASSUME NEW v \in Users PROVE Logged(v)'
      <3>1. Logged(v) /\ zset'[v] \in SUBSET zset[v] /\ log'[v] = log[v]
        BY <1>2, <2>1 DEF WindowInv
      <3> QED
        BY <3>1, ShrunkWindow
    <2> QED
      BY <2>2 DEF WindowInv
  <1>4. CASE Verdict(r) = "held"
    <2> DEFINE z == [at |-> Rounded(now[r]), nth |-> Cardinality(L) + 1, score |-> now[r]]
    <2>1. /\ zset'[u] = (L \ same) \cup {z} /\ log'[u] = Append(log[u], now[r])
          /\ \A v \in Users \ {u} : zset'[v] = zset[v] /\ log'[v] = log[v]
      BY <1>1, <1>4 DEF Script, TypeOK, Added
    <2>2. z.score = now[r] /\ z \notin L \ same
      BY DEF SameName
    <2>3. PICK j : Stems(L \ same, log[u], j)
      <3>1. PICK k : Stems(zset[u], log[u], k)
        BY DEF WindowInv, Logged
      <3>2. L \ same \in SUBSET zset[u]
        BY <1>2
      <3> QED
        BY <3>1, <3>2, StemsShrinks
    <2> HIDE DEF z, L, same
    <2>4. \E k : Stems((L \ same) \cup {z}, Append(log[u], now[r]), k)
      BY <1>2, <2>2, <2>3, StemsGrows
    <2>5. Logged(u)'
      BY <2>1, <2>4 DEF Logged
    <2>6. ASSUME NEW v \in Users \ {u} PROVE Logged(v)'
      BY <2>1, ShrunkWindow DEF WindowInv
    <2> QED
      BY <2>5, <2>6 DEF WindowInv
  <1> QED
    BY <1>3, <1>4

\* Every step of Limiter keeps the windows.
LEMMA NextPreservesWindow == TypeOK /\ WindowInv /\ [Next]_vars => WindowInv'
  <1> SUFFICES ASSUME TypeOK, WindowInv, [Next]_vars PROVE WindowInv'
    OBVIOUS
  <1>1. ASSUME \A u \in Users : zset'[u] \in SUBSET zset[u], UNCHANGED log PROVE WindowInv'
    BY <1>1, ShrunkWindow DEF WindowInv
  <1>2. UNCHANGED zset => \A u \in Users : zset'[u] \in SUBSET zset[u]
    OBVIOUS
  <1>3. ASSUME NEW r \in Requests, Step(r) PROVE WindowInv'
    <2>1. ASSUME NEW n \in Estimates, Arrive(r, n) PROVE WindowInv'
      BY <1>1, <1>2, <2>1 DEF Arrive, redisVars, historyVars
    <2>2. CASE Seed(r) \/ SeedFails(r)
      BY <1>1, <1>2, <2>2 DEF Seed, SeedFails, historyVars
    <2>3. CASE ReadClock(r)
      BY <1>1, <1>2, <2>3 DEF ReadClock, redisVars, historyVars
    <2>4. CASE RunScript(r)
      BY <2>4, ScriptKeepsWindow DEF RunScript
    <2>5. CASE ScriptFails(r)
      <3>1. Script(r) \/ (UNCHANGED zset /\ UNCHANGED log)
        BY <2>5 DEF ScriptFails, redisVars
      <3> QED
        BY <1>1, <1>2, <3>1, ScriptKeepsWindow
    <2>6. CASE ScriptAgain(r)
      BY <2>6, ScriptKeepsWindow DEF ScriptAgain
    <2>7. ASSUME NEW a \in Actuals, Used(r, a) PROVE WindowInv'
      BY <1>1, <1>2, <2>7 DEF Used, redisVars
    <2>8. CASE Settle(r) \/ SettleFails(r) \/ Crash(r) \/ SettleAgain(r)
      BY <1>1, <1>2, <2>8 DEF Settle, SettleFails, Crash, SettleAgain, redisVars
    <2> QED
      BY <1>3, <2>1, <2>2, <2>3, <2>4, <2>5, <2>6, <2>7, <2>8 DEF Step
  <1>4. CASE RedisRestart
    BY <1>1, <1>4 DEF RedisRestart, historyVars
  <1>5. CASE Tick
    BY <1>1, <1>5 DEF Tick, TypeOK, historyVars
  <1>6. CASE UNCHANGED vars
    BY <1>1, <1>2, <1>6 DEF vars, redisVars, historyVars
  <1> QED
    BY <1>3, <1>4, <1>5, <1>6 DEF Next

\* Every entry of a window stems from an admission of its own, at all times.
THEOREM WindowInvariance == Spec => []WindowInv
  <1>1. Init => WindowInv
    <2> SUFFICES ASSUME Init, NEW u \in Users PROVE Logged(u)
      BY DEF WindowInv
    <2>1. Stems({}, log[u], [z \in {} |-> 0])
      BY DEF Stems
    <2> QED
      BY <2>1 DEF Init, Logged
  <1> QED
    BY <1>1, TypeCorrect, NextPreservesWindow, PTL DEF Spec

\* The indices of a log that satisfy a condition are finitely many.
LEMMA IndicesFinite ==
    ASSUME NEW T, NEW adm \in Seq(T), NEW S \in SUBSET DOMAIN adm
    PROVE  IsFiniteSet(S) /\ Cardinality(S) \in Nat
  <1>1. DOMAIN adm = 1..Len(adm) /\ Len(adm) \in Nat
    OBVIOUS
  <1>2. IsFiniteSet(1..Len(adm))
    BY <1>1, FS_Interval
  <1> QED
    BY <1>1, <1>2, FS_Subset, FS_CardinalityType

\* Whatever maps a set one-to-one into a finite one bounds its size.
LEMMA OneToOneBounds ==
    ASSUME NEW S, NEW T, IsFiniteSet(T), NEW f \in [S -> T],
           \A x, y \in S : f[x] = f[y] => x = y
    PROVE  IsFiniteSet(S) /\ Cardinality(S) <= Cardinality(T)
  <1>1. f \in Injection(S, T)
    BY DEF Injection, IsInjective
  <1> QED
    BY <1>1, FS_Injection

\* lua:23-28: who is turned away for its rate has Limit admissions of its user
\* that are younger than the window.
THEOREM RefusalsJustified == Spec => RefusalJustified
  <1>1. ASSUME TypeOK, WindowInv, [Next]_vars,
               NEW r \in Requests, pc[r] = "script", pc'[r] = "rate"
        PROVE  Cardinality({i \in DOMAIN log[user[r]] :
                   log[user[r]][i] > now[r] - Window}) >= Limit
    <2>1. Verdict(r) = "rate"
      <3>1. pc \in [Requests -> Stages]
        BY <1>1 DEF TypeOK
      <3>2. ASSUME NEW q \in Requests, NEW s, pc' = [pc EXCEPT ![q] = s], s # "rate" PROVE FALSE
        BY <1>1, <3>1, <3>2
      <3>3. ASSUME NEW q \in Requests, RunScript(q) PROVE Verdict(r) = "rate"
        BY <1>1, <3>1, <3>3 DEF RunScript, Goto
      <3>4. ASSUME NEW q \in Requests, Step(q) PROVE RunScript(q)
        <4>1. ASSUME NEW n \in Estimates, Arrive(q, n) PROVE FALSE
          BY <3>2, <4>1 DEF Arrive, Goto
        <4>2. Seed(q) \/ SeedFails(q) \/ ReadClock(q) \/ ScriptFails(q) => FALSE
          BY <3>2 DEF Seed, SeedFails, ReadClock, ScriptFails, Goto
        <4>3. ScriptAgain(q) \/ SettleAgain(q) => FALSE
          BY <1>1 DEF ScriptAgain, SettleAgain, requestVars
        <4>4. ASSUME NEW a \in Actuals, Used(q, a) PROVE FALSE
          BY <3>2, <4>4 DEF Used, Goto
        <4>5. Settle(q) \/ SettleFails(q) \/ Crash(q) => FALSE
          BY <3>2 DEF Settle, SettleFails, Crash, Goto
        <4> QED
          BY <3>4, <4>1, <4>2, <4>3, <4>4, <4>5 DEF Step
      <3>5. RedisRestart \/ Tick \/ UNCHANGED vars => FALSE
        BY <1>1 DEF RedisRestart, Tick, vars, requestVars
      <3> QED
        BY <1>1, <3>3, <3>4, <3>5 DEF Next
    <2>2. PICK u \in Users : u = user[r]
      BY <1>1 DEF TypeOK
    <2> DEFINE L == Live(u, now[r])
               E == {i \in DOMAIN log[u] : log[u][i] > now[r] - Window}
    <2>3. /\ L \in SUBSET zset[u] /\ log[u] \in Seq(Nat) /\ IsFiniteSet(zset[u])
          /\ now[r] \in Nat
      BY <1>1, <2>2 DEF TypeOK, Live
    <2>a. Cardinality(L) \in Nat
      BY <2>3, FS_Subset, FS_CardinalityType
    <2>4. Cardinality(L) >= Limit
      BY <2>1, <2>2 DEF Verdict
    <2>5. PICK j : Stems(L, log[u], j)
      <3>1. PICK k : Stems(zset[u], log[u], k)
        BY <1>1 DEF WindowInv, Logged
      <3> QED
        BY <2>3, <3>1, StemsShrinks
    <2>6. \A z \in L : j[z] \in E
      <3> SUFFICES ASSUME NEW z \in L PROVE j[z] \in E
        OBVIOUS
      <3>1. j[z] \in DOMAIN log[u] /\ z.score = log[u][j[z]] /\ z.score > now[r] - Window
        BY <2>5 DEF Stems, Live
      <3> QED
        BY <3>1
    <2>7. IsFiniteSet(E) /\ Cardinality(E) \in Nat
      <3>1. E \in SUBSET DOMAIN log[u]
        OBVIOUS
      <3> HIDE DEF E
      <3> QED
        BY <2>3, <3>1, IndicesFinite
    <2>8. Cardinality(L) <= Cardinality(E)
      <3> HIDE DEF L, E
      <3>1. j \in [L -> E] /\ \A y, z \in L : j[y] = j[z] => y = z
        BY <2>5, <2>6 DEF Stems
      <3> QED
        BY <2>7, <3>1, OneToOneBounds
    <2>9. Cardinality(E) >= Limit
      <3> HIDE DEF L, E
      <3> QED
        BY <2>a, <2>4, <2>7, <2>8, LimiterAssumption
    <2> QED
      BY <2>2, <2>9
  <1>2. TypeOK /\ WindowInv /\ [Next]_vars =>
            [\A r \in Requests : pc[r] = "script" /\ pc'[r] = "rate" =>
                Cardinality({i \in DOMAIN log[user[r]] :
                    log[user[r]][i] > now[r] - Window}) >= Limit]_vars
    BY <1>1
  <1> QED
    BY <1>2, TypeCorrect, WindowInvariance, PTL DEF Spec, RefusalJustified
============================================================================
