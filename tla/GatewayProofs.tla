--------------------------- MODULE GatewayProofs ---------------------------
(***************************************************************************)
(* Proofs about the request handler, for every number of attempts,         *)
(* endpoints, requests, statuses and usages: how it settles, whom it       *)
(* calls, what it does to the pool and its breakers, and what the client   *)
(* gets.  The facts about the pool are those of RoutingProofs.             *)
(***************************************************************************)
EXTENDS Gateway, RoutingProofs

(***************************************************************************)
(* The inductive invariant, a conjunction over the requests.               *)
(***************************************************************************)

\* Where forward is and how far its Pick is.
StageMatchesPick(r) ==
    /\ pc[r] = "route" => pick[r].pc # "idle"
    /\ pc[r] \in {"call", "body"} => Got(r)
    /\ pc[r] \notin {"route", "call", "body"} => pick[r].pc = "idle"

Waiting(r) == pc[r] \in {"idle", "auth", "quota"}

\* Before PreDeduct there is nothing to settle and nobody was called.
Untouched(r) ==
    Waiting(r) => /\ ~held[r] /\ tried[r] = <<>> /\ settled[r] = <<>>
                  /\ attempt[r] = 0 /\ late[r] = 0

\* The reservation is held until it is settled, once.
Reserved(r) ==
    /\ pc[r] \in {"route", "call", "body", "sleep", "settle"} => held[r] /\ settled[r] = <<>>
    /\ pc[r] = "done" => Len(settled[r]) = IF held[r] THEN 1 ELSE 0
    /\ tried[r] # <<>> => held[r]

\* What was called is excluded, or is being called; the one Pick returned is
\* not excluded; and every attempt called at most one.
Excluded(r) ==
    /\ IsInjective(tried[r])
    /\ pc[r] \in {"route", "sleep"} => \A i \in DOMAIN tried[r] : tried[r][i] \in pick[r].exclude
    /\ pc[r] \in {"call", "body"} =>
          \A i \in DOMAIN tried[r] : tried[r][i] \in pick[r].exclude \cup {pick[r].chosen}
    /\ pc[r] = "route" /\ Got(r) => pick[r].chosen \notin pick[r].exclude

Counted(r) ==
    /\ Len(tried[r]) <= MaxAttempts
    /\ pc[r] = "route" => Len(tried[r]) <= attempt[r] /\ attempt[r] < MaxAttempts
    /\ pc[r] \in {"call", "body", "sleep"} =>
          Len(tried[r]) <= attempt[r] + 1 /\ attempt[r] < MaxAttempts

\* A call that began after the client was gone is the last one.
LastCall(r) ==
    /\ late[r] <= 1
    /\ late[r] # 0 => gone[r] /\ pc[r] \in {"call", "body", "settle", "done"}

\* The usage on its way to SettleQuota is that of the last call, or none where
\* that call is not due.
Metered(r) ==
    /\ last[r].due => pc[r] \in {"settle", "done"}
    /\ pc[r] = "sleep" => usage[r] = last[r].usage
    /\ pc[r] = "settle" => usage[r] = last[r].usage \/ (usage[r] = NoUsage /\ ~last[r].due)
    /\ pc[r] = "done" /\ held[r] => \/ settled[r] = <<Actual(last[r].usage)>>
                                    \/ settled[r] = <<0>> /\ ~last[r].due

RequestInv(r) ==
    /\ StageMatchesPick(r)
    /\ Untouched(r)
    /\ Reserved(r)
    /\ Excluded(r)
    /\ Counted(r)
    /\ LastCall(r)
    /\ Metered(r)

GatewayInv ==
    /\ PoolInv
    /\ HandlerTypeOK
    /\ \A r \in Callers : RequestInv(r)

----------------------------------------------------------------------------

\* A step of r changes nothing of the other requests.
Only(r) ==
    \A q \in Callers \ {r} :
        /\ pc'[q] = pc[q] /\ pick'[q] = pick[q] /\ attempt'[q] = attempt[q]
        /\ usage'[q] = usage[q] /\ gone'[q] = gone[q] /\ held'[q] = held[q]
        /\ tried'[q] = tried[q] /\ late'[q] = late[q] /\ last'[q] = last[q]
        /\ settled'[q] = settled[q]

\* The invariant of another request survives.
LEMMA OthersKeep ==
    ASSUME NEW r \in Callers, Only(r), NEW q \in Callers \ {r}, RequestInv(q)
    PROVE  RequestInv(q)'
  <1>1. /\ pc'[q] = pc[q] /\ pick'[q] = pick[q] /\ attempt'[q] = attempt[q]
        /\ usage'[q] = usage[q] /\ gone'[q] = gone[q] /\ held'[q] = held[q]
        /\ tried'[q] = tried[q] /\ late'[q] = late[q] /\ last'[q] = last[q]
        /\ settled'[q] = settled[q]
    BY DEF Only
  <1>2. StageMatchesPick(q)' /\ Untouched(q)' /\ Reserved(q)'
    BY <1>1 DEF RequestInv, StageMatchesPick, Untouched, Waiting, Reserved, Got
  <1>3. Excluded(q)' /\ Counted(q)'
    BY <1>1 DEF RequestInv, Excluded, Counted, Got
  <1>4. LastCall(q)' /\ Metered(q)'
    BY <1>1 DEF RequestInv, LastCall, Metered
  <1> QED
    BY <1>2, <1>3, <1>4 DEF RequestInv

\* What is shown of every step of r.
Keep(r) == PoolInv' /\ HandlerTypeOK' /\ Only(r) /\ RequestInv(r)'

\* Every answer is a status.
LEMMA AnswerTyped ==
    ASSUME wrote \in [Callers -> Nat], NEW r \in Callers, NEW s \in Nat, Answer(r, s)
    PROVE  wrote' \in [Callers -> Nat]
  BY DEF Answer

\* So is what an error is answered with.
LEMMA ErrorStatusTyped ==
    ASSUME NEW err \in Statuses \cup {NoStatus, NoError, OwnError}
    PROVE  ErrorStatus(err) \in Nat
  BY GatewayAssumption DEF ErrorStatus, NoStatus, NoError, OwnError

\* What SettleQuota is told is a number.
LEMMA ActualTyped ==
    ASSUME NEW u \in UsageRecords \cup {NoUsage}
    PROVE  Actual(u) \in Int
  BY DEF Actual, UsageRecords

\* Estimating completes a usage record.
LEMMA EstimateTyped ==
    ASSUME NEW u \in Usages, NEW text \in Generated
    PROVE  UsageOrEstimate(u, text) \in UsageRecords
  <1> DEFINE completion == IF u.completion = 0 THEN text ELSE u.completion
             estimate == [u EXCEPT !.completion = completion, !.total = u.prompt + completion]
  <1>1. u \in UsageRecords /\ u.prompt \in Int /\ u.completion \in Int /\ text \in Int
    BY GatewayAssumption DEF UsageRecords
  <1>2. completion \in Int /\ u.prompt + completion \in Int
    BY <1>1
  <1> HIDE DEF completion
  <1>3. estimate \in UsageRecords
    BY <1>1, <1>2 DEF UsageRecords
  <1>4. UsageOrEstimate(u, text) \in {u, estimate}
    BY DEF UsageOrEstimate, completion
  <1> QED
    BY <1>1, <1>3, <1>4

\* r is outside of Pick and stays there, perhaps after a Report.
LEMMA PickOver ==
    ASSUME PoolInv, NEW r \in Callers, ~Picking(r), NEW p \in PickRecord,
           p.pc \notin {"allow", "retry", "got"}, pick' = [pick EXCEPT ![r] = p], UNCHANGED lock,
           UNCHANGED members \/ \E o : members' = Reported(members, pick[r].chosen, o)
    PROVE  PoolInv' /\ pick'[r] = p /\ \A q \in Callers \ {r} : pick'[q] = pick[q]
  <1>1. MembersOK(members') /\ Keeps(members, members')
    <2>1. CASE UNCHANGED members
      BY <2>1 DEF PoolInv, Keeps
    <2>2. ASSUME NEW o, members' = Reported(members, pick[r].chosen, o)
          PROVE  MembersOK(members') /\ Keeps(members, members')
      BY <2>2, ReportedKeeps DEF PoolInv
    <2> QED
      BY <2>1, <2>2
  <1>2. PoolInv'
    BY <1>1, OutsidePick
  <1> QED
    BY <1>2 DEF PoolInv

\* The records a request leaves behind when an attempt is over.
LEMMA PickRecords ==
    ASSUME PoolInv, NEW r \in Callers, NEW next \in {"pick", "idle"}
    PROVE  /\ NoPick \in PickRecord /\ NoPick.pc = "idle"
           /\ LET p == [NoPick EXCEPT !.pc = next, !.model = pick[r].model,
                                      !.exclude = Excluding(r)]
              IN  p \in PickRecord /\ p.pc = next /\ p.exclude = Excluding(r)
           /\ pick[r].exclude \subseteq Excluding(r)
           /\ Got(r) => Excluding(r) = pick[r].exclude \cup {pick[r].chosen}
  <1>1. pick[r] \in PickRecord
    BY DEF PoolInv
  <1>2. NoPick \in PickRecord /\ NoPick.pc = "idle"
    BY DEF NoPick, PickRecord, Nobody
  <1>3. Excluding(r) \in SUBSET Endpoints /\ pick[r].exclude \subseteq Excluding(r)
    BY <1>1 DEF Excluding, PickRecord
  <1>4. pick[r].model \in Models \cup {Nobody}
    BY <1>1 DEF PickRecord
  <1>5. Got(r) => Excluding(r) = pick[r].exclude \cup {pick[r].chosen}
    BY PoolAssumption DEF PoolInv, ReturnsEndpoint, Excluding
  <1> HIDE DEF Excluding
  <1> QED
    BY <1>2, <1>3, <1>4, <1>5 DEF PickRecord

\* ServeHTTP up to the limiter.
LEMMA FrontKeeps ==
    ASSUME GatewayInv, NEW r \in Callers,
           Start(r) \/ Authenticate(r) \/ \E s \in {400, 401, 503} : Reject(r, s)
    PROVE  Keep(r)
  <1> USE DEF GatewayInv, HandlerTypeOK
  <1>1. /\ UNCHANGED poolVars /\ UNCHANGED callVars /\ UNCHANGED gone /\ UNCHANGED historyVars
        /\ Waiting(r)
    BY DEF Start, Authenticate, Reject, Waiting
  <1>2. PICK stage \in {"auth", "quota", "done"} : pc' = [pc EXCEPT ![r] = stage]
    BY DEF Start, Authenticate, Reject, Goto
  <1>3. wrote' \in [Callers -> Nat]
    <2>1. ASSUME NEW s \in {400, 401, 503}, Reject(r, s) PROVE wrote' \in [Callers -> Nat]
      BY <2>1, AnswerTyped DEF Reject
    <2>2. Start(r) \/ Authenticate(r) => UNCHANGED wrote
      BY DEF Start, Authenticate
    <2> QED
      BY <2>1, <2>2
  <1>4. PoolInv'
    <2>1. MembersOK(members') /\ Keeps(members, members') /\ UNCHANGED <<lock, pick>>
      BY <1>1 DEF poolVars, PoolInv, Keeps
    <2> QED
      BY <2>1, OnlyMembersMove
  <1>5. pc' \in [Callers -> Stages] /\ pc'[r] = stage
    BY <1>2 DEF Stages
  <1>6. HandlerTypeOK'
    BY <1>1, <1>3, <1>5 DEF callVars, historyVars
  <1>7. Only(r)
    BY <1>1, <1>2 DEF Only, poolVars, callVars, historyVars
  <1>8. /\ UNCHANGED pick /\ UNCHANGED attempt /\ UNCHANGED usage /\ UNCHANGED gone /\ UNCHANGED held
        /\ UNCHANGED tried /\ UNCHANGED late /\ UNCHANGED last
        /\ UNCHANGED settled
    BY <1>1 DEF poolVars, callVars, historyVars
  <1>9. RequestInv(r)
    OBVIOUS
  <1>10. StageMatchesPick(r)' /\ Untouched(r)' /\ Reserved(r)'
    BY <1>1, <1>5, <1>8, <1>9 DEF RequestInv, StageMatchesPick, Untouched, Waiting, Reserved
  <1>11. Excluded(r)' /\ Counted(r)'
    BY <1>1, <1>5, <1>8, <1>9 DEF RequestInv, Excluded, Counted, Waiting
  <1>12. LastCall(r)' /\ Metered(r)'
    BY <1>1, <1>5, <1>8, <1>9 DEF RequestInv, LastCall, Metered, Untouched, Waiting
  <1> QED
    BY <1>4, <1>6, <1>7, <1>10, <1>11, <1>12 DEF Keep, RequestInv

\* SettleQuota.
LEMMA SettleKeeps ==
    ASSUME GatewayInv, NEW r \in Callers, Settle(r)
    PROVE  Keep(r)
  <1> USE DEF GatewayInv, HandlerTypeOK
  <1>1. /\ UNCHANGED members /\ UNCHANGED lock /\ UNCHANGED pick
        /\ UNCHANGED <<attempt, lastErr, usage>> /\ UNCHANGED <<wrote, gone>>
        /\ UNCHANGED <<held, tried, late, from, last>>
    BY DEF Settle, poolVars, callVars
  <1>2. /\ pc[r] = "settle" /\ pc' = [pc EXCEPT ![r] = "done"]
        /\ settled' = [settled EXCEPT ![r] = Append(@, Actual(usage[r]))]
    BY DEF Settle, Goto
  <1>3. PoolInv'
    <2>1. MembersOK(members') /\ Keeps(members, members')
      BY <1>1 DEF PoolInv, Keeps
    <2> QED
      BY <1>1, <2>1, OnlyMembersMove
  <1>4. pc' \in [Callers -> Stages] /\ pc'[r] = "done"
    BY <1>2 DEF Stages
  <1>5. Actual(usage[r]) \in Int
    BY ActualTyped
  <1>6. settled' \in [Callers -> Seq(Int)] /\ settled'[r] = Append(settled[r], Actual(usage[r]))
    BY <1>2, <1>5
  <1>7. HandlerTypeOK'
    BY <1>1, <1>4, <1>6
  <1>8. Only(r)
    BY <1>1, <1>2 DEF Only
  <1>9. RequestInv(r) /\ held[r] /\ settled[r] = <<>>
    BY <1>2 DEF RequestInv, Reserved
  <1>10. settled'[r] = <<Actual(usage[r])>> /\ Len(settled'[r]) = 1
    BY <1>5, <1>6, <1>9
  <1>11. StageMatchesPick(r)' /\ Untouched(r)' /\ Reserved(r)'
    BY <1>1, <1>2, <1>4, <1>9, <1>10 DEF RequestInv, StageMatchesPick, Untouched, Waiting, Reserved
  <1>12. Excluded(r)' /\ Counted(r)'
    BY <1>1, <1>4, <1>9 DEF RequestInv, Excluded, Counted
  <1>13. LastCall(r)'
    BY <1>1, <1>2, <1>4, <1>9 DEF RequestInv, LastCall
  <1>14. Metered(r)'
    <2>1. usage[r] = last[r].usage \/ (usage[r] = NoUsage /\ ~last[r].due)
      BY <1>2, <1>9 DEF RequestInv, Metered
    <2>2. Actual(NoUsage) = 0
      BY DEF Actual
    <2> QED
      BY <1>1, <1>4, <1>10, <2>1, <2>2 DEF Metered
  <1> QED
    BY <1>3, <1>7, <1>8, <1>11, <1>12, <1>13, <1>14 DEF Keep, RequestInv

\* The client goes away.
LEMMA ClientGoneKeeps ==
    ASSUME GatewayInv, NEW r \in Callers, ClientGone(r)
    PROVE  Keep(r)
  <1> USE DEF GatewayInv, HandlerTypeOK
  <1>1. /\ UNCHANGED members /\ UNCHANGED lock /\ UNCHANGED pick /\ UNCHANGED pc
        /\ UNCHANGED <<attempt, lastErr, usage>> /\ UNCHANGED wrote
        /\ UNCHANGED <<held, tried, late, from, last, settled>>
    BY DEF ClientGone, poolVars, callVars, historyVars
  <1>2. gone' = [gone EXCEPT ![r] = TRUE]
    BY DEF ClientGone
  <1>3. gone' \in [Callers -> BOOLEAN] /\ gone'[r] /\ \A q \in Callers \ {r} : gone'[q] = gone[q]
    BY <1>2
  <1>4. PoolInv'
    <2>1. MembersOK(members') /\ Keeps(members, members')
      BY <1>1 DEF PoolInv, Keeps
    <2> QED
      BY <1>1, <2>1, OnlyMembersMove
  <1>5. HandlerTypeOK' /\ Only(r)
    BY <1>1, <1>3 DEF Only
  <1>6. RequestInv(r)
    OBVIOUS
  <1>7. StageMatchesPick(r)' /\ Untouched(r)' /\ Reserved(r)'
    BY <1>1, <1>6 DEF RequestInv, StageMatchesPick, Untouched, Waiting, Reserved, Got
  <1>8. Excluded(r)' /\ Counted(r)'
    BY <1>1, <1>6 DEF RequestInv, Excluded, Counted, Got
  <1>9. LastCall(r)' /\ Metered(r)'
    BY <1>1, <1>3, <1>6 DEF RequestInv, LastCall, Metered
  <1> QED
    BY <1>4, <1>5, <1>7, <1>8, <1>9 DEF Keep, RequestInv

\* PreDeduct: the gateway goes on only with a reservation.
LEMMA PreDeductKeeps ==
    ASSUME GatewayInv, NEW r \in Callers, NEW m \in Models, NEW v \in Verdicts, PreDeduct(r, m, v)
    PROVE  Keep(r)
  <1> USE DEF GatewayInv, HandlerTypeOK
  <1>1. /\ UNCHANGED members /\ UNCHANGED lock /\ UNCHANGED gone
        /\ UNCHANGED <<attempt, lastErr, usage>>
        /\ UNCHANGED <<tried, late, from, last, settled>>
        /\ pc[r] = "quota" /\ held' = [held EXCEPT ![r] = (v = "ok")]
    BY DEF PreDeduct, callVars
  <1>2. held' \in [Callers -> BOOLEAN] /\ held'[r] = (v = "ok")
    BY <1>1
  <1>3. /\ RequestInv(r) /\ pick[r].pc = "idle" /\ pick[r] \in PickRecord /\ ~Picking(r)
        /\ tried[r] = <<>> /\ settled[r] = <<>> /\ attempt[r] = 0 /\ late[r] = 0
    BY <1>1 DEF RequestInv, StageMatchesPick, Untouched, Waiting, PoolInv, Picking
  <1>4. Len(tried[r]) = 0 /\ DOMAIN tried[r] = {} /\ Len(settled[r]) = 0 /\ IsInjective(tried[r])
    BY <1>3 DEF IsInjective
  <1>5. MaxAttempts \in Nat /\ 0 < MaxAttempts
    BY GatewayAssumption
  <1>6. CASE v = "ok"
    <2> DEFINE p == [pick[r] EXCEPT !.pc = "pick", !.model = m]
    <2>1. /\ pc' = [pc EXCEPT ![r] = "route"] /\ UNCHANGED wrote /\ pick' = [pick EXCEPT ![r] = p]
      BY <1>6 DEF PreDeduct, Admits, Goto, PoolInv
    <2>2. p \in PickRecord /\ p.pc = "pick"
      BY <1>3 DEF PickRecord
    <2> HIDE DEF p
    <2>3. PoolInv' /\ pick'[r] = p /\ \A q \in Callers \ {r} : pick'[q] = pick[q]
      BY <1>1, <1>3, <2>1, <2>2, PickOver
    <2>4. pc' \in [Callers -> Stages] /\ pc'[r] = "route"
      BY <2>1 DEF Stages
    <2>5. HandlerTypeOK'
      BY <1>1, <1>2, <2>1, <2>4
    <2>6. Only(r)
      BY <1>1, <2>1, <2>3 DEF Only
    <2>7. held'[r]
      BY <1>2, <1>6
    <2>8. StageMatchesPick(r)' /\ Untouched(r)' /\ Reserved(r)'
      BY <1>1, <1>3, <2>2, <2>3, <2>4, <2>7 DEF StageMatchesPick, Untouched, Waiting, Reserved
    <2>9. Excluded(r)' /\ Counted(r)'
      BY <1>1, <1>3, <1>4, <1>5, <2>2, <2>3, <2>4 DEF Excluded, Counted, Got
    <2>10. LastCall(r)' /\ Metered(r)'
      BY <1>1, <1>3, <2>4 DEF RequestInv, LastCall, Metered
    <2> QED
      BY <2>3, <2>5, <2>6, <2>8, <2>9, <2>10 DEF Keep, RequestInv
  <1>7. CASE v # "ok"
    <2>1. /\ pc' = [pc EXCEPT ![r] = "done"] /\ UNCHANGED pick
          /\ Answer(r, LimiterErrorStatus(v))
      BY <1>7 DEF PreDeduct, Admits, Goto
    <2>2. wrote' \in [Callers -> Nat]
      <3>1. LimiterErrorStatus(v) \in Nat
        BY DEF LimiterErrorStatus
      <3> QED
        BY <2>1, <3>1, AnswerTyped
    <2>3. PoolInv'
      <3>1. MembersOK(members') /\ Keeps(members, members')
        BY <1>1 DEF PoolInv, Keeps
      <3> QED
        BY <1>1, <2>1, <3>1, OnlyMembersMove
    <2>4. pc' \in [Callers -> Stages] /\ pc'[r] = "done"
      BY <2>1 DEF Stages
    <2>5. HandlerTypeOK'
      BY <1>1, <1>2, <2>2, <2>4
    <2>6. Only(r)
      BY <1>1, <2>1 DEF Only
    <2>7. ~held'[r]
      BY <1>2, <1>7
    <2>8. StageMatchesPick(r)' /\ Untouched(r)' /\ Reserved(r)'
      BY <1>1, <1>3, <1>4, <2>1, <2>4, <2>7 DEF StageMatchesPick, Untouched, Waiting, Reserved
    <2>9. Excluded(r)' /\ Counted(r)'
      BY <1>1, <1>3, <1>4, <1>5, <2>4 DEF Excluded, Counted
    <2>10. LastCall(r)' /\ Metered(r)'
      BY <1>1, <1>3, <2>4, <2>7 DEF RequestInv, LastCall, Metered
    <2> QED
      BY <2>3, <2>5, <2>6, <2>8, <2>9, <2>10 DEF Keep, RequestInv
  <1> QED
    BY <1>6, <1>7

\* forward picks an endpoint.
LEMMA RouteStepKeeps ==
    ASSUME GatewayInv, NEW r \in Callers, RouteStep(r)
    PROVE  Keep(r)
  <1> USE DEF GatewayInv
  <1>1. /\ UNCHANGED pc /\ UNCHANGED wrote /\ UNCHANGED gone
        /\ UNCHANGED <<attempt, lastErr, usage>>
        /\ UNCHANGED <<held, tried, late, from, last, settled>>
        /\ pc[r] = "route" /\ PickStep(r)
    BY DEF RouteStep, gatewayVars, callVars, historyVars
  <1>2. PickEffect(r)
    BY <1>1, PickStepKeeps
  <1>3. /\ PoolInv' /\ \A q \in Callers \ {r} : pick'[q] = pick[q]
        /\ pick'[r].pc \in {"allow", "retry", "got", "none"}
        /\ pick[r].exclude \subseteq pick'[r].exclude
        /\ Got(r)' => pick'[r].chosen \notin pick'[r].exclude
    BY <1>2 DEF PickEffect
  <1>4. HandlerTypeOK' /\ Only(r)
    BY <1>1, <1>3 DEF Only, HandlerTypeOK
  <1>5. RequestInv(r)
    OBVIOUS
  <1>6. StageMatchesPick(r)' /\ Untouched(r)' /\ Reserved(r)'
    BY <1>1, <1>3, <1>5 DEF RequestInv, StageMatchesPick, Untouched, Waiting, Reserved, Got
  <1>7. Excluded(r)' /\ Counted(r)'
    BY <1>1, <1>3, <1>5 DEF RequestInv, Excluded, Counted
  <1>8. LastCall(r)' /\ Metered(r)'
    BY <1>1, <1>5 DEF RequestInv, LastCall, Metered
  <1> QED
    BY <1>3, <1>4, <1>6, <1>7, <1>8 DEF Keep, RequestInv

----------------------------------------------------------------------------
(* forward *)

\* In forward, outside of Pick.
Forwarding(r) == pc[r] \in {"route", "call", "body", "sleep"} /\ ~Picking(r)

\* forward returns with usage u, the last call's, or with none.
LEMMA ReturnKeeps ==
    ASSUME GatewayInv, NEW r \in Callers, Forwarding(r), NEW u \in UsageRecords \cup {NoUsage},
           ForwardReturns(r, u), UNCHANGED lock, UNCHANGED <<tried, late, held, settled, gone>>,
           UNCHANGED members \/ \E o : members' = Reported(members, pick[r].chosen, o),
           u = last'[r].usage \/ (u = NoUsage /\ ~last'[r].due)
    PROVE  /\ PoolInv' /\ RequestInv(r)'
           /\ pc' \in [Callers -> Stages] /\ usage' \in [Callers -> UsageRecords \cup {NoUsage}]
           /\ \A q \in Callers \ {r} :
                 pc'[q] = pc[q] /\ pick'[q] = pick[q] /\ usage'[q] = usage[q]
  <1> USE DEF GatewayInv, HandlerTypeOK
  <1>1. /\ pc' = [pc EXCEPT ![r] = "settle"] /\ usage' = [usage EXCEPT ![r] = u]
        /\ pick' = [pick EXCEPT ![r] = NoPick]
    BY DEF ForwardReturns, Goto
  <1>2. NoPick \in PickRecord /\ NoPick.pc = "idle"
    BY PickRecords
  <1>3. PoolInv' /\ pick'[r] = NoPick /\ \A q \in Callers \ {r} : pick'[q] = pick[q]
    BY <1>1, <1>2, PickOver DEF Forwarding
  <1>4. /\ pc' \in [Callers -> Stages] /\ pc'[r] = "settle"
        /\ \A q \in Callers \ {r} : pc'[q] = pc[q]
    BY <1>1 DEF Stages
  <1>5. /\ usage' \in [Callers -> UsageRecords \cup {NoUsage}] /\ usage'[r] = u
        /\ \A q \in Callers \ {r} : usage'[q] = usage[q]
    BY <1>1
  <1>6. RequestInv(r)
    OBVIOUS
  <1>7. StageMatchesPick(r)' /\ Untouched(r)'
    BY <1>2, <1>3, <1>4 DEF StageMatchesPick, Untouched, Waiting
  <1>8. Reserved(r)'
    BY <1>4, <1>6 DEF RequestInv, Reserved, Forwarding
  <1>9. Excluded(r)' /\ Counted(r)'
    BY <1>4, <1>6 DEF RequestInv, Excluded, Counted
  <1>10. LastCall(r)'
    BY <1>4, <1>6 DEF RequestInv, LastCall
  <1>11. Metered(r)'
    BY <1>4, <1>5 DEF Metered
  <1> QED
    BY <1>3, <1>4, <1>5, <1>7, <1>8, <1>9, <1>10, <1>11 DEF RequestInv

\* The loop's end, with or without attempts left.
LEMMA NextAttemptKeeps ==
    ASSUME GatewayInv, NEW r \in Callers,
           pc[r] = "sleep" \/ (pc[r] = "route" /\ Got(r)),
           NEW err \in Statuses \cup {NoStatus, NoError, OwnError}, NextAttempt(r, err),
           lastErr' \in [Callers -> Statuses \cup {NoStatus, NoError, OwnError}],
           UNCHANGED <<members, lock, gone>>, UNCHANGED historyVars
    PROVE  Keep(r)
  <1> USE DEF GatewayInv, HandlerTypeOK
  <1>1. /\ UNCHANGED members /\ UNCHANGED lock /\ UNCHANGED gone
        /\ UNCHANGED <<held, tried, late, from, last, settled>>
        /\ attempt' = [attempt EXCEPT ![r] = @ + 1]
    BY DEF NextAttempt, historyVars
  <1>2. RequestInv(r) /\ pick[r].pc \in {"idle", "got"} /\ Forwarding(r)
    BY DEF RequestInv, StageMatchesPick, Got, Forwarding, Picking
  <1>3. /\ attempt[r] \in 0..MaxAttempts /\ attempt[r] < MaxAttempts /\ MaxAttempts \in Nat
        /\ late[r] = 0 /\ ~last[r].due
        /\ Len(tried[r]) <= attempt[r] + 1 /\ Len(tried[r]) \in Nat
    BY <1>2, GatewayAssumption DEF RequestInv, Counted, LastCall, Metered
  <1>4. /\ attempt' \in [Callers -> 0..MaxAttempts] /\ attempt'[r] = attempt[r] + 1
        /\ \A q \in Callers \ {r} : attempt'[q] = attempt[q]
    BY <1>1, <1>3
  <1>5. CASE MoreAttempts(r)
    <2> DEFINE p == [NoPick EXCEPT !.pc = "pick", !.model = pick[r].model, !.exclude = Excluding(r)]
    <2>1. /\ pc' = [pc EXCEPT ![r] = "route"] /\ pick' = [pick EXCEPT ![r] = p]
          /\ usage' = [usage EXCEPT ![r] = NoUsage] /\ UNCHANGED wrote
      BY <1>5 DEF NextAttempt, Goto, GiveUpOn
    <2>2. /\ p \in PickRecord /\ p.pc = "pick" /\ p.exclude = Excluding(r)
          /\ pick[r].exclude \subseteq Excluding(r)
      BY PickRecords
    <2> HIDE DEF p
    <2>3. PoolInv' /\ pick'[r] = p /\ \A q \in Callers \ {r} : pick'[q] = pick[q]
      BY <1>1, <1>2, <2>1, <2>2, PickOver DEF Forwarding
    <2>4. /\ pc' \in [Callers -> Stages] /\ pc'[r] = "route"
          /\ usage' \in [Callers -> UsageRecords \cup {NoUsage}]
      BY <2>1 DEF Stages
    <2>5. HandlerTypeOK'
      BY <1>1, <1>4, <2>1, <2>4
    <2>6. Only(r)
      BY <1>1, <1>4, <2>1, <2>3 DEF Only
    <2>7. StageMatchesPick(r)' /\ Untouched(r)' /\ Reserved(r)'
      BY <1>1, <1>2, <2>2, <2>3, <2>4
         DEF RequestInv, StageMatchesPick, Untouched, Waiting, Reserved
    <2>8. Excluded(r)'
      BY <1>1, <1>2, <2>2, <2>3, <2>4 DEF RequestInv, Excluded, Got
    <2>9. Counted(r)'
      BY <1>1, <1>2, <1>3, <1>4, <1>5, <2>4 DEF RequestInv, Counted, MoreAttempts
    <2>10. LastCall(r)' /\ Metered(r)'
      BY <1>1, <1>3, <2>4 DEF LastCall, Metered
    <2> QED
      BY <2>3, <2>5, <2>6, <2>7, <2>8, <2>9, <2>10 DEF Keep, RequestInv
  <1>6. CASE ~MoreAttempts(r)
    <2>1. Answer(r, ErrorStatus(err)) /\ ForwardReturns(r, NoUsage)
      BY <1>6 DEF NextAttempt
    <2>2. wrote' \in [Callers -> Nat]
      BY <2>1, ErrorStatusTyped, AnswerTyped
    <2>3. ~last'[r].due
      BY <1>1, <1>3
    <2>4. /\ PoolInv' /\ RequestInv(r)'
          /\ pc' \in [Callers -> Stages] /\ usage' \in [Callers -> UsageRecords \cup {NoUsage}]
          /\ \A q \in Callers \ {r} :
                pc'[q] = pc[q] /\ pick'[q] = pick[q] /\ usage'[q] = usage[q]
      BY <1>1, <1>2, <2>1, <2>3, ReturnKeeps
    <2>5. HandlerTypeOK'
      BY <1>1, <1>4, <2>2, <2>4
    <2>6. Only(r)
      BY <1>1, <1>4, <2>4 DEF Only
    <2> QED
      BY <2>4, <2>5, <2>6 DEF Keep
  <1> QED
    BY <1>5, <1>6

\* A failed attempt: answered, or given up for another endpoint.
LEMMA FailedKeeps ==
    ASSUME GatewayInv, NEW r \in Callers, pc[r] \in {"call", "body"},
           NEW status \in Statuses \cup {NoStatus}, NEW u \in UsageRecords \cup {NoUsage},
           Failed(r, status, u)
    PROVE  Keep(r)
  <1> USE DEF GatewayInv, HandlerTypeOK
  <1>1. /\ UNCHANGED lock /\ UNCHANGED attempt /\ UNCHANGED gone
        /\ UNCHANGED <<held, tried, late, from, settled>>
        /\ lastErr' = [lastErr EXCEPT ![r] = status]
        /\ last' = [last EXCEPT ![r] = [usage |-> u, due |-> gone[r]]]
        /\ \E o : members' = Reported(members, pick[r].chosen, o)
    BY DEF Failed
  <1>2. lastErr' \in [Callers -> Statuses \cup {NoStatus, NoError, OwnError}]
    BY <1>1
  <1>3. /\ last' \in [Callers -> [usage : UsageRecords \cup {NoUsage}, due : BOOLEAN]]
        /\ last'[r].usage = u /\ last'[r].due = gone[r]
        /\ \A q \in Callers \ {r} : last'[q] = last[q]
    BY <1>1
  <1>4. RequestInv(r) /\ Got(r) /\ Forwarding(r)
    BY DEF RequestInv, StageMatchesPick, Got, Forwarding, Picking
  <1>5. CASE Stops(r, status)
    <2>1. Answer(r, ErrorStatus(status)) /\ ForwardReturns(r, u)
      BY <1>5 DEF Failed
    <2>2. wrote' \in [Callers -> Nat]
      BY <2>1, ErrorStatusTyped, AnswerTyped
    <2>3. /\ PoolInv' /\ RequestInv(r)'
          /\ pc' \in [Callers -> Stages] /\ usage' \in [Callers -> UsageRecords \cup {NoUsage}]
          /\ \A q \in Callers \ {r} :
                pc'[q] = pc[q] /\ pick'[q] = pick[q] /\ usage'[q] = usage[q]
      BY <1>1, <1>3, <1>4, <2>1, ReturnKeeps
    <2>4. HandlerTypeOK'
      BY <1>1, <1>2, <1>3, <2>2, <2>3
    <2>5. Only(r)
      BY <1>1, <1>3, <2>3 DEF Only
    <2> QED
      BY <2>3, <2>4, <2>5 DEF Keep
  <1>6. CASE ~Stops(r, status)
    <2> DEFINE p == [NoPick EXCEPT !.pc = "idle", !.model = pick[r].model, !.exclude = Excluding(r)]
    <2>1. /\ pc' = [pc EXCEPT ![r] = "sleep"] /\ pick' = [pick EXCEPT ![r] = p]
          /\ usage' = [usage EXCEPT ![r] = u] /\ UNCHANGED wrote /\ ~gone[r]
      BY <1>6 DEF Failed, Goto, GiveUpOn, Stops
    <2>2. /\ p \in PickRecord /\ p.pc = "idle" /\ p.exclude = pick[r].exclude \cup {pick[r].chosen}
      BY <1>4, PickRecords
    <2> HIDE DEF p
    <2>3. PoolInv' /\ pick'[r] = p /\ \A q \in Callers \ {r} : pick'[q] = pick[q]
      BY <1>1, <1>4, <2>1, <2>2, PickOver DEF Forwarding
    <2>4. /\ pc' \in [Callers -> Stages] /\ pc'[r] = "sleep"
          /\ usage' \in [Callers -> UsageRecords \cup {NoUsage}] /\ usage'[r] = u
      BY <2>1 DEF Stages
    <2>5. HandlerTypeOK'
      BY <1>1, <1>2, <1>3, <2>1, <2>4
    <2>6. Only(r)
      BY <1>1, <1>3, <2>1, <2>3 DEF Only
    <2>7. StageMatchesPick(r)' /\ Untouched(r)' /\ Reserved(r)'
      BY <1>1, <1>4, <2>2, <2>3, <2>4
         DEF RequestInv, StageMatchesPick, Untouched, Waiting, Reserved
    <2>8. Excluded(r)'
      BY <1>1, <1>4, <2>2, <2>3, <2>4 DEF RequestInv, Excluded
    <2>9. Counted(r)'
      BY <1>1, <1>4, <2>4 DEF RequestInv, Counted
    <2>10. LastCall(r)'
      BY <1>1, <1>4, <2>1 DEF RequestInv, LastCall
    <2>11. Metered(r)'
      BY <1>3, <2>1, <2>4 DEF Metered
    <2> QED
      BY <2>3, <2>5, <2>6, <2>7, <2>8, <2>9, <2>10, <2>11 DEF Keep, RequestInv
  <1> QED
    BY <1>5, <1>6

\* A successful attempt ends with usage u.
LEMMA SucceededKeeps ==
    ASSUME GatewayInv, NEW r \in Callers, pc[r] \in {"call", "body"}, NEW u \in UsageRecords,
           Succeeded(r, u), wrote' \in [Callers -> Nat], from' \in [Callers -> SUBSET Endpoints]
    PROVE  Keep(r)
  <1> USE DEF GatewayInv, HandlerTypeOK
  <1>1. /\ UNCHANGED lock /\ UNCHANGED attempt /\ UNCHANGED gone
        /\ UNCHANGED lastErr /\ UNCHANGED <<held, tried, late, settled>> /\ ForwardReturns(r, u)
        /\ last' = [last EXCEPT ![r] = [usage |-> u, due |-> TRUE]]
        /\ \E o : members' = Reported(members, pick[r].chosen, o)
    BY DEF Succeeded
  <1>2. /\ last' \in [Callers -> [usage : UsageRecords \cup {NoUsage}, due : BOOLEAN]]
        /\ last'[r].usage = u
        /\ \A q \in Callers \ {r} : last'[q] = last[q]
    BY <1>1
  <1>3. Forwarding(r)
    BY DEF RequestInv, StageMatchesPick, Got, Forwarding, Picking
  <1>4. /\ PoolInv' /\ RequestInv(r)'
        /\ pc' \in [Callers -> Stages] /\ usage' \in [Callers -> UsageRecords \cup {NoUsage}]
        /\ \A q \in Callers \ {r} :
              pc'[q] = pc[q] /\ pick'[q] = pick[q] /\ usage'[q] = usage[q]
    BY <1>1, <1>2, <1>3, ReturnKeeps
  <1>5. HandlerTypeOK'
    BY <1>1, <1>2, <1>4
  <1>6. Only(r)
    BY <1>1, <1>2, <1>4 DEF Only
  <1> QED
    BY <1>4, <1>5, <1>6 DEF Keep

\* forward's own steps.
LEMMA OwnStepKeeps ==
    ASSUME GatewayInv, NEW r \in Callers, OwnStep(r)
    PROVE  Keep(r)
  <1> USE DEF GatewayInv, HandlerTypeOK
  <1>a. RequestInv(r) /\ pick[r] \in PickRecord
    BY DEF PoolInv
  <1>1. ASSUME NoneLeft(r) PROVE Keep(r)
    <2>1. /\ UNCHANGED members /\ UNCHANGED lock /\ UNCHANGED attempt
          /\ UNCHANGED lastErr /\ UNCHANGED gone
          /\ UNCHANGED <<held, tried, late, from, last, settled>>
          /\ ForwardReturns(r, NoUsage) /\ pc[r] = "route" /\ pick[r].pc = "none"
          /\ Answer(r, IF lastErr[r] = NoError THEN 400 ELSE 502)
      BY <1>1 DEF NoneLeft, historyVars
    <2>2. wrote' \in [Callers -> Nat]
      BY <2>1, AnswerTyped
    <2>3. Forwarding(r)
      BY <2>1 DEF Forwarding, Picking
    <2>4. ~last'[r].due
      BY <1>a, <2>1 DEF RequestInv, Metered
    <2>5. /\ PoolInv' /\ RequestInv(r)'
          /\ pc' \in [Callers -> Stages] /\ usage' \in [Callers -> UsageRecords \cup {NoUsage}]
          /\ \A q \in Callers \ {r} :
                pc'[q] = pc[q] /\ pick'[q] = pick[q] /\ usage'[q] = usage[q]
      BY <2>1, <2>3, <2>4, ReturnKeeps
    <2>6. HandlerTypeOK'
      BY <2>1, <2>2, <2>5
    <2>7. Only(r)
      BY <2>1, <2>5 DEF Only
    <2> QED
      BY <2>5, <2>6, <2>7 DEF Keep
  <1>2. ASSUME SleepCancelled(r) PROVE Keep(r)
    <2>1. /\ UNCHANGED members /\ UNCHANGED lock /\ UNCHANGED attempt
          /\ UNCHANGED lastErr /\ UNCHANGED gone
          /\ UNCHANGED <<held, tried, late, from, last, settled>>
          /\ ForwardReturns(r, usage[r]) /\ pc[r] = "sleep"
          /\ Answer(r, ErrorStatus(lastErr[r]))
      BY <1>2 DEF SleepCancelled, historyVars
    <2>2. wrote' \in [Callers -> Nat]
      BY <2>1, AnswerTyped, ErrorStatusTyped
    <2>3. Forwarding(r)
      BY <1>a, <2>1 DEF RequestInv, StageMatchesPick, Forwarding, Picking
    <2>4. usage[r] = last'[r].usage
      BY <1>a, <2>1 DEF RequestInv, Metered
    <2>5. /\ PoolInv' /\ RequestInv(r)'
          /\ pc' \in [Callers -> Stages] /\ usage' \in [Callers -> UsageRecords \cup {NoUsage}]
          /\ \A q \in Callers \ {r} :
                pc'[q] = pc[q] /\ pick'[q] = pick[q] /\ usage'[q] = usage[q]
      BY <2>1, <2>3, <2>4, ReturnKeeps
    <2>6. HandlerTypeOK'
      BY <2>1, <2>2, <2>5
    <2>7. Only(r)
      BY <2>1, <2>5 DEF Only
    <2> QED
      BY <2>5, <2>6, <2>7 DEF Keep
  <1>3. ASSUME UnknownProvider(r) PROVE Keep(r)
    <2>1. /\ UNCHANGED <<members, lock, gone>> /\ UNCHANGED historyVars
          /\ lastErr' = [lastErr EXCEPT ![r] = OwnError] /\ NextAttempt(r, OwnError)
          /\ pc[r] = "route" /\ Got(r)
      BY <1>3 DEF UnknownProvider, Got
    <2>2. lastErr' \in [Callers -> Statuses \cup {NoStatus, NoError, OwnError}]
      BY <2>1
    <2> QED
      BY <2>1, <2>2, NextAttemptKeeps
  <1>4. ASSUME Wakes(r) PROVE Keep(r)
    <2>1. /\ UNCHANGED <<members, lock, gone>> /\ UNCHANGED historyVars
          /\ UNCHANGED lastErr /\ NextAttempt(r, lastErr[r]) /\ pc[r] = "sleep"
      BY <1>4 DEF Wakes
    <2> QED
      BY <2>1, NextAttemptKeeps
  <1>5. ASSUME Call(r) PROVE Keep(r)
    <2>1. /\ UNCHANGED members /\ UNCHANGED lock /\ UNCHANGED pick
          /\ UNCHANGED <<attempt, lastErr, usage>> /\ UNCHANGED wrote /\ UNCHANGED gone
          /\ UNCHANGED <<held, from, settled>>
          /\ pc[r] = "route" /\ Got(r) /\ pc' = [pc EXCEPT ![r] = "call"]
          /\ tried' = [tried EXCEPT ![r] = Append(@, pick[r].chosen)]
          /\ late' = [late EXCEPT ![r] = IF gone[r] THEN @ + 1 ELSE @]
          /\ last' = [last EXCEPT ![r] = [usage |-> NoUsage, due |-> FALSE]]
      BY <1>5 DEF Call, Goto, Got, poolVars, callVars
    <2>2. pick[r].chosen \in Endpoints
      BY <2>1 DEF PoolInv, ReturnsEndpoint
    <2>3. tried' \in [Callers -> Seq(Endpoints)] /\ tried'[r] = Append(tried[r], pick[r].chosen)
      BY <2>1, <2>2
    <2>4. /\ late' \in [Callers -> Nat] /\ late[r] = 0 /\ late'[r] \in {0, 1}
          /\ late'[r] # 0 => gone[r]
      BY <1>a, <2>1 DEF RequestInv, LastCall
    <2>5. /\ pc' \in [Callers -> Stages] /\ pc'[r] = "call"
          /\ last' \in [Callers -> [usage : UsageRecords \cup {NoUsage}, due : BOOLEAN]]
          /\ ~last'[r].due
      BY <2>1 DEF Stages
    <2>6. PoolInv'
      <3>1. MembersOK(members') /\ Keeps(members, members')
        BY <2>1 DEF PoolInv, Keeps
      <3> QED
        BY <2>1, <3>1, OnlyMembersMove
    <2>7. HandlerTypeOK'
      BY <2>1, <2>3, <2>4, <2>5
    <2>8. Only(r)
      BY <2>1 DEF Only
    <2>9. StageMatchesPick(r)' /\ Untouched(r)' /\ Reserved(r)'
      BY <1>a, <2>1, <2>5 DEF RequestInv, StageMatchesPick, Untouched, Waiting, Reserved, Got
    <2>10. /\ Len(tried'[r]) = Len(tried[r]) + 1 /\ Len(tried[r]) \in Nat
           /\ DOMAIN tried'[r] = 1..(Len(tried[r]) + 1) /\ DOMAIN tried[r] = 1..Len(tried[r])
           /\ \A i \in 1..Len(tried[r]) : tried'[r][i] = tried[r][i]
           /\ tried'[r][Len(tried[r]) + 1] = pick[r].chosen
      BY <2>2, <2>3
    <2>11. /\ \A i \in 1..Len(tried[r]) : tried[r][i] \in pick[r].exclude
           /\ pick[r].chosen \notin pick[r].exclude /\ IsInjective(tried[r])
      BY <1>a, <2>1, <2>10 DEF RequestInv, Excluded
    <2>12. IsInjective(tried'[r])
      <3> SUFFICES ASSUME NEW i \in 1..(Len(tried[r]) + 1), NEW j \in 1..(Len(tried[r]) + 1),
                          tried'[r][i] = tried'[r][j]
                   PROVE  i = j
        BY <2>10 DEF IsInjective
      <3>1. CASE i = Len(tried[r]) + 1 /\ j # Len(tried[r]) + 1
        <4>1. j \in 1..Len(tried[r])
          BY <2>10, <3>1
        <4> QED
          BY <2>10, <2>11, <3>1, <4>1
      <3>2. CASE j = Len(tried[r]) + 1 /\ i # Len(tried[r]) + 1
        <4>1. i \in 1..Len(tried[r])
          BY <2>10, <3>2
        <4> QED
          BY <2>10, <2>11, <3>2, <4>1
      <3>3. CASE i # Len(tried[r]) + 1 /\ j # Len(tried[r]) + 1
        <4>1. i \in 1..Len(tried[r]) /\ j \in 1..Len(tried[r])
          BY <2>10, <3>3
        <4> QED
          BY <2>10, <2>11, <4>1 DEF IsInjective
      <3> QED
        BY <3>1, <3>2, <3>3
    <2>13. \A i \in DOMAIN tried'[r] : tried'[r][i] \in pick[r].exclude \cup {pick[r].chosen}
      <3> SUFFICES ASSUME NEW i \in 1..(Len(tried[r]) + 1)
                   PROVE  tried'[r][i] \in pick[r].exclude \cup {pick[r].chosen}
        BY <2>10
      <3>1. i \in 1..Len(tried[r]) \/ i = Len(tried[r]) + 1
        BY <2>10
      <3> QED
        BY <2>10, <2>11, <3>1
    <2>14. Excluded(r)'
      BY <2>1, <2>5, <2>12, <2>13 DEF Excluded
    <2>15. Counted(r)'
      BY <1>a, <2>1, <2>5, <2>10, GatewayAssumption DEF RequestInv, Counted
    <2>16. LastCall(r)'
      BY <2>1, <2>4, <2>5 DEF LastCall
    <2>17. Metered(r)'
      BY <2>5 DEF Metered
    <2> QED
      BY <2>6, <2>7, <2>8, <2>9, <2>14, <2>15, <2>16, <2>17 DEF Keep, RequestInv
  <1> QED
    BY <1>1, <1>2, <1>3, <1>4, <1>5, PreDeductKeeps, RouteStepKeeps, SettleKeeps DEF OwnStep

\* What the client and the upstream make happen.
LEMMA PeerStepKeeps ==
    ASSUME GatewayInv, NEW r \in Callers, PeerStep(r)
    PROVE  Keep(r)
  <1> USE DEF GatewayInv, HandlerTypeOK
  <1>a. RequestInv(r) /\ pick[r] \in PickRecord
    BY DEF PoolInv
  <1>b. ASSUME pc[r] \in {"call", "body"} PROVE Got(r) /\ pick[r].chosen \in Endpoints
    BY <1>a, <1>b DEF RequestInv, StageMatchesPick, PoolInv, ReturnsEndpoint
  <1>1. ASSUME Authenticate(r) \/ \E s \in {400, 401, 503} : Reject(r, s) PROVE Keep(r)
    BY <1>1, FrontKeeps
  <1>2. ASSUME NEW s \in Statuses \cup {NoStatus}, pc[r] = "call", Failed(r, s, NoUsage)
        PROVE  Keep(r)
    BY <1>2, FailedKeeps
  <1>3. ASSUME NEW u \in Usages, ChatReturns(r, u) PROVE Keep(r)
    <2>1. /\ pc[r] = "call" /\ Succeeded(r, u) /\ Answer(r, 200)
          /\ from' = [from EXCEPT ![r] = @ \cup {pick[r].chosen}]
      BY <1>3 DEF ChatReturns, SendsOutput
    <2>2. wrote' \in [Callers -> Nat]
      BY <2>1, AnswerTyped
    <2>3. from' \in [Callers -> SUBSET Endpoints]
      BY <1>b, <2>1
    <2>4. u \in UsageRecords
      BY GatewayAssumption
    <2> QED
      BY <2>1, <2>2, <2>3, <2>4, SucceededKeeps
  <1>4. ASSUME StreamOpens(r) PROVE Keep(r)
    <2>1. /\ UNCHANGED members /\ UNCHANGED lock /\ UNCHANGED pick
          /\ UNCHANGED <<attempt, lastErr, usage>> /\ UNCHANGED gone
          /\ UNCHANGED <<held, tried, late, from, last, settled>>
          /\ pc[r] = "call" /\ pc' = [pc EXCEPT ![r] = "body"]
          /\ Answer(r, 200)
      BY <1>4 DEF StreamOpens, Goto, poolVars, callVars, historyVars
    <2>2. wrote' \in [Callers -> Nat]
      BY <2>1, AnswerTyped
    <2>3. pc' \in [Callers -> Stages] /\ pc'[r] = "body"
      BY <2>1 DEF Stages
    <2>4. PoolInv'
      <3>1. MembersOK(members') /\ Keeps(members, members')
        BY <2>1 DEF PoolInv, Keeps
      <3> QED
        BY <2>1, <3>1, OnlyMembersMove
    <2>5. HandlerTypeOK'
      BY <2>1, <2>2, <2>3
    <2>6. Only(r)
      BY <2>1 DEF Only
    <2>7. StageMatchesPick(r)' /\ Untouched(r)' /\ Reserved(r)'
      BY <1>a, <2>1, <2>3 DEF RequestInv, StageMatchesPick, Untouched, Waiting, Reserved, Got
    <2>8. Excluded(r)' /\ Counted(r)'
      BY <1>a, <2>1, <2>3 DEF RequestInv, Excluded, Counted
    <2>9. LastCall(r)' /\ Metered(r)'
      BY <1>a, <2>1, <2>3 DEF RequestInv, LastCall, Metered
    <2> QED
      BY <2>4, <2>5, <2>6, <2>7, <2>8, <2>9 DEF Keep, RequestInv
  <1>5. ASSUME NEW u \in UsageRecords, Chunk(r, u) PROVE Keep(r)
    <2>1. /\ pc[r] = "body" /\ UNCHANGED wrote
          /\ from' = [from EXCEPT ![r] = @ \cup {pick[r].chosen}]
      BY <1>5 DEF Chunk, SendsOutput
    <2>2. from' \in [Callers -> SUBSET Endpoints]
      BY <1>b, <2>1
    <2>3. CASE gone[r]
      <3>1. Succeeded(r, u)
        BY <1>5, <2>3 DEF Chunk
      <3> QED
        BY <2>1, <2>2, <3>1, SucceededKeeps
    <2>4. CASE ~gone[r]
      <3>1. /\ UNCHANGED members /\ UNCHANGED lock /\ UNCHANGED pick /\ UNCHANGED pc
            /\ UNCHANGED <<attempt, lastErr, usage, gone>>
            /\ UNCHANGED <<held, tried, late, last, settled>>
        BY <1>5, <2>4 DEF Chunk, poolVars, callVars
      <3>2. PoolInv'
        <4>1. MembersOK(members') /\ Keeps(members, members')
          BY <3>1 DEF PoolInv, Keeps
        <4> QED
          BY <3>1, <4>1, OnlyMembersMove
      <3>3. HandlerTypeOK'
        BY <2>1, <2>2, <3>1
      <3>4. Only(r)
        BY <3>1 DEF Only
      <3>5. StageMatchesPick(r)' /\ Untouched(r)' /\ Reserved(r)'
        BY <1>a, <3>1 DEF RequestInv, StageMatchesPick, Untouched, Waiting, Reserved, Got
      <3>6. Excluded(r)' /\ Counted(r)'
        BY <1>a, <3>1 DEF RequestInv, Excluded, Counted, Got
      <3>7. LastCall(r)' /\ Metered(r)'
        BY <1>a, <3>1 DEF RequestInv, LastCall, Metered
      <3> QED
        BY <3>2, <3>3, <3>4, <3>5, <3>6, <3>7 DEF Keep, RequestInv
    <2> QED
      BY <2>3, <2>4
  <1>6. ASSUME NEW u \in UsageRecords, StreamEnds(r, u) PROVE Keep(r)
    BY <1>6, SucceededKeeps DEF StreamEnds
  <1>7. ASSUME NEW u \in UsageRecords, StreamBreaks(r, u) PROVE Keep(r)
    BY <1>7, FailedKeeps DEF StreamBreaks
  <1>8. ASSUME NEW u \in Usages, NEW text \in Generated, NEW cost, cost = UsageOrEstimate(u, text),
               Chunk(r, cost) \/ StreamEnds(r, cost) \/ StreamBreaks(r, cost)
        PROVE  Keep(r)
    BY <1>5, <1>6, <1>7, <1>8, EstimateTyped
  <1> QED
    BY <1>1, <1>2, <1>3, <1>4, <1>8 DEF PeerStep, Unreachable, Refused

\* No request has arrived yet.
LEMMA GatewayInitSound == GatewayInit => GatewayInv
  <1> SUFFICES ASSUME GatewayInit PROVE GatewayInv
    OBVIOUS
  <1> USE DEF GatewayInit
  <1>1. PoolInv
    BY PoolInitSound
  <1>2. HandlerTypeOK
    <2>1. 0 \in 0..MaxAttempts
      BY GatewayAssumption
    <2> QED
      BY <2>1 DEF HandlerTypeOK, Stages, NoError
  <1>3. ASSUME NEW r \in Callers PROVE RequestInv(r)
    <2>1. pick[r].pc = "idle"
      BY DEF PoolInit, NewPool, NoPick
    <2>2. /\ pc[r] = "idle" /\ ~held[r] /\ tried[r] = <<>> /\ settled[r] = <<>>
          /\ attempt[r] = 0 /\ late[r] = 0 /\ ~last[r].due
      OBVIOUS
    <2>3. Excluded(r) /\ Counted(r)
      BY <2>2, GatewayAssumption DEF Excluded, Counted, IsInjective
    <2> QED
      BY <2>1, <2>2, <2>3
         DEF RequestInv, StageMatchesPick, Untouched, Waiting, Reserved, LastCall, Metered
  <1> QED
    BY <1>1, <1>2, <1>3 DEF GatewayInv

\* Nothing of the handlers moves, and the pool stays sound.
LEMMA HandlersRest ==
    ASSUME GatewayInv, PoolInv', UNCHANGED pick, UNCHANGED gatewayVars
    PROVE  GatewayInv'
  <1>1. /\ UNCHANGED <<pc, attempt, lastErr, usage, wrote, gone>>
        /\ UNCHANGED <<held, tried, late, from, last, settled>>
    BY DEF gatewayVars, callVars, historyVars
  <1>2. HandlerTypeOK'
    BY <1>1 DEF GatewayInv, HandlerTypeOK
  <1>3. ASSUME NEW q \in Callers PROVE RequestInv(q)'
    <2>1. RequestInv(q)
      BY DEF GatewayInv
    <2>2. StageMatchesPick(q)' /\ Untouched(q)' /\ Reserved(q)'
      BY <1>1, <2>1 DEF RequestInv, StageMatchesPick, Untouched, Waiting, Reserved, Got
    <2>3. Excluded(q)' /\ Counted(q)'
      BY <1>1, <2>1 DEF RequestInv, Excluded, Counted, Got
    <2>4. LastCall(q)' /\ Metered(q)'
      BY <1>1, <2>1 DEF RequestInv, LastCall, Metered
    <2> QED
      BY <2>2, <2>3, <2>4 DEF RequestInv
  <1> QED
    BY <1>2, <1>3 DEF GatewayInv

\* Every step of the gateway keeps the invariant.
LEMMA GatewayStepKeeps ==
    ASSUME GatewayInv, [GatewayNext]_vars
    PROVE  GatewayInv'
  <1>1. ASSUME NEW r \in Callers, Start(r) \/ OwnStep(r) \/ PeerStep(r) \/ ClientGone(r)
        PROVE  GatewayInv'
    <2>1. Keep(r)
      BY <1>1, FrontKeeps, OwnStepKeeps, PeerStepKeeps, ClientGoneKeeps
    <2>2. ASSUME NEW q \in Callers \ {r} PROVE RequestInv(q)'
      BY <2>1, OthersKeep DEF Keep, GatewayInv
    <2> QED
      BY <2>1, <2>2 DEF Keep, GatewayInv
  <1>2. ASSUME NEW rows \in Tables, Refresh(rows) PROVE GatewayInv'
    <2>1. /\ members' = Replaced(rows, members) /\ lock = Nobody
          /\ UNCHANGED <<lock, pick>> /\ UNCHANGED gatewayVars
      BY <1>2 DEF Refresh, Replace
    <2>2. rows \in Seq(RowRecord)
      BY PoolAssumption
    <2>3. PoolInv /\ MembersOK(members)
      BY DEF GatewayInv, PoolInv
    <2>4. MembersOK(members')
      BY <2>1, <2>2, <2>3, ReplacedKeeps
    <2>5. PoolInv'
      BY <2>1, <2>3, <2>4, OnlyMembersMove
    <2> QED
      BY <2>1, <2>5, HandlersRest
  <1>3. CASE Tick
    <2>1. /\ members' = [e \in DOMAIN members |-> [members[e] EXCEPT !.breaker = Age(@)]]
          /\ UNCHANGED <<lock, pick>> /\ UNCHANGED gatewayVars
      BY <1>3 DEF Tick, PoolTick
    <2>2. PoolInv /\ MembersOK(members)
      BY DEF GatewayInv, PoolInv
    <2>3. MembersOK(members') /\ Keeps(members, members')
      BY <2>1, <2>2, AgedKeeps
    <2>4. PoolInv'
      BY <2>1, <2>2, <2>3, OnlyMembersMove
    <2> QED
      BY <2>1, <2>4, HandlersRest
  <1>4. CASE UNCHANGED vars
    <2>1. UNCHANGED members /\ UNCHANGED lock /\ UNCHANGED pick /\ UNCHANGED gatewayVars
      BY <1>4 DEF vars, poolVars
    <2>2. MembersOK(members') /\ Keeps(members, members') /\ PoolInv
      BY <2>1 DEF GatewayInv, PoolInv, Keeps
    <2>3. PoolInv'
      BY <2>1, <2>2, OnlyMembersMove
    <2> QED
      BY <2>1, <2>3, HandlersRest
  <1> QED
    BY <1>1, <1>2, <1>3, <1>4 DEF GatewayNext

----------------------------------------------------------------------------

\* internal/aigateway: the invariant above holds of every request at any time,
\* whatever the other requests, the refreshes and the clients do.
THEOREM GatewayInvariance == GatewaySpec => []GatewayInv
  BY GatewayInitSound, GatewayStepKeeps, PTL DEF GatewaySpec

\* The handlers, and the pool they share, stay well typed: the loop counter
\* never passes MaxAttempts and no status is written that is not one.
THEOREM GatewayTypeCorrect == GatewaySpec => []GatewayTypeOK
  <1>1. GatewayInv => GatewayTypeOK
    BY PoolInvTyped DEF GatewayInv, GatewayTypeOK, RequestInv, Counted, InForward
  <1> QED
    BY <1>1, GatewayInvariance, PTL

\* gateway.go:163-190: a reservation is settled exactly once, on every path
\* through forward, and nobody without one reaches an upstream.
THEOREM SettlesExactlyOnce == GatewaySpec => []SettledExactlyOnce
  <1>1. GatewayInv => SettledExactlyOnce
    BY DEF GatewayInv, RequestInv, Reserved, SettledExactlyOnce, Finished
  <1> QED
    BY <1>1, GatewayInvariance, PTL

\* gateway.go:175-190 and 227-298: what is settled is the usage of the last call,
\* or nothing where that call neither succeeded nor came back to a client that
\* had gone.
THEOREM LastCallIsCharged == GatewaySpec => []LastCallCharged
  <1>1. GatewayInv => LastCallCharged
    BY DEF GatewayInv, RequestInv, Metered, LastCallCharged, Finished
  <1> QED
    BY <1>1, GatewayInvariance, PTL

\* gateway.go:202-307: no endpoint is called twice for a request, and at most
\* MaxAttempts are called.
THEOREM TriesEndpointsOnce == GatewaySpec => []EndpointsTriedOnce
  <1>1. GatewayInv => EndpointsTriedOnce
    BY DEF GatewayInv, RequestInv, Excluded, Counted, EndpointsTriedOnce
  <1> QED
    BY <1>1, GatewayInvariance, PTL

\* gateway.go:281-298, retry.go:75-87: at most one upstream call begins after
\* the client is gone.
THEOREM CancellationStops == GatewaySpec => []CancelledStops
  <1>1. GatewayInv => CancelledStops
    BY DEF GatewayInv, RequestInv, LastCall, CancelledStops
  <1> QED
    BY <1>1, GatewayInvariance, PTL
----------------------------------------------------------------------------
(***************************************************************************)
(* The pool behind the handlers.  RoutingProofs speaks of requests that    *)
(* end a call in one step; a handler reports, sleeps, wakes and tries      *)
(* again.  On the pool each of its steps is one of a few all the same, and *)
(* one of them is not a step of the router: UnknownProvider, which lets go *)
(* of an endpoint without a Report.                                        *)
(***************************************************************************)

\* The result of r's call is reported, and r lets go of the endpoint.
Reports(r) ==
    /\ Got(r) /\ UNCHANGED lock
    /\ \E o \in Outcomes : members' = Reported(members, pick[r].chosen, o)
    /\ \E p \in PickRecord : p.pc = "idle" /\ pick' = [pick EXCEPT ![r] = p]

\* r has no endpoint, and goes to Pick or away from it.
Moves(r) ==
    /\ ~Got(r) /\ ~Picking(r) /\ UNCHANGED <<members, lock>>
    /\ \E p \in PickRecord : p.pc \in {"pick", "idle"} /\ pick' = [pick EXCEPT ![r] = p]

\* What the step of a handler does to the pool.
RequestSide(r) ==
    PickStep(r) \/ Reports(r) \/ Moves(r) \/ UnknownProvider(r) \/ UNCHANGED poolVars

PoolSide ==
    \/ \E r \in Callers : RequestSide(r)
    \/ \E rows \in Tables : Replace(rows)
    \/ PoolTick
    \/ UNCHANGED poolVars

\* An attempt that ends is reported.
LEMMA EndReports ==
    ASSUME GatewayInv, NEW r \in Callers, pc[r] \in {"call", "body"},
           \/ \E status, u : Failed(r, status, u)
           \/ \E u : Succeeded(r, u)
    PROVE  Reports(r)
  <1>1. PoolInv /\ Got(r)
    BY DEF GatewayInv, RequestInv, StageMatchesPick
  <1>2. UNCHANGED lock /\ \E o \in Outcomes : members' = Reported(members, pick[r].chosen, o)
    <2>1. \A result : OutcomeOf(result) \in Outcomes
      BY DEF OutcomeOf, Outcomes
    <2>2. "success" \in Outcomes
      BY DEF Outcomes
    <2> QED
      BY <2>1, <2>2 DEF Failed, Succeeded
  <1> DEFINE p == [NoPick EXCEPT !.pc = "idle", !.model = pick[r].model, !.exclude = Excluding(r)]
  <1>3. p \in PickRecord /\ p.pc = "idle" /\ NoPick \in PickRecord /\ NoPick.pc = "idle"
    BY <1>1, PickRecords
  <1>4. pick' = [pick EXCEPT ![r] = NoPick] \/ pick' = [pick EXCEPT ![r] = p]
    BY DEF Failed, Succeeded, ForwardReturns, GiveUpOn
  <1> HIDE DEF p
  <1> QED
    BY <1>1, <1>2, <1>3, <1>4 DEF Reports

\* The steps of one handler, on the pool.
LEMMA RequestSideOfStep ==
    ASSUME GatewayInv, NEW r \in Callers, Start(r) \/ OwnStep(r) \/ PeerStep(r) \/ ClientGone(r)
    PROVE  RequestSide(r)
  <1>a. PoolInv /\ pick[r] \in PickRecord /\ RequestInv(r)
    BY DEF GatewayInv, PoolInv
  <1>b. NoPick \in PickRecord /\ NoPick.pc = "idle"
    BY <1>a, PickRecords
  <1>1. CASE Start(r) \/ ClientGone(r)
    BY <1>1 DEF Start, ClientGone, RequestSide
  <1>2. ASSUME NEW m \in Models, NEW v \in Verdicts, PreDeduct(r, m, v) PROVE RequestSide(r)
    <2>1. pc[r] = "quota" /\ UNCHANGED members /\ UNCHANGED lock
      BY <1>2 DEF PreDeduct
    <2>2. pick[r].pc = "idle" /\ ~Got(r) /\ ~Picking(r)
      BY <1>a, <2>1 DEF RequestInv, StageMatchesPick, Got, Picking
    <2>3. CASE v = "ok"
      <3> DEFINE p == [pick[r] EXCEPT !.pc = "pick", !.model = m]
      <3>1. pick' = [pick EXCEPT ![r] = p]
        BY <1>2, <1>a, <2>3 DEF PreDeduct, Admits, PoolInv
      <3>2. p \in PickRecord /\ p.pc = "pick"
        BY <1>a DEF PickRecord
      <3> HIDE DEF p
      <3> QED
        BY <2>1, <2>2, <3>1, <3>2 DEF Moves, RequestSide
    <2>4. CASE v # "ok"
      BY <1>2, <2>1, <2>4 DEF PreDeduct, Admits, RequestSide, poolVars
    <2> QED
      BY <2>3, <2>4
  <1>3. CASE RouteStep(r)
    BY <1>3 DEF RouteStep, RequestSide
  <1>4. CASE NoneLeft(r)
    <2>1. ~Got(r) /\ ~Picking(r) /\ UNCHANGED <<members, lock>> /\ pick' = [pick EXCEPT ![r] = NoPick]
      BY <1>4 DEF NoneLeft, Got, Picking, ForwardReturns
    <2> QED
      BY <1>b, <2>1 DEF Moves, RequestSide
  <1>5. CASE Call(r) \/ Settle(r)
    BY <1>5 DEF Call, Settle, RequestSide
  <1>6. CASE Wakes(r) \/ SleepCancelled(r)
    <2>1. pc[r] = "sleep" /\ UNCHANGED <<members, lock>>
      BY <1>6 DEF Wakes, SleepCancelled
    <2>2. ~Got(r) /\ ~Picking(r)
      BY <1>a, <2>1 DEF RequestInv, StageMatchesPick, Got, Picking
    <2> DEFINE p == [NoPick EXCEPT !.pc = "pick", !.model = pick[r].model,
                                   !.exclude = Excluding(r)]
    <2>3. p \in PickRecord /\ p.pc = "pick"
      BY <1>a, PickRecords
    <2>4. pick' = [pick EXCEPT ![r] = NoPick] \/ pick' = [pick EXCEPT ![r] = p]
      BY <1>6 DEF Wakes, SleepCancelled, NextAttempt, ForwardReturns, GiveUpOn
    <2> HIDE DEF p
    <2> QED
      BY <1>b, <2>1, <2>2, <2>3, <2>4 DEF Moves, RequestSide
  <1>7. CASE UnknownProvider(r)
    BY <1>7 DEF RequestSide
  <1>8. CASE Authenticate(r) \/ \E s \in {400, 401, 503} : Reject(r, s)
    BY <1>8 DEF Authenticate, Reject, RequestSide
  <1>9. CASE Unreachable(r) \/ (\E s \in Statuses : Refused(r, s)) \/ \E u : StreamBreaks(r, u)
    <2>1. pc[r] \in {"call", "body"} /\ \E status, u : Failed(r, status, u)
      BY <1>9 DEF Unreachable, Refused, StreamBreaks
    <2> QED
      BY <2>1, EndReports DEF RequestSide
  <1>10. CASE \E u : ChatReturns(r, u) \/ StreamEnds(r, u)
    <2>1. pc[r] \in {"call", "body"} /\ \E u : Succeeded(r, u)
      BY <1>10 DEF ChatReturns, StreamEnds
    <2> QED
      BY <2>1, EndReports DEF RequestSide
  <1>11. CASE StreamOpens(r)
    BY <1>11 DEF StreamOpens, RequestSide
  <1>12. ASSUME NEW u, Chunk(r, u) PROVE RequestSide(r)
    <2>1. CASE gone[r]
      BY <1>12, <2>1, EndReports DEF Chunk, RequestSide
    <2>2. CASE ~gone[r]
      BY <1>12, <2>2 DEF Chunk, RequestSide
    <2> QED
      BY <2>1, <2>2
  <1> QED
    BY <1>1, <1>2, <1>3, <1>4, <1>5, <1>6, <1>7, <1>8, <1>9, <1>10, <1>11, <1>12
       DEF OwnStep, PeerStep

\* Every step of the gateway, on the pool.
LEMMA PoolSideOfStep ==
    ASSUME GatewayInv, [GatewayNext]_vars
    PROVE  PoolSide
  <1>1. ASSUME NEW r \in Callers, Start(r) \/ OwnStep(r) \/ PeerStep(r) \/ ClientGone(r)
        PROVE  PoolSide
    BY <1>1, RequestSideOfStep DEF PoolSide
  <1>2. ASSUME NEW rows \in Tables, Refresh(rows) PROVE PoolSide
    BY <1>2 DEF Refresh, PoolSide
  <1>3. CASE Tick
    BY <1>3 DEF Tick, PoolSide
  <1>4. CASE UNCHANGED vars
    BY <1>4 DEF vars, PoolSide
  <1> QED
    BY <1>1, <1>2, <1>3, <1>4 DEF GatewayNext

\* Some request lets go of an endpoint whose provider the registry does not know.
Forgets == \E r \in Callers : UnknownProvider(r)

\* After UnknownProvider the request has no endpoint, and the pool is as before.
LEMMA ForgetsEffect ==
    ASSUME PoolInv, NEW r \in Callers, UnknownProvider(r)
    PROVE  /\ UNCHANGED members /\ Got(r) /\ ~Got(r)'
           /\ \A q \in Callers \ {r} : pick'[q] = pick[q]
  <1> DEFINE p == [NoPick EXCEPT !.pc = "pick", !.model = pick[r].model, !.exclude = Excluding(r)]
  <1>1. p.pc = "pick" /\ NoPick.pc = "idle"
    BY PickRecords
  <1>2. pick' = [pick EXCEPT ![r] = NoPick] \/ pick' = [pick EXCEPT ![r] = p]
    BY DEF UnknownProvider, NextAttempt, ForwardReturns, GiveUpOn
  <1> HIDE DEF p
  <1>3. ~Got(r)' /\ \A q \in Callers \ {r} : pick'[q] = pick[q]
    BY <1>1, <1>2 DEF Got, PoolInv
  <1> QED
    BY <1>3 DEF UnknownProvider, Got

\* What a Report leaves behind.
LEMMA ReportsEffect ==
    ASSUME PoolInv, NEW r \in Callers, Reports(r)
    PROVE  SlotStep /\ ServableStep /\ ClosingStep /\ BreakersStep /\ ~Got(r)'
  <1>1. PICK o \in Outcomes : members' = Reported(members, pick[r].chosen, o)
    BY DEF Reports
  <1>2. PICK p \in PickRecord : p.pc = "idle" /\ pick' = [pick EXCEPT ![r] = p]
    BY DEF Reports
  <1>3. Got(r) /\ ~Picking(r) /\ UNCHANGED lock /\ MembersOK(members)
    BY DEF Reports, Got, Picking, PoolInv
  <1>4. /\ MembersOK(members') /\ Keeps(members, members')
        /\ pick[r].chosen \in DOMAIN members =>
              ~members'[pick[r].chosen].breaker.halfOpenInFlight
        /\ \A f \in DOMAIN members \ {pick[r].chosen} : members'[f] = members[f]
    BY <1>1, <1>3, ReportedKeeps
  <1>5. SlotStep /\ ServableStep /\ ClosingStep
    BY <1>2, <1>3, <1>4, LetsGo
  <1>6. ~Got(r)' /\ \A q \in Callers \ {r} : pick'[q] = pick[q]
    BY <1>2 DEF Got, PoolInv
  <1>7. BreakersStep
    BY <1>1, <1>3, <1>6, ResultIsBreakerStep DEF BreakersStep
  <1> QED
    BY <1>5, <1>6, <1>7

\* What a request without an endpoint leaves behind.
LEMMA MovesEffect ==
    ASSUME PoolInv, NEW r \in Callers, Moves(r)
    PROVE  SlotStep /\ ServableStep /\ ClosingStep /\ BreakersStep /\ ~Got(r)'
  <1>1. PICK p \in PickRecord : p.pc \in {"pick", "idle"} /\ pick' = [pick EXCEPT ![r] = p]
    BY DEF Moves
  <1>2. ~Got(r) /\ ~Picking(r) /\ UNCHANGED members /\ UNCHANGED lock
    BY DEF Moves
  <1>3. MembersOK(members') /\ Keeps(members, members')
    BY <1>2 DEF PoolInv, Keeps
  <1>4. SlotStep /\ ServableStep /\ ClosingStep
    BY <1>1, <1>2, <1>3, LetsGo
  <1>5. ~Got(r)' /\ \A q \in Callers \ {r} : pick'[q] = pick[q]
    BY <1>1 DEF Got, PoolInv
  <1>6. \A d \in Callers : (Got(d)' <=> Got(d)) /\ (Got(d) => pick'[d] = pick[d])
    BY <1>2, <1>5 DEF Got
  <1>7. BreakersStep
    BY <1>2, <1>6, AsideIsBreakerStep DEF BreakersStep
  <1> QED
    BY <1>4, <1>5, <1>7

\* No step of the gateway but UnknownProvider does to the pool what the router
\* may not do.
LEMMA PoolSideServes ==
    ASSUME PoolInv, PoolSide
    PROVE  /\ ServableStep /\ ClosingStep
           /\ SlotStep \/ Forgets
           /\ BreakersStep \/ Forgets
  <1>1. ASSUME NEW r \in Callers, PickStep(r)
        PROVE  SlotStep /\ ServableStep /\ ClosingStep /\ BreakersStep
    BY <1>1, PickStepServes, PickIsBreakerStep DEF BreakersStep
  <1>2. ASSUME NEW r \in Callers, UnknownProvider(r) PROVE ServableStep /\ ClosingStep /\ Forgets
    <2>1. /\ UNCHANGED members /\ ~Got(r)'
          /\ \A q \in Callers \ {r} : pick'[q] = pick[q]
      BY <1>2, ForgetsEffect
    <2>2. \A q \in Callers : Got(q)' => Got(q)
      BY <2>1 DEF Got
    <2> QED
      BY <1>2, <2>1, <2>2 DEF ServableStep, ClosingStep, Forgets
  <1>3. ASSUME NEW rows \in Tables, Replace(rows)
        PROVE  SlotStep /\ ServableStep /\ ClosingStep /\ BreakersStep
    BY <1>3, ReplaceKeeps, ReplaceKeepsBreakers
  <1>4. CASE PoolTick
    BY <1>4, PoolTickKeeps, TickIsBreakerStep DEF BreakersStep
  <1>5. CASE UNCHANGED poolVars
    <2>1. UNCHANGED pick /\ UNCHANGED members
      BY <1>5 DEF poolVars
    <2>2. BreakersStep
      BY <2>1, AsideKeepsBreakers
    <2> QED
      BY <1>5, <2>2, PoolStutter
  <1> QED
    BY <1>1, <1>2, <1>3, <1>4, <1>5, ReportsEffect, MovesEffect DEF PoolSide, RequestSide

\* pool.go:80-131: what Pick returns to a handler can serve its request when it
\* returns, with retries, pauses, cancellations and refreshes around it.
THEOREM HandlersGetServable == GatewaySpec => HandedOutServable
  <1>1. ASSUME GatewayInv, [GatewayNext]_vars PROVE [ServableStep]_poolVars
    BY <1>1, PoolSideOfStep, PoolSideServes DEF GatewayInv
  <1> QED
    BY <1>1, GatewayInvariance, PTL DEF GatewaySpec, HandedOutServable, ServableStep

\* pool.go:49-78: in the gateway, too, an open breaker of an endpoint that stays
\* closes only when the result of a call to it is reported.
THEOREM HandlersCloseByResults == GatewaySpec => OnlyResultsClose
  <1>1. ASSUME GatewayInv, [GatewayNext]_vars PROVE [ClosingStep]_poolVars
    BY <1>1, PoolSideOfStep, PoolSideServes DEF GatewayInv
  <1> QED
    BY <1>1, GatewayInvariance, PTL DEF GatewaySpec, OnlyResultsClose, ClosingStep

\* gateway.go:202-307 with pool.go:133-158: the handlers use the breakers as
\* BreakerCalls lets its callers, except when the registry does not know the
\* provider of the endpoint that Pick returned.
THEOREM HandlersUseBreakers == GatewaySpec => [][BreakersStep \/ Forgets]_vars
  <1>1. ASSUME GatewayInv, [GatewayNext]_vars PROVE [BreakersStep \/ Forgets]_vars
    BY <1>1, PoolSideOfStep, PoolSideServes DEF GatewayInv
  <1> QED
    BY <1>1, GatewayInvariance, PTL DEF GatewaySpec

\* gateway.go:218-223: the only step that can leave a probe slot taken with
\* nobody to free it is the one that skips an endpoint of an unknown provider.
THEOREM OnlyForgettingLeaks ==
    GatewaySpec => [][ProbeSlotHeld /\ ~ProbeSlotHeld' => Forgets]_vars
  <1>1. ASSUME GatewayInv, [GatewayNext]_vars
        PROVE  [ProbeSlotHeld /\ ~ProbeSlotHeld' => Forgets]_vars
    BY <1>1, PoolSideOfStep, PoolSideServes DEF GatewayInv, SlotStep
  <1> QED
    BY <1>1, GatewayInvariance, PTL DEF GatewaySpec

\* The copy that Pick returned names a provider of some table.
NamesProvider == \A r \in Callers : Got(r) => pick[r].provider \in ProviderNames

\* Whoever has an endpoint after a step had it before, or Pick just returned it.
LEMMA ProviderNamed ==
    ASSUME PoolInv, NamesProvider, PoolSide
    PROVE  NamesProvider'
  <1>1. ASSUME NEW r \in Callers, \A q \in Callers \ {r} : pick'[q] = pick[q],
               Got(r)' => pick'[r].provider \in ProviderNames
        PROVE  NamesProvider'
    BY <1>1 DEF NamesProvider, Got
  <1>2. ASSUME NEW r \in Callers, PickStep(r) PROVE NamesProvider'
    <2>1. PickEffect(r)
      BY <1>2, PickStepKeeps
    <2>2. \A q \in Callers \ {r} : pick'[q] = pick[q]
      BY <2>1 DEF PickEffect
    <2>3. ASSUME Got(r)' PROVE pick'[r].provider \in ProviderNames
      <3>1. PICK e \in DOMAIN members : pick'[r].provider = members[e].provider
        BY <2>1, <2>3 DEF PickEffect
      <3>2. members[e] \in MemberRecord
        BY DEF PoolInv, MembersOK
      <3> QED
        BY <3>1, <3>2 DEF MemberRecord
    <2> QED
      BY <1>1, <2>2, <2>3
  <1>3. ASSUME NEW r \in Callers, Reports(r) \/ Moves(r) \/ UnknownProvider(r) PROVE NamesProvider'
    <2>1. ~Got(r)'
      BY <1>3, ReportsEffect, MovesEffect, ForgetsEffect
    <2>2. \A q \in Callers \ {r} : pick'[q] = pick[q]
      BY <1>3, ForgetsEffect DEF Reports, Moves, PoolInv
    <2> QED
      BY <1>1, <2>1, <2>2
  <1>4. ASSUME UNCHANGED pick PROVE NamesProvider'
    BY <1>4 DEF NamesProvider, Got
  <1> QED
    BY <1>2, <1>3, <1>4 DEF PoolSide, RequestSide, Replace, PoolTick, poolVars

\* gateway.go:218-223 with provider.go:66-86: as long as the registry knows every
\* provider that the endpoint tables name, no probe slot is ever lost: a taken
\* one belongs to a request in flight, whatever the handlers go through.
THEOREM KnownProvidersLoseNoSlot ==
    ASSUME ProviderNames \subseteq Providers
    PROVE  GatewaySpec => []ProbeSlotHeld
  <1>1. ASSUME GatewayInit PROVE NamesProvider /\ ProbeSlotHeld
    <2>1. ProbeSlotHeld
      BY <1>1, PoolInitSound DEF GatewayInit
    <2>2. \A r \in Callers : ~Got(r)
      BY <1>1 DEF GatewayInit, PoolInit, NewPool, NoPick, Got
    <2> QED
      BY <2>1, <2>2 DEF NamesProvider
  <1>2. ASSUME GatewayInv, NamesProvider, ProbeSlotHeld, [GatewayNext]_vars
        PROVE  NamesProvider' /\ ProbeSlotHeld'
    <2>1. PoolInv /\ PoolSide
      BY <1>2, PoolSideOfStep DEF GatewayInv
    <2>2. NamesProvider'
      BY <1>2, <2>1, ProviderNamed
    <2>3. ~Forgets
      BY <1>2 DEF Forgets, UnknownProvider, NamesProvider, Got
    <2>4. SlotStep
      BY <2>1, <2>3, PoolSideServes
    <2> QED
      BY <1>2, <2>2, <2>4 DEF SlotStep
  <1> QED
    BY <1>1, <1>2, GatewayInvariance, PTL DEF GatewaySpec

\* wrr.go:3-17: the bound on the round robin's credit that RoutingProofs shows of
\* the router holds under the handlers as well.
THEOREM HandlersKeepCreditBounded ==
    ASSUME IsFiniteSet(Endpoints), NEW c \in Nat \ {0}, WeightsWithin(c)
    PROVE  GatewaySpec => []CreditWithin(2 * (Cardinality(Endpoints) - 1) * c)
  <1> DEFINE Steady == Balanced(members, c, 2 * Cardinality(Endpoints) - 1)
  <1>0. c \in Nat /\ 2 * Cardinality(Endpoints) - 1 \in Int
    BY FS_CardinalityType
  <1>1. ASSUME GatewayInit PROVE Steady
    BY <1>1, FirstTableBalanced DEF GatewayInit
  <1>2. ASSUME GatewayInv, Steady, [GatewayNext]_vars PROVE Steady'
    <2>1. PoolInv /\ MembersOK(members) /\ PoolSide
      BY <1>2, PoolSideOfStep DEF GatewayInv, PoolInv
    <2>2. ASSUME Follows(members, members') PROVE Steady'
      BY <1>0, <1>2, <2>2 DEF Follows
    <2>3. ASSUME UNCHANGED members PROVE Steady'
      BY <1>2, <2>3
    <2>4. ASSUME NEW r \in Callers, PickStep(r) PROVE Steady'
      BY <2>1, <2>2, <2>4, RequestFollows DEF RequestStep
    <2>5. ASSUME NEW r \in Callers, Reports(r) PROVE Steady'
      BY <2>1, <2>2, <2>5, ReportedFollows DEF Reports
    <2>6. ASSUME NEW rows \in Tables, Replace(rows) PROVE Steady'
      <3>1. members' = Replaced(rows, members) /\ rows \in Seq(RowRecord)
        BY <2>6, PoolAssumption DEF Replace
      <3> QED
        BY <1>2, <2>1, <3>1, ReplacedBalanced DEF WeightsWithin
    <2>7. CASE PoolTick
      BY <2>1, <2>2, <2>7, PoolTickFollows
    <2>8. ASSUME NEW r \in Callers, Moves(r) \/ UnknownProvider(r) PROVE Steady'
      BY <2>3, <2>8 DEF Moves, UnknownProvider
    <2>9. CASE UNCHANGED poolVars
      BY <2>3, <2>9 DEF poolVars
    <2> QED
      BY <2>1, <2>4, <2>5, <2>6, <2>7, <2>8, <2>9 DEF PoolSide, RequestSide
  <1>3. ASSUME GatewayInv, Steady PROVE CreditWithin(2 * (Cardinality(Endpoints) - 1) * c)
    BY <1>3, BalancedWithin DEF GatewayInv
  <1> HIDE DEF Steady
  <1> QED
    BY <1>1, <1>2, <1>3, GatewayInvariance, PTL DEF GatewaySpec
----------------------------------------------------------------------------
(***************************************************************************)
(* What the client gets.  The status is written once, every handler that   *)
(* returns has written one, output follows only a 200, and it is the       *)
(* output of one endpoint if the request is not streamed: that is what is  *)
(* left of SingleSource, which the retry after a broken stream violates.   *)
(***************************************************************************)
Answered(r) ==
    /\ Waiting(r) => wrote[r] = 0
    /\ pc[r] \in {"route", "call", "sleep"} => wrote[r] \in {0, 200}
    /\ pc[r] = "body" => wrote[r] = 200
    /\ pc[r] \in {"settle", "done"} => wrote[r] # 0
    /\ from[r] # {} => wrote[r] = 200

\* A plain answer is sent whole, and ends the loop.
Sourced(r) ==
    r \notin Streaming => /\ pc[r] # "body"
                          /\ pc[r] \notin {"settle", "done"} => from[r] = {}
                          /\ \A e, f \in from[r] : e = f

OutputInv == \A r \in Callers : Answered(r) /\ Sourced(r)

\* What a step of r shows to the clients.
Shows(r) ==
    /\ Answered(r)' /\ Sourced(r)'
    /\ wrote[r] # 0 => wrote'[r] = wrote[r]
    /\ \A q \in Callers \ {r} :
          /\ wrote'[q] = wrote[q] /\ from'[q] = from[q] /\ pc'[q] = pc[q]

\* writeAPIError writes nothing after a header.
LEMMA AnswerEffect ==
    ASSUME HandlerTypeOK, NEW r \in Callers, NEW s, Answer(r, s)
    PROVE  /\ wrote'[r] = IF wrote[r] = 0 THEN s ELSE wrote[r]
           /\ \A q \in Callers \ {r} : wrote'[q] = wrote[q]
  BY DEF Answer, HandlerTypeOK

\* The statuses of errors are statuses.
LEMMA ErrorStatusNotZero ==
    ASSUME NEW err \in Statuses \cup {NoStatus, NoError, OwnError}
    PROVE  ErrorStatus(err) # 0
  BY GatewayAssumption DEF ErrorStatus, NoStatus, NoError, OwnError

\* r goes on without any output.
LEMMA ShowsNothing ==
    ASSUME GatewayInv, OutputInv, NEW r \in Callers, Only(r),
           wrote' = wrote, from' = from,
           \/ pc'[r] = pc[r]
           \/ Waiting(r) /\ pc'[r] \in {"auth", "quota", "route"}
           \/ pc[r] \in {"route", "sleep"} /\ pc'[r] \in {"route", "call"}
           \/ pc[r] = "call" /\ pc'[r] = "sleep"
           \/ pc[r] = "body" /\ pc'[r] = "settle"
           \/ pc[r] = "settle" /\ pc'[r] = "done"
    PROVE  Shows(r)
  <1>1. Answered(r) /\ Sourced(r)
    BY DEF OutputInv
  <1>2. Answered(r)'
    BY <1>1 DEF Answered, Waiting
  <1>3. Sourced(r)'
    BY <1>1 DEF Sourced, Waiting
  <1> QED
    BY <1>2, <1>3 DEF Shows, Only

\* r is answered with an error, unless a header was written before, and forward
\* or the handler returns.
LEMMA ShowsError ==
    ASSUME GatewayInv, OutputInv, NEW r \in Callers, Only(r), NEW s, s # 0, Answer(r, s),
           from' = from, pc'[r] \in {"settle", "done"}
    PROVE  Shows(r)
  <1>1. Answered(r) /\ Sourced(r)
    BY DEF OutputInv
  <1>2. /\ wrote'[r] = IF wrote[r] = 0 THEN s ELSE wrote[r]
        /\ \A q \in Callers \ {r} : wrote'[q] = wrote[q]
    BY AnswerEffect DEF GatewayInv
  <1>3. Answered(r)'
    BY <1>1, <1>2 DEF Answered, Waiting
  <1>4. Sourced(r)'
    BY <1>1 DEF Sourced
  <1> QED
    BY <1>2, <1>3, <1>4 DEF Shows, Only

\* An attempt fails.
LEMMA ShowsFailure ==
    ASSUME GatewayInv, OutputInv, NEW r \in Callers, Only(r), pc[r] \in {"call", "body"},
           NEW status \in Statuses \cup {NoStatus}, NEW u, Failed(r, status, u)
    PROVE  Shows(r)
  <1>1. Answered(r) /\ Sourced(r) /\ pc \in [Callers -> Stages]
    BY DEF OutputInv, GatewayInv, HandlerTypeOK
  <1>2. CASE Stops(r, status)
    <2>1. Answer(r, ErrorStatus(status)) /\ pc'[r] = "settle" /\ from' = from
      BY <1>1, <1>2 DEF Failed, ForwardReturns, Goto
    <2> QED
      BY <2>1, ErrorStatusNotZero, ShowsError
  <1>3. CASE ~Stops(r, status)
    <2>1. wrote' = wrote /\ pc'[r] = "sleep" /\ from' = from
      BY <1>1, <1>3 DEF Failed, Goto
    <2>2. Answered(r)'
      BY <1>1, <2>1 DEF Answered, Waiting
    <2>3. Sourced(r)'
      BY <1>1, <2>1 DEF Sourced
    <2> QED
      BY <2>1, <2>2, <2>3 DEF Shows, Only
  <1> QED
    BY <1>2, <1>3

\* The loop goes on, or is over and answers.
LEMMA ShowsNextAttempt ==
    ASSUME GatewayInv, OutputInv, NEW r \in Callers, Only(r), pc[r] \in {"route", "sleep"},
           NEW err \in Statuses \cup {NoStatus, NoError, OwnError}, NextAttempt(r, err),
           from' = from
    PROVE  Shows(r)
  <1>1. pc \in [Callers -> Stages]
    BY DEF GatewayInv, HandlerTypeOK
  <1>2. CASE MoreAttempts(r)
    <2>1. wrote' = wrote /\ pc'[r] = "route"
      BY <1>1, <1>2 DEF NextAttempt, Goto
    <2> QED
      BY <2>1, ShowsNothing
  <1>3. CASE ~MoreAttempts(r)
    <2>1. Answer(r, ErrorStatus(err)) /\ pc'[r] = "settle"
      BY <1>1, <1>3 DEF NextAttempt, ForwardReturns, Goto
    <2> QED
      BY <2>1, ErrorStatusNotZero, ShowsError
  <1> QED
    BY <1>2, <1>3

\* The steps of a handler.
LEMMA StepShows ==
    ASSUME GatewayInv, OutputInv, NEW r \in Callers,
           Start(r) \/ OwnStep(r) \/ PeerStep(r) \/ ClientGone(r)
    PROVE  Shows(r)
  <1>a. Only(r)
    BY FrontKeeps, OwnStepKeeps, PeerStepKeeps, ClientGoneKeeps DEF Keep
  <1>b. Answered(r) /\ Sourced(r) /\ HandlerTypeOK /\ RequestInv(r)
    BY DEF OutputInv, GatewayInv
  <1>c. /\ pc \in [Callers -> Stages] /\ wrote \in [Callers -> Nat]
        /\ from \in [Callers -> SUBSET Endpoints]
        /\ lastErr \in [Callers -> Statuses \cup {NoStatus, NoError, OwnError}]
    BY <1>b DEF HandlerTypeOK
  <1>1. CASE Start(r) \/ Authenticate(r)
    <2>1. /\ wrote' = wrote /\ from' = from
          /\ Waiting(r) /\ pc'[r] \in {"auth", "quota"}
      BY <1>1, <1>c DEF Start, Authenticate, Goto, historyVars, Waiting
    <2> QED
      BY <1>a, <2>1, ShowsNothing
  <1>2. ASSUME NEW m \in Models, NEW v \in Verdicts, PreDeduct(r, m, v) PROVE Shows(r)
    <2>1. from' = from /\ Waiting(r)
      BY <1>2 DEF PreDeduct, Waiting
    <2>2. CASE v = "ok"
      <3>1. wrote' = wrote /\ pc'[r] = "route"
        BY <1>2, <1>c, <2>2 DEF PreDeduct, Admits, Goto
      <3> QED
        BY <1>a, <2>1, <3>1, ShowsNothing
    <2>3. CASE v # "ok"
      <3>1. Answer(r, LimiterErrorStatus(v)) /\ pc'[r] = "done"
        BY <1>2, <1>c, <2>3 DEF PreDeduct, Admits, Goto
      <3>2. LimiterErrorStatus(v) # 0
        BY DEF LimiterErrorStatus
      <3> QED
        BY <1>a, <2>1, <3>1, <3>2, ShowsError
    <2> QED
      BY <2>2, <2>3
  <1>3. CASE RouteStep(r)
    <2>1. wrote' = wrote /\ from' = from /\ pc' = pc /\ pc[r] = "route"
      BY <1>3 DEF RouteStep, gatewayVars, historyVars
    <2> QED
      BY <1>a, <2>1, ShowsNothing
  <1>4. CASE NoneLeft(r)
    <2>1. /\ from' = from /\ pc'[r] = "settle"
          /\ Answer(r, IF lastErr[r] = NoError THEN 400 ELSE 502)
      BY <1>4, <1>c DEF NoneLeft, ForwardReturns, Goto, historyVars
    <2> QED
      BY <1>a, <2>1, ShowsError
  <1>5. CASE Call(r) \/ Settle(r)
    <2>1. /\ wrote' = wrote /\ from' = from
          /\ (pc[r] = "route" /\ pc'[r] = "call") \/ (pc[r] = "settle" /\ pc'[r] = "done")
      BY <1>5, <1>c DEF Call, Settle, Goto
    <2> QED
      BY <1>a, <2>1, ShowsNothing
  <1>6. CASE UnknownProvider(r) \/ Wakes(r)
    <2>1. /\ from' = from /\ pc[r] \in {"route", "sleep"}
          /\ \E err \in Statuses \cup {NoStatus, NoError, OwnError} : NextAttempt(r, err)
      BY <1>6, <1>c DEF UnknownProvider, Wakes, historyVars
    <2> QED
      BY <1>a, <2>1, ShowsNextAttempt
  <1>7. CASE SleepCancelled(r)
    <2>1. /\ from' = from /\ pc'[r] = "settle"
          /\ Answer(r, ErrorStatus(lastErr[r])) /\ ErrorStatus(lastErr[r]) # 0
      BY <1>7, <1>c, ErrorStatusNotZero DEF SleepCancelled, ForwardReturns, Goto, historyVars
    <2> QED
      BY <1>a, <2>1, ShowsError
  <1>8. ASSUME NEW s \in {400, 401, 503}, Reject(r, s) PROVE Shows(r)
    <2>1. from' = from /\ pc'[r] = "done" /\ Answer(r, s)
      BY <1>8, <1>c DEF Reject, Goto, historyVars
    <2> QED
      BY <1>a, <2>1, ShowsError
  <1>9. CASE Unreachable(r) \/ \E s \in Statuses : Refused(r, s)
    <2>1. pc[r] = "call" /\ \E s \in Statuses \cup {NoStatus} : Failed(r, s, NoUsage)
      BY <1>9 DEF Unreachable, Refused
    <2> QED
      BY <1>a, <2>1, ShowsFailure
  <1>10. ASSUME NEW u, StreamBreaks(r, u) PROVE Shows(r)
    BY <1>10, <1>a, ShowsFailure DEF StreamBreaks
  <1>11. ASSUME NEW u, ChatReturns(r, u) PROVE Shows(r)
    <2>1. /\ pc[r] = "call" /\ r \notin Streaming /\ pc'[r] = "settle" /\ Answer(r, 200)
          /\ from' = [from EXCEPT ![r] = @ \cup {pick[r].chosen}]
      BY <1>11, <1>c DEF ChatReturns, SendsOutput, Succeeded, ForwardReturns, Goto
    <2>2. wrote'[r] = 200 /\ \A q \in Callers \ {r} : wrote'[q] = wrote[q]
      BY <1>b, <2>1, AnswerEffect DEF Answered
    <2>3. /\ from'[r] = from[r] \cup {pick[r].chosen}
          /\ \A q \in Callers \ {r} : from'[q] = from[q]
      BY <1>c, <2>1
    <2>4. wrote[r] # 0 => wrote'[r] = wrote[r]
      BY <1>b, <2>1, <2>2 DEF Answered
    <2>5. Answered(r)'
      BY <2>1, <2>2 DEF Answered, Waiting
    <2>6. Sourced(r)'
      BY <1>b, <2>1, <2>3 DEF Sourced
    <2> QED
      BY <1>a, <2>2, <2>3, <2>4, <2>5, <2>6 DEF Shows, Only
  <1>12. CASE StreamOpens(r)
    <2>1. /\ pc[r] = "call" /\ r \in Streaming /\ pc'[r] = "body" /\ from' = from /\ Answer(r, 200)
      BY <1>12, <1>c DEF StreamOpens, Goto, historyVars
    <2>2. wrote'[r] = 200 /\ \A q \in Callers \ {r} : wrote'[q] = wrote[q]
      BY <1>b, <2>1, AnswerEffect DEF Answered
    <2>3. wrote[r] # 0 => wrote'[r] = wrote[r]
      BY <1>b, <2>1, <2>2 DEF Answered
    <2>4. Answered(r)' /\ Sourced(r)'
      BY <1>b, <2>1, <2>2 DEF Answered, Waiting, Sourced
    <2> QED
      BY <1>a, <2>1, <2>2, <2>3, <2>4 DEF Shows, Only
  <1>13. ASSUME NEW u, Chunk(r, u) PROVE Shows(r)
    <2>1. /\ pc[r] = "body" /\ wrote' = wrote
          /\ from' = [from EXCEPT ![r] = @ \cup {pick[r].chosen}]
      BY <1>13 DEF Chunk, SendsOutput
    <2>2. pc'[r] \in {"settle", "body"}
      BY <1>13, <1>c, <2>1 DEF Chunk, Succeeded, ForwardReturns, Goto
    <2>3. \A q \in Callers \ {r} : from'[q] = from[q]
      BY <1>c, <2>1
    <2>4. Answered(r)'
      BY <1>b, <2>1, <2>2 DEF Answered, Waiting
    <2>5. Sourced(r)'
      BY <1>b, <2>1 DEF Sourced
    <2> QED
      BY <1>a, <2>1, <2>3, <2>4, <2>5 DEF Shows, Only
  <1>14. ASSUME NEW u, StreamEnds(r, u) PROVE Shows(r)
    <2>1. /\ pc[r] = "body" /\ pc'[r] = "settle" /\ wrote' = wrote /\ from' = from
      BY <1>14, <1>c DEF StreamEnds, Succeeded, ForwardReturns, Goto
    <2> QED
      BY <1>a, <2>1, ShowsNothing
  <1>15. CASE ClientGone(r)
    <2>1. /\ wrote' = wrote /\ from' = from /\ pc' = pc
      BY <1>15 DEF ClientGone, historyVars
    <2> QED
      BY <1>a, <2>1, ShowsNothing
  <1> QED
    BY <1>1, <1>2, <1>3, <1>4, <1>5, <1>6, <1>7, <1>8, <1>9, <1>10, <1>11, <1>12, <1>13, <1>14, <1>15
       DEF OwnStep, PeerStep

\* No status changes once it is written.
StatusStep == \A r \in Callers : wrote[r] # 0 => wrote'[r] = wrote[r]

\* Every step of the gateway keeps OutputInv.
LEMMA OutputStep ==
    ASSUME GatewayInv, OutputInv, [GatewayNext]_vars
    PROVE  OutputInv' /\ StatusStep
  <1>1. ASSUME NEW r \in Callers, Start(r) \/ OwnStep(r) \/ PeerStep(r) \/ ClientGone(r)
        PROVE  OutputInv' /\ StatusStep
    <2>1. Shows(r)
      BY <1>1, StepShows
    <2>2. ASSUME NEW q \in Callers \ {r} PROVE Answered(q)' /\ Sourced(q)'
      <3>1. wrote'[q] = wrote[q] /\ from'[q] = from[q] /\ pc'[q] = pc[q]
        BY <2>1 DEF Shows
      <3>2. Answered(q) /\ Sourced(q)
        BY DEF OutputInv
      <3> QED
        BY <3>1, <3>2 DEF Answered, Waiting, Sourced
    <2> QED
      BY <2>1, <2>2 DEF Shows, OutputInv, StatusStep
  <1>2. ASSUME UNCHANGED gatewayVars PROVE OutputInv' /\ StatusStep
    <2>1. wrote' = wrote /\ from' = from /\ pc' = pc
      BY <1>2 DEF gatewayVars, historyVars
    <2> QED
      BY <2>1 DEF OutputInv, StatusStep, Answered, Waiting, Sourced
  <1>3. CASE (\E rows \in Tables : Refresh(rows)) \/ Tick \/ UNCHANGED vars
    BY <1>2, <1>3 DEF Refresh, Tick, vars
  <1> QED
    BY <1>1, <1>3 DEF GatewayNext

\* gateway.go:98-310: what clients get satisfies the invariant above.
THEOREM OutputInvariance == GatewaySpec => []OutputInv
  <1>1. GatewayInit => OutputInv
    BY DEF GatewayInit, OutputInv, Answered, Waiting, Sourced
  <1> QED
    BY <1>1, OutputStep, GatewayInvariance, PTL DEF GatewaySpec

\* gateway.go:98-193: no handler returns without an answer (the safety half of
\* EveryRequestAnswered), and no client receives output under an error status.
THEOREM FinishedMeansAnswered ==
    GatewaySpec => [](\A r \in Callers : /\ Finished(r) => wrote[r] # 0
                                         /\ from[r] # {} => wrote[r] = 200)
  <1>1. OutputInv => \A r \in Callers : /\ Finished(r) => wrote[r] # 0
                                        /\ from[r] # {} => wrote[r] = 200
    BY DEF OutputInv, Answered, Finished
  <1> QED
    BY <1>1, OutputInvariance, PTL

\* gateway.go:202-310, statusWriter: a request is answered once, although an
\* error after the header of a stream goes through the same error path.
THEOREM StatusWrittenOnce == GatewaySpec => [][StatusStep]_vars
  <1>1. ASSUME GatewayInv, OutputInv, [GatewayNext]_vars PROVE [StatusStep]_vars
    BY <1>1, OutputStep
  <1> QED
    BY <1>1, GatewayInvariance, OutputInvariance, PTL DEF GatewaySpec

\* docs/interview-script.md:166 as far as the code keeps it: a client that did
\* not ask for a stream receives the output of one endpoint, however many were
\* tried for it.
THEOREM PlainAnswersHaveOneSource ==
    GatewaySpec => [](\A r \in Callers \ Streaming : Cardinality(from[r]) <= 1)
  <1>1. ASSUME OutputInv, NEW r \in Callers \ Streaming PROVE Cardinality(from[r]) <= 1
    <2>1. \A e, f \in from[r] : e = f
      BY <1>1 DEF OutputInv, Sourced
    <2>2. CASE from[r] = {}
      BY <2>2, FS_EmptySet
    <2>3. ASSUME NEW e \in from[r] PROVE Cardinality(from[r]) <= 1
      <3>1. from[r] = {e}
        BY <2>1, <2>3
      <3>2. Cardinality({e}) = 1
        BY FS_Singleton, Zenon
      <3> QED
        BY <3>1, <3>2
    <2> QED
      BY <2>2, <2>3
  <1>2. OutputInv => \A r \in Callers \ Streaming : Cardinality(from[r]) <= 1
    BY <1>1
  <1> QED
    BY <1>2, OutputInvariance, PTL
============================================================================
