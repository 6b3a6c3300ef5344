------------------------------ MODULE Gateway ------------------------------
(***************************************************************************)
(* internal/aigateway: one chat request from ServeHTTP to its answer, with *)
(* the retry loop of forward over the endpoints of the pool, the adapters' *)
(* Chat and ChatStream (internal/provider) and the error classification of *)
(* internal/retry.  Many requests run at once, each a caller of the pool;  *)
(* the client of a request may go away at any time.                        *)
(*                                                                         *)
(* The limiter appears as the two calls the handler makes: PreDeduct, of   *)
(* which only the verdict matters here, and SettleQuota with its argument. *)
(* Module Limiter models what they do in Redis.                            *)
(***************************************************************************)
EXTENDS Pool

CONSTANTS
    Streaming,          \* the requests with req.Stream
    MaxAttempts,        \* retry.Config.MaxAttempts, after withDefaults
    Providers,          \* the provider names the registry knows
    Statuses,           \* upstream error statuses
    Usages,             \* the usage records upstreams send; a missing one is all 0
    Generated,          \* UsageOrEstimate's estimates of a streamed text
    NoUsage             \* a nil *types.Usage

\* types.Usage; an upstream's figures are not checked.
UsageRecords == [prompt : Int, completion : Int, total : Int]

ASSUME GatewayAssumption ==
    /\ Streaming \subseteq Callers
    /\ MaxAttempts \in Nat \ {0}
    /\ Statuses \subseteq Nat \ {0}
    /\ Usages \subseteq UsageRecords
    /\ Generated \subseteq Nat
    /\ NoUsage \notin UsageRecords

NoError == -1           \* lastErr = nil
NoStatus == 0           \* a provider.Error without a status
OwnError == -2          \* an error of the gateway, not of a provider

VARIABLES
    pc,                 \* pc[r]: where the handler of r is
    attempt,            \* forward's loop counter
    lastErr,            \* forward's lastErr: a status, NoStatus, OwnError or NoError
    usage,              \* usage of the attempt, then what forward returns
    wrote,              \* statusWriter: the status sent, 0 before any
    gone,               \* the client is gone: r's context is cancelled
    \* history
    held,               \* held[r]: PreDeduct took r's estimate
    tried,              \* tried[r]: the endpoints r has called, in order
    late,               \* late[r]: how many of them after the client was gone
    from,               \* from[r]: the endpoints whose output was sent to the client
    last,               \* last[r]: the usage r's last call returned, and whether it
                        \* succeeded or returned to a client that was gone
    settled             \* settled[r]: the arguments of r's SettleQuota calls

callVars    == <<attempt, lastErr, usage>>
historyVars == <<held, tried, late, from, last, settled>>
gatewayVars == <<pc, callVars, wrote, gone, historyVars>>
vars == <<poolVars, gatewayVars>>

Stages == {"idle", "auth", "quota", "route", "call", "body", "sleep", "settle", "done"}

\* r is in the loop of forward.
InForward(r) == pc[r] \in {"route", "call", "body", "sleep"}

HandlerTypeOK ==
    /\ pc \in [Callers -> Stages]
    /\ attempt \in [Callers -> 0..MaxAttempts]
    /\ lastErr \in [Callers -> Statuses \cup {NoStatus, NoError, OwnError}]
    /\ usage \in [Callers -> UsageRecords \cup {NoUsage}]
    /\ wrote \in [Callers -> Nat]
    /\ gone \in [Callers -> BOOLEAN]
    /\ tried \in [Callers -> Seq(Endpoints)]
    /\ settled \in [Callers -> Seq(Int)]
    /\ from \in [Callers -> SUBSET Endpoints]
    /\ held \in [Callers -> BOOLEAN]
    /\ late \in [Callers -> Nat]
    /\ last \in [Callers -> [usage : UsageRecords \cup {NoUsage}, due : BOOLEAN]]

GatewayTypeOK ==
    /\ PoolTypeOK
    /\ HandlerTypeOK
    /\ \A r \in Callers : InForward(r) => attempt[r] < MaxAttempts

GatewayInit ==
    /\ PoolInit
    /\ pc = [r \in Callers |-> "idle"]
    /\ attempt = [r \in Callers |-> 0]
    /\ lastErr = [r \in Callers |-> NoError]
    /\ usage = [r \in Callers |-> NoUsage]
    /\ wrote = [r \in Callers |-> 0]
    /\ gone = [r \in Callers |-> FALSE]
    /\ held = [r \in Callers |-> FALSE]
    /\ late = [r \in Callers |-> 0]
    /\ tried = [r \in Callers |-> <<>>]
    /\ from = [r \in Callers |-> {}]
    /\ last = [r \in Callers |-> [usage |-> NoUsage, due |-> FALSE]]
    /\ settled = [r \in Callers |-> <<>>]

----------------------------------------------------------------------------
(* Error handling: internal/retry, provider.Error, writeProviderError *)

Retryable(status) == status \in {0, 408, 429} \/ status >= 500

Classify(status) ==
    IF status \in {400, 401, 403, 404} THEN "fail"
    ELSE IF status = 429 THEN "retry_other"
    ELSE IF Retryable(status) THEN "retry"
    ELSE "fail"

\* WriteHeader, writeAPIError: nothing once a header has been written.
Answer(r, status) == wrote' = [wrote EXCEPT ![r] = IF @ = 0 THEN status ELSE @]

\* writeProviderError: a provider's status passes through.
ErrorStatus(err) == IF err > 0 THEN err ELSE 502

Goto(r, stage) == pc' = [pc EXCEPT ![r] = stage]

----------------------------------------------------------------------------
(* Mutants *)

\* The failed endpoint stays a candidate for the next attempt.
MutantExcluding(r) == pick[r].exclude

\* forward does not look at the context after a failed call: it starts another
\* attempt, and the usage of this one is forgotten.
MutantStops(r, status) == Classify(status) = "fail"

\* forward waits until some endpoint can be picked again.
MutantNoneLeft(r) ==
    /\ pc[r] = "route"
    /\ pick[r].pc = "none"
    /\ pick' = [pick EXCEPT ![r].pc = "pick"]
    /\ UNCHANGED <<members, lock, gatewayVars>>

\* One attempt too many.
MutantMoreAttempts(r) == attempt[r] < MaxAttempts

\* The handler returns early when the client is gone, without settling.
MutantSettle(r) ==
    /\ pc[r] = "settle"
    /\ settled' = IF gone[r] THEN settled
                  ELSE [settled EXCEPT ![r] = Append(@, 0)]
    /\ Goto(r, "done")
    /\ UNCHANGED <<poolVars, callVars, wrote, gone, held, tried, late, from, last>>

----------------------------------------------------------------------------
(* ServeHTTP up to forward *)

\* A chat request arrives.
Start(r) ==
    /\ pc[r] = "idle"
    /\ Goto(r, "auth")
    /\ UNCHANGED <<poolVars, callVars, wrote, gone, historyVars>>

\* authenticate, reading and parsing the body.
Authenticate(r) ==
    /\ pc[r] = "auth"
    /\ Goto(r, "quota")
    /\ UNCHANGED <<poolVars, callVars, wrote, gone, historyVars>>

\* A bad key (401), an unreachable key store (503) or a bad body (400).
Reject(r, status) ==
    /\ pc[r] = "auth"
    /\ Answer(r, status)
    /\ Goto(r, "done")
    /\ UNCHANGED <<poolVars, callVars, gone, historyVars>>

Verdicts == {"ok", "rate", "poor", "error"}

\* Only an undoubted yes of the limiter goes on: fail closed.
Admits(verdict) == verdict = "ok"

LimiterErrorStatus(verdict) ==
    IF verdict = "rate" THEN 429 ELSE IF verdict = "poor" THEN 402 ELSE 503

PreDeduct(r, model, verdict) ==
    /\ pc[r] = "quota"
    /\ held' = [held EXCEPT ![r] = verdict = "ok"]
    /\ IF Admits(verdict)
       THEN /\ Goto(r, "route")
            /\ pick' = [pick EXCEPT ![r].pc = "pick", ![r].model = model]
            /\ UNCHANGED wrote
       ELSE /\ Goto(r, "done")
            /\ Answer(r, LimiterErrorStatus(verdict))
            /\ UNCHANGED pick
    /\ UNCHANGED <<members, lock, callVars, gone, tried, late, from, last, settled>>

----------------------------------------------------------------------------
(* forward *)

\* forward returns; ServeHTTP goes on to the settlement.
ForwardReturns(r, u) ==
    /\ Goto(r, "settle")
    /\ usage' = [usage EXCEPT ![r] = u]
    /\ pick' = [pick EXCEPT ![r] = NoPick]

\* The exclude set once this attempt's endpoint has been given up.
Excluding(r) == pick[r].exclude \cup ({pick[r].chosen} \ {Nobody})

\* The attempt is over and its endpoint excluded.
GiveUpOn(r, next) ==
    pick' = [pick EXCEPT ![r] = [NoPick EXCEPT !.pc = next, !.model = pick[r].model,
                                               !.exclude = Excluding(r)]]

MoreAttempts(r) == attempt[r] + 1 < MaxAttempts

\* The loop's end, with or without attempts left.
NextAttempt(r, err) ==
    /\ attempt' = [attempt EXCEPT ![r] = @ + 1]
    /\ IF MoreAttempts(r)
       THEN /\ Goto(r, "route")
            /\ GiveUpOn(r, "pick")
            /\ usage' = [usage EXCEPT ![r] = NoUsage]
            /\ UNCHANGED wrote
       ELSE /\ Answer(r, ErrorStatus(err))
            /\ ForwardReturns(r, NoUsage)

RouteStep(r) ==
    /\ pc[r] = "route"
    /\ PickStep(r)
    /\ UNCHANGED gatewayVars

\* Pick returns ErrNoEndpoint.
NoneLeft(r) ==
    /\ pc[r] = "route"
    /\ pick[r].pc = "none"
    /\ Answer(r, IF lastErr[r] = NoError THEN 400 ELSE 502)
    /\ ForwardReturns(r, NoUsage)
    /\ UNCHANGED <<members, lock, attempt, lastErr, gone, historyVars>>

\* Registry.For knows the endpoint's provider: the adapter is called.
Call(r) ==
    /\ pc[r] = "route"
    /\ pick[r].pc = "got"
    /\ pick[r].provider \in Providers
    /\ Goto(r, "call")
    /\ tried' = [tried EXCEPT ![r] = Append(@, pick[r].chosen)]
    /\ late' = [late EXCEPT ![r] = IF gone[r] THEN @ + 1 ELSE @]
    /\ last' = [last EXCEPT ![r] = [usage |-> NoUsage, due |-> FALSE]]
    /\ UNCHANGED <<poolVars, callVars, wrote, gone, held, from, settled>>

\* It does not: the endpoint is excluded and the loop continues, without a
\* Report and without a pause.
UnknownProvider(r) ==
    /\ pc[r] = "route"
    /\ pick[r].pc = "got"
    /\ pick[r].provider \notin Providers
    /\ lastErr' = [lastErr EXCEPT ![r] = OwnError]
    /\ NextAttempt(r, OwnError)
    /\ UNCHANGED <<members, lock, gone, historyVars>>

\* Whether forward answers instead of trying another endpoint.
Stops(r, status) == Classify(status) = "fail" \/ gone[r]

\* The attempt failed with usage u.  The result is reported, and the request
\* is answered or pauses before it goes to another endpoint.
Failed(r, status, u) ==
    LET outcome == OutcomeOf([success |-> FALSE, status |-> status,
                              retryable |-> Retryable(status)])
    IN
    /\ members' = Reported(members, pick[r].chosen, outcome)
    /\ lastErr' = [lastErr EXCEPT ![r] = status]
    /\ IF Stops(r, status)
       THEN /\ Answer(r, ErrorStatus(status))
            /\ ForwardReturns(r, u)
       ELSE /\ Goto(r, "sleep")
            /\ GiveUpOn(r, "idle")
            /\ usage' = [usage EXCEPT ![r] = u]
            /\ UNCHANGED wrote
    /\ last' = [last EXCEPT ![r] = [usage |-> u, due |-> gone[r]]]
    /\ UNCHANGED <<lock, attempt, gone, held, tried, late, from, settled>>

Succeeded(r, u) ==
    /\ members' = Reported(members, pick[r].chosen, "success")
    /\ ForwardReturns(r, u)
    /\ last' = [last EXCEPT ![r] = [usage |-> u, due |-> TRUE]]
    /\ UNCHANGED <<lock, attempt, lastErr, gone, held, tried, late, settled>>

\* No answer, or none that can be read: adapters turn every transport error,
\* the client's cancellation included, into an error without a status.
Unreachable(r) ==
    /\ pc[r] = "call"
    /\ Failed(r, NoStatus, NoUsage)

\* The upstream answers with an error, before anything is sent to the client.
Refused(r, status) ==
    /\ pc[r] = "call"
    /\ Failed(r, status, NoUsage)

\* The client is sent output of the endpoint that r calls.
SendsOutput(r) == from' = [from EXCEPT ![r] = @ \cup {pick[r].chosen}]

\* Chat returns: the whole answer is written at once, and its usage record is
\* taken as it is.
ChatReturns(r, u) ==
    /\ pc[r] = "call"
    /\ r \notin Streaming
    /\ Answer(r, 200)
    /\ SendsOutput(r)
    /\ Succeeded(r, u)

\* ChatStream: the upstream accepts, and the header is sent (or was).
StreamOpens(r) ==
    /\ pc[r] = "call"
    /\ r \in Streaming
    /\ Answer(r, 200)
    /\ Goto(r, "body")
    /\ UNCHANGED <<poolVars, callVars, gone, historyVars>>

\* What a stream costs: the last usage record it carried, completed with an
\* estimate of the text that could be read from its lines.
UsageOrEstimate(u, text) ==
    LET completion == IF u.completion = 0 THEN text ELSE u.completion
    IN  IF u.total > 0 THEN u
        ELSE [u EXCEPT !.completion = completion, !.total = u.prompt + completion]

\* CopyStream reads one line and passes it on (in vain once the client is
\* gone); the loop ends, with usage u, if the client is gone by then.
Chunk(r, u) ==
    /\ pc[r] = "body"
    /\ SendsOutput(r)
    /\ IF gone[r]
       THEN Succeeded(r, u)
       ELSE UNCHANGED <<poolVars, pc, callVars, gone, held, tried, late, last, settled>>
    /\ UNCHANGED wrote

\* The stream ends.
StreamEnds(r, u) ==
    /\ pc[r] = "body"
    /\ Succeeded(r, u)
    /\ UNCHANGED <<wrote, from>>

\* Reading the stream fails after the header was sent.
StreamBreaks(r, u) ==
    /\ pc[r] = "body"
    /\ Failed(r, NoStatus, u)

\* retry.Sleep runs to its end.  Without a delay (a 429, unless its Retry-After
\* counts because every attempt is used up) it only asks whether the client is
\* gone; with one, the timer may beat the cancellation.
Wakes(r) ==
    /\ pc[r] = "sleep"
    /\ gone[r] => \/ Classify(lastErr[r]) = "retry"
                  \/ Cardinality(pick[r].exclude) >= MaxAttempts
    /\ NextAttempt(r, lastErr[r])
    /\ UNCHANGED <<members, lock, lastErr, gone, historyVars>>

\* retry.Sleep sees that the client is gone.
SleepCancelled(r) ==
    /\ pc[r] = "sleep"
    /\ gone[r]
    /\ Answer(r, ErrorStatus(lastErr[r]))
    /\ ForwardReturns(r, usage[r])
    /\ UNCHANGED <<members, lock, attempt, lastErr, gone, historyVars>>

----------------------------------------------------------------------------
(* The rest of ServeHTTP, and the environment *)

Actual(u) ==
    IF u = NoUsage THEN 0
    ELSE IF u.total = 0 THEN u.prompt + u.completion
    ELSE u.total

\* SettleQuota under a context of its own, whatever became of the client.
Settle(r) ==
    /\ pc[r] = "settle"
    /\ settled' = [settled EXCEPT ![r] = Append(@, Actual(usage[r]))]
    /\ Goto(r, "done")
    /\ UNCHANGED <<poolVars, callVars, wrote, gone, held, tried, late, from, last>>

ClientGone(r) ==
    /\ pc[r] \notin {"idle", "done"}
    /\ ~gone[r]
    /\ gone' = [gone EXCEPT ![r] = TRUE]
    /\ UNCHANGED <<poolVars, pc, callVars, wrote, historyVars>>

\* refreshEndpoints: an empty result leaves the pool alone.
Refresh(rows) ==
    /\ rows # <<>>
    /\ Replace(rows)
    /\ UNCHANGED gatewayVars

Tick == PoolTick /\ UNCHANGED gatewayVars

\* What the handler of r does by itself.
OwnStep(r) ==
    \/ \E m \in Models, v \in Verdicts : PreDeduct(r, m, v)
    \/ RouteStep(r) \/ NoneLeft(r) \/ Call(r) \/ UnknownProvider(r)
    \/ Wakes(r) \/ SleepCancelled(r)
    \/ Settle(r)

\* What it waits for: the client's request, and the upstream.
PeerStep(r) ==
    \/ Authenticate(r)
    \/ \E s \in {400, 401, 503} : Reject(r, s)
    \/ Unreachable(r)
    \/ \E s \in Statuses : Refused(r, s)
    \/ \E u \in Usages : ChatReturns(r, u)
    \/ StreamOpens(r)
    \/ \E u \in Usages, text \in Generated :
          LET cost == UsageOrEstimate(u, text)
          IN  Chunk(r, cost) \/ StreamEnds(r, cost) \/ StreamBreaks(r, cost)

GatewayNext ==
    \/ \E r \in Callers : Start(r) \/ OwnStep(r) \/ PeerStep(r) \/ ClientGone(r)
    \/ \E rows \in Tables : Refresh(rows)
    \/ Tick

(***************************************************************************)
(* Handlers run, timers fire and the clock goes on.  NewHTTPClient limits  *)
(* the wait for an upstream's header, and nothing limits the reading of a  *)
(* body: that a stalled answer ends is assumed only once the client is     *)
(* gone, which cancels the context of the read.  No client waits for ever. *)
(***************************************************************************)
GatewayFairness ==
    /\ \A r \in Callers :
          /\ WF_vars(OwnStep(r))
          /\ WF_vars(gone[r] /\ PeerStep(r))
          /\ WF_vars(ClientGone(r))
    /\ WF_vars(Tick)

GatewaySpec == GatewayInit /\ [][GatewayNext]_vars

GatewayFairSpec == GatewaySpec /\ GatewayFairness

----------------------------------------------------------------------------
(* Properties *)

Finished(r) == pc[r] = "done"

\* gateway.go:163-190: whoever held a reservation has settled it exactly once
\* when the handler returns, on every path through forward and also when the
\* client is gone; a request without one (the limiter said no, or could not
\* be asked) settles nothing and reaches no upstream: the gateway fails closed.
SettledExactlyOnce ==
    \A r \in Callers :
        /\ Finished(r) => Len(settled[r]) = IF held[r] THEN 1 ELSE 0
        /\ tried[r] # <<>> => held[r]

\* gateway.go:175-190 and 227-298: what is settled is the usage of the last
\* upstream call or nothing, and not nothing when that call succeeded or came
\* back to a client that had gone: leaving in mid-answer saves no tokens, and
\* a retry never pays with the usage of an attempt that another one followed.
LastCallCharged ==
    \A r \in Callers :
        Finished(r) /\ held[r] =>
            \/ settled[r] = <<Actual(last[r].usage)>>
            \/ settled[r] = <<0>> /\ ~last[r].due

\* gateway.go:202-307: a request never calls an endpoint it has given up on, and
\* calls at most MaxAttempts of them, whatever refreshes and breakers do
\* between its attempts.
EndpointsTriedOnce ==
    \A r \in Callers : IsInjective(tried[r]) /\ Len(tried[r]) <= MaxAttempts

\* gateway.go:281-298, retry.go:75-87: once the client is gone at most one more
\* upstream call begins for it, although the pause between two attempts may
\* miss the cancellation.
CancelledStops ==
    \A r \in Callers : late[r] <= 1

\* gateway.go:98-193: every request that arrives gets an answer and leaves the
\* handler once its client is gone, if not before: no path waits for an endpoint
\* to come back, and the requests in front of it in Pick let go of the pool.
EveryRequestAnswered ==
    \A r \in Callers : pc[r] = "auth" ~> Finished(r) /\ wrote[r] # 0

\* docs/interview-script.md:166, of failover: it is safe only before the
\* response is committed.  So no client receives the output of two endpoints.
SingleSource ==
    \A r \in Callers : Cardinality(from[r]) <= 1

\* docs/day3-failover.md:86, of the circuit breaker: after the cool-down it
\* lets the endpoint recover.  So a taken probe slot comes free again.
ProbeSlotComesFree ==
    \A e \in Endpoints :
        LET taken == e \in DOMAIN members /\ members[e].breaker.halfOpenInFlight
        IN  taken ~> ~taken
============================================================================
