# TLA+ models of cloud-gateway-lab

The gateway takes OpenAI-style chat requests, authenticates them, reserves
tokens for them in Redis, routes each to one of several model endpoints with
retries, breakers and health checks, and settles the tokens afterwards. Several
replicas run at once; they share Redis and the database, and nothing else. An
older reverse proxy with a priority scheduler is still in the repository; no main
starts it at this commit.

These modules model the parts of it whose correctness depends on the order of
events. All of them are model-checked with TLC; every invariant and action
property that a passing run checks is also proved with TLAPS for all values of the
constants; and two detailed modules are shown to implement an abstract one.

    tlc -workers 2 -config MCRouting.cfg MCRouting     # one run
    tlapm LimiterProofs.tla                            # one module's proofs

`PROJECT.json` lists components, runs, mutants, the map from definitions to
source lines, findings, hazards and theorems.

## 1. Inventory

| Component | State | Operations | What is hard | What makes it correct |
|---|---|---|---|---|
| `internal/breaker` | state, failure count, openedAt, probe slot, one mutex | State, Eligible, Allow, Success, Failure, Release | results of calls arrive late, in any state | opens after a run of failures, sheds while open, admits a probe after the cooldown, never sticks |
| `internal/endpoint` | members by ID and by model: health, breaker, WRR credit; `Pool.mu` | Replace, Pick, Report, SetHealth, Snapshot, All | Report calls the breaker without `Pool.mu`, in the middle of a Pick; Replace swaps members under calls in flight | Pick returns something servable; probe slots come back; WRR credits stay bounded |
| `internal/health` | failure count per ID | one goroutine: CheckAll, Check, mark | the list is a round old; counts outlive members | out only after `fails` failures in a row; back after one success |
| `cmd/main.go` | — | loadEndpoints, refreshEndpoints | refresh races with everything above | runtime state survives a refresh |
| `pkg/limiter`, `lua/` | Redis: balance and window per user | PreDeduct (SETNX, clock, script), SettleQuota | replicas interleave; commands, replies, replicas and Redis itself get lost | no token is spent twice; what is taken is what was used |
| `internal/aigateway` | one handler per request | ServeHTTP, forward | cancellation at any moment; failover; streams that break | one settlement per reservation; one try per endpoint; one answer per request |
| `internal/retry` | — | Classify, Backoff, Sleep | timer against cancellation | as above |
| `internal/provider` | adapter cache | For, Chat, ChatStream, CopyStream | errors before and after the response is committed | the usage of the last call is what is settled |
| `pkg/scheduler` | two queues, worker slots, stop channel | Submit, Stop, dispatch, run | eight selects, each racing with contexts and Stop | slots neither leak nor double; Submit and Stop return |
| `pkg/proxy` | per-request context values, a pipe | ServeHTTP, modifyResponse, teeAndCount, errorHandler | three places settle, two of them in goroutines that outlive the handler | every reservation settled, none twice |
| `internal/store`, `internal/auth` | key cache in Redis, singleflight | LookupKey, Lookup | a lock freed by replicas that do not hold it; a shared call under one caller's context | no answer is older than a cache entry may be; a failed lookup is never cached as a refusal; every lookup returns |
| `pkg/prefixcache`, `internal/types`, `internal/endpoint/config.go`, `cmd/mockprovider`, k8s manifests, scripts | small or none | — | little | not modelled, see section 7 |

Interaction: the handler calls the limiter before and after `forward`; `forward`
calls `Pool.Pick`, an adapter and `Pool.Report` in a loop; the health checker and
the refresh goroutine write to the same pool; the status pages read it, and
reading a breaker may move it from open to half-open. The old proxy uses the
scheduler and the same limiter.

## 2. Modules

    Breaker            operators on one breaker record
      BreakerCalls     one breaker, concurrent callers, a clock      + BreakerProofs
      Pool             the endpoint pool, Pick cut at its breaker calls
        HealthChecker  probe rounds and mark
          Routing      pool + requests + health checker + refresh + status pages
                                                                     + RoutingProofs
        Gateway        the handler and the retry loop on the pool    + GatewayProofs
    Limiter            PreDeduct, the Lua script, SettleQuota on a shared Redis
                                                                     + LimiterProofs
    JobService         what Submit promises (abstract)
      Scheduler        Submit, dispatch, run and Stop: implements JobService
                                                                     + SchedulerProofs
      Proxy            the reverse proxy, built on JobService        + ProxyProofs
    KeyCache           lookups of an API key through Redis and singleflight
                                                                     + KeyCacheProofs
    FiniteSums         lemmas on sums over finite sets, for the proofs
    MC*                instances for TLC

`RoutingProofs` covers Pool, HealthChecker and Routing, and `GatewayProofs` uses
its lemmas about the pool.

`Scheduler` implements `JobService` (`ImplementsJobService`), and `Proxy` extends
`JobService` instead of `Scheduler`: it is checked against every scheduler that
keeps the promise, with a small state space. `Pool` implements one `BreakerCalls`
for each endpoint (`PoolImplementsBreakers`, with `CallTo` as the
mapping of callers and the breaker's own failure count as the history `streak`):
what is proved of `BreakerCalls` for all callers and thresholds then holds of the
pool's breakers.

Each operation of the code is one action; where the code can be interrupted in
the middle of one, it is several:

* **Breaker.** Every method runs under its mutex: one function from record to
  record. `openedAt` is kept as the age `elapsed`, which the code only compares
  with `Cooldown`, so it stops counting there; so does `failures` at the
  threshold.
* **Pool.** `Pool.mu` is the variable `lock`. `PickScan` filters the candidates and
  chooses; `PickGranted`, `PickRefused` and `PickGivesUp` are the answers of
  `Allow` to the first and the second choice. `Report` needs no lock between its
  steps, so results land between these. `members` is `byID`; `byModel` is its
  inverse, which is sound because a table's IDs are distinct (they are the table's
  primary key).
* **HealthChecker, Routing.** A round's list is read once (`CheckAll`); each
  `Check` probes and marks. `RefreshEndpoints` is `refreshEndpoints`: an empty
  table, or one with an invalid row, changes nothing.
* **Limiter.** `Seed`, `ReadClock` and `RunScript` are PreDeduct's three
  interruptible parts. The script is one step, as Redis runs it. The window is a
  set of entries with the member names the script really forms (`Rounded`, count
  plus one), so that an entry may overwrite another. Environment actions lose
  commands or replies, send a command again (go-redis does by default), crash a
  replica, and empty Redis (`k8s/redis` mounts no volume).
* **Gateway.** `pc` is the handler's place. `RouteStep` runs Pick's steps,
  `Call`/`UnknownProvider` are the two answers of `Registry.For`, `Unreachable`,
  `Refused`, `ChatReturns`, `StreamOpens`, `Chunk`, `StreamEnds` and
  `StreamBreaks` what an adapter can do, `Wakes` and `SleepCancelled` how a pause
  ends. The three adapters have the same control and differ in encoding, which is
  left out. A call costs what the upstream reports, which may be any record of
  `Usages`, also one without figures; a stream's record is completed by
  `UsageOrEstimate` with the estimate of its text, any number of `Generated`.
  Which requests stream is the constant `Streaming`.
* **Scheduler.** Every `select` is one step. `dispatcher` names the select that
  dispatch, tryDequeue or dequeue is at; `runner[j]` follows the deferred calls of
  `run` in their order.
* **JobService.** A call of Submit waits, then returns nil or one of two errors; a
  job is called at most once, and not when its context has ended. An error
  says nothing about the job: it may be running, and after Stop it may even begin
  later. Nil says that the job is over, or was dropped because its context or the
  scheduler ended. The fairness part is that Submit's jobs are served.
* **Proxy.** `answer` is ServeHTTP, `reverse` the job (`httputil.ReverseProxy`,
  external), `tee` the goroutine of modifyResponse, and the pipe between the two a
  rendezvous: `PipeMoves` is a Write that returns because the copy has taken the
  line or has closed the pipe. What the goroutine counts is any number of `Actuals`.
  `settlements` records the `actual` of every SettleQuota; what Redis does
  with it is Limiter's part. A write to a client that is gone makes ReverseProxy
  panic with `http.ErrAbortHandler`; `run` calls the job in a goroutine of its own
  and recovers nothing, so `Crash` ends the process, at any later moment.
* **KeyCache.** One key, since keys share nothing. `flight[r]` is the call in the
  singleflight group of replica r; each of its Redis and database calls is a step
  that may fail. `entry` is the value in Redis with its remaining life. Every copy
  of a row carries `stale`, the time since the database last agreed with it, which is
  history. `RowOf` is the SQL of `MySQL.LookupKey` with its LEFT JOIN.

Definitions called `Mutant...` are deliberate bugs. No specification uses them;
each is substituted for the definition it varies to see that a property notices.

## 3. Runs

| Run | Instance | Shows |
|---|---|---|
| `breaker` | 3 callers, threshold 2, cooldown 2 | `ClosedIffStreakBelowThreshold`, `ProbeSlotOwned`, `OpenShedsLoad`, `EventuallyAdmits` |
| `pool` | 2 endpoints (weights 2, and 0 which means 1), 3 requests | `PoolImplementsBreakers`, `WRRBounded` |
| `routing` | 2 endpoints, 2 requests, 4 tables | `ProbeSlotHeld`, `UnhealthyOnlyAfterFails`, `HandedOutServable`, `OnlyResultsClose`, `RecoveredServesAgain` |
| `limiter` | 1 user, 3 requests, limit 2, window 2, 1 loss | `TakenMatchesStage`, `LossIsBounded`, `NoOverdraft`, `Conserved`, `RefusalJustified` |
| `gateway` | a streamed and a plain request, 1 endpoint, refreshed to 2 of which one is mistyped, 2 attempts | `SettledExactlyOnce`, `LastCallCharged`, `EndpointsTriedOnce`, `CancelledStops`, `EveryRequestAnswered` |
| `gateway_stream` | the same with 2 endpoints from the start | violates `SingleSource` |
| `gateway_leak` | 1 endpoint, refreshed to a mistyped provider | violates `ProbeSlotComesFree` |
| `scheduler` | 2 jobs, 1 slot, queues of 1 | `ImplementsJobService`, `SlotsAccounted`, `StopIsFinal`, `EverySubmitReturns`, `StopEnds` |
| `proxy` | 2 requests that reserve 3 tokens and use 1 or 4 | `SecondSettlementIsRefund`, `FinishedIsSettled`, `RequestEnds` |
| `proxy_refund` | 1 request | violates `NeverRefundedTwice` |
| `proxy_unsettled` | 1 request | violates `ReservationSettled` |
| `keycache` | 2 replicas with 2 and 1 callers, entries of 1 to 3 ticks | `AnswersAreRecent`, `EveryLookupReturns` |

Every passing run also checks its module's type invariant.

**Why the bounds are enough.** The breaker's run has a caller more than its
threshold, so that a run of failures, a probe and a late result overlap. The
pool's run has the three requests that it takes for both choices of one Pick to be
refused by the results of two others. The routing tables remove and return an
endpoint, are empty, and hold an invalid row. The limiter's third request meets a
full window, and three of its estimates exceed the balance; time goes past the
window and past the key's expiry, and a settlement may be of a negative amount. The
gateway's only endpoint may fail, be shed or become one of two; it then has as many
attempts as endpoints, and the refresh hits a request between Pick and For. Its
upstreams send a usage record without any figure and one without a total. The
scheduler's two jobs fill the slot and a queue. The proxy's two requests share the
scheduler's stop and a crash, which ends the one because of the other's client; they
cost less and more than was reserved. The key cache has a call that two callers share
and a replica that overwrites its entry, a key that is deleted and restored and a user
that is suspended, and a lock that expires in one tick. The other statuses a row may
have give the same three records. Bounds are constants: `MaxTime`, `MaxLosses`,
`MaxJitter` (Limiter) and `MaxDelay` (KeyCache: how long a call may sit on the
database's answer; the code has no such bound, and `AnswersAreRecent` is stated
relative to it). Where the cfg turns off deadlock checking the system may really
stop: the limiter when the clock's bound is reached and all requests are over, the scheduler when it has been stopped, the
proxy when its requests are over or the process has crashed.

**Fairness.**
* Goroutines run, timers fire, the clock advances: weak fairness on each.
* `Pool.mu`: the health checker competes for the mutex with requests. Go's mutex
  passes itself to a waiter that has starved for a millisecond: strong fairness
  of the checker's steps.
* Upstream calls. `NewHTTPClient` has a timeout for the response header and none
  for the body. `Gateway` therefore assumes only that a client does not wait for
  ever, and that a read ends once the client is gone, because that cancels the
  context of the read. `BreakerCalls` and `Routing` state the consequence, that
  every call is reported some day.
* Scheduler: jobs return. They get their Submit's context for that purpose. Each job
  is submitted once, and there are finitely many: see section 7.
* Proxy: Submit serves, as JobService promises; the wait for a header ends (60 s);
  a client does not wait for ever, and reads and writes end once it is gone. An
  upstream may stall in its body for as long as its client waits.
* KeyCache: callers run, and the calls of Redis and the database return or fail.
  Nothing is assumed about success, about the lock or about the clock.
* Nothing is assumed about outcomes, about clients coming back or about Stop being
  called. `RecoveredServesAgain` is about an upstream that recovers for good.

## 4. Findings

* **Two endpoints in one response** (`gateway_stream`). A stream that breaks off is
  retried on another endpoint into the committed response.
* **A probe slot is lost** (`gateway_leak`). With an unknown provider name
  `forward` continues without `Report`. `ProbeSlotHeld` holds in
  `routing`, where every call reports: the leak is this path's alone.
* **More given back than was taken** (`proxy_refund`). `Submit` may return an error
  while its job is running. ServeHTTP then refunds the whole reservation, and the
  job's own settlement refunds what it did not use. `SecondSettlementIsRefund` says
  that this is the only way to a second settlement.
* **A reservation that is never settled** (`proxy_unsettled`, two findings). The
  trace shows a client that hangs up while its answer is copied: `ReverseProxy`
  panics in the scheduler's goroutine, which recovers nothing, and the process ends
  with the goroutine that drains the upstream "so we can still settle". Without a
  crash the property fails as well: Submit returns nil for a job that was dropped
  because its context or the scheduler had ended, and the proxy takes nil for
  success. `FinishedIsSettled` and `RequestEnds`, which hold, say that there is no
  third way: a request ends unless the process crashes, and a request that has
  ended is settled once for a failed Submit and once for a job that was called.

What the properties that hold do not say:

* `LastCallCharged` speaks of the last call. The tokens of a stream that broke off
  are charged to nobody when another attempt follows it or none is left; and what is
  charged is what the upstream reports, which may be nothing.
* `RefusalJustified` says that who is turned away met a full window, not that a window
  holds no more than `Limit` admissions. It may hold more: the comment in the Lua
  script says that the names of entries are unique, but the count in a name goes down
  with evictions and its time has 14 of 16 digits, so an entry may replace a live
  one. The jitter of the time stamps also evicts entries up to a millisecond early.
* `ProbeSlotOwned` does not say that there is one probe: the result of a call from
  before the breaker opened frees the slot, and a second probe starts beside the
  first, although `breaker_test.go` and `docs/interview-script.md` speak of only one.
* `WRRBounded` bounds a credit by (n - 1) times the heaviest weight, where n is the
  number of members. The total weight, a natural guess, bounds it for up to three
  endpoints only: with weights 1, 1, 1 and 9 and picks that leave members out, a
  credit of 14 is reached. The comment of `wrr.go` speaks of rounds in which
  everybody takes part; Pick leaves members out for their model, their breaker, the
  request's exclude set and its second choice. A refresh may double the bound
  (`RefreshedCreditIsBounded`).

## 5. Proofs

The theorems hold for all values of the constants that satisfy the modules'
assumptions: positive thresholds, limits, lives and capacities; finitely many jobs
(Scheduler) and requests (Limiter), since their slots and tokens are added up;
endpoint tables that are sequences of rows, and a value `Nobody` that is neither a
request nor an endpoint (Pool). Sets of endpoints, callers, users and replicas are
arbitrary. Three theorems need more: `RefreshedCreditIsBounded` and
`HandlersKeepCreditBounded` take finitely many endpoints and a highest weight, because
their bound is made of them, and `KnownProvidersLoseNoSlot` says in its hypothesis
that the registry knows every provider the tables name.

An invariant of the runs is seldom inductive. What had to be added, and why:

* **BreakerProofs** (`BreakerInv`). `failures` equals the history `streak`; a failed
  probe, which does not count, preserves this only because the counter of a breaker
  that is not closed is already at the threshold. `CoolingBreakerSheds` is an
  action property that follows from the type invariant step by step.
* **RoutingProofs.**
  * `PoolInv`: the member records are sound (`MembersOK`: a slot is taken only in
    HalfOpen, a breaker is closed while its count is below the threshold, positions
    differ, and there are finitely many members), the lock belongs to the one request
    in the middle of a Pick (`LockHeld`), and what its scan found still stands
    (`ScanHolds`), since whoever could change it needs the lock. `HandedOutServable`
    rests on the last: results move breakers during a Pick, but not health, models or
    the table.
  * `PoolRefinesBreakers` proves the refinement `PoolImplementsBreakers`: initial
    states map to initial states, and each action to one step of the endpoint's
    `BreakerCalls` or to a stutter. Under refreshes an endpoint may go and come back
    with a new breaker, so that there is no refinement of one breaker's whole life;
    `RouterUsesBreakers` proves the step part for every endpoint that stays.
  * `CreditInv`: the bound on one credit is not inductive, and neither is the sum being
    zero. With c the heaviest weight and n members, the credits of every set of a
    members add up to at most c·a·(n − a) in size (`Level`, `Spread`). A winner's
    credit is at least the average of the candidates', so what a set with the winner
    has follows from the bounds of the set with the losing candidates added and the
    set without the winner (`RoundKeepsLevel`). For a = 1 this is `WRRBounded`.
  * `RoutingInv` adds the checker: `UnhealthyOnlyAfterFails` is inductive because a
    refresh carries health over by ID and the checker's counts are kept by ID too.
    For credit through refreshes the sum is no longer zero; the same argument with
    2n − 1 in the place of n gives `RefreshedCreditIsBounded`.
* **GatewayProofs** (`GatewayInv`: the pool's invariant, and `RequestInv` for each
  request). Where the handler is and how far its Pick is agree (`StageMatchesPick`);
  a reservation is held from PreDeduct to its settlement (`Reserved`); what was tried
  is excluded, and what Pick returns is not (`Excluded`, from `ScanHolds`); calls
  and attempts are counted together (`Counted`); a call that began after its client
  was gone is the last (`LastCall`: its failure is not retried, since the context is
  tested first); the usage on its way to SettleQuota is that of the last call, or none
  when that call failed with its client still there (`Metered`).
  * The pool behind the handlers. RoutingProofs lets a request end its call in one
    step; a handler reports, sleeps and tries again. `PoolSideOfStep` shows that on
    the pool every step of the gateway is a step of Pick, a Report, a move without
    an endpoint, a refresh, a tick of the clock, or `UnknownProvider`. All but the
    last do what the router's steps do, so `HandedOutServable`, `OnlyResultsClose` and
    the bound on credit carry over (`HandlersGetServable`, `HandlersCloseByResults`,
    `HandlersKeepCreditBounded`). The last lets go of an endpoint without a Report:
    the finding of `gateway_leak`. `OnlyForgettingLeaks` proves that it is the only
    cause, and `KnownProvidersLoseNoSlot` that `ProbeSlotHeld` holds without it.
  * What the client gets (`OutputInv`). A status is written once, on every path
    (`StatusWrittenOnce`), a handler that returns has written one
    (`FinishedMeansAnswered`, the safety half of `EveryRequestAnswered`), and a request
    that does not stream has output of one endpoint (`PlainAnswersHaveOneSource`):
    what `gateway_stream` violates is a matter of streams alone. The invariant is that
    such a request has sent nothing while it is in the loop.
* **LimiterProofs.**
  * `AccountInv`: `TakenMatchesStage` speaks of requests without a fault only, and
    `LossIsBounded` says nothing of stages, so a request that has taken its estimate
    could take it again. `TakenAtStage` says what a request at each stage can have
    taken. For `NoOverdraft` the argument is the script's own test: a deduction leaves
    zero or more, and only settlements beyond the estimate go below.
  * `Ledger`: `Conserved`, and that a user without a balance has taken nothing.
  * `WindowInv`: every entry of a window stems from an admission of its own (`Logged`).
    This is an injection, which compares cardinalities without counting: a full window
    is `Limit` admissions, which is `RefusalJustified`.
* **SchedulerProofs.** `SchedInv`: a job is in one place only, in one queue, in the
  dispatcher's hand or in a goroutine (`OnePlace`); otherwise starting a job that
  already has a goroutine would take a slot without a new holder.
  `PromiseInv`: what a closed `done`, a job that ran and a Submit that returned mean.
  From both, `ImplementsServiceSafety`: every step is a step of JobService or a
  stutter. `PlaceInv` (the theorem `NoJobLost`) is the converse of `OnePlace`: a job
  that is waited for is in some place. With `SlotsAccounted` it gives
  `NobodyWaitsOnEverybody`: whatever the sizes, while a Submit or Stop has not
  returned, some case of some select is ready. ENABLED is out of the prover's reach,
  so readiness is written out as the guards of the actions.
* **ProxyProofs** (`ProxyInv`). The settlements of a request are counted by the places
  that sent them (`Counted`), each recognisable from where the handler, the job and
  the goroutine have got to, which must be in step (`InStep`). With one more
  fact, that ServeHTTP returns without a refund only after nil, the count is exact
  when a request is finished (`FinishedRequestsAreSettled`): one for a failed Submit
  plus one for a job that was called. This shows when `proxy_refund` happens and that
  it happens in no other way, and that a finished request is unsettled only when its
  job was dropped.
* **KeyCacheProofs** (`KeyInv`). An answer is stale for at most as long as its call
  has held it (`AnswerAge`), only rows are stored (`StoresRows`), and a caller
  that waits has a call to wait for (`WaitersHaveFlight`, the theorem
  `NobodyIsStranded`).
* **FiniteSums.** `SumFunctionOnSet` is a fold, of which the provers know nothing, and
  the library's induction theorems cannot be instantiated by them. Induction over
  finite sets is done instead with a set of subsets that has a least counterexample,
  by the well-order of the natural numbers.

Only model-checked: all liveness (`EventuallyAdmits`, `RecoveredServesAgain`,
`EveryRequestAnswered`, `EverySubmitReturns`, `StopEnds`, `RequestEnds`,
`EveryLookupReturns`) and the fairness half of `ImplementsJobService`: TLAPS proves
nothing that rests on fairness. For `EveryRequestAnswered`, `EverySubmitReturns`,
`StopEnds` and `EveryLookupReturns` the proved part is what must hold so that fairness
is enough (`FinishedMeansAnswered`, `NobodyWaitsOnEverybody`, `NobodyIsStranded`). The
violations are TLC's, too.

## 6. Plan

1. Done: all components of section 2 modelled and checked; the refinements of
   JobService and BreakerCalls; proofs of every invariant and action property of the
   passing runs.
2. Done: what was proved of the pool alone, for the pool behind the handlers; that a
   probe slot is lost there only on the path of the finding `gateway_leak`; the safety
   halves of the liveness properties of the gateway, the scheduler, the proxy and the
   key cache.
3. To model: the adapter cache of `provider.Registry` under table refreshes; an
   abstract quota ledger that Limiter implements. To check: how many admissions a
   window can hold, and the single probe that `breaker_test.go` speaks of.

## 7. Not modelled

* The adapter cache of `provider.Registry`: Gateway's `Call` takes the adapter for
  the endpoint that was picked.
* In the proxy, what becomes of a response that the job still writes to after
  ServeHTTP has returned (the context ends soon after), the choice of a priority
  (Scheduler takes any) and the health page. In authentication, the parsing of the
  header, the passthrough mode and the in-memory stores, which have no interruptible
  steps.
* `pkg/prefixcache`: a set of strings behind a lock that sets a header.
* How tokens are counted: the parsing of SSE lines, of which those that do not parse
  count for nothing, and the estimates. Gateway takes any usage record and Proxy any
  count, and no property relates a charge to the text that a client received.
* `internal/types`, YAML parsing, metrics, logging, request IDs: data and text
  without control that any property here depends on.
* Endless arrivals in the scheduler. A job is submitted once and there are finitely
  many, so `EverySubmitReturns` and JobService's promise to serve do not say that a
  low-priority job is served while high-priority jobs keep coming: `tryDequeue` and
  `dequeue` look at the high queue first, and such a job waits until its context ends.
* Endpoint tables with two rows of one ID, which the database cannot hold (a YAML
  file can: the pool then keeps both rows for routing and reports to the last).
* Latency averages, which nothing but the status pages reads.
* Shutdown of the process, `Checker.Stop`, a second call of `Scheduler.Stop` (which
  returns at once, without waiting for the jobs).
* The k8s manifests, scripts and the mock provider.
