------------------------------ MODULE Routing ------------------------------
(***************************************************************************)
(* The router of one gateway replica: the pool, the requests that Pick     *)
(* from it and Report back, the health checker, and the goroutine of       *)
(* cmd/main.go that replaces the pool from the database.  What a request   *)
(* does between Pick and Report is left open here; module Gateway fills it *)
(* in.                                                                     *)
(***************************************************************************)
EXTENDS HealthChecker

CONSTANT
    Recovering          \* the endpoints whose upstream recovers for good at some time

VARIABLE up             \* environment: up[e], endpoint e has recovered for good and
                        \* answers every further health probe

routingVars == <<poolVars, healthVars, up>>

RoutingTypeOK ==
    /\ PoolTypeOK
    /\ HealthTypeOK
    /\ up \in [Endpoints -> BOOLEAN]

RoutingInit ==
    /\ NewPool(FirstTable)
    /\ HealthInit
    /\ up = [e \in Endpoints |-> FALSE]

----------------------------------------------------------------------------

\* A request arrives, picks, ends its call or finds no endpoint.
Request(c) == RequestStep(c) /\ UNCHANGED <<healthVars, up>>

StartRound == CheckAll /\ UNCHANGED up

Probe(e) ==
    /\ \E ok \in (IF up[e] THEN {TRUE} ELSE BOOLEAN) : Check(e, ok)
    /\ UNCHANGED up

\* refreshEndpoints: an empty result and a failed query leave the pool alone.
RefreshEndpoints(rows) ==
    /\ rows # <<>>
    /\ Replace(rows)
    /\ UNCHANGED <<healthVars, up>>

\* A scrape of /metrics or /model-status.
Scrape == Snapshot /\ UNCHANGED <<healthVars, up>>

RouterTick == PoolTick /\ UNCHANGED <<healthVars, up>>

Recover(e) ==
    /\ e \in Recovering
    /\ ~up[e]
    /\ up' = [up EXCEPT ![e] = TRUE]
    /\ UNCHANGED <<poolVars, healthVars>>

RoutingNext ==
    \/ \E c \in Callers : Request(c)
    \/ \E e \in Endpoints : Probe(e) \/ Recover(e)
    \/ StartRound
    \/ \E rows \in Tables : RefreshEndpoints(rows)
    \/ Scrape
    \/ RouterTick

(***************************************************************************)
(* A Pick runs to its end, an upstream call returns (the wait for a header *)
(* has a timeout, and no client waits for ever for a stalled answer), the  *)
(* clock advances and the checker's goroutine runs.  The checker competes  *)
(* for Pool.mu, and Go's mutex hands itself to a starving waiter: strong   *)
(* fairness.                                                               *)
(***************************************************************************)
RoutingFairness ==
    /\ \A c \in Callers :
          /\ WF_routingVars(PickStep(c) /\ UNCHANGED <<healthVars, up>>)
          /\ WF_routingVars(Return(c) /\ UNCHANGED <<healthVars, up>>)
    /\ WF_routingVars(RouterTick)
    /\ SF_routingVars(StartRound)
    /\ \A e \in Endpoints : SF_routingVars(Probe(e))

RoutingSpec == RoutingInit /\ [][RoutingNext]_routingVars

RoutingFairSpec == RoutingSpec /\ RoutingFairness

----------------------------------------------------------------------------

\* checker.go:107-120 with pool.go:49-78: an endpoint is out of the candidate
\* pool only after Fails failed probes in a row, the last of which is the last
\* probe it had, whatever refreshes happened between the probes.
UnhealthyOnlyAfterFails ==
    \A e \in DOMAIN members :
        members[e].health = Unhealthy => streak[e] >= Fails

\* docs/day3-failover.md: an endpoint that answers its probes again is, again
\* and again, healthy with a breaker that admits a call, as long as it stays
\* in the pool.
RecoveredServesAgain ==
    \A e \in Endpoints :
        up[e] ~> (e \in DOMAIN members =>
                    members[e].health = Healthy /\ Eligible(members[e].breaker))
============================================================================
