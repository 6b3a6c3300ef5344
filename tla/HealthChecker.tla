--------------------------- MODULE HealthChecker ---------------------------
(***************************************************************************)
(* internal/health: one goroutine that probes every endpoint of the pool   *)
(* in turn, round after round.  The list of a round is read once, at its   *)
(* start, so the pool may be replaced between a probe and its mark.        *)
(***************************************************************************)
EXTENDS Pool

VARIABLES
    streak,             \* streak[e]: consecutive failed probes of e, saturating at
                        \* Fails; kept by ID, also across the endpoint's removal
    round               \* the endpoints still to be probed in this round

healthVars == <<streak, round>>

Fails == 2              \* Checker.fails

HealthTypeOK ==
    /\ streak \in [Endpoints -> 0..Fails]
    /\ round \subseteq Endpoints

HealthInit ==
    /\ streak = [e \in Endpoints |-> 0]
    /\ round = {}

----------------------------------------------------------------------------

\* Mutant: the first failed probe already takes the endpoint out.
MutantMark(e, ok) ==
    /\ streak' = [streak EXCEPT ![e] = IF ok THEN 0 ELSE IF @ < Fails THEN @ + 1 ELSE @]
    /\ SetHealth(e, IF ok THEN Healthy ELSE Unhealthy)

\* Mutant: a good probe restarts the count but does not restore the endpoint.
MutantMarkNeverRestores(e, ok) ==
    /\ streak' = [streak EXCEPT ![e] = IF ok THEN 0 ELSE IF @ < Fails THEN @ + 1 ELSE @]
    /\ IF streak'[e] >= Fails THEN SetHealth(e, Unhealthy) ELSE UNCHANGED poolVars

\* CheckAll starts a round: it copies the pool's endpoints (Pool.All).
CheckAll ==
    /\ round = {}
    /\ lock = Nobody
    /\ round' = DOMAIN members
    /\ UNCHANGED <<streak, poolVars>>

\* mark: one good probe restores an endpoint, Fails bad ones in a row take it
\* out.  A bad probe below that count does not touch the pool.
mark(e, ok) ==
    IF ok
    THEN /\ streak' = [streak EXCEPT ![e] = 0]
         /\ SetHealth(e, Healthy)
    ELSE /\ streak' = [streak EXCEPT ![e] = IF @ < Fails THEN @ + 1 ELSE @]
         /\ IF streak'[e] >= Fails
            THEN SetHealth(e, Unhealthy)
            ELSE UNCHANGED poolVars

\* Check: the probe of one endpoint of the round and its verdict (the map's
\* iteration order is unspecified).
Check(e, ok) ==
    /\ e \in round
    /\ mark(e, ok)
    /\ round' = round \ {e}
============================================================================
