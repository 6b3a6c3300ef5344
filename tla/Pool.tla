-------------------------------- MODULE Pool --------------------------------
(***************************************************************************)
(* internal/endpoint: the pool of model endpoints a gateway replica routes *)
(* to.  Pool.mu is held through the whole of Pick, Replace, SetHealth and  *)
(* Snapshot.  A breaker has a mutex of its own and Report calls it after   *)
(* it has let go of Pool.mu, so results land in the middle of a Pick:      *)
(* Pick is cut at its calls of breaker.Allow, everything else is atomic.   *)
(*                                                                         *)
(* One scan of the candidates stays one step: an Eligible call touches one *)
(* breaker only, and commutes with a result that lands on another one.     *)
(***************************************************************************)
EXTENDS Breaker, Integers, Sequences, FiniteSetsExt, Functions

CONSTANTS
    Endpoints,          \* endpoint IDs (a row's primary key)
    Models,             \* logical model names
    Callers,            \* concurrent requests, each calling Pick
    FirstTable,         \* the endpoint table NewPool is given: a sequence of
                        \* [id, model, weight, provider, complete], IDs distinct
    Tables              \* the tables Replace may be given later

\* The names of the providers that the tables ask for.
ProviderNames ==
    ({"openai"} \cup
     UNION {{rows[i].provider : i \in DOMAIN rows} : rows \in Tables \cup {FirstTable}}) \ {""}

\* A row of the endpoint table.
RowRecord ==
    [ id : Endpoints, model : Models, weight : Int, provider : ProviderNames \cup {""},
      complete : BOOLEAN ]

\* Replace takes a row without a provider for one of OpenAI.
ProviderOf(row) == IF row.provider = "" THEN "openai" ELSE row.provider

Healthy   == "healthy"
Unhealthy == "unhealthy"
Nobody    == "nobody"   \* the lock's holder, and the chosen ID, when none

ASSUME PoolAssumption ==
    /\ Nobody \notin Callers \cup Endpoints
    /\ Tables \cup {FirstTable} \subseteq Seq(RowRecord)

VARIABLES
    members,            \* byID, and byModel as its inverse: a function from the
                        \* IDs in the pool to their member records
    lock,               \* the caller whose Pick holds Pool.mu between its steps
    pick                \* pick[c]: the progress of c's Pick

poolVars == <<members, lock, pick>>

NoPick ==
    [ pc |-> "idle", model |-> Nobody, exclude |-> {}, cands |-> {},
      chosen |-> Nobody,        \* the endpoint chosen, then returned
      probe |-> FALSE,          \* history: its Allow took the probe slot
      provider |-> Nobody ]     \* in the copy of the endpoint that was returned

\* member: the endpoint with its health, breaker and round-robin state; pos is
\* its place in the pool's order.
MemberRecord ==
    [ model : Models, provider : ProviderNames, pos : Nat, weight : Nat \ {0},
      health : {Healthy, Unhealthy}, breaker : BreakerRecord, current : Int ]

PickRecord ==
    [ pc : {"idle", "pick", "allow", "retry", "got", "none"},
      model : Models \cup {Nobody}, exclude : SUBSET Endpoints,
      cands : SUBSET Endpoints, chosen : Endpoints \cup {Nobody},
      probe : BOOLEAN, provider : ProviderNames \cup {Nobody} ]

PoolTypeOK ==
    /\ DOMAIN members \subseteq Endpoints
    /\ members \in [DOMAIN members -> MemberRecord]
    /\ lock \in Callers \cup {Nobody}
    /\ pick \in [Callers -> PickRecord]

----------------------------------------------------------------------------
(* Mutants *)

\* Replace that starts every endpoint afresh instead of carrying it over.
MutantMemberOf(rows, i, old) ==
    [ model |-> rows[i].model, provider |-> ProviderOf(rows[i]), pos |-> i,
      weight |-> IF rows[i].weight = 0 THEN 1 ELSE rows[i].weight,
      health |-> Healthy, breaker |-> NewBreaker,
      current |-> IF rows[i].id \in DOMAIN old THEN old[rows[i].id].current ELSE 0 ]

\* Replace that keeps a weight of 0.
MutantMemberOfKeepsZero(rows, i, old) ==
    [MutantMemberOf(rows, i, old) EXCEPT !.weight = rows[i].weight]

\* The winner pays back its own weight, not the total.
MutantAfterWRR(ms, cands) ==
    LET best == CHOOSE e \in cands :
                    \A f \in cands : ms[e].current + ms[e].weight >= ms[f].current + ms[f].weight
    IN  [e \in DOMAIN ms |->
            IF e \in cands \ {best} THEN [ms[e] EXCEPT !.current = @ + ms[e].weight] ELSE ms[e]]

\* Report ignores results that are neither a success nor a failure.
MutantReported(ms, e, outcome) ==
    IF e \notin DOMAIN ms THEN ms
    ELSE [ms EXCEPT ![e].breaker =
            IF outcome = "success" THEN Success(@)
            ELSE IF outcome = "release" THEN @
            ELSE Failure(@)]

\* SetHealth without Pool.mu.
MutantSetHealth(e, h) ==
    /\ members' = IF e \in DOMAIN members
                  THEN [members EXCEPT ![e].health = h] ELSE members
    /\ UNCHANGED <<lock, pick>>

----------------------------------------------------------------------------
(* Replace *)

Rows(rows) == {rows[i].id : i \in DOMAIN rows}

\* The member that row i becomes: health, breaker and WRR state carry over from
\* the member with the same ID; weight 0 means 1.
MemberOf(rows, i, old) ==
    LET row   == rows[i]
        known == row.id \in DOMAIN old
    IN  [ model    |-> row.model,
          provider |-> ProviderOf(row),
          pos      |-> i,
          weight   |-> IF row.weight = 0 THEN 1 ELSE row.weight,
          health   |-> IF known THEN old[row.id].health  ELSE Healthy,
          breaker  |-> IF known THEN old[row.id].breaker ELSE NewBreaker,
          current  |-> IF known THEN old[row.id].current ELSE 0 ]

\* No field that must be set is empty, and the weight is not negative.
Validate(row) == row.complete /\ row.weight >= 0

\* One row that Validate rejects leaves the pool as it was.
Replaced(rows, old) ==
    IF \A i \in DOMAIN rows : Validate(rows[i])
    THEN [e \in Rows(rows) |->
            LET i == CHOOSE j \in DOMAIN rows : rows[j].id = e
            IN  MemberOf(rows, i, old)]
    ELSE old

Replace(rows) ==
    /\ lock = Nobody
    /\ members' = Replaced(rows, members)
    /\ UNCHANGED <<lock, pick>>

----------------------------------------------------------------------------
(* Pick *)

\* nextWRR: every candidate gains its weight, the highest one wins, the first
\* in the pool's order among equals, and pays the total back.
NextWRR(ms, cands) ==
    LET raised == [e \in cands |-> ms[e].current + ms[e].weight]
    IN  CHOOSE e \in cands :
            \A f \in cands \ {e} :
                \/ raised[e] > raised[f]
                \/ raised[e] = raised[f] /\ ms[e].pos < ms[f].pos

TotalWeight(ms, S) == SumFunctionOnSet([e \in S |-> ms[e].weight], S)

AfterWRR(ms, cands) ==
    LET best == NextWRR(ms, cands)
    IN  [e \in DOMAIN ms |->
            IF e \notin cands THEN ms[e]
            ELSE [ms[e] EXCEPT !.current =
                    @ + ms[e].weight - (IF e = best THEN TotalWeight(ms, cands) ELSE 0)]]

\* Asking Eligible of the breakers in S may turn them half-open.
Asked(ms, S) ==
    [e \in DOMAIN ms |->
        IF e \in S THEN [ms[e] EXCEPT !.breaker = maybeHalfOpen(@)] ELSE ms[e]]

\* The members Pick asks Eligible of, in its own order of tests.
Servable(ms, model, exclude) ==
    {e \in DOMAIN ms \ exclude :
        ms[e].model = model /\ ms[e].health = Healthy /\ ms[e].weight > 0}

EligibleIn(ms, S) == {e \in S : Eligible(ms[e].breaker)}

\* The caller enters Pick: it filters the model's members and chooses one.
PickScan(c) ==
    /\ pick[c].pc = "pick"
    /\ lock = Nobody
    /\ LET asked == Servable(members, pick[c].model, pick[c].exclude)
           ms    == Asked(members, asked)
           cands == EligibleIn(members, asked)
       IN  IF cands = {}
           THEN /\ pick' = [pick EXCEPT ![c].pc = "none"]
                /\ members' = ms
                /\ lock' = Nobody
           ELSE /\ pick' = [pick EXCEPT ![c].pc = "allow", ![c].cands = cands,
                                        ![c].chosen = NextWRR(ms, cands)]
                /\ members' = AfterWRR(ms, cands)
                /\ lock' = c

\* Allow says yes: Pick returns the endpoint.
PickGranted(c) ==
    LET e == pick[c].chosen IN
    /\ pick[c].pc \in {"allow", "retry"}
    /\ Allowed(members[e].breaker)
    /\ members' = [members EXCEPT ![e].breaker = Allow(@)]
    /\ pick' = [pick EXCEPT ![c].pc = "got", ![c].cands = {},
                            ![c].probe = AllowProbes(members[e].breaker),
                            ![c].provider = members[e].provider]
    /\ lock' = Nobody

\* Allow says no to the first choice, because a result landed since the scan:
\* the choice goes to the caller's exclude set, and Pick chooses once more
\* among the other candidates that are still eligible.
PickRefused(c) ==
    LET e     == pick[c].chosen
        asked == pick[c].cands \ {e}
        ms    == Asked(members, pick[c].cands)
        rest  == EligibleIn(members, asked)
    IN
    /\ pick[c].pc = "allow"
    /\ ~Allowed(members[e].breaker)
    /\ IF rest = {}
       THEN /\ pick' = [pick EXCEPT ![c].pc = "none", ![c].cands = {},
                                    ![c].exclude = @ \cup {e}]
            /\ members' = ms
            /\ lock' = Nobody
       ELSE /\ pick' = [pick EXCEPT ![c].pc = "retry", ![c].cands = rest,
                                    ![c].exclude = @ \cup {e},
                                    ![c].chosen = NextWRR(ms, rest)]
            /\ members' = AfterWRR(ms, rest)
            /\ UNCHANGED lock

\* Allow says no to the second choice as well: ErrNoEndpoint.
PickGivesUp(c) ==
    LET e == pick[c].chosen IN
    /\ pick[c].pc = "retry"
    /\ ~Allowed(members[e].breaker)
    /\ members' = Asked(members, {e})
    /\ pick' = [pick EXCEPT ![c].pc = "none", ![c].cands = {}]
    /\ lock' = Nobody

PickStep(c) == PickScan(c) \/ PickGranted(c) \/ PickRefused(c) \/ PickGivesUp(c)

----------------------------------------------------------------------------
(* Report, SetHealth, Snapshot *)

\* Report: which breaker method a result becomes.  The lookup under Pool.mu
\* and the breaker call after it are one step: a Replace between them leaves
\* the same breaker behind, or one that nothing reaches any more.
Reported(ms, e, outcome) ==
    IF e \notin DOMAIN ms THEN ms
    ELSE [ms EXCEPT ![e].breaker =
            IF outcome = "success" THEN Success(@)
            ELSE IF outcome = "release" THEN Release(@)
            ELSE Failure(@)]

\* A result is a success, or is released (429, or not retryable), or fails.
OutcomeOf(result) ==
    IF result.success THEN "success"
    ELSE IF result.status = 429 \/ ~result.retryable THEN "release"
    ELSE "failure"

SetHealth(e, h) ==
    /\ lock = Nobody
    /\ members' = IF e \in DOMAIN members
                  THEN [members EXCEPT ![e].health = h] ELSE members
    /\ UNCHANGED <<lock, pick>>

\* /metrics and /model-status read every breaker's state, which may move it.
Snapshot ==
    /\ lock = Nobody
    /\ members' = Asked(members, DOMAIN members)
    /\ UNCHANGED <<lock, pick>>

\* One tick of the clock, as every breaker sees it.
PoolTick ==
    /\ members' = [e \in DOMAIN members |-> [members[e] EXCEPT !.breaker = Age(@)]]
    /\ UNCHANGED <<lock, pick>>
----------------------------------------------------------------------------
(* The pool under concurrent requests *)

NoMembers == [e \in {} |-> NoPick]

\* NewPool: Replace on an empty pool.
NewPool(rows) ==
    /\ members = Replaced(rows, NoMembers)
    /\ lock = Nobody
    /\ pick = [c \in Callers |-> NoPick]

Outcomes == {"success", "release", "failure"}

\* A request for model m arrives.
Arrive(c, m) ==
    /\ pick[c].pc = "idle"
    /\ pick' = [pick EXCEPT ![c] = [NoPick EXCEPT !.pc = "pick", !.model = m]]
    /\ UNCHANGED <<members, lock>>

\* The upstream call of c ends and its result is reported; c is done, or
\* excludes the endpoint and picks again.
Finish(c, outcome, again) ==
    LET e == pick[c].chosen IN
    /\ pick[c].pc = "got"
    /\ members' = Reported(members, e, outcome)
    /\ pick' = IF again /\ outcome # "success"
               THEN [pick EXCEPT ![c].pc = "pick", ![c].chosen = Nobody, ![c].probe = FALSE,
                                 ![c].provider = Nobody, ![c].exclude = @ \cup {e}]
               ELSE [pick EXCEPT ![c] = NoPick]
    /\ UNCHANGED lock

Return(c) == \E o \in Outcomes, again \in BOOLEAN : Finish(c, o, again)

\* Pick found nothing: the request is answered with an error.
NoEndpoint(c) ==
    /\ pick[c].pc = "none"
    /\ pick' = [pick EXCEPT ![c] = NoPick]
    /\ UNCHANGED <<members, lock>>

RequestStep(c) ==
    \/ \E m \in Models : Arrive(c, m)
    \/ PickStep(c)
    \/ Return(c)
    \/ NoEndpoint(c)

PoolInit == NewPool(FirstTable)

PoolNext ==
    \/ \E c \in Callers : RequestStep(c)
    \/ PoolTick

PoolSpec == PoolInit /\ [][PoolNext]_poolVars

----------------------------------------------------------------------------
(* Properties, of the pool alone and of the router that contains it *)

Got(c) == pick[c].pc = "got"

\* pool.go:80-131: what Pick returns can serve the request when it returns,
\* not only when the scan saw it: it is in the pool, for the right model,
\* healthy and not among the endpoints this request has already given up on,
\* although results, probes and refreshes land while Pick runs.
HandedOutServable ==
    [][\A c \in Callers :
         ~Got(c) /\ Got(c)' =>
            LET e == pick'[c].chosen IN
            /\ e \in DOMAIN members
            /\ members[e].model = pick[c].model
            /\ members[e].health = Healthy
            /\ e \notin pick[c].exclude]_poolVars

\* pool.go:80-158: a half-open endpoint whose probe slot is taken is being
\* called by some request, whose Report will free the slot: the slot survives
\* neither a Pick that moves on to another endpoint nor a refresh.
ProbeSlotHeld ==
    \A e \in DOMAIN members :
        members[e].breaker.halfOpenInFlight =>
            \E c \in Callers : Got(c) /\ pick[c].chosen = e

\* pool.go:49-78: an open breaker of an endpoint that stays in the pool closes
\* only when the result of a call to that endpoint is reported; a refresh never
\* wipes it clean, and neither does a result for another endpoint.
OnlyResultsClose ==
    [][\A e \in DOMAIN members :
         /\ e \in DOMAIN members'
         /\ members[e].breaker.state # Closed
         /\ members'[e].breaker.state = Closed
         => \E c \in Callers : Got(c) /\ ~Got(c)' /\ pick[c].chosen = e]_poolVars

\* The heaviest weight in the pool.
Heaviest(ms) == Max({ms[e].weight : e \in DOMAIN ms})

\* wrr.go:3-17: the smooth weighted round robin stays smooth although every
\* Pick leaves out other members, for their model, their breaker, the request's
\* exclude set or a second choice: no member's credit or debt grows beyond one
\* turn of the heaviest for each of the others, so none is starved or flooded
\* for long when it comes back.
WRRBounded ==
    LET most == (Cardinality(DOMAIN members) - 1) * Heaviest(members)
    IN  \A e \in DOMAIN members : members[e].current \in -most..most

\* What the breaker of e knows of caller c, for BreakerCalls.
CallTo(e, c) ==
    IF ~(Got(c) /\ pick[c].chosen = e) THEN "idle"
    ELSE IF pick[c].probe THEN "probe" ELSE "call"

BreakerOf(e) == INSTANCE BreakerCalls WITH
    Calls <- Callers, br <- members[e].breaker, streak <- members[e].breaker.failures,
    call <- [c \in Callers |-> CallTo(e, c)]

FirstMembers == DOMAIN Replaced(FirstTable, NoMembers)

\* pool.go:80-158: Pick and Report use the breaker of each
\* endpoint as BreakerCalls lets its callers: one result for every admission and
\* none without, although the scan, the second choice and the results of other
\* requests interleave.  What is proved of BreakerCalls so holds of the pool.
PoolImplementsBreakers ==
    /\ \A e \in FirstMembers : BreakerOf(e)!Init
    /\ [][\A e \in FirstMembers : BreakerOf(e)!Next \/ UNCHANGED BreakerOf(e)!vars]_poolVars
============================================================================
