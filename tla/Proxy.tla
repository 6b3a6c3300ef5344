------------------------------- MODULE Proxy -------------------------------
(***************************************************************************)
(* pkg/proxy on top of the scheduler's promise.  A request reserves tokens,*)
(* its job is a reverse proxy, and the goroutine that modifyResponse       *)
(* starts copies the upstream's lines through a pipe and counts them: what *)
(* it counts is any number here, since nothing else depends on it.         *)
(* Three places settle the reservation: that goroutine, errorHandler, and  *)
(* ServeHTTP when Submit fails.  Whether Redis applies a settlement is     *)
(* Limiter's subject; here it is recorded that it was sent, and for what.  *)
(***************************************************************************)
EXTENDS JobService, Integers, Sequences, SequencesExt

CONSTANTS
    PreDeducted,        \* countTokens(prompt) + completionReserveFrom(body)
    Actuals             \* what teeAndCount may return

ASSUME ProxyAssumption == PreDeducted \in Nat \ {0} /\ Actuals \subseteq Nat

VARIABLES
    answer,             \* answer[j]: how ServeHTTP has ended
    reverse,            \* reverse[j]: where the job's ReverseProxy is
    tee,                \* tee[j]: where the goroutine of modifyResponse is
    settlements,        \* settlements[j]: the "actual" of each SettleQuota
    crashed             \* a panic nobody recovers has ended the process

proxyVars == <<serviceVars, answer, reverse, tee, settlements, crashed>>

ProxyTypeOK ==
    /\ ServiceTypeOK
    /\ answer \in [Jobs -> {"none", "refused", "canceled", "unavailable", "returned"}]
    /\ reverse \in [Jobs -> {"none", "trip", "copy", "panic", "gone"}]
    /\ tee \in [Jobs -> {"none", "read", "write", "drain", "settle", "gone"}]
    /\ settlements \in [Jobs -> Seq(Nat)]
    /\ crashed \in BOOLEAN

ProxyInit ==
    /\ ServiceInit
    /\ answer = [j \in Jobs |-> "none"]
    /\ reverse = [j \in Jobs |-> "none"]
    /\ tee = [j \in Jobs |-> "none"]
    /\ settlements = [j \in Jobs |-> <<>>]
    /\ crashed = FALSE

SettleQuota(j, actual) == settlements' = [settlements EXCEPT ![j] = Append(@, actual)]

----------------------------------------------------------------------------
(* ServeHTTP *)

\* The body cannot be read, or PreDeduct refuses or fails.
Refuse(j) ==
    /\ ~crashed
    /\ call[j] = "idle" /\ answer[j] = "none"
    /\ answer' = [answer EXCEPT ![j] = "refused"]
    /\ UNCHANGED <<serviceVars, reverse, tee, settlements, crashed>>

\* PreDeduct has taken the tokens; Submit is called.
Admit(j) ==
    /\ ~crashed
    /\ answer[j] = "none"
    /\ Submit(j)
    /\ UNCHANGED <<answer, reverse, tee, settlements, crashed>>

\* Mutant of HandlerReturns: the test of Submit's error is missing.
MutantHandlerReturns(j) ==
    /\ ~crashed
    /\ answer[j] = "none"
    /\ call[j] \in {"nil"} \cup Errors
    /\ SettleQuota(j, 0)
    /\ answer' = [answer EXCEPT ![j] = "returned"]
    /\ UNCHANGED <<serviceVars, reverse, tee, crashed>>

\* Submit has returned.  An error refunds the reservation, whatever the job does.
HandlerReturns(j) ==
    /\ ~crashed
    /\ answer[j] = "none"
    /\ \/ /\ call[j] = "nil"
          /\ answer' = [answer EXCEPT ![j] = "returned"]
          /\ UNCHANGED settlements
       \/ /\ call[j] \in Errors
          /\ SettleQuota(j, 0)
          /\ answer' = [answer EXCEPT ![j] =
                            IF call[j] = "context_error" THEN "canceled" ELSE "unavailable"]
    /\ UNCHANGED <<serviceVars, reverse, tee, crashed>>

----------------------------------------------------------------------------
(* The job: httputil.ReverseProxy with modifyResponse and errorHandler *)

JobBegins(j) ==
    /\ ~crashed
    /\ Begin(j)
    /\ reverse' = [reverse EXCEPT ![j] = "trip"]
    /\ UNCHANGED <<answer, tee, settlements, crashed>>

\* modifyResponse: the body is replaced by a pipe and the goroutine starts.
ModifyResponse(j) ==
    /\ ~crashed
    /\ reverse[j] = "trip"
    /\ reverse' = [reverse EXCEPT ![j] = "copy"]
    /\ tee' = [tee EXCEPT ![j] = "read"]
    /\ UNCHANGED <<serviceVars, answer, settlements, crashed>>

\* Mutant of ErrorHandler: it answers and does not refund.
MutantErrorHandler(j) ==
    /\ ~crashed
    /\ reverse[j] = "trip"
    /\ reverse' = [reverse EXCEPT ![j] = "gone"]
    /\ End(j)
    /\ UNCHANGED <<answer, tee, settlements, crashed>>

\* The upstream cannot be reached, is silent for ResponseHeaderTimeout, or the
\* context has ended: errorHandler refunds and the job is over.
ErrorHandler(j) ==
    /\ ~crashed
    /\ reverse[j] = "trip"
    /\ SettleQuota(j, 0)
    /\ reverse' = [reverse EXCEPT ![j] = "gone"]
    /\ End(j)
    /\ UNCHANGED <<answer, tee, crashed>>

\* The copy to the client reads to the end of the pipe, which is closed.
CopyEnds(j) ==
    /\ ~crashed
    /\ reverse[j] = "copy"
    /\ tee[j] \in {"settle", "gone"}
    /\ reverse' = [reverse EXCEPT ![j] = "gone"]
    /\ End(j)
    /\ UNCHANGED <<answer, tee, settlements, crashed>>

\* Writing to a client that is gone fails, be it the last of the answer that the
\* goroutine has long passed on.  ReverseProxy then closes the pipe
\* and panics with ErrAbortHandler, which an http.Server recovers in its own
\* goroutine; run's deferred calls close done and free the slot.
CopyFails(j) ==
    /\ ~crashed
    /\ reverse[j] = "copy" /\ over[j]
    /\ reverse' = [reverse EXCEPT ![j] = "panic"]
    /\ End(j)
    /\ UNCHANGED <<answer, tee, settlements, crashed>>

\* Nothing recovers in the goroutine of run: the panic ends the process.
Crash(j) ==
    /\ ~crashed
    /\ reverse[j] = "panic"
    /\ crashed' = TRUE
    /\ UNCHANGED <<serviceVars, answer, reverse, tee, settlements>>

----------------------------------------------------------------------------
(* teeAndCount *)

\* The goroutine has read a line and writes it to the pipe.
TeeReads(j) ==
    /\ ~crashed
    /\ tee[j] = "read"
    /\ tee' = [tee EXCEPT ![j] = "write"]
    /\ UNCHANGED <<serviceVars, answer, reverse, settlements, crashed>>

\* The pipe's Write returns, once the copy has taken the line or has closed the
\* pipe; in the latter case the rest of the body is only read.
PipeMoves(j) ==
    /\ ~crashed
    /\ tee[j] = "write"
    /\ \/ /\ reverse[j] = "copy"
          /\ tee' = [tee EXCEPT ![j] = "read"]
       \/ /\ reverse[j] = "panic"
          /\ tee' = [tee EXCEPT ![j] = "drain"]
    /\ UNCHANGED <<serviceVars, answer, reverse, settlements, crashed>>

\* Mutant of BodyEnds: only io.EOF ends the loop, not the error that a cancelled
\* request's body returns.
MutantBodyEnds(j) ==
    /\ ~crashed
    /\ tee[j] \in {"read", "drain"} /\ ~over[j]
    /\ tee' = [tee EXCEPT ![j] = "settle"]
    /\ UNCHANGED <<serviceVars, answer, reverse, settlements, crashed>>

\* The upstream's body ends or breaks off: teeAndCount returns and closes the
\* pipe, the same way in either case.
BodyEnds(j) ==
    /\ ~crashed
    /\ tee[j] \in {"read", "drain"}
    /\ tee' = [tee EXCEPT ![j] = "settle"]
    /\ UNCHANGED <<serviceVars, answer, reverse, settlements, crashed>>

\* Mutant of TeeSettles: it passes the difference that SettleQuota works out.
MutantTeeSettles(j, actual) ==
    /\ ~crashed
    /\ tee[j] = "settle"
    /\ SettleQuota(j, actual - PreDeducted)
    /\ tee' = [tee EXCEPT ![j] = "gone"]
    /\ UNCHANGED <<serviceVars, answer, reverse, crashed>>

\* SettleQuota with what teeAndCount has returned: the usage the upstream reported,
\* completed with an estimate, or the prompt and an estimate of the text that
\* could be read from its lines.
TeeSettles(j, actual) ==
    /\ ~crashed
    /\ tee[j] = "settle"
    /\ SettleQuota(j, actual)
    /\ tee' = [tee EXCEPT ![j] = "gone"]
    /\ UNCHANGED <<serviceVars, answer, reverse, crashed>>

----------------------------------------------------------------------------
(* The specification *)

SubmitReturns(j) ==
    ~crashed /\ Return(j) /\ UNCHANGED <<answer, reverse, tee, settlements, crashed>>

ClientLeaves(j) ==
    ~crashed /\ EndContext(j) /\ UNCHANGED <<answer, reverse, tee, settlements, crashed>>

StopScheduler ==
    ~crashed /\ ~stop /\ CallStop /\ UNCHANGED <<answer, reverse, tee, settlements, crashed>>

ProxyNext ==
    \/ \E j \in Jobs :
           \/ Refuse(j) \/ Admit(j) \/ SubmitReturns(j) \/ HandlerReturns(j)
           \/ JobBegins(j) \/ ModifyResponse(j) \/ ErrorHandler(j)
           \/ CopyEnds(j) \/ CopyFails(j) \/ Crash(j)
           \/ TeeReads(j) \/ PipeMoves(j) \/ BodyEnds(j)
           \/ \E actual \in Actuals : TeeSettles(j, actual)
           \/ ClientLeaves(j)
    \/ StopScheduler

ProxySpec == ProxyInit /\ [][ProxyNext]_proxyVars

\* Submit serves, as JobService promises; goroutines run; the wait for a header
\* has a timeout.  The body has none: it is only assumed that a client does not
\* wait for ever, and that writes to it and reads of the cancelled body end,
\* sooner or later with an error, once it is gone.
ProxyFairness ==
    \A j \in Jobs :
        /\ WF_proxyVars(SubmitReturns(j) \/ (call[j] = "waiting" /\ JobBegins(j)))
        /\ WF_proxyVars(HandlerReturns(j))
        /\ WF_proxyVars(ModifyResponse(j) \/ ErrorHandler(j))
        /\ WF_proxyVars(CopyEnds(j))
        /\ WF_proxyVars(Crash(j))
        /\ WF_proxyVars(\E actual \in Actuals : TeeSettles(j, actual))
        /\ WF_proxyVars(ClientLeaves(j))
        /\ WF_proxyVars(over[j] /\ PipeMoves(j))
        /\ SF_proxyVars(over[j] /\ BodyEnds(j))

ProxyFairSpec == ProxySpec /\ ProxyFairness

----------------------------------------------------------------------------
(* Properties *)

\* proxy.go:172-206, 258-267: of the three places that settle at most two do so
\* for one request; the second settlement is ServeHTTP's refund after Submit
\* has returned an error for a job that was already called.
SecondSettlementIsRefund ==
    \A j \in Jobs : settlements[j] # <<>> =>
        \/ Len(settlements[j]) = 1
        \/ /\ Len(settlements[j]) = 2
           /\ call[j] \in Errors /\ work[j] # "none"
           /\ 0 \in ToSet(settlements[j])

\* ServeHTTP has returned, and nothing it started for j goes on.
Finished(j) ==
    /\ answer[j] \in {"returned", "canceled", "unavailable"}
    /\ reverse[j] \in {"none", "gone"} /\ tee[j] \in {"none", "gone"}

One(b) == IF b THEN 1 ELSE 0

\* proxy.go:153-206, 258-267: the settlements of a finished request are one for
\* a failed Submit and one for a job that was called, whichever of the reverse
\* proxy, its error handler and the goroutine came last.
FinishedIsSettled ==
    \A j \in Jobs : Finished(j) =>
        Len(settlements[j]) = One(call[j] \in Errors) + One(work[j] # "none")

\* proxy.go:167-267: a request that has reserved tokens comes to its end, the
\* goroutine of its answer included, wherever the client goes away: nobody waits
\* for ever on the pipe between the two.  Only a crash of the process is worse.
RequestEnds ==
    \A j \in Jobs : call[j] = "waiting" ~> Finished(j) \/ crashed

\* PRD.md:56 says that SettleQuota is called when the request ends, and
\* proxy.go:228 that the upstream is drained "so we can still settle" when the
\* client hangs up.  Then every reservation is settled.
ReservationSettled ==
    \A j \in Jobs : call[j] = "waiting" ~> settlements[j] # <<>>

\* proxy.go:173 says of an error of Submit: "The request never reached upstream;
\* refund the whole pre-deduct."  Then what is given back for one request never
\* exceeds what was taken for it.
NeverRefundedTwice ==
    \A j \in Jobs :
        FoldSeq(LAMBDA actual, sum : sum + PreDeducted - actual, 0, settlements[j]) <= PreDeducted
============================================================================
