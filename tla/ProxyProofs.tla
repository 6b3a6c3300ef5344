---------------------------- MODULE ProxyProofs ----------------------------
(***************************************************************************)
(* How often and for what a request of the legacy proxy is settled, for    *)
(* any number of requests, whatever the upstream's answers cost and        *)
(* wherever the client, the upstream or the scheduler goes away.           *)
(***************************************************************************)
EXTENDS Proxy, TLAPS

(***************************************************************************)
(* The strengthening.  The settlements of a request are counted by the     *)
(* places that sent them, each recognisable from where it has got to; for  *)
(* that the job, its reverse proxy and the goroutine of modifyResponse     *)
(* must be in step.                                                        *)
(***************************************************************************)
InStep(j) ==
    /\ reverse[j] = "none" => work[j] = "none"
    /\ work[j] = "none" => reverse[j] = "none"
    /\ reverse[j] \in {"none", "trip"} => tee[j] = "none"
    /\ reverse[j] \in {"copy", "panic"} => tee[j] # "none"

RefundSent(j) == answer[j] \in {"canceled", "unavailable"}
ErrorSent(j) == reverse[j] = "gone" /\ tee[j] = "none"
TeeSent(j) == tee[j] = "gone"

Counted(j) ==
    Len(settlements[j]) = One(RefundSent(j)) + One(ErrorSent(j)) + One(TeeSent(j))

RefundRecorded(j) == RefundSent(j) => call[j] \in Errors /\ 0 \in ToSet(settlements[j])

JobInv(j) == InStep(j) /\ Counted(j) /\ RefundRecorded(j)

ProxyInv == ProxyTypeOK /\ \A j \in Jobs : JobInv(j)

----------------------------------------------------------------------------
(* Facts about settlements *)

\* A settlement is added; the earlier ones stay.
LEMMA AppendedSettlement ==
    ASSUME NEW s \in Seq(Nat), NEW actual \in Nat
    PROVE  /\ Append(s, actual) \in Seq(Nat)
           /\ Len(Append(s, actual)) = Len(s) + 1
           /\ actual \in ToSet(Append(s, actual))
           /\ ToSet(s) \subseteq ToSet(Append(s, actual))
  <1>1. /\ Append(s, actual) \in Seq(Nat) /\ Len(Append(s, actual)) = Len(s) + 1 /\ Len(s) \in Nat
        /\ Append(s, actual)[Len(s) + 1] = actual
        /\ \A i \in 1..Len(s) : Append(s, actual)[i] = s[i]
    OBVIOUS
  <1>2. DOMAIN s = 1..Len(s) /\ DOMAIN Append(s, actual) = 1..(Len(s) + 1)
    BY <1>1
  <1>3. Len(s) + 1 \in 1..(Len(s) + 1) /\ \A i \in 1..Len(s) : i \in 1..(Len(s) + 1)
    BY <1>1
  <1>4. actual \in ToSet(Append(s, actual))
    BY <1>1, <1>2, <1>3 DEF ToSet
  <1>5. ToSet(s) \subseteq ToSet(Append(s, actual))
    BY <1>1, <1>2, <1>3 DEF ToSet
  <1> QED
    BY <1>1, <1>4, <1>5

----------------------------------------------------------------------------
(* One step *)

\* A step about one request leaves the others as they are.
LEMMA OthersKeep ==
    ASSUME ProxyInv, NEW j \in Jobs,
           \A x \in Jobs : x # j =>
               /\ reverse'[x] = reverse[x] /\ work'[x] = work[x] /\ tee'[x] = tee[x]
               /\ answer'[x] = answer[x] /\ call'[x] = call[x]
               /\ settlements'[x] = settlements[x],
           JobInv(j)', ProxyTypeOK'
    PROVE  ProxyInv'
  BY DEF ProxyInv, JobInv, InStep, Counted, RefundRecorded,
         RefundSent, ErrorSent, TeeSent

\* Every step of ServeHTTP, of the reverse proxy, of teeAndCount, of Submit, of
\* a client and of the scheduler keeps the invariant.
LEMMA NextPreservesProxyInv == ProxyInv /\ [ProxyNext]_proxyVars => ProxyInv'
  <1> SUFFICES ASSUME ProxyInv, [ProxyNext]_proxyVars PROVE ProxyInv'
    OBVIOUS
  <1>t. ProxyTypeOK /\ ServiceTypeOK
    BY DEF ProxyInv, ProxyTypeOK
  <1>i. \A x \in Jobs : InStep(x) /\ Counted(x) /\ RefundRecorded(x)
    BY DEF ProxyInv, JobInv
  <1>s. \A x \in Jobs : settlements[x] \in Seq(Nat)
    BY <1>t DEF ProxyTypeOK
  <1>1. ASSUME NEW j \in Jobs, Refuse(j) PROVE ProxyInv'
    <2>1. ProxyTypeOK'
      BY <1>1, <1>t DEF Refuse, serviceVars, ProxyTypeOK, ServiceTypeOK
    <2>2. /\ answer' = [answer EXCEPT ![j] = "refused"] /\ answer[j] = "none"
          /\ UNCHANGED <<call, work, reverse, tee, settlements>>
      BY <1>1 DEF Refuse, serviceVars
    <2>3. JobInv(j)'
      <3>1. answer'[j] = "refused"
        BY <1>t, <2>2 DEF ProxyTypeOK
      <3> QED
        BY <1>i, <2>2, <3>1 DEF JobInv, InStep, Counted, RefundRecorded, RefundSent, ErrorSent, TeeSent
    <2> QED
      BY <1>t, <2>1, <2>2, <2>3, OthersKeep DEF ProxyTypeOK
  <1>2. ASSUME NEW j \in Jobs, Admit(j) \/ SubmitReturns(j) \/ ClientLeaves(j) PROVE ProxyInv'
    <2>1. /\ UNCHANGED <<answer, reverse, tee, settlements, crashed, work, stop>>
          /\ call[j] \in {"idle", "waiting"} \/ call' = call
          /\ \A x \in Jobs : x # j => call'[x] = call[x]
      BY <1>2, <1>t DEF Admit, SubmitReturns, ClientLeaves, Submit, Return, ReturnsNil,
                        ReturnsError, EndContext, ServiceTypeOK
    <2>2. ServiceTypeOK'
      BY <1>2, <1>t DEF Admit, SubmitReturns, ClientLeaves, Submit, Return, ReturnsNil,
                        ReturnsError, EndContext, ServiceTypeOK, Errors
    <2>3. ProxyTypeOK'
      BY <1>t, <2>1, <2>2 DEF ProxyTypeOK
    <2>4. JobInv(j)'
      BY <1>i, <2>1 DEF JobInv, InStep, Counted, RefundRecorded, RefundSent, ErrorSent, TeeSent, Errors
    <2> QED
      BY <2>1, <2>3, <2>4, OthersKeep
  <1>3. ASSUME NEW j \in Jobs, HandlerReturns(j) PROVE ProxyInv'
    <2>1. /\ UNCHANGED <<call, work, over, stop, reverse, tee, crashed>>
          /\ answer[j] = "none"
      BY <1>3 DEF HandlerReturns, serviceVars
    <2>2. CASE call[j] = "nil" /\ answer' = [answer EXCEPT ![j] = "returned"] /\ UNCHANGED settlements
      <3>1. ProxyTypeOK'
        BY <1>t, <2>1, <2>2 DEF ProxyTypeOK, ServiceTypeOK
      <3>2. JobInv(j)'
        <4>1. answer'[j] = "returned" /\ settlements' = settlements
          BY <1>t, <2>2 DEF ProxyTypeOK
        <4> QED
          BY <1>i, <2>1, <4>1 DEF JobInv, InStep, Counted, RefundRecorded, RefundSent, ErrorSent, TeeSent
      <3> QED
        BY <1>t, <2>1, <2>2, <3>1, <3>2, OthersKeep DEF ProxyTypeOK
    <2>3. CASE call[j] \in Errors /\ SettleQuota(j, 0)
               /\ answer' = [answer EXCEPT ![j] =
                                 IF call[j] = "context_error" THEN "canceled" ELSE "unavailable"]
      <3>1. /\ answer' \in [Jobs -> {"none", "refused", "canceled", "unavailable", "returned"}]
            /\ answer'[j] \in {"canceled", "unavailable"}
            /\ \A x \in Jobs : x # j => answer'[x] = answer[x]
        BY <1>t, <2>3 DEF ProxyTypeOK
      <3>2. /\ settlements'[j] \in Seq(Nat) /\ Len(settlements'[j]) = Len(settlements[j]) + 1
            /\ 0 \in ToSet(settlements'[j]) /\ ToSet(settlements[j]) \subseteq ToSet(settlements'[j])
            /\ settlements' \in [Jobs -> Seq(Nat)]
            /\ \A x \in Jobs : x # j => settlements'[x] = settlements[x]
        BY <1>s, <1>t, <2>3, AppendedSettlement DEF SettleQuota, ProxyTypeOK
      <3>3. ProxyTypeOK'
        BY <1>t, <2>1, <3>1, <3>2 DEF ProxyTypeOK, ServiceTypeOK
      <3>4. Counted(j)'
        <4>1. ~RefundSent(j) /\ RefundSent(j)' /\ (ErrorSent(j)' <=> ErrorSent(j))
              /\ (TeeSent(j)' <=> TeeSent(j))
          BY <2>1, <3>1 DEF RefundSent, ErrorSent, TeeSent
        <4> QED
          BY <1>i, <3>2, <4>1 DEF Counted, One
      <3>5. JobInv(j)'
        BY <1>i, <2>1, <2>3, <3>2, <3>4 DEF JobInv, InStep, RefundRecorded, RefundSent, TeeSent
      <3> QED
        BY <2>1, <3>1, <3>2, <3>3, <3>5, OthersKeep
    <2> QED
      BY <1>3, <2>2, <2>3 DEF HandlerReturns
  <1>4. ASSUME NEW j \in Jobs, JobBegins(j) PROVE ProxyInv'
    <2>1. /\ UNCHANGED <<call, over, stop, answer, tee, settlements, crashed>>
          /\ work[j] = "none" /\ work' = [work EXCEPT ![j] = "running"]
          /\ reverse' = [reverse EXCEPT ![j] = "trip"]
      BY <1>4 DEF JobBegins, Begin
    <2>2. ProxyTypeOK'
      BY <1>t, <2>1 DEF ProxyTypeOK, ServiceTypeOK
    <2>3. reverse[j] = "none" /\ tee[j] = "none"
      BY <1>i, <2>1 DEF InStep
    <2>4. reverse'[j] = "trip" /\ work'[j] = "running"
      BY <1>t, <2>1 DEF ProxyTypeOK, ServiceTypeOK
    <2>5. JobInv(j)'
      BY <1>i, <2>1, <2>3, <2>4 DEF JobInv, InStep, Counted, RefundRecorded, RefundSent, ErrorSent, TeeSent
    <2> QED
      BY <1>t, <2>1, <2>2, <2>5, OthersKeep DEF ProxyTypeOK, ServiceTypeOK
  <1>5. ASSUME NEW j \in Jobs, ModifyResponse(j) PROVE ProxyInv'
    <2>1. /\ UNCHANGED <<call, work, over, stop, answer, settlements, crashed>>
          /\ reverse[j] = "trip" /\ reverse' = [reverse EXCEPT ![j] = "copy"]
          /\ tee' = [tee EXCEPT ![j] = "read"]
      BY <1>5 DEF ModifyResponse, serviceVars
    <2>2. ProxyTypeOK'
      BY <1>t, <2>1 DEF ProxyTypeOK, ServiceTypeOK
    <2>3. reverse'[j] = "copy" /\ tee'[j] = "read" /\ tee[j] = "none" /\ work[j] # "none"
      BY <1>i, <1>t, <2>1 DEF ProxyTypeOK, InStep
    <2>4. JobInv(j)'
      BY <1>i, <2>1, <2>3 DEF JobInv, InStep, Counted, RefundRecorded, RefundSent, ErrorSent, TeeSent
    <2> QED
      BY <1>t, <2>1, <2>2, <2>4, OthersKeep DEF ProxyTypeOK
  <1>6. ASSUME NEW j \in Jobs, ErrorHandler(j) PROVE ProxyInv'
    <2>1. /\ UNCHANGED <<call, over, stop, answer, tee, crashed>>
          /\ reverse[j] = "trip" /\ reverse' = [reverse EXCEPT ![j] = "gone"]
          /\ work' = [work EXCEPT ![j] = "ended"]
          /\ SettleQuota(j, 0)
      BY <1>6 DEF ErrorHandler, End
    <2>2. /\ settlements'[j] \in Seq(Nat) /\ Len(settlements'[j]) = Len(settlements[j]) + 1
          /\ ToSet(settlements[j]) \subseteq ToSet(settlements'[j])
          /\ settlements' \in [Jobs -> Seq(Nat)]
          /\ \A x \in Jobs : x # j => settlements'[x] = settlements[x]
      BY <1>s, <1>t, <2>1, AppendedSettlement DEF SettleQuota, ProxyTypeOK
    <2>3. ProxyTypeOK'
      BY <1>t, <2>1, <2>2 DEF ProxyTypeOK, ServiceTypeOK
    <2>4. reverse'[j] = "gone" /\ work'[j] = "ended" /\ tee[j] = "none"
      BY <1>i, <1>t, <2>1 DEF ProxyTypeOK, ServiceTypeOK, InStep
    <2>5. Counted(j)'
      <3>1. ~ErrorSent(j) /\ ErrorSent(j)' /\ (RefundSent(j)' <=> RefundSent(j))
            /\ (TeeSent(j)' <=> TeeSent(j))
        BY <2>1, <2>4 DEF RefundSent, ErrorSent, TeeSent
      <3> QED
        BY <1>i, <2>2, <3>1 DEF Counted, One
    <2>6. JobInv(j)'
      BY <1>i, <2>1, <2>2, <2>4, <2>5 DEF JobInv, InStep, RefundRecorded, RefundSent, TeeSent
    <2> QED
      BY <1>t, <2>1, <2>2, <2>3, <2>6, OthersKeep DEF ProxyTypeOK, ServiceTypeOK
  <1>7. ASSUME NEW j \in Jobs, CopyEnds(j) \/ CopyFails(j) PROVE ProxyInv'
    <2>1. /\ UNCHANGED <<call, over, stop, answer, tee, settlements, crashed>>
          /\ reverse[j] = "copy" /\ tee[j] # "none"
          /\ work' = [work EXCEPT ![j] = "ended"]
      BY <1>7, <1>i DEF CopyEnds, CopyFails, End, InStep
    <2>2. PICK stage \in {"gone", "panic"} : reverse' = [reverse EXCEPT ![j] = stage]
      BY <1>7 DEF CopyEnds, CopyFails
    <2>3. ProxyTypeOK'
      BY <1>t, <2>1, <2>2 DEF ProxyTypeOK, ServiceTypeOK
    <2>4. reverse'[j] \in {"gone", "panic"} /\ work'[j] = "ended"
      BY <1>t, <2>1, <2>2 DEF ProxyTypeOK, ServiceTypeOK
    <2>5. JobInv(j)'
      BY <1>i, <2>1, <2>4 DEF JobInv, InStep, Counted, RefundRecorded, RefundSent, ErrorSent, TeeSent
    <2> QED
      BY <1>t, <2>1, <2>2, <2>3, <2>5, OthersKeep DEF ProxyTypeOK, ServiceTypeOK
  <1>8. ASSUME NEW j \in Jobs, TeeReads(j) \/ PipeMoves(j) \/ BodyEnds(j) PROVE ProxyInv'
    <2>1. /\ UNCHANGED <<call, work, over, stop, answer, reverse, settlements, crashed>>
          /\ tee[j] \in {"read", "write", "drain"}
      BY <1>8 DEF TeeReads, PipeMoves, BodyEnds, serviceVars
    <2>2. PICK stage \in {"read", "write", "drain", "settle"} : tee' = [tee EXCEPT ![j] = stage]
      BY <1>8 DEF TeeReads, PipeMoves, BodyEnds
    <2>3. ProxyTypeOK'
      BY <1>t, <2>1, <2>2 DEF ProxyTypeOK, ServiceTypeOK
    <2>4. tee'[j] = stage
      BY <1>t, <2>2 DEF ProxyTypeOK
    <2>5. JobInv(j)'
      BY <1>i, <2>1, <2>4 DEF JobInv, InStep, Counted, RefundRecorded,
            RefundSent, ErrorSent, TeeSent
    <2> QED
      BY <1>t, <2>1, <2>2, <2>3, <2>5, OthersKeep DEF ProxyTypeOK
  <1>9. ASSUME NEW j \in Jobs, NEW actual \in Actuals, TeeSettles(j, actual) PROVE ProxyInv'
    <2>1. /\ UNCHANGED <<call, work, over, stop, answer, reverse, crashed>>
          /\ tee[j] = "settle" /\ tee' = [tee EXCEPT ![j] = "gone"]
          /\ SettleQuota(j, actual)
      BY <1>9 DEF TeeSettles, serviceVars
    <2>2. actual \in Nat
      BY ProxyAssumption
    <2>3. /\ settlements'[j] \in Seq(Nat) /\ Len(settlements'[j]) = Len(settlements[j]) + 1
          /\ ToSet(settlements[j]) \subseteq ToSet(settlements'[j])
          /\ settlements' \in [Jobs -> Seq(Nat)]
          /\ \A x \in Jobs : x # j => settlements'[x] = settlements[x]
      BY <1>s, <1>t, <2>1, <2>2, AppendedSettlement DEF SettleQuota, ProxyTypeOK
    <2>4. ProxyTypeOK'
      BY <1>t, <2>1, <2>3 DEF ProxyTypeOK, ServiceTypeOK
    <2>5. tee'[j] = "gone"
      BY <1>t, <2>1 DEF ProxyTypeOK
    <2>6. Counted(j)'
      <3>1. ~TeeSent(j) /\ TeeSent(j)' /\ (RefundSent(j)' <=> RefundSent(j))
            /\ ~ErrorSent(j) /\ ~ErrorSent(j)'
        BY <2>1, <2>5 DEF RefundSent, ErrorSent, TeeSent
      <3> QED
        BY <1>i, <2>3, <3>1 DEF Counted, One
    <2>7. JobInv(j)'
      BY <1>i, <2>1, <2>3, <2>5, <2>6 DEF JobInv, InStep, RefundRecorded, RefundSent, TeeSent
    <2> QED
      BY <1>t, <2>1, <2>3, <2>4, <2>7, OthersKeep DEF ProxyTypeOK
  <1>10. ASSUME (\E j \in Jobs : Crash(j)) \/ StopScheduler \/ UNCHANGED proxyVars PROVE ProxyInv'
    <2>1. /\ UNCHANGED <<call, work, over, answer, reverse, tee, settlements>>
          /\ stop' \in BOOLEAN /\ crashed' \in BOOLEAN
      BY <1>10, <1>t DEF Crash, StopScheduler, CallStop, proxyVars, serviceVars,
                         ProxyTypeOK, ServiceTypeOK
    <2>2. ProxyTypeOK'
      BY <1>t, <2>1 DEF ProxyTypeOK, ServiceTypeOK
    <2>3. \A x \in Jobs : JobInv(x)'
      BY <1>i, <2>1 DEF JobInv, InStep, Counted, RefundRecorded, RefundSent, ErrorSent, TeeSent
    <2> QED
      BY <2>2, <2>3 DEF ProxyInv
  <1> QED
    BY <1>1, <1>2, <1>3, <1>4, <1>5, <1>6, <1>7, <1>8, <1>9, <1>10 DEF ProxyNext

----------------------------------------------------------------------------
(* The theorems *)

\* The inductive invariant holds in every reachable state.
THEOREM ProxyInvariance == ProxySpec => []ProxyInv
  <1>1. ProxyInit => ProxyInv
    <2> SUFFICES ASSUME ProxyInit PROVE ProxyInv
      OBVIOUS
    <2>1. <<>> \in Seq(Nat)
      OBVIOUS
    <2>2. ProxyTypeOK
      BY <2>1 DEF ProxyInit, ServiceInit, ProxyTypeOK, ServiceTypeOK
    <2>3. ASSUME NEW j \in Jobs PROVE JobInv(j)
      <3>1. /\ settlements[j] = <<>> /\ answer[j] = "none" /\ reverse[j] = "none" /\ tee[j] = "none"
            /\ work[j] = "none"
        BY DEF ProxyInit, ServiceInit
      <3>2. Len(settlements[j]) = 0
        BY <3>1
      <3> QED
        BY <3>1, <3>2 DEF JobInv, InStep, Counted, RefundRecorded, RefundSent, ErrorSent, TeeSent, One
    <2> QED
      BY <2>2, <2>3 DEF ProxyInv
  <1> QED
    BY <1>1, NextPreservesProxyInv, PTL DEF ProxySpec

\* The proxy's state is well formed.
THEOREM ProxyTypeCorrect == ProxySpec => []ProxyTypeOK
  BY ProxyInvariance, PTL DEF ProxyInv

\* proxy.go:172-206, 258-267: at most two of the three places settle one
\* request, and the second settlement is ServeHTTP's refund of a job that was
\* already called.
THEOREM AtMostOneRefundBesides == ProxySpec => []SecondSettlementIsRefund
  <1>1. ProxyInv => SecondSettlementIsRefund
    <2> SUFFICES ASSUME ProxyInv, NEW j \in Jobs, settlements[j] # <<>>
                 PROVE  \/ Len(settlements[j]) = 1
                        \/ /\ Len(settlements[j]) = 2
                           /\ call[j] \in Errors /\ work[j] # "none"
                           /\ 0 \in ToSet(settlements[j])
      BY DEF SecondSettlementIsRefund
    <2>1. InStep(j) /\ Counted(j) /\ RefundRecorded(j) /\ settlements[j] \in Seq(Nat)
      BY DEF ProxyInv, JobInv, ProxyTypeOK
    <2>2. Len(settlements[j]) # 0 /\ Len(settlements[j]) \in Nat
      BY <2>1
    <2>3. ~(ErrorSent(j) /\ TeeSent(j))
      BY DEF ErrorSent, TeeSent
    <2>4. ErrorSent(j) \/ TeeSent(j) => work[j] # "none"
      BY <2>1 DEF ErrorSent, TeeSent, InStep
    <2> QED
      BY <2>1, <2>2, <2>3, <2>4 DEF Counted, RefundRecorded, One
  <1> QED
    BY <1>1, ProxyInvariance, PTL

----------------------------------------------------------------------------
(***************************************************************************)
(* How many settlements a finished request has had.                        *)
(***************************************************************************)
ReturnedMeansNil == \A j \in Jobs : answer[j] = "returned" => call[j] = "nil"

\* ServeHTTP returns without a refund only after nil, and nil stays.
LEMMA NextKeepsReturned ==
    ProxyTypeOK /\ ReturnedMeansNil /\ [ProxyNext]_proxyVars => ReturnedMeansNil'
  <1> SUFFICES ASSUME ProxyTypeOK, ReturnedMeansNil, [ProxyNext]_proxyVars,
                      NEW x \in Jobs, answer'[x] = "returned"
               PROVE  call'[x] = "nil"
    BY DEF ReturnedMeansNil
  <1>t. /\ call \in [Jobs -> {"idle", "waiting", "nil"} \cup Errors]
        /\ answer \in [Jobs -> {"none", "refused", "canceled", "unavailable", "returned"}]
    BY DEF ProxyTypeOK, ServiceTypeOK
  <1>1. ASSUME UNCHANGED <<call, answer>> PROVE call'[x] = "nil"
    BY <1>1 DEF ReturnedMeansNil
  <1>2. ASSUME NEW j \in Jobs, Refuse(j) PROVE call'[x] = "nil"
    BY <1>2, <1>t DEF Refuse, serviceVars, ReturnedMeansNil
  <1>3. ASSUME NEW j \in Jobs, HandlerReturns(j) PROVE call'[x] = "nil"
    BY <1>3, <1>t DEF HandlerReturns, serviceVars, ReturnedMeansNil
  <1>4. ASSUME NEW j \in Jobs, Admit(j) \/ SubmitReturns(j) PROVE call'[x] = "nil"
    <2>1. /\ call[j] \in {"idle", "waiting"} /\ answer' = answer
          /\ \A y \in Jobs : y # j => call'[y] = call[y]
      BY <1>4, <1>t DEF Admit, SubmitReturns, Submit, Return, ReturnsNil, ReturnsError
    <2> QED
      BY <2>1 DEF ReturnedMeansNil
  <1>5. ASSUME NEW j \in Jobs,
               \/ JobBegins(j) \/ ModifyResponse(j) \/ ErrorHandler(j)
               \/ CopyEnds(j) \/ CopyFails(j) \/ Crash(j) \/ ClientLeaves(j)
        PROVE  UNCHANGED <<call, answer>>
    BY <1>5 DEF JobBegins, Begin, ModifyResponse, ErrorHandler, CopyEnds, CopyFails, End, Crash,
                ClientLeaves, EndContext, serviceVars
  <1>6. ASSUME NEW j \in Jobs,
               \/ TeeReads(j) \/ PipeMoves(j) \/ BodyEnds(j)
               \/ \E actual \in Actuals : TeeSettles(j, actual)
        PROVE  UNCHANGED <<call, answer>>
    BY <1>6 DEF TeeReads, PipeMoves, BodyEnds, TeeSettles, serviceVars
  <1>7. ASSUME StopScheduler \/ UNCHANGED proxyVars PROVE UNCHANGED <<call, answer>>
    BY <1>7 DEF StopScheduler, CallStop, proxyVars, serviceVars
  <1> QED
    BY <1>1, <1>2, <1>3, <1>4, <1>5, <1>6, <1>7 DEF ProxyNext

\* proxy.go:153-206, 258-267: the settlements of a finished request are one for
\* a failed Submit and one for a job that was called.  None is missing except
\* for a job that Submit dropped and returned nil for (the run proxy_unsettled);
\* two are too many, when Submit fails for a job that was called (the run
\* proxy_refund).
THEOREM FinishedRequestsAreSettled == ProxySpec => []FinishedIsSettled
  <1>1. ASSUME ProxyInv, ReturnedMeansNil, NEW j \in Jobs, Finished(j)
        PROVE  Len(settlements[j]) = One(call[j] \in Errors) + One(work[j] # "none")
    <2>1. InStep(j) /\ Counted(j) /\ RefundRecorded(j)
      BY <1>1 DEF ProxyInv, JobInv
    <2>2. RefundSent(j) <=> call[j] \in Errors
      BY <1>1, <2>1 DEF Finished, RefundSent, RefundRecorded, ReturnedMeansNil, Errors
    <2>3. ErrorSent(j) \/ TeeSent(j) <=> work[j] # "none"
      BY <1>1, <2>1 DEF Finished, ErrorSent, TeeSent, InStep
    <2>4. ~(ErrorSent(j) /\ TeeSent(j))
      BY DEF ErrorSent, TeeSent
    <2>5. One(ErrorSent(j)) + One(TeeSent(j)) = One(work[j] # "none")
      BY <2>3, <2>4 DEF One
    <2>6. One(RefundSent(j)) = One(call[j] \in Errors)
      BY <2>2 DEF One
    <2> QED
      BY <2>1, <2>5, <2>6 DEF Counted, One
  <1>2. ProxyInit => ReturnedMeansNil
    BY DEF ProxyInit, ReturnedMeansNil
  <1>3. ProxyInv => ProxyTypeOK
    BY DEF ProxyInv
  <1>4. ProxySpec => []ReturnedMeansNil
    BY <1>2, <1>3, NextKeepsReturned, ProxyInvariance, PTL DEF ProxySpec
  <1>5. ProxyInv /\ ReturnedMeansNil => FinishedIsSettled
    BY <1>1 DEF FinishedIsSettled
  <1> QED
    BY <1>4, <1>5, ProxyInvariance, PTL
============================================================================
