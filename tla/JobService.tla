----------------------------- MODULE JobService -----------------------------
(***************************************************************************)
(* What pkg/scheduler promises to a caller of Submit, without its queues,  *)
(* slots and goroutines: a job is called at most once and never after its  *)
(* context has ended; nil means that the job is over, or that the context  *)
(* or the scheduler ended first; an error says nothing about the job.      *)
(* Scheduler implements this module, Proxy is built on it.  That a job is  *)
(* served at all holds of finitely many calls only: low jobs give way to   *)
(* high ones for as long as there are any.                                 *)
(***************************************************************************)

CONSTANT Jobs

VARIABLES
    call,               \* call[j]: where j's Submit is, then what it returned
    work,               \* work[j]: what has become of the job function
    over,               \* over[j]: the context of j has ended
    stop                \* the scheduler has been told to stop

serviceVars == <<call, work, over, stop>>

Errors == {"context_error", "stopped"}

ServiceTypeOK ==
    /\ call \in [Jobs -> {"idle", "waiting", "nil"} \cup Errors]
    /\ work \in [Jobs -> {"none", "running", "ended"}]
    /\ over \in [Jobs -> BOOLEAN]
    /\ stop \in BOOLEAN

ServiceInit ==
    /\ call = [j \in Jobs |-> "idle"]
    /\ work = [j \in Jobs |-> "none"]
    /\ over = [j \in Jobs |-> FALSE]
    /\ stop = FALSE

Submit(j) ==
    /\ call[j] = "idle"
    /\ call' = [call EXCEPT ![j] = "waiting"]
    /\ UNCHANGED <<work, over, stop>>

\* Also after Submit has returned because of stop.
Begin(j) ==
    /\ call[j] \in {"waiting", "stopped"}
    /\ work[j] = "none"
    /\ ~over[j]
    /\ work' = [work EXCEPT ![j] = "running"]
    /\ UNCHANGED <<call, over, stop>>

End(j) ==
    /\ work[j] = "running"
    /\ work' = [work EXCEPT ![j] = "ended"]
    /\ UNCHANGED <<call, over, stop>>

\* The job is over, or was dropped because its context or the scheduler ended.
ReturnsNil(j) ==
    /\ \/ work[j] = "ended"
       \/ work[j] = "none" /\ (over[j] \/ stop)
    /\ call' = [call EXCEPT ![j] = "nil"]

ReturnsError(j) ==
    \/ over[j] /\ call' = [call EXCEPT ![j] = "context_error"]
    \/ stop /\ call' = [call EXCEPT ![j] = "stopped"]

Return(j) ==
    /\ call[j] = "waiting"
    /\ ReturnsNil(j) \/ ReturnsError(j)
    /\ UNCHANGED <<work, over, stop>>

EndContext(j) ==
    /\ ~over[j]
    /\ call[j] # "idle"
    /\ over' = [over EXCEPT ![j] = TRUE]
    /\ UNCHANGED <<call, work, stop>>

CallStop ==
    /\ stop' = TRUE
    /\ UNCHANGED <<call, work, over>>

ServiceNext ==
    \/ \E j \in Jobs : Submit(j) \/ Begin(j) \/ End(j) \/ Return(j) \/ EndContext(j)
    \/ CallStop

\* A job that Submit waits for is called, and then Submit returns: jobs are
\* finitely many, and each is submitted once.
Serve(j) == call[j] = "waiting" /\ (Begin(j) \/ Return(j))

ServiceSafety == ServiceInit /\ [][ServiceNext]_serviceVars

ServiceSpec == ServiceSafety /\ \A j \in Jobs : WF_serviceVars(Serve(j))
============================================================================
