----------------------------- MODULE Scheduler -----------------------------
(***************************************************************************)
(* pkg/scheduler: two bounded queues, one dispatcher goroutine, and one    *)
(* goroutine per job, of which at most MaxConcurrency hold a slot of       *)
(* workerSem.  A select is one step: it takes any of its cases that are    *)
(* ready, and its default when none is.  Between two selects everything    *)
(* else may happen: a context ends, a job is queued, Stop is called.       *)
(***************************************************************************)
EXTENDS Integers, Sequences, FiniteSets

CONSTANTS
    Jobs,               \* each element is one call of Submit; finitely many
    MaxConcurrency,     \* the capacity of workerSem
    QueueSize           \* the capacity of each queue

Priorities == {"high", "low"}
NoJob == "no_job"

ASSUME SchedulerAssumption ==
    /\ IsFiniteSet(Jobs) /\ NoJob \notin Jobs
    /\ MaxConcurrency \in Nat \ {0}
    /\ QueueSize \in Nat \ {0}

VARIABLES
    submit,             \* submit[j]: where j's Submit is, then what it returned
    priority,           \* priority[j]
    over,               \* over[j]: j's context has ended
    canceled,           \* canceled[j]: jobRequest.canceled
    done,               \* done[j]: jobRequest.done is closed
    runner,             \* runner[j]: where the goroutine run(j) is
    ran,                \* ran[j]: history, job j has been called
    queue,              \* queue[p]: the channel of priority p
    sem,                \* the number of elements in workerSem
    dispatcher,         \* where dispatch is
    taken,              \* the job it has dequeued
    stop,               \* the stop channel is closed
    stopper             \* where the call of Stop is

jobVars  == <<submit, priority, over, canceled, done, runner, ran>>
vars == <<jobVars, queue, sem, dispatcher, taken, stop, stopper>>

Returned == {"nil", "context_error", "stopped"}

TypeOK ==
    /\ submit \in [Jobs -> {"idle", "enqueue", "wait"} \cup Returned]
    /\ priority \in [Jobs -> Priorities]
    /\ over \in [Jobs -> BOOLEAN]
    /\ canceled \in [Jobs -> BOOLEAN]
    /\ done \in [Jobs -> BOOLEAN]
    /\ runner \in [Jobs -> {"none", "start", "job", "release", "gone"}]
    /\ ran \in [Jobs -> BOOLEAN]
    /\ queue \in [Priorities -> Seq(Jobs)]
    /\ sem \in 0..MaxConcurrency
    /\ dispatcher \in {"reserve", "try", "retry", "look", "block", "reserve_again",
                       "check", "exited"}
    /\ taken \in Jobs \cup {NoJob}
    /\ stop \in BOOLEAN
    /\ stopper \in {"idle", "wait", "returned"}

Init ==
    /\ submit = [j \in Jobs |-> "idle"]
    /\ priority \in [Jobs -> Priorities]
    /\ over = [j \in Jobs |-> FALSE]
    /\ canceled = [j \in Jobs |-> FALSE]
    /\ done = [j \in Jobs |-> FALSE]
    /\ runner = [j \in Jobs |-> "none"]
    /\ ran = [j \in Jobs |-> FALSE]
    /\ queue = [p \in Priorities |-> <<>>]
    /\ sem = 0
    /\ dispatcher = "reserve"
    /\ taken = NoJob
    /\ stop = FALSE
    /\ stopper = "idle"

----------------------------------------------------------------------------
(* Submit *)

SubmitGoto(j, stage) == submit' = [submit EXCEPT ![j] = stage]

Call(j) ==
    /\ submit[j] = "idle"
    /\ SubmitGoto(j, "enqueue")
    /\ UNCHANGED <<priority, over, canceled, done, runner, ran,
                   queue, sem, dispatcher, taken, stop, stopper>>

Enqueue(j) ==
    LET p == priority[j] IN
    /\ submit[j] = "enqueue"
    /\ Len(queue[p]) < QueueSize
    /\ queue' = [queue EXCEPT ![p] = Append(@, j)]
    /\ SubmitGoto(j, "wait")
    /\ UNCHANGED <<priority, over, canceled, done, runner, ran,
                   sem, dispatcher, taken, stop, stopper>>

\* <-jr.done
SubmitReturns(j) ==
    /\ submit[j] = "wait"
    /\ done[j]
    /\ SubmitGoto(j, "nil")
    /\ UNCHANGED <<priority, over, canceled, done, runner, ran,
                   queue, sem, dispatcher, taken, stop, stopper>>

\* <-ctx.Done(), in either select; a queued request is marked.
SubmitCanceled(j) ==
    /\ submit[j] \in {"enqueue", "wait"}
    /\ over[j]
    /\ canceled' = [canceled EXCEPT ![j] = submit[j] = "wait"]
    /\ SubmitGoto(j, "context_error")
    /\ UNCHANGED <<priority, over, done, runner, ran,
                   queue, sem, dispatcher, taken, stop, stopper>>

\* Mutant of SubmitStopped: the second select does not listen to stop.
MutantSubmitStopped(j) ==
    /\ submit[j] = "enqueue"
    /\ stop
    /\ SubmitGoto(j, "stopped")
    /\ UNCHANGED <<priority, over, canceled, done, runner, ran,
                   queue, sem, dispatcher, taken, stop, stopper>>

\* <-s.stop, in either select.
SubmitStopped(j) ==
    /\ submit[j] \in {"enqueue", "wait"}
    /\ stop
    /\ SubmitGoto(j, "stopped")
    /\ UNCHANGED <<priority, over, canceled, done, runner, ran,
                   queue, sem, dispatcher, taken, stop, stopper>>

----------------------------------------------------------------------------
(* More mutants *)

\* A request canceled in the queue leaves its slot behind.
MutantSkip ==
    /\ dispatcher = "check"
    /\ canceled[taken] \/ over[taken]
    /\ done' = [done EXCEPT ![taken] = TRUE]
    /\ dispatcher' = "reserve"
    /\ taken' = NoJob
    /\ UNCHANGED <<submit, priority, over, canceled, runner, ran, queue, sem, stop, stopper>>

\* A request canceled in the queue closes done and is started all the same.
MutantStart ==
    /\ dispatcher = "check"
    /\ runner' = [runner EXCEPT ![taken] = "start"]
    /\ done' = [done EXCEPT ![taken] = TRUE]
    /\ dispatcher' = "reserve"
    /\ taken' = NoJob
    /\ UNCHANGED <<submit, priority, over, canceled, ran, queue, sem, stop, stopper>>

\* A slot that was not needed is given back twice.
MutantNothingQueued ==
    /\ dispatcher = "retry"
    /\ \A p \in Priorities : queue[p] = <<>>
    /\ sem' = sem - 2
    /\ dispatcher' = "look"
    /\ UNCHANGED <<jobVars, queue, taken, stop, stopper>>

\* Stop waits for the dispatcher only.
MutantStopReturns ==
    /\ stopper = "wait"
    /\ dispatcher = "exited"
    /\ stopper' = "returned"
    /\ UNCHANGED <<jobVars, queue, sem, dispatcher, taken, stop>>

\* The dispatcher with nothing queued does not listen to stop.
MutantSeesStop ==
    /\ stop
    /\ dispatcher = "reserve"
    /\ dispatcher' = "exited"
    /\ UNCHANGED <<jobVars, queue, sem, taken, stop, stopper>>

----------------------------------------------------------------------------
(* dispatch *)

\* The stop case of dispatch's first select and of both selects of dequeue.
SeesStop ==
    /\ stop
    /\ dispatcher \in {"reserve", "look", "block"}
    /\ dispatcher' = "exited"
    /\ UNCHANGED <<jobVars, queue, sem, taken, stop, stopper>>

Reserve ==
    /\ dispatcher = "reserve"
    /\ sem < MaxConcurrency
    /\ sem' = sem + 1
    /\ dispatcher' = "try"
    /\ UNCHANGED <<jobVars, queue, taken, stop, stopper>>

\* Some select of tryDequeue (a slot is held) or dequeue (none is) receives
\* from queue p; the first select of each looks at the high queue only.
Dequeue(p) ==
    /\ queue[p] # <<>>
    /\ dispatcher \in IF p = "high" THEN {"try", "retry", "look", "block"}
                                    ELSE {"retry", "block"}
    /\ taken' = Head(queue[p])
    /\ queue' = [queue EXCEPT ![p] = Tail(@)]
    /\ dispatcher' = IF dispatcher \in {"try", "retry"} THEN "check" ELSE "reserve_again"
    /\ UNCHANGED <<jobVars, sem, stop, stopper>>

\* The default of the first select of tryDequeue, and of dequeue.
HighEmpty ==
    /\ queue["high"] = <<>>
    /\ \/ dispatcher = "try" /\ dispatcher' = "retry"
       \/ dispatcher = "look" /\ ~stop /\ dispatcher' = "block"
    /\ UNCHANGED <<jobVars, queue, sem, taken, stop, stopper>>

\* tryDequeue returns false: the slot is given back.
NothingQueued ==
    /\ dispatcher = "retry"
    /\ \A p \in Priorities : queue[p] = <<>>
    /\ sem' = sem - 1
    /\ dispatcher' = "look"
    /\ UNCHANGED <<jobVars, queue, taken, stop, stopper>>

ReserveAgain ==
    /\ dispatcher = "reserve_again"
    /\ sem < MaxConcurrency
    /\ sem' = sem + 1
    /\ dispatcher' = "check"
    /\ UNCHANGED <<jobVars, queue, taken, stop, stopper>>

\* The stop case while waiting for a slot with a job in hand.
DropsTaken ==
    /\ dispatcher = "reserve_again"
    /\ stop
    /\ done' = [done EXCEPT ![taken] = TRUE]
    /\ dispatcher' = "exited"
    /\ taken' = NoJob
    /\ UNCHANGED <<submit, priority, over, canceled, runner, ran, queue, sem, stop, stopper>>

\* The job's Submit is gone or going: the slot is free again.
Skip ==
    /\ dispatcher = "check"
    /\ canceled[taken] \/ over[taken]
    /\ sem' = sem - 1
    /\ done' = [done EXCEPT ![taken] = TRUE]
    /\ dispatcher' = "reserve"
    /\ taken' = NoJob
    /\ UNCHANGED <<submit, priority, over, canceled, runner, ran, queue, stop, stopper>>

\* go s.run(jr)
Start ==
    /\ dispatcher = "check"
    /\ ~canceled[taken] /\ ~over[taken]
    /\ runner' = [runner EXCEPT ![taken] = "start"]
    /\ dispatcher' = "reserve"
    /\ taken' = NoJob
    /\ UNCHANGED <<submit, priority, over, canceled, done, ran, queue, sem, stop, stopper>>

Dispatch ==
    \/ SeesStop \/ Reserve \/ \E p \in Priorities : Dequeue(p)
    \/ HighEmpty \/ NothingQueued \/ ReserveAgain \/ DropsTaken \/ Skip \/ Start

----------------------------------------------------------------------------
(* run, and its deferred calls in their order *)

RunnerGoto(j, stage) == runner' = [runner EXCEPT ![j] = stage]

\* The last look at the context before the job is called.
RunJob(j) ==
    /\ runner[j] = "start"
    /\ IF canceled[j] \/ over[j]
       THEN /\ RunnerGoto(j, "release")
            /\ done' = [done EXCEPT ![j] = TRUE]
            /\ UNCHANGED ran
       ELSE /\ RunnerGoto(j, "job")
            /\ ran' = [ran EXCEPT ![j] = TRUE]
            /\ UNCHANGED done
    /\ UNCHANGED <<submit, priority, over, canceled,
                   queue, sem, dispatcher, taken, stop, stopper>>

\* The job returns and done is closed; the slot is given back later.
JobEnds(j) ==
    /\ runner[j] = "job"
    /\ done' = [done EXCEPT ![j] = TRUE]
    /\ RunnerGoto(j, "release")
    /\ UNCHANGED <<submit, priority, over, canceled, ran,
                   queue, sem, dispatcher, taken, stop, stopper>>

ReleaseSlot(j) ==
    /\ runner[j] = "release"
    /\ sem' = sem - 1
    /\ RunnerGoto(j, "gone")
    /\ UNCHANGED <<submit, priority, over, canceled, done, ran,
                   queue, dispatcher, taken, stop, stopper>>

----------------------------------------------------------------------------
(* Stop, and the contexts *)

Stop ==
    /\ stopper = "idle"
    /\ stop' = TRUE
    /\ stopper' = "wait"
    /\ UNCHANGED <<jobVars, queue, sem, dispatcher, taken>>

\* wg.Wait() ends.
StopReturns ==
    /\ stopper = "wait"
    /\ dispatcher = "exited"
    /\ \A j \in Jobs : runner[j] \in {"none", "gone"}
    /\ stopper' = "returned"
    /\ UNCHANGED <<jobVars, queue, sem, dispatcher, taken, stop>>

\* While Submit waits, or later: a server ends the context when its handler
\* has returned.
ContextEnds(j) ==
    /\ ~over[j]
    /\ submit[j] # "idle"
    /\ over' = [over EXCEPT ![j] = TRUE]
    /\ UNCHANGED <<submit, priority, canceled, done, runner, ran,
                   queue, sem, dispatcher, taken, stop, stopper>>

SubmitStep(j) ==
    Enqueue(j) \/ SubmitReturns(j) \/ SubmitCanceled(j) \/ SubmitStopped(j)

RunStep(j) == RunJob(j) \/ JobEnds(j) \/ ReleaseSlot(j)

Next ==
    \/ \E j \in Jobs : Call(j) \/ SubmitStep(j) \/ RunStep(j) \/ ContextEnds(j)
    \/ Dispatch
    \/ Stop \/ StopReturns

\* Goroutines run, and jobs end: a job gets its Submit's context and is
\* expected to heed it.  Nobody has to call Submit or Stop.
Fairness ==
    /\ \A j \in Jobs : WF_vars(SubmitStep(j)) /\ WF_vars(RunStep(j))
    /\ WF_vars(Dispatch)
    /\ WF_vars(StopReturns)

Spec == Init /\ [][Next]_vars

FairSpec == Spec /\ Fairness

----------------------------------------------------------------------------
(* Properties *)

Holders == {j \in Jobs : runner[j] \in {"start", "job", "release"}}

\* scheduler.go:99-144: every element of workerSem belongs to a goroutine that
\* will give it back, or to the dispatcher between two selects: no path leaks
\* a slot or gives one back twice.  With the channel's capacity this caps the
\* jobs that run at once at MaxConcurrency.
SlotsAccounted ==
    sem = Cardinality(Holders) + IF dispatcher \in {"try", "retry", "check"} THEN 1 ELSE 0

\* scheduler.go:89-97: when Stop has returned no job runs and none will.
StopIsFinal ==
    stopper = "returned" => dispatcher = "exited" /\ Holders = {}

\* scheduler.go:56-134: of finitely many Submits each returns: no slot, place in a
\* queue or wakeup gets lost, and none waits for a scheduler that has stopped.
\* Finitely many: the high queue is always looked at first (scheduler.go:147-151
\* and 164-170), so a low job whose context does not end waits as long as high
\* ones keep coming.
EverySubmitReturns ==
    \A j \in Jobs : submit[j] = "enqueue" ~> submit[j] \in Returned

\* scheduler.go:89-134: Stop returns, wherever the dispatcher was when it was
\* called, also when it was blocked with nothing to do.
StopEnds == stopper = "wait" ~> stopper = "returned"

\* The state of JobService, computed from the scheduler's.
Promise == INSTANCE JobService WITH
    call <- [j \in Jobs |-> IF submit[j] \in {"enqueue", "wait"} THEN "waiting" ELSE submit[j]],
    work <- [j \in Jobs |-> IF ~ran[j] THEN "none"
                            ELSE IF runner[j] = "job" THEN "running" ELSE "ended"]

\* scheduler.go:56-144: the scheduler implements JobService: over all its
\* selects a job is called at most once, never after its context has ended, and
\* Submit returns nil for a job that was not called to its end only if the
\* context or the scheduler had ended; and of finitely many jobs every one that a
\* Submit waits for is served (see EverySubmitReturns for an endless stream).
ImplementsJobService == Promise!ServiceSpec
============================================================================
