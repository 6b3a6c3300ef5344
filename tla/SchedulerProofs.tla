-------------------------- MODULE SchedulerProofs --------------------------
(***************************************************************************)
(* No slot of the scheduler leaks, for any number of jobs, slots and queue *)
(* places, and whatever contexts end and whenever Stop is called; its      *)
(* steps are steps of JobService; and no job gets lost in it, so that      *)
(* Submit, the dispatcher and Stop never wait on each other.               *)
(***************************************************************************)
EXTENDS Scheduler, FiniteSetTheorems, TLAPS

(***************************************************************************)
(* The strengthening.  Counting slots is inductive only if the goroutine   *)
(* that the dispatcher starts is a new one; for that a job must be in one  *)
(* place at a time: before its Submit has queued it, at one position of    *)
(* one queue, in the dispatcher's hand, or with its goroutine.             *)
(***************************************************************************)
Begun(j) == submit[j] \notin {"idle", "enqueue"}

InQueue ==
    \A p \in Priorities : \A i \in 1..Len(queue[p]) :
        /\ priority[queue[p][i]] = p
        /\ Begun(queue[p][i])
        /\ runner[queue[p][i]] = "none"
        /\ queue[p][i] # taken

QueuedOnce ==
    \A p \in Priorities : \A i, k \in 1..Len(queue[p]) :
        queue[p][i] = queue[p][k] => i = k

InHand ==
    /\ taken = NoJob => dispatcher \notin {"check", "reserve_again"}
    /\ taken # NoJob => /\ dispatcher \in {"check", "reserve_again"}
                        /\ Begun(taken)
                        /\ runner[taken] = "none"

Running == \A j \in Jobs : runner[j] # "none" => Begun(j)

OnePlace == InQueue /\ QueuedOnce /\ InHand /\ Running

SchedInv == TypeOK /\ OnePlace /\ SlotsAccounted /\ StopIsFinal

----------------------------------------------------------------------------
(* Facts about queues, holders and slots *)

\* The element that a dispatcher's receive takes, and what it leaves.
LEMMA TailFacts ==
    ASSUME NEW S, NEW q \in Seq(S), q # <<>>
    PROVE  /\ Head(q) = q[1] /\ Head(q) \in S
           /\ Tail(q) \in Seq(S)
           /\ Len(q) \in Nat \ {0}
           /\ Len(Tail(q)) = Len(q) - 1
           /\ \A i \in 1..Len(Tail(q)) : Tail(q)[i] = q[i + 1]
  OBVIOUS

\* What is in a queue is a job.
LEMMA QueueElements ==
    ASSUME TypeOK
    PROVE  \A o \in Priorities : \A i \in 1..Len(queue[o]) : queue[o][i] \in Jobs
  <1>1. \A q \in Seq(Jobs) : \A i \in 1..Len(q) : q[i] \in Jobs
    OBVIOUS
  <1>2. \A o \in Priorities : queue[o] \in Seq(Jobs)
    BY DEF TypeOK
  <1> QED
    BY <1>1, <1>2

\* The goroutines that hold a slot are finitely many.
LEMMA HoldersFinite == IsFiniteSet(Holders) /\ Cardinality(Holders) \in Nat
  <1>1. Holders \in SUBSET Jobs
    BY DEF Holders
  <1>2. IsFiniteSet(Holders)
    BY <1>1, FS_Subset, SchedulerAssumption
  <1> QED
    BY <1>2, FS_CardinalityType

----------------------------------------------------------------------------
(* One place at a time *)

\* Every step leaves each job in one place.
LEMMA NextPreservesOnePlace == TypeOK /\ OnePlace /\ [Next]_vars => OnePlace'
  <1> SUFFICES ASSUME TypeOK, OnePlace, [Next]_vars PROVE OnePlace'
    OBVIOUS
  <1> USE DEF OnePlace
  <1>1. ASSUME NEW j \in Jobs, Enqueue(j) PROVE OnePlace'
    <2> DEFINE p == priority[j]
    <2>1. /\ p \in Priorities /\ queue[p] \in Seq(Jobs)
          /\ queue' = [queue EXCEPT ![p] = Append(queue[p], j)]
          /\ submit' = [submit EXCEPT ![j] = "wait"]
          /\ UNCHANGED <<priority, runner, taken, dispatcher>>
      BY <1>1 DEF Enqueue, SubmitGoto, TypeOK
    <2>2. \A o \in Priorities : \A i \in 1..Len(queue[o]) : queue[o][i] # j
      BY <1>1 DEF Enqueue, InQueue, Begun
    <2>3. taken # j /\ runner[j] = "none"
      BY <1>1, SchedulerAssumption DEF Enqueue, InHand, Running, Begun
    <2>4. \A o \in Priorities : \A i \in 1..Len(queue'[o]) :
             \/ i \in 1..Len(queue[o]) /\ queue'[o][i] = queue[o][i]
             \/ o = p /\ i = Len(queue[o]) + 1 /\ queue'[o][i] = j
      BY <2>1 DEF TypeOK
    <2>5. \A x \in Jobs : Begun(x) => Begun(x)'
      BY <2>1 DEF Begun, TypeOK
    <2>6. Begun(j)'
      BY <2>1 DEF Begun, TypeOK
    <2>7. \A o \in Priorities : \A i \in 1..Len(queue[o]) : queue[o][i] \in Jobs
      BY QueueElements
    <2>8. InQueue'
      BY <2>1, <2>3, <2>4, <2>5, <2>6, <2>7 DEF InQueue
    <2>9. QueuedOnce'
      BY <2>2, <2>4 DEF QueuedOnce
    <2>10. InHand' /\ Running'
      BY <2>1, <2>5 DEF InHand, Running, TypeOK
    <2> QED
      BY <2>8, <2>9, <2>10
  <1>2. ASSUME NEW j \in Jobs, Call(j) PROVE OnePlace'
    <2>1. /\ submit' = [submit EXCEPT ![j] = "enqueue"] /\ submit[j] = "idle"
          /\ UNCHANGED <<priority, runner, taken, dispatcher, queue>>
      BY <1>2 DEF Call, SubmitGoto
    <2>2. \A x \in Jobs : Begun(x) <=> Begun(x)'
      BY <2>1 DEF Begun, TypeOK
    <2>3. \A o \in Priorities : \A i \in 1..Len(queue[o]) : queue[o][i] \in Jobs
      BY QueueElements
    <2> QED
      BY <2>1, <2>2, <2>3 DEF InQueue, QueuedOnce, InHand, Running, TypeOK
  <1>3. ASSUME NEW j \in Jobs, SubmitReturns(j) \/ SubmitCanceled(j) \/ SubmitStopped(j)
        PROVE OnePlace'
    <2>1. PICK stage \in Returned : submit' = [submit EXCEPT ![j] = stage]
      BY <1>3 DEF SubmitReturns, SubmitCanceled, SubmitStopped, SubmitGoto, Returned
    <2>2. UNCHANGED <<priority, runner, taken, dispatcher, queue>>
      BY <1>3 DEF SubmitReturns, SubmitCanceled, SubmitStopped
    <2>3. \A x \in Jobs : Begun(x) => Begun(x)'
      BY <2>1 DEF Begun, TypeOK, Returned
    <2>4. \A o \in Priorities : \A i \in 1..Len(queue[o]) : queue[o][i] \in Jobs
      BY QueueElements
    <2> QED
      BY <2>2, <2>3, <2>4 DEF InQueue, QueuedOnce, InHand, Running, TypeOK
  <1>4. ASSUME NEW p \in Priorities, Dequeue(p) PROVE OnePlace'
    <2>1. /\ queue[p] \in Seq(Jobs) /\ queue[p] # <<>>
          /\ taken' = Head(queue[p])
          /\ queue' = [queue EXCEPT ![p] = Tail(queue[p])]
          /\ dispatcher' \in {"check", "reserve_again"}
          /\ taken = NoJob
          /\ UNCHANGED <<submit, priority, runner>>
      BY <1>4 DEF Dequeue, jobVars, TypeOK, InHand
    <2>2. /\ taken' = queue[p][1] /\ taken' \in Jobs /\ 1 \in 1..Len(queue[p])
          /\ Len(queue'[p]) = Len(queue[p]) - 1
          /\ \A i \in 1..Len(queue'[p]) : i + 1 \in 1..Len(queue[p]) /\ queue'[p][i] = queue[p][i + 1]
      BY <2>1, TailFacts DEF TypeOK
    <2>3. \A o \in Priorities : o # p => queue'[o] = queue[o]
      BY <2>1 DEF TypeOK
    <2>4. Begun(taken') /\ runner[taken'] = "none" /\ priority[taken'] = p
      BY <2>2 DEF InQueue
    <2>5. \A x \in Jobs : Begun(x)' <=> Begun(x)
      BY <2>1 DEF Begun
    <2>6. \A o \in Priorities : \A i \in 1..Len(queue[o]) : queue[o][i] \in Jobs
      BY QueueElements
    <2>7. ASSUME NEW o \in Priorities, NEW i \in 1..Len(queue'[o])
          PROVE  /\ priority[queue'[o][i]] = o
                 /\ submit[queue'[o][i]] \notin {"idle", "enqueue"}
                 /\ runner[queue'[o][i]] = "none"
                 /\ queue'[o][i] # taken'
      <3>1. CASE o = p
        <4>1. i + 1 \in 1..Len(queue[p]) /\ queue'[p][i] = queue[p][i + 1] /\ i + 1 # 1
          BY <2>2, <3>1
        <4>2. queue[p][i + 1] # queue[p][1]
          BY <2>2, <4>1 DEF QueuedOnce
        <4> QED
          BY <2>2, <3>1, <4>1, <4>2 DEF InQueue, Begun
      <3>2. CASE o # p
        BY <2>3, <2>4, <3>2 DEF InQueue, Begun
      <3> QED
        BY <3>1, <3>2
    <2>8. InQueue'
      BY <2>1, <2>7 DEF InQueue, Begun
    <2>9. QueuedOnce'
      <3>1. ASSUME NEW o \in Priorities, NEW i \in 1..Len(queue'[o]), NEW k \in 1..Len(queue'[o]),
                   queue'[o][i] = queue'[o][k]
            PROVE  i = k
        <4>1. CASE o = p
          <5>1. /\ i + 1 \in 1..Len(queue[p]) /\ k + 1 \in 1..Len(queue[p])
                /\ queue[p][i + 1] = queue[p][k + 1]
            BY <2>2, <3>1, <4>1
          <5>2. i + 1 = k + 1
            BY <5>1 DEF QueuedOnce
          <5>3. i \in Nat /\ k \in Nat
            BY <2>1, <4>1 DEF TypeOK
          <5> QED
            BY <5>2, <5>3
        <4>2. CASE o # p
          BY <2>3, <3>1, <4>2 DEF QueuedOnce
        <4> QED
          BY <4>1, <4>2
      <3> QED
        BY <3>1 DEF QueuedOnce
    <2>10. InHand' /\ Running'
      BY <2>1, <2>2, <2>4, <2>5, SchedulerAssumption DEF InHand, Running
    <2> QED
      BY <2>8, <2>9, <2>10
  <1>5. ASSUME SeesStop \/ Reserve \/ HighEmpty \/ NothingQueued \/ ReserveAgain PROVE OnePlace'
    <2>1. /\ UNCHANGED <<submit, priority, runner, taken, queue>>
          /\ dispatcher' \in {"check", "reserve_again"} <=> dispatcher \in {"check", "reserve_again"}
      BY <1>5 DEF SeesStop, Reserve, HighEmpty, NothingQueued, ReserveAgain, jobVars
    <2> QED
      BY <2>1 DEF InQueue, QueuedOnce, InHand, Running, Begun
  <1>6. ASSUME DropsTaken \/ Skip PROVE OnePlace'
    <2>1. /\ UNCHANGED <<submit, priority, runner, queue>>
          /\ dispatcher' \notin {"check", "reserve_again"} /\ taken' = NoJob
      BY <1>6 DEF DropsTaken, Skip
    <2>2. \A o \in Priorities : \A i \in 1..Len(queue[o]) : queue[o][i] \in Jobs
      BY QueueElements
    <2> QED
      BY <2>1, <2>2, SchedulerAssumption DEF InQueue, QueuedOnce, InHand, Running, Begun
  <1>7. ASSUME Start PROVE OnePlace'
    <2>1. /\ UNCHANGED <<submit, priority, queue>>
          /\ dispatcher' = "reserve" /\ taken' = NoJob
          /\ runner' = [runner EXCEPT ![taken] = "start"]
          /\ taken \in Jobs /\ Begun(taken)
      BY <1>7 DEF Start, InHand, TypeOK
    <2>2. \A o \in Priorities : \A i \in 1..Len(queue[o]) :
             queue[o][i] \in Jobs /\ runner'[queue[o][i]] = runner[queue[o][i]]
      BY <2>1, QueueElements DEF InQueue, TypeOK
    <2>3. InQueue' /\ QueuedOnce'
      BY <2>1, <2>2, SchedulerAssumption DEF InQueue, QueuedOnce, Begun
    <2>4. InHand' /\ Running'
      BY <2>1 DEF InHand, Running, Begun, TypeOK
    <2> QED
      BY <2>3, <2>4
  <1>8. ASSUME NEW j \in Jobs, RunStep(j) PROVE OnePlace'
    <2>1. /\ UNCHANGED <<submit, priority, queue, dispatcher, taken>>
          /\ runner[j] # "none"
          /\ \A x \in Jobs : x # j => runner'[x] = runner[x]
      BY <1>8 DEF RunStep, RunJob, JobEnds, ReleaseSlot, RunnerGoto, TypeOK
    <2>2. \A o \in Priorities : \A i \in 1..Len(queue[o]) :
             queue[o][i] \in Jobs /\ runner'[queue[o][i]] = runner[queue[o][i]]
      BY <2>1, QueueElements DEF InQueue, TypeOK
    <2>3. InQueue' /\ QueuedOnce'
      BY <2>1, <2>2 DEF InQueue, QueuedOnce, Begun
    <2>4. taken # NoJob => runner'[taken] = runner[taken]
      BY <2>1 DEF InHand, TypeOK
    <2>5. InHand' /\ Running'
      BY <2>1, <2>4 DEF InHand, Running, Begun
    <2> QED
      BY <2>3, <2>5
  <1>9. ASSUME \/ \E j \in Jobs : ContextEnds(j)
               \/ Stop \/ StopReturns \/ UNCHANGED vars
        PROVE OnePlace'
    <2>1. UNCHANGED <<submit, priority, runner, queue, dispatcher, taken>>
      BY <1>9 DEF ContextEnds, Stop, StopReturns, vars, jobVars
    <2>2. InQueue'
      BY <2>1 DEF InQueue, Begun
    <2>3. QueuedOnce'
      BY <2>1 DEF QueuedOnce
    <2>4. InHand'
      BY <2>1 DEF InHand, Begun
    <2>5. Running'
      BY <2>1 DEF Running, Begun
    <2> QED
      BY <2>2, <2>3, <2>4, <2>5
  <1> QED
    BY <1>1, <1>2, <1>3, <1>4, <1>5, <1>6, <1>7, <1>8, <1>9
       DEF Next, SubmitStep, Dispatch

----------------------------------------------------------------------------
(* The slots *)

HoldsOne == IF dispatcher \in {"try", "retry", "check"} THEN 1 ELSE 0

\* Every step keeps the count of slots, and with it the state's types.
LEMMA NextPreservesSlots ==
    TypeOK /\ OnePlace /\ SlotsAccounted /\ [Next]_vars => TypeOK' /\ SlotsAccounted'
  <1> SUFFICES ASSUME TypeOK, OnePlace, SlotsAccounted, [Next]_vars
               PROVE  TypeOK' /\ SlotsAccounted'
    OBVIOUS
  <1>a. IsFiniteSet(Holders) /\ Cardinality(Holders) \in Nat
    BY HoldersFinite
  <1>b. sem = Cardinality(Holders) + HoldsOne /\ HoldsOne \in {0, 1}
    BY DEF SlotsAccounted, HoldsOne
  <1>c. SlotsAccounted' <=> sem' = Cardinality(Holders') + HoldsOne'
    BY DEF SlotsAccounted, HoldsOne
  <1>d. ASSUME UNCHANGED <<runner, sem, dispatcher>> PROVE SlotsAccounted'
    BY <1>d DEF SlotsAccounted, Holders
  <1>1. ASSUME NEW j \in Jobs, Call(j) \/ ContextEnds(j) \/ SubmitStep(j)
        PROVE  TypeOK' /\ SlotsAccounted'
    <2>1. UNCHANGED <<runner, sem, dispatcher>>
      BY <1>1 DEF Call, ContextEnds, SubmitStep, Enqueue, SubmitReturns, SubmitCanceled, SubmitStopped
    <2>2. ASSUME Enqueue(j) PROVE TypeOK'
      BY <2>2 DEF Enqueue, SubmitGoto, TypeOK
    <2>3. ASSUME ~Enqueue(j) PROVE TypeOK'
      BY <1>1, <2>3 DEF Call, ContextEnds, SubmitStep, SubmitReturns, SubmitCanceled,
                        SubmitStopped, SubmitGoto, Returned, TypeOK
    <2> QED
      BY <1>d, <2>1, <2>2, <2>3
  <1>2. ASSUME NEW p \in Priorities, Dequeue(p) PROVE TypeOK' /\ SlotsAccounted'
    <2>1. queue[p] \in Seq(Jobs) /\ queue[p] # <<>>
      BY <1>2 DEF Dequeue, TypeOK
    <2>2. Head(queue[p]) \in Jobs /\ Tail(queue[p]) \in Seq(Jobs)
      BY <2>1, TailFacts
    <2>3. TypeOK'
      BY <1>2, <2>2 DEF Dequeue, jobVars, TypeOK
    <2>4. Holders' = Holders /\ sem' = sem /\ HoldsOne' = HoldsOne
      BY <1>2 DEF Dequeue, jobVars, Holders, HoldsOne
    <2> QED
      BY <1>b, <1>c, <2>3, <2>4
  <1>3. ASSUME SeesStop \/ HighEmpty \/ DropsTaken PROVE TypeOK' /\ SlotsAccounted'
    <2>1. TypeOK'
      BY <1>3 DEF SeesStop, HighEmpty, DropsTaken, jobVars, TypeOK
    <2>2. Holders' = Holders /\ sem' = sem /\ HoldsOne' = HoldsOne
      BY <1>3 DEF SeesStop, HighEmpty, DropsTaken, jobVars, Holders, HoldsOne
    <2> QED
      BY <1>b, <1>c, <2>1, <2>2
  <1>4. ASSUME Reserve \/ ReserveAgain PROVE TypeOK' /\ SlotsAccounted'
    <2>1. /\ sem < MaxConcurrency /\ sem' = sem + 1
          /\ Holders' = Holders /\ HoldsOne = 0 /\ HoldsOne' = 1
      BY <1>4 DEF Reserve, ReserveAgain, jobVars, Holders, HoldsOne
    <2>2. sem' \in 0..MaxConcurrency
      BY <2>1, SchedulerAssumption DEF TypeOK
    <2>3. TypeOK'
      BY <1>4, <2>2 DEF Reserve, ReserveAgain, jobVars, TypeOK
    <2> QED
      BY <1>a, <1>b, <1>c, <2>1, <2>3
  <1>5. ASSUME NothingQueued \/ Skip PROVE TypeOK' /\ SlotsAccounted'
    <2>1. /\ sem' = sem - 1
          /\ Holders' = Holders /\ HoldsOne = 1 /\ HoldsOne' = 0
      BY <1>5 DEF NothingQueued, Skip, jobVars, Holders, HoldsOne
    <2>2. sem' \in 0..MaxConcurrency
      BY <1>a, <1>b, <2>1, SchedulerAssumption DEF TypeOK
    <2>3. TypeOK'
      BY <1>5, <2>2 DEF NothingQueued, Skip, jobVars, TypeOK
    <2> QED
      BY <1>a, <1>b, <1>c, <2>1, <2>3
  <1>6. ASSUME Start PROVE TypeOK' /\ SlotsAccounted'
    <2>1. /\ taken \in Jobs /\ runner[taken] = "none"
          /\ sem' = sem /\ HoldsOne = 1 /\ HoldsOne' = 0
      BY <1>6 DEF Start, OnePlace, InHand, TypeOK, HoldsOne
    <2>2. Holders' = Holders \cup {taken} /\ taken \notin Holders
      BY <1>6, <2>1 DEF Start, Holders, TypeOK
    <2>3. Cardinality(Holders') = Cardinality(Holders) + 1
      BY <1>a, <2>2, FS_AddElement
    <2>4. TypeOK'
      BY <1>6, <2>1 DEF Start, TypeOK
    <2> QED
      BY <1>a, <1>b, <1>c, <2>1, <2>3, <2>4
  <1>7. ASSUME NEW j \in Jobs, RunJob(j) \/ JobEnds(j) PROVE TypeOK' /\ SlotsAccounted'
    <2>1. TypeOK'
      BY <1>7 DEF RunJob, JobEnds, RunnerGoto, TypeOK
    <2>2. Holders' = Holders /\ sem' = sem /\ HoldsOne' = HoldsOne
      BY <1>7 DEF RunJob, JobEnds, RunnerGoto, Holders, HoldsOne, TypeOK
    <2> QED
      BY <1>b, <1>c, <2>1, <2>2
  <1>8. ASSUME NEW j \in Jobs, ReleaseSlot(j) PROVE TypeOK' /\ SlotsAccounted'
    <2>1. sem' = sem - 1 /\ HoldsOne' = HoldsOne
      BY <1>8 DEF ReleaseSlot, HoldsOne
    <2>2. Holders' = Holders \ {j} /\ j \in Holders
      BY <1>8 DEF ReleaseSlot, RunnerGoto, Holders, TypeOK
    <2>3. /\ Cardinality(Holders') = Cardinality(Holders) - 1
          /\ IsFiniteSet(Holders') /\ Cardinality(Holders') \in Nat
      BY <1>a, <2>2, FS_RemoveElement, FS_CardinalityType
    <2>4. sem' \in 0..MaxConcurrency
      BY <1>a, <1>b, <2>1, <2>3, SchedulerAssumption DEF TypeOK
    <2>5. TypeOK'
      BY <1>8, <2>4 DEF ReleaseSlot, RunnerGoto, TypeOK
    <2> QED
      BY <1>a, <1>b, <1>c, <2>1, <2>3, <2>5
  <1>9. ASSUME Stop \/ StopReturns \/ UNCHANGED vars PROVE TypeOK' /\ SlotsAccounted'
    <2>1. UNCHANGED <<runner, sem, dispatcher>>
      BY <1>9 DEF Stop, StopReturns, vars, jobVars
    <2>2. TypeOK'
      BY <1>9 DEF Stop, StopReturns, vars, jobVars, TypeOK
    <2> QED
      BY <1>d, <2>1, <2>2
  <1> QED
    BY <1>1, <1>2, <1>3, <1>4, <1>5, <1>6, <1>7, <1>8, <1>9 DEF Next, RunStep, Dispatch

\* Once Stop has returned, no step starts a job again.
LEMMA NextPreservesStop == OnePlace /\ StopIsFinal /\ [Next]_vars => StopIsFinal'
  <1> SUFFICES ASSUME StopIsFinal, [Next]_vars, stopper' = "returned"
               PROVE  dispatcher' = "exited" /\ Holders' = {}
    BY DEF StopIsFinal
  <1>1. CASE StopReturns
    BY <1>1 DEF StopReturns, Holders, jobVars
  <1>2. CASE ~StopReturns
    <2>1. stopper = "returned"
      BY <1>2 DEF Next, Call, ContextEnds, SubmitStep, Enqueue, SubmitReturns, SubmitCanceled,
                  SubmitStopped, RunStep, RunJob, JobEnds, ReleaseSlot, Dispatch, SeesStop,
                  Reserve, Dequeue, HighEmpty, NothingQueued, ReserveAgain, DropsTaken, Skip,
                  Start, Stop, vars
    <2>2. dispatcher = "exited" /\ \A j \in Jobs : j \notin Holders
      BY <2>1 DEF StopIsFinal
    <2>3. ~Dispatch
      BY <2>2 DEF Dispatch, SeesStop, Reserve, Dequeue, HighEmpty, NothingQueued,
                  ReserveAgain, DropsTaken, Skip, Start
    <2>4. \A j \in Jobs : ~RunStep(j)
      BY <2>2 DEF Holders, RunStep, RunJob, JobEnds, ReleaseSlot
    <2>5. UNCHANGED <<runner, dispatcher>>
      BY <1>2, <2>3, <2>4
         DEF Next, Call, ContextEnds, SubmitStep, Enqueue, SubmitReturns, SubmitCanceled,
             SubmitStopped, Stop, vars, jobVars
    <2> QED
      BY <2>2, <2>5 DEF Holders
  <1> QED
    BY <1>1, <1>2

----------------------------------------------------------------------------
(* The theorems *)

\* The inductive invariant holds in every reachable state.
THEOREM Invariance == Spec => []SchedInv
  <1>1. Init => SchedInv
    <2> SUFFICES ASSUME Init PROVE SchedInv
      OBVIOUS
    <2>a. 0 \in 0..MaxConcurrency
      BY SchedulerAssumption
    <2>b. queue \in [Priorities -> Seq(Jobs)]
      BY DEF Init
    <2>1. TypeOK
      BY <2>a, <2>b DEF Init, TypeOK
    <2>2. \A p \in Priorities : 1..Len(queue[p]) = {}
      BY DEF Init
    <2>3. InQueue /\ QueuedOnce
      BY <2>2 DEF InQueue, QueuedOnce
    <2>4. InHand /\ Running
      BY DEF Init, InHand, Running
    <2>5. Holders = {}
      BY DEF Init, Holders
    <2>6. SlotsAccounted /\ StopIsFinal
      BY <2>5, FS_EmptySet DEF Init, SlotsAccounted, StopIsFinal
    <2> QED
      BY <2>1, <2>3, <2>4, <2>6 DEF SchedInv, OnePlace
  <1>2. SchedInv /\ [Next]_vars => SchedInv'
    BY NextPreservesOnePlace, NextPreservesSlots, NextPreservesStop DEF SchedInv
  <1> QED
    BY <1>1, <1>2, PTL DEF Spec

\* The scheduler's state is well formed; in particular workerSem never holds
\* less than nothing or more than its capacity.
THEOREM TypeCorrect == Spec => []TypeOK
  BY Invariance, PTL DEF SchedInv

\* scheduler.go:99-144: no path through dispatch and run leaks a slot or gives
\* one back twice.
THEOREM NoSlotLeaks == Spec => []SlotsAccounted
  BY Invariance, PTL DEF SchedInv

\* scheduler.go:89-97: when Stop has returned no job runs and none will.
THEOREM StoppedForGood == Spec => []StopIsFinal
  BY Invariance, PTL DEF SchedInv

AtMostMax == Cardinality({j \in Jobs : runner[j] = "job"}) <= MaxConcurrency

\* scheduler.go:27: the scheduler "caps concurrent upstream calls": at most
\* MaxConcurrency jobs run at a time.
THEOREM ConcurrencyCapped == Spec => []AtMostMax
  <1>1. SchedInv => AtMostMax
    <2> SUFFICES ASSUME SchedInv PROVE AtMostMax
      OBVIOUS
    <2> DEFINE calls == {j \in Jobs : runner[j] = "job"}
    <2>1. calls \in SUBSET Holders
      BY DEF Holders
    <2>2. /\ IsFiniteSet(calls) /\ Cardinality(calls) <= Cardinality(Holders)
          /\ Cardinality(Holders) \in Nat
      BY <2>1, HoldersFinite, FS_Subset
    <2>3. Cardinality(calls) \in Nat
      BY <2>2, FS_CardinalityType
    <2>4. Cardinality(Holders) <= sem /\ sem \in 0..MaxConcurrency
      BY <2>2 DEF SchedInv, SlotsAccounted, TypeOK
    <2> QED
      BY <2>2, <2>3, <2>4, SchedulerAssumption DEF AtMostMax
  <1> QED
    BY <1>1, Invariance, PTL

----------------------------------------------------------------------------
(* What Submit promises *)

(***************************************************************************)
(* JobService does not know queues and goroutines.  That nil means what it *)
(* promises needs what "done" means at each place of a job: it is closed   *)
(* only for a job that has left its queue and the dispatcher's hand, whose *)
(* goroutine, if there is one, is past the job, and that was called unless *)
(* its context or the scheduler had ended.                                 *)
(***************************************************************************)
DoneMeans ==
    /\ \A j \in Jobs : done[j] =>
          /\ Begun(j)
          /\ j # taken
          /\ runner[j] \notin {"start", "job"}
          /\ ran[j] \/ over[j] \/ stop
    /\ \A p \in Priorities : \A i \in 1..Len(queue[p]) : ~done[queue[p][i]]

RanMeans ==
    \A j \in Jobs :
        /\ runner[j] \in {"none", "start"} => ~ran[j]
        /\ runner[j] = "job" => ran[j]

ReturnMeans ==
    \A j \in Jobs :
        /\ canceled[j] => over[j]
        /\ submit[j] = "nil" => done[j]
        /\ submit[j] = "context_error" => over[j]

PromiseInv == DoneMeans /\ RanMeans /\ ReturnMeans

\* Every step keeps the meaning of done, of ran and of what Submit returns.
LEMMA NextPreservesPromise == SchedInv /\ PromiseInv /\ [Next]_vars => PromiseInv'
  <1> SUFFICES ASSUME SchedInv, PromiseInv, [Next]_vars PROVE PromiseInv'
    OBVIOUS
  <1> USE DEF PromiseInv
  <1>a. TypeOK /\ OnePlace
    BY DEF SchedInv
  <1>b. \A o \in Priorities : \A i \in 1..Len(queue[o]) : queue[o][i] \in Jobs
    BY <1>a, QueueElements
  <1>1. ASSUME NEW j \in Jobs, Enqueue(j) PROVE PromiseInv'
    <2> DEFINE p == priority[j]
    <2>1. /\ p \in Priorities /\ queue[p] \in Seq(Jobs)
          /\ queue' = [queue EXCEPT ![p] = Append(queue[p], j)]
          /\ submit' = [submit EXCEPT ![j] = "wait"]
          /\ submit[j] = "enqueue"
          /\ UNCHANGED <<over, canceled, done, runner, ran, taken, stop>>
      BY <1>1, <1>a DEF Enqueue, SubmitGoto, TypeOK
    <2>2. \A o \in Priorities : \A i \in 1..Len(queue'[o]) :
             (i \in 1..Len(queue[o]) /\ queue'[o][i] = queue[o][i]) \/ queue'[o][i] = j
      BY <1>a, <2>1 DEF TypeOK
    <2>3. ~done[j]
      BY <2>1 DEF DoneMeans, Begun
    <2>4. DoneMeans'
      BY <1>a, <2>1, <2>2, <2>3 DEF DoneMeans, Begun, TypeOK
    <2> QED
      BY <1>a, <2>1, <2>4 DEF RanMeans, ReturnMeans, TypeOK
  <1>2. ASSUME NEW j \in Jobs, Call(j) \/ SubmitReturns(j) \/ SubmitCanceled(j) \/ SubmitStopped(j)
        PROVE PromiseInv'
    <2>1. UNCHANGED <<over, done, runner, ran, queue, taken, stop>>
      BY <1>2 DEF Call, SubmitReturns, SubmitCanceled, SubmitStopped
    <2>2. \A x \in Jobs : Begun(x) => Begun(x)'
      BY <1>2, <1>a DEF Call, SubmitReturns, SubmitCanceled, SubmitStopped, SubmitGoto, Begun, TypeOK
    <2>3. DoneMeans' /\ RanMeans'
      BY <2>1, <2>2 DEF DoneMeans, RanMeans
    <2>4. ReturnMeans'
      BY <1>2, <1>a, <2>1 DEF Call, SubmitReturns, SubmitCanceled, SubmitStopped, SubmitGoto,
                              ReturnMeans, TypeOK
    <2> QED
      BY <2>3, <2>4
  <1>3. ASSUME NEW p \in Priorities, Dequeue(p) PROVE PromiseInv'
    <2>1. /\ queue[p] \in Seq(Jobs) /\ queue[p] # <<>>
          /\ taken' = Head(queue[p])
          /\ queue' = [queue EXCEPT ![p] = Tail(queue[p])]
          /\ UNCHANGED <<submit, over, canceled, done, runner, ran, stop>>
      BY <1>3, <1>a DEF Dequeue, jobVars, TypeOK
    <2>2. /\ taken' = queue[p][1] /\ 1 \in 1..Len(queue[p])
          /\ \A i \in 1..Len(queue'[p]) : i + 1 \in 1..Len(queue[p]) /\ queue'[p][i] = queue[p][i + 1]
      BY <1>a, <2>1, TailFacts DEF TypeOK
    <2>3. \A o \in Priorities : o # p => queue'[o] = queue[o]
      BY <1>a, <2>1 DEF TypeOK
    <2>4. \A o \in Priorities : \A i \in 1..Len(queue'[o]) : ~done[queue'[o][i]]
      BY <2>2, <2>3 DEF DoneMeans
    <2>5. DoneMeans'
      BY <2>1, <2>2, <2>4 DEF DoneMeans, Begun
    <2> QED
      BY <2>1, <2>5 DEF RanMeans, ReturnMeans
  <1>4. ASSUME DropsTaken \/ Skip PROVE PromiseInv'
    <2>1. /\ taken \in Jobs /\ taken' = NoJob /\ Begun(taken) /\ runner[taken] = "none"
          /\ done' = [done EXCEPT ![taken] = TRUE]
          /\ over[taken] \/ stop
          /\ UNCHANGED <<submit, over, canceled, runner, ran, queue, stop>>
      BY <1>4, <1>a DEF DropsTaken, Skip, OnePlace, InHand, TypeOK, ReturnMeans
    <2>2. \A o \in Priorities : \A i \in 1..Len(queue[o]) : queue[o][i] # taken
      BY <1>a DEF OnePlace, InQueue
    <2>3. \A o \in Priorities : \A i \in 1..Len(queue'[o]) : ~done'[queue'[o][i]]
      BY <1>a, <1>b, <2>1, <2>2 DEF DoneMeans, TypeOK
    <2>4. \A x \in Jobs : done'[x] => Begun(x)' /\ x # taken' /\ runner'[x] \notin {"start", "job"}
                                      /\ (ran'[x] \/ over'[x] \/ stop')
      BY <1>a, <2>1, SchedulerAssumption DEF DoneMeans, Begun, TypeOK
    <2>5. RanMeans' /\ ReturnMeans'
      BY <1>a, <2>1 DEF RanMeans, ReturnMeans, TypeOK
    <2> QED
      BY <2>3, <2>4, <2>5 DEF DoneMeans
  <1>5. ASSUME Start PROVE PromiseInv'
    <2>1. /\ taken \in Jobs /\ taken' = NoJob /\ runner[taken] = "none" /\ ~done[taken]
          /\ runner' = [runner EXCEPT ![taken] = "start"]
          /\ UNCHANGED <<submit, over, canceled, done, ran, queue, stop>>
      BY <1>5, <1>a DEF Start, OnePlace, InHand, TypeOK, DoneMeans
    <2>2. \A x \in Jobs : done'[x] => Begun(x)' /\ x # taken' /\ runner'[x] \notin {"start", "job"}
                                      /\ (ran'[x] \/ over'[x] \/ stop')
      BY <1>a, <2>1, SchedulerAssumption DEF DoneMeans, Begun, TypeOK
    <2>3. RanMeans'
      BY <1>a, <2>1 DEF RanMeans, TypeOK
    <2> QED
      BY <2>1, <2>2, <2>3 DEF DoneMeans, ReturnMeans
  <1>6. ASSUME NEW j \in Jobs, RunStep(j) PROVE PromiseInv'
    <2>1. /\ UNCHANGED <<submit, over, canceled, queue, taken, stop>>
          /\ runner[j] \notin {"none"} /\ Begun(j)
      BY <1>6, <1>a DEF RunStep, RunJob, JobEnds, ReleaseSlot, OnePlace, Running
    <2>2. \A o \in Priorities : \A i \in 1..Len(queue[o]) : queue[o][i] # j
      BY <1>a, <2>1 DEF OnePlace, InQueue
    <2>3. j # taken
      BY <1>a, <2>1, SchedulerAssumption DEF OnePlace, InHand
    <2>4. /\ \A x \in Jobs : x # j => done'[x] = done[x] /\ runner'[x] = runner[x] /\ ran'[x] = ran[x]
          /\ done'[j] => runner'[j] \in {"release", "gone"}
          /\ done'[j] => ran'[j] \/ over[j] \/ stop
          /\ done[j] => done'[j]
          /\ runner'[j] \in {"none", "start"} => ~ran'[j]
          /\ runner'[j] = "job" => ran'[j]
      BY <1>6, <1>a DEF RunStep, RunJob, JobEnds, ReleaseSlot, RunnerGoto, TypeOK,
                        DoneMeans, RanMeans, ReturnMeans
    <2>5. \A o \in Priorities : \A i \in 1..Len(queue'[o]) : ~done'[queue'[o][i]]
      BY <1>b, <2>1, <2>2, <2>4 DEF DoneMeans
    <2>6. \A x \in Jobs : done'[x] => Begun(x)' /\ x # taken' /\ runner'[x] \notin {"start", "job"}
                                      /\ (ran'[x] \/ over'[x] \/ stop')
      BY <2>1, <2>3, <2>4 DEF DoneMeans, Begun
    <2>7. RanMeans' /\ ReturnMeans'
      BY <2>1, <2>4 DEF RanMeans, ReturnMeans
    <2> QED
      BY <2>5, <2>6, <2>7 DEF DoneMeans
  <1>7. ASSUME NEW j \in Jobs, ContextEnds(j) PROVE PromiseInv'
    BY <1>7, <1>a DEF ContextEnds, DoneMeans, RanMeans, ReturnMeans, Begun, TypeOK
  <1>8. ASSUME \/ SeesStop \/ Reserve \/ HighEmpty \/ NothingQueued \/ ReserveAgain
               \/ Stop \/ StopReturns \/ UNCHANGED vars
        PROVE PromiseInv'
    <2>1. UNCHANGED <<submit, over, canceled, done, runner, ran, queue, taken>> /\ (stop => stop')
      BY <1>8 DEF SeesStop, Reserve, HighEmpty, NothingQueued, ReserveAgain,
                  Stop, StopReturns, vars, jobVars
    <2> QED
      BY <2>1 DEF DoneMeans, RanMeans, ReturnMeans, Begun
  <1> QED
    BY <1>1, <1>2, <1>3, <1>4, <1>5, <1>6, <1>7, <1>8 DEF Next, SubmitStep, Dispatch

\* done, ran and the answers of Submit keep their meaning in every reachable state.
THEOREM PromiseInvariance == Spec => []PromiseInv
  <1>1. Init => PromiseInv
    BY SchedulerAssumption DEF Init, PromiseInv, DoneMeans, RanMeans, ReturnMeans
  <1> QED
    BY <1>1, NextPreservesPromise, Invariance, PTL DEF Spec

----------------------------------------------------------------------------
(* The refinement of JobService *)

\* The two functions of the refinement mapping, named.
Calls == [j \in Jobs |-> IF submit[j] \in {"enqueue", "wait"} THEN "waiting" ELSE submit[j]]

Works == [j \in Jobs |-> IF ~ran[j] THEN "none"
                         ELSE IF runner[j] = "job" THEN "running" ELSE "ended"]

\* What becomes of a job function, read off run's goroutine and of ran.
LEMMA WorksCases ==
    ASSUME NEW j \in Jobs, ran[j] \in BOOLEAN
    PROVE  /\ ~ran[j] => Works[j] = "none"
           /\ ran[j] /\ runner[j] = "job" => Works[j] = "running"
           /\ ran[j] /\ runner[j] # "job" => Works[j] = "ended"
  BY DEF Works

\* Every step of the scheduler is a step of JobService or one it does not see.
LEMMA StepsOfService ==
    SchedInv /\ PromiseInv /\ [Next]_vars => [Promise!ServiceNext]_(Promise!serviceVars)
  <1> SUFFICES ASSUME SchedInv, PromiseInv, [Next]_vars
               PROVE  Promise!ServiceNext \/ UNCHANGED <<Calls, Works, over, stop>>
    BY DEF Promise!serviceVars, Calls, Works
  <1>a. TypeOK /\ OnePlace /\ DoneMeans /\ RanMeans /\ ReturnMeans
    BY DEF SchedInv, PromiseInv
  <1>b. ASSUME UNCHANGED <<ran, runner>> PROVE Works' = Works
    BY <1>b DEF Works
  <1>c. ASSUME UNCHANGED submit PROVE Calls' = Calls
    BY <1>c DEF Calls
  <1>d. ASSUME NEW j \in Jobs, NEW stage, submit' = [submit EXCEPT ![j] = stage],
               stage \notin {"enqueue", "wait"}
        PROVE  Calls' = [Calls EXCEPT ![j] = stage]
    BY <1>a, <1>d DEF Calls, TypeOK
  <1>e. ASSUME NEW j \in Jobs,
               \A x \in Jobs : x # j => ran'[x] = ran[x] /\ runner'[x] = runner[x]
        PROVE  Works' = [Works EXCEPT ![j] = Works'[j]]
    BY <1>e DEF Works
  <1>1. ASSUME NEW j \in Jobs, Call(j) PROVE Promise!Submit(j)
    <2>1. Calls[j] = "idle" /\ Calls' = [Calls EXCEPT ![j] = "waiting"]
      BY <1>1, <1>a DEF Call, SubmitGoto, Calls, TypeOK
    <2>2. UNCHANGED <<Works, over, stop>>
      BY <1>1, <1>b DEF Call
    <2> QED
      BY <2>1, <2>2 DEF Promise!Submit, Calls, Works
  <1>2. ASSUME NEW j \in Jobs, Enqueue(j) PROVE UNCHANGED <<Calls, Works, over, stop>>
    <2>1. Calls' = Calls
      BY <1>2, <1>a DEF Enqueue, SubmitGoto, Calls, TypeOK
    <2> QED
      BY <1>2, <1>b, <2>1 DEF Enqueue
  <1>3. ASSUME NEW j \in Jobs, SubmitReturns(j) PROVE Promise!Return(j)
    <2>1. Calls[j] = "waiting" /\ Calls' = [Calls EXCEPT ![j] = "nil"]
      BY <1>3, <1>d DEF SubmitReturns, SubmitGoto, Calls
    <2>2. UNCHANGED <<Works, over, stop>>
      BY <1>3, <1>b DEF SubmitReturns
    <2>3. runner[j] # "job" /\ (ran[j] \/ over[j] \/ stop) /\ ran[j] \in BOOLEAN
      BY <1>3, <1>a DEF SubmitReturns, DoneMeans, TypeOK
    <2>4. Works[j] = "ended" \/ (Works[j] = "none" /\ (over[j] \/ stop))
      BY <2>3, WorksCases
    <2> QED
      BY <2>1, <2>2, <2>4 DEF Promise!Return, Promise!ReturnsNil, Calls, Works
  <1>4. ASSUME NEW j \in Jobs, SubmitCanceled(j) \/ SubmitStopped(j) PROVE Promise!Return(j)
    <2>1. /\ Calls[j] = "waiting"
          /\ \/ over[j] /\ Calls' = [Calls EXCEPT ![j] = "context_error"]
             \/ stop /\ Calls' = [Calls EXCEPT ![j] = "stopped"]
      BY <1>4, <1>d DEF SubmitCanceled, SubmitStopped, SubmitGoto, Calls
    <2>2. UNCHANGED <<Works, over, stop>>
      BY <1>4, <1>b DEF SubmitCanceled, SubmitStopped
    <2> QED
      BY <2>1, <2>2 DEF Promise!Return, Promise!ReturnsError, Calls, Works
  <1>5. ASSUME NEW j \in Jobs, RunJob(j), canceled[j] \/ over[j]
        PROVE  UNCHANGED <<Calls, Works, over, stop>>
    <2>1. UNCHANGED <<submit, over, stop, ran>> /\ ~ran[j] /\ ran[j] \in BOOLEAN
      BY <1>5, <1>a DEF RunJob, RanMeans, TypeOK
    <2>2. \A x \in Jobs : x # j => ran'[x] = ran[x] /\ runner'[x] = runner[x]
      BY <1>5, <1>a, <2>1 DEF RunJob, RunnerGoto, TypeOK
    <2>3. Works'[j] = Works[j]
      BY <2>1 DEF Works
    <2>4. Works' = Works
      BY <2>2, <2>3 DEF Works
    <2> QED
      BY <1>c, <2>1, <2>4
  <1>6. ASSUME NEW j \in Jobs, RunJob(j), ~(canceled[j] \/ over[j]) PROVE Promise!Begin(j)
    <2>1. /\ UNCHANGED <<submit, over, stop>>
          /\ runner[j] = "start" /\ runner'[j] = "job" /\ ~ran[j] /\ ran'[j]
          /\ \A x \in Jobs : x # j => ran'[x] = ran[x] /\ runner'[x] = runner[x]
      BY <1>6, <1>a DEF RunJob, RunnerGoto, RanMeans, TypeOK
    <2>2. submit[j] \in {"wait", "stopped"}
      BY <1>6, <1>a, <2>1 DEF OnePlace, Running, Begun, DoneMeans, ReturnMeans, TypeOK, Returned
    <2>3. Calls[j] \in {"waiting", "stopped"}
      BY <2>2 DEF Calls
    <2>4. Works[j] = "none" /\ Works'[j] = "running"
      BY <2>1 DEF Works
    <2>5. Works' = [Works EXCEPT ![j] = "running"]
      BY <1>e, <2>1, <2>4
    <2> QED
      BY <1>6, <1>c, <2>1, <2>3, <2>4, <2>5 DEF Promise!Begin, Calls, Works
  <1>7. ASSUME NEW j \in Jobs, JobEnds(j) PROVE Promise!End(j)
    <2>1. /\ UNCHANGED <<submit, over, stop, ran>>
          /\ runner[j] = "job" /\ runner'[j] = "release" /\ ran[j]
          /\ \A x \in Jobs : x # j => ran'[x] = ran[x] /\ runner'[x] = runner[x]
      BY <1>7, <1>a DEF JobEnds, RunnerGoto, RanMeans, TypeOK
    <2>2. Works[j] = "running" /\ Works'[j] = "ended"
      BY <2>1 DEF Works
    <2>3. Works' = [Works EXCEPT ![j] = "ended"]
      BY <1>e, <2>1, <2>2
    <2> QED
      BY <1>c, <2>1, <2>2, <2>3 DEF Promise!End, Calls, Works
  <1>8. ASSUME NEW j \in Jobs, ReleaseSlot(j) PROVE UNCHANGED <<Calls, Works, over, stop>>
    <2>1. /\ UNCHANGED <<submit, over, stop, ran>>
          /\ runner[j] # "job" /\ runner'[j] # "job"
          /\ \A x \in Jobs : x # j => runner'[x] = runner[x]
      BY <1>8, <1>a DEF ReleaseSlot, RunnerGoto, TypeOK
    <2>2. Works' = Works
      BY <2>1 DEF Works
    <2> QED
      BY <1>c, <2>1, <2>2
  <1>9. ASSUME NEW j \in Jobs, ContextEnds(j) PROVE Promise!EndContext(j)
    <2>1. UNCHANGED <<Calls, Works, stop>>
      BY <1>9, <1>b, <1>c DEF ContextEnds
    <2>2. Calls[j] # "idle"
      BY <1>9 DEF ContextEnds, Calls
    <2> QED
      BY <1>9, <2>1, <2>2 DEF ContextEnds, Promise!EndContext, Calls, Works
  <1>10. ASSUME NEW p \in Priorities, Dequeue(p) PROVE UNCHANGED <<Calls, Works, over, stop>>
    BY <1>10, <1>b, <1>c DEF Dequeue, jobVars
  <1>11. ASSUME Start PROVE UNCHANGED <<Calls, Works, over, stop>>
    <2>1. /\ UNCHANGED <<submit, over, stop, ran>>
          /\ taken \in Jobs /\ runner[taken] # "job" /\ runner'[taken] # "job"
          /\ \A x \in Jobs : x # taken => runner'[x] = runner[x]
      BY <1>11, <1>a DEF Start, OnePlace, InHand, TypeOK
    <2>2. Works' = Works
      BY <2>1 DEF Works
    <2> QED
      BY <1>c, <2>1, <2>2
  <1>12. ASSUME \/ SeesStop \/ Reserve \/ HighEmpty \/ NothingQueued \/ ReserveAgain
                \/ DropsTaken \/ Skip \/ StopReturns \/ UNCHANGED vars
         PROVE  UNCHANGED <<Calls, Works, over, stop>>
    BY <1>12, <1>b, <1>c DEF SeesStop, Reserve, HighEmpty, NothingQueued, ReserveAgain,
                             DropsTaken, Skip, StopReturns, vars, jobVars
  <1>13. ASSUME Stop PROVE Promise!CallStop
    <2>1. UNCHANGED <<Calls, Works, over>> /\ stop' = TRUE
      BY <1>13, <1>b, <1>c DEF Stop, jobVars
    <2> QED
      BY <2>1 DEF Promise!CallStop, Calls, Works
  <1> QED
    BY <1>1, <1>2, <1>3, <1>4, <1>5, <1>6, <1>7, <1>8, <1>9, <1>10, <1>11, <1>12, <1>13
       DEF Next, SubmitStep, RunStep, Dispatch, Promise!ServiceNext

\* scheduler.go:56-144: the scheduler implements the safety part of JobService,
\* for any number of jobs, slots and queue places: a job is called at most once
\* and never after its context has ended; nil means that it is over, or that
\* the context or the scheduler ended first.
THEOREM ImplementsServiceSafety == Spec => Promise!ServiceSafety
  <1>1. Init => Promise!ServiceInit
    BY DEF Init, Promise!ServiceInit
  <1> QED
    BY <1>1, StepsOfService, Invariance, PromiseInvariance, PTL DEF Spec, Promise!ServiceSafety

----------------------------------------------------------------------------
(***************************************************************************)
(* Nobody waits for ever on everybody.  Liveness is TLC's; what carries it *)
(* is that no job gets lost between its Submit and its goroutine, that the *)
(* dispatcher exits only after Stop, and that slots are accounted for.     *)
(***************************************************************************)
Queued(j) == \E p \in Priorities : \E i \in 1..Len(queue[p]) : queue[p][i] = j

Placed(j) == Queued(j) \/ taken = j \/ runner[j] \in {"start", "job"}

NoneLost == \A j \in Jobs : submit[j] = "wait" => done[j] \/ Placed(j)

StopSeen == dispatcher = "exited" \/ stopper # "idle" => stop

PlaceInv == NoneLost /\ StopSeen

\* A step that leaves the places of jobs and their done channels alone, and
\* makes no Submit wait, loses no job.
LEMMA PlacesKept ==
    ASSUME TypeOK, NoneLost, UNCHANGED <<queue, taken, runner, done>>,
           \A j \in Jobs : submit'[j] = "wait" => submit[j] = "wait"
    PROVE  NoneLost'
  <1>1. \A j \in Jobs : Placed(j) => Placed(j)'
    BY DEF Placed, Queued
  <1> QED
    BY <1>1 DEF NoneLost

\* A job goes from a queue to the dispatcher's hand, to its goroutine, to done.
LEMMA NextKeepsJobs == SchedInv /\ NoneLost /\ [Next]_vars => NoneLost'
  <1> SUFFICES ASSUME SchedInv, NoneLost, [Next]_vars PROVE NoneLost'
    OBVIOUS
  <1>a. TypeOK /\ OnePlace
    BY DEF SchedInv
  <1>1. ASSUME NEW j \in Jobs, Enqueue(j) PROVE NoneLost'
    <2> DEFINE p == priority[j]
               n == Len(queue[p])
    <2>1. /\ p \in Priorities /\ queue[p] \in Seq(Jobs)
          /\ queue' = [queue EXCEPT ![p] = Append(queue[p], j)]
          /\ \A x \in Jobs : x # j => submit'[x] = submit[x]
          /\ UNCHANGED <<done, runner, taken>>
      BY <1>1, <1>a DEF Enqueue, SubmitGoto, TypeOK
    <2>2. /\ queue'[p] = Append(queue[p], j)
          /\ \A o \in Priorities : o # p => queue'[o] = queue[o]
      BY <1>a, <2>1 DEF TypeOK
    <2>3. /\ Len(queue'[p]) = n + 1 /\ n \in Nat /\ queue'[p][n + 1] = j
          /\ \A i \in 1..n : i \in 1..Len(queue'[p]) /\ queue'[p][i] = queue[p][i]
      BY <2>1, <2>2
    <2>4. Queued(j)'
      <3>1. n + 1 \in 1..Len(queue'[p])
        BY <2>3
      <3> QED
        BY <2>1, <2>3, <3>1 DEF Queued
    <2>5. \A x \in Jobs : Queued(x) => Queued(x)'
      BY <2>2, <2>3 DEF Queued
    <2>6. \A x \in Jobs : Placed(x) => Placed(x)'
      BY <2>1, <2>5 DEF Placed
    <2> QED
      BY <2>1, <2>4, <2>6 DEF NoneLost, Placed
  <1>2. ASSUME NEW p \in Priorities, Dequeue(p) PROVE NoneLost'
    <2>1. /\ queue[p] \in Seq(Jobs) /\ queue[p] # <<>>
          /\ taken' = Head(queue[p]) /\ taken = NoJob
          /\ queue' = [queue EXCEPT ![p] = Tail(queue[p])]
          /\ UNCHANGED <<submit, done, runner>>
      BY <1>2, <1>a DEF Dequeue, jobVars, TypeOK, OnePlace, InHand
    <2>2. /\ taken' = queue[p][1] /\ Len(queue[p]) \in Nat
          /\ Len(Tail(queue[p])) = Len(queue[p]) - 1
          /\ \A i \in 1..Len(Tail(queue[p])) : Tail(queue[p])[i] = queue[p][i + 1]
      BY <2>1, TailFacts
    <2>3. /\ queue'[p] = Tail(queue[p])
          /\ \A o \in Priorities : o # p => queue'[o] = queue[o]
      BY <1>a, <2>1 DEF TypeOK
    <2>4. ASSUME NEW x \in Jobs, Queued(x) PROVE Queued(x)' \/ taken' = x
      <3>a. PICK o \in Priorities : \E i \in 1..Len(queue[o]) : queue[o][i] = x
        BY <2>4 DEF Queued
      <3>1. PICK i \in 1..Len(queue[o]) : queue[o][i] = x
        BY <3>a
      <3>2. CASE o # p
        BY <2>3, <3>1, <3>2 DEF Queued
      <3>3. CASE o = p /\ i = 1
        BY <2>2, <3>1, <3>3
      <3>4. CASE o = p /\ i # 1
        <4>1. i - 1 \in 1..Len(queue'[p]) /\ queue'[p][i - 1] = x
          BY <2>2, <2>3, <3>1, <3>4
        <4> QED
          BY <4>1 DEF Queued
      <3> QED
        BY <3>2, <3>3, <3>4
    <2>5. \A x \in Jobs : Placed(x) => Placed(x)'
      BY <2>1, <2>4, SchedulerAssumption DEF Placed
    <2> QED
      BY <2>1, <2>5 DEF NoneLost
  <1>3. ASSUME DropsTaken \/ Skip \/ Start PROVE NoneLost'
    <2>1. /\ taken \in Jobs
          /\ \A x \in Jobs : x # taken => runner'[x] = runner[x] /\ done'[x] = done[x]
          /\ done'[taken] \/ runner'[taken] = "start"
          /\ UNCHANGED <<submit, queue>>
      BY <1>3, <1>a DEF DropsTaken, Skip, Start, OnePlace, InHand, TypeOK
    <2>2. \A x \in Jobs : Queued(x) => Queued(x)'
      BY <2>1 DEF Queued
    <2>3. \A x \in Jobs : x # taken /\ Placed(x) => Placed(x)'
      BY <2>1, <2>2 DEF Placed
    <2>4. \A x \in Jobs : x = taken => done'[x] \/ Placed(x)'
      BY <2>1 DEF Placed
    <2> QED
      BY <2>1, <2>3, <2>4 DEF NoneLost
  <1>4. ASSUME NEW j \in Jobs, RunStep(j) PROVE NoneLost'
    <2>1. /\ \A x \in Jobs : x # j => runner'[x] = runner[x] /\ done'[x] = done[x]
          /\ done'[j] \/ runner'[j] = "job" \/ (runner[j] = "release" /\ done'[j] = done[j])
          /\ UNCHANGED <<submit, queue, taken>>
      BY <1>4, <1>a DEF RunStep, RunJob, JobEnds, ReleaseSlot, RunnerGoto, TypeOK
    <2>2. \A x \in Jobs : Queued(x) => Queued(x)'
      BY <2>1 DEF Queued
    <2>3. \A x \in Jobs : x # j /\ Placed(x) => Placed(x)'
      BY <2>1, <2>2 DEF Placed
    <2>4. runner[j] = "release" => (Placed(j) => Placed(j)')
      BY <2>1, <2>2 DEF Placed
    <2>5. runner'[j] = "job" => Placed(j)'
      BY DEF Placed
    <2> QED
      BY <2>1, <2>3, <2>4, <2>5 DEF NoneLost
  <1>5. ASSUME NEW j \in Jobs,
               Call(j) \/ SubmitReturns(j) \/ SubmitCanceled(j) \/ SubmitStopped(j)
        PROVE NoneLost'
    <2>1. UNCHANGED <<queue, taken, runner, done>>
      BY <1>5 DEF Call, SubmitReturns, SubmitCanceled, SubmitStopped
    <2>2. \A x \in Jobs : submit'[x] = "wait" => submit[x] = "wait"
      BY <1>5, <1>a DEF Call, SubmitReturns, SubmitCanceled, SubmitStopped, SubmitGoto, TypeOK
    <2> QED
      BY <1>a, <2>1, <2>2, PlacesKept
  <1>6. ASSUME \/ \E j \in Jobs : ContextEnds(j)
               \/ SeesStop \/ Reserve \/ HighEmpty \/ NothingQueued \/ ReserveAgain
               \/ Stop \/ StopReturns \/ UNCHANGED vars
        PROVE NoneLost'
    <2>1. UNCHANGED <<submit, queue, taken, runner, done>>
      BY <1>6 DEF ContextEnds, SeesStop, Reserve, HighEmpty, NothingQueued, ReserveAgain,
                  Stop, StopReturns, vars, jobVars
    <2> QED
      BY <1>a, <2>1, PlacesKept
  <1> QED
    BY <1>1, <1>2, <1>3, <1>4, <1>5, <1>6 DEF Next, SubmitStep, Dispatch

\* The dispatcher exits only in the stop case of a select.
LEMMA NextKeepsStopSeen == TypeOK /\ StopSeen /\ [Next]_vars => StopSeen'
  <1> SUFFICES ASSUME TypeOK, StopSeen, [Next]_vars PROVE StopSeen'
    OBVIOUS
  <1>1. ASSUME NEW j \in Jobs, Call(j) \/ SubmitStep(j) \/ RunStep(j) \/ ContextEnds(j)
        PROVE UNCHANGED <<dispatcher, stop, stopper>>
    BY <1>1 DEF Call, SubmitStep, Enqueue, SubmitReturns, SubmitCanceled, SubmitStopped,
                RunStep, RunJob, JobEnds, ReleaseSlot, ContextEnds
  <1>2. ASSUME NEW p \in Priorities, Dequeue(p) PROVE StopSeen'
    BY <1>2 DEF Dequeue, StopSeen
  <1>3. ASSUME Reserve \/ HighEmpty \/ NothingQueued \/ ReserveAgain \/ Skip \/ Start
        PROVE StopSeen'
    BY <1>3 DEF Reserve, HighEmpty, NothingQueued, ReserveAgain, Skip, Start, StopSeen
  <1>4. ASSUME SeesStop \/ DropsTaken \/ Stop \/ StopReturns \/ UNCHANGED vars PROVE StopSeen'
    BY <1>4 DEF SeesStop, DropsTaken, Stop, StopReturns, vars, StopSeen
  <1> QED
    BY <1>1, <1>2, <1>3, <1>4 DEF Next, Dispatch, StopSeen

\* scheduler.go:56-144: a job whose Submit waits is queued, in the dispatcher's
\* hand, with its goroutine, or done; the dispatcher exits after Stop only.
THEOREM NoJobLost == Spec => []PlaceInv
  <1>1. Init => PlaceInv
    BY DEF Init, PlaceInv, NoneLost, StopSeen
  <1>2. SchedInv /\ PlaceInv /\ [Next]_vars => PlaceInv'
    BY NextKeepsJobs, NextKeepsStopSeen DEF PlaceInv, SchedInv
  <1> QED
    BY <1>1, <1>2, Invariance, PTL DEF Spec

\* Some case of the select that each of them is at is ready: the guards of
\* SubmitStep(j), of Dispatch and of StopReturns.  RunStep(j) is ready for every
\* job in Holders.
SubmitReady(j) ==
    \/ submit[j] = "enqueue" /\ (Len(queue[priority[j]]) < QueueSize \/ over[j] \/ stop)
    \/ submit[j] = "wait" /\ (done[j] \/ over[j] \/ stop)

DispatchReady ==
    \/ dispatcher \in {"try", "retry", "look", "check"}
    \/ dispatcher \in {"reserve", "reserve_again"} /\ (sem < MaxConcurrency \/ stop)
    \/ dispatcher = "block" /\ (stop \/ \E p \in Priorities : queue[p] # <<>>)

StopReady == dispatcher = "exited" /\ \A j \in Jobs : runner[j] \in {"none", "gone"}

\* A dispatcher that can do nothing has exited, has all queues empty, or waits
\* for a slot that a goroutine holds.
LEMMA IdleDispatcher ==
    ASSUME SchedInv, StopSeen, ~DispatchReady, Holders = {}
    PROVE  \/ dispatcher = "exited" /\ stop
           \/ dispatcher = "block" /\ ~stop /\ \A p \in Priorities : queue[p] = <<>>
  <1>1. TypeOK /\ sem = Cardinality(Holders) + HoldsOne
    BY DEF SchedInv, SlotsAccounted, HoldsOne
  <1>2. Cardinality(Holders) = 0
    BY FS_EmptySet
  <1>3. ASSUME dispatcher \in {"reserve", "reserve_again"} PROVE FALSE
    <2>1. sem = 0
      BY <1>1, <1>2, <1>3 DEF HoldsOne
    <2>2. 0 < MaxConcurrency
      BY SchedulerAssumption
    <2> QED
      BY <1>3, <2>1, <2>2 DEF DispatchReady
  <1>4. dispatcher \in {"block", "exited"}
    BY <1>1, <1>3 DEF TypeOK, DispatchReady
  <1> QED
    BY <1>4 DEF DispatchReady, StopSeen

\* scheduler.go:56-134: while a Submit has not returned, it, the dispatcher or a
\* goroutine with a slot can go on; while Stop waits, the dispatcher or a
\* goroutine can, or Stop returns.  No choice of queue size and slots makes
\* them wait on each other.
THEOREM NobodyWaitsOnEverybody ==
    Spec => [](/\ \A j \in Jobs : submit[j] \in {"enqueue", "wait"} =>
                     SubmitReady(j) \/ DispatchReady \/ Holders # {}
               /\ stopper = "wait" => StopReady \/ DispatchReady \/ Holders # {})
  <1>1. ASSUME SchedInv, PlaceInv, NEW j \in Jobs, submit[j] \in {"enqueue", "wait"},
               ~DispatchReady, Holders = {}
        PROVE  SubmitReady(j)
    <2>a. TypeOK /\ OnePlace /\ NoneLost /\ StopSeen
      BY <1>1 DEF SchedInv, PlaceInv
    <2>b. priority[j] \in Priorities
      BY <2>a DEF TypeOK
    <2>1. CASE dispatcher = "exited" /\ stop
      BY <1>1, <2>1 DEF SubmitReady
    <2>2. CASE dispatcher = "block" /\ ~stop /\ \A p \in Priorities : queue[p] = <<>>
      <3>1. Len(queue[priority[j]]) < QueueSize
        <4>1. queue[priority[j]] = <<>>
          BY <2>b, <2>2
        <4>2. Len(<<>>) = 0 /\ 0 < QueueSize
          BY SchedulerAssumption
        <4> QED
          BY <4>1, <4>2
      <3>2. ~Queued(j)
        BY <2>2 DEF Queued
      <3>3. taken # j
        BY <2>a, <2>2, SchedulerAssumption DEF OnePlace, InHand
      <3>4. runner[j] \notin {"start", "job"}
        BY <1>1 DEF Holders
      <3>5. ~Placed(j)
        BY <3>2, <3>3, <3>4 DEF Placed
      <3>6. submit[j] = "wait" => done[j]
        BY <2>a, <3>5 DEF NoneLost
      <3> QED
        BY <1>1, <3>1, <3>6 DEF SubmitReady
    <2> QED
      BY <1>1, <2>a, <2>1, <2>2, IdleDispatcher
  <1>2. ASSUME SchedInv, PlaceInv, stopper = "wait", ~DispatchReady, Holders = {} PROVE StopReady
    <2>1. TypeOK /\ StopSeen /\ stop
      BY <1>2 DEF SchedInv, PlaceInv, StopSeen
    <2>2. dispatcher = "exited"
      BY <1>2, <2>1, IdleDispatcher
    <2>3. \A j \in Jobs : runner[j] \in {"none", "gone"}
      BY <1>2, <2>1 DEF Holders, TypeOK
    <2> QED
      BY <2>2, <2>3 DEF StopReady
  <1>3. SchedInv /\ PlaceInv =>
          /\ \A j \in Jobs : submit[j] \in {"enqueue", "wait"} =>
                SubmitReady(j) \/ DispatchReady \/ Holders # {}
          /\ stopper = "wait" => StopReady \/ DispatchReady \/ Holders # {}
    BY <1>1, <1>2
  <1> QED
    BY <1>3, Invariance, NoJobLost, PTL
============================================================================
