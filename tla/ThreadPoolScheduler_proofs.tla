--------------------- MODULE ThreadPoolScheduler_proofs ---------------------
(***************************************************************************)
(* Proofs about ThreadPoolScheduler for any number of tasks, threads and   *)
(* any clock.                                                              *)
(***************************************************************************)
EXTENDS ThreadPoolScheduler, FiniteSetTheorems, TLAPS

(* The step of each thread, without the operators that only group them. *)
ClientStep ==
  \/ \E t \in Tasks : ScheduleTask(t)
  \/ \E t \in Tasks, d \in Delays : PushTimer(t, d)
  \/ Pause
  \/ Resume
  \/ \E max \in Limits : SetMaxConcurrent(max)

OwnerStep ==
  \/ Start
  \/ \E size \in Workers : SetThreadPoolSize(size)
  \/ StopBegin
  \/ StopSteps

WorkerStep == \E w \in Workers : Worker(w) \/ SpuriousWakeup(w)

(* Every step of the specification is one of these. *)
LEMMA StepCases ==
  ASSUME [Next]_vars
  PROVE  ClientStep \/ OwnerStep \/ WorkerStep \/ Timer \/ Tick \/ UNCHANGED vars
  BY DEF Next, Submit, Threads, ScheduleAfter, ScheduleEvery,
         ClientStep, OwnerStep, WorkerStep

(* The busy workers are finitely many. *)
LEMMA BusyFinite ==
  /\ IsFiniteSet(Workers)
  /\ IsFiniteSet(Busy)
  /\ Cardinality(Busy) \in Nat
  <1>1. IsFiniteSet(Workers)
    BY FS_Interval, SchedulerAssumption DEF Workers
  <1>2. Busy \in SUBSET Workers
    BY DEF Busy
  <1>3. IsFiniteSet(Busy)
    BY <1>1, <1>2, FS_Subset
  <1> QED
    BY <1>1, <1>3, FS_CardinalityType

(* A worker that still holds its slot keeps active_tasks_ above zero. *)
LEMMA BusyPositive ==
  ASSUME NEW w \in Busy
  PROVE  Cardinality(Busy) > 0
  BY BusyFinite, FS_EmptySet

(* notify_one and notify_all only move sleeping workers back to the test. *)
LEMMA NotifyOneEffect ==
  ASSUME wpc \in [Workers -> WorkerPC], NotifyOne(0)
  PROVE  /\ wpc' \in [Workers -> WorkerPC]
         /\ \A w \in Workers : wpc'[w] = wpc[w] \/ (wpc[w] = "waiting" /\ wpc'[w] = "ready")
  <1>1. 0 \notin Workers
    BY SchedulerAssumption DEF Workers
  <1>2. \/ Waiting = {} /\ wpc' = wpc
        \/ \E v \in Waiting : wpc' = [wpc EXCEPT ![v] = "ready"]
    BY <1>1 DEF NotifyOne
  <1> QED
    BY <1>2 DEF Waiting, WorkerPC

(* A releasing worker goes to the top of its loop and wakes at most one other. *)
LEMMA ReleaseNotifyEffect ==
  ASSUME wpc \in [Workers -> WorkerPC], NEW v \in Workers, wpc[v] = "ran", NotifyOne(v)
  PROVE  /\ wpc' \in [Workers -> WorkerPC]
         /\ wpc'[v] = "ready"
         /\ \A w \in Workers \ {v} :
              wpc'[w] = wpc[w] \/ (wpc[w] = "waiting" /\ wpc'[w] = "ready")
  BY DEF NotifyOne, Waiting, WorkerPC

(* notify_all wakes sleepers and moves nobody else. *)
LEMMA NotifyAllEffect ==
  ASSUME wpc \in [Workers -> WorkerPC], NotifyAll
  PROVE  /\ wpc' \in [Workers -> WorkerPC]
         /\ \A w \in Workers : wpc'[w] = wpc[w] \/ (wpc[w] = "waiting" /\ wpc'[w] = "ready")
  BY DEF NotifyAll, WorkerPC

-----------------------------------------------------------------------------
(* Type correctness.  That active_tasks_ stays a natural number needs the  *)
(* count of busy workers, hence ActiveCountsBusyWorkers.                   *)

(* The constructor leaves every variable in its type. *)
LEMMA TypeInit == Init => TypeOK
  <1> SUFFICES ASSUME Init PROVE TypeOK
    OBVIOUS
  <1>1. /\ worker_threads \in Workers
        /\ nworkers \in 0 .. worker_threads
        /\ max_concurrent \in Nat
        /\ 0 \in Clock
    BY SchedulerAssumption DEF Init, Workers, Clock
  <1>2. /\ wpc \in [Workers -> WorkerPC]
        /\ cur \in [Workers -> Tasks \union {NoTask}]
        /\ deadline \in [Tasks -> Clock]
    BY <1>1 DEF Init, WorkerPC
  <1>3. /\ tasks \in Seq(Tasks)
        /\ timer_queue \subseteq [task : Tasks, expire : Clock]
    BY DEF Init
  <1>4. stop \in BOOLEAN /\ paused \in BOOLEAN /\ timer_running \in BOOLEAN
    BY DEF Init
  <1> QED
    BY <1>1, <1>2, <1>3, <1>4 DEF Init, TypeOK, TimerPC, StopPC

(* The calls of clients keep the types. *)
LEMMA TypeClient ==
  ASSUME TypeOK, ClientStep
  PROVE  TypeOK'
  <1>1. ASSUME NEW t \in Tasks, ScheduleTask(t) PROVE TypeOK'
    <2>1. wpc' \in [Workers -> WorkerPC]
      BY <1>1, NotifyOneEffect DEF ScheduleTask, Push, TypeOK
    <2>2. tasks' \in Seq(Tasks)
      BY <1>1 DEF ScheduleTask, Push, TypeOK
    <2>3. deadline' \in [Tasks -> Clock]
      BY <1>1 DEF ScheduleTask, TypeOK
    <2> QED
      BY <1>1, <2>1, <2>2, <2>3
         DEF ScheduleTask, TypeOK, flag_vars, stat_vars, config_vars, timer_vars
  <1>2. ASSUME NEW t \in Tasks, NEW d \in Delays, PushTimer(t, d) PROVE TypeOK'
    <2>1. now + d \in Clock
      BY <1>2, SchedulerAssumption DEF PushTimer, TypeOK, Clock, Delays
    <2>2. timer_queue' \subseteq [task : Tasks, expire : Clock]
      BY <1>2, <2>1 DEF PushTimer, TypeOK
    <2>3. deadline' \in [Tasks -> Clock]
      BY <1>2, <2>1 DEF PushTimer, TypeOK
    <2>4. tpc' \in TimerPC
      BY <1>2 DEF PushTimer, WakeTimer, TypeOK, TimerPC
    <2> QED
      BY <1>2, <2>2, <2>3, <2>4
         DEF PushTimer, TypeOK, flag_vars, stat_vars, config_vars
  <1>3. ASSUME Pause PROVE TypeOK'
    BY <1>3 DEF Pause, TypeOK, queue_vars, stat_vars, config_vars, timer_vars, hist_vars
  <1>4. ASSUME Resume PROVE TypeOK'
    <2>1. wpc' \in [Workers -> WorkerPC]
      BY <1>4, NotifyAllEffect DEF Resume, TypeOK
    <2> QED
      BY <1>4, <2>1 DEF Resume, TypeOK, queue_vars, stat_vars, config_vars,
                        timer_vars, hist_vars
  <1>5. ASSUME NEW max \in Limits, SetMaxConcurrent(max) PROVE TypeOK'
    BY <1>5, SchedulerAssumption
       DEF SetMaxConcurrent, TypeOK, queue_vars, flag_vars, stat_vars, timer_vars, hist_vars
  <1> QED
    BY <1>1, <1>2, <1>3, <1>4, <1>5 DEF ClientStep

(* Start, Stop and SetThreadPoolSize keep the types. *)
LEMMA TypeOwner ==
  ASSUME TypeOK, OwnerStep
  PROVE  TypeOK'
  <1>1. ASSUME Start PROVE TypeOK'
    <2>1. nworkers' \in 0 .. worker_threads'
      BY <1>1 DEF Start, TypeOK, Workers, config_vars
    <2>2. wpc' \in [Workers -> WorkerPC]
      BY <1>1 DEF Start, WorkerPC
    <2> QED
      BY <1>1, <2>1, <2>2 DEF Start, TypeOK, TimerPC, queue_vars, stat_vars,
                              config_vars, hist_vars
  <1>2. ASSUME NEW size \in Workers, SetThreadPoolSize(size) PROVE TypeOK'
    <2>1. nworkers' \in 0 .. worker_threads'
      BY <1>2 DEF SetThreadPoolSize, TypeOK, Workers
    <2>2. wpc' \in [Workers -> WorkerPC]
      BY <1>2 DEF SetThreadPoolSize, TypeOK, WorkerPC
    <2> QED
      BY <1>2, <2>1, <2>2 DEF SetThreadPoolSize, TypeOK, queue_vars, flag_vars,
                              stat_vars, timer_vars, hist_vars
  <1>3. ASSUME StopBegin PROVE TypeOK'
    <2>1. wpc' \in [Workers -> WorkerPC]
      BY <1>3, NotifyAllEffect DEF StopBegin, TypeOK
    <2>2. at_stop' \subseteq Tasks
      BY <1>3 DEF StopBegin, TypeOK, Queued
    <2> QED
      BY <1>3, <2>1, <2>2 DEF StopBegin, TypeOK, StopPC, queue_vars, stat_vars,
                              config_vars, timer_vars
  <1>4. ASSUME StopJoinWorkers PROVE TypeOK'
    BY <1>4 DEF StopJoinWorkers, TypeOK, StopPC, WorkerPC, queue_vars, flag_vars,
                stat_vars, config_vars, timer_vars, hist_vars, Workers
  <1>5. ASSUME StopTimer PROVE TypeOK'
    BY <1>5 DEF StopTimer, WakeTimer, TypeOK, StopPC, TimerPC, queue_vars,
                stat_vars, config_vars, hist_vars
  <1>6. ASSUME StopJoinTimer PROVE TypeOK'
    BY <1>6 DEF StopJoinTimer, TypeOK, StopPC, TimerPC, queue_vars, flag_vars,
                stat_vars, config_vars, hist_vars
  <1>7. ASSUME StopClearTasks PROVE TypeOK'
    <2>1. dropped' \subseteq Tasks
      BY <1>7 DEF StopClearTasks, TypeOK, Queued
    <2> QED
      BY <1>7, <2>1 DEF StopClearTasks, TypeOK, StopPC, flag_vars, stat_vars,
                        config_vars, timer_vars
  <1>8. ASSUME StopClearTimers PROVE TypeOK'
    <2>1. dropped' \subseteq Tasks
      BY <1>8 DEF StopClearTimers, TypeOK, Delayed
    <2> QED
      BY <1>8, <2>1 DEF StopClearTimers, TypeOK, StopPC, flag_vars, config_vars, timer_vars
  <1> QED
    BY <1>1, <1>2, <1>3, <1>4, <1>5, <1>6, <1>7, <1>8 DEF OwnerStep, StopSteps

(* The steps of workerLoop keep the types; Release needs an active task. *)
LEMMA TypeWorker ==
  ASSUME TypeOK, ThreadsMatchPhase, ActiveCountsBusyWorkers, WorkerStep
  PROVE  TypeOK'
  <1> USE DEF queue_vars, flag_vars, stat_vars, config_vars, timer_vars, hist_vars
  <1> PICK w \in Workers : Worker(w) \/ SpuriousWakeup(w)
    BY DEF WorkerStep
  <1>1. ASSUME TestPredicate(w) PROVE TypeOK'
    BY <1>1 DEF TestPredicate, TypeOK, WorkerPC
  <1>2. ASSUME Block(w) PROVE TypeOK'
    BY <1>2 DEF Block, TypeOK, WorkerPC
  <1>3. ASSUME Exit(w) PROVE TypeOK'
    BY <1>3 DEF Exit, TypeOK, WorkerPC
  <1>4. ASSUME Retry(w) PROVE TypeOK'
    BY <1>4 DEF Retry, TypeOK, WorkerPC
  <1>5. ASSUME Take(w) PROVE TypeOK'
    <2>1. Head(tasks) \in Tasks /\ tasks' \in Seq(Tasks)
      BY <1>5 DEF Take, PopTask, TypeOK
    <2>2. cur' \in [Workers -> Tasks \union {NoTask}] /\ wpc' \in [Workers -> WorkerPC]
      BY <1>5, <2>1 DEF Take, TypeOK, WorkerPC
    <2> QED
      BY <1>5, <2>1, <2>2 DEF Take, CountActive, TypeOK
  <1>6. ASSUME Execute(w) PROVE TypeOK'
    <2>1. cur[w] \in Tasks
      BY <1>6 DEF Execute, TypeOK, ThreadsMatchPhase
    <2> QED
      BY <1>6, <2>1 DEF Execute, TypeOK, WorkerPC
  <1>7. ASSUME Release(w) PROVE TypeOK'
    <2>1. wpc' \in [Workers -> WorkerPC]
      BY <1>7, ReleaseNotifyEffect DEF Release, TypeOK
    <2>2. active > 0
      BY <1>7, BusyPositive DEF Release, Busy, ActiveCountsBusyWorkers
    <2>3. active' \in Nat
      BY <1>7, <2>2 DEF Release, TypeOK
    <2> QED
      BY <1>7, <2>1, <2>3 DEF Release, TypeOK
  <1>8. ASSUME SpuriousWakeup(w) PROVE TypeOK'
    BY <1>8 DEF SpuriousWakeup, TypeOK, WorkerPC
  <1> QED
    BY <1>1, <1>2, <1>3, <1>4, <1>5, <1>6, <1>7, <1>8 DEF Worker

(* The steps of timerLoop keep the types. *)
LEMMA TypeTimer ==
  ASSUME TypeOK, ThreadsMatchPhase, Timer
  PROVE  TypeOK'
  <1> USE DEF queue_vars, flag_vars, stat_vars, config_vars, hist_vars
  <1>1. ASSUME TimerTest PROVE TypeOK'
    BY <1>1 DEF TimerTest, TypeOK, TimerPC
  <1>2. ASSUME TimerWait PROVE TypeOK'
    BY <1>2 DEF TimerWait, TypeOK, TimerPC
  <1>3. ASSUME TimerPop PROVE TypeOK'
    BY <1>3 DEF TimerPop, TypeOK, TimerPC
  <1>4. ASSUME TimerSpin PROVE TypeOK'
    BY <1>4 DEF TimerSpin, TypeOK, TimerPC
  <1>5. ASSUME TimerSubmit PROVE TypeOK'
    <2>1. tcur \in Tasks
      BY <1>5 DEF TimerSubmit, TypeOK, ThreadsMatchPhase
    <2>2. tasks' \in Seq(Tasks)
      BY <1>5, <2>1 DEF TimerSubmit, Push, TypeOK
    <2>3. wpc' \in [Workers -> WorkerPC]
      BY <1>5, NotifyOneEffect DEF TimerSubmit, Push, TypeOK
    <2> QED
      BY <1>5, <2>2, <2>3 DEF TimerSubmit, TypeOK, TimerPC
  <1> QED
    BY <1>1, <1>2, <1>3, <1>4, <1>5 DEF Timer

(* Every step keeps the types. *)
LEMMA TypeStep ==
  ASSUME TypeOK, ThreadsMatchPhase, ActiveCountsBusyWorkers, [Next]_vars
  PROVE  TypeOK'
  <1>1. ASSUME Tick PROVE TypeOK'
    BY <1>1, SchedulerAssumption
       DEF Tick, TypeOK, Clock, queue_vars, flag_vars, stat_vars,
                config_vars, timer_vars, hist_vars
  <1>2. ASSUME UNCHANGED vars PROVE TypeOK'
    BY <1>2 DEF vars, TypeOK
  <1> QED
    BY <1>1, <1>2, StepCases, TypeClient, TypeOwner, TypeWorker, TypeTimer

-----------------------------------------------------------------------------
(* ThreadsMatchPhase *)

(* A new scheduler has no threads. *)
LEMMA PhaseInit == Init => ThreadsMatchPhase
  BY SchedulerAssumption DEF Init, ThreadsMatchPhase, Workers

(* The calls of clients start and end no thread. *)
LEMMA PhaseClient ==
  ASSUME TypeOK, ThreadsMatchPhase, ClientStep
  PROVE  ThreadsMatchPhase'
  <1> USE DEF timer_vars
  <1>1. ASSUME NEW t \in Tasks, ScheduleTask(t) PROVE ThreadsMatchPhase'
    <2>1. \A w \in Workers : wpc'[w] = wpc[w] \/ (wpc[w] = "waiting" /\ wpc'[w] = "ready")
      BY <1>1, NotifyOneEffect DEF ScheduleTask, Push, TypeOK
    <2> QED
      BY <1>1, <2>1 DEF ScheduleTask, ThreadsMatchPhase
  <1>2. ASSUME NEW t \in Tasks, NEW d \in Delays, PushTimer(t, d)
        PROVE  ThreadsMatchPhase'
    BY <1>2 DEF PushTimer, WakeTimer, ThreadsMatchPhase
  <1>3. ASSUME Pause PROVE ThreadsMatchPhase'
    BY <1>3 DEF Pause, ThreadsMatchPhase
  <1>4. ASSUME Resume PROVE ThreadsMatchPhase'
    <2>1. \A w \in Workers : wpc'[w] = wpc[w] \/ (wpc[w] = "waiting" /\ wpc'[w] = "ready")
      BY <1>4, NotifyAllEffect DEF Resume, TypeOK
    <2> QED
      BY <1>4, <2>1 DEF Resume, ThreadsMatchPhase
  <1>5. ASSUME NEW max \in Limits, SetMaxConcurrent(max) PROVE ThreadsMatchPhase'
    BY <1>5 DEF SetMaxConcurrent, ThreadsMatchPhase
  <1> QED
    BY <1>1, <1>2, <1>3, <1>4, <1>5 DEF ClientStep

(* Each phase of Start and Stop leaves the threads the next one expects. *)
LEMMA PhaseOwner ==
  ASSUME TypeOK, ThreadsMatchPhase, OwnerStep
  PROVE  ThreadsMatchPhase'
  <1> USE DEF timer_vars
  <1>1. ASSUME Start PROVE ThreadsMatchPhase'
    <2>1. \A w \in Workers : cur[w] = NoTask
      BY <1>1 DEF Start, TypeOK, ThreadsMatchPhase, Workers
    <2>2. nworkers' = worker_threads /\ worker_threads \in 1 .. MaxThreads
      BY <1>1 DEF Start, TypeOK, Workers
    <2>3. \A w \in Workers : wpc'[w] = IF w <= worker_threads THEN "ready" ELSE "none"
      BY <1>1 DEF Start
    <2>4. /\ \A w \in Workers : wpc'[w] = "none" <=> w > nworkers'
          /\ \A w \in Workers : wpc'[w] = "running" <=> cur'[w] # NoTask
      BY <1>1, <2>1, <2>2, <2>3 DEF Start, Workers
    <2> QED
      BY <1>1, <2>2, <2>4 DEF Start, ThreadsMatchPhase
  <1>2. ASSUME NEW size \in Workers, SetThreadPoolSize(size) PROVE ThreadsMatchPhase'
    BY <1>2 DEF SetThreadPoolSize, TypeOK, ThreadsMatchPhase, Workers
  <1>3. ASSUME StopBegin PROVE ThreadsMatchPhase'
    <2>1. \A w \in Workers : wpc'[w] = wpc[w] \/ (wpc[w] = "waiting" /\ wpc'[w] = "ready")
      BY <1>3, NotifyAllEffect DEF StopBegin, TypeOK
    <2> QED
      BY <1>3, <2>1 DEF StopBegin, ThreadsMatchPhase
  <1>4. ASSUME StopJoinWorkers PROVE ThreadsMatchPhase'
    <2>1. \A w \in Workers : cur[w] = NoTask
      BY <1>4 DEF StopJoinWorkers, TypeOK, ThreadsMatchPhase, Workers
    <2> QED
      BY <1>4, <2>1 DEF StopJoinWorkers, ThreadsMatchPhase, Workers
  <1>5. ASSUME StopTimer PROVE ThreadsMatchPhase'
    BY <1>5 DEF StopTimer, WakeTimer, ThreadsMatchPhase
  <1>6. ASSUME StopJoinTimer PROVE ThreadsMatchPhase'
    BY <1>6 DEF StopJoinTimer, TimerJoinable, ThreadsMatchPhase
  <1>7. ASSUME StopClearTasks PROVE ThreadsMatchPhase'
    BY <1>7 DEF StopClearTasks, ThreadsMatchPhase
  <1>8. ASSUME StopClearTimers PROVE ThreadsMatchPhase'
    BY <1>8 DEF StopClearTimers, ThreadsMatchPhase
  <1> QED
    BY <1>1, <1>2, <1>3, <1>4, <1>5, <1>6, <1>7, <1>8 DEF OwnerStep, StopSteps

(* A worker holds a task exactly while it runs it. *)
LEMMA PhaseWorker ==
  ASSUME TypeOK, ThreadsMatchPhase, WorkerStep
  PROVE  ThreadsMatchPhase'
  <1> USE DEF timer_vars
  <1> PICK w \in Workers : Worker(w) \/ SpuriousWakeup(w)
    BY DEF WorkerStep
  <1>1. ASSUME TestPredicate(w) PROVE ThreadsMatchPhase'
    BY <1>1 DEF TestPredicate, TypeOK, ThreadsMatchPhase
  <1>2. ASSUME Block(w) PROVE ThreadsMatchPhase'
    BY <1>2 DEF Block, TypeOK, ThreadsMatchPhase
  <1>3. ASSUME Exit(w) PROVE ThreadsMatchPhase'
    BY <1>3 DEF Exit, TypeOK, ThreadsMatchPhase
  <1>4. ASSUME Retry(w) PROVE ThreadsMatchPhase'
    BY <1>4 DEF Retry, TypeOK, ThreadsMatchPhase
  <1>5. ASSUME Take(w) PROVE ThreadsMatchPhase'
    <2>1. Head(tasks) # NoTask
      BY <1>5, SchedulerAssumption DEF Take, TypeOK
    <2> QED
      BY <1>5, <2>1 DEF Take, TypeOK, ThreadsMatchPhase
  <1>6. ASSUME Execute(w) PROVE ThreadsMatchPhase'
    BY <1>6 DEF Execute, TypeOK, ThreadsMatchPhase
  <1>7. ASSUME Release(w) PROVE ThreadsMatchPhase'
    <2>1. /\ wpc'[w] = "ready"
          /\ \A v \in Workers \ {w} :
               wpc'[v] = wpc[v] \/ (wpc[v] = "waiting" /\ wpc'[v] = "ready")
      BY <1>7, ReleaseNotifyEffect DEF Release, TypeOK
    <2> QED
      BY <1>7, <2>1 DEF Release, ThreadsMatchPhase
  <1>8. ASSUME SpuriousWakeup(w) PROVE ThreadsMatchPhase'
    BY <1>8 DEF SpuriousWakeup, TypeOK, ThreadsMatchPhase
  <1> QED
    BY <1>1, <1>2, <1>3, <1>4, <1>5, <1>6, <1>7, <1>8 DEF Worker

(* The timer thread holds a task exactly while it submits it. *)
LEMMA PhaseTimer ==
  ASSUME TypeOK, ThreadsMatchPhase, Timer
  PROVE  ThreadsMatchPhase'
  <1>1. ASSUME TimerTest \/ TimerWait \/ TimerSpin PROVE ThreadsMatchPhase'
    BY <1>1 DEF TimerTest, TimerWait, TimerSpin, ThreadsMatchPhase
  <1>2. ASSUME TimerPop PROVE ThreadsMatchPhase'
    <2>1. tcur' # NoTask
      BY <1>2, SchedulerAssumption DEF TimerPop, TypeOK
    <2> QED
      BY <1>2, <2>1 DEF TimerPop, ThreadsMatchPhase
  <1>3. ASSUME TimerSubmit PROVE ThreadsMatchPhase'
    <2>1. \A w \in Workers : wpc'[w] = wpc[w] \/ (wpc[w] = "waiting" /\ wpc'[w] = "ready")
      BY <1>3, NotifyOneEffect DEF TimerSubmit, Push, TypeOK
    <2> QED
      BY <1>3, <2>1 DEF TimerSubmit, ThreadsMatchPhase
  <1> QED
    BY <1>1, <1>2, <1>3 DEF Timer

(* Every step keeps threads and phase together. *)
LEMMA PhaseStep ==
  ASSUME TypeOK, ThreadsMatchPhase, [Next]_vars
  PROVE  ThreadsMatchPhase'
  <1>1. ASSUME Tick \/ UNCHANGED vars PROVE ThreadsMatchPhase'
    BY <1>1 DEF Tick, vars, timer_vars, ThreadsMatchPhase
  <1> QED
    BY <1>1, StepCases, PhaseClient, PhaseOwner, PhaseWorker, PhaseTimer

-----------------------------------------------------------------------------
(* ActiveCountsBusyWorkers: active_tasks_ moves with the set Busy. *)

(* No task is active at first. *)
LEMMA ActiveInit == Init => ActiveCountsBusyWorkers
  <1> SUFFICES ASSUME Init PROVE active = Cardinality(Busy)
    BY DEF ActiveCountsBusyWorkers
  <1>1. Busy = {}
    BY DEF Init, Busy
  <1> QED
    BY <1>1, FS_EmptySet DEF Init

(* A step that leaves the counter and the busy workers alone keeps the count. *)
LEMMA SameBusy ==
  ASSUME ActiveCountsBusyWorkers, active' = active, Busy' = Busy
  PROVE  ActiveCountsBusyWorkers'
  BY DEF ActiveCountsBusyWorkers

(* Take and Release change counter and busy workers together. *)
LEMMA ActiveWorker ==
  ASSUME TypeOK, ActiveCountsBusyWorkers, WorkerStep
  PROVE  ActiveCountsBusyWorkers'
  <1> PICK w \in Workers : Worker(w) \/ SpuriousWakeup(w)
    BY DEF WorkerStep
  <1>1. ASSUME TestPredicate(w) \/ Block(w) \/ Exit(w) \/ Retry(w) \/ SpuriousWakeup(w)
        PROVE  ActiveCountsBusyWorkers'
    <2>1. Busy' = Busy /\ active' = active
      BY <1>1 DEF TestPredicate, Block, Exit, Retry, SpuriousWakeup, Busy, TypeOK
    <2> QED
      BY <2>1, SameBusy
  <1>2. ASSUME Take(w) PROVE ActiveCountsBusyWorkers'
    <2>1. Busy' = Busy \union {w} /\ w \notin Busy
      BY <1>2 DEF Take, Busy, TypeOK
    <2>2. Cardinality(Busy') = Cardinality(Busy) + 1
      BY <2>1, BusyFinite, FS_AddElement
    <2> QED
      BY <1>2, <2>2 DEF Take, CountActive, ActiveCountsBusyWorkers
  <1>3. ASSUME Execute(w) PROVE ActiveCountsBusyWorkers'
    <2>1. Busy' = Busy /\ active' = active
      BY <1>3 DEF Execute, Busy, TypeOK
    <2> QED
      BY <2>1, SameBusy
  <1>4. ASSUME Release(w) PROVE ActiveCountsBusyWorkers'
    <2>1. /\ wpc'[w] = "ready"
          /\ \A v \in Workers \ {w} :
               wpc'[v] = wpc[v] \/ (wpc[v] = "waiting" /\ wpc'[v] = "ready")
      BY <1>4, ReleaseNotifyEffect DEF Release, TypeOK
    <2>2. Busy' = Busy \ {w} /\ w \in Busy
      BY <1>4, <2>1 DEF Release, Busy
    <2>3. Cardinality(Busy') = Cardinality(Busy) - 1
      BY <2>2, BusyFinite, FS_RemoveElement
    <2> QED
      BY <1>4, <2>3 DEF Release, ActiveCountsBusyWorkers
  <1> QED
    BY <1>1, <1>2, <1>3, <1>4 DEF Worker

(* Stop() zeroes the counter only when no worker is left. *)
LEMMA ActiveOwner ==
  ASSUME TypeOK, ThreadsMatchPhase, ActiveCountsBusyWorkers, OwnerStep
  PROVE  ActiveCountsBusyWorkers'
  <1>1. ASSUME Start PROVE ActiveCountsBusyWorkers'
    <2>1. Busy = {} /\ Busy' = {}
      BY <1>1 DEF Start, Busy, TypeOK, ThreadsMatchPhase, Workers
    <2> QED
      BY <1>1, <2>1, SameBusy DEF Start
  <1>2. ASSUME NEW size \in Workers, SetThreadPoolSize(size)
        PROVE  ActiveCountsBusyWorkers'
    <2>1. \A w \in Workers : w \in nworkers + 1 .. nworkers' => wpc[w] = "none"
      BY <1>2 DEF SetThreadPoolSize, TypeOK, ThreadsMatchPhase, Workers
    <2>2. Busy' = Busy
      BY <1>2, <2>1 DEF SetThreadPoolSize, Busy
    <2> QED
      BY <1>2, <2>2, SameBusy DEF SetThreadPoolSize
  <1>3. ASSUME StopBegin PROVE ActiveCountsBusyWorkers'
    <2>1. \A w \in Workers : wpc'[w] = wpc[w] \/ (wpc[w] = "waiting" /\ wpc'[w] = "ready")
      BY <1>3, NotifyAllEffect DEF StopBegin, TypeOK
    <2>2. Busy' = Busy
      BY <2>1 DEF Busy
    <2> QED
      BY <1>3, <2>2, SameBusy DEF StopBegin
  <1>4. ASSUME StopJoinWorkers PROVE ActiveCountsBusyWorkers'
    <2>1. Busy = {} /\ Busy' = {}
      BY <1>4 DEF StopJoinWorkers, Busy, TypeOK, ThreadsMatchPhase, Workers
    <2> QED
      BY <1>4, <2>1, SameBusy DEF StopJoinWorkers
  <1>5. ASSUME StopTimer \/ StopJoinTimer \/ StopClearTasks
        PROVE  ActiveCountsBusyWorkers'
    <2>1. Busy' = Busy /\ active' = active
      BY <1>5 DEF StopTimer, StopJoinTimer, StopClearTasks, Busy
    <2> QED
      BY <2>1, SameBusy
  <1>6. ASSUME StopClearTimers PROVE ActiveCountsBusyWorkers'
    <2>1. Busy' = {}
      BY <1>6 DEF StopClearTimers, Busy, TypeOK, ThreadsMatchPhase, Workers
    <2> QED
      BY <1>6, <2>1, FS_EmptySet DEF StopClearTimers, ActiveCountsBusyWorkers
  <1> QED
    BY <1>1, <1>2, <1>3, <1>4, <1>5, <1>6 DEF OwnerStep, StopSteps

(* Every step keeps the count exact. *)
LEMMA ActiveStep ==
  ASSUME TypeOK, ThreadsMatchPhase, ActiveCountsBusyWorkers, [Next]_vars
  PROVE  ActiveCountsBusyWorkers'
  <1>1. ASSUME ClientStep PROVE Busy' = Busy /\ active' = active
    <2>1. ASSUME NEW t \in Tasks, ScheduleTask(t) PROVE Busy' = Busy /\ active' = active
      <3>1. \A w \in Workers : wpc'[w] = wpc[w] \/ (wpc[w] = "waiting" /\ wpc'[w] = "ready")
        BY <2>1, NotifyOneEffect DEF ScheduleTask, Push, TypeOK
      <3> QED
        BY <2>1, <3>1 DEF ScheduleTask, Busy
    <2>2. ASSUME Resume PROVE Busy' = Busy /\ active' = active
      <3>1. \A w \in Workers : wpc'[w] = wpc[w] \/ (wpc[w] = "waiting" /\ wpc'[w] = "ready")
        BY <2>2, NotifyAllEffect DEF Resume, TypeOK
      <3> QED
        BY <2>2, <3>1 DEF Resume, Busy
    <2> QED
      BY <1>1, <2>1, <2>2 DEF ClientStep, PushTimer, Pause, SetMaxConcurrent, Busy
  <1>2. ASSUME Timer PROVE Busy' = Busy /\ active' = active
    <2>1. ASSUME TimerSubmit PROVE Busy' = Busy /\ active' = active
      <3>1. \A w \in Workers : wpc'[w] = wpc[w] \/ (wpc[w] = "waiting" /\ wpc'[w] = "ready")
        BY <2>1, NotifyOneEffect DEF TimerSubmit, Push, TypeOK
      <3> QED
        BY <2>1, <3>1 DEF TimerSubmit, Busy
    <2> QED
      BY <1>2, <2>1 DEF Timer, TimerTest, TimerWait, TimerPop, TimerSpin, Busy
  <1>3. ASSUME Tick \/ UNCHANGED vars PROVE Busy' = Busy /\ active' = active
    BY <1>3 DEF Tick, vars, Busy
  <1> QED
    BY <1>1, <1>2, <1>3, SameBusy, StepCases, ActiveOwner, ActiveWorker

-----------------------------------------------------------------------------
(* The first inductive invariant. *)
CountingInv == TypeOK /\ ThreadsMatchPhase /\ ActiveCountsBusyWorkers

(* The first inductive invariant holds throughout. *)
LEMMA CountingInvariant == Spec => []CountingInv
  <1>1. Init => CountingInv
    BY TypeInit, PhaseInit, ActiveInit DEF CountingInv
  <1>2. CountingInv /\ [Next]_vars => CountingInv'
    BY TypeStep, PhaseStep, ActiveStep DEF CountingInv
  <1> QED
    BY <1>1, <1>2, PTL DEF Spec

(* async_scheduler.cpp: every variable keeps its type; in particular the   *)
(* size_t active_tasks_ never wraps below zero.                            *)
THEOREM TypeCorrect == Spec => []TypeOK
  BY CountingInvariant, PTL DEF CountingInv

(* active_tasks_ (incremented under queue_mutex_ in workerLoop,            *)
(* decremented without it, reset by Stop()) is the number of workers that  *)
(* hold a slot.                                                            *)
THEOREM ActiveIsExact == Spec => []ActiveCountsBusyWorkers
  BY CountingInvariant, PTL DEF CountingInv

(* workerLoop never takes a task when max_concurrent_ tasks are running.   *)
THEOREM LimitIsRespected == Spec => LimitRespected
  <1>1. CountingInv /\ [Next]_vars =>
          [\A w \in Workers : wpc[w] = "locked" /\ wpc'[w] = "running" =>
             max_concurrent = 0 \/ Cardinality(Busy) < max_concurrent]_vars
    <2> SUFFICES ASSUME CountingInv, [Next]_vars, NEW v \in Workers,
                        wpc[v] = "locked", wpc'[v] = "running"
                 PROVE  max_concurrent = 0 \/ Cardinality(Busy) < max_concurrent
      OBVIOUS
    <2> USE DEF CountingInv, TypeOK
    <2>1. ~ClientStep /\ ~Timer /\ ~Tick /\ ~UNCHANGED vars
      <3>1. wpc' # wpc /\ ~(wpc'[v] = wpc[v] \/ (wpc[v] = "waiting" /\ wpc'[v] = "ready"))
        OBVIOUS
      <3> QED
        BY <3>1, NotifyOneEffect, NotifyAllEffect
           DEF ClientStep, ScheduleTask, PushTimer, Pause, Resume, SetMaxConcurrent,
               Timer, TimerTest, TimerWait, TimerPop, TimerSpin, TimerSubmit, Push,
               Tick, vars
    <2>2. ~OwnerStep
      <3>1. ~StopBegin
        BY NotifyAllEffect DEF StopBegin
      <3> QED
        BY <3>1 DEF OwnerStep, Start, SetThreadPoolSize, StopSteps, StopJoinWorkers,
                    StopTimer, StopJoinTimer, StopClearTasks, StopClearTimers
    <2>3. PICK w \in Workers : Worker(w) \/ SpuriousWakeup(w)
      BY <2>1, <2>2, StepCases DEF WorkerStep
    <2>4. Take(w)
      <3>1. ~Release(w)
        BY ReleaseNotifyEffect DEF Release
      <3> QED
        BY <2>3, <3>1 DEF Worker, TestPredicate, Block, Exit, Retry, Execute, SpuriousWakeup
    <2>5. ~AtLimit /\ active = Cardinality(Busy)
      BY <2>4 DEF Take, ActiveCountsBusyWorkers
    <2> QED
      BY <2>5 DEF AtLimit
  <1> QED
    BY <1>1, CountingInvariant, PTL DEF Spec, LimitRespected

-----------------------------------------------------------------------------
(* Where a task is.  Each of the lemmas below says how one step moves      *)
(* tasks between the places of NoTaskLostOrDuplicated; every other step    *)
(* leaves all places alone.                                                *)

places == <<tasks, timer_queue, cur, tcur, ran, dropped, submitted>>

(* Which steps move a task. *)
LEMMA MovingSteps ==
  ASSUME [Next]_vars
  PROVE  \/ UNCHANGED <<places, deadline>>
         \/ \E t \in Tasks : ScheduleTask(t)
         \/ \E t \in Tasks, d \in Delays : PushTimer(t, d)
         \/ \E w \in Workers : Take(w) \/ Execute(w)
         \/ TimerPop \/ TimerSubmit
         \/ StopClearTasks \/ StopClearTimers
  <1> USE DEF places, queue_vars, timer_vars, hist_vars
  <1>1. ASSUME ClientStep, \A t \in Tasks : ~ScheduleTask(t),
               \A t \in Tasks, d \in Delays : ~PushTimer(t, d)
        PROVE  UNCHANGED <<places, deadline>>
    BY <1>1 DEF ClientStep, Pause, Resume, SetMaxConcurrent
  <1>2. ASSUME OwnerStep, ~StopClearTasks, ~StopClearTimers
        PROVE  UNCHANGED <<places, deadline>>
    BY <1>2 DEF OwnerStep, StopSteps, Start, SetThreadPoolSize, StopBegin,
                StopJoinWorkers, StopTimer, StopJoinTimer
  <1>3. ASSUME WorkerStep, \A w \in Workers : ~Take(w) /\ ~Execute(w)
        PROVE  UNCHANGED <<places, deadline>>
    BY <1>3 DEF WorkerStep, Worker, TestPredicate, Block, Exit, Retry, Release,
                SpuriousWakeup
  <1>4. ASSUME Timer, ~TimerPop, ~TimerSubmit
        PROVE  UNCHANGED <<places, deadline>>
    BY <1>4 DEF Timer, TimerTest, TimerWait, TimerSpin
  <1>5. ASSUME Tick \/ UNCHANGED vars
        PROVE  UNCHANGED <<places, deadline>>
    BY <1>5 DEF Tick, vars
  <1> QED
    BY <1>1, <1>2, <1>3, <1>4, <1>5, StepCases

(* Appending a task adds it to the set of queued tasks. *)
LEMMA AppendQueued ==
  ASSUME tasks \in Seq(Tasks), NEW t \in Tasks, tasks' = Append(tasks, t)
  PROVE  /\ Queued' = Queued \union {t}
         /\ (/\ \A i, j \in 1 .. Len(tasks) : tasks[i] = tasks[j] => i = j
             /\ t \notin Queued)
            => \A i, j \in 1 .. Len(tasks') : tasks'[i] = tasks'[j] => i = j
  <1>1. /\ Len(tasks') = Len(tasks) + 1
        /\ Len(tasks) \in Nat
        /\ \A i \in 1 .. Len(tasks) : tasks'[i] = tasks[i]
        /\ tasks'[Len(tasks) + 1] = t
    OBVIOUS
  <1>2. Queued' = Queued \union {t}
    BY <1>1 DEF Queued
  <1>3. ASSUME \A i, j \in 1 .. Len(tasks) : tasks[i] = tasks[j] => i = j,
               t \notin Queued,
               NEW i \in 1 .. Len(tasks'), NEW j \in 1 .. Len(tasks'),
               tasks'[i] = tasks'[j]
        PROVE  i = j
    BY <1>1, <1>3 DEF Queued
  <1> QED
    BY <1>2, <1>3

(* Popping the head takes exactly one task out of a duplicate-free queue. *)
LEMMA PopQueued ==
  ASSUME tasks \in Seq(Tasks), tasks # <<>>, tasks' = Tail(tasks),
         \A i, j \in 1 .. Len(tasks) : tasks[i] = tasks[j] => i = j
  PROVE  /\ Head(tasks) \in Queued
         /\ Queued' = Queued \ {Head(tasks)}
         /\ \A i, j \in 1 .. Len(tasks') : tasks'[i] = tasks'[j] => i = j
  <1>1. /\ Len(tasks) \in Nat \ {0}
        /\ Len(tasks') = Len(tasks) - 1
        /\ Head(tasks) = tasks[1]
        /\ \A i \in 1 .. Len(tasks') : tasks'[i] = tasks[i + 1]
    OBVIOUS
  <1>2. Head(tasks) \in Queued
    BY <1>1 DEF Queued
  <1>3. ASSUME NEW t \in Queued' PROVE t \in Queued /\ t # Head(tasks)
    <2>1. PICK i \in 1 .. Len(tasks') : t = tasks'[i]
      BY <1>3 DEF Queued
    <2>2. i + 1 \in 1 .. Len(tasks) /\ t = tasks[i + 1] /\ 1 \in 1 .. Len(tasks)
      BY <1>1, <2>1
    <2> QED
      BY <1>1, <2>2 DEF Queued
  <1>4. ASSUME NEW t \in Queued, t # Head(tasks) PROVE t \in Queued'
    <2>1. PICK i \in 1 .. Len(tasks) : t = tasks[i]
      BY <1>4 DEF Queued
    <2>2. i - 1 \in 1 .. Len(tasks') /\ t = tasks'[i - 1]
      BY <1>1, <1>4, <2>1
    <2> QED
      BY <2>2 DEF Queued
  <1>5. ASSUME NEW i \in 1 .. Len(tasks'), NEW j \in 1 .. Len(tasks'),
               tasks'[i] = tasks'[j]
        PROVE  i = j
    <2>1. i + 1 \in 1 .. Len(tasks) /\ j + 1 \in 1 .. Len(tasks)
      BY <1>1
    <2>2. tasks[i + 1] = tasks[j + 1]
      BY <1>1, <1>5
    <2> QED
      BY <1>1, <2>1, <2>2
  <1> QED
    BY <1>2, <1>3, <1>4, <1>5

(* A worker takes the head of tasks_ into its hand. *)
LEMMA TakeMoves ==
  ASSUME TypeOK, ThreadsMatchPhase, NoTaskLostOrDuplicated,
         NEW w \in Workers, Take(w)
  PROVE  /\ Head(tasks) \in Queued
         /\ Queued' = Queued \ {Head(tasks)}
         /\ Held' = Held \union {Head(tasks)}
         /\ UNCHANGED <<Delayed, InTransit, ran, dropped>>
         /\ \A i, j \in 1 .. Len(tasks') : tasks'[i] = tasks'[j] => i = j
  <1>1. /\ Head(tasks) \in Queued
        /\ Queued' = Queued \ {Head(tasks)}
        /\ \A i, j \in 1 .. Len(tasks') : tasks'[i] = tasks'[j] => i = j
    BY PopQueued DEF Take, PopTask, TypeOK, NoTaskLostOrDuplicated
  <1>2. cur[w] = NoTask /\ Head(tasks) # NoTask
    BY SchedulerAssumption DEF Take, ThreadsMatchPhase, TypeOK
  <1>3. Held' = Held \union {Head(tasks)}
    <2>1. cur' = [cur EXCEPT ![w] = Head(tasks)] /\ cur \in [Workers -> Tasks \union {NoTask}]
      BY DEF Take, TypeOK
    <2>2. \A v \in Workers : cur'[v] = IF v = w THEN Head(tasks) ELSE cur[v]
      BY <2>1
    <2> QED
      BY <1>2, <2>2 DEF Held
  <1>4. UNCHANGED <<Delayed, InTransit, ran, dropped>>
    BY DEF Take, Delayed, InTransit, timer_vars, hist_vars
  <1> QED
    BY <1>1, <1>3, <1>4

(* A task leaves its worker's hand when its body runs. *)
LEMMA ExecuteMoves ==
  ASSUME TypeOK, ThreadsMatchPhase, NoTaskLostOrDuplicated,
         NEW w \in Workers, Execute(w)
  PROVE  /\ cur[w] \in Held
         /\ Held' = Held \ {cur[w]}
         /\ ran' = ran \union {cur[w]}
         /\ UNCHANGED <<tasks, Queued, timer_queue, Delayed, InTransit, dropped>>
  <1>1. cur[w] # NoTask /\ cur[w] \in Held
    BY DEF Execute, ThreadsMatchPhase, Held
  <1>2. \A v \in Workers : cur'[v] = IF v = w THEN NoTask ELSE cur[v]
    BY DEF Execute, TypeOK
  <1>3. Held' = Held \ {cur[w]}
    BY <1>1, <1>2 DEF Held, NoTaskLostOrDuplicated
  <1> QED
    BY <1>1, <1>3 DEF Execute, queue_vars, timer_vars, Queued, Delayed, InTransit

(* The timer thread takes an entry into its hand. *)
LEMMA TimerPopMoves ==
  ASSUME TypeOK, ThreadsMatchPhase, NoTaskLostOrDuplicated, TimerPop
  PROVE  \E e \in timer_queue :
           /\ e.expire <= now
           /\ timer_queue' = timer_queue \ {e}
           /\ Delayed' = Delayed \ {e.task}
           /\ InTransit = {} /\ InTransit' = {e.task}
           /\ UNCHANGED <<tasks, Queued, cur, Held, ran, dropped>>
  <1>1. PICK e \in timer_queue : /\ IsDue(e)
                                  /\ tcur' = e.task
                                  /\ timer_queue' = timer_queue \ {e}
    BY DEF TimerPop
  <1>2. tcur = NoTask /\ tcur' # NoTask
    BY <1>1, SchedulerAssumption DEF TimerPop, ThreadsMatchPhase, TypeOK
  <1>3. Delayed' = Delayed \ {e.task}
    BY <1>1 DEF Delayed, NoTaskLostOrDuplicated
  <1>4. InTransit = {} /\ InTransit' = {e.task}
    BY <1>1, <1>2 DEF InTransit
  <1>5. UNCHANGED <<tasks, Queued, cur, Held, ran, dropped>>
    BY DEF TimerPop, hist_vars, Queued, Held
  <1> QED
    BY <1>1, <1>3, <1>4, <1>5 DEF IsDue

(* The timer thread appends its task to tasks_. *)
LEMMA TimerSubmitMoves ==
  ASSUME TypeOK, ThreadsMatchPhase, NoTaskLostOrDuplicated, TimerSubmit
  PROVE  /\ tcur \in Tasks
         /\ InTransit = {tcur} /\ InTransit' = {}
         /\ Queued' = Queued \union {tcur}
         /\ \A i, j \in 1 .. Len(tasks') : tasks'[i] = tasks'[j] => i = j
         /\ UNCHANGED <<timer_queue, Delayed, cur, Held, ran, dropped>>
  <1>1. tcur \in Tasks /\ tcur # NoTask
    BY DEF TimerSubmit, ThreadsMatchPhase, TypeOK
  <1>2. InTransit = {tcur} /\ InTransit' = {}
    BY <1>1 DEF TimerSubmit, InTransit
  <1>3. tcur \notin Queued
    BY <1>2 DEF NoTaskLostOrDuplicated
  <1>4. /\ Queued' = Queued \union {tcur}
        /\ \A i, j \in 1 .. Len(tasks') : tasks'[i] = tasks'[j] => i = j
    BY <1>1, <1>3, AppendQueued DEF TimerSubmit, Push, TypeOK, NoTaskLostOrDuplicated
  <1> QED
    BY <1>1, <1>2, <1>4 DEF TimerSubmit, hist_vars, Delayed, Held

(* At first no task is anywhere. *)
LEMMA PlaceInit == Init => NoTaskLostOrDuplicated
  <1> SUFFICES ASSUME Init PROVE NoTaskLostOrDuplicated
    OBVIOUS
  <1>1. Queued = {} /\ Delayed = {} /\ Held = {} /\ InTransit = {} /\ ran = {} /\ dropped = {}
        /\ submitted = {}
    BY DEF Init, Queued, Delayed, Held, InTransit
  <1>2. Len(tasks) = 0 /\ \A v \in Workers : cur[v] = NoTask
    BY DEF Init
  <1>3. \A i, j \in 1 .. Len(tasks) : tasks[i] = tasks[j] => i = j
    BY <1>2
  <1>4. timer_queue = {}
    BY DEF Init
  <1> QED
    BY <1>1, <1>2, <1>3, <1>4 DEF NoTaskLostOrDuplicated, Somewhere

(* Every step keeps each task in one place. *)
LEMMA PlaceStep ==
  ASSUME TypeOK, ThreadsMatchPhase, NoTaskLostOrDuplicated, [Next]_vars
  PROVE  NoTaskLostOrDuplicated'
  <1>1. ASSUME UNCHANGED <<places, deadline>> PROVE NoTaskLostOrDuplicated'
    <2>1. UNCHANGED <<tasks, timer_queue, cur, submitted, Queued, Delayed, Held,
                      InTransit, ran, dropped>>
      BY <1>1 DEF places, Queued, Delayed, Held, InTransit
    <2> QED
      BY <2>1 DEF NoTaskLostOrDuplicated, Somewhere
  <1>2. ASSUME NEW t \in Tasks, ScheduleTask(t) PROVE NoTaskLostOrDuplicated'
    <2>1. t \notin Queued \union Delayed \union Held \union InTransit \union ran \union dropped
      BY <1>2 DEF ScheduleTask, NoTaskLostOrDuplicated, Somewhere
    <2>2. /\ Queued' = Queued \union {t}
          /\ \A i, j \in 1 .. Len(tasks') : tasks'[i] = tasks'[j] => i = j
      BY <1>2, <2>1, AppendQueued DEF ScheduleTask, Push, TypeOK, NoTaskLostOrDuplicated
    <2>3. /\ UNCHANGED <<timer_queue, Delayed, cur, Held, InTransit, ran, dropped>>
          /\ submitted' = submitted \union {t}
      BY <1>2 DEF ScheduleTask, timer_vars, Delayed, Held, InTransit
    <2> QED
      BY <2>1, <2>2, <2>3 DEF NoTaskLostOrDuplicated, Somewhere
  <1>3. ASSUME NEW t \in Tasks, NEW d \in Delays, PushTimer(t, d)
        PROVE  NoTaskLostOrDuplicated'
    <2>1. t \notin Queued \union Delayed \union Held \union InTransit \union ran \union dropped
      BY <1>3 DEF PushTimer, NoTaskLostOrDuplicated, Somewhere
    <2>2. timer_queue' = timer_queue \union {[task |-> t, expire |-> now + d]}
      BY <1>3 DEF PushTimer
    <2>3. Delayed' = Delayed \union {t}
      <3> DEFINE n == [task |-> t, expire |-> now + d]
      <3>1. n.task = t
        OBVIOUS
      <3>2. timer_queue' = timer_queue \union {n}
        BY <2>2
      <3> HIDE DEF n
      <3> QED
        BY <3>1, <3>2 DEF Delayed
    <2>4. \A e, f \in timer_queue' : e.task = f.task => e = f
      BY <2>1, <2>2 DEF Delayed, NoTaskLostOrDuplicated
    <2>5. /\ UNCHANGED <<tasks, Queued, cur, Held, InTransit, ran, dropped>>
          /\ submitted' = submitted \union {t}
      BY <1>3 DEF PushTimer, Queued, Held, InTransit
    <2> QED
      BY <2>1, <2>3, <2>4, <2>5 DEF NoTaskLostOrDuplicated, Somewhere
  <1>4. ASSUME NEW w \in Workers, Take(w) PROVE NoTaskLostOrDuplicated'
    <2> DEFINE h == Head(tasks)
    <2>1. /\ h \in Queued
          /\ Queued' = Queued \ {h}
          /\ Held' = Held \union {h}
          /\ UNCHANGED <<Delayed, InTransit, ran, dropped>>
          /\ \A i, j \in 1 .. Len(tasks') : tasks'[i] = tasks'[j] => i = j
      BY <1>4, TakeMoves
    <2>2. \A v \in Workers : cur'[v] = IF v = w THEN h ELSE cur[v]
      BY <1>4 DEF Take, TypeOK
    <2>3. \A v \in Workers : cur[v] # h
      <3> SUFFICES ASSUME NEW v \in Workers, cur[v] = h PROVE FALSE
        OBVIOUS
      <3>1. h \in Tasks
        BY <1>4 DEF Take, TypeOK
      <3>2. h \in Held
        BY <3>1, SchedulerAssumption DEF Held
      <3> QED
        BY <2>1, <3>2 DEF NoTaskLostOrDuplicated
    <2>4. \A u, v \in Workers : cur'[u] = cur'[v] /\ cur'[u] # NoTask => u = v
      BY <2>2, <2>3 DEF NoTaskLostOrDuplicated
    <2>5. UNCHANGED <<timer_queue, submitted>>
      BY <1>4 DEF Take, hist_vars
    <2> HIDE DEF h
    <2> QED
      BY <2>1, <2>4, <2>5 DEF NoTaskLostOrDuplicated, Somewhere
  <1>5. ASSUME NEW w \in Workers, Execute(w) PROVE NoTaskLostOrDuplicated'
    <2>1. \A v \in Workers : cur'[v] = IF v = w THEN NoTask ELSE cur[v]
      BY <1>5 DEF Execute, TypeOK
    <2>2. \A u, v \in Workers : cur'[u] = cur'[v] /\ cur'[u] # NoTask => u = v
      BY <2>1 DEF NoTaskLostOrDuplicated
    <2>3. submitted' = submitted
      BY <1>5 DEF Execute
    <2> QED
      BY <1>5, <2>2, <2>3, ExecuteMoves DEF NoTaskLostOrDuplicated, Somewhere
  <1>6. ASSUME TimerPop PROVE NoTaskLostOrDuplicated'
    <2>1. PICK e \in timer_queue :
            /\ timer_queue' = timer_queue \ {e}
            /\ Delayed' = Delayed \ {e.task}
            /\ InTransit = {} /\ InTransit' = {e.task}
            /\ UNCHANGED <<tasks, Queued, cur, Held, ran, dropped>>
      BY <1>6, TimerPopMoves, Zenon
    <2>2. e.task \in Delayed
      BY DEF Delayed
    <2>3. \A d, f \in timer_queue' : d.task = f.task => d = f
      BY <2>1 DEF NoTaskLostOrDuplicated
    <2>4. \A v, w \in Workers : cur'[v] = cur'[w] /\ cur'[v] # NoTask => v = w
      BY <2>1 DEF NoTaskLostOrDuplicated
    <2>5. \A i, j \in 1 .. Len(tasks') : tasks'[i] = tasks'[j] => i = j
      BY <2>1 DEF NoTaskLostOrDuplicated
    <2>6. submitted' = submitted
      BY <1>6 DEF TimerPop, hist_vars
    <2> QED
      BY <2>1, <2>2, <2>3, <2>4, <2>5, <2>6 DEF NoTaskLostOrDuplicated, Somewhere
  <1>7. ASSUME TimerSubmit PROVE NoTaskLostOrDuplicated'
    <2>1. submitted' = submitted
      BY <1>7 DEF TimerSubmit, hist_vars
    <2> QED
      BY <1>7, <2>1, TimerSubmitMoves DEF NoTaskLostOrDuplicated, Somewhere
  <1>8. ASSUME StopClearTasks PROVE NoTaskLostOrDuplicated'
    <2>1. Queued' = {} /\ dropped' = dropped \union Queued
      BY <1>8 DEF StopClearTasks, Queued
    <2>2. UNCHANGED <<timer_queue, Delayed, cur, Held, InTransit, ran, submitted>>
      BY <1>8 DEF StopClearTasks, timer_vars, Delayed, Held, InTransit
    <2>3. \A i, j \in 1 .. Len(tasks') : tasks'[i] = tasks'[j] => i = j
      BY <1>8 DEF StopClearTasks
    <2> QED
      BY <2>1, <2>2, <2>3 DEF NoTaskLostOrDuplicated, Somewhere
  <1>9. ASSUME StopClearTimers PROVE NoTaskLostOrDuplicated'
    <2>1. timer_queue' = {} /\ Delayed' = {} /\ dropped' = dropped \union Delayed
      BY <1>9 DEF StopClearTimers, Delayed
    <2>2. UNCHANGED <<tasks, Queued, cur, Held, InTransit, ran, submitted>>
      BY <1>9 DEF StopClearTimers, timer_vars, Queued, Held, InTransit
    <2> QED
      BY <2>1, <2>2 DEF NoTaskLostOrDuplicated, Somewhere
  <1> QED
    BY <1>1, <1>2, <1>3, <1>4, <1>5, <1>6, <1>7, <1>8, <1>9, MovingSteps

PlacementInv == CountingInv /\ NoTaskLostOrDuplicated

(* Each task is in one place throughout. *)
LEMMA PlacementInvariant == Spec => []PlacementInv
  <1>1. Init => NoTaskLostOrDuplicated
    BY PlaceInit
  <1>2. CountingInv /\ NoTaskLostOrDuplicated /\ [Next]_vars => NoTaskLostOrDuplicated'
    BY PlaceStep DEF CountingInv
  <1> QED
    BY <1>1, <1>2, CountingInvariant, PTL DEF Spec, PlacementInv

(* async_scheduler.cpp: between ScheduleTask, the timer thread, the        *)
(* workers and Stop() a task that was handed over is always in exactly one *)
(* place: it is never lost and never runs twice.                           *)
THEOREM TasksAreConserved == Spec => []NoTaskLostOrDuplicated
  BY PlacementInvariant, PTL DEF PlacementInv

-----------------------------------------------------------------------------
(* NeverEarly needs that an entry of timer_queue_ carries the deadline it  *)
(* was scheduled with.                                                     *)
EntriesCarryDeadline == \A e \in timer_queue : e.expire = deadline[e.task]

DeadlineInv == EntriesCarryDeadline /\ NeverEarly

(* The clock never goes back. *)
LEMMA NowGrows ==
  ASSUME TypeOK, [Next]_vars
  PROVE  now' \in Int /\ now \in Int /\ now <= now'
  <1>1. now \in Int
    BY SchedulerAssumption DEF TypeOK, Clock
  <1>2. now' = now \/ now' = now + 1
    BY StepCases
       DEF ClientStep, ScheduleTask, PushTimer, Pause, Resume, SetMaxConcurrent,
           OwnerStep, Start, SetThreadPoolSize, StopBegin, StopSteps,
           StopJoinWorkers, StopTimer, StopJoinTimer, StopClearTasks,
           StopClearTimers, WorkerStep, Worker, TestPredicate, Block, Exit,
           Retry, Take, Execute, Release, SpuriousWakeup, Timer, TimerTest,
           TimerWait, TimerPop, TimerSpin, TimerSubmit, Tick, vars
  <1> QED
    BY <1>1, <1>2

(* Every step keeps deadlines and entries together. *)
LEMMA DeadlineStep ==
  ASSUME PlacementInv, DeadlineInv, [Next]_vars
  PROVE  DeadlineInv'
  <1> USE DEF PlacementInv, CountingInv
  <1> DEFINE Started == Queued \union Held \union InTransit \union ran
  <1>1. now' \in Int /\ now \in Int /\ now <= now'
    BY NowGrows
  <1>2. \A t \in Tasks : deadline[t] \in Int
    BY SchedulerAssumption DEF TypeOK, Clock
  <1>3. Started \subseteq Tasks
    BY DEF TypeOK, Queued, Held, InTransit
  <1>4. \A t \in Started : deadline[t] <= now
    BY DEF DeadlineInv, NeverEarly
  <1>5. ASSUME Started' \subseteq Started, timer_queue' \subseteq timer_queue,
               deadline' = deadline
        PROVE  DeadlineInv'
    <2>1. \A t \in Started' : deadline'[t] <= now'
      BY <1>1, <1>2, <1>3, <1>4, <1>5
    <2> QED
      BY <1>5, <2>1 DEF DeadlineInv, NeverEarly, EntriesCarryDeadline
  <1>6. ASSUME UNCHANGED <<places, deadline>> PROVE DeadlineInv'
    <2>1. Started' = Started
      BY <1>6 DEF places, Queued, Held, InTransit
    <2> QED
      BY <1>5, <1>6, <2>1 DEF places
  <1>7. ASSUME NEW t \in Tasks, ScheduleTask(t) PROVE DeadlineInv'
    <2>1. t \notin Delayed
      BY <1>7 DEF ScheduleTask, NoTaskLostOrDuplicated, Somewhere
    <2>2. Queued' = Queued \union {t}
      BY <1>7, AppendQueued DEF ScheduleTask, Push, TypeOK
    <2>3. UNCHANGED <<timer_queue, Held, InTransit, ran>>
      BY <1>7 DEF ScheduleTask, timer_vars, Held, InTransit
    <2>4. \A u \in Tasks : deadline'[u] = IF u = t THEN now ELSE deadline[u]
      BY <1>7 DEF ScheduleTask, TypeOK
    <2>5. \A u \in Started' : deadline'[u] <= now'
      BY <1>1, <1>2, <1>3, <1>4, <2>2, <2>3, <2>4
    <2>6. \A e \in timer_queue : e.task \in Delayed /\ e.task \in Tasks
      BY DEF Delayed, TypeOK
    <2>7. EntriesCarryDeadline'
      BY <2>1, <2>3, <2>4, <2>6 DEF DeadlineInv, EntriesCarryDeadline
    <2> QED
      BY <2>5, <2>7 DEF DeadlineInv, NeverEarly
  <1>8. ASSUME NEW t \in Tasks, NEW d \in Delays, PushTimer(t, d) PROVE DeadlineInv'
    <2>1. t \notin Delayed /\ t \notin Started
      BY <1>8 DEF PushTimer, NoTaskLostOrDuplicated, Somewhere
    <2>2. UNCHANGED <<Queued, Held, InTransit, ran>>
      BY <1>8 DEF PushTimer, Queued, Held, InTransit
    <2>3. \A u \in Tasks : deadline'[u] = IF u = t THEN now + d ELSE deadline[u]
      BY <1>8 DEF PushTimer, TypeOK
    <2>4. \A u \in Started' : deadline'[u] <= now'
      BY <1>1, <1>2, <1>3, <1>4, <2>1, <2>2, <2>3
    <2>5. \A e \in timer_queue : e.task \in Delayed /\ e.task \in Tasks
      BY DEF Delayed, TypeOK
    <2>6. \A e \in timer_queue : e.expire = deadline'[e.task]
      BY <2>1, <2>3, <2>5 DEF DeadlineInv, EntriesCarryDeadline
    <2>7. timer_queue' = timer_queue \union {[task |-> t, expire |-> now + d]}
      BY <1>8 DEF PushTimer
    <2>8. EntriesCarryDeadline'
      BY <2>3, <2>6, <2>7 DEF EntriesCarryDeadline
    <2> QED
      BY <2>4, <2>8 DEF DeadlineInv, NeverEarly
  <1>9. ASSUME NEW w \in Workers, Take(w) PROVE DeadlineInv'
    <2>1. Started' \subseteq Started
      BY <1>9, TakeMoves
    <2> QED
      BY <1>5, <1>9, <2>1 DEF Take, hist_vars
  <1>10. ASSUME NEW w \in Workers, Execute(w) PROVE DeadlineInv'
    <2>1. Started' \subseteq Started
      BY <1>10, ExecuteMoves
    <2> QED
      BY <1>5, <1>10, <2>1 DEF Execute, queue_vars
  <1>11. ASSUME TimerPop PROVE DeadlineInv'
    <2>1. PICK e \in timer_queue :
            /\ e.expire <= now
            /\ timer_queue' = timer_queue \ {e}
            /\ InTransit = {} /\ InTransit' = {e.task}
            /\ UNCHANGED <<Queued, Held, ran>>
      BY <1>11, TimerPopMoves, Zenon
    <2>2. deadline' = deadline
      BY <1>11 DEF TimerPop, hist_vars
    <2>3. deadline[e.task] <= now /\ e.task \in Tasks
      BY <2>1 DEF DeadlineInv, EntriesCarryDeadline, TypeOK
    <2>4. \A u \in Started' : deadline'[u] <= now'
      BY <1>1, <1>2, <1>3, <1>4, <2>1, <2>2, <2>3
    <2>5. EntriesCarryDeadline'
      BY <2>1, <2>2 DEF DeadlineInv, EntriesCarryDeadline
    <2> QED
      BY <2>4, <2>5 DEF DeadlineInv, NeverEarly
  <1>12. ASSUME TimerSubmit PROVE DeadlineInv'
    <2>1. Started' \subseteq Started
      BY <1>12, TimerSubmitMoves
    <2> QED
      BY <1>5, <1>12, <2>1 DEF TimerSubmit, hist_vars
  <1>13. ASSUME StopClearTasks PROVE DeadlineInv'
    <2>1. Started' \subseteq Started
      BY <1>13 DEF StopClearTasks, timer_vars, Queued, Held, InTransit
    <2> QED
      BY <1>5, <1>13, <2>1 DEF StopClearTasks
  <1>14. ASSUME StopClearTimers PROVE DeadlineInv'
    <2>1. Started' \subseteq Started
      BY <1>14 DEF StopClearTimers, timer_vars, Queued, Held, InTransit
    <2> QED
      BY <1>5, <1>14, <2>1 DEF StopClearTimers
  <1> QED
    BY <1>6, <1>7, <1>8, <1>9, <1>10, <1>11, <1>12, <1>13, <1>14, MovingSteps

(* timerLoop never hands a task to the pool before its expire time. *)
THEOREM DelaysAreHonoured == Spec => []NeverEarly
  <1>1. Init => DeadlineInv
    BY DEF Init, DeadlineInv, EntriesCarryDeadline, NeverEarly, Queued, Held, InTransit
  <1>2. PlacementInv /\ DeadlineInv /\ [Next]_vars => DeadlineInv'
    BY DeadlineStep
  <1>3. DeadlineInv => NeverEarly
    BY DEF DeadlineInv
  <1> QED
    BY <1>1, <1>2, <1>3, PlacementInvariant, PTL DEF Spec

-----------------------------------------------------------------------------
(* StopDrainsQueue: the tasks Stop() found in the queue of a live pool are *)
(* in the queue, in a worker's hand or done, and the last worker leaves    *)
(* only when none of them is in the queue.                                 *)

(* The workers of the pool are among the possible workers. *)
LEMMA PoolIndices ==
  ASSUME TypeOK
  PROVE  /\ 1 .. nworkers \subseteq Workers
         /\ nworkers \in Nat /\ worker_threads \in Nat \ {0}
         /\ nworkers <= worker_threads /\ worker_threads <= MaxThreads
  BY SchedulerAssumption DEF TypeOK, Workers

(* Which steps can disturb DrainProgress besides those that move tasks. *)
LEMMA QuietDrain ==
  ASSUME TypeOK, ThreadsMatchPhase, DrainProgress, [Next]_vars,
         UNCHANGED places
  PROVE  DrainProgress'
  <1>1. Queued' = Queued /\ Held' = Held /\ ran' = ran
    BY DEF places, Queued, Held
  <1>2. ASSUME UNCHANGED <<at_stop, spc, nworkers>>,
               \A w \in Workers : wpc'[w] = "exited" => wpc[w] = "exited"
        PROVE  DrainProgress'
    BY <1>1, <1>2, PoolIndices DEF DrainProgress
  <1>3. ASSUME ClientStep \/ Timer \/ Tick \/ UNCHANGED vars PROVE DrainProgress'
    <2>1. UNCHANGED <<at_stop, spc, nworkers>>
      BY <1>3 DEF ClientStep, ScheduleTask, PushTimer, Pause, Resume, SetMaxConcurrent,
                  Timer, TimerTest, TimerWait, TimerPop, TimerSpin, TimerSubmit,
                  Tick, vars, hist_vars
    <2>2. wpc' = wpc \/ \A w \in Workers :
             wpc'[w] = wpc[w] \/ (wpc[w] = "waiting" /\ wpc'[w] = "ready")
      BY <1>3, NotifyOneEffect, NotifyAllEffect
         DEF ClientStep, ScheduleTask, PushTimer, Pause, Resume, SetMaxConcurrent,
             Timer, TimerTest, TimerWait, TimerPop, TimerSpin, TimerSubmit, Push,
             Tick, vars, TypeOK
    <2> QED
      BY <1>2, <2>1, <2>2
  <1>4. ASSUME WorkerStep PROVE DrainProgress'
    <2> PICK w \in Workers : Worker(w) \/ SpuriousWakeup(w)
      BY <1>4 DEF WorkerStep
    <2>1. UNCHANGED <<at_stop, spc, nworkers>>
      BY DEF Worker, TestPredicate, Block, Exit, Retry, Take, Execute, Release,
             SpuriousWakeup, hist_vars
    <2>2. CASE Exit(w)
      <3>1. Queued = {}
        BY <2>2 DEF Exit, Finished, Queued
      <3> QED
        BY <1>1, <2>1, <3>1 DEF DrainProgress
    <2>3. CASE Release(w)
      BY <1>2, <2>1, <2>3, ReleaseNotifyEffect DEF Release, TypeOK
    <2>4. CASE ~Exit(w) /\ ~Release(w)
      <3>1. \A v \in Workers : wpc'[v] = "exited" => wpc[v] = "exited"
        BY <2>4 DEF Worker, TestPredicate, Block, Retry, Take, Execute,
                    SpuriousWakeup, TypeOK
      <3> QED
        BY <1>2, <2>1, <3>1
    <2> QED
      BY <2>2, <2>3, <2>4
  <1>5. ASSUME OwnerStep PROVE DrainProgress'
    <2>1. ASSUME Start \/ \E size \in Workers : SetThreadPoolSize(size)
          PROVE  DrainProgress'
      <3>1. at_stop \subseteq ran /\ UNCHANGED <<spc, at_stop>> /\ nworkers' \in Nat
        BY <2>1 DEF Start, SetThreadPoolSize, DrainProgress, hist_vars, TypeOK, Workers
      <3>2. \E w \in 1 .. nworkers' : wpc'[w] = "ready"
        <4>1. CASE Start
          <5>1. 1 \in 1 .. nworkers' /\ wpc'[1] = "ready"
            <6>1. 1 \in Workers /\ 1 <= worker_threads /\ 1 \in 1 .. worker_threads
              BY PoolIndices, SchedulerAssumption DEF Workers
            <6> QED
              BY <4>1, <6>1 DEF Start
          <5> QED
            BY <5>1
        <4>2. ASSUME NEW size \in Workers, SetThreadPoolSize(size)
              PROVE  \E w \in 1 .. nworkers' : wpc'[w] = "ready"
          <5>1. /\ nworkers + 1 \in 1 .. nworkers' 
                /\ nworkers + 1 \in Workers
                /\ nworkers + 1 \in nworkers + 1 .. nworkers'
            <6>1. nworkers' = nworkers + (size - worker_threads)
              BY <4>2 DEF SetThreadPoolSize
            <6>2. size \in Nat /\ size > worker_threads /\ size <= MaxThreads
              BY <4>2, SchedulerAssumption DEF SetThreadPoolSize, Workers
            <6> QED
              BY <6>1, <6>2, PoolIndices, SchedulerAssumption DEF Workers
          <5>2. wpc'[nworkers + 1] = "ready"
            BY <4>2, <5>1 DEF SetThreadPoolSize
          <5> QED
            BY <5>1, <5>2
        <4> QED
          BY <2>1, <4>1, <4>2
      <3> QED
        BY <1>1, <3>1, <3>2 DEF DrainProgress
    <2>2. ASSUME StopBegin PROVE DrainProgress'
      <3>1. \A w \in Workers : wpc'[w] = "exited" => wpc[w] = "exited"
        BY <2>2, NotifyAllEffect DEF StopBegin, TypeOK
      <3>2. CASE Alive = {}
        BY <1>1, <2>2, <3>2 DEF StopBegin, DrainProgress
      <3>3. CASE Alive # {}
        <4>1. PICK w \in Workers : wpc[w] \notin {"none", "exited"}
          BY <3>3 DEF Alive
        <4>2. w \in 1 .. nworkers' /\ wpc'[w] # "exited"
          BY <2>2, <3>1, <4>1 DEF StopBegin, ThreadsMatchPhase, TypeOK, Workers
        <4>3. at_stop' = Queued /\ spc' = "joinWorkers"
          BY <2>2, <3>3 DEF StopBegin
        <4> QED
          BY <1>1, <4>2, <4>3 DEF DrainProgress
      <3> QED
        BY <3>2, <3>3
    <2>3. ASSUME StopJoinWorkers PROVE DrainProgress'
      <3>1. Held = {}
        BY <2>3 DEF StopJoinWorkers, Held, ThreadsMatchPhase, TypeOK, Workers
      <3>2. at_stop \intersect Queued = {} /\ at_stop \subseteq Queued \union Held \union ran
        BY <2>3 DEF StopJoinWorkers, DrainProgress
      <3> QED
        BY <1>1, <2>3, <3>1, <3>2 DEF StopJoinWorkers, DrainProgress, hist_vars
    <2>4. ASSUME StopTimer \/ StopJoinTimer \/ StopClearTasks \/ StopClearTimers
          PROVE  DrainProgress'
      <3>1. UNCHANGED <<at_stop, nworkers, wpc>> /\ spc # "joinWorkers" /\ spc' # "joinWorkers"
        BY <2>4 DEF StopTimer, StopJoinTimer, StopClearTasks, StopClearTimers, hist_vars
      <3> QED
        BY <1>1, <3>1 DEF DrainProgress
    <2> QED
      BY <1>5, <2>1, <2>2, <2>3, <2>4 DEF OwnerStep, StopSteps
  <1> QED
    BY <1>3, <1>4, <1>5, StepCases

(* Every step keeps what was queued at Stop() queued, held or run. *)
LEMMA DrainStep ==
  ASSUME PlacementInv, DrainProgress, [Next]_vars
  PROVE  DrainProgress'
  <1> USE DEF PlacementInv, CountingInv
  <1>1. at_stop \subseteq Queued \union Held \union ran
    BY DEF DrainProgress
  <1>2. ASSUME UNCHANGED <<at_stop, spc, nworkers>>,
               \A w \in Workers : wpc'[w] = "exited" <=> wpc[w] = "exited",
               Queued \union Held \union ran \subseteq Queued' \union Held' \union ran',
               ran \subseteq ran',
               Queued' \intersect at_stop \subseteq Queued
        PROVE  DrainProgress'
    BY <1>1, <1>2, PoolIndices DEF DrainProgress
  <1>3. ASSUME UNCHANGED <<places, deadline>> PROVE DrainProgress'
    BY <1>3, QuietDrain
  <1>4. ASSUME NEW t \in Tasks, ScheduleTask(t) PROVE DrainProgress'
    <2>1. t \notin Queued \union Held \union ran
      BY <1>4 DEF ScheduleTask, NoTaskLostOrDuplicated, Somewhere
    <2>2. Queued' = Queued \union {t}
      BY <1>4, AppendQueued DEF ScheduleTask, Push, TypeOK
    <2>3. UNCHANGED <<Held, ran, at_stop, spc, nworkers>>
      BY <1>4 DEF ScheduleTask, Held
    <2>4. \A w \in Workers : wpc'[w] = "exited" <=> wpc[w] = "exited"
      BY <1>4, NotifyOneEffect DEF ScheduleTask, Push, TypeOK
    <2> QED
      BY <1>1, <1>2, <2>1, <2>2, <2>3, <2>4
  <1>5. ASSUME NEW t \in Tasks, NEW d \in Delays, PushTimer(t, d) PROVE DrainProgress'
    BY <1>5 DEF PushTimer, DrainProgress, Queued, Held
  <1>6. ASSUME NEW w \in Workers, Take(w) PROVE DrainProgress'
    <2>1. UNCHANGED <<at_stop, spc, nworkers>>
      BY <1>6 DEF Take, hist_vars
    <2>2. \A v \in Workers : wpc'[v] = "exited" <=> wpc[v] = "exited"
      BY <1>6 DEF Take, TypeOK
    <2> QED
      BY <1>2, <1>6, <2>1, <2>2, TakeMoves
  <1>7. ASSUME NEW w \in Workers, Execute(w) PROVE DrainProgress'
    <2>1. UNCHANGED <<at_stop, spc, nworkers>>
      BY <1>7 DEF Execute
    <2>2. \A v \in Workers : wpc'[v] = "exited" <=> wpc[v] = "exited"
      BY <1>7 DEF Execute, TypeOK
    <2> QED
      BY <1>2, <1>7, <2>1, <2>2, ExecuteMoves
  <1>8. ASSUME TimerPop PROVE DrainProgress'
    BY <1>8 DEF TimerPop, DrainProgress, Queued, Held, hist_vars
  <1>9. ASSUME TimerSubmit PROVE DrainProgress'
    <2>1. tcur \notin Queued \union Held \union ran
      BY <1>9, TimerSubmitMoves DEF NoTaskLostOrDuplicated
    <2>2. UNCHANGED <<at_stop, spc, nworkers>>
      BY <1>9 DEF TimerSubmit, hist_vars
    <2>3. \A w \in Workers : wpc'[w] = "exited" <=> wpc[w] = "exited"
      BY <1>9, NotifyOneEffect DEF TimerSubmit, Push, TypeOK
    <2> QED
      BY <1>1, <1>2, <1>9, <2>1, <2>2, <2>3, TimerSubmitMoves
  <1>10. ASSUME StopClearTasks \/ StopClearTimers PROVE DrainProgress'
    <2>1. at_stop \subseteq ran
      BY <1>10 DEF StopClearTasks, StopClearTimers, DrainProgress
    <2>2. UNCHANGED <<at_stop, Held, ran>> /\ (Queued' = Queued \/ Queued' = {})
      BY <1>10 DEF StopClearTasks, StopClearTimers, Queued, Held
    <2>3. Queued' \intersect ran = {}
      BY <2>2 DEF NoTaskLostOrDuplicated
    <2> QED
      BY <2>1, <2>2, <2>3 DEF DrainProgress
  <1> QED
    BY <1>3, <1>4, <1>5, <1>6, <1>7, <1>8, <1>9, <1>10, MovingSteps

DrainInv == DrainProgress /\ StopDrainsQueue

(* Stop(): a task that was queued when Stop() found a live worker is run,  *)
(* never thrown away by the clearing of tasks_ at its end, even when the   *)
(* timer thread and clients keep submitting.                               *)
THEOREM StopRunsQueuedTasks == Spec => []StopDrainsQueue
  <1>1. Init => DrainInv
    BY DEF Init, DrainInv, DrainProgress, StopDrainsQueue
  <1>2. PlacementInv /\ PlacementInv' /\ DrainInv /\ [Next]_vars => DrainInv'
    <2> SUFFICES ASSUME PlacementInv, PlacementInv', DrainInv, [Next]_vars PROVE DrainInv'
      OBVIOUS
    <2>1. DrainProgress'
      BY DrainStep DEF DrainInv
    <2>2. StopDrainsQueue'
      <3>1. CASE StopClearTasks \/ StopClearTimers
        <4>1. at_stop' \subseteq ran'
          BY <2>1, <3>1 DEF StopClearTasks, StopClearTimers, DrainProgress
        <4>2. ran' \intersect dropped' = {}
          BY DEF PlacementInv, NoTaskLostOrDuplicated
        <4> QED
          BY <4>1, <4>2 DEF StopDrainsQueue
      <3>2. CASE StopBegin
        <4>1. at_stop' \subseteq Queued /\ dropped' = dropped
          BY <3>2 DEF StopBegin
        <4> QED
          BY <4>1 DEF PlacementInv, NoTaskLostOrDuplicated, StopDrainsQueue
      <3>3. CASE ~StopClearTasks /\ ~StopClearTimers /\ ~StopBegin
        <4>1. UNCHANGED <<at_stop, dropped>>
          BY <3>3, StepCases
             DEF ClientStep, ScheduleTask, PushTimer, Pause, Resume, SetMaxConcurrent,
                 OwnerStep, Start, SetThreadPoolSize, StopSteps, StopJoinWorkers,
                 StopTimer, StopJoinTimer, WorkerStep, Worker, TestPredicate, Block,
                 Exit, Retry, Take, Execute, Release, SpuriousWakeup, Timer, TimerTest,
                 TimerWait, TimerPop, TimerSpin, TimerSubmit, Tick, vars, hist_vars
        <4> QED
          BY <4>1 DEF DrainInv, StopDrainsQueue
      <3> QED
        BY <3>1, <3>2, <3>3
    <2> QED
      BY <2>1, <2>2 DEF DrainInv
  <1>3. DrainInv => StopDrainsQueue
    BY DEF DrainInv
  <1> QED
    BY <1>1, <1>2, <1>3, PlacementInvariant, PTL DEF Spec

-----------------------------------------------------------------------------
(* NoOrphanThreads *)

StatsReset == spc = "idle" /\ nworkers = 0 => completed = 0 /\ failed = 0

(* Every step keeps the counters of a stopped scheduler at zero. *)
LEMMA StatsStep ==
  ASSUME CountingInv, StatsReset, [Next]_vars
  PROVE  StatsReset'
  <1> USE DEF CountingInv, stat_vars
  <1>1. ASSUME WorkerStep PROVE StatsReset'
    <2> PICK w \in Workers : Worker(w) \/ SpuriousWakeup(w)
      BY <1>1 DEF WorkerStep
    <2>1. wpc[w] # "none" /\ nworkers' = nworkers
      BY DEF Worker, TestPredicate, Block, Exit, Retry, Take, Execute, Release, SpuriousWakeup
    <2>2. nworkers # 0
      BY <2>1, SchedulerAssumption DEF ThreadsMatchPhase, Workers
    <2> QED
      BY <2>1, <2>2 DEF StatsReset
  <1>2. ASSUME OwnerStep PROVE StatsReset'
    <2>1. ASSUME Start PROVE StatsReset'
      BY <2>1, PoolIndices DEF Start, StatsReset
    <2>2. ASSUME NEW size \in Workers, SetThreadPoolSize(size) PROVE StatsReset'
      <3>1. nworkers' # 0
        BY <2>2, PoolIndices, SchedulerAssumption DEF SetThreadPoolSize, Workers
      <3> QED
        BY <3>1 DEF StatsReset
    <2> QED
      BY <1>2, <2>1, <2>2
         DEF OwnerStep, StopSteps, StopBegin, StopJoinWorkers, StopTimer,
             StopJoinTimer, StopClearTasks, StopClearTimers, StatsReset
  <1>3. ASSUME ClientStep \/ Timer \/ Tick \/ UNCHANGED vars PROVE StatsReset'
    <2>1. UNCHANGED <<spc, nworkers, completed, failed>>
      BY <1>3 DEF ClientStep, ScheduleTask, PushTimer, Pause, Resume, SetMaxConcurrent,
                  Timer, TimerTest, TimerWait, TimerPop, TimerSpin, TimerSubmit,
                  Tick, vars
    <2> QED
      BY <2>1 DEF StatsReset
  <1> QED
    BY <1>1, <1>2, <1>3, StepCases

(* After Stop() (and before Start()) no worker and no timer thread is left *)
(* and the counters are zero, so the destructor may free the scheduler.    *)
THEOREM StopLeavesNoThread == Spec => []NoOrphanThreads
  <1>1. Init => StatsReset
    BY DEF Init, StatsReset
  <1>2. CountingInv /\ StatsReset /\ [Next]_vars => StatsReset'
    BY StatsStep
  <1>3. CountingInv /\ StatsReset => NoOrphanThreads
    <2> SUFFICES ASSUME CountingInv, StatsReset, spc = "idle", nworkers = 0
                 PROVE  /\ \A w \in Workers : wpc[w] = "none" /\ cur[w] = NoTask
                        /\ tpc = "none" /\ tcur = NoTask
                        /\ active = 0 /\ completed = 0 /\ failed = 0
      BY DEF NoOrphanThreads
    <2>1. \A w \in Workers : wpc[w] = "none" /\ cur[w] = NoTask
      BY SchedulerAssumption DEF CountingInv, ThreadsMatchPhase, Workers
    <2>2. tpc = "none" /\ tcur = NoTask
      BY DEF CountingInv, ThreadsMatchPhase
    <2>3. Busy = {}
      BY <2>1 DEF Busy
    <2>4. active = 0
      BY <2>3, FS_EmptySet DEF CountingInv, ActiveCountsBusyWorkers
    <2> QED
      BY <2>1, <2>2, <2>4 DEF StatsReset
  <1> QED
    BY <1>1, <1>2, <1>3, CountingInvariant, PTL DEF Spec
=============================================================================
