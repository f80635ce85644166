------------------------ MODULE ThreadPoolScheduler ------------------------
(***************************************************************************)
(* The thread pool of src/core/Async/async_scheduler.cpp: the class every  *)
(* IScheduler::CreateDefault() returns and on which HttpServer runs its    *)
(* asynchronous sends.                                                     *)
(*                                                                         *)
(* The threads are the workers (workerLoop), the timer thread (timerLoop), *)
(* one owner that calls the lifecycle operations (Start, Stop and          *)
(* SetThreadPoolSize touch workers_ without a lock, so a correct caller    *)
(* keeps them on one thread) and any number of clients that call           *)
(* Schedule..., Pause, Resume and SetMaxConcurrent at any moment.          *)
(*                                                                         *)
(* A critical section is one action, except the worker's wait: the         *)
(* predicate of task_cv_.wait reads paused_, active_tasks_ and             *)
(* max_concurrent_, which other threads write WITHOUT queue_mutex_, so     *)
(* reading the predicate and going to sleep are two steps and the mutex is *)
(* held in between.                                                        *)
(***************************************************************************)
EXTENDS Integers, Sequences, FiniteSets

CONSTANTS
  Tasks,         \* the callables clients may submit, each at most once
  MaxThreads,    \* bound: the largest thread pool
  InitThreads,   \* thread_count given to the constructor
  Limits,        \* values SetMaxConcurrent is called with (0: no limit)
  MaxTime,       \* bound: the clock stops here
  NoTask         \* an empty std::function

ASSUME SchedulerAssumption ==
  /\ MaxThreads \in Nat
  /\ InitThreads \in 1 .. MaxThreads
  /\ Limits \subseteq Nat
  /\ MaxTime \in Nat
  /\ NoTask \notin Tasks

Workers == 1 .. MaxThreads      \* indices into the vector workers_
Clock   == 0 .. MaxTime
Delays  == 0 .. MaxTime

VARIABLES
  tasks,           \* tasks_, the FIFO of the pool
  timer_queue,     \* timer_queue_: the pending [task, expire] entries
  stop,            \* stop_
  paused,          \* paused_
  timer_running,   \* timer_running_
  active,          \* active_tasks_
  completed,       \* completed_tasks_
  failed,          \* failed_tasks_
  max_concurrent,  \* max_concurrent_
  worker_threads,  \* worker_threads_, the configured size
  nworkers,        \* workers_.size()
  wpc,             \* where each worker thread is
  cur,             \* the task a worker has taken from the queue
  tpc,             \* where the timer thread is
  tcur,            \* the task the timer thread is about to submit
  spc,             \* where the owner is inside Stop()
  now,             \* steady_clock
  submitted,       \* history: the tasks clients have handed over
  deadline,        \* history: the expire time a task was scheduled for
  ran,             \* history: the tasks whose body has been executed
  dropped,         \* history: the tasks Stop() threw away
  at_stop          \* history: what was queued when Stop() met a live worker

queue_vars  == <<tasks, timer_queue>>
flag_vars   == <<stop, paused, timer_running>>
stat_vars   == <<completed, failed>>
config_vars == <<max_concurrent, worker_threads>>
timer_vars  == <<tpc, tcur>>
hist_vars   == <<submitted, deadline, ran, dropped, at_stop>>

vars == <<tasks, timer_queue, stop, paused, timer_running, active, completed,
          failed, max_concurrent, worker_threads, nworkers, wpc, cur, tpc,
          tcur, spc, now, submitted, deadline, ran, dropped, at_stop>>

WorkerPC == {"none",      \* no such thread in workers_
             "ready",     \* about to lock queue_mutex_ and test the predicate
             "blocking",  \* read the predicate as false, not yet asleep
             "waiting",   \* asleep in task_cv_.wait
             "locked",    \* left the wait, still holds queue_mutex_
             "running",   \* took a task, lock released, body not yet run
             "ran",       \* body returned, active_tasks_ not yet decremented
             "exited"}    \* left workerLoop, not yet joined
TimerPC  == {"none", "top", "in", "waiting", "holding", "exited"}
StopPC   == {"idle", "joinWorkers", "stopTimer", "joinTimer", "clearTasks",
             "clearTimers"}

(* ScheduleTask and Stop lock queue_mutex_ for one action; only a worker   *)
(* keeps it across two.                                                    *)
QueueMutexFree == \A w \in Workers : wpc[w] \notin {"blocking", "locked"}

Alive   == {w \in Workers : wpc[w] \notin {"none", "exited"}}
Waiting == {w \in Workers : wpc[w] = "waiting"}

(* task_cv_.notify_one: some waiter wakes up, if there is one.  The caller *)
(* is a worker going back to the top of its loop, or another thread (0).   *)
(* The code notifies just after it has unlocked: one step here, since a    *)
(* notification that comes late meets a superset of the workers that could *)
(* have missed it.                                                         *)
NotifyOne_Forgotten(self) ==
  wpc' = IF self \in Workers THEN [wpc EXCEPT ![self] = "ready"] ELSE wpc

NotifyOne(self) ==
  LET pc == IF self \in Workers THEN [wpc EXCEPT ![self] = "ready"] ELSE wpc
  IN  \/ Waiting = {} /\ wpc' = pc
      \/ \E w \in Waiting : wpc' = [pc EXCEPT ![w] = "ready"]

NotifyAll_Forgotten == UNCHANGED wpc

(* task_cv_.notify_all *)
NotifyAll == wpc' = [w \in Workers |-> IF wpc[w] = "waiting" THEN "ready" ELSE wpc[w]]

(* Where a task can be. *)
Queued    == {tasks[i] : i \in 1 .. Len(tasks)}
Delayed   == {e.task : e \in timer_queue}
Held      == {cur[w] : w \in Workers} \ {NoTask}
InTransit == {tcur} \ {NoTask}
Somewhere == Queued \union Delayed \union Held \union InTransit \union ran \union dropped

Init ==
  /\ tasks = <<>>
  /\ timer_queue = {}
  /\ stop = FALSE /\ paused = FALSE /\ timer_running = FALSE
  /\ active = 0 /\ completed = 0 /\ failed = 0
  /\ max_concurrent = InitThreads
  /\ worker_threads = InitThreads
  /\ nworkers = 0
  /\ wpc = [w \in Workers |-> "none"]
  /\ cur = [w \in Workers |-> NoTask]
  /\ tpc = "none" /\ tcur = NoTask
  /\ spc = "idle"
  /\ now = 0
  /\ submitted = {}
  /\ deadline = [t \in Tasks |-> 0]
  /\ ran = {}
  /\ dropped = {}
  /\ at_stop = {}

-----------------------------------------------------------------------------
(* Clients *)

(* tasks_.push under queue_mutex_, then notify_one. *)
Push(t) ==
  /\ QueueMutexFree
  /\ tasks' = Append(tasks, t)
  /\ NotifyOne(0)

(* Schedule and, once per element, ScheduleBatch. *)
ScheduleTask(t) ==
  /\ t \notin submitted
  /\ Push(t)
  /\ submitted' = submitted \union {t}
  /\ deadline' = [deadline EXCEPT ![t] = now]
  /\ UNCHANGED <<timer_queue, flag_vars, active, stat_vars, config_vars,
                 nworkers, cur, timer_vars, spc, now, ran, dropped, at_stop>>

WakeTimer_Forgotten == UNCHANGED tpc

(* timer_cv_.notify_one: only the timer thread waits on it. *)
WakeTimer == tpc' = IF tpc = "waiting" THEN "top" ELSE tpc

(* timer_queue_.push under timer_mutex_, then timer_cv_.notify_one. *)
PushTimer(t, delay) ==
  /\ t \notin submitted
  /\ now + delay <= MaxTime
  /\ timer_queue' = timer_queue \union {[task |-> t, expire |-> now + delay]}
  /\ WakeTimer
  /\ submitted' = submitted \union {t}
  /\ deadline' = [deadline EXCEPT ![t] = now + delay]
  /\ UNCHANGED <<tasks, flag_vars, active, stat_vars, config_vars, nworkers,
                 wpc, cur, tcur, spc, now, ran, dropped, at_stop>>

ScheduleAfter(t, delay) ==
  \/ delay <= 0 /\ ScheduleTask(t)
  \/ delay > 0 /\ PushTimer(t, delay)

(* The interval is stored, but timerLoop only locks and unlocks for it:    *)
(* here a periodic task runs once.                                         *)
ScheduleEvery(t, interval) ==
  \/ interval <= 0 /\ ScheduleTask(t)
  \/ interval > 0 /\ PushTimer(t, interval)

(* Neither Pause nor Resume takes queue_mutex_. *)
Pause ==
  /\ paused' = TRUE
  /\ UNCHANGED <<queue_vars, stop, timer_running, active, stat_vars,
                 config_vars, nworkers, wpc, cur, timer_vars, spc, now,
                 hist_vars>>

Resume ==
  /\ paused' = FALSE
  /\ NotifyAll
  /\ UNCHANGED <<queue_vars, stop, timer_running, active, stat_vars,
                 config_vars, nworkers, cur, timer_vars, spc, now, hist_vars>>

(* No lock and, in this implementation, no notification either. *)
SetMaxConcurrent(max) ==
  /\ max_concurrent' = max
  /\ UNCHANGED <<queue_vars, flag_vars, active, stat_vars, worker_threads,
                 nworkers, wpc, cur, timer_vars, spc, now, hist_vars>>

-----------------------------------------------------------------------------
(* The owner *)

Start ==
  /\ spc = "idle"
  /\ nworkers = 0
  /\ stop' = FALSE /\ paused' = FALSE /\ timer_running' = TRUE
  /\ nworkers' = worker_threads
  /\ wpc' = [w \in Workers |-> IF w <= worker_threads THEN "ready" ELSE "none"]
  /\ tpc' = "top"
  /\ UNCHANGED <<queue_vars, active, stat_vars, config_vars, cur, tcur, spc,
                 now, hist_vars>>

(* Only growing is implemented; the new threads start at once, whether or  *)
(* not the pool has been started.                                          *)
SetThreadPoolSize(size) ==
  /\ spc = "idle"
  /\ size > worker_threads
  /\ worker_threads' = size
  /\ nworkers' = nworkers + (size - worker_threads)
  /\ wpc' = [w \in Workers |-> IF w \in nworkers + 1 .. nworkers'
                                 THEN "ready" ELSE wpc[w]]
  /\ UNCHANGED <<queue_vars, flag_vars, active, stat_vars, max_concurrent,
                 cur, timer_vars, spc, now, hist_vars>>

StopBegin ==
  /\ spc = "idle"
  /\ QueueMutexFree
  /\ stop' = TRUE /\ paused' = FALSE
  /\ NotifyAll
  /\ spc' = "joinWorkers"
  /\ at_stop' = IF Alive # {} THEN Queued ELSE {}
  /\ UNCHANGED <<queue_vars, timer_running, active, stat_vars, config_vars,
                 nworkers, cur, timer_vars, now, submitted, deadline, ran,
                 dropped>>

StopJoinWorkers ==
  /\ spc = "joinWorkers"
  /\ \A w \in 1 .. nworkers : wpc[w] = "exited"
  /\ nworkers' = 0
  /\ wpc' = [w \in Workers |-> "none"]
  /\ spc' = "stopTimer"
  /\ UNCHANGED <<queue_vars, flag_vars, active, stat_vars, config_vars, cur,
                 timer_vars, now, hist_vars>>

StopTimer ==
  /\ spc = "stopTimer"
  /\ timer_running' = FALSE
  /\ WakeTimer
  /\ spc' = "joinTimer"
  /\ UNCHANGED <<queue_vars, stop, paused, active, stat_vars, config_vars,
                 nworkers, wpc, cur, tcur, now, hist_vars>>

(* timer_thread_.join() returns, or there is no such thread. *)
TimerJoinable == tpc \in {"none", "exited"}

StopJoinTimer ==
  /\ spc = "joinTimer"
  /\ TimerJoinable
  /\ tpc' = "none"
  /\ spc' = "clearTasks"
  /\ UNCHANGED <<queue_vars, flag_vars, active, stat_vars, config_vars,
                 nworkers, wpc, cur, tcur, now, hist_vars>>

StopClearTasks ==
  /\ spc = "clearTasks"
  /\ tasks' = <<>>
  /\ dropped' = dropped \union Queued
  /\ spc' = "clearTimers"
  /\ UNCHANGED <<timer_queue, flag_vars, active, stat_vars, config_vars,
                 nworkers, wpc, cur, timer_vars, now, submitted, deadline, ran,
                 at_stop>>

StopClearTimers ==
  /\ spc = "clearTimers"
  /\ timer_queue' = {}
  /\ dropped' = dropped \union Delayed
  /\ active' = 0 /\ completed' = 0 /\ failed' = 0
  /\ spc' = "idle"
  /\ UNCHANGED <<tasks, flag_vars, config_vars, nworkers, wpc, cur,
                 timer_vars, now, submitted, deadline, ran, at_stop>>

StopSteps ==
  \/ StopJoinWorkers \/ StopTimer \/ StopJoinTimer
  \/ StopClearTasks \/ StopClearTimers

-----------------------------------------------------------------------------
(* workerLoop *)

AtLimit_OffByOne == max_concurrent > 0 /\ active > max_concurrent

(* active_tasks_ has reached max_concurrent_ (0: unlimited). *)
AtLimit == max_concurrent > 0 /\ active >= max_concurrent

(* The predicate of task_cv_.wait. *)
MayRun == stop \/ (tasks # <<>> /\ ~paused /\ ~AtLimit)

TestPredicate(w) ==
  /\ wpc[w] = "ready"
  /\ QueueMutexFree
  /\ wpc' = [wpc EXCEPT ![w] = IF MayRun THEN "locked" ELSE "blocking"]
  /\ UNCHANGED <<queue_vars, flag_vars, active, stat_vars, config_vars,
                 nworkers, cur, timer_vars, spc, now, hist_vars>>

Block(w) ==
  /\ wpc[w] = "blocking"
  /\ wpc' = [wpc EXCEPT ![w] = "waiting"]
  /\ UNCHANGED <<queue_vars, flag_vars, active, stat_vars, config_vars,
                 nworkers, cur, timer_vars, spc, now, hist_vars>>

(* C++ lets a wait return for no reason. *)
SpuriousWakeup(w) ==
  /\ wpc[w] = "waiting"
  /\ wpc' = [wpc EXCEPT ![w] = "ready"]
  /\ UNCHANGED <<queue_vars, flag_vars, active, stat_vars, config_vars,
                 nworkers, cur, timer_vars, spc, now, hist_vars>>

Finished_DropsQueue == stop

Finished == stop /\ tasks = <<>>

Exit(w) ==
  /\ wpc[w] = "locked"
  /\ Finished
  /\ wpc' = [wpc EXCEPT ![w] = "exited"]
  /\ UNCHANGED <<queue_vars, flag_vars, active, stat_vars, config_vars,
                 nworkers, cur, timer_vars, spc, now, hist_vars>>

(* The two `continue`s after the wait. *)
Retry(w) ==
  /\ wpc[w] = "locked"
  /\ ~Finished
  /\ paused \/ tasks = <<>> \/ AtLimit
  /\ wpc' = [wpc EXCEPT ![w] = "ready"]
  /\ UNCHANGED <<queue_vars, flag_vars, active, stat_vars, config_vars,
                 nworkers, cur, timer_vars, spc, now, hist_vars>>

PopTask_Clears == tasks' = <<>>

PopTask == tasks' = Tail(tasks)

CountActive_Forgotten == UNCHANGED active

CountActive == active' = active + 1

Take(w) ==
  /\ wpc[w] = "locked"
  /\ ~Finished
  /\ tasks # <<>> /\ ~paused /\ ~AtLimit
  /\ cur' = [cur EXCEPT ![w] = Head(tasks)]
  /\ PopTask
  /\ CountActive
  /\ wpc' = [wpc EXCEPT ![w] = "running"]
  /\ UNCHANGED <<timer_queue, flag_vars, stat_vars, config_vars, nworkers,
                 timer_vars, spc, now, hist_vars>>

(* task() inside try/catch: it returns or throws. *)
Execute(w) ==
  /\ wpc[w] = "running"
  /\ ran' = ran \union {cur[w]}
  /\ cur' = [cur EXCEPT ![w] = NoTask]
  /\ \/ completed' = completed + 1 /\ UNCHANGED failed
     \/ failed' = failed + 1 /\ UNCHANGED completed
  /\ wpc' = [wpc EXCEPT ![w] = "ran"]
  /\ UNCHANGED <<queue_vars, flag_vars, active, config_vars, nworkers,
                 timer_vars, spc, now, submitted, deadline, dropped, at_stop>>

Release(w) ==
  /\ wpc[w] = "ran"
  /\ active' = active - 1
  /\ NotifyOne(w)
  /\ UNCHANGED <<queue_vars, flag_vars, stat_vars, config_vars, nworkers,
                 cur, timer_vars, spc, now, hist_vars>>

Worker(w) ==
  \/ TestPredicate(w) \/ Block(w) \/ Exit(w) \/ Retry(w)
  \/ Take(w) \/ Execute(w) \/ Release(w)

-----------------------------------------------------------------------------
(* timerLoop.  Every write its waits depend on is made under timer_mutex_, *)
(* so testing and sleeping is one step.  The wait_for of an entry that is  *)
(* not due has a predicate that already holds: the loop spins.             *)

TimerTest ==
  /\ tpc = "top"
  /\ tpc' = IF timer_running THEN "in" ELSE "exited"
  /\ UNCHANGED <<queue_vars, flag_vars, active, stat_vars, config_vars,
                 nworkers, wpc, cur, tcur, spc, now, hist_vars>>

TimerWait ==
  /\ tpc = "in"
  /\ timer_queue = {}
  /\ tpc' = IF timer_running THEN "waiting" ELSE "exited"
  /\ UNCHANGED <<queue_vars, flag_vars, active, stat_vars, config_vars,
                 nworkers, wpc, cur, tcur, spc, now, hist_vars>>

IsDue_Unchecked(e) == e \in timer_queue

IsDue(e) == e.expire <= now

(* timer_queue_.top(): the heap gives some entry of least expire time. *)
IsTop(e) == e \in timer_queue /\ \A f \in timer_queue : e.expire <= f.expire

TimerPop ==
  /\ tpc = "in"
  /\ \E e \in timer_queue :
       /\ IsTop(e)
       /\ IsDue(e)
       /\ tcur' = e.task
       /\ timer_queue' = timer_queue \ {e}
  /\ tpc' = "holding"
  /\ UNCHANGED <<tasks, flag_vars, active, stat_vars, config_vars, nworkers,
                 wpc, cur, spc, now, hist_vars>>

TimerSpin ==
  /\ tpc = "in"
  /\ timer_queue # {}
  /\ \A e \in timer_queue : ~IsDue(e)
  /\ tpc' = "top"
  /\ UNCHANGED <<queue_vars, flag_vars, active, stat_vars, config_vars,
                 nworkers, wpc, cur, tcur, spc, now, hist_vars>>

TimerSubmit ==
  /\ tpc = "holding"
  /\ Push(tcur)
  /\ tcur' = NoTask
  /\ tpc' = "top"
  /\ UNCHANGED <<timer_queue, flag_vars, active, stat_vars, config_vars,
                 nworkers, cur, spc, now, hist_vars>>

Timer == TimerTest \/ TimerWait \/ TimerPop \/ TimerSpin \/ TimerSubmit

Tick ==
  /\ now < MaxTime
  /\ now' = now + 1
  /\ UNCHANGED <<queue_vars, flag_vars, active, stat_vars, config_vars,
                 nworkers, wpc, cur, timer_vars, spc, hist_vars>>

-----------------------------------------------------------------------------
Submit ==
  \E t \in Tasks :
    \/ ScheduleTask(t)
    \/ \E d \in Delays : ScheduleAfter(t, d) \/ ScheduleEvery(t, d)

Threads ==
  \/ \E w \in Workers : Worker(w) \/ SpuriousWakeup(w)
  \/ Timer
  \/ StopSteps
  \/ Tick

Next ==
  \/ Submit
  \/ \E max \in Limits : SetMaxConcurrent(max)
  \/ Start
  \/ \E size \in Workers : SetThreadPoolSize(size)
  \/ StopBegin
  \/ Threads
  \/ Pause \/ Resume

(* The operating system schedules every thread, mutexes and the clock      *)
(* advance; nobody is obliged to call the API, and a sleeping thread is    *)
(* not obliged to wake up by itself.                                       *)
Fairness ==
  /\ \A w \in Workers : SF_vars(Worker(w))
  /\ SF_vars(Timer)
  /\ WF_vars(StopSteps)
  /\ WF_vars(Tick)

Spec     == Init /\ [][Next]_vars
FairSpec == Spec /\ Fairness

-----------------------------------------------------------------------------
(* Properties *)

(* Every variable stays in its type. *)
TypeOK ==
  /\ tasks \in Seq(Tasks)
  /\ timer_queue \subseteq [task : Tasks, expire : Clock]
  /\ stop \in BOOLEAN /\ paused \in BOOLEAN /\ timer_running \in BOOLEAN
  /\ active \in Nat /\ completed \in Nat /\ failed \in Nat
  /\ max_concurrent \in Nat
  /\ worker_threads \in Workers
  /\ nworkers \in 0 .. worker_threads
  /\ wpc \in [Workers -> WorkerPC]
  /\ cur \in [Workers -> Tasks \union {NoTask}]
  /\ tpc \in TimerPC
  /\ tcur \in Tasks \union {NoTask}
  /\ spc \in StopPC
  /\ now \in Clock
  /\ submitted \subseteq Tasks
  /\ deadline \in [Tasks -> Clock]
  /\ ran \subseteq Tasks
  /\ dropped \subseteq Tasks
  /\ at_stop \subseteq Tasks

(* Every task a client handed over is in exactly one place - the FIFO      *)
(* (once), the timer queue (once), the timer thread's hand, one worker's   *)
(* hand, or it has run, or Stop() discarded it - and nothing else is in    *)
(* any, whatever workers, timer and Stop() do at once: a race loses no     *)
(* task and runs none twice.                                               *)
NoTaskLostOrDuplicated ==
  /\ Somewhere = submitted
  /\ \A i, j \in 1 .. Len(tasks) : tasks[i] = tasks[j] => i = j
  /\ \A e, f \in timer_queue : e.task = f.task => e = f
  /\ \A v, w \in Workers : cur[v] = cur[w] /\ cur[v] # NoTask => v = w
  /\ Queued \intersect (Delayed \union Held \union InTransit \union ran \union dropped) = {}
  /\ Delayed \intersect (Held \union InTransit \union ran \union dropped) = {}
  /\ Held \intersect (InTransit \union ran \union dropped) = {}
  /\ InTransit \intersect (ran \union dropped) = {}
  /\ ran \intersect dropped = {}

(* active_tasks_ counts the workers between taking a task and giving its   *)
(* slot back, although it is decremented outside queue_mutex_ and reset by *)
(* Stop(): the size_t never wraps and the concurrency limit is enforced on *)
(* the real number of running tasks.                                       *)
Busy == {w \in Workers : wpc[w] \in {"running", "ran"}}
ActiveCountsBusyWorkers == active = Cardinality(Busy)

(* No worker takes a task when max_concurrent_ tasks are already running,  *)
(* even if the limit was just changed by a thread that holds no lock.      *)
LimitRespected ==
  [][\A w \in Workers : wpc[w] = "locked" /\ wpc'[w] = "running" =>
       max_concurrent = 0 \/ Cardinality(Busy) < max_concurrent]_vars

(* A task handed to ScheduleAfter/ScheduleEvery is nowhere but in the      *)
(* timer queue before its time has come.                                   *)
NeverEarly ==
  \A t \in Queued \union Held \union InTransit \union ran : deadline[t] <= now

(* Stop() lets the workers drain the queue: what was queued when Stop()    *)
(* found a live worker is never thrown away.                               *)
StopDrainsQueue == at_stop \intersect dropped = {}

(* When Stop() has returned, no thread of the pool is left that could      *)
(* touch it, and the counters are back at zero.                            *)
NoOrphanThreads ==
  spc = "idle" /\ nworkers = 0 =>
    /\ \A w \in Workers : wpc[w] = "none" /\ cur[w] = NoTask
    /\ tpc = "none" /\ tcur = NoTask
    /\ active = 0 /\ completed = 0 /\ failed = 0

(* Stop() returns, if nobody calls Pause(). *)
StopReturns == []~paused => (spc # "idle" ~> spc = "idle")

(* If nobody calls Pause(), a task in the queue of a running pool is       *)
(* executed (or discarded by a Stop() that came later): no wakeup is lost  *)
(* between ScheduleTask, the concurrency limit and the workers.            *)
QueuedTaskSettles ==
  []~paused =>
    \A t \in Tasks :
      (t \in Queued /\ nworkers > 0 /\ ~stop) ~> (t \in ran \union dropped)

(* A delayed task of a pool whose timer thread runs leaves the timer queue.*)
TimerFires ==
  \A t \in Tasks : (t \in Delayed /\ timer_running) ~> (t \notin Delayed)

(* What the invariants above rest on: which threads exist in which phase   *)
(* of Start() and Stop(), and who holds a task.                            *)
ThreadsMatchPhase ==
  /\ \A w \in Workers : wpc[w] = "none" <=> w > nworkers
  /\ \A w \in Workers : wpc[w] = "running" <=> cur[w] # NoTask
  /\ tpc = "holding" <=> tcur # NoTask
  /\ spc \notin {"idle", "joinWorkers"} => nworkers = 0
  /\ spc \in {"clearTasks", "clearTimers"} => tpc = "none"
  /\ spc = "idle" /\ nworkers = 0 => tpc = "none"

(* Where the tasks are that were queued when Stop() was called. *)
DrainProgress ==
  /\ at_stop \subseteq Queued \union Held \union ran
  /\ (\A w \in 1 .. nworkers : wpc[w] = "exited") => at_stop \intersect Queued = {}
  /\ spc # "joinWorkers" => at_stop \subseteq ran

(* test_async_scheduler.cpp:143-146: after Resume() the tasks queued in    *)
(* the meantime are executed.                                              *)
ResumedTaskRuns ==
  \A t \in Tasks :
    (t \in Queued /\ ~paused /\ nworkers > 0 /\ ~stop)
      ~> (t \in ran \union dropped \/ paused \/ stop)

=============================================================================
