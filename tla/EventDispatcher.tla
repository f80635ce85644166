--------------------------- MODULE EventDispatcher ---------------------------
(***************************************************************************)
(* DefaultEventDispatcher of src/core/Event/event_dispatcher.cpp, the      *)
(* publish/subscribe hub every connection reports its events, data and     *)
(* errors to.                                                              *)
(*                                                                         *)
(* Publishers are the threads that call Publish... and RouteEvent; in      *)
(* synchronous mode (the default) they deliver the message themselves, in  *)
(* asynchronous mode they queue it for the worker threads.  Any thread may *)
(* (un)register listeners and filters meanwhile.  One action is one        *)
(* critical section of mutex_ or queue_mutex_, one access to an atomic, or *)
(* one call of a listener: listeners are called with no lock held.  The    *)
(* destructor writes stop_ and notifies WITHOUT queue_mutex_, so a         *)
(* worker's test of the wait predicate and its falling asleep are two      *)
(* steps.                                                                  *)
(***************************************************************************)
EXTENDS Integers, Sequences, FiniteSets

CONSTANTS
  Publishers,   \* threads that publish
  Pool,         \* the worker threads, started by the constructor
  Msgs,         \* messages, each published at most once
  Subs,         \* IEventSubscriber objects: records with a field id
  Callbacks,    \* records [kind, event]: what Subscribe... registers
  Filters,      \* an event filter is the set of messages it rejects
  Sizes,        \* arguments of SetMaxQueueSize (0: unbounded)
  MaxQueue,     \* initial max_queue_size_ (1000 in the code)
  NoMsg

Kinds  == {"event", "data", "error", "route"}
Events == {m.event : m \in Msgs} \union {c.event : c \in Callbacks}
Ids    == {s.id : s \in Subs} \union {m.key : m \in Msgs}

ASSUME DispatcherAssumption ==
  /\ Publishers \intersect Pool = {}
  /\ \A m \in Msgs : m.kind \in Kinds
  /\ \A c \in Callbacks : c.kind \in {"event", "data", "error"}
  /\ Subs \intersect Callbacks = {}
  /\ Filters \subseteq SUBSET Msgs
  /\ Sizes \subseteq Nat /\ MaxQueue \in Nat
  /\ NoMsg \notin Msgs

VARIABLES
  stop,            \* stop_
  max_queue_size,  \* max_queue_size_
  async_dispatch,  \* async_dispatch_
  task_queue,      \* task_queue_: each task stands for the message it captured
  subscribers,     \* the values of subscribers_: at most one per id
  callbacks,       \* typed_callbacks_, data_callbacks_ and error_callbacks_
  filters,         \* filters_
  total,           \* total_events_, total_data_, total_errors_
  stats,           \* stats_
  pc,              \* where each publisher (idle, count, stats, route, dispatch,
                   \* enqueue) and worker (top, ready, blocking, waiting,
                   \* exited) is, or both (subscribers, callSubscribers,
                   \* callbacks, callCallbacks)
  msg,             \* the message it is working on
  todo,            \* its snapshot: the listeners it has still to call
  target,          \* what RouteEvent captured for a message
  dpc,             \* where the destructor is
  calls,           \* history: how often each listener got each message
  outcome,         \* history: what became of each message
  steady,          \* history: listeners registered ever since its publication
  seen,            \* history: listeners registered at some moment since then
  missed           \* history: workers the destructor's notify_all missed

Threads   == Publishers \union Pool
Listeners == Subs \union Callbacks
Totals    == {"event", "data", "error"}

config_vars == <<max_queue_size, async_dispatch>>
reg_vars    == <<subscribers, callbacks, filters>>
stat_vars   == <<total, stats>>
run_vars    == <<pc, msg, todo>>
hist_vars   == <<steady, seen>>

vars == <<stop, max_queue_size, async_dispatch, task_queue, subscribers,
          callbacks, filters, total, stats, pc, msg, todo, target, dpc,
          calls, outcome, steady, seen, missed>>

Registered == subscribers \union callbacks

(* The callbacks notifyTypedCallbacks and notifyCallbacks select. *)
Matches(c, m) ==
  \/ c.kind = "event" /\ m.kind \in {"event", "route"} /\ c.event = m.event
  \/ c.kind \in {"data", "error"} /\ c.kind = m.kind

(* Whom the code tells of m if registered throughout: for a routed message *)
(* the subscriber named by the key and also the callbacks of its type.     *)
Concerns(l, m) ==
  \/ l \in Subs /\ (m.kind = "route" => l.id = m.key)
  \/ l \in Callbacks /\ Matches(l, m)

InFlight == {m \in Msgs : outcome[m] = "published"}

Init ==
  /\ stop = FALSE
  /\ max_queue_size = MaxQueue
  /\ async_dispatch = FALSE
  /\ task_queue = <<>>
  /\ subscribers = {} /\ callbacks = {} /\ filters = <<>>
  /\ total = [k \in Totals |-> 0]
  /\ stats = [total |-> [k \in Totals |-> 0], subscribers |-> 0,
              counts |-> [e \in Events |-> 0]]
  /\ pc = [x \in Threads |-> IF x \in Pool THEN "top" ELSE "idle"]
  /\ msg = [x \in Threads |-> NoMsg]
  /\ todo = [x \in Threads |-> {}]
  /\ target = [m \in Msgs |-> {}]
  /\ dpc = "alive"
  /\ calls = [m \in Msgs |-> [l \in Listeners |-> 0]]
  /\ outcome = [m \in Msgs |-> "none"]
  /\ steady = [m \in Msgs |-> {}]
  /\ seen = [m \in Msgs |-> {}]
  /\ missed = {}

Goto(x, where) == pc' = [pc EXCEPT ![x] = where]

(* Nobody calls into the object once its destructor runs. *)
Usable == dpc = "alive"

-----------------------------------------------------------------------------
(* Registration: each operation is one critical section of mutex_. *)

(* How a change of the registered listeners affects messages in flight. *)
Observe(registered) ==
  /\ steady' = [m \in Msgs |-> IF m \in InFlight THEN steady[m] \intersect registered
                                                 ELSE steady[m]]
  /\ seen' = [m \in Msgs |-> IF m \in InFlight THEN seen[m] \union registered
                                               ELSE seen[m]]

(* stats_.subscriber_count is recounted, never stepped. *)
SubscriberCount(new) == Cardinality(new)

SetSubscribers(new) ==
  /\ subscribers' = new
  /\ stats' = [stats EXCEPT !.subscribers = SubscriberCount(new)]
  /\ Observe(new \union callbacks)
  /\ UNCHANGED <<stop, config_vars, task_queue, callbacks, filters, total,
                 run_vars, target, dpc, calls, outcome, missed>>

RegisterSubscriber(s) ==
  /\ Usable
  /\ SetSubscribers({o \in subscribers : o.id # s.id} \union {s})

UnregisterSubscriber(id) ==
  /\ Usable
  /\ SetSubscribers({o \in subscribers : o.id # id})

UnregisterAllSubscribers ==
  /\ Usable
  /\ SetSubscribers({})

(* SubscribeEvent, SubscribeData, SubscribeError; registering the same     *)
(* callable twice is left out.                                             *)
Subscribe(c) ==
  /\ Usable
  /\ c \notin callbacks
  /\ callbacks' = callbacks \union {c}
  /\ Observe(subscribers \union callbacks')
  /\ UNCHANGED <<stop, config_vars, task_queue, subscribers, filters,
                 stat_vars, run_vars, target, dpc, calls, outcome, missed>>

(* Bound: each filter once. *)
AddEventFilter(f) ==
  /\ Usable
  /\ \A i \in 1 .. Len(filters) : filters[i] # f
  /\ filters' = Append(filters, f)
  /\ UNCHANGED <<stop, config_vars, task_queue, subscribers, callbacks,
                 stat_vars, run_vars, target, dpc, calls, outcome, hist_vars,
                 missed>>

RemoveEventFilter(index) ==
  /\ Usable
  /\ index < Len(filters)
  /\ filters' = SubSeq(filters, 1, index) \o SubSeq(filters, index + 2, Len(filters))
  /\ UNCHANGED <<stop, config_vars, task_queue, subscribers, callbacks,
                 stat_vars, run_vars, target, dpc, calls, outcome, hist_vars,
                 missed>>

SetMaxQueueSize(size) ==
  /\ Usable
  /\ max_queue_size' = size
  /\ UNCHANGED <<stop, async_dispatch, task_queue, reg_vars, stat_vars,
                 run_vars, target, dpc, calls, outcome, hist_vars, missed>>

SetAsyncDispatch(enable) ==
  /\ Usable
  /\ async_dispatch' = enable
  /\ UNCHANGED <<stop, max_queue_size, task_queue, reg_vars, stat_vars,
                 run_vars, target, dpc, calls, outcome, hist_vars, missed>>

-----------------------------------------------------------------------------
(* Publishing *)

applyFilters(m) == \A i \in 1 .. Len(filters) : m \notin filters[i]

(* PublishEvent and RouteEvent ask the filters first, PublishData and      *)
(* PublishError do not.                                                    *)
Publish(p, m) ==
  /\ Usable
  /\ pc[p] = "idle"
  /\ outcome[m] = "none"
  /\ steady' = [steady EXCEPT ![m] = Registered]
  /\ seen' = [seen EXCEPT ![m] = Registered]
  /\ IF m.kind \in {"event", "route"} /\ ~applyFilters(m)
       THEN /\ outcome' = [outcome EXCEPT ![m] = "filtered"]
            /\ UNCHANGED <<pc, msg>>
       ELSE /\ outcome' = [outcome EXCEPT ![m] = "published"]
            /\ Goto(p, IF m.kind = "route" THEN "route" ELSE "count")
            /\ msg' = [msg EXCEPT ![p] = m]
  /\ UNCHANGED <<stop, config_vars, task_queue, reg_vars, stat_vars, todo,
                 target, dpc, calls, missed>>

(* total_events_++, total_data_++ or total_errors_++ *)
Count(p) ==
  /\ pc[p] = "count"
  /\ total' = [total EXCEPT ![msg[p].kind] = @ + 1]
  /\ Goto(p, "stats")
  /\ UNCHANGED <<stop, config_vars, task_queue, reg_vars, stats, msg, todo,
                 target, dpc, calls, outcome, hist_vars, missed>>

(* stats_ as PublishEvent, PublishData and PublishError leave it: the      *)
(* counters are read when mutex_ is held, not when they were incremented.  *)
CopiedTotals_Forgotten == stats.total

CopiedTotals == total

RecordStats(p) ==
  /\ pc[p] = "stats"
  /\ stats' = [total |-> CopiedTotals,
               subscribers |-> SubscriberCount(subscribers),
               counts |-> [e \in Events |->
                 IF msg[p].kind = "event" /\ e = msg[p].event
                   THEN stats.counts[e] + 1 ELSE stats.counts[e]]]
  /\ Goto(p, "dispatch")
  /\ UNCHANGED <<stop, config_vars, task_queue, reg_vars, total, msg, todo,
                 target, dpc, calls, outcome, hist_vars, missed>>

(* RouteEvent looks its target up when it publishes. *)
LookUpRoute(p) ==
  /\ pc[p] = "route"
  /\ target' = [target EXCEPT ![msg[p]] = {s \in subscribers : s.id = msg[p].key}]
  /\ Goto(p, "dispatch")
  /\ UNCHANGED <<stop, config_vars, task_queue, reg_vars, stat_vars, msg,
                 todo, dpc, calls, outcome, hist_vars, missed>>

Full == max_queue_size > 0 /\ Len(task_queue) >= max_queue_size

QueueMutexFree == \A w \in Pool : pc[w] # "blocking"

Waiting == {w \in Pool : pc[w] = "waiting"}

NotifyOne_Forgotten(p) == Goto(p, "idle")

(* queue_cv_.notify_one by publisher p, which returns to its caller. *)
NotifyOne(p) ==
  \/ Waiting = {} /\ Goto(p, "idle")
  \/ \E w \in Waiting : pc' = [pc EXCEPT ![p] = "idle", ![w] = "ready"]

Enqueue_AlsoRuns(p) ==
  /\ ~Full
  /\ task_queue' = Append(task_queue, msg[p])
  /\ Goto(p, "subscribers")
  /\ UNCHANGED <<outcome, msg>>

Enqueue(p) ==
  /\ ~Full
  /\ task_queue' = Append(task_queue, msg[p])
  /\ NotifyOne(p)
  /\ msg' = [msg EXCEPT ![p] = NoMsg]
  /\ UNCHANGED outcome

(* A full queue discards the message; the publisher is not told. *)
Discard(p) ==
  /\ Full
  /\ outcome' = [outcome EXCEPT ![msg[p]] = "dropped"]
  /\ Goto(p, "idle")
  /\ msg' = [msg EXCEPT ![p] = NoMsg]
  /\ UNCHANGED task_queue

(* async_dispatch_ is read before queue_mutex_ is taken and may be stale   *)
(* by the time the task is pushed.                                         *)
dispatchTask(p) ==
  /\ pc[p] = "dispatch"
  /\ Goto(p, IF async_dispatch THEN "enqueue" ELSE "subscribers")
  /\ UNCHANGED <<stop, config_vars, task_queue, reg_vars, stat_vars, msg,
                 todo, target, dpc, calls, outcome, hist_vars, missed>>

dispatchLocked(p) ==
  /\ pc[p] = "enqueue"
  /\ QueueMutexFree
  /\ Enqueue(p) \/ Discard(p)
  /\ UNCHANGED <<stop, config_vars, reg_vars, stat_vars, todo, target, dpc,
                 calls, hist_vars, missed>>

-----------------------------------------------------------------------------
(* The task itself, run by the publisher or by a worker. *)

(* notifySubscribers copies the listeners under mutex_; a routed message   *)
(* has its target already.                                                 *)
SnapshotSubscribers(x) ==
  /\ pc[x] = "subscribers"
  /\ todo' = [todo EXCEPT ![x] = IF msg[x].kind = "route" THEN target[msg[x]]
                                                          ELSE subscribers]
  /\ Goto(x, "callSubscribers")
  /\ UNCHANGED <<stop, config_vars, task_queue, reg_vars, stat_vars, msg,
                 target, dpc, calls, outcome, hist_vars, missed>>

Selected_All(m) == {c \in callbacks : c.kind = m.kind}

Selected(m) == {c \in callbacks : Matches(c, m)}

(* notifyTypedCallbacks or notifyCallbacks, once the subscribers are done. *)
SnapshotCallbacks(x) ==
  /\ pc[x] = "callSubscribers"
  /\ todo[x] = {}
  /\ todo' = [todo EXCEPT ![x] = Selected(msg[x])]
  /\ Goto(x, "callCallbacks")
  /\ UNCHANGED <<stop, config_vars, task_queue, reg_vars, stat_vars, msg,
                 target, dpc, calls, outcome, hist_vars, missed>>

(* OnEvent, OnData, OnError or the callback; the order in which            *)
(* unordered_map yields the subscribers is not determined.                 *)
Call(x, l) ==
  /\ pc[x] \in {"callSubscribers", "callCallbacks"}
  /\ l \in todo[x]
  /\ todo' = [todo EXCEPT ![x] = @ \ {l}]
  /\ calls' = [calls EXCEPT ![msg[x]][l] = @ + 1]
  /\ UNCHANGED <<stop, config_vars, task_queue, reg_vars, stat_vars, pc, msg,
                 target, dpc, outcome, hist_vars, missed>>

Finish(x) ==
  /\ pc[x] = "callCallbacks"
  /\ todo[x] = {}
  /\ outcome' = [outcome EXCEPT ![msg[x]] = "done"]
  /\ msg' = [msg EXCEPT ![x] = NoMsg]
  /\ Goto(x, IF x \in Pool THEN "top" ELSE "idle")
  /\ UNCHANGED <<stop, config_vars, task_queue, reg_vars, stat_vars, todo,
                 target, dpc, calls, hist_vars, missed>>

Deliver(x) ==
  \/ SnapshotSubscribers(x) \/ SnapshotCallbacks(x) \/ Finish(x)
  \/ \E l \in Listeners : Call(x, l)

PublisherStep(p) ==
  \/ Count(p) \/ RecordStats(p) \/ LookUpRoute(p)
  \/ dispatchTask(p) \/ dispatchLocked(p) \/ Deliver(p)

-----------------------------------------------------------------------------
(* workerLoop *)

TestStop(w) ==
  /\ pc[w] = "top"
  /\ Goto(w, IF stop THEN "exited" ELSE "ready")
  /\ UNCHANGED <<stop, config_vars, task_queue, reg_vars, stat_vars, msg,
                 todo, target, dpc, calls, outcome, hist_vars, missed>>

Take(w) ==
  /\ pc[w] = "ready"
  /\ QueueMutexFree
  /\ task_queue # <<>>
  /\ msg' = [msg EXCEPT ![w] = Head(task_queue)]
  /\ task_queue' = Tail(task_queue)
  /\ Goto(w, "subscribers")
  /\ UNCHANGED <<stop, config_vars, reg_vars, stat_vars, todo, target, dpc,
                 calls, outcome, hist_vars, missed>>

(* The predicate fails (or stop_ ends the loop). *)
FindEmpty(w) ==
  /\ pc[w] = "ready"
  /\ QueueMutexFree
  /\ task_queue = <<>>
  /\ Goto(w, IF stop THEN "exited" ELSE "blocking")
  /\ UNCHANGED <<stop, config_vars, task_queue, reg_vars, stat_vars, msg,
                 todo, target, dpc, calls, outcome, hist_vars, missed>>

Block(w) ==
  /\ pc[w] = "blocking"
  /\ Goto(w, "waiting")
  /\ UNCHANGED <<stop, config_vars, task_queue, reg_vars, stat_vars, msg,
                 todo, target, dpc, calls, outcome, hist_vars, missed>>

SpuriousWakeup(w) ==
  /\ pc[w] = "waiting"
  /\ Goto(w, "ready")
  /\ UNCHANGED <<stop, config_vars, task_queue, reg_vars, stat_vars, msg,
                 todo, target, dpc, calls, outcome, hist_vars, missed>>

WorkerStep(w) == TestStop(w) \/ Take(w) \/ FindEmpty(w) \/ Block(w) \/ Deliver(w)

-----------------------------------------------------------------------------
(* The destructor, called when no publisher is inside the object. *)

DestroyStop ==
  /\ dpc = "alive"
  /\ \A p \in Publishers : pc[p] = "idle"
  /\ stop' = TRUE
  /\ dpc' = "notify"
  /\ UNCHANGED <<config_vars, task_queue, reg_vars, stat_vars, run_vars,
                 target, calls, outcome, hist_vars, missed>>

Wake_OneOnly ==
  \/ Waiting = {} /\ UNCHANGED pc
  \/ \E w \in Waiting : Goto(w, "ready")

Wake == pc' = [x \in Threads |-> IF x \in Waiting THEN "ready" ELSE pc[x]]

DestroyNotify ==
  /\ dpc = "notify"
  /\ Wake
  /\ missed' = {w \in Pool : pc[w] = "blocking"}
  /\ dpc' = "join"
  /\ UNCHANGED <<stop, config_vars, task_queue, reg_vars, stat_vars, msg,
                 todo, target, calls, outcome, hist_vars>>

Joinable == \A w \in Pool : pc[w] = "exited"

DestroyJoin ==
  /\ dpc = "join"
  /\ Joinable
  /\ dpc' = "destroyed"
  /\ UNCHANGED <<stop, config_vars, task_queue, reg_vars, stat_vars, run_vars,
                 target, calls, outcome, hist_vars, missed>>

-----------------------------------------------------------------------------
Configure ==
  \/ \E s \in Subs : RegisterSubscriber(s)
  \/ \E id \in Ids : UnregisterSubscriber(id)
  \/ UnregisterAllSubscribers
  \/ \E c \in Callbacks : Subscribe(c)
  \/ \E f \in Filters : AddEventFilter(f)
  \/ \E i \in 0 .. Len(filters) : RemoveEventFilter(i)
  \/ \E n \in Sizes : SetMaxQueueSize(n)
  \/ \E b \in BOOLEAN : SetAsyncDispatch(b)

Destroy == DestroyStop \/ DestroyNotify \/ DestroyJoin

Next ==
  \/ Configure
  \/ \E p \in Publishers : (\E m \in Msgs : Publish(p, m)) \/ PublisherStep(p)
  \/ \E w \in Pool : WorkerStep(w) \/ SpuriousWakeup(w)
  \/ Destroy

(* Threads run, mutexes are granted and listeners return; nobody has to    *)
(* publish, and the destructor, once begun, goes on.                       *)
Fairness ==
  /\ \A p \in Publishers : SF_vars(PublisherStep(p))
  /\ \A w \in Pool : SF_vars(WorkerStep(w))
  /\ WF_vars(DestroyNotify \/ DestroyJoin)

Spec     == Init /\ [][Next]_vars
FairSpec == Spec /\ Fairness

-----------------------------------------------------------------------------
(* Properties *)

(* A published message that is not settled is in exactly one place: one    *)
(* thread's hand or one slot of task_queue_; a settled one is in none.     *)
(* Switching between the modes while messages are queued loses and repeats *)
(* nothing.                                                                *)
MessageInOnePlace ==
  \A m \in Msgs :
    LET held   == {x \in Threads : msg[x] = m}
        queued == {i \in 1 .. Len(task_queue) : task_queue[i] = m}
    IN  Cardinality(held) + Cardinality(queued) = IF m \in InFlight THEN 1 ELSE 0

(* The messages of kind k past a publisher's counter, and past stats_. *)
Counted(k) ==
  {m \in Msgs : /\ m.kind = k /\ outcome[m] \notin {"none", "filtered"}
                /\ \A p \in Publishers : pc[p] = "count" => msg[p] # m}
Recorded(k) == {m \in Counted(k) : \A p \in Publishers : pc[p] = "stats" => msg[p] # m}

(* The numbers GetStats() returns, though the totals are copied from the   *)
(* atomics by whoever holds mutex_: a total lies between the messages      *)
(* recorded and the messages counted, so it is exact whenever nobody is    *)
(* between an increment and its critical section; the count of each event  *)
(* type is exact, and so is the number of subscribers.                     *)
StatsAgree ==
  /\ \A k \in Totals :
       /\ total[k] = Cardinality(Counted(k))
       /\ Cardinality(Recorded(k)) <= stats.total[k] /\ stats.total[k] <= total[k]
  /\ \A e \in Events :
       stats.counts[e] = Cardinality({m \in Recorded("event") : m.event = e})
  /\ stats.subscribers = Cardinality(subscribers)

(* However registration races with delivery, a listener gets a message at  *)
(* most once, only if it was registered at some time since the publication,*)
(* and certainly if it was registered all the time until the delivery      *)
(* ended.  A filtered or dropped message reaches nobody.  Whom a routed    *)
(* message concerns is taken from the code, callbacks of its event type    *)
(* included; RoutedOnlyToTarget says what the interface promises instead.  *)
DeliveredOnceToTheRegistered ==
  \A m \in Msgs : \A l \in Listeners :
    /\ calls[m][l] <= 1
    /\ calls[m][l] = 1 => l \in seen[m] /\ Concerns(l, m) /\ outcome[m] \in {"published", "done"}
    /\ outcome[m] = "done" /\ l \in steady[m] /\ Concerns(l, m) => calls[m][l] = 1

(* event_dispatcher.hpp:66-68 declares RouteEvent as point-to-point: only  *)
(* the receiver named by route_key is notified.                            *)
RoutedOnlyToTarget ==
  \A m \in Msgs : m.kind = "route" =>
    \A l \in Listeners : calls[m][l] > 0 => l \in Subs /\ l.id = m.key

(* A message queued by dispatchTask is delivered unless the dispatcher is  *)
(* destroyed: no wakeup is lost between publishers and workers.            *)
QueuedIsDelivered ==
  \A m \in Msgs :
    (m \in InFlight /\ ~stop) ~> (outcome[m] \in {"done", "dropped"} \/ stop)

(* The destructor returns, unless a worker had just read stop_ as false    *)
(* and was not yet asleep when notify_all came.                            *)
DestructorReturns == (dpc = "join" /\ missed = {}) ~> dpc = "destroyed"

=============================================================================
