----------------------- MODULE EventDispatcher_proofs -----------------------
(***************************************************************************)
(* What DefaultEventDispatcher keeps true for any number of publishers,    *)
(* workers, messages, listeners and filters, in both modes and while they  *)
(* are switched.                                                           *)
(***************************************************************************)
EXTENDS EventDispatcher, FiniteSetTheorems, TLAPS

-----------------------------------------------------------------------------
(* The types of the variables.  The filters, the statistics, the switches  *)
(* and the destructor only decide which step comes next.                   *)

Idle  == {"idle", "top", "ready", "blocking", "waiting", "exited"}
Early == {"count", "stats", "route"}
Late  == {"dispatch", "enqueue", "subscribers"}
Calls == {"callSubscribers", "callCallbacks"}

delivery_vars == <<task_queue, subscribers, callbacks, pc, msg, todo, target,
                   calls, outcome, steady, seen>>

TypeInv ==
  /\ task_queue \in Seq(Msgs)
  /\ subscribers \subseteq Subs /\ callbacks \subseteq Callbacks
  /\ pc \in [Threads -> Idle \union Early \union Late \union Calls]
  /\ msg \in [Threads -> Msgs \union {NoMsg}]
  /\ \A x \in Threads : pc[x] \in Idle <=> msg[x] = NoMsg
  /\ todo \in [Threads -> SUBSET Listeners]
  /\ target \in [Msgs -> SUBSET Subs]
  /\ calls \in [Msgs -> [Listeners -> Nat]]
  /\ outcome \in [Msgs -> {"none", "published", "filtered", "dropped", "done"}]
  /\ steady \in [Msgs -> SUBSET Listeners]
  /\ seen \in [Msgs -> SUBSET Listeners]

(* A thread that is busy has a message. *)
LEMMA BusyHasMessage ==
  ASSUME TypeInv, NEW x \in Threads, pc[x] \notin Idle
  PROVE  msg[x] \in Msgs
  BY DEF TypeInv

(* A step of one thread that keeps its message. *)
LEMMA TypeGoto ==
  ASSUME TypeInv, NEW x \in Threads,
         NEW where \in Idle \union Early \union Late \union Calls,
         where \in Idle <=> pc[x] \in Idle, Goto(x, where),
         UNCHANGED <<task_queue, subscribers, callbacks, msg, calls, outcome, steady, seen>>,
         todo' \in [Threads -> SUBSET Listeners], target' \in [Msgs -> SUBSET Subs]
  PROVE  TypeInv'
<1>1. pc' = [pc EXCEPT ![x] = where]
  BY DEF Goto
<1>2. pc' \in [Threads -> Idle \union Early \union Late \union Calls]
  BY <1>1 DEF TypeInv
<1>3. \A y \in Threads : pc'[y] \in Idle <=> pc[y] \in Idle
  BY <1>1 DEF TypeInv
<1> QED
  BY <1>2, <1>3 DEF TypeInv

(* Registration. *)
LEMMA TypeRegister ==
  ASSUME TypeInv, subscribers' \subseteq Subs, callbacks' \subseteq Callbacks,
         Observe(subscribers' \union callbacks'),
         UNCHANGED <<task_queue, pc, msg, todo, target, calls, outcome>>
  PROVE  TypeInv'
<1>1. subscribers' \union callbacks' \subseteq Listeners
  BY DEF Listeners
<1>2. \A m \in Msgs : steady[m] \subseteq Listeners /\ seen[m] \subseteq Listeners
  BY DEF TypeInv
<1>3. steady' \in [Msgs -> SUBSET Listeners]
  BY <1>2 DEF Observe
<1>4. seen' \in [Msgs -> SUBSET Listeners]
  BY <1>1, <1>2 DEF Observe
<1> QED
  BY <1>3, <1>4 DEF TypeInv

(* Publish. *)
LEMMA TypePublish ==
  ASSUME TypeInv, NEW p \in Publishers, NEW m \in Msgs, Publish(p, m)
  PROVE  TypeInv'
<1>1. /\ p \in Threads /\ Registered \subseteq Listeners
      /\ steady' = [steady EXCEPT ![m] = Registered]
      /\ seen' = [seen EXCEPT ![m] = Registered]
      /\ UNCHANGED <<task_queue, subscribers, callbacks, todo, target, calls>>
  BY DEF Publish, Threads, TypeInv, Registered, Listeners, reg_vars
<1>2. steady' \in [Msgs -> SUBSET Listeners] /\ seen' \in [Msgs -> SUBSET Listeners]
  BY <1>1 DEF TypeInv
<1>3. CASE outcome' = [outcome EXCEPT ![m] = "filtered"] /\ UNCHANGED <<pc, msg>>
  <2>1. outcome' \in [Msgs -> {"none", "published", "filtered", "dropped", "done"}]
    BY <1>3 DEF TypeInv
  <2> QED
    BY <1>1, <1>2, <1>3, <2>1 DEF TypeInv
<1>4. CASE /\ outcome' = [outcome EXCEPT ![m] = "published"]
           /\ Goto(p, IF m.kind = "route" THEN "route" ELSE "count")
           /\ msg' = [msg EXCEPT ![p] = m]
  <2>1. outcome' \in [Msgs -> {"none", "published", "filtered", "dropped", "done"}]
    BY <1>4 DEF TypeInv
  <2>2. PICK where \in {"route", "count"} : pc' = [pc EXCEPT ![p] = where]
    BY <1>4 DEF Goto
  <2>3. pc' \in [Threads -> Idle \union Early \union Late \union Calls]
    BY <2>2 DEF TypeInv, Early
  <2>4. msg' \in [Threads -> Msgs \union {NoMsg}]
    BY <1>1, <1>4 DEF TypeInv
  <2>5. m # NoMsg
    BY DispatcherAssumption
  <2>6. \A x \in Threads : pc'[x] \in Idle <=> msg'[x] = NoMsg
    BY <1>1, <1>4, <2>2, <2>5 DEF TypeInv, Idle
  <2> QED
    BY <1>1, <1>2, <2>1, <2>3, <2>4, <2>6 DEF TypeInv
<1> QED
  BY <1>3, <1>4 DEF Publish

(* A thread gives its message away: it is queued, dropped or delivered. *)
LEMMA TypeRelease ==
  ASSUME TypeInv, NEW x \in Threads, pc[x] \notin Idle,
         msg' = [msg EXCEPT ![x] = NoMsg],
         pc' \in [Threads -> Idle \union Early \union Late \union Calls],
         pc'[x] \in Idle,
         \A y \in Threads : y # x => (pc'[y] \in Idle <=> pc[y] \in Idle),
         task_queue' \in Seq(Msgs),
         outcome' \in [Msgs -> {"none", "published", "filtered", "dropped", "done"}],
         UNCHANGED <<subscribers, callbacks, todo, target, calls, steady, seen>>
  PROVE  TypeInv'
<1>1. msg' \in [Threads -> Msgs \union {NoMsg}]
  BY DEF TypeInv
<1>2. msg'[x] = NoMsg /\ \A y \in Threads : y # x => msg'[y] = msg[y]
  BY DEF TypeInv
<1>3. \A y \in Threads : pc'[y] \in Idle <=> msg'[y] = NoMsg
  BY <1>2 DEF TypeInv
<1> QED
  BY <1>1, <1>3 DEF TypeInv

(* dispatchTask's push and its notify_one. *)
LEMMA TypeEnqueue ==
  ASSUME TypeInv, NEW p \in Publishers, dispatchLocked(p), Enqueue(p)
  PROVE  /\ TypeInv'
         /\ pc'[p] = "idle" /\ pc[p] = "enqueue" /\ msg[p] \in Msgs
         /\ \A x \in Threads : x # p => pc'[x] = pc[x] \/ (pc[x] = "waiting" /\ pc'[x] = "ready")
<1>1. /\ p \in Threads /\ pc[p] = "enqueue" /\ p \notin Pool
      /\ task_queue' = Append(task_queue, msg[p]) /\ NotifyOne(p)
      /\ msg' = [msg EXCEPT ![p] = NoMsg]
      /\ UNCHANGED <<outcome, subscribers, callbacks, todo, target, calls, steady, seen>>
  BY DispatcherAssumption DEF dispatchLocked, Enqueue, Threads, reg_vars, hist_vars
<1>2. msg[p] \in Msgs
  BY <1>1, BusyHasMessage DEF Idle
<1>3. task_queue' \in Seq(Msgs)
  BY <1>1, <1>2 DEF TypeInv
<1>4. /\ pc' \in [Threads -> Idle \union Early \union Late \union Calls]
      /\ pc'[p] = "idle"
      /\ \A x \in Threads : x # p => pc'[x] = pc[x] \/ (pc[x] = "waiting" /\ pc'[x] = "ready")
  <2>1. CASE Goto(p, "idle")
    BY <1>1, <2>1 DEF Goto, TypeInv, Idle
  <2>2. ASSUME NEW w \in Waiting, pc' = [pc EXCEPT ![p] = "idle", ![w] = "ready"]
        PROVE  /\ pc' \in [Threads -> Idle \union Early \union Late \union Calls]
               /\ pc'[p] = "idle"
               /\ \A x \in Threads : x # p =>
                    pc'[x] = pc[x] \/ (pc[x] = "waiting" /\ pc'[x] = "ready")
    <3>1. w \in Threads /\ pc[w] = "waiting" /\ w # p
      BY <1>1 DEF Waiting, Threads
    <3> QED
      BY <1>1, <2>2, <3>1 DEF TypeInv, Idle
  <2> QED
    BY <1>1, <2>1, <2>2 DEF NotifyOne
<1>5. TypeInv'
  BY <1>1, <1>3, <1>4, TypeRelease DEF Idle, TypeInv
<1> QED
  BY <1>1, <1>2, <1>4, <1>5

(* A full queue drops the message. *)
LEMMA TypeDiscard ==
  ASSUME TypeInv, NEW p \in Publishers, dispatchLocked(p), Discard(p)
  PROVE  TypeInv'
<1>1. /\ p \in Threads /\ pc[p] = "enqueue"
      /\ outcome' = [outcome EXCEPT ![msg[p]] = "dropped"]
      /\ pc' = [pc EXCEPT ![p] = "idle"]
      /\ msg' = [msg EXCEPT ![p] = NoMsg]
      /\ UNCHANGED <<task_queue, subscribers, callbacks, todo, target, calls, steady, seen>>
  BY DEF dispatchLocked, Discard, Goto, Threads, reg_vars, hist_vars
<1>2. outcome' \in [Msgs -> {"none", "published", "filtered", "dropped", "done"}]
  BY <1>1 DEF TypeInv
<1>3. /\ pc' \in [Threads -> Idle \union Early \union Late \union Calls]
      /\ pc'[p] \in Idle /\ \A x \in Threads : x # p => pc'[x] = pc[x]
  BY <1>1 DEF TypeInv, Idle
<1> QED
  BY <1>1, <1>2, <1>3, TypeRelease DEF Idle, TypeInv

(* The last listener was called. *)
LEMMA TypeFinish ==
  ASSUME TypeInv, NEW x \in Threads, Finish(x)
  PROVE  TypeInv'
<1>1. /\ pc[x] = "callCallbacks"
      /\ outcome' = [outcome EXCEPT ![msg[x]] = "done"]
      /\ pc' = [pc EXCEPT ![x] = IF x \in Pool THEN "top" ELSE "idle"]
      /\ msg' = [msg EXCEPT ![x] = NoMsg]
      /\ UNCHANGED <<task_queue, subscribers, callbacks, todo, target, calls, steady, seen>>
  BY DEF Finish, Goto, reg_vars, hist_vars
<1>2. outcome' \in [Msgs -> {"none", "published", "filtered", "dropped", "done"}]
  BY <1>1 DEF TypeInv
<1>3. /\ pc' \in [Threads -> Idle \union Early \union Late \union Calls]
      /\ pc'[x] \in Idle /\ \A y \in Threads : y # x => pc'[y] = pc[y]
  BY <1>1 DEF TypeInv, Idle
<1> QED
  BY <1>1, <1>2, <1>3, TypeRelease DEF Idle, TypeInv

(* A worker takes the first task. *)
LEMMA TypeTake ==
  ASSUME TypeInv, NEW w \in Pool, Take(w)
  PROVE  TypeInv'
<1>1. /\ w \in Threads /\ task_queue # <<>>
      /\ msg' = [msg EXCEPT ![w] = Head(task_queue)]
      /\ task_queue' = Tail(task_queue)
      /\ pc' = [pc EXCEPT ![w] = "subscribers"]
      /\ UNCHANGED <<outcome, subscribers, callbacks, todo, target, calls, steady, seen>>
  BY DEF Take, Goto, Threads, reg_vars, hist_vars
<1>2. Head(task_queue) \in Msgs /\ task_queue' \in Seq(Msgs)
  BY <1>1 DEF TypeInv
<1>3. Head(task_queue) # NoMsg
  BY <1>2, DispatcherAssumption
<1>4. pc' \in [Threads -> Idle \union Early \union Late \union Calls]
  BY <1>1 DEF TypeInv, Late
<1>5. msg' \in [Threads -> Msgs \union {NoMsg}]
  BY <1>1, <1>2 DEF TypeInv
<1>6. \A x \in Threads : pc'[x] \in Idle <=> msg'[x] = NoMsg
  BY <1>1, <1>3 DEF TypeInv, Idle
<1> QED
  BY <1>1, <1>2, <1>4, <1>5, <1>6 DEF TypeInv

(* A listener is called. *)
LEMMA TypeCall ==
  ASSUME TypeInv, NEW x \in Threads, NEW l \in Listeners, Call(x, l)
  PROVE  /\ TypeInv' /\ msg[x] \in Msgs
         /\ todo'[x] = todo[x] \ {l}
         /\ calls'[msg[x]][l] = calls[msg[x]][l] + 1
         /\ \A k \in Listeners : k # l => calls'[msg[x]][k] = calls[msg[x]][k]
         /\ \A m \in Msgs : m # msg[x] => calls'[m] = calls[m]
         /\ \A y \in Threads : y # x => todo'[y] = todo[y]
<1>1. /\ pc[x] \notin Idle
      /\ todo' = [todo EXCEPT ![x] = @ \ {l}]
      /\ calls' = [calls EXCEPT ![msg[x]][l] = @ + 1]
      /\ UNCHANGED <<task_queue, outcome, subscribers, callbacks, pc, msg, target, steady, seen>>
  BY DEF Call, Idle, reg_vars, hist_vars
<1>2. msg[x] \in Msgs
  BY <1>1, BusyHasMessage
<1> DEFINE m == msg[x]
           f == [calls[m] EXCEPT ![l] = @ + 1]
<1>3. calls[m] \in [Listeners -> Nat] /\ calls \in [Msgs -> [Listeners -> Nat]]
  BY <1>2 DEF TypeInv
<1>4. f \in [Listeners -> Nat] /\ f[l] = calls[m][l] + 1
      /\ \A k \in Listeners : k # l => f[k] = calls[m][k]
  BY <1>3
<1>5. calls' = [calls EXCEPT ![m] = f]
  BY <1>1
<1> HIDE DEF f
<1>6. /\ calls' \in [Msgs -> [Listeners -> Nat]] /\ calls'[m] = f
      /\ \A o \in Msgs : o # m => calls'[o] = calls[o]
  BY <1>2, <1>3, <1>4, <1>5
<1>7. /\ todo' \in [Threads -> SUBSET Listeners]
      /\ todo'[x] = todo[x] \ {l}
      /\ \A y \in Threads : y # x => todo'[y] = todo[y]
  BY <1>1 DEF TypeInv
<1>8. TypeInv'
  BY <1>1, <1>6, <1>7 DEF TypeInv
<1> QED
  BY <1>2, <1>4, <1>6, <1>7, <1>8

(* notify_all wakes the workers that wait. *)
LEMMA TypeWake ==
  ASSUME TypeInv, DestroyNotify
  PROVE  /\ TypeInv'
         /\ \A x \in Threads : pc'[x] = pc[x] \/ (pc[x] = "waiting" /\ pc'[x] = "ready")
<1>1. /\ pc' = [x \in Threads |-> IF x \in Waiting THEN "ready" ELSE pc[x]]
      /\ UNCHANGED <<task_queue, outcome, subscribers, callbacks, msg, todo, target,
                     calls, steady, seen>>
  BY DEF DestroyNotify, Wake, reg_vars, hist_vars
<1>2. \A x \in Threads : pc'[x] = pc[x] \/ (pc[x] = "waiting" /\ pc'[x] = "ready")
  BY <1>1 DEF Waiting
<1>3. pc' \in [Threads -> Idle \union Early \union Late \union Calls]
  BY <1>1 DEF TypeInv, Idle
<1>4. \A x \in Threads : pc'[x] \in Idle <=> pc[x] \in Idle
  BY <1>2 DEF Idle
<1> QED
  BY <1>1, <1>2, <1>3, <1>4 DEF TypeInv

-----------------------------------------------------------------------------
(* The steps, by what they do to a message and its listeners. *)

(* Registration: the listeners change under mutex_. *)
Registers ==
  /\ subscribers' \subseteq Subs /\ callbacks' \subseteq Callbacks
  /\ Observe(subscribers' \union callbacks')
  /\ UNCHANGED <<task_queue, pc, msg, todo, target, calls, outcome>>

(* A thread moves on and changes nothing else. *)
Moves(x, from, to) ==
  /\ pc[x] \in from
  /\ \E where \in to : Goto(x, where)
  /\ UNCHANGED <<task_queue, subscribers, callbacks, msg, todo, target, calls,
                 outcome, steady, seen>>

(* Every step is of one of these kinds. *)
LEMMA StepKinds ==
  ASSUME TypeInv, [Next]_vars
  PROVE  \/ UNCHANGED delivery_vars
         \/ Registers
         \/ \E p \in Publishers :
              \/ \E m \in Msgs : Publish(p, m)
              \/ Moves(p, {"count"}, {"stats"}) \/ Moves(p, {"stats"}, {"dispatch"})
              \/ Moves(p, {"dispatch"}, {"enqueue", "subscribers"})
              \/ LookUpRoute(p)
              \/ dispatchLocked(p) /\ (Enqueue(p) \/ Discard(p))
         \/ \E w \in Pool : Take(w) \/ Moves(w, Idle, Idle)
         \/ \E x \in Threads : Deliver(x)
         \/ DestroyNotify
<1> USE DEF config_vars, reg_vars, stat_vars, run_vars, hist_vars
<1>1. ASSUME NEW new \in SUBSET Subs, SetSubscribers(new)
      PROVE  Registers
  <2>1. callbacks' = callbacks /\ callbacks \subseteq Callbacks
    BY <1>1 DEF SetSubscribers, TypeInv
  <2> QED
    BY <1>1, <2>1 DEF SetSubscribers, Registers
<1>2. ASSUME NEW s \in Subs, RegisterSubscriber(s)
      PROVE  Registers
  <2>1. ({o \in subscribers : o.id # s.id} \union {s}) \in SUBSET Subs
    BY DEF TypeInv
  <2> QED
    BY <1>1, <1>2, <2>1 DEF RegisterSubscriber
<1>3. ASSUME NEW id \in Ids, UnregisterSubscriber(id)
      PROVE  Registers
  <2>1. {o \in subscribers : o.id # id} \in SUBSET Subs
    BY DEF TypeInv
  <2> QED
    BY <1>1, <1>3, <2>1 DEF UnregisterSubscriber
<1>4. CASE UnregisterAllSubscribers
  <2>1. {} \in SUBSET Subs
    OBVIOUS
  <2> QED
    BY <1>1, <1>4, <2>1 DEF UnregisterAllSubscribers
<1>5. ASSUME NEW c \in Callbacks, Subscribe(c)
      PROVE  Registers
  <2>1. /\ callbacks' = callbacks \union {c} /\ subscribers' = subscribers
        /\ Observe(subscribers \union callbacks')
        /\ UNCHANGED <<task_queue, pc, msg, todo, target, calls, outcome>>
    BY <1>5 DEF Subscribe
  <2>2. subscribers' \subseteq Subs /\ callbacks' \subseteq Callbacks
    BY <2>1 DEF TypeInv
  <2> QED
    BY <2>1, <2>2 DEF Registers
<1>6. CASE Configure
  <2>1. ASSUME NEW f \in Filters, AddEventFilter(f)
        PROVE  UNCHANGED delivery_vars
    BY <2>1 DEF AddEventFilter, delivery_vars
  <2>2. ASSUME NEW i \in 0 .. Len(filters), RemoveEventFilter(i)
        PROVE  UNCHANGED delivery_vars
    BY <2>2 DEF RemoveEventFilter, delivery_vars
  <2>3. ASSUME NEW n \in Sizes, SetMaxQueueSize(n)
        PROVE  UNCHANGED delivery_vars
    BY <2>3 DEF SetMaxQueueSize, delivery_vars
  <2>4. ASSUME NEW b \in BOOLEAN, SetAsyncDispatch(b)
        PROVE  UNCHANGED delivery_vars
    BY <2>4 DEF SetAsyncDispatch, delivery_vars
  <2> QED
    BY <1>2, <1>3, <1>4, <1>5, <1>6, <2>1, <2>2, <2>3, <2>4 DEF Configure
<1>7. ASSUME NEW p \in Publishers, PublisherStep(p)
      PROVE  \/ Moves(p, {"count"}, {"stats"}) \/ Moves(p, {"stats"}, {"dispatch"})
             \/ Moves(p, {"dispatch"}, {"enqueue", "subscribers"})
             \/ LookUpRoute(p)
             \/ dispatchLocked(p) /\ (Enqueue(p) \/ Discard(p))
             \/ Deliver(p)
  <2>1. CASE Count(p)
    BY <2>1 DEF Count, Moves
  <2>2. CASE RecordStats(p)
    BY <2>2 DEF RecordStats, Moves
  <2>3. CASE dispatchTask(p)
    BY <2>3 DEF dispatchTask, Moves
  <2>4. CASE dispatchLocked(p)
    BY <2>4 DEF dispatchLocked
  <2> QED
    BY <1>7, <2>1, <2>2, <2>3, <2>4 DEF PublisherStep
<1>8. ASSUME NEW w \in Pool, WorkerStep(w) \/ SpuriousWakeup(w)
      PROVE  Take(w) \/ Moves(w, Idle, Idle) \/ Deliver(w)
  <2>1. CASE TestStop(w)
    BY <2>1 DEF TestStop, Moves, Idle
  <2>2. CASE FindEmpty(w)
    BY <2>2 DEF FindEmpty, Moves, Idle
  <2>3. CASE Block(w)
    BY <2>3 DEF Block, Moves, Idle
  <2>4. CASE SpuriousWakeup(w)
    BY <2>4 DEF SpuriousWakeup, Moves, Idle
  <2> QED
    BY <1>8, <2>1, <2>2, <2>3, <2>4 DEF WorkerStep
<1>9. CASE Destroy
  <2>1. CASE DestroyStop \/ DestroyJoin
    BY <2>1 DEF DestroyStop, DestroyJoin, delivery_vars
  <2> QED
    BY <1>9, <2>1 DEF Destroy
<1>10. CASE UNCHANGED vars
  BY <1>10 DEF vars, delivery_vars
<1>11. Publishers \subseteq Threads /\ Pool \subseteq Threads
  BY DEF Threads
<1> QED
  BY <1>6, <1>7, <1>8, <1>9, <1>10, <1>11 DEF Next

(* The types are kept by every step. *)
LEMMA TypeNext ==
  ASSUME TypeInv, [Next]_vars
  PROVE  TypeInv'
<1>1. Publishers \subseteq Threads /\ Pool \subseteq Threads
  BY DEF Threads
<1>2. ASSUME NEW x \in Threads, NEW from, NEW to, Moves(x, from, to),
             to \subseteq Idle \union Early \union Late \union Calls,
             (from \subseteq Idle /\ to \subseteq Idle)
               \/ (from \intersect Idle = {} /\ to \intersect Idle = {})
      PROVE  TypeInv'
  <2>1. PICK where \in to : Goto(x, where)
    BY <1>2 DEF Moves
  <2>2. where \in Idle <=> pc[x] \in Idle
    BY <1>2 DEF Moves
  <2> QED
    BY <1>2, <2>1, <2>2, TypeGoto DEF Moves, TypeInv
<1>3. ASSUME NEW p \in Publishers,
             \/ Moves(p, {"count"}, {"stats"}) \/ Moves(p, {"stats"}, {"dispatch"})
             \/ Moves(p, {"dispatch"}, {"enqueue", "subscribers"})
      PROVE  TypeInv'
  BY <1>1, <1>2, <1>3 DEF Idle, Early, Late
<1>4. ASSUME NEW p \in Publishers, LookUpRoute(p)
      PROVE  TypeInv'
  <2>1. /\ pc[p] = "route" /\ Goto(p, "dispatch")
        /\ target' = [target EXCEPT ![msg[p]] = {s \in subscribers : s.id = msg[p].key}]
        /\ UNCHANGED <<task_queue, subscribers, callbacks, msg, todo, calls, outcome, steady, seen>>
    BY <1>4 DEF LookUpRoute, reg_vars, hist_vars
  <2>2. target' \in [Msgs -> SUBSET Subs]
    BY <2>1 DEF TypeInv
  <2> QED
    BY <1>1, <2>1, <2>2, TypeGoto DEF TypeInv, Idle, Late
<1>5. ASSUME NEW w \in Pool, Moves(w, Idle, Idle)
      PROVE  TypeInv'
  BY <1>1, <1>2, <1>5
<1>6. ASSUME NEW x \in Threads, SnapshotSubscribers(x)
      PROVE  TypeInv'
  <2>1. /\ pc[x] = "subscribers" /\ Goto(x, "callSubscribers")
        /\ todo' = [todo EXCEPT ![x] = IF msg[x].kind = "route" THEN target[msg[x]]
                                                               ELSE subscribers]
        /\ UNCHANGED <<task_queue, subscribers, callbacks, msg, target, calls, outcome, steady, seen>>
    BY <1>6 DEF SnapshotSubscribers, reg_vars, hist_vars
  <2>2. msg[x] \in Msgs
    BY <2>1, BusyHasMessage DEF Idle
  <2>3. target[msg[x]] \subseteq Listeners /\ subscribers \subseteq Listeners
    BY <2>2 DEF TypeInv, Listeners
  <2>4. todo' \in [Threads -> SUBSET Listeners]
    BY <2>1, <2>3 DEF TypeInv
  <2> QED
    BY <2>1, <2>4, TypeGoto DEF TypeInv, Idle, Calls
<1>7. ASSUME NEW x \in Threads, SnapshotCallbacks(x)
      PROVE  TypeInv'
  <2>1. /\ pc[x] = "callSubscribers" /\ Goto(x, "callCallbacks")
        /\ todo' = [todo EXCEPT ![x] = Selected(msg[x])]
        /\ UNCHANGED <<task_queue, subscribers, callbacks, msg, target, calls, outcome, steady, seen>>
    BY <1>7 DEF SnapshotCallbacks, reg_vars, hist_vars
  <2>2. Selected(msg[x]) \subseteq Listeners
    BY DEF Selected, TypeInv, Listeners
  <2>3. todo' \in [Threads -> SUBSET Listeners]
    BY <2>1, <2>2 DEF TypeInv
  <2> QED
    BY <2>1, <2>3, TypeGoto DEF TypeInv, Idle, Calls
<1>8. ASSUME NEW x \in Threads, Deliver(x)
      PROVE  TypeInv'
  BY <1>6, <1>7, <1>8, TypeFinish, TypeCall DEF Deliver
<1>9. CASE UNCHANGED delivery_vars
  BY <1>9 DEF delivery_vars, TypeInv
<1>10. CASE Registers
  BY <1>10, TypeRegister DEF Registers
<1> QED
  BY <1>3, <1>4, <1>5, <1>8, <1>9, <1>10, StepKinds, TypePublish, TypeEnqueue,
     TypeDiscard, TypeTake, TypeWake

(* A fresh dispatcher. *)
LEMMA TypeInit == Init => TypeInv
<1> SUFFICES ASSUME Init
             PROVE  TypeInv
  OBVIOUS
<1>1. /\ pc \in [Threads -> Idle \union Early \union Late \union Calls]
      /\ \A x \in Threads : pc[x] \in Idle
  BY DEF Init, Idle
<1>2. /\ msg \in [Threads -> Msgs \union {NoMsg}]
      /\ \A x \in Threads : msg[x] = NoMsg
  BY DEF Init
<1>3. /\ todo \in [Threads -> SUBSET Listeners] /\ target \in [Msgs -> SUBSET Subs]
      /\ steady \in [Msgs -> SUBSET Listeners] /\ seen \in [Msgs -> SUBSET Listeners]
  BY DEF Init
<1>4. calls \in [Msgs -> [Listeners -> Nat]]
  BY DEF Init
<1>5. outcome \in [Msgs -> {"none", "published", "filtered", "dropped", "done"}]
  BY DEF Init
<1>6. task_queue \in Seq(Msgs) /\ subscribers \subseteq Subs /\ callbacks \subseteq Callbacks
  BY DEF Init
<1> QED
  BY <1>1, <1>2, <1>3, <1>4, <1>5, <1>6 DEF TypeInv

-----------------------------------------------------------------------------
(* Where a message is. *)

Places == 1 .. Len(task_queue)

(* Only messages still in flight are held or queued; no two threads hold   *)
(* the same one, no two slots of the queue, and no thread and slot; and    *)
(* one in flight is somewhere.                                             *)
Unsettled  == /\ \A x \in Threads : msg[x] # NoMsg => outcome[msg[x]] = "published"
              /\ \A i \in Places : outcome[task_queue[i]] = "published"
HeldOnce   == \A x, y \in Threads : msg[x] # NoMsg /\ msg[x] = msg[y] => x = y
QueuedOnce == \A i, j \in Places : task_queue[i] = task_queue[j] => i = j
Apart      == \A x \in Threads : \A i \in Places : msg[x] # task_queue[i]
Somewhere  == \A m \in Msgs : outcome[m] = "published" =>
                \/ \E x \in Threads : msg[x] = m
                \/ \E i \in Places : task_queue[i] = m

PlaceInv == Unsettled /\ HeldOnce /\ QueuedOnce /\ Apart /\ Somewhere

(* A new message is published by a thread that held none. *)
LEMMA PlacePublish ==
  ASSUME TypeInv, PlaceInv, NEW p \in Publishers, NEW m \in Msgs, Publish(p, m)
  PROVE  PlaceInv'
<1>1. /\ p \in Threads /\ outcome[m] = "none" /\ msg[p] = NoMsg
      /\ m # NoMsg /\ UNCHANGED task_queue
  BY DispatcherAssumption DEF Publish, Threads, TypeInv, Idle
<1>2. /\ outcome \in [Msgs -> {"none", "published", "filtered", "dropped", "done"}]
      /\ msg \in [Threads -> Msgs \union {NoMsg}]
      /\ \A i \in Places : task_queue[i] \in Msgs
  BY DEF TypeInv, Places
<1>3. /\ \A x \in Threads : msg[x] # m
      /\ \A i \in Places : task_queue[i] # m
  BY <1>1 DEF PlaceInv, Unsettled
<1>4. Places' = Places
  BY <1>1 DEF Places
<1>5. CASE outcome' = [outcome EXCEPT ![m] = "filtered"] /\ UNCHANGED <<pc, msg>>
  BY <1>1, <1>2, <1>3, <1>4, <1>5
     DEF PlaceInv, Unsettled, HeldOnce, QueuedOnce, Apart, Somewhere
<1>6. CASE outcome' = [outcome EXCEPT ![m] = "published"] /\ msg' = [msg EXCEPT ![p] = m]
  <2>1. /\ msg'[p] = m /\ \A x \in Threads : x # p => msg'[x] = msg[x]
        /\ outcome'[m] = "published" /\ \A o \in Msgs : o # m => outcome'[o] = outcome[o]
    BY <1>1, <1>2, <1>6
  <2>2. Unsettled'
    BY <1>1, <1>2, <1>3, <1>4, <2>1 DEF PlaceInv, Unsettled
  <2>3. HeldOnce' /\ Apart' /\ QueuedOnce'
    BY <1>1, <1>2, <1>3, <1>4, <2>1 DEF PlaceInv, HeldOnce, QueuedOnce, Apart
  <2>4. Somewhere'
    <3> SUFFICES ASSUME NEW o \in Msgs, outcome'[o] = "published"
                 PROVE  \/ \E x \in Threads : msg'[x] = o
                        \/ \E i \in Places : task_queue[i] = o
      BY <1>1, <1>4 DEF Somewhere
    <3>1. CASE o = m
      BY <1>1, <2>1, <3>1
    <3>2. ASSUME o # m, NEW x \in Threads, msg[x] = o
          PROVE  msg'[x] = o
      BY <1>1, <2>1, <3>2, DispatcherAssumption
    <3> QED
      BY <2>1, <3>1, <3>2 DEF PlaceInv, Somewhere
  <2> QED
    BY <2>2, <2>3, <2>4 DEF PlaceInv
<1> QED
  BY <1>5, <1>6 DEF Publish

(* The publisher's message becomes the last of the queue. *)
LEMMA PlaceEnqueue ==
  ASSUME TypeInv, PlaceInv, NEW p \in Threads, msg[p] \in Msgs,
         task_queue' = Append(task_queue, msg[p]),
         msg' = [msg EXCEPT ![p] = NoMsg], UNCHANGED outcome
  PROVE  PlaceInv'
<1> DEFINE n == Len(task_queue)
<1>1. /\ n \in Nat /\ n + 1 \notin Places /\ Places' = Places \union {n + 1}
      /\ task_queue'[n + 1] = msg[p]
      /\ \A i \in Places : task_queue'[i] = task_queue[i] /\ task_queue[i] \in Msgs
  BY DEF TypeInv, Places
<1> HIDE DEF n
<1>2. msg'[p] = NoMsg /\ \A x \in Threads : x # p => msg'[x] = msg[x]
  BY DEF TypeInv
<1>3. msg[p] # NoMsg /\ \A i \in Places : task_queue[i] # NoMsg
  BY <1>1, DispatcherAssumption
<1>4. Unsettled'
  <2>1. ASSUME NEW x \in Threads, msg'[x] # NoMsg
        PROVE  outcome[msg'[x]] = "published"
    BY <1>2, <2>1 DEF PlaceInv, Unsettled
  <2>2. ASSUME NEW i \in Places'
        PROVE  outcome[task_queue'[i]] = "published"
    BY <1>1, <1>3, <2>2 DEF PlaceInv, Unsettled
  <2> QED
    BY <2>1, <2>2 DEF Unsettled
<1>5. HeldOnce'
  <2> SUFFICES ASSUME NEW x \in Threads, NEW y \in Threads, msg'[x] # NoMsg, msg'[x] = msg'[y]
               PROVE  x = y
    BY DEF HeldOnce
  <2> QED
    BY <1>2 DEF PlaceInv, HeldOnce
<1>6. QueuedOnce'
  <2> SUFFICES ASSUME NEW i \in Places', NEW j \in Places', task_queue'[i] = task_queue'[j]
               PROVE  i = j
    BY DEF QueuedOnce
  <2> QED
    BY <1>1 DEF PlaceInv, QueuedOnce, Apart
<1>7. Apart'
  <2> SUFFICES ASSUME NEW x \in Threads, NEW i \in Places'
               PROVE  msg'[x] # task_queue'[i]
    BY DEF Apart
  <2>1. CASE x = p
    <3>1. task_queue'[i] # NoMsg
      <4>1. CASE i \in Places
        BY <1>1, <1>3, <4>1
      <4>2. CASE i = n + 1
        BY <1>1, <1>3, <4>2
      <4> QED
        BY <1>1, <4>1, <4>2
    <3> QED
      BY <1>2, <2>1, <3>1
  <2>2. CASE x # p /\ i \in Places
    <3>1. msg'[x] = msg[x] /\ task_queue'[i] = task_queue[i]
      BY <1>1, <1>2, <2>2
    <3>2. msg[x] # task_queue[i]
      BY <2>2 DEF PlaceInv, Apart
    <3> QED
      BY <3>1, <3>2
  <2>3. CASE x # p /\ i = n + 1
    <3>1. msg'[x] = msg[x] /\ task_queue'[i] = msg[p]
      BY <1>1, <1>2, <2>3
    <3>2. msg[x] # msg[p]
      BY <1>3, <2>3 DEF PlaceInv, HeldOnce
    <3> QED
      BY <3>1, <3>2
  <2> QED
    BY <1>1, <2>1, <2>2, <2>3
<1>8. Somewhere'
  <2> SUFFICES ASSUME NEW m \in Msgs, outcome[m] = "published"
               PROVE  \/ \E x \in Threads : msg'[x] = m
                      \/ \E i \in Places' : task_queue'[i] = m
    BY DEF Somewhere
  <2>1. CASE m = msg[p]
    BY <1>1, <2>1
  <2>2. CASE m # msg[p]
    BY <1>1, <1>2, <2>2 DEF PlaceInv, Somewhere
  <2> QED
    BY <2>1, <2>2
<1> QED
  BY <1>4, <1>5, <1>6, <1>7, <1>8 DEF PlaceInv

(* A thread is done with its message: it is dropped or delivered. *)
LEMMA PlaceSettle ==
  ASSUME TypeInv, PlaceInv, NEW x \in Threads, msg[x] \in Msgs,
         NEW how \in {"dropped", "done"}, outcome' = [outcome EXCEPT ![msg[x]] = how],
         msg' = [msg EXCEPT ![x] = NoMsg], UNCHANGED task_queue
  PROVE  PlaceInv'
<1>1. /\ msg'[x] = NoMsg /\ \A y \in Threads : y # x => msg'[y] = msg[y]
      /\ outcome'[msg[x]] = how /\ how # "published"
      /\ \A o \in Msgs : o # msg[x] => outcome'[o] = outcome[o]
      /\ \A y \in Threads : msg[y] \in Msgs \union {NoMsg}
      /\ \A i \in Places : task_queue[i] \in Msgs
  BY DEF TypeInv, Places
<1>2. Places' = Places /\ msg[x] # NoMsg
  BY DispatcherAssumption DEF Places
<1>3. Unsettled'
  BY <1>1, <1>2 DEF PlaceInv, Unsettled, HeldOnce, Apart
<1>4. HeldOnce' /\ QueuedOnce'
  BY <1>1, <1>2 DEF PlaceInv, HeldOnce, QueuedOnce
<1>5. Apart'
  BY <1>1, <1>2, DispatcherAssumption DEF PlaceInv, Apart
<1>6. Somewhere'
  BY <1>1, <1>2 DEF PlaceInv, Somewhere
<1> QED
  BY <1>3, <1>4, <1>5, <1>6 DEF PlaceInv

(* A worker gets the first message of the queue. *)
LEMMA PlaceTake ==
  ASSUME TypeInv, PlaceInv, NEW w \in Pool, Take(w)
  PROVE  PlaceInv'
<1> DEFINE n == Len(task_queue)
           h == Head(task_queue)
<1>1. /\ w \in Threads /\ msg[w] = NoMsg /\ task_queue # <<>>
      /\ msg' = [msg EXCEPT ![w] = h]
      /\ task_queue' = Tail(task_queue) /\ UNCHANGED outcome
  BY DEF Take, Threads, TypeInv, Idle
<1>2. /\ n \in Nat /\ n >= 1 /\ Places = 1 .. n /\ Places' = 1 .. (n - 1)
      /\ h = task_queue[1] /\ h \in Msgs
      /\ \A i \in 1 .. (n - 1) : task_queue'[i] = task_queue[i + 1]
      /\ \A i \in 1 .. n : task_queue[i] \in Msgs
  BY <1>1 DEF TypeInv, Places
<1>3. /\ msg'[w] = h /\ \A x \in Threads : x # w => msg'[x] = msg[x]
  BY <1>1 DEF TypeInv
<1> HIDE DEF n, h
<1>4. Unsettled'
  <2>1. \A i \in 1 .. n : outcome[task_queue[i]] = "published"
    BY <1>2 DEF PlaceInv, Unsettled
  <2>2. ASSUME NEW x \in Threads, msg'[x] # NoMsg
        PROVE  outcome[msg'[x]] = "published"
    BY <1>2, <1>3, <2>1, <2>2 DEF PlaceInv, Unsettled
  <2>3. ASSUME NEW i \in 1 .. (n - 1)
        PROVE  outcome[task_queue'[i]] = "published"
    BY <1>2, <2>1, <2>3
  <2> QED
    BY <1>1, <1>2, <2>2, <2>3 DEF Unsettled
<1>5. HeldOnce' /\ QueuedOnce'
  <2>1. HeldOnce'
    BY <1>1, <1>2, <1>3 DEF PlaceInv, HeldOnce, Apart
  <2>2. QueuedOnce'
    BY <1>2 DEF PlaceInv, QueuedOnce
  <2> QED
    BY <2>1, <2>2
<1>6. Apart'
  <2> SUFFICES ASSUME NEW x \in Threads, NEW i \in 1 .. (n - 1)
               PROVE  msg'[x] # task_queue'[i]
    BY <1>2 DEF Apart
  <2>1. i + 1 \in Places /\ i + 1 # 1 /\ 1 \in Places /\ task_queue'[i] = task_queue[i + 1]
    BY <1>2
  <2> QED
    BY <1>2, <1>3, <2>1 DEF PlaceInv, QueuedOnce, Apart
<1>7. Somewhere'
  <2> SUFFICES ASSUME NEW m \in Msgs, outcome[m] = "published"
               PROVE  \/ \E x \in Threads : msg'[x] = m
                      \/ \E i \in 1 .. (n - 1) : task_queue'[i] = m
    BY <1>1, <1>2 DEF Somewhere
  <2>1. CASE m = h
    BY <1>1, <1>3, <2>1
  <2>2. ASSUME NEW x \in Threads, msg[x] = m
        PROVE  \E y \in Threads : msg'[y] = m
    <3>1. x # w
      BY <1>1, <2>2, DispatcherAssumption
    <3> QED
      BY <1>3, <2>2, <3>1
  <2>3. ASSUME NEW i \in Places, task_queue[i] = m, m # h
        PROVE  \E j \in 1 .. (n - 1) : task_queue'[j] = m
    <3>1. i - 1 \in 1 .. (n - 1) /\ task_queue'[i - 1] = task_queue[(i - 1) + 1] /\ (i - 1) + 1 = i
      BY <1>2, <2>3
    <3> QED
      BY <2>3, <3>1
  <2> QED
    BY <2>1, <2>2, <2>3 DEF PlaceInv, Somewhere
<1> QED
  BY <1>4, <1>5, <1>6, <1>7 DEF PlaceInv

(* Every step keeps a message in its one place. *)
LEMMA PlaceNext ==
  ASSUME TypeInv, PlaceInv, [Next]_vars
  PROVE  PlaceInv'
<1>1. ASSUME UNCHANGED <<task_queue, msg, outcome>>
      PROVE  PlaceInv'
  BY <1>1 DEF PlaceInv, Unsettled, HeldOnce, QueuedOnce, Apart, Somewhere, Places
<1>2. ASSUME NEW p \in Publishers, dispatchLocked(p), Enqueue(p)
      PROVE  PlaceInv'
  BY <1>2, TypeEnqueue, PlaceEnqueue DEF Enqueue, Threads
<1>3. ASSUME NEW p \in Publishers, dispatchLocked(p), Discard(p)
      PROVE  PlaceInv'
  <2>1. p \in Threads /\ msg[p] \in Msgs
    BY <1>3, BusyHasMessage DEF dispatchLocked, Threads, Idle
  <2> QED
    BY <1>3, <2>1, PlaceSettle DEF Discard
<1>4. ASSUME NEW x \in Threads, Deliver(x)
      PROVE  PlaceInv'
  <2>1. CASE Finish(x)
    <3>1. msg[x] \in Msgs
      BY <2>1, BusyHasMessage DEF Finish, Idle
    <3> QED
      BY <2>1, <3>1, PlaceSettle DEF Finish
  <2>2. CASE ~Finish(x)
    BY <1>1, <1>4, <2>2 DEF Deliver, SnapshotSubscribers, SnapshotCallbacks, Call
  <2> QED
    BY <2>1, <2>2
<1>5. ASSUME NEW x \in Threads, NEW from, NEW to, Moves(x, from, to)
      PROVE  PlaceInv'
  BY <1>1, <1>5 DEF Moves
<1>6. Publishers \subseteq Threads /\ Pool \subseteq Threads
  BY DEF Threads
<1>7. CASE UNCHANGED delivery_vars \/ Registers \/ DestroyNotify
  BY <1>1, <1>7 DEF delivery_vars, Registers, DestroyNotify
<1>8. ASSUME NEW p \in Publishers, LookUpRoute(p)
      PROVE  PlaceInv'
  BY <1>1, <1>8 DEF LookUpRoute
<1> QED
  BY <1>2, <1>3, <1>4, <1>5, <1>6, <1>7, <1>8, StepKinds, PlacePublish, PlaceTake

(* Nothing is held, queued or in flight at the start. *)
LEMMA PlaceInit == Init => PlaceInv
  BY DEF Init, PlaceInv, Unsettled, HeldOnce, QueuedOnce, Apart, Somewhere, Places

(* The two sets MessageInOnePlace counts have one element together. *)
LEMMA OnePlaceEach == TypeInv /\ PlaceInv => MessageInOnePlace
<1> SUFFICES ASSUME TypeInv, PlaceInv, NEW m \in Msgs
             PROVE  Cardinality({x \in Threads : msg[x] = m})
                      + Cardinality({i \in Places : task_queue[i] = m})
                    = IF m \in InFlight THEN 1 ELSE 0
  BY DEF MessageInOnePlace, Places
<1> DEFINE held   == {x \in Threads : msg[x] = m}
           queued == {i \in Places : task_queue[i] = m}
<1>1. m # NoMsg
  BY DispatcherAssumption
<1>2. Cardinality({}) = 0
  BY FS_EmptySet
<1>3. CASE m \notin InFlight
  <2>1. held = {} /\ queued = {}
    BY <1>1, <1>3 DEF InFlight, PlaceInv, Unsettled
  <2> QED
    BY <1>2, <1>3, <2>1
<1>4. CASE \E x \in Threads : msg[x] = m
  <2>1. PICK x \in Threads : msg[x] = m
    BY <1>4
  <2>2. held = {x}
    BY <1>1, <2>1 DEF PlaceInv, HeldOnce
  <2>3. queued = {}
    BY <2>1 DEF PlaceInv, Apart
  <2>4. m \in InFlight
    BY <1>1, <2>1 DEF InFlight, PlaceInv, Unsettled
  <2> QED
    BY <1>2, <2>2, <2>3, <2>4, FS_Singleton
<1>5. CASE \E i \in Places : task_queue[i] = m
  <2>1. PICK i \in Places : task_queue[i] = m
    BY <1>5
  <2>2. queued = {i}
    BY <2>1 DEF PlaceInv, QueuedOnce
  <2>3. held = {}
    BY <2>1 DEF PlaceInv, Apart
  <2>4. m \in InFlight
    BY <2>1 DEF InFlight, PlaceInv, Unsettled
  <2>5. Cardinality({i}) = 1
    BY FS_Singleton
  <2> HIDE DEF held, queued
  <2>6. Cardinality(held) + Cardinality(queued) = 1
    BY <1>2, <2>2, <2>3, <2>5
  <2> QED
    BY <2>4, <2>6 DEF held, queued
<1> QED
  BY <1>3, <1>4, <1>5 DEF InFlight, PlaceInv, Somewhere

(* For any number of threads and messages and however the modes are        *)
(* switched while messages are queued: a message in flight is with one     *)
(* thread or in one slot of task_queue_, a settled one nowhere.            *)
THEOREM InOnePlace == Spec => []MessageInOnePlace
<1>1. Init => TypeInv /\ PlaceInv
  BY TypeInit, PlaceInit
<1>2. TypeInv /\ PlaceInv /\ [Next]_vars => (TypeInv /\ PlaceInv)'
  BY TypeNext, PlaceNext
<1>3. TypeInv /\ PlaceInv => MessageInOnePlace
  BY OnePlaceEach
<1> QED
  BY <1>1, <1>2, <1>3, PTL DEF Spec

-----------------------------------------------------------------------------
(* Who has been called. *)

(* Nobody heard of m yet. *)
Untouched(m) == \A l \in Listeners : calls[m][l] = 0

(* What RouteEvent captured is the registered bearer of the key. *)
Routed(m) ==
  m.kind = "route" =>
    /\ \A s \in target[m] : s.id = m.key /\ s \in seen[m]
    /\ \A s \in steady[m] : s \in Subs /\ s.id = m.key => s \in target[m]

(* The listeners of K have been called with m or are left to be called:    *)
(* heard[l] counts the calls, ever are those registered at some moment     *)
(* since the publication, always those registered throughout.              *)
Served(m, K, left, heard, ever, always) ==
  /\ left \subseteq K
  /\ \A l \in Listeners :
       /\ heard[l] \in {0, 1}
       /\ l \in left => heard[l] = 0 /\ l \in ever /\ Concerns(l, m)
       /\ heard[l] = 1 => l \in K /\ l \in ever /\ Concerns(l, m)
       /\ l \in K /\ l \in always /\ Concerns(l, m) => l \in left \/ heard[l] = 1

ServedBy(x, K) ==
  Served(msg[x], K, todo[x], calls[msg[x]], seen[msg[x]], steady[msg[x]])

MessageOK(m) ==
  /\ outcome[m] \in {"none", "filtered", "dropped"} => Untouched(m)
  /\ outcome[m] = "published" => steady[m] \subseteq Registered /\ Registered \subseteq seen[m]
  /\ outcome[m] = "done" => Served(m, Listeners, {}, calls[m], seen[m], steady[m])

ThreadOK(x) ==
  /\ pc[x] \in Early \union Late => Untouched(msg[x])
  /\ pc[x] \in Late => Routed(msg[x])
  /\ pc[x] \in {"count", "stats"} => msg[x].kind # "route"
  /\ pc[x] = "callSubscribers" => ServedBy(x, Subs)
  /\ pc[x] = "callCallbacks" => ServedBy(x, Listeners)

SlotOK(i) == Untouched(task_queue[i]) /\ Routed(task_queue[i])

DeliveryInv ==
  /\ \A m \in Msgs : MessageOK(m)
  /\ \A x \in Threads : ThreadOK(x)
  /\ \A i \in Places : SlotOK(i)

(* Fewer listeners registered throughout and more registered at some       *)
(* moment: what was right stays right.                                     *)
LEMMA ServedLater ==
  ASSUME NEW m, NEW K, NEW left, NEW heard, NEW ever, NEW always,
         NEW ever2, NEW always2, ever \subseteq ever2, always2 \subseteq always,
         Served(m, K, left, heard, ever, always)
  PROVE  Served(m, K, left, heard, ever2, always2)
  BY DEF Served

(* What a step leaves alone of a message. *)
Kept(m) ==
  /\ calls'[m] = calls[m] /\ target'[m] = target[m]
  /\ steady'[m] \subseteq steady[m] /\ seen[m] \subseteq seen'[m]

LEMMA UntouchedLater ==
  ASSUME NEW m \in Msgs, Kept(m), Untouched(m)
  PROVE  Untouched(m)'
  BY DEF Kept, Untouched

(* A thread that did not move, with a message the step left alone. *)
LEMMA ThreadLater ==
  ASSUME TypeInv, NEW x \in Threads, ThreadOK(x),
         pc'[x] = pc[x], msg'[x] = msg[x], todo'[x] = todo[x],
         msg[x] \in Msgs => Kept(msg[x])
  PROVE  ThreadOK(x)'
<1>1. CASE pc[x] \in Idle
  BY <1>1 DEF ThreadOK, Idle, Early, Late
<1>2. CASE pc[x] \notin Idle
  <2> DEFINE m == msg[x]
  <2>1. m \in Msgs /\ Kept(m)
    BY <1>2, BusyHasMessage
  <2>2. ASSUME pc[x] \in Early \union Late
        PROVE  Untouched(msg[x])'
    BY <2>1, <2>2 DEF ThreadOK, Untouched, Kept
  <2>3. ASSUME pc[x] \in Late
        PROVE  Routed(msg[x])'
    <3>1. Routed(msg[x])
      BY <2>3 DEF ThreadOK
    <3> QED
      BY <2>1, <3>1 DEF Routed, Kept
  <2>4. ASSUME NEW K, ServedBy(x, K)
        PROVE  ServedBy(x, K)'
    <3>1. Served(m, K, todo[x], calls[m], seen'[m], steady'[m])
      BY <2>1, <2>4, ServedLater DEF ServedBy, Kept
    <3> QED
      BY <2>1, <3>1 DEF ServedBy, Kept
  <2>5. ServedBy(x, Subs) => ServedBy(x, Subs)'
    BY <2>4
  <2>6. ServedBy(x, Listeners) => ServedBy(x, Listeners)'
    BY <2>4
  <2> QED
    BY <2>2, <2>3, <2>5, <2>6 DEF ThreadOK
<1> QED
  BY <1>1, <1>2

(* An idle thread owes nothing. *)
LEMMA ThreadIdle ==
  ASSUME NEW x \in Threads, pc'[x] \in Idle
  PROVE  ThreadOK(x)'
  BY DEF ThreadOK, Idle, Early, Late

(* Slots that keep their message. *)
LEMMA SlotLater ==
  ASSUME TypeInv, NEW i \in Places, SlotOK(i), task_queue'[i] = task_queue[i],
         Kept(task_queue[i])
  PROVE  SlotOK(i)'
<1>1. task_queue[i] \in Msgs
  BY DEF TypeInv, Places
<1> QED
  BY <1>1 DEF SlotOK, Untouched, Routed, Kept

(* A message whose registered listeners and outcome a step leaves alone. *)
LEMMA MessageLater ==
  ASSUME TypeInv, NEW m \in Msgs, MessageOK(m), outcome'[m] = outcome[m], Kept(m),
         outcome[m] = "published" =>
           steady'[m] \subseteq Registered' /\ Registered' \subseteq seen'[m]
  PROVE  MessageOK(m)'
<1>1. ASSUME outcome[m] = "done"
      PROVE  Served(m, Listeners, {}, calls'[m], seen'[m], steady'[m])
  BY <1>1, ServedLater DEF MessageOK, Kept
<1> QED
  BY <1>1, UntouchedLater DEF MessageOK

(* All of it at once, for a step that changes neither the calls made, the  *)
(* outcomes nor the registrations: only the threads it moves are left.     *)
Quiet == UNCHANGED <<subscribers, callbacks, target, calls, outcome, steady, seen>>

LEMMA QuietKeeps ==
  ASSUME TypeInv, DeliveryInv, Quiet
  PROVE  /\ \A m \in Msgs : Kept(m) /\ MessageOK(m)'
         /\ \A x \in Threads :
              pc'[x] = pc[x] /\ msg'[x] = msg[x] /\ todo'[x] = todo[x] => ThreadOK(x)'
         /\ UNCHANGED task_queue => \A i \in Places' : SlotOK(i)'
<1>1. \A m \in Msgs : Kept(m)
  BY DEF Kept, Quiet
<1>2. Registered' = Registered
  BY DEF Quiet, Registered
<1>3. ASSUME NEW m \in Msgs
      PROVE  MessageOK(m)'
  <2>1. MessageOK(m) /\ outcome'[m] = outcome[m] /\ steady'[m] = steady[m] /\ seen'[m] = seen[m]
    BY DEF DeliveryInv, Quiet
  <2> QED
    BY <1>1, <1>2, <2>1, MessageLater DEF MessageOK
<1>4. ASSUME NEW x \in Threads, pc'[x] = pc[x], msg'[x] = msg[x], todo'[x] = todo[x]
      PROVE  ThreadOK(x)'
  BY <1>1, <1>4, ThreadLater DEF DeliveryInv
<1>5. ASSUME UNCHANGED task_queue, NEW i \in Places'
      PROVE  SlotOK(i)'
  <2>1. i \in Places /\ task_queue[i] \in Msgs
    BY <1>5 DEF Places, TypeInv
  <2> QED
    BY <1>1, <1>5, <2>1, SlotLater DEF DeliveryInv
<1> QED
  BY <1>1, <1>3, <1>4, <1>5

(* A message is with one thread only, and then in no slot. *)
LEMMA OneHolder ==
  ASSUME TypeInv, PlaceInv, NEW x \in Threads, msg[x] \in Msgs
  PROVE  /\ outcome[msg[x]] = "published"
         /\ \A y \in Threads : y # x => msg[y] # msg[x]
         /\ \A i \in Places : task_queue[i] # msg[x]
  BY DispatcherAssumption DEF PlaceInv, Unsettled, HeldOnce, Apart

(* Registration. *)
LEMMA DeliveryRegister ==
  ASSUME TypeInv, DeliveryInv, Registers
  PROVE  DeliveryInv'
<1>1. /\ Observe(subscribers' \union callbacks')
      /\ UNCHANGED <<task_queue, pc, msg, todo, target, calls, outcome>>
  BY DEF Registers
<1>2. \A m \in Msgs : Kept(m)
  BY <1>1 DEF Observe, Kept
<1>3. ASSUME NEW m \in Msgs
      PROVE  MessageOK(m)'
  <2>1. ASSUME outcome[m] = "published"
        PROVE  steady'[m] \subseteq Registered' /\ Registered' \subseteq seen'[m]
    BY <1>1, <2>1 DEF Observe, Registered, InFlight
  <2> QED
    BY <1>1, <1>2, <2>1, MessageLater DEF DeliveryInv
<1>4. ASSUME NEW x \in Threads
      PROVE  ThreadOK(x)'
  BY <1>1, <1>2, ThreadLater DEF DeliveryInv
<1>5. ASSUME NEW i \in Places'
      PROVE  SlotOK(i)'
  <2>1. i \in Places /\ task_queue[i] \in Msgs
    BY <1>1 DEF Places, TypeInv
  <2> QED
    BY <1>1, <1>2, <2>1, SlotLater DEF DeliveryInv
<1> QED
  BY <1>3, <1>4, <1>5 DEF DeliveryInv

(* Publication: nobody has heard of the message, and its listeners are     *)
(* those registered now.                                                   *)
LEMMA DeliveryPublish ==
  ASSUME TypeInv, PlaceInv, DeliveryInv, NEW p \in Publishers, NEW m \in Msgs, Publish(p, m)
  PROVE  DeliveryInv'
<1>1. /\ p \in Threads /\ outcome[m] = "none" /\ pc[p] = "idle"
      /\ steady' = [steady EXCEPT ![m] = Registered]
      /\ seen' = [seen EXCEPT ![m] = Registered]
      /\ UNCHANGED <<task_queue, subscribers, callbacks, todo, target, calls>>
  BY DEF Publish, Threads, reg_vars
<1>2. /\ steady'[m] = Registered /\ seen'[m] = Registered /\ Registered' = Registered
      /\ \A o \in Msgs : o # m => steady'[o] = steady[o] /\ seen'[o] = seen[o]
  BY <1>1 DEF TypeInv, Registered
<1>3. \A o \in Msgs : o # m => Kept(o)
  BY <1>1, <1>2 DEF Kept
<1>4. /\ \A x \in Threads : msg[x] # m
      /\ \A i \in Places : task_queue[i] # m
  <2>1. m # NoMsg
    BY DispatcherAssumption
  <2> QED
    BY <1>1, <2>1 DEF PlaceInv, Unsettled
<1>5. Untouched(m)'
  BY <1>1 DEF DeliveryInv, MessageOK, Untouched
<1>6. ASSUME NEW x \in Threads, pc'[x] = pc[x], msg'[x] = msg[x]
      PROVE  ThreadOK(x)'
  BY <1>1, <1>3, <1>4, <1>6, ThreadLater DEF DeliveryInv
<1>7. ASSUME NEW i \in Places'
      PROVE  SlotOK(i)'
  <2>1. i \in Places /\ task_queue[i] \in Msgs
    BY <1>1 DEF Places, TypeInv
  <2> QED
    BY <1>1, <1>3, <1>4, <2>1, SlotLater DEF DeliveryInv
<1>8. ASSUME NEW o \in Msgs, o # m, outcome'[o] = outcome[o]
      PROVE  MessageOK(o)'
  <2>1. MessageOK(o) /\ Kept(o)
    BY <1>3, <1>8 DEF DeliveryInv
  <2>2. outcome[o] = "published" => steady'[o] \subseteq Registered' /\ Registered' \subseteq seen'[o]
    BY <1>2, <1>8, <2>1 DEF MessageOK
  <2> QED
    BY <1>8, <2>1, <2>2, MessageLater
<1>9. CASE outcome' = [outcome EXCEPT ![m] = "filtered"] /\ UNCHANGED <<pc, msg>>
  <2>1. outcome'[m] = "filtered" /\ \A o \in Msgs : o # m => outcome'[o] = outcome[o]
    BY <1>9 DEF TypeInv
  <2>2. MessageOK(m)'
    BY <1>5, <2>1 DEF MessageOK
  <2> QED
    BY <1>6, <1>7, <1>8, <1>9, <2>1, <2>2 DEF DeliveryInv
<1>10. CASE /\ outcome' = [outcome EXCEPT ![m] = "published"]
            /\ Goto(p, IF m.kind = "route" THEN "route" ELSE "count")
            /\ msg' = [msg EXCEPT ![p] = m]
  <2>1. outcome'[m] = "published" /\ \A o \in Msgs : o # m => outcome'[o] = outcome[o]
    BY <1>10 DEF TypeInv
  <2>2. MessageOK(m)'
    BY <1>2, <2>1 DEF MessageOK
  <2>3. /\ msg'[p] = m /\ \A x \in Threads : x # p => msg'[x] = msg[x] /\ pc'[x] = pc[x]
        /\ pc'[p] = IF m.kind = "route" THEN "route" ELSE "count"
    BY <1>1, <1>10 DEF Goto, TypeInv
  <2>4. ThreadOK(p)'
    BY <1>5, <2>3 DEF ThreadOK, Late, Untouched
  <2> QED
    BY <1>6, <1>7, <1>8, <2>1, <2>2, <2>3, <2>4 DEF DeliveryInv
<1> QED
  BY <1>9, <1>10 DEF Publish

(* The publisher's steps before the dispatch. *)
LEMMA DeliveryPrepare ==
  ASSUME TypeInv, DeliveryInv, NEW p \in Publishers,
         \/ Moves(p, {"count"}, {"stats"}) \/ Moves(p, {"stats"}, {"dispatch"})
         \/ Moves(p, {"dispatch"}, {"enqueue", "subscribers"})
  PROVE  DeliveryInv'
<1>1. /\ p \in Threads /\ Quiet /\ UNCHANGED <<task_queue, msg, todo>>
      /\ \E where \in {"stats", "dispatch", "enqueue", "subscribers"} : Goto(p, where)
  BY DEF Moves, Quiet, Threads
<1>2. \A x \in Threads : x # p => pc'[x] = pc[x]
  BY <1>1 DEF Goto, TypeInv
<1>3. \/ pc[p] = "count" /\ pc'[p] = "stats"
      \/ pc[p] = "stats" /\ pc'[p] = "dispatch"
      \/ pc[p] = "dispatch" /\ pc'[p] \in {"enqueue", "subscribers"}
  BY <1>1 DEF Moves, Goto, TypeInv
<1>4. ThreadOK(p) /\ msg'[p] = msg[p]
  BY <1>1 DEF DeliveryInv
<1>5. Untouched(msg[p]) /\ Untouched(msg[p])'
  BY <1>1, <1>3, <1>4 DEF ThreadOK, Early, Late, Untouched, Quiet
<1>6. pc'[p] \in Late => Routed(msg[p])'
  <2>1. CASE pc[p] = "stats"
    BY <1>4, <2>1 DEF ThreadOK, Routed
  <2>2. CASE pc[p] = "dispatch"
    BY <1>1, <1>4, <2>2 DEF ThreadOK, Late, Routed, Quiet
  <2> QED
    BY <1>3, <2>1, <2>2 DEF Late
<1>7. ThreadOK(p)'
  BY <1>3, <1>4, <1>5, <1>6 DEF ThreadOK
<1> QED
  BY <1>1, <1>2, <1>7, QuietKeeps DEF DeliveryInv

(* RouteEvent's look-up: the target is registered at this moment. *)
LEMMA DeliveryRoute ==
  ASSUME TypeInv, PlaceInv, DeliveryInv, NEW p \in Publishers, LookUpRoute(p)
  PROVE  DeliveryInv'
<1> DEFINE m == msg[p]
<1>1. /\ p \in Threads /\ pc[p] = "route"
      /\ target' = [target EXCEPT ![m] = {s \in subscribers : s.id = m.key}]
      /\ pc' = [pc EXCEPT ![p] = "dispatch"]
      /\ UNCHANGED <<task_queue, subscribers, callbacks, msg, todo, calls, outcome, steady, seen>>
  BY DEF LookUpRoute, Goto, Threads, reg_vars, hist_vars
<1>2. m \in Msgs
  BY <1>1, BusyHasMessage DEF Idle
<1>3. /\ outcome[m] = "published"
      /\ \A y \in Threads : y # p => msg[y] # m
      /\ \A i \in Places : task_queue[i] # m
  BY <1>1, <1>2, OneHolder
<1>4. /\ target'[m] = {s \in subscribers : s.id = m.key}
      /\ \A o \in Msgs : o # m => target'[o] = target[o]
      /\ pc'[p] = "dispatch" /\ \A y \in Threads : y # p => pc'[y] = pc[y]
  BY <1>1, <1>2 DEF TypeInv
<1>5. \A o \in Msgs : o # m => Kept(o)
  BY <1>1, <1>4 DEF Kept
<1>6. ASSUME NEW o \in Msgs
      PROVE  MessageOK(o)'
  BY <1>1 DEF DeliveryInv, MessageOK, Untouched, Registered
<1>7. ASSUME NEW y \in Threads, y # p
      PROVE  ThreadOK(y)'
  BY <1>1, <1>3, <1>4, <1>5, <1>7, ThreadLater DEF DeliveryInv
<1>8. ASSUME NEW i \in Places'
      PROVE  SlotOK(i)'
  <2>1. i \in Places /\ task_queue[i] \in Msgs
    BY <1>1 DEF Places, TypeInv
  <2> QED
    BY <1>1, <1>3, <1>5, <2>1, SlotLater DEF DeliveryInv
<1>9. ThreadOK(p)'
  <2>1. steady[m] \subseteq Registered /\ Registered \subseteq seen[m]
    BY <1>2, <1>3 DEF DeliveryInv, MessageOK
  <2>2. \A s \in target'[m] : s.id = m.key /\ s \in seen[m]
    BY <1>4, <2>1 DEF Registered
  <2>3. \A s \in steady[m] : s \in Subs => s \in subscribers
    BY <2>1, DispatcherAssumption DEF Registered, TypeInv
  <2>4. Routed(msg[p])'
    BY <1>1, <1>4, <2>2, <2>3 DEF Routed
  <2>5. Untouched(msg[p])'
    BY <1>1 DEF DeliveryInv, ThreadOK, Early, Untouched
  <2> QED
    BY <1>4, <2>4, <2>5 DEF ThreadOK
<1> QED
  BY <1>6, <1>7, <1>8, <1>9 DEF DeliveryInv

(* The message goes into the queue untouched, with its target. *)
LEMMA DeliveryEnqueue ==
  ASSUME TypeInv, DeliveryInv, NEW p \in Publishers, dispatchLocked(p), Enqueue(p)
  PROVE  DeliveryInv'
<1> DEFINE n == Len(task_queue)
<1>1. /\ p \in Threads /\ Quiet /\ UNCHANGED todo
      /\ task_queue' = Append(task_queue, msg[p])
      /\ msg' = [msg EXCEPT ![p] = NoMsg]
  BY DEF dispatchLocked, Enqueue, Quiet, Threads, reg_vars, hist_vars
<1>2. /\ pc'[p] = "idle" /\ pc[p] = "enqueue" /\ msg[p] \in Msgs
      /\ \A x \in Threads : x # p => pc'[x] = pc[x] \/ (pc[x] = "waiting" /\ pc'[x] = "ready")
  BY TypeEnqueue
<1>3. ASSUME NEW x \in Threads
      PROVE  ThreadOK(x)'
  <2>1. CASE pc'[x] \in Idle
    BY <2>1, ThreadIdle
  <2>2. CASE pc'[x] \notin Idle
    <3>1. x # p /\ pc'[x] = pc[x]
      BY <1>2, <2>2 DEF Idle
    <3>2. msg'[x] = msg[x] /\ todo'[x] = todo[x]
      BY <1>1, <3>1 DEF TypeInv
    <3> QED
      BY <1>1, <3>1, <3>2, QuietKeeps
  <2> QED
    BY <2>1, <2>2
<1>4. /\ Places' = Places \union {n + 1} /\ task_queue'[n + 1] = msg[p]
      /\ \A i \in Places : task_queue'[i] = task_queue[i] /\ task_queue[i] \in Msgs
  BY <1>1, <1>2 DEF TypeInv, Places
<1> HIDE DEF n
<1>5. ASSUME NEW i \in Places
      PROVE  SlotOK(i)'
  BY <1>1, <1>4, <1>5, QuietKeeps, SlotLater DEF DeliveryInv
<1>6. ASSUME NEW i, i = n + 1
      PROVE  SlotOK(i)'
  <2>1. Untouched(msg[p]) /\ Routed(msg[p])
    BY <1>1, <1>2 DEF DeliveryInv, ThreadOK, Late
  <2> QED
    BY <1>1, <1>4, <1>6, <2>1 DEF SlotOK, Untouched, Routed, Quiet
<1>7. \A i \in Places' : SlotOK(i)'
  BY <1>4, <1>5, <1>6
<1> QED
  BY <1>1, <1>3, <1>7, QuietKeeps DEF DeliveryInv

(* A dropped message has reached nobody. *)
LEMMA DeliveryDiscard ==
  ASSUME TypeInv, PlaceInv, DeliveryInv, NEW p \in Publishers, dispatchLocked(p), Discard(p)
  PROVE  DeliveryInv'
<1> DEFINE m == msg[p]
<1>1. /\ p \in Threads /\ pc[p] = "enqueue"
      /\ outcome' = [outcome EXCEPT ![m] = "dropped"]
      /\ pc' = [pc EXCEPT ![p] = "idle"] /\ msg' = [msg EXCEPT ![p] = NoMsg]
      /\ UNCHANGED <<task_queue, subscribers, callbacks, todo, target, calls, steady, seen>>
  BY DEF dispatchLocked, Discard, Goto, Threads, reg_vars, hist_vars
<1>2. m \in Msgs
  BY <1>1, BusyHasMessage DEF Idle
<1>3. \A o \in Msgs : Kept(o)
  BY <1>1 DEF Kept
<1>4. /\ outcome'[m] = "dropped" /\ \A o \in Msgs : o # m => outcome'[o] = outcome[o]
      /\ pc'[p] = "idle" /\ \A x \in Threads : x # p => pc'[x] = pc[x] /\ msg'[x] = msg[x]
  BY <1>1, <1>2 DEF TypeInv
<1>5. ASSUME NEW o \in Msgs, o = m
      PROVE  MessageOK(o)'
  <2>1. outcome'[o] = "dropped" /\ Untouched(o)
    BY <1>1, <1>4, <1>5 DEF DeliveryInv, ThreadOK, Late
  <2> QED
    BY <1>3, <2>1, UntouchedLater DEF MessageOK
<1>6. ASSUME NEW o \in Msgs, o # m
      PROVE  MessageOK(o)'
  BY <1>1, <1>4, <1>6 DEF DeliveryInv, MessageOK, Untouched, Registered
<1>7. ASSUME NEW x \in Threads
      PROVE  ThreadOK(x)'
  BY <1>1, <1>3, <1>4, ThreadLater, ThreadIdle DEF DeliveryInv, Idle
<1>8. ASSUME NEW i \in Places'
      PROVE  SlotOK(i)'
  <2>1. i \in Places /\ task_queue[i] \in Msgs
    BY <1>1 DEF Places, TypeInv
  <2> QED
    BY <1>1, <1>3, <2>1, SlotLater DEF DeliveryInv
<1> QED
  BY <1>5, <1>6, <1>7, <1>8 DEF DeliveryInv

(* A worker has the message as it was queued. *)
LEMMA DeliveryTake ==
  ASSUME TypeInv, DeliveryInv, NEW w \in Pool, Take(w)
  PROVE  DeliveryInv'
<1> DEFINE n == Len(task_queue)
<1>1. /\ w \in Threads /\ Quiet /\ UNCHANGED todo /\ task_queue # <<>>
      /\ msg' = [msg EXCEPT ![w] = Head(task_queue)]
      /\ task_queue' = Tail(task_queue)
      /\ pc' = [pc EXCEPT ![w] = "subscribers"]
  BY DEF Take, Goto, Quiet, Threads, reg_vars, hist_vars
<1>2. /\ n \in Nat /\ n >= 1 /\ Places = 1 .. n /\ Places' = 1 .. (n - 1)
      /\ Head(task_queue) = task_queue[1]
      /\ \A i \in 1 .. (n - 1) : task_queue'[i] = task_queue[i + 1]
  BY <1>1 DEF TypeInv, Places
<1>3. /\ msg'[w] = task_queue[1] /\ pc'[w] = "subscribers"
      /\ \A x \in Threads : x # w => msg'[x] = msg[x] /\ pc'[x] = pc[x]
  BY <1>1, <1>2 DEF TypeInv
<1> HIDE DEF n
<1>4. ThreadOK(w)'
  <2>1. Untouched(task_queue[1]) /\ Routed(task_queue[1])
    BY <1>2 DEF DeliveryInv, SlotOK
  <2> QED
    BY <1>1, <1>3, <2>1 DEF ThreadOK, Untouched, Routed, Quiet
<1>5. ASSUME NEW x \in Threads, x # w
      PROVE  ThreadOK(x)'
  BY <1>1, <1>3, <1>5, QuietKeeps
<1>6. ASSUME NEW i \in Places'
      PROVE  SlotOK(i)'
  <2>1. i + 1 \in Places /\ task_queue'[i] = task_queue[i + 1]
    BY <1>2
  <2>2. Untouched(task_queue[i + 1]) /\ Routed(task_queue[i + 1])
    BY <2>1 DEF DeliveryInv, SlotOK
  <2> QED
    BY <1>1, <2>1, <2>2 DEF SlotOK, Untouched, Routed, Quiet
<1> QED
  BY <1>1, <1>4, <1>5, <1>6, QuietKeeps DEF DeliveryInv

(* The copy of the subscribers: those registered now or, for a routed      *)
(* message, its target.                                                    *)
LEMMA DeliverySubscribers ==
  ASSUME TypeInv, PlaceInv, DeliveryInv, NEW x \in Threads, SnapshotSubscribers(x)
  PROVE  DeliveryInv'
<1> DEFINE m    == msg[x]
           left == IF m.kind = "route" THEN target[m] ELSE subscribers
<1>1. /\ pc[x] = "subscribers" /\ Quiet /\ UNCHANGED <<task_queue, msg>>
      /\ pc' = [pc EXCEPT ![x] = "callSubscribers"]
      /\ todo' = [todo EXCEPT ![x] = left]
  BY DEF SnapshotSubscribers, Goto, Quiet, reg_vars, hist_vars
<1>2. /\ pc'[x] = "callSubscribers" /\ todo'[x] = left
      /\ \A y \in Threads : y # x => pc'[y] = pc[y] /\ todo'[y] = todo[y]
  BY <1>1 DEF TypeInv
<1>3. m \in Msgs
  BY <1>1, BusyHasMessage DEF Idle
<1>4. steady[m] \subseteq Registered /\ Registered \subseteq seen[m]
  BY <1>3, OneHolder DEF DeliveryInv, MessageOK
<1>5. Untouched(m) /\ Routed(m)
  BY <1>1 DEF DeliveryInv, ThreadOK, Late
<1>6. left \subseteq Subs
  <2>1. target[m] \subseteq Subs /\ subscribers \subseteq Subs
    BY <1>3 DEF TypeInv
  <2> QED
    BY <2>1
<1>7. \A l \in left : l \in seen[m] /\ Concerns(l, m)
  BY <1>4, <1>5, <1>6 DEF Routed, Concerns, Registered
<1>8. ASSUME NEW l \in Subs, l \in steady[m], Concerns(l, m)
      PROVE  l \in left
  <2>1. l \in subscribers /\ (m.kind = "route" => l.id = m.key)
    BY <1>4, <1>8, DispatcherAssumption DEF Registered, TypeInv, Concerns
  <2> QED
    BY <1>5, <1>8, <2>1 DEF Routed
<1> HIDE DEF left
<1>9. Served(m, Subs, left, calls[m], seen[m], steady[m])
  BY <1>5, <1>6, <1>7, <1>8 DEF Served, Untouched
<1>10. ServedBy(x, Subs)'
  BY <1>1, <1>2, <1>9 DEF ServedBy, Quiet
<1>11. ThreadOK(x)'
  BY <1>2, <1>10 DEF ThreadOK, Early, Late
<1> QED
  BY <1>1, <1>2, <1>11, QuietKeeps DEF DeliveryInv

(* The copy of the callbacks, when every subscriber has been called. *)
LEMMA DeliveryCallbacks ==
  ASSUME TypeInv, PlaceInv, DeliveryInv, NEW x \in Threads, SnapshotCallbacks(x)
  PROVE  DeliveryInv'
<1> DEFINE m    == msg[x]
           left == Selected(m)
<1>1. /\ pc[x] = "callSubscribers" /\ todo[x] = {} /\ Quiet /\ UNCHANGED <<task_queue, msg>>
      /\ pc' = [pc EXCEPT ![x] = "callCallbacks"]
      /\ todo' = [todo EXCEPT ![x] = left]
  BY DEF SnapshotCallbacks, Goto, Quiet, reg_vars, hist_vars
<1>2. /\ pc'[x] = "callCallbacks" /\ todo'[x] = left
      /\ \A y \in Threads : y # x => pc'[y] = pc[y] /\ todo'[y] = todo[y]
  BY <1>1 DEF TypeInv
<1>3. m \in Msgs
  BY <1>1, BusyHasMessage DEF Idle
<1>4. steady[m] \subseteq Registered /\ Registered \subseteq seen[m]
  BY <1>3, OneHolder DEF DeliveryInv, MessageOK
<1>5. Served(m, Subs, {}, calls[m], seen[m], steady[m])
  BY <1>1 DEF DeliveryInv, ThreadOK, ServedBy
<1>6. left \subseteq Callbacks /\ left \subseteq Listeners /\ left \subseteq seen[m]
  BY <1>4 DEF Selected, TypeInv, Listeners, Registered
<1>7. \A l \in left : Concerns(l, m)
  BY <1>6 DEF Selected, Concerns
<1>8. ASSUME NEW l \in left
      PROVE  calls[m][l] = 0
  <2>1. l \in Listeners /\ l \notin Subs
    BY <1>6, DispatcherAssumption
  <2> QED
    BY <1>5, <2>1 DEF Served
<1>9. ASSUME NEW l \in Listeners, l \in steady[m], Concerns(l, m)
      PROVE  l \in left \/ calls[m][l] = 1
  <2>1. CASE l \in Subs
    BY <1>5, <1>9, <2>1 DEF Served
  <2>2. CASE l \notin Subs
    BY <1>4, <1>9, <2>2 DEF Registered, TypeInv, Concerns, Selected
  <2> QED
    BY <2>1, <2>2
<1> HIDE DEF left
<1>10. Served(m, Listeners, left, calls[m], seen[m], steady[m])
  BY <1>5, <1>6, <1>7, <1>8, <1>9 DEF Served
<1>11. ServedBy(x, Listeners)'
  BY <1>1, <1>2, <1>10 DEF ServedBy, Quiet
<1>12. ThreadOK(x)'
  BY <1>2, <1>11 DEF ThreadOK, Early, Late
<1> QED
  BY <1>1, <1>2, <1>12, QuietKeeps DEF DeliveryInv

(* One more listener of the copy is called. *)
LEMMA ServedCall ==
  ASSUME NEW m, NEW K, NEW left, NEW heard, NEW heard2, NEW ever, NEW always,
         Served(m, K, left, heard, ever, always), NEW l \in Listeners, l \in left,
         heard2[l] = heard[l] + 1,
         \A k \in Listeners : k # l => heard2[k] = heard[k]
  PROVE  Served(m, K, left \ {l}, heard2, ever, always)
<1>1. heard2[l] = 1 /\ l \in K /\ l \in ever /\ Concerns(l, m)
  BY DEF Served
<1>2. left \ {l} \subseteq K
  BY DEF Served
<1>3. ASSUME NEW k \in Listeners
      PROVE  /\ heard2[k] \in {0, 1}
             /\ k \in left \ {l} => heard2[k] = 0 /\ k \in ever /\ Concerns(k, m)
             /\ heard2[k] = 1 => k \in K /\ k \in ever /\ Concerns(k, m)
             /\ k \in K /\ k \in always /\ Concerns(k, m) => k \in left \ {l} \/ heard2[k] = 1
  <2>1. CASE k = l
    BY <1>1, <2>1
  <2>2. CASE k # l
    BY <2>2 DEF Served
  <2> QED
    BY <2>1, <2>2
<1> QED
  BY <1>2, <1>3 DEF Served

LEMMA DeliveryCall ==
  ASSUME TypeInv, PlaceInv, DeliveryInv, NEW x \in Threads, NEW l \in Listeners, Call(x, l)
  PROVE  DeliveryInv'
<1> DEFINE m == msg[x]
<1>1. /\ pc[x] \in Calls /\ l \in todo[x]
      /\ UNCHANGED <<task_queue, subscribers, callbacks, pc, msg, target, outcome, steady, seen>>
  BY DEF Call, Calls, reg_vars, hist_vars
<1>2. /\ m \in Msgs /\ todo'[x] = todo[x] \ {l}
      /\ calls'[m][l] = calls[m][l] + 1
      /\ \A k \in Listeners : k # l => calls'[m][k] = calls[m][k]
      /\ \A o \in Msgs : o # m => calls'[o] = calls[o]
      /\ \A y \in Threads : y # x => todo'[y] = todo[y]
  BY TypeCall
<1>3. /\ outcome[m] = "published"
      /\ \A y \in Threads : y # x => msg[y] # m
      /\ \A i \in Places : task_queue[i] # m
  BY <1>2, OneHolder
<1>4. \A o \in Msgs : o # m => Kept(o)
  BY <1>1, <1>2 DEF Kept
<1>5. ASSUME NEW o \in Msgs
      PROVE  MessageOK(o)'
  <2>1. CASE o = m
    BY <1>1, <1>3, <2>1 DEF DeliveryInv, MessageOK, Registered
  <2>2. CASE o # m
    BY <1>1, <1>4, <2>2, MessageLater DEF DeliveryInv, MessageOK, Registered
  <2> QED
    BY <2>1, <2>2
<1>6. ASSUME NEW y \in Threads, y # x
      PROVE  ThreadOK(y)'
  BY <1>1, <1>2, <1>3, <1>4, <1>6, ThreadLater DEF DeliveryInv
<1>7. ASSUME NEW i \in Places'
      PROVE  SlotOK(i)'
  <2>1. i \in Places /\ task_queue[i] \in Msgs
    BY <1>1 DEF Places, TypeInv
  <2> QED
    BY <1>1, <1>3, <1>4, <2>1, SlotLater DEF DeliveryInv
<1>8. ASSUME NEW K, ServedBy(x, K)
      PROVE  ServedBy(x, K)'
  <2>1. Served(m, K, todo[x] \ {l}, calls'[m], seen[m], steady[m])
    BY <1>1, <1>2, <1>8, ServedCall DEF ServedBy
  <2> QED
    BY <1>1, <1>2, <2>1 DEF ServedBy
<1>9. ThreadOK(x)'
  <2>1. CASE pc[x] = "callSubscribers"
    <3>1. ServedBy(x, Subs)'
      BY <1>8, <2>1 DEF DeliveryInv, ThreadOK
    <3> QED
      BY <1>1, <2>1, <3>1 DEF ThreadOK, Early, Late
  <2>2. CASE pc[x] = "callCallbacks"
    <3>1. ServedBy(x, Listeners)'
      BY <1>8, <2>2 DEF DeliveryInv, ThreadOK
    <3> QED
      BY <1>1, <2>2, <3>1 DEF ThreadOK, Early, Late
  <2> QED
    BY <1>1, <2>1, <2>2 DEF Calls
<1> QED
  BY <1>5, <1>6, <1>7, <1>9 DEF DeliveryInv

(* Nobody is left to be called: the message is delivered. *)
LEMMA DeliveryFinish ==
  ASSUME TypeInv, PlaceInv, DeliveryInv, NEW x \in Threads, Finish(x)
  PROVE  DeliveryInv'
<1> DEFINE m == msg[x]
<1>1. /\ pc[x] = "callCallbacks" /\ todo[x] = {}
      /\ outcome' = [outcome EXCEPT ![m] = "done"]
      /\ pc' = [pc EXCEPT ![x] = IF x \in Pool THEN "top" ELSE "idle"]
      /\ msg' = [msg EXCEPT ![x] = NoMsg]
      /\ UNCHANGED <<task_queue, subscribers, callbacks, todo, target, calls, steady, seen>>
  BY DEF Finish, Goto, reg_vars, hist_vars
<1>2. m \in Msgs
  BY <1>1, BusyHasMessage DEF Idle
<1>3. \A o \in Msgs : Kept(o)
  BY <1>1 DEF Kept
<1>4. /\ outcome'[m] = "done" /\ \A o \in Msgs : o # m => outcome'[o] = outcome[o]
      /\ pc'[x] \in Idle /\ \A y \in Threads : y # x => pc'[y] = pc[y] /\ msg'[y] = msg[y]
  BY <1>1, <1>2 DEF TypeInv, Idle
<1>5. ASSUME NEW o \in Msgs, o = m
      PROVE  MessageOK(o)'
  <2>1. outcome'[o] = "done" /\ Served(o, Listeners, {}, calls[o], seen[o], steady[o])
    BY <1>1, <1>4, <1>5 DEF DeliveryInv, ThreadOK, ServedBy
  <2> QED
    BY <1>1, <2>1 DEF MessageOK
<1>6. ASSUME NEW o \in Msgs, o # m
      PROVE  MessageOK(o)'
  BY <1>1, <1>4, <1>6 DEF DeliveryInv, MessageOK, Untouched, Registered
<1>7. ASSUME NEW y \in Threads
      PROVE  ThreadOK(y)'
  BY <1>1, <1>3, <1>4, ThreadLater, ThreadIdle DEF DeliveryInv
<1>8. ASSUME NEW i \in Places'
      PROVE  SlotOK(i)'
  <2>1. i \in Places /\ task_queue[i] \in Msgs
    BY <1>1 DEF Places, TypeInv
  <2> QED
    BY <1>1, <1>3, <2>1, SlotLater DEF DeliveryInv
<1> QED
  BY <1>5, <1>6, <1>7, <1>8 DEF DeliveryInv

(* Every step delivers as it should. *)
LEMMA DeliveryNext ==
  ASSUME TypeInv, PlaceInv, DeliveryInv, [Next]_vars
  PROVE  DeliveryInv'
<1>1. ASSUME Quiet, UNCHANGED <<task_queue, msg, todo>>,
             \A x \in Threads : pc'[x] = pc[x] \/ pc'[x] \in Idle
      PROVE  DeliveryInv'
  BY <1>1, QuietKeeps, ThreadIdle DEF DeliveryInv
<1>2. ASSUME NEW w \in Pool, Moves(w, Idle, Idle)
      PROVE  DeliveryInv'
  <2>1. PICK where \in Idle : Goto(w, where)
    BY <1>2 DEF Moves
  <2>2. \A x \in Threads : pc'[x] = pc[x] \/ pc'[x] \in Idle
    BY <2>1 DEF Goto, TypeInv
  <2> QED
    BY <1>1, <1>2, <2>2 DEF Moves, Quiet
<1>3. CASE DestroyNotify
  <2>1. \A x \in Threads : pc'[x] = pc[x] \/ pc'[x] \in Idle
    BY <1>3, TypeWake DEF Idle
  <2> QED
    BY <1>1, <1>3, <2>1 DEF DestroyNotify, Quiet, reg_vars, hist_vars
<1>4. CASE UNCHANGED delivery_vars
  BY <1>1, <1>4 DEF delivery_vars, Quiet
<1>5. ASSUME NEW x \in Threads, Deliver(x)
      PROVE  DeliveryInv'
  BY <1>5, DeliverySubscribers, DeliveryCallbacks, DeliveryCall, DeliveryFinish DEF Deliver
<1> QED
  BY <1>2, <1>3, <1>4, <1>5, StepKinds, DeliveryRegister, DeliveryPublish, DeliveryPrepare,
     DeliveryRoute, DeliveryEnqueue, DeliveryDiscard, DeliveryTake

(* Nobody has been called when nothing was published. *)
LEMMA DeliveryInit == Init => DeliveryInv
<1> SUFFICES ASSUME Init
             PROVE  DeliveryInv
  OBVIOUS
<1>1. \A m \in Msgs : MessageOK(m)
  BY DEF Init, MessageOK, Untouched
<1>2. \A x \in Threads : ThreadOK(x)
  BY DEF Init, ThreadOK, Early, Late
<1>3. Places = {}
  BY DEF Init, Places
<1> QED
  BY <1>1, <1>2, <1>3 DEF DeliveryInv

(* What is known of a message, wherever it is. *)
LEMMA DeliveredSoFar == TypeInv /\ PlaceInv /\ DeliveryInv => DeliveredOnceToTheRegistered
<1> SUFFICES ASSUME TypeInv, PlaceInv, DeliveryInv, NEW m \in Msgs, NEW l \in Listeners
             PROVE  /\ calls[m][l] <= 1
                    /\ calls[m][l] = 1 => l \in seen[m] /\ Concerns(l, m)
                                          /\ outcome[m] \in {"published", "done"}
                    /\ outcome[m] = "done" /\ l \in steady[m] /\ Concerns(l, m)
                         => calls[m][l] = 1
  BY DEF DeliveredOnceToTheRegistered
<1>1. outcome[m] \in {"none", "published", "filtered", "dropped", "done"} /\ MessageOK(m)
  BY DEF TypeInv, DeliveryInv
<1>2. CASE outcome[m] \in {"none", "filtered", "dropped"}
  BY <1>1, <1>2 DEF MessageOK, Untouched
<1>3. CASE outcome[m] = "done"
  BY <1>1, <1>3 DEF MessageOK, Served
<1>4. ASSUME outcome[m] = "published", Untouched(m)
      PROVE  calls[m][l] = 0
  BY <1>4 DEF Untouched
<1>5. CASE outcome[m] = "published"
  <2>1. ASSUME NEW i \in Places, task_queue[i] = m
        PROVE  calls[m][l] = 0
    BY <1>4, <1>5, <2>1 DEF DeliveryInv, SlotOK
  <2>2. ASSUME NEW x \in Threads, msg[x] = m
        PROVE  calls[m][l] \in {0, 1} /\ (calls[m][l] = 1 => l \in seen[m] /\ Concerns(l, m))
    <3>1. pc[x] \in Early \union Late \union Calls
      BY <2>2, DispatcherAssumption DEF TypeInv
    <3>2. ThreadOK(x)
      BY DEF DeliveryInv
    <3>3. CASE pc[x] \in Early \union Late
      BY <1>4, <1>5, <2>2, <3>2, <3>3 DEF ThreadOK
    <3>4. ASSUME NEW K, ServedBy(x, K)
          PROVE  calls[m][l] \in {0, 1} /\ (calls[m][l] = 1 => l \in seen[m] /\ Concerns(l, m))
      BY <2>2, <3>4 DEF ServedBy, Served
    <3>5. CASE pc[x] \in Calls
      BY <3>2, <3>4, <3>5 DEF ThreadOK, Calls
    <3> QED
      BY <3>1, <3>3, <3>5
  <2> QED
    BY <1>5, <2>1, <2>2 DEF PlaceInv, Somewhere
<1> QED
  BY <1>1, <1>2, <1>3, <1>5

(* For any set of listeners, however their registration races with the     *)
(* delivery of any number of messages by any number of threads: each gets  *)
(* a message at most once, only if registered at some time since its       *)
(* publication, and surely if registered until the delivery ended; a       *)
(* filtered or dropped message reaches nobody.                             *)
THEOREM DeliveredOnce == Spec => []DeliveredOnceToTheRegistered
<1>1. Init => TypeInv /\ PlaceInv /\ DeliveryInv
  BY TypeInit, PlaceInit, DeliveryInit
<1>2. TypeInv /\ PlaceInv /\ DeliveryInv /\ [Next]_vars => (TypeInv /\ PlaceInv /\ DeliveryInv)'
  BY TypeNext, PlaceNext, DeliveryNext
<1>3. TypeInv /\ PlaceInv /\ DeliveryInv => DeliveredOnceToTheRegistered
  BY DeliveredSoFar
<1> QED
  BY <1>1, <1>2, <1>3, PTL DEF Spec

-----------------------------------------------------------------------------
(* The statistics. *)

(* A counter is the number of messages counted with it, a finite set. *)
StatsInv ==
  /\ total \in [Totals -> Nat]
  /\ stats \in [total : [Totals -> Nat], subscribers : {Cardinality(subscribers)},
                counts : [Events -> Nat]]
  /\ \A k \in Totals :
       /\ IsFiniteSet(Counted(k)) /\ total[k] = Cardinality(Counted(k))
       /\ Cardinality(Recorded(k)) <= stats.total[k] /\ stats.total[k] <= total[k]
  /\ \A e \in Events :
       stats.counts[e] = Cardinality({m \in Recorded("event") : m.event = e})

(* A step that counts nothing: no message is published, and no publisher   *)
(* comes to or leaves its counter or stats_.                               *)
Calm ==
  /\ UNCHANGED <<total, stats, subscribers>>
  /\ \A m \in Msgs : outcome'[m] \in {"none", "filtered"} <=> outcome[m] \in {"none", "filtered"}
  /\ \A p \in Publishers :
       \/ pc'[p] = pc[p] /\ msg'[p] = msg[p]
       \/ pc[p] \notin {"count", "stats"} /\ pc'[p] \notin {"count", "stats"}

LEMMA StatsSame ==
  ASSUME StatsInv, UNCHANGED total,
         stats' \in [total : [Totals -> Nat], subscribers : {Cardinality(subscribers')},
                     counts : [Events -> Nat]],
         stats'.total = stats.total, stats'.counts = stats.counts,
         \A k \in Totals : Counted(k)' = Counted(k) /\ Recorded(k)' = Recorded(k)
  PROVE  StatsInv'
<1>1. Recorded("event")' = Recorded("event")
  BY DEF Totals
<1> QED
  BY <1>1 DEF StatsInv

LEMMA CalmKeeps ==
  ASSUME StatsInv, Calm
  PROVE  StatsInv'
<1>1. ASSUME NEW k, NEW m \in Msgs
      PROVE  /\ m \in Counted(k)' <=> m \in Counted(k)
             /\ m \in Recorded(k)' <=> m \in Recorded(k)
  BY DEF Calm, Counted, Recorded
<1>2. ASSUME NEW k
      PROVE  /\ Counted(k) \subseteq Msgs /\ Recorded(k) \subseteq Msgs
             /\ Counted(k)' \subseteq Msgs /\ Recorded(k)' \subseteq Msgs
  BY DEF Counted, Recorded
<1>3. \A k \in Totals : Counted(k)' = Counted(k) /\ Recorded(k)' = Recorded(k)
  BY <1>1, <1>2
<1> QED
  BY <1>3, StatsSame DEF StatsInv, Calm

(* (Un)registering a subscriber recounts them. *)
LEMMA StatsSubscribers ==
  ASSUME StatsInv, NEW new, SetSubscribers(new)
  PROVE  StatsInv'
<1>1. /\ subscribers' = new /\ UNCHANGED <<total, pc, msg, outcome>>
      /\ stats' = [stats EXCEPT !.subscribers = Cardinality(new)]
  BY DEF SetSubscribers, SubscriberCount, run_vars
<1>2. /\ stats' \in [total : [Totals -> Nat], subscribers : {Cardinality(subscribers')},
                     counts : [Events -> Nat]]
      /\ stats'.total = stats.total /\ stats'.counts = stats.counts
  BY <1>1 DEF StatsInv
<1>3. \A k \in Totals : Counted(k)' = Counted(k) /\ Recorded(k)' = Recorded(k)
  BY <1>1 DEF Counted, Recorded
<1> QED
  BY <1>1, <1>2, <1>3, StatsSame

(* A message just published is not counted yet; a routed one never is. *)
LEMMA StatsPublish ==
  ASSUME TypeInv, StatsInv, NEW p \in Publishers, NEW m \in Msgs, Publish(p, m)
  PROVE  StatsInv'
<1>1. /\ p \in Threads /\ pc[p] = "idle" /\ outcome[m] = "none"
      /\ UNCHANGED <<total, stats, subscribers>>
  BY DEF Publish, Threads, reg_vars, stat_vars
<1>2. CASE outcome' = [outcome EXCEPT ![m] = "filtered"] /\ UNCHANGED <<pc, msg>>
  BY <1>1, <1>2, CalmKeeps DEF Calm, TypeInv
<1>3. CASE /\ outcome' = [outcome EXCEPT ![m] = "published"]
           /\ Goto(p, IF m.kind = "route" THEN "route" ELSE "count")
           /\ msg' = [msg EXCEPT ![p] = m]
  <2>1. /\ outcome'[m] = "published" /\ \A o \in Msgs : o # m => outcome'[o] = outcome[o]
        /\ msg'[p] = m /\ \A x \in Threads : x # p => msg'[x] = msg[x] /\ pc'[x] = pc[x]
        /\ pc'[p] = IF m.kind = "route" THEN "route" ELSE "count"
    BY <1>1, <1>3 DEF Goto, TypeInv
  <2>2. \A x \in Publishers : x \in Threads
    BY DEF Threads
  <2>3. ASSUME NEW k \in Totals, NEW o \in Msgs
        PROVE  /\ o \in Counted(k)' <=> o \in Counted(k)
               /\ o \in Recorded(k)' <=> o \in Recorded(k)
    <3>1. CASE o = m
      BY <1>1, <2>1, <3>1 DEF Counted, Recorded, Totals
    <3>2. CASE o # m
      <4>1. ASSUME NEW x \in Publishers
            PROVE  /\ (pc'[x] = "count" => msg'[x] # o) <=> (pc[x] = "count" => msg[x] # o)
                   /\ (pc'[x] = "stats" => msg'[x] # o) <=> (pc[x] = "stats" => msg[x] # o)
        BY <1>1, <2>1, <2>2, <3>2
      <4> QED
        BY <2>1, <3>2, <4>1 DEF Counted, Recorded
    <3> QED
      BY <3>1, <3>2
  <2>4. ASSUME NEW k
        PROVE  /\ Counted(k) \subseteq Msgs /\ Recorded(k) \subseteq Msgs
               /\ Counted(k)' \subseteq Msgs /\ Recorded(k)' \subseteq Msgs
    BY DEF Counted, Recorded
  <2>5. \A k \in Totals : Counted(k)' = Counted(k) /\ Recorded(k)' = Recorded(k)
    BY <2>3, <2>4
  <2> QED
    BY <1>1, <2>5, StatsSame DEF StatsInv
<1> QED
  BY <1>2, <1>3 DEF Publish

(* The message a publisher counts, or records, is nobody else's. *)
LEMMA StatsCount ==
  ASSUME TypeInv, PlaceInv, DeliveryInv, StatsInv, NEW p \in Publishers, Count(p)
  PROVE  StatsInv'
<1> DEFINE m == msg[p]
<1>1. /\ p \in Threads /\ pc[p] = "count" /\ Publishers \subseteq Threads
      /\ total' = [total EXCEPT ![m.kind] = @ + 1]
      /\ pc' = [pc EXCEPT ![p] = "stats"]
      /\ UNCHANGED <<stats, subscribers, msg, outcome>>
  BY DEF Count, Goto, Threads, reg_vars
<1>2. m \in Msgs
  BY <1>1, BusyHasMessage DEF Idle
<1>3. m.kind \in Totals
  BY <1>1, <1>2, DispatcherAssumption DEF DeliveryInv, ThreadOK, Kinds, Totals
<1>4. outcome[m] = "published" /\ \A x \in Publishers : x # p => msg[x] # m
  BY <1>1, <1>2, OneHolder
<1>5. pc'[p] = "stats" /\ \A x \in Publishers : x # p => pc'[x] = pc[x]
  BY <1>1 DEF TypeInv
<1>6. total' \in [Totals -> Nat] /\ total'[m.kind] = total[m.kind] + 1
      /\ \A k \in Totals : k # m.kind => total'[k] = total[k]
  BY <1>1, <1>3 DEF StatsInv
<1>7. m \notin Counted(m.kind)
  BY <1>1 DEF Counted
<1>8. ASSUME NEW k \in Totals
      PROVE  /\ Recorded(k)' = Recorded(k)
             /\ Counted(k)' = IF k = m.kind THEN Counted(k) \union {m} ELSE Counted(k)
  <2>1. ASSUME NEW o \in Msgs, o # m
        PROVE  /\ o \in Counted(k)' <=> o \in Counted(k)
               /\ o \in Recorded(k)' <=> o \in Recorded(k)
    <3>1. ASSUME NEW x \in Publishers
          PROVE  /\ (pc'[x] = "count" => msg[x] # o) <=> (pc[x] = "count" => msg[x] # o)
                 /\ (pc'[x] = "stats" => msg[x] # o) <=> (pc[x] = "stats" => msg[x] # o)
      BY <1>1, <1>5, <2>1
    <3> QED
      BY <1>1, <2>1, <3>1 DEF Counted, Recorded
  <2>2. /\ m \in Counted(k)' <=> k = m.kind
        /\ m \notin Counted(k) /\ m \notin Recorded(k)' /\ m \notin Recorded(k)
    BY <1>1, <1>2, <1>4, <1>5 DEF Counted, Recorded
  <2>3. /\ Counted(k) \subseteq Msgs /\ Recorded(k) \subseteq Msgs
        /\ Counted(k)' \subseteq Msgs /\ Recorded(k)' \subseteq Msgs
    BY DEF Counted, Recorded
  <2> QED
    BY <1>2, <2>1, <2>2, <2>3
<1>9. ASSUME NEW k \in Totals
      PROVE  /\ IsFiniteSet(Counted(k)') /\ total'[k] = Cardinality(Counted(k)')
             /\ Cardinality(Recorded(k)') <= stats.total[k] /\ stats.total[k] <= total'[k]
  <2>1. /\ IsFiniteSet(Counted(k)) /\ total[k] = Cardinality(Counted(k)) /\ total[k] \in Nat
        /\ Cardinality(Recorded(k)) <= stats.total[k] /\ stats.total[k] <= total[k]
        /\ stats.total[k] \in Nat
    BY DEF StatsInv
  <2>2. CASE k = m.kind
    <3>1. IsFiniteSet(Counted(k) \union {m})
          /\ Cardinality(Counted(k) \union {m}) = Cardinality(Counted(k)) + 1
      BY <1>7, <2>1, <2>2, FS_AddElement
    <3>2. Counted(k)' = Counted(k) \union {m} /\ Recorded(k)' = Recorded(k)
      BY <1>8, <2>2
    <3> QED
      BY <1>6, <2>1, <2>2, <3>1, <3>2
  <2>3. CASE k # m.kind
    BY <1>6, <1>8, <2>1, <2>3
  <2> QED
    BY <2>2, <2>3
<1>10. Recorded("event")' = Recorded("event")
  BY <1>8 DEF Totals
<1> QED
  BY <1>1, <1>6, <1>9, <1>10 DEF StatsInv

LEMMA StatsRecord ==
  ASSUME TypeInv, PlaceInv, StatsInv, NEW p \in Publishers, RecordStats(p)
  PROVE  StatsInv'
<1> DEFINE m       == msg[p]
           here(e) == m.kind = "event" /\ e = m.event
<1>1. /\ p \in Threads /\ pc[p] = "stats" /\ Publishers \subseteq Threads
      /\ stats' = [total |-> total, subscribers |-> Cardinality(subscribers),
                   counts |-> [e \in Events |->
                     IF here(e) THEN stats.counts[e] + 1 ELSE stats.counts[e]]]
      /\ pc' = [pc EXCEPT ![p] = "dispatch"]
      /\ UNCHANGED <<total, subscribers, msg, outcome>>
  BY DEF RecordStats, CopiedTotals, SubscriberCount, Goto, Threads, reg_vars
<1>2. m \in Msgs
  BY <1>1, BusyHasMessage DEF Idle
<1>3. outcome[m] = "published" /\ \A x \in Publishers : x # p => msg[x] # m
  BY <1>1, <1>2, OneHolder
<1>4. pc'[p] = "dispatch" /\ \A x \in Publishers : x # p => pc'[x] = pc[x]
  BY <1>1 DEF TypeInv
<1>5. total \in [Totals -> Nat] /\ stats.counts \in [Events -> Nat]
  BY DEF StatsInv
<1>6. /\ stats' \in [total : [Totals -> Nat], subscribers : {Cardinality(subscribers')},
                     counts : [Events -> Nat]]
      /\ stats'.total = total
      /\ \A e \in Events :
           stats'.counts[e] = IF here(e) THEN stats.counts[e] + 1 ELSE stats.counts[e]
  <2> DEFINE c == [e \in Events |-> IF here(e) THEN stats.counts[e] + 1 ELSE stats.counts[e]]
  <2>1. c \in [Events -> Nat]
    BY <1>5
  <2>2. stats' = [total |-> total, subscribers |-> Cardinality(subscribers), counts |-> c]
    BY <1>1
  <2>3. \A e \in Events : c[e] = IF here(e) THEN stats.counts[e] + 1 ELSE stats.counts[e]
    OBVIOUS
  <2> HIDE DEF c
  <2> QED
    BY <1>1, <1>5, <2>1, <2>2, <2>3
<1>7. ASSUME NEW k
      PROVE  /\ Counted(k)' = Counted(k) /\ Recorded(k) \subseteq Counted(k)
             /\ Recorded(k)' = IF k = m.kind THEN Recorded(k) \union {m} ELSE Recorded(k)
             /\ m \notin Recorded(k)
  <2>1. ASSUME NEW o \in Msgs, o # m
        PROVE  /\ o \in Counted(k)' <=> o \in Counted(k)
               /\ o \in Recorded(k)' <=> o \in Recorded(k)
    <3>1. ASSUME NEW x \in Publishers
          PROVE  /\ (pc'[x] = "count" => msg[x] # o) <=> (pc[x] = "count" => msg[x] # o)
                 /\ (pc'[x] = "stats" => msg[x] # o) <=> (pc[x] = "stats" => msg[x] # o)
      BY <1>1, <1>4, <2>1
    <3> QED
      BY <1>1, <2>1, <3>1 DEF Counted, Recorded
  <2>2. /\ m \in Counted(k)' <=> k = m.kind
        /\ m \in Counted(k) <=> k = m.kind
        /\ m \in Recorded(k)' <=> k = m.kind
        /\ m \notin Recorded(k)
    BY <1>1, <1>2, <1>3, <1>4 DEF Counted, Recorded
  <2>3. /\ Counted(k) \subseteq Msgs /\ Recorded(k) \subseteq Counted(k)
        /\ Counted(k)' \subseteq Msgs /\ Recorded(k)' \subseteq Msgs
    BY DEF Counted, Recorded
  <2> QED
    BY <1>2, <2>1, <2>2, <2>3
<1>8. ASSUME NEW k \in Totals
      PROVE  /\ IsFiniteSet(Counted(k)') /\ total'[k] = Cardinality(Counted(k)')
             /\ Cardinality(Recorded(k)') <= stats'.total[k] /\ stats'.total[k] <= total'[k]
  <2>1. IsFiniteSet(Counted(k)) /\ total[k] = Cardinality(Counted(k)) /\ total[k] \in Nat
    BY DEF StatsInv
  <2>2. Recorded(k)' \subseteq Counted(k)'
    BY DEF Recorded
  <2>3. Cardinality(Recorded(k)') <= Cardinality(Counted(k))
    BY <1>7, <2>1, <2>2, FS_Subset
  <2> QED
    BY <1>1, <1>6, <1>7, <2>1, <2>3
<1>9. ASSUME NEW e \in Events
      PROVE  stats'.counts[e] = Cardinality({o \in Recorded("event")' : o.event = e})
  <2> DEFINE before == {o \in Recorded("event") : o.event = e}
             after  == {o \in Recorded("event")' : o.event = e}
  <2>1. stats.counts[e] = Cardinality(before)
    BY DEF StatsInv
  <2>2. IsFiniteSet(before)
    <3>1. IsFiniteSet(Counted("event")) /\ before \subseteq Counted("event")
      BY <1>7 DEF StatsInv, Totals
    <3> QED
      BY <3>1, FS_Subset
  <2>3. CASE here(e)
    <3>1. after = before \union {m} /\ m \notin before
      BY <1>7, <2>3
    <3>2. Cardinality(before \union {m}) = Cardinality(before) + 1
      BY <2>2, <3>1, FS_AddElement
    <3> HIDE DEF before, after
    <3> QED
      BY <1>6, <2>1, <2>3, <3>1, <3>2 DEF after
  <2>4. CASE ~here(e)
    <3>1. after = before
      BY <1>7, <2>4
    <3> HIDE DEF before, after
    <3> QED
      BY <1>6, <2>1, <2>4, <3>1 DEF after
  <2> QED
    BY <2>3, <2>4
<1> QED
  BY <1>1, <1>5, <1>6, <1>8, <1>9 DEF StatsInv

(* No other step counts anything. *)
LEMMA StatsNext ==
  ASSUME TypeInv, PlaceInv, DeliveryInv, StatsInv, [Next]_vars
  PROVE  StatsInv'
<1> USE DEF config_vars, reg_vars, stat_vars, run_vars, hist_vars
<1>1. ASSUME UNCHANGED <<total, stats, subscribers, pc, msg, outcome>>
      PROVE  StatsInv'
  BY <1>1, CalmKeeps DEF Calm
<1>2. CASE Configure
  <2>1. ASSUME NEW new, SetSubscribers(new)
        PROVE  StatsInv'
    BY <2>1, StatsSubscribers
  <2>2. CASE \/ \E s \in Subs : RegisterSubscriber(s)
             \/ \E id \in Ids : UnregisterSubscriber(id)
             \/ UnregisterAllSubscribers
    BY <2>1, <2>2 DEF RegisterSubscriber, UnregisterSubscriber, UnregisterAllSubscribers
  <2>3. CASE \E c \in Callbacks : Subscribe(c)
    BY <1>1, <2>3 DEF Subscribe
  <2>4. CASE \E f \in Filters : AddEventFilter(f)
    BY <1>1, <2>4 DEF AddEventFilter
  <2>5. CASE \E i \in 0 .. Len(filters) : RemoveEventFilter(i)
    BY <1>1, <2>5 DEF RemoveEventFilter
  <2>6. CASE \E n \in Sizes : SetMaxQueueSize(n)
    BY <1>1, <2>6 DEF SetMaxQueueSize
  <2>7. CASE \E b \in BOOLEAN : SetAsyncDispatch(b)
    BY <1>1, <2>7 DEF SetAsyncDispatch
  <2> QED
    BY <1>2, <2>2, <2>3, <2>4, <2>5, <2>6, <2>7 DEF Configure
<1>3. ASSUME NEW x \in Threads, UNCHANGED <<total, stats, subscribers, outcome>>,
             \A y \in Threads : y # x => pc'[y] = pc[y] /\ msg'[y] = msg[y],
             pc[x] \notin {"count", "stats"}, pc'[x] \notin {"count", "stats"}
      PROVE  StatsInv'
  <2>1. \A p \in Publishers : p \in Threads
    BY DEF Threads
  <2> QED
    BY <1>3, <2>1, CalmKeeps DEF Calm
<1>4. ASSUME NEW x \in Threads, NEW where, where \notin {"count", "stats"}, Goto(x, where),
             UNCHANGED <<total, stats, subscribers, outcome, msg>>, pc[x] \notin {"count", "stats"}
      PROVE  StatsInv'
  BY <1>3, <1>4 DEF Goto, TypeInv
<1>5. ASSUME NEW x \in Threads, msg[x] \in Msgs, NEW how \in {"dropped", "done"},
             outcome' = [outcome EXCEPT ![msg[x]] = how],
             UNCHANGED <<total, stats, subscribers>>, msg' = [msg EXCEPT ![x] = NoMsg],
             NEW where, where \notin {"count", "stats"}, Goto(x, where), pc[x] \notin {"count", "stats"}
      PROVE  StatsInv'
  <2>1. outcome[msg[x]] = "published"
    BY <1>5, OneHolder
  <2>2. \A m \in Msgs : outcome'[m] \in {"none", "filtered"} <=> outcome[m] \in {"none", "filtered"}
    BY <1>5, <2>1 DEF TypeInv
  <2>3. \A y \in Threads : \/ pc'[y] = pc[y] /\ msg'[y] = msg[y]
                           \/ pc[y] \notin {"count", "stats"} /\ pc'[y] \notin {"count", "stats"}
    BY <1>5 DEF Goto, TypeInv
  <2> QED
    BY <1>5, <2>2, <2>3, CalmKeeps DEF Calm, Threads
<1>6. ASSUME NEW x \in Threads, Deliver(x)
      PROVE  StatsInv'
  <2>1. CASE SnapshotSubscribers(x)
    BY <1>4, <2>1 DEF SnapshotSubscribers
  <2>2. CASE SnapshotCallbacks(x)
    BY <1>4, <2>2 DEF SnapshotCallbacks
  <2>3. ASSUME NEW l \in Listeners, Call(x, l)
        PROVE  StatsInv'
    BY <1>1, <2>3 DEF Call
  <2>4. CASE Finish(x)
    <3>1. msg[x] \in Msgs
      BY <2>4, BusyHasMessage DEF Finish, Idle
    <3> QED
      BY <1>5, <2>4, <3>1 DEF Finish
  <2> QED
    BY <1>6, <2>1, <2>2, <2>3, <2>4 DEF Deliver
<1>7. ASSUME NEW p \in Publishers, PublisherStep(p)
      PROVE  StatsInv'
  <2>1. p \in Threads
    BY DEF Threads
  <2>2. CASE LookUpRoute(p)
    BY <1>4, <2>1, <2>2 DEF LookUpRoute
  <2>3. CASE dispatchTask(p)
    BY <1>4, <2>1, <2>3 DEF dispatchTask
  <2>4. CASE dispatchLocked(p) /\ Enqueue(p)
    <3>1. /\ pc[p] = "enqueue" /\ pc'[p] = "idle"
          /\ \A x \in Threads : x # p => pc'[x] = pc[x] \/ (pc[x] = "waiting" /\ pc'[x] = "ready")
      BY <2>4, TypeEnqueue
    <3>2. \A x \in Threads : x # p => msg'[x] = msg[x]
      BY <2>1, <2>4 DEF Enqueue, TypeInv
    <3>3. UNCHANGED <<total, stats, subscribers, outcome>>
      BY <2>4 DEF dispatchLocked, Enqueue
    <3>4. \A x \in Publishers :
            \/ pc'[x] = pc[x] /\ msg'[x] = msg[x]
            \/ pc[x] \notin {"count", "stats"} /\ pc'[x] \notin {"count", "stats"}
      BY <3>1, <3>2 DEF Threads
    <3> QED
      BY <3>3, <3>4, CalmKeeps DEF Calm
  <2>5. CASE dispatchLocked(p) /\ Discard(p)
    <3>1. pc[p] = "enqueue" /\ msg[p] \in Msgs
      BY <2>1, <2>5, BusyHasMessage DEF dispatchLocked, Idle
    <3> QED
      BY <1>5, <2>1, <2>5, <3>1 DEF dispatchLocked, Discard
  <2> QED
    BY <1>6, <1>7, <2>1, <2>2, <2>3, <2>4, <2>5, StatsCount, StatsRecord
       DEF PublisherStep, dispatchLocked
<1>8. ASSUME NEW w \in Pool, WorkerStep(w) \/ SpuriousWakeup(w)
      PROVE  StatsInv'
  <2>1. w \in Threads
    BY DEF Threads
  <2>2. CASE TestStop(w)
    BY <1>4, <2>1, <2>2 DEF TestStop
  <2>3. CASE FindEmpty(w)
    BY <1>4, <2>1, <2>3 DEF FindEmpty
  <2>4. CASE Block(w)
    BY <1>4, <2>1, <2>4 DEF Block
  <2>5. CASE SpuriousWakeup(w)
    BY <1>4, <2>1, <2>5 DEF SpuriousWakeup
  <2>6. CASE Take(w)
    BY <1>3, <2>1, <2>6 DEF Take, Goto, TypeInv
  <2> QED
    BY <1>6, <1>8, <2>1, <2>2, <2>3, <2>4, <2>5, <2>6 DEF WorkerStep
<1>9. CASE Destroy
  <2>1. CASE DestroyStop \/ DestroyJoin
    BY <1>1, <2>1 DEF DestroyStop, DestroyJoin
  <2>2. CASE DestroyNotify
    <3>1. \A x \in Threads : pc'[x] = pc[x] \/ (pc[x] = "waiting" /\ pc'[x] = "ready")
      BY <2>2, TypeWake
    <3>2. UNCHANGED <<total, stats, subscribers, outcome, msg>>
      BY <2>2 DEF DestroyNotify
    <3>3. \A x \in Publishers :
            \/ pc'[x] = pc[x] /\ msg'[x] = msg[x]
            \/ pc[x] \notin {"count", "stats"} /\ pc'[x] \notin {"count", "stats"}
      BY <3>1, <3>2 DEF Threads
    <3> QED
      BY <3>2, <3>3, CalmKeeps DEF Calm
  <2> QED
    BY <1>9, <2>1, <2>2 DEF Destroy
<1>10. CASE UNCHANGED vars
  BY <1>1, <1>10 DEF vars
<1> QED
  BY <1>2, <1>7, <1>8, <1>9, <1>10, StatsPublish DEF Next

(* The counters start at zero. *)
LEMMA StatsInit == Init => StatsInv
<1> SUFFICES ASSUME Init
             PROVE  StatsInv
  OBVIOUS
<1>1. \A k \in Totals : Counted(k) = {} /\ Recorded(k) = {}
  BY DEF Init, Counted, Recorded
<1>2. Recorded("event") = {}
  BY <1>1 DEF Totals
<1>3. IsFiniteSet({}) /\ Cardinality({}) = 0
  BY FS_EmptySet
<1>4. subscribers = {}
  BY DEF Init
<1>5. /\ total \in [Totals -> Nat] /\ \A k \in Totals : total[k] = 0
      /\ \A k \in Totals : stats.total[k] = 0
      /\ \A e \in Events : stats.counts[e] = 0
  BY DEF Init
<1>6. stats \in [total : [Totals -> Nat], subscribers : {Cardinality(subscribers)},
                 counts : [Events -> Nat]]
  BY <1>3, <1>4 DEF Init
<1>7. \A e \in Events : {m \in Recorded("event") : m.event = e} = {}
  BY <1>2
<1>8. ASSUME NEW k \in Totals
      PROVE  /\ IsFiniteSet(Counted(k)) /\ total[k] = Cardinality(Counted(k))
             /\ Cardinality(Recorded(k)) <= stats.total[k] /\ stats.total[k] <= total[k]
  BY <1>1, <1>3, <1>5
<1>9. ASSUME NEW e \in Events
      PROVE  stats.counts[e] = Cardinality({m \in Recorded("event") : m.event = e})
  <2>1. {m \in Recorded("event") : m.event = e} = {}
    BY <1>7
  <2> QED
    BY <1>3, <1>5, <2>1
<1> QED
  BY <1>5, <1>6, <1>8, <1>9 DEF StatsInv

(* For any number of publishers: a total of GetStats() is never behind     *)
(* the messages recorded nor ahead of those counted, though publishers     *)
(* copy each other's increments, and the counts by event type and of the   *)
(* subscribers are exact.                                                  *)
THEOREM StatsCorrect == Spec => []StatsAgree
<1> DEFINE Inv == TypeInv /\ PlaceInv /\ DeliveryInv /\ StatsInv
<1>1. Init => Inv
  BY TypeInit, PlaceInit, DeliveryInit, StatsInit
<1>2. Inv /\ [Next]_vars => Inv'
  BY TypeNext, PlaceNext, DeliveryNext, StatsNext
<1>3. Inv => StatsAgree
  BY DEF StatsInv, StatsAgree
<1> QED
  BY <1>1, <1>2, <1>3, PTL DEF Spec

=============================================================================
