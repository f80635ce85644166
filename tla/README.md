# Formal models of OrangeLi_Http_Server

TLA+ models of the C++ HTTP server's concurrent core, of one HTTP connection from accept to
response, and of the two browser clients of the speed test. TLC checks them on small instances;
TLAPS proves their safety, and that a connection implements its abstract specification, for
every size. Paths below are relative to the
repository (`src/` is its source directory, `include/` its headers, `examples/public/` what the
browser gets).

## 1. The system

| Component | State | Operations | Talks to |
|---|---|---|---|
| Thread pool scheduler (`src/core/Async/async_scheduler.cpp`) | `tasks_`, `timer_queue_`, `workers_`, `stop_`, `paused_`, `timer_running_`, `active_tasks_`, statistics | `Start`, `Stop`, `Schedule*`, `Pause`, `Resume`, `SetMaxConcurrent`, `SetThreadPoolSize`; threads `workerLoop`, `timerLoop` | runs the asynchronous sends of every connection |
| Promise operation (`include/.../Async/async_operation_impl.hpp`) | state, promise/future, callbacks, one waiting thread | `SetResult`, `SetException`, `Cancel`, `WaitFor`, `SetOn...`, `GetResult`, destructor | producers and waiters on any thread |
| Event dispatcher (`src/core/Event/event_dispatcher.cpp`) | subscribers, callbacks, filters, `task_queue_`, counters, workers | publish (event, data, error, routed), register, subscribe, filter, set mode and size, destructor | called by the connections' event managers |
| Connection buffer manager (`src/core/Buffer/connection_buffer_mgr.cpp`) | `send_queue_`, `send_consumed_`, receive buffer and committed length | `EnqueueSend`, `PeekSend`, `ConsumeSend`, `PrepareReceive`, `GetReceiveBuffer`, `CommitReceive`, `ClearAll`, `Swap` | owned by a connection, no lock of its own |
| TCP connection (`src/core/Tcp/tcp_connection.cpp`) | `state_`, `socket_fd_`, counters, buffer | `Connect`, `Disconnect`, `Close`, `Send`, `Receive`, `Flush`, `Configure`, `init`; a detached reader thread | kernel, buffer, event manager, scheduler |
| Connection event manager (`src/core/Event/connection_event_mgr.cpp`) | callbacks | `TriggerEvent`, `TriggerData`, `TriggerError` | user callbacks, dispatcher |
| HTTP server and protocol handler (`src/application/http/`) | a context per connection (`buffer`, `last_activity`, `is_keep_alive`), routes | accept loop, `OnData`, `ParseHttpRequest`, `HandleRequest`, `SendResponse`, clean-up of idle contexts | connections, scheduler, WebSocket |
| WebSocket session and speed test (`src/application/websocket/`) | receive buffer, close flag, one sending thread per test | upgrade, send, close handshake | connection |
| Speed test page (`examples/public/index.html`) | `ws`, `isRunning`, `totalBytes`, `uiTimer`, one timeout per test | `startTest`, `finishTest`, socket handlers, timeout | WebSocket speed test, `/api/record` |
| Browser speed test script (`examples/public/js/speedtest.js`) | `ws`, `isTesting`, `totalBytes`, `speedData`, `pingStart`, chart, buttons, intervals | `startTest`, `stopTest`, `onopen`, `onmessage`, `onerror`, `onclose`, ping interval | a WebSocket server, Chart.js |
| Chart.js (`examples/public/js/chart*.js`) | | | vendored library |
| Connection manager, memory pool, buffers, socket layer, second scheduler, async helpers, database and page handlers | see `PROJECT.json` | | |

What is hard here:

* On the server, mostly *where a lock is not held*. The atomics `paused_`, `stop_` of the
  dispatcher and the connection's `state_` are written without the mutex under which others test
  them, and so are `max_concurrent_` and `async_dispatch_`, which are not even atomic; listeners are called from snapshots;
  the reader thread looks at `state_` and `socket_fd_` between any two steps of the others; the
  kernel takes part of a write; contexts are erased while `OnData` holds a reference to one.
* In the browser, *which test an event belongs to*. Handlers never interleave, but the handlers
  of all sockets ever created, intervals that are never cleared and timeouts that are never
  cancelled share one set of global variables, and close events come late.

The hazards, each at its line and with the properties that would notice it, are in
`PROJECT.json`.

What makes each component correct:

* scheduler: a task runs exactly once, not before its time, unless `Stop()` discards it; the
  limit holds; no wakeup is lost; `Stop()` returns, drains what was queued and leaves no thread;
* promise operation: one outcome, told the same way by every query; due callbacks once; the
  destructor's join returns;
* dispatcher: a message reaches exactly those registered while it is delivered, once; messages
  and statistics add up; the destructor returns and leaves nobody inside;
* buffer and connection: bytes leave in order, none twice, none skipped; the queue's limit
  holds; no socket changes under a `Send` in progress; `Close()` is final; the reader ends;
* HTTP: requests are handled as sent however they are cut into chunks, nothing is handled after
  a request that is not keep-alive, every handled request has exactly one response, and it is
  lost or left unsent only in ways one can name;
* speed test clients: an open socket can be stopped, a test ends, is reported and recorded once,
  counts only its own data, and gives its connection back.

## 2. The modules

| Module | Models | State and steps |
|---|---|---|
| `ThreadPoolScheduler` | the thread pool | Variables are named after the members without the trailing underscore. Each critical section is one action. The worker's wait is two (`TestPredicate`, `Block`) because its predicate reads atomics others write without `queue_mutex_`; `Execute` and `Release` are separate because `active_tasks_` is decremented without the lock. `Stop()` is one action per phase. `submitted`, `deadline`, `ran`, `dropped`, `at_stop` are history; `submitted` is written only where a task is handed over. Start, Stop and SetThreadPoolSize change `workers_` without a lock, so one owner thread calls them. |
| `EventDispatcher` | `DefaultEventDispatcher` | Publishing goes through counting, `stats_`, (for a route) the look-up of the target, and `dispatchTask`, which reads `async_dispatch_` before the queue's lock is taken. Delivery is snapshot, calls one by one, snapshot of the callbacks, calls. Registration happens between any two of them. |
| `ConnectionBuffer` | `ConnectionBufferManager` | Bytes are numbered in the order accepted; a `Buffer` is a range of numbers, so loss, repetition and reordering show without contents. `receive_strategy_` may propose any size. |
| `BytePipe` | abstract specification | Accept, transmit in order, discard all that waits, change the limit. |
| `TcpConnection` | `TCPConnection` with its buffer, reader threads and the kernel | Extends `ConnectionBuffer`. `Send` keeps `state_mutex_` (`holder`) over its flush loop, one step per system call; `Flush()` called alone holds nothing. The kernel takes any part of a write or fails; the peer hangs up at any time. Events go nowhere before `init()` has attached the connection to its event manager (`Attached`). |
| `PromiseOperation` | `PromiseOperation<T>` | Every operation holds `mutex_` throughout and is one action; sleeping, waking, time-out and join are separate. |
| `HttpConnection` | one connection of the server: acceptor, reader thread with `OnData` and the parser, pool, clean-up thread | The acceptor sets the connection up while its reader already runs (`AcceptInit`, `onNewConnection`); `OnData` is split at `contexts_mutex_` and between requests. A request is what the code tells apart: version, `Connection`, `Content-Length`, what its target is, and which header comes last (the parser does not see the last header line). The stream is cut into chunks anywhere; a body has no blank line in it, and a head that a misread body stands before may mean anything. The parser's four ways to fail (`Blocks`, body not complete, no head yet, `Throws`) and the WebSocket upgrade with its failure are included; an upgraded connection is followed no further. `Send` on the pool may be refused by the send queue, drop the response on a closed connection, or write any part of what waits; the rest stays in `unsent`. `damaged` is history: the callback was not set yet, the clean-up erased a context with data in it or in use, or the parser missed a `Content-Length`. |
| `SpeedTestClient` | `speedtest.js` | One action per handler. Sockets are numbered, `ws` is the newest. `stopTest` is an operator because four handlers call it. The browser's rules for `readyState`, late close events and throwing `send()` are stated in the module's head. |
| `SpeedTestPage` | `index.html`'s script composed with the server's sending threads and sessions | One action per handler of the page; on the server the upgrade, its failure, one send, one failing send, the closing frame, the session's answer to a close frame, and the end of the process by SIGPIPE (`send()` is called without `MSG_NOSIGNAL` and the signal is not ignored). `down` is what is on its way. Timeouts count down with `Tick`. |
| `MC*` | instances for TLC | Model values, small sets, symmetry. |
| `*_proofs`, `LoopInduction` | theorems, and induction over loops for them | See section 5. |

Operators with a suffix (`Finished_DropsQueue`, `Wake_OneOnly`, ...) stand before the definition
they vary. They are not used by the specifications: each is a plausible mistake in that place of
the code, kept to show that the property named in `PROJECT.json` ("mutants") notices it.

`BytePipe` and `TcpConnection` are related by `ImplementsPipe`: `next` is mapped to `removed`
(bytes consumed or cleared) and `limit` to `max_send_queue_size_`.

## 3. The runs

| Run | Bounds | Shows |
|---|---|---|
| `scheduler` | 2 tasks, 1-2 workers, limits none/1, clock 0-1 | Conservation of tasks, exact `active_tasks_`, the limit, no early timer, draining on `Stop()`, with pausing, resizing and restarting; if the pool is never paused, `Stop()` returns, queued tasks settle and timers fire. |
| `scheduler_resume` | 1 task, 1 worker | **Violated**: a worker that has read `paused_` and is not yet asleep misses `Resume()`. |
| `dispatcher_delivery` | 1 publisher, 1 worker, a broadcast and a routed event, two subscribers sharing an id, one callback, a filter, a queue of 1 | Who gets a message while registrations change. |
| `dispatcher_route` | the same without filter and limit | **Violated**: a routed event also reaches the callbacks of its type. |
| `dispatcher_threads` | 2 publishers, 2 workers, an event and data, a filter, queue sizes none/1 | One place per message, statistics that count each message once; queued messages are delivered; the destructor returns unless its unlocked `notify_all` fell between a worker's test and its sleep (`missed`). |
| `tcp_pipe` | 1 thread besides the reader, 2 sockets, 3 bytes | The send queue is exactly the bytes accepted and not yet removed, refinement of `BytePipe`, socket kept during a `Send`, finality of `Close()`, the reader ends after `Close()` or a hang-up. |
| `tcp_receive` | 2 bytes received | **Violated**: `Receive()` returns memory behind the received bytes. |
| `promise` | 2 callers, 2 + 2 callbacks | One outcome told the same way everywhere, callbacks, the join. |
| `http` | a request of any of fifteen kinds before or behind an ordinary one or behind one whose body is misread, and one stream of three; any chunks; 2 pool workers | Requests are handled as sent unless `damaged`; a request that is not keep-alive by the parser's rule, or a failed handshake, and nothing else, closes the connection; each response is in one place; every request is handled unless it blocks, and every response gets to `Send`. |
| `client` | 3 sockets, 2 binary messages per test, clock 1-3, ping period 1, chart window 1 | All handlers of `speedtest.js` in every order: stop reaches an open socket, one report, final totals, the chart, latencies, and both liveness properties. |
| `client_ping` | 2 sockets, clock to 4, ping period 2 | **Violated**, by a test that was stopped and started again: the interval of the earlier one goes on pinging. |
| `page` | 2 tests of duration 2, 2 frames on their way | Timeout, close frame, error, failed handshake, `EAGAIN` and SIGPIPE race: one record per test, own data only, every test and every sending thread ends. |

Why these bounds are enough for what they look for: a lost wakeup needs one worker that is just
going to sleep and one waker; a wakeup given to the wrong thread needs two sleepers and one
notification; a limit of 1 is exceeded by 2 workers; a task is duplicated between two holders;
a second task distinguishes draining from running. Three bytes give a partly consumed front
buffer with another behind it; two sockets give a reconnect. Two requests in one chunk are a pipeline, and two
workers reorder its responses; the third request closes a connection with responses in both
places. In the browser, three sockets give an old one whose events arrive in a newer test, with
a third that has replaced it in `ws`; a window of 1 and 2 messages make the chart shift; two
tests let the first one's timeout and late data meet the second. Publishers and pool threads of
the dispatcher are interchangeable, and symmetry is used only in runs without liveness.
Deadlock is checked wherever a state always has a next step; elsewhere the system may stop: the
dispatcher and the operation after destruction, a connection after its last request, the script
when its bounds are used up and every socket is closed.

Fairness: threads are scheduled by the operating system and a mutex that is released again and
again is eventually granted, which is strong fairness for threads that queue for one
(`workerLoop`, `timerLoop`, publishers) and weak fairness for those that only wait for a
condition that stays true (`Stop()`'s joins, the destructors, readers, the pool's sends,
time-outs, the clock). A browser ends every attempt to connect and every closing handshake (it
has time-outs for both) and fires timeouts that are due. Nothing obliges a client to call the
API, a user to click, a sleeper to wake up spuriously, the peer to send, a close frame to
arrive, `EAGAIN` to stop or a system call to fail. `StopReturns` and `QueuedTaskSettles` are
stated for executions without `Pause()`: a paused pool need not make progress, and a `Pause()`
issued while `Stop()` joins makes the workers spin on a non-empty queue for ever.

## 4. What the violated runs show

* `Resume()` (async_scheduler.cpp:112) stores `paused_` and notifies without `queue_mutex_`; the
  notification can fall between the evaluation of the wait predicate and the sleep, and a queued
  task then waits until something else is scheduled. The scheduler's test resumes and expects
  the counter to grow.
* `RouteEvent` (event_dispatcher.cpp:172) calls its target and then the callbacks registered for
  the event's type; the interface declares it as point-to-point, notifying only the specific
  receiver.
* `Receive()` (tcp_connection.cpp:265-267) copies from `GetReceiveBuffer()` after
  `CommitReceive`: the view starts behind the bytes that arrived. It then calls `ClearAll()`,
  which also discards unsent bytes; `BytePipe` has `Discard` for that reason.
* `onopen` (speedtest.js:53) starts an interval that nothing clears and whose callback uses the
  newest socket: from the second test on, several intervals ping in the same second, while the
  comment above it says one ping per second.

The passing runs state other limits of the code in their properties rather than hide them: the
dispatcher's destructor can miss its own notification (`DestructorReturns`); Start pressed while
an attempt to connect is pending leaves a socket `stopTest` cannot reach (`doubleStart` in
`StoppedStaysStopped` and `StopReleases`); the timeout of a test that ended early cuts the next
one short (`cutShort` in `FullDuration`); data that arrives before the callback is set, a context
that timed out with data in it or under `OnData`, and a `Content-Length` in the last header line
damage the stream (`damaged` in `HandledAsSent` and `AllHandled`); a request without headers or
with less than three words in its first line, and one with a body over the limit, block their
connection (`NextBlocks` in `AllHandled`); a request for an existing static file, a
`Content-Length` that is no number, and a write to a client that is gone terminate the process
(`Terminated`); pipelined responses may overtake each other between two pool workers; those that
reach `Send` after a closing request, or find the send queue full, are dropped; and what a short
write or `EAGAIN` leaves in the send queue stays there until another `Send` comes (`ReachesSend`),
on the socket the connection has by then. A reader that a reconnect overtakes reads the new
socket (`ReaderEnds`), and `Receive()` discards unsent bytes, which `BytePipe` allows.

`speedtest.js` is loaded by no page of the repository, connects to `/speedtest` and pings with
plain text, whereas the server upgrades `/ws/speedtest` and expects JSON. It is therefore
modelled against any server that answers pings in order; the composition with this server is in
`SpeedTestPage`, whose page does connect to `/ws/speedtest`.

## 5. Proofs

Every theorem holds for any value of the constants; the only assumptions are the named ASSUMEs
of the modules (sizes are naturals, a pool has a thread, `NoTask` is not a task and `NoMsg` not a
message, callbacks of the two kinds are different objects, publishers are not workers and
subscribers not callbacks, a client's stream is a sequence of requests, the page's duration and
the chart's window are positive). Every safety property of the passing runs is a theorem.

`ThreadPoolScheduler_proofs`:

| Theorem | Along which argument |
|---|---|
| `TypeCorrect`, `ActiveIsExact` | Inductive invariant `CountingInv` = types, `ThreadsMatchPhase`, `ActiveCountsBusyWorkers`. `active_tasks_` alone is not inductive: that zeroing it in `Stop()` is harmless needs that no worker exists in that phase, which is what `ThreadsMatchPhase` says; that decrementing never wraps needs that the decrementing worker is counted. |
| `LimitIsRespected` | `Take` re-tests the limit with `queue_mutex_` held, and by `ActiveIsExact` the counter is the number of busy workers. |
| `TasksAreConserved` | `PlacementInv`: the places together are the history `submitted`, and each moving step takes a task from one place and puts it into the next; the lemmas about `Append`, `Head` and `Tail` carry the uniqueness in the FIFO. |
| `DelaysAreHonoured` | `DeadlineInv`: an entry of the timer queue carries the deadline it was scheduled with, and the clock does not go back. |
| `StopRunsQueuedTasks` | `DrainInv` with `DrainProgress`: what was queued stays queued, held or run, and a worker exits only on an empty queue. |
| `StopLeavesNoThread` | `StatsReset`: a stopped scheduler has zeroed counters, with `ThreadsMatchPhase` for the threads. |

`PromiseOperation_proofs`: `OperationTypeCorrect`, `OutcomeIsConsistent`, `CallbacksOnce`,
`OutcomeIsFinal`. The inductive invariant adds to the three properties only that a registered
callback is among those given (`GivenInv`): while an operation is pending no callback has been
called, so the one call at settling is the first.

`SpeedTestClient_proofs`, with one inductive invariant `IInv`:

| Theorem | Along which argument |
|---|---|
| `TypeCorrect` | The conjunct `TypeOK`, with `CreatedInv` (exactly the sockets up to `ws` have been created). |
| `Stoppable` | `OpenSocketCanBeStopped` needs the buttons tied to `isTesting` (`ButtonsInv`) and `CreatedInv`: a late close of an older socket that ends the test runs `stopTest`, which closes the newest one too. |
| `ReportedOnce` | `ReportInv`: while Stop can be pressed there have been no more reports than failures, so the report that ends the test is the one that `OneReportPerTest` allows; by `ButtonsInv` a running test can be stopped. |
| `Final` | `OlderInv`: if Start was never pressed over a pending attempt, older sockets are closing, so an open one is the newest, and by `OpenSocketCanBeStopped` a test is then running. |
| `LatencyIsOfItsPing` | `PingInv`: the unanswered pings of the newest socket are no later than `pingStart`, the last of them is `pingStart` itself, and an older socket that was pinged is closing and gets no pong. |
| `ChartIsCurrent` | `ChartShowsTheTest` is inductive with the types. |

`SpeedTestPage_proofs`, likewise: `TypeCorrect`; `SavedOnce` and `OldOnesClose` from `PageInv`,
in which the count of records and the identity of `ws` are proved together because `finishTest`
relies on one to keep the other; `NoForeignData`, since only an open socket's data is counted
and an open socket is the running test's; `TimeoutIsDue` from `ArmedInv` (no
timeout before its socket is open) and `TimerInv` (as long as no test was cut short, the only armed
timeout is the running test's, and what it has left and `elapsed` add up to the duration).

`EventDispatcher_proofs` classifies the steps once by what they do to a message (`StepKinds`):
registration, publication, a move of one thread, the look-up of a route, enqueueing, dropping,
taking, delivering, waking. Four invariants build on each other:

| Theorem | Along which argument |
|---|---|
| `InOnePlace` | `PlaceInv`: only unsettled messages are held or queued, no two threads, no two slots, and no thread and slot have the same one, and an unsettled one is somewhere. With `TypeInv` (a thread is idle exactly when it holds no message) publication starts with a message nobody has, and every other step moves one. The cardinalities are then those of a singleton and an empty set. |
| `DeliveredOnce` | `DeliveryInv`. Who has been called is only known with *where* the message is: nobody before the first copy is taken (`Untouched`, also in the queue); afterwards every listener concerned was called once or is still in the copy, subscribers first, then all (`Served`). While a message is in flight, what is registered lies between `steady` and `seen`, so a copy taken at any moment is right, and stays right when registrations change behind it (`ServedLater`). A routed message carries its target, looked up earlier (`Routed`). `PlaceInv` keeps other threads away from the message. |
| `StatsCorrect` | `StatsInv`: each total is the number of messages past the counter, a finite set although messages are not. Copying all totals in one critical section keeps them between what is recorded and what is counted; that a message is added to each set once needs `PlaceInv`. |

`LoopInduction` makes induction over loops available. The library's induction theorems take a
predicate, which the provers cannot instantiate; `SetInduction` takes a *set* of naturals and is
proved from the existence of a least element, and `LoopHasTrace` shows that a loop given by its
body has a trace, so that a recursive function of the model has the values its equation says.

`TcpConnection_proofs`, for the buffer and the connection:

| Theorem | Along which argument |
|---|---|
| `QueueCorrect`, `ConnectionQueueCorrect`, `PreparedRoomKept` | `BufferInv`, kept by every buffer operation and, in the second, by every step of the connection that uses one. `QueueIsTheRest` is not inductive: it says nothing of the buffers behind the front one. `Rest` adds that they are contiguous and not empty. One round of `ConsumeSend`'s loop keeps `Rest` (`ConsumeStepRest`), hence all rounds do (`ConsumeLoopRest`, by `SetInduction`); the sum `GetSendQueueSize` computes is the length of a contiguous range (`BytesInContiguous`). |
| `SendSocketKept`, `CloseFinal` | `LifeInv`: a connection is CONNECTED only with a socket that is open and not shut down, and sockets shut down are older than the next one. |
| `PipeImplemented` | Under the mapping of `BytePipe`, `Send`'s push is a write that respects the limit, because the size tested is exact (`SendQueueSize`); a `send()` that takes part of the front buffer is a transmission in order, since the view starts at the first byte not removed (`PeekSendView`) and `ConsumeSend` removes exactly what was taken (`ConsumeSendTakesAll`); `ClearAll` discards; everything else stutters. |

`HttpConnection_proofs`:

| Theorem | Along which argument |
|---|---|
| `ClosesAsRead` | `CloseInv` says where the reader is: having handled a request that is not keep-alive, or refused a handshake, it is about to close or has closed, and handles nothing more. |
| `OneResponse` | `ResponseInv`: responses are in pairwise different places and all belong to handled requests, so the next request's number is nowhere yet. The send queue and the wire are treated as one sequence, of which a flush only moves the border (`FlushKeeps`). |
| `HandledInOrder` | `SentInv`: while nothing is damaged, the context's buffer, the reader's chunk and what is still arriving are, one after the other, the client's data from the first request not handled on. Where each request starts in the data, for streams of any length, is proved by induction (`AllPartsLayout`); the parser's next complete request is then the next one sent, and what is left of the buffer begins with the one after it. |

The type invariants of the components, `NoOrphanThreads`, `SettledOnce` and `PreparedRoomIsThere`
are proved and not repeated in the runs.

Only model-checked: liveness (`StopReturns`, `QueuedTaskSettles`, `TimerFires`,
`QueuedIsDelivered`, both `DestructorReturns`, `ReaderEnds`, `AllHandled`, `ReachesSend`,
`TestEnds`, `StopReleases`, `TestFinishes`, `ServerThreadEnds`), because liveness under fairness
is out of the prover's reach. The four violated runs have no proof.

## 6. Not modelled, and the plan

Abstracted inside the modelled components: contents and lengths of payloads, logging,
exceptions thrown by task bodies other than as "failed", allocation failure in the receive path,
addresses, heartbeat and user data of a connection, `SendAsync`/`ReceiveAsync` as operations of
`TcpConnection` (a task that calls `Send`/`Receive`; the sending one is in `HttpConnection`),
`Swap`, callbacks that re-enter the component that calls them, reuse of descriptor numbers by
the kernel, speeds, gauge and texts of the page, route tables and middlewares.

Not modelled: Chart.js (third-party, minified); database, page handlers and the thin wrappers of
system calls (pure I/O); `src/core/Connection/connection.cpp` with its components, a second
connection class written against other versions of the interfaces and built by no target;
`http_parser.cpp`, which the server does not call; the connection manager, a table under one
mutex from which the server never removes anything.

Worth adding next, in this order:

1. `WebSocketFrame`: length encodings and incremental decoding checked against a reference;
   fragmentation.
2. `MemoryPool`: accounting of `total_pool_bytes_` and `used_bytes_` through allocate,
   deallocate, clear and pre-allocation.
3. The second scheduler of `async_scheduler_impl.cpp` with `SendBatchAsync`.
4. Abstract `TaskPool` (submitted, run, discarded) and a one-shot cell, with proofs that
   `ThreadPoolScheduler` and `PromiseOperation` implement them.
