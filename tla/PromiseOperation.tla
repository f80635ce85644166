-------------------------- MODULE PromiseOperation --------------------------
(***************************************************************************)
(* PromiseOperation<T> of include/httpserver/core/Async/                   *)
(* async_operation_impl.hpp: an operation that producers settle (SetResult,*)
(* SetException) or cancel, that callers wait for, and whose destructor    *)
(* joins a thread of its own (waitLoop) sleeping on the same condition     *)
(* variable as the callers of WaitFor.                                     *)
(*                                                                         *)
(* Every operation holds mutex_ from beginning to end, callbacks included, *)
(* so it is one step; only the waits give the mutex up.  The destructor    *)
(* starts when nobody is inside WaitFor and nobody calls in afterwards.    *)
(***************************************************************************)
EXTENDS Integers, FiniteSets

CONSTANTS
  Callers,       \* threads that call WaitFor
  Completions,   \* callables given to SetOnCompleted, each once
  Cancellations, \* callables given to SetOnCancelled, each once
  WaitLoop,      \* the thread wait_thread_
  NoCallback     \* an empty std::function

ASSUME OperationAssumption ==
  /\ WaitLoop \notin Callers
  /\ NoCallback \notin Completions \union Cancellations
  /\ Completions \intersect Cancellations = {}

Callbacks == Completions \union Cancellations
Sleepers  == Callers \union {WaitLoop}

VARIABLES
  state,               \* state_
  cancelled,           \* cancelled_
  result_set,          \* result_set_
  stored_exception,    \* stored_exception_ is not null
  promise,             \* promise_: empty, value or exception
  taken,               \* future_.get() has been called
  completed_callback,  \* completed_callback_
  cancelled_callback,  \* cancelled_callback_
  wpc,                 \* where the threads that may sleep on cv_ are
  dpc,                 \* where the destructor is
  given,               \* history: callbacks registered so far
  called               \* history: how often each callback was called

outcome_vars  == <<state, cancelled, result_set, stored_exception, promise>>
callback_vars == <<completed_callback, cancelled_callback, given>>
vars == <<outcome_vars, taken, callback_vars, wpc, dpc, called>>

Init ==
  /\ state = "PENDING"
  /\ cancelled = FALSE /\ result_set = FALSE /\ stored_exception = FALSE
  /\ promise = "empty" /\ taken = FALSE
  /\ completed_callback = NoCallback /\ cancelled_callback = NoCallback
  /\ wpc = [x \in Sleepers |-> IF x = WaitLoop THEN "ready" ELSE "idle"]
  /\ dpc = "alive"
  /\ given = {}
  /\ called = [c \in Callbacks |-> 0]

Usable == dpc = "alive"

Asleep == {x \in Sleepers : wpc[x] = "waiting"}

(* cv_.notify_one *)
NotifyOne ==
  \/ Asleep = {} /\ UNCHANGED wpc
  \/ \E x \in Asleep : wpc' = [wpc EXCEPT ![x] = "ready"]

(* An empty callback is not called. *)
Invoke(callback) ==
  called' = IF callback = NoCallback THEN called
                                     ELSE [called EXCEPT ![callback] = @ + 1]

-----------------------------------------------------------------------------
(* Producers *)

(* A second result is ignored: by result_set_, and by the future_error     *)
(* promise_ would throw.                                                   *)
MaySet == ~result_set /\ promise = "empty"

SetResult ==
  /\ Usable
  /\ MaySet
  /\ promise' = "value"
  /\ result_set' = TRUE
  /\ state' = "COMPLETED"
  /\ NotifyOne
  /\ Invoke(completed_callback)
  /\ UNCHANGED <<cancelled, stored_exception, taken, callback_vars, dpc>>

KeepException_Forgotten == UNCHANGED stored_exception

KeepException == stored_exception' = TRUE

SetException ==
  /\ Usable
  /\ MaySet
  /\ promise' = "exception"
  /\ KeepException
  /\ result_set' = TRUE
  /\ state' = "FAILED"
  /\ NotifyOne
  /\ Invoke(completed_callback)
  /\ UNCHANGED <<cancelled, taken, callback_vars, dpc>>

(* promise_ is broken by an exception; one already there is left alone. *)
Cancel ==
  /\ Usable
  /\ state = "PENDING"
  /\ cancelled' = TRUE
  /\ result_set' = TRUE
  /\ state' = "CANCELLED"
  /\ promise' = IF promise = "empty" THEN "exception" ELSE promise
  /\ NotifyOne
  /\ Invoke(cancelled_callback)
  /\ UNCHANGED <<stored_exception, taken, callback_vars, dpc>>

-----------------------------------------------------------------------------
(* Callers *)

LateCompletion_Ignored(callback) == UNCHANGED called

(* A callback that comes late is called at once, even if the operation was *)
(* cancelled and so did not complete.                                      *)
LateCompletion(callback) ==
  IF state # "PENDING" THEN Invoke(callback) ELSE UNCHANGED called

SetOnCompleted(callback) ==
  /\ Usable
  /\ callback \notin given
  /\ completed_callback' = callback
  /\ given' = given \union {callback}
  /\ LateCompletion(callback)
  /\ UNCHANGED <<outcome_vars, taken, cancelled_callback, wpc, dpc>>

SetOnCancelled(callback) ==
  /\ Usable
  /\ callback \notin given
  /\ cancelled_callback' = callback
  /\ given' = given \union {callback}
  /\ IF state = "CANCELLED" THEN Invoke(callback) ELSE UNCHANGED called
  /\ UNCHANGED <<outcome_vars, taken, completed_callback, wpc, dpc>>

(* future_.get() waits for the promise; after the first call the future    *)
(* has no state and GetResult only throws.                                 *)
GetResult ==
  /\ Usable
  /\ ~taken
  /\ promise # "empty"
  /\ taken' = TRUE
  /\ UNCHANGED <<outcome_vars, callback_vars, wpc, dpc, called>>

WaitGoto(x, where) ==
  /\ wpc' = [wpc EXCEPT ![x] = where]
  /\ UNCHANGED <<outcome_vars, taken, callback_vars, dpc, called>>

WaitFor(c) ==
  /\ Usable
  /\ wpc[c] = "idle"
  /\ WaitGoto(c, "ready")

(* The predicate of WaitFor's and waitLoop's waits.  *)
TestPending(x) ==
  /\ wpc[x] = "ready"
  /\ state = "PENDING"
  /\ WaitGoto(x, "waiting")

Leave(x) ==
  /\ wpc[x] = "ready"
  /\ state # "PENDING"
  /\ WaitGoto(x, IF x = WaitLoop THEN "ended" ELSE "idle")

(* The timeout is over: WaitFor returns whatever the predicate says now. *)
Timeout(c) ==
  /\ wpc[c] = "waiting"
  /\ WaitGoto(c, "idle")

SpuriousWakeup(x) ==
  /\ wpc[x] = "waiting"
  /\ WaitGoto(x, "ready")

-----------------------------------------------------------------------------
(* The destructor *)

WakeForJoin_OnlyIfPending ==
  IF state = "PENDING" THEN NotifyOne ELSE UNCHANGED wpc

(* It notifies whether or not it has just cancelled. *)
WakeForJoin == NotifyOne

DestroyCancel ==
  /\ Usable
  /\ \A c \in Callers : wpc[c] = "idle"
  /\ IF state = "PENDING"
       THEN state' = "CANCELLED" /\ cancelled' = TRUE /\ result_set' = TRUE
       ELSE UNCHANGED <<state, cancelled, result_set>>
  /\ WakeForJoin
  /\ dpc' = "join"
  /\ UNCHANGED <<stored_exception, promise, taken, callback_vars, called>>

DestroyJoin ==
  /\ dpc = "join"
  /\ wpc[WaitLoop] = "ended"
  /\ dpc' = "destroyed"
  /\ UNCHANGED <<outcome_vars, taken, callback_vars, wpc, called>>

-----------------------------------------------------------------------------
Next ==
  \/ SetResult \/ SetException \/ Cancel \/ GetResult
  \/ \E c \in Completions : SetOnCompleted(c)
  \/ \E c \in Cancellations : SetOnCancelled(c)
  \/ \E c \in Callers : WaitFor(c) \/ Timeout(c)
  \/ \E x \in Sleepers : TestPending(x) \/ Leave(x) \/ SpuriousWakeup(x)
  \/ DestroyCancel \/ DestroyJoin

(* Threads run and the clock does; nobody has to settle or to destroy.     *)
Fairness ==
  /\ \A x \in Sleepers : WF_vars(TestPending(x) \/ Leave(x))
  /\ \A c \in Callers : WF_vars(Timeout(c))
  /\ WF_vars(DestroyJoin)

Spec     == Init /\ [][Next]_vars
FairSpec == Spec /\ Fairness

-----------------------------------------------------------------------------
(* Properties *)

(* Every variable stays in its type. *)
TypeOK ==
  /\ state \in {"PENDING", "COMPLETED", "FAILED", "CANCELLED"}
  /\ cancelled \in BOOLEAN /\ result_set \in BOOLEAN
  /\ stored_exception \in BOOLEAN /\ taken \in BOOLEAN
  /\ promise \in {"empty", "value", "exception"}
  /\ completed_callback \in Completions \union {NoCallback}
  /\ cancelled_callback \in Cancellations \union {NoCallback}
  /\ wpc \in [Sleepers -> {"idle", "ready", "waiting", "ended"}]
  /\ dpc \in {"alive", "join", "destroyed"}
  /\ given \subseteq Callbacks
  /\ called \in [Callbacks -> Nat]

(* The four places that record the outcome agree: what GetState says is    *)
(* what the future holds, an operation that failed has its exception       *)
(* stored (the branch of GetException that consumes the future is dead),   *)
(* and a future stays empty only while the operation is pending or when    *)
(* the destructor gave it up.                                              *)
OutcomeAgrees ==
  /\ result_set = (state # "PENDING")
  /\ cancelled = (state = "CANCELLED")
  /\ stored_exception = (state = "FAILED")
  /\ state = "COMPLETED" <=> promise = "value"
  /\ promise = "exception" => state \in {"FAILED", "CANCELLED"}
  /\ promise = "empty" => state = "PENDING" \/ (state = "CANCELLED" /\ dpc # "alive")
  /\ state = "PENDING" => promise = "empty" /\ dpc = "alive"
  /\ taken => promise # "empty"

(* Results, exceptions, cancellation and destruction race: the first one   *)
(* wins and nothing changes the outcome afterwards.                        *)
SettledOnce == [][state # "PENDING" => UNCHANGED outcome_vars]_vars

(* However registration races with settling, a callback is called at most  *)
(* once and never before the operation is settled, and the one registered  *)
(* for what happened has been called (but not by the destructor, which     *)
(* cancels without telling).                                               *)
CalledOnce ==
  /\ \A c \in Callbacks : called[c] <= 1 /\ (called[c] = 1 => c \in given /\ state # "PENDING")
  /\ \A c \in Cancellations : called[c] = 1 => state = "CANCELLED"
  /\ completed_callback # NoCallback /\ state \in {"COMPLETED", "FAILED"} =>
       called[completed_callback] = 1
  /\ cancelled_callback # NoCallback /\ state = "CANCELLED" /\ promise # "empty" =>
       called[cancelled_callback] = 1

(* The destructor's join() returns, even when the only notification of     *)
(* SetResult went to a caller of WaitFor and not to wait_thread_.          *)
DestructorReturns == dpc = "join" ~> dpc = "destroyed"

=============================================================================
