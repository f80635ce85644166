----------------------- MODULE PromiseOperation_proofs -----------------------
(***************************************************************************)
(* Proofs about PromiseOperation, for any callers and any callbacks.       *)
(***************************************************************************)
EXTENDS PromiseOperation, TLAPS

(* The registered callbacks are among those given. *)
GivenInv ==
  /\ completed_callback # NoCallback => completed_callback \in given
  /\ cancelled_callback # NoCallback => cancelled_callback \in given

IInv == TypeOK /\ OutcomeAgrees /\ GivenInv /\ CalledOnce

(* The operation starts in the invariant. *)
LEMMA InitInv == Init => IInv
<1> SUFFICES ASSUME Init PROVE IInv
  OBVIOUS
<1>1. TypeOK
  BY DEF Init, TypeOK
<1>2. OutcomeAgrees
  BY Zenon DEF Init, OutcomeAgrees
<1>3. GivenInv
  BY DEF Init, GivenInv
<1>4. CalledOnce
  BY DEF Init, CalledOnce, Callbacks
<1> QED
  BY <1>1, <1>2, <1>3, <1>4 DEF IInv

(* cv_.notify_one changes only where the sleepers are. *)
LEMMA NotifyType ==
  ASSUME TypeOK, NotifyOne
  PROVE  wpc' \in [Sleepers -> {"idle", "ready", "waiting", "ended"}]
  BY DEF TypeOK, NotifyOne, Asleep

(* Calling a callback counts it once more and no other. *)
LEMMA InvokeCounts ==
  ASSUME TypeOK, NEW callback \in Callbacks \union {NoCallback}, Invoke(callback)
  PROVE  /\ called' \in [Callbacks -> Nat]
         /\ \A c \in Callbacks :
              called'[c] = IF c = callback THEN called[c] + 1 ELSE called[c]
  BY OperationAssumption DEF TypeOK, Invoke, Callbacks

(* While the operation is pending nobody has been called. *)
LEMMA PendingUncalled ==
  ASSUME IInv, state = "PENDING"
  PROVE  \A c \in Callbacks : called[c] = 0
  BY DEF IInv, CalledOnce, TypeOK

(* SetResult settles an operation that is pending. *)
LEMMA SetResultInv == IInv /\ SetResult => IInv'
<1> SUFFICES ASSUME IInv, SetResult PROVE IInv'
  OBVIOUS
<1> USE OperationAssumption
<1>1. state = "PENDING" /\ dpc = "alive"
  BY DEF IInv, OutcomeAgrees, SetResult, MaySet, Usable
<1>2. completed_callback \in Callbacks \union {NoCallback}
  BY DEF IInv, TypeOK, Callbacks
<1>3. /\ called' \in [Callbacks -> Nat]
      /\ \A c \in Callbacks :
           called'[c] = IF c = completed_callback THEN 1 ELSE 0
  BY <1>1, <1>2, InvokeCounts, PendingUncalled DEF IInv, SetResult
<1>4. TypeOK'
  BY <1>3, NotifyType DEF IInv, TypeOK, SetResult, callback_vars
<1>5. OutcomeAgrees'
  BY <1>1 DEF IInv, TypeOK, OutcomeAgrees, SetResult, callback_vars
<1>6. GivenInv'
  BY DEF IInv, GivenInv, SetResult, callback_vars
<1>7. CalledOnce'
  BY <1>3 DEF IInv, TypeOK, GivenInv, CalledOnce, SetResult, callback_vars, Callbacks
<1> QED
  BY <1>4, <1>5, <1>6, <1>7 DEF IInv

(* SetException settles an operation that is pending. *)
LEMMA SetExceptionInv == IInv /\ SetException => IInv'
<1> SUFFICES ASSUME IInv, SetException PROVE IInv'
  OBVIOUS
<1> USE OperationAssumption
<1>1. state = "PENDING" /\ dpc = "alive"
  BY DEF IInv, OutcomeAgrees, SetException, MaySet, Usable
<1>2. completed_callback \in Callbacks \union {NoCallback}
  BY DEF IInv, TypeOK, Callbacks
<1>3. /\ called' \in [Callbacks -> Nat]
      /\ \A c \in Callbacks :
           called'[c] = IF c = completed_callback THEN 1 ELSE 0
  BY <1>1, <1>2, InvokeCounts, PendingUncalled DEF IInv, SetException
<1>4. TypeOK'
  BY <1>3, NotifyType DEF IInv, TypeOK, SetException, KeepException, callback_vars
<1>5. OutcomeAgrees'
  BY <1>1 DEF IInv, TypeOK, OutcomeAgrees, SetException, KeepException, callback_vars
<1>6. GivenInv'
  BY DEF IInv, GivenInv, SetException, callback_vars
<1>7. CalledOnce'
  BY <1>3 DEF IInv, TypeOK, GivenInv, CalledOnce, SetException, callback_vars, Callbacks
<1> QED
  BY <1>4, <1>5, <1>6, <1>7 DEF IInv

(* Cancel settles an operation that is pending. *)
LEMMA CancelInv == IInv /\ Cancel => IInv'
<1> SUFFICES ASSUME IInv, Cancel PROVE IInv'
  OBVIOUS
<1> USE OperationAssumption
<1>1. state = "PENDING" /\ dpc = "alive" /\ promise = "empty"
  BY DEF IInv, OutcomeAgrees, Cancel, Usable
<1>2. cancelled_callback \in Callbacks \union {NoCallback}
  BY DEF IInv, TypeOK, Callbacks
<1>3. /\ called' \in [Callbacks -> Nat]
      /\ \A c \in Callbacks :
           called'[c] = IF c = cancelled_callback THEN 1 ELSE 0
  BY <1>1, <1>2, InvokeCounts, PendingUncalled DEF IInv, Cancel
<1>4. TypeOK'
  BY <1>1, <1>3, NotifyType DEF IInv, TypeOK, Cancel, callback_vars
<1>5. OutcomeAgrees'
  BY <1>1 DEF IInv, TypeOK, OutcomeAgrees, Cancel, callback_vars
<1>6. GivenInv'
  BY DEF IInv, GivenInv, Cancel, callback_vars
<1>7. CalledOnce'
  BY <1>1, <1>3 DEF IInv, TypeOK, GivenInv, CalledOnce, Cancel, callback_vars, Callbacks
<1> QED
  BY <1>4, <1>5, <1>6, <1>7 DEF IInv

(* A completion callback registered late is called at once. *)
LEMMA SetOnCompletedInv ==
  ASSUME IInv, NEW callback \in Completions, SetOnCompleted(callback)
  PROVE  IInv'
<1> USE OperationAssumption
<1>1. callback \in Callbacks /\ callback # NoCallback /\ called[callback] = 0
  BY DEF IInv, TypeOK, CalledOnce, SetOnCompleted, Callbacks
<1>2. /\ called' \in [Callbacks -> Nat]
      /\ \A c \in Callbacks : called'[c] =
           IF c = callback /\ state # "PENDING" THEN 1 ELSE called[c]
  BY <1>1, InvokeCounts DEF IInv, TypeOK, SetOnCompleted, LateCompletion
<1>3. TypeOK'
  BY <1>2 DEF IInv, TypeOK, SetOnCompleted, outcome_vars, Callbacks
<1>4. OutcomeAgrees'
  BY DEF IInv, OutcomeAgrees, SetOnCompleted, outcome_vars
<1>5. GivenInv'
  BY DEF IInv, GivenInv, SetOnCompleted
<1>6. CalledOnce'
  BY <1>1, <1>2 DEF IInv, TypeOK, GivenInv, CalledOnce, SetOnCompleted, outcome_vars, Callbacks
<1> QED
  BY <1>3, <1>4, <1>5, <1>6 DEF IInv

(* A cancellation callback registered late is called at once. *)
LEMMA SetOnCancelledInv ==
  ASSUME IInv, NEW callback \in Cancellations, SetOnCancelled(callback)
  PROVE  IInv'
<1> USE OperationAssumption
<1>1. callback \in Callbacks /\ callback # NoCallback /\ called[callback] = 0
  BY DEF IInv, TypeOK, CalledOnce, SetOnCancelled, Callbacks
<1>2. /\ called' \in [Callbacks -> Nat]
      /\ \A c \in Callbacks : called'[c] =
           IF c = callback /\ state = "CANCELLED" THEN 1 ELSE called[c]
  BY <1>1, InvokeCounts DEF IInv, TypeOK, SetOnCancelled
<1>3. TypeOK'
  BY <1>2 DEF IInv, TypeOK, SetOnCancelled, outcome_vars, Callbacks
<1>4. OutcomeAgrees'
  BY DEF IInv, OutcomeAgrees, SetOnCancelled, outcome_vars
<1>5. GivenInv'
  BY DEF IInv, GivenInv, SetOnCancelled
<1>6. CalledOnce'
  BY <1>1, <1>2 DEF IInv, TypeOK, GivenInv, CalledOnce, SetOnCancelled, outcome_vars, Callbacks
<1> QED
  BY <1>3, <1>4, <1>5, <1>6 DEF IInv

(* Waiting, waking and timing out move one thread only. *)
LEMMA WaitInv ==
  ASSUME IInv, NEW x \in Sleepers, NEW where \in {"idle", "ready", "waiting", "ended"},
         WaitGoto(x, where)
  PROVE  IInv'
<1>1. TypeOK'
  BY DEF IInv, TypeOK, WaitGoto, outcome_vars, callback_vars
<1>2. OutcomeAgrees' /\ GivenInv' /\ CalledOnce'
  BY DEF IInv, OutcomeAgrees, GivenInv, CalledOnce, WaitGoto, outcome_vars, callback_vars
<1> QED
  BY <1>1, <1>2 DEF IInv

(* The destructor cancels what is pending and calls nobody. *)
LEMMA DestroyCancelInv == IInv /\ DestroyCancel => IInv'
<1> SUFFICES ASSUME IInv, DestroyCancel PROVE IInv'
  OBVIOUS
<1>1. TypeOK'
  BY NotifyType DEF IInv, TypeOK, DestroyCancel, WakeForJoin, callback_vars
<1>2. OutcomeAgrees'
  BY DEF IInv, TypeOK, OutcomeAgrees, DestroyCancel, Usable
<1>3. GivenInv'
  BY DEF IInv, GivenInv, DestroyCancel, callback_vars
<1>4. CalledOnce'
  BY PendingUncalled DEF IInv, TypeOK, OutcomeAgrees, CalledOnce, DestroyCancel, callback_vars, Callbacks
<1> QED
  BY <1>1, <1>2, <1>3, <1>4 DEF IInv

(* Every step of the operation preserves the invariant. *)
LEMMA NextInv == IInv /\ [Next]_vars => IInv'
<1> SUFFICES ASSUME IInv, [Next]_vars PROVE IInv'
  OBVIOUS
<1>1. CASE UNCHANGED vars
  BY <1>1 DEF IInv, TypeOK, OutcomeAgrees, GivenInv, CalledOnce, vars,
              outcome_vars, callback_vars
<1>2. CASE SetResult
  BY <1>2, SetResultInv
<1>3. CASE SetException
  BY <1>3, SetExceptionInv
<1>4. CASE Cancel
  BY <1>4, CancelInv
<1>5. CASE GetResult
  <2>1. TypeOK' /\ GivenInv' /\ CalledOnce'
    BY <1>5 DEF IInv, TypeOK, GivenInv, CalledOnce, GetResult, outcome_vars, callback_vars
  <2>2. OutcomeAgrees'
    BY <1>5 DEF IInv, OutcomeAgrees, GetResult, outcome_vars
  <2> QED
    BY <2>1, <2>2 DEF IInv
<1>6. CASE \E c \in Completions : SetOnCompleted(c)
  BY <1>6, SetOnCompletedInv
<1>7. CASE \E c \in Cancellations : SetOnCancelled(c)
  BY <1>7, SetOnCancelledInv
<1>8. CASE \E c \in Callers : WaitFor(c) \/ Timeout(c)
  BY <1>8, WaitInv DEF WaitFor, Timeout, Sleepers
<1>9. CASE \E x \in Sleepers : TestPending(x) \/ Leave(x) \/ SpuriousWakeup(x)
  BY <1>9, WaitInv DEF TestPending, Leave, SpuriousWakeup
<1>10. CASE DestroyCancel
  BY <1>10, DestroyCancelInv
<1>11. CASE DestroyJoin
  BY <1>11 DEF IInv, TypeOK, OutcomeAgrees, GivenInv, CalledOnce, DestroyJoin,
               outcome_vars, callback_vars
<1> QED
  BY <1>1, <1>2, <1>3, <1>4, <1>5, <1>6, <1>7, <1>8, <1>9, <1>10, <1>11 DEF Next

(* The invariant holds throughout. *)
LEMMA AlwaysInv == Spec => []IInv
  BY InitInv, NextInv, PTL DEF Spec

(* The variables of PromiseOperation stay in their types. *)
THEOREM OperationTypeCorrect == Spec => []TypeOK
<1>1. IInv => TypeOK
  BY DEF IInv
<1> QED
  BY <1>1, AlwaysInv, PTL

(* state_, result_set_, stored_exception_ and the promise always agree.    *)
THEOREM OutcomeIsConsistent == Spec => []OutcomeAgrees
<1>1. IInv => OutcomeAgrees
  BY DEF IInv
<1> QED
  BY <1>1, AlwaysInv, PTL

(* Callbacks are called at most once, and those that are due are called.   *)
THEOREM CallbacksOnce == Spec => []CalledOnce
<1>1. IInv => CalledOnce
  BY DEF IInv
<1> QED
  BY <1>1, AlwaysInv, PTL

(* SetResult, SetException, Cancel and the destructor: the first one wins. *)
THEOREM OutcomeIsFinal == Spec => SettledOnce
<1>1. IInv /\ [Next]_vars => [state # "PENDING" => UNCHANGED outcome_vars]_vars
  <2> SUFFICES ASSUME IInv, Next, state # "PENDING" PROVE UNCHANGED outcome_vars
    BY DEF vars, outcome_vars
  <2>1. result_set
    BY DEF IInv, OutcomeAgrees
  <2> QED
    BY <2>1 DEF Next, SetResult, SetException, MaySet, Cancel, GetResult,
          SetOnCompleted, SetOnCancelled, WaitFor, Timeout, TestPending, Leave,
          SpuriousWakeup, WaitGoto, DestroyCancel, DestroyJoin, outcome_vars
<1> QED
  BY <1>1, AlwaysInv, PTL DEF Spec, SettledOnce
=============================================================================
