-------------------------- MODULE ConnectionBuffer --------------------------
(***************************************************************************)
(* ConnectionBufferManager of src/core/Buffer/connection_buffer_mgr.cpp:   *)
(* the queue of bytes a connection has still to send and the buffer it     *)
(* receives into.                                                          *)
(*                                                                         *)
(* The bytes accepted for sending are numbered 1, 2, 3, ...; a Buffer of   *)
(* the queue holds the bytes lo + 1 .. hi, so its size() is hi - lo and    *)
(* what a lost, repeated or reordered byte means can be said without       *)
(* looking at contents.  Of the receive buffer only capacity() and the     *)
(* committed length matter.  The class has no lock: one operation is one   *)
(* step, and callers must not overlap them.                                *)
(***************************************************************************)
EXTENDS Integers, Sequences

CONSTANTS
  MaxBytes,         \* bound: bytes accepted for sending in all
  Limits,           \* arguments of SetMaxSendQueueSize
  InitLimit,        \* initial max_send_queue_size_ (1 MB in the code)
  DefaultCapacity,  \* what GetReceiveBuffer allocates (4096 in the code)
  MaxCapacity       \* bound: the largest receive buffer

ASSUME BufferAssumption ==
  /\ MaxBytes \in Nat /\ InitLimit \in Nat /\ Limits \subseteq Nat
  /\ DefaultCapacity \in 1 .. MaxCapacity /\ MaxCapacity \in Nat

VARIABLES
  send_queue,           \* send_queue_: a sequence of [lo, hi]
  send_consumed,        \* send_consumed_
  max_send_queue_size,  \* max_send_queue_size_
  capacity,             \* receive_buffer_->capacity(), 0 without a buffer
  receive_committed,    \* receive_committed_
  written,              \* history: bytes accepted by EnqueueSend so far
  removed,              \* history: of these, consumed or cleared
  room                  \* history: what PrepareReceive promised, less what came

send_vars    == <<send_queue, send_consumed, written, removed>>
receive_vars == <<capacity, receive_committed, room>>
buffer_vars  == <<send_queue, send_consumed, max_send_queue_size, capacity,
                  receive_committed, written, removed, room>>

BufferInit ==
  /\ send_queue = <<>> /\ send_consumed = 0
  /\ max_send_queue_size = InitLimit
  /\ capacity = 0 /\ receive_committed = 0
  /\ written = 0 /\ removed = 0 /\ room = 0

-----------------------------------------------------------------------------
(* Sending *)

Size(b) == b.hi - b.lo

(* The sum over the queue. *)
BytesIn(queue) ==
  LET Sum[i \in 0 .. Len(queue)] ==
        IF i = 0 THEN 0 ELSE Sum[i - 1] + Size(queue[i])
  IN  Sum[Len(queue)]

GetSendQueueSize == BytesIn(send_queue) - send_consumed

IsSendQueueEmpty == send_queue = <<>> /\ send_consumed = 0

(* PeekSend: the bytes lo + 1 .. hi at the front, none if there are none.  *)
PeekSend ==
  IF send_queue = <<>> \/ send_consumed >= Size(Head(send_queue))
    THEN [lo |-> 0, hi |-> 0]
    ELSE [lo |-> Head(send_queue).lo + send_consumed, hi |-> Head(send_queue).hi]

Accept(n) ==
  /\ GetSendQueueSize + n <= max_send_queue_size
  /\ send_queue' = Append(send_queue, [lo |-> written, hi |-> written + n])
  /\ written' = written + n
  /\ UNCHANGED <<send_consumed, removed>>

(* The queue is full, or CloneBuffer finds no memory: nothing changes but  *)
(* the value returned.                                                     *)
Refuse == UNCHANGED send_vars

(* Bound: MaxBytes. *)
EnqueueSend(n) ==
  /\ written + n <= MaxBytes
  /\ Accept(n) \/ Refuse
  /\ UNCHANGED <<max_send_queue_size, receive_vars>>

ConsumeStep_KeepsOffset(s) ==
  IF s.bytes = 0 \/ s.queue = <<>> THEN s
  ELSE LET remaining == Size(Head(s.queue)) - s.consumed
       IN  IF s.bytes < remaining
             THEN [s EXCEPT !.bytes = 0, !.consumed = @ + s.bytes]
             ELSE [s EXCEPT !.bytes = @ - remaining, !.queue = Tail(@)]

(* One round of the loop of ConsumeSend. *)
ConsumeStep(s) ==
  IF s.bytes = 0 \/ s.queue = <<>> THEN s
  ELSE LET remaining == Size(Head(s.queue)) - s.consumed
       IN  IF s.bytes < remaining
             THEN [s EXCEPT !.bytes = 0, !.consumed = @ + s.bytes]
             ELSE [bytes |-> s.bytes - remaining, queue |-> Tail(s.queue),
                   consumed |-> 0]

(* The loop ends after at most one round per buffer. *)
ConsumeLoop(bytes) ==
  LET start == [bytes |-> bytes, queue |-> send_queue, consumed |-> send_consumed]
      Round[i \in 0 .. Len(send_queue)] ==
        IF i = 0 THEN start ELSE ConsumeStep(Round[i - 1])
  IN  Round[Len(send_queue)]

ConsumeSend(bytes) ==
  LET end == ConsumeLoop(bytes)
  IN  /\ send_queue' = end.queue
      /\ send_consumed' = end.consumed
      /\ removed' = removed + (bytes - end.bytes)
      /\ UNCHANGED <<max_send_queue_size, written, receive_vars>>

SetMaxSendQueueSize(size) ==
  /\ max_send_queue_size' = size
  /\ UNCHANGED <<send_vars, receive_vars>>

-----------------------------------------------------------------------------
(* Receiving *)

Free == capacity - receive_committed

(* What receive_strategy_ proposes, raised to what is needed. *)
Grown(n, strategy) ==
  IF strategy < receive_committed + n THEN receive_committed + n ELSE strategy

(* PrepareReceive; receive_strategy_ may propose any size, and without     *)
(* memory nothing changes.                                                 *)
PrepareReceive(n) ==
  /\ \/ capacity = 0 /\ capacity' = n
     \/ capacity # 0 /\ Free >= n /\ UNCHANGED capacity
     \/ /\ capacity # 0 /\ Free < n
        /\ \E strategy \in 0 .. MaxCapacity : capacity' = Grown(n, strategy)
  /\ capacity' <= MaxCapacity
  /\ room' = n
  /\ UNCHANGED <<send_vars, max_send_queue_size, receive_committed>>

(* GetReceiveBuffer allocates a default buffer when there is none. *)
GetReceiveBuffer ==
  /\ capacity' = IF capacity = 0 THEN DefaultCapacity ELSE capacity
  /\ UNCHANGED <<send_vars, max_send_queue_size, receive_committed, room>>

(* Without a buffer it does nothing; that n fits is left to the caller.    *)
CommitReceive(n) ==
  /\ capacity > 0
  /\ receive_committed' = receive_committed + n
  /\ room' = IF room > n THEN room - n ELSE 0
  /\ UNCHANGED <<send_vars, max_send_queue_size, capacity>>

ClearAll ==
  /\ send_queue' = <<>> /\ send_consumed' = 0
  /\ removed' = written
  /\ capacity' = 0 /\ receive_committed' = 0 /\ room' = 0
  /\ UNCHANGED <<max_send_queue_size, written>>

-----------------------------------------------------------------------------
(* Callers commit what they wrote into GetReceiveBuffer()'s view, which is *)
(* Free bytes long.                                                        *)
BufferNext ==
  \/ \E n \in 1 .. MaxBytes : EnqueueSend(n) \/ ConsumeSend(n)
  \/ \E size \in Limits : SetMaxSendQueueSize(size)
  \/ \E n \in 1 .. MaxCapacity : PrepareReceive(n)
  \/ \E n \in 1 .. Free : CommitReceive(n)
  \/ GetReceiveBuffer
  \/ ClearAll

BufferSpec == BufferInit /\ [][BufferNext]_buffer_vars

-----------------------------------------------------------------------------
(* Properties *)

(* The queue holds exactly the bytes removed + 1 .. written, in order: no  *)
(* sequence of partial, whole-buffer or over-long ConsumeSend calls,       *)
(* limit changes and ClearAll makes ConnectionBufferManager lose, repeat   *)
(* or reorder a byte, the front buffer always has something left (the case *)
(* PeekSend calls impossible), and GetSendQueueSize is exact.              *)
QueueIsTheRest ==
  /\ \A i \in 1 .. Len(send_queue) - 1 : send_queue[i].hi = send_queue[i + 1].lo
  /\ send_queue # <<>> =>
       /\ Head(send_queue).lo + send_consumed = removed
       /\ send_consumed < Size(Head(send_queue))
       /\ send_queue[Len(send_queue)].hi = written
  /\ send_queue = <<>> => send_consumed = 0 /\ removed = written
  /\ GetSendQueueSize = written - removed

(* What PrepareReceive promised stays available while it is filled, with   *)
(* whatever strategy: no later growth or commit eats into it, provided     *)
(* that callers commit no more than the view GetReceiveBuffer gave them.   *)
PreparedRoomIsThere == 0 <= room /\ room <= Free

=============================================================================
