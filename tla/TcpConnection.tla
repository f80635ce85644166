---------------------------- MODULE TcpConnection ----------------------------
(***************************************************************************)
(* TCPConnection of src/core/Tcp/tcp_connection.cpp: its life cycle, the   *)
(* sending path on top of ConnectionBuffer, Receive(), and the reader      *)
(* thread init() starts.                                                   *)
(*                                                                         *)
(* Send, Connect, Disconnect and Close run under state_mutex_; Send keeps  *)
(* it for its whole Flush loop, one step per call of the kernel.  The      *)
(* reader threads take no lock: they look at state_ and socket_fd_ between *)
(* any two steps of the others.  Flush(), ClearBuffers() and Receive()     *)
(* called by themselves do not lock either: the life cycle goes on around  *)
(* them.  They also touch the unprotected buffer, where two at once, or    *)
(* one during a Send, is undefined behaviour; the model's callers keep     *)
(* operations on the buffer apart.                                         *)
(*                                                                         *)
(* The kernel (external) hands out socket numbers 1, 2, ... in order; a    *)
(* number is not reused.                                                   *)
(***************************************************************************)
EXTENDS ConnectionBuffer, FiniteSets

CONSTANTS
  Threads,      \* threads that call Send or Flush (pool workers, clients)
  Sockets,      \* bound: sockets are numbered 1 .. Sockets
  MaxReceived,  \* bound: bytes read by Receive()
  NoThread

ASSUME ConnectionAssumption ==
  /\ Sockets \in Nat /\ MaxReceived \in Nat
  /\ NoThread \notin Threads

NoFd    == 0
Readers == 1 .. Sockets + 1

VARIABLES
  state,           \* state_
  socket_fd,       \* socket_fd_ (NoFd: -1)
  holder,          \* who holds state_mutex_ between two steps
  tpc,             \* what each thread is doing: idle, Send or Flush
  reader,          \* where the reader threads are (none, test, recv, deliver,
                   \* sleep, report or ended); the n-th init() starts n
  bytes_sent,      \* bytes_sent_
  bytes_received,  \* bytes_received_
  sockets,         \* kernel: sockets created so far
  open,            \* kernel: sockets not closed
  shut,            \* kernel: sockets shut down by us
  hung_up,         \* kernel: sockets whose peer has closed
  wire,            \* history: numbers of the bytes given to the kernel
  handed,          \* history: numbers of the bytes Receive() has returned
  closed_events    \* history: how often CLOSED was triggered

kernel_vars == <<sockets, open, shut, hung_up>>
life_vars   == <<state, socket_fd>>
vars == <<buffer_vars, life_vars, holder, tpc, reader, bytes_sent,
          bytes_received, kernel_vars, wire, handed, closed_events>>

(* A fresh connection for Connect(), or one accepted by the server.        *)
Init ==
  /\ BufferInit
  /\ \/ state = "DISCONNECTED" /\ socket_fd = NoFd /\ sockets = 0
     \/ state = "CONNECTED" /\ socket_fd = 1 /\ sockets = 1
  /\ open = 1 .. sockets /\ shut = {} /\ hung_up = {}
  /\ holder = NoThread
  /\ tpc = [t \in Threads |-> "idle"]
  /\ reader = [r \in Readers |-> "none"]
  /\ bytes_sent = 0 /\ bytes_received = 0
  /\ wire = <<>> /\ handed = <<>>
  /\ closed_events = 0

Unlocked == holder = NoThread

(* No Send or Flush is using the buffer. *)
BufferIdle == \A t \in Threads : tpc[t] = "idle"

(* self_connection_ is set: init() does that when it starts a reader.  The *)
(* weak pointer expires only when the connection is destroyed, which is    *)
(* not modelled.                                                           *)
Attached == \E r \in Readers : reader[r] # "none"

(* TriggerEvent tells nobody without self_connection_; only the number of  *)
(* CLOSED events matters below.                                            *)
Trigger(e) ==
  closed_events' = closed_events + IF e = "CLOSED" /\ Attached THEN 1 ELSE 0

-----------------------------------------------------------------------------
(* Life cycle *)

(* init(): one more detached reader. *)
StartReader ==
  \E r \in Readers :
    /\ reader[r] = "none"
    /\ \A q \in Readers : q < r => reader[q] # "none"
    /\ reader' = [reader EXCEPT ![r] = "test"]

(* acceptLoop calls init() on the connection it has just constructed. *)
init ==
  /\ state = "CONNECTED"
  /\ \A r \in Readers : reader[r] = "none"
  /\ StartReader
  /\ UNCHANGED <<buffer_vars, life_vars, holder, tpc, bytes_sent,
                 bytes_received, kernel_vars, wire, handed, closed_events>>

ConnectOk ==
  /\ sockets' = sockets + 1
  /\ socket_fd' = sockets'
  /\ open' = open \union {sockets'}
  /\ state' = "CONNECTED"
  /\ StartReader
  /\ Trigger("CONNECTED")

(* socket() failed, or connect() failed and the new socket was closed. *)
ConnectFails ==
  /\ state' = "ERROR"
  /\ \/ UNCHANGED <<socket_fd, sockets>>
     \/ socket_fd' = NoFd /\ sockets' = sockets + 1
  /\ UNCHANGED <<open, reader, closed_events>>

Connect ==
  /\ Unlocked
  /\ state = "DISCONNECTED"
  /\ sockets < Sockets
  /\ ConnectOk \/ ConnectFails
  /\ UNCHANGED <<buffer_vars, holder, tpc, bytes_sent, bytes_received, shut,
                 hung_up, wire, handed>>

(* DISCONNECTING lasts while the lock is held; nobody tells it apart. *)
AfterDisconnect == "DISCONNECTED"

Disconnect ==
  /\ Unlocked
  /\ state = "CONNECTED"
  /\ shut' = shut \union {socket_fd}
  /\ state' = AfterDisconnect
  /\ Trigger("DISCONNECTED")
  /\ UNCHANGED <<buffer_vars, socket_fd, holder, tpc, reader, bytes_sent,
                 bytes_received, sockets, open, hung_up, wire, handed>>

MayClose_Unlocked == socket_fd # NoFd

MayClose == Unlocked /\ socket_fd # NoFd

ForgetSocket_KeepsFd == UNCHANGED socket_fd

ForgetSocket == socket_fd' = NoFd

Close ==
  /\ MayClose
  /\ open' = open \ {socket_fd}
  /\ ForgetSocket
  /\ state' = "CLOSING"
  /\ Trigger("CLOSED")
  /\ UNCHANGED <<buffer_vars, holder, tpc, reader, bytes_sent,
                 bytes_received, sockets, shut, hung_up, wire, handed>>

(* Configure and UpdateConfig: the limit follows send_buffer_size. *)
Configure(size) ==
  /\ SetMaxSendQueueSize(size)
  /\ UNCHANGED <<life_vars, holder, tpc, reader, bytes_sent, bytes_received,
                 kernel_vars, wire, handed, closed_events>>

-----------------------------------------------------------------------------
(* Sending *)

(* Send with a connection; without one it only returns ENOTCONN.  What     *)
(* EnqueueSend returns is ignored.                                         *)
Send(t, n) ==
  /\ Unlocked /\ BufferIdle
  /\ state = "CONNECTED"
  /\ EnqueueSend(n)
  /\ holder' = t
  /\ tpc' = [tpc EXCEPT ![t] = "Send"]
  /\ UNCHANGED <<life_vars, reader, bytes_sent, bytes_received, kernel_vars,
                 wire, handed, closed_events>>

(* Flush called by itself: no lock and no test of state_, so the socket    *)
(* may be shut down, closed or replaced between two rounds of its loop.    *)
Flush(t) ==
  /\ BufferIdle
  /\ tpc' = [tpc EXCEPT ![t] = "Flush"]
  /\ UNCHANGED <<buffer_vars, life_vars, holder, reader, bytes_sent, bytes_received,
                 kernel_vars, wire, handed, closed_events>>

Return(t) ==
  /\ holder' = IF holder = t THEN NoThread ELSE holder
  /\ tpc' = [tpc EXCEPT ![t] = "idle"]

FlushDone(t) ==
  /\ tpc[t] # "idle"
  /\ IsSendQueueEmpty \/ Size(PeekSend) = 0
  /\ Return(t)
  /\ UNCHANGED <<buffer_vars, life_vars, reader, bytes_sent, bytes_received,
                 kernel_vars, wire, handed, closed_events>>

Consumed_Requested(view, sent) == Size(view)

(* What Flush takes off the queue: what the kernel took. *)
Consumed(view, sent) == sent

CountSent(view, sent) == bytes_sent' = bytes_sent + sent

(* The kernel takes `sent' bytes; after a short write the loop ends with   *)
(* the rest still queued.                                                  *)
FlushSend(t, sent) ==
  LET view == PeekSend
  IN  /\ tpc[t] # "idle"
      /\ socket_fd \in open \ shut
      /\ sent <= Size(view)
      /\ wire' = wire \o [i \in 1 .. sent |-> view.lo + i]
      /\ CountSent(view, sent)
      /\ ConsumeSend(Consumed(view, sent))
      /\ IF sent < Size(view) THEN Return(t) ELSE UNCHANGED <<holder, tpc>>
      /\ UNCHANGED <<life_vars, reader, bytes_received, kernel_vars, handed,
                     closed_events>>

(* EAGAIN or a real error: the bytes stay queued either way. *)
FlushError(t) ==
  /\ tpc[t] # "idle"
  /\ ~IsSendQueueEmpty
  /\ Return(t)
  /\ UNCHANGED <<buffer_vars, life_vars, reader, bytes_sent, bytes_received,
                 kernel_vars, wire, handed, closed_events>>

FlushStep(t) ==
  FlushDone(t) \/ FlushError(t) \/ \E sent \in 1 .. MaxBytes : FlushSend(t, sent)

ClearBuffers ==
  /\ BufferIdle
  /\ ClearAll
  /\ UNCHANGED <<life_vars, holder, tpc, reader, bytes_sent, bytes_received,
                 kernel_vars, wire, handed, closed_events>>

-----------------------------------------------------------------------------
(* Receive(max_len).  The receive buffer is empty whenever it is called,   *)
(* because every call that gets as far as copying ends in ClearAll().      *)

ReceiveFails ==
  /\ BufferIdle
  /\ GetReceiveBuffer
  /\ UNCHANGED <<life_vars, holder, tpc, reader, bytes_sent, bytes_received,
                 kernel_vars, wire, handed, closed_events>>

Junk == 0   \* memory nobody has written

(* What Receive copies out after n bytes arrived at the front of the       *)
(* buffer: GetReceiveBuffer()'s view is the part that can still be         *)
(* written, so it begins behind them.                                      *)
Copied(n, max_len) ==
  LET contents(i) == IF i < n THEN bytes_received + i + 1 ELSE Junk
      to_read     == IF max_len < n THEN max_len ELSE n
      view        == n
  IN  [i \in 1 .. to_read |-> contents(view + i - 1)]

(* recv() gave n bytes (0: the peer is gone). *)
ReceiveOk(n, max_len) ==
  /\ BufferIdle
  /\ socket_fd \in open
  /\ n <= IF capacity = 0 THEN DefaultCapacity ELSE capacity
  /\ bytes_received + n <= MaxReceived
  /\ bytes_received' = bytes_received + n
  /\ handed' = handed \o Copied(n, max_len)
  /\ ClearAll
  /\ UNCHANGED <<life_vars, holder, tpc, reader, bytes_sent, kernel_vars,
                 wire, closed_events>>

-----------------------------------------------------------------------------
(* The reader thread *)

ReaderGoto(r, where) ==
  /\ reader' = [reader EXCEPT ![r] = where]
  /\ UNCHANGED <<buffer_vars, life_vars, holder, tpc, bytes_sent,
                 bytes_received, kernel_vars, wire, handed>>

ReaderTest(r) ==
  /\ reader[r] = "test"
  /\ ReaderGoto(r, IF state = "CONNECTED" THEN "recv" ELSE "report")
  /\ UNCHANGED closed_events

(* recv() on socket_fd_ as it is now. *)
ReaderGetsData(r) ==
  /\ reader[r] = "recv"
  /\ socket_fd \in open \ (shut \union hung_up)
  /\ ReaderGoto(r, "deliver")
  /\ UNCHANGED closed_events

ReaderGetsNothing(r) ==
  /\ reader[r] = "recv"
  /\ socket_fd \in open \ (shut \union hung_up)
  /\ ReaderGoto(r, "sleep")
  /\ UNCHANGED closed_events

AfterEof_Retry == "sleep"

(* recv() returned 0. *)
AfterEof == "report"

ReaderGetsEof(r) ==
  /\ reader[r] = "recv"
  /\ socket_fd \in open \intersect (shut \union hung_up)
  /\ ReaderGoto(r, AfterEof)
  /\ UNCHANGED closed_events

(* A closed socket, or an error of the connection. *)
ReaderGetsError(r) ==
  /\ reader[r] = "recv"
  /\ ReaderGoto(r, "report")
  /\ UNCHANGED closed_events

(* TriggerData, then the nap. *)
ReaderDelivers(r) ==
  /\ reader[r] = "deliver"
  /\ ReaderGoto(r, "sleep")
  /\ UNCHANGED closed_events

ReaderWakes(r) ==
  /\ reader[r] = "sleep"
  /\ ReaderGoto(r, "test")
  /\ UNCHANGED closed_events

ReaderReports(r) ==
  /\ reader[r] = "report"
  /\ ReaderGoto(r, "ended")
  /\ Trigger("DISCONNECTED")

Reader(r) ==
  \/ ReaderTest(r) \/ ReaderGetsData(r) \/ ReaderGetsNothing(r)
  \/ ReaderGetsEof(r) \/ ReaderDelivers(r) \/ ReaderWakes(r) \/ ReaderReports(r)
  \/ (socket_fd \notin open /\ ReaderGetsError(r))

-----------------------------------------------------------------------------
(* The peer closes its end. *)
HangUp ==
  /\ \E fd \in open \ hung_up : hung_up' = hung_up \union {fd}
  /\ UNCHANGED <<buffer_vars, life_vars, holder, tpc, reader, bytes_sent,
                 bytes_received, sockets, open, shut, wire, handed, closed_events>>

Next ==
  \/ init \/ Connect \/ Disconnect \/ Close
  \/ \E size \in Limits : Configure(size)
  \/ \E t \in Threads :
       (\E n \in 1 .. MaxBytes : Send(t, n)) \/ Flush(t) \/ FlushStep(t)
  \/ ClearBuffers
  \/ ReceiveFails
  \/ \E n \in 0 .. MaxReceived, max_len \in 1 .. MaxReceived : ReceiveOk(n, max_len)
  \/ \E r \in Readers : Reader(r) \/ ReaderGetsError(r)
  \/ HangUp

(* Reader threads run; a thread inside Flush goes on.  Nobody has to call  *)
(* anything, no byte has to arrive and no error has to happen.             *)
Fairness ==
  /\ \A r \in Readers : WF_vars(Reader(r))
  /\ \A t \in Threads : WF_vars(FlushStep(t))

Spec     == Init /\ [][Next]_vars
FairSpec == Spec /\ Fairness

-----------------------------------------------------------------------------
(* Properties *)

Pipe == INSTANCE BytePipe WITH next <- removed, limit <- max_send_queue_size

(* TCPConnection's Send/Flush implement the byte pipe: through short       *)
(* writes, EAGAIN, errors, reconnects, changed limits and cleared buffers  *)
(* every accepted byte is given to the kernel at most once and in order,   *)
(* and waiting bytes disappear only when the whole queue is cleared.       *)
ImplementsPipe == Pipe!PipeSpec

(* While a Send is in progress, state_mutex_ held, the socket it writes to *)
(* stays connected: no Disconnect, Close or Connect gets between two       *)
(* writes of the same call.  It says nothing of the bytes a short write or *)
(* EAGAIN leaves queued: Send has then returned, and the next Send or      *)
(* Flush writes them to whatever socket the connection has by that time.   *)
SendKeepsItsSocket ==
  \A t \in Threads : tpc[t] = "Send" =>
    /\ holder = t
    /\ state = "CONNECTED"
    /\ socket_fd \in open \ shut

(* Close() is final: it is reported exactly once, if init() has told the   *)
(* event manager of the connection, and no operation brings a closed       *)
(* connection back or makes it hold a socket again.                        *)
CloseIsFinal ==
  /\ closed_events <= 1
  /\ closed_events = 1 => state = "CLOSING" /\ socket_fd = NoFd
  /\ state = "CLOSING" => closed_events = 1 \/ ~Attached

(* All started readers end, and report it, once the connection is closed   *)
(* or the peer has hung up, unless a reconnect overtakes them: a reader    *)
(* then reads the new socket beside the one that Connect() started.        *)
ReaderEnds ==
  (state = "CLOSING" \/ socket_fd \in hung_up)
    ~> \/ \A r \in Readers : reader[r] \in {"none", "ended"}
       \/ state = "CONNECTED" /\ socket_fd \notin hung_up

(* test_connection_buffer_mgr.cpp:92 calls what GetReceiveBuffer returns   *)
(* the writable view behind what is committed, which Receive() hands to    *)
(* its caller: what it returns should be bytes that arrived.               *)
ReceiveReturnsWhatArrived == \A i \in 1 .. Len(handed) : handed[i] # Junk

=============================================================================
