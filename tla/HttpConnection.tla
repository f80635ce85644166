--------------------------- MODULE HttpConnection ----------------------------
(***************************************************************************)
(* One connection of the HTTP server, from acceptLoop to the responses:    *)
(* HttpServer (http_server.cpp), HttpProtocolHandler                       *)
(* (http_protocol_handler.cpp), the reader thread of TCPConnection and the *)
(* pool that runs SendAsync.                                               *)
(*                                                                         *)
(* The acceptor sets the connection up while its reader already runs.  The *)
(* reader runs OnData, split where other threads can get between: at       *)
(* contexts_mutex_ and between requests.  Responses are sent by the pool's *)
(* workers.  The cleanup thread erases contexts, also the one OnData holds *)
(* a reference to: from then on OnData works on freed memory, of which the *)
(* model says that it is unchanged or empty.                               *)
(*                                                                         *)
(* The client's requests are an arbitrary sequence, cut into chunks        *)
(* anywhere.  A request is                                                 *)
(*   version     the third word of its request line, or "missing";         *)
(*   connection  what Connection says: "keep-alive", "other", or "none";   *)
(*   length      what Content-Length says: the length of its body ("ok"),  *)
(*               more than max_body_size_ ("large"), no number             *)
(*               ("invalid"), or "none" if it has no body;                 *)
(*   target      "file" for an existing static file, "upgrade" for         *)
(*               /ws/speedtest with Upgrade: websocket, otherwise "page";  *)
(*   last        which header line is the last, or "nothing" if it has no  *)
(*               header.                                                   *)
(* What the handlers compute is left out; each produces one response.  A   *)
(* body has no blank line in it; read as part of a head it can make that   *)
(* head mean anything.                                                     *)
(*                                                                         *)
(* The client may hang up at any time, and any write may be cut short.     *)
(* A connection handed to a WebSocket session is followed no further: see  *)
(* SpeedTestPage.                                                          *)
(***************************************************************************)
EXTENDS Integers, Sequences, FiniteSets

CONSTANTS
  Streams,   \* the sequences of requests a client may send
  MaxLength, \* bound: the length of the longest
  Pool       \* the workers of the scheduler

Request == [version    : {"HTTP/1.1", "other", "missing"},
            connection : {"none", "keep-alive", "other"},
            length     : {"none", "ok", "large", "invalid"},
            target     : {"page", "file", "upgrade"},
            last       : {"length", "connection", "upgrade", "key", "other",
                          "nothing"}]

ASSUME HttpAssumption ==
  /\ MaxLength \in Nat
  /\ \A reqs \in Streams : reqs \in Seq(Request) /\ Len(reqs) <= MaxLength

Nobody == 0

VARIABLES
  stream,    \* what the client sends
  arriving,  \* its parts the reader has not received
  acceptor,  \* where acceptLoop is
  reader,    \* where the reader thread is
  chunk,     \* what it has received
  state,     \* state_ of the connection
  has,       \* whether contexts_ has an entry for the connection
  buffer,    \* ctx.buffer
  expired,   \* whether ctx.last_activity is too long ago
  cleaner,   \* whether the cleanup thread has collected the connection
  handled,   \* history: the requests handled
  queue,     \* the pool's queue: numbers of responses
  hands,     \* the response each worker holds
  unsent,    \* the connection's send queue: responses not yet written
  wire,      \* the responses completely written, in order
  lost,      \* history: the responses Send has dropped
  refused,   \* history: a WebSocket handshake has failed
  damaged    \* history: part of the client's data was lost or misread

accept_vars == <<stream, acceptor>>
ctx_vars    == <<has, buffer, expired, cleaner>>
pool_vars   == <<queue, hands, unsent, wire, lost>>
vars == <<accept_vars, arriving, reader, chunk, state, ctx_vars, handled,
          pool_vars, refused, damaged>>

(* The parts of request i: its head, and its body. *)
Head1(i) == [req |-> i, part |-> "head"]
Body(i)  == [req |-> i, part |-> "body"]
Parts(reqs, i) ==
  IF reqs[i].length = "none" THEN <<Head1(i)>> ELSE <<Head1(i), Body(i)>>

AllParts(reqs) ==
  LET upto[i \in 0 .. Len(reqs)] ==
        IF i = 0 THEN <<>> ELSE upto[i - 1] \o Parts(reqs, i)
  IN  upto[Len(reqs)]

Init ==
  /\ stream \in Streams /\ arriving = AllParts(stream)
  /\ acceptor = "init" /\ reader = "none" /\ chunk = <<>>
  /\ state = "CONNECTED"
  /\ has = FALSE /\ buffer = <<>> /\ expired = TRUE
  /\ cleaner = FALSE
  /\ handled = <<>>
  /\ queue = <<>> /\ hands = [w \in Pool |-> Nobody]
  /\ unsent = <<>> /\ wire = <<>> /\ lost = {}
  /\ refused = FALSE /\ damaged = FALSE

(* std::terminate, or SIGPIPE, ends all threads. *)
Terminated == reader = "terminated"

-----------------------------------------------------------------------------
(* acceptLoop *)

(* init() starts the reader ... *)
AcceptInit ==
  /\ acceptor = "init" /\ ~Terminated
  /\ acceptor' = "register" /\ reader' = "test"
  /\ UNCHANGED <<stream, arriving, chunk, state, ctx_vars, handled, pool_vars,
                 refused, damaged>>

(* ... SetConnectionId, RegisterConnection and onNewConnection follow. *)
onNewConnection ==
  /\ acceptor = "register" /\ ~Terminated
  /\ acceptor' = "done"
  /\ UNCHANGED <<stream, arriving, reader, chunk, state, ctx_vars, handled,
                 pool_vars, refused, damaged>>

-----------------------------------------------------------------------------
(* The reader thread *)

ReaderTest ==
  /\ reader = "test"
  /\ reader' = IF state = "CONNECTED" THEN "recv" ELSE "ended"
  /\ UNCHANGED <<accept_vars, arriving, chunk, state, ctx_vars, handled,
                 pool_vars, refused, damaged>>

(* recv() and TriggerData, which drops the data if no callback is set. *)
ReaderRecv(n) ==
  /\ reader = "recv"
  /\ n <= Len(arriving)
  /\ arriving' = SubSeq(arriving, n + 1, Len(arriving))
  /\ IF acceptor = "done"
     THEN /\ reader' = "onData" /\ chunk' = SubSeq(arriving, 1, n)
          /\ UNCHANGED damaged
     ELSE /\ reader' = "test" /\ damaged' = TRUE
          /\ UNCHANGED chunk
  /\ UNCHANGED <<accept_vars, state, ctx_vars, handled, pool_vars, refused>>

(* recv() finds that the client is gone: `break'. *)
ReaderEnds ==
  /\ reader = "recv"
  /\ reader' = "ended"
  /\ UNCHANGED <<accept_vars, arriving, chunk, state, ctx_vars, handled,
                 pool_vars, refused, damaged>>

(* GetContext: a new context has last_activity 0. *)
GetContext ==
  /\ reader = "onData"
  /\ reader' = "append"
  /\ has' = TRUE
  /\ IF has THEN UNCHANGED <<buffer, expired>>
     ELSE buffer' = <<>> /\ expired' = TRUE
  /\ UNCHANGED <<accept_vars, arriving, chunk, state, cleaner, handled,
                 pool_vars, refused, damaged>>

OnDataAppend ==
  /\ reader = "append"
  /\ reader' = "upgrade"
  /\ buffer' = buffer \o chunk /\ chunk' = <<>>
  /\ expired' = FALSE
  /\ UNCHANGED <<accept_vars, arriving, state, has, cleaner, handled,
                 pool_vars, refused, damaged>>

-----------------------------------------------------------------------------
(* ParseHttpRequest *)

(* Where the first blank line is; what stands before it is read as part of *)
(* that head.                                                              *)
FirstHead == CHOOSE k \in 1 .. Len(buffer) :
               /\ buffer[k].part = "head"
               /\ \A j \in 1 .. k - 1 : buffer[j].part # "head"

HasHead  == \E k \in 1 .. Len(buffer) : buffer[k].part = "head"
First    == buffer[FirstHead].req
FirstReq == stream[First]
Misread  == FirstHead # 1

(* The last header line has no CRLF within header_part and is not seen. *)
SeenLength(r)     == IF r.last = "length" THEN "none" ELSE r.length
SeenConnection(r) == IF r.last = "connection" THEN "none" ELSE r.connection

(* ctx.is_keep_alive *)
KeepAlive(r) ==
  \/ SeenConnection(r) = "keep-alive"
  \/ SeenConnection(r) = "none" /\ r.version = "HTTP/1.1"

(* There is a header behind the request line, which has three words. *)
HasLines(r) == r.last # "nothing" /\ r.version # "missing"

(* A request that is never accepted, however long it stays in the buffer. *)
Blocks(r) == ~HasLines(r) \/ SeenLength(r) = "large"

BodyIsThere ==
  \/ SeenLength(FirstReq) = "none"
  \/ SeenLength(FirstReq) = "ok" /\ Len(buffer) > FirstHead

(* The request is accepted, with this is_keep_alive. *)
Parses(keep) ==
  /\ HasHead
  /\ Misread \/ (HasLines(FirstReq) /\ BodyIsThere /\ keep = KeepAlive(FirstReq))

(* std::stoul throws. *)
Throws ==
  HasHead /\ (Misread \/ (HasLines(FirstReq) /\ SeenLength(FirstReq) = "invalid"))

(* `return false' *)
ParseFails ==
  HasHead /\ ~Misread =>
    \/ Blocks(FirstReq)
    \/ SeenLength(FirstReq) = "ok" /\ Len(buffer) = FirstHead

Consumed_HeaderOnly == {FirstHead}

Consumed ==
  IF Misread THEN FirstHead .. Len(buffer)
  ELSE IF SeenLength(FirstReq) = "none" THEN {1} ELSE {2}

Rest(c) == SubSeq(buffer, c + 1, Len(buffer))

-----------------------------------------------------------------------------
(* TCPConnection::Send, with state_mutex_ held *)

(* Flush of the send queue q writes k responses; a short write, EAGAIN or  *)
(* an error leaves the others where they are.                              *)
Flush(q, k) ==
  /\ wire' = wire \o SubSeq(q, 1, k)
  /\ unsent' = SubSeq(q, k + 1, Len(q))

-----------------------------------------------------------------------------
(* WebSocket upgrade: looked for once in OnData, in the first head *)

Upgrades ==
  /\ reader = "upgrade" /\ \E keep \in BOOLEAN : Parses(keep)
  /\ Misread \/ (FirstReq.target = "upgrade" /\ FirstReq.last # "upgrade")

HasKey == Misread \/ FirstReq.last # "key"

(* CreateAndHandle has sent the handshake response; the session becomes    *)
(* the data callback and the context, with the rest of the data, goes.     *)
UpgradeDone ==
  /\ Upgrades /\ HasKey
  /\ \E k \in 0 .. Len(unsent) : Flush(unsent, k)
  /\ reader' = "session" /\ has' = FALSE
  /\ UNCHANGED <<accept_vars, arriving, chunk, state, buffer, expired, cleaner,
                 handled, queue, hands, lost, refused, damaged>>

(* There was no key, or Send has failed. *)
UpgradeFails ==
  /\ Upgrades
  /\ \E k \in 0 .. Len(unsent) : (k > 0 => HasKey) /\ Flush(unsent, k)
  /\ \E c \in Consumed : buffer' = Rest(c)
  /\ refused' = TRUE
  /\ reader' = "close"
  /\ UNCHANGED <<accept_vars, arriving, chunk, state, has, expired, cleaner,
                 handled, queue, hands, lost, damaged>>

NoUpgrade ==
  /\ reader = "upgrade"
  /\ Upgrades => Misread
  /\ reader' = "parse"
  /\ UNCHANGED <<accept_vars, arriving, chunk, state, ctx_vars, handled,
                 pool_vars, refused, damaged>>

-----------------------------------------------------------------------------
(* The rest of OnData *)

AfterRequest_Returns(keep) == IF keep THEN "test" ELSE "close"

(* `if (!ctx.is_keep_alive)' *)
AfterRequest(keep) == IF keep THEN "parse" ELSE "close"

SendResponse_Twice(n)     == queue' = queue \o <<n, n>>
SendResponse_Forgotten(n) == UNCHANGED queue

(* SendAsync: one more task for the pool. *)
SendResponse(n) == queue' = Append(queue, n)

HandleRequest(keep) ==
  /\ reader = "parse" /\ Parses(keep)
  /\ Misread \/ FirstReq.target # "file"
  /\ \E c \in Consumed : buffer' = Rest(c)
  /\ handled' = Append(handled, [req |-> First, intact |-> ~Misread, keep |-> keep])
  /\ SendResponse(Len(handled'))
  /\ damaged' = (damaged \/ SeenLength(FirstReq) # FirstReq.length)
  /\ reader' = AfterRequest(keep)
  /\ UNCHANGED <<accept_vars, arriving, chunk, state, has, expired, cleaner,
                 hands, unsent, wire, lost, refused>>

(* An exception nobody catches: std::stoul's, or that of the empty handler *)
(* HandleRequest calls for a static file.                                  *)
OnDataThrows ==
  /\ reader = "parse"
  /\ \/ Throws
     \/ /\ \E keep \in BOOLEAN : Parses(keep)
        /\ Misread \/ FirstReq.target = "file"
  /\ reader' = "terminated"
  /\ UNCHANGED <<accept_vars, arriving, chunk, state, ctx_vars, handled,
                 pool_vars, refused, damaged>>

OnDataReturns ==
  /\ reader = "parse" /\ ParseFails
  /\ reader' = "test"
  /\ UNCHANGED <<accept_vars, arriving, chunk, state, ctx_vars, handled,
                 pool_vars, refused, damaged>>

AfterClose_Continues == "parse"

(* `break' *)
AfterClose == "test"

(* conn->Close(), then RemoveContext. *)
OnDataCloses ==
  /\ reader = "close"
  /\ state' = "CLOSING"
  /\ has' = FALSE
  /\ reader' = AfterClose
  /\ UNCHANGED <<accept_vars, arriving, chunk, buffer, expired, cleaner,
                 handled, pool_vars, refused, damaged>>

-----------------------------------------------------------------------------
(* The pool *)

(* The scheduler's queue is first in, first out. *)
Take(w) ==
  /\ hands[w] = Nobody /\ queue # <<>> /\ ~Terminated
  /\ hands' = [hands EXCEPT ![w] = Head(queue)]
  /\ queue' = Tail(queue)
  /\ UNCHANGED <<accept_vars, arriving, reader, chunk, state, ctx_vars,
                 handled, unsent, wire, lost, refused, damaged>>

(* EnqueueSend may find the send queue full; Send does not ask, and        *)
(* flushes what is there.                                                  *)
Send(w) ==
  /\ hands[w] # Nobody /\ ~Terminated
  /\ hands' = [hands EXCEPT ![w] = Nobody]
  /\ \/ /\ state # "CONNECTED"
        /\ lost' = lost \union {hands[w]} /\ UNCHANGED <<unsent, wire>>
     \/ /\ state = "CONNECTED"
        /\ lost' = lost \union {hands[w]}
        /\ \E k \in 0 .. Len(unsent) : Flush(unsent, k)
     \/ /\ state = "CONNECTED" /\ UNCHANGED lost
        /\ \E k \in 0 .. Len(unsent) + 1 : Flush(Append(unsent, hands[w]), k)
  /\ UNCHANGED <<accept_vars, arriving, reader, chunk, state, ctx_vars,
                 handled, queue, refused, damaged>>

(* The client is gone, and a write ends the process by SIGPIPE. *)
SendKills ==
  /\ ~Terminated
  /\ \/ state = "CONNECTED" /\ \E w \in Pool : hands[w] # Nobody
     \/ Upgrades /\ HasKey
  /\ reader' = "terminated"
  /\ UNCHANGED <<accept_vars, arriving, chunk, state, ctx_vars, handled,
                 pool_vars, refused, damaged>>

-----------------------------------------------------------------------------
(* The cleanup thread *)

(* request_timeout_ has passed since last_activity. *)
Timeout ==
  /\ has /\ ~expired /\ ~Terminated
  /\ expired' = TRUE
  /\ UNCHANGED <<accept_vars, arriving, reader, chunk, state, has, buffer,
                 cleaner, handled, pool_vars, refused, damaged>>

(* The scan under the lock ... *)
CleanupCollects ==
  /\ ~cleaner /\ has /\ expired /\ ~Terminated
  /\ cleaner' = TRUE
  /\ UNCHANGED <<accept_vars, arriving, reader, chunk, state, has, buffer,
                 expired, handled, pool_vars, refused, damaged>>

(* OnData is using its reference to the context. *)
InOnData == reader \in {"append", "upgrade", "parse", "close"}

(* ... and the removal after it was released. *)
CleanupRemoves ==
  /\ cleaner /\ ~Terminated
  /\ cleaner' = FALSE
  /\ has' = FALSE
  /\ damaged' = (damaged \/ (has /\ (InOnData \/ buffer # <<>>)))
  /\ buffer' \in IF has /\ InOnData THEN {buffer, <<>>} ELSE {buffer}
  /\ UNCHANGED <<accept_vars, arriving, reader, chunk, state, expired,
                 handled, pool_vars, refused>>

-----------------------------------------------------------------------------
Reader ==
  \/ ReaderTest \/ GetContext \/ OnDataAppend
  \/ UpgradeDone \/ UpgradeFails \/ NoUpgrade
  \/ OnDataThrows \/ OnDataReturns \/ OnDataCloses
  \/ \E keep \in BOOLEAN : HandleRequest(keep)
  \/ \E n \in 1 .. Len(arriving) : ReaderRecv(n)

Next ==
  \/ AcceptInit \/ onNewConnection
  \/ Reader \/ ReaderEnds
  \/ \E w \in Pool : Take(w) \/ Send(w)
  \/ SendKills
  \/ Timeout \/ CleanupCollects \/ CleanupRemoves

(* All threads run, and the client sends everything unless it hangs up; no *)
(* time-out has to happen, and no write has to get anywhere.               *)
Fairness ==
  /\ WF_vars(AcceptInit) /\ WF_vars(onNewConnection)
  /\ WF_vars(Reader)
  /\ \A w \in Pool : WF_vars(Take(w)) /\ WF_vars(Send(w))

Spec     == Init /\ [][Next]_vars
FairSpec == Spec /\ Fairness

-----------------------------------------------------------------------------
(* Properties *)

Numbers == 1 .. Len(handled)

(* Whatever chunks the requests arrive in, they are handled as they were   *)
(* sent: in order, none twice, skipped or mixed up with another's body.    *)
(* The exceptions are data that arrived before the callback was set, a     *)
(* context that timed out with data in it or while OnData used it, and a   *)
(* Content-Length in the last header line.                                 *)
HandledAsSent ==
  ~damaged =>
    \A i \in Numbers : handled[i].req = i /\ handled[i].intact

Closing(i) ==
  LET d == handled[i]
  IN  IF d.intact THEN ~KeepAlive(stream[d.req]) ELSE ~d.keep

(* A request that is not keep-alive by the parser's rule (Connection is    *)
(* exactly "keep-alive", or absent in HTTP/1.1) is the last one handled,   *)
(* also if more of them have arrived with it or its context is erased      *)
(* meanwhile, and the connection is closed behind it; only such a request  *)
(* or a failed WebSocket handshake closes it.                              *)
ClosesByKeepAliveRule ==
  /\ \A i \in Numbers : Closing(i) =>
       /\ i = Len(handled)
       /\ reader = "close" \/ state = "CLOSING" \/ Terminated
  /\ state = "CLOSING" =>
       refused \/ (handled # <<>> /\ Closing(Len(handled)))

Places(q, i) == {j \in 1 .. Len(q) : q[j] = i}

(* The response of a handled request is in exactly one place: in the       *)
(* pool's queue, in one worker's hands, in the connection's send queue     *)
(* (where a write that was cut short leaves it), on the wire, or dropped   *)
(* by Send, because the connection is closed or the send queue full.       *)
OneResponsePerRequest ==
  \A i \in Numbers :
      Cardinality(Places(queue, i)) + Cardinality({w \in Pool : hands[w] = i})
      + Cardinality(Places(unsent, i)) + Cardinality(Places(wire, i))
      + (IF i \in lost THEN 1 ELSE 0) = 1

NextBlocks ==
  Len(handled) < Len(stream) /\ Blocks(stream[Len(handled) + 1])

(* A client that sends all its requests has them all handled, also those   *)
(* that arrive together in one chunk with nothing behind them, up to one   *)
(* the parser never accepts (no header, less than three words in its first *)
(* line, a body over the limit), which blocks the connection.  Otherwise   *)
(* the connection was closed, by a request or the client, or handed to a   *)
(* WebSocket session, the server has terminated, or data was damaged.      *)
AllHandled ==
  <>(\/ Len(handled) = Len(stream) \/ NextBlocks \/ damaged
     \/ reader \in {"ended", "session", "terminated"})

(* No response stays in the pool, even if the context is erased or more    *)
(* requests arrive before it is sent: unless the process ends, Send gets   *)
(* it, and writes it, drops it, or leaves it in the send queue, from where *)
(* only a later Send can take it.                                          *)
ReachesSend ==
  \A i \in 1 .. MaxLength :
    (i \in Numbers) ~>
      \/ Places(wire, i) # {} \/ Places(unsent, i) # {} \/ i \in lost
      \/ Terminated

=============================================================================
