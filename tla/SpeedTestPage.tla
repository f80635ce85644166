---------------------------- MODULE SpeedTestPage ----------------------------
(***************************************************************************)
(* A speed test end to end: the script of examples/public/index.html, and  *)
(* on the server one thread of SpeedTestWebSocketHandler and one           *)
(* WebSocketSession for every connection.                                  *)
(*                                                                         *)
(* The page runs one handler at a time.  Handlers of all sockets, and the  *)
(* timeouts of all tests, which are never cancelled, share its state.  The *)
(* server sends for the same time as the page measures, so that the page's *)
(* timeout, the server's close frame and the network race to end a test.   *)
(*                                                                         *)
(* The browser is external, with the rules given in SpeedTestClient.  The  *)
(* speeds computed from the received chunks are left out; totalBytes is    *)
(* abstracted to the set of sockets whose data it counts.  The page also   *)
(* understands a message of type `end', which this server never sends.     *)
(***************************************************************************)
EXTENDS Integers, Sequences, FiniteSets

CONSTANTS
  MaxTests,   \* bound: how often a test is started
  Duration,   \* TEST_DURATION, and duration_seconds of the server
  Capacity    \* frames between server and page: send queue and network

ASSUME PageAssumption ==
  /\ MaxTests \in Nat /\ Duration \in Nat \ {0} /\ Capacity \in Nat \ {0}

Null    == 0
Sockets == 1 .. MaxTests
NoTimer == -1

VARIABLES
  tests,       \* tests started so far; test n uses socket n
  ws,          \* the page's socket, or Null
  isRunning,   \* also: the button is disabled
  uiTimer,     \* whether the UI timer runs
  counted,     \* the sockets whose data totalBytes contains
  timeouts,    \* per socket: time left until its timeout fires
  saved,       \* history: records posted to /api/record
  elapsed,     \* history: time since the running test was opened
  cutShort,    \* history: a test has ended before its own timeout
  readyState,  \* browser: of every socket
  failing,     \* browser: sockets closed while CONNECTING
  down,        \* per socket: frames on their way to the page
  conn,        \* server: connections the session has not closed
  thread,      \* server: the sending thread of each connection
  remaining,   \* server: time left until that thread has sent enough
  killed       \* server: SIGPIPE has ended the process

page_vars   == <<tests, ws, isRunning, uiTimer, counted>>
hist_vars   == <<saved, elapsed, cutShort>>
server_vars == <<conn, thread, remaining, killed>>
vars == <<page_vars, hist_vars, timeouts, readyState, failing, down,
          server_vars>>

Init ==
  /\ tests = 0 /\ ws = Null /\ isRunning = FALSE /\ uiTimer = FALSE
  /\ counted = {}
  /\ timeouts = [s \in Sockets |-> NoTimer]
  /\ saved = 0 /\ elapsed = 0 /\ cutShort = FALSE
  /\ readyState = [s \in Sockets |-> "none"] /\ failing = {}
  /\ down = [s \in Sockets |-> <<>>]
  /\ conn = {} /\ thread = [s \in Sockets |-> "none"]
  /\ remaining = [s \in Sockets |-> 0] /\ killed = FALSE

-----------------------------------------------------------------------------
(* The page *)

startTest ==
  /\ ~isRunning
  /\ tests < MaxTests
  /\ tests' = tests + 1 /\ ws' = tests'
  /\ isRunning' = TRUE
  /\ counted' = {}
  /\ elapsed' = 0
  /\ readyState' = [readyState EXCEPT ![tests'] = "CONNECTING"]
  /\ UNCHANGED <<uiTimer, saved, cutShort, timeouts, failing, down, server_vars>>

MayFinish_Always == TRUE

(* `if (!isRunning) return' *)
MayFinish == isRunning

CloseSocket_Forgotten(rs) == readyState' = rs /\ UNCHANGED failing

(* `if (ws) ws.close()' *)
CloseSocket(rs) ==
  LET mine == {s \in Sockets : s = ws /\ rs[s] \in {"CONNECTING", "OPEN"}}
  IN  /\ readyState' = [s \in Sockets |-> IF s \in mine THEN "CLOSING" ELSE rs[s]]
      /\ failing' = failing \union {s \in mine : rs[s] = "CONNECTING"}

(* finishTest in a handler that has left the sockets in states rs and the  *)
(* timeouts as to.                                                         *)
finishTest(rs, to) ==
  IF MayFinish
  THEN /\ isRunning' = FALSE /\ uiTimer' = FALSE
       /\ saved' = saved + 1
       /\ CloseSocket(rs)
       /\ ws' = Null
       /\ cutShort' = (cutShort \/ \E s \in Sockets : s = ws /\ to[s] # NoTimer)
  ELSE /\ readyState' = rs
       /\ UNCHANGED <<isRunning, uiTimer, saved, failing, ws, cutShort>>

Armed_Short == Duration - 1

(* The delay given to setTimeout. *)
Armed == Duration

onopen(s) ==
  /\ readyState[s] = "CONNECTING" /\ s \in conn
  /\ readyState' = [readyState EXCEPT ![s] = "OPEN"]
  /\ uiTimer' = TRUE
  /\ timeouts' = [timeouts EXCEPT ![s] = Armed]
  /\ elapsed' = 0
  /\ UNCHANGED <<tests, ws, isRunning, counted, saved, cutShort, failing,
                 down, server_vars>>

TimeoutEnds_Never == FALSE

(* `if (isRunning) finishTest()' *)
TimeoutEnds == isRunning

timeout(s) ==
  /\ timeouts[s] = 0
  /\ timeouts' = [timeouts EXCEPT ![s] = NoTimer]
  /\ IF TimeoutEnds THEN finishTest(readyState, timeouts')
     ELSE UNCHANGED <<isRunning, uiTimer, saved, readyState, failing, ws, cutShort>>
  /\ UNCHANGED <<tests, counted, elapsed, down, server_vars>>

(* The browser takes the next frame: data goes to onmessage if the socket  *)
(* is open, a close frame starts the closing handshake.                    *)
onmessage(s) ==
  /\ down[s] # <<>>
  /\ readyState[s] \in {"OPEN", "CLOSING"}
  /\ down' = [down EXCEPT ![s] = Tail(@)]
  /\ counted' = IF Head(down[s]) = "data" /\ readyState[s] = "OPEN" /\ isRunning
                THEN counted \union {s} ELSE counted
  /\ readyState' = IF Head(down[s]) = "close"
                   THEN [readyState EXCEPT ![s] = "CLOSING"] ELSE readyState
  /\ UNCHANGED <<tests, ws, isRunning, uiTimer, hist_vars, timeouts, failing,
                 server_vars>>

(* onerror and onclose both finish the test; the second finds it finished. *)
onclose(s) ==
  /\ finishTest([readyState EXCEPT ![s] = "CLOSED"], timeouts)
  /\ down' = [down EXCEPT ![s] = <<>>]
  /\ UNCHANGED <<tests, counted, timeouts, elapsed, server_vars>>

(* The attempt fails, the connection breaks, a closing handshake ends. *)
Refused(s) == readyState[s] = "CONNECTING" /\ onclose(s)
Broken(s)  == readyState[s] = "OPEN" /\ onclose(s)
Closed(s)  == readyState[s] = "CLOSING" /\ onclose(s)

-----------------------------------------------------------------------------
(* The server *)

Sent(s, frame) ==
  down' = IF Len(down[s]) < Capacity /\ readyState[s] # "CLOSED"
          THEN [down EXCEPT ![s] = Append(@, frame)] ELSE down

(* The upgrade of /ws/speedtest is served before the page hears of it, or  *)
(* after it has given up.                                                  *)
Upgrades(s) == readyState[s] # "none" /\ thread[s] = "none" /\ ~killed

CreateAndHandle(s) ==
  /\ Upgrades(s)
  /\ conn' = conn \union {s}
  /\ thread' = [thread EXCEPT ![s] = "sending"]
  /\ remaining' = [remaining EXCEPT ![s] = Duration]
  /\ UNCHANGED <<page_vars, hist_vars, timeouts, readyState, failing, down,
                 killed>>

(* The handshake response is not sent: no session and no thread, and the   *)
(* connection is closed.                                                   *)
HandshakeFails(s) ==
  /\ Upgrades(s)
  /\ thread' = [thread EXCEPT ![s] = "refused"]
  /\ UNCHANGED <<page_vars, hist_vars, timeouts, readyState, failing, down,
                 conn, remaining, killed>>

Reachable(s) == s \in conn /\ readyState[s] # "CLOSED"

(* Send fails with EAGAIN when frames are in the way; its own frame is     *)
(* queued all the same if there is room, the thread sends another one, and *)
(* does not look at the time.                                              *)
ServerSend(s) ==
  /\ thread[s] = "sending" /\ Reachable(s) /\ ~killed
  /\ Sent(s, "data")
  /\ \/ down[s] # <<>> /\ UNCHANGED thread
     \/ /\ Len(down[s]) < Capacity
        /\ thread' = IF remaining[s] = 0 THEN [thread EXCEPT ![s] = "ending"]
                     ELSE thread
  /\ UNCHANGED <<page_vars, hist_vars, timeouts, readyState, failing, conn,
                 remaining, killed>>

AfterError_Continue == "sending"

(* Any error but EAGAIN leaves the loop: ENOTCONN once the session has     *)
(* closed the connection, ECONNRESET or a time-out when the page is gone.  *)
AfterError == "ending"

ServerSendFails(s) ==
  /\ thread[s] = "sending" /\ ~Reachable(s) /\ ~killed
  /\ thread' = [thread EXCEPT ![s] = AfterError]
  /\ UNCHANGED <<page_vars, hist_vars, timeouts, readyState, failing, down,
                 conn, remaining, killed>>

(* send() without MSG_NOSIGNAL, and SIGPIPE is not ignored: a write to a   *)
(* page that is gone, handshake, data or close frame, may instead end the  *)
(* process, and all its connections with it.                               *)
ServerKilled(s) ==
  /\ readyState[s] = "CLOSED" /\ ~killed
  /\ Upgrades(s) \/ (s \in conn /\ thread[s] \in {"sending", "ending"})
  /\ killed' = TRUE /\ conn' = {}
  /\ UNCHANGED <<page_vars, hist_vars, timeouts, readyState, failing, down,
                 thread, remaining>>

(* The close frame; what Send returns is ignored. *)
ServerEnds(s) ==
  /\ thread[s] = "ending" /\ ~killed
  /\ thread' = [thread EXCEPT ![s] = "finished"]
  /\ IF Reachable(s) THEN Sent(s, "close") ELSE UNCHANGED down
  /\ UNCHANGED <<page_vars, hist_vars, timeouts, readyState, failing, conn,
                 remaining, killed>>

(* The session reads the page's close frame, answers it and closes the     *)
(* connection under the thread.                                            *)
ProcessFrames(s) ==
  /\ s \in conn /\ readyState[s] = "CLOSING" /\ s \notin failing
  /\ Sent(s, "close")
  /\ conn' = conn \ {s}
  /\ UNCHANGED <<page_vars, hist_vars, timeouts, readyState, failing, thread,
                 remaining, killed>>

-----------------------------------------------------------------------------
Earlier(t) == IF t > 0 THEN t - 1 ELSE t

Tick ==
  /\ timeouts' = [s \in Sockets |-> Earlier(timeouts[s])]
  /\ remaining' = [s \in Sockets |-> Earlier(remaining[s])]
  /\ elapsed' = IF elapsed < Duration THEN elapsed + 1 ELSE elapsed
  /\ UNCHANGED <<page_vars, saved, cutShort, readyState, failing, down, conn,
                 thread, killed>>

ServerThread(s) == ServerSend(s) \/ ServerSendFails(s) \/ ServerEnds(s)

Next ==
  \/ startTest \/ Tick
  \/ \E s \in Sockets :
       \/ onopen(s) \/ timeout(s) \/ onmessage(s)
       \/ Refused(s) \/ Broken(s) \/ Closed(s)
       \/ CreateAndHandle(s) \/ HandshakeFails(s) \/ ServerThread(s)
       \/ ServerKilled(s) \/ ProcessFrames(s)

(* Time passes, timeouts fire, threads run, and the browser ends every     *)
(* attempt to connect and every closing handshake.  No data has to arrive, *)
(* no close frame has to be sent or read, and no EAGAIN has to stop.       *)
Fairness ==
  /\ WF_vars(Tick)
  /\ \A s \in Sockets :
       /\ WF_vars(timeout(s)) /\ WF_vars(ServerThread(s))
       /\ WF_vars(onopen(s) \/ Refused(s)) /\ WF_vars(Closed(s))

Spec     == Init /\ [][Next]_vars
FairSpec == Spec /\ Fairness

-----------------------------------------------------------------------------
(* Properties *)

(* Every variable stays in its type. *)
TypeOK ==
  /\ tests \in 0 .. MaxTests /\ ws \in 0 .. MaxTests
  /\ isRunning \in BOOLEAN /\ uiTimer \in BOOLEAN /\ cutShort \in BOOLEAN
  /\ counted \subseteq Sockets
  /\ timeouts \in [Sockets -> NoTimer .. Duration]
  /\ saved \in Nat /\ elapsed \in 0 .. Duration
  /\ readyState \in [Sockets -> {"none", "CONNECTING", "OPEN", "CLOSING", "CLOSED"}]
  /\ failing \subseteq Sockets
  /\ down \in [Sockets -> Seq({"data", "close"})]
  /\ conn \subseteq Sockets
  /\ thread \in [Sockets -> {"none", "refused", "sending", "ending", "finished"}]
  /\ remaining \in [Sockets -> 0 .. Duration] /\ killed \in BOOLEAN

(* However many of timeout, close frame, error and close event arrive, in  *)
(* whatever order, and whichever test they belong to: each test posts      *)
(* exactly one record, when it ends.                                       *)
OneRecordPerTest == saved = tests - (IF isRunning THEN 1 ELSE 0)

(* A finished test leaves nothing behind that could touch the next one but *)
(* its timeout and its close event: its socket is closing, and the UI      *)
(* timer runs only during a test.                                          *)
OldSocketsAreClosing ==
  /\ ws = IF isRunning THEN tests ELSE Null
  /\ \A s \in 1 .. tests : s # ws => readyState[s] \in {"CLOSING", "CLOSED"}
  /\ uiTimer => isRunning

(* No byte of an earlier test is counted in a later one, although the      *)
(* server may still be sending the earlier one's data.                     *)
CountsOwnData == counted \subseteq {tests}

(* A timeout ends a test only after its full duration, unless a test has   *)
(* ended before its own timeout, which then stays armed and cuts the next  *)
(* one short.                                                              *)
FullDuration ==
  [][isRunning /\ ~isRunning' /\ timeouts' # timeouts /\ ~cutShort
       => elapsed = Duration]_vars

(* Every test ends, also when the server is stuck in EAGAIN, its close     *)
(* frame found no room or its process is gone: the page's own timeout, or  *)
(* the end of its attempt to connect, sees to it.                          *)
TestFinishes == isRunning ~> ~isRunning

(* No sending thread runs for ever, although one that keeps meeting EAGAIN *)
(* never looks at the time: the page closes the connection under it, and   *)
(* the thread ends, if not by itself then with the process.                *)
ServerThreadEnds ==
  \A s \in Sockets : thread[s] = "sending" ~> thread[s] = "finished" \/ killed

=============================================================================
