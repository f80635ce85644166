--------------------------- MODULE SpeedTestClient ---------------------------
(***************************************************************************)
(* The browser client examples/public/js/speedtest.js.                     *)
(*                                                                         *)
(* All state is global to the script and shared by the event handlers of   *)
(* every WebSocket it has ever created, by the intervals it has started    *)
(* and by the two buttons.  JavaScript runs one handler at a time: each    *)
(* action below is one whole handler, and the browser picks the order.     *)
(*                                                                         *)
(* The browser is external.  It delivers `open' only to a CONNECTING       *)
(* socket and messages only to an OPEN one; close() takes effect at once   *)
(* but the close event comes later; close() on a CONNECTING socket fails   *)
(* the connection, and a failed connection gets `error' and `close' in one *)
(* task; send() throws on a CONNECTING socket and is ignored on a CLOSING  *)
(* or CLOSED one; an interval fires at its time or late.  The server is    *)
(* any that answers pings in order.                                        *)
(*                                                                         *)
(* Sockets are numbered in the order of their creation, so that the global *)
(* `ws', always the newest, is the number of sockets created.  A binary    *)
(* message is one unit of totalBytes, and a point of the chart is the      *)
(* total it was computed from.  packetSeq, receivedSeq and lostCount are   *)
(* only ever set to 0 and are left out, and so are messages of other text, *)
(* which are logged.                                                       *)
(***************************************************************************)
EXTENDS Integers, Sequences, FiniteSets

CONSTANTS
  MaxSockets,  \* bound: how often startTest is called
  MaxBytes,    \* bound: binary messages of one test
  MaxTime,     \* bound: the last value of Date.now()
  Period,      \* the interval of the pings (1000 ms)
  Window       \* how many points the chart keeps (60)

ASSUME ClientAssumption ==
  /\ MaxSockets \in Nat /\ MaxBytes \in Nat /\ MaxTime \in Nat
  /\ Period \in Nat \ {0} /\ Window \in Nat \ {0}

Null    == 0
Sockets == 1 .. MaxSockets

VARIABLES
  ws,             \* the newest socket (Null before the first)
  isTesting, totalBytes, startTime, pingStart,
  speedData,      \* the points, oldest first
  chart,          \* chart.data: [labels: how many, data: the points]
  startDisabled, stopDisabled,   \* the buttons
  latency,        \* what the page shows
  readyState,     \* of every socket
  failing,        \* browser: sockets closed while CONNECTING
  intervals,      \* browser: when the interval of a socket's onopen is due
  pings,          \* per socket: when its unanswered pings were sent
  now,            \* Date.now()
  reports,        \* history: final reports since the last onopen
  failures,       \* history: error events since the last onopen
  pinged,         \* history: pings sent since the last onopen
  doubleStart     \* history: startTest has run while ws was CONNECTING

test_vars  == <<isTesting, totalBytes, startTime, speedData, chart>>
ui_vars    == <<startDisabled, stopDisabled>>
ping_vars  == <<pingStart, pings, pinged, latency>>
count_vars == <<reports, failures>>
vars == <<ws, test_vars, ui_vars, ping_vars, count_vars, readyState, failing,
          intervals, now, doubleStart>>

ReadyStates == {"none", "CONNECTING", "OPEN", "CLOSING", "CLOSED"}
Never       == 0   \* an interval that does not exist

(* The page that carries the buttons decides whether Stop starts enabled.  *)
Init ==
  /\ ws = Null /\ isTesting = FALSE
  /\ totalBytes = 0 /\ startTime = 0 /\ pingStart = 0 /\ latency = 0
  /\ speedData = <<>> /\ chart = [labels |-> 0, data |-> <<>>]
  /\ startDisabled = FALSE /\ stopDisabled \in BOOLEAN
  /\ readyState = [s \in Sockets |-> "none"] /\ failing = {}
  /\ intervals = [s \in Sockets |-> Never]
  /\ pings = [s \in Sockets |-> <<>>]
  /\ now = 1 /\ reports = 0 /\ failures = 0 /\ pinged = 0
  /\ doubleStart = FALSE

-----------------------------------------------------------------------------
(* WebSocket.close() on the newest socket of the states rs *)

AfterClose(rs) ==
  IF ws # Null /\ rs[ws] \in {"CONNECTING", "OPEN"}
  THEN [rs EXCEPT ![ws] = "CLOSING"]
  ELSE rs

NowFailing(rs) ==
  failing \union {s \in Sockets : s = ws /\ rs[s] = "CONNECTING"}

-----------------------------------------------------------------------------
(* The buttons *)

ClosesOld == ws # Null /\ readyState[ws] = "OPEN"

startTest ==
  /\ ~startDisabled
  /\ ws < MaxSockets
  /\ ws' = ws + 1
  /\ readyState' = [s \in Sockets |->
       IF s = ws + 1 THEN "CONNECTING"
       ELSE IF s = ws /\ ClosesOld THEN "CLOSING"
       ELSE readyState[s]]
  /\ doubleStart' = (doubleStart \/ (ws # Null /\ readyState[ws] = "CONNECTING"))
  /\ UNCHANGED <<test_vars, ui_vars, ping_vars, count_vars, failing,
                 intervals, now>>

StopsSocket_Forgotten(rs) == readyState' = rs /\ UNCHANGED failing

(* `if (ws) ws.close()' *)
StopsSocket(rs) == readyState' = AfterClose(rs) /\ failing' = NowFailing(rs)

(* stopTest, called in a handler that has left the sockets in states rs;   *)
(* it ends with the final report.                                          *)
stopTest(rs) ==
  /\ isTesting' = FALSE
  /\ StopsSocket(rs)
  /\ startDisabled' = FALSE /\ stopDisabled' = TRUE
  /\ reports' = reports + 1

stopClicked ==
  /\ ~stopDisabled
  /\ stopTest(readyState)
  /\ UNCHANGED <<ws, totalBytes, startTime, speedData, chart, ping_vars,
                 failures, intervals, now, doubleStart>>

-----------------------------------------------------------------------------
(* onopen *)

ResetChart_Forgotten == UNCHANGED <<speedData, chart>>

ResetChart == speedData' = <<>> /\ chart' = [labels |-> 0, data |-> <<>>]

(* Everything before the send is done even if the send, which goes to the  *)
(* newest socket and not to s, throws; the interval is then not created.   *)
onopen(s) ==
  /\ readyState[s] = "CONNECTING"
  /\ readyState' = [readyState EXCEPT ![s] = "OPEN"]
  /\ startDisabled' = TRUE /\ stopDisabled' = FALSE
  /\ isTesting' = TRUE /\ totalBytes' = 0 /\ startTime' = now
  /\ ResetChart
  /\ intervals' = IF readyState'[ws] = "CONNECTING" THEN intervals
                  ELSE [intervals EXCEPT ![s] = now + Period]
  /\ reports' = 0 /\ failures' = 0 /\ pinged' = 0
  /\ UNCHANGED <<ws, pingStart, pings, latency, failing, now, doubleStart>>

MarkPing_FirstOnly == pingStart' = IF pingStart = 0 THEN now ELSE pingStart

MarkPing == pingStart' = now

MayPing == isTesting /\ readyState[ws] = "OPEN"

(* The function given to setInterval; nothing ever clears an interval. *)
interval(s) ==
  /\ intervals[s] # Never /\ intervals[s] <= now
  /\ intervals' = [intervals EXCEPT ![s] = @ + Period]
  /\ IF MayPing
     THEN /\ MarkPing
          /\ pings' = [pings EXCEPT ![ws] = Append(@, now)]
          /\ pinged' = pinged + 1
     ELSE UNCHANGED <<pingStart, pings, pinged>>
  /\ UNCHANGED <<ws, test_vars, ui_vars, latency, count_vars, readyState,
                 failing, now, doubleStart>>

-----------------------------------------------------------------------------
(* onmessage *)

(* 'pong': the server answers the oldest ping of this socket. *)
pong(s) ==
  /\ readyState[s] = "OPEN"
  /\ pings[s] # <<>>
  /\ latency' = now - pingStart
  /\ pings' = [pings EXCEPT ![s] = Tail(@)]
  /\ UNCHANGED <<ws, test_vars, ui_vars, pingStart, pinged, count_vars,
                 readyState, failing, intervals, now, doubleStart>>

(* `if (speedData.length > 60) speedData.shift()' *)
Shifted(data) == IF Len(data) > Window THEN Tail(data) ELSE data

binary(s) ==
  /\ readyState[s] = "OPEN"
  /\ totalBytes < MaxBytes
  /\ totalBytes' = totalBytes + 1
  /\ speedData' = Shifted(Append(speedData, totalBytes'))
  /\ chart' = [labels |-> Len(speedData'), data |-> speedData']
  /\ UNCHANGED <<ws, isTesting, startTime, ui_vars, ping_vars, count_vars,
                 readyState, failing, intervals, now, doubleStart>>

-----------------------------------------------------------------------------
(* onerror and onclose *)

StopsOnClose_Always == TRUE
StopsOnClose_Never  == FALSE

(* `if (isTesting) stopTest()' *)
StopsOnClose == isTesting

(* The connection of s is over; after `error' has run stopTest, `close'    *)
(* finds isTesting false.                                                  *)
onclose(s, error) ==
  LET rs == [readyState EXCEPT ![s] = "CLOSED"]
  IN  /\ failures' = failures + (IF error THEN 1 ELSE 0)
      /\ IF error \/ StopsOnClose
         THEN stopTest(rs)
         ELSE /\ readyState' = rs
              /\ UNCHANGED <<isTesting, failing, ui_vars, reports>>
      /\ UNCHANGED <<ws, totalBytes, startTime, speedData, chart, ping_vars,
                     intervals, now, doubleStart>>

-----------------------------------------------------------------------------
(* The browser and the server *)

(* The server's close frame arrives: no event yet. *)
ServerCloses(s) ==
  /\ readyState[s] = "OPEN"
  /\ readyState' = [readyState EXCEPT ![s] = "CLOSING"]
  /\ UNCHANGED <<ws, test_vars, ui_vars, ping_vars, count_vars, failing,
                 intervals, now, doubleStart>>

(* A closing handshake ends. *)
Closed(s) ==
  readyState[s] = "CLOSING" /\ onclose(s, s \in failing)

(* The attempt to connect fails. *)
Refused(s) ==
  readyState[s] = "CONNECTING" /\ onclose(s, TRUE)

(* The connection breaks. *)
Broken(s) ==
  readyState[s] = "OPEN" /\ \E error \in BOOLEAN : onclose(s, error)

Tick ==
  /\ now < MaxTime
  /\ now' = now + 1
  /\ UNCHANGED <<ws, test_vars, ui_vars, ping_vars, count_vars, readyState,
                 failing, intervals, doubleStart>>

Next ==
  \/ startTest \/ stopClicked \/ Tick
  \/ \E s \in Sockets :
       \/ onopen(s) \/ interval(s) \/ pong(s) \/ binary(s)
       \/ ServerCloses(s) \/ Closed(s) \/ Refused(s) \/ Broken(s)

(* The browser lets every attempt to connect and every closing handshake   *)
(* come to an end; users, servers and the network owe nothing.             *)
Fairness ==
  \A s \in Sockets : WF_vars(Closed(s)) /\ WF_vars(onopen(s) \/ Refused(s))

Spec     == Init /\ [][Next]_vars
FairSpec == Spec /\ Fairness

-----------------------------------------------------------------------------
(* Properties *)

(* Every variable stays in its type. *)
TypeOK ==
  /\ ws \in 0 .. MaxSockets
  /\ isTesting \in BOOLEAN /\ startDisabled \in BOOLEAN /\ stopDisabled \in BOOLEAN
  /\ doubleStart \in BOOLEAN
  /\ totalBytes \in Nat /\ startTime \in Nat /\ pingStart \in Nat
  /\ now \in Nat /\ latency \in Int
  /\ reports \in Nat /\ failures \in Nat /\ pinged \in Nat
  /\ speedData \in Seq(Nat) /\ chart \in [labels : Nat, data : Seq(Nat)]
  /\ readyState \in [Sockets -> ReadyStates]
  /\ failing \subseteq Sockets
  /\ intervals \in [Sockets -> Nat]
  /\ pings \in [Sockets -> Seq(Nat)]

(* Whatever order clicks, late close events and failed attempts come in:   *)
(* while the newest socket is open a test is shown as running, so that     *)
(* Stop can be pressed and reaches it, and Start cannot be pressed over    *)
(* it.                                                                     *)
OpenSocketCanBeStopped ==
  ws # Null /\ readyState[ws] = "OPEN" =>
    isTesting /\ startDisabled /\ ~stopDisabled

(* The totals stopTest reports are final: no byte is added and no chart is *)
(* drawn between the final report and the next test, unless Start was ever *)
(* pressed while an attempt to connect was pending.  Nothing prevents      *)
(* that, and the older socket is then out of reach of stopTest.            *)
StoppedStaysStopped ==
  [][~isTesting /\ ~isTesting' /\ ~doubleStart
       => UNCHANGED <<totalBytes, speedData, chart>>]_vars

(* The events that follow a stop (close of the same socket, close of an    *)
(* older one) do not report again: since the last onopen there has been at *)
(* most one final report, besides one for every failed connection.         *)
OneReportPerTest == reports <= 1 + failures

(* pingStart is one variable for all sockets and intervals, yet a pong     *)
(* that answers the only outstanding ping of its socket shows the time     *)
(* since that very ping; with more outstanding it shows too little, never  *)
(* too much.                                                               *)
LatencyOfItsPing ==
  [][\A s \in Sockets :
       pings[s] # <<>> /\ pings'[s] = Tail(pings[s]) =>
         /\ latency' <= now - Head(pings[s])
         /\ Len(pings[s]) = 1 => latency' = now - Head(pings[s])]_vars

(* The chart shows the latest points of the running test, all of them up   *)
(* to the window, in order, each with its label.                           *)
ChartShowsTheTest ==
  LET n == IF totalBytes < Window THEN totalBytes ELSE Window
  IN  /\ speedData = [i \in 1 .. n |-> totalBytes - n + i]
      /\ chart = [labels |-> n, data |-> speedData]

AnyOpen == \E s \in Sockets : readyState[s] = "OPEN"

(* A test ends when its socket does, also when that is no longer the one   *)
(* in ws: a page that shows a running test while no socket is open does    *)
(* not do so for ever.                                                     *)
TestEnds == (isTesting /\ ~AnyOpen) ~> (~isTesting \/ AnyOpen)

(* The client gives its connections back without the help of the server:   *)
(* when no test runs, all sockets get closed or the next test opens one.   *)
StopReleases ==
  (~isTesting /\ ~doubleStart)
    ~> (isTesting \/ \A s \in Sockets : readyState[s] \in {"none", "CLOSED"})

(* speedtest.js:52 says a ping is sent once per second: in a running test, *)
(* no more pings than whole seconds since its start.  Start pressed during *)
(* a pending attempt, which leaves two sockets open, is set aside.         *)
OnePingPerSecond ==
  isTesting /\ ~doubleStart => pinged <= (now - startTime) \div Period

=============================================================================
