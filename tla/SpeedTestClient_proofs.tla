----------------------- MODULE SpeedTestClient_proofs ------------------------
(***************************************************************************)
(* Proofs about SpeedTestClient, for any number of tests, messages and     *)
(* seconds.                                                                *)
(***************************************************************************)
EXTENDS SpeedTestClient, SequenceTheorems, TLAPS

(* The sockets created are those up to ws. *)
CreatedInv ==
  \A s \in Sockets : readyState[s] = "none" <=> s > ws

(* The buttons show a running test as running. *)
ButtonsInv == isTesting => startDisabled /\ ~stopDisabled

(* Only a second Start during an attempt to connect leaves an older socket *)
(* that is not on its way out.                                             *)
OlderInv ==
  ~doubleStart =>
    \A s \in Sockets : s < ws => readyState[s] \in {"CLOSING", "CLOSED"}

(* While Stop can be pressed, the report of this test is still to come. *)
ReportInv == reports <= failures + (IF stopDisabled THEN 1 ELSE 0)

(* Unanswered pings are older than pingStart, the last one is pingStart,   *)
(* and an older socket that was pinged is on its way out.                  *)
PingInv ==
  /\ pingStart <= now
  /\ \A s \in Sockets : pings[s] # <<>> =>
       /\ s <= ws
       /\ readyState[s] # "CONNECTING"
       /\ s < ws => readyState[s] \in {"CLOSING", "CLOSED"}
       /\ s = ws => pings[s][Len(pings[s])] = pingStart
       /\ s = ws => \A i \in 1 .. Len(pings[s]) : pings[s][i] <= pingStart

SocketInv == CreatedInv /\ ButtonsInv /\ OpenSocketCanBeStopped /\ OlderInv

IInv == TypeOK /\ SocketInv /\ ReportInv /\ PingInv /\ ChartShowsTheTest

-----------------------------------------------------------------------------
(* The handlers that several actions share *)

(* stopTest closes the newest socket and touches no other. *)
LEMMA StopTestEffect ==
  ASSUME TypeOK, NEW rs \in [Sockets -> ReadyStates], stopTest(rs)
  PROVE  /\ readyState' \in [Sockets -> ReadyStates]
         /\ \A q \in Sockets : readyState'[q] =
              IF q = ws /\ rs[q] \in {"CONNECTING", "OPEN"} THEN "CLOSING" ELSE rs[q]
         /\ failing' \subseteq Sockets
         /\ isTesting' = FALSE /\ startDisabled' = FALSE /\ stopDisabled' = TRUE
         /\ reports' = reports + 1
<1>1. ws # Null => ws \in Sockets
  BY ClientAssumption DEF TypeOK, Null, Sockets
<1>2. readyState' = AfterClose(rs) /\ failing' = NowFailing(rs)
  BY DEF stopTest, StopsSocket
<1>3. ws = Null => \A q \in Sockets : q # ws
  BY ClientAssumption DEF Null, Sockets
<1>4. /\ readyState' \in [Sockets -> ReadyStates]
      /\ \A q \in Sockets : readyState'[q] =
           IF q = ws /\ rs[q] \in {"CONNECTING", "OPEN"} THEN "CLOSING" ELSE rs[q]
  BY <1>1, <1>2, <1>3 DEF AfterClose, ReadyStates
<1>5. failing' \subseteq Sockets
  BY <1>2 DEF NowFailing, TypeOK
<1> QED
  BY <1>4, <1>5 DEF stopTest

(* The end of a connection: its socket is CLOSED, the newest one closes    *)
(* with it if a test was running, and no test runs afterwards.             *)
LEMMA OnCloseEffect ==
  ASSUME TypeOK, NEW s \in Sockets, NEW error \in BOOLEAN, onclose(s, error)
  PROVE  /\ readyState' \in [Sockets -> ReadyStates]
         /\ readyState'[s] = "CLOSED"
         /\ \A q \in Sockets \ {s} :
              \/ readyState'[q] = readyState[q]
              \/ /\ q = ws /\ readyState[q] \in {"CONNECTING", "OPEN"}
                 /\ readyState'[q] = "CLOSING"
         /\ failing' \subseteq Sockets
         /\ isTesting' = FALSE
         /\ \/ /\ isTesting = FALSE /\ readyState' = [readyState EXCEPT ![s] = "CLOSED"]
               /\ UNCHANGED <<failing, startDisabled, stopDisabled, reports>>
               /\ failures' \in {failures, failures + 1}
            \/ /\ \A q \in Sockets : q = ws => readyState'[q] \notin {"CONNECTING", "OPEN"}
               /\ startDisabled' = FALSE /\ stopDisabled' = TRUE
               /\ reports' = reports + 1
               /\ \/ failures' = failures + 1
                  \/ failures' = failures /\ isTesting
<1> DEFINE rs == [readyState EXCEPT ![s] = "CLOSED"]
<1>1. rs \in [Sockets -> ReadyStates] /\ rs[s] = "CLOSED"
      /\ \A q \in Sockets \ {s} : rs[q] = readyState[q]
  BY DEF TypeOK, ReadyStates
<1>2. failures' = failures + (IF error THEN 1 ELSE 0)
  BY DEF onclose
<1>3. failures' \in {failures, failures + 1}
  BY <1>2 DEF TypeOK
<1>4. CASE error \/ isTesting
  <2>1. stopTest(rs)
    BY <1>4 DEF onclose, StopsOnClose
  <2> HIDE DEF rs
  <2>2. /\ readyState' \in [Sockets -> ReadyStates]
        /\ \A q \in Sockets : readyState'[q] =
              IF q = ws /\ rs[q] \in {"CONNECTING", "OPEN"} THEN "CLOSING" ELSE rs[q]
        /\ failing' \subseteq Sockets
        /\ isTesting' = FALSE /\ startDisabled' = FALSE /\ stopDisabled' = TRUE
        /\ reports' = reports + 1
    BY <1>1, <2>1, StopTestEffect
  <2>3. failures' = failures + 1 \/ (failures' = failures /\ isTesting)
    BY <1>2, <1>4 DEF TypeOK
  <2> QED
    BY <1>1, <2>2, <2>3
<1>5. CASE ~(error \/ isTesting)
  <2>1. /\ readyState' = rs
        /\ UNCHANGED <<isTesting, failing, startDisabled, stopDisabled, reports>>
    BY <1>5 DEF onclose, StopsOnClose, ui_vars
  <2>2. isTesting = FALSE /\ isTesting' = FALSE
    BY <1>5, <2>1 DEF TypeOK
  <2> QED
    BY <1>1, <1>3, <2>1, <2>2 DEF TypeOK
<1> QED
  BY <1>4, <1>5

(* Every end of a connection runs the close handler. *)
LEMMA EndIsOnClose ==
  ASSUME NEW s \in Sockets, Closed(s) \/ Refused(s) \/ Broken(s)
  PROVE  \E error \in BOOLEAN : onclose(s, error)
<1>1. CASE Closed(s)
  <2>1. (s \in failing) \in BOOLEAN
    OBVIOUS
  <2> QED
    BY Zenon, <1>1, <2>1 DEF Closed
<1>2. CASE Refused(s)
  BY Zenon, <1>2 DEF Refused
<1>3. CASE Broken(s)
  BY Zenon, <1>3 DEF Broken
<1> QED
  BY <1>1, <1>2, <1>3

-----------------------------------------------------------------------------
(* Type correctness *)

(* The chart's sequences stay sequences of totals. *)
LEMMA ShiftedType ==
  ASSUME NEW data \in Seq(Nat), data # <<>>
  PROVE  Shifted(data) \in Seq(Nat)
  BY HeadTailProperties DEF Shifted

(* The initial state is well typed. *)
LEMMA InitType == Init => TypeOK
<1> SUFFICES ASSUME Init PROVE TypeOK
  OBVIOUS
<1>1. <<>> \in Seq(Nat)
  OBVIOUS
<1>2. pings \in [Sockets -> Seq(Nat)]
  BY <1>1 DEF Init
<1>3. speedData \in Seq(Nat) /\ chart \in [labels : Nat, data : Seq(Nat)]
  BY <1>1 DEF Init
<1>4. readyState \in [Sockets -> ReadyStates] /\ intervals \in [Sockets -> Nat]
  BY DEF Init, ReadyStates, Never
<1>5. isTesting \in BOOLEAN /\ startDisabled \in BOOLEAN /\ stopDisabled \in BOOLEAN
      /\ doubleStart \in BOOLEAN /\ failing \subseteq Sockets
  BY Zenon DEF Init
<1>6. /\ ws \in 0 .. MaxSockets
      /\ totalBytes \in Nat /\ startTime \in Nat /\ pingStart \in Nat
      /\ now \in Nat /\ latency \in Int
      /\ reports \in Nat /\ failures \in Nat /\ pinged \in Nat
  BY ClientAssumption DEF Init, Null
<1> QED
  BY <1>2, <1>3, <1>4, <1>5, <1>6 DEF TypeOK

(* Every handler keeps every variable in its type. *)
LEMMA NextType == TypeOK /\ [Next]_vars => TypeOK'
<1> SUFFICES ASSUME TypeOK, [Next]_vars PROVE TypeOK'
  OBVIOUS
<1> USE ClientAssumption
<1>1. CASE startTest
  BY <1>1 DEF startTest, TypeOK, ReadyStates, Sockets, test_vars, ui_vars,
              ping_vars, count_vars
<1>2. CASE stopClicked
  <2>1. stopTest(readyState)
    BY <1>2 DEF stopClicked
  <2>2. readyState' \in [Sockets -> ReadyStates] /\ failing' \subseteq Sockets
        /\ isTesting' = FALSE /\ startDisabled' = FALSE /\ stopDisabled' = TRUE
        /\ reports' = reports + 1
    BY <2>1, StopTestEffect DEF TypeOK
  <2>3. UNCHANGED <<ws, totalBytes, startTime, speedData, chart, pingStart, pings,
                    pinged, latency, failures, intervals, now, doubleStart>>
    BY <1>2 DEF stopClicked, ping_vars
  <2>4. reports' \in Nat
    BY <2>2 DEF TypeOK
  <2>5. isTesting' \in BOOLEAN /\ startDisabled' \in BOOLEAN /\ stopDisabled' \in BOOLEAN
    BY Zenon, <2>2
  <2>6. readyState' \in [Sockets -> ReadyStates] /\ failing' \subseteq Sockets
    BY <2>2
  <2> QED
    BY Zenon, <2>3, <2>4, <2>5, <2>6 DEF TypeOK
<1>3. CASE Tick
  BY <1>3 DEF Tick, TypeOK, test_vars, ui_vars, ping_vars, count_vars
<1>4. ASSUME NEW s \in Sockets, onopen(s) PROVE TypeOK'
  <2>1. intervals' \in [Sockets -> Nat]
    BY <1>4 DEF onopen, TypeOK
  <2>2. <<>> \in Seq(Nat)
    OBVIOUS
  <2>3. speedData' \in Seq(Nat) /\ chart' \in [labels : Nat, data : Seq(Nat)]
    BY <1>4, <2>2 DEF onopen, ResetChart
  <2> QED
    BY <1>4, <2>1, <2>3 DEF onopen, TypeOK, ReadyStates
<1>5. ASSUME NEW s \in Sockets, interval(s) PROVE TypeOK'
  <2>1. intervals' \in [Sockets -> Nat]
    BY <1>5 DEF interval, TypeOK
  <2>2. CASE MayPing
    <3>1. pings' = [pings EXCEPT ![ws] = Append(@, now)] /\ pingStart' = now
          /\ pinged' = pinged + 1
      BY <1>5, <2>2 DEF interval, MarkPing
    <3>2. \A q \in Sockets : Append(pings[q], now) \in Seq(Nat)
      BY AppendProperties DEF TypeOK
    <3>3. pings' \in [Sockets -> Seq(Nat)]
      BY <3>1, <3>2 DEF TypeOK
    <3> QED
      BY <1>5, <2>1, <3>1, <3>3 DEF interval, TypeOK, test_vars, ui_vars, count_vars
  <2>3. CASE ~MayPing
    BY <1>5, <2>1, <2>3 DEF interval, TypeOK, test_vars, ui_vars, count_vars
  <2> QED
    BY <2>2, <2>3
<1>6. ASSUME NEW s \in Sockets, pong(s) PROVE TypeOK'
  <2>1. Tail(pings[s]) \in Seq(Nat)
    BY <1>6, HeadTailProperties DEF pong, TypeOK
  <2>2. pings' \in [Sockets -> Seq(Nat)] /\ latency' \in Int
    BY <1>6, <2>1 DEF pong, TypeOK
  <2> QED
    BY <1>6, <2>2 DEF pong, TypeOK, test_vars, ui_vars, count_vars
<1>7. ASSUME NEW s \in Sockets, binary(s) PROVE TypeOK'
  <2>1. totalBytes' \in Nat
    BY <1>7 DEF binary, TypeOK
  <2>2. Append(speedData, totalBytes') \in Seq(Nat)
        /\ Append(speedData, totalBytes') # <<>>
    <3>1. speedData \in Seq(Nat)
      BY DEF TypeOK
    <3>2. /\ Append(speedData, totalBytes') \in Seq(Nat)
          /\ Len(Append(speedData, totalBytes')) = Len(speedData) + 1
      BY <2>1, <3>1, AppendProperties
    <3> QED
      BY <3>1, <3>2, EmptySeq, LenProperties
  <2>3. speedData' \in Seq(Nat)
    BY <1>7, <2>2, ShiftedType DEF binary
  <2>4. chart' \in [labels : Nat, data : Seq(Nat)]
    BY <1>7, <2>3, LenProperties DEF binary
  <2> QED
    BY <1>7, <2>1, <2>3, <2>4 DEF binary, TypeOK, ui_vars, ping_vars, count_vars
<1>8. ASSUME NEW s \in Sockets, ServerCloses(s) PROVE TypeOK'
  BY <1>8 DEF ServerCloses, TypeOK, ReadyStates, test_vars, ui_vars, ping_vars,
              count_vars
<1>9. ASSUME NEW s \in Sockets, NEW error \in BOOLEAN, onclose(s, error)
      PROVE TypeOK'
  <2>1. /\ readyState' \in [Sockets -> ReadyStates] /\ failing' \subseteq Sockets
        /\ isTesting' = FALSE
    BY <1>9, OnCloseEffect
  <2>2. /\ startDisabled' \in BOOLEAN /\ stopDisabled' \in BOOLEAN
        /\ reports' \in Nat /\ failures' \in Nat
    <3>1. \/ /\ UNCHANGED <<startDisabled, stopDisabled, reports>>
             /\ failures' \in {failures, failures + 1}
          \/ /\ startDisabled' = FALSE /\ stopDisabled' = TRUE
             /\ reports' = reports + 1
             /\ failures' \in {failures, failures + 1}
      BY <1>9, OnCloseEffect
    <3>2. reports' \in {reports, reports + 1} /\ failures' \in {failures, failures + 1}
      BY <3>1
    <3>3. startDisabled' \in BOOLEAN /\ stopDisabled' \in BOOLEAN
      BY Zenon, <3>1 DEF TypeOK
    <3>4. reports' \in Nat /\ failures' \in Nat
      BY <3>2 DEF TypeOK
    <3> QED
      BY <3>3, <3>4
  <2>3. UNCHANGED <<ws, totalBytes, startTime, speedData, chart, pingStart, pings,
                    pinged, latency, intervals, now, doubleStart>>
    BY <1>9 DEF onclose, ping_vars
  <2> QED
    BY <2>1, <2>2, <2>3 DEF TypeOK
<1>10. CASE UNCHANGED vars
  BY <1>10 DEF vars, TypeOK, test_vars, ui_vars, ping_vars, count_vars
<1>11. ASSUME NEW s \in Sockets, Closed(s) \/ Refused(s) \/ Broken(s) PROVE TypeOK'
  BY <1>9, <1>11, EndIsOnClose
<1> QED
  BY <1>1, <1>2, <1>3, <1>4, <1>5, <1>6, <1>7, <1>8, <1>10, <1>11 DEF Next

-----------------------------------------------------------------------------
(* Sockets and buttons *)

(* All sockets are yet to be created. *)
LEMMA InitSocket == Init => SocketInv
<1> SUFFICES ASSUME Init PROVE SocketInv
  OBVIOUS
<1>1. CreatedInv
  BY ClientAssumption DEF Init, CreatedInv, Sockets, Null
<1>2. ButtonsInv
  BY Zenon DEF Init, ButtonsInv
<1>3. OpenSocketCanBeStopped
  BY DEF Init, OpenSocketCanBeStopped, Null
<1>4. OlderInv
  BY ClientAssumption DEF Init, OlderInv, Sockets, Null
<1> QED
  BY <1>1, <1>2, <1>3, <1>4 DEF SocketInv

(* A step that leaves the buttons alone, creates no socket and opens none. *)
LEMMA QuietSocket ==
  ASSUME TypeOK, SocketInv,
         UNCHANGED <<ws, isTesting, startDisabled, stopDisabled, doubleStart>>,
         \A q \in Sockets : \/ readyState'[q] = readyState[q]
                            \/ readyState[q] # "none" /\ readyState'[q] = "CLOSING"
  PROVE  SocketInv'
<1>1. CreatedInv'
  BY DEF SocketInv, CreatedInv
<1>2. ButtonsInv'
  BY Zenon DEF SocketInv, ButtonsInv
<1>3. OlderInv'
  BY DEF SocketInv, OlderInv
<1>4. OpenSocketCanBeStopped'
  <2>1. ws \in Sockets \/ ws = Null
    BY ClientAssumption DEF TypeOK, Sockets, Null
  <2>2. ws \in Sockets /\ readyState'[ws] = "OPEN" => readyState[ws] = "OPEN"
    OBVIOUS
  <2> QED
    BY <2>1, <2>2 DEF SocketInv, OpenSocketCanBeStopped
<1> QED
  BY <1>1, <1>2, <1>3, <1>4 DEF SocketInv

(* A step after which no test runs and the newest socket is not open. *)
LEMMA StoppedSocket ==
  ASSUME TypeOK, SocketInv, UNCHANGED <<ws, doubleStart>>,
         isTesting' = FALSE,
         \A q \in Sockets : q = ws => readyState'[q] # "OPEN",
         \A q \in Sockets : \/ readyState'[q] = readyState[q]
                            \/ /\ readyState[q] # "none"
                               /\ readyState'[q] \in {"CLOSING", "CLOSED"}
  PROVE  SocketInv'
<1>1. CreatedInv'
  BY DEF SocketInv, CreatedInv
<1>2. ButtonsInv'
  BY Zenon DEF ButtonsInv
<1>3. OlderInv'
  BY DEF SocketInv, OlderInv
<1>4. OpenSocketCanBeStopped'
  BY ClientAssumption DEF OpenSocketCanBeStopped, TypeOK, Sockets, Null
<1> QED
  BY <1>1, <1>2, <1>3, <1>4 DEF SocketInv

(* When no test runs the newest socket is not open. *)
LEMMA IdleIsClosed ==
  ASSUME SocketInv, isTesting = FALSE, NEW q \in Sockets, q = ws
  PROVE  readyState[q] # "OPEN"
  BY ClientAssumption DEF SocketInv, OpenSocketCanBeStopped, Sockets, Null

(* Start, pressed while no test runs, leaves its predecessor closing       *)
(* unless that was still connecting.                                       *)
LEMMA StartSocket == TypeOK /\ SocketInv /\ startTest => SocketInv'
<1> SUFFICES ASSUME TypeOK, SocketInv, startTest PROVE SocketInv'
  OBVIOUS
<1>1. /\ ws' = ws + 1 /\ ws \in Nat /\ ws' \in Sockets
      /\ \A q \in Sockets : readyState'[q] =
           IF q = ws + 1 THEN "CONNECTING"
           ELSE IF q = ws /\ ClosesOld THEN "CLOSING" ELSE readyState[q]
  BY ClientAssumption DEF startTest, TypeOK, Sockets
<1>2. CreatedInv'
  BY <1>1 DEF SocketInv, CreatedInv, Sockets
<1>3. ButtonsInv'
  BY Zenon DEF SocketInv, ButtonsInv, startTest, test_vars, ui_vars
<1>4. OpenSocketCanBeStopped'
  BY <1>1 DEF OpenSocketCanBeStopped
<1>5. OlderInv'
  <2> SUFFICES ASSUME ~doubleStart', NEW q \in Sockets, q < ws'
               PROVE  readyState'[q] \in {"CLOSING", "CLOSED"}
    BY DEF OlderInv
  <2>1. ~doubleStart /\ ~(ws # Null /\ readyState[ws] = "CONNECTING")
    BY DEF startTest
  <2>2. CASE q = ws
    <3>1. readyState[q] # "none" /\ q # Null
      BY <2>2, <1>1 DEF SocketInv, CreatedInv, Sockets, Null
    <3>2. readyState[q] \in {"OPEN", "CLOSING", "CLOSED"}
      BY <2>1, <2>2, <3>1 DEF TypeOK, ReadyStates
    <3> QED
      BY <1>1, <2>2, <3>1, <3>2 DEF ClosesOld, Sockets
  <2>3. CASE q # ws
    <3>1. q < ws
      BY <1>1, <2>3 DEF Sockets
    <3> QED
      BY <1>1, <2>1, <2>3, <3>1 DEF SocketInv, OlderInv, Sockets
  <2> QED
    BY <2>2, <2>3
<1> QED
  BY <1>2, <1>3, <1>4, <1>5 DEF SocketInv

(* onopen enables Stop, whichever socket it belongs to. *)
LEMMA OpenSocket ==
  ASSUME TypeOK, SocketInv, NEW s \in Sockets, onopen(s)
  PROVE  SocketInv'
<1>1. /\ readyState[s] = "CONNECTING" /\ UNCHANGED <<ws, doubleStart>>
      /\ \A q \in Sockets : readyState'[q] = IF q = s THEN "OPEN" ELSE readyState[q]
  BY DEF onopen, TypeOK
<1>2. isTesting' = TRUE /\ startDisabled' = TRUE /\ stopDisabled' = FALSE
  BY DEF onopen
<1>3. CreatedInv'
  BY <1>1 DEF SocketInv, CreatedInv
<1>4. ButtonsInv' /\ OpenSocketCanBeStopped'
  BY Zenon, <1>2 DEF ButtonsInv, OpenSocketCanBeStopped
<1>5. OlderInv'
  BY <1>1 DEF SocketInv, OlderInv
<1> QED
  BY <1>3, <1>4, <1>5 DEF SocketInv

(* Every handler preserves the invariant of sockets and buttons. *)
LEMMA NextSocket == TypeOK /\ SocketInv /\ [Next]_vars => SocketInv'
<1> SUFFICES ASSUME TypeOK, SocketInv, [Next]_vars PROVE SocketInv'
  OBVIOUS
<1>1. CASE startTest
  BY <1>1, StartSocket
<1>2. CASE stopClicked
  <2>1. stopTest(readyState) /\ UNCHANGED <<ws, doubleStart>>
    BY <1>2 DEF stopClicked
  <2>2. /\ isTesting' = FALSE
        /\ \A q \in Sockets : readyState'[q] =
             IF q = ws /\ readyState[q] \in {"CONNECTING", "OPEN"}
             THEN "CLOSING" ELSE readyState[q]
    BY <2>1, StopTestEffect DEF TypeOK
  <2> QED
    BY <2>1, <2>2, StoppedSocket
<1>3. ASSUME NEW s \in Sockets, ServerCloses(s) PROVE SocketInv'
  <2>1. \A q \in Sockets : \/ readyState'[q] = readyState[q]
                           \/ readyState[q] # "none" /\ readyState'[q] = "CLOSING"
    BY <1>3 DEF ServerCloses, TypeOK
  <2>2. UNCHANGED <<ws, isTesting, startDisabled, stopDisabled, doubleStart>>
    BY <1>3 DEF ServerCloses, test_vars, ui_vars
  <2> QED
    BY <2>1, <2>2, QuietSocket
<1>4. ASSUME NEW s \in Sockets, onopen(s) PROVE SocketInv'
  BY <1>4, OpenSocket
<1>5. ASSUME NEW s \in Sockets, Closed(s) \/ Refused(s) \/ Broken(s)
      PROVE SocketInv'
  <2>1. PICK error \in BOOLEAN : onclose(s, error)
    BY <1>5, EndIsOnClose
  <2>2. UNCHANGED <<ws, doubleStart>>
    BY <2>1 DEF onclose
  <2>3. readyState[s] # "none"
    BY <1>5 DEF Closed, Refused, Broken
  <2>4. /\ isTesting' = FALSE
        /\ readyState'[s] = "CLOSED"
        /\ \A q \in Sockets \ {s} :
             \/ readyState'[q] = readyState[q]
             \/ /\ q = ws /\ readyState[q] \in {"CONNECTING", "OPEN"}
                /\ readyState'[q] = "CLOSING"
    BY <2>1, OnCloseEffect
  <2>5. \A q \in Sockets : q = ws => readyState'[q] # "OPEN"
    <3>1. \/ isTesting = FALSE
          \/ \A q \in Sockets : q = ws => readyState'[q] \notin {"CONNECTING", "OPEN"}
      BY <2>1, OnCloseEffect
    <3>2. CASE isTesting = FALSE
      BY <3>2, <2>4, IdleIsClosed
    <3> QED
      BY <3>1, <3>2
  <2> QED
    BY <2>2, <2>3, <2>4, <2>5, StoppedSocket
<1>6. ASSUME UNCHANGED <<ws, isTesting, startDisabled, stopDisabled, doubleStart, readyState>>
      PROVE  SocketInv'
  BY <1>6, QuietSocket
<1>7. CASE Tick
  BY <1>6, <1>7 DEF Tick, test_vars, ui_vars
<1>8. ASSUME NEW s \in Sockets, interval(s) \/ pong(s) \/ binary(s) PROVE SocketInv'
  BY <1>6, <1>8 DEF interval, pong, binary, test_vars, ui_vars
<1>9. CASE UNCHANGED vars
  BY <1>6, <1>9 DEF vars, test_vars, ui_vars
<1> QED
  BY <1>1, <1>2, <1>3, <1>4, <1>5, <1>7, <1>8, <1>9 DEF Next

-----------------------------------------------------------------------------
(* Reports *)

(* A report is made at most once while Stop is enabled, and once for every *)
(* error.                                                                  *)
LEMMA NextReport ==
  TypeOK /\ SocketInv /\ ReportInv /\ [Next]_vars => ReportInv'
<1> SUFFICES ASSUME TypeOK, SocketInv, ReportInv, [Next]_vars PROVE ReportInv'
  OBVIOUS
<1>1. reports \in Nat /\ failures \in Nat
  BY DEF TypeOK
<1>2. ASSUME UNCHANGED <<reports, failures, stopDisabled>> PROVE ReportInv'
  BY <1>2 DEF ReportInv
<1>3. CASE startTest \/ Tick
  BY <1>2, <1>3 DEF startTest, Tick, ui_vars, count_vars
<1>4. CASE stopClicked
  <2>1. ~stopDisabled /\ reports' = reports + 1 /\ failures' = failures
        /\ stopDisabled' = TRUE
    BY <1>4 DEF stopClicked, stopTest
  <2> QED
    BY <1>1, <2>1 DEF ReportInv
<1>5. ASSUME NEW s \in Sockets, onopen(s) PROVE ReportInv'
  BY <1>5 DEF onopen, ReportInv
<1>6. ASSUME NEW s \in Sockets, \/ interval(s) \/ pong(s) \/ binary(s) \/ ServerCloses(s)
      PROVE ReportInv'
  BY <1>2, <1>6 DEF interval, pong, binary, ServerCloses, ui_vars, count_vars
<1>7. ASSUME NEW s \in Sockets, Closed(s) \/ Refused(s) \/ Broken(s)
      PROVE ReportInv'
  <2>1. PICK error \in BOOLEAN : onclose(s, error)
    BY <1>7, EndIsOnClose
  <2>2. \/ /\ UNCHANGED <<stopDisabled, reports>>
           /\ failures' \in {failures, failures + 1}
        \/ /\ stopDisabled' = TRUE /\ reports' = reports + 1
           /\ \/ failures' = failures + 1
              \/ failures' = failures /\ isTesting
    BY <2>1, OnCloseEffect
  <2>3. isTesting => ~stopDisabled
    BY Zenon DEF SocketInv, ButtonsInv
  <2> QED
    BY <1>1, <2>2, <2>3 DEF ReportInv
<1>8. CASE UNCHANGED vars
  BY <1>2, <1>8 DEF vars, ui_vars, count_vars
<1> QED
  BY <1>3, <1>4, <1>5, <1>6, <1>7, <1>8 DEF Next

-----------------------------------------------------------------------------
(* The chart *)

(* The points a chart of this total shows, and how many they are. *)
Shown(total)  == IF total < Window THEN total ELSE Window
Points(total) == [i \in 1 .. Shown(total) |-> total - Shown(total) + i]

(* The points shown are a sequence. *)
LEMMA PointsType ==
  ASSUME NEW total \in Nat
  PROVE  /\ Shown(total) \in Nat
         /\ Points(total) \in Seq(Nat) /\ Len(Points(total)) = Shown(total)
         /\ \A i \in 1 .. Shown(total) : Points(total)[i] = total - Shown(total) + i
<1>1. Shown(total) \in Nat /\ Shown(total) <= total
  BY ClientAssumption DEF Shown
<1> HIDE DEF Shown
<1>2. Points(total) \in [1 .. Shown(total) -> Nat]
  BY <1>1 DEF Points
<1> QED
  BY <1>1, <1>2, LenProperties, IsASeq DEF Points

(* One more point, and perhaps one less: the window of the new total. *)
LEMMA NextWindow ==
  ASSUME NEW total \in Nat
  PROVE  Shifted(Append(Points(total), total + 1)) = Points(total + 1)
<1> DEFINE n == Shown(total)
           m == Shown(total + 1)
           longer == Append(Points(total), total + 1)
           wanted == Points(total + 1)
<1>1. /\ n \in Nat /\ Points(total) \in Seq(Nat) /\ Len(Points(total)) = n
      /\ \A i \in 1 .. n : Points(total)[i] = total - n + i
  BY PointsType
<1>2. /\ m \in Nat /\ wanted \in Seq(Nat) /\ Len(wanted) = m
      /\ \A i \in 1 .. m : wanted[i] = total + 1 - m + i
  BY PointsType, total + 1 \in Nat
<1>3. /\ longer \in Seq(Nat) /\ Len(longer) = n + 1
      /\ \A i \in 1 .. n : longer[i] = Points(total)[i]
      /\ longer[n + 1] = total + 1
  BY <1>1, total + 1 \in Nat, AppendProperties
<1>4. CASE total < Window
  <2>1. n = total /\ m = total + 1
    BY <1>4, ClientAssumption DEF Shown
  <2>2. Shifted(longer) = longer
    BY <1>3, <1>4, <2>1, ClientAssumption DEF Shifted
  <2> HIDE DEF n, m, longer, wanted
  <2>3. \A i \in 1 .. m : longer[i] = wanted[i]
    <3> SUFFICES ASSUME NEW i \in 1 .. m PROVE longer[i] = wanted[i]
      OBVIOUS
    <3>1. wanted[i] = i
      BY <1>2, <2>1
    <3>2. CASE i = m
      BY <1>3, <2>1, <3>1, <3>2
    <3>3. CASE i # m
      BY <1>1, <1>3, <2>1, <3>1, <3>3
    <3> QED
      BY <3>2, <3>3
  <2>4. Len(longer) = m
    BY <1>3, <2>1
  <2>5. longer = wanted
    BY <1>2, <1>3, <2>3, <2>4, SeqEqual
  <2> QED
    BY <2>2, <2>5 DEF longer, wanted
<1>5. CASE ~(total < Window)
  <2>1. n = Window /\ m = Window
    BY <1>5, ClientAssumption DEF Shown
  <2>2. Shifted(longer) = Tail(longer)
    BY <1>3, <2>1, ClientAssumption DEF Shifted
  <2> HIDE DEF n, m, longer, wanted
  <2>3. longer # <<>>
    BY <1>1, <1>3, EmptySeq
  <2>4. /\ Tail(longer) \in Seq(Nat) /\ Len(Tail(longer)) = m
        /\ \A i \in 1 .. m : Tail(longer)[i] = longer[i + 1]
    BY <1>1, <1>3, <2>1, <2>3, HeadTailProperties
  <2>5. \A i \in 1 .. m : Tail(longer)[i] = wanted[i]
    <3> SUFFICES ASSUME NEW i \in 1 .. m PROVE longer[i + 1] = wanted[i]
      BY <2>4
    <3>1. wanted[i] = total - m + (i + 1)
      BY <1>2
    <3>2. CASE i = m
      BY <1>3, <2>1, <3>1, <3>2, <1>2
    <3>3. CASE i # m
      <4>1. i + 1 \in 1 .. n
        BY <2>1, <3>3, <1>2
      <4> QED
        BY <1>1, <1>3, <2>1, <3>1, <4>1
    <3> QED
      BY <3>2, <3>3
  <2>6. Tail(longer) = wanted
    BY <1>2, <2>4, <2>5, SeqEqual
  <2> QED
    BY <2>2, <2>6 DEF longer, wanted
<1> QED
  BY <1>4, <1>5

(* The window of no point is empty. *)
LEMMA NoPoints == Points(0) = <<>> /\ Shown(0) = 0
<1>1. Shown(0) = 0
  BY ClientAssumption DEF Shown
<1> QED
  BY <1>1, EmptySeq DEF Points

(* Every handler leaves the chart alone, resets it, or adds a point. *)
LEMMA NextChart == TypeOK /\ ChartShowsTheTest /\ [Next]_vars => ChartShowsTheTest'
<1> SUFFICES ASSUME TypeOK, ChartShowsTheTest, [Next]_vars PROVE ChartShowsTheTest'
  OBVIOUS
<1>1. ASSUME UNCHANGED <<totalBytes, speedData, chart>> PROVE ChartShowsTheTest'
  BY <1>1 DEF ChartShowsTheTest
<1>2. CASE startTest \/ Tick \/ stopClicked
  BY <1>1, <1>2 DEF startTest, Tick, stopClicked, test_vars
<1>3. ASSUME NEW s \in Sockets, onopen(s) PROVE ChartShowsTheTest'
  <2>1. totalBytes' = 0 /\ speedData' = <<>> /\ chart' = [labels |-> 0, data |-> <<>>]
    BY <1>3 DEF onopen, ResetChart
  <2>2. /\ speedData' = Points(totalBytes')
        /\ chart' = [labels |-> Shown(totalBytes'), data |-> speedData']
    BY <2>1, NoPoints
  <2> QED
    BY Zenon, <2>2 DEF ChartShowsTheTest, Points, Shown
<1>4. ASSUME NEW s \in Sockets, binary(s) PROVE ChartShowsTheTest'
  <2>1. speedData = Points(totalBytes)
    BY Zenon DEF ChartShowsTheTest, Points, Shown
  <2>2. /\ totalBytes' = totalBytes + 1
        /\ speedData' = Shifted(Append(speedData, totalBytes'))
        /\ chart' = [labels |-> Len(speedData'), data |-> speedData']
    BY <1>4 DEF binary
  <2>3. speedData' = Points(totalBytes')
    BY <2>1, <2>2, NextWindow DEF TypeOK
  <2>4. Len(speedData') = Shown(totalBytes')
    BY <2>2, <2>3, PointsType DEF TypeOK
  <2>5. chart' = [labels |-> Shown(totalBytes'), data |-> speedData']
    BY <2>2, <2>4
  <2> QED
    BY Zenon, <2>3, <2>5 DEF ChartShowsTheTest, Points, Shown
<1>5. ASSUME NEW s \in Sockets, interval(s) \/ pong(s) \/ ServerCloses(s)
      PROVE  ChartShowsTheTest'
  BY <1>1, <1>5 DEF interval, pong, ServerCloses, test_vars
<1>6. ASSUME NEW s \in Sockets, Closed(s) \/ Refused(s) \/ Broken(s)
      PROVE  ChartShowsTheTest'
  <2>1. PICK error \in BOOLEAN : onclose(s, error)
    BY <1>6, EndIsOnClose
  <2> QED
    BY <1>1, <2>1 DEF onclose
<1>7. CASE UNCHANGED vars
  BY <1>1, <1>7 DEF vars, test_vars
<1> QED
  BY <1>2, <1>3, <1>4, <1>5, <1>6, <1>7 DEF Next

-----------------------------------------------------------------------------
(* Pings *)

(* A step that sends and answers no ping, and opens no pinged socket. *)
LEMMA QuietPing ==
  ASSUME TypeOK, PingInv, UNCHANGED <<ws, pingStart, pings>>, now' >= now, now' \in Nat,
         \A q \in Sockets : \/ readyState'[q] = readyState[q]
                            \/ readyState'[q] \in {"CLOSING", "CLOSED"}
                            \/ readyState[q] = "CONNECTING"
  PROVE  PingInv'
<1>1. pingStart' <= now'
  BY DEF TypeOK, PingInv
<1> QED
  BY <1>1 DEF PingInv

(* One ping more or less, to the newest socket. *)
LEMMA NewestPing ==
  ASSUME TypeOK, PingInv, ws \in Sockets, UNCHANGED <<ws, now, readyState>>,
         \A q \in Sockets : q # ws => pings'[q] = pings[q],
         pingStart' <= now,
         readyState[ws] = "OPEN",
         pings'[ws] # <<>> => pings'[ws][Len(pings'[ws])] = pingStart',
         \A i \in 1 .. Len(pings'[ws]) : pings'[ws][i] <= pingStart'
  PROVE  PingInv'
  BY DEF PingInv, Sockets

(* A pong goes to the newest socket. *)
LEMMA PongIsNewest ==
  ASSUME TypeOK, PingInv, NEW s \in Sockets, pong(s)
  PROVE  s = ws
<1>1. pings[s] # <<>> /\ readyState[s] = "OPEN"
  BY DEF pong
<1>2. s <= ws /\ ~(s < ws)
  BY <1>1 DEF PingInv
<1>3. s \in Int /\ ws \in Int
  BY ClientAssumption DEF TypeOK, Sockets
<1> QED
  BY <1>2, <1>3

(* Every handler preserves the invariant of the pings. *)
LEMMA NextPing == TypeOK /\ SocketInv /\ PingInv /\ [Next]_vars => PingInv'
<1> SUFFICES ASSUME TypeOK, SocketInv, PingInv, [Next]_vars PROVE PingInv'
  OBVIOUS
<1>1. now \in Nat /\ now <= now
  BY DEF TypeOK
<1>2. CASE startTest
  <2>1. /\ ws' = ws + 1 /\ ws \in Nat
        /\ \A q \in Sockets : readyState'[q] =
             IF q = ws + 1 THEN "CONNECTING"
             ELSE IF q = ws /\ ClosesOld THEN "CLOSING" ELSE readyState[q]
    BY <1>2, ClientAssumption DEF startTest, TypeOK, Sockets
  <2>2. UNCHANGED <<pingStart, pings, now>> /\ ~startDisabled
    BY <1>2 DEF startTest, ping_vars
  <2>3. ASSUME NEW q \in Sockets, pings[q] # <<>>
        PROVE  q < ws' /\ readyState'[q] \in {"CLOSING", "CLOSED"}
    <3>1. q <= ws /\ readyState[q] # "CONNECTING" /\ readyState[q] # "none"
      BY <2>1, <2>3 DEF PingInv, SocketInv, CreatedInv, Sockets
    <3>2. CASE q = ws
      <4>1. readyState[q] \in {"CLOSING", "CLOSED"} \/ readyState[q] = "OPEN"
        BY <3>1 DEF TypeOK, ReadyStates
      <4> QED
        BY <2>1, <3>1, <3>2, <4>1 DEF ClosesOld, Sockets, Null
    <3>3. CASE q # ws
      BY <2>1, <2>3, <3>1, <3>3 DEF PingInv, Sockets
    <3> QED
      BY <3>2, <3>3
  <2>4. pingStart' <= now'
    BY <2>2 DEF PingInv
  <2>5. \A q \in Sockets : pings'[q] # <<>> =>
          q \in Int /\ ws' \in Int /\ q < ws' /\ readyState'[q] \in {"CLOSING", "CLOSED"}
    BY <2>1, <2>2, <2>3 DEF Sockets
  <2> QED
    BY <2>4, <2>5 DEF PingInv
<1>3. CASE stopClicked
  <2>1. stopTest(readyState) /\ UNCHANGED <<ws, pingStart, pings, now>>
    BY <1>3 DEF stopClicked, ping_vars
  <2>2. \A q \in Sockets : readyState'[q] =
          IF q = ws /\ readyState[q] \in {"CONNECTING", "OPEN"}
          THEN "CLOSING" ELSE readyState[q]
    BY <2>1, StopTestEffect DEF TypeOK
  <2> QED
    BY <1>1, <2>1, <2>2, QuietPing
<1>4. CASE Tick
  <2>1. now' \in Nat /\ now' >= now
    BY <1>1, <1>4 DEF Tick
  <2>2. UNCHANGED <<ws, pingStart, pings, readyState>>
    BY <1>4 DEF Tick, ping_vars
  <2> QED
    BY <2>1, <2>2, QuietPing
<1>5. ASSUME NEW s \in Sockets, onopen(s) PROVE PingInv'
  <2>1. UNCHANGED <<ws, pingStart, pings, now>>
    BY <1>5 DEF onopen
  <2>2. \A q \in Sockets : readyState'[q] = readyState[q] \/ readyState[q] = "CONNECTING"
    BY <1>5 DEF onopen, TypeOK
  <2> QED
    BY <1>1, <2>1, <2>2, QuietPing
<1>6. ASSUME NEW s \in Sockets, interval(s) PROVE PingInv'
  <2>1. UNCHANGED <<ws, now, readyState>>
    BY <1>6 DEF interval
  <2>2. CASE MayPing
    <3>1. /\ readyState[ws] = "OPEN" /\ pingStart' = now
          /\ pings' = [pings EXCEPT ![ws] = Append(@, now)]
      BY <1>6, <2>2 DEF interval, MayPing, MarkPing
    <3>2. CASE ws \in Sockets
      <4>1. /\ pings[ws] \in Seq(Nat) /\ pings'[ws] = Append(pings[ws], now)
            /\ \A q \in Sockets : q # ws => pings'[q] = pings[q]
        BY <3>1, <3>2 DEF TypeOK
      <4>2. /\ Len(pings'[ws]) = Len(pings[ws]) + 1 /\ Len(pings[ws]) \in Nat
            /\ \A i \in 1 .. Len(pings[ws]) : pings'[ws][i] = pings[ws][i]
            /\ pings'[ws][Len(pings[ws]) + 1] = now
        BY <1>1, <4>1, AppendProperties, LenProperties
      <4>3. \A i \in 1 .. Len(pings[ws]) : pings[ws][i] <= now
        <5>1. \A i \in 1 .. Len(pings[ws]) : pings[ws][i] <= pingStart /\ pings[ws][i] \in Nat
          BY <3>2, <4>1, LenProperties DEF PingInv
        <5>2. pingStart <= now /\ pingStart \in Nat
          BY DEF PingInv, TypeOK
        <5> QED
          BY <1>1, <5>1, <5>2
      <4>4. pings'[ws][Len(pings'[ws])] = pingStart'
        BY <3>1, <4>2
      <4>5. \A i \in 1 .. Len(pings'[ws]) : pings'[ws][i] <= pingStart'
        <5> SUFFICES ASSUME NEW i \in 1 .. Len(pings[ws]) + 1
                     PROVE  pings'[ws][i] <= now
          BY <3>1, <4>2
        <5>1. CASE i = Len(pings[ws]) + 1
          BY <1>1, <4>2, <5>1
        <5>2. CASE i # Len(pings[ws]) + 1
          BY <4>2, <4>3, <5>2
        <5> QED
          BY <5>1, <5>2
      <4> QED
        BY <1>1, <2>1, <3>1, <3>2, <4>1, <4>4, <4>5, NewestPing
    <3>3. CASE ws \notin Sockets
      <4>1. pings' = pings
        BY <3>1, <3>3 DEF TypeOK
      <4>2. \A q \in Sockets : q > ws
        BY <3>3, ClientAssumption DEF TypeOK, Sockets
      <4>3. ws \in Nat
        BY DEF TypeOK
      <4>4. \A q \in Sockets : pings[q] = <<>>
        BY <4>2, <4>3 DEF PingInv, Sockets
      <4> QED
        BY <1>1, <2>1, <3>1, <4>1, <4>4 DEF PingInv
    <3> QED
      BY <3>2, <3>3
  <2>3. CASE ~MayPing
    <3>1. UNCHANGED <<pingStart, pings>>
      BY <1>6, <2>3 DEF interval
    <3> QED
      BY <1>1, <2>1, <3>1, QuietPing
  <2> QED
    BY <2>2, <2>3
<1>7. ASSUME NEW s \in Sockets, pong(s) PROVE PingInv'
  <2>1. s = ws
    BY <1>7, PongIsNewest
  <2>2. /\ pings[s] \in Seq(Nat) /\ pings[s] # <<>> /\ readyState[s] = "OPEN"
        /\ pings'[s] = Tail(pings[s])
        /\ \A q \in Sockets : q # s => pings'[q] = pings[q]
        /\ UNCHANGED <<ws, now, readyState, pingStart>>
    BY <1>7 DEF pong, TypeOK
  <2>3. /\ Len(pings'[s]) = Len(pings[s]) - 1 /\ Len(pings[s]) \in Nat
        /\ \A i \in 1 .. Len(pings'[s]) : pings'[s][i] = pings[s][i + 1]
        /\ pings'[s] \in Seq(Nat)
    BY <2>2, HeadTailProperties, LenProperties
  <2>4. /\ pings[s][Len(pings[s])] = pingStart
        /\ \A i \in 1 .. Len(pings[s]) : pings[s][i] <= pingStart
    BY <2>1, <2>2 DEF PingInv
  <2>5. pings'[s] # <<>> => pings'[s][Len(pings'[s])] = pingStart
    <3> SUFFICES ASSUME pings'[s] # <<>> PROVE pings'[s][Len(pings'[s])] = pingStart
      OBVIOUS
    <3>1. Len(pings'[s]) \in Nat \ {0}
      BY <2>3, EmptySeq
    <3>2. Len(pings'[s]) \in 1 .. Len(pings'[s]) /\ Len(pings'[s]) + 1 = Len(pings[s])
      BY <2>3, <3>1
    <3> QED
      BY <2>3, <2>4, <3>2
  <2>6. \A i \in 1 .. Len(pings'[s]) : pings'[s][i] <= pingStart
    <3> SUFFICES ASSUME NEW i \in 1 .. Len(pings'[s]) PROVE pings'[s][i] <= pingStart
      OBVIOUS
    <3>1. i + 1 \in 1 .. Len(pings[s])
      BY <2>3
    <3> QED
      BY <2>3, <2>4, <3>1
  <2>7. pingStart' <= now
    BY <2>2 DEF PingInv
  <2> QED
    BY <2>1, <2>2, <2>5, <2>6, <2>7, NewestPing
<1>8. ASSUME NEW s \in Sockets, binary(s) PROVE PingInv'
  <2>1. UNCHANGED <<ws, pingStart, pings, now, readyState>>
    BY <1>8 DEF binary, ping_vars
  <2> QED
    BY <1>1, <2>1, QuietPing
<1>9. ASSUME NEW s \in Sockets, ServerCloses(s) PROVE PingInv'
  <2>1. UNCHANGED <<ws, pingStart, pings, now>>
    BY <1>9 DEF ServerCloses, ping_vars
  <2>2. \A q \in Sockets : readyState'[q] \in {readyState[q], "CLOSING"}
    BY <1>9 DEF ServerCloses, TypeOK
  <2> QED
    BY <1>1, <2>1, <2>2, QuietPing
<1>10. ASSUME NEW s \in Sockets, Closed(s) \/ Refused(s) \/ Broken(s) PROVE PingInv'
  <2>1. PICK error \in BOOLEAN : onclose(s, error)
    BY <1>10, EndIsOnClose
  <2>2. UNCHANGED <<ws, pingStart, pings, now>>
    BY <2>1 DEF onclose, ping_vars
  <2>3. \A q \in Sockets : \/ readyState'[q] = readyState[q]
                           \/ readyState'[q] \in {"CLOSING", "CLOSED"}
    BY <2>1, OnCloseEffect
  <2> QED
    BY <1>1, <2>2, <2>3, QuietPing
<1>11. CASE UNCHANGED vars
  <2>1. UNCHANGED <<ws, pingStart, pings, now, readyState>>
    BY <1>11 DEF vars, ping_vars
  <2> QED
    BY <1>1, <2>1, QuietPing
<1> QED
  BY <1>2, <1>3, <1>4, <1>5, <1>6, <1>7, <1>8, <1>9, <1>10, <1>11 DEF Next

-----------------------------------------------------------------------------
(* The theorems *)

(* The initial state is in the invariant. *)
LEMMA InitInv == Init => IInv
<1> SUFFICES ASSUME Init PROVE IInv
  OBVIOUS
<1>1. TypeOK /\ SocketInv
  BY InitType, InitSocket
<1>2. ReportInv
  BY DEF Init, ReportInv
<1>3. PingInv
  BY DEF Init, PingInv
<1>4. ChartShowsTheTest
  <2>1. /\ speedData = Points(totalBytes)
        /\ chart = [labels |-> Shown(totalBytes), data |-> speedData]
    BY NoPoints DEF Init
  <2> QED
    BY Zenon, <2>1 DEF ChartShowsTheTest, Points, Shown
<1> QED
  BY <1>1, <1>2, <1>3, <1>4 DEF IInv

(* The invariant is inductive. *)
LEMMA NextInv == IInv /\ [Next]_vars => IInv'
  BY NextType, NextSocket, NextReport, NextPing, NextChart DEF IInv

(* The invariant holds in all reachable states. *)
THEOREM Invariant == Spec => []IInv
<1>1. Init => IInv
  BY InitInv
<1>2. IInv /\ [Next]_vars => IInv'
  BY NextInv
<1> QED
  BY <1>1, <1>2, PTL DEF Spec

(* Every handler of speedtest.js keeps the script's variables in their     *)
(* types.                                                                  *)
THEOREM TypeCorrect == Spec => []TypeOK
<1>1. IInv => TypeOK
  BY DEF IInv
<1> QED
  BY <1>1, Invariant, PTL

(* However often the buttons are pressed and whichever events arrive late, *)
(* an open newest socket is shown as a running test that Stop can end.     *)
THEOREM Stoppable == Spec => []OpenSocketCanBeStopped
<1>1. IInv => OpenSocketCanBeStopped
  BY DEF IInv, SocketInv
<1> QED
  BY <1>1, Invariant, PTL

(* No event handler reports a test a second time, except for errors.       *)
THEOREM ReportedOnce == Spec => []OneReportPerTest
<1>1. IInv => OneReportPerTest
  BY DEF IInv, ReportInv, OneReportPerTest, TypeOK
<1> QED
  BY <1>1, Invariant, PTL

(* For every size of the window, the chart shows the latest points of the  *)
(* running test.                                                           *)
THEOREM ChartIsCurrent == Spec => []ChartShowsTheTest
<1>1. IInv => ChartShowsTheTest
  BY DEF IInv
<1> QED
  BY <1>1, Invariant, PTL

(* With no test running, and no Start ever pressed during an attempt to    *)
(* connect, no socket is open.                                             *)
LEMMA IdleAllClosed ==
  ASSUME IInv, ~isTesting, ~doubleStart, NEW s \in Sockets
  PROVE  readyState[s] # "OPEN"
<1>1. s \in Int /\ ws \in Int
  BY ClientAssumption DEF IInv, TypeOK, Sockets
<1>2. CASE s < ws
  BY <1>2 DEF IInv, SocketInv, OlderInv
<1>3. CASE s = ws
  <2>1. isTesting = FALSE
    BY DEF IInv, TypeOK
  <2> QED
    BY <1>3, <2>1, IdleIsClosed DEF IInv
<1>4. CASE s > ws
  BY <1>4 DEF IInv, SocketInv, CreatedInv
<1> QED
  BY <1>1, <1>2, <1>3, <1>4

(* What stopTest reports is final: nothing is counted or drawn between two *)
(* tests.                                                                  *)
THEOREM Final == Spec => StoppedStaysStopped
<1> DEFINE Step == ~isTesting /\ ~isTesting' /\ ~doubleStart
                     => UNCHANGED <<totalBytes, speedData, chart>>
<1>1. IInv /\ [Next]_vars => [Step]_vars
  <2> SUFFICES ASSUME IInv, Next, ~isTesting, ~isTesting', ~doubleStart
               PROVE  UNCHANGED <<totalBytes, speedData, chart>>
    OBVIOUS
  <2>1. CASE startTest \/ stopClicked \/ Tick
    BY <2>1 DEF startTest, stopClicked, Tick, test_vars
  <2>2. ASSUME NEW s \in Sockets, onopen(s) PROVE FALSE
    BY <2>2 DEF onopen
  <2>3. ASSUME NEW s \in Sockets, binary(s) PROVE FALSE
    BY <2>3, IdleAllClosed DEF binary
  <2>4. ASSUME NEW s \in Sockets, interval(s) \/ pong(s) \/ ServerCloses(s)
        PROVE  UNCHANGED <<totalBytes, speedData, chart>>
    BY <2>4 DEF interval, pong, ServerCloses, test_vars
  <2>5. ASSUME NEW s \in Sockets, Closed(s) \/ Refused(s) \/ Broken(s)
        PROVE  UNCHANGED <<totalBytes, speedData, chart>>
    <3>1. PICK error \in BOOLEAN : onclose(s, error)
      BY <2>5, EndIsOnClose
    <3> QED
      BY <3>1 DEF onclose
  <2> QED
    BY <2>1, <2>2, <2>3, <2>4, <2>5 DEF Next
<1> QED
  BY <1>1, Invariant, PTL DEF Spec, StoppedStaysStopped

(* A sequence is not its own tail, nor is a longer one. *)
LEMMA TailIsShorter ==
  ASSUME NEW p \in Seq(Nat), p # <<>>, NEW x \in Nat
  PROVE  p # Tail(p) /\ Append(p, x) # Tail(p)
<1>1. Len(Tail(p)) = Len(p) - 1 /\ Len(p) \in Nat
  BY HeadTailProperties, LenProperties
<1>2. Len(Append(p, x)) = Len(p) + 1
  BY AppendProperties
<1>3. \A n \in Nat : n # n - 1 /\ n + 1 # n - 1
  OBVIOUS
<1> QED
  BY Zenon, <1>1, <1>2, <1>3

(* Only a pong answers a ping. *)
LEMMA AnswerIsPong ==
  ASSUME IInv, Next, NEW s \in Sockets, pings[s] # <<>>, pings'[s] = Tail(pings[s])
  PROVE  pong(s)
<1>1. pings \in [Sockets -> Seq(Nat)] /\ now \in Nat
  BY DEF IInv, TypeOK
<1>2. pings'[s] # pings[s] /\ pings'[s] # Append(pings[s], now)
  BY <1>1, TailIsShorter
<1>3. ~(startTest \/ stopClicked \/ Tick)
  BY <1>2 DEF startTest, stopClicked, Tick, ping_vars
<1>4. ASSUME NEW q \in Sockets, onopen(q) \/ binary(q) \/ ServerCloses(q) PROVE FALSE
  BY <1>2, <1>4 DEF onopen, binary, ServerCloses, ping_vars
<1>5. ASSUME NEW q \in Sockets, interval(q) PROVE FALSE
  <2>1. pings' = pings \/ pings' = [pings EXCEPT ![ws] = Append(@, now)]
    BY <1>5 DEF interval
  <2>2. pings'[s] = pings[s] \/ pings'[s] = Append(pings[s], now)
    BY <1>1, <2>1
  <2> QED
    BY <1>2, <2>2
<1>6. ASSUME NEW q \in Sockets, Closed(q) \/ Refused(q) \/ Broken(q) PROVE FALSE
  <2>1. PICK error \in BOOLEAN : onclose(q, error)
    BY <1>6, EndIsOnClose
  <2> QED
    BY <1>2, <2>1 DEF onclose, ping_vars
<1>7. ASSUME NEW q \in Sockets, pong(q) PROVE q = s
  BY <1>1, <1>2, <1>7 DEF pong
<1> QED
  BY <1>3, <1>4, <1>5, <1>6, <1>7 DEF Next

(* A latency is never overstated, and exact for a single ping. *)
THEOREM LatencyIsOfItsPing == Spec => LatencyOfItsPing
<1> DEFINE Step == \A s \in Sockets :
                     pings[s] # <<>> /\ pings'[s] = Tail(pings[s]) =>
                       /\ latency' <= now - Head(pings[s])
                       /\ Len(pings[s]) = 1 => latency' = now - Head(pings[s])
<1>1. IInv /\ [Next]_vars => [Step]_vars
  <2> SUFFICES ASSUME IInv, Next, NEW s \in Sockets,
                      pings[s] # <<>>, pings'[s] = Tail(pings[s])
               PROVE  /\ latency' <= now - Head(pings[s])
                      /\ Len(pings[s]) = 1 => latency' = now - Head(pings[s])
    OBVIOUS
  <2>1. pong(s) /\ latency' = now - pingStart
    BY AnswerIsPong DEF pong
  <2>2. s = ws
    BY <2>1, PongIsNewest DEF IInv
  <2>3. /\ pings[s] \in Seq(Nat) /\ now \in Nat /\ pingStart \in Nat
    BY DEF IInv, TypeOK
  <2>4. Len(pings[s]) \in Nat \ {0} /\ Head(pings[s]) = pings[s][1]
        /\ Head(pings[s]) \in Nat
    BY <2>3, EmptySeq, HeadTailProperties
  <2>5. /\ pings[s][Len(pings[s])] = pingStart
        /\ \A i \in 1 .. Len(pings[s]) : pings[s][i] <= pingStart
    BY <2>2 DEF IInv, PingInv
  <2>6. Head(pings[s]) <= pingStart
    BY <2>4, <2>5
  <2>7. Len(pings[s]) = 1 => Head(pings[s]) = pingStart
    BY <2>4, <2>5
  <2> QED
    BY <2>1, <2>3, <2>4, <2>6, <2>7
<1> QED
  BY <1>1, Invariant, PTL DEF Spec, LatencyOfItsPing

=============================================================================
