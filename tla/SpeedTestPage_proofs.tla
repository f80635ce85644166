------------------------ MODULE SpeedTestPage_proofs -------------------------
(***************************************************************************)
(* Proofs about SpeedTestPage, for any number of tests, any duration and   *)
(* any capacity of the path between server and page.                       *)
(***************************************************************************)
EXTENDS SpeedTestPage, SequenceTheorems, TLAPS

(* The sockets created are those of the tests started. *)
CreatedInv == \A s \in Sockets : readyState[s] = "none" <=> s > tests

(* As long as no test was cut short, the only timeout armed is that of the *)
(* running test, and it agrees with the time the test has run.             *)
TimerInv ==
  ~cutShort =>
    \A s \in Sockets : timeouts[s] # NoTimer =>
      isRunning /\ s = tests /\ elapsed + timeouts[s] = Duration

(* No timeout is armed before its socket is open. *)
ArmedInv ==
  \A s \in Sockets :
    readyState[s] \in {"none", "CONNECTING"} => timeouts[s] = NoTimer

PageInv == CreatedInv /\ OneRecordPerTest /\ OldSocketsAreClosing /\ CountsOwnData

IInv == TypeOK /\ PageInv /\ ArmedInv /\ TimerInv

(* The steps of the server. *)
ServerStep(s) ==
  \/ CreateAndHandle(s) \/ HandshakeFails(s) \/ ServerThread(s)
  \/ ServerKilled(s) \/ ProcessFrames(s)

States == {"none", "CONNECTING", "OPEN", "CLOSING", "CLOSED"}

-----------------------------------------------------------------------------
(* finishTest *)

(* A running test is finished: its socket closes, and one record is saved. *)
LEMMA FinishRunning ==
  ASSUME TypeOK, NEW rs \in [Sockets -> States], NEW to, finishTest(rs, to),
         isRunning
  PROVE  /\ isRunning' = FALSE /\ uiTimer' = FALSE
         /\ saved' = saved + 1 /\ ws' = Null
         /\ readyState' \in [Sockets -> States]
         /\ \A q \in Sockets : readyState'[q] =
              IF q = ws /\ rs[q] \in {"CONNECTING", "OPEN"} THEN "CLOSING" ELSE rs[q]
         /\ failing' \subseteq Sockets
         /\ cutShort' \in BOOLEAN
         /\ ~cutShort' => ~cutShort /\ \A s \in Sockets : s = ws => to[s] = NoTimer
<1>1. /\ isRunning' = FALSE /\ uiTimer' = FALSE
      /\ saved' = saved + 1 /\ ws' = Null /\ CloseSocket(rs)
      /\ cutShort' = (cutShort \/ \E s \in Sockets : s = ws /\ to[s] # NoTimer)
  BY DEF finishTest, MayFinish
<1>2. /\ readyState' \in [Sockets -> States]
      /\ \A q \in Sockets : readyState'[q] =
           IF q = ws /\ rs[q] \in {"CONNECTING", "OPEN"} THEN "CLOSING" ELSE rs[q]
  BY <1>1 DEF CloseSocket, States
<1>3. failing' \subseteq Sockets
  BY <1>1 DEF CloseSocket, TypeOK
<1>4. cutShort' \in BOOLEAN
  BY Zenon, <1>1 DEF TypeOK
<1>5. ~cutShort' => ~cutShort /\ \A s \in Sockets : s = ws => to[s] = NoTimer
  BY Zenon, <1>1
<1> QED
  BY <1>1, <1>2, <1>3, <1>4, <1>5

(* A finished test is not finished again. *)
LEMMA FinishFinished ==
  ASSUME NEW rs, NEW to, finishTest(rs, to), ~isRunning
  PROVE  /\ readyState' = rs
         /\ UNCHANGED <<isRunning, uiTimer, saved, failing, ws, cutShort>>
  BY DEF finishTest, MayFinish

(* A timeout is an attempt to finish the test. *)
LEMMA TimeoutFinishes ==
  ASSUME NEW s \in Sockets, timeout(s)
  PROVE  finishTest(readyState, timeouts')
  BY DEF timeout, TimeoutEnds, finishTest, MayFinish

-----------------------------------------------------------------------------
(* Type correctness *)

(* finishTest keeps the types. *)
LEMMA FinishType ==
  ASSUME TypeOK, NEW rs \in [Sockets -> States], NEW to, finishTest(rs, to)
  PROVE  /\ isRunning' \in BOOLEAN /\ uiTimer' \in BOOLEAN /\ cutShort' \in BOOLEAN
         /\ saved' \in Nat /\ ws' \in 0 .. MaxTests
         /\ readyState' \in [Sockets -> States] /\ failing' \subseteq Sockets
<1>1. CASE isRunning
  <2>1. /\ isRunning' = FALSE /\ uiTimer' = FALSE /\ cutShort' \in BOOLEAN
        /\ saved' = saved + 1 /\ ws' = Null
        /\ readyState' \in [Sockets -> States] /\ failing' \subseteq Sockets
    BY <1>1, FinishRunning
  <2>2. isRunning' \in BOOLEAN /\ uiTimer' \in BOOLEAN
    BY Zenon, <2>1
  <2>3. saved' \in Nat /\ ws' \in 0 .. MaxTests
    BY <2>1, PageAssumption DEF TypeOK, Null
  <2> QED
    BY <2>1, <2>2, <2>3
<1>2. CASE ~isRunning
  BY Zenon, <1>2, FinishFinished DEF TypeOK
<1> QED
  BY <1>1, <1>2

(* A frame sent stays a frame. *)
LEMMA SentType ==
  ASSUME TypeOK, NEW s \in Sockets, NEW frame \in {"data", "close"}, Sent(s, frame)
  PROVE  down' \in [Sockets -> Seq({"data", "close"})]
<1>1. down[s] \in Seq({"data", "close"}) /\ down \in [Sockets -> Seq({"data", "close"})]
  BY DEF TypeOK
<1>2. Append(down[s], frame) \in Seq({"data", "close"})
  BY <1>1, AppendProperties
<1>3. down' = down \/ down' = [down EXCEPT ![s] = Append(down[s], frame)]
  BY <1>1 DEF Sent
<1> QED
  BY <1>1, <1>2, <1>3

(* The initial state is well typed. *)
LEMMA InitType == Init => TypeOK
<1> SUFFICES ASSUME Init PROVE TypeOK
  OBVIOUS
<1>1. <<>> \in Seq({"data", "close"})
  OBVIOUS
<1>2. down \in [Sockets -> Seq({"data", "close"})]
  BY <1>1 DEF Init
<1>3. /\ isRunning \in BOOLEAN /\ uiTimer \in BOOLEAN /\ cutShort \in BOOLEAN
      /\ killed \in BOOLEAN
  BY Zenon DEF Init
<1>4. /\ tests \in 0 .. MaxTests /\ ws \in 0 .. MaxTests /\ saved \in Nat
      /\ elapsed \in 0 .. Duration
      /\ timeouts \in [Sockets -> NoTimer .. Duration]
      /\ remaining \in [Sockets -> 0 .. Duration]
  BY PageAssumption DEF Init, Null, NoTimer
<1>5. /\ counted \subseteq Sockets /\ failing \subseteq Sockets /\ conn \subseteq Sockets
      /\ readyState \in [Sockets -> States]
      /\ thread \in [Sockets -> {"none", "refused", "sending", "ending", "finished"}]
  BY DEF Init, States
<1> QED
  BY <1>2, <1>3, <1>4, <1>5 DEF TypeOK, States

(* Every handler of the page keeps the types. *)
LEMMA PageType ==
  ASSUME TypeOK, NEW s \in Sockets,
         startTest \/ onopen(s) \/ timeout(s) \/ onmessage(s) \/ onclose(s)
  PROVE  TypeOK'
<1> USE PageAssumption
<1>1. CASE startTest
  <2>1. tests' \in Sockets /\ ws' \in 0 .. MaxTests
    BY <1>1 DEF startTest, TypeOK, Sockets
  <2>2. readyState' \in [Sockets -> States] /\ elapsed' \in 0 .. Duration /\ counted' = {}
    BY <1>1, <2>1 DEF startTest, TypeOK, States
  <2>3. isRunning' \in BOOLEAN
    BY Zenon, <1>1 DEF startTest
  <2>4. UNCHANGED <<uiTimer, saved, cutShort, timeouts, failing, down, conn, thread, remaining, killed>>
    BY <1>1 DEF startTest, server_vars
  <2>5. tests' \in 0 .. MaxTests /\ counted' \subseteq Sockets
    BY <2>1, <2>2 DEF Sockets
  <2> QED
    BY Zenon, <2>1, <2>2, <2>3, <2>4, <2>5 DEF TypeOK, States
<1>2. CASE onopen(s)
  <2>1. /\ timeouts' \in [Sockets -> NoTimer .. Duration] /\ elapsed' \in 0 .. Duration
        /\ readyState' \in [Sockets -> States]
    BY <1>2 DEF onopen, TypeOK, NoTimer, Armed, States
  <2>2. uiTimer' \in BOOLEAN
    BY Zenon, <1>2 DEF onopen
  <2>3. UNCHANGED <<tests, ws, isRunning, counted, saved, cutShort, failing, down,
                    conn, thread, remaining, killed>>
    BY <1>2 DEF onopen, server_vars
  <2> QED
    BY Zenon, <2>1, <2>2, <2>3 DEF TypeOK, States
<1>3. CASE timeout(s)
  <2>1. readyState \in [Sockets -> States] /\ finishTest(readyState, timeouts')
    BY <1>3, TimeoutFinishes DEF TypeOK, States
  <2>2. timeouts' \in [Sockets -> NoTimer .. Duration]
    BY <1>3 DEF timeout, TypeOK, NoTimer
  <2>3. UNCHANGED <<tests, counted, elapsed, down, conn, thread, remaining, killed>>
    BY <1>3 DEF timeout, server_vars
  <2> QED
    BY Zenon, <2>1, <2>2, <2>3, FinishType DEF TypeOK, States
<1>4. CASE onmessage(s)
  <2>1. Tail(down[s]) \in Seq({"data", "close"})
    BY <1>4, HeadTailProperties DEF onmessage, TypeOK
  <2>2. /\ down' \in [Sockets -> Seq({"data", "close"})] /\ counted' \subseteq Sockets
        /\ readyState' \in [Sockets -> States]
    BY <1>4, <2>1 DEF onmessage, TypeOK, States
  <2>3. UNCHANGED <<tests, ws, isRunning, uiTimer, saved, elapsed, cutShort, timeouts,
                    failing, conn, thread, remaining, killed>>
    BY <1>4 DEF onmessage, hist_vars, server_vars
  <2> QED
    BY Zenon, <2>2, <2>3 DEF TypeOK, States
<1>5. CASE onclose(s)
  <2> DEFINE rs == [readyState EXCEPT ![s] = "CLOSED"]
  <2>1. rs \in [Sockets -> States] /\ finishTest(rs, timeouts)
    BY <1>5 DEF onclose, TypeOK, States
  <2>2. down' \in [Sockets -> Seq({"data", "close"})]
    <3>1. <<>> \in Seq({"data", "close"})
      OBVIOUS
    <3> QED
      BY <1>5, <3>1 DEF onclose, TypeOK
  <2>3. UNCHANGED <<tests, counted, timeouts, elapsed, conn, thread, remaining, killed>>
    BY <1>5 DEF onclose, server_vars
  <2> HIDE DEF rs
  <2> QED
    BY Zenon, <2>1, <2>2, <2>3, FinishType DEF TypeOK, States
<1> QED
  BY <1>1, <1>2, <1>3, <1>4, <1>5

(* Every step of the server keeps the types. *)
LEMMA ServerType ==
  ASSUME TypeOK, NEW s \in Sockets,
         ServerStep(s)
  PROVE  TypeOK'
<1>1. UNCHANGED <<tests, ws, isRunning, uiTimer, counted, saved, elapsed, cutShort,
                  timeouts, readyState, failing>>
  BY DEF ServerStep, CreateAndHandle, HandshakeFails, ServerKilled, ServerThread, ServerSend, ServerSendFails, ServerEnds,
         ProcessFrames, page_vars, hist_vars
<1>2. /\ conn' \subseteq Sockets
      /\ thread' \in [Sockets -> {"none", "refused", "sending", "ending", "finished"}]
      /\ remaining' \in [Sockets -> 0 .. Duration]
  <2>1. CASE CreateAndHandle(s)
    BY <2>1, PageAssumption DEF CreateAndHandle, TypeOK
  <2>2. CASE ServerSend(s)
    BY <2>2 DEF ServerSend, TypeOK
  <2>3. CASE ServerSendFails(s)
    BY <2>3 DEF ServerSendFails, AfterError, TypeOK
  <2>4. CASE ServerEnds(s)
    BY <2>4 DEF ServerEnds, TypeOK
  <2>5. CASE ProcessFrames(s)
    BY <2>5 DEF ProcessFrames, TypeOK
  <2>6. CASE HandshakeFails(s) \/ ServerKilled(s)
    BY <2>6 DEF HandshakeFails, ServerKilled, TypeOK
  <2> QED
    BY <2>1, <2>2, <2>3, <2>4, <2>5, <2>6 DEF ServerStep, ServerThread
<1>3. down' \in [Sockets -> Seq({"data", "close"})]
  <2>1. CASE ServerSend(s)
    BY <2>1, SentType DEF ServerSend
  <2>2. CASE ServerEnds(s) \/ ProcessFrames(s)
    <3>1. Sent(s, "close") \/ UNCHANGED down
      BY <2>2 DEF ServerEnds, ProcessFrames
    <3> QED
      BY <3>1, SentType DEF TypeOK
  <2>3. CASE \/ CreateAndHandle(s) \/ HandshakeFails(s) \/ ServerKilled(s)
             \/ ServerSendFails(s)
    BY <2>3 DEF CreateAndHandle, HandshakeFails, ServerKilled, ServerSendFails, TypeOK
  <2> QED
    BY <2>1, <2>2, <2>3 DEF ServerStep, ServerThread
<1>4. killed' \in BOOLEAN
  <2>1. killed' = killed \/ killed' = TRUE
    BY DEF ServerStep, CreateAndHandle, HandshakeFails, ServerKilled, ServerThread,
           ServerSend, ServerSendFails, ServerEnds, ProcessFrames
  <2> QED
    BY Zenon, <2>1 DEF TypeOK
<1> QED
  BY Zenon, <1>1, <1>2, <1>3, <1>4 DEF TypeOK

(* Every step keeps every variable in its type. *)
LEMMA NextType == TypeOK /\ [Next]_vars => TypeOK'
<1> SUFFICES ASSUME TypeOK, [Next]_vars PROVE TypeOK'
  OBVIOUS
<1>1. CASE startTest
  <2>1. 1 \in Sockets
    BY <1>1, PageAssumption DEF startTest, TypeOK, Sockets
  <2> QED
    BY <1>1, <2>1, PageType
<1>2. CASE Tick
  <2>1. /\ timeouts' \in [Sockets -> NoTimer .. Duration]
        /\ remaining' \in [Sockets -> 0 .. Duration] /\ elapsed' \in 0 .. Duration
    BY <1>2, PageAssumption DEF Tick, Earlier, TypeOK, NoTimer
  <2>2. UNCHANGED <<tests, ws, isRunning, uiTimer, counted, saved, cutShort, readyState,
                    failing, down, conn, thread, killed>>
    BY <1>2 DEF Tick, page_vars
  <2> QED
    BY Zenon, <2>1, <2>2 DEF TypeOK
<1>3. ASSUME NEW s \in Sockets, onopen(s) \/ timeout(s) \/ onmessage(s) PROVE TypeOK'
  BY <1>3, PageType
<1>4. ASSUME NEW s \in Sockets, Refused(s) \/ Broken(s) \/ Closed(s) PROVE TypeOK'
  BY <1>4, PageType DEF Refused, Broken, Closed
<1>5. ASSUME NEW s \in Sockets, ServerStep(s)
      PROVE TypeOK'
  BY <1>5, ServerType
<1>6. CASE UNCHANGED vars
  BY Zenon, <1>6 DEF vars, page_vars, hist_vars, server_vars, TypeOK
<1> QED
  BY <1>1, <1>2, <1>3, <1>4, <1>5, <1>6 DEF Next, ServerStep

-----------------------------------------------------------------------------
(* Records, sockets and counted data *)

(* finishTest, called with no socket reopened, keeps all of it. *)
LEMMA FinishPage ==
  ASSUME TypeOK, PageInv, NEW rs \in [Sockets -> States], NEW to, finishTest(rs, to),
         UNCHANGED <<tests, counted>>,
         \A q \in Sockets : \/ rs[q] = readyState[q]
                            \/ readyState[q] # "none" /\ rs[q] = "CLOSED"
  PROVE  PageInv'
<1>1. tests \in Nat /\ saved \in Nat
  BY DEF TypeOK
<1>2. CASE isRunning
  <2>1. /\ isRunning' = FALSE /\ uiTimer' = FALSE /\ saved' = saved + 1 /\ ws' = Null
        /\ \A q \in Sockets : readyState'[q] =
             IF q = ws /\ rs[q] \in {"CONNECTING", "OPEN"} THEN "CLOSING" ELSE rs[q]
    BY <1>2, FinishRunning
  <2>2. ws = tests /\ \A s \in 1 .. tests : s # ws => readyState[s] \in {"CLOSING", "CLOSED"}
    BY <1>2 DEF PageInv, OldSocketsAreClosing
  <2>3. CreatedInv'
    BY <2>1 DEF PageInv, CreatedInv
  <2>4. OneRecordPerTest'
    <3>1. saved = tests - 1
      BY <1>2 DEF PageInv, OneRecordPerTest
    <3> QED
      BY <1>1, <2>1, <3>1 DEF OneRecordPerTest
  <2>5. OldSocketsAreClosing'
    <3>1. \A s \in 1 .. tests : s \in Sockets
      BY PageAssumption DEF TypeOK, Sockets
    <3>2. \A s \in 1 .. tests : readyState'[s] \in {"CLOSING", "CLOSED"}
      <4> SUFFICES ASSUME NEW s \in 1 .. tests
                   PROVE  readyState'[s] \in {"CLOSING", "CLOSED"}
        OBVIOUS
      <4>1. s \in Sockets /\ readyState[s] # "none"
        BY <1>1, <3>1 DEF PageInv, CreatedInv
      <4>2. rs[s] \in {"CONNECTING", "OPEN", "CLOSING", "CLOSED"}
        BY <4>1 DEF States
      <4>3. CASE s = ws
        BY <2>1, <4>1, <4>2, <4>3
      <4>4. CASE s # ws
        BY <2>1, <2>2, <4>1, <4>4
      <4> QED
        BY <4>3, <4>4
    <3> QED
      BY <2>1, <3>2 DEF OldSocketsAreClosing
  <2>6. CountsOwnData'
    BY DEF PageInv, CountsOwnData
  <2> QED
    BY <2>3, <2>4, <2>5, <2>6 DEF PageInv
<1>3. CASE ~isRunning
  <2>1. readyState' = rs /\ UNCHANGED <<isRunning, uiTimer, saved, ws>>
    BY <1>3, FinishFinished
  <2>2. CreatedInv'
    BY <2>1 DEF PageInv, CreatedInv
  <2>3. OneRecordPerTest' /\ CountsOwnData'
    BY <2>1 DEF PageInv, OneRecordPerTest, CountsOwnData
  <2>4. OldSocketsAreClosing'
    <3>1. \A s \in 1 .. tests : s \in Sockets
      BY PageAssumption DEF TypeOK, Sockets
    <3>2. \A s \in 1 .. tests : s # ws => readyState'[s] \in {"CLOSING", "CLOSED"}
      BY <2>1, <3>1 DEF PageInv, OldSocketsAreClosing
    <3>3. ws' = (IF isRunning' THEN tests' ELSE Null) /\ (uiTimer' => isRunning')
      BY Zenon, <2>1 DEF PageInv, OldSocketsAreClosing
    <3> QED
      BY <2>1, <3>2, <3>3 DEF OldSocketsAreClosing
  <2> QED
    BY <2>2, <2>3, <2>4 DEF PageInv
<1> QED
  BY <1>2, <1>3

(* A step that leaves the page alone but for sockets that start to close. *)
LEMMA QuietPage ==
  ASSUME TypeOK, PageInv, UNCHANGED <<tests, ws, isRunning, uiTimer, counted, saved>>,
         \A q \in Sockets : \/ readyState'[q] = readyState[q]
                            \/ /\ readyState[q] # "none"
                               /\ readyState'[q] \in {"CLOSING", "CLOSED"}
  PROVE  PageInv'
<1>1. CreatedInv'
  BY DEF PageInv, CreatedInv
<1>2. OneRecordPerTest' /\ CountsOwnData'
  BY DEF PageInv, OneRecordPerTest, CountsOwnData
<1>3. OldSocketsAreClosing'
  <2>1. \A s \in 1 .. tests : s \in Sockets
    BY PageAssumption DEF TypeOK, Sockets
  <2>2. \A s \in 1 .. tests : s # ws => readyState'[s] \in {"CLOSING", "CLOSED"}
    BY <2>1 DEF PageInv, OldSocketsAreClosing
  <2>3. ws' = (IF isRunning' THEN tests' ELSE Null) /\ (uiTimer' => isRunning')
    BY Zenon DEF PageInv, OldSocketsAreClosing
  <2> QED
    BY <2>2, <2>3 DEF OldSocketsAreClosing
<1> QED
  BY <1>1, <1>2, <1>3 DEF PageInv

(* A socket that is neither new nor closing is that of the running test. *)
LEMMA LiveIsCurrent ==
  ASSUME TypeOK, PageInv, NEW s \in Sockets, readyState[s] \in {"CONNECTING", "OPEN"}
  PROVE  s = tests /\ s = ws /\ isRunning
<1>1. s \in 1 .. tests
  BY PageAssumption DEF PageInv, CreatedInv, TypeOK, Sockets
<1>2. s = ws
  BY <1>1 DEF PageInv, OldSocketsAreClosing
<1>3. ws # Null
  BY <1>1, <1>2 DEF Null
<1>4. isRunning /\ ws = tests
  BY <1>3 DEF PageInv, OldSocketsAreClosing
<1> QED
  BY <1>2, <1>4

(* Every step keeps the records, the sockets and the counted data right. *)
LEMMA NextPage == TypeOK /\ PageInv /\ [Next]_vars => PageInv'
<1> SUFFICES ASSUME TypeOK, PageInv, [Next]_vars PROVE PageInv'
  OBVIOUS
<1>1. CASE startTest
  <2>1. /\ ~isRunning /\ tests \in Nat /\ saved \in Nat
        /\ tests' = tests + 1 /\ ws' = tests + 1 /\ isRunning' = TRUE /\ counted' = {}
        /\ UNCHANGED <<uiTimer, saved>> /\ tests + 1 \in Sockets
    BY <1>1, PageAssumption DEF startTest, TypeOK, Sockets
  <2>2. \A q \in Sockets : readyState'[q] =
          IF q = tests + 1 THEN "CONNECTING" ELSE readyState[q]
    BY <1>1, <2>1 DEF startTest, TypeOK
  <2>3. CreatedInv'
    BY <2>1, <2>2 DEF PageInv, CreatedInv, Sockets
  <2>4. OneRecordPerTest'
    <3>1. saved = tests
      BY <2>1 DEF PageInv, OneRecordPerTest
    <3> QED
      BY <2>1, <3>1 DEF OneRecordPerTest
  <2>5. OldSocketsAreClosing'
    <3>1. ws = Null
      BY <2>1 DEF PageInv, OldSocketsAreClosing
    <3>2. \A s \in 1 .. tests : s \in Sockets /\ s # Null
      BY PageAssumption DEF TypeOK, Sockets, Null
    <3>3. \A s \in 1 .. tests : readyState[s] \in {"CLOSING", "CLOSED"}
      BY <3>1, <3>2 DEF PageInv, OldSocketsAreClosing
    <3>4. \A s \in 1 .. tests' : s # ws' => s \in 1 .. tests
      BY <2>1
    <3>5. \A s \in 1 .. tests' : s # ws' => readyState'[s] \in {"CLOSING", "CLOSED"}
      BY <2>1, <2>2, <3>2, <3>3, <3>4
    <3> QED
      BY <2>1, <3>5 DEF OldSocketsAreClosing
  <2>6. CountsOwnData'
    BY <2>1 DEF CountsOwnData
  <2> QED
    BY <2>3, <2>4, <2>5, <2>6 DEF PageInv
<1>2. ASSUME NEW s \in Sockets, onopen(s) PROVE PageInv'
  <2>1. /\ readyState[s] = "CONNECTING" /\ uiTimer' = TRUE
        /\ UNCHANGED <<tests, ws, isRunning, counted, saved>>
        /\ \A q \in Sockets : readyState'[q] = IF q = s THEN "OPEN" ELSE readyState[q]
    BY <1>2 DEF onopen, TypeOK
  <2>2. s = tests /\ s = ws /\ isRunning
    BY <2>1, LiveIsCurrent
  <2>3. CreatedInv'
    BY <2>1 DEF PageInv, CreatedInv
  <2>4. OneRecordPerTest' /\ CountsOwnData'
    BY <2>1 DEF PageInv, OneRecordPerTest, CountsOwnData
  <2>5. OldSocketsAreClosing'
    <3>1. \A q \in 1 .. tests : q \in Sockets
      BY PageAssumption DEF TypeOK, Sockets
    <3>2. \A q \in 1 .. tests : q # ws => readyState'[q] \in {"CLOSING", "CLOSED"}
      BY <2>1, <2>2, <3>1 DEF PageInv, OldSocketsAreClosing
    <3>3. ws' = (IF isRunning' THEN tests' ELSE Null) /\ (uiTimer' => isRunning')
      BY Zenon, <2>1, <2>2 DEF PageInv, OldSocketsAreClosing
    <3> QED
      BY <2>1, <3>2, <3>3 DEF OldSocketsAreClosing
  <2> QED
    BY <2>3, <2>4, <2>5 DEF PageInv
<1>3. ASSUME NEW s \in Sockets, timeout(s) PROVE PageInv'
  <2>1. readyState \in [Sockets -> States] /\ finishTest(readyState, timeouts')
    BY <1>3, TimeoutFinishes DEF TypeOK, States
  <2>2. UNCHANGED <<tests, counted>>
    BY <1>3 DEF timeout
  <2> QED
    BY <2>1, <2>2, FinishPage
<1>4. ASSUME NEW s \in Sockets, onmessage(s) PROVE PageInv'
  <2>1. /\ UNCHANGED <<tests, ws, isRunning, uiTimer, saved>>
        /\ readyState[s] \in {"OPEN", "CLOSING"}
        /\ \A q \in Sockets : readyState'[q] \in {readyState[q], "CLOSING"}
        /\ \A q \in Sockets : q # s => readyState'[q] = readyState[q]
        /\ counted' = counted \/ (counted' = counted \union {s} /\ readyState[s] = "OPEN")
    BY <1>4 DEF onmessage, hist_vars, TypeOK
  <2>2. CountsOwnData'
    BY <2>1, LiveIsCurrent DEF PageInv, CountsOwnData
  <2>3. CreatedInv'
    BY <2>1 DEF PageInv, CreatedInv
  <2>4. OneRecordPerTest'
    BY <2>1 DEF PageInv, OneRecordPerTest
  <2>5. OldSocketsAreClosing'
    <3>1. \A q \in 1 .. tests : q \in Sockets
      BY PageAssumption DEF TypeOK, Sockets
    <3>2. \A q \in 1 .. tests : q # ws => readyState'[q] \in {"CLOSING", "CLOSED"}
      BY <2>1, <3>1 DEF PageInv, OldSocketsAreClosing
    <3>3. ws' = (IF isRunning' THEN tests' ELSE Null) /\ (uiTimer' => isRunning')
      BY Zenon, <2>1 DEF PageInv, OldSocketsAreClosing
    <3> QED
      BY <2>1, <3>2, <3>3 DEF OldSocketsAreClosing
  <2> QED
    BY <2>2, <2>3, <2>4, <2>5 DEF PageInv
<1>5. ASSUME NEW s \in Sockets, Refused(s) \/ Broken(s) \/ Closed(s) PROVE PageInv'
  <2> DEFINE rs == [readyState EXCEPT ![s] = "CLOSED"]
  <2>1. onclose(s) /\ readyState[s] # "none"
    BY <1>5 DEF Refused, Broken, Closed
  <2>2. rs \in [Sockets -> States] /\ finishTest(rs, timeouts) /\ UNCHANGED <<tests, counted>>
    BY <2>1 DEF onclose, TypeOK, States
  <2>3. \A q \in Sockets : \/ rs[q] = readyState[q]
                           \/ readyState[q] # "none" /\ rs[q] = "CLOSED"
    BY <2>1 DEF TypeOK
  <2> HIDE DEF rs
  <2> QED
    BY <2>2, <2>3, FinishPage
<1>6. ASSUME NEW s \in Sockets, ServerStep(s)
      PROVE PageInv'
  <2>1. UNCHANGED <<tests, ws, isRunning, uiTimer, counted, saved, readyState>>
    BY <1>6 DEF ServerStep, CreateAndHandle, HandshakeFails, ServerKilled, ServerThread, ServerSend, ServerSendFails, ServerEnds,
                ProcessFrames, page_vars, hist_vars
  <2> QED
    BY <2>1, QuietPage
<1>7. CASE Tick \/ UNCHANGED vars
  <2>1. UNCHANGED <<tests, ws, isRunning, uiTimer, counted, saved, readyState>>
    BY <1>7 DEF Tick, vars, page_vars, hist_vars
  <2> QED
    BY <2>1, QuietPage
<1> QED
  BY <1>1, <1>2, <1>3, <1>4, <1>5, <1>6, <1>7 DEF Next, ServerStep

-----------------------------------------------------------------------------
(* Timeouts *)

(* finishTest leaves no timeout of a finished test behind without noting   *)
(* that this test was cut short.                                           *)
LEMMA FinishTimer ==
  ASSUME TypeOK, PageInv, TimerInv, NEW rs \in [Sockets -> States],
         finishTest(rs, timeouts'), UNCHANGED <<tests, elapsed>>,
         \A q \in Sockets : timeouts'[q] # NoTimer => timeouts'[q] = timeouts[q]
  PROVE  TimerInv'
<1> SUFFICES ASSUME ~cutShort', NEW q \in Sockets, timeouts'[q] # NoTimer
             PROVE  isRunning' /\ q = tests' /\ elapsed' + timeouts'[q] = Duration
  BY DEF TimerInv
<1>1. CASE isRunning
  <2>1. ~cutShort /\ \A s \in Sockets : s = ws => timeouts'[s] = NoTimer
    BY <1>1, FinishRunning
  <2>2. q = tests
    BY <2>1 DEF TimerInv
  <2>3. ws = tests
    BY <1>1 DEF PageInv, OldSocketsAreClosing
  <2> QED
    BY <2>1, <2>2, <2>3
<1>2. CASE ~isRunning
  <2>1. UNCHANGED <<isRunning, cutShort>>
    BY <1>2, FinishFinished
  <2> QED
    BY <1>2, <2>1 DEF TimerInv
<1> QED
  BY <1>1, <1>2

(* finishTest makes no socket younger. *)
LEMMA FinishArmed ==
  ASSUME TypeOK, ArmedInv, NEW rs \in [Sockets -> States], NEW to, finishTest(rs, to),
         \A q \in Sockets : timeouts'[q] # NoTimer => timeouts'[q] = timeouts[q],
         \A q \in Sockets : rs[q] \in {readyState[q], "CLOSED"}
  PROVE  ArmedInv'
<1>1. \A q \in Sockets : readyState'[q] \in {readyState[q], "CLOSING", "CLOSED"}
  <2>1. CASE isRunning
    BY <2>1, FinishRunning
  <2>2. CASE ~isRunning
    BY <2>2, FinishFinished
  <2> QED
    BY <2>1, <2>2
<1> QED
  BY <1>1 DEF ArmedInv

(* Every step keeps the timeouts right. *)
LEMMA NextTimer ==
  TypeOK /\ PageInv /\ ArmedInv /\ TimerInv /\ [Next]_vars => ArmedInv' /\ TimerInv'
<1> SUFFICES ASSUME TypeOK, PageInv, ArmedInv, TimerInv, [Next]_vars
             PROVE  ArmedInv' /\ TimerInv'
  OBVIOUS
<1>1. CASE startTest
  <2>1. /\ ~isRunning /\ UNCHANGED <<cutShort, timeouts>> /\ tests + 1 \in Sockets
        /\ tests \in Nat
        /\ readyState' = [readyState EXCEPT ![tests + 1] = "CONNECTING"]
    BY <1>1, PageAssumption DEF startTest, TypeOK, Sockets
  <2>2. readyState[tests + 1] = "none"
    BY <2>1 DEF PageInv, CreatedInv
  <2>3. ArmedInv'
    BY <2>1, <2>2 DEF ArmedInv, TypeOK
  <2>4. TimerInv'
    BY <2>1 DEF TimerInv
  <2> QED
    BY <2>3, <2>4
<1>2. ASSUME NEW s \in Sockets, onopen(s) PROVE ArmedInv' /\ TimerInv'
  <2>1. /\ readyState[s] = "CONNECTING" /\ elapsed' = 0
        /\ UNCHANGED <<tests, isRunning, cutShort>>
        /\ \A q \in Sockets : readyState'[q] = IF q = s THEN "OPEN" ELSE readyState[q]
        /\ \A q \in Sockets : timeouts'[q] = IF q = s THEN Duration ELSE timeouts[q]
    BY <1>2 DEF onopen, Armed, TypeOK
  <2>2. s = tests /\ isRunning
    BY <2>1, LiveIsCurrent
  <2>3. ArmedInv'
    BY <2>1 DEF ArmedInv
  <2>4. TimerInv'
    <3> SUFFICES ASSUME ~cutShort', NEW q \in Sockets, timeouts'[q] # NoTimer
                 PROVE  isRunning' /\ q = tests' /\ elapsed' + timeouts'[q] = Duration
      BY DEF TimerInv
    <3>1. q = s
      BY <2>1, <2>2 DEF TimerInv
    <3> QED
      BY <2>1, <2>2, <3>1, PageAssumption
  <2> QED
    BY <2>3, <2>4
<1>3. ASSUME NEW s \in Sockets, timeout(s) PROVE ArmedInv' /\ TimerInv'
  <2>1. readyState \in [Sockets -> States] /\ finishTest(readyState, timeouts')
    BY <1>3, TimeoutFinishes DEF TypeOK, States
  <2>2. UNCHANGED <<tests, elapsed>>
    BY <1>3 DEF timeout
  <2>3. \A q \in Sockets : timeouts'[q] # NoTimer => timeouts'[q] = timeouts[q]
    BY <1>3 DEF timeout, TypeOK
  <2> QED
    BY <2>1, <2>2, <2>3, FinishTimer, FinishArmed
<1>4. ASSUME NEW s \in Sockets, Refused(s) \/ Broken(s) \/ Closed(s)
      PROVE ArmedInv' /\ TimerInv'
  <2> DEFINE rs == [readyState EXCEPT ![s] = "CLOSED"]
  <2>1. onclose(s)
    BY <1>4 DEF Refused, Broken, Closed
  <2>2. rs \in [Sockets -> States] /\ finishTest(rs, timeouts)
        /\ UNCHANGED <<tests, elapsed, timeouts>>
    BY <2>1 DEF onclose, TypeOK, States
  <2>3. \A q \in Sockets : rs[q] \in {readyState[q], "CLOSED"}
    BY DEF TypeOK
  <2> HIDE DEF rs
  <2>4. finishTest(rs, timeouts')
    BY <2>2
  <2>5. ArmedInv'
    BY <2>2, <2>3, FinishArmed
  <2>6. TimerInv'
    BY <2>2, <2>4, FinishTimer
  <2> QED
    BY <2>5, <2>6
<1>5. ASSUME NEW s \in Sockets, onmessage(s) PROVE ArmedInv' /\ TimerInv'
  <2>1. /\ UNCHANGED <<tests, isRunning, timeouts, elapsed, cutShort>>
        /\ \A q \in Sockets : readyState'[q] \in {readyState[q], "CLOSING"}
    BY <1>5 DEF onmessage, hist_vars, TypeOK
  <2> QED
    BY <2>1 DEF ArmedInv, TimerInv
<1>6. CASE Tick
  <2>1. /\ \A q \in Sockets : timeouts'[q] = Earlier(timeouts[q])
        /\ elapsed' = IF elapsed < Duration THEN elapsed + 1 ELSE elapsed
        /\ UNCHANGED <<tests, isRunning, cutShort, readyState>>
    BY <1>6 DEF Tick, page_vars
  <2>2. \A q \in Sockets : timeouts[q] \in NoTimer .. Duration
    BY DEF TypeOK
  <2>3. elapsed \in 0 .. Duration /\ Duration \in Nat
    BY PageAssumption DEF TypeOK
  <2>4. ASSUME NEW q \in Sockets PROVE timeouts'[q] # NoTimer <=> timeouts[q] # NoTimer
    BY <2>1, <2>2, <2>3 DEF Earlier, NoTimer
  <2>5. ArmedInv'
    BY <2>1, <2>4 DEF ArmedInv
  <2>6. TimerInv'
    <3> SUFFICES ASSUME ~cutShort', NEW q \in Sockets, timeouts'[q] # NoTimer
                 PROVE  isRunning' /\ q = tests' /\ elapsed' + timeouts'[q] = Duration
      BY DEF TimerInv
    <3>1. isRunning /\ q = tests /\ elapsed + timeouts[q] = Duration
      BY <2>1, <2>4 DEF TimerInv
    <3>2. elapsed' + timeouts'[q] = Duration
      BY <2>1, <2>2, <2>3, <3>1 DEF Earlier, NoTimer
    <3> QED
      BY <2>1, <3>1, <3>2
  <2> QED
    BY <2>5, <2>6
<1>7. ASSUME NEW s \in Sockets, ServerStep(s)
      PROVE ArmedInv' /\ TimerInv'
  <2>1. UNCHANGED <<tests, isRunning, timeouts, elapsed, cutShort, readyState>>
    BY <1>7 DEF ServerStep, CreateAndHandle, HandshakeFails, ServerKilled, ServerThread, ServerSend, ServerSendFails, ServerEnds,
                ProcessFrames, page_vars, hist_vars
  <2> QED
    BY <2>1 DEF ArmedInv, TimerInv
<1>8. CASE UNCHANGED vars
  BY <1>8 DEF vars, page_vars, hist_vars, ArmedInv, TimerInv
<1> QED
  BY <1>1, <1>2, <1>3, <1>4, <1>5, <1>6, <1>7, <1>8 DEF Next, ServerStep

-----------------------------------------------------------------------------
(* The theorems *)

(* The initial state is in the invariant. *)
LEMMA InitInv == Init => IInv
<1> SUFFICES ASSUME Init PROVE IInv
  OBVIOUS
<1>1. CreatedInv
  BY PageAssumption DEF Init, CreatedInv, Sockets
<1>2. OneRecordPerTest /\ CountsOwnData
  <2>1. saved = 0 /\ tests = 0 /\ ~isRunning /\ counted = {}
    BY DEF Init
  <2>2. 0 = 0 - 0
    OBVIOUS
  <2>3. OneRecordPerTest
    BY Zenon, <2>1, <2>2 DEF OneRecordPerTest
  <2>4. CountsOwnData
    BY <2>1 DEF CountsOwnData
  <2> QED
    BY <2>3, <2>4
<1>3. OldSocketsAreClosing
  <2>1. ws = Null /\ isRunning = FALSE /\ uiTimer = FALSE /\ 1 .. tests = {}
    BY DEF Init
  <2> QED
    BY Zenon, <2>1 DEF OldSocketsAreClosing
<1>4. ArmedInv /\ TimerInv
  BY DEF Init, ArmedInv, TimerInv
<1> QED
  BY <1>1, <1>2, <1>3, <1>4, InitType DEF IInv, PageInv

(* The invariant is inductive. *)
LEMMA NextInv == IInv /\ [Next]_vars => IInv'
  BY NextType, NextPage, NextTimer DEF IInv

(* The invariant holds in all reachable states. *)
THEOREM Invariant == Spec => []IInv
<1>1. Init => IInv
  BY InitInv
<1>2. IInv /\ [Next]_vars => IInv'
  BY NextInv
<1> QED
  BY <1>1, <1>2, PTL DEF Spec

(* Page, browser and server keep their variables in their types. *)
THEOREM TypeCorrect == Spec => []TypeOK
<1>1. IInv => TypeOK
  BY DEF IInv
<1> QED
  BY <1>1, Invariant, PTL

(* finishTest posts one record for each test, for any number of tests. *)
THEOREM SavedOnce == Spec => []OneRecordPerTest
<1>1. IInv => OneRecordPerTest
  BY DEF IInv, PageInv
<1> QED
  BY <1>1, Invariant, PTL

(* All sockets but that of the running test are closing or closed. *)
THEOREM OldOnesClose == Spec => []OldSocketsAreClosing
<1>1. IInv => OldSocketsAreClosing
  BY DEF IInv, PageInv
<1> QED
  BY <1>1, Invariant, PTL

(* onmessage counts only data of the running test. *)
THEOREM NoForeignData == Spec => []CountsOwnData
<1>1. IInv => CountsOwnData
  BY DEF IInv, PageInv
<1> QED
  BY <1>1, Invariant, PTL

(* A timeout ends a test only when its time is up, as long as none was cut *)
(* short.                                                                  *)
THEOREM TimeoutIsDue == Spec => FullDuration
<1> DEFINE Step == isRunning /\ ~isRunning' /\ timeouts' # timeouts /\ ~cutShort
                     => elapsed = Duration
<1>1. IInv /\ [Next]_vars => [Step]_vars
  <2> SUFFICES ASSUME IInv, Next, isRunning, ~isRunning', timeouts' # timeouts, ~cutShort
               PROVE  elapsed = Duration
    OBVIOUS
  <2>1. ASSUME NEW s \in Sockets, timeout(s) PROVE elapsed = Duration
    <3>1. timeouts[s] = 0 /\ 0 # NoTimer
      BY <2>1 DEF timeout, NoTimer
    <3>2. elapsed + timeouts[s] = Duration
      BY <3>1 DEF IInv, TimerInv
    <3> QED
      BY <3>1, <3>2 DEF IInv, TypeOK
  <2>2. CASE startTest \/ Tick
    BY <2>2 DEF startTest, Tick, page_vars
  <2>3. ASSUME NEW s \in Sockets, onopen(s) \/ onmessage(s) PROVE FALSE
    BY <2>3 DEF onopen, onmessage
  <2>4. ASSUME NEW s \in Sockets, Refused(s) \/ Broken(s) \/ Closed(s) PROVE FALSE
    BY <2>4 DEF Refused, Broken, Closed, onclose
  <2>5. ASSUME NEW s \in Sockets, ServerStep(s)
        PROVE FALSE
    BY <2>5 DEF ServerStep, CreateAndHandle, HandshakeFails, ServerKilled, ServerThread, ServerSend, ServerSendFails, ServerEnds,
                ProcessFrames
  <2> QED
    BY <2>1, <2>2, <2>3, <2>4, <2>5 DEF Next, ServerStep
<1> QED
  BY <1>1, Invariant, PTL DEF Spec, FullDuration

=============================================================================
