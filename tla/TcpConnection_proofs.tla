------------------------- MODULE TcpConnection_proofs -------------------------
(***************************************************************************)
(* What ConnectionBufferManager keeps true, for queues of any length,      *)
(* buffers of any size and calls in any order; what TCPConnection keeps    *)
(* true on top of it for any number of threads, sockets and bytes; and     *)
(* that the sending half of a connection implements BytePipe.              *)
(***************************************************************************)
EXTENDS TcpConnection, LoopInduction

-----------------------------------------------------------------------------
(* The queue *)

Ranges == [lo : Nat, hi : Nat]

(* GetSendQueueSize's loop adds up the buffers one by one. *)
LEMMA BytesInIsSum ==
  ASSUME NEW q \in Seq(Ranges)
  PROVE  \E f \in [0 .. Len(q) -> Int] :
           /\ f[0] = 0
           /\ \A i \in 1 .. Len(q) : f[i] = f[i - 1] + Size(q[i])
           /\ BytesIn(q) = f[Len(q)]
<1> DEFINE n == Len(q)
           G == [p \in Nat \X Int |->
                   IF p[1] \in 1 .. n THEN p[2] + Size(q[p[1]]) ELSE 0]
           P(f) == f = [i \in 0 .. n |-> IF i = 0 THEN 0 ELSE f[i - 1] + Size(q[i])]
           Sum == CHOOSE f : P(f)
<1>1. n \in Nat /\ \A i \in 1 .. n : Size(q[i]) \in Int
  <2>1. \A b \in Ranges : Size(b) \in Int
    BY DEF Ranges, Size
  <2> QED
    BY <2>1
<1> HIDE DEF n
<1>2. G \in [Nat \X Int -> Int]
  <2>1. ASSUME NEW p \in Nat \X Int
        PROVE  (IF p[1] \in 1 .. n THEN p[2] + Size(q[p[1]]) ELSE 0) \in Int
    <3>1. p[2] \in Int
      OBVIOUS
    <3> QED
      BY <3>1, <1>1
  <2> QED
    BY <2>1
<1>3. PICK f \in [0 .. n -> Int] :
             f[0] = 0 /\ \A i \in 1 .. n : f[i] = G[<<i, f[i - 1]>>]
  <2>1. IsBody(G, Int)
    BY <1>2 DEF IsBody
  <2>2. 0 \in Int
    OBVIOUS
  <2>3. \E f : IsTrace(f, n, Int, 0, G)
    <3> HIDE DEF G
    <3> QED
      BY <1>1, <2>1, <2>2, LoopHasTrace
  <2> QED
    BY <2>3 DEF IsTrace
<1>4. f[0] = 0
  BY <1>3
<1>5. ASSUME NEW i \in 1 .. n
      PROVE  f[i] = f[i - 1] + Size(q[i])
  <2>1. i \in 0 .. n /\ i # 0 /\ i - 1 \in 0 .. n /\ i \in Nat
    BY <1>1
  <2>2. f[i] = G[<<i, f[i - 1]>>]
    BY <1>3
  <2>3. <<i, f[i - 1]>> \in Nat \X Int
    BY <2>1
  <2> QED
    BY <2>2, <2>3
<1>6. P(f)
  BY <1>1, <1>4, <1>5
<1>7. P(Sum)
  BY <1>6
<1>8. BytesIn(q) = Sum[n]
  BY DEF BytesIn, n
<1>9. Sum[n] = f[n]
  <2> DEFINE S == {i \in Nat : i <= n => Sum[i] = f[i]}
  <2> HIDE DEF Sum
  <2>1. 0 \in S
    BY <1>1, <1>4, <1>7
  <2>2. ASSUME NEW i \in Nat, i \in S
        PROVE  i + 1 \in S
    <3> SUFFICES ASSUME i + 1 <= n
                 PROVE  Sum[i + 1] = f[i + 1]
      OBVIOUS
    <3>1. i + 1 \in 1 .. n /\ i + 1 \in 0 .. n /\ i + 1 # 0 /\ (i + 1) - 1 = i
      BY <1>1
    <3>2. Sum[i] = f[i]
      BY <2>2, <1>1, <3>1
    <3>3. Sum[i + 1] = Sum[i] + Size(q[i + 1])
      BY <1>7, <3>1
    <3>4. f[i + 1] = f[i] + Size(q[i + 1])
      BY <1>5, <3>1
    <3> QED
      BY <3>2, <3>3, <3>4
  <2>3. n \in S
    <3> HIDE DEF S
    <3> QED
      BY <2>1, <2>2, <1>1, SetInduction
  <2> QED
    BY <2>3, <1>1
<1> QED
  BY <1>4, <1>5, <1>8, <1>9 DEF n

Contiguous(q) == \A i \in 1 .. Len(q) - 1 : q[i].hi = q[i + 1].lo

(* The size of a gapless queue is the distance between its ends. *)
LEMMA BytesInContiguous ==
  ASSUME NEW q \in Seq(Ranges), q # <<>>, Contiguous(q)
  PROVE  BytesIn(q) = q[Len(q)].hi - q[1].lo
<1>1. PICK f \in [0 .. Len(q) -> Int] :
             /\ f[0] = 0
             /\ \A i \in 1 .. Len(q) : f[i] = f[i - 1] + Size(q[i])
             /\ BytesIn(q) = f[Len(q)]
  BY BytesInIsSum
<1> DEFINE n == Len(q)
           S == {i \in Nat : i < n => f[i + 1] = q[i + 1].hi - q[1].lo}
<1>2. n \in Nat /\ n >= 1
  OBVIOUS
<1>3. \A i \in 1 .. n : q[i].lo \in Nat /\ q[i].hi \in Nat
  <2>1. \A i \in 1 .. n : q[i] \in Ranges
    OBVIOUS
  <2> QED
    BY <2>1 DEF Ranges
<1>4. \A i \in 1 .. n : f[i] = f[i - 1] + (q[i].hi - q[i].lo)
  BY <1>1 DEF Size
<1>5. \A i \in 1 .. n - 1 : q[i].hi = q[i + 1].lo
  BY DEF Contiguous
<1>6. f[0] = 0 /\ BytesIn(q) = f[n]
  BY <1>1
<1> HIDE DEF n
<1>7. 0 \in S
  <2>1. 1 \in 1 .. n /\ 1 - 1 = 0 /\ 0 + 1 = 1
    BY <1>2
  <2>2. f[1] = f[0] + (q[1].hi - q[1].lo)
    BY <1>4, <2>1
  <2> QED
    BY <2>1, <2>2, <1>3, <1>6
<1>8. ASSUME NEW i \in Nat, i \in S
      PROVE  i + 1 \in S
  <2> SUFFICES ASSUME i + 1 < n
               PROVE  f[i + 2] = q[i + 2].hi - q[1].lo
    OBVIOUS
  <2>1. /\ i + 1 \in 1 .. n - 1 /\ i + 1 \in 1 .. n /\ i + 2 \in 1 .. n /\ 1 \in 1 .. n
        /\ (i + 1) + 1 = i + 2 /\ (i + 2) - 1 = i + 1 /\ i < n
    BY <1>2
  <2>2. f[i + 1] = q[i + 1].hi - q[1].lo
    BY <1>8, <2>1
  <2>3. f[i + 2] = f[i + 1] + (q[i + 2].hi - q[i + 2].lo)
    BY <1>4, <2>1
  <2>4. q[i + 1].hi = q[i + 2].lo
    BY <1>5, <2>1
  <2>5. q[1].lo \in Nat /\ q[i + 1].hi \in Nat /\ q[i + 2].hi \in Nat
    BY <1>3, <2>1
  <2> QED
    BY <2>2, <2>3, <2>4, <2>5
<1>9. n - 1 \in S
  <2>1. n - 1 \in Nat
    BY <1>2
  <2> HIDE DEF S
  <2> QED
    BY <1>7, <1>8, <2>1, SetInduction
<1>10. n - 1 < n /\ (n - 1) + 1 = n
  BY <1>2
<1>11. f[n] = q[n].hi - q[1].lo
  BY <1>9, <1>10
<1> QED
  BY <1>6, <1>11 DEF n

(* An empty queue has no bytes. *)
LEMMA BytesInEmpty == BytesIn(<<>>) = 0
<1>1. <<>> \in Seq(Ranges) /\ Len(<<>>) = 0
  OBVIOUS
<1>2. PICK f \in [0 .. Len(<<>>) -> Int] :
             /\ f[0] = 0
             /\ \A i \in 1 .. Len(<<>>) : f[i] = f[i - 1] + Size(<<>>[i])
             /\ BytesIn(<<>>) = f[Len(<<>>)]
  BY <1>1, BytesInIsSum
<1> QED
  BY <1>1, <1>2

-----------------------------------------------------------------------------
(* The loop of ConsumeSend *)

(* The queue, with `consumed' bytes of its front gone, holds the bytes     *)
(* from + 1 .. to.                                                         *)
Rest(queue, consumed, from, to) ==
  /\ queue \in Seq(Ranges)
  /\ consumed \in Nat /\ from \in Nat /\ to \in Nat
  /\ \A i \in 1 .. Len(queue) : queue[i].lo < queue[i].hi
  /\ Contiguous(queue)
  /\ queue # <<>> =>
       /\ queue[1].lo + consumed = from
       /\ consumed < Size(queue[1])
       /\ queue[Len(queue)].hi = to
  /\ queue = <<>> => consumed = 0 /\ from = to

LoopStates == [bytes : Nat, queue : Seq(Ranges), consumed : Nat]

(* A round of the loop keeps the types. *)
LEMMA ConsumeStepType ==
  ASSUME NEW s \in LoopStates
  PROVE  ConsumeStep(s) \in LoopStates
<1>1. s.bytes \in Nat /\ s.queue \in Seq(Ranges) /\ s.consumed \in Nat
  BY DEF LoopStates
<1>2. CASE s.bytes = 0 \/ s.queue = <<>>
  BY <1>2 DEF ConsumeStep
<1>3. CASE ~ (s.bytes = 0 \/ s.queue = <<>>)
  <2> DEFINE remaining == Size(Head(s.queue)) - s.consumed
  <2>1. Head(s.queue) \in Ranges /\ Tail(s.queue) \in Seq(Ranges)
    BY <1>1, <1>3
  <2>2. remaining \in Int
    BY <1>1, <2>1 DEF Ranges, Size
  <2>3. ConsumeStep(s) = IF s.bytes < remaining
                           THEN [s EXCEPT !.bytes = 0, !.consumed = @ + s.bytes]
                           ELSE [bytes |-> s.bytes - remaining, queue |-> Tail(s.queue),
                                 consumed |-> 0]
    BY <1>3 DEF ConsumeStep
  <2> HIDE DEF remaining
  <2>4. CASE s.bytes < remaining
    <3>1. ConsumeStep(s) = [s EXCEPT !.bytes = 0, !.consumed = @ + s.bytes]
      BY <2>3, <2>4
    <3>2. s.consumed + s.bytes \in Nat
      BY <1>1
    <3>3. ConsumeStep(s) = [bytes |-> 0, queue |-> s.queue, consumed |-> s.consumed + s.bytes]
      BY <3>1 DEF LoopStates
    <3> QED
      BY <3>2, <3>3, <1>1 DEF LoopStates
  <2>5. CASE ~ (s.bytes < remaining)
    <3>1. s.bytes - remaining \in Nat
      BY <2>5, <2>2, <1>1
    <3> QED
      BY <2>3, <2>5, <3>1, <2>1 DEF LoopStates
  <2> QED
    BY <2>4, <2>5
<1> QED
  BY <1>2, <1>3

(* A round of the loop takes bytes off the front and nothing else, and     *)
(* each round that does not end the loop drops a buffer.                   *)
LEMMA ConsumeStepRest ==
  ASSUME NEW s \in LoopStates, NEW from, NEW to,
         Rest(s.queue, s.consumed, from, to)
  PROVE  LET t == ConsumeStep(s)
         IN  /\ t.bytes <= s.bytes
             /\ Rest(t.queue, t.consumed, from + (s.bytes - t.bytes), to)
             /\ \/ t.bytes = 0
                \/ t.queue = <<>>
                \/ Len(t.queue) = Len(s.queue) - 1
<1> DEFINE t == ConsumeStep(s)
           q == s.queue
           remaining == Size(Head(q)) - s.consumed
<1>1. s.bytes \in Nat /\ q \in Seq(Ranges) /\ s.consumed \in Nat
  BY DEF LoopStates
<1>2. /\ from \in Nat /\ to \in Nat
      /\ \A i \in 1 .. Len(q) : q[i].lo < q[i].hi
      /\ \A i \in 1 .. Len(q) - 1 : q[i].hi = q[i + 1].lo
  BY DEF Rest, Contiguous
<1>3. CASE s.bytes = 0 \/ q = <<>>
  <2>1. t = s
    BY <1>3 DEF ConsumeStep
  <2>2. from + (s.bytes - s.bytes) = from
    BY <1>1, <1>2
  <2> HIDE DEF t
  <2>3. t.bytes <= s.bytes
    BY <2>1, <1>1
  <2>4. Rest(t.queue, t.consumed, from + (s.bytes - t.bytes), to)
    BY <2>1, <2>2
  <2> QED
    BY <2>1, <2>3, <2>4, <1>3 DEF t
<1>4. CASE ~ (s.bytes = 0 \/ q = <<>>)
  <2>1. Head(q) = q[1] /\ Tail(q) \in Seq(Ranges) /\ Len(q) \in Nat /\ Len(q) >= 1
    BY <1>1, <1>4
  <2>2. \A i \in 1 .. Len(q) : q[i].lo \in Nat /\ q[i].hi \in Nat
    <3>1. \A i \in 1 .. Len(q) : q[i] \in Ranges
      BY <1>1
    <3> QED
      BY <3>1 DEF Ranges
  <2>3. /\ q[1].lo + s.consumed = from
        /\ s.consumed < q[1].hi - q[1].lo
        /\ q[Len(q)].hi = to
    BY <1>4 DEF Rest, Size
  <2>4. q[1].lo \in Nat /\ q[1].hi \in Nat
    BY <2>1, <2>2
  <2>5. remaining = q[1].hi - from /\ remaining \in Nat
    BY <2>1, <2>3, <2>4, <1>1, <1>2 DEF Size
  <2>6. t = IF s.bytes < remaining
              THEN [s EXCEPT !.bytes = 0, !.consumed = @ + s.bytes]
              ELSE [bytes |-> s.bytes - remaining, queue |-> Tail(q), consumed |-> 0]
    BY <1>4 DEF ConsumeStep
  <2> HIDE DEF t, remaining
  <2>7. CASE s.bytes < remaining
    <3>1. t.bytes = 0 /\ t.queue = q /\ t.consumed = s.consumed + s.bytes
      BY <2>6, <2>7 DEF LoopStates
    <3>2. from + (s.bytes - t.bytes) = from + s.bytes
      BY <3>1, <1>1, <1>2
    <3>3. q[1].lo + (s.consumed + s.bytes) = from + s.bytes
      BY <2>3, <2>4, <1>1
    <3>4. s.consumed + s.bytes < q[1].hi - q[1].lo
      <4>1. s.bytes < q[1].hi - (q[1].lo + s.consumed)
        BY <2>3, <2>5, <2>7
      <4> QED
        BY <4>1, <2>4, <1>1
    <3>5. Rest(q, s.consumed + s.bytes, from + s.bytes, to)
      BY <3>3, <3>4, <2>3, <1>1, <1>2, <1>4 DEF Rest, Contiguous, Size
    <3>6. t.bytes <= s.bytes
      BY <3>1, <1>1
    <3> QED
      BY <3>1, <3>2, <3>5, <3>6 DEF t
  <2>8. CASE ~ (s.bytes < remaining)
    <3> DEFINE u == Tail(q)
    <3>1. t.bytes = s.bytes - remaining /\ t.queue = u /\ t.consumed = 0
      BY <2>6, <2>8
    <3>2. from + (s.bytes - t.bytes) = q[1].hi
      BY <3>1, <2>4, <2>5, <1>1, <1>2
    <3>3. /\ Len(u) = Len(q) - 1 /\ u \in Seq(Ranges)
          /\ \A i \in 1 .. Len(u) : u[i] = q[i + 1]
      BY <1>1, <1>4
    <3> HIDE DEF u
    <3>4. \A i \in 1 .. Len(u) : u[i].lo < u[i].hi
      <4>1. \A i \in 1 .. Len(u) : i + 1 \in 1 .. Len(q)
        BY <3>3, <2>1
      <4> QED
        BY <4>1, <3>3, <1>2
    <3>5. ASSUME NEW i \in 1 .. Len(u) - 1
          PROVE  u[i].hi = u[i + 1].lo
      <4>1. /\ i \in 1 .. Len(u) /\ i + 1 \in 1 .. Len(u)
            /\ i + 1 \in 1 .. Len(q) - 1
        BY <3>3, <2>1
      <4>2. u[i] = q[i + 1] /\ u[i + 1] = q[(i + 1) + 1]
        BY <4>1, <3>3
      <4>3. q[i + 1].hi = q[(i + 1) + 1].lo
        BY <4>1, <1>2
      <4> QED
        BY <4>2, <4>3
    <3>6. ASSUME u # <<>>
          PROVE  /\ u[1].lo + 0 = q[1].hi
                 /\ 0 < Size(u[1])
                 /\ u[Len(u)].hi = to
      <4>1. Len(u) >= 1 /\ 1 \in 1 .. Len(u) /\ Len(u) \in 1 .. Len(u)
        BY <3>3, <3>6, <2>1
      <4>2. u[1] = q[2] /\ u[Len(u)] = q[Len(q)]
        <5>1. u[1] = q[1 + 1] /\ u[Len(u)] = q[Len(u) + 1]
          BY <4>1, <3>3
        <5>2. Len(u) + 1 = Len(q) /\ 1 + 1 = 2
          BY <3>3, <2>1
        <5> QED
          BY <5>1, <5>2
      <4>3. 1 \in 1 .. Len(q) - 1 /\ 2 \in 1 .. Len(q)
        BY <4>1, <3>3, <2>1
      <4>4. q[1].hi = q[1 + 1].lo /\ 1 + 1 = 2
        BY <4>3, <1>2
      <4>5. q[2].lo < q[2].hi /\ q[2].lo \in Nat /\ q[2].hi \in Nat
        BY <4>3, <1>2, <2>2
      <4> QED
        BY <4>2, <4>4, <4>5, <2>3, <2>4 DEF Size
    <3>7. ASSUME u = <<>>
          PROVE  q[1].hi = to
      <4>1. Len(q) = 1
        BY <3>3, <3>7, <2>1
      <4> QED
        BY <4>1, <2>3
    <3>8. Rest(u, 0, q[1].hi, to)
      BY <3>3, <3>4, <3>5, <3>6, <3>7, <2>4, <1>2 DEF Rest, Contiguous
    <3>9. t.bytes <= s.bytes
      BY <3>1, <2>5, <1>1
    <3> QED
      BY <3>1, <3>2, <3>3, <3>8, <3>9 DEF t
  <2> QED
    BY <2>7, <2>8
<1> QED
  BY <1>3, <1>4

(* The rounds of ConsumeSend's loop, one by one. *)
LEMMA ConsumeLoopIsTrace ==
  ASSUME NEW b \in Nat, send_queue \in Seq(Ranges), send_consumed \in Nat
  PROVE  \E f \in [0 .. Len(send_queue) -> LoopStates] :
           /\ f[0] = [bytes |-> b, queue |-> send_queue, consumed |-> send_consumed]
           /\ \A i \in 1 .. Len(send_queue) : f[i] = ConsumeStep(f[i - 1])
           /\ ConsumeLoop(b) = f[Len(send_queue)]
<1> DEFINE n == Len(send_queue)
           start == [bytes |-> b, queue |-> send_queue, consumed |-> send_consumed]
           G == [p \in Nat \X LoopStates |-> ConsumeStep(p[2])]
           P(f) == f = [i \in 0 .. n |-> IF i = 0 THEN start ELSE ConsumeStep(f[i - 1])]
           Round == CHOOSE f : P(f)
<1>1. n \in Nat /\ start \in LoopStates
  BY DEF LoopStates
<1>2. ConsumeLoop(b) = Round[n]
  BY DEF ConsumeLoop, n, start
<1>3. IsBody(G, LoopStates)
  <2>1. ASSUME NEW p \in Nat \X LoopStates
        PROVE  ConsumeStep(p[2]) \in LoopStates
    <3>1. p[2] \in LoopStates
      OBVIOUS
    <3> QED
      BY <3>1, ConsumeStepType
  <2> QED
    BY <2>1 DEF IsBody
<1> HIDE DEF n, start
<1>4. \E f : IsTrace(f, n, LoopStates, start, G)
  <2> HIDE DEF G
  <2> QED
    BY <1>1, <1>3, LoopHasTrace
<1>5. PICK f : IsTrace(f, n, LoopStates, start, G)
  BY <1>4
<1>6. f \in [0 .. n -> LoopStates] /\ f[0] = start
  BY <1>5 DEF IsTrace
<1>7. ASSUME NEW i \in 1 .. n
      PROVE  f[i] = ConsumeStep(f[i - 1])
  <2>1. i - 1 \in 0 .. n /\ i \in Nat
    BY <1>1
  <2>2. f[i] = G[<<i, f[i - 1]>>]
    <3> HIDE DEF G
    <3> QED
      BY <1>5 DEF IsTrace
  <2>3. <<i, f[i - 1]>> \in Nat \X LoopStates
    BY <2>1, <1>6
  <2> QED
    BY <2>2, <2>3
<1>8. P(f)
  BY <1>1, <1>6, <1>7
<1>9. P(Round)
  BY <1>8
<1>10. Round[n] = f[n]
  <2> DEFINE S == {i \in Nat : i <= n => Round[i] = f[i]}
  <2> HIDE DEF Round
  <2>1. 0 \in S
    BY <1>1, <1>6, <1>9
  <2>2. ASSUME NEW i \in Nat, i \in S
        PROVE  i + 1 \in S
    <3> SUFFICES ASSUME i + 1 <= n
                 PROVE  Round[i + 1] = f[i + 1]
      OBVIOUS
    <3>1. i + 1 \in 1 .. n /\ i + 1 \in 0 .. n /\ i + 1 # 0 /\ (i + 1) - 1 = i
      BY <1>1
    <3>2. Round[i] = f[i]
      BY <2>2, <1>1, <3>1
    <3>3. Round[i + 1] = ConsumeStep(Round[i])
      BY <1>9, <3>1
    <3>4. f[i + 1] = ConsumeStep(f[i])
      BY <1>7, <3>1
    <3> QED
      BY <3>2, <3>3, <3>4
  <2>3. n \in S
    <3> HIDE DEF S
    <3> QED
      BY <2>1, <2>2, <1>1, SetInduction
  <2> QED
    BY <2>3, <1>1
<1> HIDE DEF Round
<1> QED
  BY <1>2, <1>6, <1>7, <1>10 DEF n, start

(* The loop of ConsumeSend takes exactly what it counts off the front, and *)
(* ends with all bytes taken or nothing left to take.                      *)
LEMMA ConsumeLoopRest ==
  ASSUME NEW b \in Nat, Rest(send_queue, send_consumed, removed, written)
  PROVE  LET end == ConsumeLoop(b)
         IN  /\ end.bytes \in 0 .. b
             /\ Rest(end.queue, end.consumed, removed + (b - end.bytes), written)
             /\ end.bytes = 0 \/ end.queue = <<>>
<1> DEFINE n == Len(send_queue)
           start == [bytes |-> b, queue |-> send_queue, consumed |-> send_consumed]
           Good(i, s) ==
             /\ s.bytes <= b
             /\ Rest(s.queue, s.consumed, removed + (b - s.bytes), written)
             /\ \/ s.bytes = 0
                \/ s.queue = <<>>
                \/ Len(s.queue) = n - i
<1>1. send_queue \in Seq(Ranges) /\ send_consumed \in Nat /\ removed \in Nat
  BY DEF Rest
<1>2. PICK f \in [0 .. n -> LoopStates] :
             /\ f[0] = start
             /\ \A i \in 1 .. n : f[i] = ConsumeStep(f[i - 1])
             /\ ConsumeLoop(b) = f[n]
  BY <1>1, ConsumeLoopIsTrace
<1>3. n \in Nat
  BY <1>1
<1> DEFINE S == {i \in Nat : i <= n => Good(i, f[i])}
<1>4. 0 \in S
  <2>1. start.bytes = b /\ start.queue = send_queue /\ start.consumed = send_consumed
    OBVIOUS
  <2>2. removed + (b - b) = removed /\ n - 0 = n
    BY <1>1, <1>3
  <2> HIDE DEF start
  <2>3. Good(0, start)
    BY <2>1, <2>2
  <2> HIDE DEF Good
  <2> QED
    BY <2>3, <1>2
<1>5. ASSUME NEW i \in Nat, i \in S
      PROVE  i + 1 \in S
  <2> SUFFICES ASSUME i + 1 <= n
               PROVE  Good(i + 1, f[i + 1])
    OBVIOUS
  <2> DEFINE s == f[i]
             t == f[i + 1]
  <2>1. i \in 0 .. n /\ i + 1 \in 0 .. n /\ i + 1 \in 1 .. n /\ (i + 1) - 1 = i
    BY <1>3
  <2>2. s \in LoopStates /\ t \in LoopStates /\ t = ConsumeStep(s)
    BY <2>1, <1>2
  <2>3. Good(i, s)
    BY <1>5, <2>1
  <2> HIDE DEF s, t, n
  <2>4. /\ t.bytes <= s.bytes
        /\ Rest(t.queue, t.consumed, (removed + (b - s.bytes)) + (s.bytes - t.bytes), written)
        /\ \/ t.bytes = 0
           \/ t.queue = <<>>
           \/ Len(t.queue) = Len(s.queue) - 1
    BY <2>2, <2>3, ConsumeStepRest
  <2>5. s.bytes \in Nat /\ t.bytes \in Nat
    BY <2>2 DEF LoopStates
  <2>6. (removed + (b - s.bytes)) + (s.bytes - t.bytes) = removed + (b - t.bytes)
    BY <2>5, <1>1
  <2>7. t.bytes <= b
    BY <2>3, <2>4, <2>5
  <2>8. t.bytes = 0 \/ t.queue = <<>> \/ Len(t.queue) = n - (i + 1)
    <3>1. CASE s.bytes = 0 \/ s.queue = <<>>
      <4>1. t = s
        BY <3>1, <2>2 DEF ConsumeStep
      <4> QED
        BY <3>1, <4>1
    <3>2. CASE Len(s.queue) = n - i
      BY <3>2, <2>4, <1>3
    <3> QED
      BY <3>1, <3>2, <2>3
  <2>9. Good(i + 1, t)
    BY <2>4, <2>6, <2>7, <2>8
  <2> QED
    BY <2>9 DEF t
<1>6. n \in S
  <2> HIDE DEF S
  <2> QED
    BY <1>3, <1>4, <1>5, SetInduction
<1> DEFINE end == ConsumeLoop(b)
<1>7. Good(n, end) /\ end \in LoopStates
  BY <1>2, <1>3, <1>6
<1> HIDE DEF end
<1>8. end.bytes \in Nat /\ end.queue \in Seq(Ranges)
  BY <1>7 DEF LoopStates
<1>9. Len(end.queue) = n - n => end.queue = <<>>
  BY <1>8, <1>3
<1>10. end.bytes \in 0 .. b
  BY <1>7, <1>8
<1> QED
  BY <1>7, <1>9, <1>10 DEF end

-----------------------------------------------------------------------------
(* The inductive invariant.  QueueIsTheRest alone is not inductive: it     *)
(* says nothing of the buffers behind the front one, and an empty one      *)
(* there would make send_consumed = 0 illegal when ConsumeSend reaches it. *)

SendInv == Rest(send_queue, send_consumed, removed, written)

ReceiveInv ==
  /\ capacity \in Nat /\ receive_committed \in Nat /\ room \in Nat
  /\ room <= capacity - receive_committed

BufferInv == SendInv /\ ReceiveInv /\ max_send_queue_size \in Nat

(* GetSendQueueSize is what was accepted and not removed since. *)
LEMMA SendQueueSize ==
  ASSUME SendInv
  PROVE  GetSendQueueSize = written - removed
<1>1. CASE send_queue = <<>>
  <2>1. send_consumed = 0 /\ removed = written /\ written \in Nat
    BY <1>1 DEF SendInv, Rest
  <2> QED
    BY <1>1, <2>1, BytesInEmpty DEF GetSendQueueSize
<1>2. CASE send_queue # <<>>
  <2>1. /\ send_queue \in Seq(Ranges) /\ Contiguous(send_queue)
        /\ send_queue[1].lo + send_consumed = removed
        /\ send_queue[Len(send_queue)].hi = written
        /\ send_consumed \in Nat /\ written \in Nat
    BY <1>2 DEF SendInv, Rest
  <2>2. send_queue[1] \in Ranges
    BY <1>2, <2>1
  <2>3. send_queue[1].lo \in Nat
    BY <2>2 DEF Ranges
  <2>4. BytesIn(send_queue) = written - send_queue[1].lo
    BY <1>2, <2>1, BytesInContiguous
  <2> QED
    BY <2>1, <2>3, <2>4 DEF GetSendQueueSize
<1> QED
  BY <1>1, <1>2

(* The invariant says what the properties say. *)
LEMMA InvGivesProperties ==
  ASSUME BufferInv
  PROVE  QueueIsTheRest /\ PreparedRoomIsThere
<1>1. PreparedRoomIsThere
  BY DEF BufferInv, ReceiveInv, PreparedRoomIsThere, Free
<1>2. send_queue \in Seq(Ranges)
  BY DEF BufferInv, SendInv, Rest
<1>3. send_queue # <<>> => Head(send_queue) = send_queue[1]
  BY <1>2
<1>4. GetSendQueueSize = written - removed
  BY SendQueueSize DEF BufferInv
<1>5. QueueIsTheRest
  BY <1>3, <1>4 DEF BufferInv, SendInv, Rest, Contiguous, QueueIsTheRest
<1> QED
  BY <1>1, <1>5

(* A fresh ConnectionBufferManager. *)
LEMMA BufferInitInv ==
  ASSUME BufferInit
  PROVE  BufferInv
<1>1. SendInv
  BY DEF BufferInit, SendInv, Rest, Contiguous
<1> QED
  BY <1>1, BufferAssumption DEF BufferInit, BufferInv, ReceiveInv

(* Appending a buffer of n > 0 new bytes. *)
LEMMA AcceptInv ==
  ASSUME NEW n \in Nat, n > 0, SendInv, Accept(n)
  PROVE  SendInv'
<1> DEFINE q == send_queue
           b == [lo |-> written, hi |-> written + n]
           u == Append(q, b)
<1>1. /\ q \in Seq(Ranges) /\ send_consumed \in Nat /\ removed \in Nat /\ written \in Nat
      /\ \A i \in 1 .. Len(q) : q[i].lo < q[i].hi
      /\ \A i \in 1 .. Len(q) - 1 : q[i].hi = q[i + 1].lo
  BY DEF SendInv, Rest, Contiguous
<1>2. /\ send_queue' = u /\ written' = written + n
      /\ send_consumed' = send_consumed /\ removed' = removed
  BY DEF Accept
<1>3. b \in Ranges /\ b.lo = written /\ b.hi = written + n /\ b.lo < b.hi
  BY <1>1 DEF Ranges
<1>4. written + n \in Nat
  BY <1>1
<1> HIDE DEF b
<1>5. /\ u \in Seq(Ranges) /\ Len(u) = Len(q) + 1 /\ u[Len(u)] = b /\ u # <<>>
      /\ \A i \in 1 .. Len(q) : u[i] = q[i]
      /\ Len(q) \in Nat
  <2>1. u \in Seq(Ranges) /\ Len(u) = Len(q) + 1 /\ Len(q) \in Nat
    BY <1>1, <1>3
  <2>2. u[Len(q) + 1] = b
    BY <1>1, <1>3
  <2>3. \A i \in 1 .. Len(q) : u[i] = q[i]
    BY <1>1, <1>3
  <2>4. u # <<>>
    <3> HIDE DEF u
    <3> QED
      BY <2>1
  <2> QED
    BY <2>1, <2>2, <2>3, <2>4
<1> HIDE DEF u
<1>6. \A i \in 1 .. Len(u) : u[i].lo < u[i].hi
  <2>1. \A i \in 1 .. Len(u) : i \in 1 .. Len(q) \/ i = Len(u)
    BY <1>5
  <2> QED
    BY <2>1, <1>1, <1>3, <1>5
<1>7. Contiguous(u)
  <2> SUFFICES ASSUME NEW i \in 1 .. Len(u) - 1
               PROVE  u[i].hi = u[i + 1].lo
    BY DEF Contiguous
  <2>1. i \in 1 .. Len(q) /\ u[i] = q[i]
    BY <1>5
  <2>2. CASE i = Len(q)
    <3>1. u[i + 1] = b
      BY <2>2, <1>5
    <3>2. q # <<>>
      BY <2>1, <1>1
    <3>3. q[Len(q)].hi = written
      BY <3>2 DEF SendInv, Rest
    <3> QED
      BY <3>1, <3>3, <2>1, <2>2, <1>3
  <2>3. CASE i # Len(q)
    <3>1. i \in 1 .. Len(q) - 1 /\ i + 1 \in 1 .. Len(q)
      BY <2>1, <2>3, <1>5
    <3>2. u[i + 1] = q[i + 1] /\ q[i].hi = q[i + 1].lo
      BY <3>1, <1>1, <1>5
    <3> QED
      BY <3>2, <2>1
  <2> QED
    BY <2>2, <2>3
<1>8. u[1].lo + send_consumed = removed /\ send_consumed < Size(u[1])
  <2>1. CASE q = <<>>
    <3>1. send_consumed = 0 /\ removed = written
      BY <2>1 DEF SendInv, Rest
    <3>2. u[1] = b
      BY <2>1, <1>5
    <3> QED
      BY <3>1, <3>2, <1>1, <1>3 DEF Size
  <2>2. CASE q # <<>>
    <3>1. 1 \in 1 .. Len(q)
      BY <2>2, <1>1
    <3>2. u[1] = q[1]
      BY <3>1, <1>5
    <3> QED
      BY <2>2, <3>2 DEF SendInv, Rest
  <2> QED
    BY <2>1, <2>2
<1>9. Rest(u, send_consumed, removed, written + n)
  BY <1>1, <1>3, <1>4, <1>5, <1>6, <1>7, <1>8 DEF Rest
<1> QED
  BY <1>2, <1>9 DEF SendInv

(* ConsumeSend, for any number of bytes. *)
LEMMA ConsumeSendInv ==
  ASSUME NEW n \in Nat, BufferInv, ConsumeSend(n)
  PROVE  BufferInv'
<1> DEFINE end == ConsumeLoop(n)
<1>1. Rest(end.queue, end.consumed, removed + (n - end.bytes), written)
  BY ConsumeLoopRest DEF BufferInv, SendInv
<1>2. /\ send_queue' = end.queue /\ send_consumed' = end.consumed
      /\ removed' = removed + (n - end.bytes)
      /\ UNCHANGED <<max_send_queue_size, written, receive_vars>>
  BY DEF ConsumeSend
<1> HIDE DEF end
<1>3. SendInv'
  BY <1>1, <1>2 DEF SendInv
<1> QED
  BY <1>2, <1>3 DEF BufferInv, ReceiveInv, receive_vars

(* EnqueueSend, whether it accepts the bytes or not. *)
LEMMA EnqueueSendInv ==
  ASSUME NEW n \in Nat, n > 0, BufferInv, EnqueueSend(n)
  PROVE  BufferInv'
<1>1. SendInv'
  <2>1. CASE Accept(n)
    BY <2>1, AcceptInv DEF BufferInv
  <2>2. CASE Refuse
    BY <2>2 DEF BufferInv, SendInv, Refuse, send_vars
  <2> QED
    BY <2>1, <2>2 DEF EnqueueSend
<1> QED
  BY <1>1 DEF EnqueueSend, BufferInv, ReceiveInv, receive_vars

(* ClearAll. *)
LEMMA ClearAllInv ==
  ASSUME BufferInv, ClearAll
  PROVE  BufferInv'
<1>1. SendInv'
  BY DEF ClearAll, BufferInv, SendInv, Rest, Contiguous
<1> QED
  BY <1>1 DEF ClearAll, BufferInv, ReceiveInv

(* GetReceiveBuffer. *)
LEMMA GetReceiveBufferInv ==
  ASSUME BufferInv, GetReceiveBuffer
  PROVE  BufferInv'
<1>1. SendInv'
  BY DEF GetReceiveBuffer, BufferInv, SendInv, send_vars
<1>2. ReceiveInv'
  BY BufferAssumption DEF GetReceiveBuffer, BufferInv, ReceiveInv
<1> QED
  BY <1>1, <1>2 DEF GetReceiveBuffer, BufferInv

(* SetMaxSendQueueSize. *)
LEMMA SetMaxInv ==
  ASSUME NEW size \in Limits, BufferInv, SetMaxSendQueueSize(size)
  PROVE  BufferInv'
<1>1. SendInv'
  BY DEF SetMaxSendQueueSize, BufferInv, SendInv, send_vars
<1> QED
  BY <1>1, BufferAssumption
  DEF SetMaxSendQueueSize, BufferInv, ReceiveInv, receive_vars

(* PrepareReceive, with whatever the strategy proposes. *)
LEMMA PrepareReceiveInv ==
  ASSUME NEW n \in Nat, BufferInv, PrepareReceive(n)
  PROVE  BufferInv'
<1>1. SendInv'
  BY DEF PrepareReceive, BufferInv, SendInv, send_vars
<1>2. /\ capacity \in Nat /\ receive_committed \in Nat /\ room \in Nat
      /\ room <= capacity - receive_committed
      /\ receive_committed' = receive_committed /\ room' = n
  BY DEF PrepareReceive, BufferInv, ReceiveInv
<1>3. capacity' \in Nat /\ n <= capacity' - receive_committed
  <2>1. CASE capacity = 0 /\ capacity' = n
    BY <2>1, <1>2
  <2>2. CASE capacity # 0 /\ Free >= n /\ UNCHANGED capacity
    BY <2>2, <1>2 DEF Free
  <2>3. CASE \E strategy \in 0 .. MaxCapacity : capacity' = Grown(n, strategy)
    BY <2>3, <1>2 DEF Grown
  <2> QED
    BY <2>1, <2>2, <2>3 DEF PrepareReceive
<1> QED
  BY <1>1, <1>2, <1>3 DEF PrepareReceive, BufferInv, ReceiveInv

(* CommitReceive. *)
LEMMA CommitReceiveInv ==
  ASSUME BufferInv, NEW n \in 1 .. Free, CommitReceive(n)
  PROVE  BufferInv'
<1>1. SendInv'
  BY DEF CommitReceive, BufferInv, SendInv, send_vars
<1>2. ReceiveInv'
  BY DEF CommitReceive, BufferInv, ReceiveInv, Free
<1> QED
  BY <1>1, <1>2 DEF CommitReceive, BufferInv

(* The operations of the buffer manager keep the invariant. *)
LEMMA BufferNextInv ==
  ASSUME BufferInv, [BufferNext]_buffer_vars
  PROVE  BufferInv'
<1>1. ASSUME NEW n \in 1 .. MaxBytes, EnqueueSend(n) \/ ConsumeSend(n)
      PROVE  BufferInv'
  BY <1>1, EnqueueSendInv, ConsumeSendInv
<1>2. ASSUME NEW size \in Limits, SetMaxSendQueueSize(size)
      PROVE  BufferInv'
  BY <1>2, SetMaxInv
<1>3. ASSUME NEW n \in 1 .. MaxCapacity, PrepareReceive(n)
      PROVE  BufferInv'
  BY <1>3, PrepareReceiveInv
<1>4. CASE GetReceiveBuffer
  BY <1>4, GetReceiveBufferInv
<1>5. CASE ClearAll
  BY <1>5, ClearAllInv
<1>6. CASE UNCHANGED buffer_vars
  BY <1>6 DEF buffer_vars, BufferInv, SendInv, ReceiveInv
<1>7. ASSUME NEW n \in 1 .. Free, CommitReceive(n)
      PROVE  BufferInv'
  BY <1>7, CommitReceiveInv
<1> QED
  BY <1>1, <1>2, <1>3, <1>4, <1>5, <1>6, <1>7 DEF BufferNext

(* Every reachable buffer manager satisfies the invariant. *)
THEOREM BufferInvariance == BufferSpec => []BufferInv
<1>1. BufferInit => BufferInv
  BY BufferInitInv
<1>2. BufferInv /\ [BufferNext]_buffer_vars => BufferInv'
  BY BufferNextInv
<1> QED
  BY <1>1, <1>2, PTL DEF BufferSpec

(* EnqueueSend, ConsumeSend and ClearAll never lose, repeat or reorder a   *)
(* byte, and GetSendQueueSize is exact, for queues of any length.          *)
THEOREM QueueCorrect == BufferSpec => []QueueIsTheRest
<1>1. BufferInv => QueueIsTheRest
  BY InvGivesProperties
<1> QED
  BY <1>1, BufferInvariance, PTL

(* What PrepareReceive promised is there until it is filled, whatever the  *)
(* growth strategy proposes.                                               *)
THEOREM PreparedRoomKept == BufferSpec => []PreparedRoomIsThere
<1>1. BufferInv => PreparedRoomIsThere
  BY InvGivesProperties
<1> QED
  BY <1>1, BufferInvariance, PTL

-----------------------------------------------------------------------------
(* The life cycle.  Two facts that the properties leave out carry the      *)
(* induction: a connection is CONNECTED only with a socket that is open    *)
(* and not shut down, and the kernel's next socket is none of the ones     *)
(* that were shut down before.                                             *)

LifeInv ==
  /\ tpc \in [Threads -> {"idle", "Send", "Flush"}]
  /\ sockets \in Nat /\ closed_events \in Nat
  /\ open \subseteq 1 .. sockets /\ shut \subseteq 1 .. sockets
  /\ state = "CONNECTED" => socket_fd \in open \ shut
  /\ SendKeepsItsSocket
  /\ CloseIsFinal

(* A fresh or an accepted connection. *)
LEMMA LifeInit == Init => LifeInv
<1> SUFFICES ASSUME Init
             PROVE  LifeInv
  OBVIOUS
<1>1. state \in {"DISCONNECTED", "CONNECTED"}
  BY DEF Init
<1>2. sockets \in Nat /\ open = 1 .. sockets /\ shut = {} /\ closed_events = 0
  BY DEF Init
<1>3. tpc = [t \in Threads |-> "idle"]
  BY DEF Init
<1>4. state = "CONNECTED" => socket_fd = 1 /\ sockets = 1
  BY DEF Init
<1>5. tpc \in [Threads -> {"idle", "Send", "Flush"}] /\ \A t \in Threads : tpc[t] # "Send"
  BY <1>3
<1> QED
  BY <1>1, <1>2, <1>4, <1>5 DEF LifeInv, SendKeepsItsSocket, CloseIsFinal

(* While state_mutex_ is free no Send is in progress. *)
LEMMA UnlockedNoSend ==
  ASSUME LifeInv, Unlocked
  PROVE  \A t \in Threads : tpc[t] # "Send"
  BY ConnectionAssumption DEF LifeInv, SendKeepsItsSocket, Unlocked

(* Steps that leave the life cycle, the lock and the kernel alone. *)
LEMMA LifeUnchanged ==
  ASSUME LifeInv,
         UNCHANGED <<state, socket_fd, holder, tpc, sockets, open, shut, closed_events>>,
         state = "CLOSING" => (Attached' => Attached)
  PROVE  LifeInv'
  BY DEF LifeInv, SendKeepsItsSocket, CloseIsFinal

(* A step that starts and moves no reader leaves the event manager alone.  *)
LEMMA SameAttached == reader' = reader => Attached' = Attached
  BY DEF Attached

(* Connect: the new socket is open and was never shut down. *)
LEMMA LifeConnect ==
  ASSUME LifeInv, Connect
  PROVE  LifeInv'
<1>1. \A t \in Threads : tpc[t] # "Send"
  BY UnlockedNoSend DEF Connect
<1>2. tpc' = tpc /\ shut' = shut /\ state = "DISCONNECTED"
  BY DEF Connect
<1>3. closed_events = 0
  BY <1>2 DEF LifeInv, CloseIsFinal
<1>4. SendKeepsItsSocket'
  BY <1>1, <1>2 DEF SendKeepsItsSocket
<1>5. CASE ConnectOk
  <2>1. /\ sockets' = sockets + 1 /\ socket_fd' = sockets + 1
        /\ open' = open \union {sockets + 1}
        /\ closed_events' = closed_events /\ state' = "CONNECTED"
    BY <1>3, <1>5 DEF ConnectOk, Trigger
  <2>2. /\ sockets \in Nat /\ open \subseteq 1 .. sockets /\ shut \subseteq 1 .. sockets
    BY DEF LifeInv
  <2>3. sockets + 1 \notin shut
    BY <2>2
  <2>4. open' \subseteq 1 .. sockets' /\ shut' \subseteq 1 .. sockets'
    BY <2>1, <2>2, <1>2
  <2> QED
    BY <1>2, <1>3, <1>4, <2>1, <2>2, <2>3, <2>4 DEF LifeInv, CloseIsFinal
<1>6. CASE ConnectFails
  <2>1. /\ state' = "ERROR" /\ open' = open /\ closed_events' = 0
        /\ sockets' = sockets \/ sockets' = sockets + 1
    BY <1>3, <1>6 DEF ConnectFails
  <2>2. sockets \in Nat /\ open \subseteq 1 .. sockets /\ shut \subseteq 1 .. sockets
    BY DEF LifeInv
  <2>3. sockets' \in Nat /\ open' \subseteq 1 .. sockets' /\ shut' \subseteq 1 .. sockets'
    BY <2>1, <2>2, <1>2
  <2> QED
    BY <1>2, <1>4, <2>1, <2>3 DEF LifeInv, CloseIsFinal
<1> QED
  BY <1>5, <1>6 DEF Connect

(* Disconnect shuts the socket down and leaves CONNECTED. *)
LEMMA LifeDisconnect ==
  ASSUME LifeInv, Disconnect
  PROVE  LifeInv'
<1>1. \A t \in Threads : tpc[t] # "Send"
  BY UnlockedNoSend DEF Disconnect
<1>2. /\ state = "CONNECTED" /\ state' = "DISCONNECTED"
      /\ shut' = shut \union {socket_fd}
      /\ UNCHANGED <<tpc, sockets, open>>
  BY DEF Disconnect, AfterDisconnect
<1>3. closed_events' = closed_events
  BY DEF Disconnect, Trigger, LifeInv
<1>4. closed_events = 0
  BY <1>2 DEF LifeInv, CloseIsFinal
<1>5. shut' \subseteq 1 .. sockets'
  BY <1>2 DEF LifeInv
<1> QED
  BY <1>1, <1>2, <1>3, <1>4, <1>5 DEF LifeInv, SendKeepsItsSocket, CloseIsFinal

(* Close happens once: it forgets the socket it needs. *)
LEMMA LifeClose ==
  ASSUME LifeInv, Close
  PROVE  LifeInv'
<1>1. \A t \in Threads : tpc[t] # "Send"
  BY UnlockedNoSend DEF Close, MayClose
<1>2. /\ socket_fd # NoFd /\ socket_fd' = NoFd /\ state' = "CLOSING"
      /\ open' = open \ {socket_fd}
      /\ UNCHANGED <<tpc, sockets, shut>>
  BY DEF Close, MayClose, ForgetSocket
<1>3. closed_events = 0
  <2>1. closed_events \in Nat /\ closed_events <= 1 /\ closed_events # 1
    BY <1>2 DEF LifeInv, CloseIsFinal
  <2> QED
    BY <2>1
<1>4. closed_events' = IF Attached THEN 1 ELSE 0
  <2>1. closed_events' = closed_events + IF Attached THEN 1 ELSE 0
    BY DEF Close, Trigger
  <2> QED
    BY <2>1, <1>3
<1>5. Attached' = Attached
  BY SameAttached DEF Close
<1>6. SendKeepsItsSocket'
  BY <1>1, <1>2 DEF SendKeepsItsSocket
<1>7. CloseIsFinal'
  BY <1>2, <1>4, <1>5 DEF CloseIsFinal
<1> QED
  BY <1>2, <1>4, <1>6, <1>7 DEF LifeInv

(* Send takes the lock of a connected connection. *)
LEMMA LifeSend ==
  ASSUME LifeInv, NEW t \in Threads, NEW n \in 1 .. MaxBytes, Send(t, n)
  PROVE  LifeInv'
<1>1. /\ tpc' = [tpc EXCEPT ![t] = "Send"] /\ holder' = t
      /\ state = "CONNECTED" /\ \A u \in Threads : tpc[u] = "idle"
      /\ UNCHANGED <<state, socket_fd, sockets, open, shut, closed_events>>
      /\ Attached' = Attached
  BY SameAttached DEF Send, BufferIdle, life_vars, kernel_vars
<1>2. tpc' \in [Threads -> {"idle", "Send", "Flush"}]
  BY <1>1 DEF LifeInv
<1>3. \A u \in Threads : tpc'[u] = "Send" => u = t
  BY <1>1 DEF LifeInv
<1>4. SendKeepsItsSocket'
  BY <1>1, <1>3 DEF LifeInv, SendKeepsItsSocket
<1> QED
  BY <1>1, <1>2, <1>4 DEF LifeInv, CloseIsFinal

(* Flush called by itself. *)
LEMMA LifeFlush ==
  ASSUME LifeInv, NEW t \in Threads, Flush(t)
  PROVE  LifeInv'
<1>1. /\ tpc' = [tpc EXCEPT ![t] = "Flush"]
      /\ \A u \in Threads : tpc[u] = "idle"
      /\ UNCHANGED <<state, socket_fd, sockets, open, shut, closed_events>>
      /\ Attached' = Attached
  BY SameAttached DEF Flush, BufferIdle, life_vars, kernel_vars
<1>2. /\ tpc' \in [Threads -> {"idle", "Send", "Flush"}]
      /\ \A u \in Threads : tpc'[u] # "Send"
  BY <1>1 DEF LifeInv
<1> QED
  BY <1>1, <1>2 DEF LifeInv, SendKeepsItsSocket, CloseIsFinal

(* The loop of Flush ends: only the thread that held the lock gives it up. *)
LEMMA LifeReturn ==
  ASSUME LifeInv, NEW t \in Threads, Return(t),
         UNCHANGED <<state, socket_fd, sockets, open, shut, closed_events, reader>>
  PROVE  LifeInv'
<1>1. /\ tpc' = [tpc EXCEPT ![t] = "idle"]
      /\ holder' = IF holder = t THEN NoThread ELSE holder
  BY DEF Return
<1>2. tpc' \in [Threads -> {"idle", "Send", "Flush"}]
  BY <1>1 DEF LifeInv
<1>3. \A u \in Threads : tpc'[u] = "Send" => u # t /\ tpc[u] = "Send"
  BY <1>1 DEF LifeInv
<1>4. SendKeepsItsSocket'
  BY <1>1, <1>3 DEF LifeInv, SendKeepsItsSocket
<1> QED
  BY <1>2, <1>4, SameAttached DEF LifeInv, CloseIsFinal

(* A round of Flush. *)
LEMMA LifeFlushStep ==
  ASSUME LifeInv, NEW t \in Threads, FlushStep(t)
  PROVE  LifeInv'
<1>1. CASE FlushDone(t)
  BY <1>1, LifeReturn DEF FlushDone, life_vars, kernel_vars
<1>2. CASE FlushError(t)
  BY <1>2, LifeReturn DEF FlushError, life_vars, kernel_vars
<1>3. ASSUME NEW sent \in 1 .. MaxBytes, FlushSend(t, sent)
      PROVE  LifeInv'
  <2>1. UNCHANGED <<state, socket_fd, sockets, open, shut, closed_events, reader>>
    BY <1>3 DEF FlushSend, life_vars, kernel_vars
  <2>2. Return(t) \/ UNCHANGED <<holder, tpc>>
    BY <1>3 DEF FlushSend
  <2> QED
    BY <2>1, <2>2, LifeReturn, LifeUnchanged, SameAttached
<1> QED
  BY <1>1, <1>2, <1>3 DEF FlushStep

(* A step of a reader thread. *)
LEMMA LifeReader ==
  ASSUME LifeInv, NEW r \in Readers, Reader(r) \/ ReaderGetsError(r)
  PROVE  LifeInv'
<1>1. \E where : ReaderGoto(r, where)
  BY DEF Reader, ReaderTest, ReaderGetsData, ReaderGetsNothing, ReaderGetsEof,
         ReaderGetsError, ReaderDelivers, ReaderWakes, ReaderReports
<1>2. UNCHANGED <<state, socket_fd, holder, tpc, sockets, open, shut>>
  BY <1>1 DEF ReaderGoto, life_vars, kernel_vars
<1>3. closed_events' = closed_events \/ Trigger("DISCONNECTED")
  BY DEF Reader, ReaderTest, ReaderGetsData, ReaderGetsNothing, ReaderGetsEof,
         ReaderGetsError, ReaderDelivers, ReaderWakes, ReaderReports
<1>4. closed_events' = closed_events
  BY <1>3 DEF Trigger, LifeInv
<1>5. Attached
  BY DEF Reader, ReaderTest, ReaderGetsData, ReaderGetsNothing, ReaderGetsEof,
         ReaderGetsError, ReaderDelivers, ReaderWakes, ReaderReports, Attached
<1> QED
  BY <1>2, <1>4, <1>5, LifeUnchanged

(* Every step of the connection, its callers, its readers and its peer.    *)
LEMMA LifeNext ==
  ASSUME LifeInv, [Next]_vars
  PROVE  LifeInv'
<1>1. CASE init
  BY <1>1, LifeUnchanged DEF init, life_vars, kernel_vars
<1>2. CASE Connect
  BY <1>2, LifeConnect
<1>3. CASE Disconnect
  BY <1>3, LifeDisconnect
<1>4. CASE Close
  BY <1>4, LifeClose
<1>5. ASSUME NEW size \in Limits, Configure(size)
      PROVE  LifeInv'
  BY <1>5, LifeUnchanged, SameAttached DEF Configure, life_vars, kernel_vars
<1>6. ASSUME NEW t \in Threads,
             (\E n \in 1 .. MaxBytes : Send(t, n)) \/ Flush(t) \/ FlushStep(t)
      PROVE  LifeInv'
  BY <1>6, LifeSend, LifeFlush, LifeFlushStep
<1>7. CASE ClearBuffers
  BY <1>7, LifeUnchanged, SameAttached DEF ClearBuffers, life_vars, kernel_vars
<1>8. CASE ReceiveFails
  BY <1>8, LifeUnchanged, SameAttached DEF ReceiveFails, life_vars, kernel_vars
<1>9. ASSUME NEW n \in 0 .. MaxReceived, NEW max_len \in 1 .. MaxReceived,
             ReceiveOk(n, max_len)
      PROVE  LifeInv'
  BY <1>9, LifeUnchanged, SameAttached DEF ReceiveOk, life_vars, kernel_vars
<1>10. ASSUME NEW r \in Readers, Reader(r) \/ ReaderGetsError(r)
       PROVE  LifeInv'
  BY <1>10, LifeReader
<1>11. CASE HangUp
  BY <1>11, LifeUnchanged, SameAttached DEF HangUp, life_vars, kernel_vars
<1>12. CASE UNCHANGED vars
  BY <1>12, LifeUnchanged, SameAttached DEF vars, life_vars, kernel_vars
<1> QED
  BY <1>1, <1>2, <1>3, <1>4, <1>5, <1>6, <1>7, <1>8, <1>9, <1>10, <1>11, <1>12 DEF Next

(* The life cycle invariant holds of every connection. *)
THEOREM LifeInvariance == Spec => []LifeInv
<1>1. LifeInv /\ [Next]_vars => LifeInv'
  BY LifeNext
<1> QED
  BY <1>1, LifeInit, PTL DEF Spec

(* No Disconnect, Close or Connect gets between two writes of a Send.      *)
THEOREM SendSocketKept == Spec => []SendKeepsItsSocket
<1>1. LifeInv => SendKeepsItsSocket
  BY DEF LifeInv
<1> QED
  BY <1>1, LifeInvariance, PTL

(* Close is reported at most once, and nothing revives the connection.     *)
THEOREM CloseFinal == Spec => []CloseIsFinal
<1>1. LifeInv => CloseIsFinal
  BY DEF LifeInv
<1> QED
  BY <1>1, LifeInvariance, PTL

-----------------------------------------------------------------------------
(* The sending half implements BytePipe *)

(* The bytes of the front buffer are among the bytes accepted. *)
LEMMA FrontIsAccepted ==
  ASSUME SendInv, send_queue # <<>>
  PROVE  send_queue[1].hi <= written
<1> DEFINE q == send_queue
           n == Len(send_queue)
           S == {i \in Nat : i < n => q[1].hi <= q[i + 1].hi}
<1>1. /\ q \in Seq(Ranges) /\ n \in Nat /\ n >= 1 /\ q[n].hi = written
      /\ \A i \in 1 .. n : q[i].lo < q[i].hi
      /\ \A i \in 1 .. n - 1 : q[i].hi = q[i + 1].lo
  BY DEF SendInv, Rest, Contiguous
<1>2. \A i \in 1 .. n : q[i].lo \in Nat /\ q[i].hi \in Nat
  <2>1. \A i \in 1 .. n : q[i] \in Ranges
    BY <1>1
  <2> QED
    BY <2>1 DEF Ranges
<1> HIDE DEF q, n
<1>3. 0 \in S
  <2>1. 1 \in 1 .. n /\ 0 + 1 = 1
    BY <1>1
  <2>2. q[1].hi \in Nat
    BY <1>2, <2>1
  <2> QED
    BY <2>1, <2>2
<1>4. ASSUME NEW i \in Nat, i \in S
      PROVE  i + 1 \in S
  <2> SUFFICES ASSUME i + 1 < n
               PROVE  q[1].hi <= q[(i + 1) + 1].hi
    OBVIOUS
  <2>1. /\ i + 1 \in 1 .. n - 1 /\ i + 1 \in 1 .. n /\ (i + 1) + 1 \in 1 .. n
        /\ 1 \in 1 .. n /\ i < n
    BY <1>1
  <2>2. q[1].hi <= q[i + 1].hi
    BY <1>4, <2>1
  <2>3. q[i + 1].hi = q[(i + 1) + 1].lo /\ q[(i + 1) + 1].lo < q[(i + 1) + 1].hi
    BY <1>1, <2>1
  <2>4. q[1].hi \in Nat /\ q[(i + 1) + 1].lo \in Nat /\ q[(i + 1) + 1].hi \in Nat
    BY <1>2, <2>1
  <2> QED
    BY <2>2, <2>3, <2>4
<1>5. n - 1 \in Nat
  BY <1>1
<1>6. n - 1 \in S
  <2> HIDE DEF S
  <2> QED
    BY <1>3, <1>4, <1>5, SetInduction
<1>7. n - 1 < n /\ (n - 1) + 1 = n
  BY <1>1
<1>8. q[1].hi <= q[n].hi
  BY <1>6, <1>7
<1> QED
  BY <1>8, <1>1 DEF q

(* What PeekSend shows: the next bytes to go, among those accepted. *)
LEMMA PeekSendView ==
  ASSUME SendInv, Size(PeekSend) # 0
  PROVE  /\ PeekSend.lo = removed
         /\ PeekSend.hi \in Nat /\ PeekSend.hi <= written
<1>1. send_queue # <<>> /\ ~ (send_consumed >= Size(Head(send_queue)))
  <2> SUFFICES ASSUME ~ (send_queue # <<>> /\ ~ (send_consumed >= Size(Head(send_queue))))
               PROVE  FALSE
    OBVIOUS
  <2>1. PeekSend = [lo |-> 0, hi |-> 0]
    BY DEF PeekSend
  <2> QED
    BY <2>1 DEF Size
<1>2. PeekSend = [lo |-> Head(send_queue).lo + send_consumed, hi |-> Head(send_queue).hi]
  BY <1>1 DEF PeekSend
<1>3. /\ send_queue \in Seq(Ranges)
      /\ send_queue[1].lo + send_consumed = removed
  BY <1>1 DEF SendInv, Rest
<1>4. Head(send_queue) = send_queue[1] /\ send_queue[1] \in Ranges
  BY <1>1, <1>3
<1>5. send_queue[1].hi \in Nat
  BY <1>4 DEF Ranges
<1>6. send_queue[1].hi <= written
  BY <1>1, FrontIsAccepted
<1> QED
  BY <1>2, <1>3, <1>4, <1>5, <1>6

(* ConsumeSend of no more than is waiting takes all it is asked for. *)
LEMMA ConsumeSendTakesAll ==
  ASSUME SendInv, NEW n \in Nat, removed + n <= written, ConsumeSend(n)
  PROVE  removed' = removed + n /\ written' = written
<1> DEFINE end == ConsumeLoop(n)
<1>1. /\ end.bytes \in 0 .. n
      /\ Rest(end.queue, end.consumed, removed + (n - end.bytes), written)
      /\ end.bytes = 0 \/ end.queue = <<>>
  BY ConsumeLoopRest DEF SendInv
<1>2. removed' = removed + (n - end.bytes) /\ written' = written
  BY DEF ConsumeSend
<1> HIDE DEF end
<1>3. removed \in Nat /\ written \in Nat
  BY DEF SendInv, Rest
<1>4. end.bytes = 0
  <2>1. CASE end.queue = <<>>
    <3>1. removed + (n - end.bytes) = written
      BY <2>1, <1>1 DEF Rest
    <3>2. end.bytes \in Nat /\ removed + n <= written
      BY <1>1
    <3> QED
      BY <3>1, <3>2, <1>3
  <2> QED
    BY <2>1, <1>1
<1> QED
  BY <1>2, <1>3, <1>4

(* The buffer's invariant holds inside a connection as well: the callers   *)
(* keep operations on the buffer apart.                                    *)
LEMMA ConnectionBufferInv ==
  ASSUME BufferInv, [Next]_vars
  PROVE  BufferInv'
<1>1. CASE UNCHANGED buffer_vars
  BY <1>1, BufferNextInv
<1>2. ASSUME NEW size \in Limits, Configure(size)
      PROVE  BufferInv'
  BY <1>2, SetMaxInv DEF Configure
<1>3. ASSUME NEW t \in Threads, NEW n \in 1 .. MaxBytes, Send(t, n)
      PROVE  BufferInv'
  BY <1>3, EnqueueSendInv DEF Send
<1>4. ASSUME NEW t \in Threads, NEW sent \in 1 .. MaxBytes, FlushSend(t, sent)
      PROVE  BufferInv'
  <2>1. ConsumeSend(sent)
    BY <1>4 DEF FlushSend, Consumed
  <2> QED
    BY <2>1, ConsumeSendInv
<1>5. CASE ClearBuffers
  BY <1>5, ClearAllInv DEF ClearBuffers
<1>6. CASE ReceiveFails
  BY <1>6, GetReceiveBufferInv DEF ReceiveFails
<1>7. ASSUME NEW n \in 0 .. MaxReceived, NEW max_len \in 1 .. MaxReceived,
             ReceiveOk(n, max_len)
      PROVE  BufferInv'
  BY <1>7, ClearAllInv DEF ReceiveOk
<1>8. ASSUME NEW t \in Threads, Flush(t) \/ FlushDone(t) \/ FlushError(t)
      PROVE  UNCHANGED buffer_vars
  BY <1>8 DEF Flush, FlushDone, FlushError
<1>9. CASE init \/ Connect \/ Disconnect \/ Close \/ HangUp \/ UNCHANGED vars
  BY <1>9, <1>1 DEF init, Connect, Disconnect, Close, HangUp, vars
<1>10. ASSUME NEW r \in Readers, Reader(r) \/ ReaderGetsError(r)
       PROVE  UNCHANGED buffer_vars
  BY <1>10 DEF Reader, ReaderTest, ReaderGetsData, ReaderGetsNothing, ReaderGetsEof,
         ReaderGetsError, ReaderDelivers, ReaderWakes, ReaderReports, ReaderGoto
<1> QED
  BY <1>1, <1>2, <1>3, <1>4, <1>5, <1>6, <1>7, <1>8, <1>9, <1>10 DEF Next, FlushStep

(* Inside a connection too the queue is exactly the unsent rest: whatever  *)
(* Send, Flush, Receive and ClearBuffers do to it and however short the    *)
(* kernel's writes are, no byte is lost, repeated or reordered in it.      *)
THEOREM ConnectionQueueCorrect == Spec => []QueueIsTheRest
<1>1. Init => BufferInv
  BY BufferInitInv DEF Init
<1>2. BufferInv /\ [Next]_vars => BufferInv'
  BY ConnectionBufferInv
<1>3. BufferInv => QueueIsTheRest
  BY InvGivesProperties
<1> QED
  BY <1>1, <1>2, <1>3, PTL DEF Spec

(* The first state of a connection is one of an empty pipe. *)
LEMMA PipeInitial ==
  ASSUME Init
  PROVE  Pipe!PipeInit
  BY BufferAssumption DEF Init, BufferInit, Pipe!PipeInit

(* A Send that is accepted is a Write of the pipe. *)
LEMMA SendIsWrite ==
  ASSUME BufferInv, NEW t \in Threads, NEW n \in 1 .. MaxBytes, Send(t, n)
  PROVE  [Pipe!PipeNext]_(Pipe!pipe_vars)
<1>1. EnqueueSend(n) /\ wire' = wire /\ max_send_queue_size' = max_send_queue_size
  BY DEF Send, EnqueueSend
<1>2. CASE Refuse
  BY <1>1, <1>2 DEF Refuse, send_vars, Pipe!pipe_vars
<1>3. CASE Accept(n)
  <2>1. GetSendQueueSize = written - removed
    BY SendQueueSize DEF BufferInv
  <2>2. removed \in Nat /\ written \in Nat /\ max_send_queue_size \in Nat
    BY DEF BufferInv, SendInv, Rest
  <2>3. GetSendQueueSize + n <= max_send_queue_size
    BY <1>3 DEF Accept
  <2>4. (written + n) - removed <= max_send_queue_size
    BY <2>1, <2>2, <2>3
  <2>5. written' = written + n /\ removed' = removed
    BY <1>3 DEF Accept
  <2>6. Pipe!Write(n)
    BY <2>2, <2>4, <2>5, <1>1 DEF Pipe!Write
  <2> QED
    BY <2>6 DEF Pipe!PipeNext
<1> QED
  BY <1>1, <1>2, <1>3 DEF EnqueueSend

(* What the kernel takes in a round of Flush is a Transmit of the pipe. *)
LEMMA FlushSendIsTransmit ==
  ASSUME BufferInv, NEW t \in Threads, NEW sent \in 1 .. MaxBytes, FlushSend(t, sent)
  PROVE  Pipe!Transmit(sent)
<1>1. /\ sent <= Size(PeekSend)
      /\ wire' = wire \o [i \in 1 .. sent |-> PeekSend.lo + i]
      /\ ConsumeSend(sent)
  BY DEF FlushSend, Consumed
<1>2. SendInv /\ removed \in Nat /\ written \in Nat /\ sent \in Nat /\ sent > 0
  BY DEF BufferInv, SendInv, Rest
<1>3. Size(PeekSend) # 0
  BY <1>1, <1>2
<1>4. PeekSend.lo = removed /\ PeekSend.hi \in Nat /\ PeekSend.hi <= written
  BY <1>2, <1>3, PeekSendView
<1>5. removed + sent <= written
  BY <1>1, <1>2, <1>4 DEF Size
<1>6. removed' = removed + sent /\ written' = written
  BY <1>1, <1>2, <1>5, ConsumeSendTakesAll
<1>7. wire' = wire \o [i \in 1 .. sent |-> removed + i]
  BY <1>1, <1>4
<1>8. max_send_queue_size' = max_send_queue_size
  BY <1>1 DEF ConsumeSend
<1> QED
  BY <1>5, <1>6, <1>7, <1>8 DEF Pipe!Transmit

(* Every step of a connection is a step of the pipe or changes nothing it  *)
(* can see.                                                                *)
LEMMA PipeStep ==
  ASSUME BufferInv, [Next]_vars
  PROVE  [Pipe!PipeNext]_(Pipe!pipe_vars)
<1>1. ASSUME UNCHANGED <<buffer_vars, wire>>
      PROVE  [Pipe!PipeNext]_(Pipe!pipe_vars)
  BY <1>1 DEF buffer_vars, Pipe!pipe_vars
<1>2. ASSUME NEW size \in Limits, Configure(size)
      PROVE  [Pipe!PipeNext]_(Pipe!pipe_vars)
  <2>1. Pipe!SetLimit
    BY <1>2, BufferAssumption DEF Configure, SetMaxSendQueueSize, send_vars, Pipe!SetLimit
  <2> QED
    BY <2>1 DEF Pipe!PipeNext
<1>3. ASSUME NEW t \in Threads, NEW n \in 1 .. MaxBytes, Send(t, n)
      PROVE  [Pipe!PipeNext]_(Pipe!pipe_vars)
  BY <1>3, SendIsWrite
<1>4. ASSUME NEW t \in Threads, NEW sent \in 1 .. MaxBytes, FlushSend(t, sent)
      PROVE  [Pipe!PipeNext]_(Pipe!pipe_vars)
  BY <1>4, FlushSendIsTransmit DEF Pipe!PipeNext
<1>5. ASSUME ClearAll, wire' = wire
      PROVE  [Pipe!PipeNext]_(Pipe!pipe_vars)
  BY <1>5 DEF ClearAll, Pipe!Discard, Pipe!PipeNext
<1>6. CASE ClearBuffers
  BY <1>5, <1>6 DEF ClearBuffers
<1>7. ASSUME NEW n \in 0 .. MaxReceived, NEW max_len \in 1 .. MaxReceived,
             ReceiveOk(n, max_len)
      PROVE  [Pipe!PipeNext]_(Pipe!pipe_vars)
  BY <1>5, <1>7 DEF ReceiveOk
<1>8. CASE ReceiveFails
  BY <1>8 DEF ReceiveFails, GetReceiveBuffer, send_vars, Pipe!pipe_vars
<1>9. ASSUME NEW t \in Threads, Flush(t) \/ FlushDone(t) \/ FlushError(t)
      PROVE  UNCHANGED <<buffer_vars, wire>>
  BY <1>9 DEF Flush, FlushDone, FlushError
<1>10. CASE init \/ Connect \/ Disconnect \/ Close \/ HangUp \/ UNCHANGED vars
  BY <1>10, <1>1 DEF init, Connect, Disconnect, Close, HangUp, vars
<1>11. ASSUME NEW r \in Readers, Reader(r) \/ ReaderGetsError(r)
       PROVE  UNCHANGED <<buffer_vars, wire>>
  BY <1>11 DEF Reader, ReaderTest, ReaderGetsData, ReaderGetsNothing, ReaderGetsEof,
         ReaderGetsError, ReaderDelivers, ReaderWakes, ReaderReports, ReaderGoto
<1> QED
  BY <1>1, <1>2, <1>3, <1>4, <1>6, <1>7, <1>8, <1>9, <1>10, <1>11 DEF Next, FlushStep

(* TCPConnection's Send and Flush implement the byte pipe: every accepted  *)
(* byte is given to the kernel at most once and in order, and waiting      *)
(* bytes disappear only when the whole queue is cleared.                   *)
THEOREM PipeImplemented == Spec => ImplementsPipe
<1>1. Init => BufferInv
  BY BufferInitInv DEF Init
<1>2. BufferInv /\ [Next]_vars => BufferInv'
  BY ConnectionBufferInv
<1>3. Init => Pipe!PipeInit
  BY PipeInitial
<1>4. BufferInv /\ [Next]_vars => [Pipe!PipeNext]_(Pipe!pipe_vars)
  BY PipeStep
<1> QED
  BY <1>1, <1>2, <1>3, <1>4, PTL DEF Spec, ImplementsPipe, Pipe!PipeSpec

=============================================================================
