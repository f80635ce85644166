------------------------ MODULE HttpConnection_proofs ------------------------
(***************************************************************************)
(* What one connection of the HTTP server keeps true, for requests of any  *)
(* kind and number, cut into chunks anywhere, and a pool of any size.      *)
(***************************************************************************)
EXTENDS HttpConnection, LoopInduction, FiniteSetTheorems, SequenceTheorems

-----------------------------------------------------------------------------
(* What the client sends *)

Part == [req : Nat, part : {"head", "body"}]

(* A request begins with its head. *)
LEMMA PartsOfRequest ==
  ASSUME NEW reqs, NEW i \in Nat
  PROVE  /\ Parts(reqs, i) \in Seq(Part)
         /\ Len(Parts(reqs, i)) = IF reqs[i].length = "none" THEN 1 ELSE 2
         /\ Len(Parts(reqs, i)) \in {1, 2}
         /\ Parts(reqs, i)[1] = Head1(i)
<1>1. Head1(i) \in Part /\ Body(i) \in Part
  BY DEF Head1, Body, Part
<1>2. CASE reqs[i].length # "none"
  BY <1>1, <1>2 DEF Parts
<1>3. CASE reqs[i].length = "none"
  BY <1>1, <1>3 DEF Parts
<1> QED
  BY <1>2, <1>3

(* The client's data is put together request by request. *)
LEMMA AllPartsIsTrace ==
  ASSUME NEW reqs, Len(reqs) \in Nat
  PROVE  \E f \in [0 .. Len(reqs) -> Seq(Part)] :
           /\ f[0] = <<>>
           /\ \A i \in 1 .. Len(reqs) : f[i] = f[i - 1] \o Parts(reqs, i)
           /\ AllParts(reqs) = f[Len(reqs)]
<1> DEFINE n == Len(reqs)
           V == Seq(Part)
           base == <<>>
           G == [p \in Nat \X V |-> p[2] \o Parts(reqs, p[1])]
           P(f) == f = [i \in 0 .. n |-> IF i = 0 THEN base ELSE f[i - 1] \o Parts(reqs, i)]
           upto == CHOOSE f : P(f)
<1>1. n \in Nat /\ base \in V
  OBVIOUS
<1>2. AllParts(reqs) = upto[n]
  BY DEF AllParts
<1>3. IsBody(G, V)
  <2>1. ASSUME NEW p \in Nat \X V
        PROVE  p[2] \o Parts(reqs, p[1]) \in V
    <3>1. p[2] \in V /\ p[1] \in Nat
      OBVIOUS
    <3>2. Parts(reqs, p[1]) \in V
      BY <3>1, PartsOfRequest
    <3> QED
      BY <3>1, <3>2
  <2> QED
    BY <2>1 DEF IsBody
<1> HIDE DEF n, V, base
<1>4. \E f : IsTrace(f, n, V, base, G)
  <2> HIDE DEF G
  <2> QED
    BY <1>1, <1>3, LoopHasTrace
<1>5. PICK f : IsTrace(f, n, V, base, G)
  BY <1>4
<1>6. f \in [0 .. n -> V] /\ f[0] = base
  BY <1>5 DEF IsTrace
<1>7. ASSUME NEW i \in 1 .. n
      PROVE  f[i] = f[i - 1] \o Parts(reqs, i)
  <2>1. i - 1 \in 0 .. n /\ i \in Nat
    BY <1>1
  <2>2. f[i] = G[<<i, f[i - 1]>>]
    <3> HIDE DEF G
    <3> QED
      BY <1>5 DEF IsTrace
  <2>3. <<i, f[i - 1]>> \in Nat \X V
    BY <2>1, <1>6
  <2> QED
    BY <2>2, <2>3
<1>8. P(f)
  BY <1>1, <1>6, <1>7
<1>9. P(upto)
  BY <1>8
<1>10. upto[n] = f[n]
  <2> DEFINE S == {i \in Nat : i <= n => upto[i] = f[i]}
  <2> HIDE DEF upto
  <2>1. 0 \in S
    BY <1>1, <1>6, <1>9
  <2>2. ASSUME NEW i \in Nat, i \in S
        PROVE  i + 1 \in S
    <3> SUFFICES ASSUME i + 1 <= n
                 PROVE  upto[i + 1] = f[i + 1]
      OBVIOUS
    <3>1. i + 1 \in 1 .. n /\ i + 1 \in 0 .. n /\ i + 1 # 0 /\ (i + 1) - 1 = i
      BY <1>1
    <3>2. upto[i] = f[i]
      BY <2>2, <1>1, <3>1
    <3>3. upto[i + 1] = upto[i] \o Parts(reqs, i + 1)
      BY <1>9, <3>1
    <3>4. f[i + 1] = f[i] \o Parts(reqs, i + 1)
      BY <1>7, <3>1
    <3> QED
      BY <3>2, <3>3, <3>4
  <2>3. n \in S
    <3> HIDE DEF S
    <3> QED
      BY <2>1, <2>2, <1>1, SetInduction
  <2> QED
    BY <2>3, <1>1
<1> HIDE DEF upto
<1> QED
  BY <1>2, <1>6, <1>7, <1>10 DEF n, V, base

(* P[i] parts belong to the first i requests; the head of request i + 1    *)
(* comes right behind them.                                                *)
Layout(reqs, P) ==
  /\ P \in [0 .. Len(reqs) -> Nat]
  /\ P[0] = 0
  /\ P[Len(reqs)] = Len(AllParts(reqs))
  /\ \A i \in 0 .. Len(reqs) - 1 :
       /\ P[i + 1] = P[i] + IF reqs[i + 1].length = "none" THEN 1 ELSE 2
       /\ AllParts(reqs)[P[i] + 1] = Head1(i + 1)

Starts(reqs) == CHOOSE P : Layout(reqs, P)

(* The client's data is a sequence of parts with a layout. *)
LEMMA AllPartsLayout ==
  ASSUME NEW reqs, Len(reqs) \in Nat
  PROVE  AllParts(reqs) \in Seq(Part) /\ Layout(reqs, Starts(reqs))
<1> DEFINE n == Len(reqs)
<1>1. PICK f \in [0 .. n -> Seq(Part)] :
             /\ f[0] = <<>>
             /\ \A i \in 1 .. n : f[i] = f[i - 1] \o Parts(reqs, i)
             /\ AllParts(reqs) = f[n]
  BY AllPartsIsTrace
<1>2. n \in Nat
  OBVIOUS
<1> HIDE DEF n
<1>3. \A i \in 0 .. n : f[i] \in Seq(Part) /\ Len(f[i]) \in Nat
  BY <1>1
<1>4. ASSUME NEW i \in 0 .. n - 1
      PROVE  /\ f[i + 1] = f[i] \o Parts(reqs, i + 1)
             /\ Len(f[i + 1]) = Len(f[i]) + Len(Parts(reqs, i + 1))
             /\ f[i + 1][Len(f[i]) + 1] = Head1(i + 1)
             /\ \A j \in 1 .. Len(f[i]) : f[i + 1][j] = f[i][j]
  <2> DEFINE p == Parts(reqs, i + 1)
             g == f[i]
             h == f[i + 1]
  <2>1. i + 1 \in 1 .. n /\ i \in 0 .. n /\ (i + 1) - 1 = i /\ i + 1 \in Nat
    BY <1>2
  <2>2. h = g \o p
    BY <1>1, <2>1
  <2>3. p \in Seq(Part) /\ Len(p) \in Nat /\ Len(p) >= 1 /\ p[1] = Head1(i + 1)
    <3>1. p \in Seq(Part) /\ Len(p) \in {1, 2} /\ p[1] = Head1(i + 1)
      BY <2>1, PartsOfRequest, Zenon
    <3> HIDE DEF p
    <3> QED
      BY <3>1
  <2>4. g \in Seq(Part) /\ Len(g) \in Nat
    BY <1>3, <2>1
  <2> HIDE DEF p, g, h
  <2>5. Len(h) = Len(g) + Len(p) /\ \A j \in 1 .. Len(g) : h[j] = g[j]
    BY <2>2, <2>3, <2>4
  <2>6. h[Len(g) + 1] = p[1]
    BY <2>2, <2>3, <2>4
  <2> QED
    BY <2>2, <2>3, <2>5, <2>6 DEF p, g, h
<1> DEFINE Prefix(i, m) ==
             Len(f[i]) <= Len(f[m]) /\ \A j \in 1 .. Len(f[i]) : f[m][j] = f[i][j]
           S == {m \in Nat : m <= n => \A i \in 0 .. m : Prefix(i, m)}
<1>5. 0 \in S
  BY <1>2, <1>3
<1>6. ASSUME NEW m \in Nat, m \in S
      PROVE  m + 1 \in S
  <2> SUFFICES ASSUME m + 1 <= n, NEW i \in 0 .. m + 1
               PROVE  Prefix(i, m + 1)
    OBVIOUS
  <2>1. m \in 0 .. n - 1 /\ m \in 0 .. n /\ m + 1 \in 0 .. n /\ i \in 0 .. n
    BY <1>2
  <2>2. Len(f[i]) \in Nat /\ Len(f[m]) \in Nat /\ Len(f[m + 1]) \in Nat
    BY <1>3, <2>1
  <2>3. CASE i = m + 1
    BY <2>2, <2>3
  <2>4. CASE i # m + 1
    <3>1. Prefix(i, m)
      BY <1>6, <2>1, <2>4
    <3>2. Len(f[m + 1]) = Len(f[m]) + Len(Parts(reqs, m + 1))
      BY <1>4, <2>1
    <3>3. Len(Parts(reqs, m + 1)) \in Nat
      <4>1. m + 1 \in Nat
        OBVIOUS
      <4>2. Len(Parts(reqs, m + 1)) \in {1, 2}
        BY <4>1, PartsOfRequest
      <4> QED
        BY <4>2
    <3>4. \A j \in 1 .. Len(f[m]) : f[m + 1][j] = f[m][j]
      BY <1>4, <2>1
    <3>5. \A j \in 1 .. Len(f[i]) : f[m + 1][j] = f[i][j]
      <4>1. \A j \in 1 .. Len(f[i]) : j \in 1 .. Len(f[m])
        BY <2>2, <3>1
      <4> QED
        BY <3>1, <3>4, <4>1
    <3>6. Len(f[i]) <= Len(f[m + 1])
      <4> DEFINE a == Len(f[i])
                 b == Len(f[m])
                 c == Len(f[m + 1])
                 d == Len(Parts(reqs, m + 1))
      <4>1. a \in Nat /\ b \in Nat /\ c \in Nat /\ d \in Nat /\ a <= b /\ c = b + d
        BY <2>2, <3>1, <3>2, <3>3
      <4> HIDE DEF a, b, c, d
      <4>2. a <= c
        BY <4>1
      <4> QED
        BY <4>2 DEF a, c
    <3> QED
      BY <3>5, <3>6
  <2> QED
    BY <2>3, <2>4
<1>7. n \in S
  <2> HIDE DEF S
  <2> QED
    BY <1>2, <1>5, <1>6, SetInduction
<1> DEFINE P == [i \in 0 .. n |-> Len(f[i])]
<1>8. Layout(reqs, P)
  <2>1. P \in [0 .. n -> Nat]
    BY <1>3
  <2>2. P[0] = 0 /\ P[n] = Len(f[n])
    BY <1>1, <1>2
  <2>3. ASSUME NEW i \in 0 .. n - 1
        PROVE  /\ P[i + 1] = P[i] + IF reqs[i + 1].length = "none" THEN 1 ELSE 2
               /\ f[n][P[i] + 1] = Head1(i + 1)
    <3>1. i \in 0 .. n /\ i + 1 \in 0 .. n /\ i + 1 \in Nat
      BY <1>2
    <3>2. P[i] = Len(f[i]) /\ P[i + 1] = Len(f[i + 1])
      BY <3>1
    <3>3. /\ Len(Parts(reqs, i + 1)) = IF reqs[i + 1].length = "none" THEN 1 ELSE 2
          /\ Len(Parts(reqs, i + 1)) \in {1, 2}
      BY <3>1, PartsOfRequest
    <3>4. Len(f[i + 1]) = Len(f[i]) + Len(Parts(reqs, i + 1))
      BY <1>4
    <3>5. Prefix(i + 1, n)
      BY <1>2, <1>7, <3>1
    <3>6. Len(f[i]) + 1 \in 1 .. Len(f[i + 1])
      <4>1. Len(f[i]) \in Nat
        BY <1>3, <3>1
      <4> DEFINE a == Len(f[i])
                 c == Len(f[i + 1])
                 d == Len(Parts(reqs, i + 1))
      <4>2. a \in Nat /\ d \in {1, 2} /\ c = a + d
        BY <4>1, <3>3, <3>4
      <4> HIDE DEF a, c, d
      <4>3. a + 1 \in 1 .. c
        BY <4>2
      <4> QED
        BY <4>3 DEF a, c
    <3>7. f[n][Len(f[i]) + 1] = f[i + 1][Len(f[i]) + 1]
      BY <3>5, <3>6
    <3>8. f[i + 1][Len(f[i]) + 1] = Head1(i + 1)
      BY <1>4
    <3> HIDE DEF P
    <3> QED
      BY <3>2, <3>3, <3>4, <3>7, <3>8
  <2> HIDE DEF P
  <2> QED
    BY <2>1, <2>2, <2>3, <1>1 DEF Layout, n
<1>9. Layout(reqs, Starts(reqs))
  <2> HIDE DEF P
  <2> QED
    BY <1>8 DEF Starts
<1>10. f[n] \in Seq(Part)
  BY <1>2, <1>3
<1> QED
  BY <1>1, <1>9, <1>10

-----------------------------------------------------------------------------
(* The types of the variables *)

Done == [req : Nat, intact : BOOLEAN, keep : BOOLEAN]

TypeInv ==
  /\ Len(stream) \in Nat
  /\ arriving \in Seq(Part) /\ chunk \in Seq(Part) /\ buffer \in Seq(Part)
  /\ handled \in Seq(Done)
  /\ acceptor \in {"init", "register", "done"}
  /\ reader \in {"none", "test", "recv", "onData", "append", "upgrade", "parse",
                 "close", "session", "ended", "terminated"}
  /\ state \in {"CONNECTED", "CLOSING"}
  /\ has \in BOOLEAN /\ damaged \in BOOLEAN /\ refused \in BOOLEAN
  /\ queue \in Seq(Nat \ {0})
  /\ unsent \in Seq(Nat \ {0}) /\ wire \in Seq(Nat \ {0})
  /\ hands \in [Pool -> Nat]

(* ParseHttpRequest finds the first head if there is one. *)
LEMMA FirstHeadIsFirst ==
  ASSUME buffer \in Seq(Part), HasHead
  PROVE  /\ FirstHead \in 1 .. Len(buffer)
         /\ buffer[FirstHead].part = "head"
         /\ \A j \in 1 .. FirstHead - 1 : buffer[j].part # "head"
         /\ First \in Nat
<1> DEFINE n == Len(buffer)
           IsHead(k) == buffer[k].part = "head"
           IsFirst(k) == IsHead(k) /\ \A j \in 1 .. k - 1 : ~ IsHead(j)
<1>1. n \in Nat
  OBVIOUS
<1>2. PICK h \in 1 .. n : IsHead(h)
  BY DEF HasHead
<1>3. \E k \in 1 .. n : IsFirst(k)
  <2> SUFFICES ASSUME \A k \in 1 .. n : ~ IsFirst(k)
               PROVE  FALSE
    OBVIOUS
  <2> DEFINE S == {m \in Nat : \A j \in 1 .. n : j <= m => ~ IsHead(j)}
  <2> HIDE DEF IsHead, n
  <2>1. 0 \in S
    BY <1>1
  <2>2. ASSUME NEW m \in Nat, m \in S
        PROVE  m + 1 \in S
    <3> SUFFICES ASSUME NEW j \in 1 .. n, j <= m + 1, IsHead(j)
                 PROVE  FALSE
      BY <1>1
    <3>1. j = m + 1
      BY <2>2, <1>1
    <3>2. \A i \in 1 .. j - 1 : ~ IsHead(i)
      BY <2>2, <3>1, <1>1
    <3> QED
      BY <3>2
  <2>3. h \in Nat /\ h <= h
    BY <1>1
  <2>4. h \in S
    <3> HIDE DEF S
    <3> QED
      BY <2>1, <2>2, <2>3, SetInduction
  <2> QED
    BY <2>3, <2>4, <1>2
<1>4. FirstHead \in 1 .. n /\ IsFirst(FirstHead)
  BY <1>3 DEF FirstHead
<1>5. buffer[FirstHead] \in Part
  BY <1>4
<1> QED
  BY <1>4, <1>5 DEF First, Part

(* What ParseHttpRequest leaves in the buffer. *)
LEMMA RestOfBuffer ==
  ASSUME buffer \in Seq(Part), NEW keep, Parses(keep), NEW c \in Consumed
  PROVE  /\ c \in 1 .. Len(buffer)
         /\ Rest(c) \in Seq(Part)
         /\ Len(Rest(c)) = Len(buffer) - c
         /\ \A j \in 1 .. Len(Rest(c)) : Rest(c)[j] = buffer[c + j]
<1>1. FirstHead \in 1 .. Len(buffer) /\ Len(buffer) \in Nat
  BY FirstHeadIsFirst DEF Parses
<1>2. c \in 1 .. Len(buffer)
  <2>1. CASE Misread
    BY <2>1, <1>1 DEF Consumed
  <2>2. CASE ~Misread /\ SeenLength(FirstReq) = "none"
    BY <2>2, <1>1 DEF Consumed
  <2>3. CASE ~Misread /\ SeenLength(FirstReq) # "none"
    <3>1. Len(buffer) > FirstHead /\ FirstHead = 1 /\ c = 2
      BY <2>3 DEF Parses, BodyIsThere, Consumed, Misread
    <3> QED
      BY <3>1, <1>1
  <2> QED
    BY <2>1, <2>2, <2>3
<1>3. Rest(c) = SubSeq(buffer, c + 1, Len(buffer))
  BY DEF Rest
<1> DEFINE n == Len(buffer)
           r == SubSeq(buffer, c + 1, n)
<1>4. c \in 1 .. n /\ n \in Nat /\ c \in Nat
  BY <1>1, <1>2
<1>5. r \in Seq(Part) /\ Len(r) = n - c
  BY <1>4
<1>6. \A j \in 1 .. n - c : r[j] = buffer[c + j]
  <2> SUFFICES ASSUME NEW j \in 1 .. n - c
               PROVE  r[j] = buffer[c + j]
    OBVIOUS
  <2>1. r[j] = buffer[((c + 1) + j) - 1]
    BY <1>4
  <2>2. ((c + 1) + j) - 1 = c + j
    BY <1>4
  <2> QED
    BY <2>1, <2>2
<1> QED
  BY <1>2, <1>3, <1>5, <1>6

(* The types hold at the beginning ... *)
LEMMA TypeInit == Init => TypeInv
<1> SUFFICES ASSUME Init
             PROVE  TypeInv
  OBVIOUS
<1>1. stream \in Seq(Request)
  BY HttpAssumption DEF Init
<1>2. Len(stream) \in Nat
  BY <1>1
<1>3. arriving \in Seq(Part)
  BY <1>2, AllPartsLayout DEF Init
<1>4. hands \in [Pool -> Nat]
  BY DEF Init, Nobody
<1>5. chunk \in Seq(Part) /\ buffer \in Seq(Part)
  BY DEF Init
<1>6. handled \in Seq(Done)
  BY DEF Init
<1>7. queue \in Seq(Nat \ {0}) /\ unsent \in Seq(Nat \ {0}) /\ wire \in Seq(Nat \ {0})
  BY DEF Init
<1>8. has \in BOOLEAN /\ damaged \in BOOLEAN /\ refused \in BOOLEAN
  BY DEF Init
<1>9. acceptor = "init" /\ reader = "none" /\ state = "CONNECTED"
  BY DEF Init
<1> QED
  BY <1>2, <1>3, <1>4, <1>5, <1>6, <1>7, <1>8, <1>9 DEF TypeInv

(* ... and recv() keeps them ... *)
LEMMA TypeRecv ==
  ASSUME TypeInv, NEW n \in 1 .. Len(arriving), ReaderRecv(n)
  PROVE  TypeInv'
<1>1. arriving \in Seq(Part) /\ Len(arriving) \in Nat /\ n \in Nat /\ n <= Len(arriving)
  BY DEF TypeInv
<1>2. SubSeq(arriving, n + 1, Len(arriving)) \in Seq(Part)
  BY <1>1
<1>3. SubSeq(arriving, 1, n) \in Seq(Part)
  BY <1>1
<1>4. arriving' \in Seq(Part) /\ chunk' \in Seq(Part)
  BY <1>2, <1>3 DEF ReaderRecv, TypeInv
<1>5. reader' \in {"onData", "test"} /\ damaged' \in BOOLEAN
  BY DEF ReaderRecv, TypeInv
<1> QED
  BY <1>4, <1>5 DEF ReaderRecv, TypeInv, accept_vars, ctx_vars, pool_vars

(* ... and so does HandleRequest. *)
LEMMA TypeHandle ==
  ASSUME TypeInv, NEW keep \in BOOLEAN, HandleRequest(keep)
  PROVE  /\ TypeInv'
         /\ Len(handled') = Len(handled) + 1
         /\ handled'[Len(handled) + 1] =
              [req |-> First, intact |-> ~Misread, keep |-> keep]
         /\ \A i \in 1 .. Len(handled) : handled'[i] = handled[i]
<1> DEFINE d == [req |-> First, intact |-> ~Misread, keep |-> keep]
<1>0. PICK c \in Consumed : buffer' = Rest(c)
  BY DEF HandleRequest
<1>1. First \in Nat
  BY FirstHeadIsFirst DEF TypeInv, HandleRequest, Parses
<1>2. d \in Done
  BY <1>1 DEF Done
<1>3. handled' = Append(handled, d) /\ handled \in Seq(Done)
  BY DEF HandleRequest, TypeInv
<1> HIDE DEF d
<1>4. /\ handled' \in Seq(Done) /\ Len(handled') = Len(handled) + 1
      /\ Len(handled) \in Nat /\ Len(handled') \in Nat \ {0}
  BY <1>2, <1>3
<1>5. /\ handled'[Len(handled) + 1] = d
      /\ \A i \in 1 .. Len(handled) : handled'[i] = handled[i]
  BY <1>2, <1>3
<1>6. buffer' \in Seq(Part)
  BY <1>0, RestOfBuffer DEF TypeInv, HandleRequest
<1>7. queue' \in Seq(Nat \ {0})
  BY <1>4 DEF TypeInv, HandleRequest, SendResponse
<1>8. reader' \in {"close", "parse"} /\ damaged' \in BOOLEAN
  BY DEF HandleRequest, AfterRequest
<1>9. TypeInv'
  BY <1>4, <1>6, <1>7, <1>8 DEF HandleRequest, TypeInv, accept_vars
<1> QED
  BY <1>4, <1>5, <1>9 DEF d

(* What has been handed to the connection, in this order: the responses    *)
(* written, and behind them its send queue.                                *)
Out == wire \o unsent

(* Flush moves the border between the two.                                 *)
LEMMA FlushKeeps ==
  ASSUME NEW S, wire \in Seq(S), NEW q \in Seq(S), NEW k \in 0 .. Len(q), Flush(q, k)
  PROVE  wire' \in Seq(S) /\ unsent' \in Seq(S) /\ Out' = wire \o q
<1> DEFINE a == SubSeq(q, 1, k)
           b == SubSeq(q, k + 1, Len(q))
<1>1. Len(q) \in Nat /\ k \in Nat /\ k <= Len(q)
  OBVIOUS
<1>2. a \in Seq(S) /\ Len(a) = k /\ \A j \in 1 .. k : a[j] = q[j]
  BY <1>1
<1>3. b \in Seq(S) /\ Len(b) = Len(q) - k
  BY <1>1
<1>4. \A j \in 1 .. Len(q) - k : b[j] = q[k + j]
  <2> SUFFICES ASSUME NEW j \in 1 .. Len(q) - k
               PROVE  b[j] = q[k + j]
    OBVIOUS
  <2>1. b[j] = q[((k + 1) + j) - 1] /\ ((k + 1) + j) - 1 = k + j
    BY <1>1
  <2> QED
    BY <2>1
<1>5. wire' = wire \o a /\ unsent' = b
  BY DEF Flush
<1> HIDE DEF a, b
<1>6. a \o b = q
  <2>1. a \o b \in Seq(S) /\ Len(a \o b) = Len(q)
    BY <1>1, <1>2, <1>3
  <2>2. ASSUME NEW j \in 1 .. Len(q)
        PROVE  (a \o b)[j] = q[j]
    <3>1. CASE j <= k
      BY <3>1, <1>1, <1>2, <1>3
    <3>2. CASE j > k
      <4>1. (a \o b)[j] = b[j - k] /\ j - k \in 1 .. Len(q) - k /\ k + (j - k) = j
        BY <3>2, <1>1, <1>2, <1>3
      <4> QED
        BY <4>1, <1>4
    <3>3. j <= k \/ j > k
      BY <1>1
    <3> QED
      BY <3>1, <3>2, <3>3
  <2> QED
    BY <2>1, <2>2, SeqEqual
<1>7. (wire \o a) \o b = wire \o (a \o b)
  <2>1. wire \in Seq(S) /\ a \in Seq(S) /\ b \in Seq(S)
    BY <1>2, <1>3
  <2> QED
    BY <2>1, ConcatAssociative, SMTT(30)
<1> QED
  BY <1>2, <1>3, <1>5, <1>6, <1>7 DEF Out

(* A flush in the course of a WebSocket handshake. *)
LEMMA UpgradeFlushes ==
  ASSUME TypeInv, UpgradeDone \/ UpgradeFails
  PROVE  wire' \in Seq(Nat \ {0}) /\ unsent' \in Seq(Nat \ {0}) /\ Out' = Out
<1>1. PICK k \in 0 .. Len(unsent) : Flush(unsent, k)
  BY DEF UpgradeDone, UpgradeFails
<1> QED
  BY <1>1, FlushKeeps DEF TypeInv, Out

(* Send appends the response to what the connection has, or drops it. *)
LEMMA SendAppends ==
  ASSUME TypeInv, NEW w \in Pool, Send(w)
  PROVE  /\ wire' \in Seq(Nat \ {0}) /\ unsent' \in Seq(Nat \ {0})
         /\ \/ Out' = Append(Out, hands[w]) /\ lost' = lost
            \/ Out' = Out /\ lost' = lost \union {hands[w]}
<1>1. hands[w] \in Nat \ {0} /\ wire \in Seq(Nat \ {0}) /\ unsent \in Seq(Nat \ {0})
  BY DEF Send, TypeInv, Nobody
<1>2. CASE lost' = lost \union {hands[w]} /\ UNCHANGED <<unsent, wire>>
  BY <1>1, <1>2 DEF Out
<1>3. CASE lost' = lost \union {hands[w]} /\ \E k \in 0 .. Len(unsent) : Flush(unsent, k)
  BY <1>1, <1>3, FlushKeeps DEF Out
<1>4. CASE /\ lost' = lost
           /\ \E k \in 0 .. Len(unsent) + 1 : Flush(Append(unsent, hands[w]), k)
  <2> DEFINE q == Append(unsent, hands[w])
  <2>1. q \in Seq(Nat \ {0}) /\ Len(q) = Len(unsent) + 1
    BY <1>1
  <2>2. PICK k \in 0 .. Len(q) : Flush(q, k)
    BY <1>4, <2>1
  <2>3. wire \o q = Append(wire \o unsent, hands[w])
    BY <1>1
  <2> HIDE DEF q
  <2>4. wire' \in Seq(Nat \ {0}) /\ unsent' \in Seq(Nat \ {0}) /\ Out' = wire \o q
    BY <1>1, <2>1, <2>2, FlushKeeps
  <2> QED
    BY <1>4, <2>3, <2>4 DEF Out
<1> QED
  BY <1>2, <1>3, <1>4 DEF Send

(* The types are kept by every step. *)
LEMMA TypeNext ==
  ASSUME TypeInv, [Next]_vars
  PROVE  TypeInv'
<1> USE DEF accept_vars, ctx_vars, pool_vars
<1>1. CASE AcceptInit
  BY <1>1 DEF AcceptInit, TypeInv
<1>2. CASE onNewConnection
  BY <1>2 DEF onNewConnection, TypeInv
<1>3. CASE ReaderTest
  BY <1>3 DEF ReaderTest, TypeInv
<1>4. CASE GetContext
  <2>1. buffer' = buffer \/ buffer' = <<>>
    BY <1>4 DEF GetContext
  <2>2. buffer' \in Seq(Part)
    <3>1. buffer \in Seq(Part)
      BY DEF TypeInv
    <3>2. <<>> \in Seq(Part)
      OBVIOUS
    <3> QED
      BY <2>1, <3>1, <3>2
  <2>3. has' \in BOOLEAN
    BY <1>4 DEF GetContext
  <2> QED
    BY <1>4, <2>2, <2>3 DEF GetContext, TypeInv
<1>5. CASE OnDataAppend
  BY <1>5 DEF OnDataAppend, TypeInv
<1>6. ASSUME NEW keep \in BOOLEAN, HandleRequest(keep)
      PROVE  TypeInv'
  BY <1>6, TypeHandle
<1>7. CASE OnDataThrows \/ SendKills \/ ReaderEnds \/ NoUpgrade
  BY <1>7 DEF OnDataThrows, SendKills, ReaderEnds, NoUpgrade, TypeInv
<1>8. CASE OnDataReturns
  BY <1>8 DEF OnDataReturns, TypeInv
<1>9. CASE OnDataCloses
  BY <1>9 DEF OnDataCloses, AfterClose, TypeInv
<1>10. ASSUME NEW n \in 1 .. Len(arriving), ReaderRecv(n)
       PROVE  TypeInv'
  BY <1>10, TypeRecv
<1>11. ASSUME NEW w \in Pool, Take(w)
       PROVE  TypeInv'
  <2>1. Head(queue) \in Nat /\ Tail(queue) \in Seq(Nat \ {0})
    BY <1>11 DEF Take, TypeInv
  <2> QED
    BY <1>11, <2>1 DEF Take, TypeInv
<1>12. ASSUME NEW w \in Pool, Send(w)
       PROVE  TypeInv'
  <2>1. hands' \in [Pool -> Nat]
    BY <1>12 DEF Send, TypeInv, Nobody
  <2>2. wire' \in Seq(Nat \ {0}) /\ unsent' \in Seq(Nat \ {0})
    BY <1>12, SendAppends
  <2> QED
    BY <1>12, <2>1, <2>2 DEF Send, TypeInv
<1>13. CASE Timeout
  BY <1>13 DEF Timeout, TypeInv
<1>14. CASE CleanupCollects
  BY <1>14 DEF CleanupCollects, TypeInv
<1>15. CASE CleanupRemoves
  <2>1. buffer' = buffer \/ buffer' = <<>>
    BY <1>15 DEF CleanupRemoves
  <2>2. buffer' \in Seq(Part)
    <3>1. buffer \in Seq(Part)
      BY DEF TypeInv
    <3>2. <<>> \in Seq(Part)
      OBVIOUS
    <3> QED
      BY <2>1, <3>1, <3>2
  <2>3. damaged' \in BOOLEAN /\ has' \in BOOLEAN
    BY <1>15 DEF CleanupRemoves
  <2> QED
    BY <1>15, <2>2, <2>3 DEF CleanupRemoves, TypeInv
<1>16. CASE UNCHANGED vars
  BY <1>16 DEF vars, TypeInv
<1>17. CASE UpgradeDone
  <2>1. wire' \in Seq(Nat \ {0}) /\ unsent' \in Seq(Nat \ {0})
    BY <1>17, UpgradeFlushes
  <2> QED
    BY <1>17, <2>1 DEF UpgradeDone, TypeInv
<1>18. CASE UpgradeFails
  <2>1. wire' \in Seq(Nat \ {0}) /\ unsent' \in Seq(Nat \ {0})
    BY <1>18, UpgradeFlushes
  <2>2. PICK keep \in BOOLEAN : Parses(keep)
    BY <1>18 DEF UpgradeFails, Upgrades
  <2>3. PICK c \in Consumed : buffer' = Rest(c)
    BY <1>18 DEF UpgradeFails
  <2>4. buffer' \in Seq(Part)
    BY <2>2, <2>3, RestOfBuffer DEF TypeInv
  <2> QED
    BY <1>18, <2>1, <2>4 DEF UpgradeFails, TypeInv
<1> QED
  BY <1>1, <1>2, <1>3, <1>4, <1>5, <1>6, <1>7, <1>8, <1>9, <1>10, <1>11, <1>12,
     <1>13, <1>14, <1>15, <1>16, <1>17, <1>18 DEF Next, Reader

-----------------------------------------------------------------------------
(* Closing the connection.  Only the reader closes it, and it handles      *)
(* nothing any more once a request or a handshake has ended the            *)
(* connection: this is what has to be known of where the reader is.        *)

LastCloses == handled # <<>> /\ Closing(Len(handled))

Ending == LastCloses \/ refused

CloseInv ==
  /\ acceptor = "init" => reader \in {"none", "terminated"}
  /\ reader = "none" => handled = <<>>
  /\ \A i \in Numbers : Closing(i) => i = Len(handled)
  /\ Ending => reader \in {"close", "terminated"} \/ state = "CLOSING"
  /\ reader = "close" => Ending
  /\ state = "CLOSING" => Ending /\ reader \in {"test", "ended"}

(* As long as no request is handled, what is known of them stays true. *)
LEMMA ClosingKept ==
  ASSUME CloseInv, UNCHANGED <<stream, handled>>
  PROVE  /\ LastCloses' <=> LastCloses
         /\ (\A i \in Numbers : Closing(i) => i = Len(handled))'
<1>1. LastCloses' <=> LastCloses
  BY DEF LastCloses, Closing, KeepAlive, SeenConnection
<1>2. \A i \in Numbers' : i \in Numbers /\ (Closing(i)' <=> Closing(i))
  BY DEF Numbers, Closing, KeepAlive, SeenConnection
<1>3. \A i \in Numbers' : Closing(i)' => i = Len(handled')
  BY <1>2 DEF CloseInv
<1> QED
  BY <1>1, <1>3

(* Steps that handle and close nothing. *)
LEMMA CloseKept ==
  ASSUME CloseInv, UNCHANGED <<stream, handled, state, refused>>,
         acceptor' = "init" => reader' \in {"none", "terminated"},
         reader' = "none" => reader = "none",
         reader' = "close" => reader = "close",
         reader \in {"close", "terminated"} => reader' \in {"close", "terminated"},
         state = "CLOSING" => reader' \in {"test", "ended"}
  PROVE  CloseInv'
<1>1. LastCloses' <=> LastCloses
  BY ClosingKept
<1>2. Ending' <=> Ending
  BY <1>1 DEF Ending
<1>3. (\A i \in Numbers : Closing(i) => i = Len(handled))'
  BY ClosingKept
<1> QED
  BY <1>2, <1>3 DEF CloseInv

(* HandleRequest: nothing before this request has ended the connection. *)
LEMMA CloseHandle ==
  ASSUME TypeInv, CloseInv, NEW keep \in BOOLEAN, HandleRequest(keep)
  PROVE  CloseInv'
<1>1. /\ reader = "parse" /\ reader' = AfterRequest(keep) /\ Parses(keep)
      /\ UNCHANGED <<acceptor, stream, state, refused>>
  BY DEF HandleRequest, accept_vars
<1>2. ~ LastCloses /\ ~refused /\ state # "CLOSING" /\ acceptor # "init"
  BY <1>1 DEF CloseInv, Ending
<1>3. /\ Len(handled') = Len(handled) + 1 /\ Len(handled) \in Nat
      /\ handled'[Len(handled) + 1] =
           [req |-> First, intact |-> ~Misread, keep |-> keep]
      /\ \A i \in 1 .. Len(handled) : handled'[i] = handled[i]
  BY TypeHandle DEF TypeInv
<1>4. handled' # <<>> /\ handled \in Seq(Done) /\ handled' \in Seq(Done)
  <2>1. handled \in Seq(Done) /\ handled' \in Seq(Done)
    BY TypeHandle DEF TypeInv
  <2>2. Len(handled') # 0
    BY <1>3
  <2> QED
    BY <2>1, <2>2
<1>5. Closing(Len(handled))' <=> ~keep
  <2> DEFINE d == handled'[Len(handled')]
  <2>1. d.req = First /\ d.intact = ~Misread /\ d.keep = keep
    BY <1>3
  <2>2. Closing(Len(handled))' <=>
          IF d.intact THEN ~KeepAlive(stream[d.req]) ELSE ~d.keep
    BY <1>1 DEF Closing, KeepAlive, SeenConnection
  <2>3. ~Misread => keep = KeepAlive(stream[First])
    BY <1>1 DEF Parses, FirstReq
  <2> HIDE DEF d
  <2> QED
    BY Zenon, <2>1, <2>2, <2>3
<1>6. \A i \in Numbers : ~ Closing(i)
  <2> SUFFICES ASSUME NEW i \in Numbers, Closing(i)
               PROVE  FALSE
    OBVIOUS
  <2>1. i = Len(handled) /\ i \in 1 .. Len(handled)
    BY DEF CloseInv, Numbers
  <2>2. handled # <<>>
    BY <2>1, <1>3, <1>4
  <2> QED
    BY <2>1, <2>2, <1>2 DEF LastCloses
<1>7. ASSUME NEW i \in 1 .. Len(handled'), Closing(i)'
      PROVE  i = Len(handled')
  <2> SUFFICES ASSUME i # Len(handled')
               PROVE  FALSE
    OBVIOUS
  <2>1. i \in 1 .. Len(handled)
    BY <1>3
  <2>2. handled'[i] = handled[i]
    BY <2>1, <1>3
  <2>3. Closing(i)
    BY <2>2, <1>7, <1>1 DEF Closing, KeepAlive, SeenConnection
  <2> QED
    BY <2>1, <2>3, <1>6 DEF Numbers
<1>8. Ending' <=> ~keep
  BY <1>1, <1>2, <1>4, <1>5 DEF LastCloses, Ending
<1>9. reader' = "close" <=> ~keep
  BY <1>1 DEF AfterRequest
<1>10. reader' # "none"
  BY <1>1 DEF AfterRequest
<1> QED
  BY <1>1, <1>2, <1>7, <1>8, <1>9, <1>10 DEF CloseInv, Numbers

(* A failed handshake ends the connection. *)
LEMMA CloseRefused ==
  ASSUME CloseInv, UpgradeFails
  PROVE  CloseInv'
<1>1. /\ reader = "upgrade" /\ reader' = "close" /\ refused' = TRUE
      /\ UNCHANGED <<acceptor, stream, handled, state>>
  BY DEF UpgradeFails, Upgrades, accept_vars
<1>2. Ending' /\ (\A i \in Numbers : Closing(i) => i = Len(handled))'
  BY <1>1, ClosingKept DEF Ending
<1> QED
  BY <1>1, <1>2 DEF CloseInv

(* OnDataCloses follows a closing request or a failed handshake. *)
LEMMA CloseCloses ==
  ASSUME CloseInv, OnDataCloses
  PROVE  CloseInv'
<1>1. /\ reader = "close" /\ state' = "CLOSING" /\ reader' = "test"
      /\ UNCHANGED <<acceptor, stream, handled, refused>>
  BY DEF OnDataCloses, AfterClose, accept_vars
<1>2. LastCloses' <=> LastCloses
  BY <1>1, ClosingKept
<1>3. Ending' /\ (\A i \in Numbers : Closing(i) => i = Len(handled))'
  BY <1>1, <1>2, ClosingKept DEF Ending, CloseInv
<1> QED
  BY <1>1, <1>3 DEF CloseInv

(* Every step. *)
LEMMA CloseNext ==
  ASSUME TypeInv, CloseInv, [Next]_vars
  PROVE  CloseInv'
<1> USE DEF accept_vars
<1>1. CASE AcceptInit
  <2>1. reader = "none" /\ handled = <<>> /\ state # "CLOSING"
    BY <1>1 DEF AcceptInit, CloseInv, Terminated
  <2> QED
    BY <1>1, <2>1, CloseKept DEF AcceptInit
<1>2. CASE onNewConnection
  BY <1>2, CloseKept DEF onNewConnection, CloseInv
<1>3. CASE ReaderTest \/ ReaderEnds
  BY <1>3, CloseKept DEF ReaderTest, ReaderEnds, CloseInv
<1>4. CASE GetContext
  BY <1>4, CloseKept DEF GetContext, CloseInv
<1>5. CASE OnDataAppend
  BY <1>5, CloseKept DEF OnDataAppend, CloseInv
<1>6. ASSUME NEW keep \in BOOLEAN, HandleRequest(keep)
      PROVE  CloseInv'
  BY <1>6, CloseHandle
<1>7. CASE UpgradeDone \/ NoUpgrade
  BY <1>7, CloseKept DEF UpgradeDone, NoUpgrade, Upgrades, CloseInv
<1>8. CASE OnDataThrows \/ OnDataReturns
  BY <1>8, CloseKept DEF OnDataThrows, OnDataReturns, CloseInv
<1>9. CASE OnDataCloses
  BY <1>9, CloseCloses
<1>10. ASSUME NEW n \in 1 .. Len(arriving), ReaderRecv(n)
       PROVE  CloseInv'
  BY <1>10, CloseKept DEF ReaderRecv, CloseInv
<1>11. ASSUME NEW w \in Pool, Take(w)
       PROVE  CloseInv'
  BY <1>11, CloseKept DEF Take, CloseInv
<1>12. ASSUME NEW w \in Pool, Send(w)
       PROVE  CloseInv'
  <2>1. UNCHANGED <<stream, handled, state, refused, acceptor, reader>>
    BY <1>12 DEF Send
  <2> QED
    BY <2>1, CloseKept DEF CloseInv
<1>13. CASE SendKills
  <2>1. /\ reader' = "terminated" /\ UNCHANGED <<stream, handled, state, refused>>
        /\ state = "CONNECTED" \/ reader = "upgrade"
    BY <1>13 DEF SendKills, Upgrades
  <2>2. state # "CLOSING"
    BY <2>1 DEF CloseInv
  <2> QED
    BY <2>1, <2>2, CloseKept DEF CloseInv
<1>14. CASE Timeout \/ CleanupCollects
  BY <1>14, CloseKept DEF Timeout, CleanupCollects, CloseInv
<1>15. CASE CleanupRemoves
  BY <1>15, CloseKept DEF CleanupRemoves, CloseInv
<1>16. CASE UNCHANGED vars
  BY <1>16, CloseKept DEF vars, CloseInv
<1>17. CASE UpgradeFails
  BY <1>17, CloseRefused
<1> QED
  BY <1>1, <1>2, <1>3, <1>4, <1>5, <1>6, <1>7, <1>8, <1>9, <1>10, <1>11, <1>12,
     <1>13, <1>14, <1>15, <1>16, <1>17 DEF Next, Reader

(* A fresh connection. *)
LEMMA CloseInit == Init => CloseInv
  BY DEF Init, CloseInv, Ending, LastCloses, Numbers

(* OnData closes the connection after a request that is not keep-alive or  *)
(* a failed handshake, and only then, whatever else arrived with it and    *)
(* whatever the cleanup thread erases; nothing is handled after it.        *)
THEOREM ClosesAsRead == Spec => []ClosesByKeepAliveRule
<1>1. TypeInv /\ CloseInv => ClosesByKeepAliveRule
  <2> SUFFICES ASSUME TypeInv, CloseInv
               PROVE  ClosesByKeepAliveRule
    OBVIOUS
  <2>1. ASSUME NEW i \in Numbers, Closing(i)
        PROVE  /\ i = Len(handled)
               /\ reader = "close" \/ state = "CLOSING" \/ Terminated
    <3>1. i = Len(handled)
      BY <2>1 DEF CloseInv
    <3>2. handled # <<>>
      BY <2>1 DEF Numbers, TypeInv
    <3> QED
      BY <2>1, <3>1, <3>2 DEF CloseInv, Ending, LastCloses, Terminated
  <2> QED
    BY <2>1 DEF ClosesByKeepAliveRule, CloseInv, Ending, LastCloses
<1>2. TypeInv /\ CloseInv /\ [Next]_vars => TypeInv' /\ CloseInv'
  BY TypeNext, CloseNext
<1> QED
  BY <1>1, <1>2, TypeInit, CloseInit, PTL DEF Spec

-----------------------------------------------------------------------------
(* Responses.  OneResponsePerRequest speaks of the requests handled so     *)
(* far; that the next number is nowhere yet has to be known as well.       *)

Apart ==
  /\ \A j \in 1 .. Len(queue) : \A w \in Pool : queue[j] # hands[w]
  /\ \A j \in 1 .. Len(queue) : \A k \in 1 .. Len(Out) : queue[j] # Out[k]
  /\ \A w \in Pool : \A k \in 1 .. Len(Out) : hands[w] # Out[k]
  /\ \A j \in 1 .. Len(queue) : queue[j] \notin lost
  /\ \A w \in Pool : hands[w] \notin lost
  /\ \A k \in 1 .. Len(Out) : Out[k] \notin lost

Single ==
  /\ \A j, k \in 1 .. Len(queue) : queue[j] = queue[k] => j = k
  /\ \A v, w \in Pool : hands[v] = hands[w] /\ hands[v] # Nobody => v = w
  /\ \A j, k \in 1 .. Len(Out) : Out[j] = Out[k] => j = k

OfHandled ==
  /\ \A j \in 1 .. Len(queue) : queue[j] \in Numbers
  /\ \A w \in Pool : hands[w] # Nobody => hands[w] \in Numbers
  /\ \A k \in 1 .. Len(Out) : Out[k] \in Numbers
  /\ lost \subseteq Numbers

Somewhere ==
  \A i \in Numbers :
    \/ \E j \in 1 .. Len(queue) : queue[j] = i
    \/ \E w \in Pool : hands[w] = i
    \/ \E k \in 1 .. Len(Out) : Out[k] = i
    \/ i \in lost

ResponseInv == Apart /\ Single /\ OfHandled /\ Somewhere

(* Where things are in Out. *)
LEMMA OutParts ==
  ASSUME TypeInv
  PROVE  /\ Out \in Seq(Nat \ {0}) /\ Len(Out) \in Nat
         /\ Len(wire) \in Nat /\ Len(unsent) \in Nat
         /\ Len(Out) = Len(wire) + Len(unsent)
         /\ \A j \in 1 .. Len(wire) : j \in 1 .. Len(Out) /\ Out[j] = wire[j]
         /\ \A j \in 1 .. Len(unsent) :
              Len(wire) + j \in 1 .. Len(Out) /\ Out[Len(wire) + j] = unsent[j]
<1> DEFINE a == wire
           b == unsent
<1>1. /\ a \in Seq(Nat \ {0}) /\ b \in Seq(Nat \ {0})
      /\ Len(a) \in Nat /\ Len(b) \in Nat
  BY DEF TypeInv
<1> HIDE DEF a, b
<1>2. a \o b \in Seq(Nat \ {0}) /\ Len(a \o b) = Len(a) + Len(b)
  BY <1>1
<1>3. \A j \in 1 .. Len(a) : j \in 1 .. Len(a \o b) /\ (a \o b)[j] = a[j]
  BY <1>1, <1>2
<1>4. \A j \in 1 .. Len(b) :
        Len(a) + j \in 1 .. Len(a \o b) /\ (a \o b)[Len(a) + j] = b[j]
  BY <1>1, <1>2
<1> QED
  BY <1>1, <1>2, <1>3, <1>4 DEF Out, a, b

(* The invariant in terms of cardinalities. *)
LEMMA OnePlaceEach ==
  ASSUME TypeInv, ResponseInv
  PROVE  OneResponsePerRequest
<1> SUFFICES ASSUME NEW i \in Numbers
             PROVE  Cardinality(Places(queue, i))
                    + Cardinality({w \in Pool : hands[w] = i})
                    + Cardinality(Places(unsent, i)) + Cardinality(Places(wire, i))
                    + (IF i \in lost THEN 1 ELSE 0) = 1
  BY DEF OneResponsePerRequest
<1> DEFINE queued  == Places(queue, i)
           held    == {w \in Pool : hands[w] = i}
           waiting == Places(unsent, i)
           sent    == Places(wire, i)
<1>1. i # Nobody
  BY DEF Numbers, TypeInv, Nobody
<1>2. (\A k \in 1 .. Len(Out) : Out[k] # i) => waiting = {} /\ sent = {}
  BY OutParts DEF Places
<1>3. CASE \E j \in 1 .. Len(queue) : queue[j] = i
  <2>1. PICK j \in 1 .. Len(queue) : queue[j] = i
    BY <1>3
  <2>2. queued = {j}
    BY <2>1 DEF ResponseInv, Single, Places
  <2>3. held = {} /\ i \notin lost /\ \A k \in 1 .. Len(Out) : Out[k] # i
    BY <2>1 DEF ResponseInv, Apart
  <2>4. waiting = {} /\ sent = {}
    BY <1>2, <2>3
  <2> HIDE DEF queued, held, waiting, sent
  <2>5. /\ Cardinality(queued) = 1 /\ Cardinality(held) = 0
        /\ Cardinality(waiting) = 0 /\ Cardinality(sent) = 0
    BY <2>2, <2>3, <2>4, FS_Singleton, FS_EmptySet
  <2> QED
    BY <2>3, <2>5 DEF queued, held, waiting, sent
<1>4. CASE \E w \in Pool : hands[w] = i
  <2>1. PICK w \in Pool : hands[w] = i
    BY <1>4
  <2>2. held = {w}
    BY <2>1, <1>1 DEF ResponseInv, Single
  <2>3. queued = {} /\ i \notin lost /\ \A k \in 1 .. Len(Out) : Out[k] # i
    BY <2>1 DEF ResponseInv, Apart, Places
  <2>4. waiting = {} /\ sent = {}
    BY <1>2, <2>3
  <2> HIDE DEF queued, held, waiting, sent
  <2>5. /\ Cardinality(queued) = 0 /\ Cardinality(held) = 1
        /\ Cardinality(waiting) = 0 /\ Cardinality(sent) = 0
    BY <2>2, <2>3, <2>4, FS_Singleton, FS_EmptySet
  <2> QED
    BY <2>3, <2>5 DEF queued, held, waiting, sent
<1>5. CASE \E k \in 1 .. Len(Out) : Out[k] = i
  <2>1. PICK k \in 1 .. Len(Out) : Out[k] = i
    BY <1>5
  <2>2. queued = {} /\ held = {} /\ i \notin lost
    BY <2>1 DEF ResponseInv, Apart, Places
  <2>3. \A j \in 1 .. Len(Out) : Out[j] = i => j = k
    BY <2>1 DEF ResponseInv, Single
  <2>4. CASE k <= Len(wire)
    <3>1. k \in 1 .. Len(wire) /\ wire[k] = i
      BY <2>1, <2>4, OutParts
    <3>2. sent = {k}
      BY <2>3, <3>1, OutParts DEF Places
    <3>3. waiting = {}
      <4> SUFFICES ASSUME NEW j \in 1 .. Len(unsent), unsent[j] = i
                   PROVE  FALSE
        BY DEF Places
      <4>1. Len(wire) + j = k
        BY <2>3, OutParts
      <4> QED
        BY <2>4, <4>1, OutParts
    <3> HIDE DEF queued, held, waiting, sent
    <3>4. /\ Cardinality(queued) = 0 /\ Cardinality(held) = 0
          /\ Cardinality(waiting) = 0 /\ Cardinality(sent) = 1
      BY <2>2, <3>2, <3>3, FS_Singleton, FS_EmptySet
    <3> QED
      BY <2>2, <3>4 DEF queued, held, waiting, sent
  <2>5. CASE k > Len(wire)
    <3> DEFINE m == k - Len(wire)
    <3>1. m \in 1 .. Len(unsent) /\ Len(wire) + m = k
      BY <2>1, <2>5, OutParts
    <3> HIDE DEF m
    <3>2. unsent[m] = i
      BY <2>1, <3>1, OutParts
    <3>3. waiting = {m}
      <4>1. ASSUME NEW j \in 1 .. Len(unsent), unsent[j] = i
            PROVE  j = m
        <5>1. Len(wire) + j = k
          BY <2>3, <4>1, OutParts
        <5> QED
          BY <3>1, <5>1, OutParts
      <4> QED
        BY <3>1, <3>2, <4>1 DEF Places
    <3>4. sent = {}
      <4> SUFFICES ASSUME NEW j \in 1 .. Len(wire), wire[j] = i
                   PROVE  FALSE
        BY DEF Places
      <4>1. j = k
        BY <2>3, OutParts
      <4> QED
        BY <2>5, <4>1, OutParts
    <3> HIDE DEF queued, held, waiting, sent
    <3>5. /\ Cardinality(queued) = 0 /\ Cardinality(held) = 0
          /\ Cardinality(waiting) = 1 /\ Cardinality(sent) = 0
      BY <2>2, <3>3, <3>4, FS_Singleton, FS_EmptySet
    <3> QED
      BY <2>2, <3>5 DEF queued, held, waiting, sent
  <2> QED
    BY <2>1, <2>4, <2>5, OutParts
<1>6. CASE i \in lost
  <2>1. queued = {} /\ held = {} /\ \A k \in 1 .. Len(Out) : Out[k] # i
    BY <1>6 DEF ResponseInv, Apart, Places
  <2>2. waiting = {} /\ sent = {}
    BY <1>2, <2>1
  <2> HIDE DEF queued, held, waiting, sent
  <2>3. /\ Cardinality(queued) = 0 /\ Cardinality(held) = 0
        /\ Cardinality(waiting) = 0 /\ Cardinality(sent) = 0
    BY <2>1, <2>2, FS_EmptySet
  <2> QED
    BY <1>6, <2>3 DEF queued, held, waiting, sent
<1> QED
  BY <1>3, <1>4, <1>5, <1>6 DEF ResponseInv, Somewhere

(* Steps that leave the pool and the requests alone. *)
LEMMA ResponseKept ==
  ASSUME ResponseInv, UNCHANGED <<handled, queue, hands, lost>>, Out' = Out
  PROVE  ResponseInv'
  BY DEF ResponseInv, Apart, Single, OfHandled, Somewhere, Numbers

(* SendAsync queues the response of the request just handled. *)
LEMMA ResponseHandle ==
  ASSUME TypeInv, ResponseInv, NEW keep \in BOOLEAN, HandleRequest(keep)
  PROVE  ResponseInv'
<1> DEFINE n == Len(handled) + 1
           q == queue
           r == queue'
<1>1. Len(handled) \in Nat /\ Len(handled') = n
  <2>1. Len(handled) \in Nat
    BY DEF TypeInv
  <2>2. Len(handled') = n
    BY TypeHandle
  <2> QED
    BY <2>1, <2>2
<1>2. queue' = Append(queue, n) /\ UNCHANGED <<hands, lost>> /\ Out' = Out
  BY <1>1 DEF HandleRequest, SendResponse, Out
<1>3. n \in Nat \ {0} /\ n \notin Numbers /\ Numbers' = Numbers \union {n}
  BY <1>1 DEF Numbers
<1>4. /\ Len(r) = Len(q) + 1 /\ Len(q) \in Nat /\ r[Len(q) + 1] = n
      /\ \A j \in 1 .. Len(q) : r[j] = q[j]
  BY <1>2, <1>3 DEF TypeInv
<1>5. \A j \in 1 .. Len(r) : j \in 1 .. Len(q) \/ (j = Len(q) + 1 /\ r[j] = n)
  BY <1>4
<1>6. n # Nobody
  BY <1>3 DEF Nobody
<1> HIDE DEF n, q, r
<1>7. /\ \A w \in Pool : hands[w] # n
      /\ \A k \in 1 .. Len(Out) : Out[k] # n
      /\ \A j \in 1 .. Len(q) : q[j] # n
      /\ n \notin lost
  BY <1>3, <1>6 DEF ResponseInv, OfHandled, q
<1>8. Apart'
  <2>1. \A j \in 1 .. Len(r) : \A w \in Pool : r[j] # hands[w]
    BY <1>4, <1>5, <1>7 DEF ResponseInv, Apart, q
  <2>2. \A j \in 1 .. Len(r) : \A k \in 1 .. Len(Out) : r[j] # Out[k]
    BY <1>4, <1>5, <1>7 DEF ResponseInv, Apart, q
  <2>3. \A j \in 1 .. Len(r) : r[j] \notin lost
    BY <1>4, <1>5, <1>7 DEF ResponseInv, Apart, q
  <2> QED
    BY <2>1, <2>2, <2>3, <1>2 DEF ResponseInv, Apart, r
<1>9. Single'
  <2>1. ASSUME NEW j \in 1 .. Len(r), NEW k \in 1 .. Len(r), r[j] = r[k]
        PROVE  j = k
    <3>1. CASE j \in 1 .. Len(q) /\ k \in 1 .. Len(q)
      BY <2>1, <3>1, <1>4 DEF ResponseInv, Single, q
    <3>2. CASE r[j] = n /\ r[k] = n
      BY <3>2, <1>4, <1>5, <1>7
    <3> QED
      BY <2>1, <3>1, <3>2, <1>5
  <2> QED
    BY <2>1, <1>2 DEF ResponseInv, Single, r
<1>10. OfHandled'
  <2>1. \A j \in 1 .. Len(r) : r[j] \in Numbers'
    BY <1>3, <1>4, <1>5 DEF ResponseInv, OfHandled, q
  <2> QED
    BY <2>1, <1>2, <1>3 DEF ResponseInv, OfHandled, r
<1>11. Somewhere'
  <2> SUFFICES ASSUME NEW i \in Numbers'
               PROVE  \/ \E j \in 1 .. Len(r) : r[j] = i
                      \/ \E w \in Pool : hands[w] = i
                      \/ \E k \in 1 .. Len(Out) : Out[k] = i
                      \/ i \in lost
    BY <1>2 DEF Somewhere, r
  <2>1. CASE i = n
    <3>1. Len(q) + 1 \in 1 .. Len(r)
      BY <1>4
    <3> QED
      BY <2>1, <3>1, <1>4
  <2>2. CASE i \in Numbers
    <3>1. ASSUME NEW j \in 1 .. Len(q), q[j] = i
          PROVE  \E k \in 1 .. Len(r) : r[k] = i
      <4>1. j \in 1 .. Len(r) /\ r[j] = i
        BY <3>1, <1>4
      <4> QED
        BY <4>1
    <3> QED
      BY <2>2, <3>1 DEF ResponseInv, Somewhere, q
  <2> QED
    BY <2>1, <2>2, <1>3
<1> QED
  BY <1>8, <1>9, <1>10, <1>11 DEF ResponseInv

(* A worker takes the first task. *)
LEMMA ResponseTake ==
  ASSUME TypeInv, ResponseInv, NEW w \in Pool, Take(w)
  PROVE  ResponseInv'
<1> DEFINE n == queue[1]
           q == queue
           r == queue'
           h == hands'
<1>1. /\ hands[w] = Nobody /\ q # <<>> /\ q \in Seq(Nat \ {0})
      /\ r = Tail(q) /\ hands' = [hands EXCEPT ![w] = Head(q)]
      /\ UNCHANGED <<handled, lost>> /\ Out' = Out
  BY DEF Take, TypeInv, Out
<1>2. /\ Len(q) \in Nat /\ Len(q) >= 1 /\ Len(r) = Len(q) - 1 /\ Head(q) = n
      /\ \A j \in 1 .. Len(r) : r[j] = q[j + 1]
  BY <1>1
<1>3. h[w] = n /\ \A v \in Pool : v # w => h[v] = hands[v]
  BY <1>1, <1>2 DEF TypeInv
<1>4. 1 \in 1 .. Len(q) /\ \A j \in 1 .. Len(r) : j + 1 \in 1 .. Len(q) /\ j + 1 # 1
  BY <1>2
<1> HIDE DEF r, h
<1>5. \A j \in 1 .. Len(r) : r[j] # n
  BY <1>2, <1>4 DEF ResponseInv, Single
<1>6. Numbers' = Numbers
  BY <1>1 DEF Numbers
<1>7. Apart'
  <2>1. \A j \in 1 .. Len(r) : \A v \in Pool : r[j] # h[v]
    BY <1>2, <1>3, <1>4, <1>5 DEF ResponseInv, Apart
  <2>2. \A j \in 1 .. Len(r) : \A k \in 1 .. Len(Out) : r[j] # Out[k]
    BY <1>2, <1>4 DEF ResponseInv, Apart
  <2>3. \A j \in 1 .. Len(r) : r[j] \notin lost
    BY <1>2, <1>4 DEF ResponseInv, Apart
  <2>4. \A v \in Pool : \A k \in 1 .. Len(Out) : h[v] # Out[k]
    BY <1>3, <1>4 DEF ResponseInv, Apart
  <2>5. \A v \in Pool : h[v] \notin lost
    BY <1>3, <1>4 DEF ResponseInv, Apart
  <2> QED
    BY <2>1, <2>2, <2>3, <2>4, <2>5, <1>1 DEF ResponseInv, Apart, r, h
<1>8. Single'
  <2>1. ASSUME NEW j \in 1 .. Len(r), NEW k \in 1 .. Len(r), r[j] = r[k]
        PROVE  j = k
    <3>1. q[j + 1] = q[k + 1] /\ j + 1 \in 1 .. Len(q) /\ k + 1 \in 1 .. Len(q)
      BY <2>1, <1>2, <1>4
    <3>2. j + 1 = k + 1
      BY <3>1 DEF ResponseInv, Single
    <3> QED
      BY <3>2, <1>2
  <2>2. ASSUME NEW u \in Pool, NEW v \in Pool, h[u] = h[v], h[u] # Nobody
        PROVE  u = v
    <3>1. \A x \in Pool : hands[x] # n
      BY <1>4 DEF ResponseInv, Apart
    <3> QED
      BY <2>2, <3>1, <1>3 DEF ResponseInv, Single
  <2> QED
    BY <2>1, <2>2, <1>1 DEF ResponseInv, Single, r, h
<1>9. OfHandled'
  <2>1. \A j \in 1 .. Len(r) : r[j] \in Numbers
    BY <1>2, <1>4 DEF ResponseInv, OfHandled
  <2>2. \A v \in Pool : h[v] # Nobody => h[v] \in Numbers
    BY <1>3, <1>4 DEF ResponseInv, OfHandled
  <2> QED
    BY <2>1, <2>2, <1>1, <1>6 DEF ResponseInv, OfHandled, r, h
<1>10. Somewhere'
  <2> SUFFICES ASSUME NEW i \in Numbers
               PROVE  \/ \E j \in 1 .. Len(r) : r[j] = i
                      \/ \E v \in Pool : h[v] = i
                      \/ \E k \in 1 .. Len(Out) : Out[k] = i
                      \/ i \in lost
    BY <1>1, <1>6 DEF Somewhere, r, h
  <2>0. i # Nobody
    BY DEF Numbers, TypeInv, Nobody
  <2>1. ASSUME NEW j \in 1 .. Len(q), q[j] = i
        PROVE  (\E k \in 1 .. Len(r) : r[k] = i) \/ \E v \in Pool : h[v] = i
    <3>1. CASE j = 1
      BY <2>1, <3>1, <1>3
    <3>2. CASE j # 1
      <4>1. j - 1 \in 1 .. Len(r) /\ (j - 1) + 1 = j
        BY <3>2, <1>2
      <4>2. r[j - 1] = i
        BY <4>1, <1>2, <2>1
      <4> QED
        BY <4>1, <4>2
    <3> QED
      BY <3>1, <3>2
  <2>2. ASSUME NEW v \in Pool, hands[v] = i
        PROVE  \E x \in Pool : h[x] = i
    <3>1. v # w
      BY <2>0, <2>2, <1>1
    <3> QED
      BY <2>2, <3>1, <1>3
  <2> QED
    BY <2>1, <2>2 DEF ResponseInv, Somewhere
<1> QED
  BY <1>7, <1>8, <1>9, <1>10 DEF ResponseInv

(* A worker sends the response in its hands, or Send drops it. *)
LEMMA ResponseSend ==
  ASSUME TypeInv, ResponseInv, NEW w \in Pool, Send(w)
  PROVE  ResponseInv'
<1> DEFINE n == hands[w]
           h == hands'
<1>1. /\ n # Nobody /\ n \in Nat /\ n # 0 /\ hands' = [hands EXCEPT ![w] = Nobody]
      /\ UNCHANGED <<handled, queue>>
  BY DEF Send, TypeInv, Nobody
<1>2. h[w] = Nobody /\ \A v \in Pool : v # w => h[v] = hands[v]
  BY <1>1 DEF TypeInv
<1>3. /\ n \in Numbers
      /\ \A j \in 1 .. Len(queue) : queue[j] # n /\ queue[j] # Nobody
      /\ \A k \in 1 .. Len(Out) : Out[k] # n /\ Out[k] # Nobody
      /\ n \notin lost /\ Nobody \notin lost
      /\ \A v \in Pool : v # w => hands[v] # n
  <2>1. Nobody \notin Numbers
    BY DEF Numbers, TypeInv, Nobody
  <2> QED
    BY <2>1, <1>1 DEF ResponseInv, OfHandled, Apart, Single
<1>4. Numbers' = Numbers
  BY <1>1 DEF Numbers
<1> HIDE DEF h, n
<1>5. CASE Out' = Append(Out, n) /\ lost' = lost
  <2> DEFINE r == Out'
  <2>1. /\ Len(r) = Len(Out) + 1 /\ Len(Out) \in Nat /\ r[Len(Out) + 1] = n
        /\ \A j \in 1 .. Len(Out) : r[j] = Out[j]
    BY <1>1, <1>5, OutParts
  <2>2. \A j \in 1 .. Len(r) : j \in 1 .. Len(Out) \/ (j = Len(Out) + 1 /\ r[j] = n)
    BY <2>1
  <2> HIDE DEF r
  <2>3. Apart'
    <3>1. \A j \in 1 .. Len(queue) : \A v \in Pool : queue[j] # h[v]
      BY <1>2, <1>3 DEF ResponseInv, Apart
    <3>2. \A j \in 1 .. Len(queue) : \A k \in 1 .. Len(r) : queue[j] # r[k]
      BY <2>1, <2>2, <1>3 DEF ResponseInv, Apart
    <3>3. \A v \in Pool : \A k \in 1 .. Len(r) : h[v] # r[k]
      BY <2>1, <2>2, <1>1, <1>2, <1>3 DEF ResponseInv, Apart
    <3>4. \A v \in Pool : h[v] \notin lost
      BY <1>2, <1>3 DEF ResponseInv, Apart
    <3>5. \A k \in 1 .. Len(r) : r[k] \notin lost
      BY <2>1, <2>2, <1>3 DEF ResponseInv, Apart
    <3> QED
      BY <3>1, <3>2, <3>3, <3>4, <3>5, <1>1, <1>5 DEF ResponseInv, Apart, r, h
  <2>4. Single'
    <3>1. ASSUME NEW j \in 1 .. Len(r), NEW k \in 1 .. Len(r), r[j] = r[k]
          PROVE  j = k
      <4>1. CASE j \in 1 .. Len(Out) /\ k \in 1 .. Len(Out)
        BY <3>1, <4>1, <2>1 DEF ResponseInv, Single
      <4>2. CASE r[j] = n /\ r[k] = n
        BY <4>2, <2>1, <2>2, <1>3
      <4> QED
        BY <3>1, <4>1, <4>2, <2>2
    <3>2. \A u, v \in Pool : h[u] = h[v] /\ h[u] # Nobody => u = v
      BY <1>2 DEF ResponseInv, Single
    <3> QED
      BY <3>1, <3>2, <1>1 DEF ResponseInv, Single, r, h
  <2>5. OfHandled'
    <3>1. \A k \in 1 .. Len(r) : r[k] \in Numbers
      BY <2>1, <2>2, <1>3 DEF ResponseInv, OfHandled
    <3>2. \A v \in Pool : h[v] # Nobody => h[v] \in Numbers
      BY <1>2 DEF ResponseInv, OfHandled
    <3> QED
      BY <3>1, <3>2, <1>1, <1>4, <1>5 DEF ResponseInv, OfHandled, r, h
  <2>6. Somewhere'
    <3> SUFFICES ASSUME NEW i \in Numbers
                 PROVE  \/ \E j \in 1 .. Len(queue) : queue[j] = i
                        \/ \E v \in Pool : h[v] = i
                        \/ \E k \in 1 .. Len(r) : r[k] = i
                        \/ i \in lost
      BY <1>1, <1>4, <1>5 DEF Somewhere, r, h
    <3>1. ASSUME NEW v \in Pool, hands[v] = i
          PROVE  (\E x \in Pool : h[x] = i) \/ \E k \in 1 .. Len(r) : r[k] = i
      <4>1. CASE v = w
        <5>1. Len(Out) + 1 \in 1 .. Len(r)
          BY <2>1
        <5> QED
          BY <3>1, <4>1, <5>1, <2>1 DEF n
      <4>2. CASE v # w
        BY <3>1, <4>2, <1>2
      <4> QED
        BY <4>1, <4>2
    <3>2. ASSUME NEW k \in 1 .. Len(Out), Out[k] = i
          PROVE  \E x \in 1 .. Len(r) : r[x] = i
      <4>1. k \in 1 .. Len(r) /\ r[k] = i
        BY <3>2, <2>1
      <4> QED
        BY <4>1
    <3> QED
      BY <3>1, <3>2 DEF ResponseInv, Somewhere
  <2> QED
    BY <2>3, <2>4, <2>5, <2>6 DEF ResponseInv
<1>6. CASE lost' = lost \union {n} /\ Out' = Out
  <2>1. Apart'
    <3>1. \A j \in 1 .. Len(queue) : \A v \in Pool : queue[j] # h[v]
      BY <1>2, <1>3 DEF ResponseInv, Apart
    <3>2. \A v \in Pool : \A k \in 1 .. Len(Out) : h[v] # Out[k]
      BY <1>2, <1>3 DEF ResponseInv, Apart
    <3>3. \A v \in Pool : h[v] \notin lost \union {n}
      BY <1>1, <1>2, <1>3 DEF ResponseInv, Apart
    <3>4. /\ \A j \in 1 .. Len(queue) : queue[j] \notin lost \union {n}
          /\ \A k \in 1 .. Len(Out) : Out[k] \notin lost \union {n}
      BY <1>3 DEF ResponseInv, Apart
    <3> QED
      BY <3>1, <3>2, <3>3, <3>4, <1>1, <1>6 DEF ResponseInv, Apart, h
  <2>2. Single'
    <3>1. \A u, v \in Pool : h[u] = h[v] /\ h[u] # Nobody => u = v
      BY <1>2 DEF ResponseInv, Single
    <3> QED
      BY <3>1, <1>1, <1>6 DEF ResponseInv, Single, h
  <2>3. OfHandled'
    <3>1. \A v \in Pool : h[v] # Nobody => h[v] \in Numbers
      BY <1>2 DEF ResponseInv, OfHandled
    <3> QED
      BY <3>1, <1>1, <1>3, <1>4, <1>6 DEF ResponseInv, OfHandled, h
  <2>4. Somewhere'
    <3>1. \A v \in Pool : h[v] = hands[v] \/ hands[v] = n
      BY <1>2 DEF n
    <3> QED
      BY <3>1, <1>1, <1>4, <1>6 DEF ResponseInv, Somewhere, h
  <2> QED
    BY <2>1, <2>2, <2>3, <2>4 DEF ResponseInv
<1> QED
  BY <1>5, <1>6, SendAppends DEF n

(* Every step. *)
LEMMA ResponseNext ==
  ASSUME TypeInv, ResponseInv, [Next]_vars
  PROVE  ResponseInv'
<1>1. ASSUME NEW keep \in BOOLEAN, HandleRequest(keep)
      PROVE  ResponseInv'
  BY <1>1, ResponseHandle
<1>2. ASSUME NEW w \in Pool, Take(w) \/ Send(w)
      PROVE  ResponseInv'
  BY <1>2, ResponseTake, ResponseSend
<1>3. CASE \/ AcceptInit \/ onNewConnection \/ ReaderTest \/ ReaderEnds \/ GetContext
           \/ OnDataAppend \/ NoUpgrade \/ OnDataThrows \/ OnDataReturns
           \/ OnDataCloses \/ SendKills
           \/ Timeout \/ CleanupCollects \/ CleanupRemoves \/ UNCHANGED vars
  BY <1>3, ResponseKept
  DEF AcceptInit, onNewConnection, ReaderTest, ReaderEnds, GetContext, OnDataAppend,
      NoUpgrade, OnDataThrows, OnDataReturns, OnDataCloses, SendKills, Timeout,
      CleanupCollects, CleanupRemoves, vars, pool_vars, Out
<1>4. ASSUME NEW n \in 1 .. Len(arriving), ReaderRecv(n)
      PROVE  ResponseInv'
  BY <1>4, ResponseKept DEF ReaderRecv, pool_vars, Out
<1>5. CASE UpgradeDone \/ UpgradeFails
  <2>1. UNCHANGED <<handled, queue, hands, lost>>
    BY <1>5 DEF UpgradeDone, UpgradeFails
  <2> QED
    BY <1>5, <2>1, UpgradeFlushes, ResponseKept
<1> QED
  BY <1>1, <1>2, <1>3, <1>4, <1>5 DEF Next, Reader

(* No response yet. *)
LEMMA ResponseInit == Init => ResponseInv
<1> SUFFICES ASSUME Init
             PROVE  ResponseInv
  OBVIOUS
<1>1. /\ Len(queue) = 0 /\ Len(Out) = 0 /\ lost = {} /\ Len(handled) = 0
      /\ \A w \in Pool : hands[w] = Nobody
  BY DEF Init, Out
<1> QED
  BY <1>1 DEF ResponseInv, Apart, Single, OfHandled, Somewhere, Numbers

(* No interleaving of the reader, the pool and the cleanup thread, and no  *)
(* short write, loses track of a response or sends it twice.               *)
THEOREM OneResponse == Spec => []OneResponsePerRequest
<1>1. TypeInv /\ ResponseInv => OneResponsePerRequest
  BY OnePlaceEach
<1>2. TypeInv /\ ResponseInv /\ [Next]_vars => TypeInv' /\ ResponseInv'
  BY TypeNext, ResponseNext
<1> QED
  BY <1>1, <1>2, TypeInit, ResponseInit, PTL DEF Spec

-----------------------------------------------------------------------------
(* Requests are handled as they were sent.  While nothing is damaged the   *)
(* context's buffer, the reader's chunk and what is still arriving are,    *)
(* one after the other, the client's data from the first request that is   *)
(* not handled on, until the connection is given up.                       *)

Serving == reader \notin {"terminated", "session"} /\ ~refused

Slice(q, from) == \A j \in 1 .. Len(q) : q[j] = AllParts(stream)[from + j]

Begin == Starts(stream)[Len(handled)]

InOrder ==
  /\ Len(handled) <= Len(stream)
  /\ Begin + Len(buffer) + Len(chunk) + Len(arriving) = Len(AllParts(stream))
  /\ Slice(buffer, Begin)
  /\ Slice(chunk, Begin + Len(buffer))
  /\ Slice(arriving, Begin + Len(buffer) + Len(chunk))

(* GetContext begins with an empty buffer, so a context that was erased    *)
(* must have had one; recv() reuses the chunk.                             *)
NothingHidden ==
  /\ Serving /\ ~has /\ state # "CLOSING" => buffer = <<>>
  /\ reader \in {"append", "upgrade", "parse", "close"} => has
  /\ reader \notin {"onData", "append", "terminated"} => chunk = <<>>

SentInv ==
  /\ HandledAsSent
  /\ ~damaged => NothingHidden
  /\ ~damaged /\ Serving => InOrder

(* Where the layout of the client's data puts the reader. *)
LEMMA BeginIsNat ==
  ASSUME TypeInv, InOrder
  PROVE  /\ Begin \in Nat
         /\ Len(AllParts(stream)) \in Nat
<1>1. Len(stream) \in Nat /\ Len(handled) \in Nat
  BY DEF TypeInv
<1>2. Layout(stream, Starts(stream)) /\ AllParts(stream) \in Seq(Part)
  BY <1>1, AllPartsLayout
<1>3. Starts(stream) \in [0 .. Len(stream) -> Nat]
  BY <1>2 DEF Layout
<1>4. Len(handled) \in 0 .. Len(stream)
  BY <1>1 DEF InOrder
<1> QED
  BY <1>2, <1>3, <1>4 DEF Begin

(* A fresh connection has all of it ahead. *)
LEMMA SentInit == Init => SentInv
<1> SUFFICES ASSUME Init
             PROVE  SentInv
  OBVIOUS
<1>1. /\ Len(handled) = 0 /\ Len(buffer) = 0 /\ Len(chunk) = 0
      /\ arriving = AllParts(stream) /\ buffer = <<>> /\ chunk = <<>>
      /\ reader = "none" /\ ~refused
  BY DEF Init
<1>2. TypeInv
  BY TypeInit
<1>3. Len(stream) \in Nat
  BY <1>2 DEF TypeInv
<1>4. Layout(stream, Starts(stream)) /\ AllParts(stream) \in Seq(Part)
  BY <1>3, AllPartsLayout
<1>5. Begin = 0
  BY <1>1, <1>4 DEF Layout, Begin
<1>6. Len(AllParts(stream)) \in Nat
  BY <1>4
<1>7. Begin + Len(buffer) + Len(chunk) + Len(arriving) = Len(AllParts(stream))
  BY <1>1, <1>5, <1>6
<1>8. Slice(buffer, Begin) /\ Slice(chunk, Begin + Len(buffer))
  BY <1>1 DEF Slice
<1>9. Slice(arriving, Begin + Len(buffer) + Len(chunk))
  <2>1. Begin + Len(buffer) + Len(chunk) = 0
    BY <1>1, <1>5
  <2>2. \A j \in 1 .. Len(arriving) : 0 + j = j
    OBVIOUS
  <2> QED
    BY <2>1, <2>2, <1>1 DEF Slice
<1>10. InOrder
  BY <1>1, <1>3, <1>7, <1>8, <1>9 DEF InOrder
<1>11. NothingHidden
  BY <1>1 DEF NothingHidden
<1>12. HandledAsSent
  BY <1>1 DEF HandledAsSent, Numbers
<1> QED
  BY <1>10, <1>11, <1>12 DEF SentInv

(* Steps that move no data. *)
LEMMA SentKept ==
  ASSUME TypeInv, SentInv,
         UNCHANGED <<stream, handled, buffer, chunk, arriving>>,
         ~damaged' => ~damaged /\ NothingHidden',
         Serving' => Serving
  PROVE  SentInv'
<1>1. HandledAsSent'
  BY DEF SentInv, HandledAsSent, Numbers
<1>2. ASSUME ~damaged', Serving'
      PROVE  InOrder'
  <2>1. InOrder
    BY <1>2 DEF SentInv
  <2>2. Begin' = Begin
    BY DEF Begin
  <2>3. /\ Slice(buffer, Begin)' /\ Slice(chunk, Begin + Len(buffer))'
        /\ Slice(arriving, Begin + Len(buffer) + Len(chunk))'
    BY <2>1, <2>2 DEF InOrder, Slice
  <2> QED
    BY <2>1, <2>2, <2>3 DEF InOrder
<1> QED
  BY <1>1, <1>2 DEF SentInv

(* A reader that has not come to the end of OnData serves the connection,  *)
(* which is open.                                                          *)
LEMMA StillServing ==
  ASSUME CloseInv, reader \in {"recv", "onData", "append", "upgrade", "parse"}
  PROVE  Serving /\ state # "CLOSING"
  BY DEF CloseInv, Ending, Serving

(* recv() with the callback set moves data from the socket to the chunk.   *)
LEMMA SentRecv ==
  ASSUME TypeInv, CloseInv, SentInv, NEW n \in 1 .. Len(arriving), ReaderRecv(n)
  PROVE  SentInv'
<1>1. HandledAsSent'
  <2>1. handled' = handled /\ (damaged => damaged')
    BY DEF ReaderRecv, TypeInv
  <2> QED
    BY <2>1 DEF SentInv, HandledAsSent, Numbers, TypeInv
<1> SUFFICES ASSUME ~damaged'
             PROVE  NothingHidden' /\ InOrder'
  BY <1>1 DEF SentInv
<1> DEFINE a == arriving
           d == Begin + Len(buffer)
<1>2. /\ ~damaged /\ reader = "recv" /\ reader' = "onData"
      /\ chunk' = SubSeq(a, 1, n) /\ arriving' = SubSeq(a, n + 1, Len(a))
      /\ UNCHANGED <<stream, state, has, buffer, handled, refused>>
  BY DEF ReaderRecv, accept_vars, ctx_vars
<1>0. Serving
  BY <1>2, StillServing
<1>3. NothingHidden'
  BY <1>2 DEF SentInv, NothingHidden, Serving
<1>4. InOrder /\ chunk = <<>> /\ Len(chunk) = 0
  BY <1>0, <1>2 DEF SentInv, NothingHidden
<1>5. Begin' = Begin /\ AllParts(stream)' = AllParts(stream)
  BY <1>2 DEF Begin
<1>6. Begin \in Nat /\ Len(AllParts(stream)) \in Nat
  BY <1>4, BeginIsNat
<1>7. a \in Seq(Part) /\ Len(a) \in Nat /\ n \in Nat /\ n <= Len(a) /\ n >= 1
      /\ Len(buffer) \in Nat
  BY DEF TypeInv
<1>8. Len(chunk') = n /\ \A j \in 1 .. n : chunk'[j] = a[j]
  BY <1>2, <1>7
<1>9. Len(arriving') = Len(a) - n
  BY <1>2, <1>7
<1>10. ASSUME NEW j \in 1 .. Len(a) - n
       PROVE  arriving'[j] = a[n + j]
  <2>1. arriving'[j] = a[((n + 1) + j) - 1]
    BY <1>2, <1>7
  <2>2. ((n + 1) + j) - 1 = n + j
    BY <1>7
  <2> QED
    BY <2>1, <2>2
<1>11. d \in Nat /\ d + 0 = d /\ d + Len(a) = Len(AllParts(stream))
  BY <1>4, <1>6, <1>7 DEF InOrder
<1>12. \A j \in 1 .. Len(a) : a[j] = AllParts(stream)[d + j]
  <2>1. Slice(a, d + 0)
    BY <1>4 DEF InOrder
  <2> QED
    BY <2>1, <1>11 DEF Slice
<1> HIDE DEF a, d
<1>13. \A j \in 1 .. n : chunk'[j] = AllParts(stream)[d + j]
  <2>1. \A j \in 1 .. n : j \in 1 .. Len(a)
    BY <1>7
  <2> QED
    BY <2>1, <1>8, <1>12
<1>14. ASSUME NEW j \in 1 .. Len(a) - n
       PROVE  arriving'[j] = AllParts(stream)[(d + n) + j]
  <2>1. n + j \in 1 .. Len(a) /\ d + (n + j) = (d + n) + j
    BY <1>7, <1>11
  <2>2. a[n + j] = AllParts(stream)[d + (n + j)]
    BY <2>1, <1>12
  <2> QED
    BY <2>1, <2>2, <1>10
<1>15. (d + n) + (Len(a) - n) = d + Len(a)
  BY <1>7, <1>11
<1>16. d' = d
  BY <1>2, <1>5 DEF d
<1>17. Slice(chunk, Begin + Len(buffer))'
  BY <1>2, <1>5, <1>8, <1>13 DEF Slice, d
<1>18. Slice(arriving, Begin + Len(buffer) + Len(chunk))'
  BY <1>2, <1>5, <1>8, <1>9, <1>14 DEF Slice, d
<1>19. Slice(buffer, Begin)'
  BY <1>2, <1>4, <1>5 DEF InOrder, Slice
<1>20. (Begin + Len(buffer) + Len(chunk) + Len(arriving) = Len(AllParts(stream)))'
  BY <1>2, <1>5, <1>8, <1>9, <1>11, <1>15 DEF d
<1>21. InOrder'
  BY <1>2, <1>4, <1>17, <1>18, <1>19, <1>20 DEF InOrder
<1> QED
  BY <1>3, <1>21

(* OnData appends the chunk to the buffer. *)
LEMMA SentAppend ==
  ASSUME TypeInv, CloseInv, SentInv, OnDataAppend
  PROVE  SentInv'
<1>1. /\ reader = "append" /\ reader' = "upgrade"
      /\ buffer' = buffer \o chunk /\ chunk' = <<>>
      /\ UNCHANGED <<stream, arriving, state, has, handled, refused, damaged>>
  BY DEF OnDataAppend, accept_vars
<1>2. HandledAsSent'
  BY <1>1 DEF SentInv, HandledAsSent, Numbers
<1> SUFFICES ASSUME ~damaged
             PROVE  NothingHidden' /\ InOrder'
  BY <1>1, <1>2 DEF SentInv
<1>3. NothingHidden'
  BY <1>1 DEF SentInv, NothingHidden
<1>4. InOrder
  BY <1>1, StillServing DEF SentInv
<1>5. Begin' = Begin /\ AllParts(stream)' = AllParts(stream)
  BY <1>1 DEF Begin
<1>6. Begin \in Nat
  BY <1>4, BeginIsNat
<1> DEFINE b == buffer
           c == chunk
           all == AllParts(stream)
<1>7. /\ b \in Seq(Part) /\ c \in Seq(Part) /\ Len(b) \in Nat /\ Len(c) \in Nat
      /\ Len(arriving) \in Nat
  BY DEF TypeInv
<1>8. /\ Len(buffer') = Len(b) + Len(c) /\ Len(chunk') = 0
      /\ \A j \in 1 .. Len(b) : buffer'[j] = b[j]
  BY <1>1, <1>7
<1>9. \A j \in 1 .. Len(c) : buffer'[Len(b) + j] = c[j]
  BY <1>1, <1>7
<1>10. /\ \A j \in 1 .. Len(b) : b[j] = all[Begin + j]
       /\ \A j \in 1 .. Len(c) : c[j] = all[(Begin + Len(b)) + j]
  BY <1>4 DEF InOrder, Slice
<1> HIDE DEF b, c, all
<1>11. ASSUME NEW j \in 1 .. Len(b) + Len(c)
       PROVE  buffer'[j] = all[Begin + j]
  <2>1. CASE j \in 1 .. Len(b)
    BY <2>1, <1>8, <1>10
  <2>2. CASE j \notin 1 .. Len(b)
    <3> DEFINE k == j - Len(b)
    <3>1. k \in 1 .. Len(c) /\ Len(b) + k = j /\ (Begin + Len(b)) + k = Begin + j
      BY <2>2, <1>6, <1>7
    <3> HIDE DEF k
    <3> QED
      BY <3>1, <1>9, <1>10
  <2> QED
    BY <2>1, <2>2
<1>12. Slice(buffer, Begin)'
  BY <1>5, <1>8, <1>11 DEF Slice, all
<1>13. Slice(chunk, Begin + Len(buffer))'
  BY <1>8 DEF Slice
<1>14. Begin + Len(buffer') + Len(chunk') = Begin + Len(b) + Len(c)
  BY <1>6, <1>7, <1>8
<1>15. Slice(arriving, Begin + Len(buffer) + Len(chunk))'
  BY <1>1, <1>4, <1>5, <1>14 DEF InOrder, Slice, b, c
<1>16. (Begin + Len(buffer) + Len(chunk) + Len(arriving) = Len(AllParts(stream)))'
  BY <1>1, <1>4, <1>5, <1>14 DEF InOrder, b, c
<1>17. InOrder'
  BY <1>1, <1>4, <1>12, <1>13, <1>15, <1>16 DEF InOrder
<1> QED
  BY <1>3, <1>17

(* What is parsed first is the next request, from its head on. *)
LEMMA NextRequestFirst ==
  ASSUME TypeInv, InOrder, HasHead
  PROVE  /\ FirstHead = 1
         /\ First = Len(handled) + 1
         /\ Len(handled) < Len(stream)
<1> DEFINE k == Len(handled)
           n == Len(stream)
           P == Starts(stream)
           all == AllParts(stream)
<1>1. k \in Nat /\ n \in Nat /\ Len(buffer) \in Nat /\ Len(chunk) \in Nat /\ Len(arriving) \in Nat
  BY DEF TypeInv
<1>2. Layout(stream, P)
  BY <1>1, AllPartsLayout
<1>3. FirstHead \in 1 .. Len(buffer) /\ \A j \in 1 .. FirstHead - 1 : buffer[j].part # "head"
  BY FirstHeadIsFirst DEF TypeInv
<1>4. Begin \in Nat /\ Len(all) \in Nat
  BY BeginIsNat
<1>5. Begin < Len(all)
  <2>1. Begin + Len(buffer) + Len(chunk) + Len(arriving) = Len(all) /\ Len(buffer) >= 1
    BY <1>1, <1>3 DEF InOrder
  <2> QED
    BY <2>1, <1>1, <1>4
<1>6. k < n
  <2>1. k <= n
    BY DEF InOrder
  <2>2. k # n
    <3> SUFFICES ASSUME k = n
                 PROVE  FALSE
      OBVIOUS
    <3>1. Begin = Len(all)
      BY <1>2 DEF Layout, Begin
    <3> QED
      BY <3>1, <1>4, <1>5
  <2> QED
    BY <2>1, <2>2, <1>1
<1>7. all[P[k] + 1] = Head1(k + 1)
  <2>1. k \in 0 .. n - 1
    BY <1>1, <1>6
  <2> QED
    BY <2>1, <1>2 DEF Layout
<1>8. buffer[1] = Head1(k + 1)
  <2>1. 1 \in 1 .. Len(buffer)
    BY <1>1, <1>3
  <2>2. buffer[1] = all[Begin + 1]
    BY <2>1 DEF InOrder, Slice
  <2> QED
    BY <2>2, <1>7 DEF Begin
<1>9. FirstHead = 1
  <2>1. buffer[1].part = "head"
    BY <1>8 DEF Head1
  <2> QED
    BY <2>1, <1>1, <1>3
<1>10. First = k + 1
  BY <1>8, <1>9 DEF First, Head1
<1> QED
  BY <1>6, <1>9, <1>10

(* HandleRequest takes exactly the next request off the buffer, unless it  *)
(* cannot see the body's length.                                           *)
LEMMA SentHandle ==
  ASSUME TypeInv, CloseInv, SentInv, NEW keep \in BOOLEAN, HandleRequest(keep)
  PROVE  SentInv'
<1> SUFFICES ASSUME ~damaged'
             PROVE  HandledAsSent' /\ NothingHidden' /\ InOrder'
  <2>1. damaged' => HandledAsSent'
    BY DEF HandledAsSent
  <2> QED
    BY <2>1 DEF SentInv
<1> DEFINE k == Len(handled)
           all == AllParts(stream)
           b == buffer
<1>0. PICK c \in Consumed : buffer' = Rest(c)
  BY DEF HandleRequest
<1>1. /\ ~damaged /\ SeenLength(FirstReq) = FirstReq.length
      /\ reader = "parse" /\ Parses(keep) /\ HasHead
      /\ reader' = AfterRequest(keep)
      /\ UNCHANGED <<stream, arriving, chunk, state, has>>
  BY DEF HandleRequest, accept_vars, Parses
<1>2. InOrder /\ NothingHidden
  BY <1>1, StillServing DEF SentInv
<1>3. FirstHead = 1 /\ First = k + 1 /\ k < Len(stream)
  BY <1>1, <1>2, NextRequestFirst
<1>4. /\ Len(handled') = k + 1 /\ k \in Nat
      /\ handled'[k + 1] = [req |-> First, intact |-> ~Misread, keep |-> keep]
      /\ \A i \in 1 .. k : handled'[i] = handled[i]
  <2>1. k \in Nat
    BY DEF TypeInv
  <2> QED
    BY <2>1, TypeHandle
<1>5. HandledAsSent'
  <2> SUFFICES ASSUME NEW i \in 1 .. Len(handled')
               PROVE  handled'[i].req = i /\ handled'[i].intact
    BY DEF HandledAsSent, Numbers
  <2>1. CASE i = k + 1
    <3>1. handled'[i] = [req |-> i, intact |-> ~Misread, keep |-> keep]
      BY <2>1, <1>3, <1>4
    <3>2. ~Misread
      BY <1>3 DEF Misread
    <3>3. handled'[i].req = i
      BY <3>1
    <3>4. handled'[i].intact = ~Misread
      <4> DEFINE d == [req |-> i, intact |-> ~Misread, keep |-> keep]
      <4>1. d.intact = ~Misread
        OBVIOUS
      <4> HIDE DEF d
      <4> QED
        BY <3>1, <4>1 DEF d
    <3> QED
      BY <3>2, <3>3, <3>4
  <2>2. CASE i \in 1 .. k
    BY <2>2, <1>1, <1>4 DEF SentInv, HandledAsSent, Numbers
  <2> QED
    BY <2>1, <2>2, <1>4
<1>6. NothingHidden'
  <2>1. has' /\ chunk' = <<>>
    BY <1>1, <1>2 DEF NothingHidden
  <2> QED
    BY <2>1 DEF NothingHidden
<1>7. /\ c \in 1 .. Len(b) /\ Len(b) \in Nat
      /\ Len(buffer') = Len(b) - c
      /\ \A j \in 1 .. Len(b) - c : buffer'[j] = b[c + j]
  BY <1>0, <1>1, RestOfBuffer DEF TypeInv
<1>8. c = IF stream[k + 1].length = "none" THEN 1 ELSE 2
  <2>1. FirstReq = stream[k + 1]
    BY <1>3 DEF FirstReq
  <2>2. Consumed = IF SeenLength(FirstReq) = "none" THEN {1} ELSE {2}
    BY <1>3 DEF Consumed, Misread
  <2> QED
    BY <1>0, <1>1, <2>1, <2>2
<1>9. Begin' = Begin + c
  <2>1. Len(stream) \in Nat
    BY DEF TypeInv
  <2>2. Layout(stream, Starts(stream))
    BY <2>1, AllPartsLayout
  <2>3. k \in 0 .. Len(stream) - 1
    BY <2>1, <1>3, <1>4
  <2>4. Starts(stream)[k + 1] =
          Starts(stream)[k] + IF stream[k + 1].length = "none" THEN 1 ELSE 2
    BY <2>2, <2>3 DEF Layout
  <2> QED
    BY <2>4, <1>1, <1>4, <1>8 DEF Begin
<1>10. Begin \in Nat /\ Len(chunk) \in Nat /\ Len(arriving) \in Nat
  BY <1>2, BeginIsNat DEF TypeInv
<1>11. \A j \in 1 .. Len(b) : b[j] = all[Begin + j]
  BY <1>2 DEF InOrder, Slice
<1>12. AllParts(stream)' = all
  BY <1>1
<1> HIDE DEF k, all, b
<1>13. ASSUME NEW j \in 1 .. Len(b) - c
       PROVE  buffer'[j] = all[(Begin + c) + j]
  <2>1. c + j \in 1 .. Len(b) /\ Begin + (c + j) = (Begin + c) + j
    BY <1>7, <1>10
  <2>2. b[c + j] = all[Begin + (c + j)]
    BY <2>1, <1>11
  <2> QED
    BY <2>1, <2>2, <1>7
<1>14. Slice(buffer, Begin)'
  BY <1>7, <1>9, <1>12, <1>13 DEF Slice
<1>15. Begin' + Len(buffer') = Begin + Len(b)
  BY <1>7, <1>9, <1>10
<1>16. Slice(chunk, Begin + Len(buffer))'
  BY <1>1, <1>2, <1>12, <1>15 DEF InOrder, Slice, b, all
<1>17. Slice(arriving, Begin + Len(buffer) + Len(chunk))'
  BY <1>1, <1>2, <1>12, <1>15 DEF InOrder, Slice, b, all
<1>18. (Begin + Len(buffer) + Len(chunk) + Len(arriving) = Len(AllParts(stream)))'
  BY <1>1, <1>2, <1>12, <1>15 DEF InOrder, b, all
<1>19. Len(handled') <= Len(stream')
  <2>1. Len(stream) \in Nat
    BY DEF TypeInv
  <2> QED
    BY <2>1, <1>1, <1>3, <1>4
<1>20. InOrder'
  BY <1>14, <1>16, <1>17, <1>18, <1>19 DEF InOrder
<1> QED
  BY <1>5, <1>6, <1>20

(* Steps with which the connection is given up. *)
LEMMA SentOver ==
  ASSUME TypeInv, CloseInv, SentInv,
         OnDataThrows \/ SendKills \/ UpgradeDone \/ UpgradeFails
  PROVE  SentInv'
<1>1. UNCHANGED <<handled, damaged>> /\ ~Serving'
  BY DEF OnDataThrows, SendKills, UpgradeDone, UpgradeFails, Serving
<1>2. HandledAsSent'
  BY <1>1 DEF SentInv, HandledAsSent, Numbers
<1>3. ~damaged' => NothingHidden'
  <2> SUFFICES ASSUME ~damaged
               PROVE  NothingHidden'
    BY <1>1
  <2>1. NothingHidden
    BY DEF SentInv
  <2>2. CASE reader' = "terminated"
    BY <1>1, <2>2 DEF NothingHidden
  <2>3. CASE UpgradeDone
    BY <1>1, <2>1, <2>3 DEF UpgradeDone, Upgrades, NothingHidden
  <2>4. CASE UpgradeFails
    BY <1>1, <2>1, <2>4 DEF UpgradeFails, Upgrades, NothingHidden
  <2> QED
    BY <2>2, <2>3, <2>4 DEF OnDataThrows, SendKills
<1> QED
  BY <1>1, <1>2, <1>3 DEF SentInv

(* The cleanup thread, when it damages nothing. *)
LEMMA SentRemove ==
  ASSUME TypeInv, SentInv, CleanupRemoves
  PROVE  SentInv'
<1>1. /\ ~Terminated /\ has' = FALSE
      /\ damaged' = (damaged \/ (has /\ (InOnData \/ buffer # <<>>)))
      /\ buffer' \in IF has /\ InOnData THEN {buffer, <<>>} ELSE {buffer}
      /\ UNCHANGED <<stream, arriving, reader, chunk, state, handled, refused>>
  BY DEF CleanupRemoves, accept_vars
<1>2. CASE damaged'
  BY <1>2 DEF SentInv, HandledAsSent
<1>3. CASE ~damaged'
  <2>1. ~damaged /\ (has => ~InOnData /\ buffer = <<>>)
    BY <1>1, <1>3
  <2>2. buffer' = buffer
    BY <1>1, <2>1
  <2>3. NothingHidden
    BY <2>1 DEF SentInv
  <2>4. NothingHidden'
    <3>1. ~InOnData
      BY <2>1, <2>3 DEF NothingHidden, InOnData
    <3>2. Serving /\ state # "CLOSING" => buffer = <<>>
      BY <2>1, <2>3 DEF NothingHidden
    <3> QED
      BY <3>1, <3>2, <2>2, <2>3, <1>1 DEF NothingHidden, InOnData, Serving
  <2> QED
    BY <1>1, <2>1, <2>2, <2>4, SentKept DEF Serving
<1> QED
  BY <1>2, <1>3

(* Every step. *)
LEMMA SentNext ==
  ASSUME TypeInv, CloseInv, SentInv, [Next]_vars
  PROVE  SentInv'
<1> USE DEF accept_vars, ctx_vars
<1>0. ~damaged => NothingHidden
  BY DEF SentInv
<1>1. CASE AcceptInit
  <2>1. /\ reader = "none" /\ reader' = "test"
        /\ UNCHANGED <<stream, handled, buffer, chunk, arriving, damaged, has, state, refused>>
    BY <1>1 DEF AcceptInit, CloseInv, Terminated
  <2> QED
    BY <2>1, <1>0, SentKept DEF NothingHidden, Serving
<1>2. CASE ReaderTest \/ ReaderEnds
  <2>1. /\ reader \in {"test", "recv"} /\ reader' \in {"recv", "ended"}
        /\ UNCHANGED <<stream, handled, buffer, chunk, arriving, damaged, has, state, refused>>
    BY <1>2 DEF ReaderTest, ReaderEnds
  <2> QED
    BY <2>1, <1>0, SentKept DEF NothingHidden, Serving
<1>3. CASE GetContext
  <2>1. /\ reader = "onData" /\ reader' = "append" /\ has' = TRUE
        /\ UNCHANGED <<stream, handled, chunk, arriving, damaged, state, refused>>
        /\ IF has THEN buffer' = buffer ELSE buffer' = <<>>
    BY <1>3 DEF GetContext
  <2>2. state # "CLOSING" /\ Serving
    BY <2>1, StillServing
  <2>3. CASE damaged
    BY <2>1, <2>3 DEF SentInv, HandledAsSent
  <2>4. CASE ~damaged
    <3>1. buffer' = buffer
      BY <2>1, <2>2, <2>4, <1>0 DEF NothingHidden
    <3> QED
      BY <2>1, <2>4, <3>1, <1>0, SentKept DEF NothingHidden, Serving
  <2> QED
    BY <2>3, <2>4
<1>4. CASE NoUpgrade \/ OnDataReturns
  <2>1. /\ reader \in {"upgrade", "parse"} /\ reader' \in {"parse", "test"}
        /\ UNCHANGED <<stream, handled, buffer, chunk, arriving, damaged, has, state, refused>>
    BY <1>4 DEF NoUpgrade, OnDataReturns
  <2>2. ~damaged => has
    BY <2>1, <1>0 DEF NothingHidden
  <2> QED
    BY <2>1, <2>2, <1>0, SentKept DEF NothingHidden, Serving
<1>5. CASE OnDataCloses
  <2>1. /\ reader = "close" /\ reader' = "test" /\ state' = "CLOSING"
        /\ UNCHANGED <<stream, handled, buffer, chunk, arriving, damaged, refused>>
    BY <1>5 DEF OnDataCloses, AfterClose
  <2> QED
    BY <2>1, <1>0, SentKept DEF NothingHidden, Serving
<1>6. CASE UNCHANGED <<stream, handled, buffer, chunk, arriving, damaged, has, state,
                       reader, refused>>
  BY <1>6, <1>0, SentKept DEF NothingHidden, Serving
<1>7. CASE onNewConnection \/ Timeout \/ CleanupCollects \/ UNCHANGED vars
  BY <1>6, <1>7 DEF onNewConnection, Timeout, CleanupCollects, vars
<1>8. ASSUME NEW w \in Pool, Take(w) \/ Send(w)
      PROVE  SentInv'
  BY <1>6, <1>8 DEF Take, Send
<1>9. CASE OnDataThrows \/ SendKills \/ UpgradeDone \/ UpgradeFails
  BY <1>9, SentOver
<1>10. ASSUME NEW keep \in BOOLEAN, HandleRequest(keep)
       PROVE  SentInv'
  BY <1>10, SentHandle
<1>11. ASSUME NEW n \in 1 .. Len(arriving), ReaderRecv(n)
       PROVE  SentInv'
  BY <1>11, SentRecv
<1> QED
  BY <1>1, <1>2, <1>3, <1>4, <1>5, <1>7, <1>8, <1>9, <1>10, <1>11, SentAppend,
     SentRemove DEF Next, Reader

(* Whatever chunks the requests arrive in, OnData handles them in order,   *)
(* none twice, skipped or mixed up with another's body, as long as no data *)
(* was lost or misread before.                                             *)
THEOREM HandledInOrder == Spec => []HandledAsSent
<1>1. SentInv => HandledAsSent
  BY DEF SentInv
<1>2. TypeInv /\ CloseInv /\ SentInv /\ [Next]_vars => TypeInv' /\ CloseInv' /\ SentInv'
  BY TypeNext, CloseNext, SentNext
<1> QED
  BY <1>1, <1>2, TypeInit, CloseInit, SentInit, PTL DEF Spec

=============================================================================
