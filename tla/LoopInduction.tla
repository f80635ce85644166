--------------------------- MODULE LoopInduction ---------------------------
(***************************************************************************)
(* Induction and recursion for the proofs about loops: the loops over the  *)
(* send queue and over a client's requests run for any number of rounds.   *)
(***************************************************************************)
EXTENDS Integers, WellFoundedInduction, TLAPS

(* Induction over the naturals, for a set of them.                         *)
LEMMA SetInduction ==
  ASSUME NEW S, 0 \in S, \A n \in Nat : n \in S => n + 1 \in S
  PROVE  Nat \subseteq S
<1> DEFINE T == Nat \ S
           R == {ss \in Nat \X Nat : ss[1] < ss[2]}
<1> SUFFICES ASSUME T # {}
             PROVE  FALSE
  OBVIOUS
<1>1. IsWellFoundedOn(R, Nat)
  BY NatLessThanWellFounded DEF OpToRel
<1>2. PICK x \in T : \A y \in T : ~ (<<y, x>> \in R)
  <2>1. T \subseteq Nat
    OBVIOUS
  <2> HIDE DEF T, R
  <2> QED
    BY <1>1, <2>1, WFMin
<1>3. x # 0 /\ x - 1 \in Nat /\ x - 1 < x
  OBVIOUS
<1>4. x - 1 \in S
  BY <1>2, <1>3
<1> QED
  BY <1>3, <1>4

(* f is the trace of a loop of n rounds over V that starts with base and   *)
(* in round i turns v into G[i, v].                                        *)
IsTrace(f, n, V, base, G) ==
  /\ f \in [0 .. n -> V]
  /\ f[0] = base
  /\ \A i \in 1 .. n : f[i] = G[<<i, f[i - 1]>>]

IsBody(G, V) == G \in [Nat \X V -> V]

(* A loop that starts with base and in round i turns v into G[i, v] has a  *)
(* trace: the recursive functions of the model are what they say.          *)
LEMMA LoopHasTrace ==
  ASSUME NEW V, NEW base \in V, NEW n \in Nat, NEW G, IsBody(G, V)
  PROVE  \E f : IsTrace(f, n, V, base, G)
<1>0. G \in [Nat \X V -> V]
  BY DEF IsBody
<1> DEFINE Trace(m, f) ==
             /\ f[0] = base
             /\ \A i \in 1 .. m : f[i] = G[<<i, f[i - 1]>>]
           S == {m \in Nat : \E f \in [0 .. m -> V] : Trace(m, f)}
<1>1. 0 \in S
  <2> DEFINE f == [i \in 0 .. 0 |-> base]
  <2>1. f \in [0 .. 0 -> V] /\ Trace(0, f)
    OBVIOUS
  <2> QED
    BY <2>1
<1>2. ASSUME NEW m \in Nat, m \in S
      PROVE  m + 1 \in S
  <2>1. PICK f \in [0 .. m -> V] : Trace(m, f)
    BY <1>2
  <2> DEFINE g == [i \in 0 .. m + 1 |->
                     IF i = m + 1 THEN G[<<m + 1, f[m]>>] ELSE f[i]]
  <2>2. g \in [0 .. m + 1 -> V]
    BY <1>0
  <2>3. g[0] = base
    BY <2>1
  <2>4. ASSUME NEW i \in 1 .. m + 1
        PROVE  g[i] = G[<<i, g[i - 1]>>]
    <3>1. CASE i = m + 1
      <4>1. g[m + 1] = G[<<m + 1, f[m]>>] /\ g[m] = f[m] /\ i - 1 = m
        BY <3>1
      <4> HIDE DEF g
      <4> QED
        BY <3>1, <4>1
    <3>2. CASE i # m + 1
      <4>1. i \in 1 .. m /\ i - 1 \in 0 .. m /\ i - 1 # m + 1
        BY <3>2
      <4>2. g[i] = f[i] /\ g[i - 1] = f[i - 1]
        BY <3>2, <4>1
      <4>3. f[i] = G[<<i, f[i - 1]>>]
        BY <4>1, <2>1
      <4> HIDE DEF g
      <4> QED
        BY <4>2, <4>3
    <3> QED
      BY <3>1, <3>2
  <2>5. Trace(m + 1, g)
    BY <2>3, <2>4
  <2> HIDE DEF g, Trace
  <2> QED
    BY <2>2, <2>5
<1>3. n \in S
  <2> HIDE DEF S
  <2> QED
    BY <1>1, <1>2, SetInduction
<1>4. PICK f \in [0 .. n -> V] : Trace(n, f)
  BY <1>3
<1>5. IsTrace(f, n, V, base, G)
  BY <1>4 DEF IsTrace
<1> QED
  BY <1>5

=============================================================================
