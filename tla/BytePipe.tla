------------------------------ MODULE BytePipe ------------------------------
(***************************************************************************)
(* What the sending half of a connection promises: the bytes it accepts    *)
(* reach the socket in order, none twice and none skipped, except that all *)
(* the bytes still waiting may be discarded at once; and no write is       *)
(* accepted that would leave more than `limit' bytes waiting.              *)
(***************************************************************************)
EXTENDS Integers, Sequences

CONSTANT MaxBytes   \* bound: bytes accepted in all

VARIABLES
  written,  \* bytes accepted so far; byte number `written' is the last one
  next,     \* bytes dealt with: transmitted or discarded
  wire,     \* the numbers of the bytes transmitted, in order
  limit     \* how many bytes may wait

pipe_vars == <<written, next, wire, limit>>

PipeInit == written = 0 /\ next = 0 /\ wire = <<>> /\ limit \in Nat

Write(n) ==
  /\ written + n - next <= limit
  /\ written' = written + n
  /\ UNCHANGED <<next, wire, limit>>

Transmit(n) ==
  /\ next + n <= written
  /\ next' = next + n
  /\ wire' = wire \o [i \in 1 .. n |-> next + i]
  /\ UNCHANGED <<written, limit>>

Discard ==
  /\ next' = written
  /\ UNCHANGED <<written, wire, limit>>

SetLimit ==
  /\ limit' \in Nat
  /\ UNCHANGED <<written, next, wire>>

PipeNext == (\E n \in 1 .. MaxBytes : Write(n) \/ Transmit(n)) \/ Discard \/ SetLimit

PipeSpec == PipeInit /\ [][PipeNext]_pipe_vars
=============================================================================
