------------------------- MODULE MCPromiseOperation -------------------------
(* A small instance of PromiseOperation for TLC. *)
EXTENDS PromiseOperation

CONSTANTS c1, c2, done1, done2, off1, off2

TwoCallers       == {c1, c2}
TwoCompletions   == {done1, done2}
TwoCancellations == {off1, off2}
=============================================================================
