--------------------------- MODULE MCTcpConnection ---------------------------
(* Small instances of TcpConnection for TLC. *)
EXTENDS TcpConnection

CONSTANT t1

OneThread == {t1}
NoLimits  == {}
LimitTwo  == {2}
=============================================================================
