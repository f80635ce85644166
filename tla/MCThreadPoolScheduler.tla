----------------------- MODULE MCThreadPoolScheduler -----------------------
(* Small instances of ThreadPoolScheduler for TLC. *)
EXTENDS ThreadPoolScheduler

CONSTANTS t1, t2

NoLimits == {}
OneTask  == {t1}
TwoTasks == {t1, t2}
LimitOne == {0, 1}
=============================================================================
