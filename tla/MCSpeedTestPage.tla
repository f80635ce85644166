--------------------------- MODULE MCSpeedTestPage ---------------------------
(* Small instances of SpeedTestPage for TLC. *)
EXTENDS SpeedTestPage
=============================================================================
