-------------------------- MODULE MCSpeedTestClient --------------------------
(* Small instances of SpeedTestClient for TLC. *)
EXTENDS SpeedTestClient
=============================================================================
