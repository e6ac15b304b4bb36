---------------------------- MODULE MCSchedules ----------------------------
(* One cloud id that is edited twice, days of one instant.                 *)
EXTENDS Schedules
=============================================================================
