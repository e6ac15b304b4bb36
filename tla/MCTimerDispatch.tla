-------------------------- MODULE MCTimerDispatch --------------------------
(* A one-shot timer whose delay may take two segments, a periodic timer,   *)
(* one application task.                                                   *)
EXTENDS TimerDispatch
=============================================================================
