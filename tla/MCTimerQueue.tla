---------------------------- MODULE MCTimerQueue ----------------------------
(* TimerQueue for TLC: two timers, one-shot or repeating. *)
EXTENDS TimerQueue

CONSTANTS t1, t2
=============================================================================
