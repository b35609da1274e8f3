---------------------------- MODULE MCTimerQueue ----------------------------
(* Two addresses and two timers: both at once, or one after the other at the  *)
(* address of the first, while an old TimerId still names it.                *)
EXTENDS TimerQueue, TLC

AddrSymmetry == Permutations(Addr)
=============================================================================
