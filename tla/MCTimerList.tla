---------------------------- MODULE MCTimerList ----------------------------
(* TimerList for TLC: three slots, so that a removal can hit the first, a   *)
(* middle and the last slot, and delays that make deadlines tie and cross.  *)
EXTENDS TimerList

CONSTANTS s1, s2, s3

MCSlots == {s1, s2, s3}
MCDelays == {1, 3}
=============================================================================
