---------------------------- MODULE MCEventPool ----------------------------
(* EventPool for TLC.                                                       *)
EXTENDS EventPool, TLC

CONSTANTS s1, s2, s3, s4, s5

ThreeSlots == {s1, s2, s3}
FiveSlots == {s1, s2, s3, s4, s5}
OneDelay == {1}

SlotSymmetry == Permutations(Slots)
=============================================================================
