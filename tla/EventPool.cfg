SPECIFICATION Spec
CONSTANTS
  s1 = s1  s2 = s2  s3 = s3  s4 = s4  s5 = s5
  NULL = NULL
  Slots <- FiveSlots
  Max = 5
  Delays <- OneDelay
  MaxTime = 3
  MaxIters = 3
  Transparent = TRUE
  Mixed = TRUE
  DelayConn = FALSE
  Interrupts = FALSE
  Faults = FALSE
SYMMETRY SlotSymmetry
INVARIANTS SlotsConsistent EventsFresh SessionsWhole
CHECK_DEADLOCK FALSE
