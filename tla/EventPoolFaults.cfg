SPECIFICATION Spec
CONSTANTS
  s1 = s1  s2 = s2  s3 = s3  s4 = s4  s5 = s5
  NULL = NULL
  Slots <- ThreeSlots
  Max = 3
  Delays <- OneDelay
  MaxTime = 3
  MaxIters = 4
  Transparent = TRUE
  Mixed = TRUE
  DelayConn = TRUE
  Interrupts = TRUE
  Faults = TRUE
INVARIANTS TypeOK NoRawSlot TimersLive SlotsLinked TimersInTunnels
PROPERTIES BatchEnds ShutdownEnds
CHECK_DEADLOCK FALSE
