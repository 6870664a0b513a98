SPECIFICATION Spec
CONSTANTS
  s1 = s1  s2 = s2  s3 = s3
  NULL = NULL
  Slots <- MCSlots
  Delays <- MCDelays
  MaxTime = 6
INVARIANTS ListIsSorted
PROPERTIES ImplementsQueue EveryTimerEnds
