CONSTANTS
  Messages = {m1, m2}
  Capacity = 2
  MaxPushes = 6
SPECIFICATION FairSpec
CHECK_DEADLOCK FALSE
INVARIANTS NoSlotRace
PROPERTIES ImplementsFifo EveryMessageConsumed
