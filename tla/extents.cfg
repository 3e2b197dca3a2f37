CONSTANTS
  Slots = {s1, s2, s3, s4}
  Nodes = 6
  PoolBytes <- MCPoolBytes
  Align <- MCAlign
  Sizes <- MCSizes
SPECIFICATION ESpec
CHECK_DEADLOCK FALSE
INVARIANTS Partition Coalesced SearchComplete
SYMMETRY MCSymmetry
