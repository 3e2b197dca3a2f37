CONSTANTS
  h1 = h1
  h2 = h2
  c1 = c1
  c2 = c2
  c3 = c3
  None = None
  Hosts = {h1, h2}
  Home = h1
  Contexts = {c1, c2, c3}
  HostOf <- MCHostOf
  Patient = {c1, c3}
  NumBlocks = 2
  MaxAcquires <- MCMaxAcquires
SPECIFICATION FairSpec
CHECK_DEADLOCK FALSE
INVARIANTS LeasesKept NoLeak
PROPERTIES AcquisitionEnds OnlyRepeatsSteal
