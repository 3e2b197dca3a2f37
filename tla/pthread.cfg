CONSTANTS
  h1 = h1
  h2 = h2
  c1 = c1
  c2 = c2
  c3 = c3
  p1 = p1
  p2 = p2
  None = None
  Hosts = {h1, h2}
  Home = h1
  Threads = {c1, c2, c3, p1, p2}
  HostOf <- MCHostOf
  Puts <- MCPuts
  Timed = {c2}
  Triers = {p2}
  Stagers = {c3}
  NumBits = 2
SPECIFICATION FairSpec
CHECK_DEADLOCK FALSE
INVARIANTS MutualExclusion GateNotStranded BitsExact
PROPERTIES AllReturn
