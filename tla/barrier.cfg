CONSTANTS
  h1 = h1
  h2 = h2
  h3 = h3
  p1 = p1
  p2 = p2
  p3 = p3
  p4 = p4
  p5 = p5
  Hosts = {h1, h2, h3}
  Coordinator = h1
  HostOf <- MCHostOf
  Count <- MCCount
  Participants = {p1, p2, p3, p4, p5}
  Faulty = {p2, p4}
  MaxRounds = 2
SPECIFICATION FairSpec
CHECK_DEADLOCK FALSE
INVARIANTS BarrierHolds NoneUnexpected
PROPERTIES RoundEnds FailureSpreads
