CONSTANTS
  h1 = h1
  h2 = h2
  b1 = b1
  b2 = b2
  w1 = w1
  w2 = w2
  Hosts = {h1, h2}
  Blocks = {b1, b2}
  Sessions = {w1, w2}
  HostOf <- MCHostOf
  BlockOf <- MCBlockOf
  Raw = {w2}
  MaxReplicas = 2
SPECIFICATION Spec
INVARIANTS ReplicasCommitted CurrentIsFresh DirectoryExact
