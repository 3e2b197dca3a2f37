CONSTANTS
  h1 = h1
  h2 = h2
  t1 = t1
  t2 = t2
  None = None
  Hosts = {h1, h2}
  Slots = {s1, s2}
  Addresses = {a1, a2}
  Readers = {t1, t2}
  HostOf <- MCHostOf
SPECIFICATION Spec
INVARIANTS GuardedDescriptor ReadersExact ReferencePins
SYMMETRY MCSymmetry
