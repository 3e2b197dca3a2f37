CONSTANTS
  f = f
  g = g
  g2 = g2
  None = None
  MaxCreates = 1
  Hosts = {h1, h2, h3}
  Manifests <- MCManifests
SPECIFICATION Spec
CHECK_DEADLOCK FALSE
INVARIANTS ReadyAgrees CreatesResolve
PROPERTIES Rendezvous
