CONSTANTS
  h1 = h1
  h2 = h2
  h3 = h3
  r1 = r1
  r2 = r2
  r3 = r3
  Hosts = {h1, h2, h3}
  Requests = {r1, r2, r3}
  Requester <- MCRequester
  Home = h1
  Raw = {r3}
  Cancellable = {r1, r2, r3}
  Capacity = 1
  Nobody = Nobody
SPECIFICATION Spec
CHECK_DEADLOCK FALSE
INVARIANT LateGrantReleased
