SPECIFICATION Spec
CONSTANTS
  r1 = r1
  r2 = r2
  r3 = r3
  r4 = r4
  p1 = p1
  p2 = p2
  Requests = {r1, r2, r3, r4}
  Processes = {p1, p2}
  Deployments <- Supported
  TTL = 1
  MaxTime = 2
INVARIANTS
  TypeOK
  AtMostOnce
  NoReplay
  FindFresh
PROPERTIES
  ImplementsSingleUse
