SPECIFICATION Spec
CONSTANTS
  r1 = r1
  r2 = r2
  r3 = r3
  r4 = r4
  t1 = t1
  t2 = t2
  Requests = {r1, r2, r3}
  Tokens = {t1, t2}
  Initial = {t1}
  Deployments <- RacingUpdates
INVARIANTS
  RevokedStaysRevoked
