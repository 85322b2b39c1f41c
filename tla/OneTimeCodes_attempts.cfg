SPECIFICATION Spec
CONSTANTS
  r1 = r1
  r2 = r2
  r3 = r3
  r4 = r4
  Requests = {r1, r2, r3, r4}
  Deployments <- SentTwice
  Allowed = 1
  Life = 1
  MaxCodes = 2
INVARIANTS
  AttemptsLimited
