SPECIFICATION Spec
CONSTANTS
  r1 = r1
  r2 = r2
  r3 = r3
  r4 = r4
  r5 = r5
  Requests = {r1, r2, r3, r4, r5}
  Deployments <- Families
INVARIANTS
  TypeOK
  NoFork
  TornDown
  KeptByCarefulClient
PROPERTIES
  ImplementsSingleUse
