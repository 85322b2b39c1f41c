SPECIFICATION Spec
CONSTANTS
  r1 = r1
  r2 = r2
  r3 = r3
  r4 = r4
  r5 = r5
  ann = ann
  bob = bob
  Nobody = Nobody
  Requests = {r1, r2, r3, r4, r5}
  Users = {ann, bob}
  Deployments <- Codes
  Interval = 1
  Expiry = 1
INVARIANTS
  TypeOK
  GrantedToApprover
  DecisionStands
  PollsHonoured
PROPERTIES
  ImplementsSingleUse
