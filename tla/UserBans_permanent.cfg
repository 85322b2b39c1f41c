SPECIFICATION Spec
CONSTANTS
  r1 = r1
  r2 = r2
  r3 = r3
  u1 = u1
  u2 = u2
  Requests = {r1, r2, r3}
  Users = {u1, u2}
  Admin = u1
  Home = Home
  Never = Never
  Deployments <- TwoBans
INVARIANT PermanentBansStay
