SPECIFICATION AllSpec
CONSTANTS
  r1 = r1
  r2 = r2
  r3 = r3
  r4 = r4
  k1 = k1
  k2 = k2
  u1 = u1
  u2 = u2
  u3 = u3
  f1 = f1
  Past = Past
  Requests = {r1, r2, r3, r4}
  Keys = {k1, k2}
  Deployments <- Backends
  MaxTime = 3
  Never = Never
  Users = {u1, u2, u3}
  Organizations <- AllOrganizations
  Keyrings <- AllKeyrings
  Transactions <- AllTransactions
  Adapters <- AllAdapters
  Submissions = {r1, r2, r3}
  Assertions <- AllAssertions
  Buyers = {r1, r2, r3}
  Foreign = {f1}
  Loads <- AllLoads
  Rotations <- AllRotations
INVARIANTS
  AllTypeOK
  LimitHeld
  BlockedForCause
  OrganizationSound
  KeysSound
  TransactionsSound
  GuardedOnce
  ReplayRefused
  SubscriptionsSound
  TokensVerifiable
PROPERTIES
  RetriesForCause
  ConsumesOnce
