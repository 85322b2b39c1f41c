SPECIFICATION AllSpec
CONSTANTS
  r1 = r1
  r2 = r2
  r3 = r3
  r4 = r4
  t1 = t1
  t2 = t2
  c1 = c1
  c2 = c2
  ann = ann
  adm = adm
  Account = Account
  Past = Past
  Home = Home
  Never = Never
  Requests = {r1, r2, r3, r4}
  Tokens = {t1, t2}
  Initial = {t1}
  Deployments <- AllSessions
  Challenges = {c1, c2}
  Enrolments <- AllEnrolments
  Allowed = 2
  LockFor = 1
  MaxMade = 3
  Mailboxes <- AllMailboxes
  Life = 1
  MaxCodes = 2
  Accesses <- AllAccesses
  Users = {ann, adm}
  Admin = adm
  Moderations <- AllMods
INVARIANTS
  AllTypeOK
  RevokedStaysRevoked
  SessionsSurvive
  UndisturbedSeesAll
  BudgetsHold
  FactorUsedOnce
  EnrolmentOrdered
  CodeTermsKept
  OnePersonsAccount
  ResetEndsOldAccess
  BansHold
PROPERTIES
  LiveLockKept
