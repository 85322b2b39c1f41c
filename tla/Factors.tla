------------------------------- MODULE Factors -------------------------------
(***************************************************************************)
(* The sessions (by EXTENDS) beside the components that prove who a user   *)
(* is and say what the user may do. They share no state: part says which   *)
(* of them moves, and the others stay as they began.                       *)
(***************************************************************************)
EXTENDS SessionStore

CONSTANTS
  \* TwoFactor and OneTimeCodes
  Challenges, Account, Enrolments, Allowed, LockFor, MaxMade, Mailboxes, Life, MaxCodes,
  \* AccountAccess and UserBans
  Past, Accesses, Users, Admin, Home, Never, Moderations

VARIABLES
  part,
  \* TwoFactor
  tDeploy, tRows, enabled, challenge, budget, otp, tMade, tCall, tNow,
  guessed, tried, redeemed, tSessions, streak,
  \* OneTimeCodes
  cDeploy, cRows, created, cMade, cCall, cNow, lastSend, missed, accepted,
  \* AccountAccess
  aDeploy, user, accounts, aSessions, aCall, confirmed,
  \* UserBans
  bDeploy, bNow, users, bSessions, bCall, bFailures

twoFactor == <<tDeploy, tRows, enabled, challenge, budget, otp, tMade, tCall, tNow,
               guessed, tried, redeemed, tSessions, streak>>
oneTimeCodes == <<cDeploy, cRows, created, cMade, cCall, cNow, lastSend, missed, accepted>>
accountAccess == <<aDeploy, user, accounts, aSessions, aCall, confirmed>>
userBans == <<bDeploy, bNow, users, bSessions, bCall, bFailures>>

TF == INSTANCE TwoFactor WITH
  Deployments <- Enrolments, deploy <- tDeploy, rows <- tRows, made <- tMade, call <- tCall,
  now <- tNow, sessions <- tSessions
OC == INSTANCE OneTimeCodes WITH
  Deployments <- Mailboxes, deploy <- cDeploy, rows <- cRows, made <- cMade, call <- cCall,
  now <- cNow
AA == INSTANCE AccountAccess WITH
  Deployments <- Accesses, deploy <- aDeploy, sessions <- aSessions, call <- aCall
UB == INSTANCE UserBans WITH
  Deployments <- Moderations, deploy <- bDeploy, now <- bNow, sessions <- bSessions,
  call <- bCall, failures <- bFailures

ASSUME FactorsAssumption ==
  TF!ConstantsOK /\ OC!ConstantsOK /\ AA!ConstantsOK /\ UB!ConstantsOK

\* A component that does not move has one of its first states.
AllInit ==
  /\ part \in {"SessionStore", "TwoFactor", "OneTimeCodes", "AccountAccess", "UserBans"}
  /\ Init /\ \/ part = "SessionStore"
             \/ /\ deploy = CHOOSE d \in Deployments : TRUE
                /\ \A q, r \in Requests : Tok(q) = Tok(r)
  /\ TF!Init /\ (part = "TwoFactor" \/ tDeploy = CHOOSE d \in Enrolments : TRUE)
  /\ OC!Init /\ (part = "OneTimeCodes" \/ cDeploy = CHOOSE d \in Mailboxes : TRUE)
  /\ AA!Init /\ (part = "AccountAccess" \/ aDeploy = CHOOSE d \in Accesses : TRUE)
  /\ UB!Init /\ (part = "UserBans" \/ bDeploy = CHOOSE d \in Moderations : TRUE)

AllNext ==
  \/ /\ part = "SessionStore" /\ Next
     /\ UNCHANGED <<part, twoFactor, oneTimeCodes, accountAccess, userBans>>
  \/ /\ part = "TwoFactor" /\ TF!Next
     /\ UNCHANGED <<part, vars, oneTimeCodes, accountAccess, userBans>>
  \/ /\ part = "OneTimeCodes" /\ OC!Next
     /\ UNCHANGED <<part, vars, twoFactor, accountAccess, userBans>>
  \/ /\ part = "AccountAccess" /\ AA!Next
     /\ UNCHANGED <<part, vars, twoFactor, oneTimeCodes, userBans>>
  \/ /\ part = "UserBans" /\ UB!Next
     /\ UNCHANGED <<part, vars, twoFactor, oneTimeCodes, accountAccess>>

allVars == <<part, vars, twoFactor, oneTimeCodes, accountAccess, userBans>>
AllSpec == AllInit /\ [][AllNext]_allVars

-----------------------------------------------------------------------------
(* The properties of the components; those of SessionStore have its names. *)
(* What a component promises is asked of it while it moves.                *)

\* The state of the component that moves has its type.
AllTypeOK ==
  CASE part = "SessionStore"  -> TypeOK
    [] part = "TwoFactor"     -> TF!TypeOK
    [] part = "OneTimeCodes"  -> OC!TypeOK
    [] part = "AccountAccess" -> AA!TypeOK
    [] part = "UserBans"      -> UB!TypeOK

\* Guesses stay within the budgets of challenges, codes and accounts.
BudgetsHold == part = "TwoFactor" => TF!BudgetsHold
\* A challenge is passed once, and a second factor accepted once.
FactorUsedOnce == part = "TwoFactor" => TF!FactorUsedOnce
\* A lock that is in force is not lifted.
LiveLockKept == TF!LiveLockKept
\* An account whose second factor is on has one that was proven.
EnrolmentOrdered == part = "TwoFactor" => TF!EnrolmentOrdered
\* A code is accepted once, in its time and within its attempts.
CodeTermsKept == part = "OneTimeCodes" => OC!CodeTermsKept
\* What a person proved gives nobody else a way into the account.
OnePersonsAccount == part = "AccountAccess" => AA!OnePersonsAccount
\* A reset of the password ends what the old one gave access to.
ResetEndsOldAccess == part = "AccountAccess" => AA!ResetEndsOldAccess
\* Bans and removals end the sessions there are, and keep new ones out.
BansHold == part = "UserBans" => UB!BansHold
=============================================================================
