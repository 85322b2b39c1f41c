---------------------------- MODULE AccountAccess ----------------------------
(***************************************************************************)
(* Who gets into the account of one email address: sign-up and sign-in     *)
(* with a password, sign-in by a proof of the mailbox (magic link, email   *)
(* OTP), confirmation of the address, password resets and changes, social  *)
(* sign-in with implicit linking, and unlinking                            *)
(* (src/packages/shinauth/src/api/routes, oauth2/link-account.ts,          *)
(* db/revoke-unproven-account-access.ts, plugins/magic-link, email-otp).   *)
(*                                                                         *)
(* Two people use the address: its owner, who alone reads its mail, and    *)
(* someone who only typed it. Single-use tokens are spent before a request *)
(* starts (VerificationStore, OneTimeCodes). A step is the work between    *)
(* two awaits that touch the rows, which are in a database. Without        *)
(* transactions runWithTransaction is just the sequence of its calls.      *)
(***************************************************************************)
EXTENDS Integers, FiniteSets

CONSTANTS
  Requests,
  Past,         \* who made the rows there are at the start
  Deployments   \* the configurations, people and requests to consider

People == {"owner", "other"}
AllOps == {"signUp", "signIn", "proof", "confirm", "resetLink", "resetOtp",
           "changePassword", "social", "unlink"}
ByMail == {"proof", "confirm", "resetLink", "resetOtp"}
NeedSession == {"changePassword", "unlink"}
Makers == Requests \cup {Past}

Deployment ==
  [ops         : [Requests -> SUBSET AllOps],
   atomic      : BOOLEAN,  \* the adapter has transactions
   who         : [Makers -> People],
   user        : {"none", "unverified", "verified"},  \* at the start
   password    : BOOLEAN,  \* whether it has one, set by Past
   verifyFirst : BOOLEAN,  \* requireEmailVerification
   revoke      : BOOLEAN,  \* revokeSessionsOnPasswordReset
   requireLocal: BOOLEAN,  \* accountLinking.requireLocalEmailVerified
   trusted     : BOOLEAN,  \* the provider is trusted
   maxFailures : Nat]

ConstantsOK ==
  /\ Past \notin Requests
  /\ Deployments \subseteq Deployment
  /\ \A d \in Deployments : \A r \in Requests :
       d.ops[r] \cap ByMail # {} => d.who[r] = "owner"

VARIABLES
  deploy,    \* the configuration, chosen at the start
  user,      \* the row of the user: none, unverified or verified
  accounts,  \* the rows of accounts
  sessions,  \* the sessions, named by the request that made them
  call,      \* the state of each request
  confirmed  \* history: the address was verified without a proof that strips

vars == <<deploy, user, accounts, sessions, call, confirmed>>
rows == <<user, accounts, sessions>>

\* A row is named by the request that made it. A password is named by the
\* request that set it, who knows it.
AccountRow == [id : Makers, kind : {"credential", "social"}, pw : Makers]
Credential(r) == [id |-> r, kind |-> "credential", pw |-> r]
Identity(r) == [id |-> r, kind |-> "social", pw |-> r]

Steps == {"find", "createUser", "link", "reread", "accounts", "strip", "revoke", "flip",
          "password", "rewrite", "unlink", "session"}
Ended == {"ok", "rejected", "failed"}
Call == [op     : AllOps \cup {"none"},
         at     : {"idle"} \cup Steps \cup Ended,
         user   : {"none", "unverified", "verified"},  \* as it read it
         seen   : SUBSET AccountRow,                   \* accounts, as it read them
         pw     : Makers,           \* the password that it signed in with
         old    : SUBSET Makers,    \* history: passwords, or credential rows, from before
         had    : SUBSET Makers,    \* history: sessions from before
         racing : SUBSET Requests,  \* history: in flight as it replaced the password
         quiet  : BOOLEAN,          \* history: nobody else's request beside its strip
         done   : SUBSET {"strip", "flip"}]
NoCall == [op |-> "none", at |-> "idle", user |-> "none", seen |-> {}, pw |-> Past,
           old |-> {}, had |-> {}, racing |-> {}, quiet |-> FALSE, done |-> {}]

At(r, pc) == call[r].at = pc
Op(r) == call[r].op
InFlight(r) == call[r].at \in Steps
Who(m) == deploy.who[m]
Become(r, c) == call' = [call EXCEPT ![r] = c]
Goto(r, pc) == Become(r, [call[r] EXCEPT !.at = pc])
Credentials(s) == {a \in s : a.kind = "credential"}
OthersInFlight(r) == {q \in Requests : InFlight(q) /\ Who(q) # Who(r)}

-----------------------------------------------------------------------------
Init ==
  /\ deploy \in Deployments
  /\ user = deploy.user
  /\ accounts = IF deploy.user # "none" /\ deploy.password THEN {Credential(Past)} ELSE {}
  /\ sessions = IF deploy.user # "none" THEN {Past} ELSE {}
  /\ call = [r \in Requests |-> NoCall]
  /\ confirmed = FALSE

\* A reset link goes to a user. Someone with a session has one when they start.
Start(r, op) ==
  /\ At(r, "idle")
  /\ op = "resetLink" => user # "none"
  /\ op \in NeedSession => \E m \in sessions : Who(m) = Who(r)
  /\ call' = [q \in Requests |->
       IF q = r
         THEN [NoCall EXCEPT
                 !.op = op,
                 !.at = IF op \in NeedSession \cup {"resetLink"} THEN "accounts" ELSE "find",
                 !.old = IF op \in {"resetLink", "resetOtp"}
                           THEN {m \in Makers : m = Past \/ call[m].at = "ok"} ELSE {}]
         ELSE [call[q] EXCEPT !.quiet = @ /\ (InFlight(q) => Who(q) = Who(r))]]
  /\ UNCHANGED <<deploy, rows, confirmed>>

-----------------------------------------------------------------------------
\* The first read of the user, with the accounts where they are asked for.

\* A password opens the account if the credential row that find() meets has it.
Enter(r) ==
  \/ /\ \A a \in Credentials(accounts) : FALSE
     /\ Goto(r, "rejected")
  \/ \E a \in Credentials(accounts) :
       Become(r, [call[r] EXCEPT
         !.at = IF Who(a.pw) # Who(r) \/ (deploy.verifyFirst /\ user = "unverified")
                  THEN "rejected" ELSE "session",
         !.pw = a.pw])

\* handleOAuthUserInfo: the provider vouches for the address of its owner only.
Vouched(r) == Who(r) = "owner"
Mine(r) == {a \in accounts : a.kind = "social" /\ Who(a.id) = Who(r)}

SocialNext(r) ==
  CASE user = "none" -> "createUser"
    [] user # "none" /\ Mine(r) # {} ->
         IF Vouched(r) /\ user = "unverified" THEN "flip" ELSE "session"
    [] OTHER ->
         IF \/ ~deploy.trusted /\ ~Vouched(r)
            \/ deploy.requireLocal /\ user = "unverified"
           THEN "rejected" ELSE "link"

AfterFind(r) ==
  CASE Op(r) = "signUp"   -> IF user = "none" THEN "createUser" ELSE "rejected"
    [] Op(r) = "proof"    -> CASE user = "none" -> "createUser"
                               [] user = "unverified" -> "reread"
                               [] OTHER -> "session"
    [] Op(r) = "confirm"  -> CASE user = "none" -> "rejected"
                               [] user = "unverified" -> "flip"
                               [] OTHER -> "ok"
    [] Op(r) = "resetOtp" -> IF user = "none" THEN "rejected" ELSE "password"
    [] Op(r) = "social"   -> SocialNext(r)

Find(r) ==
  /\ At(r, "find")
  /\ IF Op(r) = "signIn"
       THEN Enter(r)
       ELSE Become(r, [call[r] EXCEPT
              !.at = AfterFind(r),
              !.user = IF Op(r) \in {"social", "resetOtp"} THEN user ELSE @,
              !.seen = IF Op(r) = "resetOtp" THEN accounts ELSE @])
  /\ UNCHANGED <<deploy, rows, confirmed>>

-----------------------------------------------------------------------------
NewAccount(r) == IF Op(r) = "signUp" THEN Credential(r) ELSE Identity(r)
AfterSignUp == IF deploy.verifyFirst THEN "ok" ELSE "session"

\* createUser: email is unique. A proof and a social sign-in that the provider
\* vouches for make a verified user. A transaction holds all of a sign-up, or the
\* user and the account of createOAuthUser.
CreateUser(r) ==
  /\ At(r, "createUser")
  /\ \/ /\ user # "none"
        /\ Goto(r, "rejected")
        /\ UNCHANGED rows
     \/ /\ user = "none"
        /\ user' = IF Op(r) = "proof" \/ (Op(r) = "social" /\ Vouched(r))
                     THEN "verified" ELSE "unverified"
        /\ IF Op(r) = "proof" \/ ~deploy.atomic
             THEN /\ Goto(r, IF Op(r) = "proof" THEN "session" ELSE "link")
                  /\ UNCHANGED <<accounts, sessions>>
             ELSE /\ accounts' = accounts \cup {NewAccount(r)}
                  /\ sessions' = IF Op(r) = "signUp" /\ ~deploy.verifyFirst
                                   THEN sessions \cup {r} ELSE sessions
                  /\ Goto(r, IF Op(r) = "signUp" THEN "ok" ELSE "session")
  /\ UNCHANGED <<deploy, confirmed>>

\* linkAccount, by the user that was read. The provider's word then verifies it.
Link(r) ==
  /\ At(r, "link")
  /\ accounts' = accounts \cup {NewAccount(r)}
  /\ Goto(r, CASE Op(r) = "signUp" -> AfterSignUp
               [] Op(r) = "social" /\ call[r].user = "unverified" /\ Vouched(r) -> "flip"
               [] OTHER -> "session")
  /\ UNCHANGED <<deploy, user, sessions, confirmed>>

\* createSession
Session(r) ==
  /\ At(r, "session")
  /\ sessions' = sessions \cup {r}
  /\ Goto(r, "ok")
  /\ UNCHANGED <<deploy, user, accounts, confirmed>>

-----------------------------------------------------------------------------
\* revokeUnprovenAccountAccess

\* Faulty: the address is verified before anything is revoked.
RereadFlip(r) ==
  /\ At(r, "reread")
  /\ user' = "verified"
  /\ Become(r, [call[r] EXCEPT
       !.at = IF user = "verified" THEN "session" ELSE "accounts",
       !.old = {a.id : a \in Credentials(accounts)}, !.had = sessions,
       !.quiet = OthersInFlight(r) = {},
       !.done = IF user = "verified" THEN {} ELSE {"strip", "flip"}])
  /\ UNCHANGED <<deploy, accounts, sessions, confirmed>>

\* The user is read again: another request may have verified it by now.
Reread(r) ==
  /\ At(r, "reread")
  /\ Become(r, [call[r] EXCEPT
       !.at = IF user = "verified" THEN "flip" ELSE "accounts",
       !.old = {a.id : a \in Credentials(accounts)}, !.had = sessions,
       !.quiet = OthersInFlight(r) = {},
       !.done = IF user = "verified" THEN {} ELSE {"strip"}])
  /\ UNCHANGED <<deploy, rows, confirmed>>

\* findAccounts, and what is done with them.
Accounts(r) ==
  /\ At(r, "accounts")
  /\ \E next \in
       CASE Op(r) = "proof" -> {IF Credentials(accounts) = {} THEN "revoke" ELSE "strip"}
         [] Op(r) = "resetLink" -> {"password"}
         [] Op(r) = "changePassword" ->
              IF Credentials(accounts) = {} THEN {"rejected"}
              ELSE {IF Who(a.pw) = Who(r) THEN "rewrite" ELSE "rejected" :
                      a \in Credentials(accounts)}
         [] Op(r) = "unlink" -> {IF Cardinality(accounts) <= 1 THEN "rejected" ELSE "unlink"} :
       Become(r, [call[r] EXCEPT !.at = next, !.seen = accounts])
  /\ UNCHANGED <<deploy, rows, confirmed>>

\* deleteAccount, one row after another.
Strip(r) ==
  /\ At(r, "strip")
  /\ \E a \in Credentials(call[r].seen) :
       /\ accounts' = {b \in accounts : b.id # a.id}
       /\ LET left == call[r].seen \ {a} IN
            Become(r, [call[r] EXCEPT
              !.seen = left,
              !.at = IF Credentials(left) = {} THEN "revoke" ELSE "strip"])
  /\ UNCHANGED <<deploy, user, sessions, confirmed>>

\* deleteUserSessions: after a strip, a reset or a change of the password.
Revoke(r) ==
  /\ At(r, "revoke")
  /\ sessions' = {}
  /\ Goto(r, CASE Op(r) = "proof" -> "flip"
               [] Op(r) = "changePassword" -> "session"
               [] OTHER -> "ok")
  /\ UNCHANGED <<deploy, user, accounts, confirmed>>

\* What follows the new password of a reset.
AfterPassword == IF deploy.revoke THEN "revoke" ELSE "ok"

\* updateUser with emailVerified; the code of a reset by OTP does it after the
\* password, for a user that it read as unverified.
Flip(r) ==
  /\ At(r, "flip")
  /\ user' = "verified"
  /\ confirmed' = (confirmed \/ (Op(r) # "proof" /\ user # "verified"))
  /\ \E next \in CASE Op(r) = "resetOtp" -> {AfterPassword}
                   [] Op(r) = "confirm" -> {"ok", "session"}  \* autoSignInAfterVerification
                   [] OTHER -> {"session"} :
       Become(r, [call[r] EXCEPT !.at = next, !.done = @ \cup {"flip"}])
  /\ UNCHANGED <<deploy, accounts, sessions>>

-----------------------------------------------------------------------------
\* New passwords

\* The first credential row only, in whatever order they come.
Overwrite(r, a) == accounts' = (accounts \ {a}) \cup {[a EXCEPT !.pw = r]}

Replaced(r) ==
  Become(r, [call[r] EXCEPT
    !.racing = {q \in Requests : InFlight(q)},
    !.at = IF Op(r) = "resetOtp" /\ call[r].user = "unverified" THEN "flip" ELSE AfterPassword])

\* Faulty: one row is written, by its id.
PasswordById(r) ==
  /\ At(r, "password")
  /\ IF Credentials(call[r].seen) = {}
       THEN accounts' = accounts \cup {Credential(r)}
       ELSE \/ \E a \in Credentials(accounts) : Overwrite(r, a)
            \/ Credentials(accounts) = {} /\ UNCHANGED accounts
  /\ Replaced(r)
  /\ UNCHANGED <<deploy, user, sessions, confirmed>>

\* createAccount when none was there, otherwise updatePassword, which writes
\* every credential row of the user.
Password(r) ==
  /\ At(r, "password")
  /\ accounts' =
       IF Credentials(call[r].seen) = {}
         THEN accounts \cup {Credential(r)}
         ELSE {[a EXCEPT !.pw = IF a.kind = "credential" THEN r ELSE @] : a \in accounts}
  /\ Replaced(r)
  /\ UNCHANGED <<deploy, user, sessions, confirmed>>

\* changePassword: updateAccount by id, if the row is still there; then, if it is
\* asked for, every session is replaced by a new one.
Rewrite(r) ==
  /\ At(r, "rewrite")
  /\ \E id \in {a.id : a \in {b \in Credentials(call[r].seen) : Who(b.pw) = Who(r)}} :
       accounts' = {[a EXCEPT !.pw = IF a.id = id THEN r ELSE @] : a \in accounts}
  /\ \E next \in {"ok", "revoke"} : Goto(r, next)
  /\ UNCHANGED <<deploy, user, sessions, confirmed>>

\* unlinkAccount: a row that was read is deleted by id.
Unlink(r) ==
  /\ At(r, "unlink")
  /\ \E a \in call[r].seen : accounts' = {b \in accounts : b.id # a.id}
  /\ Goto(r, "ok")
  /\ UNCHANGED <<deploy, user, sessions, confirmed>>

\* A storage call throws, or the process dies: the request ends where it is.
Fail(r) ==
  /\ InFlight(r)
  /\ Cardinality({q \in Requests : At(q, "failed")}) < deploy.maxFailures
  /\ Goto(r, "failed")
  /\ UNCHANGED <<deploy, rows, confirmed>>

Step(r) == Find(r) \/ CreateUser(r) \/ Link(r) \/ Session(r) \/ Reread(r) \/ Accounts(r)
             \/ Strip(r) \/ Revoke(r) \/ Flip(r) \/ Password(r) \/ Rewrite(r) \/ Unlink(r)
Idle == (\A r \in Requests : ~InFlight(r)) /\ UNCHANGED vars

Next ==
  \/ \E r \in Requests : \E op \in deploy.ops[r] : Start(r, op)
  \/ \E r \in Requests : Step(r)
  \/ \E r \in Requests : Fail(r)
  \/ Idle

Spec == Init /\ [][Next]_vars

-----------------------------------------------------------------------------
(* Properties *)

\* The state has its type.
TypeOK ==
  /\ deploy \in Deployments
  /\ user \in {"none", "unverified", "verified"}
  /\ accounts \subseteq AccountRow
  /\ sessions \subseteq Makers
  /\ call \in [Requests -> Call]
  /\ confirmed \in BOOLEAN

\* Whoever proves the mailbox of an account that was not verified inherits no
\* password and no session from before, wherever requests fail and whatever
\* else runs; and if nobody else's request ran beside the proof, nobody else has
\* a password or a session from then on, unless with an identity linked earlier.
ProofInheritsNothing ==
  \A r \in Requests : call[r].done = {"strip", "flip"} =>
    /\ call[r].had \cap sessions = {} /\ call[r].old \cap {a.id : a \in Credentials(accounts)} = {}
    /\ call[r].quiet =>
         /\ \A a \in Credentials(accounts) : Who(a.pw) = Who(r)
         /\ \A m \in sessions : Who(m) = Who(r) \/ (m # Past /\ Op(m) = "social")

\* A provider identity does not join somebody else's password in an account
\* whose address only they typed: not before the owner has confirmed it. (Without
\* transactions the password of a sign-up can arrive after the identity.)
LinkedToConfirmed ==
  (/\ deploy.atomic /\ deploy.requireLocal /\ ~deploy.trusted
   /\ ~confirmed /\ deploy.user # "verified") =>
    \A a, b \in accounts :
      a.kind = "social" /\ b.kind = "credential" /\ Vouched(a.id) => Who(b.pw) = Who(a.id)

\* A reset that was answered leaves no password from before it, although requests
\* can leave two credential rows; and where it revokes sessions, one made with
\* an old password belongs to a sign-in it overtook.
ResetEndsOldAccess ==
  \A r \in Requests : Op(r) \in {"resetLink", "resetOtp"} /\ At(r, "ok") =>
    /\ \A a \in Credentials(accounts) : a.pw \notin call[r].old
    /\ deploy.revoke => \A m \in sessions \cap Requests :
         Op(m) = "signIn" /\ call[m].pw \in call[r].old => m \in call[r].racing

\* An account that somebody has proved is theirs alone.
OnePersonsAccount == ProofInheritsNothing /\ LinkedToConfirmed
=============================================================================
