----------------------------- MODULE MCFactors -----------------------------
(***************************************************************************)
(* Small instances of the sessions and of the components that prove who a  *)
(* user is, for TLC.                                                       *)
(***************************************************************************)
EXTENDS Factors, MCSessionStore

CONSTANTS c1, c2, ann, adm

-----------------------------------------------------------------------------
TwoFactorDeploy(ops, keys, enrolled, sent, skip, failed, time, faults) ==
  [ops |-> ops, keys |-> keys, enabled |-> enrolled, verified |-> enrolled, sent |-> sent,
   skip |-> skip, maxFailed |-> failed, maxTime |-> time, maxFailures |-> faults]

\* A burst of codes for one challenge; the lock and its end.
Tries == r1 :> {"totp"} @@ r2 :> {"totp"} @@ r3 :> {"totp"} @@ r4 :> {}
\* Failures spread over two challenges.
Spread == r1 :> {"totp"} @@ r2 :> {"totp"} @@ r3 :> {} @@ r4 :> {}
\* An OTP is tried while another is sent.
Sends == r1 :> {"otp"} @@ r2 :> {"otp"} @@ r3 :> {"otp", "send"} @@ r4 :> {}
\* Backup codes in a sign-in and a session, while new ones are made.
Backups == r1 :> {"backup"} @@ r2 :> {"backup"} @@ r3 :> {"generate"} @@ r4 :> {}
\* An enrolment, by TOTP or OTP, that may fail.
Enrols == r1 :> {"totp"} @@ r2 :> {"otp", "enable"} @@ r3 :> {"send", "disable"} @@ r4 :> {}

AllEnrolments ==
  {TwoFactorDeploy(Tries, {c1}, TRUE, FALSE, FALSE, 1, 1, 0),
   TwoFactorDeploy(Spread, {c1, c2}, TRUE, FALSE, FALSE, 2, 0, 0),
   TwoFactorDeploy(Sends, {c1}, TRUE, TRUE, FALSE, 2, 0, 1),
   TwoFactorDeploy(Backups, {c1, Account}, TRUE, FALSE, FALSE, 2, 0, 0),
   TwoFactorDeploy(Enrols, {Account}, FALSE, TRUE, FALSE, 2, 0, 1),
   TwoFactorDeploy(Enrols, {Account}, FALSE, FALSE, TRUE, 2, 0, 1)}

-----------------------------------------------------------------------------
CodesDeploy(plugin, ops, reuse, single, stranger, serial, time, faults) ==
  [plugin |-> plugin, ops |-> ops, reuse |-> reuse, single |-> single,
   stranger |-> stranger, serial |-> serial,
   maxTime |-> time, maxFailures |-> faults]

\* A burst of codes, with another sending; wrong codes told by check as well.
Burst == r1 :> {"send"} @@ r2 :> {"verify"} @@ r3 :> {"verify", "send"} @@ r4 :> {"verify"}
Mixed == r1 :> {"send"} @@ r2 :> {"verify", "check", "send"} @@ r3 :> {"check"} @@ r4 :> {"verify", "check"}

AllMailboxes ==
  {CodesDeploy("email", Burst, TRUE, TRUE, FALSE, FALSE, 2, 0),
   CodesDeploy("phone", Burst, FALSE, FALSE, FALSE, FALSE, 1, 1),
   CodesDeploy("email", Mixed, FALSE, FALSE, FALSE, TRUE, 0, 0),
   CodesDeploy("email", Mixed, FALSE, TRUE, TRUE, FALSE, 0, 1)}

-----------------------------------------------------------------------------
Everyone == {r1, r2, r3, r4, Past}
Owned(ms) == [m \in Everyone |-> IF m \in ms THEN "owner" ELSE "other"]

AccessDeploy(ops, who, atomic, row, password, verifyFirst, revoke, faults) ==
  [ops |-> ops, who |-> Owned(who), atomic |-> atomic, user |-> row, password |-> password,
   verifyFirst |-> verifyFirst, revoke |-> revoke, requireLocal |-> TRUE, trusted |-> FALSE,
   maxFailures |-> faults]

\* The owner proves a mailbox that someone else signed up with.
Proves == r1 :> {"signUp", "signIn"} @@ r2 :> {"signIn", "changePassword", "social"}
            @@ r3 :> {"proof"} @@ r4 :> {"confirm"}
\* Three resets; two, with a change of the password and a sign-in.
Resets == r1 :> {"resetOtp"} @@ r2 :> {"resetLink"} @@ r3 :> {"resetLink"} @@ r4 :> {}
Changes == r1 :> {"resetOtp"} @@ r2 :> {"resetLink"} @@ r3 :> {"changePassword"} @@ r4 :> {"signIn"}
\* Social sign-ins of both people, beside everything that changes the account.
Links == r1 :> {"signUp", "social"} @@ r2 :> {"social"} @@ r3 :> {"social", "proof"}
           @@ r4 :> {"social", "unlink", "confirm"}

AllAccesses ==
  {AccessDeploy(Proves, {r3, r4}, FALSE, row, TRUE, FALSE, FALSE, 1) :
     row \in {"none", "unverified"}}
  \cup {AccessDeploy(Resets, Everyone, FALSE, "unverified", FALSE, FALSE, TRUE, 0),
        AccessDeploy(Changes, Everyone, FALSE, "unverified", TRUE, TRUE, TRUE, 0)}
  \cup {AccessDeploy(Links, {r3, r4}, TRUE, row, TRUE, FALSE, FALSE, 0) :
          row \in {"none", "unverified"}}

-----------------------------------------------------------------------------
BanDeploy(w, x, y, z, who, permanent, default, cascade, time, faults) ==
  [ops |-> r1 :> w @@ r2 :> x @@ r3 :> y @@ r4 :> z,
   user |-> [r \in Requests |-> IF r \in who THEN adm ELSE ann],
   length |-> [r \in Requests |-> IF r \in permanent THEN Never ELSE 0],
   default |-> default, cascade |-> cascade, maxTime |-> time, maxFailures |-> faults]

AllMods ==
  \* Two bans of a user who signs in and is impersonated, and their end.
  {BanDeploy({"signIn", "impersonateUser"}, {"signIn"}, {"banUser", "adminUpdateUser"},
             {"banUser", "adminUpdateUser", "unbanUser", "unsetBanned"}, {}, {r1, r2, r4}, Never, FALSE, 1, 0)}
  \* A removal beside a ban, with and without foreign keys.
  \cup {BanDeploy({"signIn"}, {"impersonateUser"}, {"removeUser", "banUser"},
                  {"removeUser", "revokeUserSessions"}, {}, Everyone, 0, cascade, 0, 1)
          : cascade \in BOOLEAN}
  \* The admin who impersonates is banned or removed.
  \cup {BanDeploy({"impersonateUser"}, {"stopImpersonating"}, {"banUser", "removeUser"},
                  {"signIn"}, {r3, r4}, {r1, r2, r4}, Never, FALSE, 1, 1)}
=============================================================================
