------------------------------ MODULE UserBans ------------------------------
(***************************************************************************)
(* Bans, removals and impersonation (src/packages/shinauth/src/plugins/    *)
(* admin: routes.ts, and the hook of admin.ts that every new session       *)
(* passes), with sessions in the database.                                 *)
(*                                                                         *)
(* A ban is in force from its write until its end, and the hook lifts one  *)
(* that is over. Roles and the expiry of sessions are left out: an admin   *)
(* whose session can still be found may do everything.                     *)
(***************************************************************************)
EXTENDS Integers

CONSTANTS
  Requests,
  Users,
  Admin,        \* who impersonates, with the session Home
  Home,
  Never,        \* the end of a ban that has none
  Deployments   \* the requests to consider

Bans == {"banUser", "adminUpdateUser"}
Operations == Bans \cup {"signIn", "impersonateUser", "stopImpersonating", "unbanUser",
                         "unsetBanned",   \* adminUpdateUser with banned: false
                         "removeUser", "revokeUserSessions"}

Deployment ==
  [ops         : [Requests -> SUBSET Operations],
   user        : [Requests -> Users],            \* whom they are about
   length      : [Requests -> Nat \cup {Never}], \* of the bans they ask for; 0: less
                                                 \* than a tick of the clock
   default     : Nat \cup {Never},               \* defaultBanExpiresIn
   cascade     : BOOLEAN,   \* the database has foreign keys, which delete with the user
   maxTime     : Nat,
   maxFailures : Nat]

ConstantsOK ==
  /\ Admin \in Users /\ Home \notin Requests /\ Never \notin Nat
  /\ Deployments \subseteq Deployment

VARIABLES
  deploy,    \* the configuration, chosen at the start
  now,
  users,     \* their rows
  sessions,  \* the rows of their sessions
  call,      \* the state of each request
  failures

vars == <<deploy, now, users, sessions, call, failures>>

Row == [exists : BOOLEAN, banned : BOOLEAN, until : Nat \cup {Never},
        ban : Requests \cup {Home}]   \* history: who wrote the ban
Session == [id   : Requests \cup {Home},   \* the request that made it
            user : Users,
            by   : Users,             \* impersonatedBy, or the user
            seen  : SUBSET Requests,  \* history: bans written before it was checked
            after : SUBSET Requests]  \* history: revocations it was made after

Steps == {"enter", "check", "lift", "create", "write", "revoke", "deleteSessions", "delete",
          "return"}
Call == [op      : Operations \cup {"none"},
         at      : {"idle", "ok", "failed"} \cup Steps,
         session : Requests \cup {Home},   \* the one to stop
         seen    : SUBSET Requests,        \* history, as in Session
         wrote   : BOOLEAN,                \* history: its ban was written
         revoked : BOOLEAN,                \* history: it has deleted the sessions
         lifted  : Requests \cup {Home}]   \* history: the ban in force that it lifted
NoCall == [op |-> "none", at |-> "idle", session |-> Home, seen |-> {}, wrote |-> FALSE,
           revoked |-> FALSE, lifted |-> Home]

At(r, pc) == call[r].at = pc
Op(r) == call[r].op
User(r) == deploy.user[r]
InFlight(r) == call[r].at \in Steps
Become(r, c) == call' = [call EXCEPT ![r] = c]
Goto(r, pc) == Become(r, [call[r] EXCEPT !.at = pc])
Over(row) == row.until # Never /\ row.until < now
InForce(row) == row.exists /\ row.banned /\ ~Over(row)
Written == {b \in Requests : call[b].wrote}
Revoked == {b \in Requests : call[b].revoked /\ (Op(b) \in Bans => call[b].wrote)}
Homes == {s \in sessions : s.id = Home}
Exists(u) == users[u].exists

-----------------------------------------------------------------------------
Init ==
  /\ deploy \in Deployments
  /\ now = 0
  /\ users = [u \in Users |-> [exists |-> TRUE, banned |-> FALSE, until |-> Never, ban |-> Home]]
  /\ sessions = {[id |-> Home, user |-> Admin, by |-> Admin, seen |-> {}, after |-> {}]}
  /\ call = [r \in Requests |-> NoCall]
  /\ failures = 0

Start(r, op) ==
  /\ At(r, "idle")
  /\ Become(r, [NoCall EXCEPT !.op = op, !.at = "enter"])
  /\ UNCHANGED <<deploy, now, users, sessions, failures>>

\* What is found before anything is written: the user, and the admin's session.
Enter(r) ==
  /\ At(r, "enter")
  /\ \/ /\ Op(r) # "stopImpersonating"
        /\ Goto(r, IF ~Exists(User(r)) /\ Op(r) # "revokeUserSessions" THEN "failed"
                   ELSE CASE Op(r) = "signIn"          -> "check"
                          [] Op(r) = "impersonateUser" -> IF Homes = {} THEN "failed" ELSE "check"
                          [] Op(r) \in {"removeUser", "revokeUserSessions"} -> "revoke"
                          [] OTHER                     -> "write")
     \/ /\ Op(r) = "stopImpersonating"
        /\ \/ Goto(r, "failed")   \* not impersonating
           \/ \E s \in sessions :
                /\ s.user # s.by
                /\ Become(r, [call[r] EXCEPT
                     !.at = IF Exists(s.by) /\ Homes # {} THEN "return" ELSE "failed",
                     !.session = s.id])
  /\ UNCHANGED <<deploy, now, users, sessions, failures>>

\* session.create.before. No row is no ban.
Checked(r, lifts) ==
  LET row == users[User(r)]
  IN Become(r, [call[r] EXCEPT
       !.at = IF ~(row.exists /\ row.banned) THEN "create" ELSE IF lifts THEN "lift" ELSE "failed",
       !.seen = Written])

\* Faulty: every ban with an end is lifted.
CheckTimed(r) ==
  /\ At(r, "check")
  /\ Checked(r, users[User(r)].until # Never)
  /\ UNCHANGED <<deploy, now, users, sessions, failures>>

Check(r) ==
  /\ At(r, "check")
  /\ Checked(r, Over(users[User(r)]))
  /\ UNCHANGED <<deploy, now, users, sessions, failures>>

Lift(r) ==
  /\ At(r, "lift")
  /\ users' = [users EXCEPT ![User(r)].banned = FALSE, ![User(r)].until = Never]
  /\ Become(r, [call[r] EXCEPT !.at = "create",
                  !.lifted = IF InForce(users[User(r)]) THEN users[User(r)].ban ELSE Home])
  /\ UNCHANGED <<deploy, now, sessions, failures>>

Create(r) ==
  /\ At(r, "create")
  /\ IF deploy.cascade /\ ~Exists(User(r))
       THEN Goto(r, "failed") /\ UNCHANGED sessions
       ELSE /\ sessions' = sessions \cup
                 {[id |-> r, user |-> User(r),
                   by |-> IF Op(r) = "impersonateUser" THEN Admin ELSE User(r),
                   seen |-> call[r].seen, after |-> Revoked]}
            /\ Goto(r, "ok")
  /\ UNCHANGED <<deploy, now, users, failures>>

\* An update leaves out what is undefined: a ban without an end keeps the end
\* that the row has.
EndOf(r) ==
  IF deploy.length[r] # Never THEN now + deploy.length[r]
  ELSE IF Op(r) = "banUser" /\ deploy.default # Never THEN now + deploy.default
  ELSE users[User(r)].until

Write(r) ==
  /\ At(r, "write")
  /\ users' = [users EXCEPT ![User(r)] =
       IF ~@.exists THEN @
       ELSE CASE Op(r) \in Bans       -> [@ EXCEPT !.banned = TRUE, !.until = EndOf(r), !.ban = r]
              [] Op(r) = "unbanUser"   -> [@ EXCEPT !.banned = FALSE, !.until = Never]
              [] OTHER                 -> [@ EXCEPT !.banned = FALSE]]
  /\ Become(r, [call[r] EXCEPT !.at = IF Op(r) \in Bans THEN "revoke" ELSE "ok",
                               !.wrote = Op(r) \in Bans])
  /\ UNCHANGED <<deploy, now, sessions, failures>>

NotOf(u) == {s \in sessions : s.user # u}

\* deleteUserSessions; removeUser deletes them once more as part of the user.
Revoke(r) ==
  /\ At(r, "revoke")
  /\ sessions' = NotOf(User(r))
  /\ Become(r, [call[r] EXCEPT !.at = IF Op(r) = "removeUser" THEN "deleteSessions" ELSE "ok",
                               !.revoked = TRUE])
  /\ UNCHANGED <<deploy, now, users, failures>>

DeleteSessions(r) ==
  /\ At(r, "deleteSessions")
  /\ sessions' = NotOf(User(r))
  /\ Goto(r, "delete")
  /\ UNCHANGED <<deploy, now, users, failures>>

DeleteUser(r) ==
  /\ At(r, "delete")
  /\ users' = [users EXCEPT ![User(r)].exists = FALSE]
  /\ sessions' = IF deploy.cascade THEN NotOf(User(r)) ELSE sessions
  /\ Goto(r, "ok")
  /\ UNCHANGED <<deploy, now, failures>>

\* The end of an impersonation; the browser goes back to Home.
Return(r) ==
  /\ At(r, "return")
  /\ sessions' = {s \in sessions : s.id # call[r].session}
  /\ Goto(r, "ok")
  /\ UNCHANGED <<deploy, now, users, failures>>

\* A storage call throws, or the process dies.
Fail(r) ==
  /\ InFlight(r)
  /\ failures < deploy.maxFailures
  /\ failures' = failures + 1
  /\ Goto(r, "failed")
  /\ UNCHANGED <<deploy, now, users, sessions>>

Tick ==
  /\ now < deploy.maxTime
  /\ now' = now + 1
  /\ UNCHANGED <<deploy, users, sessions, call, failures>>

Step(r) ==
  \/ Enter(r) \/ Check(r) \/ Lift(r) \/ Create(r) \/ Write(r) \/ Revoke(r)
  \/ DeleteSessions(r) \/ DeleteUser(r) \/ Return(r)
Idle == (\A r \in Requests : ~InFlight(r)) /\ UNCHANGED vars

Next ==
  \/ \E r \in Requests : (\E op \in deploy.ops[r] : Start(r, op)) \/ Step(r) \/ Fail(r)
  \/ Tick \/ Idle

Spec == Init /\ [][Next]_vars

-----------------------------------------------------------------------------
(* Properties *)

\* The state has its type.
TypeOK ==
  /\ deploy \in Deployments
  /\ now \in 0..deploy.maxTime
  /\ users \in [Users -> Row]
  /\ sessions \subseteq Session
  /\ call \in [Requests -> Call]
  /\ failures \in 0..deploy.maxFailures

\* A session of someone whose sessions were deleted was made after that, by a
\* request that the ban, if it was one, came before.
RevokedGone ==
  \A s \in sessions : \A b \in Requests :
    call[b].revoked /\ User(b) = s.user => b \in s.after

\* Nobody gets past a ban in force, which is until the end that its row states: while
\* it is, no sign-in or impersonation that was checked after the ban was written has
\* left a session.
BannedOut ==
  \A s \in sessions :
    LET row == users[s.user] IN InForce(row) => row.ban \notin s.seen

\* A sign-in lifts a ban in force only if it was checked before that ban was
\* written, against one that was over.
LiftedForCause == \A r \in Requests : call[r].lifted \notin call[r].seen

\* Where the database has foreign keys, who is removed has no session.
RemovedOut == deploy.cascade => \A s \in sessions : Exists(s.user)

\* Bans and removals end the sessions there are, and keep new ones out.
BansHold == RevokedGone /\ BannedOut /\ LiftedForCause /\ RemovedOut

\* "If not provided, the ban will never expire" (admin.mdx): nobody whose last ban has
\* no end signs in after it, or is impersonated, unless it was lifted by request.
Permanent(b) == Op(b) = "banUser" /\ deploy.length[b] = Never /\ deploy.default = Never
PermanentBansStay ==
  \A s \in sessions :
    LET b == users[s.user].ban
    IN  b \in s.seen /\ Permanent(b) =>
          \E q \in Requests : Op(q) \in {"unbanUser", "unsetBanned"} /\ User(q) = s.user
=============================================================================
