------------------------------ MODULE TwoFactor ------------------------------
(***************************************************************************)
(* The second factor of one account                                        *)
(* (src/packages/shinauth/src/plugins/two-factor): a sign-in with a        *)
(* password leaves a challenge, named by a cookie, which a TOTP code, a    *)
(* one-time code that is sent (OTP) or a backup code turns into a session. *)
(* Wrong codes are counted per challenge, per OTP and per account.         *)
(*                                                                         *)
(* A request is one call of an endpoint; a step is the work between two    *)
(* awaits, and an await that only reads something else is part of the step *)
(* before it. The challenge, its attempt counter and the OTP are           *)
(* verification values; by what VerificationStore shows, each is a         *)
(* register that create overwrites and consume empties.                    *)
(***************************************************************************)
EXTENDS Integers, FiniteSets

CONSTANTS
  Requests,
  Challenges,   \* sign-ins that reached the second factor
  Account,      \* in the place of a challenge: the request has a session
  Deployments,  \* the configurations, and the requests that come, to consider
  Allowed,      \* guesses for a challenge, and for an OTP (allowedAttempts)
  LockFor,      \* how long it is locked
  MaxMade       \* bound of the secrets, sets of backup codes and OTPs made

Verify == {"totp", "otp", "backup"}
Manage == {"generate", "enable", "disable"}
AllOps == Verify \cup Manage \cup {"send"}
Makers == {"send", "generate", "enable"}  \* what they make has a number
Keys == Challenges \cup {Account}
Deployment ==
  [ops         : [Requests -> SUBSET AllOps],
   keys        : SUBSET Keys,  \* what the requests come with
   enabled     : BOOLEAN,      \* twoFactorEnabled at the start
   verified    : BOOLEAN,      \* whether TOTP was verified by then
   sent        : BOOLEAN,      \* whether an OTP was sent by then, for each key
   skip        : BOOLEAN,      \* skipVerificationOnEnable
   maxFailed   : Nat \ {0},    \* failures in a row before the account is locked
   maxTime     : Nat,          \* bound of the clock
   maxFailures : Nat]

ConstantsOK ==
  /\ Account \notin Challenges
  /\ Deployments \subseteq Deployment
  /\ Allowed \in Nat /\ LockFor \in Nat /\ MaxMade \in Nat \ {0, 1}

VARIABLES
  deploy,     \* the configuration, chosen at the start
  rows,       \* the twoFactor table
  enabled,    \* user.twoFactorEnabled
  challenge,  \* the challenges that can still be answered
  budget,     \* 2fa-attempts-<challenge>: the failures so far, or None
  otp,        \* 2fa-otp-<key>: the code and the failures so far, or NoOtp
  made,       \* secrets, sets of backup codes and OTPs made so far
  call,       \* the state of each request
  now,        \* the clock
  guessed,    \* history: TOTP and backup codes compared for a challenge
  tried,      \* history: codes compared with each OTP of a key
  redeemed,   \* history: times a backup code was accepted
  sessions,   \* history: sessions made for a challenge
  streak      \* history: failures counted in a row since the last success

vars == <<deploy, rows, enabled, challenge, budget, otp, made, call, now,
          guessed, tried, redeemed, sessions, streak>>
store == <<challenge, budget, otp>>

None == -1
NoOtp == [code |-> 0, n |-> 0]
Ids == 1..MaxMade

\* A set of backup codes is made of two.
CodesOf(s) == {2 * s, 2 * s + 1}
AllCodes == UNION {CodesOf(s) : s \in Ids}
Guesses == {0} \cup Ids \cup AllCodes  \* 0 is always wrong

\* The id of a row also stands for its secret.
Row == [id : Nat, codes : SUBSET AllCodes, count : Nat, lockedUntil : Nat \cup {None},
        verified : BOOLEAN]
NewRow(i, v) == [id |-> i, codes |-> CodesOf(i), count |-> 0, lockedUntil |-> None,
                 verified |-> v]
NoRow == [id |-> 0, codes |-> {}, count |-> 0, lockedUntil |-> None, verified |-> FALSE]

Steps == {"open", "load", "unlock", "begin", "cancel", "restore", "rearm", "count", "lockdown",
          "cas", "reset", "turnOn", "mark", "burn", "session",
          "make", "rewrite", "find", "wipe", "create", "turnOff", "drop"}
Ended == {"ok", "rejected", "conflict", "failed"}
Call == [op    : AllOps \cup {"none"},
         at    : {"idle"} \cup Steps \cup Ended,
         from  : {"idle"} \cup Steps,  \* where it failed
         key   : Keys,
         guess : Guesses,
         row   : Row,      \* as it read it
         user  : BOOLEAN,  \* twoFactorEnabled, as it read it
         n     : Nat,      \* failures, as it consumed them
         code  : Nat]      \* the OTP, as it consumed it
NoCall == [op |-> "none", at |-> "idle", from |-> "idle", key |-> Account, guess |-> 0,
           row |-> NoRow, user |-> FALSE, n |-> 0, code |-> 0]

At(r, pc) == call[r].at = pc
Op(r) == call[r].op
Key(r) == call[r].key
IsSignIn(r) == Key(r) # Account
InFlight(r) == call[r].at \in Steps
Become(r, c) == call' = [call EXCEPT ![r] = c]
Goto(r, pc) == Become(r, [call[r] EXCEPT !.at = pc])
Mine(r) == {x \in rows : x.id = call[r].row.id}

-----------------------------------------------------------------------------
Init ==
  /\ deploy \in Deployments
  /\ rows = {NewRow(1, deploy.verified)}
  /\ enabled = deploy.enabled
  \* The sign-in makes the challenge and its counter before it sets the cookie.
  /\ challenge = Challenges
  /\ budget = [c \in Challenges |-> 0]
  /\ made = IF deploy.sent THEN 2 ELSE 1
  /\ otp = [k \in Keys |-> IF deploy.sent THEN [code |-> 2, n |-> 0] ELSE NoOtp]
  /\ call = [r \in Requests |-> NoCall]
  /\ now = 0
  /\ guessed = [c \in Challenges |-> 0]
  /\ tried = [k \in Keys |-> [i \in Ids |-> 0]]
  /\ redeemed = [b \in AllCodes |-> 0]
  /\ sessions = [c \in Challenges |-> 0]
  /\ streak = [i \in Ids |-> 0]

FirstStep(op) ==
  CASE op = "generate" -> IF enabled THEN "load" ELSE "rejected"
    [] op = "enable"   -> IF deploy.skip THEN "turnOn" ELSE "find"
    [] op = "disable"  -> "turnOff"
    [] OTHER           -> "open"

\* The codes that a request may come with.
GuessesFor(op) ==
  CASE op = "backup" -> {0} \cup UNION {CodesOf(s) : s \in 1..made}
    [] op = "send" \/ op \in Manage -> {0}
    [] OTHER -> 0..made

\* With the session of a request comes its user.
Start(r, op) ==
  /\ At(r, "idle")
  /\ op \in Makers =>
       made + Cardinality({q \in Requests : InFlight(q) /\ Op(q) \in Makers}) < MaxMade
  /\ \E k \in IF op \in Manage THEN {Account} ELSE deploy.keys :
       \E g \in GuessesFor(op) :
         Become(r, [NoCall EXCEPT !.op = op, !.at = FirstStep(op), !.key = k, !.guess = g,
                                  !.user = enabled])
  /\ UNCHANGED <<deploy, rows, enabled, store, made, now,
                 guessed, tried, redeemed, sessions, streak>>

-----------------------------------------------------------------------------
\* verifyTwoFactor: the session, or else the challenge of the cookie and its user.
Open(r) ==
  /\ At(r, "open")
  /\ Become(r, [call[r] EXCEPT
       !.at   = IF IsSignIn(r) /\ Key(r) \notin challenge THEN "rejected"
                ELSE IF Op(r) = "send" THEN "make"
                ELSE IF Op(r) = "otp" /\ ~IsSignIn(r) THEN "begin" ELSE "load",
       !.user = enabled])
  /\ UNCHANGED <<deploy, rows, enabled, store, made, now,
                 guessed, tried, redeemed, sessions, streak>>

Locked(x) == x.lockedUntil # None /\ now < x.lockedUntil

\* assertTwoFactorNotLocked, by the row that was read.
Admit(x) == IF x.lockedUntil = None THEN "begin" ELSE IF Locked(x) THEN "rejected" ELSE "unlock"

\* findOne of the twoFactor row.
Load(r) ==
  /\ At(r, "load")
  /\ \/ rows = {} /\ Goto(r, "rejected")
     \/ \E x \in rows :
          Become(r, [call[r] EXCEPT
            !.at  = IF Op(r) = "generate" THEN "rewrite"
                    ELSE IF ~IsSignIn(r) THEN "begin"
                    ELSE IF Op(r) = "totp" /\ ~x.verified THEN "rejected" ELSE Admit(x),
            !.row = x])
  /\ UNCHANGED <<deploy, rows, enabled, store, made, now,
                 guessed, tried, redeemed, sessions, streak>>

\* The failures of a set of rows are forgotten.
Clear(xs) ==
  /\ rows' = (rows \ xs) \cup {[x EXCEPT !.count = 0, !.lockedUntil = None] : x \in xs}
  /\ streak' = [i \in Ids |-> IF \E x \in xs : x.id = i THEN 0 ELSE streak[i]]

\* incrementOne, guarded on the lock being expired still.
Unlock(r) ==
  /\ At(r, "unlock")
  /\ Clear({x \in Mine(r) : x.lockedUntil # None /\ ~Locked(x)})
  /\ Goto(r, "begin")
  /\ UNCHANGED <<deploy, enabled, store, made, now, guessed, tried, redeemed, sessions>>

-----------------------------------------------------------------------------
\* The comparison of the code, and the race gates before it.

\* After a right code: the row's failures are forgotten (a sign-in), the code is
\* crossed out (backup), or a second factor is enrolled.
Accepted(r) ==
  CASE Op(r) = "backup" -> "cas"
    [] Op(r) # "backup" /\ IsSignIn(r) -> "reset"
    [] Op(r) = "totp" /\ ~IsSignIn(r) ->
         IF call[r].row.verified THEN "ok" ELSE IF call[r].user THEN "mark" ELSE "turnOn"
    [] OTHER -> IF call[r].user THEN "ok" ELSE "turnOn"

\* TOTP and backup code, in a session: no budget.
Check(r) ==
  /\ At(r, "begin") /\ Op(r) # "otp" /\ ~IsSignIn(r)
  /\ LET x == call[r].row
         right == IF Op(r) = "totp" THEN call[r].guess = x.id ELSE call[r].guess \in x.codes
     IN  Goto(r, IF right THEN Accepted(r) ELSE "rejected")
  /\ UNCHANGED <<deploy, rows, enabled, store, made, now,
                 guessed, tried, redeemed, sessions, streak>>

\* Faulty: the counter is read and left where it is.
BeginPeek(r) ==
  /\ At(r, "begin") /\ Op(r) # "otp" /\ IsSignIn(r)
  /\ LET n == budget[Key(r)]
         x == call[r].row
         right == IF Op(r) = "totp" THEN call[r].guess = x.id ELSE call[r].guess \in x.codes
     IN  IF n = None \/ n >= Allowed
           THEN Goto(r, "rejected") /\ UNCHANGED guessed
           ELSE /\ Become(r, [call[r] EXCEPT !.at = IF right THEN Accepted(r) ELSE "rearm",
                                             !.n = n])
                /\ guessed' = [guessed EXCEPT ![Key(r)] = @ + 1]
  /\ UNCHANGED <<deploy, rows, enabled, store, made, now, tried, redeemed, sessions, streak>>

\* beginAttempt: the counter is consumed. A lost race, an expired counter and an
\* error all find none. Then the comparison, unless the secret cannot be read.
Begin(r) ==
  /\ At(r, "begin") /\ Op(r) # "otp" /\ IsSignIn(r)
  /\ budget' = [budget EXCEPT ![Key(r)] = None]
  /\ LET n == budget[Key(r)]
         x == call[r].row
         right == IF Op(r) = "totp" THEN call[r].guess = x.id ELSE call[r].guess \in x.codes
     IN  \/ Goto(r, "rejected") /\ n = None /\ UNCHANGED guessed
         \/ Goto(r, "cancel") /\ n >= Allowed /\ UNCHANGED guessed
         \/ /\ n # None /\ n < Allowed
            /\ \/ /\ Become(r, [call[r] EXCEPT !.at = "restore", !.n = n])
                  /\ UNCHANGED guessed
               \/ /\ Become(r, [call[r] EXCEPT !.at = IF right THEN Accepted(r) ELSE "rearm",
                                               !.n = n])
                  /\ guessed' = [guessed EXCEPT ![Key(r)] = @ + 1]
  /\ UNCHANGED <<deploy, rows, enabled, challenge, otp, made, now,
                 tried, redeemed, sessions, streak>>

\* The budget is spent: the challenge goes. An error is swallowed.
Cancel(r) ==
  /\ At(r, "cancel")
  /\ challenge' \in {challenge \ {Key(r)}, challenge}
  /\ Goto(r, "rejected")
  /\ UNCHANGED <<deploy, rows, enabled, budget, otp, made, now,
                 guessed, tried, redeemed, sessions, streak>>

\* Faulty: the OTP is read and left where it is.
TakePeek(r) ==
  /\ At(r, "begin") /\ Op(r) = "otp"
  /\ LET o == otp[Key(r)] IN
       IF o = NoOtp \/ o.n >= Allowed
         THEN Goto(r, "rejected") /\ UNCHANGED tried
         ELSE /\ Become(r, [call[r] EXCEPT
                   !.at = IF call[r].guess = o.code THEN Accepted(r) ELSE "rearm",
                   !.n = o.n, !.code = o.code])
              /\ tried' = [tried EXCEPT ![Key(r)][o.code] = @ + 1]
  /\ UNCHANGED <<deploy, rows, enabled, store, made, now, guessed, redeemed, sessions, streak>>

\* verifyOTP: the OTP is consumed, then compared if it has guesses left.
Take(r) ==
  /\ At(r, "begin") /\ Op(r) = "otp"
  /\ otp' = [otp EXCEPT ![Key(r)] = NoOtp]
  /\ LET o == otp[Key(r)] IN
       IF o = NoOtp \/ o.n >= Allowed
         THEN Goto(r, "rejected") /\ UNCHANGED tried
         ELSE /\ Become(r, [call[r] EXCEPT
                   !.at = IF call[r].guess = o.code THEN Accepted(r) ELSE "rearm",
                   !.n = o.n, !.code = o.code])
              /\ tried' = [tried EXCEPT ![Key(r)][o.code] = @ + 1]
  /\ UNCHANGED <<deploy, rows, enabled, challenge, budget, made, now,
                 guessed, redeemed, sessions, streak>>

\* The slot is returned after a server error; an error of that is swallowed.
Restore(r) ==
  /\ At(r, "restore")
  /\ budget' \in {[budget EXCEPT ![Key(r)] = call[r].n], budget}
  /\ Goto(r, "rejected")
  /\ UNCHANGED <<deploy, rows, enabled, challenge, otp, made, now,
                 guessed, tried, redeemed, sessions, streak>>

-----------------------------------------------------------------------------
\* After a wrong code

\* Faulty: the count goes down.
RearmDown(r) ==
  /\ At(r, "rearm")
  /\ IF Op(r) = "otp"
       THEN /\ otp' = [otp EXCEPT ![Key(r)] = [code |-> call[r].code, n |-> call[r].n - 1]]
            /\ UNCHANGED budget
       ELSE /\ budget' = [budget EXCEPT ![Key(r)] = call[r].n - 1]
            /\ UNCHANGED otp
  /\ Goto(r, IF IsSignIn(r) THEN "count" ELSE "rejected")
  /\ UNCHANGED <<deploy, rows, enabled, challenge, made, now,
                 guessed, tried, redeemed, sessions, streak>>

\* The counter is made again with one failure more. For an OTP that is a create
\* that may throw; recordFailure swallows the error.
Rearm(r) ==
  /\ At(r, "rearm")
  /\ IF Op(r) = "otp"
       THEN /\ otp' = [otp EXCEPT ![Key(r)] = [code |-> call[r].code, n |-> call[r].n + 1]]
            /\ UNCHANGED budget
       ELSE /\ budget' \in {[budget EXCEPT ![Key(r)] = call[r].n + 1], budget}
            /\ UNCHANGED otp
  /\ Goto(r, IF IsSignIn(r) THEN "count" ELSE "rejected")
  /\ UNCHANGED <<deploy, rows, enabled, challenge, made, now,
                 guessed, tried, redeemed, sessions, streak>>

\* Faulty: the row is written as it was read, with one failure more.
CountStale(r) ==
  /\ At(r, "count")
  /\ rows' = (rows \ Mine(r)) \cup {[call[r].row EXCEPT !.count = @ + 1] : x \in Mine(r)}
  /\ streak' = [i \in Ids |-> IF \E x \in Mine(r) : x.id = i THEN streak[i] + 1 ELSE streak[i]]
  /\ Goto(r, IF call[r].row.count + 1 >= deploy.maxFailed THEN "lockdown" ELSE "rejected")
  /\ UNCHANGED <<deploy, enabled, store, made, now, guessed, tried, redeemed, sessions>>

\* recordTwoFactorFailure: incrementOne by id, whatever the row is by now.
Count(r) ==
  /\ At(r, "count")
  /\ rows' = (rows \ Mine(r)) \cup {[x EXCEPT !.count = @ + 1] : x \in Mine(r)}
  /\ streak' = [i \in Ids |-> IF \E x \in Mine(r) : x.id = i THEN streak[i] + 1 ELSE streak[i]]
  /\ Goto(r, IF \E x \in Mine(r) : x.count + 1 >= deploy.maxFailed THEN "lockdown" ELSE "rejected")
  /\ UNCHANGED <<deploy, enabled, store, made, now, guessed, tried, redeemed, sessions>>

Lockdown(r) ==
  /\ At(r, "lockdown")
  /\ rows' = (rows \ Mine(r)) \cup {[x EXCEPT !.lockedUntil = now + LockFor] : x \in Mine(r)}
  /\ Goto(r, "rejected")
  /\ UNCHANGED <<deploy, enabled, store, made, now,
                 guessed, tried, redeemed, sessions, streak>>

-----------------------------------------------------------------------------
\* After a right code

\* Faulty: the codes that are left are written whatever the column is by now.
CasBlind(r) ==
  /\ At(r, "cas")
  /\ rows' = (rows \ Mine(r))
        \cup {[x EXCEPT !.codes = call[r].row.codes \ {call[r].guess}] : x \in Mine(r)}
  /\ redeemed' = [redeemed EXCEPT ![call[r].guess] = @ + 1]
  /\ Goto(r, IF IsSignIn(r) THEN "reset" ELSE "ok")
  /\ UNCHANGED <<deploy, enabled, store, made, now, guessed, tried, sessions, streak>>

\* The codes that are left are written if the column is still as it was read.
Cas(r) ==
  /\ At(r, "cas")
  /\ LET same == {x \in Mine(r) : x.codes = call[r].row.codes} IN
       \/ /\ same = {}
          /\ Goto(r, "conflict")
          /\ UNCHANGED <<rows, redeemed>>
       \/ /\ same # {}
          /\ rows' = (rows \ same) \cup {[x EXCEPT !.codes = @ \ {call[r].guess}] : x \in same}
          /\ redeemed' = [redeemed EXCEPT ![call[r].guess] = @ + 1]
          /\ Goto(r, IF IsSignIn(r) THEN "reset" ELSE "ok")
  /\ UNCHANGED <<deploy, enabled, store, made, now, guessed, tried, sessions, streak>>

\* resetTwoFactorFailures, unconditional. A backup code may come with
\* disableSession; an OTP enables nothing without a session.
Reset(r) ==
  /\ At(r, "reset")
  /\ Clear(Mine(r))
  /\ \/ Goto(r, IF Op(r) = "otp" /\ ~call[r].user THEN "rejected" ELSE "burn")
     \/ Op(r) = "backup" /\ Goto(r, "ok")
  /\ UNCHANGED <<deploy, enabled, store, made, now, guessed, tried, redeemed, sessions>>

\* valid: the challenge is consumed before the session is made.
Burn(r) ==
  /\ At(r, "burn")
  /\ challenge' = challenge \ {Key(r)}
  /\ Goto(r, IF Key(r) \in challenge THEN "session" ELSE "rejected")
  /\ UNCHANGED <<deploy, rows, enabled, budget, otp, made, now,
                 guessed, tried, redeemed, sessions, streak>>

\* createSession; then the trusted device, a verification value nobody else has.
Session(r) ==
  /\ At(r, "session")
  /\ sessions' = [sessions EXCEPT ![Key(r)] = @ + 1]
  /\ Goto(r, "ok")
  /\ UNCHANGED <<deploy, rows, enabled, store, made, now, guessed, tried, redeemed, streak>>

\* Faulty: TOTP is marked as verified before the account is.
TurnOnLate(r) ==
  /\ At(r, "turnOn")
  /\ IF Op(r) = "totp"
       THEN /\ rows' = (rows \ Mine(r)) \cup {[x EXCEPT !.verified = TRUE] : x \in Mine(r)}
            /\ Goto(r, "mark")
            /\ UNCHANGED enabled
       ELSE /\ enabled' = TRUE
            /\ Goto(r, IF Op(r) = "enable" THEN "find" ELSE "ok")
            /\ UNCHANGED rows
  /\ UNCHANGED <<deploy, store, made, now, guessed, tried, redeemed, sessions, streak>>

\* updateUser with twoFactorEnabled; then a new session replaces the session.
TurnOn(r) ==
  /\ At(r, "turnOn")
  /\ enabled' = TRUE
  /\ Goto(r, CASE Op(r) = "totp" -> "mark" [] Op(r) = "enable" -> "find" [] OTHER -> "ok")
  /\ UNCHANGED <<deploy, rows, store, made, now,
                 guessed, tried, redeemed, sessions, streak>>

Mark(r) ==
  /\ At(r, "mark")
  /\ rows' = (rows \ Mine(r)) \cup {[x EXCEPT !.verified = TRUE] : x \in Mine(r)}
  /\ Goto(r, "ok")
  /\ UNCHANGED <<deploy, enabled, store, made, now,
                 guessed, tried, redeemed, sessions, streak>>

-----------------------------------------------------------------------------
\* send2FaOTP, generateBackupCodes, enableTwoFactor and disableTwoFactor

Make(r) ==
  /\ At(r, "make") /\ made < MaxMade
  /\ made' = made + 1
  /\ otp' = [otp EXCEPT ![Key(r)] = [code |-> made + 1, n |-> 0]]
  /\ Goto(r, "ok")
  /\ UNCHANGED <<deploy, rows, enabled, challenge, budget, now,
                 guessed, tried, redeemed, sessions, streak>>

\* By id, whatever the codes are by now.
Rewrite(r) ==
  /\ At(r, "rewrite") /\ made < MaxMade
  /\ made' = made + 1
  /\ rows' = (rows \ Mine(r)) \cup {[x EXCEPT !.codes = CodesOf(made + 1)] : x \in Mine(r)}
  /\ Goto(r, "ok")
  /\ UNCHANGED <<deploy, enabled, store, now, guessed, tried, redeemed, sessions, streak>>

Find(r) ==
  /\ At(r, "find")
  /\ \E x \in IF rows = {} THEN {NoRow} ELSE rows :
       Become(r, [call[r] EXCEPT !.at = "wipe", !.row = x])
  /\ UNCHANGED <<deploy, rows, enabled, store, made, now,
                 guessed, tried, redeemed, sessions, streak>>

\* deleteMany by user, before enabling again and after disabling.
Wipe(r) ==
  /\ At(r, "wipe") \/ At(r, "drop")
  /\ rows' = {}
  /\ Goto(r, IF At(r, "wipe") THEN "create" ELSE "ok")
  /\ UNCHANGED <<deploy, enabled, store, made, now,
                 guessed, tried, redeemed, sessions, streak>>

Create(r) ==
  /\ At(r, "create") /\ made < MaxMade
  /\ made' = made + 1
  /\ rows' = rows \cup {NewRow(made + 1, call[r].row.verified \/ deploy.skip)}
  /\ Goto(r, "ok")
  /\ UNCHANGED <<deploy, enabled, store, now, guessed, tried, redeemed, sessions, streak>>

TurnOff(r) ==
  /\ At(r, "turnOff")
  /\ enabled' = FALSE
  /\ Goto(r, "drop")
  /\ UNCHANGED <<deploy, rows, store, made, now,
                 guessed, tried, redeemed, sessions, streak>>

-----------------------------------------------------------------------------
\* A storage call throws, or the process dies: the request ends where it is.
Fail(r) ==
  /\ InFlight(r)
  /\ Cardinality({q \in Requests : At(q, "failed")}) < deploy.maxFailures
  /\ Become(r, [call[r] EXCEPT !.at = "failed", !.from = call[r].at])
  /\ UNCHANGED <<deploy, rows, enabled, store, made, now,
                 guessed, tried, redeemed, sessions, streak>>

\* A challenge expires with its counter; an OTP has an expiry of its own.
Expire(k) ==
  /\ now > 0
  /\ \/ otp' = [otp EXCEPT ![k] = NoOtp] /\ UNCHANGED <<challenge, budget>>
     \/ /\ k \in Challenges
        /\ challenge' = challenge \ {k}
        /\ budget' = [budget EXCEPT ![k] = None]
        /\ UNCHANGED otp
  /\ UNCHANGED <<deploy, rows, enabled, made, call, now,
                 guessed, tried, redeemed, sessions, streak>>

Tick ==
  /\ now < deploy.maxTime
  /\ now' = now + 1
  /\ UNCHANGED <<deploy, rows, enabled, store, made, call,
                 guessed, tried, redeemed, sessions, streak>>

Prove(r) ==
  \/ Open(r) \/ Load(r) \/ Unlock(r) \/ Check(r)
  \/ Begin(r) \/ Cancel(r) \/ Take(r) \/ Restore(r)
Settle(r) == Rearm(r) \/ Count(r) \/ Lockdown(r) \/ Cas(r) \/ Reset(r) \/ Burn(r) \/ Session(r)
               \/ TurnOn(r) \/ Mark(r)
Administer(r) == Make(r) \/ Rewrite(r) \/ Find(r) \/ Wipe(r) \/ Create(r) \/ TurnOff(r)
Idle == (\A r \in Requests : ~InFlight(r)) /\ UNCHANGED vars

Next ==
  \/ \E r \in Requests : \E op \in deploy.ops[r] : Start(r, op)
  \/ \E r \in Requests : Prove(r) \/ Settle(r) \/ Administer(r)
  \/ \E r \in Requests : Fail(r)
  \/ \E k \in deploy.keys : Expire(k)
  \/ Tick
  \/ Idle

Spec == Init /\ [][Next]_vars

-----------------------------------------------------------------------------
(* Properties *)

\* The state has its type.
TypeOK ==
  /\ deploy \in Deployments
  /\ rows \subseteq Row
  /\ enabled \in BOOLEAN
  /\ challenge \subseteq Challenges
  /\ budget \in [Challenges -> Nat \cup {None}]
  /\ otp \in [Keys -> [code : Nat, n : Nat]]
  /\ made \in 0..MaxMade
  /\ call \in [Requests -> Call]
  /\ now \in Nat

\* However many requests come at once, no more codes are compared for a challenge
\* (TOTP and backup codes together) or with an OTP than are allowed.
GuessesBounded ==
  /\ \A c \in Challenges : guessed[c] <= Allowed
  /\ \A k \in Keys, i \in Ids : tried[k][i] <= Allowed

\* A challenge turns into one session at most, whatever factors race for it.
OneSessionPerChallenge == \A c \in Challenges : sessions[c] <= 1

\* A backup code is accepted once, in whatever challenges, in sessions, and while
\* new codes are generated; and a code that was crossed out does not come back.
CodeUsedOnce ==
  /\ \A b \in AllCodes : redeemed[b] <= 1
  /\ \A x \in rows : \A b \in x.codes : redeemed[b] = 0

\* As many failures in a row as are allowed lock the account: no failure is lost
\* between requests. Only a lock that could not be written is missing.
LockEngages ==
  \A x \in rows : streak[x.id] >= deploy.maxFailed =>
    \/ x.lockedUntil # None
    \/ \E r \in Requests : /\ call[r].row.id = x.id
                           /\ At(r, "lockdown") \/ call[r].from = "lockdown"

\* A lock that has not expired is not cleared, except by a right code or with
\* its row; a request that saw an earlier lock expire leaves it alone.
LiveLockKept ==
  [][\A x \in rows : Locked(x) =>
       \/ \E y \in rows' : y.id = x.id /\ y.lockedUntil >= x.lockedUntil
       \/ \A y \in rows' : y.id # x.id
       \/ \E r \in Requests : At(r, "reset") /\ call'[r].at \in {"burn", "ok", "rejected"}]_vars

\* An enrolment that fails half-way does not leave a verified TOTP in an account
\* without two-factor authentication (nobody disables it meanwhile).
EnrolmentOrdered ==
  (\A r \in Requests : Op(r) # "disable") =>
    \A x \in rows : x.verified /\ deploy.verified = FALSE => enabled

\* However the attempts are spread over requests, factors and challenges, those
\* of a challenge stay within its budget, and those of the account engage the lock.
BudgetsHold == GuessesBounded /\ LockEngages

\* One session for a challenge, and one acceptance of a backup code.
FactorUsedOnce == OneSessionPerChallenge /\ CodeUsedOnce
=============================================================================
