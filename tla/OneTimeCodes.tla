---------------------------- MODULE OneTimeCodes ----------------------------
(***************************************************************************)
(* The codes that are sent to an email address or a phone number           *)
(* (src/packages/shinauth/src/plugins/email-otp and phone-number): how     *)
(* they are made or reused, checked, and consumed by whatever they allow   *)
(* (a sign-in, a verification, a new password). What follows an accepted   *)
(* code is AccountAccess.                                                  *)
(*                                                                         *)
(* The module follows ONE identifier, in the database. Every sending and   *)
(* every wrong guess adds a row; a find reads the newest, a consume takes  *)
(* the newest and then deletes the rest, and an update or a delete reaches *)
(* all rows or, in MongoDB, any one. A request is one call of an endpoint, *)
(* and a step the work between two awaits; requests may be served by       *)
(* different processes, so nothing keeps two consumes apart.               *)
(***************************************************************************)
EXTENDS Integers, FiniteSets

CONSTANTS
  Requests,
  Deployments,  \* the plugin and its options, and the requests that come
  Allowed,      \* allowedAttempts
  Life,         \* expiresIn
  MaxCodes      \* bound of the codes made

AllOps == {"send", "check", "verify"}
Deployment ==
  [plugin      : {"email", "phone"},
   ops         : [Requests -> SUBSET AllOps],
   reuse       : BOOLEAN,  \* resendStrategy is "reuse", and codes can be read back
   single      : BOOLEAN,  \* the database deletes and updates one matching row
   stranger    : BOOLEAN,  \* nobody has the address, and it may not sign up
   serial      : BOOLEAN,  \* requests come one at a time
   maxTime     : Nat,      \* bound of the clock
   maxFailures : Nat]

ConstantsOK ==
  /\ Deployments \subseteq Deployment
  /\ Allowed \in Nat /\ Life \in Nat /\ MaxCodes \in Nat

VARIABLES
  deploy,    \* the configuration, chosen at the start
  rows,      \* the verification rows of the identifier
  created,   \* rows created so far
  made,      \* codes made so far
  call,      \* the state of each request
  now,       \* the clock
  lastSend,  \* history: when a code was last made or reused
  missed,    \* history: wrong guesses compared with a code
  accepted   \* history: the times at which a code was accepted by verify

vars == <<deploy, rows, created, made, call, now, lastSend, missed, accepted>>

Codes == 1..MaxCodes
Row == [id : Nat, code : 0..MaxCodes, n : Nat, exp : Nat, at : Nat]
NoRow == [id |-> 0, code |-> 0, n |-> 0, exp |-> 0, at |-> 0]

Steps == {"look", "extend", "make", "clear", "remake", "unmake",  \* send
          "peek", "purge", "bump",                                \* check, verify
          "take", "claim", "wipe", "rearm"}                       \* verify
Ended == {"sent", "ok", "rejected", "failed"}
Call == [op    : AllOps \cup {"none"},
         at    : {"idle"} \cup Steps \cup Ended,
         guess : 0..MaxCodes,  \* 0 is always wrong
         val   : Row]          \* the row, as it was found or claimed
NoCall == [op |-> "none", at |-> "idle", guess |-> 0, val |-> NoRow]

At(r, pc) == call[r].at = pc
Op(r) == call[r].op
InFlight(r) == call[r].at \in Steps
Become(r, c) == call' = [call EXCEPT ![r] = c]
Goto(r, pc) == Become(r, [call[r] EXCEPT !.at = pc])
Phone == deploy.plugin = "phone"
Stale(x) == x.exp < now

\* What a find may read: a newest row, or nothing.
Found == IF rows = {} THEN {NoRow} ELSE {x \in rows : \A y \in rows : y.at <= x.at}
\* A find also deletes the rows that have expired, unless that is turned off.
Swept == {x \in rows : ~Stale(x)}
\* The rows that adapter.delete or adapter.update by identifier reaches.
Reached == IF deploy.single /\ rows # {} THEN {{x} : x \in rows} ELSE {rows}
\* createVerificationValue
Add(code, n, exp) ==
  /\ rows' = rows \cup {[id |-> created + 1, code |-> code, n |-> n, exp |-> exp, at |-> now]}
  /\ created' = created + 1

-----------------------------------------------------------------------------
Init ==
  /\ deploy \in Deployments
  /\ rows = {}
  /\ created = 0
  /\ made = 0
  /\ call = [r \in Requests |-> NoCall]
  /\ now = 0
  /\ lastSend = 0
  /\ missed = [c \in Codes |-> 0]
  /\ accepted = [c \in Codes |-> {}]

\* A check is for an address that somebody has.
FirstStep(op) == CASE op = "send"   -> IF deploy.reuse THEN "look" ELSE "make"
                   [] op = "check"  -> IF deploy.stranger THEN "rejected" ELSE "peek"
                   [] op = "verify" -> "peek"

Start(r, op) ==
  /\ At(r, "idle")
  /\ deploy.serial => \A q \in Requests : ~InFlight(q)
  /\ op = "send" =>
       made + Cardinality({q \in Requests : InFlight(q) /\ Op(q) = "send"}) < MaxCodes
  /\ \E g \in IF op = "send" THEN {0} ELSE 0..made :
       Become(r, [NoCall EXCEPT !.op = op, !.at = FirstStep(op), !.guess = g])
  /\ UNCHANGED <<deploy, rows, created, made, now, lastSend, missed, accepted>>

-----------------------------------------------------------------------------
\* sendVerificationOTP and resolveOTP; sendPhoneNumberOTP

\* After the code is there: findUserByEmail.
AfterMake == IF deploy.stranger /\ ~Phone THEN "unmake" ELSE "sent"

\* tryReuseOTP: the code that is there, if it can still be used.
Look(r) ==
  /\ At(r, "look")
  /\ \E x \in Found :
       Become(r, [call[r] EXCEPT
         !.at  = IF x = NoRow \/ Stale(x) \/ x.n >= Allowed THEN "make" ELSE "extend",
         !.val = x])
  /\ rows' \in {rows, Swept}
  /\ UNCHANGED <<deploy, created, made, now, lastSend, missed, accepted>>

\* updateVerificationByIdentifier: a new expiry for whatever is there by now.
Extend(r) ==
  /\ At(r, "extend")
  /\ \E hit \in Reached :
       rows' = (rows \ hit) \cup {[x EXCEPT !.exp = now + Life] : x \in hit}
  /\ lastSend' = now
  /\ Goto(r, AfterMake)
  /\ UNCHANGED <<deploy, created, made, now, missed, accepted>>

NewCode(r) ==
  /\ made < MaxCodes
  /\ made' = made + 1
  /\ Add(made + 1, 0, now + Life)
  /\ lastSend' = now
  /\ Goto(r, AfterMake)
  /\ UNCHANGED <<deploy, now, missed, accepted>>

\* The email plugin deletes and tries again when the create throws (which then has
\* written nothing).
Make(r) ==
  /\ At(r, "make")
  /\ \/ NewCode(r)
     \/ /\ ~Phone /\ deploy.maxFailures > 0
        /\ Goto(r, "clear")
        /\ UNCHANGED <<deploy, rows, created, made, now, lastSend, missed, accepted>>

Remake(r) == At(r, "remake") /\ NewCode(r)

\* deleteVerificationByIdentifier, whatever is there by now; nothing is deleted, and
\* no error returned, when its search fails.
Delete(r) ==
  /\ \/ At(r, "clear") /\ Goto(r, "remake")
     \/ At(r, "unmake") /\ Goto(r, "sent")
     \/ At(r, "purge") /\ Goto(r, "rejected")
  /\ \/ \E hit \in Reached : rows' = rows \ hit
     \/ deploy.maxFailures > 0 /\ UNCHANGED rows
  /\ UNCHANGED <<deploy, created, made, now, lastSend, missed, accepted>>

-----------------------------------------------------------------------------
\* checkVerificationOTP, atomicVerifyOTP and verifyPhoneNumberOTP

\* The comparison of a guess with a code; a right one is not counted.
Compare(r, c) == missed' = IF call[r].guess = c THEN missed ELSE [missed EXCEPT ![c] = @ + 1]

\* Without a row, the email plugin leaves the answer to the consume. The
\* budget is looked at here by check and by the phone plugin.
Peek(r) ==
  /\ At(r, "peek")
  /\ \E x \in Found :
       LET early == Op(r) = "check" \/ Phone
       IN  IF x = NoRow
             THEN Goto(r, IF early THEN "rejected" ELSE "take") /\ UNCHANGED missed
           ELSE IF Stale(x) \/ (early /\ x.n >= Allowed)
             THEN Goto(r, "purge") /\ UNCHANGED missed
           ELSE IF Op(r) = "verify"
             THEN Goto(r, "take") /\ UNCHANGED missed
           ELSE /\ Become(r, [call[r] EXCEPT
                     !.at = IF call[r].guess = x.code THEN "ok" ELSE "bump", !.val = x])
                /\ Compare(r, x.code)
  /\ rows' \in {rows, Swept}
  /\ UNCHANGED <<deploy, created, made, now, lastSend, accepted>>

\* check counts a wrong code: the code it read and one failure more are written
\* over whatever is there by now.
Bump(r) ==
  /\ At(r, "bump")
  /\ \E hit \in Reached :
       rows' = (rows \ hit)
         \cup {[x EXCEPT !.code = call[r].val.code, !.n = call[r].val.n + 1] : x \in hit}
  /\ Goto(r, "rejected")
  /\ UNCHANGED <<deploy, created, made, now, lastSend, missed, accepted>>

\* consumeVerificationValue reads a newest row.
Take(r) ==
  /\ At(r, "take")
  /\ \E x \in Found :
       IF x = NoRow THEN Goto(r, "rejected")
       ELSE Become(r, [call[r] EXCEPT !.at = "claim", !.val = x])
  /\ UNCHANGED <<deploy, rows, created, made, now, lastSend, missed, accepted>>

\* Faulty: the row that was read counts, whether it is still there or not.
ClaimBlind(r) ==
  /\ At(r, "claim")
  /\ rows' = {x \in rows : x.id # call[r].val.id}
  /\ Goto(r, "wipe")
  /\ UNCHANGED <<deploy, created, made, now, lastSend, missed, accepted>>

\* It claims the row by its id: the race gate.
Claim(r) ==
  /\ At(r, "claim")
  /\ \/ \E x \in rows : /\ x.id = call[r].val.id
                        /\ rows' = rows \ {x}
                        /\ Become(r, [call[r] EXCEPT !.at = "wipe", !.val = x])
     \/ /\ \A x \in rows : x.id # call[r].val.id
        /\ Goto(r, "rejected")
        /\ UNCHANGED rows
  /\ UNCHANGED <<deploy, created, made, now, lastSend, missed, accepted>>

\* The outcome of verify for the row x it claimed.
Judge(r, x) ==
  IF Stale(x) \/ x.n >= Allowed
    THEN Goto(r, "rejected") /\ UNCHANGED <<missed, accepted>>
    ELSE /\ Compare(r, x.code)
         /\ Goto(r, IF call[r].guess = x.code THEN "ok" ELSE "rearm")
         /\ accepted' = IF call[r].guess = x.code
                          THEN [accepted EXCEPT ![x.code] = @ \cup {<<r, now>>}] ELSE accepted

\* The other rows are deleted, and the answer of the consume is judged.
Wipe(r) ==
  /\ At(r, "wipe")
  /\ rows' = {}
  /\ Judge(r, call[r].val)
  /\ UNCHANGED <<deploy, created, made, now, lastSend>>

\* A wrong code: it is created again, with one failure more and its expiry.
Rearm(r) ==
  /\ At(r, "rearm")
  /\ Add(call[r].val.code, call[r].val.n + 1, call[r].val.exp)
  /\ Goto(r, "rejected")
  /\ UNCHANGED <<deploy, made, now, lastSend, missed, accepted>>

-----------------------------------------------------------------------------
\* A storage call throws, or the process dies: the request ends where it is.
Fail(r) ==
  /\ InFlight(r)
  /\ Cardinality({q \in Requests : At(q, "failed")}) < deploy.maxFailures
  /\ Goto(r, "failed")
  /\ UNCHANGED <<deploy, rows, created, made, now, lastSend, missed, accepted>>

Tick ==
  /\ now < deploy.maxTime
  /\ now' = now + 1
  /\ UNCHANGED <<deploy, rows, created, made, call, lastSend, missed, accepted>>

Step(r) == Look(r) \/ Extend(r) \/ Make(r) \/ Remake(r) \/ Delete(r)
             \/ Peek(r) \/ Bump(r) \/ Take(r) \/ Claim(r) \/ Wipe(r) \/ Rearm(r)
Idle == (\A r \in Requests : ~InFlight(r)) /\ UNCHANGED vars

Next ==
  \/ \E r \in Requests : \E op \in deploy.ops[r] : Start(r, op)
  \/ \E r \in Requests : Step(r)
  \/ \E r \in Requests : Fail(r)
  \/ Tick
  \/ Idle

Spec == Init /\ [][Next]_vars

-----------------------------------------------------------------------------
(* Properties *)

\* The state has its type.
TypeOK ==
  /\ deploy \in Deployments
  /\ rows \subseteq Row /\ created \in Nat
  /\ made \in 0..MaxCodes
  /\ call \in [Requests -> Call]
  /\ now \in Nat /\ lastSend \in Nat
  /\ missed \in [Codes -> Nat]
  /\ accepted \in [Codes -> SUBSET (Requests \X Nat)]

Checks == \E r \in Requests : "check" \in deploy.ops[r]

\* No more wrong guesses are compared with a code than are allowed, however many
\* requests come at once, however often it is sent again, and whichever rows a delete
\* reaches. check reads, compares and writes the count in separate calls, and not
\* always where it read: with it, this holds for requests one at a time that are not
\* interrupted, in a database whose updates reach every matching row.
Bounded == \A c \in Codes : missed[c] <= Allowed
CodeGuessesBounded ==
  ~Checks \/ (deploy.serial /\ deploy.maxFailures = 0 /\ ~deploy.single) => Bounded

\* What the documentation says: after too many attempts the code becomes invalid, in
\* every database, when requests come one at a time and nothing fails.
AttemptsLimited == deploy.serial /\ deploy.maxFailures = 0 => Bounded

\* A code is accepted once, by one request, and within the lifetime of the last
\* sending: a wrong code in between does not prolong it.
AcceptedOnceInTime ==
  ~Checks => \A c \in Codes :
    /\ Cardinality(accepted[c]) <= 1
    /\ \A a \in accepted[c] : a[2] <= lastSend + Life

\* A code keeps the terms it was sent with when it is made again after a failure:
\* its budget, its lifetime, and that it is accepted once.
CodeTermsKept == CodeGuessesBounded /\ AcceptedOnceInTime
=============================================================================
