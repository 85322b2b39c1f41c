-------------------------- MODULE DeviceAuthorization --------------------------
(***************************************************************************)
(* The device authorization plugin                                         *)
(* (src/packages/shinauth/src/plugins/device-authorization/routes.ts): a   *)
(* device that has no browser polls with its device code, while a user     *)
(* who is signed in elsewhere opens the page of the user code (GET         *)
(* /device, here verify), which binds the code to that user, and approves  *)
(* or denies it.                                                           *)
(*                                                                         *)
(* The module follows ONE code, after it was issued. A request is a call   *)
(* of one endpoint, and a step is the work between two awaits; an await    *)
(* that only reads something else (the session, the user) is part of the   *)
(* step before it.                                                         *)
(***************************************************************************)
EXTENDS Integers, FiniteSets

CONSTANTS
  Requests,
  Users,
  Nobody,       \* a request without a session, a code without a user
  Deployments,  \* the configurations, and the requests that come, to consider
  Interval,     \* pollingInterval
  Expiry        \* expiresAt

AllOps == {"poll", "verify", "approve", "deny"}
UserOrNobody == Users \cup {Nobody}
Deployment ==
  [ops         : [Requests -> SUBSET AllOps],
   user        : [Requests -> UserOrNobody],  \* whose session comes with a request
   bound       : UserOrNobody,                \* user_id of the device's request
   maxPolls    : Nat,                         \* polls that run at a time
   maxTime     : Nat,                         \* bound of the clock
   maxFailures : Nat]

ASSUME ConstantsAssumption ==
  /\ Nobody \notin Users
  /\ Deployments \subseteq Deployment
  /\ Interval \in Nat /\ Expiry \in Nat

VARIABLES
  deploy,  \* the configuration, chosen at the start
  row,     \* the row of the code in deviceCode
  call,    \* the state of each request
  now      \* the clock

vars == <<deploy, row, call, now>>

Never == -1
Row == [status : {"pending", "approved", "denied", "gone"},
        user   : UserOrNobody,
        polled : Nat \cup {Never}]  \* lastPolledAt

Steps == {"find", "check", "touch", "judge", "lapse", "drop", "claim", "issue",  \* poll
          "look", "bind",                                                       \* verify
          "review", "settle"}                                                   \* approve, deny
Ended == {"slow", "pending", "expired", "denied", "granted",  \* answers to a poll
          "shown", "settled", "refused", "failed"}
Call == [op     : AllOps \cup {"none"},
         at     : {"idle"} \cup Steps \cup Ended,
         rec    : Row,                \* the row, as it read it
         clock  : Nat \cup {Never},   \* the time that it writes to lastPolledAt
         winner : UserOrNobody,       \* the user of the code that it claimed
         before : SUBSET Requests]    \* the requests that had ended when it started

At(r, pc) == call[r].at = pc
Op(r) == call[r].op
Me(r) == deploy.user[r]
Become(r, c) == call' = [call EXCEPT ![r] = c]
Goto(r, pc) == Become(r, [call[r] EXCEPT !.at = pc])
Keep(r, pc) == Become(r, [call[r] EXCEPT !.at = pc, !.rec = row])

\* The device endpoint has created the row.
Issued == [status |-> "pending", user |-> deploy.bound, polled |-> Never]

Init ==
  /\ deploy \in Deployments
  /\ row = Issued
  /\ call = [r \in Requests |-> [op |-> "none", at |-> "idle", rec |-> Issued, clock |-> Never,
                                 winner |-> Nobody, before |-> {}]]
  /\ now = 0

Over(r) == call[r].at \in Ended
InFlight(r) == call[r].at \in Steps
FirstStep(op) == CASE op = "poll"   -> "find"
                   [] op = "verify" -> "look"
                   [] OTHER         -> "review"

Start(r, op) ==
  /\ At(r, "idle")
  /\ op = "poll" =>
       Cardinality({q \in Requests : Op(q) = "poll" /\ InFlight(q)}) < deploy.maxPolls
  /\ Become(r, [call[r] EXCEPT !.op = op, !.at = FirstStep(op),
                               !.before = {q \in Requests : Over(q)}])
  /\ UNCHANGED <<deploy, row, now>>

Expired == Expiry < now

-----------------------------------------------------------------------------
\* deviceToken: the device polls

Find(r) ==
  /\ At(r, "find")
  /\ Keep(r, IF row.status = "gone" THEN "refused" ELSE "check")
  /\ UNCHANGED <<deploy, row, now>>

TooSoon(x) == x.polled # Never /\ now - x.polled < Interval

Check(r) ==
  /\ At(r, "check")
  /\ IF TooSoon(call[r].rec)
       THEN Goto(r, "slow")
       ELSE Become(r, [call[r] EXCEPT !.at = "touch", !.clock = now])
  /\ UNCHANGED <<deploy, row, now>>

\* Faulty: the whole record is written back as it was read, not its new time.
TouchWithRecord(r) ==
  /\ At(r, "touch")
  /\ row' = IF row.status = "gone" THEN row ELSE call[r].rec
  /\ Goto(r, "judge")
  /\ UNCHANGED <<deploy, now>>

Touch(r) ==
  /\ At(r, "touch")
  /\ row' = IF row.status = "gone" THEN row ELSE [row EXCEPT !.polled = call[r].clock]
  /\ Goto(r, "judge")
  /\ UNCHANGED <<deploy, now>>

\* By the record that was read before the update.
Judge(r) ==
  /\ At(r, "judge")
  /\ LET x == call[r].rec IN
       Goto(r, CASE Expired                           -> "lapse"
                 [] ~Expired /\ x.status = "pending"  -> "pending"
                 [] ~Expired /\ x.status = "denied"   -> "drop"
                 [] OTHER                             -> "claim")
  /\ UNCHANGED <<deploy, row, now>>

\* delete, by id; whatever the status is by now.
Drop(r) ==
  /\ At(r, "lapse") \/ At(r, "drop")
  /\ row' = [row EXCEPT !.status = "gone"]
  /\ Goto(r, IF At(r, "lapse") THEN "expired" ELSE "denied")
  /\ UNCHANGED <<deploy, now>>

\* Faulty: the code is deleted without looking at what the delete found.
ClaimBlind(r) ==
  /\ At(r, "claim")
  /\ row' = [row EXCEPT !.status = "gone"]
  /\ Become(r, [call[r] EXCEPT !.at = "issue", !.winner = call[r].rec.user])
  /\ UNCHANGED <<deploy, now>>

\* consumeOne of the approved code: the race gate.
Claim(r) ==
  /\ At(r, "claim")
  /\ IF row.status = "approved"
       THEN /\ row' = [row EXCEPT !.status = "gone"]
            /\ Become(r, [call[r] EXCEPT !.at = "issue", !.winner = row.user])
       ELSE Goto(r, "refused") /\ UNCHANGED row
  /\ UNCHANGED <<deploy, now>>

\* findUserById, createSession, and its copy in the secondary storage.
Issue(r) ==
  /\ At(r, "issue")
  /\ Goto(r, "granted")
  /\ UNCHANGED <<deploy, row, now>>

-----------------------------------------------------------------------------
\* deviceVerify: the user opens the page

Look(r) ==
  /\ At(r, "look")
  /\ Keep(r, IF row.status = "gone" \/ Expired THEN "refused"
             ELSE IF Me(r) # Nobody /\ row.user = Nobody /\ row.status = "pending" THEN "bind"
             ELSE "shown")
  /\ UNCHANGED <<deploy, row, now>>

\* Faulty: the code is bound although somebody else came first.
BindUnguarded(r) ==
  /\ At(r, "bind")
  /\ row' = IF row.status = "gone" THEN row ELSE [row EXCEPT !.user = Me(r)]
  /\ Goto(r, "shown")
  /\ UNCHANGED <<deploy, now>>

\* Guarded on the status and on there being no user.
Bind(r) ==
  /\ At(r, "bind")
  /\ row' = IF row.status = "pending" /\ row.user = Nobody
              THEN [row EXCEPT !.user = Me(r)] ELSE row
  /\ Goto(r, "shown")
  /\ UNCHANGED <<deploy, now>>

-----------------------------------------------------------------------------
\* deviceApprove and deviceDeny

\* Faulty: a code that was decided on is decided on again.
ReviewAgain(r) ==
  /\ At(r, "review")
  /\ Keep(r, IF row.status # "gone" /\ ~Expired /\ Me(r) # Nobody /\ row.user = Me(r)
               THEN "settle" ELSE "refused")
  /\ UNCHANGED <<deploy, row, now>>

Review(r) ==
  /\ At(r, "review")
  /\ Keep(r, IF row.status = "pending" /\ ~Expired /\ Me(r) # Nobody /\ row.user = Me(r)
               THEN "settle" ELSE "refused")
  /\ UNCHANGED <<deploy, row, now>>

\* Faulty: the status is the name of the operation.
SettleNamed(r) ==
  /\ At(r, "settle")
  /\ row' = IF row.status = "gone" THEN row ELSE [row EXCEPT !.status = Op(r), !.user = Me(r)]
  /\ Goto(r, "settled")
  /\ UNCHANGED <<deploy, now>>

\* update, by id only, and answered with success also when no row was there.
Settle(r) ==
  /\ At(r, "settle")
  /\ row' = IF row.status = "gone" THEN row
            ELSE [row EXCEPT !.status = IF Op(r) = "approve" THEN "approved" ELSE "denied",
                             !.user = Me(r)]
  /\ Goto(r, "settled")
  /\ UNCHANGED <<deploy, now>>

-----------------------------------------------------------------------------
\* A storage call throws, or the process dies: the request ends where it is.
Fail(r) ==
  /\ InFlight(r)
  /\ Cardinality({q \in Requests : At(q, "failed")}) < deploy.maxFailures
  /\ Goto(r, "failed")
  /\ UNCHANGED <<deploy, row, now>>

Tick ==
  /\ now < deploy.maxTime
  /\ now' = now + 1
  /\ UNCHANGED <<deploy, row, call>>

Poll(r) ==
  Find(r) \/ Check(r) \/ Touch(r) \/ Judge(r) \/ Drop(r) \/ Claim(r) \/ Issue(r)
Step(r) == Poll(r) \/ Look(r) \/ Bind(r) \/ Review(r) \/ Settle(r)

Idle == (\A r \in Requests : ~InFlight(r)) /\ UNCHANGED vars

Next ==
  \/ \E r \in Requests : \E op \in deploy.ops[r] : Start(r, op)
  \/ \E r \in Requests : Step(r)
  \/ \E r \in Requests : Fail(r)
  \/ Tick
  \/ Idle

Spec == Init /\ [][Next]_vars

-----------------------------------------------------------------------------
(* Properties *)

\* The state has its type.
TypeOK ==
  /\ deploy \in Deployments
  /\ row \in Row
  /\ call \in [Requests -> Call]
  /\ now \in Nat

Decided(r) == Op(r) \in {"approve", "deny"} /\ At(r, "settled")
Approved(r) == Op(r) = "approve" /\ At(r, "settled")
Denied(r) == Op(r) = "deny" /\ At(r, "settled")

\* The user that the device named, or else one who opened the page.
Claimant(u) ==
  IF deploy.bound # Nobody THEN u = deploy.bound
  ELSE \E q \in Requests : Op(q) = "verify" /\ At(q, "shown") /\ Me(q) = u

\* A session goes to a user who claimed the code and approved it, in a request
\* that did not come after a denial; nobody else has decided anything about the
\* code. Two users who open the page at once do not get each other's device.
GrantedToApprover ==
  \A r \in Requests : At(r, "granted") =>
    /\ call[r].winner \in Users
    /\ Claimant(call[r].winner)
    /\ \E p \in Requests : /\ Approved(p) /\ Me(p) = call[r].winner
                           /\ \A q \in call[p].before : ~Denied(q)
    /\ \A p \in Requests : Decided(p) => Me(p) = call[r].winner

\* A decision that was answered is not overruled by a request that comes after
\* it. (Of two that overlap, the later write counts, and both are answered with
\* success.)
DecisionStands ==
  \A q, r \in Requests : Decided(q) /\ Decided(r) => q \notin call[r].before

Denying == \E q \in Requests : Op(q) = "deny"
Claimed(r) == call[r].winner # Nobody

\* An approval that was answered counts: a poll that comes after it is not told
\* to wait, and is refused only when another poll has claimed the code or found
\* it expired. Without a denial, no stale record of another poll gets in the way.
ApprovalCounts ==
  \A r \in Requests : ~Denying /\ Op(r) = "poll" /\ (\E p \in call[r].before : Approved(p)) =>
    /\ ~At(r, "pending")
    /\ At(r, "refused") => \E q \in Requests \ {r} : Claimed(q) \/ At(q, "expired")

Answered(r) == Op(r) = "poll" /\ Over(r) /\ ~At(r, "failed") /\ call[r].clock # Never

\* A device that polls one request at a time is answered once in an interval,
\* whatever the browser does meanwhile.
PollsSpaced ==
  deploy.maxPolls = 1 =>
    \A r \in Requests : \A q \in call[r].before :
      Answered(q) /\ Answered(r) => call[r].clock - call[q].clock >= Interval

\* A poll is answered by the decision that was made before it, and in time.
PollsHonoured == ApprovalCounts /\ PollsSpaced

\* The code is a single-use value: one poll at most gets a session for it, and
\* a code that was claimed, denied or found expired is never claimed again.
Promise == INSTANCE SingleUse WITH
  Callers  <- Requests,
  issued   <- 1,
  live     <- IF row.status = "gone" THEN {} ELSE {1},
  redeemed <- {<<r, 1>> : r \in {q \in Requests : Claimed(q)}}
ImplementsSingleUse == Promise!Spec
=============================================================================
