----------------------------- MODULE Reservation -----------------------------
(***************************************************************************)
(* reserveVerificationValue (src/packages/shinauth/src/db/                 *)
(* internal-adapter.ts), as a SAML sign-in uses it                         *)
(* (src/packages/sso/src/routes/saml-pipeline.ts): an assertion that is    *)
(* still valid leaves a tombstone under a primary key made of its id, and  *)
(* one that finds it is refused. Tombstones go when they have expired.     *)
(*                                                                         *)
(* There is one assertion, submitted by every request; it may have a time   *)
(* that it ends at. Time goes in steps of which some make a second.        *)
(***************************************************************************)
EXTENDS Integers, FiniteSets

CONSTANTS
  Requests,
  Deployments   \* the storages to consider

Deployment ==
  [storage   : {"database", "both", "secondary"},
   serial    : BOOLEAN,   \* one submission at a time
   dated     : BOOLEAN,   \* the assertion has a notOnOrAfter
   expiry    : Nat,       \* notOnOrAfter with the skew that is allowed
   life      : Nat,       \* DEFAULT_ASSERTION_TTL_MS
   second    : Nat \ {0}, \* the unit of times to live
   maxTime   : Nat,
   maxFaults : Nat]       \* storage calls that throw

ConstantsOK == Deployments \subseteq Deployment

VARIABLES
  deploy,  \* the configuration, chosen at the start
  now,
  row,     \* when the tombstone in the database ends
  cache,   \* when secondary storage forgets the tombstone in it
  call,    \* the state of each submission
  faults

vars == <<deploy, now, row, cache, call, faults>>

NoTombstone == -1
Steps == {"check", "reserve", "confirm", "copy"}
Ended == {"accepted", "refused", "failed"}
Call == [at    : {"idle"} \cup Steps \cup Ended,
         ends  : Nat,       \* expiresAt of its tombstone
         taken : Nat,       \* history: when it made that
         wrote : BOOLEAN]   \* history: its create took effect
NoCall == [at |-> "idle", ends |-> 0, taken |-> 0, wrote |-> FALSE]

At(r, pc) == call[r].at = pc
InFlight(r) == call[r].at \in Steps
Become(r, c) == call' = [call EXCEPT ![r] = c]
Goto(r, pc) == Become(r, [call[r] EXCEPT !.at = pc])
Faulty == faults < deploy.maxFaults /\ faults' = faults + 1
CacheOnly == deploy.storage = "secondary"

Init ==
  /\ deploy \in Deployments
  /\ now = 0
  /\ row = NoTombstone /\ cache = NoTombstone
  /\ call = [r \in Requests |-> NoCall]
  /\ faults = 0

Start(r) ==
  /\ At(r, "idle")
  /\ deploy.serial => \A q \in Requests : ~InFlight(q)
  /\ Goto(r, "check")
  /\ UNCHANGED <<deploy, now, row, cache, faults>>

\* validateSAMLTimestamp, and the end of the tombstone to be made.
Check(r) ==
  /\ At(r, "check")
  /\ IF deploy.dated /\ now > deploy.expiry
       THEN Goto(r, "failed")
       ELSE Become(r, [call[r] EXCEPT
              !.at = "reserve", !.ends = IF deploy.dated THEN deploy.expiry ELSE now + deploy.life])
  /\ UNCHANGED <<deploy, now, row, cache, faults>>

\* Secondary storage alone: get, and set if there was none.
Get(r) ==
  /\ At(r, "reserve") /\ CacheOnly
  /\ Goto(r, IF cache # NoTombstone THEN "refused" ELSE "copy")
  /\ UNCHANGED <<deploy, now, row, cache, faults>>

Created(r) ==
  [call[r] EXCEPT !.at = IF deploy.storage = "both" THEN "copy" ELSE "accepted",
                  !.taken = now, !.wrote = TRUE]

\* Faulty: the row has a key of its own.
CreateAnother(r) ==
  /\ At(r, "reserve") /\ ~CacheOnly
  /\ row' = call[r].ends
  /\ Become(r, Created(r))
  /\ UNCHANGED <<deploy, now, cache, faults>>

\* The database refuses a primary key that it has.
Create(r) ==
  /\ At(r, "reserve") /\ ~CacheOnly
  /\ IF row # NoTombstone
       THEN Goto(r, "confirm") /\ UNCHANGED row
       ELSE Become(r, Created(r)) /\ row' = call[r].ends
  /\ UNCHANGED <<deploy, now, cache, faults>>

\* create throws, with the row written or not.
CreateThrows(r) ==
  /\ At(r, "reserve") /\ ~CacheOnly
  /\ Faulty
  /\ \E wrote \in (IF row # NoTombstone THEN {FALSE} ELSE BOOLEAN) :
       /\ row' = IF wrote THEN call[r].ends ELSE row
       /\ Become(r, [call[r] EXCEPT !.at = "confirm", !.wrote = wrote])
  /\ UNCHANGED <<deploy, now, cache>>

\* The error was of a duplicate if the row is there.
Confirm(r) ==
  /\ At(r, "confirm")
  /\ Goto(r, IF row # NoTombstone THEN "refused" ELSE "failed")
  /\ UNCHANGED <<deploy, now, row, cache, faults>>

\* getTTLSeconds: the time that is left, in whole seconds.
Ttl(ends) == IF ends <= now THEN 0 ELSE ((ends - now) \div deploy.second) * deploy.second

\* With no time left nothing is stored beside the database. Alone, secondary storage is
\* told to keep the tombstone for no time: it forgets it, or keeps it for good.
Copy(r) ==
  /\ At(r, "copy")
  /\ LET ttl == Ttl(call[r].ends) IN
       cache' \in IF ttl > 0 THEN {now + ttl}
                 ELSE IF CacheOnly THEN {now, deploy.maxTime + 1} ELSE {cache}
  /\ Become(r, [call[r] EXCEPT !.at = "accepted", !.taken = IF CacheOnly THEN now ELSE @])
  /\ UNCHANGED <<deploy, now, row, faults>>

\* Any other storage call throws, or the process dies.
Fail(r) ==
  /\ call[r].at \in {"reserve", "confirm", "copy"}
  /\ Faulty
  /\ Goto(r, "failed")
  /\ UNCHANGED <<deploy, now, row, cache>>

\* findVerificationValue deletes what has expired.
Purge ==
  /\ row # NoTombstone /\ now > row
  /\ row' = NoTombstone
  /\ UNCHANGED <<deploy, now, cache, call, faults>>

Forget ==
  /\ cache # NoTombstone /\ now >= cache
  /\ cache' = NoTombstone
  /\ UNCHANGED <<deploy, now, row, call, faults>>

Tick ==
  /\ now < deploy.maxTime
  /\ now' = now + 1
  /\ UNCHANGED <<deploy, row, cache, call, faults>>

Step(r) == Check(r) \/ Get(r) \/ Create(r) \/ Confirm(r) \/ Copy(r)
Idle == (\A r \in Requests : ~InFlight(r)) /\ UNCHANGED vars

Next ==
  \/ \E r \in Requests : Start(r) \/ Step(r) \/ CreateThrows(r) \/ Fail(r)
  \/ Purge \/ Forget \/ Tick \/ Idle

Spec == Init /\ [][Next]_vars

-----------------------------------------------------------------------------
(* Properties *)

\* The state has its type.
TypeOK ==
  /\ deploy \in Deployments
  /\ now \in 0..deploy.maxTime
  /\ row \in Nat \cup {NoTombstone} /\ cache \in Nat \cup {NoTombstone}
  /\ call \in [Requests -> Call]
  /\ faults \in 0..deploy.maxFaults

Accepted == {r \in Requests : At(r, "accepted")}

\* However submissions of an assertion overlap, and whatever fails or is purged, one that
\* is accepted shuts out every other until the end of its tombstone: two are only
\* accepted where one of them reserved after the end of the other. Secondary storage
\* alone promises that for one submission at a time, and may forget the tombstone up
\* to a second before its end.
Slack == IF CacheOnly THEN deploy.second ELSE 0
ReservedOnce ==
  (CacheOnly => deploy.serial) =>
    \A r, q \in Accepted : r # q =>
      \/ call[q].taken > call[r].ends - Slack
      \/ call[r].taken > call[q].ends - Slack

\* A submission is refused as a replay only when one, perhaps itself, has written
\* the tombstone: an error of the storage is no replay.
RefusedForCause ==
  ~CacheOnly => \A r \in Requests : At(r, "refused") => \E q \in Requests : call[q].wrote

\* A replay is refused while the tombstone lasts, and nothing else.
ReplayRefused == ReservedOnce /\ RefusedForCause
=============================================================================
