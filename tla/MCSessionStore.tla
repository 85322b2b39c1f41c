---------------------------- MODULE MCSessionStore ----------------------------
(* Small instances of SessionStore for TLC. *)
EXTENDS SessionStore, TLC

CONSTANTS r1, r2, r3, r4, t1, t2

\* A request that is not named does nothing.
Only(ops) == [r \in Requests |-> IF r \in DOMAIN ops THEN ops[r] ELSE {}]

Reads == {"findSession", "listSessions"}

\* Two requests of every kind, after one that makes or changes a session; the last one
\* looks, which changes nothing.
Writes == AllOps \ Reads
Sequence == Only(r1 :> {"createSession"} \cup Updates @@ r2 :> Writes @@ r3 :> Writes @@ r4 :> Reads)

\* Without the longest sequences, for requests that overlap.
Overlapping == Only(
  r1 :> {"createSession", "updateSession", "updateUser"}
    @@ r2 :> Revokes \cup {"updateSession"}
    @@ r3 :> {"deleteUserSessions", "updateUser"} @@ r4 :> Reads)

\* One request after the other, some of which fail.
FailingSequence == Only(
  r1 :> {"createSession", "updateUser", "updateSession", "deleteSession"}
    @@ r2 :> Revokes \cup {"deleteUserSessions", "updateUser"}
    @@ r3 :> Revokes @@ r4 :> {"findSession"})

\* Sessions come and go; nobody updates the user or a session.
NoUpdates == Only(
  r1 :> {"createSession"} @@ r2 :> Revokes
    @@ r3 :> {"createSession", "deleteUserSessions"} @@ r4 :> {"findSession"})

\* A revocation beside updates.
UpdateRace == Only(
  r1 :> {"deleteSession"} @@ r2 :> {"updateUser"} @@ r3 :> {"findSession"})

\* More sessions than a query answers.
Listed == Only(
  r1 :> {"createSession"} @@ r2 :> Revokes @@ r3 :> {"createSession", "updateUser"}
    @@ r4 :> {"listSessions"})

Deploy(storage, preserve, ops, limit, inFlight, failing, lossy) ==
  [storage |-> storage, preserve |-> preserve, ops |-> ops, limit |-> limit,
   maxInFlight |-> inFlight, maxFailures |-> failing, lossy |-> lossy]

\* The database with overlapping requests and failures; with a cache, one
\* request after the other; the cache with failures, lost entries and
\* overlapping requests.
AllSessions ==
  {Deploy("database", FALSE, Overlapping, 2, 4, 1, FALSE),
   Deploy("database", FALSE, Listed, 1, 4, 0, FALSE),
   Deploy("both", FALSE, Sequence, 2, 1, 0, FALSE),
   Deploy("both", TRUE, Sequence, 2, 1, 0, FALSE),
   Deploy("secondary", FALSE, Sequence, 1, 1, 0, FALSE),
   Deploy("both", FALSE, FailingSequence, 2, 1, 1, TRUE),
   Deploy("secondary", FALSE, NoUpdates, 2, 4, 1, FALSE)}

RacingUpdates == {Deploy("secondary", FALSE, UpdateRace, 2, 3, 0, FALSE)}
=============================================================================
