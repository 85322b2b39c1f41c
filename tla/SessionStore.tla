----------------------------- MODULE SessionStore -----------------------------
(***************************************************************************)
(* The sessions of one user in the internal adapter                        *)
(* (src/packages/shinauth/src/db/internal-adapter.ts): rows of the session *)
(* table, copies in the secondary storage (the cache) that also hold a     *)
(* copy of the user, and the list active-sessions-<user> through which the *)
(* cache's sessions of the user are found again.                           *)
(*                                                                         *)
(* A request performs one operation on one token, step by step: a step is  *)
(* the work between two awaits. What a copy of a session and its user      *)
(* shows is the set of requests whose updates it contains.                 *)
(*                                                                         *)
(* Nothing expires here: a session outlives the requests of a behaviour.   *)
(***************************************************************************)
EXTENDS Integers, FiniteSets

CONSTANTS
  Requests,    \* calls to the internal adapter
  Tokens,      \* session tokens
  Initial,     \* the tokens of the sessions that exist at the start
  Deployments  \* the configurations, and the circumstances, to consider

Creates == {"createSession"}
Revokes == {"deleteSession", "deleteSessions"}
Updates == {"updateSession", "updateUser"}
AllOps  == Creates \cup Revokes \cup Updates
             \cup {"findSession", "listSessions", "deleteUserSessions"}

Deployment ==
  [storage     : {"database", "secondary", "both"},  \* both: storeSessionInDatabase
   preserve    : BOOLEAN,   \* preserveSessionInDatabase
   ops         : [Requests -> SUBSET AllOps],  \* the operations a request may be
   limit       : Nat,       \* defaultFindManyLimit
   maxInFlight : Nat,       \* requests that run at a time, with all their branches
   maxFailures : Nat,       \* how many storage calls may fail
   lossy       : BOOLEAN]   \* the secondary storage may lose a session's entry

ASSUME ConstantsAssumption ==
  /\ Initial \subseteq Tokens
  /\ Deployments \subseteq Deployment

VARIABLES
  deploy,    \* the configuration, chosen at the start
  rows,      \* tokens with a row in the session table
  saved,     \* the updates the database has, of the user and of the rows
  cache,     \* the secondary storage: a copy of session and user, by token
  list,      \* active-sessions-<user>; empty when the key is absent
  call,      \* the state of each request
  failures   \* how many storage calls have failed, or entries were lost

vars == <<deploy, rows, saved, cache, list, call, failures>>

Storage == deploy.storage
Ops == deploy.ops
UsesTable == Storage # "secondary"
UsesCache == Storage # "database"
\* deleteSession and the others stop at the cache, and so does findSession.
CacheOnly == UsesCache /\ (~UsesTable \/ deploy.preserve)

Copy == [there : BOOLEAN, has : SUBSET Requests]
Absent == [there |-> FALSE, has |-> {}]
Present(h) == [there |-> TRUE, has |-> h]

Steps == {"insert", "enlist", "relist", "owner", "store",      \* createSession
          "find", "read",                                      \* findSession
          "merge", "write", "position", "reposition", "amend", \* updateSession
          "check", "locate", "unlist", "evict", "probe", "erase",
          "members", "expel", "disband", "eraseAll",           \* deleteUserSessions
          "peek", "drop", "eraseMany",                         \* deleteSessions
          "browse", "show", "readAll",                         \* listSessions
          "save", "devices", "refresh"}                        \* updateUser
Ended == {"done",      \* answered
          "missed",    \* answered, but the delete did not look at the row
          "failed"}

Call == [op     : AllOps \cup {"none"},
         tok    : Tokens,
         at     : {"idle"} \cup Steps \cup Ended,
         before : SUBSET Requests,   \* requests that were done when it started
         seen   : SUBSET Tokens,     \* the list, as it read it
         todo   : SUBSET Tokens,     \* tokens it has still to visit
         held   : [Tokens -> Copy],  \* the copies it read
         user   : SUBSET Requests,   \* the user, as it read or updated it
         ok     : BOOLEAN]           \* no branch of a Promise.all has failed

NothingHeld == [t \in Tokens |-> Absent]
NoCall(t) == [op |-> "none", tok |-> t, at |-> "idle", before |-> {}, seen |-> {},
              todo |-> {}, held |-> NothingHeld, user |-> {}, ok |-> TRUE]

At(r, pc) == call[r].at = pc
Done(r) == At(r, "done")
Tok(r) == call[r].tok
InFlight(r) == call[r].at \in Steps
UserUpdates == {q \in Requests : call[q].op = "updateUser"}

Become(r, c) == call' = [call EXCEPT ![r] = c]
Goto(r, pc) == Become(r, [call[r] EXCEPT !.at = pc])
Hold(r, pc, c) == Become(r, [call[r] EXCEPT !.at = pc, !.held[Tok(r)] = c])

\* Where a request goes after its work on the cache.
OrEnd(pc) == IF CacheOnly THEN "done" ELSE pc

FirstStep(op) ==
  CASE op = "createSession"      -> IF UsesTable THEN "insert" ELSE "enlist"
    [] op = "findSession"        -> IF UsesCache THEN "find" ELSE "read"
    [] op = "updateSession"      -> IF UsesCache THEN "merge" ELSE "amend"
    [] op = "deleteSession"      -> IF UsesCache THEN "check" ELSE "probe"
    [] op = "deleteUserSessions" -> IF UsesCache THEN "members" ELSE "eraseAll"
    [] op = "deleteSessions"     -> IF UsesCache THEN "peek" ELSE "eraseMany"
    [] op = "listSessions"       -> IF UsesCache THEN "browse" ELSE "readAll"
    [] op = "updateUser"         -> "save"

-----------------------------------------------------------------------------
Init ==
  /\ deploy \in Deployments
  /\ rows = IF UsesTable THEN Initial ELSE {}
  /\ saved = {}
  /\ cache = [t \in Tokens |-> IF UsesCache /\ t \in Initial THEN Present({}) ELSE Absent]
  /\ list = IF UsesCache THEN Initial ELSE {}
  /\ call \in [Requests -> {NoCall(t) : t \in Tokens}]
  /\ failures = 0

\* A caller knows the tokens it was given: those of finished createSessions.
Known(t) ==
  t \in Initial \/ \E q \in Requests : call[q].op = "createSession" /\ Done(q) /\ Tok(q) = t
Fresh(t) == /\ t \notin Initial
            /\ \A q \in Requests : call[q].op = "createSession" => Tok(q) # t

Start(r, op) ==
  /\ At(r, "idle")
  /\ IF op = "createSession" THEN Fresh(Tok(r)) ELSE Known(Tok(r))
  /\ Cardinality({q \in Requests : InFlight(q)}) < deploy.maxInFlight
  /\ Become(r, [NoCall(Tok(r)) EXCEPT !.op = op, !.at = FirstStep(op),
                                      !.before = {q \in Requests : Done(q)}])
  /\ UNCHANGED <<deploy, rows, saved, cache, list, failures>>

-----------------------------------------------------------------------------
\* createSession

Insert(r) ==
  /\ At(r, "insert")
  /\ rows' = rows \cup {Tok(r)}
  /\ Goto(r, IF UsesCache THEN "enlist" ELSE "done")
  /\ UNCHANGED <<deploy, saved, cache, list, failures>>

Enlist(r) ==
  /\ At(r, "enlist")
  /\ Become(r, [call[r] EXCEPT !.at = "relist", !.seen = list])
  /\ UNCHANGED <<deploy, rows, saved, cache, list, failures>>

Relist(r) ==
  /\ At(r, "relist")
  /\ list' = call[r].seen \cup {Tok(r)}
  /\ Goto(r, "owner")
  /\ UNCHANGED <<deploy, rows, saved, cache, failures>>

Owner(r) ==
  /\ At(r, "owner")
  /\ Become(r, [call[r] EXCEPT !.at = "store", !.user = saved \cap UserUpdates])
  /\ UNCHANGED <<deploy, rows, saved, cache, list, failures>>

Store(r) ==
  /\ At(r, "store")
  /\ cache' = [cache EXCEPT ![Tok(r)] = Present(call[r].user)]
  /\ Goto(r, "done")
  /\ UNCHANGED <<deploy, rows, saved, list, failures>>

-----------------------------------------------------------------------------
\* findSession

\* Faulty: the database is consulted even when revoked rows are preserved.
FindAnywhere(r) ==
  /\ At(r, "find")
  /\ IF cache[Tok(r)].there \/ ~UsesTable
       THEN Hold(r, "done", cache[Tok(r)])
       ELSE Goto(r, "read")
  /\ UNCHANGED <<deploy, rows, saved, cache, list, failures>>

Find(r) ==
  /\ At(r, "find")
  /\ IF cache[Tok(r)].there \/ CacheOnly
       THEN Hold(r, "done", cache[Tok(r)])
       ELSE Goto(r, "read")
  /\ UNCHANGED <<deploy, rows, saved, cache, list, failures>>

Read(r) ==
  /\ At(r, "read")
  /\ Hold(r, "done", IF Tok(r) \in rows THEN Present(saved) ELSE Absent)
  /\ UNCHANGED <<deploy, rows, saved, cache, list, failures>>

-----------------------------------------------------------------------------
\* updateSession

Merge(r) ==
  /\ At(r, "merge")
  /\ IF cache[Tok(r)].there
       THEN Hold(r, "write", Present(cache[Tok(r)].has \cup {r}))
       ELSE Goto(r, IF UsesTable THEN "amend" ELSE "done")
  /\ UNCHANGED <<deploy, rows, saved, cache, list, failures>>

Write(r) ==
  /\ At(r, "write")
  /\ cache' = [cache EXCEPT ![Tok(r)] = call[r].held[Tok(r)]]
  /\ Goto(r, "position")
  /\ UNCHANGED <<deploy, rows, saved, list, failures>>

Position(r) ==
  /\ At(r, "position")
  /\ Become(r, [call[r] EXCEPT !.at = "reposition", !.seen = list])
  /\ UNCHANGED <<deploy, rows, saved, cache, list, failures>>

Reposition(r) ==
  /\ At(r, "reposition")
  /\ list' = call[r].seen \cup {Tok(r)}
  /\ Goto(r, IF UsesTable THEN "amend" ELSE "done")
  /\ UNCHANGED <<deploy, rows, saved, cache, failures>>

Amend(r) ==
  /\ At(r, "amend")
  /\ saved' = IF Tok(r) \in rows THEN saved \cup {r} ELSE saved
  /\ Goto(r, "done")
  /\ UNCHANGED <<deploy, rows, cache, list, failures>>

-----------------------------------------------------------------------------
\* deleteSession

Check(r) ==
  /\ At(r, "check")
  /\ Goto(r, IF cache[Tok(r)].there THEN "locate" ELSE "evict")
  /\ UNCHANGED <<deploy, rows, saved, cache, list, failures>>

Locate(r) ==
  /\ At(r, "locate")
  /\ Become(r, [call[r] EXCEPT !.at = IF list = {} THEN "evict" ELSE "unlist",
                               !.seen = list])
  /\ UNCHANGED <<deploy, rows, saved, cache, list, failures>>

Unlist(r) ==
  /\ At(r, "unlist")
  /\ list' = call[r].seen \ {Tok(r)}
  /\ Goto(r, "evict")
  /\ UNCHANGED <<deploy, rows, saved, cache, failures>>

Evict(r) ==
  /\ At(r, "evict")
  /\ cache' = [cache EXCEPT ![Tok(r)] = Absent]
  /\ Goto(r, OrEnd("probe"))
  /\ UNCHANGED <<deploy, rows, saved, list, failures>>

\* deleteWithHooks looks for the row first, and deletes only if it found one.
\* An error of that search is caught and counts as not found.
Probe(r) ==
  /\ At(r, "probe")
  /\ \/ Goto(r, IF Tok(r) \in rows THEN "erase" ELSE "done") /\ UNCHANGED failures
     \/ /\ failures < deploy.maxFailures
        /\ failures' = failures + 1
        /\ Goto(r, "missed")
  /\ UNCHANGED <<deploy, rows, saved, cache, list>>

Erase(r) ==
  /\ At(r, "erase")
  /\ rows' = rows \ {Tok(r)}
  /\ Goto(r, "done")
  /\ UNCHANGED <<deploy, saved, cache, list, failures>>

-----------------------------------------------------------------------------
\* deleteUserSessions

Members(r) ==
  /\ At(r, "members")
  /\ Become(r, [call[r] EXCEPT !.at = IF list = {} THEN "disband" ELSE "expel",
                               !.todo = list])
  /\ UNCHANGED <<deploy, rows, saved, cache, list, failures>>

\* One session at a time, awaiting each.
Expel(r) ==
  /\ At(r, "expel")
  /\ \E t \in call[r].todo :
       /\ cache' = [cache EXCEPT ![t] = Absent]
       /\ Become(r, [call[r] EXCEPT !.at = IF call[r].todo = {t} THEN "disband" ELSE @,
                                    !.todo = @ \ {t}])
  /\ UNCHANGED <<deploy, rows, saved, list, failures>>

Disband(r) ==
  /\ At(r, "disband")
  /\ list' = {}
  /\ Goto(r, OrEnd("eraseAll"))
  /\ UNCHANGED <<deploy, rows, saved, cache, failures>>

EraseAll(r) ==
  /\ At(r, "eraseAll")
  /\ rows' = {}
  /\ Goto(r, "done")
  /\ UNCHANGED <<deploy, saved, cache, list, failures>>

-----------------------------------------------------------------------------
\* deleteSessions, of one token: the list keeps it.

Peek(r) ==
  /\ At(r, "peek")
  /\ Goto(r, IF cache[Tok(r)].there THEN "drop" ELSE OrEnd("eraseMany"))
  /\ UNCHANGED <<deploy, rows, saved, cache, list, failures>>

Drop(r) ==
  /\ At(r, "drop")
  /\ cache' = [cache EXCEPT ![Tok(r)] = Absent]
  /\ Goto(r, OrEnd("eraseMany"))
  /\ UNCHANGED <<deploy, rows, saved, list, failures>>

EraseMany(r) ==
  /\ At(r, "eraseMany")
  /\ rows' = rows \ {Tok(r)}
  /\ Goto(r, "done")
  /\ UNCHANGED <<deploy, saved, cache, list, failures>>

-----------------------------------------------------------------------------
\* listSessions: what it returns is what it holds.

Browse(r) ==
  /\ At(r, "browse")
  /\ Become(r, [call[r] EXCEPT !.at = IF list = {} THEN "done" ELSE "show", !.todo = list])
  /\ UNCHANGED <<deploy, rows, saved, cache, list, failures>>

Show(r) ==
  /\ At(r, "show")
  /\ \E t \in call[r].todo :
       Become(r, [call[r] EXCEPT !.at = IF call[r].todo = {t} THEN "done" ELSE @,
                                 !.todo = @ \ {t}, !.held[t] = cache[t]])
  /\ UNCHANGED <<deploy, rows, saved, cache, list, failures>>

\* findMany answers at most defaultFindManyLimit rows, in no order that is asked for.
Page == {T \in SUBSET rows : \/ Cardinality(T) = deploy.limit
                             \/ T = rows /\ Cardinality(T) < deploy.limit}

ReadAll(r) ==
  /\ At(r, "readAll")
  /\ \E T \in Page :
       Become(r, [call[r] EXCEPT !.at = "done",
         !.held = [t \in Tokens |-> IF t \in T THEN Present(saved) ELSE Absent]])
  /\ UNCHANGED <<deploy, rows, saved, cache, list, failures>>

-----------------------------------------------------------------------------
\* updateUser, and refreshUserSessions after it

Save(r) ==
  /\ At(r, "save")
  /\ saved' = saved \cup {r}
  /\ Become(r, [call[r] EXCEPT !.at   = IF UsesCache THEN "devices" ELSE "done",
                               !.user = (saved \cap UserUpdates) \cup {r}])
  /\ UNCHANGED <<deploy, rows, cache, list, failures>>

Devices(r) ==
  /\ At(r, "devices")
  /\ Become(r, [call[r] EXCEPT !.at = IF list = {} THEN "done" ELSE "refresh", !.todo = list])
  /\ UNCHANGED <<deploy, rows, saved, cache, list, failures>>

\* The end of the Promise.all, when no branch has anything left to do.
Settle(c) ==
  IF c.todo = {} /\ \A t \in Tokens : ~c.held[t].there
    THEN [c EXCEPT !.at = IF c.ok THEN "done" ELSE "failed"] ELSE c

\* The branches of the sessions run side by side: each gets, then sets.
RefreshGet(r) ==
  /\ At(r, "refresh")
  /\ \E t \in call[r].todo :
       Become(r, Settle([call[r] EXCEPT !.todo = @ \ {t}, !.held[t] = cache[t]]))
  /\ UNCHANGED <<deploy, rows, saved, cache, list, failures>>

\* Faulty: the copy keeps the user it had.
RefreshSetNothing(r) ==
  /\ At(r, "refresh")
  /\ \E t \in Tokens :
       /\ call[r].held[t].there
       /\ cache' = [cache EXCEPT ![t] = call[r].held[t]]
       /\ Become(r, Settle([call[r] EXCEPT !.held[t] = Absent]))
  /\ UNCHANGED <<deploy, rows, saved, list, failures>>

\* Faulty: the copy is set again without a lifetime, and is gone.
RefreshSetExpired(r) ==
  /\ At(r, "refresh")
  /\ \E t \in Tokens :
       /\ call[r].held[t].there
       /\ cache' = [cache EXCEPT ![t] = Absent]
       /\ Become(r, Settle([call[r] EXCEPT !.held[t] = Absent]))
  /\ UNCHANGED <<deploy, rows, saved, list, failures>>

RefreshSet(r) ==
  /\ At(r, "refresh")
  /\ \E t \in Tokens :
       /\ call[r].held[t].there
       /\ cache' = [cache EXCEPT ![t] =
                      Present((call[r].held[t].has \ UserUpdates) \cup call[r].user)]
       /\ Become(r, Settle([call[r] EXCEPT !.held[t] = Absent]))
  /\ UNCHANGED <<deploy, rows, saved, list, failures>>

-----------------------------------------------------------------------------
\* A storage call throws, or the process dies: the request ends where it is.
Fail(r) ==
  /\ call[r].at \in Steps \ {"probe"}
  /\ failures < deploy.maxFailures
  /\ failures' = failures + 1
  /\ Goto(r, "failed")
  /\ UNCHANGED <<deploy, rows, saved, cache, list>>

\* One branch of the Promise.all throws: the answer is an error, the other
\* branches run on.
RefreshFail(r) ==
  /\ At(r, "refresh")
  /\ failures < deploy.maxFailures
  /\ failures' = failures + 1
  /\ \E t \in call[r].todo \cup {u \in Tokens : call[r].held[u].there} :
       Become(r, Settle([call[r] EXCEPT !.todo = @ \ {t}, !.held[t] = Absent, !.ok = FALSE]))
  /\ UNCHANGED <<deploy, rows, saved, cache, list>>

\* The secondary storage evicts an entry.
Lose(t) ==
  /\ deploy.lossy /\ cache[t].there
  /\ failures < deploy.maxFailures
  /\ failures' = failures + 1
  /\ cache' = [cache EXCEPT ![t] = Absent]
  /\ UNCHANGED <<deploy, rows, saved, list, call>>

CreateSession(r) == Insert(r) \/ Enlist(r) \/ Relist(r) \/ Owner(r) \/ Store(r)
FindSession(r) == Find(r) \/ Read(r)
UpdateSession(r) == Merge(r) \/ Write(r) \/ Position(r) \/ Reposition(r) \/ Amend(r)
DeleteSession(r) ==
  Check(r) \/ Locate(r) \/ Unlist(r) \/ Evict(r) \/ Probe(r) \/ Erase(r)
DeleteUserSessions(r) == Members(r) \/ Expel(r) \/ Disband(r) \/ EraseAll(r)
DeleteSessions(r) == Peek(r) \/ Drop(r) \/ EraseMany(r)
ListSessions(r) == Browse(r) \/ Show(r) \/ ReadAll(r)
UpdateUser(r) ==
  Save(r) \/ Devices(r) \/ RefreshGet(r) \/ RefreshSet(r) \/ RefreshFail(r)

Step(r) ==
  \/ CreateSession(r) \/ FindSession(r) \/ UpdateSession(r) \/ DeleteSession(r)
  \/ DeleteUserSessions(r) \/ DeleteSessions(r) \/ ListSessions(r) \/ UpdateUser(r)
  \/ Fail(r)

\* Nothing runs; a request that could not go on would be a deadlock.
Idle == (\A r \in Requests : ~InFlight(r)) /\ UNCHANGED vars

Next ==
  \/ \E r \in Requests : \E op \in Ops[r] : Start(r, op)
  \/ \E r \in Requests : Step(r)
  \/ \E t \in Tokens : Lose(t)
  \/ Idle

Spec == Init /\ [][Next]_vars

-----------------------------------------------------------------------------
(* Properties *)

\* The state has its type.
TypeOK ==
  /\ deploy \in Deployments
  /\ rows \subseteq Tokens
  /\ saved \subseteq Requests
  /\ cache \in [Tokens -> Copy]
  /\ list \subseteq Tokens
  /\ call \in [Requests -> Call]
  /\ failures \in Nat

Found(r) == call[r].op = "findSession" /\ Done(r) /\ call[r].held[Tok(r)].there

\* A session that deleteSession or deleteSessions has revoked is not found by
\* any findSession that starts afterwards, from the cache or from the table.
RevokedStaysRevoked ==
  \A r \in Requests : Found(r) =>
    \A q \in call[r].before : call[q].op \in Revokes => Tok(q) # Tok(r)

\* deleteUserSessions revokes every session created before it started: no
\* findSession that starts after it finds one of them.
Existed(t, q) == t \in Initial \/ \E c \in call[q].before :
                                    call[c].op = "createSession" /\ Tok(c) = t
RevokeAllCovers ==
  \A r \in Requests : Found(r) =>
    \A q \in call[r].before : call[q].op = "deleteUserSessions" => ~Existed(Tok(r), q)

\* findSession shows the user and the session with every update that finished
\* before it started, although each cached session has its own copy of the user.
UpdatesSeen ==
  \A r \in Requests : Found(r) =>
    \A q \in call[r].before :
      (call[q].op = "updateUser" \/ (call[q].op = "updateSession" /\ Tok(q) = Tok(r)))
        => q \in call[r].held[Tok(r)].has

Revoking(t) == \E q \in Requests :
  /\ ~At(q, "idle")
  /\ \/ call[q].op = "deleteUserSessions"
     \/ call[q].op \in Revokes /\ Tok(q) = t

\* A session that was created and that nobody has begun to revoke is found:
\* no update, listing, failure or other session's revocation signs it out.
SessionsSurvive ==
  \A r \in Requests :
    call[r].op = "findSession" /\ Done(r) /\ ~Found(r) => Revoking(Tok(r))

\* The listing r, from the table, shows as many sessions as a query may answer.
FullPage(r) == ~UsesCache /\ Cardinality({t \in Tokens : call[r].held[t].there}) = deploy.limit

\* listSessions shows every session that was created before it started and
\* that nobody has begun to revoke, or as many sessions as a query may answer.
ListingComplete ==
  \A r \in Requests : call[r].op = "listSessions" /\ Done(r) =>
    FullPage(r) \/ \A t \in Tokens : Existed(t, r) => call[r].held[t].there \/ Revoking(t)

\* The list and the copies of the cache are kept by reading and writing back.
\* Requests that overlap, and calls that fail, leave them incomplete; for
\* requests that come one after the other, what relies on them holds.
Undisturbed == Storage = "database" \/ (deploy.maxInFlight = 1 /\ deploy.maxFailures = 0)

\* deleteUserSessions revokes every earlier session.
RevokeAllCoversUndisturbed == Undisturbed => RevokeAllCovers
\* findSession shows every earlier update.
UpdatesSeenUndisturbed == Undisturbed => UpdatesSeen
\* listSessions shows every earlier session, or a full page.
ListingCompleteUndisturbed == Undisturbed => ListingComplete

\* What a request may rely on when none overlaps it: in the database always.
UndisturbedSeesAll ==
  RevokeAllCoversUndisturbed /\ UpdatesSeenUndisturbed /\ ListingCompleteUndisturbed
=============================================================================
