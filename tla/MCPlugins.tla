----------------------------- MODULE MCPlugins -----------------------------
(***************************************************************************)
(* Small instances of the rate limiter and of the components beside it,    *)
(* for TLC.                                                                *)
(***************************************************************************)
EXTENDS Plugins, MCRateLimiter

CONSTANTS u1, u2, u3, f1

-----------------------------------------------------------------------------
\* r1 to r4, in this order, are, act for, or do what is listed.
Each(w, x, y, z) == r1 :> w @@ r2 :> x @@ r3 :> y @@ r4 :> z

OrgDeploy(ops, actor, target, at, roles, teams, limit, old, short, faults, page) ==
  [ops |-> ops, actor |-> actor, target |-> target, atomic |-> at, members |-> roles,
   invited |-> u2, teams |-> teams, limit |-> limit, teamLimit |-> IF teams THEN 1 ELSE 3,
   pendingLimit |-> 2, page |-> page, manyTeams |-> page = 1, cancelOld |-> old,
   short |-> short, maxFailures |-> faults]

OneOwner == u1 :> "owner" @@ u2 :> "none" @@ u3 :> "none"
TwoOwners == u1 :> "owner" @@ u2 :> "owner" @@ u3 :> "none"

AllOrganizations ==
  \* An invitation is accepted, rejected and canceled at once; or a step fails.
  {OrgDeploy(Each({"accept"}, {"accept"}, {"reject"}, {"cancel"}), Each(u2, u2, u2, u1),
             Each(u2, u2, u2, u2), TRUE, OneOwner, FALSE, 3, FALSE, {}, 0, 9)}
  \cup {OrgDeploy(Each({"accept"}, {"accept"}, {}, {"cancel"}), Each(u2, u2, u2, u1),
                  Each(u2, u2, u2, u2), at, OneOwner, FALSE, 3, FALSE, {}, 1, 9) : at \in BOOLEAN}
  \* More additions than the membership limit has room for.
  \cup {OrgDeploy(Each({"addMember"}, {"addMember"}, {"accept"}, {}), Each(u2, u2, u2, u1),
                  Each(u3, u2, u2, u2), at, OneOwner, FALSE, 2, FALSE, {}, 0, 9) : at \in BOOLEAN}
  \* Two owners demote themselves and each other.
  \cup {OrgDeploy(Each({"leave", "updateRole"}, {"removeMember"}, {"updateRole"}, {"leave"}),
                  Each(u1, u1, u1, u2), Each(u1, u2, u2, u1), FALSE, TwoOwners, FALSE, 3,
                  FALSE, {}, 0, 9)}
  \* A member of a team comes and goes, and so does the team.
  \cup {OrgDeploy(Each({"accept"}, {"removeMember", "addToTeam"}, {"removeTeam"}, {"leave"}),
                  Each(u2, u1, u1, u2), Each(u2, u2, u2, u2), at, OneOwner, TRUE, 3, FALSE, {}, 0,
                  IF at THEN 9 ELSE 1) : at \in BOOLEAN}
  \cup {OrgDeploy(Each({"addMember"}, {"removeTeam"}, {}, {"removeMember"}), Each(u1, u1, u1, u1),
                  Each(u3, u1, u1, u3), TRUE, OneOwner, TRUE, 3, FALSE, {}, 1, 9)}
  \* Invitations to a team that is removed; there may be more than one query answers.
  \cup {OrgDeploy(Each({"invite"}, {"invite"}, {"accept"}, {"removeTeam"}), Each(u1, u1, u3, u1),
                  Each(u3, u2, u3, u1), TRUE, OneOwner, TRUE, 3, TRUE, {Past}, 0, page)
          : page \in {2, 9}}

-----------------------------------------------------------------------------
KeyDeploy(ops, cached, quota, amount, max, time, faults) ==
  [ops |-> ops, cached |-> cached, quota |-> quota, amount |-> amount, interval |-> 0,
   max |-> max, window |-> 1, maxTime |-> time, maxFailures |-> faults]
NoQuota == -1

\* A quota or a limit; a key that is updated and deleted, and calls that fail.
Verifies == Each({"verify"}, {"verify"}, {"verify"}, {})
Updates == Each({"verify"}, {"verify"}, {"disable", "topUp"}, {"delete"})
TopsUp == Each({"verify"}, {"verify"}, {"disable", "topUp"}, {})
Failing == Each({"verify"}, {}, {"disable", "topUp"}, {"delete"})
AllKeyrings ==
  {KeyDeploy(Verifies, cached, 1, 1, 0, IF cached THEN 1 ELSE 2, 0) : cached \in BOOLEAN}
  \cup {KeyDeploy(Verifies, FALSE, NoQuota, 0, 1, 2, 0),
        KeyDeploy(Verifies, FALSE, NoQuota, 0, 2, 0, 0),
        KeyDeploy(Updates, TRUE, NoQuota, 0, 0, 0, 0),
        KeyDeploy(Updates, FALSE, 1, 0, 1, 0, 0), KeyDeploy(TopsUp, TRUE, 1, 0, 1, 0, 0)}
  \cup {KeyDeploy(Failing, cached, 1, 0, 1, 0, 1) : cached \in BOOLEAN}

-----------------------------------------------------------------------------
HookDeploy(ops, handled, at, writes, begins, faults) ==
  [ops |-> ops, handler |-> [r \in Requests |-> r \in handled], atomic |-> at,
   maxWrites |-> writes, maxBegins |-> begins, maxFaults |-> faults]

\* One request with nested transactions; two and three that take a row.
Nests == Each({"write", "consume"}, {}, {}, {})
Takes == Each({"consume"}, {"delete"}, {"consume"}, {})
Take == Each({"consume"}, {"delete"}, {}, {})
AllTransactions ==
  {HookDeploy(Nests, handled, TRUE, 2, 3, 1) : handled \in SUBSET {r1}}
  \cup {HookDeploy(Takes, {r1, r2}, TRUE, 1, 1, 0), HookDeploy(Take, {r1}, TRUE, 1, 1, 1),
          HookDeploy(Take, {r1, r2}, FALSE, 1, 1, 1)}

-----------------------------------------------------------------------------
Consumes == Each({"consume"}, {"consume"}, {"consume"}, {"consume"})
Counts == Each({"take"}, {"take", "swap"}, {"take", "swap"}, {"take"})
Adapter(ops, kind, count, full) ==
  [ops |-> ops, native |-> kind = "native", isolated |-> kind = "isolated",
   counted |-> kind # "isolated", count |-> count, full |-> full]

\* The adapter's own operations, or the fallback with one of what makes it safe.
Kinds == {"native", "counted", "isolated"}
AllAdapters ==
  {Adapter(Consumes, k, 2, 1) : k \in Kinds}
  \cup {Adapter(Counts, k, 1, f) : k \in Kinds, f \in {1, 2}}

-----------------------------------------------------------------------------
Assertion(storage, dated, second, expiry, life, time, faults) ==
  [storage |-> storage, serial |-> storage = "secondary", dated |-> dated, expiry |-> expiry,
   life |-> life, second |-> second, maxTime |-> time, maxFaults |-> faults]

\* Times to live are rounded down where a second is two steps of time.
AllAssertions ==
  {Assertion("database", dated, 1, 1, 1, 2, 2) : dated \in BOOLEAN}
  \cup {Assertion("both", TRUE, 1, 1, 1, 2, 1)}
  \cup {Assertion("secondary", dated, 2, 3, 3, 4, 1) : dated \in BOOLEAN}

-----------------------------------------------------------------------------
Load(x, y, z, serial, known, later, changed) ==
  [ops |-> r1 :> x @@ r2 :> y @@ r3 :> z, serial |-> serial, known |-> known, made |-> later,
   maxChanges |-> changed]

AllLoads ==
  \* Events in order, and nothing between the steps of their handlers.
  {Load({"upgrade"}, {"upgrade"}, {"cancel"}, TRUE, {}, {}, 1),
   Load({"upgrade"}, {"success"}, {"cancel"}, TRUE, {}, {}, 2),
   Load({"upgrade"}, {"upgrade"}, {"success"}, TRUE, {}, {}, 2),
   Load({"upgrade"}, {"restore"}, {"cancel"}, TRUE, {f1}, {}, 2),
   Load({"upgrade"}, {"upgrade"}, {}, TRUE, {f1}, {}, 1),
   Load({"upgrade"}, {"cancel"}, {}, TRUE, {}, {f1}, 1)}
  \* In any order, and whatever overlaps.
  \cup {Load({"upgrade"}, {"upgrade"}, {}, FALSE, {}, {}, 0),
        Load({"upgrade"}, {"success"}, {}, FALSE, {f1}, {}, 1),
        Load({"upgrade"}, {"cancel"}, {}, FALSE, {f1}, {}, 1),
        Load({"restore"}, {"cancel"}, {}, FALSE, {f1}, {}, 1)}

-----------------------------------------------------------------------------
RotationDeploy(ops, interval, grace, life, limit, time, faults) ==
  [ops |-> ops, interval |-> interval, grace |-> grace, life |-> life, limit |-> limit,
   maxTime |-> time, maxFailures |-> faults]

\* Two make the first key at once, and the key set or a verification looks on.
Shows == Each({"signJWT"}, {"signJWT"}, {"getJwks"}, {})
Checks == Each({"signJWT"}, {"signJWT"}, {}, {"verifyJWT"})
Both == Each({"signJWT"}, {}, {"getJwks"}, {"verifyJWT"})

AllRotations ==
  {RotationDeploy(Shows, 0, 2, 2, 2, 2, 0), RotationDeploy(Shows, Never, 1, 1, 1, 1, 0),
   RotationDeploy(Checks, 0, 2, 2, 1, 2, 0), RotationDeploy(Both, 0, 1, 1, 2, 1, 1)}
=============================================================================
