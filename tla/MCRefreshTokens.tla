---------------------------- MODULE MCRefreshTokens ----------------------------
(* Small instances of RefreshTokens for TLC. *)
EXTENDS RefreshTokens, TLC

CONSTANTS r1, r2, r3, r4, r5

\* A request that is not named does nothing.
Only(ops) == [r \in Requests |-> IF r \in DOMAIN ops THEN ops[r] ELSE {}]

\* A grant, then requests that present what was given so far; overlapping, or
\* one after the other with one more of them.
Overlapping == Only(
  r1 :> {"code"} @@ r2 :> {"refresh"} @@ r3 :> {"refresh", "revoke"} @@ r4 :> {"refresh", "revoke"})
Sequence == Only(
  r1 :> {"code"} @@ r2 :> {"refresh"} @@ r3 :> {"refresh", "revoke"}
    @@ r4 :> {"refresh", "revoke"} @@ r5 :> {"refresh", "revoke"})
TwoGrants == Only(
  r1 :> {"code"} @@ r2 :> {"code"} @@ r3 :> {"refresh"} @@ r4 :> {"refresh", "revoke"})
RevokeRace == Only(r1 :> {"code"} @@ r2 :> {"refresh"} @@ r3 :> {"revoke"})

Deploy(foreignKeys, jwt, ops, inFlight, failures, mayExpire, limit) ==
  [foreignKeys |-> foreignKeys, ops |-> ops, jwt |-> jwt, maxInFlight |-> inFlight,
   maxFailures |-> failures, mayExpire |-> mayExpire, limit |-> limit]

Families ==
  {Deploy(TRUE, FALSE, Overlapping, 3, 1, {}, 2), Deploy(FALSE, TRUE, Overlapping, 2, 0, {}, 5),
   Deploy(FALSE, FALSE, Sequence, 1, 1, {1, 2}, 3), Deploy(TRUE, FALSE, TwoGrants, 2, 0, {1}, 1)}
RacingRevocation == {Deploy(TRUE, FALSE, RevokeRace, 2, 0, {}, 5)}
=============================================================================
