---------------------------- MODULE MCRateLimiter ----------------------------
(* Small instances of RateLimiter for TLC. *)
EXTENDS RateLimiter, TLC

CONSTANTS r1, r2, r3, r4, k1, k2

OneKey == [r \in Requests |-> k1]
ThreeAndOne == [r \in Requests |-> IF r = r4 THEN k2 ELSE k1]
TwoKeys == [r \in Requests |-> IF r \in {r3, r4} THEN k2 ELSE k1]

Deploy(storage, max, key, longest, delay, inFlight) ==
  [storage |-> storage,
   rule |-> k1 :> [window |-> 2, max |-> max] @@ k2 :> [window |-> 2, max |-> 1],
   key |-> key, longest |-> longest, maxDelay |-> delay, maxInFlight |-> inFlight]

\* Of three requests two may pass, or one where calls take time; a fourth has
\* another key, and sweeps. Then the other storages.
Backends ==
  {Deploy("database", 2, ThreeAndOne, 2, 0, 2), Deploy("database", 1, ThreeAndOne, 2, 1, 2),
   Deploy("memory", 2, OneKey, 2, 0, 4), Deploy("secondary", 1, OneKey, 2, 0, 4),
   Deploy("legacy", 2, OneKey, 2, 0, 1)}

\* A custom rule with a longer window than any that the sweep knows.
LongRule == {Deploy("database", 1, TwoKeys, 1, 0, 1)}
=============================================================================
