----------------------------- MODULE MCApiKeys -----------------------------
(* A small instance of ApiKeys for TLC. *)
EXTENDS ApiKeys, TLC

CONSTANTS r1, r2, r3

\* Three verifications of a cached key, one after the other: its quota of one
\* is refilled to one whenever the clock has moved.
RefilledKey ==
  {[ops |-> [r \in Requests |-> {"verify"}], cached |-> TRUE, quota |-> 1, amount |-> 1,
    interval |-> 0, max |-> 1, window |-> 1, maxTime |-> 2, maxFailures |-> 0]}
=============================================================================
