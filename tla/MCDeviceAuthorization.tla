------------------------- MODULE MCDeviceAuthorization -------------------------
(* Small instances of DeviceAuthorization for TLC. *)
EXTENDS DeviceAuthorization, TLC

CONSTANTS r1, r2, r3, r4, r5, ann, bob

\* A request that is not named does nothing.
Only(ops) == [r \in Requests |-> IF r \in DOMAIN ops THEN ops[r] ELSE {}]

\* Ann and Bob both open the page and decide; one poll.
TwoUsers == Only(
  r1 :> {"verify"} @@ r2 :> {"verify"} @@ r3 :> {"approve", "deny"}
    @@ r4 :> {"approve", "deny"} @@ r5 :> {"poll"})
\* Bob is bound, and decides, perhaps twice; Ann tries; some of it fails.
BoundUser == Only(
  r1 :> {"verify", "approve"} @@ r2 :> {"approve"} @@ r4 :> {"approve", "deny"}
    @@ r5 :> {"poll"})
\* Ann decides, perhaps twice, while the device polls, perhaps twice at a time.
Deciding == Only(
  r1 :> {"approve", "deny"} @@ r2 :> {"approve", "deny"} @@ r3 :> {"poll"} @@ r4 :> {"poll"})
\* Ann opens the page and decides while the device polls, and polls.
Polling == Only(
  r1 :> {"verify"} @@ r2 :> {"approve", "deny"} @@ r3 :> {"poll"} @@ r4 :> {"poll"}
    @@ r5 :> {"poll"})

AnnAndBob == [r \in Requests |-> IF r \in {r2, r4} THEN bob ELSE ann]
AnnAlone == [r \in Requests |-> IF r \in {r1, r2} THEN ann ELSE Nobody]

Deploy(ops, user, bound, polls, time, failures) ==
  [ops |-> ops, user |-> user, bound |-> bound, maxPolls |-> polls, maxTime |-> time,
   maxFailures |-> failures]

Codes ==
  {Deploy(TwoUsers, AnnAndBob, Nobody, 1, 0, 0), Deploy(BoundUser, AnnAndBob, bob, 1, 0, 1),
   Deploy(Deciding, AnnAlone, ann, 2, 1, 0), Deploy(Polling, AnnAlone, Nobody, 1, 2, 0)}
=============================================================================
