----------------------------- MODULE MCUserBans -----------------------------
(***************************************************************************)
(* A small instance of UserBans, for TLC: two bans of one user, the one    *)
(* with an end and the other without, and a sign-in.                       *)
(***************************************************************************)
EXTENDS UserBans, TLC

CONSTANTS r1, r2, r3, u1, u2

TwoBans ==
  {[ops |-> r1 :> {"banUser"} @@ r2 :> {"banUser"} @@ r3 :> {"signIn"},
    user |-> [r \in Requests |-> u2],
    length |-> r1 :> 0 @@ r2 :> Never @@ r3 :> Never,
    default |-> Never, cascade |-> TRUE, maxTime |-> 1, maxFailures |-> 0]}
=============================================================================
