--------------------------- MODULE MCOneTimeCodes ---------------------------
(* A code that is sent twice, and then checked, one request at a time. *)
EXTENDS OneTimeCodes, TLC

CONSTANTS r1, r2, r3, r4

SentTwice ==
  {[plugin |-> "email", reuse |-> FALSE, single |-> TRUE, stranger |-> FALSE, serial |-> TRUE,
    ops |-> r1 :> {"send"} @@ r2 :> {"send"} @@ r3 :> {"check"} @@ r4 :> {"check"},
    maxTime |-> 1, maxFailures |-> 0]}
=============================================================================
