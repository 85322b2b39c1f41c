------------------------- MODULE MCVerificationStore -------------------------
(* Small instances of VerificationStore for TLC. *)
EXTENDS VerificationStore, TLC

CONSTANTS r1, r2, r3, r4, p1, p2

\* Requests spread over two processes, and all in one.
TwoHomes == [r \in Requests |-> IF r \in {r1, r2} THEN p1 ELSE p2]
OneHome == [r \in Requests |-> p1]

\* A request that is not named does nothing.
Only(ops) == [r \in Requests |-> IF r \in DOMAIN ops THEN ops[r] ELSE {}]

\* Issuers, consumers, and the other operations around them.
AroundConsume == Only(
  r1 :> {"create"} @@ r2 :> {"consume", "delete"} @@ r3 :> {"consume", "create"}
    @@ r4 :> {"consume", "find"})
BesideCache == Only(
  r1 :> {"create"} @@ r2 :> {"consume"} @@ r3 :> {"consume"} @@ r4 :> {"update"})
NoUpdate == Only(
  r1 :> {"create"} @@ r2 :> {"consume"} @@ r3 :> {"consume", "create"}
    @@ r4 :> {"consume", "find", "delete"})
CreateConsume == Only(r1 :> {"create", "consume"} @@ r2 :> {"consume"} @@ r3 :> {"consume"})

Deploy(storage, getAndDelete, hashed, single, home, ops) ==
  [storage |-> storage, getAndDelete |-> getAndDelete, hashed |-> hashed, single |-> single,
   home |-> home, ops |-> ops]

\* Two sendings, and a delete or an update between them and a consume.
AroundDelete == Only(
  r1 :> {"create"} @@ r2 :> {"create", "delete"} @@ r3 :> {"delete", "update"}
    @@ r4 :> {"consume", "find"})

\* Where consume is documented to be single use.
Supported ==
  {Deploy("database", FALSE, FALSE, FALSE, TwoHomes, AroundConsume),
   Deploy("database", FALSE, FALSE, TRUE, TwoHomes, AroundDelete),
   Deploy("both", TRUE, FALSE, FALSE, TwoHomes, BesideCache),
   Deploy("secondary", TRUE, FALSE, FALSE, TwoHomes, NoUpdate),
   Deploy("secondary", FALSE, TRUE, FALSE, OneHome, CreateConsume)}

\* The chains of the lock, with two keys to try.
Chains ==
  {Deploy("both", TRUE, TRUE, FALSE, [r \in Requests |-> IF r = r3 THEN p2 ELSE p1], CreateConsume)}
=============================================================================
