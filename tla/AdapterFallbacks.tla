--------------------------- MODULE AdapterFallbacks ---------------------------
(***************************************************************************)
(* consumeOne and incrementOne of the adapter factory                      *)
(* (src/packages/core/src/db/adapter/factory.ts): the adapter's own, in    *)
(* one statement, or the fallback, a findMany and a guarded write by id    *)
(* that other requests may come between unless the adapter has real        *)
(* transactions.                                                           *)
(*                                                                         *)
(* The callers are those of this repository: consume takes a single-use    *)
(* row, take decrements a counter that is still positive, and swap gives a *)
(* row a new stamp and a full counter if it has the stamp that the caller  *)
(* read before.                                                            *)
(***************************************************************************)
EXTENDS Integers, FiniteSets

CONSTANTS
  Requests,
  Deployments   \* the adapters and requests to consider

Operations == {"consume", "take", "swap"}
Deployment ==
  [ops      : [Requests -> SUBSET Operations],
   native   : BOOLEAN,   \* the adapter has consumeOne and incrementOne
   isolated : BOOLEAN,   \* it has transactions, and none comes between another's steps
   counted  : BOOLEAN,   \* a write counts the rows it changed, and not those it meant to
   count    : Nat,       \* rows that the where clauses select
   full     : Nat]       \* the counter, at the start and after a swap

Start0 == "start"              \* the stamp of a row at the start
\* The contract of an adapter asks for the count; without it, the fallback needs the
\* transaction.
Reliable(d) == d.native \/ d.isolated \/ d.counted
ConstantsOK ==
  /\ Deployments \subseteq Deployment
  /\ \A d \in Deployments : Reliable(d)
  /\ IsFiniteSet(Requests) /\ Start0 \notin Requests

VARIABLES
  deploy,   \* the configuration, chosen at the start
  table,    \* the rows by their id
  call      \* the state of each request

vars == <<deploy, table, call>>

Ids == 1..deploy.count
Stamps == Requests \cup {Start0}
Row == [there : BOOLEAN, counter : Int, stamp : Stamps]
Steps == {"load", "find", "write"}
Ended == {"won", "missed"}
Call == [op   : Operations \cup {"none"},
         at   : {"idle"} \cup Steps \cup Ended,
         old  : Stamps,    \* the stamp that a swap asks for
         id   : Nat,       \* the row that was found; 0: none
         next : Int]       \* the counter to write
NoCall == [op |-> "none", at |-> "idle", old |-> Start0, id |-> 0, next |-> 0]

At(r, pc) == call[r].at = pc
Op(r) == call[r].op
Become(r, c) == call' = [call EXCEPT ![r] = c]
Goto(r, pc) == Become(r, [call[r] EXCEPT !.at = pc])

Init ==
  /\ deploy \in Deployments
  /\ table = [i \in Ids |-> [there |-> TRUE, counter |-> deploy.full, stamp |-> Start0]]
  /\ call = [r \in Requests |-> NoCall]

Start(r, op) ==
  /\ At(r, "idle")
  /\ Become(r, [NoCall EXCEPT !.op = op, !.at = IF op = "swap" THEN "load" ELSE "find"])
  /\ UNCHANGED <<deploy, table>>

\* The caller of a swap reads the row.
Load(r) ==
  /\ At(r, "load")
  /\ \E i \in Ids : Become(r, [call[r] EXCEPT !.at = "find", !.old = table[i].stamp])
  /\ UNCHANGED <<deploy, table>>

\* The where clause.
Matches(r, i) ==
  /\ table[i].there
  /\ CASE Op(r) = "take" -> table[i].counter > 0
       [] Op(r) = "swap" -> table[i].stamp = call[r].old
       [] OTHER -> TRUE
Next0(r, i) == IF Op(r) = "take" THEN table[i].counter - 1 ELSE deploy.full

\* What a write with the counter n makes of row i.
Put(r, i, n) ==
  table' = [table EXCEPT ![i] =
    CASE Op(r) = "consume" -> [@ EXCEPT !.there = FALSE]
      [] Op(r) = "take"    -> [@ EXCEPT !.counter = n]
      [] Op(r) = "swap"    -> [@ EXCEPT !.counter = n, !.stamp = r]]

\* In one statement; any row that matches.
Native(r) ==
  /\ At(r, "find") /\ deploy.native
  /\ \/ /\ \A i \in Ids : ~Matches(r, i)
        /\ Goto(r, "missed")
        /\ UNCHANGED table
     \/ \E i \in Ids : /\ Matches(r, i)
                       /\ Put(r, i, Next0(r, i))
                       /\ Become(r, [call[r] EXCEPT !.at = "won", !.id = i, !.next = Next0(r, i)])
  /\ UNCHANGED deploy

\* findMany with a limit of one. The transaction lasts until the write.
Find(r) ==
  /\ At(r, "find") /\ ~deploy.native
  /\ deploy.isolated => \A q \in Requests : ~At(q, "write")
  /\ \/ (\A i \in Ids : ~Matches(r, i)) /\ Goto(r, "missed")
     \/ \E i \in Ids : /\ Matches(r, i)
                       /\ Become(r, [call[r] EXCEPT !.at = "write", !.id = i, !.next = Next0(r, i)])
  /\ UNCHANGED <<deploy, table>>

\* Faulty: the write asks for the id only.
WriteById(r) ==
  /\ At(r, "write")
  /\ Put(r, call[r].id, call[r].next)
  /\ Goto(r, "won")
  /\ UNCHANGED deploy

\* deleteMany or updateMany, by the where clause and the id. A count that is not of the
\* rows that changed may still have one that another took.
Write(r) ==
  /\ At(r, "write")
  /\ \/ /\ Matches(r, call[r].id)
        /\ Put(r, call[r].id, call[r].next)
        /\ Goto(r, "won")
     \/ /\ ~Matches(r, call[r].id)
        /\ Goto(r, "missed") \/ (~deploy.counted /\ Goto(r, "won"))
        /\ UNCHANGED table
  /\ UNCHANGED deploy

Step(r) == Load(r) \/ Native(r) \/ Find(r) \/ Write(r)
Idle == (\A r \in Requests : call[r].at \notin Steps) /\ UNCHANGED vars

Next ==
  \/ \E r \in Requests : \E op \in deploy.ops[r] : Start(r, op)
  \/ \E r \in Requests : Step(r)
  \/ Idle

Spec == Init /\ [][Next]_vars

-----------------------------------------------------------------------------
(* Properties *)

\* The state has its type.
TypeOK ==
  /\ deploy \in Deployments
  /\ table \in [Ids -> Row]
  /\ call \in [Requests -> Call]

Won(op, i) == {r \in Requests : Op(r) = op /\ At(r, "won") /\ call[r].id = i}

\* With the fallback too, consumeOne is what a store of single-use values needs:
\* each row goes to one caller. A comment of the fallback and the guide for adapters
\* (create-a-db-adapter.mdx) promise that under real transactions only; the count of
\* what deleteMany deleted is enough without them, and transactions are without it.
SU == INSTANCE SingleUse WITH
  Callers <- Requests, issued <- deploy.count,
  live <- {i \in Ids : table[i].there},
  redeemed <- UNION {{<<r, i>> : r \in Won("consume", i)} : i \in Ids}
ConsumesOnce == SU!Spec

\* One caller at most swaps a given stamp of a row, as a refill and a window's
\* start require.
SwapsOnce ==
  \A i \in Ids : \A r, q \in Won("swap", i) : call[r].old = call[q].old => r = q

\* The last unit of a counter is granted once in each filling of it. The
\* units before it may not be: the fallback writes what it computed from an
\* earlier read, and decrements that overlap count as one.
LastUnitOnce ==
  \A i \in Ids :
    Cardinality({r \in Won("take", i) : call[r].next = 0}) <= 1 + Cardinality(Won("swap", i))

\* What a guarded increment decides is decided for one caller.
GuardedOnce == SwapsOnce /\ LastUnitOnce
=============================================================================
