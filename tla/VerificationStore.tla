-------------------------- MODULE VerificationStore --------------------------
(***************************************************************************)
(* The verification values of the internal adapter                         *)
(* (src/packages/shinauth/src/db/internal-adapter.ts): one-time codes,     *)
(* magic links, authorization codes and reset tokens, kept in the          *)
(* database, in the secondary storage (a cache with expiry), or in both.   *)
(*                                                                         *)
(* The module follows ONE identifier. A request performs one operation,    *)
(* and each of its steps is the work between two awaits. Every value       *)
(* issued under the identifier has a number, its generation, in the order  *)
(* in which the store received them.                                       *)
(*                                                                         *)
(* With storeIdentifier = "hashed" the identifier is stored under the key  *)
(* "hashed", and consume and find also try the key "plain", where values   *)
(* written before the option was turned on still are.                      *)
(*                                                                         *)
(* Database calls are atomic one by one and are not isolated together:     *)
(* that is the adapters' default (transaction: false), and it includes     *)
(* every outcome of a serializable transaction that commits. A singular    *)
(* delete or update by identifier reaches every matching row in the SQL    *)
(* adapters and in memory, and one of them, any one, in MongoDB.           *)
(***************************************************************************)
EXTENDS Integers, Sequences

CONSTANTS
  Requests,     \* calls to the internal adapter
  Processes,    \* server processes sharing the storage
  Deployments,  \* the configurations to consider
  TTL,          \* lifetime of a value
  MaxTime       \* bound of the clock

AllOps == {"create", "find", "consume", "delete", "update"}
Deployment == [storage      : {"database", "secondary", "both"},
               getAndDelete : BOOLEAN,  \* the secondary storage implements it
               hashed       : BOOLEAN,  \* storeIdentifier is "hashed"
               single       : BOOLEAN,  \* the database deletes and updates one matching row
               home         : [Requests -> Processes],   \* who serves a request
               ops          : [Requests -> SUBSET AllOps]]

ASSUME ConstantsAssumption ==
  /\ Deployments \subseteq Deployment
  /\ TTL \in Nat \ {0}
  /\ MaxTime \in Nat

VARIABLES
  deploy,  \* the configuration, chosen at the start
  table,   \* the rows of the verification table
  cache,   \* the secondary storage, by key
  lockq,   \* verificationConsumeLocks: per process and key, the queue of requests
  call,    \* the state of each request
  issued,  \* number of values issued so far
  spent,   \* values up to this one were invalidated by a finished consume, or by
           \* a delete that found the rows and left none
  now      \* the clock

vars == <<deploy, table, cache, lockq, call, issued, spent, now>>

Storage == deploy.storage
HasGetAndDelete == deploy.getAndDelete
Hashed == deploy.hashed
Home == deploy.home
Ops == deploy.ops

UsesTable == Storage # "secondary"
UsesCache == Storage # "database"

Keys == {"hashed", "plain"}
Stored == IF Hashed THEN "hashed" ELSE "plain"
LastTry == IF Hashed THEN 2 ELSE 1
Candidates == {Stored, "plain"}

Row == [gen : Nat, key : Keys, made : Nat, exp : Nat]
Entry == [gen : Nat, exp : Nat]
None == [gen |-> 0, exp |-> 0]

Waiting == {"enter", "select", "get"}
Working == {"take", "claim", "purge", "del", "uncache", "gate",
            "lookup", "find", "cleanup",
            "insert", "fill", "evict", "probe", "erase",
            "fetch", "refill", "amend"}
Ended == {"done", "failed"}

Call == [op    : AllOps \cup {"none"},
         at    : {"idle"} \cup Waiting \cup Working \cup Ended,
         try   : {1, 2},        \* index into identifiersToTry
         row   : Entry,         \* what the request read or claimed
         todo  : SUBSET Keys,   \* cache keys still to delete
         began : Nat,           \* when it started
         floor : Nat,           \* spent when it started
         dead  : Nat]           \* issued when its consume emptied the identifier

NoCall == [op |-> "none", at |-> "idle", try |-> 1, row |-> None,
           todo |-> {}, began |-> 0, floor |-> 0, dead |-> 0]

Key(r) == IF Hashed /\ call[r].try = 1 THEN "hashed" ELSE "plain"
At(r, pc) == call[r].at = pc

\* The rows of a key that sortBy createdAt desc, limit 1 may return.
Latest(k) == {x \in table : /\ x.key = k
                            /\ \A y \in table : y.key = k => y.made <= x.made}
Visible(k) == cache[k] # None /\ now < cache[k].exp
AsEntry(x) == [gen |-> x.gen, exp |-> x.exp]

FirstStep(op) ==
  CASE op = "consume" -> IF UsesTable \/ ~HasGetAndDelete THEN "enter" ELSE "take"
    [] op = "find"    -> IF UsesCache THEN "lookup" ELSE "find"
    [] op = "create"  -> IF UsesTable THEN "insert" ELSE "fill"
    [] op = "delete"  -> IF UsesCache THEN "evict" ELSE "probe"
    [] op = "update"  -> IF UsesCache THEN "fetch" ELSE "amend"

Become(r, c) == call' = [call EXCEPT ![r] = c]
Goto(r, pc) == Become(r, [call[r] EXCEPT !.at = pc])
Keep(r, pc, x) == Become(r, [call[r] EXCEPT !.at = pc, !.row = x])

\* Nothing under this identifier: try the next one, or go to last.
NextTry(r, first, last) ==
  Become(r, [call[r] EXCEPT !.at  = IF call[r].try < LastTry THEN first ELSE last,
                            !.try = IF call[r].try < LastTry THEN 2 ELSE @,
                            !.row = None])

-----------------------------------------------------------------------------
Init ==
  /\ deploy \in Deployments
  /\ \E legacy \in IF Hashed THEN {0, 1} ELSE {0} :
       /\ issued = legacy
       /\ table = IF legacy = 1 /\ UsesTable
                    THEN {[gen |-> 1, key |-> "plain", made |-> 0, exp |-> TTL]} ELSE {}
       /\ cache = [k \in Keys |-> IF legacy = 1 /\ UsesCache /\ k = "plain"
                                    THEN [gen |-> 1, exp |-> TTL] ELSE None]
  /\ lockq = [p \in Processes |-> [k \in Keys |-> <<>>]]
  /\ call = [r \in Requests |-> NoCall]
  /\ spent = 0
  /\ now = 0

Start(r, op) ==
  /\ At(r, "idle")
  /\ Become(r, [NoCall EXCEPT !.op = op, !.at = FirstStep(op),
                              !.began = now, !.floor = spent])
  /\ UNCHANGED <<deploy, table, cache, lockq, issued, spent, now>>

-----------------------------------------------------------------------------
\* consumeVerificationValue

\* Faulty: nobody waits for the lock.
HasLockIgnored(r) == TRUE
HasLock(r) == LET q == lockq[Home[r]][Key(r)] IN q # <<>> /\ q[1] = r
Release(r) == lockq' = [lockq EXCEPT ![Home[r]][Key(r)] = Tail(@)]

\* withVerificationConsumeLock: take a place in the chain of the key.
Enter(r) ==
  /\ At(r, "enter")
  /\ lockq' = [lockq EXCEPT ![Home[r]][Key(r)] = Append(@, r)]
  /\ Goto(r, IF UsesTable THEN "select" ELSE "get")
  /\ UNCHANGED <<deploy, table, cache, issued, spent, now>>

\* Faulty: returns without releasing the lock when there is no row.
SelectLeaking(r) ==
  /\ At(r, "select") /\ HasLock(r)
  /\ \/ Latest(Key(r)) = {} /\ NextTry(r, "enter", "gate")
     \/ \E x \in Latest(Key(r)) : Keep(r, "claim", AsEntry(x))
  /\ UNCHANGED <<deploy, table, cache, lockq, issued, spent, now>>

Select(r) ==
  /\ At(r, "select") /\ HasLock(r)
  /\ \/ /\ Latest(Key(r)) = {}
        /\ NextTry(r, "enter", "gate")
        /\ Release(r)
     \/ /\ \E x \in Latest(Key(r)) : Keep(r, "claim", AsEntry(x))
        /\ UNCHANGED lockq
  /\ UNCHANGED <<deploy, table, cache, issued, spent, now>>

\* Faulty: find and delete, without looking at what the delete found.
ClaimBlind(r) ==
  /\ At(r, "claim") /\ HasLock(r)
  /\ table' = {x \in table : x.gen # call[r].row.gen}
  /\ Goto(r, "purge")
  /\ UNCHANGED <<deploy, cache, lockq, issued, spent, now>>

\* consumeOne on the primary key: the race gate.
Claim(r) ==
  /\ At(r, "claim") /\ HasLock(r)
  /\ \/ /\ \E x \in table : /\ x.gen = call[r].row.gen
                            /\ table' = table \ {x}
                            /\ Keep(r, "purge", AsEntry(x))
        /\ UNCHANGED lockq
     \/ /\ \A x \in table : x.gen # call[r].row.gen
        /\ NextTry(r, "enter", "gate")
        /\ Release(r)
        /\ UNCHANGED table
  /\ UNCHANGED <<deploy, cache, issued, spent, now>>

\* Faulty: the older rows of the identifier are left behind.
PurgeNothing(r) ==
  /\ At(r, "purge") /\ HasLock(r)
  /\ Become(r, [call[r] EXCEPT !.at   = IF UsesCache THEN "uncache" ELSE "gate",
                               !.todo = IF UsesCache THEN Candidates ELSE {},
                               !.dead = issued])
  /\ Release(r)
  /\ UNCHANGED <<deploy, table, cache, issued, spent, now>>

\* deleteMany on the identifier; then the lock is released.
Purge(r) ==
  /\ At(r, "purge") /\ HasLock(r)
  /\ table' = {x \in table : x.key # Key(r)}
  /\ Become(r, [call[r] EXCEPT !.at   = IF UsesCache THEN "uncache" ELSE "gate",
                               !.todo = IF UsesCache THEN Candidates ELSE {},
                               !.dead = issued])
  /\ Release(r)
  /\ UNCHANGED <<deploy, cache, issued, spent, now>>

\* secondaryStorage.getAndDelete
Take(r) ==
  /\ At(r, "take")
  /\ cache' = [cache EXCEPT ![Key(r)] = None]
  /\ IF Visible(Key(r))
       THEN Become(r, [call[r] EXCEPT
                         !.at   = IF Candidates = {Key(r)} THEN "gate" ELSE "uncache",
                         !.row  = cache[Key(r)],
                         !.todo = Candidates \ {Key(r)},
                         !.dead = issued])
       ELSE NextTry(r, "take", "gate")
  /\ UNCHANGED <<deploy, table, lockq, issued, spent, now>>

\* The fallback without getAndDelete: get, then delete, under the lock.
Get(r) ==
  /\ At(r, "get") /\ HasLock(r)
  /\ IF Visible(Key(r))
       THEN Keep(r, "del", cache[Key(r)]) /\ UNCHANGED lockq
       ELSE NextTry(r, "enter", "gate") /\ Release(r)
  /\ UNCHANGED <<deploy, table, cache, issued, spent, now>>

Del(r) ==
  /\ At(r, "del") /\ HasLock(r)
  /\ cache' = [cache EXCEPT ![Key(r)] = None]
  /\ Become(r, [call[r] EXCEPT
                  !.at   = IF Candidates = {Key(r)} THEN "gate" ELSE "uncache",
                  !.todo = Candidates \ {Key(r)},
                  !.dead = issued])
  /\ Release(r)
  /\ UNCHANGED <<deploy, table, issued, spent, now>>

\* Promise.all over the other cache keys, in any order.
Uncache(r) ==
  /\ At(r, "uncache")
  /\ \E k \in call[r].todo :
       /\ cache' = [cache EXCEPT ![k] = None]
       /\ Become(r, [call[r] EXCEPT !.todo = @ \ {k},
                                    !.at   = IF call[r].todo = {k} THEN "gate" ELSE @])
  /\ UNCHANGED <<deploy, table, lockq, issued, spent, now>>

\* The single expiry gate; the caller acts on a non-null answer.
Gate(r) ==
  /\ At(r, "gate")
  /\ Keep(r, "done", IF call[r].row.exp < now THEN None ELSE call[r].row)
  /\ spent' = IF call[r].row # None /\ call[r].dead > spent THEN call[r].dead ELSE spent
  /\ UNCHANGED <<deploy, table, cache, lockq, issued, now>>

-----------------------------------------------------------------------------
\* createVerificationValue

\* Faulty: the lifetime is taken away instead of added.
ExpiryBackwards(r) == call[r].began - TTL
Expiry(r) == call[r].began + TTL

Insert(r) ==
  /\ At(r, "insert")
  /\ table' = table \cup {[gen |-> issued + 1, key |-> Stored,
                           made |-> call[r].began, exp |-> Expiry(r)]}
  /\ issued' = issued + 1
  /\ Keep(r, IF UsesCache THEN "fill" ELSE "done", [gen |-> issued + 1, exp |-> Expiry(r)])
  /\ UNCHANGED <<deploy, cache, lockq, spent, now>>

\* secondaryStorage.set, skipped when the time to live is already zero.
Fill(r) ==
  /\ At(r, "fill")
  /\ LET x == IF UsesTable THEN call[r].row ELSE [gen |-> issued + 1, exp |-> Expiry(r)] IN
       /\ cache' = IF now < x.exp THEN [cache EXCEPT ![Stored] = x] ELSE cache
       /\ Keep(r, "done", x)
  /\ issued' = IF UsesTable THEN issued ELSE issued + 1
  /\ UNCHANGED <<deploy, table, lockq, spent, now>>

-----------------------------------------------------------------------------
\* findVerificationValue

Lookup(r) ==
  /\ At(r, "lookup")
  /\ IF Visible(Key(r)) THEN Keep(r, "done", cache[Key(r)])
     ELSE IF call[r].try < LastTry THEN NextTry(r, "lookup", "lookup")
     ELSE Become(r, [call[r] EXCEPT !.at = IF UsesTable THEN "find" ELSE "done", !.try = 1])
  /\ UNCHANGED <<deploy, table, cache, lockq, issued, spent, now>>

Find(r) ==
  /\ At(r, "find")
  /\ \/ Latest(Key(r)) = {} /\ NextTry(r, "find", "cleanup")
     \/ \E x \in Latest(Key(r)) : Keep(r, "cleanup", AsEntry(x))
  /\ UNCHANGED <<deploy, table, cache, lockq, issued, spent, now>>

\* deleteMany of the expired rows, after the row to return was read.
Cleanup(r) ==
  /\ At(r, "cleanup")
  /\ table' = {x \in table : x.exp >= now}
  /\ Goto(r, "done")
  /\ UNCHANGED <<deploy, cache, lockq, issued, spent, now>>

-----------------------------------------------------------------------------
\* deleteVerificationByIdentifier

Evict(r) ==
  /\ At(r, "evict")
  /\ cache' = [cache EXCEPT ![Stored] = None]
  /\ Goto(r, IF UsesTable THEN "probe" ELSE "done")
  /\ spent' = IF UsesTable THEN spent ELSE issued
  /\ UNCHANGED <<deploy, table, lockq, issued, now>>

\* deleteWithHooks looks for a row first, and deletes only if it found one. An
\* error of that search is caught and counts as not found.
Probe(r) ==
  /\ At(r, "probe")
  /\ \/ /\ \E x \in table : x.key = Stored
        /\ Goto(r, "erase")
        /\ UNCHANGED spent
     \/ /\ \A x \in table : x.key # Stored
        /\ Goto(r, "done")
        /\ spent' = issued
     \/ /\ Goto(r, "done")
        /\ UNCHANGED spent
  /\ UNCHANGED <<deploy, table, cache, lockq, issued, now>>

\* The rows that adapter.delete or adapter.update by identifier reaches.
Reached ==
  LET rows == {x \in table : x.key = Stored}
  IN  IF deploy.single /\ rows # {} THEN {{x} : x \in rows} ELSE {rows}

Erase(r) ==
  /\ At(r, "erase")
  /\ \E rows \in Reached : table' = table \ rows
  /\ Goto(r, "done")
  /\ spent' = IF \E x \in table' : x.key = Stored THEN spent ELSE issued
  /\ UNCHANGED <<deploy, cache, lockq, issued, now>>

-----------------------------------------------------------------------------
\* updateVerificationByIdentifier, with a new expiresAt

Fetch(r) ==
  /\ At(r, "fetch")
  /\ IF Visible(Stored)
       THEN Keep(r, "refill", [gen |-> cache[Stored].gen, exp |-> Expiry(r)])
       ELSE Goto(r, IF UsesTable THEN "amend" ELSE "done")
  /\ UNCHANGED <<deploy, table, cache, lockq, issued, spent, now>>

Refill(r) ==
  /\ At(r, "refill")
  /\ cache' = IF now < call[r].row.exp THEN [cache EXCEPT ![Stored] = call[r].row] ELSE cache
  /\ Goto(r, IF UsesTable THEN "amend" ELSE "done")
  /\ UNCHANGED <<deploy, table, lockq, issued, spent, now>>

Amend(r) ==
  /\ At(r, "amend")
  /\ \E rows \in Reached :
       table' = (table \ rows) \cup {[x EXCEPT !.exp = Expiry(r)] : x \in rows}
  /\ Goto(r, "done")
  /\ UNCHANGED <<deploy, cache, lockq, issued, spent, now>>

-----------------------------------------------------------------------------
\* A storage call of the request throws; finally releases the lock it holds.
\* (What Probe does then is part of Probe.)
Holding == {"select", "claim", "purge", "get", "del"}
Fail(r) ==
  /\ call[r].at \in (Working \cup {"select", "get"}) \ {"gate", "probe"}
  /\ call[r].at \in Holding => HasLock(r)
  /\ IF call[r].at \in Holding THEN Release(r) ELSE UNCHANGED lockq
  /\ Goto(r, "failed")
  /\ UNCHANGED <<deploy, table, cache, issued, spent, now>>

\* A process dies and restarts: its requests and its locks are gone.
Crash(p) ==
  /\ \E r \in Requests : Home[r] = p /\ call[r].at \in Waiting \cup Working
  /\ call' = [r \in Requests |->
                IF Home[r] = p /\ call[r].at \in Waiting \cup Working
                  THEN [call[r] EXCEPT !.at = "failed"] ELSE call[r]]
  /\ lockq' = [lockq EXCEPT ![p] = [k \in Keys |-> <<>>]]
  /\ UNCHANGED <<deploy, table, cache, issued, spent, now>>

Tick ==
  /\ now < MaxTime
  /\ now' = now + 1
  /\ UNCHANGED <<deploy, table, cache, lockq, call, issued, spent>>

Consume(r) ==
  \/ Enter(r) \/ Select(r) \/ Claim(r) \/ Purge(r) \/ Take(r) \/ Get(r) \/ Del(r)
  \/ Uncache(r) \/ Gate(r)
Step(r) ==
  \/ Consume(r)
  \/ Insert(r) \/ Fill(r)
  \/ Lookup(r) \/ Find(r) \/ Cleanup(r)
  \/ Evict(r) \/ Probe(r) \/ Erase(r)
  \/ Fetch(r) \/ Refill(r) \/ Amend(r)

Finished == \A r \in Requests : call[r].at \in Ended \/ Ops[r] = {}
Idle == Finished /\ UNCHANGED vars

Next ==
  \/ \E r \in Requests : \E op \in Ops[r] : Start(r, op)
  \/ \E r \in Requests : Step(r)
  \/ \E r \in Requests : Fail(r)
  \/ \E p \in Processes : Crash(p)
  \/ Tick
  \/ Idle

Spec == Init /\ [][Next]_vars

\* A started request is scheduled until it ends; nothing must start or fail.
Fairness == \A r \in Requests : WF_vars(Step(r))
FairSpec == Spec /\ Fairness

-----------------------------------------------------------------------------
(* Properties *)

\* The state has its type.
TypeOK ==
  /\ deploy \in Deployments
  /\ table \subseteq Row
  /\ cache \in [Keys -> Entry]
  /\ lockq \in [Processes -> [Keys -> Seq(Requests)]]
  /\ call \in [Requests -> Call]
  /\ issued \in Nat /\ spent \in Nat /\ now \in Nat

Won(r) == call[r].op = "consume" /\ At(r, "done") /\ call[r].row # None
Found(r) == call[r].op = "find" /\ At(r, "done") /\ call[r].row # None

\* consumeVerificationValue gives a value to one caller only, however many
\* processes race for it, and whatever crashes or fails on the way.
AtMostOnce ==
  \A r, q \in Requests :
    r # q /\ Won(r) /\ Won(q) => call[r].row.gen # call[q].row.gen

\* Once a consume or a delete has finished, no request that starts later is
\* given a value that the identifier had before: the older rows that consume
\* did not return cannot be replayed. (A delete counts when it left no row: one
\* whose search failed ends without an error and has deleted nothing, and one in
\* MongoDB takes one of several rows.)
NoReplay ==
  \A r \in Requests : Won(r) => call[r].row.gen > call[r].floor

\* With one store, a find that starts after a consume or a delete has finished
\* does not return a value from before it. (With both, the cache entry of a create
\* can land after a consume has cleared it, and finds see the entry.)
FindFresh ==
  ~(UsesTable /\ UsesCache) => \A r \in Requests : Found(r) => call[r].row.gen > call[r].floor

\* Every request that starts is answered or fails: the lock chain passes on
\* whatever happens to the requests ahead in it.
Answered ==
  \A r \in Requests : ~At(r, "idle") ~> call[r].at \in Ended

\* The store implements the single-use promise. A value is live while it is
\* stored or in the hands of a consume that has not answered yet.
InStore == IF UsesTable THEN {x.gen : x \in table} ELSE {cache[k].gen : k \in Keys} \ {0}
InHand == {call[r].row.gen : r \in {q \in Requests :
             call[q].op = "consume" /\ call[q].at \in {"purge", "del", "uncache", "gate"}}} \ {0}
Promise == INSTANCE SingleUse WITH
  Callers  <- Requests,
  live     <- InStore \cup InHand,
  redeemed <- {<<r, call[r].row.gen>> : r \in {q \in Requests : Won(q)}}
ImplementsSingleUse == Promise!Spec
=============================================================================
