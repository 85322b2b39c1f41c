----------------------------- MODULE RateLimiter -----------------------------
(***************************************************************************)
(* The rate limiter (src/packages/shinauth/src/api/rate-limiter/index.ts): *)
(* onRequestRateLimit counts a request under its key, an address and a     *)
(* path, and lets it pass or answers 429.                                  *)
(*                                                                         *)
(* The counters are rows of the database, changed by guarded increments;   *)
(* entries in the memory of the process; counters of the secondary storage *)
(* (its atomic increment); or entries of a storage that can only get and   *)
(* set (legacy). A step is the work between two awaits, and the clock may  *)
(* move between any two.                                                   *)
(***************************************************************************)
EXTENDS Integers, FiniteSets

CONSTANTS
  Requests,
  Keys,         \* an address and a path, as createRateLimitKey joins them
  Deployments,  \* the configurations to consider
  MaxTime       \* bound of the clock

Rule == [window : Nat \ {0}, max : Nat \ {0}]
Deployment ==
  [storage     : {"database", "memory", "secondary", "legacy"},
   rule        : [Keys -> Rule],       \* what resolveRateLimitConfig finds
   key         : [Requests -> Keys],
   longest     : Nat,                  \* the longest window that a sweep knows of
   maxDelay    : Nat,                  \* from reading the clock to the change it guards
   maxInFlight : Nat \ {0}]            \* requests that run at a time

ASSUME ConstantsAssumption ==
  /\ IsFiniteSet(Requests)
  /\ Deployments \subseteq Deployment
  /\ MaxTime \in Nat

VARIABLES
  deploy,  \* the configuration, chosen at the start
  store,   \* the counter of each key
  sweeps,  \* cutoffs of deleteExpiredRows in the background
  call,    \* the state of each request
  now      \* the clock

vars == <<deploy, store, sweeps, call, now>>

Counter == [count : Nat, last : Nat, exp : Nat]  \* exp: when the storage forgets it
None == [count |-> 0, last |-> 0, exp |-> 0]

Steps == {"read", "decide", "create", "recheck", "reset", "increment", "verify",
          "consume", "count", "get", "set"}
Ended == {"passed", "blocked", "failed"}
Call == [at    : {"idle"} \cup Steps \cup Ended,
         clock : Nat,      \* Date.now(), as the request read it
         data  : Counter]  \* the counter, as it read it
NoCall == [at |-> "idle", clock |-> 0, data |-> None]

Storage == deploy.storage
Key(r) == deploy.key[r]
Window(r) == deploy.rule[Key(r)].window
MaxOf(r) == deploy.rule[Key(r)].max
At(r, pc) == call[r].at = pc
Become(r, c) == call' = [call EXCEPT ![r] = c]
Goto(r, pc) == Become(r, [call[r] EXCEPT !.at = pc])
Put(r, x) == store' = [store EXCEPT ![Key(r)] = x]

FirstStep == CASE Storage = "database"  -> "read"
               [] Storage = "memory"    -> "consume"
               [] Storage = "secondary" -> "count"
               [] Storage = "legacy"    -> "get"

Init ==
  /\ deploy \in Deployments
  /\ store = [k \in Keys |-> None]
  /\ sweeps = {}
  /\ call = [r \in Requests |-> NoCall]
  /\ now = 0

InFlight(r) == call[r].at \in Steps

Start(r) ==
  /\ At(r, "idle")
  /\ Cardinality({q \in Requests : InFlight(q)}) < deploy.maxInFlight
  /\ Goto(r, FirstStep)
  /\ UNCHANGED <<deploy, store, sweeps, now>>

-----------------------------------------------------------------------------
\* consume in the database

Read(r) ==
  /\ At(r, "read")
  /\ Become(r, [call[r] EXCEPT !.at = "decide", !.data = store[Key(r)]])
  /\ UNCHANGED <<deploy, store, sweeps, now>>

Elapsed(r, t, c) == t - c.last > Window(r)

Decide(r) ==
  /\ At(r, "decide")
  /\ LET c == call[r].data IN
       Become(r, [call[r] EXCEPT
         !.clock = now,
         !.at    = IF c = None THEN "create"
                   ELSE IF Elapsed(r, now, c) THEN "reset" ELSE "increment"])
  /\ UNCHANGED <<deploy, store, sweeps, now>>

\* The key is unique: one request opens the window. An error, also one that is
\* not of a lost race, leads to a second look.
Create(r) ==
  /\ At(r, "create")
  /\ \/ /\ store[Key(r)] = None
        /\ Put(r, [count |-> 1, last |-> call[r].clock, exp |-> 0])
        /\ Goto(r, "passed")
     \/ Goto(r, "recheck") /\ UNCHANGED store
  /\ UNCHANGED <<deploy, sweeps, now>>

Recheck(r) ==
  /\ At(r, "recheck")
  /\ Goto(r, IF store[Key(r)] = None THEN "failed" ELSE "read")
  /\ UNCHANGED <<deploy, store, sweeps, now>>

\* Faulty: the reset does not ask whether somebody else has reset or counted.
ResetUnguarded(r) ==
  /\ At(r, "reset")
  /\ Put(r, [count |-> 1, last |-> call[r].clock, exp |-> 0])
  /\ Goto(r, "passed")
  /\ sweeps' = sweeps \cup {call[r].clock - deploy.longest}
  /\ UNCHANGED <<deploy, now>>

\* Guarded on the lastRequest that was read.
Reset(r) ==
  /\ At(r, "reset")
  /\ IF store[Key(r)] # None /\ store[Key(r)].last <= call[r].data.last
       THEN /\ Put(r, [count |-> 1, last |-> call[r].clock, exp |-> 0])
            /\ Goto(r, "passed")
            /\ sweeps' = sweeps \cup {call[r].clock - deploy.longest}
       ELSE Goto(r, "read") /\ UNCHANGED <<store, sweeps>>
  /\ UNCHANGED <<deploy, now>>

\* Guarded on the window and on the limit.
Increment(r) ==
  /\ At(r, "increment")
  /\ LET c == store[Key(r)] IN
       IF c # None /\ c.last > call[r].clock - Window(r) /\ c.count < MaxOf(r)
         THEN /\ Put(r, [c EXCEPT !.count = @ + 1, !.last = call[r].clock])
              /\ Goto(r, "passed")
         ELSE Goto(r, "verify") /\ UNCHANGED store
  /\ UNCHANGED <<deploy, sweeps, now>>

\* Faulty: a guard that missed is always tried again.
VerifyForever(r) ==
  /\ At(r, "verify")
  /\ Goto(r, "read")
  /\ UNCHANGED <<deploy, store, sweeps, now>>

Verify(r) ==
  /\ At(r, "verify")
  /\ LET c == store[Key(r)] IN
       Goto(r, IF c = None \/ Elapsed(r, call[r].clock, c) THEN "read" ELSE "blocked")
  /\ UNCHANGED <<deploy, store, sweeps, now>>

\* deleteExpiredRows, in the background; it may fail.
Sweep(cutoff) ==
  /\ sweeps' = sweeps \ {cutoff}
  /\ \/ store' = [k \in Keys |-> IF store[k].last < cutoff THEN None ELSE store[k]]
     \/ UNCHANGED store
  /\ UNCHANGED <<deploy, call, now>>

-----------------------------------------------------------------------------
\* The other storages

Visible(k) == store[k] # None /\ now < store[k].exp
Current(k) == IF Visible(k) THEN store[k] ELSE None

\* Faulty: this request is counted before it passes.
BlocksEarly(r, c) == c # None /\ ~Elapsed(r, now, c) /\ c.count + 1 >= MaxOf(r)

\* decideConsume
Blocks(r, c) == c # None /\ ~Elapsed(r, now, c) /\ c.count >= MaxOf(r)
Increased(r, c) ==
  [count |-> IF c = None \/ Elapsed(r, now, c) THEN 1 ELSE c.count + 1,
   last  |-> now,
   exp   |-> now + Window(r)]

\* The memory of the process: read, decide and write without an await.
Consume(r) ==
  /\ At(r, "consume")
  /\ LET c == Current(Key(r)) IN
       IF Blocks(r, c)
         THEN Become(r, [call[r] EXCEPT !.at = "blocked", !.clock = now]) /\ UNCHANGED store
         ELSE Become(r, [call[r] EXCEPT !.at = "passed", !.clock = now]) /\ Put(r, Increased(r, c))
  /\ UNCHANGED <<deploy, sweeps, now>>

\* secondaryStorage.increment: the lifetime is set when the counter is created.
Count(r) ==
  /\ At(r, "count")
  /\ LET c == Current(Key(r))
         n == c.count + 1
     IN /\ Put(r, [count |-> n, last |-> now,
                   exp |-> IF c = None THEN now + Window(r) ELSE c.exp])
        /\ Become(r, [call[r] EXCEPT !.at = IF n <= MaxOf(r) THEN "passed" ELSE "blocked",
                                     !.clock = now])
  /\ UNCHANGED <<deploy, sweeps, now>>

\* legacyConsume: get, decide, set.
Get(r) ==
  /\ At(r, "get")
  /\ LET c == Current(Key(r)) IN
       Become(r, [at    |-> IF Blocks(r, c) THEN "blocked" ELSE "set",
                  clock |-> now, data |-> Increased(r, c)])
  /\ UNCHANGED <<deploy, store, sweeps, now>>

Set(r) ==
  /\ At(r, "set")
  /\ Put(r, [call[r].data EXCEPT !.exp = now + Window(r)])
  /\ Goto(r, "passed")
  /\ UNCHANGED <<deploy, sweeps, now>>

-----------------------------------------------------------------------------
\* A storage call throws; the request ends in an error.
Fail(r) ==
  /\ call[r].at \in Steps \ {"decide", "create", "consume"}
  /\ Goto(r, "failed")
  /\ UNCHANGED <<deploy, store, sweeps, now>>

\* A storage call takes no longer than maxDelay.
Guarded == {"create", "reset", "increment", "set"}
Tick ==
  /\ now < MaxTime
  /\ \A r \in Requests : call[r].at \in Guarded => now < call[r].clock + deploy.maxDelay
  /\ now' = now + 1
  /\ UNCHANGED <<deploy, store, sweeps, call>>

InDatabase(r) ==
  Read(r) \/ Decide(r) \/ Create(r) \/ Recheck(r) \/ Reset(r) \/ Increment(r) \/ Verify(r)
Step(r) == InDatabase(r) \/ Consume(r) \/ Count(r) \/ Get(r) \/ Set(r)

Idle == /\ \A r \in Requests : call[r].at \in Ended
        /\ UNCHANGED vars

Next ==
  \/ \E r \in Requests : Start(r)
  \/ \E r \in Requests : Step(r)
  \/ \E r \in Requests : Fail(r)
  \/ \E cutoff \in sweeps : Sweep(cutoff)
  \/ Tick
  \/ Idle

Spec == Init /\ [][Next]_vars

-----------------------------------------------------------------------------
(* Properties *)

\* The state has its type.
TypeOK ==
  /\ deploy \in Deployments
  /\ store \in [Keys -> Counter]
  /\ sweeps \subseteq Int
  /\ call \in [Requests -> Call]
  /\ now \in Nat

Passed(k) == {r \in Requests : At(r, "passed") /\ Key(r) = k}
PassedFrom(k, t, span) == {r \in Passed(k) : call[r].clock \in t..(t + span - 1)}

\* No more requests of a key pass within a window than its rule allows,
\* whatever overlaps. A row's clock can be maxDelay behind, and the window is
\* that much shorter; counters of the secondary storage begin a new window at a
\* fixed time, and a span can touch two of them.
Limit(k) == IF Storage = "secondary" THEN 2 * deploy.rule[k].max ELSE deploy.rule[k].max
LimitHeld ==
  \A k \in Keys : \A t \in 0..now :
    Cardinality(PassedFrom(k, t, deploy.rule[k].window - deploy.maxDelay)) <= Limit(k)

\* Since t, the key was never quiet for longer than its window.
Busy(k, t, until) ==
  \A u \in t..(until - deploy.rule[k].window - 1) :
    \E q \in Passed(k) : call[q].clock \in (u + 1)..(u + deploy.rule[k].window)

Counted(r) == {q \in Passed(Key(r)) : Busy(Key(r), call[q].clock, call[r].clock)}

\* Exactly one window after another request: the increment's guard leaves this
\* instant out, and so does the test for a new window.
OnTheEdge(r) ==
  Storage = "database" /\ \E q \in Passed(Key(r)) : call[r].clock = call[q].clock + Window(r)

\* A request is refused only when its key has passed as many requests as the
\* rule allows since it was last quiet for a window: nothing but a request
\* that passed counts. (In the database a request on the edge is refused too.)
BlockedForCause == \A r \in Requests :
  At(r, "blocked") /\ ~OnTheEdge(r) => Cardinality(Counted(r)) >= MaxOf(r)

\* consume starts over only when another request, or a sweep, has changed the
\* counter since it was read: each retry is paid for by somebody's progress.
RetriesForCause ==
  [][\A r \in Requests :
       ~At(r, "read") /\ ~At(r, "idle") /\ At(r, "read")' => store[Key(r)] # call[r].data]_vars

\* The background sweep deletes "clearly-expired rows": those whose window, by
\* the rule of their key, is over.
SweptAreExpired ==
  [][\A k \in Keys : store[k] # None /\ store'[k] = None =>
       now - store[k].last > deploy.rule[k].window]_vars
=============================================================================
