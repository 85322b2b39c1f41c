--------------------------- MODULE PluginsProofs ---------------------------
(***************************************************************************)
(* Proofs about RateLimiter and the components beside it in Plugins. Of    *)
(* the rate limiter: its type invariant; that the retries of the           *)
(* database's consume are each paid for by another request's progress;     *)
(* that a row never counts more than its rule allows; and that a request   *)
(* is refused for those that passed. Of transactions: that hooks run after *)
(* the end of theirs, and a row is taken once. Of organizations and        *)
(* subscriptions: what their own proof modules show. Of the adapter's      *)
(* fallbacks: that a unit, a stamp and a row go to one request each. Of    *)
(* reservations: that one submission of an assertion passes. Of the        *)
(* rotation of signing keys: that every token can be verified. Of API      *)
(* keys: their budgets, and that what was written counts. Of all: types.   *)
(***************************************************************************)
EXTENDS Plugins, SequenceTheorems, FiniteSetTheorems, WellFoundedInduction, TLAPS

LEMMA DeployTyped ==
  ASSUME deploy \in Deployments
  PROVE  /\ \A k \in Keys : /\ deploy.rule[k].window \in Nat \ {0}
                            /\ deploy.rule[k].max \in Nat \ {0}
         /\ \A r \in Requests : Key(r) \in Keys
         /\ deploy.longest \in Nat
<1>1. deploy \in Deployment
  BY ConstantsAssumption
<1>2. deploy.rule \in [Keys -> Rule] /\ deploy.key \in [Requests -> Keys]
      /\ deploy.longest \in Nat
  BY <1>1 DEF Deployment
<1> QED BY <1>2 DEF Rule, Key

LEMMA InitTypeOK == Init => TypeOK
  BY DEF Init, TypeOK, NoCall, None, Call, Counter

LEMMA CounterTyped ==
  /\ None \in Counter
  /\ \A n, t, e \in Nat : [count |-> n, last |-> t, exp |-> e] \in Counter
  /\ \A c \in Counter, t \in Nat : [c EXCEPT !.count = @ + 1, !.last = t] \in Counter
<1>1. None \in Counter
  BY DEF Counter, None
<1>2. \A n, t, e \in Nat : [count |-> n, last |-> t, exp |-> e] \in Counter
  BY DEF Counter
<1>3. ASSUME NEW c \in Counter, NEW t \in Nat
      PROVE  [c EXCEPT !.count = @ + 1, !.last = t] \in Counter
  <2>1. c.count + 1 \in Nat
    BY DEF Counter
  <2> QED BY <2>1 DEF Counter
<1> QED BY <1>1, <1>2, <1>3

\* Requests change the state of their call within its type.
LEMMA CallTyped ==
  ASSUME TypeOK, NEW r \in Requests, NEW pc \in Steps \cup Ended
  PROVE  /\ Goto(r, pc) => call' \in [Requests -> Call]
         /\ \A t \in Nat : [call[r] EXCEPT !.at = pc, !.clock = t] \in Call
         /\ \A d \in Counter : [call[r] EXCEPT !.at = pc, !.data = d] \in Call
         /\ \A t \in Nat, d \in Counter : [at |-> pc, clock |-> t, data |-> d] \in Call
         /\ \A x \in Call : Become(r, x) => call' \in [Requests -> Call]
<1>0. call \in [Requests -> Call] /\ call[r] \in Call
  BY DEF TypeOK
<1>p. pc \in {"idle"} \cup Steps \cup Ended
  OBVIOUS
<1>1. [call[r] EXCEPT !.at = pc] \in Call
  BY <1>0, <1>p DEF Call
<1>2. \A t \in Nat : [call[r] EXCEPT !.at = pc, !.clock = t] \in Call
  BY <1>0, <1>p DEF Call
<1>3. \A d \in Counter : [call[r] EXCEPT !.at = pc, !.data = d] \in Call
  BY <1>0, <1>p DEF Call
<1>4. \A t \in Nat, d \in Counter : [at |-> pc, clock |-> t, data |-> d] \in Call
  BY <1>p DEF Call
<1>5. \A x \in Call : Become(r, x) => call' \in [Requests -> Call]
  BY <1>0 DEF Become
<1>6. Goto(r, pc) => call' \in [Requests -> Call]
  BY <1>1, <1>5 DEF Goto
<1> QED BY <1>2, <1>3, <1>4, <1>5, <1>6

LEMMA StepTypeOK == TypeOK /\ [Next]_vars => TypeOK'
<1> SUFFICES ASSUME TypeOK, [Next]_vars PROVE TypeOK' OBVIOUS
<1>0. /\ deploy \in Deployments /\ store \in [Keys -> Counter] /\ sweeps \subseteq Int
      /\ call \in [Requests -> Call] /\ now \in Nat
  BY DEF TypeOK
<1>c. \A r \in Requests : /\ call[r] \in Call /\ call[r].clock \in Nat
                          /\ call[r].data \in Counter /\ Key(r) \in Keys
                          /\ Window(r) \in Nat \ {0} /\ MaxOf(r) \in Nat \ {0}
                          /\ deploy.longest \in Nat
  BY <1>0, DeployTyped DEF Call, Window, MaxOf
<1>s. \A k \in Keys : /\ store[k] \in Counter /\ store[k].count \in Nat
                      /\ store[k].last \in Nat /\ store[k].exp \in Nat
  BY <1>0 DEF Counter
<1>u. \A k \in Keys : /\ Current(k) \in Counter /\ Current(k).count \in Nat
                      /\ Current(k).exp \in Nat
  BY <1>s, CounterTyped DEF Current, Counter
<1>w. \A r \in Requests : \A x \in Counter : Put(r, x) => store' \in [Keys -> Counter]
  BY <1>0, <1>c DEF Put
<1>1. ASSUME NEW r \in Requests, Start(r) PROVE TypeOK'
  <2>1. FirstStep \in Steps \cup Ended
    <3>1. Storage \in {"database", "memory", "secondary", "legacy"}
      <4>1. deploy \in Deployment
        BY <1>0, ConstantsAssumption
      <4> QED BY <4>1 DEF Deployment, Storage
    <3> QED BY <3>1 DEF FirstStep, Steps
  <2>2. call' \in [Requests -> Call]
    BY <1>1, <2>1, CallTyped DEF Start
  <2> QED BY <1>1, <2>2, <1>0 DEF Start, TypeOK
<1>2. ASSUME NEW r \in Requests, Step(r) PROVE TypeOK'
  <2>p. \A pc \in {"decide", "create", "reset", "increment", "passed", "recheck", "failed",
                   "read", "verify", "blocked", "set"} : pc \in Steps \cup Ended
    BY DEF Steps, Ended
  <2>g. \A pc \in {"decide", "create", "reset", "increment", "passed", "recheck", "failed",
                   "read", "verify", "blocked", "set"} :
          Goto(r, pc) => call' \in [Requests -> Call]
    BY <2>p, CallTyped
  <2>1. CASE Read(r)
    BY <2>1, <1>0, <1>c, <1>s, <2>p, CallTyped DEF Read, TypeOK
  <2>2. CASE Decide(r)
    <3>1. \A pc \in Steps : [call[r] EXCEPT !.at = pc, !.clock = now] \in Call
      BY <1>0, CallTyped
    <3>2. PICK pc \in {"create", "reset", "increment"} :
            Become(r, [call[r] EXCEPT !.clock = now, !.at = pc])
      BY <2>2 DEF Decide
    <3>3. [call[r] EXCEPT !.clock = now, !.at = pc] = [call[r] EXCEPT !.at = pc, !.clock = now]
      BY <1>c DEF Call
    <3>4. pc \in Steps
      BY DEF Steps
    <3>5. call' \in [Requests -> Call]
      BY <3>1, <3>2, <3>3, <3>4, CallTyped
    <3> QED BY <2>2, <3>5, <1>0 DEF Decide, TypeOK
  <2>3. CASE Create(r)
    <3>1. store' \in [Keys -> Counter]
      BY <2>3, <1>0, <1>c, <1>w, CounterTyped DEF Create
    <3> QED BY <2>3, <3>1, <1>0, <2>g DEF Create, TypeOK
  <2>4. CASE Recheck(r)
    BY <2>4, <1>0, <2>g DEF Recheck, TypeOK
  <2>5. CASE Reset(r)
    <3>1. store' \in [Keys -> Counter]
      BY <2>5, <1>0, <1>c, <1>w, CounterTyped DEF Reset
    <3>c. call[r].clock - deploy.longest \in Int
      BY <1>c
    <3>2. sweeps' \subseteq Int
      BY <2>5, <3>c, <1>0 DEF Reset
    <3> QED BY <2>5, <3>1, <3>2, <1>0, <2>g DEF Reset, TypeOK
  <2>6. CASE Increment(r)
    <3>1. [store[Key(r)] EXCEPT !.count = @ + 1, !.last = call[r].clock] \in Counter
      BY <1>c, <1>s, CounterTyped
    <3>2. store' \in [Keys -> Counter]
      BY <2>6, <3>1, <1>0, <1>w DEF Increment
    <3> QED BY <2>6, <3>2, <1>0, <2>g DEF Increment, TypeOK
  <2>7. CASE Verify(r)
    BY <2>7, <1>0, <2>g DEF Verify, TypeOK
  <2>i. \A c \in Counter : Increased(r, c) \in Counter
    <3> TAKE c \in Counter
    <3>1. (IF c = None \/ Elapsed(r, now, c) THEN 1 ELSE c.count + 1) \in Nat
      BY DEF Counter
    <3>2. now + Window(r) \in Nat
      BY <1>0, <1>c
    <3> QED BY <1>0, <3>1, <3>2, CounterTyped DEF Increased
  <2>8. CASE Consume(r)
    <3>1. store' \in [Keys -> Counter]
      BY <2>8, <1>0, <1>c, <1>u, <1>w, <2>i DEF Consume
    <3>2. call' \in [Requests -> Call]
      BY <2>8, <1>0, <2>p, CallTyped DEF Consume
    <3> QED BY <2>8, <3>1, <3>2, <1>0 DEF Consume, TypeOK
  <2>9. CASE Count(r)
    <3>1. [count |-> Current(Key(r)).count + 1, last |-> now,
           exp |-> IF Current(Key(r)) = None THEN now + Window(r)
                                             ELSE Current(Key(r)).exp] \in Counter
      BY <1>0, <1>c, <1>u DEF Counter
    <3>2. store' \in [Keys -> Counter]
      BY <2>9, <3>1, <1>w DEF Count
    <3>3. call' \in [Requests -> Call]
      BY <2>9, <1>0, <2>p, CallTyped DEF Count
    <3> QED BY <2>9, <3>2, <3>3, <1>0 DEF Count, TypeOK
  <2>10. CASE Get(r)
    BY <2>10, <1>0, <1>c, <1>u, <2>p, <2>i, CallTyped DEF Get, TypeOK
  <2>11. CASE Set(r)
    <3>1. [call[r].data EXCEPT !.exp = now + Window(r)] \in Counter
      BY <1>0, <1>c DEF Counter
    <3>2. store' \in [Keys -> Counter]
      BY <2>11, <3>1, <1>w DEF Set
    <3> QED BY <2>11, <3>2, <1>0, <2>g DEF Set, TypeOK
  <2> QED BY <1>2, <2>1, <2>2, <2>3, <2>4, <2>5, <2>6, <2>7, <2>8, <2>9, <2>10, <2>11
          DEF Step, InDatabase
<1>3. ASSUME NEW r \in Requests, Fail(r) PROVE TypeOK'
  <2>1. "failed" \in Steps \cup Ended
    BY DEF Ended
  <2> QED BY <1>3, <2>1, <1>0, CallTyped DEF Fail, TypeOK
<1>4. ASSUME NEW cutoff \in sweeps, Sweep(cutoff) PROVE TypeOK'
  BY <1>4, <1>0, <1>s, CounterTyped DEF Sweep, TypeOK
<1>5. CASE Tick
  BY <1>5, <1>0 DEF Tick, TypeOK
<1>6. CASE Idle \/ UNCHANGED vars
  BY <1>6, <1>0 DEF Idle, vars, TypeOK
<1> QED BY <1>1, <1>2, <1>3, <1>4, <1>5, <1>6 DEF Next

\* The type invariant holds in every reachable state.
THEOREM TypeCorrect == Spec => []TypeOK
  BY InitTypeOK, StepTypeOK, PTL DEF Spec

-----------------------------------------------------------------------------
(* Retries *)

\* What a request of the database's consume read, while it acts on it.
ReadInv ==
  \A r \in Requests :
    /\ call[r].at \in {"create", "recheck"} => call[r].data = None
    /\ At(r, "reset") => call[r].data # None /\ Elapsed(r, call[r].clock, call[r].data)
    /\ call[r].at \in {"increment", "verify"} =>
         call[r].data # None /\ ~Elapsed(r, call[r].clock, call[r].data)

LEMMA InitReadInv == Init => ReadInv
  BY DEF Init, NoCall, ReadInv, At

LEMMA StepReadInv == TypeOK /\ ReadInv /\ [Next]_vars => ReadInv'
<1> SUFFICES ASSUME TypeOK, ReadInv, [Next]_vars PROVE ReadInv' OBVIOUS
<1>0. /\ call \in [Requests -> Call] /\ \A r \in Requests : call[r] \in Call
  BY DEF TypeOK
<1>d. deploy' = deploy
  BY DEF Next, Start, Step, InDatabase, Read, Decide, Create, Recheck, Reset, Increment, Verify,
         Consume, Count, Get, Set, Fail, Sweep, Tick, Idle, vars
<1>e. \A r, t, c : Elapsed(r, t, c)' <=> Elapsed(r, t, c)
  BY <1>d DEF Elapsed, Window, Key
\* A request that goes where nothing is asked of what it read.
<1>f. ASSUME NEW r \in Requests, NEW c \in Call, Become(r, c),
             c.at \notin {"create", "recheck", "reset", "increment", "verify"}
      PROVE  ReadInv'
  BY <1>0, <1>e, <1>f DEF Become, ReadInv, At
<1>g. ASSUME NEW r \in Requests, NEW pc \in {"idle"} \cup Steps \cup Ended, Goto(r, pc),
             pc \notin {"create", "recheck", "reset", "increment", "verify"}
      PROVE  ReadInv'
  BY <1>0, <1>f, <1>g DEF Goto, Call
<1>1. ASSUME NEW r \in Requests, Start(r) PROVE ReadInv'
  <2>1. call'[r].at = FirstStep /\ \A q \in Requests : q # r => call'[q] = call[q]
    BY <1>0, <1>1 DEF Start, Goto, Become, Call
  <2>2. deploy \in Deployment
    BY ConstantsAssumption DEF TypeOK
  <2>3. FirstStep \in {"read", "consume", "count", "get"}
    BY <2>2 DEF Deployment, FirstStep, Storage
  <2> QED BY <2>1, <2>3, <1>e DEF ReadInv, At
<1>2. ASSUME NEW r \in Requests, Step(r) PROVE ReadInv'
  <2>1. CASE Read(r)
    BY <2>1, <1>0, <1>e DEF Read, Become, ReadInv, At, Call
  <2>2. CASE Decide(r)
    <3>1. /\ call'[r].data = call[r].data /\ call'[r].clock = now
          /\ call'[r].at = IF call[r].data = None THEN "create"
                           ELSE IF Elapsed(r, now, call[r].data) THEN "reset" ELSE "increment"
          /\ \A q \in Requests : q # r => call'[q] = call[q]
      BY <2>2, <1>0 DEF Decide, Become, Call
    <3> QED BY <3>1, <1>e DEF ReadInv, At
  <2>3. CASE Create(r)
    <3>1. /\ call'[r].data = call[r].data /\ call'[r].at \in {"passed", "recheck"}
          /\ \A q \in Requests : q # r => call'[q] = call[q]
      BY <2>3, <1>0 DEF Create, Goto, Become, Call
    <3> QED BY <2>3, <3>1, <1>e DEF Create, ReadInv, At
  <2>4. CASE Recheck(r)
    BY <2>4, <1>g DEF Recheck, Steps, Ended
  <2>5. CASE Reset(r)
    BY <2>5, <1>g DEF Reset, Steps, Ended
  <2>6. CASE Increment(r)
    <3>1. /\ call'[r].data = call[r].data /\ call'[r].clock = call[r].clock
          /\ call'[r].at \in {"passed", "verify"}
          /\ \A q \in Requests : q # r => call'[q] = call[q]
      BY <2>6, <1>0 DEF Increment, Goto, Become, Call
    <3> QED BY <2>6, <3>1, <1>e DEF Increment, ReadInv, At
  <2>7. CASE Verify(r)
    BY <2>7, <1>g DEF Verify, Steps, Ended
  <2>o. \A c : Become(r, c) => call'[r] = c /\ \A q \in Requests : q # r => call'[q] = call[q]
    BY <1>0 DEF Become
  <2>8. CASE Consume(r) \/ Count(r)
    <3>1. PICK pc \in {"passed", "blocked"} :
            Become(r, [call[r] EXCEPT !.at = pc, !.clock = now])
      BY <2>8 DEF Consume, Count
    <3> DEFINE b == [call[r] EXCEPT !.at = pc, !.clock = now]
    <3>a. b.at = pc
      BY <1>0 DEF Call
    <3>b. Become(r, b)
      BY <3>1
    <3> HIDE DEF b
    <3>2. call'[r].at = pc /\ \A q \in Requests : q # r => call'[q] = call[q]
      BY <3>a, <3>b, <2>o
    <3> QED BY <3>2, <1>e DEF ReadInv, At
  <2>10. CASE Get(r)
    <3> DEFINE c == Current(Key(r))
               b == [at    |-> IF Blocks(r, c) THEN "blocked" ELSE "set",
                     clock |-> now, data |-> Increased(r, c)]
    <3>1. Become(r, b)
      BY <2>10 DEF Get
    <3>2. call'[r].at \in {"blocked", "set"} /\ \A q \in Requests : q # r => call'[q] = call[q]
      BY <3>1, <2>o
    <3> QED BY <3>2, <1>e DEF ReadInv, At
  <2>11. CASE Set(r)
    BY <2>11, <1>g DEF Set, Steps, Ended
  <2> QED BY <1>2, <2>1, <2>2, <2>3, <2>4, <2>5, <2>6, <2>7, <2>8, <2>10, <2>11
          DEF Step, InDatabase
<1>3. ASSUME NEW r \in Requests, Fail(r) PROVE ReadInv'
  BY <1>3, <1>g DEF Fail, Ended
<1>4. CASE UNCHANGED call
  BY <1>4, <1>e DEF ReadInv, At
<1> QED BY <1>1, <1>2, <1>3, <1>4 DEF Next, Sweep, Tick, Idle, vars

LEMMA RetryCause ==
  ASSUME TypeOK, ReadInv, [Next]_vars
  PROVE  [\A r \in Requests :
            ~At(r, "read") /\ ~At(r, "idle") /\ At(r, "read")' =>
              store[Key(r)] # call[r].data]_vars
<1> SUFFICES ASSUME NEW r \in Requests, ~At(r, "read"), ~At(r, "idle"), At(r, "read")'
             PROVE  store[Key(r)] # call[r].data
  OBVIOUS
<1>0. call \in [Requests -> Call] /\ \A q \in Requests : call[q] \in Call
  BY DEF TypeOK
<1>n. call'[r] # call[r]
  BY DEF At
<1>1. \A q \in Requests : \A c : q # r /\ Become(q, c) => call'[r] = call[r]
  BY <1>0 DEF Become
<1>2. \A q \in Requests : Start(q) \/ Step(q) \/ Fail(q) => q = r
  <2>1. \A q \in Requests : Start(q) \/ Step(q) \/ Fail(q) => \E c : Become(q, c)
    BY DEF Start, Step, InDatabase, Read, Decide, Create, Recheck, Reset, Increment, Verify,
           Consume, Count, Get, Set, Fail, Goto
  <2> QED BY <2>1, <1>1, <1>n
<1>3. Start(r) \/ Step(r) \/ Fail(r)
  BY <1>n, <1>2 DEF Next, Sweep, Tick, Idle, vars
<1>4. ~Start(r) /\ ~Fail(r)
  BY <1>0 DEF Start, Fail, At, Goto, Become, Call
<1>5. ~Read(r) /\ ~Decide(r) /\ ~Create(r) /\ ~Increment(r)
  BY <1>0, ZenonT(40) DEF Read, Decide, Create, Increment, At, Goto, Become, Call
<1>6. ~Consume(r) /\ ~Count(r) /\ ~Get(r) /\ ~Set(r)
  <2>1. \A c : Become(r, c) => call'[r] = c
    BY <1>0 DEF Become
  <2>2. Consume(r) \/ Count(r) => \E pc \in {"passed", "blocked"} :
                                    Become(r, [call[r] EXCEPT !.at = pc, !.clock = now])
    BY DEF Consume, Count
  <2>4. ~Consume(r) /\ ~Count(r)
    BY <1>0, <2>1, <2>2 DEF At, Call
  <2>5. ~Get(r)
    <3> SUFFICES ASSUME Get(r) PROVE FALSE OBVIOUS
    <3> DEFINE c == Current(Key(r))
               b == [at    |-> IF Blocks(r, c) THEN "blocked" ELSE "set",
                     clock |-> now, data |-> Increased(r, c)]
    <3>1. Become(r, b)
      BY DEF Get
    <3>2. call'[r].at = IF Blocks(r, c) THEN "blocked" ELSE "set"
      BY <3>1, <2>1
    <3> QED BY <3>2 DEF At
  <2>6. ~Set(r)
    BY <1>0 DEF Set, At, Goto, Become, Call
  <2> QED BY <2>4, <2>5, <2>6
<1>7. CASE Recheck(r)
  <2>1. store[Key(r)] # None
    BY <1>7, <1>0 DEF Recheck, At, Goto, Become, Call
  <2> QED BY <1>7, <2>1 DEF Recheck, ReadInv, At
<1>t. DEFINE x == store[Key(r)]
<1>8. CASE Reset(r)
  <2>1. ~(x # None /\ x.last <= call[r].data.last)
    BY <1>8, <1>0 DEF Reset, At, Goto, Become, Call
  <2>2. call[r].data # None /\ call[r].data.last \in Nat
    BY <1>8, <1>0 DEF Reset, ReadInv, At, Call, Counter
  <2> QED BY <2>1, <2>2
<1>9. CASE Verify(r)
  <2>1. x = None \/ Elapsed(r, call[r].clock, x)
    BY <1>9, <1>0 DEF Verify, At, Goto, Become, Call
  <2> QED BY <1>9, <2>1 DEF Verify, ReadInv, At
<1> QED BY <1>3, <1>4, <1>5, <1>6, <1>7, <1>8, <1>9 DEF Step, InDatabase

\* consume starts over only after the counter has changed, in every
\* configuration: retries never feed on themselves.
THEOREM RetriesEnd == Spec => RetriesForCause
<1>1. Init => TypeOK /\ ReadInv
  BY InitTypeOK, InitReadInv
<1>2. TypeOK /\ ReadInv /\ [Next]_vars => (TypeOK /\ ReadInv)'
  BY StepTypeOK, StepReadInv
<1> QED BY <1>1, <1>2, RetryCause, PTL DEF Spec, RetriesForCause

-----------------------------------------------------------------------------
(* The limit, in the database *)

W(k) == deploy.rule[k].window
Clock(r) == call[r].clock

\* The requests of a key that passed did so since its window was opened, at o,
\* and are counted by the row, or more than a window before.
OpenedAt(k, o) ==
  /\ \A p \in Passed(k) : Clock(p) >= o \/ Clock(p) + W(k) < o
  /\ Cardinality({p \in Passed(k) : Clock(p) >= o}) <= store[k].count

KeyInv(k) ==
  /\ store[k] # None => /\ store[k].count <= deploy.rule[k].max
                        /\ \A p \in Passed(k) : Clock(p) <= store[k].last
  /\ store[k] = None => \A p \in Passed(k) : Clock(p) + W(k) < now
  /\ \A p \in Passed(k) : Clock(p) <= now
  /\ \E o \in 0..now : OpenedAt(k, o)
  /\ \A t \in Int : Cardinality(PassedFrom(k, t, W(k))) <= deploy.rule[k].max

LEMMA PassedFinite ==
  \A k : \A S \in SUBSET Passed(k) : IsFiniteSet(S) /\ Cardinality(S) \in Nat
<1>1. \A k : \A S \in SUBSET Passed(k) : S \subseteq Requests
  BY DEF Passed
<1> QED BY <1>1, ConstantsAssumption, FS_Subset, FS_CardinalityType

\* A step that leaves a key's row and the requests it let pass as they are.
LEMMA QuietKey ==
  ASSUME TypeOK, NEW k \in Keys, KeyInv(k), deploy' = deploy, store'[k] = store[k],
         now' \in Nat, now' >= now, Passed(k)' = Passed(k),
         \A p \in Passed(k) : call'[p].clock = call[p].clock
  PROVE  KeyInv(k)'
<1>0. /\ \A p \in Passed(k) : Clock(p) \in Nat /\ Clock(p)' = Clock(p)
      /\ now \in Nat /\ W(k) \in Nat /\ W(k)' = W(k)
  BY DeployTyped DEF TypeOK, Call, Passed, Clock, W
<1>1. \A o \in Int : {p \in Passed(k) : Clock(p) >= o}' = {p \in Passed(k) : Clock(p) >= o}
  BY <1>0
<1>2. \A t \in Int : PassedFrom(k, t, W(k))' = PassedFrom(k, t, W(k))
  BY <1>0 DEF PassedFrom, Clock
<1>3. PICK o \in 0..now : OpenedAt(k, o)
  BY DEF KeyInv
<1>4. OpenedAt(k, o)' /\ o \in 0..now'
  <2>1. \A p \in Passed(k)' : Clock(p)' >= o \/ Clock(p)' + W(k)' < o
    BY <1>0, <1>3 DEF OpenedAt
  <2>2. o \in Int
    BY <1>0
  <2>3. Cardinality({p \in Passed(k) : Clock(p) >= o}') <= store'[k].count
    BY <1>1, <1>3, <2>2 DEF OpenedAt
  <2> QED BY <1>0, <2>1, <2>3 DEF OpenedAt
<1>5. \A t \in Int : Cardinality(PassedFrom(k, t, W(k)))' <= deploy'.rule[k].max
  BY <1>2 DEF KeyInv
<1>6. store'[k] = None => \A p \in Passed(k)' : Clock(p)' + W(k)' < now'
  BY <1>0 DEF KeyInv
<1>7. \A p \in Passed(k)' : Clock(p)' <= now'
  BY <1>0 DEF KeyInv
<1>8. store'[k] # None => /\ store'[k].count <= deploy'.rule[k].max
                          /\ \A p \in Passed(k)' : Clock(p)' <= store'[k].last
  BY <1>0 DEF KeyInv
<1> QED BY <1>4, <1>5, <1>6, <1>7, <1>8 DEF KeyInv, None

\* A request passes, and is the first of a new window or one more of the open one.
LEMMA PassKey ==
  ASSUME TypeOK, NEW r \in Requests, ~At(r, "passed"), At(r, "passed")', call'[r].clock = now,
         \A q \in Requests : q # r => call'[q] = call[q],
         NEW k \in Keys, k = Key(r), KeyInv(k), deploy' = deploy, now' = now,
         \/ /\ \A p \in Passed(k) : Clock(p) + W(k) < now
            /\ store'[k].count = 1
         \/ /\ store[k] # None /\ store[k].count < deploy.rule[k].max
            /\ store'[k].count = store[k].count + 1,
         store'[k].last = now
  PROVE  KeyInv(k)'
<1> DEFINE Since(o) == {p \in Passed(k) : Clock(p) >= o}
<1>0. /\ \A p \in Passed(k) : Clock(p) \in Nat /\ p \in Requests /\ Clock(p)' = Clock(p)
      /\ now \in Nat /\ W(k) \in Nat \ {0} /\ W(k)' = W(k)
      /\ deploy.rule[k].max \in Nat \ {0}
      /\ store[k].count \in Nat
  <2>1. \A p \in Passed(k) : Clock(p) \in Nat /\ p \in Requests /\ p # r
    BY DEF TypeOK, Call, Passed, Clock
  <2>2. store[k].count \in Nat
    BY DEF TypeOK, Counter
  <2> QED BY <2>1, <2>2, DeployTyped DEF TypeOK, W, Clock
<1>1. /\ Passed(k)' = Passed(k) \cup {r} /\ r \notin Passed(k) /\ Clock(r)' = now
  BY DEF Passed, At, Key, Clock
<1>2. PICK o \in 0..now : OpenedAt(k, o)
  BY DEF KeyInv
<1>3. \A S \in SUBSET Passed(k) : /\ Cardinality(S \cup {r}) <= Cardinality(S) + 1
                                  /\ IsFiniteSet(S \cup {r})
                                  /\ Cardinality(S) \in Nat
  <2> TAKE S \in SUBSET Passed(k)
  <2>1. IsFiniteSet(S) /\ Cardinality(S) \in Nat
    BY PassedFinite
  <2>2. /\ IsFiniteSet(S \cup {r})
        /\ Cardinality(S \cup {r}) = IF r \in S THEN Cardinality(S) ELSE Cardinality(S) + 1
    BY <2>1, FS_AddElement
  <2> QED BY <2>1, <2>2
\* A span that the new pass lies in reaches back to passes of the open window only.
<1>4. \A t \in Int : \/ PassedFrom(k, t, W(k))' = PassedFrom(k, t, W(k))
                     \/ /\ t <= now /\ now < t + W(k)
                        /\ PassedFrom(k, t, W(k))' = PassedFrom(k, t, W(k)) \cup {r}
  <2> TAKE t \in Int
  <2>1. PassedFrom(k, t, W(k))' =
          {p \in Passed(k) \cup {r} : Clock(p)' \in t..(t + W(k) - 1)}
    BY <1>0, <1>1 DEF PassedFrom, Clock
  <2>2. PassedFrom(k, t, W(k)) = {p \in Passed(k) : Clock(p) \in t..(t + W(k) - 1)}
    BY DEF PassedFrom, Clock
  <2>3. CASE now \in t..(t + W(k) - 1)
    BY <2>1, <2>2, <2>3, <1>0, <1>1
  <2>4. CASE now \notin t..(t + W(k) - 1)
    BY <2>1, <2>2, <2>4, <1>0, <1>1
  <2> QED BY <2>3, <2>4
<1>5. \A n \in Nat : store'[k].count = n /\ n \in 1..deploy.rule[k].max =>
        KeyInv(k)' \/ ~((\E u \in 0..now : OpenedAt(k, u)')
                        /\ \A t \in Int : Cardinality(PassedFrom(k, t, W(k)))'
                                            <= deploy.rule[k].max)
  BY <1>0, <1>1 DEF KeyInv, None
<1>6. CASE /\ \A p \in Passed(k) : Clock(p) + W(k) < now
           /\ store'[k].count = 1
  <2>1. {p \in Passed(k)' : Clock(p)' >= now} = {r}
    BY <1>6, <1>0, <1>1
  <2>2. OpenedAt(k, now)'
    <3>1. \A p \in Passed(k)' : Clock(p)' >= now \/ Clock(p)' + W(k)' < now
      BY <1>6, <1>0, <1>1
    <3>2. Cardinality({p \in Passed(k)' : Clock(p)' >= now}) = 1
      BY <2>1, FS_Singleton
    <3> QED BY <1>6, <3>1, <3>2 DEF OpenedAt
  <2>3. ASSUME NEW t \in Int
        PROVE  Cardinality(PassedFrom(k, t, W(k)))' <= deploy.rule[k].max
    <3>1. CASE PassedFrom(k, t, W(k))' = PassedFrom(k, t, W(k))
      BY <3>1 DEF KeyInv
    <3>2. CASE /\ t <= now /\ now < t + W(k)
               /\ PassedFrom(k, t, W(k))' = PassedFrom(k, t, W(k)) \cup {r}
      <4>1. PassedFrom(k, t, W(k)) = {}
        BY <3>2, <1>6, <1>0 DEF PassedFrom, Clock
      <4>2. PassedFrom(k, t, W(k))' = {r}
        BY <3>2, <4>1
      <4>3. Cardinality({r}) = 1
        BY FS_Singleton
      <4> QED BY <4>2, <4>3, <1>0
    <3> QED BY <1>4, <3>1, <3>2
  <2>4. now \in 0..now /\ 1 \in 1..deploy.rule[k].max
    BY <1>0
  <2> QED BY <1>5, <1>6, <2>2, <2>3, <2>4
<1>7. CASE /\ store[k] # None /\ store[k].count < deploy.rule[k].max
           /\ store'[k].count = store[k].count + 1
  <2>1. {p \in Passed(k)' : Clock(p)' >= o} = Since(o) \cup {r}
    BY <1>0, <1>1
  <2>2. Cardinality(Since(o) \cup {r}) <= store[k].count + 1
    <3>1. Cardinality(Since(o)) <= store[k].count
      BY <1>2 DEF OpenedAt
    <3>2. Since(o) \in SUBSET Passed(k)
      OBVIOUS
    <3>3. /\ Cardinality(Since(o) \cup {r}) <= Cardinality(Since(o)) + 1
          /\ Cardinality(Since(o)) \in Nat /\ Cardinality(Since(o) \cup {r}) \in Nat
      BY <3>2, <1>3, FS_CardinalityType
    <3> HIDE DEF Since
    <3> QED BY <3>1, <3>3, <1>0
  <2>3. OpenedAt(k, o)'
    <3>1. \A p \in Passed(k)' : Clock(p)' >= o \/ Clock(p)' + W(k)' < o
      BY <1>0, <1>1, <1>2 DEF OpenedAt
    <3> QED BY <1>7, <3>1, <2>1, <2>2 DEF OpenedAt
  <2>4. ASSUME NEW t \in Int
        PROVE  Cardinality(PassedFrom(k, t, W(k)))' <= deploy.rule[k].max
    <3>1. CASE PassedFrom(k, t, W(k))' = PassedFrom(k, t, W(k))
      BY <3>1 DEF KeyInv
    <3>2. CASE /\ t <= now /\ now < t + W(k)
               /\ PassedFrom(k, t, W(k))' = PassedFrom(k, t, W(k)) \cup {r}
      <4>1. \A p \in PassedFrom(k, t, W(k)) : p \in Passed(k) /\ Clock(p) >= t
        BY <1>0 DEF PassedFrom, Clock
      <4>2. PassedFrom(k, t, W(k)) \subseteq Since(o)
        BY <3>2, <4>1, <1>0, <1>2 DEF OpenedAt
      <4>3. Cardinality(PassedFrom(k, t, W(k)) \cup {r}) <= Cardinality(Since(o) \cup {r})
        BY <4>2, <1>3, FS_Subset
      <4>4. PassedFrom(k, t, W(k)) \in SUBSET Passed(k)
        BY <4>1
      <4>5. /\ Cardinality(PassedFrom(k, t, W(k)) \cup {r}) \in Nat
            /\ Cardinality(Since(o) \cup {r}) \in Nat
        BY <4>4, <1>3, FS_CardinalityType
      <4> QED BY <3>2, <4>3, <4>5, <2>2, <1>0, <1>7
    <3> QED BY <1>4, <3>1, <3>2
  <2>5. store[k].count + 1 \in 1..deploy.rule[k].max
    BY <1>0, <1>7
  <2> QED BY <1>0, <1>5, <1>7, <2>3, <2>4, <2>5
<1> QED BY <1>6, <1>7

\* The database, whose calls take no time, swept after the longest window.
Exact == /\ Storage = "database" /\ deploy.maxDelay = 0
         /\ \A k \in Keys : W(k) <= deploy.longest

DbPlaces == {"idle", "read", "decide", "create", "recheck", "reset", "increment", "verify"}
              \cup Ended

LimitInv ==
  /\ \A r \in Requests : /\ call[r].at \in DbPlaces
                         /\ call[r].at \in {"create", "reset", "increment"} => Clock(r) = now
  /\ \A c \in sweeps : c + deploy.longest <= now
  /\ \A k \in Keys : KeyInv(k)

LEMMA InitLimitInv == Init /\ Exact => LimitInv
<1> SUFFICES ASSUME Init, Exact PROVE LimitInv OBVIOUS
<1>1. \A k : Passed(k) = {}
  BY DEF Init, NoCall, Passed, At
<1>2. TypeOK
  BY InitTypeOK
<1>3. \A k \in Keys : KeyInv(k)
  <2> TAKE k \in Keys
  <2>1. \A t \in Int : PassedFrom(k, t, W(k)) = {}
    BY <1>1 DEF PassedFrom
  <2>2. {p \in Passed(k) : Clock(p) >= 0} = {}
    BY <1>1
  <2>3. OpenedAt(k, 0)
    BY <1>1, <2>2, FS_EmptySet DEF OpenedAt, Init, None
  <2>4. deploy.rule[k].max \in Nat \ {0}
    BY <1>2, DeployTyped DEF TypeOK
  <2>5. 0 \in 0..now
    BY DEF Init
  <2> QED BY <1>1, <2>1, <2>3, <2>4, <2>5, FS_EmptySet DEF KeyInv, Init
<1> QED BY <1>3 DEF Init, NoCall, LimitInv, DbPlaces

\* A step of a request that does not pass.
LEMMA NotPassed ==
  ASSUME TypeOK, LimitInv, NEW r \in Requests, ~At(r, "passed"), ~At(r, "passed")',
         \A q \in Requests : q # r => call'[q] = call[q],
         call'[r].at \in DbPlaces,
         call'[r].at \in {"create", "reset", "increment"} => call'[r].clock = now,
         UNCHANGED <<deploy, store, sweeps, now>>
  PROVE  LimitInv'
<1>1. \A k \in Keys : KeyInv(k)'
  <2> TAKE k \in Keys
  <2>1. Passed(k)' = Passed(k)
    BY DEF Passed, At, Key
  <2>2. \A p \in Passed(k) : call'[p].clock = call[p].clock
    BY DEF Passed, At
  <2> QED BY <2>1, <2>2, QuietKey DEF LimitInv, TypeOK
<1> QED BY <1>1 DEF LimitInv, Clock

\* A step with which a request passes: PassKey for its key, the others are quiet.
LEMMA PassStep ==
  ASSUME TypeOK, LimitInv, NEW r \in Requests, ~At(r, "passed"), At(r, "passed")',
         \A q \in Requests : q # r => call'[q] = call[q],
         call'[r].clock = now,
         NEW n \in Nat, Put(r, [count |-> n, last |-> now, exp |-> store'[Key(r)].exp]),
         \/ (\A p \in Passed(Key(r)) : Clock(p) + W(Key(r)) < now) /\ n = 1
         \/ /\ store[Key(r)] # None /\ store[Key(r)].count < deploy.rule[Key(r)].max
            /\ n = store[Key(r)].count + 1,
         \A c \in sweeps' : c + deploy.longest <= now,
         UNCHANGED <<deploy, now>>
  PROVE  LimitInv'
<1>0. Key(r) \in Keys /\ store \in [Keys -> Counter]
  BY DeployTyped DEF TypeOK
<1>k. PICK own \in Keys : own = Key(r)
  BY <1>0
<1>1. /\ store'[own].count = n /\ store'[own].last = now
      /\ \A k \in Keys : k # own => store'[k] = store[k]
  BY <1>0, <1>k DEF Put
<1>2. KeyInv(own)'
  <2>1. \/ (\A p \in Passed(own) : Clock(p) + W(own) < now) /\ store'[own].count = 1
        \/ /\ store[own] # None /\ store[own].count < deploy.rule[own].max
           /\ store'[own].count = store[own].count + 1
    BY <1>k, <1>1
  <2>2. KeyInv(own) /\ deploy' = deploy /\ now' = now
    BY DEF LimitInv
  <2> QED BY <1>k, <1>1, <2>1, <2>2, PassKey
<1>3. ASSUME NEW k \in Keys, k # own PROVE KeyInv(k)'
  <2>1. Passed(k)' = Passed(k)
    BY <1>3, <1>k DEF Passed, At, Key
  <2>2. \A p \in Passed(k) : call'[p].clock = call[p].clock
    BY DEF Passed, At
  <2> QED BY <2>1, <2>2, <1>1, <1>3, QuietKey DEF LimitInv, TypeOK
<1>4. \A k \in Keys : KeyInv(k)'
  BY <1>2, <1>3
<1>5. "passed" \in DbPlaces /\ "passed" \notin {"create", "reset", "increment"}
  BY DEF DbPlaces, Ended
<1> QED BY <1>4, <1>5 DEF LimitInv, Clock, At

LEMMA SweepLimitInv ==
  ASSUME TypeOK, LimitInv, Exact, NEW cutoff \in sweeps, Sweep(cutoff)
  PROVE  LimitInv'
<1>0. /\ UNCHANGED <<deploy, call, now>> /\ now \in Nat /\ sweeps' \subseteq sweeps
      /\ cutoff \in Int /\ deploy.longest \in Nat
      /\ \A k \in Keys : store[k].last \in Nat
  BY DeployTyped DEF Sweep, TypeOK, Counter
<1>1. ASSUME NEW k \in Keys PROVE KeyInv(k)'
  <2>0. /\ Passed(k)' = Passed(k) /\ W(k)' = W(k) /\ W(k) \in Nat
        /\ \A p \in Passed(k) : Clock(p)' = Clock(p) /\ Clock(p) \in Nat
    BY <1>0, DeployTyped DEF Passed, At, Key, W, Clock, TypeOK, Call
  <2>1. CASE store'[k] = store[k]
    <3>1. \A p \in Passed(k) : call'[p].clock = call[p].clock
      BY <1>0
    <3>2. now' \in Nat /\ now' >= now /\ deploy' = deploy
      BY <1>0
    <3> QED BY <2>0, <2>1, <3>1, <3>2, QuietKey DEF LimitInv
  <2>2. CASE store'[k] # store[k]
    <3>1. store[k].last < cutoff /\ store'[k] = None /\ store[k] # None
      BY <2>2 DEF Sweep
    <3>2. cutoff + W(k) <= now
      BY <1>0, <2>0 DEF LimitInv, Exact
    <3>3. \A p \in Passed(k) : Clock(p) + W(k) < now
      BY <3>1, <3>2, <1>0, <2>0 DEF LimitInv, KeyInv
    <3>4. {p \in Passed(k) : Clock(p) >= now}' = {}
      BY <3>3, <1>0, <2>0
    <3>5. OpenedAt(k, now)'
      <4>1. \A p \in Passed(k)' : Clock(p)' >= now \/ Clock(p)' + W(k)' < now
        BY <3>3, <2>0
      <4>2. Cardinality({p \in Passed(k)' : Clock(p)' >= now}) = 0
        BY <3>4, <1>0, FS_EmptySet
      <4> QED BY <4>1, <4>2, <3>1, <1>0 DEF OpenedAt, None
    <3>6. \A t \in Int : PassedFrom(k, t, W(k))' = PassedFrom(k, t, W(k))
      BY <2>0, <1>0 DEF PassedFrom, Clock
    <3>7. \A t \in Int : Cardinality(PassedFrom(k, t, W(k)))' <= deploy'.rule[k].max
      BY <3>6, <1>0 DEF LimitInv, KeyInv
    <3>8. \E o \in 0..now' : OpenedAt(k, o)'
      BY <3>5, <1>0
    <3> QED BY <3>1, <3>3, <3>7, <3>8, <2>0, <1>0 DEF KeyInv, LimitInv
  <2> QED BY <2>1, <2>2
<1> QED BY <1>0, <1>1 DEF LimitInv, Clock

LEMMA StepLimitInv ==
  ASSUME TypeOK, ReadInv, LimitInv, Exact, [Next]_vars
  PROVE  LimitInv'
<1>0. /\ call \in [Requests -> Call] /\ store \in [Keys -> Counter] /\ now \in Nat
      /\ \A r \in Requests : /\ call[r] \in Call /\ Key(r) \in Keys /\ Clock(r) \in Nat
                             /\ call[r].at \in DbPlaces
                             /\ Window(r) = W(Key(r)) /\ MaxOf(r) = deploy.rule[Key(r)].max
      /\ \A k \in Keys : W(k) \in Nat
  BY DeployTyped DEF TypeOK, Call, Clock, LimitInv, Window, MaxOf, W
<1>d. deploy.longest \in Nat
  BY DeployTyped DEF TypeOK
<1>g. \A r \in Requests : \A pc : Goto(r, pc) =>
        /\ call'[r].at = pc /\ call'[r].clock = call[r].clock
        /\ \A q \in Requests : q # r => call'[q] = call[q]
  BY <1>0 DEF Goto, Become, Call
\* A request that only goes somewhere else.
<1>n. ASSUME NEW r \in Requests, NEW pc \in {"read", "recheck", "verify", "blocked", "failed"},
             Goto(r, pc), ~At(r, "passed"), UNCHANGED <<deploy, store, sweeps, now>>
      PROVE  LimitInv'
  <2>1. pc \in DbPlaces /\ pc \notin {"create", "reset", "increment", "passed"}
    BY DEF DbPlaces, Ended
  <2> QED BY <1>n, <1>g, <2>1, NotPassed DEF At
<1>1. ASSUME NEW r \in Requests, Start(r) PROVE LimitInv'
  <2>1. Goto(r, "read") /\ ~At(r, "passed")
    BY <1>1 DEF Start, FirstStep, Exact, At
  <2> QED BY <1>1, <1>n, <2>1 DEF Start
<1>2. ASSUME NEW r \in Requests, Step(r) PROVE LimitInv'
  <2>0. ~Consume(r) /\ ~Count(r) /\ ~Get(r) /\ ~Set(r)
    BY <1>0 DEF Consume, Count, Get, Set, At, DbPlaces, Ended
  <2>1. CASE Read(r)
    <3>1. /\ call'[r].at = "decide" /\ ~At(r, "passed") /\ ~At(r, "passed")'
          /\ \A q \in Requests : q # r => call'[q] = call[q]
      BY <2>1, <1>0 DEF Read, Become, Call, At
    <3> QED BY <2>1, <3>1, NotPassed DEF Read, DbPlaces
  <2>2. CASE Decide(r)
    <3>1. /\ call'[r].at \in {"create", "reset", "increment"} /\ call'[r].clock = now
          /\ ~At(r, "passed") /\ ~At(r, "passed")'
          /\ \A q \in Requests : q # r => call'[q] = call[q]
      BY <2>2, <1>0 DEF Decide, Become, Call, At
    <3>2. call'[r].at \in DbPlaces
      BY <3>1 DEF DbPlaces
    <3> QED BY <2>2, <3>1, <3>2, NotPassed DEF Decide
  <2>3. CASE Create(r)
    <3>1. Clock(r) = now /\ ~At(r, "passed") /\ UNCHANGED <<deploy, sweeps, now>>
      BY <2>3 DEF Create, At, LimitInv
    <3>2. CASE Goto(r, "recheck") /\ UNCHANGED store
      BY <3>1, <3>2, <1>n
    <3>3. CASE /\ store[Key(r)] = None
               /\ Put(r, [count |-> 1, last |-> call[r].clock, exp |-> 0])
               /\ Goto(r, "passed")
      <4>1. Put(r, [count |-> 1, last |-> now, exp |-> store'[Key(r)].exp])
        BY <3>1, <3>3, <1>0 DEF Put, Clock
      <4>2. \A p \in Passed(Key(r)) : Clock(p) + W(Key(r)) < now
        BY <3>3, <1>0 DEF LimitInv, KeyInv
      <4>3. \A c \in sweeps' : c + deploy.longest <= now
        BY <3>1 DEF LimitInv
      <4>4. At(r, "passed")' /\ call'[r].clock = now
            /\ \A q \in Requests : q # r => call'[q] = call[q]
        BY <3>1, <3>3, <1>g DEF At, Clock
      <4> QED BY <3>1, <4>1, <4>2, <4>3, <4>4, PassStep
    <3> QED BY <2>3, <3>2, <3>3 DEF Create
  <2>4. CASE Recheck(r)
    <3>1. ~At(r, "passed")
      BY <2>4 DEF Recheck, At
    <3> QED BY <2>4, <3>1, <1>n DEF Recheck
  <2>5. CASE Reset(r)
    <3>1. Clock(r) = now /\ ~At(r, "passed") /\ UNCHANGED <<deploy, now>>
      BY <2>5 DEF Reset, At, LimitInv
    <3>2. CASE Goto(r, "read") /\ UNCHANGED <<store, sweeps>>
      BY <3>1, <3>2, <1>n
    <3>3. CASE /\ store[Key(r)] # None /\ store[Key(r)].last <= call[r].data.last
               /\ Put(r, [count |-> 1, last |-> call[r].clock, exp |-> 0])
               /\ Goto(r, "passed")
               /\ sweeps' = sweeps \cup {call[r].clock - deploy.longest}
      <4>1. Put(r, [count |-> 1, last |-> now, exp |-> store'[Key(r)].exp])
        BY <3>1, <3>3, <1>0 DEF Put, Clock
      <4>2. \A p \in Passed(Key(r)) : Clock(p) + W(Key(r)) < now
        <5>1. now - call[r].data.last > W(Key(r)) /\ call[r].data.last \in Nat
          BY <2>5, <3>1, <1>0 DEF Reset, ReadInv, Elapsed, Clock, At, Call, Counter
        <5>2. /\ store[Key(r)].last \in Nat
              /\ \A p \in Passed(Key(r)) : Clock(p) \in Nat /\ Clock(p) <= store[Key(r)].last
          BY <3>3, <1>0 DEF LimitInv, KeyInv, Counter, Passed
        <5>3. store[Key(r)].last <= call[r].data.last /\ W(Key(r)) \in Nat
          BY <3>3, <1>0
        <5> QED BY <5>1, <5>2, <5>3, <1>0
      <4>3. \A c \in sweeps' : c + deploy.longest <= now
        <5>1. \A c \in sweeps : c + deploy.longest <= now
          BY DEF LimitInv
        <5>2. sweeps' = sweeps \cup {now - deploy.longest}
          BY <3>1, <3>3 DEF Clock
        <5> QED BY <5>1, <5>2, <1>0, <1>d
      <4>4. At(r, "passed")' /\ call'[r].clock = now
            /\ \A q \in Requests : q # r => call'[q] = call[q]
        BY <3>1, <3>3, <1>g DEF At, Clock
      <4> QED BY <3>1, <4>1, <4>2, <4>3, <4>4, PassStep
    <3> QED BY <2>5, <3>2, <3>3 DEF Reset
  <2>6. CASE Increment(r)
    <3>1. Clock(r) = now /\ ~At(r, "passed") /\ UNCHANGED <<deploy, sweeps, now>>
      BY <2>6 DEF Increment, At, LimitInv
    <3>2. CASE Goto(r, "verify") /\ UNCHANGED store
      BY <3>1, <3>2, <1>n
    <3>3. CASE /\ store[Key(r)] # None /\ store[Key(r)].count < MaxOf(r)
               /\ Put(r, [store[Key(r)] EXCEPT !.count = @ + 1, !.last = call[r].clock])
               /\ Goto(r, "passed")
      <4> DEFINE n == store[Key(r)].count + 1
      <4>0. n \in Nat /\ store[Key(r)] \in Counter
        BY <1>0 DEF Counter
      <4>1. Put(r, [count |-> n, last |-> now, exp |-> store'[Key(r)].exp])
        <5>1. [store[Key(r)] EXCEPT !.count = @ + 1, !.last = call[r].clock]
                = [count |-> n, last |-> now, exp |-> store[Key(r)].exp]
          <6> DEFINE x == [store[Key(r)] EXCEPT !.count = @ + 1, !.last = call[r].clock]
          <6>1. x \in Counter /\ now \in Nat
            BY <4>0, <1>0, CounterTyped DEF Clock
          <6>2. x.count = n /\ x.last = now /\ x.exp = store[Key(r)].exp
            BY <4>0, <3>1 DEF Counter, Clock
          <6> HIDE DEF x
          <6>3. x = [count |-> x.count, last |-> x.last, exp |-> x.exp]
            BY <6>1 DEF Counter
          <6> QED BY <6>2, <6>3 DEF x
        <5> QED BY <3>3, <5>1, <1>0 DEF Put
      <4>2. store[Key(r)].count < deploy.rule[Key(r)].max
        BY <3>3, <1>0
      <4>3. \A c \in sweeps' : c + deploy.longest <= now
        BY <3>1 DEF LimitInv
      <4>4. At(r, "passed")' /\ call'[r].clock = now
            /\ \A q \in Requests : q # r => call'[q] = call[q]
        BY <3>1, <3>3, <1>g DEF At, Clock
      <4> HIDE DEF n
      <4>5. store[Key(r)] # None /\ n = store[Key(r)].count + 1
        BY <3>3 DEF n
      <4> QED BY <3>1, <4>0, <4>1, <4>2, <4>3, <4>4, <4>5, PassStep
    <3> QED BY <2>6, <3>2, <3>3 DEF Increment
  <2>7. CASE Verify(r)
    <3>1. ~At(r, "passed")
      BY <2>7 DEF Verify, At
    <3> QED BY <2>7, <3>1, <1>n DEF Verify
  <2> QED BY <1>2, <2>0, <2>1, <2>2, <2>3, <2>4, <2>5, <2>6, <2>7 DEF Step, InDatabase
<1>3. ASSUME NEW r \in Requests, Fail(r) PROVE LimitInv'
  <2>1. ~At(r, "passed")
    BY <1>3 DEF Fail, At, Steps
  <2> QED BY <1>3, <2>1, <1>n DEF Fail
<1>4. ASSUME NEW cutoff \in sweeps, Sweep(cutoff) PROVE LimitInv'
  BY <1>4, SweepLimitInv
\* Calls take no time: the clock waits for them.
<1>5. CASE Tick
  <2>1. /\ UNCHANGED <<deploy, store, sweeps, call>> /\ now' = now + 1
        /\ \A r \in Requests : call[r].at \in Guarded => now < Clock(r)
    BY <1>0, <1>5 DEF Tick, Exact, Clock
  <2>2. \A r \in Requests : call[r].at \notin {"create", "reset", "increment"}
    BY <2>1, <1>0 DEF LimitInv, Guarded
  <2>3. ASSUME NEW k \in Keys PROVE KeyInv(k)'
    <3>1. Passed(k)' = Passed(k)
      BY <2>1 DEF Passed, At, Key
    <3> QED BY <3>1, <2>1, <1>0, QuietKey DEF LimitInv
  <2>4. \A c \in sweeps' : c + deploy'.longest <= now'
    <3>1. \A c \in sweeps : c \in Int /\ c + deploy.longest <= now
      BY DEF LimitInv, TypeOK
    <3> QED BY <3>1, <2>1, <1>0, <1>d
  <2> QED BY <2>1, <2>2, <2>3, <2>4 DEF LimitInv
<1>6. CASE UNCHANGED vars
  <2>1. ASSUME NEW k \in Keys PROVE KeyInv(k)'
    <3>1. Passed(k)' = Passed(k)
      BY <1>6 DEF Passed, At, Key, vars
    <3> QED BY <3>1, <1>6, <1>0, QuietKey DEF LimitInv, vars
  <2> QED BY <1>6, <2>1 DEF LimitInv, vars, Clock
<1> QED BY <1>1, <1>2, <1>3, <1>4, <1>5, <1>6 DEF Next, Idle

LEMMA LimitFromInv ==
  ASSUME TypeOK, LimitInv, Exact
  PROVE  LimitHeld
<1> SUFFICES ASSUME NEW k \in Keys, NEW t \in 0..now
             PROVE  Cardinality(PassedFrom(k, t, deploy.rule[k].window - deploy.maxDelay))
                      <= Limit(k)
  BY DEF LimitHeld
<1>1. deploy.rule[k].window - deploy.maxDelay = W(k) /\ Limit(k) = deploy.rule[k].max
  BY DeployTyped DEF TypeOK, Exact, W, Limit
<1> QED BY <1>1 DEF LimitInv, KeyInv, TypeOK

\* In the database no more requests of a key pass within a window than its
\* rule allows, for any number of overlapping requests, failing calls and
\* sweeps, when calls take no time and no rule's window outlasts the sweeps'.
THEOREM LimitInDatabase == Spec => [](Exact => LimitHeld)
<1> DEFINE Inv == TypeOK /\ ReadInv /\ (Exact => LimitInv)
<1>1. Init => Inv
  BY InitTypeOK, InitReadInv, InitLimitInv
<1>2. Inv /\ [Next]_vars => Inv'
  <2>1. [Next]_vars => deploy' = deploy
    BY DEF Next, Start, Step, InDatabase, Read, Decide, Create, Recheck, Reset, Increment, Verify,
           Consume, Count, Get, Set, Fail, Sweep, Tick, Idle, vars
  <2>2. [Next]_vars /\ Exact' => Exact
    BY <2>1 DEF Exact, Storage, W
  <2> QED BY <2>2, StepTypeOK, StepReadInv, StepLimitInv
<1>3. Inv => (Exact => LimitHeld)
  BY LimitFromInv
<1> HIDE DEF Inv
<1> QED BY <1>1, <1>2, <1>3, PTL DEF Spec

-----------------------------------------------------------------------------
(***************************************************************************)
(* Nobody is refused without cause. A counter is backed by requests that   *)
(* passed, each within a window of the next, up to the counter's last; so  *)
(* a request that meets a full counter is refused for those. Between the   *)
(* increment's guard and its second look the database must not lose the    *)
(* row that the request acts on (FreshRow).                                *)
(***************************************************************************)
\* The requests that passed, and after which the key was never quiet up to t.
Chain(k, t) == {q \in Passed(k) : Busy(k, Clock(q), t)}

Backed(k) ==
  Storage # "secondary" /\ store[k] # None =>
    \A t \in Nat : t = store[k].last =>
      /\ \E q \in Passed(k) : Clock(q) = t
      /\ store[k].count <= Cardinality(Chain(k, t))
\* A counter of the secondary storage also counts those it refused.
Lifetime(k) == {q \in Passed(k) : store[k].exp <= Clock(q) + W(k)}
BackedInLife(k) ==
  Storage = "secondary" /\ store[k] # None =>
    /\ store[k].exp <= now + W(k)
    /\ \/ store[k].count <= Cardinality(Lifetime(k))
       \/ deploy.rule[k].max <= Cardinality(Lifetime(k))
\* What a request is about to set is backed but for itself.
Pending(r) ==
  At(r, "set") => /\ call[r].data.last = Clock(r) /\ call[r].data.count # 0
                  /\ \A k \in Keys, t \in Nat : k = Key(r) /\ t = Clock(r) =>
                       call[r].data.count <= Cardinality(Chain(k, t)) + 1
Caused(r) ==
  call[r].at \in {"verify", "blocked"} /\ ~OnTheEdge(r) =>
    \A k \in Keys, t \in Nat : k = Key(r) /\ t = Clock(r) =>
      MaxOf(r) <= Cardinality(Chain(k, t))
Places(r) ==
  /\ call[r].at \in {"read", "decide", "create", "recheck", "reset", "increment", "verify"}
       => Storage = "database"
  /\ At(r, "consume") => Storage = "memory"
  /\ At(r, "count") => Storage = "secondary"
  /\ call[r].at \in {"get", "set"} => Storage = "legacy"
\* The row that a request read is there, and no older, until its window is over.
FreshRow(r) ==
  Exact /\ call[r].at \in {"decide", "increment"} /\ call[r].data # None =>
    \/ store[Key(r)] # None /\ call[r].data.last <= store[Key(r)].last
    \/ call[r].data.last + Window(r) < now
RequestInv(r) == Pending(r) /\ Caused(r) /\ Places(r) /\ FreshRow(r)
CauseInv == /\ \A k \in Keys : Backed(k) /\ BackedInLife(k)
            /\ \A r \in Requests : RequestInv(r)

LEMMA ChainTyped ==
  ASSUME TypeOK, NEW k \in Keys
  PROVE  /\ W(k) \in Nat \ {0} /\ deploy.rule[k].max \in Nat \ {0}
         /\ \A q \in Passed(k) : q \in Requests /\ Clock(q) \in Nat
         /\ \A t : Chain(k, t) \subseteq Passed(k)
         /\ \A S \in SUBSET Passed(k) : IsFiniteSet(S) /\ Cardinality(S) \in Nat
         /\ \A S, T \in SUBSET Passed(k) : S \subseteq T => Cardinality(S) <= Cardinality(T)
<1>1. W(k) \in Nat \ {0} /\ deploy.rule[k].max \in Nat \ {0}
  BY DeployTyped DEF TypeOK, W
<1>2. \A q \in Passed(k) : q \in Requests /\ Clock(q) \in Nat
  BY DEF TypeOK, Passed, Clock, Call
<1>3. \A t : Chain(k, t) \subseteq Passed(k)
  BY DEF Chain
<1>4. \A S \in SUBSET Passed(k) : IsFiniteSet(S) /\ Cardinality(S) \in Nat
  BY PassedFinite
<1>5. \A S, T \in SUBSET Passed(k) : S \subseteq T => Cardinality(S) <= Cardinality(T)
  BY <1>4, FS_Subset
<1> QED BY <1>1, <1>2, <1>3, <1>4, <1>5

\* A shorter time asks for less.
LEMMA ChainBack ==
  ASSUME TypeOK, NEW k \in Keys, NEW t \in Nat, NEW u \in Nat, t <= u
  PROVE  Cardinality(Chain(k, u)) <= Cardinality(Chain(k, t))
<1>1. \A q \in Passed(k) : Busy(k, Clock(q), u) => Busy(k, Clock(q), t)
  BY ChainTyped DEF Busy, W
<1>2. Chain(k, u) \subseteq Chain(k, t)
  BY <1>1 DEF Chain
<1> QED BY <1>2, ChainTyped

\* The chain up to a request that passed reaches a window further.
LEMMA ChainForward ==
  ASSUME TypeOK, NEW k \in Keys, NEW p \in Passed(k), NEW u \in Nat, u <= Clock(p) + W(k)
  PROVE  Cardinality(Chain(k, Clock(p))) <= Cardinality(Chain(k, u))
<1>0. W(k) \in Nat \ {0} /\ Clock(p) \in Nat /\ \A q \in Passed(k) : Clock(q) \in Nat
  BY ChainTyped
<1>1. ASSUME NEW q \in Passed(k), Busy(k, Clock(q), Clock(p)) PROVE Busy(k, Clock(q), u)
  <2> SUFFICES ASSUME NEW v \in Clock(q)..(u - W(k) - 1)
               PROVE  \E x \in Passed(k) : Clock(x) \in (v + 1)..(v + W(k))
    BY DEF Busy, W, Clock
  <2>1. CASE v <= Clock(p) - W(k) - 1
    BY <2>1, <1>0, <1>1 DEF Busy, W, Clock
  <2>2. CASE v > Clock(p) - W(k) - 1
    <3>1. Clock(p) <= v + W(k)
      BY <2>2, <1>0
    <3>2. CASE v + 1 <= Clock(p)
      BY <3>1, <3>2, <1>0
    <3>3. CASE v >= Clock(p)
      BY <3>3, <1>0
    <3> QED BY <3>2, <3>3, <1>0
  <2> QED BY <2>1, <2>2, <1>0
<1>2. Chain(k, Clock(p)) \subseteq Chain(k, u)
  BY <1>1 DEF Chain
<1> QED BY <1>2, ChainTyped

\* A request that passed within a window before t is in the chain up to t.
LEMMA ChainNear ==
  ASSUME TypeOK, NEW k \in Keys, NEW p \in Passed(k), NEW t \in Nat, t <= Clock(p) + W(k)
  PROVE  p \in Chain(k, t)
<1>1. W(k) \in Nat \ {0} /\ Clock(p) \in Nat
  BY ChainTyped
<1>2. Clock(p)..(t - W(k) - 1) = {}
  BY <1>1
<1> QED BY <1>2 DEF Chain, Busy, W

\* Requests that passed stay passed, and the chains only grow.
Onward == /\ deploy' = deploy
          /\ \A q \in Requests : At(q, "passed") => call'[q] = call[q]

LEMMA ChainGrows ==
  ASSUME TypeOK, TypeOK', Onward, NEW k \in Keys
  PROVE  /\ Passed(k) \subseteq Passed(k)'
         /\ \A q \in Passed(k) : Clock(q)' = Clock(q)
         /\ \A t : Chain(k, t) \subseteq Chain(k, t)'
         /\ \A t : Cardinality(Chain(k, t)) <= Cardinality(Chain(k, t)')
<1>1. Passed(k) \subseteq Passed(k)'
  BY DEF Onward, Passed, At, Key
<1>2. \A q \in Passed(k) : Clock(q)' = Clock(q)
  BY DEF Onward, Passed, Clock
<1>3. \A c, t : Busy(k, c, t) => Busy(k, c, t)'
  <2> SUFFICES ASSUME NEW c, NEW t, Busy(k, c, t) PROVE Busy(k, c, t)'
    OBVIOUS
  <2> SUFFICES ASSUME NEW u \in c..(t - deploy.rule[k].window - 1)
               PROVE  \E q \in Passed(k)' : call'[q].clock \in (u + 1)..(u + deploy.rule[k].window)
    BY DEF Busy, Onward
  <2>1. PICK q \in Passed(k) : call[q].clock \in (u + 1)..(u + deploy.rule[k].window)
    BY DEF Busy
  <2> QED BY <1>1, <1>2, <2>1 DEF Clock
<1>4. \A t : Chain(k, t) \subseteq Chain(k, t)'
  BY <1>1, <1>2, <1>3 DEF Chain
<1>5. \A t : Chain(k, t)' \subseteq Passed(k)'
  BY DEF Chain
<1>6. \A t : IsFiniteSet(Chain(k, t)')
  <2>1. Passed(k)' \subseteq Requests
    BY DEF Passed
  <2> QED BY <2>1, <1>5, ConstantsAssumption, FS_Subset
<1> QED BY <1>1, <1>2, <1>4, <1>6, FS_Subset

\* What was backed stays backed, unless the counter is written.
LEMMA StaysBacked ==
  ASSUME TypeOK, TypeOK', Onward, NEW k \in Keys, store'[k] \in {store[k], None}, now <= now'
  PROVE  /\ Backed(k) => Backed(k)'
         /\ BackedInLife(k) => BackedInLife(k)'
<1>1. /\ Storage' = Storage /\ W(k)' = W(k) /\ deploy'.rule[k].max = deploy.rule[k].max
      /\ now \in Nat /\ now' \in Nat /\ W(k) \in Nat
      /\ store[k].count \in Nat /\ store[k].exp \in Nat /\ store[k].last \in Nat
      /\ deploy.rule[k].max \in Nat
  BY ChainTyped DEF Onward, Storage, W, TypeOK, Counter
<1>2. CASE store'[k] = None
  BY <1>2 DEF Backed, BackedInLife, None
<1>3. CASE store'[k] = store[k]
  <2>1. Backed(k) => Backed(k)'
    <3> SUFFICES ASSUME Backed(k), Storage # "secondary", store[k] # None,
                        NEW t \in Nat, t = store[k].last
                 PROVE  /\ \E q \in Passed(k)' : Clock(q)' = t
                        /\ store[k].count <= Cardinality(Chain(k, t)')
      BY <1>1, <1>3 DEF Backed, None
    <3>1. PICK q \in Passed(k) : Clock(q) = t
      BY DEF Backed
    <3>2. q \in Passed(k)' /\ Clock(q)' = t
      BY <3>1, ChainGrows
    <3>3. store[k].count <= Cardinality(Chain(k, t))
      BY DEF Backed
    <3>4. Cardinality(Chain(k, t)) <= Cardinality(Chain(k, t)')
      BY ChainGrows
    <3>5. /\ Cardinality(Chain(k, t)) \in Nat
          /\ Cardinality(Chain(k, t)') \in Nat
      <4>1. IsFiniteSet(Chain(k, t)')
        <5>1. Chain(k, t)' \subseteq Requests
          BY DEF Chain, Passed
        <5> QED BY <5>1, ConstantsAssumption, FS_Subset
      <4> QED BY <4>1, ChainTyped, FS_CardinalityType
    <3> QED BY <1>1, <3>2, <3>3, <3>4, <3>5
  <2>2. BackedInLife(k) => BackedInLife(k)'
    <3>1. Lifetime(k) \subseteq Lifetime(k)'
      BY <1>1, <1>3, ChainGrows DEF Lifetime
    <3>2. /\ Cardinality(Lifetime(k)) <= Cardinality(Lifetime(k)')
          /\ Cardinality(Lifetime(k)) \in Nat /\ Cardinality(Lifetime(k)') \in Nat
      <4>1. Lifetime(k)' \subseteq Requests
        BY DEF Lifetime, Passed
      <4>2. IsFiniteSet(Lifetime(k)')
        BY <4>1, ConstantsAssumption, FS_Subset
      <4> QED BY <3>1, <4>2, FS_Subset, FS_CardinalityType
    <3> QED BY <1>1, <1>3, <3>2 DEF BackedInLife, None
  <2> QED BY <2>1, <2>2
<1> QED BY <1>2, <1>3

\* With the request that passes at t, the chain up to t has one more.
LEMMA ChainAndOne ==
  ASSUME TypeOK, TypeOK', Onward, NEW r \in Requests, ~At(r, "passed"), At(r, "passed")',
         NEW k \in Keys, k = Key(r), NEW t \in Nat, call'[r].clock = t,
         NEW n \in Nat, n <= Cardinality(Chain(k, t)) + 1
  PROVE  /\ r \in Passed(k)' /\ Clock(r)' = t
         /\ n <= Cardinality(Chain(k, t)')
<1>1. r \in Passed(k)' /\ Clock(r)' = t
  BY DEF Onward, Passed, Key, Clock
<1>2. r \notin Chain(k, t)
  BY DEF Chain, Passed
<1>3. r \in Chain(k, t)'
  <2>1. W(k) \in Nat \ {0} /\ deploy' = deploy
    BY ChainTyped DEF Onward
  <2>2. t..(t - deploy'.rule[k].window - 1) = {}
    BY <2>1 DEF W
  <2>3. Busy(k, t, t)'
    BY <2>2 DEF Busy
  <2>4. Busy(k, Clock(r), t)'
    BY <1>1, <2>3 DEF Busy
  <2> QED BY <1>1, <2>4 DEF Chain
<1>4. Chain(k, t) \cup {r} \subseteq Chain(k, t)'
  BY <1>3, ChainGrows
<1>5. IsFiniteSet(Chain(k, t)) /\ Cardinality(Chain(k, t)) \in Nat
  BY ChainTyped
<1>6. Cardinality(Chain(k, t) \cup {r}) = Cardinality(Chain(k, t)) + 1
  BY <1>2, <1>5, FS_AddElement
<1>7. IsFiniteSet(Chain(k, t)')
  <2>1. Chain(k, t)' \subseteq Requests
    BY DEF Chain, Passed
  <2> QED BY <2>1, ConstantsAssumption, FS_Subset
<1>8. /\ Cardinality(Chain(k, t) \cup {r}) <= Cardinality(Chain(k, t)')
      /\ Cardinality(Chain(k, t)') \in Nat
  BY <1>4, <1>7, FS_Subset, FS_CardinalityType
<1> QED BY <1>1, <1>5, <1>6, <1>8

\* A counter that a request writes as it passes is backed.
LEMMA WrittenBacked ==
  ASSUME TypeOK, TypeOK', Onward, NEW r \in Requests, ~At(r, "passed"), At(r, "passed")',
         NEW k \in Keys, k = Key(r), NEW t \in Nat, call'[r].clock = t, Storage # "secondary",
         store'[k].last = t, store'[k].count <= Cardinality(Chain(k, t)) + 1
  PROVE  Backed(k)' /\ BackedInLife(k)'
<1>1. Storage' = Storage
  BY DEF Onward, Storage
<1>2. PICK n \in Nat : n = store'[k].count
  BY DEF TypeOK, Counter
<1>3. r \in Passed(k)' /\ Clock(r)' = t /\ n <= Cardinality(Chain(k, t)')
  BY <1>2, ChainAndOne
<1> QED BY <1>1, <1>2, <1>3 DEF Backed, BackedInLife


\* What is known of a counter that was written or swept: it did not go back.
RowKept(k) == \/ store'[k] = store[k]
              \/ store'[k] # None /\ store[k].last <= store'[k].last
              \/ store[k].last + W(k) < now

LEMMA ChainSizes ==
  ASSUME TypeOK, NEW k \in Keys, NEW t \in Nat
  PROVE  Cardinality(Chain(k, t)) \in Nat /\ Cardinality(Chain(k, t)') \in Nat
<1>1. Chain(k, t)' \subseteq Requests
  BY DEF Chain, Passed
<1>2. Cardinality(Chain(k, t)') \in Nat
  BY <1>1, ConstantsAssumption, FS_Subset, FS_CardinalityType
<1> QED BY <1>2, ChainTyped

LEMMA Bystander ==
  ASSUME TypeOK, TypeOK', Onward, now <= now', NEW q \in Requests, call'[q] = call[q],
         RequestInv(q), Exact => RowKept(Key(q))
  PROVE  RequestInv(q)'
<1>1. /\ Key(q)' = Key(q) /\ Storage' = Storage /\ MaxOf(q)' = MaxOf(q)
      /\ Window(q)' = Window(q) /\ Clock(q)' = Clock(q) /\ (Exact' <=> Exact)
      /\ MaxOf(q) \in Nat
  BY DeployTyped DEF Onward, Key, Storage, MaxOf, Window, Clock, Exact, W, TypeOK
<1>c. ASSUME NEW k \in Keys, NEW t \in Nat
      PROVE  /\ Cardinality(Chain(k, t)) <= Cardinality(Chain(k, t)')
             /\ Cardinality(Chain(k, t)) \in Nat /\ Cardinality(Chain(k, t)') \in Nat
  BY ChainSizes, ChainGrows
<1>2. Pending(q)'
  <2> SUFFICES ASSUME At(q, "set")
               PROVE  /\ call[q].data.last = Clock(q) /\ call[q].data.count # 0
                      /\ \A k \in Keys, t \in Nat : k = Key(q) /\ t = Clock(q) =>
                           call[q].data.count <= Cardinality(Chain(k, t)') + 1
    BY <1>1 DEF Pending, At
  <2>1. call[q].data.count \in Nat
    BY DEF TypeOK, Call, Counter
  <2> QED BY <1>c, <2>1 DEF RequestInv, Pending
<1>3. Caused(q)'
  <2>1. OnTheEdge(q) => OnTheEdge(q)'
    <3> SUFFICES ASSUME OnTheEdge(q) PROVE OnTheEdge(q)' OBVIOUS
    <3>1. PICK k \in Keys : k = Key(q)
      BY DeployTyped DEF TypeOK
    <3>2. PICK p \in Passed(k) : call[q].clock = call[p].clock + Window(q)
      BY <3>1 DEF OnTheEdge
    <3>3. p \in Passed(k)' /\ call'[p].clock = call[p].clock
      BY <3>2, ChainGrows DEF Clock
    <3> QED BY <1>1, <3>1, <3>2, <3>3 DEF OnTheEdge
  <2> SUFFICES ASSUME call[q].at \in {"verify", "blocked"}, ~OnTheEdge(q),
                      NEW k \in Keys, NEW t \in Nat, k = Key(q), t = Clock(q)
               PROVE  MaxOf(q) <= Cardinality(Chain(k, t)')
    BY <1>1, <2>1 DEF Caused
  <2>2. MaxOf(q) <= Cardinality(Chain(k, t))
    BY DEF RequestInv, Caused
  <2> QED BY <1>1, <1>c, <2>2
<1>4. Places(q)'
  BY <1>1 DEF RequestInv, Places, At
<1>5. FreshRow(q)'
  <2> SUFFICES ASSUME Exact, call[q].at \in {"decide", "increment"}, call[q].data # None
               PROVE  \/ store'[Key(q)] # None /\ call[q].data.last <= store'[Key(q)].last
                      \/ call[q].data.last + Window(q) < now'
    BY <1>1 DEF FreshRow
  <2>1. /\ Key(q) \in Keys /\ Window(q) = W(Key(q)) /\ Window(q) \in Nat
        /\ store[Key(q)].last \in Nat /\ store'[Key(q)].last \in Nat
        /\ call[q].data.last \in Nat /\ now \in Nat /\ now' \in Nat
    BY DeployTyped DEF TypeOK, Counter, Call, Window, W
  <2>2. \/ store[Key(q)] # None /\ call[q].data.last <= store[Key(q)].last
        \/ call[q].data.last + Window(q) < now
    BY DEF RequestInv, FreshRow
  <2> QED BY <2>1, <2>2 DEF RowKept
<1> QED BY <1>2, <1>3, <1>4, <1>5 DEF RequestInv

LEMMA CauseFrame ==
  ASSUME TypeOK, TypeOK', CauseInv, Onward, now <= now',
         \A q \in Requests : call'[q] = call[q] \/ RequestInv(q)',
         \A k \in Keys : store'[k] \in {store[k], None} \/ (Backed(k)' /\ BackedInLife(k)'),
         Exact => \A k \in Keys : RowKept(k)
  PROVE  CauseInv'
<1>1. ASSUME NEW k \in Keys PROVE Backed(k)' /\ BackedInLife(k)'
  <2>1. CASE store'[k] \in {store[k], None}
    BY <2>1, StaysBacked DEF CauseInv
  <2> QED BY <2>1
<1>2. ASSUME NEW q \in Requests PROVE RequestInv(q)'
  <2>1. CASE call'[q] = call[q]
    <3>1. Key(q) \in Keys
      BY DeployTyped DEF TypeOK
    <3> QED BY <2>1, <3>1, Bystander DEF CauseInv
  <2> QED BY <2>1
<1> QED BY <1>1, <1>2 DEF CauseInv

\* A counter that a request meets, full and within its window, is a cause.
LEMMA FullIsCause ==
  ASSUME TypeOK, CauseInv, NEW k \in Keys, Storage # "secondary", store[k] # None,
         NEW t \in Nat, t <= store[k].last + W(k)
  PROVE  store[k].count <= Cardinality(Chain(k, t))
<1>1. PICK last \in Nat : last = store[k].last
  BY DEF TypeOK, Counter
<1>2. PICK p \in Passed(k) : Clock(p) = last
  BY <1>1 DEF CauseInv, Backed
<1>3. store[k].count <= Cardinality(Chain(k, last))
  BY <1>1 DEF CauseInv, Backed
<1>4. Cardinality(Chain(k, Clock(p))) <= Cardinality(Chain(k, t))
  BY <1>1, <1>2, ChainForward
<1>5. /\ Cardinality(Chain(k, last)) \in Nat /\ Cardinality(Chain(k, t)) \in Nat
      /\ store[k].count \in Nat
  BY ChainTyped DEF TypeOK, Counter
<1> QED BY <1>2, <1>3, <1>4, <1>5

LEMMA InitCauseInv == Init => CauseInv
<1> SUFFICES ASSUME Init PROVE CauseInv OBVIOUS
<1>1. \A k \in Keys : store[k] = None
  BY DEF Init
<1>2. \A r \in Requests : call[r].at = "idle"
  BY DEF Init, NoCall
<1> QED BY <1>1, <1>2 DEF CauseInv, Backed, BackedInLife, RequestInv, Pending, Caused, Places,
                          FreshRow, At


Prompt == Storage = "database" => Exact

LEMMA RowPast ==
  ASSUME TypeOK, LimitInv, CauseInv, Exact, NEW k \in Keys
  PROVE  store[k].last <= now
<1>0. now \in Nat
  BY DEF TypeOK
<1>1. CASE store[k] = None
  BY <1>0, <1>1 DEF None
<1>2. CASE store[k] # None
  <2>1. PICK last \in Nat : last = store[k].last
    BY DEF TypeOK, Counter
  <2>2. PICK p \in Passed(k) : Clock(p) = last
    BY <1>2, <2>1 DEF CauseInv, Backed, Exact
  <2> QED BY <2>1, <2>2 DEF LimitInv, KeyInv
<1> QED BY <1>1, <1>2

LEMMA StepCauseInv ==
  ASSUME TypeOK, TypeOK', ReadInv, Exact => LimitInv, Prompt, CauseInv, [Next]_vars
  PROVE  CauseInv'
<1>0. /\ call \in [Requests -> Call] /\ store \in [Keys -> Counter] /\ now \in Nat
      /\ \A q \in Requests : /\ call[q] \in Call /\ Key(q) \in Keys /\ Clock(q) \in Nat
                             /\ call[q].data \in Counter
                             /\ Window(q) = W(Key(q)) /\ MaxOf(q) = deploy.rule[Key(q)].max
      /\ \A k \in Keys : W(k) \in Nat \ {0} /\ deploy.rule[k].max \in Nat \ {0}
      /\ \A k \in Keys : /\ store[k].count \in Nat /\ store[k].last \in Nat
                         /\ store[k].exp \in Nat
  BY DeployTyped DEF TypeOK, Call, Counter, Clock, Window, MaxOf, W
<1>p. Storage = "database" => Exact /\ LimitInv
  BY DEF Prompt
<1>b. \A r \in Requests : \A c : Become(r, c) =>
        /\ call'[r] = c
        /\ \A q \in Requests : q # r => call'[q] = call[q]
  BY <1>0 DEF Become
<1>g. \A r \in Requests : \A pc : Goto(r, pc) =>
        /\ call'[r].at = pc /\ call'[r].clock = call[r].clock /\ call'[r].data = call[r].data
        /\ \A q \in Requests : q # r => call'[q] = call[q]
  BY <1>0 DEF Goto, Become, Call
<1>w. \A r \in Requests : \A x : Put(r, x) =>
        store'[Key(r)] = x /\ \A k \in Keys : k # Key(r) => store'[k] = store[k]
  BY <1>0 DEF Put
\* The step of a request that did not pass before.
<1>o. ASSUME NEW r \in Requests, ~At(r, "passed"), deploy' = deploy,
             \A q \in Requests : q # r => call'[q] = call[q]
      PROVE  Onward
  BY <1>o DEF Onward, At
<1>r. ASSUME NEW r \in Requests, ~At(r, "passed"), UNCHANGED <<deploy, now>>,
             \A q \in Requests : q # r => call'[q] = call[q], RequestInv(r)',
             \/ UNCHANGED store
             \/ /\ \A k \in Keys : k # Key(r) => store'[k] = store[k]
                /\ Backed(Key(r))' /\ BackedInLife(Key(r))'
                /\ Exact => RowKept(Key(r))
      PROVE  CauseInv'
  <2>1. Onward
    BY <1>r, <1>o
  <2>2. \A q \in Requests : call'[q] = call[q] \/ RequestInv(q)'
    BY <1>r
  <2>3. PICK own \in Keys : own = Key(r)
    BY <1>0
  <2>4. Key(r)' = own
    BY <2>3, <1>r DEF Key
  <2>5. \A k \in Keys : store'[k] \in {store[k], None} \/ (Backed(k)' /\ BackedInLife(k)')
    BY <1>r, <2>3, <2>4
  <2>6. Exact => \A k \in Keys : RowKept(k)
    BY <1>r, <2>3 DEF RowKept
  <2> QED BY <1>0, <1>r, <2>1, <2>2, <2>5, <2>6, CauseFrame
<1>s. \A r \in Requests : deploy' = deploy => Storage' = Storage
  BY DEF Storage
\* A request of the database that goes where nothing more is asked.
<1>n. ASSUME NEW r \in Requests, ~At(r, "passed"), UNCHANGED <<deploy, store, now>>,
             \A q \in Requests : q # r => call'[q] = call[q],
             \/ call'[r].at \in {"passed", "failed"}
             \/ /\ call'[r].at \in {"read", "recheck", "create", "reset"}
                /\ Storage = "database"
      PROVE  CauseInv'
  <2>1. RequestInv(r)'
    BY <1>n DEF RequestInv, Pending, Caused, Places, FreshRow, At, Storage
  <2> QED BY <1>n, <2>1, <1>r
<1>1. ASSUME NEW r \in Requests, Start(r) PROVE CauseInv'
  <2>1. call'[r].at = FirstStep /\ \A q \in Requests : q # r => call'[q] = call[q]
    BY <1>1, <1>g DEF Start
  <2>2. deploy \in Deployment
    BY ConstantsAssumption DEF TypeOK
  <2>3. \/ FirstStep = "read" /\ Storage = "database"
        \/ FirstStep = "consume" /\ Storage = "memory"
        \/ FirstStep = "count" /\ Storage = "secondary"
        \/ FirstStep = "get" /\ Storage = "legacy"
    BY <2>2 DEF Deployment, FirstStep, Storage
  <2>4. UNCHANGED <<deploy, store, now>> /\ ~At(r, "passed") /\ Storage' = Storage
    BY <1>1 DEF Start, At, Storage
  <2>5. RequestInv(r)'
    BY <2>1, <2>3, <2>4 DEF RequestInv, Pending, Caused, Places, FreshRow, At
  <2> QED BY <2>1, <2>4, <2>5, <1>r
\* A request passes at t and writes its counter.
<1>t. ASSUME NEW r \in Requests, NEW t \in Nat, ~At(r, "passed"), UNCHANGED <<deploy, now>>,
             \A q \in Requests : q # r => call'[q] = call[q],
             call'[r].at = "passed", call'[r].clock = t, Storage # "secondary",
             \A k \in Keys : k # Key(r) => store'[k] = store[k],
             store'[Key(r)].last = t,
             store'[Key(r)].count <= Cardinality(Chain(Key(r), t)) + 1,
             Exact => store'[Key(r)] # None /\ t = now
      PROVE  CauseInv'
  <2>1. Onward
    BY <1>t, <1>o
  <2>2. PICK own \in Keys : own = Key(r)
    BY <1>0
  <2>3. Backed(own)' /\ BackedInLife(own)'
    BY <2>1, <2>2, <1>t, WrittenBacked DEF At
  <2>4. Key(r)' = own
    BY <2>2, <1>t DEF Key
  <2>5. Exact => RowKept(Key(r))
    <3>1. Exact => store[own].last <= now
      BY RowPast
    <3> QED BY <1>t, <2>2, <3>1 DEF RowKept
  <2>6. RequestInv(r)'
    BY <1>t DEF RequestInv, Pending, Caused, Places, FreshRow, At
  <2> QED BY <1>t, <2>2, <2>3, <2>4, <2>5, <2>6, <1>r
<1>z. ASSUME NEW r \in Requests, NEW t \in Nat
      PROVE  Cardinality(Chain(Key(r), t)) \in Nat
  BY <1>0, ChainTyped
\* A refused request whose cause is known.
<1>c. ASSUME NEW r \in Requests, ~At(r, "passed"), UNCHANGED <<deploy, now>>,
             \A q \in Requests : q # r => call'[q] = call[q], call'[r].clock = now,
             MaxOf(r) <= Cardinality(Chain(Key(r), now))
      PROVE  Caused(r)'
  <2>1. Onward
    BY <1>c, <1>o
  <2>2. PICK own \in Keys : own = Key(r)
    BY <1>0
  <2>3. PICK t \in Nat : t = now
    BY <1>0
  <2>4. /\ Cardinality(Chain(own, t)) <= Cardinality(Chain(own, t)')
        /\ Cardinality(Chain(own, t)) \in Nat /\ Cardinality(Chain(own, t)') \in Nat
    BY <2>1, ChainGrows, ChainSizes
  <2>5. Key(r)' = own /\ MaxOf(r)' = MaxOf(r) /\ Clock(r)' = t /\ MaxOf(r) \in Nat
    BY <1>c, <2>2, <2>3, <1>0 DEF Key, MaxOf, Clock
  <2>6. MaxOf(r) <= Cardinality(Chain(own, t)')
    BY <1>c, <2>2, <2>3, <2>4, <2>5
  <2> QED BY <2>5, <2>6 DEF Caused
<1>k. ASSUME NEW r \in Requests, ~At(r, "passed"), UNCHANGED <<deploy, now>>,
             \A q \in Requests : q # r => call'[q] = call[q],
             call'[r].at = "blocked", call'[r].clock = now,
             MaxOf(r) <= Cardinality(Chain(Key(r), now))
      PROVE  RequestInv(r)'
  <2>1. Caused(r)'
    BY <1>k, <1>c
  <2> QED BY <1>k, <2>1 DEF RequestInv, Pending, Places, FreshRow, At
<1>2. ASSUME NEW r \in Requests, InDatabase(r) PROVE CauseInv'
  <2>0. ~At(r, "passed")
    BY <1>2 DEF InDatabase, Read, Decide, Create, Recheck, Reset, Increment, Verify, At
  <2>1. Storage = "database"
    BY <1>2 DEF InDatabase, Read, Decide, Create, Recheck, Reset, Increment, Verify, At,
                CauseInv, RequestInv, Places
  <2>2. Exact /\ LimitInv
    BY <2>1, <1>p
  <2>c. call[r].at \in {"create", "reset", "increment"} => Clock(r) = now
    BY <2>2 DEF LimitInv
  <2>3. CASE Read(r)
    <3>1. /\ call'[r].at = "decide" /\ call'[r].data = store[Key(r)]
          /\ \A q \in Requests : q # r => call'[q] = call[q]
          /\ UNCHANGED <<deploy, store, now>>
      BY <2>3, <1>0 DEF Read, Become, Call
    <3>2. RequestInv(r)'
      <4>1. Key(r)' = Key(r) /\ Storage' = Storage
        BY <3>1 DEF Key, Storage
      <4>2. FreshRow(r)'
        BY <3>1, <4>1, <1>0 DEF FreshRow
      <4> QED BY <3>1, <4>1, <4>2, <2>1 DEF RequestInv, Pending, Caused, Places, At
    <3> QED BY <2>0, <3>1, <3>2, <1>r
  <2>4. CASE Decide(r)
    <3>1. /\ call'[r].at \in {"create", "reset", "increment"} /\ call'[r].data = call[r].data
          /\ \A q \in Requests : q # r => call'[q] = call[q]
          /\ UNCHANGED <<deploy, store, now>>
      BY <2>4, <1>0 DEF Decide, Become, Call
    <3>2. RequestInv(r)'
      <4>1. Key(r)' = Key(r) /\ Storage' = Storage /\ Window(r)' = Window(r)
        BY <3>1 DEF Key, Storage, Window
      <4>2. FreshRow(r)
        BY DEF CauseInv, RequestInv
      <4>3. FreshRow(r)'
        BY <3>1, <4>1, <4>2, <2>2, <2>4 DEF FreshRow, Decide, At
      <4> QED BY <3>1, <4>1, <4>3, <2>1 DEF RequestInv, Pending, Caused, Places, At
    <3> QED BY <2>0, <3>1, <3>2, <1>r
  <2>5. CASE Create(r)
    <3>1. CASE Goto(r, "recheck") /\ UNCHANGED store
      BY <2>5, <3>1, <2>0, <2>1, <1>g, <1>n DEF Create
    <3>2. CASE /\ Put(r, [count |-> 1, last |-> call[r].clock, exp |-> 0])
               /\ Goto(r, "passed")
      <4>1. Clock(r) = now /\ UNCHANGED <<deploy, now>>
        BY <2>5, <2>c DEF Create, At
      <4>2. /\ store'[Key(r)].count = 1 /\ store'[Key(r)].last = now
            /\ \A k \in Keys : k # Key(r) => store'[k] = store[k]
        BY <3>2, <4>1, <1>w DEF Clock
      <4>3. 1 <= Cardinality(Chain(Key(r), now)) + 1
        BY <1>0, <1>z
      <4>4. store'[Key(r)] # None
        BY <4>2 DEF None
      <4>5. /\ call'[r].at = "passed" /\ call'[r].clock = now
            /\ \A q \in Requests : q # r => call'[q] = call[q]
        BY <3>2, <4>1, <1>g DEF Clock
      <4> QED BY <2>0, <2>1, <4>1, <4>2, <4>3, <4>4, <4>5, <1>0, <1>t
    <3> QED BY <2>5, <3>1, <3>2 DEF Create
  <2>6. CASE Recheck(r)
    BY <2>6, <2>0, <2>1, <1>g, <1>n DEF Recheck
  <2>7. CASE Reset(r)
    <3>1. CASE Goto(r, "read") /\ UNCHANGED store
      BY <2>7, <3>1, <2>0, <2>1, <1>g, <1>n DEF Reset
    <3>2. CASE /\ Put(r, [count |-> 1, last |-> call[r].clock, exp |-> 0])
               /\ Goto(r, "passed")
      <4>1. Clock(r) = now /\ UNCHANGED <<deploy, now>>
        BY <2>7, <2>c DEF Reset, At
      <4>2. /\ store'[Key(r)].count = 1 /\ store'[Key(r)].last = now
            /\ \A k \in Keys : k # Key(r) => store'[k] = store[k]
        BY <3>2, <4>1, <1>w DEF Clock
      <4>3. 1 <= Cardinality(Chain(Key(r), now)) + 1
        BY <1>0, <1>z
      <4>4. store'[Key(r)] # None
        BY <4>2 DEF None
      <4>5. /\ call'[r].at = "passed" /\ call'[r].clock = now
            /\ \A q \in Requests : q # r => call'[q] = call[q]
        BY <3>2, <4>1, <1>g DEF Clock
      <4> QED BY <2>0, <2>1, <4>1, <4>2, <4>3, <4>4, <4>5, <1>0, <1>t
    <3> QED BY <2>7, <3>1, <3>2 DEF Reset
  <2>8. CASE Increment(r)
    <3>k. PICK own \in Keys : own = Key(r)
      BY <1>0
    <3>1. Clock(r) = now /\ UNCHANGED <<deploy, now>>
      BY <2>8, <2>c DEF Increment, At
    <3>2. CASE /\ store[own] # None /\ store[own].last > now - W(own)
               /\ Put(r, [store[own] EXCEPT !.count = @ + 1, !.last = call[r].clock])
               /\ Goto(r, "passed")
      <4>1. /\ store'[own].count = store[own].count + 1 /\ store'[own].last = now
            /\ \A k \in Keys : k # Key(r) => store'[k] = store[k]
        <5>1. /\ store'[own] = [store[own] EXCEPT !.count = @ + 1, !.last = now]
              /\ \A k \in Keys : k # Key(r) => store'[k] = store[k]
          BY <3>1, <3>2, <3>k, <1>w DEF Clock
        <5>2. store[own] \in Counter
          BY <1>0
        <5> QED BY <5>1, <5>2 DEF Counter
      <4>2. store[own].count <= Cardinality(Chain(own, now))
        <5>1. now <= store[own].last + W(own)
          BY <3>2, <1>0
        <5> QED BY <3>2, <5>1, <2>1, <1>0, FullIsCause
      <4>3. store'[own].count <= Cardinality(Chain(own, now)) + 1
        BY <4>1, <4>2, <1>0, <1>z, <3>k
      <4>4. store'[own] # None
        BY <4>1, <1>0 DEF None
      <4>5. /\ call'[r].at = "passed" /\ call'[r].clock = now
            /\ \A q \in Requests : q # r => call'[q] = call[q]
        BY <3>2, <3>1, <1>g DEF Clock
      <4> QED BY <2>0, <2>1, <3>1, <3>k, <4>1, <4>3, <4>4, <4>5, <1>0, <1>t
    <3>3. CASE /\ ~(/\ store[own] # None /\ store[own].last > now - W(own)
                    /\ store[own].count < MaxOf(r))
               /\ Goto(r, "verify") /\ UNCHANGED store
      <4>1. /\ call[r].data # None /\ call[r].data.last \in Nat
            /\ now <= call[r].data.last + W(own)
        <5>1. call[r].data # None /\ ~Elapsed(r, call[r].clock, call[r].data)
          BY <2>8 DEF ReadInv, Increment, At
        <5>2. call[r].data.last \in Nat
          BY <1>0 DEF Counter
        <5> QED BY <5>1, <5>2, <3>1, <3>k, <1>0 DEF Elapsed, Clock
      <4>2. store[own] # None /\ call[r].data.last <= store[own].last
        <5>1. FreshRow(r)
          BY DEF CauseInv, RequestInv
        <5>2. call[r].at = "increment"
          BY <2>8 DEF Increment, At
        <5> QED BY <5>1, <5>2, <4>1, <3>k, <2>2, <1>0 DEF FreshRow
      <4>3. now <= store[own].last + W(own)
        BY <4>1, <4>2, <1>0
      <4>4. Onward
        BY <2>0, <3>1, <3>3, <1>g, <1>o
      <4>5. /\ call'[r].at = "verify" /\ call'[r].clock = now
            /\ \A q \in Requests : q # r => call'[q] = call[q]
        BY <3>1, <3>3, <1>g DEF Clock
      <4>6. Key(r)' = own /\ Storage' = Storage /\ Window(r)' = W(own) /\ MaxOf(r)' = MaxOf(r)
        BY <3>1, <3>k DEF Key, Storage, Window, MaxOf, W
      <4>7. Caused(r)'
        <5>1. CASE store[own].last = now - W(own)
          <6>1. PICK last \in Nat : last = store[own].last
            BY <1>0
          <6>2. PICK p \in Passed(own) : Clock(p) = last
            BY <4>2, <6>1, <2>1 DEF CauseInv, Backed
          <6>3. p \in Passed(own)' /\ Clock(p)' = last
            BY <4>4, <6>2, ChainGrows
          <6>4. call'[r].clock = call'[p].clock + Window(r)'
            BY <5>1, <6>1, <6>3, <4>5, <4>6, <1>0 DEF Clock
          <6>5. OnTheEdge(r)'
            BY <6>3, <6>4, <4>6, <2>1 DEF OnTheEdge
          <6> QED BY <6>5 DEF Caused
        <5>2. CASE store[own].last # now - W(own)
          <6>1. MaxOf(r) <= store[own].count /\ MaxOf(r) \in Nat
            <7>1. store[own].last > now - W(own)
              <8>1. store[own].last \in Int /\ now \in Int /\ W(own) \in Int
                BY <3>k, <1>0
              <8> QED BY <5>2, <4>3, <8>1
            <7>2. ~(store[own].count < MaxOf(r))
              BY <7>1, <3>3, <4>2
            <7> QED BY <7>2, <1>0
          <6>2. store[own].count <= Cardinality(Chain(own, now))
            BY <4>2, <4>3, <2>1, <1>0, FullIsCause
          <6>3. MaxOf(r) <= Cardinality(Chain(Key(r), now))
            <7>1. Cardinality(Chain(own, now)) \in Nat
              BY <1>0, <1>z, <3>k
            <7> QED BY <6>1, <6>2, <7>1, <3>k, <1>0
          <6> QED BY <6>3, <2>0, <3>1, <4>5, <1>c
        <5> QED BY <5>1, <5>2
      <4>8. RequestInv(r)'
        BY <4>5, <4>6, <4>7, <2>1 DEF RequestInv, Pending, Places, FreshRow, At
      <4> QED BY <2>0, <3>1, <3>3, <4>5, <4>8, <1>r
    <3> QED BY <2>8, <3>1, <3>2, <3>3, <3>k, <1>0 DEF Increment, Clock
  <2>9. CASE Verify(r)
    <3>1. CASE Goto(r, "read")
      BY <2>9, <3>1, <2>0, <2>1, <1>g, <1>n DEF Verify
    <3>2. CASE Goto(r, "blocked")
      <4>1. /\ call'[r].at = "blocked" /\ call'[r].clock = call[r].clock
            /\ \A q \in Requests : q # r => call'[q] = call[q]
            /\ UNCHANGED <<deploy, store, now>>
        BY <2>9, <3>2, <1>g DEF Verify
      <4>2. Onward
        BY <2>0, <4>1, <1>o
      <4>3. Key(r)' = Key(r) /\ Storage' = Storage /\ Window(r)' = Window(r)
            /\ MaxOf(r)' = MaxOf(r) /\ MaxOf(r) \in Nat
        BY <4>1, <1>0 DEF Key, Storage, Window, MaxOf
      <4>4. Caused(r)'
        <5>1. OnTheEdge(r) => OnTheEdge(r)'
          <6> SUFFICES ASSUME OnTheEdge(r) PROVE OnTheEdge(r)' OBVIOUS
          <6>1. PICK k \in Keys : k = Key(r)
            BY <1>0
          <6>2. PICK p \in Passed(k) : call[r].clock = call[p].clock + Window(r)
            BY <6>1 DEF OnTheEdge
          <6>3. p \in Passed(k)' /\ call'[p].clock = call[p].clock
            BY <4>2, <6>2, ChainGrows DEF Clock
          <6> QED BY <2>1, <4>1, <4>3, <6>1, <6>2, <6>3 DEF OnTheEdge
        <5> SUFFICES ASSUME ~OnTheEdge(r), NEW k \in Keys, NEW t \in Nat, k = Key(r),
                            t = Clock(r)
                     PROVE  MaxOf(r) <= Cardinality(Chain(k, t)')
          BY <4>1, <4>3, <5>1 DEF Caused, Clock
        <5>2. MaxOf(r) <= Cardinality(Chain(k, t))
          BY <2>9 DEF Verify, At, CauseInv, RequestInv, Caused
        <5>3. Cardinality(Chain(k, t)) <= Cardinality(Chain(k, t)')
          BY <4>2, ChainGrows
        <5> QED BY <5>2, <5>3, <4>3, <4>2, ChainSizes
      <4>5. RequestInv(r)'
        BY <4>1, <4>3, <4>4 DEF RequestInv, Pending, Places, FreshRow, At
      <4> QED BY <2>0, <4>1, <4>5, <1>r
    <3> QED BY <2>9, <3>1, <3>2 DEF Verify
  <2> QED BY <1>2, <2>3, <2>4, <2>5, <2>6, <2>7, <2>8, <2>9 DEF InDatabase

\* What a request of the other storages sees is a counter within its lifetime.
<1>v. \A k \in Keys : Current(k) # None => Current(k) = store[k] /\ now < store[k].exp
  BY DEF Current, Visible
<1>i. ASSUME NEW r \in Requests, NEW own \in Keys, own = Key(r), Storage # "secondary"
      PROVE  LET c == Current(own) IN
             /\ Blocks(r, c) => MaxOf(r) <= Cardinality(Chain(own, now))
             /\ Increased(r, c).count <= Cardinality(Chain(own, now)) + 1
             /\ Increased(r, c).count \in Nat \ {0} /\ Increased(r, c).last = now
  <2> DEFINE c == Current(own)
             size == Cardinality(Chain(own, now))
  <2>0. size \in Nat
    BY <1>0, <1>i, <1>z
  <2>1. ASSUME c # None, ~Elapsed(r, now, c) PROVE c.count <= size /\ c.count \in Nat
    <3>1. c = store[own] /\ store[own] # None
      BY <2>1, <1>v
    <3>2. now <= store[own].last + W(own)
      BY <2>1, <3>1, <1>0, <1>i DEF Elapsed
    <3>3. store[own].count <= Cardinality(Chain(own, now))
      BY <3>1, <3>2, <1>0, <1>i, FullIsCause
    <3> QED BY <3>1, <3>3, <1>0
  <2>2. Blocks(r, c) => MaxOf(r) <= size
    <3> HIDE DEF size, c
    <3> QED BY <2>0, <2>1, <1>0 DEF Blocks
  <2>3. /\ Increased(r, c).count = IF c = None \/ Elapsed(r, now, c) THEN 1 ELSE c.count + 1
        /\ Increased(r, c).last = now
    BY DEF Increased
  <2>4. Increased(r, c).count <= size + 1 /\ Increased(r, c).count \in Nat \ {0}
    <3> HIDE DEF size, c
    <3>1. CASE c = None \/ Elapsed(r, now, c)
      BY <2>0, <2>3, <3>1
    <3>2. CASE ~(c = None \/ Elapsed(r, now, c))
      BY <2>0, <2>1, <2>3, <3>2
    <3> QED BY <3>1, <3>2
  <2> QED BY <2>2, <2>3, <2>4
<1>3. ASSUME NEW r \in Requests, Consume(r) PROVE CauseInv'
  <2>1. At(r, "consume") /\ ~At(r, "passed") /\ UNCHANGED <<deploy, now>>
    BY <1>3 DEF Consume, At
  <2>2. Storage = "memory"
    BY <2>1 DEF CauseInv, RequestInv, Places
  <2>3. PICK own \in Keys : own = Key(r)
    BY <1>0
  <2>4. CASE /\ Blocks(r, Current(own)) /\ UNCHANGED store
             /\ Become(r, [call[r] EXCEPT !.at = "blocked", !.clock = now])
    <3>1. /\ call'[r].at = "blocked" /\ call'[r].clock = now
          /\ \A q \in Requests : q # r => call'[q] = call[q]
      BY <2>4, <1>0 DEF Become, Call
    <3>2. MaxOf(r) <= Cardinality(Chain(Key(r), now))
      BY <2>2, <2>3, <2>4, <1>i
    <3>3. RequestInv(r)'
      BY <2>1, <3>1, <3>2, <1>k
    <3> QED BY <2>1, <2>4, <3>1, <3>3, <1>r
  <2>5. CASE /\ Put(r, Increased(r, Current(own)))
             /\ Become(r, [call[r] EXCEPT !.at = "passed", !.clock = now])
    <3>1. /\ call'[r].at = "passed" /\ call'[r].clock = now
          /\ \A q \in Requests : q # r => call'[q] = call[q]
      BY <2>5, <1>0 DEF Become, Call
    <3>2. /\ store'[Key(r)] = Increased(r, Current(own))
          /\ \A k \in Keys : k # Key(r) => store'[k] = store[k]
      BY <2>5, <1>w
    <3>3. /\ store'[Key(r)].last = now
          /\ store'[Key(r)].count <= Cardinality(Chain(Key(r), now)) + 1
      BY <2>2, <2>3, <3>2, <1>i
    <3>4. ~Exact
      BY <2>2 DEF Exact
    <3> QED BY <2>1, <2>2, <3>1, <3>2, <3>3, <3>4, <1>0, <1>t
  <2> QED BY <1>3, <2>3, <2>4, <2>5 DEF Consume
<1>4. ASSUME NEW r \in Requests, Count(r) PROVE CauseInv'
  <2>1. At(r, "count") /\ ~At(r, "passed") /\ UNCHANGED <<deploy, now>>
    BY <1>4 DEF Count, At
  <2>2. Storage = "secondary"
    BY <2>1 DEF CauseInv, RequestInv, Places
  <2>3. PICK own \in Keys : own = Key(r)
    BY <1>0
  <2> DEFINE c == Current(own)
             n == c.count + 1
             e == IF c = None THEN now + W(own) ELSE c.exp
  <2>4. /\ store'[own] = [count |-> n, last |-> now, exp |-> e]
        /\ \A k \in Keys : k # Key(r) => store'[k] = store[k]
    BY <1>4, <2>3, <1>w, <1>0 DEF Count
  <2>5. /\ call'[r].at = IF n <= MaxOf(r) THEN "passed" ELSE "blocked"
        /\ call'[r].clock = now
        /\ \A q \in Requests : q # r => call'[q] = call[q]
    BY <1>4, <2>3, <1>0 DEF Count, Become, Call
  <2>6. Onward
    BY <2>1, <2>5, <1>o
  <2>7. c # None => c = store[own] /\ now < store[own].exp /\ store[own] # None
    BY <1>v
  <2>8. c = None => c.count = 0
    BY DEF None
  <2>9. n \in Nat /\ e \in Nat
    BY <2>7, <2>8, <1>0
  <2> HIDE DEF c
  <2>10. c # None =>
           /\ store[own].exp <= now + W(own)
           /\ \/ store[own].count <= Cardinality(Lifetime(own))
              \/ deploy.rule[own].max <= Cardinality(Lifetime(own))
    BY <2>2, <2>7 DEF CauseInv, BackedInLife
  <2>11. Lifetime(own) \in SUBSET Passed(own) /\ Cardinality(Lifetime(own)) \in Nat
         /\ IsFiniteSet(Lifetime(own))
    BY ChainTyped DEF Lifetime
  <2>12. /\ W(own)' = W(own) /\ Storage' = Storage /\ Key(r)' = own
         /\ deploy'.rule[own].max = deploy.rule[own].max
         /\ MaxOf(r) = deploy.rule[own].max
    BY <2>1, <2>3, <1>0 DEF W, Storage, Key
  <2>13. /\ Passed(own) \subseteq Passed(own)'
         /\ \A q \in Passed(own) : Clock(q)' = Clock(q)
    BY <2>6, ChainGrows
  <2>14. c # None => Lifetime(own) \subseteq Lifetime(own)'
    BY <2>4, <2>7, <2>12, <2>13 DEF Lifetime
  <2>15. IsFiniteSet(Lifetime(own)') /\ Cardinality(Lifetime(own)') \in Nat
    <3>1. Lifetime(own)' \subseteq Requests
      BY DEF Lifetime, Passed
    <3> QED BY <3>1, ConstantsAssumption, FS_Subset, FS_CardinalityType
  <2>16. c # None => Cardinality(Lifetime(own)) <= Cardinality(Lifetime(own)')
    BY <2>14, <2>15, FS_Subset
  <2>17. e <= now + W(own)
    BY <2>7, <2>10, <1>0
  <2>18. ASSUME n <= MaxOf(r) PROVE r \in Lifetime(own)' /\ r \notin Lifetime(own)
    <3>1. r \in Passed(own)' /\ Clock(r)' = now
      BY <2>5, <2>12, <2>18 DEF Passed, At, Clock
    <3>2. r \notin Passed(own)
      BY <2>1 DEF Passed
    <3>3. store'[own].exp = e
      BY <2>4
    <3> QED BY <3>1, <3>2, <3>3, <2>11, <2>12, <2>17 DEF Lifetime
  <2>19. BackedInLife(own)'
    <3>1. store'[own].count = n /\ store'[own].exp = e
      BY <2>4
    <3>2. n <= Cardinality(Lifetime(own)') \/ deploy.rule[own].max <= Cardinality(Lifetime(own)')
      <4>1. CASE c = None
        <5>1. n = 1 /\ n <= MaxOf(r)
          BY <4>1, <2>8, <2>12, <1>0
        <5>2. {r} \subseteq Lifetime(own)'
          BY <5>1, <2>18
        <5>3. Cardinality({r}) <= Cardinality(Lifetime(own)') /\ Cardinality({r}) = 1
          BY <5>2, <2>15, FS_Subset, FS_Singleton
        <5> QED BY <5>1, <5>3
      <4>2. CASE c # None /\ n <= MaxOf(r)
        <5>1. Lifetime(own) \cup {r} \subseteq Lifetime(own)'
          BY <4>2, <2>14, <2>18
        <5>2. Cardinality(Lifetime(own) \cup {r}) = Cardinality(Lifetime(own)) + 1
          BY <4>2, <2>11, <2>18, FS_AddElement
        <5>3. Cardinality(Lifetime(own)) + 1 <= Cardinality(Lifetime(own)')
          BY <5>1, <5>2, <2>15, FS_Subset
        <5>4. n = store[own].count + 1
          BY <4>2, <2>7
        <5> QED BY <5>3, <5>4, <4>2, <2>10, <2>11, <2>15, <1>0
      <4>3. CASE c # None /\ ~(n <= MaxOf(r))
        <5>1. n = store[own].count + 1
          BY <4>3, <2>7
        <5>2. deploy.rule[own].max <= store[own].count
          BY <5>1, <4>3, <2>12, <1>0
        <5> QED BY <5>2, <4>3, <2>10, <2>11, <2>15, <2>16, <1>0
      <4> QED BY <4>1, <4>2, <4>3
    <3>3. now' + W(own)' = now + W(own)
      BY <2>1, <2>12
    <3> QED BY <3>1, <3>2, <3>3, <2>12, <2>17 DEF BackedInLife
  <2>20. Backed(own)'
    BY <2>2, <2>12 DEF Backed
  <2>21. RequestInv(r)'
    <3>1. CASE n <= MaxOf(r)
      BY <3>1, <2>5 DEF RequestInv, Pending, Caused, Places, FreshRow, At
    <3>2. CASE ~(n <= MaxOf(r))
      <4>1. c # None
        BY <3>2, <2>8, <2>12, <1>0
      <4>2. n = store[own].count + 1
        BY <4>1, <2>7
      <4>3. MaxOf(r) <= Cardinality(Lifetime(own))
        BY <4>1, <4>2, <3>2, <2>10, <2>11, <2>12, <1>0
      <4>4. Lifetime(own) \subseteq Chain(own, now)
        <5> SUFFICES ASSUME NEW q \in Lifetime(own) PROVE q \in Chain(own, now)
          OBVIOUS
        <5>1. q \in Passed(own) /\ store[own].exp <= Clock(q) + W(own) /\ Clock(q) \in Nat
          BY ChainTyped DEF Lifetime
        <5>2. now <= Clock(q) + W(own)
          BY <5>1, <4>1, <2>7, <1>0
        <5> QED BY <5>1, <5>2, <1>0, ChainNear
      <4>5. /\ Cardinality(Lifetime(own)) <= Cardinality(Chain(own, now))
            /\ Cardinality(Chain(own, now)) \in Nat
        BY <4>4, <2>11, <1>0, <1>z, <2>3, ChainTyped
      <4>6. MaxOf(r) <= Cardinality(Chain(Key(r), now))
        BY <4>3, <4>5, <2>3, <2>11, <1>0
      <4>7. call'[r].at = "blocked"
        BY <3>2, <2>5
      <4> QED BY <4>6, <4>7, <2>1, <2>5, <1>k
    <3> QED BY <3>1, <3>2
  <2>22. ~Exact
    BY <2>2 DEF Exact
  <2>23. Backed(Key(r))' /\ BackedInLife(Key(r))'
    BY <2>12, <2>19, <2>20
  <2> QED BY <2>1, <2>4, <2>5, <2>21, <2>22, <2>23, <1>r
<1>5. ASSUME NEW r \in Requests, Get(r) PROVE CauseInv'
  <2>1. At(r, "get") /\ ~At(r, "passed") /\ UNCHANGED <<deploy, store, now>>
    BY <1>5 DEF Get, At
  <2>2. Storage = "legacy" /\ ~Exact
    BY <2>1 DEF CauseInv, RequestInv, Places, Exact, At
  <2>3. PICK own \in Keys : own = Key(r)
    BY <1>0
  <2>4. /\ call'[r].at = IF Blocks(r, Current(own)) THEN "blocked" ELSE "set"
        /\ call'[r].clock = now /\ call'[r].data = Increased(r, Current(own))
        /\ \A q \in Requests : q # r => call'[q] = call[q]
    <3> DEFINE x == [at    |-> IF Blocks(r, Current(own)) THEN "blocked" ELSE "set",
                     clock |-> now, data |-> Increased(r, Current(own))]
    <3>1. Become(r, x)
      BY <1>5, <2>3 DEF Get
    <3>2. /\ x.at = IF Blocks(r, Current(own)) THEN "blocked" ELSE "set"
          /\ x.clock = now /\ x.data = Increased(r, Current(own))
      OBVIOUS
    <3> HIDE DEF x
    <3> QED BY <3>1, <3>2, <1>b
  <2>5. CASE Blocks(r, Current(own))
    <3>1. MaxOf(r) <= Cardinality(Chain(Key(r), now)) /\ call'[r].at = "blocked"
      BY <2>2, <2>3, <2>4, <2>5, <1>i
    <3>2. RequestInv(r)'
      BY <2>1, <2>4, <3>1, <1>k
    <3> QED BY <2>1, <2>4, <3>2, <1>r
  <2>6. CASE ~Blocks(r, Current(own))
    <3>1. Onward
      BY <2>1, <2>4, <1>o
    <3>2. PICK t \in Nat : t = now
      BY <1>0
    <3>3. /\ Cardinality(Chain(own, t)) <= Cardinality(Chain(own, t)')
          /\ Cardinality(Chain(own, t)) \in Nat /\ Cardinality(Chain(own, t)') \in Nat
      BY <3>1, ChainGrows, ChainSizes
    <3>4. Key(r)' = own /\ Clock(r)' = t /\ Storage' = Storage
      BY <2>1, <2>3, <2>4, <3>2 DEF Key, Clock, Storage
    <3>5. /\ Increased(r, Current(own)).count <= Cardinality(Chain(own, t)) + 1
          /\ Increased(r, Current(own)).count \in Nat \ {0}
          /\ Increased(r, Current(own)).last = t
      BY <2>2, <2>3, <3>2, <1>i
    <3>6. call'[r].data.count <= Cardinality(Chain(own, t)') + 1
          /\ call'[r].data.count # 0 /\ call'[r].data.last = t
      BY <2>4, <3>3, <3>5
    <3>7. Pending(r)'
      BY <3>4, <3>6 DEF Pending
    <3>8. RequestInv(r)'
      BY <2>2, <2>4, <2>6, <3>4, <3>7 DEF RequestInv, Caused, Places, FreshRow, At
    <3> QED BY <2>1, <2>4, <3>8, <1>r
  <2> QED BY <2>5, <2>6
<1>6. ASSUME NEW r \in Requests, Set(r) PROVE CauseInv'
  <2>1. At(r, "set") /\ ~At(r, "passed") /\ UNCHANGED <<deploy, now>>
    BY <1>6 DEF Set, At
  <2>2. Storage = "legacy" /\ ~Exact
    BY <2>1 DEF CauseInv, RequestInv, Places, Exact, At
  <2>3. PICK own \in Keys : own = Key(r)
    BY <1>0
  <2>4. PICK t \in Nat : t = Clock(r)
    BY <1>0
  <2>5. /\ call'[r].at = "passed" /\ call'[r].clock = t
        /\ \A q \in Requests : q # r => call'[q] = call[q]
    BY <1>6, <2>4, <1>g DEF Set, Clock
  <2>6. /\ store'[Key(r)].count = call[r].data.count /\ store'[Key(r)].last = call[r].data.last
        /\ \A k \in Keys : k # Key(r) => store'[k] = store[k]
    BY <1>6, <1>w, <1>0 DEF Set, Counter
  <2>7. /\ call[r].data.last = t
        /\ call[r].data.count <= Cardinality(Chain(own, t)) + 1
    BY <2>1, <2>3, <2>4 DEF CauseInv, RequestInv, Pending
  <2> QED BY <2>1, <2>2, <2>3, <2>5, <2>6, <2>7, <1>t
<1>7. ASSUME NEW r \in Requests, Fail(r) PROVE CauseInv'
  <2>1. ~At(r, "passed")
    BY <1>7 DEF Fail, At, Steps
  <2> QED BY <1>7, <2>1, <1>g, <1>n DEF Fail
<1>8. ASSUME NEW cutoff \in sweeps, Sweep(cutoff) PROVE CauseInv'
  <2>1. UNCHANGED <<deploy, call, now>>
    BY <1>8 DEF Sweep
  <2>2. Onward
    BY <2>1 DEF Onward
  <2>3. \A k \in Keys : store'[k] \in {store[k], None}
    BY <1>8 DEF Sweep
  <2>4. ASSUME Exact, NEW k \in Keys PROVE RowKept(k)
    <3>1. cutoff \in Int /\ cutoff + deploy.longest <= now /\ W(k) <= deploy.longest
          /\ deploy.longest \in Nat
      BY <2>4, DeployTyped DEF LimitInv, Exact, TypeOK
    <3>2. store'[k] = store[k] \/ store[k].last < cutoff
      BY <1>8 DEF Sweep
    <3> QED BY <3>1, <3>2, <1>0 DEF RowKept
  <2> QED BY <1>0, <2>1, <2>2, <2>3, <2>4, CauseFrame
<1>9. CASE Tick
  <2>1. /\ UNCHANGED <<deploy, store, call>> /\ now <= now'
    BY <1>9, <1>0 DEF Tick
  <2>2. Onward
    BY <2>1 DEF Onward
  <2> QED BY <2>1, <2>2, CauseFrame DEF RowKept
<1>10. CASE UNCHANGED vars
  <2>1. /\ UNCHANGED <<deploy, store, call>> /\ now <= now'
    BY <1>10, <1>0 DEF vars
  <2>2. Onward
    BY <2>1 DEF Onward
  <2> QED BY <2>1, <2>2, CauseFrame DEF RowKept
<1> QED BY <1>1, <1>2, <1>3, <1>4, <1>5, <1>6, <1>7, <1>8, <1>9, <1>10 DEF Next, Step, Idle

LEMMA CauseFromInv == TypeOK /\ CauseInv => BlockedForCause
<1> SUFFICES ASSUME TypeOK, CauseInv, NEW r \in Requests, At(r, "blocked"), ~OnTheEdge(r)
             PROVE  Cardinality(Counted(r)) >= MaxOf(r)
  BY DEF BlockedForCause
<1>1. Key(r) \in Keys /\ Clock(r) \in Nat /\ MaxOf(r) \in Nat
  BY DeployTyped DEF TypeOK, Call, Clock, MaxOf
<1>2. MaxOf(r) <= Cardinality(Chain(Key(r), Clock(r)))
  BY <1>1 DEF CauseInv, RequestInv, Caused, At
<1>3. Counted(r) = Chain(Key(r), Clock(r))
  BY DEF Counted, Chain, Clock
<1>4. Cardinality(Chain(Key(r), Clock(r))) \in Nat
  BY <1>1, ChainTyped
<1> QED BY <1>1, <1>2, <1>3, <1>4

\* A request is refused only when its key has passed as many requests as its
\* rule allows since it was last quiet for a window: in the memory of the
\* process, in a secondary storage and in a storage that only gets and sets,
\* however calls overlap, fail and are late; and in the database when its calls
\* take no time and no rule's window outlasts the sweeps'.
THEOREM RefusedForCause == Spec => [](Prompt => BlockedForCause)
<1> DEFINE Inv == /\ TypeOK /\ ReadInv /\ (Exact => LimitInv)
                  /\ (Prompt => CauseInv)
<1>1. Init => Inv
  BY InitTypeOK, InitReadInv, InitLimitInv, InitCauseInv
<1>2. Inv /\ [Next]_vars => Inv'
  <2>1. [Next]_vars => deploy' = deploy
    BY DEF Next, Start, Step, InDatabase, Read, Decide, Create, Recheck, Reset, Increment, Verify,
           Consume, Count, Get, Set, Fail, Sweep, Tick, Idle, vars
  <2>2. [Next]_vars => (Exact' <=> Exact) /\ (Prompt' <=> Prompt)
    BY <2>1 DEF Exact, Prompt, Storage, W
  <2> QED BY <2>2, StepTypeOK, StepReadInv, StepLimitInv, StepCauseInv
<1>3. Inv => (Prompt => BlockedForCause)
  BY CauseFromInv
<1> HIDE DEF Inv
<1> QED BY <1>1, <1>2, <1>3, PTL DEF Spec

-----------------------------------------------------------------------------
(* The rate limiter and the components beside it: each runs by its own       *)
(* specification. What the proof modules of two of them show of the          *)
(* component alone is carried over to the component among the others.        *)

LEMMA Parts ==
  AllSpec => /\ Spec /\ OG!Spec /\ AK!Spec /\ TH!Spec /\ AF!Spec /\ RV!Spec /\ SB!Spec
             /\ KR!Spec
<1>1. AllInit => /\ Init /\ OG!Init /\ AK!Init /\ TH!Init /\ AF!Init /\ RV!Init /\ SB!Init
                 /\ KR!Init
  BY DEF AllInit
<1>2. [AllNext]_allVars => [OG!Next]_OG!vars
  BY DEF AllNext, allVars, OG!vars, organization
<1>3. [AllNext]_allVars => [AK!Next]_AK!vars
  BY DEF AllNext, allVars, AK!vars, apiKeys
<1>4. [AllNext]_allVars => [TH!Next]_TH!vars
  BY DEF AllNext, allVars, TH!vars, transactionHooks
<1>5. [AllNext]_allVars => [AF!Next]_AF!vars
  BY DEF AllNext, allVars, AF!vars, adapterFallbacks
<1>6. [AllNext]_allVars => [RV!Next]_RV!vars
  BY DEF AllNext, allVars, RV!vars, reservation
<1>7. [AllNext]_allVars => [SB!Next]_SB!vars
  BY DEF AllNext, allVars, SB!vars, subscriptions
<1>8. [AllNext]_allVars => [KR!Next]_KR!vars
  BY DEF AllNext, allVars, KR!vars, keyRotation
<1>9. [AllNext]_allVars => [Next]_vars
  BY DEF AllNext, allVars, vars
<1> QED BY <1>1, <1>2, <1>3, <1>4, <1>5, <1>6, <1>7, <1>8, <1>9, PTL
        DEF AllSpec, Spec, OG!Spec, AK!Spec, TH!Spec, AF!Spec, RV!Spec, SB!Spec, KR!Spec

-----------------------------------------------------------------------------
(* Transactions: the log of a request *)

HooksIdxs(log) == 1..Len(log)

\* What is said of the write i in a call c.
HooksSoundAt(c, i) ==
  /\ c.log[i].ctx \in {0, 1}
  /\ c.log[i].fate = "open" => /\ c.at \in {"work", "delete"} /\ c.depth > 0 /\ hDeploy.atomic
                               /\ c.log[i].hook = "queued"
  /\ c.log[i].hook = "queued" =>
       IF c.log[i].ctx = 1 THEN c.depth > 0 \/ c.at = "dead" ELSE c.at \notin {"ok", "failed"}
  /\ c.log[i].hook = "dropped" =>
       \E j \in 1..(i - 1) : c.log[j].hook = "threw" /\ c.log[j].ctx = c.log[i].ctx

\* Hooks are run outside of transactions and when they end; a hook of a transaction's
\* queue waits only in it.
HooksFine(c) ==
  /\ c.at \in {"idle", "now", "close", "ok", "failed"} => c.depth = 0
  /\ c.at = "drain" => c.depth = 1
  /\ c.at = "idle" => c.log = <<>>
  /\ \A i \in HooksIdxs(c.log) : HooksSoundAt(c, i)

HooksTyped ==
  /\ hDeploy \in Transactions /\ hRow \in BOOLEAN
  /\ holder \subseteq Requests /\ hFaults \in Nat
  /\ hCall \in [Requests -> TH!Call]
HooksCalls == \A r \in Requests : HooksFine(hCall[r])

LEMMA HooksLogTyped ==
  ASSUME NEW c \in TH!Call
  PROVE  /\ c.log \in Seq(TH!Write) /\ Len(c.log) \in Nat /\ DOMAIN c.log = HooksIdxs(c.log)
         /\ \A i \in HooksIdxs(c.log) : c.log[i] \in TH!Write
  BY LenProperties, ElementOfSeq DEF TH!Call, HooksIdxs

\* A function on the indices of a log is a log.
LEMMA HooksLogMade ==
  ASSUME NEW n \in Nat, NEW f \in [1..n -> TH!Write]
  PROVE  f \in Seq(TH!Write) /\ Len(f) = n /\ DOMAIN f = 1..n
<1>1. f \in Seq(TH!Write)
  BY SeqDef
<1>2. DOMAIN f = 1..n
  OBVIOUS
<1>3. DOMAIN f = 1..Len(f) /\ Len(f) \in Nat
  BY <1>1, LenProperties
<1> QED BY <1>1, <1>2, <1>3

\* The first hook of a queue that is not empty.
LEMMA HooksFirstQueued ==
  ASSUME HooksTyped, NEW r \in Requests, TH!Queued(r) # {}
  PROVE  TH!First(r) \in TH!Queued(r) /\ \A j \in TH!Queued(r) : TH!First(r) <= j
<1>1. TH!Queued(r) \subseteq Nat
  BY HooksLogTyped DEF HooksTyped, TH!Queued, TH!Log, HooksIdxs
<1>2. PICK i \in TH!Queued(r) : \A j \in TH!Queued(r) : ~(<<j, i>> \in OpToRel(<, Nat))
  BY <1>1, NatLessThanWellFounded, WFMin
<1>3. ASSUME NEW j \in TH!Queued(r) PROVE i <= j
  <2>1. i \in Nat /\ j \in Nat
    BY <1>1
  <2>2. <<j, i>> \in Nat \X Nat /\ <<j, i>>[1] = j /\ <<j, i>>[2] = i
    BY <2>1
  <2>3. ~(j < i)
    BY <1>2, <2>2 DEF OpToRel
  <2> QED BY <2>1, <2>3
<1> QED BY <1>3 DEF TH!First

-----------------------------------------------------------------------------
(* What the steps do *)

\* The request goes on; its writes are what they were.
HooksKeeps(r, c) ==
  /\ Len(c.log) = Len(TH!Log(r))
  /\ \A i \in HooksIdxs(TH!Log(r)) : /\ c.log[i].op = TH!Log(r)[i].op /\ c.log[i].hit = TH!Log(r)[i].hit
                                     /\ c.log[i].fate = TH!Log(r)[i].fate
  /\ hCall[r].at \in {"work", "delete"} /\ hCall[r].depth > 0 /\ r \in holder =>
       c.at \in {"work", "delete"} /\ c.depth > 0
  /\ UNCHANGED <<hRow, holder>>

\* Its open writes get the fate of their transaction.
HooksEnds(r, c, fate) ==
  /\ Len(c.log) = Len(TH!Log(r))
  /\ \A i \in HooksIdxs(TH!Log(r)) :
       /\ c.log[i].op = TH!Log(r)[i].op /\ c.log[i].hit = TH!Log(r)[i].hit
       /\ c.log[i].fate = IF TH!Log(r)[i].fate = "open" THEN fate ELSE TH!Log(r)[i].fate
  /\ holder' = holder \ {r}
  /\ hRow' = (hRow /\ ~(fate = "kept" /\ r \in holder))

\* It writes w, and perhaps takes the row.
HooksAdds(r, c, w) ==
  /\ c.log = Append(TH!Log(r), w) /\ c.depth = hCall[r].depth
     /\ hCall[r].at \in {"work", "delete"}
  /\ c.depth > 0 => c.at \in {"work", "delete"}
  /\ w.fate = IF c.depth > 0 /\ hDeploy.atomic THEN "open" ELSE "kept"
  /\ IF w.op # "write" /\ w.hit THEN TH!Visible(r) /\ TH!Unlocked(r) /\ TH!Remove(r)
                                ELSE UNCHANGED <<hRow, holder>>

HooksDoes(r, c) ==
  /\ c \in TH!Call /\ HooksFine(c) /\ TH!Become(r, c)
  /\ \/ HooksKeeps(r, c)
     \/ \E fate \in {"kept", "undone"} : HooksEnds(r, c, fate)
     \/ \E w \in TH!Write : HooksAdds(r, c, w)

\* A step that leaves the log alone.
LEMMA HooksSameLog ==
  ASSUME NEW r \in Requests, HooksTyped, HooksCalls, NEW c \in TH!Call, c.log = TH!Log(r),
         TH!Become(r, c),
         UNCHANGED <<hRow, holder>>,
         c.at \in {"idle", "now", "close", "ok", "failed"} => c.depth = 0,
         c.at = "drain" => c.depth = 1,
         c.at # "idle", c.at # "dead",
         ~TH!At(r, "idle") => hCall[r].at \in {"work", "now", "drain", "close"},
         hCall[r].at \in {"work", "delete"} /\ hCall[r].depth > 0 =>
           c.at \in {"work", "delete"} /\ c.depth > 0,
         \A i \in HooksIdxs(TH!Log(r)) : TH!Log(r)[i].hook = "queued" =>
           IF TH!Log(r)[i].ctx = 1 THEN c.depth > 0 ELSE c.at \notin {"ok", "failed"}
  PROVE  HooksDoes(r, c)
<1>1. HooksFine(hCall[r])
  BY DEF HooksCalls
<1>2. ASSUME NEW i \in HooksIdxs(c.log) PROVE HooksSoundAt(c, i)
  BY <1>1, <1>2, EmptySeq DEF HooksFine, HooksSoundAt, TH!Log, TH!At, HooksIdxs
<1>3. HooksFine(c)
  BY <1>2 DEF HooksFine
<1>4. HooksKeeps(r, c)
  BY DEF HooksKeeps, TH!Log
<1> QED BY <1>3, <1>4 DEF HooksDoes

\* A write of w, with what follows at once.
LEMMA HooksWritten1 ==
  ASSUME TH!ConstantsOK, NEW r \in Requests, HooksTyped, HooksCalls,
         hCall[r].at \in {"work", "delete"},
         NEW op \in TH!Operations, NEW hit \in BOOLEAN, TH!Written(r, op, hit),
         IF op # "write" /\ hit THEN TH!Visible(r) /\ TH!Unlocked(r) /\ TH!Remove(r)
                                ELSE UNCHANGED <<hRow, holder>>
  PROVE  \E c \in TH!Call : HooksDoes(r, c)
<1> DEFINE open == hCall[r].depth > 0 /\ hDeploy.atomic
           w == [op |-> op, ctx |-> TH!Context(hCall[r].depth), hit |-> hit,
                 fate |-> IF open THEN "open" ELSE "kept", hook |-> "queued"]
           pc == IF hCall[r].depth = 0 /\ ~hDeploy.handler[r] THEN "now" ELSE "work"
           c == [hCall[r] EXCEPT !.at = pc, !.log = Append(@, w)]
<1>1. hCall[r] \in TH!Call /\ HooksFine(hCall[r])
  BY DEF HooksTyped, HooksCalls
<1>2. hCall[r].depth \in 0..2
  BY <1>1 DEF TH!Call
<1>3. w \in TH!Write
  BY <1>2 DEF TH!Write, TH!Context
<1>4. /\ TH!Log(r) \in Seq(TH!Write) /\ Len(TH!Log(r)) \in Nat
      /\ Append(TH!Log(r), w) \in Seq(TH!Write)
         /\ Len(Append(TH!Log(r), w)) = Len(TH!Log(r)) + 1
      /\ \A i \in HooksIdxs(TH!Log(r)) : Append(TH!Log(r), w)[i] = TH!Log(r)[i]
      /\ Append(TH!Log(r), w)[Len(TH!Log(r)) + 1] = w
  BY <1>1, <1>3, HooksLogTyped, AppendProperties DEF TH!Log, HooksIdxs
<1>5. pc \in TH!Steps
  BY DEF TH!Steps
<1>6. /\ c \in TH!Call /\ c.log = Append(TH!Log(r), w) /\ c.depth = hCall[r].depth /\ c.at = pc
  BY <1>1, <1>4, <1>5 DEF TH!Call, TH!Log
<1>7. TH!Become(r, c)
  BY DEF TH!Written
<1>8. /\ w.hook = "queued" /\ w.fate = (IF open THEN "open" ELSE "kept") /\ w.op = op
      /\ w.hit = hit /\ w.ctx = (IF hCall[r].depth = 0 THEN 0 ELSE 1)
  BY DEF TH!Context
<1> HIDE DEF c, w, pc
<1>9. pc \in {"work", "now"} /\ (pc = "now" => hCall[r].depth = 0)
  BY DEF pc
<1>10. ASSUME NEW i \in HooksIdxs(c.log) PROVE HooksSoundAt(c, i)
  <2>1. CASE i \in HooksIdxs(TH!Log(r))
    <3>1. HooksSoundAt(hCall[r], i)
      BY <1>1, <2>1 DEF HooksFine, TH!Log
    <3>2. \A j \in 1..i : c.log[j] = TH!Log(r)[j]
      BY <1>4, <1>6, <2>1 DEF HooksIdxs
    <3>3. i \in Nat \ {0}
      BY <1>4, <2>1 DEF HooksIdxs
    <3>4. c.log[i] = hCall[r].log[i] /\ \A j \in 1..(i - 1) : c.log[j] = hCall[r].log[j]
      BY <3>2, <3>3 DEF TH!Log
    <3>5. /\ c.depth = hCall[r].depth /\ c.at \in {"work", "now"}
          /\ hCall[r].depth > 0 => c.at = "work"
      BY <1>2, <1>6, <1>9
    <3>6. c.log[i].hook = "dropped" =>
            \E j \in 1..(i - 1) : c.log[j].hook = "threw" /\ c.log[j].ctx = c.log[i].ctx
      BY <3>1, <3>4 DEF HooksSoundAt
    <3> QED BY <3>1, <3>4, <3>5, <3>6 DEF HooksSoundAt
  <2>2. CASE i = Len(TH!Log(r)) + 1
    BY <1>2, <1>4, <1>6, <1>8, <1>9, <2>2 DEF HooksSoundAt
  <2> QED BY <1>4, <1>6, <1>10, <2>1, <2>2 DEF HooksIdxs
<1>11. HooksFine(c)
  BY <1>6, <1>9, <1>10 DEF HooksFine
<1>12. HooksAdds(r, c, w)
  BY <1>2, <1>6, <1>8, <1>9 DEF HooksAdds
<1> QED BY <1>3, <1>6, <1>7, <1>11, <1>12 DEF HooksDoes

\* The end of a transaction, or of the process.
LEMMA HooksSettles ==
  ASSUME NEW r \in Requests, HooksTyped, HooksCalls, NEW fate \in {"kept", "undone"},
         NEW pc \in {"drain", "dead"}, NEW d \in 0..2, NEW e \in BOOLEAN,
         TH!Become(r, [hCall[r] EXCEPT !.at = pc, !.depth = d, !.log = TH!Settled(@, fate), !.error = e]),
         pc = "drain" => d = 1,
         holder' = holder \ {r}, hRow' = (hRow /\ ~(fate = "kept" /\ r \in holder))
  PROVE  \E c \in TH!Call : HooksDoes(r, c)
<1> DEFINE log == TH!Settled(TH!Log(r), fate)
           c == [hCall[r] EXCEPT !.at = pc, !.depth = d, !.log = TH!Settled(@, fate), !.error = e]
<1>1. hCall[r] \in TH!Call /\ HooksFine(hCall[r])
  BY DEF HooksTyped, HooksCalls
<1>2. /\ TH!Log(r) \in Seq(TH!Write) /\ Len(TH!Log(r)) \in Nat
         /\ DOMAIN TH!Log(r) = HooksIdxs(TH!Log(r))
      /\ \A i \in HooksIdxs(TH!Log(r)) : TH!Log(r)[i] \in TH!Write
  BY <1>1, HooksLogTyped DEF TH!Log
<1>3. ASSUME NEW i \in HooksIdxs(TH!Log(r)), NEW w, w = TH!Log(r)[i]
      PROVE  /\ [w EXCEPT !.fate = fate] \in TH!Write
             /\ [w EXCEPT !.fate = fate].hook = w.hook /\ [w EXCEPT !.fate = fate].ctx = w.ctx
             /\ [w EXCEPT !.fate = fate].op = w.op /\ [w EXCEPT !.fate = fate].hit = w.hit
             /\ [w EXCEPT !.fate = fate].fate = fate
  BY <1>2, <1>3 DEF TH!Write
<1>4. log = [i \in HooksIdxs(TH!Log(r)) |->
               IF TH!Log(r)[i].fate = "open" THEN [TH!Log(r)[i] EXCEPT !.fate = fate]
               ELSE TH!Log(r)[i]]
  BY <1>2 DEF TH!Settled
<1>5. /\ log \in Seq(TH!Write) /\ Len(log) = Len(TH!Log(r))
  <2>1. log \in [1..Len(TH!Log(r)) -> TH!Write]
    BY <1>2, <1>3, <1>4 DEF HooksIdxs
  <2> HIDE DEF log
  <2> QED BY <1>2, <2>1, HooksLogMade
<1>6. \A i \in HooksIdxs(TH!Log(r)) :
        /\ log[i].hook = TH!Log(r)[i].hook /\ log[i].ctx = TH!Log(r)[i].ctx
        /\ log[i].op = TH!Log(r)[i].op /\ log[i].hit = TH!Log(r)[i].hit
        /\ log[i].fate = IF TH!Log(r)[i].fate = "open" THEN fate ELSE TH!Log(r)[i].fate
  BY <1>3, <1>4
<1> HIDE DEF log
<1>7. c = [hCall[r] EXCEPT !.at = pc, !.depth = d, !.log = log, !.error = e]
  BY DEF log, TH!Log
<1>8. c \in TH!Call /\ c.log = log /\ c.depth = d /\ c.at = pc
  BY <1>1, <1>5, <1>7 DEF TH!Call, TH!Steps, TH!Ended
<1>9. TH!Become(r, c)
  OBVIOUS
<1> HIDE DEF c
<1>10. ASSUME NEW i \in HooksIdxs(c.log) PROVE HooksSoundAt(c, i)
  <2>1. i \in HooksIdxs(TH!Log(r)) /\ i \in Nat \ {0}
    BY <1>2, <1>5, <1>8 DEF HooksIdxs
  <2>2. HooksSoundAt(hCall[r], i)
    BY <1>1, <2>1 DEF HooksFine, TH!Log
  <2>3. \A j \in 1..(i - 1) : /\ c.log[j].hook = hCall[r].log[j].hook
                              /\ c.log[j].ctx = hCall[r].log[j].ctx
    BY <1>2, <1>6, <1>8, <2>1 DEF HooksIdxs, TH!Log
  <2>4. /\ c.log[i].hook = hCall[r].log[i].hook /\ c.log[i].ctx = hCall[r].log[i].ctx
        /\ c.log[i].fate # "open"
    BY <1>6, <1>8, <2>1 DEF TH!Log
  <2> QED BY <1>8, <2>2, <2>3, <2>4 DEF HooksSoundAt
<1>11. HooksFine(c)
  BY <1>8, <1>10 DEF HooksFine
<1>12. HooksEnds(r, c, fate)
  BY <1>5, <1>6, <1>8 DEF HooksEnds
<1> QED BY <1>8, <1>9, <1>11, <1>12 DEF HooksDoes

\* Hooks that run, throw and are dropped.
LEMMA HooksMarks ==
  ASSUME NEW r \in Requests, HooksTyped, HooksCalls, TH!InHooks(r), TH!Queued(r) # {},
         NEW c \in TH!Call,
         TH!Become(r, c), UNCHANGED <<hRow, holder>>,
         c.at = hCall[r].at, c.depth = hCall[r].depth, Len(c.log) = Len(TH!Log(r)),
         \A i \in HooksIdxs(TH!Log(r)) :
           /\ c.log[i].op = TH!Log(r)[i].op /\ c.log[i].hit = TH!Log(r)[i].hit
           /\ c.log[i].fate = TH!Log(r)[i].fate /\ c.log[i].ctx = TH!Log(r)[i].ctx
           /\ c.log[i].hook = "queued" => TH!Log(r)[i].hook = "queued"
           /\ TH!Log(r)[i].hook = "threw" => c.log[i].hook = "threw"
           /\ c.log[i].hook = "dropped" =>
                \/ TH!Log(r)[i].hook = "dropped"
                \/ i \in TH!Queued(r) /\ i # TH!First(r) /\ c.log[TH!First(r)].hook = "threw"
  PROVE  HooksDoes(r, c)
<1>1. hCall[r] \in TH!Call /\ HooksFine(hCall[r])
  BY DEF HooksTyped, HooksCalls
<1>2. Len(TH!Log(r)) \in Nat /\ DOMAIN TH!Log(r) = HooksIdxs(TH!Log(r))
      /\ HooksIdxs(c.log) = HooksIdxs(TH!Log(r))
  BY <1>1, HooksLogTyped DEF TH!Log, HooksIdxs
<1>3. /\ TH!First(r) \in TH!Queued(r) /\ (\A j \in TH!Queued(r) : TH!First(r) <= j)
      /\ TH!Queued(r) \subseteq HooksIdxs(TH!Log(r))
  BY <1>2, HooksFirstQueued DEF TH!Queued
<1>4. ASSUME NEW i \in HooksIdxs(c.log) PROVE HooksSoundAt(c, i)
  <2>1. HooksSoundAt(hCall[r], i) /\ i \in HooksIdxs(TH!Log(r)) /\ i \in Nat \ {0}
        /\ i <= Len(TH!Log(r))
    BY <1>1, <1>2, <1>4 DEF HooksFine, TH!Log, HooksIdxs
  <2>2. c.log[i].fate # "open"
    BY <2>1 DEF HooksSoundAt, TH!InHooks, TH!Log
  <2>3. c.log[i].hook = "dropped" =>
          \E j \in 1..(i - 1) : c.log[j].hook = "threw" /\ c.log[j].ctx = c.log[i].ctx
    <3>1. CASE TH!Log(r)[i].hook = "dropped"
      <4>1. PICK j \in 1..(i - 1) : TH!Log(r)[j].hook = "threw"
            /\ TH!Log(r)[j].ctx = TH!Log(r)[i].ctx
        BY <2>1, <3>1 DEF HooksSoundAt, TH!Log
      <4>2. j \in HooksIdxs(TH!Log(r))
        BY <1>2, <2>1 DEF HooksIdxs
      <4> QED BY <2>1, <4>1, <4>2
    <3>2. CASE i \in TH!Queued(r) /\ i # TH!First(r) /\ c.log[TH!First(r)].hook = "threw"
      <4>1. TH!First(r) \in 1..(i - 1)
        BY <1>2, <1>3, <2>1, <3>2 DEF HooksIdxs
      <4>2. TH!Log(r)[TH!First(r)].ctx = TH!Ctx(r) /\ TH!Log(r)[i].ctx = TH!Ctx(r)
        BY <1>3, <3>2 DEF TH!Queued
      <4> QED BY <1>3, <2>1, <3>2, <4>1, <4>2
    <3> QED BY <2>1, <3>1, <3>2
  <2> QED BY <2>1, <2>2, <2>3 DEF HooksSoundAt, TH!Log
<1>5. HooksFine(c)
  BY <1>1, <1>4 DEF HooksFine, TH!InHooks
<1>6. HooksKeeps(r, c)
  BY DEF HooksKeeps, TH!InHooks
<1> QED BY <1>5, <1>6 DEF HooksDoes

LEMMA HooksRunNext ==
  ASSUME NEW r \in Requests, HooksTyped, HooksCalls, TH!Hook(r)
  PROVE  \E c \in TH!Call : HooksDoes(r, c)
<1> DEFINE f == TH!First(r)
           w == [TH!Log(r)[f] EXCEPT !.hook = "ran"]
           log == [TH!Log(r) EXCEPT ![f] = w]
           c == [hCall[r] EXCEPT !.log = log]
<1>1. hCall[r] \in TH!Call
  BY DEF HooksTyped
<1>2. /\ TH!Log(r) \in Seq(TH!Write) /\ Len(TH!Log(r)) \in Nat
         /\ DOMAIN TH!Log(r) = HooksIdxs(TH!Log(r))
      /\ \A i \in HooksIdxs(TH!Log(r)) : TH!Log(r)[i] \in TH!Write
  BY <1>1, HooksLogTyped DEF TH!Log
<1>3. f \in HooksIdxs(TH!Log(r)) /\ TH!Log(r)[f].hook = "queued"
  BY <1>2, HooksFirstQueued DEF TH!Hook, TH!Queued
<1>4. /\ w \in TH!Write /\ w.hook = "ran" /\ w.op = TH!Log(r)[f].op /\ w.hit = TH!Log(r)[f].hit
      /\ w.fate = TH!Log(r)[f].fate /\ w.ctx = TH!Log(r)[f].ctx
  BY <1>2, <1>3 DEF TH!Write
<1>5. TH!Become(r, c)
  BY DEF TH!Hook, TH!Log
<1> HIDE DEF w, f
<1>6. log \in Seq(TH!Write) /\ Len(log) = Len(TH!Log(r))
  BY <1>2, <1>3, <1>4, ExceptSeq DEF HooksIdxs
<1>7. \A i \in HooksIdxs(TH!Log(r)) : log[i] = IF i = f THEN w ELSE TH!Log(r)[i]
  BY <1>2
<1> HIDE DEF log
<1>8. c \in TH!Call /\ c.log = log /\ c.at = hCall[r].at /\ c.depth = hCall[r].depth
  BY <1>1, <1>6 DEF TH!Call
<1> HIDE DEF c
<1>9. HooksDoes(r, c)
  BY <1>3, <1>4, <1>5, <1>6, <1>7, <1>8, HooksMarks DEF TH!Hook
<1> QED BY <1>8, <1>9

LEMMA HooksFailNext ==
  ASSUME NEW r \in Requests, HooksTyped, HooksCalls, TH!HookThrows(r)
  PROVE  \E c \in TH!Call : HooksDoes(r, c)
<1> DEFINE mark(i) == [TH!Log(r)[i] EXCEPT !.hook = IF i = TH!First(r) THEN "threw" ELSE "dropped"]
           log == [i \in HooksIdxs(TH!Log(r)) |-> IF i \notin TH!Queued(r) THEN TH!Log(r)[i] ELSE mark(i)]
           c == [hCall[r] EXCEPT !.log = log, !.error = TRUE]
<1>1. hCall[r] \in TH!Call
  BY DEF HooksTyped
<1>2. /\ TH!Log(r) \in Seq(TH!Write) /\ Len(TH!Log(r)) \in Nat
         /\ DOMAIN TH!Log(r) = HooksIdxs(TH!Log(r))
      /\ \A i \in HooksIdxs(TH!Log(r)) : TH!Log(r)[i] \in TH!Write
  BY <1>1, HooksLogTyped DEF TH!Log
<1>3. \A i \in HooksIdxs(TH!Log(r)) :
        /\ mark(i) \in TH!Write /\ mark(i).op = TH!Log(r)[i].op
           /\ mark(i).hit = TH!Log(r)[i].hit
        /\ mark(i).fate = TH!Log(r)[i].fate /\ mark(i).ctx = TH!Log(r)[i].ctx
        /\ mark(i).hook = IF i = TH!First(r) THEN "threw" ELSE "dropped"
  BY <1>2 DEF TH!Write
<1>4. TH!First(r) \in TH!Queued(r) /\ TH!Queued(r) \subseteq HooksIdxs(TH!Log(r))
  BY <1>2, HooksFirstQueued DEF TH!HookThrows, TH!Queued
<1>5. TH!Become(r, c)
  BY <1>2 DEF TH!HookThrows, TH!Log
<1> HIDE DEF mark
<1>6. log \in Seq(TH!Write) /\ Len(log) = Len(TH!Log(r))
  <2>1. log \in [1..Len(TH!Log(r)) -> TH!Write]
    BY <1>2, <1>3 DEF HooksIdxs
  <2> HIDE DEF log
  <2> QED BY <1>2, <2>1, HooksLogMade
<1>7. \A i \in HooksIdxs(TH!Log(r)) : log[i] = IF i \notin TH!Queued(r) THEN TH!Log(r)[i]
      ELSE mark(i)
  OBVIOUS
<1> HIDE DEF log
<1>8. c \in TH!Call /\ c.log = log /\ c.at = hCall[r].at /\ c.depth = hCall[r].depth
  BY <1>1, <1>6 DEF TH!Call
<1> HIDE DEF c
<1>9. \A i \in TH!Queued(r) : TH!Log(r)[i].hook = "queued"
  BY DEF TH!Queued
<1>10. HooksDoes(r, c)
  BY <1>3, <1>4, <1>5, <1>6, <1>7, <1>8, <1>9, HooksMarks DEF TH!HookThrows
<1> QED BY <1>8, <1>10

LEMMA HooksDeployStays ==
  ASSUME HooksTyped, [TH!Next]_TH!vars
  PROVE  UNCHANGED hDeploy /\ hFaults' \in Nat
<1>1. CASE UNCHANGED TH!vars
  BY <1>1 DEF TH!vars, HooksTyped
<1>2. ASSUME NEW r \in Requests, TH!Start(r) \/ TH!Step(r) PROVE UNCHANGED <<hDeploy, hFaults>>
  BY <1>2
  DEF TH!Start, TH!Step, TH!Create, TH!FindEntity, TH!Delete, TH!Consume, TH!Begin,
      TH!Leave, TH!Commit, TH!Throw, TH!Close, TH!Hook, TH!Drained
<1>3. ASSUME NEW r \in Requests, TH!HookThrows(r) \/ TH!Die(r)
      PROVE  UNCHANGED hDeploy /\ hFaults' = hFaults + 1
  BY <1>3 DEF TH!HookThrows, TH!Die
<1> QED BY <1>1, <1>2, <1>3 DEF TH!Next, TH!Idle, HooksTyped

\* The end of a queue.
LEMMA HooksQueueEnds ==
  ASSUME NEW r \in Requests, HooksTyped, HooksCalls, hCall[r].at \in {"now", "drain"},
         NEW pc \in {"work", "close"}, NEW d \in 0..2, d = 0,
         TH!Become(r, [hCall[r] EXCEPT !.at = pc, !.depth = d]), UNCHANGED <<hRow, holder>>,
         \A i \in HooksIdxs(TH!Log(r)) : TH!Log(r)[i].hook = "queued" => TH!Log(r)[i].ctx # 1
  PROVE  \E c \in TH!Call : HooksDoes(r, c)
<1> DEFINE y == [hCall[r] EXCEPT !.at = pc]
           c == [y EXCEPT !.depth = d]
<1>1. hCall[r] \in TH!Call /\ HooksFine(hCall[r])
  BY DEF HooksTyped, HooksCalls
<1>2. y \in TH!Call /\ y.log = TH!Log(r) /\ y.at = pc
  BY <1>1 DEF TH!Call, TH!Log, TH!Steps
<1>3. TH!Become(r, c)
  OBVIOUS
<1> HIDE DEF y
<1>4. c \in TH!Call /\ c.log = TH!Log(r) /\ c.at = pc /\ c.depth = 0
  BY <1>2 DEF TH!Call
<1> HIDE DEF c
<1>5. \A i \in HooksIdxs(TH!Log(r)) : HooksSoundAt(hCall[r], i)
  BY <1>1 DEF HooksFine, TH!Log
<1>6. HooksDoes(r, c)
  BY <1>3, <1>4, HooksSameLog DEF TH!At
<1> QED BY <1>4, <1>6

\* Every step of a request is one of the three.
LEMMA HooksStepDoes ==
  ASSUME TH!ConstantsOK, HooksTyped, HooksCalls, NEW r \in Requests,
         TH!Start(r) \/ TH!Step(r) \/ TH!HookThrows(r) \/ TH!Die(r)
  PROVE  \E c \in TH!Call : HooksDoes(r, c)
<1>2. hCall[r] \in TH!Call /\ HooksFine(hCall[r])
  BY DEF HooksTyped, HooksCalls
<1>3. /\ hCall[r].depth \in 0..2 /\ hCall[r].begins \in Nat /\ hCall[r].error \in BOOLEAN
      /\ hCall[r].at \in {"idle"} \cup TH!Steps \cup TH!Ended
  BY <1>2 DEF TH!Call
<1>4. \A i \in HooksIdxs(TH!Log(r)) : HooksSoundAt(hCall[r], i)
  BY <1>2 DEF HooksFine, TH!Log
<1>5. CASE TH!Start(r)
  <2> DEFINE c == [hCall[r] EXCEPT !.at = "work"]
  <2>1. /\ c \in TH!Call /\ c.log = TH!Log(r) /\ c.at = "work" /\ c.depth = 0
           /\ TH!Log(r) = <<>>
        /\ TH!Become(r, c)
    BY <1>2, <1>5 DEF TH!Start, TH!Goto, TH!At, TH!Call, TH!Steps, HooksFine, TH!Log
  <2>2. \A i \in HooksIdxs(TH!Log(r)) : FALSE
    BY <2>1, EmptySeq DEF HooksIdxs
  <2> HIDE DEF c
  <2>3. HooksDoes(r, c)
    BY <1>5, <2>1, <2>2, HooksSameLog DEF TH!Start, TH!At
  <2> QED BY <2>1, <2>3
<1>6. CASE TH!FindEntity(r)
  <2> DEFINE c == [hCall[r] EXCEPT !.at = "delete"]
  <2>1. /\ c \in TH!Call /\ c.log = TH!Log(r) /\ c.at = "delete" /\ c.depth = hCall[r].depth
        /\ TH!Become(r, c) /\ hCall[r].at = "work"
    BY <1>2, <1>6 DEF TH!FindEntity, TH!MayWrite, TH!Goto, TH!At, TH!Call, TH!Steps, TH!Log
  <2> HIDE DEF c
  <2>2. HooksDoes(r, c)
    BY <1>4, <1>6, <2>1, HooksSameLog DEF TH!FindEntity, TH!At, HooksSoundAt, TH!Log
  <2> QED BY <2>1, <2>2
<1>7. CASE TH!Begin(r)
  <2> DEFINE c == [hCall[r] EXCEPT !.depth = @ + 1, !.begins = @ + 1]
  <2>1. /\ c \in TH!Call /\ c.log = TH!Log(r) /\ c.at = "work" /\ c.depth = hCall[r].depth + 1
        /\ TH!Become(r, c) /\ hCall[r].at = "work"
    <3>1. /\ hCall[r].depth + 1 \in 0..2 /\ hCall[r].begins + 1 \in Nat
          /\ hCall[r].at = "work" /\ TH!Become(r, c)
      BY <1>3, <1>7 DEF TH!Begin, TH!At
    <3> QED BY <1>2, <3>1 DEF TH!Call, TH!Log
  <2> HIDE DEF c
  <2>2. HooksDoes(r, c)
    BY <1>3, <1>4, <1>7, <2>1, HooksSameLog DEF TH!Begin, TH!At, HooksSoundAt, TH!Log
  <2> QED BY <2>1, <2>2
<1>8. CASE TH!Leave(r)
  <2> DEFINE c == [hCall[r] EXCEPT !.depth = 1]
  <2>1. /\ c \in TH!Call /\ c.log = TH!Log(r) /\ c.at = "work" /\ c.depth = 1
        /\ TH!Become(r, c) /\ hCall[r].at = "work"
    BY <1>2, <1>8 DEF TH!Leave, TH!Context, TH!At, TH!Call, TH!Log
  <2> HIDE DEF c
  <2>2. HooksDoes(r, c)
    BY <1>4, <1>8, <2>1, HooksSameLog DEF TH!Leave, TH!At, HooksSoundAt, TH!Log
  <2> QED BY <2>1, <2>2
<1>9. CASE TH!Close(r)
  <2>1. PICK error \in BOOLEAN : TH!Become(r, [hCall[r] EXCEPT !.at = "close", !.error = error])
    BY <1>9 DEF TH!Close
  <2> DEFINE c == [hCall[r] EXCEPT !.at = "close", !.error = error]
  <2>2. /\ c \in TH!Call /\ c.log = TH!Log(r) /\ c.at = "close" /\ c.depth = 0
        /\ TH!Become(r, c) /\ hCall[r].at = "work" /\ hCall[r].depth = 0
    BY <1>2, <1>9, <2>1 DEF TH!Close, TH!At, TH!Call, TH!Steps, TH!Log
  <2> HIDE DEF c
  <2>3. HooksDoes(r, c)
    BY <1>4, <1>9, <2>2, HooksSameLog DEF TH!Close, TH!At, HooksSoundAt, TH!Log
  <2> QED BY <2>2, <2>3
<1>10. CASE TH!Drained(r)
  <2>1. \A i \in HooksIdxs(TH!Log(r)) : TH!Log(r)[i].hook = "queued" =>
        TH!Log(r)[i].ctx # TH!Ctx(r)
    BY <1>2, <1>10, HooksLogTyped DEF TH!Drained, TH!Queued, TH!Log
  <2>2. CASE TH!At(r, "close")
    <3> DEFINE pc == IF hCall[r].error THEN "failed" ELSE "ok"
               c == [hCall[r] EXCEPT !.at = pc]
    <3>1. pc \in {"failed", "ok"}
      OBVIOUS
    <3>2. TH!Become(r, c)
      BY <1>10, <2>2 DEF TH!Drained, TH!Goto
    <3> HIDE DEF pc
    <3>3. /\ c \in TH!Call /\ c.log = TH!Log(r) /\ c.at = pc /\ c.depth = 0
          /\ hCall[r].at = "close" /\ hCall[r].depth = 0 /\ TH!Ctx(r) = 0
      BY <1>2, <2>2, <3>1 DEF TH!Call, TH!Ended, TH!Log, TH!At, HooksFine, TH!Ctx
    <3> HIDE DEF c
    <3>4. \A i \in HooksIdxs(TH!Log(r)) : TH!Log(r)[i].hook # "queued"
      BY <1>4, <2>1, <3>3 DEF HooksSoundAt, TH!Log
    <3>5. HooksDoes(r, c)
      BY <1>10, <3>1, <3>2, <3>3, <3>4, HooksSameLog DEF TH!Drained, TH!At
    <3> QED BY <3>3, <3>5
  <2>3. CASE ~TH!At(r, "close")
    <3>1. /\ hCall[r].at \in {"now", "drain"}
          /\ hCall[r].at = "now" => hCall[r].depth = 0
          /\ hCall[r].at = "drain" => hCall[r].depth = 1 /\ TH!Ctx(r) = 1
      BY <1>2, <1>10, <2>3 DEF TH!Drained, TH!InHooks, TH!At, HooksFine, TH!Ctx, TH!Context
    <3>2. \A i \in HooksIdxs(TH!Log(r)) : TH!Log(r)[i].hook = "queued" => TH!Log(r)[i].ctx # 1
      BY <1>4, <2>1, <3>1 DEF HooksSoundAt, TH!Log
    <3>3. PICK pc \in {"work", "close"} :
            TH!Become(r, [hCall[r] EXCEPT !.at = pc, !.depth = IF @ = 0 THEN 0 ELSE @ - 1])
      BY <1>10, <2>3 DEF TH!Drained
    <3> DEFINE d == IF hCall[r].depth = 0 THEN 0 ELSE hCall[r].depth - 1
    <3>4. d = 0 /\ d \in 0..2
      BY <3>1
    <3>5. TH!Become(r, [hCall[r] EXCEPT !.at = pc, !.depth = d]) /\ pc \in {"work", "close"}
      BY <3>3
    <3> HIDE DEF d
    <3>6. UNCHANGED <<hRow, holder>>
      BY <1>10 DEF TH!Drained
    <3> QED BY <3>1, <3>2, <3>4, <3>5, <3>6, HooksQueueEnds
  <2> QED BY <2>2, <2>3
<1>11. CASE TH!Create(r)
  BY <1>11, HooksWritten1 DEF TH!Create, TH!MayWrite, TH!At, TH!Operations
<1>12. CASE TH!Delete(r)
  <2>1. TH!Visible(r) \in BOOLEAN
    BY DEF TH!Visible, HooksTyped
  <2> QED BY <1>12, <2>1, HooksWritten1 DEF TH!Delete, TH!At, TH!Operations
<1>13. CASE TH!Consume(r)
  BY <1>13, HooksWritten1 DEF TH!Consume, TH!MayWrite, TH!At, TH!Operations
<1>14. CASE TH!Commit(r)
  <2>1. TH!Become(r, [hCall[r] EXCEPT !.at = "drain", !.depth = 1, !.log = TH!Settled(@, "kept"),
                                  !.error = FALSE])
    <3>1. [hCall[r] EXCEPT !.at = "drain", !.log = TH!Settled(@, "kept"), !.error = FALSE]
          = [hCall[r] EXCEPT !.at = "drain", !.depth = 1, !.log = TH!Settled(@, "kept"),
                            !.error = FALSE]
      BY <1>2, <1>14 DEF TH!Commit, TH!Call
    <3> QED BY <1>14, <3>1 DEF TH!Commit
  <2>2. holder' = holder \ {r} /\ hRow' = (hRow /\ ~("kept" = "kept" /\ r \in holder))
    BY <1>14 DEF TH!Commit
  <2>3. /\ "kept" \in {"kept", "undone"} /\ "drain" \in {"drain", "dead"}
        /\ 1 \in 0..2 /\ FALSE \in BOOLEAN
    OBVIOUS
  <2> QED BY ONLY HooksTyped, HooksCalls, r \in Requests, <2>1, <2>2, <2>3, HooksSettles
<1>15. CASE TH!Throw(r)
  <2>1. TH!Become(r, [hCall[r] EXCEPT !.at = "drain", !.depth = 1, !.log = TH!Settled(@, "undone"),
                                  !.error = TRUE])
    BY <1>15 DEF TH!Throw
  <2>2. holder' = holder \ {r} /\ hRow' = (hRow /\ ~("undone" = "kept" /\ r \in holder))
    BY <1>15 DEF TH!Throw, HooksTyped
  <2>3. /\ "undone" \in {"kept", "undone"} /\ "drain" \in {"drain", "dead"}
        /\ 1 \in 0..2 /\ TRUE \in BOOLEAN
    OBVIOUS
  <2> QED BY ONLY HooksTyped, HooksCalls, r \in Requests, <2>1, <2>2, <2>3, HooksSettles
<1>16. CASE TH!Die(r)
  <2>1. hRow' = (hRow /\ ~("undone" = "kept" /\ r \in holder))
    BY <1>16 DEF TH!Die, HooksTyped
  <2>2. [hCall[r] EXCEPT !.at = "dead", !.log = TH!Settled(@, "undone")]
        = [hCall[r] EXCEPT !.at = "dead", !.depth = hCall[r].depth, !.log = TH!Settled(@, "undone"),
                          !.error = hCall[r].error]
    BY <1>2 DEF TH!Call
  <2>3. TH!Become(r, [hCall[r] EXCEPT !.at = "dead", !.depth = hCall[r].depth,
                                  !.log = TH!Settled(@, "undone"), !.error = hCall[r].error])
    BY <1>16, <2>2 DEF TH!Die
  <2> QED BY <1>3, <1>16, <2>1, <2>3, HooksSettles DEF TH!Die
<1>17. CASE TH!Hook(r)
  BY <1>17, HooksRunNext
<1>18. CASE TH!HookThrows(r)
  BY <1>18, HooksFailNext
<1> QED BY <1>5, <1>6, <1>7, <1>8, <1>9, <1>10, <1>11, <1>12, <1>13, <1>14, <1>15, <1>16,
           <1>17, <1>18 DEF TH!Step

-----------------------------------------------------------------------------
(* The row *)

\* A write that took the row, and may keep it.
HooksTakes(w) == w.op # "write" /\ w.hit /\ w.fate # "undone"

\* One write has taken the row: in the transaction that holds its lock, or for good.
HooksOneTakes ==
  /\ \A r, q \in Requests : \A i \in HooksIdxs(TH!Log(r)), j \in HooksIdxs(TH!Log(q)) :
       HooksTakes(TH!Log(r)[i]) /\ HooksTakes(TH!Log(q)[j]) => r = q /\ i = j
  /\ \A r \in Requests : \A i \in HooksIdxs(TH!Log(r)) : HooksTakes(TH!Log(r)[i]) =>
       IF TH!Log(r)[i].fate = "open" THEN r \in holder ELSE ~hRow
HooksLocked ==
  /\ \A r, q \in holder : r = q
  /\ \A r \in holder : hCall[r].at \in {"work", "delete"} /\ hCall[r].depth > 0
  /\ holder # {} => hRow

\* What the step of a request does to the logs of all.
LEMMA HooksLogsAfter ==
  ASSUME HooksTyped, NEW r \in Requests, NEW c \in TH!Call, HooksDoes(r, c)
  PROVE  \A q \in Requests : hCall'[q] = IF q = r THEN c ELSE hCall[q]
  BY DEF HooksTyped, HooksDoes, TH!Become

LEMMA HooksRowKept ==
  ASSUME HooksTyped, HooksOneTakes, HooksLocked, NEW r \in Requests, NEW c \in TH!Call,
         HooksDoes(r, c), HooksKeeps(r, c)
  PROVE  (HooksOneTakes /\ HooksLocked)'
<1>1. \A q \in Requests : hCall'[q] = IF q = r THEN c ELSE hCall[q]
  BY HooksLogsAfter
<1>2. \A q \in Requests : HooksIdxs(TH!Log(q))' = HooksIdxs(TH!Log(q))
  BY <1>1 DEF HooksKeeps, TH!Log, HooksIdxs
<1>3. \A q \in Requests : \A i \in HooksIdxs(TH!Log(q)) :
        /\ HooksTakes(TH!Log(q)[i])' <=> HooksTakes(TH!Log(q)[i])
        /\ (TH!Log(q)[i].fate)' = TH!Log(q)[i].fate
  BY <1>1 DEF HooksKeeps, HooksTakes, TH!Log
<1>4. hRow' = hRow /\ holder' = holder
  BY DEF HooksKeeps
<1>5. HooksOneTakes'
  BY <1>2, <1>3, <1>4 DEF HooksOneTakes
<1>6. HooksLocked'
  BY <1>1, <1>4 DEF HooksLocked, HooksKeeps, HooksTyped
<1> QED BY <1>5, <1>6

LEMMA HooksRowEnds ==
  ASSUME HooksTyped, HooksOneTakes, HooksLocked, NEW r \in Requests, NEW c \in TH!Call,
         HooksDoes(r, c),
         NEW fate \in {"kept", "undone"}, HooksEnds(r, c, fate)
  PROVE  (HooksOneTakes /\ HooksLocked)'
<1>1. \A q \in Requests : hCall'[q] = IF q = r THEN c ELSE hCall[q]
  BY HooksLogsAfter
<1>2. \A q \in Requests : HooksIdxs(TH!Log(q))' = HooksIdxs(TH!Log(q))
  BY <1>1 DEF HooksEnds, TH!Log, HooksIdxs
<1>3. \A q \in Requests : \A i \in HooksIdxs(TH!Log(q)) :
        /\ HooksTakes(TH!Log(q)[i])' => HooksTakes(TH!Log(q)[i])
        /\ (TH!Log(q)[i].fate)' = IF q = r /\ TH!Log(q)[i].fate = "open" THEN fate
           ELSE TH!Log(q)[i].fate
        /\ HooksTakes(TH!Log(q)[i])' /\ q = r /\ TH!Log(q)[i].fate = "open" => fate = "kept"
  BY <1>1 DEF HooksEnds, HooksTakes, TH!Log
<1>4. holder' = holder \ {r} /\ hRow' = (hRow /\ ~(fate = "kept" /\ r \in holder))
  BY DEF HooksEnds
<1>5. ASSUME NEW q \in Requests, NEW i \in HooksIdxs(TH!Log(q)), HooksTakes(TH!Log(q)[i])'
      PROVE  IF (TH!Log(q)[i].fate)' = "open" THEN q \in holder' ELSE ~hRow'
  <2>1. HooksTakes(TH!Log(q)[i]) /\ (IF TH!Log(q)[i].fate = "open" THEN q \in holder ELSE ~hRow)
    BY <1>3, <1>5 DEF HooksOneTakes
  <2> QED BY <1>3, <1>4, <1>5, <2>1
<1>6. HooksOneTakes'
  BY <1>2, <1>3, <1>5 DEF HooksOneTakes
<1>7. HooksLocked'
  BY <1>1, <1>4 DEF HooksLocked, HooksTyped
<1> QED BY <1>6, <1>7

LEMMA HooksRowTaken ==
  ASSUME TH!ConstantsOK, HooksTyped, HooksOneTakes, HooksLocked, NEW r \in Requests,
         NEW c \in TH!Call, HooksDoes(r, c),
         NEW w \in TH!Write, HooksAdds(r, c, w)
  PROVE  (HooksOneTakes /\ HooksLocked)'
<1>1. \A q \in Requests : hCall'[q] = IF q = r THEN c ELSE hCall[q]
  BY HooksLogsAfter
<1>2. /\ TH!Log(r) \in Seq(TH!Write) /\ Len(TH!Log(r)) \in Nat
         /\ Len(c.log) = Len(TH!Log(r)) + 1
      /\ \A i \in HooksIdxs(TH!Log(r)) : c.log[i] = TH!Log(r)[i]
      /\ c.log[Len(TH!Log(r)) + 1] = w
  BY HooksLogTyped, AppendProperties DEF HooksAdds, HooksTyped, TH!Log, HooksIdxs
<1>3. \A q \in Requests : \A i \in HooksIdxs(TH!Log(q))' :
        \/ i \in HooksIdxs(TH!Log(q)) /\ TH!Log(q)[i]' = TH!Log(q)[i]
        \/ q = r /\ i = Len(TH!Log(r)) + 1 /\ TH!Log(q)[i]' = w
  BY <1>1, <1>2, SMTT(30) DEF HooksIdxs, TH!Log
<1>4. CASE w.op # "write" /\ w.hit
  <2>1. hRow /\ holder = {} /\ TH!Remove(r)
    BY <1>4 DEF HooksAdds, TH!Visible, TH!Unlocked
  <2>2. \A q \in Requests : \A i \in HooksIdxs(TH!Log(q)) : ~HooksTakes(TH!Log(q)[i])
    BY <2>1 DEF HooksOneTakes
  <2>3. CASE hCall[r].depth > 0 /\ hDeploy.atomic
    <3>1. w.fate = "open" /\ holder' = {r} /\ hRow'
      BY <2>1, <2>3 DEF HooksAdds, TH!Remove
    <3>2. HooksOneTakes'
      BY <1>3, <2>2, <3>1 DEF HooksOneTakes
    <3>3. c.at \in {"work", "delete"} /\ c.depth > 0
      BY <2>3 DEF HooksAdds
    <3> QED BY <1>1, <3>1, <3>2, <3>3 DEF HooksLocked
  <2>4. CASE ~(hCall[r].depth > 0 /\ hDeploy.atomic)
    <3>1. w.fate = "kept" /\ holder' = {} /\ ~hRow'
      BY <2>1, <2>4 DEF HooksAdds, TH!Remove
    <3>2. HooksOneTakes'
      BY <1>3, <2>2, <3>1 DEF HooksOneTakes
    <3> QED BY <3>1, <3>2 DEF HooksLocked
  <2> QED BY <2>3, <2>4
<1>5. CASE ~(w.op # "write" /\ w.hit)
  <2>1. hRow' = hRow /\ holder' = holder
    BY <1>5 DEF HooksAdds
  <2>2. ~HooksTakes(w)
    BY <1>5 DEF HooksTakes
  <2>3. \A q \in Requests : \A i \in HooksIdxs(TH!Log(q))' : HooksTakes(TH!Log(q)[i])' =>
          i \in HooksIdxs(TH!Log(q)) /\ TH!Log(q)[i]' = TH!Log(q)[i]
            /\ HooksTakes(TH!Log(q)[i])
    BY <1>3, <2>2 DEF HooksTakes
  <2>4. HooksOneTakes'
    BY <2>1, <2>3 DEF HooksOneTakes
  <2>5. HooksLocked'
    BY <1>1, <2>1 DEF HooksLocked, HooksAdds, HooksTyped
  <2> QED BY <2>4, <2>5
<1> QED BY <1>4, <1>5

-----------------------------------------------------------------------------
(* The theorems *)

HooksInv == HooksTyped /\ HooksCalls /\ HooksOneTakes /\ HooksLocked

LEMMA HooksInitInv ==
  ASSUME TH!ConstantsOK, TH!Init
  PROVE  HooksInv
<1>1. TH!NoCall \in TH!Call /\ TH!NoCall.log = <<>> /\ TH!NoCall.at = "idle"
      /\ TH!NoCall.depth = 0
  BY EmptySeq DEF TH!NoCall, TH!Call
<1>2. \A r \in Requests : hCall[r] = TH!NoCall
  BY DEF TH!Init
<1>3. \A i \in HooksIdxs(TH!NoCall.log) : FALSE
  BY <1>1, EmptySeq DEF HooksIdxs
<1>4. HooksTyped
  BY <1>1 DEF TH!Init, HooksTyped
<1>5. HooksCalls
  BY <1>1, <1>2, <1>3 DEF HooksCalls, HooksFine
<1>6. HooksOneTakes
  BY <1>2, <1>3 DEF HooksOneTakes, TH!Log
<1>7. HooksLocked
  BY DEF TH!Init, HooksLocked
<1> QED BY <1>4, <1>5, <1>6, <1>7 DEF HooksInv

LEMMA HooksNextInv ==
  ASSUME TH!ConstantsOK, HooksInv, [TH!Next]_TH!vars
  PROVE  HooksInv'
<1> USE DEF HooksInv
<1>1. UNCHANGED hDeploy /\ hFaults' \in Nat
  BY HooksDeployStays
<1>2. CASE UNCHANGED TH!vars
  <2>1. HooksTyped' /\ HooksOneTakes' /\ HooksLocked'
    BY <1>2 DEF TH!vars, HooksTyped, HooksOneTakes, HooksLocked, TH!Log
  <2>2. HooksCalls'
    BY <1>2 DEF TH!vars, HooksCalls, HooksFine, HooksSoundAt
  <2> QED BY <2>1, <2>2
<1>3. ASSUME NEW r \in Requests, NEW c \in TH!Call, HooksDoes(r, c) PROVE HooksInv'
  <2>1. \A q \in Requests : hCall'[q] = IF q = r THEN c ELSE hCall[q]
    BY <1>3, HooksLogsAfter
  <2>2. (HooksOneTakes /\ HooksLocked)'
    BY <1>3, HooksRowKept, HooksRowEnds, HooksRowTaken DEF HooksDoes
  <2>3. hRow' \in BOOLEAN /\ holder' \subseteq Requests
    BY <1>3 DEF HooksDoes, HooksKeeps, HooksEnds, HooksAdds, TH!Remove, HooksTyped
  <2>4. HooksTyped'
    BY <1>1, <1>3, <2>3 DEF HooksTyped, HooksDoes, TH!Become
  <2>5. \A q \in Requests : HooksFine(hCall'[q])
    BY <1>3, <2>1 DEF HooksCalls, HooksDoes
  <2>6. HooksCalls'
    BY <1>1, <2>5 DEF HooksCalls, HooksFine, HooksSoundAt
  <2> QED BY <2>2, <2>4, <2>6
<1> QED BY <1>2, <1>3, HooksStepDoes DEF TH!Next, TH!Idle

\* The state has its type, in every configuration.
LEMMA HooksTypeCorrect ==
  ASSUME TH!ConstantsOK
  PROVE  TH!Spec => []TH!TypeOK
<1>1. TH!Init => HooksInv
  BY HooksInitInv
<1>2. HooksInv /\ [TH!Next]_TH!vars => HooksInv'
  BY HooksNextInv
<1>3. HooksInv => TH!TypeOK
  <2>1. ASSUME HooksInv PROVE Cardinality(holder) <= 1
    <3>1. CASE holder = {}
      <4>1. Cardinality(holder) = 0
        BY <3>1, FS_EmptySet
      <4> QED BY <4>1
    <3>2. CASE holder # {}
      <4>1. PICK r : holder = {r}
        <5>1. PICK r \in holder : TRUE
          BY <3>2
        <5>2. holder = {r}
          BY <2>1, <5>1 DEF HooksInv, HooksLocked
        <5> QED BY <5>2
      <4>2. Cardinality(holder) = 1
        BY <4>1, FS_Singleton
      <4> QED BY <4>2
    <3> QED BY <3>1, <3>2
  <2>2. TH!Cardinality(holder) = Cardinality(holder)
    BY DEF TH!Cardinality, Cardinality
  <2> QED BY <2>1, <2>2 DEF HooksInv, HooksTyped, TH!TypeOK
<1> QED BY <1>1, <1>2, <1>3, PTL DEF TH!Spec

\* Hooks run after the transaction of their write ended, and none is left when the
\* request is over but behind one that threw; one request takes the row.
LEMMA HooksSound ==
  ASSUME TH!ConstantsOK
  PROVE  TH!Spec => []TH!TransactionsSound
<1>1. TH!Init => HooksInv
  BY HooksInitInv
<1>2. HooksInv /\ [TH!Next]_TH!vars => HooksInv'
  BY HooksNextInv
<1>3. ASSUME HooksInv PROVE TH!TransactionsSound
  <2>1. ASSUME NEW x \in TH!Writes
        PROVE  /\ x[1] \in Requests /\ x[2] \in HooksIdxs(TH!Log(x[1]))
               /\ TH!W(x) = hCall[x[1]].log[x[2]]
               /\ hCall[x[1]] \in TH!Call /\ TH!W(x) \in TH!Write
               /\ HooksFine(hCall[x[1]]) /\ HooksSoundAt(hCall[x[1]], x[2])
    <3>1. x[1] \in Requests /\ x[2] \in DOMAIN TH!Log(x[1])
      BY DEF TH!Writes
    <3>2. hCall[x[1]] \in TH!Call /\ HooksFine(hCall[x[1]])
      BY <1>3, <3>1 DEF HooksInv, HooksTyped, HooksCalls
    <3> QED BY <3>1, <3>2, HooksLogTyped DEF TH!W, TH!Log, HooksFine
  <2>2. TH!HookAfterEnd
    BY <2>1 DEF TH!HookAfterEnd, HooksSoundAt
  <2>3. TH!EveryHookRuns
    <3>1. SUFFICES ASSUME NEW x \in TH!Writes, hCall[x[1]].at \in {"ok", "failed"},
                          TH!W(x).hook \notin {"ran", "threw"}
                   PROVE  \E j \in 1..(x[2] - 1) : /\ TH!W(<<x[1], j>>).hook = "threw"
                                                   /\ TH!W(<<x[1], j>>).ctx = TH!W(x).ctx
      BY DEF TH!EveryHookRuns
    <3>2. TH!W(x).hook # "queued"
      BY <2>1, <3>1 DEF HooksSoundAt, HooksFine
    <3>3. TH!W(x).hook = "dropped"
      BY <2>1, <3>1, <3>2 DEF TH!Write
    <3>4. PICK j \in 1..(x[2] - 1) : /\ hCall[x[1]].log[j].hook = "threw"
                                     /\ hCall[x[1]].log[j].ctx = TH!W(x).ctx
      BY <2>1, <3>3 DEF HooksSoundAt
    <3>5. TH!W(<<x[1], j>>) = hCall[x[1]].log[j]
      BY DEF TH!W, TH!Log
    <3> QED BY <3>4, <3>5
  <2>4. TH!RowTakenOnce
    <3> DEFINE Kept == {x \in TH!Writes : TH!W(x).op # "write" /\ TH!W(x).hit /\ TH!W(x).fate = "kept"}
    <3>1. \A x \in Kept : HooksTakes(TH!Log(x[1])[x[2]]) /\ TH!Log(x[1])[x[2]].fate = "kept"
      BY DEF HooksTakes, TH!W
    <3>2. \A x \in Kept : ~hRow
      BY <1>3, <2>1, <3>1 DEF HooksInv, HooksOneTakes
    <3>3. ASSUME NEW x \in Kept, NEW y \in Kept PROVE x = y
      <4>1. x[1] = y[1] /\ x[2] = y[2]
        BY <1>3, <2>1, <3>1 DEF HooksInv, HooksOneTakes
      <4>2. x = <<x[1], x[2]>> /\ y = <<y[1], y[2]>>
        BY DEF TH!Writes
      <4> QED BY <4>1, <4>2
    <3>4. Cardinality(Kept) <= 1
      <4>1. CASE Kept = {}
        <5>1. Cardinality(Kept) = 0
          BY <4>1, FS_EmptySet
        <5> QED BY <5>1
      <4>2. CASE Kept # {}
        <5>1. PICK x : Kept = {x}
          BY <3>3, <4>2
        <5>2. Cardinality(Kept) = 1
          BY <5>1, FS_Singleton
        <5> QED BY <5>2
      <4> QED BY <4>1, <4>2
    <3>5. TH!Cardinality(Kept) = Cardinality(Kept)
      BY DEF TH!Cardinality, Cardinality
    <3> QED BY <3>2, <3>4, <3>5 DEF TH!RowTakenOnce
  <2> QED BY <2>2, <2>3, <2>4 DEF TH!TransactionsSound
<1> QED BY <1>1, <1>2, <1>3, PTL DEF TH!Spec

\* Hooks run after the transaction of their write ended, and none is left behind a
\* request that is over but after one that threw; one request takes the row.
THEOREM TransactionsInOrder == AllSpec => []TransactionsSound
<1>1. TH!ConstantsOK
  BY PluginsAssumption
<1>2. TH!TransactionsSound => TransactionsSound
  BY DEF TransactionsSound
<1> QED BY <1>1, <1>2, HooksSound, Parts, PTL

-----------------------------------------------------------------------------
(* Fallbacks of the adapter factory (UnitsOnce, ConsumptionsOnce). Every     *)
(* step either wins a row or only reads.                                     *)

\* What is under way has an operation, and a row once it has found one.
FallbacksCalled ==
  \A r \in Requests :
    /\ fCall[r].at \in AF!Steps => AF!Op(r) \in AF!Operations
    /\ AF!At(r, "write") => fCall[r].id \in AF!Ids
\* Nobody comes between the steps of a transaction, and so its row still matches.
FallbacksApart ==
  \A r \in Requests : AF!At(r, "write") =>
    /\ ~fDeploy.native
    /\ fDeploy.isolated => /\ AF!Matches(r, fCall[r].id)
                           /\ \A q \in Requests \ {r} : ~AF!At(q, "write")
FallbacksTyped == AF!TypeOK /\ FallbacksCalled /\ FallbacksApart

LEMMA FallbacksDeployTyped ==
  ASSUME AF!ConstantsOK, fDeploy \in Adapters
  PROVE  /\ fDeploy.ops \in [Requests -> SUBSET AF!Operations]
         /\ fDeploy.count \in Nat /\ fDeploy.full \in Nat
         /\ fDeploy.native \in BOOLEAN /\ fDeploy.isolated \in BOOLEAN
         /\ fDeploy.counted \in BOOLEAN
         /\ fDeploy.native \/ fDeploy.isolated \/ fDeploy.counted
  BY DEF AF!ConstantsOK, AF!Deployment, AF!Reliable

\* The request r takes the row i, and writes n as its counter.
FallbackWon(r, i, n) == [fCall[r] EXCEPT !.at = "won", !.id = i, !.next = n]
FallbackWins(r, i, n) ==
  /\ fCall[r].at \in {"find", "write"} /\ AF!Op(r) \in AF!Operations
  /\ fDeploy.native \/ fDeploy.isolated => \A q \in Requests \ {r} : ~AF!At(q, "write")
  /\ AF!Matches(r, i)
  /\ AF!Put(r, i, n)
  /\ AF!Become(r, FallbackWon(r, i, n))
  /\ UNCHANGED fDeploy

\* The request r goes on, and changes no row.
FallbackReads(r) ==
  /\ ~AF!At(r, "won")
  /\ \E c \in AF!Call :
       /\ c.at # "won" /\ AF!Become(r, c)
       /\ c.at \in AF!Steps => c.op \in AF!Operations
       /\ c.at = "write" =>
            /\ c.id \in AF!Ids /\ c.op = AF!Op(r) /\ c.old = fCall[r].old
            /\ AF!Matches(r, c.id) /\ ~fDeploy.native
            /\ fDeploy.isolated => \A q \in Requests : ~AF!At(q, "write")
       /\ c.old \in {fCall[r].old, AF!Start0} \cup {table[i].stamp : i \in AF!Ids}
  /\ UNCHANGED <<fDeploy, table>>

\* Every step is one of the two, or changes nothing.
LEMMA FallbacksShape ==
  ASSUME AF!ConstantsOK, FallbacksTyped, [AF!Next]_AF!vars
  PROVE  \/ \E r \in Requests, i \in AF!Ids, n \in Int : FallbackWins(r, i, n)
         \/ \E r \in Requests : FallbackReads(r)
         \/ UNCHANGED AF!vars
<1>0. /\ fCall \in [Requests -> AF!Call] /\ table \in [AF!Ids -> AF!Row]
      /\ fDeploy.ops \in [Requests -> SUBSET AF!Operations] /\ fDeploy.full \in Nat
  BY FallbacksDeployTyped DEF FallbacksTyped, AF!TypeOK
<1>1. \A r \in Requests, i \in AF!Ids : AF!Next0(r, i) \in Int
  BY <1>0 DEF AF!Next0, AF!Row
<1>2. ASSUME NEW r \in Requests, NEW op \in fDeploy.ops[r], AF!Start(r, op)
      PROVE  FallbackReads(r)
  <2> DEFINE c == [AF!NoCall EXCEPT !.op = op, !.at = IF op = "swap" THEN "load" ELSE "find"]
  <2>1. op \in AF!Operations
    BY <1>0
  <2>2. c \in AF!Call /\ c.op = op /\ c.at \in {"load", "find"} /\ c.old = AF!Start0
    <3> DEFINE d(pc) == [AF!NoCall EXCEPT !.op = op, !.at = pc]
    <3>1. AF!NoCall \in AF!Call /\ AF!NoCall.old = AF!Start0
      BY DEF AF!NoCall, AF!Call, AF!Stamps
    <3>2. \A pc \in {"load", "find"} :
            d(pc) \in AF!Call /\ d(pc).op = op /\ d(pc).at = pc /\ d(pc).old = AF!Start0
      BY <2>1, <3>1 DEF AF!Call, AF!Steps
    <3>3. c = d(IF op = "swap" THEN "load" ELSE "find")
      OBVIOUS
    <3> HIDE DEF c, d
    <3> QED BY <3>2, <3>3
  <2> QED BY <1>2, <2>1, <2>2 DEF AF!Start, FallbackReads, AF!At
<1>3. ASSUME NEW r \in Requests, AF!Load(r) PROVE FallbackReads(r)
  <2>1. PICK i \in AF!Ids :
          AF!Become(r, [fCall[r] EXCEPT !.at = "find", !.old = table[i].stamp])
    BY <1>3 DEF AF!Load
  <2> DEFINE c == [fCall[r] EXCEPT !.at = "find", !.old = table[i].stamp]
  <2>2. table[i].stamp \in AF!Stamps
    BY <1>0 DEF AF!Row
  <2>3. c \in AF!Call /\ c.op = AF!Op(r) /\ c.at = "find" /\ c.old = table[i].stamp
    BY <1>0, <2>2 DEF AF!Call, AF!Steps, AF!Op
  <2>4. AF!Op(r) \in AF!Operations
    BY <1>3 DEF AF!Load, FallbacksTyped, FallbacksCalled, AF!At, AF!Steps
  <2> QED BY <1>3, <2>1, <2>3, <2>4 DEF AF!Load, FallbackReads, AF!At
<1>4. ASSUME NEW r \in Requests, AF!Goto(r, "missed"), fCall[r].at \in AF!Steps,
             UNCHANGED <<fDeploy, table>>
      PROVE  FallbackReads(r)
  <2> DEFINE c == [fCall[r] EXCEPT !.at = "missed"]
  <2>1. c \in AF!Call /\ c.at = "missed" /\ c.old = fCall[r].old
    BY <1>0 DEF AF!Call, AF!Ended
  <2> QED BY <1>4, <2>1 DEF AF!Goto, FallbackReads, AF!At, AF!Steps
<1>5. ASSUME NEW r \in Requests, AF!Native(r)
      PROVE  FallbackReads(r) \/ \E i \in AF!Ids, n \in Int : FallbackWins(r, i, n)
  <2>1. CASE AF!Goto(r, "missed") /\ UNCHANGED table
    BY <1>4, <1>5, <2>1 DEF AF!Native, AF!At, AF!Steps
  <2>2. CASE \E i \in AF!Ids : /\ AF!Matches(r, i)
                               /\ AF!Put(r, i, AF!Next0(r, i))
                               /\ AF!Become(r, [fCall[r] EXCEPT !.at = "won", !.id = i,
                                                            !.next = AF!Next0(r, i)])
    <3>1. PICK i \in AF!Ids : /\ AF!Matches(r, i)
                              /\ AF!Put(r, i, AF!Next0(r, i))
                              /\ AF!Become(r, [fCall[r] EXCEPT !.at = "won", !.id = i,
                                                           !.next = AF!Next0(r, i)])
      BY <2>2
    <3>2. AF!Op(r) \in AF!Operations
      BY <1>5 DEF AF!Native, FallbacksTyped, FallbacksCalled, AF!At, AF!Steps
    <3>3. \A q \in Requests : ~AF!At(q, "write")
      BY <1>5 DEF AF!Native, FallbacksTyped, FallbacksApart
    <3>4. FallbackWins(r, i, AF!Next0(r, i))
      BY <1>5, <3>1, <3>2, <3>3 DEF FallbackWins, FallbackWon, AF!Native, AF!At
    <3> QED BY <1>1, <3>4
  <2> QED BY <1>5, <2>1, <2>2 DEF AF!Native
<1>6. ASSUME NEW r \in Requests, AF!Find(r) PROVE FallbackReads(r)
  <2>1. CASE AF!Goto(r, "missed")
    BY <1>4, <1>6, <2>1 DEF AF!Find, AF!At, AF!Steps
  <2>2. CASE \E i \in AF!Ids : /\ AF!Matches(r, i)
                               /\ AF!Become(r, [fCall[r] EXCEPT !.at = "write", !.id = i,
                                                            !.next = AF!Next0(r, i)])
    <3>1. PICK i \in AF!Ids : /\ AF!Matches(r, i)
                              /\ AF!Become(r, [fCall[r] EXCEPT !.at = "write", !.id = i,
                                                           !.next = AF!Next0(r, i)])
      BY <2>2
    <3> DEFINE c == [fCall[r] EXCEPT !.at = "write", !.id = i, !.next = AF!Next0(r, i)]
    <3>2. i \in Nat
      BY DEF AF!Ids
    <3>3. /\ c \in AF!Call /\ c.op = AF!Op(r) /\ c.at = "write" /\ c.id = i
          /\ c.old = fCall[r].old
      BY <1>0, <1>1, <3>2 DEF AF!Call, AF!Steps, AF!Op
    <3>4. AF!Op(r) \in AF!Operations
      BY <1>6 DEF AF!Find, FallbacksTyped, FallbacksCalled, AF!At, AF!Steps
    <3> QED BY <1>6, <3>1, <3>3, <3>4 DEF AF!Find, FallbackReads, AF!At
  <2> QED BY <1>6, <2>1, <2>2 DEF AF!Find
<1>7. ASSUME NEW r \in Requests, AF!Write(r)
      PROVE  FallbackReads(r) \/ \E i \in AF!Ids, n \in Int : FallbackWins(r, i, n)
  <2>1. CASE AF!Goto(r, "missed") /\ UNCHANGED table
    BY <1>4, <1>7, <2>1 DEF AF!Write, AF!At, AF!Steps
  <2>3. CASE ~AF!Matches(r, fCall[r].id) /\ ~fDeploy.counted
    BY <1>7, <2>3, FallbacksDeployTyped
       DEF AF!Write, FallbacksTyped, FallbacksApart, AF!TypeOK
  <2>2. CASE /\ AF!Matches(r, fCall[r].id)
             /\ AF!Put(r, fCall[r].id, fCall[r].next) /\ AF!Goto(r, "won")
    <3>1. fCall[r].id \in AF!Ids /\ fCall[r].next \in Int /\ AF!Op(r) \in AF!Operations
      BY <1>0, <1>7 DEF AF!Write, FallbacksTyped, FallbacksCalled, AF!At, AF!Steps, AF!Call
    <3>2. [fCall[r] EXCEPT !.at = "won"] = FallbackWon(r, fCall[r].id, fCall[r].next)
      BY <1>0 DEF FallbackWon, AF!Call
    <3>3. fDeploy.native \/ fDeploy.isolated => \A q \in Requests \ {r} : ~AF!At(q, "write")
      BY <1>7 DEF AF!Write, FallbacksTyped, FallbacksApart
    <3>4. FallbackWins(r, fCall[r].id, fCall[r].next)
      BY <1>7, <2>2, <3>1, <3>2, <3>3 DEF FallbackWins, AF!Write, AF!At, AF!Goto
    <3> QED BY <3>1, <3>4
  <2> QED BY <1>7, <2>1, <2>2, <2>3 DEF AF!Write
<1> QED
  BY <1>2, <1>3, <1>5, <1>6, <1>7 DEF AF!Next, AF!Step, AF!Idle

LEMMA FallbacksInitTyped ==
  ASSUME AF!ConstantsOK
  PROVE  AF!Init => FallbacksTyped
<1> SUFFICES ASSUME AF!Init PROVE FallbacksTyped OBVIOUS
<1>1. fDeploy \in Adapters /\ fDeploy.full \in Nat /\ fDeploy.count \in Nat
  BY FallbacksDeployTyped DEF AF!Init
<1>2. table \in [AF!Ids -> AF!Row]
  BY <1>1 DEF AF!Init, AF!Row, AF!Stamps
<1>3. AF!NoCall \in AF!Call
  BY DEF AF!NoCall, AF!Call, AF!Stamps
<1>4. fCall \in [Requests -> AF!Call] /\ \A r \in Requests : AF!At(r, "idle")
  BY <1>3 DEF AF!Init, AF!NoCall, AF!At
<1> QED BY <1>1, <1>2, <1>4 DEF FallbacksTyped, AF!TypeOK, FallbacksCalled, FallbacksApart, AF!At, AF!Steps

LEMMA FallbacksStepTyped ==
  ASSUME AF!ConstantsOK
  PROVE  FallbacksTyped /\ [AF!Next]_AF!vars => FallbacksTyped'
<1> SUFFICES ASSUME FallbacksTyped, [AF!Next]_AF!vars PROVE FallbacksTyped' OBVIOUS
<1>0. /\ fCall \in [Requests -> AF!Call] /\ table \in [AF!Ids -> AF!Row] /\ fDeploy \in Adapters
  BY DEF FallbacksTyped, AF!TypeOK
<1>1. ASSUME NEW r \in Requests, NEW i \in AF!Ids, NEW n \in Int, FallbackWins(r, i, n)
      PROVE  FallbacksTyped'
  <2>1. AF!Ids' = AF!Ids /\ fDeploy' = fDeploy
    BY <1>1 DEF FallbackWins, AF!Ids
  <2>2. i \in Nat
    BY DEF AF!Ids
  <2>3. FallbackWon(r, i, n) \in AF!Call /\ FallbackWon(r, i, n).at = "won"
    BY <1>0, <2>2 DEF FallbackWon, AF!Call, AF!Ended
  <2>4. fCall' \in [Requests -> AF!Call] /\ AF!At(r, "won")'
    BY <1>0, <1>1, <2>3 DEF FallbackWins, AF!Become, AF!At
  <2>5. table[i] \in AF!Row
    BY <1>0
  <2>6. r \in AF!Stamps
    BY DEF AF!Stamps
  <2>7. /\ [table[i] EXCEPT !.there = FALSE] \in AF!Row
        /\ [table[i] EXCEPT !.counter = n] \in AF!Row
        /\ [table[i] EXCEPT !.counter = n, !.stamp = r] \in AF!Row
    BY <2>5, <2>6 DEF AF!Row
  <2>8. table' \in [AF!Ids -> AF!Row]
    BY <1>0, <1>1, <2>7 DEF FallbackWins, AF!Put, AF!Operations
  <2>9. FallbacksCalled'
    BY <1>0, <1>1, <2>1, <2>4 DEF FallbackWins, AF!Become, FallbacksTyped,
           FallbacksCalled, AF!At, AF!Op, AF!Steps
  <2>10. FallbacksApart'
    <3> SUFFICES ASSUME NEW q \in Requests, AF!At(q, "write")'
                 PROVE  ~fDeploy'.native /\ ~fDeploy'.isolated
      BY DEF FallbacksApart
    <3>1. q # r /\ fCall'[q] = fCall[q]
      BY <1>0, <1>1, <2>4 DEF FallbackWins, AF!Become, AF!At
    <3> QED BY <1>1, <2>1, <3>1 DEF FallbackWins, AF!At
  <2> QED BY <1>0, <2>1, <2>4, <2>8, <2>9, <2>10 DEF FallbacksTyped, AF!TypeOK
<1>2. ASSUME NEW r \in Requests, FallbackReads(r) PROVE FallbacksTyped'
  <2>1. /\ UNCHANGED <<fDeploy, table>> /\ AF!Ids' = AF!Ids
        /\ fCall' \in [Requests -> AF!Call]
    BY <1>0, <1>2 DEF FallbackReads, AF!Become, AF!Ids
  <2>2. FallbacksCalled'
    BY <1>0, <1>2, <2>1 DEF FallbackReads, AF!Become, FallbacksTyped,
           FallbacksCalled, AF!At, AF!Op
  <2>3. FallbacksApart'
    <3>0. \A q \in Requests \ {r} : fCall'[q] = fCall[q]
      BY <1>0, <1>2 DEF FallbackReads, AF!Become
    <3>1. \A q \in Requests \ {r}, i \in AF!Ids : AF!Matches(q, i)' <=> AF!Matches(q, i)
      BY <2>1, <3>0 DEF AF!Matches, AF!Op
    <3>2. AF!At(r, "write")' =>
            /\ fCall'[r].id \in AF!Ids /\ fCall'[r].op = fCall[r].op
            /\ fCall'[r].old = fCall[r].old
            /\ AF!Matches(r, fCall'[r].id) /\ ~fDeploy.native
            /\ fDeploy.isolated => \A q \in Requests : ~AF!At(q, "write")
      BY <1>0, <1>2 DEF FallbackReads, AF!Become, AF!At, AF!Op
    <3>3. AF!At(r, "write")' => AF!Matches(r, fCall[r].id)'
      BY <2>1, <3>2 DEF AF!Matches, AF!Op
    <3>4. ASSUME NEW q \in Requests \ {r}, AF!At(q, "write")'
          PROVE  /\ AF!At(q, "write") /\ fCall'[q].id = fCall[q].id /\ fCall[q].id \in AF!Ids
                 /\ ~fDeploy.native
                 /\ fDeploy.isolated => /\ AF!Matches(q, fCall[q].id)'
                                        /\ ~AF!At(r, "write")'
                                        /\ \A p \in Requests \ {q, r} : ~AF!At(p, "write")'
      <4>1. AF!At(q, "write") /\ fCall'[q] = fCall[q] /\ fCall[q].id \in AF!Ids
        BY <3>0, <3>4 DEF AF!At, FallbacksTyped, FallbacksCalled
      <4>2. AF!Matches(q, fCall[q].id) => AF!Matches(q, fCall[q].id)'
        BY <2>1, <4>1 DEF AF!Matches, AF!Op
      <4>3. \A p \in Requests \ {r} : AF!At(p, "write")' => AF!At(p, "write")
        BY <3>0 DEF AF!At
      <4> QED BY <3>2, <4>1, <4>2, <4>3 DEF FallbacksTyped, FallbacksApart
    <3>5. \A q \in Requests \ {r} : AF!At(q, "write")' => AF!At(q, "write")
      BY <3>0 DEF AF!At
    <3> QED BY <2>1, <3>2, <3>3, <3>4, <3>5 DEF FallbacksApart
  <2> QED BY <1>0, <2>1, <2>2, <2>3 DEF FallbacksTyped, AF!TypeOK
<1>3. CASE UNCHANGED AF!vars
  BY <1>3 DEF AF!vars, FallbacksTyped, AF!TypeOK, FallbacksCalled, FallbacksApart, AF!Matches,
              AF!At, AF!Op, AF!Ids
<1> QED BY <1>1, <1>2, <1>3, FallbacksShape

\* The state has its type.
LEMMA FallbacksTypeCorrect ==
  ASSUME AF!ConstantsOK
  PROVE  AF!Spec => []AF!TypeOK
<1>1. FallbacksTyped => AF!TypeOK
  BY DEF FallbacksTyped
<1> QED BY <1>1, FallbacksInitTyped, FallbacksStepTyped, PTL DEF AF!Spec

-----------------------------------------------------------------------------
(* Swaps and consumptions *)

\* A stamp that was replaced never comes back, since a request has one; and the row
\* that was consumed is gone.
StampsNew ==
  /\ \A i \in AF!Ids : table[i].stamp \in Requests => AF!At(table[i].stamp, "won")
  /\ \A r \in Requests : fCall[r].old \in Requests => AF!At(fCall[r].old, "won")
  /\ \A i \in AF!Ids : \A r \in AF!Won("swap", i) : table[i].stamp # fCall[r].old
  /\ \A i \in AF!Ids : \A r \in AF!Won("consume", i) : ~table[i].there

\* What a step makes of those who have won.
LEMMA FallbackWonAfter ==
  ASSUME FallbacksTyped, NEW r \in Requests
  PROVE  /\ \A i \in AF!Ids, n \in Int : FallbackWins(r, i, n) =>
              \A op \in AF!Operations, j \in AF!Ids :
                AF!Won(op, j)' = AF!Won(op, j) \cup (IF op = AF!Op(r) /\ j = i THEN {r} ELSE {})
         /\ FallbackReads(r) => \A op \in AF!Operations, j \in AF!Ids : AF!Won(op, j)' = AF!Won(op, j)
<1>0. fCall \in [Requests -> AF!Call]
  BY DEF FallbacksTyped, AF!TypeOK
<1>1. ASSUME NEW i \in AF!Ids, NEW n \in Int, FallbackWins(r, i, n),
             NEW op \in AF!Operations, NEW j \in AF!Ids
      PROVE  AF!Won(op, j)' = AF!Won(op, j) \cup (IF op = AF!Op(r) /\ j = i THEN {r} ELSE {})
  <2>1. /\ fCall'[r].op = AF!Op(r) /\ fCall'[r].at = "won" /\ fCall'[r].id = i
        /\ \A q \in Requests \ {r} : fCall'[q] = fCall[q]
    BY <1>0, <1>1 DEF FallbackWins, AF!Become, FallbackWon, AF!Call, AF!Op
  <2>2. ~AF!At(r, "won")
    BY <1>1 DEF FallbackWins, AF!At
  <2> QED BY <2>1, <2>2 DEF AF!Won, AF!At, AF!Op
<1>2. ASSUME FallbackReads(r), NEW op \in AF!Operations, NEW j \in AF!Ids
      PROVE  AF!Won(op, j)' = AF!Won(op, j)
  <2>1. /\ fCall'[r].at # "won" /\ ~AF!At(r, "won")
        /\ \A q \in Requests \ {r} : fCall'[q] = fCall[q]
    BY <1>0, <1>2 DEF FallbackReads, AF!Become
  <2> QED BY <2>1 DEF AF!Won, AF!At, AF!Op
<1> QED BY <1>1, <1>2

\* What a winner does to the row.
LEMMA FallbackPutRow ==
  ASSUME FallbacksTyped, NEW r \in Requests, NEW i \in AF!Ids, NEW n \in Int,
         FallbackWins(r, i, n)
  PROVE  /\ AF!Ids' = AF!Ids /\ \A j \in AF!Ids \ {i} : table'[j] = table[j]
         /\ AF!Op(r) = "consume" => /\ table[i].there /\ ~table'[i].there
                                    /\ table'[i].counter = table[i].counter
                                    /\ table'[i].stamp = table[i].stamp
         /\ AF!Op(r) = "take" => /\ table[i].counter > 0 /\ table'[i].counter = n
                                 /\ table'[i].there = table[i].there
                                 /\ table'[i].stamp = table[i].stamp
         /\ AF!Op(r) = "swap" => /\ table[i].stamp = fCall[r].old /\ table'[i].stamp = r
                                 /\ table'[i].there = table[i].there
<1>1. table \in [AF!Ids -> AF!Row] /\ AF!Ids' = AF!Ids
  BY DEF FallbacksTyped, AF!TypeOK, FallbackWins, AF!Ids
<1>2. /\ AF!Op(r) = "consume" => table' = [table EXCEPT ![i] = [@ EXCEPT !.there = FALSE]]
      /\ AF!Op(r) = "take" => table' = [table EXCEPT ![i] = [@ EXCEPT !.counter = n]]
      /\ AF!Op(r) = "swap" => table' = [table EXCEPT ![i] = [@ EXCEPT !.counter = n, !.stamp = r]]
  BY DEF FallbackWins, AF!Put
<1>3. /\ AF!Op(r) = "consume" => table[i].there
      /\ AF!Op(r) = "take" => table[i].counter > 0
      /\ AF!Op(r) = "swap" => table[i].stamp = fCall[r].old
  BY DEF FallbackWins, AF!Matches
<1>4. table[i] \in AF!Row
  BY <1>1
<1>5. ASSUME NEW x, table' = [table EXCEPT ![i] = x]
      PROVE  table'[i] = x /\ \A j \in AF!Ids \ {i} : table'[j] = table[j]
  BY <1>1, <1>5
<1>6. CASE AF!Op(r) = "consume"
  BY <1>1, <1>2, <1>3, <1>4, <1>5, <1>6 DEF AF!Row
<1>7. CASE AF!Op(r) = "take"
  BY <1>1, <1>2, <1>3, <1>4, <1>5, <1>7 DEF AF!Row
<1>8. CASE AF!Op(r) = "swap"
  <2> DEFINE x == [table[i] EXCEPT !.counter = n, !.stamp = r]
  <2>1. x.stamp = r /\ x.there = table[i].there
    BY <1>4 DEF AF!Row
  <2>2. table' = [table EXCEPT ![i] = x]
    BY <1>2, <1>8
  <2> HIDE DEF x
  <2>3. table'[i] = x /\ \A j \in AF!Ids \ {i} : table'[j] = table[j]
    BY <1>5, <2>2
  <2> QED BY <1>1, <1>3, <1>8, <2>1, <2>3
<1> QED BY <1>6, <1>7, <1>8 DEF FallbackWins, AF!Operations

LEMMA StampsNewInit ==
  ASSUME AF!ConstantsOK
  PROVE  AF!Init => StampsNew /\ AF!SwapsOnce
<1> SUFFICES ASSUME AF!Init PROVE StampsNew /\ AF!SwapsOnce OBVIOUS
<1>1. \A i \in AF!Ids : table[i].stamp = AF!Start0
  BY DEF AF!Init
<1>2. \A r \in Requests : fCall[r].old = AF!Start0 /\ ~AF!At(r, "won")
  BY DEF AF!Init, AF!NoCall, AF!At
<1>3. AF!Start0 \notin Requests
  BY DEF AF!ConstantsOK
<1> QED BY <1>1, <1>2, <1>3 DEF StampsNew, AF!SwapsOnce, AF!Won

LEMMA StampsNewStep ==
  ASSUME AF!ConstantsOK
  PROVE  FallbacksTyped /\ StampsNew /\ AF!SwapsOnce /\ [AF!Next]_AF!vars
            => (StampsNew /\ AF!SwapsOnce)'
<1> SUFFICES ASSUME FallbacksTyped, StampsNew, AF!SwapsOnce, [AF!Next]_AF!vars
             PROVE  (StampsNew /\ AF!SwapsOnce)'
  OBVIOUS
<1>0. fCall \in [Requests -> AF!Call] /\ AF!Start0 \notin Requests
  BY DEF FallbacksTyped, AF!TypeOK, AF!ConstantsOK
<1>1. ASSUME NEW r \in Requests, NEW i \in AF!Ids, NEW n \in Int, FallbackWins(r, i, n)
      PROVE  (StampsNew /\ AF!SwapsOnce)'
  <2>1. /\ fCall'[r].old = fCall[r].old /\ AF!At(r, "won")' /\ ~AF!At(r, "won")
        /\ \A q \in Requests \ {r} : fCall'[q] = fCall[q]
    BY <1>0, <1>1 DEF FallbackWins, AF!Become, FallbackWon, AF!Call, AF!At
  <2>2. \A q \in Requests : fCall'[q].old = fCall[q].old /\ (AF!At(q, "won") => AF!At(q, "won")')
    BY <2>1 DEF AF!At
  <2>3. \A j \in AF!Ids : table'[j].stamp \in {table[j].stamp, r}
    BY <1>1, FallbackPutRow DEF FallbackWins, AF!Operations
  <2>4. \A q \in Requests : fCall[q].old # r
    BY <2>1 DEF StampsNew
  <2>5. \A op \in AF!Operations, j \in AF!Ids :
          AF!Won(op, j)' = AF!Won(op, j) \cup (IF op = AF!Op(r) /\ j = i THEN {r} ELSE {})
    BY <1>1, FallbackWonAfter
  <2>6. \A j \in AF!Ids' : table'[j].stamp \in Requests => fCall'[table'[j].stamp].at = "won"
    BY <1>1, <2>1, <2>2, <2>3, FallbackPutRow DEF StampsNew, AF!At
  <2>7. \A q \in Requests : fCall'[q].old \in Requests => fCall'[fCall'[q].old].at = "won"
    BY <2>2 DEF StampsNew, AF!At
  <2>8. \A j \in AF!Ids' : \A q \in AF!Won("swap", j)' : table'[j].stamp # fCall'[q].old
    <3> SUFFICES ASSUME NEW j \in AF!Ids', NEW q \in AF!Won("swap", j)'
                 PROVE  table'[j].stamp # fCall'[q].old
      OBVIOUS
    <3>1. j \in AF!Ids /\ q \in Requests
      BY <1>1, FallbackPutRow DEF AF!Won
    <3>2. CASE q \in AF!Won("swap", j)
      BY <2>2, <2>3, <2>4, <3>1, <3>2 DEF StampsNew
    <3>3. CASE q \notin AF!Won("swap", j)
      <4>1. q = r /\ j = i /\ AF!Op(r) = "swap"
        BY <2>5, <3>1, <3>3 DEF AF!Operations
      <4> QED BY <1>1, <2>2, <2>4, <4>1, FallbackPutRow
    <3> QED BY <3>2, <3>3
  <2>9. \A j \in AF!Ids' : \A q \in AF!Won("consume", j)' : ~table'[j].there
    <3> SUFFICES ASSUME NEW j \in AF!Ids', NEW q \in AF!Won("consume", j)' PROVE ~table'[j].there
      OBVIOUS
    <3>1. j \in AF!Ids
      BY <1>1, FallbackPutRow
    <3>2. CASE q \in AF!Won("consume", j)
      BY <1>1, <3>1, <3>2, FallbackPutRow DEF StampsNew, FallbackWins, AF!Operations
    <3>3. CASE q \notin AF!Won("consume", j)
      <4>1. j = i /\ AF!Op(r) = "consume"
        BY <2>5, <3>1, <3>3 DEF AF!Operations
      <4> QED BY <1>1, <4>1, FallbackPutRow
    <3> QED BY <3>2, <3>3
  <2>10. AF!SwapsOnce'
    <3> SUFFICES ASSUME NEW j \in AF!Ids', NEW p \in AF!Won("swap", j)',
                        NEW q \in AF!Won("swap", j)',
                        fCall'[p].old = fCall'[q].old, p # q
                 PROVE  FALSE
      BY DEF AF!SwapsOnce
    <3>1. j \in AF!Ids /\ p \in Requests /\ q \in Requests /\ fCall[p].old = fCall[q].old
      BY <1>1, <2>2, FallbackPutRow DEF AF!Won
    <3>2. ~(p \in AF!Won("swap", j) /\ q \in AF!Won("swap", j))
      BY <3>1 DEF AF!SwapsOnce
    <3>3. /\ j = i /\ AF!Op(r) = "swap"
          /\ \E o \in AF!Won("swap", i) : fCall[o].old = fCall[r].old
      BY <2>5, <3>1, <3>2 DEF AF!Operations
    <3> QED BY <1>1, <3>3, FallbackPutRow DEF StampsNew
  <2> QED BY <2>6, <2>7, <2>8, <2>9, <2>10 DEF StampsNew, AF!At
<1>2. ASSUME NEW r \in Requests, FallbackReads(r) PROVE (StampsNew /\ AF!SwapsOnce)'
  <2>1. /\ UNCHANGED <<fDeploy, table>> /\ AF!Ids' = AF!Ids
        /\ fCall'[r].old \in {fCall[r].old, AF!Start0} \cup {table[i].stamp : i \in AF!Ids}
        /\ ~AF!At(r, "won")
        /\ \A q \in Requests \ {r} : fCall'[q] = fCall[q]
    BY <1>0, <1>2 DEF FallbackReads, AF!Become, AF!Ids
  <2>2. \A op \in AF!Operations, j \in AF!Ids : AF!Won(op, j)' = AF!Won(op, j)
    BY <1>2, FallbackWonAfter
  <2>3. \A q \in Requests : AF!At(q, "won") => AF!At(q, "won")' /\ q # r
    BY <2>1 DEF AF!At
  <2>4. \A j \in AF!Ids : \A q \in AF!Won("swap", j) : fCall'[q].old = fCall[q].old
    BY <2>1 DEF AF!Won
  <2>5. \A i \in AF!Ids : table[i].stamp \in Requests => fCall'[table[i].stamp].at = "won"
    BY <2>3 DEF StampsNew, AF!At
  <2>6. \A q \in Requests : fCall'[q].old \in Requests => fCall'[fCall'[q].old].at = "won"
    BY <1>0, <2>1, <2>3, <2>5 DEF StampsNew, AF!At
  <2>7. \A i \in AF!Ids' : table'[i].stamp \in Requests => fCall'[table'[i].stamp].at = "won"
    BY <2>1, <2>5
  <2>8. /\ \A j \in AF!Ids' : \A q \in AF!Won("swap", j)' : table'[j].stamp # fCall'[q].old
        /\ \A j \in AF!Ids' : \A q \in AF!Won("consume", j)' : ~table'[j].there
    BY <2>1, <2>2, <2>4 DEF StampsNew, AF!Operations
  <2>9. AF!SwapsOnce'
    BY <2>1, <2>2, <2>4 DEF AF!SwapsOnce, AF!Operations
  <2> QED BY <2>6, <2>7, <2>8, <2>9 DEF StampsNew, AF!At
<1>3. CASE UNCHANGED AF!vars
  BY <1>3 DEF AF!vars, StampsNew, AF!SwapsOnce, AF!Won, AF!At, AF!Op, AF!Ids
<1> QED BY <1>1, <1>2, <1>3, FallbacksShape

-----------------------------------------------------------------------------
(* The last unit *)

LastTakers(i) == {r \in AF!Won("take", i) : fCall[r].next = 0}
Swappers(i) == AF!Won("swap", i)

\* While a counter is positive, its last unit has been granted once for each filling
\* but the present one.
CountersFilled ==
  \A i \in AF!Ids :
    Cardinality(LastTakers(i)) <=
      Cardinality(Swappers(i)) + (IF table[i].counter > 0 THEN 0 ELSE 1)

LEMMA TakersFinite ==
  ASSUME AF!ConstantsOK
  PROVE  \A i : /\ IsFiniteSet(LastTakers(i)) /\ Cardinality(LastTakers(i)) \in Nat
                /\ IsFiniteSet(Swappers(i)) /\ Cardinality(Swappers(i)) \in Nat
<1> SUFFICES ASSUME NEW i
             PROVE  /\ IsFiniteSet(LastTakers(i)) /\ Cardinality(LastTakers(i)) \in Nat
                    /\ IsFiniteSet(Swappers(i)) /\ Cardinality(Swappers(i)) \in Nat
  OBVIOUS
<1>1. IsFiniteSet(Requests)
  BY DEF AF!ConstantsOK, AF!IsFiniteSet, IsFiniteSet
<1>2. LastTakers(i) \in SUBSET Requests /\ Swappers(i) \in SUBSET Requests
  BY DEF LastTakers, Swappers, AF!Won
<1>3. IsFiniteSet(LastTakers(i)) /\ IsFiniteSet(Swappers(i))
  BY <1>1, <1>2, FS_Subset
<1> QED BY <1>3, FS_CardinalityType

LEMMA CountersFilledInit ==
  ASSUME AF!ConstantsOK
  PROVE  AF!Init => CountersFilled
<1> SUFFICES ASSUME AF!Init, NEW i \in AF!Ids
             PROVE  Cardinality(LastTakers(i)) <=
                      Cardinality(Swappers(i)) + (IF table[i].counter > 0 THEN 0 ELSE 1)
  BY DEF CountersFilled
<1>1. LastTakers(i) = {}
  BY DEF AF!Init, AF!NoCall, LastTakers, AF!Won, AF!At
<1>2. Cardinality(LastTakers(i)) = 0
  BY <1>1, FS_EmptySet
<1> QED BY <1>2, TakersFinite

LEMMA CountersFilledStep ==
  ASSUME AF!ConstantsOK
  PROVE  FallbacksTyped /\ CountersFilled /\ [AF!Next]_AF!vars => CountersFilled'
<1> SUFFICES ASSUME FallbacksTyped, CountersFilled, [AF!Next]_AF!vars
             PROVE  CountersFilled'
  OBVIOUS
<1>0. fCall \in [Requests -> AF!Call] /\ table \in [AF!Ids -> AF!Row]
  BY DEF FallbacksTyped, AF!TypeOK
<1>1. ASSUME NEW r \in Requests, NEW i \in AF!Ids, NEW n \in Int, FallbackWins(r, i, n)
      PROVE  CountersFilled'
  <2>1. fCall'[r].next = n /\ \A q \in Requests \ {r} : fCall'[q] = fCall[q]
    BY <1>0, <1>1 DEF FallbackWins, AF!Become, FallbackWon, AF!Call
  <2>2. \A op \in AF!Operations, j \in AF!Ids :
          AF!Won(op, j)' = AF!Won(op, j) \cup (IF op = AF!Op(r) /\ j = i THEN {r} ELSE {})
    BY <1>1, FallbackWonAfter
  <2>3. \A op \in AF!Operations, j \in AF!Ids : r \notin AF!Won(op, j)
    BY <1>1 DEF FallbackWins, AF!Won, AF!At
  <2>4. AF!Ids' = AF!Ids
    BY <1>1, FallbackPutRow
  <2> SUFFICES ASSUME NEW j \in AF!Ids
               PROVE  Cardinality(LastTakers(j)') <=
                        Cardinality(Swappers(j)') + (IF table'[j].counter > 0 THEN 0 ELSE 1)
    BY <2>4 DEF CountersFilled
  <2>5. /\ IsFiniteSet(LastTakers(j)) /\ Cardinality(LastTakers(j)) \in Nat
        /\ IsFiniteSet(Swappers(j)) /\ Cardinality(Swappers(j)) \in Nat
    BY TakersFinite
  <2>6. Cardinality(LastTakers(j)) <=
          Cardinality(Swappers(j)) + (IF table[j].counter > 0 THEN 0 ELSE 1)
    BY DEF CountersFilled
  <2>7. CASE j = i /\ AF!Op(r) = "take"
    <3>1. /\ Swappers(j)' = Swappers(j)
          /\ LastTakers(j)' = IF n = 0 THEN LastTakers(j) \cup {r} ELSE LastTakers(j)
          /\ r \notin LastTakers(j)
      BY <2>1, <2>2, <2>3, <2>7 DEF Swappers, LastTakers, AF!Won, AF!Operations
    <3>2. Cardinality(LastTakers(j) \cup {r}) = Cardinality(LastTakers(j)) + 1
      BY <2>5, <3>1, FS_AddElement
    <3>3. table[j].counter > 0 /\ table'[j].counter = n
      BY <1>1, <2>7, FallbackPutRow
    <3> QED BY <2>5, <2>6, <3>1, <3>2, <3>3
  <2>8. CASE j = i /\ AF!Op(r) = "swap"
    <3>1. Swappers(j)' = Swappers(j) \cup {r} /\ LastTakers(j)' = LastTakers(j) /\ r \notin Swappers(j)
      BY <2>1, <2>2, <2>3, <2>8 DEF Swappers, LastTakers, AF!Won, AF!Operations
    <3>2. Cardinality(Swappers(j) \cup {r}) = Cardinality(Swappers(j)) + 1
      BY <2>5, <3>1, FS_AddElement
    <3> QED BY <2>5, <2>6, <3>1, <3>2
  <2>9. CASE ~(j = i /\ AF!Op(r) \in {"take", "swap"})
    <3>1. Swappers(j)' = Swappers(j) /\ LastTakers(j)' = LastTakers(j)
      BY <2>1, <2>2, <2>3, <2>9 DEF Swappers, LastTakers, AF!Won, AF!Operations
    <3>2. table'[j].counter = table[j].counter
      BY <1>1, <2>9, FallbackPutRow DEF FallbackWins, AF!Operations
    <3> QED BY <2>6, <3>1, <3>2
  <2> QED BY <2>7, <2>8, <2>9
<1>2. ASSUME NEW r \in Requests, FallbackReads(r) PROVE CountersFilled'
  <2>1. UNCHANGED table /\ AF!Ids' = AF!Ids /\ \A q \in Requests : AF!At(q, "won") => fCall'[q] = fCall[q]
    BY <1>0, <1>2 DEF FallbackReads, AF!Become, AF!Ids, AF!At
  <2>2. \A op \in AF!Operations, j \in AF!Ids : AF!Won(op, j)' = AF!Won(op, j)
    BY <1>2, FallbackWonAfter
  <2>3. \A j \in AF!Ids : Swappers(j)' = Swappers(j) /\ LastTakers(j)' = LastTakers(j)
    BY <2>1, <2>2 DEF Swappers, LastTakers, AF!Won, AF!Operations
  <2> QED BY <2>1, <2>3 DEF CountersFilled
<1>3. CASE UNCHANGED AF!vars
  BY <1>3 DEF AF!vars, CountersFilled, LastTakers, Swappers, AF!Won, AF!At, AF!Op, AF!Ids
<1> QED BY <1>1, <1>2, <1>3, FallbacksShape

\* One caller at most swaps a given stamp of a row, and the last unit of a counter is
\* granted once in each filling of it, with the fallback of incrementOne too.
LEMMA FallbacksGuarded ==
  ASSUME AF!ConstantsOK
  PROVE  AF!Spec => []AF!GuardedOnce
<1> DEFINE Inv == FallbacksTyped /\ StampsNew /\ AF!SwapsOnce /\ CountersFilled
<1>1. AF!Init => Inv
  BY FallbacksInitTyped, StampsNewInit, CountersFilledInit
<1>2. Inv /\ [AF!Next]_AF!vars => Inv'
  BY FallbacksStepTyped, StampsNewStep, CountersFilledStep
<1>3. Inv => AF!GuardedOnce
  <2> SUFFICES ASSUME Inv PROVE AF!LastUnitOnce
    BY DEF AF!GuardedOnce
  <2> SUFFICES ASSUME NEW i \in AF!Ids
               PROVE  Cardinality(LastTakers(i)) <= 1 + Cardinality(Swappers(i))
    BY DEF AF!LastUnitOnce, LastTakers, Swappers, AF!Cardinality, Cardinality
  <2> QED BY TakersFinite DEF CountersFilled
<1> QED BY <1>1, <1>2, <1>3, PTL DEF AF!Spec

-----------------------------------------------------------------------------
(* Single use *)

FallbackRedeemed == UNION {{<<r, i>> : r \in AF!Won("consume", i)} : i \in AF!Ids}
FallbackLive == {i \in AF!Ids : table[i].there}

LEMMA FallbacksRefineInit ==
  ASSUME AF!ConstantsOK
  PROVE  AF!Init => AF!SU!Init
<1> SUFFICES ASSUME AF!Init PROVE AF!SU!Init OBVIOUS
<1>1. fDeploy.count \in Nat
  BY FallbacksDeployTyped DEF AF!Init
<1>2. FallbackRedeemed = {}
  BY DEF AF!Init, AF!NoCall, FallbackRedeemed, AF!Won, AF!At
<1> QED BY <1>1, <1>2 DEF AF!SU!Init, FallbackRedeemed, AF!Ids

LEMMA FallbacksRefineNext ==
  ASSUME AF!ConstantsOK
  PROVE  FallbacksTyped /\ [AF!Next]_AF!vars => [AF!SU!Next]_AF!SU!vars
<1> SUFFICES ASSUME FallbacksTyped, [AF!Next]_AF!vars PROVE [AF!SU!Next]_AF!SU!vars OBVIOUS
<1>1. ASSUME UNCHANGED <<fDeploy, FallbackLive, FallbackRedeemed>> PROVE [AF!SU!Next]_AF!SU!vars
  BY <1>1 DEF AF!SU!vars, FallbackLive, FallbackRedeemed
<1>2. ASSUME NEW r \in Requests, NEW i \in AF!Ids, NEW n \in Int, FallbackWins(r, i, n)
      PROVE  [AF!SU!Next]_AF!SU!vars
  <2>1. AF!Ids' = AF!Ids /\ fDeploy' = fDeploy
    BY <1>2 DEF FallbackWins, AF!Ids
  <2>2. \A op \in AF!Operations, j \in AF!Ids :
          AF!Won(op, j)' = AF!Won(op, j) \cup (IF op = AF!Op(r) /\ j = i THEN {r} ELSE {})
    BY <1>2, FallbackWonAfter
  <2>3. CASE AF!Op(r) = "consume"
    <3>1. i \in FallbackLive /\ FallbackLive' = FallbackLive \ {i}
      BY <1>2, <2>1, <2>3, FallbackPutRow DEF FallbackLive
    <3>2. FallbackRedeemed' = FallbackRedeemed \cup {<<r, i>>}
      BY <2>1, <2>2, <2>3 DEF FallbackRedeemed, AF!Operations
    <3>3. AF!SU!Redeem(r, i)
      BY <2>1, <3>1, <3>2 DEF AF!SU!Redeem, FallbackLive, FallbackRedeemed
    <3> QED BY <3>1, <3>3 DEF AF!SU!Next, FallbackLive
  <2>4. CASE AF!Op(r) # "consume"
    <3>1. FallbackLive' = FallbackLive
      BY <1>2, <2>1, <2>4, FallbackPutRow DEF FallbackLive, FallbackWins, AF!Operations
    <3>2. FallbackRedeemed' = FallbackRedeemed
      BY <2>1, <2>2, <2>4 DEF FallbackRedeemed, AF!Operations
    <3> QED BY <1>1, <2>1, <3>1, <3>2
  <2> QED BY <2>3, <2>4
<1>3. ASSUME NEW r \in Requests, FallbackReads(r) PROVE [AF!SU!Next]_AF!SU!vars
  <2>1. UNCHANGED <<fDeploy, table>> /\ AF!Ids' = AF!Ids
    BY <1>3 DEF FallbackReads, AF!Ids
  <2>2. \A j \in AF!Ids : AF!Won("consume", j)' = AF!Won("consume", j)
    BY <1>3, FallbackWonAfter DEF AF!Operations
  <2>3. FallbackRedeemed' = FallbackRedeemed /\ FallbackLive' = FallbackLive
    BY <2>1, <2>2 DEF FallbackRedeemed, FallbackLive
  <2> QED BY <1>1, <2>1, <2>3
<1>4. CASE UNCHANGED AF!vars
  BY <1>1, <1>4 DEF AF!vars, FallbackLive, FallbackRedeemed, AF!Won, AF!At, AF!Op, AF!Ids
<1> QED BY <1>2, <1>3, <1>4, FallbacksShape

\* With the fallback too, consumeOne is a store of single-use values.
LEMMA FallbacksRefine ==
  ASSUME AF!ConstantsOK
  PROVE  AF!Spec => AF!ConsumesOnce
<1>1. AF!Init => AF!SU!Init
  BY FallbacksRefineInit
<1>2. FallbacksTyped /\ [AF!Next]_AF!vars => [AF!SU!Next]_AF!SU!vars
  BY FallbacksRefineNext
<1> QED BY <1>1, <1>2, FallbacksInitTyped, FallbacksStepTyped, PTL
        DEF AF!Spec, AF!ConsumesOnce, AF!SU!Spec

\* A guarded increment takes each unit once, and a stamp is swapped once, with the
\* fallback too.
THEOREM UnitsOnce == AllSpec => []GuardedOnce
<1>1. AF!ConstantsOK
  BY PluginsAssumption
<1>2. AF!GuardedOnce => GuardedOnce
  BY DEF GuardedOnce
<1> QED BY <1>1, <1>2, FallbacksGuarded, Parts, PTL

\* With the fallback too, a row that is consumed is a single-use value.
THEOREM ConsumptionsOnce == AllSpec => ConsumesOnce
<1>1. AF!ConstantsOK
  BY PluginsAssumption
<1> QED BY <1>1, FallbacksRefine, Parts, PTL DEF ConsumesOnce

-----------------------------------------------------------------------------
(* Reservations of assertions (ReplaysRefused). Until its end, the tombstone *)
(* stands that one submission has written.                                   *)

LEMMA ReservationDeployTyped ==
  ASSUME RV!ConstantsOK, vDeploy \in Assertions
  PROVE  /\ vDeploy.storage \in {"database", "both", "secondary"}
         /\ vDeploy.serial \in BOOLEAN /\ vDeploy.dated \in BOOLEAN
         /\ vDeploy.expiry \in Nat /\ vDeploy.life \in Nat /\ vDeploy.second \in Nat \ {0}
         /\ vDeploy.maxTime \in Nat /\ vDeploy.maxFaults \in Nat
  BY DEF RV!ConstantsOK, RV!Deployment

LEMMA ReservationInitTypeOK ==
  ASSUME RV!ConstantsOK
  PROVE  RV!Init => RV!TypeOK
<1> SUFFICES ASSUME RV!Init PROVE RV!TypeOK OBVIOUS
<1>1. RV!NoCall \in RV!Call
  BY DEF RV!NoCall, RV!Call
<1>2. /\ vDeploy \in Assertions /\ vCall \in [Submissions -> RV!Call]
      /\ vRow = RV!NoTombstone /\ vCache = RV!NoTombstone /\ vNow = 0 /\ vFaults = 0
  BY <1>1 DEF RV!Init
<1> QED BY <1>2, ReservationDeployTyped DEF RV!TypeOK

\* What a step makes of a submission.
Fields(r, pc, ends, taken, wrote) ==
  /\ vCall' \in [Submissions -> RV!Call]
  /\ \A q \in Submissions \ {r} : vCall'[q] = vCall[q]
  /\ vCall'[r].at = pc /\ vCall'[r].ends = ends /\ vCall'[r].taken = taken
  /\ vCall'[r].wrote = wrote
Goes(r, pc) == LET c == vCall[r] IN Fields(r, pc, c.ends, c.taken, c.wrote)

LEMMA ReservationBecomes ==
  ASSUME RV!TypeOK, NEW r \in Submissions, NEW d \in RV!Call, RV!Become(r, d)
  PROVE  Fields(r, d.at, d.ends, d.taken, d.wrote)
BY DEF RV!TypeOK, RV!Become, Fields

LEMMA ReservationGoes ==
  ASSUME RV!TypeOK, NEW r \in Submissions, NEW pc \in RV!Steps \cup RV!Ended, RV!Goto(r, pc)
  PROVE  Goes(r, pc)
<1> DEFINE c == vCall[r]
           d == [c EXCEPT !.at = pc]
<1>1. d \in RV!Call /\ d.at = pc /\ d.ends = c.ends /\ d.taken = c.taken /\ d.wrote = c.wrote
  BY DEF RV!TypeOK, RV!Call
<1>2. RV!Become(r, d)
  BY DEF RV!Goto
<1> HIDE DEF d
<1> QED BY <1>1, <1>2, ReservationBecomes DEF Goes

LEMMA ReservationReserves ==
  ASSUME RV!TypeOK, NEW r \in Submissions, NEW e \in Nat,
         RV!Become(r, [vCall[r] EXCEPT !.at = "reserve", !.ends = e])
  PROVE  Fields(r, "reserve", e, vCall[r].taken, vCall[r].wrote)
<1> DEFINE c == vCall[r]
           d == [c EXCEPT !.at = "reserve", !.ends = e]
<1>1. d \in RV!Call /\ d.at = "reserve" /\ d.ends = e /\ d.taken = c.taken /\ d.wrote = c.wrote
  BY DEF RV!TypeOK, RV!Call, RV!Steps
<1>2. RV!Become(r, d)
  OBVIOUS
<1> HIDE DEF d
<1> QED BY <1>1, <1>2, ReservationBecomes

LEMMA ReservationCreates ==
  ASSUME RV!TypeOK, NEW r \in Submissions, NEW pc \in {"copy", "accepted"},
         RV!Become(r, [vCall[r] EXCEPT !.at = pc, !.taken = vNow, !.wrote = TRUE]), vNow \in Nat
  PROVE  Fields(r, pc, vCall[r].ends, vNow, TRUE)
<1> DEFINE c == vCall[r]
           d == [c EXCEPT !.at = pc, !.taken = vNow, !.wrote = TRUE]
<1>1. d \in RV!Call /\ d.at = pc /\ d.ends = c.ends /\ d.taken = vNow /\ d.wrote = TRUE
  BY DEF RV!TypeOK, RV!Call, RV!Steps, RV!Ended
<1>2. RV!Become(r, d)
  OBVIOUS
<1> HIDE DEF d
<1> QED BY <1>1, <1>2, ReservationBecomes

LEMMA ReservationThrows ==
  ASSUME RV!TypeOK, NEW r \in Submissions, NEW w \in BOOLEAN,
         RV!Become(r, [vCall[r] EXCEPT !.at = "confirm", !.wrote = w])
  PROVE  Fields(r, "confirm", vCall[r].ends, vCall[r].taken, w)
<1> DEFINE c == vCall[r]
           d == [c EXCEPT !.at = "confirm", !.wrote = w]
<1>1. d \in RV!Call /\ d.at = "confirm" /\ d.ends = c.ends /\ d.taken = c.taken /\ d.wrote = w
  BY DEF RV!TypeOK, RV!Call, RV!Steps
<1>2. RV!Become(r, d)
  OBVIOUS
<1> HIDE DEF d
<1> QED BY <1>1, <1>2, ReservationBecomes

LEMMA ReservationAccepts ==
  ASSUME RV!TypeOK, NEW r \in Submissions, NEW t \in Nat,
         RV!Become(r, [vCall[r] EXCEPT !.at = "accepted", !.taken = t])
  PROVE  Fields(r, "accepted", vCall[r].ends, t, vCall[r].wrote)
<1> DEFINE c == vCall[r]
           d == [c EXCEPT !.at = "accepted", !.taken = t]
<1>1. d \in RV!Call /\ d.at = "accepted" /\ d.ends = c.ends /\ d.taken = t /\ d.wrote = c.wrote
  BY DEF RV!TypeOK, RV!Call, RV!Ended
<1>2. RV!Become(r, d)
  OBVIOUS
<1> HIDE DEF d
<1> QED BY <1>1, <1>2, ReservationBecomes

\* A time to live falls short by less than a second.
LEMMA TtlFloored ==
  ASSUME NEW ends \in Nat, vNow \in Nat, vDeploy.second \in Nat \ {0}
  PROVE  RV!Ttl(ends) \in Nat /\ vNow + RV!Ttl(ends) > ends - vDeploy.second
<1>1. CASE ends <= vNow
  BY <1>1 DEF RV!Ttl
<1>2. CASE ~(ends <= vNow)
  <2> DEFINE left == ends - vNow
             s == vDeploy.second
  <2>1. left \in Nat /\ s \in Nat \ {0} /\ RV!Ttl(ends) = (left \div s) * s
    BY <1>2 DEF RV!Ttl
  <2>2. \A a \in Nat, b \in Nat \ {0} : (a \div b) * b \in Nat /\ a < (a \div b) * b + b
    OBVIOUS
  <2>3. (left \div s) * s \in Nat /\ left < (left \div s) * s + s
    BY <2>1, <2>2
  <2> DEFINE ttl == RV!Ttl(ends)
  <2>4. ttl \in Nat /\ left < ttl + s
    BY <2>1, <2>3
  <2> HIDE DEF ttl
  <2> QED BY <2>4, <2>1 DEF ttl
<1> QED BY <1>1, <1>2

-----------------------------------------------------------------------------
(* What the steps of reservations do. *)

Checks(r) == LET c == vCall[r] IN
  /\ c.at \in {"idle", "check"} /\ UNCHANGED <<vDeploy, vNow, vRow, vCache>>
  /\ \/ Goes(r, "failed")
     \/ /\ Goes(r, "check")
        /\ vDeploy.serial => \A q \in Submissions : ~RV!InFlight(q)
     \/ c.at = "check" /\ \E e \in Nat : Fields(r, "reserve", e, c.taken, c.wrote)
Gets(r) ==
  /\ RV!At(r, "reserve") /\ RV!CacheOnly /\ UNCHANGED <<vDeploy, vNow, vRow, vCache>>
  /\ \/ Goes(r, "refused")
     \/ Goes(r, "copy") /\ vCache = RV!NoTombstone
Creates(r) == LET c == vCall[r] IN
  /\ RV!At(r, "reserve") /\ ~RV!CacheOnly /\ UNCHANGED <<vDeploy, vNow, vCache>>
  /\ \/ vRow # RV!NoTombstone /\ Goes(r, "confirm") /\ vRow' = vRow
     \/ /\ vRow = RV!NoTombstone /\ vRow' = vRow /\ Fields(r, "confirm", c.ends, c.taken, FALSE)
     \/ /\ vRow # RV!NoTombstone /\ vRow' = vRow /\ Fields(r, "confirm", c.ends, c.taken, FALSE)
     \/ /\ vRow = RV!NoTombstone /\ vRow' = c.ends
        /\ Fields(r, "confirm", c.ends, c.taken, TRUE)
     \/ /\ vRow = RV!NoTombstone /\ vRow' = c.ends
        /\ \E pc \in {"copy", "accepted"} : Fields(r, pc, c.ends, vNow, TRUE)
Confirms(r) ==
  /\ RV!At(r, "confirm") /\ UNCHANGED <<vDeploy, vNow, vRow, vCache>>
  /\ Goes(r, "failed") \/ (vRow # RV!NoTombstone /\ Goes(r, "refused"))
Copies(r) == LET c == vCall[r] IN
  /\ RV!At(r, "copy") /\ UNCHANGED <<vDeploy, vNow, vRow>>
  /\ vCache' \in Nat \cup {RV!NoTombstone}
  /\ IF RV!CacheOnly
       THEN /\ Fields(r, "accepted", c.ends, vNow, c.wrote)
            /\ \/ vCache' # RV!NoTombstone /\ vCache' > c.ends - vDeploy.second
               \/ vNow > c.ends - vDeploy.second
       ELSE Goes(r, "accepted")
Fails(r) ==
  /\ vCall[r].at \in {"reserve", "confirm", "copy"}
  /\ UNCHANGED <<vDeploy, vNow, vRow, vCache>> /\ Goes(r, "failed")
Forgets ==
  /\ UNCHANGED <<vDeploy, vNow, vCall>>
  /\ \/ vRow # RV!NoTombstone /\ vNow > vRow /\ vRow' = RV!NoTombstone /\ vCache' = vCache
     \/ vCache # RV!NoTombstone /\ vNow >= vCache /\ vCache' = RV!NoTombstone /\ vRow' = vRow
Ticks == UNCHANGED <<vDeploy, vRow, vCache, vCall>> /\ vNow' = vNow + 1

ReservationMoves ==
  \/ \E r \in Submissions : Checks(r) \/ Gets(r) \/ Creates(r) \/ Confirms(r) \/ Copies(r) \/ Fails(r)
  \/ Forgets \/ Ticks \/ UNCHANGED RV!vars

LEMMA ReservationStepMoves ==
  ASSUME RV!ConstantsOK, RV!TypeOK, [RV!Next]_RV!vars
  PROVE  ReservationMoves
<1>0. /\ vDeploy.expiry \in Nat /\ vDeploy.life \in Nat /\ vDeploy.maxTime \in Nat
      /\ vDeploy.second \in Nat \ {0} /\ vNow \in Nat /\ vRow \in Nat \cup {RV!NoTombstone}
      /\ vCache \in Nat \cup {RV!NoTombstone}
      /\ \A r \in Submissions : vCall[r].ends \in Nat
  BY ReservationDeployTyped DEF RV!TypeOK, RV!Call
<1>1. ASSUME NEW r \in Submissions, RV!Start(r) PROVE Checks(r)
  <2>1. Goes(r, "check")
    BY <1>1, ReservationGoes DEF RV!Start, RV!Steps
  <2> QED BY <1>1, <2>1 DEF RV!Start, Checks, RV!At
<1>2. ASSUME NEW r \in Submissions, RV!Check(r) PROVE Checks(r)
  <2>1. CASE RV!Goto(r, "failed")
    <3>1. Goes(r, "failed")
      BY <2>1, ReservationGoes DEF RV!Ended
    <3> QED BY <1>2, <3>1 DEF RV!Check, Checks, RV!At
  <2>2. CASE ~RV!Goto(r, "failed")
    <3> DEFINE e == IF vDeploy.dated THEN vDeploy.expiry ELSE vNow + vDeploy.life
    <3>1. e \in Nat
      BY <1>0
    <3>2. RV!Become(r, [vCall[r] EXCEPT !.at = "reserve", !.ends = e])
      BY <1>2, <2>2 DEF RV!Check
    <3> HIDE DEF e
    <3>3. Fields(r, "reserve", e, vCall[r].taken, vCall[r].wrote)
      BY <3>1, <3>2, ReservationReserves, Zenon
    <3> QED BY <1>2, <3>1, <3>3 DEF RV!Check, Checks, RV!At
  <2> QED BY <2>1, <2>2
<1>3. ASSUME NEW r \in Submissions, RV!Get(r) PROVE Gets(r)
  <2>1. CASE vCache # RV!NoTombstone
    <3>1. Goes(r, "refused")
      BY <1>3, <2>1, ReservationGoes DEF RV!Get, RV!Ended
    <3> QED BY <1>3, <3>1 DEF RV!Get, Gets
  <2>2. CASE vCache = RV!NoTombstone
    <3>1. Goes(r, "copy")
      BY <1>3, <2>2, ReservationGoes DEF RV!Get, RV!Steps
    <3> QED BY <1>3, <2>2, <3>1 DEF RV!Get, Gets
  <2> QED BY <2>1, <2>2
<1>4. ASSUME NEW r \in Submissions, RV!Create(r) PROVE Creates(r)
  <2>1. CASE vRow # RV!NoTombstone
    <3>1. Goes(r, "confirm")
      BY <1>4, <2>1, ReservationGoes DEF RV!Create, RV!Steps
    <3> QED BY <1>4, <2>1, <3>1 DEF RV!Create, Creates
  <2>2. CASE vRow = RV!NoTombstone
    <3> DEFINE pc == IF vDeploy.storage = "both" THEN "copy" ELSE "accepted"
    <3>1. RV!Become(r, [vCall[r] EXCEPT !.at = pc, !.taken = vNow, !.wrote = TRUE])
      BY <1>4, <2>2 DEF RV!Create, RV!Created
    <3>2. pc \in {"copy", "accepted"}
      OBVIOUS
    <3> HIDE DEF pc
    <3>3. Fields(r, pc, vCall[r].ends, vNow, TRUE)
      BY <1>0, <3>1, <3>2, ReservationCreates, Zenon
    <3> QED BY <1>4, <2>2, <3>2, <3>3 DEF RV!Create, Creates
  <2> QED BY <2>1, <2>2
<1>5. ASSUME NEW r \in Submissions, RV!CreateThrows(r) PROVE Creates(r)
  <2>1. PICK w \in BOOLEAN :
          /\ vRow # RV!NoTombstone => w = FALSE
          /\ vRow' = IF w THEN vCall[r].ends ELSE vRow
          /\ RV!Become(r, [vCall[r] EXCEPT !.at = "confirm", !.wrote = w])
    <3>1. PICK w \in (IF vRow # RV!NoTombstone THEN {FALSE} ELSE BOOLEAN) :
            /\ vRow' = IF w THEN vCall[r].ends ELSE vRow
            /\ RV!Become(r, [vCall[r] EXCEPT !.at = "confirm", !.wrote = w])
      BY <1>5, Zenon DEF RV!CreateThrows
    <3>2. w \in BOOLEAN /\ (vRow # RV!NoTombstone => w = FALSE)
      OBVIOUS
    <3> QED BY <3>1, <3>2, Zenon
  <2>3. Fields(r, "confirm", vCall[r].ends, vCall[r].taken, w)
    BY <2>1, ReservationThrows, Zenon
  <2>4. RV!At(r, "reserve") /\ ~RV!CacheOnly /\ UNCHANGED <<vDeploy, vNow, vCache>>
    BY <1>5 DEF RV!CreateThrows
  <2>5. CASE w = TRUE
    <3>1. vRow = RV!NoTombstone /\ vRow' = vCall[r].ends
      BY <2>1, <2>5
    <3>2. Fields(r, "confirm", vCall[r].ends, vCall[r].taken, TRUE)
      BY <2>3, <2>5
    <3> QED BY <2>4, <3>1, <3>2 DEF Creates
  <2>6. CASE w = FALSE
    <3>1. vRow' = vRow
      BY <2>1, <2>6
    <3>2. Fields(r, "confirm", vCall[r].ends, vCall[r].taken, FALSE)
      BY <2>3, <2>6
    <3> QED BY <2>4, <3>1, <3>2 DEF Creates
  <2> QED BY <2>5, <2>6
<1>6. ASSUME NEW r \in Submissions, RV!Confirm(r) PROVE Confirms(r)
  <2>1. CASE vRow # RV!NoTombstone
    <3>1. Goes(r, "refused")
      BY <1>6, <2>1, ReservationGoes DEF RV!Confirm, RV!Ended
    <3> QED BY <1>6, <2>1, <3>1 DEF RV!Confirm, Confirms
  <2>2. CASE vRow = RV!NoTombstone
    <3>1. Goes(r, "failed")
      BY <1>6, <2>2, ReservationGoes DEF RV!Confirm, RV!Ended
    <3> QED BY <1>6, <3>1 DEF RV!Confirm, Confirms
  <2> QED BY <2>1, <2>2
<1>7. ASSUME NEW r \in Submissions, RV!Copy(r) PROVE Copies(r)
  <2> DEFINE c == vCall[r]
             ttl == RV!Ttl(c.ends)
  <2>1. ttl \in Nat /\ vNow + ttl > c.ends - vDeploy.second
    BY <1>0, TtlFloored
  <2>2. vCache' \in IF ttl > 0 THEN {vNow + ttl}
                   ELSE IF RV!CacheOnly THEN {vNow, vDeploy.maxTime + 1} ELSE {vCache}
    BY <1>7 DEF RV!Copy
  <2>3. RV!At(r, "copy") /\ UNCHANGED <<vDeploy, vNow, vRow>>
    BY <1>7 DEF RV!Copy
  <2>4. RV!Become(r, [vCall[r] EXCEPT !.at = "accepted",
                                      !.taken = IF RV!CacheOnly THEN vNow ELSE c.taken])
    BY <1>7 DEF RV!Copy
  <2> HIDE DEF ttl
  <2>5. CASE RV!CacheOnly
    <3>0. RV!Become(r, [vCall[r] EXCEPT !.at = "accepted", !.taken = vNow])
      BY <2>4, <2>5
    <3>1. Fields(r, "accepted", c.ends, vNow, c.wrote)
      BY <1>0, <3>0, ReservationAccepts, Zenon
    <3>2. \/ vCache' # RV!NoTombstone /\ vCache' > c.ends - vDeploy.second
          \/ vNow > c.ends - vDeploy.second
      BY <1>0, <2>1, <2>2, <2>5 DEF RV!NoTombstone
    <3>3. vCache' \in Nat
      BY <1>0, <2>1, <2>2, <2>5
    <3> QED BY <2>3, <2>5, <3>1, <3>2, <3>3 DEF Copies
  <2>6. CASE ~RV!CacheOnly
    <3>1. c.taken \in Nat
      BY DEF RV!TypeOK, RV!Call
    <3>0. RV!Become(r, [vCall[r] EXCEPT !.at = "accepted", !.taken = c.taken])
      BY <2>4, <2>6
    <3>2. Fields(r, "accepted", c.ends, c.taken, c.wrote)
      BY <3>0, <3>1, ReservationAccepts, Zenon
    <3>3. vCache' \in Nat \cup {RV!NoTombstone}
      BY <1>0, <2>1, <2>2, <2>6
    <3> QED BY <2>3, <2>6, <3>2, <3>3 DEF Copies, Goes
  <2> QED BY <2>5, <2>6
<1>8. ASSUME NEW r \in Submissions, RV!Fail(r) PROVE Fails(r)
  <2>1. Goes(r, "failed")
    BY <1>8, ReservationGoes DEF RV!Fail, RV!Ended
  <2> QED BY <1>8, <2>1 DEF RV!Fail, Fails
<1>9. CASE RV!Purge \/ RV!Forget
  BY <1>9 DEF RV!Purge, RV!Forget, ReservationMoves, Forgets
<1>10. CASE RV!Tick
  BY <1>10 DEF RV!Tick, ReservationMoves, Ticks
<1>11. CASE UNCHANGED RV!vars
  BY <1>11 DEF ReservationMoves
<1> QED
  BY <1>1, <1>2, <1>3, <1>4, <1>5, <1>6, <1>7, <1>8, <1>9, <1>10, <1>11
     DEF RV!Next, RV!Step, RV!Idle, ReservationMoves

LEMMA ReservationStepTypeOK ==
  ASSUME RV!ConstantsOK
  PROVE  RV!TypeOK /\ [RV!Next]_RV!vars => RV!TypeOK'
<1> SUFFICES ASSUME RV!TypeOK, [RV!Next]_RV!vars PROVE RV!TypeOK' OBVIOUS
<1>0. /\ vDeploy \in Assertions /\ vDeploy.maxTime \in Nat /\ vDeploy.maxFaults \in Nat
      /\ vNow \in 0..vDeploy.maxTime /\ vFaults \in 0..vDeploy.maxFaults
      /\ vRow \in Nat \cup {RV!NoTombstone} /\ vCache \in Nat \cup {RV!NoTombstone}
      /\ vCall \in [Submissions -> RV!Call]
      /\ \A r \in Submissions : vCall[r].ends \in Nat
  BY ReservationDeployTyped DEF RV!TypeOK, RV!Call
<1>1. ReservationMoves
  BY ReservationStepMoves
<1>2. vCall' \in [Submissions -> RV!Call]
  BY <1>0, <1>1 DEF ReservationMoves, Checks, Gets, Creates, Confirms, Copies, Fails, Forgets, Ticks,
    Goes, Fields, RV!vars
<1>3. vRow' \in Nat \cup {RV!NoTombstone} /\ vCache' \in Nat \cup {RV!NoTombstone}
  BY <1>0, <1>1 DEF ReservationMoves, Checks, Gets, Creates, Confirms, Copies, Fails, Forgets, Ticks,
    RV!vars
<1>4. vDeploy' = vDeploy
  BY <1>1 DEF ReservationMoves, Checks, Gets, Creates, Confirms, Copies, Fails, Forgets, Ticks, RV!vars
<1>5. vNow' \in 0..vDeploy.maxTime /\ vFaults' \in 0..vDeploy.maxFaults
  <2>1. CASE RV!Tick
    BY <1>0, <2>1 DEF RV!Tick
  <2>2. ASSUME NEW r \in Submissions, RV!CreateThrows(r) \/ RV!Fail(r)
        PROVE  vNow' = vNow /\ vFaults < vDeploy.maxFaults /\ vFaults' = vFaults + 1
    <3>1. CASE RV!CreateThrows(r)
      BY <3>1, Zenon DEF RV!CreateThrows, RV!Faulty
    <3>2. CASE RV!Fail(r)
      BY <3>2 DEF RV!Fail, RV!Faulty
    <3> QED BY <2>2, <3>1, <3>2
  <2>3. ASSUME NEW r \in Submissions, RV!Start(r) \/ RV!Step(r)
        PROVE  vNow' = vNow /\ vFaults' = vFaults
    BY <2>3 DEF RV!Step, RV!Start, RV!Check, RV!Get, RV!Create, RV!Confirm, RV!Copy
  <2>4. CASE RV!Purge \/ RV!Forget \/ UNCHANGED RV!vars
    BY <1>0, <2>4 DEF RV!Purge, RV!Forget, RV!vars
  <2> QED BY <1>0, <2>1, <2>2, <2>3, <2>4 DEF RV!Next, RV!Idle
<1> QED BY <1>0, <1>2, <1>3, <1>4, <1>5 DEF RV!TypeOK

\* The state of reservations has its type.
LEMMA ReservationTypeCorrect ==
  ASSUME RV!ConstantsOK
  PROVE  RV!Spec => []RV!TypeOK
BY ReservationInitTypeOK, ReservationStepTypeOK, PTL DEF RV!Spec

-----------------------------------------------------------------------------
(* One is accepted. *)

CacheOnly == RV!CacheOnly
Wrote(r) == vCall[r].wrote
Placed(r) == vCall[r].at \in {"copy", "accepted"}
\* The tombstone of r has ended, or what is rounded off its time to live has begun.
Over(r) == vNow > vCall[r].ends
Rounded(r) == vNow > vCall[r].ends - vDeploy.second

\* Until it has ended, the tombstone stands that one has written.
TombstoneStands ==
  /\ \A r \in Submissions : vCall[r].at \in {"idle", "check", "reserve"} => ~Wrote(r)
  /\ ~CacheOnly => \A r \in Submissions : Placed(r) => Wrote(r)
  /\ \A r \in Submissions : Wrote(r) => vRow = vCall[r].ends \/ Over(r)
\* For one submission at a time, secondary storage has the tombstone for a second less;
\* who goes on has missed it.
TombstoneCached ==
  CacheOnly /\ vDeploy.serial => \A r \in Submissions : RV!At(r, "accepted") =>
    /\ Rounded(r) \/ (vCache # RV!NoTombstone /\ vCache > vCall[r].ends - vDeploy.second)
    /\ \A q \in Submissions : RV!At(q, "copy") => Rounded(r)

OneAtATime ==
  vDeploy.serial => \A r, q \in Submissions : RV!InFlight(r) /\ RV!InFlight(q) => r = q
\* One of two that reserved did after the end of the other.
After(q, r) == vCall[q].taken > vCall[r].ends
RoundedAfter(q, r) == vCall[q].taken > vCall[r].ends - vDeploy.second
OneOutlasts ==
  /\ ~CacheOnly => \A r, q \in Submissions :
       Placed(r) /\ Placed(q) /\ r # q => After(q, r) \/ After(r, q)
  /\ CacheOnly /\ vDeploy.serial => \A r, q \in Submissions :
       RV!At(r, "accepted") /\ RV!At(q, "accepted") /\ r # q =>
         RoundedAfter(q, r) \/ RoundedAfter(r, q)

\* There is no tombstone and no refusal unless somebody wrote one.
RefusalsCaused ==
  ~CacheOnly =>
    /\ vRow # RV!NoTombstone => \E q \in Submissions : Wrote(q)
    /\ \A r \in Submissions : RV!At(r, "refused") => \E q \in Submissions : Wrote(q)

ReservationInv ==
  /\ RV!TypeOK /\ TombstoneStands /\ TombstoneCached /\ OneAtATime /\ OneOutlasts
  /\ RefusalsCaused

LEMMA ReservationInvInit ==
  ASSUME RV!ConstantsOK
  PROVE  RV!Init => ReservationInv
<1> SUFFICES ASSUME RV!Init PROVE ReservationInv OBVIOUS
<1>1. RV!TypeOK
  BY ReservationInitTypeOK
<1>2. \A r \in Submissions : vCall[r].at = "idle" /\ ~Wrote(r) /\ ~RV!InFlight(r)
  BY DEF RV!Init, RV!NoCall, Wrote, RV!InFlight, RV!Steps
<1>3. vRow = RV!NoTombstone
  BY DEF RV!Init
<1>4. TombstoneStands /\ TombstoneCached
  BY <1>2 DEF TombstoneStands, TombstoneCached, Placed, RV!At
<1>5. OneAtATime /\ OneOutlasts /\ RefusalsCaused
  BY <1>2, <1>3 DEF OneAtATime, OneOutlasts, Placed, RefusalsCaused, RV!At
<1> QED BY <1>1, <1>4, <1>5 DEF ReservationInv

\* What a step changes is one call, and the rest as it says.
LEMMA ReservationInvStep ==
  ASSUME RV!ConstantsOK
  PROVE  ReservationInv /\ [RV!Next]_RV!vars => ReservationInv'
<1> SUFFICES ASSUME ReservationInv, [RV!Next]_RV!vars PROVE ReservationInv' OBVIOUS
<1>0. RV!TypeOK /\ RV!TypeOK' /\ ReservationMoves
  BY ReservationStepTypeOK, ReservationStepMoves DEF ReservationInv
<1>1. /\ vNow \in Nat /\ vDeploy.second \in Nat \ {0}
      /\ vRow \in Nat \cup {RV!NoTombstone} /\ vCache \in Nat \cup {RV!NoTombstone}
      /\ \A r \in Submissions :
           vCall[r].wrote \in BOOLEAN /\ vCall[r].ends \in Nat /\ vCall[r].taken \in Nat
  BY <1>0, ReservationDeployTyped DEF RV!TypeOK, RV!Call
<1>n. RV!NoTombstone = -1
  BY DEF RV!NoTombstone
<1> USE DEF TombstoneStands, TombstoneCached, OneAtATime, OneOutlasts, RefusalsCaused, CacheOnly,
            Wrote, Placed, Over, Rounded, After, RoundedAfter, RV!CacheOnly, RV!At
<1>i. TombstoneStands /\ TombstoneCached /\ OneAtATime /\ OneOutlasts /\ RefusalsCaused
  BY DEF ReservationInv
<1> DEFINE Good == TombstoneStands' /\ TombstoneCached' /\ OneAtATime' /\ OneOutlasts' /\ RefusalsCaused'
<1>2. ASSUME NEW r \in Submissions,
             Checks(r) \/ Gets(r) \/ Creates(r) \/ Confirms(r) \/ Copies(r) \/ Fails(r)
      PROVE  Good
  <2>0. \A q \in Submissions \ {r} : vCall'[q] = vCall[q]
    BY <1>2 DEF Checks, Gets, Creates, Confirms, Copies, Fails, Goes, Fields
  <2>f. OneAtATime'
    BY <1>i, <1>2 DEF Checks, Gets, Creates, Confirms, Copies, Fails, Goes, Fields, RV!InFlight, RV!Steps
  <2>1. CASE Checks(r)
    BY <1>i, <1>1, <1>n, <2>f, <2>1 DEF Checks, Goes, Fields
  <2>2. CASE Gets(r)
    <3>1. TombstoneStands' /\ OneOutlasts' /\ RefusalsCaused'
      BY <1>i, <1>1, <2>2 DEF Gets, Goes, Fields
    <3>2. TombstoneCached'
      BY <1>i, <1>1, <2>2 DEF Gets, Goes, Fields, RV!InFlight, RV!Steps
    <3> QED BY <2>f, <3>1, <3>2
  <2>3. CASE Creates(r)
    <3>1. TombstoneStands'
      BY <1>i, <1>1, <1>n, <2>3 DEF Creates, Goes, Fields
    <3>2. OneOutlasts'
      BY <1>i, <1>1, <1>n, <2>3 DEF Creates, Goes, Fields
    <3>3. RefusalsCaused' /\ TombstoneCached'
      BY <1>i, <1>1, <1>n, <2>3 DEF Creates, Goes, Fields
    <3> QED BY <2>f, <3>1, <3>2, <3>3
  <2>4. CASE Confirms(r) \/ Fails(r)
    BY <1>i, <1>1, <1>n, <2>f, <2>4 DEF Confirms, Fails, Goes, Fields
  <2>5. CASE Copies(r)
    <3>1. TombstoneStands' /\ RefusalsCaused'
      BY <1>i, <1>1, <1>n, <2>5 DEF Copies, Goes, Fields
    <3>2. OneOutlasts'
      BY <1>i, <1>1, <1>n, <2>5 DEF Copies, Goes, Fields
    <3>3. TombstoneCached'
      BY <1>i, <1>1, <1>n, <2>5 DEF Copies, Goes, Fields, RV!InFlight, RV!Steps
    <3> QED BY <2>f, <3>1, <3>2, <3>3
  <2> QED BY <1>2, <2>1, <2>2, <2>3, <2>4, <2>5
<1>3. ASSUME Forgets PROVE Good
  <2>1. TombstoneStands' /\ TombstoneCached'
    BY <1>i, <1>1, <1>n, <1>3 DEF Forgets
  <2>2. OneAtATime' /\ OneOutlasts' /\ RefusalsCaused'
    BY <1>i, <1>1, <1>n, <1>3 DEF Forgets, RV!InFlight
  <2> QED BY <2>1, <2>2
<1>4. ASSUME Ticks PROVE Good
  <2>1. TombstoneStands' /\ TombstoneCached'
    BY <1>i, <1>1, <1>n, <1>4 DEF Ticks
  <2>2. OneAtATime' /\ OneOutlasts' /\ RefusalsCaused'
    BY <1>i, <1>1, <1>n, <1>4 DEF Ticks, RV!InFlight
  <2> QED BY <2>1, <2>2
<1>5. ASSUME UNCHANGED RV!vars PROVE Good
  BY <1>i, <1>5 DEF RV!vars, RV!InFlight
<1> HIDE DEF Good
<1>6. Good
  BY <1>0, <1>2, <1>3, <1>4, <1>5 DEF ReservationMoves
<1> QED BY <1>0, <1>6 DEF Good, ReservationInv

LEMMA ReservationInvImplies == RV!ConstantsOK /\ ReservationInv => RV!ReplayRefused
<1> SUFFICES ASSUME RV!ConstantsOK, ReservationInv PROVE RV!ReplayRefused OBVIOUS
<1>1. RV!RefusedForCause
  BY DEF ReservationInv, RefusalsCaused, RV!RefusedForCause, CacheOnly, Wrote
<1>2. \A r \in Submissions : vCall[r].ends \in Nat /\ vCall[r].taken \in Nat
  BY DEF ReservationInv, RV!TypeOK, RV!Call
<1>3. RV!ReservedOnce
  BY <1>2 DEF ReservationInv, OneOutlasts, Placed, After, RoundedAfter, CacheOnly, RV!ReservedOnce,
    RV!Accepted, RV!Slack, RV!At
<1> QED BY <1>1, <1>3 DEF RV!ReplayRefused

\* However the assertion is submitted and whatever fails, one that is accepted shuts out
\* the others while its tombstone lasts, and one is refused as a replay only when a
\* tombstone was written.
LEMMA ReservationHolds ==
  ASSUME RV!ConstantsOK
  PROVE  RV!Spec => []RV!ReplayRefused
BY ReservationInvInit, ReservationInvStep, ReservationInvImplies, PTL DEF RV!Spec

\* A submission that is accepted shuts out every other until the end of its tombstone,
\* where the storage is a database; where it is a cache alone, one submission at a time,
\* until a second before that end. One is refused as a replay only when a tombstone was
\* written.
THEOREM ReplaysRefused == AllSpec => []ReplayRefused
<1>1. RV!ReplayRefused => ReplayRefused
  BY DEF ReplayRefused
<1>2. RV!Spec => []RV!ReplayRefused
  BY ReservationHolds, PluginsAssumption
<1> QED BY <1>1, <1>2, Parts, PTL

-----------------------------------------------------------------------------
(* The keys of the jwt plugin (TokensVerifiableAlways). A token's key is in  *)
(* the table before the token is given out, and outlives it by the grace     *)
(* period; who asks for all the keys later has it, unless there are more     *)
(* keys than a query answers.                                                *)

LEMMA RotationTyped ==
  ASSUME jDeploy \in Rotations
  PROVE  /\ jDeploy.ops \in [Requests -> SUBSET KR!Operations]
         /\ jDeploy.interval \in Nat \cup {Never} /\ jDeploy.grace \in Nat
         /\ jDeploy.life \in Nat /\ jDeploy.limit \in Nat
         /\ jDeploy.maxTime \in Nat /\ jDeploy.maxFailures \in Nat
         /\ Never \notin Nat
  BY PluginsAssumption DEF KR!ConstantsOK, KR!Deployment

\* What a request for keys becomes.
LEMMA RotationBecome ==
  ASSUME KR!TypeOK, NEW r \in Requests, NEW c, KR!Become(r, c)
  PROVE  /\ jCall'[r] = c /\ \A q \in Requests : q # r => jCall'[q] = jCall[q]
         /\ c \in KR!Call => jCall' \in [Requests -> KR!Call]
  BY DEF KR!TypeOK, KR!Become

LEMMA RotationCallTyped ==
  ASSUME NEW c \in KR!Call, NEW pc \in {"ok", "failed"} \cup KR!Steps,
         NEW ks \in SUBSET KR!Key, NEW ts \in SUBSET KR!Token
  PROVE  /\ [c EXCEPT !.at = pc] \in KR!Call
         /\ [c EXCEPT !.at = pc, !.keys = ks] \in KR!Call
         /\ [c EXCEPT !.at = pc, !.lost = ts] \in KR!Call
<1>1. [c EXCEPT !.at = pc] \in KR!Call
  BY DEF KR!Call
<1>2. [c EXCEPT !.at = pc, !.keys = ks] \in KR!Call
  BY DEF KR!Call
<1>3. [c EXCEPT !.at = pc, !.lost = ts] \in KR!Call
  BY DEF KR!Call
<1> QED BY <1>1, <1>2, <1>3

\* A key outlives by its grace period what was signed with it; a query of all the
\* keys finds the keys of all the tokens that there were.
Outlives(k, exp) == k.ends = Never \/ k.ends + jDeploy.life >= exp
AllFound == Cardinality(keys) <= jDeploy.limit
HasKey(t, ks) == \E k \in ks : k.id = t.key /\ Outlives(k, t.exp)
RotationStep(r) ==
  LET c == jCall[r] IN
  /\ c.iat <= jNow /\ c.tokens \subseteq tokens
  /\ c.at = "insert" => \A k \in c.keys : Outlives(k, c.iat + jDeploy.life)
  /\ c.at = "insert" => \E k : c.keys = {k}
  /\ c.at = "sign" => c.keys \subseteq keys /\ \A k \in c.keys : Outlives(k, c.iat + jDeploy.life)
  /\ c.at = "answer" => (AllFound => \A t \in c.tokens : HasKey(t, c.keys))
  /\ jDeploy.life <= jDeploy.grace /\ AllFound => c.lost = {}
RotationInv ==
  /\ IsFiniteSet(keys)
  /\ \A t \in tokens : HasKey(t, keys)
  /\ \A r \in Requests : RotationStep(r)

LEMMA RotationInit == KR!Init => KR!TypeOK /\ RotationInv
<1> SUFFICES ASSUME KR!Init PROVE KR!TypeOK /\ RotationInv
  OBVIOUS
<1>0. jDeploy \in Rotations
  BY DEF KR!Init
<1>1. KR!NoCall \in KR!Call
  BY DEF KR!NoCall, KR!Call
<1>2. KR!TypeOK
  BY <1>0, <1>1, RotationTyped DEF KR!Init, KR!TypeOK
<1>3. keys = {} /\ tokens = {} /\ jNow = 0 /\ IsFiniteSet(keys)
  BY FS_EmptySet DEF KR!Init
<1>4. \A r \in Requests : jCall[r] = KR!NoCall
  BY DEF KR!Init
<1>5. /\ KR!NoCall.iat = 0 /\ KR!NoCall.tokens = {} /\ KR!NoCall.at = "idle"
      /\ KR!NoCall.lost = {}
  BY DEF KR!NoCall
<1> QED BY <1>2, <1>3, <1>4, <1>5 DEF RotationInv, RotationStep

\* What a query answers when it may answer all: all.
LEMMA FoundAll ==
  ASSUME KR!TypeOK, IsFiniteSet(keys), NEW ks \in KR!Found
  PROVE  ks \subseteq keys /\ (AllFound => ks = keys)
<1>1. KR!Cardinality(ks) = Cardinality(ks)
  BY DEF KR!Cardinality, Cardinality
<1>2. ks \in SUBSET keys /\ (Cardinality(ks) = jDeploy.limit \/ ks = keys)
  BY <1>1 DEF KR!Found
<1>3. /\ Cardinality(ks) <= Cardinality(keys) /\ Cardinality(keys) \in Nat
      /\ Cardinality(ks) = Cardinality(keys) => ks = keys
  BY <1>2, FS_Subset, FS_CardinalityType
<1>4. jDeploy.limit \in Nat
  BY RotationTyped DEF KR!TypeOK
<1> QED BY <1>2, <1>3, <1>4 DEF AllFound

LEMMA RotationStepTyped == KR!TypeOK /\ [KR!Next]_KR!vars => KR!TypeOK'
<1> SUFFICES ASSUME KR!TypeOK, [KR!Next]_KR!vars PROVE KR!TypeOK'
  OBVIOUS
<1>0. /\ jDeploy \in Rotations /\ jNow \in 0..jDeploy.maxTime /\ keys \subseteq KR!Key
      /\ tokens \subseteq KR!Token /\ jCall \in [Requests -> KR!Call]
      /\ failures \in 0..jDeploy.maxFailures
  BY DEF KR!TypeOK
<1>d. /\ jDeploy.ops \in [Requests -> SUBSET KR!Operations] /\ jDeploy.interval \in Nat \cup {Never}
      /\ jDeploy.life \in Nat /\ jDeploy.maxTime \in Nat /\ jDeploy.maxFailures \in Nat
      /\ jNow \in Nat
  BY <1>0, RotationTyped
<1>g. ASSUME NEW r \in Requests, NEW pc \in {"ok", "failed"} \cup KR!Steps, NEW ks \in SUBSET KR!Key,
             \/ KR!Become(r, [jCall[r] EXCEPT !.at = pc])
             \/ KR!Become(r, [jCall[r] EXCEPT !.at = pc, !.keys = ks])
      PROVE  jCall' \in [Requests -> KR!Call]
  <2>1. /\ [jCall[r] EXCEPT !.at = pc] \in KR!Call
        /\ [jCall[r] EXCEPT !.at = pc, !.keys = ks] \in KR!Call
    BY <1>0, RotationCallTyped
  <2> QED BY <1>g, <2>1, RotationBecome
<1>1. ASSUME NEW r \in Requests, NEW op \in jDeploy.ops[r], KR!Start(r, op) PROVE KR!TypeOK'
  <2>1. PICK ts \in SUBSET KR!Token :
          KR!Become(r, [KR!NoCall EXCEPT !.op = op, !.at = "find", !.iat = jNow, !.tokens = ts])
    BY <1>0, <1>1 DEF KR!Start
  <2>2. [KR!NoCall EXCEPT !.op = op, !.at = "find", !.iat = jNow, !.tokens = ts] \in KR!Call
    BY <1>d DEF KR!NoCall, KR!Call, KR!Steps
  <2> QED BY <1>0, <1>1, <2>1, <2>2, RotationBecome DEF KR!Start, KR!TypeOK
<1>2. ASSUME NEW r \in Requests, KR!Find(r) PROVE KR!TypeOK'
  <2>1. PICK ks \in KR!Found :
       \/ /\ KR!Op(r) = "signJWT"
          /\ \/ KR!Become(r, [jCall[r] EXCEPT !.at = "make"])
             \/ \E k \in KR!Latest(ks) : KR!Become(r, [jCall[r] EXCEPT !.at = "sign", !.keys = {k}])
       \/ KR!Become(r, [jCall[r] EXCEPT !.at = IF KR!Op(r) = "getJwks" /\ ks = {}
                                               THEN "make" ELSE "answer",
                                       !.keys = ks])
    BY <1>2 DEF KR!Find
  <2>2. ks \in SUBSET KR!Key /\ \A k \in KR!Latest(ks) : {k} \in SUBSET KR!Key
    BY <1>0 DEF KR!Found, KR!Latest
  <2>3. PICK pc \in {"make", "answer"} : pc = IF KR!Op(r) = "getJwks" /\ ks = {} THEN "make" ELSE "answer"
    OBVIOUS
  <2>4. CASE KR!Become(r, [jCall[r] EXCEPT !.at = "make"])
    <3>1. jCall' \in [Requests -> KR!Call]
      BY <1>g, <2>2, <2>4 DEF KR!Steps
    <3> QED BY <1>0, <1>2, <3>1 DEF KR!Find, KR!TypeOK
  <2>5. CASE \E k \in KR!Latest(ks) : KR!Become(r, [jCall[r] EXCEPT !.at = "sign", !.keys = {k}])
    <3>1. jCall' \in [Requests -> KR!Call]
      BY <1>g, <2>2, <2>5 DEF KR!Steps
    <3> QED BY <1>0, <1>2, <3>1 DEF KR!Find, KR!TypeOK
  <2>6. CASE KR!Become(r, [jCall[r] EXCEPT !.at = IF KR!Op(r) = "getJwks" /\ ks = {}
                                               THEN "make" ELSE "answer", !.keys = ks])
    <3>1. jCall' \in [Requests -> KR!Call]
      BY <1>g, <2>2, <2>3, <2>6 DEF KR!Steps
    <3> QED BY <1>0, <1>2, <3>1 DEF KR!Find, KR!TypeOK
  <2> QED BY <2>1, <2>4, <2>5, <2>6
<1>3. ASSUME NEW r \in Requests, KR!Make(r) PROVE KR!TypeOK'
  <2> DEFINE e == IF jDeploy.interval = Never THEN Never ELSE jNow + jDeploy.interval
             ks == {[id |-> r, created |-> jNow, ends |-> e]}
  <2>1. e \in Nat \cup {Never}
    BY <1>d
  <2>2. KR!Become(r, [jCall[r] EXCEPT !.at = "insert", !.keys = ks])
    BY <1>3 DEF KR!Make
  <2> HIDE DEF e
  <2>3. ks \in SUBSET KR!Key
    BY <1>d, <2>1 DEF KR!Key
  <2> HIDE DEF ks
  <2>4. jCall' \in [Requests -> KR!Call]
    BY <1>g, <2>2, <2>3 DEF KR!Steps
  <2> QED BY <1>0, <1>3, <2>4 DEF KR!Make, KR!TypeOK
<1>4. ASSUME NEW r \in Requests, KR!Insert(r) PROVE KR!TypeOK'
  <2> DEFINE made == {[k EXCEPT !.created = jNow] : k \in jCall[r].keys}
  <2>1. made \in SUBSET KR!Key
    BY <1>0, <1>d DEF KR!Key, KR!Call
  <2>2. PICK pc \in {"sign", "again"} : /\ KR!Become(r, [jCall[r] EXCEPT !.at = pc, !.keys = made])
                                       /\ keys' = keys \cup made
    BY <1>4 DEF KR!Insert
  <2> HIDE DEF made
  <2>3. jCall' \in [Requests -> KR!Call]
    BY <1>g, <2>1, <2>2 DEF KR!Steps
  <2> QED BY <1>0, <1>4, <2>1, <2>2, <2>3 DEF KR!Insert, KR!TypeOK
<1>5. ASSUME NEW r \in Requests, KR!Again(r) PROVE KR!TypeOK'
  <2>1. PICK ks \in SUBSET KR!Key : KR!Become(r, [jCall[r] EXCEPT !.at = "answer", !.keys = ks])
    BY <1>0, <1>5 DEF KR!Again, KR!Found
  <2>2. jCall' \in [Requests -> KR!Call]
    BY <1>g, <2>1 DEF KR!Steps
  <2> QED BY <1>0, <1>5, <2>2 DEF KR!Again, KR!TypeOK
<1>6. ASSUME NEW r \in Requests, KR!Sign(r) PROVE KR!TypeOK'
  <2>1. jCall' \in [Requests -> KR!Call]
    BY <1>6, <1>g DEF KR!Sign
  <2>2. tokens' \subseteq KR!Token
    BY <1>0, <1>6, <1>d DEF KR!Sign, KR!Token, KR!Key, KR!Call
  <2> QED BY <1>0, <1>6, <2>1, <2>2 DEF KR!Sign, KR!TypeOK
<1>7. ASSUME NEW r \in Requests, KR!Answer(r) PROVE KR!TypeOK'
  <2> DEFINE ts == {t \in jCall[r].tokens : t.exp > jNow /\ \A k \in KR!Shown(r) : k.id # t.key}
  <2>1. KR!Become(r, [jCall[r] EXCEPT !.at = "ok", !.lost = ts])
    BY <1>7 DEF KR!Answer
  <2>2. ts \in SUBSET KR!Token
    BY <1>0 DEF KR!Call
  <2> HIDE DEF ts
  <2>3. [jCall[r] EXCEPT !.at = "ok", !.lost = ts] \in KR!Call
    BY <1>0, <2>2, RotationCallTyped
  <2> QED BY <1>0, <1>7, <2>1, <2>3, RotationBecome DEF KR!Answer, KR!TypeOK
<1>8. ASSUME NEW r \in Requests, KR!Fail(r) PROVE KR!TypeOK'
  <2>1. jCall' \in [Requests -> KR!Call]
    BY <1>8, <1>g DEF KR!Fail
  <2> QED BY <1>0, <1>8, <1>d, <2>1 DEF KR!Fail, KR!TypeOK
<1>9. CASE KR!Tick
  BY <1>0, <1>9, <1>d DEF KR!Tick, KR!TypeOK
<1>10. CASE UNCHANGED KR!vars
  BY <1>0, <1>10 DEF KR!vars, KR!TypeOK
<1> QED BY <1>1, <1>2, <1>3, <1>4, <1>5, <1>6, <1>7, <1>8, <1>9, <1>10
        DEF KR!Next, KR!Step, KR!Idle

\* Keys are only added: what may be answered at once could be before.
LEMMA AllFoundBefore ==
  ASSUME KR!TypeOK, jDeploy' = jDeploy, keys \subseteq keys', IsFiniteSet(keys')
  PROVE  AllFound' => AllFound
<1>1. /\ Cardinality(keys) <= Cardinality(keys') /\ Cardinality(keys) \in Nat
      /\ Cardinality(keys') \in Nat
  <2>1. IsFiniteSet(keys)
    BY FS_Subset
  <2> QED BY <2>1, FS_Subset, FS_CardinalityType
<1>2. jDeploy.limit \in Nat
  BY RotationTyped DEF KR!TypeOK
<1> QED BY <1>1, <1>2 DEF AllFound

\* What every step keeps. r is the request that moves.
RotationOthers(r) == \A q \in Requests : q # r => jCall'[q] = jCall[q]
LEMMA RotationCarry ==
  ASSUME KR!TypeOK, RotationInv, NEW r \in Requests,
         jDeploy' = jDeploy, jNow \in Nat, jNow' \in Nat, jNow' >= jNow, keys \subseteq keys',
         IsFiniteSet(keys'), tokens \subseteq tokens', RotationOthers(r), RotationStep(r)',
         \A t \in tokens' : t \in tokens \/ HasKey(t, keys')
  PROVE  RotationInv'
<1>0. \A q \in Requests : jCall[q] \in KR!Call /\ jCall[q].iat \in Nat /\ jCall[q].tokens \subseteq tokens
  BY DEF KR!TypeOK, KR!Call, RotationInv, RotationStep
<1>1. AllFound' => AllFound
  BY AllFoundBefore
<1>2. \A k, e : Outlives(k, e)' <=> Outlives(k, e)
  BY DEF Outlives
<1>3. ASSUME NEW t \in tokens' PROVE HasKey(t, keys)'
  BY <1>3 DEF HasKey, Outlives, RotationInv
<1>4. ASSUME NEW q \in Requests PROVE RotationStep(q)'
  <2>1. CASE q = r
    BY <2>1
  <2>2. CASE q # r
    <3> DEFINE c == jCall[q]
    <3>1. jCall'[q] = c /\ RotationStep(q)
      BY <2>2 DEF RotationOthers, RotationInv
    <3>2. c.iat <= jNow' /\ c.tokens \subseteq tokens'
      BY <1>0, <3>1 DEF RotationStep
    <3>3. /\ c.at = "insert" => \A k \in c.keys : Outlives(k, c.iat + jDeploy.life)
          /\ c.at = "insert" => \E k : c.keys = {k}
          /\ c.at = "sign" => c.keys \subseteq keys' /\ \A k \in c.keys : Outlives(k, c.iat + jDeploy.life)
      BY <3>1 DEF RotationStep
    <3>4. c.at = "answer" => (AllFound' => \A t \in c.tokens : HasKey(t, c.keys))
      BY <1>1, <3>1 DEF RotationStep
    <3>5. jDeploy.life <= jDeploy.grace /\ AllFound' => c.lost = {}
      BY <1>1, <3>1 DEF RotationStep
    <3> HIDE DEF c
    <3>6. jCall'[q] = c
      BY <3>1 DEF c
    <3> QED BY <3>2, <3>3, <3>4, <3>5, <3>6 DEF RotationStep, HasKey, Outlives
  <2> QED BY <2>1, <2>2
<1> QED BY <1>3, <1>4 DEF RotationInv

LEMMA RotationStepKeeps == KR!TypeOK /\ KR!TypeOK' /\ RotationInv /\ [KR!Next]_KR!vars => RotationInv'
<1> SUFFICES ASSUME KR!TypeOK, KR!TypeOK', RotationInv, [KR!Next]_KR!vars PROVE RotationInv'
  OBVIOUS
<1>0. /\ \A q \in Requests : jCall[q] \in KR!Call /\ jCall'[q] \in KR!Call /\ jCall[q].iat \in Nat
      /\ jNow \in Nat /\ jNow' \in Nat /\ Never \notin Nat
      /\ keys \subseteq KR!Key /\ tokens \subseteq KR!Token
      /\ jDeploy.life \in Nat /\ jDeploy.grace \in Nat /\ jDeploy.interval \in Nat \cup {Never}
  BY RotationTyped DEF KR!TypeOK, KR!Call
<1>k. /\ IsFiniteSet(keys) /\ \A t \in tokens : HasKey(t, keys)
      /\ \A q \in Requests : RotationStep(q)
  BY DEF RotationInv
<1>q. \A q \in Requests : \A c : KR!Become(q, c) => jCall'[q] = c /\ RotationOthers(q)
  BY RotationBecome DEF RotationOthers
\* A step of r that changes nothing else.
<1>s. ASSUME NEW r \in Requests, UNCHANGED <<jDeploy, jNow, keys, tokens>>, RotationOthers(r),
             RotationStep(r)'
      PROVE  RotationInv'
  BY <1>0, <1>k, <1>s, RotationCarry
<1>a. ASSUME NEW r \in Requests, KR!TypeOK, UNCHANGED <<jDeploy, jNow, keys, tokens>>,
             NEW pc, pc \notin {"insert", "sign", "answer"},
             KR!Become(r, [jCall[r] EXCEPT !.at = pc])
      PROVE  RotationInv'
  <2>1a. jCall'[r] = [jCall[r] EXCEPT !.at = pc] /\ RotationOthers(r)
    BY <1>a, <1>q
  <2>1. /\ jCall'[r].at = pc /\ jCall'[r].iat = jCall[r].iat /\ jCall'[r].tokens = jCall[r].tokens
        /\ jCall'[r].lost = jCall[r].lost
    BY <1>0, <2>1a DEF KR!Call
  <2>2. RotationStep(r)'
    BY <1>a, <1>k, <2>1 DEF RotationStep, AllFound
  <2> QED BY <1>a, <1>q, <1>s, <2>2
<1>1. ASSUME NEW r \in Requests, NEW op \in jDeploy.ops[r], KR!Start(r, op) PROVE RotationInv'
  <2>0. PICK ts \in SUBSET tokens :
          KR!Become(r, [KR!NoCall EXCEPT !.op = op, !.at = "find", !.iat = jNow, !.tokens = ts])
    BY <1>0, <1>1 DEF KR!Start
  <2>1. /\ jCall'[r] = [KR!NoCall EXCEPT !.op = op, !.at = "find", !.iat = jNow, !.tokens = ts]
        /\ RotationOthers(r)
    BY <2>0, <1>q
  <2>2. /\ jCall'[r].at = "find" /\ jCall'[r].iat = jNow /\ jCall'[r].tokens = ts
        /\ jCall'[r].lost = {}
    BY <2>1 DEF KR!NoCall
  <2>3. UNCHANGED <<jDeploy, jNow, keys, tokens>>
    BY <1>1 DEF KR!Start
  <2>4. RotationStep(r)'
    BY <1>0, <2>1, <2>2, <2>3 DEF RotationStep
  <2> QED BY <1>s, <2>1, <2>3, <2>4
<1>2. ASSUME NEW r \in Requests, KR!Find(r) PROVE RotationInv'
  <2>0. jCall[r].at = "find" /\ UNCHANGED <<jDeploy, jNow, keys, tokens>>
    BY <1>2 DEF KR!Find, KR!At
  <2>1. PICK ks \in KR!Found :
       \/ KR!Become(r, [jCall[r] EXCEPT !.at = "make"])
       \/ \E k \in KR!Latest(ks) : ~KR!Ended(k) /\ KR!Become(r, [jCall[r] EXCEPT !.at = "sign", !.keys = {k}])
       \/ KR!Become(r, [jCall[r] EXCEPT !.at = IF KR!Op(r) = "getJwks" /\ ks = {}
                                               THEN "make" ELSE "answer",
                                       !.keys = ks])
    BY <1>2 DEF KR!Find
  <2>2. ks \subseteq keys /\ (AllFound => ks = keys)
    BY <1>k, FoundAll
  <2>3. CASE KR!Become(r, [jCall[r] EXCEPT !.at = "make"])
    BY <1>a, <2>0, <2>3
  <2>4. CASE \E k \in KR!Latest(ks) :
               ~KR!Ended(k) /\ KR!Become(r, [jCall[r] EXCEPT !.at = "sign", !.keys = {k}])
    <3>1. PICK k \in ks : /\ ~KR!Ended(k)
                          /\ KR!Become(r, [jCall[r] EXCEPT !.at = "sign", !.keys = {k}])
      BY <2>4 DEF KR!Latest
    <3>2a. jCall'[r] = [jCall[r] EXCEPT !.at = "sign", !.keys = {k}] /\ RotationOthers(r)
      BY <1>q, <3>1
    <3>2. /\ jCall'[r].at = "sign" /\ jCall'[r].iat = jCall[r].iat /\ jCall'[r].keys = {k}
          /\ jCall'[r].tokens = jCall[r].tokens /\ jCall'[r].lost = jCall[r].lost
      BY <1>0, <3>2a DEF KR!Call
    <3>3. k \in keys /\ k \in KR!Key /\ Outlives(k, jCall[r].iat + jDeploy.life)
      <4>1. k \in keys /\ k \in KR!Key /\ jCall[r].iat <= jNow
        BY <1>0, <1>k, <2>2 DEF RotationStep
      <4> QED BY <1>0, <3>1, <4>1 DEF KR!Ended, Outlives, KR!Key
    <3>4. RotationStep(r)'
      BY <1>k, <2>0, <3>2, <3>3 DEF RotationStep, AllFound, Outlives
    <3> QED BY <1>q, <1>s, <2>0, <3>1, <3>4
  <2>5. CASE KR!Become(r, [jCall[r] EXCEPT !.at = IF KR!Op(r) = "getJwks" /\ ks = {}
                                               THEN "make" ELSE "answer", !.keys = ks])
    <3>1. PICK pc \in {"make", "answer"} : KR!Become(r, [jCall[r] EXCEPT !.at = pc, !.keys = ks])
      BY <2>5
    <3>2a. jCall'[r] = [jCall[r] EXCEPT !.at = pc, !.keys = ks] /\ RotationOthers(r)
      BY <1>q, <3>1
    <3>2. /\ jCall'[r].at = pc /\ jCall'[r].iat = jCall[r].iat /\ jCall'[r].keys = ks
          /\ jCall'[r].tokens = jCall[r].tokens /\ jCall'[r].lost = jCall[r].lost
      BY <1>0, <3>2a DEF KR!Call
    <3>3. AllFound => \A t \in jCall[r].tokens : HasKey(t, ks)
      BY <1>k, <2>2 DEF RotationStep
    <3>4. RotationStep(r)'
      BY <1>k, <2>0, <3>2, <3>3 DEF RotationStep, AllFound, HasKey, Outlives
    <3> QED BY <1>q, <1>s, <2>0, <3>1, <3>4
  <2> QED BY <2>1, <2>3, <2>4, <2>5
<1>3. ASSUME NEW r \in Requests, KR!Make(r) PROVE RotationInv'
  <2> DEFINE e == IF jDeploy.interval = Never THEN Never ELSE jNow + jDeploy.interval
             k == [id |-> r, created |-> jNow, ends |-> e]
  <2>1. KR!Become(r, [jCall[r] EXCEPT !.at = "insert", !.keys = {k}])
        /\ UNCHANGED <<jDeploy, jNow, keys, tokens>>
    BY <1>3 DEF KR!Make
  <2>2. Outlives(k, jCall[r].iat + jDeploy.life)
    <3>1. jCall[r].iat <= jNow
      BY <1>k DEF RotationStep
    <3> QED BY <1>0, <3>1 DEF Outlives
  <2> HIDE DEF k
  <2>3a. jCall'[r] = [jCall[r] EXCEPT !.at = "insert", !.keys = {k}] /\ RotationOthers(r)
    BY <1>q, <2>1
  <2>3. /\ jCall'[r].at = "insert" /\ jCall'[r].iat = jCall[r].iat /\ jCall'[r].keys = {k}
        /\ jCall'[r].tokens = jCall[r].tokens /\ jCall'[r].lost = jCall[r].lost
    BY <1>0, <2>3a DEF KR!Call
  <2>4. RotationStep(r)'
    BY <1>k, <2>1, <2>2, <2>3 DEF RotationStep, AllFound, Outlives
  <2> QED BY <1>q, <1>s, <2>1, <2>4
<1>4. ASSUME NEW r \in Requests, KR!Insert(r) PROVE RotationInv'
  <2> DEFINE made == {[k EXCEPT !.created = jNow] : k \in jCall[r].keys}
  <2>1. PICK pc \in {"sign", "again"} :
          /\ KR!Become(r, [jCall[r] EXCEPT !.at = pc, !.keys = made])
          /\ keys' = keys \cup made /\ UNCHANGED <<jDeploy, jNow, tokens>>
    BY <1>4 DEF KR!Insert
  <2>2. \A j \in made : Outlives(j, jCall[r].iat + jDeploy.life)
    <3>1. \A k \in jCall[r].keys : k \in KR!Key /\ Outlives(k, jCall[r].iat + jDeploy.life)
      BY <1>0, <1>4, <1>k DEF KR!Insert, KR!At, RotationStep, KR!Call
    <3>2. \A k \in KR!Key : [k EXCEPT !.created = jNow].ends = k.ends
      BY DEF KR!Key
    <3> QED BY <3>1, <3>2 DEF Outlives
  <2>3. IsFiniteSet(keys') /\ (AllFound' => AllFound)
    <3>1. PICK k : jCall[r].keys = {k}
      BY <1>4, <1>k DEF KR!Insert, KR!At, RotationStep
    <3>2. made = {[k EXCEPT !.created = jNow]}
      BY <3>1
    <3>3. IsFiniteSet(keys \cup made)
      BY <1>k, <3>2, FS_AddElement
    <3> HIDE DEF made
    <3>4. IsFiniteSet(keys') /\ keys \subseteq keys'
      BY <2>1, <3>3
    <3> QED BY <2>1, <3>4, AllFoundBefore
  <2> HIDE DEF made
  <2>4a. jCall'[r] = [jCall[r] EXCEPT !.at = pc, !.keys = made] /\ RotationOthers(r)
    BY <1>q, <2>1
  <2>4. /\ jCall'[r].at = pc /\ jCall'[r].iat = jCall[r].iat /\ jCall'[r].keys = made
        /\ jCall'[r].tokens = jCall[r].tokens /\ jCall'[r].lost = jCall[r].lost
        /\ RotationOthers(r)
    BY <1>0, <2>4a DEF KR!Call
  <2>5. RotationStep(r)'
    BY <1>k, <2>1, <2>2, <2>3, <2>4 DEF RotationStep, Outlives
  <2>6. /\ UNCHANGED <<jDeploy, jNow, tokens>> /\ jNow' >= jNow
        /\ keys \subseteq keys' /\ RotationOthers(r)
    BY <1>0, <2>1, <2>4
  <2> QED BY <1>0, <2>3, <2>5, <2>6, RotationCarry
<1>5. ASSUME NEW r \in Requests, KR!Again(r) PROVE RotationInv'
  <2>1. PICK ks \in KR!Found : KR!Become(r, [jCall[r] EXCEPT !.at = "answer", !.keys = ks])
    BY <1>5 DEF KR!Again
  <2>2. UNCHANGED <<jDeploy, jNow, keys, tokens>> /\ (AllFound => ks = keys)
    BY <1>5, <1>k, FoundAll DEF KR!Again
  <2>3a. jCall'[r] = [jCall[r] EXCEPT !.at = "answer", !.keys = ks] /\ RotationOthers(r)
    BY <1>q, <2>1
  <2>3. /\ jCall'[r].at = "answer" /\ jCall'[r].iat = jCall[r].iat /\ jCall'[r].keys = ks
        /\ jCall'[r].tokens = jCall[r].tokens /\ jCall'[r].lost = jCall[r].lost
    BY <1>0, <2>3a DEF KR!Call
  <2>4. AllFound => \A t \in jCall[r].tokens : HasKey(t, ks)
    BY <1>k, <2>2 DEF RotationStep
  <2>5. RotationStep(r)'
    BY <1>k, <2>2, <2>3, <2>4 DEF RotationStep, AllFound, HasKey, Outlives
  <2> QED BY <1>q, <1>s, <2>1, <2>2, <2>5
<1>6. ASSUME NEW r \in Requests, KR!Sign(r) PROVE RotationInv'
  <2> DEFINE new == {[key |-> k.id, exp |-> jCall[r].iat + jDeploy.life] : k \in jCall[r].keys}
  <2>1. /\ KR!Become(r, [jCall[r] EXCEPT !.at = "ok"]) /\ tokens' = tokens \cup new
        /\ UNCHANGED <<jDeploy, jNow, keys>>
    BY <1>6 DEF KR!Sign
  <2>2. \A t \in new : HasKey(t, keys)
    BY <1>6, <1>k DEF KR!Sign, KR!At, RotationStep, HasKey
  <2> HIDE DEF new
  <2>3a. jCall'[r] = [jCall[r] EXCEPT !.at = "ok"] /\ RotationOthers(r)
    BY <1>q, <2>1
  <2>3. /\ jCall'[r].at = "ok" /\ jCall'[r].iat = jCall[r].iat
        /\ jCall'[r].tokens = jCall[r].tokens /\ jCall'[r].lost = jCall[r].lost
        /\ RotationOthers(r)
    BY <1>0, <2>3a DEF KR!Call
  <2>4. RotationStep(r)'
    BY <1>k, <2>1, <2>3 DEF RotationStep, AllFound
  <2>5. \A t \in tokens' : t \in tokens \/ HasKey(t, keys')
    BY <2>1, <2>2
  <2> QED BY <1>0, <1>k, <2>1, <2>3, <2>4, <2>5, RotationCarry
<1>7. ASSUME NEW r \in Requests, KR!Answer(r) PROVE RotationInv'
  <2> DEFINE ts == {t \in jCall[r].tokens : t.exp > jNow /\ \A k \in KR!Shown(r) : k.id # t.key}
  <2>1. /\ KR!Become(r, [jCall[r] EXCEPT !.at = "ok", !.lost = ts])
        /\ UNCHANGED <<jDeploy, jNow, keys, tokens>>
    BY <1>7 DEF KR!Answer
  <2>2. jDeploy.life <= jDeploy.grace /\ AllFound => ts = {}
    <3> SUFFICES ASSUME jDeploy.life <= jDeploy.grace, AllFound,
                        NEW t \in jCall[r].tokens, t.exp > jNow
                 PROVE  \E k \in KR!Shown(r) : k.id = t.key
      OBVIOUS
    <3>1. HasKey(t, jCall[r].keys)
      BY <1>7, <1>k DEF KR!Answer, KR!At, RotationStep
    <3>2. PICK k \in jCall[r].keys : k.id = t.key /\ Outlives(k, t.exp)
      BY <3>1 DEF HasKey
    <3>3. k \in KR!Key /\ t.exp \in Nat
      BY <1>0, <1>k DEF KR!Call, KR!Token
    <3>4. k.ends = Never \/ k.ends + jDeploy.grace > jNow
      BY <1>0, <3>2, <3>3 DEF Outlives, KR!Key
    <3> QED BY <3>2, <3>4 DEF KR!Shown
  <2> HIDE DEF ts
  <2>3a. jCall'[r] = [jCall[r] EXCEPT !.at = "ok", !.lost = ts] /\ RotationOthers(r)
    BY <1>q, <2>1
  <2>3. /\ jCall'[r].at = "ok" /\ jCall'[r].iat = jCall[r].iat
        /\ jCall'[r].tokens = jCall[r].tokens /\ jCall'[r].lost = ts
    BY <1>0, <2>3a DEF KR!Call
  <2>4. RotationStep(r)'
    BY <1>k, <2>1, <2>2, <2>3 DEF RotationStep, AllFound
  <2> QED BY <1>q, <1>s, <2>1, <2>4
<1>8. ASSUME NEW r \in Requests, KR!Fail(r) PROVE RotationInv'
  BY <1>8, <1>a DEF KR!Fail
<1>9. CASE KR!Tick \/ UNCHANGED KR!vars
  <2>1. UNCHANGED <<jDeploy, keys, tokens, jCall>> /\ jNow' >= jNow
    BY <1>0, <1>9 DEF KR!Tick, KR!vars
  <2>2. \A r \in Requests : RotationStep(r)'
    BY <1>0, <1>k, <2>1 DEF RotationStep, AllFound, HasKey, Outlives
  <2> QED BY <1>k, <2>1, <2>2 DEF RotationInv, HasKey, Outlives
<1> QED BY <1>1, <1>2, <1>3, <1>4, <1>5, <1>6, <1>7, <1>8, <1>9
        DEF KR!Next, KR!Step, KR!Idle

LEMMA RotationInvariant == KR!Spec => []KR!TypeOK /\ []RotationInv
<1>1. KR!Init => KR!TypeOK /\ RotationInv
  BY RotationInit
<1>2. (KR!TypeOK /\ RotationInv) /\ [KR!Next]_KR!vars => (KR!TypeOK /\ RotationInv)'
  BY RotationStepTyped, RotationStepKeeps
<1> QED BY <1>1, <1>2, PTL DEF KR!Spec

\* A token can be verified until it ends: for any users of the keys, rotation, grace
\* period and life of the tokens.
THEOREM TokensVerifiableAlways == AllSpec => []TokensVerifiable
<1>1. KR!TypeOK /\ RotationInv => TokensVerifiable
  <2>1. KR!Cardinality(keys) = Cardinality(keys)
    BY DEF KR!Cardinality, Cardinality
  <2> QED BY <2>1 DEF RotationInv, RotationStep, AllFound, TokensVerifiable, KR!TokensVerifiable
<1> QED BY <1>1, RotationInvariant, Parts, PTL

-----------------------------------------------------------------------------
(* API keys (KeysSoundAlways). What was used of the quota and what the row    *)
(* has left come to what was granted by the time of its last refill; the row *)
(* counts the slots of its last time; and what a request goes by is as far   *)
(* behind the row as the requests that overlap allow.                        *)

\* There is a row, or a copy of it, or there is none.
AtMostOneKey(R) == R \subseteq AK!Key /\ \A j, k \in R : j = k
KeysTyped ==
  /\ kDeploy \in Keyrings /\ kNow \in 0..kDeploy.maxTime
  /\ AtMostOneKey(kRow) /\ AtMostOneKey(kCache)
  /\ kCall \in [Requests -> AK!Call]
  /\ uses \in Nat /\ topUps \in Nat /\ slots \in [0..kDeploy.maxTime -> Nat]
  /\ backdated \in BOOLEAN /\ wasted \in BOOLEAN

\* Where a request with this operation can stand.
KeyVerifies == {"load", "loadDb", "fill", "refill", "take", "start", "reset", "increment",
                "reread", "stamp", "recache", "uncache", "remove"}
KeyPlaces(op) ==
  CASE op = "none" -> {"idle"}
    [] op = "verify" -> KeyVerifies \cup AK!Ended
    [] op = "delete" -> {"load", "loadDb", "fill", "uncache", "remove", "ok", "rejected", "failed"}
    [] OTHER -> {"load", "loadDb", "fill", "write", "recache", "ok", "rejected", "failed"}

KeyRead == AK!Steps \ {"load", "loadDb"}
KeyPath(r) == LET c == kCall[r] IN
  /\ c.at \in KeyPlaces(c.op)
  /\ c.at \in KeyRead => c.seen \in AK!Key
  /\ c.at \in {"loadDb", "fill", "recache", "uncache"} => kDeploy.cached
  /\ c.at = "refill" => AK!Due(c.seen, c.t)
  /\ c.op = "verify" /\ c.at \in {"uncache", "remove"} =>
       c.seen.remaining = 0 /\ kDeploy.amount = 0
  /\ c.t <= kNow

\* A request that something overlaps knows; the requests before it are answered.
KeyAlone(r) ==
  /\ AK!InFlight(r) /\ ~kCall[r].beside => \A q \in Requests : AK!InFlight(q) => q = r
  /\ \A q \in kCall[r].late : kCall[q].at = "ok"

KeysBase == KeysTyped /\ \A r \in Requests : KeyPath(r) /\ KeyAlone(r)

\* Granted by the time of a refill: at the start, by top-ups, and once in each interval.
KeyGranted(d, u, n) ==
  d.quota * (1 + u) + d.amount * (IF n = AK!Null THEN 0 ELSE n \div (d.interval + 1))
KeysQuota == kDeploy.quota # AK!Null =>
  /\ \A k \in kRow : /\ k.remaining >= 0 /\ k.refilled <= kNow
                     /\ uses + k.remaining <= KeyGranted(kDeploy, topUps, k.refilled)
  /\ uses <= KeyGranted(kDeploy, topUps, kNow)

\* The row counts the slots of its last time; later times have none.
KeysRate == kDeploy.max > 0 /\ ~backdated =>
  /\ \A t \in DOMAIN slots : slots[t] <= kDeploy.max
  /\ \A k \in kRow, t \in DOMAIN slots :
       /\ t = k.last => slots[t] <= k.count
       /\ t > k.last => slots[t] = 0

\* What was deleted is gone, and what was disabled stays so.
KeyGone == \A q \in Requests : kCall[q].op = "delete" /\ kCall[q].at = "ok" => kRow = {}
KeyWritten(q) == kCall[q].op = "disable" /\ kCall[q].at \in {"recache", "ok"}
KeyDisabled ==
  \A q \in Requests : KeyWritten(q) =>
    /\ \A k \in kRow : ~k.enabled
    /\ kCall[q].at = "recache" => ~kCall[q].seen.enabled
\* Disabled by q, beside nothing: no copy of the key is enabled.
KeyStale(r) == kCall[r].at \in KeyRead => ~kCall[r].seen.enabled
KeyCopies ==
  \A q \in Requests :
    kCall[q].op = "disable" /\ kCall[q].at = "ok" /\ ~kCall[q].beside /\ kDeploy.cached
      /\ kRow # {} =>
      /\ \A k \in kCache : ~k.enabled
      /\ \A r \in Requests : AK!InFlight(r) =>
           /\ KeyStale(r)
           /\ kCall[r].op = "verify" => kCall[r].at \in {"load", "loadDb", "fill"}
KeyRefused(r) ==
  \A q \in kCall[r].late : kCall[r].op = "verify" =>
    /\ kCall[q].op = "delete" => kCall[r].at \notin {"recache", "ok"}
    /\ kCall[q].op = "disable" /\ ~kDeploy.cached => kCall[r].at \in {"load", "rejected", "failed"}
    /\ kCall[q].op = "disable" /\ ~kCall[q].beside => kCall[r].at \notin {"recache", "ok"}
KeysWritten == KeyGone /\ KeyDisabled /\ KeyCopies /\ \A r \in Requests : KeyRefused(r)

\* Every top-up ran alone, and to its end if it is over.
KeyToppedUp == \A q \in Requests : kCall[q].op = "topUp" =>
  ~kCall[q].beside /\ kCall[q].at \notin {"rejected", "failed"}
\* Then nothing that a request goes by has less than the row, when there is no refill.
KeysTopped ==
  /\ ~kDeploy.cached => kCache = {}
  /\ KeyToppedUp =>
       /\ ~wasted
       /\ kDeploy.amount = 0 =>
            /\ \A k \in kRow, r \in Requests :
                 kCall[r].at \in KeyRead => kCall[r].seen.remaining >= k.remaining
            /\ (\A q \in Requests : kCall[q].op = "topUp" => kCall[q].at # "recache") =>
                 \A k \in kRow, c \in kCache : c.remaining >= k.remaining

\* A refill that is due stays so for a request alone.
KeysDue == ~kDeploy.cached => \A r \in Requests :
  kCall[r].op = "verify" /\ kCall[r].due /\ ~kCall[r].beside =>
    /\ kCall[r].at = "load" => \E k \in kRow : AK!Due(k, kNow)
    /\ kCall[r].at = "refill" => kRow = {kCall[r].seen}
    /\ kCall[r].at \notin {"take", "remove", "exceeded"}

KeysInv == KeysBase /\ KeysQuota /\ KeysRate /\ KeysWritten /\ KeysTopped /\ KeysDue

LEMMA KeysDeployTyped ==
  ASSUME kDeploy \in Keyrings
  PROVE  /\ kDeploy.ops \in [Requests -> SUBSET AK!Operations] /\ kDeploy.cached \in BOOLEAN
         /\ kDeploy.quota \in Nat \cup {-1} /\ kDeploy.amount \in Nat /\ kDeploy.interval \in Nat
         /\ kDeploy.max \in Nat /\ kDeploy.window \in Nat \ {0} /\ kDeploy.maxTime \in Nat
  BY PluginsAssumption DEF AK!ConstantsOK, AK!Deployment, AK!Null

-----------------------------------------------------------------------------
(* What a step does, without the records it is written with. *)

KeyTo(r, pc, k, t) ==
  /\ kCall'[r].at = pc /\ kCall'[r].seen = k /\ kCall'[r].t = t
KeyGoes(r, pc) == KeyTo(r, pc, kCall[r].seen, kCall[r].t)
KeyOthers(r) ==
  /\ \A q \in Requests : q # r => kCall'[q] = kCall[q]
  /\ kCall'[r].op = kCall[r].op /\ kCall'[r].due = kCall[r].due
  /\ kCall'[r].beside = kCall[r].beside /\ kCall'[r].late = kCall[r].late
  \* It is typed as far as what changed is.
  /\ LET c == kCall'[r] IN
       c.at \in AK!Steps \cup AK!Ended /\ c.seen \in AK!Key \cup {<<>>} /\ c.t \in Nat =>
         kCall' \in [Requests -> AK!Call]
KeyRows == kRow' = kRow /\ kCache' = kCache
KeyHistory == UNCHANGED <<uses, topUps, slots, backdated, wasted>>

KeyLoads(r) ==
  /\ kCall[r].at = "load" /\ KeyRows /\ KeyHistory
  /\ \/ kDeploy.cached /\ KeyGoes(r, "loadDb")
     \/ ~kDeploy.cached /\ kRow = {} /\ KeyGoes(r, "rejected")
     \/ \E k \in IF kDeploy.cached THEN kCache ELSE kRow : KeyTo(r, AK!AfterLoad(r, k), k, kNow)
KeyLoadsDb(r) ==
  /\ kCall[r].at = "loadDb" /\ KeyRows /\ KeyHistory
  /\ KeyGoes(r, "rejected") \/ \E k \in kRow : KeyTo(r, "fill", k, kNow)
KeyFills(r) ==
  /\ kCall[r].at = "fill" /\ kRow' = kRow /\ kCache' = {kCall[r].seen} /\ KeyHistory
  /\ KeyTo(r, AK!AfterLoad(r, kCall[r].seen), kCall[r].seen, kNow)
\* The row k becomes j.
KeyTaken(r, j) ==
  /\ kRow' = {j} /\ uses' = uses + 1
  /\ KeyTo(r, AK!Decide(j, kNow), j, kNow)
KeyRefills(r) ==
  /\ kCall[r].at = "refill" /\ kCache' = kCache /\ UNCHANGED <<topUps, slots, backdated, wasted>>
  /\ \/ /\ \A k \in kRow : k.refilled # kCall[r].seen.refilled
        /\ KeyGoes(r, "take") /\ kRow' = kRow /\ uses' = uses
     \/ \E k \in kRow :
          /\ k.refilled = kCall[r].seen.refilled
          /\ KeyTaken(r, [k EXCEPT !.remaining = kDeploy.amount - 1, !.refilled = kCall[r].t])
KeyTakes(r) ==
  /\ kCall[r].at = "take" /\ kCache' = kCache /\ UNCHANGED <<topUps, slots, backdated, wasted>>
  /\ \/ KeyGoes(r, "exceeded") /\ kRow' = kRow /\ uses' = uses
     \/ \E k \in kRow : k.remaining > 0 /\ KeyTaken(r, [k EXCEPT !.remaining = @ - 1])
KeySlots(r) ==
  /\ kCall[r].at \in {"start", "reset", "increment"}
  /\ kCache' = kCache /\ UNCHANGED <<uses, topUps, wasted>>
  /\ \/ KeyGoes(r, "reread") /\ UNCHANGED <<kRow, slots, backdated>>
     \/ \E k \in kRow, n \in Nat :
          /\ \/ k.last = -1 /\ n = 1
             \/ k.last <= kCall[r].t - kDeploy.window /\ n = 1
             \/ k.last > kCall[r].t - kDeploy.window /\ k.count < kDeploy.max /\ n = k.count + 1
          /\ kRow' = {[k EXCEPT !.last = kCall[r].t, !.count = n]}
          /\ slots' = [slots EXCEPT ![kCall[r].t] = @ + 1]
          /\ backdated' = (backdated \/ kCall[r].t < k.last)
          /\ KeyGoes(r, "stamp")
KeyRereads(r) ==
  /\ kCall[r].at = "reread" /\ KeyRows /\ KeyHistory
  /\ KeyGoes(r, "rejected") \/ \E k \in kRow : KeyTo(r, AK!Decide(k, kNow), k, kNow)
KeyStamps(r) ==
  /\ kCall[r].at = "stamp" /\ KeyRows /\ KeyHistory
  /\ \/ kRow = {} /\ KeyGoes(r, "rejected")
     \/ \E k \in kRow : KeyTo(r, IF kDeploy.cached THEN "recache" ELSE "ok", k, kNow)
KeyRecaches(r) ==
  /\ kCall[r].at = "recache" /\ kRow' = kRow /\ kCache' = {kCall[r].seen} /\ KeyHistory
  /\ KeyGoes(r, "ok")
KeyWrites(r) ==
  /\ kCall[r].at = "write" /\ kCache' = kCache /\ UNCHANGED <<uses, slots, backdated, wasted>>
  /\ kRow' = {AK!Changed(r, k) : k \in kRow}
  /\ topUps' = topUps + (IF kCall[r].op = "topUp" THEN 1 ELSE 0)
  /\ \/ kRow = {} /\ KeyGoes(r, "ok")
     \/ \E k \in kRow :
          KeyTo(r, IF kDeploy.cached THEN "recache" ELSE "ok", AK!Changed(r, k), kCall[r].t)
KeyUncaches(r) ==
  /\ kCall[r].at = "uncache" /\ kRow' = kRow /\ kCache' = {} /\ KeyHistory
  /\ KeyGoes(r, "remove")
KeyRemoves(r) ==
  /\ kCall[r].at = "remove" /\ kRow' = {} /\ kCache' = kCache
  /\ UNCHANGED <<uses, topUps, slots, backdated>>
  /\ wasted' = (wasted \/ (kCall[r].op = "verify" /\ \E k \in kRow : k.remaining > 0))
  /\ KeyGoes(r, IF kCall[r].op = "verify" THEN "exceeded" ELSE "ok")
KeyStep(r) ==
  \/ KeyLoads(r) \/ KeyLoadsDb(r) \/ KeyFills(r) \/ KeyRefills(r) \/ KeyTakes(r) \/ KeySlots(r)
  \/ KeyRereads(r) \/ KeyStamps(r) \/ KeyRecaches(r) \/ KeyWrites(r) \/ KeyUncaches(r)
  \/ KeyRemoves(r)

LEMMA KeyFields ==
  ASSUME KeysTyped, NEW r \in Requests, NEW pc, NEW k, NEW t
  PROVE  /\ AK!Become(r, [kCall[r] EXCEPT !.at = pc, !.seen = k, !.t = t]) =>
              KeyOthers(r) /\ KeyTo(r, pc, k, t)
         /\ AK!GoOn(r, k, pc) => KeyOthers(r) /\ KeyTo(r, pc, k, kNow)
         /\ AK!Goto(r, pc) => KeyOthers(r) /\ KeyGoes(r, pc)
         /\ AK!Become(r, [kCall[r] EXCEPT !.seen = k, !.at = pc]) =>
              KeyOthers(r) /\ KeyTo(r, pc, k, kCall[r].t)
<1>0. kCall \in [Requests -> AK!Call] /\ kCall[r] \in AK!Call
  BY DEF KeysTyped
<1>b. ASSUME NEW c, AK!Become(r, c)
      PROVE  /\ kCall'[r] = c /\ \A q \in Requests : q # r => kCall'[q] = kCall[q]
             /\ c \in AK!Call => kCall' \in [Requests -> AK!Call]
  BY <1>0, <1>b DEF AK!Become
<1>1. ASSUME AK!Become(r, [kCall[r] EXCEPT !.at = pc, !.seen = k, !.t = t])
      PROVE  KeyOthers(r) /\ KeyTo(r, pc, k, t)
  <2>1. kCall'[r] = [kCall[r] EXCEPT !.at = pc, !.seen = k, !.t = t]
    BY <1>1, <1>b
  <2>2. pc \in AK!Steps \cup AK!Ended /\ k \in AK!Key \cup {<<>>} /\ t \in Nat =>
          [kCall[r] EXCEPT !.at = pc, !.seen = k, !.t = t] \in AK!Call
    BY <1>0 DEF AK!Call
  <2>3. KeyTo(r, pc, k, t)
    BY <1>0, <2>1 DEF KeyTo, AK!Call
  <2> QED BY <1>0, <1>1, <1>b, <2>1, <2>2, <2>3 DEF KeyOthers, KeyTo, AK!Call
<1>2. ASSUME AK!GoOn(r, k, pc)
      PROVE  KeyOthers(r) /\ KeyTo(r, pc, k, kNow)
  <2>1. /\ AK!Become(r, [kCall[r] EXCEPT !.at = pc, !.seen = k, !.t = kNow])
        /\ kCall'[r] = [kCall[r] EXCEPT !.at = pc, !.seen = k, !.t = kNow]
    BY <1>2, <1>b DEF AK!GoOn
  <2>2. pc \in AK!Steps \cup AK!Ended /\ k \in AK!Key \cup {<<>>} /\ kNow \in Nat =>
          [kCall[r] EXCEPT !.at = pc, !.seen = k, !.t = kNow] \in AK!Call
    BY <1>0 DEF AK!Call
  <2>3. KeyTo(r, pc, k, kNow)
    BY <1>0, <2>1 DEF KeyTo, AK!Call
  <2> QED BY <1>0, <1>b, <2>1, <2>2, <2>3 DEF KeyOthers, KeyTo, AK!Call
<1>3. ASSUME AK!Goto(r, pc)
      PROVE  KeyOthers(r) /\ KeyGoes(r, pc)
  <2>1. /\ AK!Become(r, [kCall[r] EXCEPT !.at = pc])
        /\ kCall'[r] = [kCall[r] EXCEPT !.at = pc]
    BY <1>3, <1>b DEF AK!Goto
  <2>2. pc \in AK!Steps \cup AK!Ended => [kCall[r] EXCEPT !.at = pc] \in AK!Call
    BY <1>0 DEF AK!Call
  <2>3. KeyGoes(r, pc)
    BY <1>0, <2>1 DEF KeyGoes, KeyTo, AK!Call
  <2> QED BY <1>0, <1>b, <2>1, <2>2, <2>3 DEF KeyOthers, KeyGoes, KeyTo, AK!Call
<1>4. ASSUME AK!Become(r, [kCall[r] EXCEPT !.seen = k, !.at = pc])
      PROVE  KeyOthers(r) /\ KeyTo(r, pc, k, kCall[r].t)
  <2>1. kCall'[r] = [kCall[r] EXCEPT !.seen = k, !.at = pc]
    BY <1>4, <1>b
  <2>2. pc \in AK!Steps \cup AK!Ended /\ k \in AK!Key \cup {<<>>} =>
          [kCall[r] EXCEPT !.seen = k, !.at = pc] \in AK!Call
    BY <1>0 DEF AK!Call
  <2>3. KeyTo(r, pc, k, kCall[r].t)
    BY <1>0, <2>1 DEF KeyTo, AK!Call
  <2> QED BY <1>0, <1>4, <1>b, <2>1, <2>2, <2>3 DEF KeyOthers, KeyTo, AK!Call
<1> QED BY <1>1, <1>2, <1>3, <1>4

LEMMA KeySteps ==
  ASSUME KeysTyped, NEW r \in Requests, AK!Step(r)
  PROVE  KeyOthers(r) /\ KeyStep(r) /\ UNCHANGED <<kDeploy, kNow>>
<1> DEFINE c == kCall[r]
<1>0. /\ c \in AK!Call /\ kRow \subseteq AK!Key /\ \A j, k \in kRow : j = k
      /\ kDeploy.cached \in BOOLEAN
  BY KeysDeployTyped DEF KeysTyped, AtMostOneKey
<1>1. CASE AK!Load(r)
  <2>1. CASE kDeploy.cached
    BY <1>1, <2>1, KeyFields DEF AK!Load, AK!At, KeyLoads, KeyStep, KeyRows, KeyHistory, AK!history
  <2>2. CASE ~kDeploy.cached
    BY <1>1, <2>2, KeyFields DEF AK!Load, AK!At, KeyLoads, KeyStep, KeyRows, KeyHistory, AK!history
  <2> QED BY <2>1, <2>2
<1>2. CASE AK!LoadDb(r)
  BY <1>2, KeyFields DEF AK!LoadDb, AK!At, KeyLoadsDb, KeyStep, KeyRows, KeyHistory, AK!history
<1>3. CASE AK!Fill(r)
  BY <1>3, KeyFields DEF AK!Fill, AK!At, AK!Seen, KeyFills, KeyStep, KeyHistory, AK!history
<1>4. CASE AK!Refill(r)
  <2>1. CASE \E k \in kRow : k.refilled = c.seen.refilled
    <3>1. PICK k \in kRow :
            AK!Taken(r, [k EXCEPT !.remaining = kDeploy.amount - 1, !.refilled = c.t])
      BY <1>4, <2>1 DEF AK!Refill, AK!Seen
    <3>2. k.refilled = c.seen.refilled
      BY <1>0, <2>1
    <3> DEFINE j == [k EXCEPT !.remaining = kDeploy.amount - 1, !.refilled = c.t]
    <3>3. KeyOthers(r) /\ KeyTaken(r, j)
      BY <3>1, KeyFields DEF AK!Taken, KeyTaken
    <3>4. KeyRefills(r)
      BY <1>4, <3>2, <3>3 DEF AK!Refill, AK!At, KeyRefills
    <3> QED BY <1>4, <3>3, <3>4 DEF AK!Refill, KeyStep
  <2>2. CASE \A k \in kRow : k.refilled # c.seen.refilled
    BY <1>4, <2>2, KeyFields DEF AK!Refill, AK!At, AK!Seen, KeyRefills, KeyStep
  <2> QED BY <2>1, <2>2
<1>5. CASE AK!Take(r)
  <2>1. CASE \E k \in kRow : k.remaining > 0
    <3>1. PICK k \in kRow : AK!Taken(r, [k EXCEPT !.remaining = @ - 1])
      BY <1>5, <2>1 DEF AK!Take
    <3>2. k.remaining > 0
      BY <1>0, <2>1
    <3> DEFINE j == [k EXCEPT !.remaining = @ - 1]
    <3>3. KeyOthers(r) /\ KeyTaken(r, j)
      BY <3>1, KeyFields DEF AK!Taken, KeyTaken
    <3>4. KeyTakes(r)
      BY <1>5, <3>2, <3>3 DEF AK!Take, AK!At, KeyTakes
    <3> QED BY <1>5, <3>3, <3>4 DEF AK!Take, KeyStep
  <2>2. CASE ~\E k \in kRow : k.remaining > 0
    BY <1>5, <2>2, KeyFields DEF AK!Take, AK!At, KeyTakes, KeyStep
  <2> QED BY <2>1, <2>2
<1>s. ASSUME NEW k \in kRow, NEW n \in Nat,
             kRow' = {[k EXCEPT !.last = c.t, !.count = n]},
             slots' = [slots EXCEPT ![c.t] = @ + 1],
             backdated' = (backdated \/ c.t < k.last), AK!Goto(r, "stamp"),
             \/ k.last = -1 /\ n = 1
             \/ k.last <= c.t - kDeploy.window /\ n = 1
             \/ k.last > c.t - kDeploy.window /\ k.count < kDeploy.max /\ n = k.count + 1,
             c.at \in {"start", "reset", "increment"},
             kCache' = kCache /\ UNCHANGED <<kDeploy, kNow, uses, topUps, wasted>>
      PROVE  KeyOthers(r) /\ KeyStep(r) /\ UNCHANGED <<kDeploy, kNow>>
  BY <1>s, KeyFields DEF KeySlots, KeyStep
<1>t. ASSUME AK!Goto(r, "reread"), UNCHANGED <<kRow, slots, backdated>>,
             c.at \in {"start", "reset", "increment"},
             kCache' = kCache /\ UNCHANGED <<kDeploy, kNow, uses, topUps, wasted>>
      PROVE  KeyOthers(r) /\ KeyStep(r) /\ UNCHANGED <<kDeploy, kNow>>
  BY <1>t, KeyFields DEF KeySlots, KeyStep
<1>6. CASE AK!First(r)
  <2>1. CASE \E k \in kRow : k.last = -1
    <3>1. PICK k \in kRow :
            /\ kRow' = {[k EXCEPT !.last = c.t, !.count = 1]}
            /\ slots' = [slots EXCEPT ![c.t] = @ + 1]
            /\ backdated' = (backdated \/ c.t < k.last)
            /\ AK!Goto(r, "stamp")
      BY <1>6, <2>1 DEF AK!First, AK!Slot, AK!One, AK!Null
    <3>2. k.last = -1
      BY <1>0, <2>1
    <3> QED BY <1>6, <1>s, <3>1, <3>2 DEF AK!First, AK!At
  <2>2. CASE ~\E k \in kRow : k.last = -1
    BY <1>6, <1>t, <2>2 DEF AK!First, AK!Slot, AK!At, AK!Null
  <2> QED BY <2>1, <2>2
<1>7. CASE AK!Reset(r)
  <2>1. CASE \E k \in kRow : k.last <= c.t - kDeploy.window
    <3>1. PICK k \in kRow :
            /\ kRow' = {[k EXCEPT !.last = c.t, !.count = 1]}
            /\ slots' = [slots EXCEPT ![c.t] = @ + 1]
            /\ backdated' = (backdated \/ c.t < k.last)
            /\ AK!Goto(r, "stamp")
      BY <1>7, <2>1 DEF AK!Reset, AK!Slot, AK!One
    <3>2. k.last <= c.t - kDeploy.window
      BY <1>0, <2>1
    <3> QED BY <1>7, <1>s, <3>1, <3>2 DEF AK!Reset, AK!At
  <2>2. CASE ~\E k \in kRow : k.last <= c.t - kDeploy.window
    BY <1>7, <1>t, <2>2 DEF AK!Reset, AK!Slot, AK!At
  <2> QED BY <2>1, <2>2
<1>8. CASE AK!Increment(r)
  <2>1. CASE \E k \in kRow : k.last > c.t - kDeploy.window /\ k.count < kDeploy.max
    <3>1. PICK k \in kRow :
            /\ kRow' = {[k EXCEPT !.last = c.t, !.count = k.count + 1]}
            /\ slots' = [slots EXCEPT ![c.t] = @ + 1]
            /\ backdated' = (backdated \/ c.t < k.last)
            /\ AK!Goto(r, "stamp")
      BY <1>8, <2>1 DEF AK!Increment, AK!Slot, AK!Next1
    <3>2. k.last > c.t - kDeploy.window /\ k.count < kDeploy.max /\ k.count + 1 \in Nat
      BY <1>0, <2>1 DEF AK!Key
    <3> QED BY <1>8, <1>s, <3>1, <3>2 DEF AK!Increment, AK!At
  <2>2. CASE ~\E k \in kRow : k.last > c.t - kDeploy.window /\ k.count < kDeploy.max
    BY <1>8, <1>t, <2>2 DEF AK!Increment, AK!Slot, AK!At
  <2> QED BY <2>1, <2>2
<1>9. CASE AK!Reread(r)
  BY <1>9, KeyFields DEF AK!Reread, AK!At, KeyRereads, KeyStep, KeyRows, KeyHistory, AK!history
<1>10. CASE AK!Stamp(r)
  BY <1>10, KeyFields DEF AK!Stamp, AK!At, KeyStamps, KeyStep, KeyRows, KeyHistory, AK!history
<1>11. CASE AK!Recache(r)
  BY <1>11, KeyFields DEF AK!Recache, AK!At, AK!Seen, KeyRecaches, KeyStep, KeyHistory, AK!history
<1>12. CASE AK!Write(r)
  <2>1. CASE kRow = {}
    BY <1>12, <2>1, KeyFields DEF AK!Write, AK!At, AK!Op, KeyWrites, KeyStep
  <2>2. CASE kRow # {}
    <3>1. PICK k \in kRow' : AK!Become(r, [kCall[r] EXCEPT
            !.seen = k, !.at = IF kDeploy.cached THEN "recache" ELSE "ok"])
      BY <1>12, <2>2 DEF AK!Write
    <3>2. PICK j \in kRow : k = AK!Changed(r, j)
      BY <1>12 DEF AK!Write
    <3>3. KeyOthers(r) /\ KeyTo(r, IF kDeploy.cached THEN "recache" ELSE "ok", k, c.t)
      BY <3>1, KeyFields
    <3>4. KeyWrites(r)
      BY <1>12, <3>2, <3>3 DEF AK!Write, AK!At, AK!Op, KeyWrites
    <3> QED BY <1>12, <3>3, <3>4 DEF AK!Write, KeyStep
  <2> QED BY <2>1, <2>2
<1>13. CASE AK!Uncache(r)
  BY <1>13, KeyFields DEF AK!Uncache, AK!At, KeyUncaches, KeyStep, KeyHistory, AK!history
<1>14. CASE AK!Remove(r)
  BY <1>14, KeyFields DEF AK!Remove, AK!At, AK!Op, KeyRemoves, KeyStep
<1> QED BY <1>1, <1>2, <1>3, <1>4, <1>5, <1>6, <1>7, <1>8, <1>9, <1>10, <1>11, <1>12, <1>13, <1>14
        DEF AK!Step

KeyStarts(r, op) ==
  /\ kCall[r].at = "idle" /\ KeyRows /\ KeyHistory
  /\ KeyTo(r, "load", <<>>, 0) /\ kCall'[r].op = op
  /\ kCall'[r].due = \E k \in kRow : AK!Due(k, kNow)
  /\ kCall'[r].beside = \E q \in Requests : AK!InFlight(q)
  /\ kCall'[r].late = {p \in Requests : kCall[p].at = "ok"}
  /\ \A q \in Requests : q # r =>
       /\ kCall'[q] \in AK!Call
       /\ KeyTo(q, kCall[q].at, kCall[q].seen, kCall[q].t) /\ kCall'[q].op = kCall[q].op
       /\ kCall'[q].due = kCall[q].due /\ kCall'[q].late = kCall[q].late
       /\ kCall'[q].beside = (kCall[q].beside \/ AK!InFlight(q))
KeyFails(r) ==
  /\ AK!InFlight(r) /\ KeyRows /\ KeyHistory /\ KeyOthers(r) /\ KeyGoes(r, "failed")
KeyTicks ==
  /\ KeyRows /\ KeyHistory /\ kCall' = kCall
  /\ kNow' \in {kNow, kNow + 1} /\ kNow' <= kDeploy.maxTime

LEMMA KeyStartFields ==
  ASSUME KeysTyped, NEW r \in Requests, NEW op \in AK!Operations, AK!Start(r, op)
  PROVE  KeyStarts(r, op) /\ kCall' \in [Requests -> AK!Call]
<1>0. kCall \in [Requests -> AK!Call]
  BY DEF KeysTyped
<1> DEFINE busy == \E q \in Requests : AK!InFlight(q)
           due == \E k \in kRow : AK!Due(k, kNow)
           late == {p \in Requests : kCall[p].at = "ok"}
           new == [AK!NoCall EXCEPT !.op = op, !.at = "load", !.beside = busy, !.due = due,
                                    !.late = late]
<1>1. kCall' = [q \in Requests |->
        IF q = r THEN new ELSE [kCall[q] EXCEPT !.beside = @ \/ AK!InFlight(q)]]
  BY DEF AK!Start, AK!At
<1>2. AK!NoCall \in AK!Call
  BY DEF AK!NoCall, AK!Call
<1>3. /\ AK!NoCall.seen = <<>> /\ AK!NoCall.t = 0
  BY DEF AK!NoCall
<1>4. /\ new \in AK!Call /\ new.op = op /\ new.at = "load" /\ new.seen = <<>> /\ new.t = 0
      /\ new.beside = busy /\ new.due = due /\ new.late = late
  <2>1. busy \in BOOLEAN /\ due \in BOOLEAN /\ late \in SUBSET Requests
    OBVIOUS
  <2> HIDE DEF busy, due, late
  <2> QED BY <1>2, <1>3, <2>1 DEF AK!Call, AK!Steps
<1> HIDE DEF new
<1>5. kCall'[r] = new
  BY <1>1
<1>6. ASSUME NEW q \in Requests, q # r
      PROVE  /\ kCall'[q] \in AK!Call
             /\ KeyTo(q, kCall[q].at, kCall[q].seen, kCall[q].t) /\ kCall'[q].op = kCall[q].op
             /\ kCall'[q].due = kCall[q].due /\ kCall'[q].late = kCall[q].late
             /\ kCall'[q].beside = (kCall[q].beside \/ AK!InFlight(q))
  <2>1. kCall'[q] = [kCall[q] EXCEPT !.beside = @ \/ AK!InFlight(q)]
    BY <1>1, <1>6
  <2>2. kCall[q] \in AK!Call
    BY <1>0
  <2> QED BY <2>1, <2>2 DEF KeyTo, AK!Call
<1>7. kCall' \in [Requests -> AK!Call]
  <2>1. DOMAIN kCall' = Requests
    BY <1>1
  <2>2. \A q \in Requests : kCall'[q] \in AK!Call
    BY <1>4, <1>5, <1>6
  <2>3. kCall' = [q \in Requests |-> kCall'[q]]
    BY <1>1
  <2> QED BY <2>2, <2>3
<1>8. kCall[r].at = "idle" /\ KeyRows /\ KeyHistory
  BY DEF AK!Start, AK!At, KeyRows, KeyHistory, AK!history
<1> QED BY <1>4, <1>5, <1>6, <1>7, <1>8 DEF KeyStarts, KeyTo

\* The kinds of step, for what is proved from them.
LEMMA KeyNext ==
  ASSUME KeysTyped, [AK!Next]_AK!vars
  PROVE  /\ kDeploy' = kDeploy
         /\ \/ \E r \in Requests : KeyOthers(r) /\ KeyStep(r) /\ kNow' = kNow
            \/ \E r \in Requests, op \in AK!Operations :
                 KeyStarts(r, op) /\ kNow' = kNow /\ kCall' \in [Requests -> AK!Call]
            \/ \E r \in Requests : KeyFails(r) /\ kNow' = kNow
            \/ KeyTicks
<1>1. CASE \E r \in Requests : \E op \in kDeploy.ops[r] : AK!Start(r, op)
  <2>1. PICK r \in Requests, op \in AK!Operations : AK!Start(r, op)
    BY <1>1, KeysDeployTyped DEF KeysTyped
  <2> QED BY <2>1, KeyStartFields DEF AK!Start
<1>2. CASE \E r \in Requests : AK!Step(r)
  BY <1>2, KeySteps
<1>3. CASE \E r \in Requests : AK!Fail(r)
  BY <1>3, KeyFields DEF AK!Fail, KeyFails, KeyRows, KeyHistory, AK!history
<1>4. CASE AK!Tick
  <2>1. kNow \in Nat /\ kDeploy.maxTime \in Nat
    BY KeysDeployTyped DEF KeysTyped
  <2> QED BY <1>4, <2>1 DEF AK!Tick, KeyTicks, KeyRows, KeyHistory, AK!history
<1>5. CASE UNCHANGED AK!vars
  BY <1>5 DEF AK!vars, KeyTicks, KeyRows, KeyHistory, KeysTyped
<1> QED BY <1>1, <1>2, <1>3, <1>4, <1>5 DEF AK!Next, AK!Idle

-----------------------------------------------------------------------------
\* Where the rate limit, and a row that was found, lead to.
LEMMA KeyDecides ==
  ASSUME NEW k
  PROVE  AK!Decide(k, kNow) \in {"stamp", "start", "reset", "rejected", "increment"}
  BY DEF AK!Decide

LEMMA KeyAfter ==
  ASSUME NEW r \in Requests, NEW k \in AK!Key
  PROVE  LET pc == AK!AfterLoad(r, k) IN
         /\ kCall[r].op = "verify" =>
              /\ pc \in {"rejected", "uncache", "remove", "refill", "take", "stamp", "start",
                         "reset", "increment"}
              /\ ~k.enabled => pc = "rejected"
              /\ pc \in {"uncache", "remove"} => k.remaining = 0 /\ kDeploy.amount = 0
              /\ pc = "refill" => AK!Due(k, kNow)
              /\ pc = "take" => ~AK!Due(k, kNow)
         /\ kCall[r].op = "delete" => pc \in {"uncache", "remove"}
         /\ kCall[r].op \in {"disable", "topUp"} => pc = "write"
         /\ pc = "uncache" => kDeploy.cached
<1> DEFINE pc == AK!AfterLoad(r, k)
<1>1. AK!Decide(k, kNow) \in {"stamp", "start", "reset", "rejected", "increment"}
  BY KeyDecides
<1>2. CASE kCall[r].op = "verify"
  <2>1. CASE ~k.enabled
    BY <1>2, <2>1 DEF AK!AfterLoad, AK!Op
  <2>2. CASE k.enabled /\ k.remaining = 0 /\ kDeploy.amount = 0
    BY <1>2, <2>2 DEF AK!AfterLoad, AK!Op
  <2>3. CASE k.enabled /\ ~(k.remaining = 0 /\ kDeploy.amount = 0)
    BY <1>1, <1>2, <2>3 DEF AK!AfterLoad, AK!Op
  <2>4. k.enabled \in BOOLEAN
    BY DEF AK!Key
  <2> QED BY <1>2, <2>1, <2>2, <2>3, <2>4
<1>3. CASE kCall[r].op = "delete"
  BY <1>3 DEF AK!AfterLoad, AK!Op
<1>4. CASE kCall[r].op \in {"disable", "topUp"}
  BY <1>4 DEF AK!AfterLoad, AK!Op
<1>5. CASE kCall[r].op \notin {"verify", "delete", "disable", "topUp"}
  BY <1>1, <1>5 DEF AK!AfterLoad, AK!Op
<1> QED BY <1>2, <1>3, <1>4, <1>5

\* What rows and requests are made of stays what it is.
LEMMA KeyTypes ==
  ASSUME NEW k \in AK!Key
  PROVE  /\ \A n \in Int : [k EXCEPT !.remaining = n] \in AK!Key
         /\ \A n \in Int, t \in Nat : [k EXCEPT !.remaining = n, !.refilled = t] \in AK!Key
         /\ \A n, t \in Nat : [k EXCEPT !.last = t, !.count = n] \in AK!Key
         /\ [k EXCEPT !.enabled = FALSE] \in AK!Key
         /\ k.remaining \in Int /\ k.refilled \in Nat \cup {-1} /\ k.last \in Nat \cup {-1}
         /\ k.count \in Nat /\ k.enabled \in BOOLEAN
  BY DEF AK!Key, AK!Times, AK!Null

LEMMA KeyChanges ==
  ASSUME KeysTyped, NEW r \in Requests, NEW k \in AK!Key
  PROVE  LET j == AK!Changed(r, k) IN
         /\ j \in AK!Key
         /\ j.enabled = (k.enabled /\ kCall[r].op # "disable")
         /\ j.remaining = IF kCall[r].op = "disable" THEN k.remaining ELSE kDeploy.quota
         /\ j.refilled = k.refilled /\ j.last = k.last /\ j.count = k.count
<1>1. kDeploy.quota \in Int
  BY KeysDeployTyped DEF KeysTyped
<1>2. CASE kCall[r].op = "disable"
  BY <1>2, KeyTypes DEF AK!Changed, AK!Op, AK!Key
<1>3. CASE kCall[r].op # "disable"
  BY <1>1, <1>3, KeyTypes DEF AK!Changed, AK!Op, AK!Key
<1> QED BY <1>2, <1>3

\* A step of r, typed: what it does to the rows and where it leads.
LEMMA KeyStepTyped ==
  ASSUME KeysBase, NEW r \in Requests, KeyOthers(r), KeyStep(r), UNCHANGED <<kDeploy, kNow>>
  PROVE  /\ KeysTyped' /\ KeyPath(r)'
         /\ kCall[r].at \in AK!Steps /\ kCall'[r].at \in AK!Steps \cup {"ok", "rejected", "exceeded"}
<1> DEFINE c == kCall[r]
<1>0. /\ c \in AK!Call /\ kNow \in Nat /\ c.t \in Nat /\ c.seen \in AK!Key \cup {<<>>}
      /\ kNow <= kDeploy.maxTime /\ kDeploy.maxTime \in Nat
      /\ kRow \subseteq AK!Key /\ kCache \subseteq AK!Key
      /\ \A j, k \in kRow : j = k
      /\ \A j, k \in kCache : j = k
      /\ kDeploy \in Keyrings /\ kCall \in [Requests -> AK!Call]
      /\ uses \in Nat /\ topUps \in Nat /\ slots \in [0..kDeploy.maxTime -> Nat]
      /\ backdated \in BOOLEAN /\ wasted \in BOOLEAN
  BY KeysDeployTyped DEF KeysBase, KeysTyped, AtMostOneKey, AK!Call
<1>d. /\ kDeploy.amount \in Nat /\ kDeploy.quota \in Int /\ kDeploy.cached \in BOOLEAN
  BY <1>0, KeysDeployTyped
<1>p. KeyPath(r) /\ c.t <= kNow /\ c.t \in 0..kDeploy.maxTime
  BY <1>0 DEF KeysBase, KeyPath
<1>e. /\ kCall'[r].op = c.op
      /\ LET d == kCall'[r] IN
         d.at \in AK!Steps \cup AK!Ended /\ d.seen \in AK!Key \cup {<<>>} /\ d.t \in Nat =>
           kCall' \in [Requests -> AK!Call]
  BY DEF KeyOthers
\* The rest follows from where it goes, and from what the rows become.
<1>g. ASSUME NEW pc \in AK!Steps \cup {"ok", "rejected", "exceeded"},
             NEW k \in AK!Key \cup {<<>>}, NEW t \in Nat, KeyTo(r, pc, k, t), t <= kNow,
             pc \in KeyPlaces(c.op), pc \in KeyRead => k \in AK!Key,
             pc \in {"loadDb", "fill", "recache", "uncache"} => kDeploy.cached,
             pc = "refill" => AK!Due(k, t),
             c.op = "verify" /\ pc \in {"uncache", "remove"} => k.remaining = 0 /\ kDeploy.amount = 0
      PROVE  /\ KeyPath(r)' /\ kCall' \in [Requests -> AK!Call]
             /\ kCall'[r].at \in AK!Steps \cup {"ok", "rejected", "exceeded"}
  <2>1. kCall'[r].at = pc /\ kCall'[r].seen = k /\ kCall'[r].t = t
    BY <1>g DEF KeyTo
  <2>2. kCall' \in [Requests -> AK!Call]
    BY <1>g, <1>e, <2>1 DEF AK!Ended
  <2>3. KeyPath(r)'
    BY <1>g, <1>e, <2>1 DEF KeyPath, AK!Due
  <2> QED BY <1>g, <2>1, <2>2, <2>3
<1>k. ASSUME KeyRows, KeyHistory, kCall' \in [Requests -> AK!Call]
      PROVE  KeysTyped'
  BY <1>k, <1>0 DEF KeysTyped, AtMostOneKey, KeyRows, KeyHistory
\* A row that was found leads on.
<1>l. ASSUME NEW k \in AK!Key, c.at \in {"load", "fill"}, KeyTo(r, AK!AfterLoad(r, k), k, kNow)
      PROVE  /\ KeyPath(r)' /\ kCall' \in [Requests -> AK!Call]
             /\ kCall'[r].at \in AK!Steps \cup {"ok", "rejected", "exceeded"}
  <2> DEFINE pc == AK!AfterLoad(r, k)
  <2>1. c.op \in {"verify", "delete", "disable", "topUp"}
    BY <1>l, <1>p, <1>0 DEF KeyPath, KeyPlaces, AK!Call, AK!Operations
  <2>2. /\ pc \in KeyPlaces(c.op) /\ pc \in AK!Steps \cup {"rejected"} /\ pc # "loadDb" /\ pc # "fill"
        /\ pc # "recache" /\ (pc = "uncache" => kDeploy.cached)
        /\ (pc = "refill" => AK!Due(k, kNow))
        /\ (c.op = "verify" /\ pc \in {"uncache", "remove"} => k.remaining = 0 /\ kDeploy.amount = 0)
    BY <2>1, KeyAfter DEF KeyPlaces, KeyVerifies, AK!Steps, AK!Ended
  <2> HIDE DEF pc
  <2>3. KeyTo(r, pc, k, kNow)
    BY <1>l DEF pc
  <2> QED BY <1>0, <1>g, <2>2, <2>3
<1>v. c.at \in {"refill", "take", "start", "reset", "increment", "reread", "stamp"} => c.op = "verify"
  BY <1>p, <1>0 DEF KeyPath, KeyPlaces, AK!Call, AK!Operations
<1>t. ASSUME NEW k \in AK!Key, c.op = "verify", KeyTo(r, AK!Decide(k, kNow), k, kNow)
      PROVE  /\ KeyPath(r)' /\ kCall' \in [Requests -> AK!Call]
             /\ kCall'[r].at \in AK!Steps \cup {"ok", "rejected", "exceeded"}
  <2> DEFINE pc == AK!Decide(k, kNow)
  <2>1. pc \in {"stamp", "start", "reset", "rejected", "increment"}
    BY KeyDecides
  <2> HIDE DEF pc
  <2>2. KeyTo(r, pc, k, kNow)
    BY <1>t DEF pc
  <2> QED BY <1>0, <1>t, <1>g, <2>1, <2>2 DEF KeyPlaces, KeyVerifies, AK!Steps, AK!Ended
<1>1. CASE KeyLoads(r)
  <2>0. c.at = "load" /\ KeyRows /\ KeyHistory /\ c.op \in {"verify", "delete", "disable", "topUp"}
    BY <1>1, <1>p, <1>0 DEF KeyLoads, KeyPath, KeyPlaces, AK!Call, AK!Operations
  <2>1. CASE kDeploy.cached /\ KeyGoes(r, "loadDb")
    BY <1>0, <1>p, <1>g, <1>k, <2>0, <2>1
       DEF KeyGoes, KeyPlaces, KeyVerifies, KeyRead, AK!Steps
  <2>2. CASE KeyGoes(r, "rejected")
    BY <1>0, <1>p, <1>g, <1>k, <2>0, <2>2
       DEF KeyGoes, KeyPlaces, KeyVerifies, KeyRead, AK!Steps, AK!Ended
  <2>3. CASE \E k \in IF kDeploy.cached THEN kCache ELSE kRow :
               KeyTo(r, AK!AfterLoad(r, k), k, kNow)
    BY <1>0, <1>l, <1>k, <2>0, <2>3 DEF AK!Steps
  <2> QED BY <1>1, <2>1, <2>2, <2>3 DEF KeyLoads
<1>2. CASE KeyLoadsDb(r)
  <2>0. /\ c.at = "loadDb" /\ KeyRows /\ KeyHistory
        /\ c.op \in {"verify", "delete", "disable", "topUp"} /\ kDeploy.cached
    BY <1>2, <1>p, <1>0 DEF KeyLoadsDb, KeyPath, KeyPlaces, AK!Call, AK!Operations
  <2>1. CASE KeyGoes(r, "rejected")
    BY <1>0, <1>p, <1>g, <1>k, <2>0, <2>1
       DEF KeyGoes, KeyPlaces, KeyVerifies, KeyRead, AK!Steps, AK!Ended
  <2>2. CASE \E k \in kRow : KeyTo(r, "fill", k, kNow)
    BY <1>0, <1>p, <1>g, <1>k, <2>0, <2>2 DEF KeyPlaces, KeyVerifies, KeyRead, AK!Steps
  <2> QED BY <1>2, <2>1, <2>2 DEF KeyLoadsDb
<1>3. CASE KeyFills(r)
  <2>1. c.seen \in AK!Key
    BY <1>3, <1>p DEF KeyFills, KeyPath, KeyRead, AK!Steps
  <2>2. /\ KeyPath(r)' /\ kCall' \in [Requests -> AK!Call]
        /\ kCall'[r].at \in AK!Steps \cup {"ok", "rejected", "exceeded"}
    BY <1>3, <1>l, <2>1 DEF KeyFills
  <2> QED BY <1>0, <1>3, <2>1, <2>2 DEF KeyFills, KeyHistory, KeysTyped, AtMostOneKey, AK!Steps
<1>u. ASSUME NEW j \in AK!Key, KeyTaken(r, j), c.at \in {"refill", "take"}, kCache' = kCache,
             UNCHANGED <<topUps, slots, backdated, wasted>>
      PROVE  /\ KeysTyped' /\ KeyPath(r)'
             /\ kCall'[r].at \in AK!Steps \cup {"ok", "rejected", "exceeded"}
  <2>1. /\ KeyPath(r)' /\ kCall' \in [Requests -> AK!Call]
        /\ kCall'[r].at \in AK!Steps \cup {"ok", "rejected", "exceeded"}
    BY <1>u, <1>t, <1>v DEF KeyTaken
  <2>2. uses' \in Nat /\ kRow' = {j}
    BY <1>u, <1>0 DEF KeyTaken
  <2> QED BY <1>0, <1>u, <2>1, <2>2 DEF KeysTyped, AtMostOneKey
<1>4. CASE KeyRefills(r)
  <2>1. CASE KeyGoes(r, "take") /\ kRow' = kRow /\ uses' = uses
    <3>1. c.seen \in AK!Key
      BY <1>4, <1>p DEF KeyRefills, KeyPath, KeyRead, AK!Steps
    <3>2. KeyPath(r)' /\ kCall' \in [Requests -> AK!Call] /\ kCall'[r].at = "take"
      BY <1>0, <1>4, <1>p, <1>g, <1>v, <2>1, <3>1
         DEF KeyRefills, KeyGoes, KeyTo, KeyPlaces, KeyVerifies, AK!Steps
    <3> QED BY <1>k, <1>4, <2>1, <3>2 DEF KeyRefills, KeyRows, KeyHistory, AK!Steps
  <2>2. ASSUME NEW k \in kRow,
               KeyTaken(r, [k EXCEPT !.remaining = kDeploy.amount - 1, !.refilled = c.t])
        PROVE  /\ KeysTyped' /\ KeyPath(r)'
               /\ kCall'[r].at \in AK!Steps \cup {"ok", "rejected", "exceeded"}
    <3> HIDE DEF c
    <3>0. k \in AK!Key /\ kDeploy.amount - 1 \in Int /\ c.t \in Nat
      BY <1>0, <1>d
    <3>1. [k EXCEPT !.remaining = kDeploy.amount - 1, !.refilled = c.t] \in AK!Key
      BY <3>0, KeyTypes
    <3> USE DEF c
    <3> QED BY <1>4, <1>u, <2>2, <3>1 DEF KeyRefills
  <2> QED BY <1>4, <2>1, <2>2 DEF KeyRefills, AK!Steps
<1>5. CASE KeyTakes(r)
  <2>1. CASE KeyGoes(r, "exceeded") /\ kRow' = kRow /\ uses' = uses
    <3>1. KeyPath(r)' /\ kCall' \in [Requests -> AK!Call] /\ kCall'[r].at = "exceeded"
      BY <1>0, <1>5, <1>p, <1>g, <1>v, <2>1
         DEF KeyTakes, KeyGoes, KeyTo, KeyPlaces, KeyRead, AK!Steps, AK!Ended
    <3> QED BY <1>k, <1>5, <2>1, <3>1 DEF KeyTakes, KeyRows, KeyHistory, AK!Steps
  <2>2. ASSUME NEW k \in kRow, KeyTaken(r, [k EXCEPT !.remaining = @ - 1])
        PROVE  /\ KeysTyped' /\ KeyPath(r)'
               /\ kCall'[r].at \in AK!Steps \cup {"ok", "rejected", "exceeded"}
    <3>a. k \in AK!Key
      BY <1>0
    <3>b. k.remaining \in Int
      BY <3>a DEF AK!Key
    <3>0. k.remaining - 1 \in Int
      BY <3>b
    <3>1. [k EXCEPT !.remaining = @ - 1] \in AK!Key
      BY <3>a, <3>0, KeyTypes
    <3> QED BY <1>5, <1>u, <2>2, <3>1 DEF KeyTakes
  <2> QED BY <1>5, <2>1, <2>2 DEF KeyTakes, AK!Steps
<1>6. CASE KeySlots(r)
  <2>0. c.op = "verify" /\ c.seen \in AK!Key
    BY <1>6, <1>v, <1>p DEF KeySlots, KeyPath, KeyRead, AK!Steps
  <2>1. CASE KeyGoes(r, "reread") /\ UNCHANGED <<kRow, slots, backdated>>
    <3>1. KeyPath(r)' /\ kCall' \in [Requests -> AK!Call] /\ kCall'[r].at = "reread"
      BY <1>0, <1>p, <1>g, <2>0, <2>1 DEF KeyGoes, KeyTo, KeyPlaces, KeyVerifies, AK!Steps
    <3> QED BY <1>k, <1>6, <2>1, <3>1 DEF KeySlots, KeyRows, KeyHistory, AK!Steps
  <2>2. ASSUME NEW k \in kRow, NEW n \in Nat, KeyGoes(r, "stamp"),
               kRow' = {[k EXCEPT !.last = c.t, !.count = n]},
               slots' = [slots EXCEPT ![c.t] = @ + 1],
               backdated' = (backdated \/ c.t < k.last)
        PROVE  /\ KeysTyped' /\ KeyPath(r)' /\ kCall'[r].at = "stamp"
    <3>1. KeyPath(r)' /\ kCall' \in [Requests -> AK!Call] /\ kCall'[r].at = "stamp"
      BY <1>0, <1>p, <1>g, <2>0, <2>2 DEF KeyGoes, KeyTo, KeyPlaces, KeyVerifies, AK!Steps
    <3>0. k \in AK!Key /\ c.t \in Nat /\ c.t \in 0..kDeploy.maxTime
      BY <1>0, <1>p
    <3> HIDE DEF c
    <3>a. [k EXCEPT !.last = c.t, !.count = n] \in AK!Key
      BY <3>0, KeyTypes
    <3>2. kRow' \subseteq AK!Key /\ \A i, j \in kRow' : i = j
      BY <2>2, <3>a
    <3>b. slots \in [0..kDeploy.maxTime -> Nat] /\ slots[c.t] + 1 \in Nat
      BY <1>0, <3>0
    <3>3. slots' \in [0..kDeploy.maxTime -> Nat] /\ backdated' \in BOOLEAN
      BY <2>2, <3>b
    <3>4. kCache' = kCache /\ uses' = uses /\ topUps' = topUps /\ wasted' = wasted
      BY <1>6 DEF KeySlots
    <3>5. KeysTyped'
      BY <1>0, <3>1, <3>2, <3>3, <3>4 DEF KeysTyped, AtMostOneKey
    <3> QED BY <3>1, <3>5
  <2> QED BY <1>6, <2>1, <2>2 DEF KeySlots, AK!Steps
<1>9. CASE KeyRereads(r)
  <2>0. c.op = "verify"
    BY <1>9, <1>v DEF KeyRereads
  <2>1. CASE KeyGoes(r, "rejected")
    BY <1>0, <1>9, <1>p, <1>g, <1>k, <2>0, <2>1
       DEF KeyRereads, KeyGoes, KeyPlaces, KeyRead, AK!Steps, AK!Ended
  <2>2. CASE \E k \in kRow : KeyTo(r, AK!Decide(k, kNow), k, kNow)
    BY <1>0, <1>9, <1>t, <1>k, <2>0, <2>2 DEF KeyRereads, AK!Steps
  <2> QED BY <1>9, <2>1, <2>2 DEF KeyRereads
<1>10. CASE KeyStamps(r)
  <2>0. c.op = "verify"
    BY <1>10, <1>v DEF KeyStamps
  <2>1. CASE KeyGoes(r, "rejected")
    BY <1>0, <1>10, <1>p, <1>g, <1>k, <2>0, <2>1
       DEF KeyStamps, KeyGoes, KeyPlaces, KeyRead, AK!Steps, AK!Ended
  <2>2. CASE \E k \in kRow : KeyTo(r, IF kDeploy.cached THEN "recache" ELSE "ok", k, kNow)
    <3>1. PICK k \in kRow, pc \in {"recache", "ok"} :
            /\ KeyTo(r, pc, k, kNow) /\ (pc = "recache" => kDeploy.cached)
      BY <2>2, <1>d
    <3> QED BY <1>0, <1>10, <1>g, <1>k, <2>0, <3>1
            DEF KeyStamps, KeyPlaces, KeyVerifies, AK!Steps, AK!Ended
  <2> QED BY <1>10, <2>1, <2>2 DEF KeyStamps
<1>11. CASE KeyRecaches(r)
  <2>1. c.seen \in AK!Key
    BY <1>11, <1>p DEF KeyRecaches, KeyPath, KeyRead, AK!Steps
  <2>2. c.op \in {"verify", "disable", "topUp"}
    BY <1>11, <1>p, <1>0 DEF KeyRecaches, KeyPath, KeyPlaces, AK!Call, AK!Operations
  <2>3. KeyPath(r)' /\ kCall' \in [Requests -> AK!Call] /\ kCall'[r].at = "ok"
    BY <1>0, <1>11, <1>p, <1>g, <2>1, <2>2
       DEF KeyRecaches, KeyGoes, KeyTo, KeyPlaces, KeyRead, AK!Steps, AK!Ended
  <2> QED BY <1>0, <1>11, <2>1, <2>3 DEF KeyRecaches, KeyHistory, KeysTyped, AtMostOneKey, AK!Steps
<1>12. CASE KeyWrites(r)
  <2>1. c.op \in {"disable", "topUp"} /\ c.seen \in AK!Key
    BY <1>12, <1>p, <1>0
       DEF KeyWrites, KeyPath, KeyPlaces, KeyVerifies, KeyRead, AK!Steps, AK!Ended, AK!Call, AK!Operations
  <2>2. KeyPath(r)' /\ kCall' \in [Requests -> AK!Call] /\ kCall'[r].at \in {"ok", "recache"}
    <3>1. CASE KeyGoes(r, "ok")
      BY <1>0, <1>p, <1>g, <2>1, <3>1 DEF KeyGoes, KeyTo, KeyPlaces, KeyRead, AK!Steps, AK!Ended
    <3>2. CASE \E k \in kRow :
            KeyTo(r, IF kDeploy.cached THEN "recache" ELSE "ok", AK!Changed(r, k), c.t)
      <4>1. PICK k \in kRow, pc \in {"recache", "ok"} :
              KeyTo(r, pc, AK!Changed(r, k), c.t) /\ (pc = "recache" => kDeploy.cached)
        BY <3>2, <1>d
      <4>2. AK!Changed(r, k) \in AK!Key
        BY <1>0, KeyChanges DEF KeysBase
      <4>3. kCall'[r].at = pc
        BY <4>1 DEF KeyTo
      <4> QED BY <1>0, <1>p, <1>g, <2>1, <4>1, <4>2, <4>3 DEF KeyPlaces, AK!Steps, AK!Ended
    <3> QED BY <1>12, <3>1, <3>2 DEF KeyWrites
  <2>3. kRow' \subseteq AK!Key /\ (\A i, j \in kRow' : i = j) /\ topUps' \in Nat
    BY <1>0, <1>12, KeyChanges DEF KeyWrites, KeysBase
  <2> QED BY <1>0, <1>12, <2>2, <2>3 DEF KeyWrites, KeysTyped, AtMostOneKey, AK!Steps
<1>13. CASE KeyUncaches(r)
  <2>1. c.seen \in AK!Key /\ c.op \in {"verify", "delete"}
    BY <1>13, <1>p, <1>0 DEF KeyUncaches, KeyPath, KeyPlaces, KeyRead, AK!Steps, AK!Call, AK!Operations
  <2>2. KeyPath(r)' /\ kCall' \in [Requests -> AK!Call] /\ kCall'[r].at = "remove"
    BY <1>0, <1>13, <1>p, <1>g, <2>1
       DEF KeyUncaches, KeyGoes, KeyTo, KeyPlaces, KeyVerifies, KeyPath, AK!Steps
  <2> QED BY <1>0, <1>13, <2>2 DEF KeyUncaches, KeyHistory, KeysTyped, AtMostOneKey, AK!Steps
<1>14. CASE KeyRemoves(r)
  <2>1. c.op \in {"verify", "delete"}
    BY <1>14, <1>p, <1>0 DEF KeyRemoves, KeyPath, KeyPlaces, AK!Call, AK!Operations
  <2>2. PICK pc \in {"exceeded", "ok"} :
          KeyGoes(r, pc) /\ (c.op = "delete" => pc = "ok")
    BY <1>14 DEF KeyRemoves
  <2>3. KeyPath(r)' /\ kCall' \in [Requests -> AK!Call] /\ kCall'[r].at \in {"exceeded", "ok"}
    BY <1>0, <1>p, <1>g, <2>1, <2>2 DEF KeyGoes, KeyTo, KeyPlaces, KeyRead, AK!Steps, AK!Ended
  <2>4. wasted' \in BOOLEAN
    BY <1>0, <1>14 DEF KeyRemoves
  <2> QED BY <1>0, <1>14, <2>3, <2>4 DEF KeyRemoves, KeysTyped, AtMostOneKey, AK!Steps
<1> QED BY <1>1, <1>2, <1>3, <1>4, <1>5, <1>6, <1>9, <1>10, <1>11, <1>12, <1>13, <1>14 DEF KeyStep

\* Requests that did not move keep what is said of them.
LEMMA KeyPathKept ==
  ASSUME NEW q \in Requests, KeyPath(q), kDeploy' = kDeploy, kNow \in Nat,
         kNow' \in {kNow, kNow + 1},
         KeyTo(q, kCall[q].at, kCall[q].seen, kCall[q].t), kCall'[q].op = kCall[q].op,
         kCall[q].t \in Nat
  PROVE  KeyPath(q)'
<1>1. kCall[q].t <= kNow'
  BY DEF KeyPath
<1> QED BY <1>1 DEF KeyPath, KeyTo, AK!Due

LEMMA KeysBaseKept ==
  ASSUME KeysBase, [AK!Next]_AK!vars
  PROVE  KeysBase'
<1>0. /\ KeysTyped /\ kDeploy' = kDeploy /\ kNow \in Nat /\ kCall \in [Requests -> AK!Call]
      /\ \A q \in Requests : kCall[q] \in AK!Call /\ kCall[q].t \in Nat
      /\ \A q \in Requests : KeyPath(q) /\ KeyAlone(q)
  BY KeyNext, KeysDeployTyped DEF KeysBase, KeysTyped, AK!Call
\* A request that moves overlaps no one new, and nothing that was answered.
<1>a. ASSUME NEW r \in Requests, kCall[r].at \in AK!Steps, KeyOthers(r),
             kCall'[r].at \in AK!Steps \cup {"ok", "rejected", "exceeded", "failed"}
      PROVE  \A q \in Requests : KeyAlone(q)'
  <2>1. \A q \in Requests :
          /\ (AK!InFlight(q))' => AK!InFlight(q)
          /\ kCall'[q].beside = kCall[q].beside /\ kCall'[q].late = kCall[q].late
          /\ kCall[q].at = "ok" => kCall'[q].at = "ok"
    BY <1>a DEF KeyOthers, AK!InFlight, AK!Steps
  <2>2. \A q \in Requests : kCall[q].late \subseteq Requests
    BY <1>0 DEF AK!Call
  <2> QED BY <1>0, <2>1, <2>2 DEF KeyAlone
<1>b. ASSUME NEW r \in Requests, KeyOthers(r), kNow' = kNow, KeyPath(r)'
      PROVE  \A q \in Requests : KeyPath(q)'
  BY <1>0, <1>b, KeyPathKept DEF KeyOthers, KeyTo
<1>1. ASSUME NEW r \in Requests, KeyOthers(r), KeyStep(r), kNow' = kNow
      PROVE  KeysBase'
  <2>1. /\ KeysTyped' /\ KeyPath(r)' /\ kCall[r].at \in AK!Steps
        /\ kCall'[r].at \in AK!Steps \cup {"ok", "rejected", "exceeded"}
    BY <1>0, <1>1, KeyStepTyped
  <2> QED BY <1>1, <1>a, <1>b, <2>1 DEF KeysBase
<1>2. ASSUME NEW r \in Requests, NEW op \in AK!Operations, KeyStarts(r, op), kNow' = kNow,
             kCall' \in [Requests -> AK!Call]
      PROVE  KeysBase'
  <2>1. KeysTyped'
    BY <1>0, <1>2 DEF KeyStarts, KeysTyped, AtMostOneKey, KeyRows, KeyHistory
  <2>2. KeyPath(r)'
    BY <1>0, <1>2 DEF KeyStarts, KeyPath, KeyTo, KeyPlaces, KeyVerifies, KeyRead, AK!Operations, AK!Steps
  <2>3. \A q \in Requests : KeyPath(q)'
    BY <1>0, <1>2, <2>2, KeyPathKept DEF KeyStarts
  <2>4. \A q \in Requests : q # r =>
          kCall'[q].at = kCall[q].at /\ kCall'[q].late = kCall[q].late
          /\ kCall'[q].beside = (kCall[q].beside \/ AK!InFlight(q))
    BY <1>2 DEF KeyStarts, KeyTo
  <2>5. /\ kCall[r].at = "idle" /\ kCall'[r].at = "load"
        /\ kCall'[r].beside = \E q \in Requests : AK!InFlight(q)
        /\ kCall'[r].late = {p \in Requests : kCall[p].at = "ok"}
    BY <1>2 DEF KeyStarts, KeyTo
  <2>6. KeyAlone(r)'
    BY <2>4, <2>5 DEF KeyAlone, AK!InFlight
  <2>7. ASSUME NEW q \in Requests, q # r
        PROVE  KeyAlone(q)'
    <3>1. kCall[q].late \subseteq Requests
      BY <1>0 DEF AK!Call
    <3>2. \A p \in kCall'[q].late : kCall'[p].at = "ok"
      <4>1. kCall'[q].late = kCall[q].late
        BY <2>4, <2>7
      <4>2. \A p \in kCall[q].late : kCall[p].at = "ok"
        BY <1>0 DEF KeyAlone
      <4> QED BY <2>4, <2>5, <3>1, <4>1, <4>2
    <3>3. ASSUME AK!InFlight(q)'
          PROVE  kCall'[q].beside
      <4>1. AK!InFlight(q)
        BY <2>4, <2>7, <3>3 DEF AK!InFlight
      <4> QED BY <2>4, <2>7, <4>1
    <3> QED BY <3>2, <3>3 DEF KeyAlone
  <2> QED BY <2>1, <2>3, <2>6, <2>7 DEF KeysBase
<1>3. ASSUME NEW r \in Requests, KeyFails(r), kNow' = kNow
      PROVE  KeysBase'
  <2>1. KeyOthers(r) /\ KeyGoes(r, "failed") /\ AK!InFlight(r)
    BY <1>3 DEF KeyFails
  <2>2. kCall' \in [Requests -> AK!Call]
    BY <1>0, <2>1 DEF KeyOthers, KeyGoes, KeyTo, AK!Call, AK!Ended
  <2>3. KeysTyped'
    BY <1>0, <1>3, <2>2 DEF KeyFails, KeysTyped, AtMostOneKey, KeyRows, KeyHistory
  <2>4. KeyPath(r)'
    <3>1. kCall[r].op # "none" /\ kCall[r].op \in AK!Operations \cup {"none"}
      BY <1>0, <2>1 DEF KeyPath, KeyPlaces, AK!InFlight, AK!Steps, AK!Call
    <3>2. "failed" \in KeyPlaces(kCall[r].op)
      BY <3>1 DEF KeyPlaces, AK!Ended, AK!Operations
    <3>3. kCall'[r].at = "failed" /\ kCall'[r].op = kCall[r].op /\ kCall'[r].t = kCall[r].t
      BY <2>1 DEF KeyGoes, KeyTo, KeyOthers
    <3> QED BY <1>0, <1>3, <3>2, <3>3 DEF KeyPath, KeyRead, AK!Steps
  <2> QED BY <1>3, <1>a, <1>b, <2>1, <2>3, <2>4 DEF KeysBase, KeyGoes, KeyTo, AK!InFlight
<1>4. ASSUME KeyTicks
      PROVE  KeysBase'
  <2>1. KeysTyped'
    BY <1>0, <1>4, KeysDeployTyped DEF KeyTicks, KeysTyped, AtMostOneKey, KeyRows, KeyHistory
  <2>2. \A q \in Requests : KeyPath(q)'
    BY <1>0, <1>4, KeyPathKept DEF KeyTicks, KeyTo
  <2>3. \A q \in Requests : KeyAlone(q)'
    BY <1>0, <1>4 DEF KeyTicks, KeyAlone, AK!InFlight
  <2> QED BY <2>1, <2>2, <2>3 DEF KeysBase
<1> QED BY <1>0, <1>1, <1>2, <1>3, <1>4, KeyNext

-----------------------------------------------------------------------------
\* What was granted grows with the time and with every top-up.
LEMMA TimesKept ==
  ASSUME NEW m \in Nat, NEW x \in Nat, NEW y \in Nat, x <= y
  PROVE  m * x \in Nat /\ m * y \in Nat /\ m * x <= m * y /\ m * (x + 1) = m * x + m
<1>1. y - x \in Nat /\ y = x + (y - x)
  OBVIOUS
<1>2. m * (x + (y - x)) = m * x + m * (y - x)
  BY <1>1
<1>3. m * (y - x) >= 0 /\ m * x \in Nat /\ m * y \in Nat /\ m * (x + 1) = m * x + m
  BY <1>1
<1> QED BY <1>1, <1>2, <1>3

LEMMA Divided ==
  ASSUME NEW a \in Nat, NEW d \in Nat \ {0}
  PROVE  a \div d \in Nat /\ d * (a \div d) <= a /\ a < d * (a \div d) + d
<1>1. a = d * (a \div d) + (a % d) /\ a % d \in 0..(d - 1) /\ a \div d \in Int
  OBVIOUS
<1>2. a \div d >= 0
  OBVIOUS
<1> QED BY <1>1, <1>2

LEMMA QuotientKept ==
  ASSUME NEW a \in Nat, NEW b \in Nat, NEW d \in Nat \ {0}
  PROVE  /\ a \div d \in Nat
         /\ a <= b => a \div d <= b \div d
         /\ a + d <= b => a \div d + 1 <= b \div d
<1> DEFINE p == a \div d
           q == b \div d
<1>1. /\ p \in Nat /\ d * p <= a /\ a < d * p + d
      /\ q \in Nat /\ d * q <= b /\ b < d * q + d
  BY Divided
<1>2. \A x, y \in Nat : x + 1 <= y => d * x + d <= d * y
  <2>1. TAKE x, y \in Nat
  <2>2. HAVE x + 1 <= y
  <2>3. d * (x + 1) <= d * y
    BY <2>2, TimesKept
  <2>4. d * (x + 1) = d * x + d
    OBVIOUS
  <2> QED BY <2>3, <2>4
<1> HIDE DEF p, q
<1>3. d * p \in Nat /\ d * q \in Nat
  BY <1>1
<1>4. ASSUME a <= b
      PROVE  p <= q
  <2>1. CASE q + 1 <= p
    <3>1. d * q + d <= d * p
      BY <1>1, <1>2, <2>1
    <3> QED BY <1>1, <1>3, <1>4, <3>1
  <2> QED BY <1>1, <2>1
<1>5. ASSUME a + d <= b
      PROVE  p + 1 <= q
  <2>1. CASE q <= p
    <3>1. d * q <= d * p
      BY <1>1, <2>1, TimesKept
    <3> QED BY <1>1, <1>3, <1>5, <3>1
  <2> QED BY <1>1, <2>1
<1> QED BY <1>1, <1>4, <1>5 DEF p, q

LEMMA KeyGrants ==
  ASSUME NEW d \in Keyrings, d.quota # -1, NEW u \in Nat, NEW m \in Nat \cup {-1}, NEW n \in Nat,
         m <= n
  PROVE  /\ KeyGranted(d, u, m) \in Nat /\ KeyGranted(d, u, n) \in Nat
         /\ KeyGranted(d, u, m) <= KeyGranted(d, u, n)
         /\ n - (IF m = -1 THEN 0 ELSE m) > d.interval =>
              KeyGranted(d, u, m) + d.amount <= KeyGranted(d, u, n)
         /\ KeyGranted(d, u + 1, m) = KeyGranted(d, u, m) + d.quota
<1> DEFINE e == d.interval + 1
           p == IF m = -1 THEN 0 ELSE m \div e
           q == n \div e
           g == d.quota * (1 + u)
<1>0. d.quota \in Nat /\ d.amount \in Nat /\ d.interval \in Nat
  BY PluginsAssumption DEF AK!ConstantsOK, AK!Deployment, AK!Null
<1>1. e \in Nat \ {0}
  BY <1>0
<1>2. /\ p \in Nat /\ q \in Nat /\ p <= q
      /\ n - (IF m = -1 THEN 0 ELSE m) > d.interval => p + 1 <= q
  <2> HIDE DEF e
  <2>e. d.interval + 1 = e
    BY DEF e
  <2>1. CASE m = -1
    <3>1. 0 \div e = 0
      BY <1>1
    <3>2. q \in Nat /\ (0 + e <= n => 0 \div e + 1 <= q)
      BY <1>1, QuotientKept
    <3> QED BY <1>0, <2>1, <2>e, <3>1, <3>2
  <2>2. CASE m # -1
    <3>1. m \div e \in Nat /\ q \in Nat /\ m \div e <= q /\ (m + e <= n => m \div e + 1 <= q)
      BY <1>1, <2>2, QuotientKept
    <3> QED BY <1>0, <2>2, <2>e, <3>1
  <2> QED BY <2>1, <2>2
<1>3. g \in Nat /\ d.quota * (1 + (u + 1)) = g + d.quota
  BY <1>0
<1> HIDE DEF p, q, g
<1>4. /\ d.amount * p \in Nat /\ d.amount * p <= d.amount * q
      /\ p + 1 <= q => d.amount * p + d.amount <= d.amount * q
  <2>1. d.amount * (p + 1) = d.amount * p + d.amount
    BY <1>0, <1>2, TimesKept
  <2> QED BY <1>0, <1>2, <2>1, TimesKept
<1>4q. d.amount * q \in Nat
  BY <1>0, <1>2, TimesKept
<1>5. /\ KeyGranted(d, u, m) = g + d.amount * p
      /\ KeyGranted(d, u, n) = g + d.amount * q
      /\ KeyGranted(d, u + 1, m) = d.quota * (1 + (u + 1)) + d.amount * p
  BY DEF KeyGranted, p, q, g, AK!Null
<1>6. d.amount * p \in Nat
  BY <1>4
<1> HIDE DEF e
<1> QED BY <1>0, <1>2, <1>3, <1>4, <1>4q, <1>5, <1>6

LEMMA KeysQuotaKept ==
  ASSUME KeysBase, KeysBase', KeysQuota, [AK!Next]_AK!vars
  PROVE  KeysQuota'
<1>0. /\ KeysTyped /\ kDeploy' = kDeploy /\ kDeploy \in Keyrings /\ kNow \in Nat /\ kNow' \in Nat
      /\ uses \in Nat /\ topUps \in Nat /\ kDeploy.amount \in Nat
      /\ kRow \subseteq AK!Key /\ \A i, j \in kRow : i = j
      /\ kCall \in [Requests -> AK!Call]
  BY KeyNext, KeysDeployTyped DEF KeysBase, KeysTyped, AtMostOneKey
<1> SUFFICES ASSUME kDeploy.quota # -1
             PROVE  /\ \A k \in kRow' :
                         /\ k.remaining >= 0 /\ k.refilled <= kNow'
                         /\ uses' + k.remaining <= KeyGranted(kDeploy, topUps', k.refilled)
                    /\ uses' <= KeyGranted(kDeploy, topUps', kNow')
  BY <1>0 DEF KeysQuota, AK!Null
<1>q. kDeploy.quota \in Nat
  BY <1>0, KeysDeployTyped
<1>1. /\ \A k \in kRow : /\ k.remaining >= 0 /\ k.refilled <= kNow
                         /\ uses + k.remaining <= KeyGranted(kDeploy, topUps, k.refilled)
      /\ uses <= KeyGranted(kDeploy, topUps, kNow)
  BY DEF KeysQuota, AK!Null
<1>2. \A k \in kRow : k.remaining \in Int /\ k.refilled \in Nat \cup {-1}
  BY <1>0 DEF AK!Key, AK!Times, AK!Null
\* Nothing is taken and nothing granted.
<1>a. ASSUME uses' = uses, topUps' = topUps, kNow' \in {kNow, kNow + 1},
             \A k \in kRow' : \E i \in kRow : k.remaining = i.remaining /\ k.refilled = i.refilled
      PROVE  /\ \A k \in kRow' :
                  /\ k.remaining >= 0 /\ k.refilled <= kNow'
                  /\ uses' + k.remaining <= KeyGranted(kDeploy, topUps', k.refilled)
             /\ uses' <= KeyGranted(kDeploy, topUps', kNow')
  <2>1. /\ KeyGranted(kDeploy, topUps, kNow) \in Nat
        /\ KeyGranted(kDeploy, topUps, kNow) <= KeyGranted(kDeploy, topUps, kNow')
        /\ KeyGranted(kDeploy, topUps, kNow') \in Nat
    <3>1. kNow <= kNow'
      BY <1>0, <1>a
    <3> QED BY <1>0, <3>1, KeyGrants
  <2>2. uses' <= KeyGranted(kDeploy, topUps', kNow')
    BY <1>0, <1>1, <1>a, <2>1
  <2> QED BY <1>0, <1>1, <1>2, <1>a, <2>2
\* One is taken, of what a row has left.
<1>b. ASSUME NEW k \in kRow, NEW r \in Requests, k.remaining > 0, kNow' = kNow, topUps' = topUps,
             KeyTaken(r, [k EXCEPT !.remaining = @ - 1])
      PROVE  /\ \A j \in kRow' :
                  /\ j.remaining >= 0 /\ j.refilled <= kNow'
                  /\ uses' + j.remaining <= KeyGranted(kDeploy, topUps', j.refilled)
             /\ uses' <= KeyGranted(kDeploy, topUps', kNow')
  <2> DEFINE j == [k EXCEPT !.remaining = @ - 1]
  <2>1. k \in AK!Key
    BY <1>0
  <2>2. j.remaining = k.remaining - 1 /\ j.refilled = k.refilled
    BY <2>1 DEF AK!Key
  <2>3. kRow' = {j} /\ uses' = uses + 1
    BY <1>b DEF KeyTaken
  <2> HIDE DEF j
  <2>4. /\ KeyGranted(kDeploy, topUps, k.refilled) \in Nat
        /\ KeyGranted(kDeploy, topUps, k.refilled) <= KeyGranted(kDeploy, topUps, kNow)
        /\ KeyGranted(kDeploy, topUps, kNow) \in Nat
    BY <1>0, <1>1, <1>2, KeyGrants
  <2> QED BY <1>0, <1>1, <1>2, <1>b, <2>2, <2>3, <2>4
\* The refill of an interval that has ended, for a row that had none since.
<1>c. ASSUME NEW k \in kRow, NEW r \in Requests, k.refilled = kCall[r].seen.refilled,
             kCall[r].at = "refill", kNow' = kNow, topUps' = topUps,
             KeyTaken(r, [k EXCEPT !.remaining = kDeploy.amount - 1, !.refilled = kCall[r].t])
      PROVE  /\ \A j \in kRow' :
                  /\ j.remaining >= 0 /\ j.refilled <= kNow'
                  /\ uses' + j.remaining <= KeyGranted(kDeploy, topUps', j.refilled)
             /\ uses' <= KeyGranted(kDeploy, topUps', kNow')
  <2> DEFINE t == kCall[r].t
             j == [k EXCEPT !.remaining = kDeploy.amount - 1, !.refilled = t]
             m == k.refilled
  <2>1. k \in AK!Key /\ t \in Nat /\ t <= kNow /\ AK!Due(kCall[r].seen, t)
    BY <1>0, <1>c DEF KeysBase, KeyPath, AK!Call
  <2>2. j.remaining = kDeploy.amount - 1 /\ j.refilled = t
    BY <2>1 DEF AK!Key
  <2>3. kRow' = {j} /\ uses' = uses + 1
    BY <1>c DEF KeyTaken
  <2>4. kDeploy.amount > 0 /\ t - (IF m = -1 THEN 0 ELSE m) > kDeploy.interval
    BY <1>c, <2>1 DEF AK!Due, AK!Null
  <2>5. m \in Nat \cup {-1} /\ k.remaining \in Int /\ k.remaining >= 0
        /\ uses + k.remaining <= KeyGranted(kDeploy, topUps, m) /\ kDeploy.interval \in Nat
    BY <1>0, <1>1, <1>2, KeysDeployTyped
  <2> HIDE DEF j, m, t
  <2>6. m <= t
    BY <2>1, <2>4, <2>5
  <2>7. /\ KeyGranted(kDeploy, topUps, m) \in Nat
        /\ KeyGranted(kDeploy, topUps, m) + kDeploy.amount <= KeyGranted(kDeploy, topUps, t)
        /\ KeyGranted(kDeploy, topUps, t) \in Nat
    BY <1>0, <2>1, <2>4, <2>5, <2>6, KeyGrants
  <2>8. KeyGranted(kDeploy, topUps, t) <= KeyGranted(kDeploy, topUps, kNow)
        /\ KeyGranted(kDeploy, topUps, kNow) \in Nat
    BY <1>0, <2>1, KeyGrants
  <2>9. uses' + j.remaining <= KeyGranted(kDeploy, topUps, t) /\ j.remaining >= 0
        /\ uses' <= KeyGranted(kDeploy, topUps, t) /\ uses' \in Nat
    BY <1>0, <2>2, <2>3, <2>4, <2>5, <2>7
  <2> QED BY <1>0, <1>c, <2>1, <2>2, <2>3, <2>7, <2>8, <2>9
\* A top-up.
<1>d. ASSUME NEW r \in Requests, KeyWrites(r), kNow' = kNow
      PROVE  /\ \A j \in kRow' :
                  /\ j.remaining >= 0 /\ j.refilled <= kNow'
                  /\ uses' + j.remaining <= KeyGranted(kDeploy, topUps', j.refilled)
             /\ uses' <= KeyGranted(kDeploy, topUps', kNow')
  <2>1. /\ kRow' = {AK!Changed(r, k) : k \in kRow} /\ uses' = uses
        /\ topUps' = topUps + (IF kCall[r].op = "topUp" THEN 1 ELSE 0)
        /\ kCall[r].op \in {"disable", "topUp"}
    BY <1>0, <1>d DEF KeyWrites, KeysBase, KeyPath, KeyPlaces, KeyVerifies, AK!Ended, AK!Call, AK!Operations
  <2>2. CASE kCall[r].op = "disable"
    <3>1. \A k \in kRow' : \E i \in kRow : k.remaining = i.remaining /\ k.refilled = i.refilled
      BY <1>0, <2>1, <2>2, KeyChanges
    <3>2. topUps' = topUps
      BY <1>0, <2>1, <2>2
    <3> QED BY <1>a, <1>d, <2>1, <3>1, <3>2
  <2>3. CASE kCall[r].op = "topUp"
    <3>1. \A j \in kRow' : \E k \in kRow : j.remaining = kDeploy.quota /\ j.refilled = k.refilled
      BY <1>0, <2>1, <2>3, KeyChanges
    <3>2. topUps' = topUps + 1
      BY <2>1, <2>3
    <3>3. /\ KeyGranted(kDeploy, topUps, kNow) \in Nat
          /\ KeyGranted(kDeploy, topUps + 1, kNow) = KeyGranted(kDeploy, topUps, kNow) + kDeploy.quota
      BY <1>0, KeyGrants
    <3>4. uses' <= KeyGranted(kDeploy, topUps', kNow')
      BY <1>0, <1>1, <1>d, <1>q, <2>1, <3>2, <3>3
    <3>5. ASSUME NEW j \in kRow'
          PROVE  /\ j.remaining >= 0 /\ j.refilled <= kNow'
                 /\ uses' + j.remaining <= KeyGranted(kDeploy, topUps', j.refilled)
      <4>1. PICK k \in kRow : j.remaining = kDeploy.quota /\ j.refilled = k.refilled
        BY <3>1
      <4>2. /\ KeyGranted(kDeploy, topUps, k.refilled) \in Nat
            /\ KeyGranted(kDeploy, topUps + 1, k.refilled)
                 = KeyGranted(kDeploy, topUps, k.refilled) + kDeploy.quota
        BY <1>0, <1>1, <1>2, KeyGrants
      <4> QED BY <1>0, <1>1, <1>2, <1>d, <1>q, <2>1, <3>2, <4>1, <4>2
    <3> QED BY <3>4, <3>5
  <2> QED BY <2>1, <2>2, <2>3
<1>3. ASSUME NEW r \in Requests, KeyStep(r), kNow' = kNow
      PROVE  /\ \A j \in kRow' :
                  /\ j.remaining >= 0 /\ j.refilled <= kNow'
                  /\ uses' + j.remaining <= KeyGranted(kDeploy, topUps', j.refilled)
             /\ uses' <= KeyGranted(kDeploy, topUps', kNow')
  <2>1. CASE uses' = uses /\ topUps' = topUps /\ (kRow' = kRow \/ kRow' = {})
    BY <1>3, <1>a, <2>1
  <2>2. CASE KeySlots(r)
    <3>1. CASE kRow' = kRow
      BY <2>1, <2>2, <3>1 DEF KeySlots
    <3>2. CASE \E k \in kRow, n \in Nat : kRow' = {[k EXCEPT !.last = kCall[r].t, !.count = n]}
      <4>1. PICK k \in kRow, n \in Nat : kRow' = {[k EXCEPT !.last = kCall[r].t, !.count = n]}
        BY <3>2
      <4>2. k \in AK!Key
        BY <1>0
      <4>3. \A j \in kRow' : j.remaining = k.remaining /\ j.refilled = k.refilled
        BY <4>1, <4>2 DEF AK!Key
      <4> QED BY <1>a, <1>3, <2>2, <4>3 DEF KeySlots
    <3> QED BY <2>2, <3>1, <3>2 DEF KeySlots
  <2>3. CASE KeyRefills(r)
    BY <1>3, <1>c, <2>1, <2>3 DEF KeyRefills
  <2>4. CASE KeyTakes(r)
    BY <1>3, <1>b, <2>1, <2>4 DEF KeyTakes
  <2>5. CASE KeyWrites(r)
    BY <1>3, <1>d, <2>5
  <2> QED BY <1>3, <2>1, <2>2, <2>3, <2>4, <2>5
          DEF KeyStep, KeyLoads, KeyLoadsDb, KeyFills, KeyRereads, KeyStamps, KeyRecaches,
              KeyUncaches, KeyRemoves, KeyRows, KeyHistory
<1>4. CASE KeyRows /\ KeyHistory /\ kNow' \in {kNow, kNow + 1}
  BY <1>4, <1>a DEF KeyRows, KeyHistory
<1> QED BY <1>0, <1>3, <1>4, KeyNext DEF KeyStarts, KeyFails, KeyTicks

-----------------------------------------------------------------------------
LEMMA KeysRateKept ==
  ASSUME KeysBase, KeysBase', KeysRate, [AK!Next]_AK!vars
  PROVE  KeysRate'
<1>0. /\ KeysTyped /\ kDeploy' = kDeploy /\ kDeploy.max \in Nat /\ kDeploy.window \in Nat \ {0}
      /\ slots \in [0..kDeploy.maxTime -> Nat]
      /\ kRow \subseteq AK!Key /\ \A i, j \in kRow : i = j
      /\ kDeploy.maxTime \in Nat
      /\ \A k \in kRow : k.last \in Nat \cup {-1} /\ k.count \in Nat
  BY KeyNext, KeysDeployTyped DEF KeysBase, KeysTyped, AtMostOneKey, AK!Key, AK!Times, AK!Null
\* No slot is granted, and no row has another time or count.
<1>a. ASSUME slots' = slots, backdated' = backdated,
             \A k \in kRow' : \E i \in kRow : k.last = i.last /\ k.count = i.count
      PROVE  KeysRate'
  BY <1>0, <1>a DEF KeysRate
<1>1. ASSUME NEW r \in Requests, KeySlots(r)
      PROVE  KeysRate'
  <2>1. CASE UNCHANGED <<kRow, slots, backdated>>
    BY <1>a, <2>1
  <2>2. CASE \E k \in kRow, n \in Nat :
          /\ \/ k.last = -1 /\ n = 1
             \/ k.last <= kCall[r].t - kDeploy.window /\ n = 1
             \/ k.last > kCall[r].t - kDeploy.window /\ k.count < kDeploy.max /\ n = k.count + 1
          /\ kRow' = {[k EXCEPT !.last = kCall[r].t, !.count = n]}
          /\ slots' = [slots EXCEPT ![kCall[r].t] = @ + 1]
          /\ backdated' = (backdated \/ kCall[r].t < k.last)
    <3> DEFINE t == kCall[r].t
    <3>1. PICK k \in kRow, n \in Nat :
          /\ \/ k.last = -1 /\ n = 1
             \/ k.last <= t - kDeploy.window /\ n = 1
             \/ k.last > t - kDeploy.window /\ k.count < kDeploy.max /\ n = k.count + 1
          /\ kRow' = {[k EXCEPT !.last = t, !.count = n]}
          /\ slots' = [slots EXCEPT ![t] = @ + 1]
          /\ backdated' = (backdated \/ t < k.last)
      BY <2>2
    <3>2. SUFFICES ASSUME kDeploy.max > 0, ~backdated'
                   PROVE  /\ \A s \in DOMAIN slots' : slots'[s] <= kDeploy.max
                          /\ \A j \in kRow', s \in DOMAIN slots' :
                               /\ s = j.last => slots'[s] <= j.count
                               /\ s > j.last => slots'[s] = 0
      BY <1>0 DEF KeysRate
    <3>3. t \in 0..kDeploy.maxTime
      BY <1>0, KeysDeployTyped DEF KeysBase, KeysTyped, KeyPath, AK!Call
    <3>4. /\ k.last <= t /\ ~backdated
          /\ \A s \in DOMAIN slots : slots[s] <= kDeploy.max
          /\ \A s \in DOMAIN slots :
               (s = k.last => slots[s] <= k.count) /\ (s > k.last => slots[s] = 0)
      <4>1. ~backdated /\ ~(t < k.last)
        BY <3>1, <3>2
      <4>2. t \in Int /\ k.last \in Int
        BY <1>0, <3>3
      <4>3. /\ \A s \in DOMAIN slots : slots[s] <= kDeploy.max
            /\ \A s \in DOMAIN slots :
                 (s = k.last => slots[s] <= k.count) /\ (s > k.last => slots[s] = 0)
        BY <3>2, <4>1 DEF KeysRate
      <4> HIDE DEF t
      <4> QED BY <4>1, <4>2, <4>3
    <3> HIDE DEF t
    <3>5. slots[t] + 1 <= n /\ n <= kDeploy.max
      BY <1>0, <3>1, <3>2, <3>3, <3>4
    <3>6. k \in AK!Key
      BY <1>0
    <3>7. \A j \in kRow' : j.last = t /\ j.count = n
      BY <3>1, <3>6 DEF AK!Key
    <3>8. DOMAIN slots' = 0..kDeploy.maxTime /\ slots'[t] = slots[t] + 1
          /\ \A s \in 0..kDeploy.maxTime : s # t => slots'[s] = slots[s]
      BY <1>0, <3>1, <3>3
    <3>9. ASSUME NEW s \in DOMAIN slots'
          PROVE  /\ slots'[s] <= kDeploy.max
                 /\ s = t => slots'[s] <= n
                 /\ s > t => slots'[s] = 0
      <4>1. s \in 0..kDeploy.maxTime /\ s \in DOMAIN slots
        BY <1>0, <3>8
      <4>2. CASE s = t
        BY <1>0, <3>3, <3>5, <3>8, <4>1, <4>2
      <4>3. CASE s # t
        BY <1>0, <3>3, <3>4, <3>8, <4>1, <4>3
      <4> QED BY <4>2, <4>3
    <3> QED BY <3>7, <3>9
  <2> QED BY <1>1, <2>1, <2>2 DEF KeySlots
<1>2. ASSUME NEW r \in Requests, KeyRefills(r) \/ KeyTakes(r)
      PROVE  KeysRate'
  <2>1. \A k \in kRow : k \in AK!Key
    BY <1>0
  <2>2. CASE kRow' = kRow
    BY <1>2, <1>a, <2>2 DEF KeyRefills, KeyTakes
  <2>3. CASE \E k \in kRow : KeyTaken(r, [k EXCEPT !.remaining = kDeploy.amount - 1,
                                                   !.refilled = kCall[r].t])
    <3>1. \A k \in kRow' : \E i \in kRow : k.last = i.last /\ k.count = i.count
      BY <2>1, <2>3 DEF KeyTaken, AK!Key
    <3> QED BY <1>2, <1>a, <3>1 DEF KeyRefills, KeyTakes
  <2>4. CASE \E k \in kRow : KeyTaken(r, [k EXCEPT !.remaining = @ - 1])
    <3>1. \A k \in kRow' : \E i \in kRow : k.last = i.last /\ k.count = i.count
      BY <2>1, <2>4 DEF KeyTaken, AK!Key
    <3> QED BY <1>2, <1>a, <3>1 DEF KeyRefills, KeyTakes
  <2> QED BY <1>2, <2>2, <2>3, <2>4 DEF KeyRefills, KeyTakes
<1>3. ASSUME NEW r \in Requests, KeyWrites(r)
      PROVE  KeysRate'
  <2>1. \A k \in kRow' : \E i \in kRow : k.last = i.last /\ k.count = i.count
    BY <1>0, <1>3, KeyChanges DEF KeyWrites
  <2> QED BY <1>3, <1>a, <2>1 DEF KeyWrites
<1>4. CASE slots' = slots /\ backdated' = backdated /\ (kRow' = kRow \/ kRow' = {})
  BY <1>4, <1>a
<1>5. ASSUME NEW r \in Requests, KeyStep(r)
      PROVE  KeysRate'
  BY <1>5, <1>1, <1>2, <1>3, <1>4
     DEF KeyStep, KeyLoads, KeyLoadsDb, KeyFills, KeyRereads, KeyStamps, KeyRecaches,
         KeyUncaches, KeyRemoves, KeyRows, KeyHistory
<1> QED BY <1>0, <1>4, <1>5, KeyNext DEF KeyStarts, KeyFails, KeyTicks, KeyRows, KeyHistory

-----------------------------------------------------------------------------
\* What a step of r does to the row, the cache and what r goes by.
KeyMoves(r) ==
  LET c == kCall[r]
      d == kCall'[r]
  IN
  /\ \A k \in kRow' : \E i \in kRow :
       (k.enabled => i.enabled) /\ (c.at = "write" /\ c.op = "disable" => ~k.enabled)
  /\ \/ kCache' \subseteq kCache
     \/ c.at \in {"fill", "recache"} /\ kCache' = {c.seen}
  /\ d.at \in KeyRead =>
       \/ c.at \in KeyRead /\ d.seen = c.seen
       \/ d.seen \in kRow'
       \/ kDeploy.cached /\ c.at = "load" /\ d.seen \in kCache
  /\ c.op = "verify" =>
       /\ d.at \in {"recache", "ok"} => c.at = "recache" \/ (c.at = "stamp" /\ kRow # {})
       /\ c.at = "load" /\ (\A k \in IF kDeploy.cached THEN kCache ELSE kRow : ~k.enabled) =>
            d.at = "rejected" \/ (kDeploy.cached /\ d.at = "loadDb")
       /\ c.at = "loadDb" => d.at \in {"rejected", "fill"}
       /\ c.at = "fill" /\ ~c.seen.enabled => d.at = "rejected"
  /\ c.op = "delete" /\ d.at = "ok" => kRow' = {}
  /\ c.op = "disable" /\ d.at \in {"recache", "ok"} =>
       \/ c.at = "recache" /\ kCache' = {c.seen} /\ d.at = "ok"
       \/ /\ c.at = "write"
          /\ d.at = "recache" => d.seen \in kRow'
          /\ d.at = "ok" /\ kDeploy.cached => kRow' = {}

LEMMA KeyMoving ==
  ASSUME KeysBase, NEW r \in Requests, KeyOthers(r), KeyStep(r), UNCHANGED <<kDeploy, kNow>>
  PROVE  KeyMoves(r)
<1> DEFINE c == kCall[r]
           d == kCall'[r]
<1>0. /\ KeysTyped /\ c \in AK!Call /\ kDeploy.cached \in BOOLEAN
      /\ c.op \in {"none", "verify", "disable", "topUp", "delete"}
      /\ c.at \in KeyPlaces(c.op) /\ (c.at \in KeyRead => c.seen \in AK!Key)
      /\ kRow \subseteq AK!Key /\ kCache \subseteq AK!Key
  BY KeysDeployTyped DEF KeysBase, KeysTyped, KeyPath, AtMostOneKey, AK!Call, AK!Operations
<1>v. /\ c.at \in {"refill", "take", "start", "reset", "increment", "reread", "stamp"} => c.op = "verify"
      /\ c.at = "recache" => c.op \in {"verify", "disable", "topUp"}
      /\ c.at = "write" => c.op \in {"disable", "topUp"}
      /\ c.at \in {"uncache", "remove"} => c.op \in {"verify", "delete"}
      /\ c.at \in {"load", "loadDb", "fill"} => c.op # "none"
  BY <1>0 DEF KeyPlaces, KeyVerifies, AK!Ended
<1>r. kRow' = kRow /\ c.at # "write" =>
        \A k \in kRow' : \E i \in kRow :
          (k.enabled => i.enabled) /\ (c.at = "write" /\ c.op = "disable" => ~k.enabled)
  OBVIOUS
<1>l. ASSUME NEW k \in AK!Key, d.at = AK!AfterLoad(r, k), c.op # "none"
      PROVE  d.at \notin {"recache", "ok"} /\ (c.op = "verify" /\ ~k.enabled => d.at = "rejected")
  BY <1>l, <1>0, KeyAfter
<1>1. CASE KeyLoads(r)
  <2>1. CASE KeyGoes(r, "loadDb") /\ kDeploy.cached
    BY <1>0, <1>1, <1>r, <2>1 DEF KeyLoads, KeyGoes, KeyTo, KeyRows, KeyMoves, KeyRead, AK!Steps
  <2>2. CASE KeyGoes(r, "rejected")
    BY <1>0, <1>1, <1>r, <2>2 DEF KeyLoads, KeyGoes, KeyTo, KeyRows, KeyMoves, KeyRead, AK!Steps
  <2>3. ASSUME NEW k \in IF kDeploy.cached THEN kCache ELSE kRow,
               KeyTo(r, AK!AfterLoad(r, k), k, kNow)
        PROVE  KeyMoves(r)
    <3>1. /\ d.at \notin {"recache", "ok"} /\ (c.op = "verify" /\ ~k.enabled => d.at = "rejected")
          /\ d.seen = k
      BY <1>0, <1>1, <1>v, <1>l, <2>3 DEF KeyLoads, KeyTo
    <3>2. d.seen \in kRow' \/ (kDeploy.cached /\ c.at = "load" /\ d.seen \in kCache)
      <4>1. CASE kDeploy.cached
        BY <1>1, <2>3, <3>1, <4>1 DEF KeyLoads
      <4>2. CASE ~kDeploy.cached
        BY <1>1, <2>3, <3>1, <4>2 DEF KeyLoads, KeyRows
      <4> QED BY <4>1, <4>2
    <3> QED BY <1>0, <1>1, <1>r, <2>3, <3>1, <3>2 DEF KeyLoads, KeyRows, KeyMoves
  <2> QED BY <1>1, <2>1, <2>2, <2>3 DEF KeyLoads
<1>2. CASE KeyLoadsDb(r)
  <2>1. CASE KeyGoes(r, "rejected")
    BY <1>0, <1>2, <1>r, <2>1 DEF KeyLoadsDb, KeyGoes, KeyTo, KeyRows, KeyMoves, KeyRead, AK!Steps
  <2>2. CASE \E k \in kRow : KeyTo(r, "fill", k, kNow)
    BY <1>0, <1>2, <1>r, <2>2 DEF KeyLoadsDb, KeyTo, KeyRows, KeyMoves, KeyRead, AK!Steps
  <2> QED BY <1>2, <2>1, <2>2 DEF KeyLoadsDb
<1>3. CASE KeyFills(r)
  <2>1. c.seen \in AK!Key /\ c.at \in KeyRead
    BY <1>0, <1>3 DEF KeyFills, KeyRead, AK!Steps
  <2>2. d.at \notin {"recache", "ok"} /\ (c.op = "verify" /\ ~c.seen.enabled => d.at = "rejected")
        /\ d.seen = c.seen
    BY <1>0, <1>3, <1>v, <1>l, <2>1 DEF KeyFills, KeyTo
  <2> QED BY <1>0, <1>3, <1>r, <2>1, <2>2 DEF KeyFills, KeyMoves
\* A verification at the quota or the limit.
<1>a. ASSUME kCache' = kCache, c.op = "verify", d.at \notin {"recache", "ok"},
             c.at \in {"refill", "take", "start", "reset", "increment", "reread"},
             \A k \in kRow' : \E i \in kRow : k.enabled = i.enabled,
             d.seen = c.seen \/ d.seen \in kRow'
      PROVE  KeyMoves(r)
  BY <1>a DEF KeyMoves, KeyRead, AK!Steps
<1>4. ASSUME KeyRefills(r) \/ KeyTakes(r)
      PROVE  KeyMoves(r)
  <2>0. c.op = "verify" /\ c.at \in {"refill", "take"} /\ kCache' = kCache
    BY <1>4, <1>v DEF KeyRefills, KeyTakes
  <2>1. CASE kRow' = kRow /\ \E pc \in {"take", "exceeded"} : KeyGoes(r, pc)
    BY <1>a, <2>0, <2>1 DEF KeyGoes, KeyTo
  <2>2. ASSUME NEW k \in kRow, NEW j, j.enabled = k.enabled, KeyTaken(r, j)
        PROVE  KeyMoves(r)
    <3>1. kRow' = {j} /\ d.seen = j /\ d.at \notin {"recache", "ok"}
      BY <2>2, KeyDecides DEF KeyTaken, KeyTo
    <3> QED BY <1>a, <2>0, <2>2, <3>1
  <2>3. \A k \in kRow : /\ [k EXCEPT !.remaining = @ - 1].enabled = k.enabled
                        /\ [k EXCEPT !.remaining = kDeploy.amount - 1,
                                     !.refilled = kCall[r].t].enabled = k.enabled
    BY <1>0 DEF AK!Key
  <2>4. CASE KeyRefills(r)
    BY <2>1, <2>2, <2>3, <2>4 DEF KeyRefills
  <2>5. CASE KeyTakes(r)
    BY <2>1, <2>2, <2>3, <2>5 DEF KeyTakes
  <2> QED BY <1>4, <2>4, <2>5
<1>6. CASE KeySlots(r)
  <2>0. /\ c.op = "verify" /\ c.at \in {"start", "reset", "increment"} /\ kCache' = kCache
        /\ d.seen = c.seen /\ d.at \notin {"recache", "ok"}
    BY <1>6, <1>v DEF KeySlots, KeyGoes, KeyTo
  <2>1. \A k \in kRow, n \in Nat : [k EXCEPT !.last = kCall[r].t, !.count = n].enabled = k.enabled
    BY <1>0 DEF AK!Key
  <2>2. \A k \in kRow' : \E i \in kRow : k.enabled = i.enabled
    <3>1. CASE kRow' = kRow
      BY <3>1
    <3>2. CASE \E k \in kRow, n \in Nat : kRow' = {[k EXCEPT !.last = kCall[r].t, !.count = n]}
      <4>1. PICK k \in kRow, n \in Nat : kRow' = {[k EXCEPT !.last = kCall[r].t, !.count = n]}
        BY <3>2
      <4>2. \A j \in kRow' : j = [k EXCEPT !.last = kCall[r].t, !.count = n]
        BY <4>1
      <4>3. [k EXCEPT !.last = kCall[r].t, !.count = n].enabled = k.enabled
        BY <2>1
      <4> QED BY <4>2, <4>3
    <3> QED BY <1>6, <3>1, <3>2 DEF KeySlots
  <2> QED BY <1>a, <2>0, <2>2
<1>9. CASE KeyRereads(r)
  <2>1. c.op = "verify" /\ c.at = "reread" /\ kCache' = kCache /\ kRow' = kRow
    BY <1>9, <1>v DEF KeyRereads, KeyRows
  <2>2. d.at \notin {"recache", "ok"} /\ (d.seen = c.seen \/ d.seen \in kRow')
    BY <1>9, <2>1, KeyDecides DEF KeyRereads, KeyGoes, KeyTo
  <2> QED BY <1>a, <2>1, <2>2
<1>10. CASE KeyStamps(r)
  <2>1. c.op = "verify" /\ c.at = "stamp" /\ kCache' = kCache /\ kRow' = kRow
    BY <1>10, <1>v DEF KeyStamps, KeyRows
  <2>2. d.at = "rejected" \/ (kRow # {} /\ d.seen \in kRow')
    BY <1>10, <2>1 DEF KeyStamps, KeyGoes, KeyTo
  <2> QED BY <1>r, <2>1, <2>2 DEF KeyMoves, KeyRead, AK!Steps
<1>11. CASE KeyRecaches(r)
  <2>1. /\ c.op \in {"verify", "disable", "topUp"} /\ c.at = "recache" /\ kCache' = {c.seen}
        /\ kRow' = kRow /\ d.at = "ok"
    BY <1>11, <1>v DEF KeyRecaches, KeyGoes, KeyTo
  <2>2. \A k \in kRow' : \E i \in kRow :
          (k.enabled => i.enabled) /\ (c.at = "write" /\ c.op = "disable" => ~k.enabled)
    BY <1>r, <2>1
  <2>3. d.at \notin KeyRead
    BY <2>1 DEF KeyRead, AK!Steps
  <2> HIDE DEF c, d
  <2> QED BY <2>1, <2>2, <2>3 DEF KeyMoves, c, d
<1>12. CASE KeyWrites(r)
  <2>1. /\ c.op \in {"disable", "topUp"} /\ c.at = "write" /\ kCache' = kCache
        /\ kRow' = {AK!Changed(r, k) : k \in kRow}
    BY <1>12, <1>v DEF KeyWrites
  <2>2. \A k \in kRow' : \E i \in kRow :
          (k.enabled => i.enabled) /\ (c.at = "write" /\ c.op = "disable" => ~k.enabled)
    <3>1. \A k \in kRow : LET j == AK!Changed(r, k) IN
            (j.enabled => k.enabled) /\ (c.op = "disable" => ~j.enabled)
      BY <1>0, KeyChanges
    <3> QED BY <2>1, <3>1
  <2>3. CASE kRow = {} /\ KeyGoes(r, "ok")
    BY <2>1, <2>2, <2>3 DEF KeyGoes, KeyTo, KeyMoves, KeyRead, AK!Steps
  <2>4. CASE \E k \in kRow :
          KeyTo(r, IF kDeploy.cached THEN "recache" ELSE "ok", AK!Changed(r, k), kCall[r].t)
    <3>1. d.seen \in kRow' /\ d.at \in {"recache", "ok"} /\ (kDeploy.cached => d.at = "recache")
      BY <1>0, <2>1, <2>4 DEF KeyTo
    <3> QED BY <2>1, <2>2, <3>1 DEF KeyMoves
  <2> QED BY <1>12, <2>3, <2>4 DEF KeyWrites
<1>13. CASE KeyUncaches(r)
  <2>1. /\ c.op \in {"verify", "delete"} /\ c.at = "uncache" /\ kCache' = {}
        /\ kRow' = kRow /\ d.at = "remove" /\ d.seen = c.seen
    BY <1>13, <1>v DEF KeyUncaches, KeyGoes, KeyTo
  <2> QED BY <1>r, <2>1 DEF KeyMoves, KeyRead, AK!Steps
<1>14. CASE KeyRemoves(r)
  <2>1. /\ c.op \in {"verify", "delete"} /\ c.at = "remove" /\ kCache' = kCache
        /\ kRow' = {} /\ d.at \in {"exceeded", "ok"} /\ (c.op = "verify" => d.at = "exceeded")
    BY <1>14, <1>v DEF KeyRemoves, KeyGoes, KeyTo
  <2> QED BY <2>1 DEF KeyMoves, KeyRead, AK!Steps
<1> QED BY <1>1, <1>2, <1>3, <1>4, <1>6, <1>9, <1>10, <1>11, <1>12, <1>13, <1>14 DEF KeyStep

LEMMA KeysWrittenKept ==
  ASSUME KeysBase, KeysBase', KeysWritten, [AK!Next]_AK!vars
  PROVE  KeysWritten'
<1>0. /\ KeysTyped /\ kDeploy' = kDeploy /\ kDeploy.cached \in BOOLEAN
      /\ kCall \in [Requests -> AK!Call] /\ kCall' \in [Requests -> AK!Call]
      /\ \A q \in Requests : /\ KeyPath(q) /\ KeyAlone(q) /\ kCall[q].late \subseteq Requests
                             /\ kCall'[q].late \subseteq Requests
      /\ KeyGone /\ KeyDisabled /\ KeyCopies /\ \A r \in Requests : KeyRefused(r)
  BY KeyNext, KeysDeployTyped DEF KeysBase, KeysTyped, KeysWritten, AK!Call
<1>1. ASSUME NEW r \in Requests, KeyOthers(r), KeyStep(r), kNow' = kNow
      PROVE  KeysWritten'
  <2> DEFINE c == kCall[r]
             d == kCall'[r]
  <2>1. /\ KeyMoves(r) /\ c.at \in AK!Steps
        /\ \A q \in Requests : q # r => kCall'[q] = kCall[q]
        /\ d.op = c.op /\ d.late = c.late /\ d.beside = c.beside
    BY <1>0, <1>1, KeyMoving, KeyStepTyped DEF KeyOthers
  <2>2. kRow = {} => kRow' = {}
    BY <2>1 DEF KeyMoves
  <2>3. KeyGone'
    BY <1>0, <2>1, <2>2 DEF KeyGone, KeyMoves
  <2>4. ASSUME NEW q \in Requests, KeyWritten(q)'
        PROVE  /\ \A k \in kRow' : ~k.enabled
               /\ kCall'[q].at = "recache" => ~kCall'[q].seen.enabled
    <3>1. CASE KeyWritten(q)
      <4>1. \A k \in kRow' : ~k.enabled
        BY <1>0, <2>1, <3>1 DEF KeyDisabled, KeyMoves
      <4>2. q = r => d.at = "ok"
        BY <2>1, <2>4, <3>1 DEF KeyWritten, KeyMoves, AK!Steps
      <4> QED BY <1>0, <2>1, <3>1, <4>1, <4>2 DEF KeyDisabled
    <3>2. CASE ~KeyWritten(q)
      <4>1. q = r /\ c.at = "write" /\ c.op = "disable" /\ (d.at = "recache" => d.seen \in kRow')
        BY <2>1, <2>4, <3>2 DEF KeyWritten, KeyMoves
      <4> QED BY <2>1, <4>1 DEF KeyMoves
    <3> QED BY <3>1, <3>2
  <2>5. KeyDisabled'
    BY <2>4 DEF KeyDisabled
  <2>6. ASSUME NEW q \in Requests, kCall'[q].op = "disable", kCall'[q].at = "ok",
               ~kCall'[q].beside, kDeploy.cached, kRow' # {}
        PROVE  /\ \A k \in kCache' : ~k.enabled
               /\ \A p \in Requests : (AK!InFlight(p))' =>
                    /\ KeyStale(p)'
                    /\ kCall'[p].op = "verify" => kCall'[p].at \in {"load", "loadDb", "fill"}
    <3>0. \A k \in kRow' : ~k.enabled
      BY <2>4, <2>6 DEF KeyWritten
    <3>1. CASE q = r
      <4>1. c.at = "recache" /\ kCache' = {c.seen}
        BY <2>1, <2>6, <3>1 DEF KeyMoves
      <4>2. ~c.seen.enabled
        BY <1>0, <2>1, <2>6, <3>1, <4>1 DEF KeyDisabled, KeyWritten
      <4>3. \A p \in Requests : p # r => ~(AK!InFlight(p))'
        BY <1>0, <2>1, <2>6, <3>1 DEF KeyAlone, AK!InFlight
      <4>4. ~(AK!InFlight(r))'
        BY <2>6, <3>1 DEF AK!InFlight, AK!Steps
      <4> QED BY <4>1, <4>2, <4>3, <4>4
    <3>2. CASE q # r
      <4>1. kCall[q] = kCall'[q] /\ kRow # {}
        BY <2>1, <2>2, <2>6, <3>2
      <4>2. /\ \A k \in kCache : ~k.enabled
            /\ \A p \in Requests : AK!InFlight(p) =>
                 /\ KeyStale(p)
                 /\ kCall[p].op = "verify" => kCall[p].at \in {"load", "loadDb", "fill"}
        BY <1>0, <2>6, <4>1 DEF KeyCopies
      <4>3. (c.at \in KeyRead => ~c.seen.enabled) /\ (c.op = "verify" => c.at \in {"load", "loadDb", "fill"})
        BY <2>1, <4>2 DEF KeyStale, AK!InFlight
      <4>4. \A k \in kCache' : ~k.enabled
        BY <2>1, <4>2, <4>3 DEF KeyMoves, KeyRead, AK!Steps
      <4>5. d.at \in KeyRead => ~d.seen.enabled
        BY <2>1, <3>0, <4>2, <4>3 DEF KeyMoves
      <4>6. c.op = "verify" => d.at \in {"load", "loadDb", "fill", "rejected"}
        BY <2>1, <2>6, <4>2, <4>3 DEF KeyMoves, KeyRead, AK!Steps
      <4>7. \A p \in Requests : (AK!InFlight(p))' =>
              /\ KeyStale(p)'
              /\ kCall'[p].op = "verify" => kCall'[p].at \in {"load", "loadDb", "fill"}
        BY <2>1, <4>2, <4>5, <4>6 DEF KeyStale, AK!InFlight, AK!Steps
      <4> QED BY <4>4, <4>7
    <3> QED BY <3>1, <3>2
  <2>7. KeyCopies'
    BY <1>0, <2>6 DEF KeyCopies
  <2>8. ASSUME NEW p \in Requests, NEW q \in kCall'[p].late, kCall'[p].op = "verify"
        PROVE  /\ kCall'[q].op = "delete" => kCall'[p].at \notin {"recache", "ok"}
               /\ kCall'[q].op = "disable" /\ ~kDeploy.cached =>
                    kCall'[p].at \in {"load", "rejected", "failed"}
               /\ kCall'[q].op = "disable" /\ ~kCall'[q].beside => kCall'[p].at \notin {"recache", "ok"}
    <3>0. q \in Requests /\ q \in kCall[p].late /\ kCall[p].op = "verify"
      BY <1>0, <2>1, <2>8
    <3>1. kCall[q].at = "ok" /\ q # r /\ kCall'[q] = kCall[q]
      BY <1>0, <2>1, <3>0 DEF KeyAlone, AK!Steps
    <3>2. KeyRefused(p)
      BY <1>0
    <3>3. CASE p # r
      BY <2>1, <3>0, <3>1, <3>2, <3>3 DEF KeyRefused
    <3>4. CASE p = r
      <4>0. c.op = "verify" /\ q \in c.late
        BY <3>0, <3>4
      <4>1. ASSUME kCall[q].op = "delete"
            PROVE  d.at \notin {"recache", "ok"}
        BY <1>0, <2>1, <3>0, <3>1, <3>2, <3>4, <4>0, <4>1 DEF KeyGone, KeyRefused, KeyMoves
      <4>2. ASSUME kCall[q].op = "disable", ~kDeploy.cached
            PROVE  d.at \in {"load", "rejected", "failed"}
        <5>1. c.at = "load"
          BY <2>1, <3>0, <3>2, <3>4, <4>0, <4>2 DEF KeyRefused, AK!Steps
        <5>2. \A k \in kRow : ~k.enabled
          BY <1>0, <3>0, <3>1, <4>2 DEF KeyDisabled, KeyWritten
        <5> QED BY <2>1, <4>0, <4>2, <5>1, <5>2 DEF KeyMoves
      <4>3. ASSUME kCall[q].op = "disable", ~kCall[q].beside
            PROVE  d.at \notin {"recache", "ok"}
        <5>1. CASE ~kDeploy.cached
          BY <4>2, <4>3, <5>1
        <5>2. CASE kDeploy.cached /\ kRow # {}
          <6>1. c.at \in {"load", "loadDb", "fill"}
            BY <1>0, <2>1, <3>0, <3>1, <4>0, <4>3, <5>2 DEF KeyCopies, AK!InFlight
          <6> QED BY <2>1, <4>0, <6>1 DEF KeyMoves
        <5>3. CASE kRow = {}
          BY <2>1, <3>0, <3>2, <3>4, <4>0, <4>3, <5>3 DEF KeyRefused, KeyMoves
        <5> QED BY <1>0, <5>1, <5>2, <5>3
      <4> QED BY <3>1, <3>4, <4>1, <4>2, <4>3
    <3> QED BY <3>3, <3>4
  <2>9. \A p \in Requests : KeyRefused(p)'
    BY <1>0, <2>8 DEF KeyRefused
  <2> QED BY <2>3, <2>5, <2>7, <2>9 DEF KeysWritten
\* Nothing is read or written, and requests only begin or fail.
<1>a. ASSUME KeyRows,
             \A q \in Requests :
               /\ kCall'[q].at \in {kCall[q].at, "load", "failed"}
               /\ kCall'[q].at = kCall[q].at => kCall'[q].seen = kCall[q].seen /\ kCall'[q].op = kCall[q].op
               /\ kCall[q].at # "idle" => kCall'[q].op = kCall[q].op /\ kCall'[q].late = kCall[q].late
               /\ (kCall'[q].at = "load" => kCall[q].at \in {"idle", "load"})
               /\ kCall[q].at = "ok" => kCall'[q].at = "ok"
               /\ kCall[q].beside /\ kCall[q].at # "idle" => kCall'[q].beside,
             \A q \in Requests : kCall[q].at = "idle" =>
               /\ kCall'[q].at \in {"idle", "load"}
               /\ kCall'[q].at = "idle" => kCall'[q].late = kCall[q].late
      PROVE  KeysWritten'
  <2>1. /\ kRow' = kRow /\ kCache' = kCache
        /\ \A q \in Requests : kCall'[q].at = "ok" \/ KeyWritten(q)' =>
             kCall[q].at = kCall'[q].at /\ kCall'[q].op = kCall[q].op /\ kCall'[q].seen = kCall[q].seen
             /\ (~kCall'[q].beside => ~kCall[q].beside)
    BY <1>a DEF KeyRows, KeyWritten
  <2>2. KeyGone' /\ KeyDisabled'
    BY <1>0, <2>1 DEF KeyGone, KeyDisabled, KeyWritten
  <2>3. \A p \in Requests : (AK!InFlight(p))' =>
          kCall'[p].at = "load"
          \/ (AK!InFlight(p) /\ kCall'[p].at = kCall[p].at /\ kCall'[p].op = kCall[p].op
              /\ kCall'[p].seen = kCall[p].seen)
    BY <1>a DEF AK!InFlight, AK!Steps
  <2>4. KeyCopies'
    BY <1>0, <2>1, <2>3 DEF KeyCopies, KeyStale, KeyRead
  <2>5. ASSUME NEW p \in Requests
        PROVE  KeyRefused(p)'
    <3>1. CASE kCall'[p].at \in {"load", "failed", "idle"}
      <4>1. kCall'[p].op = "verify" => kCall'[p].at # "idle"
        BY <2>5 DEF KeysBase, KeyPath, KeyPlaces, KeyVerifies, AK!Ended
      <4> QED BY <1>0, <3>1, <4>1 DEF KeyRefused
    <3>2. CASE kCall'[p].at = kCall[p].at /\ kCall[p].at # "idle"
      <4>1. \A q \in kCall[p].late : kCall[q].at = "ok" /\ q \in Requests
        BY <1>0 DEF KeyAlone
      <4>2. \A q \in kCall[p].late : kCall'[q].op = kCall[q].op /\ (~kCall'[q].beside => ~kCall[q].beside)
        BY <1>a, <4>1
      <4> QED BY <1>0, <1>a, <3>2, <4>1, <4>2 DEF KeyRefused
    <3> QED BY <1>a, <3>1, <3>2
  <2> QED BY <2>2, <2>4, <2>5 DEF KeysWritten
<1>2. ASSUME NEW r \in Requests, NEW op \in AK!Operations, KeyStarts(r, op)
      PROVE  KeysWritten'
  BY <1>2, <1>a DEF KeyStarts, KeyTo
<1>3. ASSUME NEW r \in Requests, KeyFails(r)
      PROVE  KeysWritten'
  BY <1>3, <1>a DEF KeyFails, KeyOthers, KeyGoes, KeyTo, AK!InFlight, AK!Steps
<1>4. CASE KeyTicks
  BY <1>4, <1>a DEF KeyTicks
<1> QED BY <1>0, <1>1, <1>2, <1>3, <1>4, KeyNext

-----------------------------------------------------------------------------
\* What a step of r does to the quota that is left, where nothing refills it.
KeyRemains(r) ==
  LET c == kCall[r]
      d == kCall'[r]
  IN
  /\ \A k \in kRow' : \E i \in kRow :
       k.remaining <= i.remaining \/ (c.at = "write" /\ c.op = "topUp")
  /\ c.at = "recache" => kCache' = {c.seen}
  /\ wasted' => wasted \/ (c.at = "remove" /\ c.op = "verify" /\ \E k \in kRow : k.remaining > 0)
  /\ c.at = "write" =>
       /\ d.at \in {"recache", "ok"} /\ (kDeploy.cached => kRow' = {} \/ d.at = "recache")
       /\ d.at = "recache" => d.seen \in kRow'
       /\ kCache' = kCache

LEMMA KeyRemaining ==
  ASSUME KeysBase, NEW r \in Requests, KeyStep(r), kDeploy' = kDeploy, kDeploy.amount = 0
  PROVE  KeyRemains(r)
<1> DEFINE c == kCall[r]
           d == kCall'[r]
<1>0. /\ KeysTyped /\ KeyPath(r) /\ kDeploy.cached \in BOOLEAN
      /\ \A k \in kRow : k \in AK!Key /\ k.remaining \in Int
  BY KeysDeployTyped DEF KeysBase, KeysTyped, AtMostOneKey, AK!Key
<1>1. CASE kRow' \subseteq kRow /\ wasted' = wasted /\ c.at \notin {"recache", "write"}
  BY <1>0, <1>1 DEF KeyRemains
<1>2. CASE KeyRefills(r)
  <2>1. c.at = "refill" /\ AK!Due(c.seen, c.t)
    BY <1>0, <1>2 DEF KeyRefills, KeyPath
  <2> QED BY <2>1 DEF AK!Due
<1>3. CASE KeyTakes(r)
  <2>1. CASE kRow' = kRow
    BY <1>1, <1>3, <2>1 DEF KeyTakes
  <2>2. CASE \E k \in kRow : kRow' = {[k EXCEPT !.remaining = @ - 1]}
    <3>1. \A k \in kRow : [k EXCEPT !.remaining = @ - 1].remaining = k.remaining - 1
      BY <1>0 DEF AK!Key
    <3>2. \A k \in kRow' : \E i \in kRow : k.remaining <= i.remaining
      <4>1. PICK i \in kRow : kRow' = {[i EXCEPT !.remaining = @ - 1]}
        BY <2>2
      <4>2. \A k \in kRow' : k.remaining = i.remaining - 1
        BY <3>1, <4>1
      <4> QED BY <1>0, <4>2
    <3> QED BY <1>3, <3>2 DEF KeyTakes, KeyRemains
  <2> QED BY <1>3, <2>1, <2>2 DEF KeyTakes, KeyTaken
<1>4. CASE KeySlots(r)
  <2>1. CASE kRow' = kRow
    BY <1>1, <1>4, <2>1 DEF KeySlots
  <2>2. CASE \E k \in kRow, n \in Nat : kRow' = {[k EXCEPT !.last = kCall[r].t, !.count = n]}
    <3>1. \A k \in kRow, n \in Nat :
            [k EXCEPT !.last = kCall[r].t, !.count = n].remaining = k.remaining
      BY <1>0 DEF AK!Key
    <3>2. \A k \in kRow' : \E i \in kRow : k.remaining <= i.remaining
      <4>1. PICK i \in kRow, n \in Nat : kRow' = {[i EXCEPT !.last = kCall[r].t, !.count = n]}
        BY <2>2
      <4>2. \A k \in kRow' : k.remaining = i.remaining
        BY <3>1, <4>1
      <4> QED BY <1>0, <4>2
    <3> QED BY <1>4, <3>2 DEF KeySlots, KeyRemains
  <2> QED BY <1>4, <2>1, <2>2 DEF KeySlots
<1>5. CASE KeyWrites(r)
  <2>1. \A k \in kRow : AK!Changed(r, k).remaining
                          = IF c.op = "disable" THEN k.remaining ELSE kDeploy.quota
    BY <1>0, KeyChanges
  <2>2. c.op \in {"disable", "topUp"} /\ c.at = "write"
    BY <1>0, <1>5 DEF KeyWrites, KeyPath, KeyPlaces, KeyVerifies, AK!Ended, AK!Call, AK!Operations,
                      KeysTyped
  <2>3. \A k \in kRow' : \E i \in kRow :
          k.remaining <= i.remaining \/ (c.at = "write" /\ c.op = "topUp")
    BY <1>0, <1>5, <2>1, <2>2 DEF KeyWrites
  <2>4. CASE kRow = {} /\ KeyGoes(r, "ok")
    BY <1>5, <2>2, <2>3, <2>4 DEF KeyWrites, KeyGoes, KeyTo, KeyRemains
  <2>5. CASE \E k \in kRow :
          KeyTo(r, IF kDeploy.cached THEN "recache" ELSE "ok", AK!Changed(r, k), kCall[r].t)
    <3>1. d.seen \in kRow' /\ d.at \in {"recache", "ok"} /\ (kDeploy.cached => d.at = "recache")
      BY <1>0, <1>5, <2>5 DEF KeyWrites, KeyTo
    <3> QED BY <1>5, <2>2, <2>3, <3>1 DEF KeyWrites, KeyRemains
  <2> QED BY <1>5, <2>4, <2>5 DEF KeyWrites
<1>6. CASE KeyRecaches(r)
  BY <1>0, <1>6 DEF KeyRecaches, KeyHistory, KeyRemains
<1>7. CASE KeyRemoves(r)
  BY <1>7 DEF KeyRemoves, KeyRemains
<1> QED BY <1>1, <1>2, <1>3, <1>4, <1>5, <1>6, <1>7
        DEF KeyStep, KeyLoads, KeyLoadsDb, KeyFills, KeyRereads, KeyStamps, KeyUncaches, KeyRows,
            KeyHistory

LEMMA KeysToppedKept ==
  ASSUME KeysBase, KeysBase', KeysTopped, [AK!Next]_AK!vars
  PROVE  KeysTopped'
<1>0. /\ KeysTyped /\ kDeploy' = kDeploy /\ kDeploy.cached \in BOOLEAN
      /\ kCall \in [Requests -> AK!Call]
      /\ \A q \in Requests : KeyPath(q) /\ KeyAlone(q)
      /\ \A k \in kRow : k.remaining \in Int
      /\ \A k \in kRow' : k.remaining \in Int
      /\ \A j, k \in kRow' : j = k
      /\ \A k \in kCache : k.remaining \in Int
      /\ \A q \in Requests : kCall[q].at \in KeyRead => kCall[q].seen.remaining \in Int
  BY KeyNext, KeysDeployTyped DEF KeysBase, KeysTyped, AtMostOneKey, AK!Key, KeyPath
<1>1. ASSUME NEW r \in Requests, KeyOthers(r), KeyStep(r), kNow' = kNow
      PROVE  KeysTopped'
  <2> DEFINE c == kCall[r]
             d == kCall'[r]
  <2>1. /\ KeyMoves(r) /\ c.at \in AK!Steps
        /\ \A q \in Requests : q # r => kCall'[q] = kCall[q]
        /\ d.op = c.op /\ d.late = c.late /\ d.beside = c.beside
    BY <1>0, <1>1, KeyMoving, KeyStepTyped DEF KeyOthers
  <2>2. ~kDeploy.cached => kCache' = {}
    BY <1>0, <2>1 DEF KeysTopped, KeyMoves, KeyPath
  <2>3. ASSUME KeyToppedUp'
        PROVE  /\ ~wasted'
               /\ kDeploy.amount = 0 =>
                    /\ \A k \in kRow', q \in Requests :
                         kCall'[q].at \in KeyRead => kCall'[q].seen.remaining >= k.remaining
                    /\ (\A q \in Requests : kCall'[q].op = "topUp" => kCall'[q].at # "recache") =>
                         \A k \in kRow', i \in kCache' : i.remaining >= k.remaining
    <3>1. KeyToppedUp
      BY <2>1, <2>3 DEF KeyToppedUp, AK!Steps
    <3>2. CASE kDeploy.amount # 0
      <4>1. ~(c.at = "remove" /\ c.op = "verify")
        BY <1>0, <3>2 DEF KeyPath
      <4>2. wasted' => wasted
        BY <1>1, <4>1
           DEF KeyStep, KeyLoads, KeyLoadsDb, KeyFills, KeyRefills, KeyTakes, KeySlots, KeyRereads,
               KeyStamps, KeyRecaches, KeyWrites, KeyUncaches, KeyRemoves, KeyHistory
      <4> QED BY <3>1, <3>2, <4>2 DEF KeysTopped
    <3>3. CASE kDeploy.amount = 0
      <4>1. KeyRemains(r)
        BY <1>0, <1>1, <3>3, KeyRemaining
      <4>2. /\ ~wasted
            /\ \A k \in kRow, q \in Requests :
                 kCall[q].at \in KeyRead => kCall[q].seen.remaining >= k.remaining
            /\ (\A q \in Requests : kCall[q].op = "topUp" => kCall[q].at # "recache") =>
                 \A k \in kRow, i \in kCache : i.remaining >= k.remaining
        BY <3>1, <3>3 DEF KeysTopped
      <4>3. ~wasted'
        BY <1>0, <4>1, <4>2 DEF KeyRemains, KeyPath, KeyRead, AK!Steps
      \* A top-up is alone.
      <4>4. ASSUME NEW q \in Requests, kCall[q].op = "topUp", kCall[q].at \in AK!Steps
            PROVE  q = r
        BY <1>0, <2>1, <3>1, <4>4 DEF KeyToppedUp, KeyAlone, AK!InFlight
      <4>5. CASE c.at = "write" /\ c.op = "topUp"
        <5>1. \A q \in Requests : q # r => kCall'[q].at \notin AK!Steps
          BY <1>0, <2>1, <3>1, <4>5 DEF KeyToppedUp, KeyAlone, AK!InFlight
        <5>2. \A k \in kRow' : d.at \in KeyRead => d.seen.remaining >= k.remaining
          BY <1>0, <4>1, <4>5 DEF KeyRemains, KeyRead, AK!Steps
        <5>3. d.at # "recache" => \A k \in kRow', i \in kCache' : i.remaining >= k.remaining
          BY <1>0, <2>2, <4>1, <4>5 DEF KeyRemains
        <5>4. \A k \in kRow', q \in Requests :
                kCall'[q].at \in KeyRead => kCall'[q].seen.remaining >= k.remaining
          BY <5>1, <5>2 DEF KeyRead
        <5> QED BY <2>1, <4>3, <4>5, <5>3, <5>4
      <4>6. CASE ~(c.at = "write" /\ c.op = "topUp")
        <5>1. \A k \in kRow' : \E i \in kRow : k.remaining <= i.remaining
          BY <4>1, <4>6 DEF KeyRemains
        <5>2. c.at \in {"load"} =>
                \A q \in Requests : kCall[q].op = "topUp" => kCall[q].at # "recache"
          BY <4>4 DEF AK!Steps
        <5>3. ASSUME NEW k \in kRow', d.at \in KeyRead
              PROVE  d.seen.remaining >= k.remaining
          <6>1. PICK i \in kRow : k.remaining <= i.remaining
            BY <5>1
          <6>2. CASE c.at \in KeyRead /\ d.seen = c.seen
            <7>1. c.seen.remaining >= i.remaining
              BY <4>2, <6>2
            <7> QED BY <1>0, <6>1, <6>2, <7>1
          <6>3. CASE d.seen \in kRow'
            BY <1>0, <6>3
          <6>4. CASE c.at = "load" /\ d.seen \in kCache
            <7>1. d.seen.remaining >= i.remaining
              BY <4>2, <5>2, <6>4
            <7> QED BY <1>0, <6>1, <6>4, <7>1
          <6> QED BY <2>1, <5>3, <6>2, <6>3, <6>4 DEF KeyMoves
        <5>4. ASSUME NEW k \in kRow', NEW q \in Requests, kCall'[q].at \in KeyRead
              PROVE  kCall'[q].seen.remaining >= k.remaining
          <6>1. PICK i \in kRow : k.remaining <= i.remaining
            BY <5>1
          <6>2. CASE q = r
            BY <5>3, <5>4, <6>2
          <6>3. CASE q # r
            <7>1. kCall'[q] = kCall[q] /\ kCall[q].seen.remaining >= i.remaining
                  /\ kCall[q].seen.remaining \in Int
              BY <1>0, <2>1, <4>2, <5>4, <6>3
            <7> QED BY <1>0, <6>1, <7>1
          <6> QED BY <6>2, <6>3
        <5>5. ASSUME \A q \in Requests : kCall'[q].op = "topUp" => kCall'[q].at # "recache",
                     NEW k \in kRow', NEW j \in kCache'
              PROVE  j.remaining >= k.remaining
          <6>1. PICK i \in kRow : k.remaining <= i.remaining
            BY <5>1
          <6>2. CASE c.at \in {"fill", "recache"} /\ kCache' = {c.seen}
            <7>1. c.at \in KeyRead
              BY <6>2 DEF KeyRead, AK!Steps
            <7>2. c.seen.remaining >= i.remaining /\ c.seen.remaining \in Int
              BY <1>0, <4>2, <7>1
            <7> QED BY <1>0, <6>1, <6>2, <7>2
          <6>3. CASE kCache' \subseteq kCache /\ c.at # "recache"
            <7>1. \A q \in Requests : kCall[q].op = "topUp" => kCall[q].at # "recache"
              BY <2>1, <5>5, <6>3
            <7>2. j \in kCache /\ j.remaining >= i.remaining
              BY <4>2, <6>3, <7>1
            <7> QED BY <1>0, <6>1, <7>2
          <6> QED BY <2>1, <4>1, <6>2, <6>3 DEF KeyMoves, KeyRemains
        <5> QED BY <4>3, <5>4, <5>5
      <4> QED BY <4>5, <4>6
    <3> QED BY <3>2, <3>3
  <2> QED BY <1>0, <2>2, <2>3 DEF KeysTopped
\* Requests only begin or fail.
<1>a. ASSUME KeyRows, wasted' = wasted,
             \A q \in Requests :
               /\ kCall[q].op = "topUp" =>
                    /\ kCall'[q].op = "topUp" /\ kCall'[q].at \in {kCall[q].at, "failed"}
                    /\ kCall[q].beside => kCall'[q].beside
               /\ kCall'[q].at \in KeyRead =>
                    kCall[q].at = kCall'[q].at /\ kCall'[q].seen = kCall[q].seen
      PROVE  KeysTopped'
  <2>1. ASSUME KeyToppedUp'
        PROVE  /\ KeyToppedUp
               /\ \A q \in Requests : kCall[q].op = "topUp" =>
                    kCall'[q].op = "topUp" /\ kCall'[q].at = kCall[q].at
    BY <1>a, <2>1 DEF KeyToppedUp
  <2> QED BY <1>0, <1>a, <2>1 DEF KeysTopped, KeyRows
<1>2. ASSUME NEW r \in Requests, NEW op \in AK!Operations, KeyStarts(r, op)
      PROVE  KeysTopped'
  <2>1. kCall[r].op = "none"
    <3>1. kCall[r].at = "idle" /\ kCall[r].at \in KeyPlaces(kCall[r].op)
      BY <1>0, <1>2 DEF KeyStarts, KeyPath
    <3>2. kCall[r].op \in AK!Operations \cup {"none"}
      BY <1>0 DEF AK!Call
    <3> QED BY <3>1, <3>2 DEF KeyPlaces, KeyVerifies, AK!Ended, AK!Operations
  <2>2. kCall'[r].at \notin KeyRead
    BY <1>2 DEF KeyStarts, KeyTo, KeyRead
  <2> QED BY <1>2, <1>a, <2>1, <2>2 DEF KeyStarts, KeyTo, KeyHistory
<1>3. ASSUME NEW r \in Requests, KeyFails(r)
      PROVE  KeysTopped'
  <2>1. "failed" \notin KeyRead
    BY DEF KeyRead, AK!Steps
  <2> QED BY <1>3, <1>a, <2>1 DEF KeyFails, KeyOthers, KeyGoes, KeyTo, KeyHistory
<1>4. CASE KeyTicks
  BY <1>4, <1>a DEF KeyTicks, KeyHistory
<1> QED BY <1>0, <1>1, <1>2, <1>3, <1>4, KeyNext

-----------------------------------------------------------------------------
LEMMA KeysDueKept ==
  ASSUME KeysBase, KeysBase', KeysDue, [AK!Next]_AK!vars
  PROVE  KeysDue'
<1>0. /\ KeysTyped /\ kDeploy' = kDeploy /\ kDeploy.cached \in BOOLEAN
      /\ kCall \in [Requests -> AK!Call] /\ kRow \subseteq AK!Key /\ \A j, k \in kRow : j = k
      /\ \A q \in Requests : KeyPath(q) /\ KeyAlone(q)
      /\ kNow \in Nat /\ kDeploy.interval \in Nat
  BY KeyNext, KeysDeployTyped DEF KeysBase, KeysTyped, AtMostOneKey
<1> SUFFICES ASSUME ~kDeploy.cached, NEW q \in Requests,
                    kCall'[q].op = "verify", kCall'[q].due, ~kCall'[q].beside
             PROVE  /\ kCall'[q].at = "load" => \E k \in kRow' : AK!Due(k, kNow')
                    /\ kCall'[q].at = "refill" => kRow' = {kCall'[q].seen}
                    /\ kCall'[q].at \notin {"take", "remove", "exceeded"}
  BY <1>0 DEF KeysDue, AK!Due
<1>a. kCall[q].op = "verify" /\ kCall[q].due /\ ~kCall[q].beside =>
        /\ kCall[q].at = "load" => \E k \in kRow : AK!Due(k, kNow)
        /\ kCall[q].at = "refill" => kRow = {kCall[q].seen}
        /\ kCall[q].at \notin {"take", "remove", "exceeded"}
  BY DEF KeysDue
<1>1. ASSUME NEW r \in Requests, KeyOthers(r), KeyStep(r), kNow' = kNow
      PROVE  /\ kCall'[q].at = "load" => \E k \in kRow' : AK!Due(k, kNow)
             /\ kCall'[q].at = "refill" => kRow' = {kCall'[q].seen}
             /\ kCall'[q].at \notin {"take", "remove", "exceeded"}
  <2>1. kCall[r].at \in AK!Steps /\ kCall'[r].at \in AK!Steps \cup {"ok", "rejected", "exceeded"}
    BY <1>0, <1>1, KeyStepTyped
  <2>2. CASE q # r
    <3>1. kCall'[q] = kCall[q]
      BY <1>1, <2>2 DEF KeyOthers
    <3>2. kCall[q].at \notin AK!Steps
      BY <1>0, <2>1, <2>2, <3>1 DEF KeyAlone, AK!InFlight
    <3> QED BY <1>a, <3>1, <3>2 DEF AK!Steps
  <2>3. CASE q = r
    <3> DEFINE c == kCall[r]
               d == kCall'[r]
    <3>1. c.op = "verify" /\ c.due /\ ~c.beside
      BY <1>1, <2>3 DEF KeyOthers
    <3>2. /\ c.at = "load" => \E k \in kRow : AK!Due(k, kNow)
          /\ c.at = "refill" => kRow = {c.seen}
          /\ c.at \notin {"take", "remove", "exceeded", "loadDb", "fill", "recache", "uncache", "write"}
      BY <1>0, <1>a, <2>3, <3>1 DEF KeyPath, KeyPlaces, KeyVerifies, AK!Ended
    <3>3. CASE d.at \notin {"load", "refill", "take", "remove", "exceeded"}
      BY <2>3, <3>3
    <3>4. CASE KeyLoads(r)
      <4>1. PICK k \in kRow : AK!Due(k, kNow)
        BY <3>2, <3>4 DEF KeyLoads
      <4>2. KeyTo(r, AK!AfterLoad(r, k), k, kNow) /\ kRow' = kRow
        BY <1>0, <3>4, <4>1 DEF KeyLoads, KeyRows
      <4>3. /\ d.at \in {"rejected", "uncache", "remove", "refill", "take", "stamp", "start",
                         "reset", "increment"}
            /\ d.at \in {"uncache", "remove"} => kDeploy.amount = 0
            /\ d.at = "take" => ~AK!Due(k, kNow)
            /\ d.seen = k
        BY <1>0, <3>1, <4>2, KeyAfter DEF KeyTo
      <4>4. kDeploy.amount # 0
        BY <4>1, KeysDeployTyped DEF AK!Due
      <4> QED BY <1>0, <2>3, <4>1, <4>2, <4>3, <4>4
    <3>5. CASE KeyRefills(r)
      <4>1. c.at = "refill" /\ kRow = {c.seen}
        BY <3>2, <3>5 DEF KeyRefills
      <4>2. \E j : KeyTaken(r, j)
        BY <3>5, <4>1 DEF KeyRefills
      <4> QED BY <3>3, <4>2, KeyDecides DEF KeyTaken, KeyTo
    <3>6. CASE KeySlots(r) \/ KeyStamps(r)
      BY <1>0, <3>3, <3>6 DEF KeySlots, KeyStamps, KeyGoes, KeyTo
    <3>7. CASE KeyRereads(r)
      BY <3>3, <3>7, KeyDecides DEF KeyRereads, KeyGoes, KeyTo
    <3> QED BY <1>1, <3>2, <3>4, <3>5, <3>6, <3>7
            DEF KeyStep, KeyLoadsDb, KeyFills, KeyTakes, KeyRecaches, KeyWrites, KeyUncaches, KeyRemoves
  <2> QED BY <2>2, <2>3
<1>2. ASSUME NEW r \in Requests, NEW op \in AK!Operations, KeyStarts(r, op), kNow' = kNow
      PROVE  /\ kCall'[q].at = "load" => \E k \in kRow' : AK!Due(k, kNow)
             /\ kCall'[q].at = "refill" => kRow' = {kCall'[q].seen}
             /\ kCall'[q].at \notin {"take", "remove", "exceeded"}
  <2>1. CASE q = r
    <3>1. kCall'[r].at = "load" /\ kRow' = kRow /\ kCall'[r].due = \E k \in kRow : AK!Due(k, kNow)
      BY <1>2 DEF KeyStarts, KeyTo, KeyRows
    <3>2. \E k \in kRow : AK!Due(k, kNow)
      BY <2>1, <3>1
    <3> QED BY <2>1, <3>1, <3>2
  <2>2. CASE q # r
    <3>1. /\ kCall'[q].at = kCall[q].at /\ kCall'[q].seen = kCall[q].seen /\ kRow' = kRow
          /\ kCall[q].op = "verify" /\ kCall[q].due
          /\ kCall'[q].beside = (kCall[q].beside \/ AK!InFlight(q))
      BY <1>2, <2>2 DEF KeyStarts, KeyTo, KeyRows
    <3>2. ~kCall[q].beside
      BY <3>1
    <3> QED BY <1>a, <3>1, <3>2
  <2> QED BY <2>1, <2>2
<1>3. ASSUME NEW r \in Requests, KeyFails(r), kNow' = kNow
      PROVE  /\ kCall'[q].at = "load" => \E k \in kRow' : AK!Due(k, kNow)
             /\ kCall'[q].at = "refill" => kRow' = {kCall'[q].seen}
             /\ kCall'[q].at \notin {"take", "remove", "exceeded"}
  BY <1>a, <1>3 DEF KeyFails, KeyOthers, KeyGoes, KeyTo, KeyRows
<1>4. CASE KeyTicks
  <2>1. \A k \in kRow : AK!Due(k, kNow) => kDeploy.amount > 0
          /\ kNow' - (IF k.refilled = -1 THEN 0 ELSE k.refilled) > kDeploy.interval
    BY <1>0, <1>4 DEF KeyTicks, AK!Due, AK!Key, AK!Times, AK!Null
  <2>2. (\E k \in kRow : AK!Due(k, kNow)) => \E k \in kRow' : AK!Due(k, kNow')
    BY <1>0, <1>4, <2>1 DEF KeyTicks, KeyRows, AK!Due, AK!Null
  <2> QED BY <1>a, <1>4, <2>2 DEF KeyTicks, KeyRows, AK!Due
<1> QED BY <1>0, <1>1, <1>2, <1>3, <1>4, KeyNext

LEMMA KeysInitially == AK!Init => KeysInv
<1> SUFFICES ASSUME AK!Init
             PROVE  KeysInv
  OBVIOUS
<1> DEFINE first == [enabled |-> TRUE, remaining |-> kDeploy.quota, refilled |-> AK!Null,
                     last |-> AK!Null, count |-> 0]
<1>0. /\ kDeploy \in Keyrings /\ kDeploy.quota \in Nat \cup {-1} /\ kDeploy.maxTime \in Nat
      /\ kDeploy.amount \in Nat
  BY KeysDeployTyped DEF AK!Init
<1>1. /\ first \in AK!Key /\ first.remaining = kDeploy.quota /\ first.refilled = -1
      /\ first.last = -1 /\ first.count = 0
  BY <1>0 DEF AK!Key, AK!Times, AK!Null
<1>2. kRow = {first} /\ kCache = {} /\ kNow = 0 /\ uses = 0 /\ topUps = 0 /\ ~wasted
  BY DEF AK!Init
<1>3. /\ AK!NoCall \in AK!Call /\ AK!NoCall.op = "none" /\ AK!NoCall.at = "idle"
      /\ AK!NoCall.t = 0 /\ AK!NoCall.late = {} /\ ~AK!NoCall.due
  BY DEF AK!NoCall, AK!Call
<1>4. \A r \in Requests : kCall[r] = AK!NoCall
  BY DEF AK!Init
<1> HIDE DEF first
<1>5. KeysTyped
  <2>1. kCall \in [Requests -> AK!Call]
    BY <1>3 DEF AK!Init
  <2>2. slots \in [0..kDeploy.maxTime -> Nat] /\ backdated \in BOOLEAN /\ wasted \in BOOLEAN
    BY DEF AK!Init
  <2> QED BY <1>0, <1>1, <1>2, <2>1, <2>2 DEF KeysTyped, AtMostOneKey
<1>6. ASSUME NEW r \in Requests
      PROVE  KeyPath(r) /\ KeyAlone(r)
  BY <1>2, <1>3, <1>4, <1>6 DEF KeyPath, KeyAlone, KeyPlaces, KeyRead, AK!InFlight, AK!Steps
<1>7. KeysQuota
  <2>1. ASSUME kDeploy.quota # -1
        PROVE  /\ KeyGranted(kDeploy, 0, -1) = kDeploy.quota
               /\ KeyGranted(kDeploy, 0, 0) \in Nat
    <3>1. kDeploy.quota * (1 + 0) = kDeploy.quota /\ kDeploy.amount * 0 = 0
      BY <1>0
    <3>2. kDeploy.quota \in Nat
      BY <1>0, <2>1
    <3>3. KeyGranted(kDeploy, 0, -1) = kDeploy.quota
      BY <3>1, <3>2 DEF KeyGranted, AK!Null
    <3> QED BY <1>0, <2>1, <3>3, KeyGrants
  <2> QED BY <1>0, <1>1, <1>2, <2>1 DEF KeysQuota, AK!Null
<1>8. KeysRate
  <2>1. \A t \in DOMAIN slots : slots[t] = 0
    BY DEF AK!Init
  <2>2. kDeploy.max \in Nat
    BY <1>0, KeysDeployTyped
  <2> QED BY <1>1, <1>2, <2>1, <2>2 DEF KeysRate
<1>9. KeysWritten
  BY <1>3, <1>4 DEF KeysWritten, KeyGone, KeyDisabled, KeyWritten, KeyCopies, KeyRefused
<1>10. KeysTopped /\ KeysDue
  BY <1>2, <1>3, <1>4 DEF KeysTopped, KeysDue, KeyRead, AK!Steps
<1> QED BY <1>5, <1>6, <1>7, <1>8, <1>9, <1>10 DEF KeysInv, KeysBase

LEMMA KeysPromised == KeysInv => AK!BudgetsKept /\ AK!KeyStateCounts
<1> SUFFICES ASSUME KeysInv
             PROVE  AK!BudgetsKept /\ AK!KeyStateCounts
  OBVIOUS
<1>0. /\ kDeploy \in Keyrings /\ kDeploy.cached \in BOOLEAN /\ kNow \in Nat /\ wasted \in BOOLEAN
      /\ \A r \in Requests : kCall[r].late \subseteq Requests
      /\ \A r \in Requests : KeyPath(r) /\ KeyAlone(r) /\ KeyRefused(r)
  BY KeysDeployTyped DEF KeysInv, KeysBase, KeysTyped, KeysWritten, AK!Call
<1>1. AK!QuotaKept
  <2>1. kNow # -1
    BY <1>0
  <2> QED BY <2>1 DEF KeysInv, KeysQuota, KeyGranted, AK!QuotaKept, AK!Null
<1>2. AK!RateKept
  BY DEF KeysInv, KeysRate, AK!RateKept
<1>3. AK!DeletedIsRefused
  BY <1>0 DEF KeyRefused, AK!DeletedIsRefused, AK!Op, AK!At
<1>4. AK!DisabledIsRefused
  BY <1>0 DEF KeyRefused, AK!DisabledIsRefused, AK!Op, AK!At
<1>5. AK!ToppedUpStays
  <2>1. SUFFICES ASSUME wasted
                 PROVE  \E q \in Requests : kCall[q].op = "topUp" /\ (kCall[q].beside \/ kCall[q].at # "ok")
    BY DEF AK!ToppedUpStays, AK!Op, AK!At
  <2>2. PICK q \in Requests : /\ kCall[q].op = "topUp"
                              /\ kCall[q].beside \/ kCall[q].at \in {"rejected", "failed"}
    BY <2>1 DEF KeysInv, KeysTopped, KeyToppedUp
  <2> QED BY <2>2
<1>6. AK!DueIsRefilled
  <2>1. ASSUME NEW r \in Requests, kCall[r].at = "exceeded"
        PROVE  kCall[r].op = "verify"
    <3>1. kCall[r].op \in AK!Operations \cup {"none"}
      BY DEF KeysInv, KeysBase, KeysTyped, AK!Call
    <3> QED BY <1>0, <2>1, <3>1 DEF KeyPath, KeyPlaces, AK!Operations
  <2> QED BY <2>1 DEF KeysInv, KeysDue, AK!DueIsRefilled, AK!At
<1> QED BY <1>1, <1>2, <1>3, <1>4, <1>5, <1>6 DEF AK!BudgetsKept, AK!KeyStateCounts

LEMMA KeysInvariant == AK!Spec => []KeysInv
<1>1. AK!Init => KeysInv
  BY KeysInitially
<1>2. KeysInv /\ [AK!Next]_AK!vars => KeysInv'
  <2> SUFFICES ASSUME KeysInv, [AK!Next]_AK!vars
               PROVE  KeysInv'
    OBVIOUS
  <2>1. KeysBase /\ KeysBase'
    BY KeysBaseKept DEF KeysInv
  <2> QED BY <2>1, KeysQuotaKept, KeysRateKept, KeysWrittenKept, KeysToppedKept, KeysDueKept
          DEF KeysInv
<1> QED BY <1>1, <1>2, PTL DEF AK!Spec

\* A key is used within its quota, refilled when that is due, and not refused when a
\* refill has just been due; of the uses that its rate limit counts under one timestamp
\* there are as many as the limit allows; and it is not used from a cache that is behind
\* what was answered: for any requests, quota, limit, times and storages.
THEOREM KeysSoundAlways == AllSpec => []KeysSound
<1>1. KeysInv => KeysSound
  BY KeysPromised DEF KeysSound
<1> QED BY <1>1, KeysInvariant, Parts, PTL

-----------------------------------------------------------------------------
(* Organizations *)

OGP == INSTANCE OrganizationProofs WITH
  Deployments <- Organizations, deploy <- oDeploy, call <- oCall

LEMMA OrganizationSpec == OGP!ConstantsOK /\ (OG!Spec => OGP!Spec)
<1>1. OGP!ConstantsOK
  BY PluginsAssumption
  DEF OG!Operations, OGP!Operations, OG!Roles, OGP!Roles, OG!Deployment, OGP!Deployment,
      OG!Cardinality, OGP!Cardinality, OG!IsFiniteSet, OGP!IsFiniteSet, OG!ConstantsOK,
      OGP!ConstantsOK
<1>2. OG!Init => OGP!Init
  BY DEF OG!Roles, OGP!Roles, OG!MemberRow, OGP!MemberRow, OG!TeamRow, OGP!TeamRow, OG!Invitations,
         OGP!Invitations, OG!NoCall, OGP!NoCall, OG!RowsOf, OGP!RowsOf, OG!Init, OGP!Init
<1>3. [OG!Next]_OG!vars => [OGP!Next]_OGP!vars
  <2>1. OG!Next <=> OGP!Next
    BY DEF OG!Cardinality, OGP!Cardinality, OG!Operations, OGP!Operations, OG!Roles, OGP!Roles,
           OG!Demotes, OGP!Demotes, OG!Makers, OGP!Makers, OG!vars, OGP!vars, OG!rows,
           OGP!rows, OG!MemberRow, OGP!MemberRow, OG!TeamRow, OGP!TeamRow, OG!Invitations,
           OGP!Invitations, OG!Invitation, OGP!Invitation, OG!Steps, OGP!Steps, OG!Ended,
           OGP!Ended, OG!Call, OGP!Call, OG!NoCall, OGP!NoCall, OG!At, OGP!At, OG!Op, OGP!Op,
           OG!Actor, OGP!Actor, OG!Target, OGP!Target, OG!InFlight, OGP!InFlight, OG!Become,
           OGP!Become, OG!Goto, OGP!Goto, OG!RowsOf, OGP!RowsOf, OG!Owners, OGP!Owners,
           OG!Page, OGP!Page, OG!PendingOf, OGP!PendingOf, OG!Live, OGP!Live, OG!Start, OGP!Start, OG!Permitted, OGP!Permitted,
           OG!Change, OGP!Change, OG!FindRow, OGP!FindRow, OG!AfterFind, OGP!AfterFind,
           OG!Find, OGP!Find, OG!LookPending, OGP!LookPending, OG!Extend, OGP!Extend,
           OG!CancelOld, OGP!CancelOld, OG!Vacancy, OGP!Vacancy, OG!Create, OGP!Create,
           OG!Status, OGP!Status, OG!Count, OGP!Count, OG!Claim, OGP!Claim, OG!Abort,
           OGP!Abort, OG!Team, OGP!Team, OG!TeamAdd, OGP!TeamAdd, OG!Joined, OGP!Joined,
           OG!Member, OGP!Member, OG!Active, OGP!Active, OG!Release, OGP!Release,
           OG!CountOwners, OGP!CountOwners, OG!TakeOut, OGP!TakeOut, OG!LeaveTeam,
           OGP!LeaveTeam, OG!Delete, OGP!Delete, OG!TeamDelete, OGP!TeamDelete, OG!Update,
           OGP!Update, OG!NamesTeam, OGP!NamesTeam, OG!Stripped, OGP!Stripped, OG!ListTeam,
           OGP!ListTeam, OG!DropTeam, OGP!DropTeam, OG!Strip, OGP!Strip, OG!Expire,
           OGP!Expire, OG!Fail, OGP!Fail, OG!Step, OGP!Step, OG!Idle, OGP!Idle, OG!Next,
           OGP!Next
  <2> QED BY <2>1 DEF OG!vars, OGP!vars
<1> QED BY <1>1, <1>2, <1>3, PTL DEF OG!Spec, OGP!Spec

\* However joins, answers, changes of role, leaves and removals overlap and fail, an
\* invitation is answered once and never stranded, an owner remains unless two that
\* demote one overlapped, and the limit is overrun only by those that raced; the team is
\* made of members where a deletion is a transaction that sees every team; and a pending
\* invitation names a removed team only beside the removal, or where the removal could
\* not list all of them.
THEOREM OrganizationsKept == AllSpec => []OrganizationSound
<1>1. OGP!InvitationSettled /\ OGP!MembershipSound => OrganizationSound
  BY DEF OrganizationSound, OG!Cardinality, OGP!Cardinality, OG!At, OGP!At, OG!Op, OGP!Op,
         OG!Actor, OGP!Actor, OG!Target, OGP!Target, OG!InFlight, OGP!InFlight, OG!Steps,
         OGP!Steps, OG!Invitations, OGP!Invitations, OG!RowsOf, OGP!RowsOf, OG!Owners,
         OGP!Owners, OG!NamesTeam, OGP!NamesTeam, OG!AcceptsOf, OGP!AcceptsOf,
         OG!AcceptedOnce, OGP!AcceptedOnce, OG!ClaimNotStranded, OGP!ClaimNotStranded,
         OG!OwnerRemains, OGP!OwnerRemains, OG!LimitOverrunBounded, OGP!LimitOverrunBounded,
         OG!TeamOfMembers, OGP!TeamOfMembers, OG!PendingStayAcceptable,
         OGP!PendingStayAcceptable, OG!PendingNamesTeam, OGP!PendingNamesTeam,
         OG!InvitationSettled, OGP!InvitationSettled, OG!MembershipSound,
         OGP!MembershipSound
<1>2. OGP!Spec => []OGP!InvitationSettled /\ []OGP!MembershipSound
  BY OGP!InvitationSettledAlways, OGP!MembershipSoundAlways, OrganizationSpec
<1> QED BY <1>1, <1>2, OrganizationSpec, Parts, PTL

-----------------------------------------------------------------------------
(* Subscriptions *)

SBP == INSTANCE SubscriptionsProofs WITH
  Requests <- Buyers, Deployments <- Loads, deploy <- sDeploy, call <- sCall

LEMMA SubscriptionsSpec == SBP!ConstantsOK /\ (SB!Spec => SBP!Spec)
<1>1. SBP!ConstantsOK
  BY PluginsAssumption
  DEF SB!Subs, SBP!Subs, SB!None, SBP!None, SB!Kinds, SBP!Kinds, SB!Deployment, SBP!Deployment,
      SB!ConstantsOK, SBP!ConstantsOK
<1>2. SB!Init => SBP!Init
  BY DEF SB!Subs, SBP!Subs, SB!RowIds, SBP!RowIds, SB!None, SBP!None, SB!NoId, SBP!NoId, SB!NoRow,
         SBP!NoRow, SB!NoEvent, SBP!NoEvent, SB!NoHook, SBP!NoHook, SB!NoCall, SBP!NoCall,
         SB!Init, SBP!Init
<1>3. [SB!Next]_SB!vars => [SBP!Next]_SBP!vars
  <2>1. SB!Next <=> SBP!Next
    BY DEF SB!Cardinality, SBP!Cardinality, SB!Subs, SBP!Subs, SB!RowIds, SBP!RowIds, SB!None,
           SBP!None, SB!NoId, SBP!NoId, SB!vars, SBP!vars, SB!LiveStatus, SBP!LiveStatus,
           SB!BornStatus, SBP!BornStatus, SB!NoRow, SBP!NoRow, SB!NoEvent, SBP!NoEvent,
           SB!NoHook, SBP!NoHook, SB!Places, SBP!Places, SB!NoCall, SBP!NoCall, SB!Done,
           SBP!Done, SB!Deleted, SBP!Deleted, SB!Exists, SBP!Exists, SB!All, SBP!All,
           SB!Linked, SBP!Linked, SB!LiveRow, SBP!LiveRow, SB!LiveSub, SBP!LiveSub,
           SB!LiveSubs, SBP!LiveSubs, SB!Born, SBP!Born, SB!At, SBP!At, SB!InFlight,
           SBP!InFlight, SB!Become, SBP!Become, SB!Goto, SBP!Goto, SB!End, SBP!End,
           SB!Quiet, SBP!Quiet, SB!Clear, SBP!Clear, SB!Settled, SBP!Settled, SB!Untold,
           SBP!Untold, SB!Over, SBP!Over, SB!RowOf, SBP!RowOf, SB!Owed, SBP!Owed, SB!Tell,
           SBP!Tell, SB!ByStripe, SBP!ByStripe, SB!Counted, SBP!Counted, SB!Pay, SBP!Pay,
           SB!Dashboard, SBP!Dashboard, SB!Change, SBP!Change, SB!CancelLater,
           SBP!CancelLater, SB!Handled, SBP!Handled, SB!Without, SBP!Without, SB!Receive,
           SBP!Receive, SB!Crash, SBP!Crash, SB!Retrieve, SBP!Retrieve, SB!Named, SBP!Named,
           SB!NewRows, SBP!NewRows, SB!FindCreated, SBP!FindCreated, SB!CreateRow,
           SBP!CreateRow, SB!FindUpdated, SBP!FindUpdated, SB!Others, SBP!Others,
           SB!FindDeleted, SBP!FindDeleted, SB!Shown, SBP!Shown, SB!Write, SBP!Write,
           SB!Quietly, SBP!Quietly, SB!RowsAlone, SBP!RowsAlone, SB!Patch, SBP!Patch,
           SB!First, SBP!First, SB!Start, SBP!Start, SB!Review, SBP!Review, SB!List,
           SBP!List, SB!Match, SBP!Match, SB!Adopt, SBP!Adopt, SB!Reserve, SBP!Reserve,
           SB!Judge, SBP!Judge, SB!Open, SBP!Open, SB!Look, SBP!Look, SB!Fetch, SBP!Fetch,
           SB!Activate, SBP!Activate, SB!Find, SBP!Find, SB!Check, SBP!Check, SB!Needed,
           SBP!Needed, SB!Remove, SBP!Remove, SB!Resync, SBP!Resync, SB!Sync, SBP!Sync,
           SB!Restore, SBP!Restore, SB!Revive, SBP!Revive, SB!Renew, SBP!Renew, SB!ClearRow,
           SBP!ClearRow, SB!ByHook, SBP!ByHook, SB!Step, SBP!Step, SB!Idle, SBP!Idle,
           SB!Next, SBP!Next
  <2> QED BY <2>1 DEF SB!vars, SBP!vars
<1> QED BY <1>1, <1>2, <1>3, PTL DEF SB!Spec, SBP!Spec

\* However checkouts, success pages, cancellations, restorations, changes at Stripe,
\* webhooks and crashes mix: where events come in order and nothing overlaps, the rows
\* show what Stripe has and no checkout opens beside a live subscription, until a row that
\* was still needed is shared, deleted or taken back; and whatever the order, nobody is
\* offered a second trial, until one is deleted.
THEOREM SubscriptionsFollow == AllSpec => []SubscriptionsSound
<1>1. SBP!SubscriptionsSound => SubscriptionsSound
  BY DEF SubscriptionsSound, SB!Subs, SBP!Subs, SB!RowIds, SBP!RowIds, SB!None, SBP!None, SB!NoId, SBP!NoId,
         SB!LiveStatus, SBP!LiveStatus, SB!BornStatus, SBP!BornStatus, SB!NoRow, SBP!NoRow,
         SB!Places, SBP!Places, SB!Deleted, SBP!Deleted, SB!Exists, SBP!Exists, SB!All,
         SBP!All, SB!Linked, SBP!Linked, SB!Born, SBP!Born, SB!At, SBP!At, SB!InFlight,
         SBP!InFlight, SB!Quiet, SBP!Quiet, SB!Settled, SBP!Settled, SB!Untold, SBP!Untold,
         SB!Over, SBP!Over, SB!RowsMirror, SBP!RowsMirror, SB!OneAtATime, SBP!OneAtATime,
         SB!OneTrial, SBP!OneTrial, SB!SubscriptionsSound, SBP!SubscriptionsSound
<1>2. SBP!Spec => []SBP!SubscriptionsSound
  BY SBP!SubscriptionsSoundAlways, SubscriptionsSpec
<1> QED BY <1>1, <1>2, SubscriptionsSpec, Parts, PTL

-----------------------------------------------------------------------------
(* Types *)

AllParts == {"RateLimiter", "Organization", "ApiKeys", "TransactionHooks",
             "AdapterFallbacks", "Reservation", "Subscriptions", "KeyRotation"}
PartOK == part \in AllParts

\* What a row, or a copy of one, is.
LEMMA AtMostOneCounted ==
  ASSUME NEW R, AtMostOneKey(R)
  PROVE  AK!Cardinality(R) <= 1
<1>0. AK!Cardinality(R) = Cardinality(R)
  BY DEF AK!Cardinality, Cardinality
<1>1. CASE R = {}
  <2>1. Cardinality(R) = 0
    BY <1>1, FS_EmptySet
  <2> QED BY <1>0, <2>1
<1>2. CASE R # {}
  <2>1. PICK k \in R : TRUE
    BY <1>2
  <2>2. R = {k}
    BY <2>1 DEF AtMostOneKey
  <2>3. Cardinality(R) = 1
    BY <2>2, FS_Singleton
  <2> QED BY <1>0, <2>3
<1> QED BY <1>1, <1>2

\* Whatever part moves, its state has its type.
THEOREM AllTypeCorrect == AllSpec => []AllTypeOK
<1>1. AllSpec => []PartOK
  <2>1. AllInit => PartOK
    BY DEF AllInit, PartOK, AllParts
  <2>2. PartOK /\ [AllNext]_allVars => PartOK'
    BY DEF PartOK, AllNext, allVars
  <2> QED BY <2>1, <2>2, PTL DEF AllSpec
<1>2. OGP!TypeOK => OG!TypeOK
  BY DEF OG!Operations, OGP!Operations, OG!Roles, OGP!Roles, OG!Makers, OGP!Makers, OG!MemberRow,
         OGP!MemberRow, OG!TeamRow, OGP!TeamRow, OG!Invitations, OGP!Invitations,
         OG!Invitation, OGP!Invitation, OG!Steps, OGP!Steps, OG!Ended, OGP!Ended, OG!Call,
         OGP!Call, OG!TypeOK, OGP!TypeOK
<1>3. SBP!TypeOK => SB!TypeOK
  BY DEF SB!Subs, SBP!Subs, SB!RowIds, SBP!RowIds, SB!None, SBP!None, SB!NoId, SBP!NoId,
         SB!LiveStatus, SBP!LiveStatus, SB!BornStatus, SBP!BornStatus, SB!Row, SBP!Row,
         SB!Sub, SBP!Sub, SB!Event, SBP!Event, SB!NoEvent, SBP!NoEvent, SB!Hook, SBP!Hook,
         SB!Harms, SBP!Harms, SB!Places, SBP!Places, SB!Call, SBP!Call, SB!TypeOK,
         SBP!TypeOK
<1>4. KeysInv => AK!TypeOK
  BY AtMostOneCounted DEF KeysInv, KeysBase, KeysTyped, AtMostOneKey, AK!TypeOK
<1>5. TH!ConstantsOK /\ AF!ConstantsOK /\ RV!ConstantsOK
  BY PluginsAssumption
<1>6. PartOK /\ TypeOK /\ OG!TypeOK /\ AK!TypeOK /\ TH!TypeOK /\ AF!TypeOK /\ RV!TypeOK
        /\ SB!TypeOK /\ KR!TypeOK => AllTypeOK
  BY DEF PartOK, AllParts, AllTypeOK
<1>7. OGP!Spec => []OGP!TypeOK
  BY OGP!TypeCorrect, OrganizationSpec
<1>8. SBP!Spec => []SBP!TypeOK
  BY SBP!TypeCorrect, SubscriptionsSpec
<1>9. AllSpec => []TypeOK
  BY TypeCorrect, Parts, PTL
<1>10. AllSpec => []OG!TypeOK
  BY <1>2, <1>7, OrganizationSpec, Parts, PTL
<1>11. AllSpec => []AK!TypeOK
  BY <1>4, KeysInvariant, Parts, PTL
<1>12. AllSpec => []TH!TypeOK
  BY <1>5, HooksTypeCorrect, Parts, PTL
<1>13. AllSpec => []AF!TypeOK
  BY <1>5, FallbacksTypeCorrect, Parts, PTL
<1>14. AllSpec => []RV!TypeOK
  BY <1>5, ReservationTypeCorrect, Parts, PTL
<1>15. AllSpec => []SB!TypeOK
  BY <1>3, <1>8, SubscriptionsSpec, Parts, PTL
<1>16. AllSpec => []KR!TypeOK
  BY RotationInvariant, Parts, PTL
<1> QED BY <1>1, <1>6, <1>9, <1>10, <1>11, <1>12, <1>13, <1>14, <1>15, <1>16, PTL

=============================================================================
