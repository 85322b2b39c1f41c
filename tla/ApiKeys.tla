------------------------------ MODULE ApiKeys ------------------------------
(***************************************************************************)
(* Verifying, updating and deleting one API key                            *)
(* (src/packages/api-key/src: routes/verify-api-key.ts, update-api-key.ts, *)
(* delete-api-key.ts, rate-limit.ts and adapter.ts), with its row in the   *)
(* database alone, or also in secondary storage (fallbackToDatabase).      *)
(*                                                                         *)
(* The entries by hash and by id of the storage are written and deleted    *)
(* together: one cache stands for both. Keys do not expire here, updates   *)
(* are not deferred.                                                       *)
(***************************************************************************)
EXTENDS Integers, FiniteSets

CONSTANTS
  Requests,
  Deployments   \* the configurations, keys and requests to consider

Operations == {"verify", "disable", "topUp", "delete"}
Null == -1

Deployment ==
  [ops         : [Requests -> SUBSET Operations],
   cached      : BOOLEAN,          \* secondary storage beside the database
   quota       : Nat \cup {Null},  \* remaining, as it is created and topped up
   amount      : Nat,              \* refillAmount; 0: no refill
   interval    : Nat,              \* refillInterval; 0: less than a tick of the clock
   max         : Nat,              \* rateLimitMax; 0: no limit
   window      : Nat \ {0},        \* rateLimitTimeWindow
   maxTime     : Nat,
   maxFailures : Nat]

ConstantsOK == Deployments \subseteq Deployment

VARIABLES
  deploy,     \* the configuration, chosen at the start
  now,
  row,        \* the row of the key, in a set that may be empty
  cache,      \* its copy, likewise
  call,       \* the state of each request
  uses,       \* history: how often quota was taken
  topUps,     \* history: how often it was topped up
  slots,      \* history: at each time, how many slots of the limit were granted
  backdated,  \* history: a slot was granted for a time before the last request
  wasted      \* history: a key with quota left was removed as exhausted

vars == <<deploy, now, row, cache, call, uses, topUps, slots, backdated, wasted>>
history == <<uses, topUps, slots, backdated, wasted>>

Times == Nat \cup {Null}
Key == [enabled : BOOLEAN, remaining : Int, refilled : Times, last : Times, count : Nat]
Steps == {"load", "loadDb", "fill", "refill", "take", "start", "reset", "increment", "reread",
          "stamp", "recache", "write", "uncache", "remove"}
Ended == {"ok", "rejected", "exceeded", "failed"}
Call == [op     : Operations \cup {"none"},
         at     : {"idle"} \cup Steps \cup Ended,
         seen   : Key \cup {<<>>},   \* the row it goes by
         t      : Nat,               \* its time of the step under way
         due    : BOOLEAN,           \* history: a refill was due as it began
         beside : BOOLEAN,           \* history: another request overlapped
         late   : SUBSET Requests]   \* history: the requests answered before it began
NoCall == [op |-> "none", at |-> "idle", seen |-> <<>>, t |-> 0, due |-> FALSE,
           beside |-> FALSE, late |-> {}]

At(r, pc) == call[r].at = pc
Op(r) == call[r].op
Seen(r) == call[r].seen
InFlight(r) == call[r].at \in Steps
Become(r, c) == call' = [call EXCEPT ![r] = c]
Goto(r, pc) == Become(r, [call[r] EXCEPT !.at = pc])

-----------------------------------------------------------------------------
Init ==
  /\ deploy \in Deployments
  /\ now = 0
  /\ row = {[enabled |-> TRUE, remaining |-> deploy.quota, refilled |-> Null,
             last |-> Null, count |-> 0]}
  /\ cache = {}
  /\ call = [r \in Requests |-> NoCall]
  /\ uses = 0 /\ topUps = 0
  /\ slots = [t \in 0..deploy.maxTime |-> 0]
  /\ backdated = FALSE /\ wasted = FALSE

\* lastRefillAt, or else createdAt.
Due(k, t) ==
  deploy.amount > 0 /\ t - (IF k.refilled = Null THEN 0 ELSE k.refilled) > deploy.interval

Start(r, op) ==
  /\ At(r, "idle")
  /\ LET busy == \E q \in Requests : InFlight(q) IN
       call' = [q \in Requests |->
         IF q = r
           THEN [NoCall EXCEPT !.op = op, !.at = "load", !.beside = busy,
                               !.due = \E k \in row : Due(k, now),
                               !.late = {p \in Requests : At(p, "ok")}]
           ELSE [call[q] EXCEPT !.beside = @ \/ InFlight(q)]]
  /\ UNCHANGED <<deploy, now, row, cache, history>>

-----------------------------------------------------------------------------
\* evaluateRateLimit, for the row k at time t.
Decide(k, t) ==
  CASE deploy.max = 0 -> "stamp"
    [] deploy.max > 0 /\ k.last = Null -> "start"
    [] deploy.max > 0 /\ k.last # Null /\ t - k.last > deploy.window -> "reset"
    [] OTHER -> IF k.count >= deploy.max THEN "rejected" ELSE "increment"

\* What validateApiKey does with the row that it has got.
AfterLoad(r, k) ==
  CASE Op(r) \in {"disable", "topUp"} -> "write"
    [] Op(r) = "delete" -> IF deploy.cached THEN "uncache" ELSE "remove"
    [] Op(r) = "verify" /\ ~k.enabled -> "rejected"
    [] Op(r) = "verify" /\ k.enabled /\ k.remaining = 0 /\ deploy.amount = 0 ->
         IF deploy.cached THEN "uncache" ELSE "remove"
    [] OTHER -> IF k.remaining = Null THEN Decide(k, now)
                ELSE IF Due(k, now) THEN "refill" ELSE "take"

\* The request goes on from the row k, at the time it is now.
GoOn(r, k, next) == Become(r, [call[r] EXCEPT !.at = next, !.seen = k, !.t = now])

\* getApiKey: the cache first.
Load(r) ==
  /\ At(r, "load")
  /\ IF deploy.cached
       THEN \/ cache = {} /\ Goto(r, "loadDb")
            \/ \E k \in cache : GoOn(r, k, AfterLoad(r, k))
       ELSE \/ row = {} /\ Goto(r, "rejected")
            \/ \E k \in row : GoOn(r, k, AfterLoad(r, k))
  /\ UNCHANGED <<deploy, now, row, cache, history>>

LoadDb(r) ==
  /\ At(r, "loadDb")
  /\ \/ row = {} /\ Goto(r, "rejected")
     \/ \E k \in row : GoOn(r, k, "fill")
  /\ UNCHANGED <<deploy, now, row, cache, history>>

Fill(r) ==
  /\ At(r, "fill")
  /\ cache' = {Seen(r)}
  /\ GoOn(r, Seen(r), AfterLoad(r, Seen(r)))
  /\ UNCHANGED <<deploy, now, row, history>>

-----------------------------------------------------------------------------
\* consumeRemaining

\* The row becomes k, and the request goes on to the rate limit with it.
Taken(r, k) ==
  /\ row' = {k}
  /\ uses' = uses + 1
  /\ GoOn(r, k, Decide(k, now))

\* Faulty: the refill is not a compare-and-swap.
RefillBlind(r) ==
  /\ At(r, "refill")
  /\ IF row # {}
       THEN \E k \in row :
              Taken(r, [k EXCEPT !.remaining = deploy.amount - 1, !.refilled = call[r].t])
       ELSE Goto(r, "take") /\ UNCHANGED <<row, uses>>
  /\ UNCHANGED <<deploy, now, cache, topUps, slots, backdated, wasted>>

Refill(r) ==
  /\ At(r, "refill")
  /\ IF \E k \in row : k.refilled = Seen(r).refilled
       THEN \E k \in row :
              Taken(r, [k EXCEPT !.remaining = deploy.amount - 1, !.refilled = call[r].t])
       ELSE Goto(r, "take") /\ UNCHANGED <<row, uses>>
  /\ UNCHANGED <<deploy, now, cache, topUps, slots, backdated, wasted>>

Take(r) ==
  /\ At(r, "take")
  /\ IF \E k \in row : k.remaining > 0
       THEN \E k \in row : Taken(r, [k EXCEPT !.remaining = @ - 1])
       ELSE Goto(r, "exceeded") /\ UNCHANGED <<row, uses>>
  /\ UNCHANGED <<deploy, now, cache, topUps, slots, backdated, wasted>>

-----------------------------------------------------------------------------
\* consumeRateLimit: one guarded write; whoever loses looks again.
Slot(r, guard(_), count(_)) ==
  IF \E k \in row : guard(k)
    THEN \E k \in row :
           /\ row' = {[k EXCEPT !.last = call[r].t, !.count = count(k)]}
           /\ slots' = [slots EXCEPT ![call[r].t] = @ + 1]
           /\ backdated' = (backdated \/ call[r].t < k.last)
           /\ Goto(r, "stamp")
    ELSE Goto(r, "reread") /\ UNCHANGED <<row, slots, backdated>>
One(k) == 1
Next1(k) == k.count + 1

First(r) ==
  /\ At(r, "start")
  /\ LET none(k) == k.last = Null IN Slot(r, none, One)
  /\ UNCHANGED <<deploy, now, cache, uses, topUps, wasted>>

Reset(r) ==
  /\ At(r, "reset")
  /\ LET over(k) == k.last <= call[r].t - deploy.window IN Slot(r, over, One)
  /\ UNCHANGED <<deploy, now, cache, uses, topUps, wasted>>

Increment(r) ==
  /\ At(r, "increment")
  /\ LET room(k) == k.last > call[r].t - deploy.window /\ k.count < deploy.max
     IN Slot(r, room, Next1)
  /\ UNCHANGED <<deploy, now, cache, uses, topUps, wasted>>

Reread(r) ==
  /\ At(r, "reread")
  /\ \/ row = {} /\ Goto(r, "rejected")
     \/ \E k \in row : GoOn(r, k, Decide(k, now))
  /\ UNCHANGED <<deploy, now, row, cache, history>>

\* The last update answers the row as it is, or that it is gone.
Stamp(r) ==
  /\ At(r, "stamp")
  /\ \/ row = {} /\ Goto(r, "rejected")
     \/ \E k \in row : GoOn(r, k, IF deploy.cached THEN "recache" ELSE "ok")
  /\ UNCHANGED <<deploy, now, row, cache, history>>

\* setApiKey
Recache(r) ==
  /\ At(r, "recache")
  /\ cache' = {Seen(r)}
  /\ Goto(r, "ok")
  /\ UNCHANGED <<deploy, now, row, history>>

-----------------------------------------------------------------------------
Changed(r, k) ==
  IF Op(r) = "disable" THEN [k EXCEPT !.enabled = FALSE] ELSE [k EXCEPT !.remaining = deploy.quota]

\* Faulty: the cache is left to the verifications.
WriteOnly(r) ==
  /\ At(r, "write")
  /\ row' = {Changed(r, k) : k \in row}
  /\ Goto(r, "ok")
  /\ topUps' = topUps + (IF Op(r) = "topUp" THEN 1 ELSE 0)
  /\ UNCHANGED <<deploy, now, cache, uses, slots, backdated, wasted>>

\* updateApiKey
Write(r) ==
  /\ At(r, "write")
  /\ row' = {Changed(r, k) : k \in row}
  /\ IF row = {} THEN Goto(r, "ok")
     ELSE \E k \in row' : Become(r, [call[r] EXCEPT
            !.seen = k, !.at = IF deploy.cached THEN "recache" ELSE "ok"])
  /\ topUps' = topUps + (IF Op(r) = "topUp" THEN 1 ELSE 0)
  /\ UNCHANGED <<deploy, now, cache, uses, slots, backdated, wasted>>

\* deleteApiKey, and a verification that found the key exhausted: the cache, then
\* the row, by id.
Uncache(r) ==
  /\ At(r, "uncache")
  /\ cache' = {}
  /\ Goto(r, "remove")
  /\ UNCHANGED <<deploy, now, row, history>>

Remove(r) ==
  /\ At(r, "remove")
  /\ row' = {}
  /\ wasted' = (wasted \/ (Op(r) = "verify" /\ \E k \in row : k.remaining > 0))
  /\ Goto(r, IF Op(r) = "verify" THEN "exceeded" ELSE "ok")
  /\ UNCHANGED <<deploy, now, cache, uses, topUps, slots, backdated>>

\* A storage call throws, or the process dies.
Fail(r) ==
  /\ InFlight(r)
  /\ Cardinality({q \in Requests : At(q, "failed")}) < deploy.maxFailures
  /\ Goto(r, "failed")
  /\ UNCHANGED <<deploy, now, row, cache, history>>

Tick ==
  /\ now < deploy.maxTime
  /\ now' = now + 1
  /\ UNCHANGED <<deploy, row, cache, call, history>>

Step(r) ==
  \/ Load(r) \/ LoadDb(r) \/ Fill(r) \/ Refill(r) \/ Take(r)
  \/ First(r) \/ Reset(r) \/ Increment(r) \/ Reread(r) \/ Stamp(r) \/ Recache(r)
  \/ Write(r) \/ Uncache(r) \/ Remove(r)
Idle == (\A r \in Requests : ~InFlight(r)) /\ UNCHANGED vars

Next ==
  \/ \E r \in Requests : \E op \in deploy.ops[r] : Start(r, op)
  \/ \E r \in Requests : Step(r)
  \/ \E r \in Requests : Fail(r)
  \/ Tick
  \/ Idle

Spec == Init /\ [][Next]_vars

-----------------------------------------------------------------------------
(* Properties *)

\* The state has its type.
TypeOK ==
  /\ deploy \in Deployments
  /\ now \in 0..deploy.maxTime
  /\ row \subseteq Key /\ Cardinality(row) <= 1
  /\ cache \subseteq Key /\ Cardinality(cache) <= 1
  /\ call \in [Requests -> Call]
  /\ uses \in Nat /\ topUps \in Nat
  /\ slots \in [0..deploy.maxTime -> Nat]
  /\ backdated \in BOOLEAN /\ wasted \in BOOLEAN

\* However many verifications see a refill due, the quota is taken no oftener than
\* it was granted: at the start, by a top-up, and once in each interval.
QuotaKept ==
  deploy.quota # Null =>
    uses <= deploy.quota * (1 + topUps) + deploy.amount * (now \div (deploy.interval + 1))

\* No burst of verifications at one time takes more slots than the limit has,
\* unless a request was so slow that its slot moved the window back.
RateKept ==
  deploy.max > 0 /\ ~backdated => \A t \in DOMAIN slots : slots[t] <= deploy.max

\* A verification that begins when the key's deletion was answered is refused,
\* although it may find the key in the cache.
DeletedIsRefused ==
  \A r, q \in Requests :
    Op(q) = "delete" /\ q \in call[r].late /\ Op(r) = "verify" => ~At(r, "ok")

\* One that begins when the key was disabled is refused, unless another request
\* that ran beside the update left its copy in the cache.
DisabledIsRefused ==
  \A r, q \in Requests :
    Op(q) = "disable" /\ q \in call[r].late /\ Op(r) = "verify" /\ At(r, "ok") =>
      deploy.cached /\ call[q].beside

\* A key that was topped up is not removed as exhausted, unless the top-up ran
\* beside another request or did not finish.
ToppedUpStays ==
  wasted => \E q \in Requests : Op(q) = "topUp" /\ (call[q].beside \/ ~At(q, "ok"))

\* When a refill is due, a verification that nothing overlaps is not told that the
\* quota is used up. The database alone keeps this; a cache can hold a refill time
\* that will never be the row's again.
DueIsRefilled ==
  ~deploy.cached => \A r \in Requests : call[r].due /\ At(r, "exceeded") => call[r].beside

\* The comment says that when a refill is due, one verification wins it. Here no
\* two requests overlap.
OneWinsRefill ==
  (\A q \in Requests : ~call[q].beside) =>
    \A r \in Requests : call[r].due => ~At(r, "exceeded")

\* No burst takes more of the quota or of the limit than there is.
BudgetsKept == QuotaKept /\ RateKept

\* What is written to the key counts for later verifications, cached or not.
KeyStateCounts == DeletedIsRefused /\ DisabledIsRefused /\ ToppedUpStays /\ DueIsRefilled
=============================================================================
