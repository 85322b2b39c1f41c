----------------------------- MODULE KeyRotation -----------------------------
(***************************************************************************)
(* The signing keys of the jwt plugin (src/packages/shinauth/src/plugins/  *)
(* jwt: sign.ts, verify.ts, utils.ts, adapter.ts and the key set of        *)
(* index.ts). A key signs until its end; the key set shows it for a grace  *)
(* period longer. Keys are never deleted.                                  *)
(*                                                                         *)
(* findMany answers at most defaultFindManyLimit rows, in no order that    *)
(* anything asks for: any that many.                                       *)
(***************************************************************************)
EXTENDS Integers, FiniteSets

CONSTANTS
  Requests,
  Never,        \* the end of a key that has none
  Deployments   \* the configurations and requests to consider

Operations == {"signJWT", "getJwks", "verifyJWT"}

Deployment ==
  [ops      : [Requests -> SUBSET Operations],
   interval : Nat \cup {Never},   \* rotationInterval; 0: less than a tick of the clock
   grace    : Nat,                \* gracePeriod
   life     : Nat,                \* expirationTime of the tokens
   limit    : Nat,                \* defaultFindManyLimit
   maxTime  : Nat,
   maxFailures : Nat]

ConstantsOK == Never \notin Nat /\ Deployments \subseteq Deployment

VARIABLES
  deploy,   \* the configuration, chosen at the start
  now,
  keys,     \* the rows of jwks
  tokens,   \* history: the tokens that were given out
  call,     \* the state of each request
  failures

vars == <<deploy, now, keys, tokens, call, failures>>

Key == [id : Requests, created : Nat, ends : Nat \cup {Never}]
Token == [key : Requests, exp : Nat]

Steps == {"find", "make", "insert", "again", "sign", "answer"}
Call == [op     : Operations \cup {"none"},
         at     : {"idle", "ok", "failed"} \cup Steps,
         iat    : Nat,
         keys   : SUBSET Key,      \* what it found, or made
         tokens : SUBSET Token,    \* to verify; or history: given out before it began
         lost   : SUBSET Token]    \* history: those that it left without a key
NoCall == [op |-> "none", at |-> "idle", iat |-> 0, keys |-> {}, tokens |-> {}, lost |-> {}]

At(r, pc) == call[r].at = pc
Op(r) == call[r].op
InFlight(r) == call[r].at \in Steps
Become(r, c) == call' = [call EXCEPT ![r] = c]

Init ==
  /\ deploy \in Deployments
  /\ now = 0
  /\ keys = {} /\ tokens = {}
  /\ call = [r \in Requests |-> NoCall]
  /\ failures = 0

Start(r, op) ==
  /\ At(r, "idle")
  /\ \E ts \in IF op = "verifyJWT" THEN {{t} : t \in tokens} ELSE {tokens} :
       Become(r, [NoCall EXCEPT !.op = op, !.at = "find", !.iat = now, !.tokens = ts])
  /\ UNCHANGED <<deploy, now, keys, tokens, failures>>

\* getAllKeys
Found == {ks \in SUBSET keys :
            Cardinality(ks) = deploy.limit \/ (ks = keys /\ Cardinality(ks) < deploy.limit)}
Latest(ks) == {k \in ks : \A j \in ks : j.created <= k.created}
Ended(k) == k.ends # Never /\ k.ends < now

Find(r) ==
  /\ At(r, "find")
  /\ \E ks \in Found :
       \/ /\ Op(r) = "signJWT"
          /\ \/ /\ ks = {} \/ \E k \in Latest(ks) : Ended(k)
                /\ Become(r, [call[r] EXCEPT !.at = "make"])
             \/ \E k \in Latest(ks) :
                  /\ ~Ended(k)
                  /\ Become(r, [call[r] EXCEPT !.at = "sign", !.keys = {k}])
       \/ /\ Op(r) # "signJWT"
          /\ Become(r, [call[r] EXCEPT !.at = IF Op(r) = "getJwks" /\ ks = {}
                                               THEN "make" ELSE "answer",
                                       !.keys = ks])
  /\ UNCHANGED <<deploy, now, keys, tokens, failures>>

\* createJwk: the end is computed before the row is there.
Make(r) ==
  /\ At(r, "make")
  /\ Become(r, [call[r] EXCEPT !.at = "insert",
       !.keys = {[id |-> r, created |-> now,
                  ends |-> IF deploy.interval = Never THEN Never ELSE now + deploy.interval]}])
  /\ UNCHANGED <<deploy, now, keys, tokens, failures>>

Insert(r) ==
  /\ At(r, "insert")
  /\ LET made == {[k EXCEPT !.created = now] : k \in call[r].keys}
     IN /\ keys' = keys \cup made
        /\ Become(r, [call[r] EXCEPT !.at = IF Op(r) = "signJWT" THEN "sign" ELSE "again",
                                     !.keys = made])
  /\ UNCHANGED <<deploy, now, tokens, failures>>

Again(r) ==
  /\ At(r, "again")
  /\ \E ks \in Found : Become(r, [call[r] EXCEPT !.at = "answer", !.keys = ks])
  /\ UNCHANGED <<deploy, now, keys, tokens, failures>>

\* The token ends a time after the request began.
Sign(r) ==
  /\ At(r, "sign")
  /\ tokens' = tokens \cup {[key |-> k.id, exp |-> call[r].iat + deploy.life] : k \in call[r].keys}
  /\ Become(r, [call[r] EXCEPT !.at = "ok"])
  /\ UNCHANGED <<deploy, now, keys, failures>>

\* Faulty: the set has the keys that sign, and no others.
ShownSigning(r) == {k \in call[r].keys : Op(r) = "getJwks" => ~Ended(k)}

\* What the key set shows; a token is verified with any key.
Shown(r) == {k \in call[r].keys :
               Op(r) = "getJwks" => k.ends = Never \/ k.ends + deploy.grace > now}

Answer(r) ==
  /\ At(r, "answer")
  /\ Become(r, [call[r] EXCEPT !.at = "ok",
       !.lost = {t \in call[r].tokens : t.exp > now /\ \A k \in Shown(r) : k.id # t.key}])
  /\ UNCHANGED <<deploy, now, keys, tokens, failures>>

\* A storage call throws, or the process dies.
Fail(r) ==
  /\ InFlight(r)
  /\ failures < deploy.maxFailures
  /\ failures' = failures + 1
  /\ Become(r, [call[r] EXCEPT !.at = "failed"])
  /\ UNCHANGED <<deploy, now, keys, tokens>>

Tick ==
  /\ now < deploy.maxTime
  /\ now' = now + 1
  /\ UNCHANGED <<deploy, keys, tokens, call, failures>>

Step(r) == Find(r) \/ Make(r) \/ Insert(r) \/ Again(r) \/ Sign(r) \/ Answer(r)
Idle == (\A r \in Requests : ~InFlight(r)) /\ UNCHANGED vars

Next ==
  \/ \E r \in Requests : (\E op \in deploy.ops[r] : Start(r, op)) \/ Step(r) \/ Fail(r)
  \/ Tick \/ Idle

Spec == Init /\ [][Next]_vars

-----------------------------------------------------------------------------
(* Properties *)

\* The state has its type.
TypeOK ==
  /\ deploy \in Deployments
  /\ now \in 0..deploy.maxTime
  /\ keys \subseteq Key
  /\ tokens \subseteq Token
  /\ call \in [Requests -> Call]
  /\ failures \in 0..deploy.maxFailures

\* A token that was given out can be verified until it ends, here and with the key
\* set, whatever keys were made meanwhile and by whom: where tokens live no longer
\* than the grace period, and a query can answer all the keys.
TokensVerifiable ==
  deploy.life <= deploy.grace /\ Cardinality(keys) <= deploy.limit =>
    \A r \in Requests : call[r].lost = {}
=============================================================================
