---------------------------- MODULE RefreshTokens ----------------------------
(***************************************************************************)
(* The refresh tokens of one client and one user in the OAuth provider     *)
(* (src/packages/oauth-provider/src/token.ts and revoke.ts), and the       *)
(* opaque access tokens issued with them.                                  *)
(*                                                                         *)
(* A refresh token is used once: the token endpoint marks it as revoked    *)
(* and issues another in its place. When a revoked token is presented      *)
(* again, the whole family, every token of the client and the user, goes.  *)
(*                                                                         *)
(* Tokens are numbered in the order in which their rows were created. A    *)
(* request is a call of the token or the revocation endpoint; a step is    *)
(* the work between two awaits. No call runs in a transaction.             *)
(***************************************************************************)
EXTENDS Integers, Sequences, FiniteSets

CONSTANTS
  Requests,
  Deployments  \* the configurations, and the requests that come, to consider

AllOps == {"code", "refresh", "revoke"}
Deployment ==
  [foreignKeys : BOOLEAN,  \* the database deletes an access token with its refresh token
   ops         : [Requests -> SUBSET AllOps],  \* the calls a request may be
   jwt         : BOOLEAN,  \* access tokens may be signed, not stored (resource parameter)
   maxInFlight : Nat,      \* requests that run at a time
   maxFailures : Nat,      \* how many requests may fail
   limit       : Nat \ {0},  \* how many rows findMany answers at most: 100
   mayExpire   : SUBSET Nat]  \* the tokens that may get too old meanwhile

ASSUME ConstantsAssumption == Deployments \subseteq Deployment

VARIABLES
  deploy,  \* the configuration, chosen at the start
  rows,    \* the refresh tokens, in the order of their creation
  access,  \* the opaque access tokens
  call     \* the state of each request

vars == <<deploy, rows, access, call>>

Row == [state   : {"live", "revoked", "gone"},
        parent  : Nat,       \* the token it replaced, 0 for that of a code
        offline : BOOLEAN,   \* offline_access is among its scopes
        expired : BOOLEAN]
AccessToken == [by : Requests, ref : Nat]  \* ref: its refreshId, or 0

Steps == {"find", "swap", "create", "mint", "clear",
          "collect", "dropAccess", "dropRows"}
Ended == {"granted",  \* tokens were issued
          "revoked",  \* the revocation succeeded
          "torn",     \* refused, after the family was torn down
          "refused", "failed"}
Call == [op     : AllOps \cup {"none"},
         at     : {"idle"} \cup Steps \cup Ended,
         tok    : Nat,               \* the token it presents
         narrow : BOOLEAN,           \* its scope parameter leaves out offline_access
         jwt    : BOOLEAN,           \* its access token is signed, not stored
         child  : Nat,               \* the token it created
         cas    : {"none", "won", "lost"},  \* how its compare-and-swap went
         family : SUBSET Nat,        \* the tokens that its findMany returned
         ok     : BOOLEAN,           \* no branch of its Promise.all has failed
         floor  : Nat,               \* how many tokens there were when it started
         before : SUBSET Requests]   \* the requests that were granted then

NoCall == [op |-> "none", at |-> "idle", tok |-> 0, narrow |-> FALSE, jwt |-> FALSE,
           child |-> 0, cas |-> "none", family |-> {}, ok |-> TRUE, floor |-> 0, before |-> {}]

At(r, pc) == call[r].at = pc
Tok(r) == call[r].tok
Become(r, c) == call' = [call EXCEPT ![r] = c]
Goto(r, pc) == Become(r, [call[r] EXCEPT !.at = pc])
InFlight(r) == call[r].at \in Steps

\* The tokens a client was given. Any of them may come again.
Known == {call[q].child : q \in {p \in Requests : At(p, "granted")}} \ {0}

Init ==
  /\ deploy \in Deployments
  /\ rows = <<>>
  /\ access = {}
  /\ call = [r \in Requests |-> NoCall]

\* The code of an authorization_code grant was already consumed, once.
Start(r, op) ==
  /\ At(r, "idle")
  /\ Cardinality({q \in Requests : InFlight(q)}) < deploy.maxInFlight
  /\ \E t \in IF op = "code" THEN {0} ELSE Known :
     \E narrow \in IF op = "refresh" THEN BOOLEAN ELSE {FALSE} :
     \E jwt \in IF op # "revoke" /\ deploy.jwt THEN BOOLEAN ELSE {FALSE} :
       Become(r, [NoCall EXCEPT
         !.op = op, !.at = IF op = "code" THEN "create" ELSE "find",
         !.tok = t, !.narrow = narrow, !.jwt = jwt,
         !.floor = Len(rows), !.before = {q \in Requests : At(q, "granted")}])
  /\ UNCHANGED <<deploy, rows, access>>

-----------------------------------------------------------------------------
\* The token endpoint: handleRefreshTokenGrant, createUserTokens

\* Faulty: an expired token counts as a token that was used before.
FindHarsh(r) ==
  /\ At(r, "find")
  /\ LET x == rows[Tok(r)] IN
       Goto(r, IF x.state = "gone" THEN "refused"
               ELSE IF x.expired \/ x.state = "revoked" THEN "collect" ELSE "swap")
  /\ UNCHANGED <<deploy, rows, access>>

\* A token without offline_access is not replaced: it only buys access tokens.
Find(r) ==
  /\ At(r, "find")
  /\ LET x == rows[Tok(r)] IN
       Goto(r, IF x.state = "gone" \/ (x.expired /\ call[r].op = "refresh") THEN "refused"
               ELSE IF x.state = "revoked" THEN "collect"
               ELSE IF x.offline \/ call[r].op = "revoke" THEN "swap"
               ELSE IF call[r].jwt THEN "granted" ELSE "mint")
  /\ UNCHANGED <<deploy, rows, access>>

\* Faulty: the update does not ask whether the token is still unrevoked.
SwapUnguarded(r) ==
  /\ At(r, "swap")
  /\ IF rows[Tok(r)].state # "gone"
       THEN /\ rows' = [rows EXCEPT ![Tok(r)].state = "revoked"]
            /\ Become(r, [call[r] EXCEPT
                 !.at = IF call[r].op = "revoke" THEN "clear" ELSE "create", !.cas = "won"])
       ELSE /\ Become(r, [call[r] EXCEPT
                 !.at = IF call[r].op = "revoke" THEN "collect" ELSE "refused", !.cas = "lost"])
            /\ UNCHANGED rows
  /\ UNCHANGED <<deploy, access>>

\* Faulty: the token that is replaced is not marked.
SwapUnmarked(r) ==
  /\ At(r, "swap")
  /\ Become(r, [call[r] EXCEPT
       !.at = IF call[r].op = "revoke" THEN "clear" ELSE "create", !.cas = "won"])
  /\ UNCHANGED <<deploy, rows, access>>

\* The compare-and-swap, of both endpoints.
Swap(r) ==
  /\ At(r, "swap")
  /\ IF rows[Tok(r)].state = "live"
       THEN /\ rows' = [rows EXCEPT ![Tok(r)].state = "revoked"]
            /\ Become(r, [call[r] EXCEPT
                 !.at = IF call[r].op = "revoke" THEN "clear" ELSE "create", !.cas = "won"])
       ELSE /\ Become(r, [call[r] EXCEPT
                 !.at = IF call[r].op = "revoke" THEN "collect" ELSE "refused", !.cas = "lost"])
            /\ UNCHANGED rows
  /\ UNCHANGED <<deploy, access>>

Answer(r) == IF call[r].ok THEN "granted" ELSE "failed"

\* Faulty: the link to the token that was replaced is counted from zero.
CreateFromZero(r) ==
  /\ At(r, "create")
  /\ rows' = Append(rows, [state |-> "live", parent |-> Tok(r) - 1, expired |-> FALSE,
                           offline |-> ~call[r].narrow])
  /\ Become(r, [call[r] EXCEPT !.child = Len(rows) + 1,
                               !.at = IF call[r].jwt THEN Answer(r) ELSE "mint"])
  /\ UNCHANGED <<deploy, access>>

\* The new token has the scopes that were asked for.
Create(r) ==
  /\ At(r, "create")
  /\ rows' = Append(rows, [state |-> "live", parent |-> Tok(r), expired |-> FALSE,
                           offline |-> ~call[r].narrow])
  /\ Become(r, [call[r] EXCEPT !.child = Len(rows) + 1,
                               !.at = IF call[r].jwt THEN Answer(r) ELSE "mint"])
  /\ UNCHANGED <<deploy, access>>

\* createOpaqueAccessToken: with foreign keys, its refresh token must be there.
Mint(r) ==
  /\ At(r, "mint")
  /\ IF deploy.foreignKeys /\ call[r].child # 0 /\ rows[call[r].child].state = "gone"
       THEN Goto(r, "failed") /\ UNCHANGED access
       ELSE /\ access' = access \cup {[by |-> r, ref |-> call[r].child]}
            /\ Goto(r, Answer(r))
  /\ UNCHANGED <<deploy, rows>>

\* Another branch of the Promise.all throws; the request is answered with an
\* error, and this branch runs on.
Abandon(r) ==
  /\ At(r, "mint") \/ (At(r, "create") /\ call[r].jwt)
  /\ call[r].ok
  /\ Become(r, [call[r] EXCEPT !.ok = FALSE])
  /\ UNCHANGED <<deploy, rows, access>>

-----------------------------------------------------------------------------
\* The revocation endpoint: revokeRefreshToken, after the Swap

Clear(r) ==
  /\ At(r, "clear")
  /\ access' = {a \in access : a.ref # Tok(r)}
  /\ Goto(r, "revoked")
  /\ UNCHANGED <<deploy, rows>>

-----------------------------------------------------------------------------
\* invalidateRefreshFamily

Present == {t \in DOMAIN rows : rows[t].state # "gone"}

\* What findMany may answer, which is given neither a limit nor an order here.
Page ==
  {T \in SUBSET Present :
     \/ Cardinality(T) = deploy.limit
     \/ T = Present /\ Cardinality(T) < deploy.limit}

Collect(r) ==
  /\ At(r, "collect")
  /\ \E T \in Page :
       Become(r, [call[r] EXCEPT !.family = T,
                                !.at = IF T = {} THEN "dropRows" ELSE "dropAccess"])
  /\ UNCHANGED <<deploy, rows, access>>

DropAccess(r) ==
  /\ At(r, "dropAccess")
  /\ access' = {a \in access : a.ref \notin call[r].family}
  /\ Goto(r, "dropRows")
  /\ UNCHANGED <<deploy, rows>>

\* Faulty: only the token that was presented goes.
DropRowsOfOne(r) ==
  /\ At(r, "dropRows")
  /\ rows' = [rows EXCEPT ![Tok(r)].state = "gone"]
  /\ Goto(r, "torn")
  /\ UNCHANGED <<deploy, access>>

DropRows(r) ==
  /\ At(r, "dropRows")
  /\ rows' = [t \in DOMAIN rows |-> [rows[t] EXCEPT !.state = "gone"]]
  /\ access' = IF deploy.foreignKeys THEN {a \in access : a.ref = 0} ELSE access
  /\ Goto(r, "torn")
  /\ UNCHANGED deploy

-----------------------------------------------------------------------------
\* A storage call throws, or the process dies: the request ends where it is.
Fail(r) ==
  /\ InFlight(r)
  /\ Cardinality({q \in Requests : At(q, "failed")}) < deploy.maxFailures
  /\ Goto(r, "failed")
  /\ UNCHANGED <<deploy, rows, access>>

Expire(t) ==
  /\ t \in deploy.mayExpire /\ ~rows[t].expired
  /\ rows' = [rows EXCEPT ![t].expired = TRUE]
  /\ UNCHANGED <<deploy, access, call>>

Step(r) ==
  \/ Find(r) \/ Swap(r) \/ Create(r) \/ Mint(r) \/ Abandon(r)
  \/ Clear(r) \/ Collect(r) \/ DropAccess(r) \/ DropRows(r)

Idle == (\A r \in Requests : ~InFlight(r)) /\ UNCHANGED vars

Next ==
  \/ \E r \in Requests : \E op \in deploy.ops[r] : Start(r, op)
  \/ \E r \in Requests : Step(r)
  \/ \E r \in Requests : Fail(r)
  \/ \E t \in DOMAIN rows : Expire(t)
  \/ Idle

Spec == Init /\ [][Next]_vars

-----------------------------------------------------------------------------
(* Properties *)

\* The state has its type.
TypeOK ==
  /\ deploy \in Deployments
  /\ rows \in Seq(Row)
  /\ access \subseteq AccessToken
  /\ call \in [Requests -> Call]

\* The lines of tokens do not fork: a token is replaced at most once, however
\* many requests present it at the same time, and never while it can be used.
NoFork ==
  \A t \in DOMAIN rows : rows[t].parent # 0 =>
    /\ rows[rows[t].parent].state # "live"
    /\ \A u \in DOMAIN rows : rows[u].parent = rows[t].parent => u = t

\* A token that was used before takes the family with it: after the refusal,
\* no token that was there when the request came can be used again.
ReplayTearsDown ==
  \A r \in Requests : At(r, "torn") =>
    \A t \in 1..call[r].floor : rows[t].state = "gone"

\* And no access token that had been handed out with one of them. The database
\* sees to it when it has foreign keys. Without them it takes requests that do
\* not overlap, since a row created between the two deleteMany calls takes its
\* access token's link with it, and families that fit into one answer.
OneByOne == deploy.maxInFlight = 1
FullPage(r) == Cardinality(call[r].family) = deploy.limit
Whole == OneByOne /\ \A q \in Requests : ~FullPage(q)
FamilyAccessGone ==
  \A r \in Requests : At(r, "torn") =>
    \A a \in access : a.ref # 0 => a.by \notin call[r].before
AccessTornDown == deploy.foreignKeys \/ Whole => FamilyAccessGone

\* A revocation that succeeded ends the token, what it could be exchanged for,
\* and the access tokens issued with it, whatever rotation raced with it.
RevocationEnds ==
  \A r \in Requests : At(r, "revoked") =>
    /\ rows[Tok(r)].state # "live"
    /\ \A t \in DOMAIN rows : rows[t].parent # Tok(r)
    /\ \A a \in access : a.ref # Tok(r)

\* A replay or a revocation that was answered has ended everything that it knew of.
TornDown == ReplayTearsDown /\ AccessTornDown /\ RevocationEnds

Presented(t) == {r \in Requests : call[r].op \in {"refresh", "revoke"} /\ Tok(r) = t}

\* A client that presents every token once keeps its session: a token that it
\* was given is good until it presents it, also when requests overlap and fail.
KeptByCarefulClient ==
  (\A t \in DOMAIN rows : Cardinality(Presented(t)) <= 1) =>
    \A t \in DOMAIN rows : rows[t].state # "live" => Presented(t) # {}

\* After a revocation that lost the race to a rotation, and tore the family
\* down, the token that the rotation issued cannot be used either.
OffspringUnusable ==
  \A r \in Requests :
    call[r].op = "revoke" /\ call[r].cas = "lost" /\ At(r, "torn") =>
      \A t \in DOMAIN rows : rows[t].parent = Tok(r) => rows[t].state # "live"

\* The refresh tokens are single-use values: at most one request, of either
\* endpoint, ever uses one up, and it never becomes usable again.
Promise == INSTANCE SingleUse WITH
  Callers  <- Requests,
  issued   <- Len(rows),
  live     <- {t \in DOMAIN rows : rows[t].state = "live"},
  redeemed <- {<<r, Tok(r)>> : r \in {q \in Requests : call[q].cas = "won"}}
ImplementsSingleUse == Promise!Spec
=============================================================================
