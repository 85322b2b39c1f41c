------------------------------- MODULE Plugins -------------------------------
(***************************************************************************)
(* The rate limiter (by EXTENDS) beside plugins, and parts of the database *)
(* layer that they stand on. They share no state: part says which of them  *)
(* moves, and the others stay as they began.                               *)
(***************************************************************************)
EXTENDS RateLimiter

CONSTANTS
  \* Organization and ApiKeys
  Users, Past, Organizations, Keyrings,
  \* TransactionHooks and AdapterFallbacks
  Transactions, Adapters,
  \* Reservation and Subscriptions
  Submissions, Assertions, Buyers, Foreign, Loads,
  \* KeyRotation
  Never, Rotations

VARIABLES
  part,
  \* Organization
  oDeploy, members, invitations, team, teamRows, oCall, raced, cut,
  \* ApiKeys
  kDeploy, kNow, kRow, kCache, kCall, uses, topUps, slots, backdated, wasted,
  \* TransactionHooks
  hDeploy, hRow, holder, hCall, hFaults,
  \* AdapterFallbacks
  fDeploy, table, fCall,
  \* Reservation
  vDeploy, vNow, vRow, vCache, vCall, vFaults,
  \* Subscriptions
  sDeploy, rows, stripe, events, hook, sCall, changes, harm,
  \* KeyRotation
  jDeploy, jNow, keys, tokens, jCall, failures

organization == <<oDeploy, members, invitations, team, teamRows, oCall, raced, cut>>
apiKeys == <<kDeploy, kNow, kRow, kCache, kCall, uses, topUps, slots, backdated, wasted>>
transactionHooks == <<hDeploy, hRow, holder, hCall, hFaults>>
adapterFallbacks == <<fDeploy, table, fCall>>
reservation == <<vDeploy, vNow, vRow, vCache, vCall, vFaults>>
subscriptions == <<sDeploy, rows, stripe, events, hook, sCall, changes, harm>>
keyRotation == <<jDeploy, jNow, keys, tokens, jCall, failures>>

OG == INSTANCE Organization WITH
  Deployments <- Organizations, deploy <- oDeploy, call <- oCall
AK == INSTANCE ApiKeys WITH
  Deployments <- Keyrings, deploy <- kDeploy, now <- kNow, row <- kRow, cache <- kCache,
  call <- kCall
TH == INSTANCE TransactionHooks WITH
  Deployments <- Transactions, deploy <- hDeploy, row <- hRow, call <- hCall, faults <- hFaults
AF == INSTANCE AdapterFallbacks WITH Deployments <- Adapters, deploy <- fDeploy, call <- fCall
RV == INSTANCE Reservation WITH
  Requests <- Submissions, Deployments <- Assertions, deploy <- vDeploy, now <- vNow,
  row <- vRow, cache <- vCache, call <- vCall, faults <- vFaults
SB == INSTANCE Subscriptions WITH
  Requests <- Buyers, Deployments <- Loads, deploy <- sDeploy, call <- sCall
KR == INSTANCE KeyRotation WITH
  Deployments <- Rotations, deploy <- jDeploy, now <- jNow, call <- jCall

ASSUME PluginsAssumption ==
  /\ OG!ConstantsOK /\ AK!ConstantsOK /\ TH!ConstantsOK /\ AF!ConstantsOK
  /\ RV!ConstantsOK /\ SB!ConstantsOK /\ KR!ConstantsOK

\* A component that does not move has one of its first states.
AllInit ==
  /\ part \in {"RateLimiter", "Organization", "ApiKeys", "TransactionHooks",
               "AdapterFallbacks", "Reservation", "Subscriptions", "KeyRotation"}
  /\ Init /\ (part = "RateLimiter" \/ deploy = CHOOSE d \in Deployments : TRUE)
  /\ OG!Init /\ (part = "Organization" \/ oDeploy = CHOOSE d \in Organizations : TRUE)
  /\ AK!Init /\ (part = "ApiKeys" \/ kDeploy = CHOOSE d \in Keyrings : TRUE)
  /\ TH!Init /\ (part = "TransactionHooks" \/ hDeploy = CHOOSE d \in Transactions : TRUE)
  /\ AF!Init /\ (part = "AdapterFallbacks" \/ fDeploy = CHOOSE d \in Adapters : TRUE)
  /\ RV!Init /\ (part = "Reservation" \/ vDeploy = CHOOSE d \in Assertions : TRUE)
  /\ SB!Init /\ (part = "Subscriptions" \/ sDeploy = CHOOSE d \in Loads : TRUE)
  /\ KR!Init /\ (part = "KeyRotation" \/ jDeploy = CHOOSE d \in Rotations : TRUE)

AllNext ==
  \/ /\ part = "RateLimiter" /\ Next
     /\ UNCHANGED <<part, organization, apiKeys, transactionHooks,
                    adapterFallbacks, reservation, subscriptions, keyRotation>>
  \/ /\ part = "Organization" /\ OG!Next
     /\ UNCHANGED <<part, vars, apiKeys, transactionHooks,
                    adapterFallbacks, reservation, subscriptions, keyRotation>>
  \/ /\ part = "ApiKeys" /\ AK!Next
     /\ UNCHANGED <<part, vars, organization, transactionHooks,
                    adapterFallbacks, reservation, subscriptions, keyRotation>>
  \/ /\ part = "TransactionHooks" /\ TH!Next
     /\ UNCHANGED <<part, vars, organization, apiKeys,
                    adapterFallbacks, reservation, subscriptions, keyRotation>>
  \/ /\ part = "AdapterFallbacks" /\ AF!Next
     /\ UNCHANGED <<part, vars, organization, apiKeys,
                    transactionHooks, reservation, subscriptions, keyRotation>>
  \/ /\ part = "Reservation" /\ RV!Next
     /\ UNCHANGED <<part, vars, organization, apiKeys,
                    transactionHooks, adapterFallbacks, subscriptions, keyRotation>>
  \/ /\ part = "Subscriptions" /\ SB!Next
     /\ UNCHANGED <<part, vars, organization, apiKeys,
                    transactionHooks, adapterFallbacks, reservation, keyRotation>>
  \/ /\ part = "KeyRotation" /\ KR!Next
     /\ UNCHANGED <<part, vars, organization, apiKeys,
                    transactionHooks, adapterFallbacks, reservation, subscriptions>>

allVars == <<part, vars, organization, apiKeys, transactionHooks, adapterFallbacks,
             reservation, subscriptions, keyRotation>>
AllSpec == AllInit /\ [][AllNext]_allVars

-----------------------------------------------------------------------------
(* The properties of the components; those of RateLimiter have its names.  *)
(* What a component promises is asked of it while it moves.                *)

\* The state of the component that moves has its type.
AllTypeOK ==
  CASE part = "RateLimiter"      -> TypeOK
    [] part = "Organization"     -> OG!TypeOK
    [] part = "ApiKeys"          -> AK!TypeOK
    [] part = "TransactionHooks" -> TH!TypeOK
    [] part = "AdapterFallbacks" -> AF!TypeOK
    [] part = "Reservation"      -> RV!TypeOK
    [] part = "Subscriptions"    -> SB!TypeOK
    [] part = "KeyRotation"      -> KR!TypeOK

\* An invitation is answered once, and acceptable again after a failure; an
\* organization keeps an owner, its limits, and no rows of what is gone.
OrganizationSound ==
  part = "Organization" => OG!InvitationSettled /\ OG!MembershipSound
\* A key is used within its quota and its rate limit, refilled once when that is
\* due, and not used from a cache that is behind what was answered.
KeysSound == part = "ApiKeys" => AK!BudgetsKept /\ AK!KeyStateCounts
\* Hooks run after the end of their transaction, and a row is taken once.
TransactionsSound == part = "TransactionHooks" => TH!TransactionsSound
\* A row that is consumed is a single-use value, native or by the fallback.
ConsumesOnce == AF!ConsumesOnce
\* A guarded increment takes each unit once, and a stamp is swapped once.
GuardedOnce == part = "AdapterFallbacks" => AF!GuardedOnce
\* One submission of an assertion passes.
ReplayRefused == part = "Reservation" => RV!ReplayRefused
\* The rows of subscriptions follow Stripe.
SubscriptionsSound == part = "Subscriptions" => SB!SubscriptionsSound
\* A token can be verified until it ends.
TokensVerifiable == part = "KeyRotation" => KR!TokensVerifiable
=============================================================================
