# TLA+ models of shinauth

These modules model the parts of shinauth (`src/packages/*`) in which requests,
processes, a database and a cache meet: where a value must be used once, a session
must stay revoked, a counter must not be overrun, a stolen token must end its
family, a ban must hold. TLC checks them on small instances, and TLAPS proves most
of the safety properties for every size.

Contents: [the system](#the-system), [the modules](#the-modules),
[the runs](#the-runs), [findings](#findings),
[observations](#what-the-models-show-besides), [proofs](#proofs),
[what is not modelled](#what-is-not-modelled), [plan](#plan).

## The system

shinauth is a TypeScript authentication library. An application mounts one HTTP
handler; a request is routed to an endpoint of the core or of a plugin, and the
endpoints work on a *database* through an adapter, and, when the application
gives one, on a *secondary storage* (Redis, with expiring keys). Any number of
server processes run the same code on the same storage; within one process a
request runs until it awaits something, so a step is the code between two
awaits. Nothing by default puts several storage calls into one transaction
(`transaction: false`), and what keeps requests apart is single atomic calls:
`consumeOne`, `incrementOne` and guarded updates in the database, `getAndDelete`
and `increment` in the cache.

| component | state it keeps | operations | hard about it | correct when |
|---|---|---|---|---|
| **Verification values** `db/internal-adapter.ts` | rows by identifier; a cached copy; per process the chain of locks | create, find, consume, delete, update | processes race for one row; two stores; a lock with failures; old rows under another key | a value goes to one consumer; what was consumed or deleted does not come back |
| **Reservations** `db/internal-adapter.ts`, `sso/src/routes/saml-pipeline.ts` | a tombstone in the database, in the cache, or in both | reserve, by a SAML sign-in | an error of create may be a duplicate or a failure; the purge of expired tombstones | an accepted assertion is refused until the end of its tombstone; nothing but a replay is |
| **Sessions** `db/internal-adapter.ts` | rows; cached copies with their user; the list of a user's sessions | create, find, update, delete, list; update of the user | copies and lists kept by get-then-set; two stores; `Promise.all` | revoked stays revoked; no session lost; updates seen |
| **Rate limiter** `api/rate-limiter` | counter and last request per key, in four kinds of storage | consume; sweep in the background | guarded writes, their misses and retries; clocks read early | no more pass than the rule says; nobody refused without cause; retries end |
| **Adapter fallbacks** `core/src/db/adapter/factory.ts` | none | consumeOne, incrementOne where the adapter has none | find, then guarded write; a count that may be wrong | a row is consumed once, a guarded increment decided once |
| **Transactions and hooks** `core/src/context/transaction.ts`, `db/with-hooks.ts` | hooks queued per transaction | nested transactions, writes, after-hooks | hooks of a transaction that rolled back; hooks that throw | a hook runs after its transaction ended, and is not forgotten |
| **Refresh tokens** `oauth-provider/src/token.ts`, `revoke.ts` | tokens with their revocation; access tokens | issue, rotate, replay, tear down, revoke | read, compare-and-swap, create, in separate calls | one successor; a replay ends the family; a revocation is final |
| **Device authorization** `plugins/device-authorization` | device code: status, claim, last poll | issue, poll, claim, approve, deny | check-then-update against polling | one session per code; a decision is final |
| **Two-factor** `plugins/two-factor` | secret, backup codes, failure counter, lock; challenge, its attempts, OTP | enable, disable, send, verify, generate | counters racing their own resets; consume and put back | attempts bounded; a challenge and a code used once; locks engage and stay |
| **Email and phone OTP** `plugins/email-otp`, `phone-number` | a verification value per sending, each a code with its attempts | send, check, verify | consumed, then made again with one attempt more; single-row updates of one of several rows | guesses bounded; a code accepted once and in its time |
| **Account access** `api/routes`, `oauth2/link-account.ts`, `db/revoke-unproven-account-access.ts`, `plugins/magic-link`, `email-otp` | the user's row, accounts, sessions | sign-up, sign-in, proof of the mailbox, confirmation, reset, change, social sign-in, unlink | read-then-write over three tables by two people | who proves the mailbox shares the account with nobody from before; a reset ends old passwords |
| **Bans** `plugins/admin` | ban and its end on the user's row; sessions | ban, unban, impersonate, remove, revoke; the check of each new session | check-then-create against ban-then-delete; auto-unban | a ban ends the sessions there are, and no later sign-in gets past it |
| **Organization** `plugins/organization` | members, invitations, a team | invite, accept, reject, cancel, add, remove, leave, change role, remove team | count-then-insert; the last owner; transactions or not | an invitation is answered once; an owner stays; limits hold up to what raced |
| **API keys** `packages/api-key` | remaining, refill, rate-limit window; a cached copy | verify, update, delete | refill and count race; quota and limit in two calls; stale copies | quota and limit not overrun; what is written counts |
| **Stripe subscriptions** `packages/stripe` | subscription rows mirroring Stripe's | upgrade, success page, cancel, restore; four webhooks | events repeated and reordered between the steps of requests | rows follow Stripe; no second checkout or trial |
| **Signing keys** `plugins/jwt` | rows of `jwks` | sign, key set, verify, rotate | several processes create keys; a query's limit; grace period | a token can be verified until it ends |

The rest (passkey, OIDC provider and MCP, OAuth clients and consent, SCIM, one-time
token, SIWE, cookies and cookie cache, anonymous, multi-session and the other small
plugins, database adapters, Redis, client library, Electron and Expo, crypto, CLI,
i18n, telemetry, demos, docs) keeps no state of its own that more than one step
relates, stands on one consume of a verification value, or is pure I/O or
conversion. `PROJECT.json` lists each with the reason, and lists the hazards of the
code at the line where each bites.

**Interactions.** Endpoints call the internal adapter; that calls the adapter's
atomic operations through `with-hooks.ts` (which searches before it deletes, and
queues after-hooks for the end of the transaction it runs in), and through the
factory, which falls back to find and guarded write where the database has no
atomic operation. The verification store is what magic links, OTPs, reset tokens,
authorization codes, passkey challenges, two-factor challenges and SAML tombstones
stand on: `VerificationStore` shows when it is a single-use store, and the modules
above it build on that. `OneTimeCodes` keeps the rows, because a single-row update or
delete need not reach the row that the next find reads; `TwoFactor` takes a challenge, an
attempt counter and an OTP as registers that create overwrites and consume empties: the
first two have one row at a time, and of several OTPs a consume takes the newest and
deletes the rest (that an older one can be claimed, with its own count, between the two
calls is left to `OneTimeCodes`); nothing there updates or deletes by identifier. Sessions are read by every endpoint that needs a
user; `updateUser` writes into cached sessions; every new session passes the hook of
the admin plugin. The rate limiter runs before every endpoint. The token endpoint of
the OAuth provider consumes an authorization code (a verification value) once and
then issues refresh tokens. The webhook of the stripe plugin and its endpoints meet
only in the subscription rows.

## The modules

| module | what it is |
|---|---|
| `SingleUse` | abstract: what a store of single-use values promises |
| `VerificationStore` | verification values |
| `RefreshTokens` | refresh tokens of one client and user |
| `DeviceAuthorization` | one device code |
| `SessionStore` | sessions of one user |
| `TwoFactor` | second factors of one account |
| `OneTimeCodes` | codes sent to one address or number |
| `AccountAccess` | the ways into the account of one email address |
| `UserBans` | bans, removals and impersonation |
| `Factors` | `SessionStore` (by EXTENDS) beside the four modules above it in this list |
| `RateLimiter` | the rate limiter |
| `Organization` | members, invitations and a team of one organization |
| `ApiKeys` | one API key |
| `TransactionHooks` | nested transactions and the after-hooks of their writes |
| `AdapterFallbacks` | consumeOne and incrementOne of the factory |
| `Reservation` | one SAML assertion and its tombstone |
| `Subscriptions` | the subscriptions of one customer |
| `KeyRotation` | the signing keys |
| `Plugins` | `RateLimiter` (by EXTENDS) beside the seven modules above it in this list |
| `MC*` | small instances of a module, for TLC |
| `*Proofs` | theorems about a module, and for `FactorsProofs` and `PluginsProofs` about what is beside it |

**Bundles.** The components of `Factors` share no state with each other, and so do
those of `Plugins`; each is an INSTANCE with variables of its own. `part`, chosen at
the start, says which of them moves; the others stay in one of their first states.
A bundle is a way to check many components in one run, not a composition: TLC
explores the sum of their state spaces and not the product, and a component's
property is asked of it while it moves. A theorem about a bundle follows from one
about the component, because `AllSpec` implies the specification of each (`Parts`).

All components are built alike. `call[r]` is the local state of request `r`: its
operation, the place `at` where it is (named for what comes next) and what it has
read. An action is the work from one await to the next, reads that nothing
separates but other reads being one step; its name is that of the place. `deploy` is
the configuration, chosen in `Init` from the constant `Deployments` and never
changed, so that one run covers several configurations and a theorem covers them
all. `Fail` is a storage call that throws (the request ends there, `finally` blocks
included) or a process that dies. Definitions marked "Faulty" are not used: they are
the mutants of `PROJECT.json`, a plausible bug for each property, which TLC finds.

### `VerificationStore`

One identifier, over the database, the cache, or both.

| TLA+ | code (`internal-adapter.ts`) |
|---|---|
| `table` | rows of `verification`: identifier, createdAt, expiresAt |
| `cache` | `verification:<identifier>` in the secondary storage, with its expiry |
| `lockq` | `verificationConsumeLocks` (line 50): per process, the promise chain of a key |
| `Keys`, `LastTry`, `NextTry` | `identifiersToTry`: the stored form and, when hashed, the plain one |
| `Enter` .. `Purge` | consume with a database: lock, latest row, `consumeOne`, `deleteMany` |
| `Take`, `Get`/`Del`, `Uncache` | consume in the cache, with and without `getAndDelete` |
| `Gate` | the expiry check at the end of consume |
| `Insert`, `Fill` | create | 
| `Lookup`, `Find`, `Cleanup` | find, with its clean-up of expired rows |
| `Evict`, `Probe`, `Erase` | delete, through `deleteWithHooks` |
| `Fetch`, `Refill`, `Amend` | update |
| `Reached` | what adapter.delete and adapter.update by identifier reach: every matching row in the SQL adapters and in memory, one of them, any one, in MongoDB (`deploy.single`) |
| `Crash(p)` | process `p` dies: its requests end, its locks are gone, the stores stay |

A value is its *generation*, a number in order of arrival; `spent` (history) is
the newest generation that a finished consume, or a delete that left no row, had to
invalidate, and
`floor` what `spent` was when a request began.

### `SessionStore`

The sessions of one user. A cached copy shows a set of updates: the identities
of the requests whose changes it contains; so "sees the update" is membership.

| TLA+ | code (`internal-adapter.ts`) |
|---|---|
| `rows`, `saved` | table `session`; the updates the tables contain |
| `cache` | the entry of each token: session and user, as JSON |
| `list` | `active-sessions-<userId>` |
| `CacheOnly` | `preserveSessionInDatabase`, or no `storeSessionInDatabase` |
| `Insert` .. `Store` | createSession |
| `Find`, `Read` | findSession with its fallback to the table |
| `Merge` .. `Amend` | updateSession |
| `Check` .. `Erase` | deleteSession |
| `Members` .. `EraseAll` | deleteUserSessions |
| `Peek`, `Drop`, `EraseMany` | deleteSessions |
| `Browse`, `Show`, `ReadAll` | listSessions; from the table, one `Page` of it |
| `Save`, `Devices`, `RefreshGet`, `RefreshSet`, `RefreshFail` | updateUser and `refreshUserSessions`: a `Promise.all` whose branches interleave, and go on after one of them threw |
| `Lose` | the secondary storage evicts an entry |

Nothing expires in this module: it has no clock.

### `RateLimiter`

| TLA+ | code (`api/rate-limiter/index.ts`) |
|---|---|
| `store` | count and lastRequest of each key; `exp` where the storage forgets it |
| `deploy.rule` | what `resolveRateLimitConfig` returns for the key |
| `Read` .. `Verify` | consume over the database: create, guarded reset, guarded increment, second look |
| `Sweep` | `deleteExpiredRows`, not awaited |
| `Consume` | the memory of the process: one step |
| `Count` | the secondary storage's atomic `increment` |
| `Get`, `Set` | the fallback for a storage that has only get and set |
| `clock` | `Date.now()`, as the request read it; the clock may move before it is used |
| `maxDelay` | how long the write that uses it may take |

### `RefreshTokens`

| TLA+ | code (`token.ts`, `revoke.ts`) |
|---|---|
| `rows` | `oauthRefreshToken`, numbered by creation; `"revoked"` is `revoked != null`, `"gone"` is deleted |
| `access` | `oauthAccessToken` with its `refreshId` |
| `Find` | `findOne` and the checks after it, of both endpoints |
| `Swap` | the update guarded by `revoked == null` |
| `Create`, `Mint`, `Abandon` | the new refresh token, then the access token that refers to it; `Abandon` is another branch of the same `Promise.all` that throws |
| `Clear` | revokeRefreshToken's deletion of access tokens |
| `Collect`, `DropAccess`, `DropRows` | `invalidateRefreshFamily`, which lists one `Page` of the family |
| `parent` | history: which token was exchanged for it |

A request presents only tokens that a client was given. Clients are one here, so
the client checks always succeed. Foreign keys are a configuration, because the
generated schemas have them and the document databases do not.

### `DeviceAuthorization`

One device code, after the device endpoint issued it.

| TLA+ | code (`plugins/device-authorization/routes.ts`) |
|---|---|
| `row` | the row of `deviceCode`: status, user, time of the last poll; `"gone"` is deleted |
| `deploy.bound` | the `user_id` with which the device asked for the code, if any |
| `Find` .. `Issue` | deviceToken: look the code up, check the interval, write the time of the poll, judge by the record that was read *before* that write, then delete, or claim with `consumeOne` and create the session |
| `Look`, `Bind` | deviceVerify, GET /device: the page of the user code, which binds the code to the user who is signed in, guarded on nobody being bound |
| `Review`, `Settle` | deviceApprove and deviceDeny: the checks, then an update by id only |
| `Me(r)` | the user of the session with which the request comes, if any |
| `winner` | history: the user of the code that a poll claimed |
| `before` | history: the requests that had ended when this one started; "after" in the properties means this |
| `Claimant(u)` | the device named `u`, or `u` opened the page |

The checks of client and grant type return before anything is written, and
the session the poll creates is a session of `SessionStore`.

### `TwoFactor`

One account. What a wrong code costs is counted in three places: in the challenge's
`2fa-attempts` value, in the OTP, and in the account's row.

| TLA+ | code (`plugins/two-factor`) |
|---|---|
| `rows`, `enabled` | table `twoFactor`; `user.twoFactorEnabled` |
| `challenge`, `budget`, `otp` | verification values: the challenge of a sign-in, `2fa-attempts-<challenge>`, `2fa-otp-<key>` |
| `Open` | verifyTwoFactor: session or challenge |
| `Admit`, `Unlock` | assertTwoFactorNotLocked, which clears a lock that is over |
| `Begin`, `Cancel`, `Check`, `Restore` | beginAttempt's consume, the comparison of a TOTP code, the restore of an attempt |
| `Take`, `Rearm` | verifyOTP: consume the OTP, make it again with one failure more |
| `Cas` | verifyBackupCode: the guarded write of the codes that are left |
| `Count`, `Lockdown`, `Reset`, `Clear` | recordTwoFactorFailure and resetTwoFactorFailures |
| `Burn`, `Session` | the end of a right code: the challenge is deleted, the session made |
| `Make`, `Rewrite` | send2FaOTP; generateBackupCodes |
| `Find`, `Wipe`, `Create`, `TurnOn`, `Mark`, `TurnOff` | enableTwoFactor, its proof, disableTwoFactor |
| `Expire` | a challenge, an attempt counter or an OTP expires |
| `guessed`, `tried`, `redeemed`, `streak` | history: what the properties count |

### `OneTimeCodes`

One address or number, in the database. `rows` are its verification values: code,
failures, end, and when the row was made.

| TLA+ | code (`plugins/email-otp`, `plugins/phone-number`) |
|---|---|
| `Found`, `Swept` | findVerificationValue: the newest row (any of the newest, when they were made together), and its clean-up |
| `Reached` | as in `VerificationStore` |
| `Look`, `Extend` | tryReuseOTP: the code that is there gets a new end |
| `Make`, `Remake`, `Delete` | resolveOTP: create, and on an error delete and create again; the deletion for an address that nobody has |
| `Peek` | the look at the value by checkVerificationOTP and verifyPhoneNumberOTP; for a check the comparison too |
| `Bump` | checkVerificationOTP writes the code it read with one failure more, over whatever the update reaches |
| `Take`, `Claim`, `Wipe` | consumeVerificationValue: read the newest row, claim it by id, delete the others |
| `Judge`, `Rearm` | atomicVerifyOTP: compare, make a new row after a wrong guess |
| `missed`, `accepted`, `lastSend` | history: wrong guesses compared with a code, its acceptances, the last sending |

### `AccountAccess`

Two people: the owner of the address and somebody who typed it. A password, a session
and an identity are named by the request they come from, and `Who` says whose that is.

| TLA+ | code |
|---|---|
| `user`, `accounts`, `sessions` | the rows of the user, accounts and sessions |
| `CreateUser`, `NewAccount` | signUpEmail, with or without a transaction; createOAuthUser |
| `Enter`, `Find`, `Session` | signInEmail, signInEmailOTP, magicLinkVerify: the reads, then the session |
| `Reread`, `Accounts`, `Strip`, `Revoke`, `Flip` | revokeUnprovenAccountAccess and the verification that follows it |
| `Mine`, `Vouched`, `SocialNext`, `Link` | findOAuthUser, handleOAuthUserInfo: implicit linking |
| `Credentials`, `Replaced`, `Password`, `Overwrite`, `Rewrite` | resetPassword, resetPasswordEmailOTP, changePassword |
| `Unlink` | unlinkAccount |
| `old`, `had`, `racing`, `quiet` | history: what was there, and who was at work, when a request began |

### `UserBans`

| TLA+ | code (`plugins/admin`) |
|---|---|
| `users` | banned, banExpires; whether the row is there; `ban` (history) is who wrote the ban |
| `sessions` | rows, with who impersonates; `seen` and `after` (history): the bans that came before the check, the deletions that came before the session |
| `Enter`, `Check`, `Lift`, `Create` | impersonateUser or a sign-in: the hook of admin.ts reads the row, lifts a ban that is over, and the session is made |
| `Write`, `Revoke` | banUser and adminUpdateUser: the row, then the sessions |
| `DeleteSessions`, `DeleteUser` | removeUser; `deploy.cascade` says whether the database has foreign keys |
| `Return` | stopImpersonating |

### `Organization`

| TLA+ | code (`plugins/organization`) |
|---|---|
| `members`, `invitations`, `team`, `teamRows` | the tables |
| `LookPending`, `Extend`, `CancelOld`, `Vacancy`, `Create` | createInvitation |
| `Find`, `Count`, `Claim`, `Team`, `TeamAdd`, `Member`, `Active`, `Abort`, `Release` | acceptInvitation: the guarded claim, then its effects in a transaction, and the release when they fail |
| `Status` | rejectInvitation, cancelInvitation: an unguarded write |
| `Page`, `PendingOf`, `Live` | findMany, and the filter behind it: expired invitations count towards the limit of a query |
| `CountOwners`, `TakeOut`, `LeaveTeam`, `Delete`, `Update` | removeMember, leaveOrganization, updateMemberRole |
| `ListTeam`, `Strip`, `DropTeam` | removeTeam |
| `raced`, `joined`, `gone`, `beside` | history: what a request overlapped with |
| `cut` | history: a removal of the team listed as many invitations as a query answers |

### `ApiKeys`

| TLA+ | code (`packages/api-key/src`) |
|---|---|
| `row`, `cache` | the row of the key; its copy, where secondary storage is used with `fallbackToDatabase` |
| `Load`, `LoadDb`, `Fill`, `Decide` | getApiKey, validateApiKey and evaluateRateLimit |
| `Refill`, `Take`, `Taken` | consumeRemaining: the compare-and-swap of a refill, the guarded decrement |
| `First`, `Reset`, `Increment`, `Reread` | consumeRateLimit |
| `Stamp`, `Recache` | the end of claimUsageInDatabase: lastRequest, the cache |
| `Write`, `Uncache`, `Remove` | updateApiKey, deleteApiKey |
| `uses`, `slots`, `topUps` | history: what was granted |

### `TransactionHooks`, `AdapterFallbacks`, `Reservation`

| TLA+ | code |
|---|---|
| `Begin`, `Leave`, `Commit`, `Throw`, `Close` | runWithTransaction and runWithAdapter, joined or new |
| `Create`, `FindEntity`, `Delete`, `Consume` | the writes of with-hooks.ts, each queueing its hook |
| `Hook`, `HookThrows`, `Drained` | the loop over the queue of hooks |
| `log` | history: a write, its context, fate and hook |
| `Native` | the adapter's own consumeOne and incrementOne |
| `Find`, `Write` | the fallbacks of factory.ts: findMany, then a write guarded by what was read, and won when it counts a row |
| `isolated`, `counted` | the adapter has transactions that keep others out; its writes count the rows they changed. `Reliable`: it has one of these, or its own operations |
| `take`, `swap` | the two uses of incrementOne in this repository: a guarded decrement, and a stamp that must not have changed |
| `Check`, `Get`, `Create`, `CreateThrows`, `Confirm`, `Copy` | validateSAMLTimestamp and reserveVerificationValue; the read that tells a duplicate from a failure |
| `Ttl` | getTTLSeconds: whole seconds, rounded down; `second` steps of the clock make one |
| `dated`, `life` | the assertion has a notOnOrAfter, or its tombstone lasts DEFAULT_ASSERTION_TTL_MS |
| `Purge`, `Forget` | the clean-up of expired rows by some findVerificationValue; the cache's time to live |

### `Subscriptions`

| TLA+ | code (`packages/stripe/src`) |
|---|---|
| `rows` | table `subscription` |
| `stripe`, `events` | Stripe (external): its subscriptions, and what it has yet to tell |
| `Review`, `List`, `Match`, `Adopt`, `Reserve`, `Judge`, `Open` | upgradeSubscription, up to the checkout it opens |
| `Look`, `Fetch`, `Activate` | subscriptionSuccess |
| `Find`, `Check`, `Remove`, `Resync`, `Sync` | cancelSubscription |
| `Restore`, `Revive`, `Renew`, `ClearRow` | restoreSubscription |
| `Receive` .. `Write` | stripeWebhook: one event, in the steps of its handler |
| `Pay`, `Dashboard`, `Change`, `CancelLater`, `Tell` | Stripe and its customer |

### `KeyRotation`

| TLA+ | code (`plugins/jwt`) |
|---|---|
| `keys` | rows of `jwks`: when made, when a key ends |
| `Find`, `Latest` | getLatestKey, getAllKeys, through a findMany that answers at most `limit` rows, any of them |
| `Make`, `Insert` | createJwk |
| `Sign` | signJWT |
| `Shown`, `Answer` | the key set, with the grace period; verifyJWT |
| `lost` | history: tokens in their time that a request could not verify |

## The runs

Two workers take between one and three minutes for each passing run. Each
of them checks the type invariant of what it runs (`verification_answered` excepted,
which is about progress alone).

| run | shows | distinct states |
|---|---|---|
| `verification` | `AtMostOnce`, `NoReplay`, `FindFresh`, and that the store implements `SingleUse`, in the five deployments where consume is meant to be single use, with a database that deletes one row among them | 1.86 M |
| `verification_answered` | `Answered`: every request that starts ends, whatever those ahead of it in the lock chain do | 0.11 M |
| `session_update` | violates `RevokedStaysRevoked`: a refresh of cached users beside a revocation | |
| `rate_sweep` | violates `SweptAreExpired`: a rule longer than those the sweep knows | |
| `refresh` | `NoFork`, `TornDown` (a replay ends its family, access tokens included; a revocation is final), `KeptByCarefulClient`, and that refresh tokens implement `SingleUse` | 2.52 M |
| `refresh_revoke` | violates `OffspringUnusable`: a revocation that lost to a rotation | |
| `device` | `GrantedToApprover`, `DecisionStands`, `PollsHonoured` (an approval counts; polls are spaced), and that a device code implements `SingleUse` | 2.24 M |
| `factors` | sessions: `RevokedStaysRevoked`, `SessionsSurvive`, `UndisturbedSeesAll`; second factors: `BudgetsHold`, `FactorUsedOnce`, `EnrolmentOrdered`, and the action property `LiveLockKept`; codes: `CodeTermsKept`; accounts: `OnePersonsAccount`, `ResetEndsOldAccess`; bans: `BansHold` | 1.70 M |
| `codes_attempts` | violates `AttemptsLimited`: a code sent twice, in MongoDB | |
| `bans_permanent` | violates `PermanentBansStay`: a ban without an end over one that has one | |
| `plugins` | rate limiter: `LimitHeld`, `BlockedForCause`, and the action property `RetriesForCause`; `OrganizationSound`; `KeysSound`; `TransactionsSound`; fallbacks: `GuardedOnce`, and `ConsumesOnce`, a refinement of `SingleUse`; `ReplayRefused`; `SubscriptionsSound`; `TokensVerifiable` | 1.60 M |
| `api_key_refill` | violates `OneWinsRefill`: requests one after the other, and a due refill that nobody wins | |

A property whose name joins several (`BudgetsHold`, `OrganizationSound`) is the
conjunction of parts that are named and explained in the component's module.

### Bounds, and why they are enough

- **Requests.** Four (five in `RefreshTokens` and `DeviceAuthorization`, three in
  `Reservation` and `Subscriptions`). The races of this code are between two requests,
  started by a third (that creates what they race for) and observed by a fourth. Which
  operations a request may be is `ops`, so that the states go to the interesting
  combinations, each named in a comment of its MC module; requests with the same
  operations have no order, and none of the modules orders their names. The theorems
  have no bound on requests.
- **`maxInFlight`, `serial`, `maxPolls`.** How many requests run at a time. Sequences,
  with one at a time, cover what needs many finished operations, and what the code
  provides only without overlap. With `maxInFlight = 1` a request still interleaves
  with itself where the code does (`Promise.all`), and with the background sweep.
- **Failures.** `VerificationStore` and `RateLimiter`: any number of failing calls, and
  of crashes. Elsewhere 0 to 2: what one failure leaves behind is what a later request
  has to cope with, and a reservation copes with a failure of its own second call.
- **Clocks.** Values live for 1, and the clock runs to 2, so that one value expires and
  a later one is still alive; likewise codes, assertions, device codes, tokens and
  windows of keys. `RateLimiter`: windows of 2 and a clock to 3: a window, the instant
  exactly one window later, and one tick beyond, so all the branches of `decide` are
  taken. Bans: a length of 0 or without end, and a clock to 1: one that is over.
- **Budgets.** Two attempts (`Allowed`), so that a first failure does not exhaust them; a
  lock after one or two failures, in different deployments; a quota, a limit and a
  refill of 1 or 2; room for one or two members more.
- **Tokens, keys, codes, users.** Two: the one that is revoked, rotated or counted and
  the one that must survive. One identifier, address, account, organization, API key
  or customer: the operations of different ones share only the clean-up of expired
  rows, and the limit of a query.
- **Limits of queries.** findMany answers at most 100 rows unless it is asked for more or
  for fewer (factory.ts:1186). The models have it where a list without a limit decides
  something: listed sessions, the family of a refresh token, pending invitations and
  teams, signing keys. The runs use 1 to 5 in the place of 100, so that it cuts in some
  deployments and not in others. Elsewhere (accounts of a user, members found by user, rows of one
  identifier) what is listed is a handful.
- **Seconds.** Two steps of the clock where times to live are rounded, so that there is
  something to round off; one elsewhere.
- **`Undisturbed` and its like.** Some properties are stated only for what the code
  provides; where they end is said in the comment, and the findings and observations
  below say what happens beyond.

No symmetry sets are used: requests differ in their operations. In `Subscriptions`,
where Stripe is left to do anything, the number of changes it makes is the bound that
matters: 2 is enough for an event to overtake another of the same subscription.

### Fairness

Only `Answered` needs fairness. `FairSpec` assumes weak fairness of `Step(r)` for
each request: a request that has started and can take its next step does, because
the event loop runs the continuation of every settled promise, and a storage call
settles. Nothing obliges a request to start, a call to fail, a process to crash or
the clock to move. A request that waits for the lock is not enabled until it is
at the head of the chain, so `Answered` depends on every path of those ahead
passing the lock on; the mutant that returns without doing so violates it.
Elsewhere deadlock is checked: a state in which a request is under way and none of its
steps is possible is an error (`Idle` stutters only when nobody is in flight).

## Findings

Each is a run that violates one property, with the sentence of the repository
that it contradicts (quoted in `PROJECT.json`).

1. **A revoked session comes back** (`session_update`). `refreshUserSessions` (and
   `updateSession` in the same way) sets a copy that it got before the revocation.
2. **A sweep of a running window** (`rate_sweep`). `deleteExpiredRows` does not know
   custom rules and those of plugins.
3. **Offspring of a lost revocation** (`refresh_revoke`). The teardown comes between
   the rotation's compare-and-swap and the creation of the new token, which stays.
4. **Guesses that are counted where nobody looks** (`codes_attempts`). With two rows of an
   identifier, `checkVerificationOTP` compares with the newest and in MongoDB may count
   on the older: the number of attempts is not limited.
5. **A permanent ban that ends** (`bans_permanent`). `banExpires: undefined` leaves the
   end of an earlier ban in the row. `BansHold`, of the run `factors`, holds a ban to the
   end that its row states.
6. **A due refill that nobody wins** (`api_key_refill`). A verification that refilled
   and was then denied by the rate limit leaves the cache with the old refill time;
   every later compare-and-swap goes by it and loses.

## What the models show besides

Behaviour that the models have and that has no run of its own. The first list is of what
contradicts a sentence of the repository, as the findings do; the properties that the
passing runs check leave each out by a condition that their comments name, and where
TLC is asked for the property without the condition it finds the counterexample.

- *A row from before hashing is replayed.* With `storeIdentifier: "hashed"` the database
  path of consume deletes the rows under the identifier that matched
  (internal-adapter.ts:1365) and not those of the plain one; the cache path deletes both.
  internal-adapter.ts:1238 says "consuming one row invalidates the whole identifier and
  stale rows cannot be replayed". `NoReplay` is checked with one key per identifier.
- *A delete that does not delete.* `deleteWithHooks` swallows the error of its search and
  then skips the delete (with-hooks.ts:304), where line 273 says "we'll still proceed with
  deletion". The request ends without an error. `NoReplay` counts a delete that left no row.
- *A session that "revoke all" misses.* Two sign-ins get the list of the user's sessions
  and set it (internal-adapter.ts:406); the entry that is lost is a session that
  `deleteUserSessions`, which goes by the list, leaves, where session-management.mdx:160
  says "To revoke all sessions, you can use the `revokeSessions` function."
  `RevokeAllCovers` is asked, with a cache, of requests that do not overlap.
- *Access tokens of a large family.* The teardown lists 100 rows at most (token.ts:293);
  without foreign keys the access tokens of the others stay, where token.ts:272 promises
  the family "plus any access tokens that reference those refresh rows". `TornDown` asks
  for the access tokens where no listing was as long as a query may answer (`Whole`).
- *An invitation that names a removed team.* removeTeam strips what one query of pending
  invitations answers (organization/adapter.ts:1102), those that expired included, where
  crud-team.ts:350 says "so they stay acceptable". `PendingStayAcceptable` is asked where
  no removal listed that many (`cut`).
- *Hooks of a transaction that was rolled back.* The queue is run (transaction.ts:131)
  before the error is thrown on, where line 148 says "after the current transaction
  commits". `HookAfterEnd` asks for its end.
- *A tombstone that is forgotten early.* Secondary storage alone keeps it for whole
  seconds, rounded down (internal-adapter.ts:35, 1450), where line 1391 says that "every
  later caller must observe that the marker is already taken". `ReservedOnce` allows for
  the second that is lost (`Slack`).
- *An assertion that outlives its tombstone.* Without a notOnOrAfter it passes the check
  of its time for ever (timestamp.ts:30) and its tombstone ends after 15 minutes
  (saml-pipeline.ts:445), where sso.mdx:1057 says "Each SAML Assertion ID is tracked and
  rejected if reused." `ReservedOnce` is for the time of the tombstone.

The rest contradicts no sentence, or is of the same kind as something above.

- *Sessions.* A `deleteSession` that fails between writing the list and deleting the
  entry leaves a session that is valid and that "revoke all" no longer reaches. Because
  entries of the list are lost, `RevokeAllCovers`, `UpdatesSeen` and `ListingComplete` are asked, with a
  cache, only of requests that do not overlap (`Undisturbed`). A listing from the table
  shows every session, or as many as a query may answer.
- *Verification values.* With the cache only, `updateVerificationByIdentifier` gets the
  value and sets it later: a consume in between is undone (internal-adapter.ts:1524).
  With both stores, the cache write of a create can land after a consume has cleared
  the entry; finds, not consumes, then see the consumed value until it expires.
  A delete by identifier in MongoDB takes one row: what an earlier sending left can be
  consumed afterwards. `NoReplay` and `FindFresh` count a delete when it has left no row.
- *Rate limiter.* In the database a request exactly one window after the last one is
  refused, with a retry time of 0, even when fewer than `max` have passed
  (`OnTheEdge`); the memory storage lets it pass. The window is counted from the last
  request that passed, so a key that is never quiet for a window is refused although
  fewer than `max` passed in the last one (`Counted`). A write that arrives later than
  the clock it carries shortens the window by the delay (`maxDelay`). Counters of the
  secondary storage begin at a fixed time, and a span can touch two of them. With a
  rule longer than those the sweep knows `LimitHeld` fails too.
- *Refresh tokens.* Without foreign keys, overlapping replays can leave an access
  token whose refresh token is gone (the TODO in `token.ts:277`). A refresh that
  narrows the scope to one without `offline_access` makes a token that is never
  rotated, whose access tokens carry no `refreshId`. A refresh that comes late, after
  the token it presents was rotated, counts as a replay and ends the family, while one
  that overlaps only loses the race.
- *Device authorization.* Approve and deny check the status and then update by id: of
  two that overlap the later write counts and both are answered with success, also
  when a poll has deleted the row meanwhile. Overlapping polls all read the same time
  of the last poll and all pass the interval check. A poll whose record was denied or
  has expired deletes the row whatever it has become.
- *Two-factor.* A backup code whose compare-and-swap is lost is answered with a
  conflict, but its attempt stays counted (backup-codes/index.ts:402). A lock written
  after a concurrent success has reset the counter locks with a count of 0
  (verify-two-factor.ts:276). An OTP made again after a failure shadows one that was
  sent meanwhile. Disabling and enabling that fail half-way leave rows without the
  user's flag, or the other way about.
- *One-time codes.* The check endpoint of email-otp writes back what it read: under
  overlap it lowers the count of attempts, or writes an old code over a new one, and a
  check that dies between its comparison and its write is not counted at all; that is
  why `CodeGuessesBounded` is for deployments without checks or with requests one at a
  time that are not interrupted, and databases whose updates reach every row. A code that
  is sent again leaves the row of the first, which can be accepted once the newer is
  deleted by a purge that reaches one row. The purge of an exhausted code can delete a
  fresh one.
- *Accounts.* A request in flight during a proof's strip can finish after it; concurrent
  proofs delete each other's sessions; the strip keeps identities that were linked. Two
  resets can leave two credential rows, of which changePassword writes one.
  unlinkAccount's check for the last account is read-then-delete. A reset by OTP
  verifies the address before it revokes sessions. Without transactions a sign-up that
  fails leaves a user without an account.
- *Bans.* A sign-in whose check came before the
  ban can make its session after the ban deleted them; a lift of an expired ban can
  overwrite a later one; a session of impersonation outlives the ban or the removal of
  its admin.
- *Organization.* Accept does not look for an existing membership. Without transactions
  a failure after the member was inserted releases the invitation and the member
  stays. Members are counted before the insert, owners before the delete or the demotion.
  reject, cancel and release write the status unguarded. removeTeam strips only the
  live pending invitations (crud-team.ts:350), and one that expired can be extended
  later. A member who is removed stays in the teams beyond the first 100
  (organization/adapter.ts:388), and the limit of pending invitations is compared with
  what one query answers. addMember adds to the team before it makes the member.
- *API keys.* The quota is taken before the rate limit denies, and not given back. A late
  `setApiKey` caches an older row again. A slow increment moves `lastRequest` back. With
  secondary storage alone the merge can resurrect a deleted key (not modelled).
- *Transactions.* A hook that throws drops the hooks behind it and fails a request that
  was committed. `deleteWithHooks` runs `delete.after` for a row that somebody else
  deleted. The hooks of a transaction run before earlier hooks of the handler. The
  upgrade guide (1-7-upgrade-guide.mdx:429) says the fallbacks of the adapters are gone;
  factory.ts still has them, and overlapping decrements of theirs count as one. Of the
  fallback of consumeOne, factory.ts:1373 says that its race window "narrows (does not
  close)" without isolation, and create-a-db-adapter.mdx:274 that it is safe only under a
  transaction with an accurate count of deletions. The model disagrees in part: the
  write is guarded and by id, so with an accurate count, for which the guide asks every
  adapter (line 245), it decides the race without a transaction; and a transaction that
  keeps others out does so without the count. `ConsumesOnce` and `GuardedOnce` are for
  adapters with either, or with operations of their own (`Reliable`); with neither, two
  may consume one row. Every adapter of this repository has its own.
- *Reservation.* An error of create after the row was written burns the assertion.
  Secondary storage alone is get-then-set, and sso.mdx:1076 says that "Replay protection
  uses the database verification table". A submission that passes the check of its time
  and reserves after the end of the tombstone is accepted beside an earlier one.
- *Subscriptions.* Cancelling an ended subscription deletes its row (routes.ts:1313) and
  the trial history with it; two checkouts opened before the first completes both have
  trials and share one row; cancel deletes a row whose events are still to come, and a
  late `updated` takes over another row; an `updated` after `deleted` revives a row; the
  success page's retrieve-then-write can overwrite a later `deleted`. The success page
  of a checkout whose subscription has ended takes back the row that a later checkout
  was paid for with (routes.ts:1811): the attempt to prove `SubscriptionsSound` found
  this one, for which the row of a checkout looked as good as its own. `harm` records
  rows that were deleted, shared, or taken back while needed, and `SubscriptionsSound`
  excludes what follows from that.
- *Signing keys.* findMany answers at most 100 rows (factory.ts:1186) where verify.ts:33
  says "Get all JWKS keys": with more keys than that a valid token may not verify;
  `TokensVerifiable` asks only while they fit.

## Proofs

The modules `*Proofs` hold the theorems; TLAPS checks each of them to the last leaf,
from the definitions the runs check. The only assumptions are those on the constants
(`ConstantsAssumption`, `FactorsAssumption`, `PluginsAssumption`): their types; that the
requests of the rate limiter and the first members of an organization are finite sets,
because limits count them; and that a subscription made by a checkout is not one made at
Stripe. Sets of requests, processes, keys, tokens, users and deployments are arbitrary.

| theorem | states | for |
|---|---|---|
| `VerificationStoreProofs` | | |
| `SingleUseInDatabase`, `SingleUseInStorage` | `AtMostOnce` | a database with or without a cache (`UsesTable`); a cache alone that consumes atomically and is not updated (`TakesAtomic`: `getAndDelete`, or the lock and one process) |
| `NoReplayInDatabase`, `NoReplayInStorage` | `NoReplay` | the same, identifiers not hashed; a delete counts when it has left no row |
| `FindsFresh` | `FindFresh` | the same |
| `Implements` | `ImplementsSingleUse` | both, hashed or not |
| `RefreshTokensProofs` | | |
| `FamilySafe`, `TornDownHolds` | `NoFork`; `TornDown` | every configuration |
| `CarefulClientsKeep` | `KeptByCarefulClient` | every configuration |
| `Implements` | `ImplementsSingleUse` | every configuration |
| `DeviceAuthorizationProofs` | | |
| `Decisions`, `Sessions`, `Polls` | `DecisionStands`, `GrantedToApprover`, `PollsHonoured` | every configuration |
| `Implements` | `ImplementsSingleUse` | every configuration |
| `FactorsProofs` | | |
| `RevocationInDatabase`, `SessionsInDatabase` | `RevokedStaysRevoked`; `SessionsSurvive`, `UpdatesSeen`, `ListingComplete` | sessions in the database alone (finding 1 is about the cache) |
| `RevocationInSequence` | `RevokedStaysRevoked`, `SessionsSurvive` | a cache, and requests one at a time that do not fail |
| `UndisturbedRequests` | `UndisturbedSeesAll` | every configuration |
| `CodeTermsKeptAlways` | `CodeTermsKept` | every configuration |
| `BansHoldAlways` | `BansHold` | every configuration |
| `SignInProofs` | | |
| `BudgetsHoldAlways`, `FactorUsedOnceAlways`, `EnrolmentOrderedAlways` | `BudgetsHold`, `FactorUsedOnce`, `EnrolmentOrdered` | every configuration |
| `LiveLockStays` | `LiveLockKept`, an action property | every configuration |
| `OnePersonsAccountAlways`, `ResetEndsOldAccessAlways` | `OnePersonsAccount`, `ResetEndsOldAccess` | every configuration |
| `AllTypeCorrect` | `AllTypeOK` of `Factors` | every configuration |
| `OrganizationProofs` | | |
| `InvitationSettledAlways`, `MembershipSoundAlways` | `InvitationSettled`, `MembershipSound` | every configuration |
| `SubscriptionsProofs` | | |
| `SubscriptionsSoundAlways` | `SubscriptionsSound` | every load |
| `PluginsProofs` | | |
| `LimitInDatabase` | `LimitHeld` | `Exact`: the database, writes without delay, windows no longer than the sweep's |
| `RefusedForCause` | `BlockedForCause` | every storage; in the database `Exact` |
| `RetriesEnd` | `RetriesForCause`, an action property | every storage |
| `TransactionsInOrder`, `UnitsOnce`, `ConsumptionsOnce`, `ReplaysRefused` | `TransactionsSound`, `GuardedOnce`, `ConsumesOnce`, `ReplayRefused` | every configuration |
| `KeysSoundAlways`, `TokensVerifiableAlways` | `KeysSound`, `TokensVerifiable` | every configuration |
| `OrganizationsKept`, `SubscriptionsFollow` | `OrganizationSound`, `SubscriptionsSound` | the same in the bundle |
| `AllTypeCorrect` | `AllTypeOK` of `Plugins` | every configuration |

`TypeCorrect`, in each module, is `Spec => []TypeOK`, for every configuration.

The arguments, each the inductive invariant and why it is needed:

**Verification values.** `AtMostOnce` says nothing of rows that are still there.
`OwnershipInv` adds that a generation has one row (`RowsOwnGen`), that a request holding
a value after its claim has taken the row away (`HeldLeft`), and that no two hold the
same (`HeldOnce`): `Claim` removes the row in the step in which it takes the value. The
lock is not used there. In a cache without a table it is all there is, unless the
storage has `getAndDelete`: `CacheInv` says where each operation can be (`CacheStages`),
that what was taken is not in the cache (`Taken`, `TakenOut`, `TakenOnce`,
`EntriesOwnGen`), and that of the requests of one process only the head of the chain is
between its get and its delete (`Locked`). For `NoReplay`, `ReplayInv` adds that every row
is newer than `spent`, that what a consume holds is newer than its `floor`, and that a
consume past `Purge` has left nothing as old as its `dead`; `StorageFreshInv` says the
same of entries, and of what was read of them (`EntryFresh`, `ReadFresh`, `Emptied`),
`FindInv` of finds. For `Implements`, a value is live while its row or entry is there and
newer than what was ended; each step is an issue, a redemption, a discard or a stutter.

**Refresh tokens.** `IInv` is the conjunction of `TypeOK`; `InRange` (numbers are of
rows); `OnPath` (place, operation and the outcome of the compare-and-swap fit);
`Winners` (a token has one winner, and is not live); `Children` (a row with a parent
was created by that parent's winner, and by it alone); `Issued` (a token that is
presented was created by a request that is over); `Torn` (after a teardown every row
from before its request is gone); `AccessGone`. For careful clients, `CarefulInv` adds
that a row that is not live was presented by the request that used it up (`UsedUp`),
and that who tears down has presented a token that was used up already (`Tearing`): so
a family comes down only when one of its tokens came twice. For the access tokens,
`AccessInv` traces each to the row it was minted with (`Minted`, `Linked`) and remembers
that the request that minted it was over (`Remembered`); with requests one at a time
(`Alone`, `Undisturbed`) or foreign keys nothing comes between the two deletions, and
without foreign keys the family that was listed is the whole of it (`Whole`).

**Device codes.** What each step may do is classified first (`Kind`). `IInv` then says: a
code has one user, who claimed it, and keeps it (`Owned`, `BoundRow`); who is about to
decide, or has decided, is that user (`OwnerDecides`); a decision leaves the code other
than pending (`DecidedRow`), so who is about to decide did not begin after one
(`SettleFresh`, on which `DecisionStands` rests); an approved code, and a claimed one,
has an approval (`ApprovedRow`, `Winner`); a code that was claimed is gone. `CountInv`
follows a poll that came after an approval: what it reads is approved, or gone because
of another poll (`AfterApproval`, `GoneKnown`, `PollPath`). `SpaceInv` relates, for one
poll at a time (`OnePoll`), the clocks of the polls that were answered to the time that
is in the row (`InRow`, `Written`), from which the next is `Spaced`.

**Sessions.** `DbInv` places every request on the steps of its operation in the
database, says that a token has one creator, that a revocation that is done left no
row (`RowsGone`), and that rows are kept until a revocation begins (`RowsKept`).
`SeqInv` is for a cache and one request at a time: nobody else is at work
(`OneAtATime`); every session that was created and not revoked is in the list, in the
cache, and in the table where there is one (`Listed`, `CacheKept`, `RowsCached`), with
every update that has finished; and what a request has read so far is what is there
(`Holding`, `Finds`). When the one request that may disturb this ends, it has repaired
what it disturbed (`Ends`).

**One-time codes.** `CodesInv` counts for every row, and for each row that a request holds to
make it again: its failures cover the wrong guesses compared with its code, but for the
one that is about to be written (`CodeStored`, `CodeHeld`), its code was not accepted, and
its end is no later than the last sending has it (`CodeOpen`). What keeps guesses bounded
is that where nobody checks a code is in one place, in one row or held by one request,
because `Claim` takes the row by its id; this does not depend on which rows a delete or
an update reaches. A check breaks it, is alone when there are some, and then writes one
code and count over every row, which is why it needs a database that does
(`CodesWatched`).

**Bans.** `BansInv` says that a check that has seen a ban was made after it, and has
stopped on it unless it was over (`BanChecked`, `BanOrdered`); that the row of a user
carries the ban that a session may not have seen (`BanPast`); and that the sessions that
are left after a deletion were made after it (`RevokedGone`, `RemovedOut`).

**Two-factor.** `FactorInv` follows each counter to where it is. The count of a challenge,
stored or held by the one request that will write it back, covers the codes compared for
it (`FactorCounts`), and so does that of an OTP (`FactorTries`). A challenge is consumed
before its session is made, by one request (`FactorPassed`). A row is known by its number
and counts the failures in a row, and its lock is at most `LockFor` ahead; one with too
many failures is locked, or the request that must lock it is known (`FactorRows`). Its
codes are of its own number and were not accepted before (`FactorCodes`). While nobody
disables, what enrols a factor comes after the account is enabled (`FactorEnrols`).
`LiveLockStays` rests on the numbers: a reset clears the row that it has read, unless
that is locked by then.

**Accounts.** `AccessInv` names each row and session after the request that made it, once
(`AccessRows`, `AccessBase`). What a proof of the mailbox has not seen when it strips is the
owner's, or of a sign-up without a transaction (`AccessStrips`); a row that the owner made
never has somebody else's password (`AccessOwned`); and nobody else's request is between
a check and a write that the proof would miss (`AccessQuiet`). Before the address was
confirmed an identity is linked only to an account whose credentials are the owner's
(`AccessLinks`). A reset has rewritten every credential row, an old password was set by a
request that is over, and sign-ins that compared one before are those it overtook
(`AccessReset`).

**Organization.** A row has the name of the request that made it (`MembersNamed`); who has
counted the members has room for one, but for those that joined since (`Room`); an
invitation is held by one accept, and nobody makes it pending beside it (`HeldOnce`);
unless two that demote overlapped, an owner is left beside the one about to go
(`OneDemotes`). With transactions the team has members only (`TeamNamed`), and an
invitation that names a team that is gone is to be stripped still, or was made beside
the removal (`RemovalSeen`, in which what a removal could not list is excused by `cut`).

**API keys.** What was used of the quota and what the row has left come to what was granted
by the time of the last refill (`KeysQuota`); the row counts the passes since the window
was opened (`KeysRate`); what a request, or the cache, has of the row is behind it only
by writes that overlap or failed (`KeysWritten`, `KeysTopped`); and a refill that was due
is lost only to one that won it, or to a cache that is behind (`KeysDue`). `KeysBase`
places the requests, and says who is alone.

**Subscriptions.** In any order of events (`Base`, `Trials`): an event is about a subscription
that was paid for, a request makes its row and its checkout once, and the row of a
checkout is there until Stripe has told of the payment; from then on a row shows the
trial. In order and one at a time (`Alone`): the last event about a subscription says
what it is (`InOrder`); what a request has in hand is still so (`StillSo`); and rows and
subscriptions are tied (`Links`): a row belongs to the subscription whose row it is, one
that is not over is linked or the event that will link it is to come, a row that is
behind has an event to come, and no two that are not over have one row. The second part
is stated while `harm` is empty; each way to lose track breaks one of its clauses.

**Rate limiter.** `ReadInv` relates a request's place to what it read; a retry then
implies that the counter has changed since. For the limit, `KeyInv(k)` says that the
window was opened at some time `o` (`OpenedAt`): the row's count bounds the requests
that passed since then, and all others passed more than a window before it. `Exact` is
needed: outside it TLC has counterexamples. For `BlockedForCause`, `CauseInv` says that
what a counter counts is backed by requests that passed and have kept the key busy since
(`Backed`, `BackedInLife`), and that what a request has read of a counter is backed
likewise (`RequestInv`).

**Transactions.** Every step of a request keeps the fate of its writes, ends those of one
context, or adds one write (`HooksStepDoes`:
`HooksKeeps`, `HooksEnds`, `HooksAdds`). `HooksSoundAt` then goes
write by write: the hook of one that is open waits in the queue of a context that has
not ended, and the loop runs each queue in order until it is empty or one threw. The row
is taken once because the holder of its lock is one request (`HooksOneTakes`, `HooksLocked`).

**Fallbacks.** A stamp is given by one swap (`StampsNew`), and a row whose counter was filled
was filled by a winner (`CountersFilled`). Every step wins a row that matches in the state it
writes to, or writes nothing (`FallbacksShape`): natively because it is one step, by an accurate
count because the write asks again, and in a transaction that keeps others out because
nobody has come between. So two that decide from the same row cannot both win.

**Reservation.** Until its end the tombstone that one has written stands
(`TombstoneStands`), in secondary storage until what is rounded off begins
(`TombstoneCached`); so of two that are accepted one reserved after the end of the other
(`OneOutlasts`); a refusal was caused by a
tombstone that somebody wrote (`RefusalsCaused`).

**Signing keys.** `RotationInv` says that every token was signed by a key that is in the
table and whose end, with the grace period, is not before the token's (`HasKey`), and
that what a request has found so far contains every key that a token in its time needs,
while the keys fit into one query (`RotationStep`). Keys are never deleted, and finitely
many at any time, which is what makes the limit meaningful.

**Bundles.** `Parts` in `FactorsProofs` and `PluginsProofs` shows that `AllSpec` implies the
specification of each component. `OrganizationProofs` and `SubscriptionsProofs` are
instantiated with the bundle's variables (`OrganizationSpec`, `SubscriptionsSpec` show
that the two instances take the same steps); everything else is proved of the instance.

**Model-checked only.** `Answered`: liveness, and with it fairness and ENABLED, is out of
the prover's reach. `NoReplay` with hashed identifiers, the session properties with a
cache and overlap, `LimitHeld` outside of `Exact`: the code does not provide them. Every
other invariant and action property that a passing run checks has a theorem. No module
declares a RECURSIVE operator; nothing here needs induction over data.

## What is not modelled

- Data: tokens, hashes, cookies, URLs, JSON and cryptography are abstract values.
  A conversion is left out only where the properties do not depend on it.
- Database calls are atomic one by one and native; what the fallbacks of
  `core/src/db/adapter/factory.ts` do instead is `AdapterFallbacks`.
- User-supplied hooks (`databaseHooks`) are taken not to veto or change anything.
- Expiry of sessions, and with it the time to live of the list of a user's sessions
  (internal-adapter.ts:80) and the cookie cache; the cap on the rate limiter's memory and
  its eviction (rate-limiter/index.ts:34).
- The memory adapter: its transaction clones the tables and merges them back; serial
  identifiers are `length + 1`, which a deletion or a create beside a transaction can
  give twice, and two transactions can both consume one row. It is for development.
- `deleteUser`, trusted devices and the hook that starts a two-factor challenge, explicit
  linking, `changeEmail`, `setPassword`, creating and deleting organizations, JWT and
  client_credentials grants, the issuing of device codes, expiry and metadata of API
  keys, schedules and seats of subscriptions. Each is named in the note of its component
  in `PROJECT.json`.
- The components listed there as not modelled, with the reason.

## Plan

1. *(done)* The modules above, with their runs, findings and mutants.
2. *(done)* Proofs of the safety properties of every module, and of `AllTypeOK` of both
   bundles.
3. A clock for sessions, with the cookie cache: staleness is bounded by the age.
