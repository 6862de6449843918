# Identity platform: TLA+ models, checks and proofs

The identity platform signs users of several client applications in, keeps
their sessions alive and tells services what a caller may do. It is an Express
service over PostgreSQL (Drizzle, READ COMMITTED) and Redis, with a TypeScript
SDK (`sdk/auth-client.ts`) for the applications. Nothing in it holds a lock
between two statements unless the statements share a transaction, and only the
two rotations of a refresh token, the adoption of a database and the migrations
do. What can go wrong is therefore mostly between two `await`s: of two requests,
of a request and its own retry, of a request and the process's end, or of two
deployments at one database.

Paths below are relative to the repository.

## 1. Inventory

| Component | Source | State | Operations | What makes it correct |
|---|---|---|---|---|
| Refresh-token sessions | `src/routes/auth.ts`, `src/services/session.ts`, `src/routes/sessions.ts`, `src/jobs/cleanup.ts`, part of `src/routes/users.ts`, `account.ts` | `refresh_tokens`, `users.is_active` | issue, refresh (rotate, retry after a lost response, replay), logout, revoke one / all, deactivate, clean up | one login is worth one session; an ended session stays ended; replay is blamed only on redeemed tokens; retries only of the same operation, within grace |
| SDK consumer | `sdk/auth-client.ts` | stored token, operation id, timer; the cached key set | refresh, time out, repeat; verify with the key set or remotely | a consumer that keeps to the contract is taken for a thief only for a named reason; every refresh ends; an outage is never a 401, an old key dies |
| Registration and login | `src/routes/auth.ts`, `src/services/session.ts` | `users`, `user_roles` | register, login | one account per email and application; default roles |
| Account lifecycle | `src/routes/account.ts`, `users.ts`, `src/services/accountToken.ts`, `mailer.ts`, `password.ts` | `account_tokens`, `users.password_hash`, `email_verified` | provision, forgot, reset, send verification, verify, change, deactivate | a link works once, for its own application; passwords change only as authorized; a change of credentials ends the sessions opened with the old ones |
| OAuth sign in | `src/routes/oauth.ts`, `src/services/oauth.ts` | sealed state, Redis nonces and codes, `users.oauth_*` | initiate, callback, exchange | a state passes once, a code opens one session, both bound to their transaction |
| Roles and permissions | `src/routes/roles.ts`, `src/services/session.ts` | roles, permissions, three junction tables | create, replace permissions, assign, revoke, delete, assign the defaults | nothing crosses clients or outlives its role; a replacement replaces |
| Service accounts and API keys | `src/routes/serviceAccounts.ts`, `apiKeys.ts`, `src/services/serviceAccount.ts`, `apiKey.ts` | `service_accounts`, `api_keys` | create, rename, deactivate, key issue / revoke | what is withdrawn (key, account, client, role) is refused from the next request on, what is not is admitted |
| Permission matching | `src/middleware/authorize.ts`, `src/services/apiKey.ts`, `src/routes/verify.ts`, SDK | none | match a permission | all matchers agree |
| Authentication | `src/middleware/authenticate.ts`, `src/routes/verify.ts`, `src/services/token.ts`, `jwks.ts` | the signing key | Bearer, API key, remote verification, rotation of the key | a caller is who the database says now; tokens of a key die with it |
| Rate limiter | `src/middleware/rateLimit.ts` | Redis counters with a TTL | count, refuse, fail open | less than two allowances in any window; refused only when the counter has let a whole allowance through within the window |
| Audit log | `src/services/audit.ts`, `src/routes/audit.ts`, cleanup | append-only rows | write, page, prune | paging ends, shows no row twice and none of an answered request is missed |
| Migration adoption | `src/db/adoption.ts`, `migrate.ts`, `scripts/baseline-migrations.ts`, `docker/entrypoint.sh` | schema, journal | baseline, migrate, guard | no migration runs over its own result; nothing serves an unchecked journal; following the refusals ends |
| Clients and bootstrap | `src/routes/clients.ts` | `clients` | create, rotate secret, patch, bootstrap | who is invited can administer; what a cut off bootstrap left of permissions and role is completed by the next; rotated secrets die |
| Wiring | `src/app.ts`, `index.ts`, `utils/`, `db/`, `routes/docs.ts`, `public/admin` | none of its own | | not modelled |

How they interact: login, registration and the OAuth exchange end in
`issueSession`, which inserts the first refresh token of a session. Before that,
login passes two limiters and leaves an audit row. Password
reset, change and deactivation revoke refresh tokens in a statement of their
own. The permissions inside a token are those its user had when it was signed.
The SDK reaches all of it over HTTP and sees only answers or their absence.
Every request of an application presents the credentials that the operator
manages (`verifyClientCredentials`), and every container of the platform first
gets through `migrate.js`.

## 2. Modules

| Module | Models | Extends |
|---|---|---|
| `Sessions` | what the refresh-token component promises: chains of tokens | |
| `RefreshTokens` | the table and every request that writes it | instantiates `Sessions` |
| `..._proofs` | theorems; those about `Sessions` and `RefreshClient` are in `RefreshTokens_proofs`, those about `AuditTrail` in `LoginGuard_proofs` | the module they name (`RefreshTokens_proofs`: `RefreshClient`), `TLAPS` |
| `RefreshClient` | a consumer, the SDK and the connection to the platform | `RefreshTokens` |
| `AccountTokens` | accounts, passwords, mailed single-use tokens | |
| `OAuthFlow` | states, nonces, provider answers, linking, codes | |
| `Authorization` | roles, their grants and holders, service accounts, API keys and their checks | |
| `Migrations` | containers, the guard, drizzle's migrator, the baseline tool, the operator | |
| `SigningKeys` | the platform's key, the consumer's key set and its verdicts | |
| `AuditTrail` | inserts of audit rows, pages, pruning | |
| `LoginGuard` | login behind its limiters, over the rows it leaves | `AuditTrail` |
| `Tenants` | the operator's administration of a client, and its credentials | |
| `MC...` | values of the constants for TLC | the module they name |

Conventions shared by the modules:

* A **slot** is a request in flight; `req[p]` holds the handler's position and
  the local variables it keeps over an `await`. An action of a slot is what the
  handler does up to its next `await` that another request can tell. Statements
  whose interleaving nobody can observe (reading immutable columns, looking up
  the calling application, hashing, the audit row) are folded into a neighbour.
* `Abort` ends a handler at any `await`: a database error, a process that
  restarts. What it has committed stays, what it held in memory is gone.
* READ COMMITTED. A statement that changes one row by id or by a unique value
  is one step: it waits for the row's lock and evaluates its WHERE again. An
  UPDATE of *many* rows is two steps, `SnapshotAll` (the rows that exist when it
  starts) and `ApplyAll` (what its WHERE says of them when their locks are
  held): rows inserted in between are not seen. The transactions of rotation
  and retry take the locks of the rows they write first, so each is one step.
* Time is counted in ticks; expiries compare as the code compares (`<`, `<=`).
* A definition named `X_Y` is a slip somebody could make in `X`; nothing uses
  it. It is there so that each property can be shown to notice it.
* Properties follow the definitions, first those that hold, then the statements
  of the repository's documents that the code does not keep.

### RefreshTokens

| TLA+ | Code |
|---|---|
| `row`, `stored`, `issued` | `refresh_tokens`. Deleted rows stay in `row` as history, `stored` is what the table holds |
| `row[t].revoked, reason, op, at, next, exp` | `revoked`, `revoked_reason` (`null` of older releases included), `rotation_operation_hash`, `rotated_at`, `replaced_by_token_id`, `expires_at` |
| `row[t].root` | history: the login a row descends from |
| `LoginBegin`, `Prepare`, `InsertSession` | the account check of login, `prepareSession`, the insert of `issueSession` |
| `RefreshBegin`, `RefreshOwner`, `Prepare`, `Rotate` | `POST /auth/refresh`: the row, its owner within the calling application, the new pair, the transaction that consumes and inserts |
| `Candidate`, `Prepare`, `Retry` | `replaceUnusedRefreshSuccessor`: the check without locks, the pair, the transaction |
| `Refused`, `Latest`, `BeginReplay` | what the handler does with `null`: look why the token is gone, revoke everything or answer 401 |
| `LogoutBegin`, `LogoutUpdate`, `RevokeOne`, `EverywhereBegin`, `CredentialsBegin`, `Deactivate` | logout, `DELETE /sessions/:id`, `DELETE /sessions`, `revokeAllRefreshTokens`, `PATCH /users/:id` |
| `Cleanup`, `Tick`, `Abort` | the daily job, the clock, a handler that dies |

### RefreshClient

`held` is the refresh token the consumer has stored, `call` its refresh under
way, `wire[p]` the connection to slot `p`. `Refresh` draws an unused operation
id; `GiveUp` is `AuthTransportError` (the timeout, a failed connection, a
truncated body), and only after it `Resend` repeats with the same token and id,
as the comments of `refreshToken` ask of its caller; `Receive` stores what an
awaited answer brought, `Discard` drops an answer nobody waits for any more. The
platform side is `RefreshTokens` unchanged: `Arrive` is its `RefreshBegin`,
`Serve` any of its steps.

Besides the timeout, three things end a call without a pair. `LoseRequest` and
`LoseReply` lose a message. `Crash` is the process that dies and its connection
with it (external: the transport's failure). `ServerError` is what
`src/middleware/errors.ts` makes of a request whose handler throws: a 5xx, which
the SDK turns into an `AuthApiError`. That must not be repeated under its
operation id, so the call ends with `outcome` "error", the token stays stored, and
a later refresh draws an id of its own, whether or not the operation that was
answered by an error had redeemed the token. All of these, and calls given up
early, draw on `MaxFailures`; `failures` counts them.

`overtaken` is history: a call was given up while its request was still under
way, and its repetition may overtake it. `Excused` names the three reasons for
which the platform may take such a consumer for a thief all the same: the
operation that redeemed the token was answered by an error (`Dropped`), the token
comes after its grace period (`Late`), or `overtaken`. The consumer and the
network are not in the repository; they follow
`docs/contracts/sessions-and-tokens.md` and the SDK.

### AccountTokens

`account[u]` is the row of an (application, email) pair, with how it came about
(`origin`) and whether a provider is linked; `token[t]` a mailed link, `mailed`
those that reached the mailbox. `RedeemBegin`, `RedeemOwner`, `Consume`,
`WriteUser` and the revocation are the five statements of a reset; the first four
are those of a verification. Three others write `email_verified`: the OAuth
callback's insert (`CallbackBegin`, `InsertUser`) and its link (`LinkProvider`),
in `OAuthFlow` with all their statements and here as far as these columns go, and
the seed (`SeedAdmin`). Whoever signs in has an access token for 15 minutes, so a
change asks only for the current password: `seen` is the hash the handler read,
`current` the password the caller presented.

`session[i]` is the live end of a login as a `refresh_tokens` row. The UPDATE
over all rows of a user is two steps here too, `SnapshotAll` and `ApplyAll`;
`RefreshBegin` and `Rotate` are a rotation, whose successor inherits from its
predecessor, `LoginBegin`, `ExchangeBegin` and `InsertSession` the two other ways
to a row (an exchange checks only that the account is active, so what it reads
there is what its session rests on). `stale` is history: the credentials behind
the row were changed, reset or deactivated since they were checked. `excuse` names
why no UPDATE that is under way will reach a stale row.

`Expire` is any time after `expires_at`, with or without the cleanup. The client
switch that closes registration, URLs that are not configured and the
enumeration-safe answers change no state and are left out; the roles of a new
account are `Authorization`'s.

### OAuthFlow

`txn[s]` is a sealed state, authentic by construction; `marker[s]` its nonce in
Redis with its expiry; `code`, `kept` the authorization codes; `by` the
application, redirect target and verifier an exchange presents. A PKCE verifier
stands for its challenge. `ProviderAnswers` ranges over every profile a provider
may return; `Verifying` are the providers whose answer is asked whether the
address is verified (GitHub's is, Google's is not). `Away` is how long a browser
spends at the provider at least, `Lag` how long the SET NX of a nonce takes at
most after the state's age was checked: `StatesPassOnce` needs `Lag <= Away`,
because the marker lives as long as a state and starts later by `Away`.

### Authorization

`role`, `grants`, `held` are the `roles` rows and the junction tables (users and
service accounts have parallel ones and are both principals here), `presence`
the `users` and `service_accounts` rows with the account's `is_active`, `key`
the `api_keys` rows. Permissions are a constant catalog: nothing deletes from
it. A name is its parts, split at the colons, because the two rules differ in
how they look at them: `Permits` is the rule for a user's token
(`requirePermission`, `/auth/verify`, the SDK's middleware), `HasScope` the one
for a key. A name of three parts with a star in the middle matters to the second
rule alone, and `PermitsKey` is what that rule comes to, said of whole sets of
scopes: `Permits`, and that one form beside it. The properties measure a key by
`PermitsKey`. `AuthenticateBegin`, `CheckClient`, `CheckAccount` and `Admit` or
`Refuse` are the four statements of `authenticate`, `VerifyBegin` the join with
which `POST /auth/verify` replaces the first two. The manager of a request has
been admitted already; a user's token is signed with `PermissionsOf` in one
statement and checked without state. `Referenced` and `Insertable` are the
foreign and primary keys the inserts meet: an insert of several rows enters all
of them or fails. `unseen` and `gap` are histories of a check under way: which
conditions have not held since it began, and whether one of them has failed.

### Migrations

`schema` is the set of migrations whose marker (the first object each creates,
`detectAppliedMigrations`) is in the database, `journal` the rows of
`drizzle.__drizzle_migrations` by id, or `NoJournal`. A process is a container
(`migrate.ts`, then the server) or a run of `db:baseline -- --apply`; `pc` is
the statement it runs next and `mem` what it has read. `ReadPopulated`,
`ReadJournalExists`, `ProbeMarker`, `Probed` and `ReadRows` are
`assertSafeToMigrate`, one statement at a time: `databaseIsPopulated` and
`journalExists`, which ask `information_schema` for the clients table and for the
journal, a probe per migration, the rows and
`assertJournalMatchesSchemaPrefix`. `CreateJournal`, `ReadLast`,
`ApplyPending` are drizzle's migrator (external: `CREATE TABLE IF NOT EXISTS`,
the newest row by `created_at`, one transaction for what is pending);
`BeginBaseline`, `CountRows`, `InsertRow`, `Commit` the one transaction of
`baselineJournal`. `creator` is the transaction whose table creation others wait
for. `advice` is what the last error message told the operator: to baseline, or
to drop the journal and baseline again. `Push`, `DropObjects`, `SubstituteRow`
and `DropJournal` are what an operator does of their own accord, `Recover` what
the message said. Two processes may insert rows out of the order of their times;
nobody reads them by id, so the properties compare journals as sets.

### SigningKeys

`key` is the platform's key (one at a time, as `services/token.ts` loads it),
`since` when each took over. `cache` and `fetch` are the consumer's key set and
its one request for it, from the options given to `createRemoteJWKSet`
(`MaxAge`, `Cooldown`, `Timeout`); the cache itself is the jose library's and
external. What a fetch brings need not be the platform's present key: the answer
of `/.well-known/jwks.json` is public and may be reused for 300 s and, while it is
renewed, for a day (`src/routes/jwks.ts:10`); `Reuse` is how long a cache on the way
makes use of that, and `Publish` may answer with a key that was replaced no longer
ago. `Present`, `Decide` are `requireAuth` and `requireApiKey` up to their
first await, `Publish`, `Arrive`, `FetchFails` the key set's request,
`RemoteAnswer`, `RemoteFails` the call of `POST /auth/verify`. `VerifiesToken`
is `verifyAccessToken`. Credentials are what the platform ever signed, left over
from an HS256 deployment, or not genuine; `unlucky` remembers that a request fell
back because a fetch failed under it.

### AuditTrail and LoginGuard

`BeginInsert`, `CommitInsert`, `FailInsert` are `audit()`: the stamp is taken when
the INSERT starts, the row is seen when it commits. A tick is a millisecond, rows
of one tick differ in microseconds (`id`). `StartReading` and `NextPage` are
`GET /audit` without and with `before`, `CleanupExpiredAuditLogs` the retention
job. `reading.owed` is history: the rows a reader has a right to see.
`LoginGuard` adds login: `Limiter` is one pass of `rateLimit` (MULTI INCR, EXPIRE
NX, TTL), first for the address and then for the account at that address;
`FailOpen` its catch branch, with the increment lost or done; `LoseCounters` a
Redis that restarts empty. `Judge` and `Answer` are the awaited audit row and the
response, `Reject` the outcomes that leave no row. `passed[k][t]` is history: how
many requests counter `k` had let through before tick `t`, so that the
difference of two ticks is what passed between them (`PassedLately`).

### Tenants

`client` is the row of one application: its secret (by number; hashes stand for
their secrets), `isActive`, and whether it can send invitations. `roles`,
`grants`, `users`, `userRoles`, `permissions` are the rows of its silo,
`job[r]` a request of the operator or of the application. `CreateClient`,
`RotateSecret`/`WriteSecret`/`TellSecret`, `UpdateClient` are the routes of
clients; `Bootstrap` to `AnswerBootstrap` the statements of
`POST /clients/:id/bootstrap` in their order; `Cut` ends any request between two
of them. `Call` and `CheckCredentials` are `verifyClientCredentials`. `Register`,
`DeleteRole`, `TakeGrant`, `TakeRole` are what others do to the same rows meanwhile
(`TakeGrant` stands for `PUT /roles/:id/permissions`, which `Authorization` models,
`TakeRole` for `POST /roles/revoke`). They need an admin in place; a manager whose
token has outlived the role, and `POST /roles`, which would occupy the role's name
by hand, are left out.
`job[r].cause` is history: something beside the request that accounts for it
failing or finding less.

## 3. Runs

| Run | Result | What it shows |
|---|---|---|
| `refresh_race` | holds | Two requests, any two handlers, statement by statement: one live row per login, the live row is the recorded successor, replay only of redeemed tokens, one operation per redemption, a stranger application changes nothing, and the table implements `Sessions` |
| `refresh_time` | holds | One request while the clock passes grace, expiry and retention, with a row of an older release: retries end with the grace period of the first redemption |
| `client_retry` | holds | A consumer with a grace period as long as the SDK's timeout, as shipped, and two failures of any kind (losses, deaths, 5xx answers, calls given up early that overlap their repetition): it is taken for a thief only for the reasons named in `Excused`, and loses its session only for these or because the token had expired, every refresh ends, and it never goes back to an older pair |
| `client_shipped` | violated | see section 5 |
| `account_race` | holds | Two requests over one account, two links and two refresh tokens, a second application: one write per link, authorized passwords, verified addresses, links that survive strangers, and what revokes every session of an account leaves only the rows of three named races |
| `oauth_flow` | holds | Two transactions of two applications while everything expires: single use and binding of states and codes, codes that survive strangers |
| `authorization` | holds | Two requests over a role, a user, an account and a key, also a key with a scope of three parts, beside another client's role and permission: nothing crosses clients, nothing survives its role, and a key is admitted for what held and refused for what did not while it was checked |
| `migrations` | holds | Two containers of two releases and a run of the baseline tool over any database that a release, a push or nothing left, with one change by the operator and one process that dies: nothing is replayed over its result, nobody alone at the database serves on a schema or a journal that is not its release's, no journal is half written, and doing what the refusals say ends with an adopted database |
| `signing_keys` | holds | Two requests at a consumer, one rotation, any deployment of the HS256 switches, calls that fail, a cache on the way: only genuine and unexpired tokens pass, an old key's no longer than the cache, a fetch and the SDK's key set keep that key, nothing but a kid newer than a just fetched set is refused wrongly, an outage is never a 401 |
| `login_guard` | holds | Two logins at a time from one address to two accounts, a Redis that fails once, a reader and the retention job: less than two allowances in any window, nobody refused unless the counter let a whole allowance through within the window (the address counter counts everybody at the address), pages that end and show what they owe |
| `tenants` | holds | Two requests over one client, cut off anywhere and run again, beside registrations and role changes: who is invited can administer, a bootstrap fails only for the email it finds or for what happened beside it, rotated secrets die |
| `refresh_replay_all` | violated | see section 5 |

`TypeOK` is checked for `RefreshTokens` and proved for every module with a state
of its own (`TypeCorrect` in the proof modules, `ClientTypeCorrect` for
`RefreshClient`; for `AuditTrail` as a part of `LoginGuard`'s);
`INVARIANTS TypeOK` may be added to any configuration.

### Bounds, and why they are enough

* **Slots.** Two requests at a time in every race. The races the handlers guard
  against are between two writers of one row; a third request can start as soon
  as one of the two has ended, so sequences of any length up to the token bound
  are explored. The theorems about `RefreshTokens` hold for any number.
* **Tokens** (`MaxTokens`). Three rows let a login be rotated, retried and
  rotated again; four or five are used where consumers retry repeatedly.
  `AccountTokens` issues two links and two refresh tokens (`MaxSessions`): a login
  that is rotated under an UPDATE, or two logins. `OAuthFlow` has two states and
  two codes.
* **Authorization.** One role, user, account and key of the managed client meet
  every pair of handlers; a role that is deleted and a key that is used keep
  their id, so each begins once. The other client has a role and a permission of
  the same name, which managers of the first try to use. Keys are created with
  `*`, with `users:read`, which does not suffice for what is asked, and with
  `users:*:own`, which the schemas let pass and on which the two rules differ.
* **Migrations.** Three releases are the least with a newest one, one behind it
  and one behind both; containers of the two newest make "ahead" and "behind"
  possible. The first migration's statements succeed over their own result and
  the others' do not; in `drizzle/` it is the first two of nine. One edit and one death at any place
  (`MaxEdits`, `MaxAborts`) reach every advice and every half done transaction;
  the processes themselves start again without bound.
* **SigningKeys.** A key set that is trusted for two ticks, cools down for one and
  is fetched within one, over a cache that keeps a key for one more, and tokens that
  live five: in five ticks there is every order of rotation, fetch, arrival and
  staleness, and an old token is refused by its key before it expires
  (`Reuse + Timeout + MaxAge < Life`) as well as by its expiry. Of a key's tokens
  the first and the last it signed are presented.
* **LoginGuard.** Allowances of two and one, two accounts at one address: the
  address counter refuses what the account counter would let through and the
  other way round. Five rows (`MaxRows`) are as many answered attempts; pages of one
  row make every row a boundary.
* **Tenants.** Two requests, two emails, two role ids of one name (deleted and
  created again) and three secrets: two rotations that overtake each other.
* **Clock** (`MaxTime`). `refresh_race` stands still: none of its properties
  depends on time passing, and `refresh_time` lets it pass, with one request at
  a time, through grace (1), expiry (2) and retention (1) up to tick 4.
  `oauth_flow` runs one tick past the life of a state. `client_*` keep the shipped
  proportion, a grace period as long as the timeout (2 ticks each, a request takes
  up to 1); in 3 ticks a lost answer is noticed and repeated too late, and two
  failures let a repetition, a 5xx and an overlap meet.
* **Symmetry** over slots, operation ids and redirect targets, in safety runs
  only.
* `client_*` stop when operation ids, tokens or the clock run out, and
  `migrations` when every process has done its work and advice is taken; deadlock
  is not checked there, in the other runs it is.

### Fairness

Two runs state any. `migrations`: a process that runs goes on (it waits for
nothing but the creation of the journal); a container is started again, by its
restart policy after a refusal and by the next deployment otherwise; the operator
runs the tool when told to baseline, and drops the journal when told to. Edits
and deaths are never fair, and `AdoptionEnds` asks only for a schema that stays
some release's and a journal that does not stay ahead of it.

`client_retry` (`FairClientSpec`): requests reach the
platform or are lost, handlers run to their end (Express has no queue a request
could stay in), answers arrive or are lost, a 5xx is an answer, the SDK's timer fires
(`AbortSignal.timeout`), and the consumer repeats an ambiguous call. Nothing
forces a consumer to begin a refresh, and losing messages is never fair. All of
it is weak fairness of single slots: no step is assumed to win a race.

## 4. Proofs

Every safety invariant and every action property that a run checks has a theorem
below, the two that section 5 reports as violated excepted (of the second, section 4
proves when it holds). The theorems hold for
all values of the constants that satisfy the assumptions the modules name; where
one needs more, the theorem says so as a hypothesis, and the reason is given.

### RefreshTokens and Sessions

`tlapm` proves, for any sets of users, applications, requests and operation ids
and any bounds:

| Theorem | Statement |
|---|---|
| `TypeCorrect` | `Spec => []TypeOK` |
| `OneLive` | `Spec => []OneLivePerLogin` |
| `ReplayOfRedeemed` | `Spec => []ReplayOnlyOfRedeemed` |
| `OneOperation` | `Spec => RedeemedByOneOperation` |
| `BoundToOwner` | `Spec => BoundToClient` |
| `SuccessorRecorded` | `Spec => []LiveIsRecordedSuccessor` |
| `GraceIsFixed` | `Spec => RetriesEndWithGrace` |
| `Implementation` | `Spec => ImplementsSessions` |
| `ChainsAreSingle`, `EndsAreFinal` | of the abstract `Sessions`: a login has at most one usable token, and none again once it has none |

The assumptions are those `RefreshTokens` names: users have an application,
`NoOp` is no operation id, durations and bounds are natural numbers, older
releases left finitely many rows.

*Argument.* That a login has one live row is not inductive. A retry revokes the
row that the predecessor records as its successor and inserts another one; that
this is the *only* live row of the login needs that records stay within a login
(`Links`) and that the live row is the one recorded (`LiveIsRecordedSuccessor`).
That a redemption leaves an operation behind needs that requests on their way to
a rotation carry one (`Asked`). Hence

    IInv == TypeOK /\ Asked /\ Links /\ OneLivePerLogin /\ LiveIsRecordedSuccessor

The proof goes through three classes of steps, not twenty actions: a step only
revokes or deletes (`OnlyRevokes`), inserts the first row of a login
(`NewLogin`), or exchanges one live row for a new one that exactly one redeemed
row records (`Renewal`). `EveryStep` shows that every action is one of the
three, `RevokesKeep`, `LoginKeeps` and `RenewalKeeps` that each class keeps the
invariant. The same classes give the refinement (`End`, `Begin`, `Renew` of
`Sessions`) and `GraceIsFixed`.

Replay and the binding to the client are about what a handler read some
statements before it writes. `Claims` says what of it lasts: rows that read as
rotated have been redeemed and stay so (`RotatedWas`), and a request holds a token
of its user, a user of its client, and, where it will blame a second holder, a
token that was redeemed (`Claim`). `RotateWrites`, `RetryWrites`,
`RevocationWrites` and `InsertWrites` name the rows each statement writes;
`ClaimsStep` shows that only what has just been read is newly claimed.

### RefreshClient

In the same module, over the invariants of the platform:

| Theorem | Statement |
|---|---|
| `ClientTypeCorrect` | `ClientSpec => []ClientTypeOK` |
| `PairsOnlyAdvance` | `ClientSpec => PairsAdvance` |
| `TakenForThiefOnlyIfExcused` | `ClientSpec => []NeverSignedOutEverywhere`, under `GraceWithinLife` |
| `SessionEndsForCause` | `ClientSpec => RefreshSucceeds`, under `GraceWithinLife` |
| `PatientConsumerStaysSignedIn` | `ClientSpec => []LossSignsNobodyOut`, under `Patience` |

`ClientAssumption` asks for durations and bounds in the naturals, a slot and a
token. `GraceWithinLife` is `Grace < Life`: no unused successor expires within
grace (10 s and days, as shipped). The first two hold for the shipped defaults and
any others. The third is the ADR's promise, which the defaults break (section 5),
and says what the constants would have to satisfy:

    Patience == /\ Delay < Timeout          \* the SDK waits longer than a request takes
                /\ Grace >= Timeout * MaxFailures + Delay
                /\ Grace < Life

So the grace period has to cover one timeout per failure and the way of the last
repetition. What remains even then is what no grace period helps: a 5xx to an
operation that redeemed the token, and a repetition that overtakes its original.

*Argument.* Every step of the platform is a step of `RefreshTokens` (`Serve`,
`Arrive`) or leaves it alone, so that `IInv` and `Claims` carry over. `ConsumerInv`
adds what a connection carries (`Connected`: an answer's pair was issued after the
token it was asked with, which gives `PairsAdvance`) and that a call is about the
stored token (`Calling`). The invariant for the other three is `overtaken \/
SignedIn`: until a call is given up beside its own request, the consumer has one
call out, for no longer than `Delay` (`OneCall`), and the token it holds is live,
was rotated by this very call with an unused successor (`Redeemed`), or is `Lost`:
redeemed by an operation that is not repeated or comes too late (`Session`).
`Handled` says where in the handler a request can then stand: about a live or
redeemed token it is `Doing` one of a few things, none of which blames the
consumer, and about a lost one it inserts nothing (`Barren`). Hence a replay is of a
lost token (`ReplayIsOfLost`) and a 401 of a lost or expired one. For the third
theorem `Timely` uses the failures as a clock: `Due` is the time of the rotation and
a timeout for each failure since, of which every branch of `InTime` keeps the call
on the right side, so that `Late` never comes about.

### Authorization

For any clients, principals, roles, permissions, names, keys and slots:

| Theorem | Statement |
|---|---|
| `TypeCorrect` | `Spec => []TypeOK` |
| `SiloHolds` | `Spec => []Silo` |
| `NoOrphansHolds` | `Spec => []NoOrphans` |
| `AdmittedFreshHolds` | `Spec => AdmittedFresh` |
| `RefusedRightlyHolds` | `Spec => RefusedRightly` |
| `SameRules` | of scopes with no more than two parts each: `HasScope` and `Permits` agree |

The assumptions: every row has a client (`OwnerAssumption`), no account is `NULL`
and default roles are roles (`IdAssumption`), names are sequences of strings of any
length (`NameAssumption`). `AdmittedFresh` and `RefusedRightly` measure a key by
`PermitsKey`, and so cover every name the schemas let through; `SameRules` says
where that is the rule of a user's token, as the contract has it.

*Argument.* `Silo` and `NoOrphans` speak of rows, but what endangers them is a
handler that writes what it checked some steps ago. `SiloInv` adds what it still
knows then (`Claim`): that its role, permissions and principal are of one
client, which nothing changes, and that the principal it will assign to has its
row, which nothing deletes. It does not know that the role is still there; that
is left to the foreign keys (`Referenced`), and the proof uses them exactly at
`Add`, `Assign` and `AssignInitial`.

`AdmittedFresh` and `RefusedRightly` follow from `FreshInv`: the row a check
reads stays and stays its client's (`Tied`), and for each condition the position
of the check tells whether it has been met (`History`). `Moved` says what a step
does to one check, `HistoryStep` that this keeps `History`; the actions are then
only shown to be moves. The last condition is met at the very step that admits,
by `KeyRule`: `HasScope`, which searches the scopes one by one, comes to
`PermitsKey`.

### AccountTokens

For any accounts, applications, passwords and requests and any number of links:
`TypeCorrect`, `OneWritePerTokenHolds`, `VerifiedThroughMailboxHolds`,
`PasswordsAreAuthorizedHolds`, `TokensSurviveOthersHolds` and
`RevocationIsCompleteHolds`, each `Spec` implying the property it is named for.
Assumed: accounts have an application and no password is the missing one
(`UserAssumption`, `PasswordAssumption`), the bound is a number.

*Argument.* `TypeInv` adds to the types what a request carries from its first
statements to its write: the link's owner, its purpose, that it was mailed, that
the caller is the owner's application, and of a change that the password its caller
presented is the one of the row it read (`Carries`); and that an account which does
not exist is blank and owns no link and no session (`Rooted`). Accounts and links
only grow (`Grows`, `Extends`), so none of it is lost to others. `OnceInv` is about
the consume: while a link is unused nobody is on the way to a write for it,
afterwards one request is, until it has written once. `VerifiedThroughMailbox`
follows from what a verification carries and from `Rooted`; a link or an origin,
once there, stays.

`RevocationIsComplete` is inductive over `TypeInv` because the history is precise: a
write makes all live rows of the account stale and its own request covers them
(`RevokedOutdate`); a snapshot has all of them; a row inserted later either finds a
revocation that has yet to read, or is excused by name; and whoever stops covering
a row has ended it or died (`RevokedApplyAll`, `RevokedAbort`). `RevokedBy` and
`RevokedQuiet` are these cases for a step in general.

### OAuthFlow

For any providers, subjects, applications, targets, challenges and requests and
any lives of states and codes: `TypeCorrect`, `SessionsMatchTransactionsHolds`,
`StatesPassOnceHolds`, `CodesOpenOnceHolds`, `CodesSurviveOthersHolds`.
Assumed: `SetAssumption`, `BoundAssumption` and, in `TimeAssumption`, that the
browser is longer at the provider than the claim of a nonce takes after the
state's age was checked (`Lag <= Away`).

*Argument.* `TypeInv` adds what a callback or an exchange carries (`Carries`) and
that a code is bound as the state it came from (`Sealed`). For `StatesPassOnce`, `NonceInv` says how
far the clock can be from what a request checked (`Timely`) and that the marker of
a state that passed outlives the state (`Remembered`); this is where `Lag <= Away`
is used. For codes, `OnceInv`: while a
code is in Redis nobody has taken it; then one exchange has, and it was opened at
most once, by that exchange.

### Tenants

For any requests, emails, role names and permissions: `TypeCorrect`,
`AdminInPlaceHolds`, `FailsForCauseHolds`, `OldSecretsDieHolds`, and
`ToldSecretsWorkHolds` (the secret an operator is told works unless another
rotation has written since). Assumed: `TenantsAssumption`.

*Argument.* What one statement of a bootstrap has written, others may undo before
the next. The causes that `FailsForCause` names are three: the email was there when
it was looked for (an earlier bootstrap that was cut off may have left it), it was
taken since, or the role was created or deleted under the request. `BootInv` says
of each position what is in place by then, or else that something happened beside
the request (`Boot`), and that no two role names have one id (`Injective`). `SecretInv` says which secrets a rotation has found and
generated (`Holds`) and that of two rotations neither has found what the other
generated (`Apart`). Every step is
split into what it does to its own request and what it does to the others
(`OthersSame`, `OthersTold`), so that the second part is proved once.

### SigningKeys

For any number of requests and keys and any lives, ages and timeouts:
`TypeCorrect`, `NobodyForgottenHolds` (nobody waits for a key set that was not
asked for), `OldKeysDieHolds`, `DeniedRightlyHolds`, `LegacyOnlyAskedHolds`.
Assumed: `SigningAssumption`, positive durations (a timeout and a reuse may be 0)
with a cooldown not longer than the age.

*Argument.* A token of an old key passes no longer than `Reuse + Timeout + MaxAge`
after the rotation because of two bounds: an answer under way names a key that was
replaced at most `Reuse` before it was asked for (`FetchInv`), so a cached key that
was replaced arrived within reuse and timeout of being replaced, and leaves the
cache at its age (`CacheInv`). The other bound is the token's own: a key signs
nothing after it was replaced (`KeyInv`), so its tokens expire a life later
(`TokenInv`), and what is expired is not accepted. With the shipped `Reuse` of a day
the second bound is the one that counts. `RequestInv` keeps why
a legacy token is on its way to the platform. `Answering` lists the three ways a
request is answered; each property then follows from what the key set says of
the token (`Verdicts`).

### Migrations

For any number of migrations, containers of any releases, runs of the tool and
edits:

| Theorem | Statement |
|---|---|
| `TypeCorrect` | `Spec => []TypeInv` (`TypeOK`, and which statement each process can be at) |
| `VouchedHolds` | `Spec => []Vouched` |
| `ReplaysNothingHolds` | `Spec => []ReplaysNothing` |
| `WritesTrueHolds` | `Spec => WritesTrue` |
| `JournalWholeHolds` | `Spec => []JournalWhole`, if the newest migration of each container's release is not `Idempotent` |

Assumed: `MigrationsAssumption`. The hypothesis of the last theorem is needed: a
container that read an older journal may reach the migrator's transaction after a
newer one has committed, and only the failure of a statement over its own result
stops it. In `drizzle/` the first two migrations would succeed (IF NOT EXISTS);
this release ends with the ninth.

*Argument.* What the guard found out is about a database that others may change
while it looks. `KnowsInv` says of every process that nobody has raced
(`raced`, the history the properties excuse) what it knows at each statement: the
markers it has probed (`Found`), then that the journal has their rows (`Checked`)
or that there is neither (`Fresh`), and at the end that schema and journal are its
release's. A step of another process that changes either marks everybody else as
raced, so that only the process's own steps have to keep its knowledge, and
`Vouched`, `ReplaysNothing` and `WritesTrue` follow. `JournalWhole` is about races
and cannot excuse them. `WholeInv` has two parts instead: while the operator
leaves the database alone, it is at some release `n` with that release's whole
journal or none (`Sized`), and whatever a process has read is a state it was in
before (`Follows`): `n` only grows, by whole releases.

### AuditTrail and LoginGuard

For any addresses, accounts, requests, windows, allowances, page sizes and
retention:

| Theorem | Statement |
|---|---|
| `TypeCorrect` | `Spec => []TypeOK` |
| `AllowancesHold` | `Spec => []AllowanceHolds` |
| `RefusalsHaveCause` | `Spec => RefusedForCause` |
| `PagesOnlyGoBack` | `Spec => PagesGoBack` |
| `HistoryShown` | `Spec => HistoryIsShown` |

Assumed: `GuardAssumption`, `TrailAssumption`, and that `None` is neither a time
nor a reading (`NoneAssumption`).

*Argument.* A bound on any window does not follow from itself: what may still pass
depends on how far the counter's own window has come. `Sound(k)` relates the
history to the counter: a key exists exactly while its window runs (`Clock`); what
was let through since the window began is what the counter says, capped by the
allowance (`Justified`, `Bounded`); before that less than one allowance, because
the first request of a window is let through in the tick that begins it
(the strict inequalities of `Bounded`); and each failure of Redis adds one
allowance at most (`Excess`). `Untouched`, `LetThrough`, `TurnedAway` and `TickedOn`
are the four things that can happen to a counter. `RefusedForCause` is then
`Justified` at the step that refuses.

For the pages, `Ordered` says that ids are given in the order of time stamps, also
to rows that are still to be committed; `Underway` that whatever is older than
the cursor is also older than the last row shown, and that what the reader is owed
lies before the cursor, unless the retention job may take it. That a request's
row is in the table before the request is answered is `AwaitedRows`.

### Model-checked only

Liveness under fairness (`RefreshEnds`, `AdoptionEnds`) is beyond
the prover and stays with TLC.

## 5. Findings

**A replay leaves a session alive** (`refresh_replay_all`,
`ReplayEndsEverySession`). The revocation is one UPDATE; a rotation that commits
between its snapshot and its locks inserts a successor it does not see.
`docs/contracts/sessions-and-tokens.md:32` promises that every active refresh
token is revoked.

**A lost answer signs the user out everywhere** (`client_shipped`,
`LossSignsNobodyOut`). The SDK's timeout and the grace period are both 10 s, so a
lost answer is noticed when grace is over: the documented retry finds the token
redeemed, is refused, and revokes every session. ADR 0010, line 35, gives the retry
the opposite purpose. `Patience` (section 4) says which constants keep it.

Observed while modelling, without a run of their own:

*Sessions.* A retry may overtake its original while that is still served; one of
the two may then be taken for a replay. An operation that redeemed the token and was
answered by a 5xx cannot be repeated, so the next refresh is a replay too (both are
in `Excused`). A logout with a token that was rotated already writes its row alone
(`src/routes/auth.ts:416`) and leaves the successor live. `DELETE /sessions`
revokes the caller's refresh token too, so the recipe "revoke everything and refresh
with their own stored token" (`docs/contracts/sessions-and-tokens.md:58`) ends in a
401.

*Accounts.* Three races leave a session after a reset, a change or a deactivation
has revoked "every refresh token the user has"
(`docs/contracts/account-lifecycle.md:28`): a login or an exchange that checked its
credentials before and inserts its session after; a rotation that commits between
the UPDATE's snapshot and its locks; a request that dies between its write and the
UPDATE. `RevocationIsComplete` says that these are all, and excuses each only the
row it leaves. A password change overwrites a password set after it verified the old
one. The second of two simultaneous registrations answers 500, not 409.

*Sign in through a provider.* `docs/contracts/authentication.md:32` says that only
verified provider emails create or link accounts; Google's own flag is not looked
at (`src/services/oauth.ts:315`), and the callback marks the address verified
(`VerifiedThroughMailbox` names the provider as one who vouches). Linking is an UPDATE by id
after an earlier SELECT (`src/routes/oauth.ts:247`): of two callbacks with different
identities the later one replaces the first, where
`docs/contracts/authentication.md:39` refuses a second identity.

*Scopes.* "The same matching rules" for keys and users
(`docs/contracts/authorization.md:15`, `docs/trust-model.md:84`) holds for names of
up to two parts (`SameRules`). The schemas let others pass, and `users:*:own` admits
a key to `users:write` and a token not.

*Roles.* `PUT /roles/:id/permissions` deletes and inserts in two statements
(`src/routes/roles.ts:262`): what another PUT, or the creation of the role,
inserts in between stays, and the role grants a union nobody asked for. A PUT
that repeats a permission id passes the check, deletes, and fails on the primary
key, as does a crash after the DELETE; a token signed or a key checked in the
middle of any PUT misses even the permissions it keeps. User and default roles
are separate statements, so that a login between them gets a token without "the
intended baseline" (`docs/contracts/authorization.md:31`).

*Migrations.* A probe that races a migration sees a gap or a longer schema than
the journal and is refused, although nothing is wrong; started again it passes.
A container of an older release refuses a newer database ("ahead"). `drizzle-kit
push` beside the tool, or a journal dropped under a container, can leave rows
out of order or twice; the guard of the next start finds the latter. A migration
is taken for applied by its first object alone.

*Keys.* A rotated key's tokens do not "fail verification from the restart"
(`docs/operations/key-rotation.md:23`): a consumer trusts the old key for the age of
its key set (5 minutes), and a cache on the way may hand it out again for a day
(`src/routes/jwks.ts:10`, `docs/trust-model.md:106`). What ends them then is their own
expiry: counted from the rotation that is the life of a token, as line 40 and
`docs/trust-model.md:122` say, as long as nobody but the platform has the key.
For a key that was exposed only the bound by the caches is left,
`Reuse + Timeout + MaxAge`, which does not depend on who signed; tokens that others
sign are not modelled. A new key's token is refused for the cooldown (30 s) after a
fetch, not picked up "on first contact" (line 25). A legacy token passes at a consumer
that has not opted in when the fetch of the key set fails under it and the
platform's own switch is on (`LegacyOnlyAsked` names the case;
`docs/trust-model.md:108` asks for both).

*Guard and audit.* Fixed windows let nearly two allowances pass around a window's
end, where `docs/threat-model.md:25` says 5 attempts per minute. Rows in the millisecond in which
a page ends are shown by no page (`HistoryIsShown` excepts them). Wrong client
credentials at login leave no audit row.

*Tenants.* A bootstrap that is cut off after it inserted the admin has used the
email up: the next one needs another, and the row stays, without its role, for
somebody to find. A bootstrap that names an existing role
completes it with the management permissions, and so gives them to everybody who
holds it already, and its other grants to the admin. Two rotations at once both
answer 200, one of them with a secret that is dead. Of two simultaneous first
bootstraps the loser answers 500 from the unique index.

## 6. Plan

Done: all the modules of section 2 with their runs; the proofs of section 4.

Next, in this order: a consumer that signs out while it refreshes
(`RefreshClient` with logout), with the property that says what a sign out may
leave; the link of a second identity (`OAuthFlow`) as a property of its own; a
manager whose token has outlived the role, and `POST /roles` beside a bootstrap
(`Tenants`).

Not modelled, and why: signing, hashing and sealing (libraries: a credential is
genuine or not); the inside of the JWKS cache and of drizzle's migrator, which
are modelled from their use; parsing of requests and of configuration; public
clients and the link targets of mails (constant data that no step changes); the
wiring, the documentation routes and the admin console, which keep no state; the
seed, which fills a development database once, but for its account.
