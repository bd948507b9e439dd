# A verification project for crm-backend

This directory holds TLA+ models of the CRM backend in `src/` (NestJS, TypeORM
on PostgreSQL, Redis with a file fallback), the TLC configurations that check
them on small instances, and proofs that the TLA+ proof system checks for every
value of the constants. `PROJECT.json` lists the parts in a form a script can
read: the runs, the theorems, the lines of the source every definition stands
for, and the findings.

Paths below are relative to `src/src/` unless they say otherwise.

## 1. The system

The service is a set of NestJS modules. Each handler is an `async` method. It
runs alone from one `await` to the next, but at every `await` any other handler,
a cron job or another process may run. All lasting state is in PostgreSQL,
Redis (or JSON files where there is no Redis) and the storage directory. A
process that ends loses the handlers in progress and nothing else.

Three facts about the libraries matter everywhere, and are part of every module:

* `repository.save(entity)` loads the row by its primary key, soft-deleted or
  not, and writes every column in which the entity differs. If the row is gone
  it inserts it. So after a save the row equals the entity, *however long ago
  that entity was read*; `revoked_at`, `deleted_at`, `email_verified_at` and
  the like go back to what they were.
* `find...` never returns a soft-deleted row; `softRemove` writes `deleted_at`
  and nothing else; foreign keys see soft-deleted rows as present.
* No handler uses a transaction or a row lock. What separates two requests is
  a unique index, an atomic `INCR`, or nothing.

### Components

| Component | State | Operations | Interacts with |
|---|---|---|---|
| Login sessions (`auth/services/auth-session.service.ts`, its repository, the access token guard, the cleanup cron) | `user_sessions`: owner, token version, expiry, revoked; a throttle key per session | create at login, rotate at refresh, detect reuse, authorize and touch, three logouts, revocation by password change, deactivation, removal and reset, hourly cleanup | users (active, deleted), Redis, audit, websocket |
| Login, password and profile (`auth.service.ts`, `account.service.ts`) | `users`: e-mail, verification, password, failures, lock | login, verify, resend, forgot, reset, profile update | sessions, tokens, mail, storage |
| Action tokens (`auth-token.service.ts`, its repository) | `auth_action_tokens`: user, purpose, hash, expiry, consumed | create (invalidates the older ones), consume, delete, cleanup | the handlers above, mail |
| User administration (`users/users.service.ts`) | `users`, role and brand assignments | create, update, remove | sessions, tokens |
| Read cache (`core/cache`) over Redis or files (`core/redis`) | a version per namespace, pages under versioned keys | `rememberVersioned`, `invalidateNamespace` | every list and detail read of organizations, brands, companies, roles |
| Organizations, brands, companies | one soft-deleted table each, unique key; brands refer to an organization and to a parent brand | create, update, remove, reads | the cache, each other |
| Permissions and roles (`config/permission.config.ts`, guards, controllers' decorators, `users.service.ts`, the synchronisation script) | roles, permissions, mappings, assignments; a snapshot in each access token | synchronise, assign, sign at login and refresh, guard | sessions, user administration |
| Queue and mailer (`core/queue`, `core/mailer`) | BullMQ jobs, or inline processing with a record file | enqueue, process, retry, remove | everything that sends mail |
| Scheduler lock, maintenance cron (`core/scheduler`, `jobs/cron`) | a lock key with a time to live, in Redis or a file | `setIfNotExists`, dispatch | Redis, queue |
| Storage, media, avatars (`core/storage`, `modules/media`, `account.service.ts`) | files and the rows that name them | upload, resolve a reference, replace, delete | profile |
| Audit log, websocket gateway, health, configuration, logger, background processors, seeders, migrations, scripts | see section 7 | | |

### What is hard about each

*Sessions.* A guard that saves the session it read, a refresh with half a dozen
awaits between its version test and its save, a cleanup that deletes rows
others hold in memory. Correct: a session that ended stays ended; each refresh
token is exchanged once; reuse is reported only when there was reuse; a request
ends sessions of its own user only; rows do not accumulate.

*Cache.* A page loaded before a write can be stored after it. Correct: a read
that starts after a write was answered reflects it; and pages become current in
the end whatever fails.

*Tables.* Uniqueness is checked in one await and saved in another; updates save
whole entities. Correct: no two live rows share a key; removed rows stay
removed; updates touch the fields they are asked to touch.

*Links.* Checks on one table, writes to the other. Correct: a brand has a live
organization, and a live parent of the same organization.

*Tokens.* Find and update apart; invalidate and insert apart; a mail sent before
the change it is about. Correct: a token works once, only the newest works, and
an address counts as verified only if mail to that address was answered.

*Users.* Login reads a user, waits for bcrypt and saves all of the entity; so do
reset, profile, verification and administration. Correct: nobody is locked who
did not guess wrong often enough; a lock holds for its time; a row says what was
last asked of it.

*Access.* What guards look at was copied into a token some time ago, from tables
read in several statements, while assignments are replaced in two. Correct: what
is revoked is gone after a bounded time; roles open the endpoints they are for;
a user has the roles that were last asked for.

*Background work.* Processes die between taking a lock and acting on it, and
between sending a mail and saying so; without Redis the lock is a file that is
read, removed and written. Correct: one grant in a time to live; no mail
recorded as sent that was not; work goes on after faults.

*Avatars.* A file goes before the row that names it is saved; a client may name
a file by its key or its URL, and URLs depend on the deployment. Correct: the
avatar is the file that was chosen, and it exists.

## 2. The modules

| Module | Role |
|---|---|
| `SessionRegistry` | the promise of the session subsystem: opened once, rotated by one generation while open, closed for good |
| `UserSessions` | the handlers, cron and clock behind it; `RegistrySpec` is the refinement |
| `UserSessionsLogout` | `UserSessions` with a history of the sessions that a logout ended |
| `UserSessionsProofs` | type correctness, versions, finality, refinement, ownership, one request per user at a time |
| `VersionedCache`, `VersionedCacheProofs` | the read cache on Redis and on files |
| `RequestSlots` | the requests in progress; `ManagedTable`, `Catalog` and `ActionTokens` extend it |
| `ManagedTable` | one table of organizations, brands or companies |
| `Catalog` | organizations and brands with the checks between them |
| `CatalogProofs` | proofs about both |
| `ActionTokens`, `ActionTokensProofs` | tokens sent by mail, e-mail verification |
| `UserAccounts`, `UserAccountsProofs` | rows of users: password, failed logins, lock, `is_active`, removal |
| `Permissions` | codes, roles, endpoints and guards: what the code fixes |
| `AccessControl`, `AccessControlProofs` | how access gets from there into tables and tokens |
| `SchedulerLock`, `JobQueue` | the lock and the queue, as actions for others to compose |
| `Background`, `BackgroundProofs` | both, with the maintenance cron and the processes that run them |
| `StorageKeys` | keys and URLs of the storage drivers, and how a reference is resolved |
| `AvatarStorage`, `AvatarStorageProofs` | uploads and the replacement of avatars, for any deployment |
| `MC...` | values and symmetry sets for TLC, nothing else |

The parts that share state are in one module where that state decides
something: `UserSessions` has what users and sessions do to each other,
`Catalog` both tables, `ActionTokens` the users' addresses and the tokens,
`Background` the lock and the queue. A column of `users` is in the module of the
handlers that test it; in the others its save is part of "some handler saves the
entity it read" (`UpdateOther`, `BeginOther`).

### How a handler becomes actions

Every module has the same shape. `req` (in the cache `reader` and `writer`) is a
table of slots for requests in progress. A slot holds `pc`, the await it stands
at, and the data the handler keeps in memory there: the entity it read, the
token it was given. One action is the code from one await that touches shared
state to the next. Two awaits are merged only when nothing that happens in
between can change what the second one does (the comment on the action says
so). `Abort` ends a request anywhere: an exception, a dropped connection or the
end of the process. A check that throws has no action of its own: its success is
a guard, its failure is `Abort`. An entity in memory is a *copy*; a save writes
the copy.

* **UserSessions.** `sessions` is the table, `active` and `deleted` are what the
  handlers read of users, `throttled` the Redis keys of `touchSession`, `issued`
  the token pairs that reached a client, `drawn` the ids already used, `peak` a
  history variable: the highest version ever saved. Login is `Login`, `UserSave`,
  `CreateLoginSession`, `SaveIssued`, `Reply`. Refresh is `RefreshRead` (finds
  the row; tests revocation, expiry and version), `RefreshRotate` (the user
  read; increments in memory), `SaveIssued`, `Reply`; a version that differs
  leads to `HandleRefreshTokenReuse`. The guard is `Authorize`, then `TouchGate`,
  `TouchRead`, `TouchSave`, `TouchSet`; only then is the handler proper reached
  (`authorized`), where `LogoutCurrent`, `LogoutAll`, `RevokeSpecificSession`,
  `PasswordChange`, `UserRead`, `RemoveUser` or `Serve` follow. The cleanup
  deletes rows with `expires_at < now`, the checks refuse `expires_at <= now`:
  both comparisons are modelled as they are.
* **VersionedCache.** `db` counts committed writes and a page is the number it
  reflects. `acked` is the last write whose caller has its answer and a read
  remembers the `acked` it began with as its `floor`: what its caller may rely
  on. Both are histories, and kept with Redis only, which is what the promise is
  about. `backend` is chosen once. `version` is 0 at first: nothing in the code
  creates the key. On files `incr` is `IncrRead`, `IncrTruncate`, `IncrFill`. A
  version (`Found`) or a page on files may read as absent at any time: someone
  else is writing the file, or the disk failed, which `readFallbackEntry` takes
  for the same.
* **ManagedTable.** `table`, `deleted`, and requests that hold an entity and the
  set of fields their caller sent. `Save` fails when the partial unique index
  over live rows says so. It undeletes the row it writes, as TypeORM does.
* **Catalog.** `organization` has the life of each row, `brand` its organization
  and parent, `removed` the soft-deleted brands, `placed` the history of which
  brand was ever in which organization. `EnsureOrganizationExists` and
  `ValidateParentBrand` are the two checks with their own awaits.
* **ActionTokens.** `account` has address and verified, `token` the table,
  `inbox` the mails sent. A token can be presented by whoever has a mail that
  carries it. `proven` records, for each verification token presented, the
  address it was mailed to. Saves by handlers that do not touch the address
  (login, a profile update of a name) are `BeginUpdate` with the address
  unchanged, followed by `SaveUser`.

* **UserAccounts.** `account` is the table, `removed` the rows with `deleted_at`.
  Login is `LoginRead` (finds the user, refuses an inactive or a locked one; the
  comparison is with the hash just read), then `LoginSucceeds` or
  `HandleFailedLogin`, each the save of that entity. `ResetPassword`,
  `UpdateProfile`, `UpdateUser`, `SeedUser` and `BeginRemove` are the reads of
  the other handlers with what they set in the entity; `SaveUser` is their save,
  `SoftRemove` what removal does after it. `wrong`, `lastWrong` and `intended` are
  histories of what requests asked for.
* **Permissions** and **AccessControl.** `RoleDefinitions` is computed as
  `permission.config.ts` computes it, from the modules and their actions; each
  controller is the set of its endpoints with their decorators; `Admits` is the
  three guards in a row. `SyncPermissions` and `SeedUserWithRole` are transactions
  and one step each. `syncUserRoles` is `DeleteRoles` and `InsertRoles`,
  `syncUserBrands` likewise, after `EnsureBrandsExist` where the handler calls it
  that late. Login and refresh read roles, assignments and codes in
  `GetRoleCodes`, `GetAssignments`, `GetPermissionCodes` before they `Sign`. An
  administrator acts with a token that the guards admit, that of a user of the
  instance or one of `Others`, administrators whose own rows are not looked at. `SerializeUser` is what
  the answers say of a user.
* **SchedulerLock.** `entry` is the key: absent, torn (a file that was truncated
  and not written), or the time it has left, 0 for a file that has expired and
  is still there. `SetNX` is Redis; `ReadEntry`, `RmExpired`, `Truncate`, `Write`
  are the awaits of the fallback, and `ReadFails` is a read or a removal that
  throws: `readFallbackEntry` answers "no entry", whatever the file holds. What
  will be written as `expiresAt` is computed before the awaits of the write:
  `expires` counts it down while the process writes, so a grant by a file may
  begin with less than the whole time to live. `left`, a history, is what
  the lock granted last has left.
* **JobQueue.** A job goes `waiting`, `active`, `handled` or `broken`, `completed`,
  `delayed` or `failed`; the transport may throw before or after it accepted a
  mail. `Complete`, `Fail`, `Promote` and `Stalled` are BullMQ as the options of
  `QueueService` configure it; `PersistCompleted` and `PersistFailed` are the two
  ends of `processInline`, in which the first is inside the `try` of the other.
* **Background.** `Tick` is the clock that fires the cron in every process; a
  handler is `Fire`, the steps of the lock, `Dispatch`. `LockMisreads` is a read
  error that the lock does not notice, `HandleThrows` one of Redis, or of writing
  a file, that ends the handler. `Crash` takes the handlers and inline jobs of a
  process with it; `Calm` ends the faults.
* **StorageKeys** and **AvatarStorage.** A text is an origin, leading slashes and
  segments; `NormalizeStorageKey` works on it as the code works on strings.
  `updateProfile` is `BeginSetAvatar`, `BeginSetOther` or `BeginClearAvatar`, then
  `Exists`, `DeletePrevious`, `Save`. The client may send any text.
  `BeginSetAvatar` has the references that `upload` answered with, to any user;
  `BeginSetOther` the keys that pass the test of the prefix and are not those of
  an upload of one's own (`Others`): with `..` to a file of another user or the
  long way round to one's own, and the directory of the uploads. Any other text
  is refused, or is the key of nothing and ends at `Exists`. `ResolvePath` is
  `path.resolve` of the local driver, which S3 has not, and a directory passes
  `exists` (`IsDirectory`). `Reusable` says independently of the code's steps
  which references lead back to their key. The histories `chosen`, `torn` and
  `detoured` are kept as long as requests do not overlap, which is where the
  property uses them.

### The variable `serial`

The code takes requests as they come. Several statements of its documentation
are nevertheless true only if the clients do not overlap their requests. So
`ManagedTable`, `Catalog`, `ActionTokens`, `UserAccounts`, `AccessControl` and
`AvatarStorage` have a variable `serial` that never changes, chosen in `Init`:
when it is TRUE a request begins only when no other one is in progress (aborts,
the cleanup and the clock remain). A property
`serial => P` then says precisely what holds, and the run covers both kinds of
behaviours at once. Every `serial =>` is there because without it TLC finds a
counterexample; section 5 says which. (`UserSessions` gets the same by the
number of request slots: `sessions_serial` has one. `Background` has `orderly`,
which is about the lock file only: when it is TRUE the processes take turns with
`setIfNotExists`, and reading the file does not fail.)

## 3. The runs

States and times are from two workers on a small machine.

| Run | Instance | Shows | States, time |
|---|---|---|---|
| `sessions_concurrent` | 1 user, 1 session, 2 requests, versions up to 2, lifetimes of 1, clock up to 2 | shape, versions, finality, refinement, the end of dead rows, with everything overlapping | 366,920; 55 s |
| `sessions_serial` | 2 users, 2 sessions, 1 request, versions up to 3, lifetimes of 1, clock up to 1 | finality of revocation, rotation once, sound reuse verdicts, ownership | 657,540; 40 s |
| `cache` | 1 key, 2 readers, 2 writers, 3 writes, both backends | freshness (Redis), settling (both) | 327,119; 90 s |
| `table` | 3 ids, 2 keys, 2 values, 2 requests | unique keys always; checked keys, removals and updates when serial | 30,025; 4 s |
| `catalog` | 2 organizations, 2 brands, 2 requests | links were checked; organizations of brands when serial | 217,804; 8 s |
| `tokens` | 1 user, 2 addresses, 2 tokens, 2 requests, lifetime 1, clock up to 2 | verification by token always; single use, newest only, proven address when serial | 2,478,262; 115 s |
| `accounts` | 1 user, 2 passwords, 2 requests, limit 2, lock of 1, clock up to 2, 3 wrong guesses | locks are earned always; lockout holds and rows are as intended when serial | 1,188,134; 90 s |
| `access` | 1 user, 5 roles, 6 modules, 1 brand, 2 requests, token lifetime 1, clock up to 2 | revoked access expires always; roles mean what they say, assignments are whole when serial | 584,749; 120 s |
| `background` | 2 processes, 1 mail and 1 task at a time, 2 attempts, 1 stall, lock of 1, period of 2 | one grant per lock time, mails accounted for, work gets done | 398,098; 170 s |
| `avatars` | 6 deployments, 2 users, 2 files, 2 requests | keys begin with the user's directory always; avatars are as chosen when serial | 811,408; 90 s |
| `logout_undone` | as `sessions_concurrent` with a lifetime of 2, and the history of logouts | counterexample | short |
| `s3_url` | as `avatars`, the S3 driver with an endpoint | counterexample | short |

### Bounds, and why they are enough

* *Two requests.* Every race known in this code is between a handler that read
  something and one other that changed it. Two slots, each reused any number
  of times, give all such pairs, and sequences of them.
* *One session or two.* Concurrency of one session with itself needs one
  session; ownership and "all but the current one" need two sessions and two
  users. Sessions do not interact otherwise: no handler compares two of them.
* *Versions up to 2 or 3.* A stale save is told from a current one by a
  difference of one; a third version lets a rotation follow a rotation.
* *The clock.* Lifetimes of one tick and a clock that runs to 2 put `now` before,
  at and after an expiry, which is where `<` and `<=` differ. In
  `sessions_serial`, whose properties are not about the cleanup of expired rows,
  the clock stops at the expiry; in `logout_undone` a lifetime of two leaves room
  for the refresh.
* *Three writes, two readers, two writers* in the cache: the first invalidation
  leaves the version at 1, so it takes three to have two versions that promise
  something, and a reader that straddles the change from one to the other. No
  write lacks a version: it takes one at most.
* *Two tokens, two addresses*: one token older than another, one address older
  than another. One user: no handler of this module but the uniqueness test
  looks at two users, and the theorems are about any number.
* *Lock, attempts, guesses*: a limit of 2 is the least that tells "at the limit"
  from "at once"; a third guess goes beyond it. A lock of one tick with a clock
  of two is held, ends, and can be taken again.
* *Modules of permissions*: six of twenty-six, two of each kind that the code
  tells apart (an agent's module and others, managed and read-only) and all
  that an endpoint requires. An "earlier release" differs from the roles of
  this one in both directions, so synchronisation grants and revokes.
* *Tokens in `access`*: one token of a user at a time; tokens do not meet. `Others`
  has one manager, whose token is good in the first unit of the clock: someone
  has to create the one user of the instance.
* *One unit of the lock, two of the cron*: 540 s of 600 s in the code. All that
  matters is that a lock ends before the next firing, and that a unit may pass
  while a file is written. One mail at a time suffices because jobs do not meet;
  `Remove` makes its place free for the next one.
* *Deployments*: the default local base URL; S3 with and without a prefix, an
  endpoint, a public URL with and without a path. Other local base URLs (`/`, or
  without a leading slash, which the driver adds) are in the theorems.
* Where a bound stops the system (no ids or tokens left, the clock at its end)
  requests can still end or begin, so deadlock is checked, but in the five
  configurations of `UserAccounts`, `AccessControl`, `Background` and
  `AvatarStorage`, in which a clock, a history or the names of files run out, or
  (`Background`) liveness says more.

### Fairness

Three properties are about liveness, and each uses what the code schedules:

* `GoneForGood` assumes weak fairness of the cleanup alone: `@nestjs/schedule`
  calls it every hour while the process is up. Nothing is assumed of requests: a
  client may never come back, a handler may hang. The cleanup by itself gives
  only that a row goes again and again: a touch that read the row before it
  expired puts it back after it was deleted. That there is a last time comes from
  the guard and from refresh, which refuse a dead row and so let nobody get
  hold of it again.
* `CacheSettles` assumes that a read that began goes on or fails, and that pages
  with a time to live expire. Nothing is assumed of writers: a write may die
  between its commit and its invalidation, and the property must hold then too.
* `WorkGetsDone` assumes that the clock advances, that a handler goes on at its
  awaits, that a process that died is started again, and that BullMQ promotes,
  finds stalled jobs and hands waiting ones to a worker of some process. It
  promises nothing until faults end (`<>[](~ faults)`), and nothing is assumed about
  requests or the transport of mails, which may fail for ever.

## 4. What is proved

Every property of a passing run is stated by a theorem, with the exception of
the three about liveness (see the end of this section). A theorem is for any values of the constants that satisfy the named
assumptions of its module, which TLC evaluates on the instances of the runs:

* bounds, limits and lifetimes are naturals, positive where those of the code
  are and 0 would mean something else (`BoundsAssumption`, `CacheAssumption`,
  `TokenAssumption`, `AccountAssumption`, `AccessAssumption`, `LockAssumption`,
  `QueueAssumption`); the lock is shorter than the period of the cron
  (`PeriodAssumption`; 540 s and 600 s in the code);
* `None` (and `Torn`, in `Background`) is not a value of the data it stands
  beside: `NoneAssumption`, `TableAssumption`, `CatalogAssumption`, `NoRow`,
  `NoIntent`, `NoBearer`, and parts of those above and below;
* in `Permissions`, the modules that are looked at include the four that the
  controllers require codes of (`ModulesAssumption`); in `AccessControl`, tokens of
  other administrators are tokens (`OthersAssumption`);
* in `AvatarStorage`, every deployment is one that the code expects
  (`DeploymentAssumption`): a local base URL is a path, S3 is reached by absolute
  URLs, and nothing that comes before a key looks like one (`media/users`) or,
  with S3, like the local base URL; and no user and no fixed segment of a key
  has a name that parsing escapes (`NamesAssumption`).

Three theorems of `UserSessionsProofs` have a hypothesis of their own,
`[]OnePerUser`; it is explained below and is what the code needs for the
statement to be true.

**UserSessions** (`UserSessionsProofs`)
* `TypeCorrect`. `TypeOK` is inductive: it carries what a request holds at each
  await (`Equipped`).
* `VersionsCorrect`. `TypeOK /\ VersionsFollowSaves` is inductive. The point is
  that a rotation in memory is at most one ahead of `peak` and `peak` never
  decreases; lemmas reduce the twenty-odd actions to a few kinds of step
  (`StepKinds`) before the cases are split.
* `DeadSessionsStayDead`. An action property from `TypeOK`: if no request is
  `Engaged` with a session that is not live, then no step creates such a
  request (it would have to read a live row) and no step makes the row live (it
  would have to save an engaged copy).
* `ImplementsRegistry`. Initial states map to initial states, and every step is
  an `Open`, `Rotate`, `Close` or stutter of `SessionRegistry` under the mapping
  that calls a session closed once it is settled.
* `OnlyOwnSessionsEnd`, with any overlap. That a request only names sessions of
  its user is not inductive: the cleanup deletes rows while tokens and copies
  in memory still name them. `OwnerInv` says that *some* assignment of owners to
  ids agrees with all rows, copies and tokens, whether the row is still there
  or not; ids are drawn once, so the assignment never has to change.
* `RevokedOnePerUser`, `VerdictOnePerUser`, `RotatedOnePerUser`, assuming
  `[]OnePerUser`: no two requests in progress are about the same user, whether
  the user sent them or an administrator edits that user. Requests about
  different users overlap as they like, and the clock, the cleanup and lost
  replies come at every await; the run `sessions_serial`, with one slot, is the
  least case. Without it the statements are false, section 5. `SoleInv` says of
  each await how the version of the copy, of the token and of the row compare
  with the highest version ever saved, and that a row is not revoked while a
  copy of it is held. It survives the requests of others because these write
  rows of their own user only (`WritesOwn`), and a copy that is held is of a
  session of the user it is about (`OwnerInv` again, and `OthersApart`).

**VersionedCache** (`VersionedCacheProofs`)
* `TypeCorrect`, for both backends.
* `PagesFresh` and `ReadYourWrites`, from the missing version key on. What they
  promise begins with the second invalidation, which is the first that takes
  readers to another version: 1 is what they read under before there is a key,
  and what the first `INCR` gives (section 5). The inductive invariant is
  `FreshInv`: with Redis, `Coherent` and `IncrIsAtomic`. Freshness of answers alone
  is not inductive: a stale value may come from a page, from a value about to
  be stored, or from a version a reader took long ago. `Coherent` names these:
  nothing is stored above the current version; past version 1, pages and
  pending stores at the current version are as new as `acked`, and those at an
  older version are as new as the floor of any reader still bound to it.

**ManagedTable** (`CatalogProofs`, which extends it beside `Catalog`; so its
specification is `TableSpec`, its type invariant `TableTypeOK`)
* `TableTypeCorrect`, `KeysAreUnique` with any overlap: the index alone is enough.
* `SerialChecksHold`, `SerialRemovalsStay`, `SerialUpdatesAreExact`. The inductive
  invariant `TableSerialInv` adds, for serial behaviours, that at most one request is
  in progress and that what it read still holds.

**Catalog** (`CatalogProofs`)
* `TypeCorrect`. Each request in progress is `Sound`; rows never go away, so a
  brand that was read still has its row.
* `LinksChecked`, with any overlap. `LinkInv` adds that the history `placed` has
  the organization of every brand and nothing of a brand without a row. The last
  part is what shows that an insert cannot be its own parent: its parent had a
  row, the new id has none.
* `SerialBrandsHaveOrganization`. `SerialInv` adds, for serial behaviours, that a
  request is alone and that what it found in the tables is still so when it acts
  on it (`ChecksHold`).

**ActionTokens** (`ActionTokensProofs`)
* `TypeCorrect`.
* `VerifiedOnlyByToken`, with any overlap. `VerifiedInv` adds that every entity
  in memory that is marked verified, and every request on its way to mark one,
  is about a user who presented a verification token. That is what makes stale
  saves harmless here.
* `SerialTokensWorkOnce`, `SerialNewestOnly`. `SerialInv` adds, for serial
  behaviours, that requests are alone, that used tokens are spent or gone and
  nobody is about to use them, and that no active token exists while a request
  stands between the invalidation and the insert.
* `SerialAddressProven`. `AddressInv` adds to `SerialInv` what is known of every
  mail with a usable verification token: it went to the address of its user, or
  to the one that `updateProfile` is about to save (`MailsFit`); and of every
  request in progress: the row it holds is marked verified only if mail to the
  address in that row was answered, a save finds no usable token that went to
  another address than the one it writes, and between the invalidation and the
  mail there is none (`WorksFit`). A user whose change of address fails
  after its mail falls out of it, which is the exception in the property.

**UserAccounts** (`UserAccountsProofs`)
* `TypeCorrect`. `TypeInv` adds that wrong guesses are among the guesses counted,
  and that a request in progress is for a user with a row.
* `LocksEarned`, with any overlap. `AllEarned` says of *every copy* of a row, the
  table's and those in memory, that its count is at most the user's guesses and
  that it is locked only after `MaxFailed` of them. Stale saves then carry
  something true from one place to another.
* `LockoutKept`, `RowsAsAsked`. `SerialInv` adds, for serial behaviours, that a
  request is alone, that its entity differs from the row in the columns it set
  and in no other (`Follows`), and that the columns of the lock are those the
  history of wrong guesses gives (`LockRecorded`).

**Background** (`BackgroundProofs`), for any processes, attempts, stalls, time to
live and period
* `GrantsAreApart`. The time that the entry has left is the time that the lock
  granted last has left (`LockInv`). With Redis that is inductive by itself; with
  files it also needs that one handler at a time is within `setIfNotExists`
  (`OneAwaits`, the half of `orderly` that is about turns) and that a handler past its
  read found nothing alive (`FoundNothing`, which needs the other half: the read
  of a live file did not fail). It is about the time to live as it is written
  into the file, which is computed before the write; nothing more is true.
* `TypeCorrect` and `MailsAreAccountedFor`, whatever crashes. `JobsFit` bounds, for
  each place a job can be at, how often its mail may have been accepted by the
  failures and stalls it has had so far; `Deployed` says that who works on a job
  or waits for the lock is a process that is up.

**Permissions and AccessControl** (`AccessControlProofs`)
* `RolesReachTheirs`: for any set of permission modules, the codes of a role
  open exactly the endpoints the role is for. Every endpoint takes a code of
  one of four modules, or one of two roles, or no more than a token
  (`EndpointKinds`), so the roles are compared by these kinds.
* `TypeCorrect`. `TypeInv` adds that users without a row have no role, brand or
  token, that nothing remembered lies in the future, and that a token is
  younger than its lifetime.
* `AccessIsRecent`, with any overlap. `AgeInv` says of every request that builds a
  token, at each of its awaits, and of the token, that all it holds was so at or
  after the time its handler began; a role that is taken away, or a code that a
  synchronisation takes from a role, is remembered with its time.
* `SetsAreReplaced`, `RolesMeanTheirs`. `SerialInv` adds, for serial behaviours,
  that a set is what was asked for last, or empty because its replacement is
  half way (`Half`) or failed there (`torn`), and that a token built since the
  last synchronisation has the codes of its roles.

**StorageKeys and AvatarStorage** (`AvatarStorageProofs`), for any files, users and
deployments
* `ResolvesOwnKeys`: what `updateProfile` makes of any reference that `upload` can
  have answered with. Local base URLs with and without a path or a leading
  slash, and the three forms of an S3 URL, are the cases; in each the question
  is whether one sequence of segments is a prefix of another. `Reusable` says
  the answer without those steps, so the theorem compares two descriptions.
* `TypeCorrect`, with any overlap. `TypeOK` says how keys begin: the avatar of a
  user, and what a request is to delete or save, is none or begins with the
  user's own directory, whatever text was sent. It rests on `ResolvesOwnKeys` and
  `ResolveOther`. It does not say whose file is behind the key: with the local
  driver a key with `..` begins with one user's directory and is the file of
  another.
* `SerialAvatars`. `SerialInv` adds, for serial behaviours, that a request is
  alone, that every user without one is `Settled`, that what the request
  read is still so and what it will save is what was chosen (`Fits`), and what is
  `Known` of a user's avatar: it is an upload of the user or none, or the user is
  among `detoured`, with every user whose file is behind it (`KnownPath`). So the
  file that one user deletes is the avatar of another only if that one is
  among `detoured`; for the uploads of the users themselves it follows from
  `KeysApart`: a key names its owner.

### Only model-checked

* Liveness (`GoneForGood`, `CacheSettles`, `WorkGetsDone`): fairness and ENABLED are
  beyond the prover.
* The two counterexamples, `LogoutStands` with overlapping requests and
  `UploadsAreReusable` with S3: there is nothing to prove.

## 5. What the checks say about the code

Two disagreements with what the repository says are runs with a counterexample,
and findings with the quotation in `PROJECT.json`.

* **A logout can be undone** (`logout_undone`): a touch or refresh that read the
  row before the logout saves it afterwards with `revoked_at` empty. In the
  counterexample a device refreshes while its user logs it out, and the save of
  the refresh makes the session live again. The other revocations (by a reset, an
  administrator, a password change) are undone in the same way;
  `UserSessionsLogout` tells a logout from them.
* **The URL of an upload cannot always be reused** (`s3_url`): `upload` answers
  with a URL "that can be reused in other APIs", and `updateProfile`, the only one
  that takes it, strips the base URL of the local driver and nothing else. With
  S3 a bucket (an endpoint is set), a prefix or the path of the public base URL
  comes first, and the avatar is refused as not the user's own.

The same models show the following; there is no run for each, the properties
say it by their `serial =>` or by what they except (drop that, or give
`UserSessionsSerial.cfg` a second request, which may then be about the same user,
and TLC shows the behaviour):

* a refresh token can be exchanged twice, because the version test and the save
  are awaits apart (`RotatedOnce`);
* the first invalidation of a namespace does nothing, because a missing version
  counts as 1 for readers and as 0 for `INCR` (`ReadsAreFresh` promises nothing of
  reads under version 1); what is stale by it lasts as long as its page;
* a brand's parent may move to another organization or be deleted: children are
  not looked at (`LinksWereChecked` says "was", not "is");
* a token mailed to a new address verifies the old one if the profile update
  failed after its mail (`AddressProven` excepts `orphans`, and shows that this is
  the only way as long as requests do not overlap);
* a touch that read version n and saves after the rotation to n+1 makes the
  newest refresh token look reused (`ReuseVerdictSound`);
* an update that overlaps a removal undeletes the row, and one that overlaps
  another update restores the fields it was not asked to change
  (`DeletedStaysDeleted`, `UpdatesOnlyWhatIsSet`);
* a key checked as free may be taken at the save, where the index turns it into
  an unhandled error instead of a conflict (`CheckedKeysAreFree`);
* a brand may be created between the count and the removal of its organization
  (`BrandsHaveOrganization`);
* two requests may consume one token (`SingleUse`), and two calls of
  `createToken` may leave two valid tokens (`OneOutstanding`); the token
  of a change of address, used before that change is saved, marks the old
  address as verified (`AddressProven`);
* wrong guesses that overlap count as one, and a login or a profile update that
  read the user before them takes their count back (`LockoutHolds`);
* a login that read the user before a deactivation, a reset or a removal undoes
  it when it saves (`RowsAsIntended`);
* two updates of one user's roles may leave the union of both, and one that fails
  between its statements leaves the user without any (`AssignmentsAreWhole`,
  `torn`);
* two processes that read the lock file at the same time both dispatch, and so
  does one that cannot read the file of a lock that lives (`GrantsApart` without
  `orderly`);
* a profile update that dies after it deleted the old avatar leaves a row that
  names no file (`AvatarsAreAsChosen`, `torn`), and one that overlaps another
  handler's save of the user does so without dying;
* with the local driver, a key such as `media/users/<me>/../<other>/...` passes
  the test of the prefix and is a file of the other user, who may then lose it
  when the first one takes another avatar; and the directory of one's uploads
  passes as an avatar (`AvatarsAreAsChosen`, `detoured`).

And these hold whatever overlaps and fails: versions never run ahead, dead
sessions that nobody holds stay dead, their rows go for good, live keys are
unique, parent links were checked at some time, a user is verified by a token of
that user only, with Redis reads are fresh from the second invalidation of a
namespace on, nobody is locked who did not guess wrong often enough, access that was revoked ends one
token lifetime (and the time of the login that read it) later, Redis grants the
lock once in its time, a mail reported as completed was accepted, and after the
last fault mails and maintenance go on.

## 6. Plan

The models of the first plan are written, and the safety properties that can be
proved are proved. What is left, most important first:

1. An abstract specification of a lock with a time to live that `SchedulerLock`
   implements with Redis (`LockInv` is the invariant its proof needs), checked in
   the run `background` and proved beside `GrantsAreApart`.
2. The serial properties of the other modules for requests that overlap only if
   they are about different users, as `OnePerUser` has it for sessions.
3. Pure functions as operators against reference definitions: paging, full
   names, cache keys, device metadata, the production safety rules.

## 7. What is not modelled, and why

* *Audit log*: rows are appended and read by no handler. That a failing append
  ends the handler is in the `Abort` actions.
* *Websocket gateway*: no module sets its server, its emits do nothing.
* *Background processors* (`jobs/processors`): registered in no module.
* *Health, configuration, logging, filters, interceptors*: stateless.
* *The other seeders, migrations, scripts*: demonstration rows, and changes of the
  schema before the service starts. The unique indexes they create are in
  `ManagedTable!Save` and `ActionTokens!Free`. Users that a seeder marks as verified
  are outside `ActionTokens`.
* *Contents of files*, the check of their type and size, and the folder of an
  upload, which is part of its key. `updateProfile` takes any key that begins
  with `media/users/<id>/`, so an avatar may be in any folder (the test in
  `test/auth.e2e-spec.ts` uses `avatars`); `uploads` stands for all of them.
* *What the removal of a user leaves*: the description of the endpoint
  (`users.controller.ts:167`) says that role assignments, brand mappings and
  action tokens are removed too, which `users.service.ts` does not do. No run
  is about it: it takes reading, not interleaving, to see.
* *Waking of BullMQ*: its Redis scripts are taken as atomic steps that do what its
  options say; connections, back-pressure and concurrency per worker are not
  told apart.
* *Readiness of Redis*: a deployment has it or not (`backend`, `redis`), for good.
* *Data*: names, addresses, device information, sorting and searching of lists,
  the text of mails and messages. Cryptography is modelled by what it gives: a
  token nobody can make up, a hash that identifies it. bcrypt is an await
  during which others run.
* *Inside one `save`*: TypeORM's own read and its update are one step here; a
  change of another handler between them adds nothing to what a save of an
  older entity can do.
* *Removal of users* in `ActionTokens`: `findById` then returns nothing and the
  handler throws, which is `Abort`.
