# hvac-be: TLA+ verification project

The backend of an HVAC service company: a NestJS application on PostgreSQL
(Prisma), with Cloud Tasks as its job queue, Google Cloud Storage and Pub/Sub for
attachments, Google KMS for key wrapping and SMTP for mail.  The process keeps
nothing in memory but a cache of unwrapped keys; its state is the database, and
every handler is a sequence of separate statements.  Only what is inside a `$transaction` commits
together, at READ COMMITTED, so nearly everything hard about this code happens
*between two statements*: another request, a mail job or a crash.

Paths below are relative to `src/src/modules/` unless they start with `src/`.

## 1. Inventory

| Component | State it keeps | Operations | Model |
|---|---|---|---|
| Tenant key rotation (`tenant-encryption/commands`, `infrastructure`) | `tenantEncryptionKeys` (version, status, wrapped DEK); the encrypted columns of customers, service orders, devices | rotate a tenant's DEK, resume a rotation | `KeyRotation` |
| Key service and DEK cache (`tenant-key.service.ts`, `tenant-key-cache.service.ts`) | in-memory LRU cache with TTL and shared loads | get a DEK, prepare a key, rewrap with a new KEK, invalidate | `TenantKeyCache` |
| Encryption primitives (`src/src/common/encryption`) | none | AES-GCM, additional data, KMS calls | abstracted to (version, DEK, value) |
| Authentication (`authentication/`) | the security columns of `users` | login, PIN login, refresh, logout, request reset, reset, unlock, session; two mail handlers | `AccountSecurity` |
| Users (`users/`) | `users`, `tenants`, `usersTenants` | create tenant with administrator and welcome mail, initial setup, change password, change PIN | `Onboarding`, `AccountSecurity` |
| Access guards (`src/src/common/security/auth`) | none | authentication, role, tenant | guards of `AccountSecurity` and `Onboarding` |
| Origin and OIDC guards | none | compare headers and claims | not modelled: stateless |
| Queue (`src/src/common/queues`) | tasks in Cloud Tasks | enqueue, dispatch a job | `queue`, `tasks` of those two |
| Mail, Pub/Sub decoding | none | send, decode | actions `Send`, `SendFails`, `Deliver` |
| Attachments (`attachments/`) | `photoAttachments` with a scan status; objects in three buckets | prepare uploads, process a storage event, download | `Attachments` |
| Visits (`visits/`) | `visits`, with everything a visit creates | create a visit, idempotently | `Visits` |
| Service orders (`service-orders/`) | `serviceOrders`, `serviceOrderDevices` | create, attach, detach, reschedule, move an inspection; complete an order | `Inspections` |
| Customers (`customers/`) | `customers`: encrypted data and the e-mail's HMAC | create, update | writes in `KeyRotation`; unique addresses in `Visits` |
| Devices (`devices/`) | `devices`: encrypted installation address, warranty | create, update | `Inspections`; writes in `KeyRotation` |
| Queries | none | lists and details | `InspectionViews`, `Paging` for devices and orders |
| Schema, migrations | constraints | | unique keys, foreign keys and CHECKs appear as guards |
| Seeder (`src/prisma/seed.ts`) | `seeds` | run the seeds not run yet | not modelled |
| Configuration, controllers, DTOs | none | wiring, validation of shapes | not modelled |

How they interact.  A request passes the guards and runs one command handler.
Handlers that store personal data call `TenantPiiCipherService`, which asks the
key service for the tenant's active DEK; rotation changes that key and rewrites
their rows under them, and then drops it from the cache.  Authentication handlers
share one row of `users` with each other, with the user commands, and with the mail
handlers, which they reach through the queue.  Creating a visit calls customers,
devices, attachments and service orders in one transaction; updating a device
passes its transaction to the inspection operations.  Attachment status changes
only by storage events.

What is hard in it:

* statements of concurrent handlers on the same rows (rotation against writers,
  rotation against rotation, login against unlock, refresh against logout, device
  commands against each other and against visits);
* values read before, and used after, other statements (a decrypted batch, an
  encrypted payload, a verified password or token, a device row that a partial
  update is merged into);
* continuations of one process between two awaits, over shared buffers (the cache);
* a process that dies between two statements, and the next one that resumes;
* requests, tasks and events delivered twice, late, in another order, or with a
  lost answer;
* several queries and mappers that show the same rows on different pages;
* limits: wrong attempts, cool-downs, code lifetimes, cache sizes, page sizes.

What makes each component correct:

* **Rotation**: one active key; no ciphertext without its key; a key never goes
  back; rotation undoes no write and retires no key with rows, but for writes
  that come late (section 3); a command ends and an interrupted rotation is finished.
* **Authentication**: limits hold under concurrency; a block stands until the
  unlock code, and the account opens again unless its code is dead; a closed session
  opens by a password, once the requests that overtook its end are over.
* **Tenants**: a mailed password is the right one; an administrator gets in.
* **Key cache**: a caller gets the key it asked for, whole, or an error that is
  justified; a key is loaded once; no buffer keeps a key that is not in use.
* **Attachments**: quarantine is final; the last verdict of the scanner is stored
  in the end whatever is repeated or reordered.
* **Inspections**: commands of the office give a device at most one active
  inspection; rows stay readable; transactions do not wait in a circle.
* **Views**: pages agree with each other and with what commands accept; paging
  skips nothing.
* **Visits**: a key stands for one visit, stored whole; a repeated request gets the
  same answer.

`PROJECT.json` lists the places where this can go wrong, under `hazards`.

## 2. Modules

| Module | What it is |
|---|---|
| `KeyRotation`, `PiiStore` | rotation commands, writers and crashes for one tenant; what the encrypted columns promise: a plain table of personal data, but for rows written late |
| `AccountSecurity` | one account: requests, mail jobs, queue, time |
| `Onboarding` | calls that create tenants, welcome mails, the way of an administrator to work |
| `Attachments` | one attachment: uploads, scanner, storage events and their handlers |
| `Visits`, `VisitLedger` | creating visits under idempotency keys; what that promises |
| `Inspections` | device commands and visits as transactions over devices and inspections |
| `InspectionViews`, `Paging` | what pages and lists show of those rows; lists read page by page |
| `TenantKeyCache` | the cache of unwrapped keys of one process, between two awaits |
| `MCKeyRotation`, `MCAccountSecurity`, `MCVisits`, `MCInspections` | requests, forms and symmetry for TLC |
| `KeyRotationProofs`, `AccountSecurityProofs`, `AttachmentsProofs`, `VisitsProofs`, `InspectionsProofs`, `InspectionViewsProofs`, `TenantKeyCacheProofs`, `OnboardingProofs` | inductive invariants and theorems |

How they compose: `InspectionViews` extends `Inspections` and `Paging`;
`Inspections` takes a visit's transaction as far as it touches inspections, and
`Visits` takes what the office and the scanner do meanwhile as steps of its
environment (`OfficePlan`, `OfficeDelete`, `FileEvent`, `OfficeCustomer`).

Definitions keep the names of the code.  Operators with a name like
`Reencrypted_NoCheck` stand before the definition `Reencrypted`: each is that
definition with a plausible bug, used to see that a property notices it.

### KeyRotation

`status` and `dek` are the key rows, `rec` the encrypted columns of all rows with
the lookup column beside them; `write[w]` is a payload that a request has
encrypted and not stored yet; `pc`, `prev`, `next`, `cipher`, `batch` are the local
variables of command *p*: `previousVersion`, `activeVersion`, the DEK in hand and
the decrypted batch.  A DEK is the name of whoever drew it, so two commands that
create "the same" version with different keys are told apart.

One action is one statement, or one transaction, of `rotate-tenant-dek.handler.ts`:
`FindDecryptOnly` and `FindActive` (the two queries of a `Promise.all`, in either
order), `Resume` or `PrepareNextKey`, `StartRotation`, `FindNextBatch`,
`UpdateBatch`, `FindNoBatch`, `CountReferences`, `FinishRotation`, each with its
error path (`...Fails`), and `Crash` at any of them.  Writers are `Encrypt`
(`encryptJson`) and `Store` (`create`, `update` of customers and devices; a visit
uses the same two), `Abandon` when anything fails between, and `ClearAddress`.

`late` is a history variable and not in the code: the rows whose last write was stored
under a version that had been demoted since it was encrypted.  The code neither waits for
such writes nor notices them, a rotation does not ask for requests under way, and nothing
in the model keeps them apart.  The properties say what can happen to them, and
that it happens to no other row.

Abstractions.  Reading the active version and its DEK is one step: the DEK of an
existing version does not change.  The three tables that `findNextBatch` and
`countReferences` ask one after the other are asked in one step.  The theorems
about keys and ciphertexts do not depend on what these queries return.
`RetiredOnlyByLateWrites` does, and it is claimed for one command, where the rows of the
old version that are not late only become fewer after the start: tables found without
them at three moments are all without them at the last.  Nothing in the repository writes the customer
snapshot of a service order: those rows exist from the start and only rotation
rewrites them.  An update that would violate the unique e-mail index ends like
`Abandon`.

### AccountSecurity

`user` is the row: status, four counters, refresh token (present, still valid),
`sessionUnlocked` (`sessionUnlockedUntil` in the future), unlock and reset code
(name of the job that drew it, still valid), cool-down.  `at[q]` is the next
statement of request *q*, `hadCode[q]` the `accountUnlockCodeHash` its counting
statement returned.  `queue` holds the mail tasks, `job[k]` a mail handler between
storing its code and sending it, `mailed` says whether the stored code is one the
user has received.

Every handler is read, check, later statements: `LoginRead` → `LoginCount` →
`LoginBlock` → `QueueUnlock`, or `LoginRead` → `LoginStore`; likewise for PIN,
refresh, reset, unlock, setup, and the changes of password and PIN.
`ThrowIfBlocked` is the refusal every handler gives for a blocked account, which
queues an unlock mail if no code is stored.  `StoreCode` and `Send` are the two
statements of a mail handler; `SendFails` and `Send(k, TRUE)` (sent, but the answer
was lost) bring the task back.  Tasks of the queue are delivered in any order.

Abstractions.  A password or PIN is right or wrong.  A refresh token is present or
not: a replaced one is refused like none, so requests with it do nothing.  Access
tokens are valid by themselves until they expire, so a user command may come at any
time while the guard lets the status pass.  Time is `ExpireCode`, `ExpireSession`,
`ExpireRefreshToken` and `CooldownEnds`; `Expiring` says which of the first three an
instance has, and `MayFail` at which statements `RequestFails` may end a request.
`MaxWrongLogins` and `MaxWrongResets` bound two counters that no limit stops.

### Attachments

`row` is the row of `photoAttachments`, `size[u]` what upload *u* posted, `found` the
objects in the three buckets, each announced by an event, `unacked` the events to
deliver.  `job[h]` is what `findByObjectKey` returned to handler *h*.  Storage,
scanner and Pub/Sub are external: `Post`, `Scan`, `Redeliver`.  The handler is
`FindByObjectKey`, then `IgnoreStale`, `UpdateFromStorageEvent` (the compare-and-set
on the status that was read) or `ChangedConcurrently` (it matched no row), or
`EventFails` anywhere between: fetching the metadata of a clean object, the update, a
crash.  `lost` remembers what the code only logs.

Abstractions.  Content type goes with size.  Object generations cannot change, so the
metadata of a clean object are those of its event, or cannot be had.  The form's
expiry needs no action: uploads may stop at any time.  The times `uploadedAt` and
`scanCompletedAt` are left out.  No code deletes the row of an attachment or sets
`scan_failed` or `upload_expired`, so an event always finds its row and those
statuses do not occur.

### Onboarding

`call[c]` is a call of `CreateTenantHandler` at one of its steps: `FindUser`,
`PrepareKey` (KMS and password hash), `CreateTenant` (the transaction that stores
tenant, key, user and membership), `QueueMail`; `Fail` ends it anywhere.  `user[c]` is
the row the call created.  A call draws its ids and its temporary password at random,
so all of them are named by the call.  `Deliver` is the mail handler, again and again
until its answer arrives; `Login`, `Setup`, `RequestReset`, `MailReset`,
`ResetPassword` and `Leave` are the person, each request one step here.  `AuthGuard`,
`TenantGuard` and `RoleAuthGuard` decide whether somebody `Works`.  `late` records
whether a user with the address was there when the call was made.

Addresses are not unique in the table (`src/prisma/schema.prisma:58`), and the lookup
happens before the transaction: two calls that overlap, a double click is enough, store
*twins*.  Login and reset find any one of them, so the other may stay out of reach;
`AdministratorGetsIn` excepts twins, and assumes of no person that they succeed as one.
A lost welcome mail, on the other hand, is no dead end: a reset works for a user who
was never set up.

Abstractions.  Blocking, wrong passwords and the counters of codes are those of
`AccountSecurity`.  All memberships are `ADMIN`: nothing in the code stores another
role.  A call lower-cases the address and login compares it as typed; addresses here
are what is stored.

### Visits

`call[c]` is a call of `CreateVisitHandler` with its idempotency key, its contents, its
next statement and the rows its open transaction has written.  One action is one
statement: `ReplayVisit`, `ReplayNext` (`loadReplay` inside the transaction),
`FindEmail`, `CreateCustomer`, `ResolveDevice`, `FindOrder`, `CreateVisit`,
`CompleteOrder`, `CreateNextInspection`, `Commit`, `SignForms`; `ReloadVisit` and
`ReloadNext` are `loadReplay` after a broken unique constraint.  An insert waits while
another open transaction has written the same unique value, and breaks the constraint
when that one has committed (`Insert`).  Ids are derived from the key
(`deriveCommandUuid`), which is why `Row` names a row by what it is derived from.
`RowsToWrite` is the row the next statement writes, `Waits` that another open
transaction holds it: the guard of every statement that writes.
`Fail` stands for errors, time limits and crashes, before or after the commit.

`VisitLedger` is the promise in four lines: a key is stored once with all its effects,
and only a stored visit is confirmed.  `ImplementsLedger` maps `visits`, the rows with a
key, and the calls that were answered to it.

Worth knowing about the answers, all of them behaviours of the model: a second call of
the same key that finds the first one's customer committed is told *"Customer with this
email already exists."* only when the customer is not its own visit's; a repetition is
refused as a different request after the office has moved or deleted the next
inspection, or after a storage event overwrote the size of a file; a request that
differs in the next inspection's date is compared with the table, not with what was
first asked for, so it passes once the office has moved the inspection there; two keys
may complete the same order, and an order of any status is completed.

Abstractions.  Contents are compared as far as the handler compares them; checks of an
existing customer's and device's existence, which only refuse, are left out.  Photos are
`files`: there or not.

### Inspections

`rows[d]` is what a device row says about its custom address (announced, stored), date
of installation and warranty; `orders[o]` an inspection with the devices on it; `tx[t]` a
transaction at READ COMMITTED: its request, its next statement, the row it read before
it began, what it has written.  Statements see committed rows and their own.
`UpdateDeviceHandler` and `CreateDeviceHandler` are `BeginUpdate`, `UpdateDevice` and
`BeginCreate`; `ApplyDeviceInspectionOperationHandler` is `FindInspection`,
`EnsureNoOther`, `CreateInspection`, `AttachDevice`, `DetachDevice`, `CountDevices`,
`DeleteInspection`, `RescheduleInspection`; a visit is `CompleteServiceOrder` and
`CreateNextInspection`; then `Commit`, or `Fail` anywhere.

What keeps transactions apart are locks: the update of the device row
(`LocksDevice`), which every command performs first, and on the inspection the locks of
a child row's foreign key, of an update and of a delete.  `Holds` says who has written
what of an inspection, `LockedBy` which of these writes the next statement waits for,
`Granted` that it waits for none: the guard of every statement that takes a lock.  A
statement that finds its inspection deleted writes no row and so locks none (`Live` in
`Holds`); without that, two commands that leave an inspection which a third has deleted
would wait for each other in the model and not in the database.  It takes three
transactions, one more than the run has, and came to light as the step at which the
invariant of `CommandsNeverDeadlock` was not inductive.

Behaviours of the model that a reader may not expect: a visit plans an inspection for
devices without their lock and without looking for another one, so it can give a device
a second active inspection (`OneUserInspection` is about the office's); two devices that
leave at once each count the other and leave an empty inspection behind; a device that
joins while the last one leaves may be deleted with the order by the cascade.

Abstractions.  The three active statuses are one.  Names, notes and addresses'
contents are left out; so is the arithmetic of the end of a warranty.

### InspectionViews and Paging

Pure operators over the committed rows: the page of a device, the page of a customer,
the details of an order, the lists of devices, orders and inspections, with the
handlers' filters (`ResolveStatuses`), orders and mappers.  `Precedes`, `Sorted`,
`Slice`, `TotalPages` and `Answer` are the list handlers' comparator and paging, with
the database free to return rows in any order.  Sorting is `InOrder`: the n-th element
is the one with n - 1 before it.  `SortOrder` is what a stable sort makes of the
comparator, `ActiveIn` the places of a list at which a device has an active inspection,
of which `CustomerInspection` takes the least.

### TenantKeyCache

A step is what runs between two awaits.  `order` is the JavaScript `Map` in insertion
order, `inFlight` the map of shared loads, `bytes` the content of every buffer: of an
entry, of a caller's copy.  `Read` is `getOrLoad` up to its await, `LoadEnds` and
`LoadFails` are `load` with `set`, `Reread` what comes after the await, `Finish` the
`finally` that wipes the copy; `Invalidate` and `Expire` come at any time.

Abstractions.  A key's bytes are named by its tenant and version.  The store of a
rewrapped key is left out: the key it wraps is the same.  Shutdown
(`onModuleDestroy`) is left out.

## 3. Runs

Each passing run lists its properties in `PROJECT.json`; each property has a seeded
fault it must find.

| Run | Instance | What it shows |
|---|---|---|
| `concurrent` | 2 commands, 2 writers, an order and a device, 2 values, 3 versions | `ExactlyOneActive`, `Decryptable` under every interleaving and crash: no data is ever lost to a missing key |
| `single` | 1 command, 1 writer, 2 customers and a device, batches of 2 | `OneRotationOpen` (after a crash the open rotation is resumed), `OnlyLateWritesLost`, `RetiredOnlyByLateWrites`, `CommandEnds`, and `ImplementsPiiStore`: the refinement of the table; the writer writes at any time |
| `lockout` | 2 requests of all ten kinds, 1 mail job, a new user; limits 2 (login) and 1 | `LockoutEnforced`, `GuessesBounded`, `BlockedStaysBlocked`, `ClosedStaysClosed`, `PinLimitEndsSession` |
| `recovery` | 2 requests, 2 mail jobs, login and unlock, codes and sessions that expire, a failing clear of the code, fairness | `CodeReachable`, `BlockedRecovers` with failing, repeated, reordered mail |
| `tenants` | 2 calls, 1 or 2 addresses, fairness | `MailIsTrue`, `AdministratorGetsIn`: failing calls, twins, repeated mails, expiring sessions and codes |
| `events` | 2 uploads, 2 handlers, 2 sizes, fairness | `OnlyScannedServed`, `StatusOnlyAdvances`, `VerdictStoredOrLogged`: whatever is repeated, reordered, handled twice at a time or fails |
| `visits` | 3 calls, 2 keys, 4 contents, 1 order, 2 dates, the office and the scanner at work | `TakenIsTrue`, `RepetitionRecognised`, `NoDeadlock`, and `ImplementsLedger`: the refinement of the ledger |
| `commands` | 2 transactions, 3 devices of 2 customers, 2 inspections | `InspectionsApart`, `RowsCoherent`, `NoDeadlock`; `ViewsAgree`, `OfferedIsAttachable`, `NothingSkipped` over the rows that result |
| `key_cache` | 3 calls, 3 keys, 2 entries, fairness | `BuffersFollowUse`, `SharedLoad`, `RefusedOnlyIfDropped`, `CallsEnd` |
| `lost_write` | 1 command, 1 writer, a customer | violated: `LookupMatchesCiphertext` |
| `stale_refresh` | 2 requests: login, refresh, logout | violated: `OnlyLoginOpensSession` |
| `lost_verdict` | 1 upload, 2 handlers, fairness | violated: `VerdictStored` |

The last three are disagreements between the code and what its tests, descriptions and
answers say; `findings` in `PROJECT.json` quotes both sides.  Each has beside it, in a
passing run, the exact property: what the code does keep, and which step breaks the rest.

* `lost_write`: `updateBatch` asks only that a row still has the old version.  A writer
  that encrypted with the old key before the rotation and stored between a batch's read
  and its update has that version too, and is overwritten with older data, while the
  lookup hash stays the new one.  `OnlyLateWritesLost`: only such a write is lost.  The
  same write may land after the last batch: before the count, and it is re-encrypted by
  the next command; between the count and the retirement, or later, and its row stays
  under a retired version.  `RetiredOnlyByLateWrites`: nothing else leaves one there.
* `stale_refresh`: a refresh that read the token before a logout stores the next one
  after it (`authentication/commands/refresh.command.ts:46`); a PIN login does the same.
  `ClosedStaysClosed`: once the statements under way that store a token are over, the
  session opens by the right password only.  `PinLimitEndsSession` says the same of the
  PIN limit, which a refresh under way or a failing revocation undoes.
* `lost_verdict`: two events read the row in the same status; the slower one is a
  quarantine verdict, finds the row changed, is acknowledged and never comes back
  (`attachments/commands/handlers/process-attachment-file-event.handler.ts:180`), and the
  row says `scanning`, or `clean`, for ever.  The endpoint lists "processed, duplicate,
  stale or unknown-object" events as acknowledged, and this is none of them.
  `VerdictStoredOrLogged`: the race, which is logged, is the only way to lose one.

Other variants are violated too and are kept out of the list of runs; each is one
constant or one formula away:

* `CommandEnds` with two commands: a command may see the active key from before
  another's start and the decrypt-only key from after it
  (`tenant-encryption/commands/handlers/rotate-tenant-dek.handler.ts:123`); they are the
  same version and the batch loop never empties it;
* `Blocked ~> user.status = "active"`, which is `BlockedRecovers` without its exception
  (`CodeDead`): an expired unlock code is refused but stays stored, and no code is mailed
  while one is stored (`authentication/authentication-account-status.service.ts:30`); the
  same happens when the request that counted the last wrong code dies before it clears
  the code (`authentication/commands/unlock-account.command.ts:88`);
* `ActiveHasPin` with new users: an unlock makes a user active who never passed the setup
  (`authentication/commands/unlock-account.command.ts:56`);
* that only an unlock ends a block, `BlockedStaysBlocked` without the setups in its
  premise: a setup accepted before the account was blocked activates it
  (`users/commands/handlers/setup-new-user-credentials.handler.ts:51`);
* `LockoutEnforced` with `"login_block"` in `MayFail`: the request that counted the last
  wrong password dies before it blocks the account, which stays open until the next one;
* `RetiredOnlyByLateWrites` for all rows: a late write leaves one under a retired version,
  with one command; with two it takes no late write (section 4);
* a reset code whose wrong attempts reach their limit while a login blocks the
  account stays stored (`ResetBlock` clears it only when it is the one to block);
* `AdministratorGetsIn` without the exception for twins;
* `row.object` of a clean row being the last object in the clean bucket: a repeated
  event of an earlier upload sets the generation back;
* `OneUserInspection` for inspections of any source, and "no inspection is empty".

Bounds.  `MaxVersion` 3 leaves room for a finished rotation and the next one, which
is what a resumed or duplicated start needs to go wrong.  Three rows of two kinds and
batches of two make several batches per rotation, and one that is not full.  Two values
suffice to tell an old from a new one.  A command that would need a version above
`MaxVersion` ends (`BoundReached`), so the bound adds no deadlock.  Limits of 1 or 2
attempts, with `MaxWrongLogins` above the login's, let two requests count past a limit
together; `MaxQueued` 1 lets a task of each type wait while another of the same type is
being handled.  In `lockout` nothing expires or fails, to keep ten kinds of request within
reach: the theorems of section 4 cover every `Expiring` and every `MayFail`.  Two requests,
one of which is under way when the other closes the session, are all `stale_refresh` needs.

Three calls under two keys give a repetition that overlaps the first call, with a call of
another key for the same customer and order beside both; the four contents differ in
what the handler tells apart (`MCVisits`).  Two transactions are what a lost update, a
double attach or a pair of detaches needs, and three device rows, one of another
customer, what the checks of a customer need (`MCInspections`); two inspections let a
device be on two.  Three keys over two entries and three calls let a load be evicted by
two others before its waiter reads it.  Two calls of one address or two make twins, a
membership of an existing user, and a mail that is lost beside one that is not.

Deadlock is not checked in `recovery` (a blocked account with a dead code really accepts
nothing more), in `tenants` and `visits` (nobody is obliged to call; `visits` checks
`NoDeadlock` instead).

### Fairness

`KeyRotation!FairSpec`: a command that has begun executes its next statement
(weak fairness of `Progress`); nobody must begin one, and a process may crash at any
time.

`AccountSecurity!FairSpec`: an accepted request runs on (weak fairness of
`Continue`), the queue delivers its tasks and their handlers come to an answer
(weak fairness of `StoreCode` and `Send`; Cloud Tasks retries until the handler
succeeds), and sending the stored code, tried again and again, succeeds in the end
(strong fairness of `SendStored`).  Of the user it assumes that they keep
trying to log in while no code is stored and follow the link in a mailed code
(strong fairness, because other requests disable both now and then), and that wrong
codes are not entered for ever.

`Onboarding!Fairness`: the queue delivers what it holds, and the code of a reset is
mailed (weak fairness).  Of the person it assumes, as above, that one who has no password
asks for a reset, uses a code sooner or later although codes expire, logs in and sets the
account up although sessions end (strong fairness).  It is assumed only for the only user
of an address.  Calls that create tenants need not end.

`Attachments!FairSpec`: a delivery comes to an answer or times out (weak fairness of
`Process \/ EventFails`), and Pub/Sub delivers a verdict until it is acknowledged,
with attempts that do not fail for ever (strong fairness).  The dead-letter topic, to
which an event goes that keeps failing, is taken to be out of reach.

`TenantKeyCache!Fairness`: the event loop runs every continuation that is ready, and the
client of the KMS answers or gives up, which its deadline justifies (weak fairness of
`Reread`, `Finish`, `Refuse`, `Answer`).  Nobody is obliged to call, and entries may be
dropped again and again.

`Visits` and `Inspections` state no fairness: their properties are safety, and
`NoDeadlock` says that, of the calls or transactions under way, one can always go on.

## 4. Proofs

The theorems hold for every value of the constants that satisfies the assumptions of
their module.  Two of these speak of finite sets: `AccountSecurity` of requests, whose
number a theorem counts, and `InspectionViews` of orders and devices, of which one comes
last and which are sorted and paged; it also takes times to be numbers and no time to be none.
Where a theorem has a further hypothesis it is named below, with the reason and the run
whose constants satisfy it.

**KeyRotation** (`KeyRotationProofs`).  `Invariance` proves `Spec => []IInv`.
`ExactlyOneActive` and `Decryptable` are not inductive by themselves: a batch update
writes what a command holds in memory, so `IInv` adds `TypeOK`, `InFlightUsable`
and a fact about a command's local variables (`JobsInHand`: when `prev` and `next`
name versions, and that `next` exists).  `KeysPersist` says no step takes a version back or
replaces its DEK, which is what carries in-memory facts over other processes'
steps; `CanStart` is the guard it rests on.  From `IInv` follow `OneActiveKey`,
`NoDataLoss`, `KeysInHandUsable` and, as an action property, `KeyHistory`.  All of
these, and `VersionsInOrder` (no version is skipped, every one below the highest is
demoted), are for any number of commands that race, crash and resume.

The others assume `OneCommand`: commands run one at a time, each killed anywhere and
succeeded by the next, as in the run `single`.  Nothing in the repository dispatches the
command, so that is up to whoever operates it.  Of requests they assume nothing: any
number of them write at any time.

- `OneRotationAtATime`: a command's `prev` and `next` are neighbours, and
  `next` is the active version (`JobsCurrent`).  With two commands `OneRotationOpen` is
  violated.
- `NoLostWrite`, `RetiredStayUnused`, from `RowsInvariance`.  `RowsInv` says, of the rows
  whose last write was not late, that a batch still has the data of those it will match
  (`BatchFresh`) and that none refers to a version whose rows were counted (`NoneLeft`): a
  row gets the old version back only from a payload encrypted before the start, and that
  write is late.
- `PiiStoreImplemented`: the columns seen through decryption implement the table
  `PiiStore`.  `PiiStep` takes the steps one by one: `Store` and `ClearAddress` write one
  row, `UpdateBatch` leaves what every row that is not late decrypts to, which is `Lose`,
  the rest is a stutter.
- `OldVersionRunsOut`, the safety half of `CommandEnds`: once a version is
  demoted, the writers that still hold it (`Holding`) only get fewer, and as long as they
  stay the same so do its rows, a row of a batch going with the batch.  A command that
  counts its rows again and again thus finds none in the end.

The hypothesis is not idle: TLC finds `RetiredOnlyByLateWrites` violated with two commands
and no writer at all, by a batch that one of them writes after the other has retired its
version; and `OnlyLateWritesLost` with three, when the two queries of a command lie before
and after a whole rotation, so that it re-encrypts backwards.

**AccountSecurity** (`AccountSecurityProofs`).  `TypeCorrect`; `UnlockCodeReachable`,
by the stronger `CodeOnItsWay`: the job that holds the task is *the one whose code is
stored*, or a task is still queued.  It holds whatever fails.

- `LockoutHolds` and `GuessesLimited` assume `"login_block" \notin MayFail`, as in the runs:
  a request that dies between its count and the statement that blocks leaves the
  account open, whatever else the code does.  Every other statement may fail.
- `GuessesLimited` counts requests.  Each wrong login from the limit on has put a request
  on its way to block the account (`LoginsAccounted`), so an open account has counted
  less than the limit and those; a request is at one step only, which bounds the sum.
- `BlockStandsUntilCode`, `PinLimitHolds`, `SessionStaysClosed` assume nothing: all kinds of
  request overlap, and everything may fail and expire.  The premise of each names the
  statements under way that overrule it, and the proofs go through the steps that can
  bring one of those about: only a right code leads to the unlocking statement while the
  account is blocked (`EntersUnlock`), and a refresh or a PIN login needs a stored token to
  be accepted (`TokenStored`: a token that is still valid is there).

**Attachments** (`AttachmentsProofs`).  `Invariance` proves `Spec => []IInv`.
`OnlyScannedServed` compares with the *declared* size, the code with a column that
every event overwrites; `IInv` adds why that is enough (`SizeKept`: outside
quarantine the column is the declared size, in the table and in every copy of the
row in a handler's hands), and that scanned objects were posted, so that their size
is fixed.  From it follow `ServedIsScanned` and the action property
`QuarantineIsFinal`; `PolicyFacts` is the lemma on the status policy both rest on.
`NoVerdictForgotten` is the safety half of `VerdictStoredOrLogged`: a verdict that is not stored
is still to be delivered, or the branch that logs it gave it up.  The policy lets a
quarantine pass from every status (`QuarantinePasses`) and no step takes it back
(`QuarantineStays`), so no handling, however stale, acknowledges one without storing it.

**Visits** (`VisitsProofs`).  `LedgerImplemented` is the refinement of the ledger,
initial state and every step.  `IInv` says what the open transaction of a call has
written at each step (`WroteByStep`), that of all transactions past the insert of a
key's visit there is one and none is committed (`OneHolder`, the work of the unique
constraint), and that whoever goes on with or has confirmed a visit found the one asked
for (`Recognised`).  A commit then is `Store` with exactly the effects of the contents,
`SignForms` is `Confirm`, and every other step leaves the ledger alone.

`TakenAnswersRight` and `RepetitionsRecognised` are about the answers, and rest on
`AnswersInv`: every committed row is one of a stored visit or of the office's
(`RowsOfVisits`), the next inspection is as asked for until others touch it
(`PlanKept`), and a call has a cause, which stays true, for the step it is at
(`CallsJustified`): a broken constraint is that of its own visit or of its address.

`CallsNeverDeadlock`: a call waits only for a row or key that a transaction further on
in the fixed order of the tables holds (`WrittenStage`, `WaitsAhead`), and one that has
ended holds none; so of the calls under way the furthest on waits for nobody.

**Inspections** (`InspectionsProofs`).  `Invariance`, with `IInv`: what each transaction
has written by its step (`StageFits`), that two transactions never work on one device
row or draw one id (`TxsApart`, the row lock), and what a transaction knows of rows it
has read (`DeviceKnown`, `OrdersKnown`).  The last says that what was checked under the
device's lock, that no other active inspection of the office's has the device, is true
until the transaction commits, whoever commits meanwhile: with it a commit keeps
`OneUserInspection` (`InspectionsStayApart`).  A row is merged from what was read before
the lock; it is coherent all the same (`RowsStayCoherent`), because dates and warranty
are stored together as they were checked, and the table's CHECK refuses an address that
another command took away meanwhile.

`CommandsNeverDeadlock`: nobody waits in a circle although rows are locked in no fixed
order.  Whoever is at an update holds nothing yet.  Attaches, detaches, reschedulings and
completions wait only for transactions past their last lock.  A delete waits for those, or
for another delete of the same inspection, and there is none: a device found on an
inspection stays there until its holder leaves (`DeviceStays`), so that of two who leave
one counts the other's device (`OneDeletes`).

**InspectionViews** (`InspectionViewsProofs`).  `OfferedPassesCheck` compares the filters
of three lists with the check that the command makes of the inspection; that the
device has no other one (`EnsureNoOther`) is checked besides, and may refuse what was
offered.  `PagesAgreeAnyTime` proves what
`ViewsAgree` says at rest in every state, and `ViewsAlwaysAgree` follows: a page answers
because the row and those of all devices of its inspection are there
(`DevicesOfOneCustomer`) and coherent.  The page of a device takes the greatest in the
order (`LastOrder`), that of a customer the first of a filtered and sorted list;
`DescendingFacts` says that the two are the same.  Neither needs induction: a sorted
sequence is *a* sequence that is in order and goes through the set (`InOrder`), and the
first one that passes a filter is the least of a set of places (`LeastIndex`).

`NothingEverSkipped` is about a client that reads page after page while others commit.
The order of a list has no ties, so the sorted list does not depend on the order in which
the database finds the rows (`SortedGoesThrough`).  What is only added can but push an
item on (`NoneMovesUp`): the places before it in the old list are counted by an injection
into those of the new one.  It is thus on a page read before, or on one still to be read (`ShownOnSomePage`).
`WhatStaysIsShown` states this for two answers of any size, wherever the client turned
from one to the other.

**TenantKeyCache** (`TenantKeyCacheProofs`).  `LoadsAreShared`: the map of loads
holds exactly the loads under way (`MapHoldsLoads`), whoever began one awaits it
(`StarterWaits`), and whoever awaits one awaits its own key (`WaitersAwaitLoads`).
The limit plays no part.  `CacheInvariance` adds the entries: the map's order has no
key twice and never exceeds the limit, users hold copies of their own
(`UsersHoldCopies`), and whoever is about to read again finds its key or knows what
dropped it (`RereadersServed`).  From it follow `TypeCorrect`, `BuffersHoldKeysInUse` and
`RefusedForACause`.  The lemma `KeptFacts` says what the eviction leaves: the newest
entries, the stored one with them, without duplicates.  `NoCallStartsOver` is the safety
half of `CallsEnd`: the steps that remain to a call (`Remaining`) never get more and its
own steps make them fewer, for a call that rereads in vain is refused and does not load again.

**Onboarding** (`OnboardingProofs`).  `MailsAreTrue`: what is stored for a call is what
the call says (`UsersMatch`), a call that stores a user has found none and none was
there when it was made, because users never go and keep their addresses (`CallsMatch`),
and mails and codes are of users that exist (`MailsMatch`, `ResetsMatch`).

Only model-checked are the five liveness properties (`CommandEnds`, `BlockedRecovers`,
`VerdictStoredOrLogged`, `AdministratorGetsIn`, `CallsEnd`), for fairness speaks of `ENABLED`,
which is out of the prover's reach.  What four of them rest on is proved:
`OldVersionRunsOut`, `UnlockCodeReachable`, `NoVerdictForgotten` and `NoCallStartsOver`.
The two `NoDeadlock` are proved because their modules write the guard of each step out
in place of `ENABLED`.

`KeysInHandUsable`, `KeyHistory`, `VersionsInOrder`, `OldVersionRunsOut`,
`NoVerdictForgotten`, `NoCallStartsOver`, `PagesAgreeAnyTime` and `WhatStaysIsShown` are
proved and are no property of a run.

## 5. Plan

Done: rotation, accounts, attachments, visits, inspections with their views, the key
cache, onboarding; a theorem for every safety and action property of the passing runs.

Left, in this order: what onboarding leaves to be done, in the way of
`NoVerdictForgotten`; the lists of customers, visits and attachments; merging a
customer's update; rewrapping; the seeder.

## 6. Not modelled

Encryption itself (a ciphertext is opaque and authentic), KMS, SMTP, storage and
Pub/Sub as services; the lists of customers, visits and attachments and the search for
text; request validation, cookies and JWT signing; origin and OIDC guards;
configuration; the seeder, a tool run by hand with one seed.  Within the modelled parts:
merging a partial update of a customer into its old data, and the store of a rewrapped
key; several tenants' data side by side (no statement touches two tenants); torn reads
of a page that asks several queries one after the other (`InspectionViews` looks at
one committed state at a time); and what no code writes: archived customers, messages, notes
and photos of orders, snapshots of customers.
