# A TLA+ model of the banking platform API

The repository is a NestJS API over PostgreSQL (Prisma) and Redis: payments,
invoices certified by an external provider (the PAC), customers, and the
authentication that guards them (sessions, MFA, passkeys). This directory
models the parts whose correctness depends on how steps interleave, fail or are
retried, checks them with TLC and proves them with TLAPS. Paths below are
relative to `src/apps/api/src/`.

## The system

| component | state | operations | what is hard about it |
|---|---|---|---|
| invoices (`modules/invoices/invoices.service.ts`) | the invoice row: status, PAC reference, processing lock (action, operation id, confirmation flag) | create, list, stamp, cancel, reconcile | concurrent requests on one row; a PAC call between two database writes; timeouts; crashes with the lock held |
| pac (`modules/invoices/pac.service.ts`) | at the provider: what became of each operation | stamp, cancel, operation status | answers that are late, lost, ambiguous |
| payments (`modules/payments/payments.service.ts`) | the payment table, unique on (user, key) | create, list | races and retries on an idempotency key |
| audit (`modules/audit/audit.service.ts`) | the audit table | record | fail-closed: no event, no answer |
| sessions (`modules/sessions/sessions.service.ts`) | one JSON value per session in Redis, a set of ids per user | create, validate (touch), rotate, list, revoke, revoke all, mark reauthenticated, MFA level | values written back whole; revocation against readers; compensation of failed audits |
| auth, mfa, webauthn (`modules/auth/*.service.ts`) | user MFA state, recovery codes, failed-login counter, pending challenges | login, reauthenticate, verify, disable, admin reset, recovery codes, passkeys | read-modify-write on the user row; rollback of a snapshot; counters and lockouts |
| auth-rate-limit | counters with a window in Redis | assert, register, clear | check and count are apart |
| customers | table and read-through cache | CRUD | invalidation against a slow reader |
| guards (`common/guards`) | none | admit or refuse a request | decide on a session read before the handler runs |
| infrastructure, health, observability, bootstrap, web frontend | connections, metrics | | wiring: not modelled |

Every mutating request passes the guards, then one service method. Services
share the database, Redis and the audit trail; invoices refer to payments
(`Invoice.paymentId`); auth drives sessions. There is no queue and no
background worker: all concurrency is between HTTP requests, and nothing
resumes work after a crash.

What makes each part correct, and where it is exposed, is listed line by line
under `hazards` in PROJECT.json.

## Plan

Done: `Invoices` with `InvoiceLifecycle` as its abstract specification,
`Payments` with `PaymentLedger`, `Sessions`, `Customers`, `Throttle`, `Mfa`, and
theorems about each of them: every safety property the passing runs check and
both refinements are proved; for what the runs refute, theorems say which single
step of the code is to blame; and the safety halves of the two liveness
properties are proved.

Left: `createInvoice`, with the folio's uniqueness and the linked payment. Its check and
its insert are apart, but the unique index decides, and no operation changes
the payment it links. An abstract specification of sessions (issued, live,
gone) that `Sessions` would implement, write-backs included.

## Modules

| module | what it is |
|---|---|
| `Invoices` | stamp, cancel and reconcile, statement by statement, with the PAC and the failures |
| `InvoiceLifecycle` | the abstract promise: the status shown and the document at the PAC |
| `InvoicesRefinement` | the refinement mapping between the two |
| `MCInvoices` | instances for TLC |
| `InvoicesProofs`, `InvoicesPacProofs`, `InvoicesRefinementProofs` | theorems about the above |
| `Payments`, `MCPayments`, `PaymentsProofs` | POST /payments, its instance, its theorems |
| `PaymentLedger` | the abstract promise: every request served whole, in one step, at most once |
| `PaymentsRefinement` | the refinement mapping between the two |
| `Sessions`, `MCSessions`, `SessionsProofs` | the sessions of a user in Redis and every request that creates, reads or changes one; its instance, its theorems |
| `Customers`, `MCCustomers`, `CustomersProofs` | the customers endpoints with their read-through cache, its instance, its theorems |
| `Throttle`, `MCThrottle`, `ThrottleProofs` | rate limits, the MFA lock and the lock-out of passwords, its instance, its theorems |
| `Mfa`, `MCMfa`, `MfaProofs` | the second factors of an account: the row, the passkeys, what is pending in Redis; its instance, its theorems |

The modules meet where one component is another's environment: `Sessions`
takes a verified factor as a choice of the environment, `Mfa` takes the outcome
of a session's upgrade or revocation as one, and `Throttle` says how often either
may be tried.

### Invoices

A request is a process that runs its handler once. `pc[r]` is the next await of
the handler, `target[r]` the `invoiceId` of its payload, `snapshot[r]` the row
its `findUnique` returned; a handler decides on that row where the code does,
and on the live row only inside an update with a WHERE clause. One step is one
database statement or transaction, or one exchange with the PAC. `invoice` is
the table, reduced to the columns the handlers branch on: status,
processingAction (`action`), processingOperationId (`op`),
processingConfirmationRequired (`confirm`), pacReference (`ref`) and who issued
the cancellation reference (`cancelRef`). An operation id is random, so the
request stands for it, and for the reference the PAC issues in answer. The
status FAILED of the schema is never written by the code and is left out.

| actions | code |
|---|---|
| `Deny`, `Refuse`, `AcceptNew`, `AcceptRetry`, `AcceptReconcile` | the head of the three methods: roles, row, ownership, status, pending operation |
| `QueryInconclusive`, `QueryAnswer`, `Clear`, `FinalizeStamp`, `FinalizeCancel` | `reconcilePendingInvoiceIfNeeded`, `reconcileInvoiceProcessing`, `finalizeReconciledInvoice` |
| `Acquire`, `LockRefused` | `acquireInvoiceProcessingLock` |
| `Validate`, `SkipPac`, `Send`, `NotConfigured`, `Replied`, `RepliedError`, `Timeout` | the try block and `PacService` |
| `CommitStamp`, `CommitCancel`, `CommitFails`, `Mark`, `Release` | the transaction and the catch block |
| `PacDecides` | external: the provider applies, rejects or never receives what was sent, at any time |
| `Abort` | the process dies, or a statement outside the try block fails |

The reconciliation checks no ownership in the code; its roles are the ones that
may act on any invoice, so `Permitted` reads the same for the three methods.

`Faults` names what the environment may do, and each run and theorem says which
faults it assumes: `abort` (crash, database failure), `ambiguous` (an error
answer for something the PAC did not reject), `overlap` (two resolutions of one
operation at the same time), `misreport` (a manual resolution that contradicts
the PAC). Timeouts, lost and late messages need no name: they are always
possible.

### Payments

A request carries a user, a key or none, and a body (`payload`, chosen freely in
`Init`). `payments` is the table, `audit` the trail, `found[r]` the row held
between `findPaymentReplay` and the answer. `Create` is the transaction, refused
by the unique index when the key is taken (`CreateRefused`, P2002);
`CreateUnacknowledged` commits without the client learning it. `Audited` is
`auditService.record` with its fail-closed policy followed by the answer. The
fingerprint stands for the body: sha256 is taken to be injective. Faults:
`crash` and `database` (a statement reports failure, with or without effect).

`PaymentLedger` has neither lookups nor a trail: a request is refused, enters its
payment, is shown the one its key names or told of a conflict, or, if the
environment may fail, is left in doubt, with or without an entry. The mapping is the identity on the
payloads, the table and the answers. A request is served in the step that answers
it: the one that commits its payment, or the one that resolves, refuses or fails
it. A handler that dies unanswered has, in the ledger, done nothing, or is one
that committed and whose client is left in doubt.

### Sessions

A request is a process; one step is one Redis command, one MULTI or one audit
write. `pc[r]` is that step, `stage[r]` the service method it belongs to (the
guard, `rotateSession`, an upgrade, `createSession`, `revokeSession`), `at[r]`
the session the method works on and `held[r]` the value it read. A request
chooses on arrival whether it is a login or presents a session, and which
endpoint it asks for: `me` stands for every endpoint that only passes the guard.
A session is created by one request, which names it. `store` holds the keys,
`index` is `user_sessions`, `trail` the sessions with a `session.revoked` event.
The value keeps three facts of `ActiveSession`: whether a factor raised its
level, whether MFA is pending, whether it was reauthenticated. A stored
status is always `active`, because revocation and expiry delete the key.

| actions | code |
|---|---|
| `Login`, `Arrive`, `Get`, `Touch`, `Drop` | the head of the request: `login`, `SessionAuthGuard`, `validateSession` |
| `Write` | `completeMfaChallenge`, `updateMfaLevel`, `markReauthenticated`, each after its own `validateSession`; for "disable", `completeMfaChallenge` with level none |
| `Persist`, `AddToIndex`, `RecordCreated`, `RecordCreatedFails`, `CopyReauth`, `Unmake` | `createSession`, for a login or inside `rotateSession`, and what takes it back |
| `ListSessions`, `NextSession`, `FindVictim`, `DeleteVictim`, `RecordRevoked`, `RecordRevokedFails`, `Restore`, `Reindex` | `revokeAllSessions` with `exceptSessionId`, `revokeSession` and its compensation |
| `Members`, `Look`, `LookFails`, `Sweep` | `listUserSessions`: SMEMBERS, the pipelined GETs, the SREM of stale ids |
| `RotationFails` | a Redis failure inside the try block of `rotateSession`, with or without effect |
| `Lapse`, `Crash` | external: a TTL runs out, the process dies or loses Redis |

Simplifications: one user, so the comparison of owners in `revokeSession` never
fails; no clock, so a key may lapse and a deadline may be found passed at any
time, which is more than the code allows. "disable" stands for the three operations that take
the last factor away (`disableMfa`, `adminResetMfa` of oneself,
`revokeWebAuthnCredential`): they do the same to sessions. `known`, `lapsed`,
`asked`, `proven`, `origin` and `due` are history: no guard of a handler reads them,
except that a client presents a session it was given. With the default configuration the
audit events of login, logout, refresh and reauthenticate fail open; those of
sessions and of the MFA verification fail closed.

### Customers

A request is a process and picks its user, operation and customer on arrival.
`row` is the table, `cache` the keys in Redis: one per customer, one list per
user and the list of everything. `seen[r]` is what the handler read and, at the
end, what it answers. A cached value is modelled as the part of the table its
key stands for, so that a stale value, and a customer shown to the wrong user,
can be told apart. `outdated` is history: the keys that a late store or a
lost DEL made stale.

| actions | code |
|---|---|
| `Arrive` | the role checks at the head of the five methods |
| `Lookup`, `LookupFails`, `Query`, `Fill`, `FillFails` | `listCustomers`, `getCustomerById`, `readCache`, `writeCache` |
| `Load` | the row `updateCustomer` and `deleteCustomer` read and the access check on it |
| `Create`, `Update`, `Delete` | the statement of each, with the unique index on (userId, taxId) |
| `Invalidate`, `InvalidateFails` | `invalidateCustomerCache` |
| `Lapse`, `Crash` | a TTL runs out; the process dies or PostgreSQL fails |

`src/docs/release-checklist.md:94` asks that the cache introduce no stale data.
The code does not promise it (a value lives for its TTL), so no run calls that a
violation: `StaleIsExplained` says precisely which stale values there are.

### Throttle

`Requests` are the slots in which the server works on requests, reused one
after the other; `Offered` says of which kinds the requests are that come in. A step is
one Redis command or one statement. `count` and `ttl` are the counters, per
scope and per account or address; `barred` is the `mfa_verify` lock; `failed`
and `locked` are `failedLoginCount` and `lockedUntil`. `mfa` stands for each
of the contexts that `mfa.service.ts` counts apart in the same way (TOTP, recovery
codes, pending setups). `tried` and `wrong` are history.

| actions | code |
|---|---|
| `Assert`, `Count`, `ExpireRate`, `Clear` | `assertScopeAllowed`, `registerFailure`, `clearScope` |
| `Read`, `Fail`, `ResetFailedLogin` | `login`, `reauthenticate`, `registerFailedLogin`, `resetFailedLogin` |
| `CheckLock`, `MfaCount`, `MfaExpire`, `MfaLock`, `MfaForget`, `MfaClear` | `assertVerificationAllowed`, `registerVerificationResult` |
| `Lapse`, `Unbar`, `Unlock` | external: a window, a lock or a lock-out is over, at any time |
| `Crash` | the handler is cut off between two steps; its slot is not used again |

`GuessesBounded` counts wrong guesses between two resets of a counter. One reset
is not meant as one: a handler that has set the MFA lock deletes the attempts
(`mfa.service.ts:312`) even when a right code has lifted the lock in between, and
with them the attempts counted since. The property counts this late DEL as a
reset; were it not one, seven verifications of one account would exceed the bound,
more than the instance has.

One assumption on time: between the SET of the lock and the DEL of the attempts,
two commands of one handler, less than the lock's time passes.

### Mfa

`row` is the account: the mfa columns and its active credentials. A handler
reads it in one statement (`snap[r]`) and writes it back in another, and decides
on the snapshot where the code does. `setup`, `regChallenge` and `authChallenge`
are the values in Redis, per session; the value names the request that made it.
Any number of requests, of two sessions and an administrator, overlap.

| actions | code |
|---|---|
| `SetupMfa` ... `RevokeWebAuthnCredential` (`Read`) | the head of each endpoint of `auth.service.ts` that is about factors |
| `CreateSetup`, `VerifyPendingSetup`, `ClearPendingSetup` | the pending setup of `mfa.service.ts` |
| `StoreRegistrationChallenge`, `StoreAuthenticationChallenge`, `FinishRegistration`, `FinishAuthentication` | the ceremonies of `webauthn.service.ts`; GET and DEL of a challenge are one script |
| `Enroll`, `ConsumeRecoveryCode`, `ReplaceRecoveryCodes`, `CommitDisable`, `CommitReset`, `Register`, `RecordUse`, `CommitRevocation` (`Commit`) | the transaction of each |
| `Upgrade`, `Enforce`, `EnforceFails`, `RollbackMfaState` | the calls of the sessions service, and `rollbackMfaState` |

A code or an answer is right or wrong by choice, unless a property needs to know
which: a recovery code is one of those in the list that was read, an answer to a
ceremony names its challenge. `overtaken` is the set of handlers whose snapshot
somebody else has outdated. The properties hold for all others, and except those
operations that the code itself decides on a snapshot. An account that has
passkeys only is refused a TOTP verification (`auth.service.ts:548-556`):
`VerifyEnrollment`.

## Runs

| run | instance | shows |
|---|---|---|
| invoices_serial | 1 invoice, 3 stamps, 2 cancels, 1 reconciliation; faults: abort | the lock excludes (`LockExclusive`); no repeated effect at the PAC (`NoDoubleEffect`); no forgotten one (`PacEffectTracked`); the status goes forward (`StatusMovesForward`); the handlers implement `InvoiceLifecycle` |
| invoices_faults | 1 invoice, 2 stamps, 1 cancel, 1 reconciliation; faults: abort, ambiguous, overlap | the row claims no more than the PAC did (`RowBackedByPac`); only ended handlers are confirmed (`ConfirmationIsOver`); an unconfirmed lock without a handler comes from an abort (`AbandonedOnlyByAbort`); locks settle (`LockSettles`, liveness) |
| invoices_stale_cancel | 1 of each, no faults | violation: a cancel decided on a stale row skips the PAC |
| invoices_stuck_lock | 1 of each; abort | violation: a lock nothing can resolve |
| invoices_overlap | 3 stamps, 1 cancel, 2 reconciliations; overlap | violation: overlapping resolutions lead to two stamps at the PAC |
| payments | 3 requests, 2 users, 1 key, 2 bodies; crash, database | one payment per key; true answers; no stray P2002; complete trail; the endpoint implements `PaymentLedger` (`ImplementsLedger`) |
| sessions | 3 requests of one user; audit, crash | no factor made up (`FactorWasProven`); a session gone comes back only through a request that held it (`GoneForGood`); none vanishes unaccounted for (`GoneIsAccounted`); a live one is listed (`LiveIsIndexed`); a revocation of all that succeeds leaves none it met (`RevokedAllThatWereDue`) |
| sessions_revoked | 3 requests, no faults | violation: a session that was revoked is written back |
| sessions_replaced | 3 requests, no faults | violation: two rotations of one session both succeed |
| customers | 3 requests, 1 customer that exists; an operator, a finance user, an auditor; 2 tax ids; redis, crash | stale values are those a writer has yet to delete, or late ones (`StaleIsExplained`); nobody is shown what the roles keep from them (`AnswersPermitted`); owners stay (`OwnerIsForGood`) |
| throttle | 2 slots, 3 requests, 1 account, 1 address; limits 2, reauthentication 1; crash | wrong guesses are bounded by limit and overlap (`GuessesBounded`); every counter has a window (`CounterHasWindow`); lock-outs are earned (`LockoutIsEarned`); blocks end (`BlockLifts`, liveness) |
| mfa | 3 requests, 2 sessions, 2 passkeys, 2 codes per batch; all operations; crash, sessions | one verification per challenge (`ChallengeOnce`); flag, factors and codes agree (`FactorsAgree`); codes serve once (`CodesServeOnce`); a rollback restores (`RollbackRestores`) |

Bounds. No action reads or writes two invoices, so one is enough for TLC (the
theorems hold for any number). Three stamps allow the longest interesting
chain: one times out, one clears it, one tries again; the overlap needs two
resolutions besides. For payments, three requests let one win, one lose the race
and one retry late, with an equal or a different body. For sessions, three
requests are a login and any two endpoints on its session, or two logins and a
revocation of all, with a crash or a failed audit at every step. Each exception
named in `LiveIsIndexed` and `RevokedAllThatWereDue` occurs: without it TLC finds a violation.
For customers, three requests are a slow reader, a writer and another reader or
writer, on a customer that exists or that one of them creates; the three users
have the three scopes the role tables distinguish. For throttle, two slots let
two handlers overlap between any two commands, and three requests reach a limit
of 2 with one to spare; the offers leave out the bare MFA verification, whose
steps are those of the second half of "reverify". For mfa, three requests are
two that overlap on one snapshot and one that meets the result, and two passkeys
let two revocations each believe in the other's; two codes let one be spent and
one remain.
Runs with symmetry check no liveness. Deadlock is checked: `Idle` marks the end
of all requests.

Fairness. `WF` for every step a started handler takes: Node resumes a handler
after each await, and the wait for the PAC is bounded by the AbortController
timer. `Throttle` adds `WF` for the end of each rate-limiter window: Redis
expires a key that has a TTL. No fairness for starting a request, for the PAC,
for the locks of accounts, or for failures.

## What the violation runs say

- `CancelReachesPac` (`src/docs/api-surface.md:234`): the decision to call the
  PAC uses the row read before the lock (`invoices.service.ts:359`). The lock
  accepts a row that was stamped meanwhile, so the invoice is cancelled locally
  and stays valid at the PAC. `InvoiceLifecycle` states the promise without
  this part.
- `AbandonedLockReconcilable` (`src/docs/api-surface.md:241`): after a failure
  past the PAC's success, or a crash with the lock, the row is locked with the
  confirmation flag unset, and no endpoint accepts it.
- `NoDoubleEffect` under `overlap` (`src/README.md:141`): resolutions update by
  id alone.
- `RevokedIsGone` (`src/README.md:130`): `persistSession` is a plain SET, so a
  request that read the session before the revocation puts it back, outside
  `user_sessions`. `GoneForGood` says this is the only way back.
- `ReplacedOnce` (`src/docs/code-audit.md:123`): `rotateSession` ignores that
  `revokeSession` returned false. This reads the document's "si la revocacion de la
  sesion anterior falla" as including a revocation that finds nothing to revoke.

Each of these is delimited by a theorem. The module states, next to the
property, what the code would have to ensure for it (`CancelsLockWhatTheyRead`,
`WritesBackOnlyLive`, `RotationsTakeTheOld`), an action property that no guard of
the code secures, and the proofs show that under it, and without the fault the
run uses, the property does hold: nothing else in the code stands against it.

| property | holds if | theorem |
|---|---|---|
| `CancelReachesPac` | a cancel takes the lock only of a row in the status it read; faults: abort, ambiguous | `FreshCancelsReachPac` |
| `AbandonedLockReconcilable` | faults: all but abort | `LocksAreReconcilable` |
| `NoDoubleEffect` | faults: abort | `EffectsHappenOnce` |
| `RevokedIsGone` | a session is written back only while it is there; faults: all but audit | `RevokedStaysGone` |
| `ReplacedOnce` | besides, a rotation goes on only if it finds and deletes the session it replaces | `RotationsAreExclusive` |

The same is done for the exceptions that two properties name: the account of
`Mfa` agrees in every state, and a recovery code serves once without exception,
if nothing is written on an outdated snapshot (`WritesFreshOnly`:
`FreshAccountsAgree`, `FreshCodesServeOnce`); the cache of `Customers` is stale only
between a commit and its DEL if readers store only what is current
(`StoresOnlyCurrent`: `OnlyLateStoresOutdate`, without faults). These hypotheses
restrict the order of steps, not what is done: a behaviour in which no two requests
meet satisfies them all.

## What the passing properties leave open

Some races are real, have an effect, and break no promise the repository states.
The properties exempt them by name, and the hazards of PROJECT.json list them without a
property. What a passing run does not show:

| property | exempt, and possible | what the property still says |
|---|---|---|
| `StaleIsExplained` | a reader's late store; a lost DEL | each write deletes every key it outdates |
| `CounterHasWindow`, `BlockLifts` | a handler cut off between INCR and EXPIRE: its counter may stay for good | no other order of INCR, EXPIRE and DEL leaves a counter without a window |
| `LockoutIsEarned` | lost updates that delay a lock-out | none comes early |
| `FactorsAgree` | writing codes, revoking a passkey or rolling back on an outdated snapshot | every operation on a fresh snapshot keeps the account in agreement |
| `CodesServeOnce` | two verifications on one list; a rollback on an outdated snapshot | a used code is in no list that is written otherwise |
| `RollbackRestores` | rollbacks on an outdated snapshot | the others restore every column and passkey |
| `LiveIsIndexed` | an id that a listing took for stale | other two-command writes and compensations keep the index |

No module has a clock: that a window is prolonged by those still admitted, or
how recent a reauthentication is, cannot show.

## Proofs

The theorems hold for any sets of invoices, requests and users, from the
named assumptions on the constants only (disjoint kinds of requests, known
faults, markers like `Nobody` that are no request or account, limits above 0,
finitely many slots in `Throttle`). Each names the faults it excludes as a hypothesis; those are the
faults under which the property is false.

- `TypeCorrect`, `PaymentsTypeCorrect`: types, action by action.
- `MutualExclusion`: `LockExclusive` is not inductive: nothing in it says that a
  row under resolution still waits for confirmation, nor that a working handler
  has not been marked. The strengthening adds that a working handler owns an
  unconfirmed row, a resolving one an unconfirmed operation in its snapshot and in the
  row, at most one of either per invoice.
- `OnlyForward`: from the same invariant, with the statuses a handler's snapshot
  and lock allow the row to have.
- `ConfirmationAfterHandler`, `RowsAreBacked`: invariants over the confirmation
  flag and over what each label implies about `pac`, under the remaining faults.
- `EffectsAreTracked`, `EffectsHappenOnce`: an effect at the PAC is recorded in
  the row or named by its lock; two effects of one kind would be two names in one
  place.
- `LifecycleImplemented`: every step of `Invoices` is a step of
  `InvoiceLifecycle` or leaves its variables alone, from the invariants above.
- `LocksAreSettled`: a lock has a handler at work on it, waits for confirmation or
  was left by an abort (`OwnerInv`), also when resolutions overlap: the statement
  that ends a handler is the one that commits, marks or releases its lock.
  `HandlersNearTheirEnd` gives each label the number of steps that are left
  (`StepsLeft`, at most seven) and shows that every step of a handler lowers it.
- `FreshCancelsReachPac`: a cancel that locked the status it read goes on knowing
  the status of its row, and commits the cancellation of a stamped one only when the
  PAC has applied it (`Informed`, `CancelInv`).
- Payments: rows and events are only added, and only where the index allows
  (`Growth`); what a handler found stays true (`Believed`); the first four theorems
  follow. `LedgerImplemented` needs besides that a handler at work has not
  answered and, past the role check, works for a user who may pay (`Serving`). One
  step per action then names the step of the ledger, or says that nothing it shows has
  changed.

- Customers: `CustomersTypeCorrect` and the rest rest on the conduct of
  the handlers (which step belongs to which operation, and that a writer holds the row it
  is about). `OwnersStay`: a creation that has not committed has no row.
  `AnswersArePermitted`: each cached value fits its key, the key fits its reader.
  `OnlyLateStoresOutdate` shows that without faults `outdated` grows only at a
  late store.
  `StalenessIsExplained`: a writer that read its row before its transaction
  still knows the owner, because owners stay; so it deletes every key whose part
  of the table the write changed.
- Throttle: `CountersHaveWindows` is inductive beside the types, with one case
  per command; `BlocksKeepTheirEnd` adds that a standing counter keeps its window
  and that whoever has to open one does. `LockoutsAreEarned` needs that the column and each count a
  handler is about to write back are at most the wrong passwords given.
  `GuessesAreBounded`: the wrong guesses at a counter of the rate limiter are at
  most the count plus the handlers that owe it one (`Owes`: they guessed and have
  not counted, or were cut off), and together with the handlers the check has
  admitted (`Admitted`) they stay below the limit plus the slots, because a handler is
  admitted only below the limit and never owes at the same time (`RateBound`).
  For the second factor the lock is in the way of counting, so that only what is
  guessed while the account is not barred is held against the handlers that
  have yet to count or to lock (`Late`, `MfaBound`). `RateTallies` and
  `MfaStepTallies` say what each step does to these numbers, and the cardinality
  lemmas do the rest. The theorem holds for any number of requests and slots.
- Sessions: the types come with the route of a handler (`Route`: which step
  belongs to which endpoint and service method, and what it then holds) and the
  descent of sessions (`Descent`: whoever is stored or known was born of a
  login). `RevocationsAreFinal` follows step by step: only a handler that holds the
  value writes it. `FactorsAreProven` strengthens the property to every value a
  handler holds (`Backed`). `VanishedAreAccounted`, `LiveAreIndexed` and
  `WalksRevokeTheirDue` extend it from the sessions clients know to all that are
  not about to be taken back (`Accounted`, `Indexed`), and to what a walk over
  `user_sessions` still has ahead of it (`Dues`). `GoneIsRefused` follows a request that
  presents a session nobody holds any more (`Rebuffed`): no step of its own or of another
  brings it past the guard. `RevokedStaysGone` and `RotationsAreExclusive` strengthen
  their properties to the handlers about to record a revocation (`Immediate`) and to
  those on their way to keep a replacement (`Exclusive`).
- Mfa: again types with routes. `ChallengesServeOnce`: a stored challenge belongs to a
  finished handler of the same session, and a challenge that was verified is no
  longer stored (`Ceremonies`). The other three are about one step each and rest
  on `Snapshots`: a handler nobody has overtaken still sees the account as it
  read it, and a code cannot be in a list or spent before the handler that makes
  it has committed. `FreshAccountsAgree` and `FreshCodesServeOnce` extend the agreement to
  the snapshots that may still be restored (`Sound`).

Only model-checked: `LockSettles` and `BlockLifts` and the counterexamples.
Liveness under fairness rests on ENABLED, which the prover does not support; what
the two need of the steps themselves is proved (`LocksAreSettled` and
`HandlersNearTheirEnd`, `CountersHaveWindows` and `BlocksKeepTheirEnd`), so what is left to TLC is that
an enabled step is taken.

## Not modelled

- Creation of invoices (see the plan): the row it adds is the initial state of
  `Invoices`, and the unique index on the folio decides between two creations.
  Listing of invoices and payments only reads.
- In `Mfa`: what a session holds (in `Sessions`), the throttling of attempts (in
  `Throttle`), the signature counter of a credential, and expiry as an event: a
  pending setup or a challenge may be found gone whenever it is used.
- The time stamp `RecentReauthGuard` looks at: no module has a clock. `Sessions`
  keeps whether there is one.
- TOTP, WebAuthn signatures, password hashing and the encryption of secrets:
  computations without state, right or wrong by choice.
- CSRF checks, configuration, health, metrics, logging, connection handling and
  the frontend, which keep no state these properties depend on.
- The audit events of the invoice, customer and MFA handlers: they share the
  transaction of the change they record, or follow it and change no row.
- The mock PAC provider keeps no status; `getOperationStatus` then always
  answers pending, a subset of what the model allows.
