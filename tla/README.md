# A verification development of `empireoe_core`

`empireoe_core` is the Python library the Empire product APIs share: FastAPI
routers, service functions and primitives that a product wires into its own
application, database and settings. These TLA+ modules model the parts of it
that hold state or take part in a protocol; TLC checks them on small instances
and TLAPS proves what matters most for every instance. All paths below are
relative to `src/empireoe_core/` of the repository.

## 1. The system

| Component | State | Operations | Interacts with |
|---|---|---|---|
| Account deletion, `auth/delete_account.py` | none of its own; a row of the product's users table, loaded into a session | `delete_account_service` (select, test, scrub, commit), the `DELETE /delete-account` handler (claims, service, 404, audit event, second commit) | session from `get_db`, `record_action`, the product's update endpoints through the same row |
| Audit trail, `audit.py` | rows of the product's audit table | `record_action` (add, flush; the caller commits) | called inside the caller's session |
| Tenant scoping, `tenant.py` | none | `scope_query`, `strip_protected_fields` | every query and update of a product |
| Database, `db.py` | the engine's connection pool, the module-level `_session_factory` | `create_async_engine_from_url`, `create_session_factory`, `set_session_factory`, `get_db` | every request holds one session |
| MFA primitives, `auth/mfa.py` | none; a `user_mfa` row of the product (encrypted secret, backup-code hashes) | `verify_totp`, `encrypt_secret`, `decrypt_secret`, `generate_backup_codes`, `consume_backup_code`, and the wiring its docstring prescribes (`verify_code`) | the product's login flow, its session and its `MFA_ENCRYPTION_KEY` |
| Tokens, `auth/security.py`, `auth/service.py` | none; claims and expiry inside a signed token | access, MFA-challenge and service tokens: create and decode | browser, login flow, services calling each other |
| Role guards, `auth/rbac.py` | module-level `_get_current_user` | `set_user_dependency`, `require_roles` | every guarded route |
| AI gateway, `ai/gateway.py`, redaction, `ai/redaction.py` | none between calls; the environment chooses the provider | `resolve`, `chat_completion`, `with_usage`, the two request shapes, usage logging, `redact_pii` | HTTP to the providers |
| Stripe, `stripe/client.py` | cached SDK configuration only | `get_client`, `get_connected_client`, `idempotency_key_for`, `verify_webhook_signature`, `fingerprint_payload` | Stripe, webhooks of a product |
| Pagination, `pagination.py` | none | `paginate` (count, then page) | a session |
| Leads, configuration, health, Sentry, middleware, models, Alembic templates | none that changes | routers and declarations | - |

Everything runs on an asyncio event loop, usually in several worker processes.
The only shared mutable state is the product's database; a handler may be
suspended at each `await`, which for a session is each statement and each
commit. What is hard to test is therefore what happens between two awaits of
one handler: another request on the same row, a failed statement, a commit
whose acknowledgement never arrives, a process that dies.

### What makes each part correct, and where it is hard

* **Account deletion.** An answer of success or of 404 must be reliable, a
  deletion is final and scrubs everything it names, the audit trail and the row
  agree, no tenant reaches another's row. Hard: two transactions per request,
  reads that take no lock, net-change UPDATEs, failures and lost
  acknowledgements at every await.
* **MFA.** A backup code opens an account once, a retired batch stays retired,
  nothing passes under a foreign key, a TOTP code stops working when its window
  closes. Hard: read, match and store are three steps; key and clock change
  between them.
* **AI gateway.** What leaves is redacted and whole, each result is logged once
  as what was called, failures are typed, clients are closed. Hard: an
  environment that changes during a call, answers of eleven kinds in two shapes, a log
  that is written before the answer is wholly read, cancellation.
* **Stripe writes.** A write is carried out once however it is retried, and an
  answer tells of the write it answers. Hard: late requests, restarts, keys that
  expire, several products on one account.
* **Database sessions.** A connection is out exactly while a transaction runs,
  on every path; nobody who holds a row lock waits for the pool. Hard: a
  deletion takes a connection twice, and its second transaction can be the one
  that times out; a process that is not yet configured answers too.
* **Tokens and role guards.** A token dies on time in every receiver, is good
  until then where it was meant for, and is taken for no other kind; whoever
  passes a guard gave the factors the account asks for. Hard: whole seconds
  against unrounded clocks that differ, challenges that can be exchanged again
  and again, claims a caller may override, secrets rotated one process at a
  time, guards made before there is a user dependency.
* **Pagination.** A walk through a listing ends, an undisturbed one is exact, a
  disturbed one loses no more than what was moved. Hard: count and page are two
  statements, rows come and go between them and between pages.
* **Redaction.** No digit of a number stays and a number is tagged once. Hard:
  five patterns that fit parts of each other's numbers run one after the other.
* **Webhooks.** What is handled is what Stripe sent, copies die out, and no
  event is lost for good. Hard: deliveries late, repeated, out of order, while
  the secret is rolled and the product is configured late.

## 2. The modules

| Module | What it is |
|---|---|
| `ErasureContract` | abstract: what deleting an account promises |
| `AccountDeletion` | the handler, its session, its rows; implements `ErasureContract` |
| `PooledDeletion` | the same handlers in the sessions of `db.py`; implements `AccountDeletion` |
| `AccountDeletion_proofs` | the TLAPS proofs about both |
| `OneTimeCodes` | abstract: what a store of one-time codes promises |
| `MfaVerification` | `auth/mfa.py` in its prescribed wiring; implements `OneTimeCodes` when requests are serial |
| `MfaVerification_proofs` | the TLAPS proofs about it |
| `AiGateway` | `ai/gateway.py` with `redact_pii` as a map of texts |
| `AiGateway_proofs` | the TLAPS proofs about it |
| `Redaction` | `ai/redaction.py`, its number patterns on a number between other text |
| `Redaction_proofs` | the TLAPS proofs about it |
| `IdempotentWrites` | abstract: what a caller is promised of a write to Stripe |
| `StripeWrites` | the clients and the idempotency keys of `stripe/client.py`, with the retries and the Stripe they are for; implements `IdempotentWrites` where keys are distinct |
| `StripeWrites_proofs` | the TLAPS proofs about it |
| `StripeWebhook` | `verify_webhook_signature` between Stripe's deliveries and a product |
| `StripeWebhook_proofs` | the TLAPS proofs about it |
| `AccessTokens` | the tokens of `auth/security.py` and `auth/service.py`, the guards of `auth/rbac.py` |
| `AccessTokens_proofs` | the TLAPS proofs about it |
| `Pagination` | `pagination.py` under a client that walks through a changing listing |
| `Pagination_proofs` | the TLAPS proofs about it |
| `MC…` | instances for TLC: symmetry, conversations, environments, writes, roles and claims |

An operator whose comment begins with "Fault:" is a plausible bug of the
definition below it. No specification uses one; putting it in place of that
definition must break a property (`PROJECT.json`, `mutants`).

### AccountDeletion

State: `row`, `lock` and `audit` are the database (committed rows, write locks,
committed audit events); `req`, `pc`, `snap` and `resp` are the requests (claims
and payload, place in the handler, loaded object, answer); `applied` is history.

| Action | Code |
|---|---|
| `Load`, `Refuse` | the SELECT and the tests of `delete_account_service` (67-79), 404 from the router |
| `Flush`, `Commit` | the assignments (81-109) reach the row in `commit()` (111): the UPDATE takes the row lock, COMMIT makes it visible |
| `CommitUnknown` | the COMMIT took effect, its acknowledgement did not arrive |
| `AuditFlush`, `AuditCommit` | `record_action` (`audit.py` 28-58) and the handler's commit (174-198) |
| `Abort` | any statement raises; `get_db` (`db.py` 78-91) closes the session, which rolls back |
| `Crash` | the worker process dies with all its requests |

Assumptions on what is outside the repository: the database is read committed
(PostgreSQL's default; `db.py` sets no level); a SELECT takes no lock, an UPDATE
waits for the row lock and holds it until its transaction ends; the ORM writes
the columns whose value differs from the loaded one (`Net`); the product's user
model has `is_active` and `token_version`; `scrub_fields` sets columns to None.
`Editors` are a product's update endpoints, written as `tenant.py` asks: through
`scope_query` and `strip_protected_fields`. An update endpoint is assumed to
refuse an inactive row as the deletion does. What it writes into a column is its
own name, so that a value can be traced to the update it came from; `organization_id`
stands for the protected columns. No payload has `is_active` or `token_version`:
`strip_protected_fields` would let them through (section 5), so what is shown of
activity and version (`NotFoundMeansGone`, `ErasureIsFinal`, the stale-row conjunct of
`IInv`) is for products whose update schemas do not offer these two columns.

### PooledDeletion

Adds `conn`, the requests whose session holds a connection, and `ready`, the
module-level `_session_factory`, to `AccountDeletion`, and conjoins each of its
actions with what the session does to the pool.

| Action | Code |
|---|---|
| `Configure` | `set_session_factory` (`db.py` 72-75), once per process |
| `Unconfigured` | `get_db` before that: RuntimeError, no session |
| `Begin`, `ReadOnly` | the first statement of a transaction takes a connection, which a free pool has; a request that is refused gives it back at once |
| `Continue` | the UPDATE, inside the transaction |
| `End`, `Failure` | COMMIT, or the close of a failed request (90-91), returns it |
| `PoolTimeout` | no connection came back in `pool_timeout` seconds: TimeoutError, before the SELECT or before the audit event |
| `Restart` | the process dies with its pool and its configuration |

`Capacity` is `pool_size` and `max_overflow` together. `PoolTimeout` may happen
whenever the pool is exhausted: 30 seconds are not told apart from fewer.
`CanGoOn` spells out when a handler's next statement has what it needs, which is
when its `PooledProgress` is enabled, and `Blockers` whom it waits for otherwise.

### MfaVerification

State: `hashes`, `batch`, `sealed`, `confirmed` are the `user_mfa` row; `key` and
`now` the environment and the clock; `pc`, `code`, `snap`, `answer`, `at` the
requests. `Read`, `Check`, `Store` are the three stretches between the awaits of
`verify_code` (docstring, 20-34); `BeginEnrollment` (14-18) and `IssueCodes`
(150-163) replace secret and codes; `Rotate` and `Tick` move key and clock. The
constant `Serial` says whether the product lets one request of an account at a
time read the row and store it back; the library neither does so nor asks for it.

### AiGateway

`Post` is everything from `resolve` (130-139) to the `post` of either shape, in
which there is no await; `Serve` is the provider, `TransportError`, `Cancel` and
`Finish` the ways a call goes on; `Reconfigure` changes `os.environ`. `Reading`
says what each kind of 200 answer becomes in each shape. The number of tokens has two
values, as in the code: `Raw`, as it stands in the answer, which `_log_usage` logs, and
`AsInt`, which the `ChatResult` gets after that; `int()` may raise in between, and then
the entry stays. The prompt and the completion tokens are one number. `Split` is the loop that
sets the system messages apart for Anthropic, one `Take` a message. Texts are five abstract
values; token limits, temperature and JSON mode do not influence control and are
left out.

### Redaction

A text is a sequence of four kinds of characters: a digit, a blank or hyphen, a
letter, a placeholder. `Sub` is `pattern.sub` of one pass: at each position the
longest match, or one character is kept; the greedy patterns of
`redaction.py` (17-23) have no alternative that would prefer a shorter one.
`Next` is one of the three passes over numbers, in the order of the code. Which
`Numbers` there are and what stands `Before` and `After` one are parameters: a text
holds one number by itself, with no other digit and no letter next to it, which is
where the word boundaries of the patterns are. `MCRedaction` makes numbers of groups. The
email and PAN patterns need letters or an at sign, so they share no text with
the other three once they have matched, and are left out like `+`, `(` and `)`.

### AccessTokens

`tokens` are the tokens in circulation, `offset` and `secret` the clock and the
settings of each process, `userDep` is `rbac._get_current_user`, `guardDep` what
each route's guard was made with. A decoder has no state, so any token may be
presented anywhere at any time, and what it answers is a state function the
invariants speak of. `Second = 2` ticks: `NumericDate` rounds down to whole
seconds as `jwt.encode` does, and the comparison is with the unrounded clock.

`LogIn` and `Exchange` are the flow the docstring of
`create_mfa_challenge_token` prescribes; `Exchange` leaves the challenge as it
is. `CallService` merges `extra_claims` over the library's claims, `type` included, as
`service.py` 47-48 does; a token's history says which claims were set in it
(`extra`) and in the token it was exchanged for (`source`). One secret
signs all kinds of token: the library takes two settings and keeps nobody from
giving them one value, so this is the least favourable deployment.
`get_current_user` is the product's, told apart by the absent `type`. A guard
made before `set_user_dependency` has `Depends(None)`; FastAPI then takes the
annotation of the parameter, and there is no user with a role: such a guard
admits nobody.

### Pagination

`Ask`, `Count`, `Page` and `Fail` are one request (`paginate`, 60-71): the limits
are cut by `PaginationParams`, the two statements see what is committed when each
of them runs. `Insert` and `Delete` are other sessions. A row is the number it is
sorted by; `ordered` says whether the statement has an ORDER BY, and without one,
as in the module's own example, a page is any rows of the right number. The
client, which goes on by the skip and limit of the answer, is external.

### StripeWebhook

`verify_webhook_signature` is the library, `construct_event` the SDK it calls, all
else the surroundings: `Deliver` signs an attempt anew with the secrets of the
day, `Damage` changes its body, `Handle` receives it, perhaps again, `Tick` is
time, kept as the age of each attempt and, for a settled event, as the time since
(`quiet`), `RollSecret` and `Redeploy` change the secrets. What
is older than `OldAge` is not told apart. An attempt that is lost is one that is
overwritten in its slot or never handled. Which error code a refusal carries is
left out.

### StripeWrites

`idempotency_key_for`, `StripeAccount` and `HasClient` are the library;
`Unavailable` and `Send` are a backend that uses it. A str is the sequence of
its parts between colons, so `":".join` is concatenation and a colon inside a
part can be expressed. The rest is external: requests may stay on the network
for ever (loss) or arrive after their retry, Stripe keeps answers per account
and key, replays them to an equal request, refuses another one, and may forget a
key that is as old as `Window`. `Forget` is a timeout, or a process that dies
before it has recorded the answer: nothing but the key links two attempts.

## 3. The runs

| Run | Instance | States | What it shows |
|---|---|---|---|
| `deletion_pool` | 3 deletions, 2 accounts, 2 connections, a custom scrub column | 151,064 | answers, row and trail agree under a pool; the pool neither leaks nor closes a circle with the row locks; every request ends; `AccountDeletion` is implemented |
| `deletion_with_update` | 2 deletions, 1 update of `organization_id` with or without the scrubbed column, 2 accounts | 2,568,640 | 404 stays true, nothing but what an update has put there survives in a scrubbed column, tenants are isolated, a deletion is final, the contract is implemented; the inductive invariant holds |
| `mfa_serial` | 2 requests, 2 codes, 2 batches, 2 keys, 4 time steps | 412,716 | one-time codes, retirement, fail-closed rotation, bounded TOTP replay, `OneTimeCodes` |
| `gateway_calls` | 2 calls, 3 environments, 3 conversations, all answers | 3,823,218 | redaction, wholeness and order, accounting, closed clients |
| `redaction` | up to 5 groups of 2, 3, 4, 6 or 13 digits, in 4 surroundings | 62,480 | no digit of a number is left, and one tag for it |
| `stripe_retries` | 3 writes and one without a client, 4 attempts, 2 amounts, a key that expires | 924,692 | one charge in a window, answers about the right write, `IdempotentWrites`; the instance satisfies `PlainParts`, so keys that collide are not in it |
| `webhooks` | 1 event, 2 attempts at a time | 45,688 | only what was sent is handled, repetition ends, every event settles |
| `access_tokens` | 2 processes, 2 users, 1 with MFA, 2 tokens, 6 values of `extra_claims`, 2 of them with a `type` | 1,499,220 | lives, kinds, factors and roles under skew, rotation and start-up |
| `pagination` | 4 rows, limits below and above the bounds | 857,018 | exact and nearly exact walks, answers that add up, pages that lead on, walks that end |
| `audit_lost` | 1 deletion | violation | an erased account without an audit event |
| `scrub_race` | 1 deletion, 1 update | violation | personal data committed in between survives |
| `mfa_overlap` | 2 requests, not serial | violation | both pass with one backup code |

Each violation run states what a docstring or a test says; `PROJECT.json`,
`findings`, quotes it. In short: the audit event is a second transaction and is
lost for good when the handler does not get to it, in the shortest trace because the
acknowledgement of the first commit is lost, by a failure or a crash as well; a scrub
assignment that changes nothing is not written; the
list `consume_backup_code` returns protects only callers who serialise.

**Bounds.** Two requests make every race of two steps; the third in
`deletion_pool` is the one that finds `Capacity = 2` exhausted while one of the
others waits for a row lock and the other holds it. Requests are one-shot: a
client that retries is another request with the same token, and all tokens are
tried, including an id no row has (`Ghost`) and the wrong organisation. Two
accounts let an update and a deletion meet and miss.

In `mfa_serial`, `MaxBatch = 2` is a renewal, `MaxTime = 3` more than a TOTP
window; in `stripe_retries` four attempts in all let one write be tried four
times or two twice, and `MaxTime = 1` with `Window = 1` lets keys expire and a
retry come after it. In `access_tokens` lives of 4, 4 and 6 ticks with a skew of
1 tick are long enough for a token to be young, old and dead under every offset;
logins begin at tick 0 (`MaxStart`), but not all at an even clock, because of the
offsets; `MaxTokens = 2` is a challenge and its exchange, a service token
that passes for a challenge and its exchange, or two of any kind; `MaxTime = 11` is
later than any whose expiry was left alone can be accepted. In `webhooks` two
slots hold an attempt and its copy or successor, and `Tolerance = 3` with
`Skew = 1` leaves time for a roll of the secret within it; events are independent
of each other, so one is enough. In `pagination` four rows and pages of at most
two make walks of several pages with insertions before, in and behind them;
limits 0 and 3 are below and above the allowed ones. In `redaction` the group
sizes make every pattern match on its own, within another's number and across
groups. `MaxBatch`, `MaxTime`, `MaxStart`, `MaxTokens` and `MaxAttempts` are
guards of the actions that count; `Slots` limits what is on the network; nothing
else is cut.

**Deadlock** in TLC's sense is not checked, `NobodyIsStuck` is: requests, calls,
tokens, writes and passes are finite in number and a run rightly stops when all
have ended.

**Fairness** is assumed in three runs, for what must happen eventually:

* `PooledFairSpec`: weak fairness of `Configure` and of each request's
  `PooledProgress`. A process calls `set_session_factory` when it starts; the
  event loop resumes a handler whose statement has returned, the database grants
  a lock that is free, the pool serves a waiter when it has a connection.
  Failures, timeouts and crashes are allowed and never assumed, so
  `EveryRequestAnswered` says that no request waits for ever for a lock or a
  connection.
* `StripeWebhook`, `FairSpec`: Stripe delivers again until it is acknowledged
  (weak), the product is redeployed when its secret is not one Stripe signs with
  (weak), and of infinitely many attempts that could be handled and acknowledged
  one is (strong): not every attempt is late, damaged or acknowledged in vain.
* `Pagination`, `FairSpec`: the client goes on (weak) and not every one of its
  requests fails (strong, since `Fail` disables `Count` and `Page`).
  `EveryWalkEnds` needs that insertions are finite in number, which `Rows` makes
  them: behind a listing that grows for ever no walk ends.

## 4. What is proved

Eight modules hold proofs; each theorem is for all values of the constants that
satisfy the named assumptions of its module, finite or not unless said
otherwise. Every inductive invariant is called `IInv`, is stated at the end of
its component's module, and is checked by TLC as well, in that component's run
or through its consequences. Some properties are conjuncts of an `IInv` a run checks.
Those that are the headline of their component are listed beside it, with a mutant of
their own: `BackupCodeSpentOnce`, `RetiredCodesStayOut`, `UsageIsAccounted`,
`ChargedOncePerWindow`. `LossIsBounded` follows from `ChangesPayForLosses` in the
`IInv` of `Pagination`, and `WalkIsExact` is `LossIsBounded` without changes; they say
in a client's terms what the invariant says of rows and places. The others
(`AnswerAddsUp`, `NoClientStaysOpen`, `OverlapInv`) are not listed, nor is
`LockHoldersAreConnected`, which `NobodyIsStuck` needs.

**`AccountDeletion_proofs`**, for all sets of requests, accounts, organisations,
columns and payloads, from: `Ghost` is no account, deletions and updates are
different requests, versions are natural numbers, the values updates write are
neither NULL nor a placeholder.

| Theorem | Property |
|---|---|
| `InductiveInvariant`, `TypeCorrect` | `IInv`, `TypeOK` |
| `TrailNamesErased` | `AuditOnlyForErased` |
| `ErasureIsIrreversible` | `ErasureIsFinal` |
| `TenantsAreIsolated` | `TenantIsolation` |
| `OkIsReliable`, `NotFoundIsReliable` | `OkMeansErasedAndAudited`, `NotFoundMeansGone` |
| `DeletionsLeaveNoPii` | `ErasedHoldsNoPii` |
| `DeletionImplementsContract` | `ContractHolds` |

The invariant is needed for what a handler may rely on across its awaits:

* `LoadedRowIsStaleOnlyByErasure`: between SELECT and commit a row differs from
  the loaded one in organisation never, in activity and version only by a
  deletion; this is why a second UPDATE computed from the older row writes the
  same version, and why no writer revives a row.
* `LocksAreHeldByUpdates`: a lock is held exactly between UPDATE and COMMIT, so
  one transaction at a time is durable on a row.
* `AppliedRowsAreInactive`, `AuditingFollowsErasure`, `EventsFollowErasure`: a
  durable deletion left an inactive row of its organisation, only it gets to its
  audit event, and each event is one's own.

The lemma `RowsChangeByCommit` reduces "some row changed" to "some commit";
`DurableRows` says what a commit does to the row, by the stale-row conjunct; the
theorems follow. `DeletionsLeaveNoPii` needs no assumption on the updates. It adds
that between SELECT and commit a column holds what was loaded or something
`Fresh`, that is impersonal or written by an update of this account
(`LoadedOrFresh`): a column the net change leaves out was impersonal when it was
loaded (`DeletionFreshens`), and an update that writes after a deletion writes
what is its own (`UpdateFreshens`). So nothing of what an account held before
the overlap survives; that a value committed by an overlapping update can is the
finding of `scrub_race`, and `Fresh` excuses no other. For the
refinement a first commit of a deletion is `Erase`, an `AuditCommit` is `Record`, and all else, a second deletion's commit
included, is a stutter.

The last section of the module is about `PooledDeletion`, for every `Capacity` above 0
and any set of requests. The theorems above cite nothing of it.

| Theorem | Property |
|---|---|
| `PoolRefinesDeletion` | `PoolOnlyDelays` |
| `OkIsReliableUnderAnyPool` | `OkMeansErasedAndAudited` of `PooledSpec` |
| `PoolNeverLeaks` | `ConnectionsFitTransactions` |
| `NoHoldAndWait` | `LockHoldersAreConnected` |
| `NoDeadlock` | `NobodyIsStuck` |

Each pooled step is a step of `AccountDeletion` or changes none of its variables,
so all its theorems hold under the pool as the second does. That connections and
transactions coincide is inductive next to `IInv`; a lock is held only inside a
transaction, so its holder has the connection it needs. From this `NoDeadlock`: a
request inside a transaction can go on or waits for the lock of one that can
(`TransactionsGoOn`); one that waits for the pool waits for requests inside
transactions, one of which is not waiting for a row, or waits for the row of
another that holds a connection too. That `CanGoOn` is enabledness is by
inspection of the actions, since the prover does not reason about ENABLED.

**`MfaVerification_proofs`**, for all requests, codes, keys, batches and steps of
the clock. The first two hold however the requests of an account overlap; the
others are under the condition `Serial`.

| Theorem | Property |
|---|---|
| `AcceptedCodesWereRight` | `OverlapInv` |
| `TotpReplayEnds` | `TotpReplayIsBounded` |
| `SerialRequestsAreSound` | `IInv` |
| `BackupCodesAreSpent`, `NoCodeComesBack` | `BackupCodeSpentOnce`, `RetiredCodesStayOut` |
| `ForeignKeysFailClosed` | `RotatedKeyFailsClosed` |
| `MfaImplementsOneTimeCodes` | `CodesAreOneTime` |

`OverlapInv` says what was true when a code was accepted: a TOTP was in its window, a
backup code had been given out. The bound on replays is the width of two such windows,
so it needs no more, and `mfa_serial` checks both where requests take turns.

Under `Serial` the heart is `LoadedRowIsCurrent`: a request that has read the row is
the only one and the row is as it read it, so the list it stores back is the stored one without
its code (`StoreTakesOneCode`). `mfa_overlap` shows that without `Serial`
`BackupCodeSpentOnce` fails. An accepted code is therefore out of the stored list,
its batch was given out, and a new batch cannot contain it. For the refinement `IssueCodes` is
`Replace`, `Store` is `Use` or, when its acknowledgement is lost, `Burn`.

**`AiGateway_proofs`**, for all calls, conversations, arguments and environments.

| Theorem | Property |
|---|---|
| `GatewayInvariant` | `IInv` |
| `UsageAgrees` | `UsageIsAccounted` |
| `ClientsAreClosed` | `NoClientStaysOpen` |
| `RedactionIsComplete` | `RedactedTextLeaves` |
| `ConversationsArrive` | `ConversationArrives` |

A call that has an answer which is not an error was served (`AnsweredIsBilled`), and
a call that has not ended has no outcome and so no entry (`CallsEndOnce`); each way
to end then either leaves the log alone or adds the one entry of its own call
(`LoggingKeepsIInv`, for a result and for an `int()` that raises alike).
`RawCountsAssumption` keeps the raw numbers apart.

The last two speak of conversations of any length. The loop of `Split` is a function
on the positions, and what it has made of the first `n` messages (`SplitSoFar`) is
proved for all `n` with `LeastNumber`, that a set of numbers has a least one: the
library's induction theorems take an operator as a parameter, the well-foundedness of
the natural numbers takes a set. `LoopKeepsOrder` carries the place of each turn
along, so that the turns arrive each once and in order; `PayloadIsRedacted` and
`PayloadArrives` follow a message from there into the request, and
`RequestsAreBuiltOnce` says that no later step touches one.

**`StripeWrites_proofs`**, for all writes, accounts, amounts and windows.

| Theorem | Property |
|---|---|
| `KeysAreGuarded` | `IInv` |
| `RetriesChargeOnce` | `ChargedOncePerWindow` |
| `AnswersTellOfTheirWrite` | `SuccessIsOwnCharge`, if `DistinctKeys` |
| `RefusalsTellOfTheirWrite` | `MismatchIsOwnDoing`, if `DistinctKeys` |
| `RetriesImplementPromise` | `RetriesAreIdempotent`, if `DistinctKeys` |
| `PlainPartsMakeKeysDistinct` | `PlainParts => DistinctKeys` |

The invariant ties three places together: what travels is what its write sent
(`RequestsAreFaithful`), each charge in the window has its key kept
(`KeysGuardCharges`), each kept answer is of a charge (`KeptAnswersAreCharges`).
The first two need only that the key does not depend on the attempt
(`KeyOutlivesAttempts`). The next three need `DistinctKeys`, that no two writes to one
account have one key, which the library does not give (section 5). Callers can give
it: it is enough that no part of a key contains a colon and that each account is one
product's, which names no two of its writes alike (`PlainParts`); the proof takes the
keys apart from the end (`LastPartsCancel`, `SuffixesCancel`). `stripe_retries` has
such writes.

With distinct keys an answer, on its way or received, tells of the write it is held by
(`AnswersAreOwn`). The refinement maps `carried` to the charges without the attempts
that asked for them and `told` to the answers: `Send` is `Ask`, `CarryOut` is
`CarryOut`, a reply received is `Tell`, a process that forgets is `Forget`, and what
Stripe replays or expires is a stutter.

**`StripeWebhook_proofs`**, for all events, numbers of attempts and tolerances, with
clocks no further apart than the tolerance.

| Theorem | Property |
|---|---|
| `WebhookInvariant` | `IInv` |
| `HandledWasSent` | `HandledIsWhatWasSent` |
| `RepetitionIsBounded` | `DuplicatesDieOut` |

What is still on the network of a settled event is at least as old as its
settlement (`AttemptsPrecedeTheAck`), so it stops verifying when that is older than
the tolerance and the skew.

**`AccessTokens_proofs`**, for all processes, users, roles, routes, lives and skews.
`NoneAssumption` keeps the absent claim apart from present ones. `extra_claims` may be
anything, also a `type`; the theorems do not use `ExtrasAssumption`, which only says
that the model's value for an absent claim stands for a null one in `type` alone.

| Theorem | Property |
|---|---|
| `TokensAreGenuine` | `IInv` |
| `LivesAreBounded`, `FreshIsHonoured` | `TokensAreShortLived`, `FreshTokensAreHonoured` |
| `KindsAreTold` | `KindsStayApart` |
| `AdmissionIsEarned` | `AdmittedIsProven` |

Under one secret a service token whose maker set `type` passes for a challenge or a
user's token, and its challenge can be exchanged: that is what the code does (section 5),
and both properties name it as their only exception. `verify_service_token` needs none:
what it takes is a service token.

The invariant says of each token that its claims say what its history says
(`Genuine`) unless its maker overrode them, its dates by a clock within the skew
(`Dated`); what is left is the
arithmetic of rounded seconds and, for admission, the sum of two lives: a challenge
is exchanged before it dies, the access token it gives lives once more.

**`Pagination_proofs`**, for all limits, failures and finite sets of rows.

| Theorem | Property |
|---|---|
| `WalkInvariant` | `IInv` |
| `UndisturbedWalkIsExact` | `WalkIsExact` |
| `WalkLosesNoMoreThanMoved` | `LossIsBounded` |
| `AnswerIsOffByChanges` | `AnswerAddsUp` |
| `EveryPageLeadsOn` | `PagesLeadOn` |

`ChangesPayForLosses` divides the rows at the client's place: rows behind it that were
never given, rows before it that will be given again, and, once the total is counted,
rows that were moved past it. Each insertion or deletion moves at most one row over
that place (`InsertionPushesOne`, `DeletionPullsOne`), so each such row is paid for by
a change of its own, also when the page then makes a loss of it final. An undisturbed
walk is the case of no changes. A page is as long as the count says but for the
changes since (`CountIsRecent`, `SizeOfPage`), which is `AnswerAddsUp`. `PagesLeadOn` is
the measure behind `EveryWalkEnds`: the place grows with every page and is bounded.
The lemmas rest on the one that a table of `n` rows has exactly the places
`0 .. n - 1` (`OneRowAPlace`, `EveryPlaceIsTaken`).

**`Redaction_proofs`**, for numbers of any length and any texts around them that satisfy
`NumbersAssumption`, `BeforeAssumption` and `AfterAssumption`.

| Theorem | Property |
|---|---|
| `NumbersIntactOrTagged` | `IInv` |
| `NumbersAreRedactedWhole` | `NumbersGoWhole` |

After the last pass it is too late to see why a number went whole, so the invariant speaks
of every pass: the number stands in the text as it was and the pattern that fits it
is still to come, or the text holds one placeholder and no digit
(`IntactOrTagged`). Three things make it inductive.

* The loop of `pattern.sub` is a function on the positions of the text. That it has the
  values its equation gives (`LoopRuns`) and that up to the first match and behind the last
  one it keeps what is there (`FirstFit`, `NothingFits`) goes by the least position at
  which it would not (`LeastNumber`). So a pattern that fits nowhere changes
  nothing (`NoMatchNoChange`), and one that fits once leaves one placeholder
  (`OneMatchOneTag`).
* A pattern fits inside the number what it fits in the number alone (`FitsInside`), and
  every match starts at a digit (`MatchBounded`). The one that may reach further is a
  card's, by a separator in front of a word (`CardReaches`).
* An earlier pattern does not spoil a later one's number. For Aadhaar this is what
  `Enclosed` excludes. For a card in a phone number it is `PhoneHoldsNoCard`: a phone
  number has four groups of at most four digits, a word boundary inside it is next
  to a separator and so where a group starts or ends, and a card that starts or ends there
  would have to find thirteen digits in three groups (`PhoneParts`, `ThreeFours`).

**Only model-checked**: liveness (`EveryRequestAnswered`, `EveryEventSettles`,
`EveryWalkEnds`), since fairness is beyond the prover in use. The measure that makes a
walk end, `PagesLeadOn`, and the absence of circles of waiting, `NobodyIsStuck`, are
proved.

## 5. Divergences noted without a run

Where a docstring or a comment says more than the code does:

* `delete_account_service` tests `is_active` on the object its SELECT returned and takes
  the row lock later, in the UPDATE of its commit. Of two overlapping deletions both
  get 200 and both are audited, where `delete_account.py` line 65 raises "If user not
  found, already inactive" and `tests/test_delete_account.py` line 177 expects one
  event. The row itself is the same after one or both (`LoadedRowIsStaleOnlyByErasure`).
* An Anthropic answer with `"usage": null` ends in an AttributeError (`gateway.py` 346),
  not in `AIBadResponse`, "Provider returned non-2xx or unparseable body." (87). A body
  that is not UTF-8 ends in a UnicodeDecodeError (281) and a number of tokens `int()`
  cannot read in a ValueError or TypeError (291, 356). In the model these are the
  outcome `untyped`.
* `_log_usage` runs before those `int()` (287, 352) and logs what the provider sent: a
  null number is None in the log and 0 in the `ChatResult`, `"7"` stays a text in
  the log, and a call that raises at `int()` has been logged although its caller got
  nothing. `UsageIsAccounted` is stated for what the code does.
* A message whose content is a list of parts is posted as it came (`gateway.py` 215),
  where `redact_pii` is said to run "over every user/system message" (168-169).
  `RedactedTextLeaves` therefore speaks of `pii`, not of `parts`.
* Two products on one Stripe account that use an equal operation, entity type and entity
  id build one key (`stripe/client.py` 167), where the prefix is preserved "so a single
  Stripe account can host multiple products without key collisions" (163-165): the
  prefix is common to all of them. The second write is then told that it succeeded.
* `strip_protected_fields` removes "fields that must never be modified via update
  endpoints" (`tenant.py` 21), but `is_active` and `token_version`, on which the
  finality of a deletion rests, are not among them (17). An update endpoint that offers
  `token_version` and loaded its row before a deletion would overwrite the bumped
  version.
* `extra_claims` override `type`, `sub`, `iat` and `exp` (`service.py` 47-48), where
  the token is said to identify the calling service for a short time (40). Whoever has
  the service secret can sign anything anyway; the difference matters to a service that
  passes on claims it was given, and to a product with one secret for all kinds.
* A guard made before `set_user_dependency` never uses it (`rbac.py` 33), although line
  22 only says to override it. It admits nobody, so this fails closed.
* The Aadhaar pattern takes the first twelve digits of a card number in groups of four:
  `4111 1111 1111 1111` becomes `[REDACTED_AADHAAR] 1111`, and `111-4444-4444-4444` keeps
  its `111`. `redaction.py` 29-30 gives the order as the way not to tag twice, and lines
  7-8 prefer false positives to leaks. `NumbersGoWhole` excludes exactly these
  (`Enclosed`). A mobile number in groups of five (`98765 43210`) matches no pattern,
  although line 16 speaks of Indian mobile shapes, and a run of 21 or more digits keeps
  its first ones.
* `gateway.py` line 8 says the provider is chosen by a prefix of the model; `resolve`
  (130-139) never looks at the model.
* A null `content` from an OpenAI-shaped provider becomes `ChatResult(content=None)`
  (282), where the caller is promised text; `AI_MODEL_DEFAULT` is used with whatever
  provider was chosen; of several system messages Anthropic gets the last.
* `decode_access_token` accepts every kind of token signed with its secret; a product
  must tell them apart by `type`, as `get_current_user` of the model does.

## 6. Not modelled, and what is left

* `models.py`, the mixins and the Alembic template are declarations; nothing executes
  between them. `config.py`, `health.py`, `sentry.py`, `middleware.py` and the package
  exports read settings once, at start-up, and keep no state a later step reads.
* The lead router chooses between two assignees read from the environment.
* `hash_password`, `verify_password` and `validate_password_complexity` are functions of
  one string without state.
* The email and PAN patterns of `redaction.py`, the signs `+`, `(` and `)`, and several
  numbers in one text, which a pattern may join across a single separator.
* The gateway keeps no record of a call that timed out, so no property can say that a
  provider has not billed it: the hazard is listed without one.

What could follow: a composition of `AccessTokens` with the `token_version` of
`AccountDeletion`, which the library bumps and leaves to the products to compare.
