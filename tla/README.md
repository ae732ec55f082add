# Formal model of DecAustrum

DecAustrum is an authorization service for automated agents. A project asks it to
authorize an action; policies answer ALLOW, DENY or REQUIRE_APPROVAL; a human reviewer
resolves an approval; an approval yields a signed one-time execution grant that the
client consumes before it runs the operation. Every decision is appended to a hash chain,
every administrative change to an audit trail, and both feed a transactional webhook
outbox. The service is a FastAPI application over one SQLite file, used by request threads
and by separate webhook worker processes.

This directory holds TLA+ modules translated from the source, TLC configurations that
check them, and TLAPS proofs. `PROJECT.json` maps definitions to source lines and lists
runs, mutants, findings, hazards and theorems.

## How the code executes

* Layers: routers -> services -> `EvidenceStore` (`app/evidence_store.py`) -> repositories
  (`app/storage/*`) -> `SQLiteDatabase.connect()`.
* `with self.database.connect() as connection` gives Python's default transaction
  handling: a SELECT before the first write runs in autocommit; the first INSERT or UPDATE
  opens the one write transaction of the file, which lasts to the commit at the end of the
  block, and an exception rolls it back. So **each SELECT before the first write is a step
  of its own, and the writing part of a block is one atomic step**; other requests run and
  the clock moves between steps. `claim_due_deliveries` is the exception: BEGIN IMMEDIATE
  makes the whole claim one step.
* Timestamps are sampled in Python before these steps and stored or compared later. They
  are stored in ISO format, whose text order is the order of time.
* Triggers and UNIQUE/CHECK constraints are guards of the writing steps; an IntegrityError
  is a step that changes nothing and goes to its handler, or to nobody.
* A write lock held longer than the busy timeout, or a dying process, ends a request
  between two steps.

## Inventory

| Component | State | Operations | What is hard | What makes it correct |
| --- | --- | --- | --- | --- |
| Approvals and grants | `approval_requests`, `execution_grants`, audit rows | create, sweep, read, approve, reject, consume, execute | read-then-write races, stale timestamps, lost answers, migrated rows | one grant per approval, one token, one execution, one audit event per transition |
| Webhook outbox | `webhook_subscriptions`, `_events`, `_deliveries`, `_delivery_attempts` | publish, claim, send, record, cancel, redeliver, disable, rotate | overlapping leases, crashes, disable races, retries | exact attempt history, bounded failure cycle, at-least-once delivery |
| Authorization | `authorization_decisions`, `idempotency_records` | authorize | idempotency race, policies changing under a decision | one decision per key, replay returns it |
| Integrity ledger | `decision_integrity_records` | append, verify, backfill | concurrent appends, verification during appends | gapless unforked chain, one proof per decision |
| Policies | `project_policies`, `project_policy_versions` | seed, configure, rollback, disable, backfill | optimistic versions, stale rollback source, seeds racing administrators | gapless history whose head is the active policy, no lost update |
| Policy engine | none | `evaluate_policy` | operator types, precedence | agrees with a reference definition |
| Projects and keys | `projects`, `project_api_keys` | create, enable/disable, issue, revoke, authenticate, bootstrap | revocation during key derivation, check-then-create | a revoked key or disabled project authenticates nobody |
| Audit | `administrative_audit_events` | append, query | events decided from rows read before the write | an event for every version and every effective change |
| Evidence export | none (snapshot) | capture, bundle, verify | appends during an export | bundle is a prefix of the chain |
| Rate limiter | in-memory windows | check | - (one event loop thread) | at most `limit` per window |
| SDK | none | authorize, wait, guard | timeouts, lost answers | operation runs only after consumption |
| Schema and migrations | all tables | initialize, migrate, backfill | partial upgrades, concurrent startups | idempotent |
| Middleware, configuration, metrics, scripts | process-local | - | - | not modelled |

Components interact only through the database: the approval, policy, project and
subscription operations call `_record_administrative_change`, which appends the audit row
and the webhook event with its deliveries in the same transaction.

## Modules

### ApprovalGrants

One row `approval[d]` and at most one row `grant[d]` per decision, `audit[d][a]` counts
the audit events, `now` is the clock. A request `r` runs one handler once: `pc[r]` is its
place, `req[r]` its locals (`at` is the sampled time, `token` the token it carries or
returns), `sweep[r]` its expiration sweep, `resp[r]` its answer.

| Actions | Code |
| --- | --- |
| `Evaluate`, `SaveAuthorization` | `authorize_request`, `save_authorization_with_approval` |
| `SweepSelect`, `SweepUpdate` | `expire_due_approvals` / `expire_due_with_connection` |
| `ReadStart`, `ReadApproval` | list, count and get of approvals |
| `ApproveStart` ... `ConflictGrant` | `approve_approval_request`, `approve_approval_with_grant` |
| `RejectStart`, `RejectRead`, `RejectCommit`, `RejectRefused` | `resolve_approval_request`, `resolve_approval` |
| `ConsumeStart` ... `ConsumeRefused` | `consume_execution_grant_request`, `consume_execution_grant` |
| `GuardExecute` | `DecAustrumGuard.execute_approved` |
| `Abort`, `Tick` | crash or lock timeout; time |

A grant id is a fresh uuid4, so the approving request stands for it; a token is the id it
carries; the comparison of request fingerprints is its Boolean outcome. The clock does not
run backwards. Decisions belong to one project: every statement filters by project.

### ExecutionLicense

What the workflow promises: a license per decision is requested, granted or refused once,
spent once, and run by one executor. `ApprovalGrants` implements it under the mapping
`LicensePhase` (`ImplementsLicense`).

### WebhookDelivery

One delivery row per event and subscription, `log[d]` the outcomes of its attempts by
attempt number, `accepted` the deliveries a receiver answered with 2xx. `worker[w]` is one
`dispatch_pending_webhooks` call: start, claim, then for each claimed delivery the read of
its subscription, the send (or the cancellation), the read and the write of
`record_delivery_result`. `admin[a]` is one redelivery, disable or rotation request.

Time is relative here: stored timestamps are distances from now and a batch has an age, so
that the state space is finite although time never ends, which the liveness properties
need. Distances stop at `-MaxAge` and no batch gets older than `MaxAge`; a comparison of a
stored time with a dispatch time therefore has its true outcome. An event type is
"business" or "admin" (the events of the subscription operations themselves). The order of
a batch is left open; claims respect `ORDER BY next_attempt_at LIMIT`.

Not every send has a result that can be recorded, and nobody catches what then happens: the
batch and the worker process end, the delivery stays PROCESSING until its lease expires.

| Action | Code |
| --- | --- |
| `Send` | 2xx, another status, an answer that is lost, `WebhookTransportError`; `STATUS_ABOVE_599` is one the tables refuse |
| `SendRaises` | `connection.request` raises UnicodeEncodeError for a URL with a path or query outside ASCII (`Unencodable`), which `validate_webhook_url` accepts and the transport does not catch |
| `RecordRead` | `WebhookDeliveryStateError` if the row is not PROCESSING any more |
| `RecordFails` | IntegrityError: the attempt number is taken, or the status is not storable |

The outcomes HTTP_ERROR and NETWORK_ERROR act alike on the row and are one `FAILURE`.

### DecisionLedger

`decision`, `record`, `idem`, `approvals` and `events` are the rows an authorization
writes; `call[c]` is one `authorize_request`, `verifier[v]` one verification, `starter[s]`
one `EvidenceStore.initialize` of an API process or a webhook worker. `issued` remembers
the record hashes the application has stored, the heads a client may keep as checkpoints.

| Actions | Code |
| --- | --- |
| `CountDecisions`, `CountRecords`, `Backfill`, `Stop` | `backfill_existing_decisions`, a crash or lock timeout |
| `Receive`, `Fetch`, `Evaluate`, `Save`, `Recover`, `Fail` | `get_idempotent_authorization`, `authorize_request`, `save_authorization_with_approval` |
| `VerifyCounts`, `VerifyMatching`, `VerifyChain` | the three SELECTs of `verify` and the scan |
| `DatabaseWrite` | SQL that bypasses the application (external) |

A decision id is a fresh uuid4, so the call stands for it; `at` orders evaluations. Hashes
have no collisions: a payload hash is the payload, and a record hash, which covers the
previous record's hash, is the list of envelopes up to the record (appending is injective).
The algorithm and schema columns have one legal value (CHECK) and are left out. The policy
engine answers anything. `DatabaseWrite` stands for the documented threat model: a changed
decision, deleted rows, exchanged records, a recomputed chain. Properties about the
application's own behaviour are stated while no such write has happened (`Genuine`).

### EvidenceExport

Extends `DecisionLedger` with exports of a project's decisions; `exporter[v]` is one call
of an export route, whose verifications are steps of `verifier[v]`.

| Definitions | Code |
| --- | --- |
| `Capture`, `Snapshot` | `capture_records`: head and records in one read transaction, and its limits |
| `VerifySnapshot`, `VerifyCheckpoint`, `VerificationEnds` | `prepare_evidence_export`: the live ledger against the captured head, then against the request's checkpoint |
| `CreateBundle`, `ListChain`, `BuildBundle`, `Sealed` | `create_evidence_bundle`, `list_chain`, `build_evidence_bundle` |
| `VerifyBundle` and its parts | `verify_evidence_bundle` |
| `Archive`, `CanonicalJson` | `build_evidence_bundle_archive`: the ZIP members, the text of a record |
| `Loads`, `NdjsonParses`, `Loaded`, `EvidenceVerifier` | `load_evidence_bundle_archive` and `python -m app.evidence_verifier` |

A digest is represented by what it covers. Of the byte layout (JSON, NDJSON, CSV, ZIP) one
thing is kept, because reading does not undo writing there: a record's text may hold U+0085,
U+2028 or U+2029 (`Separated`), which JSON is written with as they are and `splitlines()`
cuts at. Ids, hashes and instants, all that `chain.ndjson` has, cannot hold them, and the
manifest is parsed as one text. Rows have no size: an export that is not empty may exceed a
limit. `Forgeries` are edits of a bundle outside the service, with and without fresh hashes
and digests; they are judged with their separators escaped (`Escaped`), as whoever writes
an archive outside the service may escape them.

### PolicyEngine, PolicyHistory, ControlPlane

Three layers of one specification. `PolicyEngine` has no state: `EvaluatePolicy`
translates `evaluate_policy` and the operators, and `Strictest` says what the decision is
meant to be. `PolicyHistory` has the policy tables and the policy requests, `ControlPlane`
adds projects, keys, starting processes and the requests that are authenticated with a key
and decided by the policies.

| State | Code |
| --- | --- |
| `project[p]`, `key[k]`, `policy[<<p, i>>]`, `versions`, `audit` | `projects`, `project_api_keys`, `project_policies`, `project_policy_versions`, `administrative_audit_events` |
| `changes` | history variable: who really changed which row |
| `admin[a]`, `starter[s]`, `request[r]` | an administrative request, a starting process, a `POST /v1/authorize` up to its decision |

| Actions | Code |
| --- | --- |
| `ReceiveConfigure`, `ReceiveRollback`, `ReceiveDisable`, `ReadPrevious` | the handlers of `services/policies.py` and the first SELECT of the store operations |
| `ReadHistorical`, `ReadCurrent` | `rollback_with_connection` |
| `ReadVersion`, `SavePolicy` | `save_with_connection` with the version row and the audit event |
| `ReadExisting`, `DisablePolicy` | `disable_with_connection`, `disable_project_policy` |
| `Initialize`, `BootLookup`, `BootProject`, `Enroll`, `SeedRead`, `SeedWrite`, `Stop` | `initialize` with the backfill of versions, `bootstrap_default_project`, `seed_project_policies`, a dying process |
| `CreateProject`, `ReceiveIssue`, `IssueKey`, `ReceiveStatus`, `ReceiveRevoke`, `ReadStanding`, `ChangeStatus`, `RevokeKey`, `AdminFails` | `services/projects.py` and the store operations; a lock timeout |
| `Lookup`, `VerifyKey`, `Recheck`, `Evaluate` | `get_active_project_by_api_key` around the key derivation, the role check, `list_active` and `evaluate_policy` |

A key stands for its selector and secret; a generated id or key is one no row and no
request names. A value in a context keeps its type and its place in the order of the type.
The decision itself is stored by `DecisionLedger`, which takes any outcome.

### MC modules

The `MC` modules add symmetry sets, subscription filters, and the policies and contexts
used in the configurations. Definitions marked "Mutant" are plausible errors that replace
the definition after them when the strength of the properties is tested.

## Runs

| Run | Instance | Result |
| --- | --- | --- |
| `approvals` | 1 new and 1 migrated decision, 3 requests, approval lifetime 2, grant lifetime 1, clock to 2 | all properties hold (1.2M states) |
| `stale_token` | 1 decision, 3 requests, approval lifetime 2, grant lifetime 1, clock to 3 | `ReturnedGrantIsActive` violated |
| `expire_race` | as `stale_token` | `ExpirationNeverFails` violated |
| `webhooks` | 1 event, 1 "*" subscription, 2 dispatchers, 2 administrators, 1 crash, 2 attempts, lease 1, age 2 | hold (304k states) |
| `webhook_liveness` | 1 event, 2 subscriptions, one of them `Unencodable`, batch 2, 2 dispatchers, 1 administrator, 2 attempts, lease 1, age 1 | hold under fairness (612k states) |
| `webhook_lost_send` | the same subscriptions, 1 dispatcher, 1 attempt | `ReceiversAreIndependent` violated |
| `webhook_disable_race` | 1 dispatcher, 2 administrators, 1 attempt | `DisabledHasNoQueuedWork` violated |
| `ledger_authorize` | 2 projects, 3 calls, 1 key or none, 2 requests, 2 migrated decisions, 1 startup | hold (533k states) |
| `evidence_export` | 1 project, 1 call, 1 migrated decision, 2 startups, 1 verification or export, 2 outside writes | hold (2.8M states) |
| `ledger_startup` | 1 call, 1 migrated decision, 2 startups | `RefusesOnlyPartialLedgers` violated |
| `control_plane` | 2 projects, 2 policy ids, 2 contents, 2 keys, 2 administrative requests, 2 startups, 1 authenticated request, versions to 3, a new or an old database | hold (1.8M states) |
| `audit_race` | as `control_plane`, 1 startup, versions to 1 | `EveryChangeAudited` violated |

Why the bounds suffice. A row is written by at most one winner and the others only read
it, so three requests show a winner, a loser that has already read, and a third that acts
on the outcome (consume after approve). The clock reaches the end of both lifetimes at
every place of a handler. A sweep finds at most one new approval due beside the migrated
one; for sweeps of many rows the theorems about rows, windows and audit events speak.

Two dispatchers with a lease shorter than a batch give every overlap of an old and a new
holder; a batch of two shows what an aborted batch leaves, also when one of the two aborts
it each time; two failures distinguish a retry from a dead letter. A crash is checked in
`webhooks` only: for the rows it is what a send that raises does in `webhook_liveness`,
the end of a batch with its claims left. `webhooks` has one delivery, which the events of
the administrators' own requests compete for; the invariants of a batch of two are checked
with the liveness property, and all of them proved for any number.

Three calls on one key are a winner, a loser that has passed the lookup, and a retry or a
conflicting request. Two outside writes are a change and the recomputation that hides it;
in `evidence_export` a decision commits before, between and after the transactions of the
export, and the chain has a record on each side of the captured head. Two startups race
for the backfill there: `LedgerIsAppendOnly` shows that neither takes a record of the other
back, and `LedgerIsChain` and `NoFalseAlarm` that the chain they leave beside calls is one and
verifies. `ledger_authorize` checks the chain with two projects and three calls; its one
startup is over before the first call. One of the two outcomes is `Separated` in
`evidence_export`, so bundles with and without a separator are returned and forged.

In `control_plane` two administrative requests give every race of two writers of a row
(the optimistic version admits one winner); with versions to 3 a policy is created, updated
and rolled back to a version that is not the last; the old database has a policy at version
2 without history, so that the backfilled history does not start at 1; two startups race for
the default project, its key and the first template, and with an administrator. A key can be
revoked at any place of a request. The contexts of the requests hold, violate, lack and
mistype a condition, and the two policies disagree in strictness. Each administrative
request runs once; the theorems below hold for any number of them.

Deadlock is not checked for approvals, where requests finish and the clock stops at
`MaxTime`, nor for the ledger, the exports and the control plane, where every call,
request and verification runs once.

Fairness (the two webhook runs with a liveness property only): time passes, and each
dispatcher goes on. The worker loops for ever (`run_webhook_worker`), `compose.yaml` restarts
it when an exception or a crash has ended it, each send has a timeout.
A crash is never forced and happens finitely often: a worker that always dies before it
records delivers nothing. Administrators and receivers have no fairness.

`EventuallySettled` says that no delivery is owed for ever (`Owed`: claimed, or queued for an
active subscription). It needs a condition that is not fairness: sends whose result cannot
be recorded (`SendIsLost`: `SendRaises`, or a status above 599) do not recur for ever. The
code has no such promise, and without it the property does not hold (disagreement 6). The
condition is about all deliveries, not about the one that is to be settled, because a lost
send ends the whole batch. What the property then says is that nothing else does it: neither
expired leases, a second dispatcher, a redelivery, a disabled subscription nor a batch that
was ended now and then.

### Disagreements found

1. *Spent token returned* (`stale_token`). An approve request that read PENDING and then
   finds APPROVED returns the persisted grant unseen; its sibling paths require an ACTIVE,
   unexpired grant. The token is useless, but the answer is 200 where a retry gets 409.
2. *Expiration race* (`expire_race`). The slower of two consume requests on an expired
   grant raises RuntimeError (500) instead of answering `execution_grant_expired`.
3. *Redelivery against disable* (`webhook_disable_race`). The delivery stays PENDING on a
   DISABLED subscription for ever. `EventuallySettled` therefore speaks of active
   subscriptions only.
4. *Startup refuses a complete ledger* (`ledger_startup`). The backfill counts decisions in
   one statement and integrity records in a later one. A decision committed in between by a
   serving process makes the counts differ, and `DecisionIntegrityMigrationError` ends the
   startup of, say, a webhook worker. Starting it again succeeds.
5. *Disable without an event* (`audit_race`). `disable_project_policy` decides on its
   audit event from a row it reads before the row it disables. A policy created between
   the two reads is disabled and no POLICY_DISABLED event is recorded. The converse (an
   event without a change, from two equal status changes) is harmless and not reported.
6. *One subscriber starves another* (`webhook_lost_send`). A URL with a path or query
   outside ASCII raises UnicodeEncodeError past the transport and ends the worker; the
   delivery is reclaimed after every lease, without backoff, attempt row or dead letter. The
   deliveries of its batch that come after it are not sent, and as all their leases expire
   together they meet it again in the next batch. The processing order is fixed (`ORDER BY
   created_at, delivery_id`), so this can last for ever. A status from 600 to 999 acts alike:
   it is a failed attempt for the dispatcher and breaks the CHECK of the attempts table, and
   nobody catches the IntegrityError.
7. *Bundles the verifier cannot read* (`evidence_export`). A decision whose agent, action,
   context or reason holds U+0085, U+2028 or U+2029 is exported with the character as it is;
   `_parse_ndjson` splits the record there and the offline verifier reports the archive of a
   verified bundle as malformed (exit code 2), while `docs/architecture.md` keeps that code
   for unreadable or malformed archives. `OfflineVerifierIsSound` states this exit code, and
   that the same archive with the character escaped verifies: the bundle is intact.

## Proofs

`ApprovalGrantsProofs` proves, for all sets of decisions and requests, all lifetimes and
any horizon (assumptions: lifetimes and horizon are naturals, lifetimes positive, migrated
rows are decisions and of one kind each, `NoRequest` is no request, there is a decision):

* `TypeCorrect`: `Spec => []TypeOK`;
* `RowsForward`: `Spec => RowsOnlyMoveForward`, from `TypeOK` alone, action by action;
* `Invariance`: the inductive invariant `Inv` below;
* `RowsCorrect`: `GrantMatchesApproval`; `ResolutionInWindow`: `ResolvedInWindow`;
  `ConsumptionInWindow`: `ConsumedInWindow`; `AuditTrailExact`: `AuditExact`;
* `TokenUnique`: `OneTokenPerDecision`; `ExecutionAtMostOnce`: `AtMostOnceExecution`.

`Inv` is `TypeOK`, the row properties, and two strengthenings. `Clock`: stored and sampled
times are not in the future, which makes an approval stamped before a request is received
end up requested no later than it is resolved. `Sessions` says what each request still
knows at its program counter: a running request names a saved approval requested no later
than its own time; a consume request carries the id of the persisted grant, issued no later
than its time; past the fingerprint check the fingerprint matched; a request answered
CONSUMED is the `consumer` in the grant row. Without the last part, two requests answered
CONSUMED for one decision cannot be excluded; without the times, `issued_at` and
`consumed_at` cannot be placed in their windows. `RowsForward` carries the facts about
other requests over a step (`SessionStable`).

Two more results of this module rest on `Inv`:

* `ConflictAnswersFinal`: `ConflictAnswersAreFinal`. A handler answers from what it read in
  an earlier step; `Knows` says what it may still rely on at each place, for instance that
  an approval it found due is among those its sweep expires.
* `HandlersImplementLicense`: the refinement `ImplementsLicense`. Every step of a handler is
  a step of `ExecutionLicense` under `LicensePhase` and the executors, or changes neither.
  A sweep expires many approvals at once, which the abstract lapse of a set allows.

`DecisionLedgerProofs` proves, for all sets of projects, calls, keys and requests
(assumptions: calls and migrated decisions are disjoint and finitely many, `None` is no
row, id, key or request):

* `IdempotencyCorrect`: `IdempotentAnswers`; `TransactionCorrect`: `OneTransaction`;
  `RefusalsCorrect`: `RefusalsAreReal`.

They follow from one inductive invariant, `Core`, under `Genuine`: an idempotency record
names a stored decision of its project on its request (`KeyNamesDecision`); a call about to
fetch, or to recover from a collision, refers to a record that is there, and an answer
still agrees with the rows (`CallKnows`); a call has stored its decision with everything
that belongs to it exactly if that decision is its answer (`Stored`). The properties alone
are not inductive: nothing in them says that the record a loser collided with still exists
when it looks again. `CallStep` treats all steps that only move one call; `CommitStep`
shows that storing a decision disturbs no stored decision and no taken key.

`ControlPlaneProofs` proves, for all sets of projects, policies, templates, keys,
administrative requests, starting processes and requests (assumptions: policy ids are
naturals, contents are definitions of policies, there are finitely many templates and they
have content, old databases hold well typed rows, requests and processes are disjoint,
`None` is no row, id, key, operation or answer):

* `HistoryGapless`: `HistoryIsGapless`; `UpdatesLand`: `NoLostUpdate`; `VersionsAudited`:
  `EveryVersionAudited`; `RevocationFinal`: `RevocationIsFinal`;
* `TypeCorrect`: `TypeOK`; `DecisionsReproducible`: `DecisionReproducible`.

The inductive invariant `Inv` (`ControlPlaneInvariant`) has these parts:

* `TableTypes`: tables, administrative requests and processes are well typed.
* `AdminsOK`: what a request knows at its place. Past `ReadVersion` its version follows
  the version it read; a rollback past `ReadHistorical` holds the content of an existing
  row; a request answered with 200 has `Landed` its version.
* `Historied`: there is no history and no process has started, or every policy is
  `Complete`: gapless, and its configured version is in the history. The second half is
  needed because "each row but the last has a successor" would give the last row only by
  induction over the numbers; with it a later `Initialize` provably backfills nothing.
* `SeedsOK`: a process about to seed that finds no row of the first template found none
  when it decided on the event. Without it a seeded version might have no event.
* `RequestsOK`: a request that verified a revoked key holds a revoked key, until the second
  SELECT refuses it.

Two lemmas carry it over the steps of others: nothing is taken back (`NothingTakenBack`:
versions, events and policies stay) and a key is neither deleted nor restored (`NextKeys`).
`VersionIsNew` is the core of the update argument: if the row still has the version that
was read, the history ends there, so the version row is new and no IntegrityError arises.

On top of `Inv`, `DecisionsExplained` shows `FiniteRows` (a project has finitely many
policies) and `QueriesOK`: a decision that was given is `Recorded`, that is, some list of
rows of the history of its project explains the decision, its citation and its trace.
`DecisionReproducible`, which looks versions up by number, is not inductive: that the row it
finds is the one the decision used follows only from the gapless history.

`PolicyEngineProofs` proves `DecidesStrictest`, about the function alone: for every list of
policies, action and context, `EvaluatePolicy` raises exactly if a condition of an
applicable policy cannot be evaluated; otherwise its decision is the strictest demanded
(DENY for an action without policies), it cites the first policy that demands it, and its
trace has the applicable policies in their order. The loop is a fold, whose definition
chooses a recursive function that must first be shown to exist. `SettledOnce` and
`SettledNext` say what the loop has found after any set of places; `WinnerSettled` builds
the function from that, and takes a smallest set of places where one would use induction
(`SmallerSets`). `WinnerIsStrictest` compares it with `Strictest`. From this and
`Historied` follows `DecisionsReproducible`.

`WebhookDeliveryProofs` proves, for all sets of events, subscriptions, dispatchers and
administrators, all subscription filters and all limits (assumptions: limits are positive,
bounds are naturals, `Unencodable` are subscriptions, `None` is no delivery or subscription):

* `TypeCorrect`: `TypeOK`; `AttemptsCounted`: `AttemptsMatchLog`; `FailuresCounted`:
  `FailureCycle`; `DeliveredIsAccepted`: `DeliveredOnEvidence`;
  `RotationsHandOutDistinctSecrets`: `RotationsDistinct`; `SettledFinal`: `SettledIsFinal`.

The dispatcher has no fencing token: one whose lease ran out may still record its result.
What saves the history is the UNIQUE attempt number, and the inductive invariant says why.
`Unrecorded`: if the attempt number that a dispatcher is about to write is still free,
nobody has recorded since it read the row, so the row is PROCESSING with the counts that
were read, or was cancelled meanwhile. Without it a late result could overwrite the counts
of a newer attempt. `History` relates a row to its attempts: their number, the failures at
the end since the last redelivery, and the success behind DELIVERED. `AdminOK` bounds the
secret a rotation returned by the present one, which makes the next one new. A send that is
lost records nothing, so these theorems need no condition on sends.

`LedgerTypeProofs` and `LedgerChainProofs` continue `DecisionLedgerProofs`:

* `TypeCorrect`: `TypeOK`, **whatever is written outside the application**. It needs that a
  call about to save has a decision to save (`CallTyped`), and that backfill and scans,
  which sort rows, give numbers and rows.
* `CheckpointCorrect`: `CheckpointHolds`, and `VerifiedIsIssued`: `VerifiedWasIssued`, also
  under any outside writes. If the first n rows of a scan are good, the hash of the k-th is
  the list of the first k decisions as they read now (`GoodRows`); a hash the application
  stored is therefore met only by the decisions it covered. `RecordsIssued` (every stored
  hash was issued, until a chain is recomputed outside) gives the second.
* `LedgerCorrect`: `LedgerIsChain`, and `NoAlarm`: `NoFalseAlarm`, under `Genuine`.
* `LedgerAppends`: `LedgerIsAppendOnly`, as long as nothing is written outside.
* `SingleStartupServes`: with one starting process, which may stop and start again,
  `RefusesOnlyPartialLedgers`. Disagreement 4 therefore needs a second process.

`ChainInv` is the inductive invariant of the last two: before a process serves there is no
record and no call; afterwards every decision has its record; a project's records are a
chain of all its decisions or of none (`ChainOf`); a startup past its counts still looks at
every project with decisions (`StartupKnows`). `LedgerIsChain` alone is not inductive: a
second startup could number migrated decisions behind served ones. For `NoFalseAlarm`,
`VerifierKnows` adds that the ledger only grew since a verification counted, and that its
checkpoint is among the records it counted. Arguments along a chain take the least
number at which a claim fails (`LeastNumber`) where one would use induction.

The three modules prove these facts for every `LedgerStep`: a step of `Next`, except that a
verification may start at any list of envelopes as its head (`StartsVerify`), while only
the application writes at any that was issued. An export verifies the ledger against a head it has read
itself, so its steps are ledger steps too; `NextIsLedgerStep` gives the theorems about the
specification of `DecisionLedger`, `LedgerInv` and `LedgerKeeps` are what `ExportProofs`
builds on.

`ExportProofs` proves, in addition to those assumptions from `None` being neither an
outcome nor a bundle and `Separated` being any requests and outcomes:

* `ExportTypeCorrect`: `ExportTypeOK`; `LedgerUnderExports`: every ledger theorem above but
  the last, while exports run;
* `ExportsComplete`: `ExportIsComplete`; `BundlesGenuine`: `BundleIsGenuine`;
  `OfflineVerifierSound`: `OfflineVerifierIsSound`.

The invariant `ExportInv` adds to `LedgerInv` what each export knows between its
transactions (`ExporterKnows`). While only the application writes: the chain up to the
captured head is still there, with the request's checkpoint in it (`HeadKnown`), and the
records are the matching decisions up to that head (`RecordsKnown`); decisions that commit
in between only lengthen the chain, by `LedgerIsAppendOnly`, which is why `SnapshotStays`.
Whoever writes: a captured head was issued unless a chain was recomputed, and a bundle that
exists has passed its own verification (`BundleKnown`). The three properties are not
inductive, as none of them says anything of an export before it ends. `BundleIsGenuine` and
`OfflineVerifierIsSound` come from one fact about chains, `LinkedHashes`: in a chain that
verifies, the k-th hash is the list of the first k envelopes, so a chain that contains a
trusted hash reads as it did when that hash was issued (`CheckpointReads`). It holds for
every bundle, altered or not. `DigestDecides` shows that an alteration that keeps the
digest is none. That the verifier judges the bundle that was written is a lemma of its own
(`LoadedIsWritten`); whether it gets to judge it is `ArchiveLoads`: exactly if no record holds
a separator, and always if the separators are escaped.

Only model-checked:

* `EventuallySettled`, with the condition above: liveness under fairness is outside the
  proof system;
* the violated properties of the section above, except where `SingleStartupServes` says
  when one of them holds.

## Plan

1. `ApprovalGrants`, `ExecutionLicense`, proofs with the refinement: done.
2. `WebhookDelivery`, proofs: done.
3. `DecisionLedger`, proofs of the idempotency protocol, the chain and the verification:
   done.
4. `PolicyEngine`, `PolicyHistory`, `ControlPlane`, proofs: done.
5. `EvidenceExport`, proofs: done.

## Not modelled

* Rate limiter, HTTP middleware, metrics and logging: counters of one process, used from
  one event loop thread without an await between read and write.
* Parsing and validation of settings, wiring, the readiness probe: no state.
* Migrations other than the backfills: they rewrite the schema in one transaction before
  the process serves, the retirement of unsalted key hashes among them.
* Rotation of the grant secret between an approval and its retry.
* Read-only queries and pages, except where a decision depends on what they read.
* Audit events of webhook subscriptions.
* Byte layout of exports but for the line separators, URL validation, TLS transport,
  cryptography: formatting, I/O or library behaviour.
* The SDK's HTTP client, models and polling; only the guard's execution is in
  `ApprovalGrants`.
* Build and repository scripts.
