# RelayMaid in TLA+

RelayMaid (`src/backend`) is a multi-tenant service that takes in webhooks,
stores them and will deliver them: a FastAPI application on asyncio with
PostgreSQL behind SQLAlchemy. These modules model its requests and their
transactions, and the migrations of its database. TLC checks them on small
instances; TLAPS proves the safety of every one of them, and that ingestion and
endpoint management keep their promises when they run over one database, for
instances of every size.

## The system

All state lives in PostgreSQL; the application itself keeps a connection pool, a
thread limiter and the tokens' signing secret. A request runs in one coroutine
and one transaction: `get_db_session` begins it, commits it when the route has
returned and *before* the response is sent (`scope="function"`), and rolls it
back when an exception leaves the route. Requests interact only through

* committed rows, as PostgreSQL shows them at READ COMMITTED: each statement
  sees what was committed when it started;
* locks: a unique key another open transaction has inserted, a row it has
  updated or deleted, a row it has locked through a foreign key;
* the pooled connections, whose settings `relaymaid.user_id` and
  `relaymaid.organization_id` drive the row-level security policies;
* the threads in which passwords are hashed.

| Component | State | Operations | Hard behaviour | What makes it correct |
|---|---|---|---|---|
| Webhook ingestion (`services/webhook_ingestion.py`) | `events`, `outbox_messages` | authenticate, persist | concurrent duplicates, lost answers and redelivery, disabling and deleting the endpoint meanwhile | one event per key, its outbox row with it, every answer names it |
| Endpoint management (`services/webhook_endpoints.py`, its routes) | `webhook_endpoints` | create, list, get, patch, delete | read-modify-write without a lock, DELETE against foreign keys, pages cut in separate transactions | no column lost, no row revived, no foreign tenant's row; a walk misses only what deletions shift |
| Authentication (`services/authentication.py`, `api/dependencies/auth.py`) | `users`, `memberships`, tokens, connection settings | login, principal, require_owner | state read before a thread hop, tokens that outlive roles, contexts on pooled connections | what counts is what the user was since the request came in |
| Registration (`services/registration.py`) | `users`, `organizations`, `memberships` | register | two registrations of one address, lost answers, two flushes | all three rows or none, one account per address, true answers |
| Migrations (`migrations/env.py`, `migrations/versions/`) | the catalog, `alembic_version` | upgrade, downgrade | two deployments at once, deadlock, crash, order of dependencies | the schema is the one the version names |
| Row-level security (`migrations/`, `db/tenant_context.py`) | settings, policies | set context | what a setting reads as after it reverted | a row is seen under its own tenant only |
| Signatures, destination URLs, secrets, passwords, schemas | none | pure functions | boundaries | |
| Start-up, settings, engine, health | engine, pool | once, or stateless | | |
| Dispatcher, queue, delivery workers | — | in `docs/` only: no code yet | | |
| `.github/scripts/ai_review.py` | comments on GitHub | upsert | paging, repeated runs | |

`PROJECT.json` lists every component with its status and, under `hazards`, the
lines where each hard behaviour bites and the properties that cover it.

## The modules

| Module | Models | Reads as |
|---|---|---|
| `Rls` | policies and `relaymaid_current_*_id()` | operators on the raw value of a setting: `Null` never set, `Empty` reverted |
| `IngestionSpec` | nothing in the code: what ingestion promises | a key is accepted once, queued at once, answered consistently |
| `Ingestion` | `authenticate_incoming_webhook`, `persist_webhook_event`, the transaction around them | one action per SQL statement |
| `IngestionProofs` | — | proofs about `Ingestion` |
| `WebhookEndpoints` | the five routes and services of endpoint management | one action per SQL statement |
| `WebhookEndpointsProofs` | — | proofs about `WebhookEndpoints` |
| `Service` | ingestion and endpoint management over one `webhook_endpoints` | composes the two modules by `INSTANCE` |
| `ServiceProofs` | — | proofs about `Service`, from the lemmas of both |
| `Pagination` | `limit`, `offset` and `has_more` of `list_webhook_endpoints` | one action per page, creation and deletion |
| `PaginationProofs` | — | proofs about `Pagination` |
| `RegistrationSpec` | nothing in the code: what registration promises | an account is opened at once and whole, answers are true |
| `Registration` | `POST /auth/register`: `register_owner` in its transaction | one action per flush, thread hop and pool checkout |
| `RegistrationProofs` | — | proofs about `Registration` |
| `Authentication` | `authenticate_user`, `get_current_principal`, `require_owner` | one action per statement, thread hop and pool checkout |
| `AuthenticationProofs` | — | proofs about `Authentication` |
| `Migrations` | the ten revisions, and alembic's runs over them | one action per DDL statement |
| `MigrationsProofs` | — | proofs about `Migrations` |
| `Deadlines` | the timestamp window of signatures, the life of tokens | operators and their theorems, no state |
| `MC...` | — | symmetry and values for TLC |

In those with requests a *request slot* `r` has a program counter `pc[r]` that names the
statement it executes next; a slot is reused when its request has ended, so that
every behaviour has any number of requests. A step stands for everything the
code does up to its next `await`. `PROJECT.json` maps each definition to the
lines it translates. Definitions called *Variant of X* take no part in the
specification: they say what a plausible mistake in `X` would look like, and for
each property one of them violates it.

### Ingestion

`Receive` (a sender delivers; any sender may deliver the same event again, or
twice at once), `Authenticate` (the resolver function sees committed, enabled
endpoints; signature and timestamp are reduced to whether they verify),
`SetTenantContext`, `InsertEvent` (INSERT ... ON CONFLICT DO NOTHING up to its
unique index: it waits for a transaction in flight that holds the key),
`CheckForeignKey` (the rest of that INSERT: it waits for an open DELETE of the
endpoint and then locks the row), `SelectExisting` (the INSERT returned no row),
`FlushOutbox`, `Commit`, `Respond`. Any exception is `Raise`, then `Unwind`.

At this commit no route calls the two functions yet. The module runs them as
`DatabaseSession` runs every route there is, and as their tests do: both in one
transaction, committed before the answer.

Failures: `LoseConnection` leaves an orphaned transaction with its locks until
`AbortOrphan`; `CommitUnacknowledged` commits and reports an error;
`LoseResponse` loses the answer to a committed request. A crash of the process is
these for every request in flight. `CreateEndpoint`, `SetEnabled`, `BeginDelete`
and `EndDelete` are the owner's POST, PATCH and DELETE, the last with its
transaction open in between: the environment, until `Service` puts the management
API in its place.

`IngestionSpec` has three sets: `accepted`, `queued`, `answered`. The refinement
maps them to the committed events, the events named by the committed outbox and
the history of answers; a COMMIT of a new event is `Accept`, a response is
`Answer`, everything else is invisible.

### Endpoint management

`Create`, `List`, `Get`, `LoadForPatch` and `FlushPatch`, `Delete`, `Commit`,
`Respond`, with `Abort` for a lost connection and `StoreEvent` for an event that
ingestion commits. A row under change is `pending` at its `writer`; others see
`rows` and wait where they write. `FlushPatch` writes the columns whose value
differs from the row that was *read* into the row that is *there*: SQLAlchemy's
UPDATE. What a PATCH answers is its copy in memory.

### The service

`Service` has one table of endpoints, with the locks on its rows, and both kinds of
requests. To `Ingestion` an endpoint is `absent`, `enabled`, `disabled` or
`deleted`, and being deleted while an open transaction holds a DELETE of it
(`Status`, `Deleting`); to `WebhookEndpoints` it is referenced once a committed
event names it (`Referenced`). `IngestionStep`, `ManagementStep` and `FailureStep`
are the steps of the two modules; added to them is what only shows between them: a
DELETE waits for the row locks of foreign keys (`DeleteMayRun`), and a commit that
enables an endpoint makes the deliveries under way admissible (`Admit`).
`OrganizationOf`, which `Ingestion` takes as given, is here which organization
will draw an id (`DrawsOwnIds`). The refinement mappings are the substitutions of
the two `INSTANCE`s.

### Pagination

A row's `created_at` is `now()`, the start of its transaction, and a page shows what
is committed when it is read: `BeginCreate` and `CommitCreate` are apart, so that a
creation can land in the middle of what the client has read. `ReadPage` is one
`GET` with the next offset, `StartWalk` the client that begins again. `stayed`,
`inserted`, `removed` and `recent` are history: what was there all along the walk,
and how much came and went. Ids are natural numbers, as only their order matters,
and `Repeats` has one pair for each time a row is shown after its first.

### Registration

`Receive` (the address as the client typed it; `Normalized` is `normalize_email`),
`StartHashing` and `FinishHashing` (the thread; no connection is held yet, and both
ids are drawn when the hash is there), `SetUserContext` (the first statement, which
takes the connection), `SetTenantContext`, `InsertUserAndOrganization` (the first
flush: waits for a transaction in flight with the same address, a 409 once that has
committed), `InsertMembership` (the second flush), `Commit`, `Respond`; with
`PoolTimeout`, `LoseConnection`, `AbortOrphan`, `CommitUnacknowledged` and
`LoseResponse`. The two ids of an attempt are drawn at the same moment and each is
used for one kind of row, so that one value of `Ids` stands for both.

`RegistrationSpec` has `accounts`, `created` and `conflicts`. An account is a
committed user with its membership and organization; a COMMIT is `Open`, a 201 is
`Confirm`, a 409 is `Refuse`.

### Migrations

The catalog is a set of objects; each knows what it is `on` (it goes with that) and
what it `uses` (that cannot be dropped before it). The scripts are sequences of
statements, one per `op` of the source. `Start` reads `alembic_version` once;
`Execute` waits for what other runs hold, sees what is committed now, and fails the
run if the catalog does not let it; `UpdateVersion` follows each script and fails
unless it concerns exactly one row; `Commit` ends the one transaction that
`do_run_migrations` opens for all of it. `Crash` and `BreakDeadlock` roll back.
`origin`, the revision a run has started from, is history. Row-level security and
its FORCE are objects on their table, the revoked privilege is one on its function;
`RevisionIn` is what alembic reads in a catalog.
A statement takes all of its locks at once, every DDL lock excludes every other one,
and the data in the tables and the locks of requests are not modelled.

### Authentication

A login is `Connect`, `FindUser`, `StartVerifying`, `FinishVerifying`,
`SetUserContext`, `SelectMemberships`, `SetTenantContext`, `Commit`, `Respond`; an
access with a token is `Decode`, `Connect`, `SetUserContext`, `SetTenantContext`,
`SelectPrincipal` (with `require_owner`, there is no await between them),
`Commit`, `Respond`. `grant[r]` is what the request was found entitled to: the
token to be, or the principal. `SetActive` and `SetRole` change accounts at any
moment: there is no code for it, the tests and ADR-002 do it. `seen[r]` is a
history variable: everything that the request's user has been, while active,
since the request came in.

## What the checks show

| Run | Instance | Shows |
|---|---|---|
| `ingestion_race` | 3 requests, 1 endpoint, 1 key, 2 event ids, 2 failures | the safety of ingestion, the inductive invariant, and that it implements `IngestionSpec` |
| `ingestion_tenants` | 2 requests, 3 endpoints, 2 organizations, 3 event ids, 1 failure | equal external ids of different endpoints and tenants stay apart |
| `endpoints_safety` | 2 requests, 1 endpoint id, 2 organizations, 2 columns of 2 values | isolation of tenants, no lost column, no revived row, no deleted reference; the inductive invariant |
| `service` | 2 slots for either kind of request, 1 endpoint id, 1 key, 2 event ids, 1 failure, fairness | ingestion and endpoint management are each other's environment; every wait for a key, a row or a foreign key ends |
| `registration` | 2 requests, 2 spellings of 1 address, 3 ids, 1 thread, 2 connections, 2 failures, fairness | one whole account per address, true answers, the inductive invariant, that it implements `RegistrationSpec`, and that every registration ends |
| `authentication_safety` | 2 requests, 1 user, 1 organization, 2 connections, 1 thread, 3 changes | stale tokens and stale reads grant nothing; the inductive invariant |
| `authentication_pool` | 2 requests, 1 user, 2 organizations, 1 connection, 1 thread, 1 change, fairness | no context outlives its transaction; every wait for a connection or a thread ends |
| `pagination` | 4 rows, pages of 2, 3 readings of the clock | a walk misses at most as many rows as were deleted, repeats at most as many as were created, and is sent to an empty page only by a deletion; the inductive invariant |
| `migrations` | 2 runs between revisions 0, 2, 3 and 10, fairness | the schema is always that of the version, a run on its own never fails, and no two wait for each other for ever; the inductive invariant |

Why the bounds are enough. Ingestion: three requests give a winner, a loser that waits and a
third that comes after a rollback; two event ids allow one key to get two
different ones if it could; two failures allow a commit whose acknowledgement is
lost and then a lost answer to its retry. Two organizations, and two endpoints of
one of them, are needed for a wrong answer to come from either. Two columns allow
one PATCH to undo the other's, two values allow every column to change and change
back. One id for endpoints is enough because ids are never used again. In `service` each slot serves a delivery as well as any
operation, so that two make every pair of them meet, one after another in one slot
too. A second event id makes it possible to store a second event, a failure makes
either side die with its locks. Registration: two requests are a winner and a loser,
two failures let a first attempt die unacknowledged and its retry's answer get lost;
the third id leaves one for the retry while two are taken; two connections let the
loser wait at the constraint while the winner holds its own. Authentication: one
connection makes everyone use the one that may hold another's context, and two
organizations let such a context hide one of two memberships; three changes allow
add, demote and remove during one request. Pagination: four rows make two full
pages, with one to delete and one to create between them; with three readings of the
clock a creation can be older than, as old as and newer than both of its neighbours.
Migrations: from base to head and back every statement of every script is executed;
between revisions 2 and 3 an upgrade and a downgrade lock two objects in opposite
orders. Two runs are enough for one to change what the other one relies on.

### Findings

* `endpoints_gone`: a DELETE that commits between the SELECT and the flush of a
  PATCH makes the PATCH fail with `StaleDataError`, a 500, where its docstring
  promises `WebhookEndpointNotFoundError`.
* `endpoints_stale_answer`: the answer to a PATCH is not "the updated instance"
  when another PATCH changed a different column after it was read. What is
  stored is right (`NoColumnIsLost`); the answer is not.

  Both are about a PATCH that writes. One without a net change executes no UPDATE and
  is answered 200 with what it has read, be the row changed or deleted by then: as if it
  had come first.
* `authentication_context`: ADR-002 and API_CALL_LIFECYCLE.md have the validated
  principal establish the tenant context; the code sets it from the token's
  claims before it validates them. `AccessIsCurrent` shows that this grants
  nothing.

### Fairness

Weak fairness of every step of a request: asyncio runs what is ready, PostgreSQL
answers statements and notices dead connections. Strong fairness where a request
queues behind others that may overtake it in the model but not in the system:
`Connect` and `SetUserContext` (SQLAlchemy's pool is a FIFO queue),
`StartVerifying` and `StartHashing` (anyio's limiter is FIFO),
`InsertUserAndOrganization` (who waits for a key waits for the transaction that
holds it), and the steps of `Service` and `Migrations`, whose waits are all for locks:
PostgreSQL's lock queues. One case of it is an assumption rather than a queue: a
DELETE of an endpoint that new deliveries keep locking FOR KEY SHARE is taken to
find it free at some time. `BreakDeadlock` is weakly fair: PostgreSQL looks for
cycles after `deadlock_timeout`. Nothing that arrives from outside, no crash and no
other failure is fair.

## What is proved

From the assumptions on the constants alone (every endpoint has an organization,
normalizing twice is normalizing once, `Null` and `Empty` are no values, the ids of
one organization's endpoints are finitely many and ordered, a page has 1 to 100 rows,
targets are among the ten revisions and base). For each
component: `Spec => []Inv` for its inductive invariant, with one lemma per action and
a step per conjunct; from it each safety property of its runs; from it and the same
case analysis the refinements.
The runs check the inductive invariants too; those of `pagination` and `migrations` check
`TypeOK` as a conjunct of theirs.

`IngestionProofs`: the safety properties of `ingestion_race` and that `Ingestion`
implements `IngestionSpec`. The properties are not inductive by themselves. That
keys are unique needs to know that what is in flight differs from what is
committed and from everything else in flight (`DraftsAreNew`); that answers are
stable needs that a request about to answer holds the id of a committed event of
its key (`RepliesAreCommitted`), which for the loser of a race needs that its
winner is visible under its tenant (`ContextEstablished`); that outbox and events
match needs that nobody commits an event without having flushed its outbox row
(`DraftsBelong`); that endpoints are kept needs the row lock
(`DraftsKeepTheirEndpoint`).

`WebhookEndpointsProofs`: `TypeOK`, `TenantsAreIsolated`, `DeletedStaysDeleted`,
`ReferencedIsKept` and the action property `NoColumnIsLost`. That no column is lost
needs to know what a writer holds pending: the committed row with only the columns
changed that it was asked to change (`WritesAreOwn`), which holds because the row it
read may be stale but the row it writes to is locked until it commits.

`ServiceProofs`: `Spec => []ServiceInv`, and that `Service` implements both
`Ingestion` and `WebhookEndpoints`. Every step of either module is a step or a
stutter of the other under its mapping; a COMMIT of an endpoint operation is the
owner's `CreateEndpoint`, `SetEnabled` or `EndDelete`, a DELETE that executes is
`BeginDelete`, a COMMIT of an event is `StoreEvent`. That the mapped step is allowed
needs the invariants of *both* modules at once: that a DELETE finds no event in
flight for its endpoint, that an event in flight holds a row that is there. The
invariants are carried over by citing the lemmas of both proof modules under the
substitutions, so that all that is proved of the two holds of the service.

`RegistrationProofs`: the safety properties of `registration` and that
`Registration` implements `RegistrationSpec`. That addresses stay unique needs that
what is in flight differs from what is committed and from the rest in flight, in
address and in id (`AttemptsAreNew`); that an account is whole needs that nobody
commits without having flushed the membership, under contexts that are its own
(`RequestsAreWhole`); that answers are true needs that a 201 or a 409 is decided
only by what has been committed (`OutcomesAreCommitted`).

`AuthenticationProofs`: `TypeOK`, `AccessIsCurrent`, `TokensAreEarned` and the action
property `OnlyMembershipIsInferred`. That a login
sees all memberships of its user needs that no tenant context is on its connection
(`ContextsAreOwn`), which needs that a connection is clean in the pool and that
nobody else has it meanwhile (`ConnectionsAreOwn`). That a grant is current needs
that whatever the user is at this moment has been seen (`CapabilitiesAreSeen`) and,
for the login, that what it loaded before the thread hop had been seen then
(`LoginsAreEarned`).

`PaginationProofs`: `TypeOK`, `RepeatedOnlyByCreations`, and the action properties
`MissedOnlyByDeletions` and `NoEmptyNextPage`, for any number of endpoints and any
page size. A row's position is the number of rows before it, so that the proofs are
about cardinalities; they rest on lemmas of the order (different rows have different
positions, and every number below that of the rows is one) and of what one creation or
one deletion does to the positions of the others.
`PaginationInv` has to say where every row is that was or was not shown:

* `EachMovesOne`, the heart of it: a row that was there all along and is in front of
  the offset without having been shown (`PassedOver`) has got there by a deletion, each
  of which moves at most one row across; a row that was shown and is behind the offset
  (`ShownAhead`) has got there by a creation, and it is those that can be shown again.
  A page trades rows in `ShownAhead` for rows in `Repeats`, one for one.
* `MoreIsThere`: `has_more` was true when it was sent, and each deletion since takes
  away one row.
* `UncommittedIsUnshown`, without which a late creation could bring a repetition with
  it; `PagesAreCounted` and `ChangesAreCounted`, which bound what `TypeOK` bounds.

`MigrationsProofs`: `TypeOK`, `SchemaMatchesVersion` and `FailsOnlyWhenOvertaken`, for
any number of runs at once between any revisions. The proof has two halves.

The first is about the scripts and has no state. `Born` gives each name the one
revision that makes it. For each of the ten revisions two lemmas go through its
scripts: `UpgradeIsSound`, each statement makes something new and finds what it is on
and uses, and `DowngradeIsSound`, each statement drops something of this revision,
all of it goes, and each before what it uses. From these twenty follows, for all revisions,
what a run may see in the middle of a script (`UpgradeSees`, `DowngradeSees`) and that
the next statement is possible there (`UpgradeFinds`, `DowngradeFinds`, `VersionFinds`).
A new revision needs its two lemmas; the rest stays as it is but for the number ten.

The second is about the runs. `MigrationsInv` says of each run (`RunInv`), relative to
the committed catalog:

* `UpgradesAdd` and `DowngradesRemove`: what it has made and dropped is what the scripts
  from its origin up to its position say, whatever others have committed meanwhile.
* The locks in both: what it has made or named in a DROP it has locked, so that no other
  run can commit something that is on it.
* The clause on `organizations` in `UpgradesAdd`: the first row of `alembic_version` is an
  INSERT, which no missing row can make fail. That nobody else has inserted one follows
  from the first script having been possible.
* `LocksVersion`: from its first change of `alembic_version` on it holds that row's lock,
  and the committed revision is its origin. So an overtaken run can change the version
  only if the revision is its origin again, and no other run can then commit one before
  it ends; and a run that has not been overtaken sees exactly the schema that its script
  expects.
* `IsOnItsWay`, `KeepsVersionTable`, `IdleHoldsNothing`: where a run can be, that the version
  table outlives all of it, and that nothing is left behind by a run that ended.

`OthersKeep` is the step that matters: the COMMIT of one run keeps `RunInv` of every
other one over the new catalog.

`Deadlines` has no state, so that nothing is model-checked: its theorems bound, for
all times, what truncating clocks to seconds does. A delivery within the tolerance is
accepted and one that is a second beyond it is refused; a token is accepted at once,
until less than a second before its lifetime ends, and never after it.

Only model-checked: liveness (`EveryRequestEnds`, `EveryRunEnds`), which the prover does
not support, and the three findings, which are counterexamples.

## Not modelled

* Cryptography and the syntax of headers: a signature verifies or not, a password is
  right or not. The clocks are apart from it, in `Deadlines`: `Ingestion` and
  `Authentication` let a timestamp or a token be found too old at any use.
* `validate_destination_url` and pydantic validation, but for the rules of a PATCH
  body and `normalize_email`: predicates on text, without state.
* Start-up, settings and health probes: they run once, or keep nothing.
* The dispatcher, the queue and the delivery workers: `docs/` describes them, no code
  at this commit reads `outbox_messages` or changes `events.status`.
* `.github/scripts/ai_review.py`: a workflow's sequential script, not the service.
* Migrations under load: requests that run while a migration changes their tables.
  Alembic's offline mode, which prints SQL.
