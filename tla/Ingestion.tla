----------------------------- MODULE Ingestion -----------------------------
(***************************************************************************)
(* Webhook ingestion: authenticate_incoming_webhook followed by            *)
(* persist_webhook_event in the one transaction that get_db_session wraps  *)
(* around a request, for any number of requests in flight at a time.       *)
(*                                                                         *)
(* A request is cut at its awaits: each SQL statement is one step, and     *)
(* between two steps every other transaction may run.  PostgreSQL is read  *)
(* at READ COMMITTED: a statement sees the rows committed when it starts;  *)
(* an INSERT whose key another open transaction has already inserted waits *)
(* for that transaction; the foreign key of an event waits for an open     *)
(* DELETE of its endpoint, and that DELETE for the foreign keys taken.     *)
(***************************************************************************)
EXTENDS Rls, Naturals, FiniteSets

CONSTANTS
    Requests,       \* request slots: one is reused when its request has ended
    Endpoints,
    Organizations,
    ExternalIds,    \* external_event_id, chosen by the sender
    EventIds,       \* the uuid4 values of Event.id
    OrganizationOf, \* webhook_endpoints.organization_id, which never changes
    MaxFailures     \* bound on lost connections and lost answers

ASSUME OrganizationOfAssumption == OrganizationOf \in [Endpoints -> Organizations]
ASSUME MaxFailuresAssumption == MaxFailures \in Nat
ASSUME SettingAssumption == Null \notin Organizations /\ Empty \notin Organizations

\* An incoming POST: the endpoint its public id names, the sender's id for the
\* event, and whether timestamp and signature verify under the endpoint's secret.
Delivery == [endpoint : Endpoints, external : ExternalIds, genuine : BOOLEAN]

\* uq_events_organization_endpoint_external_event
EventKey == [organization : Organizations, endpoint : Endpoints, external : ExternalIds]
EventRow == [id : EventIds, key : EventKey]
OutboxRow == [organization : Organizations, event : EventIds]

ASSUME NullAssumption ==
    Null \notin Delivery /\ Null \notin EventRow /\ Null \notin EventIds

KeyOf(d) == [organization |-> OrganizationOf[d.endpoint],
             endpoint |-> d.endpoint, external |-> d.external]

VARIABLES
    events,     \* committed rows of events
    outbox,     \* committed rows of outbox_messages
    status,     \* committed state of each endpoint
    deleting,   \* endpoints whose DELETE has run in a transaction still open
    pc,         \* the statement each request executes next
    delivery,   \* what each request carries
    tenant,     \* relaymaid.organization_id in each request's transaction
    draft,      \* the event row a request inserted and has not committed
    queued,     \* requests whose open transaction holds its outbox row too
    reply,      \* the event the PersistedWebhookEvent of a request refers to
    failure,    \* why a request is unwinding
    answered,   \* history: every [key, id] that reached a sender
    admissible, \* history: requests whose endpoint was enabled since they came
    failures    \* failures injected so far

tables == <<events, outbox>>
endpointVars == <<status, deleting>>
requestVars == <<pc, delivery, tenant, draft, queued, reply, failure>>
vars == <<events, outbox, status, deleting, pc, delivery, tenant, draft, queued,
          reply, failure, answered, admissible, failures>>

\* Steps at which a request's transaction is open.
OpenSteps == {"resolve", "context", "insert", "foreign_key", "select", "flush", "commit"}
Steps == OpenSteps \cup {"idle", "committed", "unwinding", "orphaned"}

Statuses == {"absent", "enabled", "disabled", "deleted"}
Failures == {"unavailable", "invalid_signature", "policy_violation",
             "foreign_key_violation", "not_loadable", "connection_lost"}

TypeOK ==
    /\ events \subseteq EventRow
    /\ outbox \subseteq OutboxRow
    /\ status \in [Endpoints -> Statuses]
    /\ deleting \subseteq Endpoints
    /\ pc \in [Requests -> Steps]
    /\ delivery \in [Requests -> Delivery \cup {Null}]
    /\ tenant \in [Requests -> Organizations \cup {Empty}]
    /\ draft \in [Requests -> EventRow \cup {Null}]
    /\ queued \subseteq Requests
    /\ reply \in [Requests -> EventIds \cup {Null}]
    /\ failure \in [Requests -> Failures \cup {"none"}]
    /\ answered \subseteq [key : EventKey, id : EventIds]
    /\ admissible \subseteq Requests
    /\ failures \in 0..MaxFailures

\* An idle slot holds Empty: the pooled connection it will check out has served
\* before, and its reverted setting reads as '' (Null would behave the same).
Init ==
    /\ events = {}
    /\ outbox = {}
    /\ status \in [Endpoints -> Statuses \ {"deleted"}]
    /\ deleting = {}
    /\ pc = [r \in Requests |-> "idle"]
    /\ delivery = [r \in Requests |-> Null]
    /\ tenant = [r \in Requests |-> Empty]
    /\ draft = [r \in Requests |-> Null]
    /\ queued = {}
    /\ reply = [r \in Requests |-> Null]
    /\ failure = [r \in Requests |-> "none"]
    /\ answered = {}
    /\ admissible = {}
    /\ failures = 0

-----------------------------------------------------------------------------
(* Helpers *)

\* The endpoint has a committed row.
Exists(e) == status[e] \in {"enabled", "disabled"}

RequestKey(r) == KeyOf(delivery[r])

GoTo(r, step) == pc' = [pc EXCEPT ![r] = step]

\* The next statement of a request, with no other effect.
Proceed(r, step) ==
    /\ GoTo(r, step)
    /\ UNCHANGED <<tables, endpointVars, delivery, tenant, draft, queued, reply,
                   failure, answered, admissible, failures>>

\* COMMIT and ROLLBACK alike end the transaction: uncommitted rows leave its
\* hands, its locks are released and its transaction-local settings revert.
EndTransaction(r) ==
    /\ draft' = [draft EXCEPT ![r] = Null]
    /\ queued' = queued \ {r}
    /\ tenant' = [tenant EXCEPT ![r] = Empty]

\* A statement fails, or the code raises: session.begin() rolls back.
Raise(r, why) ==
    /\ EndTransaction(r)
    /\ GoTo(r, "unwinding")
    /\ reply' = [reply EXCEPT ![r] = Null]
    /\ failure' = [failure EXCEPT ![r] = why]
    /\ UNCHANGED <<tables, endpointVars, delivery, answered, admissible, failures>>

\* The slot is free again.
Release(r) ==
    /\ GoTo(r, "idle")
    /\ delivery' = [delivery EXCEPT ![r] = Null]
    /\ reply' = [reply EXCEPT ![r] = Null]
    /\ failure' = [failure EXCEPT ![r] = "none"]
    /\ admissible' = admissible \ {r}

Fail ==
    /\ failures < MaxFailures
    /\ failures' = failures + 1

\* Variant of InFlight: a SELECT before the INSERT instead of the unique constraint.
NothingInFlight == {}

\* Rows that transactions in flight have inserted into events.
InFlight == {draft[r] : r \in {q \in Requests : draft[q] # Null}}

FreshIds == EventIds \ {row.id : row \in events \cup InFlight}

\* Variant of ExistingEvents: the WHERE clause forgets the endpoint.
ExistingByExternalId(r) ==
    {row \in events : /\ TenantPolicy(row.key.organization, tenant[r])
                      /\ row.key.external = RequestKey(r).external}

\* SELECT ... WHERE organization, endpoint and external id are those of the
\* delivery, as events_select_own lets it through.
ExistingEvents(r) ==
    {row \in events : /\ TenantPolicy(row.key.organization, tenant[r])
                      /\ row.key = RequestKey(r)}

-----------------------------------------------------------------------------
(* The request *)

\* A sender delivers, redelivers, or delivers the same event twice at once.
Receive(r, d) ==
    /\ pc[r] = "idle"
    /\ GoTo(r, "resolve")
    /\ delivery' = [delivery EXCEPT ![r] = d]
    /\ admissible' = IF status[d.endpoint] = "enabled"
                     THEN admissible \cup {r} ELSE admissible
    /\ UNCHANGED <<tables, endpointVars, tenant, draft, queued, reply, failure,
                   answered, failures>>

\* Variant of Authenticate: the resolver returns disabled endpoints too.
ResolveDisabledToo(r) ==
    /\ pc[r] = "resolve"
    /\ \/ /\ ~Exists(delivery[r].endpoint)
          /\ Raise(r, "unavailable")
       \/ /\ Exists(delivery[r].endpoint)
          /\ Proceed(r, "context")

\* relaymaid_resolve_webhook_endpoint sees committed, enabled rows only; then,
\* with no await in between, the signature is verified.
Authenticate(r) ==
    LET endpoint == delivery[r].endpoint IN
    /\ pc[r] = "resolve"
    /\ \/ /\ status[endpoint] # "enabled"
          /\ Raise(r, "unavailable")
       \/ /\ status[endpoint] = "enabled"
          /\ ~delivery[r].genuine
          /\ Raise(r, "invalid_signature")
       \/ /\ status[endpoint] = "enabled"
          /\ delivery[r].genuine
          /\ Proceed(r, "context")

\* Variant of SetTenantContext: the call is missing.
ContextForgotten(r) ==
    /\ pc[r] = "context"
    /\ Proceed(r, "insert")

\* Variant of SetTenantContext: endpoint.id passed for endpoint.organization_id.
EndpointAsTenant(r) ==
    /\ pc[r] = "context"
    /\ tenant' = [tenant EXCEPT ![r] = delivery[r].endpoint]
    /\ GoTo(r, "insert")
    /\ UNCHANGED <<tables, endpointVars, delivery, draft, queued, reply, failure,
                   answered, admissible, failures>>

\* set_tenant_context(session, endpoint.organization_id)
SetTenantContext(r) ==
    /\ pc[r] = "context"
    /\ tenant' = [tenant EXCEPT ![r] = OrganizationOf[delivery[r].endpoint]]
    /\ GoTo(r, "insert")
    /\ UNCHANGED <<tables, endpointVars, delivery, draft, queued, reply, failure,
                   answered, admissible, failures>>

\* INSERT ... ON CONFLICT DO NOTHING RETURNING, up to its unique index.  It
\* waits for an open transaction that holds the key, then takes the key or,
\* when that transaction committed, returns no row.
InsertEvent(r) ==
    /\ pc[r] = "insert"
    /\ IF ~TenantPolicy(RequestKey(r).organization, tenant[r])
       THEN Raise(r, "policy_violation")
       ELSE /\ \A row \in InFlight : row.key # RequestKey(r)
            /\ \/ /\ \E row \in events : row.key = RequestKey(r)
                  /\ GoTo(r, "select")
                  /\ UNCHANGED <<draft, reply>>
               \/ /\ \A row \in events : row.key # RequestKey(r)
                  /\ \E id \in FreshIds :
                        /\ draft' = [draft EXCEPT
                                       ![r] = [id |-> id, key |-> RequestKey(r)]]
                        /\ reply' = [reply EXCEPT ![r] = id]
                  /\ GoTo(r, "foreign_key")
            /\ UNCHANGED <<tables, endpointVars, delivery, tenant, queued, failure,
                           answered, admissible, failures>>

\* Variant of CheckForeignKey: events without the foreign key.
WithoutForeignKey(r) ==
    /\ pc[r] = "foreign_key"
    /\ Proceed(r, "flush")

\* The rest of the INSERT: fk_events_organization_endpoint_webhook_endpoints
\* locks the endpoint's row FOR KEY SHARE, after any open DELETE of it.
CheckForeignKey(r) ==
    LET endpoint == delivery[r].endpoint IN
    /\ pc[r] = "foreign_key"
    /\ endpoint \notin deleting
    /\ \/ /\ ~Exists(endpoint)
          /\ Raise(r, "foreign_key_violation")
       \/ /\ Exists(endpoint)
          /\ Proceed(r, "flush")

\* The INSERT returned no row: load the event it conflicted with.
SelectExisting(r) ==
    /\ pc[r] = "select"
    /\ IF ExistingEvents(r) = {}
       THEN Raise(r, "not_loadable")
       ELSE /\ \E row \in ExistingEvents(r) : reply' = [reply EXCEPT ![r] = row.id]
            /\ GoTo(r, "commit")
            /\ UNCHANGED <<tables, endpointVars, delivery, tenant, draft, queued,
                           failure, answered, admissible, failures>>

\* Variant of FlushOutbox: the outbox row is left to a later transaction.
OutboxLeftForLater(r) ==
    /\ pc[r] = "flush"
    /\ Proceed(r, "commit")

\* session.add(OutboxMessage(...)); await session.flush()
FlushOutbox(r) ==
    /\ pc[r] = "flush"
    /\ IF ~TenantPolicy(RequestKey(r).organization, tenant[r])
       THEN Raise(r, "policy_violation")
       ELSE /\ queued' = queued \cup {r}
            /\ GoTo(r, "commit")
            /\ UNCHANGED <<tables, endpointVars, delivery, tenant, draft, reply,
                           failure, answered, admissible, failures>>

\* Variant of Publish: the event is committed apart from its outbox row.
PublishEventAlone(r) ==
    /\ events' = IF draft[r] = Null THEN events ELSE events \cup {draft[r]}
    /\ UNCHANGED outbox
    /\ EndTransaction(r)

\* COMMIT takes effect: what the transaction inserted becomes visible.
Publish(r) ==
    /\ events' = IF draft[r] = Null THEN events ELSE events \cup {draft[r]}
    /\ outbox' = IF r \in queued
                 THEN outbox \cup {[organization |-> draft[r].key.organization,
                                    event |-> draft[r].id]}
                 ELSE outbox
    /\ EndTransaction(r)

\* session.begin() exits without an exception, before the response is sent.
Commit(r) ==
    /\ pc[r] = "commit"
    /\ Publish(r)
    /\ GoTo(r, "committed")
    /\ UNCHANGED <<endpointVars, delivery, reply, failure, answered, admissible,
                   failures>>

\* Variant of Respond: scope="request", which answers before the commit.
RespondBeforeCommit(r) ==
    \/ /\ pc[r] = "commit"
       /\ answered' = answered \cup {[key |-> RequestKey(r), id |-> reply[r]]}
       /\ UNCHANGED <<tables, endpointVars, requestVars, admissible, failures>>
    \/ /\ pc[r] = "committed"
       /\ Release(r)
       /\ UNCHANGED <<tables, endpointVars, tenant, draft, queued, answered, failures>>

\* The successful response reaches the sender.
Respond(r) ==
    /\ pc[r] = "committed"
    /\ answered' = answered \cup {[key |-> RequestKey(r), id |-> reply[r]]}
    /\ Release(r)
    /\ UNCHANGED <<tables, endpointVars, tenant, draft, queued, failures>>

\* The error response leaves; no sender takes it for a success.
Unwind(r) ==
    /\ pc[r] = "unwinding"
    /\ Release(r)
    /\ UNCHANGED <<tables, endpointVars, tenant, draft, queued, answered, failures>>

-----------------------------------------------------------------------------
(* What may go wrong.  A crash of the process is LoseConnection of every      *)
(* request with an open transaction and LoseResponse of the others.           *)

\* The request dies, but the server side of its connection has not noticed:
\* the transaction keeps its rows and locks for a while.
LoseConnection(r) ==
    /\ pc[r] \in OpenSteps
    /\ Fail
    /\ GoTo(r, "orphaned")
    /\ UNCHANGED <<tables, endpointVars, delivery, tenant, draft, queued, reply,
                   failure, answered, admissible>>

\* PostgreSQL aborts the transaction of a dead connection.
AbortOrphan(r) ==
    /\ pc[r] = "orphaned"
    /\ EndTransaction(r)
    /\ Release(r)
    /\ UNCHANGED <<tables, endpointVars, answered, failures>>

\* COMMIT takes effect but its acknowledgement is lost: the sender gets an error.
CommitUnacknowledged(r) ==
    /\ pc[r] = "commit"
    /\ Fail
    /\ Publish(r)
    /\ GoTo(r, "unwinding")
    /\ reply' = [reply EXCEPT ![r] = Null]
    /\ failure' = [failure EXCEPT ![r] = "connection_lost"]
    /\ UNCHANGED <<endpointVars, delivery, answered, admissible>>

\* Committed, but the sender never hears of it.
LoseResponse(r) ==
    /\ pc[r] = "committed"
    /\ Fail
    /\ Release(r)
    /\ UNCHANGED <<tables, endpointVars, tenant, draft, queued, answered>>

-----------------------------------------------------------------------------
(* The owner's requests, as far as they touch ingestion *)

\* Requests in flight towards an endpoint.
Towards(e) == {r \in Requests : delivery[r] # Null /\ delivery[r].endpoint = e}

\* create_webhook_endpoint, committed: enabled by default.
CreateEndpoint(e) ==
    /\ status[e] = "absent"
    /\ status' = [status EXCEPT ![e] = "enabled"]
    /\ admissible' = admissible \cup Towards(e)
    /\ UNCHANGED <<tables, deleting, requestVars, answered, failures>>

\* update_webhook_endpoint_by_id(enabled=...), committed.  An UPDATE that leaves
\* the key alone does not conflict with FOR KEY SHARE.
SetEnabled(e) ==
    /\ e \notin deleting
    /\ \/ /\ status[e] = "disabled"
          /\ status' = [status EXCEPT ![e] = "enabled"]
          /\ admissible' = admissible \cup Towards(e)
       \/ /\ status[e] = "enabled"
          /\ status' = [status EXCEPT ![e] = "disabled"]
          /\ UNCHANGED admissible
    /\ UNCHANGED <<tables, deleting, requestVars, answered, failures>>

\* Variant of BeginDelete: a foreign key that does not restrict.
DeleteUnrestricted(e) ==
    /\ e \notin deleting
    /\ Exists(e)
    /\ \A r \in Towards(e) : draft[r] # Null => pc[r] = "foreign_key"
    /\ deleting' = deleting \cup {e}
    /\ UNCHANGED <<tables, status, requestVars, answered, admissible, failures>>

\* The DELETE of delete_webhook_endpoint_by_id: it waits for the row locks of
\* events in flight, and ondelete="RESTRICT" refuses it when an event exists.
BeginDelete(e) ==
    /\ e \notin deleting
    /\ Exists(e)
    /\ \A r \in Towards(e) : draft[r] # Null => pc[r] = "foreign_key"
    /\ \A row \in events : row.key.endpoint # e
    /\ deleting' = deleting \cup {e}
    /\ UNCHANGED <<tables, status, requestVars, answered, admissible, failures>>

\* That transaction commits or rolls back.
EndDelete(e) ==
    /\ e \in deleting
    /\ deleting' = deleting \ {e}
    /\ \/ status' = [status EXCEPT ![e] = "deleted"]
       \/ UNCHANGED status
    /\ UNCHANGED <<tables, requestVars, answered, admissible, failures>>

-----------------------------------------------------------------------------

RequestStep(r) ==
    \/ Authenticate(r)
    \/ SetTenantContext(r)
    \/ InsertEvent(r)
    \/ CheckForeignKey(r)
    \/ SelectExisting(r)
    \/ FlushOutbox(r)
    \/ Commit(r)
    \/ Respond(r)
    \/ Unwind(r)
    \/ AbortOrphan(r)

FailureStep(r) ==
    \/ LoseConnection(r)
    \/ CommitUnacknowledged(r)
    \/ LoseResponse(r)

OwnerStep(e) ==
    \/ CreateEndpoint(e)
    \/ SetEnabled(e)
    \/ BeginDelete(e)
    \/ EndDelete(e)

Next ==
    \/ \E r \in Requests, d \in Delivery : Receive(r, d)
    \/ \E r \in Requests : RequestStep(r)
    \/ \E r \in Requests : FailureStep(r)
    \/ \E e \in Endpoints : OwnerStep(e)

Spec == Init /\ [][Next]_vars

-----------------------------------------------------------------------------
(* Properties *)

\* A key names at most one committed event, however many deliveries of it race,
\* fail or are retried (docs/MVP.md: concurrent duplicates create one event).
EventKeysUnique ==
    \A a, b \in events : a.key = b.key \/ a.id = b.id => a = b

\* Every committed event waits in the outbox of its own organization, and the
\* outbox holds nothing else: neither is ever committed without the other.
OutboxMatchesEvents ==
    outbox = {[organization |-> row.key.organization, event |-> row.id] : row \in events}

\* What a sender was told stays true: the event it was given exists under its
\* key, so every later answer to a duplicate names that same event.
AnswersAreStable ==
    \A a \in answered :
        /\ \E row \in events : row.key = a.key /\ row.id = a.id
        /\ \A b \in answered : a.key = b.key => a.id = b.id

\* An event always has its endpoint: a DELETE of the endpoint and the insertion
\* of an event never both succeed, in whatever order their locks are taken.
EventsKeepTheirEndpoint ==
    \A row \in events : /\ Exists(row.key.endpoint)
                        /\ row.key.endpoint \notin deleting

\* The RuntimeError of persist_webhook_event and a refusal by row-level security
\* are unreachable: a conflicting event can always be loaded.
NoInternalError ==
    \A r \in Requests : failure[r] \notin {"not_loadable", "policy_violation"}

\* An event is only ever written for an endpoint that was enabled at some moment
\* since its request came in: one disabled before that admits nothing.
OnlyAdmissibleEventsWritten ==
    \A r \in Requests : draft[r] # Null => r \in admissible

\* Each delivery is accepted once, queued at once and answered consistently.
Abstract == INSTANCE IngestionSpec WITH
    Keys <- EventKey,
    accepted <- {[key |-> row.key, id |-> row.id] : row \in events},
    queued <- {message.event : message \in outbox},
    answered <- answered

ImplementsIngestionSpec == Abstract!Spec

-----------------------------------------------------------------------------
(* The inductive invariant behind the safety properties *)

\* A request that runs carries a delivery, and from set_tenant_context to the end
\* of its transaction the tenant is the organization of the resolved endpoint.
ContextEstablished ==
    \A r \in Requests :
        /\ pc[r] # "idle" => delivery[r] # Null
        /\ pc[r] \in {"insert", "foreign_key", "select", "flush", "commit"} =>
              tenant[r] = OrganizationOf[delivery[r].endpoint]

\* An uncommitted event belongs to a request that is past its INSERT, and that
\* request commits it only together with its outbox row.
DraftsBelong ==
    \A r \in Requests :
        /\ draft[r] # Null =>
              /\ pc[r] \in {"foreign_key", "flush", "commit", "orphaned"}
              /\ draft[r].key = RequestKey(r)
              /\ draft[r].id = reply[r]
        /\ pc[r] \in {"foreign_key", "flush"} => draft[r] # Null
        /\ pc[r] = "commit" /\ draft[r] # Null => r \in queued
        /\ r \in queued => draft[r] # Null

\* The unique index: what is in flight differs from what is committed and from
\* everything else in flight, in its key as in its id.
DraftsAreNew ==
    \A r \in Requests : draft[r] # Null =>
        /\ \A row \in events : row.key # draft[r].key /\ row.id # draft[r].id
        /\ \A q \in Requests \ {r} : draft[q] # Null =>
              draft[q].key # draft[r].key /\ draft[q].id # draft[r].id

\* The row lock of the foreign key: past it, the endpoint is there to stay.
DraftsKeepTheirEndpoint ==
    \A r \in Requests : pc[r] \in {"flush", "commit"} /\ draft[r] # Null =>
        /\ Exists(delivery[r].endpoint)
        /\ delivery[r].endpoint \notin deleting

\* A request that lost the race for its key finds the winner's event, and a
\* request about to answer answers with a committed event of its key.
RepliesAreCommitted ==
    \A r \in Requests :
        /\ pc[r] = "select" => \E row \in events : row.key = RequestKey(r)
        /\ pc[r] = "committed" \/ (pc[r] = "commit" /\ draft[r] = Null) =>
              \E row \in events : row.key = RequestKey(r) /\ row.id = reply[r]

\* A request whose endpoint is enabled now, or was when it authenticated, is
\* admissible.
AuthenticatedIsAdmissible ==
    \A r \in Requests :
        /\ pc[r] \in OpenSteps \ {"resolve"} \/ draft[r] # Null => r \in admissible
        /\ pc[r] # "idle" /\ status[delivery[r].endpoint] = "enabled" =>
              r \in admissible

IngestionInv ==
    /\ TypeOK
    /\ ContextEstablished
    /\ DraftsBelong
    /\ DraftsAreNew
    /\ DraftsKeepTheirEndpoint
    /\ RepliesAreCommitted
    /\ AuthenticatedIsAdmissible
    /\ EventKeysUnique
    /\ OutboxMatchesEvents
    /\ AnswersAreStable
    /\ EventsKeepTheirEndpoint
    /\ NoInternalError

=============================================================================
