-------------------------- MODULE IngestionProofs --------------------------
(***************************************************************************)
(* Proofs about Ingestion for any requests, endpoints, organizations and   *)
(* keys, and any number of failures.                                       *)
(***************************************************************************)
EXTENDS Ingestion, TLAPS

USE OrganizationOfAssumption, MaxFailuresAssumption DEF Exists

-----------------------------------------------------------------------------
(* Types *)

\* The key a delivery gets is an event key (the values bound by the INSERT).
LEMMA KeyType ==
    ASSUME NEW d \in Delivery
    PROVE  KeyOf(d) \in EventKey
BY DEF Delivery, KeyOf, EventKey

\* Ending a transaction keeps the types of what it resets.
LEMMA EndTransactionType ==
    ASSUME TypeOK, NEW r \in Requests, EndTransaction(r)
    PROVE  /\ draft' \in [Requests -> EventRow \cup {Null}]
           /\ queued' \subseteq Requests
           /\ tenant' \in [Requests -> Organizations \cup {Empty}]
BY DEF TypeOK, EndTransaction

\* Raising an exception keeps every type.
LEMMA RaiseType ==
    ASSUME TypeOK, NEW r \in Requests, NEW why \in Failures, Raise(r, why)
    PROVE  TypeOK'
<1>1. /\ pc' \in [Requests -> Steps]
      /\ reply' \in [Requests -> EventIds \cup {Null}]
      /\ failure' \in [Requests -> Failures \cup {"none"}]
  BY DEF TypeOK, Raise, GoTo, Steps
<1>2. QED
  BY <1>1, EndTransactionType DEF TypeOK, Raise, tables, endpointVars

\* Freeing a request slot keeps the types of what it resets.
LEMMA ReleaseType ==
    ASSUME TypeOK, NEW r \in Requests, Release(r)
    PROVE  /\ pc' \in [Requests -> Steps]
           /\ delivery' \in [Requests -> Delivery \cup {Null}]
           /\ reply' \in [Requests -> EventIds \cup {Null}]
           /\ failure' \in [Requests -> Failures \cup {"none"}]
           /\ admissible' \subseteq Requests
BY DEF TypeOK, Release, GoTo, Steps

\* A failure stays within its bound.
LEMMA FailType ==
    ASSUME failures \in 0..MaxFailures, Fail
    PROVE  failures' \in 0..MaxFailures
BY DEF Fail

\* A COMMIT adds rows of the right type to both tables.
LEMMA PublishType ==
    ASSUME TypeOK, DraftsBelong, NEW r \in Requests, Publish(r)
    PROVE  events' \subseteq EventRow /\ outbox' \subseteq OutboxRow
<1>1. draft[r] = Null \/ draft[r] \in EventRow
  BY DEF TypeOK
<1>2. events' \subseteq EventRow
  BY <1>1 DEF TypeOK, Publish
<1>3. r \in queued => [organization |-> draft[r].key.organization,
                       event |-> draft[r].id] \in OutboxRow
  <2>. SUFFICES ASSUME r \in queued
                PROVE  [organization |-> draft[r].key.organization,
                        event |-> draft[r].id] \in OutboxRow
    OBVIOUS
  <2>1. draft[r] \in EventRow
    BY <1>1 DEF DraftsBelong
  <2>2. QED
    BY <2>1 DEF EventRow, EventKey, OutboxRow
<1>4. outbox' \subseteq OutboxRow
  BY <1>3 DEF TypeOK, Publish
<1>5. QED
  BY <1>2, <1>4

\* Every step of a request keeps the types.
LEMMA RequestStepType ==
    ASSUME TypeOK, ContextEstablished, DraftsBelong, RepliesAreCommitted,
           NEW r \in Requests, RequestStep(r)
    PROVE  TypeOK'
<1>0. pc[r] # "idle" => delivery[r] \in Delivery
  BY DEF TypeOK, ContextEstablished
<1>1. CASE Authenticate(r)
  <2>1. CASE Proceed(r, "context")
    BY <2>1 DEF TypeOK, Proceed, GoTo, Steps, OpenSteps, tables, endpointVars
  <2>2. CASE Raise(r, "unavailable") \/ Raise(r, "invalid_signature")
    BY <2>2, RaiseType DEF Failures
  <2>3. QED
    BY <1>1, <2>1, <2>2 DEF Authenticate
<1>2. CASE SetTenantContext(r)
  <2>1. OrganizationOf[delivery[r].endpoint] \in Organizations
    BY <1>0, <1>2 DEF SetTenantContext, Delivery
  <2>2. QED
    BY <1>2, <2>1 DEF TypeOK, SetTenantContext, GoTo, Steps, OpenSteps, tables, endpointVars
<1>3. CASE InsertEvent(r)
  <2>1. RequestKey(r) \in EventKey
    BY <1>0, <1>3, KeyType DEF InsertEvent, RequestKey
  <2>2. CASE Raise(r, "policy_violation")
    BY <2>2, RaiseType DEF Failures
  <2>3. CASE ~Raise(r, "policy_violation")
    <3>1. /\ pc' \in [Requests -> Steps]
          /\ draft' \in [Requests -> EventRow \cup {Null}]
          /\ reply' \in [Requests -> EventIds \cup {Null}]
      BY <1>3, <2>1, <2>3
      DEF TypeOK, InsertEvent, GoTo, Steps, OpenSteps, FreshIds, EventRow
    <3>2. UNCHANGED <<tables, endpointVars, delivery, tenant, queued, failure,
                      answered, admissible, failures>>
      BY <1>3, <2>3 DEF InsertEvent
    <3>3. QED
      BY <3>1, <3>2 DEF TypeOK, tables, endpointVars
  <2>4. QED
    BY <2>2, <2>3
<1>4. CASE CheckForeignKey(r)
  <2>1. CASE Raise(r, "foreign_key_violation")
    BY <2>1, RaiseType DEF Failures
  <2>2. CASE ~Raise(r, "foreign_key_violation")
    BY <1>4, <2>2 DEF TypeOK, CheckForeignKey, Proceed, GoTo, Steps, OpenSteps, tables, endpointVars
  <2>3. QED
    BY <2>1, <2>2
<1>5. CASE SelectExisting(r)
  <2>1. CASE Raise(r, "not_loadable")
    BY <2>1, RaiseType DEF Failures
  <2>2. CASE ~Raise(r, "not_loadable")
    <3>1. pc' \in [Requests -> Steps] /\ reply' \in [Requests -> EventIds \cup {Null}]
      BY <1>5, <2>2
      DEF TypeOK, SelectExisting, ExistingEvents, GoTo, Steps, OpenSteps, EventRow
    <3>2. QED
      BY <1>5, <2>2, <3>1 DEF TypeOK, SelectExisting, tables, endpointVars
  <2>3. QED
    BY <2>1, <2>2
<1>6. CASE FlushOutbox(r)
  <2>1. CASE Raise(r, "policy_violation")
    BY <2>1, RaiseType DEF Failures
  <2>2. CASE ~Raise(r, "policy_violation")
    BY <1>6, <2>2 DEF TypeOK, FlushOutbox, GoTo, Steps, OpenSteps, tables, endpointVars
  <2>3. QED
    BY <2>1, <2>2
<1>7. CASE Commit(r)
  <2>1. EndTransaction(r) /\ Publish(r)
    BY <1>7 DEF Commit, Publish
  <2>2. QED
    BY <1>7, <2>1, PublishType, EndTransactionType
    DEF TypeOK, Commit, GoTo, Steps, endpointVars
<1>8. CASE Respond(r)
  <2>1. Release(r) /\ RequestKey(r) \in EventKey
    BY <1>0, <1>8, KeyType DEF Respond, RequestKey
  <2>2. reply[r] \in EventIds
    BY <1>8 DEF TypeOK, Respond, RepliesAreCommitted, EventRow
  <2>3. QED
    BY <1>8, <2>1, <2>2, ReleaseType DEF TypeOK, Respond, tables, endpointVars
<1>9. CASE Unwind(r)
  <2>1. Release(r)
    BY <1>9 DEF Unwind
  <2>2. QED
    BY <1>9, <2>1, ReleaseType DEF TypeOK, Unwind, tables, endpointVars
<1>10. CASE AbortOrphan(r)
  <2>1. EndTransaction(r) /\ Release(r)
    BY <1>10 DEF AbortOrphan
  <2>2. QED
    BY <1>10, <2>1, ReleaseType, EndTransactionType
    DEF TypeOK, AbortOrphan, tables, endpointVars
<1>11. QED
  BY <1>1, <1>2, <1>3, <1>4, <1>5, <1>6, <1>7, <1>8, <1>9, <1>10 DEF RequestStep

-----------------------------------------------------------------------------
(* The inductive invariant *)

\* A step that leaves the tables, the endpoints and the answers alone keeps the
\* invariants that mention nothing else.
LEMMA TablesFrame ==
    ASSUME EventKeysUnique, OutboxMatchesEvents, AnswersAreStable,
           EventsKeepTheirEndpoint, UNCHANGED <<tables, endpointVars, answered>>
    PROVE  /\ EventKeysUnique' /\ OutboxMatchesEvents'
           /\ AnswersAreStable' /\ EventsKeepTheirEndpoint'
<1>1. UNCHANGED <<events, outbox, status, deleting, answered>>
  BY DEF tables, endpointVars
<1>2. QED
  BY <1>1 DEF EventKeysUnique, OutboxMatchesEvents, AnswersAreStable,
              EventsKeepTheirEndpoint

\* The policies let through every row of the tenant that the request established.
LEMMA PolicyHolds ==
    ASSUME IngestionInv, NEW r \in Requests, pc[r] \in {"insert", "flush", "select"}
    PROVE  TenantPolicy(RequestKey(r).organization, tenant[r])
<1>1. delivery[r] \in Delivery
  BY DEF IngestionInv, TypeOK, ContextEstablished
<1>2. tenant[r] = OrganizationOf[delivery[r].endpoint]
  BY DEF IngestionInv, ContextEstablished
<1>3. tenant[r] \in Organizations
  BY <1>1, <1>2 DEF Delivery
<1>4. QED
  BY <1>2, <1>3, SettingAssumption
  DEF TenantPolicy, Matches, CurrentSetting, RequestKey, KeyOf

\* The event that an INSERT conflicted with is visible to the SELECT after it.
LEMMA ConflictIsVisible ==
    ASSUME IngestionInv, NEW r \in Requests, pc[r] = "select"
    PROVE  ExistingEvents(r) # {}
<1>1. PICK row \in events : row.key = RequestKey(r)
  BY DEF IngestionInv, RepliesAreCommitted
<1>2. row \in ExistingEvents(r)
  BY <1>1, PolicyHolds DEF ExistingEvents
<1>3. QED
  BY <1>2

\* Rolling back keeps the invariant: a request that unwinds holds no row.
LEMMA RaiseInv ==
    ASSUME IngestionInv, NEW r \in Requests, pc[r] # "idle",
           NEW why \in Failures \ {"not_loadable", "policy_violation"}, Raise(r, why)
    PROVE  IngestionInv'
<1>. USE DEF IngestionInv
<1>1. TypeOK'
  BY RaiseType
<1>2. UNCHANGED <<tables, endpointVars, delivery, answered, admissible>>
  BY DEF Raise
<1>3. /\ pc' = [pc EXCEPT ![r] = "unwinding"]
      /\ reply' = [reply EXCEPT ![r] = Null]
      /\ failure' = [failure EXCEPT ![r] = why]
      /\ draft' = [draft EXCEPT ![r] = Null]
      /\ queued' = queued \ {r}
      /\ tenant' = [tenant EXCEPT ![r] = Empty]
  BY DEF Raise, EndTransaction, GoTo
<1>. USE DEF tables, endpointVars
<1>4. ContextEstablished'
  BY <1>2, <1>3 DEF TypeOK, ContextEstablished
<1>5. DraftsBelong'
  BY <1>2, <1>3 DEF TypeOK, DraftsBelong, RequestKey
<1>6. DraftsAreNew'
  BY <1>2, <1>3 DEF TypeOK, DraftsAreNew
<1>7. DraftsKeepTheirEndpoint'
  BY <1>2, <1>3 DEF TypeOK, DraftsKeepTheirEndpoint
<1>8. RepliesAreCommitted'
  BY <1>2, <1>3 DEF TypeOK, RepliesAreCommitted, RequestKey
<1>9. AuthenticatedIsAdmissible'
  BY <1>2, <1>3 DEF TypeOK, AuthenticatedIsAdmissible, OpenSteps
<1>10. NoInternalError'
  BY <1>3 DEF TypeOK, NoInternalError
<1>11. QED
  BY <1>1, <1>2, <1>4, <1>5, <1>6, <1>7, <1>8, <1>9, <1>10, TablesFrame

\* The tenant becomes that of the resolved endpoint.
LEMMA SetTenantContextInv ==
    ASSUME IngestionInv, NEW r \in Requests, SetTenantContext(r)
    PROVE  IngestionInv'
<1>. USE DEF IngestionInv
<1>1. TypeOK'
  BY RequestStepType DEF RequestStep
<1>2. UNCHANGED <<tables, endpointVars, delivery, draft, queued, reply, failure,
                  answered, admissible>>
  BY DEF SetTenantContext, GoTo
<1>3. /\ pc[r] = "context"
      /\ pc' = [pc EXCEPT ![r] = "insert"]
      /\ tenant' = [tenant EXCEPT ![r] = OrganizationOf[delivery[r].endpoint]]
  BY DEF SetTenantContext, GoTo
<1>. USE DEF tables, endpointVars
<1>4. ContextEstablished'
  BY <1>2, <1>3 DEF TypeOK, ContextEstablished
<1>5. DraftsBelong'
  BY <1>2, <1>3 DEF TypeOK, DraftsBelong, RequestKey
<1>6. DraftsAreNew'
  BY <1>2, <1>3 DEF TypeOK, DraftsAreNew
<1>7. DraftsKeepTheirEndpoint'
  BY <1>2, <1>3 DEF TypeOK, DraftsKeepTheirEndpoint, DraftsBelong
<1>8. RepliesAreCommitted'
  BY <1>2, <1>3 DEF TypeOK, RepliesAreCommitted, RequestKey
<1>9. AuthenticatedIsAdmissible'
  BY <1>2, <1>3 DEF TypeOK, AuthenticatedIsAdmissible, OpenSteps
<1>10. NoInternalError'
  BY <1>2, <1>3 DEF TypeOK, NoInternalError
<1>11. QED
  BY <1>1, <1>2, <1>4, <1>5, <1>6, <1>7, <1>8, <1>9, <1>10, TablesFrame

\* The outbox row joins its event in the open transaction.
LEMMA FlushOutboxInv ==
    ASSUME IngestionInv, NEW r \in Requests, FlushOutbox(r)
    PROVE  IngestionInv'
<1>. USE DEF IngestionInv
<1>1. TypeOK'
  BY RequestStepType DEF RequestStep
<1>2. UNCHANGED <<tables, endpointVars, delivery, tenant, draft, reply, failure,
                  answered, admissible>>
  BY PolicyHolds DEF FlushOutbox, GoTo
<1>3. /\ pc[r] = "flush"
      /\ pc' = [pc EXCEPT ![r] = "commit"]
      /\ queued' = queued \cup {r}
  BY PolicyHolds DEF FlushOutbox, GoTo
<1>. USE DEF tables, endpointVars
<1>4. ContextEstablished'
  BY <1>2, <1>3 DEF TypeOK, ContextEstablished
<1>5. DraftsBelong'
  BY <1>2, <1>3 DEF TypeOK, DraftsBelong, RequestKey
<1>6. DraftsAreNew'
  BY <1>2, <1>3 DEF TypeOK, DraftsAreNew
<1>7. DraftsKeepTheirEndpoint'
  BY <1>2, <1>3 DEF TypeOK, DraftsKeepTheirEndpoint, DraftsBelong
<1>8. RepliesAreCommitted'
  BY <1>2, <1>3 DEF TypeOK, RepliesAreCommitted, RequestKey, DraftsBelong
<1>9. AuthenticatedIsAdmissible'
  BY <1>2, <1>3 DEF TypeOK, AuthenticatedIsAdmissible, OpenSteps
<1>10. NoInternalError'
  BY <1>2, <1>3 DEF TypeOK, NoInternalError
<1>11. QED
  BY <1>1, <1>2, <1>4, <1>5, <1>6, <1>7, <1>8, <1>9, <1>10, TablesFrame

\* An orphaned transaction keeps what it holds.
LEMMA LoseConnectionInv ==
    ASSUME IngestionInv, NEW r \in Requests, LoseConnection(r)
    PROVE  IngestionInv'
<1>. USE DEF IngestionInv
<1>1. TypeOK'
  BY FailType
  DEF TypeOK, LoseConnection, GoTo, Steps, tables, endpointVars
<1>2. UNCHANGED <<tables, endpointVars, delivery, tenant, draft, queued, reply, failure,
                  answered, admissible>>
  BY DEF LoseConnection, GoTo
<1>3. /\ pc[r] \in OpenSteps
      /\ pc' = [pc EXCEPT ![r] = "orphaned"]
  BY DEF LoseConnection, GoTo
<1>. USE DEF tables, endpointVars, OpenSteps
<1>4. ContextEstablished'
  BY <1>2, <1>3 DEF TypeOK, ContextEstablished
<1>5. DraftsBelong'
  BY <1>2, <1>3 DEF TypeOK, DraftsBelong, RequestKey
<1>6. DraftsAreNew'
  BY <1>2, <1>3 DEF TypeOK, DraftsAreNew
<1>7. DraftsKeepTheirEndpoint'
  BY <1>2, <1>3 DEF TypeOK, DraftsKeepTheirEndpoint, DraftsBelong
<1>8. RepliesAreCommitted'
  BY <1>2, <1>3 DEF TypeOK, RepliesAreCommitted, RequestKey
<1>9. AuthenticatedIsAdmissible'
  BY <1>2, <1>3 DEF TypeOK, AuthenticatedIsAdmissible, OpenSteps
<1>10. NoInternalError'
  BY <1>2, <1>3 DEF TypeOK, NoInternalError
<1>11. QED
  BY <1>1, <1>2, <1>4, <1>5, <1>6, <1>7, <1>8, <1>9, <1>10, TablesFrame

\* Authentication rejects a delivery or lets one through whose endpoint is enabled.
LEMMA AuthenticateInv ==
    ASSUME IngestionInv, NEW r \in Requests, Authenticate(r)
    PROVE  IngestionInv'
<1>. USE DEF IngestionInv
<1>0. pc[r] = "resolve" /\ TypeOK'
  BY RequestStepType DEF RequestStep, Authenticate
<1>1. CASE Raise(r, "unavailable") \/ Raise(r, "invalid_signature")
  BY <1>0, <1>1, RaiseInv DEF Failures
<1>2. CASE ~(Raise(r, "unavailable") \/ Raise(r, "invalid_signature"))
  <2>. USE DEF tables, endpointVars
  <2>1. UNCHANGED <<tables, endpointVars, delivery, tenant, draft, queued, reply, failure,
                    answered, admissible>>
    BY <1>2 DEF Authenticate, Proceed, GoTo
  <2>2. /\ pc' = [pc EXCEPT ![r] = "context"]
        /\ status[delivery[r].endpoint] = "enabled"
    BY <1>2 DEF Authenticate, Proceed, GoTo
  <2>3. ContextEstablished'
    BY <1>0, <2>1, <2>2 DEF TypeOK, ContextEstablished
  <2>4. DraftsBelong'
    BY <1>0, <2>1, <2>2 DEF TypeOK, DraftsBelong, RequestKey
  <2>5. DraftsAreNew'
    BY <1>0, <2>1, <2>2 DEF TypeOK, DraftsAreNew
  <2>6. DraftsKeepTheirEndpoint'
    BY <1>0, <2>1, <2>2 DEF TypeOK, DraftsKeepTheirEndpoint, DraftsBelong
  <2>7. RepliesAreCommitted'
    BY <1>0, <2>1, <2>2 DEF TypeOK, RepliesAreCommitted, RequestKey
  <2>8. AuthenticatedIsAdmissible'
    BY <1>0, <2>1, <2>2 DEF TypeOK, AuthenticatedIsAdmissible, OpenSteps
  <2>9. NoInternalError'
    BY <1>0, <2>1, <2>2 DEF TypeOK, NoInternalError
  <2>10. QED
    BY <1>0, <2>1, <2>3, <2>4, <2>5, <2>6, <2>7, <2>8, <2>9, TablesFrame
<1>3. QED
  BY <1>1, <1>2

\* Past its foreign key, an event's endpoint is neither deleted nor being deleted.
LEMMA CheckForeignKeyInv ==
    ASSUME IngestionInv, NEW r \in Requests, CheckForeignKey(r)
    PROVE  IngestionInv'
<1>. USE DEF IngestionInv
<1>0. pc[r] = "foreign_key" /\ TypeOK'
  BY RequestStepType DEF RequestStep, CheckForeignKey
<1>1. CASE Raise(r, "foreign_key_violation")
  BY <1>0, <1>1, RaiseInv DEF Failures
<1>2. CASE ~(Raise(r, "foreign_key_violation"))
  <2>. USE DEF tables, endpointVars
  <2>1. UNCHANGED <<tables, endpointVars, delivery, tenant, draft, queued, reply, failure,
                    answered, admissible>>
    BY <1>2 DEF CheckForeignKey, Proceed, GoTo
  <2>2. /\ pc' = [pc EXCEPT ![r] = "flush"]
        /\ Exists(delivery[r].endpoint)
        /\ delivery[r].endpoint \notin deleting
    BY <1>2 DEF CheckForeignKey, Proceed, GoTo
  <2>3. ContextEstablished'
    BY <1>0, <2>1, <2>2 DEF TypeOK, ContextEstablished
  <2>4. DraftsBelong'
    BY <1>0, <2>1, <2>2 DEF TypeOK, DraftsBelong, RequestKey
  <2>5. DraftsAreNew'
    BY <1>0, <2>1, <2>2 DEF TypeOK, DraftsAreNew
  <2>6. DraftsKeepTheirEndpoint'
    BY <1>0, <2>1, <2>2 DEF TypeOK, DraftsKeepTheirEndpoint, DraftsBelong
  <2>7. RepliesAreCommitted'
    BY <1>0, <2>1, <2>2 DEF TypeOK, RepliesAreCommitted, RequestKey
  <2>8. AuthenticatedIsAdmissible'
    BY <1>0, <2>1, <2>2 DEF TypeOK, AuthenticatedIsAdmissible, OpenSteps
  <2>9. NoInternalError'
    BY <1>0, <2>1, <2>2 DEF TypeOK, NoInternalError
  <2>10. QED
    BY <1>0, <2>1, <2>3, <2>4, <2>5, <2>6, <2>7, <2>8, <2>9, TablesFrame
<1>3. QED
  BY <1>1, <1>2

\* A duplicate will be answered with the event its key already names.
LEMMA SelectExistingInv ==
    ASSUME IngestionInv, NEW r \in Requests, SelectExisting(r)
    PROVE  IngestionInv'
<1>. USE DEF IngestionInv
<1>1. TypeOK'
  BY RequestStepType DEF RequestStep
<1>2. UNCHANGED <<tables, endpointVars, delivery, tenant, draft, queued, failure,
                  answered, admissible>>
  BY ConflictIsVisible DEF SelectExisting, ExistingEvents, GoTo
<1>3. /\ pc[r] = "select" /\ pc' = [pc EXCEPT ![r] = "commit"]
      /\ \E row \in events : /\ row.key = RequestKey(r)
                            /\ reply' = [reply EXCEPT ![r] = row.id]
  BY ConflictIsVisible DEF SelectExisting, ExistingEvents, GoTo
<1>. USE DEF tables, endpointVars
<1>4. ContextEstablished'
  BY <1>2, <1>3 DEF TypeOK, ContextEstablished
<1>5. DraftsBelong'
  BY <1>2, <1>3 DEF TypeOK, DraftsBelong, RequestKey
<1>6. DraftsAreNew'
  BY <1>2, <1>3 DEF TypeOK, DraftsAreNew
<1>7. DraftsKeepTheirEndpoint'
  BY <1>2, <1>3 DEF TypeOK, DraftsKeepTheirEndpoint, DraftsBelong
<1>8. RepliesAreCommitted'
  BY <1>2, <1>3 DEF TypeOK, RepliesAreCommitted, RequestKey
<1>9. AuthenticatedIsAdmissible'
  BY <1>2, <1>3 DEF TypeOK, AuthenticatedIsAdmissible, OpenSteps
<1>10. NoInternalError'
  BY <1>2, <1>3 DEF TypeOK, NoInternalError
<1>11. QED
  BY <1>1, <1>2, <1>4, <1>5, <1>6, <1>7, <1>8, <1>9, <1>10, TablesFrame

\* The unique index lets a key go in once: while another transaction holds it the
\* INSERT waits, and once an event has it no row goes in.
LEMMA InsertEventInv ==
    ASSUME IngestionInv, NEW r \in Requests, InsertEvent(r)
    PROVE  IngestionInv'
<1>. USE DEF IngestionInv, tables, endpointVars
<1>0. pc[r] = "insert" /\ TypeOK'
  BY RequestStepType DEF RequestStep, InsertEvent
<1>1. \A row \in InFlight : row.key # RequestKey(r)
  BY PolicyHolds DEF InsertEvent
<1>2. UNCHANGED <<tables, endpointVars, delivery, tenant, queued, failure, answered,
                  admissible>>
  BY PolicyHolds DEF InsertEvent
<1>3. CASE \E row \in events : row.key = RequestKey(r)
  <2>1. pc' = [pc EXCEPT ![r] = "select"] /\ UNCHANGED <<draft, reply>>
    BY <1>3, PolicyHolds DEF InsertEvent, GoTo
  <2>2. ContextEstablished'
    BY <1>0, <1>2, <2>1 DEF TypeOK, ContextEstablished
  <2>3. DraftsBelong'
    BY <1>0, <1>2, <2>1 DEF TypeOK, DraftsBelong, RequestKey
  <2>4. DraftsAreNew'
    BY <1>0, <1>2, <2>1 DEF TypeOK, DraftsAreNew
  <2>5. DraftsKeepTheirEndpoint'
    BY <1>0, <1>2, <2>1 DEF TypeOK, DraftsKeepTheirEndpoint, DraftsBelong
  <2>6. RepliesAreCommitted'
    BY <1>0, <1>2, <1>3, <2>1 DEF TypeOK, RepliesAreCommitted, RequestKey
  <2>7. AuthenticatedIsAdmissible'
    BY <1>0, <1>2, <2>1 DEF TypeOK, AuthenticatedIsAdmissible, OpenSteps
  <2>8. NoInternalError'
    BY <1>0, <1>2, <2>1 DEF TypeOK, NoInternalError
  <2>9. QED
    BY <1>0, <1>2, <2>2, <2>3, <2>4, <2>5, <2>6, <2>7, <2>8, TablesFrame
<1>4. CASE \A row \in events : row.key # RequestKey(r)
  <2>1. PICK id \in FreshIds :
          /\ draft' = [draft EXCEPT ![r] = [id |-> id, key |-> RequestKey(r)]]
          /\ reply' = [reply EXCEPT ![r] = id]
          /\ pc' = [pc EXCEPT ![r] = "foreign_key"]
    BY <1>4, PolicyHolds DEF InsertEvent, GoTo
  <2>2. RequestKey(r) \in EventKey
    BY <1>0, KeyType DEF TypeOK, ContextEstablished, RequestKey
  <2>3. draft'[r].key = RequestKey(r) /\ draft'[r].id = id
    BY <2>1 DEF TypeOK
  <2>4. \A q \in Requests \ {r} : draft'[q] = draft[q]
    BY <2>1 DEF TypeOK
  <2>5. \A row \in events : row.id # id
    BY DEF FreshIds
  <2>6. \A q \in Requests : draft[q] # Null =>
            draft[q].key # RequestKey(r) /\ draft[q].id # id
    BY <1>1 DEF FreshIds, InFlight
  <2>7. draft'[r] # Null
    BY <2>1, <2>2, NullAssumption DEF TypeOK, FreshIds, EventRow
  <2>9. ContextEstablished'
    BY <1>0, <1>2, <2>1 DEF TypeOK, ContextEstablished
  <2>10. DraftsBelong'
    BY <1>0, <1>2, <2>1, <2>3, <2>4, <2>7 DEF TypeOK, DraftsBelong, RequestKey
  <2>11. DraftsAreNew'
    BY <1>2, <1>4, <2>3, <2>4, <2>5, <2>6 DEF DraftsAreNew
  <2>12. DraftsKeepTheirEndpoint'
    BY <1>0, <1>2, <2>1 DEF TypeOK, DraftsKeepTheirEndpoint, DraftsBelong
  <2>13. RepliesAreCommitted'
    BY <1>0, <1>2, <2>1 DEF TypeOK, RepliesAreCommitted, RequestKey
  <2>14. AuthenticatedIsAdmissible'
    BY <1>0, <1>2, <2>1 DEF TypeOK, AuthenticatedIsAdmissible, OpenSteps
  <2>15. NoInternalError'
    BY <1>0, <1>2, <2>1 DEF TypeOK, NoInternalError
  <2>16. QED
    BY <1>0, <1>2, <2>9, <2>10, <2>11, <2>12, <2>13, <2>14, <2>15, TablesFrame
<1>5. QED
  BY <1>3, <1>4

\* COMMIT moves a new key with its outbox row into the tables, or adds nothing; either
\* way the tables then hold the event that the request will name.
LEMMA PublishTables ==
    ASSUME IngestionInv, NEW r \in Requests, pc[r] = "commit", Publish(r),
           UNCHANGED <<endpointVars, answered>>
    PROVE  /\ EventKeysUnique' /\ OutboxMatchesEvents'
           /\ AnswersAreStable' /\ EventsKeepTheirEndpoint'
           /\ events \subseteq events'
           /\ \E row \in events' : row.key = RequestKey(r) /\ row.id = reply[r]
<1>. USE DEF IngestionInv, endpointVars
<1>1. CASE draft[r] = Null
  <2>1. UNCHANGED <<events, outbox, status, deleting, answered>>
    BY <1>1 DEF Publish, DraftsBelong
  <2>2. \E row \in events : row.key = RequestKey(r) /\ row.id = reply[r]
    BY <1>1 DEF RepliesAreCommitted
  <2>3. QED
    BY <2>1, <2>2, TablesFrame DEF tables
<1>2. CASE draft[r] # Null
  <2>1. events' = events \cup {draft[r]}
    BY <1>2 DEF Publish
  <2>2. outbox' = outbox \cup {[organization |-> draft[r].key.organization,
                                event |-> draft[r].id]}
    BY <1>2 DEF Publish, DraftsBelong
  <2>3. draft[r].key = RequestKey(r) /\ draft[r].id = reply[r]
    BY <1>2 DEF DraftsBelong
  <2>4. \A row \in events : row.key # draft[r].key /\ row.id # draft[r].id
    BY <1>2 DEF DraftsAreNew
  <2>5. EventKeysUnique'
    BY <2>1, <2>4 DEF EventKeysUnique
  <2>6. OutboxMatchesEvents'
    BY <2>1, <2>2 DEF OutboxMatchesEvents
  <2>7. AnswersAreStable'
    BY <2>1 DEF AnswersAreStable
  <2>8. EventsKeepTheirEndpoint'
    BY <1>2, <2>1, <2>3 DEF EventsKeepTheirEndpoint, DraftsKeepTheirEndpoint,
                            RequestKey, KeyOf
  <2>9. QED
    BY <2>1, <2>3, <2>5, <2>6, <2>7, <2>8
<1>3. QED
  BY <1>1, <1>2

\* After COMMIT the drafts that are left are still new: theirs were other keys.
LEMMA PublishDrafts ==
    ASSUME IngestionInv, NEW r \in Requests, pc[r] = "commit", Publish(r)
    PROVE  DraftsAreNew'
<1>1. draft' = [draft EXCEPT ![r] = Null]
  BY DEF Publish, EndTransaction
<1>2. events' = IF draft[r] = Null THEN events ELSE events \cup {draft[r]}
  BY DEF Publish
<1>3. QED
  BY <1>1, <1>2 DEF IngestionInv, TypeOK, DraftsAreNew

\* A COMMIT that is acknowledged lets the request answer with a committed event.
LEMMA CommitInv ==
    ASSUME IngestionInv, NEW r \in Requests, Commit(r)
    PROVE  IngestionInv'
<1>. USE DEF IngestionInv
<1>1. TypeOK'
  BY RequestStepType DEF RequestStep
<1>2. UNCHANGED <<status, deleting, delivery, reply, failure,
                  answered, admissible>>
  BY DEF Commit, endpointVars
<1>3. /\ pc' = [pc EXCEPT ![r] = "committed"]
      /\ draft' = [draft EXCEPT ![r] = Null]
      /\ queued' = queued \ {r}
      /\ tenant' = [tenant EXCEPT ![r] = Empty]
  BY DEF Commit, Publish, EndTransaction, GoTo
<1>4. pc[r] = "commit" /\ Publish(r)
  BY DEF Commit
<1>5. /\ EventKeysUnique' /\ OutboxMatchesEvents'
      /\ AnswersAreStable' /\ EventsKeepTheirEndpoint'
      /\ events \subseteq events'
      /\ \E row \in events' : row.key = RequestKey(r) /\ row.id = reply[r]
  BY <1>2, <1>4, PublishTables DEF endpointVars
<1>6. ContextEstablished'
  BY <1>2, <1>3, <1>4 DEF TypeOK, ContextEstablished
<1>7. DraftsBelong'
  BY <1>2, <1>3, <1>4 DEF TypeOK, DraftsBelong, RequestKey
<1>8. DraftsAreNew'
  BY <1>4, PublishDrafts
<1>9. DraftsKeepTheirEndpoint'
  BY <1>2, <1>3, <1>4 DEF TypeOK, DraftsKeepTheirEndpoint, DraftsBelong
<1>10. RepliesAreCommitted'
  BY <1>2, <1>3, <1>4, <1>5 DEF TypeOK, RepliesAreCommitted, RequestKey
<1>11. AuthenticatedIsAdmissible'
  BY <1>2, <1>3, <1>4 DEF TypeOK, AuthenticatedIsAdmissible, OpenSteps
<1>12. NoInternalError'
  BY <1>2, <1>3, <1>4 DEF TypeOK, NoInternalError
<1>13. QED
  BY <1>1, <1>5, <1>6, <1>7, <1>8, <1>9, <1>10, <1>11, <1>12

\* A COMMIT whose acknowledgement is lost leaves the tables just as consistent.
LEMMA CommitUnacknowledgedInv ==
    ASSUME IngestionInv, NEW r \in Requests, CommitUnacknowledged(r)
    PROVE  IngestionInv'
<1>. USE DEF IngestionInv
<1>1. TypeOK'
  BY FailType, PublishType, EndTransactionType
  DEF TypeOK, CommitUnacknowledged, Publish, GoTo, Steps, Failures, endpointVars
<1>2. UNCHANGED <<status, deleting, delivery, answered, admissible>>
  BY DEF CommitUnacknowledged, endpointVars
<1>3. /\ pc' = [pc EXCEPT ![r] = "unwinding"]
      /\ draft' = [draft EXCEPT ![r] = Null]
      /\ queued' = queued \ {r}
      /\ tenant' = [tenant EXCEPT ![r] = Empty]
      /\ reply' = [reply EXCEPT ![r] = Null]
      /\ failure' = [failure EXCEPT ![r] = "connection_lost"]
  BY DEF CommitUnacknowledged, Publish, EndTransaction, GoTo
<1>4. pc[r] = "commit" /\ Publish(r)
  BY DEF CommitUnacknowledged
<1>5. /\ EventKeysUnique' /\ OutboxMatchesEvents'
      /\ AnswersAreStable' /\ EventsKeepTheirEndpoint'
      /\ events \subseteq events'
      /\ \E row \in events' : row.key = RequestKey(r) /\ row.id = reply[r]
  BY <1>2, <1>4, PublishTables DEF endpointVars
<1>6. ContextEstablished'
  BY <1>2, <1>3, <1>4 DEF TypeOK, ContextEstablished
<1>7. DraftsBelong'
  BY <1>2, <1>3, <1>4 DEF TypeOK, DraftsBelong, RequestKey
<1>8. DraftsAreNew'
  BY <1>4, PublishDrafts
<1>9. DraftsKeepTheirEndpoint'
  BY <1>2, <1>3, <1>4 DEF TypeOK, DraftsKeepTheirEndpoint, DraftsBelong
<1>10. RepliesAreCommitted'
  BY <1>2, <1>3, <1>4, <1>5 DEF TypeOK, RepliesAreCommitted, RequestKey
<1>11. AuthenticatedIsAdmissible'
  BY <1>2, <1>3, <1>4 DEF TypeOK, AuthenticatedIsAdmissible, OpenSteps
<1>12. NoInternalError'
  BY <1>2, <1>3, <1>4 DEF TypeOK, NoInternalError
<1>13. QED
  BY <1>1, <1>5, <1>6, <1>7, <1>8, <1>9, <1>10, <1>11, <1>12

\* A request that failed frees its slot.
LEMMA UnwindInv ==
    ASSUME IngestionInv, NEW r \in Requests, Unwind(r)
    PROVE  IngestionInv'
<1>. USE DEF IngestionInv, tables, endpointVars
<1>1. TypeOK'
  BY RequestStepType DEF RequestStep
<1>2. UNCHANGED <<tables, endpointVars, answered, tenant, draft, queued>>
  BY DEF Unwind
<1>3. /\ pc[r] = "unwinding" /\ draft[r] = Null
      /\ pc' = [pc EXCEPT ![r] = "idle"]
      /\ delivery' = [delivery EXCEPT ![r] = Null]
      /\ reply' = [reply EXCEPT ![r] = Null]
      /\ failure' = [failure EXCEPT ![r] = "none"]
      /\ admissible' = admissible \ {r}
  BY DEF Unwind, Release, GoTo, DraftsBelong
<1>4. ContextEstablished'
  BY <1>2, <1>3 DEF TypeOK, ContextEstablished
<1>5. DraftsBelong'
  BY <1>2, <1>3 DEF TypeOK, DraftsBelong, RequestKey
<1>6. DraftsAreNew'
  BY <1>2, <1>3 DEF TypeOK, DraftsAreNew
<1>7. DraftsKeepTheirEndpoint'
  BY <1>2, <1>3 DEF TypeOK, DraftsKeepTheirEndpoint, DraftsBelong
<1>8. RepliesAreCommitted'
  BY <1>2, <1>3 DEF TypeOK, RepliesAreCommitted, RequestKey
<1>9. AuthenticatedIsAdmissible'
  BY <1>2, <1>3 DEF TypeOK, AuthenticatedIsAdmissible, OpenSteps
<1>10. NoInternalError'
  BY <1>2, <1>3 DEF TypeOK, NoInternalError
<1>11. QED
  BY <1>1, <1>2, <1>4, <1>5, <1>6, <1>7, <1>8, <1>9, <1>10, TablesFrame

\* A lost response changes nothing that was committed.
LEMMA LoseResponseInv ==
    ASSUME IngestionInv, NEW r \in Requests, LoseResponse(r)
    PROVE  IngestionInv'
<1>. USE DEF IngestionInv, tables, endpointVars
<1>1. TypeOK'
  BY FailType, ReleaseType DEF TypeOK, LoseResponse
<1>2. UNCHANGED <<tables, endpointVars, answered, tenant, draft, queued>>
  BY DEF LoseResponse
<1>3. /\ pc[r] = "committed" /\ draft[r] = Null
      /\ pc' = [pc EXCEPT ![r] = "idle"]
      /\ delivery' = [delivery EXCEPT ![r] = Null]
      /\ reply' = [reply EXCEPT ![r] = Null]
      /\ failure' = [failure EXCEPT ![r] = "none"]
      /\ admissible' = admissible \ {r}
  BY DEF LoseResponse, Release, GoTo, DraftsBelong
<1>4. ContextEstablished'
  BY <1>2, <1>3 DEF TypeOK, ContextEstablished
<1>5. DraftsBelong'
  BY <1>2, <1>3 DEF TypeOK, DraftsBelong, RequestKey
<1>6. DraftsAreNew'
  BY <1>2, <1>3 DEF TypeOK, DraftsAreNew
<1>7. DraftsKeepTheirEndpoint'
  BY <1>2, <1>3 DEF TypeOK, DraftsKeepTheirEndpoint, DraftsBelong
<1>8. RepliesAreCommitted'
  BY <1>2, <1>3 DEF TypeOK, RepliesAreCommitted, RequestKey
<1>9. AuthenticatedIsAdmissible'
  BY <1>2, <1>3 DEF TypeOK, AuthenticatedIsAdmissible, OpenSteps
<1>10. NoInternalError'
  BY <1>2, <1>3 DEF TypeOK, NoInternalError
<1>11. QED
  BY <1>1, <1>2, <1>4, <1>5, <1>6, <1>7, <1>8, <1>9, <1>10, TablesFrame

\* A successful response names the committed event of its key.
LEMMA RespondInv ==
    ASSUME IngestionInv, NEW r \in Requests, Respond(r)
    PROVE  IngestionInv'
<1>. USE DEF IngestionInv, tables, endpointVars
<1>1. TypeOK'
  BY RequestStepType DEF RequestStep
<1>2. UNCHANGED <<tables, endpointVars, tenant, draft, queued>>
  BY DEF Respond
<1>3. /\ pc[r] = "committed" /\ draft[r] = Null
      /\ pc' = [pc EXCEPT ![r] = "idle"]
      /\ delivery' = [delivery EXCEPT ![r] = Null]
      /\ reply' = [reply EXCEPT ![r] = Null]
      /\ failure' = [failure EXCEPT ![r] = "none"]
      /\ admissible' = admissible \ {r}
  BY DEF Respond, Release, GoTo, DraftsBelong
<1>4. ContextEstablished'
  BY <1>2, <1>3 DEF TypeOK, ContextEstablished
<1>5. DraftsBelong'
  BY <1>2, <1>3 DEF TypeOK, DraftsBelong, RequestKey
<1>6. DraftsAreNew'
  BY <1>2, <1>3 DEF TypeOK, DraftsAreNew
<1>7. DraftsKeepTheirEndpoint'
  BY <1>2, <1>3 DEF TypeOK, DraftsKeepTheirEndpoint, DraftsBelong
<1>8. RepliesAreCommitted'
  BY <1>2, <1>3 DEF TypeOK, RepliesAreCommitted, RequestKey
<1>9. AuthenticatedIsAdmissible'
  BY <1>2, <1>3 DEF TypeOK, AuthenticatedIsAdmissible, OpenSteps
<1>10. NoInternalError'
  BY <1>2, <1>3 DEF TypeOK, NoInternalError
<1>11. \E row \in events : row.key = RequestKey(r) /\ row.id = reply[r]
  BY <1>3 DEF RepliesAreCommitted
<1>12. /\ EventKeysUnique' /\ OutboxMatchesEvents'
       /\ AnswersAreStable' /\ EventsKeepTheirEndpoint'
  <2>1. answered' = answered \cup {[key |-> RequestKey(r), id |-> reply[r]]}
    BY DEF Respond
  <2>2. AnswersAreStable'
    BY <1>2, <1>11, <2>1 DEF AnswersAreStable, EventKeysUnique
  <2>3. QED
    BY <1>2, <2>2 DEF EventKeysUnique, OutboxMatchesEvents, EventsKeepTheirEndpoint
<1>13. QED
  BY <1>1, <1>12, <1>4, <1>5, <1>6, <1>7, <1>8, <1>9, <1>10

\* PostgreSQL forgets an orphaned transaction with all it held.
LEMMA AbortOrphanInv ==
    ASSUME IngestionInv, NEW r \in Requests, AbortOrphan(r)
    PROVE  IngestionInv'
<1>. USE DEF IngestionInv, tables, endpointVars
<1>1. TypeOK'
  BY RequestStepType DEF RequestStep
<1>2. UNCHANGED <<tables, endpointVars, answered>>
  BY DEF AbortOrphan
<1>3. /\ pc[r] = "orphaned"
      /\ draft' = [draft EXCEPT ![r] = Null]
      /\ queued' = queued \ {r}
      /\ tenant' = [tenant EXCEPT ![r] = Empty]
      /\ pc' = [pc EXCEPT ![r] = "idle"]
      /\ delivery' = [delivery EXCEPT ![r] = Null]
      /\ reply' = [reply EXCEPT ![r] = Null]
      /\ failure' = [failure EXCEPT ![r] = "none"]
      /\ admissible' = admissible \ {r}
  BY DEF AbortOrphan, EndTransaction, Release, GoTo
<1>4. ContextEstablished'
  BY <1>2, <1>3 DEF TypeOK, ContextEstablished
<1>5. DraftsBelong'
  BY <1>2, <1>3 DEF TypeOK, DraftsBelong, RequestKey
<1>6. DraftsAreNew'
  BY <1>2, <1>3 DEF TypeOK, DraftsAreNew
<1>7. DraftsKeepTheirEndpoint'
  BY <1>2, <1>3 DEF TypeOK, DraftsKeepTheirEndpoint, DraftsBelong
<1>8. RepliesAreCommitted'
  BY <1>2, <1>3 DEF TypeOK, RepliesAreCommitted, RequestKey
<1>9. AuthenticatedIsAdmissible'
  BY <1>2, <1>3 DEF TypeOK, AuthenticatedIsAdmissible, OpenSteps
<1>10. NoInternalError'
  BY <1>2, <1>3 DEF TypeOK, NoInternalError
<1>11. QED
  BY <1>1, <1>2, <1>4, <1>5, <1>6, <1>7, <1>8, <1>9, <1>10, TablesFrame

\* A new request holds nothing yet.
LEMMA ReceiveInv ==
    ASSUME IngestionInv, NEW r \in Requests, NEW d \in Delivery, Receive(r, d)
    PROVE  IngestionInv'
<1>. USE DEF IngestionInv, tables, endpointVars
<1>1. TypeOK'
  BY DEF TypeOK, Receive, GoTo, Steps, OpenSteps
<1>2. UNCHANGED <<tables, endpointVars, tenant, draft, queued, reply, failure, answered>>
  BY DEF Receive
<1>3. /\ pc[r] = "idle" /\ draft[r] = Null /\ d # Null
      /\ pc' = [pc EXCEPT ![r] = "resolve"]
      /\ delivery' = [delivery EXCEPT ![r] = d]
      /\ admissible' = IF status[d.endpoint] = "enabled"
                       THEN admissible \cup {r} ELSE admissible
  BY NullAssumption DEF Receive, GoTo, DraftsBelong
<1>4. ContextEstablished'
  BY <1>2, <1>3 DEF TypeOK, ContextEstablished
<1>5. DraftsBelong'
  BY <1>2, <1>3 DEF TypeOK, DraftsBelong, RequestKey
<1>6. DraftsAreNew'
  BY <1>2, <1>3 DEF TypeOK, DraftsAreNew
<1>7. DraftsKeepTheirEndpoint'
  BY <1>2, <1>3 DEF TypeOK, DraftsKeepTheirEndpoint, DraftsBelong
<1>8. RepliesAreCommitted'
  BY <1>2, <1>3 DEF TypeOK, RepliesAreCommitted, RequestKey
<1>9. AuthenticatedIsAdmissible'
  BY <1>2, <1>3 DEF TypeOK, AuthenticatedIsAdmissible, OpenSteps
<1>10. NoInternalError'
  BY <1>2, <1>3 DEF TypeOK, NoInternalError
<1>11. QED
  BY <1>1, <1>2, <1>4, <1>5, <1>6, <1>7, <1>8, <1>9, <1>10, TablesFrame

\* Creating or enabling an endpoint makes the requests towards it admissible.
LEMMA SetEnabledInv ==
    ASSUME IngestionInv, NEW e \in Endpoints, CreateEndpoint(e) \/ SetEnabled(e)
    PROVE  IngestionInv'
<1>. USE DEF IngestionInv, tables, endpointVars, requestVars
<1>1. TypeOK'
  BY DEF TypeOK, CreateEndpoint, SetEnabled, Towards, Statuses
<1>2. UNCHANGED <<tables, deleting, requestVars, answered>>
  BY DEF CreateEndpoint, SetEnabled
<1>3. \/ /\ status' = [status EXCEPT ![e] = "enabled"]
         /\ status[e] \in {"absent", "disabled"}
         /\ admissible' = admissible \cup
              {r \in Requests : delivery[r] # Null /\ delivery[r].endpoint = e}
      \/ /\ status' = [status EXCEPT ![e] = "disabled"]
         /\ UNCHANGED admissible
  BY DEF CreateEndpoint, SetEnabled, Towards
<1>4. ContextEstablished'
  BY <1>2, <1>3 DEF TypeOK, ContextEstablished
<1>5. DraftsBelong'
  BY <1>2, <1>3 DEF TypeOK, DraftsBelong, RequestKey
<1>6. DraftsAreNew'
  BY <1>2, <1>3 DEF TypeOK, DraftsAreNew
<1>7. DraftsKeepTheirEndpoint'
  BY <1>2, <1>3 DEF TypeOK, DraftsKeepTheirEndpoint, ContextEstablished,
                       Towards, Delivery
<1>8. RepliesAreCommitted'
  BY <1>2, <1>3 DEF TypeOK, RepliesAreCommitted, RequestKey
<1>9. AuthenticatedIsAdmissible'
  BY <1>2, <1>3 DEF TypeOK, AuthenticatedIsAdmissible, ContextEstablished,
                       Delivery
<1>10. NoInternalError'
  BY <1>2, <1>3 DEF TypeOK, NoInternalError
<1>11. EventKeysUnique' /\ OutboxMatchesEvents' /\ AnswersAreStable'
  BY <1>2 DEF EventKeysUnique, OutboxMatchesEvents, AnswersAreStable
<1>12. EventsKeepTheirEndpoint'
  BY <1>2, <1>3 DEF TypeOK, EventsKeepTheirEndpoint, EventRow, EventKey
<1>13. QED
  BY <1>1, <1>4, <1>5, <1>6, <1>7, <1>8, <1>9, <1>10, <1>11, <1>12

\* A DELETE starts only where no event exists and no foreign key has been taken.
LEMMA BeginDeleteInv ==
    ASSUME IngestionInv, NEW e \in Endpoints, BeginDelete(e)
    PROVE  IngestionInv'
<1>. USE DEF IngestionInv, tables, endpointVars, requestVars
<1>1. TypeOK'
  BY DEF TypeOK, BeginDelete, Towards
<1>2. UNCHANGED <<tables, status, requestVars, answered, admissible>>
  BY DEF BeginDelete
<1>3. /\ \A r \in Towards(e) : draft[r] # Null => pc[r] = "foreign_key"
      /\ \A row \in events : row.key.endpoint # e
      /\ deleting' = deleting \cup {e}
  BY DEF BeginDelete, Towards
<1>4. ContextEstablished'
  BY <1>2, <1>3 DEF TypeOK, ContextEstablished
<1>5. DraftsBelong'
  BY <1>2, <1>3 DEF TypeOK, DraftsBelong, RequestKey
<1>6. DraftsAreNew'
  BY <1>2, <1>3 DEF TypeOK, DraftsAreNew
<1>7. DraftsKeepTheirEndpoint'
  BY <1>2, <1>3 DEF TypeOK, DraftsKeepTheirEndpoint, ContextEstablished,
                       Towards, Delivery
<1>8. RepliesAreCommitted'
  BY <1>2, <1>3 DEF TypeOK, RepliesAreCommitted, RequestKey
<1>9. AuthenticatedIsAdmissible'
  BY <1>2, <1>3 DEF TypeOK, AuthenticatedIsAdmissible, ContextEstablished,
                       Delivery
<1>10. NoInternalError'
  BY <1>2, <1>3 DEF TypeOK, NoInternalError
<1>11. EventKeysUnique' /\ OutboxMatchesEvents' /\ AnswersAreStable'
  BY <1>2 DEF EventKeysUnique, OutboxMatchesEvents, AnswersAreStable
<1>12. EventsKeepTheirEndpoint'
  BY <1>2, <1>3 DEF TypeOK, EventsKeepTheirEndpoint, EventRow, EventKey
<1>13. QED
  BY <1>1, <1>4, <1>5, <1>6, <1>7, <1>8, <1>9, <1>10, <1>11, <1>12

\* While a DELETE was open no event passed its foreign key.
LEMMA EndDeleteInv ==
    ASSUME IngestionInv, NEW e \in Endpoints, EndDelete(e)
    PROVE  IngestionInv'
<1>. USE DEF IngestionInv, tables, endpointVars, requestVars
<1>1. TypeOK'
  BY DEF TypeOK, EndDelete, Statuses
<1>2. UNCHANGED <<tables, requestVars, answered, admissible>>
  BY DEF EndDelete
<1>3. /\ e \in deleting
      /\ deleting' = deleting \ {e}
      /\ status' = [status EXCEPT ![e] = "deleted"] \/ status' = status
  BY DEF EndDelete, Towards
<1>4. ContextEstablished'
  BY <1>2, <1>3 DEF TypeOK, ContextEstablished
<1>5. DraftsBelong'
  BY <1>2, <1>3 DEF TypeOK, DraftsBelong, RequestKey
<1>6. DraftsAreNew'
  BY <1>2, <1>3 DEF TypeOK, DraftsAreNew
<1>7. DraftsKeepTheirEndpoint'
  BY <1>2, <1>3 DEF TypeOK, DraftsKeepTheirEndpoint, ContextEstablished,
                       Towards, Delivery
<1>8. RepliesAreCommitted'
  BY <1>2, <1>3 DEF TypeOK, RepliesAreCommitted, RequestKey
<1>9. AuthenticatedIsAdmissible'
  BY <1>2, <1>3 DEF TypeOK, AuthenticatedIsAdmissible, ContextEstablished,
                       Delivery
<1>10. NoInternalError'
  BY <1>2, <1>3 DEF TypeOK, NoInternalError
<1>11. EventKeysUnique' /\ OutboxMatchesEvents' /\ AnswersAreStable'
  BY <1>2 DEF EventKeysUnique, OutboxMatchesEvents, AnswersAreStable
<1>12. EventsKeepTheirEndpoint'
  BY <1>2, <1>3 DEF TypeOK, EventsKeepTheirEndpoint, EventRow, EventKey
<1>13. QED
  BY <1>1, <1>4, <1>5, <1>6, <1>7, <1>8, <1>9, <1>10, <1>11, <1>12

\* The invariant holds of an empty database with idle request slots.
LEMMA InitInv == Init => IngestionInv
BY MaxFailuresAssumption
DEF Init, IngestionInv, TypeOK, Steps, ContextEstablished, DraftsBelong, DraftsAreNew,
    DraftsKeepTheirEndpoint, RepliesAreCommitted, AuthenticatedIsAdmissible,
    EventKeysUnique, OutboxMatchesEvents, AnswersAreStable, EventsKeepTheirEndpoint,
    NoInternalError, OpenSteps

\* A stuttering step keeps it too.
LEMMA StutterInv == IngestionInv /\ UNCHANGED vars => IngestionInv'
BY DEF vars, IngestionInv, TypeOK, ContextEstablished, DraftsBelong, DraftsAreNew,
    DraftsKeepTheirEndpoint, RepliesAreCommitted, AuthenticatedIsAdmissible,
    EventKeysUnique, OutboxMatchesEvents, AnswersAreStable, EventsKeepTheirEndpoint,
    NoInternalError, RequestKey

\* Every step of the system keeps the invariant.
LEMMA NextInv == IngestionInv /\ [Next]_vars => IngestionInv'
<1>. SUFFICES ASSUME IngestionInv, [Next]_vars
              PROVE  IngestionInv'
  OBVIOUS
<1>1. CASE \E r \in Requests, d \in Delivery : Receive(r, d)
  BY <1>1, ReceiveInv
<1>2. CASE \E r \in Requests : RequestStep(r)
  BY <1>2, AuthenticateInv, SetTenantContextInv, InsertEventInv, CheckForeignKeyInv,
     SelectExistingInv, FlushOutboxInv, CommitInv, RespondInv, UnwindInv, AbortOrphanInv
  DEF RequestStep
<1>3. CASE \E r \in Requests : FailureStep(r)
  BY <1>3, LoseConnectionInv, CommitUnacknowledgedInv, LoseResponseInv DEF FailureStep
<1>4. CASE \E e \in Endpoints : OwnerStep(e)
  BY <1>4, SetEnabledInv, BeginDeleteInv, EndDeleteInv DEF OwnerStep
<1>5. CASE UNCHANGED vars
  BY <1>5, StutterInv
<1>6. QED
  BY <1>1, <1>2, <1>3, <1>4, <1>5 DEF Next

-----------------------------------------------------------------------------
(* The theorems *)

\* The conjuncts of the invariant hold in every reachable state, whatever the
\* number of requests, endpoints, keys and failures.
THEOREM InvariantHolds == Spec => []IngestionInv
BY InitInv, NextInv, PTL DEF Spec

\* Type correctness.
THEOREM TypeCorrect == Spec => []TypeOK
<1>1. IngestionInv => TypeOK
  BY DEF IngestionInv
<1>2. QED
  BY <1>1, InvariantHolds, PTL

\* Concurrent, failing and repeated deliveries of a key leave at most one event.
THEOREM KeysStayUnique == Spec => []EventKeysUnique
<1>1. IngestionInv => EventKeysUnique
  BY DEF IngestionInv
<1>2. QED
  BY <1>1, InvariantHolds, PTL

\* No event without its outbox row, no outbox row without its event.
THEOREM OutboxIsAtomic == Spec => []OutboxMatchesEvents
<1>1. IngestionInv => OutboxMatchesEvents
  BY DEF IngestionInv
<1>2. QED
  BY <1>1, InvariantHolds, PTL

\* Every successful answer names the one committed event of its key.
THEOREM AnswersStayStable == Spec => []AnswersAreStable
<1>1. IngestionInv => AnswersAreStable
  BY DEF IngestionInv
<1>2. QED
  BY <1>1, InvariantHolds, PTL

\* No event ever loses its endpoint to a concurrent DELETE.
THEOREM EndpointsAreKept == Spec => []EventsKeepTheirEndpoint
<1>1. IngestionInv => EventsKeepTheirEndpoint
  BY DEF IngestionInv
<1>2. QED
  BY <1>1, InvariantHolds, PTL

\* The RuntimeError of persist_webhook_event and refusals by policy never happen.
THEOREM NoInternalErrors == Spec => []NoInternalError
<1>1. IngestionInv => NoInternalError
  BY DEF IngestionInv
<1>2. QED
  BY <1>1, InvariantHolds, PTL

\* An endpoint disabled before a request came in admits nothing from it.
THEOREM DisabledAdmitsNothing == Spec => []OnlyAdmissibleEventsWritten
<1>1. IngestionInv => OnlyAdmissibleEventsWritten
  BY DEF IngestionInv, AuthenticatedIsAdmissible, OnlyAdmissibleEventsWritten
<1>2. QED
  BY <1>1, InvariantHolds, PTL

-----------------------------------------------------------------------------
(* Refinement of IngestionSpec *)

\* What does not touch the tables or the answers is invisible to the promise.
LEMMA InvisibleStep ==
    ASSUME UNCHANGED <<tables, answered>>
    PROVE  UNCHANGED Abstract!vars
BY DEF tables, Abstract!vars

\* An exception is invisible.
LEMMA RaiseInvisible ==
    ASSUME NEW r, NEW why, Raise(r, why)
    PROVE  UNCHANGED Abstract!vars
BY InvisibleStep DEF Raise

\* COMMIT accepts the key of the draft, or is invisible when there is none.
LEMMA PublishAccepts ==
    ASSUME IngestionInv, NEW r \in Requests, pc[r] = "commit", Publish(r),
           UNCHANGED answered
    PROVE  [Abstract!Next]_(Abstract!vars)
<1>. USE DEF IngestionInv
<1>1. CASE draft[r] = Null
  <2>1. UNCHANGED <<tables, answered>>
    BY <1>1 DEF Publish, DraftsBelong, tables
  <2>2. QED
    BY <2>1, InvisibleStep
<1>2. CASE draft[r] # Null
  <2>1. PICK key \in EventKey, id \in EventIds : key = draft[r].key /\ id = draft[r].id
    BY <1>2 DEF TypeOK, EventRow
  <2>. DEFINE pair(row) == [key |-> row.key, id |-> row.id]
              message == [organization |-> key.organization, event |-> id]
              accepted == {pair(row) : row \in events}
              waiting == {row.event : row \in outbox}
  <2>2. events' = events \cup {draft[r]}
    BY <1>2 DEF Publish
  <2>3. outbox' = outbox \cup {message}
    BY <1>2, <2>1 DEF Publish, DraftsBelong
  <2>4. \A row \in events : row.key # key /\ row.id # id
    BY <1>2, <2>1 DEF DraftsAreNew
  <2>5. \A a \in accepted : a.key # key /\ a.id # id
    BY <2>4
  <2>6. accepted' = accepted \cup {[key |-> key, id |-> id]}
    BY <2>1, <2>2
  <2>7. waiting' = waiting \cup {id}
    <3>1. message.event = id
      OBVIOUS
    <3>. HIDE DEF message
    <3>2. QED
      BY <2>3, <3>1
  <2>8. Abstract!Accept(key, id)
    BY <2>5, <2>6, <2>7 DEF Abstract!Accept
  <2>9. QED
    BY <2>8 DEF Abstract!Next
<1>3. QED
  BY <1>1, <1>2

\* A successful response answers with an accepted key.
LEMMA RespondAnswers ==
    ASSUME IngestionInv, NEW r \in Requests, Respond(r)
    PROVE  Abstract!Next
<1>1. PICK row \in events : row.key = RequestKey(r) /\ row.id = reply[r]
  BY DEF IngestionInv, RepliesAreCommitted, Respond
<1>2. Abstract!Answer([key |-> row.key, id |-> row.id])
  BY <1>1 DEF Abstract!Answer, Respond, tables
<1>3. QED
  BY <1>1, <1>2 DEF Abstract!Next

\* Every other step of a request is invisible.
LEMMA RequestStepRefines ==
    ASSUME IngestionInv, NEW r \in Requests, RequestStep(r)
    PROVE  [Abstract!Next]_(Abstract!vars)
<1>1. CASE Authenticate(r)
  BY <1>1, RaiseInvisible, InvisibleStep DEF Authenticate, Proceed
<1>2. CASE SetTenantContext(r)
  BY <1>2, InvisibleStep DEF SetTenantContext
<1>3. CASE InsertEvent(r)
  BY <1>3, RaiseInvisible, InvisibleStep DEF InsertEvent
<1>4. CASE CheckForeignKey(r)
  BY <1>4, RaiseInvisible, InvisibleStep DEF CheckForeignKey, Proceed
<1>5. CASE SelectExisting(r)
  BY <1>5, RaiseInvisible, InvisibleStep DEF SelectExisting
<1>6. CASE FlushOutbox(r)
  BY <1>6, RaiseInvisible, InvisibleStep DEF FlushOutbox
<1>7. CASE Commit(r)
  BY <1>7, PublishAccepts DEF Commit
<1>8. CASE Respond(r)
  BY <1>8, RespondAnswers
<1>9. CASE Unwind(r) \/ AbortOrphan(r)
  BY <1>9, InvisibleStep DEF Unwind, AbortOrphan
<1>10. QED
  BY <1>1, <1>2, <1>3, <1>4, <1>5, <1>6, <1>7, <1>8, <1>9 DEF RequestStep

\* Every step of the system is a step of the promise or invisible to it.
LEMMA StepRefines ==
    IngestionInv /\ [Next]_vars => [Abstract!Next]_(Abstract!vars)
<1>. SUFFICES ASSUME IngestionInv, [Next]_vars
              PROVE  [Abstract!Next]_(Abstract!vars)
  OBVIOUS
<1>1. CASE \E r \in Requests, d \in Delivery : Receive(r, d)
  BY <1>1, InvisibleStep DEF Receive
<1>2. CASE \E r \in Requests : RequestStep(r)
  BY <1>2, RequestStepRefines
<1>3. CASE \E r \in Requests : FailureStep(r)
  <2>. SUFFICES ASSUME NEW r \in Requests, FailureStep(r)
                PROVE  [Abstract!Next]_(Abstract!vars)
    BY <1>3
  <2>1. CASE CommitUnacknowledged(r)
    BY <2>1, PublishAccepts DEF CommitUnacknowledged
  <2>2. CASE LoseConnection(r) \/ LoseResponse(r)
    BY <2>2, InvisibleStep DEF LoseConnection, LoseResponse
  <2>3. QED
    BY <2>1, <2>2 DEF FailureStep
<1>4. CASE \E e \in Endpoints : OwnerStep(e)
  BY <1>4, InvisibleStep DEF OwnerStep, CreateEndpoint, SetEnabled, BeginDelete, EndDelete
<1>5. CASE UNCHANGED vars
  BY <1>5, InvisibleStep DEF vars, tables
<1>6. QED
  BY <1>1, <1>2, <1>3, <1>4, <1>5 DEF Next

\* Ingestion keeps its promise to senders: it implements IngestionSpec.
THEOREM IngestionRefines == Spec => ImplementsIngestionSpec
<1>1. Init => Abstract!Init
  BY DEF Init, Abstract!Init
<1>2. QED
  BY <1>1, StepRefines, InvariantHolds, PTL DEF Spec, ImplementsIngestionSpec, Abstract!Spec

=============================================================================
