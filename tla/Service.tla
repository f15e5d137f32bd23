------------------------------ MODULE Service ------------------------------
(***************************************************************************)
(* Ingestion and endpoint management over one database.  The committed     *)
(* rows of webhook_endpoints and the locks on them are those of            *)
(* WebhookEndpoints; events refer to them by a foreign key.  What each     *)
(* module alone leaves to its environment, the other one does here:        *)
(* Ingestion's owner is the management API, and the events that            *)
(* WebhookEndpoints finds stored are those that Ingestion commits.         *)
(***************************************************************************)
EXTENDS Rls, Naturals, FiniteSets

CONSTANTS
    Requests,       \* request slots: each serves one request of either kind
    Endpoints,
    Organizations,
    ExternalIds,
    EventIds,
    OrganizationOf, \* the organization that a generated endpoint id will serve
    MaxFailures

VARIABLES
    rows, writer, pending, used, deleted, wpc, request, loaded, answer,
    events, outbox, ipc, delivery, tenant, draft, queued, reply, failure,
    answered, admissible, failures

managementVars == <<rows, writer, pending, used, deleted, wpc, request, loaded, answer>>
deliveryVars == <<events, outbox, ipc, delivery, tenant, draft, queued, reply,
                  failure, answered, failures>>
ingestionVars == <<deliveryVars, admissible>>
vars == <<managementVars, ingestionVars>>

-----------------------------------------------------------------------------
(* What the modules see of each other in the tables *)

\* Endpoints that a committed event refers to.
Referenced == {row.key.endpoint : row \in events}

\* What relaymaid_resolve_webhook_endpoint and the foreign key of events find.
Status ==
    [e \in Endpoints |->
        IF rows[e] # Null
        THEN IF rows[e].columns["enabled"] THEN "enabled" ELSE "disabled"
        ELSE IF e \in deleted THEN "deleted" ELSE "absent"]

\* Rows that an open transaction has deleted.
Deleting == {e \in Endpoints : writer[e] # Null /\ rows[e] # Null /\ pending[e] = Null}

I == INSTANCE Ingestion WITH pc <- ipc, status <- Status, deleting <- Deleting

W == INSTANCE WebhookEndpoints WITH
    pc <- wpc, referenced <- Referenced, Columns <- {"enabled"}, Values <- BOOLEAN

ASSUME OrganizationOfAssumption == OrganizationOf \in [Endpoints -> Organizations]
ASSUME MaxFailuresAssumption == MaxFailures \in Nat
ASSUME NullAssumption ==
    /\ Null \notin Organizations /\ Empty \notin Organizations
    /\ Null \notin I!Delivery /\ Null \notin I!EventRow /\ Null \notin EventIds
    /\ Null \notin BOOLEAN /\ Null \notin Requests
    /\ Null \notin W!Row /\ Null \notin W!Operations /\ Null \notin W!Answers

-----------------------------------------------------------------------------
(* The steps *)

\* Variant of DeleteMayRun: foreign keys take no lock on the row they refer to.
DeleteRunsAtOnce(r) == TRUE

\* The DELETE of a row waits for the transactions whose events hold it FOR KEY SHARE.
DeleteMayRun(r) ==
    wpc[r] = "execute" /\ request[r].kind = "delete"
      /\ W!Selectable(r, request[r].endpoint) =>
        \A q \in I!Towards(request[r].endpoint) :
            draft[q] # Null => ipc[q] = "foreign_key"

\* An id drawn for a new endpoint is one of the organization that draws it.
DrawsOwnIds(r) ==
    \A e \in Endpoints : writer'[e] = r /\ writer[e] # r /\ rows[e] = Null =>
        OrganizationOf[e] = request[r].organization

\* Requests under way towards an endpoint that a commit makes enabled are admissible.
Admit ==
    admissible' = admissible \cup
        UNION {I!Towards(e) : e \in {f \in Endpoints :
                  Status[f] # "enabled" /\ Status'[f] = "enabled"}}

\* Bound: each organization has an id left for every creation it has under way.
IdsLeft(organization) ==
    Cardinality({r \in Requests : /\ request[r] # Null /\ request[r].kind = "create"
                                  /\ request[r].organization = organization})
        < Cardinality({e \in Endpoints \ used : OrganizationOf[e] = organization})

ReceiveDelivery(r, d) ==
    /\ wpc[r] = "idle"
    /\ UNCHANGED managementVars
    /\ I!Receive(r, d)

\* The body of a creation does not say enabled: that column defaults to true.
ReceiveOperation(r, op) ==
    /\ ipc[r] = "idle"
    /\ op.kind = "create" => op.columns["enabled"] /\ IdsLeft(op.organization)
    /\ UNCHANGED ingestionVars
    /\ W!Receive(r, op)

IngestionStep(r) ==
    /\ UNCHANGED managementVars
    /\ I!RequestStep(r)

ManagementStep(r) ==
    /\ DeleteMayRun(r)
    /\ UNCHANGED deliveryVars
    /\ W!RequestStep(r)
    /\ DrawsOwnIds(r)
    /\ Admit

\* Lost connections, answers and acknowledgements of either kind of request.
FailureStep(r) ==
    \/ /\ UNCHANGED managementVars
       /\ I!FailureStep(r)
    \/ /\ UNCHANGED ingestionVars
       /\ W!Abort(r)

-----------------------------------------------------------------------------

Init ==
    /\ rows = [e \in Endpoints |-> Null]
    /\ writer = [e \in Endpoints |-> Null]
    /\ pending = [e \in Endpoints |-> Null]
    /\ used = {}
    /\ deleted = {}
    /\ wpc = [r \in Requests |-> "idle"]
    /\ request = [r \in Requests |-> Null]
    /\ loaded = [r \in Requests |-> Null]
    /\ answer = [r \in Requests |-> Null]
    /\ events = {}
    /\ outbox = {}
    /\ ipc = [r \in Requests |-> "idle"]
    /\ delivery = [r \in Requests |-> Null]
    /\ tenant = [r \in Requests |-> Empty]
    /\ draft = [r \in Requests |-> Null]
    /\ queued = {}
    /\ reply = [r \in Requests |-> Null]
    /\ failure = [r \in Requests |-> "none"]
    /\ answered = {}
    /\ admissible = {}
    /\ failures = 0

Next ==
    \/ \E r \in Requests, d \in I!Delivery : ReceiveDelivery(r, d)
    \/ \E r \in Requests, op \in W!Operations : ReceiveOperation(r, op)
    \/ \E r \in Requests : IngestionStep(r)
    \/ \E r \in Requests : ManagementStep(r)
    \/ \E r \in Requests : FailureStep(r)

\* All waits are for locks of other transactions, and who waits is woken, looks
\* again, and gets a lock that is free again and again.
Fairness ==
    \A r \in Requests : SF_vars(IngestionStep(r)) /\ SF_vars(ManagementStep(r))

Spec == Init /\ [][Next]_vars

FairSpec == Spec /\ Fairness

-----------------------------------------------------------------------------
(* Properties *)

\* Ingestion holds up in the service: whatever the management API does to an
\* endpoint is something that Ingestion expects of its owner, locks included.
ImplementsIngestion == I!Spec

\* Endpoint management holds up in the service: events are stored only for rows
\* that are there and that no open DELETE has taken.
ImplementsWebhookEndpoints == W!Spec

\* Deliveries and management requests that wait for each other's locks all end.
EveryRequestEnds ==
    \A r \in Requests :
        /\ ipc[r] # "idle" ~> ipc[r] = "idle"
        /\ wpc[r] # "idle" ~> wpc[r] = "idle"

-----------------------------------------------------------------------------
(* What makes the steps of the service steps of its parts *)

CreationsAreEnabled ==
    \A r \in Requests : request[r] # Null /\ request[r].kind = "create" =>
        request[r].columns["enabled"]

ServiceInv ==
    /\ I!IngestionInv
    /\ W!EndpointsInv
    /\ CreationsAreEnabled

=============================================================================
