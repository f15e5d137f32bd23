--------------------------- MODULE ServiceProofs ---------------------------
(***************************************************************************)
(* Ingestion and endpoint management, composed over one database, are what *)
(* each of them is proved about on its own: for any requests, endpoints,   *)
(* organizations and events.                                               *)
(***************************************************************************)
EXTENDS Service, TLAPS

\* The two modules again, with what is proved about them.
IP == INSTANCE IngestionProofs WITH pc <- ipc, status <- Status, deleting <- Deleting

WP == INSTANCE WebhookEndpointsProofs WITH
    pc <- wpc, referenced <- Referenced, Columns <- {"enabled"}, Values <- BOOLEAN

-----------------------------------------------------------------------------
(* The lemmas of the two modules, under the names of Service *)

\* IngestionInv is the same formula in both instances.
LEMMA SameIngestionInv == IP!IngestionInv <=> I!IngestionInv
BY DEF IP!IngestionInv, IP!TypeOK, IP!ContextEstablished, IP!DraftsBelong,
       IP!DraftsAreNew, IP!DraftsKeepTheirEndpoint, IP!RepliesAreCommitted,
       IP!AuthenticatedIsAdmissible, IP!EventKeysUnique, IP!OutboxMatchesEvents,
       IP!AnswersAreStable, IP!EventsKeepTheirEndpoint, IP!NoInternalError,
       IP!EventRow, IP!OutboxRow, IP!Statuses, IP!Steps, IP!Delivery, IP!Failures,
       IP!EventKey, IP!RequestKey, IP!Exists, IP!OpenSteps, IP!KeyOf,
       I!IngestionInv, I!TypeOK, I!ContextEstablished, I!DraftsBelong,
       I!DraftsAreNew, I!DraftsKeepTheirEndpoint, I!RepliesAreCommitted,
       I!AuthenticatedIsAdmissible, I!EventKeysUnique, I!OutboxMatchesEvents,
       I!AnswersAreStable, I!EventsKeepTheirEndpoint, I!NoInternalError,
       I!EventRow, I!OutboxRow, I!Statuses, I!Steps, I!Delivery, I!Failures,
       I!EventKey, I!RequestKey, I!Exists, I!OpenSteps, I!KeyOf

LEMMA SameIngestionNext == [IP!Next]_(IP!vars) <=> [I!Next]_(I!vars)
BY DEF IP!Next, IP!vars, IP!Delivery, IP!Receive, IP!RequestStep, IP!FailureStep,
       IP!OwnerStep, IP!GoTo, IP!tables, IP!endpointVars, IP!Authenticate,
       IP!SetTenantContext, IP!InsertEvent, IP!CheckForeignKey, IP!SelectExisting,
       IP!FlushOutbox, IP!Commit, IP!Respond, IP!Unwind, IP!AbortOrphan,
       IP!LoseConnection, IP!CommitUnacknowledged, IP!LoseResponse,
       IP!CreateEndpoint, IP!SetEnabled, IP!BeginDelete, IP!EndDelete, IP!Raise,
       IP!Proceed, IP!TenantPolicy, IP!RequestKey, IP!InFlight, IP!FreshIds,
       IP!Exists, IP!ExistingEvents, IP!Publish, IP!Release, IP!EndTransaction,
       IP!OpenSteps, IP!Fail, IP!Towards, IP!requestVars, IP!Matches, IP!KeyOf,
       IP!CurrentSetting, I!Next, I!vars, I!Delivery, I!Receive, I!RequestStep,
       I!FailureStep, I!OwnerStep, I!GoTo, I!tables, I!endpointVars,
       I!Authenticate, I!SetTenantContext, I!InsertEvent, I!CheckForeignKey,
       I!SelectExisting, I!FlushOutbox, I!Commit, I!Respond, I!Unwind,
       I!AbortOrphan, I!LoseConnection, I!CommitUnacknowledged, I!LoseResponse,
       I!CreateEndpoint, I!SetEnabled, I!BeginDelete, I!EndDelete, I!Raise,
       I!Proceed, I!TenantPolicy, I!RequestKey, I!InFlight, I!FreshIds, I!Exists,
       I!ExistingEvents, I!Publish, I!Release, I!EndTransaction, I!OpenSteps,
       I!Fail, I!Towards, I!requestVars, I!Matches, I!KeyOf, I!CurrentSetting

LEMMA SameIngestionInit == IP!Init <=> I!Init
BY DEF IP!Init, IP!Statuses, I!Init, I!Statuses

\* EndpointsInv is the same formula in both instances.
LEMMA SameEndpointsInv == WP!EndpointsInv <=> W!EndpointsInv
BY DEF WP!EndpointsInv, WP!TypeOK, WP!RequestsAreWhole, WP!WritesAreOwn,
       WP!IdsAreUsed, WP!TenantsAreIsolated, WP!DeletedStaysDeleted,
       WP!ReferencedIsKept, WP!Row, WP!Operations, WP!Answers,
       WP!OfTenantOrDeleted, WP!Creations, WP!Listings, WP!Reads, WP!Patches,
       WP!Deletions, WP!Statuses, WP!Changes, W!EndpointsInv, W!TypeOK,
       W!RequestsAreWhole, W!WritesAreOwn, W!IdsAreUsed, W!TenantsAreIsolated,
       W!DeletedStaysDeleted, W!ReferencedIsKept, W!Row, W!Operations, W!Answers,
       W!OfTenantOrDeleted, W!Creations, W!Listings, W!Reads, W!Patches,
       W!Deletions, W!Statuses, W!Changes

LEMMA SameEndpointsNext == [WP!Next]_(WP!vars) <=> [W!Next]_(W!vars)
<1>1. WP!Operations = W!Operations
  BY DEF WP!Operations, WP!Creations, WP!Listings, WP!Reads, WP!Patches, WP!Deletions,
         WP!Changes, W!Operations, W!Creations, W!Listings, W!Reads, W!Patches,
         W!Deletions, W!Changes
<1>2. \A r, op : WP!Receive(r, op) <=> W!Receive(r, op)
  <2>1. \A r : WP!IdsLeft(r) <=> W!IdsLeft(r)
    BY DEF WP!IdsLeft, WP!Creating, W!IdsLeft, W!Creating
  <2>2. QED
    BY <2>1 DEF WP!Receive, WP!tableVars, WP!lockVars, W!Receive, W!tableVars, W!lockVars
<1>3. \A r, e : WP!Selectable(r, e) <=> W!Selectable(r, e)
  BY DEF WP!Selectable, WP!TenantPolicy, WP!Matches, WP!CurrentSetting, W!Selectable,
         W!TenantPolicy, W!Matches, W!CurrentSetting
<1>4. \A r, status : WP!Fail(r, status) <=> W!Fail(r, status)
  BY DEF WP!Fail, WP!Decide, WP!tableVars, WP!lockVars, W!Fail, W!Decide, W!tableVars,
         W!lockVars
<1>5. \A r : WP!Create(r) <=> W!Create(r)
  BY DEF WP!Create, WP!Write, WP!Decide, W!Create, W!Write, W!Decide
<1>6. \A r : WP!List(r) <=> W!List(r)
  BY <1>3 DEF WP!List, WP!Decide, WP!tableVars, WP!lockVars, W!List, W!Decide, W!tableVars,
         W!lockVars
<1>7. \A r : WP!Get(r) <=> W!Get(r)
  BY <1>3, <1>4 DEF WP!Get, WP!Decide, WP!tableVars, WP!lockVars, W!Get, W!Decide,
         W!tableVars, W!lockVars
<1>8. \A r : WP!LoadForPatch(r) <=> W!LoadForPatch(r)
  BY <1>3, <1>4 DEF WP!LoadForPatch, WP!tableVars, WP!lockVars, W!LoadForPatch,
         W!tableVars, W!lockVars
<1>9. \A r : WP!FlushPatch(r) <=> W!FlushPatch(r)
  <2>1. \A r : WP!NetChanges(r) = W!NetChanges(r)
    BY DEF WP!NetChanges, W!NetChanges
  <2>2. \A r, row : WP!Patched(r, row) = W!Patched(r, row)
    BY DEF WP!Patched, W!Patched
  <2>3. QED
    BY <1>4, <2>1, <2>2 DEF WP!FlushPatch, WP!Locked, WP!Write, WP!Decide, WP!tableVars,
       WP!lockVars, W!FlushPatch, W!Locked, W!Write, W!Decide, W!tableVars, W!lockVars
<1>10. \A r : WP!Delete(r) <=> W!Delete(r)
  BY <1>3, <1>4 DEF WP!Delete, WP!Locked, WP!Write, WP!Decide, WP!tableVars,
     W!Delete, W!Locked, W!Write, W!Decide, W!tableVars
<1>11. \A r : WP!Commit(r) <=> W!Commit(r)
  BY DEF WP!Commit, WP!ReleaseLocks, WP!Decide, W!Commit, W!ReleaseLocks, W!Decide
<1>12. \A r : WP!Abort(r) <=> W!Abort(r)
  BY DEF WP!Abort, WP!ReleaseLocks, WP!Decide, WP!tableVars, W!Abort, W!ReleaseLocks,
         W!Decide, W!tableVars
<1>13. \A r : WP!Respond(r) <=> W!Respond(r)
  BY DEF WP!Respond, WP!tableVars, WP!lockVars, W!Respond, W!tableVars, W!lockVars
<1>14. \A e : WP!StoreEvent(e) <=> W!StoreEvent(e)
  BY DEF WP!StoreEvent, WP!lockVars, W!StoreEvent, W!lockVars
<1>15. WP!Next <=> W!Next
  BY <1>1, <1>2, <1>5, <1>6, <1>7, <1>8, <1>9, <1>10, <1>11, <1>12, <1>13, <1>14
     DEF WP!Next, WP!RequestStep, W!Next, W!RequestStep
<1>16. QED
  BY <1>15 DEF WP!vars, W!vars

LEMMA SameEndpointsInit == WP!Init <=> W!Init
BY DEF WP!Init, W!Init

\* What IngestionProofs proves of one step.
LEMMA IngestionNextInv == I!IngestionInv /\ [I!Next]_(I!vars) => I!IngestionInv'
<1>1. IP!IngestionInv /\ [IP!Next]_(IP!vars) => IP!IngestionInv'
  BY IP!NextInv, OrganizationOfAssumption, MaxFailuresAssumption, NullAssumption
     DEF IP!OrganizationOfAssumption, IP!MaxFailuresAssumption, IP!SettingAssumption,
         IP!NullAssumption, IP!Delivery, IP!EventRow, IP!EventKey, I!Delivery, I!EventRow,
         I!EventKey
<1>2. IP!IngestionInv' <=> I!IngestionInv'
  BY SameIngestionInv, PTL
<1>3. QED
  BY <1>1, <1>2, SameIngestionInv, SameIngestionNext

\* What WebhookEndpointsProofs proves of one step.
LEMMA EndpointsNextInv == W!EndpointsInv /\ [W!Next]_(W!vars) => W!EndpointsInv'
<1>1. WP!EndpointsInv /\ [WP!Next]_(WP!vars) => WP!EndpointsInv'
  BY WP!NextInv, NullAssumption
     DEF WP!NullAssumption, WP!Row, WP!Operations, WP!Answers, WP!Creations, WP!Listings, WP!Reads,
       WP!Patches, WP!Deletions, WP!Statuses, WP!Changes, W!Row, W!Operations,
       W!Answers, W!Creations, W!Listings, W!Reads, W!Patches, W!Deletions,
       W!Statuses, W!Changes
<1>2. WP!EndpointsInv' <=> W!EndpointsInv'
  BY SameEndpointsInv, PTL
<1>3. QED
  BY <1>1, <1>2, SameEndpointsInv, SameEndpointsNext

-----------------------------------------------------------------------------
(* What a step of one part leaves of what the other part sees *)

LEMMA SeenAsBefore ==
    /\ UNCHANGED <<rows, deleted>> => Status' = Status
    /\ UNCHANGED <<rows, writer, pending>> => Deleting' = Deleting
    /\ UNCHANGED events => Referenced' = Referenced
BY DEF Status, Deleting, Referenced

\* Ingestion sees nothing of a step that leaves the rows and their deletions alone.
LEMMA IngestionStutters ==
    ASSUME UNCHANGED <<rows, deleted, Deleting>>, UNCHANGED deliveryVars,
           Admit \/ UNCHANGED admissible
    PROVE  UNCHANGED I!vars
<1>1. Status' = Status
  BY SeenAsBefore
<1>2. admissible' = admissible
  BY <1>1 DEF Admit
<1>3. QED
  BY <1>1, <1>2 DEF deliveryVars, I!vars

\* Endpoint management sees nothing of a step that commits no event.
LEMMA ManagementStutters ==
    ASSUME UNCHANGED managementVars, UNCHANGED events
    PROVE  UNCHANGED W!vars
BY SeenAsBefore DEF managementVars, W!vars

\* Of a delivery, endpoint management sees the event that its commit stores.
LEMMA DeliveryIsStoreEvent ==
    ASSUME I!IngestionInv, NEW r \in Requests, UNCHANGED managementVars,
           I!RequestStep(r) \/ I!FailureStep(r)
    PROVE  [W!Next]_(W!vars)
<1>1. CASE ipc[r] = "commit" /\ I!Publish(r) /\ draft[r] # Null
  <2>. DEFINE e == delivery[r].endpoint
  <2>1. /\ delivery[r] \in I!Delivery /\ draft[r].key = I!KeyOf(delivery[r])
        /\ events' = events \cup {draft[r]}
        /\ I!Exists(e) /\ e \notin Deleting
    BY <1>1 DEF I!IngestionInv, I!TypeOK, I!ContextEstablished, I!DraftsBelong, I!RequestKey,
                I!DraftsKeepTheirEndpoint, I!Publish
  <2>2. e \in Endpoints /\ draft[r].key.endpoint = e
    BY <2>1 DEF I!Delivery, I!KeyOf
  <2>3. rows[e] # Null
    BY <2>1, <2>2 DEF I!Exists, Status
  <2>4. Referenced' = Referenced \cup {e}
    BY <2>1, <2>2 DEF Referenced
  <2>5. W!StoreEvent(e)
    BY <2>1, <2>2, <2>3, <2>4 DEF Deleting, W!StoreEvent, W!lockVars, managementVars
  <2>6. QED
    BY <2>2, <2>5 DEF W!Next
<1>2. CASE events' = events
  BY <1>2, ManagementStutters
<1>3. events' = events \/ (ipc[r] = "commit" /\ I!Publish(r) /\ draft[r] # Null)
  <2>1. CASE I!Commit(r) \/ I!CommitUnacknowledged(r)
    BY <2>1 DEF I!Commit, I!CommitUnacknowledged, I!Publish
  <2>2. CASE I!Authenticate(r) \/ I!SetTenantContext(r) \/ I!InsertEvent(r)
             \/ I!CheckForeignKey(r) \/ I!SelectExisting(r) \/ I!FlushOutbox(r)
    BY <2>2 DEF I!Authenticate, I!SetTenantContext, I!InsertEvent, I!CheckForeignKey,
       I!SelectExisting, I!FlushOutbox, I!Raise, I!Proceed, I!tables
  <2>3. CASE I!Respond(r) \/ I!Unwind(r) \/ I!AbortOrphan(r) \/ I!LoseConnection(r)
             \/ I!LoseResponse(r)
    BY <2>3 DEF I!Respond, I!Unwind, I!AbortOrphan, I!LoseConnection, I!LoseResponse,
       I!tables
  <2>4. QED
    BY <2>1, <2>2, <2>3 DEF I!RequestStep, I!FailureStep
<1>4. QED
  BY <1>1, <1>2, <1>3

-----------------------------------------------------------------------------
(* What ingestion sees of a management request *)

\* The parts of EndpointsInv that say what a lock stands for.
LEMMA LocksMean ==
    ASSUME W!EndpointsInv, NEW e \in Endpoints, writer[e] # Null
    PROVE  LET r == writer[e] IN
           /\ r \in Requests /\ wpc[r] = "commit"
           /\ request[r].kind \in {"create", "patch", "delete"}
           /\ \A f \in Endpoints : writer[f] = r => f = e
           /\ request[r].kind = "create" =>
                 /\ rows[e] = Null /\ e \notin deleted
                 /\ pending[e] # Null /\ pending[e].columns = request[r].columns
           /\ request[r].kind = "patch" => rows[e] # Null /\ pending[e] # Null
           /\ request[r].kind = "delete" => rows[e] # Null /\ pending[e] = Null
BY DEF W!EndpointsInv, W!TypeOK, W!WritesAreOwn

\* A creation takes no row that is there.
LEMMA CreateStutters ==
    ASSUME W!EndpointsInv, NEW r \in Requests, W!Create(r), UNCHANGED deliveryVars, Admit
    PROVE  UNCHANGED I!vars
<1>1. PICK e \in Endpoints \ used :
          W!Write(r, e, [organization |-> request[r].organization,
                         columns |-> request[r].columns])
  BY DEF W!Create
<1>2. rows[e] = Null
  BY DEF W!EndpointsInv, W!IdsAreUsed
<1>3. UNCHANGED <<rows, deleted>>
  BY DEF W!Create
<1>4. Deleting' = Deleting
  BY <1>1, <1>2, <1>3 DEF Deleting, W!Write, W!EndpointsInv, W!TypeOK
<1>5. QED
  BY <1>3, <1>4, IngestionStutters

\* An uncommitted UPDATE deletes nothing.
LEMMA FlushPatchStutters ==
    ASSUME W!EndpointsInv, W!EndpointsInv', NEW r \in Requests, W!FlushPatch(r),
           UNCHANGED deliveryVars, Admit
    PROVE  UNCHANGED I!vars
<1>. DEFINE e == request[r].endpoint
<1>1. UNCHANGED <<rows, deleted, request>> /\ request[r].kind = "patch"
  BY DEF W!FlushPatch, W!Fail, W!tableVars, W!EndpointsInv, W!RequestsAreWhole
<1>2. CASE UNCHANGED <<writer, pending>>
  BY <1>1, <1>2, SeenAsBefore, IngestionStutters
<1>3. CASE ~W!Locked(e) /\ rows[e] # Null /\ \E row : W!Write(r, e, row)
  <2>1. PICK row : W!Write(r, e, row)
    BY <1>3
  <2>2. \A f \in Endpoints \ {e} : writer'[f] = writer[f] /\ pending'[f] = pending[f]
    BY <2>1 DEF W!Write, W!EndpointsInv, W!TypeOK
  <2>3. e \in Endpoints => writer[e] = Null /\ pending'[e] # Null
    <3>1. e \in Endpoints => writer'[e] = r
      BY <2>1 DEF W!Write, W!EndpointsInv, W!TypeOK
    <3>2. W!WritesAreOwn'
      BY DEF W!EndpointsInv
    <3>3. QED
      BY <1>1, <1>3, <3>1, <3>2, NullAssumption DEF W!WritesAreOwn, W!Locked
  <2>4. Deleting' = Deleting
    BY <1>1, <2>2, <2>3 DEF Deleting
  <2>5. QED
    BY <1>1, <2>4, IngestionStutters
<1>4. QED
  BY <1>2, <1>3 DEF W!FlushPatch, W!Fail, W!lockVars

\* A DELETE that runs is the owner's BeginDelete.
LEMMA DeleteBegins ==
    ASSUME W!EndpointsInv, NEW r \in Requests, W!Delete(r), DeleteMayRun(r),
           UNCHANGED deliveryVars, Admit
    PROVE  [I!Next]_(I!vars)
<1>. DEFINE e == request[r].endpoint
<1>1. UNCHANGED <<rows, deleted>> /\ wpc[r] = "execute" /\ request[r].kind = "delete"
  BY DEF W!Delete, W!Fail, W!tableVars
<1>2. CASE UNCHANGED <<writer, pending>>
  BY <1>1, <1>2, SeenAsBefore, IngestionStutters
<1>3. CASE W!Selectable(r, e) /\ ~W!Locked(e) /\ e \notin Referenced /\ W!Write(r, e, Null)
  <2>1. request[r] \in W!Operations
    BY <1>1 DEF W!EndpointsInv, W!TypeOK, W!RequestsAreWhole
  <2>2. e \in Endpoints
    BY <1>1, <2>1 DEF W!Operations, W!Creations, W!Listings, W!Reads, W!Patches, W!Deletions
  <2>3. rows[e] # Null /\ writer[e] = Null
    BY <1>3 DEF W!Selectable, W!Locked
  <2>4. /\ writer' = [writer EXCEPT ![e] = r] /\ pending' = [pending EXCEPT ![e] = Null]
        /\ writer \in [Endpoints -> Requests \cup {Null}]
        /\ pending \in [Endpoints -> W!Row \cup {Null}]
    BY <1>3 DEF W!Write, W!EndpointsInv, W!TypeOK
  <2>5. Deleting' = Deleting \cup {e}
    BY <1>1, <2>2, <2>3, <2>4, NullAssumption DEF Deleting
  <2>6. Status' = Status /\ I!Exists(e) /\ e \notin Deleting
    BY <1>1, <2>2, <2>3, SeenAsBefore DEF Status, I!Exists, Deleting
  <2>7. \A row \in events : row.key.endpoint # e
    BY <1>3 DEF Referenced
  <2>8. \A q \in I!Towards(e) : draft[q] # Null => ipc[q] = "foreign_key"
    BY <1>1, <1>3 DEF DeleteMayRun
  <2>9. UNCHANGED admissible
    BY <2>6 DEF Admit
  <2>10. I!BeginDelete(e)
    BY <2>5, <2>6, <2>7, <2>8, <2>9
       DEF I!BeginDelete, I!tables, I!requestVars, deliveryVars
  <2>11. QED
    BY <2>2, <2>10 DEF I!Next, I!OwnerStep
<1>4. QED
  BY <1>2, <1>3 DEF W!Delete, W!Fail, W!lockVars

\* Releasing the locks of a request releases the one it has.
LEMMA Released ==
    ASSUME W!EndpointsInv, NEW r \in Requests, W!ReleaseLocks(r)
    PROVE  Deleting' = {e \in Endpoints : /\ writer[e] # Null /\ writer[e] # r
                                          /\ rows'[e] # Null /\ pending[e] = Null}
BY NullAssumption DEF W!ReleaseLocks, Deleting

\* A DELETE that is rolled back ends; any other rollback is not seen.
LEMMA AbortEnds ==
    ASSUME W!EndpointsInv, NEW r \in Requests, W!Abort(r), UNCHANGED ingestionVars
    PROVE  [I!Next]_(I!vars)
<1>1. UNCHANGED <<rows, deleted>> /\ W!ReleaseLocks(r)
  BY DEF W!Abort, W!tableVars
<1>2. Status' = Status
  BY <1>1, SeenAsBefore
<1>3. Deleting' = {e \in Deleting : writer[e] # r}
  BY <1>1, Released DEF Deleting
<1>4. CASE \E e \in Deleting : writer[e] = r
  <2>1. PICK e \in Deleting : writer[e] = r
    BY <1>4
  <2>2. e \in Endpoints /\ \A f \in Endpoints : writer[f] = r => f = e
    BY <2>1, LocksMean DEF Deleting
  <2>3. Deleting' = Deleting \ {e}
    BY <1>3, <2>1, <2>2 DEF Deleting
  <2>4. I!EndDelete(e)
    BY <1>2, <2>1, <2>3
       DEF I!EndDelete, I!tables, I!requestVars, ingestionVars, deliveryVars
  <2>5. QED
    BY <2>2, <2>4 DEF I!Next, I!OwnerStep
<1>5. CASE ~\E e \in Deleting : writer[e] = r
  BY <1>1, <1>3, <1>5, IngestionStutters DEF ingestionVars
<1>6. QED
  BY <1>4, <1>5

\* A commit is the owner's CreateEndpoint, SetEnabled or EndDelete, or not seen.
LEMMA CommitIsOwnerStep ==
    ASSUME W!EndpointsInv, CreationsAreEnabled, NEW r \in Requests, W!Commit(r),
           UNCHANGED deliveryVars, Admit
    PROVE  [I!Next]_(I!vars)
<1>1. /\ rows' = [e \in Endpoints |-> IF writer[e] = r THEN pending[e] ELSE rows[e]]
      /\ deleted' = deleted \cup {e \in Endpoints : writer[e] = r /\ pending[e] = Null}
      /\ W!ReleaseLocks(r)
  BY DEF W!Commit
<1>2. CASE \A e \in Endpoints : writer[e] # r
  <2>1. UNCHANGED <<rows, deleted>>
    BY <1>1, <1>2 DEF W!EndpointsInv, W!TypeOK
  <2>2. Deleting' = Deleting
    BY <1>1, <1>2, <2>1, Released DEF Deleting
  <2>3. QED
    BY <2>1, <2>2, IngestionStutters
<1>3. CASE \E e \in Endpoints : writer[e] = r
  <2>1. PICK e \in Endpoints : writer[e] = r
    BY <1>3
  <2>2. /\ request[r].kind \in {"create", "patch", "delete"}
        /\ \A f \in Endpoints : writer[f] = r => f = e
        /\ request[r].kind = "create" =>
              /\ rows[e] = Null /\ e \notin deleted
              /\ pending[e] # Null /\ pending[e].columns = request[r].columns
        /\ request[r].kind = "patch" => rows[e] # Null /\ pending[e] # Null
        /\ request[r].kind = "delete" => rows[e] # Null /\ pending[e] = Null
    BY <2>1, LocksMean, NullAssumption
  <2>3. \A f \in Endpoints \ {e} : rows'[f] = rows[f] /\ (f \in deleted' <=> f \in deleted)
    BY <1>1, <2>2
  <2>4. rows'[e] = pending[e] /\ (pending[e] # Null => deleted' = deleted)
    BY <1>1, <2>1, <2>2
  <2>5. \A f \in Endpoints \ {e} : Status'[f] = Status[f]
    BY <2>3 DEF Status
  <2>6. Deleting' = Deleting \ {e}
    BY <1>1, <2>1, <2>2, <2>3, Released, NullAssumption DEF Deleting
  <2>7. /\ Status = [f \in Endpoints |-> Status[f]]
        /\ Status' = [f \in Endpoints |-> Status'[f]]
    BY DEF Status
  <2>8. Status' = [Status EXCEPT ![e] = Status'[e]]
    BY <2>5, <2>7
  <2>9. admissible' = IF Status[e] # "enabled" /\ Status'[e] = "enabled"
                      THEN admissible \cup I!Towards(e) ELSE admissible
    <3>1. CASE Status[e] # "enabled" /\ Status'[e] = "enabled"
      <4>1. {f \in Endpoints : Status[f] # "enabled" /\ Status'[f] = "enabled"} = {e}
        BY <2>5, <3>1
      <4>2. UNION {I!Towards(f) : f \in {e}} = I!Towards(e)
        OBVIOUS
      <4>3. QED
        BY <3>1, <4>1, <4>2 DEF Admit
    <3>2. CASE ~(Status[e] # "enabled" /\ Status'[e] = "enabled")
      <4>1. {f \in Endpoints : Status[f] # "enabled" /\ Status'[f] = "enabled"} = {}
        BY <2>5, <3>2
      <4>2. QED
        BY <3>2, <4>1 DEF Admit
    <3>3. QED
      BY <3>1, <3>2
  <2>10. I!OwnerStep(e) => I!Next
    BY DEF I!Next
  <2>11. UNCHANGED <<I!tables, I!requestVars, answered, failures>>
    BY DEF I!tables, I!requestVars, deliveryVars
  <2>12. CASE request[r].kind = "create"
    <3>1. Status[e] = "absent" /\ Status'[e] = "enabled"
      <4>1. request[r].columns["enabled"]
        BY <2>1, <2>12, LocksMean, NullAssumption DEF CreationsAreEnabled, W!EndpointsInv,
           W!RequestsAreWhole
      <4>2. QED
        BY <2>2, <2>4, <2>12, <4>1 DEF Status
    <3>2. e \notin Deleting
      BY <2>2, <2>12 DEF Deleting
    <3>3. I!CreateEndpoint(e)
      BY <2>6, <2>8, <2>9, <2>11, <3>1, <3>2 DEF I!CreateEndpoint
    <3>4. QED
      BY <2>10, <3>3 DEF I!OwnerStep
  <2>13. CASE request[r].kind = "patch"
    <3>1. e \notin Deleting
      BY <2>2, <2>13 DEF Deleting
    <3>2. Status[e] \in {"enabled", "disabled"} /\ Status'[e] \in {"enabled", "disabled"}
      BY <2>2, <2>4, <2>13 DEF Status
    <3>3. CASE Status'[e] = Status[e]
      <4>1. Status' = Status
        BY <2>5, <2>7, <3>3
      <4>2. QED
        BY <2>6, <2>9, <3>1, <3>3, <4>1 DEF I!vars, deliveryVars
    <3>4. CASE Status'[e] # Status[e]
      <4>1. I!SetEnabled(e)
        BY <2>6, <2>8, <2>9, <2>11, <3>1, <3>2, <3>4 DEF I!SetEnabled
      <4>2. QED
        BY <2>10, <4>1 DEF I!OwnerStep
    <3>5. QED
      BY <3>3, <3>4
  <2>14. CASE request[r].kind = "delete"
    <3>1. e \in Deleting
      BY <2>1, <2>2, <2>14, LocksMean, NullAssumption DEF Deleting
    <3>2. Status'[e] = "deleted"
      BY <1>1, <2>1, <2>2, <2>4, <2>14 DEF Status
    <3>3. I!EndDelete(e)
      BY <2>6, <2>8, <2>9, <2>11, <3>1, <3>2 DEF I!EndDelete
    <3>4. QED
      BY <2>10, <3>3 DEF I!OwnerStep
  <2>15. QED
    BY <2>2, <2>12, <2>13, <2>14
<1>4. QED
  BY <1>2, <1>3

-----------------------------------------------------------------------------
(* The steps of the service are steps of its parts *)

LEMMA ManagementIsOwner ==
    ASSUME W!EndpointsInv, W!EndpointsInv', CreationsAreEnabled, NEW r \in Requests,
           ManagementStep(r)
    PROVE  [I!Next]_(I!vars)
<1>1. UNCHANGED deliveryVars /\ Admit /\ DeleteMayRun(r) /\ W!RequestStep(r)
  BY DEF ManagementStep
<1>2. CASE W!List(r) \/ W!Get(r) \/ W!LoadForPatch(r) \/ W!Respond(r)
  <2>1. UNCHANGED <<rows, deleted, writer, pending>>
    BY <1>2 DEF W!List, W!Get, W!LoadForPatch, W!Respond, W!Fail, W!tableVars, W!lockVars
  <2>2. QED
    BY <1>1, <2>1, SeenAsBefore, IngestionStutters
<1>3. CASE W!Create(r)
  BY <1>1, <1>3, CreateStutters
<1>4. CASE W!FlushPatch(r)
  BY <1>1, <1>4, FlushPatchStutters
<1>5. CASE W!Delete(r)
  BY <1>1, <1>5, DeleteBegins
<1>6. CASE W!Commit(r)
  BY <1>1, <1>6, CommitIsOwnerStep
<1>7. QED
  BY <1>1, <1>2, <1>3, <1>4, <1>5, <1>6 DEF W!RequestStep

\* Every step of the service is one of endpoint management, or not seen by it.
LEMMA StepOfManagement == ServiceInv /\ [Next]_vars => [W!Next]_(W!vars)
<1>. SUFFICES ASSUME ServiceInv, [Next]_vars PROVE [W!Next]_(W!vars)
  OBVIOUS
<1>1. CASE \E r \in Requests, d \in I!Delivery : ReceiveDelivery(r, d)
  BY <1>1, ManagementStutters DEF ReceiveDelivery, I!Receive, I!tables
<1>2. CASE \E r \in Requests, op \in W!Operations : ReceiveOperation(r, op)
  BY <1>2 DEF ReceiveOperation, W!Next
<1>3. CASE \E r \in Requests : IngestionStep(r)
  BY <1>3, DeliveryIsStoreEvent DEF IngestionStep, ServiceInv
<1>4. CASE \E r \in Requests : ManagementStep(r)
  BY <1>4 DEF ManagementStep, W!Next
<1>5. CASE \E r \in Requests : FailureStep(r)
  BY <1>5, DeliveryIsStoreEvent DEF FailureStep, ServiceInv, W!Next
<1>6. CASE UNCHANGED vars
  BY <1>6, ManagementStutters DEF vars, ingestionVars, deliveryVars
<1>7. QED
  BY <1>1, <1>2, <1>3, <1>4, <1>5, <1>6 DEF Next

\* Every step of the service is one of ingestion, or not seen by it.
LEMMA StepOfIngestion == ServiceInv /\ [Next]_vars => [I!Next]_(I!vars)
<1>. SUFFICES ASSUME ServiceInv, [Next]_vars PROVE [I!Next]_(I!vars)
  OBVIOUS
<1>1. W!EndpointsInv'
  BY StepOfManagement, EndpointsNextInv DEF ServiceInv
<1>2. CASE \E r \in Requests, d \in I!Delivery : ReceiveDelivery(r, d)
  BY <1>2 DEF ReceiveDelivery, I!Next
<1>3. CASE \E r \in Requests, op \in W!Operations : ReceiveOperation(r, op)
  BY <1>3, SeenAsBefore, IngestionStutters
     DEF ReceiveOperation, W!Receive, W!tableVars, W!lockVars, ingestionVars
<1>4. CASE \E r \in Requests : IngestionStep(r)
  BY <1>4 DEF IngestionStep, I!Next
<1>5. CASE \E r \in Requests : ManagementStep(r)
  BY <1>1, <1>5, ManagementIsOwner DEF ServiceInv
<1>6. CASE \E r \in Requests : FailureStep(r)
  BY <1>6, AbortEnds DEF FailureStep, ServiceInv, I!Next
<1>7. CASE UNCHANGED vars
  BY <1>7, SeenAsBefore, IngestionStutters DEF vars, managementVars, ingestionVars
<1>8. QED
  BY <1>2, <1>3, <1>4, <1>5, <1>6, <1>7 DEF Next

-----------------------------------------------------------------------------
(* The inductive invariant *)

LEMMA InitOfParts == Init => I!Init /\ W!Init
<1>. SUFFICES ASSUME Init PROVE I!Init /\ W!Init
  OBVIOUS
<1>1. Status \in [Endpoints -> {"absent"}] /\ Deleting = {} /\ Referenced = {}
  BY DEF Init, Status, Deleting, Referenced
<1>2. I!Init
  BY <1>1 DEF Init, I!Init, I!Statuses
<1>3. W!Init
  BY <1>1 DEF Init, W!Init
<1>4. QED
  BY <1>2, <1>3

LEMMA InitInv == Init => ServiceInv
<1>. SUFFICES ASSUME Init PROVE ServiceInv
  OBVIOUS
<1>1. I!IngestionInv
  <2>1. IP!Init => IP!IngestionInv
    BY IP!InitInv, OrganizationOfAssumption, MaxFailuresAssumption, NullAssumption
       DEF IP!OrganizationOfAssumption, IP!MaxFailuresAssumption, IP!SettingAssumption,
           IP!NullAssumption, IP!Delivery, IP!EventRow, IP!EventKey, I!Delivery, I!EventRow,
           I!EventKey
  <2>2. QED
    BY <2>1, InitOfParts, SameIngestionInit, SameIngestionInv
<1>2. W!EndpointsInv
  <2>1. WP!Init => WP!EndpointsInv
    BY WP!InitInv, NullAssumption
       DEF WP!NullAssumption, WP!Row, WP!Operations, WP!Answers, WP!Creations,
           WP!Listings, WP!Reads, WP!Patches, WP!Deletions, WP!Statuses, WP!Changes, W!Row,
           W!Operations, W!Answers, W!Creations, W!Listings, W!Reads, W!Patches,
           W!Deletions, W!Statuses, W!Changes
  <2>2. QED
    BY <2>1, InitOfParts, SameEndpointsInit, SameEndpointsInv
<1>3. CreationsAreEnabled
  BY DEF Init, CreationsAreEnabled
<1>4. QED
  BY <1>1, <1>2, <1>3 DEF ServiceInv

\* Only ReceiveOperation gives a request its operation.
LEMMA CreationsStayEnabled == ServiceInv /\ [Next]_vars => CreationsAreEnabled'
<1>. SUFFICES ASSUME ServiceInv, [Next]_vars PROVE CreationsAreEnabled'
  OBVIOUS
<1>1. CreationsAreEnabled /\ request \in [Requests -> W!Operations \cup {Null}]
  BY DEF ServiceInv, W!EndpointsInv, W!TypeOK
<1>2. CASE UNCHANGED request
  BY <1>1, <1>2 DEF CreationsAreEnabled
<1>3. CASE \E r \in Requests, op \in W!Operations : ReceiveOperation(r, op)
  BY <1>1, <1>3 DEF ReceiveOperation, W!Receive, CreationsAreEnabled
<1>4. CASE \E r \in Requests : W!Respond(r)
  BY <1>1, <1>4 DEF W!Respond, CreationsAreEnabled
<1>5. ASSUME NEW r \in Requests, W!RequestStep(r) \/ W!Abort(r), ~W!Respond(r)
      PROVE  UNCHANGED request
  BY <1>5 DEF W!RequestStep, W!Create, W!List, W!Get, W!LoadForPatch, W!FlushPatch,
     W!Delete, W!Commit, W!Abort, W!Fail
<1>6. UNCHANGED managementVars => UNCHANGED request
  BY DEF managementVars
<1>7. QED
  BY <1>2, <1>3, <1>4, <1>5, <1>6
     DEF Next, vars, ReceiveDelivery, IngestionStep, ManagementStep, FailureStep

LEMMA NextInv == ServiceInv /\ [Next]_vars => ServiceInv'
BY StepOfIngestion, StepOfManagement, IngestionNextInv, EndpointsNextInv,
   CreationsStayEnabled DEF ServiceInv

\* What each part is proved to keep true, it keeps true in the service.
THEOREM InvariantHolds == Spec => []ServiceInv
BY InitInv, NextInv, PTL DEF Spec

\* Ingestion holds up in the service: the management API is the owner it expects.
THEOREM ServiceIngests == Spec => ImplementsIngestion
BY InitOfParts, InvariantHolds, StepOfIngestion, PTL DEF Spec, ImplementsIngestion, I!Spec

\* Endpoint management holds up in the service: ingestion stores events as it expects.
THEOREM ServiceManages == Spec => ImplementsWebhookEndpoints
BY InitOfParts, InvariantHolds, StepOfManagement, PTL
   DEF Spec, ImplementsWebhookEndpoints, W!Spec

=============================================================================
