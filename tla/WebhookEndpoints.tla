-------------------------- MODULE WebhookEndpoints --------------------------
(***************************************************************************)
(* The endpoint management API: create, list, get, patch and delete, each  *)
(* in its own transaction, any number of them at a time.  The principal is *)
(* established before (get_current_principal), so a request starts with    *)
(* its organization as tenant context.                                     *)
(*                                                                         *)
(* PATCH reads a row, changes the copy in memory and flushes the columns   *)
(* that differ from what it read.  At READ COMMITTED an UPDATE or DELETE   *)
(* waits for the transaction that holds the row, and then acts on the row  *)
(* that transaction left, not on the row that was read.                    *)
(***************************************************************************)
EXTENDS Rls

CONSTANTS
    Requests,       \* request slots
    Endpoints,      \* the uuid4 values of WebhookEndpoint.id
    Organizations,
    Columns,        \* name, destination_url, retry_limit, enabled
    Values          \* what a column may hold

Row == [organization : Organizations, columns : [Columns -> Values]]

\* reject_explicit_null and require_at_least_one_field: a field is a value or is
\* left out (Null), and at least one is a value.
Changes == {changes \in [Columns -> Values \cup {Null}] :
              \E c \in Columns : changes[c] # Null}

\* The bodies and paths of the five routes, with the principal's organization.
Creations == [kind : {"create"}, organization : Organizations, columns : [Columns -> Values]]
Listings == [kind : {"list"}, organization : Organizations]
Reads == [kind : {"get"}, organization : Organizations, endpoint : Endpoints]
Patches == [kind : {"patch"}, organization : Organizations, endpoint : Endpoints,
            changes : Changes]
Deletions == [kind : {"delete"}, organization : Organizations, endpoint : Endpoints]
Operations == Creations \cup Listings \cup Reads \cup Patches \cup Deletions

VARIABLES
    rows,       \* committed rows of webhook_endpoints; Null where there is none
    writer,     \* the transaction that holds an uncommitted version of a row
    pending,    \* that version; Null when it deletes the row
    used,       \* ids generated so far
    referenced, \* endpoints that a committed event refers to
    deleted,    \* history: endpoints whose deletion was committed
    pc,
    request,    \* the operation of each request
    loaded,     \* the row a PATCH has read
    answer      \* [status, rows] once the route function has decided it

vars == <<rows, writer, pending, used, referenced, deleted, pc, request, loaded, answer>>
tableVars == <<rows, used, referenced, deleted>>
lockVars == <<writer, pending>>

Statuses == {"ok", "created", "no_content", "not_found", "internal_error",
             "connection_lost"}
Answers == [status : Statuses, rows : SUBSET Row]

ASSUME NullAssumption ==
    /\ Null \notin Values /\ Null \notin Row /\ Null \notin Requests
    /\ Null \notin Operations /\ Null \notin Answers

TypeOK ==
    /\ rows \in [Endpoints -> Row \cup {Null}]
    /\ writer \in [Endpoints -> Requests \cup {Null}]
    /\ pending \in [Endpoints -> Row \cup {Null}]
    /\ used \subseteq Endpoints
    /\ referenced \subseteq Endpoints
    /\ deleted \subseteq Endpoints
    /\ pc \in [Requests -> {"idle", "execute", "flush", "commit", "finished"}]
    /\ request \in [Requests -> Operations \cup {Null}]
    /\ loaded \in [Requests -> Row \cup {Null}]
    /\ answer \in [Requests -> Answers \cup {Null}]

Init ==
    /\ rows = [e \in Endpoints |-> Null]
    /\ writer = [e \in Endpoints |-> Null]
    /\ pending = [e \in Endpoints |-> Null]
    /\ used = {}
    /\ referenced = {}
    /\ deleted = {}
    /\ pc = [r \in Requests |-> "idle"]
    /\ request = [r \in Requests |-> Null]
    /\ loaded = [r \in Requests |-> Null]
    /\ answer = [r \in Requests |-> Null]

-----------------------------------------------------------------------------

\* Variant of Selectable: neither the WHERE clause nor a policy names the tenant.
SelectableByAnyone(r, e) == rows[e] # Null

\* The committed row satisfies WHERE organization_id = ... and the tenant policy.
Selectable(r, e) ==
    /\ rows[e] # Null
    /\ rows[e].organization = request[r].organization
    /\ TenantPolicy(rows[e].organization, request[r].organization)

\* A row another open transaction has updated or deleted makes a writer wait.  A
\* row that is only inserted is not there yet for anyone else.
Locked(e) == writer[e] # Null /\ rows[e] # Null

Decide(r, step, status, found) ==
    /\ pc' = [pc EXCEPT ![r] = step]
    /\ answer' = [answer EXCEPT ![r] = [status |-> status, rows |-> found]]

\* An exception leaves the route: rollback, then an error response.
Fail(r, status) ==
    /\ Decide(r, "finished", status, {})
    /\ UNCHANGED <<tableVars, lockVars, request, loaded>>

Write(r, e, row) ==
    /\ writer' = [writer EXCEPT ![e] = r]
    /\ pending' = [pending EXCEPT ![e] = row]

\* Variant of ReleaseLocks: a transaction that is never ended.
KeepLocks(r) == UNCHANGED lockVars

\* The locks of a transaction go with it.
ReleaseLocks(r) ==
    /\ writer' = [e \in Endpoints |-> IF writer[e] = r THEN Null ELSE writer[e]]
    /\ pending' = [e \in Endpoints |-> IF writer[e] = r THEN Null ELSE pending[e]]

\* What a PATCH has changed in memory: the attributes whose new value differs from
\* the value read.  SQLAlchemy writes these columns and no others.
NetChanges(r) ==
    {c \in Columns : /\ request[r].changes[c] # Null
                     /\ request[r].changes[c] # loaded[r].columns[c]}

\* The object a PATCH returns: what it read, with its own changes.
Patched(r, row) ==
    [row EXCEPT !.columns = [c \in Columns |->
        IF request[r].changes[c] # Null THEN request[r].changes[c] ELSE @[c]]]

-----------------------------------------------------------------------------

Creating == {r \in Requests : request[r] # Null /\ request[r].kind = "create"}

\* Bound: the finite set of ids never runs out under a creation.
IdsLeft(r) ==
    \E id \in [Creating \cup {r} -> Endpoints \ used] :
        \A p, q \in Creating \cup {r} : id[p] = id[q] => p = q

Receive(r, op) ==
    /\ pc[r] = "idle"
    /\ op.kind = "create" => IdsLeft(r)
    /\ pc' = [pc EXCEPT ![r] = "execute"]
    /\ request' = [request EXCEPT ![r] = op]
    /\ UNCHANGED <<tableVars, lockVars, loaded, answer>>

\* create_webhook_endpoint: INSERT with a new id.
Create(r) ==
    /\ pc[r] = "execute"
    /\ request[r].kind = "create"
    /\ \E e \in Endpoints \ used :
        LET row == [organization |-> request[r].organization,
                    columns |-> request[r].columns] IN
        /\ Write(r, e, row)
        /\ used' = used \cup {e}
        /\ Decide(r, "commit", "created", {row})
    /\ UNCHANGED <<rows, referenced, deleted, request, loaded>>

\* list_webhook_endpoints, without its pagination.
List(r) ==
    /\ pc[r] = "execute"
    /\ request[r].kind = "list"
    /\ Decide(r, "commit", "ok", {rows[e] : e \in {f \in Endpoints : Selectable(r, f)}})
    /\ UNCHANGED <<tableVars, lockVars, request, loaded>>

\* Variant of Get: the result of scalar_one_or_none is returned unchecked.
GetUnchecked(r) ==
    /\ pc[r] = "execute"
    /\ request[r].kind = "get"
    /\ Decide(r, "commit", "ok", {rows[request[r].endpoint]})
    /\ UNCHANGED <<tableVars, lockVars, request, loaded>>

\* get_webhook_endpoint_by_id for the GET route.
Get(r) ==
    /\ pc[r] = "execute"
    /\ request[r].kind = "get"
    /\ \/ /\ Selectable(r, request[r].endpoint)
          /\ Decide(r, "commit", "ok", {rows[request[r].endpoint]})
          /\ UNCHANGED <<tableVars, lockVars, request, loaded>>
       \/ /\ ~Selectable(r, request[r].endpoint)
          /\ Fail(r, "not_found")

\* update_webhook_endpoint_by_id up to its flush: read the row, set attributes.
LoadForPatch(r) ==
    /\ pc[r] = "execute"
    /\ request[r].kind = "patch"
    /\ \/ /\ Selectable(r, request[r].endpoint)
          /\ loaded' = [loaded EXCEPT ![r] = rows[request[r].endpoint]]
          /\ pc' = [pc EXCEPT ![r] = "flush"]
          /\ UNCHANGED <<tableVars, lockVars, request, answer>>
       \/ /\ ~Selectable(r, request[r].endpoint)
          /\ Fail(r, "not_found")

\* Variant of FlushPatch: the UPDATE writes every column of the object in memory.
FlushWholeRow(r) ==
    /\ pc[r] = "flush"
    /\ ~Locked(request[r].endpoint)
    /\ rows[request[r].endpoint] # Null
    /\ Write(r, request[r].endpoint, Patched(r, loaded[r]))
    /\ Decide(r, "commit", "ok", {Patched(r, loaded[r])})
    /\ UNCHANGED <<tableVars, request, loaded>>

\* Variant of FlushPatch: session.merge, which inserts a row that is gone.
FlushByMerge(r) ==
    /\ pc[r] = "flush"
    /\ ~Locked(request[r].endpoint)
    /\ Write(r, request[r].endpoint, Patched(r, loaded[r]))
    /\ Decide(r, "commit", "ok", {Patched(r, loaded[r])})
    /\ UNCHANGED <<tableVars, request, loaded>>

\* Its flush.  No net change: no statement at all.  Otherwise an UPDATE of the
\* changed columns of the row as it is now; an UPDATE that matches no row raises
\* StaleDataError, which no handler catches.
FlushPatch(r) ==
    LET e == request[r].endpoint IN
    /\ pc[r] = "flush"
    /\ \/ /\ NetChanges(r) = {}
          /\ Decide(r, "commit", "ok", {Patched(r, loaded[r])})
          /\ UNCHANGED lockVars
          /\ UNCHANGED <<tableVars, request, loaded>>
       \/ /\ NetChanges(r) # {}
          /\ ~Locked(e)
          /\ rows[e] # Null
          /\ Write(r, e, [rows[e] EXCEPT !.columns = [c \in Columns |->
                IF c \in NetChanges(r) THEN request[r].changes[c] ELSE @[c]]])
          /\ Decide(r, "commit", "ok", {Patched(r, loaded[r])})
          /\ UNCHANGED <<tableVars, request, loaded>>
       \/ /\ NetChanges(r) # {}
          /\ rows[e] = Null
          /\ Fail(r, "internal_error")

\* Variant of Delete: a foreign key that does not restrict.
DeleteUnrestricted(r) ==
    /\ pc[r] = "execute"
    /\ request[r].kind = "delete"
    /\ ~Locked(request[r].endpoint)
    /\ Selectable(r, request[r].endpoint)
    /\ Write(r, request[r].endpoint, Null)
    /\ Decide(r, "commit", "no_content", {})
    /\ UNCHANGED <<tableVars, request, loaded>>

\* delete_webhook_endpoint_by_id: DELETE ... RETURNING.  An event that refers to the
\* endpoint makes it an IntegrityError, which no handler catches.
Delete(r) ==
    LET e == request[r].endpoint IN
    /\ pc[r] = "execute"
    /\ request[r].kind = "delete"
    /\ \/ /\ ~Selectable(r, e)
          /\ Fail(r, "not_found")
       \/ /\ Selectable(r, e)
          /\ ~Locked(e)
          /\ e \in referenced
          /\ Fail(r, "internal_error")
       \/ /\ Selectable(r, e)
          /\ ~Locked(e)
          /\ e \notin referenced
          /\ Write(r, e, Null)
          /\ Decide(r, "commit", "no_content", {})
          /\ UNCHANGED <<tableVars, request, loaded>>

\* session.begin() exits: the versions this transaction wrote are the rows now.  The
\* acknowledgement may be lost, and the client then gets an error all the same.
Commit(r) ==
    /\ pc[r] = "commit"
    /\ rows' = [e \in Endpoints |-> IF writer[e] = r THEN pending[e] ELSE rows[e]]
    /\ deleted' = deleted \cup
          {e \in Endpoints : writer[e] = r /\ pending[e] = Null}
    /\ ReleaseLocks(r)
    /\ \/ Decide(r, "finished", answer[r].status, answer[r].rows)
       \/ Decide(r, "finished", "connection_lost", {})
    /\ UNCHANGED <<used, referenced, request, loaded>>

\* The connection is lost: PostgreSQL rolls back, the client gets an error.
Abort(r) ==
    /\ pc[r] \in {"execute", "flush", "commit"}
    /\ ReleaseLocks(r)
    /\ Decide(r, "finished", "connection_lost", {})
    /\ UNCHANGED <<tableVars, request, loaded>>

Respond(r) ==
    /\ pc[r] = "finished"
    /\ pc' = [pc EXCEPT ![r] = "idle"]
    /\ request' = [request EXCEPT ![r] = Null]
    /\ loaded' = [loaded EXCEPT ![r] = Null]
    /\ answer' = [answer EXCEPT ![r] = Null]
    /\ UNCHANGED <<tableVars, lockVars>>

\* Ingestion commits an event: its foreign key waits for an open DELETE, not for an
\* open UPDATE.
StoreEvent(e) ==
    /\ rows[e] # Null
    /\ writer[e] # Null => pending[e] # Null
    /\ referenced' = referenced \cup {e}
    /\ UNCHANGED <<rows, used, deleted, lockVars, pc, request, loaded, answer>>

RequestStep(r) ==
    \/ Create(r)
    \/ List(r)
    \/ Get(r)
    \/ LoadForPatch(r)
    \/ FlushPatch(r)
    \/ Delete(r)
    \/ Commit(r)
    \/ Respond(r)

Next ==
    \/ \E r \in Requests, op \in Operations : Receive(r, op)
    \/ \E r \in Requests : RequestStep(r) \/ Abort(r)
    \/ \E e \in Endpoints : StoreEvent(e)

Spec == Init /\ [][Next]_vars

-----------------------------------------------------------------------------
(* Properties *)

\* No answer shows, and no transaction writes, a row of another organization.
TenantsAreIsolated ==
    \A r \in Requests :
        /\ answer[r] # Null =>
              \A row \in answer[r].rows : row.organization = request[r].organization
        /\ \A e \in Endpoints : writer[e] = r /\ rows[e] # Null =>
              rows[e].organization = request[r].organization

\* A column changes only to what a PATCH that commits asked of that column: a PATCH
\* built on a row read earlier never undoes another's change to other columns.
NoColumnIsLost ==
    [][\A e \in Endpoints : rows[e] # Null /\ rows'[e] # Null =>
         \A c \in Columns : rows'[e].columns[c] # rows[e].columns[c] =>
            \E r \in Requests :
                /\ pc[r] = "commit" /\ pc'[r] = "finished"
                /\ request[r].kind = "patch"
                /\ request[r].changes[c] = rows'[e].columns[c]]_vars

\* A PATCH that raced a DELETE never brings the row back.
DeletedStaysDeleted ==
    \A e \in deleted : rows[e] = Null

\* An endpoint that an event refers to is never deleted, whoever comes first.
ReferencedIsKept ==
    \A e \in referenced : rows[e] # Null

\* What the docstring of update_webhook_endpoint_by_id says it returns, "the updated
\* WebhookEndpoint instance": the answer to a PATCH that has updated its row is that row
\* as it commits.  A PATCH without a net change writes nothing, and is answered what it
\* has read, whatever became of the row since.
PatchAnswersTheUpdatedRow ==
    [][\A r \in Requests :
         pc[r] = "commit" /\ pc'[r] = "finished" /\ request[r].kind = "patch"
           /\ writer[request[r].endpoint] = r /\ answer'[r].status = "ok" =>
              answer'[r].rows = {rows'[request[r].endpoint]}]_vars

\* What that docstring says it raises: a PATCH that has something to write and finds its
\* endpoint gone when it flushes is answered not found, unless the connection is lost
\* first.
UnavailableIsNotFound ==
    [][\A r \in Requests :
         pc[r] = "flush" /\ pc'[r] # "flush"
           /\ NetChanges(r) # {} /\ rows[request[r].endpoint] = Null =>
              answer'[r].status \in {"not_found", "connection_lost"}]_vars

-----------------------------------------------------------------------------
(* The inductive invariant behind the safety properties *)

\* A row that a request has found is still its organization's, unless it is deleted.
OfTenantOrDeleted(r, e) ==
    \/ rows[e] # Null /\ rows[e].organization = request[r].organization
    \/ rows[e] = Null /\ e \in deleted

\* A request keeps its operation until it has been answered; what a PATCH has read
\* is a row of its organization.
RequestsAreWhole ==
    \A r \in Requests :
        /\ pc[r] # "idle" => request[r] # Null
        /\ pc[r] = "flush" => /\ request[r].kind = "patch"
                              /\ loaded[r] # Null
                              /\ loaded[r].organization = request[r].organization
                              /\ OfTenantOrDeleted(r, request[r].endpoint)
        /\ pc[r] \in {"idle", "execute", "flush"} <=> answer[r] = Null

\* A row lock belongs to a request about to commit, which holds no other: a creation
\* has drawn an id of its own, and a PATCH or DELETE holds the row that is still
\* committed, changed only where it was asked to.
WritesAreOwn ==
    /\ \A e, f \in Endpoints : writer[e] = writer[f] /\ writer[e] # Null => e = f
    /\ \A e \in Endpoints : writer[e] # Null =>
          LET op == request[writer[e]] IN
          /\ pc[writer[e]] = "commit"
          /\ op.kind \in {"create", "patch", "delete"}
          /\ op.kind = "create" => /\ rows[e] = Null /\ e \notin deleted
                                   /\ pending[e] # Null
                                   /\ pending[e].columns = op.columns
          /\ op.kind = "patch" =>
                /\ e = op.endpoint
                /\ rows[e] # Null /\ pending[e] # Null
                /\ pending[e].organization = rows[e].organization
                /\ \A c \in Columns : pending[e].columns[c] # rows[e].columns[c] =>
                      op.changes[c] = pending[e].columns[c]
          /\ op.kind = "delete" => /\ e = op.endpoint
                                   /\ rows[e] # Null /\ pending[e] = Null
                                   /\ e \notin referenced

\* An id is generated once.
IdsAreUsed ==
    \A e \in Endpoints : rows[e] # Null \/ e \in deleted \/ writer[e] # Null => e \in used

EndpointsInv ==
    /\ TypeOK
    /\ RequestsAreWhole
    /\ WritesAreOwn
    /\ IdsAreUsed
    /\ TenantsAreIsolated
    /\ DeletedStaysDeleted
    /\ ReferencedIsKept

=============================================================================
