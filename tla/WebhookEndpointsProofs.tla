----------------------- MODULE WebhookEndpointsProofs -----------------------
(***************************************************************************)
(* Proofs about WebhookEndpoints for any requests, endpoints,              *)
(* organizations, columns and values.                                      *)
(***************************************************************************)
EXTENDS WebhookEndpoints, TLAPS

USE NullAssumption

-----------------------------------------------------------------------------
(* What operations and rows consist of *)

\* The kind of an operation tells which fields it has.
LEMMA OperationFields ==
    ASSUME NEW op \in Operations
    PROVE  /\ op.kind \in {"create", "list", "get", "patch", "delete"}
           /\ op.organization \in Organizations
           /\ op.kind = "create" => op.columns \in [Columns -> Values]
           /\ op.kind \in {"get", "patch", "delete"} => op.endpoint \in Endpoints
           /\ op.kind = "patch" => op.changes \in [Columns -> Values \cup {Null}]
BY DEF Operations, Creations, Listings, Reads, Patches, Deletions, Changes

\* What a PATCH returns is a row of the organization of the row it is made from.
LEMMA PatchedRow ==
    ASSUME NEW r \in Requests, request[r] \in Operations, request[r].kind = "patch",
           NEW row \in Row
    PROVE  /\ Patched(r, row) \in Row
           /\ Patched(r, row).organization = row.organization
BY OperationFields DEF Patched, Row

\* What its UPDATE writes is the committed row with some of the requested changes.
LEMMA UpdatedRow ==
    ASSUME NEW r \in Requests, request[r] \in Operations, request[r].kind = "patch",
           NEW row \in Row, NEW updated,
           updated = [row EXCEPT !.columns = [c \in Columns |->
                        IF c \in NetChanges(r) THEN request[r].changes[c] ELSE @[c]]]
    PROVE  /\ updated \in Row
           /\ updated.organization = row.organization
           /\ \A c \in Columns : updated.columns[c] # row.columns[c] =>
                 request[r].changes[c] = updated.columns[c]
<1>. DEFINE cols == [c \in Columns |-> IF c \in NetChanges(r) THEN request[r].changes[c]
                                                              ELSE row.columns[c]]
<1>1. request[r].changes \in [Columns -> Values \cup {Null}]
  BY OperationFields
<1>2. row.columns \in [Columns -> Values] /\ row.organization \in Organizations
  BY DEF Row
<1>3. cols \in [Columns -> Values]
  BY <1>1, <1>2 DEF NetChanges
<1>4. updated = [organization |-> row.organization, columns |-> cols]
  BY DEF Row
<1>5. QED
  BY <1>2, <1>3, <1>4 DEF Row

\* Before its commit a request holds no lock.
LEMMA NothingWritten ==
    ASSUME EndpointsInv, NEW r \in Requests, pc[r] # "commit"
    PROVE  \A e \in Endpoints : writer[e] # r
BY DEF EndpointsInv, TypeOK, WritesAreOwn

-----------------------------------------------------------------------------
(* The inductive invariant, action by action *)

\* Every kind of step that decides on an answer without writing: reads, refusals
\* and a PATCH that changes nothing.
LEMMA DecideInv ==
    ASSUME EndpointsInv, NEW r \in Requests, pc[r] \in {"execute", "flush"},
           NEW step \in {"commit", "finished"}, NEW status \in Statuses, NEW found,
           found \subseteq Row,
           \A row \in found : row.organization = request[r].organization,
           Decide(r, step, status, found), UNCHANGED <<tableVars, lockVars, request, loaded>>
    PROVE  EndpointsInv'
<1>. USE DEF EndpointsInv, tableVars, lockVars
<1>1. /\ pc' = [pc EXCEPT ![r] = step]
      /\ answer' = [answer EXCEPT ![r] = [status |-> status, rows |-> found]]
  BY DEF Decide
<1>2. [status |-> status, rows |-> found] \in Answers
  BY DEF Answers
<1>3. TypeOK'
  BY <1>1, <1>2 DEF TypeOK
<1>4. RequestsAreWhole'
  BY <1>1, <1>2 DEF TypeOK, RequestsAreWhole, OfTenantOrDeleted
<1>5. WritesAreOwn'
  BY <1>1, NothingWritten DEF TypeOK, WritesAreOwn
<1>6. TenantsAreIsolated'
  BY <1>1 DEF TypeOK, TenantsAreIsolated
<1>7. IdsAreUsed' /\ DeletedStaysDeleted' /\ ReferencedIsKept'
  BY DEF IdsAreUsed, DeletedStaysDeleted, ReferencedIsKept
<1>8. QED
  BY <1>3, <1>4, <1>5, <1>6, <1>7

LEMMA FailInv ==
    ASSUME EndpointsInv, NEW r \in Requests, pc[r] \in {"execute", "flush"},
           NEW status \in Statuses, Fail(r, status)
    PROVE  EndpointsInv'
BY DecideInv DEF Fail

\* A request takes the lock of one row that nobody holds.
LEMMA WriteInv ==
    ASSUME EndpointsInv, NEW r \in Requests, pc[r] \in {"execute", "flush"},
           request[r].kind \in {"create", "patch", "delete"},
           NEW e \in Endpoints, NEW row \in Row \cup {Null}, writer[e] = Null,
           NEW status \in Statuses, NEW found, found \subseteq Row,
           \A x \in found : x.organization = request[r].organization,
           Write(r, e, row), Decide(r, "commit", status, found),
           used' = used \cup {e}, UNCHANGED <<rows, referenced, deleted, request, loaded>>,
           request[r].kind = "create" =>
              /\ rows[e] = Null /\ e \notin deleted
              /\ row # Null /\ row.columns = request[r].columns,
           request[r].kind = "patch" =>
              /\ e = request[r].endpoint /\ rows[e] # Null /\ row # Null
              /\ rows[e].organization = request[r].organization
              /\ row.organization = rows[e].organization
              /\ \A c \in Columns : row.columns[c] # rows[e].columns[c] =>
                    request[r].changes[c] = row.columns[c],
           request[r].kind = "delete" =>
              /\ e = request[r].endpoint /\ rows[e] # Null /\ row = Null
              /\ rows[e].organization = request[r].organization
              /\ e \notin referenced
    PROVE  EndpointsInv'
<1>. USE DEF EndpointsInv
<1>1. /\ pc' = [pc EXCEPT ![r] = "commit"]
      /\ answer' = [answer EXCEPT ![r] = [status |-> status, rows |-> found]]
      /\ writer' = [writer EXCEPT ![e] = r]
      /\ pending' = [pending EXCEPT ![e] = row]
  BY DEF Decide, Write
<1>2. [status |-> status, rows |-> found] \in Answers
  BY DEF Answers
<1>3. TypeOK'
  BY <1>1, <1>2 DEF TypeOK
<1>4. RequestsAreWhole'
  BY <1>1, <1>2 DEF TypeOK, RequestsAreWhole, OfTenantOrDeleted
<1>5. WritesAreOwn'
  <2>1. \A f \in Endpoints : writer'[f] = IF f = e THEN r ELSE writer[f]
    BY <1>1 DEF TypeOK
  <2>2. \A f \in Endpoints : writer[f] # r
    BY NothingWritten
  <2>3. \A f \in Endpoints : f # e /\ writer[f] # Null =>
            /\ writer[f] \in Requests /\ writer[f] # r
            /\ pc'[writer[f]] = pc[writer[f]]
            /\ pending'[f] = pending[f]
    BY <1>1, <2>2 DEF TypeOK
  <2>4. pc'[r] = "commit" /\ pending'[e] = row
    BY <1>1 DEF TypeOK
  <2>5. \A f, g \in Endpoints : writer'[f] = writer'[g] /\ writer'[f] # Null => f = g
    BY <2>1, <2>2 DEF WritesAreOwn
  <2>6. QED
    BY <2>1, <2>3, <2>4, <2>5 DEF WritesAreOwn
<1>6. TenantsAreIsolated'
  BY <1>1 DEF TypeOK, TenantsAreIsolated
<1>7. IdsAreUsed' /\ DeletedStaysDeleted' /\ ReferencedIsKept'
  BY <1>1 DEF TypeOK, IdsAreUsed, DeletedStaysDeleted, ReferencedIsKept
<1>8. QED
  BY <1>3, <1>4, <1>5, <1>6, <1>7

LEMMA ReceiveInv ==
    ASSUME EndpointsInv, NEW r \in Requests, NEW op \in Operations, Receive(r, op)
    PROVE  EndpointsInv'
<1>. USE DEF EndpointsInv, tableVars, lockVars
<1>1. /\ pc[r] = "idle"
      /\ pc' = [pc EXCEPT ![r] = "execute"]
      /\ request' = [request EXCEPT ![r] = op]
      /\ UNCHANGED <<tableVars, lockVars, loaded, answer>>
  BY DEF Receive
<1>2. TypeOK'
  BY <1>1 DEF TypeOK
<1>3. RequestsAreWhole'
  BY <1>1 DEF TypeOK, RequestsAreWhole, OfTenantOrDeleted
<1>4. WritesAreOwn'
  BY <1>1, NothingWritten DEF TypeOK, WritesAreOwn
<1>5. TenantsAreIsolated'
  BY <1>1, NothingWritten DEF TypeOK, RequestsAreWhole, TenantsAreIsolated
<1>6. IdsAreUsed' /\ DeletedStaysDeleted' /\ ReferencedIsKept'
  BY <1>1 DEF IdsAreUsed, DeletedStaysDeleted, ReferencedIsKept
<1>7. QED
  BY <1>2, <1>3, <1>4, <1>5, <1>6

\* A creation draws an id that no row has or had.
LEMMA CreateInv ==
    ASSUME EndpointsInv, NEW r \in Requests, Create(r)
    PROVE  EndpointsInv'
<1>. USE DEF EndpointsInv
<1>. DEFINE row == [organization |-> request[r].organization, columns |-> request[r].columns]
<1>1. PICK e \in Endpoints \ used : /\ Write(r, e, row)
                                    /\ used' = used \cup {e}
                                    /\ Decide(r, "commit", "created", {row})
  BY DEF Create
<1>2. request[r] \in Operations /\ request[r].kind = "create"
  BY DEF Create, TypeOK, RequestsAreWhole
<1>3. /\ row \in Row /\ row.organization = request[r].organization
      /\ row.columns = request[r].columns
  BY <1>2, OperationFields DEF Row
<1>4. rows[e] = Null /\ e \notin deleted /\ writer[e] = Null
  BY DEF IdsAreUsed
<1>5. row # Null
  BY <1>3
<1>. HIDE DEF row
<1>6. QED
  BY <1>1, <1>2, <1>3, <1>4, <1>5, WriteInv DEF Create, Statuses

\* Reading shows rows of the request's organization only.
LEMMA ReadInv ==
    ASSUME EndpointsInv, NEW r \in Requests, List(r) \/ Get(r)
    PROVE  EndpointsInv'
<1>. USE DEF EndpointsInv
<1>1. request[r] \in Operations /\ pc[r] = "execute"
  BY DEF List, Get, TypeOK, RequestsAreWhole
<1>2. \A e \in Endpoints : Selectable(r, e) =>
          rows[e] \in Row /\ rows[e].organization = request[r].organization
  BY DEF Selectable, TypeOK
<1>3. CASE List(r)
  <2>. DEFINE found == {rows[e] : e \in {f \in Endpoints : Selectable(r, f)}}
  <2>1. found \subseteq Row /\ \A row \in found : row.organization = request[r].organization
    BY <1>2
  <2>2. Decide(r, "commit", "ok", found)
    BY <1>3 DEF List
  <2>. HIDE DEF found
  <2>3. QED
    BY <1>1, <1>3, <2>1, <2>2, DecideInv DEF List, Statuses
<1>4. CASE Get(r)
  <2>1. request[r].endpoint \in Endpoints
    BY <1>1, <1>4, OperationFields DEF Get
  <2>2. CASE Fail(r, "not_found")
    BY <1>1, <2>2, FailInv DEF Statuses
  <2>3. CASE /\ Selectable(r, request[r].endpoint)
             /\ Decide(r, "commit", "ok", {rows[request[r].endpoint]})
             /\ UNCHANGED <<tableVars, lockVars, request, loaded>>
    BY <1>1, <1>2, <2>1, <2>3, DecideInv DEF Statuses
  <2>4. QED
    BY <1>4, <2>2, <2>3 DEF Get
<1>5. QED
  BY <1>3, <1>4

\* A PATCH reads a row of its organization.
LEMMA LoadForPatchInv ==
    ASSUME EndpointsInv, NEW r \in Requests, LoadForPatch(r)
    PROVE  EndpointsInv'
<1>. USE DEF EndpointsInv, tableVars, lockVars
<1>. DEFINE e == request[r].endpoint
<1>1. pc[r] = "execute" /\ request[r].kind = "patch" /\ request[r] \in Operations
  BY DEF LoadForPatch, TypeOK, RequestsAreWhole
<1>2. CASE Fail(r, "not_found")
  BY <1>1, <1>2, FailInv DEF Statuses
<1>3. CASE /\ Selectable(r, e)
           /\ loaded' = [loaded EXCEPT ![r] = rows[e]]
           /\ pc' = [pc EXCEPT ![r] = "flush"]
           /\ UNCHANGED <<tableVars, lockVars, request, answer>>
  <2>1. rows[e] \in Row /\ rows[e].organization = request[r].organization
    BY <1>1, <1>3, OperationFields DEF Selectable, TypeOK
  <2>2. TypeOK'
    BY <1>3, <2>1 DEF TypeOK
  <2>3. RequestsAreWhole'
    BY <1>1, <1>3, <2>1 DEF TypeOK, RequestsAreWhole, OfTenantOrDeleted
  <2>4. WritesAreOwn'
    BY <1>1, <1>3, NothingWritten DEF TypeOK, WritesAreOwn
  <2>5. TenantsAreIsolated' /\ IdsAreUsed' /\ DeletedStaysDeleted' /\ ReferencedIsKept'
    BY <1>3 DEF TenantsAreIsolated, IdsAreUsed, DeletedStaysDeleted, ReferencedIsKept
  <2>6. QED
    BY <2>2, <2>3, <2>4, <2>5
<1>4. QED
  BY <1>2, <1>3 DEF LoadForPatch

\* Its UPDATE, if it has one, changes the committed row in the requested columns.
LEMMA FlushPatchInv ==
    ASSUME EndpointsInv, NEW r \in Requests, FlushPatch(r)
    PROVE  EndpointsInv'
<1>. USE DEF EndpointsInv
<1>. DEFINE e == request[r].endpoint
            updated == [rows[e] EXCEPT !.columns = [c \in Columns |->
                          IF c \in NetChanges(r) THEN request[r].changes[c] ELSE @[c]]]
<1>1. /\ pc[r] = "flush" /\ request[r].kind = "patch" /\ request[r] \in Operations
      /\ loaded[r] \in Row /\ loaded[r].organization = request[r].organization
      /\ OfTenantOrDeleted(r, e)
  BY DEF FlushPatch, TypeOK, RequestsAreWhole
<1>2. e \in Endpoints
  BY <1>1, OperationFields
<1>3. Patched(r, loaded[r]) \in Row
      /\ Patched(r, loaded[r]).organization = request[r].organization
  BY <1>1, PatchedRow
<1>4. CASE /\ Decide(r, "commit", "ok", {Patched(r, loaded[r])})
           /\ UNCHANGED lockVars
           /\ UNCHANGED <<tableVars, request, loaded>>
  BY <1>1, <1>3, <1>4, DecideInv DEF Statuses
<1>5. CASE Fail(r, "internal_error")
  BY <1>1, <1>5, FailInv DEF Statuses
<1>6. CASE /\ ~Locked(e)
           /\ rows[e] # Null
           /\ Write(r, e, updated)
           /\ Decide(r, "commit", "ok", {Patched(r, loaded[r])})
           /\ UNCHANGED <<tableVars, request, loaded>>
  <2>1. writer[e] = Null /\ rows[e] \in Row
    BY <1>2, <1>6 DEF Locked, TypeOK
  <2>2. rows[e].organization = request[r].organization
    BY <1>1, <1>6 DEF OfTenantOrDeleted
  <2>3. /\ updated \in Row /\ updated.organization = rows[e].organization
        /\ \A c \in Columns : updated.columns[c] # rows[e].columns[c] =>
              request[r].changes[c] = updated.columns[c]
    BY <1>1, <2>1, UpdatedRow
  <2>4. used' = used \cup {e} /\ UNCHANGED <<rows, referenced, deleted>>
    BY <1>2, <1>6 DEF tableVars, IdsAreUsed
  <2>5. updated # Null
    BY <2>3
  <2>. HIDE DEF updated
  <2>6. QED
    BY <1>1, <1>2, <1>3, <1>6, <2>1, <2>2, <2>3, <2>4, <2>5, WriteInv DEF Statuses
<1>7. QED
  BY <1>4, <1>5, <1>6 DEF FlushPatch

\* A DELETE takes a row of its organization that no event refers to.
LEMMA DeleteInv ==
    ASSUME EndpointsInv, NEW r \in Requests, Delete(r)
    PROVE  EndpointsInv'
<1>. USE DEF EndpointsInv
<1>. DEFINE e == request[r].endpoint
<1>1. pc[r] = "execute" /\ request[r].kind = "delete" /\ request[r] \in Operations
  BY DEF Delete, TypeOK, RequestsAreWhole
<1>2. e \in Endpoints
  BY <1>1, OperationFields
<1>3. CASE Fail(r, "not_found") \/ Fail(r, "internal_error")
  BY <1>1, <1>3, FailInv DEF Statuses
<1>4. CASE /\ Selectable(r, e)
           /\ ~Locked(e)
           /\ e \notin referenced
           /\ Write(r, e, Null)
           /\ Decide(r, "commit", "no_content", {})
           /\ UNCHANGED <<tableVars, request, loaded>>
  <2>1. /\ writer[e] = Null /\ rows[e] # Null
        /\ rows[e].organization = request[r].organization
    BY <1>4 DEF Locked, Selectable
  <2>2. used' = used \cup {e} /\ UNCHANGED <<rows, referenced, deleted>>
    BY <1>2, <1>4, <2>1 DEF tableVars, IdsAreUsed
  <2>3. QED
    BY <1>1, <1>2, <1>4, <2>1, <2>2, WriteInv DEF Statuses
<1>5. QED
  BY <1>3, <1>4 DEF Delete

\* What is left when the locks of a request are released.
LEMMA ReleaseLocksType ==
    ASSUME EndpointsInv, NEW r \in Requests, ReleaseLocks(r)
    PROVE  /\ writer' \in [Endpoints -> Requests \cup {Null}]
           /\ pending' \in [Endpoints -> Row \cup {Null}]
           /\ \A e \in Endpoints :
                 IF writer[e] = r THEN writer'[e] = Null
                 ELSE writer'[e] = writer[e] /\ pending'[e] = pending[e]
BY DEF EndpointsInv, TypeOK, ReleaseLocks

\* A commit publishes the one row that its request wrote, if it wrote one.
LEMMA CommitInv ==
    ASSUME EndpointsInv, NEW r \in Requests, Commit(r)
    PROVE  EndpointsInv'
<1>. USE DEF EndpointsInv
<1>1. PICK status \in Statuses, found \in SUBSET Row :
          /\ pc' = [pc EXCEPT ![r] = "finished"]
          /\ answer' = [answer EXCEPT ![r] = [status |-> status, rows |-> found]]
          /\ found = {} \/ found = answer[r].rows
  <2>1. answer[r] \in Answers
    BY DEF Commit, TypeOK, RequestsAreWhole
  <2>2. answer[r].status \in Statuses /\ answer[r].rows \in SUBSET Row
    BY <2>1 DEF Answers
  <2>3. CASE Decide(r, "finished", answer[r].status, answer[r].rows)
    BY <2>2, <2>3 DEF Decide
  <2>4. CASE Decide(r, "finished", "connection_lost", {})
    BY <2>4 DEF Decide, Statuses
  <2>5. QED
    BY <2>3, <2>4 DEF Commit
<1>2. /\ pc[r] = "commit" /\ request[r] \in Operations /\ answer[r] # Null
      /\ rows' = [e \in Endpoints |-> IF writer[e] = r THEN pending[e] ELSE rows[e]]
      /\ deleted' = deleted \cup {e \in Endpoints : writer[e] = r /\ pending[e] = Null}
      /\ UNCHANGED <<used, referenced, request, loaded>>
  BY DEF Commit, TypeOK, RequestsAreWhole
<1>3. ReleaseLocks(r)
  BY DEF Commit
<1>4. [status |-> status, rows |-> found] \in Answers
  BY DEF Answers
<1>5. TypeOK'
  BY <1>1, <1>2, <1>3, <1>4, ReleaseLocksType DEF TypeOK
<1>6. \A e \in Endpoints : writer[e] = r =>
          /\ \/ /\ request[r].kind = "create"
                /\ rows[e] = Null /\ e \notin deleted
             \/ rows[e] # Null /\ rows[e].organization = request[r].organization
          /\ rows[e] # Null /\ pending[e] # Null => pending[e].organization = rows[e].organization
          /\ pending[e] = Null => e \notin referenced
          /\ e \notin deleted
  <2>. SUFFICES ASSUME NEW e \in Endpoints, writer[e] = r
                PROVE  /\ \/ /\ request[r].kind = "create"
                             /\ rows[e] = Null /\ e \notin deleted
                          \/ rows[e] # Null /\ rows[e].organization = request[r].organization
                       /\ rows[e] # Null /\ pending[e] # Null =>
                             pending[e].organization = rows[e].organization
                       /\ pending[e] = Null => e \notin referenced
                       /\ e \notin deleted
    OBVIOUS
  <2>1. writer[e] # Null
    OBVIOUS
  <2>2. rows[e] # Null => rows[e].organization = request[r].organization /\ e \notin deleted
    BY DEF TenantsAreIsolated, DeletedStaysDeleted
  <2>3. QED
    BY <2>1, <2>2 DEF WritesAreOwn
<1>7. RequestsAreWhole'
  <2>1. ASSUME NEW q \in Requests, NEW e \in Endpoints, OfTenantOrDeleted(q, e)
        PROVE  OfTenantOrDeleted(q, e)'
    <3>1. CASE writer[e] = r
      BY <1>2, <1>6, <2>1, <3>1 DEF OfTenantOrDeleted
    <3>2. CASE writer[e] # r
      BY <1>2, <2>1, <3>2 DEF OfTenantOrDeleted
    <3>3. QED
      BY <3>1, <3>2
  <2>2. \A q \in Requests : pc[q] = "flush" => request[q].endpoint \in Endpoints
    BY OperationFields DEF TypeOK, RequestsAreWhole
  <2>3. QED
    BY <1>1, <1>2, <1>4, <2>1, <2>2 DEF TypeOK, RequestsAreWhole
<1>8. WritesAreOwn'
  <2>1. \A e \in Endpoints : writer'[e] # Null =>
            /\ writer[e] # r /\ writer[e] # Null
            /\ writer'[e] = writer[e] /\ pending'[e] = pending[e]
            /\ rows'[e] = rows[e] /\ (e \in deleted' <=> e \in deleted)
            /\ pc'[writer[e]] = pc[writer[e]]
    BY <1>1, <1>2, <1>3, ReleaseLocksType DEF TypeOK
  <2>2. QED
    BY <1>2, <2>1 DEF WritesAreOwn
<1>9. IdsAreUsed'
  BY <1>2, <1>3, <1>6, ReleaseLocksType DEF TypeOK, IdsAreUsed
<1>10. TenantsAreIsolated'
  <2>1. \A e \in Endpoints : writer'[e] # Null => writer'[e] = writer[e] /\ rows'[e] = rows[e]
    BY <1>2, <1>3, ReleaseLocksType DEF TypeOK
  <2>2. \A q \in Requests : answer'[q] # Null =>
            \A row \in answer'[q].rows : row.organization = request[q].organization
    BY <1>1, <1>2 DEF TypeOK, TenantsAreIsolated
  <2>3. QED
    BY <1>2, <2>1, <2>2 DEF TenantsAreIsolated
<1>11. DeletedStaysDeleted'
  BY <1>2, <1>6 DEF TypeOK, DeletedStaysDeleted
<1>12. ReferencedIsKept'
  BY <1>2, <1>6 DEF TypeOK, ReferencedIsKept
<1>13. QED
  BY <1>5, <1>7, <1>8, <1>9, <1>10, <1>11, <1>12

\* A rollback leaves no trace but free locks.
LEMMA AbortInv ==
    ASSUME EndpointsInv, NEW r \in Requests, Abort(r)
    PROVE  EndpointsInv'
<1>. USE DEF EndpointsInv, tableVars
<1>1. /\ pc' = [pc EXCEPT ![r] = "finished"]
      /\ answer' = [answer EXCEPT ![r] = [status |-> "connection_lost", rows |-> {}]]
      /\ pc[r] \in {"execute", "flush", "commit"}
      /\ ReleaseLocks(r)
      /\ UNCHANGED <<tableVars, request, loaded>>
  BY DEF Abort, Decide
<1>2. [status |-> "connection_lost", rows |-> {}] \in Answers
  BY DEF Answers, Statuses
<1>3. TypeOK'
  BY <1>1, <1>2, ReleaseLocksType DEF TypeOK
<1>4. RequestsAreWhole'
  BY <1>1, <1>2 DEF TypeOK, RequestsAreWhole, OfTenantOrDeleted
<1>5. WritesAreOwn'
  <2>1. \A e \in Endpoints : writer'[e] # Null =>
            /\ writer[e] # r /\ writer[e] # Null
            /\ writer'[e] = writer[e] /\ pending'[e] = pending[e]
            /\ pc'[writer[e]] = pc[writer[e]]
    BY <1>1, ReleaseLocksType DEF TypeOK
  <2>2. QED
    BY <1>1, <2>1 DEF WritesAreOwn
<1>6. IdsAreUsed'
  BY <1>1, ReleaseLocksType DEF TypeOK, IdsAreUsed
<1>7. TenantsAreIsolated'
  <2>1. \A e \in Endpoints : writer'[e] # Null => writer'[e] = writer[e]
    BY <1>1, ReleaseLocksType DEF TypeOK
  <2>2. \A q \in Requests : answer'[q] # Null =>
            \A row \in answer'[q].rows : row.organization = request[q].organization
    BY <1>1 DEF TypeOK, TenantsAreIsolated
  <2>3. QED
    BY <1>1, <2>1, <2>2 DEF TenantsAreIsolated
<1>8. DeletedStaysDeleted' /\ ReferencedIsKept'
  BY <1>1 DEF DeletedStaysDeleted, ReferencedIsKept
<1>9. QED
  BY <1>3, <1>4, <1>5, <1>6, <1>7, <1>8

LEMMA RespondInv ==
    ASSUME EndpointsInv, NEW r \in Requests, Respond(r)
    PROVE  EndpointsInv'
<1>. USE DEF EndpointsInv, tableVars, lockVars
<1>1. /\ pc[r] = "finished"
      /\ pc' = [pc EXCEPT ![r] = "idle"]
      /\ request' = [request EXCEPT ![r] = Null]
      /\ loaded' = [loaded EXCEPT ![r] = Null]
      /\ answer' = [answer EXCEPT ![r] = Null]
      /\ UNCHANGED <<tableVars, lockVars>>
  BY DEF Respond
<1>2. TypeOK'
  BY <1>1 DEF TypeOK
<1>3. RequestsAreWhole'
  BY <1>1 DEF TypeOK, RequestsAreWhole, OfTenantOrDeleted
<1>4. WritesAreOwn'
  BY <1>1, NothingWritten DEF TypeOK, WritesAreOwn
<1>5. TenantsAreIsolated'
  BY <1>1, NothingWritten DEF TypeOK, TenantsAreIsolated
<1>6. IdsAreUsed' /\ DeletedStaysDeleted' /\ ReferencedIsKept'
  BY <1>1 DEF IdsAreUsed, DeletedStaysDeleted, ReferencedIsKept
<1>7. QED
  BY <1>2, <1>3, <1>4, <1>5, <1>6

\* An event is stored only for a row that is there and that no open DELETE holds.
LEMMA StoreEventInv ==
    ASSUME EndpointsInv, NEW e \in Endpoints, StoreEvent(e)
    PROVE  EndpointsInv'
<1>. USE DEF EndpointsInv, lockVars
<1>1. /\ rows[e] # Null
      /\ writer[e] # Null => pending[e] # Null
      /\ referenced' = referenced \cup {e}
      /\ UNCHANGED <<rows, used, deleted, lockVars, pc, request, loaded, answer>>
  BY DEF StoreEvent
<1>2. TypeOK'
  BY <1>1 DEF TypeOK
<1>3. RequestsAreWhole' /\ IdsAreUsed' /\ TenantsAreIsolated' /\ DeletedStaysDeleted'
  BY <1>1 DEF RequestsAreWhole, OfTenantOrDeleted, IdsAreUsed, TenantsAreIsolated,
              DeletedStaysDeleted
<1>4. WritesAreOwn'
  BY <1>1 DEF WritesAreOwn
<1>5. ReferencedIsKept'
  BY <1>1 DEF ReferencedIsKept
<1>6. QED
  BY <1>2, <1>3, <1>4, <1>5

LEMMA InitInv == Init => EndpointsInv
BY DEF Init, EndpointsInv, TypeOK, RequestsAreWhole, WritesAreOwn, IdsAreUsed,
       TenantsAreIsolated, DeletedStaysDeleted, ReferencedIsKept

LEMMA StutterInv == EndpointsInv /\ UNCHANGED vars => EndpointsInv'
BY DEF vars, EndpointsInv, TypeOK, RequestsAreWhole, OfTenantOrDeleted, WritesAreOwn,
       IdsAreUsed, TenantsAreIsolated, DeletedStaysDeleted, ReferencedIsKept

LEMMA NextInv == EndpointsInv /\ [Next]_vars => EndpointsInv'
<1>. SUFFICES ASSUME EndpointsInv, [Next]_vars
              PROVE  EndpointsInv'
  OBVIOUS
<1>1. CASE \E r \in Requests, op \in Operations : Receive(r, op)
  BY <1>1, ReceiveInv
<1>2. CASE \E r \in Requests : RequestStep(r)
  BY <1>2, CreateInv, ReadInv, LoadForPatchInv, FlushPatchInv, DeleteInv, CommitInv, RespondInv
  DEF RequestStep
<1>3. CASE \E r \in Requests : Abort(r)
  BY <1>3, AbortInv
<1>4. CASE \E e \in Endpoints : StoreEvent(e)
  BY <1>4, StoreEventInv
<1>5. CASE UNCHANGED vars
  BY <1>5, StutterInv
<1>6. QED
  BY <1>1, <1>2, <1>3, <1>4, <1>5 DEF Next

-----------------------------------------------------------------------------
(* What follows *)

\* The management API keeps its invariant, which the theorems below take apart.
THEOREM InvariantHolds == Spec => []EndpointsInv
BY InitInv, NextInv, PTL DEF Spec

\* Type correctness.
THEOREM TypeCorrect == Spec => []TypeOK
<1>1. EndpointsInv => TypeOK
  BY DEF EndpointsInv
<1>2. QED
  BY <1>1, InvariantHolds, PTL

\* No request shows or writes a row of another organization.
THEOREM TenantsStayIsolated == Spec => []TenantsAreIsolated
<1>1. EndpointsInv => TenantsAreIsolated
  BY DEF EndpointsInv
<1>2. QED
  BY <1>1, InvariantHolds, PTL

\* A deleted endpoint never comes back.
THEOREM NothingIsRevived == Spec => []DeletedStaysDeleted
<1>1. EndpointsInv => DeletedStaysDeleted
  BY DEF EndpointsInv
<1>2. QED
  BY <1>1, InvariantHolds, PTL

\* An endpoint with events is never deleted.
THEOREM ReferencedStay == Spec => []ReferencedIsKept
<1>1. EndpointsInv => ReferencedIsKept
  BY DEF EndpointsInv
<1>2. QED
  BY <1>1, InvariantHolds, PTL

\* The columns of a row change only as the PATCH that commits was asked to change
\* them: no concurrent PATCH is undone.
THEOREM NoUpdateIsLost == Spec => NoColumnIsLost
<1>. DEFINE Asked ==
       \A e \in Endpoints : rows[e] # Null /\ rows'[e] # Null =>
         \A c \in Columns : rows'[e].columns[c] # rows[e].columns[c] =>
            \E r \in Requests :
                /\ pc[r] = "commit" /\ pc'[r] = "finished"
                /\ request[r].kind = "patch"
                /\ request[r].changes[c] = rows'[e].columns[c]
<1>1. EndpointsInv /\ [Next]_vars => [Asked]_vars
  <2>. SUFFICES ASSUME EndpointsInv, Next
                PROVE  Asked
    OBVIOUS
  <2>1. CASE rows' = rows
    BY <2>1
  <2>2. CASE \E r \in Requests : Commit(r)
    <3>1. PICK r \in Requests : Commit(r)
      BY <2>2
    <3>2. /\ pc[r] = "commit" /\ pc'[r] = "finished"
          /\ rows' = [e \in Endpoints |-> IF writer[e] = r THEN pending[e] ELSE rows[e]]
      BY <3>1 DEF Commit, Decide, EndpointsInv, TypeOK
    <3>3. ASSUME NEW e \in Endpoints, rows[e] # Null, rows'[e] # Null,
                 NEW c \in Columns, rows'[e].columns[c] # rows[e].columns[c]
          PROVE  request[r].kind = "patch" /\ request[r].changes[c] = rows'[e].columns[c]
      <4>1. writer[e] = r /\ rows'[e] = pending[e] /\ writer[e] # Null
        BY <3>2, <3>3
      <4>2. QED
        BY <3>3, <4>1 DEF EndpointsInv, WritesAreOwn
    <3>4. QED
      BY <3>2, <3>3
  <2>3. QED
    BY <2>1, <2>2 DEF Next, RequestStep, Receive, Create, List, Get, LoadForPatch, FlushPatch,
                      Delete, Respond, Abort, StoreEvent, Fail, tableVars
<1>2. QED
  BY <1>1, InvariantHolds, PTL DEF Spec, NoColumnIsLost

=============================================================================
