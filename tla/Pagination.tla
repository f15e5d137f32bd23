----------------------------- MODULE Pagination -----------------------------
(***************************************************************************)
(* A client reads the endpoints of its organization page by page while     *)
(* others create and delete some.  Every page is a transaction of its own, *)
(* cut by LIMIT and OFFSET from whatever is committed when it is read.     *)
(*                                                                         *)
(* The rows are ordered by created_at, which is the start of the           *)
(* transaction that creates them and not its commit: a creation that took  *)
(* long lands in the middle of what the client has already read.           *)
(***************************************************************************)
EXTENDS Naturals, FiniteSets

CONSTANTS
    Endpoints,  \* ids of one organization's endpoints, ordered like uuids
    Limit,      \* the query parameter limit
    MaxTime     \* bound: the last reading of the clock

ASSUME EndpointsAssumption == Endpoints \subseteq Nat /\ IsFiniteSet(Endpoints)
ASSUME LimitAssumption == Limit \in 1..100 /\ MaxTime \in Nat

VARIABLES
    now,        \* the clock of the database
    state,      \* of each id: unused, in an open creation, committed, gone
    created,    \* created_at of each row, set when its transaction begins
    offset,     \* the query parameter offset of the next page
    more,       \* has_more of the last page: there is a next one to read
    shown,      \* how often each id has been on a page of this walk
    stayed,     \* history: committed rows that have been there all along the walk
    inserted,   \* history: creations committed during the walk
    removed,    \* history: deletions committed during the walk
    recent      \* history: those of them since the last page

vars == <<now, state, created, offset, more, shown, stayed, inserted, removed,
          recent>>
walkVars == <<offset, more, shown>>

States == {"unused", "open", "committed", "gone"}

TypeOK ==
    /\ now \in 0..MaxTime
    /\ state \in [Endpoints -> States]
    /\ created \in [Endpoints -> 0..MaxTime]
    /\ offset \in {Limit * page : page \in 0..Cardinality(Endpoints) + 1}
    /\ more \in BOOLEAN
    /\ shown \in [Endpoints -> 0..Cardinality(Endpoints) + 1]
    /\ stayed \subseteq {e \in Endpoints : state[e] = "committed"}
    /\ inserted \in 0..Cardinality(Endpoints)
    /\ removed \in 0..Cardinality(Endpoints)
    /\ recent \in 0..removed

Init ==
    /\ now = 0
    /\ state = [e \in Endpoints |-> "unused"]
    /\ created = [e \in Endpoints |-> 0]
    /\ offset = 0
    /\ more = FALSE
    /\ shown = [e \in Endpoints |-> 0]
    /\ stayed = {}
    /\ inserted = 0
    /\ removed = 0
    /\ recent = 0

-----------------------------------------------------------------------------
(* The query *)

Rows == {e \in Endpoints : state[e] = "committed"}

\* ORDER BY created_at DESC, id DESC: d comes before e.
Before(d, e) ==
    \/ created[d] > created[e]
    \/ created[d] = created[e] /\ d > e

Position(e) == Cardinality({d \in Rows : Before(d, e)})

\* Variant of FirstPosition: offset counts pages, not rows.
PositionOfPage == offset * Limit

\* OFFSET offset
FirstPosition == offset

\* LIMIT limit + 1
Fetched ==
    {e \in Rows : Position(e) \in FirstPosition..FirstPosition + Limit}

\* Variant of Items: the row fetched to see whether there is more is returned too.
ItemsAndOneMore == Fetched

\* endpoints[:limit]
Items == {e \in Fetched : Position(e) < FirstPosition + Limit}

\* Variant of HasMore: a full page promises another one.
PageIsFull == Cardinality(Fetched) >= Limit

\* len(endpoints) > limit
HasMore == Cardinality(Fetched) > Limit

-----------------------------------------------------------------------------
(* The client *)

\* The client turns to the first page.
StartWalk ==
    /\ ~more
    /\ offset' = 0
    /\ more' = TRUE
    /\ shown' = [e \in Endpoints |-> 0]
    /\ stayed' = Rows
    /\ inserted' = 0
    /\ removed' = 0
    /\ recent' = 0
    /\ UNCHANGED <<now, state, created>>

\* Variant of ReadPage: the next offset is past the row that was only looked at.
ReadPageAndSkipOne ==
    /\ more
    /\ shown' = [e \in Endpoints |-> IF e \in Items THEN shown[e] + 1 ELSE shown[e]]
    /\ more' = HasMore
    /\ offset' = offset + Cardinality(Fetched)
    /\ recent' = 0
    /\ UNCHANGED <<now, state, created, stayed, inserted, removed>>

\* list_endpoints, and the client asks for the rows after this page next.
ReadPage ==
    /\ more
    /\ shown' = [e \in Endpoints |-> IF e \in Items THEN shown[e] + 1 ELSE shown[e]]
    /\ more' = HasMore
    /\ offset' = offset + Limit
    /\ recent' = 0
    /\ UNCHANGED <<now, state, created, stayed, inserted, removed>>

-----------------------------------------------------------------------------
(* Meanwhile *)

Tick ==
    /\ now < MaxTime
    /\ now' = now + 1
    /\ UNCHANGED <<state, created, walkVars, stayed, inserted, removed, recent>>

\* The transaction of create_endpoint begins: its now() is the created_at of its row.
BeginCreate(e) ==
    /\ state[e] = "unused"
    /\ state' = [state EXCEPT ![e] = "open"]
    /\ created' = [created EXCEPT ![e] = now]
    /\ UNCHANGED <<now, walkVars, stayed, inserted, removed, recent>>

CommitCreate(e) ==
    /\ state[e] = "open"
    /\ state' = [state EXCEPT ![e] = "committed"]
    /\ inserted' = IF more THEN inserted + 1 ELSE inserted
    /\ UNCHANGED <<now, created, walkVars, stayed, removed, recent>>

RollbackCreate(e) ==
    /\ state[e] = "open"
    /\ state' = [state EXCEPT ![e] = "gone"]
    /\ created' = [created EXCEPT ![e] = 0]
    /\ UNCHANGED <<now, walkVars, stayed, inserted, removed, recent>>

\* delete_endpoint, committed.
Delete(e) ==
    /\ state[e] = "committed"
    /\ state' = [state EXCEPT ![e] = "gone"]
    /\ created' = [created EXCEPT ![e] = 0]
    /\ stayed' = stayed \ {e}
    /\ IF more THEN removed' = removed + 1 /\ recent' = recent + 1
               ELSE UNCHANGED <<removed, recent>>
    /\ UNCHANGED <<now, walkVars, inserted>>

-----------------------------------------------------------------------------

Next ==
    \/ StartWalk
    \/ ReadPage
    \/ Tick
    \/ \E e \in Endpoints :
        \/ BeginCreate(e)
        \/ CommitCreate(e)
        \/ RollbackCreate(e)
        \/ Delete(e)

Spec == Init /\ [][Next]_vars

-----------------------------------------------------------------------------
(* Properties *)

\* When the client has read its last page, the rows that were there all the time and
\* on no page are at most as many as were deleted meanwhile: creations hide nothing,
\* and a walk that no deletion disturbs is complete.
MissedOnlyByDeletions ==
    [][ReadPage /\ ~more' =>
         Cardinality({e \in stayed : shown'[e] = 0}) <= removed]_vars

\* Each time a row has been on a page once more after the first.
Repeats ==
    {again \in Endpoints \X (1..Cardinality(Endpoints) + 1) : again[2] < shown[again[1]]}

\* A page shows a row again at most once for every creation committed during the walk:
\* deletions repeat nothing, however late a creation lands.
RepeatedOnlyByCreations ==
    Cardinality(Repeats) <= inserted

\* has_more sends the client to an empty page only if a row has been deleted since the
\* page that said so.
NoEmptyNextPage ==
    [][ReadPage /\ offset > 0 /\ recent = 0 => \E e \in Endpoints : shown'[e] > shown[e]]_vars

-----------------------------------------------------------------------------
(* The inductive invariant *)

\* Every page so far has moved the offset by Limit and has shown a row at most once.
PagesAreCounted ==
    \E page \in 0..Cardinality(Endpoints) + 1 :
        offset = Limit * page /\ \A e \in Endpoints : shown[e] <= page

\* An id is used once, which bounds what can come and go during a walk.
ChangesAreCounted ==
    /\ inserted <= Cardinality({e \in Endpoints : state[e] \in {"committed", "gone"}})
    /\ removed <= Cardinality({e \in Endpoints : state[e] = "gone"})

\* What is not committed yet has been on no page.
UncommittedIsUnshown ==
    \A e \in Endpoints : state[e] \in {"unused", "open"} => shown[e] = 0

\* But for recent deletions, has_more was right: there are rows after the offset.
MoreIsThere ==
    more /\ offset > 0 => offset < Cardinality(Rows) + recent

\* Rows that deletions have moved in front of the offset before they were shown.
PassedOver == {e \in stayed : shown[e] = 0 /\ Position(e) < offset}

\* Rows that creations have moved behind the offset after they were shown.
ShownAhead == {e \in Rows : shown[e] > 0 /\ Position(e) >= offset}

\* A deletion moves at most one row to the front, a creation at most one to the back.
EachMovesOne ==
    more => /\ Cardinality(PassedOver) <= removed
            /\ Cardinality(Repeats) + Cardinality(ShownAhead) <= inserted

\* What the properties follow from, and every step keeps: the pages and changes are
\* counted, has_more is right, and rows cross the offset one by one.
PaginationInv ==
    /\ TypeOK
    /\ PagesAreCounted
    /\ ChangesAreCounted
    /\ UncommittedIsUnshown
    /\ MoreIsThere
    /\ EachMovesOne
    /\ RepeatedOnlyByCreations

=============================================================================
