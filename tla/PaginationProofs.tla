-------------------------- MODULE PaginationProofs --------------------------
(***************************************************************************)
(* Proofs about Pagination for any endpoints, any limit and any clock.     *)
(***************************************************************************)
EXTENDS Pagination, FiniteSetTheorems, TLAPS

USE EndpointsAssumption, LimitAssumption

-----------------------------------------------------------------------------
(* Positions in the ordering *)

\* Any set of rows is finite: there are finitely many ids.
LEMMA SomeRows ==
    ASSUME NEW S \in SUBSET Endpoints
    PROVE  IsFiniteSet(S) /\ Cardinality(S) \in Nat /\ Cardinality(S) <= Cardinality(Endpoints)
BY FS_Subset, FS_CardinalityType

\* ORDER BY created_at DESC, id DESC is a strict total order.
LEMMA BeforeIsAnOrder ==
    ASSUME TypeOK
    PROVE  /\ \A e \in Endpoints : ~Before(e, e)
           /\ \A d, e \in Endpoints : d # e => Before(d, e) \/ Before(e, d)
           /\ \A c, d, e \in Endpoints : Before(c, d) /\ Before(d, e) => Before(c, e)
<1>1. Endpoints \subseteq Nat /\ \A e \in Endpoints : created[e] \in Nat
  BY DEF TypeOK
<1>2. QED
  BY <1>1 DEF Before

\* A row comes after fewer rows than there are.
LEMMA PositionBounds ==
    ASSUME TypeOK, NEW e \in Rows
    PROVE  Position(e) \in 0..Cardinality(Rows) - 1
<1>. DEFINE ahead == {d \in Rows : Before(d, e)}
<1>1. Rows \in SUBSET Endpoints /\ Rows \ {e} \in SUBSET Endpoints
  BY DEF Rows
<1>2. ahead \in SUBSET (Rows \ {e})
  BY <1>1, BeforeIsAnOrder
<1>3. Cardinality(ahead) <= Cardinality(Rows \ {e}) /\ Cardinality(ahead) \in Nat
  BY <1>1, <1>2, SomeRows, FS_Subset, FS_CardinalityType
<1>4. Cardinality(Rows \ {e}) = Cardinality(Rows) - 1
  BY <1>1, SomeRows, FS_RemoveElement
<1>5. QED
  BY <1>1, <1>3, <1>4, SomeRows DEF Position

\* A row that comes before another has a smaller position.
LEMMA PositionIsMonotone ==
    ASSUME TypeOK, NEW d \in Rows, NEW e \in Rows, Before(d, e)
    PROVE  Position(d) < Position(e)
<1>. DEFINE ahead(f) == {c \in Rows : Before(c, f)}
<1>1. Rows \in SUBSET Endpoints
  BY DEF Rows
<1>2. ahead(d) \in SUBSET ahead(e) /\ d \in ahead(e) /\ d \notin ahead(d)
  BY <1>1, BeforeIsAnOrder
<1>3. IsFiniteSet(ahead(e)) /\ Cardinality(ahead(e)) \in Nat
  BY <1>1, SomeRows
<1>4. Cardinality(ahead(d)) <= Cardinality(ahead(e)) /\ Cardinality(ahead(d)) \in Nat
  BY <1>1, <1>2, <1>3, FS_Subset, SomeRows
<1>5. Cardinality(ahead(d)) # Cardinality(ahead(e))
  BY <1>2, <1>3, FS_Subset
<1>6. QED
  BY <1>3, <1>4, <1>5 DEF Position

\* No two rows have the same position.
LEMMA PositionIsInjective ==
    ASSUME TypeOK, NEW d \in Rows, NEW e \in Rows, Position(d) = Position(e)
    PROVE  d = e
<1>. SUFFICES ASSUME d # e PROVE FALSE
  OBVIOUS
<1>1. Before(d, e) \/ Before(e, d)
  BY BeforeIsAnOrder DEF Rows
<1>2. Position(d) \in Nat /\ Position(e) \in Nat
  BY PositionBounds
<1>3. QED
  BY <1>1, <1>2, PositionIsMonotone

\* Every position up to the number of rows is some row's.
LEMMA PositionIsOnto ==
    ASSUME TypeOK, NEW n \in 0..Cardinality(Rows) - 1
    PROVE  \E e \in Rows : Position(e) = n
<1>. DEFINE positions == 0..Cardinality(Rows) - 1
            place == [e \in Rows |-> Position(e)]
<1>1. IsFiniteSet(Rows) /\ Cardinality(Rows) \in Nat
  BY SomeRows DEF Rows
<1>2. IsFiniteSet(positions) /\ Cardinality(positions) = Cardinality(Rows)
  BY <1>1, FS_Interval
<1>3. place \in Injection(Rows, positions)
  BY PositionBounds, PositionIsInjective DEF Injection, IsInjective
<1>4. place \in Surjection(Rows, positions)
  BY <1>2, <1>3, FS_Injection
<1>5. QED
  BY <1>4 DEF Surjection

-----------------------------------------------------------------------------
(* Pages *)

\* has_more is true only if there is a row after the page.
LEMMA HasMoreIsSound ==
    ASSUME TypeOK, HasMore
    PROVE  offset + Limit < Cardinality(Rows)
<1>. DEFINE page == offset..offset + Limit - 1
            place == [e \in Fetched |-> Position(e)]
<1>0. /\ offset \in Nat /\ Cardinality(Rows) \in Nat
      /\ Fetched \in SUBSET Rows /\ Fetched \in SUBSET Endpoints
  BY SomeRows DEF TypeOK, Rows, Fetched
<1>. SUFFICES ASSUME Cardinality(Rows) <= offset + Limit PROVE FALSE
  BY <1>0
<1>1. \A e \in Fetched : Position(e) \in page
  BY <1>0, PositionBounds DEF Fetched, FirstPosition
<1>2. IsFiniteSet(page) /\ Cardinality(page) = Limit
  <2>1. offset \in Int /\ offset + Limit - 1 \in Int /\ ~(offset > offset + Limit - 1)
    BY <1>0
  <2>2. /\ IsFiniteSet(page)
        /\ Cardinality(page) = (offset + Limit - 1) - offset + 1
    BY <2>1, FS_Interval
  <2>3. QED
    BY <1>0, <2>2
<1>3. place \in Injection(Fetched, page)
  BY <1>0, <1>1, PositionIsInjective DEF Injection, IsInjective
<1>4. Cardinality(Fetched) <= Limit
  BY <1>2, <1>3, FS_Injection
<1>5. QED
  BY <1>0, <1>4, SomeRows DEF HasMore

\* has_more is false only if no row is left after the page.
LEMMA HasMoreIsComplete ==
    ASSUME TypeOK, ~HasMore, NEW e \in Rows
    PROVE  Position(e) < offset + Limit
<1>. DEFINE page == offset..offset + Limit
            row == [n \in page |-> CHOOSE d \in Rows : Position(d) = n]
<1>0. offset \in Nat /\ Cardinality(Rows) \in Nat /\ Fetched \in SUBSET Endpoints
  BY SomeRows DEF TypeOK, Rows, Fetched
<1>. SUFFICES ASSUME Position(e) >= offset + Limit PROVE FALSE
  BY <1>0, PositionBounds
<1>1. page \subseteq 0..Cardinality(Rows) - 1
  BY <1>0, PositionBounds
<1>2. \A n \in page : row[n] \in Rows /\ Position(row[n]) = n
  BY <1>1, PositionIsOnto
<1>3. row \in Injection(page, Fetched)
  BY <1>2 DEF Injection, IsInjective, Fetched, FirstPosition
<1>4. Cardinality(page) = Limit + 1
  BY <1>0, FS_Interval
<1>5. Cardinality(page) <= Cardinality(Fetched)
  BY <1>0, <1>3, SomeRows, FS_Injection
<1>6. QED
  BY <1>0, <1>4, <1>5, SomeRows DEF HasMore

\* A page shows the rows from the offset on, as many as Limit.
LEMMA ItemsByPosition ==
    ASSUME TypeOK, NEW e \in Endpoints
    PROVE  e \in Items <=> e \in Rows /\ Position(e) >= offset /\ Position(e) < offset + Limit
<1>1. offset \in Nat /\ (e \in Rows => Position(e) \in Nat)
  BY PositionBounds DEF TypeOK
<1>2. QED
  BY <1>1 DEF Items, Fetched, FirstPosition, Rows

-----------------------------------------------------------------------------
(* How a step moves the rows *)

\* What leaves the committed rows alone leaves their positions alone.
LEMMA PositionsKept ==
    ASSUME TypeOK, Rows' = Rows, \A d \in Rows : created'[d] = created[d]
    PROVE  \A f \in Rows : Position(f)' = Position(f)
<1>1. ASSUME NEW f \in Rows PROVE Position(f)' = Position(f)
  <2>1. {d \in Rows' : Before(d, f)'} = {d \in Rows : Before(d, f)}
    BY DEF Before
  <2>2. QED
    BY <2>1 DEF Position
<1>2. QED
  BY <1>1

\* A creation moves a row back by at most one position.
LEMMA PositionsAfterCreation ==
    ASSUME TypeOK, NEW x \in Endpoints, CommitCreate(x)
    PROVE  /\ Rows' = Rows \cup {x} /\ x \notin Rows
           /\ \A f \in Rows : Position(f)' \in {Position(f), Position(f) + 1}
<1>1. Rows' = Rows \cup {x} /\ x \notin Rows /\ created' = created
  BY DEF TypeOK, CommitCreate, Rows
<1>2. ASSUME NEW f \in Rows PROVE Position(f)' \in {Position(f), Position(f) + 1}
  <2>. DEFINE ahead == {d \in Rows : Before(d, f)}
              aheadAfter == {d \in Rows' : Before(d, f)'}
  <2>1. aheadAfter = ahead \/ aheadAfter = ahead \cup {x}
    BY <1>1 DEF Before
  <2>2. IsFiniteSet(ahead) /\ x \notin ahead
    BY <1>1, SomeRows DEF Rows
  <2>3. Cardinality(aheadAfter) \in {Cardinality(ahead), Cardinality(ahead) + 1}
    BY <2>1, <2>2, FS_AddElement
  <2>4. QED
    BY <2>3 DEF Position
<1>3. QED
  BY <1>1, <1>2

\* A deletion moves a row to the front by at most one position.
LEMMA PositionsAfterDeletion ==
    ASSUME TypeOK, NEW x \in Endpoints, Delete(x)
    PROVE  /\ Rows' = Rows \ {x} /\ x \in Rows
           /\ \A f \in Rows' : Position(f)' \in {Position(f), Position(f) - 1}
<1>1. Rows' = Rows \ {x} /\ x \in Rows
  BY DEF TypeOK, Delete, Rows, States
<1>2. \A d \in Rows' : created'[d] = created[d]
  BY <1>1 DEF TypeOK, Delete, Rows
<1>3. ASSUME NEW f \in Rows' PROVE Position(f)' \in {Position(f), Position(f) - 1}
  <2>. DEFINE ahead == {d \in Rows : Before(d, f)}
              aheadAfter == {d \in Rows' : Before(d, f)'}
  <2>1. aheadAfter = ahead \ {x}
    BY <1>1, <1>2 DEF Before
  <2>2. IsFiniteSet(ahead)
    BY SomeRows DEF Rows
  <2>3. Cardinality(aheadAfter) \in {Cardinality(ahead), Cardinality(ahead) - 1}
    BY <2>1, <2>2, FS_RemoveElement
  <2>4. QED
    BY <2>3 DEF Position
<1>4. QED
  BY <1>1, <1>3

-----------------------------------------------------------------------------
(* Counting *)

\* Any set of repetitions is finite.
LEMMA SomeRepeats ==
    ASSUME NEW S \in SUBSET (Endpoints \X (1..Cardinality(Endpoints) + 1))
    PROVE  IsFiniteSet(S) /\ Cardinality(S) \in Nat
<1>1. Cardinality(Endpoints) \in Nat
  BY FS_CardinalityType
<1>2. IsFiniteSet(1..Cardinality(Endpoints) + 1)
  BY <1>1, FS_Interval
<1>3. IsFiniteSet(Endpoints \X (1..Cardinality(Endpoints) + 1))
  BY <1>2, FS_Product
<1>4. QED
  BY <1>3, FS_Subset, FS_CardinalityType

\* The numbers the invariant compares are numbers.
LEMMA CountsAreNumbers ==
    ASSUME TypeOK
    PROVE  /\ Limit \in Nat /\ Limit >= 1 /\ offset \in Nat /\ now \in Nat
           /\ inserted \in Nat /\ removed \in Nat /\ recent \in Nat /\ recent <= removed
           /\ Rows \in SUBSET Endpoints /\ IsFiniteSet(Rows) /\ Cardinality(Rows) \in Nat
           /\ PassedOver \in SUBSET Endpoints /\ IsFiniteSet(PassedOver)
           /\ Cardinality(PassedOver) \in Nat
           /\ ShownAhead \in SUBSET Endpoints /\ IsFiniteSet(ShownAhead)
           /\ Cardinality(ShownAhead) \in Nat
           /\ IsFiniteSet(Repeats) /\ Cardinality(Repeats) \in Nat
           /\ Cardinality(Endpoints) \in Nat
<1>1. Limit \in Nat /\ Limit >= 1 /\ offset \in Nat /\ now \in Nat
  BY FS_CardinalityType DEF TypeOK
<1>2. inserted \in Nat /\ removed \in Nat /\ recent \in Nat /\ recent <= removed
  BY DEF TypeOK
<1>3. /\ Rows \in SUBSET Endpoints /\ PassedOver \in SUBSET Endpoints
      /\ ShownAhead \in SUBSET Endpoints
  BY DEF TypeOK, Rows, PassedOver, ShownAhead
<1>4. Cardinality(Endpoints) \in Nat
  BY FS_CardinalityType
<1>5. IsFiniteSet(Repeats) /\ Cardinality(Repeats) \in Nat
  BY SomeRepeats DEF Repeats
<1>6. QED
  BY <1>1, <1>2, <1>3, <1>4, <1>5, SomeRows

\* Rows and deleted ids together are at most all ids.
LEMMA RowsAndDeleted ==
    ASSUME TypeOK, ChangesAreCounted
    PROVE  Cardinality(Rows) + removed <= Cardinality(Endpoints)
<1>. DEFINE deleted == {e \in Endpoints : state[e] = "gone"}
<1>1. Rows \in SUBSET Endpoints /\ deleted \in SUBSET Endpoints /\ Rows \cap deleted = {}
  BY DEF Rows
<1>2. Rows \cup deleted \in SUBSET Endpoints
  BY <1>1
<1>3. Cardinality(Rows \cup deleted) = Cardinality(Rows) + Cardinality(deleted)
  <2>1. Cardinality(Rows \cup deleted)
          = Cardinality(Rows) + Cardinality(deleted) - Cardinality(Rows \cap deleted)
    BY <1>1, SomeRows, FS_Union
  <2>2. QED
    BY <1>1, <2>1, SomeRows, FS_EmptySet
<1>4. Cardinality(Rows) + Cardinality(deleted) <= Cardinality(Endpoints)
  BY <1>2, <1>3, SomeRows
<1>5. QED
  BY <1>1, <1>4, SomeRows, CountsAreNumbers, FS_CardinalityType DEF ChangesAreCounted

\* The page being read is one of at most as many as there are ids.
LEMMA PagesAreBounded ==
    ASSUME PaginationInv, more,
           NEW page \in Nat, offset = Limit * page
    PROVE  page <= Cardinality(Endpoints)
<1>. USE DEF PaginationInv
<1>1. CASE page = 0
  BY <1>1, CountsAreNumbers
<1>2. CASE page # 0
  <2>1. offset >= page
    <3>1. Limit \in Nat /\ Limit - 1 \in Nat
      BY CountsAreNumbers
    <3>2. Limit * page = page + (Limit - 1) * page /\ (Limit - 1) * page >= 0
      BY <3>1
    <3>3. QED
      BY <3>1, <3>2, CountsAreNumbers
  <2>2. offset < Cardinality(Rows) + recent
    BY <1>2, <2>1, CountsAreNumbers DEF MoreIsThere
  <2>3. Cardinality(Rows) + recent <= Cardinality(Endpoints)
    BY RowsAndDeleted, CountsAreNumbers
  <2>4. QED
    BY <2>1, <2>2, <2>3, CountsAreNumbers
<1>3. QED
  BY <1>1, <1>2

-----------------------------------------------------------------------------
(* Every step keeps the invariant *)

\* Nothing has been read, created or deleted at first.
LEMMA InitInv ==
    Init => PaginationInv
<1>. SUFFICES ASSUME Init PROVE PaginationInv
  OBVIOUS
<1>. USE DEF Init
<1>0. Cardinality(Endpoints) \in Nat
  BY FS_CardinalityType
<1>1. offset = Limit * 0 /\ 0 \in 0..Cardinality(Endpoints) + 1
  BY <1>0
<1>2. TypeOK
  <2>1. offset \in {Limit * page : page \in 0..Cardinality(Endpoints) + 1}
    BY <1>1
  <2>2. state \in [Endpoints -> States] /\ created \in [Endpoints -> 0..MaxTime]
    BY DEF States
  <2>3. shown \in [Endpoints -> 0..Cardinality(Endpoints) + 1]
    BY <1>0
  <2>4. now \in 0..MaxTime /\ stayed \subseteq {e \in Endpoints : state[e] = "committed"}
    OBVIOUS
  <2>5. more \in BOOLEAN
    OBVIOUS
  <2>6. /\ inserted \in 0..Cardinality(Endpoints) /\ removed \in 0..Cardinality(Endpoints)
        /\ recent \in 0..removed
    BY <1>0
  <2>7. QED
    BY <2>1, <2>2, <2>3, <2>4, <2>5, <2>6 DEF TypeOK
<1>3. PagesAreCounted
  BY <1>0, <1>1 DEF PagesAreCounted
<1>4. ChangesAreCounted
  BY SomeRows DEF ChangesAreCounted
<1>5. RepeatedOnlyByCreations
  <2>1. Repeats = {}
    BY <1>0 DEF Repeats
  <2>2. QED
    BY <2>1, FS_EmptySet DEF RepeatedOnlyByCreations
<1>6. QED
  BY <1>2, <1>3, <1>4, <1>5
  DEF PaginationInv, UncommittedIsUnshown, MoreIsThere, EachMovesOne

\* A step that neither reads nor commits anything keeps the invariant.
LEMMA QuietStep ==
    ASSUME PaginationInv, TypeOK',
           Rows' = Rows, \A d \in Rows : created'[d] = created[d],
           UNCHANGED <<walkVars, stayed, inserted, removed, recent>>,
           \A e \in Endpoints : state[e] \in {"committed", "gone"} => state'[e] = state[e],
           \A e \in Endpoints : state'[e] \in {"unused", "open"} => state[e] \in {"unused", "open"}
    PROVE  PaginationInv'
<1>. USE DEF PaginationInv, walkVars
<1>1. PagesAreCounted'
  BY DEF PagesAreCounted
<1>2. ChangesAreCounted'
  <2>1. ASSUME NEW kinds \in {{"committed", "gone"}, {"gone"}}
        PROVE  Cardinality({e \in Endpoints : state[e] \in kinds})
                 <= Cardinality({e \in Endpoints : state'[e] \in kinds})
    <3>1. {e \in Endpoints : state[e] \in kinds}
            \in SUBSET {e \in Endpoints : state'[e] \in kinds}
      BY <2>1
    <3>2. QED
      BY <3>1, SomeRows, FS_Subset
  <2>2. Cardinality({e \in Endpoints : state[e] \in {"committed", "gone"}})
          <= Cardinality({e \in Endpoints : state'[e] \in {"committed", "gone"}})
    BY <2>1
  <2>3. Cardinality({e \in Endpoints : state[e] = "gone"})
          <= Cardinality({e \in Endpoints : state'[e] = "gone"})
    <3>1. /\ {e \in Endpoints : state[e] = "gone"} = {e \in Endpoints : state[e] \in {"gone"}}
          /\ {e \in Endpoints : state'[e] = "gone"} = {e \in Endpoints : state'[e] \in {"gone"}}
      OBVIOUS
    <3>2. QED
      BY <2>1, <3>1
  <2>4. QED
    BY <2>2, <2>3, CountsAreNumbers, SomeRows DEF ChangesAreCounted
<1>3. UncommittedIsUnshown'
  BY DEF UncommittedIsUnshown
<1>4. MoreIsThere'
  BY DEF MoreIsThere
<1>5. EachMovesOne' /\ RepeatedOnlyByCreations'
  <2>1. \A f \in Rows : Position(f)' = Position(f)
    BY PositionsKept
  <2>2. stayed \subseteq Rows
    BY DEF TypeOK, Rows
  <2>3. PassedOver' = PassedOver /\ ShownAhead' = ShownAhead /\ Repeats' = Repeats
    BY <2>1, <2>2 DEF PassedOver, ShownAhead, Repeats
  <2>4. QED
    BY <2>3 DEF EachMovesOne, RepeatedOnlyByCreations
<1>6. QED
  BY <1>1, <1>2, <1>3, <1>4, <1>5

\* Turning to the first page starts every count again.
LEMMA StartWalkInv ==
    ASSUME PaginationInv, StartWalk
    PROVE  PaginationInv'
<1>. USE DEF PaginationInv, StartWalk
<1>0. /\ Cardinality(Endpoints) \in Nat /\ Rows' = Rows
      /\ \A f \in Rows : Position(f)' = Position(f) /\ Position(f) \in Nat
  BY CountsAreNumbers, PositionsKept, PositionBounds DEF Rows
<1>1. offset' = Limit * 0 /\ 0 \in 0..Cardinality(Endpoints) + 1
  BY <1>0
<1>2. TypeOK'
  <2>1. offset' \in {Limit * page : page \in 0..Cardinality(Endpoints) + 1}
    BY <1>1
  <2>2. QED
    BY <1>0, <2>1 DEF TypeOK, Rows
<1>3. PagesAreCounted'
  BY <1>0, <1>1 DEF PagesAreCounted
<1>4. ChangesAreCounted'
  BY SomeRows DEF ChangesAreCounted
<1>5. PassedOver' = {} /\ ShownAhead' = {} /\ Repeats' = {}
  <2>1. PassedOver' = {}
    BY <1>0 DEF PassedOver
  <2>2. ShownAhead' = {}
    BY <1>0, CountsAreNumbers DEF ShownAhead
  <2>3. Repeats' = {}
    BY <1>0 DEF Repeats
  <2>4. QED
    BY <2>1, <2>2, <2>3
<1>6. EachMovesOne' /\ RepeatedOnlyByCreations'
  BY <1>5, FS_EmptySet DEF EachMovesOne, RepeatedOnlyByCreations
<1>7. UncommittedIsUnshown' /\ MoreIsThere'
  BY DEF UncommittedIsUnshown, MoreIsThere
<1>8. QED
  BY <1>2, <1>3, <1>4, <1>6, <1>7

\* The repetitions on a page are the rows on it that have been shown.
LEMMA RepeatsOfAPage ==
    ASSUME TypeOK, ReadPage
    PROVE  Cardinality(Repeats')
             <= Cardinality(Repeats) + Cardinality({e \in Items : shown[e] > 0})
<1>. DEFINE shownAgain == {e \in Items : shown[e] > 0}
            again == {<<e, shown[e]>> : e \in shownAgain}
            count == [e \in shownAgain |-> <<e, shown[e]>>]
<1>1. shownAgain \in SUBSET Endpoints /\ IsFiniteSet(shownAgain)
  BY SomeRows DEF Items, Fetched, Rows
<1>2. count \in Surjection(shownAgain, again)
  BY DEF Surjection
<1>3. IsFiniteSet(again) /\ Cardinality(again) <= Cardinality(shownAgain)
  BY <1>1, <1>2, FS_Surjection
<1>4. Repeats' \in SUBSET (Repeats \cup again)
  <2>1. SUFFICES ASSUME NEW pair \in Repeats', pair \notin Repeats
                 PROVE  pair \in again
    OBVIOUS
  <2>. DEFINE e == pair[1]
              n == pair[2]
  <2>2. /\ pair = <<e, n>> /\ e \in Endpoints /\ n \in 1..Cardinality(Endpoints) + 1
        /\ n < shown'[e] /\ ~(n < shown[e])
    BY <2>1 DEF Repeats
  <2>. HIDE DEF e, n
  <2>3. shown[e] \in Nat /\ Cardinality(Endpoints) \in Nat
    BY <2>2, CountsAreNumbers DEF TypeOK
  <2>4. e \in Items /\ shown'[e] = shown[e] + 1
    BY <2>2, <2>3 DEF ReadPage, TypeOK
  <2>5. n = shown[e] /\ shown[e] > 0
    BY <2>2, <2>3, <2>4
  <2>6. QED
    BY <2>2, <2>4, <2>5
<1>5. /\ IsFiniteSet(Repeats \cup again)
      /\ Cardinality(Repeats \cup again)
           = Cardinality(Repeats) + Cardinality(again) - Cardinality(Repeats \cap again)
  BY <1>3, CountsAreNumbers, FS_Union
<1>6. /\ Cardinality(Repeats') <= Cardinality(Repeats \cup again)
      /\ Cardinality(Repeats') \in Nat
  BY <1>4, <1>5, FS_Subset, FS_CardinalityType
<1>7. /\ Cardinality(Repeats \cap again) \in Nat /\ Cardinality(again) \in Nat
      /\ Cardinality(shownAgain) \in Nat /\ Cardinality(Repeats \cup again) \in Nat
  BY <1>1, <1>3, <1>5, CountsAreNumbers, FS_Intersection, FS_CardinalityType
<1>8. QED
  BY <1>3, <1>5, <1>6, <1>7, CountsAreNumbers

\* Reading a page shows rows behind the offset and moves the offset past them.
LEMMA ReadPageInv ==
    ASSUME PaginationInv, ReadPage
    PROVE  PaginationInv'
<1>. USE DEF PaginationInv
<1>0. /\ more /\ Rows' = Rows
      /\ shown' = [e \in Endpoints |-> IF e \in Items THEN shown[e] + 1 ELSE shown[e]]
      /\ more' = HasMore /\ offset' = offset + Limit /\ recent' = 0
      /\ UNCHANGED <<now, state, created, stayed, inserted, removed>>
  BY DEF ReadPage, Rows
<1>1. /\ \A f \in Rows : Position(f)' = Position(f) /\ Position(f) \in Nat
      /\ stayed \subseteq Rows
  <2>1. \A f \in Rows : Position(f)' = Position(f)
    BY <1>0, PositionsKept
  <2>2. \A f \in Rows : Position(f) \in Nat
    BY PositionBounds
  <2>3. stayed \subseteq Rows
    BY DEF TypeOK, Rows
  <2>4. QED
    BY <2>1, <2>2, <2>3
<1>2. PICK page \in 0..Cardinality(Endpoints) + 1 :
           offset = Limit * page /\ \A e \in Endpoints : shown[e] <= page
  BY DEF PagesAreCounted
<1>3. page <= Cardinality(Endpoints) /\ page + 1 \in 0..Cardinality(Endpoints) + 1
  BY <1>0, <1>2, PagesAreBounded, CountsAreNumbers
<1>4. offset' = Limit * (page + 1)
  <2>1. Limit \in Nat /\ page \in Nat
    BY CountsAreNumbers
  <2>2. Limit * (page + 1) = Limit * page + Limit
    BY <2>1
  <2>3. QED
    BY <1>0, <1>2, <2>2
<1>5. \A e \in Endpoints : shown'[e] \in Nat /\ shown'[e] <= page + 1
  BY <1>0, <1>2, CountsAreNumbers DEF TypeOK
<1>6. TypeOK'
  <2>1. offset' \in {Limit * p : p \in 0..Cardinality(Endpoints) + 1}
    BY <1>3, <1>4
  <2>2. shown' \in [Endpoints -> 0..Cardinality(Endpoints) + 1]
    BY <1>0, <1>3, <1>5, CountsAreNumbers
  <2>3. more' \in BOOLEAN
    BY <1>0 DEF HasMore
  <2>4. QED
    BY <1>0, <2>1, <2>2, <2>3, CountsAreNumbers DEF TypeOK
<1>7. PagesAreCounted'
  BY <1>3, <1>4, <1>5 DEF PagesAreCounted
<1>8. ChangesAreCounted'
  BY <1>0 DEF ChangesAreCounted
<1>9. UncommittedIsUnshown'
  BY <1>0, ItemsByPosition DEF UncommittedIsUnshown, Rows
<1>10. MoreIsThere'
  BY <1>0, HasMoreIsSound, CountsAreNumbers DEF MoreIsThere
<1>11. PassedOver' \subseteq PassedOver
  <2>1. ASSUME NEW e \in PassedOver' PROVE e \in PassedOver
    <3>1. /\ e \in stayed /\ e \in Rows /\ e \in Endpoints /\ shown'[e] = 0
          /\ Position(e) < offset + Limit
      BY <1>0, <1>1, <2>1 DEF PassedOver, Rows
    <3>2. shown[e] = 0 /\ e \notin Items
      BY <1>0, <3>1, CountsAreNumbers DEF TypeOK
    <3>3. Position(e) < offset
      BY <1>1, <3>1, <3>2, ItemsByPosition, CountsAreNumbers
    <3>4. QED
      BY <3>1, <3>2, <3>3 DEF PassedOver
  <2>2. QED
    BY <2>1
<1>12. Cardinality(PassedOver') <= removed'
  <2>1. Cardinality(PassedOver) <= removed
    BY <1>0 DEF EachMovesOne
  <2>2. PassedOver' \in SUBSET PassedOver /\ PassedOver' \in SUBSET Endpoints
    BY <1>11, CountsAreNumbers
  <2>3. Cardinality(PassedOver') <= Cardinality(PassedOver) /\ Cardinality(PassedOver') \in Nat
    BY <2>2, CountsAreNumbers, SomeRows, FS_Subset
  <2>4. QED
    BY <1>0, <2>1, <2>3, CountsAreNumbers
<1>13. Cardinality(Repeats') + Cardinality(ShownAhead') <= inserted'
  <2>. DEFINE again == {e \in Items : shown[e] > 0}
  <2>1. ShownAhead' \cup again \subseteq ShownAhead
    <3>1. ASSUME NEW e \in ShownAhead' PROVE e \in ShownAhead
      <4>1. e \in Rows /\ e \in Endpoints /\ shown'[e] > 0 /\ Position(e) >= offset + Limit
        BY <1>0, <1>1, <3>1 DEF ShownAhead, Rows
      <4>2. e \notin Items /\ shown'[e] = shown[e]
        BY <1>0, <1>1, <4>1, ItemsByPosition, CountsAreNumbers
      <4>3. QED
        BY <1>1, <4>1, <4>2, CountsAreNumbers DEF ShownAhead
    <3>2. ASSUME NEW e \in again PROVE e \in ShownAhead
      BY <3>2, ItemsByPosition DEF ShownAhead, Rows, Items, Fetched
    <3>3. QED
      BY <3>1, <3>2
  <2>2. ShownAhead' \cap again = {}
    <3>1. ASSUME NEW e \in ShownAhead', e \in Items PROVE FALSE
      <4>1. e \in Rows /\ e \in Endpoints /\ Position(e) >= offset + Limit /\ Position(e) \in Nat
        BY <1>0, <1>1, <3>1 DEF ShownAhead, Rows
      <4>2. QED
        BY <3>1, <4>1, ItemsByPosition, CountsAreNumbers
    <3>2. QED
      BY <3>1
  <2>3. again \in SUBSET Endpoints /\ ShownAhead' \in SUBSET Endpoints
    BY <2>1, CountsAreNumbers
  <2>4. Cardinality(ShownAhead' \cup again) = Cardinality(ShownAhead') + Cardinality(again)
    <3>1. Cardinality(ShownAhead' \cup again)
            = Cardinality(ShownAhead') + Cardinality(again) - Cardinality(ShownAhead' \cap again)
      BY <2>3, SomeRows, FS_Union
    <3>2. QED
      BY <2>2, <2>3, <3>1, SomeRows, FS_EmptySet
  <2>5. Cardinality(ShownAhead') + Cardinality(again) <= Cardinality(ShownAhead)
    BY <2>1, <2>4, CountsAreNumbers, FS_Subset
  <2>6. Cardinality(Repeats') <= Cardinality(Repeats) + Cardinality(again)
    BY RepeatsOfAPage
  <2>7. Cardinality(Repeats') \in Nat
    BY SomeRepeats DEF Repeats
  <2>8. QED
    BY <1>0, <2>3, <2>5, <2>6, <2>7, SomeRows, CountsAreNumbers DEF EachMovesOne
<1>14. EachMovesOne'
  BY <1>12, <1>13 DEF EachMovesOne
<1>15. RepeatedOnlyByCreations'
  <2>1. Cardinality(ShownAhead') \in Nat
    BY <1>0, CountsAreNumbers, SomeRows DEF ShownAhead
  <2>2. Cardinality(Repeats') \in Nat /\ inserted' \in Nat
    BY <1>0, CountsAreNumbers, SomeRepeats DEF Repeats
  <2>3. QED
    BY <1>13, <2>1, <2>2 DEF RepeatedOnlyByCreations
<1>16. QED
  BY <1>6, <1>7, <1>8, <1>9, <1>10, <1>14, <1>15

\* A creation that is committed moves at most one row behind the offset.
LEMMA CommitCreateInv ==
    ASSUME PaginationInv, NEW x \in Endpoints, CommitCreate(x)
    PROVE  PaginationInv'
<1>. USE DEF PaginationInv, walkVars
<1>0. /\ state[x] = "open" /\ state' = [state EXCEPT ![x] = "committed"]
      /\ inserted' = IF more THEN inserted + 1 ELSE inserted
      /\ UNCHANGED <<now, created, offset, more, shown, stayed, removed, recent>>
  BY DEF CommitCreate
<1>1. /\ Rows' = Rows \cup {x} /\ x \notin Rows
      /\ \A f \in Rows : Position(f)' \in {Position(f), Position(f) + 1}
  BY PositionsAfterCreation
<1>2. \A f \in Rows : Position(f) \in Nat
  BY PositionBounds
<1>3. stayed \subseteq Rows
  BY DEF TypeOK, Rows
<1>4. Cardinality(Rows') = Cardinality(Rows) + 1
  BY <1>1, CountsAreNumbers, FS_AddElement
<1>5. ChangesAreCounted'
  <2>. DEFINE created1 == {e \in Endpoints : state[e] \in {"committed", "gone"}}
              created2 == {e \in Endpoints : state'[e] \in {"committed", "gone"}}
              deleted1 == {e \in Endpoints : state[e] = "gone"}
              deleted2 == {e \in Endpoints : state'[e] = "gone"}
  <2>1. created2 = created1 \cup {x} /\ x \notin created1 /\ deleted2 = deleted1
    BY <1>0 DEF TypeOK
  <2>2. Cardinality(created2) = Cardinality(created1) + 1 /\ Cardinality(created1) \in Nat
    BY <2>1, SomeRows, FS_AddElement
  <2>3. inserted <= Cardinality(created1) /\ removed <= Cardinality(deleted1)
    BY DEF ChangesAreCounted
  <2>4. inserted' <= Cardinality(created2)
    <3>. HIDE DEF created1, created2, deleted1, deleted2
    <3>1. inserted' = inserted \/ inserted' = inserted + 1
      BY <1>0
    <3>2. QED
      BY <2>2, <2>3, <3>1, CountsAreNumbers
  <2>5. removed' <= Cardinality(deleted2)
    BY <1>0, <2>1, <2>3
  <2>6. QED
    BY <2>4, <2>5 DEF ChangesAreCounted
<1>6. TypeOK'
  <2>1. inserted' \in 0..Cardinality(Endpoints)
    <3>1. Cardinality({e \in Endpoints : state'[e] \in {"committed", "gone"}})
            <= Cardinality(Endpoints)
      BY SomeRows
    <3>2. QED
      BY <1>0, <1>5, <3>1, SomeRows, CountsAreNumbers DEF ChangesAreCounted
  <2>2. /\ state' \in [Endpoints -> States]
        /\ stayed' \subseteq {e \in Endpoints : state'[e] = "committed"}
    BY <1>0 DEF TypeOK, States
  <2>3. QED
    BY <1>0, <2>1, <2>2 DEF TypeOK
<1>7. PagesAreCounted'
  BY <1>0 DEF PagesAreCounted
<1>8. UncommittedIsUnshown'
  BY <1>0 DEF UncommittedIsUnshown, TypeOK
<1>9. MoreIsThere'
  BY <1>0, <1>4, CountsAreNumbers DEF MoreIsThere
<1>10. Repeats' = Repeats
  BY <1>0 DEF Repeats
<1>11. PassedOver' \in SUBSET PassedOver
  BY <1>0, <1>1, <1>2, <1>3, CountsAreNumbers DEF PassedOver
<1>12. Cardinality(PassedOver') <= Cardinality(PassedOver)
  BY <1>11, CountsAreNumbers, FS_Subset
<1>13. Cardinality(ShownAhead') <= Cardinality(ShownAhead) + 1
  <2>. DEFINE moved == {e \in Rows : Position(e) = offset - 1}
  <2>1. ShownAhead' \subseteq ShownAhead \cup moved
    <3>1. ASSUME NEW e \in ShownAhead' PROVE e \in ShownAhead \cup moved
      <4>1. e \in Rows' /\ shown[e] > 0 /\ Position(e)' >= offset
        BY <1>0, <3>1 DEF ShownAhead
      <4>2. e # x
        BY <1>0, <4>1 DEF UncommittedIsUnshown
      <4>3. e \in Rows /\ Position(e)' \in {Position(e), Position(e) + 1} /\ Position(e) \in Nat
        BY <1>1, <1>2, <4>1, <4>2
      <4>4. Position(e) >= offset \/ Position(e) = offset - 1
        BY <4>1, <4>3, CountsAreNumbers
      <4>5. QED
        BY <4>1, <4>3, <4>4 DEF ShownAhead
    <3>2. QED
      BY <3>1
  <2>2. moved = {} \/ \E e \in Rows : moved = {e}
    BY PositionIsInjective
  <2>3. \E e : ShownAhead' \in SUBSET (ShownAhead \cup {e})
    BY <2>1, <2>2
  <2>4. PICK e : ShownAhead' \in SUBSET (ShownAhead \cup {e})
    BY <2>3
  <2>5. /\ IsFiniteSet(ShownAhead \cup {e})
        /\ Cardinality(ShownAhead \cup {e})
             \in {Cardinality(ShownAhead), Cardinality(ShownAhead) + 1}
    BY CountsAreNumbers, FS_AddElement
  <2>6. Cardinality(ShownAhead') <= Cardinality(ShownAhead \cup {e})
        /\ Cardinality(ShownAhead') \in Nat
    BY <2>4, <2>5, FS_Subset, FS_CardinalityType
  <2>7. QED
    BY <2>5, <2>6, CountsAreNumbers
<1>14. EachMovesOne'
  <2>1. Cardinality(ShownAhead') \in Nat /\ Cardinality(PassedOver') \in Nat
    BY <1>0, <1>1, <1>11, CountsAreNumbers, SomeRows DEF ShownAhead
  <2>2. QED
    BY <1>0, <1>10, <1>12, <1>13, <2>1, CountsAreNumbers DEF EachMovesOne
<1>15. RepeatedOnlyByCreations'
  BY <1>0, <1>10, CountsAreNumbers DEF RepeatedOnlyByCreations
<1>16. QED
  BY <1>5, <1>6, <1>7, <1>8, <1>9, <1>14, <1>15

\* A deletion moves at most one row in front of the offset.
LEMMA DeleteInv ==
    ASSUME PaginationInv, NEW x \in Endpoints, Delete(x)
    PROVE  PaginationInv'
<1>. USE DEF PaginationInv, walkVars
<1>0. /\ state[x] = "committed" /\ state' = [state EXCEPT ![x] = "gone"]
      /\ created' = [created EXCEPT ![x] = 0] /\ stayed' = stayed \ {x}
      /\ removed' = IF more THEN removed + 1 ELSE removed
      /\ recent' = IF more THEN recent + 1 ELSE recent
      /\ UNCHANGED <<now, offset, more, shown, inserted>>
  BY DEF Delete
<1>1. /\ Rows' = Rows \ {x} /\ x \in Rows
      /\ \A f \in Rows' : Position(f)' \in {Position(f), Position(f) - 1}
  BY PositionsAfterDeletion
<1>2. \A f \in Rows : Position(f) \in Nat
  BY PositionBounds
<1>3. stayed' \subseteq Rows'
  BY <1>0, <1>1 DEF TypeOK, Rows
<1>4. Cardinality(Rows') = Cardinality(Rows) - 1
  BY <1>1, CountsAreNumbers, FS_RemoveElement
<1>5. ChangesAreCounted'
  <2>. DEFINE created1 == {e \in Endpoints : state[e] \in {"committed", "gone"}}
              created2 == {e \in Endpoints : state'[e] \in {"committed", "gone"}}
              deleted1 == {e \in Endpoints : state[e] = "gone"}
              deleted2 == {e \in Endpoints : state'[e] = "gone"}
  <2>1. created2 = created1 /\ deleted2 = deleted1 \cup {x} /\ x \notin deleted1
    BY <1>0 DEF TypeOK
  <2>2. Cardinality(deleted2) = Cardinality(deleted1) + 1 /\ Cardinality(deleted1) \in Nat
    BY <2>1, SomeRows, FS_AddElement
  <2>3. inserted <= Cardinality(created1) /\ removed <= Cardinality(deleted1)
    BY DEF ChangesAreCounted
  <2>4. inserted' <= Cardinality(created2) /\ removed' <= Cardinality(deleted2)
    BY <1>0, <2>1, <2>2, <2>3, CountsAreNumbers
  <2>5. QED
    BY <2>4 DEF ChangesAreCounted
<1>6. TypeOK'
  <2>1. removed' \in 0..Cardinality(Endpoints)
    <3>1. Cardinality({e \in Endpoints : state'[e] = "gone"}) <= Cardinality(Endpoints)
      BY SomeRows
    <3>2. QED
      BY <1>0, <1>5, <3>1, SomeRows, CountsAreNumbers DEF ChangesAreCounted
  <2>2. recent' \in 0..removed'
    BY <1>0, CountsAreNumbers
  <2>3. state' \in [Endpoints -> States] /\ created' \in [Endpoints -> 0..MaxTime]
    BY <1>0 DEF TypeOK, States
  <2>4. stayed' \subseteq {e \in Endpoints : state'[e] = "committed"}
    BY <1>3 DEF Rows
  <2>5. QED
    BY <1>0, <2>1, <2>2, <2>3, <2>4 DEF TypeOK
<1>7. PagesAreCounted'
  BY <1>0 DEF PagesAreCounted
<1>8. UncommittedIsUnshown'
  BY <1>0 DEF UncommittedIsUnshown, TypeOK
<1>9. MoreIsThere'
  BY <1>0, <1>4, CountsAreNumbers DEF MoreIsThere
<1>10. Repeats' = Repeats
  BY <1>0 DEF Repeats
<1>11. ShownAhead' \in SUBSET ShownAhead
  <2>1. ASSUME NEW e \in ShownAhead' PROVE e \in ShownAhead
    <3>1. e \in Rows' /\ shown[e] > 0 /\ Position(e)' >= offset
      BY <1>0, <2>1 DEF ShownAhead
    <3>2. e \in Rows /\ Position(e)' \in {Position(e), Position(e) - 1} /\ Position(e) \in Nat
      BY <1>1, <1>2, <3>1
    <3>3. Position(e) >= offset
      BY <3>1, <3>2, CountsAreNumbers
    <3>4. QED
      BY <3>1, <3>2, <3>3 DEF ShownAhead
  <2>2. QED
    BY <2>1
<1>12. Cardinality(ShownAhead') <= Cardinality(ShownAhead)
  BY <1>11, CountsAreNumbers, FS_Subset
<1>13. Cardinality(PassedOver') <= Cardinality(PassedOver) + 1
  <2>. DEFINE moved == {e \in Rows : Position(e) = offset}
  <2>1. PassedOver' \subseteq PassedOver \cup moved
    <3>1. ASSUME NEW e \in PassedOver' PROVE e \in PassedOver \cup moved
      <4>1. e \in stayed /\ e \in Rows' /\ shown[e] = 0 /\ Position(e)' < offset
        BY <1>0, <1>3, <3>1 DEF PassedOver
      <4>2. e \in Rows /\ Position(e)' \in {Position(e), Position(e) - 1} /\ Position(e) \in Nat
        BY <1>1, <1>2, <4>1
      <4>3. Position(e) < offset \/ Position(e) = offset
        BY <4>1, <4>2, CountsAreNumbers
      <4>4. QED
        BY <4>1, <4>2, <4>3 DEF PassedOver
    <3>2. QED
      BY <3>1
  <2>2. moved = {} \/ \E e \in Rows : moved = {e}
    BY PositionIsInjective
  <2>3. \E e : PassedOver' \in SUBSET (PassedOver \cup {e})
    BY <2>1, <2>2
  <2>4. PICK e : PassedOver' \in SUBSET (PassedOver \cup {e})
    BY <2>3
  <2>5. /\ IsFiniteSet(PassedOver \cup {e})
        /\ Cardinality(PassedOver \cup {e})
             \in {Cardinality(PassedOver), Cardinality(PassedOver) + 1}
    BY CountsAreNumbers, FS_AddElement
  <2>6. Cardinality(PassedOver') <= Cardinality(PassedOver \cup {e})
        /\ Cardinality(PassedOver') \in Nat
    BY <2>4, <2>5, FS_Subset, FS_CardinalityType
  <2>7. QED
    BY <2>5, <2>6, CountsAreNumbers
<1>14. EachMovesOne'
  <2>1. Cardinality(ShownAhead') \in Nat
    BY <1>11, CountsAreNumbers, SomeRows
  <2>2. Cardinality(PassedOver') \in Nat
    BY <1>3, <1>1, CountsAreNumbers, SomeRows DEF PassedOver
  <2>3. QED
    BY <1>0, <1>10, <1>12, <1>13, <2>1, <2>2, CountsAreNumbers DEF EachMovesOne
<1>15. RepeatedOnlyByCreations'
  BY <1>0, <1>10 DEF RepeatedOnlyByCreations
<1>16. QED
  BY <1>5, <1>6, <1>7, <1>8, <1>9, <1>14, <1>15

\* Every step keeps the invariant.
LEMMA NextInv ==
    PaginationInv /\ [Next]_vars => PaginationInv'
<1>. SUFFICES ASSUME PaginationInv, [Next]_vars PROVE PaginationInv'
  OBVIOUS
<1>. USE DEF walkVars
<1>0. TypeOK
  BY DEF PaginationInv
<1>1. CASE StartWalk
  BY <1>1, StartWalkInv
<1>2. CASE ReadPage
  BY <1>2, ReadPageInv
<1>3. CASE Tick
  <2>1. TypeOK' /\ Rows' = Rows
    BY <1>0, <1>3 DEF Tick, TypeOK, Rows
  <2>2. QED
    BY <1>3, <2>1, QuietStep DEF Tick
<1>4. ASSUME NEW x \in Endpoints, BeginCreate(x) PROVE PaginationInv'
  <2>1. TypeOK' /\ Rows' = Rows
    BY <1>0, <1>4 DEF BeginCreate, TypeOK, Rows, States
  <2>2. \A d \in Rows : created'[d] = created[d]
    BY <1>0, <1>4 DEF BeginCreate, TypeOK, Rows
  <2>3. \A e \in Endpoints : state[e] \in {"committed", "gone"} => state'[e] = state[e]
    BY <1>0, <1>4 DEF BeginCreate, TypeOK
  <2>4. \A e \in Endpoints : state'[e] \in {"unused", "open"} => state[e] \in {"unused", "open"}
    BY <1>0, <1>4 DEF BeginCreate, TypeOK
  <2>5. QED
    BY <1>4, <2>1, <2>2, <2>3, <2>4, QuietStep DEF BeginCreate
<1>5. ASSUME NEW x \in Endpoints, RollbackCreate(x) PROVE PaginationInv'
  <2>1. TypeOK' /\ Rows' = Rows
    BY <1>0, <1>5 DEF RollbackCreate, TypeOK, Rows, States
  <2>2. \A d \in Rows : created'[d] = created[d]
    BY <1>0, <1>5 DEF RollbackCreate, TypeOK, Rows
  <2>3. \A e \in Endpoints : state[e] \in {"committed", "gone"} => state'[e] = state[e]
    BY <1>0, <1>5 DEF RollbackCreate, TypeOK
  <2>4. \A e \in Endpoints : state'[e] \in {"unused", "open"} => state[e] \in {"unused", "open"}
    BY <1>0, <1>5 DEF RollbackCreate, TypeOK
  <2>5. QED
    BY <1>5, <2>1, <2>2, <2>3, <2>4, QuietStep DEF RollbackCreate
<1>6. CASE UNCHANGED vars
  <2>1. TypeOK' /\ Rows' = Rows
    BY <1>0, <1>6 DEF vars, TypeOK, Rows
  <2>2. QED
    BY <1>6, <2>1, QuietStep DEF vars
<1>7. QED
  BY <1>1, <1>2, <1>3, <1>4, <1>5, <1>6, CommitCreateInv, DeleteInv DEF Next

-----------------------------------------------------------------------------
(* Results *)

\* The invariant holds in every reachable state of any number of walks, with any rows
\* created and deleted meanwhile.
THEOREM InvariantHolds ==
    Spec => []PaginationInv
BY InitInv, NextInv, PTL DEF Spec

\* Offsets, counts and histories stay within their types: a walk ends after at most one
\* page for every id.
THEOREM TypeCorrect ==
    Spec => []TypeOK
<1>1. PaginationInv => TypeOK
  BY DEF PaginationInv
<1>2. QED
  BY <1>1, InvariantHolds, PTL

\* Limit and offset never show a row again but for a creation that landed meanwhile.
THEOREM RepeatsNeedCreations ==
    Spec => []RepeatedOnlyByCreations
<1>1. PaginationInv => RepeatedOnlyByCreations
  BY DEF PaginationInv
<1>2. QED
  BY <1>1, InvariantHolds, PTL

\* A walk that is over has missed no more rows that stayed than were deleted meanwhile.
THEOREM MissesNeedDeletions ==
    Spec => MissedOnlyByDeletions
<1>1. PaginationInv /\ ReadPage /\ ~more'
        => Cardinality({e \in stayed : shown'[e] = 0}) <= removed
  <2>. SUFFICES ASSUME PaginationInv, ReadPage, ~more'
                PROVE  Cardinality({e \in stayed : shown'[e] = 0}) <= removed
    OBVIOUS
  <2>. DEFINE missed == {e \in stayed : shown'[e] = 0}
  <2>0. TypeOK /\ more /\ ~HasMore /\ EachMovesOne
    BY DEF PaginationInv, ReadPage
  <2>1. missed \subseteq PassedOver
    <3>1. ASSUME NEW e \in missed PROVE e \in PassedOver
      <4>1. e \in Rows /\ e \in Endpoints /\ e \in stayed /\ shown[e] \in Nat
        <5>1. e \in stayed /\ e \in Rows /\ e \in Endpoints
          BY <2>0, <3>1 DEF TypeOK, Rows
        <5>2. shown \in [Endpoints -> 0..Cardinality(Endpoints) + 1]
          BY <2>0 DEF TypeOK
        <5>3. QED
          BY <5>1, <5>2
      <4>2. e \notin Items /\ shown[e] = 0
        BY <2>0, <3>1, <4>1 DEF ReadPage
      <4>3. Position(e) < offset + Limit
        BY <2>0, <4>1, HasMoreIsComplete
      <4>4. Position(e) < offset
        BY <2>0, <4>1, <4>2, <4>3, ItemsByPosition, PositionBounds, CountsAreNumbers
      <4>5. QED
        BY <4>1, <4>2, <4>4 DEF PassedOver
    <3>2. QED
      BY <3>1
  <2>2. Cardinality(missed) <= Cardinality(PassedOver) /\ Cardinality(missed) \in Nat
    BY <2>0, <2>1, CountsAreNumbers, FS_Subset, FS_CardinalityType
  <2>3. QED
    BY <2>0, <2>2, CountsAreNumbers DEF EachMovesOne
<1>2. PaginationInv /\ [Next]_vars
        => [ReadPage /\ ~more' =>
              Cardinality({e \in stayed : shown'[e] = 0}) <= removed]_vars
  BY <1>1
<1>3. QED
  BY <1>2, InvariantHolds, PTL DEF MissedOnlyByDeletions, Spec

\* has_more never leads to an empty page unless something was deleted since it was told.
THEOREM NextPageIsNotEmpty ==
    Spec => NoEmptyNextPage
<1>1. PaginationInv /\ ReadPage /\ offset > 0 /\ recent = 0
        => \E e \in Endpoints : shown'[e] > shown[e]
  <2>. SUFFICES ASSUME PaginationInv, ReadPage, offset > 0, recent = 0
                PROVE  \E e \in Endpoints : shown'[e] > shown[e]
    OBVIOUS
  <2>0. TypeOK /\ more /\ MoreIsThere
    BY DEF PaginationInv, ReadPage
  <2>1. offset \in 0..Cardinality(Rows) - 1
    BY <2>0, CountsAreNumbers DEF MoreIsThere
  <2>2. PICK e \in Rows : Position(e) = offset
    BY <2>0, <2>1, PositionIsOnto
  <2>3. e \in Endpoints /\ e \in Items /\ shown[e] \in Nat
    BY <2>0, <2>2, ItemsByPosition, CountsAreNumbers DEF TypeOK, Rows
  <2>4. shown'[e] = shown[e] + 1
    BY <2>3 DEF ReadPage
  <2>5. QED
    BY <2>3, <2>4
<1>2. PaginationInv /\ [Next]_vars
        => [ReadPage /\ offset > 0 /\ recent = 0
              => \E e \in Endpoints : shown'[e] > shown[e]]_vars
  BY <1>1
<1>3. QED
  BY <1>2, InvariantHolds, PTL DEF NoEmptyNextPage, Spec

=============================================================================
