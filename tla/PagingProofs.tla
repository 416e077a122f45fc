---------------------------- MODULE PagingProofs ----------------------------
(***************************************************************************)
(* Proofs about Paging: a walk finds all it owes, and its offsets are      *)
(* exact, whatever the rows, the stamps, the page size and the width.      *)
(***************************************************************************)
EXTENDS Paging, PageOffsetProofs, FiniteSetTheorems, TLAPS

\* There are finitely many rows, fewer than offsets.
LEMMA RowsFinite ==
    ASSUME TypeOK
    PROVE  /\ IsFiniteSet(DOMAIN rows)
           /\ Cardinality(DOMAIN rows) \in Nat
           /\ Cardinality(DOMAIN rows) <= Cardinality(Ids)
           /\ Cardinality(Ids) \in Nat
  BY PagingAssumption, FS_Subset, FS_CardinalityType DEF TypeOK

\* So are the newer ones of any row, and the row is not one of them.
LEMMA NewerFinite ==
    ASSUME TypeOK, NEW v \in DOMAIN rows
    PROVE  /\ IsFiniteSet(Newer(v))
           /\ Cardinality(Newer(v)) \in Nat
           /\ Cardinality(Newer(v)) < Cardinality(DOMAIN rows)
  <1>1. rows[v] \in Nat
    BY PagingAssumption DEF TypeOK
  <1>2. Newer(v) \subseteq DOMAIN rows /\ v \notin Newer(v)
    BY <1>1 DEF Newer
  <1>3. Newer(v) \subseteq DOMAIN rows \ {v}
    BY <1>2
  <1>4. /\ IsFiniteSet(DOMAIN rows \ {v})
        /\ Cardinality(DOMAIN rows \ {v}) = Cardinality(DOMAIN rows) - 1
    BY RowsFinite, FS_RemoveElement
  <1>5. /\ IsFiniteSet(Newer(v))
        /\ Cardinality(Newer(v)) <= Cardinality(DOMAIN rows \ {v})
    BY <1>3, <1>4, FS_Subset
  <1> QED
    BY <1>4, <1>5, RowsFinite, FS_CardinalityType

\* The lesser of two numbers.
LEMMA MinOfTwo ==
    ASSUME NEW a \in Nat, NEW b \in Nat
    PROVE  /\ a <= b => Min({a, b}) = a
           /\ b <= a => Min({a, b}) = b
  BY DEF Min

\* A page that is full, or the last, shows every row of its place: what is
\* neither before the page nor on it comes after a full page.
LEMMA SliceCovers ==
    ASSUME TypeOK, NEW some \in Slices, NEW v \in DOMAIN rows, Unshared(v),
           v \notin some, Offset \in Nat, Cardinality(Newer(v)) >= Offset
    PROVE  Cardinality(Newer(v)) >= Offset + size
  <1> DEFINE n == Cardinality(DOMAIN rows)
             newer == Cardinality(Newer(v))
             o == Min({Offset, n})
  <1>1. PICK skipped \in SUBSET (DOMAIN rows \ some) :
          /\ Cardinality(skipped) = o
          /\ Cardinality(some) = Min({size, n - o})
          /\ Before(skipped, DOMAIN rows \ skipped)
          /\ Before(some, DOMAIN rows \ (skipped \cup some))
    BY DEF Slices
  <1>2. some \subseteq DOMAIN rows
    BY DEF Slices
  <1>3. n \in Nat /\ newer \in Nat /\ newer < n /\ IsFiniteSet(Newer(v))
    BY RowsFinite, NewerFinite
  <1>4. o = Offset
    BY <1>3, MinOfTwo
  <1>5. \A w \in DOMAIN rows : rows[w] \in Nat
    BY PagingAssumption DEF TypeOK
  <1>6. v \notin skipped
    <2>1. SUFFICES ASSUME v \in skipped PROVE FALSE
      OBVIOUS
    <2>2. Newer(v) \subseteq skipped \ {v}
      BY <1>1, <1>5, <2>1 DEF Newer, Before
    <2>3. IsFiniteSet(skipped)
      BY RowsFinite, FS_Subset, <1>1
    <2>4. /\ IsFiniteSet(skipped \ {v})
          /\ Cardinality(skipped \ {v}) = Offset - 1
      BY <1>1, <1>4, <2>1, <2>3, FS_RemoveElement
    <2>5. newer <= Offset - 1
      BY <2>2, <2>4, FS_Subset
    <2> QED
      BY <1>3, <2>5
  <1>7. skipped \cup some \subseteq Newer(v)
    <2>1. ASSUME NEW w \in skipped \cup some PROVE rows[w] > rows[v]
      <3>1. w \in DOMAIN rows /\ w # v
        BY <1>1, <1>2, <1>6
      <3>2. rows[w] >= rows[v]
        BY <1>1, <1>6, <2>1 DEF Before
      <3> QED
        BY <1>5, <3>1, <3>2 DEF Unshared
    <2> QED
      BY <1>1, <1>2, <2>1 DEF Newer
  <1>8. IsFiniteSet(skipped) /\ IsFiniteSet(some) /\ skipped \cap some = {}
    BY RowsFinite, FS_Subset, <1>1, <1>2
  <1>9. Cardinality(skipped \cup some) = Cardinality(skipped) + Cardinality(some)
    <2>1. Cardinality(skipped \cap some) = 0
      BY <1>8, FS_EmptySet
    <2>2. Cardinality(skipped) \in Nat /\ Cardinality(some) \in Nat
      BY <1>8, FS_CardinalityType
    <2>3. Cardinality(skipped \cup some) =
            Cardinality(skipped) + Cardinality(some)
              - Cardinality(skipped \cap some)
      BY <1>8, FS_Union, Zenon
    <2> QED
      BY <2>1, <2>2, <2>3
  <1>10. Cardinality(skipped \cup some) <= newer
    BY <1>3, <1>7, FS_Subset
  <1>11. size \in Nat
    BY PagingAssumption DEF TypeOK
  <1>12. Cardinality(some) = size
    <2>1. CASE size <= n - Offset
      BY <1>1, <1>3, <1>4, <1>11, <2>1, MinOfTwo
    <2>2. CASE n - Offset <= size
      <3>1. Cardinality(some) = n - Offset
        BY <1>1, <1>3, <1>4, <1>11, <2>2, MinOfTwo
      <3> QED
        BY <1>1, <1>3, <1>4, <1>9, <1>10, <3>1
    <2> QED
      BY <1>3, <1>11, <2>1, <2>2
  <1> QED
    BY <1>1, <1>3, <1>4, <1>9, <1>10, <1>12

-----------------------------------------------------------------------------

\* The rows that are not owed any more do not matter, and those that are
\* keep their place or move back.
LEMMA AddKeepsPlaces ==
    ASSUME TypeOK, NEW v \in Ids, NEW stamp \in Stamps, AddRow(v, stamp),
           NEW w \in due'
    PROVE  /\ w \in due
           /\ Unshared(w) => Unshared(w)'
           /\ Cardinality(Newer(w))' >= Cardinality(Newer(w))
           /\ Cardinality(Newer(w)) \in Nat
           /\ Cardinality(Newer(w))' \in Nat
  <1>1. w \in due /\ w \in DOMAIN rows /\ rows[w] # stamp
    BY DEF AddRow, TypeOK
  <1>2. DOMAIN rows' = DOMAIN rows \cup {v}
    BY DEF AddRow, Insert
  <1>3. \A u \in DOMAIN rows : rows'[u] = rows[u]
    BY DEF AddRow, Insert
  <1>4. rows'[v] = stamp /\ v \notin DOMAIN rows
    BY DEF AddRow, Insert
  <1>5. Newer(w) \subseteq Newer(w)'
    BY <1>1, <1>2, <1>3 DEF Newer
  <1>6. IsFiniteSet(Newer(w)')
    <2>1. IsFiniteSet(DOMAIN rows')
      BY <1>2, RowsFinite, FS_AddElement
    <2>2. Newer(w)' \subseteq DOMAIN rows'
      BY DEF Newer
    <2> QED
      BY <2>1, <2>2, FS_Subset
  <1>7. Cardinality(Newer(w)) <= Cardinality(Newer(w)')
    BY <1>5, <1>6, FS_Subset
  <1>8. Cardinality(Newer(w)) \in Nat /\ Cardinality(Newer(w)') \in Nat
    BY <1>1, <1>6, NewerFinite, FS_CardinalityType
  <1>9. Unshared(w) => Unshared(w)'
    BY <1>1, <1>2, <1>3, <1>4 DEF Unshared
  <1> QED
    BY <1>1, <1>7, <1>8, <1>9

\* A removal moves up only rows older than the one removed.
LEMMA RemoveKeepsPlaces ==
    ASSUME TypeOK, NEW v \in Ids, RemoveRow(v), NEW w \in due'
    PROVE  /\ w \in due
           /\ w \in DOMAIN rows'
           /\ Unshared(w) => Unshared(w)'
           /\ Newer(w)' = Newer(w)
  <1>1. w \in due /\ w \in DOMAIN rows /\ rows[w] > rows[v]
    BY DEF RemoveRow, TypeOK
  <1>2. v \in DOMAIN rows /\ DOMAIN rows' = DOMAIN rows \ {v}
    BY DEF RemoveRow, Delete
  <1>3. \A u \in DOMAIN rows' : rows'[u] = rows[u]
    BY DEF RemoveRow, Delete
  <1>4. rows[v] \in Nat /\ rows[w] \in Nat
    BY <1>1, <1>2, PagingAssumption DEF TypeOK
  <1>5. w # v /\ v \notin Newer(w)
    BY <1>1, <1>4 DEF Newer
  <1>6. Newer(w)' = Newer(w)
    BY <1>1, <1>2, <1>3, <1>5 DEF Newer
  <1>7. Unshared(w) => Unshared(w)'
    BY <1>1, <1>2, <1>3, <1>5 DEF Unshared
  <1> QED
    BY <1>1, <1>2, <1>5, <1>6, <1>7

\* The product of page and size grows by size with each page.
LEMMA NextPage ==
    ASSUME NEW p \in Nat, NEW k \in Nat
    PROVE  /\ p * k \in Nat
           /\ p # 0 => (p - 1) * k \in Nat
           /\ (p - 1) * k + k = p * k
  BY SMT

\* As long as there is a row the walk still owes, the offset is exact.
LEMMA OwedOffset ==
    ASSUME TypeOK, NEW v \in due, (page - 1) * size <= Cardinality(Newer(v))
    PROVE  Offset = (page - 1) * size /\ Offset \in Nat
  <1>1. page \in Nat /\ page # 0 /\ size \in Nat
    BY PagingAssumption DEF TypeOK
  <1>2. (page - 1) * size \in Nat
    BY <1>1, NextPage
  <1>3. Cardinality(Newer(v)) < Half
    BY NewerFinite, RowsFinite, PagingAssumption, WidthAssumption DEF TypeOK
  <1>4. Cardinality(Newer(v)) \in Nat /\ Half \in Nat
    BY NewerFinite, WidthAssumption DEF TypeOK
  <1>5. (page - 1) * size < Half
    BY <1>2, <1>3, <1>4
  <1> QED
    BY <1>2, <1>5, NarrowExact DEF Offset, OffsetOf

-----------------------------------------------------------------------------
(* The invariant.                                                          *)

\* It holds before the walk.
LEMMA InitInv == Init => PagingInv
  <1>1. SUFFICES ASSUME Init PROVE PagingInv
    OBVIOUS
  <1>2. PICK ids \in SUBSET Ids : rows \in [ids -> Stamps]
    BY <1>1 DEF Init
  <1>3. DOMAIN rows = ids
    BY <1>2
  <1>4. TypeOK
    BY <1>1, <1>2, <1>3, PagingAssumption DEF Init, TypeOK
  <1> QED
    BY <1>1, <1>4 DEF Init, PagingInv, WalkFindsAll

\* The first request of the walk.
LEMMA AskInv ==
    ASSUME PagingInv, NEW s \in Services, NEW p \in PageTexts,
           NEW n \in SizeTexts, Ask(s, p, n)
    PROVE  PagingInv'
  <1>1. page' \in Nat \ {0} /\ size' \in 1..MaxSize
    BY PagingAssumption DEF Ask, PageNumber, PageSize
  <1>2. TypeOK'
    BY <1>1 DEF PagingInv, TypeOK, Ask, Owed
  <1>3. \A v \in due' : Unshared(v)' /\ Beyond(v, page - 1)'
    BY DEF Ask, Owed, Unshared, Newer, Beyond
  <1>4. pc = "idle" /\ pc' = "ListPage" /\ slice' = slice /\ first' = page'
    BY DEF Ask
  <1> QED
    BY <1>1, <1>2, <1>3, <1>4 DEF PagingInv, WalkFindsAll, TypeOK

\* The page: what is owed is on it, has been seen or comes later.
LEMMA ListPageInv ==
    ASSUME PagingInv, ListPage
    PROVE  PagingInv'
  <1>1. PICK some \in Slices : slice' = some
    BY DEF ListPage
  <1>2. /\ pc = "ListPage" /\ pc' = "Count" /\ Offset >= 0
        /\ UNCHANGED <<rows, page, size, first, seen, due>>
    BY DEF ListPage
  <1>3. TypeOK'
    BY <1>1, <1>2 DEF PagingInv, TypeOK, Slices
  <1>4. ASSUME NEW v \in due \ seen, v \notin some
        PROVE  Beyond(v, page)
    <2>1. Cardinality(Newer(v)) >= (page - 1) * size
      BY <1>2 DEF PagingInv, Beyond
    <2>2. page \in Nat /\ size \in Nat /\ page # 0 /\ v \in DOMAIN rows
      BY PagingAssumption DEF PagingInv, TypeOK
    <2>3. Cardinality(Newer(v)) \in Nat /\ (page - 1) * size \in Nat
      BY <2>2, NewerFinite, NextPage DEF PagingInv
    <2>4. Offset = (page - 1) * size /\ Offset \in Nat
      BY <2>1, <2>3, OwedOffset DEF PagingInv
    <2>5. Cardinality(Newer(v)) >= Offset + size
      BY <1>4, <2>1, <2>2, <2>4, SliceCovers DEF PagingInv
    <2>6. Offset + size = page * size
      BY <2>2, <2>4, NextPage
    <2> QED
      BY <2>5, <2>6 DEF Beyond
  <1>5. ASSUME NEW v \in due' \ seen'
        PROVE  Beyond(v, page - 1)' /\ (v \in slice' \/ Beyond(v, page)')
    BY <1>1, <1>2, <1>4 DEF PagingInv, Beyond, Newer
  <1>6. \A v \in due' : Unshared(v)'
    BY <1>2 DEF PagingInv, Unshared
  <1> QED
    BY <1>2, <1>3, <1>5, <1>6 DEF PagingInv, WalkFindsAll

\* The count: it ends the walk only when nothing can come later.
LEMMA CountInv ==
    ASSUME PagingInv, Count
    PROVE  PagingInv'
  <1> DEFINE n == Cardinality(DOMAIN rows)
  <1>1. /\ pc = "Count" /\ seen' = seen \cup slice /\ slice' = {}
        /\ UNCHANGED <<rows, size, first, due>>
    BY DEF Count
  <1>2. page \in Nat /\ size \in Nat /\ page # 0 /\ first \in 1..page
    BY PagingAssumption DEF PagingInv, TypeOK
  <1>3. page * size \in Nat
    BY <1>2, NextPage
  <1>4. n \in Nat /\ n <= Cardinality(Ids) /\ Cardinality(Ids) \in Nat
    BY RowsFinite DEF PagingInv
  <1>5. TypeOK'
    BY <1>1, <1>2 DEF PagingInv, TypeOK, Count
  <1>6. \A v \in due' : Unshared(v)'
    BY <1>1 DEF PagingInv, Unshared
  <1>7. ASSUME NEW v \in due \ seen'
        PROVE  Cardinality(Newer(v)) >= page * size
    <2>1. Beyond(v, page)
      BY <1>1 DEF PagingInv
    <2> QED
      BY <2>1 DEF Beyond
  <1>8. CASE n <= page * size /\ pc' = "done" /\ page' = page
    <2>1. ASSUME NEW v \in due PROVE v \in seen'
      <3>1. Cardinality(Newer(v)) < n /\ Cardinality(Newer(v)) \in Nat
        BY NewerFinite DEF PagingInv, TypeOK
      <3> QED
        BY <1>3, <1>4, <1>7, <1>8, <3>1
    <2> QED
      BY <1>1, <1>5, <1>6, <1>8, <2>1 DEF PagingInv, WalkFindsAll
  <1>9. CASE page * size < n /\ pc' = "ListPage" /\ page' = page + 1
    <2>1. (page' - 1) * size' = page * size
      BY <1>1, <1>2, <1>9
    <2>2. \A v \in due' \ seen' : Beyond(v, page - 1)'
      BY <1>1, <1>7, <2>1 DEF Beyond, Newer
    <2>3. (page' - 1) * size' < Cardinality(Ids)
      BY <1>3, <1>4, <1>9, <2>1
    <2> QED
      BY <1>1, <1>5, <1>6, <1>9, <2>2, <2>3 DEF PagingInv, WalkFindsAll
  <1>10. \/ n <= page * size /\ pc' = "done" /\ page' = page
         \/ page * size < n /\ pc' = "ListPage" /\ page' = page + 1
    BY <1>3, <1>4 DEF Count, IsLast
  <1> QED
    BY <1>8, <1>9, <1>10

\* A failure: the page is forgotten and asked for again.
LEMMA RetryInv ==
    ASSUME PagingInv, Retry
    PROVE  PagingInv'
  <1>1. /\ pc \in {"ListPage", "Count"} /\ pc' = "ListPage" /\ slice' = {}
        /\ UNCHANGED <<rows, page, size, first, seen, due>>
    BY DEF Retry
  <1>2. TypeOK'
    BY <1>1 DEF PagingInv, TypeOK
  <1>3. \A v \in due' : Unshared(v)'
    BY <1>1 DEF PagingInv, Unshared
  <1>4. \A v \in due' \ seen' : Beyond(v, page - 1)'
    BY <1>1 DEF PagingInv, Beyond, Newer
  <1> QED
    BY <1>1, <1>2, <1>3, <1>4 DEF PagingInv, WalkFindsAll

\* A row more: what is owed still has its place, or one further back.
LEMMA AddInv ==
    ASSUME PagingInv, NEW v \in Ids, NEW stamp \in Stamps, AddRow(v, stamp)
    PROVE  PagingInv'
  <1>1. UNCHANGED walk /\ v \notin DOMAIN rows
        /\ rows' = Insert(rows, v, stamp) /\ due' \subseteq due
    BY DEF AddRow
  <1>2. TypeOK'
    BY <1>1 DEF PagingInv, TypeOK, walk, Insert
  <1>3. page \in Nat /\ page # 0 /\ size \in Nat
    BY PagingAssumption DEF PagingInv, TypeOK
  <1>4. (page - 1) * size \in Nat /\ page * size \in Nat
    BY <1>3, NextPage
  <1>5. ASSUME NEW w \in due'
        PROVE  /\ w \in due /\ Unshared(w)'
               /\ Cardinality(Newer(w)') >= Cardinality(Newer(w))
               /\ Cardinality(Newer(w)') \in Nat
               /\ Cardinality(Newer(w)) \in Nat
    BY <1>5, AddKeepsPlaces DEF PagingInv
  <1>6. ASSUME pc # "done", NEW w \in due' \ seen'
        PROVE  /\ Beyond(w, page - 1)'
               /\ pc = "Count" => w \in slice' \/ Beyond(w, page)'
    <2>1. w \in due \ seen
      BY <1>1, <1>5 DEF walk
    <2>2. Beyond(w, page - 1) /\ (pc = "Count" => w \in slice \/ Beyond(w, page))
      BY <1>6, <2>1 DEF PagingInv
    <2>3. Beyond(w, page - 1) => Beyond(w, page - 1)'
      <3>1. Cardinality(Newer(w)) >= (page - 1) * size =>
              Cardinality(Newer(w)') >= (page - 1) * size
        BY <1>4, <1>5
      <3> QED
        BY <1>1, <3>1 DEF Beyond, walk
    <2>4. Beyond(w, page) => Beyond(w, page)'
      <3>1. Cardinality(Newer(w)) >= page * size =>
              Cardinality(Newer(w)') >= page * size
        BY <1>4, <1>5
      <3> QED
        BY <1>1, <3>1 DEF Beyond, walk
    <2> QED
      BY <1>1, <2>2, <2>3, <2>4 DEF walk
  <1> QED
    BY <1>1, <1>2, <1>5, <1>6 DEF PagingInv, walk, WalkFindsAll

\* A row less: what is still owed has kept its place.
LEMMA RemoveInv ==
    ASSUME PagingInv, NEW v \in Ids, RemoveRow(v)
    PROVE  PagingInv'
  <1>1. UNCHANGED walk /\ rows' = Delete(rows, v) /\ due' \subseteq due
    BY DEF RemoveRow
  <1>2. ASSUME NEW w \in due'
        PROVE  /\ w \in due /\ w \in DOMAIN rows' /\ Unshared(w)'
               /\ Newer(w)' = Newer(w)
    BY RemoveKeepsPlaces DEF PagingInv
  <1>3. TypeOK'
    BY <1>1, <1>2 DEF PagingInv, TypeOK, walk, Delete
  <1>4. \A w \in due' \ seen' : w \in due \ seen /\ Newer(w)' = Newer(w)
    BY <1>1, <1>2 DEF walk
  <1>5. ASSUME pc # "done", NEW w \in due' \ seen'
        PROVE  /\ Beyond(w, page - 1)'
               /\ pc = "Count" => w \in slice' \/ Beyond(w, page)'
    BY <1>1, <1>4, <1>5 DEF PagingInv, Beyond, walk
  <1> QED
    BY <1>1, <1>2, <1>3, <1>5 DEF PagingInv, walk, WalkFindsAll

\* A stuttering step.
LEMMA StutterInv ==
    ASSUME PagingInv, UNCHANGED vars
    PROVE  PagingInv'
  BY DEF vars, PagingInv, TypeOK, Beyond, Newer, Unshared, WalkFindsAll

\* PagingInv is an invariant of Paging.
THEOREM InvariantHolds == Spec => []PagingInv
  <1>1. Init => PagingInv
    BY InitInv
  <1>2. PagingInv /\ [Next]_vars => PagingInv'
    <2>1. SUFFICES ASSUME PagingInv, [Next]_vars PROVE PagingInv'
      OBVIOUS
    <2> QED
      BY <2>1, AskInv, ListPageInv, CountInv, RetryInv, AddInv, RemoveInv,
         StutterInv DEF Next
  <1> QED
    BY <1>1, <1>2, PTL DEF Spec

\* Types are correct.
THEOREM TypeCorrect == Spec => []TypeOK
  <1>1. PagingInv => TypeOK
    BY DEF PagingInv
  <1> QED
    BY <1>1, InvariantHolds, PTL

\* A walk that ends has shown all it owed.
THEOREM WalksFindAll == Spec => []WalkFindsAll
  <1>1. PagingInv => WalkFindsAll
    BY DEF PagingInv
  <1> QED
    BY <1>1, InvariantHolds, PTL

\* Offsets are exact on every page a walk reaches from a page whose offset
\* fits.
THEOREM OffsetsExact == Spec => []OffsetsAreExact
  <1>1. PagingInv => OffsetsAreExact
    <2>1. SUFFICES ASSUME PagingInv, (first - 1) * size < Half
                   PROVE  Offset >= 0 /\ Offset = (page - 1) * size
      BY DEF OffsetsAreExact
    <2>2. page \in Nat /\ page # 0 /\ size \in Nat /\ first \in 1..page
      BY <2>1, PagingAssumption DEF PagingInv, TypeOK
    <2>3. (page - 1) * size \in Nat
      BY <2>2, NextPage
    <2>4. (page - 1) * size < Half
      <3>1. CASE page = first
        BY <2>1, <3>1
      <3>2. CASE page > first
        <4>1. (page - 1) * size < Cardinality(Ids)
          BY <2>1, <3>2 DEF PagingInv
        <4>2. Cardinality(Ids) \in Nat /\ Half \in Nat
          BY PagingAssumption, WidthAssumption, FS_CardinalityType
        <4> QED
          BY <2>3, <4>1, <4>2, PagingAssumption
      <3> QED
        BY <2>2, <3>1, <3>2
    <2> QED
      BY <2>3, <2>4, NarrowExact DEF Offset, OffsetOf
  <1> QED
    BY <1>1, InvariantHolds, PTL

=============================================================================
