--------------------------- MODULE ResultCacheProofs ---------------------------
(***************************************************************************)
(* The invariants of the row cache, and that it implements ResultList, for *)
(* every set of resources and data and every limit.                        *)
(***************************************************************************)
EXTENDS ResultCache, ResultRowsProofs

(***************************************************************************)
(* What LoopPrefix and BoundedWhenIdle need to be inductive.  A running    *)
(* replace() has a batch without duplicates that fits under the limit, and *)
(* runs either over the whole list or past its end: then it only appends.  *)
(***************************************************************************)
LoopShape ==
    replacing => /\ from + Len(batch) <= Limit
                 /\ from = 0 \/ Len(items) = from + next
                 /\ \A j, k \in 1 .. Len(batch) : batch[j].resource = batch[k].resource => j = k

IInv == CacheTypeOK /\ ViewMirrors /\ LoopPrefix /\ BoundedWhenIdle /\ LoopShape

\* A batch of at most n results is a list of that length, no resource twice.
LEMMA BatchRows ==
    ASSUME NEW n \in Nat, NEW b \in List!Batches(n)
    PROVE  /\ b \in Seq(Item)
           /\ Len(b) <= n
           /\ \A j, k \in 1 .. Len(b) : b[j].resource = b[k].resource => j = k
<1>1. PICK k \in 0 .. n : b \in [1 .. k -> Item]
  BY DEF List!Batches, List!Item, Item
<1>2. b \in Seq(Item) /\ Len(b) = k /\ DOMAIN b = 1 .. k
  BY <1>1
<1>3. \A i, j \in DOMAIN b : b[i].resource = b[j].resource => i = j
  BY DEF List!Batches
<1>. QED  BY <1>1, <1>2, <1>3

\* When IInv holds in replace(), its loop ends at the end of the batch.
LEMMA LoopEnd == ASSUME IInv, replacing PROVE NewEnd = Len(batch)
<1>1. from \in Nat /\ Len(batch) \in Nat /\ Limit \in Nat /\ from + Len(batch) <= Limit
  BY CacheAssumption DEF IInv, CacheTypeOK, LoopShape
<1>. QED  BY <1>1 DEF NewEnd

\* A row that std::find_if finds is not one of the rows already in place.
LEMMA FoundBehind ==
    ASSUME IInv, replacing, next < NewEnd, NEW start \in OldBlockStarts
    PROVE  /\ start \in Nat /\ start < Len(items) /\ from + next <= start
           /\ from = 0
<1>1. /\ items \in Seq(Item) /\ from \in Nat /\ next \in Nat
      /\ Len(items) \in Nat /\ Len(batch) \in Nat /\ next < Len(batch)
  BY LoopEnd DEF IInv, CacheTypeOK
<1>2. /\ start \in Nat /\ from <= start /\ start < Len(items)
      /\ items[start + 1].resource = batch[next + 1].resource
  BY <1>1 DEF OldBlockStarts, FindFrom, Rows
<1>3. ASSUME start < from + next
      PROVE  FALSE
  <2>. DEFINE k == start - from + 1
  <2>1. k \in 1 .. next /\ from + k = start + 1 /\ k \in 1 .. Len(batch)
        /\ next + 1 \in 1 .. Len(batch) /\ k # next + 1
    BY <1>1, <1>2, <1>3
  <2>2. items[from + k].resource = batch[k].resource
    BY <2>1 DEF IInv, LoopPrefix
  <2>. QED  BY <1>2, <2>1, <2>2 DEF IInv, LoopShape
<1>4. from = 0
  BY <1>1, <1>2, <1>3 DEF IInv, LoopShape
<1>. QED  BY <1>1, <1>2, <1>3, <1>4

\* The cache starts empty, outside replace().
LEMMA InitIInv == CacheInit => IInv
<1>. SUFFICES ASSUME CacheInit PROVE IInv
  OBVIOUS
<1>1. CacheTypeOK
  <2>1. <<>> \in Seq(Item) /\ 0 \in 0 .. Len(<<>>) /\ 0 \in Nat
    OBVIOUS
  <2>. QED  BY <2>1 DEF CacheInit, CacheTypeOK
<1>2. Len(items) <= Limit
  BY CacheAssumption DEF CacheInit
<1>. QED  BY <1>1, <1>2 DEF CacheInit, IInv, ViewMirrors, LoopPrefix, BoundedWhenIdle, LoopShape

\* The cheap half of the invariant: what holds after a step that is idle on
\* both sides and leaves rows of the right kind.
LEMMA IdleStep ==
    ASSUME IInv, ~replacing, UNCHANGED loopVars,
           items' \in Seq(Item), view' = items', Len(items') <= Limit
    PROVE  IInv'
BY DEF IInv, CacheTypeOK, ViewMirrors, LoopPrefix, BoundedWhenIdle, LoopShape, loopVars

\* An announced row and the trim after it.
LEMMA InsertKeepsIInv ==
    ASSUME IInv, NEW x \in Item, NEW row \in 0 .. Len(items), InsertResult(row, x)
    PROVE  IInv'
<1>. DEFINE xs == <<x>>
            grown == RowsInserted(items, row, xs)
<1>1. ~replacing /\ items \in Seq(Item) /\ view = items /\ UNCHANGED loopVars /\ Limit \in Nat
  BY CacheAssumption DEF IInv, CacheTypeOK, ViewMirrors, InsertResult
<1>2. xs \in Seq(Item)
  OBVIOUS
<1>3. items' = TrimTo(grown, Limit) /\ view' = RowsTrimmed(grown, Limit)
  BY <1>1 DEF InsertResult
<1>. HIDE DEF xs
<1>4. grown \in Seq(Item)
  BY <1>1, <1>2, InsertedRows
<1>. HIDE DEF grown
<1>5. view' = items' /\ items' \in Seq(Item) /\ Len(items') <= Limit
  BY <1>1, <1>3, <1>4, TrimmedRows
<1>. QED  BY <1>1, <1>5, IdleStep

\* removeResult.
LEMMA RemoveKeepsIInv ==
    ASSUME IInv, NEW row \in Rows(items), RemoveResult(row)
    PROVE  IInv'
<1>1. ~replacing /\ items \in Seq(Item) /\ view = items /\ UNCHANGED loopVars /\ Len(items) <= Limit
  BY DEF IInv, CacheTypeOK, ViewMirrors, BoundedWhenIdle, RemoveResult
<1>2. items' = RowsRemoved(items, row, row) /\ view' = RowsRemoved(items, row, row)
  BY <1>1 DEF RemoveResult, RowsRemoved
<1>3. /\ row \in 0 .. Len(items) /\ row \in Int /\ row - 1 <= row /\ row < Len(items)
      /\ Len(items) - (row - row + 1) <= Len(items)
  BY <1>1 DEF Rows
<1>4. items' \in Seq(Item)
  BY <1>1, <1>2, <1>3, RemovedRows
<1>5. Len(items') = Len(items) - (row - row + 1)
  BY <1>1, <1>2, <1>3, RemovedRows
<1>6. Len(items') <= Limit
  BY <1>1, <1>3, <1>5, CacheAssumption
<1>. QED  BY <1>1, <1>2, <1>4, <1>6, IdleStep

\* A row gets new data and moves: the announced place and move_one agree.
LEMMA UpdateKeepsIInv ==
    ASSUME IInv, NEW x \in Item, NEW row \in Rows(items), NEW dest \in Rows(items),
           UpdateResult(row, x, dest)
    PROVE  IInv'
<1>. DEFINE read == [items EXCEPT ![row + 1] = x]
<1>1. ~replacing /\ items \in Seq(Item) /\ view = items /\ UNCHANGED loopVars /\ Len(items) <= Limit
  BY DEF IInv, CacheTypeOK, ViewMirrors, BoundedWhenIdle, UpdateResult
<1>2. row + 1 \in 1 .. Len(items)
  BY <1>1 DEF Rows
<1>3. read \in Seq(Item) /\ Len(read) = Len(items)
  BY <1>1, <1>2
<1>4. row \in Rows(read) /\ dest \in Rows(read)
  BY <1>3 DEF Rows
<1>5. /\ items' = MoveOne(read, row, dest)
      /\ view' = IF dest = row THEN read
                 ELSE RowsMoved(read, row, row, IF dest > row THEN dest + 1 ELSE dest)
  BY <1>1 DEF UpdateResult
<1>. HIDE DEF read
<1>6. CASE dest = row
  <2>1. items' = read
    BY <1>3, <1>4, <1>5, <1>6, MovedNowhere
  <2>2. view' = items' /\ items' \in Seq(Item) /\ Len(items') <= Limit
    BY <1>1, <1>3, <1>5, <1>6, <2>1
  <2>. QED  BY <1>1, <2>2, IdleStep
<1>7. CASE dest # row
  <2>1. view' = items'
    BY <1>3, <1>4, <1>5, <1>7, MovedOne
  <2>2. items' \in Seq(Item) /\ Len(items') = Len(read)
    BY <1>3, <1>4, <1>5, <1>7, MovedOne
  <2>3. Len(items') <= Limit
    BY <1>1, <1>3, <2>2
  <2>. QED  BY <1>1, <2>1, <2>2, <2>3, IdleStep
<1>. QED  BY <1>6, <1>7

\* Cache::clear.
LEMMA ClearKeepsIInv == ASSUME IInv, ClearRows PROVE IInv'
<1>. DEFINE last == Len(items) - 1
<1>1. ~replacing /\ items \in Seq(Item) /\ view = items /\ UNCHANGED loopVars /\ items' = <<>>
  BY DEF IInv, CacheTypeOK, ViewMirrors, ClearRows
<1>2. /\ 0 \in 0 .. Len(items) /\ last \in Int /\ 0 - 1 <= last /\ last < Len(items)
      /\ Len(items) - (last - 0 + 1) = 0
  BY <1>1
<1>3. view' = RowsRemoved(items, 0, last)
  BY <1>1 DEF ClearRows
<1>. HIDE DEF last
<1>4. view' \in Seq(Item)
  BY <1>1, <1>2, <1>3, RemovedRows
<1>5. Len(view') = Len(items) - (last - 0 + 1)
  BY <1>1, <1>2, <1>3, RemovedRows
<1>6. view' = <<>>
  BY <1>2, <1>4, <1>5
<1>7. <<>> \in Seq(Item) /\ Len(<<>>) <= Limit
  BY CacheAssumption
<1>. QED  BY <1>1, <1>6, <1>7, IdleStep

\* replace() is entered with a batch that fits under the limit.
LEMMA BeginKeepsIInv ==
    ASSUME IInv, NEW f \in {0, Len(items)}, NEW b \in List!Batches(Limit - f), BeginReplace(b, f)
    PROVE  IInv'
<1>1. /\ items \in Seq(Item) /\ view = items /\ f \in Nat /\ Limit - f \in Nat /\ Limit \in Nat
      /\ items' = items /\ view' = view
      /\ replacing' = TRUE /\ batch' = b /\ from' = f /\ next' = 0 /\ before' = items
  BY CacheAssumption DEF IInv, CacheTypeOK, ViewMirrors, BeginReplace
<1>2. /\ b \in Seq(Item)
      /\ Len(b) <= Limit - f
      /\ \A j, k \in 1 .. Len(b) : b[j].resource = b[k].resource => j = k
  BY <1>1, BatchRows
<1>3. Len(b) \in Nat /\ Len(items) \in Nat /\ f <= Len(items)
  BY <1>1, <1>2
<1>4. CacheTypeOK'
  BY <1>1, <1>2, <1>3 DEF CacheTypeOK
<1>5. LoopPrefix'
  BY <1>1, <1>3 DEF LoopPrefix
<1>6. LoopShape'
  BY <1>1, <1>2, <1>3 DEF LoopShape
<1>. QED  BY <1>1, <1>4, <1>5, <1>6 DEF IInv, ViewMirrors, BoundedWhenIdle

\* A round of replace() that inserts a row.
LEMMA InsertNewKeepsIInv == ASSUME IInv, InsertNew PROVE IInv'
<1>. DEFINE xs == <<batch[next + 1]>>
            at == from + next
<1>1. /\ items \in Seq(Item) /\ batch \in Seq(Item) /\ before \in Seq(Item) /\ view = items
      /\ from \in Nat /\ next \in Nat /\ Len(batch) \in Nat /\ Len(items) \in Nat
      /\ next + 1 \in 1 .. Len(batch)
      /\ replacing = TRUE
  BY LoopEnd DEF IInv, CacheTypeOK, ViewMirrors, InsertNew
<1>2. xs \in Seq(Item) /\ Len(xs) = 1 /\ xs[1] = batch[next + 1]
  BY <1>1
<1>3. /\ items' = RowsInserted(items, at, xs) /\ view' = items'
      /\ next' = next + 1 /\ replacing' = TRUE
      /\ batch' = batch /\ from' = from /\ before' = before
  BY <1>1 DEF InsertNew, NewBlockStart
<1>4. at \in 0 .. Len(items) /\ at \in Nat /\ at = from + next
  BY <1>1 DEF IInv, LoopPrefix
<1>. HIDE DEF xs, at
<1>5. items' \in Seq(Item)
  BY <1>1, <1>2, <1>3, <1>4, InsertedRows
<1>6. Len(items') = Len(items) + 1
  <2>1. Len(items') = Len(items) + Len(xs)
    BY <1>1, <1>2, <1>3, <1>4, InsertedRows
  <2>. QED  BY <1>2, <2>1
<1>7. \A p \in 1 .. Len(items) + Len(xs) :
         items'[p] = IF p <= at THEN items[p]
                     ELSE IF p <= at + Len(xs) THEN xs[p - at]
                     ELSE items[p - Len(xs)]
  <2>1. items \in Seq(Item) /\ xs \in Seq(Item) /\ at \in 0 .. Len(items)
    BY <1>1, <1>2, <1>4
  <2>2. \A p \in 1 .. Len(items) + Len(xs) :
           RowsInserted(items, at, xs)[p] = IF p <= at THEN items[p]
                                            ELSE IF p <= at + Len(xs) THEN xs[p - at]
                                            ELSE items[p - Len(xs)]
    BY ONLY <2>1, InsertedRows, Zenon
  <2>. QED  BY <1>3, <2>2, Zenon
<1>8. /\ \A p \in 1 .. at : items'[p] = items[p]
      /\ items'[at + 1] = batch[next + 1]
  <2>1. ASSUME NEW p \in 1 .. at
        PROVE  items'[p] = items[p]
    BY <1>1, <1>2, <1>4, <1>7
  <2>2. /\ at + 1 \in 1 .. Len(items) + Len(xs)
        /\ ~(at + 1 <= at) /\ at + 1 <= at + Len(xs) /\ (at + 1) - at = 1
    BY <1>1, <1>2, <1>4
  <2>. QED  BY <1>2, <1>7, <2>1, <2>2
<1>9. CacheTypeOK'
  BY <1>1, <1>3, <1>5 DEF CacheTypeOK
<1>10. LoopPrefix'
  <2>1. \A p \in 1 .. from : items[p] = before[p]
    BY <1>1 DEF IInv, LoopPrefix
  <2>2. \A k \in 1 .. next : items[from + k].resource = batch[k].resource
    BY <1>1 DEF IInv, LoopPrefix
  <2>3. ASSUME NEW p \in 1 .. from
        PROVE  items'[p] = before[p]
    BY <1>1, <1>4, <1>8, <2>1
  <2>4. ASSUME NEW k \in 1 .. next + 1
        PROVE  items'[from + k].resource = batch[k].resource
    <3>1. CASE k \in 1 .. next
      <4>1. from + k \in 1 .. at
        BY <1>1, <1>4, <3>1
      <4>. QED  BY <1>8, <2>2, <3>1, <4>1
    <3>2. CASE k = next + 1
      BY <1>1, <1>4, <1>8, <3>2
    <3>. QED  BY <1>1, <3>1, <3>2
  <2>5. from + (next + 1) <= Len(items')
    BY <1>1, <1>4, <1>6
  <2>. QED  BY <1>3, <2>3, <2>4, <2>5 DEF LoopPrefix
<1>11. LoopShape'
  <2>1. from = 0 \/ Len(items) = from + next
    BY <1>1 DEF IInv, LoopShape
  <2>2. from = 0 \/ Len(items') = from + (next + 1)
    BY <1>1, <1>6, <2>1
  <2>. QED  BY <1>1, <1>3, <2>2 DEF IInv, LoopShape
<1>. QED  BY <1>3, <1>9, <1>10, <1>11 DEF IInv, ViewMirrors, BoundedWhenIdle

\* A round of replace() that slides a block, or finds it in place.
LEMMA MoveBlockKeepsIInv == ASSUME IInv, MoveBlock PROVE IInv'
<1>1. /\ items \in Seq(Item) /\ batch \in Seq(Item) /\ before \in Seq(Item) /\ view = items
      /\ from \in Nat /\ next \in Nat /\ Len(batch) \in Nat /\ Len(items) \in Nat
      /\ next < NewEnd /\ NewEnd = Len(batch)
      /\ replacing = TRUE /\ replacing' = TRUE
      /\ batch' = batch /\ from' = from /\ before' = before
  BY LoopEnd DEF IInv, CacheTypeOK, ViewMirrors, MoveBlock
<1>2. PICK start \in OldBlockStarts, n \in 1 .. Len(batch) :
         /\ IsBlock(start, n)
         /\ IF start - from = NewBlockStart
            THEN UNCHANGED <<items, view>>
            ELSE /\ items' = Slide(items, start, start + n, NewBlockStart)
                 /\ view' = RowsMoved(view, start - from, start - from + n - 1, NewBlockStart)
         /\ next' = next + n
  BY DEF MoveBlock
<1>3. start \in Nat /\ start < Len(items) /\ next <= start /\ from = 0
  BY <1>1, <1>2, FoundBehind
<1>4. /\ n \in Nat /\ n >= 1 /\ start + n <= Len(items) /\ next + n <= Len(batch)
      /\ \A k \in 1 .. n : items[start + k].resource = batch[next + k].resource
      /\ NewBlockStart = next /\ start - from = start
  BY <1>1, <1>2, <1>3 DEF IsBlock, NewBlockStart
<1>5. \A k \in 1 .. next : items[k].resource = batch[k].resource
  BY <1>1, <1>3 DEF IInv, LoopPrefix
<1>6. /\ items' \in Seq(Item) /\ view' = items' /\ Len(items') = Len(items)
      /\ \A k \in 1 .. next : items'[k] = items[k]
      /\ \A k \in 1 .. n : items'[next + k] = items[start + k]
  <2>1. CASE start = next
    BY <1>1, <1>2, <1>4, <2>1
  <2>2. CASE next < start
    <3>. DEFINE last == start + n - 1
                end == start + n
    <3>1. /\ last \in Nat /\ start <= last /\ last < Len(items) /\ last + 1 = end
          /\ end \in Nat /\ next <= start /\ start <= end /\ end <= Len(items)
          /\ end - start = n
      BY <1>1, <1>3, <1>4, <2>2
    <3>2. view' = RowsMoved(items, start, last, next) /\ items' = Slide(items, start, end, next)
      BY <1>1, <1>2, <1>4, <2>2
    <3>. HIDE DEF last, end
    <3>3. items' = Rotate(items, next, start, end)
      BY <2>2, <3>2 DEF Slide
    <3>4. view' = items'
      <4>1. RowsMoved(items, start, last, next) = Rotate(items, next, start, last + 1)
        BY <1>1, <1>3, <2>2, <3>1, MovedUp
      <4>. QED  BY <3>1, <3>2, <3>3, <4>1
    <3>5. items' \in Seq(Item)
      BY <1>1, <1>3, <3>1, <3>3, RotatedRows
    <3>6. Len(items') = Len(items)
      BY <1>1, <1>3, <3>1, <3>3, RotatedRows
    <3>7. ASSUME NEW p \in 1 .. Len(items)
          PROVE  items'[p] = IF p > next /\ p <= next + (end - start) THEN items[p + (start - next)]
                             ELSE IF p > next + (end - start) /\ p <= end THEN items[p - (end - start)]
                             ELSE items[p]
      BY <1>1, <1>3, <3>1, <3>3, RotatedRows
    <3>8. ASSUME NEW k \in 1 .. next
          PROVE  items'[k] = items[k]
      <4>1. k \in 1 .. Len(items) /\ ~(k > next) /\ ~(k > next + (end - start))
        BY <1>1, <1>3, <1>4, <3>1
      <4>. QED  BY <3>7, <4>1
    <3>9. ASSUME NEW k \in 1 .. n
          PROVE  items'[next + k] = items[start + k]
      <4>1. /\ next + k \in 1 .. Len(items) /\ next + k > next /\ next + k <= next + (end - start)
            /\ (next + k) + (start - next) = start + k
        BY <1>1, <1>3, <1>4, <3>1
      <4>. QED  BY <3>7, <4>1
    <3>. QED  BY <3>4, <3>5, <3>6, <3>8, <3>9
  <2>. QED  BY <1>1, <1>3, <2>1, <2>2
<1>7. next' = next + n
  BY <1>2
<1>8. CacheTypeOK'
  BY <1>1, <1>4, <1>6, <1>7 DEF CacheTypeOK
<1>9. LoopPrefix'
  <2>1. ASSUME NEW k \in 1 .. next + n
        PROVE  items'[k].resource = batch[k].resource
    <3>1. CASE k \in 1 .. next
      BY <1>5, <1>6, <3>1
    <3>2. CASE k > next
      <4>1. k - next \in 1 .. n /\ next + (k - next) = k
        BY <1>1, <1>4, <3>2
      <4>. QED  BY <1>4, <1>6, <4>1
    <3>. QED  BY <1>1, <1>4, <3>1, <3>2
  <2>2. 0 + (next + n) <= Len(items')
    BY <1>1, <1>3, <1>4, <1>6
  <2>3. \A k \in 1 .. next + n : 0 + k = k
    BY <1>1, <1>4
  <2>. QED  BY <1>1, <1>3, <1>7, <2>1, <2>2, <2>3 DEF LoopPrefix
<1>10. LoopShape'
  BY <1>1, <1>3 DEF IInv, LoopShape
<1>. QED  BY <1>1, <1>6, <1>8, <1>9, <1>10 DEF IInv, ViewMirrors, BoundedWhenIdle

\* The trim that ends replace().
LEMMA EndKeepsIInv == ASSUME IInv, EndReplace PROVE IInv'
<1>. DEFINE n == from + Len(batch)
<1>1. /\ items \in Seq(Item) /\ view = items /\ n \in Nat /\ n <= Limit /\ Limit \in Nat
      /\ items' = TrimTo(items, n) /\ view' = RowsTrimmed(items, n)
      /\ replacing' = FALSE /\ batch' = <<>> /\ from' = 0 /\ next' = 0 /\ before' = <<>>
  BY CacheAssumption DEF IInv, CacheTypeOK, ViewMirrors, LoopShape, EndReplace
<1>. HIDE DEF n
<1>2. view' = items' /\ items' \in Seq(Item)
  BY <1>1, TrimmedRows
<1>3. Len(items') = IF Len(items) <= n THEN Len(items) ELSE n
  BY <1>1, TrimmedRows
<1>4. Len(items') <= Limit
  BY <1>1, <1>3
<1>5. CacheTypeOK'
  <2>1. <<>> \in Seq(Item) /\ 0 \in 0 .. Len(<<>>) /\ 0 \in Nat
    OBVIOUS
  <2>. QED  BY <1>1, <1>2, <2>1 DEF CacheTypeOK
<1>. QED  BY <1>1, <1>2, <1>4, <1>5 DEF IInv, ViewMirrors, LoopPrefix, BoundedWhenIdle, LoopShape

(***************************************************************************)
(* Every step keeps the invariant.                                         *)
(***************************************************************************)
LEMMA NextKeepsIInv == ASSUME IInv, [CacheNext]_cacheVars PROVE IInv'
<1>1. CASE \E x \in Item : \E row \in 0 .. Len(items) : InsertResult(row, x)
  BY <1>1, InsertKeepsIInv
<1>2. CASE \E r \in Resource : \E row \in Find(items, r) : RemoveResult(row)
  BY <1>2, RemoveKeepsIInv DEF Find
<1>3. CASE \E x \in Item : \E row \in Find(items, x.resource), dest \in Rows(items) :
              UpdateResult(row, x, dest)
  BY <1>3, UpdateKeepsIInv DEF Find
<1>4. CASE ClearRows
  BY <1>4, ClearKeepsIInv
<1>5. CASE \E f \in {0, Len(items)} : \E b \in List!Batches(Limit - f) : BeginReplace(b, f)
  BY <1>5, BeginKeepsIInv
<1>6. CASE InsertNew
  BY <1>6, InsertNewKeepsIInv
<1>7. CASE MoveBlock
  BY <1>7, MoveBlockKeepsIInv
<1>8. CASE EndReplace
  BY <1>8, EndKeepsIInv
<1>9. CASE UNCHANGED cacheVars
  BY <1>9 DEF cacheVars, IInv, CacheTypeOK, ViewMirrors, LoopPrefix, BoundedWhenIdle, LoopShape
<1>. QED  BY <1>1, <1>2, <1>3, <1>4, <1>5, <1>6, <1>7, <1>8, <1>9 DEF CacheNext, ReplaceStep

\* The inductive invariant of the row cache, in every reachable state.
THEOREM CacheInvariant == CacheSpec => []IInv
<1>1. CacheInit => IInv
  BY InitIInv
<1>2. IInv /\ [CacheNext]_cacheVars => IInv'
  BY NextKeepsIInv
<1>. QED  BY <1>1, <1>2, PTL DEF CacheSpec

\* The rows, the view and the loop's variables always are what the types of
\* class Cache and of replace() say.
THEOREM CacheTypes == CacheSpec => []CacheTypeOK
<1>1. IInv => CacheTypeOK
  BY DEF IInv
<1>. QED  BY <1>1, CacheInvariant, PTL

\* A view that trusts the announced rows shows the model's rows, for every
\* list, batch and limit.
THEOREM ViewNeverDiverges == CacheSpec => []ViewMirrors
<1>1. IInv => ViewMirrors
  BY DEF IInv
<1>. QED  BY <1>1, CacheInvariant, PTL

\* The loop of replace() never reorders what it already put in place.
THEOREM LoopKeepsPrefix == CacheSpec => []LoopPrefix
<1>1. IInv => LoopPrefix
  BY DEF IInv
<1>. QED  BY <1>1, CacheInvariant, PTL

\* The limit of the query holds whenever replace() is not running.
THEOREM LimitHolds == CacheSpec => []BoundedWhenIdle
<1>1. IInv => BoundedWhenIdle
  BY DEF IInv
<1>. QED  BY <1>1, CacheInvariant, PTL

-------------------------------------------------------------------------------
(***************************************************************************)
(* The row cache implements the list of module ResultList: in the end the  *)
(* loop of replace() has done what one step of that list does.             *)
(***************************************************************************)

(***************************************************************************)
(* What a running replace() has made of the old rows.  The rows in place   *)
(* are the ones that the whole replacement would put there; the rows       *)
(* behind them are old ones; and an old row that a later batch entry will  *)
(* look for still is among these.                                          *)
(***************************************************************************)
PlacedAreCarried ==
    \A k \in 1 .. next : items[from + k] \in Carried(before, from, batch[k])

RestIsOld ==
    \A p \in from + next + 1 .. Len(items) :
        \E q \in from + 1 .. Len(before) : items[p] = before[q]

WantedIsLeft ==
    \A q \in from + 1 .. Len(before) : \A k \in next + 1 .. Len(batch) :
        before[q].resource = batch[k].resource
            => \E p \in from + next + 1 .. Len(items) : items[p].resource = batch[k].resource

LoopContent ==
    replacing => /\ from = 0 \/ from = Len(before)
                 /\ PlacedAreCarried
                 /\ RestIsOld
                 /\ WantedIsLeft

RInv == IInv /\ LoopContent

\* The loop knows its variables' types and never looks past its batch.
LEMMA InLoop ==
    ASSUME IInv, replacing
    PROVE  /\ items \in Seq(Item) /\ batch \in Seq(Item) /\ before \in Seq(Item)
           /\ from \in Nat /\ next \in 0 .. Len(batch) /\ NewEnd = Len(batch)
           /\ from + next <= Len(items)
BY LoopEnd DEF IInv, CacheTypeOK, LoopPrefix

\* A resource that is not found from row "from" on was not listed there before.
LEMMA NotFoundIsNew ==
    ASSUME RInv, replacing, next < NewEnd, OldBlockStarts = {}
    PROVE  Carried(before, from, batch[next + 1]) = {batch[next + 1]}
<1>. DEFINE r == batch[next + 1].resource
<1>1. /\ items \in Seq(Item) /\ from \in Nat /\ next \in Nat /\ Len(batch) \in Nat
      /\ Len(items) \in Nat /\ Len(before) \in Nat /\ next + 1 \in next + 1 .. Len(batch)
  BY InLoop DEF RInv
<1>2. FindFrom(items, from, r) = {}
  BY DEF OldBlockStarts
<1>3. ASSUME NEW p \in from + next + 1 .. Len(items), items[p].resource = r
      PROVE  FALSE
  <2>1. p \in from + 1 .. Len(items)
    BY <1>1
  <2>. HIDE DEF r
  <2>. QED  BY <1>1, <1>2, <1>3, <2>1, FoundFrom
<1>4. \A q \in from + 1 .. Len(before) : before[q].resource # r
  BY <1>1, <1>3 DEF RInv, LoopContent, WantedIsLeft
<1>. QED  BY <1>4 DEF Carried

\* An old row for the entry x is one of the rows that x may be shown by.
LEMMA OldRowCarried ==
    ASSUME NEW s, NEW f, NEW x, NEW q \in f + 1 .. Len(s), s[q].resource = x.resource
    PROVE  s[q] \in Carried(s, f, x)
BY DEF Carried

\* replace() starts with all rows old.
LEMMA BeginHasContent ==
    ASSUME IInv, NEW f \in {0, Len(items)}, NEW b \in List!Batches(Limit - f), BeginReplace(b, f)
    PROVE  LoopContent'
<1>1. /\ items \in Seq(Item) /\ Len(items) \in Nat /\ f \in Nat
      /\ items' = items /\ batch' = b /\ from' = f /\ next' = 0 /\ before' = items
  BY DEF IInv, CacheTypeOK, BeginReplace
<1>2. PlacedAreCarried'
  BY <1>1 DEF PlacedAreCarried
<1>3. RestIsOld'
  BY <1>1 DEF RestIsOld
<1>4. WantedIsLeft'
  BY <1>1 DEF WantedIsLeft
<1>. QED  BY <1>1, <1>2, <1>3, <1>4 DEF LoopContent

\* A new row is put between the rows in place and the old ones.
LEMMA InsertNewKeepsContent == ASSUME RInv, InsertNew PROVE LoopContent'
<1>. DEFINE at == from + next
            x == batch[next + 1]
<1>1. /\ items \in Seq(Item) /\ from \in Nat /\ next \in Nat /\ Len(batch) \in Nat
      /\ Len(items) \in Nat /\ Len(before) \in Nat /\ replacing
      /\ next + 1 \in 1 .. Len(batch) /\ x \in Item
      /\ at \in 0 .. Len(items) /\ at \in Nat
  BY InLoop DEF RInv, InsertNew
<1>2. /\ items' = RowsInserted(items, at, <<x>>) /\ next' = next + 1
      /\ batch' = batch /\ from' = from /\ before' = before
  BY DEF InsertNew, NewBlockStart
<1>3. Carried(before, from, x) = {x}
  BY NotFoundIsNew DEF InsertNew
<1>4. at = from + next
  OBVIOUS
<1>5. x = batch[next + 1]
  OBVIOUS
<1>. HIDE DEF at, x
<1>6. /\ Len(items') = Len(items) + 1
      /\ \A p \in 1 .. at : items'[p] = items[p]
      /\ items'[at + 1] = x
      /\ \A p \in at + 1 .. Len(items) : items'[p + 1] = items[p]
  <2>. DEFINE t == RowsInserted(items, at, <<x>>)
  <2>1. items \in Seq(Item) /\ at \in 0 .. Len(items) /\ x \in Item
    BY <1>1
  <2>2. /\ Len(t) = Len(items) + 1
        /\ \A p \in 1 .. at : t[p] = items[p]
        /\ t[at + 1] = x
        /\ \A p \in at + 1 .. Len(items) : t[p + 1] = items[p]
    <3>1. Len(t) = Len(items) + 1
      BY <2>1, InsertedRow
    <3>2. \A p \in 1 .. at : t[p] = items[p]
      BY <2>1, InsertedRow
    <3>3. t[at + 1] = x
      BY <2>1, InsertedRow
    <3>4. \A p \in at + 1 .. Len(items) : t[p + 1] = items[p]
      BY <2>1, InsertedRow
    <3>. QED  BY <3>1, <3>2, <3>3, <3>4
  <2>. HIDE DEF t
  <2>3. items' = t
    BY <1>2 DEF t
  <2>. QED  BY <2>2, <2>3
<1>7. PlacedAreCarried'
  <2>1. ASSUME NEW k \in 1 .. next + 1
        PROVE  items'[from + k] \in Carried(before, from, batch[k])
    <3>1. CASE k = next + 1
      BY <1>1, <1>3, <1>4, <1>5, <1>6, <3>1
    <3>2. CASE k \in 1 .. next
      <4>1. from + k \in 1 .. at
        BY <1>1, <1>4, <3>2
      <4>2. items[from + k] \in Carried(before, from, batch[k])
        BY <1>1, <3>2 DEF RInv, LoopContent, PlacedAreCarried
      <4>. QED  BY <1>6, <4>1, <4>2
    <3>. QED  BY <1>1, <3>1, <3>2
  <2>. QED  BY <1>2, <2>1 DEF PlacedAreCarried
<1>8. RestIsOld'
  <2>1. ASSUME NEW p \in from + (next + 1) + 1 .. Len(items')
        PROVE  \E q \in from + 1 .. Len(before) : items'[p] = before[q]
    <3>1. p - 1 \in at + 1 .. Len(items) /\ (p - 1) + 1 = p
      BY <1>1, <1>4, <1>6
    <3>2. items'[p] = items[p - 1]
      BY <1>6, <3>1
    <3>3. \E q \in from + 1 .. Len(before) : items[p - 1] = before[q]
      BY <1>1, <1>4, <3>1 DEF RInv, LoopContent, RestIsOld
    <3>. QED  BY <3>2, <3>3
  <2>. QED  BY <1>2, <2>1 DEF RestIsOld
<1>9. WantedIsLeft'
  <2>1. ASSUME NEW q \in from + 1 .. Len(before), NEW k \in (next + 1) + 1 .. Len(batch),
               before[q].resource = batch[k].resource
        PROVE  \E p \in from + (next + 1) + 1 .. Len(items') : items'[p].resource = batch[k].resource
    <3>1. k \in next + 1 .. Len(batch)
      BY <1>1
    <3>2. PICK p \in at + 1 .. Len(items) : items[p].resource = batch[k].resource
      BY <1>1, <1>4, <2>1, <3>1 DEF RInv, LoopContent, WantedIsLeft
    <3>3. p + 1 \in from + (next + 1) + 1 .. Len(items') /\ items'[p + 1] = items[p]
      BY <1>1, <1>4, <1>6
    <3>. QED  BY <3>2, <3>3
  <2>. QED  BY <1>2, <2>1 DEF WantedIsLeft
<1>10. from = 0 \/ from = Len(before)
  BY <1>1 DEF RInv, LoopContent
<1>. QED  BY <1>2, <1>7, <1>8, <1>9, <1>10 DEF LoopContent

\* A slid block consists of old rows for the next entries of the batch; the old
\* rows it passes are left.
LEMMA MoveBlockKeepsContent == ASSUME RInv, MoveBlock PROVE LoopContent'
<1>1. /\ items \in Seq(Item) /\ from \in Nat /\ next \in Nat /\ Len(batch) \in Nat
      /\ Len(items) \in Nat /\ Len(before) \in Nat /\ replacing
      /\ next < NewEnd /\ NewEnd = Len(batch)
      /\ batch' = batch /\ from' = from /\ before' = before
  BY InLoop DEF RInv, MoveBlock
<1>2. PICK start \in OldBlockStarts, n \in 1 .. Len(batch) :
         /\ IsBlock(start, n)
         /\ IF start - from = NewBlockStart
            THEN UNCHANGED <<items, view>>
            ELSE /\ items' = Slide(items, start, start + n, NewBlockStart)
                 /\ view' = RowsMoved(view, start - from, start - from + n - 1, NewBlockStart)
         /\ next' = next + n
  BY DEF MoveBlock
<1>3. start \in Nat /\ start < Len(items) /\ next <= start /\ from = 0
  BY <1>1, <1>2, FoundBehind DEF RInv
<1>4. /\ n \in Nat /\ n >= 1 /\ start + n <= Len(items) /\ next + n <= Len(batch)
      /\ \A k \in 1 .. n : items[start + k].resource = batch[next + k].resource
      /\ NewBlockStart = next /\ start - from = start /\ next' = next + n
  BY <1>1, <1>2, <1>3 DEF IsBlock, NewBlockStart
<1>. DEFINE end == start + n
<1>5. end \in Nat /\ end - start = n /\ start <= end /\ end <= Len(items) /\ end = start + n
  BY <1>1, <1>3, <1>4
<1>. HIDE DEF end
\* Both cases of the slide, seen from the rows of the old list.
<1>6. /\ Len(items') = Len(items)
      /\ \A p \in 1 .. next : items'[p] = items[p]
      /\ \A k \in 1 .. n : items'[next + k] = items[start + k]
      /\ \A p \in next + 1 .. start : items'[p + n] = items[p]
      /\ \A p \in end + 1 .. Len(items) : items'[p] = items[p]
  <2>1. CASE start = next
    BY <1>1, <1>2, <1>4, <1>5, <2>1
  <2>2. CASE next < start
    <3>1. items' = Rotate(items, next, start, end)
      <4>1. start # next /\ next < start
        BY <1>1, <1>3, <2>2
      <4>2. items' = Slide(items, start, end, next)
        BY <1>2, <1>4, <1>5, <4>1
      <4>. QED  BY <4>1, <4>2 DEF Slide
    <3>. DEFINE t == Rotate(items, next, start, end)
    <3>2. Len(t) = Len(items)
      BY <1>1, <1>3, <1>5, SlidUp
    <3>3. \A p \in 1 .. next : t[p] = items[p]
      BY <1>1, <1>3, <1>5, SlidUp
    <3>4. \A k \in 1 .. end - start : t[next + k] = items[start + k]
      BY <1>1, <1>3, <1>5, SlidUp
    <3>5. \A p \in next + 1 .. start : t[p + (end - start)] = items[p]
      BY <1>1, <1>3, <1>5, SlidUp
    <3>6. \A p \in end + 1 .. Len(items) : t[p] = items[p]
      BY <1>1, <1>3, <1>5, SlidUp
    <3>. HIDE DEF t
    <3>7. items' = t
      BY <3>1 DEF t
    <3>. QED  BY <1>5, <3>2, <3>3, <3>4, <3>5, <3>6, <3>7
  <2>. QED  BY <1>1, <1>3, <2>1, <2>2
\* The rows behind those in place are rows that were behind them.
<1>7. ASSUME NEW p \in next + n + 1 .. Len(items')
      PROVE  \E o \in next + 1 .. Len(items) : items'[p] = items[o]
  <2>1. CASE p <= end
    <3>1. p - n \in next + 1 .. start /\ (p - n) + n = p
      BY <1>1, <1>3, <1>4, <1>5, <1>6, <2>1
    <3>2. items'[p] = items[p - n] /\ p - n \in next + 1 .. Len(items)
      BY <1>1, <1>3, <1>6, <3>1
    <3>. QED  BY <3>2
  <2>2. CASE end < p
    <3>1. p \in end + 1 .. Len(items) /\ p \in next + 1 .. Len(items)
      BY <1>1, <1>3, <1>4, <1>5, <1>6, <2>2
    <3>. QED  BY <1>6, <3>1
  <2>. QED  BY <1>1, <1>4, <1>5, <2>1, <2>2
<1>8. \A o \in next + 1 .. Len(items) : \E q \in 1 .. Len(before) : items[o] = before[q]
  BY <1>1, <1>3 DEF RInv, LoopContent, RestIsOld
<1>9. PlacedAreCarried'
  <2>1. ASSUME NEW k \in 1 .. next + n
        PROVE  items'[0 + k] \in Carried(before, 0, batch[k])
    <3>1. CASE k \in 1 .. next
      <4>1. items[0 + k] \in Carried(before, 0, batch[k])
        BY <1>1, <1>3, <3>1 DEF RInv, LoopContent, PlacedAreCarried
      <4>. QED  BY <1>6, <3>1, <4>1
    <3>2. CASE k > next
      <4>. DEFINE j == k - next
      <4>1. /\ j \in 1 .. n /\ next + j = k /\ 0 + k = k
            /\ start + j \in next + 1 .. Len(items)
        BY <1>1, <1>3, <1>4, <3>2
      <4>. HIDE DEF j
      <4>2. items'[k] = items[start + j] /\ items[start + j].resource = batch[k].resource
        BY <1>4, <1>6, <4>1
      <4>3. PICK q \in 1 .. Len(before) : items[start + j] = before[q]
        BY <1>8, <4>1
      <4>4. q \in 0 + 1 .. Len(before)
        OBVIOUS
      <4>. QED  BY <4>1, <4>2, <4>3, <4>4, OldRowCarried
    <3>. QED  BY <1>1, <1>4, <3>1, <3>2
  <2>. QED  BY <1>1, <1>3, <1>4, <2>1 DEF PlacedAreCarried
<1>10. RestIsOld'
  <2>1. ASSUME NEW p \in 0 + (next + n) + 1 .. Len(items')
        PROVE  \E q \in 0 + 1 .. Len(before) : items'[p] = before[q]
    <3>1. p \in next + n + 1 .. Len(items')
      BY <1>1, <1>4
    <3>. QED  BY <1>7, <1>8, <3>1
  <2>. QED  BY <1>1, <1>3, <1>4, <2>1 DEF RestIsOld
<1>11. WantedIsLeft'
  <2>1. ASSUME NEW q \in 0 + 1 .. Len(before), NEW k \in (next + n) + 1 .. Len(batch),
               before[q].resource = batch[k].resource
        PROVE  \E p \in 0 + (next + n) + 1 .. Len(items') : items'[p].resource = batch[k].resource
    <3>1. k \in next + 1 .. Len(batch) /\ k \in 1 .. Len(batch)
      BY <1>1, <1>4
    <3>2. PICK p \in next + 1 .. Len(items) : items[p].resource = batch[k].resource
      BY <1>1, <1>3, <2>1, <3>1 DEF RInv, LoopContent, WantedIsLeft
    <3>3. CASE p <= start
      <4>1. p \in next + 1 .. start /\ p + n \in 0 + (next + n) + 1 .. Len(items')
        BY <1>1, <1>3, <1>4, <1>6, <3>3
      <4>. QED  BY <1>6, <3>2, <4>1
    <3>4. CASE start < p /\ p <= end
      <4>. DEFINE j == p - start
      <4>1. /\ j \in 1 .. n /\ start + j = p
            /\ next + j \in 1 .. Len(batch) /\ next + j # k
        BY <1>1, <1>3, <1>4, <1>5, <3>4
      <4>. HIDE DEF j
      <4>2. batch[next + j].resource = batch[k].resource
        BY <1>4, <3>2, <4>1
      <4>. QED  BY <1>1, <3>1, <4>1, <4>2 DEF RInv, IInv, LoopShape
    <3>5. CASE end < p
      <4>1. p \in end + 1 .. Len(items) /\ p \in 0 + (next + n) + 1 .. Len(items')
        BY <1>1, <1>3, <1>4, <1>5, <1>6, <3>5
      <4>. QED  BY <1>6, <3>2, <4>1
    <3>. QED  BY <1>1, <1>3, <1>5, <3>3, <3>4, <3>5
  <2>. QED  BY <1>1, <1>3, <1>4, <2>1 DEF WantedIsLeft
<1>. QED  BY <1>1, <1>3, <1>9, <1>10, <1>11 DEF LoopContent

(***************************************************************************)
(* The strengthened invariant.                                             *)
(***************************************************************************)
THEOREM LoopInvariant == CacheSpec => []RInv
<1>1. CacheInit => LoopContent
  BY DEF CacheInit, LoopContent
<1>2. ASSUME IInv, LoopContent, [CacheNext]_cacheVars
      PROVE  LoopContent'
  <2>1. CASE replacing' = FALSE
    BY <2>1 DEF LoopContent
  <2>2. CASE UNCHANGED cacheVars
    BY <1>2, <2>2 DEF cacheVars, LoopContent, PlacedAreCarried, RestIsOld, WantedIsLeft
  <2>3. CASE \E f \in {0, Len(items)} : \E b \in List!Batches(Limit - f) : BeginReplace(b, f)
    BY <1>2, <2>3, BeginHasContent
  <2>4. CASE InsertNew
    BY <1>2, <2>4, InsertNewKeepsContent DEF RInv
  <2>5. CASE MoveBlock
    BY <1>2, <2>5, MoveBlockKeepsContent DEF RInv
  <2>6. CASE \/ \E x \in Item : \E row \in 0 .. Len(items) : InsertResult(row, x)
             \/ \E r \in Resource : \E row \in Find(items, r) : RemoveResult(row)
             \/ \E x \in Item : \E row \in Find(items, x.resource), dest \in Rows(items) :
                   UpdateResult(row, x, dest)
             \/ ClearRows
    <3>1. replacing' = FALSE
      BY <1>2, <2>6 DEF InsertResult, RemoveResult, UpdateResult, ClearRows, loopVars,
                        IInv, CacheTypeOK
    <3>. QED  BY <2>1, <3>1
  <2>7. CASE EndReplace
    BY <2>7 DEF EndReplace, LoopContent
  <2>. QED  BY <1>2, <2>2, <2>3, <2>4, <2>5, <2>6, <2>7 DEF CacheNext, ReplaceStep
<1>3. IInv /\ LoopContent => RInv
  BY DEF RInv
<1>. QED  BY <1>1, <1>2, <1>3, CacheInvariant, PTL DEF CacheSpec

-------------------------------------------------------------------------------
(***************************************************************************)
(* The list's operators, taken through the instance, are the cache's own.  *)
(***************************************************************************)
LEMMA SameOperators ==
    /\ List!Item = Item
    /\ \A s : List!Rows(s) = Rows(s)
    /\ \A s, r : List!Shows(s, r) = Shows(s, r)
    /\ \A s, n : List!TrimTo(s, n) = TrimTo(s, n)
    /\ \A s, row, xs : List!RowsInserted(s, row, xs) = RowsInserted(s, row, xs)
    /\ \A s, j, k : List!RowsRemoved(s, j, k) = RowsRemoved(s, j, k)
    /\ \A s, b, f, t : List!IsInstalled(s, b, f, t) = IsInstalled(s, b, f, t)
<1>1. List!Item = Item
  BY DEF List!Item, Item
<1>2. \A s : List!Rows(s) = Rows(s)
  BY DEF List!Rows, Rows
<1>3. \A s, r : List!Shows(s, r) = Shows(s, r)
  BY DEF List!Shows, Shows, List!Rows, Rows
<1>4. \A s, n : List!TrimTo(s, n) = TrimTo(s, n)
  BY DEF List!TrimTo, TrimTo
<1>5. \A s, row, xs : List!RowsInserted(s, row, xs) = RowsInserted(s, row, xs)
  BY DEF List!RowsInserted, RowsInserted
<1>6. \A s, j, k : List!RowsRemoved(s, j, k) = RowsRemoved(s, j, k)
  BY DEF List!RowsRemoved, RowsRemoved
<1>7. \A s, b, f, t : List!IsInstalled(s, b, f, t) = IsInstalled(s, b, f, t)
  BY DEF List!IsInstalled, IsInstalled, List!Carried, Carried
<1>. QED  BY <1>1, <1>2, <1>3, <1>4, <1>5, <1>6, <1>7

-------------------------------------------------------------------------------
(***************************************************************************)
(* What each action is for a caller who sees the listed rows.              *)
(***************************************************************************)
LEMMA InsertIsInsert ==
    ASSUME IInv, NEW x \in Item, NEW row \in 0 .. Len(items), InsertResult(row, x)
    PROVE  List!ListNext
<1>1. listed = items /\ listed' = items'
  BY DEF listed, InsertResult, loopVars, IInv, CacheTypeOK
<1>2. ~List!Shows(listed, x.resource)
  BY <1>1, SameOperators DEF InsertResult
<1>3. listed' = List!TrimTo(List!RowsInserted(listed, row, <<x>>), Limit)
  BY <1>1, SameOperators DEF InsertResult
<1>4. List!Insert(row, x)
  BY <1>2, <1>3 DEF List!Insert
<1>. QED  BY <1>1, <1>4, SameOperators DEF List!ListNext

\* The removal of a row is a removal in the list.
LEMMA RemoveIsRemove ==
    ASSUME IInv, NEW row \in Rows(items), RemoveResult(row)
    PROVE  List!ListNext
<1>1. listed = items /\ listed' = items'
  BY DEF listed, RemoveResult, loopVars, IInv, CacheTypeOK
<1>2. items' = RowsRemoved(items, row, row)
  BY DEF RemoveResult, RowsRemoved
<1>3. List!Remove(row)
  BY <1>1, <1>2, SameOperators DEF List!Remove
<1>4. row \in List!Rows(listed)
  BY <1>1, SameOperators
<1>. QED  BY <1>3, <1>4 DEF List!ListNext

\* A row that is changed and moved is one that is changed and moved in the list.
LEMMA UpdateIsUpdate ==
    ASSUME IInv, NEW x \in Item, NEW row \in Rows(items), NEW dest \in Rows(items),
           UpdateResult(row, x, dest)
    PROVE  List!ListNext
<1>1. listed = items /\ listed' = items'
  BY DEF listed, UpdateResult, loopVars, IInv, CacheTypeOK
<1>2. items \in Seq(Item)
  BY DEF IInv, CacheTypeOK
<1>3. items' = RowsInserted(RowsRemoved(items, row, row), dest, <<x>>)
  BY <1>2, UpdatedRowMoves DEF UpdateResult
<1>4. List!Update(row, x, dest)
  <2>1. x.resource = listed[row + 1].resource
    BY <1>1 DEF UpdateResult
  <2>2. listed' = List!RowsInserted(List!RowsRemoved(listed, row, row), dest, <<x>>)
    BY <1>1, <1>3, SameOperators
  <2>. QED  BY <2>1, <2>2 DEF List!Update
<1>5. row \in List!Rows(listed) /\ dest \in List!Rows(listed) /\ x \in List!Item
  BY <1>1, SameOperators
<1>. QED  BY <1>4, <1>5 DEF List!ListNext

\* Clearing the cache clears the list.
LEMMA ClearIsClear == ASSUME IInv, ClearRows PROVE List!ListNext
<1>1. listed' = <<>>
  BY DEF listed, ClearRows, loopVars, IInv, CacheTypeOK
<1>. QED  BY <1>1 DEF List!ListNext, List!Clear

\* Until it ends, a replacement changes no listed row.
LEMMA LoopStutters ==
    ASSUME \/ \E f \in {0, Len(items)} : \E b \in List!Batches(Limit - f) : BeginReplace(b, f)
           \/ InsertNew
           \/ MoveBlock
    PROVE  listed' = listed
BY DEF BeginReplace, InsertNew, MoveBlock, listed

\* A batch of this length without duplicates is a batch of the list, too.
LEMMA BatchIsBatch ==
    ASSUME NEW n \in Nat, NEW b \in Seq(Item), Len(b) <= n,
           \A j, k \in 1 .. Len(b) : b[j].resource = b[k].resource => j = k
    PROVE  b \in List!Batches(n)
<1>1. Len(b) \in 0 .. n /\ b \in [1 .. Len(b) -> Item] /\ DOMAIN b = 1 .. Len(b)
  OBVIOUS
<1>2. b \in UNION {[1 .. k -> Item] : k \in 0 .. n}
  BY <1>1
<1>3. b \in UNION {[1 .. k -> List!Item] : k \in 0 .. n}
  BY <1>2, SameOperators
<1>. QED  BY <1>1, <1>3 DEF List!Batches

\* The end of replace() installs the whole batch.
LEMMA EndIsInstall == ASSUME RInv, EndReplace PROVE List!ListNext
<1>. DEFINE n == from + Len(batch)
<1>1. /\ items \in Seq(Item) /\ batch \in Seq(Item) /\ before \in Seq(Item)
      /\ from \in Nat /\ next \in Nat /\ Len(batch) \in Nat /\ Len(items) \in Nat
      /\ next = Len(batch) /\ n <= Len(items) /\ n \in Nat
      /\ replacing /\ items' = TrimTo(items, n) /\ replacing' = FALSE
  BY InLoop DEF RInv, EndReplace
<1>2. listed = before /\ listed' = items'
  BY <1>1 DEF listed
<1>3. n = from + Len(batch)
  OBVIOUS
<1>. HIDE DEF n
<1>4. items' \in Seq(Item) /\ Len(items') = n /\ (\A p \in 1 .. n : items'[p] = items[p])
  <2>1. TrimTo(items, n) \in Seq(Item)
    BY <1>1, TrimmedRows
  <2>2. Len(TrimTo(items, n)) = n
    BY <1>1, TrimmedRows
  <2>3. \A p \in 1 .. Len(TrimTo(items, n)) : TrimTo(items, n)[p] = items[p]
    BY <1>1, TrimmedRows
  <2>. QED  BY <1>1, <2>1, <2>2, <2>3
<1>5. IsInstalled(before, batch, from, items')
  <2>1. DOMAIN items' = 1 .. from + Len(batch)
    BY <1>3, <1>4
  <2>2. \A p \in 1 .. from : items'[p] = before[p]
    BY <1>1, <1>3, <1>4 DEF RInv, IInv, LoopPrefix
  <2>3. ASSUME NEW k \in 1 .. Len(batch)
        PROVE  items'[from + k] \in Carried(before, from, batch[k])
    <3>1. items[from + k] \in Carried(before, from, batch[k])
      BY <1>1 DEF RInv, LoopContent, PlacedAreCarried
    <3>2. from + k \in 1 .. n
      BY <1>1, <1>3
    <3>. QED  BY <1>4, <3>1, <3>2
  <2>. QED  BY <2>1, <2>2, <2>3 DEF IsInstalled
<1>6. List!Install(batch, from)
  BY <1>2, <1>5, SameOperators DEF List!Install
<1>7. from \in {0, Len(listed)}
  BY <1>1, <1>2 DEF RInv, LoopContent
<1>8. batch \in List!Batches(Limit - from)
  <2>1. Limit - from \in Nat /\ Len(batch) <= Limit - from
    BY <1>1, CacheAssumption DEF RInv, IInv, LoopShape
  <2>2. \A j, k \in 1 .. Len(batch) : batch[j].resource = batch[k].resource => j = k
    BY <1>1 DEF RInv, IInv, LoopShape
  <2>. QED  BY <1>1, <2>1, <2>2, BatchIsBatch
<1>. QED  BY <1>6, <1>7, <1>8 DEF List!ListNext

(***************************************************************************)
(* Every step of the cache is a step of the list or changes no listed row. *)
(***************************************************************************)
LEMMA StepRefines == ASSUME RInv, [CacheNext]_cacheVars PROVE [List!ListNext]_listed
<1>1. CASE \E x \in Item : \E row \in 0 .. Len(items) : InsertResult(row, x)
  BY <1>1, InsertIsInsert DEF RInv
<1>2. CASE \E r \in Resource : \E row \in Find(items, r) : RemoveResult(row)
  BY <1>2, RemoveIsRemove DEF RInv, Find
<1>3. CASE \E x \in Item : \E row \in Find(items, x.resource), dest \in Rows(items) :
              UpdateResult(row, x, dest)
  BY <1>3, UpdateIsUpdate DEF RInv, Find
<1>4. CASE ClearRows
  BY <1>4, ClearIsClear DEF RInv
<1>5. CASE \E f \in {0, Len(items)} : \E b \in List!Batches(Limit - f) : BeginReplace(b, f)
  BY <1>5, LoopStutters
<1>6. CASE InsertNew \/ MoveBlock
  BY <1>6, LoopStutters
<1>7. CASE EndReplace
  BY <1>7, EndIsInstall
<1>8. CASE UNCHANGED cacheVars
  BY <1>8 DEF cacheVars, listed
<1>. QED  BY <1>1, <1>2, <1>3, <1>4, <1>5, <1>6, <1>7, <1>8 DEF CacheNext, ReplaceStep

\* The block moves of replace(), the insertions, removals and updates of the
\* cache implement the list of module ResultList: the loop installs its batch
\* behind the first "from" rows, keeps the rows the two lists share, loses no
\* row of the batch and leaves no other old row behind.
THEOREM CacheImplementsList == CacheSpec => ImplementsList
<1>1. CacheInit => List!ListInit
  BY DEF CacheInit, List!ListInit, listed
<1>2. RInv /\ [CacheNext]_cacheVars => [List!ListNext]_listed
  BY StepRefines
<1>. QED  BY <1>1, <1>2, LoopInvariant, PTL DEF CacheSpec, ImplementsList, List!ListSpec

===============================================================================
