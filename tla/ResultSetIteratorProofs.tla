------------------------ MODULE ResultSetIteratorProofs ------------------------
(***************************************************************************)
(* The invariants of the iterators, for every set of iterators and any     *)
(* number of rows: the values follow the rows although all iterators share *)
(* one cursor, and a walk visits every row.                                *)
(***************************************************************************)
EXTENDS ResultSetIterator, TLAPS

\* The set that the iterators read, fixed when it is made.
SetOK == /\ open \in BOOLEAN
         /\ rows \in Seq(Result)
         /\ Len(rows) <= MaxRows
         /\ rows # <<>> => open

(***************************************************************************)
(* What WalkVisitsAll needs to be inductive: the walking iterator is at    *)
(* the row after those that its loop has used.                             *)
(***************************************************************************)
WalkerAtNext ==
    walking => /\ iter[Walker].hasSet
               /\ iter[Walker].row = IF open THEN Len(visited) ELSE -1
               /\ Len(visited) <= Len(rows)
               /\ \A k \in 1 .. Len(visited) : visited[k] = rows[k]

Rested == ~walking /\ iter[Walker].hasSet => visited = rows

IInv == SetOK /\ IteratorTypeOK /\ ValueFollowsRow /\ WalkerAtNext /\ Rested

\* Where a seek leaves the query, and what can be read there.
LEMMA SoughtRow ==
    ASSUME SetOK, NEW row \in Int
    PROVE  /\ Sought(row) \in {BeforeFirst, AfterLast} \cup (0 .. Len(rows) - 1)
           /\ row \in 0 .. Len(rows) - 1 =>
                 ResultAt(Sought(row)) = rows[row + 1] /\ rows[row + 1] \in Result
           /\ row \notin 0 .. Len(rows) - 1 => ResultAt(Sought(row)) = Nothing
           /\ ResultAt(Sought(row)) \in Result \cup {Nothing}
<1>1. rows \in Seq(Result) /\ Len(rows) \in Nat
  BY DEF SetOK
<1>2. CASE row \in 0 .. Len(rows) - 1
  <2>1. Sought(row) = row /\ row >= 0 /\ row + 1 \in 1 .. Len(rows)
    BY <1>1, <1>2 DEF Sought
  <2>2. ResultAt(Sought(row)) = rows[row + 1] /\ rows[row + 1] \in Result
    BY <1>1, <2>1 DEF ResultAt
  <2>. QED  BY <1>2, <2>1, <2>2
<1>3. CASE row \notin 0 .. Len(rows) - 1
  <2>1. Sought(row) = BeforeFirst \/ Sought(row) = AfterLast
    BY <1>3 DEF Sought
  <2>2. ~(Sought(row) >= 0)
    BY <2>1 DEF BeforeFirst, AfterLast
  <2>. QED  BY <1>3, <2>1, <2>2 DEF ResultAt
<1>. QED  BY <1>2, <1>3

\* updateValue: the iterator that moves has its new row's value, the others and
\* the set keep what they have.
LEMMA Moved ==
    ASSUME SetOK, IteratorTypeOK, ValueFollowsRow,
           NEW i \in Iterator, NEW h \in BOOLEAN, NEW row \in RowNumber,
           UpdateValue(i, h, row), UNCHANGED setVars
    PROVE  /\ SetOK'
           /\ cursor' \in {BeforeFirst, AfterLast} \cup (0 .. Len(rows') - 1)
           /\ iter' \in [Iterator -> IteratorRecord]
           /\ \A j \in Iterator : ~iter'[j].hasSet => iter'[j].value = Nothing
           /\ ValueFollowsRow'
           /\ iter'[i].hasSet = h /\ iter'[i].row = row
           /\ \A j \in Iterator : j # i => iter'[j] = iter[j]
<1>. DEFINE moved == [hasSet |-> h, row |-> row,
                      value |-> IF h THEN ResultAt(Sought(row)) ELSE Nothing]
<1>1. open' = open /\ rows' = rows
  BY DEF setVars
<1>2. SetOK'
  BY <1>1 DEF SetOK
<1>3. row \in Int
  BY IteratorAssumption DEF RowNumber
<1>4. /\ cursor' = IF h THEN Sought(row) ELSE cursor
      /\ iter' = [iter EXCEPT ![i] = moved]
  BY DEF UpdateValue
<1>5. cursor' \in {BeforeFirst, AfterLast} \cup (0 .. Len(rows') - 1)
  BY <1>1, <1>3, <1>4, SoughtRow DEF IteratorTypeOK
<1>6. ResultAt(Sought(row)) \in Result \cup {Nothing}
  BY <1>3, SoughtRow
<1>7. moved \in IteratorRecord
  BY <1>6 DEF IteratorRecord
<1>8. iter \in [Iterator -> IteratorRecord]
  BY DEF IteratorTypeOK
<1>9. moved.hasSet = h /\ moved.row = row
      /\ moved.value = IF h THEN ResultAt(Sought(row)) ELSE Nothing
  OBVIOUS
<1>. HIDE DEF moved
<1>10. /\ iter' \in [Iterator -> IteratorRecord]
       /\ iter'[i] = moved
       /\ \A j \in Iterator : j # i => iter'[j] = iter[j]
  BY <1>4, <1>7, <1>8
<1>11. ASSUME NEW j \in Iterator
       PROVE  ~iter'[j].hasSet => iter'[j].value = Nothing
  BY <1>9, <1>10 DEF IteratorTypeOK
<1>12. ASSUME NEW j \in Iterator, iter'[j].hasSet
       PROVE  iter'[j].value = ResultAt(Sought(iter'[j].row))
  <2>1. CASE j = i
    BY <1>9, <1>10, <1>12, <2>1
  <2>2. CASE j # i
    BY <1>10, <1>12, <2>2 DEF ValueFollowsRow
  <2>. QED  BY <2>1, <2>2
<1>13. ValueFollowsRow'
  BY <1>1, <1>12 DEF ValueFollowsRow, Sought, ResultAt
<1>. QED  BY <1>2, <1>5, <1>9, <1>10, <1>11, <1>13

\* The rows that begin() and end() stand at, and the iterators' own rows.
LEMMA RowNumbers ==
    /\ BeginRow \in RowNumber /\ EndRow \in RowNumber /\ -1 \in RowNumber
    /\ 0 .. MaxRows + 1 \subseteq RowNumber
    /\ RowNumber \subseteq Int
BY IteratorAssumption DEF BeginRow, EndRow, RowNumber

\* The set has no rows, and no iterator has one, before anything is done.
LEMMA InitIInv == IteratorInit => IInv
<1>. SUFFICES ASSUME IteratorInit PROVE IInv
  OBVIOUS
<1>1. PICK m \in 0 .. MaxRows : rows \in [1 .. m -> Result]
  BY DEF IteratorInit, SeqOf
<1>2. SetOK
  <2>1. rows \in Seq(Result) /\ Len(rows) = m
    BY <1>1, IteratorAssumption
  <2>. QED  BY <1>1, <2>1, IteratorAssumption DEF IteratorInit, SetOK
<1>3. IteratorTypeOK
  <2>1. [hasSet |-> FALSE, row |-> -1, value |-> Nothing] \in IteratorRecord
    BY RowNumbers DEF IteratorRecord
  <2>2. <<>> \in Seq(Result)
    OBVIOUS
  <2>. QED  BY <2>1, <2>2 DEF IteratorInit, IteratorTypeOK
<1>4. \A i \in Iterator : ~iter[i].hasSet
  BY DEF IteratorInit
<1>. QED  BY <1>2, <1>3, <1>4, IteratorAssumption
          DEF IteratorInit, IInv, ValueFollowsRow, WalkerAtNext, Rested

\* Nothing a client does with its other iterators disturbs the walk.
LEMMA ClientKeeps ==
    ASSUME IInv, NEW i \in Iterator, NEW h \in BOOLEAN, NEW row \in RowNumber,
           Client(i), UpdateValue(i, h, row)
    PROVE  IInv'
<1>1. /\ i # Walker /\ UNCHANGED setVars
      /\ open' = open /\ rows' = rows /\ walking' = walking /\ visited' = visited
  BY DEF Client, setVars
<1>2. SetOK /\ IteratorTypeOK /\ ValueFollowsRow
  BY DEF IInv
<1>3. /\ SetOK' /\ ValueFollowsRow'
      /\ cursor' \in {BeforeFirst, AfterLast} \cup (0 .. Len(rows') - 1)
      /\ iter' \in [Iterator -> IteratorRecord]
      /\ \A j \in Iterator : ~iter'[j].hasSet => iter'[j].value = Nothing
      /\ \A j \in Iterator : j # i => iter'[j] = iter[j]
  BY <1>1, <1>2, Moved
<1>4. iter'[Walker] = iter[Walker]
  BY <1>1, <1>3, IteratorAssumption
<1>5. IteratorTypeOK'
  BY <1>1, <1>2, <1>3 DEF IteratorTypeOK
<1>6. WalkerAtNext' /\ Rested'
  BY <1>1, <1>4 DEF IInv, WalkerAtNext, Rested
<1>. QED  BY <1>3, <1>5, <1>6 DEF IInv

\* ResultSet::at moves the query, and no iterator.
LEMMA AtKeeps == ASSUME IInv, NEW index \in RowNumber, At(index) PROVE IInv'
<1>1. /\ open' = open /\ rows' = rows /\ iter' = iter /\ walking' = walking /\ visited' = visited
      /\ cursor' = Sought(index) /\ index \in Int
  BY RowNumbers DEF At, setVars
<1>2. IteratorTypeOK'
  <2>1. Sought(index) \in {BeforeFirst, AfterLast} \cup (0 .. Len(rows) - 1)
    BY <1>1, SoughtRow DEF IInv
  <2>. QED  BY <1>1, <2>1 DEF IInv, IteratorTypeOK
<1>3. SetOK' /\ WalkerAtNext' /\ Rested'
  BY <1>1 DEF IInv, SetOK, WalkerAtNext, Rested
<1>4. ValueFollowsRow'
  BY <1>1 DEF IInv, ValueFollowsRow, Sought, ResultAt
<1>. QED  BY <1>2, <1>3, <1>4 DEF IInv

\* The loop starts at begin() with nothing used.
LEMMA StartKeeps == ASSUME IInv, StartWalk PROVE IInv'
<1>1. /\ UNCHANGED setVars /\ open' = open /\ rows' = rows
      /\ walking' = TRUE /\ visited' = <<>>
      /\ UpdateValue(Walker, TRUE, BeginRow)
  BY DEF StartWalk, setVars
<1>2. SetOK /\ IteratorTypeOK /\ ValueFollowsRow
  BY DEF IInv
<1>3. /\ SetOK' /\ ValueFollowsRow'
      /\ cursor' \in {BeforeFirst, AfterLast} \cup (0 .. Len(rows') - 1)
      /\ iter' \in [Iterator -> IteratorRecord]
      /\ \A j \in Iterator : ~iter'[j].hasSet => iter'[j].value = Nothing
      /\ iter'[Walker].hasSet = TRUE /\ iter'[Walker].row = BeginRow
  BY <1>1, <1>2, Moved, RowNumbers, IteratorAssumption
<1>4. <<>> \in Seq(Result) /\ Len(<<>>) = 0 /\ 0 <= Len(rows)
  BY DEF IInv, SetOK
<1>5. IteratorTypeOK'
  BY <1>1, <1>3, <1>4 DEF IteratorTypeOK
<1>6. WalkerAtNext' /\ Rested'
  BY <1>1, <1>3, <1>4 DEF WalkerAtNext, Rested, BeginRow
<1>. QED  BY <1>3, <1>5, <1>6 DEF IInv

\* The walking iterator has a value exactly when there is a row left to use.
LEMMA WalkerValue ==
    ASSUME IInv, walking
    PROVE  /\ Len(visited) \in Nat /\ Len(rows) \in Nat
           /\ Equal(iter[Walker], EndIterator) => visited = rows
           /\ ~Equal(iter[Walker], EndIterator) =>
                 /\ open /\ Len(visited) < Len(rows)
                 /\ iter[Walker].value = rows[Len(visited) + 1]
<1>. DEFINE n == Len(visited)
            w == iter[Walker]
<1>1. /\ rows \in Seq(Result) /\ visited \in Seq(Result) /\ Len(rows) \in Nat /\ n \in Nat
      /\ n <= Len(rows) /\ w.hasSet /\ w.row = IF open THEN n ELSE -1
      /\ \A k \in 1 .. n : visited[k] = rows[k]
      /\ w.row \in Int
  BY IteratorAssumption, RowNumbers DEF IInv, SetOK, IteratorTypeOK, WalkerAtNext, IteratorRecord
<1>2. w.value = ResultAt(Sought(w.row))
  BY <1>1, IteratorAssumption DEF IInv, ValueFollowsRow
<1>3. Equal(w, EndIterator) <=> w.value = Nothing
  BY DEF Equal, Valid, EndIterator
<1>4. CASE open /\ n < Len(rows)
  <2>1. w.row = n /\ n \in 0 .. Len(rows) - 1
    BY <1>1, <1>4
  <2>2. w.value = rows[n + 1] /\ w.value \in Result
    BY <1>1, <1>2, <2>1, SoughtRow DEF IInv
  <2>3. w.value # Nothing
    BY <2>2, IteratorAssumption
  <2>. QED  BY <1>1, <1>3, <1>4, <2>2, <2>3
<1>5. CASE ~(open /\ n < Len(rows))
  <2>1. n = Len(rows) /\ w.row \notin 0 .. Len(rows) - 1
    <3>1. CASE open
      BY <1>1, <1>5, <3>1
    <3>2. CASE ~open
      <4>1. rows = <<>> /\ w.row = -1
        BY <1>1, <3>2 DEF IInv, SetOK
      <4>. QED  BY <1>1, <4>1
    <3>. QED  BY <3>1, <3>2
  <2>2. w.value = Nothing
    BY <1>1, <1>2, <2>1, SoughtRow DEF IInv
  <2>3. visited = rows
    BY <1>1, <2>1
  <2>. QED  BY <1>1, <1>3, <2>2, <2>3
<1>. QED  BY <1>4, <1>5

\* A round of the loop uses the next row.
LEMMA WalkOnKeeps == ASSUME IInv, WalkOn PROVE IInv'
<1>. DEFINE n == Len(visited)
<1>1. /\ UNCHANGED setVars /\ open' = open /\ rows' = rows /\ walking /\ walking' = walking
      /\ visited' = Append(visited, iter[Walker].value)
      /\ UpdateValue(Walker, iter[Walker].hasSet, iter[Walker].row + 1)
      /\ ~Equal(iter[Walker], EndIterator)
  BY DEF WalkOn, setVars
<1>2. SetOK /\ IteratorTypeOK /\ ValueFollowsRow
  BY DEF IInv
<1>3. /\ n \in Nat /\ Len(rows) \in Nat /\ open /\ n < Len(rows) /\ Len(rows) <= MaxRows
      /\ iter[Walker].value = rows[n + 1]
  BY <1>1, <1>2, WalkerValue DEF SetOK
<1>4. iter[Walker].hasSet = TRUE /\ iter[Walker].row = n
  <2>1. iter[Walker] \in IteratorRecord
    BY <1>2, IteratorAssumption DEF IteratorTypeOK
  <2>. QED  BY <1>1, <1>3, <2>1 DEF IInv, WalkerAtNext, IteratorRecord
<1>5. n + 1 \in RowNumber
  <2>1. n + 1 \in 0 .. MaxRows + 1
    BY <1>3, IteratorAssumption
  <2>. QED  BY <2>1, RowNumbers
<1>6. /\ SetOK' /\ ValueFollowsRow'
      /\ cursor' \in {BeforeFirst, AfterLast} \cup (0 .. Len(rows') - 1)
      /\ iter' \in [Iterator -> IteratorRecord]
      /\ \A j \in Iterator : ~iter'[j].hasSet => iter'[j].value = Nothing
      /\ iter'[Walker].hasSet = TRUE /\ iter'[Walker].row = n + 1
  <2>1. UpdateValue(Walker, TRUE, n + 1)
    BY <1>1, <1>4
  <2>. HIDE DEF n
  <2>. QED  BY <1>1, <1>2, <1>5, <2>1, Moved, IteratorAssumption
<1>7. /\ visited' \in Seq(Result) /\ Len(visited') = n + 1
      /\ \A k \in 1 .. n + 1 : visited'[k] = rows[k]
  <2>1. rows \in Seq(Result) /\ visited \in Seq(Result) /\ rows[n + 1] \in Result
    BY <1>2, <1>3 DEF SetOK, IteratorTypeOK
  <2>2. \A k \in 1 .. n : visited[k] = rows[k]
    BY <1>1 DEF IInv, WalkerAtNext
  <2>. QED  BY <1>1, <1>3, <2>1, <2>2
<1>8. IteratorTypeOK'
  BY <1>1, <1>2, <1>6, <1>7 DEF IteratorTypeOK
<1>9. WalkerAtNext' /\ Rested'
  BY <1>1, <1>3, <1>6, <1>7 DEF WalkerAtNext, Rested
<1>. QED  BY <1>6, <1>8, <1>9 DEF IInv

\* The loop ends behind the last row.
LEMMA EndWalkKeeps == ASSUME IInv, EndWalk PROVE IInv'
<1>1. /\ open' = open /\ rows' = rows /\ cursor' = cursor /\ iter' = iter /\ visited' = visited
      /\ walking' = FALSE /\ visited = rows
  BY WalkerValue DEF EndWalk, setVars
<1>2. IteratorTypeOK' /\ SetOK'
  BY <1>1 DEF IInv, IteratorTypeOK, SetOK
<1>3. ValueFollowsRow'
  BY <1>1 DEF IInv, ValueFollowsRow, Sought, ResultAt
<1>4. WalkerAtNext' /\ Rested'
  BY <1>1 DEF WalkerAtNext, Rested
<1>. QED  BY <1>2, <1>3, <1>4 DEF IInv

(***************************************************************************)
(* Every step keeps the invariant.                                         *)
(***************************************************************************)
LEMMA NextKeeps == ASSUME IInv, [IteratorNext]_iteratorVars PROVE IInv'
<1>1. \A j \in Iterator : iter[j].hasSet \in BOOLEAN /\ iter[j].row \in RowNumber
  BY DEF IInv, IteratorTypeOK, IteratorRecord
<1>2. ASSUME NEW i \in Iterator, ConstructDefault(i) \/ Begin(i) \/ End(i)
      PROVE  IInv'
  BY <1>2, ClientKeeps, RowNumbers DEF ConstructDefault, Begin, End
<1>3. ASSUME NEW i \in Iterator, NEW j \in Iterator, Assign(i, j)
      PROVE  IInv'
  BY <1>1, <1>3, ClientKeeps DEF Assign
<1>4. ASSUME NEW i \in Iterator, NEW j \in Iterator, NEW n \in Step, Offset(i, j, n)
      PROVE  IInv'
  BY <1>1, <1>4, ClientKeeps DEF Offset
<1>5. ASSUME NEW i \in Iterator, NEW n \in Step, MoveBy(i, n)
      PROVE  IInv'
  BY <1>1, <1>5, ClientKeeps DEF MoveBy
<1>6. ASSUME NEW index \in RowNumber, At(index)
      PROVE  IInv'
  BY <1>6, AtKeeps
<1>7. CASE StartWalk
  BY <1>7, StartKeeps
<1>8. CASE WalkOn
  BY <1>8, WalkOnKeeps
<1>9. CASE EndWalk
  BY <1>9, EndWalkKeeps
<1>10. CASE UNCHANGED iteratorVars
  BY <1>10 DEF iteratorVars, IInv, SetOK, IteratorTypeOK, ValueFollowsRow, Sought, ResultAt,
               WalkerAtNext, Rested
<1>. QED  BY <1>2, <1>3, <1>4, <1>5, <1>6, <1>7, <1>8, <1>9, <1>10 DEF IteratorNext

\* The inductive invariant of the iterators, in every reachable state.
THEOREM IteratorInvariant == IteratorSpec => []IInv
<1>1. IteratorInit => IInv
  BY InitIInv
<1>2. IInv /\ [IteratorNext]_iteratorVars => IInv'
  BY NextKeeps
<1>. QED  BY <1>1, <1>2, PTL DEF IteratorSpec

\* The cursor and the iterators always have the values their types allow, and an
\* iterator without a set has no result.
THEOREM IteratorTypes == IteratorSpec => []IteratorTypeOK
<1>1. IInv => IteratorTypeOK
  BY DEF IInv
<1>. QED  BY <1>1, IteratorInvariant, PTL

\* An iterator shows the result at its own row, whichever other iterators and
\* ResultSet::at have moved the shared query since.
THEOREM ValuesFollowRows == IteratorSpec => []ValueFollowsRow
<1>1. IInv => ValueFollowsRow
  BY DEF IInv
<1>. QED  BY <1>1, IteratorInvariant, PTL

\* A loop from begin() to end() uses the rows in their order, and when it ends
\* it has used all of them, for sets of any size and for closed ones.
THEOREM WalksVisitAll == IteratorSpec => []WalkVisitsAll
<1>1. ASSUME IInv PROVE WalkVisitsAll
  <2>1. ASSUME walking PROVE IsPrefix(visited, rows)
    <3>1. /\ rows \in Seq(Result) /\ visited \in Seq(Result) /\ Len(visited) <= Len(rows)
          /\ \A k \in 1 .. Len(visited) : visited[k] = rows[k]
      BY <1>1, <2>1 DEF IInv, SetOK, IteratorTypeOK, WalkerAtNext
    <3>2. SubSeq(visited, 1, Len(visited)) = SubSeq(rows, 1, Len(visited))
      BY <3>1
    <3>. QED  BY <3>1, <3>2 DEF IsPrefix
  <2>. QED  BY <1>1, <2>1 DEF IInv, WalkVisitsAll, Rested
<1>2. IInv => WalkVisitsAll
  BY <1>1
<1>. QED  BY <1>2, IteratorInvariant, PTL

===============================================================================
