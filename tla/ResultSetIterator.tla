--------------------------- MODULE ResultSetIterator ---------------------------
(***************************************************************************)
(* The iterators of a result set.  All of them read through the one cursor *)
(* of the set's query: an iterator that moves seeks it and keeps a copy of *)
(* the row found there.  A client walks through the set with one iterator, *)
(* as the range loops and the standard algorithms do, while it uses others *)
(* and asks for single rows in between.                                    *)
(***************************************************************************)
EXTENDS Integers, Sequences, SequencesExt

CONSTANTS Iterator,     \* the iterators of the client
          Walker,       \* the one that it walks with
          Result,       \* what the query can return
          Nothing,      \* an empty std::optional<Result>
          MaxRows,      \* bound on the rows of the set
          Reach         \* bound on how far an iterator is moved out of the set

ASSUME IteratorAssumption == /\ Walker \in Iterator
                             /\ Nothing \notin Result
                             /\ MaxRows \in Nat
                             /\ Reach \in Nat \ {0}

VARIABLES open,     \* the set has a database
          rows,     \* the rows of its query
          cursor,   \* where the query stands
          iter,     \* the iterators
          walking,  \* the client is in its loop
          visited   \* the results that the loop has used

setVars == <<open, rows>>
iteratorVars == <<open, rows, cursor, iter, walking, visited>>

BeforeFirst == -1
AfterLast == -2
RowNumber == -1 - Reach .. MaxRows + Reach
Step == {-2, -1, 1, 2}

IteratorRecord == [hasSet : BOOLEAN, row : RowNumber, value : Result \cup {Nothing}]

-------------------------------------------------------------------------------
(***************************************************************************)
(* Moving an iterator.                                                     *)
(***************************************************************************)
\* Where QSqlQuery::seek leaves the query.
Sought(row) == IF row \in 0 .. Len(rows) - 1 THEN row
               ELSE IF row < 0 THEN BeforeFirst ELSE AfterLast

ResultAt(position) == IF position >= 0 THEN rows[position + 1] ELSE Nothing

\* Mutant: the row is read wherever the query happens to stand.
UpdateValueUnsought(i, hasSet, row) ==
    /\ iter' = [iter EXCEPT ![i] = [hasSet |-> hasSet, row |-> row,
                    value |-> IF hasSet THEN ResultAt(cursor) ELSE Nothing]]
    /\ cursor' = IF hasSet THEN Sought(row) ELSE cursor

\* Mutant: an iterator without a set is not told from the others.
UpdateValueUnchecked(i, hasSet, row) ==
    /\ cursor' = Sought(row)
    /\ iter' = [iter EXCEPT ![i] = [hasSet |-> hasSet, row |-> row,
                                    value |-> ResultAt(cursor')]]

\* The iterator i is at this row now: the query is sought, and the row kept.
UpdateValue(i, hasSet, row) ==
    /\ cursor' = IF hasSet THEN Sought(row) ELSE cursor
    /\ iter' = [iter EXCEPT ![i] = [hasSet |-> hasSet, row |-> row,
                    value |-> IF hasSet THEN ResultAt(cursor') ELSE Nothing]]

BeginRow == IF open THEN 0 ELSE -1
EndRow == -1

Valid(it) == it.value # Nothing

\* Mutant: two iterators are equal when they are at the same row.
EqualByRow(left, right) == left.hasSet = right.hasSet /\ left.row = right.row

Equal(left, right) == /\ Valid(left) = Valid(right)
                      /\ Valid(left) => left.hasSet = right.hasSet /\ left.row = right.row

-------------------------------------------------------------------------------
(***************************************************************************)
(* The operations of a client on the iterators that it does not walk with. *)
(***************************************************************************)
Client(i) == i # Walker /\ UNCHANGED <<setVars, walking, visited>>

ConstructDefault(i) == Client(i) /\ UpdateValue(i, FALSE, -1)

Begin(i) == Client(i) /\ UpdateValue(i, TRUE, BeginRow)

End(i) == Client(i) /\ UpdateValue(i, TRUE, EndRow)

\* i = j, and the copies of iterators that are made in passing.
Assign(i, j) == Client(i) /\ UpdateValue(i, iter[j].hasSet, iter[j].row)

\* i = j + n, j - n, j++ and j--: a new iterator, while j stays where it is.
Offset(i, j, n) == /\ Client(i)
                   /\ iter[j].row + n \in RowNumber
                   /\ UpdateValue(i, iter[j].hasSet, iter[j].row + n)

\* Mutant: the row changes and the value is forgotten.
MoveByRowOnly(i, n) == /\ Client(i)
                       /\ iter[i].row + n \in RowNumber
                       /\ iter' = [iter EXCEPT ![i].row = @ + n]
                       /\ UNCHANGED cursor

\* i += n, i -= n, ++i and --i.
MoveBy(i, n) == /\ Client(i)
                /\ iter[i].row + n \in RowNumber
                /\ UpdateValue(i, iter[i].hasSet, iter[i].row + n)

\* ResultSet::at, which moves the query under the iterators.
At(index) == /\ open
             /\ cursor' = Sought(index)
             /\ UNCHANGED <<setVars, iter, walking, visited>>

-------------------------------------------------------------------------------
(***************************************************************************)
(* A loop from begin() to end(), which moves on with the prefix ++.        *)
(***************************************************************************)
EndIterator == [hasSet |-> TRUE, row |-> EndRow, value |-> Nothing]

StartWalk == /\ ~walking
             /\ walking' = TRUE
             /\ visited' = <<>>
             /\ UpdateValue(Walker, TRUE, BeginRow)
             /\ UNCHANGED setVars

WalkOn == /\ walking
          /\ ~Equal(iter[Walker], EndIterator)
          /\ Len(visited) <= MaxRows   \* a bound, which the walk does not reach
          /\ visited' = Append(visited, iter[Walker].value)
          /\ UpdateValue(Walker, iter[Walker].hasSet, iter[Walker].row + 1)
          /\ UNCHANGED <<setVars, walking>>

EndWalk == /\ walking
           /\ Equal(iter[Walker], EndIterator)
           /\ walking' = FALSE
           /\ UNCHANGED <<setVars, cursor, iter, visited>>

IteratorInit ==
    /\ open \in BOOLEAN
    /\ rows \in {s \in SeqOf(Result, MaxRows) : IsInjective(s) /\ (s # <<>> => open)}
    /\ cursor = BeforeFirst
    /\ iter = [i \in Iterator |-> [hasSet |-> FALSE, row |-> -1, value |-> Nothing]]
    /\ walking = FALSE
    /\ visited = <<>>

IteratorNext ==
    \/ \E i \in Iterator : ConstructDefault(i) \/ Begin(i) \/ End(i)
    \/ \E i, j \in Iterator : Assign(i, j)
    \/ \E i, j \in Iterator, n \in Step : Offset(i, j, n)
    \/ \E i \in Iterator, n \in Step : MoveBy(i, n)
    \/ \E index \in RowNumber : At(index)
    \/ StartWalk
    \/ WalkOn
    \/ EndWalk

IteratorSpec == IteratorInit /\ [][IteratorNext]_iteratorVars

\* The loop goes on: it is the client's own code, without anything to wait for.
WalkSpec == IteratorSpec /\ WF_iteratorVars(WalkOn \/ EndWalk)

-------------------------------------------------------------------------------
(***************************************************************************)
(* Properties.                                                             *)
(***************************************************************************)

\* The types; an iterator without a set has no value.
IteratorTypeOK == /\ cursor \in {BeforeFirst, AfterLast} \cup (0 .. Len(rows) - 1)
                  /\ iter \in [Iterator -> IteratorRecord]
                  /\ \A i \in Iterator : ~iter[i].hasSet => iter[i].value = Nothing
                  /\ walking \in BOOLEAN
                  /\ visited \in Seq(Result)

\* Whatever the other iterators and ResultSet::at do to the shared query, what an
\* iterator is dereferenced to is the result at its own row.
ValueFollowsRow == \A i \in Iterator : iter[i].hasSet =>
                       iter[i].value = ResultAt(Sought(iter[i].row))

\* A walk from begin() to end() uses every result once, in the order of the query.
WalkVisitsAll == /\ walking => IsPrefix(visited, rows)
                 /\ ~walking /\ iter[Walker].hasSet => visited = rows

\* The walk comes to its end, although end() is a row before the first one.
WalkEnds == walking ~> ~walking

===============================================================================
