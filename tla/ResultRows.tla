------------------------------ MODULE ResultRows ------------------------------
(***************************************************************************)
(* The pure part of the result model's cache: what its helpers do to a     *)
(* list of rows, and what a Qt view does to its own copy of the list when  *)
(* the model announces the same change.                                    *)
(*                                                                         *)
(* Rows are numbered from 0, as in the code: row r of list s is s[r + 1].  *)
(* A row is a record with at least a field "resource".                     *)
(***************************************************************************)
EXTENDS Integers, Sequences, FiniteSets

Rows(s) == 0 .. Len(s) - 1

(***************************************************************************)
(* Cache::find: the first row that shows resource r, or none.              *)
(***************************************************************************)
Find(s, r) == {row \in Rows(s) : /\ s[row + 1].resource = r
                                 /\ \A q \in 0 .. row - 1 : s[q + 1].resource # r}

Shows(s, r) == \E row \in Rows(s) : s[row + 1].resource = r

(***************************************************************************)
(* std::rotate on the half-open ranges [f, m) and [m, l), and the two      *)
(* helpers of utils/slide.h written with it.                               *)
(***************************************************************************)
Rotate(s, f, m, l) ==
    [p \in 1 .. Len(s) |-> IF p > f /\ p <= f + (l - m) THEN s[p + (m - f)]
                           ELSE IF p > f + (l - m) /\ p <= l THEN s[p - (l - m)]
                           ELSE s[p]]

Slide(s, f, l, p) == IF p < f THEN Rotate(s, p, f, l)
                     ELSE IF l < p THEN Rotate(s, f, l, p)
                     ELSE s

MoveOne(s, from, to) == IF from < to THEN Rotate(s, from, from + 1, to + 1)
                                     ELSE Rotate(s, to, from, from + 1)

(***************************************************************************)
(* Cache::trim(limit).                                                     *)
(***************************************************************************)
TrimTo(s, limit) == IF Len(s) <= limit THEN s ELSE SubSeq(s, 1, limit)

(***************************************************************************)
(* The Qt side.  QAbstractItemModel relays begin/end pairs to its views; a *)
(* view edits its own rows by these rules and by nothing else.  A move is  *)
(* announced only when its destination is outside the moved block:         *)
(* beginMoveRows refuses any other.                                        *)
(***************************************************************************)
RowsInserted(v, row, xs) == SubSeq(v, 1, row) \o xs \o SubSeq(v, row + 1, Len(v))

RowsRemoved(v, first, last) == SubSeq(v, 1, first) \o SubSeq(v, last + 2, Len(v))

MoveAllowed(first, last, dest) == dest < first \/ dest > last + 1

RowsMoved(v, first, last, dest) ==
    IF ~MoveAllowed(first, last, dest) THEN v
    ELSE RowsInserted(RowsRemoved(v, first, last),
                      IF dest < first THEN dest ELSE dest - (last - first + 1),
                      SubSeq(v, first + 1, last + 1))

RowsTrimmed(v, limit) == IF Len(v) <= limit THEN v ELSE RowsRemoved(v, limit, Len(v) - 1)

(***************************************************************************)
(* std::find_if from row "from" on: the first row that shows r, or none.   *)
(***************************************************************************)
FindFrom(s, from, r) == {row \in Rows(s) : /\ row >= from
                                          /\ s[row + 1].resource = r
                                          /\ \A q \in from .. row - 1 : s[q + 1].resource # r}

\* indexOf with -1 behind every index: an item that is not listed comes last.
IndexOf(order, r) ==
    CHOOSE k \in 1 .. Len(order) + 1 :
        /\ k = Len(order) + 1 \/ order[k] = r
        /\ \A j \in 1 .. k - 1 : order[j] # r

(***************************************************************************)
(* The user's order of the linked resources: a list of resources that has  *)
(* the lists of all of them sorted by it.                                  *)
(***************************************************************************)
Listed(list) == {list[p] : p \in DOMAIN list}

PlacedBefore(order, r, s) == IndexOf(order, r) < IndexOf(order, s)

IsArranged(list, order) == \A p, q \in DOMAIN list : p < q => ~PlacedBefore(order, list[q], list[p])

\* destinationFor: behind the rows that the order puts before r, and behind those
\* of the rows as good as r that the query puts before it.
Destinations(list, r, order) ==
    LET before == Cardinality({p \in DOMAIN list : PlacedBefore(order, list[p], r)})
        tied == Cardinality({p \in DOMAIN list : /\ list[p] # r
                                                 /\ ~PlacedBefore(order, list[p], r)
                                                 /\ ~PlacedBefore(order, r, list[p])})
    IN before .. before + tied

(***************************************************************************)
(* What Cache::replace(b, from) achieves: the first "from" rows stay, the  *)
(* rows after them show the batch in the batch's order, and a resource     *)
(* that was already listed after them keeps an old row.  Should it have    *)
(* been listed twice, the blocks that get moved decide which one.          *)
(***************************************************************************)
Carried(s, from, x) == LET old == {s[p] : p \in {q \in from + 1 .. Len(s) :
                                                     s[q].resource = x.resource}}
                       IN IF old = {} THEN {x} ELSE old

IsInstalled(s, b, from, t) ==
    /\ DOMAIN t = 1 .. from + Len(b)
    /\ \A p \in 1 .. from : t[p] = s[p]
    /\ \A k \in 1 .. Len(b) : t[from + k] \in Carried(s, from, b[k])

Replacements(s, b, from) ==
    LET rows == UNION {Carried(s, from, b[k]) : k \in 1 .. Len(b)}
    IN {SubSeq(s, 1, from) \o t :
            t \in {c \in [1 .. Len(b) -> rows] :
                      \A k \in 1 .. Len(b) : c[k] \in Carried(s, from, b[k])}}

===============================================================================
