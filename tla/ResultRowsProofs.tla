--------------------------- MODULE ResultRowsProofs ---------------------------
(***************************************************************************)
(* Facts about the row operators, for lists of any length over any set:    *)
(* what each returns, and that the edits of the cache and the edits a view *)
(* makes for the announced signals agree.                                  *)
(***************************************************************************)
EXTENDS ResultRows, FiniteSets, FiniteSetTheorems, WellFoundedInduction, TLAPS

\* A part of a list: SubSeq within the list's bounds.
LEMMA PartOfRows ==
    ASSUME NEW S, NEW s \in Seq(S), NEW m \in Nat \ {0}, NEW n \in 0 .. Len(s), m <= n + 1
    PROVE  /\ SubSeq(s, m, n) \in Seq(S)
           /\ Len(SubSeq(s, m, n)) = n - m + 1
           /\ \A p \in 1 .. n - m + 1 : SubSeq(s, m, n)[p] = s[m + p - 1]
OBVIOUS

\* Lists with the same length and the same rows are equal.
LEMMA SameRows ==
    ASSUME NEW S, NEW s \in Seq(S), NEW t \in Seq(S), Len(s) = Len(t),
           \A p \in 1 .. Len(s) : s[p] = t[p]
    PROVE  s = t
OBVIOUS

\* Rows xs put in before row "row": what a view does on rowsInserted, and
\* QList::insert in the cache.
LEMMA InsertedRows ==
    ASSUME NEW S, NEW s \in Seq(S), NEW row \in 0 .. Len(s), NEW xs \in Seq(S)
    PROVE  /\ RowsInserted(s, row, xs) \in Seq(S)
           /\ Len(RowsInserted(s, row, xs)) = Len(s) + Len(xs)
           /\ \A p \in 1 .. Len(s) + Len(xs) :
                 RowsInserted(s, row, xs)[p] = IF p <= row THEN s[p]
                                               ELSE IF p <= row + Len(xs) THEN xs[p - row]
                                               ELSE s[p - Len(xs)]
<1>. DEFINE a == SubSeq(s, 1, row)
            c == SubSeq(s, row + 1, Len(s))
<1>1. row \in Nat /\ Len(s) \in Nat /\ Len(xs) \in Nat
  OBVIOUS
<1>2. a \in Seq(S) /\ Len(a) = row /\ (\A p \in 1 .. row : a[p] = s[p])
  BY PartOfRows
<1>3. c \in Seq(S) /\ Len(c) = Len(s) - row /\ (\A p \in 1 .. Len(s) - row : c[p] = s[row + p])
  BY PartOfRows
<1>4. RowsInserted(s, row, xs) = a \o xs \o c
  BY DEF RowsInserted
<1>. HIDE DEF a, c
<1>5. a \in Seq(S) /\ c \in Seq(S)
  BY <1>2, <1>3
<1>6. /\ a \o xs \o c \in Seq(S)
      /\ Len(a \o xs \o c) = Len(a) + Len(xs) + Len(c)
      /\ \A p \in 1 .. Len(a) + Len(xs) + Len(c) :
            (a \o xs \o c)[p] = IF p <= Len(a) THEN a[p]
                                ELSE IF p <= Len(a) + Len(xs) THEN xs[p - Len(a)]
                                ELSE c[p - Len(a) - Len(xs)]
  BY <1>5
<1>7. Len(a) + Len(xs) + Len(c) = Len(s) + Len(xs)
  BY <1>2, <1>3
<1>8. ASSUME NEW p \in 1 .. Len(s) + Len(xs)
      PROVE  (a \o xs \o c)[p] = IF p <= row THEN s[p]
                                 ELSE IF p <= row + Len(xs) THEN xs[p - row]
                                 ELSE s[p - Len(xs)]
  <2>1. /\ p \in Int
        /\ p > row + Len(xs) => /\ p - row - Len(xs) \in 1 .. Len(s) - row
                                /\ row + (p - row - Len(xs)) = p - Len(xs)
    BY <1>1
  <2>2. (a \o xs \o c)[p] = IF p <= row THEN a[p]
                            ELSE IF p <= row + Len(xs) THEN xs[p - row]
                            ELSE c[p - row - Len(xs)]
    BY <1>2, <1>6, <1>7
  <2>3. p <= row => a[p] = s[p]
    BY <1>1, <1>2
  <2>4. p > row + Len(xs) => c[p - row - Len(xs)] = s[p - Len(xs)]
    BY <1>3, <2>1
  <2>. QED  BY <1>1, <2>1, <2>2, <2>3, <2>4
<1>. QED  BY <1>4, <1>6, <1>7, <1>8

\* One row put in, seen from the rows of the old list.
LEMMA InsertedRow ==
    ASSUME NEW S, NEW s \in Seq(S), NEW row \in 0 .. Len(s), NEW x \in S
    PROVE  /\ RowsInserted(s, row, <<x>>) \in Seq(S)
           /\ Len(RowsInserted(s, row, <<x>>)) = Len(s) + 1
           /\ \A p \in 1 .. row : RowsInserted(s, row, <<x>>)[p] = s[p]
           /\ RowsInserted(s, row, <<x>>)[row + 1] = x
           /\ \A p \in row + 1 .. Len(s) : RowsInserted(s, row, <<x>>)[p + 1] = s[p]
<1>. DEFINE xs == <<x>>
            t == RowsInserted(s, row, xs)
<1>1. Len(s) \in Nat /\ row \in Nat /\ row <= Len(s)
  OBVIOUS
<1>2. xs \in Seq(S) /\ Len(xs) = 1 /\ xs[1] = x
  OBVIOUS
<1>. HIDE DEF xs
<1>3. /\ t \in Seq(S)
      /\ Len(t) = Len(s) + Len(xs)
      /\ \A p \in 1 .. Len(s) + Len(xs) : t[p] = IF p <= row THEN s[p]
                                               ELSE IF p <= row + Len(xs) THEN xs[p - row]
                                               ELSE s[p - Len(xs)]
  BY ONLY <1>2, s \in Seq(S), row \in 0 .. Len(s), InsertedRows, Zenon
<1>. HIDE DEF t
<1>4. \A p \in 1 .. row : t[p] = s[p]
  BY <1>1, <1>2, <1>3
<1>5. t[row + 1] = x
  <2>1. row + 1 \in 1 .. Len(s) + 1 /\ ~(row + 1 <= row) /\ (row + 1) - row = 1
    BY <1>1
  <2>. QED  BY <1>2, <1>3, <2>1
<1>6. ASSUME NEW p \in row + 1 .. Len(s)
      PROVE  t[p + 1] = s[p]
  <2>1. p + 1 \in 1 .. Len(s) + 1 /\ ~(p + 1 <= row + 1) /\ ~(p + 1 <= row) /\ (p + 1) - 1 = p
    BY <1>1
  <2>. QED  BY <1>2, <1>3, <2>1
<1>. QED  BY <1>2, <1>3, <1>4, <1>5, <1>6 DEF t, xs

\* Rows first .. last taken out: what a view does on rowsRemoved, and
\* QList::removeAt in the cache.
LEMMA RemovedRows ==
    ASSUME NEW S, NEW s \in Seq(S), NEW first \in 0 .. Len(s),
           NEW last \in Int, first - 1 <= last, last < Len(s)
    PROVE  /\ RowsRemoved(s, first, last) \in Seq(S)
           /\ Len(RowsRemoved(s, first, last)) = Len(s) - (last - first + 1)
           /\ \A p \in 1 .. Len(s) - (last - first + 1) :
                 RowsRemoved(s, first, last)[p] = IF p <= first THEN s[p]
                                                  ELSE s[p + (last - first + 1)]
<1>. DEFINE a == SubSeq(s, 1, first)
            c == SubSeq(s, last + 2, Len(s))
<1>1. first \in Nat /\ Len(s) \in Nat
  OBVIOUS
<1>2. a \in Seq(S) /\ Len(a) = first /\ (\A p \in 1 .. first : a[p] = s[p])
  BY PartOfRows
<1>3. /\ c \in Seq(S)
      /\ Len(c) = Len(s) - (last + 1)
      /\ \A p \in 1 .. Len(s) - (last + 1) : c[p] = s[last + 1 + p]
  BY PartOfRows
<1>4. RowsRemoved(s, first, last) = a \o c
  BY DEF RowsRemoved
<1>. HIDE DEF a, c
<1>5. a \in Seq(S) /\ c \in Seq(S)
  BY <1>2, <1>3
<1>6. /\ a \o c \in Seq(S)
      /\ Len(a \o c) = Len(a) + Len(c)
      /\ \A p \in 1 .. Len(a) + Len(c) :
            (a \o c)[p] = IF p <= Len(a) THEN a[p] ELSE c[p - Len(a)]
  BY <1>5
<1>7. Len(a) + Len(c) = Len(s) - (last - first + 1)
  BY <1>2, <1>3
<1>8. ASSUME NEW p \in 1 .. Len(s) - (last - first + 1)
      PROVE  (a \o c)[p] = IF p <= first THEN s[p] ELSE s[p + (last - first + 1)]
  <2>1. /\ p \in Int
        /\ p > first => /\ p - first \in 1 .. Len(s) - (last + 1)
                        /\ last + 1 + (p - first) = p + (last - first + 1)
    BY <1>1
  <2>2. (a \o c)[p] = IF p <= first THEN a[p] ELSE c[p - first]
    BY <1>2, <1>6, <1>7
  <2>3. p <= first => a[p] = s[p]
    BY <1>1, <1>2
  <2>4. p > first => c[p - first] = s[p + (last - first + 1)]
    BY <1>3, <2>1
  <2>. QED  BY <1>1, <2>1, <2>2, <2>3, <2>4
<1>. QED  BY <1>4, <1>6, <1>7, <1>8

\* trim keeps the first rows, and a view that removes the announced rows keeps
\* the same ones.
LEMMA TrimmedRows ==
    ASSUME NEW S, NEW s \in Seq(S), NEW n \in Nat
    PROVE  /\ TrimTo(s, n) \in Seq(S)
           /\ Len(TrimTo(s, n)) = IF Len(s) <= n THEN Len(s) ELSE n
           /\ \A p \in 1 .. Len(TrimTo(s, n)) : TrimTo(s, n)[p] = s[p]
           /\ RowsTrimmed(s, n) = TrimTo(s, n)
<1>1. CASE Len(s) <= n
  BY <1>1 DEF TrimTo, RowsTrimmed
<1>2. CASE n < Len(s)
  <2>. DEFINE a == SubSeq(s, 1, n)
              last == Len(s) - 1
  <2>1. a \in Seq(S) /\ Len(a) = n /\ (\A p \in 1 .. n : a[p] = s[p])
    BY <1>2, PartOfRows
  <2>2. TrimTo(s, n) = a
    BY <1>2 DEF TrimTo
  <2>3. RowsTrimmed(s, n) = RowsRemoved(s, n, last)
    BY <1>2 DEF RowsTrimmed
  <2>4. /\ n \in 0 .. Len(s)
        /\ last \in Int /\ n - 1 <= last /\ last < Len(s)
        /\ Len(s) - (last - n + 1) = n
    BY <1>2
  <2>. HIDE DEF a, last
  <2>5. /\ RowsRemoved(s, n, last) \in Seq(S)
        /\ Len(RowsRemoved(s, n, last)) = n
        /\ \A p \in 1 .. n : RowsRemoved(s, n, last)[p] = s[p]
    <3>1. /\ RowsRemoved(s, n, last) \in Seq(S)
          /\ Len(RowsRemoved(s, n, last)) = Len(s) - (last - n + 1)
          /\ \A p \in 1 .. Len(s) - (last - n + 1) :
                RowsRemoved(s, n, last)[p] = IF p <= n THEN s[p] ELSE s[p + (last - n + 1)]
      BY <2>4, RemovedRows
    <3>. QED  BY <2>4, <3>1
  <2>6. RowsRemoved(s, n, last) = a
    BY <2>1, <2>5, SameRows
  <2>. QED  BY <1>2, <2>1, <2>2, <2>3, <2>6
<1>. QED  BY <1>1, <1>2

\* std::rotate keeps the length and exchanges the two ranges.
LEMMA RotatedRows ==
    ASSUME NEW S, NEW s \in Seq(S), NEW f \in Nat, NEW m \in Nat, NEW l \in Nat,
           f <= m, m <= l, l <= Len(s)
    PROVE  /\ Rotate(s, f, m, l) \in Seq(S)
           /\ Len(Rotate(s, f, m, l)) = Len(s)
           /\ \A p \in 1 .. Len(s) :
                 Rotate(s, f, m, l)[p] =
                    IF p > f /\ p <= f + (l - m) THEN s[p + (m - f)]
                    ELSE IF p > f + (l - m) /\ p <= l THEN s[p - (l - m)]
                    ELSE s[p]
<1>1. Len(s) \in Nat
  OBVIOUS
<1>2. ASSUME NEW p \in 1 .. Len(s)
      PROVE  /\ p > f /\ p <= f + (l - m) => s[p + (m - f)] \in S
             /\ p > f + (l - m) /\ p <= l => s[p - (l - m)] \in S
             /\ s[p] \in S
  <2>1. /\ p > f /\ p <= f + (l - m) => p + (m - f) \in 1 .. Len(s)
        /\ p > f + (l - m) /\ p <= l => p - (l - m) \in 1 .. Len(s)
    BY <1>1
  <2>. QED  BY <2>1
<1>3. Rotate(s, f, m, l) \in [1 .. Len(s) -> S]
  BY <1>2 DEF Rotate
<1>. QED  BY <1>1, <1>3 DEF Rotate

\* A block [f, l) turned to the place of row d before it, seen from the rows of
\* the old list: the block, and the rows it has passed.
LEMMA SlidUp ==
    ASSUME NEW S, NEW s \in Seq(S), NEW d \in Nat, NEW f \in Nat, NEW l \in Nat,
           d <= f, f <= l, l <= Len(s)
    PROVE  /\ Rotate(s, d, f, l) \in Seq(S)
           /\ Len(Rotate(s, d, f, l)) = Len(s)
           /\ \A p \in 1 .. d : Rotate(s, d, f, l)[p] = s[p]
           /\ \A k \in 1 .. l - f : Rotate(s, d, f, l)[d + k] = s[f + k]
           /\ \A p \in d + 1 .. f : Rotate(s, d, f, l)[p + (l - f)] = s[p]
           /\ \A p \in l + 1 .. Len(s) : Rotate(s, d, f, l)[p] = s[p]
<1>. DEFINE t == Rotate(s, d, f, l)
<1>1. Len(s) \in Nat
  OBVIOUS
<1>2. /\ t \in Seq(S)
      /\ Len(t) = Len(s)
      /\ \A p \in 1 .. Len(s) : t[p] = IF p > d /\ p <= d + (l - f) THEN s[p + (f - d)]
                                     ELSE IF p > d + (l - f) /\ p <= l THEN s[p - (l - f)]
                                     ELSE s[p]
  BY RotatedRows
<1>. HIDE DEF t
<1>3. \A p \in 1 .. d : t[p] = s[p]
  BY <1>1, <1>2
<1>4. ASSUME NEW k \in 1 .. l - f
      PROVE  t[d + k] = s[f + k]
  <2>1. /\ d + k \in 1 .. Len(s) /\ d + k > d /\ d + k <= d + (l - f)
        /\ (d + k) + (f - d) = f + k
    BY <1>1
  <2>. QED  BY <1>2, <2>1
<1>5. ASSUME NEW p \in d + 1 .. f
      PROVE  t[p + (l - f)] = s[p]
  <2>1. /\ p + (l - f) \in 1 .. Len(s) /\ p + (l - f) > d + (l - f) /\ p + (l - f) <= l
        /\ ~(p + (l - f) <= d + (l - f)) /\ (p + (l - f)) - (l - f) = p
    BY <1>1
  <2>. QED  BY <1>2, <2>1
<1>6. ASSUME NEW p \in l + 1 .. Len(s)
      PROVE  t[p] = s[p]
  <2>1. p \in 1 .. Len(s) /\ ~(p <= d + (l - f)) /\ ~(p <= l)
    BY <1>1
  <2>. QED  BY <1>2, <2>1
<1>. QED  BY <1>2, <1>3, <1>4, <1>5, <1>6 DEF t

\* A block moved up: what a view does on rowsMoved(first, last, dest), dest
\* before the block, is the rotation that std::slide makes.
LEMMA MovedUp ==
    ASSUME NEW S, NEW s \in Seq(S), NEW dest \in Nat, NEW first \in Nat, NEW last \in Nat,
           dest < first, first <= last, last < Len(s)
    PROVE  RowsMoved(s, first, last, dest) = Rotate(s, dest, first, last + 1)
<1>. DEFINE n == last - first + 1
            xs == SubSeq(s, first + 1, last + 1)
            rest == RowsRemoved(s, first, last)
            m == Len(s) - n
            moved == RowsInserted(rest, dest, xs)
            turned == Rotate(s, dest, first, last + 1)
<1>1. Len(s) \in Nat /\ n \in Nat /\ m \in Nat /\ m + n = Len(s) /\ dest \in 0 .. m
  OBVIOUS
<1>2. RowsMoved(s, first, last, dest) = moved
  BY DEF RowsMoved, MoveAllowed
<1>3. xs \in Seq(S) /\ Len(xs) = n /\ (\A p \in 1 .. n : xs[p] = s[first + p])
  BY PartOfRows
<1>4. /\ rest \in Seq(S)
      /\ Len(rest) = m
      /\ \A p \in 1 .. m : rest[p] = IF p <= first THEN s[p] ELSE s[p + n]
  <2>1. first \in 0 .. Len(s) /\ last \in Int /\ first - 1 <= last
    BY <1>1
  <2>. QED  BY <2>1, RemovedRows
<1>5. /\ turned \in Seq(S)
      /\ Len(turned) = Len(s)
      /\ \A p \in 1 .. Len(s) :
            turned[p] = IF p > dest /\ p <= dest + n THEN s[p + (first - dest)]
                        ELSE IF p > dest + n /\ p <= last + 1 THEN s[p - n]
                        ELSE s[p]
  <2>1. /\ last + 1 \in Nat /\ dest <= first /\ first <= last + 1 /\ last + 1 <= Len(s)
        /\ (last + 1) - first = n
    BY <1>1
  <2>. QED  BY <2>1, RotatedRows
<1>. HIDE DEF n, xs, rest, m, turned
<1>6. /\ moved \in Seq(S)
      /\ Len(moved) = m + n
      /\ \A p \in 1 .. m + n : moved[p] = IF p <= dest THEN rest[p]
                                          ELSE IF p <= dest + n THEN xs[p - dest]
                                          ELSE rest[p - n]
  <2>1. rest \in Seq(S) /\ xs \in Seq(S) /\ dest \in 0 .. Len(rest)
    BY <1>1, <1>3, <1>4
  <2>2. moved \in Seq(S)
    BY <2>1, InsertedRows
  <2>3. Len(moved) = Len(rest) + Len(xs)
    BY <2>1, InsertedRows
  <2>4. \A p \in 1 .. Len(rest) + Len(xs) :
           moved[p] = IF p <= dest THEN rest[p]
                      ELSE IF p <= dest + Len(xs) THEN xs[p - dest]
                      ELSE rest[p - Len(xs)]
    BY <2>1, InsertedRows
  <2>. QED  BY <1>3, <1>4, <2>2, <2>3, <2>4
<1>. HIDE DEF moved
<1>7. ASSUME NEW p \in 1 .. Len(s)
      PROVE  moved[p] = turned[p]
  <2>1. CASE p <= dest
    <3>1. moved[p] = rest[p] /\ p \in 1 .. m /\ p <= first
      BY <1>1, <1>6, <2>1
    <3>2. turned[p] = s[p]
      BY <1>1, <1>5, <2>1
    <3>. QED  BY <1>4, <3>1, <3>2
  <2>2. CASE dest < p /\ p <= dest + n
    <3>1. moved[p] = xs[p - dest] /\ p - dest \in 1 .. n /\ first + (p - dest) = p + (first - dest)
      BY <1>1, <1>6, <2>2
    <3>2. turned[p] = s[p + (first - dest)]
      BY <1>1, <1>5, <2>2
    <3>. QED  BY <1>3, <3>1, <3>2
  <2>3. CASE dest + n < p
    <3>1. moved[p] = rest[p - n] /\ p - n \in 1 .. m /\ (p - n) + n = p
      BY <1>1, <1>6, <2>3
    <3>2. p - n <= first <=> p <= last + 1
      BY <1>1 DEF n
    <3>3. turned[p] = IF p <= last + 1 THEN s[p - n] ELSE s[p]
      BY <1>1, <1>5, <2>3
    <3>. QED  BY <1>4, <3>1, <3>2, <3>3
  <2>. QED  BY <1>1, <2>1, <2>2, <2>3
<1>8. moved = turned
  BY <1>1, <1>5, <1>6, <1>7, SameRows
<1>. QED  BY <1>2, <1>8 DEF turned

\* The same for a destination after the block; dest counts the block's own rows.
LEMMA MovedDown ==
    ASSUME NEW S, NEW s \in Seq(S), NEW dest \in Nat, NEW first \in Nat, NEW last \in Nat,
           first <= last, last + 1 < dest, dest <= Len(s)
    PROVE  RowsMoved(s, first, last, dest) = Rotate(s, first, last + 1, dest)
<1>. DEFINE n == last - first + 1
            xs == SubSeq(s, first + 1, last + 1)
            rest == RowsRemoved(s, first, last)
            m == Len(s) - n
            g == dest - n
            moved == RowsInserted(rest, g, xs)
            turned == Rotate(s, first, last + 1, dest)
<1>1. /\ Len(s) \in Nat /\ n \in Nat /\ m \in Nat /\ m + n = Len(s)
      /\ g \in 0 .. m /\ first < g /\ g + n = dest
  OBVIOUS
<1>2. RowsMoved(s, first, last, dest) = moved
  BY DEF RowsMoved, MoveAllowed
<1>3. xs \in Seq(S) /\ Len(xs) = n /\ (\A p \in 1 .. n : xs[p] = s[first + p])
  BY PartOfRows
<1>4. /\ rest \in Seq(S)
      /\ Len(rest) = m
      /\ \A p \in 1 .. m : rest[p] = IF p <= first THEN s[p] ELSE s[p + n]
  <2>1. first \in 0 .. Len(s) /\ last \in Int /\ first - 1 <= last
    BY <1>1
  <2>. QED  BY <2>1, RemovedRows
<1>5. /\ turned \in Seq(S)
      /\ Len(turned) = Len(s)
      /\ \A p \in 1 .. Len(s) :
            turned[p] = IF p > first /\ p <= g THEN s[p + n]
                        ELSE IF p > g /\ p <= dest THEN s[p - (g - first)]
                        ELSE s[p]
  <2>1. /\ last + 1 \in Nat /\ first <= last + 1 /\ last + 1 <= dest /\ dest <= Len(s)
        /\ dest - (last + 1) = g - first
        /\ first + (g - first) = g
        /\ (last + 1) - first = n
    BY <1>1
  <2>. QED  BY <2>1, RotatedRows
<1>. HIDE DEF n, xs, rest, m, g, turned
<1>6. /\ moved \in Seq(S)
      /\ Len(moved) = m + n
      /\ \A p \in 1 .. m + n : moved[p] = IF p <= g THEN rest[p]
                                          ELSE IF p <= g + n THEN xs[p - g]
                                          ELSE rest[p - n]
  <2>1. rest \in Seq(S) /\ xs \in Seq(S) /\ g \in 0 .. Len(rest)
    BY <1>1, <1>3, <1>4
  <2>2. moved \in Seq(S)
    BY <2>1, InsertedRows
  <2>3. Len(moved) = Len(rest) + Len(xs)
    BY <2>1, InsertedRows
  <2>4. \A p \in 1 .. Len(rest) + Len(xs) :
           moved[p] = IF p <= g THEN rest[p]
                      ELSE IF p <= g + Len(xs) THEN xs[p - g]
                      ELSE rest[p - Len(xs)]
    BY <2>1, InsertedRows
  <2>. QED  BY <1>3, <1>4, <2>2, <2>3, <2>4
<1>. HIDE DEF moved
<1>7. ASSUME NEW p \in 1 .. Len(s)
      PROVE  moved[p] = turned[p]
  <2>1. CASE p <= g
    <3>1. moved[p] = rest[p] /\ p \in 1 .. m
      BY <1>1, <1>6, <2>1
    <3>2. turned[p] = IF p <= first THEN s[p] ELSE s[p + n]
      BY <1>1, <1>5, <2>1
    <3>. QED  BY <1>4, <3>1, <3>2
  <2>2. CASE g < p /\ p <= dest
    <3>1. moved[p] = xs[p - g] /\ p - g \in 1 .. n /\ first + (p - g) = p - (g - first)
      BY <1>1, <1>6, <2>2
    <3>2. turned[p] = s[p - (g - first)]
      BY <1>1, <1>5, <2>2
    <3>. QED  BY <1>3, <3>1, <3>2
  <2>3. CASE dest < p
    <3>1. moved[p] = rest[p - n] /\ p - n \in 1 .. m /\ (p - n) + n = p /\ ~(p - n <= first)
      BY <1>1, <1>6, <2>3
    <3>2. turned[p] = s[p]
      BY <1>1, <1>5, <2>3
    <3>. QED  BY <1>4, <3>1, <3>2
  <2>. QED  BY <1>1, <2>1, <2>2, <2>3
<1>8. moved = turned
  BY <1>1, <1>5, <1>6, <1>7, SameRows
<1>. QED  BY <1>2, <1>8 DEF turned

\* One row moved to row dest: the view's rowsMoved, with the destination one
\* further down than the swaps of move_one when the row moves down.
LEMMA MovedOne ==
    ASSUME NEW S, NEW s \in Seq(S), NEW row \in Rows(s), NEW dest \in Rows(s), dest # row
    PROVE  /\ RowsMoved(s, row, row, IF dest > row THEN dest + 1 ELSE dest) = MoveOne(s, row, dest)
           /\ MoveOne(s, row, dest) \in Seq(S)
           /\ Len(MoveOne(s, row, dest)) = Len(s)
<1>1. Len(s) \in Nat /\ row \in Nat /\ dest \in Nat /\ row < Len(s) /\ dest < Len(s)
  BY DEF Rows
<1>2. CASE row < dest
  <2>. DEFINE to == dest + 1
              below == row + 1
  <2>1. /\ to \in Nat /\ below \in Nat /\ row <= row /\ row + 1 < to /\ to <= Len(s)
        /\ row <= below /\ below <= to
    BY <1>1, <1>2
  <2>2. RowsMoved(s, row, row, to) = Rotate(s, row, below, to)
    BY <1>1, <2>1, MovedDown
  <2>3. MoveOne(s, row, dest) = Rotate(s, row, below, to)
    BY <1>1, <1>2 DEF MoveOne
  <2>. HIDE DEF to, below
  <2>4. Rotate(s, row, below, to) \in Seq(S) /\ Len(Rotate(s, row, below, to)) = Len(s)
    BY <1>1, <2>1, RotatedRows
  <2>. QED  BY <1>1, <1>2, <2>2, <2>3, <2>4 DEF to
<1>3. CASE dest < row
  <2>. DEFINE below == row + 1
  <2>1. below \in Nat /\ dest <= row /\ row <= below /\ below <= Len(s)
    BY <1>1, <1>3
  <2>2. RowsMoved(s, row, row, dest) = Rotate(s, dest, row, below)
    BY <1>1, <1>3, MovedUp
  <2>3. MoveOne(s, row, dest) = Rotate(s, dest, row, below)
    BY <1>1, <1>3 DEF MoveOne
  <2>. HIDE DEF below
  <2>4. Rotate(s, dest, row, below) \in Seq(S) /\ Len(Rotate(s, dest, row, below)) = Len(s)
    BY <1>1, <2>1, RotatedRows
  <2>. QED  BY <1>1, <1>3, <2>2, <2>3, <2>4
<1>. QED  BY <1>1, <1>2, <1>3

\* A row that is not moved: move_one of a row to its own place.
LEMMA MovedNowhere ==
    ASSUME NEW S, NEW s \in Seq(S), NEW row \in Rows(s)
    PROVE  MoveOne(s, row, row) = s
<1>. DEFINE below == row + 1
<1>1. /\ Len(s) \in Nat /\ row \in Nat /\ below \in Nat
      /\ row <= row /\ row <= below /\ below <= Len(s)
      /\ below - row = 1 /\ row - row = 0
  BY DEF Rows
<1>2. MoveOne(s, row, row) = Rotate(s, row, row, below)
  BY <1>1 DEF MoveOne
<1>. HIDE DEF below
<1>3. Rotate(s, row, row, below) \in Seq(S)
  BY <1>1, RotatedRows
<1>4. Len(Rotate(s, row, row, below)) = Len(s)
  BY <1>1, RotatedRows
<1>5. ASSUME NEW p \in 1 .. Len(s)
      PROVE  Rotate(s, row, row, below)[p] = s[p]
  <2>1. Rotate(s, row, row, below)[p] =
           IF p > row /\ p <= row + (below - row) THEN s[p + (row - row)]
           ELSE IF p > row + (below - row) /\ p <= below THEN s[p - (below - row)]
           ELSE s[p]
    BY <1>1, RotatedRows
  <2>2. p + 0 = p /\ ~(p > row + 1 /\ p <= below)
    BY <1>1
  <2>. QED  BY <1>1, <2>1, <2>2
<1>6. Rotate(s, row, row, below) = s
  BY <1>3, <1>4, <1>5, SameRows
<1>. QED  BY <1>2, <1>6

\* Which row is where when one row has moved.
LEMMA MovedRowAt ==
    ASSUME NEW S, NEW s \in Seq(S), NEW row \in Rows(s), NEW dest \in Rows(s)
    PROVE  /\ MoveOne(s, row, dest) \in Seq(S)
           /\ Len(MoveOne(s, row, dest)) = Len(s)
           /\ \A k \in 1 .. Len(s) :
                 MoveOne(s, row, dest)[k] =
                    IF k = dest + 1 THEN s[row + 1]
                    ELSE IF row < k /\ k <= dest THEN s[k + 1]
                    ELSE IF dest + 1 < k /\ k <= row + 1 THEN s[k - 1]
                    ELSE s[k]
<1>1. Len(s) \in Nat /\ row \in Nat /\ dest \in Nat /\ row < Len(s) /\ dest < Len(s)
  BY DEF Rows
<1>2. CASE row < dest
  <2>. DEFINE m == row + 1
              l == dest + 1
  <2>1. /\ m \in Nat /\ l \in Nat /\ row <= m /\ m <= l /\ l <= Len(s)
        /\ MoveOne(s, row, dest) = Rotate(s, row, m, l)
        /\ m = row + 1 /\ l = dest + 1
    BY <1>1, <1>2 DEF MoveOne
  <2>. HIDE DEF m, l
  <2>2. /\ Rotate(s, row, m, l) \in Seq(S)
        /\ Len(Rotate(s, row, m, l)) = Len(s)
        /\ \A p \in 1 .. Len(s) :
              Rotate(s, row, m, l)[p] =
                 IF p > row /\ p <= row + (l - m) THEN s[p + (m - row)]
                 ELSE IF p > row + (l - m) /\ p <= l THEN s[p - (l - m)]
                 ELSE s[p]
    BY <1>1, <2>1, RotatedRows
  <2>3. ASSUME NEW k \in 1 .. Len(s)
        PROVE  MoveOne(s, row, dest)[k] =
                    IF k = dest + 1 THEN s[row + 1]
                    ELSE IF row < k /\ k <= dest THEN s[k + 1]
                    ELSE IF dest + 1 < k /\ k <= row + 1 THEN s[k - 1]
                    ELSE s[k]
    <3>1. m - row = 1 /\ l - m = dest - row /\ row + (dest - row) = dest /\ k \in Nat
      BY <1>1, <2>1
    <3>2. MoveOne(s, row, dest)[k] = IF k > row /\ k <= dest THEN s[k + 1]
                                     ELSE IF k > dest /\ k <= l THEN s[k - (dest - row)]
                                     ELSE s[k]
      BY <2>1, <2>2, <3>1
    <3>3. k = dest + 1 => k - (dest - row) = row + 1
      BY <1>1, <3>1
    <3>4. k \in Int /\ row \in Int /\ dest \in Int
      BY <1>1, <3>1
    <3>5. CASE k = dest + 1
      BY <1>2, <2>1, <3>2, <3>3, <3>4, <3>5
    <3>6. CASE row < k /\ k <= dest
      BY <1>2, <2>1, <3>2, <3>4, <3>6
    <3>7. CASE dest + 1 < k /\ k <= row + 1
      BY <1>2, <2>1, <3>2, <3>4, <3>7
    <3>8. CASE k # dest + 1 /\ ~(row < k /\ k <= dest) /\ ~(dest + 1 < k /\ k <= row + 1)
      BY <1>2, <2>1, <3>2, <3>4, <3>8
    <3>. QED  BY <3>5, <3>6, <3>7, <3>8
  <2>. QED  BY <2>1, <2>2, <2>3
<1>3. CASE ~(row < dest)
  <2>. DEFINE l == row + 1
  <2>1. /\ l \in Nat /\ dest <= row /\ row <= l /\ l <= Len(s)
        /\ MoveOne(s, row, dest) = Rotate(s, dest, row, l)
        /\ l = row + 1
    BY <1>1, <1>3 DEF MoveOne
  <2>. HIDE DEF l
  <2>2. /\ Rotate(s, dest, row, l) \in Seq(S)
        /\ Len(Rotate(s, dest, row, l)) = Len(s)
        /\ \A p \in 1 .. Len(s) :
              Rotate(s, dest, row, l)[p] =
                 IF p > dest /\ p <= dest + (l - row) THEN s[p + (row - dest)]
                 ELSE IF p > dest + (l - row) /\ p <= l THEN s[p - (l - row)]
                 ELSE s[p]
    BY <1>1, <2>1, RotatedRows
  <2>3. ASSUME NEW k \in 1 .. Len(s)
        PROVE  MoveOne(s, row, dest)[k] =
                    IF k = dest + 1 THEN s[row + 1]
                    ELSE IF row < k /\ k <= dest THEN s[k + 1]
                    ELSE IF dest + 1 < k /\ k <= row + 1 THEN s[k - 1]
                    ELSE s[k]
    <3>1. l - row = 1 /\ dest + (l - row) = dest + 1 /\ k \in Nat
      BY <1>1, <2>1
    <3>2. MoveOne(s, row, dest)[k] = IF k > dest /\ k <= dest + 1 THEN s[k + (row - dest)]
                                     ELSE IF k > dest + 1 /\ k <= l THEN s[k - 1]
                                     ELSE s[k]
      BY <2>1, <2>2, <3>1
    <3>3. k = dest + 1 => k + (row - dest) = row + 1
      BY <1>1, <3>1
    <3>4. k \in Int /\ row \in Int /\ dest \in Int
      BY <1>1, <3>1
    <3>5. CASE k = dest + 1
      BY <1>3, <2>1, <3>2, <3>3, <3>4, <3>5
    <3>6. CASE row < k /\ k <= dest
      BY <1>3, <2>1, <3>2, <3>4, <3>6
    <3>7. CASE dest + 1 < k /\ k <= row + 1
      BY <1>3, <2>1, <3>2, <3>4, <3>7
    <3>8. CASE k # dest + 1 /\ ~(row < k /\ k <= dest) /\ ~(dest + 1 < k /\ k <= row + 1)
      BY <1>3, <2>1, <3>2, <3>4, <3>8
    <3>. QED  BY <3>5, <3>6, <3>7, <3>8
  <2>. QED  BY <2>1, <2>2, <2>3
<1>. QED  BY <1>2, <1>3

\* A nonempty set of natural numbers has a least one.
LEMMA LeastOf ==
    ASSUME NEW T \in SUBSET Nat, T # {}
    PROVE  \E n \in T : \A k \in T : n <= k
<1>1. PICK n \in T : \A k \in T : <<k, n>> \notin OpToRel(<, Nat)
  BY NatLessThanWellFounded, WFMin, Zenon
<1>2. \A k \in T : ~(k < n)
  BY <1>1, Zenon DEF OpToRel
<1>. QED  BY <1>2

\* std::find_if from a row on finds something when any row from there on shows
\* the resource.
LEMMA FoundFrom ==
    ASSUME NEW S, NEW s \in Seq(S), NEW from \in Nat, NEW r,
           NEW p \in from + 1 .. Len(s), s[p].resource = r
    PROVE  FindFrom(s, from, r) # {}
<1>. DEFINE T == {row \in Nat : from <= row /\ row < Len(s) /\ s[row + 1].resource = r}
<1>1. Len(s) \in Nat /\ p - 1 \in Nat /\ (p - 1) + 1 = p
  OBVIOUS
<1>2. T \in SUBSET Nat /\ T # {}
  <2>1. p - 1 \in T
    BY <1>1
  <2>. QED  BY <2>1
<1>3. PICK n \in T : \A k \in T : n <= k
  <2>. HIDE DEF T
  <2>. QED  BY <1>2, LeastOf
<1>4. \A q \in from .. n - 1 : s[q + 1].resource # r
  <2>1. SUFFICES ASSUME NEW q \in from .. n - 1, s[q + 1].resource = r
                 PROVE  FALSE
    OBVIOUS
  <2>2. q \in T /\ q < n
    BY <1>1, <1>3, <2>1
  <2>. QED  BY <1>1, <1>3, <2>2
<1>5. n \in FindFrom(s, from, r)
  BY <1>1, <1>3, <1>4 DEF FindFrom, Rows
<1>. QED  BY <1>5

\* New data for a row and the move to its new place: the old row is taken out
\* and the new one put in, as if by one removal and one insertion.
LEMMA UpdatedRowMoves ==
    ASSUME NEW S, NEW s \in Seq(S), NEW row \in Rows(s), NEW dest \in Rows(s), NEW x \in S
    PROVE  MoveOne([s EXCEPT ![row + 1] = x], row, dest)
              = RowsInserted(RowsRemoved(s, row, row), dest, <<x>>)
<1>. DEFINE read == [s EXCEPT ![row + 1] = x]
            moved == MoveOne(read, row, dest)
            rest == RowsRemoved(s, row, row)
            put == RowsInserted(rest, dest, <<x>>)
<1>1. /\ Len(s) \in Nat /\ row \in Nat /\ dest \in Nat /\ row < Len(s) /\ dest < Len(s)
      /\ row + 1 \in 1 .. Len(s) /\ row \in 0 .. Len(s) /\ row \in Int
      /\ row - 1 <= row /\ row - row + 1 = 1 /\ dest \in 0 .. Len(s) - 1
  BY DEF Rows
<1>2. /\ read \in Seq(S) /\ Len(read) = Len(s) /\ read[row + 1] = x
      /\ \A k \in 1 .. Len(s) : k # row + 1 => read[k] = s[k]
  BY <1>1
<1>. HIDE DEF read
<1>3. row \in Rows(read) /\ dest \in Rows(read)
  BY <1>1, <1>2 DEF Rows
<1>4. /\ moved \in Seq(S)
      /\ Len(moved) = Len(s)
      /\ \A k \in 1 .. Len(s) : moved[k] = IF k = dest + 1 THEN read[row + 1]
                                         ELSE IF row < k /\ k <= dest THEN read[k + 1]
                                         ELSE IF dest + 1 < k /\ k <= row + 1 THEN read[k - 1]
                                         ELSE read[k]
  <2>1. moved \in Seq(S)
    BY <1>2, <1>3, MovedRowAt
  <2>2. Len(moved) = Len(read)
    BY <1>2, <1>3, MovedRowAt
  <2>3. \A k \in 1 .. Len(read) : moved[k] = IF k = dest + 1 THEN read[row + 1]
                                         ELSE IF row < k /\ k <= dest THEN read[k + 1]
                                         ELSE IF dest + 1 < k /\ k <= row + 1 THEN read[k - 1]
                                         ELSE read[k]
    BY <1>2, <1>3, MovedRowAt
  <2>. QED  BY <1>2, <2>1, <2>2, <2>3
<1>5. /\ rest \in Seq(S)
      /\ Len(rest) = Len(s) - 1
      /\ \A p \in 1 .. Len(s) - 1 : rest[p] = IF p <= row THEN s[p] ELSE s[p + 1]
  <2>1. rest \in Seq(S)
    BY <1>1, RemovedRows
  <2>2. Len(rest) = Len(s) - (row - row + 1)
    BY <1>1, RemovedRows
  <2>3. \A p \in 1 .. Len(s) - (row - row + 1) :
           rest[p] = IF p <= row THEN s[p] ELSE s[p + (row - row + 1)]
    BY <1>1, RemovedRows
  <2>. QED  BY <1>1, <2>1, <2>2, <2>3
<1>. HIDE DEF moved, rest
<1>6. /\ put \in Seq(S)
      /\ Len(put) = Len(s)
      /\ \A p \in 1 .. dest : put[p] = rest[p]
      /\ put[dest + 1] = x
      /\ \A p \in dest + 1 .. Len(s) - 1 : put[p + 1] = rest[p]
  <2>1. rest \in Seq(S) /\ dest \in 0 .. Len(rest)
    BY <1>1, <1>5
  <2>2. put \in Seq(S)
    BY <2>1, InsertedRow
  <2>3. Len(put) = Len(rest) + 1
    BY <2>1, InsertedRow
  <2>4. \A p \in 1 .. dest : put[p] = rest[p]
    BY <2>1, InsertedRow
  <2>5. put[dest + 1] = x
    BY <2>1, InsertedRow
  <2>6. \A p \in dest + 1 .. Len(rest) : put[p + 1] = rest[p]
    BY <2>1, InsertedRow
  <2>. HIDE DEF put
  <2>7. Len(rest) = Len(s) - 1 /\ Len(rest) + 1 = Len(s)
    BY <1>1, <1>5
  <2>. QED  BY <2>2, <2>3, <2>4, <2>5, <2>6, <2>7
<1>. HIDE DEF put
<1>7. ASSUME NEW k \in 1 .. Len(s)
      PROVE  moved[k] = put[k]
  <2>1. CASE k = dest + 1
    BY <1>2, <1>4, <1>6, <2>1
  <2>2. CASE k <= dest
    <3>1. k \in 1 .. dest /\ k \in 1 .. Len(s) - 1
      BY <1>1, <2>2
    <3>2. put[k] = IF k <= row THEN s[k] ELSE s[k + 1]
      BY <1>5, <1>6, <3>1
    <3>3. CASE k <= row
      <4>1. k # row + 1 /\ k # dest + 1 /\ ~(row < k) /\ ~(dest + 1 < k)
        BY <1>1, <2>2, <3>3
      <4>2. moved[k] = read[k]
        BY <1>4, <4>1
      <4>. QED  BY <1>2, <3>2, <3>3, <4>1, <4>2
    <3>4. CASE row < k
      <4>1. k # dest + 1 /\ ~(k <= row) /\ k + 1 # row + 1 /\ k + 1 \in 1 .. Len(s)
        BY <1>1, <2>2, <3>4
      <4>2. moved[k] = read[k + 1]
        BY <1>4, <2>2, <3>4, <4>1
      <4>. QED  BY <1>2, <3>2, <4>1, <4>2
    <3>. QED  BY <1>1, <3>3, <3>4
  <2>3. CASE dest + 1 < k
    <3>. DEFINE p == k - 1
    <3>1. p \in dest + 1 .. Len(s) - 1 /\ p \in 1 .. Len(s) - 1 /\ p + 1 = k /\ p \in 1 .. Len(s)
      BY <1>1, <2>3
    <3>2. put[k] = IF p <= row THEN s[p] ELSE s[p + 1]
      <4>. HIDE DEF p
      <4>. QED  BY <1>5, <1>6, <3>1
    <3>3. CASE k <= row + 1
      <4>1. k # dest + 1 /\ ~(k <= dest) /\ p <= row /\ p # row + 1
        BY <1>1, <2>3, <3>3
      <4>2. moved[k] = read[p]
        BY <1>4, <2>3, <3>3, <4>1
      <4>. QED  BY <1>2, <3>1, <3>2, <4>1, <4>2
    <3>4. CASE row + 1 < k
      <4>1. k # dest + 1 /\ ~(k <= dest) /\ ~(k <= row + 1) /\ ~(p <= row) /\ k # row + 1
        BY <1>1, <2>3, <3>4
      <4>2. moved[k] = read[k]
        BY <1>4, <4>1
      <4>. QED  BY <1>2, <3>1, <3>2, <4>1, <4>2
    <3>. QED  BY <1>1, <3>3, <3>4
  <2>. QED  BY <1>1, <2>1, <2>2, <2>3
<1>8. moved = put
  BY <1>4, <1>6, <1>7, SameRows
<1>. QED  BY <1>8 DEF moved, put, read, rest

-------------------------------------------------------------------------------
(***************************************************************************)
(* Lists that name nothing twice, such as the orders of a user.            *)
(***************************************************************************)
\* No element of a list is in it twice.
Distinct(list) == \A p, q \in DOMAIN list : list[p] = list[q] => p = q

\* A set of rows that holds every row before one of its own is the first rows.
LEMMA FirstRows ==
    ASSUME NEW n \in Nat, NEW T \in SUBSET (1 .. n),
           \A p \in T : \A k \in 1 .. p : k \in T
    PROVE  Cardinality(T) \in 0 .. n /\ T = 1 .. Cardinality(T)
<1>1. \A k \in Nat : IsFiniteSet(1 .. k) /\ Cardinality(1 .. k) = k
  <2>1. SUFFICES ASSUME NEW k \in Nat
                 PROVE  IsFiniteSet(1 .. k) /\ Cardinality(1 .. k) = k
    OBVIOUS
  <2>2. IsFiniteSet(1 .. k) /\ Cardinality(1 .. k) = IF 1 > k THEN 0 ELSE k - 1 + 1
    <3>1. 1 \in Int /\ k \in Int
      OBVIOUS
    <3>. QED  BY <3>1, FS_Interval
  <2>. QED  BY <2>2
<1>2. PICK k \in 0 .. n : T = 1 .. k
  <2>. DEFINE rest == {k \in Nat : k \in 1 .. n + 1 /\ k \notin T}
  <2>1. rest \in SUBSET Nat /\ n + 1 \in rest
    OBVIOUS
  <2>2. PICK k \in rest : \A j \in rest : k <= j
    <3>1. rest \in SUBSET Nat /\ rest # {}
      BY <2>1
    <3>. HIDE DEF rest
    <3>. QED  BY <3>1, LeastOf
  <2>3. \A j \in rest : ~(j < k)
    BY <2>1, <2>2
  <2>4. k \in 1 .. n + 1 /\ k \notin T
    BY <2>2, Zenon
  <2>5. \A j \in 1 .. k - 1 : j \in T
    BY <2>3, <2>4
  <2>6. \A j \in T : j < k
    BY <2>4
  <2>. HIDE DEF rest
  <2>7. \A j \in T : j \in 1 .. n
    OBVIOUS
  <2>8. k - 1 \in 0 .. n
    BY <2>4
  <2>9. \A j \in T : j \in 1 .. k - 1
    BY <2>4, <2>6, <2>7
  <2>10. T = 1 .. k - 1
    BY <2>5, <2>9
  <2>. QED  BY <2>8, <2>10
<1>. QED  BY <1>1, <1>2

\* indexOf gives the first place of a resource, or one behind the last.
LEMMA FirstIndex ==
    ASSUME NEW S, NEW order \in Seq(S), NEW r
    PROVE  /\ IndexOf(order, r) \in 1 .. Len(order) + 1
           /\ IndexOf(order, r) = Len(order) + 1 \/ order[IndexOf(order, r)] = r
           /\ \A j \in 1 .. IndexOf(order, r) - 1 : order[j] # r
<1>. DEFINE found == {k \in Nat : k \in 1 .. Len(order) + 1 /\ (k = Len(order) + 1 \/ order[k] = r)}
<1>1. Len(order) \in Nat
  OBVIOUS
<1>2. Len(order) + 1 \in found
  BY <1>1
<1>3. PICK n \in found : \A k \in found : n <= k
  <2>1. found \in SUBSET Nat /\ found # {}
    BY <1>2
  <2>. HIDE DEF found
  <2>. QED  BY <2>1, LeastOf
<1>4. \A j \in 1 .. n - 1 : order[j] # r
  <2>1. SUFFICES ASSUME NEW j \in 1 .. n - 1, order[j] = r
                 PROVE  FALSE
    OBVIOUS
  <2>2. j \in found /\ j < n
    BY <1>1, <1>3, <2>1
  <2>. QED  BY <1>1, <1>3, <2>2
<1>5. /\ n \in 1 .. Len(order) + 1
      /\ n = Len(order) + 1 \/ order[n] = r
  BY <1>3
<1>. QED  BY <1>4, <1>5 DEF IndexOf

\* Moving a row lists every element again, and none twice that was not.
LEMMA MovedRowsDiffer ==
    ASSUME NEW S, NEW s \in Seq(S), NEW row \in Rows(s), NEW dest \in Rows(s)
    PROVE  /\ Distinct(s) => Distinct(MoveOne(s, row, dest))
           /\ \A k \in 1 .. Len(s) : \E j \in 1 .. Len(s) : MoveOne(s, row, dest)[k] = s[j]
           /\ \A j \in 1 .. Len(s) : \E k \in 1 .. Len(s) : MoveOne(s, row, dest)[k] = s[j]
<1>. DEFINE n == Len(s)
            m == MoveOne(s, row, dest)
            from == [k \in 1 .. n |-> IF k = dest + 1 THEN row + 1
                                      ELSE IF row < k /\ k <= dest THEN k + 1
                                      ELSE IF dest + 1 < k /\ k <= row + 1 THEN k - 1
                                      ELSE k]
            to == [j \in 1 .. n |-> IF j = row + 1 THEN dest + 1
                                    ELSE IF row + 1 < j /\ j <= dest + 1 THEN j - 1
                                    ELSE IF dest < j /\ j <= row THEN j + 1
                                    ELSE j]
<1>1. n \in Nat /\ row \in 0 .. n - 1 /\ dest \in 0 .. n - 1
  BY DEF Rows
<1>2. m \in Seq(S) /\ Len(m) = n /\ DOMAIN m = 1 .. n /\ DOMAIN s = 1 .. n
  BY MovedRowAt
<1>3. \A k \in 1 .. n : from[k] \in 1 .. n /\ m[k] = s[from[k]]
  <2>1. SUFFICES ASSUME NEW k \in 1 .. n
                 PROVE  from[k] \in 1 .. n /\ m[k] = s[from[k]]
    OBVIOUS
  <2>2. m[k] = IF k = dest + 1 THEN s[row + 1]
               ELSE IF row < k /\ k <= dest THEN s[k + 1]
               ELSE IF dest + 1 < k /\ k <= row + 1 THEN s[k - 1]
               ELSE s[k]
    BY MovedRowAt
  <2>3. from[k] = IF k = dest + 1 THEN row + 1
                  ELSE IF row < k /\ k <= dest THEN k + 1
                  ELSE IF dest + 1 < k /\ k <= row + 1 THEN k - 1
                  ELSE k
    OBVIOUS
  <2>. HIDE DEF m, from, n
  <2>. QED  BY <1>1, <2>2, <2>3
<1>4. \A j \in 1 .. n : to[j] \in 1 .. n /\ from[to[j]] = j
  BY <1>1
<1>5. \A j, k \in 1 .. n : from[j] = from[k] => j = k
  BY <1>1
<1>. HIDE DEF m, n, from, to
<1>6. Distinct(s) => Distinct(m)
  BY <1>2, <1>3, <1>5 DEF Distinct
<1>. QED  BY <1>3, <1>4, <1>6 DEF m, n

\* In a list without duplicates every row is the first of its resource.
LEMMA RankOfRow ==
    ASSUME NEW S, NEW order \in Seq(S), Distinct(order), NEW k \in 1 .. Len(order)
    PROVE  IndexOf(order, order[k]) = k
<1>. DEFINE n == IndexOf(order, order[k])
<1>1. Len(order) \in Nat /\ DOMAIN order = 1 .. Len(order)
  OBVIOUS
<1>2. /\ n \in 1 .. Len(order) + 1
      /\ n = Len(order) + 1 \/ order[n] = order[k]
      /\ \A j \in 1 .. n - 1 : order[j] # order[k]
  BY FirstIndex
<1>. HIDE DEF n
<1>3. ~(k < n)
  BY <1>1, <1>2
<1>4. n \in 1 .. Len(order) /\ order[n] = order[k]
  BY <1>1, <1>2, <1>3
<1>5. n = k
  BY <1>1, <1>4 DEF Distinct
<1>. QED  BY <1>5 DEF n

-------------------------------------------------------------------------------
(***************************************************************************)
(* The user's order.                                                       *)
(***************************************************************************)
\* destinationFor gives a place in the list, or behind its last row; for a
\* resource that is listed it gives one of the rows.
LEMMA DestinationInList ==
    ASSUME NEW S, NEW list \in Seq(S), NEW r \in S, NEW order \in Seq(S),
           NEW q \in Destinations(list, r, order)
    PROVE  /\ q \in 0 .. Len(list)
           /\ r \in Listed(list) => q \in Rows(list)
<1>. DEFINE D == DOMAIN list
            before == {p \in D : PlacedBefore(order, list[p], r)}
            tied == {p \in D : /\ list[p] # r
                               /\ ~PlacedBefore(order, list[p], r)
                               /\ ~PlacedBefore(order, r, list[p])}
<1>1. D = 1 .. Len(list) /\ Len(list) \in Nat /\ IsFiniteSet(D) /\ Cardinality(D) = Len(list)
  <2>1. D = 1 .. Len(list) /\ Len(list) \in Nat
    OBVIOUS
  <2>. DEFINE n == Len(list)
  <2>. HIDE DEF n
  <2>2. n \in Int /\ n \in Nat /\ 1 \in Int
    BY <2>1 DEF n
  <2>3. IsFiniteSet(1 .. n) /\ Cardinality(1 .. n) = IF 1 > n THEN 0 ELSE n - 1 + 1
    BY <2>2, FS_Interval
  <2>4. IsFiniteSet(1 .. n) /\ Cardinality(1 .. n) = n
    BY <2>2, <2>3
  <2>. QED  BY <2>1, <2>4 DEF n
<1>2. IsFiniteSet(before) /\ IsFiniteSet(tied) /\ before \cap tied = {}
  BY <1>1, FS_Subset
<1>3. /\ IsFiniteSet(before \cup tied)
      /\ Cardinality(before \cup tied) = Cardinality(before) + Cardinality(tied)
      /\ Cardinality(before) \in Nat /\ Cardinality(tied) \in Nat
  <2>. HIDE DEF before, tied
  <2>1. Cardinality(before) \in Nat /\ Cardinality(tied) \in Nat
    BY <1>2, FS_CardinalityType
  <2>2. /\ IsFiniteSet(before \cup tied)
        /\ Cardinality(before \cup tied)
              = Cardinality(before) + Cardinality(tied) - Cardinality(before \cap tied)
    BY <1>2, FS_Union
  <2>3. Cardinality(before \cap tied) = 0
    BY <1>2, FS_EmptySet
  <2>. QED  BY <2>1, <2>2, <2>3
<1>4. q \in Cardinality(before) .. Cardinality(before) + Cardinality(tied)
  BY DEF Destinations
<1>5. Cardinality(before \cup tied) <= Len(list)
  <2>1. before \cup tied \in SUBSET D
    OBVIOUS
  <2>. QED  BY <2>1, <1>1, FS_Subset
<1>6. ASSUME r \in Listed(list)
      PROVE  Cardinality(before \cup tied) < Len(list)
  <2>1. PICK p \in D : list[p] = r
    BY <1>6 DEF Listed
  <2>2. p \notin before \cup tied
    <3>1. IndexOf(order, r) \in Int
      BY FirstIndex
    <3>. QED  BY <2>1, <3>1 DEF PlacedBefore
  <2>3. before \cup tied \in SUBSET D /\ before \cup tied # D
    BY <2>2
  <2>4. Cardinality(before \cup tied) # Cardinality(D) /\ Cardinality(before \cup tied) <= Cardinality(D)
    BY <2>3, <1>1, FS_Subset
  <2>. QED  BY <2>4, <1>1, <1>3
<1>. HIDE DEF before, tied
<1>. QED  BY <1>1, <1>3, <1>4, <1>5, <1>6 DEF Rows

\* In an arranged list the places in the order go up.
LEMMA ArrangedRanks ==
    ASSUME NEW S, NEW list \in Seq(S), NEW order \in Seq(S), IsArranged(list, order)
    PROVE  \A i, j \in 1 .. Len(list) : i < j => IndexOf(order, list[i]) <= IndexOf(order, list[j])
<1>1. SUFFICES ASSUME NEW i \in 1 .. Len(list), NEW j \in 1 .. Len(list), i < j
               PROVE  IndexOf(order, list[i]) <= IndexOf(order, list[j])
  OBVIOUS
<1>2. IndexOf(order, list[i]) \in Int /\ IndexOf(order, list[j]) \in Int
  BY FirstIndex
<1>3. ~(IndexOf(order, list[j]) < IndexOf(order, list[i]))
  BY <1>1 DEF IsArranged, PlacedBefore
<1>. QED  BY <1>2, <1>3

\* Where the place that destinationFor gives is in an arranged list: the rows above
\* are not behind r, those below are not before it.
LEMMA DestinationFits ==
    ASSUME NEW S, NEW list \in Seq(S), NEW r \in S, NEW order \in Seq(S),
           IsArranged(list, order), Distinct(list), NEW q \in Destinations(list, r, order)
    PROVE  \A p \in DOMAIN list :
              /\ p <= q => ~PlacedBefore(order, r, list[p])
              /\ r \in Listed(list) /\ p = q + 1 => ~PlacedBefore(order, r, list[p])
              /\ p > q => ~PlacedBefore(order, list[p], r)
<1>. DEFINE D == DOMAIN list
            n == Len(list)
            Rank(x) == IndexOf(order, x)
            before == {p \in D : Rank(list[p]) < Rank(r)}
            tied == {p \in D : /\ list[p] # r
                               /\ ~(Rank(list[p]) < Rank(r))
                               /\ ~(Rank(r) < Rank(list[p]))}
            self == {p \in D : list[p] = r}
            upto == {p \in D : ~(Rank(r) < Rank(list[p]))}
            b == Cardinality(before)
            t == Cardinality(tied)
<1>1. n \in Nat /\ D = 1 .. n
  OBVIOUS
<1>2. \A x : Rank(x) \in Nat
  BY FirstIndex
<1>3. \A i, j \in D : i < j => Rank(list[i]) <= Rank(list[j])
  BY <1>1, ArrangedRanks
<1>. HIDE DEF Rank
<1>4. before = 1 .. b /\ b \in Nat
  <2>1. before \in SUBSET (1 .. n) /\ \A p \in before : \A k \in 1 .. p : k \in before
    BY <1>1, <1>2, <1>3
  <2>. HIDE DEF before, n
  <2>. QED  BY <1>1, <2>1, FirstRows
<1>5. upto = 1 .. Cardinality(upto) /\ Cardinality(upto) \in Nat
  <2>1. \A p \in upto : \A k \in 1 .. p : k \in upto
    <3>1. SUFFICES ASSUME NEW p \in upto, NEW k \in 1 .. p
                   PROVE  k \in upto
      OBVIOUS
    <3>2. k \in D /\ p \in D /\ (k = p \/ k < p)
      BY <1>1
    <3>3. Rank(list[k]) <= Rank(list[p])
      BY <1>2, <1>3, <3>2
    <3>4. Rank(list[p]) <= Rank(r)
      BY <1>2, <3>1
    <3>. QED  BY <1>2, <3>2, <3>3, <3>4
  <2>2. upto \in SUBSET (1 .. n)
    BY <1>1
  <2>. HIDE DEF upto, n
  <2>. QED  BY <1>1, <2>1, <2>2, FirstRows
<1>6. upto = (before \cup tied) \cup self
  BY <1>2
<1>7. /\ before \cap tied = {} /\ (before \cup tied) \cap self = {}
      /\ IsFiniteSet(before) /\ IsFiniteSet(tied) /\ IsFiniteSet(self)
  <2>1. IsFiniteSet(1 .. n)
    <3>1. n \in Int /\ 1 \in Int
      BY <1>1
    <3>. HIDE DEF n
    <3>. QED  BY <3>1, FS_Interval
  <2>2. before \in SUBSET (1 .. n) /\ tied \in SUBSET (1 .. n) /\ self \in SUBSET (1 .. n)
    BY <1>1
  <2>3. before \cap tied = {} /\ (before \cup tied) \cap self = {}
    BY <1>2
  <2>. HIDE DEF before, tied, self, n
  <2>. QED  BY <2>1, <2>2, <2>3, FS_Subset
<1>8. /\ t \in Nat /\ Cardinality(self) \in Nat
      /\ Cardinality(upto) = b + t + Cardinality(self)
  <2>. HIDE DEF before, tied, self, upto
  <2>1. IsFiniteSet(before \cup tied) /\ Cardinality(before \cup tied) = b + t - Cardinality({})
    BY <1>7, FS_Union
  <2>2. Cardinality(upto) = Cardinality(before \cup tied) + Cardinality(self) - Cardinality({})
    BY <1>6, <1>7, <2>1, FS_Union
  <2>3. Cardinality({}) = 0 /\ t \in Nat /\ Cardinality(self) \in Nat /\ b \in Nat
    BY <1>4, <1>7, FS_EmptySet, FS_CardinalityType
  <2>. QED  BY <2>1, <2>2, <2>3
<1>9. Cardinality(self) = IF r \in Listed(list) THEN 1 ELSE 0
  <2>1. CASE r \in Listed(list)
    <3>1. PICK p \in D : list[p] = r
      BY <2>1 DEF Listed
    <3>2. self = {} \cup {p}
      BY <3>1 DEF Distinct
    <3>. HIDE DEF self
    <3>3. Cardinality({} \cup {p}) = 0 + 1
      BY FS_EmptySet, FS_AddElement
    <3>. QED  BY <2>1, <3>2, <3>3
  <2>2. CASE r \notin Listed(list)
    <3>1. self = {}
      BY <2>2 DEF Listed
    <3>. HIDE DEF self
    <3>. QED  BY <2>2, <3>1, FS_EmptySet
  <2>. QED  BY <2>1, <2>2
<1>10. q \in b .. b + t
  BY DEF Destinations, PlacedBefore, Rank
<1>11. \A p \in D : /\ (p <= b + t + Cardinality(self) <=> ~(Rank(r) < Rank(list[p])))
                     /\ (p <= b <=> Rank(list[p]) < Rank(r))
  <2>1. \A p \in D : /\ (p \in upto <=> ~(Rank(r) < Rank(list[p])))
                      /\ (p \in before <=> Rank(list[p]) < Rank(r))
    OBVIOUS
  <2>2. \A p \in D : p \in Nat /\ p >= 1
    BY <1>1
  <2>. HIDE DEF before, tied, self, upto, D
  <2>. QED  BY <1>4, <1>5, <1>8, <2>1, <2>2
<1>12. SUFFICES ASSUME NEW p \in D
                PROVE  /\ p <= q => ~(Rank(r) < Rank(list[p]))
                       /\ r \in Listed(list) /\ p = q + 1 => ~(Rank(r) < Rank(list[p]))
                       /\ p > q => ~(Rank(list[p]) < Rank(r))
  BY DEF PlacedBefore, Rank
<1>13. p \in Nat
  BY <1>1
<1>. HIDE DEF before, tied, self, upto, D
<1>. QED  BY <1>4, <1>8, <1>9, <1>10, <1>11, <1>13

\* An order arranges itself.
LEMMA SelfArranged ==
    ASSUME NEW S, NEW order \in Seq(S), Distinct(order)
    PROVE  IsArranged(order, order)
<1>1. Len(order) \in Nat /\ DOMAIN order = 1 .. Len(order)
  OBVIOUS
<1>2. \A k \in 1 .. Len(order) : IndexOf(order, order[k]) = k
  BY RankOfRow
<1>. QED  BY <1>1, <1>2 DEF IsArranged, PlacedBefore

\* Which row is where when one row was inserted.
LEMMA OneInserted ==
    ASSUME NEW S, NEW list \in Seq(S), NEW q \in 0 .. Len(list), NEW r \in S
    PROVE  /\ RowsInserted(list, q, <<r>>) \in Seq(S)
           /\ Len(RowsInserted(list, q, <<r>>)) = Len(list) + 1
           /\ DOMAIN RowsInserted(list, q, <<r>>) = 1 .. Len(list) + 1
           /\ \A p \in 1 .. Len(list) + 1 :
                 RowsInserted(list, q, <<r>>)[p] =
                    IF p <= q THEN list[p] ELSE IF p = q + 1 THEN r ELSE list[p - 1]
<1>. DEFINE xs == <<r>>
            t == RowsInserted(list, q, xs)
            n == Len(list)
<1>1. n \in Nat /\ xs \in Seq(S) /\ Len(xs) = 1 /\ list \in Seq(S) /\ xs[1] = r
  OBVIOUS
<1>. HIDE DEF xs
<1>2. /\ RowsInserted(list, q, xs) \in Seq(S)
      /\ Len(RowsInserted(list, q, xs)) = Len(list) + Len(xs)
      /\ \A p \in 1 .. Len(list) + Len(xs) :
            RowsInserted(list, q, xs)[p] = IF p <= q THEN list[p]
                                           ELSE IF p <= q + Len(xs) THEN xs[p - q]
                                           ELSE list[p - Len(xs)]
  BY <1>1, InsertedRows, Zenon
<1>. HIDE DEF t
<1>3. /\ t \in Seq(S) /\ Len(t) = n + 1
      /\ \A p \in 1 .. n + 1 : t[p] = IF p <= q THEN list[p]
                                      ELSE IF p <= q + 1 THEN xs[p - q]
                                      ELSE list[p - 1]
  BY <1>1, <1>2 DEF t
<1>4. ASSUME NEW p \in 1 .. n + 1
      PROVE  t[p] = IF p <= q THEN list[p] ELSE IF p = q + 1 THEN r ELSE list[p - 1]
  <2>1. p <= q + 1 /\ ~(p <= q) => p = q + 1 /\ p - q = 1
    BY <1>1
  <2>. QED  BY <1>1, <1>3, <2>1
<1>5. DOMAIN t = 1 .. n + 1
  BY <1>3
<1>. QED  BY <1>3, <1>4, <1>5 DEF t, xs

\* A row inserted where destinationFor says keeps the list arranged.
LEMMA InsertArranged ==
    ASSUME NEW S, NEW list \in Seq(S), NEW r \in S, NEW order \in Seq(S),
           IsArranged(list, order), Distinct(list), r \notin Listed(list),
           NEW q \in Destinations(list, r, order)
    PROVE  /\ RowsInserted(list, q, <<r>>) \in Seq(S)
           /\ Distinct(RowsInserted(list, q, <<r>>))
           /\ IsArranged(RowsInserted(list, q, <<r>>), order)
<1>. DEFINE t == RowsInserted(list, q, <<r>>)
            Rank(x) == IndexOf(order, x)
            n == Len(list)
<1>1. n \in Nat /\ DOMAIN list = 1 .. n /\ q \in 0 .. n /\ \A p \in 1 .. n : list[p] \in S
  BY DestinationInList
<1>2. /\ t \in Seq(S) /\ Len(t) = n + 1 /\ DOMAIN t = 1 .. n + 1
      /\ \A p \in 1 .. n + 1 : t[p] = IF p <= q THEN list[p] ELSE IF p = q + 1 THEN r ELSE list[p - 1]
  <2>1. list \in Seq(S) /\ q \in 0 .. Len(list) /\ r \in S
    BY <1>1
  <2>2. t \in Seq(S)
    BY ONLY <2>1, OneInserted
  <2>3. Len(t) = n + 1
    BY ONLY <2>1, OneInserted
  <2>4. DOMAIN t = 1 .. n + 1
    BY ONLY <2>1, OneInserted
  <2>5. \A p \in 1 .. n + 1 : t[p] = IF p <= q THEN list[p] ELSE IF p = q + 1 THEN r ELSE list[p - 1]
    BY ONLY <2>1, OneInserted
  <2>. QED  BY ONLY <2>2, <2>3, <2>4, <2>5
<1>3. \A p \in 1 .. n : list[p] # r
  BY <1>1 DEF Listed
<1>4. \A x : Rank(x) \in Nat
  BY FirstIndex
<1>5. \A i, j \in 1 .. n : i < j => Rank(list[i]) <= Rank(list[j])
  BY ArrangedRanks
<1>6. \A p \in 1 .. n : /\ p <= q => Rank(list[p]) <= Rank(r)
                        /\ p > q => Rank(r) <= Rank(list[p])
  BY <1>1, <1>4, DestinationFits DEF PlacedBefore
<1>. HIDE DEF t, Rank, n
<1>7. Distinct(t)
  <2>1. \A i, j \in 1 .. n : list[i] = list[j] => i = j
    BY <1>1 DEF Distinct
  <2>2. SUFFICES ASSUME NEW j \in 1 .. n + 1, NEW k \in 1 .. n + 1, j < k, t[j] = t[k]
                 PROVE  FALSE
    BY <1>1, <1>2 DEF Distinct
  <2>3. CASE k <= q
    BY <1>1, <1>2, <2>1, <2>2, <2>3
  <2>4. CASE k = q + 1
    BY <1>1, <1>2, <1>3, <2>2, <2>4
  <2>5. CASE k > q + 1 /\ j <= q
    BY <1>1, <1>2, <2>1, <2>2, <2>5
  <2>6. CASE k > q + 1 /\ j = q + 1
    BY <1>1, <1>2, <1>3, <2>2, <2>6
  <2>7. CASE k > q + 1 /\ j > q + 1
    BY <1>1, <1>2, <2>1, <2>2, <2>7
  <2>. QED  BY <1>1, <2>2, <2>3, <2>4, <2>5, <2>6, <2>7
<1>8. \A j, k \in 1 .. n + 1 : j < k => Rank(t[j]) <= Rank(t[k])
  <2>1. SUFFICES ASSUME NEW j \in 1 .. n + 1, NEW k \in 1 .. n + 1, j < k
                 PROVE  Rank(t[j]) <= Rank(t[k])
    OBVIOUS
  <2>2. CASE k <= q
    BY <1>1, <1>2, <1>5, <2>1, <2>2
  <2>3. CASE k = q + 1
    BY <1>1, <1>2, <1>6, <2>1, <2>3
  <2>4. CASE k > q + 1 /\ j <= q
    BY <1>1, <1>2, <1>5, <2>1, <2>4
  <2>5. CASE k > q + 1 /\ j = q + 1
    BY <1>1, <1>2, <1>6, <2>1, <2>5
  <2>6. CASE k > q + 1 /\ j > q + 1
    BY <1>1, <1>2, <1>5, <2>1, <2>6
  <2>. QED  BY <1>1, <2>1, <2>2, <2>3, <2>4, <2>5, <2>6
<1>9. IsArranged(t, order)
  BY <1>1, <1>2, <1>4, <1>8 DEF IsArranged, PlacedBefore, Rank
<1>. QED  BY <1>2, <1>7, <1>9 DEF t

\* So does a listed row that is moved there.
LEMMA RepositionArranged ==
    ASSUME NEW S, NEW list \in Seq(S), NEW order \in Seq(S),
           IsArranged(list, order), Distinct(list), NEW p \in DOMAIN list,
           NEW q \in Destinations(list, list[p], order)
    PROVE  /\ MoveOne(list, p - 1, q) \in Seq(S)
           /\ Distinct(MoveOne(list, p - 1, q))
           /\ IsArranged(MoveOne(list, p - 1, q), order)
<1>. DEFINE row == p - 1
            t == MoveOne(list, row, q)
            r == list[p]
            Rank(x) == IndexOf(order, x)
            n == Len(list)
<1>1. n \in Nat /\ DOMAIN list = 1 .. n /\ p \in 1 .. n /\ r \in S /\ r \in Listed(list)
      /\ row \in Rows(list) /\ row \in Nat /\ row + 1 = p
  BY DEF Listed, Rows
<1>2. q \in Rows(list) /\ q \in 0 .. n - 1
  BY <1>1, DestinationInList DEF Rows
<1>3. /\ t \in Seq(S) /\ Len(t) = n /\ DOMAIN t = 1 .. n
      /\ \A k \in 1 .. n : t[k] = IF k = q + 1 THEN list[row + 1]
                                  ELSE IF row < k /\ k <= q THEN list[k + 1]
                                  ELSE IF q + 1 < k /\ k <= row + 1 THEN list[k - 1]
                                  ELSE list[k]
  <2>. HIDE DEF row
  <2>1. /\ t \in Seq(S) /\ Len(t) = Len(list)
        /\ \A k \in 1 .. Len(list) : t[k] = IF k = q + 1 THEN list[row + 1]
                                            ELSE IF row < k /\ k <= q THEN list[k + 1]
                                            ELSE IF q + 1 < k /\ k <= row + 1 THEN list[k - 1]
                                            ELSE list[k]
    BY <1>1, <1>2, MovedRowAt
  <2>. HIDE DEF t
  <2>. QED  BY <2>1
<1>4. Distinct(t)
  <2>. HIDE DEF row
  <2>. QED  BY <1>1, <1>2, MovedRowsDiffer
<1>5. \A x : Rank(x) \in Nat
  BY FirstIndex
<1>6. \A i, j \in 1 .. n : i < j => Rank(list[i]) <= Rank(list[j])
  BY ArrangedRanks
<1>7. \A k \in 1 .. n : /\ k <= q + 1 => Rank(list[k]) <= Rank(r)
                        /\ k > q => Rank(r) <= Rank(list[k])
  <2>1. \A k \in DOMAIN list : /\ k <= q => ~PlacedBefore(order, r, list[k])
                               /\ k = q + 1 => ~PlacedBefore(order, r, list[k])
                               /\ k > q => ~PlacedBefore(order, list[k], r)
    BY <1>1, DestinationFits
  <2>. QED  BY <1>1, <1>2, <1>5, <2>1 DEF PlacedBefore
<1>. HIDE DEF t, Rank, n, row
<1>8. \A k \in 1 .. n : Rank(t[k]) = Rank(list[k])
  <2>1. SUFFICES ASSUME NEW k \in 1 .. n
                 PROVE  Rank(t[k]) = Rank(list[k])
    OBVIOUS
  <2>2. CASE k = q + 1
    <3>1. t[k] = r
      BY <1>1, <1>2, <1>3, <2>2
    <3>. QED  BY <1>2, <1>5, <1>7, <2>2, <3>1
  <2>3. CASE row < k /\ k <= q
    <3>1. k \in Nat /\ k + 1 \in 1 .. n /\ k + 1 <= q + 1 /\ p < k + 1 /\ p <= k /\ t[k] = list[k + 1]
      BY <1>1, <1>2, <1>3, <2>3
    <3>2. Rank(list[k + 1]) = Rank(r)
      BY <1>1, <1>5, <1>6, <1>7, <3>1
    <3>3. Rank(list[k]) = Rank(r)
      BY <1>1, <1>2, <1>5, <1>6, <1>7, <2>3, <3>1
    <3>. QED  BY <3>1, <3>2, <3>3
  <2>4. CASE q + 1 < k /\ k <= row + 1
    <3>1. k \in Nat /\ k - 1 \in 1 .. n /\ k - 1 > q /\ k - 1 < p /\ k <= p /\ t[k] = list[k - 1]
      BY <1>1, <1>2, <1>3, <2>4
    <3>2. Rank(list[k - 1]) = Rank(r)
      BY <1>1, <1>5, <1>6, <1>7, <3>1
    <3>3. Rank(list[k]) = Rank(r)
      BY <1>1, <1>2, <1>5, <1>6, <1>7, <2>4, <3>1
    <3>. QED  BY <3>1, <3>2, <3>3
  <2>5. CASE k # q + 1 /\ ~(row < k /\ k <= q) /\ ~(q + 1 < k /\ k <= row + 1)
    BY <1>3, <2>5
  <2>. QED  BY <2>2, <2>3, <2>4, <2>5
<1>9. IsArranged(t, order)
  BY <1>1, <1>3, <1>5, <1>6, <1>8 DEF IsArranged, PlacedBefore, Rank
<1>. QED  BY <1>3, <1>4, <1>9 DEF t, row

\* After a request the row is moved to the place that was asked for, so that the rows
\* are in the new order.
LEMMA RequestedPlace ==
    ASSUME NEW S, NEW list \in Seq(S), Distinct(list), NEW p \in DOMAIN list,
           NEW position \in Rows(list),
           NEW q \in Destinations(list, list[p], MoveOne(list, p - 1, position))
    PROVE  q = position
<1>. DEFINE row == p - 1
            order == MoveOne(list, row, position)
            r == list[p]
            n == Len(list)
            Rank(x) == IndexOf(order, x)
            before == {k \in DOMAIN list : Rank(list[k]) < Rank(r)}
            tied == {k \in DOMAIN list : /\ list[k] # r
                                         /\ ~(Rank(list[k]) < Rank(r))
                                         /\ ~(Rank(r) < Rank(list[k]))}
            rank == [k \in before |-> Rank(list[k])]
<1>1. /\ n \in Nat /\ DOMAIN list = 1 .. n /\ p \in 1 .. n /\ position \in 0 .. n - 1
      /\ row \in Rows(list) /\ row + 1 = p
  BY DEF Rows
<1>2. /\ order \in Seq(S) /\ Len(order) = n /\ order[position + 1] = r
  <2>. HIDE DEF row
  <2>1. /\ order \in Seq(S) /\ Len(order) = Len(list)
        /\ \A k \in 1 .. Len(list) :
              order[k] = IF k = position + 1 THEN list[row + 1]
                         ELSE IF row < k /\ k <= position THEN list[k + 1]
                         ELSE IF position + 1 < k /\ k <= row + 1 THEN list[k - 1]
                         ELSE list[k]
    BY <1>1, MovedRowAt
  <2>. HIDE DEF order
  <2>. QED  BY <1>1, <2>1
<1>3. /\ Distinct(order)
      /\ \A k \in 1 .. n : \E j \in 1 .. n : order[k] = list[j]
      /\ \A j \in 1 .. n : \E k \in 1 .. n : order[k] = list[j]
  <2>. HIDE DEF row
  <2>. QED  BY <1>1, MovedRowsDiffer
<1>. HIDE DEF row, order
<1>4. \A k \in 1 .. n : Rank(order[k]) = k
  BY <1>2, <1>3, RankOfRow
<1>. HIDE DEF Rank
<1>5. \A j \in 1 .. n : Rank(list[j]) \in 1 .. n /\ order[Rank(list[j])] = list[j]
  BY <1>3, <1>4
<1>6. \A j, k \in 1 .. n : Rank(list[j]) = Rank(list[k]) => j = k
  <2>1. \A j, k \in 1 .. n : list[j] = list[k] => j = k
    BY <1>1 DEF Distinct
  <2>. QED  BY <1>5, <2>1
<1>7. Rank(r) = position + 1
  BY <1>1, <1>2, <1>4
<1>8. tied = {}
  BY <1>1, <1>5, <1>6
<1>9. Cardinality(before) = position
  <2>1. \A k \in before : Rank(list[k]) \in 1 .. position
    BY <1>1, <1>5, <1>7
  <2>2. \A i \in 1 .. position : \E k \in before : Rank(list[k]) = i
    <3>1. SUFFICES ASSUME NEW i \in 1 .. position
                   PROVE  \E k \in before : Rank(list[k]) = i
      OBVIOUS
    <3>0. i \in 1 .. n
      BY <1>1
    <3>2. PICK k \in 1 .. n : order[i] = list[k]
      BY <1>3, <3>0
    <3>3. Rank(list[k]) = i /\ Rank(list[k]) < Rank(r)
      BY <1>1, <1>4, <1>7, <3>0, <3>2
    <3>. QED  BY <1>1, <3>2, <3>3
  <2>3. \A j, k \in before : Rank(list[j]) = Rank(list[k]) => j = k
    BY <1>1, <1>6
  <2>. HIDE DEF before
  <2>4. rank \in [before -> 1 .. position]
    BY <2>1
  <2>5. \A i \in 1 .. position : \E k \in before : rank[k] = i
    BY <2>2
  <2>6. \A j, k \in before : rank[j] = rank[k] => j = k
    BY <2>3
  <2>. HIDE DEF rank
  <2>7. rank \in Bijection(before, 1 .. position)
    BY <2>4, <2>5, <2>6 DEF Bijection, Injection, IsInjective, Surjection
  <2>8. ExistsBijection(before, 1 .. position)
    BY <2>7 DEF ExistsBijection
  <2>9. IsFiniteSet(before)
    <3>1. IsFiniteSet(1 .. n)
      <4>1. n \in Int /\ 1 \in Int
        BY <1>1
      <4>. HIDE DEF n
      <4>. QED  BY <4>1, FS_Interval
    <3>2. before \in SUBSET (1 .. n)
      BY <1>1 DEF before
    <3>. HIDE DEF n
    <3>. QED  BY <3>1, <3>2, FS_Subset
  <2>10. Cardinality(1 .. position) = Cardinality(before)
    BY <2>8, <2>9, FS_Bijection
  <2>11. Cardinality(1 .. position) = IF 1 > position THEN 0 ELSE position - 1 + 1
    <3>1. position \in Int /\ 1 \in Int
      BY <1>1
    <3>. QED  BY <3>1, FS_Interval
  <2>. QED  BY <1>1, <2>10, <2>11
<1>10. q \in Cardinality(before) .. Cardinality(before) + Cardinality(tied)
  BY DEF Destinations, PlacedBefore, Rank, order, row
<1>. HIDE DEF before, tied
<1>11. Cardinality(tied) = 0
  BY <1>8, FS_EmptySet
<1>. QED  BY <1>1, <1>9, <1>10, <1>11

\* The order in which a resource gets a place before it is linked arranges the rows
\* listed so far.
LEMMA PlaceArranged ==
    ASSUME NEW S, NEW list \in Seq(S), Distinct(list), NEW r \in S, r \notin Listed(list),
           NEW position \in 0 .. Len(list)
    PROVE  /\ RowsInserted(list, position, <<r>>) \in Seq(S)
           /\ Distinct(RowsInserted(list, position, <<r>>))
           /\ IsArranged(list, RowsInserted(list, position, <<r>>))
<1>. DEFINE order == RowsInserted(list, position, <<r>>)
            n == Len(list)
<1>1. n \in Nat /\ DOMAIN list = 1 .. n /\ position \in 0 .. n
  OBVIOUS
<1>2. /\ order \in Seq(S) /\ Len(order) = n + 1 /\ DOMAIN order = 1 .. n + 1
      /\ \A k \in 1 .. n + 1 :
            order[k] = IF k <= position THEN list[k] ELSE IF k = position + 1 THEN r ELSE list[k - 1]
  <2>1. list \in Seq(S) /\ position \in 0 .. Len(list) /\ r \in S
    OBVIOUS
  <2>2. order \in Seq(S)
    BY ONLY <2>1, OneInserted
  <2>3. Len(order) = n + 1
    BY ONLY <2>1, OneInserted
  <2>4. DOMAIN order = 1 .. n + 1
    BY ONLY <2>1, OneInserted
  <2>5. \A k \in 1 .. n + 1 :
          order[k] = IF k <= position THEN list[k] ELSE IF k = position + 1 THEN r ELSE list[k - 1]
    BY ONLY <2>1, OneInserted
  <2>. QED  BY ONLY <2>2, <2>3, <2>4, <2>5
<1>. HIDE DEF order, n
<1>3. Distinct(order)
  <2>1. \A j, k \in 1 .. n : list[j] = list[k] => j = k
    BY <1>1 DEF Distinct
  <2>2. \A k \in 1 .. n : list[k] # r
    BY <1>1 DEF Listed
  <2>3. SUFFICES ASSUME NEW j \in 1 .. n + 1, NEW k \in 1 .. n + 1, j < k, order[j] = order[k]
                 PROVE  FALSE
    BY <1>1, <1>2 DEF Distinct
  <2>4. CASE k <= position
    <3>1. j \in 1 .. n /\ k \in 1 .. n /\ j <= position /\ j # k
      BY <1>1, <2>3, <2>4
    <3>2. order[j] = list[j] /\ order[k] = list[k]
      BY <1>2, <2>4, <3>1
    <3>. QED  BY <2>1, <2>3, <3>1, <3>2
  <2>5. CASE k = position + 1
    <3>1. j \in 1 .. n /\ j <= position /\ ~(k <= position)
      BY <1>1, <2>3, <2>5
    <3>2. order[j] = list[j] /\ order[k] = r
      BY <1>2, <2>5, <3>1
    <3>. QED  BY <2>2, <2>3, <3>1, <3>2
  <2>6. CASE k > position + 1
    <3>1. k - 1 \in 1 .. n /\ ~(k <= position) /\ k # position + 1
      BY <1>1, <2>3, <2>6
    <3>2. order[k] = list[k - 1]
      BY <1>2, <3>1
    <3>3. CASE j <= position
      <4>1. j \in 1 .. n /\ j # k - 1
        BY <1>1, <2>3, <2>6, <3>3
      <4>2. order[j] = list[j]
        BY <1>2, <3>3
      <4>. QED  BY <2>1, <2>3, <3>1, <3>2, <4>1, <4>2
    <3>4. CASE j = position + 1
      <4>1. ~(j <= position)
        BY <1>1, <3>4
      <4>2. order[j] = r
        BY <1>2, <3>4, <4>1
      <4>. QED  BY <2>2, <2>3, <3>1, <3>2, <4>2
    <3>5. CASE j > position + 1
      <4>1. j - 1 \in 1 .. n /\ ~(j <= position) /\ j # position + 1 /\ j - 1 # k - 1
        BY <1>1, <2>3, <3>5
      <4>2. order[j] = list[j - 1]
        BY <1>2, <4>1
      <4>. QED  BY <2>1, <2>3, <3>1, <3>2, <4>1, <4>2
    <3>. QED  BY <1>1, <2>3, <3>3, <3>4, <3>5
  <2>. QED  BY <1>1, <2>3, <2>4, <2>5, <2>6
<1>4. \A k \in 1 .. n : IndexOf(order, list[k]) = IF k <= position THEN k ELSE k + 1
  <2>1. SUFFICES ASSUME NEW k \in 1 .. n
                 PROVE  IndexOf(order, list[k]) = IF k <= position THEN k ELSE k + 1
    OBVIOUS
  <2>2. CASE k <= position
    <3>1. k \in 1 .. n + 1 /\ order[k] = list[k]
      BY <1>1, <1>2, <2>2
    <3>. QED  BY <1>2, <1>3, <2>2, <3>1, RankOfRow
  <2>3. CASE ~(k <= position)
    <3>1. k + 1 \in 1 .. n + 1 /\ order[k + 1] = list[k]
      BY <1>1, <1>2, <2>3
    <3>. QED  BY <1>2, <1>3, <2>3, <3>1, RankOfRow
  <2>. QED  BY <2>2, <2>3
<1>5. IsArranged(list, order)
  BY <1>1, <1>4 DEF IsArranged, PlacedBefore
<1>. QED  BY <1>2, <1>3, <1>5 DEF order

\* A list from which a row is removed stays arranged.
LEMMA RemoveArranged ==
    ASSUME NEW S, NEW list \in Seq(S), NEW order \in Seq(S), IsArranged(list, order), Distinct(list),
           NEW p \in DOMAIN list
    PROVE  /\ RowsRemoved(list, p - 1, p - 1) \in Seq(S)
           /\ Distinct(RowsRemoved(list, p - 1, p - 1))
           /\ IsArranged(RowsRemoved(list, p - 1, p - 1), order)
<1>. DEFINE row == p - 1
            n == Len(list)
            t == RowsRemoved(list, row, row)
<1>1. n \in Nat /\ DOMAIN list = 1 .. n /\ p \in 1 .. n /\ list \in Seq(S)
  OBVIOUS
<1>2. row \in 0 .. Len(list) /\ row \in Int /\ row - 1 <= row /\ row < Len(list) /\ row - row + 1 = 1
  <2>. HIDE DEF n
  <2>1. n \in Nat /\ p \in 1 .. n
    BY <1>1
  <2>2. row \in 0 .. n /\ row \in Int /\ row - 1 <= row /\ row < n /\ row - row + 1 = 1
    BY <2>1
  <2>. QED  BY <2>2 DEF n
<1>. HIDE DEF row
<1>3. /\ t \in Seq(S) /\ Len(t) = Len(list) - (row - row + 1)
      /\ \A k \in 1 .. Len(list) - (row - row + 1) :
            t[k] = IF k <= row THEN list[k] ELSE list[k + (row - row + 1)]
  <2>1. t \in Seq(S)
    BY <1>1, <1>2, RemovedRows
  <2>2. Len(t) = Len(list) - (row - row + 1)
    BY <1>1, <1>2, RemovedRows
  <2>3. \A k \in 1 .. Len(list) - (row - row + 1) :
           t[k] = IF k <= row THEN list[k] ELSE list[k + (row - row + 1)]
    <3>. DEFINE last == row
    <3>1. /\ list \in Seq(S) /\ row \in 0 .. Len(list)
          /\ last \in Int /\ row - 1 <= last /\ last < Len(list)
      BY <1>1, <1>2
    <3>. HIDE DEF last
    <3>2. \A k \in 1 .. Len(list) - (last - row + 1) :
             RowsRemoved(list, row, last)[k] = IF k <= row THEN list[k]
                                               ELSE list[k + (last - row + 1)]
      BY ONLY <3>1, RemovedRows
    <3>. QED  BY <3>2 DEF last
  <2>. QED  BY <2>1, <2>2, <2>3
<1>. HIDE DEF t
<1>4. /\ Len(t) = n - 1 /\ DOMAIN t = 1 .. n - 1 /\ t \in Seq(S)
      /\ \A k \in 1 .. n - 1 : t[k] = IF k <= row THEN list[k] ELSE list[k + 1]
  BY <1>1, <1>2, <1>3
<1>5. \A j, k \in DOMAIN t :
         j < k => \E i, l \in DOMAIN list : i < l /\ t[j] = list[i] /\ t[k] = list[l]
  <2>1. SUFFICES ASSUME NEW j \in DOMAIN t, NEW k \in DOMAIN t, j < k
                 PROVE  \E i, l \in DOMAIN list : i < l /\ t[j] = list[i] /\ t[k] = list[l]
    OBVIOUS
  <2>. DEFINE i == IF j <= row THEN j ELSE j + 1
              l == IF k <= row THEN k ELSE k + 1
  <2>2. i \in DOMAIN list /\ l \in DOMAIN list /\ i < l
    BY <1>1, <1>2, <1>4, <2>1
  <2>3. t[j] = list[i] /\ t[k] = list[l]
    BY <1>4
  <2>. HIDE DEF i, l
  <2>. QED  BY <2>2, <2>3
<1>6. Distinct(t)
  <2>1. \A j, k \in DOMAIN t : j < k => t[j] # t[k]
    BY <1>1, <1>5 DEF Distinct
  <2>2. \A j, k \in DOMAIN t : j # k => j < k \/ k < j
    BY <1>1, <1>4
  <2>. QED  BY <2>1, <2>2 DEF Distinct
<1>7. IsArranged(t, order)
  BY <1>5 DEF IsArranged
<1>. QED  BY <1>4, <1>6, <1>7 DEF t, row

-------------------------------------------------------------------------------
(***************************************************************************)
(* Sums.                                                                   *)
(***************************************************************************)
\* What MapThenSumSet adds up, as a function of the set.
IsSum(g, S, f, ch) ==
    g = [s \in SUBSET S |-> IF s = {} THEN 0 ELSE f[ch[s]] + g[s \ {ch[s]}]]

\* There is such a function for every finite set: one for the subsets of a size gives
\* one for the next size.
LEMMA SumExists ==
    ASSUME NEW S, IsFiniteSet(S), NEW f \in [S -> Nat], NEW ch,
           \A s \in SUBSET S : s # {} => ch[s] \in s
    PROVE  \E g : IsSum(g, S, f, ch)
<1>. DEFINE Small(n) == {s \in SUBSET S : Cardinality(s) <= n}
            Works(n) == \E g : \A s \in Small(n) :
                           g[s] = IF s = {} THEN 0 ELSE f[ch[s]] + g[s \ {ch[s]}]
            T == {n \in Nat : ~Works(n)}
<1>0. \A s \in SUBSET S : IsFiniteSet(s) /\ Cardinality(s) \in Nat
  BY FS_Subset, FS_CardinalityType
<1>1. \A s \in SUBSET S : s # {} => Cardinality(s) >= 1
                       /\ Cardinality(s \ {ch[s]}) = Cardinality(s) - 1 /\ s \ {ch[s]} \in SUBSET S
  <2>1. SUFFICES ASSUME NEW s \in SUBSET S, s # {}
                 PROVE  Cardinality(s) >= 1
                       /\ Cardinality(s \ {ch[s]}) = Cardinality(s) - 1 /\ s \ {ch[s]} \in SUBSET S
    OBVIOUS
  <2>2. Cardinality(s) # 0
    BY <1>0, <2>1, FS_EmptySet
  <2>. QED  BY <1>0, <2>1, <2>2, FS_RemoveElement
<1>2. Works(0)
  <2>1. \A s \in Small(0) : s = {}
    <3>1. ASSUME NEW s \in SUBSET S, s # {}
          PROVE  ~(Cardinality(s) <= 0)
      <4>1. Cardinality(s) \in Nat /\ Cardinality(s) >= 1
        BY <1>0, <1>1, <3>1
      <4>. QED  BY <4>1
    <3>. QED  BY <3>1
  <2>. DEFINE g == [s \in SUBSET S |-> 0]
  <2>2. \A s \in Small(0) : g[s] = IF s = {} THEN 0 ELSE f[ch[s]] + g[s \ {ch[s]}]
    BY <2>1
  <2>. QED  BY <2>2
<1>3. ASSUME NEW n \in Nat, Works(n)
      PROVE  Works(n + 1)
  <2>1. PICK g : \A s \in Small(n) : g[s] = IF s = {} THEN 0 ELSE f[ch[s]] + g[s \ {ch[s]}]
    BY <1>3
  <2>. DEFINE h == [s \in SUBSET S |-> IF s = {} THEN 0
                                       ELSE IF Cardinality(s) <= n THEN g[s]
                                       ELSE f[ch[s]] + g[s \ {ch[s]}]]
  <2>2. \A s \in Small(n) : h[s] = g[s]
    BY <2>1
  <2>3. ASSUME NEW s \in Small(n + 1)
        PROVE  h[s] = IF s = {} THEN 0 ELSE f[ch[s]] + h[s \ {ch[s]}]
    <3>1. CASE s = {}
      BY <3>1
    <3>2. CASE s # {}
      <4>1. s \ {ch[s]} \in Small(n)
        BY <1>0, <1>1, <2>3, <3>2
      <4>2. h[s \ {ch[s]}] = g[s \ {ch[s]}]
        BY <2>2, <4>1
      <4>3. CASE Cardinality(s) <= n
        <5>1. h[s] = g[s] /\ g[s] = f[ch[s]] + g[s \ {ch[s]}]
          BY <2>1, <2>3, <3>2, <4>3
        <5>. QED  BY <3>2, <4>2, <5>1
      <4>4. CASE ~(Cardinality(s) <= n)
        <5>1. h[s] = f[ch[s]] + g[s \ {ch[s]}]
          BY <2>3, <3>2, <4>4
        <5>. QED  BY <3>2, <4>2, <5>1
      <4>. QED  BY <4>3, <4>4
    <3>. QED  BY <3>1, <3>2
  <2>. HIDE DEF h
  <2>. QED  BY <2>3
<1>. HIDE DEF Works
<1>4. Works(Cardinality(S))
  <2>1. SUFFICES ASSUME ~Works(Cardinality(S)) PROVE FALSE
    OBVIOUS
  <2>2. T \in SUBSET Nat /\ T # {}
    BY <1>0, <2>1
  <2>3. PICK n \in T : \A k \in T : n <= k
    <3>. HIDE DEF T
    <3>. QED  BY <2>2, LeastOf
  <2>4. n # 0
    BY <1>2, <2>3
  <2>5. n - 1 \in Nat /\ n - 1 \notin T
    BY <2>3, <2>4
  <2>6. Works(n - 1) /\ n - 1 + 1 = n
    BY <2>5
  <2>7. Works(n)
    BY <1>3, <2>5, <2>6
  <2>. QED  BY <2>3, <2>7
<1>5. PICK g : \A s \in Small(Cardinality(S)) :
                  g[s] = IF s = {} THEN 0 ELSE f[ch[s]] + g[s \ {ch[s]}]
  BY <1>4 DEF Works
<1>6. \A s \in SUBSET S : s \in Small(Cardinality(S))
  BY FS_Subset
<1>. DEFINE h == [s \in SUBSET S |-> g[s]]
<1>7. IsSum(h, S, f, ch)
  <2>1. \A s \in SUBSET S : h[s] = IF s = {} THEN 0 ELSE f[ch[s]] + h[s \ {ch[s]}]
    BY <1>1, <1>5, <1>6
  <2>2. h = [s \in SUBSET S |-> h[s]]
    OBVIOUS
  <2>. HIDE DEF h
  <2>. QED  BY <2>1, <2>2 DEF IsSum
<1>. QED  BY <1>7

\* It is a natural number: a smallest set with another sum cannot be.
LEMMA SumIsNat ==
    ASSUME NEW S, IsFiniteSet(S), NEW f \in [S -> Nat], NEW ch,
           \A s \in SUBSET S : s # {} => ch[s] \in s, NEW g, IsSum(g, S, f, ch)
    PROVE  g[S] \in Nat
<1>. DEFINE T == {n \in Nat : \E s \in SUBSET S : Cardinality(s) = n /\ g[s] \notin Nat}
<1>0. \A s \in SUBSET S : IsFiniteSet(s) /\ Cardinality(s) \in Nat
  BY FS_Subset, FS_CardinalityType
<1>1. SUFFICES ASSUME g[S] \notin Nat PROVE FALSE
  OBVIOUS
<1>2. T \in SUBSET Nat /\ T # {}
  BY <1>0, <1>1
<1>3. PICK n \in T : \A k \in T : n <= k
  <2>. HIDE DEF T
  <2>. QED  BY <1>2, LeastOf
<1>4. PICK s \in SUBSET S : Cardinality(s) = n /\ g[s] \notin Nat
  BY <1>3
<1>5. g[s] = IF s = {} THEN 0 ELSE f[ch[s]] + g[s \ {ch[s]}]
  BY DEF IsSum
<1>6. s # {}
  BY <1>4, <1>5
<1>7. ch[s] \in s /\ f[ch[s]] \in Nat
  BY <1>6
<1>8. Cardinality(s \ {ch[s]}) = n - 1
  BY <1>0, <1>4, <1>7, FS_RemoveElement
<1>9. n - 1 \in Nat /\ n - 1 \notin T
  BY <1>0, <1>3, <1>8
<1>10. g[s \ {ch[s]}] \in Nat
  BY <1>8, <1>9
<1>. QED  BY <1>4, <1>5, <1>6, <1>7, <1>10

===============================================================================
