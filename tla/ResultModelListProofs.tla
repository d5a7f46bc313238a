------------------------- MODULE ResultModelListProofs -------------------------
(***************************************************************************)
(* What the lists of a result model show, for every set of activities and  *)
(* resources, every limit and every page size: first a list of linked      *)
(* resources that is read at once, then a list of the used resources of    *)
(* the current activity.                                                   *)
(***************************************************************************)
EXTENDS ResultModelProofs

(***************************************************************************)
(* A list of linked resources that is read at once: it shows no resource   *)
(* twice, keeps the order of the user, and shows what is linked as soon as *)
(* every announcement is processed.  The inductive invariant.              *)
(***************************************************************************)
NamesOf(rows) == [p \in DOMAIN rows |-> rows[p].resource]

AllShownLinked(rows) == \A p \in 1 .. Len(rows) : rows[p].data.link # NotLinked

\* The list, with the user's order in use.
Tidy(rows, order) == /\ Distinct(NamesOf(rows))
                     /\ IsArranged(NamesOf(rows), order)
                     /\ AllShownLinked(rows)

OrdersDistinct == Distinct(fixed) /\ \A t \in DOMAIN config : Distinct(config[t])

AtOnceInv == ReadAtOnce => Tidy(items, fixed) /\ OrdersDistinct /\ ~timer /\ ~hasMore

About(m, a, r) == /\ m.kind \in {"ResourceLinked", "ResourceUnlinked"}
                  /\ m.activity = a /\ m.resource = r

\* No announcement about the link of r to a waits.
NoneWaits(signals, a, r) == \A k \in DOMAIN signals : ~About(signals[k], a, r)

\* The last announcement about a link says whether there is one.
LastSaysSo ==
    \A a \in Activity, r \in Resource : \A k \in DOMAIN bus :
        /\ About(bus[k], a, r)
        /\ \A j \in DOMAIN bus : j > k => ~About(bus[j], a, r)
        => (bus[k].kind = "ResourceLinked" <=> r \in links[a])

\* What is shown is right, or an announcement that corrects it waits.
ShownOrAnnounced ==
    ReadAtOnce /\ query.activities = "current" =>
        \A r \in Resource : NoneWaits(bus, current, r) => (r \in ShownResources <=> r \in links[current])

LinkedInv == IInv /\ AtOnceInv /\ LastSaysSo /\ ShownOrAnnounced

-------------------------------------------------------------------------------
(***************************************************************************)
(* The resources of the rows.                                              *)
(***************************************************************************)
\* They are a list as long as that of the rows.
LEMMA NamesTyped ==
    ASSUME NEW rows \in Seq(Item)
    PROVE  /\ NamesOf(rows) \in Seq(Resource) /\ Len(NamesOf(rows)) = Len(rows)
           /\ DOMAIN NamesOf(rows) = 1 .. Len(rows)
           /\ \A p \in 1 .. Len(rows) : NamesOf(rows)[p] = rows[p].resource
           /\ Listed(NamesOf(rows)) = {rows[p].resource : p \in 1 .. Len(rows)}
<1>1. \A p \in 1 .. Len(rows) : rows[p] \in Item
  OBVIOUS
<1>2. \A x \in Item : x.resource \in Resource
  BY DEF Item
<1>3. /\ NamesOf(rows) \in [1 .. Len(rows) -> Resource]
      /\ \A p \in 1 .. Len(rows) : NamesOf(rows)[p] = rows[p].resource
  BY <1>1, <1>2 DEF NamesOf
<1>4. NamesOf(rows) \in Seq(Resource) /\ Len(NamesOf(rows)) = Len(rows)
  BY <1>3
<1>5. DOMAIN NamesOf(rows) = 1 .. Len(rows)
  BY DEF NamesOf
<1>6. Listed(NamesOf(rows)) = {rows[p].resource : p \in 1 .. Len(rows)}
  BY <1>3, <1>5 DEF Listed
<1>. QED  BY <1>3, <1>4, <1>5, <1>6

\* A list without duplicates is not longer than the set of resources.
LEMMA FewNames ==
    ASSUME NEW list \in Seq(Resource), Distinct(list)
    PROVE  Len(list) <= Cardinality(Resource)
<1>. DEFINE n == Len(list)
            f == [k \in 1 .. n |-> list[k]]
<1>1. n \in Nat
  OBVIOUS
<1>2. f \in [1 .. n -> Resource] /\ \A j, k \in 1 .. n : f[j] = f[k] => j = k
  BY DEF Distinct
<1>. HIDE DEF f, n
<1>3. f \in Injection(1 .. n, Resource)
  BY <1>2 DEF Injection, IsInjective
<1>4. IsFiniteSet(Resource)
  BY StoreAssumption
<1>5. Cardinality(1 .. n) <= Cardinality(Resource)
  BY <1>3, <1>4, FS_Injection
<1>6. Cardinality(1 .. n) = n
  <2>1. 1 \in Int /\ n \in Int
    BY <1>1
  <2>2. Cardinality(1 .. n) = IF 1 > n THEN 0 ELSE n - 1 + 1
    BY <2>1, FS_Interval
  <2>. QED  BY <1>1, <2>2
<1>. QED  BY <1>5, <1>6 DEF n

\* A row put in is its resource put in.
LEMMA NamesInserted ==
    ASSUME NEW rows \in Seq(Item), NEW q \in 0 .. Len(rows), NEW x \in Item
    PROVE  /\ RowsInserted(rows, q, <<x>>) \in Seq(Item)
           /\ NamesOf(RowsInserted(rows, q, <<x>>)) = RowsInserted(NamesOf(rows), q, <<x.resource>>)
           /\ \A p \in 1 .. Len(rows) + 1 :
                 RowsInserted(rows, q, <<x>>)[p] = x
                 \/ \E k \in 1 .. Len(rows) : RowsInserted(rows, q, <<x>>)[p] = rows[k]
<1>. DEFINE list == NamesOf(rows)
            t == RowsInserted(rows, q, <<x>>)
            u == RowsInserted(list, q, <<x.resource>>)
            n == Len(rows)
<1>0. n \in Nat /\ q \in 0 .. n
  OBVIOUS
<1>1. /\ list \in Seq(Resource) /\ Len(list) = n
      /\ \A p \in 1 .. n : list[p] = rows[p].resource
  BY NamesTyped
<1>2. x.resource \in Resource
  BY DEF Item
<1>. HIDE DEF list
<1>3. /\ t \in Seq(Item) /\ Len(t) = n + 1
      /\ \A p \in 1 .. n + 1 : t[p] = IF p <= q THEN rows[p] ELSE IF p = q + 1 THEN x ELSE rows[p - 1]
  BY <1>0, OneInserted
<1>4. /\ u \in Seq(Resource) /\ Len(u) = n + 1
      /\ \A p \in 1 .. n + 1 : u[p] = IF p <= q THEN list[p] ELSE IF p = q + 1 THEN x.resource ELSE list[p - 1]
  BY <1>0, <1>1, <1>2, OneInserted
<1>. HIDE DEF t, u, n
<1>5. \A p \in 1 .. n + 1 : t[p].resource = u[p]
  <2>1. SUFFICES ASSUME NEW p \in 1 .. n + 1 PROVE t[p].resource = u[p]
    OBVIOUS
  <2>2. CASE p <= q
    <3>1. p \in 1 .. n
      BY <1>0, <2>2
    <3>. QED  BY <1>1, <1>3, <1>4, <2>2, <3>1
  <2>3. CASE p = q + 1
    BY <1>0, <1>1, <1>3, <1>4, <2>3
  <2>4. CASE p > q + 1
    <3>1. p - 1 \in 1 .. n
      BY <1>0, <2>4
    <3>. QED  BY <1>0, <1>1, <1>3, <1>4, <2>4, <3>1
  <2>. QED  BY <1>0, <2>2, <2>3, <2>4
<1>6. NamesOf(t) = u
  <2>1. /\ NamesOf(t) \in Seq(Resource) /\ Len(NamesOf(t)) = n + 1
        /\ \A p \in 1 .. n + 1 : NamesOf(t)[p] = t[p].resource
    BY <1>3, NamesTyped
  <2>2. \A p \in 1 .. Len(NamesOf(t)) : NamesOf(t)[p] = u[p]
    BY <1>5, <2>1
  <2>. QED  BY <1>4, <2>1, <2>2, SameRows
<1>7. ASSUME NEW p \in 1 .. n + 1
      PROVE  t[p] = x \/ \E k \in 1 .. n : t[p] = rows[k]
  <2>1. CASE p <= q
    <3>1. p \in 1 .. n
      BY <1>0, <2>1
    <3>. QED  BY <1>3, <2>1, <3>1
  <2>2. CASE p = q + 1
    BY <1>0, <1>3, <2>2
  <2>3. CASE p > q + 1
    <3>1. p - 1 \in 1 .. n
      BY <1>0, <2>3
    <3>. QED  BY <1>0, <1>3, <2>3, <3>1
  <2>. QED  BY <1>0, <2>1, <2>2, <2>3
<1>. QED  BY <1>3, <1>6, <1>7 DEF t, u, n, list

\* A row moved is its resource moved.
LEMMA NamesMoved ==
    ASSUME NEW rows \in Seq(Item), NEW row \in Rows(rows), NEW dest \in Rows(rows)
    PROVE  /\ MoveOne(rows, row, dest) \in Seq(Item)
           /\ Len(MoveOne(rows, row, dest)) = Len(rows)
           /\ NamesOf(MoveOne(rows, row, dest)) = MoveOne(NamesOf(rows), row, dest)
<1>. DEFINE list == NamesOf(rows)
            t == MoveOne(rows, row, dest)
            u == MoveOne(list, row, dest)
            n == Len(rows)
<1>0. n \in Nat /\ row \in 0 .. n - 1 /\ dest \in 0 .. n - 1
  BY DEF Rows
<1>1. /\ list \in Seq(Resource) /\ Len(list) = n
      /\ \A p \in 1 .. n : list[p] = rows[p].resource
  BY NamesTyped
<1>. HIDE DEF list
<1>2. row \in Rows(list) /\ dest \in Rows(list)
  BY <1>0, <1>1 DEF Rows
<1>3. /\ t \in Seq(Item) /\ Len(t) = n
      /\ \A k \in 1 .. n : t[k] = IF k = dest + 1 THEN rows[row + 1]
                                  ELSE IF row < k /\ k <= dest THEN rows[k + 1]
                                  ELSE IF dest + 1 < k /\ k <= row + 1 THEN rows[k - 1]
                                  ELSE rows[k]
  BY MovedRowAt
<1>4. /\ u \in Seq(Resource) /\ Len(u) = n
      /\ \A k \in 1 .. n : u[k] = IF k = dest + 1 THEN list[row + 1]
                                  ELSE IF row < k /\ k <= dest THEN list[k + 1]
                                  ELSE IF dest + 1 < k /\ k <= row + 1 THEN list[k - 1]
                                  ELSE list[k]
  BY <1>1, <1>2, MovedRowAt
<1>. HIDE DEF t, u, n
<1>5. \A k \in 1 .. n : t[k].resource = u[k]
  <2>1. SUFFICES ASSUME NEW k \in 1 .. n PROVE t[k].resource = u[k]
    OBVIOUS
  <2>2. CASE k = dest + 1
    <3>1. row + 1 \in 1 .. n
      BY <1>0
    <3>. QED  BY <1>1, <1>3, <1>4, <2>2, <3>1
  <2>3. CASE k # dest + 1 /\ row < k /\ k <= dest
    <3>1. k + 1 \in 1 .. n
      BY <1>0, <2>3
    <3>. QED  BY <1>1, <1>3, <1>4, <2>3, <3>1
  <2>4. CASE ~(row < k /\ k <= dest) /\ dest + 1 < k /\ k <= row + 1
    <3>1. k - 1 \in 1 .. n /\ k # dest + 1
      BY <1>0, <2>4
    <3>. QED  BY <1>1, <1>3, <1>4, <2>4, <3>1
  <2>5. CASE k # dest + 1 /\ ~(row < k /\ k <= dest) /\ ~(dest + 1 < k /\ k <= row + 1)
    BY <1>1, <1>3, <1>4, <2>5
  <2>. QED  BY <2>2, <2>3, <2>4, <2>5
<1>6. NamesOf(t) = u
  <2>1. /\ NamesOf(t) \in Seq(Resource) /\ Len(NamesOf(t)) = n
        /\ \A p \in 1 .. n : NamesOf(t)[p] = t[p].resource
    BY <1>3, NamesTyped
  <2>2. \A p \in 1 .. Len(NamesOf(t)) : NamesOf(t)[p] = u[p]
    BY <1>5, <2>1
  <2>. QED  BY <1>4, <2>1, <2>2, SameRows
<1>. QED  BY <1>3, <1>6 DEF t, u, n, list

\* A row removed is its resource removed.
LEMMA NamesRemoved ==
    ASSUME NEW rows \in Seq(Item), NEW row \in Rows(rows)
    PROVE  /\ RowsRemoved(rows, row, row) \in Seq(Item)
           /\ NamesOf(RowsRemoved(rows, row, row)) = RowsRemoved(NamesOf(rows), row, row)
           /\ Len(RowsRemoved(rows, row, row)) = Len(rows) - 1
           /\ \A p \in 1 .. Len(rows) - 1 :
                 RowsRemoved(rows, row, row)[p] = IF p <= row THEN rows[p] ELSE rows[p + 1]
<1>. DEFINE list == NamesOf(rows)
            t == RowsRemoved(rows, row, row)
            u == RowsRemoved(list, row, row)
            n == Len(rows)
<1>0. n \in Nat /\ row \in 0 .. n - 1
  BY DEF Rows
<1>1. /\ list \in Seq(Resource) /\ Len(list) = n
      /\ \A p \in 1 .. n : list[p] = rows[p].resource
  BY NamesTyped
<1>. HIDE DEF list
<1>2. /\ t \in Seq(Item) /\ Len(t) = n - 1
      /\ \A p \in 1 .. n - 1 : t[p] = IF p <= row THEN rows[p] ELSE rows[p + 1]
  <2>1. /\ row \in 0 .. Len(rows) /\ row \in Int /\ row - 1 <= row /\ row < Len(rows)
        /\ row - row + 1 = 1
    BY <1>0
  <2>2. /\ t \in Seq(Item) /\ Len(t) = Len(rows) - (row - row + 1)
        /\ \A p \in 1 .. Len(rows) - (row - row + 1) :
              t[p] = IF p <= row THEN rows[p] ELSE rows[p + (row - row + 1)]
    BY <2>1, RemovedRows
  <2>. QED  BY <2>1, <2>2
<1>3. /\ u \in Seq(Resource) /\ Len(u) = n - 1
      /\ \A p \in 1 .. n - 1 : u[p] = IF p <= row THEN list[p] ELSE list[p + 1]
  <2>1. /\ row \in 0 .. Len(list) /\ row \in Int /\ row - 1 <= row /\ row < Len(list)
        /\ row - row + 1 = 1
    BY <1>0, <1>1
  <2>2. /\ u \in Seq(Resource) /\ Len(u) = Len(list) - (row - row + 1)
        /\ \A p \in 1 .. Len(list) - (row - row + 1) :
              u[p] = IF p <= row THEN list[p] ELSE list[p + (row - row + 1)]
    BY <1>1, <2>1, RemovedRows
  <2>. QED  BY <1>1, <2>1, <2>2
<1>. HIDE DEF t, u, n
<1>4. \A p \in 1 .. n - 1 : t[p].resource = u[p]
  <2>1. \A p \in 1 .. n - 1 : p \in 1 .. n /\ p + 1 \in 1 .. n
    BY <1>0
  <2>. QED  BY <1>1, <1>2, <1>3, <2>1
<1>5. NamesOf(t) = u
  <2>1. /\ NamesOf(t) \in Seq(Resource) /\ Len(NamesOf(t)) = n - 1
        /\ \A p \in 1 .. n - 1 : NamesOf(t)[p] = t[p].resource
    BY <1>2, NamesTyped
  <2>2. \A p \in 1 .. Len(NamesOf(t)) : NamesOf(t)[p] = u[p]
    BY <1>4, <2>1
  <2>. QED  BY <1>3, <2>1, <2>2, SameRows
<1>. QED  BY <1>2, <1>5 DEF t, u, n, list

-------------------------------------------------------------------------------
(***************************************************************************)
(* What a list names after an edit.                                        *)
(***************************************************************************)
\* An element put in.
LEMMA ListedInserted ==
    ASSUME NEW S, NEW list \in Seq(S), NEW q \in 0 .. Len(list), NEW r \in S
    PROVE  Listed(RowsInserted(list, q, <<r>>)) = Listed(list) \cup {r}
<1>. DEFINE t == RowsInserted(list, q, <<r>>)
            n == Len(list)
<1>1. n \in Nat /\ q \in 0 .. n /\ DOMAIN list = 1 .. n
  OBVIOUS
<1>2. /\ DOMAIN t = 1 .. n + 1
      /\ \A p \in 1 .. n + 1 : t[p] = IF p <= q THEN list[p] ELSE IF p = q + 1 THEN r ELSE list[p - 1]
  BY OneInserted
<1>. HIDE DEF t, n
<1>3. ASSUME NEW p \in 1 .. n + 1
      PROVE  t[p] = r \/ \E k \in 1 .. n : t[p] = list[k]
  <2>1. CASE p <= q
    <3>1. p \in 1 .. n
      BY <1>1, <2>1
    <3>. QED  BY <1>2, <2>1, <3>1
  <2>2. CASE p = q + 1
    <3>1. ~(p <= q)
      BY <1>1, <2>2
    <3>. QED  BY <1>2, <2>2, <3>1
  <2>3. CASE p > q + 1
    <3>1. p - 1 \in 1 .. n /\ ~(p <= q) /\ p # q + 1
      BY <1>1, <2>3
    <3>. QED  BY <1>2, <3>1
  <2>. QED  BY <1>1, <2>1, <2>2, <2>3
<1>4. \E p \in 1 .. n + 1 : t[p] = r
  <2>1. q + 1 \in 1 .. n + 1 /\ ~(q + 1 <= q)
    BY <1>1
  <2>. QED  BY <1>2, <2>1
<1>5. ASSUME NEW k \in 1 .. n
      PROVE  \E p \in 1 .. n + 1 : t[p] = list[k]
  <2>1. CASE k <= q
    <3>1. k \in 1 .. n + 1
      BY <1>1
    <3>. QED  BY <1>2, <2>1, <3>1
  <2>2. CASE k > q
    <3>1. k + 1 \in 1 .. n + 1 /\ ~(k + 1 <= q) /\ k + 1 # q + 1 /\ k + 1 - 1 = k
      BY <1>1, <2>2
    <3>. QED  BY <1>2, <3>1
  <2>. QED  BY <1>1, <2>1, <2>2
<1>6. Listed(list) = {list[k] : k \in 1 .. n} /\ Listed(t) = {t[p] : p \in 1 .. n + 1}
  BY <1>1, <1>2 DEF Listed
<1>. QED  BY <1>3, <1>4, <1>5, <1>6 DEF t

\* An element moved.
LEMMA ListedMoved ==
    ASSUME NEW S, NEW list \in Seq(S), NEW row \in Rows(list), NEW dest \in Rows(list)
    PROVE  Listed(MoveOne(list, row, dest)) = Listed(list)
<1>. DEFINE t == MoveOne(list, row, dest)
<1>1. t \in Seq(S) /\ Len(t) = Len(list)
  BY MovedRowAt
<1>2. /\ \A k \in 1 .. Len(list) : \E j \in 1 .. Len(list) : t[k] = list[j]
      /\ \A j \in 1 .. Len(list) : \E k \in 1 .. Len(list) : t[k] = list[j]
  BY MovedRowsDiffer
<1>. HIDE DEF t
<1>3. /\ Listed(list) = {list[k] : k \in 1 .. Len(list)}
      /\ Listed(t) = {t[k] : k \in 1 .. Len(list)}
  BY <1>1 DEF Listed
<1>. QED  BY <1>2, <1>3 DEF t

\* An element removed from a list that has it once.
LEMMA ListedRemoved ==
    ASSUME NEW S, NEW list \in Seq(S), Distinct(list), NEW row \in Rows(list)
    PROVE  Listed(RowsRemoved(list, row, row)) = Listed(list) \ {list[row + 1]}
<1>. DEFINE t == RowsRemoved(list, row, row)
            n == Len(list)
            p0 == row + 1
<1>1. n \in Nat /\ row \in 0 .. n - 1 /\ p0 \in 1 .. n /\ DOMAIN list = 1 .. n /\ row = p0 - 1
  BY DEF Rows
<1>2. /\ DOMAIN t = 1 .. n - 1
      /\ \A p \in 1 .. n - 1 : t[p] = IF p <= row THEN list[p] ELSE list[p + 1]
  <2>1. /\ row \in 0 .. Len(list) /\ row \in Int /\ row - 1 <= row /\ row < Len(list)
        /\ row - row + 1 = 1
    BY <1>1
  <2>2. /\ t \in Seq(S) /\ Len(t) = Len(list) - (row - row + 1)
        /\ \A p \in 1 .. Len(list) - (row - row + 1) :
              t[p] = IF p <= row THEN list[p] ELSE list[p + (row - row + 1)]
    BY <2>1, RemovedRows
  <2>. HIDE DEF t
  <2>. QED  BY <2>1, <2>2
<1>3. \A k \in 1 .. n : k # p0 => list[k] # list[p0]
  BY <1>1 DEF Distinct
<1>. HIDE DEF t, n, p0
<1>4. ASSUME NEW p \in 1 .. n - 1
      PROVE  \E k \in 1 .. n : k # p0 /\ t[p] = list[k]
  <2>1. CASE p <= row
    <3>1. p \in 1 .. n /\ p # p0
      BY <1>1, <2>1
    <3>. QED  BY <1>2, <2>1, <3>1
  <2>2. CASE ~(p <= row)
    <3>1. p + 1 \in 1 .. n /\ p + 1 # p0
      BY <1>1, <2>2
    <3>. QED  BY <1>2, <2>2, <3>1
  <2>. QED  BY <2>1, <2>2
<1>5. ASSUME NEW k \in 1 .. n, k # p0
      PROVE  \E p \in 1 .. n - 1 : t[p] = list[k]
  <2>1. CASE k <= row
    <3>1. k \in 1 .. n - 1
      BY <1>1, <2>1
    <3>. QED  BY <1>2, <2>1, <3>1
  <2>2. CASE ~(k <= row)
    <3>1. k - 1 \in 1 .. n - 1 /\ ~(k - 1 <= row) /\ k - 1 + 1 = k
      BY <1>1, <1>5, <2>2
    <3>. QED  BY <1>2, <3>1
  <2>. QED  BY <2>1, <2>2
<1>6. Listed(list) = {list[k] : k \in 1 .. n} /\ Listed(t) = {t[p] : p \in 1 .. n - 1}
  BY <1>1, <1>2 DEF Listed
<1>7. Listed(t) = Listed(list) \ {list[p0]}
  <2>1. ASSUME NEW y \in Listed(t)
        PROVE  y \in Listed(list) \ {list[p0]}
    <3>1. PICK p \in 1 .. n - 1 : y = t[p]
      BY <1>6
    <3>2. PICK k \in 1 .. n : k # p0 /\ t[p] = list[k]
      BY <1>4
    <3>3. list[k] # list[p0] /\ list[k] \in Listed(list)
      BY <1>3, <1>6, <3>2
    <3>. QED  BY <3>1, <3>2, <3>3
  <2>2. ASSUME NEW y \in Listed(list), y # list[p0]
        PROVE  y \in Listed(t)
    <3>1. PICK k \in 1 .. n : y = list[k]
      BY <1>6
    <3>2. PICK p \in 1 .. n - 1 : t[p] = list[k]
      BY <1>5, <2>2, <3>1
    <3>. QED  BY <1>6, <3>1, <3>2
  <2>. QED  BY <2>1, <2>2
<1>. QED  BY <1>7 DEF t, p0

-------------------------------------------------------------------------------
(***************************************************************************)
(* A row that comes, moves or goes leaves the list tidy.                   *)
(***************************************************************************)
\* destinationFor gives one of the places that the order allows.
LEMMA DestinationAllowed ==
    ASSUME NEW rows \in Seq(Item), NEW x \in Item, NEW order \in Seq(Resource),
           \A p \in 1 .. Len(rows) : rows[p].resource = x.resource => rows[p] = x
    PROVE  DestinationFor(rows, x, order) \in Destinations(NamesOf(rows), x.resource, order)
<1>. DEFINE n == Len(rows)
            list == NamesOf(rows)
            r == x.resource
            first == {p \in 1 .. n : PlacedBefore(order, list[p], r)}
            tied == {p \in 1 .. n : /\ list[p] # r /\ ~PlacedBefore(order, list[p], r)
                                    /\ ~PlacedBefore(order, r, list[p])}
            before == {p \in 1 .. n : \/ FixedItemsLessThan(order, rows[p], x)
                                      \/ ~FixedItemsLessThan(order, x, rows[p]) /\ ModelBefore(rows[p], x)}
<1>1. n \in Nat /\ DOMAIN list = 1 .. n /\ \A p \in 1 .. n : list[p] = rows[p].resource
  BY NamesTyped
<1>2. DestinationFor(rows, x, order) = Cardinality(before)
  BY DEF DestinationFor
<1>3. Destinations(list, r, order) = Cardinality(first) .. Cardinality(first) + Cardinality(tied)
  BY <1>1 DEF Destinations
<1>4. ~ModelBefore(x, x)
  <2>1. x.resource \in Nat /\ x.data.score \in Nat /\ x.data.link \in Nat
    <3>1. x.resource \in Resource /\ x.data.link \in LinkStatus /\ x.data.score \in Nat
      BY DEF Item
    <3>2. x.resource \in Nat
      BY <3>1, StoreAssumption
    <3>3. x.data.link \in Nat
      BY <3>1 DEF LinkStatus, NotLinked, Unknown, Linked
    <3>. QED  BY <3>1, <3>2, <3>3
  <2>. QED  BY <2>1 DEF ModelBefore
<1>5. first \subseteq before
  BY <1>1 DEF FixedItemsLessThan
<1>6. before \subseteq first \cup tied
  <2>1. SUFFICES ASSUME NEW p \in 1 .. n, ~PlacedBefore(order, list[p], r), p \in before
                 PROVE  p \in tied
    OBVIOUS
  <2>2. ~PlacedBefore(order, r, list[p]) /\ ModelBefore(rows[p], x)
    BY <1>1, <2>1 DEF FixedItemsLessThan
  <2>3. list[p] # r
    BY <1>1, <1>4, <2>2
  <2>. QED  BY <2>1, <2>2, <2>3
<1>7. first \subseteq 1 .. n /\ tied \subseteq 1 .. n
  OBVIOUS
<1>8. IsFiniteSet(1 .. n)
  <2>1. 1 \in Int /\ n \in Int
    BY <1>1
  <2>. HIDE DEF n
  <2>. QED  BY <2>1, FS_Interval
<1>. HIDE DEF n, list, r, first, tied, before
<1>9. IsFiniteSet(first) /\ IsFiniteSet(tied)
  BY <1>7, <1>8, FS_Subset
<1>10. /\ IsFiniteSet(first \cup tied)
       /\ Cardinality(first \cup tied) = Cardinality(first) + Cardinality(tied) - Cardinality(first \cap tied)
  BY <1>9, FS_Union
<1>11. IsFiniteSet(before) /\ Cardinality(before) <= Cardinality(first \cup tied)
  BY <1>6, <1>10, FS_Subset
<1>12. Cardinality(first) <= Cardinality(before)
  BY <1>5, <1>11, FS_Subset
<1>13. IsFiniteSet(first \cap tied)
  BY <1>9, FS_Intersection
<1>14. /\ Cardinality(first) \in Nat /\ Cardinality(tied) \in Nat /\ Cardinality(before) \in Nat
       /\ Cardinality(first \cap tied) \in Nat /\ Cardinality(first \cup tied) \in Nat
  BY <1>9, <1>10, <1>11, <1>13, FS_CardinalityType
<1>15. Cardinality(before) \in Cardinality(first) .. Cardinality(first) + Cardinality(tied)
  BY <1>10, <1>11, <1>12, <1>14
<1>. QED  BY <1>2, <1>3, <1>15 DEF n, list, r

\* A resource that is shown has the only row with its name.
LEMMA OnlyRow ==
    ASSUME NEW rows \in Seq(Item), Distinct(NamesOf(rows)),
           NEW j \in 1 .. Len(rows), NEW k \in 1 .. Len(rows), rows[j].resource = rows[k].resource
    PROVE  j = k
BY NamesTyped DEF Distinct

\* A new row.
LEMMA InsertTidy ==
    ASSUME NEW rows \in Seq(Item), NEW order \in Seq(Resource), Tidy(rows, order),
           NEW x \in Item, x.data.link # NotLinked, x.resource \notin Listed(NamesOf(rows)),
           NEW t, t = RowsInserted(rows, DestinationFor(rows, x, order), <<x>>)
    PROVE  /\ t \in Seq(Item) /\ Tidy(t, order)
           /\ Len(t) <= Cardinality(Resource)
           /\ Listed(NamesOf(t)) = Listed(NamesOf(rows)) \cup {x.resource}
<1>. DEFINE q == DestinationFor(rows, x, order)
            list == NamesOf(rows)
            r == x.resource
<1>1. list \in Seq(Resource) /\ Len(list) = Len(rows) /\ DOMAIN list = 1 .. Len(rows)
      /\ \A p \in 1 .. Len(rows) : list[p] = rows[p].resource
  BY NamesTyped
<1>2. r \in Resource /\ r \notin Listed(list)
  BY DEF Item
<1>3. q \in Destinations(list, r, order)
  <2>1. \A p \in 1 .. Len(rows) : rows[p].resource = r => rows[p] = x
    BY <1>1, <1>2 DEF Listed
  <2>. QED  BY <2>1, DestinationAllowed
<1>4. q \in 0 .. Len(rows)
  BY DestinationInside
<1>5. t = RowsInserted(rows, q, <<x>>)
  OBVIOUS
<1>6. IsArranged(list, order) /\ Distinct(list)
  BY DEF Tidy
<1>. HIDE DEF q
<1>7. /\ t \in Seq(Item)
      /\ NamesOf(t) = RowsInserted(list, q, <<r>>)
      /\ \A p \in 1 .. Len(rows) + 1 : t[p] = x \/ \E k \in 1 .. Len(rows) : t[p] = rows[k]
  <2>. HIDE DEF list, r
  <2>1. /\ RowsInserted(rows, q, <<x>>) \in Seq(Item)
        /\ NamesOf(RowsInserted(rows, q, <<x>>)) = RowsInserted(NamesOf(rows), q, <<x.resource>>)
        /\ \A p \in 1 .. Len(rows) + 1 :
              RowsInserted(rows, q, <<x>>)[p] = x
              \/ \E k \in 1 .. Len(rows) : RowsInserted(rows, q, <<x>>)[p] = rows[k]
    BY ONLY rows \in Seq(Item), x \in Item, <1>4, NamesInserted
  <2>. QED  BY ONLY <1>5, <2>1 DEF list, r
<1>8. /\ RowsInserted(list, q, <<r>>) \in Seq(Resource)
      /\ Distinct(RowsInserted(list, q, <<r>>)) /\ IsArranged(RowsInserted(list, q, <<r>>), order)
  <2>. HIDE DEF list, r
  <2>. QED  BY ONLY order \in Seq(Resource), <1>1, <1>2, <1>3, <1>6, InsertArranged
<1>. HIDE DEF list, r
<1>9. q \in 0 .. Len(list)
  BY <1>1, <1>4
<1>10. Len(RowsInserted(list, q, <<r>>)) = Len(list) + 1
  BY ONLY <1>1, <1>2, <1>9, OneInserted
<1>11. Len(t) = Len(rows) + 1 /\ Len(t) <= Cardinality(Resource)
  <2>1. Len(RowsInserted(list, q, <<r>>)) <= Cardinality(Resource)
    BY <1>8, FewNames
  <2>2. Len(NamesOf(t)) = Len(t)
    BY ONLY <1>7, NamesTyped
  <2>. QED  BY ONLY <1>1, <1>7, <1>10, <2>1, <2>2
<1>12. Listed(NamesOf(t)) = Listed(list) \cup {r}
  <2>1. Listed(RowsInserted(list, q, <<r>>)) = Listed(list) \cup {r}
    BY ONLY <1>1, <1>2, <1>9, ListedInserted
  <2>. QED  BY <1>7, <2>1
<1>13. AllShownLinked(t)
  <2>1. \A p \in 1 .. Len(rows) : rows[p].data.link # NotLinked
    BY DEF Tidy, AllShownLinked
  <2>. QED  BY <1>1, <1>7, <1>11, <2>1 DEF AllShownLinked
<1>. QED  BY <1>7, <1>8, <1>11, <1>12, <1>13 DEF Tidy, list, r

\* A row that is moved to where the order has it, with new data or without.
LEMMA MoveTidy ==
    ASSUME NEW rows \in Seq(Item), NEW order \in Seq(Resource), NEW row \in Rows(rows),
           Distinct(NamesOf(rows)), AllShownLinked(rows),
           NEW t, t = MoveOne(rows, row, DestinationFor(rows, rows[row + 1], order))
    PROVE  /\ t \in Seq(Item) /\ Distinct(NamesOf(t)) /\ AllShownLinked(t)
           /\ Listed(NamesOf(t)) = Listed(NamesOf(rows))
           /\ row + 1 \in DOMAIN NamesOf(rows)
           /\ \E q \in Destinations(NamesOf(rows), NamesOf(rows)[row + 1], order) :
                 q \in Rows(NamesOf(rows)) /\ NamesOf(t) = MoveOne(NamesOf(rows), row, q)
<1>. DEFINE x == rows[row + 1]
            q == DestinationFor(rows, x, order)
            list == NamesOf(rows)
<1>1. list \in Seq(Resource) /\ Len(list) = Len(rows) /\ DOMAIN list = 1 .. Len(rows)
      /\ \A p \in 1 .. Len(rows) : list[p] = rows[p].resource
  BY NamesTyped
<1>2. row + 1 \in 1 .. Len(rows) /\ x \in Item
  BY DEF Rows
<1>3. q \in Destinations(list, x.resource, order)
  <2>1. \A p \in 1 .. Len(rows) : rows[p].resource = x.resource => rows[p] = x
    BY <1>2, OnlyRow
  <2>. QED  BY <1>2, <2>1, DestinationAllowed
<1>4. q \in Rows(rows)
  BY <1>2, DestinationInside
<1>5. t = MoveOne(rows, row, q)
  OBVIOUS
<1>6. list[row + 1] = x.resource
  BY <1>1, <1>2
<1>. HIDE DEF q
<1>7. t \in Seq(Item) /\ Len(t) = Len(rows) /\ NamesOf(t) = MoveOne(list, row, q)
  <2>. HIDE DEF list
  <2>1. /\ MoveOne(rows, row, q) \in Seq(Item)
        /\ Len(MoveOne(rows, row, q)) = Len(rows)
        /\ NamesOf(MoveOne(rows, row, q)) = MoveOne(NamesOf(rows), row, q)
    BY ONLY rows \in Seq(Item), row \in Rows(rows), <1>4, NamesMoved
  <2>. QED  BY ONLY <1>5, <2>1 DEF list
<1>8. \A k \in 1 .. Len(rows) : \E j \in 1 .. Len(rows) : t[k] = rows[j]
  <2>1. \A k \in 1 .. Len(rows) : \E j \in 1 .. Len(rows) : MoveOne(rows, row, q)[k] = rows[j]
    BY ONLY rows \in Seq(Item), row \in Rows(rows), <1>4, MovedRowsDiffer
  <2>. QED  BY ONLY <1>5, <2>1
<1>9. AllShownLinked(t)
  BY ONLY AllShownLinked(rows), <1>7, <1>8 DEF AllShownLinked
<1>10. Distinct(list) /\ row \in Rows(list) /\ q \in Rows(list)
  BY <1>1, <1>4 DEF Rows
<1>. HIDE DEF list, x
<1>11. Distinct(MoveOne(list, row, q))
  BY ONLY <1>1, <1>10, MovedRowsDiffer
<1>13. Listed(NamesOf(t)) = Listed(list)
  <2>1. Listed(MoveOne(list, row, q)) = Listed(list)
    BY ONLY <1>1, <1>10, ListedMoved
  <2>. QED  BY <1>7, <2>1
<1>. QED  BY <1>1, <1>2, <1>3, <1>6, <1>7, <1>9, <1>10, <1>11, <1>13 DEF list

\* A row that is removed.
LEMMA RemoveTidy ==
    ASSUME NEW rows \in Seq(Item), NEW order \in Seq(Resource), Tidy(rows, order),
           NEW row \in Rows(rows), NEW t, t = RowsRemoved(rows, row, row)
    PROVE  /\ t \in Seq(Item) /\ Tidy(t, order)
           /\ Listed(NamesOf(t)) = Listed(NamesOf(rows)) \ {rows[row + 1].resource}
<1>. DEFINE list == NamesOf(rows)
            p0 == row + 1
            n == Len(rows)
<1>1. list \in Seq(Resource) /\ Len(list) = n /\ DOMAIN list = 1 .. n
      /\ \A p \in 1 .. n : list[p] = rows[p].resource
  BY NamesTyped
<1>2. p0 \in 1 .. n /\ row = p0 - 1 /\ n \in Nat
  BY DEF Rows
<1>3. IsArranged(list, order) /\ Distinct(list)
  BY DEF Tidy
<1>4. /\ t \in Seq(Item) /\ NamesOf(t) = RowsRemoved(list, row, row) /\ Len(t) = n - 1
      /\ \A p \in 1 .. n - 1 : t[p] = IF p <= row THEN rows[p] ELSE rows[p + 1]
  BY NamesRemoved
<1>. HIDE DEF list, p0, n
<1>5. Distinct(NamesOf(t)) /\ IsArranged(NamesOf(t), order)
  BY <1>1, <1>2, <1>3, <1>4, RemoveArranged
<1>6. \A p \in 1 .. n - 1 : p \in 1 .. n /\ p + 1 \in 1 .. n
  BY <1>2
<1>7. AllShownLinked(t)
  <2>1. \A p \in 1 .. n : rows[p].data.link # NotLinked
    BY DEF Tidy, AllShownLinked, n
  <2>. QED  BY <1>4, <1>6, <2>1 DEF AllShownLinked
<1>8. row \in Rows(list) /\ list[row + 1] = rows[row + 1].resource
  BY <1>1, <1>2 DEF Rows, n
<1>12. Listed(NamesOf(t)) = Listed(list) \ {rows[row + 1].resource}
  <2>1. Listed(RowsRemoved(list, row, row)) = Listed(list) \ {list[row + 1]}
    BY ONLY <1>1, <1>3, <1>8, ListedRemoved
  <2>. QED  BY <1>4, <1>8, <2>1
<1>. QED  BY <1>4, <1>5, <1>7, <1>12 DEF Tidy, list

-------------------------------------------------------------------------------
(***************************************************************************)
(* A reset reads the whole list.                                           *)
(***************************************************************************)
\* A list that is read at once: the page is the result.
LEMMA WholePage ==
    ASSUME ReadAtOnce, NEW result \in Seq(Item), Len(result) <= Cardinality(Resource), Limit \in Nat
    PROVE  /\ Len(Page(result, 0, Limit)) = Len(result)
           /\ \A p \in 1 .. Len(result) : Page(result, 0, Limit)[p] = result[p]
<1>1. Cardinality(Resource) \in Nat /\ Cardinality(Resource) <= Limit /\ Limit \in Nat
  BY StoreAssumption, FS_CardinalityType DEF ReadAtOnce
<1>. DEFINE n == Limit
            page == Page(result, 0, n)
            m == Len(result)
<1>2. m \in Nat /\ n \in Nat /\ m <= n
  BY <1>1
<1>. HIDE DEF n
<1>3. /\ Len(page) = IF 0 >= Len(result) THEN 0 ELSE Lesser(n, Len(result) - 0)
      /\ \A p \in 1 .. Len(page) : page[p] = result[0 + p]
  <2>1. 0 \in Nat /\ n \in Nat /\ result \in Seq(Item)
    BY <1>2
  <2>. QED  BY ONLY <2>1, PageOfResult
<1>. HIDE DEF page, m
<1>4. Len(page) = m
  <2>1. Len(page) = IF 0 >= m THEN 0 ELSE Lesser(n, m - 0)
    BY <1>3 DEF m
  <2>. QED  BY ONLY <1>2, <2>1 DEF Lesser
<1>5. \A p \in 1 .. m : 0 + p = p
  BY <1>2
<1>6. \A p \in 1 .. m : page[p] = result[p]
  BY <1>3, <1>4, <1>5
<1>. QED  BY <1>4, <1>6 DEF page, n, m

\* Rows that are a batch of a result for linked resources.
LEMMA BatchTidy ==
    ASSUME ReadAtOnce, NEW t \in Seq(Item), NEW new, NEW page, NEW order \in Seq(Resource),
           IsBatch(new, page, order), Len(t) = Len(new), \A k \in 1 .. Len(new) : t[k] = new[k],
           \A p \in 1 .. Len(page) : page[p].data.link = Linked
    PROVE  Tidy(t, order)
<1>1. /\ NamesOf(t) \in Seq(Resource) /\ DOMAIN NamesOf(t) = 1 .. Len(new)
      /\ \A k \in 1 .. Len(new) : NamesOf(t)[k] = new[k].resource
  BY NamesTyped
<1>2. Distinct(NamesOf(t))
  BY <1>1 DEF IsBatch, Distinct
<1>3. \A x, y : IndexOf(order, x) \in Int /\ IndexOf(order, y) \in Int
  BY FirstIndex
<1>4. \A j, k \in 1 .. Len(new) : j < k => UserPutsBefore(order, new[j], new[k])
  BY DEF IsBatch, ReadAtOnce
<1>5. ASSUME NEW x, NEW y, UserPutsBefore(order, x, y)
      PROVE  ~PlacedBefore(order, y.resource, x.resource)
  BY <1>3, <1>5 DEF UserPutsBefore, FixedItemsLessThan, PlacedBefore
<1>6. IsArranged(NamesOf(t), order)
  BY <1>1, <1>4, <1>5 DEF IsArranged
<1>7. AllShownLinked(t)
  <2>1. ASSUME NEW k \in 1 .. Len(new)
        PROVE  t[k].data.link # NotLinked
    <3>1. PICK p \in 1 .. Len(page) : new[k] = page[p]
      BY DEF IsBatch
    <3>2. t[k] = page[p] /\ page[p].data.link = Linked
      BY <3>1
    <3>. QED  BY <3>2 DEF NotLinked, Linked
  <2>. QED  BY <2>1 DEF AllShownLinked
<1>. QED  BY <1>2, <1>6, <1>7 DEF Tidy

\* The rows of a result for linked resources.
LEMMA LinkedResult ==
    ASSUME StoreTypeOK, WatcherTypeOK, ReadAtOnce, NEW cur \in Activity, NEW result \in Results(cur)
    PROVE  /\ result \in Seq(Item) /\ Len(result) <= Cardinality(Resource)
           /\ \A k \in 1 .. Len(result) : result[k].data.link = Linked
           /\ {result[k].resource : k \in 1 .. Len(result)} = LinkedTo(QueriedActivities(cur))
           /\ \A j, k \in 1 .. Len(result) : result[j].resource = result[k].resource => j = k
<1>1. /\ result \in Seq(Item)
      /\ \A k \in 1 .. Len(result) : result[k] \in QueriedRows(cur)
      /\ \A x \in QueriedRows(cur) : \E k \in 1 .. Len(result) : result[k] = x
      /\ \A j, k \in 1 .. Len(result) : result[j].resource = result[k].resource => j = k
      /\ Len(result) <= Cardinality(Resource)
  BY ResultLists
<1>2. QueriedActivities(cur) \in SUBSET Activity /\ query.selection \in Selections
  BY QueryTypes
<1>3. query.selection = "LinkedResources"
  BY DEF ReadAtOnce
<1>4. /\ \A x \in QueriedRows(cur) : x.resource \in LinkedTo(QueriedActivities(cur)) /\ x.data.link = Linked
      /\ \A r \in LinkedTo(QueriedActivities(cur)) : \E x \in QueriedRows(cur) : x.resource = r
  BY <1>2, <1>3, RowsOfQuery DEF QueriedRows
<1>5. \A r \in LinkedTo(QueriedActivities(cur)) : \E k \in 1 .. Len(result) : result[k].resource = r
  BY <1>1, <1>4
<1>. QED  BY <1>1, <1>4, <1>5

\* The orders are those of before, and each names a resource once.
LEMMA OrdersStayDistinct ==
    ASSUME OrdersDistinct, NEW tag
    PROVE  /\ Distinct(LoadedOrder(tag))
           /\ \A order : Distinct(order) =>
                 \A t \in DOMAIN SavedOrder(tag, order) : Distinct(SavedOrder(tag, order)[t])
BY DEF OrdersDistinct, LoadedOrder, SavedOrder

\* An empty list is replaced by the batch.
LEMMA FirstBatch ==
    ASSUME NEW none \in Seq(Item), Len(none) = 0, NEW new \in Seq(Item),
           NEW t \in Replacements(none, new, 0)
    PROVE  t \in Seq(Item) /\ Len(t) = Len(new) /\ \A k \in 1 .. Len(new) : t[k] = new[k]
<1>. DEFINE from == 0
<1>1. /\ none \in Seq(Item) /\ new \in Seq(Item) /\ from \in 0 .. Len(none)
      /\ t \in Replacements(none, new, from)
  OBVIOUS
<1>4. Len(new) \in Nat /\ from + Len(new) = Len(new) /\ \A k \in 1 .. Len(new) : from + k = k
  OBVIOUS
<1>5. \A p \in from + 1 .. Len(none) : FALSE
  OBVIOUS
<1>. HIDE DEF from
<1>2. t \in Seq(Item) /\ Len(t) = from + Len(new)
  BY ONLY <1>1, ReplacedRows
<1>3. \A k \in 1 .. Len(new) :
         t[from + k] = new[k] \/ \E p \in from + 1 .. Len(none) : t[from + k] = none[p]
  BY ONLY <1>1, ReplacedRows
<1>. QED  BY ONLY <1>2, <1>3, <1>4, <1>5

\* fetchReset lists what is linked.
LEMMA ResetTidy ==
    ASSUME StoreTypeOK, WatcherTypeOK, OrdersTyped, OrdersDistinct, ReadAtOnce,
           NEW cur \in Activity, FetchReset(cur)
    PROVE  /\ Tidy(items', fixed') /\ OrdersDistinct' /\ ~hasMore'
           /\ Listed(NamesOf(items')) = LinkedTo(QueriedActivities(cur))
<1>. DEFINE tag == ActivityTag(cur)
            order == LoadedOrder(tag)
            none == <<>>
            count == Lesser(Batch, Limit)
<1>1. order \in Seq(Resource) /\ Distinct(order)
  BY LoadedOrderTyped, OrdersStayDistinct
<1>2. OrdersDistinct' /\ fixed' = order
  BY <1>1, OrdersStayDistinct DEF FetchReset, OrdersDistinct
<1>3. FetchRows(none, 0, count, cur, order)
  BY DEF FetchReset
<1>4. count = Limit /\ Limit \in Nat /\ Asked(0, Limit) = Limit /\ ~(Limit <= 0)
  <2>1. Limit \in Nat \ {0} /\ Batch \in Nat /\ Limit <= Batch
    BY QueryTypes DEF ReadAtOnce
  <2>. DEFINE l == Limit
              b == Batch
  <2>2. l \in Nat \ {0} /\ b \in Nat /\ l <= b
    BY <2>1
  <2>. HIDE DEF l, b
  <2>3. Lesser(b, l) = l /\ ~(l <= 0) /\ l \in Nat /\ ~(0 + l > l)
    BY ONLY <2>2 DEF Lesser
  <2>. QED  BY <2>3 DEF Asked, l, b
<1>. HIDE DEF order, count
<1>5. none \in Seq(Item) /\ 0 \in 0 .. Len(none) /\ Len(none) = 0
  OBVIOUS
<1>. HIDE DEF none
<1>6. FetchesPage(none, 0, Limit, cur, order)
  <2>1. FetchRows(none, 0, Limit, cur, order) /\ Limit \in Nat
    BY <1>3, <1>4
  <2>2. ~(Asked(0, Limit) <= 0) => FetchesPage(none, 0, Asked(0, Limit), cur, order)
    BY ONLY StoreTypeOK, WatcherTypeOK, cur \in Activity, <1>1, <1>5, <2>1, FetchReads
  <2>. QED  BY ONLY <1>4, <2>2
<1>7. PICK result \in Results(cur), new \in Seq(Item) :
         /\ IsBatch(new, Page(result, 0, Limit), order)
         /\ items' \in Replacements(none, new, 0)
         /\ hasMore' = (0 + Limit < Len(result))
  BY <1>6 DEF FetchesPage
<1>8. /\ result \in Seq(Item) /\ Len(result) <= Cardinality(Resource)
      /\ \A k \in 1 .. Len(result) : result[k].data.link = Linked
      /\ {result[k].resource : k \in 1 .. Len(result)} = LinkedTo(QueriedActivities(cur))
  BY LinkedResult
<1>. DEFINE page == Page(result, 0, Limit)
<1>9. /\ Len(page) = Len(result)
      /\ \A p \in 1 .. Len(result) : page[p] = result[p]
  BY <1>4, <1>8, WholePage
<1>10. IsBatch(new, page, order) /\ Len(new) = Len(page)
  BY <1>7 DEF IsBatch
<1>. HIDE DEF page
<1>11. /\ items' \in Seq(Item) /\ Len(items') = Len(new)
       /\ \A k \in 1 .. Len(new) : items'[k] = new[k]
  <2>1. none \in Seq(Item) /\ Len(none) = 0 /\ new \in Seq(Item) /\ items' \in Replacements(none, new, 0)
    BY <1>5, <1>7
  <2>. QED  BY ONLY <2>1, FirstBatch
<1>12. Tidy(items', order)
  <2>1. \A p \in 1 .. Len(page) : page[p].data.link = Linked
    BY <1>8, <1>9
  <2>. QED  BY <1>1, <1>10, <1>11, <2>1, BatchTidy
<1>13. ~hasMore'
  <2>1. Cardinality(Resource) \in Nat /\ Cardinality(Resource) <= Limit
    BY StoreAssumption, FS_CardinalityType DEF ReadAtOnce
  <2>2. Len(result) \in Nat
    BY <1>8
  <2>. DEFINE l == Limit
  <2>3. hasMore' = (0 + l < Len(result)) /\ l \in Nat /\ Cardinality(Resource) <= l
    BY <1>4, <1>7, <2>1
  <2>. HIDE DEF l
  <2>4. ~(0 + l < Len(result))
    BY <1>8, <2>1, <2>2, <2>3
  <2>. QED  BY <2>3, <2>4
<1>14. Listed(NamesOf(items')) = LinkedTo(QueriedActivities(cur))
  <2>1. Listed(NamesOf(items')) = {items'[k].resource : k \in 1 .. Len(items')}
    BY ONLY <1>11, NamesTyped
  <2>2. /\ \A k \in 1 .. Len(new) : \E p \in 1 .. Len(page) : new[k] = page[p]
        /\ \A p \in 1 .. Len(page) : \E k \in 1 .. Len(new) : new[k] = page[p]
    BY <1>10 DEF IsBatch
  <2>3. ASSUME NEW k \in 1 .. Len(items')
        PROVE  \E p \in 1 .. Len(result) : items'[k] = result[p]
    <3>1. k \in 1 .. Len(new) /\ items'[k] = new[k]
      BY <1>11
    <3>2. PICK p \in 1 .. Len(page) : new[k] = page[p]
      BY <2>2, <3>1
    <3>3. p \in 1 .. Len(result) /\ page[p] = result[p]
      BY <1>9
    <3>. QED  BY <3>1, <3>2, <3>3
  <2>4. ASSUME NEW p \in 1 .. Len(result)
        PROVE  \E k \in 1 .. Len(items') : items'[k] = result[p]
    <3>1. p \in 1 .. Len(page) /\ page[p] = result[p]
      BY <1>9
    <3>2. PICK k \in 1 .. Len(new) : new[k] = page[p]
      BY <2>2, <3>1
    <3>3. k \in 1 .. Len(items') /\ items'[k] = new[k]
      BY <1>11
    <3>. QED  BY <3>1, <3>2, <3>3
  <2>. DEFINE shown == {items'[k].resource : k \in 1 .. Len(items')}
              answer == {result[p].resource : p \in 1 .. Len(result)}
  <2>5. shown \subseteq answer
    BY ONLY <2>3
  <2>6. answer \subseteq shown
    BY ONLY <2>4
  <2>7. Listed(NamesOf(items')) = shown /\ answer = LinkedTo(QueriedActivities(cur))
    BY <1>8, <2>1
  <2>. HIDE DEF shown, answer
  <2>. QED  BY ONLY <2>5, <2>6, <2>7
<1>. QED  BY <1>2, <1>12, <1>13, <1>14

-------------------------------------------------------------------------------
(***************************************************************************)
(* What the handlers and requests do to such a list.                       *)
(***************************************************************************)
\* The row of a resource that is linked appears, or is found, and stays in order.
LEMMA ShowTidy ==
    ASSUME IInv, ReadAtOnce, Tidy(items, fixed), NEW r \in Resource, ShowScore(r, 0)
    PROVE  /\ Tidy(items', fixed) /\ hasMore' = hasMore
           /\ Listed(NamesOf(items')) = Listed(NamesOf(items)) \cup {r}
<1>0. items \in Seq(Item) /\ fixed \in Seq(Resource) /\ WatcherTypeOK
  BY PartsOfInvariant DEF RowsTyped, OrdersTyped
<1>1. hasMore' = hasMore
  BY DEF ShowScore
<1>2. Listed(NamesOf(items)) = {items[p].resource : p \in 1 .. Len(items)}
  BY <1>0, NamesTyped
<1>3. ASSUME NEW row \in Find(items, r), items' = Reposition(row, 0)
      PROVE  Tidy(items', fixed) /\ Listed(NamesOf(items')) = Listed(NamesOf(items)) \cup {r}
  <2>. DEFINE p == row + 1
              x == [items[p] EXCEPT !.data.score = 0]
              rows == [items EXCEPT ![p] = x]
  <2>1. row \in Rows(items) /\ p \in 1 .. Len(items) /\ items[p] \in Item /\ items[p].resource = r
    BY <1>0, <1>3, FoundRows
  <2>2. x \in Item /\ x.resource = items[p].resource /\ x.data.link = items[p].data.link
    BY <2>1 DEF Item
  <2>. HIDE DEF x
  <2>3. /\ rows \in Seq(Item) /\ Len(rows) = Len(items) /\ rows[p] = x /\ DOMAIN rows = DOMAIN items
        /\ \A k \in 1 .. Len(items) : rows[k].resource = items[k].resource
        /\ \A k \in 1 .. Len(items) : rows[k].data.link = items[k].data.link
    BY <1>0, <2>1, <2>2
  <2>. HIDE DEF rows
  <2>4. NamesOf(rows) = NamesOf(items)
    BY <1>0, <2>3 DEF NamesOf
  <2>5. AllShownLinked(rows)
    BY <2>3 DEF Tidy, AllShownLinked
  <2>6. items' = MoveOne(rows, row, DestinationFor(rows, rows[row + 1], fixed))
    BY <1>3, <2>3 DEF Reposition, rows, x, p
  <2>7. /\ row \in Rows(rows) /\ rows \in Seq(Item) /\ fixed \in Seq(Resource)
        /\ Distinct(NamesOf(rows)) /\ AllShownLinked(rows)
    BY <1>0, <2>1, <2>3, <2>4, <2>5 DEF Tidy, Rows
  <2>. DEFINE list == NamesOf(rows)
  <2>8. /\ items' \in Seq(Item) /\ Distinct(NamesOf(items')) /\ AllShownLinked(items')
        /\ Listed(NamesOf(items')) = Listed(list)
        /\ p \in DOMAIN list
        /\ \E q \in Destinations(list, list[p], fixed) :
              q \in Rows(list) /\ NamesOf(items') = MoveOne(list, row, q)
    BY ONLY <2>6, <2>7, MoveTidy DEF p
  <2>9. list \in Seq(Resource) /\ IsArranged(list, fixed) /\ Distinct(list)
    BY <1>0, <2>4, NamesTyped DEF Tidy
  <2>. HIDE DEF list
  <2>10. PICK q \in Destinations(list, list[p], fixed) : NamesOf(items') = MoveOne(list, row, q)
    BY <2>8
  <2>11. row = p - 1
    BY <2>1 DEF Rows
  <2>12. IsArranged(MoveOne(list, p - 1, q), fixed)
    BY <1>0, <2>8, <2>9, <2>10, RepositionArranged
  <2>13. Tidy(items', fixed)
    BY <2>8, <2>10, <2>11, <2>12 DEF Tidy
  <2>14. r \in Listed(NamesOf(items))
    BY <1>2, <2>1
  <2>. QED  BY <2>4, <2>8, <2>13, <2>14 DEF list
<1>4. ASSUME Find(items, r) = {}, items' = TrimTo(WithNewRow(NewRow(r, 0)), Limit)
      PROVE  Tidy(items', fixed) /\ Listed(NamesOf(items')) = Listed(NamesOf(items)) \cup {r}
  <2>. DEFINE x == NewRow(r, 0)
              t == RowsInserted(items, DestinationFor(items, x, fixed), <<x>>)
  <2>1. x \in Item /\ x.resource = r /\ x.data.link # NotLinked
    BY DEF NewRow, Item, LinkStatus, Linked, Unknown, NotLinked, ReadAtOnce
  <2>2. r \notin Listed(NamesOf(items))
    BY <1>0, <1>2, <1>4, FoundRows
  <2>3. items' = TrimTo(t, Limit)
    BY <1>4 DEF WithNewRow
  <2>. HIDE DEF x
  <2>4. /\ t \in Seq(Item) /\ Tidy(t, fixed) /\ Len(t) <= Cardinality(Resource)
        /\ Listed(NamesOf(t)) = Listed(NamesOf(items)) \cup {x.resource}
    BY <1>0, <2>1, <2>2, InsertTidy
  <2>. HIDE DEF t
  <2>5. Cardinality(Resource) \in Nat /\ Cardinality(Resource) <= Limit /\ Limit \in Nat
    BY <1>0, StoreAssumption, FS_CardinalityType, QueryTypes DEF ReadAtOnce
  <2>6. Len(t) \in Nat
    BY <2>4
  <2>7. Len(t) <= Limit
    BY <2>4, <2>5, <2>6
  <2>8. items' = t
    BY <2>3, <2>7 DEF TrimTo
  <2>. QED  BY <2>1, <2>4, <2>8
<1>. QED  BY <1>1, <1>3, <1>4 DEF ShowScore

\* The row of a resource that is unlinked goes; nothing is read.
LEMMA UnlinkTidy ==
    ASSUME IInv, ReadAtOnce, Tidy(items, fixed), NEW r, NEW row \in Find(items, r), RemoveRow(row)
    PROVE  /\ Tidy(items', fixed) /\ hasMore' = hasMore
           /\ Listed(NamesOf(items')) = Listed(NamesOf(items)) \ {r}
<1>1. items \in Seq(Item) /\ fixed \in Seq(Resource)
  BY PartsOfInvariant DEF RowsTyped, OrdersTyped
<1>2. row \in Rows(items) /\ items[row + 1].resource = r
  BY <1>1, FoundRows
<1>3. items' = RowsRemoved(items, row, row) /\ hasMore' = hasMore
  BY DEF RemoveRow, ReadAtOnce
<1>4. /\ Tidy(items', fixed)
      /\ Listed(NamesOf(items')) = Listed(NamesOf(items)) \ {items[row + 1].resource}
  BY <1>1, <1>2, <1>3, RemoveTidy
<1>. QED  BY <1>2, <1>3, <1>4

\* Every row of such a list is a linked item.
LEMMA AllItemsLinked ==
    ASSUME items \in Seq(Item), AllShownLinked(items)
    PROVE  LinkedItems = NamesOf(items) /\ Len(LinkedItems) = Len(items)
<1>1. /\ LinkedItems \in Seq(Resource) /\ Len(LinkedItems) <= Len(items)
      /\ \A p \in 1 .. Len(LinkedItems) : LinkedItems[p] = items[p].resource
      /\ Len(LinkedItems) < Len(items) => items[Len(LinkedItems) + 1].data.link = NotLinked
  BY LinkedItemsFirst
<1>2. Len(LinkedItems) \in Nat /\ Len(items) \in Nat
  BY <1>1
<1>3. ~(Len(LinkedItems) < Len(items))
  <2>1. SUFFICES ASSUME Len(LinkedItems) < Len(items) PROVE FALSE
    OBVIOUS
  <2>2. Len(LinkedItems) + 1 \in 1 .. Len(items)
    BY <1>2, <2>1
  <2>. QED  BY <1>1, <2>1, <2>2 DEF AllShownLinked
<1>4. Len(LinkedItems) = Len(items)
  BY <1>1, <1>2, <1>3
<1>5. /\ NamesOf(items) \in Seq(Resource) /\ Len(NamesOf(items)) = Len(items)
      /\ \A p \in 1 .. Len(items) : NamesOf(items)[p] = items[p].resource
  BY NamesTyped
<1>6. LinkedItems = NamesOf(items)
  <2>1. \A p \in 1 .. Len(LinkedItems) : LinkedItems[p] = NamesOf(items)[p]
    BY <1>1, <1>4, <1>5
  <2>. QED  BY <1>1, <1>4, <1>5, <2>1, SameRows
<1>. QED  BY <1>4, <1>6

\* A row moved by the user: the rows are then listed as the new order has them.
LEMMA MoveResultTidy ==
    ASSUME IInv, ReadAtOnce, Tidy(items, fixed),
           NEW r \in Resource, NEW position \in 0 .. Limit - 1, MoveResult(r, position)
    PROVE  /\ Tidy(items', fixed') /\ Distinct(fixed')
           /\ Listed(NamesOf(items')) = Listed(NamesOf(items))
<1>1. items \in Seq(Item) /\ Len(items) <= Limit /\ position \in Nat
  BY PartsOfInvariant DEF RowsTyped, BoundedRows
<1>2. PICK row \in Movable(r, position) :
         /\ items' = MoveOne(items, row, DestinationFor(items, items[row + 1], OrderWith(row, position)))
         /\ UseOrder(OrderWith(row, position))
  BY DEF MoveResult
<1>3. row \in Rows(items) /\ position < Len(items)
  BY <1>1, <1>2, FoundRows DEF Movable, MoveResult
<1>. DEFINE list == NamesOf(items)
            order == MoveOne(list, row, position)
<1>4. Distinct(list) /\ AllShownLinked(items)
  BY DEF Tidy
<1>5. LinkedItems = list /\ Len(LinkedItems) = Len(items)
  BY <1>1, <1>4, AllItemsLinked
<1>6. list \in Seq(Resource) /\ Len(list) = Len(items)
  BY <1>1, NamesTyped
<1>7. Lesser(position, Len(LinkedItems) - 1) = position
  <2>1. Len(items) \in Nat
    BY <1>1
  <2>. QED  BY <1>1, <1>3, <1>5, <2>1 DEF Lesser
<1>8. OrderWith(row, position) = order
  BY <1>5, <1>7 DEF OrderWith
<1>9. row \in Rows(list) /\ position \in Rows(list)
  BY <1>1, <1>3, <1>6 DEF Rows
<1>10. items' = MoveOne(items, row, DestinationFor(items, items[row + 1], order)) /\ fixed' = order
  BY <1>2, <1>8 DEF UseOrder
<1>. HIDE DEF list
<1>11. order \in Seq(Resource) /\ Distinct(order)
  BY ONLY <1>4, <1>6, <1>9, MovedRowsDiffer, MovedRowAt
<1>. HIDE DEF order
<1>12. /\ items' \in Seq(Item) /\ Distinct(NamesOf(items')) /\ AllShownLinked(items')
       /\ Listed(NamesOf(items')) = Listed(NamesOf(items))
       /\ row + 1 \in DOMAIN NamesOf(items)
       /\ \E q \in Destinations(NamesOf(items), NamesOf(items)[row + 1], order) :
             q \in Rows(NamesOf(items)) /\ NamesOf(items') = MoveOne(NamesOf(items), row, q)
  <2>1. Distinct(NamesOf(items))
    BY <1>4 DEF list
  <2>. QED  BY ONLY <1>1, <1>3, <1>4, <1>10, <1>11, <2>1, MoveTidy
<1>. DEFINE p == row + 1
<1>13. PICK q \in Destinations(list, list[p], order) : NamesOf(items') = MoveOne(list, row, q)
  BY <1>12 DEF list
<1>14. p \in DOMAIN list /\ row = p - 1
  BY <1>9, <1>12 DEF list, Rows
<1>. HIDE DEF p
<1>15. q = position
  <2>1. q \in Destinations(list, list[p], MoveOne(list, p - 1, position))
    BY <1>14 DEF order
  <2>. QED  BY <1>4, <1>6, <1>9, <1>14, <2>1, RequestedPlace
<1>16. NamesOf(items') = order
  BY <1>13, <1>15 DEF order
<1>17. IsArranged(order, order)
  BY <1>11, SelfArranged
<1>. QED  BY <1>10, <1>11, <1>12, <1>16, <1>17 DEF Tidy

\* A place that the user gives to a resource that will be linked.
LEMMA PlaceResultTidy ==
    ASSUME IInv, ReadAtOnce, Tidy(items, fixed),
           NEW r \in Resource, NEW position \in 0 .. Limit - 1, PlaceResult(r, position)
    PROVE  Tidy(items', fixed') /\ Distinct(fixed') /\ items' = items
<1>1. items \in Seq(Item) /\ position \in Nat
  BY PartsOfInvariant DEF RowsTyped, BoundedRows
<1>. DEFINE list == NamesOf(items)
            order == RowsInserted(list, position, <<r>>)
<1>2. Distinct(list) /\ AllShownLinked(items)
  BY DEF Tidy
<1>3. LinkedItems = list
  BY <1>1, <1>2, AllItemsLinked
<1>4. list \in Seq(Resource) /\ Listed(list) = {items[p].resource : p \in 1 .. Len(items)}
  BY <1>1, NamesTyped
<1>5. r \notin Listed(list)
  BY <1>1, <1>4, FoundRows DEF PlaceResult
<1>6. position \in 0 .. Len(list)
  BY <1>1, <1>3, <1>4 DEF PlaceResult
<1>7. items' = items /\ fixed' = order
  BY <1>3 DEF PlaceResult, UseOrder
<1>. HIDE DEF list
<1>8. Distinct(order) /\ IsArranged(list, order)
  BY ONLY r \in Resource, <1>2, <1>4, <1>5, <1>6, PlaceArranged
<1>. QED  BY <1>2, <1>7, <1>8 DEF Tidy, list

-------------------------------------------------------------------------------
(***************************************************************************)
(* The announcements that wait, and the links they are about.              *)
(***************************************************************************)
\* The manager makes announcement m, and changes no link but the one m is about.
Announces(m) ==
    /\ Announce(m)
    /\ \A a \in Activity, r \in Resource :
          IF About(m, a, r) THEN (r \in links'[a] <=> m.kind = "ResourceLinked")
                            ELSE (r \in links'[a] <=> r \in links[a])

\* An announcement that is not about links.
LEMMA OtherAnnounced ==
    ASSUME NEW m \in Signal, Announce(m), links' = links,
           m.kind \notin {"ResourceLinked", "ResourceUnlinked"}
    PROVE  \E signal \in Signal : Announces(signal)
BY DEF Announces, About

\* Every step of the manager makes one announcement.
LEMMA ManagerAnnounces ==
    ASSUME StoreTypeOK, Manager
    PROVE  \E signal \in Signal : Announces(signal)
<1>1. ASSUME NEW a \in Activity, NEW r \in Resource, NEW score \in Score, Use(a, r, score)
      PROVE  \E signal \in Signal : Announces(signal)
  <2>. DEFINE m == [kind |-> "ResourceScoreUpdated", activity |-> a, resource |-> r, score |-> score]
  <2>1. m \in Signal /\ m.kind \notin {"ResourceLinked", "ResourceUnlinked"}
    BY DEF Signal
  <2>. QED  BY <1>1, <2>1, OtherAnnounced DEF Use
<1>2. ASSUME NEW a \in Activity \cup {Any}, NEW r \in Resource, DeleteStatsForResource(a, r)
      PROVE  \E signal \in Signal : Announces(signal)
  <2>. DEFINE m == [kind |-> "ResourceScoreDeleted", activity |-> a, resource |-> r]
  <2>1. m \in Signal /\ m.kind \notin {"ResourceLinked", "ResourceUnlinked"}
    BY DEF Signal
  <2>. QED  BY <1>2, <2>1, OtherAnnounced DEF DeleteStatsForResource
<1>3. ASSUME NEW a \in Activity \cup {Any}, NEW R \in SUBSET Resource, DeleteStatsForPattern(a, R)
      PROVE  \E signal \in Signal : Announces(signal)
  <2>. DEFINE m == [kind |-> "PatternDeleted", activity |-> a]
  <2>1. m \in Signal /\ m.kind \notin {"ResourceLinked", "ResourceUnlinked"}
    BY DEF Signal
  <2>. QED  BY <1>3, <2>1, OtherAnnounced DEF DeleteStatsForPattern
<1>4. ASSUME NEW a \in Activity, NEW R \in SUBSET Resource, DeletePeriod(a, R)
      PROVE  \E signal \in Signal : Announces(signal)
  <2>. DEFINE m == [kind |-> "StatsDeleted"]
  <2>1. m \in Signal /\ m.kind \notin {"ResourceLinked", "ResourceUnlinked"}
    BY DEF Signal
  <2>. QED  BY <1>4, <2>1, OtherAnnounced DEF DeletePeriod
<1>5. ASSUME NEW a \in Activity, NEW r \in Resource, LinkResource(a, r)
      PROVE  \E signal \in Signal : Announces(signal)
  <2>. DEFINE m == [kind |-> "ResourceLinked", activity |-> a, resource |-> r]
  <2>1. m \in Signal /\ m.kind = "ResourceLinked" /\ m.activity = a /\ m.resource = r
    BY DEF Signal
  <2>2. Announce(m) /\ links' = [links EXCEPT ![a] = @ \cup {r}]
    BY <1>5 DEF LinkResource
  <2>. HIDE DEF m
  <2>3. \A b \in Activity : links'[b] = IF b = a THEN links[a] \cup {r} ELSE links[b]
    BY <2>2 DEF StoreTypeOK
  <2>4. Announces(m)
    BY <2>1, <2>2, <2>3 DEF Announces, About
  <2>. QED  BY <2>1, <2>4
<1>6. ASSUME NEW a \in Activity, NEW r \in Resource, UnlinkResource(a, r)
      PROVE  \E signal \in Signal : Announces(signal)
  <2>. DEFINE m == [kind |-> "ResourceUnlinked", activity |-> a, resource |-> r]
  <2>1. m \in Signal /\ m.kind = "ResourceUnlinked" /\ m.activity = a /\ m.resource = r
    BY DEF Signal
  <2>2. Announce(m) /\ links' = [links EXCEPT ![a] = @ \ {r}]
    BY <1>6 DEF UnlinkResource
  <2>. HIDE DEF m
  <2>3. \A b \in Activity : links'[b] = IF b = a THEN links[a] \ {r} ELSE links[b]
    BY <2>2 DEF StoreTypeOK
  <2>4. Announces(m)
    BY <2>1, <2>2, <2>3 DEF Announces, About
  <2>. QED  BY <2>1, <2>4
<1>7. ASSUME NEW a \in Activity, SwitchActivity(a)
      PROVE  \E signal \in Signal : Announces(signal)
  <2>. DEFINE m == [kind |-> "CurrentActivityChanged", activity |-> a]
  <2>1. m \in Signal /\ m.kind \notin {"ResourceLinked", "ResourceUnlinked"}
    BY DEF Signal
  <2>. QED  BY <1>7, <2>1, OtherAnnounced DEF SwitchActivity
<1>. QED  BY <1>1, <1>2, <1>3, <1>4, <1>5, <1>6, <1>7 DEF Manager

\* So does a call that it gets to.
LEMMA ForgetAnnounces ==
    ASSUME NEW tag \in {Any, CurrentTag}, NEW r \in Resource, ForgetResource(tag, r)
    PROVE  \E signal \in Signal : Announces(signal)
<1>. DEFINE m == [kind |-> "ResourceScoreDeleted", activity |-> tag, resource |-> r]
<1>1. m \in Signal /\ m.kind \notin {"ResourceLinked", "ResourceUnlinked"}
  BY DEF Signal
<1>. QED  BY <1>1, OtherAnnounced DEF ForgetResource

\* The announcements that wait after one more was made.
LEMMA OneMoreWaits ==
    ASSUME bus \in Seq(Signal), NEW m \in Signal, Announce(m)
    PROVE  /\ DOMAIN bus = 1 .. Len(bus) /\ Len(bus) \in Nat
           /\ DOMAIN bus' = 1 .. Len(bus) + 1
           /\ \A k \in 1 .. Len(bus) : bus'[k] = bus[k]
           /\ bus'[Len(bus) + 1] = m
BY DEF Announce

\* The last announcement about a link still says whether there is one.
LEMMA AnnouncedLast ==
    ASSUME bus \in Seq(Signal), LastSaysSo, NEW m \in Signal, Announces(m)
    PROVE  LastSaysSo'
<1>. DEFINE n == Len(bus)
<1>1. /\ DOMAIN bus = 1 .. n /\ n \in Nat /\ DOMAIN bus' = 1 .. n + 1
      /\ \A k \in 1 .. n : bus'[k] = bus[k]
      /\ bus'[n + 1] = m
  BY OneMoreWaits DEF Announces
<1>. HIDE DEF n
<1>2. SUFFICES ASSUME NEW a \in Activity, NEW r \in Resource, NEW k \in 1 .. n + 1,
                      About(bus'[k], a, r), \A j \in 1 .. n + 1 : j > k => ~About(bus'[j], a, r)
               PROVE  bus'[k].kind = "ResourceLinked" <=> r \in links'[a]
  BY <1>1 DEF LastSaysSo, About
<1>3. CASE k = n + 1
  BY <1>1, <1>2, <1>3 DEF Announces
<1>4. CASE k # n + 1
  <2>1. k \in 1 .. n /\ n + 1 > k /\ n + 1 \in 1 .. n + 1
    BY <1>1, <1>4
  <2>2. ~About(m, a, r)
    BY <1>1, <1>2, <2>1
  <2>3. About(bus[k], a, r) /\ \A j \in 1 .. n : j > k => ~About(bus[j], a, r)
    <3>1. \A j \in 1 .. n : j \in 1 .. n + 1
      BY <1>1
    <3>. QED  BY <1>1, <1>2, <2>1, <3>1
  <2>4. bus[k].kind = "ResourceLinked" <=> r \in links[a]
    BY <1>1, <2>1, <2>3 DEF LastSaysSo
  <2>5. r \in links'[a] <=> r \in links[a]
    BY <2>2 DEF Announces
  <2>. QED  BY <1>1, <2>1, <2>4, <2>5
<1>. QED  BY <1>3, <1>4

\* A resource about whose link none waits has the link that it had before.
LEMMA NoneWaitedBefore ==
    ASSUME bus \in Seq(Signal), NEW m \in Signal, Announces(m),
           NEW a \in Activity, NEW r \in Resource, NoneWaits(bus', a, r)
    PROVE  NoneWaits(bus, a, r) /\ (r \in links'[a] <=> r \in links[a])
<1>. DEFINE n == Len(bus)
<1>1. /\ DOMAIN bus = 1 .. n /\ n \in Nat /\ DOMAIN bus' = 1 .. n + 1
      /\ \A k \in 1 .. n : bus'[k] = bus[k]
      /\ bus'[n + 1] = m
  BY OneMoreWaits DEF Announces
<1>. HIDE DEF n
<1>2. n + 1 \in 1 .. n + 1 /\ \A k \in 1 .. n : k \in 1 .. n + 1
  BY <1>1
<1>3. ~About(m, a, r) /\ NoneWaits(bus, a, r)
  BY <1>1, <1>2 DEF NoneWaits
<1>. QED  BY <1>3 DEF Announces

\* The announcements that wait after the first was taken.
LEMMA OthersWait ==
    ASSUME bus \in Seq(Signal), Receive
    PROVE  /\ DOMAIN bus = 1 .. Len(bus) /\ Len(bus) \in Nat /\ 1 \in 1 .. Len(bus)
           /\ DOMAIN bus' = 1 .. Len(bus) - 1
           /\ \A k \in 1 .. Len(bus) - 1 : k + 1 \in 1 .. Len(bus) /\ bus'[k] = bus[k + 1]
           /\ NextSignal = bus[1] /\ links' = links
<1>1. bus # <<>> /\ bus' = Tail(bus) /\ links' = links
  BY DEF Receive
<1>2. Len(bus) \in Nat /\ Len(bus) # 0
  BY <1>1
<1>3. /\ DOMAIN Tail(bus) = 1 .. Len(bus) - 1
      /\ \A k \in 1 .. Len(bus) - 1 : Tail(bus)[k] = bus[k + 1]
  BY <1>1, <1>2
<1>4. \A k \in 1 .. Len(bus) - 1 : k + 1 \in 1 .. Len(bus)
  BY <1>2
<1>. QED  BY <1>1, <1>2, <1>3, <1>4 DEF NextSignal

\* Taking an announcement changes neither what the last one says ...
LEMMA ReceivedLast ==
    ASSUME bus \in Seq(Signal), LastSaysSo, Receive
    PROVE  LastSaysSo'
<1>. DEFINE n == Len(bus)
<1>1. /\ DOMAIN bus = 1 .. n /\ n \in Nat /\ DOMAIN bus' = 1 .. n - 1
      /\ \A k \in 1 .. n - 1 : k + 1 \in 1 .. n /\ bus'[k] = bus[k + 1]
      /\ links' = links
  BY OthersWait
<1>. HIDE DEF n
<1>2. SUFFICES ASSUME NEW a \in Activity, NEW r \in Resource, NEW k \in 1 .. n - 1,
                      About(bus'[k], a, r), \A j \in 1 .. n - 1 : j > k => ~About(bus'[j], a, r)
               PROVE  bus'[k].kind = "ResourceLinked" <=> r \in links'[a]
  BY <1>1 DEF LastSaysSo, About
<1>3. ASSUME NEW j \in 1 .. n, j > k + 1
      PROVE  ~About(bus[j], a, r)
  <2>1. j - 1 \in 1 .. n - 1 /\ j - 1 > k /\ j - 1 + 1 = j
    BY <1>1, <1>3
  <2>2. bus'[j - 1] = bus[j]
    BY <1>1, <2>1
  <2>. QED  BY <1>2, <2>1, <2>2
<1>4. k + 1 \in 1 .. n /\ bus'[k] = bus[k + 1]
  BY <1>1
<1>. QED  BY <1>1, <1>2, <1>3, <1>4 DEF LastSaysSo

\* ... nor, for any other link, whether an announcement waits.
LEMMA ReceivedFirst ==
    ASSUME bus \in Seq(Signal), LastSaysSo, Receive, NEW a \in Activity, NEW r \in Resource,
           NoneWaits(bus', a, r)
    PROVE  IF About(NextSignal, a, r) THEN (NextSignal.kind = "ResourceLinked" <=> r \in links[a])
                                      ELSE NoneWaits(bus, a, r)
<1>. DEFINE n == Len(bus)
<1>1. /\ DOMAIN bus = 1 .. n /\ n \in Nat /\ 1 \in 1 .. n /\ DOMAIN bus' = 1 .. n - 1
      /\ \A k \in 1 .. n - 1 : k + 1 \in 1 .. n /\ bus'[k] = bus[k + 1]
      /\ NextSignal = bus[1]
  BY OthersWait
<1>. HIDE DEF n
<1>2. ASSUME NEW j \in 1 .. n, j > 1
      PROVE  ~About(bus[j], a, r)
  <2>1. j - 1 \in 1 .. n - 1 /\ j - 1 + 1 = j
    BY <1>1, <1>2
  <2>2. bus'[j - 1] = bus[j]
    BY <1>1, <2>1
  <2>. QED  BY <1>1, <2>1, <2>2 DEF NoneWaits
<1>3. CASE About(NextSignal, a, r)
  BY <1>1, <1>2, <1>3 DEF LastSaysSo
<1>4. CASE ~About(NextSignal, a, r)
  <2>1. \A j \in 1 .. n : j = 1 \/ j > 1
    BY <1>1
  <2>2. NoneWaits(bus, a, r)
    BY <1>1, <1>2, <1>4, <2>1 DEF NoneWaits
  <2>. QED  BY <1>4, <2>2
<1>. QED  BY <1>3, <1>4

-------------------------------------------------------------------------------
(***************************************************************************)
(* Every step.                                                             *)
(***************************************************************************)
\* The resources shown are those that the list names.
LEMMA ShownAreListed ==
    ASSUME items \in Seq(Item)
    PROVE  ShownResources = Listed(NamesOf(items))
BY NamesTyped DEF ShownResources

\* A handler of an announcement about one link of the current activity, or of none,
\* leaves what is shown right or announced.
LEMMA ReceivedShows ==
    ASSUME LinkedInv, Receive, ReadAtOnce, query.activities = "current", current' = current,
           \A r \in Resource :
              IF About(NextSignal, current, r)
              THEN (r \in ShownResources' <=> NextSignal.kind = "ResourceLinked")
              ELSE (r \in ShownResources' <=> r \in ShownResources)
    PROVE  ShownOrAnnounced'
<1>0. StoreTypeOK /\ WatcherTypeOK /\ LastSaysSo
  BY PartsOfInvariant DEF LinkedInv
<1>1. bus \in Seq(Signal) /\ current \in Activity /\ links' = links
  BY <1>0 DEF StoreTypeOK, WatcherTypeOK, Receive
<1>2. \A r \in Resource : NoneWaits(bus, current, r) => (r \in ShownResources <=> r \in links[current])
  BY DEF LinkedInv, ShownOrAnnounced
<1>3. ASSUME NEW r \in Resource, NoneWaits(bus', current, r)
      PROVE  r \in ShownResources' <=> r \in links[current]
  <2>1. IF About(NextSignal, current, r)
        THEN (NextSignal.kind = "ResourceLinked" <=> r \in links[current])
        ELSE NoneWaits(bus, current, r)
    BY <1>0, <1>1, <1>3, ReceivedFirst
  <2>. QED  BY <1>2, <2>1
<1>4. \A r \in Resource : NoneWaits(bus', current', r) => (r \in ShownResources' <=> r \in links'[current'])
  BY <1>1, <1>3
<1>. QED  BY <1>4 DEF ShownOrAnnounced

\* What a list that is read at once hears of.
LEMMA HeardOf ==
    ASSUME StoreTypeOK, WatcherTypeOK, ReadAtOnce, NEW m \in Signal
    PROVE  /\ ~SendsResultScoreUpdated(m) /\ ~SendsResultRemoved(m) /\ ~SchedulesInvalidation(m)
           /\ \A r \in Resource : About(m, current, r) => SendsResultLinked(m) \/ SendsResultUnlinked(m)
           /\ query.activities = "current" /\ (SendsResultLinked(m) \/ SendsResultUnlinked(m)) =>
                 /\ m.resource \in Resource
                 /\ \A r \in Resource : About(m, current, r) <=> r = m.resource
<1>1. query.selection = "LinkedResources"
  BY DEF ReadAtOnce
<1>2. ~SendsResultScoreUpdated(m) /\ ~SendsResultRemoved(m) /\ ~SchedulesInvalidation(m)
  BY <1>1 DEF SendsResultScoreUpdated, SendsResultRemoved, SchedulesInvalidation
<1>3. \A r \in Resource : About(m, current, r) => SendsResultLinked(m) \/ SendsResultUnlinked(m)
  BY <1>1 DEF About, SendsResultLinked, SendsResultUnlinked, ActivityMatches
<1>4. ASSUME query.activities = "current", SendsResultLinked(m) \/ SendsResultUnlinked(m)
      PROVE  m.resource \in Resource /\ \A r \in Resource : About(m, current, r) <=> r = m.resource
  <2>1. m.kind \in {"ResourceLinked", "ResourceUnlinked"} /\ ActivityMatches(m.activity)
    BY <1>4 DEF SendsResultLinked, SendsResultUnlinked
  <2>2. m.activity \in Activity /\ m.resource \in Resource
    BY <2>1, SignalFields
  <2>3. m.activity = current
    BY <1>4, <2>1, <2>2, StoreAssumption DEF ActivityMatches
  <2>. QED  BY <2>1, <2>2, <2>3 DEF About
<1>. QED  BY <1>2, <1>3, <1>4

\* Each handler keeps such a list tidy, and what it shows right or announced.
LEMMA HandlersTidy ==
    ASSUME LinkedInv, IInv', ReadAtOnce, ModelStep
    PROVE  /\ Tidy(items', fixed') /\ OrdersDistinct' /\ ~timer' /\ ~hasMore'
           /\ query.activities = "current" => ShownOrAnnounced'
<1>0. /\ IInv /\ StoreTypeOK /\ WatcherTypeOK /\ OrdersTyped /\ items \in Seq(Item)
      /\ Tidy(items, fixed) /\ OrdersDistinct /\ ~timer /\ ~hasMore
  BY PartsOfInvariant DEF LinkedInv, AtOnceInv, RowsTyped
<1>1. query.selection = "LinkedResources"
  BY DEF ReadAtOnce
<1>2. Receive => NextSignal \in Signal
  BY <1>0, ReceiveTyped
<1>3. items' \in Seq(Item)
  BY DEF IInv, TypeInv
<1>4. ShownResources = Listed(NamesOf(items)) /\ ShownResources' = Listed(NamesOf(items'))
  BY <1>0, <1>3, ShownAreListed, NamesTyped DEF ShownResources
<1>5. CASE OnResultLinked
  <2>1. /\ Receive /\ SendsResultLinked(NextSignal) /\ ShowScore(NextSignal.resource, 0)
        /\ current' = current /\ timer' = timer
    BY <1>5 DEF OnResultLinked
  <2>2. NextSignal.resource \in Resource /\ NextSignal.kind = "ResourceLinked"
    BY <1>2, <2>1, SignalFields DEF SendsResultLinked
  <2>3. /\ Tidy(items', fixed) /\ hasMore' = hasMore
        /\ Listed(NamesOf(items')) = Listed(NamesOf(items)) \cup {NextSignal.resource}
    BY <1>0, <2>1, <2>2, ShowTidy
  <2>4. fixed' = fixed /\ OrdersDistinct'
    BY <1>0, <2>1 DEF ShowScore, OrdersDistinct
  <2>5. ASSUME query.activities = "current"
        PROVE  ShownOrAnnounced'
    <3>1. \A r \in Resource : About(NextSignal, current, r) <=> r = NextSignal.resource
      BY <1>0, <1>2, <2>1, <2>5, HeardOf
    <3>2. \A r \in Resource : IF About(NextSignal, current, r)
                              THEN (r \in ShownResources' <=> NextSignal.kind = "ResourceLinked")
                              ELSE (r \in ShownResources' <=> r \in ShownResources)
      BY <1>4, <2>2, <2>3, <3>1
    <3>. QED  BY <2>1, <2>5, <3>2, ReceivedShows
  <2>. QED  BY <1>0, <2>1, <2>3, <2>4, <2>5
<1>6. CASE OnResultUnlinked
  <2>1. /\ Receive /\ SendsResultUnlinked(NextSignal) /\ current' = current /\ timer' = timer
    BY <1>6 DEF OnResultUnlinked
  <2>2. NextSignal.kind = "ResourceUnlinked"
    BY <2>1 DEF SendsResultUnlinked
  <2>3. /\ Tidy(items', fixed) /\ hasMore' = hasMore /\ UNCHANGED <<fixed, config>>
        /\ Listed(NamesOf(items')) = Listed(NamesOf(items)) \ {NextSignal.resource}
    <3>1. \/ Find(items, NextSignal.resource) = {} /\ UNCHANGED modelVars
          \/ \E row \in Find(items, NextSignal.resource) : RemoveRow(row)
      BY <1>1, <1>6 DEF OnResultUnlinked
    <3>2. CASE Find(items, NextSignal.resource) = {} /\ UNCHANGED modelVars
      <4>1. NextSignal.resource \notin Listed(NamesOf(items))
        BY <1>0, <3>2, FoundRows, NamesTyped
      <4>2. items' = items /\ hasMore' = hasMore /\ UNCHANGED <<fixed, config>>
        BY <3>2 DEF modelVars
      <4>. QED  BY <1>0, <4>1, <4>2
    <3>3. CASE \E row \in Find(items, NextSignal.resource) : RemoveRow(row)
      <4>1. /\ Tidy(items', fixed) /\ hasMore' = hasMore
            /\ Listed(NamesOf(items')) = Listed(NamesOf(items)) \ {NextSignal.resource}
        BY <1>0, <3>3, UnlinkTidy
      <4>2. UNCHANGED <<fixed, config>>
        BY <3>3 DEF RemoveRow
      <4>. QED  BY <4>1, <4>2
    <3>. QED  BY <3>1, <3>2, <3>3
  <2>4. OrdersDistinct'
    BY <1>0, <2>3 DEF OrdersDistinct
  <2>5. ASSUME query.activities = "current"
        PROVE  ShownOrAnnounced'
    <3>1. \A r \in Resource : About(NextSignal, current, r) <=> r = NextSignal.resource
      BY <1>0, <1>2, <2>1, <2>5, HeardOf
    <3>2. \A r \in Resource : IF About(NextSignal, current, r)
                              THEN (r \in ShownResources' <=> NextSignal.kind = "ResourceLinked")
                              ELSE (r \in ShownResources' <=> r \in ShownResources)
      BY <1>4, <2>2, <2>3, <3>1
    <3>. QED  BY <2>1, <2>5, <3>2, ReceivedShows
  <2>. QED  BY <1>0, <2>1, <2>3, <2>4, <2>5
<1>7. CASE OnCurrentActivityChanged
  <2>1. /\ Receive /\ current' = NextSignal.activity /\ timer' = timer /\ links' = links
        /\ NextSignal.kind = "CurrentActivityChanged"
    BY <1>7 DEF OnCurrentActivityChanged, Receive
  <2>2. current' \in Activity
    BY <1>2, <2>1, SignalFields
  <2>3. CASE query.activities = "current"
    <3>1. FetchReset(current')
      BY <1>7, <2>3 DEF OnCurrentActivityChanged
    <3>2. /\ Tidy(items', fixed') /\ OrdersDistinct' /\ ~hasMore'
          /\ Listed(NamesOf(items')) = LinkedTo(QueriedActivities(current'))
      BY <1>0, <2>2, <3>1, ResetTidy
    <3>3. LinkedTo(QueriedActivities(current')) = {r \in Resource : r \in links[current']}
      BY <2>3 DEF LinkedTo, QueriedActivities
    <3>4. \A r \in Resource : r \in ShownResources' <=> r \in links'[current']
      BY <1>4, <2>1, <3>2, <3>3
    <3>5. ShownOrAnnounced'
      BY <3>4 DEF ShownOrAnnounced
    <3>. QED  BY <1>0, <2>1, <3>2, <3>5
  <2>4. CASE query.activities # "current"
    <3>1. UNCHANGED modelVars
      BY <1>7, <2>4 DEF OnCurrentActivityChanged
    <3>. QED  BY <1>0, <2>1, <2>4, <3>1 DEF modelVars, OrdersDistinct
  <2>. QED  BY <2>3, <2>4
<1>8. CASE OnDropped
  <2>1. /\ Receive /\ Drops(NextSignal) /\ NextSignal \in Signal
        /\ UNCHANGED <<current, timer, items, hasMore, fixed, config>>
    BY <1>2, <1>8 DEF OnDropped
  <2>2. \A r \in Resource : ~About(NextSignal, current, r)
    BY <1>0, <2>1, HeardOf DEF Drops
  <2>3. ShownResources' = ShownResources
    BY <2>1 DEF ShownResources
  <2>4. query.activities = "current" => ShownOrAnnounced'
    BY <2>1, <2>2, <2>3, ReceivedShows
  <2>. QED  BY <1>0, <2>1, <2>4 DEF OrdersDistinct
<1>9. ASSUME NEW gone \in checks, ForgetMissing(gone)
      PROVE  /\ Tidy(items', fixed') /\ OrdersDistinct' /\ ~timer' /\ ~hasMore'
             /\ query.activities = "current" => ShownOrAnnounced'
  <2>1. UNCHANGED <<links, bus, query, current, timer, items, hasMore, fixed, config>>
    BY <1>9 DEF ForgetMissing
  <2>2. ShownOrAnnounced'
    BY <2>1 DEF LinkedInv, ShownOrAnnounced, ReadAtOnce, Limit, Batch, NoneWaits, ShownResources
  <2>. QED  BY <1>0, <2>1, <2>2 DEF OrdersDistinct
<1>10. ~OnResultScoreUpdated /\ ~OnResultRemoved /\ ~OnInvalidation /\ ~OnResultsInvalidated
  BY <1>0, <1>2, HeardOf DEF OnResultScoreUpdated, OnResultRemoved, OnInvalidation, OnResultsInvalidated
<1>. QED  BY <1>5, <1>6, <1>7, <1>8, <1>9, <1>10 DEF ModelStep

\* So does each request of the program.
LEMMA RequestsTidy ==
    ASSUME LinkedInv, IInv', ReadAtOnce, ClientStep
    PROVE  /\ Tidy(items', fixed') /\ OrdersDistinct' /\ ~timer' /\ ~hasMore'
           /\ ShownOrAnnounced'
<1>0. /\ IInv /\ items \in Seq(Item) /\ items' \in Seq(Item)
      /\ Tidy(items, fixed) /\ OrdersDistinct /\ ~timer /\ ~hasMore
  <2>1. items' \in Seq(Item)
    BY DEF IInv, TypeInv
  <2>. QED  BY <2>1, PartsOfInvariant DEF LinkedInv, AtOnceInv, RowsTyped
<1>1. ShownResources = Listed(NamesOf(items)) /\ ShownResources' = Listed(NamesOf(items'))
  BY <1>0, ShownAreListed, NamesTyped DEF ShownResources
<1>2. ASSUME Listed(NamesOf(items')) = Listed(NamesOf(items)), UNCHANGED <<links, bus, query, current>>
      PROVE  ShownOrAnnounced'
  BY <1>1, <1>2 DEF LinkedInv, ShownOrAnnounced, ReadAtOnce, Limit, Batch, NoneWaits
<1>3. ASSUME NEW order, Distinct(order), UseOrder(order)
      PROVE  OrdersDistinct' /\ ~timer' /\ ~hasMore' /\ UNCHANGED <<links, bus, query, current>>
  <2>1. /\ fixed' = order /\ config' = SavedOrder(ActivityTag(current), order)
        /\ UNCHANGED <<links, bus, query, current, timer, hasMore>>
    BY <1>3 DEF UseOrder
  <2>2. \A t \in DOMAIN config' : Distinct(config'[t])
    BY <1>0, <1>3, <2>1, OrdersStayDistinct
  <2>. QED  BY <1>0, <1>3, <2>1, <2>2 DEF OrdersDistinct
<1>4. ~FetchMore
  BY <1>0 DEF FetchMore
<1>5. ASSUME NEW r \in Resource, NEW position \in 0 .. Limit - 1, MoveResult(r, position)
      PROVE  /\ Tidy(items', fixed') /\ OrdersDistinct' /\ ~timer' /\ ~hasMore' /\ ShownOrAnnounced'
  <2>1. /\ Tidy(items', fixed') /\ Distinct(fixed')
        /\ Listed(NamesOf(items')) = Listed(NamesOf(items))
    BY <1>0, <1>5, MoveResultTidy
  <2>2. \E order : fixed' = order /\ UseOrder(order)
    BY <1>5 DEF MoveResult, UseOrder
  <2>. QED  BY <1>2, <1>3, <2>1, <2>2
<1>6. ASSUME NEW r \in Resource, NEW position \in 0 .. Limit - 1, PlaceResult(r, position)
      PROVE  /\ Tidy(items', fixed') /\ OrdersDistinct' /\ ~timer' /\ ~hasMore' /\ ShownOrAnnounced'
  <2>1. Tidy(items', fixed') /\ Distinct(fixed') /\ items' = items
    BY <1>0, <1>6, PlaceResultTidy
  <2>2. \E order : fixed' = order /\ UseOrder(order)
    BY <1>6 DEF PlaceResult, UseOrder
  <2>. QED  BY <1>2, <1>3, <2>1, <2>2
<1>7. ASSUME NEW row \in Rows(items), ForgetRow(row)
      PROVE  /\ Tidy(items', fixed') /\ OrdersDistinct' /\ ~timer' /\ ~hasMore' /\ ShownOrAnnounced'
  <2>1. UNCHANGED <<links, bus, query, current, timer, items, hasMore, fixed, config>>
    BY <1>7 DEF ForgetRow, modelVars
  <2>2. ShownOrAnnounced'
    BY <1>2, <2>1
  <2>. QED  BY <1>0, <2>1, <2>2 DEF OrdersDistinct
<1>. QED  BY <1>4, <1>5, <1>6, <1>7 DEF ClientStep

\* The manager's steps leave the list alone, and announce what they change.
LEMMA ManagerShows ==
    ASSUME LinkedInv, ManagerStep \/ ManagerForgets
    PROVE  LastSaysSo' /\ ShownOrAnnounced' /\ AtOnceInv'
<1>0. StoreTypeOK /\ WatcherTypeOK /\ LastSaysSo /\ calls \subseteq Resource
  BY PartsOfInvariant DEF LinkedInv
<1>1. bus \in Seq(Signal) /\ current \in Activity
  BY <1>0 DEF StoreTypeOK, WatcherTypeOK
<1>2. UNCHANGED <<query, current, timer, items, hasMore, fixed, config>>
  BY DEF ManagerStep, ManagerForgets
<1>3. PICK m \in Signal : Announces(m)
  <2>1. CASE ManagerStep
    BY <1>0, <2>1, ManagerAnnounces DEF ManagerStep
  <2>2. CASE ManagerForgets
    <3>1. PICK r \in calls : ForgottenByManager(r)
      BY <2>2 DEF ManagerForgets
    <3>2. \E tag \in {Any, CurrentTag} : ForgetResource(tag, r)
      BY <3>1 DEF ForgottenByManager
    <3>. QED  BY <1>0, <3>2, ForgetAnnounces
  <2>. QED  BY <2>1, <2>2
<1>4. LastSaysSo'
  BY <1>0, <1>1, <1>3, AnnouncedLast
<1>5. ASSUME NEW r \in Resource, NoneWaits(bus', current, r)
      PROVE  NoneWaits(bus, current, r) /\ (r \in links'[current] <=> r \in links[current])
  BY <1>1, <1>3, <1>5, NoneWaitedBefore
<1>6. ReadAtOnce' <=> ReadAtOnce
  BY <1>2 DEF ReadAtOnce, Limit, Batch
<1>7. ShownOrAnnounced'
  <2>1. SUFFICES ASSUME ReadAtOnce, query.activities = "current", NEW r \in Resource,
                        NoneWaits(bus', current, r)
                 PROVE  r \in ShownResources' <=> r \in links'[current]
    BY <1>2, <1>6 DEF ShownOrAnnounced
  <2>2. r \in ShownResources <=> r \in links[current]
    BY <1>5, <2>1 DEF LinkedInv, ShownOrAnnounced
  <2>3. ShownResources' = ShownResources
    BY <1>2 DEF ShownResources
  <2>. QED  BY <1>5, <2>1, <2>2, <2>3
<1>8. AtOnceInv'
  BY <1>2, <1>6 DEF LinkedInv, AtOnceInv, OrdersDistinct
<1>. QED  BY <1>4, <1>7, <1>8

\* Every step keeps the invariant.
LEMMA LinkedStepKeeps == LinkedInv /\ [Next]_vars => LinkedInv'
<1>1. SUFFICES ASSUME LinkedInv, [Next]_vars PROVE LinkedInv'
  OBVIOUS
<1>2. IInv /\ IInv' /\ LastSaysSo
  BY <1>1, StepKeeps DEF LinkedInv
<1>3. bus \in Seq(Signal)
  BY <1>2, PartsOfInvariant DEF StoreTypeOK
<1>4. ASSUME query' = query
      PROVE  ReadAtOnce' <=> ReadAtOnce
  BY <1>4 DEF ReadAtOnce, Limit, Batch
<1>5. CASE ManagerStep \/ ManagerForgets
  BY <1>1, <1>2, <1>5, ManagerShows DEF LinkedInv
<1>6. CASE ModelStep
  <2>1. Receive \/ UNCHANGED <<bus, links, query>>
    BY <1>6 DEF ModelStep, OnResultScoreUpdated, OnResultRemoved, OnResultLinked, OnResultUnlinked,
                OnInvalidation, OnCurrentActivityChanged, OnDropped, OnResultsInvalidated, ForgetMissing
  <2>2. LastSaysSo' /\ query' = query
    <3>1. CASE Receive
      BY <1>2, <1>3, <3>1, ReceivedLast DEF Receive
    <3>2. CASE UNCHANGED <<bus, links, query>>
      BY <1>2, <3>2 DEF LastSaysSo, About
    <3>. QED  BY <2>1, <3>1, <3>2
  <2>3. CASE ReadAtOnce
    <3>1. /\ Tidy(items', fixed') /\ OrdersDistinct' /\ ~timer' /\ ~hasMore'
          /\ query.activities = "current" => ShownOrAnnounced'
      BY <1>1, <1>2, <1>6, <2>3, HandlersTidy
    <3>2. AtOnceInv'
      BY <3>1 DEF AtOnceInv
    <3>3. query.activities # "current" => ShownOrAnnounced'
      BY <2>2 DEF ShownOrAnnounced
    <3>. QED  BY <1>2, <2>2, <3>1, <3>2, <3>3 DEF LinkedInv
  <2>4. CASE ~ReadAtOnce
    BY <1>2, <1>4, <2>2, <2>4 DEF LinkedInv, AtOnceInv, ShownOrAnnounced
  <2>. QED  BY <2>3, <2>4
<1>7. CASE ClientStep
  <2>1. UNCHANGED <<bus, links, query>>
    BY <1>7 DEF ClientStep, FetchMore, MoveResult, PlaceResult, UseOrder, ForgetRow
  <2>2. LastSaysSo' /\ query' = query
    BY <1>2, <2>1 DEF LastSaysSo, About
  <2>3. CASE ReadAtOnce
    <3>1. /\ Tidy(items', fixed') /\ OrdersDistinct' /\ ~timer' /\ ~hasMore' /\ ShownOrAnnounced'
      BY <1>1, <1>2, <1>7, <2>3, RequestsTidy
    <3>. QED  BY <1>2, <2>2, <3>1 DEF LinkedInv, AtOnceInv
  <2>4. CASE ~ReadAtOnce
    BY <1>2, <1>4, <2>2, <2>4 DEF LinkedInv, AtOnceInv, ShownOrAnnounced
  <2>. QED  BY <2>3, <2>4
<1>8. CASE UNCHANGED vars
  <2>1. UNCHANGED <<links, bus, query, current, timer, items, hasMore, fixed, config>>
    BY <1>8 DEF vars
  <2>2. LastSaysSo'
    BY <1>2, <2>1 DEF LastSaysSo, About
  <2>3. ReadAtOnce' <=> ReadAtOnce
    BY <1>4, <2>1
  <2>4. AtOnceInv'
    BY <1>1, <2>1, <2>3 DEF LinkedInv, AtOnceInv, OrdersDistinct
  <2>5. ShownOrAnnounced'
    BY <1>1, <2>1, <2>3 DEF LinkedInv, ShownOrAnnounced, NoneWaits, About, ShownResources
  <2>. QED  BY <1>2, <2>2, <2>4, <2>5 DEF LinkedInv
<1>. QED  BY <1>1, <1>5, <1>6, <1>7, <1>8 DEF Next

\* It holds when the model is constructed.
LEMMA LinkedInit == Init => LinkedInv
<1>1. SUFFICES ASSUME Init PROVE LinkedInv
  OBVIOUS
<1>2. IInv /\ StoreTypeOK /\ WatcherTypeOK /\ items \in Seq(Item)
  BY <1>1, InitKeeps, PartsOfInvariant DEF RowsTyped
<1>3. bus = <<>> /\ fixed = <<>> /\ timer = FALSE
  BY <1>1 DEF Init
<1>4. LastSaysSo
  BY <1>3 DEF LastSaysSo
<1>5. CASE ~ReadAtOnce
  BY <1>2, <1>4, <1>5 DEF LinkedInv, AtOnceInv, ShownOrAnnounced
<1>6. CASE ReadAtOnce
  <2>1. PICK result \in Results(current) :
          /\ items = SubSeq(result, 1, Lesser(Lesser(Batch, Limit), Len(result)))
          /\ hasMore = MoreBehind(result, Lesser(Batch, Limit))
    BY <1>1, Zenon DEF Init
  <2>2. current \in Activity /\ Batch \in Nat /\ Limit \in Nat
    BY <1>2, QueryTypes
  <2>3. /\ result \in Seq(Item) /\ Len(result) <= Cardinality(Resource)
        /\ \A k \in 1 .. Len(result) : result[k].data.link = Linked
        /\ {result[k].resource : k \in 1 .. Len(result)} = LinkedTo(QueriedActivities(current))
        /\ \A j, k \in 1 .. Len(result) : result[j].resource = result[k].resource => j = k
    BY <1>2, <1>6, <2>2, LinkedResult
  <2>4. Cardinality(Resource) \in Nat /\ Cardinality(Resource) <= Limit /\ Limit <= Batch
    BY <1>6, StoreAssumption, FS_CardinalityType DEF ReadAtOnce
  <2>5. Lesser(Batch, Limit) = Limit
    BY <2>2, <2>4 DEF Lesser
  <2>6. Len(result) \in Nat /\ Len(result) <= Limit
    BY <2>2, <2>3, <2>4
  <2>7. Lesser(Limit, Len(result)) = Len(result)
    BY <2>2, <2>6 DEF Lesser
  <2>8. Len(items) = Len(result) /\ \A p \in 1 .. Len(result) : items[p] = result[p]
    BY <2>1, <2>2, <2>3, <2>5, <2>7, PageRows
  <2>9. ~hasMore
    <3>1. hasMore = MoreBehind(result, Limit)
      BY <2>1, <2>5
    <3>2. hasMore = (Len(result) > Limit)
      BY <3>1 DEF MoreBehind
    <3>3. ~(Len(result) > Limit)
      BY <2>2, <2>6
    <3>. QED  BY <3>2, <3>3
  <2>10. Distinct(NamesOf(items)) /\ AllShownLinked(items)
    <3>1. \A p \in 1 .. Len(items) : items[p].data.link = Linked
      BY <2>3, <2>8
    <3>2. Linked # NotLinked
      BY DEF Linked, NotLinked
    <3>3. \A j, k \in 1 .. Len(items) : items[j].resource = items[k].resource => j = k
      BY <2>3, <2>8
    <3>. QED  BY <1>2, <3>1, <3>2, <3>3, NamesTyped DEF Distinct, AllShownLinked
  <2>11. IsArranged(NamesOf(items), fixed)
    <3>1. fixed \in Seq(Resource) /\ Len(fixed) = 0
      BY <1>3
    <3>2. \A r : IndexOf(fixed, r) = 1
      <4>1. ASSUME NEW r PROVE IndexOf(fixed, r) = 1
        <5>1. IndexOf(fixed, r) \in 1 .. Len(fixed) + 1
          BY <3>1, FirstIndex
        <5>. QED  BY <3>1, <5>1
      <4>. QED  BY <4>1
    <3>. QED  BY <3>2 DEF IsArranged, PlacedBefore
  <2>12. OrdersDistinct
    <3>1. config = IF query.client THEN [t \in {ActivityTag(current)} |-> <<>>] ELSE <<>>
      BY <1>1 DEF Init
    <3>2. \A t \in DOMAIN config : config[t] = <<>>
      BY <3>1
    <3>3. \A order : order = <<>> => Distinct(order)
      BY DEF Distinct
    <3>. QED  BY <1>3, <3>2, <3>3 DEF OrdersDistinct
  <2>13. ShownResources = LinkedTo(QueriedActivities(current))
    BY <2>3, <2>8 DEF ShownResources
  <2>14. ShownOrAnnounced
    <3>1. query.activities = "current" => LinkedTo(QueriedActivities(current)) = links[current] \cap Resource
      BY DEF LinkedTo, QueriedActivities
    <3>. QED  BY <2>13, <3>1 DEF ShownOrAnnounced
  <2>. QED  BY <1>2, <1>3, <1>4, <2>9, <2>10, <2>11, <2>12, <2>14 DEF LinkedInv, AtOnceInv, Tidy
<1>. QED  BY <1>5, <1>6

-------------------------------------------------------------------------------
(***************************************************************************)
(* The results.                                                            *)
(***************************************************************************)
\* Whatever the manager, the announcements, the requests and the resets do in which
\* order, the list of linked resources stays tidy, and every link that is not shown
\* rightly has an announcement waiting that says so.
THEOREM LinkedInvariant == Spec => []LinkedInv
BY LinkedInit, LinkedStepKeeps, PTL DEF Spec

\* The rows, the saved orders and the order in use hold what the code's types say, and
\* setResultPosition never puts a resource into an order twice.
THEOREM ModelTyped == Spec => []ModelTypeOK
<1>1. ASSUME LinkedInv PROVE ModelTypeOK
  <2>1. IInv /\ AtOnceInv
    BY <1>1 DEF LinkedInv
  <2>2. /\ TypeInv /\ StoreTypeOK /\ WatcherTypeOK /\ RowsTyped /\ OrdersTyped
        /\ calls \subseteq Resource
    BY <2>1, PartsOfInvariant
  <2>3. \A order \in {fixed} \cup {config[t] : t \in DOMAIN config} : order \in Seq(Resource)
    BY <2>2 DEF OrdersTyped
  <2>4. ReadAtOnce => \A order \in {fixed} \cup {config[t] : t \in DOMAIN config} : Distinct(order)
    BY <2>1 DEF AtOnceInv, OrdersDistinct
  <2>. QED  BY <2>2, <2>3, <2>4 DEF ModelTypeOK, RowsTyped, OrdersTyped, Distinct
<1>. QED  BY <1>1, LinkedInvariant, PTL

\* No linked resource is shown twice, although a reset may read it before its link is
\* announced.
THEOREM ShownOnce == Spec => []LinkedOnce
<1>1. ASSUME LinkedInv PROVE LinkedOnce
  <2>1. items \in Seq(Item)
    BY <1>1, PartsOfInvariant DEF LinkedInv, RowsTyped
  <2>2. ReadAtOnce => Distinct(NamesOf(items))
    BY <1>1 DEF LinkedInv, AtOnceInv, Tidy
  <2>. QED  BY <2>1, <2>2, OnlyRow DEF LinkedOnce
<1>. QED  BY <1>1, LinkedInvariant, PTL

\* The rows are in the order chosen by the user, whether they came by an announcement or
\* a reset, and however the order was edited.
THEOREM OrderKept == Spec => []UserOrderKept
<1>1. ASSUME LinkedInv PROVE UserOrderKept
  <2>1. items \in Seq(Item)
    BY <1>1, PartsOfInvariant DEF LinkedInv, RowsTyped
  <2>2. ReadAtOnce => IsArranged(NamesOf(items), fixed)
    BY <1>1 DEF LinkedInv, AtOnceInv, Tidy
  <2>3. /\ DOMAIN NamesOf(items) = 1 .. Len(items)
        /\ \A p \in 1 .. Len(items) : NamesOf(items)[p] = items[p].resource
    BY <2>1, NamesTyped
  <2>. QED  BY <2>2, <2>3 DEF UserOrderKept, IsArranged, FixedItemsLessThan
<1>. QED  BY <1>1, LinkedInvariant, PTL

\* Once every announcement is processed the list shows what is linked to the current
\* activity, although resets read changes ahead of their announcements.
THEOREM ShownExactly == Spec => []LinkedExact
<1>1. ASSUME LinkedInv PROVE LinkedExact
  <2>1. SUFFICES ASSUME ReadAtOnce, query.activities = "current", bus = <<>>
                 PROVE  ShownResources = LinkedTo(QueriedActivities(current))
    BY DEF LinkedExact
  <2>2. items \in Seq(Item) /\ current \in Activity
    BY <1>1, PartsOfInvariant, QueryTypes DEF LinkedInv, RowsTyped
  <2>3. \A r \in Resource : NoneWaits(bus, current, r)
    BY <2>1 DEF NoneWaits
  <2>4. \A r \in Resource : r \in ShownResources <=> r \in links[current]
    BY <1>1, <2>1, <2>3 DEF LinkedInv, ShownOrAnnounced
  <2>5. ShownResources \subseteq Resource
    <3>1. \A p \in 1 .. Len(items) : items[p] \in Item
      BY <2>2
    <3>2. \A x \in Item : x.resource \in Resource
      BY DEF Item
    <3>. QED  BY <3>1, <3>2 DEF ShownResources
  <2>6. LinkedTo(QueriedActivities(current)) = {r \in Resource : r \in links[current]}
    BY <2>1 DEF LinkedTo, QueriedActivities
  <2>. QED  BY <2>4, <2>5, <2>6
<1>. QED  BY <1>1, LinkedInvariant, PTL

-------------------------------------------------------------------------------
(***************************************************************************)
(* A list of the used resources of the current activity: when nothing is   *)
(* pending, it is the beginning of what the query returns.                 *)
(***************************************************************************)

(***************************************************************************)
(* Where it holds.  Each part leaves out what the code gets wrong, or is   *)
(* not asked to get right:                                                 *)
(*   - the manager and the views wait until the model has settled, and no  *)
(*     file is missing;                                                    *)
(*   - no two resources of an activity ever have the same score, which     *)
(*     nothing in the code sees to: SQL puts the lower url first of two    *)
(*     with the same score, the model the higher one;                      *)
(*   - a list that has no room for every resource hears of no score that   *)
(*     fell, which happens: the model keeps the row it shows and does not  *)
(*     look for one that belongs before it;                                *)
(*   - a list by url hears of no new score: the model puts a new row where *)
(*     the higher url comes first.                                         *)
(***************************************************************************)
ScoresDiffer == Uses # "tied"

FallsHaveRoom == Uses = "any" => \A q \in Queries : q.limit <= q.batch => Cardinality(Resource) <= q.limit

ExactSetting ==
    /\ Lockstep
    /\ Missing = {}
    /\ ScoresDiffer
    /\ FallsHaveRoom
    /\ \A q \in Queries :
          /\ q.selection = "UsedResources" /\ q.activities = "current" /\ ~q.client
          /\ q.limit <= q.batch /\ Uses # "none" => q.ordering = "HighScoredFirst"

(***************************************************************************)
(* A list that shows the beginning of a sorted set.                        *)
(***************************************************************************)
\* The list holds elements of S by ascending rank, and what it leaves out comes later.
Leads(list, S, rank) ==
    /\ \A k \in DOMAIN list : list[k] \in S
    /\ \A j, k \in DOMAIN list : j < k => rank[list[j]] < rank[list[k]]
    /\ \A r \in S \ Listed(list) : \A k \in DOMAIN list : rank[list[k]] < rank[r]

UsedOf(scores) == {r \in Resource : scores[r] > 0}

\* Where the query's order puts a used resource when no two have the same score.
Rank(scores) == [r \in Resource |-> IF query.ordering = "HighScoredFirst" THEN -scores[r] ELSE r]

Untied(scores) == \A r, q \in Resource : scores[r] = scores[q] => r = q \/ scores[r] = 0

Resources(rows) == [k \in 1 .. Len(rows) |-> rows[k].resource]

\* The rows are all there are, or as many as the query may show.
Complete(rows, scores) == Len(rows) = Limit \/ UsedOf(scores) \subseteq Listed(Resources(rows))

Covers(rows, more, scores) == /\ more \/ Complete(rows, scores)
                              /\ Limit <= Batch => Complete(rows, scores)

\* The rows are what the model shows when these are the scores in the current activity.
Exact(rows, more, scores) ==
    /\ Untied(scores)
    /\ Leads(Resources(rows), UsedOf(scores), Rank(scores))
    /\ \A k \in 1 .. Len(rows) : rows[k].data.score = scores[rows[k].resource]
    /\ Covers(rows, more, scores)

\* The rows are what it showed before some of the scores were deleted.
Thinned(rows, more, scores) ==
    /\ \A k \in 1 .. Len(rows) : scores[rows[k].resource] \in {0, rows[k].data.score}
    /\ Covers(rows, more, scores)

(***************************************************************************)
(* What waits, and what the list is with regard to it.                     *)
(***************************************************************************)
Scores == stats[current]

Was(r, score) == [Scores EXCEPT ![r] = score]

\* A score that changed rose, or the list shows every resource that was used before.
RoseOrAllShown(r, old, score) == old < score \/ UsedOf(Was(r, old)) \subseteq Listed(Resources(items))

WaitsOk(m) ==
    /\ SendsResultScoreUpdated(m) =>
          /\ Limit <= Batch /\ query.ordering = "HighScoredFirst"
          /\ Scores[m.resource] = m.score /\ m.score > 0
          /\ \E old \in Score : /\ Exact(items, hasMore, Was(m.resource, old))
                              /\ RoseOrAllShown(m.resource, old, m.score)
    /\ SendsResultRemoved(m) =>
          /\ Scores[m.resource] = 0
          /\ \E old \in Score : Exact(items, hasMore, Was(m.resource, old))
    /\ SchedulesInvalidation(m) => Thinned(items, hasMore, Scores)
    /\ Drops(m) => Exact(items, hasMore, Scores)

OneAtATime ==
    /\ checks = {} /\ fixed = <<>>
    /\ Len(bus) <= 1
    /\ bus # <<>> => ~timer /\ calls = {}
    /\ timer => calls = {}
    /\ \A r, q \in calls : r = q
    /\ IF bus # <<>> /\ NextSignal.kind = "CurrentActivityChanged"
       THEN activity = NextSignal.activity
       ELSE current = activity
    /\ \A a \in Activity : Untied(stats[a])

ListFollows ==
    /\ bus # <<>> => NextSignal.kind = "CurrentActivityChanged" \/ WaitsOk(NextSignal)
    /\ timer => Thinned(items, hasMore, Scores)
    /\ bus = <<>> /\ ~timer => Exact(items, hasMore, Scores)

SInv == IInv /\ OneAtATime /\ ListFollows

-------------------------------------------------------------------------------
(***************************************************************************)
(* Lists that lead a sorted set.                                           *)
(***************************************************************************)
\* The ranks of a set are numbers, and no two elements have the same.
Ranks(rank, S) == /\ \A r \in S : rank[r] \in Int
                  /\ \A r, q \in S : rank[r] = rank[q] => r = q

\* Two lists that lead the same set agree as far as the shorter one goes.
LEMMA LeadersAgree ==
    ASSUME NEW S, NEW rank, Ranks(rank, S), NEW T, NEW l \in Seq(T), NEW m \in Seq(T),
           Leads(l, S, rank), Leads(m, S, rank), Len(l) <= Len(m)
    PROVE  \A k \in 1 .. Len(l) : l[k] = m[k]
<1>. DEFINE D == {k \in Nat : k \in 1 .. Len(l) /\ l[k] # m[k]}
<1>1. SUFFICES ASSUME D # {} PROVE FALSE
  OBVIOUS
<1>2. PICK k \in D : \A j \in D : k <= j
  <2>1. D \in SUBSET Nat
    OBVIOUS
  <2>. HIDE DEF D
  <2>. QED  BY <1>1, <2>1, LeastOf
<1>3. /\ k \in 1 .. Len(l) /\ k \in 1 .. Len(m) /\ l[k] # m[k]
      /\ DOMAIN l = 1 .. Len(l) /\ DOMAIN m = 1 .. Len(m)
  BY <1>2
<1>4. \A j \in 1 .. k - 1 : j \in 1 .. Len(l) /\ j \in 1 .. Len(m) /\ l[j] = m[j]
  <2>1. SUFFICES ASSUME NEW j \in 1 .. k - 1
                 PROVE  j \in 1 .. Len(l) /\ j \in 1 .. Len(m) /\ l[j] = m[j]
    OBVIOUS
  <2>2. j \in Nat /\ j \in 1 .. Len(l) /\ j \in 1 .. Len(m) /\ ~(k <= j)
    BY <1>3
  <2>3. j \notin D
    BY <1>2, <2>2
  <2>. QED  BY <2>2, <2>3
<1>. HIDE DEF D
<1>5. l[k] \in S /\ m[k] \in S /\ rank[l[k]] \in Int /\ rank[m[k]] \in Int /\ rank[l[k]] # rank[m[k]]
  BY <1>3 DEF Leads, Ranks
<1>6. CASE rank[l[k]] < rank[m[k]]
  <2>1. l[k] \in Listed(m)
    BY <1>3, <1>5, <1>6 DEF Leads
  <2>2. PICK j \in 1 .. Len(m) : m[j] = l[k]
    BY <1>3, <2>1 DEF Listed
  <2>3. ~(k < j) /\ k # j
    BY <1>3, <1>5, <1>6, <2>2 DEF Leads
  <2>4. j \in 1 .. k - 1
    BY <1>3, <2>2, <2>3
  <2>5. l[j] = l[k] /\ j < k /\ j \in 1 .. Len(l)
    BY <1>3, <1>4, <2>2, <2>4
  <2>. QED  BY <1>3, <1>5, <2>5 DEF Leads
<1>7. CASE rank[m[k]] < rank[l[k]]
  <2>1. m[k] \in Listed(l)
    BY <1>3, <1>5, <1>7 DEF Leads
  <2>2. PICK j \in 1 .. Len(l) : l[j] = m[k]
    BY <1>3, <2>1 DEF Listed
  <2>3. ~(k < j) /\ k # j
    BY <1>3, <1>5, <1>7, <2>2 DEF Leads
  <2>4. j \in 1 .. k - 1
    BY <1>3, <2>2, <2>3
  <2>5. m[j] = m[k] /\ j < k /\ j \in 1 .. Len(m)
    BY <1>3, <1>4, <2>2, <2>4
  <2>. QED  BY <1>3, <1>5, <2>5 DEF Leads
<1>. QED  BY <1>5, <1>6, <1>7

\* The first elements of a list that leads a set lead it too.
LEMMA LeadersPart ==
    ASSUME NEW S, NEW rank, NEW T, NEW l \in Seq(T), NEW m \in Seq(T),
           Leads(m, S, rank), Len(l) <= Len(m), \A k \in 1 .. Len(l) : l[k] = m[k]
    PROVE  Leads(l, S, rank)
<1>1. /\ DOMAIN l = 1 .. Len(l) /\ DOMAIN m = 1 .. Len(m)
      /\ \A k \in 1 .. Len(l) : k \in 1 .. Len(m)
  OBVIOUS
<1>2. \A k \in 1 .. Len(l) : l[k] \in S
  BY <1>1 DEF Leads
<1>3. \A j, k \in 1 .. Len(l) : j < k => rank[l[j]] < rank[l[k]]
  BY <1>1 DEF Leads
<1>4. ASSUME NEW r \in S \ Listed(l), NEW k \in 1 .. Len(l)
      PROVE  rank[l[k]] < rank[r]
  <2>1. CASE r \in Listed(m)
    <3>1. PICK j \in 1 .. Len(m) : m[j] = r
      BY <1>1, <2>1 DEF Listed
    <3>2. ~(j \in 1 .. Len(l))
      BY <1>1, <1>4, <3>1 DEF Listed
    <3>3. k < j
      BY <3>1, <3>2
    <3>. QED  BY <1>1, <3>1, <3>3 DEF Leads
  <2>2. CASE r \notin Listed(m)
    BY <1>1, <2>2 DEF Leads
  <2>. QED  BY <2>1, <2>2
<1>. QED  BY <1>1, <1>2, <1>3, <1>4 DEF Leads

\* A list still leads when elements that it does not hold leave the set.
LEMMA LeadersOfFewer ==
    ASSUME NEW S, NEW rank, NEW T, NEW l \in Seq(T), Leads(l, S, rank),
           NEW S2 \in SUBSET S, \A k \in 1 .. Len(l) : l[k] \in S2
    PROVE  Leads(l, S2, rank)
BY DEF Leads

\* Only the ranks of the set matter.
LEMMA LeadersBySameRank ==
    ASSUME NEW S, NEW rank, NEW rank2, NEW l, Leads(l, S, rank), \A r \in S : rank2[r] = rank[r]
    PROVE  Leads(l, S, rank2)
BY DEF Leads

\* The list without one of its elements holds the others.
LEMMA ListedLess ==
    ASSUME NEW T, NEW l \in Seq(T), NEW m \in Seq(T),
           NEW p \in 1 .. Len(l), Len(m) = Len(l) - 1,
           \A k \in 1 .. Len(m) : m[k] = IF k < p THEN l[k] ELSE l[k + 1]
    PROVE  Listed(l) \subseteq Listed(m) \cup {l[p]}
<1>1. /\ DOMAIN l = 1 .. Len(l) /\ DOMAIN m = 1 .. Len(m)
      /\ \A k \in 1 .. Len(m) : k \in 1 .. Len(l) /\ k + 1 \in 1 .. Len(l)
  OBVIOUS
<1>2. SUFFICES ASSUME NEW r \in Listed(l), r # l[p]
               PROVE  r \in Listed(m)
  OBVIOUS
<1>3. PICK j \in 1 .. Len(l) : r = l[j]
  BY <1>1 DEF Listed
<1>4. CASE j < p
  <2>1. j \in 1 .. Len(m) /\ m[j] = r
    BY <1>3, <1>4
  <2>. QED  BY <1>1, <2>1 DEF Listed
<1>5. CASE ~(j < p)
  <2>1. j # p
    BY <1>2, <1>3
  <2>2. j - 1 \in 1 .. Len(m) /\ ~(j - 1 < p) /\ j - 1 + 1 = j
    BY <1>5, <2>1
  <2>3. m[j - 1] = r
    BY <1>3, <2>2
  <2>. QED  BY <1>1, <2>2, <2>3 DEF Listed
<1>. QED  BY <1>4, <1>5

\* The list without one of its elements leads the set without it.
LEMMA LeadersLess ==
    ASSUME NEW S, NEW rank, NEW T, Ranks(rank, S), NEW l \in Seq(T), NEW m \in Seq(T), Leads(l, S, rank),
           NEW p \in 1 .. Len(l), Len(m) = Len(l) - 1,
           \A k \in 1 .. Len(m) : m[k] = IF k < p THEN l[k] ELSE l[k + 1]
    PROVE  Leads(m, S \ {l[p]}, rank)
<1>1. /\ DOMAIN l = 1 .. Len(l) /\ DOMAIN m = 1 .. Len(m)
      /\ \A k \in 1 .. Len(m) : k \in 1 .. Len(l) /\ k + 1 \in 1 .. Len(l)
  OBVIOUS
<1>. DEFINE g(k) == IF k < p THEN k ELSE k + 1
<1>2. /\ \A k \in 1 .. Len(m) : g(k) \in 1 .. Len(l) /\ g(k) # p /\ m[k] = l[g(k)]
      /\ \A j, k \in 1 .. Len(m) : j < k => g(j) < g(k)
  BY <1>1
<1>. HIDE DEF g
<1>3. \A j \in 1 .. Len(l) : j # p => l[j] # l[p]
  <2>1. SUFFICES ASSUME NEW j \in 1 .. Len(l), j # p PROVE l[j] # l[p]
    OBVIOUS
  <2>2. l[j] \in S /\ l[p] \in S /\ rank[l[j]] \in Int /\ rank[l[p]] \in Int
    BY <1>1 DEF Leads, Ranks
  <2>3. j < p \/ p < j
    BY <2>1
  <2>4. rank[l[j]] < rank[l[p]] \/ rank[l[p]] < rank[l[j]]
    BY <1>1, <2>3 DEF Leads
  <2>. QED  BY <2>2, <2>4
<1>4. \A k \in 1 .. Len(m) : m[k] \in S \ {l[p]}
  BY <1>1, <1>2, <1>3 DEF Leads
<1>5. \A j, k \in 1 .. Len(m) : j < k => rank[m[j]] < rank[m[k]]
  <2>1. \A j, k \in 1 .. Len(l) : j < k => rank[l[j]] < rank[l[k]]
    BY <1>1 DEF Leads
  <2>. QED  BY <1>2, <2>1
<1>6. Listed(l) \subseteq Listed(m) \cup {l[p]}
  BY ListedLess
<1>7. ASSUME NEW r \in (S \ {l[p]}) \ Listed(m), NEW k \in 1 .. Len(m)
      PROVE  rank[m[k]] < rank[r]
  <2>1. r \in S \ Listed(l)
    BY <1>6, <1>7
  <2>. QED  BY <1>1, <1>2, <2>1 DEF Leads
<1>. QED  BY <1>1, <1>4, <1>5, <1>6, <1>7 DEF Leads

\* The list m is the list l with r behind the first elements.
HasPut(m, l, dest, r) ==
    /\ Len(m) = Len(l) + 1
    /\ \A k \in 1 .. Len(m) : m[k] = IF k <= dest THEN l[k] ELSE IF k = dest + 1 THEN r ELSE l[k - 1]

\* The list with an element put somewhere holds it and the others.
LEMMA ListedMore ==
    ASSUME NEW T, NEW r, NEW l \in Seq(T), NEW m \in Seq(T),
           NEW dest \in 0 .. Len(l), HasPut(m, l, dest, r)
    PROVE  Listed(l) \cup {r} \subseteq Listed(m)
<1>0. /\ Len(m) = Len(l) + 1
      /\ \A k \in 1 .. Len(m) : m[k] = IF k <= dest THEN l[k] ELSE IF k = dest + 1 THEN r ELSE l[k - 1]
  BY DEF HasPut
<1>1. DOMAIN l = 1 .. Len(l) /\ DOMAIN m = 1 .. Len(m) /\ Len(l) \in Nat
  OBVIOUS
<1>2. dest + 1 \in 1 .. Len(m) /\ m[dest + 1] = r
  BY <1>0, <1>1
<1>3. ASSUME NEW k \in 1 .. Len(l)
      PROVE  \E j \in 1 .. Len(m) : m[j] = l[k]
  <2>1. CASE k <= dest
    <3>1. k \in 1 .. Len(m) /\ m[k] = l[k]
      BY <1>0, <1>1, <2>1
    <3>. QED  BY <3>1
  <2>2. CASE ~(k <= dest)
    <3>1. k + 1 \in 1 .. Len(m) /\ k + 1 > dest + 1 /\ k + 1 - 1 = k
      BY <1>0, <1>1, <2>2
    <3>2. m[k + 1] = l[k]
      BY <1>0, <1>1, <3>1
    <3>. QED  BY <3>1, <3>2
  <2>. QED  BY <2>1, <2>2
<1>. QED  BY <1>1, <1>2, <1>3 DEF Listed

\* Where an element of S goes in a list of others.
BelongsBehind(dest, r, l, S, rank) ==
    /\ \A k \in 1 .. Len(l) : k <= dest <=> rank[l[k]] < rank[r]
    /\ \A q \in (S \ {r}) \ Listed(l) : rank[r] < rank[q]

\* A new element put where its rank belongs, before all that the list leaves out.
LEMMA LeadersMore ==
    ASSUME NEW S, NEW rank, NEW T, Ranks(rank, S), NEW r \in S,
           NEW l \in Seq(T), NEW m \in Seq(T), Leads(l, S \ {r}, rank),
           NEW dest \in 0 .. Len(l), HasPut(m, l, dest, r), BelongsBehind(dest, r, l, S, rank)
    PROVE  Leads(m, S, rank)
<1>0. /\ Len(m) = Len(l) + 1
      /\ \A k \in 1 .. Len(m) : m[k] = IF k <= dest THEN l[k] ELSE IF k = dest + 1 THEN r ELSE l[k - 1]
      /\ \A k \in 1 .. Len(l) : k <= dest <=> rank[l[k]] < rank[r]
      /\ \A q \in (S \ {r}) \ Listed(l) : rank[r] < rank[q]
  BY DEF HasPut, BelongsBehind
<1>1. /\ DOMAIN l = 1 .. Len(l) /\ DOMAIN m = 1 .. Len(m) /\ Len(l) \in Nat
      /\ \A k \in 1 .. Len(l) : l[k] \in S /\ l[k] # r /\ rank[l[k]] \in Int
      /\ rank[r] \in Int
  BY <1>0 DEF Leads, Ranks
<1>2. \A k \in 1 .. Len(l) : ~(k <= dest) => rank[r] < rank[l[k]]
  BY <1>0, <1>1 DEF Ranks
<1>3. \A k \in 1 .. Len(m) : \/ k <= dest /\ k \in 1 .. Len(l) /\ m[k] = l[k]
                             \/ k = dest + 1 /\ m[k] = r
                             \/ k > dest + 1 /\ k - 1 \in 1 .. Len(l) /\ ~(k - 1 <= dest) /\ m[k] = l[k - 1]
  <2>1. SUFFICES ASSUME NEW k \in 1 .. Len(m)
                 PROVE  \/ k <= dest /\ k \in 1 .. Len(l) /\ m[k] = l[k]
                        \/ k = dest + 1 /\ m[k] = r
                        \/ k > dest + 1 /\ k - 1 \in 1 .. Len(l) /\ ~(k - 1 <= dest) /\ m[k] = l[k - 1]
    OBVIOUS
  <2>2. CASE k <= dest
    BY <1>0, <1>1, <2>2
  <2>3. CASE k = dest + 1
    BY <1>0, <1>1, <2>3
  <2>4. CASE k > dest + 1
    BY <1>0, <1>1, <2>4
  <2>. QED  BY <1>0, <1>1, <2>2, <2>3, <2>4
<1>4. \A k \in 1 .. Len(m) : m[k] \in S
  BY <1>0, <1>1, <1>3
<1>5. ASSUME NEW j \in 1 .. Len(m), NEW k \in 1 .. Len(m), j < k
      PROVE  rank[m[j]] < rank[m[k]]
  <2>1. CASE k <= dest
    <3>1. /\ m[k] = l[k] /\ m[j] = l[j] /\ j \in 1 .. Len(l) /\ k \in 1 .. Len(l)
      BY <1>3, <1>5, <2>1
    <3>. QED  BY <1>0, <1>1, <1>5, <3>1 DEF Leads
  <2>2. CASE k = dest + 1
    <3>1. m[k] = r /\ j <= dest /\ m[j] = l[j] /\ j \in 1 .. Len(l)
      BY <1>0, <1>1, <1>3, <1>5, <2>2
    <3>. QED  BY <1>0, <3>1
  <2>3. CASE k > dest + 1
    <3>1. k - 1 \in 1 .. Len(l) /\ ~(k - 1 <= dest) /\ m[k] = l[k - 1]
      BY <1>0, <1>1, <1>3, <2>3
    <3>2. CASE j <= dest
      <4>1. m[j] = l[j] /\ j \in 1 .. Len(l) /\ j < k - 1
        BY <1>0, <1>1, <1>3, <2>3, <3>2
      <4>. QED  BY <1>0, <1>1, <3>1, <4>1 DEF Leads
    <3>3. CASE j = dest + 1
      <4>1. m[j] = r
        BY <1>0, <1>1, <1>3, <3>3
      <4>. QED  BY <1>2, <3>1, <4>1
    <3>4. CASE j > dest + 1
      <4>1. m[j] = l[j - 1] /\ j - 1 \in 1 .. Len(l) /\ j - 1 < k - 1
        BY <1>0, <1>1, <1>3, <1>5, <3>4
      <4>. QED  BY <1>0, <1>1, <3>1, <4>1 DEF Leads
    <3>. QED  BY <3>2, <3>3, <3>4
  <2>. QED  BY <2>1, <2>2, <2>3
<1>6. Listed(l) \cup {r} \subseteq Listed(m)
  BY ListedMore
<1>7. ASSUME NEW q \in S \ Listed(m), NEW k \in 1 .. Len(m)
      PROVE  rank[m[k]] < rank[q]
  <2>0. q \in (S \ {r}) \ Listed(l)
    BY <1>6, <1>7
  <2>1. q \in (S \ {r}) \ Listed(l) /\ rank[r] < rank[q]
    BY <1>0, <2>0
  <2>2. \A j \in 1 .. Len(l) : rank[l[j]] < rank[q]
    BY <1>0, <1>1, <2>1 DEF Leads
  <2>. QED  BY <1>3, <2>1, <2>2
<1>. QED  BY <1>0, <1>1, <1>4, <1>5, <1>6, <1>7 DEF Leads

\* A list that leads a set and is as long as one that holds all of it holds all of it.
LEMMA LeadersOfAll ==
    ASSUME NEW S, NEW rank, Ranks(rank, S), NEW T, NEW l \in Seq(T), NEW m \in Seq(T), Leads(m, S, rank),
           S \subseteq Listed(l), Len(l) = Len(m)
    PROVE  S \subseteq Listed(m)
<1>. DEFINE n == Len(m)
            D == 1 .. n
            f == [k \in D |-> l[k]]
            g == [k \in D |-> m[k]]
<1>1. /\ n \in Nat /\ DOMAIN l = D /\ DOMAIN m = D
      /\ Listed(l) = {l[k] : k \in D} /\ Listed(m) = {m[k] : k \in D}
  BY DEF Listed
<1>2. IsFiniteSet(D) /\ Cardinality(D) = n
  <2>1. n \in Int /\ 1 \in Int
    BY <1>1
  <2>. HIDE DEF n
  <2>2. IsFiniteSet(1 .. n) /\ Cardinality(1 .. n) = IF 1 > n THEN 0 ELSE n - 1 + 1
    BY <2>1, FS_Interval
  <2>. QED  BY <1>1, <2>2
<1>3. \A j, k \in D : m[j] = m[k] => j = k
  <2>1. SUFFICES ASSUME NEW j \in D, NEW k \in D, j < k
                 PROVE  m[j] # m[k]
    BY <1>1
  <2>2. m[j] \in S /\ rank[m[j]] \in Int /\ rank[m[j]] < rank[m[k]]
    BY <1>1, <2>1 DEF Leads, Ranks
  <2>. QED  BY <2>2
<1>4. Listed(m) \subseteq S
  BY <1>1 DEF Leads
<1>. HIDE DEF D, n
<1>5. f \in Surjection(D, Listed(l))
  BY <1>1 DEF Surjection
<1>6. g \in Bijection(D, Listed(m))
  BY <1>1, <1>3 DEF Bijection, Injection, IsInjective, Surjection
<1>. HIDE DEF f, g
<1>7. IsFiniteSet(Listed(l)) /\ Cardinality(Listed(l)) <= n
  BY <1>2, <1>5, FS_Surjection
<1>8. IsFiniteSet(S) /\ Cardinality(S) <= Cardinality(Listed(l))
  BY <1>7, FS_Subset
<1>9. Cardinality(Listed(m)) = n
  <2>1. ExistsBijection(D, Listed(m))
    BY <1>6 DEF ExistsBijection
  <2>. QED  BY <1>2, <2>1, FS_Bijection
<1>10. Cardinality(S) \in Nat /\ Cardinality(Listed(l)) \in Nat
  BY <1>7, <1>8, FS_CardinalityType
<1>11. Cardinality(Listed(m)) <= Cardinality(S) /\ (Cardinality(Listed(m)) = Cardinality(S) => Listed(m) = S)
  BY <1>4, <1>8, FS_Subset
<1>12. Cardinality(Listed(m)) = Cardinality(S)
  BY <1>1, <1>7, <1>8, <1>9, <1>10, <1>11
<1>. QED  BY <1>11, <1>12

\* A finite set whose elements have ranks can be listed by ascending rank: each element
\* goes to the place that the number of those before it says.
LEMMA RankedListExists ==
    ASSUME NEW S, IsFiniteSet(S), NEW rank, Ranks(rank, S)
    PROVE  \E f \in [1 .. Cardinality(S) -> S] :
              \A i, j \in 1 .. Cardinality(S) : i < j => rank[f[i]] < rank[f[j]]
<1>. DEFINE n == Cardinality(S)
            upTo(r) == {q \in S : rank[q] <= rank[r]}
            place == [r \in S |-> Cardinality(upTo(r))]
<1>1. n \in Nat
  BY FS_CardinalityType
<1>2. IsFiniteSet(1 .. n) /\ Cardinality(1 .. n) = n
  <2>. HIDE DEF n
  <2>1. n \in Int /\ 1 \in Int
    BY <1>1
  <2>2. IsFiniteSet(1 .. n) /\ Cardinality(1 .. n) = IF 1 > n THEN 0 ELSE n - 1 + 1
    BY <2>1, FS_Interval
  <2>. QED  BY <1>1, <2>2
<1>3. \A r \in S : /\ upTo(r) \in SUBSET S /\ r \in upTo(r) /\ IsFiniteSet(upTo(r))
                   /\ Cardinality(upTo(r)) \in 1 .. n
  <2>1. SUFFICES ASSUME NEW r \in S
                 PROVE  /\ upTo(r) \in SUBSET S /\ r \in upTo(r) /\ IsFiniteSet(upTo(r))
                        /\ Cardinality(upTo(r)) \in 1 .. n
    OBVIOUS
  <2>2. upTo(r) \in SUBSET S /\ r \in upTo(r)
    BY DEF Ranks
  <2>. HIDE DEF upTo
  <2>3. IsFiniteSet(upTo(r)) /\ Cardinality(upTo(r)) <= n
    BY <2>2, FS_Subset
  <2>4. Cardinality(upTo(r)) \in Nat /\ Cardinality(upTo(r)) # 0
    BY <2>2, <2>3, FS_CardinalityType, FS_EmptySet
  <2>. QED  BY <1>1, <2>2, <2>3, <2>4
<1>4. \A r, q \in S : rank[r] < rank[q] => Cardinality(upTo(r)) < Cardinality(upTo(q))
  <2>1. SUFFICES ASSUME NEW r \in S, NEW q \in S, rank[r] < rank[q]
                 PROVE  Cardinality(upTo(r)) < Cardinality(upTo(q))
    OBVIOUS
  <2>2. rank[r] \in Int /\ rank[q] \in Int /\ \A x \in S : rank[x] \in Int
    BY DEF Ranks
  <2>3. upTo(r) \subseteq upTo(q)
    <3>1. ASSUME NEW x \in S, rank[x] <= rank[r]
          PROVE  rank[x] <= rank[q]
      BY <2>1, <2>2, <3>1
    <3>. QED  BY <3>1
  <2>4. q \notin upTo(r) /\ q \in upTo(q)
    BY <2>1, <2>2
  <2>. HIDE DEF upTo
  <2>5. IsFiniteSet(upTo(q)) /\ Cardinality(upTo(q)) \in Nat /\ Cardinality(upTo(r)) \in Nat
    BY <1>1, <1>3
  <2>6. Cardinality(upTo(r)) <= Cardinality(upTo(q)) /\ Cardinality(upTo(r)) # Cardinality(upTo(q))
    BY <2>3, <2>4, <2>5, FS_Subset
  <2>. QED  BY <2>5, <2>6
<1>. HIDE DEF upTo, n
<1>5. place \in [S -> 1 .. n] /\ \A r \in S : place[r] = Cardinality(upTo(r))
  BY <1>3
<1>. HIDE DEF place
<1>6. \A r, q \in S : place[r] = place[q] => r = q
  <2>1. SUFFICES ASSUME NEW r \in S, NEW q \in S, r # q
                 PROVE  place[r] # place[q]
    OBVIOUS
  <2>2. rank[r] \in Int /\ rank[q] \in Int /\ rank[r] # rank[q]
    BY <2>1 DEF Ranks
  <2>3. rank[r] < rank[q] \/ rank[q] < rank[r]
    BY <2>2
  <2>4. place[r] < place[q] \/ place[q] < place[r]
    BY <1>4, <1>5, <2>3
  <2>5. place[r] \in Int /\ place[q] \in Int
    BY <1>1, <1>5
  <2>. QED  BY <2>4, <2>5
<1>7. place \in Surjection(S, 1 .. n)
  <2>1. place \in Injection(S, 1 .. n)
    BY <1>5, <1>6 DEF Injection, IsInjective
  <2>2. Cardinality(S) = Cardinality(1 .. n)
    BY <1>2 DEF n
  <2>. QED  BY <1>2, <2>1, <2>2, FS_Injection
<1>8. \A k \in 1 .. n : \E r \in S : place[r] = k
  BY <1>7 DEF Surjection
<1>. DEFINE f == [k \in 1 .. n |-> CHOOSE r \in S : place[r] = k]
<1>9. f \in [1 .. n -> S] /\ \A k \in 1 .. n : place[f[k]] = k
  <2>1. \A k \in 1 .. n : f[k] = CHOOSE r \in S : place[r] = k
    OBVIOUS
  <2>2. \A k \in 1 .. n : f[k] \in S /\ place[f[k]] = k
    <3>1. SUFFICES ASSUME NEW k \in 1 .. n PROVE f[k] \in S /\ place[f[k]] = k
      OBVIOUS
    <3>2. \E r \in S : place[r] = k
      BY <1>8
    <3>. DEFINE x == CHOOSE r \in S : place[r] = k
    <3>3. x \in S /\ place[x] = k
      BY <3>2
    <3>4. f[k] = x
      BY <2>1
    <3>. HIDE DEF x
    <3>. QED  BY <3>3, <3>4
  <2>. QED  BY <2>2
<1>. HIDE DEF f
<1>10. ASSUME NEW i \in 1 .. n, NEW j \in 1 .. n, i < j
       PROVE  rank[f[i]] < rank[f[j]]
  <2>1. f[i] \in S /\ f[j] \in S /\ place[f[i]] = i /\ place[f[j]] = j
    BY <1>9
  <2>2. rank[f[i]] \in Int /\ rank[f[j]] \in Int /\ f[i] # f[j]
    BY <1>1, <1>10, <2>1 DEF Ranks
  <2>3. ~(rank[f[j]] < rank[f[i]])
    <3>1. SUFFICES ASSUME rank[f[j]] < rank[f[i]] PROVE FALSE
      OBVIOUS
    <3>2. place[f[j]] < place[f[i]]
      BY <1>4, <1>5, <2>1, <3>1
    <3>. QED  BY <1>1, <1>10, <2>1, <3>2
  <2>4. rank[f[i]] # rank[f[j]]
    BY <2>1, <2>2 DEF Ranks
  <2>. QED  BY <2>2, <2>3, <2>4
<1>. QED  BY <1>9, <1>10 DEF n

-------------------------------------------------------------------------------
(***************************************************************************)
(* What such a query returns.                                              *)
(***************************************************************************)
\* The queries in question, and what follows for the model's parameters.
LEMMA QueriesInQuestion ==
    ASSUME ExactSetting, WatcherTypeOK
    PROVE  /\ query.selection = "UsedResources" /\ query.activities = "current" /\ ~query.client
           /\ Limit <= Batch /\ Uses # "none" => query.ordering = "HighScoredFirst"
           /\ Limit <= Batch /\ Uses = "any" => Cardinality(Resource) <= Limit
           /\ Limit \in Nat \ {0} /\ Batch \in Nat \ {0}
           /\ current \in Activity
           /\ \A cur : QueriedActivities(cur) = {cur}
<1>1. query \in Queries
  BY DEF WatcherTypeOK
<1>2. query.selection = "UsedResources" /\ query.activities = "current" /\ ~query.client
  BY <1>1 DEF ExactSetting
<1>3. Limit <= Batch /\ Uses # "none" => query.ordering = "HighScoredFirst"
  BY <1>1 DEF ExactSetting, Limit, Batch
<1>4. Limit <= Batch /\ Uses = "any" => Cardinality(Resource) <= Limit
  BY <1>1 DEF ExactSetting, FallsHaveRoom, Limit, Batch
<1>. QED  BY <1>2, <1>3, <1>4, QueryTypes DEF QueriedActivities

\* Scores without ties give ranks.
LEMMA ScoresRank ==
    ASSUME NEW scores \in [Resource -> Score], Untied(scores)
    PROVE  /\ Ranks(Rank(scores), UsedOf(scores))
           /\ \A r \in Resource : /\ scores[r] \in Nat /\ r \in Nat
                                  /\ Rank(scores)[r] \in Int
                                  /\ Rank(scores)[r] = IF query.ordering = "HighScoredFirst" THEN -scores[r] ELSE r
<1>1. \A r \in Resource : scores[r] \in Nat /\ r \in Nat
  BY StoreAssumption DEF Score
<1>2. \A r \in Resource : Rank(scores)[r] = IF query.ordering = "HighScoredFirst" THEN -scores[r] ELSE r
  BY DEF Rank
<1>3. \A r \in Resource : Rank(scores)[r] \in Int
  BY <1>1, <1>2
<1>4. ASSUME NEW r \in UsedOf(scores), NEW q \in UsedOf(scores), Rank(scores)[r] = Rank(scores)[q]
      PROVE  r = q
  <2>1. r \in Resource /\ q \in Resource /\ scores[r] > 0
    BY DEF UsedOf
  <2>2. scores[r] = scores[q] \/ r = q
    BY <1>1, <1>2, <1>4, <2>1
  <2>. QED  BY <1>1, <2>1, <2>2 DEF Untied
<1>5. \A r \in UsedOf(scores) : r \in Resource
  BY DEF UsedOf
<1>. QED  BY <1>1, <1>2, <1>3, <1>4, <1>5 DEF Ranks

\* The sum over one activity is its score.
LEMMA OneActivity ==
    ASSUME StoreTypeOK, NEW a \in Activity, NEW r \in Resource
    PROVE  TotalScore({a}, r) = stats[a][r]
<1>. DEFINE A == {a}
            f == [b \in A |-> stats[b][r]]
            ch == [s \in SUBSET A |-> CHOOSE x \in s : TRUE]
<1>1. A \in SUBSET Activity
  OBVIOUS
<1>2. PICK g : IsSum(g, A, f, ch) /\ TotalScore(A, r) = g[A]
  <2>. HIDE DEF A
  <2>. QED  BY <1>1, TotalIsSum
<1>3. A # {} /\ A \in SUBSET A /\ {} \in SUBSET A /\ ch[A] = a /\ f[a] = stats[a][r] /\ A \ {a} = {}
  <2>1. (CHOOSE x \in A : TRUE) \in A
    OBVIOUS
  <2>. QED  BY <2>1
<1>4. stats[a][r] \in Nat
  BY StoreAssumption DEF StoreTypeOK, Score
<1>. HIDE DEF A, f, ch
<1>5. g[A] = f[ch[A]] + g[A \ {ch[A]}] /\ g[{}] = 0
  <2>1. \A s \in SUBSET A : g[s] = IF s = {} THEN 0 ELSE f[ch[s]] + g[s \ {ch[s]}]
    BY <1>2 DEF IsSum
  <2>. QED  BY <1>3, <2>1
<1>6. g[A] = stats[a][r] + 0
  BY <1>3, <1>5
<1>. QED  BY <1>2, <1>4, <1>6 DEF A

\* The rows are those of the used resources, with their scores.
LEMMA UsedRowsAre ==
    ASSUME ExactSetting, StoreTypeOK, WatcherTypeOK, NEW cur \in Activity
    PROVE  /\ QueriedRows(cur) \in SUBSET Item
           /\ \A x \in QueriedRows(cur) : /\ x.resource \in UsedOf(stats[cur])
                                          /\ x.data.score = stats[cur][x.resource]
                                          /\ x.data.link = Unknown
           /\ \A r \in UsedOf(stats[cur]) : \E x \in QueriedRows(cur) : x.resource = r
           /\ \A x, y \in QueriedRows(cur) : x.resource = y.resource => x = y
<1>1. QueriedRows(cur) = UsedRows({cur}, Resource, Unknown)
  BY QueriesInQuestion DEF QueriedRows, QueryRows
<1>2. UsedIn({cur}) \cap Resource = UsedOf(stats[cur])
  BY DEF UsedIn, UsedOf
<1>3. QueriedRows(cur) = {[resource |-> r, data |-> [score |-> TotalScore({cur}, r), link |-> Unknown]] :
                             r \in UsedOf(stats[cur])}
  BY <1>1, <1>2 DEF UsedRows
<1>4. \A r \in UsedOf(stats[cur]) : r \in Resource /\ TotalScore({cur}, r) = stats[cur][r]
  BY OneActivity DEF UsedOf
<1>5. ASSUME NEW x \in QueriedRows(cur)
      PROVE  /\ x.resource \in UsedOf(stats[cur])
             /\ x.data.score = stats[cur][x.resource]
             /\ x.data.link = Unknown
  <2>1. PICK r \in UsedOf(stats[cur]) :
           x = [resource |-> r, data |-> [score |-> TotalScore({cur}, r), link |-> Unknown]]
    BY <1>3
  <2>. QED  BY <1>4, <2>1
<1>6. ASSUME NEW r \in UsedOf(stats[cur])
      PROVE  \E x \in QueriedRows(cur) : x.resource = r
  <2>. DEFINE x == [resource |-> r, data |-> [score |-> TotalScore({cur}, r), link |-> Unknown]]
  <2>1. x \in QueriedRows(cur)
    BY <1>3
  <2>2. x.resource = r
    OBVIOUS
  <2>. HIDE DEF x
  <2>. QED  BY <2>1, <2>2
<1>7. /\ QueriedRows(cur) \in SUBSET Item
      /\ \A x, y \in QueriedRows(cur) : x.resource = y.resource => x = y
  BY QueryTypes, RowsOfQuery DEF QueriedRows
<1>. QED  BY <1>5, <1>6, <1>7

\* Without ties the query's order is that of the ranks.
LEMMA OrderIsRank ==
    ASSUME ExactSetting, StoreTypeOK, WatcherTypeOK, NEW cur \in Activity, Untied(stats[cur]),
           NEW x \in QueriedRows(cur), NEW y \in QueriedRows(cur)
    PROVE  SqlBefore(query.ordering, x, y) <=> Rank(stats[cur])[x.resource] < Rank(stats[cur])[y.resource]
<1>. DEFINE scores == stats[cur]
            r == x.resource
            q == y.resource
<1>1. /\ r \in UsedOf(scores) /\ q \in UsedOf(scores)
      /\ x.data.score = scores[r] /\ y.data.score = scores[q]
      /\ x.data.link = Unknown /\ y.data.link = Unknown
  BY UsedRowsAre
<1>2. scores \in [Resource -> Score]
  BY DEF StoreTypeOK
<1>. HIDE DEF scores
<1>3. r \in Resource /\ q \in Resource /\ scores[r] > 0
  BY <1>1 DEF UsedOf
<1>4. /\ scores[r] \in Nat /\ scores[q] \in Nat /\ r \in Nat /\ q \in Nat
      /\ Rank(scores)[r] = IF query.ordering = "HighScoredFirst" THEN -scores[r] ELSE r
      /\ Rank(scores)[q] = IF query.ordering = "HighScoredFirst" THEN -scores[q] ELSE q
  BY <1>2, <1>3, ScoresRank DEF scores
<1>5. scores[r] = scores[q] => r = q
  <2>1. scores[r] # 0
    BY <1>3, <1>4
  <2>. QED  BY <1>3, <2>1 DEF Untied, scores
<1>6. SqlBefore(query.ordering, x, y)
         <=> \/ query.ordering = "HighScoredFirst" /\ scores[r] > scores[q]
             \/ (query.ordering = "HighScoredFirst" => scores[r] = scores[q]) /\ r < q
  <2>1. ~(Unknown > Unknown)
    BY DEF Unknown
  <2>. QED  BY <1>1, <2>1 DEF SqlBefore
<1>. HIDE DEF r, q
<1>7. SqlBefore(query.ordering, x, y) <=> Rank(scores)[r] < Rank(scores)[q]
  <2>1. CASE query.ordering = "HighScoredFirst"
    BY <1>4, <1>5, <1>6, <2>1
  <2>2. CASE query.ordering # "HighScoredFirst"
    BY <1>4, <1>6, <2>2
  <2>. QED  BY <2>1, <2>2
<1>. QED  BY <1>7 DEF r, q, scores

\* A result lists the used resources by rank, all of them, with their scores.
LEMMA ResultLeads ==
    ASSUME ExactSetting, StoreTypeOK, WatcherTypeOK, NEW cur \in Activity, Untied(stats[cur]),
           NEW result \in Results(cur)
    PROVE  /\ result \in Seq(Item)
           /\ Resources(result) \in Seq(Resource) /\ Len(Resources(result)) = Len(result)
           /\ \A k \in 1 .. Len(result) : /\ Resources(result)[k] = result[k].resource
                                          /\ result[k].data.score = stats[cur][result[k].resource]
           /\ Leads(Resources(result), UsedOf(stats[cur]), Rank(stats[cur]))
           /\ UsedOf(stats[cur]) \subseteq Listed(Resources(result))
<1>. DEFINE list == Resources(result)
            scores == stats[cur]
<1>1. /\ result \in Seq(Item)
      /\ \A k \in 1 .. Len(result) : result[k] \in QueriedRows(cur)
      /\ \A x \in QueriedRows(cur) : \E k \in 1 .. Len(result) : result[k] = x
  BY ResultLists
<1>2. /\ Len(result) \in Nat /\ DOMAIN result = 1 .. Len(result)
      /\ \A k \in 1 .. Len(result) : result[k] \in Item
  BY <1>1
<1>3. /\ list \in Seq(Resource) /\ Len(list) = Len(result) /\ DOMAIN list = 1 .. Len(result)
      /\ \A k \in 1 .. Len(result) : list[k] = result[k].resource
  <2>1. \A k \in 1 .. Len(result) : result[k].resource \in Resource
    BY <1>2 DEF Item
  <2>. QED  BY <1>2, <2>1 DEF Resources
<1>. HIDE DEF list
<1>4. \A k \in 1 .. Len(result) : /\ list[k] \in UsedOf(scores)
                                  /\ result[k].data.score = scores[result[k].resource]
  <2>1. \A x \in QueriedRows(cur) : x.resource \in UsedOf(scores) /\ x.data.score = scores[x.resource]
    BY UsedRowsAre
  <2>. HIDE DEF scores
  <2>. QED  BY <1>1, <1>3, <2>1
<1>5. UsedOf(scores) \subseteq Listed(list)
  <2>1. SUFFICES ASSUME NEW r \in UsedOf(scores) PROVE r \in Listed(list)
    OBVIOUS
  <2>2. PICK x \in QueriedRows(cur) : x.resource = r
    BY UsedRowsAre
  <2>3. PICK k \in 1 .. Len(result) : result[k] = x
    BY <1>1
  <2>. QED  BY <1>3, <2>2, <2>3 DEF Listed
<1>6. ASSUME NEW j \in 1 .. Len(result), NEW k \in 1 .. Len(result), j < k
      PROVE  Rank(scores)[list[j]] < Rank(scores)[list[k]]
  <2>1. SqlBefore(query.ordering, result[j], result[k])
    <3>1. \A i1, i2 \in DOMAIN result : i1 < i2 => SqlBefore(query.ordering, result[i1], result[i2])
      BY ResultsAre
    <3>. QED  BY <1>2, <1>6, <3>1
  <2>2. result[j] \in QueriedRows(cur) /\ result[k] \in QueriedRows(cur)
    BY <1>1
  <2>3. Rank(scores)[result[j].resource] < Rank(scores)[result[k].resource]
    BY <2>1, <2>2, OrderIsRank
  <2>. HIDE DEF scores
  <2>. QED  BY <1>3, <2>3
<1>7. Leads(list, UsedOf(scores), Rank(scores))
  <2>. HIDE DEF scores
  <2>. QED  BY <1>3, <1>4, <1>5, <1>6 DEF Leads
<1>. QED  BY <1>1, <1>3, <1>4, <1>5, <1>7 DEF list, scores

\* There is a result.
LEMMA ResultExists ==
    ASSUME ExactSetting, StoreTypeOK, WatcherTypeOK, NEW cur \in Activity, Untied(stats[cur])
    PROVE  Results(cur) # {}
<1>. DEFINE set == QueriedRows(cur)
            rank == [x \in set |-> Rank(stats[cur])[x.resource]]
<1>1. /\ set \in SUBSET Item
      /\ \A x \in set : x.resource \in UsedOf(stats[cur])
      /\ \A x, y \in set : x.resource = y.resource => x = y
  BY UsedRowsAre
<1>2. IsFiniteSet(set)
  <2>. HIDE DEF set
  <2>. QED  BY <1>1, FewRows
<1>3. Ranks(Rank(stats[cur]), UsedOf(stats[cur]))
  BY ScoresRank DEF StoreTypeOK
<1>4. Ranks(rank, set)
  <2>. HIDE DEF set
  <2>. QED  BY <1>1, <1>3 DEF Ranks
<1>5. \A x, y \in set : rank[x] < rank[y] => SqlBefore(query.ordering, x, y)
  BY OrderIsRank
<1>. HIDE DEF rank, set
<1>6. PICK f \in [1 .. Cardinality(set) -> set] :
         \A i, j \in 1 .. Cardinality(set) : i < j => rank[f[i]] < rank[f[j]]
  BY <1>2, <1>4, RankedListExists
<1>7. \A i, j \in DOMAIN f : i < j => SqlBefore(query.ordering, f[i], f[j])
  BY <1>5, <1>6
<1>8. f \in Results(cur)
  BY <1>7, ResultsAre DEF set
<1>. QED  BY <1>8

\* A result is as the one that the properties look at.
LEMMA SqlResultIs ==
    ASSUME ExactSetting, StoreTypeOK, WatcherTypeOK, Untied(Scores)
    PROVE  SqlResult \in Results(current)
BY ResultExists, QueriesInQuestion, Zenon DEF SqlResult, Scores

-------------------------------------------------------------------------------
(***************************************************************************)
(* Exact lists.                                                            *)
(***************************************************************************)
\* What the list of resources of some rows is.
LEMMA ResourcesOf ==
    ASSUME NEW rows \in Seq(Item)
    PROVE  /\ Resources(rows) \in Seq(Resource) /\ Len(Resources(rows)) = Len(rows)
           /\ DOMAIN Resources(rows) = 1 .. Len(rows) /\ Len(rows) \in Nat
           /\ \A k \in 1 .. Len(rows) : Resources(rows)[k] = rows[k].resource
           /\ \A k \in 1 .. Len(rows) : rows[k].resource \in Resource
           /\ Listed(Resources(rows)) = {rows[k].resource : k \in 1 .. Len(rows)}
<1>1. Len(rows) \in Nat /\ \A k \in 1 .. Len(rows) : rows[k] \in Item
  OBVIOUS
<1>2. \A k \in 1 .. Len(rows) : rows[k].resource \in Resource
  BY <1>1 DEF Item
<1>3. /\ Resources(rows) \in Seq(Resource) /\ Len(Resources(rows)) = Len(rows)
      /\ DOMAIN Resources(rows) = 1 .. Len(rows)
      /\ \A k \in 1 .. Len(rows) : Resources(rows)[k] = rows[k].resource
  BY <1>1, <1>2 DEF Resources
<1>4. Listed(Resources(rows)) = {rows[k].resource : k \in 1 .. Len(rows)}
  BY <1>3 DEF Listed
<1>. QED  BY <1>1, <1>2, <1>3, <1>4

\* In front of a result: rows with the first of its resources and their scores.
Fronts(rows, result) ==
    /\ Len(rows) <= Len(result)
    /\ \A k \in 1 .. Len(rows) : /\ rows[k].resource = result[k].resource
                                 /\ rows[k].data.score = result[k].data.score

\* An exact list is in front of each result.
LEMMA ExactFronts ==
    ASSUME ExactSetting, StoreTypeOK, WatcherTypeOK, NEW cur \in Activity, Untied(stats[cur]),
           NEW result \in Results(cur), NEW rows \in Seq(Item),
           Leads(Resources(rows), UsedOf(stats[cur]), Rank(stats[cur])),
           \A k \in 1 .. Len(rows) : rows[k].data.score = stats[cur][rows[k].resource]
    PROVE  /\ Fronts(rows, result)
           /\ UsedOf(stats[cur]) \subseteq Listed(Resources(rows)) <=> Len(rows) = Len(result)
<1>. DEFINE list == Resources(rows)
            all == Resources(result)
            S == UsedOf(stats[cur])
            rank == Rank(stats[cur])
<1>1. /\ list \in Seq(Resource) /\ Len(list) = Len(rows) /\ DOMAIN list = 1 .. Len(rows) /\ Len(rows) \in Nat
      /\ \A k \in 1 .. Len(rows) : list[k] = rows[k].resource
  BY ResourcesOf
<1>2. /\ all \in Seq(Resource) /\ Len(all) = Len(result) /\ result \in Seq(Item) /\ Len(result) \in Nat
      /\ \A k \in 1 .. Len(result) : /\ all[k] = result[k].resource
                                     /\ result[k].data.score = stats[cur][result[k].resource]
      /\ Leads(all, S, rank) /\ S \subseteq Listed(all)
  <2>1. /\ result \in Seq(Item)
        /\ all \in Seq(Resource) /\ Len(all) = Len(result)
        /\ \A k \in 1 .. Len(result) : /\ all[k] = result[k].resource
                                       /\ result[k].data.score = stats[cur][result[k].resource]
        /\ Leads(all, S, rank) /\ S \subseteq Listed(all)
    BY ResultLeads
  <2>. QED  BY <2>1
<1>3. Ranks(rank, S)
  BY ScoresRank DEF StoreTypeOK
<1>4. Leads(list, S, rank)
  OBVIOUS
<1>. HIDE DEF list, all, S, rank
<1>5. Len(list) <= Len(all)
  <2>1. SUFFICES ASSUME Len(all) < Len(list) PROVE FALSE
    BY <1>1, <1>2
  <2>2. \A k \in 1 .. Len(all) : all[k] = list[k]
    <3>1. Len(all) <= Len(list)
      BY <1>1, <1>2, <2>1
    <3>. QED  BY <1>1, <1>2, <1>3, <1>4, <3>1, LeadersAgree
  <2>. DEFINE n == Len(list)
  <2>3. n \in 1 .. Len(rows) /\ list[n] \in S
    BY <1>1, <1>2, <1>4, <2>1 DEF Leads
  <2>4. PICK k \in 1 .. Len(all) : all[k] = list[n]
    BY <1>2, <2>3 DEF Listed
  <2>5. k \in 1 .. Len(rows) /\ k < n /\ list[k] = list[n]
    BY <1>1, <1>2, <2>1, <2>2, <2>4
  <2>6. rank[list[k]] < rank[list[n]] /\ rank[list[n]] \in Int
    BY <1>1, <1>3, <1>4, <2>3, <2>5 DEF Leads, Ranks
  <2>. QED  BY <2>5, <2>6
<1>6. \A k \in 1 .. Len(list) : list[k] = all[k]
  BY <1>1, <1>2, <1>3, <1>4, <1>5, LeadersAgree
<1>7. ASSUME NEW k \in 1 .. Len(rows)
      PROVE  rows[k].resource = result[k].resource /\ rows[k].data.score = result[k].data.score
  <2>1. k \in 1 .. Len(result) /\ list[k] = all[k]
    BY <1>1, <1>2, <1>5, <1>6
  <2>. QED  BY <1>1, <1>2, <2>1
<1>8. Len(rows) = Len(result) => S \subseteq Listed(list)
  <2>1. ASSUME Len(rows) = Len(result), NEW r \in S
        PROVE  r \in Listed(list)
    <3>1. PICK k \in 1 .. Len(all) : all[k] = r
      BY <1>2 DEF Listed
    <3>2. k \in 1 .. Len(rows) /\ list[k] = r
      BY <1>1, <1>2, <1>6, <2>1, <3>1
    <3>. QED  BY <1>1, <3>2 DEF Listed
  <2>. QED  BY <2>1
<1>9. S \subseteq Listed(list) => Len(rows) = Len(result)
  <2>1. SUFFICES ASSUME S \subseteq Listed(list), Len(rows) # Len(result) PROVE FALSE
    OBVIOUS
  <2>. DEFINE n == Len(rows) + 1
  <2>2. n \in 1 .. Len(all) /\ Len(rows) < n
    BY <1>1, <1>2, <1>5, <2>1
  <2>3. all[n] \in S
    BY <1>2, <2>2 DEF Leads
  <2>4. PICK k \in 1 .. Len(rows) : list[k] = all[n]
    BY <1>1, <2>1, <2>3 DEF Listed
  <2>5. k \in 1 .. Len(all) /\ k < n /\ all[k] = all[n]
    BY <1>1, <1>2, <1>5, <1>6, <2>2, <2>4
  <2>6. rank[all[k]] < rank[all[n]] /\ rank[all[n]] \in Int
    BY <1>2, <1>3, <2>2, <2>3, <2>5 DEF Leads, Ranks
  <2>. QED  BY <2>5, <2>6
<1>. QED  BY <1>1, <1>2, <1>5, <1>7, <1>8, <1>9 DEF Fronts, list, all, S

\* Rows in front of a result are exact.
LEMMA FrontsExact ==
    ASSUME ExactSetting, StoreTypeOK, WatcherTypeOK, NEW cur \in Activity, Untied(stats[cur]),
           NEW result \in Results(cur), NEW rows \in Seq(Item), Fronts(rows, result)
    PROVE  /\ Leads(Resources(rows), UsedOf(stats[cur]), Rank(stats[cur]))
           /\ \A k \in 1 .. Len(rows) : rows[k].data.score = stats[cur][rows[k].resource]
           /\ Len(rows) = Len(result) => UsedOf(stats[cur]) \subseteq Listed(Resources(rows))
<1>. DEFINE list == Resources(rows)
            all == Resources(result)
            S == UsedOf(stats[cur])
            rank == Rank(stats[cur])
<1>1. /\ list \in Seq(Resource) /\ Len(list) = Len(rows) /\ DOMAIN list = 1 .. Len(rows) /\ Len(rows) \in Nat
      /\ \A k \in 1 .. Len(rows) : list[k] = rows[k].resource
  BY ResourcesOf
<1>2. /\ result \in Seq(Item)
      /\ all \in Seq(Resource) /\ Len(all) = Len(result)
      /\ \A k \in 1 .. Len(result) : /\ all[k] = result[k].resource
                                     /\ result[k].data.score = stats[cur][result[k].resource]
      /\ Leads(all, S, rank) /\ S \subseteq Listed(all)
  BY ResultLeads
<1>. HIDE DEF list, all, S, rank
<1>3. \A k \in 1 .. Len(rows) : k \in 1 .. Len(result)
  BY <1>1, <1>2 DEF Fronts
<1>4. \A k \in 1 .. Len(list) : list[k] = all[k]
  BY <1>1, <1>2, <1>3 DEF Fronts
<1>5. Leads(list, S, rank)
  <2>1. Len(list) <= Len(all)
    BY <1>1, <1>2 DEF Fronts
  <2>. QED  BY <1>1, <1>2, <1>4, <2>1, LeadersPart
<1>6. \A k \in 1 .. Len(rows) : rows[k].data.score = stats[cur][rows[k].resource]
  BY <1>2, <1>3 DEF Fronts
<1>7. ASSUME Len(rows) = Len(result), NEW r \in S
      PROVE  r \in Listed(list)
  <2>1. PICK k \in 1 .. Len(all) : all[k] = r
    BY <1>2 DEF Listed
  <2>2. k \in 1 .. Len(rows) /\ list[k] = r
    BY <1>1, <1>2, <1>4, <1>7, <2>1
  <2>. QED  BY <1>1, <2>2 DEF Listed
<1>. QED  BY <1>5, <1>6, <1>7 DEF list, S, rank

-------------------------------------------------------------------------------
(***************************************************************************)
(* Reading the database.                                                   *)
(***************************************************************************)
ListsScores(rows, scores) == /\ Leads(Resources(rows), UsedOf(scores), Rank(scores))
                             /\ \A k \in 1 .. Len(rows) : rows[k].data.score = scores[rows[k].resource]

\* What is listed after a page was read at a row: all there is, or as much as was asked for.
PageRead(rows, from, n, cur) ==
    /\ items' \in Seq(Item) /\ checks' = checks
    /\ ListsScores(items', stats[cur])
    /\ from <= Len(items') /\ Len(items') <= from + n
    /\ \A p \in 1 .. from : items'[p] = rows[p]
    /\ Len(items') = from + n \/ UsedOf(stats[cur]) \subseteq Listed(Resources(items'))
    /\ hasMore' \/ UsedOf(stats[cur]) \subseteq Listed(Resources(items'))

\* A page read behind rows that are exact, or in place of rows of which some are
\* obsolete, gives rows that are exact; the model knows when there are more.
LEMMA PageFronts ==
    ASSUME ExactSetting, StoreTypeOK, WatcherTypeOK, NEW rows \in Seq(Item), NEW from \in 0 .. Len(rows),
           NEW n \in Nat, NEW cur \in Activity, NEW order \in Seq(Resource), Untied(stats[cur]),
           FetchesPage(rows, from, n, cur, order),
           \/ from = Len(rows) /\ ListsScores(rows, stats[cur])
           \/ from = 0 /\ \A k \in 1 .. Len(rows) : stats[cur][rows[k].resource] \in {0, rows[k].data.score}
    PROVE  PageRead(rows, from, n, cur)
<1>1. PICK result \in Results(cur), new \in Seq(Item) :
         /\ IsBatch(new, Page(result, from, n), order)
         /\ items' \in Replacements(rows, new, from)
         /\ hasMore' = (from + n < Len(result))
         /\ checks' = ChecksAfter(Page(result, from, n))
  BY DEF FetchesPage
<1>. DEFINE page == Page(result, from, n)
<1>2. new = page
  BY <1>1, QueriesInQuestion DEF IsBatch
<1>3. /\ result \in Seq(Item) /\ Len(result) \in Nat
      /\ \A k \in 1 .. Len(result) : /\ result[k].resource \in UsedOf(stats[cur])
                                     /\ result[k].data.score = stats[cur][result[k].resource]
  <2>1. result \in Seq(Item) /\ \A k \in 1 .. Len(result) : result[k] \in QueriedRows(cur)
    BY ResultLists
  <2>2. \A x \in QueriedRows(cur) : x.resource \in UsedOf(stats[cur]) /\ x.data.score = stats[cur][x.resource]
    BY UsedRowsAre
  <2>. QED  BY <2>1, <2>2
<1>4. /\ page \in Seq(Item)
      /\ Len(page) = IF from >= Len(result) THEN 0 ELSE Lesser(n, Len(result) - from)
      /\ \A p \in 1 .. Len(page) : from + p \in 1 .. Len(result) /\ page[p] = result[from + p]
  <2>1. result \in Seq(Item) /\ from \in Nat /\ n \in Nat
    BY <1>3
  <2>. QED  BY ONLY <2>1, PageOfResult
<1>. HIDE DEF page
<1>5. /\ items' \in Seq(Item) /\ Len(items') = from + Len(page)
      /\ \A p \in 1 .. from : items'[p] = rows[p]
      /\ \A k \in 1 .. Len(page) :
            /\ items'[from + k].resource = page[k].resource
            /\ items'[from + k] = page[k] \/ \E p \in from + 1 .. Len(rows) : items'[from + k] = rows[p]
  <2>1. /\ rows \in Seq(Item) /\ page \in Seq(Item) /\ from \in 0 .. Len(rows)
        /\ items' \in Replacements(rows, page, from)
    BY <1>1, <1>2, <1>4
  <2>2. items' \in Seq(Item)
    BY ONLY <2>1, ReplacedRows
  <2>3. Len(items') = from + Len(page)
    BY ONLY <2>1, ReplacedRows
  <2>4. \A p \in 1 .. from : items'[p] = rows[p]
    BY ONLY <2>1, ReplacedRows
  <2>5. \A k \in 1 .. Len(page) :
            /\ items'[from + k].resource = page[k].resource
            /\ items'[from + k] = page[k] \/ \E p \in from + 1 .. Len(rows) : items'[from + k] = rows[p]
    BY ONLY <2>1, ReplacedRows
  <2>. QED  BY <2>2, <2>3, <2>4, <2>5
<1>6. checks' = checks
  <2>. DEFINE gone == {page[k].resource : k \in DOMAIN page} \cap Missing
  <2>1. gone = {}
    BY DEF ExactSetting
  <2>2. ChecksAfter(page) = IF gone = {} THEN checks ELSE checks \cup {gone}
    BY DEF ChecksAfter
  <2>. HIDE DEF gone
  <2>. QED  BY <1>1, <2>1, <2>2 DEF page
<1>7. from <= Len(result) /\ \A p \in 1 .. from : /\ rows[p].resource = result[p].resource
                                                  /\ rows[p].data.score = result[p].data.score
  <2>1. CASE from = Len(rows) /\ ListsScores(rows, stats[cur])
    <3>1. Fronts(rows, result)
      BY <2>1, ExactFronts DEF ListsScores
    <3>. QED  BY <2>1, <3>1 DEF Fronts
  <2>2. CASE from = 0
    BY <1>3, <2>2
  <2>. QED  BY <2>1, <2>2
<1>8. Len(items') = Lesser(from + n, Len(result))
  BY <1>3, <1>4, <1>5, <1>7 DEF Lesser
<1>9. ASSUME NEW k \in 1 .. Len(page)
      PROVE  /\ items'[from + k].resource = result[from + k].resource
             /\ items'[from + k].data.score = result[from + k].data.score
  <2>1. from + k \in 1 .. Len(result) /\ page[k] = result[from + k]
    BY <1>4
  <2>2. items'[from + k].resource = result[from + k].resource
    BY <1>5, <2>1
  <2>3. CASE items'[from + k] = page[k]
    BY <2>1, <2>3
  <2>4. ASSUME NEW p \in from + 1 .. Len(rows), items'[from + k] = rows[p]
        PROVE  items'[from + k].data.score = result[from + k].data.score
    <3>1. from = 0 /\ \A j \in 1 .. Len(rows) : stats[cur][rows[j].resource] \in {0, rows[j].data.score}
      <4>1. from # Len(rows)
        BY <2>4
      <4>. QED  BY <4>1
    <3>2. p \in 1 .. Len(rows)
      BY <3>1
    <3>3. rows[p].resource = result[from + k].resource
      BY <2>2, <2>4
    <3>4. stats[cur][rows[p].resource] > 0 /\ result[from + k].data.score = stats[cur][rows[p].resource]
      <4>1. /\ result[from + k].resource \in UsedOf(stats[cur])
            /\ result[from + k].data.score = stats[cur][result[from + k].resource]
        BY <1>3, <2>1
      <4>. QED  BY <3>3, <4>1 DEF UsedOf
    <3>5. stats[cur][rows[p].resource] # 0
      BY <3>4
    <3>6. stats[cur][rows[p].resource] = rows[p].data.score
      BY <3>1, <3>2, <3>5
    <3>. QED  BY <2>4, <3>4, <3>6
  <2>. QED  BY <1>5, <2>2, <2>3, <2>4
<1>10. Fronts(items', result)
  <2>1. ASSUME NEW p \in 1 .. Len(items')
        PROVE  items'[p].resource = result[p].resource /\ items'[p].data.score = result[p].data.score
    <3>1. CASE p <= from
      BY <1>5, <1>7, <3>1
    <3>2. CASE ~(p <= from)
      <4>. DEFINE k == p - from
      <4>1. k \in 1 .. Len(page) /\ from + k = p
        BY <1>4, <1>5, <3>2
      <4>. HIDE DEF k
      <4>. QED  BY <1>9, <4>1
    <3>. QED  BY <3>1, <3>2
  <2>2. Len(items') <= Len(result)
    BY <1>3, <1>8 DEF Lesser
  <2>. QED  BY <2>1, <2>2 DEF Fronts
<1>11. /\ ListsScores(items', stats[cur])
       /\ Len(items') = Len(result) => UsedOf(stats[cur]) \subseteq Listed(Resources(items'))
  BY <1>5, <1>10, FrontsExact DEF ListsScores
<1>12. Len(items') = from + n \/ Len(items') = Len(result)
  BY <1>8 DEF Lesser
<1>13. hasMore' \/ Len(items') = Len(result)
  <2>1. from + n < Len(result) => hasMore'
    BY <1>1
  <2>2. ~(from + n < Len(result)) => Len(items') = Len(result)
    BY <1>3, <1>8 DEF Lesser
  <2>. QED  BY <2>1, <2>2
<1>14. from <= Len(items') /\ Len(items') <= from + n
  BY <1>3, <1>7, <1>8 DEF Lesser
<1>. QED  BY <1>5, <1>6, <1>11, <1>12, <1>13, <1>14 DEF PageRead

\* The first rows are read anew.
LEMMA ResetExact ==
    ASSUME ExactSetting, TypeInv, NEW cur \in Activity, fixed = <<>>, Untied(stats[cur]), FetchReset(cur)
    PROVE  /\ items' \in Seq(Item) /\ checks' = checks /\ fixed' = fixed
           /\ Exact(items', hasMore', stats[cur])
<1>. DEFINE none == <<>>
            count == Lesser(Batch, Limit)
            from == 0
<1>1. /\ StoreTypeOK /\ WatcherTypeOK /\ ~query.client
      /\ Limit \in Nat \ {0} /\ Batch \in Nat \ {0} /\ fixed \in Seq(Resource)
  BY QueriesInQuestion DEF TypeInv
<1>2. fixed' = fixed /\ FetchRows(none, from, count, cur, fixed)
  BY <1>1 DEF FetchReset, LoadedOrder
<1>3. none \in Seq(Item) /\ from = Len(none) /\ from \in 0 .. Len(none) /\ count \in Nat
  BY <1>1 DEF Lesser
<1>4. Asked(from, count) = count /\ ~(count <= 0)
  BY <1>1 DEF Asked, Lesser
<1>5. \A k \in 1 .. Len(none) : stats[cur][none[k].resource] \in {0, none[k].data.score}
  BY <1>3
<1>6. from = 0
  OBVIOUS
<1>. HIDE DEF none, from
<1>7. FetchesPage(none, from, count, cur, fixed)
  BY <1>1, <1>2, <1>3, <1>4, FetchReads
<1>8. /\ items' \in Seq(Item) /\ checks' = checks
      /\ ListsScores(items', stats[cur])
      /\ Len(items') <= from + count
      /\ Len(items') = from + count \/ UsedOf(stats[cur]) \subseteq Listed(Resources(items'))
      /\ hasMore' \/ UsedOf(stats[cur]) \subseteq Listed(Resources(items'))
  <2>1. PageRead(none, from, count, cur)
    BY <1>1, <1>3, <1>5, <1>6, <1>7, PageFronts
  <2>. QED  BY <2>1 DEF PageRead
<1>9. Limit <= Batch => from + count = Limit
  BY <1>1, <1>6 DEF Lesser
<1>10. Covers(items', hasMore', stats[cur])
  BY <1>8, <1>9 DEF Covers, Complete
<1>. QED  BY <1>2, <1>8, <1>10 DEF Exact, ListsScores

\* What is listed is read anew: the deleted scores' rows go.
LEMMA ReloadExact ==
    ASSUME ExactSetting, TypeInv, BoundedRows, fixed = <<>>, Untied(Scores), FetchReload,
           Thinned(items, hasMore, Scores)
    PROVE  /\ items' \in Seq(Item) /\ checks' = checks /\ fixed' = fixed
           /\ Exact(items', hasMore', Scores)
<1>1. /\ StoreTypeOK /\ WatcherTypeOK /\ current \in Activity
      /\ Limit \in Nat \ {0} /\ Batch \in Nat \ {0} /\ fixed \in Seq(Resource)
      /\ items \in Seq(Item) /\ Len(items) \in Nat /\ Len(items) <= Limit
  BY QueriesInQuestion DEF TypeInv, BoundedRows
<1>2. CASE Len(items) > Batch
  BY <1>1, <1>2, ResetExact DEF FetchReload, Scores
<1>3. CASE ~(Len(items) > Batch)
  <2>. DEFINE count == Len(items)
              from == 0
  <2>1. fixed' = fixed /\ FetchRows(items, from, count, current, fixed)
    BY <1>3 DEF FetchReload
  <2>2. Asked(from, count) = count /\ from = 0 /\ from \in 0 .. Len(items)
    BY <1>1 DEF Asked
  <2>3. CASE count = 0
    <3>1. items' = items /\ UNCHANGED <<hasMore, checks>>
      <4>1. Asked(from, count) <= 0
        BY <2>2, <2>3
      <4>. HIDE DEF from, count
      <4>. QED  BY <1>1, <2>1, <2>2, <4>1, FetchReads DEF count
    <3>2. Leads(Resources(items), UsedOf(Scores), Rank(Scores))
      <4>1. DOMAIN Resources(items) = {} /\ Listed(Resources(items)) = {}
        <5>1. /\ DOMAIN Resources(items) = 1 .. Len(items)
              /\ Listed(Resources(items)) = {items[k].resource : k \in 1 .. Len(items)}
          BY <1>1, ResourcesOf
        <5>2. 1 .. Len(items) = {}
          BY <2>3
        <5>. QED  BY <5>1, <5>2
      <4>. QED  BY <4>1 DEF Leads
    <3>3. \A k \in 1 .. Len(items) : items[k].data.score = Scores[items[k].resource]
      BY <2>3
    <3>4. Exact(items, hasMore, Scores)
      BY <3>2, <3>3 DEF Exact, Thinned
    <3>. QED  BY <1>1, <2>1, <3>1, <3>4 DEF Exact, Covers, Complete
  <2>4. CASE count # 0
    <3>0. count \in Nat /\ count <= Limit /\ count = Len(items) /\ ~(Asked(from, count) <= 0)
      BY <1>1, <2>2, <2>4
    <3>. HIDE DEF from, count
    <3>1. FetchesPage(items, from, count, current, fixed)
      BY <1>1, <2>1, <2>2, <3>0, FetchReads
    <3>2. \A k \in 1 .. Len(items) : stats[current][items[k].resource] \in {0, items[k].data.score}
      BY DEF Thinned, Scores
    <3>3. Untied(stats[current])
      BY DEF Scores
    <3>4. /\ items' \in Seq(Item) /\ checks' = checks
          /\ ListsScores(items', stats[current])
          /\ Len(items') <= from + count
          /\ Len(items') = from + count \/ UsedOf(stats[current]) \subseteq Listed(Resources(items'))
          /\ hasMore' \/ UsedOf(stats[current]) \subseteq Listed(Resources(items'))
      <4>1. PageRead(items, from, count, current)
        BY <1>1, <2>2, <3>0, <3>1, <3>2, <3>3, PageFronts
      <4>. QED  BY <4>1 DEF PageRead
    <3>5. Limit <= Batch => \/ Len(items') = Limit
                            \/ UsedOf(stats[current]) \subseteq Listed(Resources(items'))
      <4>1. SUFFICES ASSUME Limit <= Batch, Len(items') = from + count, count # Limit
                     PROVE  UsedOf(stats[current]) \subseteq Listed(Resources(items'))
        BY <1>1, <2>2, <3>0, <3>4
      <4>2. UsedOf(stats[current]) \subseteq Listed(Resources(items))
        BY <3>0, <4>1 DEF Thinned, Covers, Complete, Scores
      <4>3. /\ Resources(items) \in Seq(Resource) /\ Len(Resources(items)) = Len(items)
            /\ Resources(items') \in Seq(Resource) /\ Len(Resources(items')) = Len(items')
        BY <1>1, <3>4, ResourcesOf
      <4>4. Ranks(Rank(stats[current]), UsedOf(stats[current]))
        BY <1>1, <3>3, ScoresRank DEF StoreTypeOK
      <4>5. Len(Resources(items)) = Len(Resources(items'))
        BY <1>1, <2>2, <3>0, <3>4, <4>1, <4>3
      <4>. QED  BY <3>4, <4>2, <4>3, <4>4, <4>5, LeadersOfAll DEF ListsScores
    <3>6. Covers(items', hasMore', stats[current])
      BY <3>4, <3>5 DEF Covers, Complete
    <3>. QED  BY <2>1, <3>3, <3>4, <3>6 DEF Exact, ListsScores, Scores
  <2>. QED  BY <2>3, <2>4
<1>. QED  BY <1>2, <1>3

-------------------------------------------------------------------------------
(***************************************************************************)
(* One score that changed.                                                 *)
(***************************************************************************)
\* What the scores were before the change.
LEMMA WasScores ==
    ASSUME StoreTypeOK, WatcherTypeOK, NEW r \in Resource, NEW old \in Score
    PROVE  /\ Scores \in [Resource -> Score] /\ Was(r, old) \in [Resource -> Score]
           /\ Was(r, old)[r] = old
           /\ \A q \in Resource : q # r => Was(r, old)[q] = Scores[q]
           /\ UsedOf(Scores) \ {r} = UsedOf(Was(r, old)) \ {r}
           /\ \A q \in Resource : q # r => Rank(Was(r, old))[q] = Rank(Scores)[q]
<1>1. Scores \in [Resource -> Score]
  BY DEF StoreTypeOK, WatcherTypeOK, Scores
<1>2. /\ Was(r, old) \in [Resource -> Score] /\ Was(r, old)[r] = old
      /\ \A q \in Resource : q # r => Was(r, old)[q] = Scores[q]
  BY <1>1 DEF Was
<1>3. UsedOf(Scores) \ {r} = UsedOf(Was(r, old)) \ {r}
  BY <1>2 DEF UsedOf
<1>4. \A q \in Resource : q # r => Rank(Was(r, old))[q] = Rank(Scores)[q]
  BY <1>2 DEF Rank
<1>. QED  BY <1>1, <1>2, <1>3, <1>4

\* The rows after the removal of one.
LEMMA WithoutRow ==
    ASSUME NEW rows \in Seq(Item), NEW row \in Rows(rows)
    PROVE  /\ RowsRemoved(rows, row, row) \in Seq(Item)
           /\ Len(RowsRemoved(rows, row, row)) = Len(rows) - 1
           /\ \A k \in 1 .. Len(rows) - 1 :
                 RowsRemoved(rows, row, row)[k] = IF k < row + 1 THEN rows[k] ELSE rows[k + 1]
<1>. DEFINE last == row
            n == Len(rows)
<1>1. /\ row \in 0 .. n /\ last \in Int /\ row - 1 <= last /\ last < n /\ last - row + 1 = 1
      /\ rows \in Seq(Item) /\ n \in Nat
  BY DEF Rows
<1>. HIDE DEF last
<1>2. RowsRemoved(rows, row, last) \in Seq(Item)
  BY ONLY <1>1, RemovedRows
<1>3. Len(RowsRemoved(rows, row, last)) = n - (last - row + 1)
  BY ONLY <1>1, RemovedRows
<1>4. \A k \in 1 .. n - (last - row + 1) :
         RowsRemoved(rows, row, last)[k] = IF k <= row THEN rows[k] ELSE rows[k + (last - row + 1)]
  BY ONLY <1>1, RemovedRows
<1>5. \A k \in 1 .. n - 1 : k <= row <=> k < row + 1
  BY <1>1
<1>. HIDE DEF n
<1>6. RowsRemoved(rows, row, row) = RowsRemoved(rows, row, last)
  BY DEF last
<1>. QED  BY <1>1, <1>2, <1>3, <1>4, <1>5, <1>6 DEF n

\* The rows without the one whose score changed lead the others.
LEMMA OthersLead ==
    ASSUME StoreTypeOK, WatcherTypeOK, NEW r \in Resource, NEW old \in Score, items \in Seq(Item),
           Exact(items, hasMore, Was(r, old)), NEW row \in Find(items, r)
    PROVE  LET rows == RowsRemoved(items, row, row)
           IN /\ rows \in Seq(Item) /\ Len(rows) = Len(items) - 1
              /\ Leads(Resources(rows), UsedOf(Scores) \ {r}, Rank(Scores))
              /\ \A k \in 1 .. Len(rows) : rows[k].data.score = Scores[rows[k].resource]
              /\ \A q \in Listed(Resources(items)) : q = r \/ q \in Listed(Resources(rows))
<1>. DEFINE rows == RowsRemoved(items, row, row)
            before == Was(r, old)
            l == Resources(items)
            m == Resources(rows)
            p == row + 1
<1>1. row \in Rows(items) /\ p \in 1 .. Len(items) /\ items[p].resource = r
  BY FoundRows
<1>2. /\ rows \in Seq(Item) /\ Len(rows) = Len(items) - 1
      /\ \A k \in 1 .. Len(items) - 1 : rows[k] = IF k < p THEN items[k] ELSE items[k + 1]
  BY <1>1, WithoutRow
<1>. HIDE DEF rows, p
<1>3. /\ l \in Seq(Resource) /\ Len(l) = Len(items) /\ Len(items) \in Nat
      /\ \A k \in 1 .. Len(items) : l[k] = items[k].resource
  BY ResourcesOf
<1>4. /\ m \in Seq(Resource) /\ Len(m) = Len(rows) /\ DOMAIN m = 1 .. Len(rows)
      /\ \A k \in 1 .. Len(rows) : m[k] = rows[k].resource
      /\ \A k \in 1 .. Len(rows) : rows[k].resource \in Resource
  BY <1>2, ResourcesOf
<1>. HIDE DEF l, m
<1>5. /\ Ranks(Rank(before), UsedOf(before))
      /\ Leads(l, UsedOf(before), Rank(before))
      /\ \A k \in 1 .. Len(items) : items[k].data.score = before[items[k].resource]
  BY WasScores, ScoresRank DEF Exact, l
<1>6. /\ UsedOf(Scores) \ {r} = UsedOf(before) \ {r}
      /\ \A q \in Resource : q # r => Rank(before)[q] = Rank(Scores)[q] /\ before[q] = Scores[q]
  BY WasScores
<1>. HIDE DEF before
<1>7. Len(m) = Len(l) - 1 /\ \A k \in 1 .. Len(m) : m[k] = IF k < p THEN l[k] ELSE l[k + 1]
  <2>1. Len(m) = Len(l) - 1
    BY <1>2, <1>3, <1>4
  <2>2. ASSUME NEW k \in 1 .. Len(m)
        PROVE  m[k] = IF k < p THEN l[k] ELSE l[k + 1]
    <3>1. k \in 1 .. Len(items) - 1 /\ k \in 1 .. Len(rows) /\ k \in 1 .. Len(items) /\ k + 1 \in 1 .. Len(items)
      BY <1>2, <1>3, <1>4
    <3>. QED  BY <1>2, <1>3, <1>4, <3>1
  <2>. QED  BY <2>1, <2>2
<1>8. l[p] = r
  BY <1>1, <1>3
<1>9. /\ Leads(m, UsedOf(before) \ {r}, Rank(before))
      /\ \A q \in Listed(l) : q = r \/ q \in Listed(m)
  <2>1. /\ Ranks(Rank(before), UsedOf(before)) /\ l \in Seq(Resource) /\ m \in Seq(Resource)
        /\ Leads(l, UsedOf(before), Rank(before)) /\ p \in 1 .. Len(l) /\ Len(m) = Len(l) - 1
        /\ \A k \in 1 .. Len(m) : m[k] = IF k < p THEN l[k] ELSE l[k + 1]
    BY <1>1, <1>3, <1>4, <1>5, <1>7
  <2>2. Leads(m, UsedOf(before) \ {l[p]}, Rank(before))
    BY ONLY <2>1, LeadersLess
  <2>3. Listed(l) \subseteq Listed(m) \cup {l[p]}
    BY ONLY <2>1, ListedLess
  <2>. QED  BY <1>8, <2>2, <2>3
<1>10. Leads(m, UsedOf(Scores) \ {r}, Rank(Scores))
  <2>1. \A q \in UsedOf(before) \ {r} : Rank(Scores)[q] = Rank(before)[q]
    BY <1>6 DEF UsedOf
  <2>2. Leads(m, UsedOf(before) \ {r}, Rank(Scores))
    BY <1>9, <2>1, LeadersBySameRank
  <2>. QED  BY <1>6, <2>2
<1>11. ASSUME NEW k \in 1 .. Len(rows)
       PROVE  rows[k].data.score = Scores[rows[k].resource]
  <2>1. rows[k].resource \in Resource /\ rows[k].resource # r
    BY <1>4, <1>9 DEF Leads
  <2>2. rows[k].data.score = before[rows[k].resource]
    <3>1. k \in 1 .. Len(items) - 1 /\ k \in 1 .. Len(items) /\ k + 1 \in 1 .. Len(items)
      BY <1>2, <1>3
    <3>. QED  BY <1>2, <1>5, <3>1
  <2>. QED  BY <1>6, <2>1, <2>2
<1>. QED  BY <1>2, <1>9, <1>10, <1>11 DEF rows, l, m

\* A resource that lost its score loses its row, and the next one takes its place.
LEMMA RemovalExact ==
    ASSUME ExactSetting, TypeInv, BoundedRows, Untied(Scores), NEW r \in Resource, NEW old \in Score,
           Scores[r] = 0, Exact(items, hasMore, Was(r, old)), NEW row \in Find(items, r), RemoveRow(row)
    PROVE  /\ items' \in Seq(Item) /\ checks' = checks /\ fixed' = fixed
           /\ Exact(items', hasMore', Scores)
<1>. DEFINE rows == RowsRemoved(items, row, row)
            S == UsedOf(Scores)
            one == 1
<1>1. /\ StoreTypeOK /\ WatcherTypeOK /\ current \in Activity
      /\ Limit \in Nat \ {0} /\ Batch \in Nat \ {0} /\ fixed \in Seq(Resource)
      /\ items \in Seq(Item) /\ Len(items) \in Nat /\ Len(items) <= Limit
  BY QueriesInQuestion DEF TypeInv, BoundedRows
<1>2. /\ rows \in Seq(Item) /\ Len(rows) = Len(items) - 1
      /\ Leads(Resources(rows), S \ {r}, Rank(Scores))
      /\ \A k \in 1 .. Len(rows) : rows[k].data.score = Scores[rows[k].resource]
      /\ \A q \in Listed(Resources(items)) : q = r \/ q \in Listed(Resources(rows))
  BY <1>1, OthersLead
<1>3. r \notin S /\ S \ {r} = S
  BY DEF UsedOf
<1>4. /\ FetchRows(rows, Len(rows), one, current, fixed) /\ fixed' = fixed /\ one = 1
  BY <1>1, QueriesInQuestion DEF RemoveRow
<1>. HIDE DEF rows, one
<1>5. Len(rows) \in 0 .. Len(rows) /\ one \in Nat /\ Asked(Len(rows), one) = one /\ ~(one <= 0)
  BY <1>1, <1>2, <1>4 DEF Asked
<1>6. FetchesPage(rows, Len(rows), one, current, fixed)
  BY <1>1, <1>2, <1>4, <1>5, FetchReads
<1>7. ListsScores(rows, stats[current]) /\ Untied(stats[current])
  BY <1>2, <1>3 DEF ListsScores, Scores
<1>8. /\ items' \in Seq(Item) /\ checks' = checks
      /\ ListsScores(items', stats[current])
      /\ Len(rows) <= Len(items')
      /\ \A p \in 1 .. Len(rows) : items'[p] = rows[p]
      /\ Len(items') = Len(rows) + one \/ UsedOf(stats[current]) \subseteq Listed(Resources(items'))
      /\ hasMore' \/ UsedOf(stats[current]) \subseteq Listed(Resources(items'))
  <2>1. PageRead(rows, Len(rows), one, current)
    BY <1>1, <1>2, <1>5, <1>6, <1>7, PageFronts
  <2>. QED  BY <2>1 DEF PageRead
<1>9. Len(items') = Len(items) \/ S \subseteq Listed(Resources(items'))
  BY <1>1, <1>2, <1>4, <1>8 DEF Scores
<1>10. ASSUME S \subseteq Listed(Resources(items))
       PROVE  S \subseteq Listed(Resources(items'))
  <2>1. S \subseteq Listed(Resources(rows))
    BY <1>2, <1>3, <1>10
  <2>2. Listed(Resources(rows)) \subseteq Listed(Resources(items'))
    <3>1. /\ Listed(Resources(rows)) = {rows[k].resource : k \in 1 .. Len(rows)}
          /\ Listed(Resources(items')) = {items'[k].resource : k \in 1 .. Len(items')}
          /\ Len(rows) \in Nat /\ Len(items') \in Nat
      BY <1>2, <1>8, ResourcesOf
    <3>2. \A k \in 1 .. Len(rows) : k \in 1 .. Len(items')
      BY <1>8, <3>1
    <3>. QED  BY <1>8, <3>1, <3>2
  <2>. QED  BY <2>1, <2>2
<1>11. Limit <= Batch => Len(items) = Limit \/ S \subseteq Listed(Resources(items))
  <2>1. UsedOf(Scores) \ {r} = UsedOf(Was(r, old)) \ {r}
    BY <1>1, WasScores
  <2>. QED  BY <1>3, <2>1 DEF Exact, Covers, Complete
<1>12. Covers(items', hasMore', Scores)
  BY <1>8, <1>9, <1>10, <1>11 DEF Covers, Complete, Scores
<1>. QED  BY <1>4, <1>8, <1>12 DEF Exact, ListsScores, Scores

\* Rows that do not show it lead the others as they are.
LEMMA OthersLeadAlready ==
    ASSUME StoreTypeOK, WatcherTypeOK, NEW r \in Resource, NEW old \in Score, items \in Seq(Item),
           Exact(items, hasMore, Was(r, old)), Find(items, r) = {}
    PROVE  /\ Leads(Resources(items), UsedOf(Scores) \ {r}, Rank(Scores))
           /\ \A k \in 1 .. Len(items) : /\ items[k].data.score = Scores[items[k].resource]
                                         /\ items[k].resource # r
<1>. DEFINE before == Was(r, old)
            l == Resources(items)
<1>1. /\ UsedOf(Scores) \ {r} = UsedOf(before) \ {r}
      /\ \A q \in Resource : q # r => Rank(before)[q] = Rank(Scores)[q] /\ before[q] = Scores[q]
  BY WasScores
<1>2. \A k \in 1 .. Len(items) : items[k].resource # r
  BY FoundRows
<1>3. /\ l \in Seq(Resource) /\ DOMAIN l = 1 .. Len(items) /\ Len(l) = Len(items)
      /\ \A k \in 1 .. Len(items) : l[k] = items[k].resource /\ items[k].resource \in Resource
  BY ResourcesOf
<1>4. Leads(l, UsedOf(before), Rank(before))
  BY DEF Exact
<1>. HIDE DEF before, l
<1>5. Leads(l, UsedOf(Scores) \ {r}, Rank(Scores))
  <2>1. \A k \in 1 .. Len(l) : l[k] \in UsedOf(before) \ {r}
    BY <1>2, <1>3, <1>4 DEF Leads
  <2>2. Leads(l, UsedOf(before) \ {r}, Rank(before))
    BY <1>3, <1>4, <2>1, LeadersOfFewer
  <2>3. \A q \in UsedOf(before) \ {r} : Rank(Scores)[q] = Rank(before)[q]
    BY <1>1 DEF UsedOf
  <2>4. Leads(l, UsedOf(before) \ {r}, Rank(Scores))
    BY <2>2, <2>3, LeadersBySameRank
  <2>. QED  BY <1>1, <2>4
<1>6. \A k \in 1 .. Len(items) : items[k].data.score = Scores[items[k].resource]
  BY <1>1, <1>2, <1>3 DEF Exact, before
<1>. QED  BY <1>2, <1>5, <1>6 DEF l

\* It may not be listed.
LEMMA UnlistedExact ==
    ASSUME TypeInv, Untied(Scores), NEW r \in Resource, NEW old \in Score,
           Scores[r] = 0, Exact(items, hasMore, Was(r, old)), Find(items, r) = {}
    PROVE  Exact(items, hasMore, Scores)
<1>1. StoreTypeOK /\ WatcherTypeOK /\ items \in Seq(Item)
  BY DEF TypeInv
<1>2. UsedOf(Scores) \ {r} = UsedOf(Scores)
  BY DEF UsedOf
<1>3. /\ Leads(Resources(items), UsedOf(Scores), Rank(Scores))
      /\ \A k \in 1 .. Len(items) : items[k].data.score = Scores[items[k].resource]
  BY <1>1, <1>2, OthersLeadAlready
<1>4. UsedOf(Scores) \subseteq UsedOf(Was(r, old))
  BY <1>1, <1>2, WasScores
<1>. QED  BY <1>3, <1>4 DEF Exact, Covers, Complete

-------------------------------------------------------------------------------
(***************************************************************************)
(* A score that is announced.                                              *)
(***************************************************************************)
\* Where a row goes when the rows with higher scores are listed first.
LEMMA DestinationHighest ==
    ASSUME query.selection = "UsedResources", query.ordering = "HighScoredFirst", fixed = <<>>,
           NEW rows \in Seq(Item), NEW x \in Item,
           \A p \in 1 .. Len(rows) : rows[p].data.score > x.data.score
                                        => \A k \in 1 .. p : rows[k].data.score > x.data.score,
           \A p \in 1 .. Len(rows) : rows[p].data.score = x.data.score => rows[p].resource = x.resource
    PROVE  /\ DestinationFor(rows, x, fixed) \in 0 .. Len(rows)
           /\ \A p \in 1 .. Len(rows) : p <= DestinationFor(rows, x, fixed)
                                           <=> rows[p].data.score > x.data.score
<1>. DEFINE n == Len(rows)
            T == {p \in 1 .. n : \/ FixedItemsLessThan(fixed, rows[p], x)
                                 \/ ~FixedItemsLessThan(fixed, x, rows[p]) /\ ModelBefore(rows[p], x)}
            dest == DestinationFor(rows, x, fixed)
<1>1. n \in Nat /\ fixed \in Seq(Resource) /\ Len(fixed) = 0
  OBVIOUS
<1>2. \A y, z : ~FixedItemsLessThan(fixed, y, z)
  <2>1. \A q : IndexOf(fixed, q) \in 1 .. Len(fixed) + 1
    BY <1>1, FirstIndex
  <2>2. \A q : IndexOf(fixed, q) = 1
    BY <1>1, <2>1
  <2>. QED  BY <2>2 DEF FixedItemsLessThan, PlacedBefore
<1>3. ASSUME NEW p \in 1 .. n
      PROVE  ModelBefore(rows[p], x) <=> rows[p].data.score > x.data.score
  <2>1. /\ rows[p].data.score \in Nat /\ x.data.score \in Nat
        /\ rows[p].resource \in Nat /\ x.resource \in Nat
    <3>1. rows[p] \in Item
      BY <1>3
    <3>2. \A y \in Item : y.data.score \in Nat /\ y.resource \in Resource
      BY DEF Item
    <3>. QED  BY <3>1, <3>2, StoreAssumption
  <2>2. rows[p].data.score = x.data.score => ~(rows[p].resource > x.resource)
    BY <2>1, <1>3
  <2>3. ModelBefore(rows[p], x)
           <=> \/ rows[p].data.score > x.data.score
               \/ rows[p].data.score = x.data.score /\ rows[p].resource > x.resource
    <3>1. query.selection # "AllResources" /\ query.ordering = "HighScoredFirst"
      OBVIOUS
    <3>. QED  BY ONLY <3>1, Zenon DEF ModelBefore
  <2>. QED  BY ONLY <2>2, <2>3
<1>4. T = {p \in 1 .. n : rows[p].data.score > x.data.score}
  BY <1>2, <1>3
<1>5. dest = Cardinality(T)
  BY DEF DestinationFor
<1>. HIDE DEF T, dest
<1>6. T \in SUBSET (1 .. n) /\ \A p \in T : \A k \in 1 .. p : k \in T
  <2>1. ASSUME NEW p \in T, NEW k \in 1 .. p
        PROVE  k \in T
    <3>1. p \in 1 .. n /\ rows[p].data.score > x.data.score
      BY <1>4
    <3>2. k \in 1 .. n /\ rows[k].data.score > x.data.score
      BY <1>1, <3>1
    <3>. QED  BY <1>4, <3>2
  <2>. QED  BY <1>4, <2>1
<1>7. dest \in 0 .. n /\ T = 1 .. dest
  <2>. HIDE DEF n
  <2>. QED  BY <1>1, <1>5, <1>6, FirstRows
<1>8. \A p \in 1 .. n : p <= dest <=> p \in T
  BY <1>1, <1>7
<1>. QED  BY <1>4, <1>7, <1>8 DEF dest, n

\* A row put where the ranks have it leaves a list that leads.
LEMMA InsertedLeads ==
    ASSUME NEW scores \in [Resource -> Score], Untied(scores),
           NEW rows \in Seq(Item), NEW x \in Item, x.resource \in UsedOf(scores),
           x.data.score = scores[x.resource],
           Leads(Resources(rows), UsedOf(scores) \ {x.resource}, Rank(scores)),
           \A k \in 1 .. Len(rows) : rows[k].data.score = scores[rows[k].resource],
           NEW dest \in 0 .. Len(rows),
           \A k \in 1 .. Len(rows) : k <= dest <=> Rank(scores)[rows[k].resource] < Rank(scores)[x.resource],
           \A q \in (UsedOf(scores) \ {x.resource}) \ Listed(Resources(rows)) :
              Rank(scores)[x.resource] < Rank(scores)[q]
    PROVE  /\ RowsInserted(rows, dest, <<x>>) \in Seq(Item)
           /\ Len(RowsInserted(rows, dest, <<x>>)) = Len(rows) + 1
           /\ ListsScores(RowsInserted(rows, dest, <<x>>), scores)
           /\ Listed(Resources(rows)) \cup {x.resource}
                 \subseteq Listed(Resources(RowsInserted(rows, dest, <<x>>)))
<1>. DEFINE t == RowsInserted(rows, dest, <<x>>)
            l == Resources(rows)
            m == Resources(t)
            r == x.resource
            S == UsedOf(scores)
            rank == Rank(scores)
<1>1. /\ t \in Seq(Item) /\ Len(t) = Len(rows) + 1 /\ Len(rows) \in Nat
      /\ \A k \in 1 .. Len(rows) + 1 :
            t[k] = IF k <= dest THEN rows[k] ELSE IF k = dest + 1 THEN x ELSE rows[k - 1]
  <2>1. rows \in Seq(Item) /\ dest \in 0 .. Len(rows) /\ x \in Item
    OBVIOUS
  <2>2. t \in Seq(Item)
    BY ONLY <2>1, OneInserted
  <2>3. Len(t) = Len(rows) + 1
    BY ONLY <2>1, OneInserted
  <2>4. \A k \in 1 .. Len(rows) + 1 :
            t[k] = IF k <= dest THEN rows[k] ELSE IF k = dest + 1 THEN x ELSE rows[k - 1]
    BY ONLY <2>1, OneInserted
  <2>. HIDE DEF t
  <2>. QED  BY <2>2, <2>3, <2>4
<1>. HIDE DEF t
<1>2. /\ l \in Seq(Resource) /\ Len(l) = Len(rows)
      /\ \A k \in 1 .. Len(rows) : l[k] = rows[k].resource
  BY ResourcesOf
<1>3. /\ m \in Seq(Resource) /\ Len(m) = Len(t)
      /\ \A k \in 1 .. Len(t) : m[k] = t[k].resource
  BY <1>1, ResourcesOf
<1>4. Leads(l, S \ {r}, rank) /\ Ranks(rank, S) /\ r \in S
  BY ScoresRank
<1>5. \A q \in (S \ {r}) \ Listed(l) : rank[r] < rank[q]
  OBVIOUS
<1>6. \A k \in 1 .. Len(rows) : k <= dest <=> rank[rows[k].resource] < rank[r]
  OBVIOUS
<1>. HIDE DEF l, m, r, S, rank
<1>7. HasPut(m, l, dest, r)
  <2>1. SUFFICES ASSUME NEW k \in 1 .. Len(t)
                 PROVE  m[k] = IF k <= dest THEN l[k] ELSE IF k = dest + 1 THEN r ELSE l[k - 1]
    BY <1>1, <1>2, <1>3 DEF HasPut
  <2>2. k \in 1 .. Len(rows) + 1 /\ m[k] = t[k].resource /\ r = x.resource
    BY <1>1, <1>3 DEF r
  <2>3. CASE k <= dest
    <3>1. k \in 1 .. Len(rows)
      BY <1>1, <2>2, <2>3
    <3>. QED  BY <1>1, <1>2, <2>2, <2>3, <3>1
  <2>4. CASE k = dest + 1
    BY <1>1, <2>2, <2>4
  <2>5. CASE ~(k <= dest) /\ k # dest + 1
    <3>1. k - 1 \in 1 .. Len(rows)
      BY <1>1, <2>2, <2>5
    <3>. QED  BY <1>1, <1>2, <2>2, <2>5, <3>1
  <2>. QED  BY <2>3, <2>4, <2>5
<1>8. /\ Ranks(rank, S) /\ r \in S /\ l \in Seq(Resource) /\ m \in Seq(Resource)
      /\ Leads(l, S \ {r}, rank) /\ dest \in 0 .. Len(l)
      /\ HasPut(m, l, dest, r) /\ BelongsBehind(dest, r, l, S, rank)
  BY <1>1, <1>2, <1>3, <1>4, <1>5, <1>6, <1>7 DEF BelongsBehind
<1>9. Leads(m, S, rank)
  BY ONLY <1>8, LeadersMore
<1>10. Listed(l) \cup {r} \subseteq Listed(m)
  BY ONLY <1>8, ListedMore
<1>11. ASSUME NEW k \in 1 .. Len(t)
       PROVE  t[k].data.score = scores[t[k].resource]
  <2>1. k \in 1 .. Len(rows) + 1
    BY <1>1
  <2>2. t[k] = IF k <= dest THEN rows[k] ELSE IF k = dest + 1 THEN x ELSE rows[k - 1]
    BY <1>1, <2>1
  <2>3. CASE k <= dest
    <3>1. k \in 1 .. Len(rows) /\ t[k] = rows[k]
      BY <1>1, <2>1, <2>2, <2>3
    <3>. QED  BY <3>1
  <2>4. CASE k = dest + 1
    <3>1. t[k] = x
      BY <2>2, <2>4
    <3>. QED  BY <3>1
  <2>5. CASE ~(k <= dest) /\ k # dest + 1
    <3>1. k - 1 \in 1 .. Len(rows) /\ t[k] = rows[k - 1]
      BY <1>1, <2>1, <2>2, <2>5
    <3>. QED  BY <3>1
  <2>. QED  BY <2>3, <2>4, <2>5
<1>. QED  BY <1>1, <1>9, <1>10, <1>11 DEF ListsScores, t, l, m, r, S, rank

\* So does one that is trimmed.
LEMMA TrimmedLeads ==
    ASSUME NEW scores, NEW rows \in Seq(Item), ListsScores(rows, scores), NEW n \in Nat
    PROVE  /\ TrimTo(rows, n) \in Seq(Item)
           /\ ListsScores(TrimTo(rows, n), scores)
           /\ Len(TrimTo(rows, n)) = n \/ TrimTo(rows, n) = rows
<1>. DEFINE t == TrimTo(rows, n)
<1>1. /\ t \in Seq(Item) /\ Len(t) = IF Len(rows) <= n THEN Len(rows) ELSE n
      /\ \A p \in 1 .. Len(t) : t[p] = rows[p]
  BY TrimmedRows
<1>2. Len(rows) <= n => t = rows
  BY DEF TrimTo
<1>. HIDE DEF t
<1>3. /\ Resources(rows) \in Seq(Resource) /\ Len(Resources(rows)) = Len(rows) /\ Len(rows) \in Nat
      /\ \A k \in 1 .. Len(rows) : Resources(rows)[k] = rows[k].resource
  BY ResourcesOf
<1>4. /\ Resources(t) \in Seq(Resource) /\ Len(Resources(t)) = Len(t) /\ Len(t) \in Nat
      /\ \A k \in 1 .. Len(t) : Resources(t)[k] = t[k].resource
  BY <1>1, ResourcesOf
<1>5. Len(t) <= Len(rows) /\ \A k \in 1 .. Len(t) : k \in 1 .. Len(rows)
  BY <1>1, <1>3
<1>6. \A k \in 1 .. Len(t) : Resources(t)[k] = Resources(rows)[k]
  BY <1>1, <1>3, <1>4, <1>5
<1>7. Leads(Resources(rows), UsedOf(scores), Rank(scores))
  BY DEF ListsScores
<1>8. Leads(Resources(t), UsedOf(scores), Rank(scores))
  <2>. DEFINE l == Resources(t)
              m == Resources(rows)
  <2>1. l \in Seq(Resource) /\ m \in Seq(Resource) /\ Leads(m, UsedOf(scores), Rank(scores))
        /\ Len(l) <= Len(m) /\ \A k \in 1 .. Len(l) : l[k] = m[k]
    BY <1>3, <1>4, <1>5, <1>6, <1>7
  <2>. HIDE DEF l, m
  <2>2. Leads(l, UsedOf(scores), Rank(scores))
    BY ONLY <2>1, LeadersPart
  <2>. QED  BY <2>2 DEF l
<1>9. \A k \in 1 .. Len(t) : t[k].data.score = scores[t[k].resource]
  BY <1>1, <1>5 DEF ListsScores
<1>. QED  BY <1>1, <1>2, <1>8, <1>9 DEF ListsScores, t

\* What a raised score does to the ranks.
LEMMA RankHighest ==
    ASSUME StoreTypeOK, WatcherTypeOK, query.ordering = "HighScoredFirst"
    PROVE  /\ \A q \in Resource : Scores[q] \in Nat
           /\ \A p, q \in Resource : Rank(Scores)[p] < Rank(Scores)[q] <=> Scores[p] > Scores[q]
<1>1. \A q \in Resource : Scores[q] \in Nat
  BY StoreAssumption DEF StoreTypeOK, WatcherTypeOK, Scores, Score
<1>2. \A q \in Resource : Rank(Scores)[q] = -Scores[q]
  BY DEF Rank
<1>3. ASSUME NEW p \in Resource, NEW q \in Resource
      PROVE  Rank(Scores)[p] < Rank(Scores)[q] <=> Scores[p] > Scores[q]
  <2>1. Scores[p] \in Nat /\ Scores[q] \in Nat /\ Rank(Scores)[p] = -Scores[p] /\ Rank(Scores)[q] = -Scores[q]
    BY <1>1, <1>2
  <2>. QED  BY <2>1
<1>. QED  BY <1>1, <1>3

\* A row with new data is placed as if it were taken out first: it is not before itself.
LEMMA DestinationWithout ==
    ASSUME fixed = <<>>, NEW list \in Seq(Item), NEW row \in Rows(list), NEW x \in Item
    PROVE  DestinationFor([list EXCEPT ![row + 1] = x], x, fixed)
              = DestinationFor(RowsRemoved(list, row, row), x, fixed)
<1>. DEFINE n == Len(list)
            read == [list EXCEPT ![row + 1] = x]
            rows == RowsRemoved(list, row, row)
            Before(y) == \/ FixedItemsLessThan(fixed, y, x)
                         \/ ~FixedItemsLessThan(fixed, x, y) /\ ModelBefore(y, x)
            S == {p \in 1 .. Len(rows) : Before(rows[p])}
            T == {p \in 1 .. Len(read) : Before(read[p])}
            f == [k \in S |-> IF k < row + 1 THEN k ELSE k + 1]
<1>1. n \in Nat /\ row \in Nat /\ row + 1 \in 1 .. n
  BY DEF Rows
<1>2. /\ Len(read) = n /\ read[row + 1] = x
      /\ \A k \in 1 .. n : k # row + 1 => read[k] = list[k]
  BY <1>1
<1>3. /\ Len(rows) = n - 1
      /\ \A k \in 1 .. n - 1 : rows[k] = IF k < row + 1 THEN list[k] ELSE list[k + 1]
  BY WithoutRow
<1>4. ~Before(x)
  <2>1. fixed \in Seq(Resource) /\ Len(fixed) = 0
    OBVIOUS
  <2>2. \A q : IndexOf(fixed, q) \in 1 .. Len(fixed) + 1
    BY <2>1, FirstIndex
  <2>3. \A q : IndexOf(fixed, q) = 1
    BY <2>1, <2>2
  <2>4. ~FixedItemsLessThan(fixed, x, x)
    BY <2>3 DEF FixedItemsLessThan, PlacedBefore
  <2>5. x.resource \in Nat /\ x.data.score \in Nat /\ x.data.link \in LinkStatus
    BY StoreAssumption DEF Item
  <2>6. ~(x.resource > x.resource) /\ ~(x.data.score > x.data.score) /\ ~(x.data.link > x.data.link)
    BY <2>5 DEF LinkStatus, Linked, Unknown, NotLinked
  <2>7. ~ModelBefore(x, x)
    BY ONLY <2>6, Zenon DEF ModelBefore
  <2>. QED  BY <2>4, <2>7
<1>. HIDE DEF read, rows, Before
<1>5. \A k \in S : f[k] \in T /\ f[k] # row + 1
  <2>1. SUFFICES ASSUME NEW k \in S
                 PROVE  f[k] \in T /\ f[k] # row + 1
    OBVIOUS
  <2>2. k \in 1 .. n - 1 /\ Before(rows[k])
    BY <1>3
  <2>3. CASE k < row + 1
    <3>1. f[k] = k /\ k \in 1 .. n /\ k # row + 1 /\ rows[k] = list[k] /\ read[k] = list[k]
      BY <1>1, <1>2, <1>3, <2>2, <2>3
    <3>. QED  BY <1>2, <2>2, <3>1
  <2>4. CASE ~(k < row + 1)
    <3>1. f[k] = k + 1 /\ k + 1 \in 1 .. n /\ k + 1 # row + 1 /\ rows[k] = list[k + 1] /\ read[k + 1] = list[k + 1]
      BY <1>1, <1>2, <1>3, <2>2, <2>4
    <3>. QED  BY <1>2, <2>2, <3>1
  <2>. QED  BY <2>3, <2>4
<1>6. \A j, k \in S : f[j] = f[k] => j = k
  <2>1. \A k \in S : k \in Int
    BY <1>3
  <2>. QED  BY <1>1, <2>1
<1>7. \A p \in T : \E k \in S : f[k] = p
  <2>1. SUFFICES ASSUME NEW p \in T
                 PROVE  \E k \in S : f[k] = p
    OBVIOUS
  <2>2. p \in 1 .. n /\ Before(read[p])
    BY <1>2
  <2>3. p # row + 1
    BY <1>2, <1>4, <2>2
  <2>4. read[p] = list[p]
    BY <1>2, <2>2, <2>3
  <2>5. CASE p < row + 1
    <3>1. p \in 1 .. n - 1 /\ rows[p] = list[p]
      BY <1>1, <1>3, <2>2, <2>5
    <3>2. p \in S /\ f[p] = p
      BY <1>3, <2>2, <2>4, <2>5, <3>1
    <3>. QED  BY <3>2
  <2>6. CASE ~(p < row + 1)
    <3>. DEFINE k == p - 1
    <3>1. k \in 1 .. n - 1 /\ ~(k < row + 1) /\ k + 1 = p /\ rows[k] = list[k + 1]
      BY <1>1, <1>3, <2>2, <2>3, <2>6
    <3>. HIDE DEF k
    <3>2. k \in S /\ f[k] = p
      BY <1>3, <2>2, <2>4, <3>1
    <3>. QED  BY <3>2
  <2>. QED  BY <2>5, <2>6
<1>8. IsFiniteSet(S)
  <2>. DEFINE last == Len(rows)
  <2>1. last \in Int /\ 1 \in Int
    BY <1>1, <1>3
  <2>2. S \in SUBSET (1 .. last)
    OBVIOUS
  <2>. HIDE DEF last, S
  <2>3. IsFiniteSet(1 .. last)
    BY <2>1, FS_Interval
  <2>. QED  BY <2>2, <2>3, FS_Subset
<1>9. f \in Bijection(S, T)
  <2>. HIDE DEF S, T
  <2>1. f \in [S -> T]
    <3>. HIDE DEF f
    <3>1. f = [k \in S |-> f[k]]
      BY DEF f
    <3>. QED  BY <1>5, <3>1
  <2>. HIDE DEF f
  <2>. QED  BY <1>6, <1>7, <2>1 DEF Bijection, Injection, IsInjective, Surjection
<1>10. Cardinality(S) = Cardinality(T)
  <2>. HIDE DEF S, T, f
  <2>1. ExistsBijection(S, T)
    BY <1>9 DEF ExistsBijection
  <2>. QED  BY <1>8, <2>1, FS_Bijection
<1>11. DestinationFor(read, x, fixed) = Cardinality(T) /\ DestinationFor(rows, x, fixed) = Cardinality(S)
  BY DEF DestinationFor, Before
<1>. QED  BY <1>10, <1>11 DEF read, rows

\* The row of a resource that is listed moves up or, when all are listed, down.
LEMMA ListedShown ==
    ASSUME ExactSetting, TypeInv, BoundedRows, fixed = <<>>, Limit <= Batch,
           query.ordering = "HighScoredFirst", Untied(Scores),
           NEW r \in Resource, NEW old \in Score, Scores[r] > 0, RoseOrAllShown(r, old, Scores[r]),
           Exact(items, hasMore, Was(r, old)),
           NEW row \in Find(items, r), items' = Reposition(row, Scores[r])
    PROVE  /\ items' \in Seq(Item)
           /\ ListsScores(items', Scores)
           /\ Complete(items', Scores)
<1>. DEFINE score == Scores[r]
            x == [items[row + 1] EXCEPT !.data.score = score]
            read == [items EXCEPT ![row + 1] = x]
            rows == RowsRemoved(items, row, row)
            dest == DestinationFor(rows, x, fixed)
            n == Len(items)
            l == Resources(items)
            m == Resources(rows)
            S == UsedOf(Scores)
<1>1. /\ StoreTypeOK /\ WatcherTypeOK /\ items \in Seq(Item) /\ n \in Nat /\ n <= Limit
      /\ query.selection = "UsedResources" /\ Limit \in Nat \ {0}
  BY QueriesInQuestion DEF TypeInv, BoundedRows
<1>2. row \in Rows(items) /\ row + 1 \in 1 .. n /\ items[row + 1].resource = r /\ row \in Nat
  <2>1. row \in Rows(items) /\ row + 1 \in 1 .. n /\ items[row + 1].resource = r
    BY <1>1, FoundRows
  <2>. QED  BY <2>1 DEF Rows
<1>3. /\ score \in Nat /\ old \in Nat /\ score > 0
      /\ \A q \in Resource : Scores[q] \in Nat
      /\ \A p, q \in Resource : Rank(Scores)[p] < Rank(Scores)[q] <=> Scores[p] > Scores[q]
  BY <1>1, RankHighest, StoreAssumption DEF Score
<1>4. x \in Item /\ x.resource = r /\ x.data.score = score
  <2>1. items[row + 1] \in Item
    BY <1>1, <1>2
  <2>. QED  BY <1>2, <1>3, <2>1 DEF Item
<1>5. /\ rows \in Seq(Item) /\ Len(rows) = n - 1
      /\ Leads(m, S \ {r}, Rank(Scores))
      /\ \A k \in 1 .. Len(rows) : rows[k].data.score = Scores[rows[k].resource]
      /\ \A q \in Listed(l) : q = r \/ q \in Listed(m)
  BY <1>1, OthersLead
<1>6. /\ l \in Seq(Resource) /\ Len(l) = n /\ DOMAIN l = 1 .. n
      /\ \A k \in 1 .. n : l[k] = items[k].resource
  BY <1>1, ResourcesOf
<1>7. /\ m \in Seq(Resource) /\ Len(m) = Len(rows) /\ DOMAIN m = 1 .. Len(rows)
      /\ \A k \in 1 .. Len(rows) : m[k] = rows[k].resource
      /\ \A k \in 1 .. Len(rows) : rows[k].resource \in Resource
  BY <1>5, ResourcesOf
<1>8. /\ Leads(l, UsedOf(Was(r, old)), Rank(Was(r, old)))
      /\ Limit <= Batch => Complete(items, Was(r, old))
  BY DEF Exact, Covers
<1>9. /\ UsedOf(Scores) \ {r} = UsedOf(Was(r, old)) \ {r}
      /\ Was(r, old)[r] = old /\ \A q \in Resource : q # r => Was(r, old)[q] = Scores[q]
      /\ \A q \in Resource : Rank(Was(r, old))[q] = -Was(r, old)[q]
  <2>1. \A q \in Resource : Rank(Was(r, old))[q] = -Was(r, old)[q]
    BY DEF Rank
  <2>2. /\ UsedOf(Scores) \ {r} = UsedOf(Was(r, old)) \ {r}
        /\ Was(r, old)[r] = old /\ \A q \in Resource : q # r => Was(r, old)[q] = Scores[q]
    BY <1>1, WasScores
  <2>. QED  BY <2>1, <2>2
<1>10. items' = MoveOne(read, row, dest)
  <2>1. items' = MoveOne(read, row, DestinationFor(read, x, fixed))
    BY DEF Reposition
  <2>2. DestinationFor(read, x, fixed) = dest
    <3>1. items \in Seq(Item) /\ row \in Rows(items) /\ x \in Item
      BY <1>1, <1>2, <1>4
    <3>. HIDE DEF x
    <3>. QED  BY <3>1, DestinationWithout
  <2>. HIDE DEF read, dest, x
  <2>. QED  BY <2>1, <2>2
<1>. HIDE DEF x, read, dest, rows, l, m, n, S
<1>11. \A k \in 1 .. Len(rows) : rows[k].resource # r
  BY <1>5, <1>7 DEF Leads
<1>12. \A j, k \in 1 .. Len(rows) : j < k => Scores[rows[j].resource] > Scores[rows[k].resource]
  <2>1. SUFFICES ASSUME NEW j \in 1 .. Len(rows), NEW k \in 1 .. Len(rows), j < k
                 PROVE  Scores[rows[j].resource] > Scores[rows[k].resource]
    OBVIOUS
  <2>2. Rank(Scores)[m[j]] < Rank(Scores)[m[k]]
    BY <1>5, <1>7, <2>1 DEF Leads
  <2>. QED  BY <1>3, <1>7, <2>2
<1>13. \A p \in 1 .. Len(rows) : rows[p].data.score > x.data.score
                                    => \A k \in 1 .. p : rows[k].data.score > x.data.score
  <2>1. SUFFICES ASSUME NEW p \in 1 .. Len(rows), Scores[rows[p].resource] > score, NEW k \in 1 .. p
                 PROVE  k \in 1 .. Len(rows) /\ Scores[rows[k].resource] > score
    BY <1>4, <1>5
  <2>2. k \in 1 .. Len(rows) /\ (k = p \/ k < p)
    BY <1>1, <1>5
  <2>3. k = p \/ Scores[rows[k].resource] > Scores[rows[p].resource]
    BY <1>12, <2>2
  <2>4. Scores[rows[k].resource] \in Nat /\ Scores[rows[p].resource] \in Nat
    BY <1>3, <1>7, <2>2
  <2>. QED  BY <1>3, <2>1, <2>2, <2>3, <2>4
<1>14. \A p \in 1 .. Len(rows) : rows[p].data.score = x.data.score => rows[p].resource = x.resource
  <2>1. SUFFICES ASSUME NEW p \in 1 .. Len(rows), rows[p].data.score = score
                 PROVE  FALSE
    BY <1>4
  <2>2. Scores[rows[p].resource] = Scores[r] /\ rows[p].resource # r /\ rows[p].resource \in Resource
    BY <1>5, <1>7, <1>11, <2>1
  <2>. QED  BY <1>3, <2>2 DEF Untied
<1>15. /\ dest \in 0 .. Len(rows)
       /\ \A k \in 1 .. Len(rows) : k <= dest <=> Rank(Scores)[rows[k].resource] < Rank(Scores)[x.resource]
  <2>1. /\ DestinationFor(rows, x, fixed) \in 0 .. Len(rows)
        /\ \A p \in 1 .. Len(rows) : p <= DestinationFor(rows, x, fixed)
                                        <=> rows[p].data.score > x.data.score
    BY <1>1, <1>4, <1>5, <1>13, <1>14, DestinationHighest
  <2>2. \A k \in 1 .. Len(rows) :
           Rank(Scores)[rows[k].resource] < Rank(Scores)[x.resource] <=> rows[k].data.score > score
    BY <1>3, <1>4, <1>5, <1>7
  <2>. QED  BY <1>4, <2>1, <2>2 DEF dest
<1>16. items' = RowsInserted(rows, dest, <<x>>)
  <2>1. items \in Seq(Item) /\ row \in Rows(items) /\ dest \in Rows(items) /\ x \in Item
    BY <1>1, <1>2, <1>4, <1>5, <1>15 DEF Rows, n
  <2>2. MoveOne([items EXCEPT ![row + 1] = x], row, dest) = RowsInserted(RowsRemoved(items, row, row), dest, <<x>>)
    BY ONLY <2>1, UpdatedRowMoves
  <2>. QED  BY <1>10, <2>2 DEF read, rows
<1>17. ASSUME NEW q \in (S \ {r}) \ Listed(m)
       PROVE  Rank(Scores)[r] < Rank(Scores)[q]
  <2>1. q \in UsedOf(Was(r, old)) \ Listed(l) /\ q \in Resource /\ q # r
    BY <1>5, <1>9 DEF S, UsedOf
  <2>2. old < score
    BY <2>1 DEF RoseOrAllShown, l
  <2>3. Rank(Was(r, old))[l[row + 1]] < Rank(Was(r, old))[q] /\ l[row + 1] = r
    BY <1>2, <1>6, <1>8, <2>1 DEF Leads
  <2>4. -old < -Scores[q] /\ Scores[q] \in Nat
    BY <1>3, <1>9, <2>1, <2>3
  <2>. QED  BY <1>3, <2>1, <2>2, <2>4
<1>18. /\ RowsInserted(rows, dest, <<x>>) \in Seq(Item)
       /\ Len(RowsInserted(rows, dest, <<x>>)) = Len(rows) + 1
       /\ ListsScores(RowsInserted(rows, dest, <<x>>), Scores)
       /\ Listed(m) \cup {r} \subseteq Listed(Resources(RowsInserted(rows, dest, <<x>>)))
  <2>1. Scores \in [Resource -> Score] /\ r \in UsedOf(Scores)
    BY <1>1, <1>3, WasScores DEF UsedOf
  <2>. QED  BY <1>4, <1>5, <1>15, <1>17, <2>1, InsertedLeads DEF m, S
<1>19. Complete(items', Scores)
  <2>1. Len(items') = n
    BY <1>1, <1>5, <1>16, <1>18
  <2>2. CASE n = Limit
    BY <2>1, <2>2 DEF Complete
  <2>3. CASE UsedOf(Was(r, old)) \subseteq Listed(l)
    <3>1. UsedOf(Scores) \subseteq Listed(m) \cup {r}
      BY <1>5, <1>9, <2>3
    <3>. QED  BY <1>16, <1>18, <3>1 DEF Complete
  <2>. QED  BY <1>8, <2>2, <2>3 DEF Complete, n, l
<1>. QED  BY <1>16, <1>18, <1>19

\* A resource that is not listed gets a row, which may cost the last one.
LEMMA UnlistedShown ==
    ASSUME ExactSetting, TypeInv, BoundedRows, fixed = <<>>, Limit <= Batch,
           query.ordering = "HighScoredFirst", Untied(Scores),
           NEW r \in Resource, NEW old \in Score, Scores[r] > 0, Exact(items, hasMore, Was(r, old)),
           Find(items, r) = {}, items' = TrimTo(WithNewRow(NewRow(r, Scores[r])), Limit)
    PROVE  /\ items' \in Seq(Item)
           /\ ListsScores(items', Scores)
           /\ Complete(items', Scores)
<1>. DEFINE score == Scores[r]
            x == NewRow(r, score)
            dest == DestinationFor(items, x, fixed)
            more == RowsInserted(items, dest, <<x>>)
            n == Len(items)
            l == Resources(items)
            S == UsedOf(Scores)
<1>1. /\ StoreTypeOK /\ WatcherTypeOK /\ items \in Seq(Item) /\ n \in Nat /\ n <= Limit
      /\ query.selection = "UsedResources" /\ Limit \in Nat \ {0}
  BY QueriesInQuestion DEF TypeInv, BoundedRows
<1>2. /\ score \in Nat /\ score > 0
      /\ \A q \in Resource : Scores[q] \in Nat
      /\ \A p, q \in Resource : Rank(Scores)[p] < Rank(Scores)[q] <=> Scores[p] > Scores[q]
  BY <1>1, RankHighest, StoreAssumption DEF Score
<1>3. x \in Item /\ x.resource = r /\ x.data.score = score
  BY <1>2 DEF NewRow, Item, LinkStatus, Linked, Unknown, NotLinked
<1>4. /\ l \in Seq(Resource) /\ Len(l) = n /\ DOMAIN l = 1 .. n
      /\ \A k \in 1 .. n : l[k] = items[k].resource
      /\ \A k \in 1 .. n : items[k].resource \in Resource
  BY <1>1, ResourcesOf
<1>5. /\ Leads(l, S \ {r}, Rank(Scores))
      /\ \A k \in 1 .. n : items[k].data.score = Scores[items[k].resource] /\ items[k].resource # r
  BY <1>1, OthersLeadAlready
<1>6. items' = TrimTo(more, Limit)
  BY DEF WithNewRow
<1>7. r \in S /\ Scores \in [Resource -> Score] /\ Ranks(Rank(Scores), S)
  <2>1. Scores \in [Resource -> Score]
    BY <1>1, WasScores
  <2>. QED  BY <1>2, <2>1, ScoresRank DEF UsedOf
<1>8. n = Limit \/ S \subseteq Listed(l) \cup {r}
  <2>1. UsedOf(Scores) \ {r} = UsedOf(Was(r, old)) \ {r}
    BY <1>1, WasScores
  <2>. QED  BY <2>1 DEF Exact, Covers, Complete
<1>. HIDE DEF x, l, n, S, dest
<1>9. \A j, k \in 1 .. n : j < k => Scores[items[j].resource] > Scores[items[k].resource]
  <2>1. SUFFICES ASSUME NEW j \in 1 .. n, NEW k \in 1 .. n, j < k
                 PROVE  Scores[items[j].resource] > Scores[items[k].resource]
    OBVIOUS
  <2>2. Rank(Scores)[l[j]] < Rank(Scores)[l[k]]
    BY <1>4, <1>5, <2>1 DEF Leads
  <2>. QED  BY <1>2, <1>4, <2>2
<1>10. \A p \in 1 .. Len(items) : items[p].data.score > x.data.score
                                     => \A k \in 1 .. p : items[k].data.score > x.data.score
  <2>1. SUFFICES ASSUME NEW p \in 1 .. n, Scores[items[p].resource] > score, NEW k \in 1 .. p
                 PROVE  k \in 1 .. n /\ Scores[items[k].resource] > score
    BY <1>3, <1>5 DEF n
  <2>2. k \in 1 .. n /\ (k = p \/ k < p)
    BY <1>1
  <2>3. k = p \/ Scores[items[k].resource] > Scores[items[p].resource]
    BY <1>9, <2>2
  <2>4. Scores[items[k].resource] \in Nat /\ Scores[items[p].resource] \in Nat
    BY <1>2, <1>4, <2>2
  <2>. QED  BY <1>2, <2>1, <2>2, <2>3, <2>4
<1>11. \A p \in 1 .. Len(items) : items[p].data.score = x.data.score => items[p].resource = x.resource
  <2>1. SUFFICES ASSUME NEW p \in 1 .. n, items[p].data.score = score
                 PROVE  FALSE
    BY <1>3 DEF n
  <2>2. Scores[items[p].resource] = Scores[r] /\ items[p].resource # r /\ items[p].resource \in Resource
    BY <1>4, <1>5, <2>1
  <2>. QED  BY <1>2, <2>2 DEF Untied
<1>12. /\ dest \in 0 .. n
       /\ \A k \in 1 .. n : k <= dest <=> Rank(Scores)[items[k].resource] < Rank(Scores)[r]
  <2>1. /\ DestinationFor(items, x, fixed) \in 0 .. Len(items)
        /\ \A p \in 1 .. Len(items) : p <= DestinationFor(items, x, fixed)
                                        <=> items[p].data.score > x.data.score
    BY <1>1, <1>3, <1>10, <1>11, DestinationHighest
  <2>2. \A k \in 1 .. n : Rank(Scores)[items[k].resource] < Rank(Scores)[r] <=> items[k].data.score > score
    BY <1>2, <1>4, <1>5
  <2>. QED  BY <1>3, <2>1, <2>2 DEF dest, n
<1>13. CASE (S \subseteq Listed(l) \cup {r}) \/ dest < n
  <2>1. ASSUME NEW q \in (S \ {r}) \ Listed(l)
        PROVE  Rank(Scores)[r] < Rank(Scores)[q]
    <3>1. dest < n /\ n \in 1 .. n /\ ~(n <= dest)
      BY <1>1, <1>12, <1>13, <2>1
    <3>2. Rank(Scores)[l[n]] < Rank(Scores)[q]
      BY <1>4, <1>5, <2>1, <3>1 DEF Leads
    <3>3. ~(Rank(Scores)[l[n]] < Rank(Scores)[r])
      BY <1>4, <1>12, <3>1
    <3>4. Rank(Scores)[q] \in Int /\ Rank(Scores)[r] \in Int /\ Rank(Scores)[l[n]] \in Int
      BY <1>5, <1>4, <1>7, <2>1, <3>1 DEF Ranks, Leads
    <3>. QED  BY <3>2, <3>3, <3>4
  <2>2. /\ RowsInserted(items, dest, <<x>>) \in Seq(Item)
        /\ Len(RowsInserted(items, dest, <<x>>)) = Len(items) + 1
        /\ ListsScores(RowsInserted(items, dest, <<x>>), Scores)
        /\ Listed(l) \cup {r} \subseteq Listed(Resources(RowsInserted(items, dest, <<x>>)))
    BY <1>1, <1>3, <1>5, <1>7, <1>12, <2>1, InsertedLeads DEF l, S, n
  <2>. HIDE DEF more
  <2>3. more \in Seq(Item) /\ Len(more) = n + 1 /\ ListsScores(more, Scores)
        /\ Listed(l) \cup {r} \subseteq Listed(Resources(more))
    BY <2>2 DEF more, n
  <2>4. /\ items' \in Seq(Item) /\ ListsScores(items', Scores)
        /\ Len(items') = Limit \/ items' = more
    BY <1>1, <1>6, <2>3, TrimmedLeads
  <2>5. Complete(items', Scores)
    <3>1. SUFFICES ASSUME items' = more, Len(more) # Limit
                   PROVE  S \subseteq Listed(Resources(items'))
      BY <2>4 DEF Complete, S
    <3>2. n # Limit
      <4>1. ASSUME n = Limit PROVE FALSE
        <5>1. Len(TrimTo(more, Limit)) <= Limit
          BY <1>1, <2>3, TrimmedRows
        <5>. QED  BY <1>1, <1>6, <2>3, <3>1, <4>1, <5>1
      <4>. QED  BY <4>1
    <3>. QED  BY <1>8, <2>3, <3>1, <3>2
  <2>. QED  BY <2>4, <2>5
<1>14. CASE ~((S \subseteq Listed(l) \cup {r}) \/ dest < n)
  <2>1. n = Limit /\ dest = n
    BY <1>1, <1>8, <1>12, <1>14
  <2>2. /\ more \in Seq(Item) /\ Len(more) = n + 1
        /\ \A p \in 1 .. n : more[p] = items[p]
    <3>1. items \in Seq(Item) /\ dest \in 0 .. Len(items) /\ x \in Item
      BY <1>1, <1>3, <1>12 DEF n
    <3>2. more \in Seq(Item)
      BY ONLY <3>1, InsertedRow
    <3>3. Len(more) = Len(items) + 1
      BY ONLY <3>1, InsertedRow
    <3>4. \A p \in 1 .. dest : more[p] = items[p]
      BY ONLY <3>1, InsertedRow
    <3>. HIDE DEF more
    <3>. QED  BY <2>1, <3>2, <3>3, <3>4 DEF n
  <2>. HIDE DEF more
  <2>3. /\ items' \in Seq(Item) /\ Len(items') = n
        /\ \A p \in 1 .. n : items'[p] = items[p]
    <3>1. /\ TrimTo(more, Limit) \in Seq(Item)
          /\ Len(TrimTo(more, Limit)) = IF Len(more) <= Limit THEN Len(more) ELSE Limit
          /\ \A p \in 1 .. Len(TrimTo(more, Limit)) : TrimTo(more, Limit)[p] = more[p]
      BY <1>1, <2>2, TrimmedRows
    <3>. QED  BY <1>1, <1>6, <2>1, <2>2, <3>1
  <2>4. items' = items
    BY <1>1, <2>3 DEF n
  <2>5. Leads(l, S, Rank(Scores))
    <3>1. \A k \in 1 .. n : Rank(Scores)[l[k]] < Rank(Scores)[r]
      BY <1>4, <1>12, <2>1
    <3>. QED  BY <1>4, <1>5, <3>1 DEF Leads
  <2>. QED  BY <1>1, <1>5, <2>1, <2>4, <2>5 DEF ListsScores, Complete, l, S, n
<1>. QED  BY <1>13, <1>14

\* Either way the list shows the score.
LEMMA ShownExact ==
    ASSUME ExactSetting, TypeInv, BoundedRows, fixed = <<>>, Limit <= Batch,
           query.ordering = "HighScoredFirst", Untied(Scores),
           NEW r \in Resource, NEW old \in Score, Scores[r] > 0, RoseOrAllShown(r, old, Scores[r]),
           Exact(items, hasMore, Was(r, old)), ShowScore(r, Scores[r])
    PROVE  /\ UNCHANGED <<hasMore, fixed, config, checks>>
           /\ Exact(items', hasMore', Scores)
<1>1. UNCHANGED <<hasMore, fixed, config, checks>>
  BY DEF ShowScore
<1>2. ListsScores(items', Scores) /\ Complete(items', Scores)
  <2>1. CASE \E row \in Find(items, r) : items' = Reposition(row, Scores[r])
    BY <2>1, ListedShown
  <2>2. CASE Find(items, r) = {} /\ items' = TrimTo(WithNewRow(NewRow(r, Scores[r])), Limit)
    BY <2>2, UnlistedShown
  <2>. QED  BY <2>1, <2>2 DEF ShowScore
<1>. QED  BY <1>1, <1>2 DEF Exact, ListsScores, Covers

\* A list with room for every resource shows all that are used.
LEMMA AllShown ==
    ASSUME TypeInv, NEW scores \in [Resource -> Score], Exact(items, hasMore, scores),
           Limit <= Batch, Cardinality(Resource) <= Limit
    PROVE  UsedOf(scores) \subseteq Listed(Resources(items))
<1>. DEFINE l == Resources(items)
            D == 1 .. Len(l)
<1>1. /\ items \in Seq(Item) /\ Limit \in Nat \ {0} /\ StoreTypeOK /\ WatcherTypeOK
      /\ IsFiniteSet(Resource) /\ Cardinality(Resource) \in Nat
  BY StoreAssumption, QueryTypes, FS_CardinalityType DEF TypeInv
<1>2. SUFFICES ASSUME Len(items) = Limit PROVE Resource \subseteq Listed(l)
  BY DEF Exact, Covers, Complete, UsedOf
<1>3. /\ l \in Seq(Resource) /\ DOMAIN l = 1 .. Len(items) /\ Len(l) = Len(items) /\ Len(items) \in Nat
      /\ Leads(l, UsedOf(scores), Rank(scores)) /\ Ranks(Rank(scores), UsedOf(scores))
  BY <1>1, ResourcesOf, ScoresRank DEF Exact
<1>. HIDE DEF l
<1>4. \A j, k \in D : l[j] = l[k] => j = k
  <2>1. SUFFICES ASSUME NEW j \in D, NEW k \in D, l[j] = l[k], j < k \/ k < j
                 PROVE  FALSE
    BY <1>3
  <2>2. Rank(scores)[l[j]] < Rank(scores)[l[k]] \/ Rank(scores)[l[k]] < Rank(scores)[l[j]]
    BY <1>3, <2>1 DEF Leads
  <2>3. Rank(scores)[l[j]] \in Int
    BY <1>3, <2>1 DEF Leads, Ranks
  <2>. QED  BY <2>1, <2>2, <2>3
<1>5. l \in Bijection(D, Listed(l)) /\ Listed(l) \subseteq Resource
  <2>1. Listed(l) = {l[k] : k \in D} /\ DOMAIN l = D
    BY <1>3 DEF Listed
  <2>2. \A k \in D : l[k] \in Resource
    BY <1>3
  <2>3. l \in [D -> Listed(l)]
    BY <1>3, <2>1
  <2>4. \A r \in Listed(l) : \E k \in D : l[k] = r
    BY <2>1
  <2>. HIDE DEF D
  <2>. QED  BY <1>4, <2>1, <2>2, <2>3, <2>4 DEF Bijection, Injection, IsInjective, Surjection
<1>6. IsFiniteSet(D) /\ Cardinality(D) = Limit
  <2>. DEFINE n == Len(l)
  <2>1. n \in Nat /\ n = Limit
    BY <1>2, <1>3
  <2>. HIDE DEF n
  <2>2. IsFiniteSet(1 .. n) /\ Cardinality(1 .. n) = IF 1 > n THEN 0 ELSE n - 1 + 1
    BY <2>1, FS_Interval
  <2>. QED  BY <2>1, <2>2 DEF n
<1>7. Cardinality(Listed(l)) = Limit
  <2>. HIDE DEF D
  <2>1. ExistsBijection(D, Listed(l))
    BY <1>5 DEF ExistsBijection
  <2>. QED  BY <1>6, <2>1, FS_Bijection
<1>8. Cardinality(Listed(l)) <= Cardinality(Resource)
      /\ (Cardinality(Listed(l)) = Cardinality(Resource) => Listed(l) = Resource)
  BY <1>1, <1>5, FS_Subset
<1>9. Cardinality(Listed(l)) = Cardinality(Resource)
  BY <1>1, <1>7, <1>8
<1>. QED  BY <1>8, <1>9

\* Scores that were deleted leave rows whose scores are otherwise right.
LEMMA ThinnedExact ==
    ASSUME NEW scores \in [Resource -> Score], NEW old \in [Resource -> Score], items \in Seq(Item),
           Exact(items, hasMore, old), \A r \in Resource : scores[r] \in {0, old[r]}
    PROVE  Thinned(items, hasMore, scores)
<1>1. UsedOf(scores) \subseteq UsedOf(old)
  <2>1. ~(0 > 0)
    OBVIOUS
  <2>2. \A r \in Resource : scores[r] > 0 => old[r] > 0
    BY <2>1
  <2>. QED  BY <2>2 DEF UsedOf
<1>2. Covers(items, hasMore, scores)
  BY <1>1 DEF Exact, Covers, Complete
<1>3. \A k \in 1 .. Len(items) : items[k].resource \in Resource
  BY ResourcesOf
<1>4. \A k \in 1 .. Len(items) : items[k].data.score = old[items[k].resource]
  BY DEF Exact
<1>5. \A k \in 1 .. Len(items) : scores[items[k].resource] \in {0, items[k].data.score}
  BY <1>3, <1>4
<1>. QED  BY <1>2, <1>5 DEF Thinned

-------------------------------------------------------------------------------
(***************************************************************************)
(* The invariant of a settled model: the first state.                      *)
(***************************************************************************)
\* A new model shows the beginning of the result.
LEMMA InitSettled == ASSUME ExactSetting, Init PROVE SInv
<1>1. TypeInv /\ IInv /\ StoreTypeOK /\ WatcherTypeOK /\ items \in Seq(Item)
  BY InitKeeps DEF IInv, TypeInv
<1>2. PICK result \in Results(current) :
         /\ items = SubSeq(result, 1, Lesser(Lesser(Batch, Limit), Len(result)))
         /\ hasMore = MoreBehind(result, Lesser(Batch, Limit))
         /\ checks = LET gone == {items[k].resource : k \in DOMAIN items} \cap Missing
                     IN IF gone = {} THEN {} ELSE {gone}
  BY Zenon DEF Init
<1>3. /\ current \in Activity /\ current = activity /\ Batch \in Nat \ {0} /\ Limit \in Nat \ {0}
  BY <1>1, QueriesInQuestion DEF Init
<1>4. result \in Seq(Item) /\ Len(result) \in Nat
  BY <1>1, <1>3, ResultLists
<1>. DEFINE n == Lesser(Batch, Limit)
<1>5. n \in Nat /\ (Limit <= Batch => n = Limit)
  BY <1>3 DEF Lesser
<1>6. hasMore = (Len(result) > n)
  BY <1>2 DEF MoreBehind
<1>. HIDE DEF n
<1>7. /\ Len(items) = Lesser(n, Len(result))
      /\ \A p \in 1 .. Len(items) : items[p] = result[p]
  <2>1. n \in Nat /\ result \in Seq(Item) /\ items = SubSeq(result, 1, Lesser(n, Len(result)))
    BY <1>2, <1>4, <1>5 DEF n
  <2>2. Lesser(n, Len(result)) \in 0 .. Len(result)
    BY <1>4, <1>5 DEF Lesser
  <2>. QED  BY <1>4, <2>1, <2>2
<1>8. Untied(stats[current]) /\ \A a \in Activity : Untied(stats[a])
  <2>1. \A a \in Activity : Untied(stats[a])
    BY DEF Init, Untied, ExactSetting, ScoresDiffer
  <2>. QED  BY <1>3, <2>1
<1>9. Fronts(items, result)
  BY <1>4, <1>5, <1>7 DEF Fronts, Lesser
<1>10. /\ Leads(Resources(items), UsedOf(Scores), Rank(Scores))
       /\ \A k \in 1 .. Len(items) : items[k].data.score = Scores[items[k].resource]
       /\ Len(items) = Len(result) => UsedOf(Scores) \subseteq Listed(Resources(items))
  BY <1>1, <1>3, <1>8, <1>9, FrontsExact DEF Scores
<1>11. /\ Limit <= Batch => Len(items) = Limit \/ Len(items) = Len(result)
       /\ hasMore \/ Len(items) = Len(result)
  <2>1. Len(items) = n \/ Len(items) = Len(result)
    BY <1>7 DEF Lesser
  <2>2. Len(result) > n \/ Len(items) = Len(result)
    BY <1>4, <1>5, <1>7 DEF Lesser
  <2>3. Len(result) > n => hasMore
    BY <1>6
  <2>. QED  BY <1>5, <2>1, <2>2, <2>3
<1>12. Exact(items, hasMore, Scores)
  BY <1>8, <1>10, <1>11 DEF Exact, Covers, Complete, Scores
<1>13. checks = {}
  <2>. DEFINE gone == {items[k].resource : k \in DOMAIN items} \cap Missing
  <2>1. gone = {}
    BY DEF ExactSetting
  <2>2. checks = IF gone = {} THEN {} ELSE {gone}
    BY <1>2
  <2>. HIDE DEF gone
  <2>. QED  BY <2>1, <2>2
<1>14. bus = <<>> /\ ~timer /\ calls = {} /\ fixed = <<>>
  BY DEF Init
<1>. QED  BY <1>1, <1>3, <1>8, <1>12, <1>13, <1>14 DEF SInv, OneAtATime, ListFollows

-------------------------------------------------------------------------------
(***************************************************************************)
(* What the steps of the manager leave to the model.                       *)
(***************************************************************************)
\* Scores that are deleted.
LEMMA DeletedScores ==
    ASSUME StoreTypeOK, NEW a, NEW R, NEW b \in Activity
    PROVE  /\ Deleted(a, R)[b] \in [Resource -> Score]
           /\ \A r \in Resource : Deleted(a, R)[b][r] \in {0, stats[b][r]}
           /\ a # Any /\ a # b => Deleted(a, R)[b] = stats[b]
           /\ a = Any \/ a = b => \A r \in Resource : /\ r \in R => Deleted(a, R)[b][r] = 0
                                                      /\ r \notin R => Deleted(a, R)[b][r] = stats[b][r]
           /\ Untied(stats[b]) => Untied(Deleted(a, R)[b])
<1>. DEFINE d == Deleted(a, R)[b]
<1>1. d = [r \in Resource |-> IF (a = Any \/ a = b) /\ r \in R THEN 0 ELSE stats[b][r]]
  BY DEF Deleted
<1>2. stats[b] \in [Resource -> Score] /\ 0 \in Score
  BY StoreAssumption DEF StoreTypeOK, Score
<1>. HIDE DEF d
<1>3. d \in [Resource -> Score]
  BY <1>1, <1>2
<1>4. \A r \in Resource : d[r] \in {0, stats[b][r]}
  BY <1>1
<1>5. a # Any /\ a # b => d = stats[b]
  BY <1>1, <1>2
<1>6. a = Any \/ a = b => \A r \in Resource : /\ r \in R => d[r] = 0
                                              /\ r \notin R => d[r] = stats[b][r]
  BY <1>1
<1>7. Untied(stats[b]) => Untied(d)
  <2>1. SUFFICES ASSUME Untied(stats[b]), NEW r \in Resource, NEW q \in Resource, d[r] = d[q], d[r] # 0
                 PROVE  r = q
    BY DEF Untied
  <2>2. d[r] = stats[b][r] /\ d[q] = stats[b][q]
    BY <1>4, <2>1
  <2>. QED  BY <2>1, <2>2 DEF Untied
<1>. QED  BY <1>3, <1>4, <1>5, <1>6, <1>7 DEF d

\* What the list is with regard to the next state's scores, in that state's words.
LEMMA NextList ==
    ASSUME query' = query
    PROVE  /\ Exact(items', hasMore', stats'[current']) => Exact(items, hasMore, Scores)'
           /\ Thinned(items', hasMore', stats'[current']) => Thinned(items, hasMore, Scores)'
<1>1. Exact(items', hasMore', stats'[current']) => Exact(items, hasMore, Scores)'
  BY DEF Exact, Leads, Covers, Complete, Rank, Limit, Batch, Scores
<1>2. Thinned(items', hasMore', stats'[current']) => Thinned(items, hasMore, Scores)'
  BY DEF Thinned, Covers, Complete, Limit, Batch, Scores
<1>. QED  BY <1>1, <1>2

\* The same of what they were before one of them changed.
LEMMA NextWas ==
    ASSUME query' = query, NEW r, NEW old, Exact(items', hasMore', [stats'[current'] EXCEPT ![r] = old])
    PROVE  Exact(items, hasMore, Was(r, old))'
<1>1. Was(r, old)' = [stats'[current'] EXCEPT ![r] = old]
  BY DEF Was, Scores
<1>. DEFINE was == [stats'[current'] EXCEPT ![r] = old]
<1>. HIDE DEF was
<1>2. Exact(items', hasMore', was) /\ Was(r, old)' = was
  BY <1>1 DEF was
<1>. QED  BY <1>2 DEF Exact, Leads, Covers, Complete, Rank, Limit, Batch

\* An announcement that is made while none waits is the next signal.
LEMMA AnnouncedNext ==
    ASSUME OneAtATime, bus = <<>>, ~timer, NEW m, Announce(m), calls' = {},
           UNCHANGED <<query, current, timer, items, hasMore, fixed, config, checks>>,
           IF m.kind = "CurrentActivityChanged" THEN activity' = m.activity ELSE current = activity',
           \A a \in Activity : Untied(stats'[a]),
           m.kind = "CurrentActivityChanged" \/ WaitsOk(m)'
    PROVE  OneAtATime' /\ ListFollows'
<1>1. bus' = <<m>> /\ bus' # <<>> /\ Len(bus') = 1 /\ Head(bus') = m
  BY DEF Announce
<1>2. NextSignal' = m
  BY <1>1 DEF NextSignal
<1>3. \A a \in Activity : Untied(stats[a])'
  BY DEF Untied
<1>4. OneAtATime'
  BY <1>1, <1>2, <1>3 DEF OneAtATime
<1>5. NextSignal'.kind = "CurrentActivityChanged" \/ WaitsOk(NextSignal)'
  BY <1>2 DEF WaitsOk, SendsResultScoreUpdated, SendsResultRemoved, SchedulesInvalidation, Drops,
                SendsResultLinked, SendsResultUnlinked
<1>. QED  BY <1>1, <1>4, <1>5 DEF ListFollows

\* The activities whose announcements the watcher of such a query passes on.
Heard(a) == a = Any \/ a = current \/ a = CurrentTag

\* What the watcher does with an announcement made in the next state.
LEMMA HeardNext ==
    ASSUME UNCHANGED <<query, current, timer>>, ~timer,
           query.selection = "UsedResources", query.activities = "current", NEW m
    PROVE  /\ SendsResultScoreUpdated(m)' <=> m.kind = "ResourceScoreUpdated" /\ Heard(m.activity)
           /\ SendsResultRemoved(m)' <=> m.kind = "ResourceScoreDeleted" /\ Heard(m.activity)
           /\ SchedulesInvalidation(m)' <=> \/ m.kind = "StatsDeleted"
                                            \/ m.kind = "PatternDeleted" /\ Heard(m.activity)
           /\ ~SendsResultLinked(m)' /\ ~SendsResultUnlinked(m)'
<1>1. \A a : ActivityMatches(a)' <=> Heard(a)
  BY DEF ActivityMatches, Heard
<1>2. query'.selection = "UsedResources" /\ ~timer'
  OBVIOUS
<1>3. SendsResultScoreUpdated(m)' <=> m.kind = "ResourceScoreUpdated" /\ Heard(m.activity)
  BY <1>1, <1>2 DEF SendsResultScoreUpdated
<1>4. SendsResultRemoved(m)' <=> m.kind = "ResourceScoreDeleted" /\ Heard(m.activity)
  BY <1>1, <1>2 DEF SendsResultRemoved
<1>5. SchedulesInvalidation(m)' <=> \/ m.kind = "StatsDeleted"
                                    \/ m.kind = "PatternDeleted" /\ Heard(m.activity)
  BY <1>1, <1>2 DEF SchedulesInvalidation
<1>6. ~SendsResultLinked(m)' /\ ~SendsResultUnlinked(m)'
  BY <1>2 DEF SendsResultLinked, SendsResultUnlinked
<1>. QED  BY <1>3, <1>4, <1>5, <1>6

\* The state in which the manager takes a step.
Quiet == /\ ExactSetting /\ TypeInv /\ OneAtATime /\ bus = <<>> /\ ~timer
         /\ Exact(items, hasMore, Scores)
         /\ UNCHANGED <<query, current, timer, items, hasMore, fixed, config, checks>>

\* An announcement of nothing that the list shows.
LEMMA UnheardNext ==
    ASSUME Quiet, NEW m, stats'[current] = stats[current],
           m.kind # "CurrentActivityChanged",
           m.kind \in {"ResourceScoreUpdated", "ResourceScoreDeleted", "PatternDeleted"} => ~Heard(m.activity),
           m.kind # "StatsDeleted"
    PROVE  WaitsOk(m)'
<1>1. query.selection = "UsedResources" /\ query.activities = "current"
  BY QueriesInQuestion DEF Quiet, TypeInv
<1>2. ~SendsResultScoreUpdated(m)' /\ ~SendsResultRemoved(m)' /\ ~SchedulesInvalidation(m)'
  BY <1>1, HeardNext DEF Quiet
<1>3. Exact(items, hasMore, Scores)'
  <2>1. Exact(items', hasMore', stats'[current'])
    BY DEF Quiet, Scores
  <2>. QED  BY <2>1, NextList DEF Quiet
<1>. QED  BY <1>2, <1>3 DEF WaitsOk

\* Of the deletion of scores: the list is read again.
LEMMA InvalidatedNext ==
    ASSUME Quiet, NEW m, NEW a, NEW R, stats' = Deleted(a, R),
           \/ m.kind = "StatsDeleted"
           \/ m.kind = "PatternDeleted" /\ Heard(m.activity)
    PROVE  WaitsOk(m)'
<1>1. query.selection = "UsedResources" /\ query.activities = "current" /\ current \in Activity
      /\ StoreTypeOK /\ items \in Seq(Item) /\ UNCHANGED <<items, hasMore, query, current>>
  BY QueriesInQuestion DEF Quiet, TypeInv
<1>2. ~SendsResultScoreUpdated(m)' /\ ~SendsResultRemoved(m)' /\ SchedulesInvalidation(m)'
  BY <1>1, HeardNext DEF Quiet
<1>3. Thinned(items, hasMore, Scores)'
  <2>1. /\ stats'[current] \in [Resource -> Score] /\ Scores \in [Resource -> Score]
        /\ \A r \in Resource : stats'[current][r] \in {0, Scores[r]}
    BY <1>1, DeletedScores DEF Scores, StoreTypeOK
  <2>2. Exact(items, hasMore, Scores)
    BY DEF Quiet
  <2>3. Thinned(items, hasMore, stats'[current])
    BY <1>1, <2>1, <2>2, ThinnedExact
  <2>4. Thinned(items', hasMore', stats'[current'])
    BY <1>1, <2>3
  <2>. QED  BY <1>1, <2>4, NextList
<1>4. ~Drops(m)'
  BY <1>2 DEF Drops
<1>. QED  BY <1>2, <1>3, <1>4 DEF WaitsOk

\* Of the deletion of one: it was in the list, or would have been.
LEMMA DeletedNext ==
    ASSUME Quiet, NEW m, NEW r \in Resource, NEW a, stats' = Deleted(a, {r}),
           a = Any \/ a = current,
           m.kind = "ResourceScoreDeleted" /\ m.resource = r /\ Heard(m.activity)
    PROVE  WaitsOk(m)'
<1>1. query.selection = "UsedResources" /\ query.activities = "current" /\ current \in Activity
      /\ StoreTypeOK /\ items \in Seq(Item) /\ UNCHANGED <<items, hasMore, query, current>>
  BY QueriesInQuestion DEF Quiet, TypeInv
<1>2. ~SendsResultScoreUpdated(m)' /\ SendsResultRemoved(m)' /\ ~SchedulesInvalidation(m)'
  BY <1>1, HeardNext DEF Quiet
<1>3. stats[current] \in [Resource -> Score]
  BY <1>1 DEF StoreTypeOK
<1>10. PICK old \in Score : old = stats[current][r]
  BY <1>3
<1>4. stats'[current] \in [Resource -> Score] /\ stats'[current][r] = 0
      /\ \A q \in Resource : q # r => stats'[current][q] = stats[current][q]
  <2>. DEFINE R == {r}
  <2>1. r \in R /\ \A q : q # r => q \notin R
    OBVIOUS
  <2>. HIDE DEF R
  <2>2. Deleted(a, R)[current] \in [Resource -> Score]
    BY <1>1, DeletedScores
  <2>3. \A q \in Resource : /\ q \in R => Deleted(a, R)[current][q] = 0
                            /\ q \notin R => Deleted(a, R)[current][q] = stats[current][q]
    BY <1>1, DeletedScores
  <2>4. stats' = Deleted(a, R)
    BY DEF R
  <2>. DEFINE d == Deleted(a, R)[current]
  <2>5. d \in [Resource -> Score] /\ d[r] = 0 /\ \A q \in Resource : q # r => d[q] = stats[current][q]
    <3>. HIDE DEF d
    <3>1. \A q \in Resource : /\ q \in R => d[q] = 0
                              /\ q \notin R => d[q] = stats[current][q]
      BY <2>3 DEF d
    <3>2. d \in [Resource -> Score]
      BY <2>2 DEF d
    <3>3. d[r] = 0
      BY <2>1, <3>1
    <3>4. \A q \in Resource : q # r => d[q] = stats[current][q]
      BY <2>1, <3>1
    <3>. QED  BY <3>2, <3>3, <3>4
  <2>6. stats'[current] = d
    BY <2>4
  <2>. HIDE DEF d
  <2>. QED  BY <2>5, <2>6
<1>5. [stats'[current] EXCEPT ![r] = old] = stats[current]
  BY <1>3, <1>4, <1>10
<1>6. Exact(items', hasMore', [stats'[current'] EXCEPT ![r] = old])
  <2>1. Exact(items, hasMore, stats[current])
    BY DEF Quiet, Scores
  <2>. QED  BY <1>1, <1>5, <2>1
<1>7. Exact(items, hasMore, Was(m.resource, old))'
  BY <1>1, <1>6, NextWas
<1>8. Scores'[m.resource] = 0
  BY <1>1, <1>4 DEF Scores
<1>9. ~Drops(m)'
  BY <1>2 DEF Drops
<1>. QED  BY <1>2, <1>3, <1>7, <1>8, <1>9 DEF WaitsOk

\* Of a new score: the list is what it was without it.
LEMMA UsedNext ==
    ASSUME Quiet, NEW m, NEW r \in Resource, NEW score \in Score, score > 0,
           Uses = "any" \/ score > stats[current][r],
           Limit <= Batch, query.ordering = "HighScoredFirst",
           stats' = [stats EXCEPT ![current][r] = score],
           m.kind = "ResourceScoreUpdated" /\ m.resource = r /\ m.score = score /\ Heard(m.activity)
    PROVE  WaitsOk(m)'
<1>1. query.selection = "UsedResources" /\ query.activities = "current" /\ current \in Activity
      /\ StoreTypeOK /\ items \in Seq(Item) /\ UNCHANGED <<items, hasMore, query, current>>
  BY QueriesInQuestion DEF Quiet, TypeInv
<1>2. SendsResultScoreUpdated(m)' /\ ~SendsResultRemoved(m)' /\ ~SchedulesInvalidation(m)'
  BY <1>1, HeardNext DEF Quiet
<1>3. stats[current] \in [Resource -> Score]
  BY <1>1 DEF StoreTypeOK
<1>4. PICK old \in Score : old = stats[current][r]
  BY <1>3
<1>5. stats'[current] = [stats[current] EXCEPT ![r] = score]
  BY <1>1 DEF StoreTypeOK
<1>6. [stats'[current] EXCEPT ![r] = old] = stats[current] /\ stats'[current][r] = score
  BY <1>3, <1>5, <1>4
<1>7. Exact(items', hasMore', [stats'[current'] EXCEPT ![r] = old])
  <2>1. Exact(items, hasMore, stats[current])
    BY DEF Quiet, Scores
  <2>. QED  BY <1>1, <1>6, <2>1
<1>8. Exact(items, hasMore, Was(m.resource, old))'
  BY <1>1, <1>7, NextWas
<1>9. RoseOrAllShown(m.resource, old, m.score)'
  <2>1. CASE score > stats[current][r]
    <3>1. old \in Int /\ score \in Int /\ m.score = score
      BY StoreAssumption DEF Score
    <3>. QED  BY <1>4, <2>1, <3>1 DEF RoseOrAllShown
  <2>2. CASE Uses = "any"
    <3>1. Cardinality(Resource) <= Limit /\ TypeInv
      BY <2>2, QueriesInQuestion DEF Quiet, TypeInv
    <3>2. UsedOf(stats[current]) \subseteq Listed(Resources(items))
      BY <1>3, <3>1, AllShown DEF Quiet, Scores
    <3>3. Was(m.resource, old)' = stats[current] /\ items' = items
      BY <1>1, <1>6 DEF Was, Scores
    <3>. DEFINE was == stats[current]
    <3>4. Was(m.resource, old)' = was /\ UsedOf(was) \subseteq Listed(Resources(items))
      BY <3>2, <3>3
    <3>. HIDE DEF was
    <3>. QED  BY <3>3, <3>4 DEF RoseOrAllShown, UsedOf, Resources
  <2>. QED  BY <2>1, <2>2
<1>10. Scores'[m.resource] = m.score /\ m.score > 0 /\ Limit' <= Batch' /\ query'.ordering = "HighScoredFirst"
  BY <1>1, <1>6 DEF Scores, Limit, Batch
<1>11. ~Drops(m)'
  BY <1>2 DEF Drops
<1>. QED  BY <1>2, <1>8, <1>10, <1>11, <1>4, <1>9 DEF WaitsOk

-------------------------------------------------------------------------------
(***************************************************************************)
(* The invariant of a settled model: the steps of the manager.             *)
(***************************************************************************)
\* In a settled model nothing waits, and the list is exact.
LEMMA SettledQuiet ==
    ASSUME ExactSetting, SInv, bus = <<>>, ~timer,
           UNCHANGED <<query, current, timer, items, hasMore, fixed, config, checks>>
    PROVE  /\ Quiet /\ activity = current /\ current \in Activity /\ current # CurrentTag /\ current # Any
           /\ stats \in [Activity -> [Resource -> Score]]
           /\ \A a \in Activity : Untied(stats[a])
<1>1. TypeInv /\ OneAtATime /\ Exact(items, hasMore, Scores)
  BY DEF SInv, IInv, ListFollows
<1>2. activity = current /\ \A a \in Activity : Untied(stats[a])
  BY DEF SInv, OneAtATime
<1>3. current \in Activity /\ stats \in [Activity -> [Resource -> Score]]
  BY <1>1 DEF TypeInv, StoreTypeOK, WatcherTypeOK
<1>4. current # CurrentTag /\ current # Any
  BY <1>3, StoreAssumption
<1>. QED  BY <1>1, <1>2, <1>3, <1>4 DEF Quiet

\* A new score.
LEMMA UseSettled ==
    ASSUME Quiet, activity = current, current # CurrentTag, current # Any, calls' = {}, UsesAllowed,
           \A a \in Activity : Untied(stats[a]),
           NEW a \in Activity, NEW r \in Resource, NEW score \in Score, Use(a, r, score)
    PROVE  OneAtATime' /\ ListFollows'
<1>. DEFINE m == [kind |-> "ResourceScoreUpdated", activity |-> a, resource |-> r, score |-> score]
<1>1. /\ ExactSetting /\ TypeInv /\ OneAtATime /\ current \in Activity /\ bus = <<>> /\ ~timer
      /\ stats \in [Activity -> [Resource -> Score]] /\ stats[a][r] \in Int /\ score \in Int
  BY StoreAssumption DEF Quiet, TypeInv, StoreTypeOK, WatcherTypeOK, Score
<1>2. /\ Announce(m) /\ activity' = activity
      /\ m.kind = "ResourceScoreUpdated" /\ m.activity = a /\ m.resource = r /\ m.score = score
      /\ stats' = [stats EXCEPT ![a][r] = score] /\ Uses # "none"
      /\ \A q \in Resource : stats[a][q] # score
      /\ score > 0 /\ score # stats[a][r]
      /\ Uses = "any" \/ score > stats[a][r]
  BY <1>1 DEF Use, ExactSetting, ScoresDiffer
<1>. HIDE DEF m
<1>3. stats'[a][r] = score /\ \A b \in Activity : b # a => stats'[b] = stats[b]
  BY <1>1, <1>2
<1>4. Limit <= Batch
  <2>1. ASSUME ~(Limit <= Batch) PROVE FALSE
    <3>1. stats'[a][r] \in {0, stats[a][r]}
      BY <2>1 DEF UsesAllowed
    <3>2. score # 0
      BY <1>1, <1>2
    <3>. QED  BY <1>2, <1>3, <3>1, <3>2
  <2>. QED  BY <2>1
<1>5. query.ordering = "HighScoredFirst"
  BY <1>1, <1>2, <1>4, QueriesInQuestion DEF TypeInv
<1>6. ASSUME NEW b \in Activity PROVE Untied(stats'[b])
  <2>1. CASE b # a
    BY <1>3, <2>1
  <2>2. CASE b = a
    <3>1. \A q \in Resource : stats'[a][q] = IF q = r THEN score ELSE stats[a][q]
      BY <1>1, <1>2
    <3>2. Untied(stats[a]) /\ \A q \in Resource : stats[a][q] # score
      BY <1>2
    <3>. QED  BY <2>2, <3>1, <3>2 DEF Untied
  <2>. QED  BY <2>1, <2>2
<1>7. WaitsOk(m)'
  <2>1. CASE a = current
    <3>1. /\ stats' = [stats EXCEPT ![current][r] = score] /\ Heard(m.activity)
          /\ score > 0 /\ (Uses = "any" \/ score > stats[current][r])
      BY <1>2, <2>1 DEF Heard
    <3>. QED  BY <1>2, <1>4, <1>5, <3>1, UsedNext
  <2>2. CASE a # current
    <3>1. stats'[current] = stats[current] /\ ~Heard(m.activity)
      <4>1. a # Any /\ a # CurrentTag
        BY StoreAssumption
      <4>. QED  BY <1>1, <1>2, <1>3, <2>2, <4>1 DEF Heard
    <3>2. m.kind # "CurrentActivityChanged" /\ m.kind # "StatsDeleted"
      BY <1>2
    <3>. QED  BY <3>1, <3>2, UnheardNext
  <2>. QED  BY <2>1, <2>2
<1>8. /\ UNCHANGED <<query, current, timer, items, hasMore, fixed, config, checks>>
      /\ m.kind # "CurrentActivityChanged" /\ current = activity'
  BY <1>2 DEF Quiet
<1>. QED  BY <1>1, <1>2, <1>6, <1>7, <1>8, AnnouncedNext

\* Scores that are deleted and announced.
LEMMA DeletionSettled ==
    ASSUME Quiet, activity' = current, current # CurrentTag, current # Any, calls' = {},
           \A a \in Activity : Untied(stats[a]),
           NEW a, NEW R, stats' = Deleted(a, R), NEW m, Announce(m),
           \/ m.kind = "StatsDeleted"
           \/ m.kind = "PatternDeleted" /\ m.activity = a /\ a # CurrentTag
           \/ /\ m.kind = "ResourceScoreDeleted" /\ R = {m.resource} /\ m.resource \in Resource
              /\ \/ m.activity = a /\ a # CurrentTag
                 \/ m.activity = CurrentTag /\ a = current
    PROVE  OneAtATime' /\ ListFollows'
<1>1. /\ ExactSetting /\ TypeInv /\ OneAtATime /\ current \in Activity /\ bus = <<>> /\ ~timer /\ StoreTypeOK
  BY DEF Quiet, TypeInv, WatcherTypeOK
<1>2. \A b \in Activity : Untied(stats'[b])
  BY <1>1, DeletedScores
<1>3. m.kind # "CurrentActivityChanged"
  OBVIOUS
<1>4. WaitsOk(m)'
  <2>1. CASE m.kind = "StatsDeleted"
    <3>1. Quiet /\ stats' = Deleted(a, R)
          /\ \/ m.kind = "StatsDeleted"
             \/ m.kind = "PatternDeleted" /\ Heard(m.activity)
      BY <2>1
    <3>. QED  BY ONLY <3>1, InvalidatedNext
  <2>2. CASE m.kind # "StatsDeleted" /\ ~Heard(m.activity)
    <3>1. a # Any /\ a # current
      BY <2>2 DEF Heard
    <3>2. stats'[current] = stats[current]
      BY <1>1, <3>1, DeletedScores
    <3>. QED  BY <1>3, <2>2, <3>2, UnheardNext
  <2>3. CASE m.kind = "PatternDeleted" /\ Heard(m.activity)
    <3>1. Quiet /\ stats' = Deleted(a, R)
          /\ \/ m.kind = "StatsDeleted"
             \/ m.kind = "PatternDeleted" /\ Heard(m.activity)
      BY <2>3
    <3>. QED  BY ONLY <3>1, InvalidatedNext
  <2>4. CASE m.kind = "ResourceScoreDeleted" /\ Heard(m.activity)
    <3>1. a = Any \/ a = current
      BY <2>4 DEF Heard
    <3>2. stats' = Deleted(a, {m.resource}) /\ m.resource \in Resource
      BY <2>4
    <3>3. PICK r \in Resource : r = m.resource
      BY <3>2
    <3>. QED  BY <2>4, <3>1, <3>2, <3>3, DeletedNext
  <2>. QED  BY <2>1, <2>2, <2>3, <2>4
<1>5. UNCHANGED <<query, current, timer, items, hasMore, fixed, config, checks>> /\ current = activity'
  BY DEF Quiet
<1>6. IF m.kind = "CurrentActivityChanged" THEN activity' = m.activity ELSE current = activity'
  BY <1>3, <1>5
<1>7. OneAtATime /\ bus = <<>> /\ ~timer /\ Announce(m) /\ calls' = {}
  BY <1>1
<1>. QED  BY ONLY <1>2, <1>4, <1>5, <1>6, <1>7, AnnouncedNext

\* A step of the manager.
LEMMA ManagerSettled ==
    ASSUME ExactSetting, SInv, ManagerStep
    PROVE  OneAtATime' /\ ListFollows'
<1>1. /\ bus = <<>> /\ ~timer /\ calls' = {} /\ UsesAllowed /\ Manager
      /\ UNCHANGED <<query, current, timer, items, hasMore, fixed, config, checks>>
  BY DEF ManagerStep, ExactSetting, Settled
<1>2. /\ Quiet /\ activity = current /\ current \in Activity /\ current # CurrentTag /\ current # Any
      /\ \A a \in Activity : Untied(stats[a])
  BY <1>1, SettledQuiet
<1>3. CurrentTag \notin Activity \cup {Any} /\ Any \notin Activity
  BY StoreAssumption
<1>4. OneAtATime
  BY DEF SInv
<1>5. ASSUME NEW a \in Activity, NEW r \in Resource, NEW score \in Score, Use(a, r, score)
      PROVE  OneAtATime' /\ ListFollows'
  BY <1>1, <1>2, <1>5, UseSettled
<1>6. ASSUME NEW a \in Activity \cup {Any}, NEW r \in Resource, DeleteStatsForResource(a, r)
      PROVE  OneAtATime' /\ ListFollows'
  <2>. DEFINE m == [kind |-> "ResourceScoreDeleted", activity |-> a, resource |-> r]
              R == {r}
  <2>1. /\ m.kind = "ResourceScoreDeleted" /\ m.activity = a /\ m.resource = r /\ R = {m.resource}
        /\ stats' = Deleted(a, R) /\ Announce(m) /\ activity' = current /\ a # CurrentTag
    BY <1>2, <1>3, <1>6 DEF DeleteStatsForResource
  <2>. HIDE DEF m, R
  <2>. QED  BY <1>1, <1>2, <1>6, <2>1, DeletionSettled
<1>7. ASSUME NEW a \in Activity \cup {Any}, NEW R \in SUBSET Resource, DeleteStatsForPattern(a, R)
      PROVE  OneAtATime' /\ ListFollows'
  <2>. DEFINE m == [kind |-> "PatternDeleted", activity |-> a]
  <2>1. /\ m.kind = "PatternDeleted" /\ m.activity = a
        /\ stats' = Deleted(a, R) /\ Announce(m) /\ activity' = current /\ a # CurrentTag
    BY <1>2, <1>3, <1>7 DEF DeleteStatsForPattern
  <2>. HIDE DEF m
  <2>. QED  BY <1>1, <1>2, <2>1, DeletionSettled
<1>8. ASSUME NEW a \in Activity, NEW R \in SUBSET Resource, DeletePeriod(a, R)
      PROVE  OneAtATime' /\ ListFollows'
  <2>. DEFINE m == [kind |-> "StatsDeleted"]
  <2>1. m.kind = "StatsDeleted" /\ stats' = Deleted(a, R) /\ Announce(m) /\ activity' = current
    BY <1>2, <1>8 DEF DeletePeriod
  <2>. HIDE DEF m
  <2>. QED  BY <1>1, <1>2, <2>1, DeletionSettled
<1>9. ASSUME NEW m, Announce(m), stats' = stats, activity' = activity,
             m.kind \in {"ResourceLinked", "ResourceUnlinked"}
      PROVE  OneAtATime' /\ ListFollows'
  <2>1. /\ stats'[current] = stats[current] /\ m.kind # "CurrentActivityChanged" /\ m.kind # "StatsDeleted"
        /\ m.kind \in {"ResourceScoreUpdated", "ResourceScoreDeleted", "PatternDeleted"} => ~Heard(m.activity)
    BY <1>9
  <2>2. WaitsOk(m)'
    BY <1>2, <2>1, UnheardNext
  <2>3. \A a \in Activity : Untied(stats'[a])
    BY <1>2, <1>9
  <2>4. IF m.kind = "CurrentActivityChanged" THEN activity' = m.activity ELSE current = activity'
    BY <1>2, <1>9, <2>1
  <2>. QED  BY <1>1, <1>4, <1>9, <2>2, <2>3, <2>4, AnnouncedNext
<1>10. ASSUME NEW a \in Activity, NEW r \in Resource, LinkResource(a, r) \/ UnlinkResource(a, r)
       PROVE  OneAtATime' /\ ListFollows'
  BY <1>9, <1>10 DEF LinkResource, UnlinkResource
<1>11. ASSUME NEW a \in Activity, SwitchActivity(a)
       PROVE  OneAtATime' /\ ListFollows'
  <2>. DEFINE m == [kind |-> "CurrentActivityChanged", activity |-> a]
  <2>1. m.kind = "CurrentActivityChanged" /\ m.activity = a /\ Announce(m) /\ activity' = a /\ stats' = stats
    BY <1>11 DEF SwitchActivity
  <2>. HIDE DEF m
  <2>2. \A b \in Activity : Untied(stats'[b])
    BY <1>2, <2>1
  <2>3. IF m.kind = "CurrentActivityChanged" THEN activity' = m.activity ELSE current = activity'
    BY <2>1
  <2>. QED  BY <1>1, <1>4, <2>1, <2>2, <2>3, AnnouncedNext
<1>. QED  BY <1>1, <1>5, <1>6, <1>7, <1>8, <1>10, <1>11 DEF Manager

\* A call to the manager.
LEMMA ForgetsSettled ==
    ASSUME ExactSetting, SInv, ManagerForgets
    PROVE  OneAtATime' /\ ListFollows'
<1>1. PICK r \in calls : ForgottenByManager(r)
  BY DEF ManagerForgets
<1>2. /\ bus = <<>> /\ ~timer /\ calls' = {}
      /\ UNCHANGED <<query, current, timer, items, hasMore, fixed, config, checks>>
  <2>1. calls # {} /\ calls' = calls \ {r} /\ \A q \in calls : q = r
    BY <1>1 DEF SInv, OneAtATime, ForgottenByManager
  <2>2. bus = <<>> /\ ~timer
    BY <2>1 DEF SInv, OneAtATime
  <2>. QED  BY <2>1, <2>2 DEF ManagerForgets
<1>3. /\ Quiet /\ activity = current /\ current \in Activity /\ current # CurrentTag /\ current # Any
      /\ \A a \in Activity : Untied(stats[a])
  BY <1>2, SettledQuiet
<1>4. query.activities = "current" /\ r \in Resource
  BY <1>1, <1>3, QueriesInQuestion DEF Quiet, TypeInv
<1>. DEFINE m == [kind |-> "ResourceScoreDeleted", activity |-> CurrentTag, resource |-> r]
            R == {r}
<1>5. ForgetResource(CurrentTag, r)
  BY <1>1, <1>4 DEF ForgottenByManager
<1>6. /\ m.kind = "ResourceScoreDeleted" /\ m.activity = CurrentTag /\ m.resource = r /\ R = {m.resource}
      /\ stats' = Deleted(current, R) /\ Announce(m) /\ activity' = current
  BY <1>3, <1>5 DEF ForgetResource
<1>. HIDE DEF m, R
<1>. QED  BY <1>2, <1>3, <1>4, <1>6, DeletionSettled

-------------------------------------------------------------------------------
(***************************************************************************)
(* The invariant of a settled model: the steps of the model.               *)
(***************************************************************************)
\* Once nothing waits, the list is exact or a reload is due.
LEMMA EmptyNext ==
    ASSUME UNCHANGED <<stats, query>>, bus' = <<>>, checks' = {}, fixed' = <<>>,
           \A r, q \in calls' : r = q, timer' => calls' = {}, current' = activity',
           \A a \in Activity : Untied(stats[a]),
           timer' => Thinned(items', hasMore', stats[current']),
           ~timer' => Exact(items', hasMore', stats[current'])
    PROVE  OneAtATime' /\ ListFollows'
<1>1. \A a \in Activity : Untied(stats[a])'
  BY DEF Untied
<1>2. OneAtATime'
  BY <1>1 DEF OneAtATime
<1>3. timer' => Thinned(items, hasMore, Scores)'
  BY NextList
<1>4. ~timer' => Exact(items, hasMore, Scores)'
  BY NextList
<1>5. ~(bus' # <<>>)
  OBVIOUS
<1>. QED  BY <1>2, <1>3, <1>4, <1>5 DEF ListFollows

\* What there is when the model receives the announcement that waits.
LEMMA ReceivedAlone ==
    ASSUME ExactSetting, SInv, Receive
    PROVE  /\ TypeInv /\ BoundedRows /\ StoreTypeOK /\ WatcherTypeOK /\ NextSignal \in Signal
           /\ UNCHANGED <<stats, query, activity>> /\ bus' = <<>> /\ calls' = {} /\ ~timer
           /\ checks = {} /\ fixed = <<>>
           /\ \A a \in Activity : Untied(stats[a])
           /\ Untied(Scores) /\ Scores \in [Resource -> Score] /\ current \in Activity
           /\ IF NextSignal.kind = "CurrentActivityChanged"
              THEN activity = NextSignal.activity ELSE current = activity /\ WaitsOk(NextSignal)
<1>1. TypeInv /\ BoundedRows /\ StoreTypeOK /\ WatcherTypeOK /\ NextSignal \in Signal
  BY PartsOfInvariant, ReceiveTyped DEF SInv
<1>2. UNCHANGED <<stats, query, activity>> /\ calls' = calls /\ bus # <<>> /\ bus' = Tail(bus)
  BY DEF Receive
<1>3. /\ calls' = {} /\ ~timer /\ checks = {} /\ fixed = <<>> /\ Len(bus) <= 1
      /\ \A a \in Activity : Untied(stats[a])
  BY <1>2 DEF SInv, OneAtATime
<1>4. bus' = <<>>
  BY <1>1, <1>2, <1>3 DEF StoreTypeOK
<1>5. Untied(Scores) /\ Scores \in [Resource -> Score] /\ current \in Activity
  BY <1>1, <1>3 DEF StoreTypeOK, WatcherTypeOK, Scores
<1>6. IF NextSignal.kind = "CurrentActivityChanged" THEN activity = NextSignal.activity ELSE current = activity
  BY <1>2 DEF SInv, OneAtATime
<1>7. NextSignal.kind = "CurrentActivityChanged" \/ WaitsOk(NextSignal)
  BY <1>2 DEF SInv, ListFollows
<1>. QED  BY <1>1, <1>2, <1>3, <1>4, <1>5, <1>6, <1>7

\* A score is shown.
LEMMA ScoreSettled ==
    ASSUME ExactSetting, SInv, OnResultScoreUpdated
    PROVE  OneAtATime' /\ ListFollows'
<1>1. Receive /\ SendsResultScoreUpdated(NextSignal) /\ UNCHANGED <<current, timer>>
  BY DEF OnResultScoreUpdated
<1>2. NextSignal.kind = "ResourceScoreUpdated"
  BY <1>1 DEF SendsResultScoreUpdated
<1>3. WaitsOk(NextSignal) /\ current = activity
  BY <1>1, <1>2, ReceivedAlone
<1>4. PICK r \in Resource : r = NextSignal.resource
  BY <1>1, <1>2, ReceivedAlone, SignalFields
<1>5. /\ Limit <= Batch /\ query.ordering = "HighScoredFirst" /\ Scores[r] = NextSignal.score
      /\ NextSignal.score > 0
      /\ \E old \in Score : /\ Exact(items, hasMore, Was(NextSignal.resource, old))
                          /\ RoseOrAllShown(NextSignal.resource, old, NextSignal.score)
  BY <1>1, <1>3, <1>4 DEF WaitsOk
<1>6. PICK old \in Score : Exact(items, hasMore, Was(r, old)) /\ RoseOrAllShown(r, old, Scores[r])
  BY <1>4, <1>5
<1>7. Scores[r] > 0
  BY <1>5
<1>8. ShowScore(r, Scores[r])
  BY <1>4, <1>5 DEF OnResultScoreUpdated, ShowScore
<1>9. TypeInv /\ BoundedRows /\ fixed = <<>> /\ Untied(Scores)
  BY <1>1, ReceivedAlone
<1>10. UNCHANGED <<hasMore, fixed, config, checks>> /\ Exact(items', hasMore', Scores)
  BY <1>5, <1>6, <1>7, <1>8, <1>9, ShownExact
<1>11. /\ UNCHANGED <<stats, query, activity>> /\ bus' = <<>> /\ calls' = {} /\ ~timer
       /\ checks = {} /\ fixed = <<>> /\ \A a \in Activity : Untied(stats[a])
  BY <1>1, ReceivedAlone
<1>. QED  BY <1>1, <1>3, <1>10, <1>11, EmptyNext DEF Scores

\* A row is removed, or there is none to remove.
LEMMA RemovalSettled ==
    ASSUME ExactSetting, SInv, OnResultRemoved
    PROVE  OneAtATime' /\ ListFollows'
<1>1. Receive /\ SendsResultRemoved(NextSignal) /\ UNCHANGED <<current, timer>>
  BY DEF OnResultRemoved
<1>2. NextSignal.kind = "ResourceScoreDeleted"
  BY <1>1 DEF SendsResultRemoved
<1>3. WaitsOk(NextSignal) /\ current = activity
  BY <1>1, <1>2, ReceivedAlone
<1>4. PICK r \in Resource : r = NextSignal.resource
  BY <1>1, <1>2, ReceivedAlone, SignalFields
<1>5. Scores[r] = 0 /\ \E old \in Score : Exact(items, hasMore, Was(r, old))
  BY <1>1, <1>3, <1>4 DEF WaitsOk
<1>6. PICK old \in Score : Exact(items, hasMore, Was(r, old))
  BY <1>5
<1>7. TypeInv /\ BoundedRows /\ WatcherTypeOK /\ Untied(Scores)
  BY <1>1, ReceivedAlone
<1>8. query.selection = "UsedResources"
  BY <1>7, QueriesInQuestion
<1>9. \/ \E row \in Find(items, r) : RemoveRow(row)
      \/ Find(items, r) = {} /\ UNCHANGED modelVars
  BY <1>4, <1>8 DEF OnResultRemoved
<1>10. checks' = checks /\ fixed' = fixed /\ Exact(items', hasMore', Scores)
  <2>1. CASE \E row \in Find(items, r) : RemoveRow(row)
    BY <1>5, <1>6, <1>7, <2>1, RemovalExact
  <2>2. CASE Find(items, r) = {} /\ UNCHANGED modelVars
    <3>1. Exact(items, hasMore, Scores)
      BY <1>5, <1>6, <1>7, <2>2, UnlistedExact
    <3>. QED  BY <2>2, <3>1 DEF modelVars
  <2>. QED  BY <1>9, <2>1, <2>2
<1>11. /\ UNCHANGED <<stats, query, activity>> /\ bus' = <<>> /\ calls' = {} /\ ~timer
       /\ checks = {} /\ fixed = <<>> /\ \A a \in Activity : Untied(stats[a])
  BY <1>1, ReceivedAlone
<1>. QED  BY <1>1, <1>3, <1>10, <1>11, EmptyNext DEF Scores

\* The current activity changes: the list is read for the new one.
LEMMA SwitchSettled ==
    ASSUME ExactSetting, SInv, OnCurrentActivityChanged
    PROVE  OneAtATime' /\ ListFollows'
<1>1. Receive /\ NextSignal.kind = "CurrentActivityChanged" /\ current' = NextSignal.activity /\ timer' = timer
  BY DEF OnCurrentActivityChanged
<1>2. PICK cur \in Activity : cur = NextSignal.activity
  BY <1>1, ReceivedAlone, SignalFields
<1>3. /\ TypeInv /\ WatcherTypeOK /\ UNCHANGED <<stats, query, activity>> /\ bus' = <<>> /\ calls' = {} /\ ~timer
      /\ checks = {} /\ fixed = <<>> /\ \A a \in Activity : Untied(stats[a])
      /\ activity = NextSignal.activity
  BY <1>1, ReceivedAlone
<1>4. FetchReset(current')
  BY <1>3, QueriesInQuestion DEF OnCurrentActivityChanged
<1>5. current' \in Activity /\ Untied(stats[current'])
  BY <1>1, <1>2, <1>3
<1>6. checks' = checks /\ fixed' = fixed /\ Exact(items', hasMore', stats[current'])
  BY <1>3, <1>4, <1>5, ResetExact
<1>7. current' = activity' /\ checks' = {} /\ fixed' = <<>> /\ ~timer'
  BY <1>1, <1>3, <1>6
<1>. QED  BY <1>3, <1>6, <1>7, EmptyNext

\* A reload is due, or the announcement does not matter.
LEMMA OtherSignalsSettled ==
    ASSUME ExactSetting, SInv, OnInvalidation \/ OnDropped
    PROVE  OneAtATime' /\ ListFollows'
<1>1. Receive /\ UNCHANGED <<current, items, hasMore, fixed, config, checks>>
  BY DEF OnInvalidation, OnDropped
<1>2. /\ UNCHANGED <<stats, query, activity>> /\ bus' = <<>> /\ calls' = {} /\ ~timer
      /\ checks = {} /\ fixed = <<>> /\ \A a \in Activity : Untied(stats[a])
  BY <1>1, ReceivedAlone
<1>3. NextSignal.kind # "CurrentActivityChanged"
  BY DEF OnInvalidation, OnDropped, SchedulesInvalidation, Drops
<1>4. WaitsOk(NextSignal) /\ current = activity
  BY <1>1, <1>3, ReceivedAlone
<1>5. CASE OnInvalidation
  <2>1. timer' /\ Thinned(items, hasMore, Scores)
    BY <1>4, <1>5 DEF OnInvalidation, WaitsOk
  <2>2. Thinned(items', hasMore', stats[current'])
    BY <1>1, <2>1 DEF Scores
  <2>. QED  BY <1>1, <1>2, <1>4, <2>1, <2>2, EmptyNext
<1>6. CASE OnDropped
  <2>1. ~timer' /\ Exact(items, hasMore, Scores)
    BY <1>2, <1>4, <1>6 DEF OnDropped, WaitsOk
  <2>2. Exact(items', hasMore', stats[current'])
    BY <1>1, <2>1 DEF Scores
  <2>. QED  BY <1>1, <1>2, <1>4, <2>1, <2>2, EmptyNext
<1>. QED  BY <1>5, <1>6

\* The reload that was due.
LEMMA ReloadSettled ==
    ASSUME ExactSetting, SInv, OnResultsInvalidated
    PROVE  OneAtATime' /\ ListFollows'
<1>1. /\ timer /\ ~timer' /\ FetchReload
      /\ UNCHANGED <<stats, activity, bus, query, current, calls>>
  BY DEF OnResultsInvalidated
<1>2. TypeInv /\ BoundedRows /\ StoreTypeOK /\ WatcherTypeOK
  BY PartsOfInvariant DEF SInv
<1>3. /\ bus = <<>> /\ calls = {} /\ checks = {} /\ fixed = <<>> /\ current = activity
      /\ \A a \in Activity : Untied(stats[a])
  BY <1>1 DEF SInv, OneAtATime
<1>4. Untied(Scores)
  BY <1>2, <1>3 DEF WatcherTypeOK, Scores
<1>5. Thinned(items, hasMore, Scores)
  BY <1>1 DEF SInv, ListFollows
<1>6. checks' = checks /\ fixed' = fixed /\ Exact(items', hasMore', Scores)
  BY <1>1, <1>2, <1>3, <1>4, <1>5, ReloadExact
<1>7. Exact(items', hasMore', stats[current'])
  BY <1>1, <1>6 DEF Scores
<1>. QED  BY <1>1, <1>3, <1>6, <1>7, EmptyNext

\* A step of the model's thread.
LEMMA ModelSettled ==
    ASSUME ExactSetting, SInv, ModelStep
    PROVE  OneAtATime' /\ ListFollows'
<1>1. ~SendsResultLinked(NextSignal) /\ ~SendsResultUnlinked(NextSignal)
  <2>1. query.selection = "UsedResources"
    BY PartsOfInvariant, QueriesInQuestion DEF SInv
  <2>. QED  BY <2>1 DEF SendsResultLinked, SendsResultUnlinked
<1>2. ~OnResultLinked /\ ~OnResultUnlinked
  BY <1>1 DEF OnResultLinked, OnResultUnlinked
<1>3. checks = {}
  BY DEF SInv, OneAtATime
<1>. QED  BY <1>2, <1>3, ScoreSettled, RemovalSettled, SwitchSettled, OtherSignalsSettled, ReloadSettled
          DEF ModelStep

-------------------------------------------------------------------------------
(***************************************************************************)
(* The invariant of a settled model: the requests, and every step.         *)
(***************************************************************************)
\* A page is read behind an exact list.
LEMMA MoreExact ==
    ASSUME ExactSetting, TypeInv, BoundedRows, Exact(items, hasMore, Scores), FetchMore
    PROVE  checks' = checks /\ Exact(items', hasMore', Scores)
<1>. DEFINE from == Len(items)
            n == Asked(from, Batch)
<1>1. /\ StoreTypeOK /\ WatcherTypeOK /\ current \in Activity /\ fixed \in Seq(Resource)
      /\ Limit \in Nat \ {0} /\ Batch \in Nat \ {0} /\ items \in Seq(Item) /\ Untied(stats[current])
      /\ from \in Nat /\ from \in 0 .. Len(items) /\ from = Len(items) /\ from < Limit
  BY QueriesInQuestion DEF TypeInv, Exact, Scores, FetchMore
<1>2. FetchRows(items, from, Batch, current, fixed)
  BY DEF FetchMore
<1>3. ListsScores(items, stats[current])
  BY DEF Exact, ListsScores, Scores
<1>. HIDE DEF from
<1>4. n \in Nat /\ ~(n <= 0) /\ (Limit <= Batch => from + n = Limit)
  BY <1>1 DEF Asked
<1>5. FetchesPage(items, from, n, current, fixed)
  BY <1>1, <1>2, <1>4, FetchReads
<1>. HIDE DEF n
<1>6. PageRead(items, from, n, current)
  BY <1>1, <1>3, <1>4, <1>5, PageFronts
<1>7. /\ checks' = checks /\ ListsScores(items', Scores)
      /\ Len(items') = from + n \/ UsedOf(Scores) \subseteq Listed(Resources(items'))
      /\ hasMore' \/ UsedOf(Scores) \subseteq Listed(Resources(items'))
  BY <1>6 DEF PageRead, Scores
<1>8. Covers(items', hasMore', Scores)
  BY <1>4, <1>7 DEF Covers, Complete
<1>. QED  BY <1>1, <1>7, <1>8 DEF Exact, ListsScores, Scores

\* A request of the program.
LEMMA ClientSettled ==
    ASSUME ExactSetting, SInv, ClientStep
    PROVE  OneAtATime' /\ ListFollows'
<1>1. bus = <<>> /\ ~timer /\ checks = {} /\ calls = {}
  BY DEF ClientStep, ExactSetting, Settled
<1>2. TypeInv /\ BoundedRows /\ StoreTypeOK /\ WatcherTypeOK
  BY PartsOfInvariant DEF SInv
<1>3. /\ fixed = <<>> /\ current = activity /\ \A a \in Activity : Untied(stats[a])
      /\ Exact(items, hasMore, Scores)
  BY <1>1 DEF SInv, OneAtATime, ListFollows
<1>4. ~query.client
  BY <1>2, QueriesInQuestion
<1>5. CASE FetchMore
  <2>1. checks' = checks /\ Exact(items', hasMore', Scores)
    BY <1>2, <1>3, <1>5, MoreExact
  <2>2. UNCHANGED <<stats, activity, bus, query, current, timer, fixed, calls>>
    BY <1>5 DEF FetchMore
  <2>3. Exact(items', hasMore', stats[current'])
    BY <2>1, <2>2 DEF Scores
  <2>. QED  BY <1>1, <1>3, <2>1, <2>2, <2>3, EmptyNext
<1>6. ASSUME NEW row \in Rows(items), ForgetRow(row)
      PROVE  OneAtATime' /\ ListFollows'
  <2>1. UNCHANGED <<stats, activity, bus, query, current, timer, items, hasMore, fixed, checks>>
    BY <1>6 DEF ForgetRow, modelVars
  <2>2. \A r, q \in calls' : r = q
    BY <1>1, <1>6 DEF ForgetRow
  <2>3. Exact(items', hasMore', stats[current'])
    BY <1>3, <2>1 DEF Scores
  <2>. QED  BY <1>1, <1>3, <2>1, <2>2, <2>3, EmptyNext
<1>. QED  BY <1>4, <1>5, <1>6 DEF ClientStep, MoveResult, PlaceResult

\* Every step keeps the invariant.
LEMMA SettledStep == ASSUME ExactSetting PROVE SInv /\ [Next]_vars => SInv'
<1>1. SUFFICES ASSUME SInv, [Next]_vars PROVE SInv'
  OBVIOUS
<1>2. IInv'
  BY <1>1, StepKeeps DEF SInv
<1>3. OneAtATime' /\ ListFollows'
  <2>1. CASE UNCHANGED vars
    <3>1. OneAtATime'
      BY <1>1, <2>1 DEF vars, SInv, OneAtATime, Untied, NextSignal
    <3>2. ListFollows'
      <4>1. UNCHANGED <<stats, query, items, hasMore, current, timer, bus>>
        BY <2>1 DEF vars
      <4>2. timer' => Thinned(items, hasMore, Scores)'
        BY <1>1, <4>1 DEF SInv, ListFollows, Thinned, Covers, Complete, Limit, Batch, Scores
      <4>3. bus' = <<>> /\ ~timer' => Exact(items, hasMore, Scores)'
        BY <1>1, <4>1, NextList DEF SInv, ListFollows, Scores
      <4>4. bus' # <<>> => NextSignal'.kind = "CurrentActivityChanged" \/ WaitsOk(NextSignal)'
        <5>1. SUFFICES ASSUME bus' # <<>>, NextSignal'.kind # "CurrentActivityChanged"
                       PROVE  WaitsOk(NextSignal)'
          OBVIOUS
        <5>2. NextSignal' = NextSignal /\ WaitsOk(NextSignal)
          BY <1>1, <4>1, <5>1 DEF SInv, ListFollows, NextSignal
        <5>3. PICK m : m = NextSignal
          OBVIOUS
        <5>4. WaitsOk(m)
          BY <5>2, <5>3
        <5>5. /\ SendsResultScoreUpdated(m)' = SendsResultScoreUpdated(m)
              /\ SendsResultRemoved(m)' = SendsResultRemoved(m)
              /\ SchedulesInvalidation(m)' = SchedulesInvalidation(m)
              /\ Drops(m)' = Drops(m)
          BY <4>1 DEF SendsResultScoreUpdated, SendsResultRemoved, SchedulesInvalidation, Drops,
                      SendsResultLinked, SendsResultUnlinked, ActivityMatches
        <5>6. \A old : Exact(items, hasMore, Was(m.resource, old)) => Exact(items, hasMore, Was(m.resource, old))'
          BY <4>1, NextWas DEF Was, Scores
        <5>11. \A old : RoseOrAllShown(m.resource, old, m.score) => RoseOrAllShown(m.resource, old, m.score)'
          BY <4>1 DEF RoseOrAllShown, Was, Scores
        <5>7. Exact(items, hasMore, Scores) => Exact(items, hasMore, Scores)'
          BY <4>1, NextList DEF Scores
        <5>8. Scores' = Scores /\ Limit' = Limit /\ Batch' = Batch /\ query'.ordering = query.ordering
          BY <4>1 DEF Scores, Limit, Batch
        <5>9. Thinned(items, hasMore, Scores) => Thinned(items, hasMore, Scores)'
          BY <4>1, NextList DEF Scores
        <5>10. WaitsOk(m)'
          BY <5>4, <5>5, <5>6, <5>7, <5>8, <5>9, <5>11 DEF WaitsOk
        <5>. QED  BY <5>2, <5>3, <5>10
      <4>. QED  BY <4>2, <4>3, <4>4 DEF ListFollows
    <3>. QED  BY <3>1, <3>2
  <2>. QED  BY <1>1, <2>1, ManagerSettled, ForgetsSettled, ModelSettled, ClientSettled DEF Next
<1>. QED  BY <1>2, <1>3 DEF SInv

-------------------------------------------------------------------------------
(***************************************************************************)
(* What a settled model shows.                                             *)
(***************************************************************************)
\* Of a settled model: its list, the result, and whether it knows of more rows.
ShowsResult == /\ Len(SqlResult) \in Nat /\ Len(items) \in Nat /\ Len(items) <= Limit
               /\ Fronts(items, SqlResult)
               /\ hasMore \/ Len(items) = Limit \/ Len(items) = Len(SqlResult)
               /\ Limit <= Batch => Len(items) = Limit \/ Len(items) = Len(SqlResult)

\* The invariant says this of a settled model.
LEMMA SettledShows == ASSUME ExactSetting, SInv, Settled PROVE ShowsResult
<1>1. TypeInv /\ BoundedRows /\ StoreTypeOK /\ WatcherTypeOK
  BY PartsOfInvariant DEF SInv
<1>2. current \in Activity /\ items \in Seq(Item) /\ Len(items) \in Nat /\ Len(items) <= Limit
  BY <1>1 DEF TypeInv, WatcherTypeOK, BoundedRows
<1>3. Exact(items, hasMore, Scores)
  BY DEF SInv, ListFollows, Settled
<1>4. Untied(Scores)
  BY <1>3 DEF Exact
<1>5. PICK result \in Results(current) : result = SqlResult
  BY <1>1, <1>4, SqlResultIs
<1>6. Len(result) \in Nat
  BY <1>1, <1>2, ResultLists
<1>7. /\ Fronts(items, result)
      /\ UsedOf(Scores) \subseteq Listed(Resources(items)) => Len(items) = Len(result)
  BY <1>1, <1>2, <1>3, <1>4, ExactFronts DEF Exact, Scores
<1>8. /\ hasMore \/ Complete(items, Scores)
      /\ Limit <= Batch => Complete(items, Scores)
  BY <1>3 DEF Exact, Covers
<1>. QED  BY <1>2, <1>5, <1>6, <1>7, <1>8 DEF ShowsResult, Complete

\* What is proved of the settled model in ExactSetting, in one: SInv holds in every state.
THEOREM SettledInvariant == ASSUME ExactSetting PROVE Spec => []SInv
<1>1. Init => SInv
  BY InitSettled
<1>2. SInv /\ [Next]_vars => SInv'
  BY SettledStep
<1>. QED  BY <1>1, <1>2, PTL DEF Spec

\* As long as the scores of an activity differ, and those that fall fall in a list with
\* room for every resource: inserting, moving up and down, refilling after a removal,
\* evicting past the limit, reloading what is cached and resetting together keep the
\* list equal to what the query returns, its first Limit rows in its order.  Of scores
\* that tie, and of those that fall in a shorter list, nothing is claimed.
THEOREM SettledIsExact == ASSUME ExactSetting PROVE Spec => []SettledExact
<1>1. SInv => SettledExact
  <2>1. SUFFICES ASSUME SInv, Settled, Limit <= Batch
                 PROVE  ShowsFirst(Lesser(Limit, Len(SqlResult)))
    BY DEF SettledExact
  <2>2. ShowsResult
    BY <2>1, SettledShows
  <2>3. Limit \in Nat
    BY <2>1, PartsOfInvariant, QueriesInQuestion DEF SInv
  <2>4. Len(items) = Lesser(Limit, Len(SqlResult))
    BY <2>1, <2>2, <2>3 DEF ShowsResult, Fronts, Lesser
  <2>. QED  BY <2>2, <2>4 DEF ShowsFirst, ShowsResult, Fronts
<1>. QED  BY <1>1, SettledInvariant, PTL

\* In the same setting, where a list longer than a batch hears of no use: while it is
\* read page by page it shows the beginning of the result, also after rows were
\* removed, deleted behind its back or read again.
THEOREM PagesAreShown == ASSUME ExactSetting PROVE Spec => []ShowsPages
<1>1. SInv => ShowsPages
  <2>1. SUFFICES ASSUME SInv, Settled
                 PROVE  Len(items) <= Len(SqlResult) /\ ShowsFirst(Len(items))
    BY DEF ShowsPages
  <2>2. ShowsResult
    BY <2>1, SettledShows
  <2>. QED  BY <2>2 DEF ShowsFirst, ShowsResult, Fronts
<1>. QED  BY <1>1, SettledInvariant, PTL

\* In the same setting canFetchMore() never hides a row: when the limit leaves room and
\* the result goes on behind the listed rows, it offers a further page.
THEOREM RowsAreOffered == ASSUME ExactSetting PROVE Spec => []OffersMoreRows
<1>1. SInv => OffersMoreRows
  <2>1. SUFFICES ASSUME SInv, Settled, Len(items) < Lesser(Limit, Len(SqlResult))
                 PROVE  hasMore
    BY DEF OffersMoreRows
  <2>2. ShowsResult
    BY <2>1, SettledShows
  <2>3. Limit \in Nat
    BY <2>1, PartsOfInvariant, QueriesInQuestion DEF SInv
  <2>. QED  BY <2>1, <2>2, <2>3 DEF ShowsResult, Lesser
<1>. QED  BY <1>1, SettledInvariant, PTL

===============================================================================
