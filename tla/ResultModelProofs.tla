--------------------------- MODULE ResultModelProofs ---------------------------
(***************************************************************************)
(* What holds of a result model for every set of activities and resources, *)
(* every query and every bound: types, the limit, and the reasons for      *)
(* which a resource leaves the list.                                       *)
(***************************************************************************)
EXTENDS ResultModel, ResultRowsProofs

(***************************************************************************)
(* The inductive invariant.                                                *)
(***************************************************************************)
TypeInv == /\ StoreTypeOK
           /\ WatcherTypeOK
           /\ items \in Seq(Item)
           /\ hasMore \in BOOLEAN
           /\ checks \subseteq SUBSET Resource
           /\ calls \subseteq Resource
           /\ fixed \in Seq(Resource)
           /\ DOMAIN config \subseteq Activity \cup {Any}
           /\ \A t \in DOMAIN config : config[t] \in Seq(Resource)

IInv == TypeInv /\ BoundedRows

-------------------------------------------------------------------------------
(***************************************************************************)
(* Sums.                                                                   *)
(***************************************************************************)
\* SUM(cachedScore) is such a sum.
LEMMA TotalIsSum ==
    ASSUME StoreTypeOK, NEW A \in SUBSET Activity, NEW r \in Resource
    PROVE  \E g : /\ IsSum(g, A, [a \in A |-> stats[a][r]], [s \in SUBSET A |-> CHOOSE x \in s : TRUE])
                  /\ TotalScore(A, r) = g[A]
<1>. DEFINE f == [a \in A |-> stats[a][r]]
            ch == [s \in SUBSET A |-> CHOOSE x \in s : TRUE]
            Theirs(g) == [s \in SUBSET A |->
                    IF s = {} THEN 0 ELSE stats[CHOOSE x \in s : TRUE][r] + g[s \ {CHOOSE x \in s : TRUE}]]
            Right(g) == g = Theirs(g)
            G == CHOOSE g : Right(g)
<1>1. IsFiniteSet(A)
  BY StoreAssumption, FS_Subset
<1>2. f \in [A -> Nat]
  BY StoreAssumption DEF StoreTypeOK, Score
<1>3. \A s \in SUBSET A : s # {} => ch[s] \in s
  OBVIOUS
<1>4. TotalScore(A, r) = G[A]
  BY DEF TotalScore, MapThenSumSet, MapThenFoldSet
<1>5. \A g : IsSum(g, A, f, ch) <=> Right(g)
  <2>1. \A s \in SUBSET A : s # {} => f[ch[s]] = stats[CHOOSE x \in s : TRUE][r] /\ ch[s] = CHOOSE x \in s : TRUE
    OBVIOUS
  <2>. DEFINE Ours(g) == [s \in SUBSET A |-> IF s = {} THEN 0 ELSE f[ch[s]] + g[s \ {ch[s]}]]
  <2>2. ASSUME NEW g
        PROVE  Ours(g) = Theirs(g)
    <3>1. \A s \in SUBSET A : s # {} => f[ch[s]] + g[s \ {ch[s]}]
                                        = stats[CHOOSE x \in s : TRUE][r] + g[s \ {CHOOSE x \in s : TRUE}]
      BY <2>1
    <3>. QED  BY ONLY <3>1
  <2>3. \A g : IsSum(g, A, f, ch) <=> g = Ours(g)
    BY ONLY DEF IsSum
  <2>. HIDE DEF Ours, Theirs
  <2>. QED  BY <2>2, <2>3, Zenon
<1>. HIDE DEF f, ch
<1>6. \E g : IsSum(g, A, f, ch)
  BY <1>1, <1>2, <1>3, SumExists
<1>. HIDE DEF Right
<1>7. IsSum(G, A, f, ch)
  <2>1. \E g : Right(g)
    BY <1>5, <1>6, Zenon
  <2>2. Right(G)
    BY <2>1, Zenon
  <2>. QED  BY <1>5, <2>2, Zenon
<1>. QED  BY <1>4, <1>7 DEF f, ch

\* It is a number.
LEMMA TotalIsNat ==
    ASSUME StoreTypeOK, NEW A \in SUBSET Activity, NEW r \in Resource
    PROVE  TotalScore(A, r) \in Nat
<1>. DEFINE f == [a \in A |-> stats[a][r]]
            ch == [s \in SUBSET A |-> CHOOSE x \in s : TRUE]
<1>1. IsFiniteSet(A)
  BY StoreAssumption, FS_Subset
<1>2. f \in [A -> Nat]
  BY StoreAssumption DEF StoreTypeOK, Score
<1>3. \A s \in SUBSET A : s # {} => ch[s] \in s
  OBVIOUS
<1>4. PICK g : IsSum(g, A, f, ch) /\ TotalScore(A, r) = g[A]
  BY TotalIsSum
<1>. HIDE DEF f, ch
<1>5. g[A] \in Nat
  BY <1>1, <1>2, <1>3, <1>4, SumIsNat
<1>. QED  BY <1>4, <1>5

-------------------------------------------------------------------------------
(***************************************************************************)
(* The rows of a query.                                                    *)
(***************************************************************************)
Selections == {"UsedResources", "LinkedResources", "AllResources"}

\* What the types of a query say.
LEMMA QueryTypes ==
    ASSUME WatcherTypeOK
    PROVE  /\ query.selection \in Selections
           /\ Limit \in Nat \ {0} /\ Batch \in Nat \ {0}
           /\ current \in Activity
           /\ \A cur \in Activity : /\ QueriedActivities(cur) \in SUBSET Activity
                                    /\ ActivityTag(cur) \in Activity \cup {Any}
<1>1. query \in Query
  BY QueriesAssumption DEF WatcherTypeOK
<1>2. /\ query.selection \in Selections /\ Limit \in Nat \ {0} /\ Batch \in Nat \ {0}
  BY <1>1 DEF Query, Selections, Limit, Batch
<1>. QED  BY <1>2 DEF WatcherTypeOK, QueriedActivities, ActivityTag

\* A query returns at most one row for a resource; a query for linked resources
\* returns those that are linked.
LEMMA RowsOfQuery ==
    ASSUME StoreTypeOK, NEW A \in SUBSET Activity, NEW selection \in Selections
    PROVE  /\ QueryRows(selection, A) \in SUBSET Item
           /\ \A x, y \in QueryRows(selection, A) : x.resource = y.resource => x = y
           /\ selection = "LinkedResources" =>
                 /\ \A x \in QueryRows(selection, A) : x.resource \in LinkedTo(A) /\ x.data.link = Linked
                 /\ \A r \in LinkedTo(A) : \E x \in QueryRows(selection, A) : x.resource = r
<1>1. LinkedTo(A) \in SUBSET Resource /\ UsedIn(A) \in SUBSET Resource
  BY DEF LinkedTo, UsedIn
<1>2. \A r : LinkedAmong(A, r) \in SUBSET Activity
  BY DEF LinkedAmong
<1>3. NotLinked \in LinkStatus /\ Unknown \in LinkStatus /\ Linked \in LinkStatus
  BY DEF LinkStatus
<1>4. \A x \in LinkedRows(A) :
         /\ x.resource \in LinkedTo(A) /\ x.data.link = Linked /\ x \in Item
         /\ x = [resource |-> x.resource,
                 data |-> [score |-> TotalScore(LinkedAmong(A, x.resource), x.resource),
                           link |-> Linked]]
  <2>1. SUFFICES ASSUME NEW r \in LinkedTo(A), NEW x,
                        x = [resource |-> r,
                             data |-> [score |-> TotalScore(LinkedAmong(A, r), r), link |-> Linked]]
                 PROVE  /\ x.resource = r /\ x.data.link = Linked /\ x \in Item
    BY DEF LinkedRows
  <2>2. TotalScore(LinkedAmong(A, r), r) \in Nat
    BY <1>1, <1>2, TotalIsNat
  <2>. QED  BY <1>1, <1>3, <2>1, <2>2 DEF Item
<1>5. ASSUME NEW R, NEW status \in LinkStatus
      PROVE  \A x \in UsedRows(A, R, status) :
                /\ x.resource \in R /\ x \in Item
                /\ x = [resource |-> x.resource,
                        data |-> [score |-> TotalScore(A, x.resource), link |-> status]]
  <2>1. SUFFICES ASSUME NEW r \in UsedIn(A) \cap R, NEW x,
                        x = [resource |-> r, data |-> [score |-> TotalScore(A, r), link |-> status]]
                 PROVE  x.resource = r /\ x \in Item
    BY DEF UsedRows
  <2>2. TotalScore(A, r) \in Nat
    BY <1>1, <2>1, TotalIsNat
  <2>. QED  BY <1>1, <1>5, <2>1, <2>2 DEF Item
<1>6. CASE selection = "LinkedResources"
  <2>1. QueryRows(selection, A) = LinkedRows(A)
    BY <1>6 DEF QueryRows
  <2>2. ASSUME NEW r \in LinkedTo(A)
        PROVE  \E x \in LinkedRows(A) : x.resource = r
    <3>. DEFINE x == [resource |-> r,
                      data |-> [score |-> TotalScore(LinkedAmong(A, r), r), link |-> Linked]]
    <3>1. x \in LinkedRows(A)
      BY DEF LinkedRows
    <3>2. x.resource = r
      OBVIOUS
    <3>. HIDE DEF x
    <3>. QED  BY <3>1, <3>2
  <2>. QED  BY <1>4, <2>1, <2>2
<1>7. CASE selection = "UsedResources"
  <2>1. QueryRows(selection, A) = UsedRows(A, Resource, Unknown)
    BY <1>7 DEF QueryRows
  <2>. QED  BY <1>3, <1>5, <1>7, <2>1
<1>8. CASE selection = "AllResources"
  <2>1. QueryRows(selection, A)
           = LinkedRows(A) \cup UsedRows(A, Resource \ LinkedTo(A), NotLinked)
    BY <1>8 DEF QueryRows, AllRows
  <2>2. \A x \in UsedRows(A, Resource \ LinkedTo(A), NotLinked) :
           /\ x.resource \notin LinkedTo(A) /\ x \in Item
           /\ x = [resource |-> x.resource,
                   data |-> [score |-> TotalScore(A, x.resource), link |-> NotLinked]]
    BY <1>3, <1>5
  <2>. QED  BY <1>4, <1>8, <2>1, <2>2
<1>. QED  BY <1>6, <1>7, <1>8 DEF Selections

\* There are at most as many rows as resources.
LEMMA FewRows ==
    ASSUME NEW set \in SUBSET Item, \A x, y \in set : x.resource = y.resource => x = y
    PROVE  /\ IsFiniteSet(set) /\ Cardinality(set) \in Nat
           /\ Cardinality(set) <= Cardinality(Resource)
<1>. DEFINE f == [x \in set |-> x.resource]
<1>1. f \in Injection(set, Resource)
  BY DEF Item, Injection, IsInjective
<1>. HIDE DEF f
<1>. QED  BY <1>1, StoreAssumption, FS_Injection, FS_CardinalityType

\* A list that holds elements of a finite set, as many as there are and no two alike,
\* holds all of them.
LEMMA AllListed ==
    ASSUME NEW set, IsFiniteSet(set), NEW f \in [1 .. Cardinality(set) -> set],
           \A i, j \in 1 .. Cardinality(set) : i < j => f[i] # f[j]
    PROVE  /\ f \in Seq(set) /\ Len(f) = Cardinality(set) /\ Distinct(f)
           /\ \A x \in set : \E k \in 1 .. Len(f) : f[k] = x
<1>. DEFINE n == Cardinality(set)
<1>1. n \in Nat
  BY FS_CardinalityType
<1>2. IsFiniteSet(1 .. n) /\ Cardinality(1 .. n) = n
  <2>. HIDE DEF n
  <2>1. n \in Int /\ 1 \in Int
    BY <1>1
  <2>2. IsFiniteSet(1 .. n) /\ Cardinality(1 .. n) = IF 1 > n THEN 0 ELSE n - 1 + 1
    BY <2>1, FS_Interval
  <2>. QED  BY <1>1, <2>2
<1>3. \A i, j \in 1 .. n : f[i] = f[j] => i = j
  <2>. HIDE DEF n
  <2>1. \A i, j \in 1 .. n : i = j \/ i < j \/ j < i
    BY <1>1
  <2>. QED  BY <2>1 DEF n
<1>4. f \in Injection(1 .. n, set)
  BY <1>3 DEF Injection, IsInjective
<1>5. f \in Surjection(1 .. n, set)
  BY <1>2, <1>4, FS_Injection
<1>. HIDE DEF n
<1>6. f \in [1 .. n -> set]
  BY DEF n
<1>7. f \in Seq(set) /\ Len(f) = n
  BY <1>1, <1>6
<1>. QED  BY <1>3, <1>5, <1>6, <1>7 DEF Surjection, Distinct, n

(***************************************************************************)
(* Reading the database.                                                   *)
(***************************************************************************)
QueriedRows(cur) == QueryRows(query.selection, QueriedActivities(cur))

\* The lists that the query can return.
LEMMA ResultsAre ==
    ASSUME NEW cur
    PROVE  Results(cur) = {f \in [1 .. Cardinality(QueriedRows(cur)) -> QueriedRows(cur)] :
                              \A i, j \in DOMAIN f : i < j => SqlBefore(query.ordering, f[i], f[j])}
BY Zenon DEF Results, QueriedRows, Sortings

\* The query's order puts no row before itself.
LEMMA SqlIsStrict ==
    ASSUME NEW x \in Item, NEW ordering
    PROVE  ~SqlBefore(ordering, x, x)
<1>1. x.resource \in Int /\ x.data.link \in Int /\ x.data.score \in Int
  <2>1. x.resource \in Resource /\ x.data.link \in LinkStatus /\ x.data.score \in Nat
    BY DEF Item
  <2>2. x.resource \in Nat
    BY <2>1, StoreAssumption
  <2>3. x.data.link \in Nat
    BY <2>1 DEF LinkStatus, NotLinked, Unknown, Linked
  <2>. QED  BY <2>1, <2>2, <2>3
<1>. QED  BY <1>1 DEF SqlBefore

\* A result lists each row of the query once, and no resource twice.
LEMMA ResultLists ==
    ASSUME StoreTypeOK, WatcherTypeOK, NEW cur \in Activity, NEW result \in Results(cur)
    PROVE  /\ result \in Seq(Item)
           /\ \A k \in 1 .. Len(result) : result[k] \in QueriedRows(cur)
           /\ \A x \in QueriedRows(cur) : \E k \in 1 .. Len(result) : result[k] = x
           /\ \A j, k \in 1 .. Len(result) : result[j].resource = result[k].resource => j = k
           /\ Len(result) <= Cardinality(Resource)
<1>. DEFINE set == QueriedRows(cur)
<1>1. /\ set \in SUBSET Item
      /\ \A x, y \in set : x.resource = y.resource => x = y
  BY QueryTypes, RowsOfQuery DEF QueriedRows
<1>2. IsFiniteSet(set) /\ Cardinality(set) \in Nat /\ Cardinality(set) <= Cardinality(Resource)
  <2>. HIDE DEF set
  <2>. QED  BY <1>1, FewRows
<1>3. /\ result \in [1 .. Cardinality(set) -> set]
      /\ \A i, j \in 1 .. Cardinality(set) : i < j => SqlBefore(query.ordering, result[i], result[j])
  BY ResultsAre
<1>. HIDE DEF set
<1>4. \A i, j \in 1 .. Cardinality(set) : i < j => result[i] # result[j]
  BY <1>1, <1>3, SqlIsStrict
<1>5. /\ result \in Seq(set) /\ Len(result) = Cardinality(set) /\ Distinct(result)
      /\ \A x \in set : \E k \in 1 .. Len(result) : result[k] = x
  BY <1>2, <1>3, <1>4, AllListed
<1>6. DOMAIN result = 1 .. Len(result) /\ \A k \in 1 .. Len(result) : result[k] \in set
  BY <1>5
<1>7. result \in Seq(Item)
  BY <1>1, <1>5
<1>8. \A j, k \in 1 .. Len(result) : result[j].resource = result[k].resource => j = k
  BY <1>1, <1>5, <1>6 DEF Distinct
<1>. QED  BY <1>2, <1>5, <1>6, <1>7, <1>8 DEF set

\* LIMIT and OFFSET give a part of the result, which is empty behind its end.
LEMMA AnswerRows ==
    ASSUME NEW S, NEW result \in Seq(S), NEW limit \in Nat, NEW offset \in Nat
    PROVE  /\ LimitOffset(result, limit, offset) \in Seq(S)
           /\ Len(LimitOffset(result, limit, offset))
                 = IF offset >= Len(result) THEN 0
                   ELSE IF offset + limit <= Len(result) THEN limit ELSE Len(result) - offset
           /\ \A p \in 1 .. Len(LimitOffset(result, limit, offset)) :
                 /\ offset + p \in 1 .. Len(result)
                 /\ LimitOffset(result, limit, offset)[p] = result[offset + p]
<1>. DEFINE a == offset + limit
            b == Len(result)
            n == Min({a, b})
            from == offset + 1
            answer == SubSeq(result, from, n)
<1>1. a \in Nat /\ b \in Nat /\ from \in Nat \ {0} /\ LimitOffset(result, limit, offset) = answer
  BY DEF LimitOffset
<1>2. n = IF a <= b THEN a ELSE b
  <2>. HIDE DEF a, b
  <2>1. n = CHOOSE x \in {a, b} : \A y \in {a, b} : x <= y
    BY DEF Min
  <2>2. \E x \in {a, b} : \A y \in {a, b} : x <= y
    BY <1>1
  <2>3. n \in {a, b} /\ n <= a /\ n <= b
    BY <2>1, <2>2
  <2>. QED  BY <1>1, <2>3
<1>3. n \in 0 .. b
  BY <1>1, <1>2
<1>4. CASE offset >= b
  <2>1. from > n
    BY <1>1, <1>3, <1>4
  <2>2. answer = <<>>
    <3>. HIDE DEF n, from
    <3>. QED  BY <1>1, <1>3, <2>1
  <2>. HIDE DEF answer
  <2>3. answer \in Seq(S) /\ Len(answer) = 0 /\ \A p : p \notin 1 .. Len(answer)
    BY <2>2
  <2>. QED  BY <1>1, <1>4, <2>3
<1>5. CASE ~(offset >= b)
  <2>1. from <= n + 1
    BY <1>1, <1>2, <1>5
  <2>2. /\ answer \in Seq(S) /\ Len(answer) = n - from + 1
        /\ \A p \in 1 .. n - from + 1 : answer[p] = result[from + p - 1]
    <3>. HIDE DEF n, from
    <3>. QED  BY <1>1, <1>3, <2>1, PartOfRows
  <2>. HIDE DEF answer, n
  <2>3. n - from + 1 = IF a <= b THEN limit ELSE b - offset
    BY <1>1, <1>2, <1>5
  <2>4. ASSUME NEW p \in 1 .. Len(answer)
        PROVE  offset + p \in 1 .. b /\ answer[p] = result[offset + p]
    <3>1. from + p - 1 = offset + p /\ p \in 1 .. n - from + 1
      BY <1>1, <2>2
    <3>. QED  BY <1>1, <1>3, <2>2, <3>1
  <2>. QED  BY <1>1, <1>5, <2>2, <2>3, <2>4
<1>. QED  BY <1>4, <1>5

\* The page: the first rows of the answer.
LEMMA PageRows ==
    ASSUME NEW S, NEW answer \in Seq(S), NEW n \in Nat
    PROVE  /\ SubSeq(answer, 1, Lesser(n, Len(answer))) \in Seq(S)
           /\ Len(SubSeq(answer, 1, Lesser(n, Len(answer)))) = Lesser(n, Len(answer))
           /\ \A p \in 1 .. Lesser(n, Len(answer)) :
                 SubSeq(answer, 1, Lesser(n, Len(answer)))[p] = answer[p]
<1>. DEFINE m == Lesser(n, Len(answer))
<1>1. m \in 0 .. Len(answer) /\ 1 <= m + 1 /\ 1 \in Nat \ {0} /\ m - 1 + 1 = m
  BY DEF Lesser
<1>. HIDE DEF m
<1>2. /\ SubSeq(answer, 1, m) \in Seq(S) /\ Len(SubSeq(answer, 1, m)) = m - 1 + 1
      /\ \A p \in 1 .. m - 1 + 1 : SubSeq(answer, 1, m)[p] = answer[1 + p - 1]
  BY <1>1, PartOfRows
<1>3. \A p \in 1 .. m : 1 + p - 1 = p
  BY <1>1
<1>. QED  BY <1>1, <1>2, <1>3 DEF m

\* Two lists, one behind the other.
LEMMA JoinedRows ==
    ASSUME NEW S, NEW u \in Seq(S), NEW v \in Seq(S)
    PROVE  /\ u \o v \in Seq(S) /\ Len(u \o v) = Len(u) + Len(v)
           /\ \A p \in 1 .. Len(u) : (u \o v)[p] = u[p]
           /\ \A k \in 1 .. Len(v) : (u \o v)[Len(u) + k] = v[k]
<1>1. /\ u \o v \in Seq(S) /\ Len(u \o v) = Len(u) + Len(v)
      /\ \A p \in 1 .. Len(u) : (u \o v)[p] = u[p]
  OBVIOUS
<1>2. ASSUME NEW k \in 1 .. Len(v)
      PROVE  (u \o v)[Len(u) + k] = v[k]
  <2>1. Len(u) + k \in 1 .. Len(u) + Len(v) /\ ~(Len(u) + k <= Len(u)) /\ Len(u) + k - Len(u) = k
    OBVIOUS
  <2>. QED  BY <2>1
<1>. QED  BY <1>1, <1>2

\* The rows after a replacement: those in front stay, those behind show the batch, and
\* behind the end of the list they are the batch.
LEMMA ReplacedRows ==
    ASSUME NEW rows \in Seq(Item), NEW new \in Seq(Item), NEW from \in 0 .. Len(rows),
           NEW t \in Replacements(rows, new, from)
    PROVE  /\ t \in Seq(Item)
           /\ Len(t) = from + Len(new)
           /\ \A p \in 1 .. from : t[p] = rows[p]
           /\ \A k \in 1 .. Len(new) :
                 /\ t[from + k].resource = new[k].resource
                 /\ t[from + k] = new[k] \/ \E p \in from + 1 .. Len(rows) : t[from + k] = rows[p]
<1>. DEFINE carried == UNION {Carried(rows, from, new[k]) : k \in 1 .. Len(new)}
            a == SubSeq(rows, 1, from)
            n == Len(new)
<1>1. n \in Nat /\ DOMAIN rows = 1 .. Len(rows) /\ \A k \in 1 .. n : new[k] \in Item
  OBVIOUS
<1>2. a \in Seq(Item) /\ Len(a) = from /\ \A p \in 1 .. from : a[p] = rows[p]
  <2>1. 1 \in Nat \ {0} /\ 1 <= from + 1 /\ from - 1 + 1 = from /\ \A p \in 1 .. from : 1 + p - 1 = p
    OBVIOUS
  <2>. QED  BY <2>1, PartOfRows
<1>3. \A k \in 1 .. n : \A x \in Carried(rows, from, new[k]) :
         /\ x \in Item /\ x.resource = new[k].resource
         /\ x = new[k] \/ \E p \in from + 1 .. Len(rows) : x = rows[p]
  <2>1. SUFFICES ASSUME NEW k \in 1 .. n, NEW x \in Carried(rows, from, new[k])
                 PROVE  /\ x \in Item /\ x.resource = new[k].resource
                        /\ x = new[k] \/ \E p \in from + 1 .. Len(rows) : x = rows[p]
    OBVIOUS
  <2>2. x = new[k] \/ \E p \in from + 1 .. Len(rows) : x = rows[p] /\ x.resource = new[k].resource
    BY DEF Carried
  <2>3. \A p \in from + 1 .. Len(rows) : rows[p] \in Item
    OBVIOUS
  <2>. QED  BY <1>1, <2>2, <2>3
<1>4. PICK c \in [1 .. n -> carried] : /\ t = a \o c
                                       /\ \A k \in 1 .. n : c[k] \in Carried(rows, from, new[k])
  BY DEF Replacements
<1>. HIDE DEF a, n, carried
<1>5. c \in Seq(Item) /\ Len(c) = n
  <2>1. c \in [1 .. n -> Item]
    <3>1. \A k \in 1 .. n : c[k] \in Item
      BY <1>3, <1>4
    <3>2. c = [k \in 1 .. n |-> c[k]]
      BY <1>4
    <3>. QED  BY <3>1, <3>2
  <2>. QED  BY <1>1, <2>1
<1>6. /\ t \in Seq(Item) /\ Len(t) = from + n
      /\ \A p \in 1 .. from : t[p] = a[p]
      /\ \A k \in 1 .. n : t[from + k] = c[k]
  <2>1. a \in Seq(Item) /\ c \in Seq(Item)
    BY <1>2, <1>5
  <2>2. /\ a \o c \in Seq(Item) /\ Len(a \o c) = Len(a) + Len(c)
        /\ \A p \in 1 .. Len(a) : (a \o c)[p] = a[p]
        /\ \A k \in 1 .. Len(c) : (a \o c)[Len(a) + k] = c[k]
    BY <2>1, JoinedRows
  <2>3. t = a \o c /\ Len(a) = from /\ Len(c) = n
    BY <1>2, <1>4, <1>5
  <2>. QED  BY <2>2, <2>3
<1>7. \A p \in 1 .. from : t[p] = rows[p]
  BY <1>2, <1>6
<1>8. \A k \in 1 .. n : /\ t[from + k].resource = new[k].resource
                        /\ t[from + k] = new[k] \/ \E p \in from + 1 .. Len(rows) : t[from + k] = rows[p]
  <2>1. \A k \in 1 .. n : t[from + k] = c[k] /\ c[k] \in Carried(rows, from, new[k])
    BY <1>4, <1>6
  <2>. QED  BY <1>3, <2>1
<1>. QED  BY <1>6, <1>7, <1>8 DEF n

(***************************************************************************)
(* What a fetch does: the page it reads, and the batch that replaces rows. *)
(***************************************************************************)
UserPutsBefore(order, x, y) ==
    \/ FixedItemsLessThan(order, x, y)
    \/ ~FixedItemsLessThan(order, y, x) /\ SqlBefore(query.ordering, x, y)

\* The number of rows that a fetch asks for.
Asked(from, count) == IF from + count > Limit THEN Limit - from ELSE count

Page(result, from, n) ==
    SubSeq(LimitOffset(result, n + 1, from), 1, Lesser(n, Len(LimitOffset(result, n + 1, from))))

\* The page is the part of the result that was asked for.
LEMMA PageOfResult ==
    ASSUME NEW S, NEW result \in Seq(S), NEW from \in Nat, NEW n \in Nat
    PROVE  /\ Page(result, from, n) \in Seq(S)
           /\ Len(Page(result, from, n)) = IF from >= Len(result) THEN 0
                                           ELSE Lesser(n, Len(result) - from)
           /\ \A p \in 1 .. Len(Page(result, from, n)) :
                 /\ from + p \in 1 .. Len(result)
                 /\ Page(result, from, n)[p] = result[from + p]
           /\ Len(LimitOffset(result, n + 1, from)) > n <=> from + n < Len(result)
<1>. DEFINE m == n + 1
            answer == LimitOffset(result, m, from)
            page == SubSeq(answer, 1, Lesser(n, Len(answer)))
<1>1. m \in Nat /\ Len(result) \in Nat
  OBVIOUS
<1>. HIDE DEF m
<1>2. /\ answer \in Seq(S)
      /\ Len(answer) = IF from >= Len(result) THEN 0
                       ELSE IF from + m <= Len(result) THEN m ELSE Len(result) - from
      /\ \A p \in 1 .. Len(answer) : from + p \in 1 .. Len(result) /\ answer[p] = result[from + p]
  BY <1>1, AnswerRows
<1>. HIDE DEF answer
<1>3. /\ page \in Seq(S) /\ Len(page) = Lesser(n, Len(answer))
      /\ \A p \in 1 .. Lesser(n, Len(answer)) : page[p] = answer[p]
  BY <1>2, PageRows
<1>4. Len(answer) \in Nat
  BY <1>2
<1>. HIDE DEF page
<1>5. Len(page) = IF from >= Len(result) THEN 0 ELSE Lesser(n, Len(result) - from)
  BY <1>1, <1>2, <1>3 DEF Lesser, m
<1>6. Len(answer) > n <=> from + n < Len(result)
  BY <1>1, <1>2 DEF m
<1>7. ASSUME NEW p \in 1 .. Len(page)
      PROVE  from + p \in 1 .. Len(result) /\ page[p] = result[from + p]
  <2>1. p \in 1 .. Lesser(n, Len(answer)) /\ p \in 1 .. Len(answer)
    BY <1>3, <1>4 DEF Lesser
  <2>. QED  BY <1>2, <1>3, <2>1
<1>8. Page(result, from, n) = page /\ LimitOffset(result, n + 1, from) = answer
  BY DEF Page, page, answer, m
<1>. QED  BY <1>3, <1>5, <1>6, <1>7, <1>8

\* What a batch is made of: the rows of the page, each once, as they came or in the
\* user's order.
IsBatch(new, page, order) ==
    /\ new \in Seq(Item)
    /\ Len(new) = Len(page)
    /\ \A k \in 1 .. Len(new) : \E p \in 1 .. Len(page) : new[k] = page[p]
    /\ \A p \in 1 .. Len(page) : \E k \in 1 .. Len(new) : new[k] = page[p]
    /\ \A j, k \in 1 .. Len(new) : new[j].resource = new[k].resource => j = k
    /\ IF query.selection = "UsedResources" THEN new = page
       ELSE \A j, k \in 1 .. Len(new) : j < k => UserPutsBefore(order, new[j], new[k])

\* A sorting of the rows of a page holds each of them once.
LEMMA SortedPage ==
    ASSUME query.selection # "UsedResources", NEW page \in Seq(Item), NEW order \in Seq(Resource),
           \A j, k \in 1 .. Len(page) : page[j].resource = page[k].resource => j = k,
           NEW read, read = {page[k] : k \in DOMAIN page},
           NEW new \in [1 .. Cardinality(read) -> read],
           \A i, j \in DOMAIN new : i < j => UserPutsBefore(order, new[i], new[j])
    PROVE  IsBatch(new, page, order)
<1>. DEFINE n == Len(page)
            f == [k \in 1 .. n |-> page[k]]
<1>1. n \in Nat /\ DOMAIN page = 1 .. n /\ read \in SUBSET Item
  OBVIOUS
<1>2. \A j, k \in 1 .. n : page[j] = page[k] => j = k
  OBVIOUS
<1>3. IsFiniteSet(1 .. n) /\ Cardinality(1 .. n) = n
  <2>1. n \in Int /\ 1 \in Int
    BY <1>1
  <2>. HIDE DEF n
  <2>2. IsFiniteSet(1 .. n) /\ Cardinality(1 .. n) = IF 1 > n THEN 0 ELSE n - 1 + 1
    BY <2>1, FS_Interval
  <2>. QED  BY <1>1, <2>2
<1>4. f \in Bijection(1 .. n, read)
  <2>1. f \in [1 .. n -> read] /\ \A x \in read : \E k \in 1 .. n : f[k] = x
    BY <1>1
  <2>2. \A j, k \in 1 .. n : f[j] = f[k] => j = k
    BY <1>2
  <2>. HIDE DEF f, n
  <2>. QED  BY <2>1, <2>2 DEF Bijection, Injection, IsInjective, Surjection
<1>. HIDE DEF f
<1>5. IsFiniteSet(read) /\ Cardinality(read) = n
  <2>1. ExistsBijection(1 .. n, read)
    BY <1>4 DEF ExistsBijection
  <2>. HIDE DEF n
  <2>2. Cardinality(1 .. n) = Cardinality(read)
    BY <1>3, <2>1, FS_Bijection
  <2>3. IsFiniteSet(read)
    BY <1>3, <2>1, FS_Bijection
  <2>. QED  BY <1>3, <2>2, <2>3
<1>6. \A x \in Item : ~UserPutsBefore(order, x, x)
  <2>1. SUFFICES ASSUME NEW x \in Item
                 PROVE  ~UserPutsBefore(order, x, x)
    OBVIOUS
  <2>2. IndexOf(order, x.resource) \in Int
    BY FirstIndex
  <2>3. ~SqlBefore(query.ordering, x, x)
    BY SqlIsStrict
  <2>. QED  BY <2>2, <2>3 DEF UserPutsBefore, FixedItemsLessThan, PlacedBefore
<1>7. /\ new \in [1 .. Cardinality(read) -> read] /\ DOMAIN new = 1 .. Cardinality(read)
      /\ \A i, j \in 1 .. Cardinality(read) : i < j => UserPutsBefore(order, new[i], new[j])
  OBVIOUS
<1>. HIDE DEF n
<1>8. \A i, j \in 1 .. Cardinality(read) : i < j => new[i] # new[j]
  <2>1. \A k \in 1 .. Cardinality(read) : new[k] \in Item
    BY <1>1, <1>7
  <2>. QED  BY <1>6, <1>7, <2>1
<1>9. /\ new \in Seq(read) /\ Len(new) = Cardinality(read) /\ Distinct(new)
      /\ \A x \in read : \E k \in 1 .. Len(new) : new[k] = x
  <2>1. /\ IsFiniteSet(read) /\ new \in [1 .. Cardinality(read) -> read]
        /\ \A i, j \in 1 .. Cardinality(read) : i < j => new[i] # new[j]
    BY <1>5, <1>8
  <2>. QED  BY ONLY <2>1, AllListed
<1>10. /\ new \in Seq(Item) /\ DOMAIN new = 1 .. Len(new)
       /\ \A k \in 1 .. Len(new) : new[k] \in read
  BY <1>1, <1>9
<1>11. \A k \in 1 .. Len(new) : \E p \in 1 .. n : new[k] = page[p]
  BY <1>1, <1>10
<1>12. \A p \in 1 .. n : page[p] \in read
  BY <1>1
<1>13. \A j, k \in 1 .. Len(new) : new[j].resource = new[k].resource => new[j] = new[k]
  <2>1. SUFFICES ASSUME NEW j \in 1 .. Len(new), NEW k \in 1 .. Len(new),
                        new[j].resource = new[k].resource
                 PROVE  new[j] = new[k]
    OBVIOUS
  <2>2. PICK p \in 1 .. n : new[j] = page[p]
    BY <1>11
  <2>3. PICK q \in 1 .. n : new[k] = page[q]
    BY <1>11
  <2>4. p = q
    BY <2>1, <2>2, <2>3 DEF n
  <2>. QED  BY <2>2, <2>3, <2>4
<1>14. \A j, k \in 1 .. Len(new) : new[j].resource = new[k].resource => j = k
  <2>1. \A j, k \in 1 .. Len(new) : new[j] = new[k] => j = k
    BY <1>9, <1>10 DEF Distinct
  <2>. QED  BY <1>13, <2>1
<1>15. \A p \in 1 .. n : \E k \in 1 .. Len(new) : new[k] = page[p]
  BY <1>9, <1>12
<1>16. \A i, j \in 1 .. Len(new) : i < j => UserPutsBefore(order, new[i], new[j])
  BY <1>10
<1>. QED  BY <1>5, <1>9, <1>10, <1>11, <1>14, <1>15, <1>16 DEF n, IsBatch

\* A fetch of at least one row replaces rows by a batch of a page of the result.
FetchesPage(rows, from, n, cur, order) ==
    \E result \in Results(cur), new \in Seq(Item) :
        /\ IsBatch(new, Page(result, from, n), order)
        /\ items' \in Replacements(rows, new, from)
        /\ hasMore' = (from + n < Len(result))
        /\ checks' = ChecksAfter(Page(result, from, n))

\* What a fetch reads, and what it leaves when it asks for nothing.
LEMMA FetchReads ==
    ASSUME StoreTypeOK, WatcherTypeOK, NEW rows \in Seq(Item), NEW from \in 0 .. Len(rows),
           NEW count \in Nat, NEW cur \in Activity, NEW order \in Seq(Resource),
           FetchRows(rows, from, count, cur, order)
    PROVE  /\ Asked(from, count) <= 0 => items' = rows /\ UNCHANGED <<hasMore, checks>>
           /\ ~(Asked(from, count) <= 0) => FetchesPage(rows, from, Asked(from, count), cur, order)
<1>. DEFINE n == Asked(from, count)
<1>1. CASE n <= 0
  <2>1. items' = rows /\ UNCHANGED <<hasMore, checks>>
    BY <1>1 DEF FetchRows, Asked
  <2>. QED  BY <1>1, <2>1
<1>2. CASE ~(n <= 0)
  <2>1. n \in Nat
    BY <1>2, QueryTypes DEF Asked
  <2>2. PICK result \in Results(cur) :
           /\ hasMore' = MoreBehind(LimitOffset(result, n + 1, from), n)
           /\ checks' = ChecksAfter(Page(result, from, n))
           /\ \E new \in IF query.selection = "UsedResources" THEN {Page(result, from, n)}
                         ELSE LET read == {Page(result, from, n)[k] : k \in DOMAIN Page(result, from, n)}
                              IN {f \in [1 .. Cardinality(read) -> read] :
                                     \A i, j \in DOMAIN f : i < j => UserPutsBefore(order, f[i], f[j])} :
                 items' \in Replacements(rows, new, from)
    BY <1>2 DEF FetchRows, Asked, Page, Sortings, UserPutsBefore
  <2>. DEFINE page == Page(result, from, n)
              read == {page[k] : k \in DOMAIN page}
  <2>3. /\ result \in Seq(Item)
        /\ \A j, k \in 1 .. Len(result) : result[j].resource = result[k].resource => j = k
    BY ResultLists
  <2>. HIDE DEF n
  <2>4. /\ page \in Seq(Item)
        /\ \A p \in 1 .. Len(page) : from + p \in 1 .. Len(result) /\ page[p] = result[from + p]
        /\ Len(LimitOffset(result, n + 1, from)) > n <=> from + n < Len(result)
    <3>1. result \in Seq(Item) /\ from \in Nat /\ n \in Nat
      BY <2>1, <2>3
    <3>. QED  BY ONLY <3>1, PageOfResult
  <2>5. hasMore' = (from + n < Len(result))
    BY <2>2, <2>4 DEF MoreBehind
  <2>6. PICK new \in IF query.selection = "UsedResources" THEN {page}
                     ELSE {f \in [1 .. Cardinality(read) -> read] :
                              \A i, j \in DOMAIN f : i < j => UserPutsBefore(order, f[i], f[j])} :
           items' \in Replacements(rows, new, from)
    BY <2>2
  <2>. HIDE DEF page
  <2>7. \A j, k \in 1 .. Len(page) : page[j].resource = page[k].resource => j = k
    <3>1. SUFFICES ASSUME NEW j \in 1 .. Len(page), NEW k \in 1 .. Len(page),
                          page[j].resource = page[k].resource
                   PROVE  j = k
      OBVIOUS
    <3>2. from + j = from + k
      BY <2>3, <2>4, <3>1
    <3>. QED  BY <2>4, <3>2
  <2>8. IsBatch(new, page, order)
    <3>1. CASE query.selection = "UsedResources"
      <4>1. new = page
        BY <2>6, <3>1
      <4>. QED  BY <2>4, <2>7, <3>1, <4>1 DEF IsBatch
    <3>2. CASE query.selection # "UsedResources"
      <4>. HIDE DEF read
      <4>1. /\ new \in [1 .. Cardinality(read) -> read]
            /\ \A i, j \in DOMAIN new : i < j => UserPutsBefore(order, new[i], new[j])
        BY <2>6, <3>2
      <4>2. read = {page[k] : k \in DOMAIN page}
        BY DEF read
      <4>3. IsBatch(new, page, order)
        <5>1. /\ page \in Seq(Item) /\ order \in Seq(Resource)
              /\ \A j, k \in 1 .. Len(page) : page[j].resource = page[k].resource => j = k
              /\ new \in [1 .. Cardinality(read) -> read]
              /\ \A i, j \in DOMAIN new : i < j => UserPutsBefore(order, new[i], new[j])
              /\ read = {page[k] : k \in DOMAIN page}
          BY <2>4, <2>7, <4>1, <4>2
        <5>. QED  BY <3>2, <5>1, SortedPage
      <4>. QED  BY <4>3
    <3>. QED  BY <3>1, <3>2
  <2>9. new \in Seq(Item)
    BY <2>8 DEF IsBatch
  <2>10. FetchesPage(rows, from, n, cur, order)
    BY <2>2, <2>5, <2>6, <2>8, <2>9 DEF FetchesPage, page
  <2>. QED  BY <1>2, <2>10 DEF n
<1>. QED  BY <1>1, <1>2

\* The threads look for resources.
LEMMA ChecksTyped ==
    ASSUME NEW page \in Seq(Item), checks \subseteq SUBSET Resource
    PROVE  ChecksAfter(page) \subseteq SUBSET Resource
<1>. DEFINE gone == {page[k].resource : k \in DOMAIN page} \cap Missing
<1>1. \A k \in DOMAIN page : page[k] \in Item
  OBVIOUS
<1>2. \A x \in Item : x.resource \in Resource
  BY DEF Item
<1>3. gone \in SUBSET Resource
  BY <1>1, <1>2
<1>4. ChecksAfter(page) = IF gone = {} THEN checks ELSE checks \cup {gone}
  BY DEF ChecksAfter
<1>. HIDE DEF gone
<1>. QED  BY <1>3, <1>4

\* A fetch keeps the rows in front of the ones it asks for, goes over the limit only
\* with rows that were there, and leaves typed variables.
LEMMA FetchKeeps ==
    ASSUME TypeInv, NEW rows \in Seq(Item), NEW from \in 0 .. Len(rows),
           NEW count \in Nat, NEW cur \in Activity, NEW order \in Seq(Resource),
           FetchRows(rows, from, count, cur, order)
    PROVE  /\ items' \in Seq(Item) /\ hasMore' \in BOOLEAN /\ checks' \subseteq SUBSET Resource
           /\ from <= Len(items') /\ \A p \in 1 .. from : items'[p] = rows[p]
           /\ items' = rows \/ Len(items') <= Limit
<1>. DEFINE n == Asked(from, count)
<1>1. CASE n <= 0
  <2>1. items' = rows /\ UNCHANGED <<hasMore, checks>>
    BY <1>1, FetchReads DEF TypeInv
  <2>. QED  BY <2>1 DEF TypeInv
<1>2. CASE ~(n <= 0)
  <2>1. PICK result \in Results(cur), new \in Seq(Item) :
           /\ IsBatch(new, Page(result, from, n), order)
           /\ items' \in Replacements(rows, new, from)
           /\ hasMore' = (from + n < Len(result))
           /\ checks' = ChecksAfter(Page(result, from, n))
    BY <1>2, FetchReads DEF TypeInv, FetchesPage
  <2>2. n \in Nat /\ from + n <= Limit /\ Limit \in Nat
    BY <1>2, QueryTypes DEF Asked, TypeInv
  <2>3. result \in Seq(Item)
    BY ResultLists DEF TypeInv
  <2>. HIDE DEF n
  <2>4. /\ Page(result, from, n) \in Seq(Item)
        /\ Len(Page(result, from, n)) = IF from >= Len(result) THEN 0
                                        ELSE Lesser(n, Len(result) - from)
    BY <2>2, <2>3, PageOfResult
  <2>5. Len(new) <= n
    BY <2>1, <2>2, <2>3, <2>4 DEF IsBatch, Lesser
  <2>6. /\ items' \in Seq(Item) /\ Len(items') = from + Len(new)
        /\ \A p \in 1 .. from : items'[p] = rows[p]
    BY <2>1, ReplacedRows
  <2>7. hasMore' \in BOOLEAN
    BY <2>1
  <2>8. checks' \subseteq SUBSET Resource
    BY <2>1, <2>4, ChecksTyped DEF TypeInv
  <2>9. from <= Len(items') /\ Len(items') <= Limit
    BY <2>2, <2>5, <2>6
  <2>. QED  BY <2>6, <2>7, <2>8, <2>9
<1>. QED  BY <1>1, <1>2

-------------------------------------------------------------------------------
(***************************************************************************)
(* The rows that handlers put in and take out.                             *)
(***************************************************************************)
\* destinationFor gives a place in the list, and for a listed row one of the rows.
LEMMA DestinationInside ==
    ASSUME NEW rows \in Seq(Item), NEW x \in Item, NEW order \in Seq(Resource)
    PROVE  /\ DestinationFor(rows, x, order) \in 0 .. Len(rows)
           /\ (\E p \in 1 .. Len(rows) : rows[p] = x) => DestinationFor(rows, x, order) \in Rows(rows)
<1>. DEFINE n == Len(rows)
            D == 1 .. n
            before == {p \in D : \/ FixedItemsLessThan(order, rows[p], x)
                                 \/ ~FixedItemsLessThan(order, x, rows[p]) /\ ModelBefore(rows[p], x)}
<1>1. n \in Nat /\ IsFiniteSet(D) /\ Cardinality(D) = n
  <2>1. n \in Nat /\ n \in Int /\ 1 \in Int
    OBVIOUS
  <2>. HIDE DEF n
  <2>2. IsFiniteSet(1 .. n) /\ Cardinality(1 .. n) = IF 1 > n THEN 0 ELSE n - 1 + 1
    BY <2>1, FS_Interval
  <2>. QED  BY <2>1, <2>2
<1>2. DestinationFor(rows, x, order) = Cardinality(before)
  BY DEF DestinationFor
<1>3. (\E p \in D : rows[p] = x) => before # D
  <2>1. SUFFICES ASSUME NEW p \in D, rows[p] = x
                 PROVE  p \notin before
    OBVIOUS
  <2>2. IndexOf(order, x.resource) \in Int
    BY FirstIndex
  <2>3. ~FixedItemsLessThan(order, x, x)
    BY <2>2 DEF FixedItemsLessThan, PlacedBefore
  <2>4. x.resource \in Nat /\ x.data.score \in Nat /\ x.data.link \in Nat
    <3>1. x.resource \in Resource /\ x.data.link \in LinkStatus /\ x.data.score \in Nat
      BY DEF Item
    <3>2. x.resource \in Nat
      BY <3>1, StoreAssumption
    <3>3. x.data.link \in Nat
      BY <3>1 DEF LinkStatus, NotLinked, Unknown, Linked
    <3>. QED  BY <3>1, <3>2, <3>3
  <2>5. ~ModelBefore(x, x)
    BY <2>4 DEF ModelBefore
  <2>. QED  BY <2>1, <2>3, <2>5
<1>4. before \in SUBSET D
  OBVIOUS
<1>. HIDE DEF before, D, n
<1>5. /\ IsFiniteSet(before) /\ Cardinality(before) <= Cardinality(D)
      /\ Cardinality(before) = Cardinality(D) => before = D
  BY <1>1, <1>4, FS_Subset
<1>6. Cardinality(before) \in Nat
  BY <1>5, FS_CardinalityType
<1>7. Cardinality(before) \in 0 .. n /\ (before # D => Cardinality(before) \in 0 .. n - 1)
  BY <1>1, <1>5, <1>6
<1>. QED  BY <1>2, <1>3, <1>7 DEF D, n, Rows

\* A row is found where the resource is shown.
LEMMA FoundRows ==
    ASSUME NEW rows \in Seq(Item), NEW r
    PROVE  /\ \A row \in Find(rows, r) : row \in Rows(rows) /\ row + 1 \in 1 .. Len(rows)
                                         /\ rows[row + 1].resource = r
           /\ Find(rows, r) = {} => \A p \in 1 .. Len(rows) : rows[p].resource # r
<1>1. \A row \in Find(rows, r) : row \in Rows(rows) /\ row + 1 \in 1 .. Len(rows)
                                 /\ rows[row + 1].resource = r
  BY DEF Find, Rows
<1>2. ASSUME NEW p \in 1 .. Len(rows), rows[p].resource = r
      PROVE  Find(rows, r) # {}
  <2>1. 0 \in Nat /\ p \in 0 + 1 .. Len(rows)
    OBVIOUS
  <2>2. FindFrom(rows, 0, r) # {}
    BY <1>2, <2>1, FoundFrom
  <2>3. FindFrom(rows, 0, r) \in SUBSET Find(rows, r)
    BY DEF FindFrom, Find
  <2>. QED  BY <2>2, <2>3
<1>. QED  BY <1>1, <1>2

\* The numbers before the first one of a set.
LEMMA NumbersBefore ==
    ASSUME NEW n \in Nat, NEW U
    PROVE  \E k \in 0 .. n : /\ \A p \in 1 .. k : p \notin U
                             /\ k < n => k + 1 \in U
<1>. DEFINE T == {k \in Nat : k = n \/ k + 1 \in U}
<1>1. n \in T /\ T \in SUBSET Nat
  OBVIOUS
<1>2. PICK k \in T : \A j \in T : k <= j
  <2>. HIDE DEF T
  <2>. QED  BY <1>1, LeastOf
<1>3. k \in 0 .. n /\ (k < n => k + 1 \in U)
  BY <1>1, <1>2
<1>4. ASSUME NEW p \in 1 .. k, p \in U
      PROVE  FALSE
  <2>1. p - 1 \in Nat /\ p - 1 + 1 \in U /\ p - 1 < k
    BY <1>3, <1>4
  <2>2. p - 1 \in T
    BY <2>1
  <2>. QED  BY <1>2, <1>3, <2>1, <2>2
<1>. QED  BY <1>3, <1>4

\* The linked items are the resources of the first rows, up to one that is not linked.
LEMMA LinkedItemsFirst ==
    ASSUME items \in Seq(Item)
    PROVE  /\ LinkedItems \in Seq(Resource)
           /\ Len(LinkedItems) <= Len(items)
           /\ \A p \in 1 .. Len(LinkedItems) : LinkedItems[p] = items[p].resource
           /\ \A p \in 1 .. Len(LinkedItems) : items[p].data.link # NotLinked
           /\ Len(LinkedItems) < Len(items) =>
                 items[Len(LinkedItems) + 1].data.link = NotLinked
<1>. DEFINE n == Len(items)
            Last(k) == /\ \A p \in 1 .. k : items[p].data.link # NotLinked
                       /\ k < n => items[k + 1].data.link = NotLinked
            U == {p \in 1 .. n : items[p].data.link = NotLinked}
            m == CHOOSE k \in 0 .. n : Last(k)
            list == [p \in 1 .. m |-> items[p].resource]
<1>1. n \in Nat
  OBVIOUS
<1>2. PICK k \in 0 .. n : (\A p \in 1 .. k : p \notin U) /\ (k < n => k + 1 \in U)
  <2>. HIDE DEF U, n
  <2>. QED  BY <1>1, NumbersBefore
<1>3. Last(k)
  <2>1. \A p \in 1 .. k : p \in 1 .. n
    BY <1>1
  <2>. QED  BY <1>2, <2>1
<1>. HIDE DEF Last
<1>4. m \in 0 .. n /\ Last(m)
  BY <1>2, <1>3
<1>5. LinkedItems = list
  BY DEF LinkedItems, Last
<1>. HIDE DEF m
<1>6. \A p \in 1 .. m : items[p].resource \in Resource
  <2>1. \A p \in 1 .. m : items[p] \in Item
    BY <1>1, <1>4
  <2>. QED  BY <2>1 DEF Item
<1>7. list \in Seq(Resource) /\ Len(list) = m /\ \A p \in 1 .. m : list[p] = items[p].resource
  BY <1>4, <1>6
<1>. HIDE DEF list
<1>. QED  BY <1>1, <1>4, <1>5, <1>7 DEF Last

\* A listed row with a new score: the same resources, in another order.
LEMMA RepositionKeeps ==
    ASSUME items \in Seq(Item), fixed \in Seq(Resource),
           NEW row \in Rows(items), NEW score \in Nat
    PROVE  /\ Reposition(row, score) \in Seq(Item)
           /\ Len(Reposition(row, score)) = Len(items)
           /\ \A j \in 1 .. Len(items) :
                 \E k \in 1 .. Len(items) : Reposition(row, score)[k].resource = items[j].resource
<1>. DEFINE p == row + 1
            x == [items[p] EXCEPT !.data.score = score]
            rows == [items EXCEPT ![p] = x]
            dest == DestinationFor(rows, x, fixed)
            t == MoveOne(rows, row, dest)
<1>1. p \in 1 .. Len(items) /\ items[p] \in Item
  BY DEF Rows
<1>2. x \in Item /\ x.resource = items[p].resource
  BY <1>1 DEF Item
<1>. HIDE DEF p, x
<1>3. /\ rows \in Seq(Item) /\ Len(rows) = Len(items) /\ rows[p] = x
      /\ \A k \in 1 .. Len(items) : rows[k].resource = items[k].resource
  BY <1>1, <1>2
<1>. HIDE DEF rows
<1>4. dest \in Rows(rows) /\ row \in Rows(rows)
  BY <1>1, <1>2, <1>3, DestinationInside DEF Rows
<1>. HIDE DEF dest
<1>5. t \in Seq(Item) /\ Len(t) = Len(rows)
  BY <1>3, <1>4, MovedRowAt
<1>6. \A j \in 1 .. Len(rows) : \E k \in 1 .. Len(rows) : t[k] = rows[j]
  BY <1>3, <1>4, MovedRowsDiffer
<1>7. Reposition(row, score) = t
  BY DEF Reposition, t, dest, rows, x, p
<1>. HIDE DEF t
<1>8. ASSUME NEW j \in 1 .. Len(items)
      PROVE  \E k \in 1 .. Len(items) : t[k].resource = items[j].resource
  BY <1>3, <1>6
<1>. QED  BY <1>3, <1>5, <1>7, <1>8

-------------------------------------------------------------------------------
(***************************************************************************)
(* The store and the announcements keep their types.                       *)
(***************************************************************************)
\* What the kinds of announcements carry.
LEMMA SignalFields ==
    ASSUME NEW m \in Signal
    PROVE  /\ m.kind = "ResourceScoreUpdated" =>
                 m.activity \in Activity /\ m.resource \in Resource /\ m.score \in Nat
           /\ m.kind \in {"ResourceLinked", "ResourceUnlinked"} =>
                 m.activity \in Activity /\ m.resource \in Resource
           /\ m.kind = "ResourceScoreDeleted" => m.resource \in Resource
           /\ m.kind = "CurrentActivityChanged" => m.activity \in Activity
<1>1. Score \subseteq Nat
  BY StoreAssumption DEF Score
<1>2. CASE m \in [kind : {"ResourceScoreUpdated"}, activity : Activity, resource : Resource, score : Score]
  <2>1. m.kind = "ResourceScoreUpdated" /\ m.activity \in Activity /\ m.resource \in Resource /\ m.score \in Score
    BY <1>2
  <2>. QED  BY <1>1, <2>1
<1>3. CASE m \in [kind : {"ResourceScoreDeleted"}, activity : Activity \cup {Any, CurrentTag}, resource : Resource]
  <2>1. m.kind = "ResourceScoreDeleted" /\ m.resource \in Resource
    BY <1>3
  <2>. QED  BY <2>1
<1>4. CASE m \in [kind : {"PatternDeleted"}, activity : Activity \cup {Any}]
  <2>1. m.kind = "PatternDeleted"
    BY <1>4
  <2>. QED  BY <2>1
<1>5. CASE m \in [kind : {"StatsDeleted"}]
  <2>1. m.kind = "StatsDeleted"
    BY <1>5
  <2>. QED  BY <2>1
<1>6. CASE m \in [kind : {"ResourceLinked", "ResourceUnlinked"}, activity : Activity, resource : Resource]
  <2>1. m.kind \in {"ResourceLinked", "ResourceUnlinked"} /\ m.activity \in Activity /\ m.resource \in Resource
    BY <1>6
  <2>. QED  BY <2>1
<1>7. CASE m \in [kind : {"CurrentActivityChanged"}, activity : Activity]
  <2>1. m.kind = "CurrentActivityChanged" /\ m.activity \in Activity
    BY <1>7
  <2>. QED  BY <2>1
<1>. QED  BY <1>2, <1>3, <1>4, <1>5, <1>6, <1>7 DEF Signal

\* Rows that are deleted leave scores.
LEMMA DeletedTyped ==
    ASSUME StoreTypeOK, NEW a, NEW R
    PROVE  Deleted(a, R) \in [Activity -> [Resource -> Score]]
<1>1. 0 \in Score
  BY StoreAssumption DEF Score
<1>2. \A b \in Activity, r \in Resource : stats[b][r] \in Score
  BY DEF StoreTypeOK
<1>. QED  BY <1>1, <1>2 DEF Deleted

\* An announcement joins the ones that wait.
LEMMA AnnounceTyped ==
    ASSUME bus \in Seq(Signal), NEW signal \in Signal, Announce(signal)
    PROVE  bus' \in Seq(Signal)
BY DEF Announce

\* Each thing that the activity manager does.
LEMMA ManagerTyped == ASSUME StoreTypeOK, Manager PROVE StoreTypeOK'
<1>. DEFINE Rest == stats \in [Activity -> [Resource -> Score]] /\ links \in [Activity -> SUBSET Resource]
                    /\ activity \in Activity
<1>0. Rest /\ bus \in Seq(Signal)
  BY DEF StoreTypeOK
<1>1. ASSUME NEW a \in Activity, NEW r \in Resource, NEW score \in Score, Use(a, r, score)
      PROVE  StoreTypeOK'
  <2>1. [kind |-> "ResourceScoreUpdated", activity |-> a, resource |-> r, score |-> score] \in Signal
    BY DEF Signal
  <2>2. Rest'
    BY <1>0, <1>1 DEF Use
  <2>3. bus' \in Seq(Signal)
    BY <1>0, <1>1, <2>1, AnnounceTyped DEF Use
  <2>. QED  BY <2>2, <2>3 DEF StoreTypeOK
<1>2. ASSUME NEW a \in Activity \cup {Any}, NEW r \in Resource, DeleteStatsForResource(a, r)
      PROVE  StoreTypeOK'
  <2>1. [kind |-> "ResourceScoreDeleted", activity |-> a, resource |-> r] \in Signal
    BY DEF Signal
  <2>2. Rest'
    BY <1>0, <1>2, DeletedTyped DEF DeleteStatsForResource
  <2>3. bus' \in Seq(Signal)
    BY <1>0, <1>2, <2>1, AnnounceTyped DEF DeleteStatsForResource
  <2>. QED  BY <2>2, <2>3 DEF StoreTypeOK
<1>3. ASSUME NEW a \in Activity \cup {Any}, NEW R \in SUBSET Resource, DeleteStatsForPattern(a, R)
      PROVE  StoreTypeOK'
  <2>1. [kind |-> "PatternDeleted", activity |-> a] \in Signal
    BY DEF Signal
  <2>2. Rest'
    BY <1>0, <1>3, DeletedTyped DEF DeleteStatsForPattern
  <2>3. bus' \in Seq(Signal)
    BY <1>0, <1>3, <2>1, AnnounceTyped DEF DeleteStatsForPattern
  <2>. QED  BY <2>2, <2>3 DEF StoreTypeOK
<1>4. ASSUME NEW a \in Activity, NEW R \in SUBSET Resource, DeletePeriod(a, R)
      PROVE  StoreTypeOK'
  <2>1. [kind |-> "StatsDeleted"] \in Signal
    BY DEF Signal
  <2>2. Rest'
    BY <1>0, <1>4, DeletedTyped DEF DeletePeriod
  <2>3. bus' \in Seq(Signal)
    BY <1>0, <1>4, <2>1, AnnounceTyped DEF DeletePeriod
  <2>. QED  BY <2>2, <2>3 DEF StoreTypeOK
<1>5. ASSUME NEW a \in Activity, NEW r \in Resource, LinkResource(a, r)
      PROVE  StoreTypeOK'
  <2>1. [kind |-> "ResourceLinked", activity |-> a, resource |-> r] \in Signal
    BY DEF Signal
  <2>2. Rest'
    BY <1>0, <1>5 DEF LinkResource
  <2>3. bus' \in Seq(Signal)
    BY <1>0, <1>5, <2>1, AnnounceTyped DEF LinkResource
  <2>. QED  BY <2>2, <2>3 DEF StoreTypeOK
<1>6. ASSUME NEW a \in Activity, NEW r \in Resource, UnlinkResource(a, r)
      PROVE  StoreTypeOK'
  <2>1. [kind |-> "ResourceUnlinked", activity |-> a, resource |-> r] \in Signal
    BY DEF Signal
  <2>2. Rest'
    BY <1>0, <1>6 DEF UnlinkResource
  <2>3. bus' \in Seq(Signal)
    BY <1>0, <1>6, <2>1, AnnounceTyped DEF UnlinkResource
  <2>. QED  BY <2>2, <2>3 DEF StoreTypeOK
<1>7. ASSUME NEW a \in Activity, SwitchActivity(a)
      PROVE  StoreTypeOK'
  <2>1. [kind |-> "CurrentActivityChanged", activity |-> a] \in Signal
    BY DEF Signal
  <2>2. Rest'
    BY <1>0, <1>7 DEF SwitchActivity
  <2>3. bus' \in Seq(Signal)
    BY <1>0, <1>7, <2>1, AnnounceTyped DEF SwitchActivity
  <2>. QED  BY <2>2, <2>3 DEF StoreTypeOK
<1>. QED  BY <1>1, <1>2, <1>3, <1>4, <1>5, <1>6, <1>7 DEF Manager

\* The manager gets to a call.
LEMMA ForgetTyped ==
    ASSUME StoreTypeOK, NEW tag \in {Any, CurrentTag}, NEW r \in Resource, ForgetResource(tag, r)
    PROVE  StoreTypeOK'
<1>1. [kind |-> "ResourceScoreDeleted", activity |-> tag, resource |-> r] \in Signal
  BY DEF Signal
<1>2. stats' \in [Activity -> [Resource -> Score]]
  BY DeletedTyped DEF ForgetResource
<1>3. bus' \in Seq(Signal)
  BY <1>1 DEF ForgetResource, Announce, StoreTypeOK
<1>. QED  BY <1>2, <1>3 DEF StoreTypeOK, ForgetResource

\* An announcement is taken from the bus.
LEMMA ReceiveTyped ==
    ASSUME StoreTypeOK, Receive
    PROVE  StoreTypeOK' /\ NextSignal \in Signal
<1>1. NextSignal \in Signal /\ Tail(bus) \in Seq(Signal)
  BY DEF StoreTypeOK, Receive, NextSignal
<1>. QED  BY <1>1 DEF StoreTypeOK, Receive

-------------------------------------------------------------------------------
(***************************************************************************)
(* What the handlers do to the rows.                                       *)
(***************************************************************************)
RowsTyped == items \in Seq(Item) /\ hasMore \in BOOLEAN /\ checks \subseteq SUBSET Resource

OrdersTyped == /\ fixed \in Seq(Resource)
               /\ DOMAIN config \subseteq Activity \cup {Any}
               /\ \A t \in DOMAIN config : config[t] \in Seq(Resource)

\* The order that a reset uses and saves.
LEMMA LoadedOrderTyped ==
    ASSUME OrdersTyped, WatcherTypeOK, NEW cur \in Activity
    PROVE  /\ LoadedOrder(ActivityTag(cur)) \in Seq(Resource)
           /\ \A order \in Seq(Resource) :
                 /\ DOMAIN SavedOrder(ActivityTag(cur), order) \subseteq Activity \cup {Any}
                 /\ \A t \in DOMAIN SavedOrder(ActivityTag(cur), order) :
                       SavedOrder(ActivityTag(cur), order)[t] \in Seq(Resource)
<1>1. ActivityTag(cur) \in Activity \cup {Any}
  BY QueryTypes
<1>2. LoadedOrder(ActivityTag(cur)) \in Seq(Resource)
  BY DEF LoadedOrder, OrdersTyped
<1>. QED  BY <1>1, <1>2 DEF SavedOrder, OrdersTyped

\* A reset lists at most the limit.
LEMMA ResetKeeps ==
    ASSUME TypeInv, NEW cur \in Activity, FetchReset(cur)
    PROVE  RowsTyped' /\ OrdersTyped' /\ Len(items') <= Limit
<1>. DEFINE tag == ActivityTag(cur)
            order == LoadedOrder(tag)
            none == <<>>
            count == Lesser(Batch, Limit)
<1>1. OrdersTyped /\ WatcherTypeOK
  BY DEF TypeInv, OrdersTyped
<1>2. order \in Seq(Resource)
  BY <1>1, LoadedOrderTyped
<1>3. OrdersTyped'
  <2>1. /\ DOMAIN SavedOrder(tag, order) \subseteq Activity \cup {Any}
        /\ \A t \in DOMAIN SavedOrder(tag, order) : SavedOrder(tag, order)[t] \in Seq(Resource)
    BY <1>1, <1>2, LoadedOrderTyped
  <2>2. fixed' = order /\ config' = IF query.client THEN SavedOrder(tag, order) ELSE config
    BY DEF FetchReset
  <2>. HIDE DEF order, tag
  <2>. QED  BY <1>1, <1>2, <2>1, <2>2 DEF OrdersTyped
<1>4. none \in Seq(Item) /\ 0 \in 0 .. Len(none) /\ Len(none) = 0 /\ count \in Nat /\ Limit \in Nat
  BY <1>1, QueryTypes DEF Lesser
<1>5. FetchRows(none, 0, count, cur, order)
  BY DEF FetchReset
<1>. HIDE DEF none, count, order
<1>6. /\ items' \in Seq(Item) /\ hasMore' \in BOOLEAN /\ checks' \subseteq SUBSET Resource
      /\ items' = none \/ Len(items') <= Limit
  BY <1>2, <1>4, <1>5, FetchKeeps
<1>. QED  BY <1>3, <1>4, <1>6 DEF RowsTyped

\* So does a reload.
LEMMA ReloadKeeps ==
    ASSUME TypeInv, BoundedRows, FetchReload
    PROVE  RowsTyped' /\ OrdersTyped' /\ Len(items') <= Limit
<1>1. CASE Len(items) > Batch
  <2>1. FetchReset(current) /\ current \in Activity
    BY <1>1 DEF FetchReload, TypeInv, WatcherTypeOK
  <2>. QED  BY <2>1, ResetKeeps
<1>2. CASE ~(Len(items) > Batch)
  <2>1. FetchRows(items, 0, Len(items), current, fixed) /\ UNCHANGED <<fixed, config>>
    BY <1>2 DEF FetchReload
  <2>2. /\ items \in Seq(Item) /\ 0 \in 0 .. Len(items) /\ Len(items) \in Nat
        /\ current \in Activity /\ fixed \in Seq(Resource)
    BY DEF TypeInv, WatcherTypeOK
  <2>3. /\ items' \in Seq(Item) /\ hasMore' \in BOOLEAN /\ checks' \subseteq SUBSET Resource
        /\ items' = items \/ Len(items') <= Limit
    BY <2>1, <2>2, FetchKeeps
  <2>4. OrdersTyped'
    BY <2>1 DEF TypeInv, OrdersTyped
  <2>. QED  BY <2>3, <2>4 DEF RowsTyped, BoundedRows
<1>. QED  BY <1>1, <1>2

\* A new row is put in, and the last rows go when there is no room: which costs a
\* resource its place only in a full list.
LEMMA NewRowKeeps ==
    ASSUME TypeInv, BoundedRows, NEW x \in Item
    PROVE  /\ TrimTo(WithNewRow(x), Limit) \in Seq(Item)
           /\ Len(TrimTo(WithNewRow(x), Limit)) <= Limit
           /\ \/ Len(items) = Limit
              \/ \A j \in 1 .. Len(items) :
                    \E k \in 1 .. Len(TrimTo(WithNewRow(x), Limit)) :
                        TrimTo(WithNewRow(x), Limit)[k] = items[j]
<1>. DEFINE dest == DestinationFor(items, x, fixed)
            more == WithNewRow(x)
            t == TrimTo(more, Limit)
            n == Len(items)
<1>1. /\ items \in Seq(Item) /\ fixed \in Seq(Resource) /\ n \in Nat
      /\ Limit \in Nat \ {0} /\ n <= Limit
  BY QueryTypes DEF TypeInv, BoundedRows
<1>2. dest \in 0 .. n
  BY <1>1, DestinationInside
<1>3. more = RowsInserted(items, dest, <<x>>)
  BY DEF WithNewRow
<1>. HIDE DEF dest, more
<1>4. /\ more \in Seq(Item) /\ Len(more) = n + 1
      /\ \A p \in 1 .. dest : more[p] = items[p]
      /\ \A p \in dest + 1 .. n : more[p + 1] = items[p]
  <2>1. items \in Seq(Item) /\ dest \in 0 .. Len(items) /\ x \in Item
    BY <1>1, <1>2
  <2>2. RowsInserted(items, dest, <<x>>) \in Seq(Item)
    BY ONLY <2>1, InsertedRow
  <2>3. Len(RowsInserted(items, dest, <<x>>)) = Len(items) + 1
    BY ONLY <2>1, InsertedRow
  <2>4. \A p \in 1 .. dest : RowsInserted(items, dest, <<x>>)[p] = items[p]
    BY ONLY <2>1, InsertedRow
  <2>5. \A p \in dest + 1 .. Len(items) : RowsInserted(items, dest, <<x>>)[p + 1] = items[p]
    BY ONLY <2>1, InsertedRow
  <2>. QED  BY <1>3, <2>2, <2>3, <2>4, <2>5
<1>5. /\ t \in Seq(Item) /\ Len(t) = IF Len(more) <= Limit THEN Len(more) ELSE Limit
      /\ \A p \in 1 .. Len(t) : t[p] = more[p]
  <2>1. more \in Seq(Item) /\ Limit \in Nat
    BY <1>1, <1>4
  <2>2. t \in Seq(Item)
    BY ONLY <2>1, TrimmedRows
  <2>3. Len(t) = IF Len(more) <= Limit THEN Len(more) ELSE Limit
    BY ONLY <2>1, TrimmedRows
  <2>4. \A p \in 1 .. Len(t) : t[p] = more[p]
    BY ONLY <2>1, TrimmedRows
  <2>. QED  BY ONLY <2>2, <2>3, <2>4
<1>. HIDE DEF t, n
<1>6. Len(t) <= Limit
  BY <1>1, <1>4, <1>5
<1>7. ASSUME n # Limit, NEW j \in 1 .. n
      PROVE  \E k \in 1 .. Len(t) : t[k] = items[j]
  <2>1. Len(t) = n + 1
    BY <1>1, <1>4, <1>5, <1>7
  <2>2. CASE j <= dest
    <3>1. j \in 1 .. Len(t) /\ j \in 1 .. dest
      BY <1>1, <1>2, <2>1, <2>2
    <3>. QED  BY <1>4, <1>5, <3>1
  <2>3. CASE ~(j <= dest)
    <3>1. j + 1 \in 1 .. Len(t) /\ j \in dest + 1 .. n
      BY <1>1, <1>2, <2>1, <2>3
    <3>. QED  BY <1>4, <1>5, <3>1
  <2>. QED  BY <2>2, <2>3
<1>. QED  BY <1>5, <1>6, <1>7 DEF t, more, n

\* A score that is shown takes away no row from a list that has room.
LEMMA ShowScoreKeeps ==
    ASSUME TypeInv, BoundedRows, NEW r \in Resource, NEW score \in Nat, ShowScore(r, score)
    PROVE  /\ items' \in Seq(Item) /\ Len(items') <= Limit
           /\ UNCHANGED <<hasMore, fixed, config, checks>>
           /\ \/ \A j \in 1 .. Len(items) :
                    \E k \in 1 .. Len(items') : items'[k].resource = items[j].resource
              \/ Find(items, r) = {} /\ Len(items) = Limit
<1>1. items \in Seq(Item) /\ fixed \in Seq(Resource)
  BY DEF TypeInv
<1>2. UNCHANGED <<hasMore, fixed, config, checks>>
  BY DEF ShowScore
<1>3. CASE \E row \in Find(items, r) : items' = Reposition(row, score)
  <2>1. PICK row \in Find(items, r) : items' = Reposition(row, score)
    BY <1>3
  <2>2. row \in Rows(items)
    BY <1>1, FoundRows
  <2>3. /\ Reposition(row, score) \in Seq(Item)
        /\ Len(Reposition(row, score)) = Len(items)
        /\ \A j \in 1 .. Len(items) :
              \E k \in 1 .. Len(items) : Reposition(row, score)[k].resource = items[j].resource
    BY <1>1, <2>2, RepositionKeeps
  <2>. QED  BY <1>2, <2>1, <2>3 DEF BoundedRows
<1>4. CASE Find(items, r) = {} /\ items' = TrimTo(WithNewRow(NewRow(r, score)), Limit)
  <2>. DEFINE x == NewRow(r, score)
  <2>1. x \in Item
    BY DEF NewRow, Item, LinkStatus, Linked, Unknown, NotLinked
  <2>. HIDE DEF x
  <2>2. /\ items' \in Seq(Item) /\ Len(items') <= Limit
        /\ \/ Len(items) = Limit
           \/ \A j \in 1 .. Len(items) : \E k \in 1 .. Len(items') : items'[k] = items[j]
    <3>1. items' = TrimTo(WithNewRow(x), Limit)
      BY <1>4 DEF x
    <3>. QED  BY <2>1, <3>1, NewRowKeeps
  <2>3. \/ \A j \in 1 .. Len(items) :
              \E k \in 1 .. Len(items') : items'[k].resource = items[j].resource
        \/ Len(items) = Limit
    BY <2>2
  <2>. QED  BY <1>2, <1>4, <2>2, <2>3
<1>. QED  BY <1>3, <1>4 DEF ShowScore

\* A row that is removed is the only one that goes: the refill adds at most one.
LEMMA RemoveRowKeeps ==
    ASSUME TypeInv, BoundedRows, NEW row \in Rows(items), RemoveRow(row)
    PROVE  /\ RowsTyped' /\ Len(items') <= Limit /\ UNCHANGED <<fixed, config>>
           /\ \A j \in 1 .. Len(items) :
                 j # row + 1 => \E k \in 1 .. Len(items') : items'[k] = items[j]
<1>. DEFINE n == Len(items)
            rows == RowsRemoved(items, row, row)
<1>1. /\ items \in Seq(Item) /\ n \in Nat /\ n <= Limit /\ Limit \in Nat /\ row \in 0 .. n - 1
      /\ current \in Activity /\ fixed \in Seq(Resource)
      /\ hasMore \in BOOLEAN /\ checks \subseteq SUBSET Resource
  BY QueryTypes DEF TypeInv, BoundedRows, Rows, WatcherTypeOK
<1>2. /\ rows \in Seq(Item) /\ Len(rows) = n - 1
      /\ \A p \in 1 .. n - 1 : rows[p] = IF p <= row THEN items[p] ELSE items[p + 1]
  <2>. DEFINE last == row
  <2>1. /\ row \in 0 .. n /\ last \in Int /\ row - 1 <= last /\ last < n /\ last - row + 1 = 1
    BY <1>1
  <2>. HIDE DEF last
  <2>2. /\ RowsRemoved(items, row, last) \in Seq(Item)
        /\ Len(RowsRemoved(items, row, last)) = n - (last - row + 1)
        /\ \A p \in 1 .. n - (last - row + 1) :
              RowsRemoved(items, row, last)[p] = IF p <= row THEN items[p] ELSE items[p + (last - row + 1)]
    <3>1. /\ items \in Seq(Item) /\ row \in 0 .. Len(items)
          /\ last \in Int /\ row - 1 <= last /\ last < Len(items)
      BY <1>1, <2>1
    <3>. QED  BY ONLY <3>1, RemovedRows
  <2>3. rows = RowsRemoved(items, row, last)
    BY DEF last
  <2>. HIDE DEF rows, n
  <2>. QED  BY <2>1, <2>2, <2>3
<1>. HIDE DEF rows, n
<1>3. ASSUME NEW j \in 1 .. n, j # row + 1
      PROVE  \E k \in 1 .. n - 1 : rows[k] = items[j]
  <2>1. CASE j <= row
    <3>1. j \in 1 .. n - 1
      BY <1>1, <2>1
    <3>. QED  BY <1>2, <2>1, <3>1
  <2>2. CASE ~(j <= row)
    <3>1. j - 1 \in 1 .. n - 1 /\ ~(j - 1 <= row) /\ j - 1 + 1 = j
      BY <1>1, <1>3, <2>2
    <3>. QED  BY <1>2, <3>1
  <2>. QED  BY <2>1, <2>2
<1>4. UNCHANGED <<fixed, config>>
  BY DEF RemoveRow
<1>5. /\ RowsTyped' /\ Len(items') <= Limit /\ n - 1 <= Len(items')
      /\ \A p \in 1 .. n - 1 : items'[p] = rows[p]
  <2>1. CASE query.selection = "LinkedResources"
    <3>1. items' = rows /\ UNCHANGED <<hasMore, checks>>
      BY <2>1 DEF RemoveRow, rows
    <3>. QED  BY <1>1, <1>2, <3>1 DEF RowsTyped
  <2>2. CASE query.selection # "LinkedResources"
    <3>1. FetchRows(rows, Len(rows), 1, current, fixed)
      BY <2>2 DEF RemoveRow, rows
    <3>2. Len(rows) \in 0 .. Len(rows) /\ 1 \in Nat
      BY <1>1, <1>2
    <3>3. /\ items' \in Seq(Item) /\ hasMore' \in BOOLEAN /\ checks' \subseteq SUBSET Resource
          /\ Len(rows) <= Len(items') /\ \A p \in 1 .. Len(rows) : items'[p] = rows[p]
          /\ items' = rows \/ Len(items') <= Limit
      BY <1>1, <1>2, <3>1, <3>2, FetchKeeps
    <3>. QED  BY <1>1, <1>2, <3>3 DEF RowsTyped
  <2>. QED  BY <2>1, <2>2
<1>6. ASSUME NEW j \in 1 .. n, j # row + 1
      PROVE  \E k \in 1 .. Len(items') : items'[k] = items[j]
  <2>1. PICK k \in 1 .. n - 1 : rows[k] = items[j]
    BY <1>3, <1>6
  <2>2. k \in 1 .. Len(items')
    BY <1>1, <1>5 DEF RowsTyped
  <2>. QED  BY <1>5, <2>1, <2>2
<1>. QED  BY <1>4, <1>5, <1>6 DEF n

-------------------------------------------------------------------------------
(***************************************************************************)
(* Every step keeps the types and the limit.                               *)
(***************************************************************************)
\* A new model shows a first page of its query.
LEMMA InitKeeps == Init => IInv
<1>1. SUFFICES ASSUME Init PROVE IInv
  OBVIOUS
<1>2. bus \in Seq(Signal)
  BY <1>1 DEF Init
<1>3. StoreTypeOK /\ WatcherTypeOK
  BY <1>1, <1>2 DEF Init, StoreTypeOK, WatcherTypeOK
<1>4. PICK result \in Results(current) :
         /\ items = SubSeq(result, 1, Lesser(Lesser(Batch, Limit), Len(result)))
         /\ hasMore = MoreBehind(result, Lesser(Batch, Limit))
         /\ checks = LET gone == {items[k].resource : k \in DOMAIN items} \cap Missing
                     IN IF gone = {} THEN {} ELSE {gone}
  BY <1>1, Zenon DEF Init
<1>5. current \in Activity /\ Batch \in Nat /\ Limit \in Nat
  BY <1>3, QueryTypes DEF WatcherTypeOK
<1>6. result \in Seq(Item)
  BY <1>3, <1>5, ResultLists
<1>. DEFINE n == Lesser(Batch, Limit)
<1>7. n \in Nat /\ n <= Limit
  BY <1>5 DEF Lesser
<1>. HIDE DEF n
<1>8. items \in Seq(Item) /\ Len(items) = Lesser(n, Len(result))
  BY <1>4, <1>6, <1>7, PageRows DEF n
<1>9. Len(items) <= Limit
  BY <1>5, <1>6, <1>7, <1>8 DEF Lesser
<1>10. hasMore \in BOOLEAN
  BY <1>4 DEF MoreBehind
<1>11. checks \subseteq SUBSET Resource
  <2>. DEFINE gone == {items[k].resource : k \in DOMAIN items} \cap Missing
  <2>1. \A k \in DOMAIN items : items[k] \in Item
    BY <1>8
  <2>2. gone \in SUBSET Resource
    <3>1. \A x \in Item : x.resource \in Resource
      BY DEF Item
    <3>. QED  BY <2>1, <3>1
  <2>3. checks = IF gone = {} THEN {} ELSE {gone}
    BY <1>4
  <2>. HIDE DEF gone
  <2>. QED  BY <2>2, <2>3
<1>12. fixed \in Seq(Resource) /\ calls \subseteq Resource
  BY <1>1 DEF Init
<1>13. /\ DOMAIN config \subseteq Activity \cup {Any}
       /\ \A t \in DOMAIN config : config[t] \in Seq(Resource)
  <2>1. ActivityTag(current) \in Activity \cup {Any}
    BY <1>3, <1>5, QueryTypes
  <2>2. config = IF query.client THEN [t \in {ActivityTag(current)} |-> <<>>] ELSE <<>>
    BY <1>1 DEF Init
  <2>. QED  BY <2>1, <2>2
<1>. QED  BY <1>3, <1>8, <1>9, <1>10, <1>11, <1>12, <1>13 DEF IInv, TypeInv, BoundedRows

\* The parts of the invariant.
LEMMA PartsOfInvariant ==
    IInv => /\ TypeInv /\ BoundedRows /\ StoreTypeOK /\ WatcherTypeOK /\ RowsTyped /\ OrdersTyped
            /\ calls \subseteq Resource
BY DEF IInv, TypeInv, RowsTyped, OrdersTyped

\* And the parts make it up.
LEMMA InvariantOfParts ==
    ASSUME StoreTypeOK', WatcherTypeOK', RowsTyped', OrdersTyped', calls' \subseteq Resource,
           Len(items') <= Limit, query' = query
    PROVE  IInv'
BY DEF IInv, TypeInv, RowsTyped, OrdersTyped, BoundedRows, Limit

\* A handler of an announcement that leaves the rows and the orders typed.
LEMMA HandlerKeeps ==
    ASSUME IInv, Receive, current' \in Activity, timer' \in BOOLEAN,
           RowsTyped', OrdersTyped', Len(items') <= Limit
    PROVE  IInv'
<1>1. StoreTypeOK'
  BY PartsOfInvariant, ReceiveTyped
<1>2. WatcherTypeOK' /\ query' = query /\ calls' \subseteq Resource
  BY PartsOfInvariant DEF Receive, WatcherTypeOK
<1>. QED  BY <1>1, <1>2, InvariantOfParts

\* One that leaves them alone.
LEMMA SameRowsKeep ==
    ASSUME IInv, UNCHANGED modelVars
    PROVE  RowsTyped' /\ OrdersTyped' /\ Len(items') <= Limit
BY PartsOfInvariant DEF modelVars, RowsTyped, OrdersTyped, BoundedRows

\* The handlers' common parts keep the types.
LEMMA ShowScoreTyped ==
    ASSUME IInv, NEW r \in Resource, NEW score \in Nat, ShowScore(r, score)
    PROVE  RowsTyped' /\ OrdersTyped' /\ Len(items') <= Limit
BY PartsOfInvariant, ShowScoreKeeps DEF RowsTyped, OrdersTyped

\* So does the removal of a row.
LEMMA RemoveRowTyped ==
    ASSUME IInv, NEW row \in Rows(items), RemoveRow(row)
    PROVE  RowsTyped' /\ OrdersTyped' /\ Len(items') <= Limit
BY PartsOfInvariant, RemoveRowKeeps DEF OrdersTyped

\* Each handler.
LEMMA HandlersKeep == ASSUME IInv, ModelStep PROVE IInv'
<1>0. /\ TypeInv /\ BoundedRows /\ StoreTypeOK /\ WatcherTypeOK /\ RowsTyped /\ OrdersTyped
      /\ calls \subseteq Resource
  BY PartsOfInvariant
<1>1. current \in Activity /\ timer \in BOOLEAN /\ items \in Seq(Item)
  BY <1>0 DEF WatcherTypeOK, RowsTyped
<1>2. Receive => NextSignal \in Signal
  BY <1>0, ReceiveTyped
<1>3. CASE OnResultScoreUpdated
  <2>1. Receive /\ ShowScore(NextSignal.resource, NextSignal.score) /\ UNCHANGED <<current, timer>>
    BY <1>3 DEF OnResultScoreUpdated
  <2>2. NextSignal.resource \in Resource /\ NextSignal.score \in Nat
    BY <1>2, <1>3, <2>1, SignalFields DEF OnResultScoreUpdated, SendsResultScoreUpdated
  <2>3. RowsTyped' /\ OrdersTyped' /\ Len(items') <= Limit
    BY <2>1, <2>2, ShowScoreTyped
  <2>. QED  BY <1>1, <2>1, <2>3, HandlerKeeps
<1>4. CASE OnResultRemoved
  <2>1. Receive /\ UNCHANGED <<current, timer>>
    BY <1>4 DEF OnResultRemoved
  <2>2. \/ \E row \in Rows(items) : RemoveRow(row)
        \/ UNCHANGED modelVars
    BY <1>1, <1>4, FoundRows DEF OnResultRemoved
  <2>3. RowsTyped' /\ OrdersTyped' /\ Len(items') <= Limit
    BY <2>2, RemoveRowTyped, SameRowsKeep
  <2>. QED  BY <1>1, <2>1, <2>3, HandlerKeeps
<1>5. CASE OnResultLinked
  <2>1. Receive /\ ShowScore(NextSignal.resource, 0) /\ UNCHANGED <<current, timer>>
    BY <1>5 DEF OnResultLinked
  <2>2. NextSignal.resource \in Resource /\ 0 \in Nat
    BY <1>2, <1>5, <2>1, SignalFields DEF OnResultLinked, SendsResultLinked
  <2>3. RowsTyped' /\ OrdersTyped' /\ Len(items') <= Limit
    BY <2>1, <2>2, ShowScoreTyped
  <2>. QED  BY <1>1, <2>1, <2>3, HandlerKeeps
<1>6. CASE OnResultUnlinked
  <2>1. Receive /\ UNCHANGED <<current, timer>>
    BY <1>6 DEF OnResultUnlinked
  <2>2. \/ \E row \in Rows(items) : RemoveRow(row)
        \/ UNCHANGED modelVars
        \/ FetchReload
    BY <1>1, <1>6, FoundRows DEF OnResultUnlinked
  <2>3. RowsTyped' /\ OrdersTyped' /\ Len(items') <= Limit
    BY <1>0, <2>2, RemoveRowTyped, SameRowsKeep, ReloadKeeps
  <2>. QED  BY <1>1, <2>1, <2>3, HandlerKeeps
<1>7. CASE OnInvalidation
  <2>1. Receive /\ current' = current /\ timer' = TRUE /\ UNCHANGED modelVars
    BY <1>7 DEF OnInvalidation, modelVars
  <2>. QED  BY <1>1, <2>1, SameRowsKeep, HandlerKeeps
<1>8. CASE OnCurrentActivityChanged
  <2>1. Receive /\ current' = NextSignal.activity /\ timer' = timer
    BY <1>8 DEF OnCurrentActivityChanged
  <2>2. current' \in Activity
    BY <1>2, <1>8, <2>1, SignalFields DEF OnCurrentActivityChanged
  <2>3. FetchReset(current') \/ UNCHANGED modelVars
    BY <1>8 DEF OnCurrentActivityChanged
  <2>4. RowsTyped' /\ OrdersTyped' /\ Len(items') <= Limit
    BY <1>0, <2>2, <2>3, ResetKeeps, SameRowsKeep
  <2>. QED  BY <1>1, <2>1, <2>2, <2>4, HandlerKeeps
<1>9. CASE OnDropped
  <2>1. Receive /\ UNCHANGED <<current, timer>> /\ UNCHANGED modelVars
    BY <1>9 DEF OnDropped, modelVars
  <2>. QED  BY <1>1, <2>1, SameRowsKeep, HandlerKeeps
<1>10. CASE OnResultsInvalidated
  <2>1. /\ FetchReload /\ timer' = FALSE
        /\ UNCHANGED <<stats, links, activity, bus, query, current, calls>>
    BY <1>10 DEF OnResultsInvalidated
  <2>2. RowsTyped' /\ OrdersTyped' /\ Len(items') <= Limit
    BY <1>0, <2>1, ReloadKeeps
  <2>3. StoreTypeOK' /\ WatcherTypeOK' /\ calls' \subseteq Resource
    BY <1>0, <2>1 DEF StoreTypeOK, WatcherTypeOK
  <2>. QED  BY <2>1, <2>2, <2>3, InvariantOfParts
<1>11. ASSUME NEW gone \in checks, ForgetMissing(gone)
       PROVE  IInv'
  <2>1. gone \in SUBSET Resource
    BY <1>0 DEF RowsTyped
  <2>2. calls' \subseteq Resource
    BY <1>0, <1>11, <2>1 DEF ForgetMissing
  <2>3. StoreTypeOK' /\ WatcherTypeOK' /\ OrdersTyped' /\ query' = query
    BY <1>0, <1>11 DEF ForgetMissing, StoreTypeOK, WatcherTypeOK, OrdersTyped
  <2>4. RowsTyped' /\ Len(items') <= Limit
    BY <1>0, <1>11 DEF ForgetMissing, RowsTyped, BoundedRows
  <2>. QED  BY <2>2, <2>3, <2>4, InvariantOfParts
<1>. QED  BY <1>3, <1>4, <1>5, <1>6, <1>7, <1>8, <1>9, <1>10, <1>11 DEF ModelStep

-------------------------------------------------------------------------------
(***************************************************************************)
(* The program's requests, and every step together.                        *)
(***************************************************************************)
\* A row moved to where an order has it: the same rows.
LEMMA MovedResult ==
    ASSUME items \in Seq(Item), NEW row \in Rows(items), NEW order \in Seq(Resource),
           items' = MoveOne(items, row, DestinationFor(items, items[row + 1], order))
    PROVE  /\ items' \in Seq(Item) /\ Len(items') = Len(items)
           /\ \A j \in 1 .. Len(items) : \E k \in 1 .. Len(items') : items'[k] = items[j]
<1>. DEFINE dest == DestinationFor(items, items[row + 1], order)
<1>1. row + 1 \in 1 .. Len(items) /\ items[row + 1] \in Item
  BY DEF Rows
<1>2. dest \in Rows(items)
  BY <1>1, DestinationInside
<1>3. items' = MoveOne(items, row, dest)
  OBVIOUS
<1>. HIDE DEF dest
<1>4. /\ MoveOne(items, row, dest) \in Seq(Item) /\ Len(MoveOne(items, row, dest)) = Len(items)
      /\ \A j \in 1 .. Len(items) : \E k \in 1 .. Len(items) : MoveOne(items, row, dest)[k] = items[j]
  BY <1>2, MovedRowAt, MovedRowsDiffer
<1>. QED  BY <1>3, <1>4

\* A new order comes into use and is saved.
LEMMA OrderInUse ==
    ASSUME IInv, NEW order \in Seq(Resource), UseOrder(order),
           items' \in Seq(Item), Len(items') <= Limit
    PROVE  IInv'
<1>1. StoreTypeOK /\ WatcherTypeOK /\ RowsTyped /\ OrdersTyped /\ calls \subseteq Resource
  BY PartsOfInvariant
<1>2. current \in Activity
  BY <1>1 DEF WatcherTypeOK
<1>3. OrdersTyped'
  <2>1. /\ DOMAIN SavedOrder(ActivityTag(current), order) \subseteq Activity \cup {Any}
        /\ \A t \in DOMAIN SavedOrder(ActivityTag(current), order) :
              SavedOrder(ActivityTag(current), order)[t] \in Seq(Resource)
    BY <1>1, <1>2, LoadedOrderTyped
  <2>2. fixed' = order /\ config' = SavedOrder(ActivityTag(current), order)
    BY DEF UseOrder
  <2>. QED  BY <2>1, <2>2 DEF OrdersTyped
<1>4. RowsTyped'
  BY <1>1 DEF UseOrder, RowsTyped
<1>5. StoreTypeOK' /\ WatcherTypeOK' /\ calls' \subseteq Resource /\ query' = query
  BY <1>1 DEF UseOrder, StoreTypeOK, WatcherTypeOK
<1>. QED  BY <1>3, <1>4, <1>5, InvariantOfParts

\* The order that a request asks for names resources.
LEMMA OrderAskedFor ==
    ASSUME items \in Seq(Item), NEW position \in Nat
    PROVE  /\ \A row \in Nat : row < Len(LinkedItems) => OrderWith(row, position) \in Seq(Resource)
           /\ \A r \in Resource : position <= Len(LinkedItems) =>
                 RowsInserted(LinkedItems, position, <<r>>) \in Seq(Resource)
<1>1. LinkedItems \in Seq(Resource)
  BY LinkedItemsFirst
<1>2. ASSUME NEW row \in Nat, row < Len(LinkedItems)
      PROVE  OrderWith(row, position) \in Seq(Resource)
  <2>1. row \in Rows(LinkedItems) /\ Lesser(position, Len(LinkedItems) - 1) \in Rows(LinkedItems)
    BY <1>1, <1>2 DEF Rows, Lesser
  <2>2. MoveOne(LinkedItems, row, Lesser(position, Len(LinkedItems) - 1)) \in Seq(Resource)
    BY ONLY <1>1, <2>1, MovedRowAt
  <2>. QED  BY <2>2 DEF OrderWith
<1>3. ASSUME NEW r \in Resource, position <= Len(LinkedItems)
      PROVE  RowsInserted(LinkedItems, position, <<r>>) \in Seq(Resource)
  <2>1. position \in 0 .. Len(LinkedItems)
    BY <1>1, <1>3
  <2>. QED  BY ONLY <1>1, <1>3, <2>1, InsertedRow
<1>. QED  BY <1>2, <1>3

\* setResultPosition for a listed row.
LEMMA MoveResultKeeps ==
    ASSUME IInv, NEW r \in Resource, NEW position \in 0 .. Limit - 1, MoveResult(r, position)
    PROVE  /\ IInv'
           /\ \A j \in 1 .. Len(items) : \E k \in 1 .. Len(items') : items'[k] = items[j]
<1>1. items \in Seq(Item) /\ Len(items) <= Limit /\ position \in Nat
  BY PartsOfInvariant DEF RowsTyped, BoundedRows
<1>2. PICK row \in Movable(r, position) :
         /\ items' = MoveOne(items, row, DestinationFor(items, items[row + 1], OrderWith(row, position)))
         /\ UseOrder(OrderWith(row, position))
  BY DEF MoveResult
<1>3. row \in Rows(items) /\ row \in Nat /\ row < Len(LinkedItems)
  BY <1>1, <1>2, FoundRows DEF Movable, Rows
<1>. DEFINE order == OrderWith(row, position)
<1>4. order \in Seq(Resource)
  BY <1>1, <1>3, OrderAskedFor
<1>5. items' = MoveOne(items, row, DestinationFor(items, items[row + 1], order)) /\ UseOrder(order)
  BY <1>2
<1>. HIDE DEF order
<1>6. /\ items' \in Seq(Item) /\ Len(items') = Len(items)
      /\ \A j \in 1 .. Len(items) : \E k \in 1 .. Len(items') : items'[k] = items[j]
  BY <1>1, <1>3, <1>4, <1>5, MovedResult
<1>7. IInv'
  BY <1>1, <1>4, <1>5, <1>6, OrderInUse
<1>. QED  BY <1>6, <1>7

\* setResultPosition for a resource that is not listed.
LEMMA PlaceResultKeeps ==
    ASSUME IInv, NEW r \in Resource, NEW position \in 0 .. Limit - 1, PlaceResult(r, position)
    PROVE  IInv'
<1>1. items \in Seq(Item) /\ Len(items) <= Limit /\ position \in Nat /\ items' = items
  BY PartsOfInvariant DEF RowsTyped, BoundedRows, PlaceResult
<1>2. position <= Len(LinkedItems) /\ UseOrder(RowsInserted(LinkedItems, position, <<r>>))
  BY DEF PlaceResult
<1>3. RowsInserted(LinkedItems, position, <<r>>) \in Seq(Resource)
  BY <1>1, <1>2, OrderAskedFor
<1>4. items' \in Seq(Item) /\ Len(items') <= Limit
  BY <1>1
<1>. QED  BY ONLY IInv, <1>2, <1>3, <1>4, OrderInUse

\* fetchMore: the rows listed so far stay where they are.
LEMMA FetchMoreKeeps ==
    ASSUME IInv, FetchMore
    PROVE  /\ IInv'
           /\ \A j \in 1 .. Len(items) : \E k \in 1 .. Len(items') : items'[k] = items[j]
<1>0. TypeInv /\ StoreTypeOK /\ WatcherTypeOK /\ OrdersTyped /\ RowsTyped /\ calls \subseteq Resource
  BY PartsOfInvariant
<1>1. /\ items \in Seq(Item) /\ Len(items) <= Limit /\ Batch \in Nat /\ Limit \in Nat
      /\ current \in Activity /\ fixed \in Seq(Resource)
  BY <1>0, PartsOfInvariant, QueryTypes DEF RowsTyped, BoundedRows, OrdersTyped
<1>2. FetchRows(items, Len(items), Batch, current, fixed)
  BY DEF FetchMore
<1>3. Len(items) \in 0 .. Len(items)
  BY <1>1
<1>4. /\ items' \in Seq(Item) /\ hasMore' \in BOOLEAN /\ checks' \subseteq SUBSET Resource
      /\ Len(items) <= Len(items') /\ \A p \in 1 .. Len(items) : items'[p] = items[p]
      /\ items' = items \/ Len(items') <= Limit
  BY <1>0, <1>1, <1>2, <1>3, FetchKeeps
<1>5. RowsTyped' /\ Len(items') <= Limit
  BY <1>1, <1>4 DEF RowsTyped
<1>6. StoreTypeOK' /\ WatcherTypeOK' /\ OrdersTyped' /\ calls' \subseteq Resource /\ query' = query
  BY <1>0 DEF FetchMore, StoreTypeOK, WatcherTypeOK, OrdersTyped
<1>7. IInv'
  BY <1>5, <1>6, InvariantOfParts
<1>8. ASSUME NEW j \in 1 .. Len(items)
      PROVE  \E k \in 1 .. Len(items') : items'[k] = items[j]
  <2>1. j \in 1 .. Len(items')
    BY <1>1, <1>4
  <2>. QED  BY <1>4, <2>1
<1>. QED  BY <1>7, <1>8

\* forgetResource asks the manager.
LEMMA ForgetRowKeeps ==
    ASSUME IInv, NEW row \in Rows(items), ForgetRow(row)
    PROVE  IInv' /\ items' = items
<1>0. StoreTypeOK /\ WatcherTypeOK /\ OrdersTyped /\ RowsTyped /\ calls \subseteq Resource /\ BoundedRows
  BY PartsOfInvariant
<1>1. row + 1 \in 1 .. Len(items)
  BY <1>0 DEF RowsTyped, Rows
<1>2. items[row + 1] \in Item
  BY <1>0, <1>1 DEF RowsTyped
<1>3. items[row + 1].resource \in Resource
  BY <1>2 DEF Item
<1>4. calls' \subseteq Resource
  BY <1>0, <1>3 DEF ForgetRow
<1>5. UNCHANGED <<stats, links, activity, bus, query, current, timer, items, hasMore, fixed, config, checks>>
  BY DEF ForgetRow, modelVars
<1>6. StoreTypeOK' /\ WatcherTypeOK' /\ OrdersTyped' /\ RowsTyped' /\ Len(items') <= Limit
  BY <1>0, <1>5 DEF StoreTypeOK, WatcherTypeOK, OrdersTyped, RowsTyped, BoundedRows
<1>. QED  BY <1>4, <1>5, <1>6, InvariantOfParts

\* The manager's steps do not touch the model.
LEMMA ManagerKeeps ==
    ASSUME IInv, ManagerStep \/ ManagerForgets
    PROVE  IInv' /\ items' = items
<1>0. StoreTypeOK /\ WatcherTypeOK /\ OrdersTyped /\ RowsTyped /\ calls \subseteq Resource /\ BoundedRows
  BY PartsOfInvariant
<1>1. UNCHANGED <<query, current, timer, items, hasMore, fixed, config, checks>>
  BY DEF ManagerStep, ManagerForgets
<1>2. WatcherTypeOK' /\ OrdersTyped' /\ RowsTyped' /\ Len(items') <= Limit
  BY <1>0, <1>1 DEF WatcherTypeOK, OrdersTyped, RowsTyped, BoundedRows
<1>3. StoreTypeOK' /\ calls' \subseteq Resource
  <2>1. CASE ManagerStep
    BY <1>0, <2>1, ManagerTyped DEF ManagerStep
  <2>2. CASE ManagerForgets
    <3>1. PICK r \in calls : ForgottenByManager(r)
      BY <2>2 DEF ManagerForgets
    <3>2. \E tag \in {Any, CurrentTag} : ForgetResource(tag, r)
      BY <3>1 DEF ForgottenByManager
    <3>3. r \in Resource /\ calls' \subseteq Resource
      BY <1>0, <3>1 DEF ForgottenByManager
    <3>. QED  BY <1>0, <3>2, <3>3, ForgetTyped
  <2>. QED  BY <2>1, <2>2
<1>. QED  BY <1>1, <1>2, <1>3, InvariantOfParts

\* Every step keeps the invariant.
LEMMA StepKeeps == IInv /\ [Next]_vars => IInv'
<1>1. SUFFICES ASSUME IInv, [Next]_vars PROVE IInv'
  OBVIOUS
<1>2. CASE ManagerStep \/ ManagerForgets
  BY <1>1, <1>2, ManagerKeeps
<1>3. CASE ModelStep
  BY <1>1, <1>3, HandlersKeep
<1>4. CASE ClientStep
  BY <1>1, <1>4, FetchMoreKeeps, MoveResultKeeps, PlaceResultKeeps, ForgetRowKeeps DEF ClientStep
<1>5. CASE UNCHANGED vars
  BY <1>1, <1>5 DEF vars, IInv, TypeInv, StoreTypeOK, WatcherTypeOK, BoundedRows, Limit
<1>. QED  BY <1>1, <1>2, <1>3, <1>4, <1>5 DEF Next

-------------------------------------------------------------------------------
(***************************************************************************)
(* What is shown about every result model.                                 *)
(***************************************************************************)
\* The invariant, for every set of activities and resources, every query and every
\* interleaving of the manager, the announcements and the program's requests.
THEOREM Invariant == Spec => []IInv
<1>. QED  BY InitKeeps, StepKeeps, PTL DEF Spec

\* The model never lists more rows than the query's limit, whatever announcements,
\* reloads, refills and further pages come in which order.
THEOREM RowsBounded == Spec => []BoundedRows
<1>1. IInv => BoundedRows
  BY DEF IInv
<1>. QED  BY <1>1, Invariant, PTL

\* The removal of a row costs no other resource its row.
LEMMA RemovedOnly ==
    ASSUME IInv, NEW r, NEW row \in Find(items, r), RemoveRow(row)
    PROVE  ShownResources \ ShownResources' \subseteq {r}
<1>1. TypeInv /\ BoundedRows /\ items \in Seq(Item)
  BY PartsOfInvariant DEF RowsTyped
<1>2. row \in Rows(items) /\ items[row + 1].resource = r
  BY <1>1, FoundRows
<1>3. \A j \in 1 .. Len(items) : j # row + 1 => \E k \in 1 .. Len(items') : items'[k] = items[j]
  BY <1>1, <1>2, RemoveRowKeeps
<1>. QED  BY <1>2, <1>3 DEF ShownResources

\* A resource leaves the list only because the announcement just processed is about it,
\* by a reset or a reload, or when a new row needs its place in a full list: no refill,
\* no further page and no request costs a row.
THEOREM RowsLeave == Spec => RowsLeaveForAReason
<1>. DEFINE Reason(r) ==
              \/ timer /\ ~timer'
              \/ bus # <<>> /\ \/ NextSignal.kind \in {"CurrentActivityChanged", "ResourceUnlinked"}
                               \/ NextSignal.kind = "ResourceScoreDeleted" /\ NextSignal.resource = r
                               \/ /\ NextSignal.kind \in {"ResourceScoreUpdated", "ResourceLinked"}
                                  /\ NextSignal.resource \notin ShownResources
                                  /\ Len(items) = Limit
            Kept == \A r \in ShownResources \ ShownResources' : Reason(r)
<1>1. ASSUME IInv, [Next]_vars
      PROVE  Kept
  <2>0. TypeInv /\ BoundedRows /\ items \in Seq(Item) /\ StoreTypeOK
    BY <1>1, PartsOfInvariant DEF RowsTyped
  <2>1. ASSUME \A j \in 1 .. Len(items) :
                  \E k \in 1 .. Len(items') : items'[k].resource = items[j].resource
        PROVE  Kept
    BY <2>1 DEF ShownResources
  <2>2. ASSUME items' = items
        PROVE  Kept
    BY <2>2 DEF ShownResources
  <2>3. ASSUME NEW score \in Nat, Receive, ShowScore(NextSignal.resource, score),
               NextSignal.kind \in {"ResourceScoreUpdated", "ResourceLinked"}
        PROVE  Kept
    <3>1. NextSignal.resource \in Resource /\ bus # <<>>
      BY <2>0, <2>3, ReceiveTyped, SignalFields DEF Receive
    <3>2. \/ \A j \in 1 .. Len(items) : \E k \in 1 .. Len(items') : items'[k].resource = items[j].resource
          \/ Find(items, NextSignal.resource) = {} /\ Len(items) = Limit
      BY <2>0, <2>3, <3>1, ShowScoreKeeps
    <3>3. ASSUME Find(items, NextSignal.resource) = {}
          PROVE  NextSignal.resource \notin ShownResources
      BY <2>0, <3>3, FoundRows DEF ShownResources
    <3>. QED  BY <2>1, <2>3, <3>1, <3>2, <3>3
  <2>4. CASE OnResultScoreUpdated \/ OnResultLinked
    <3>1. Receive /\ NextSignal.kind \in {"ResourceScoreUpdated", "ResourceLinked"}
      BY <2>4 DEF OnResultScoreUpdated, OnResultLinked, SendsResultScoreUpdated, SendsResultLinked
    <3>2. NextSignal.kind = "ResourceScoreUpdated" => NextSignal.score \in Nat
      BY <2>0, <3>1, ReceiveTyped, SignalFields
    <3>3. \/ NextSignal.kind = "ResourceScoreUpdated" /\ ShowScore(NextSignal.resource, NextSignal.score)
          \/ ShowScore(NextSignal.resource, 0)
      BY <2>4 DEF OnResultScoreUpdated, OnResultLinked, SendsResultScoreUpdated
    <3>. QED  BY <2>3, <3>1, <3>2, <3>3
  <2>5. CASE OnResultRemoved
    <3>1. /\ bus # <<>> /\ NextSignal.kind = "ResourceScoreDeleted"
          /\ \/ \E row \in Find(items, NextSignal.resource) : RemoveRow(row)
             \/ UNCHANGED modelVars
      BY <2>5 DEF OnResultRemoved, Receive, SendsResultRemoved
    <3>2. CASE UNCHANGED modelVars
      BY <2>2, <3>2 DEF modelVars
    <3>3. CASE \E row \in Find(items, NextSignal.resource) : RemoveRow(row)
      <4>1. ShownResources \ ShownResources' \subseteq {NextSignal.resource}
        BY <1>1, <3>3, RemovedOnly
      <4>. QED  BY <3>1, <4>1
    <3>. QED  BY <3>1, <3>2, <3>3
  <2>6. CASE OnResultUnlinked \/ OnCurrentActivityChanged
    BY <2>6 DEF OnResultUnlinked, OnCurrentActivityChanged, Receive, SendsResultUnlinked
  <2>7. CASE OnInvalidation \/ OnDropped
    BY <2>2, <2>7 DEF OnInvalidation, OnDropped
  <2>8. CASE OnResultsInvalidated
    BY <2>8 DEF OnResultsInvalidated
  <2>9. ASSUME NEW gone \in checks, ForgetMissing(gone)
        PROVE  Kept
    BY <2>2, <2>9 DEF ForgetMissing
  <2>10. CASE ModelStep
    BY <2>4, <2>5, <2>6, <2>7, <2>8, <2>9, <2>10 DEF ModelStep
  <2>11. CASE ClientStep
    <3>1. CASE FetchMore
      BY <1>1, <2>1, <3>1, FetchMoreKeeps
    <3>2. ASSUME NEW r \in Resource, NEW position \in 0 .. Limit - 1, MoveResult(r, position)
          PROVE  Kept
      BY <1>1, <2>1, <3>2, MoveResultKeeps
    <3>3. ASSUME NEW r \in Resource, NEW position \in 0 .. Limit - 1, PlaceResult(r, position)
          PROVE  Kept
      BY <2>2, <3>3 DEF PlaceResult
    <3>4. ASSUME NEW row \in Rows(items), ForgetRow(row)
          PROVE  Kept
      BY <1>1, <2>2, <3>4, ForgetRowKeeps
    <3>. QED  BY <2>11, <3>1, <3>2, <3>3, <3>4 DEF ClientStep
  <2>12. CASE ManagerStep \/ ManagerForgets
    BY <1>1, <2>2, <2>12, ManagerKeeps
  <2>13. CASE UNCHANGED vars
    BY <2>2, <2>13 DEF vars
  <2>. QED  BY <1>1, <2>10, <2>11, <2>12, <2>13 DEF Next
<1>2. Spec => [][Next]_vars
  BY DEF Spec
<1>. HIDE DEF Kept
<1>3. [][Kept]_vars => RowsLeaveForAReason
  BY DEF Kept, RowsLeaveForAReason
<1>. QED  BY <1>1, <1>2, <1>3, Invariant, PTL

===============================================================================
