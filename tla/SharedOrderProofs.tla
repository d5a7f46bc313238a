--------------------------- MODULE SharedOrderProofs ---------------------------
(***************************************************************************)
(* The invariants of the shared orders, for every set of models, resources *)
(* and activities, every assignment of client ids and every bound.         *)
(***************************************************************************)
EXTENDS SharedOrder, ResultRowsProofs

\* The client of a model and the activity tag of its orders.
LEMMA Tagged ==
    ASSUME SharedTypeOK, NEW m \in Model
    PROVE  /\ ActivityTag(m) \in Tags
           /\ ClientOf[m] # NoClient => ClientOf[m] \in Clients
BY DEF SharedTypeOK, ActivityTag, Tags, Clients

\* A query with the user's order lists what it selects, each once and arranged.
LEMMA Arranged ==
    ASSUME NEW set \in SUBSET Resource, NEW order \in Orders,
           NEW list \in Arrangements(set, order)
    PROVE  /\ list \in Orders
           /\ IsArranged(list, order)
           /\ \A p, q \in DOMAIN list : list[p] = list[q] => p = q
<1>. DEFINE n == Cardinality(set)
<1>1. IsFiniteSet(set) /\ n \in Nat
  BY SharedAssumption, FS_Subset, FS_CardinalityType
<1>2. list \in [1 .. n -> set] /\ {list[p] : p \in DOMAIN list} = set /\ IsArranged(list, order)
  BY DEF Arrangements, Listed
<1>3. list \in Orders
  <2>. HIDE DEF n
  <2>. QED  BY <1>1, <1>2 DEF Orders
<1>4. list \in Injection(1 .. n, set)
  <2>. HIDE DEF n
  <2>1. IsFiniteSet(1 .. n) /\ Cardinality(1 .. n) = n
    <3>1. n \in Int /\ 1 \in Int
      BY <1>1
    <3>2. IsFiniteSet(1 .. n) /\ Cardinality(1 .. n) = IF 1 > n THEN 0 ELSE n - 1 + 1
      BY <3>1, FS_Interval
    <3>. QED  BY <1>1, <3>2
  <2>2. list \in Surjection(1 .. n, set)
    BY <1>2 DEF Surjection
  <2>. QED  BY <1>1, <2>1, <2>2, FS_Surjection DEF n
<1>. HIDE DEF n
<1>. QED  BY <1>2, <1>3, <1>4 DEF Injection, IsInjective

\* What a reset does: the model uses the order saved for its tag, and no saved order
\* is lost by it.
LEMMA ResetEffect ==
    ASSUME SharedTypeOK, NEW m \in Model, NEW order \in Orders, FetchReset(m, order)
    PROVE  /\ rows' \in [Model -> Orders]
           /\ fixed' \in [Model -> Orders]
           /\ tag' \in [Model -> Tags]
           /\ saved' \in [Clients -> [Tags -> Orders \cup {Unsaved}]]
           /\ \A n \in Model \ {m} : /\ rows'[n] = rows[n]
                                     /\ fixed'[n] = fixed[n]
                                     /\ tag'[n] = tag[n]
           /\ ClientOf[m] # NoClient => fixed'[m] = saved'[ClientOf[m]][tag'[m]]
           /\ \A c \in Clients, t \in Tags : saved[c][t] # Unsaved => saved'[c][t] = saved[c][t]
           /\ IsArranged(rows'[m], fixed'[m])
           /\ \A p, q \in DOMAIN rows'[m] : rows'[m][p] = rows'[m][q] => p = q
<1>1. /\ rows \in [Model -> Orders] /\ fixed \in [Model -> Orders] /\ tag \in [Model -> Tags]
      /\ saved \in [Clients -> [Tags -> Orders \cup {Unsaved}]]
      /\ ActivityTag(m) \in Tags
      /\ ClientOf[m] # NoClient => ClientOf[m] \in Clients
  BY Tagged DEF SharedTypeOK
<1>2. LoadOrderingConfig(m, order)
  BY DEF FetchReset
<1>3. tag' \in [Model -> Tags] /\ tag'[m] = ActivityTag(m)
  BY <1>1, <1>2 DEF LoadOrderingConfig
<1>4. /\ fixed' \in [Model -> Orders]
      /\ saved' \in [Clients -> [Tags -> Orders \cup {Unsaved}]]
      /\ ClientOf[m] # NoClient => fixed'[m] = saved'[ClientOf[m]][ActivityTag(m)]
      /\ \A c \in Clients, t \in Tags : saved[c][t] # Unsaved => saved'[c][t] = saved[c][t]
  <2>1. CASE ClientOf[m] = NoClient /\ fixed' = [fixed EXCEPT ![m] = order] /\ saved' = saved
    BY <1>1, <2>1
  <2>2. CASE /\ ClientOf[m] # NoClient /\ Saved(m) # Unsaved
             /\ fixed' = [fixed EXCEPT ![m] = Saved(m)] /\ saved' = saved
    <3>1. Saved(m) \in Orders
      BY <1>1, <2>2 DEF Saved
    <3>. QED  BY <1>1, <2>2, <3>1 DEF Saved
  <2>3. CASE /\ ClientOf[m] # NoClient /\ Saved(m) = Unsaved
             /\ fixed' = [fixed EXCEPT ![m] = order]
             /\ saved' = [saved EXCEPT ![ClientOf[m]][ActivityTag(m)] = order]
    BY <1>1, <2>3 DEF Saved
  <2>. QED  BY <1>2, <2>1, <2>2, <2>3 DEF LoadOrderingConfig
<1>5. \A n \in Model \ {m} : fixed'[n] = fixed[n] /\ tag'[n] = tag[n]
  BY <1>1, <1>2 DEF LoadOrderingConfig
<1>6. PICK list \in Arrangements(Matching(m), fixed'[m]) : rows' = [rows EXCEPT ![m] = list]
  BY DEF FetchReset
<1>7. /\ list \in Orders /\ IsArranged(list, fixed'[m])
      /\ \A p, q \in DOMAIN list : list[p] = list[q] => p = q
  <2>1. Matching(m) \in SUBSET Resource /\ fixed'[m] \in Orders
    BY <1>4 DEF Matching
  <2>. QED  BY <1>6, <2>1, Arranged
<1>. QED  BY <1>1, <1>3, <1>4, <1>5, <1>6, <1>7

-------------------------------------------------------------------------------
(***************************************************************************)
(* The inductive invariant.  SameArrangement needs that each model's rows  *)
(* follow its own order, and that takes lists without duplicates: the      *)
(* place that destinationFor counts for a moved row is the one asked for   *)
(* only if every row stands for itself.                                    *)
(***************************************************************************)
RowsArranged == \A m \in Model : Distinct(rows[m]) /\ IsArranged(rows[m], fixed[m])

IInv == SharedTypeOK /\ OrderIsSaved /\ RowsArranged

\* Nothing is listed before the first model is constructed.
LEMMA InitInvariant == Init => IInv
<1>. SUFFICES ASSUME Init PROVE IInv
  OBVIOUS
<1>1. SharedTypeOK
  <2>1. (Resource \ Loose) \X Activity \subseteq Resource \X Activity
    OBVIOUS
  <2>. QED  BY <2>1 DEF Init, SharedTypeOK, Orders, Tags
<1>2. OrderIsSaved
  BY DEF Init, OrderIsSaved
<1>3. RowsArranged
  BY DEF Init, RowsArranged, Distinct, IsArranged
<1>. QED  BY <1>1, <1>2, <1>3 DEF IInv

\* A step that resets one model and ends no other model's wait for a reset.
LEMMA ResetKeeps ==
    ASSUME IInv, NEW m \in Model, NEW order \in Orders, FetchReset(m, order),
           alive' \ {m} \subseteq alive,
           \A n \in alive' \ {m} : Pending(n) => Pending(n)'
    PROVE  /\ rows' \in [Model -> Orders] /\ fixed' \in [Model -> Orders]
           /\ tag' \in [Model -> Tags]
           /\ saved' \in [Clients -> [Tags -> Orders \cup {Unsaved}]]
           /\ OrderIsSaved' /\ RowsArranged'
<1>1. /\ rows' \in [Model -> Orders] /\ fixed' \in [Model -> Orders]
      /\ tag' \in [Model -> Tags]
      /\ saved' \in [Clients -> [Tags -> Orders \cup {Unsaved}]]
      /\ \A n \in Model \ {m} : /\ rows'[n] = rows[n]
                                /\ fixed'[n] = fixed[n]
                                /\ tag'[n] = tag[n]
      /\ ClientOf[m] # NoClient => fixed'[m] = saved'[ClientOf[m]][tag'[m]]
      /\ \A c \in Clients, t \in Tags : saved[c][t] # Unsaved => saved'[c][t] = saved[c][t]
      /\ IsArranged(rows'[m], fixed'[m])
      /\ \A p, q \in DOMAIN rows'[m] : rows'[m][p] = rows'[m][q] => p = q
  BY ResetEffect DEF IInv
<1>2. OrderIsSaved'
  <2>1. SUFFICES ASSUME NEW n \in alive', ClientOf[n] # NoClient, ~Pending(n)'
                 PROVE  fixed'[n] = saved'[ClientOf[n]][tag'[n]]
    BY DEF OrderIsSaved
  <2>2. CASE n = m
    BY <1>1, <2>1, <2>2
  <2>3. CASE n # m
    <3>1. n \in alive /\ n \in Model /\ ~Pending(n) /\ alive \subseteq Model
      BY <2>1, <2>3 DEF IInv, SharedTypeOK
    <3>2. fixed[n] = saved[ClientOf[n]][tag[n]]
      BY <2>1, <3>1 DEF IInv, OrderIsSaved
    <3>3. fixed[n] \in Orders /\ tag[n] \in Tags /\ ClientOf[n] \in Clients
      BY <2>1, <3>1, Tagged DEF IInv, SharedTypeOK
    <3>4. saved[ClientOf[n]][tag[n]] # Unsaved
      BY <3>2, <3>3, SharedAssumption DEF Orders
    <3>. QED  BY <1>1, <2>3, <3>1, <3>2, <3>3, <3>4
  <2>. QED  BY <2>2, <2>3
<1>3. RowsArranged'
  <2>1. SUFFICES ASSUME NEW n \in Model
                 PROVE  Distinct(rows'[n]) /\ IsArranged(rows'[n], fixed'[n])
    BY DEF RowsArranged
  <2>2. CASE n = m
    BY <1>1, <2>2 DEF Distinct
  <2>3. CASE n # m
    BY <1>1, <2>3 DEF IInv, RowsArranged
  <2>. QED  BY <2>2, <2>3
<1>. QED  BY <1>1, <1>2, <1>3

\* A new model loads the order saved for its tag.
LEMMA ConstructKeeps == ASSUME IInv, NEW m \in Model, Construct(m) PROVE IInv'
<1>1. SharedTypeOK
  BY DEF IInv
<1>2. FetchReset(m, <<>>) /\ <<>> \in Orders /\ alive' = alive \cup {m} /\ notifying = <<>> /\ notifying' = <<>>
  BY DEF Construct, Orders
<1>3. \A n \in alive' \ {m} : Pending(n) => Pending(n)'
  BY <1>2 DEF Pending
<1>4. /\ rows' \in [Model -> Orders] /\ fixed' \in [Model -> Orders]
      /\ tag' \in [Model -> Tags]
      /\ saved' \in [Clients -> [Tags -> Orders \cup {Unsaved}]]
      /\ OrderIsSaved' /\ RowsArranged'
  BY <1>2, <1>3, ResetKeeps
<1>5. SharedTypeOK'
  BY <1>1, <1>2, <1>4 DEF SharedTypeOK, Construct
<1>. QED  BY <1>4, <1>5 DEF IInv

\* A model that hears of a change of activity loads the order of the new tag.
LEMMA ActivityChangeKeeps == ASSUME IInv, NEW m \in Model, OnCurrentActivityChanged(m) PROVE IInv'
<1>1. SharedTypeOK
  BY DEF IInv
<1>2. /\ FetchReset(m, fixed[m]) /\ fixed[m] \in Orders /\ alive' = alive
      /\ notifying' = notifying /\ told' = told \cup {m}
  BY <1>1 DEF OnCurrentActivityChanged, SharedTypeOK
<1>3. \A n \in alive' \ {m} : Pending(n) => Pending(n)'
  BY <1>2 DEF Pending
<1>4. /\ rows' \in [Model -> Orders] /\ fixed' \in [Model -> Orders]
      /\ tag' \in [Model -> Tags]
      /\ saved' \in [Clients -> [Tags -> Orders \cup {Unsaved}]]
      /\ OrderIsSaved' /\ RowsArranged'
  BY <1>2, <1>3, ResetKeeps
<1>5. SharedTypeOK'
  BY <1>1, <1>2, <1>4 DEF SharedTypeOK, OnCurrentActivityChanged
<1>. QED  BY <1>4, <1>5 DEF IInv

\* A round of a loop over s_privates resets one of the models that it still has to reset.
LEMMA NotifyKeeps == ASSUME IInv, NEW m \in Model, NotifyOther(m) PROVE IInv'
<1>1. SharedTypeOK
  BY DEF IInv
<1>. DEFINE head == Head(notifying) \ {m}
            rest == Tail(notifying)
<1>2. /\ FetchReset(m, fixed[m]) /\ fixed[m] \in Orders /\ alive' = alive
      /\ notifying \in Seq(SUBSET alive) /\ notifying # <<>>
      /\ notifying' = <<head>> \o rest
  BY <1>1 DEF NotifyOther, SharedTypeOK
<1>3. /\ head \in SUBSET alive /\ rest \in Seq(SUBSET alive)
      /\ notifying' \in Seq(SUBSET alive) /\ Len(notifying') = Len(notifying)
      /\ notifying'[1] = head
      /\ \A k \in 2 .. Len(notifying) : notifying'[k] = notifying[k]
  BY <1>2
<1>4. \A n \in alive' \ {m} : Pending(n) => Pending(n)'
  <2>1. SUFFICES ASSUME NEW n \in alive' \ {m}, NEW k \in DOMAIN notifying, n \in notifying[k]
                 PROVE  \E j \in DOMAIN notifying' : n \in notifying'[j]
    BY DEF Pending
  <2>2. k \in 1 .. Len(notifying) /\ DOMAIN notifying' = 1 .. Len(notifying) /\ Len(notifying) \in Nat
    BY <1>2, <1>3
  <2>3. CASE k = 1
    BY <1>2, <1>3, <2>1, <2>2, <2>3
  <2>4. CASE k # 1
    BY <1>3, <2>1, <2>2, <2>4
  <2>. QED  BY <2>3, <2>4
<1>5. /\ rows' \in [Model -> Orders] /\ fixed' \in [Model -> Orders]
      /\ tag' \in [Model -> Tags]
      /\ saved' \in [Clients -> [Tags -> Orders \cup {Unsaved}]]
      /\ OrderIsSaved' /\ RowsArranged'
  BY <1>2, <1>4, ResetKeeps
<1>6. SharedTypeOK'
  BY <1>1, <1>2, <1>3, <1>5 DEF SharedTypeOK, NotifyOther
<1>. QED  BY <1>5, <1>6 DEF IInv

\* A model that is destroyed keeps nothing.
LEMMA DestroyKeeps == ASSUME IInv, NEW m \in Model, Destroy(m) PROVE IInv'
<1>1. SharedTypeOK
  BY DEF IInv
<1>2. /\ alive' = alive \ {m} /\ notifying = <<>> /\ notifying' = <<>>
      /\ rows' = [rows EXCEPT ![m] = <<>>] /\ fixed' = [fixed EXCEPT ![m] = <<>>]
      /\ tag' = tag /\ saved' = saved
  BY DEF Destroy
<1>3. SharedTypeOK'
  BY <1>1, <1>2 DEF SharedTypeOK, Destroy, Orders
<1>4. OrderIsSaved'
  <2>1. SUFFICES ASSUME NEW n \in alive', ClientOf[n] # NoClient
                 PROVE  fixed'[n] = saved'[ClientOf[n]][tag'[n]]
    BY DEF OrderIsSaved
  <2>2. n \in alive /\ n \in Model /\ n # m /\ ~Pending(n)
    BY <1>1, <1>2, <2>1 DEF SharedTypeOK, Pending
  <2>3. fixed[n] = saved[ClientOf[n]][tag[n]]
    BY <2>1, <2>2 DEF IInv, OrderIsSaved
  <2>. QED  BY <1>1, <1>2, <2>2, <2>3 DEF SharedTypeOK
<1>5. RowsArranged'
  <2>1. SUFFICES ASSUME NEW n \in Model
                 PROVE  Distinct(rows'[n]) /\ IsArranged(rows'[n], fixed'[n])
    BY DEF RowsArranged
  <2>2. CASE n = m
    <3>1. rows'[n] = <<>>
      BY <1>1, <1>2, <2>2 DEF SharedTypeOK
    <3>. QED  BY <3>1 DEF Distinct, IsArranged
  <2>3. CASE n # m
    <3>1. rows'[n] = rows[n] /\ fixed'[n] = fixed[n]
      BY <1>1, <1>2, <2>3 DEF SharedTypeOK
    <3>. QED  BY <3>1 DEF IInv, RowsArranged
  <2>. QED  BY <2>2, <2>3
<1>. QED  BY <1>3, <1>4, <1>5 DEF IInv

\* A request that saves an order leaves every other model of the client with a reset
\* to come, so that none of them is held to its old order.
LEMMA SaveOrderKeeps ==
    ASSUME IInv, NEW m \in alive, ClientOf[m] # NoClient, NEW order \in Orders,
           SaveOrder(m, order)
    PROVE  /\ fixed' \in [Model -> Orders]
           /\ fixed'[m] = order
           /\ \A n \in Model \ {m} : fixed'[n] = fixed[n]
           /\ saved' \in [Clients -> [Tags -> Orders \cup {Unsaved}]]
           /\ notifying' \in Seq(SUBSET alive')
           /\ OrderIsSaved'
<1>. DEFINE others == {n \in alive \ {m} : ClientOf[n] = ClientOf[m]}
<1>1. SharedTypeOK /\ m \in Model /\ tag[m] \in Tags /\ ClientOf[m] \in Clients
  BY Tagged DEF IInv, SharedTypeOK
<1>2. /\ fixed' = [fixed EXCEPT ![m] = order]
      /\ saved' = [saved EXCEPT ![ClientOf[m]][tag[m]] = order]
      /\ notifying' = <<others>> \o notifying
      /\ alive' = alive /\ tag' = tag
  BY DEF SaveOrder
<1>3. /\ fixed' \in [Model -> Orders] /\ fixed'[m] = order
      /\ \A n \in Model \ {m} : fixed'[n] = fixed[n]
  BY <1>1, <1>2 DEF SharedTypeOK
<1>4. /\ saved' \in [Clients -> [Tags -> Orders \cup {Unsaved}]]
      /\ saved'[ClientOf[m]][tag[m]] = order
      /\ \A c \in Clients \ {ClientOf[m]} : saved'[c] = saved[c]
  BY <1>1, <1>2 DEF SharedTypeOK
<1>5. /\ others \in SUBSET alive /\ notifying \in Seq(SUBSET alive)
  BY <1>1 DEF SharedTypeOK
<1>6. /\ notifying' \in Seq(SUBSET alive)
      /\ DOMAIN notifying = 1 .. Len(notifying) /\ Len(notifying) \in Nat
      /\ DOMAIN notifying' = 1 .. Len(notifying) + 1
      /\ notifying'[1] = others
      /\ \A k \in 1 .. Len(notifying) : notifying'[k + 1] = notifying[k]
  <2>. HIDE DEF others
  <2>. QED  BY <1>2, <1>5
<1>7. OrderIsSaved'
  <2>1. SUFFICES ASSUME NEW n \in alive, ClientOf[n] # NoClient, ~Pending(n)'
                 PROVE  fixed'[n] = saved'[ClientOf[n]][tag[n]]
    BY <1>2 DEF OrderIsSaved
  <2>2. \A k \in 1 .. Len(notifying) + 1 : n \notin notifying'[k]
    BY <1>6, <2>1 DEF Pending
  <2>3. CASE n = m
    BY <1>3, <1>4, <2>3
  <2>4. CASE n # m
    <3>1. n \notin others
      BY <1>6, <2>2
    <3>2. ClientOf[n] # ClientOf[m] /\ n \in Model
      BY <1>1, <2>1, <2>4, <3>1 DEF SharedTypeOK
    <3>3. ~Pending(n)
      <4>1. \A k \in 1 .. Len(notifying) : k + 1 \in 1 .. Len(notifying) + 1
        BY <1>6
      <4>. QED  BY <1>6, <2>2, <4>1 DEF Pending
    <3>4. fixed[n] = saved[ClientOf[n]][tag[n]]
      BY <2>1, <3>3 DEF IInv, OrderIsSaved
    <3>5. ClientOf[n] \in Clients
      BY <1>1, <2>1, <3>2, Tagged
    <3>. QED  BY <1>3, <1>4, <2>4, <3>2, <3>4, <3>5
  <2>. QED  BY <2>3, <2>4
<1>. QED  BY <1>2, <1>3, <1>4, <1>6, <1>7

\* The row the user moves goes where the new order has it.
LEMMA MoveKeeps ==
    ASSUME IInv, NEW m \in Model, NEW r \in Resource,
           NEW position \in 0 .. Cardinality(Resource), MoveResult(m, r, position)
    PROVE  IInv'
<1>1. SharedTypeOK /\ rows[m] \in Orders /\ Distinct(rows[m])
  BY DEF IInv, RowsArranged, SharedTypeOK
<1>2. m \in alive /\ ClientOf[m] # NoClient /\ position < Len(rows[m])
  BY DEF MoveResult, Requests
<1>3. PICK p \in DOMAIN rows[m] :
           /\ rows[m][p] = r
           /\ SaveOrder(m, MoveOne(rows[m], p - 1, position))
           /\ \E q \in Destinations(rows[m], r, MoveOne(rows[m], p - 1, position)) :
                 rows' = [rows EXCEPT ![m] = MoveOne(rows[m], p - 1, q)]
  BY DEF MoveResult
<1>. DEFINE row == p - 1
            order == MoveOne(rows[m], row, position)
<1>4. position \in Rows(rows[m]) /\ row \in Rows(rows[m])
  <2>1. Cardinality(Resource) \in Nat /\ Len(rows[m]) \in Nat /\ DOMAIN rows[m] = 1 .. Len(rows[m])
    BY <1>1, SharedAssumption, FS_CardinalityType DEF Orders
  <2>. QED  BY <1>2, <1>3, <2>1 DEF Rows
<1>5. order \in Orders
  <2>. HIDE DEF row
  <2>. QED  BY <1>1, <1>4, MovedRowAt DEF Orders
<1>6. Distinct(order)
  <2>. HIDE DEF row
  <2>. QED  BY <1>1, <1>4, MovedRowsDiffer DEF Orders
<1>7. rows' = [rows EXCEPT ![m] = order]
  <2>1. PICK q \in Destinations(rows[m], rows[m][p], MoveOne(rows[m], p - 1, position)) :
                 rows' = [rows EXCEPT ![m] = MoveOne(rows[m], p - 1, q)]
    BY <1>3
  <2>2. q = position
    BY <1>1, <1>4, <2>1, RequestedPlace DEF Orders
  <2>. QED  BY <2>1, <2>2
<1>8. /\ fixed' \in [Model -> Orders]
      /\ fixed'[m] = order
      /\ \A n \in Model \ {m} : fixed'[n] = fixed[n]
      /\ saved' \in [Clients -> [Tags -> Orders \cup {Unsaved}]]
      /\ notifying' \in Seq(SUBSET alive')
      /\ OrderIsSaved'
  <2>. HIDE DEF row, order
  <2>1. SaveOrder(m, order)
    BY <1>3 DEF row, order
  <2>. QED  BY <1>2, <1>5, <2>1, SaveOrderKeeps
<1>9. IsArranged(order, order)
  BY <1>5, <1>6, SelfArranged DEF Orders
<1>. HIDE DEF order
<1>10. SharedTypeOK'
  <2>1. rows' \in [Model -> Orders]
    BY <1>1, <1>5, <1>7 DEF SharedTypeOK
  <2>2. UNCHANGED <<alive, current, told, links, waiting, tag>>
    BY <1>3 DEF SaveOrder
  <2>. QED  BY <1>1, <1>8, <2>1, <2>2 DEF SharedTypeOK
<1>11. RowsArranged'
  <2>1. SUFFICES ASSUME NEW n \in Model
                 PROVE  Distinct(rows'[n]) /\ IsArranged(rows'[n], fixed'[n])
    BY DEF RowsArranged
  <2>2. rows'[m] = order /\ (n # m => rows'[n] = rows[n])
    BY <1>1, <1>7 DEF SharedTypeOK
  <2>3. CASE n = m
    BY <1>6, <1>8, <1>9, <2>2, <2>3
  <2>4. CASE n # m
    BY <1>8, <2>2, <2>4 DEF IInv, RowsArranged
  <2>. QED  BY <2>3, <2>4
<1>. QED  BY <1>8, <1>10, <1>11 DEF IInv

\* A resource placed before it is linked leaves the rows as they are, and in order.
LEMMA PlaceKeeps ==
    ASSUME IInv, NEW m \in Model, NEW r \in Resource,
           NEW position \in 0 .. Cardinality(Resource), PlaceResult(m, r, position)
    PROVE  IInv'
<1>. DEFINE order == RowsInserted(rows[m], position, <<r>>)
<1>1. SharedTypeOK /\ rows[m] \in Orders /\ Distinct(rows[m])
  BY DEF IInv, RowsArranged, SharedTypeOK
<1>2. /\ m \in alive /\ ClientOf[m] # NoClient /\ r \notin Listed(rows[m])
      /\ SaveOrder(m, order) /\ rows' = rows
  BY DEF PlaceResult, Requests
<1>3. position \in 0 .. Len(rows[m])
  <2>1. Cardinality(Resource) \in Nat /\ Len(rows[m]) \in Nat
    BY <1>1, SharedAssumption, FS_CardinalityType DEF Orders
  <2>2. position <= Len(rows[m])
    BY DEF PlaceResult
  <2>. QED  BY <2>1, <2>2
<1>4. order \in Orders /\ IsArranged(rows[m], order)
  BY <1>1, <1>2, <1>3, PlaceArranged DEF Orders
<1>. HIDE DEF order
<1>5. /\ fixed' \in [Model -> Orders]
      /\ fixed'[m] = order
      /\ \A n \in Model \ {m} : fixed'[n] = fixed[n]
      /\ saved' \in [Clients -> [Tags -> Orders \cup {Unsaved}]]
      /\ notifying' \in Seq(SUBSET alive')
      /\ OrderIsSaved'
  BY <1>2, <1>4, SaveOrderKeeps
<1>6. SharedTypeOK'
  BY <1>1, <1>2, <1>5 DEF SharedTypeOK, SaveOrder
<1>7. RowsArranged'
  <2>1. SUFFICES ASSUME NEW n \in Model
                 PROVE  Distinct(rows[n]) /\ IsArranged(rows[n], fixed'[n])
    BY <1>2 DEF RowsArranged
  <2>. QED  BY <1>4, <1>5 DEF IInv, RowsArranged
<1>. QED  BY <1>5, <1>6, <1>7 DEF IInv

\* The loop that ends has reset every model it had to.
LEMMA EndKeeps == ASSUME IInv, EndNotifying PROVE IInv'
<1>1. SharedTypeOK
  BY DEF IInv
<1>2. /\ notifying \in Seq(SUBSET alive) /\ notifying # <<>> /\ notifying[1] = {}
      /\ notifying' = Tail(notifying)
      /\ UNCHANGED <<alive, current, told, links, waiting, rows, fixed, tag, saved>>
  BY <1>1 DEF EndNotifying, SharedTypeOK
<1>3. /\ Len(notifying) \in Nat \ {0} /\ DOMAIN notifying = 1 .. Len(notifying)
      /\ notifying' \in Seq(SUBSET alive) /\ DOMAIN notifying' = 1 .. Len(notifying) - 1
      /\ \A k \in 1 .. Len(notifying) - 1 : notifying'[k] = notifying[k + 1]
  BY <1>2
<1>4. \A n \in alive : Pending(n) => Pending(n)'
  <2>1. SUFFICES ASSUME NEW n \in alive, NEW k \in DOMAIN notifying, n \in notifying[k]
                 PROVE  \E j \in DOMAIN notifying' : n \in notifying'[j]
    BY DEF Pending
  <2>2. k # 1
    BY <1>2, <2>1
  <2>3. k - 1 \in DOMAIN notifying' /\ notifying'[k - 1] = notifying[k]
    BY <1>3, <2>2
  <2>. QED  BY <2>1, <2>3
<1>5. SharedTypeOK'
  BY <1>1, <1>2, <1>3 DEF SharedTypeOK
<1>6. OrderIsSaved' /\ RowsArranged'
  BY <1>2, <1>4 DEF IInv, OrderIsSaved, RowsArranged
<1>. QED  BY <1>5, <1>6 DEF IInv

\* A change of the current activity touches no order: the tags change with the resets.
LEMMA SwitchKeeps == ASSUME IInv, NEW a \in Activity, SwitchActivity(a) PROVE IInv'
<1>1. SharedTypeOK'
  BY DEF IInv, SharedTypeOK, SwitchActivity
<1>2. OrderIsSaved' /\ RowsArranged'
  BY DEF IInv, OrderIsSaved, RowsArranged, Pending, SwitchActivity
<1>. QED  BY <1>1, <1>2 DEF IInv

\* The manager's steps change the database and what waits for the models.
LEMMA AnnounceKeeps ==
    ASSUME IInv, NEW r \in Loose, NEW a \in Activity,
           LinkResourceToActivity(r, a) \/ UnlinkResourceFromActivity(r, a)
    PROVE  IInv'
<1>1. SharedTypeOK /\ <<r, a>> \in Resource \X Activity
  BY SharedAssumption DEF IInv
<1>2. PICK kind \in {"linked", "unlinked"} : Announce(kind, r, a)
  BY DEF LinkResourceToActivity, UnlinkResourceFromActivity
<1>3. links' \subseteq Resource \X Activity
  BY <1>1 DEF LinkResourceToActivity, UnlinkResourceFromActivity, SharedTypeOK
<1>4. waiting' \in [Model -> Seq(Announcement)]
  <2>1. waiting \in [Model -> Seq(Announcement)]
    BY <1>1 DEF SharedTypeOK
  <2>. DEFINE x == [kind |-> kind, resource |-> r, activity |-> a]
  <2>2. x \in Announcement
    BY <1>1, <1>2 DEF Announcement
  <2>3. waiting' = [m \in Model |-> IF m \in alive THEN Append(waiting[m], x) ELSE waiting[m]]
    BY <1>2 DEF Announce
  <2>. HIDE DEF x
  <2>. QED  BY <2>1, <2>2, <2>3
<1>5. UNCHANGED <<alive, current, told, rows, fixed, tag, saved, notifying>>
  BY <1>2 DEF Announce
<1>6. SharedTypeOK'
  BY <1>1, <1>3, <1>4, <1>5 DEF SharedTypeOK
<1>7. OrderIsSaved' /\ RowsArranged'
  BY <1>5 DEF IInv, OrderIsSaved, RowsArranged, Pending
<1>. QED  BY <1>6, <1>7 DEF IInv

\* An announcement changes the rows of the model that receives it, and no order.
LEMMA ReceiveKeeps ==
    ASSUME IInv, NEW m \in Model, Receive(m),
           NEW list \in Orders, rows' = [rows EXCEPT ![m] = list],
           Distinct(list), IsArranged(list, fixed[m])
    PROVE  IInv'
<1>1. SharedTypeOK
  BY DEF IInv
<1>2. /\ UNCHANGED <<alive, current, told, links, fixed, tag, saved, notifying>>
      /\ waiting' = [waiting EXCEPT ![m] = Tail(waiting[m])] /\ waiting[m] # <<>>
  BY DEF Receive
<1>3. waiting' \in [Model -> Seq(Announcement)]
  <2>1. waiting[m] \in Seq(Announcement) /\ waiting \in [Model -> Seq(Announcement)]
    BY <1>1 DEF SharedTypeOK
  <2>2. Tail(waiting[m]) \in Seq(Announcement)
    BY <1>2, <2>1
  <2>. QED  BY <1>2, <2>1, <2>2
<1>4. SharedTypeOK'
  BY <1>1, <1>2, <1>3 DEF SharedTypeOK
<1>5. OrderIsSaved'
  BY <1>2 DEF IInv, OrderIsSaved, Pending
<1>6. RowsArranged'
  <2>1. SUFFICES ASSUME NEW n \in Model
                 PROVE  Distinct(rows'[n]) /\ IsArranged(rows'[n], fixed[n])
    BY <1>2 DEF RowsArranged
  <2>2. rows'[m] = list /\ (n # m => rows'[n] = rows[n])
    BY <1>1 DEF SharedTypeOK
  <2>. QED  BY <2>2 DEF IInv, RowsArranged
<1>. QED  BY <1>4, <1>5, <1>6 DEF IInv

\* A list written over itself changes nothing.
LEMMA SameList == ASSUME SharedTypeOK, NEW m \in Model PROVE rows = [rows EXCEPT ![m] = rows[m]]
<1>1. rows \in [Model -> Orders]
  BY DEF SharedTypeOK
<1>. QED  BY <1>1

\* An announcement is about a resource.
LEMMA HeadWaiting ==
    ASSUME SharedTypeOK, NEW m \in Model, waiting[m] # <<>>
    PROVE  Head(waiting[m]).resource \in Resource
<1>1. waiting[m] \in Seq(Announcement)
  BY DEF SharedTypeOK
<1>2. Head(waiting[m]) \in Announcement
  BY <1>1
<1>. QED  BY <1>2 DEF Announcement

\* A linked resource is put where destinationFor says, or moved there if it is listed.
LEMMA LinkedKeeps == ASSUME IInv, NEW m \in Model, OnResultLinked(m) PROVE IInv'
<1>. DEFINE r == Head(waiting[m]).resource
<1>1. /\ Receive(m) /\ SharedTypeOK /\ r \in Resource
      /\ rows[m] \in Orders /\ fixed[m] \in Orders
      /\ Distinct(rows[m]) /\ IsArranged(rows[m], fixed[m])
  BY HeadWaiting DEF IInv, SharedTypeOK, RowsArranged, OnResultLinked, Receive
<1>2. PICK q \in Destinations(rows[m], r, fixed[m]) :
             \/ /\ r \notin Listed(rows[m])
                /\ rows' = [rows EXCEPT ![m] = RowsInserted(rows[m], q, <<r>>)]
             \/ \E p \in DOMAIN rows[m] :
                   /\ rows[m][p] = r
                   /\ rows' = [rows EXCEPT ![m] = MoveOne(rows[m], p - 1, q)]
  BY DEF OnResultLinked
<1>. HIDE DEF r
<1>3. CASE /\ r \notin Listed(rows[m])
           /\ rows' = [rows EXCEPT ![m] = RowsInserted(rows[m], q, <<r>>)]
  <2>. DEFINE list == RowsInserted(rows[m], q, <<r>>)
  <2>1. list \in Orders /\ Distinct(list) /\ IsArranged(list, fixed[m])
    BY <1>1, <1>2, <1>3, InsertArranged DEF Orders
  <2>2. rows' = [rows EXCEPT ![m] = list]
    BY <1>3
  <2>. HIDE DEF list
  <2>. QED  BY <1>1, <2>1, <2>2, ReceiveKeeps
<1>4. CASE \E p \in DOMAIN rows[m] :
                   /\ rows[m][p] = r
                   /\ rows' = [rows EXCEPT ![m] = MoveOne(rows[m], p - 1, q)]
  <2>1. PICK p \in DOMAIN rows[m] : /\ rows[m][p] = r
                                    /\ rows' = [rows EXCEPT ![m] = MoveOne(rows[m], p - 1, q)]
    BY <1>4
  <2>. DEFINE list == MoveOne(rows[m], p - 1, q)
  <2>2. list \in Orders /\ Distinct(list) /\ IsArranged(list, fixed[m])
    BY <1>1, <1>2, <2>1, RepositionArranged DEF Orders
  <2>3. rows' = [rows EXCEPT ![m] = list]
    BY <2>1
  <2>. HIDE DEF list
  <2>. QED  BY <1>1, <2>2, <2>3, ReceiveKeeps
<1>. QED  BY <1>2, <1>3, <1>4

\* An unlinked resource leaves the rows that stay in their order.
LEMMA UnlinkedKeeps == ASSUME IInv, NEW m \in Model, OnResultUnlinked(m) PROVE IInv'
<1>1. /\ Receive(m) /\ SharedTypeOK
      /\ rows[m] \in Orders /\ fixed[m] \in Orders
      /\ Distinct(rows[m]) /\ IsArranged(rows[m], fixed[m])
  BY DEF IInv, SharedTypeOK, RowsArranged, OnResultUnlinked
<1>2. CASE rows' = rows
  <2>1. rows' = [rows EXCEPT ![m] = rows[m]]
    BY <1>1, <1>2, SameList
  <2>. QED  BY <1>1, <2>1, ReceiveKeeps
<1>3. CASE \E p \in DOMAIN rows[m] : rows' = [rows EXCEPT ![m] = RowsRemoved(rows[m], p - 1, p - 1)]
  <2>1. PICK p \in DOMAIN rows[m] : rows' = [rows EXCEPT ![m] = RowsRemoved(rows[m], p - 1, p - 1)]
    BY <1>3
  <2>. DEFINE list == RowsRemoved(rows[m], p - 1, p - 1)
  <2>2. list \in Orders /\ Distinct(list) /\ IsArranged(list, fixed[m])
    BY <1>1, <2>1, RemoveArranged DEF Orders
  <2>3. rows' = [rows EXCEPT ![m] = list]
    BY <2>1
  <2>. HIDE DEF list
  <2>. QED  BY <1>1, <2>2, <2>3, ReceiveKeeps
<1>. QED  BY <1>2, <1>3 DEF OnResultUnlinked

\* An announcement that the watcher drops leaves the rows alone.
LEMMA DroppedKeeps == ASSUME IInv, NEW m \in Model, OnDropped(m) PROVE IInv'
<1>1. /\ Receive(m) /\ SharedTypeOK
      /\ rows[m] \in Orders /\ Distinct(rows[m]) /\ IsArranged(rows[m], fixed[m])
      /\ rows' = rows
  BY DEF IInv, SharedTypeOK, RowsArranged, OnDropped
<1>2. rows' = [rows EXCEPT ![m] = rows[m]]
  BY <1>1, SameList
<1>. QED  BY <1>1, <1>2, ReceiveKeeps

\* Every step keeps the invariant.
LEMMA StepKeeps == ASSUME IInv, [Next]_vars PROVE IInv'
<1>1. ASSUME NEW m \in Model, NEW r \in Resource, NEW position \in 0 .. Cardinality(Resource),
             MoveResult(m, r, position) \/ PlaceResult(m, r, position)
      PROVE  IInv'
  BY <1>1, MoveKeeps, PlaceKeeps
<1>2. ASSUME NEW m \in Model, Construct(m) \/ Destroy(m) \/ NotifyOther(m)
      PROVE  IInv'
  BY <1>2, ConstructKeeps, DestroyKeeps, NotifyKeeps
<1>3. ASSUME NEW m \in Model, OnCurrentActivityChanged(m) \/ OnResultLinked(m)
      PROVE  IInv'
  BY <1>3, ActivityChangeKeeps, LinkedKeeps
<1>4. ASSUME NEW m \in Model, OnResultUnlinked(m) \/ OnDropped(m)
      PROVE  IInv'
  BY <1>4, UnlinkedKeeps, DroppedKeeps
<1>5. ASSUME ServiceStep PROVE IInv'
  <2>1. CASE \E a \in Activity : SwitchActivity(a)
    BY <2>1, SwitchKeeps
  <2>2. CASE \E r \in Loose, a \in Activity : \/ LinkResourceToActivity(r, a)
                                              \/ UnlinkResourceFromActivity(r, a)
    BY <2>2, AnnounceKeeps
  <2>. QED  BY <1>5, <2>1, <2>2 DEF ServiceStep
<1>6. CASE EndNotifying
  BY <1>6, EndKeeps
<1>7. CASE UNCHANGED vars
  <2>1. SharedTypeOK'
    BY <1>7 DEF IInv, SharedTypeOK, vars
  <2>2. OrderIsSaved' /\ RowsArranged'
    BY <1>7 DEF IInv, OrderIsSaved, RowsArranged, Pending, vars
  <2>. QED  BY <2>1, <2>2 DEF IInv
<1>8. CASE UserStep
  BY <1>1, <1>8 DEF UserStep
<1>9. CASE ModelStep
  BY <1>2, <1>3, <1>4, <1>9 DEF ModelStep
<1>. QED  BY <1>5, <1>6, <1>7, <1>8, <1>9 DEF Next

-------------------------------------------------------------------------------
\* The types, what is saved and what is listed fit together in every state that the
\* models, the views, the activity service and the manager can reach.
THEOREM Invariant == Spec => []IInv
<1>1. Init => IInv
  BY InitInvariant
<1>2. IInv /\ [Next]_vars => IInv'
  BY StepKeeps
<1>. QED  BY <1>1, <1>2, PTL DEF Spec

\* The variables keep their types, whatever the number of models, clients and requests
\* placed inside requests: a loop over s_privates never meets a model that is gone.
THEOREM SharedTypes == Spec => []SharedTypeOK
<1>1. IInv => SharedTypeOK
  BY DEF IInv
<1>. QED  BY <1>1, Invariant, PTL

\* The loop over the models in saveOrdering, at any depth, leaves no model of
\* the client with an order other than the one that is saved for its tag.
THEOREM OrdersAreSaved == Spec => []OrderIsSaved
<1>1. IInv => OrderIsSaved
  BY DEF IInv
<1>. QED  BY <1>1, Invariant, PTL

\* Outside the loops, two models of one client at one tag hold the same order, the saved
\* one, and each has its rows in it.
THEOREM ArrangementsAgree == Spec => []SameArrangement
<1>1. IInv => SameArrangement
  <2>1. SUFFICES ASSUME IInv, NEW m \in alive, NEW n \in alive,
                        ClientOf[m] = ClientOf[n], ClientOf[m] # NoClient,
                        tag[m] = tag[n], notifying = <<>>
                 PROVE  IsArranged(rows[n], fixed[m])
    BY DEF SameArrangement
  <2>2. ~Pending(m) /\ ~Pending(n) /\ m \in Model /\ n \in Model
    BY <2>1 DEF Pending, IInv, SharedTypeOK
  <2>3. fixed[m] = fixed[n]
    <3>1. fixed[m] = saved[ClientOf[m]][tag[m]]
      BY <2>1, <2>2 DEF IInv, OrderIsSaved
    <3>2. fixed[n] = saved[ClientOf[n]][tag[n]]
      BY <2>1, <2>2 DEF IInv, OrderIsSaved
    <3>. QED  BY <2>1, <3>1, <3>2
  <2>. QED  BY <2>1, <2>2, <2>3 DEF IInv, RowsArranged
<1>. QED  BY <1>1, Invariant, PTL

\* Only a request of the user replaces an order that has been saved: the resets, which
\* save the order used so far for a tag without one, keep every other.
THEOREM OrdersKept == Spec => OrdersAreKept
<1>. DEFINE Kept == \A c \in Clients, t \in Tags :
                       saved[c][t] # Unsaved /\ saved'[c][t] # saved[c][t] => UserStep
<1>1. ASSUME SharedTypeOK, [Next]_vars
      PROVE  Kept
  <2>1. ASSUME NEW m \in Model, NEW order \in Orders, FetchReset(m, order)
        PROVE  Kept
    BY <1>1, <2>1, ResetEffect
  <2>2. ASSUME NEW m \in Model, NotifyOther(m) \/ OnCurrentActivityChanged(m)
        PROVE  Kept
    <3>1. FetchReset(m, fixed[m]) /\ fixed[m] \in Orders
      BY <1>1, <2>2 DEF NotifyOther, OnCurrentActivityChanged, SharedTypeOK
    <3>. QED  BY <2>1, <3>1
  <2>3. ASSUME NEW m \in Model, Construct(m)
        PROVE  Kept
    <3>1. FetchReset(m, <<>>) /\ <<>> \in Orders
      BY <2>3 DEF Construct, Orders
    <3>. QED  BY <2>1, <3>1
  <2>4. ASSUME NEW m \in Model,
               Destroy(m) \/ OnResultLinked(m) \/ OnResultUnlinked(m) \/ OnDropped(m)
        PROVE  Kept
    BY <2>4 DEF Destroy, OnResultLinked, OnResultUnlinked, OnDropped, Receive
  <2>5. CASE ModelStep
    BY <2>2, <2>3, <2>4, <2>5 DEF ModelStep
  <2>6. CASE ServiceStep
    BY <2>6 DEF ServiceStep, SwitchActivity, LinkResourceToActivity,
                UnlinkResourceFromActivity, Announce
  <2>7. CASE EndNotifying \/ UNCHANGED vars
    BY <2>7 DEF EndNotifying, vars
  <2>8. CASE UserStep
    BY <2>8
  <2>. QED  BY <1>1, <2>5, <2>6, <2>7, <2>8 DEF Next
<1>2. Spec => [][Next]_vars
  BY DEF Spec
<1>. HIDE DEF Kept
<1>3. [][Kept]_vars => OrdersAreKept
  BY DEF Kept, OrdersAreKept
<1>. QED  BY <1>1, <1>2, <1>3, SharedTypes, PTL

===============================================================================
