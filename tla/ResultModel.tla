------------------------------ MODULE ResultModel ------------------------------
(***************************************************************************)
(* A result model: the rows it lists for its query, kept up to date by the *)
(* watcher's signals and by reading the database.                          *)
(*                                                                         *)
(* All handlers run in the model's thread, so a handler is one step; the   *)
(* activity manager writes the database between any two of them, and its   *)
(* announcements wait on the bus.  A handler that reads the database reads *)
(* what is there now, not what was there when the announcement was made.   *)
(* The replacement of rows after a read is the summary that ResultCache    *)
(* shows the block-move algorithm to implement.                            *)
(***************************************************************************)
EXTENDS ResultWatcher, ResultRows

CONSTANTS MaxBus,     \* bound on the announcements that wait
          Lockstep,   \* whether manager and views wait until the model has settled
          Missing,    \* the resources that are files which do not exist any more
          Forgets     \* whether the program asks for rows to be forgotten

ASSUME ModelAssumption == /\ MaxBus \in Nat
                          /\ Lockstep \in BOOLEAN
                          /\ Missing \subseteq Resource
                          /\ Forgets \in BOOLEAN

VARIABLES items,      \* cache.m_items
          hasMore,    \* whether the database has rows behind the listed ones
          fixed,      \* m_fixedOrderedItems
          config,     \* the saved orders, by activity tag
          checks,     \* what each thread that looks for missing files will find
          calls       \* the resources that the manager was asked to forget

modelVars == <<items, hasMore, fixed, config, checks>>
vars == <<stats, links, activity, bus, query, current, timer, items, hasMore, fixed, config,
          checks, calls>>

Limit == query.limit
Batch == query.batch

Lesser(m, n) == IF m <= n THEN m ELSE n

-------------------------------------------------------------------------------
(***************************************************************************)
(* The user's order of the linked items.                                   *)
(***************************************************************************)
ActivityTag(cur) == IF query.activities = "any" THEN Any ELSE cur

\* loadOrderingConfig: the order saved for the tag, or the one used so far.
LoadedOrder(tag) == IF query.client /\ tag \in DOMAIN config THEN config[tag] ELSE fixed

SavedOrder(tag, order) == [t \in DOMAIN config \cup {tag} |->
                              IF t = tag THEN order ELSE config[t]]

FixedItemsLessThan(order, x, y) == PlacedBefore(order, x.resource, y.resource)

-------------------------------------------------------------------------------
\* Mutant: the query asks for the page only.
MoreBehindUnseen(answer, n) == FALSE

\* Mutant: a single row that fills a gap is not looked at.
ChecksAfterBatches(new) ==
    LET gone == {new[k].resource : k \in DOMAIN new} \cap Missing
    IN IF gone = {} \/ Len(new) = 1 THEN checks ELSE checks \cup {gone}

\* replace() starts a thread that looks for the files among the rows read.  One
\* that finds them all ends without a trace; two that will find the same are one.
ChecksAfter(new) ==
    LET gone == {new[k].resource : k \in DOMAIN new} \cap Missing
    IN IF gone = {} THEN checks ELSE checks \cup {gone}

\* The query asks for one row more than the page: was it there?
MoreBehind(answer, n) == Len(answer) > n

\* What the database answers without a limit, in the query's order.
Results(cur) == LET Before(x, y) == SqlBefore(query.ordering, x, y)
                IN Sortings(QueryRows(query.selection, QueriedActivities(cur)), Before)

(***************************************************************************)
(* fetch(from, count) with the rows listed so far, the current activity    *)
(* and the user's order given: what it leaves in items and hasMore.        *)
(***************************************************************************)
FetchRows(rows, from, count, cur, order) ==
    LET n == IF from + count > Limit THEN Limit - from ELSE count
        UserBefore(x, y) == \/ FixedItemsLessThan(order, x, y)
                            \/ /\ ~FixedItemsLessThan(order, y, x)
                               /\ SqlBefore(query.ordering, x, y)
    IN IF n <= 0
       THEN items' = rows /\ UNCHANGED <<hasMore, checks>>
       ELSE \E result \in Results(cur) :
               LET answer == LimitOffset(result, n + 1, from)
                   page == SubSeq(answer, 1, Lesser(n, Len(answer)))
                   read == {page[k] : k \in DOMAIN page}
               IN /\ hasMore' = MoreBehind(answer, n)
                  /\ checks' = ChecksAfter(page)
                  /\ \E new \in IF query.selection = "UsedResources"
                                THEN {page} ELSE Sortings(read, UserBefore) :
                        items' \in Replacements(rows, new, from)

FetchReset(cur) ==
    LET tag == ActivityTag(cur)
    IN /\ fixed' = LoadedOrder(tag)
       /\ config' = IF query.client THEN SavedOrder(tag, LoadedOrder(tag)) ELSE config
       /\ FetchRows(<<>>, 0, Lesser(Batch, Limit), cur, LoadedOrder(tag))

FetchReload == IF Len(items) > Batch
               THEN FetchReset(current)
               ELSE /\ FetchRows(items, 0, Len(items), current, fixed)
                    /\ UNCHANGED <<fixed, config>>

-------------------------------------------------------------------------------
(***************************************************************************)
(* destinationFor: the number of rows that come before x.  Unlike the      *)
(* query's ORDER BY this order puts the higher resource first.             *)
(***************************************************************************)
ModelBefore(y, x) ==
    LET byResource == y.resource > x.resource
        byField == IF query.ordering = "HighScoredFirst"
                   THEN \/ y.data.score > x.data.score
                        \/ y.data.score = x.data.score /\ byResource
                   ELSE byResource
    IN IF query.selection = "AllResources"
       THEN \/ y.data.link > x.data.link
            \/ y.data.link = x.data.link /\ byField
       ELSE byField

DestinationFor(rows, x, order) ==
    Cardinality({p \in 1 .. Len(rows) :
                    \/ FixedItemsLessThan(order, rows[p], x)
                    \/ ~FixedItemsLessThan(order, x, rows[p]) /\ ModelBefore(rows[p], x)})

\* The row of a resource that is not listed yet.  It is not read from the
\* database: its link status is a guess.
NewRow(r, score) ==
    [resource |-> r,
     data |-> [score |-> score,
               link |-> IF query.selection = "UsedResources" THEN Linked ELSE Unknown]]

WithNewRow(x) == RowsInserted(items, DestinationFor(items, x, fixed), <<x>>)

\* The listed row with its new score, at its new place.
Reposition(row, score) ==
    LET x == [items[row + 1] EXCEPT !.data.score = score]
        rows == [items EXCEPT ![row + 1] = x]
    IN MoveOne(rows, row, DestinationFor(rows, x, fixed))

\* Mutants: the row is not looked for, or the list is not trimmed.
ShowScoreAgain(r, score) ==
    /\ items' = TrimTo(WithNewRow(NewRow(r, score)), Limit)
    /\ UNCHANGED <<hasMore, fixed, config, checks>>

ShowScoreUntrimmed(r, score) ==
    /\ \/ \E row \in Find(items, r) : items' = Reposition(row, score)
       \/ Find(items, r) = {} /\ items' = WithNewRow(NewRow(r, score))
    /\ UNCHANGED <<hasMore, fixed, config, checks>>

\* onResultScoreUpdated.
ShowScore(r, score) ==
    /\ \/ \E row \in Find(items, r) : items' = Reposition(row, score)
       \/ /\ Find(items, r) = {}
          /\ items' = TrimTo(WithNewRow(NewRow(r, score)), Limit)
    /\ UNCHANGED <<hasMore, fixed, config, checks>>

\* Mutants: the place stays free, or the row read replaces the list.
RemoveRowOnly(row) ==
    /\ items' = RowsRemoved(items, row, row)
    /\ UNCHANGED <<hasMore, fixed, config, checks>>

RemoveRowAndStartOver(row) ==
    /\ FetchRows(RowsRemoved(items, row, row), 0, 1, current, fixed)
    /\ UNCHANGED <<fixed, config>>

\* removeResult: the place that becomes free is filled from the database.
RemoveRow(row) ==
    LET rows == RowsRemoved(items, row, row)
    IN /\ IF query.selection = "LinkedResources"
          THEN items' = rows /\ UNCHANGED <<hasMore, checks>>
          ELSE FetchRows(rows, Len(rows), 1, current, fixed)
       /\ UNCHANGED <<fixed, config>>

-------------------------------------------------------------------------------
(***************************************************************************)
(* The steps of the model's thread.                                        *)
(***************************************************************************)
NextSignal == Head(bus)

Receive == /\ bus # <<>>
           /\ bus' = Tail(bus)
           /\ UNCHANGED <<stats, links, activity, query, calls>>

OnResultScoreUpdated ==
    /\ Receive
    /\ SendsResultScoreUpdated(NextSignal)
    /\ ShowScore(NextSignal.resource, NextSignal.score)
    /\ UNCHANGED <<current, timer>>

OnResultRemoved ==
    /\ Receive
    /\ SendsResultRemoved(NextSignal)
    /\ LET shown == Find(items, NextSignal.resource)
           removable == {row \in shown : query.selection = "UsedResources"
                                            \/ items[row + 1].data.link # Linked}
       IN \/ \E row \in removable : RemoveRow(row)
          \/ removable = {} /\ UNCHANGED modelVars
    /\ UNCHANGED <<current, timer>>

OnResultLinked ==
    /\ Receive
    /\ SendsResultLinked(NextSignal)
    /\ ShowScore(NextSignal.resource, 0)
    /\ UNCHANGED <<current, timer>>

OnResultUnlinked ==
    /\ Receive
    /\ SendsResultUnlinked(NextSignal)
    /\ LET shown == Find(items, NextSignal.resource)
       IN \/ shown = {} /\ UNCHANGED modelVars
          \/ \E row \in shown : query.selection = "LinkedResources" /\ RemoveRow(row)
          \/ shown # {} /\ query.selection = "AllResources" /\ FetchReload
    /\ UNCHANGED <<current, timer>>

OnInvalidation ==
    /\ Receive
    /\ SchedulesInvalidation(NextSignal)
    /\ timer' = TRUE
    /\ UNCHANGED <<current, items, hasMore, fixed, config, checks>>

\* Mutant: a simple refresh.
OnCurrentActivityChangedReload ==
    /\ Receive
    /\ NextSignal.kind = "CurrentActivityChanged"
    /\ current' = NextSignal.activity
    /\ IF query.activities = "current"
       THEN FetchRows(items, 0, Len(items), current', fixed) /\ UNCHANGED <<fixed, config>>
       ELSE UNCHANGED modelVars
    /\ UNCHANGED timer

OnCurrentActivityChanged ==
    /\ Receive
    /\ NextSignal.kind = "CurrentActivityChanged"
    /\ current' = NextSignal.activity
    /\ IF query.activities = "current" THEN FetchReset(current') ELSE UNCHANGED modelVars
    /\ UNCHANGED timer

OnDropped ==
    /\ Receive
    /\ Drops(NextSignal)
    /\ UNCHANGED <<current, timer, items, hasMore, fixed, config, checks>>

\* Mutant: the timer is not a single-shot one.
OnResultsInvalidatedRepeatedly ==
    /\ timer
    /\ FetchReload
    /\ UNCHANGED <<stats, links, activity, bus, query, current, timer, calls>>

\* The timeout of the invalidation timer, connected to reload().
OnResultsInvalidated ==
    /\ timer
    /\ timer' = FALSE
    /\ FetchReload
    /\ UNCHANGED <<stats, links, activity, bus, query, current, calls>>

-------------------------------------------------------------------------------
(***************************************************************************)
(* What the program that owns the model does.                              *)
(***************************************************************************)
\* Mutant: canFetchMore() takes the page size for the limit.
FetchMoreOnePage ==
    /\ Len(items) < Batch /\ hasMore
    /\ FetchRows(items, Len(items), Batch, current, fixed)
    /\ UNCHANGED <<stats, links, activity, bus, query, current, timer, fixed, config, calls>>

\* fetchMore(), which views call when canFetchMore() says so.
FetchMore ==
    /\ Len(items) < Limit /\ hasMore
    /\ FetchRows(items, Len(items), Batch, current, fixed)
    /\ UNCHANGED <<stats, links, activity, bus, query, current, timer, fixed, config, calls>>

\* The resources of the rows before the first one that is not linked.
LinkedItems ==
    LET n == CHOOSE k \in 0 .. Len(items) :
                /\ \A p \in 1 .. k : items[p].data.link # NotLinked
                /\ k < Len(items) => items[k + 1].data.link = NotLinked
    IN [p \in 1 .. n |-> items[p].resource]

UseOrder(order) ==
    /\ fixed' = order
    /\ config' = SavedOrder(ActivityTag(current), order)
    /\ UNCHANGED <<stats, links, activity, bus, query, current, timer, hasMore, checks, calls>>

\* The listed linked row that setResultPosition is asked to move.  An assertion of
\* the code says that it is among the LinkedItems.
Movable(r, position) == {row \in Find(items, r) : /\ row # position
                                                 /\ items[row + 1].data.link # NotLinked
                                                 /\ row < Len(LinkedItems)}

OrderWith(row, position) == MoveOne(LinkedItems, row, Lesser(position, Len(LinkedItems) - 1))

\* Mutant: the row is moved before the new order is in use.
MoveResultTooEarly(r, position) ==
    /\ query.client
    /\ position < Len(items)
    /\ \E row \in Movable(r, position) :
          /\ items' = MoveOne(items, row, DestinationFor(items, items[row + 1], fixed))
          /\ UseOrder(OrderWith(row, position))

\* setResultPosition for a linked row that is listed.
MoveResult(r, position) ==
    /\ query.client
    /\ position < Len(items)
    /\ \E row \in Movable(r, position) :
          LET order == OrderWith(row, position)
          IN /\ items' = MoveOne(items, row, DestinationFor(items, items[row + 1], order))
             /\ UseOrder(order)

\* Mutant: the resource may be listed.
PlaceResultAgain(r, position) ==
    /\ query.client
    /\ position <= Len(LinkedItems)
    /\ UseOrder(RowsInserted(LinkedItems, position, <<r>>))
    /\ UNCHANGED items

\* setResultPosition for a resource that will be linked next.
PlaceResult(r, position) ==
    /\ query.client
    /\ Find(items, r) = {}
    /\ position <= Len(LinkedItems)
    /\ UseOrder(RowsInserted(LinkedItems, position, <<r>>))
    /\ UNCHANGED items

-------------------------------------------------------------------------------
(***************************************************************************)
(* Forgetting.  The calls to the manager are not waited for.               *)
(***************************************************************************)
\* A thread has found files missing; the model's thread asks to forget them.
ForgetMissing(gone) ==
    /\ checks' = checks \ {gone}
    /\ calls' = calls \cup gone
    /\ UNCHANGED <<stats, links, activity, bus, query, current, timer, items, hasMore, fixed, config>>

\* forgetResource for a listed row.
ForgetRow(row) ==
    /\ Forgets
    /\ Len(bus) < MaxBus
    /\ calls' = calls \cup {items[row + 1].resource}
    /\ UNCHANGED <<stats, links, activity, bus, query, current, timer, modelVars>>

\* The manager gets to a call: it is for the activities that the query names.
ForgottenByManager(r) ==
    /\ r \in calls
    /\ calls' = calls \ {r}
    /\ ForgetResource(IF query.activities = "any" THEN Any ELSE CurrentTag, r)

-------------------------------------------------------------------------------
\* The model is constructed: FetchReset on what the database holds.
Init ==
    /\ stats \in [Activity -> [Resource -> Score]]
    /\ \A a \in Activity, r \in Resource : stats[a][r] > 0 => <<a, r>> \in Usable
    /\ \/ Uses = "tied"
       \/ \A a \in Activity, r, q \in Resource : stats[a][r] = stats[a][q] => r = q \/ stats[a][r] = 0
    /\ links \in [Activity -> SUBSET Resource]
    /\ \A a \in Activity : {<<a, r>> : r \in links[a]} \subseteq Linkable
    /\ activity \in Activity
    /\ bus = <<>>
    /\ query \in Queries
    /\ current = activity
    /\ timer = FALSE
    /\ calls = {}
    /\ fixed = <<>>
    /\ config = IF query.client THEN [t \in {ActivityTag(current)} |-> <<>>] ELSE <<>>
    /\ \E result \in Results(current) :
          /\ items = SubSeq(result, 1, Lesser(Lesser(Batch, Limit), Len(result)))
          /\ hasMore = MoreBehind(result, Lesser(Batch, Limit))
          /\ LET gone == {items[k].resource : k \in DOMAIN items} \cap Missing
             IN checks = IF gone = {} THEN {} ELSE {gone}

\* Every announcement and call is processed and no reload or check is due.
Settled == bus = <<>> /\ ~timer /\ checks = {} /\ calls = {}

\* A list that is longer than a batch is looked at without new scores, and a file
\* that is missing is not used again.
UsesAllowed == \A a \in Activity, r \in IF Limit <= Batch THEN Missing ELSE Resource :
                   stats'[a][r] \in {0, stats[a][r]}

ManagerStep == /\ IF Lockstep THEN Settled ELSE Len(bus) < MaxBus
               /\ Manager /\ UNCHANGED calls
               /\ UsesAllowed
               /\ UNCHANGED <<query, current, timer, items, hasMore, fixed, config, checks>>

ManagerForgets == /\ \E r \in calls : ForgottenByManager(r)
                  /\ UNCHANGED <<query, current, timer, items, hasMore, fixed, config, checks>>

ModelStep == \/ OnResultScoreUpdated
             \/ OnResultRemoved
             \/ OnResultLinked
             \/ OnResultUnlinked
             \/ OnInvalidation
             \/ OnCurrentActivityChanged
             \/ OnDropped
             \/ OnResultsInvalidated
             \/ \E gone \in checks : ForgetMissing(gone)

ClientStep == /\ Lockstep => Settled
              /\ \/ FetchMore
                 \/ \E r \in Resource, position \in 0 .. Limit - 1 : MoveResult(r, position)
                 \/ \E r \in Resource, position \in 0 .. Limit - 1 : PlaceResult(r, position)
                 \/ \E row \in Rows(items) : ForgetRow(row)

Next == ManagerStep \/ ManagerForgets \/ ModelStep \/ ClientStep

Spec == Init /\ [][Next]_vars

\* The event loop processes what is queued and timers that ran out, and what
\* threads post is not held up by it; the manager gets to every call.
FairSpec == /\ Spec
            /\ WF_vars(ModelStep)
            /\ WF_vars(\E gone \in checks : ForgetMissing(gone))
            /\ WF_vars(ManagerForgets)

\* With a view that goes on asking for more rows while there are some.
ScrollSpec == FairSpec /\ WF_vars(FetchMore)

-------------------------------------------------------------------------------
(***************************************************************************)
(* Properties.                                                             *)
(***************************************************************************)
Item == [resource : Resource, data : [score : Nat, link : LinkStatus]]

ShownResources == {items[p].resource : p \in 1 .. Len(items)}

\* What the query returns now, in the query's order.
SqlResult == CHOOSE result \in Results(current) : TRUE

\* Row by row, the list shows the first rows of the result.
ShowsFirst(n) == /\ Len(items) = n
                 /\ \A p \in 1 .. n : /\ items[p].resource = SqlResult[p].resource
                                      /\ items[p].data.score = SqlResult[p].data.score

\* A list of linked resources that has room for all of them and is read at once.
ReadAtOnce == /\ query.selection = "LinkedResources"
              /\ Cardinality(Resource) <= Limit
              /\ Limit <= Batch

\* The variables hold what the code's types say, and the saved orders and the
\* order in use name each resource at most once.
ModelTypeOK == /\ StoreTypeOK
               /\ WatcherTypeOK
               /\ items \in Seq(Item)
               /\ hasMore \in BOOLEAN
               /\ checks \subseteq SUBSET Resource
               /\ calls \subseteq Resource
               /\ DOMAIN config \subseteq Activity \cup {Any}
               /\ \A order \in {fixed} \cup {config[t] : t \in DOMAIN config} :
                     /\ order \in Seq(Resource)
                     /\ ReadAtOnce => \A j, k \in DOMAIN order : order[j] = order[k] => j = k

\* The model never lists more rows than the query's limit, whatever the
\* announcements, reloads and refills that raced each other.
BoundedRows == Len(items) <= Limit

\* Inserting, refilling after a removal, evicting past the limit, reloading
\* what is cached and resetting together keep the list equal to what the
\* query returns: its first Limit rows, with their scores, in its order.
SettledExact == Settled /\ Limit <= Batch => ShowsFirst(Lesser(Limit, Len(SqlResult)))

\* While a list is read page by page it shows the beginning of the result.
ShowsPages == Settled => /\ Len(items) <= Len(SqlResult)
                         /\ ShowsFirst(Len(items))

\* canFetchMore() never hides a row: when the limit leaves room and the result
\* goes on behind the listed rows, it offers a further page.
OffersMoreRows == Settled /\ Len(items) < Lesser(Limit, Len(SqlResult)) => hasMore

\* A list of linked resources forgets no link and keeps no unlinked resource,
\* although it takes each change from an announcement that arrives after later
\* changes were made, and resets read those changes ahead of their announcements.
LinkedExact ==
    ReadAtOnce /\ query.activities = "current" /\ bus = <<>>
        => ShownResources = LinkedTo(QueriedActivities(current))

\* A list of linked resources that is read at once shows none of them twice,
\* although one may be read by a reset before its link is announced.
LinkedOnce == ReadAtOnce =>
                  \A j, k \in 1 .. Len(items) : items[j].resource = items[k].resource => j = k

\* The rows of such a list are always in the order chosen by the user: the rows
\* that have a place in it first, in that order, whether they came by an
\* announcement or a reset, and however the order was edited.
UserOrderKept == ReadAtOnce =>
                     \A j, k \in 1 .. Len(items) :
                         j < k => ~FixedItemsLessThan(fixed, items[k], items[j])

\* A resource leaves the list only because the announcement just processed is
\* about it, by a reset or a reload, or when a new row needs its place in a full
\* list: a refill from the database never costs a row.
RowsLeaveForAReason ==
    [][\A r \in ShownResources \ ShownResources' :
          \/ timer /\ ~timer'
          \/ bus # <<>> /\ \/ NextSignal.kind \in {"CurrentActivityChanged", "ResourceUnlinked"}
                           \/ NextSignal.kind = "ResourceScoreDeleted" /\ NextSignal.resource = r
                           \/ /\ NextSignal.kind \in {"ResourceScoreUpdated", "ResourceLinked"}
                              /\ NextSignal.resource \notin ShownResources
                              /\ Len(items) = Limit]_vars

\* The list shows no resource twice.  The block moves of replace() need it.
NoDuplicates == \A j, k \in 1 .. Len(items) : items[j].resource = items[k].resource => j = k

\* A list that follows the database reads again what it shows: a resource that
\* the query does not return any more is not shown.
ShowsOnlyMatches == Settled => ShownResources \subseteq {SqlResult[k].resource : k \in DOMAIN SqlResult}

\* Once the manager stops writing, every announcement is processed and a
\* scheduled reload happens.
QuietSettles == <>[][FALSE]_storeVars => <>[]Settled

\* Once the manager stops writing, a view that goes on asking gets all pages.
AllPagesArrive == <>[][FALSE]_storeVars => <>[](ShowsFirst(Lesser(Limit, Len(SqlResult))))

\* Files that are missing leave a list of used resources for good, although the
\* threads find them late, their calls race deletions and reloads, and the rows that
\* take their places may be missing files again.  The activity must come to rest,
\* the timer must not be started anew for ever, and no resource may be listed twice:
\* an announcement takes away one row.
MissingFilesLeave ==
    (/\ query.selection = "UsedResources"
     /\ <>[][FALSE]_activity
     /\ []<>(~timer)
     /\ []NoDuplicates)
        => <>[](ShownResources \cap Missing = {})

===============================================================================
