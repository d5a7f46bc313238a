------------------------------ MODULE QuickCheck ------------------------------
(***************************************************************************)
(* Queries against a database with arbitrary rows: the tables are filled   *)
(* row by row and a query is built term by term, in any order.  The        *)
(* results are compared with the reference of the library's own random     *)
(* test, which groups and sorts the same rows in memory, and with each     *)
(* other.                                                                  *)
(***************************************************************************)
EXTENDS ResultQueries

CONSTANTS ScoreRows, LinkRows, InfoRows, EventRows,   \* the rows that may be inserted
          TermsUsed,                                  \* the terms that may be added
          Replacements,                               \* the filter terms that setters get
          MaxSize                                     \* bound on rows and terms together

ASSUME SizeAssumption == MaxSize \in Nat

FilterTerms == {t \in TermsUsed : t.term = "Filter"} \cup Replacements

\* Terms are values of the types in terms.h; the setters of a query are for its filters.
ASSUME TermsAssumption ==
    /\ \A t \in TermsUsed :
          \/ t.term = "Filter"
          \/ t.term = "Date"
          \/ t.term = "Setting" /\ \/ t.field \in {"selection", "ordering"}
                                   \/ t.field = "limit" /\ t.value \in Int
                                   \/ t.field = "offset" /\ t.value \in Nat
    /\ \A t \in FilterTerms :
          /\ t.filter \in Filter
          /\ t.filter = "types" => t.values \subseteq Text \cup {AnyTag, FilesTag, DirectoriesTag}
          /\ t.filter \in {"urlFilters", "titleFilters"} => t.values \subseteq Text

\* The columns of the rows: texts are of the alphabet, scores and times are numbers, and
\* no row is about a tag.
ASSUME RowsAssumption ==
    /\ \A row \in ScoreRows : row.score \in Nat /\ row.firstUpdate \in Nat /\ row.lastUpdate \in Nat
    /\ \A row \in ScoreRows \cup LinkRows : /\ row.resource \in Text
                                            /\ row.agent \notin {AnyTag, CurrentTag}
                                            /\ row.activity \notin {AnyTag, CurrentTag}
    /\ \A row \in InfoRows : row.title \in Text /\ row.mimetype \in Text

tables == <<scoreCache, links, infos, events>>
vars == <<scoreCache, links, infos, events, query>>

\* How many terms it takes to build q.
Terms(q) == LET plain == NewQuery(q.selection)
            IN Cardinality(UNION {{filter} \X q[filter] : filter \in Filter})
               + Cardinality({field \in {"ordering", "start", "limit", "offset"} : q[field] # plain[field]})

Size(q) == Cardinality(scoreCache) + Cardinality(links) + Cardinality(infos) + Cardinality(events)
               + Terms(q)

-------------------------------------------------------------------------------
\* A std::set ordered by the primary key takes no second row with the same key.
NewKey(table, row) == \A other \in table : Key(other) # Key(row)

InsertScore(row) == /\ NewKey(scoreCache, row)
                    /\ scoreCache' = scoreCache \cup {row}
                    /\ UNCHANGED <<links, infos, events, query>>

InsertLink(row) == /\ NewKey(links, row)
                   /\ links' = links \cup {row}
                   /\ UNCHANGED <<scoreCache, infos, events, query>>

InsertInfo(row) == /\ \A other \in infos : other.resource # row.resource
                   /\ infos' = infos \cup {row}
                   /\ UNCHANGED <<scoreCache, links, events, query>>

InsertEvent(row) == /\ row \notin events
                    /\ events' = events \cup {row}
                    /\ UNCHANGED <<scoreCache, links, infos, query>>

AddTerm(t) == query' = Pipe(query, t) /\ UNCHANGED tables

SetFilter(t) == query' = Set(query, t.filter, t.values) /\ UNCHANGED tables

ClearFilter(filter) == query' = Clear(query, filter) /\ UNCHANGED tables

Init == /\ scoreCache = {} /\ links = {} /\ infos = {} /\ events = {}
        /\ query \in {NewQuery(selection) : selection \in Select}

Next == /\ \/ \E row \in ScoreRows : InsertScore(row)
           \/ \E row \in LinkRows : InsertLink(row)
           \/ \E row \in InfoRows : InsertInfo(row)
           \/ \E row \in EventRows : InsertEvent(row)
           \/ \E t \in TermsUsed : AddTerm(t)
           \/ \E t \in Replacements : SetFilter(t)
           \/ \E filter \in Filter : ClearFilter(filter)
        /\ Size(query)' <= MaxSize

Spec == Init /\ [][Next]_vars

-------------------------------------------------------------------------------
(***************************************************************************)
(* The reference: fold the rows of each resource, in memory.               *)
(***************************************************************************)
\* The items of a table in the order of their keys, of which only the resource matters.
InKeyOrder(items) ==
    LET resources == SetToSortSeq({item.resource : item \in items}, TextBefore)
    IN FlattenSeq([k \in DOMAIN resources |->
                      SetToSeq({item \in items : item.resource = resources[k]})])

\* groupBy: the runs of items about one resource, which the callers merge.
GroupBy(items) ==
    FoldLeft(LAMBDA groups, item :
                 IF groups = <<>> \/ Head(Last(groups)).resource # item.resource
                 THEN Append(groups, <<item>>)
                 ELSE Append(Front(groups), Append(Last(groups), item)),
             <<>>, items)

MergeScores(acc, item) ==
    [acc EXCEPT !.score = @ + item.score,
                !.lastUpdate = Max({@, item.lastUpdate}),
                !.firstUpdate = Min({@, item.firstUpdate})]

ScoresByResource(items) ==
    LET groups == GroupBy(InKeyOrder(items))
    IN [k \in DOMAIN groups |-> FoldLeft(MergeScores, Head(groups[k]), Tail(groups[k]))]

\* The links of a resource become one item, whose other columns are not compared.
LinksByResource(items) ==
    LET groups == GroupBy(InKeyOrder(items)) IN [k \in DOMAIN groups |-> Head(groups[k])]

\* Column().asc() or Column().desc(), composed with targettedResource().asc().
ReferenceBefore(ordering, x, y) ==
    LET before(v, w) == CASE ordering = "HighScoredFirst" -> v.score > w.score
                          [] ordering = "RecentlyUsedFirst" -> v.lastUpdate > w.lastUpdate
                          [] ordering = "RecentlyCreatedFirst" -> v.firstUpdate > w.firstUpdate
                          [] OTHER -> TextBefore(v.resource, w.resource)
    IN before(x, y) \/ (~before(y, x) /\ TextBefore(x.resource, y.resource))

ResourceTitle(r) == IF \E info \in infos : info.resource = r
                    THEN (CHOOSE info \in infos : info.resource = r).title
                    ELSE r

SameResource(item, result) == item.resource = result.resource /\ ResourceTitle(item.resource) = result.title

RangeEqual(items, results) ==
    /\ Len(items) = Len(results)
    /\ \A k \in DOMAIN items : SameResource(items[k], results[k])

BaseQuery(selection, agent, ordering) ==
    [Pipe(Pipe(NewQuery(selection), Agent({agent})), ActivityTerm({AnyTag})) EXCEPT !.ordering = ordering]

AgentsUsed == {row.agent : row \in scoreCache \cup links}

-------------------------------------------------------------------------------
(***************************************************************************)
(* Properties.                                                             *)
(***************************************************************************)
NoTerms == \E selection \in Select : query = NewQuery(selection)

Listed(rows) == {row.resource : row \in rows}
FoundBy(q) == Listed(ResultRows(q))

\* No row is about the resource of another one.
NoneTwice(rows) == \A j, k \in DOMAIN rows : rows[j].resource = rows[k].resource => j = k

\* Tables keep their primary keys, filters hold no quotes, and no result is
\* listed twice.
QueriesTypeOK ==
    /\ \A table \in {scoreCache, links} : \A x, y \in table : Key(x) = Key(y) => x = y
    /\ \A x, y \in infos : x.resource = y.resource => x = y
    /\ \A pattern \in query.urlFilters \cup query.titleFilters : "'" \notin Range(pattern)
    /\ NoneTwice(Page(query))

\* The used resources of an agent are those of the random test's reference, in each
\* of its four orders: joining, grouping, summing and sorting in SQL lose nothing.
UsedMatchesReference ==
    NoTerms =>
        \A agent \in AgentsUsed, ordering \in Order \ {"OrderByTitle"} :
            LET items == SortSeq(ScoresByResource({s \in scoreCache : s.agent = agent}),
                                 LAMBDA x, y : ReferenceBefore(ordering, x, y))
                results == Page(BaseQuery("UsedResources", agent, ordering))
            IN RangeEqual(items, results) /\ \A k \in DOMAIN items : items[k].score = results[k].score

\* The resources linked by an agent are those of the reference, in the order of urls,
\* whether or not they have a score in the activity they are linked to.
LinkedMatchesReference ==
    NoTerms =>
        \A agent \in AgentsUsed :
            RangeEqual(SortSeq(LinksByResource({l \in links : l.agent = agent}),
                               LAMBDA x, y : ReferenceBefore("OrderByUrl", x, y)),
                       Page(BaseQuery("LinkedResources", agent, "OrderByUrl")))

\* All resources are the linked and the used ones, the linked ones first and none
\* twice, and each has the score that the simpler query gives it.  With a date
\* the scores differ, see Projected.
AllCombines ==
    query.selection = "AllResources" /\ ~Fails(query) =>
        LET all == Sorted(query)
            linked == LinkedGroups(query)
            used == UsedGroups(query)
        IN /\ Range([k \in DOMAIN all |-> all[k].resource]) = Listed(linked) \cup Listed(used)
           /\ Len(all) = Cardinality(Listed(linked) \cup Listed(used))
           /\ \A k \in DOMAIN all : k <= Cardinality(linked) <=> all[k].resource \in Listed(linked)
           /\ ~Dated(query) =>
                 \A k \in DOMAIN all :
                     \E row \in IF all[k].resource \in Listed(linked) THEN linked ELSE used :
                         row.resource = all[k].resource /\ row.score = all[k].score

FilterChanges(filter) == tables' = tables /\ query'[filter] # query[filter]
DateAdded == tables' = tables /\ query.start = NoDate /\ query'.start # NoDate

\* The filters that a statement can have.
Filters == IF query.selection = "AllResources" THEN Filter \ {"types", "titleFilters"} ELSE Filter

\* Terms of one kind are alternatives and terms of different kinds all have to hold:
\* a further value of a filter loses no result, and a first type, url or title, or a
\* date, adds none.
TermsAreAlternatives ==
    [][/\ \A filter \in Filters :
             FilterChanges(filter) /\ query[filter] # {} /\ query[filter] \subseteq query'[filter]
                => FoundBy(query) \subseteq FoundBy(query)'
       /\ \A filter \in Filters \ {"agents", "activities"} :
             FilterChanges(filter) /\ query[filter] = {} => FoundBy(query)' \subseteq FoundBy(query)
       /\ DateAdded => FoundBy(query)' \subseteq FoundBy(query)]_vars

\* An announcement about the row is passed on, and the query selects the row.
Told(s) == EventMatches(s.agent, s.resource, s.activity)
Selected(s) == Where(query, JoinedRow(s, NoScore, Null))

TypePatterns == query.types \ {AnyTag, FilesTag, DirectoriesTag}

\* Nothing that is compared has a letter that LIKE takes for another one.
SpelledAlike(r) == \A text \in {r} \cup Mimetypes(r) \cup query.urlFilters \cup TypePatterns :
                       LowerText(text) = text

\* Urls and types are compared by two formulations of the same filters, LIKE for rows
\* and regular expressions and equality for announcements.  For a query with no other
\* filter than those of urls, types, agents and activities, without backslashes and the
\* empty type, the watcher passes on no announcement about a row that the query does
\* not select; and every one about a row that it selects, if no letter is in upper case
\* and no type has a star.
WatcherAgrees ==
    (/\ ~Dated(query)
     /\ query.titleFilters = {}
     /\ \A pattern \in query.urlFilters \cup TypePatterns : Backslash \notin Range(pattern)
     /\ <<>> \notin query.types) =>
        \A s \in scoreCache \cup links :
            /\ Told(s) => Selected(s)
            /\ (/\ Selected(s)
                /\ SpelledAlike(s.resource)
                /\ \A type \in TypePatterns : Star \notin Range(type)) => Told(s)

\* A filter on the type picks resources of that type whatever resources are selected:
\* the linked resources that it leaves are among all resources that it leaves.
AllHonoursTypes == query.selection = "AllResources" /\ query.titleFilters = {}
                       => Listed(LinkedGroups(query)) \subseteq FoundBy(query)

===============================================================================
