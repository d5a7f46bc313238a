---------------------------- MODULE ResultQueries ----------------------------
(***************************************************************************)
(* The SELECT statements of a result set, and the watcher's own test of    *)
(* whether an announcement is about a row of the query.                    *)
(*                                                                         *)
(* A statement is the set of the rows that FROM and WHERE leave, their     *)
(* groups, and the sorted list of the groups.  A joined event is a part of *)
(* its row, so a score that is joined with two events counts twice.        *)
(***************************************************************************)
EXTENDS QueryTerms, FiniteSets, FiniteSetsExt

CONSTANTS ApplicationName,   \* the agent that ":current" stands for
          CurrentActivity,   \* the activity that ":current" stands for
          Directory,         \* the type of folders
          DayLength          \* events are counted in fractions of a day

ASSUME QueriesAssumption == DayLength \in Nat \ {0} /\ Directory # <<>>

VARIABLES scoreCache,   \* ResourceScoreCache
          links,        \* ResourceLink
          infos,        \* ResourceInfo
          events,       \* ResourceEvent
          query         \* the query's definition

Null == -1

Key(row) == [activity |-> row.activity, agent |-> row.agent, resource |-> row.resource]

-------------------------------------------------------------------------------
(***************************************************************************)
(* FROM: the rows of the table with what is joined to them.                *)
(***************************************************************************)
\* LEFT JOIN ResourceInfo: no value stands for NULL.
Titles(r) == {info.title : info \in {i \in infos : i.resource = r}}
Mimetypes(r) == {info.mimetype : info \in {i \in infos : i.resource = r}}

\* COALESCE(ri.title, resource).
ShownTitle(r) == IF Titles(r) = {} THEN r ELSE CHOOSE title \in Titles(r) : TRUE

Dated(q) == q.start # NoDate

\* LEFT JOIN ResourceEvent: the times of the events, if the query needs them.
JoinedStarts(q, row) ==
    LET starts == {event.start : event \in {e \in events : Key(e) = Key(row)}}
    IN IF Dated(q) /\ starts # {} THEN starts ELSE {Null}

JoinedRow(row, score, start) ==
    [activity |-> row.activity, agent |-> row.agent, resource |-> row.resource,
     score |-> score.score, firstUpdate |-> score.firstUpdate, lastUpdate |-> score.lastUpdate,
     start |-> start]

NoScore == [score |-> Null, firstUpdate |-> Null, lastUpdate |-> Null]

\* LEFT JOIN ResourceScoreCache.
JoinedScore(row) == LET scores == {s \in scoreCache : Key(s) = Key(row)}
                    IN IF scores = {} THEN NoScore ELSE CHOOSE s \in scores : TRUE

FromScores(q) == UNION {{JoinedRow(s, s, start) : start \in JoinedStarts(q, s)} : s \in scoreCache}

\* Mutant: an inner join.
FromScoredLinks(q) ==
    UNION {{JoinedRow(l, JoinedScore(l), start) : start \in JoinedStarts(q, l)} :
              l \in {k \in links : \E s \in scoreCache : Key(s) = Key(k)}}

FromLinks(q) == UNION {{JoinedRow(l, JoinedScore(l), start) : start \in JoinedStarts(q, l)} : l \in links}

-------------------------------------------------------------------------------
(***************************************************************************)
(* WHERE: the clauses of one filter are alternatives.                      *)
(***************************************************************************)
AgentClause(agent, row) ==
    agent = AnyTag \/ row.agent = (IF agent = CurrentTag THEN ApplicationName ELSE agent)

ActivityClause(activity, row) ==
    activity = AnyTag \/ row.activity = (IF activity = CurrentTag THEN CurrentActivity ELSE activity)

UrlFilterClause(pattern, row) ==
    pattern = <<Star>> \/ Like(row.resource, StarPatternToLike(pattern))

\* A comparison with NULL holds for no row.
MimetypeClause(type, row) ==
    \/ type \in {AnyTag, <<Star>>}
    \/ \E mimetype \in Mimetypes(row.resource) :
          CASE type = FilesTag -> mimetype # Directory /\ mimetype # <<>>
            [] type = DirectoriesTag -> mimetype = Directory
            [] OTHER -> Like(mimetype, StarPatternToLike(type))

\* The title is the one of the table, not the one that is shown.
TitleClause(pattern, row) ==
    \/ pattern = <<Star>>
    \/ \E title \in Titles(row.resource) : Like(title, StarPatternToLike(pattern))

DateClause(q, row) ==
    LET day == row.start \div DayLength
    IN /\ row.start # Null
       /\ IF q.end = NoDate THEN day = q.start ELSE q.start <= day /\ day <= q.end

\* Mutant: the clauses of the urls are joined by AND.
WhereEveryUrl(q, row) ==
    /\ \E agent \in Values(q, "agents") : AgentClause(agent, row)
    /\ \E activity \in Values(q, "activities") : ActivityClause(activity, row)
    /\ \A pattern \in Values(q, "urlFilters") : UrlFilterClause(pattern, row)
    /\ \E type \in Values(q, "types") : MimetypeClause(type, row)
    /\ Dated(q) => DateClause(q, row)
    /\ \E pattern \in Values(q, "titleFilters") : TitleClause(pattern, row)

Where(q, row) ==
    /\ \E agent \in Values(q, "agents") : AgentClause(agent, row)
    /\ \E activity \in Values(q, "activities") : ActivityClause(activity, row)
    /\ \E pattern \in Values(q, "urlFilters") : UrlFilterClause(pattern, row)
    /\ \E type \in Values(q, "types") : MimetypeClause(type, row)
    /\ Dated(q) => DateClause(q, row)
    /\ \E pattern \in Values(q, "titleFilters") : TitleClause(pattern, row)

-------------------------------------------------------------------------------
(***************************************************************************)
(* GROUP BY resource: the aggregates leave out NULL.                       *)
(***************************************************************************)
Known(rows) == {row \in rows : row.score # Null}

\* Mutant: MAX(firstUpdate).
GroupedByLast(r, rows, status) ==
    [resource |-> r,
     title |-> ShownTitle(r),
     score |-> IF Known(rows) = {} THEN Null ELSE MapThenSumSet(LAMBDA row : row.score, Known(rows)),
     firstUpdate |-> IF Known(rows) = {} THEN Null ELSE Max({row.firstUpdate : row \in Known(rows)}),
     lastUpdate |-> IF Known(rows) = {} THEN Null ELSE Max({row.lastUpdate : row \in Known(rows)}),
     linkStatus |-> status]

Grouped(r, rows, status) ==
    [resource |-> r,
     title |-> ShownTitle(r),
     score |-> IF Known(rows) = {} THEN Null ELSE MapThenSumSet(LAMBDA row : row.score, Known(rows)),
     firstUpdate |-> IF Known(rows) = {} THEN Null ELSE Min({row.firstUpdate : row \in Known(rows)}),
     lastUpdate |-> IF Known(rows) = {} THEN Null ELSE Max({row.lastUpdate : row \in Known(rows)}),
     linkStatus |-> status]

Groups(rows, status) ==
    {Grouped(r, {row \in rows : row.resource = r}, status) : r \in {row.resource : row \in rows}}

UsedGroups(q) == Groups({row \in FromScores(q) : Where(q, row)}, 1)
LinkedGroups(q) == Groups({row \in FromLinks(q) : Where(q, row)}, 2)

\* The named tables of allResourcesQuery() do not select the event.
Projected(rows) == {[row EXCEPT !.start = Null] : row \in rows}

\* Mutant: the linked resources are not taken out.
AllGroupsTwice(q) ==
    Groups(Projected({row \in FromLinks(q) : Where(q, row)}), 2)
        \cup Groups(Projected({row \in FromScores(q) : Where(q, row)}), 0)

AllGroups(q) ==
    LET linked == Projected({row \in FromLinks(q) : Where(q, row)})
        used == Projected({row \in FromScores(q) : Where(q, row)})
        isLinked == {row.resource : row \in linked}
    IN Groups(linked, 2) \cup Groups({row \in used : row.resource \notin isLinked}, 0)

\* The named tables have no columns for the type and the title, so a filter on
\* them is an error, and a statement with an error returns no row.
Fails(q) == /\ q.selection = "AllResources"
            /\ \/ \E type \in Values(q, "types") : type \notin {AnyTag, <<Star>>}
               \/ \E pattern \in Values(q, "titleFilters") : pattern # <<Star>>

ResultRows(q) ==
    CASE Fails(q) -> {}
      [] q.selection = "UsedResources" -> UsedGroups(q)
      [] q.selection = "LinkedResources" -> LinkedGroups(q)
      [] OTHER -> AllGroups(q)

-------------------------------------------------------------------------------
(***************************************************************************)
(* ORDER BY, LIMIT and OFFSET.  NULL is less than every number.            *)
(***************************************************************************)
ColumnBefore(ordering, x, y) ==
    CASE ordering = "HighScoredFirst" -> x.score > y.score
      [] ordering = "RecentlyUsedFirst" -> x.lastUpdate > y.lastUpdate
      [] ordering = "RecentlyCreatedFirst" -> x.firstUpdate > y.firstUpdate
      [] ordering = "OrderByTitle" -> TextBefore(x.title, y.title)
      [] OTHER -> FALSE

ResultBefore(ordering, x, y) ==
    \/ x.linkStatus > y.linkStatus
    \/ /\ x.linkStatus = y.linkStatus
       /\ \/ ColumnBefore(ordering, x, y)
          \/ ~ColumnBefore(ordering, y, x) /\ TextBefore(x.resource, y.resource)

\* Every result, at the place that the number of results before it says; and those
\* that the query's page holds.
Sorted(q) ==
    LET rows == ResultRows(q)
        before == [row \in rows |-> {other \in rows : ResultBefore(q.ordering, other, row)}]
    IN [k \in 1 .. Cardinality(rows) |-> CHOOSE row \in rows : Cardinality(before[row]) = k - 1]

Page(q) == IF q.limit > 0
           THEN SubSeq(Sorted(q), q.offset + 1, Min({q.offset + q.limit, Len(Sorted(q))}))
           ELSE Sorted(q)

-------------------------------------------------------------------------------
(***************************************************************************)
(* The watcher: does the query select a row with this key?                 *)
(***************************************************************************)
ActivityMatches(activity) ==
    \/ activity = AnyTag
    \/ \E matcher \in Values(query, "activities") :
          \/ matcher \in {AnyTag, activity}
          \/ matcher = CurrentTag /\ activity = CurrentActivity

AgentMatches(agent) ==
    \/ agent = AnyTag
    \/ \E matcher \in Values(query, "agents") :
          \/ matcher \in {AnyTag, agent}
          \/ matcher = CurrentTag /\ agent = ApplicationName

UrlMatches(url) ==
    \E pattern \in Values(query, "urlFilters") : HasMatch(url, StarPatternToRegex(pattern))

\* The type is empty for a resource without information.
TypeMatches(r) ==
    LET type == IF Mimetypes(r) = {} THEN <<>> ELSE CHOOSE mimetype \in Mimetypes(r) : TRUE
    IN \E matcher \in Values(query, "types") :
           \/ matcher \in {AnyTag, type}
           \/ matcher = FilesTag /\ type # <<>> /\ type # Directory
           \/ matcher = DirectoriesTag /\ type = Directory

EventMatches(agent, r, activity) ==
    AgentMatches(agent) /\ ActivityMatches(activity) /\ UrlMatches(r) /\ TypeMatches(r)

===============================================================================
