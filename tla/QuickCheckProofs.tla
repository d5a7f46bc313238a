--------------------------- MODULE QuickCheckProofs ---------------------------
(***************************************************************************)
(* What the terms of a query do to its results, for every database and     *)
(* every query.                                                            *)
(***************************************************************************)
EXTENDS QuickCheck, FiniteSetTheorems, TLAPS

Generic == INSTANCE ResultRowsProofs

\* The fields of a query.
QueryFields == Filter \cup {"selection", "ordering", "start", "end", "limit", "offset"}

\* A query has its fields and no others.
QueryShape == query = [field \in QueryFields |-> query[field]]

\* The queries p and q have the same values outside the fields F.
SameBut(p, q, F) == \A field \in QueryFields \ F : p[field] = q[field]

\* What a new query is.
LEMMA NewQueryShape == ASSUME Init PROVE QueryShape
<1>1. PICK selection \in Select : query = NewQuery(selection)
  BY DEF Init
<1>. QED  BY <1>1 DEF QueryShape, NewQuery, QueryFields, Filter

\* A query with another value in one of its fields.
LEMMA FieldSet ==
    ASSUME NEW q, q = [f \in QueryFields |-> q[f]], NEW field \in QueryFields, NEW value,
           NEW p, p = [q EXCEPT ![field] = value]
    PROVE  p = [f \in QueryFields |-> p[f]] /\ SameBut(p, q, {field})
<1>. DEFINE F == QueryFields
<1>1. q = [f \in F |-> q[f]] /\ field \in F
  OBVIOUS
<1>. HIDE DEF F
<1>2. p = [f \in F |-> p[f]] /\ \A f \in F \ {field} : p[f] = q[f]
  BY <1>1
<1>. QED  BY <1>2 DEF F, SameBut

\* A step changes a filter, the dates, or a field that is none of these.
LEMMA StepChanges ==
    ASSUME QueryShape, Next
    PROVE  /\ QueryShape'
           /\ \/ query' = query
              \/ tables' = tables /\ \E F \in {{filter} : filter \in Filter} : SameBut(query', query, F)
              \/ tables' = tables /\ SameBut(query', query, {"start", "end"})
              \/ \E field \in {"selection", "ordering", "limit", "offset"} : SameBut(query', query, {field})
<1>1. CASE query' = query
  BY <1>1 DEF QueryShape
<1>2. ASSUME NEW field \in QueryFields, NEW value, query' = [query EXCEPT ![field] = value]
      PROVE  QueryShape' /\ SameBut(query', query, {field})
  BY <1>2, FieldSet DEF QueryShape
<1>3. ASSUME NEW filter \in Filter, NEW values, tables' = tables, query' = [query EXCEPT ![filter] = values]
      PROVE  /\ QueryShape'
             /\ tables' = tables /\ \E F \in {{f} : f \in Filter} : SameBut(query', query, F)
  <2>1. filter \in QueryFields
    BY DEF QueryFields
  <2>. QED  BY <1>2, <1>3, <2>1
<1>4. ASSUME NEW t \in TermsUsed, AddTerm(t)
      PROVE  /\ QueryShape'
             /\ \/ tables' = tables /\ \E F \in {{f} : f \in Filter} : SameBut(query', query, F)
                \/ tables' = tables /\ SameBut(query', query, {"start", "end"})
                \/ \E field \in {"selection", "ordering", "limit", "offset"} : SameBut(query', query, {field})
  <2>1. query' = Pipe(query, t) /\ tables' = tables
    BY <1>4 DEF AddTerm
  <2>2. CASE t.term = "Filter"
    <3>1. t.filter \in Filter
      BY <2>2, TermsAssumption DEF FilterTerms
    <3>2. Pipe(query, t) = IF t.filter = "titleFilters" THEN Set(query, t.filter, t.values)
                                                       ELSE Add(query, t.filter, t.values)
      BY <2>2 DEF Pipe
    <3>3. \E values : query' = [query EXCEPT ![t.filter] = values]
      BY <2>1, <3>2 DEF Set, Add
    <3>. QED  BY <1>3, <2>1, <3>1, <3>3
  <2>3. CASE t.term = "Date"
    <3>1. query' = [query EXCEPT !.start = t.start, !.end = t.end]
      BY <2>1, <2>3 DEF Pipe
    <3>2. QueryShape' /\ \A field \in QueryFields \ {"start", "end"} : query'[field] = query[field]
      BY <3>1 DEF QueryShape
    <3>. QED  BY <2>1, <3>2 DEF SameBut
  <2>4. CASE t.term = "Setting"
    <3>1. t.field \in {"selection", "ordering", "limit", "offset"}
      BY <2>4, TermsAssumption
    <3>2. query' = [query EXCEPT ![t.field] = t.value]
      BY <2>1, <2>4 DEF Pipe
    <3>3. t.field \in QueryFields
      BY <3>1 DEF QueryFields
    <3>. QED  BY <1>2, <3>1, <3>2, <3>3
  <2>. QED  BY <2>2, <2>3, <2>4, TermsAssumption
<1>5. ASSUME NEW t \in Replacements, SetFilter(t)
      PROVE  /\ QueryShape'
             /\ tables' = tables /\ \E F \in {{f} : f \in Filter} : SameBut(query', query, F)
  <2>1. t.filter \in Filter
    BY TermsAssumption DEF FilterTerms
  <2>2. tables' = tables /\ \E values : query' = [query EXCEPT ![t.filter] = values]
    BY <1>5 DEF SetFilter, Set
  <2>. QED  BY <1>3, <2>1, <2>2
<1>6. ASSUME NEW filter \in Filter, ClearFilter(filter)
      PROVE  /\ QueryShape'
             /\ tables' = tables /\ \E F \in {{f} : f \in Filter} : SameBut(query', query, F)
  <2>1. tables' = tables /\ \E values : query' = [query EXCEPT ![filter] = values]
    BY <1>6 DEF ClearFilter, Clear
  <2>. QED  BY <1>3, <2>1
<1>7. CASE \/ \E row \in ScoreRows : InsertScore(row)
           \/ \E row \in LinkRows : InsertLink(row)
           \/ \E row \in InfoRows : InsertInfo(row)
           \/ \E row \in EventRows : InsertEvent(row)
  BY <1>1, <1>7 DEF InsertScore, InsertLink, InsertInfo, InsertEvent
<1>. QED  BY <1>4, <1>5, <1>6, <1>7 DEF Next

-------------------------------------------------------------------------------
(***************************************************************************)
(* The WHERE clause of two queries that differ in little.                  *)
(***************************************************************************)
\* A further value for a filter that has some loses no row.
LEMMA WhereWider ==
    ASSUME NEW q, NEW p, NEW filter \in Filter, SameBut(p, q, {filter}),
           q[filter] # {}, q[filter] \subseteq p[filter], NEW row, Where(q, row)
    PROVE  Where(p, row)
<1>1. \A f \in Filter : Values(q, f) \subseteq Values(p, f)
  <2>1. SUFFICES ASSUME NEW f \in Filter PROVE Values(q, f) \subseteq Values(p, f)
    OBVIOUS
  <2>2. CASE f = filter
    BY <2>2 DEF Values
  <2>3. CASE f # filter
    <3>1. p[f] = q[f]
      BY <2>3 DEF SameBut, QueryFields
    <3>. QED  BY <3>1 DEF Values
  <2>. QED  BY <2>2, <2>3
<1>2. /\ \E agent \in Values(p, "agents") : AgentClause(agent, row)
      /\ \E activity \in Values(p, "activities") : ActivityClause(activity, row)
      /\ \E pattern \in Values(p, "urlFilters") : UrlFilterClause(pattern, row)
      /\ \E type \in Values(p, "types") : MimetypeClause(type, row)
      /\ \E pattern \in Values(p, "titleFilters") : TitleClause(pattern, row)
  BY <1>1 DEF Where, Filter
<1>3. Dated(p) => DateClause(p, row)
  <2>1. p.start = q.start /\ p.end = q.end
    BY DEF SameBut, QueryFields, Filter
  <2>. QED  BY <2>1 DEF Where, Dated, DateClause
<1>. QED  BY <1>2, <1>3 DEF Where

\* A first type, url or title adds none: without one the clause holds for every row.
LEMMA WhereNarrower ==
    ASSUME NEW q, NEW p, NEW filter \in {"types", "urlFilters", "titleFilters"}, SameBut(p, q, {filter}),
           q[filter] = {}, NEW row, Where(p, row)
    PROVE  Where(q, row)
<1>1. \A f \in QueryFields : f # filter => p[f] = q[f]
  BY DEF SameBut
<1>2. \A f \in Filter : f # filter => Values(p, f) = Values(q, f)
  BY <1>1 DEF Values, QueryFields
<1>3. \E agent \in Values(q, "agents") : AgentClause(agent, row)
  BY <1>2 DEF Where, Filter
<1>4. \E activity \in Values(q, "activities") : ActivityClause(activity, row)
  BY <1>2 DEF Where, Filter
<1>5. \E pattern \in Values(q, "urlFilters") : UrlFilterClause(pattern, row)
  <2>1. CASE filter = "urlFilters"
    <3>1. Values(q, "urlFilters") = {<<Star>>}
      BY <2>1 DEF Values, Default
    <3>2. UrlFilterClause(<<Star>>, row)
      BY DEF UrlFilterClause
    <3>. QED  BY <3>1, <3>2
  <2>. QED  BY <1>2, <2>1 DEF Where, Filter
<1>6. \E type \in Values(q, "types") : MimetypeClause(type, row)
  <2>1. CASE filter = "types"
    <3>1. Values(q, "types") = {AnyTag}
      BY <2>1 DEF Values, Default
    <3>2. MimetypeClause(AnyTag, row)
      BY DEF MimetypeClause
    <3>. QED  BY <3>1, <3>2
  <2>. QED  BY <1>2, <2>1 DEF Where, Filter
<1>7. \E pattern \in Values(q, "titleFilters") : TitleClause(pattern, row)
  <2>1. CASE filter = "titleFilters"
    <3>1. Values(q, "titleFilters") = {<<Star>>}
      BY <2>1 DEF Values, Default
    <3>2. TitleClause(<<Star>>, row)
      BY DEF TitleClause
    <3>. QED  BY <3>1, <3>2
  <2>. QED  BY <1>2, <2>1 DEF Where, Filter
<1>8. Dated(q) => DateClause(q, row)
  <2>1. p.start = q.start /\ p.end = q.end
    BY <1>1 DEF QueryFields, Filter
  <2>. QED  BY <2>1 DEF Where, Dated, DateClause
<1>. QED  BY <1>3, <1>4, <1>5, <1>6, <1>7, <1>8 DEF Where

\* The clauses look at a row's keys and its event only.
LEMMA WhereUndated ==
    ASSUME NEW q, NEW p, SameBut(p, q, {"start", "end"}), ~Dated(q),
           NEW row, NEW other, Where(p, row),
           row.activity = other.activity, row.agent = other.agent, row.resource = other.resource
    PROVE  Where(q, other)
<1>1. \A f \in Filter : Values(p, f) = Values(q, f)
  BY DEF SameBut, QueryFields, Filter, Values
<1>2. /\ \A v : AgentClause(v, row) <=> AgentClause(v, other)
      /\ \A v : ActivityClause(v, row) <=> ActivityClause(v, other)
      /\ \A v : UrlFilterClause(v, row) <=> UrlFilterClause(v, other)
  BY DEF AgentClause, ActivityClause, UrlFilterClause
<1>3. \A v : MimetypeClause(v, row) <=> MimetypeClause(v, other)
  BY DEF MimetypeClause
<1>4. \A v : TitleClause(v, row) <=> TitleClause(v, other)
  BY DEF TitleClause
<1>. QED  BY <1>1, <1>2, <1>3, <1>4 DEF Where, Filter

-------------------------------------------------------------------------------
(***************************************************************************)
(* The resources that a query finds.                                       *)
(***************************************************************************)
ScoresOf(q) == {row \in FromScores(q) : Where(q, row)}
LinksOf(q) == {row \in FromLinks(q) : Where(q, row)}

\* Rows are grouped by resource, and none is lost.
LEMMA GroupsListed ==
    ASSUME NEW rows, NEW status
    PROVE  Listed(Groups(rows, status)) = Listed(rows)
<1>1. ASSUME NEW r, NEW some
      PROVE  Grouped(r, some, status).resource = r
  BY DEF Grouped
<1>. DEFINE named == {row.resource : row \in rows}
            of(r) == {row \in rows : row.resource = r}
<1>2. Groups(rows, status) = {Grouped(r, of(r), status) : r \in named}
  BY DEF Groups
<1>. HIDE DEF named, of
<1>3. {g.resource : g \in Groups(rows, status)} = named
  <2>1. ASSUME NEW g \in Groups(rows, status)
        PROVE  g.resource \in named
    <3>1. PICK r \in named : g = Grouped(r, of(r), status)
      BY <1>2, <2>1
    <3>. QED  BY <1>1, <3>1
  <2>2. ASSUME NEW r \in named
        PROVE  \E g \in Groups(rows, status) : g.resource = r
    <3>1. Grouped(r, of(r), status) \in Groups(rows, status)
      BY <1>2
    <3>. QED  BY <1>1, <3>1
  <2>. QED  BY <2>1, <2>2
<1>. QED  BY <1>3 DEF Listed, named

\* A row of a table with what is joined to it.
LEMMA RowFields ==
    ASSUME NEW row, NEW score, NEW start
    PROVE  LET joined == JoinedRow(row, score, start)
           IN /\ joined.activity = row.activity /\ joined.agent = row.agent
              /\ joined.resource = row.resource
              /\ [joined EXCEPT !.start = Null] = JoinedRow(row, score, Null)
BY DEF JoinedRow

\* What the FROM clauses are.
LEMMA FromAre ==
    ASSUME NEW q
    PROVE  /\ \A row : row \in FromScores(q) <=>
                           \E s \in scoreCache : \E start \in JoinedStarts(q, s) : row = JoinedRow(s, s, start)
           /\ \A row : row \in FromLinks(q) <=>
                           \E l \in links : \E start \in JoinedStarts(q, l) : row = JoinedRow(l, JoinedScore(l), start)
BY DEF FromScores, FromLinks

\* To leave out the event leaves the resources.
LEMMA ProjectedListed ==
    ASSUME NEW q
    PROVE  /\ Listed(Projected(ScoresOf(q))) = Listed(ScoresOf(q))
           /\ Listed(Projected(LinksOf(q))) = Listed(LinksOf(q))
<1>1. \A row \in ScoresOf(q) \cup LinksOf(q) : [row EXCEPT !.start = Null].resource = row.resource
  <2>1. SUFFICES ASSUME NEW row \in FromScores(q) \cup FromLinks(q)
                 PROVE  [row EXCEPT !.start = Null].resource = row.resource
    BY DEF ScoresOf, LinksOf
  <2>2. \E x, score, start : row = JoinedRow(x, score, start)
    BY <2>1, FromAre
  <2>. QED  BY <2>2 DEF JoinedRow
<1>2. ASSUME NEW rows, \A row \in rows : [row EXCEPT !.start = Null].resource = row.resource
      PROVE  Listed(Projected(rows)) = Listed(rows)
  <2>1. ASSUME NEW r \in Listed(Projected(rows))
        PROVE  r \in Listed(rows)
    <3>1. PICK row \in rows : r = [row EXCEPT !.start = Null].resource
      BY <2>1 DEF Listed, Projected
    <3>. QED  BY <1>2, <3>1 DEF Listed
  <2>2. ASSUME NEW r \in Listed(rows)
        PROVE  r \in Listed(Projected(rows))
    <3>1. PICK row \in rows : r = row.resource
      BY <2>2 DEF Listed
    <3>2. [row EXCEPT !.start = Null] \in Projected(rows) /\ [row EXCEPT !.start = Null].resource = r
      BY <1>2, <3>1 DEF Projected
    <3>. QED  BY <3>2 DEF Listed
  <2>. QED  BY <2>1, <2>2
<1>. QED  BY <1>1, <1>2

\* What a query finds: for all resources, the linked and the used ones.
Found(q) == IF Fails(q) THEN {}
            ELSE IF q.selection = "UsedResources" THEN Listed(ScoresOf(q))
            ELSE IF q.selection = "LinkedResources" THEN Listed(LinksOf(q))
            ELSE Listed(LinksOf(q)) \cup Listed(ScoresOf(q))

\* All resources.
LEMMA AllListed ==
    ASSUME NEW q
    PROVE  Listed(AllGroups(q)) = Listed(LinksOf(q)) \cup Listed(ScoresOf(q))
<1>. DEFINE linked == Projected(LinksOf(q))
            used == Projected(ScoresOf(q))
            isLinked == {row.resource : row \in linked}
            others == {row \in used : row.resource \notin isLinked}
<1>1. AllGroups(q) = Groups(linked, 2) \cup Groups(others, 0)
  BY DEF AllGroups, ScoresOf, LinksOf
<1>2. Listed(linked) = Listed(LinksOf(q)) /\ Listed(used) = Listed(ScoresOf(q))
  BY ProjectedListed
<1>. HIDE DEF linked, used
<1>3. Listed(others) \cup Listed(linked) = Listed(used) \cup Listed(linked)
  <2>0. isLinked = Listed(linked)
    BY DEF Listed
  <2>1. \A row \in used : row.resource \in Listed(linked) \/ row \in others
    <3>. HIDE DEF isLinked
    <3>. QED  BY <2>0
  <2>2. others \subseteq used
    OBVIOUS
  <2>. HIDE DEF others
  <2>3. \A r : r \in Listed(used) => r \in Listed(linked) \/ r \in Listed(others)
    BY <2>1 DEF Listed
  <2>4. \A r : r \in Listed(others) => r \in Listed(used)
    BY <2>2 DEF Listed
  <2>. QED  BY <2>3, <2>4
<1>. HIDE DEF others
<1>4. Listed(AllGroups(q)) = Listed(Groups(linked, 2)) \cup Listed(Groups(others, 0))
  BY <1>1 DEF Listed
<1>5. Listed(AllGroups(q)) = Listed(linked) \cup Listed(others)
  BY <1>4, GroupsListed
<1>. QED  BY <1>2, <1>3, <1>5

\* Each selection.
LEMMA FoundAre == ASSUME NEW q PROVE FoundBy(q) = Found(q)
<1>1. CASE Fails(q)
  <2>1. q.selection = "AllResources"
    BY <1>1 DEF Fails
  <2>2. ResultRows(q) = {}
    BY <1>1, <2>1 DEF ResultRows
  <2>. QED  BY <1>1, <2>2 DEF FoundBy, Found, Listed
<1>2. CASE ~Fails(q) /\ q.selection = "UsedResources"
  <2>1. ResultRows(q) = Groups(ScoresOf(q), 1)
    BY <1>2 DEF ResultRows, UsedGroups, ScoresOf
  <2>. QED  BY <1>2, <2>1, GroupsListed DEF FoundBy, Found
<1>3. CASE ~Fails(q) /\ q.selection = "LinkedResources"
  <2>1. ResultRows(q) = Groups(LinksOf(q), 2)
    BY <1>3 DEF ResultRows, LinkedGroups, LinksOf
  <2>. QED  BY <1>3, <2>1, GroupsListed DEF FoundBy, Found
<1>4. CASE ~Fails(q) /\ q.selection \notin {"UsedResources", "LinkedResources"}
  <2>1. ResultRows(q) = AllGroups(q)
    BY <1>4 DEF ResultRows
  <2>. QED  BY <1>4, <2>1, AllListed DEF FoundBy, Found
<1>. QED  BY <1>1, <1>2, <1>3, <1>4

-------------------------------------------------------------------------------
(***************************************************************************)
(* What two queries find that differ in little.                            *)
(***************************************************************************)
\* A filter that a statement for the selection can have does not make it fail.
LEMMA FailsAlike ==
    ASSUME NEW q, NEW p, NEW F \in {{filter} : filter \in Filter} \cup {{"start", "end"}}, SameBut(p, q, F),
           q.selection = "AllResources" => "types" \notin F /\ "titleFilters" \notin F
    PROVE  Fails(p) = Fails(q) /\ p.selection = q.selection
<1>1. p.selection = q.selection
  BY DEF SameBut, QueryFields, Filter
<1>2. CASE q.selection = "AllResources"
  <2>1. p["types"] = q["types"] /\ p["titleFilters"] = q["titleFilters"]
    BY <1>2 DEF SameBut, QueryFields, Filter
  <2>2. Values(p, "types") = Values(q, "types") /\ Values(p, "titleFilters") = Values(q, "titleFilters")
    BY <2>1 DEF Values
  <2>. QED  BY <1>1, <2>2 DEF Fails
<1>3. CASE q.selection # "AllResources"
  BY <1>1, <1>3 DEF Fails
<1>. QED  BY <1>1, <1>2, <1>3

\* Queries that fail alike: what the one's clauses leave decides.
LEMMA FoundLess ==
    ASSUME NEW q, NEW p, Fails(p) = Fails(q), p.selection = q.selection,
           Listed(ScoresOf(p)) \subseteq Listed(ScoresOf(q)), Listed(LinksOf(p)) \subseteq Listed(LinksOf(q))
    PROVE  FoundBy(p) \subseteq FoundBy(q)
BY FoundAre DEF Found

\* The joined rows are the same when the dates are.
LEMMA FromAlike ==
    ASSUME NEW q, NEW p, p.start = q.start
    PROVE  FromScores(p) = FromScores(q) /\ FromLinks(p) = FromLinks(q)
<1>1. \A row : JoinedStarts(p, row) = JoinedStarts(q, row)
  BY DEF JoinedStarts, Dated
<1>2. \A row : row \in FromScores(p) <=> row \in FromScores(q)
  BY <1>1, FromAre
<1>3. \A row : row \in FromLinks(p) <=> row \in FromLinks(q)
  BY <1>1, FromAre
<1>. QED  BY <1>2, <1>3

\* What holds for more rows finds more.
LEMMA WhereFinds ==
    ASSUME NEW q, NEW p, p.start = q.start, \A row : Where(p, row) => Where(q, row)
    PROVE  Listed(ScoresOf(p)) \subseteq Listed(ScoresOf(q)) /\ Listed(LinksOf(p)) \subseteq Listed(LinksOf(q))
<1>1. ScoresOf(p) \subseteq ScoresOf(q) /\ LinksOf(p) \subseteq LinksOf(q)
  BY FromAlike DEF ScoresOf, LinksOf
<1>. QED  BY <1>1 DEF Listed

\* A further value.
LEMMA MoreValuesFindMore ==
    ASSUME NEW q, NEW p, NEW filter \in Filter, SameBut(p, q, {filter}),
           q.selection = "AllResources" => filter \notin {"types", "titleFilters"},
           q[filter] # {}, q[filter] \subseteq p[filter]
    PROVE  FoundBy(q) \subseteq FoundBy(p)
<1>1. p.start = q.start /\ SameBut(q, p, {filter})
  BY DEF SameBut, QueryFields, Filter
<1>2. \A row : Where(q, row) => Where(p, row)
  BY WhereWider
<1>3. Listed(ScoresOf(q)) \subseteq Listed(ScoresOf(p)) /\ Listed(LinksOf(q)) \subseteq Listed(LinksOf(p))
  BY <1>1, <1>2, WhereFinds
<1>4. Fails(p) = Fails(q) /\ p.selection = q.selection
  BY FailsAlike
<1>. QED  BY <1>3, <1>4, FoundLess

\* A first type, url or title.
LEMMA FirstValueFindsLess ==
    ASSUME NEW q, NEW p, NEW filter \in {"types", "urlFilters", "titleFilters"}, SameBut(p, q, {filter}),
           q.selection = "AllResources" => filter \notin {"types", "titleFilters"},
           q[filter] = {}
    PROVE  FoundBy(p) \subseteq FoundBy(q)
<1>1. p.start = q.start /\ filter \in Filter
  BY DEF SameBut, QueryFields, Filter
<1>2. \A row : Where(p, row) => Where(q, row)
  BY WhereNarrower
<1>3. Listed(ScoresOf(p)) \subseteq Listed(ScoresOf(q)) /\ Listed(LinksOf(p)) \subseteq Listed(LinksOf(q))
  BY <1>1, <1>2, WhereFinds
<1>4. Fails(p) = Fails(q) /\ p.selection = q.selection
  BY <1>1, FailsAlike
<1>. QED  BY <1>3, <1>4, FoundLess

\* A date: each row that is joined with an event is one without it.
LEMMA DateFindsLess ==
    ASSUME NEW q, NEW p, SameBut(p, q, {"start", "end"}), ~Dated(q)
    PROVE  FoundBy(p) \subseteq FoundBy(q)
<1>1. \A row : JoinedStarts(q, row) = {Null}
  BY DEF JoinedStarts
<1>2. Listed(ScoresOf(p)) \subseteq Listed(ScoresOf(q))
  <2>1. SUFFICES ASSUME NEW row \in FromScores(p), Where(p, row)
                 PROVE  \E other \in FromScores(q) : Where(q, other) /\ other.resource = row.resource
    BY DEF Listed, ScoresOf
  <2>2. PICK s \in scoreCache : \E start \in JoinedStarts(p, s) : row = JoinedRow(s, s, start)
    BY FromAre
  <2>3. PICK start \in JoinedStarts(p, s) : row = JoinedRow(s, s, start)
    BY <2>2
  <2>. DEFINE other == JoinedRow(s, s, Null)
  <2>4. other \in FromScores(q)
    BY <1>1, FromAre
  <2>5. row.activity = other.activity /\ row.agent = other.agent /\ row.resource = other.resource
    BY <2>3, RowFields
  <2>. HIDE DEF other
  <2>6. Where(q, other)
    BY <2>1, <2>5, WhereUndated
  <2>. QED  BY <2>4, <2>5, <2>6
<1>3. Listed(LinksOf(p)) \subseteq Listed(LinksOf(q))
  <2>1. SUFFICES ASSUME NEW row \in FromLinks(p), Where(p, row)
                 PROVE  \E other \in FromLinks(q) : Where(q, other) /\ other.resource = row.resource
    BY DEF Listed, LinksOf
  <2>2. PICK l \in links : \E start \in JoinedStarts(p, l) : row = JoinedRow(l, JoinedScore(l), start)
    BY FromAre
  <2>3. PICK start \in JoinedStarts(p, l) : row = JoinedRow(l, JoinedScore(l), start)
    BY <2>2
  <2>. DEFINE other == JoinedRow(l, JoinedScore(l), Null)
  <2>4. other \in FromLinks(q)
    BY <1>1, FromAre
  <2>5. row.activity = other.activity /\ row.agent = other.agent /\ row.resource = other.resource
    BY <2>3, RowFields
  <2>. HIDE DEF other
  <2>6. Where(q, other)
    BY <2>1, <2>5, WhereUndated
  <2>. QED  BY <2>4, <2>5, <2>6
<1>4. Fails(p) = Fails(q) /\ p.selection = q.selection
  BY FailsAlike
<1>. QED  BY <1>2, <1>3, <1>4, FoundLess

-------------------------------------------------------------------------------
(***************************************************************************)
(* A step that changes the query only.                                     *)
(***************************************************************************)
\* The parts of a statement of the next state's query.
LEMMA NextWhere ==
    ASSUME tables' = tables
    PROVE  \A row : Where(query, row)' <=> Where(query', row)
<1>1. infos' = infos
  BY DEF tables
<1>2. \A r : Mimetypes(r)' = Mimetypes(r)
  BY <1>1 DEF Mimetypes
<1>3. \A r : Titles(r)' = Titles(r)
  BY <1>1 DEF Titles
<1>4. \A type, row : MimetypeClause(type, row)' <=> MimetypeClause(type, row)
  BY <1>2 DEF MimetypeClause
<1>5. \A pattern, row : TitleClause(pattern, row)' <=> TitleClause(pattern, row)
  BY <1>3 DEF TitleClause
<1>. QED  BY <1>4, <1>5 DEF Where

\* The joined rows.
LEMMA NextFrom ==
    ASSUME tables' = tables
    PROVE  FromScores(query)' = FromScores(query') /\ FromLinks(query)' = FromLinks(query')
<1>1. scoreCache' = scoreCache /\ links' = links /\ events' = events
  BY DEF tables
<1>2. \A row : JoinedStarts(query, row)' = JoinedStarts(query', row)
  BY <1>1 DEF JoinedStarts
<1>3. \A row : JoinedScore(row)' = JoinedScore(row)
  BY <1>1 DEF JoinedScore
<1>4. FromScores(query)' = FromScores(query')
  BY <1>1, <1>2 DEF FromScores
<1>5. FromLinks(query)' = FromLinks(query')
  BY <1>1, <1>2, <1>3 DEF FromLinks
<1>. QED  BY <1>4, <1>5

\* What the query finds, as a formula of the state.
LEMMA QueryFinds == FoundBy(query) = Found(query)
BY FoundAre

\* What it finds.
LEMMA NextFound ==
    ASSUME tables' = tables
    PROVE  FoundBy(query)' = FoundBy(query')
<1>0. (FoundBy(query) = Found(query))'
  BY QueryFinds, PTL
<1>1. FoundBy(query)' = Found(query)'
  BY <1>0
<1>2. /\ Listed(ScoresOf(query))' = Listed(ScoresOf(query'))
      /\ Listed(LinksOf(query))' = Listed(LinksOf(query'))
  BY NextWhere, NextFrom DEF Listed, ScoresOf, LinksOf
<1>3. Fails(query)' = Fails(query')
  BY DEF Fails
<1>4. Found(query)' = Found(query')
  BY <1>2, <1>3 DEF Found
<1>. QED  BY <1>1, <1>4, FoundAre

\* A step that changes a filter changes nothing else of the query, and one that adds a
\* date changes the dates only.
LEMMA WhatChanged ==
    ASSUME QueryShape, Next
    PROVE  /\ \A filter \in Filter : query'[filter] # query[filter] => SameBut(query', query, {filter})
           /\ query'.start # query.start => SameBut(query', query, {"start", "end"})
<1>1. \/ query' = query
      \/ \E F \in {{filter} : filter \in Filter} : SameBut(query', query, F)
      \/ SameBut(query', query, {"start", "end"})
      \/ \E field \in {"selection", "ordering", "limit", "offset"} : SameBut(query', query, {field})
  BY StepChanges
<1>2. ASSUME NEW filter \in Filter, query'[filter] # query[filter]
      PROVE  SameBut(query', query, {filter})
  <2>1. ~SameBut(query', query, {"start", "end"})
    BY <1>2 DEF SameBut, Filter, QueryFields
  <2>2. \A field \in {"selection", "ordering", "limit", "offset"} : ~SameBut(query', query, {field})
    BY <1>2 DEF SameBut, Filter, QueryFields
  <2>3. \A f \in Filter : SameBut(query', query, {f}) => f = filter
    BY <1>2 DEF SameBut, QueryFields
  <2>. QED  BY <1>1, <1>2, <2>1, <2>2, <2>3
<1>3. ASSUME query'.start # query.start
      PROVE  SameBut(query', query, {"start", "end"})
  <2>1. \A f \in Filter : ~SameBut(query', query, {f})
    BY <1>3 DEF SameBut, Filter, QueryFields
  <2>2. \A field \in {"selection", "ordering", "limit", "offset"} : ~SameBut(query', query, {field})
    BY <1>3 DEF SameBut, Filter, QueryFields
  <2>. QED  BY <1>1, <1>3, <2>1, <2>2
<1>. QED  BY <1>2, <1>3

-------------------------------------------------------------------------------
(***************************************************************************)
(* The theorems.                                                           *)
(***************************************************************************)
\* A query always has its fields: no term puts anything else in it.
THEOREM ShapeKept == Spec => []QueryShape
<1>1. Init => QueryShape
  BY NewQueryShape
<1>2. QueryShape /\ [Next]_vars => QueryShape'
  BY StepChanges DEF vars, QueryShape
<1>. QED  BY <1>1, <1>2, PTL DEF Spec

\* Terms of one kind are alternatives and terms of different kinds all have to hold:
\* for every database, a further value of a filter loses no result, and a first type,
\* url or title, or a date, adds none.
THEOREM AlternativeTerms == Spec => TermsAreAlternatives
<1>. DEFINE Wider == \A filter \in Filters :
                        FilterChanges(filter) /\ query[filter] # {} /\ query[filter] \subseteq query'[filter]
                            => FoundBy(query) \subseteq FoundBy(query)'
            Narrower == \A filter \in Filters \ {"agents", "activities"} :
                           FilterChanges(filter) /\ query[filter] = {} => FoundBy(query)' \subseteq FoundBy(query)
            Dates == DateAdded => FoundBy(query)' \subseteq FoundBy(query)
<1>1. ASSUME QueryShape, Next
      PROVE  Wider /\ Narrower /\ Dates
  <2>1. \A filter \in Filters : filter \in Filter
                                /\ (query.selection = "AllResources" => filter \notin {"types", "titleFilters"})
    BY DEF Filters
  <2>2. ASSUME NEW filter \in Filters, FilterChanges(filter), query[filter] # {},
               query[filter] \subseteq query'[filter]
        PROVE  FoundBy(query) \subseteq FoundBy(query)'
    <3>1. FoundBy(query)' = FoundBy(query') /\ query'[filter] # query[filter]
      BY <2>2, NextFound DEF FilterChanges
    <3>2. SameBut(query', query, {filter})
      BY <1>1, <2>1, <3>1, WhatChanged
    <3>3. FoundBy(query) \subseteq FoundBy(query')
      BY <2>1, <2>2, <3>2, MoreValuesFindMore
    <3>. QED  BY <3>1, <3>3
  <2>3. ASSUME NEW filter \in Filters \ {"agents", "activities"}, FilterChanges(filter), query[filter] = {}
        PROVE  FoundBy(query)' \subseteq FoundBy(query)
    <3>1. FoundBy(query)' = FoundBy(query') /\ query'[filter] # query[filter]
      BY <2>3, NextFound DEF FilterChanges
    <3>2. SameBut(query', query, {filter})
      BY <1>1, <2>1, <3>1, WhatChanged
    <3>3. filter \in {"types", "urlFilters", "titleFilters"}
      BY <2>1, <2>3 DEF Filter
    <3>4. FoundBy(query') \subseteq FoundBy(query)
      BY <2>1, <2>3, <3>2, <3>3, FirstValueFindsLess
    <3>. QED  BY <3>1, <3>4
  <2>4. ASSUME DateAdded
        PROVE  FoundBy(query)' \subseteq FoundBy(query)
    <3>1. FoundBy(query)' = FoundBy(query') /\ query'.start # query.start /\ ~Dated(query)
      BY <2>4, NextFound DEF DateAdded, Dated
    <3>2. SameBut(query', query, {"start", "end"})
      BY <1>1, <3>1, WhatChanged
    <3>. QED  BY <3>1, <3>2, DateFindsLess
  <2>. QED  BY <2>2, <2>3, <2>4
<1>2. QueryShape /\ [Next]_vars => [Wider /\ Narrower /\ Dates]_vars
  BY <1>1
<1>. QED  BY <1>2, ShapeKept, PTL DEF Spec, TermsAreAlternatives

\* All resources are the linked and the used ones, none twice, those that are linked
\* marked so, and without a date each has the score that the simpler query gives it:
\* for every database and every query, what AllCombines says before rows are sorted.
THEOREM AllResourcesCombine ==
    ASSUME NEW q
    PROVE  /\ Listed(AllGroups(q)) = Listed(LinkedGroups(q)) \cup Listed(UsedGroups(q))
           /\ \A g, h \in AllGroups(q) : g.resource = h.resource => g = h
           /\ \A g \in AllGroups(q) : g.linkStatus = 2 <=> g.resource \in Listed(LinkedGroups(q))
           /\ ~Dated(q) =>
                 \A g \in AllGroups(q) :
                     \E row \in IF g.resource \in Listed(LinkedGroups(q)) THEN LinkedGroups(q) ELSE UsedGroups(q) :
                         row.resource = g.resource /\ row.score = g.score
<1>. DEFINE linked == Projected(LinksOf(q))
            used == Projected(ScoresOf(q))
            isLinked == {row.resource : row \in linked}
            others == {row \in used : row.resource \notin isLinked}
            of(rows, r) == {row \in rows : row.resource = r}
<1>1. AllGroups(q) = Groups(linked, 2) \cup Groups(others, 0)
  BY DEF AllGroups, ScoresOf, LinksOf
<1>2. LinkedGroups(q) = Groups(LinksOf(q), 2) /\ UsedGroups(q) = Groups(ScoresOf(q), 1)
  BY DEF LinkedGroups, UsedGroups, ScoresOf, LinksOf
<1>3. /\ Listed(linked) = Listed(LinksOf(q)) /\ Listed(LinkedGroups(q)) = Listed(LinksOf(q))
      /\ Listed(UsedGroups(q)) = Listed(ScoresOf(q)) /\ isLinked = Listed(linked)
  <2>1. Listed(linked) = Listed(LinksOf(q))
    BY ProjectedListed
  <2>2. Listed(LinkedGroups(q)) = Listed(LinksOf(q))
    BY <1>2, GroupsListed
  <2>3. Listed(UsedGroups(q)) = Listed(ScoresOf(q))
    BY <1>2, GroupsListed
  <2>4. isLinked = Listed(linked)
    BY DEF Listed
  <2>. QED  BY <2>1, <2>2, <2>3, <2>4
<1>4. Listed(AllGroups(q)) = Listed(LinkedGroups(q)) \cup Listed(UsedGroups(q))
  BY <1>3, AllListed
<1>5. \A rows, status, g : g \in Groups(rows, status) <=>
                              \E r \in Listed(rows) : g = Grouped(r, of(rows, r), status)
  BY DEF Groups, Listed
<1>6. \A r, rows, status : Grouped(r, rows, status).resource = r /\ Grouped(r, rows, status).linkStatus = status
  BY DEF Grouped
<1>7. \A r, rows : Grouped(r, rows, 0).score = Grouped(r, rows, 1).score
  BY DEF Grouped
<1>8. /\ \A r \in Listed(others) : r \in Listed(used) /\ r \notin isLinked
      /\ \A r : r \notin isLinked => of(others, r) = of(used, r)
  <2>. HIDE DEF isLinked, used
  <2>. QED  BY DEF Listed
<1>9. ~Dated(q) => linked = LinksOf(q) /\ used = ScoresOf(q)
  <2>1. SUFFICES ASSUME ~Dated(q) PROVE linked = LinksOf(q) /\ used = ScoresOf(q)
    OBVIOUS
  <2>2. \A row : JoinedStarts(q, row) = {Null}
    BY <2>1 DEF JoinedStarts
  <2>3. \A row \in LinksOf(q) \cup ScoresOf(q) : [row EXCEPT !.start = Null] = row
    <3>1. SUFFICES ASSUME NEW row \in FromScores(q) \cup FromLinks(q)
                   PROVE  [row EXCEPT !.start = Null] = row
      BY DEF ScoresOf, LinksOf
    <3>2. \E x, score : row = JoinedRow(x, score, Null)
      BY <2>2, <3>1, FromAre
    <3>. QED  BY <3>2, RowFields
  <2>. QED  BY <2>3 DEF Projected
<1>10. Listed(used) = Listed(ScoresOf(q))
  BY ProjectedListed
<1>. HIDE DEF linked, used, isLinked, others, of
<1>11. \A g \in AllGroups(q) :
          \/ \E r \in isLinked : g = Grouped(r, of(linked, r), 2)
          \/ \E r \in Listed(used) : r \notin isLinked /\ g = Grouped(r, of(used, r), 0)
  BY <1>1, <1>3, <1>5, <1>8
<1>12. \A g, h \in AllGroups(q) : g.resource = h.resource => g = h
  BY <1>6, <1>11
<1>13. \A g \in AllGroups(q) : g.linkStatus = 2 <=> g.resource \in Listed(LinkedGroups(q))
  <2>1. 0 # 2
    OBVIOUS
  <2>. QED  BY <1>3, <1>6, <1>11, <2>1
<1>14. ASSUME ~Dated(q), NEW g \in AllGroups(q)
       PROVE  \E row \in IF g.resource \in Listed(LinkedGroups(q)) THEN LinkedGroups(q) ELSE UsedGroups(q) :
                  row.resource = g.resource /\ row.score = g.score
  <2>1. linked = LinksOf(q) /\ used = ScoresOf(q)
    BY <1>9, <1>14
  <2>2. CASE \E r \in isLinked : g = Grouped(r, of(linked, r), 2)
    <3>1. g \in LinkedGroups(q) /\ g.resource \in Listed(LinkedGroups(q))
      BY <1>2, <1>3, <1>5, <1>6, <2>1, <2>2
    <3>. QED  BY <3>1
  <2>3. CASE \E r \in Listed(used) : r \notin isLinked /\ g = Grouped(r, of(used, r), 0)
    <3>1. PICK r \in Listed(used) : r \notin isLinked /\ g = Grouped(r, of(used, r), 0)
      BY <2>3
    <3>2. g.resource \notin Listed(LinkedGroups(q))
      BY <1>3, <1>6, <3>1
    <3>3. Grouped(r, of(used, r), 1) \in UsedGroups(q)
      BY <1>2, <1>5, <2>1, <3>1
    <3>. QED  BY <1>6, <1>7, <3>1, <3>2, <3>3
  <2>. QED  BY <1>11, <2>2, <2>3
<1>. QED  BY <1>4, <1>12, <1>13, <1>14

-------------------------------------------------------------------------------
(***************************************************************************)
(* The ORDER BY of a query is a total order of its results: first by the   *)
(* column that is asked for, then by the title, then by the resource.      *)
(***************************************************************************)
\* The codes of characters are different numbers.
LEMMA CodesDiffer ==
    /\ \A s \in Text : \A k \in 1 .. Len(s) : Code(s[k]) \in Nat
    /\ \A s, t \in Text : \A j \in 1 .. Len(s), k \in 1 .. Len(t) : Code(s[j]) = Code(t[k]) => s[j] = t[k]
<1>. DEFINE Char == {Alphabet[k] : k \in DOMAIN Alphabet}
<1>1. \A c \in Char : Code(c) \in DOMAIN Alphabet /\ Alphabet[Code(c)] = c
  <2>1. SUFFICES ASSUME NEW c \in Char PROVE Code(c) \in DOMAIN Alphabet /\ Alphabet[Code(c)] = c
    OBVIOUS
  <2>2. \E k : k \in DOMAIN Alphabet /\ Alphabet[k] = c
    OBVIOUS
  <2>. QED  BY <2>2 DEF Code
<1>2. DOMAIN Alphabet \subseteq Nat
  BY AlphabetAssumption
<1>3. \A s \in Text : \A k \in 1 .. Len(s) : s[k] \in Char
  BY DEF Text
<1>. HIDE DEF Char
<1>. QED  BY <1>1, <1>2, <1>3

\* The beginnings of two texts.
LEMMA SameBeginning ==
    ASSUME NEW s \in Text, NEW t \in Text, NEW k \in Nat \ {0}, k <= Len(s) + 1, k <= Len(t) + 1
    PROVE  SubSeq(s, 1, k - 1) = SubSeq(t, 1, k - 1) <=> \A i \in 1 .. k - 1 : s[i] = t[i]
<1>. DEFINE Char == {Alphabet[i] : i \in DOMAIN Alphabet}
<1>1. s \in Seq(Char) /\ t \in Seq(Char)
  BY DEF Text
<1>. HIDE DEF Char
<1>2. /\ SubSeq(s, 1, k - 1) \in Seq(Char) /\ Len(SubSeq(s, 1, k - 1)) = k - 1
      /\ \A i \in 1 .. k - 1 : SubSeq(s, 1, k - 1)[i] = s[i]
  BY <1>1
<1>3. /\ SubSeq(t, 1, k - 1) \in Seq(Char) /\ Len(SubSeq(t, 1, k - 1)) = k - 1
      /\ \A i \in 1 .. k - 1 : SubSeq(t, 1, k - 1)[i] = t[i]
  BY <1>1
<1>. QED  BY <1>2, <1>3

\* s comes before t since they differ at place k.
DiffersAt(s, t, k) == /\ k \in 1 .. Len(t) /\ k <= Len(s) + 1
                      /\ \A i \in 1 .. k - 1 : s[i] = t[i]
                      /\ k = Len(s) + 1 \/ Code(s[k]) < Code(t[k])

\* One text is before another exactly if they differ so at some place.
LEMMA BeforeDiffers ==
    ASSUME NEW s \in Text, NEW t \in Text
    PROVE  TextBefore(s, t) <=> \E k : DiffersAt(s, t, k)
<1>1. Len(s) \in Nat /\ Len(t) \in Nat
  BY DEF Text
<1>2. \A k \in 1 .. Len(t) : k <= Len(s) + 1 =>
          (SubSeq(s, 1, k - 1) = SubSeq(t, 1, k - 1) <=> \A i \in 1 .. k - 1 : s[i] = t[i])
  BY <1>1, SameBeginning
<1>. QED  BY <1>2 DEF TextBefore, DiffersAt

\* The collation is a total order of the texts.
LEMMA TextsOrdered ==
    /\ \A s \in Text : ~TextBefore(s, s)
    /\ \A s, t, u \in Text : TextBefore(s, t) /\ TextBefore(t, u) => TextBefore(s, u)
    /\ \A s, t \in Text : s = t \/ TextBefore(s, t) \/ TextBefore(t, s)
<1>0. \A s \in Text : Len(s) \in Nat
  BY DEF Text
<1>1. \A s \in Text : ~TextBefore(s, s)
  <2>1. ASSUME NEW s \in Text, NEW k, DiffersAt(s, s, k)
        PROVE  FALSE
    BY <1>0, <2>1, CodesDiffer DEF DiffersAt
  <2>. QED  BY <2>1, BeforeDiffers
<1>2. ASSUME NEW s \in Text, NEW t \in Text, NEW u \in Text, TextBefore(s, t), TextBefore(t, u)
      PROVE  TextBefore(s, u)
  <2>1. PICK k : DiffersAt(s, t, k)
    BY <1>2, BeforeDiffers
  <2>2. PICK m : DiffersAt(t, u, m)
    BY <1>2, BeforeDiffers
  <2>3. Len(s) \in Nat /\ Len(t) \in Nat /\ Len(u) \in Nat
    BY <1>0
  <2>4. CASE k < m
    <3>1. DiffersAt(s, u, k)
      BY <2>1, <2>2, <2>3, <2>4 DEF DiffersAt
    <3>. QED  BY <3>1, BeforeDiffers
  <2>5. CASE m < k
    <3>1. DiffersAt(s, u, m)
      BY <2>1, <2>2, <2>3, <2>5 DEF DiffersAt
    <3>. QED  BY <3>1, BeforeDiffers
  <2>6. CASE k = m
    <3>1. k = Len(s) + 1 \/ (k \in 1 .. Len(s) /\ k \in 1 .. Len(t) /\ k \in 1 .. Len(u)
                               /\ Code(s[k]) < Code(t[k]) /\ Code(t[k]) < Code(u[k]))
      BY <2>1, <2>2, <2>3, <2>6 DEF DiffersAt
    <3>2. k = Len(s) + 1 \/ Code(s[k]) < Code(u[k])
      BY <3>1, CodesDiffer
    <3>3. DiffersAt(s, u, k)
      BY <2>1, <2>2, <2>3, <2>6, <3>2 DEF DiffersAt
    <3>. QED  BY <3>3, BeforeDiffers
  <2>. QED  BY <2>1, <2>2, <2>4, <2>5, <2>6 DEF DiffersAt
<1>3. ASSUME NEW s \in Text, NEW t \in Text, s # t
      PROVE  TextBefore(s, t) \/ TextBefore(t, s)
  <2>1. Len(s) \in Nat /\ Len(t) \in Nat
    BY <1>0
  <2>. DEFINE D == {k \in Nat \ {0} : k > Len(s) \/ k > Len(t) \/ s[k] # t[k]}
  <2>2. D \in SUBSET Nat /\ Len(s) + 1 \in D
    BY <2>1
  <2>3. PICK k \in D : \A j \in D : k <= j
    <3>. HIDE DEF D
    <3>. QED  BY <2>2, Generic!LeastOf
  <2>4. k \in Nat \ {0} /\ \A i \in 1 .. k - 1 : i <= Len(s) /\ i <= Len(t) /\ s[i] = t[i]
    BY <2>1, <2>3
  <2>5. CASE k <= Len(s) /\ k <= Len(t)
    <3>1. s[k] # t[k] /\ k \in 1 .. Len(s) /\ k \in 1 .. Len(t)
      BY <2>1, <2>3, <2>4, <2>5
    <3>2. Code(s[k]) < Code(t[k]) \/ Code(t[k]) < Code(s[k])
      BY <3>1, CodesDiffer
    <3>3. DiffersAt(s, t, k) \/ DiffersAt(t, s, k)
      BY <2>1, <2>4, <2>5, <3>1, <3>2 DEF DiffersAt
    <3>. QED  BY <3>3, BeforeDiffers
  <2>6. CASE k > Len(s) /\ k <= Len(t)
    <3>1. DiffersAt(s, t, k)
      <4>1. k = Len(s) + 1
        BY <2>1, <2>2, <2>3, <2>4, <2>6
      <4>. QED  BY <2>1, <2>4, <2>6, <4>1 DEF DiffersAt
    <3>. QED  BY <3>1, BeforeDiffers
  <2>7. CASE k <= Len(s) /\ k > Len(t)
    <3>1. DiffersAt(t, s, k)
      <4>0. Len(t) + 1 \in D
        BY <2>1
      <4>1. k = Len(t) + 1
        BY <2>1, <2>3, <2>4, <2>7, <4>0
      <4>. QED  BY <2>1, <2>4, <2>7, <4>1 DEF DiffersAt
    <3>. QED  BY <3>1, BeforeDiffers
  <2>8. CASE k > Len(s) /\ k > Len(t)
    <3>1. Len(s) = Len(t) /\ \A i \in 1 .. Len(s) : s[i] = t[i]
      <4>0. Len(t) + 1 \in D
        BY <2>1
      <4>. QED  BY <2>1, <2>2, <2>3, <2>4, <2>8, <4>0
    <3>. DEFINE Char == {Alphabet[i] : i \in DOMAIN Alphabet}
    <3>2. s \in Seq(Char) /\ t \in Seq(Char)
      BY DEF Text
    <3>. HIDE DEF Char
    <3>3. s = t
      BY <3>1, <3>2
    <3>. QED  BY <1>3, <3>3
  <2>. QED  BY <2>1, <2>4, <2>5, <2>6, <2>7, <2>8
<1>. QED  BY <1>1, <1>2, <1>3

\* The columns of a result.
IsResult(g) == /\ g.resource \in Text /\ g.title \in Text
               /\ g.score \in Int /\ g.firstUpdate \in Int /\ g.lastUpdate \in Int
               /\ g.linkStatus \in Int

\* A column orders results up to ties.
LEMMA ColumnsOrdered ==
    ASSUME NEW o, NEW S, \A g \in S : IsResult(g)
    PROVE  /\ \A x, y \in S : ColumnBefore(o, x, y) => ~ColumnBefore(o, y, x)
           /\ \A x, y, z \in S : ColumnBefore(o, x, z) => ColumnBefore(o, x, y) \/ ColumnBefore(o, y, z)
<1>1. CASE o = "HighScoredFirst"
  <2>1. \A x, y : ColumnBefore(o, x, y) <=> x.score > y.score
    BY <1>1 DEF ColumnBefore
  <2>. QED  BY <2>1 DEF IsResult
<1>2. CASE o = "RecentlyUsedFirst"
  <2>1. \A x, y : ColumnBefore(o, x, y) <=> x.lastUpdate > y.lastUpdate
    BY <1>2 DEF ColumnBefore
  <2>. QED  BY <2>1 DEF IsResult
<1>3. CASE o = "RecentlyCreatedFirst"
  <2>1. \A x, y : ColumnBefore(o, x, y) <=> x.firstUpdate > y.firstUpdate
    BY <1>3 DEF ColumnBefore
  <2>. QED  BY <2>1 DEF IsResult
<1>4. CASE o = "OrderByTitle"
  <2>1. \A x, y : ColumnBefore(o, x, y) <=> TextBefore(x.title, y.title)
    BY <1>4 DEF ColumnBefore
  <2>2. \A x \in S : x.title \in Text
    BY DEF IsResult
  <2>3. \A s, t \in Text : TextBefore(s, t) => ~TextBefore(t, s)
    BY TextsOrdered
  <2>4. \A s, t, u \in Text : TextBefore(s, u) => TextBefore(s, t) \/ TextBefore(t, u)
    <3>1. SUFFICES ASSUME NEW s \in Text, NEW t \in Text, NEW u \in Text, TextBefore(s, u), ~TextBefore(s, t)
                   PROVE  TextBefore(t, u)
      OBVIOUS
    <3>2. s = t \/ TextBefore(t, s)
      BY <3>1, TextsOrdered
    <3>. QED  BY <3>1, <3>2, TextsOrdered
  <2>. QED  BY <2>1, <2>2, <2>3, <2>4
<1>5. CASE o \notin {"HighScoredFirst", "RecentlyUsedFirst", "RecentlyCreatedFirst", "OrderByTitle"}
  <2>1. \A x, y : ~ColumnBefore(o, x, y)
    BY <1>5 DEF ColumnBefore
  <2>. QED  BY <2>1
<1>. QED  BY <1>1, <1>2, <1>3, <1>4, <1>5

\* The ORDER BY clause orders results of different resources totally.
LEMMA ResultsOrdered ==
    ASSUME NEW o, NEW S, \A g \in S : IsResult(g), \A x, y \in S : x.resource = y.resource => x = y
    PROVE  /\ \A x \in S : ~ResultBefore(o, x, x)
           /\ \A x, y, z \in S : ResultBefore(o, x, y) /\ ResultBefore(o, y, z) => ResultBefore(o, x, z)
           /\ \A x, y \in S : x # y => ResultBefore(o, x, y) \/ ResultBefore(o, y, x)
<1>. DEFINE cb(x, y) == ColumnBefore(o, x, y)
            tb(x, y) == TextBefore(x.resource, y.resource)
            tied(x, y) == cb(x, y) \/ (~cb(y, x) /\ tb(x, y))
<1>1. \A x, y : ResultBefore(o, x, y) <=>
         x.linkStatus > y.linkStatus \/ (x.linkStatus = y.linkStatus /\ tied(x, y))
  BY DEF ResultBefore
<1>2. /\ \A x, y \in S : cb(x, y) => ~cb(y, x)
      /\ \A x, y, z \in S : cb(x, z) => cb(x, y) \/ cb(y, z)
  BY ColumnsOrdered
<1>3. \A x \in S : x.resource \in Text /\ x.linkStatus \in Int
  BY DEF IsResult
<1>4. /\ \A x \in S : ~tb(x, x)
      /\ \A x, y, z \in S : tb(x, y) /\ tb(y, z) => tb(x, z)
      /\ \A x, y \in S : x # y => tb(x, y) \/ tb(y, x)
  BY <1>3, TextsOrdered
<1>. HIDE DEF cb, tb
<1>5. /\ \A x \in S : ~tied(x, x)
      /\ \A x, y, z \in S : tied(x, y) /\ tied(y, z) => tied(x, z)
      /\ \A x, y \in S : x # y => tied(x, y) \/ tied(y, x)
  BY <1>2, <1>4
<1>. HIDE DEF tied
<1>6. \A x, y, z \in S : ResultBefore(o, x, y) /\ ResultBefore(o, y, z) => ResultBefore(o, x, z)
  BY <1>1, <1>3, <1>5
<1>. QED  BY <1>1, <1>3, <1>5, <1>6

-------------------------------------------------------------------------------
(***************************************************************************)
(* Sorting by counting: a result's place is the number of those before it. *)
(***************************************************************************)
\* before names, for each element of S, those that a total order puts before it.
TotalOrder(S, before) ==
    /\ before \in [S -> SUBSET S]
    /\ \A x \in S : x \notin before[x]
    /\ \A x, y \in S : x \in before[y] => before[x] \subseteq before[y]
    /\ \A x, y \in S : x # y => x \in before[y] \/ y \in before[x]

\* If those before an element are counted, and the elements are totally ordered, then
\* every place is that of one element.
LEMMA PlacesTaken ==
    ASSUME NEW S, IsFiniteSet(S), NEW before, TotalOrder(S, before)
    PROVE  /\ Cardinality(S) \in Nat
           /\ \A x \in S : Cardinality(before[x]) + 1 \in 1 .. Cardinality(S)
           /\ \A x, y \in S : x \in before[y] => Cardinality(before[x]) < Cardinality(before[y])
           /\ \A x, y \in S : Cardinality(before[x]) = Cardinality(before[y]) => x = y
           /\ \A k \in 1 .. Cardinality(S) : \E x \in S : Cardinality(before[x]) = k - 1
<1>. DEFINE n == Cardinality(S)
            place == [x \in S |-> Cardinality(before[x]) + 1]
<1>0. /\ before \in [S -> SUBSET S]
      /\ \A x \in S : x \notin before[x]
      /\ \A x, y \in S : x \in before[y] => before[x] \subseteq before[y]
      /\ \A x, y \in S : x # y => x \in before[y] \/ y \in before[x]
  BY DEF TotalOrder
<1>1. n \in Nat
  BY FS_CardinalityType
<1>2. \A x \in S : IsFiniteSet(before[x]) /\ Cardinality(before[x]) \in Nat /\ Cardinality(before[x]) <= n
  BY <1>0, FS_Subset, FS_CardinalityType
<1>3. ASSUME NEW x \in S, NEW T \in SUBSET S, before[x] \subseteq T, x \in T
      PROVE  Cardinality(before[x]) < Cardinality(T)
  <2>1. IsFiniteSet(T) /\ Cardinality(T) \in Nat
    BY FS_Subset, FS_CardinalityType
  <2>2. Cardinality(before[x]) <= Cardinality(T)
    BY <1>3, <2>1, FS_Subset
  <2>3. before[x] # T
    BY <1>0, <1>3
  <2>4. Cardinality(before[x]) # Cardinality(T)
    BY <1>3, <2>1, <2>3, FS_Subset
  <2>. QED  BY <1>2, <2>1, <2>2, <2>4
<1>4. \A x \in S : place[x] \in 1 .. n
  BY <1>0, <1>1, <1>2, <1>3
<1>5. \A x, y \in S : x \in before[y] => Cardinality(before[x]) < Cardinality(before[y])
  BY <1>0, <1>3
<1>6. \A x, y \in S : Cardinality(before[x]) = Cardinality(before[y]) => x = y
  BY <1>0, <1>2, <1>5
<1>7. IsFiniteSet(1 .. n) /\ Cardinality(1 .. n) = n
  <2>. HIDE DEF n
  <2>1. n \in Int /\ 1 \in Int
    BY <1>1
  <2>2. IsFiniteSet(1 .. n) /\ Cardinality(1 .. n) = IF 1 > n THEN 0 ELSE n - 1 + 1
    BY <2>1, FS_Interval
  <2>. QED  BY <1>1, <2>2
<1>8. place \in Injection(S, 1 .. n)
  <2>1. \A x, y \in S : place[x] = place[y] => x = y
    BY <1>2, <1>6
  <2>2. place \in [S -> 1 .. n]
    BY <1>4
  <2>. HIDE DEF place, n
  <2>. QED  BY <2>1, <2>2 DEF Injection, IsInjective
<1>9. place \in Surjection(S, 1 .. n)
  <2>. HIDE DEF place
  <2>. QED  BY <1>7, <1>8, FS_Injection
<1>10. \A k \in 1 .. n : \E x \in S : place[x] = k
  <2>. HIDE DEF place, n
  <2>. QED  BY <1>9 DEF Surjection
<1>11. \A k \in 1 .. n : \E x \in S : Cardinality(before[x]) = k - 1
  BY <1>1, <1>2, <1>10
<1>. HIDE DEF n
<1>. QED  BY <1>1, <1>4, <1>5, <1>6, <1>11 DEF n

\* There is a last element.
LEMMA LastPlace ==
    ASSUME NEW S, S # {}, IsFiniteSet(S), NEW before, TotalOrder(S, before)
    PROVE  \E x \in S : \A y \in S : y = x \/ y \in before[x]
<1>1. Cardinality(S) \in 1 .. Cardinality(S)
  BY FS_EmptySet, FS_CardinalityType
<1>2. PICK x \in S : Cardinality(before[x]) = Cardinality(S) - 1
  BY <1>1, PlacesTaken
<1>3. IsFiniteSet(S \ {x}) /\ Cardinality(S \ {x}) = Cardinality(S) - 1
  BY <1>2, FS_RemoveElement
<1>4. before[x] \in SUBSET (S \ {x})
  BY DEF TotalOrder
<1>5. before[x] = S \ {x}
  BY <1>2, <1>3, <1>4, FS_Subset
<1>. QED  BY <1>5

-------------------------------------------------------------------------------
(***************************************************************************)
(* The results of a query can be sorted: their columns are numbers and     *)
(* texts, sums and extremes exist, and no resource is listed twice.        *)
(***************************************************************************)
\* The tables hold finitely many of the rows that can be inserted.
TablesInv == /\ scoreCache \subseteq ScoreRows /\ links \subseteq LinkRows /\ infos \subseteq InfoRows
             /\ IsFiniteSet(scoreCache) /\ IsFiniteSet(links) /\ IsFiniteSet(events)

\* The tables are finite and hold rows that were inserted.
LEMMA TablesKept == Spec => []TablesInv
<1>1. Init => TablesInv
  BY FS_EmptySet DEF Init, TablesInv
<1>2. TablesInv /\ [Next]_vars => TablesInv'
  <2>1. SUFFICES ASSUME TablesInv, [Next]_vars PROVE TablesInv'
    OBVIOUS
  <2>2. CASE UNCHANGED tables
    BY <2>1, <2>2 DEF TablesInv, tables
  <2>3. CASE \E row \in ScoreRows : InsertScore(row)
    BY <2>1, <2>3, FS_AddElement DEF TablesInv, InsertScore
  <2>4. CASE \E row \in LinkRows : InsertLink(row)
    BY <2>1, <2>4, FS_AddElement DEF TablesInv, InsertLink
  <2>5. CASE \E row \in InfoRows : InsertInfo(row)
    BY <2>1, <2>5 DEF TablesInv, InsertInfo
  <2>6. CASE \E row \in EventRows : InsertEvent(row)
    BY <2>1, <2>6, FS_AddElement DEF TablesInv, InsertEvent
  <2>. QED  BY <2>1, <2>2, <2>3, <2>4, <2>5, <2>6 DEF Next, AddTerm, SetFilter, ClearFilter, vars, tables
<1>. QED  BY <1>1, <1>2, PTL DEF Spec

\* The values of a function on a finite set.
LEMMA FewValues ==
    ASSUME NEW S, IsFiniteSet(S), NEW f
    PROVE  IsFiniteSet({f[x] : x \in S})
<1>. DEFINE T == {f[x] : x \in S}
            g == [x \in S |-> f[x]]
<1>1. g \in Surjection(S, T)
  BY DEF Surjection
<1>. HIDE DEF g, T
<1>2. IsFiniteSet(T)
  BY <1>1, FS_Surjection
<1>. QED  BY <1>2 DEF T

\* A finite set of numbers has a greatest element, and a least one.
LEMMA Extremes ==
    ASSUME NEW S \in SUBSET Nat, S # {}, IsFiniteSet(S)
    PROVE  Max(S) \in S /\ Min(S) \in S
<1>1. \E x \in S : \A y \in S : x =< y
  BY Generic!LeastOf
<1>2. Min(S) \in S
  BY <1>1 DEF Min
<1>3. \E order : TotalOrder(S, order) /\ \A x, y \in S : y \in order[x] <=> y < x
  <2>. DEFINE below == [x \in S |-> {y \in S : y < x}]
  <2>1. \A x, y \in S : y \in below[x] <=> y < x
    OBVIOUS
  <2>2. below \in [S -> SUBSET S]
    OBVIOUS
  <2>3. \A x, y, z \in S : x < y /\ y < z => x < z
    OBVIOUS
  <2>4. \A x, y \in S : x # y => x < y \/ y < x
    OBVIOUS
  <2>5. \A x \in S : ~(x < x)
    OBVIOUS
  <2>. HIDE DEF below
  <2>6. TotalOrder(S, below)
    BY ONLY <2>1, <2>2, <2>3, <2>4, <2>5 DEF TotalOrder
  <2>. QED  BY <2>1, <2>6
<1>4. PICK below : TotalOrder(S, below) /\ \A x, y \in S : y \in below[x] <=> y < x
  BY <1>3
<1>5. PICK x \in S : \A y \in S : y = x \/ y \in below[x]
  BY <1>4, LastPlace
<1>11. \A y \in S : x >= y
  <2>1. \A y \in S : y = x \/ y < x
    BY <1>4, <1>5
  <2>. QED  BY <2>1
<1>12. Max(S) \in S
  BY <1>11 DEF Max
<1>. QED  BY <1>2, <1>12

\* The sum of the scores of some rows.
LEMMA ScoresAdd ==
    ASSUME NEW A, IsFiniteSet(A), \A row \in A : row.score \in Nat
    PROVE  MapThenSumSet(LAMBDA row : row.score, A) \in Nat
<1>. DEFINE f == [row \in A |-> row.score]
            ch == [s \in SUBSET A |-> CHOOSE x \in s : TRUE]
            Theirs(g) == [s \in SUBSET A |->
                    IF s = {} THEN 0 ELSE (CHOOSE x \in s : TRUE).score + g[s \ {CHOOSE x \in s : TRUE}]]
            Right(g) == g = Theirs(g)
            G == CHOOSE g : Right(g)
<1>2. f \in [A -> Nat]
  OBVIOUS
<1>3. \A s \in SUBSET A : s # {} => ch[s] \in s
  OBVIOUS
<1>4. MapThenSumSet(LAMBDA row : row.score, A) = G[A]
  BY DEF MapThenSumSet, MapThenFoldSet
<1>5. \A g : Generic!IsSum(g, A, f, ch) <=> Right(g)
  <2>1. \A s \in SUBSET A : s # {} => f[ch[s]] = (CHOOSE x \in s : TRUE).score /\ ch[s] = CHOOSE x \in s : TRUE
    OBVIOUS
  <2>. DEFINE Ours(g) == [s \in SUBSET A |-> IF s = {} THEN 0 ELSE f[ch[s]] + g[s \ {ch[s]}]]
  <2>2. ASSUME NEW g
        PROVE  Ours(g) = Theirs(g)
    <3>1. \A s \in SUBSET A : s # {} => f[ch[s]] + g[s \ {ch[s]}]
                                        = (CHOOSE x \in s : TRUE).score + g[s \ {CHOOSE x \in s : TRUE}]
      BY <2>1
    <3>. QED  BY ONLY <3>1
  <2>3. \A g : Generic!IsSum(g, A, f, ch) <=> g = Ours(g)
    BY ONLY DEF Generic!IsSum
  <2>. HIDE DEF Ours, Theirs
  <2>. QED  BY <2>2, <2>3, Zenon
<1>. HIDE DEF f, ch
<1>0. Generic!IsFiniteSet(A)
  BY DEF IsFiniteSet, Generic!IsFiniteSet
<1>6. \E g : Generic!IsSum(g, A, f, ch)
  BY <1>0, <1>2, <1>3, Generic!SumExists
<1>. HIDE DEF Right
<1>7. Generic!IsSum(G, A, f, ch)
  <2>1. \E g : Right(g)
    BY <1>5, <1>6, Zenon
  <2>2. Right(G)
    BY <2>1, Zenon
  <2>. QED  BY <1>5, <2>2, Zenon
<1>8. G[A] \in Nat
  <2>. HIDE DEF G
  <2>. QED  BY <1>0, <1>2, <1>3, <1>7, Generic!SumIsNat
<1>. QED  BY <1>4, <1>8

\* The columns of a joined row: a link without a score has NULL in three of them.
IsJoined(row) == /\ row.resource \in Text
                 /\ \/ row.score = Null
                    \/ row.score \in Nat /\ row.firstUpdate \in Nat /\ row.lastUpdate \in Nat

\* The joined rows are finitely many and have their columns.
LEMMA JoinedRows ==
    ASSUME TablesInv, NEW q
    PROVE  /\ IsFiniteSet(FromScores(q)) /\ IsFiniteSet(FromLinks(q))
           /\ \A row \in FromScores(q) \cup FromLinks(q) : IsJoined(row)
<1>1. ASSUME NEW x
      PROVE  IsFiniteSet(JoinedStarts(q, x))
  <2>. DEFINE e == {y \in events : Key(y) = Key(x)}
              f == [y \in e |-> y.start]
  <2>1. IsFiniteSet(e)
    BY FS_Subset DEF TablesInv
  <2>. HIDE DEF e
  <2>2. IsFiniteSet({f[y] : y \in e})
    <3>. HIDE DEF f
    <3>. QED  BY <2>1, FewValues
  <2>3. {f[y] : y \in e} = {y.start : y \in e}
    OBVIOUS
  <2>4. JoinedStarts(q, x) \in {{Null}, {y.start : y \in e}}
    BY DEF JoinedStarts, e
  <2>. QED  BY <2>2, <2>3, <2>4, FS_Singleton
<1>2. ASSUME NEW x, NEW score
      PROVE  IsFiniteSet({JoinedRow(x, score, start) : start \in JoinedStarts(q, x)})
  <2>. DEFINE starts == JoinedStarts(q, x)
              f == [start \in starts |-> JoinedRow(x, score, start)]
  <2>1. IsFiniteSet(starts)
    BY <1>1
  <2>. HIDE DEF starts
  <2>2. IsFiniteSet({f[start] : start \in starts})
    <3>. HIDE DEF f
    <3>. QED  BY <2>1, FewValues
  <2>3. {f[start] : start \in starts} = {JoinedRow(x, score, start) : start \in starts}
    OBVIOUS
  <2>. QED  BY <2>2, <2>3 DEF starts
<1>3. IsFiniteSet(FromScores(q))
  <2>. DEFINE f == [s \in scoreCache |-> {JoinedRow(s, s, start) : start \in JoinedStarts(q, s)}]
  <2>1. \A s \in scoreCache : IsFiniteSet(f[s])
    BY <1>2
  <2>2. FromScores(q) = UNION {f[s] : s \in scoreCache}
    BY DEF FromScores
  <2>. HIDE DEF f
  <2>3. IsFiniteSet({f[s] : s \in scoreCache})
    BY FewValues DEF TablesInv
  <2>. QED  BY <2>1, <2>2, <2>3, FS_UNION
<1>4. IsFiniteSet(FromLinks(q))
  <2>. DEFINE f == [l \in links |-> {JoinedRow(l, JoinedScore(l), start) : start \in JoinedStarts(q, l)}]
  <2>1. \A l \in links : IsFiniteSet(f[l])
    BY <1>2
  <2>2. FromLinks(q) = UNION {f[l] : l \in links}
    BY DEF FromLinks
  <2>. HIDE DEF f
  <2>3. IsFiniteSet({f[l] : l \in links})
    BY FewValues DEF TablesInv
  <2>. QED  BY <2>1, <2>2, <2>3, FS_UNION
<1>5. \A s \in scoreCache : s.resource \in Text /\ s.score \in Nat /\ s.firstUpdate \in Nat /\ s.lastUpdate \in Nat
  BY RowsAssumption DEF TablesInv
<1>6. \A l \in links : l.resource \in Text
  BY RowsAssumption DEF TablesInv
<1>7. ASSUME NEW l
      PROVE  JoinedScore(l) = NoScore \/ JoinedScore(l) \in scoreCache
  BY DEF JoinedScore
<1>8. \A x, score, start : /\ JoinedRow(x, score, start).resource = x.resource
                           /\ JoinedRow(x, score, start).score = score.score
                           /\ JoinedRow(x, score, start).firstUpdate = score.firstUpdate
                           /\ JoinedRow(x, score, start).lastUpdate = score.lastUpdate
  BY DEF JoinedRow
<1>9. \A row \in FromScores(q) : IsJoined(row)
  BY <1>5, <1>8, FromAre DEF IsJoined
<1>10. NoScore.score = Null
  BY DEF NoScore
<1>11. ASSUME NEW row \in FromLinks(q)
       PROVE  IsJoined(row)
  <2>1. PICK l \in links : \E start : row = JoinedRow(l, JoinedScore(l), start)
    BY <1>11, FromAre
  <2>2. CASE JoinedScore(l) = NoScore
    BY <1>6, <1>8, <1>10, <2>1, <2>2 DEF IsJoined
  <2>3. CASE JoinedScore(l) \in scoreCache
    BY <1>5, <1>6, <1>8, <2>1, <2>3 DEF IsJoined
  <2>. QED  BY <1>7, <2>2, <2>3
<1>. QED  BY <1>3, <1>4, <1>9, <1>11

\* The title that is shown is a text.
LEMMA TitleShown == ASSUME TablesInv, NEW r \in Text PROVE ShownTitle(r) \in Text
<1>1. \A title \in Titles(r) : title \in Text
  BY RowsAssumption DEF Titles, TablesInv
<1>2. ShownTitle(r) = r \/ ShownTitle(r) \in Titles(r)
  BY DEF ShownTitle
<1>. QED  BY <1>1, <1>2

\* A group of joined rows is a result.
LEMMA GroupIsResult ==
    ASSUME TablesInv, NEW rows, IsFiniteSet(rows), \A row \in rows : IsJoined(row),
           NEW r \in Text, NEW status \in Int
    PROVE  IsResult(Grouped(r, rows, status))
<1>. DEFINE known == Known(rows)
            firsts == {row.firstUpdate : row \in known}
            lasts == {row.lastUpdate : row \in known}
            sum == MapThenSumSet(LAMBDA row : row.score, known)
<1>1. IsFiniteSet(known) /\ \A row \in known : row.score \in Nat /\ row.firstUpdate \in Nat /\ row.lastUpdate \in Nat
  BY FS_Subset DEF Known, IsJoined
<1>. HIDE DEF known
<1>2. sum \in Nat
  BY <1>1, ScoresAdd
<1>. HIDE DEF sum
<1>3. firsts \in SUBSET Nat /\ lasts \in SUBSET Nat
  BY <1>1
<1>4. IsFiniteSet(firsts)
  <2>. DEFINE f == [row \in known |-> row.firstUpdate]
  <2>1. firsts = {f[row] : row \in known}
    OBVIOUS
  <2>. HIDE DEF f, firsts
  <2>. QED  BY <1>1, <2>1, FewValues
<1>5. IsFiniteSet(lasts)
  <2>. DEFINE f == [row \in known |-> row.lastUpdate]
  <2>1. lasts = {f[row] : row \in known}
    OBVIOUS
  <2>. HIDE DEF f, lasts
  <2>. QED  BY <1>1, <2>1, FewValues
<1>6. known # {} => firsts # {} /\ lasts # {}
  OBVIOUS
<1>. HIDE DEF firsts, lasts
<1>7. known # {} => Min(firsts) \in Nat /\ Max(lasts) \in Nat
  BY <1>3, <1>4, <1>5, <1>6, Extremes
<1>8. Grouped(r, rows, status) =
         [resource |-> r, title |-> ShownTitle(r),
          score |-> IF known = {} THEN Null ELSE sum,
          firstUpdate |-> IF known = {} THEN Null ELSE Min(firsts),
          lastUpdate |-> IF known = {} THEN Null ELSE Max(lasts),
          linkStatus |-> status]
  BY DEF Grouped, known, sum, firsts, lasts
<1>9. Null \in Int
  BY DEF Null
<1>. QED  BY <1>2, <1>7, <1>8, <1>9, TitleShown DEF IsResult

\* Results of which a sorted list can be made.
Sortable(S) == /\ IsFiniteSet(S)
               /\ \A g \in S : IsResult(g)
               /\ \A g, h \in S : g.resource = h.resource => g = h

\* There are as many as resources.
LEMMA ResourcesCount ==
    ASSUME NEW S, IsFiniteSet(S), \A g, h \in S : g.resource = h.resource => g = h
    PROVE  IsFiniteSet(Listed(S)) /\ Cardinality(Listed(S)) = Cardinality(S)
<1>. DEFINE f == [g \in S |-> g.resource]
<1>1. f \in Bijection(S, Listed(S))
  <2>1. \A g, h \in S : f[g] = f[h] => g = h
    OBVIOUS
  <2>2. f \in [S -> Listed(S)] /\ \A r \in Listed(S) : \E g \in S : f[g] = r
    BY DEF Listed
  <2>. HIDE DEF f
  <2>. QED  BY <2>1, <2>2 DEF Bijection, Injection, Surjection, IsInjective
<1>. HIDE DEF f
<1>2. ExistsBijection(S, Listed(S))
  BY <1>1 DEF ExistsBijection
<1>. QED  BY <1>2, FS_Bijection

\* The groups of joined rows.
LEMMA GroupsSortable ==
    ASSUME TablesInv, NEW rows, IsFiniteSet(rows), \A row \in rows : IsJoined(row), NEW status \in Int
    PROVE  Sortable(Groups(rows, status)) /\ \A g \in Groups(rows, status) : g.linkStatus = status
<1>. DEFINE of(r) == {row \in rows : row.resource = r}
            named == {row.resource : row \in rows}
            f == [r \in named |-> Grouped(r, of(r), status)]
            resources == [row \in rows |-> row.resource]
<1>1. Groups(rows, status) = {f[r] : r \in named}
  BY DEF Groups
<1>2. IsFiniteSet(named)
  <2>1. named = {resources[row] : row \in rows}
    OBVIOUS
  <2>. HIDE DEF resources, named
  <2>. QED  BY <2>1, FewValues
<1>3. IsFiniteSet(Groups(rows, status))
  <2>. HIDE DEF f, named
  <2>. QED  BY <1>1, <1>2, FewValues
<1>4. \A r : IsFiniteSet(of(r)) /\ \A row \in of(r) : IsJoined(row)
  BY FS_Subset
<1>5. \A r \in named : r \in Text
  BY DEF IsJoined
<1>. HIDE DEF of, named
<1>6. \A r \in named : IsResult(f[r])
  <2>1. ASSUME NEW r \in named
        PROVE  IsResult(Grouped(r, of(r), status))
    BY <1>4, <1>5, GroupIsResult
  <2>. QED  BY <2>1
<1>7. \A r \in named : f[r].resource = r /\ f[r].linkStatus = status
  BY DEF Grouped
<1>. HIDE DEF f
<1>. QED  BY <1>1, <1>3, <1>6, <1>7 DEF Sortable

\* To leave out the event leaves a joined row.
LEMMA ProjectedRows ==
    ASSUME TablesInv, NEW q
    PROVE  /\ IsFiniteSet(ScoresOf(q)) /\ IsFiniteSet(Projected(ScoresOf(q)))
           /\ IsFiniteSet(LinksOf(q)) /\ IsFiniteSet(Projected(LinksOf(q)))
           /\ \A row \in ScoresOf(q) \cup LinksOf(q) : IsJoined(row)
           /\ \A row \in Projected(ScoresOf(q)) \cup Projected(LinksOf(q)) : IsJoined(row)
<1>1. /\ IsFiniteSet(ScoresOf(q)) /\ IsFiniteSet(LinksOf(q))
      /\ \A row \in ScoresOf(q) \cup LinksOf(q) : IsJoined(row)
  BY JoinedRows, FS_Subset DEF ScoresOf, LinksOf
<1>2. ASSUME NEW rows, IsFiniteSet(rows)
      PROVE  IsFiniteSet(Projected(rows))
  <2>. DEFINE f == [row \in rows |-> [row EXCEPT !.start = Null]]
  <2>1. Projected(rows) = {f[row] : row \in rows}
    BY DEF Projected
  <2>. HIDE DEF f
  <2>. QED  BY <1>2, <2>1, FewValues
<1>3. ASSUME NEW row \in Projected(ScoresOf(q)) \cup Projected(LinksOf(q))
      PROVE  IsJoined(row)
  <2>1. PICK old \in ScoresOf(q) \cup LinksOf(q) : row = [old EXCEPT !.start = Null]
    BY <1>3 DEF Projected
  <2>2. old \in FromScores(q) \cup FromLinks(q)
    BY <2>1 DEF ScoresOf, LinksOf
  <2>3. PICK x, score, start : old = JoinedRow(x, score, start)
    BY <2>2, FromAre
  <2>4. row = JoinedRow(x, score, Null)
    BY <2>1, <2>3, RowFields
  <2>5. /\ row.resource = old.resource /\ row.score = old.score
        /\ row.firstUpdate = old.firstUpdate /\ row.lastUpdate = old.lastUpdate
    BY <2>3, <2>4 DEF JoinedRow
  <2>6. IsJoined(old)
    BY <1>1, <2>1
  <2>. QED  BY <2>5, <2>6 DEF IsJoined
<1>. QED  BY <1>1, <1>2, <1>3

\* Each of the three queries returns such results.
LEMMA QueriesSortable ==
    ASSUME TablesInv, NEW q
    PROVE  /\ Sortable(UsedGroups(q)) /\ Sortable(LinkedGroups(q)) /\ Sortable(AllGroups(q))
           /\ Sortable(ResultRows(q))
           /\ \A g \in AllGroups(q) : g.linkStatus \in {0, 2}
<1>1. Sortable(UsedGroups(q)) /\ Sortable(LinkedGroups(q))
  <2>1. UsedGroups(q) = Groups(ScoresOf(q), 1) /\ LinkedGroups(q) = Groups(LinksOf(q), 2)
    BY DEF UsedGroups, LinkedGroups, ScoresOf, LinksOf
  <2>. QED  BY <2>1, ProjectedRows, GroupsSortable
<1>2. Sortable(AllGroups(q)) /\ \A g \in AllGroups(q) : g.linkStatus \in {0, 2}
  <2>. DEFINE linked == Projected(LinksOf(q))
              used == Projected(ScoresOf(q))
              others == {row \in used : row.resource \notin {x.resource : x \in linked}}
  <2>1. AllGroups(q) = Groups(linked, 2) \cup Groups(others, 0)
    BY DEF AllGroups, ScoresOf, LinksOf
  <2>2. IsFiniteSet(linked) /\ \A row \in linked : IsJoined(row)
    BY ProjectedRows
  <2>3. IsFiniteSet(others) /\ \A row \in others : IsJoined(row)
    BY ProjectedRows, FS_Subset
  <2>. HIDE DEF linked, others
  <2>4. Sortable(Groups(linked, 2)) /\ \A g \in Groups(linked, 2) : g.linkStatus = 2
    BY <2>2, GroupsSortable
  <2>5. Sortable(Groups(others, 0)) /\ \A g \in Groups(others, 0) : g.linkStatus = 0
    BY <2>3, GroupsSortable
  <2>6. IsFiniteSet(AllGroups(q))
    <3>1. IsFiniteSet(Groups(linked, 2)) /\ IsFiniteSet(Groups(others, 0))
      BY <2>4, <2>5 DEF Sortable
    <3>. HIDE DEF others
    <3>. QED  BY <2>1, <3>1, FS_Union
  <2>7. \A g, h \in AllGroups(q) : g.resource = h.resource => g = h
    BY AllResourcesCombine
  <2>. QED  BY <2>1, <2>4, <2>5, <2>6, <2>7 DEF Sortable
<1>3. Sortable({})
  BY FS_EmptySet DEF Sortable
<1>4. ResultRows(q) \in {{}, UsedGroups(q), LinkedGroups(q), AllGroups(q)}
  BY DEF ResultRows
<1>. QED  BY <1>1, <1>2, <1>3, <1>4

\* Every result has its place: the number of those before it.
Before(q) == [row \in ResultRows(q) |-> {other \in ResultRows(q) : ResultBefore(q.ordering, other, row)}]

\* The ORDER BY of a query orders its results totally: no tie is left.
LEMMA ResultsPlaced ==
    ASSUME TablesInv, NEW q
    PROVE  TotalOrder(ResultRows(q), Before(q))
<1>. DEFINE S == ResultRows(q)
            o == q.ordering
<1>1. Sortable(S)
  BY QueriesSortable
<1>. HIDE DEF S, o
<1>2. /\ \A x \in S : ~ResultBefore(o, x, x)
      /\ \A x, y, z \in S : ResultBefore(o, x, y) /\ ResultBefore(o, y, z) => ResultBefore(o, x, z)
      /\ \A x, y \in S : x # y => ResultBefore(o, x, y) \/ ResultBefore(o, y, x)
  BY <1>1, ResultsOrdered DEF Sortable
<1>. DEFINE before == [row \in S |-> {other \in S : ResultBefore(o, other, row)}]
<1>3. before \in [S -> SUBSET S] /\ \A x, y \in S : x \in before[y] <=> ResultBefore(o, x, y)
  OBVIOUS
<1>4. before = Before(q)
  BY DEF Before, S, o
<1>. HIDE DEF before
<1>5. TotalOrder(S, before)
  BY <1>2, <1>3 DEF TotalOrder
<1>. QED  BY <1>4, <1>5 DEF S

\* The sorted list holds every result at its place.
LEMMA SortedIs ==
    ASSUME TablesInv, NEW q
    PROVE  /\ Cardinality(ResultRows(q)) \in Nat
           /\ Sorted(q) \in [1 .. Cardinality(ResultRows(q)) -> ResultRows(q)]
           /\ \A k \in 1 .. Cardinality(ResultRows(q)) : Cardinality(Before(q)[Sorted(q)[k]]) = k - 1
           /\ \A row \in ResultRows(q) :
                 /\ Cardinality(Before(q)[row]) + 1 \in 1 .. Cardinality(ResultRows(q))
                 /\ Sorted(q)[Cardinality(Before(q)[row]) + 1] = row
           /\ \A j, k \in 1 .. Cardinality(ResultRows(q)) : Sorted(q)[j] = Sorted(q)[k] => j = k
<1>. DEFINE S == ResultRows(q)
            n == Cardinality(S)
            before == Before(q)
            count == [row \in S |-> Cardinality(before[row])]
<1>1. Sorted(q) = [k \in 1 .. n |-> CHOOSE row \in S : Cardinality(before[row]) = k - 1]
  BY DEF Sorted, Before
<1>2. IsFiniteSet(S) /\ TotalOrder(S, before)
  BY QueriesSortable, ResultsPlaced DEF Sortable
<1>. HIDE DEF before, S
<1>3. /\ n \in Nat
      /\ \A x \in S : Cardinality(before[x]) + 1 \in 1 .. n
      /\ \A x, y \in S : Cardinality(before[x]) = Cardinality(before[y]) => x = y
      /\ \A k \in 1 .. n : \E x \in S : Cardinality(before[x]) = k - 1
  BY <1>2, PlacesTaken
<1>4. \A x \in S : Cardinality(before[x]) \in Nat
  BY <1>2, FS_Subset, FS_CardinalityType DEF TotalOrder
<1>. HIDE DEF n
<1>5. \A k \in 1 .. n : Sorted(q)[k] \in S /\ Cardinality(before[Sorted(q)[k]]) = k - 1
  BY <1>1, <1>3
<1>6. Sorted(q) \in [1 .. n -> S]
  BY <1>1, <1>5
<1>7. ASSUME NEW row \in S
      PROVE  Sorted(q)[Cardinality(before[row]) + 1] = row
  <2>1. PICK k \in 1 .. n : k = Cardinality(before[row]) + 1
    BY <1>3
  <2>2. Sorted(q)[k] \in S /\ Cardinality(before[Sorted(q)[k]]) = k - 1
    BY <1>5
  <2>3. k - 1 = Cardinality(before[row])
    BY <1>4, <2>1
  <2>. QED  BY <1>3, <2>1, <2>2, <2>3
<1>8. \A j, k \in 1 .. n : Sorted(q)[j] = Sorted(q)[k] => j = k
  BY <1>3, <1>5
<1>. QED  BY <1>3, <1>5, <1>6, <1>7, <1>8 DEF S, n, before

-------------------------------------------------------------------------------
(***************************************************************************)
(* What AllCombines says of the sorted list.                               *)
(***************************************************************************)
\* In the list of all resources the linked ones come first.
LEMMA LinkedFirst ==
    ASSUME TablesInv, NEW q, ResultRows(q) = AllGroups(q),
           NEW k \in 1 .. Cardinality(ResultRows(q))
    PROVE  k <= Cardinality(LinkedGroups(q)) <=> Sorted(q)[k].resource \in Listed(LinkedGroups(q))
<1>. DEFINE S == AllGroups(q)
            two == {g \in S : g.linkStatus = 2}
            g == Sorted(q)[k]
            ahead == Before(q)[g]
<1>1. /\ IsFiniteSet(S) /\ IsFiniteSet(LinkedGroups(q))
      /\ \A x, y \in S : x.resource = y.resource => x = y
      /\ \A x, y \in LinkedGroups(q) : x.resource = y.resource => x = y
      /\ \A x \in S : x.linkStatus \in {0, 2}
  BY QueriesSortable DEF Sortable
<1>2. /\ Listed(S) = Listed(LinkedGroups(q)) \cup Listed(UsedGroups(q))
      /\ \A x \in S : x.linkStatus = 2 <=> x.resource \in Listed(LinkedGroups(q))
  BY AllResourcesCombine
<1>3. g \in S /\ Cardinality(ahead) = k - 1
  BY SortedIs
<1>4. ahead = {other \in S : ResultBefore(q.ordering, other, g)}
  BY <1>3 DEF Before
<1>5. IsFiniteSet(two) /\ IsFiniteSet(ahead) /\ Cardinality(two) \in Nat /\ Cardinality(ahead) \in Nat
  <2>1. two \in SUBSET S /\ ahead \in SUBSET S
    BY <1>4
  <2>. HIDE DEF S, two, ahead
  <2>. QED  BY <1>1, <2>1, FS_Subset, FS_CardinalityType
<1>6. Cardinality(two) = Cardinality(LinkedGroups(q))
  <2>1. Listed(two) \subseteq Listed(LinkedGroups(q))
    BY <1>2 DEF Listed
  <2>2. ASSUME NEW r \in Listed(LinkedGroups(q))
        PROVE  r \in Listed(two)
    <3>1. r \in Listed(S)
      BY <1>2
    <3>2. PICK x \in S : x.resource = r
      BY <3>1 DEF Listed
    <3>3. x \in two
      BY <1>2, <3>2
    <3>. QED  BY <3>2, <3>3 DEF Listed
  <2>3. Cardinality(Listed(two)) = Cardinality(two)
    <3>1. \A x, y \in two : x.resource = y.resource => x = y
      BY <1>1
    <3>. HIDE DEF two
    <3>. QED  BY <1>5, <3>1, ResourcesCount
  <2>4. Cardinality(Listed(LinkedGroups(q))) = Cardinality(LinkedGroups(q))
    BY <1>1, ResourcesCount
  <2>5. Listed(two) = Listed(LinkedGroups(q))
    BY <2>1, <2>2
  <2>. QED  BY <2>3, <2>4, <2>5
<1>7. CASE g \in two
  <2>1. \A other \in ahead : other \in two
    BY <1>1, <1>4, <1>7 DEF ResultBefore
  <2>2. g \notin ahead
    BY <1>3, ResultsPlaced DEF TotalOrder
  <2>3. ahead \in SUBSET (two \ {g})
    BY <2>1, <2>2
  <2>4. IsFiniteSet(two \ {g}) /\ Cardinality(two \ {g}) = Cardinality(two) - 1
    <3>. HIDE DEF two, g
    <3>. QED  BY <1>5, <1>7, FS_RemoveElement
  <2>5. Cardinality(ahead) <= Cardinality(two) - 1
    <3>. HIDE DEF two, g, ahead
    <3>. QED  BY <2>3, <2>4, FS_Subset
  <2>6. g.resource \in Listed(LinkedGroups(q))
    BY <1>2, <1>7
  <2>7. k <= Cardinality(two)
    <3>. HIDE DEF two, g, ahead
    <3>. QED  BY <1>3, <1>5, <2>5
  <2>. QED  BY <1>6, <2>6, <2>7
<1>8. CASE g \notin two
  <2>1. g.linkStatus = 0
    BY <1>1, <1>3, <1>8
  <2>2. \A x \in two : ResultBefore(q.ordering, x, g)
    BY <2>1 DEF ResultBefore
  <2>3. two \in SUBSET ahead
    BY <1>4, <2>2
  <2>4. Cardinality(two) <= Cardinality(ahead)
    <3>. HIDE DEF two, g, ahead
    <3>. QED  BY <1>5, <2>3, FS_Subset
  <2>5. g.resource \notin Listed(LinkedGroups(q))
    BY <1>2, <1>3, <1>8
  <2>6. ~(k <= Cardinality(two))
    <3>. HIDE DEF two, g, ahead
    <3>. QED  BY <1>3, <1>5, <2>4
  <2>. QED  BY <1>6, <2>5, <2>6
<1>. QED  BY <1>7, <1>8

\* The list of all resources, in every state.
LEMMA AllCombined == ASSUME TablesInv PROVE AllCombines
<1>. DEFINE S == ResultRows(query)
            n == Cardinality(S)
            all == Sorted(query)
            linked == LinkedGroups(query)
            used == UsedGroups(query)
<1>1. SUFFICES ASSUME query.selection = "AllResources", ~Fails(query)
               PROVE  /\ Range([k \in DOMAIN all |-> all[k].resource]) = Listed(linked) \cup Listed(used)
                      /\ Len(all) = Cardinality(Listed(linked) \cup Listed(used))
                      /\ \A k \in DOMAIN all : k <= Cardinality(linked) <=> all[k].resource \in Listed(linked)
                      /\ ~Dated(query) =>
                            \A k \in DOMAIN all :
                                \E row \in IF all[k].resource \in Listed(linked) THEN linked ELSE used :
                                    row.resource = all[k].resource /\ row.score = all[k].score
  BY DEF AllCombines
<1>2. S = AllGroups(query)
  BY <1>1 DEF ResultRows
<1>3. Sortable(S)
  BY QueriesSortable
<1>4. /\ n \in Nat /\ all \in [1 .. n -> S]
      /\ \A row \in S : \E k \in 1 .. n : all[k] = row
  BY SortedIs
<1>5. /\ Listed(S) = Listed(linked) \cup Listed(used)
      /\ ~Dated(query) =>
            \A g \in S :
                \E row \in IF g.resource \in Listed(linked) THEN linked ELSE used :
                    row.resource = g.resource /\ row.score = g.score
  BY <1>2, AllResourcesCombine
<1>6. \A k \in 1 .. n : k <= Cardinality(linked) <=> all[k].resource \in Listed(linked)
  BY <1>2, LinkedFirst
<1>7. Cardinality(Listed(S)) = n
  <2>. HIDE DEF S
  <2>. QED  BY <1>3, ResourcesCount DEF Sortable
<1>. HIDE DEF S, n, all, linked, used
<1>8. DOMAIN all = 1 .. n /\ Len(all) = n
  BY <1>4
<1>9. Range([k \in DOMAIN all |-> all[k].resource]) = Listed(S)
  <2>1. ASSUME NEW r \in Range([k \in DOMAIN all |-> all[k].resource])
        PROVE  r \in Listed(S)
    <3>1. PICK k \in 1 .. n : r = all[k].resource
      BY <1>8, <2>1 DEF Range
    <3>. QED  BY <1>4, <3>1 DEF Listed
  <2>2. ASSUME NEW r \in Listed(S)
        PROVE  r \in Range([k \in DOMAIN all |-> all[k].resource])
    <3>1. PICK row \in S : r = row.resource
      BY <2>2 DEF Listed
    <3>2. PICK k \in 1 .. n : all[k] = row
      BY <1>4
    <3>. QED  BY <1>8, <3>1, <3>2 DEF Range
  <2>. QED  BY <2>1, <2>2
<1>10. ~Dated(query) =>
          \A k \in DOMAIN all :
              \E row \in IF all[k].resource \in Listed(linked) THEN linked ELSE used :
                  row.resource = all[k].resource /\ row.score = all[k].score
  BY <1>4, <1>5, <1>8
<1>. QED  BY <1>5, <1>6, <1>7, <1>8, <1>9, <1>10

\* The query for all resources lists the linked resources and then the used ones, each
\* once and with the score that the simpler query gives it, in every order.
THEOREM AllListedOnce == Spec => []AllCombines
<1>1. TablesInv => AllCombines
  BY AllCombined
<1>. QED  BY <1>1, TablesKept, PTL

-------------------------------------------------------------------------------
(***************************************************************************)
(* Sequences behind each other: what FlattenSeq returns.                   *)
(***************************************************************************)
\* The values that G defines depend on the values at elements of a smaller rank.
ByRank(D, V, rank, G) ==
    /\ G \in [D -> [[D -> V] -> V]]
    /\ \A x \in D : \A g, h \in [D -> V] :
           (\A y \in D : rank[y] < rank[x] => g[y] = h[y]) => G[x][g] = G[x][h]

\* Such a recursive definition defines a function.
LEMMA RecursionExists ==
    ASSUME NEW D, NEW V, V # {}, NEW N \in Nat, NEW rank \in [D -> 0 .. N],
           NEW G, ByRank(D, V, rank, G)
    PROVE  \E f \in [D -> V] : \A x \in D : f[x] = G[x][f]
<1>. DEFINE Right(n, f) == \A x \in D : rank[x] < n => f[x] = G[x][f]
            wrong == {n \in Nat : ~\E f \in [D -> V] : Right(n, f)}
<1>0. /\ G \in [D -> [[D -> V] -> V]]
      /\ \A x \in D : \A g, h \in [D -> V] :
             (\A y \in D : rank[y] < rank[x] => g[y] = h[y]) => G[x][g] = G[x][h]
  BY DEF ByRank
<1>1. wrong = {}
  <2>1. SUFFICES ASSUME wrong # {} PROVE FALSE
    OBVIOUS
  <2>2. PICK n \in wrong : \A k \in wrong : n <= k
    <3>1. wrong \in SUBSET Nat
      OBVIOUS
    <3>. HIDE DEF wrong
    <3>. QED  BY <2>1, <3>1, Generic!LeastOf
  <2>3. n # 0
    <3>1. PICK v \in V : TRUE
      OBVIOUS
    <3>2. [x \in D |-> v] \in [D -> V] /\ Right(0, [x \in D |-> v])
      OBVIOUS
    <3>. QED  BY <2>2, <3>2
  <2>4. n - 1 \in Nat /\ n - 1 \notin wrong
    BY <2>2, <2>3
  <2>5. PICK f \in [D -> V] : Right(n - 1, f)
    BY <2>4
  <2>. DEFINE g == [x \in D |-> G[x][f]]
  <2>6. g \in [D -> V]
    BY <1>0
  <2>7. ASSUME NEW x \in D, rank[x] < n
        PROVE  g[x] = G[x][g]
    <3>1. \A y \in D : rank[y] < rank[x] => rank[y] < n - 1
      BY <2>2, <2>7
    <3>2. \A y \in D : rank[y] < rank[x] => f[y] = g[y]
      BY <2>5, <3>1
    <3>. HIDE DEF g
    <3>3. G[x][f] = G[x][g]
      BY <1>0, <2>6, <3>2
    <3>. QED  BY <3>3 DEF g
  <2>. HIDE DEF g
  <2>8. Right(n, g)
    BY <2>7
  <2>. QED  BY <2>2, <2>6, <2>8
<1>2. PICK f \in [D -> V] : Right(N + 1, f)
  <2>1. N + 1 \in Nat /\ N + 1 \notin wrong
    <3>1. N + 1 \in Nat
      OBVIOUS
    <3>. HIDE DEF Right
    <3>. QED  BY <1>1, <3>1
  <2>. HIDE DEF Right
  <2>. QED  BY <2>1
<1>. QED  BY <1>2

\* Two sequences behind each other.
LEMMA BehindEachOther ==
    ASSUME NEW S, NEW s \in Seq(S), NEW t \in Seq(S)
    PROVE  /\ s \o t \in Seq(S) /\ Len(s \o t) = Len(s) + Len(t)
           /\ \A d \in 1 .. Len(s) : (s \o t)[d] = s[d]
           /\ \A d \in 1 .. Len(t) : (s \o t)[Len(s) + d] = t[d]
OBVIOUS

\* The m sequences in seqs are put into the whole one from these places on.
Places(seqs, whole, m, from) ==
    /\ from \in [1 .. m + 1 -> Nat \ {0}]
    /\ from[1] = 1 /\ from[m + 1] = Len(whole) + 1
    /\ \A k \in 1 .. m : /\ from[k + 1] = from[k] + Len(seqs[k])
                         /\ \A d \in 1 .. Len(seqs[k]) : whole[from[k] + d - 1] = seqs[k][d]

\* The parts of a flattened sequence: each goes on with the one before.
Parts(flat, seqs, m) == flat[1] = seqs[1] /\ \A i \in 2 .. m : flat[i] = flat[i - 1] \o seqs[i]

\* The last part is all of them behind each other, and each has its place in it.
LEMMA PartsJoined ==
    ASSUME NEW S, NEW m \in Nat \ {0}, NEW seqs, \A k \in 1 .. m : seqs[k] \in Seq(S),
           NEW flat, Parts(flat, seqs, m)
    PROVE  flat[m] \in Seq(S) /\ \E from : Places(seqs, flat[m], m, from)
<1>. DEFINE D == 1 .. m
            whole == flat[m]
<1>0. m \in Nat /\ m # 0 /\ \A k \in 1 .. m : seqs[k] \in Seq(S)
  OBVIOUS
<1>1. whole = flat[m]
  OBVIOUS
<1>6. flat[1] = seqs[1] /\ \A i \in 2 .. m : flat[i] = flat[i - 1] \o seqs[i]
  BY DEF Parts
<1>. HIDE DEF whole
\* The parts: each is a sequence and goes on with the one before.
<1>7. \A i \in D : flat[i] \in Seq(S)
  <2>. DEFINE bad == {i \in D : flat[i] \notin Seq(S)}
  <2>1. SUFFICES ASSUME bad # {} PROVE FALSE
    OBVIOUS
  <2>2. PICK n \in bad : \A k \in bad : n <= k
    <3>1. bad \in SUBSET Nat
      BY <1>0
    <3>. HIDE DEF bad
    <3>. QED  BY <2>1, <3>1, Generic!LeastOf
  <2>3. n # 1
    BY <1>0, <1>6, <2>2
  <2>4. n \in 2 .. m /\ n - 1 \in D /\ n - 1 \notin bad
    BY <1>0, <2>2, <2>3
  <2>5. flat[n - 1] \in Seq(S)
    BY <2>4
  <2>6. flat[n] = flat[n - 1] \o seqs[n] /\ seqs[n] \in Seq(S)
    BY <1>0, <1>6, <2>2, <2>4
  <2>7. flat[n] \in Seq(S)
    BY <2>5, <2>6
  <2>. QED  BY <2>2, <2>7
<1>. DEFINE len == [i \in D |-> Len(flat[i])]
            size == [i \in D |-> Len(seqs[i])]
<1>8. \A i \in D : len[i] = Len(flat[i]) /\ size[i] = Len(seqs[i]) /\ len[i] \in Nat /\ size[i] \in Nat
  <2>1. ASSUME NEW s \in Seq(S) PROVE Len(s) \in Nat
    OBVIOUS
  <2>. QED  BY ONLY <1>0, <1>7, <2>1, Zenon DEF D
<1>. HIDE DEF len, size
<1>9. \A i \in 2 .. m : /\ i \in D /\ i - 1 \in D
                        /\ len[i] = len[i - 1] + size[i]
                        /\ \A d \in 1 .. len[i - 1] : flat[i][d] = flat[i - 1][d]
                        /\ \A d \in 1 .. size[i] : flat[i][len[i - 1] + d] = seqs[i][d]
  <2>1. SUFFICES ASSUME NEW i \in 2 .. m
                 PROVE  /\ i \in D /\ i - 1 \in D
                        /\ len[i] = len[i - 1] + size[i]
                        /\ \A d \in 1 .. len[i - 1] : flat[i][d] = flat[i - 1][d]
                        /\ \A d \in 1 .. size[i] : flat[i][len[i - 1] + d] = seqs[i][d]
    OBVIOUS
  <2>2. i \in D /\ i - 1 \in D
    BY ONLY <1>0, <2>1
  <2>3. flat[i] = flat[i - 1] \o seqs[i] /\ flat[i - 1] \in Seq(S) /\ seqs[i] \in Seq(S)
    BY <1>0, <1>6, <1>7, <2>2
  <2>4. /\ len[i] = Len(flat[i]) /\ len[i - 1] = Len(flat[i - 1]) /\ size[i] = Len(seqs[i])
    BY ONLY <1>8, <2>2
  <2>5. PICK a \in Seq(S), b \in Seq(S) : a = flat[i - 1] /\ b = seqs[i]
    BY ONLY <2>3
  <2>6. flat[i] = a \o b
    BY ONLY <2>3, <2>5
  <2>7. /\ Len(a \o b) = Len(a) + Len(b)
        /\ \A d \in 1 .. Len(a) : (a \o b)[d] = a[d]
        /\ \A d \in 1 .. Len(b) : (a \o b)[Len(a) + d] = b[d]
    BY ONLY a \in Seq(S), b \in Seq(S), BehindEachOther
  <2>8. len[i] = Len(a \o b) /\ len[i - 1] = Len(a) /\ size[i] = Len(b)
    BY ONLY <2>4, <2>5, <2>6
  <2>. QED  BY ONLY <2>2, <2>5, <2>6, <2>7, <2>8, Zenon
<1>10. \A k \in D : \A d \in 1 .. len[k] : whole[d] = flat[k][d]
  <2>1. SUFFICES ASSUME NEW k \in D, NEW d \in 1 .. len[k]
                 PROVE  whole[d] = flat[k][d]
    OBVIOUS
  <2>. DEFINE bad == {i \in k .. m : ~(d \in 1 .. len[i] /\ flat[i][d] = flat[k][d])}
  <2>2. bad = {}
    <3>1. SUFFICES ASSUME bad # {} PROVE FALSE
      OBVIOUS
    <3>2. PICK n \in bad : \A j \in bad : n <= j
      <4>1. bad \in SUBSET Nat
        BY <1>0
      <4>. HIDE DEF bad
      <4>. QED  BY <3>1, <4>1, Generic!LeastOf
    <3>3. n # k
      BY <2>1, <3>2
    <3>4. n \in 2 .. m /\ n - 1 \in k .. m /\ n - 1 \notin bad
      BY <1>0, <3>2, <3>3
    <3>5. d \in 1 .. len[n - 1] /\ flat[n - 1][d] = flat[k][d]
      BY <3>4
    <3>6. len[n - 1] \in Nat /\ size[n] \in Nat /\ len[n] = len[n - 1] + size[n] /\ flat[n][d] = flat[n - 1][d]
      BY ONLY <1>8, <1>9, <3>4, <3>5
    <3>7. d \in 1 .. len[n] /\ flat[n][d] = flat[k][d]
      BY ONLY <3>5, <3>6
    <3>. QED  BY <3>2, <3>7
  <2>3. m \in k .. m
    BY ONLY <1>0, <2>1
  <2>4. m \notin bad
    <3>. HIDE DEF bad
    <3>. QED  BY ONLY <2>2
  <2>. QED  BY <1>1, <2>3, <2>4
<1>. DEFINE from == [k \in 1 .. m + 1 |-> IF k = 1 THEN 1 ELSE len[k - 1] + 1]
<1>11. from \in [1 .. m + 1 -> Nat \ {0}]
  <2>1. \A k \in 1 .. m + 1 : k # 1 => k - 1 \in D
    BY <1>0
  <2>. QED  BY <1>8, <2>1
<1>12. from[1] = 1 /\ from[m + 1] = Len(whole) + 1 /\ whole \in Seq(S)
  <2>1. m \in D /\ m + 1 # 1 /\ 1 \in 1 .. m + 1 /\ m + 1 \in 1 .. m + 1 /\ m + 1 - 1 = m
    BY ONLY <1>0
  <2>2. from[1] = 1 /\ from[m + 1] = len[m] + 1
    BY ONLY <2>1
  <2>. HIDE DEF from
  <2>. QED  BY ONLY <1>1, <1>7, <1>8, <2>1, <2>2, Zenon
<1>13. ASSUME NEW k \in D
       PROVE  /\ from[k + 1] = from[k] + size[k]
              /\ \A d \in 1 .. size[k] : whole[from[k] + d - 1] = seqs[k][d]
  <2>0. /\ k + 1 \in 1 .. m + 1 /\ k \in 1 .. m + 1 /\ k + 1 # 1 /\ k + 1 - 1 = k
        /\ size[k] \in Nat /\ len[k] \in Nat
    BY <1>0, <1>8
  <2>1. from[k + 1] = len[k] + 1
    BY <2>0
  <2>2. CASE k = 1
    <3>1. from[k] = 1 /\ flat[k] = seqs[k] /\ len[k] = size[k]
      BY <1>6, <1>8, <1>12, <2>2
    <3>. HIDE DEF from
    <3>2. \A d \in 1 .. size[k] : whole[d] = seqs[k][d]
      BY <1>10, <3>1
    <3>3. \A d \in 1 .. size[k] : 1 + d - 1 = d
      BY <2>0
    <3>. QED  BY <2>0, <2>1, <3>1, <3>2, <3>3
  <2>3. CASE k # 1
    <3>1. k \in 2 .. m /\ k - 1 \in D
      BY <1>0, <2>3
    <3>2. from[k] = len[k - 1] + 1 /\ len[k - 1] \in Nat
      BY <1>8, <2>0, <2>3, <3>1
    <3>. HIDE DEF from
    <3>3. /\ len[k] = len[k - 1] + size[k]
          /\ \A d \in 1 .. size[k] : flat[k][len[k - 1] + d] = seqs[k][d]
      BY <1>9, <3>1
    <3>4. \A d \in 1 .. size[k] : len[k - 1] + d \in 1 .. len[k] /\ from[k] + d - 1 = len[k - 1] + d
      BY ONLY <2>0, <3>2, <3>3
    <3>5. \A d \in 1 .. size[k] : whole[from[k] + d - 1] = seqs[k][d]
      BY ONLY <1>10, <1>13, <3>3, <3>4
    <3>6. from[k + 1] = from[k] + size[k]
      BY ONLY <2>0, <2>1, <3>2, <3>3
    <3>. QED  BY <3>5, <3>6
  <2>. QED  BY <2>2, <2>3
<1>. HIDE DEF from
<1>14. Places(seqs, whole, m, from)
  BY ONLY <1>8, <1>11, <1>12, <1>13, Zenon DEF Places, D
<1>. QED  BY ONLY <1>1, <1>12, <1>14

\* To flatten some sequences puts them behind each other.
LEMMA FlattenIs ==
    ASSUME NEW S, NEW seqs \in Seq(Seq(S))
    PROVE  FlattenSeq(seqs) \in Seq(S) /\ \E from : Places(seqs, FlattenSeq(seqs), Len(seqs), from)
<1>. DEFINE m == Len(seqs)
            whole == FlattenSeq(seqs)
            V == Seq(S)
<1>0. m \in Nat /\ \A k \in 1 .. m : seqs[k] \in V
  OBVIOUS
<1>. HIDE DEF m, whole
<1>1. CASE m = 0
  <2>1. whole = seqs /\ seqs = << >>
    BY <1>1 DEF FlattenSeq, m, whole
  <2>2. Places(seqs, whole, Len(seqs), [k \in 1 .. 1 |-> 1])
    BY <2>1 DEF Places
  <2>. QED  BY <2>1, <2>2 DEF whole
<1>2. CASE m # 0
  <2>. DEFINE D == 1 .. m
              Step(g) == [i \in D |-> IF i = 1 THEN seqs[i] ELSE g[i - 1] \o seqs[i]]
              Right(g) == g = Step(g)
              flat == CHOOSE g : Right(g)
              G == [i \in D |-> [g \in [D -> V] |-> IF i = 1 THEN seqs[i] ELSE g[i - 1] \o seqs[i]]]
              rank == [i \in D |-> i]
  <2>1. whole = flat[m]
    BY <1>2 DEF FlattenSeq, m, whole
  <2>2. \E f \in [D -> V] : \A i \in D : f[i] = G[i][f]
    <3>1. rank \in [D -> 0 .. m] /\ V # {} /\ m \in Nat
      <4>1. << >> \in V
        OBVIOUS
      <4>. QED  BY <1>0, <4>1
    <3>2. ASSUME NEW i \in D, NEW g \in [D -> V], i # 1
          PROVE  g[i - 1] \o seqs[i] \in V
      <4>1. i \in 1 .. m /\ i - 1 \in D
        BY ONLY <1>0, <3>2
      <4>2. g[i - 1] \in V /\ seqs[i] \in V
        BY ONLY <1>0, <3>2, <4>1
      <4>. QED  BY ONLY <4>2, BehindEachOther
    <3>3. G \in [D -> [[D -> V] -> V]]
      <4>. HIDE DEF V
      <4>. QED  BY ONLY <1>0, <3>2
    <3>4. \A i \in D : \A g, h \in [D -> V] :
              (\A y \in D : rank[y] < rank[i] => g[y] = h[y]) => G[i][g] = G[i][h]
      <4>1. \A i \in D : i # 1 => i - 1 \in D /\ rank[i - 1] < rank[i]
        BY ONLY <1>0
      <4>. HIDE DEF V, rank
      <4>. QED  BY ONLY <4>1
    <3>. HIDE DEF D, G, rank, V
    <3>5. ByRank(D, V, rank, G)
      BY ONLY <3>3, <3>4 DEF ByRank
    <3>. QED  BY ONLY <3>1, <3>5, RecursionExists
  <2>3. \E g : Right(g)
    <3>1. PICK f \in [D -> V] : \A i \in D : f[i] = G[i][f]
      BY <2>2
    <3>. HIDE DEF V
    <3>2. \A i \in D : f[i] = IF i = 1 THEN seqs[i] ELSE f[i - 1] \o seqs[i]
      BY ONLY <3>1
    <3>3. f = Step(f)
      BY ONLY <3>1, <3>2
    <3>. QED  BY <3>3
  <2>4. Right(flat)
    <3>. HIDE DEF Right
    <3>. QED  BY <2>3, Zenon
  <2>5. \A i \in D : flat[i] = IF i = 1 THEN seqs[i] ELSE flat[i - 1] \o seqs[i]
    <3>. HIDE DEF flat, V
    <3>. QED  BY ONLY <2>4
  <2>. HIDE DEF flat, G, rank, Right, Step
  <2>6. flat[1] = seqs[1] /\ \A i \in 2 .. m : flat[i] = flat[i - 1] \o seqs[i]
    <3>1. 1 \in D /\ \A i \in 2 .. m : i \in D /\ i # 1
      BY ONLY <1>0, <1>2
    <3>. HIDE DEF D
    <3>. QED  BY ONLY <2>5, <3>1
  <2>7. m \in Nat \ {0} /\ \A k \in 1 .. m : seqs[k] \in Seq(S)
    BY <1>0, <1>2
  <2>8. Parts(flat, seqs, m)
    BY ONLY <2>6 DEF Parts
  <2>9. Len(seqs) = m /\ FlattenSeq(seqs) = flat[m]
    BY <2>1 DEF m, whole
  <2>. HIDE DEF D
  <2>10. flat[m] \in Seq(S) /\ \E from : Places(seqs, flat[m], m, from)
    BY ONLY <2>7, <2>8, PartsJoined
  <2>. QED  BY ONLY <2>9, <2>10
<1>. QED  BY <1>1, <1>2

-------------------------------------------------------------------------------
(***************************************************************************)
(* The types of the tables and of the query, and its page of results.      *)
(***************************************************************************)
\* The characters of texts.
Char == {Alphabet[k] : k \in DOMAIN Alphabet}

\* A pattern without its quotes holds none.
LEMMA QuotesRemoved ==
    ASSUME NEW S, NEW pattern \in Seq(S)
    PROVE  WithoutQuotes(pattern) \in Seq(S \ {"'"})
<1>. DEFINE T == S \ {"'"}
            seqs == [k \in DOMAIN pattern |-> IF pattern[k] = "'" THEN <<>> ELSE <<pattern[k]>>]
<1>1. \A k \in DOMAIN pattern : pattern[k] \in S
  OBVIOUS
<1>2. <<>> \in Seq(T) /\ \A c \in T : <<c>> \in Seq(T)
  OBVIOUS
<1>3. \A k \in DOMAIN pattern : seqs[k] \in Seq(T)
  BY <1>1, <1>2
<1>4. DOMAIN pattern = 1 .. Len(pattern) /\ Len(pattern) \in Nat
  OBVIOUS
<1>5. seqs \in Seq(Seq(T))
  <2>. DEFINE V == Seq(T)
              n == Len(pattern)
  <2>1. n \in Nat /\ seqs \in [1 .. n -> V]
    BY <1>3, <1>4
  <2>. HIDE DEF V, seqs, n
  <2>2. seqs \in Seq(V)
    BY ONLY <2>1
  <2>. QED  BY <2>2 DEF V
<1>. HIDE DEF seqs, T
<1>6. FlattenSeq(seqs) \in Seq(T)
  BY <1>5, FlattenIs
<1>. QED  BY <1>6 DEF WithoutQuotes, seqs, T

\* A step leaves a filter, clears it, or puts the values of a term into it.
LEMMA FilterChanged ==
    ASSUME QueryShape, Next, NEW filter \in Filter
    PROVE  \/ query'[filter] = query[filter]
           \/ query'[filter] = {}
           \/ \E t \in FilterTerms :
                 /\ t.filter = filter
                 /\ query'[filter] \in {Validated(filter, query[filter] \cup t.values), Validated(filter, t.values)}
<1>1. \A value : \A field \in QueryFields :
          /\ [query EXCEPT ![field] = value][field] = value
          /\ \A other \in QueryFields \ {field} : [query EXCEPT ![field] = value][other] = query[other]
  BY DEF QueryShape
<1>2. filter \in QueryFields
  BY DEF QueryFields
<1>3. ASSUME NEW t \in FilterTerms, query' \in {Set(query, t.filter, t.values), Add(query, t.filter, t.values)}
      PROVE  \/ query'[filter] = query[filter]
             \/ /\ t.filter = filter
                /\ query'[filter] \in {Validated(filter, query[filter] \cup t.values), Validated(filter, t.values)}
  <2>1. t.filter \in QueryFields
    BY TermsAssumption DEF QueryFields
  <2>2. \/ query' = [query EXCEPT ![t.filter] = Validated(t.filter, t.values)]
        \/ query' = [query EXCEPT ![t.filter] = Validated(t.filter, query[t.filter] \cup t.values)]
    BY <1>3 DEF Set, Add
  <2>. QED  BY <1>1, <1>2, <2>1, <2>2
<1>4. ASSUME NEW t \in TermsUsed, AddTerm(t)
      PROVE  \/ query'[filter] = query[filter]
             \/ /\ t \in FilterTerms /\ t.filter = filter
                /\ query'[filter] \in {Validated(filter, query[filter] \cup t.values), Validated(filter, t.values)}
  <2>1. query' = Pipe(query, t)
    BY <1>4 DEF AddTerm
  <2>2. CASE t.term = "Filter"
    <3>1. t \in FilterTerms
      BY <2>2 DEF FilterTerms
    <3>2. query' \in {Set(query, t.filter, t.values), Add(query, t.filter, t.values)}
      BY <2>1, <2>2 DEF Pipe
    <3>. QED  BY <1>3, <3>1, <3>2
  <2>3. CASE t.term = "Date"
    <3>1. query' = [query EXCEPT !.start = t.start, !.end = t.end]
      BY <2>1, <2>3 DEF Pipe
    <3>. QED  BY <3>1 DEF QueryShape, QueryFields, Filter
  <2>4. CASE t.term = "Setting"
    <3>1. query' = [query EXCEPT ![t.field] = t.value]
      BY <2>1, <2>4 DEF Pipe
    <3>2. t.field \in QueryFields \ {filter}
      BY <2>4, TermsAssumption DEF QueryFields, Filter
    <3>. QED  BY <1>1, <1>2, <3>1, <3>2
  <2>. QED  BY <2>2, <2>3, <2>4, TermsAssumption
<1>5. ASSUME NEW t \in Replacements, SetFilter(t)
      PROVE  \/ query'[filter] = query[filter]
             \/ /\ t \in FilterTerms /\ t.filter = filter
                /\ query'[filter] \in {Validated(filter, query[filter] \cup t.values), Validated(filter, t.values)}
  BY <1>3, <1>5 DEF SetFilter, FilterTerms
<1>6. ASSUME NEW f \in Filter, ClearFilter(f)
      PROVE  query'[filter] \in {query[filter], {}}
  BY <1>1, <1>2, <1>6 DEF ClearFilter, Clear, QueryFields
<1>7. CASE \/ \E row \in ScoreRows : InsertScore(row)
           \/ \E row \in LinkRows : InsertLink(row)
           \/ \E row \in InfoRows : InsertInfo(row)
           \/ \E row \in EventRows : InsertEvent(row)
  BY <1>7 DEF InsertScore, InsertLink, InsertInfo, InsertEvent
<1>. QED  BY <1>4, <1>5, <1>6, <1>7 DEF Next

\* A step sets the limit and the offset to numbers.
LEMMA PageChanged ==
    ASSUME QueryShape, Next, query.limit \in Int, query.offset \in Nat
    PROVE  query'.limit \in Int /\ query'.offset \in Nat
<1>1. \A value : \A field \in QueryFields :
          /\ [query EXCEPT ![field] = value][field] = value
          /\ \A other \in QueryFields \ {field} : [query EXCEPT ![field] = value][other] = query[other]
  BY DEF QueryShape
<1>2. {"limit", "offset"} \subseteq QueryFields /\ {"limit", "offset"} \cap Filter = {} /\ Filter \subseteq QueryFields
  BY DEF QueryFields, Filter
<1>3. ASSUME NEW f \in Filter, NEW value, query' = [query EXCEPT ![f] = value]
      PROVE  query'.limit = query.limit /\ query'.offset = query.offset
  BY <1>1, <1>2, <1>3
<1>4. ASSUME NEW t \in TermsUsed, AddTerm(t)
      PROVE  query'.limit \in Int /\ query'.offset \in Nat
  <2>1. query' = Pipe(query, t)
    BY <1>4 DEF AddTerm
  <2>2. CASE t.term = "Filter"
    <3>1. t.filter \in Filter
      BY <2>2, TermsAssumption DEF FilterTerms
    <3>2. \E value : query' = [query EXCEPT ![t.filter] = value]
      BY <2>1, <2>2 DEF Pipe, Set, Add
    <3>. QED  BY <1>3, <3>1, <3>2
  <2>3. CASE t.term = "Date"
    <3>1. query' = [query EXCEPT !.start = t.start, !.end = t.end]
      BY <2>1, <2>3 DEF Pipe
    <3>. QED  BY <3>1 DEF QueryShape, QueryFields, Filter
  <2>4. CASE t.term = "Setting"
    <3>1. query' = [query EXCEPT ![t.field] = t.value]
      BY <2>1, <2>4 DEF Pipe
    <3>2. t.field \in QueryFields
      BY <2>4, TermsAssumption DEF QueryFields
    <3>3. (t.field = "limit" => t.value \in Int) /\ (t.field = "offset" => t.value \in Nat)
      BY <2>4, TermsAssumption
    <3>. QED  BY <1>1, <1>2, <3>1, <3>2, <3>3
  <2>. QED  BY <2>2, <2>3, <2>4, TermsAssumption
<1>5. ASSUME NEW t \in Replacements, SetFilter(t)
      PROVE  query'.limit = query.limit /\ query'.offset = query.offset
  <2>1. t.filter \in Filter /\ \E value : query' = [query EXCEPT ![t.filter] = value]
    BY <1>5, TermsAssumption DEF SetFilter, Set, FilterTerms
  <2>. QED  BY <1>3, <2>1
<1>6. ASSUME NEW f \in Filter, ClearFilter(f)
      PROVE  query'.limit = query.limit /\ query'.offset = query.offset
  <2>1. \E value : query' = [query EXCEPT ![f] = value]
    BY <1>6 DEF ClearFilter, Clear
  <2>. QED  BY <1>3, <2>1
<1>7. CASE \/ \E row \in ScoreRows : InsertScore(row)
           \/ \E row \in LinkRows : InsertLink(row)
           \/ \E row \in InfoRows : InsertInfo(row)
           \/ \E row \in EventRows : InsertEvent(row)
  BY <1>7 DEF InsertScore, InsertLink, InsertInfo, InsertEvent
<1>. QED  BY <1>4, <1>5, <1>6, <1>7 DEF Next

\* Tables have keys.
KeysInv == /\ \A table \in {scoreCache, links} : \A x, y \in table : Key(x) = Key(y) => x = y
           /\ \A x, y \in infos : x.resource = y.resource => x = y

\* A query's filters on urls and titles are patterns without quotes.
FiltersInv == \A filter \in {"urlFilters", "titleFilters"} : query[filter] \subseteq Seq(Char \ {"'"})

\* The limit may be missing (negative), the offset is never negative.
PageInv == query.limit \in Int /\ query.offset \in Nat

\* No second row with a key is inserted.
LEMMA KeysKept == Spec => []KeysInv
<1>1. Init => KeysInv
  BY DEF Init, KeysInv
<1>2. KeysInv /\ [Next]_vars => KeysInv'
  <2>1. SUFFICES ASSUME KeysInv, [Next]_vars PROVE KeysInv'
    OBVIOUS
  <2>2. CASE UNCHANGED tables
    BY <2>1, <2>2 DEF KeysInv, tables
  <2>3. CASE \E row \in ScoreRows : InsertScore(row)
    BY <2>1, <2>3 DEF KeysInv, InsertScore, NewKey
  <2>4. CASE \E row \in LinkRows : InsertLink(row)
    BY <2>1, <2>4 DEF KeysInv, InsertLink, NewKey
  <2>5. CASE \E row \in InfoRows : InsertInfo(row)
    BY <2>1, <2>5 DEF KeysInv, InsertInfo
  <2>6. CASE \E row \in EventRows : InsertEvent(row)
    BY <2>1, <2>6 DEF KeysInv, InsertEvent
  <2>. QED  BY <2>1, <2>2, <2>3, <2>4, <2>5, <2>6 DEF Next, AddTerm, SetFilter, ClearFilter, vars, tables
<1>. QED  BY <1>1, <1>2, PTL DEF Spec

\* Every way into a filter takes the quotes away.
LEMMA FiltersKept == Spec => [](FiltersInv /\ PageInv)
<1>0. Text = Seq(Char)
  BY DEF Text, Char
<1>1. Init => FiltersInv /\ PageInv
  BY DEF Init, FiltersInv, PageInv, NewQuery, DefaultLimit
<1>2. QueryShape /\ FiltersInv /\ PageInv /\ [Next]_vars => (FiltersInv /\ PageInv)'
  <2>1. SUFFICES ASSUME QueryShape, FiltersInv, PageInv, [Next]_vars PROVE FiltersInv' /\ PageInv'
    OBVIOUS
  <2>2. CASE UNCHANGED vars
    BY <2>1, <2>2 DEF FiltersInv, PageInv, vars
  <2>3. CASE Next
    <3>1. PageInv'
      BY <2>1, <2>3, PageChanged DEF PageInv
    <3>2. ASSUME NEW filter \in {"urlFilters", "titleFilters"}
          PROVE  query'[filter] \subseteq Seq(Char \ {"'"})
      <4>1. filter \in Filter
        BY DEF Filter
      <4>2. ASSUME NEW values, values \subseteq Text
            PROVE  Validated(filter, values) \subseteq Seq(Char \ {"'"})
        <5>1. \A pattern \in values : WithoutQuotes(pattern) \in Seq(Char \ {"'"})
          BY <1>0, <4>2, QuotesRemoved
        <5>. QED  BY <3>2, <5>1 DEF Validated
      <4>3. query[filter] \subseteq Text
        <5>1. \A s \in Seq(Char \ {"'"}) : s \in Seq(Char)
          OBVIOUS
        <5>. QED  BY <1>0, <2>1, <5>1 DEF FiltersInv
      <4>4. \A t \in FilterTerms : t.filter = filter => t.values \subseteq Text
        BY TermsAssumption
      <4>5. \A t \in FilterTerms : t.filter = filter =>
                /\ Validated(filter, query[filter] \cup t.values) \subseteq Seq(Char \ {"'"})
                /\ Validated(filter, t.values) \subseteq Seq(Char \ {"'"})
        BY <4>2, <4>3, <4>4
      <4>6. query[filter] \subseteq Seq(Char \ {"'"})
        BY <2>1 DEF FiltersInv
      <4>7. \/ query'[filter] = query[filter]
            \/ query'[filter] = {}
            \/ \E t \in FilterTerms :
                  /\ t.filter = filter
                  /\ query'[filter] \in {Validated(filter, query[filter] \cup t.values), Validated(filter, t.values)}
        BY <2>1, <2>3, <4>1, FilterChanged
      <4>. QED  BY <4>5, <4>6, <4>7
    <3>. QED  BY <3>1, <3>2 DEF FiltersInv
  <2>. QED  BY <2>1, <2>2, <2>3
<1>. QED  BY <1>1, <1>2, ShapeKept, PTL DEF Spec

\* No page lists a resource twice: it is a part of the sorted list.
LEMMA PageDiffers ==
    ASSUME TablesInv, NEW q, q.limit \in Int, q.offset \in Nat
    PROVE  \A j, k \in DOMAIN Page(q) : Page(q)[j].resource = Page(q)[k].resource => j = k
<1>. DEFINE all == Sorted(q)
            n == Cardinality(ResultRows(q))
            R == ResultRows(q)
            o == q.offset
<1>1. /\ n \in Nat /\ all \in [1 .. n -> R]
      /\ \A j, k \in 1 .. n : all[j] = all[k] => j = k
  BY SortedIs
<1>2. \A x, y \in R : x.resource = y.resource => x = y
  BY QueriesSortable DEF Sortable
<1>. HIDE DEF all, R, n
<1>3. \A j, k \in 1 .. n : all[j].resource = all[k].resource => j = k
  BY <1>1, <1>2
<1>4. CASE ~(q.limit > 0)
  BY <1>1, <1>3, <1>4 DEF Page, all
<1>5. CASE q.limit > 0
  <2>. DEFINE ends == {o + q.limit, n}
              last == Min(ends)
  <2>1. Len(all) = n
    BY <1>1
  <2>2. Page(q) = SubSeq(all, o + 1, last)
    BY <1>5, <2>1 DEF Page, all
  <2>3. last \in ends
    <3>1. ends \in SUBSET Nat /\ ends # {}
      BY <1>1, <1>5
    <3>2. IsFiniteSet(ends)
      <4>1. IsFiniteSet({o + q.limit}) /\ IsFiniteSet({n})
        BY FS_Singleton
      <4>2. ends = {o + q.limit} \cup {n}
        OBVIOUS
      <4>. HIDE DEF ends
      <4>. QED  BY <4>1, <4>2, FS_Union
    <3>. HIDE DEF ends
    <3>. QED  BY <3>1, <3>2, Extremes
  <2>4. last \in Nat /\ last <= n
    <3>1. \A e \in ends : last <= e
      <4>1. \E x \in ends : \A y \in ends : x <= y
        BY <1>1
      <4>. HIDE DEF ends
      <4>. QED  BY <4>1 DEF Min
    <3>. HIDE DEF last
    <3>2. o + q.limit \in Nat /\ n \in Nat
      BY <1>1, <1>5
    <3>. QED  BY ONLY <2>3, <3>1, <3>2
  <2>. HIDE DEF last
  <2>5. all \in Seq(R)
    BY <1>1
  <2>6. \A j \in DOMAIN Page(q) : o + j \in 1 .. n /\ j \in Nat /\ Page(q)[j] = all[o + j]
    BY <1>1, <2>1, <2>2, <2>4, <2>5
  <2>7. ASSUME NEW j \in DOMAIN Page(q), NEW k \in DOMAIN Page(q), Page(q)[j].resource = Page(q)[k].resource
        PROVE  j = k
    <3>1. o + j = o + k
      BY <1>3, <2>6, <2>7
    <3>. QED  BY <2>6, <3>1
  <2>. QED  BY <2>7
<1>. QED  BY <1>4, <1>5

\* Tables keep their primary keys, filters hold no quotes, and no page of the results
\* lists a resource twice.
THEOREM QueriesTypeCorrect == Spec => []QueriesTypeOK
<1>1. TablesInv /\ KeysInv /\ FiltersInv /\ PageInv => QueriesTypeOK
  <2>1. SUFFICES ASSUME TablesInv, KeysInv, FiltersInv, PageInv PROVE QueriesTypeOK
    OBVIOUS
  <2>2. ASSUME NEW pattern \in query.urlFilters \cup query.titleFilters
        PROVE  "'" \notin Range(pattern)
    <3>1. pattern \in Seq(Char \ {"'"})
      BY <2>1 DEF FiltersInv
    <3>2. \A k \in DOMAIN pattern : pattern[k] # "'"
      BY <3>1
    <3>. QED  BY <3>2 DEF Range
  <2>3. \A j, k \in DOMAIN Page(query) : Page(query)[j].resource = Page(query)[k].resource => j = k
    BY <2>1, PageDiffers DEF PageInv
  <2>. QED  BY <2>1, <2>2, <2>3 DEF QueriesTypeOK, NoneTwice, KeysInv
<1>. QED  BY <1>1, TablesKept, KeysKept, FiltersKept, PTL

-------------------------------------------------------------------------------
(***************************************************************************)
(* Star patterns: without a backslash the LIKE pattern and the regular     *)
(* expression match the same texts, since both compute the same places.    *)
(***************************************************************************)
\* Without backslashes every star is a joker.
LEMMA StarsPlain ==
    ASSUME NEW S, NEW p \in Seq(S \ {Backslash})
    PROVE  Stars(p) = {k \in DOMAIN p : p[k] = Star}
<1>. DEFINE n == Len(p)
            Step(f) == [k \in 0 .. n |-> k > 0 /\ p[k] = Backslash /\ ~f[k - 1]]
            Right(f) == f = Step(f)
            escaped == CHOOSE f : Right(f)
            none == [k \in 0 .. n |-> FALSE]
<1>0. n \in Nat /\ DOMAIN p = 1 .. n /\ \A k \in 1 .. n : p[k] # Backslash
  OBVIOUS
<1>1. Stars(p) = {k \in DOMAIN p : p[k] = Star /\ ~escaped[k - 1]}
  BY DEF Stars
<1>. HIDE DEF n
<1>2. ASSUME NEW f, NEW k \in 0 .. n
      PROVE  (k > 0 /\ p[k] = Backslash /\ ~f[k - 1]) = FALSE
  <2>1. k > 0 => k \in 1 .. n
    BY <1>0
  <2>. QED  BY <1>0, <2>1
<1>3. \A f : Step(f) = none
  BY ONLY <1>2
<1>4. Right(none)
  BY ONLY <1>3
<1>5. Right(escaped)
  <2>. HIDE DEF Right, none
  <2>. QED  BY ONLY <1>4, Zenon DEF escaped
<1>6. escaped = none
  <2>. HIDE DEF escaped, none
  <2>. QED  BY ONLY <1>3, <1>5
<1>7. \A k \in DOMAIN p : ~escaped[k - 1]
  <2>. HIDE DEF escaped
  <2>. QED  BY <1>0, <1>6
<1>. HIDE DEF escaped
<1>. QED  BY <1>1, <1>7

\* From the k-th character on, p matches the rest of the text from the places in X[k].
IsRest(X, text, p) ==
    /\ X[Len(p) + 1] = {Len(text) + 1}
    /\ \A k \in 1 .. Len(p) :
          /\ p[k] = Star => X[k] = {j \in 1 .. Len(text) + 1 : \E i \in j .. Len(text) + 1 : i \in X[k + 1]}
          /\ p[k] # Star => X[k] = {j \in 1 .. Len(text) : p[k] = text[j] /\ j + 1 \in X[k + 1]}

\* The places are determined.
LEMMA RestUnique ==
    ASSUME NEW S, NEW p \in Seq(S), NEW text, NEW X, NEW Y, IsRest(X, text, p), IsRest(Y, text, p)
    PROVE  X[1] = Y[1]
<1>. DEFINE m == Len(p)
            n == Len(text)
            wrong == {d \in 0 .. m : X[m + 1 - d] # Y[m + 1 - d]}
<1>0. m \in Nat
  OBVIOUS
<1>a. /\ X[m + 1] = {n + 1}
      /\ \A k \in 1 .. m :
            /\ p[k] = Star => X[k] = {j \in 1 .. n + 1 : \E i \in j .. n + 1 : i \in X[k + 1]}
            /\ p[k] # Star => X[k] = {j \in 1 .. n : p[k] = text[j] /\ j + 1 \in X[k + 1]}
  BY DEF IsRest
<1>b. /\ Y[m + 1] = {n + 1}
      /\ \A k \in 1 .. m :
            /\ p[k] = Star => Y[k] = {j \in 1 .. n + 1 : \E i \in j .. n + 1 : i \in Y[k + 1]}
            /\ p[k] # Star => Y[k] = {j \in 1 .. n : p[k] = text[j] /\ j + 1 \in Y[k + 1]}
  BY DEF IsRest
<1>. HIDE DEF m, n
<1>1. wrong = {}
  <2>1. SUFFICES ASSUME wrong # {} PROVE FALSE
    OBVIOUS
  <2>2. PICK d \in wrong : \A e \in wrong : d <= e
    <3>1. wrong \in SUBSET Nat
      BY <1>0
    <3>. HIDE DEF wrong
    <3>. QED  BY <2>1, <3>1, Generic!LeastOf
  <2>3. d # 0
    <3>1. m + 1 - 0 = m + 1
      BY <1>0
    <3>. QED  BY <1>a, <1>b, <2>2, <3>1
  <2>4. PICK k \in 1 .. m : k = m + 1 - d
    BY <1>0, <2>2, <2>3
  <2>5. d - 1 \in 0 .. m /\ d - 1 \notin wrong /\ k + 1 = m + 1 - (d - 1)
    BY <1>0, <2>2, <2>3, <2>4
  <2>6. X[k + 1] = Y[k + 1]
    BY <2>5
  <2>7. X[k] # Y[k]
    BY <2>2, <2>4
  <2>8. CASE p[k] = Star
    <3>1. /\ X[k] = {j \in 1 .. n + 1 : \E i \in j .. n + 1 : i \in X[k + 1]}
          /\ Y[k] = {j \in 1 .. n + 1 : \E i \in j .. n + 1 : i \in Y[k + 1]}
      BY ONLY <1>a, <1>b, <2>4, <2>8
    <3>. QED  BY ONLY <2>6, <2>7, <3>1, Zenon
  <2>9. CASE p[k] # Star
    <3>1. /\ X[k] = {j \in 1 .. n : p[k] = text[j] /\ j + 1 \in X[k + 1]}
          /\ Y[k] = {j \in 1 .. n : p[k] = text[j] /\ j + 1 \in Y[k + 1]}
      BY ONLY <1>a, <1>b, <2>4, <2>9
    <3>. QED  BY ONLY <2>6, <2>7, <3>1, Zenon
  <2>. QED  BY <2>8, <2>9
<1>2. m \in 0 .. m /\ m + 1 - m = 1
  BY ONLY <1>0
<1>3. \A d \in 0 .. m : X[m + 1 - d] = Y[m + 1 - d]
  BY <1>1
<1>4. X[m + 1 - m] = Y[m + 1 - m]
  BY ONLY <1>2, <1>3
<1>. QED  BY ONLY <1>2, <1>4

\* Without stars only the pattern itself matches.
LEMMA RestPlain ==
    ASSUME NEW S, NEW p \in Seq(S), NEW text \in Seq(S), NEW X, IsRest(X, text, p),
           \A k \in 1 .. Len(p) : p[k] # Star
    PROVE  1 \in X[1] <=> text = p
<1>. DEFINE m == Len(p)
            n == Len(text)
            Rest(k) == {j \in 1 .. n + 1 : j + m = n + k /\ \A i \in k .. m : p[i] = text[i + n - m]}
            wrong == {d \in 0 .. m : X[m + 1 - d] # Rest(m + 1 - d)}
<1>0. m \in Nat /\ n \in Nat
  OBVIOUS
<1>a. /\ X[m + 1] = {n + 1}
      /\ \A k \in 1 .. m : X[k] = {j \in 1 .. n : p[k] = text[j] /\ j + 1 \in X[k + 1]}
  BY DEF IsRest
<1>. HIDE DEF m, n
<1>1. wrong = {}
  <2>1. SUFFICES ASSUME wrong # {} PROVE FALSE
    OBVIOUS
  <2>2. PICK d \in wrong : \A e \in wrong : d <= e
    <3>1. wrong \in SUBSET Nat
      BY <1>0
    <3>. HIDE DEF wrong
    <3>. QED  BY <2>1, <3>1, Generic!LeastOf
  <2>3. d # 0
    <3>1. Rest(m + 1) = {n + 1}
      <4>1. \A j \in 1 .. n + 1 : j + m = n + (m + 1) <=> j = n + 1
        BY ONLY <1>0
      <4>2. \A i \in m + 1 .. m : FALSE
        BY ONLY <1>0
      <4>3. n + 1 \in 1 .. n + 1
        BY ONLY <1>0
      <4>. QED  BY ONLY <4>1, <4>2, <4>3
    <3>. HIDE DEF Rest
    <3>2. m + 1 - 0 = m + 1
      BY <1>0
    <3>. QED  BY <1>a, <2>2, <3>1, <3>2
  <2>4. PICK k \in 1 .. m : k = m + 1 - d
    BY <1>0, <2>2, <2>3
  <2>5. d - 1 \in 0 .. m /\ d - 1 \notin wrong /\ k + 1 = m + 1 - (d - 1)
    <3>. HIDE DEF Rest
    <3>. QED  BY <1>0, <2>2, <2>3, <2>4
  <2>6. X[k + 1] = Rest(k + 1)
    <3>. HIDE DEF Rest
    <3>. QED  BY <2>5
  <2>7. X[k] # Rest(k)
    <3>. HIDE DEF Rest
    <3>. QED  BY <2>2, <2>4
  <2>8. X[k] = {j \in 1 .. n : p[k] = text[j] /\ j + 1 \in X[k + 1]}
    BY <1>a
  <2>9. \A j \in X[k] : j \in Rest(k)
    <3>1. SUFFICES ASSUME NEW j \in 1 .. n, p[k] = text[j], j + 1 \in Rest(k + 1) PROVE j \in Rest(k)
      <4>. HIDE DEF Rest
      <4>. QED  BY <2>6, <2>8
    <3>2. j + 1 + m = n + k + 1 /\ \A i \in k + 1 .. m : p[i] = text[i + n - m]
      BY <1>0, <3>1
    <3>3. j + m = n + k /\ k + n - m = j
      BY ONLY <1>0, <2>4, <3>1, <3>2
    <3>4. \A i \in k .. m : i = k \/ i \in k + 1 .. m
      BY <1>0
    <3>5. \A i \in k .. m : p[i] = text[i + n - m]
      BY ONLY <3>1, <3>2, <3>3, <3>4
    <3>. QED  BY <1>0, <3>3, <3>5
  <2>10. \A j \in Rest(k) : j \in X[k]
    <3>1. SUFFICES ASSUME NEW j \in 1 .. n + 1, j + m = n + k, \A i \in k .. m : p[i] = text[i + n - m]
                   PROVE  j \in X[k]
      OBVIOUS
    <3>2. j \in 1 .. n /\ k + n - m = j /\ k \in k .. m
      BY <1>0, <3>1
    <3>3. p[k] = text[j]
      BY ONLY <3>1, <3>2
    <3>4. j + 1 \in Rest(k + 1)
      <4>1. j + 1 \in 1 .. n + 1 /\ j + 1 + m = n + (k + 1)
        BY <1>0, <3>1, <3>2
      <4>2. \A i \in k + 1 .. m : i \in k .. m
        BY <1>0
      <4>3. \A i \in k + 1 .. m : p[i] = text[i + n - m]
        BY ONLY <3>1, <4>2
      <4>. QED  BY ONLY <4>1, <4>3
    <3>. HIDE DEF Rest
    <3>. QED  BY ONLY <2>6, <2>8, <3>2, <3>3, <3>4
  <2>11. X[k] \subseteq Rest(k) /\ Rest(k) \subseteq X[k]
    <3>. HIDE DEF Rest
    <3>. QED  BY ONLY <2>9, <2>10
  <2>. HIDE DEF Rest
  <2>. QED  BY ONLY <2>7, <2>11
<1>2. m \in 0 .. m /\ m + 1 - m = 1
  BY ONLY <1>0
<1>3. X[1] = Rest(1)
  <2>. HIDE DEF Rest
  <2>. QED  BY <1>1, <1>2
<1>4. 1 \in Rest(1) <=> m = n /\ \A i \in 1 .. m : p[i] = text[i]
  <2>1. ASSUME m = n
        PROVE  \A i \in 1 .. m : i + n - m = i
    BY <1>0, <2>1
  <2>2. 1 + m = n + 1 <=> m = n
    BY <1>0
  <2>. QED  BY <1>0, <2>1, <2>2
<1>5. m = n /\ (\A i \in 1 .. m : p[i] = text[i]) <=> text = p
  BY DEF m, n
<1>. HIDE DEF Rest
<1>. QED  BY <1>3, <1>4, <1>5

\* The places that LIKE computes.
LikeRest(R, text, like) ==
    /\ R \in [1 .. Len(like) + 1 -> SUBSET (1 .. Len(text) + 1)]
    /\ R[Len(like) + 1] = {Len(text) + 1}
    /\ \A i \in 1 .. Len(like) :
          /\ like[i] = Backslash =>
                R[i] = {j \in 1 .. Len(text) : i < Len(like) /\ Lower(like[i + 1]) = Lower(text[j]) /\ j + 1 \in R[i + 2]}
          /\ like[i] = "%" => R[i] = {j \in 1 .. Len(text) + 1 : \E k \in j .. Len(text) + 1 : k \in R[i + 1]}
          /\ like[i] \notin {Backslash, "%"} =>
                R[i] = {j \in 1 .. Len(text) : (like[i] = "_" \/ Lower(like[i]) = Lower(text[j])) /\ j + 1 \in R[i + 1]}

\* LIKE computes these places and matches if the whole pattern matches from the first.
LEMMA LikeIs ==
    ASSUME NEW S, NEW text \in Seq(S), NEW like \in Seq(S)
    PROVE  \E R : LikeRest(R, text, like) /\ (Like(text, like) <=> 1 \in R[1])
<1>. DEFINE m == Len(like)
            n == Len(text)
            D == 1 .. m + 1
            V == SUBSET (1 .. n + 1)
            Step(i, g) ==
                CASE i > m -> {n + 1}
                  [] i <= m /\ like[i] = Backslash ->
                        {j \in 1 .. n : i < m /\ Lower(like[i + 1]) = Lower(text[j]) /\ j + 1 \in g[i + 2]}
                  [] i <= m /\ like[i] = "%" -> {j \in 1 .. n + 1 : \E k \in j .. n + 1 : k \in g[i + 1]}
                  [] OTHER -> {j \in 1 .. n : (like[i] = "_" \/ Lower(like[i]) = Lower(text[j])) /\ j + 1 \in g[i + 1]}
            Steps(g) == [i \in D |-> Step(i, g)]
            Right(g) == g = Steps(g)
            rest == CHOOSE g : Right(g)
            G == [i \in D |-> [g \in [D -> V] |-> Step(i, g)]]
            rank == [i \in D |-> m + 1 - i]
<1>0. m \in Nat /\ n \in Nat
  OBVIOUS
<1>1. Like(text, like) <=> 1 \in rest[1]
  BY DEF Like
<1>. HIDE DEF m, n
<1>2. ASSUME NEW i \in 1 .. m, NEW g
      PROVE  /\ like[i] = Backslash =>
                    Step(i, g) = {j \in 1 .. n : i < m /\ Lower(like[i + 1]) = Lower(text[j]) /\ j + 1 \in g[i + 2]}
             /\ like[i] = "%" => Step(i, g) = {j \in 1 .. n + 1 : \E k \in j .. n + 1 : k \in g[i + 1]}
             /\ like[i] \notin {Backslash, "%"} =>
                    Step(i, g) = {j \in 1 .. n : (like[i] = "_" \/ Lower(like[i]) = Lower(text[j])) /\ j + 1 \in g[i + 1]}
  <2>1. ~(i > m) /\ i <= m /\ Backslash # "%"
    BY ONLY <1>0, <1>2 DEF Backslash
  <2>2. CASE like[i] = Backslash
    BY ONLY <2>1, <2>2
  <2>3. CASE like[i] = "%"
    BY ONLY <2>1, <2>3
  <2>4. CASE like[i] \notin {Backslash, "%"}
    BY ONLY <2>1, <2>4
  <2>. HIDE DEF Step
  <2>. QED  BY <2>1, <2>2, <2>3, <2>4
<1>3. \A g : Step(m + 1, g) = {n + 1}
  <2>1. m + 1 > m /\ ~(m + 1 <= m)
    BY ONLY <1>0
  <2>. QED  BY ONLY <2>1
<1>4. \A i \in D : i = m + 1 \/ i \in 1 .. m
  BY ONLY <1>0
<1>. HIDE DEF Step
<1>5. \A i \in D : \A g : Step(i, g) \in V
  <2>1. ASSUME NEW i \in 1 .. m, NEW g
        PROVE  Step(i, g) \in V
    <3>1. CASE like[i] = Backslash
      <4>1. Step(i, g) = {j \in 1 .. n : i < m /\ Lower(like[i + 1]) = Lower(text[j]) /\ j + 1 \in g[i + 2]}
        BY <1>2, <3>1
      <4>2. \A j \in 1 .. n : j \in 1 .. n + 1
        BY ONLY <1>0
      <4>. QED  BY ONLY <4>1, <4>2
    <3>2. CASE like[i] = "%"
      <4>1. Step(i, g) = {j \in 1 .. n + 1 : \E k \in j .. n + 1 : k \in g[i + 1]}
        BY <1>2, <3>2
      <4>. QED  BY ONLY <4>1
    <3>3. CASE like[i] \notin {Backslash, "%"}
      <4>1. Step(i, g) = {j \in 1 .. n : (like[i] = "_" \/ Lower(like[i]) = Lower(text[j])) /\ j + 1 \in g[i + 1]}
        BY <1>2, <3>3
      <4>2. \A j \in 1 .. n : j \in 1 .. n + 1
        BY ONLY <1>0
      <4>. QED  BY ONLY <4>1, <4>2
    <3>. QED  BY <3>1, <3>2, <3>3
  <2>2. {n + 1} \in V
    BY <1>0
  <2>. HIDE DEF D, V
  <2>. QED  BY <1>3, <1>4, <2>1, <2>2
<1>6. ASSUME NEW i \in D, NEW g, NEW h, \A y \in D : y > i => g[y] = h[y]
      PROVE  Step(i, g) = Step(i, h)
  <2>1. CASE i = m + 1
    BY <1>3, <2>1
  <2>2. CASE i \in 1 .. m
    <3>1. g[i + 1] = h[i + 1]
      <4>1. i + 1 \in D /\ i + 1 > i
        BY <1>0, <2>2
      <4>. QED  BY <1>6, <4>1
    <3>2. i < m => g[i + 2] = h[i + 2]
      <4>1. i < m => i + 2 \in D /\ i + 2 > i
        BY <1>0, <2>2
      <4>. QED  BY <1>6, <4>1
    <3>3. CASE like[i] = Backslash
      <4>1. Step(i, g) = {j \in 1 .. n : i < m /\ Lower(like[i + 1]) = Lower(text[j]) /\ j + 1 \in g[i + 2]}
        BY <1>2, <2>2, <3>3
      <4>2. Step(i, h) = {j \in 1 .. n : i < m /\ Lower(like[i + 1]) = Lower(text[j]) /\ j + 1 \in h[i + 2]}
        BY <1>2, <2>2, <3>3
      <4>. QED  BY ONLY <3>2, <4>1, <4>2
    <3>4. CASE like[i] = "%"
      <4>1. Step(i, g) = {j \in 1 .. n + 1 : \E k \in j .. n + 1 : k \in g[i + 1]}
        BY <1>2, <2>2, <3>4
      <4>2. Step(i, h) = {j \in 1 .. n + 1 : \E k \in j .. n + 1 : k \in h[i + 1]}
        BY <1>2, <2>2, <3>4
      <4>. QED  BY ONLY <3>1, <3>2, <4>1, <4>2
    <3>5. CASE like[i] \notin {Backslash, "%"}
      <4>1. Step(i, g) = {j \in 1 .. n : (like[i] = "_" \/ Lower(like[i]) = Lower(text[j])) /\ j + 1 \in g[i + 1]}
        BY <1>2, <2>2, <3>5
      <4>2. Step(i, h) = {j \in 1 .. n : (like[i] = "_" \/ Lower(like[i]) = Lower(text[j])) /\ j + 1 \in h[i + 1]}
        BY <1>2, <2>2, <3>5
      <4>. QED  BY ONLY <3>1, <4>1, <4>2
    <3>. QED  BY <3>3, <3>4, <3>5
  <2>. QED  BY <1>4, <2>1, <2>2
<1>7. \E f \in [D -> V] : \A i \in D : f[i] = G[i][f]
  <2>1. rank \in [D -> 0 .. m] /\ V # {} /\ m \in Nat
    <3>1. \A i \in D : rank[i] \in 0 .. m
      BY ONLY <1>0
    <3>2. {n + 1} \in V
      BY ONLY <1>0
    <3>. HIDE DEF D, V
    <3>. QED  BY <1>0, <3>1, <3>2
  <2>. HIDE DEF V
  <2>2. G \in [D -> [[D -> V] -> V]]
    <3>. HIDE DEF D
    <3>. QED  BY ONLY <1>5
  <2>3. \A i \in D : \A g, h \in [D -> V] :
            (\A y \in D : rank[y] < rank[i] => g[y] = h[y]) => G[i][g] = G[i][h]
    <3>1. \A i, y \in D : y > i => rank[y] < rank[i]
      BY ONLY <1>0
    <3>. HIDE DEF D, rank
    <3>2. SUFFICES ASSUME NEW i \in D, NEW g \in [D -> V], NEW h \in [D -> V],
                          \A y \in D : rank[y] < rank[i] => g[y] = h[y]
                   PROVE  G[i][g] = G[i][h]
      OBVIOUS
    <3>3. \A y \in D : y > i => g[y] = h[y]
      BY ONLY <3>1, <3>2
    <3>4. Step(i, g) = Step(i, h)
      BY ONLY <1>6, <3>2, <3>3
    <3>. QED  BY ONLY <3>2, <3>4
  <2>. HIDE DEF D, G, rank
  <2>4. ByRank(D, V, rank, G)
    BY ONLY <2>2, <2>3 DEF ByRank
  <2>. QED  BY ONLY <2>1, <2>4, RecursionExists
<1>8. PICK f \in [D -> V] : \A i \in D : f[i] = G[i][f]
  BY <1>7
<1>. HIDE DEF D, V
<1>9. \A i \in D : f[i] = Step(i, f)
  BY ONLY <1>8
<1>10. f = Steps(f)
  BY ONLY <1>8, <1>9
<1>11. Right(rest)
  <2>1. Right(f)
    BY ONLY <1>10
  <2>. HIDE DEF Right
  <2>. QED  BY ONLY <2>1, Zenon DEF rest
<1>. HIDE DEF rest
<1>12. /\ rest = Steps(rest)
       /\ \A i \in D : rest[i] = Step(i, rest)
  BY ONLY <1>11
<1>13. rest \in [D -> V]
  BY ONLY <1>5, <1>12
<1>14. rest[m + 1] = {n + 1}
  <2>1. m + 1 \in D
    BY ONLY <1>0 DEF D
  <2>. QED  BY <1>3, <1>12, <2>1
<1>15. ASSUME NEW i \in 1 .. m
       PROVE  rest[i] = Step(i, rest)
  <2>1. i \in D
    BY ONLY <1>0, <1>15 DEF D
  <2>. QED  BY <1>12, <2>1
<1>16. LikeRest(rest, text, like)
  <2>1. \A i \in 1 .. m :
          /\ like[i] = Backslash =>
                rest[i] = {j \in 1 .. n : i < m /\ Lower(like[i + 1]) = Lower(text[j]) /\ j + 1 \in rest[i + 2]}
          /\ like[i] = "%" => rest[i] = {j \in 1 .. n + 1 : \E k \in j .. n + 1 : k \in rest[i + 1]}
          /\ like[i] \notin {Backslash, "%"} =>
                rest[i] = {j \in 1 .. n : (like[i] = "_" \/ Lower(like[i]) = Lower(text[j])) /\ j + 1 \in rest[i + 1]}
    BY ONLY <1>2, <1>15
  <2>. QED  BY ONLY <1>13, <1>14, <2>1 DEF LikeRest, D, V, m, n
<1>. QED  BY <1>1, <1>16

\* The places that the regular expression computes.
RegexRest(R, text, regex) ==
    /\ R \in [1 .. Len(regex) + 1 -> SUBSET (1 .. Len(text) + 1)]
    /\ R[Len(regex) + 1] = {Len(text) + 1}
    /\ \A i \in 1 .. Len(regex) :
          /\ regex[i] = Backslash =>
                R[i] = {j \in 1 .. Len(text) : i < Len(regex) /\ regex[i + 1] = text[j] /\ j + 1 \in R[i + 2]}
          /\ regex[i] = "." => R[i] = {j \in 1 .. Len(text) + 1 : i < Len(regex) /\ \E k \in j .. Len(text) + 1 : k \in R[i + 2]}
          /\ regex[i] \notin {Backslash, "."} =>
                R[i] = {j \in 1 .. Len(text) : regex[i] = text[j] /\ j + 1 \in R[i + 1]}

\* A match is computed from these places: the whole text from its first character.
LEMMA RegexIs ==
    ASSUME NEW S, NEW text \in Seq(S), NEW regex \in Seq(S)
    PROVE  \E R : RegexRest(R, text, regex) /\ (HasMatch(text, regex) <=> 1 \in R[1])
<1>. DEFINE m == Len(regex)
            n == Len(text)
            D == 1 .. m + 1
            V == SUBSET (1 .. n + 1)
            Step(i, g) ==
                CASE i > m -> {n + 1}
                  [] i <= m /\ regex[i] = Backslash ->
                        {j \in 1 .. n : i < m /\ regex[i + 1] = text[j] /\ j + 1 \in g[i + 2]}
                  [] i <= m /\ regex[i] = "." -> {j \in 1 .. n + 1 : i < m /\ \E k \in j .. n + 1 : k \in g[i + 2]}
                  [] OTHER -> {j \in 1 .. n : regex[i] = text[j] /\ j + 1 \in g[i + 1]}
            Steps(g) == [i \in D |-> Step(i, g)]
            Right(g) == g = Steps(g)
            rest == CHOOSE g : Right(g)
            G == [i \in D |-> [g \in [D -> V] |-> Step(i, g)]]
            rank == [i \in D |-> m + 1 - i]
<1>0. m \in Nat /\ n \in Nat
  OBVIOUS
<1>1. HasMatch(text, regex) <=> 1 \in rest[1]
  BY DEF HasMatch
<1>. HIDE DEF m, n
<1>2. ASSUME NEW i \in 1 .. m, NEW g
      PROVE  /\ regex[i] = Backslash =>
                    Step(i, g) = {j \in 1 .. n : i < m /\ regex[i + 1] = text[j] /\ j + 1 \in g[i + 2]}
             /\ regex[i] = "." => Step(i, g) = {j \in 1 .. n + 1 : i < m /\ \E k \in j .. n + 1 : k \in g[i + 2]}
             /\ regex[i] \notin {Backslash, "."} =>
                    Step(i, g) = {j \in 1 .. n : regex[i] = text[j] /\ j + 1 \in g[i + 1]}
  <2>1. ~(i > m) /\ i <= m /\ Backslash # "."
    BY ONLY <1>0, <1>2 DEF Backslash
  <2>2. CASE regex[i] = Backslash
    BY ONLY <2>1, <2>2
  <2>3. CASE regex[i] = "."
    BY ONLY <2>1, <2>3
  <2>4. CASE regex[i] \notin {Backslash, "."}
    BY ONLY <2>1, <2>4
  <2>. HIDE DEF Step
  <2>. QED  BY <2>1, <2>2, <2>3, <2>4
<1>3. \A g : Step(m + 1, g) = {n + 1}
  <2>1. m + 1 > m /\ ~(m + 1 <= m)
    BY ONLY <1>0
  <2>. QED  BY ONLY <2>1
<1>4. \A i \in D : i = m + 1 \/ i \in 1 .. m
  BY ONLY <1>0
<1>. HIDE DEF Step
<1>5. \A i \in D : \A g : Step(i, g) \in V
  <2>1. ASSUME NEW i \in 1 .. m, NEW g
        PROVE  Step(i, g) \in V
    <3>1. CASE regex[i] = Backslash
      <4>1. Step(i, g) = {j \in 1 .. n : i < m /\ regex[i + 1] = text[j] /\ j + 1 \in g[i + 2]}
        BY <1>2, <3>1
      <4>2. \A j \in 1 .. n : j \in 1 .. n + 1
        BY ONLY <1>0
      <4>. QED  BY ONLY <4>1, <4>2
    <3>2. CASE regex[i] = "."
      <4>1. Step(i, g) = {j \in 1 .. n + 1 : i < m /\ \E k \in j .. n + 1 : k \in g[i + 2]}
        BY <1>2, <3>2
      <4>. QED  BY ONLY <4>1
    <3>3. CASE regex[i] \notin {Backslash, "."}
      <4>1. Step(i, g) = {j \in 1 .. n : regex[i] = text[j] /\ j + 1 \in g[i + 1]}
        BY <1>2, <3>3
      <4>2. \A j \in 1 .. n : j \in 1 .. n + 1
        BY ONLY <1>0
      <4>. QED  BY ONLY <4>1, <4>2
    <3>. QED  BY <3>1, <3>2, <3>3
  <2>2. {n + 1} \in V
    BY <1>0
  <2>. HIDE DEF D, V
  <2>. QED  BY <1>3, <1>4, <2>1, <2>2
<1>6. ASSUME NEW i \in D, NEW g, NEW h, \A y \in D : y > i => g[y] = h[y]
      PROVE  Step(i, g) = Step(i, h)
  <2>1. CASE i = m + 1
    BY <1>3, <2>1
  <2>2. CASE i \in 1 .. m
    <3>1. g[i + 1] = h[i + 1]
      <4>1. i + 1 \in D /\ i + 1 > i
        BY <1>0, <2>2
      <4>. QED  BY <1>6, <4>1
    <3>2. i < m => g[i + 2] = h[i + 2]
      <4>1. i < m => i + 2 \in D /\ i + 2 > i
        BY <1>0, <2>2
      <4>. QED  BY <1>6, <4>1
    <3>3. CASE regex[i] = Backslash
      <4>1. Step(i, g) = {j \in 1 .. n : i < m /\ regex[i + 1] = text[j] /\ j + 1 \in g[i + 2]}
        BY <1>2, <2>2, <3>3
      <4>2. Step(i, h) = {j \in 1 .. n : i < m /\ regex[i + 1] = text[j] /\ j + 1 \in h[i + 2]}
        BY <1>2, <2>2, <3>3
      <4>. QED  BY ONLY <3>2, <4>1, <4>2
    <3>4. CASE regex[i] = "."
      <4>1. Step(i, g) = {j \in 1 .. n + 1 : i < m /\ \E k \in j .. n + 1 : k \in g[i + 2]}
        BY <1>2, <2>2, <3>4
      <4>2. Step(i, h) = {j \in 1 .. n + 1 : i < m /\ \E k \in j .. n + 1 : k \in h[i + 2]}
        BY <1>2, <2>2, <3>4
      <4>. QED  BY ONLY <3>1, <3>2, <4>1, <4>2
    <3>5. CASE regex[i] \notin {Backslash, "."}
      <4>1. Step(i, g) = {j \in 1 .. n : regex[i] = text[j] /\ j + 1 \in g[i + 1]}
        BY <1>2, <2>2, <3>5
      <4>2. Step(i, h) = {j \in 1 .. n : regex[i] = text[j] /\ j + 1 \in h[i + 1]}
        BY <1>2, <2>2, <3>5
      <4>. QED  BY ONLY <3>1, <4>1, <4>2
    <3>. QED  BY <3>3, <3>4, <3>5
  <2>. QED  BY <1>4, <2>1, <2>2
<1>7. \E f \in [D -> V] : \A i \in D : f[i] = G[i][f]
  <2>1. rank \in [D -> 0 .. m] /\ V # {} /\ m \in Nat
    <3>1. \A i \in D : rank[i] \in 0 .. m
      BY ONLY <1>0
    <3>2. {n + 1} \in V
      BY ONLY <1>0
    <3>. HIDE DEF D, V
    <3>. QED  BY <1>0, <3>1, <3>2
  <2>. HIDE DEF V
  <2>2. G \in [D -> [[D -> V] -> V]]
    <3>. HIDE DEF D
    <3>. QED  BY ONLY <1>5
  <2>3. \A i \in D : \A g, h \in [D -> V] :
            (\A y \in D : rank[y] < rank[i] => g[y] = h[y]) => G[i][g] = G[i][h]
    <3>1. \A i, y \in D : y > i => rank[y] < rank[i]
      BY ONLY <1>0
    <3>. HIDE DEF D, rank
    <3>2. SUFFICES ASSUME NEW i \in D, NEW g \in [D -> V], NEW h \in [D -> V],
                          \A y \in D : rank[y] < rank[i] => g[y] = h[y]
                   PROVE  G[i][g] = G[i][h]
      OBVIOUS
    <3>3. \A y \in D : y > i => g[y] = h[y]
      BY ONLY <3>1, <3>2
    <3>4. Step(i, g) = Step(i, h)
      BY ONLY <1>6, <3>2, <3>3
    <3>. QED  BY ONLY <3>2, <3>4
  <2>. HIDE DEF D, G, rank
  <2>4. ByRank(D, V, rank, G)
    BY ONLY <2>2, <2>3 DEF ByRank
  <2>. QED  BY ONLY <2>1, <2>4, RecursionExists
<1>8. PICK f \in [D -> V] : \A i \in D : f[i] = G[i][f]
  BY <1>7
<1>. HIDE DEF D, V
<1>9. \A i \in D : f[i] = Step(i, f)
  BY ONLY <1>8
<1>10. f = Steps(f)
  BY ONLY <1>8, <1>9
<1>11. Right(rest)
  <2>1. Right(f)
    BY ONLY <1>10
  <2>. HIDE DEF Right
  <2>. QED  BY ONLY <2>1, Zenon DEF rest
<1>. HIDE DEF rest
<1>12. /\ rest = Steps(rest)
       /\ \A i \in D : rest[i] = Step(i, rest)
  BY ONLY <1>11
<1>13. rest \in [D -> V]
  BY ONLY <1>5, <1>12
<1>14. rest[m + 1] = {n + 1}
  <2>1. m + 1 \in D
    BY ONLY <1>0 DEF D
  <2>. QED  BY <1>3, <1>12, <2>1
<1>15. ASSUME NEW i \in 1 .. m
       PROVE  rest[i] = Step(i, rest)
  <2>1. i \in D
    BY ONLY <1>0, <1>15 DEF D
  <2>. QED  BY <1>12, <2>1
<1>16. RegexRest(rest, text, regex)
  <2>1. \A i \in 1 .. m :
          /\ regex[i] = Backslash =>
                rest[i] = {j \in 1 .. n : i < m /\ regex[i + 1] = text[j] /\ j + 1 \in rest[i + 2]}
          /\ regex[i] = "." => rest[i] = {j \in 1 .. n + 1 : i < m /\ \E k \in j .. n + 1 : k \in rest[i + 2]}
          /\ regex[i] \notin {Backslash, "."} =>
                rest[i] = {j \in 1 .. n : regex[i] = text[j] /\ j + 1 \in rest[i + 1]}
    BY ONLY <1>2, <1>15
  <2>. QED  BY ONLY <1>13, <1>14, <2>1 DEF RegexRest, D, V, m, n
<1>. QED  BY <1>1, <1>16

\* Every part is put inside the whole.
LEMMA PlacesInside ==
    ASSUME NEW S, NEW m \in Nat, NEW seqs, \A k \in 1 .. m : seqs[k] \in Seq(S),
           NEW whole \in Seq(S), NEW from, Places(seqs, whole, m, from)
    PROVE  \A k \in 1 .. m + 1 : from[k] <= Len(whole) + 1
<1>. DEFINE D == 1 .. m
            size == [k \in D |-> Len(seqs[k])]
            n == Len(whole)
            wrong == {d \in 0 .. m : from[m + 1 - d] > n + 1}
<1>1. \A k \in D : size[k] \in Nat /\ size[k] = Len(seqs[k])
  <2>1. \A s \in Seq(S) : Len(s) \in Nat
    OBVIOUS
  <2>. QED  BY <2>1
<1>2. n \in Nat
  OBVIOUS
<1>. HIDE DEF size, n
<1>3. /\ from \in [1 .. m + 1 -> Nat \ {0}] /\ from[m + 1] = n + 1
      /\ \A k \in D : from[k + 1] = from[k] + size[k]
  BY <1>1, Zenon DEF Places, n, D
<1>4. wrong = {}
  <2>1. SUFFICES ASSUME wrong # {} PROVE FALSE
    OBVIOUS
  <2>2. PICK d \in wrong : \A e \in wrong : d <= e
    <3>1. wrong \in SUBSET Nat
      OBVIOUS
    <3>. HIDE DEF wrong
    <3>. QED  BY <2>1, <3>1, Generic!LeastOf
  <2>3. d # 0
    <3>1. m + 1 - 0 = m + 1
      OBVIOUS
    <3>. QED  BY <1>2, <1>3, <2>2, <3>1
  <2>4. PICK k \in D : k = m + 1 - d
    BY <2>2, <2>3
  <2>5. d - 1 \in 0 .. m /\ d - 1 \notin wrong /\ k + 1 = m + 1 - (d - 1)
    <3>1. d \in 0 .. m
      BY <2>2
    <3>2. d - 1 \in 0 .. m /\ d - 1 < d /\ k + 1 = m + 1 - (d - 1)
      BY ONLY m \in Nat, <2>3, <2>4, <3>1
    <3>3. d - 1 \notin wrong
      <4>. HIDE DEF wrong
      <4>. QED  BY <2>2, <3>1, <3>2
    <3>. QED  BY ONLY <3>2, <3>3
  <2>6. k \in 1 .. m + 1 /\ k + 1 \in 1 .. m + 1
    BY <2>4
  <2>7. from[k] \in Nat /\ from[k + 1] \in Nat /\ size[k] \in Nat
    BY <1>1, <1>3, <2>4, <2>6
  <2>8. from[k + 1] <= n + 1
    BY ONLY <1>2, <2>5, <2>7
  <2>9. from[k] > n + 1
    BY <2>2, <2>4
  <2>10. from[k + 1] = from[k] + size[k]
    BY <1>3, <2>4
  <2>. QED  BY ONLY <1>2, <2>7, <2>8, <2>9, <2>10
<1>5. ASSUME NEW k \in 1 .. m + 1
      PROVE  from[k] <= n + 1
  <2>1. PICK d \in 0 .. m : d = m + 1 - k
    OBVIOUS
  <2>2. m + 1 - d = k /\ d \notin wrong
    <3>. HIDE DEF wrong
    <3>. QED  BY <1>4, <2>1
  <2>. QED  BY <1>2, <1>3, <2>1, <2>2
<1>. QED  BY <1>5 DEF n

\* Parts of S that lie behind each other in a whole.
Laid(S, seqs, whole, m, from) ==
    /\ m \in Nat /\ (\A k \in 1 .. m : seqs[k] \in Seq(S)) /\ whole \in Seq(S)
    /\ Places(seqs, whole, m, from)

\* A part of one or two elements.
LEMMA PartPlaced ==
    ASSUME NEW S, NEW seqs, NEW whole, NEW m, NEW from, Laid(S, seqs, whole, m, from), NEW k \in 1 .. m
    PROVE  /\ from[k] \in Nat
           /\ \A c : seqs[k] = <<c>> => /\ from[k] \in 1 .. Len(whole) /\ from[k + 1] = from[k] + 1
                                        /\ whole[from[k]] = c
           /\ \A c, d : seqs[k] = <<c, d>> => /\ from[k] \in 1 .. Len(whole) /\ from[k] + 1 \in 1 .. Len(whole)
                                              /\ from[k + 1] = from[k] + 2
                                              /\ whole[from[k]] = c /\ whole[from[k] + 1] = d
<1>0. m \in Nat /\ whole \in Seq(S) /\ Places(seqs, whole, m, from)
  BY DEF Laid
<1>1. \A j \in 1 .. m + 1 : from[j] <= Len(whole) + 1
  BY PlacesInside DEF Laid
<1>2. /\ from \in [1 .. m + 1 -> Nat \ {0}]
      /\ from[k + 1] = from[k] + Len(seqs[k])
      /\ \A d \in 1 .. Len(seqs[k]) : whole[from[k] + d - 1] = seqs[k][d]
  BY <1>0 DEF Places
<1>3. k \in 1 .. m + 1 /\ k + 1 \in 1 .. m + 1
  BY <1>0
<1>4. from[k] \in Nat \ {0} /\ from[k + 1] \in Nat
  BY <1>2, <1>3
<1>5. from[k + 1] <= Len(whole) + 1 /\ Len(whole) \in Nat
  BY <1>0, <1>1, <1>3
<1>6. ASSUME NEW c, seqs[k] = <<c>>
      PROVE  /\ from[k] \in 1 .. Len(whole) /\ from[k + 1] = from[k] + 1
             /\ whole[from[k]] = c
  <2>1. Len(seqs[k]) = 1 /\ seqs[k][1] = c
    BY ONLY <1>6
  <2>2. from[k + 1] = from[k] + 1
    BY ONLY <1>2, <2>1
  <2>3. whole[from[k] + 1 - 1] = c
    BY ONLY <1>2, <2>1
  <2>4. from[k] + 1 - 1 = from[k]
    BY ONLY <1>4
  <2>. QED  BY ONLY <1>4, <1>5, <2>2, <2>3, <2>4
<1>7. ASSUME NEW c, NEW d, seqs[k] = <<c, d>>
      PROVE  /\ from[k] \in 1 .. Len(whole) /\ from[k] + 1 \in 1 .. Len(whole)
             /\ from[k + 1] = from[k] + 2
             /\ whole[from[k]] = c /\ whole[from[k] + 1] = d
  <2>1. Len(seqs[k]) = 2 /\ seqs[k][1] = c /\ seqs[k][2] = d
    BY ONLY <1>7
  <2>2. from[k + 1] = from[k] + 2
    BY ONLY <1>2, <2>1
  <2>3. whole[from[k] + 1 - 1] = c /\ whole[from[k] + 2 - 1] = d
    BY ONLY <1>2, <2>1
  <2>4. from[k] + 1 - 1 = from[k] /\ from[k] + 2 - 1 = from[k] + 1
    BY ONLY <1>4
  <2>. QED  BY ONLY <1>4, <1>5, <2>2, <2>3, <2>4
<1>. QED  BY <1>4, <1>6, <1>7

\* From the k-th character on, p matches the rest of the text from the places in X[k], if
\* letters are compared without their case.
FoldedRest(X, text, p) ==
    /\ X[Len(p) + 1] = {Len(text) + 1}
    /\ \A k \in 1 .. Len(p) :
          /\ p[k] = Star => X[k] = {j \in 1 .. Len(text) + 1 : \E i \in j .. Len(text) + 1 : i \in X[k + 1]}
          /\ p[k] # Star => X[k] = {j \in 1 .. Len(text) : Lower(p[k]) = Lower(text[j]) /\ j + 1 \in X[k + 1]}

\* LIKE matches a star pattern from these places on.
LEMMA LikeMatches ==
    ASSUME NEW S, NEW text \in Seq(S), NEW p \in Seq(S \ {Backslash})
    PROVE  \E X : FoldedRest(X, text, p) /\ (Like(text, StarPatternToLike(p)) <=> 1 \in X[1])
<1>. DEFINE C == S \cup {"%", ".", "*", Backslash}
            A == [k \in DOMAIN p |-> IF k \in Stars(p) THEN <<"%">> ELSE Escaped(p[k], SqliteLikeSpecial)]
            like == FlattenSeq(A)
            m == Len(p)
            n == Len(text)
            M == Len(like)
<1>0. m \in Nat /\ n \in Nat /\ DOMAIN p = 1 .. m /\ \A k \in 1 .. m : p[k] \in S /\ p[k] # Backslash
  OBVIOUS
<1>1. StarPatternToLike(p) = like
  BY DEF StarPatternToLike, ParseStarPattern
<1>2. Stars(p) = {k \in DOMAIN p : p[k] = Star}
  BY StarsPlain
<1>3. text \in Seq(C)
  <2>. DEFINE T == S \cup {"%", ".", "*", Backslash}
  <2>1. S \subseteq T
    OBVIOUS
  <2>. HIDE DEF T
  <2>2. text \in Seq(T)
    BY ONLY <2>1, text \in Seq(S)
  <2>. QED  BY <2>2 DEF T
<1>4. \A k \in 1 .. m : /\ p[k] = Star => A[k] = <<"%">>
                        /\ p[k] \in {"%", "_"} => A[k] = <<Backslash, p[k]>>
                        /\ p[k] \notin {Star, "%", "_"} => A[k] = <<p[k]>>
  BY <1>0, <1>2 DEF Escaped, SqliteLikeSpecial, Star
<1>5. \A k \in 1 .. m : A[k] \in Seq(C)
  <2>1. SUFFICES ASSUME NEW k \in 1 .. m PROVE A[k] \in Seq(C)
    OBVIOUS
  <2>2. "%" \in C /\ Backslash \in C /\ p[k] \in C
    BY <1>0
  <2>. HIDE DEF C, A
  <2>3. <<"%">> \in Seq(C) /\ <<Backslash, p[k]>> \in Seq(C) /\ <<p[k]>> \in Seq(C)
    BY ONLY <2>2
  <2>. QED  BY <1>4, <2>3
<1>6. A \in Seq(Seq(C)) /\ Len(A) = m
  <2>. DEFINE V == Seq(C)
  <2>1. A \in [1 .. m -> V]
    BY <1>0, <1>5
  <2>. HIDE DEF V, A, m
  <2>2. A \in Seq(V) /\ Len(A) = m
    BY ONLY <1>0, <2>1
  <2>. QED  BY <2>2 DEF V
<1>. HIDE DEF A, C
<1>7. PICK from : like \in Seq(C) /\ Places(A, like, m, from)
  BY <1>6, FlattenIs
<1>. HIDE DEF like
<1>8. PICK R : LikeRest(R, text, like) /\ (Like(text, like) <=> 1 \in R[1])
  BY <1>3, <1>7, LikeIs
<1>9. from[1] = 1 /\ from[m + 1] = M + 1
  BY <1>7 DEF Places
<1>10. /\ R[M + 1] = {n + 1}
       /\ \A i \in 1 .. M :
            /\ like[i] = Backslash =>
                  R[i] = {j \in 1 .. n : i < M /\ Lower(like[i + 1]) = Lower(text[j]) /\ j + 1 \in R[i + 2]}
            /\ like[i] = "%" => R[i] = {j \in 1 .. n + 1 : \E k \in j .. n + 1 : k \in R[i + 1]}
            /\ like[i] \notin {Backslash, "%"} =>
                  R[i] = {j \in 1 .. n : (like[i] = "_" \/ Lower(like[i]) = Lower(text[j])) /\ j + 1 \in R[i + 1]}
  BY <1>8 DEF LikeRest
<1>. DEFINE X == [k \in 1 .. m + 1 |-> R[from[k]]]
<1>12. M \in Nat
  BY <1>7
<1>. HIDE DEF m, n, M
<1>11. X[1] = R[1] /\ X[m + 1] = {n + 1}
  <2>1. 1 \in 1 .. m + 1 /\ m + 1 \in 1 .. m + 1
    BY <1>0
  <2>2. X[1] = R[from[1]] /\ X[m + 1] = R[from[m + 1]]
    BY ONLY <2>1
  <2>. HIDE DEF X
  <2>. QED  BY ONLY <1>9, <1>10, <2>2, Zenon
<1>13. ASSUME NEW k \in 1 .. m
       PROVE  /\ p[k] = Star => X[k] = {j \in 1 .. n + 1 : \E i \in j .. n + 1 : i \in X[k + 1]}
              /\ p[k] # Star => X[k] = {j \in 1 .. n : Lower(p[k]) = Lower(text[j]) /\ j + 1 \in X[k + 1]}
  <2>. DEFINE i == from[k]
  <2>1. X[k] = R[i] /\ X[k + 1] = R[from[k + 1]]
    BY <1>0
  <2>2. /\ i \in Nat
        /\ \A c : A[k] = <<c>> => i \in 1 .. M /\ from[k + 1] = i + 1 /\ like[i] = c
        /\ \A c, d : A[k] = <<c, d>> => /\ i \in 1 .. M /\ i + 1 \in 1 .. M /\ from[k + 1] = i + 2
                                        /\ like[i] = c /\ like[i + 1] = d
    <3>1. Laid(C, A, like, m, from)
      BY <1>0, <1>5, <1>7 DEF Laid
    <3>. HIDE DEF i
    <3>2. /\ from[k] \in Nat
          /\ \A c : A[k] = <<c>> => /\ from[k] \in 1 .. Len(like) /\ from[k + 1] = from[k] + 1
                                    /\ like[from[k]] = c
          /\ \A c, d : A[k] = <<c, d>> => /\ from[k] \in 1 .. Len(like) /\ from[k] + 1 \in 1 .. Len(like)
                                          /\ from[k + 1] = from[k] + 2
                                          /\ like[from[k]] = c /\ like[from[k] + 1] = d
      BY ONLY <1>13, <3>1, PartPlaced
    <3>. QED  BY ONLY <3>2 DEF M, i
  <2>. HIDE DEF X, i
  <2>3. CASE p[k] = Star
    <3>1. i \in 1 .. M /\ from[k + 1] = i + 1 /\ like[i] = "%"
      BY <1>4, <2>2, <2>3
    <3>2. R[i] = {j \in 1 .. n + 1 : \E e \in j .. n + 1 : e \in R[i + 1]}
      BY <1>10, <3>1
    <3>. QED  BY ONLY <2>1, <2>3, <3>1, <3>2, Zenon
  <2>4. CASE p[k] \in {"%", "_"}
    <3>1. /\ i \in 1 .. M /\ i + 1 \in 1 .. M /\ from[k + 1] = i + 2
          /\ like[i] = Backslash /\ like[i + 1] = p[k]
      <4>1. A[k] = <<Backslash, p[k]>>
        BY <1>4, <2>4
      <4>. QED  BY ONLY <2>2, <4>1
    <3>2. i < M
      BY ONLY <1>12, <2>2, <3>1
    <3>3. R[i] = {j \in 1 .. n : i < M /\ Lower(like[i + 1]) = Lower(text[j]) /\ j + 1 \in R[i + 2]}
      BY <1>10, <3>1
    <3>4. R[i] = {j \in 1 .. n : Lower(p[k]) = Lower(text[j]) /\ j + 1 \in R[i + 2]}
      BY ONLY <3>1, <3>2, <3>3
    <3>5. p[k] # Star
      BY <2>4 DEF Star
    <3>. QED  BY ONLY <2>1, <3>1, <3>4, <3>5, Zenon
  <2>5. CASE p[k] \notin {Star, "%", "_"}
    <3>1. i \in 1 .. M /\ from[k + 1] = i + 1 /\ like[i] = p[k]
      BY <1>4, <2>2, <2>5
    <3>2. R[i] = {j \in 1 .. n : (like[i] = "_" \/ Lower(like[i]) = Lower(text[j])) /\ j + 1 \in R[i + 1]}
      BY <1>0, <1>10, <2>5, <3>1
    <3>3. R[i] = {j \in 1 .. n : Lower(p[k]) = Lower(text[j]) /\ j + 1 \in R[i + 1]}
      BY ONLY <2>5, <3>1, <3>2
    <3>. QED  BY ONLY <2>1, <2>5, <3>1, <3>3, Zenon
  <2>. QED  BY <2>3, <2>4, <2>5
<1>. HIDE DEF X
<1>14. FoldedRest(X, text, p)
  BY <1>11, <1>13 DEF FoldedRest, m, n
<1>. QED  BY <1>1, <1>8, <1>11, <1>14

\* The regular expression matches it from these places on.
LEMMA RegexMatches ==
    ASSUME NEW S, NEW text \in Seq(S), NEW p \in Seq(S \ {Backslash})
    PROVE  \E X : IsRest(X, text, p) /\ (HasMatch(text, StarPatternToRegex(p)) <=> 1 \in X[1])
<1>. DEFINE C == S \cup {"%", ".", "*", Backslash}
            A == [k \in DOMAIN p |-> IF k \in Stars(p) THEN <<".", "*">> ELSE Escaped(p[k], RegexSpecial)]
            regex == FlattenSeq(A)
            m == Len(p)
            n == Len(text)
            M == Len(regex)
<1>0. m \in Nat /\ n \in Nat /\ DOMAIN p = 1 .. m /\ \A k \in 1 .. m : p[k] \in S /\ p[k] # Backslash
  OBVIOUS
<1>1. StarPatternToRegex(p) = regex
  BY DEF StarPatternToRegex, ParseStarPattern
<1>2. Stars(p) = {k \in DOMAIN p : p[k] = Star}
  BY StarsPlain
<1>3. text \in Seq(C)
  <2>. DEFINE T == S \cup {"%", ".", "*", Backslash}
  <2>1. S \subseteq T
    OBVIOUS
  <2>. HIDE DEF T
  <2>2. text \in Seq(T)
    BY ONLY <2>1, text \in Seq(S)
  <2>. QED  BY <2>2 DEF T
<1>4. \A k \in 1 .. m : /\ p[k] = Star => A[k] = <<".", "*">>
                        /\ p[k] \in RegexSpecial \ {Star} => A[k] = <<Backslash, p[k]>>
                        /\ p[k] \notin RegexSpecial => A[k] = <<p[k]>>
  <2>1. Star \in RegexSpecial
    BY DEF RegexSpecial, Star
  <2>. QED  BY <1>0, <1>2, <2>1 DEF Escaped
<1>5. \A k \in 1 .. m : A[k] \in Seq(C)
  <2>1. SUFFICES ASSUME NEW k \in 1 .. m PROVE A[k] \in Seq(C)
    OBVIOUS
  <2>2. "." \in C /\ "*" \in C /\ Backslash \in C /\ p[k] \in C
    BY <1>0
  <2>. HIDE DEF C, A
  <2>3. <<".", "*">> \in Seq(C) /\ <<Backslash, p[k]>> \in Seq(C) /\ <<p[k]>> \in Seq(C)
    BY ONLY <2>2
  <2>. QED  BY ONLY <1>4, <2>1, <2>3
<1>6. A \in Seq(Seq(C)) /\ Len(A) = m
  <2>. DEFINE V == Seq(C)
  <2>1. A \in [1 .. m -> V]
    BY <1>0, <1>5
  <2>. HIDE DEF V, A, m
  <2>2. A \in Seq(V) /\ Len(A) = m
    BY ONLY <1>0, <2>1
  <2>. QED  BY <2>2 DEF V
<1>. HIDE DEF A, C
<1>7. PICK from : regex \in Seq(C) /\ Places(A, regex, m, from)
  BY <1>6, FlattenIs
<1>. HIDE DEF regex
<1>8. PICK R : RegexRest(R, text, regex) /\ (HasMatch(text, regex) <=> 1 \in R[1])
  BY <1>3, <1>7, RegexIs
<1>9. from[1] = 1 /\ from[m + 1] = M + 1
  BY <1>7 DEF Places
<1>10. /\ R[M + 1] = {n + 1}
       /\ \A i \in 1 .. M :
            /\ regex[i] = Backslash =>
                  R[i] = {j \in 1 .. n : i < M /\ regex[i + 1] = text[j] /\ j + 1 \in R[i + 2]}
            /\ regex[i] = "." => R[i] = {j \in 1 .. n + 1 : i < M /\ \E k \in j .. n + 1 : k \in R[i + 2]}
            /\ regex[i] \notin {Backslash, "."} =>
                  R[i] = {j \in 1 .. n : regex[i] = text[j] /\ j + 1 \in R[i + 1]}
  BY <1>8 DEF RegexRest
<1>. DEFINE X == [k \in 1 .. m + 1 |-> R[from[k]]]
<1>12. M \in Nat
  BY <1>7
<1>. HIDE DEF m, n, M
<1>11. X[1] = R[1] /\ X[m + 1] = {n + 1}
  <2>1. 1 \in 1 .. m + 1 /\ m + 1 \in 1 .. m + 1
    BY <1>0
  <2>2. X[1] = R[from[1]] /\ X[m + 1] = R[from[m + 1]]
    BY ONLY <2>1
  <2>. HIDE DEF X
  <2>. QED  BY ONLY <1>9, <1>10, <2>2, Zenon
<1>13. ASSUME NEW k \in 1 .. m
       PROVE  /\ p[k] = Star => X[k] = {j \in 1 .. n + 1 : \E i \in j .. n + 1 : i \in X[k + 1]}
              /\ p[k] # Star => X[k] = {j \in 1 .. n : p[k] = text[j] /\ j + 1 \in X[k + 1]}
  <2>. DEFINE i == from[k]
  <2>1. X[k] = R[i] /\ X[k + 1] = R[from[k + 1]]
    BY <1>0
  <2>2. /\ i \in Nat
        /\ \A c : A[k] = <<c>> => i \in 1 .. M /\ from[k + 1] = i + 1 /\ regex[i] = c
        /\ \A c, d : A[k] = <<c, d>> => /\ i \in 1 .. M /\ i + 1 \in 1 .. M /\ from[k + 1] = i + 2
                                        /\ regex[i] = c /\ regex[i + 1] = d
    <3>1. Laid(C, A, regex, m, from)
      BY <1>0, <1>5, <1>7 DEF Laid
    <3>. HIDE DEF i
    <3>2. /\ from[k] \in Nat
          /\ \A c : A[k] = <<c>> => /\ from[k] \in 1 .. Len(regex) /\ from[k + 1] = from[k] + 1
                                    /\ regex[from[k]] = c
          /\ \A c, d : A[k] = <<c, d>> => /\ from[k] \in 1 .. Len(regex) /\ from[k] + 1 \in 1 .. Len(regex)
                                          /\ from[k + 1] = from[k] + 2
                                          /\ regex[from[k]] = c /\ regex[from[k] + 1] = d
      BY ONLY <1>13, <3>1, PartPlaced
    <3>. QED  BY ONLY <3>2 DEF M, i
  <2>. HIDE DEF X, i
  <2>3. CASE p[k] = Star
    <3>1. i \in 1 .. M /\ i + 1 \in 1 .. M /\ from[k + 1] = i + 2 /\ regex[i] = "."
      <4>1. A[k] = <<".", "*">>
        BY <1>4, <2>3
      <4>. QED  BY ONLY <2>2, <4>1
    <3>2. i < M
      BY ONLY <1>12, <2>2, <3>1
    <3>3. R[i] = {j \in 1 .. n + 1 : i < M /\ \E e \in j .. n + 1 : e \in R[i + 2]}
      BY <1>10, <3>1
    <3>4. R[i] = {j \in 1 .. n + 1 : \E e \in j .. n + 1 : e \in R[i + 2]}
      BY ONLY <3>2, <3>3
    <3>. QED  BY ONLY <2>1, <2>3, <3>1, <3>4, Zenon
  <2>4. CASE p[k] \in RegexSpecial \ {Star}
    <3>1. /\ i \in 1 .. M /\ i + 1 \in 1 .. M /\ from[k + 1] = i + 2
          /\ regex[i] = Backslash /\ regex[i + 1] = p[k]
      <4>1. A[k] = <<Backslash, p[k]>>
        BY <1>4, <2>4
      <4>. QED  BY ONLY <2>2, <4>1
    <3>2. i < M
      BY ONLY <1>12, <2>2, <3>1
    <3>3. R[i] = {j \in 1 .. n : i < M /\ regex[i + 1] = text[j] /\ j + 1 \in R[i + 2]}
      BY <1>10, <3>1
    <3>4. R[i] = {j \in 1 .. n : p[k] = text[j] /\ j + 1 \in R[i + 2]}
      BY ONLY <3>1, <3>2, <3>3
    <3>5. p[k] # Star
      BY <2>4
    <3>. QED  BY ONLY <2>1, <3>1, <3>4, <3>5, Zenon
  <2>5. CASE p[k] \notin RegexSpecial
    <3>1. i \in 1 .. M /\ from[k + 1] = i + 1 /\ regex[i] = p[k]
      BY <1>4, <2>2, <2>5
    <3>2. p[k] \notin {Star, Backslash, "."}
      BY <2>5 DEF RegexSpecial, Star
    <3>3. R[i] = {j \in 1 .. n : regex[i] = text[j] /\ j + 1 \in R[i + 1]}
      BY <1>10, <3>1, <3>2
    <3>. QED  BY ONLY <2>1, <3>1, <3>2, <3>3, Zenon
  <2>. QED  BY <2>3, <2>4, <2>5
<1>. HIDE DEF X
<1>14. IsRest(X, text, p)
  BY <1>11, <1>13 DEF IsRest, m, n
<1>. QED  BY <1>1, <1>8, <1>11, <1>14

\* Without the case of letters a pattern matches from no fewer places.
LEMMA FoldedMatchesMore ==
    ASSUME NEW S, NEW p \in Seq(S), NEW text \in Seq(S), NEW X, NEW Y, FoldedRest(X, text, p), IsRest(Y, text, p)
    PROVE  Y[1] \subseteq X[1]
<1>. DEFINE m == Len(p)
            n == Len(text)
            wrong == {d \in 0 .. m : ~(Y[m + 1 - d] \subseteq X[m + 1 - d])}
<1>0. m \in Nat
  OBVIOUS
<1>a. /\ X[m + 1] = {n + 1}
      /\ \A k \in 1 .. m :
            /\ p[k] = Star => X[k] = {j \in 1 .. n + 1 : \E i \in j .. n + 1 : i \in X[k + 1]}
            /\ p[k] # Star => X[k] = {j \in 1 .. n : Lower(p[k]) = Lower(text[j]) /\ j + 1 \in X[k + 1]}
  BY DEF FoldedRest
<1>b. /\ Y[m + 1] = {n + 1}
      /\ \A k \in 1 .. m :
            /\ p[k] = Star => Y[k] = {j \in 1 .. n + 1 : \E i \in j .. n + 1 : i \in Y[k + 1]}
            /\ p[k] # Star => Y[k] = {j \in 1 .. n : p[k] = text[j] /\ j + 1 \in Y[k + 1]}
  BY DEF IsRest
<1>. HIDE DEF m, n
<1>1. wrong = {}
  <2>1. SUFFICES ASSUME wrong # {} PROVE FALSE
    OBVIOUS
  <2>2. PICK d \in wrong : \A e \in wrong : d <= e
    <3>1. wrong \in SUBSET Nat
      BY <1>0
    <3>. HIDE DEF wrong
    <3>. QED  BY <2>1, <3>1, Generic!LeastOf
  <2>3. d # 0
    <3>1. m + 1 - 0 = m + 1
      BY <1>0
    <3>. QED  BY <1>a, <1>b, <2>2, <3>1
  <2>4. PICK k \in 1 .. m : k = m + 1 - d
    BY <1>0, <2>2, <2>3
  <2>5. d - 1 \in 0 .. m /\ d - 1 \notin wrong /\ k + 1 = m + 1 - (d - 1)
    BY <1>0, <2>2, <2>3, <2>4
  <2>6. Y[k + 1] \subseteq X[k + 1]
    BY <2>5
  <2>7. ~(Y[k] \subseteq X[k])
    BY <2>2, <2>4
  <2>8. CASE p[k] = Star
    <3>1. /\ X[k] = {j \in 1 .. n + 1 : \E i \in j .. n + 1 : i \in X[k + 1]}
          /\ Y[k] = {j \in 1 .. n + 1 : \E i \in j .. n + 1 : i \in Y[k + 1]}
      BY ONLY <1>a, <1>b, <2>4, <2>8
    <3>. QED  BY ONLY <2>6, <2>7, <3>1, Zenon
  <2>9. CASE p[k] # Star
    <3>1. /\ X[k] = {j \in 1 .. n : Lower(p[k]) = Lower(text[j]) /\ j + 1 \in X[k + 1]}
          /\ Y[k] = {j \in 1 .. n : p[k] = text[j] /\ j + 1 \in Y[k + 1]}
      BY ONLY <1>a, <1>b, <2>4, <2>9
    <3>. QED  BY ONLY <2>6, <2>7, <3>1, Zenon
  <2>. QED  BY <2>8, <2>9
<1>2. m \in 0 .. m /\ m + 1 - m = 1
  BY ONLY <1>0
<1>3. \A d \in 0 .. m : Y[m + 1 - d] \subseteq X[m + 1 - d]
  BY <1>1
<1>4. Y[m + 1 - m] \subseteq X[m + 1 - m]
  BY ONLY <1>2, <1>3
<1>. QED  BY ONLY <1>2, <1>4

\* A pattern matches itself, its stars included.
LEMMA FoldedMatchesItself ==
    ASSUME NEW S, NEW p \in Seq(S), NEW X, FoldedRest(X, p, p)
    PROVE  1 \in X[1]
<1>. DEFINE m == Len(p)
            wrong == {d \in 0 .. m : m + 1 - d \notin X[m + 1 - d]}
<1>0. m \in Nat
  OBVIOUS
<1>a. /\ X[m + 1] = {m + 1}
      /\ \A k \in 1 .. m :
            /\ p[k] = Star => X[k] = {j \in 1 .. m + 1 : \E i \in j .. m + 1 : i \in X[k + 1]}
            /\ p[k] # Star => X[k] = {j \in 1 .. m : Lower(p[k]) = Lower(p[j]) /\ j + 1 \in X[k + 1]}
  BY DEF FoldedRest
<1>. HIDE DEF m
<1>1. wrong = {}
  <2>1. SUFFICES ASSUME wrong # {} PROVE FALSE
    OBVIOUS
  <2>2. PICK d \in wrong : \A e \in wrong : d <= e
    <3>1. wrong \in SUBSET Nat
      BY <1>0
    <3>. HIDE DEF wrong
    <3>. QED  BY <2>1, <3>1, Generic!LeastOf
  <2>3. d # 0
    <3>1. m + 1 - 0 = m + 1
      BY <1>0
    <3>. QED  BY <1>a, <2>2, <3>1
  <2>4. PICK k \in 1 .. m : k = m + 1 - d
    BY <1>0, <2>2, <2>3
  <2>5. d - 1 \in 0 .. m /\ d - 1 \notin wrong /\ k + 1 = m + 1 - (d - 1)
    <3>1. d \in 0 .. m
      BY <2>2
    <3>2. d - 1 \in 0 .. m /\ d - 1 < d /\ k + 1 = m + 1 - (d - 1)
      BY ONLY <1>0, <2>3, <2>4, <3>1
    <3>3. d - 1 \notin wrong
      <4>. HIDE DEF wrong
      <4>. QED  BY <2>2, <3>1, <3>2
    <3>. QED  BY ONLY <3>2, <3>3
  <2>6. k + 1 \in X[k + 1]
    BY <2>5
  <2>7. k \notin X[k]
    BY <2>2, <2>4
  <2>8. k \in 1 .. m + 1 /\ k + 1 \in k .. m + 1
    BY <1>0
  <2>9. CASE p[k] = Star
    <3>1. X[k] = {j \in 1 .. m + 1 : \E i \in j .. m + 1 : i \in X[k + 1]}
      BY ONLY <1>a, <2>4, <2>9
    <3>. QED  BY ONLY <2>6, <2>7, <2>8, <3>1, Zenon
  <2>10. CASE p[k] # Star
    <3>1. X[k] = {j \in 1 .. m : Lower(p[k]) = Lower(p[j]) /\ j + 1 \in X[k + 1]}
      BY ONLY <1>a, <2>4, <2>10
    <3>. QED  BY ONLY <2>4, <2>6, <2>7, <3>1, Zenon
  <2>. QED  BY <2>9, <2>10
<1>2. m \in 0 .. m /\ m + 1 - m = 1
  BY ONLY <1>0
<1>3. \A d \in 0 .. m : m + 1 - d \in X[m + 1 - d]
  BY <1>1
<1>4. m + 1 - m \in X[m + 1 - m]
  BY ONLY <1>2, <1>3
<1>. QED  BY ONLY <1>2, <1>4

\* Where no letter changes its case, the case makes no difference.
LEMMA FoldedIsRest ==
    ASSUME NEW S, NEW p \in Seq(S), NEW text \in Seq(S), NEW X, FoldedRest(X, text, p),
           LowerText(text) = text, LowerText(p) = p
    PROVE  IsRest(X, text, p)
<1>1. \A j \in 1 .. Len(text) : Lower(text[j]) = text[j]
  BY DEF LowerText
<1>2. \A k \in 1 .. Len(p) : Lower(p[k]) = p[k]
  BY DEF LowerText
<1>3. ASSUME NEW k \in 1 .. Len(p), p[k] # Star
      PROVE  X[k] = {j \in 1 .. Len(text) : p[k] = text[j] /\ j + 1 \in X[k + 1]}
  <2>1. X[k] = {j \in 1 .. Len(text) : Lower(p[k]) = Lower(text[j]) /\ j + 1 \in X[k + 1]}
    BY <1>3 DEF FoldedRest
  <2>2. Lower(p[k]) = p[k]
    BY <1>2
  <2>. QED  BY ONLY <1>1, <2>1, <2>2
<1>. QED  BY <1>3 DEF FoldedRest, IsRest

\* Without backslashes, LIKE matches all that the regular expression matches, and nothing
\* else where no letter changes its case.
LEMMA PatternsAgree ==
    ASSUME NEW S, NEW text \in Seq(S), NEW p \in Seq(S \ {Backslash})
    PROVE  /\ HasMatch(text, StarPatternToRegex(p)) => Like(text, StarPatternToLike(p))
           /\ (/\ LowerText(text) = text /\ LowerText(p) = p
               /\ Like(text, StarPatternToLike(p))) => HasMatch(text, StarPatternToRegex(p))
<1>0. p \in Seq(S)
  OBVIOUS
<1>1. PICK X : FoldedRest(X, text, p) /\ (Like(text, StarPatternToLike(p)) <=> 1 \in X[1])
  BY LikeMatches
<1>2. PICK Y : IsRest(Y, text, p) /\ (HasMatch(text, StarPatternToRegex(p)) <=> 1 \in Y[1])
  BY RegexMatches
<1>3. Y[1] \subseteq X[1]
  BY <1>0, <1>1, <1>2, FoldedMatchesMore
<1>4. ASSUME LowerText(text) = text, LowerText(p) = p
      PROVE  X[1] = Y[1]
  <2>1. IsRest(X, text, p)
    BY <1>0, <1>1, <1>4, FoldedIsRest
  <2>. QED  BY <1>0, <1>2, <2>1, RestUnique
<1>. QED  BY <1>1, <1>2, <1>3, <1>4

\* LIKE matches a pattern itself, and without stars nothing else where no letter changes
\* its case.
LEMMA LikeItself ==
    ASSUME NEW S, NEW p \in Seq(S \ {Backslash})
    PROVE  /\ Like(p, StarPatternToLike(p))
           /\ \A text \in Seq(S) :
                 (/\ Star \notin Range(p)
                  /\ LowerText(text) = text /\ LowerText(p) = p
                  /\ Like(text, StarPatternToLike(p))) => text = p
<1>0. p \in Seq(S)
  OBVIOUS
<1>1. PICK X : FoldedRest(X, p, p) /\ (Like(p, StarPatternToLike(p)) <=> 1 \in X[1])
  BY <1>0, LikeMatches
<1>2. 1 \in X[1]
  BY <1>0, <1>1, FoldedMatchesItself
<1>3. ASSUME NEW text \in Seq(S), Star \notin Range(p), LowerText(text) = text, LowerText(p) = p,
             Like(text, StarPatternToLike(p))
      PROVE  text = p
  <2>1. PICK Y : FoldedRest(Y, text, p) /\ (Like(text, StarPatternToLike(p)) <=> 1 \in Y[1])
    BY LikeMatches
  <2>2. IsRest(Y, text, p)
    BY <1>0, <1>3, <2>1, FoldedIsRest
  <2>3. \A k \in 1 .. Len(p) : p[k] # Star
    BY <1>0, <1>3 DEF Range
  <2>4. 1 \in Y[1] <=> text = p
    BY <1>0, <2>2, <2>3, RestPlain
  <2>. QED  BY <1>3, <2>1, <2>4
<1>. QED  BY <1>1, <1>2, <1>3

\* A star alone matches every text.
LEMMA StarMatches ==
    ASSUME NEW S, NEW text \in Seq(S)
    PROVE  HasMatch(text, StarPatternToRegex(<<Star>>))
<1>. DEFINE T == S \cup {Star}
            n == Len(text)
<1>1. Star \in T \ {Backslash}
  BY DEF Star, Backslash
<1>2. text \in Seq(T) /\ n \in Nat
  <2>1. S \subseteq T
    OBVIOUS
  <2>. HIDE DEF T
  <2>. QED  BY ONLY <2>1, text \in Seq(S)
<1>. HIDE DEF T
<1>3. <<Star>> \in Seq(T \ {Backslash})
  BY <1>1
<1>4. PICK X : IsRest(X, text, <<Star>>) /\ (HasMatch(text, StarPatternToRegex(<<Star>>)) <=> 1 \in X[1])
  BY <1>2, <1>3, RegexMatches
<1>. HIDE DEF n
<1>5. Len(<<Star>>) = 1 /\ <<Star>>[1] = Star /\ 1 \in 1 .. 1 /\ 1 + 1 = 2
  OBVIOUS
<1>6. X[2] = {n + 1} /\ X[1] = {j \in 1 .. n + 1 : \E i \in j .. n + 1 : i \in X[2]}
  <2>1. /\ X[Len(<<Star>>) + 1] = {n + 1}
        /\ \A k \in 1 .. Len(<<Star>>) :
              <<Star>>[k] = Star => X[k] = {j \in 1 .. n + 1 : \E i \in j .. n + 1 : i \in X[k + 1]}
    BY <1>4 DEF IsRest, n
  <2>. QED  BY ONLY <1>5, <2>1
<1>7. 1 \in 1 .. n + 1 /\ n + 1 \in 1 .. n + 1
  BY <1>2
<1>8. 1 \in X[1]
  BY ONLY <1>6, <1>7
<1>. QED  BY <1>4, <1>8

-------------------------------------------------------------------------------
(***************************************************************************)
(* The watcher's tests and the WHERE clause.                               *)
(***************************************************************************)
\* The types of a query are patterns and tags.
TypesInv == query.types \subseteq Text \cup {AnyTag, FilesTag, DirectoriesTag}

\* They stay so, whatever terms are set or added.
LEMMA TypesKept == Spec => []TypesInv
<1>1. Init => TypesInv
  BY DEF Init, NewQuery, TypesInv
<1>2. QueryShape /\ TypesInv /\ [Next]_vars => TypesInv'
  <2>1. SUFFICES ASSUME QueryShape, TypesInv, [Next]_vars PROVE TypesInv'
    OBVIOUS
  <2>2. CASE UNCHANGED vars
    BY <2>1, <2>2 DEF TypesInv, vars
  <2>3. CASE Next
    <3>. DEFINE V == Text \cup {AnyTag, FilesTag, DirectoriesTag}
    <3>1. \A values : Validated("types", values) = values
      BY DEF Validated
    <3>2. \/ query'["types"] = query["types"]
          \/ query'["types"] = {}
          \/ \E t \in FilterTerms :
                /\ t.filter = "types"
                /\ query'["types"] \in {Validated("types", query["types"] \cup t.values),
                                        Validated("types", t.values)}
      BY <2>1, <2>3, FilterChanged DEF Filter
    <3>3. \A t \in FilterTerms : t.filter = "types" => t.values \subseteq V
      BY TermsAssumption
    <3>4. query["types"] \subseteq V
      BY <2>1 DEF TypesInv
    <3>. HIDE DEF V
    <3>5. query'["types"] \subseteq V
      <4>1. ASSUME NEW t \in FilterTerms, t.filter = "types",
                   query'["types"] \in {Validated("types", query["types"] \cup t.values), Validated("types", t.values)}
            PROVE  query'["types"] \subseteq V
        <5>1. /\ Validated("types", query["types"] \cup t.values) = query["types"] \cup t.values
              /\ Validated("types", t.values) = t.values
          BY ONLY <3>1
        <5>2. t.values \subseteq V
          BY ONLY <3>3, <4>1
        <5>. QED  BY ONLY <3>4, <4>1, <5>1, <5>2
      <4>. QED  BY ONLY <3>2, <3>4, <4>1
    <3>. QED  BY <3>5 DEF TypesInv, V
  <2>. QED  BY <2>1, <2>2, <2>3
<1>. QED  BY <1>1, <1>2, ShapeKept, PTL DEF Spec

\* The row that the watcher is told of.
RowTold(s) == JoinedRow(s, NoScore, Null)

\* The queries that the property is about: the patterns have no backslash, and no type is
\* empty.
PlainFilters == /\ query.urlFilters \subseteq Seq(Char \ {Backslash})
                /\ \A type \in query.types :
                      \/ type \in {AnyTag, FilesTag, DirectoriesTag}
                      \/ type \in Seq(Char \ {Backslash}) /\ type # <<>>

\* The premise of the property is about such queries.
LEMMA PremiseIsPlain ==
    ASSUME FiltersInv, TypesInv, <<>> \notin query.types,
           \A pattern \in query.urlFilters \cup TypePatterns : Backslash \notin Range(pattern)
    PROVE  PlainFilters
<1>1. ASSUME NEW pattern \in Seq(Char), Backslash \notin Range(pattern)
      PROVE  pattern \in Seq(Char \ {Backslash})
  <2>1. pattern \in Seq(Char) /\ \A k \in 1 .. Len(pattern) : pattern[k] # Backslash
    BY <1>1 DEF Range
  <2>. QED  BY ONLY <2>1
<1>2. ASSUME NEW pattern \in query.urlFilters
      PROVE  pattern \in Seq(Char \ {Backslash})
  <2>1. \A t \in Seq(Char \ {"'"}) : t \in Seq(Char)
    OBVIOUS
  <2>2. pattern \in Seq(Char)
    BY <1>2, <2>1 DEF FiltersInv
  <2>. QED  BY <1>1, <1>2, <2>2
<1>3. ASSUME NEW type \in query.types
      PROVE  \/ type \in {AnyTag, FilesTag, DirectoriesTag}
             \/ type \in Seq(Char \ {Backslash}) /\ type # <<>>
  <2>1. type \in Seq(Char) \cup {AnyTag, FilesTag, DirectoriesTag}
    BY <1>3 DEF TypesInv, Text, Char
  <2>2. type \notin {AnyTag, FilesTag, DirectoriesTag} => Backslash \notin Range(type)
    BY <1>3 DEF TypePatterns
  <2>. QED  BY <1>1, <1>3, <2>1, <2>2
<1>. QED  BY <1>2, <1>3 DEF PlainFilters

\* The watcher's tests of the agent and of the activity are the clauses.
LEMMA AgentsAgree ==
    ASSUME TablesInv, NEW s \in scoreCache \cup links
    PROVE  /\ AgentMatches(s.agent) <=> \E agent \in Values(query, "agents") : AgentClause(agent, RowTold(s))
           /\ ActivityMatches(s.activity) <=>
                 \E activity \in Values(query, "activities") : ActivityClause(activity, RowTold(s))
<1>1. s.agent \notin {AnyTag, CurrentTag} /\ s.activity \notin {AnyTag, CurrentTag}
  BY RowsAssumption DEF TablesInv
<1>2. RowTold(s).agent = s.agent /\ RowTold(s).activity = s.activity
  BY DEF RowTold, JoinedRow
<1>3. \A agent : AgentClause(agent, RowTold(s)) <=>
          agent \in {AnyTag, s.agent} \/ (agent = CurrentTag /\ s.agent = ApplicationName)
  BY <1>1, <1>2 DEF AgentClause
<1>4. \A activity : ActivityClause(activity, RowTold(s)) <=>
          activity \in {AnyTag, s.activity} \/ (activity = CurrentTag /\ s.activity = CurrentActivity)
  BY <1>1, <1>2 DEF ActivityClause
<1>5. AgentMatches(s.agent) <=>
          \E agent \in Values(query, "agents") :
              agent \in {AnyTag, s.agent} \/ (agent = CurrentTag /\ s.agent = ApplicationName)
  BY <1>1 DEF AgentMatches
<1>6. ActivityMatches(s.activity) <=>
          \E activity \in Values(query, "activities") :
              activity \in {AnyTag, s.activity} \/ (activity = CurrentTag /\ s.activity = CurrentActivity)
  BY <1>1 DEF ActivityMatches
<1>. QED  BY <1>3, <1>4, <1>5, <1>6

\* Its test of the url implies the clause, and follows from it where no letter changes its
\* case.
LEMMA UrlsAgree ==
    ASSUME TablesInv, PlainFilters, NEW s \in scoreCache \cup links
    PROVE  /\ UrlMatches(s.resource) =>
                 \E pattern \in Values(query, "urlFilters") : UrlFilterClause(pattern, RowTold(s))
           /\ (/\ SpelledAlike(s.resource)
               /\ \E pattern \in Values(query, "urlFilters") : UrlFilterClause(pattern, RowTold(s)))
                 => UrlMatches(s.resource)
<1>1. s.resource \in Seq(Char)
  BY RowsAssumption DEF TablesInv, Text, Char
<1>2. RowTold(s).resource = s.resource
  BY DEF RowTold, JoinedRow
<1>3. HasMatch(s.resource, StarPatternToRegex(<<Star>>))
  BY <1>1, StarMatches
<1>4. \A pattern \in Seq(Char \ {Backslash}) :
          /\ HasMatch(s.resource, StarPatternToRegex(pattern)) => Like(s.resource, StarPatternToLike(pattern))
          /\ (/\ LowerText(s.resource) = s.resource /\ LowerText(pattern) = pattern
              /\ Like(s.resource, StarPatternToLike(pattern))) =>
                 HasMatch(s.resource, StarPatternToRegex(pattern))
  BY <1>1, PatternsAgree
<1>5. Values(query, "urlFilters") \subseteq query.urlFilters \cup {<<Star>>}
  BY DEF Values, Default
<1>6. query.urlFilters \subseteq Seq(Char \ {Backslash})
  BY DEF PlainFilters
<1>7. SpelledAlike(s.resource) =>
          /\ LowerText(s.resource) = s.resource
          /\ \A pattern \in query.urlFilters : LowerText(pattern) = pattern
  BY DEF SpelledAlike
<1>8. ASSUME NEW pattern \in Values(query, "urlFilters")
      PROVE  /\ HasMatch(s.resource, StarPatternToRegex(pattern)) => UrlFilterClause(pattern, RowTold(s))
             /\ SpelledAlike(s.resource) /\ UrlFilterClause(pattern, RowTold(s)) =>
                    HasMatch(s.resource, StarPatternToRegex(pattern))
  <2>1. UrlFilterClause(pattern, RowTold(s)) <=>
            pattern = <<Star>> \/ Like(s.resource, StarPatternToLike(pattern))
    BY <1>2 DEF UrlFilterClause
  <2>. QED  BY <1>3, <1>4, <1>5, <1>6, <1>7, <2>1
<1>. QED  BY <1>8 DEF UrlMatches

\* Its test of the type implies the clause, and follows from it where no letter changes its
\* case and no type has a star.
LEMMA TypesAgree ==
    ASSUME TablesInv, KeysInv, PlainFilters, NEW s \in scoreCache \cup links
    PROVE  /\ TypeMatches(s.resource) =>
                 \E type \in Values(query, "types") : MimetypeClause(type, RowTold(s))
           /\ (/\ SpelledAlike(s.resource)
               /\ \A type \in TypePatterns : Star \notin Range(type)
               /\ \E type \in Values(query, "types") : MimetypeClause(type, RowTold(s)))
                 => TypeMatches(s.resource)
<1>. DEFINE r == s.resource
            found == Mimetypes(r)
            shown == IF found = {} THEN <<>> ELSE CHOOSE mimetype \in found : TRUE
            Test(type) == \/ type \in {AnyTag, shown}
                          \/ type = FilesTag /\ shown # <<>> /\ shown # Directory
                          \/ type = DirectoriesTag /\ shown = Directory
            Alike == /\ SpelledAlike(r)
                     /\ \A type \in TypePatterns : Star \notin Range(type)
<1>0. <<>> \in Text /\ Text = Seq(Char)
  BY DEF Text, Char
<1>1. FilesTag # DirectoriesTag /\ \A tag \in {AnyTag, FilesTag, DirectoriesTag} : tag \notin Text \cup {<<Star>>}
  BY TagsAssumption
<1>2. RowTold(s).resource = r
  BY DEF RowTold, JoinedRow
<1>3. found \subseteq Text /\ \A x, y \in found : x = y
  BY RowsAssumption DEF Mimetypes, TablesInv, KeysInv
<1>4. TypeMatches(r) <=> \E type \in Values(query, "types") : Test(type)
  BY DEF TypeMatches
<1>5. /\ found = {} => shown = <<>>
      /\ found # {} => shown \in found /\ found = {shown}
      /\ shown \in Text
  BY <1>0, <1>3
<1>9. Alike => \A mimetype \in found : LowerText(mimetype) = mimetype
  BY DEF SpelledAlike
<1>. HIDE DEF found, shown
<1>6. \A type \in Values(query, "types") :
          \/ type \in {AnyTag, FilesTag, DirectoriesTag}
          \/ /\ type \in Seq(Char \ {Backslash}) /\ type # <<>>
             /\ Alike => Star \notin Range(type) /\ LowerText(type) = type
  <2>1. Values(query, "types") \subseteq query.types \cup {AnyTag}
    BY DEF Values, Default
  <2>2. \A type \in query.types \ {AnyTag, FilesTag, DirectoriesTag} :
            Alike => Star \notin Range(type) /\ LowerText(type) = type
    BY DEF SpelledAlike, TypePatterns
  <2>. QED  BY <2>1, <2>2 DEF PlainFilters
<1>. HIDE DEF Alike
<1>7. \A type : MimetypeClause(type, RowTold(s)) <=>
          \/ type \in {AnyTag, <<Star>>}
          \/ \E mimetype \in found :
                CASE type = FilesTag -> mimetype # Directory /\ mimetype # <<>>
                  [] type = DirectoriesTag -> mimetype = Directory
                  [] OTHER -> Like(mimetype, StarPatternToLike(type))
  BY <1>2 DEF MimetypeClause, found
<1>8. ASSUME NEW type \in Values(query, "types")
      PROVE  /\ Test(type) => MimetypeClause(type, RowTold(s))
             /\ Alike /\ MimetypeClause(type, RowTold(s)) => Test(type)
  <2>1. CASE type = AnyTag
    BY <1>7, <2>1
  <2>2. CASE type # AnyTag /\ type = FilesTag
    <3>1. type \notin {AnyTag, <<Star>>, shown} /\ FilesTag # DirectoriesTag
      BY <1>1, <1>5, <2>2
    <3>2. MimetypeClause(type, RowTold(s)) <=> \E mimetype \in found : mimetype # Directory /\ mimetype # <<>>
      BY <1>7, <2>2, <3>1
    <3>. QED  BY <1>5, <2>2, <3>1, <3>2
  <2>3. CASE type # AnyTag /\ type = DirectoriesTag
    <3>1. type \notin {AnyTag, <<Star>>, shown} /\ FilesTag # DirectoriesTag
      BY <1>1, <1>5, <2>3
    <3>2. MimetypeClause(type, RowTold(s)) <=> \E mimetype \in found : mimetype = Directory
      BY <1>7, <2>3, <3>1
    <3>3. Directory # <<>>
      BY QueriesAssumption
    <3>. QED  BY <1>5, <2>3, <3>1, <3>2, <3>3
  <2>4. CASE type \notin {AnyTag, FilesTag, DirectoriesTag}
    <3>1. type \in Seq(Char \ {Backslash}) /\ type # <<>>
      BY <1>6, <2>4
    <3>2. MimetypeClause(type, RowTold(s)) <=>
              type = <<Star>> \/ \E mimetype \in found : Like(mimetype, StarPatternToLike(type))
      BY <1>7, <2>4
    <3>3. Test(type) <=> type = shown
      BY <2>4
    <3>4. type = shown => type \in found
      BY <1>5, <3>1
    <3>5. Like(type, StarPatternToLike(type))
      BY <3>1, LikeItself
    <3>6. ASSUME Alike, MimetypeClause(type, RowTold(s))
          PROVE  type = shown
      <4>1. Star \notin Range(type) /\ LowerText(type) = type
        BY <1>6, <2>4, <3>6
      <4>2. type # <<Star>>
        BY <4>1 DEF Range
      <4>3. PICK mimetype \in found : Like(mimetype, StarPatternToLike(type))
        BY <3>2, <3>6, <4>2
      <4>4. mimetype \in Seq(Char) /\ LowerText(mimetype) = mimetype
        BY <1>0, <1>3, <1>9, <3>6, <4>3
      <4>5. mimetype = type
        BY <3>1, <4>1, <4>3, <4>4, LikeItself
      <4>. QED  BY <1>5, <4>3, <4>5
    <3>. QED  BY <3>2, <3>3, <3>4, <3>5, <3>6
  <2>. QED  BY <2>1, <2>2, <2>3, <2>4
<1>. QED  BY <1>4, <1>8 DEF Alike

\* For the queries of the premise, about every row of the tables: what the watcher passes
\* on, the query selects; and what the query selects, the watcher passes on if no letter
\* compared is in upper case and no type has a star.
THEOREM WatcherAgreesWithQuery == Spec => []WatcherAgrees
<1>1. TablesInv /\ KeysInv /\ FiltersInv /\ TypesInv => WatcherAgrees
  <2>1. SUFFICES ASSUME TablesInv, KeysInv, FiltersInv, TypesInv, ~Dated(query), query.titleFilters = {},
                        \A pattern \in query.urlFilters \cup TypePatterns : Backslash \notin Range(pattern),
                        <<>> \notin query.types,
                        NEW s \in scoreCache \cup links
                 PROVE  /\ Told(s) => Selected(s)
                        /\ (/\ Selected(s)
                            /\ SpelledAlike(s.resource)
                            /\ \A type \in TypePatterns : Star \notin Range(type)) => Told(s)
    BY DEF WatcherAgrees
  <2>2. PlainFilters
    BY <2>1, PremiseIsPlain
  <2>3. \E pattern \in Values(query, "titleFilters") : TitleClause(pattern, RowTold(s))
    <3>1. <<Star>> \in Values(query, "titleFilters")
      BY <2>1 DEF Values, Default
    <3>2. TitleClause(<<Star>>, RowTold(s))
      BY DEF TitleClause
    <3>. QED  BY <3>1, <3>2
  <2>4. /\ AgentMatches(s.agent) <=> \E agent \in Values(query, "agents") : AgentClause(agent, RowTold(s))
        /\ ActivityMatches(s.activity) <=>
              \E activity \in Values(query, "activities") : ActivityClause(activity, RowTold(s))
    BY <2>1, AgentsAgree
  <2>5. Selected(s) <=>
            /\ \E agent \in Values(query, "agents") : AgentClause(agent, RowTold(s))
            /\ \E activity \in Values(query, "activities") : ActivityClause(activity, RowTold(s))
            /\ \E pattern \in Values(query, "urlFilters") : UrlFilterClause(pattern, RowTold(s))
            /\ \E type \in Values(query, "types") : MimetypeClause(type, RowTold(s))
    BY <2>1, <2>3 DEF Selected, RowTold, Where
  <2>6. Told(s) <=> /\ AgentMatches(s.agent) /\ ActivityMatches(s.activity)
                    /\ UrlMatches(s.resource) /\ TypeMatches(s.resource)
    BY DEF Told, EventMatches
  <2>7. Told(s) => Selected(s)
    BY <2>1, <2>2, <2>4, <2>5, <2>6, UrlsAgree, TypesAgree
  <2>8. (/\ Selected(s)
         /\ SpelledAlike(s.resource)
         /\ \A type \in TypePatterns : Star \notin Range(type)) => Told(s)
    BY <2>1, <2>2, <2>4, <2>5, <2>6, UrlsAgree, TypesAgree
  <2>. QED  BY <2>7, <2>8
<1>. QED  BY <1>1, TablesKept, KeysKept, FiltersKept, TypesKept, PTL

===============================================================================
