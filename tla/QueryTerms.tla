------------------------------ MODULE QueryTerms ------------------------------
(***************************************************************************)
(* The definition of a query, and the terms that it is built from with the *)
(* pipe syntax.  A list of filters is a set here: its values are joined by *)
(* OR, so neither their order nor a repetition tells two queries apart.    *)
(***************************************************************************)
EXTENDS StarPatterns

CONSTANTS AnyTag, CurrentTag, GlobalTag,   \* the special agents and activities; any type
          FilesTag, DirectoriesTag         \* the special types

ASSUME TagsAssumption ==
    /\ FilesTag # DirectoriesTag
    /\ \A tag \in {AnyTag, FilesTag, DirectoriesTag} : tag \notin Text \cup {<<Star>>}

NoDate == -1

Select == {"LinkedResources", "UsedResources", "AllResources"}
Order == {"HighScoredFirst", "RecentlyUsedFirst", "RecentlyCreatedFirst", "OrderByUrl", "OrderByTitle"}

\* The filters a query can have several values of.
Filter == {"types", "agents", "activities", "urlFilters", "titleFilters"}

DefaultLimit == 50

\* Query(selection).
NewQuery(selection) ==
    [selection |-> selection, ordering |-> "HighScoredFirst",
     types |-> {}, agents |-> {}, activities |-> {}, urlFilters |-> {}, titleFilters |-> {},
     start |-> NoDate, end |-> NoDate, limit |-> DefaultLimit, offset |-> 0]

\* What a getter returns for a filter that was never set.
Default(filter) == CASE filter = "types" -> {AnyTag}
                     [] filter \in {"agents", "activities"} -> {CurrentTag}
                     [] OTHER -> {<<Star>>}

Values(q, filter) == IF q[filter] = {} THEN Default(filter) ELSE q[filter]

-------------------------------------------------------------------------------
(***************************************************************************)
(* Terms.                                                                  *)
(***************************************************************************)
FilterTerm(filter, values) == [term |-> "Filter", filter |-> filter, values |-> values]

Type(values) == FilterTerm("types", values)
Agent(values) == FilterTerm("agents", values)
ActivityTerm(values) == FilterTerm("activities", values)
Url(values) == FilterTerm("urlFilters", values)
Title(pattern) == FilterTerm("titleFilters", {pattern})

\* Url::startsWith and Url::contains.
StartsWith(prefix) == Url({Append(prefix, Star)})
ContainsInfix(infix) == Url({<<Star>> \o infix \o <<Star>>})

\* Days are numbers.  Date(value), and Date(start, end).
Day(value) == [term |-> "Date", start |-> value, end |-> NoDate]
Period(start, end) == [term |-> "Date", start |-> start, end |-> end]

\* Date::currentWeek and Date::previousWeek, on the given day.
CurrentWeek(today) == Period(today, today - 7)
PreviousWeek(today) == CurrentWeek(today - 7)

\* The values of enumerations and the numbers are terms that set one field.
Setting(field, value) == [term |-> "Setting", field |-> field, value |-> value]

-------------------------------------------------------------------------------
WithoutQuotes(pattern) ==
    FlattenSeq([k \in DOMAIN pattern |-> IF pattern[k] = "'" THEN <<>> ELSE <<pattern[k]>>])

\* validateFilters: patterns lose their quotes.
Validated(filter, values) ==
    IF filter \in {"urlFilters", "titleFilters"} THEN {WithoutQuotes(pattern) : pattern \in values}
                                                 ELSE values

\* Mutant: the values are taken as they are.
AddUnvalidated(q, filter, values) == [q EXCEPT ![filter] = @ \cup values]

\* addTypes and its like.
Add(q, filter, values) == [q EXCEPT ![filter] = Validated(filter, @ \cup values)]

\* setTypes and its like.
Set(q, filter, values) == [q EXCEPT ![filter] = Validated(filter, values)]

\* clearTypes and its like.
Clear(q, filter) == [q EXCEPT ![filter] = {}]

\* The query after "q | t".
Pipe(q, t) ==
    CASE t.term = "Filter" -> IF t.filter = "titleFilters" THEN Set(q, t.filter, t.values)
                                                           ELSE Add(q, t.filter, t.values)
      [] t.term = "Date" -> [q EXCEPT !.start = t.start, !.end = t.end]
      [] t.term = "Setting" -> [q EXCEPT ![t.field] = t.value]

===============================================================================
