# Verification of plasma-activities-stats (kactivities-stats)

The library lists the resources (files, urls, contacts) that a user used or linked in an
activity. It reads the SQLite database of the activity manager, follows the manager's D-Bus
signals, and offers the result as a container (`ResultSet`) or as a Qt list model
(`ResultModel`). This directory holds TLA+ modules translated from that code, TLC runs that
check them on small instances, and proofs that TLAPS checks for all values of the constants.
Paths below are relative to `src/src/`, those of tests to `src/autotests/`.

## 1. Inventory

| Component | Source | State | Operations |
|---|---|---|---|
| Row cache | `resultmodel.cpp` 73-510, `utils/slide.h` | `m_items`, `m_fixedOrderedItems`, the saved orders | find, insert, remove, clear, `replace`, `trim`, `setLinkedResultPosition`, `loadOrderingConfig`, the thread that looks for missing files |
| Result model | `resultmodel.cpp` 560-1030 | the cache, `hasMore`, the watcher; all models are in `s_privates` | `fetch`, the handlers of the watcher's signals, activity switch, `fetchMore`, `setResultPosition`, `forgetResources` |
| Result watcher | `resultwatcher.cpp` | the query, the invalidation timer | one handler per D-Bus signal; filters by agent, activity, url and type |
| Result set | `resultset.cpp` | one executed `QSqlQuery` | three SELECTs (linked, used, all), `at` |
| Iterator | `resultset_iterator.cpp` | set, row, copy of the row | construction, assignment, moves, comparisons |
| Query, terms | `query.cpp`, `query.h`, `terms.cpp`, `terms.h` | the definition | pipe syntax, setters, clearing, defaults |
| Star patterns | `common/database/Database.h` 60-130 | none | to LIKE, to regular expression |
| Schema | `common/database/schema/ResourcesDatabaseSchema.cpp` | tables and version | `initSchema` |
| Connection registry | `common/database/Database.cpp` | connections by thread and mode | `instance`, `execQuery` |
| Activity service | `activitiessync_p.cpp` | one shared `Consumer` | waits for the service in a nested event loop |
| Clean-up | `cleaning.cpp` | none | D-Bus calls that forget statistics |
| Random test | `ResultSetQuickCheckTest.cpp`, `quickcheck/` | tables in memory | fills a database, compares the queries with folds over its tables |
| Activity manager | not in the repository | `ResourceScoreCache`, `ResourceLink`, ... | writes the database, then announces; forgets on request |

How they interact. The manager writes the database and then sends a signal. The signal waits
in the connection's queue until the event loop of the library's thread delivers it to
`ResultWatcher`, which filters it and calls the `ResultModel` handler in the same step. A
handler edits the cache, and some handlers read the database, which by then may be several
changes ahead of the signal being handled. Every edit of the cache is announced to views by
begin/end pairs with row numbers, and views see nothing else. A replacement starts a thread
that looks for the files it was given; what it finds missing, the model's thread asks the
manager to forget, which comes back as announcements. The models of one program with the same
client id write and read the same saved orders, and a request to one resets the others.

What is hard, and what would make each part correct:

* *Row cache.* `replace()` turns the listed rows into a fresh batch by inserting rows and
  sliding blocks in the list it reads. Correct: views stay equal to the model, the loop ends,
  the batch is installed, no more rows than the limit.
* *Result model.* Three sources of rows (announcements, refills, reloads) with three orders
  (the SQL `ORDER BY`, `destinationFor`, the user's order), read at different times. Correct:
  once all is processed the list is the beginning of the query's result; nothing is listed
  twice; rows leave for a reason; missing files leave for good; paging reaches the end.
* *The user's order.* Saved under a client id and an activity tag, used by several models, and
  saved again from inside the loop that tells the others. Correct: outside the loops all
  models use the saved order and list their rows in it; nothing but the user replaces it.
* *Result watcher.* The timer that collects invalidations makes removals be dropped while it
  runs. Correct: a dropped removal is made up for by the reload. Its filters are the query's,
  written again as regular expressions. Correct: both agree about every row (section 3 says
  where they do not).
* *Result set.* Three statements put together from text; scores are joined, filtered, grouped
  and summed. Correct: they return what a fold over the tables returns, terms of one kind are
  alternatives and terms of different kinds all hold.
* *Iterator.* All iterators of a set and `at()` share the position of one query. Correct: each
  shows its own row, a walk from `begin()` to `end()` visits every row once and ends.
* *Schema.* A statement sequence without a transaction. Correct: old rows survive, and a
  database that calls itself current is complete, whatever run was cut short.
* *Connection registry, activity service.* Thread ids that are used again, re-entrant delivery
  of signals.

`PROJECT.json` lists every hazard with its line and the properties that cover it, or the
reason why none does.

## 2. Modules

| Module | Models |
|---|---|
| `ResultRows` | pure operators: find, rotate/slide/move_one, trim, what a view does for each announced change, the user's order and the places `destinationFor` can give, and what a replacement achieves |
| `ResultList` | abstract specification of the cache: a list of at most `Limit` rows changed by whole operations |
| `ResultCache` | class `Cache` one row signal at a time, with a view; implements `ResultList` |
| `ResourceStore` | the manager, its tables, its announcements, the rows and orders of the queries |
| `ResultWatcher` | which announcement is passed on, which schedules a reload, which is dropped |
| `ResultModel` | the model's handlers, paging, user order, missing files and forgetting, composed with the two above |
| `SharedOrder` | several models that share saved orders, the loops over `s_privates`, activity switches that reach them one by one |
| `StarPatterns` | the parser of star patterns, its two conversions, LIKE and anchored regular expressions |
| `QueryTerms` | the query definition, its terms, defaults and setters |
| `ResultQueries` | the three SELECTs as joins, clauses, groups, orders and pages; the watcher's filters |
| `QuickCheck` | tables filled row by row, queries built term by term, and the reference of the random test |
| `SchemaMigration` | `initSchema` statement by statement with crashes |
| `ResultSetIterator` | iterators over one query, and a client that walks |
| `ResultRowsProofs` | lemmas about the operators of `ResultRows`, and about sums over finite sets |
| `ResultCacheProofs` | the invariants of `ResultCache`; that it implements `ResultList` |
| `ResultModelProofs` | types, limit and lost rows of `ResultModel` |
| `ResultModelListProofs` | what its lists show: of linked resources, and of used ones |
| `QuickCheckProofs` | what terms do to the results of a query, how results are sorted, and that the watcher agrees with the query |
| `SharedOrderProofs`, `ResultSetIteratorProofs`, `SchemaMigrationProofs` | the invariants of these modules |
| `MC*` | values of the constants for TLC |

`ResultModel` EXTENDS `ResultWatcher`, which EXTENDS `ResourceStore`; it uses
`ResultRows!Replacements` for a whole `replace()`. That this summary is right is what
`ResultCache` shows: its property `ImplementsList` is `ListSpec` of `ResultList` under the
mapping *items = the rows when `replace()` was called, until it is done*. `QuickCheck` EXTENDS
`ResultQueries`, `QueryTerms` and `StarPatterns`; it looks at rows and texts where
`ResultModel` looks at time, and takes `ResultQueries` as the meaning of a query where
`ResourceStore` has its abstraction without filters.

### ResultCache

`items` is `m_items`; `view` is the copy that a view edits by the announced rows; `batch`,
`from` and `next` are `newItems`, `from` and `newBlockStart` of a running `replace()`, and
`replacing` says that it runs. Each action is one begin/end pair or one round of the loop,
because a view runs at the begin and end calls. A view's edit is defined by the row numbers
that the code passes (`RowsInserted`, `RowsRemoved`, `RowsMoved`) and the model's edit by what
`insert`, `erase`, `slide` and `move_one` do: they are written independently, so that
`ViewMirrors` compares the two. `beginMoveRows` refuses a destination inside the block; then
the view does nothing. `before` is auxiliary and serves the refinement mapping.

The batch is any list of at most `Limit - from` rows without duplicates (the queries group by
resource and `fetch` cuts the count), and `from` is 0 or the number of listed rows: the two
values that `fetch` is called with. The listed rows may hold duplicates, since a refill can
produce them (see `used_duplicates`). With duplicates, which old row survives depends on the
blocks that were slid; `Replacements` therefore leaves it open.

### ResourceStore, ResultWatcher, ResultModel

`stats` and `links` are the tables; scores are small numbers, 0 for no row. `bus` is the
queue of announcements. A manager step writes and appends one announcement. `current` is the
activity that the library knows, which lags behind `activity`. A handler is one step, since
handlers run in one thread and do not yield. `FetchRows` reads `stats` and `links` as they are
*now*, with the offset, the count and the limit of `fetch(from, count)`, in the query's order,
whose last key is the resource. `fixed` and `config` are the order in use and the saved
orders by activity tag.

`checks` are the threads that look for missing files, each as the set of files that it will
find missing; one that finds them all ends without a trace. `ForgetMissing` is its result
arriving in the model's thread, which asks the manager to forget the files (`calls`); the
manager gets to the calls in any order, deletes the statistics and announces it with the
activity of the query's definition, which is `:current` and not the activity it stands for.
`ForgetRow` is the same call made for a listed row by the program.

Data is abstracted to what these properties tell apart: a resource is a number (its url order),
a row is resource, score and link status. Agents, url and type filters, titles, dates and
times of use are left out here: every announcement passes those filters. They are the subject
of `ResultQueries`.

`Lockstep` is a scheduling assumption and a constant: with it the manager and the program act
only when every announcement was processed. Runs that state exact equality with the query use
it, since without it the properties are false for good reasons (the run `used_duplicates`
shows one).

`ReadAtOnce` says when a list of linked resources takes its changes from announcements alone:
there is room for every resource under the limit, and the first batch reads them all.
`LinkedExact`, `LinkedOnce` and `UserOrderKept` are about such lists. The restriction is
needed: a page that is read after the first one is put behind rows that the user's order may
place behind it, and a page read with the database ahead of the announcements can bring a row
that is listed already; a full list drops rows. `LinkedExact` is also restricted to the current
activity, since over several activities an unlink in one removes a row that another still links.

### SharedOrder

Models are in `alive` while they are in `s_privates`. `saved` is the configuration file, by
client and tag; `fixed`, `tag` and `rows` are each model's order, the tag it was loaded for and
the resources it lists. `notifying` is the stack of the loops over `s_privates` that
`setLinkedResultPosition` runs, innermost first: each entry holds the models not yet reset.
`NotifyOther` is one round of the innermost loop; between two rounds a view of the
model just reset may call `setResultPosition` again (`MoveResult`, `PlaceResult`), which opens
a further loop inside the first. `told` are the models that have heard of the last change of
activity: between two of them, views may place requests in a model that still has the old tag.

A reset reads its rows in any order of those the user has not placed, so the properties do not
depend on scores; `Destinations` of `ResultRows` leaves the same freedom to `destinationFor`. Resources that
never change their links stay linked everywhere, so that lists of more than one row exist from
the start. Models come and go only outside the loops: inside one, the loop's iterators into
`s_privates` would be invalid, and the mutant `DestroyInside` shows that `SharedTypeOK` fails.

### StarPatterns, QueryTerms, ResultQueries, QuickCheck

A text is a sequence of characters from a small alphabet that has the special characters of
both pattern languages. `Like` and `HasMatch` are what SQLite and Qt do with a converted pattern.
`Like` takes a letter for itself in either case, as SQLite does for ASCII letters (`Lowercase`
names the pairs); `HasMatch` compares exactly, since the library builds its expressions without
that option, and so does the comparison of types in the watcher.

A SELECT is the set of the rows that its joins and its WHERE leave, a row joined with two
events being two rows; its groups with sums, minima and maxima that ignore NULL; the groups
that the ORDER BY sorts; and the page that LIMIT and OFFSET cut out. A list of filters is a
set. A statement that SQLite refuses returns nothing, as `ResultSet` does.

`QuickCheck` inserts rows and adds terms in any order up to `MaxSize` and compares, in every
state. Its reference is the random test's: group the rows of a table by resource, merge, sort
with composed comparisons, compare in lockstep.

### SchemaMigration

`tables` maps the tables that exist to whether they hold rows and which fields are empty in
some row; `todo` are the statements left. `INSERT OR IGNORE` and `UPDATE` of the version are
one statement here: a crash between them is a crash before or after both, since one of them
changes nothing. A start can find no database, an old one (any subset of the two old tables),
one of an intermediate version (with or without the tables introduced later) or a current one.
Databases of a version later than the code's are left out.

### ResultSetIterator

`cursor` is the position of the query, `iter` the row and the copied value of each iterator.
Every construction and move goes through `UpdateValue`, which seeks and reads. Postfix
operators are `Offset`, as in the code, where they leave their operand alone. One iterator
walks from `begin()` until it equals `end()`; the others do anything in between. The rows of
an executed query do not change. The linked activities, which a second query reads for each
row, are left out.

## 3. Runs

| Run | Shows | Bounds, and why they are enough |
|---|---|---|
| `cache_replace` | the view mirrors the model after every signal, the prefix built by `replace()` is final, the limit holds, the loop ends, and it implements the abstract list | three resources, two versions of data, limit 3: insertion, no move, moves of one-row and two-row blocks, duplicates before a replacement, trimming and eviction all occur |
| `model_settled` | while scores rise and differ, a list of used resources with fewer places than resources equals the first rows of its query after every change, also one that the program asked for; a list read in pages shows the beginning of the result, never hides that there is more, and gets to the end | three resources, scores up to 4, one resource in a second activity; limit 2 read at once, limit 3 in pages of 1 by score and by url: eviction, refill, re-entry, deletion by resource, pattern and period, reloads and switches between pages |
| `model_linked` | a list of linked resources converges to the links, shows none twice, keeps the user's order | three resources, two activities, up to two announcements waiting, with and without a client id |
| `model_async` | never more rows than the limit; rows leave for a reason; all settles when the manager is silent; missing files leave for good | two resources, one of which is a missing file, up to two announcements waiting, the timer, threads that end late; scores that rise and fall; used resources of any activity and all resources of the current one |
| `shared_order` | models of one client use the saved order, list their rows in it, keep the types, and nothing but the user replaces a saved order | three models of one client, two of which follow the current activity, two activities, two resources of which one is linked and unlinked, a request inside a request, one announcement waiting per model: a further loop, a reset of the outer loop's model by the inner one, and a stale tag need no more |
| `queries` | the SELECTs return what the reference computes; all resources are the linked ones and then the used ones; terms combine as the documentation of the terms says; the watcher lets pass what the query selects, within the premises below | up to four rows and terms together, from 15 rows and 19 terms: a score in two activities and by two agents, a link with and without a score, two events of one row, a character that LIKE treats specially, two urls that differ in the case of a letter, a type with a star, a quote, an empty type |
| `schema_crash` | old rows are never lost; an uninterrupted run completes the database | up to two crashes, all databases a start can find |
| `iterator_walk` | iterators never show each other's rows; a walk visits all rows once and ends | up to three rows, two further iterators, up to two rows out of the set |

Assumptions that the names of the runs do not tell:

* `Uses` says which uses happen: none, those that raise a score (`"rising"`), those that raise or
  lower it to one that no other resource of the activity has (`"any"`), or all (`"tied"`). The
  scores of the manager decay, so that they do fall.
* `model_settled`: scores rise only. A score that drops in a full list keeps its row although an
  unlisted resource is ahead: with `Uses = "any"` in `model_settled.cfg` TLC finds `SettledExact`
  violated. In a list with room for every resource it does no harm (`SettledIsExact`, section 5).
* A list longer than a batch gets no new uses between pages, because a use of a listed row can
  move a row across the border of the pages already read (`UsesAllowed`).
* The scores of two resources in one activity are never equal: ties are broken in opposite
  directions by SQL and by the model (see below), and with `Uses = "tied"` `SettledExact` is violated.
* A missing file is not used again, or it could come and go for ever.
* `MissingFilesLeave` asks in addition that activities stop changing, that the timer is not
  started anew for ever and that nothing is listed twice: a removal takes away one row, so that
  a duplicate of a missing file would stay.
* `AllCombines` compares scores of queries without a date, since a date joins events and
  multiplies rows in two of the queries and not in the third.
* `WatcherAgrees` is about queries without dates and titles, which the watcher does not look at,
  and without backslashes in patterns and the empty type. For these the watcher passes on
  nothing that the query leaves out. That it passes on all that the query selects is claimed
  only if no url, type or pattern has a letter in upper case and no type has a star. Outside of
  that the two filters disagree (see below): without the premise on dates, on titles, on upper case
  or on stars TLC finds `WatcherAgrees` violated in `queries`. No term of the run has a backslash or
  the empty type; for these see section 5.

Disagreements between the code and what it says of itself, each with its own run and a finding
in `PROJECT.json`:

* `used_duplicates`: the refill after a removal reads at an offset that counts listed rows. If
  the database is ahead of the announcements, the row read can be listed already.
* `all_unlinked`: a reload keeps the old data of rows it finds, so an unlinked resource stays
  linked in a list of all resources and is then not removed when its statistics go.
* `all_types`: the two named tables of the query for all resources have no type and no title,
  so a filter on one of them makes the statement fail and the result empty.
* `schema_uptodate`: the version is stored before the migration is complete.

Observed while modelling, and not run as findings:

* A score that falls moves its row among the listed ones only (`resultmodel.cpp` 762); no unlisted
  resource is looked for that now belongs before it. A list of two shows the scores 3 and 2, the 2
  falls to 1, and an unlisted resource with the score 2 stays out.
* `destinationFor` (`resultmodel.cpp` 580-590) places a row in descending order of urls, in a list
  by url and among equal scores in others; the query (`resultset.cpp` 288) reads them in ascending
  order.
* LIKE (`resultset.cpp` 173, 187, 207) ignores the case of ASCII letters, the watcher's regular
  expressions (`Database.h` 123-127) and its comparison of types do not: the query takes the filter
  `/A` for the resource `/a`, whose announcements the watcher drops, so that the listed row is never
  updated or removed.
* The query takes a star in a type as a pattern, the watcher literally (`resultwatcher.cpp` 166), with
  the same effect.
* The watcher does not look at titles and dates (`resultwatcher.cpp` 170-177): the model inserts
  resources that the query leaves out.
* The assertion in `setLinkedResultPosition` (`resultmodel.cpp` 151) that a movable row is among
  the linked items fails after `all_unlinked`.
* An order saved by a model forgets the places of resources that only a model with another
  query lists.
* `forgetRecentStats` and `forgetEarlierStats` (`cleaning.cpp` 57) pass the name of the method as
  an argument; `forgetResources` looks at neither types, titles nor dates of the query.
* `Date::currentWeek` and `previousWeek` are periods that end before they start, so they select
  nothing.
* `Query::operator==` compares the selection twice and neither titles, ordering, limit nor
  offset.
* A row inserted by an announcement is never looked at for a missing file; only replacements
  start the thread.
* The random test's comparison formats `*leftIt` at the end of the left range when the right
  range is longer.

Deadlock is checked everywhere except in the two schema runs, which say
`CHECK_DEADLOCK FALSE`: a migrated database stays as it is.

## 4. Fairness

* `FairCacheSpec`: weak fairness of the rounds of `replace()`. It is a plain loop in one
  thread.
* `FairSpec`: weak fairness of the steps of the model's thread, of the arrival of what a thread
  found, and of the manager getting to a call. The event loop delivers what is queued, the
  single-shot timer runs out, and threads end. Nothing is assumed of the manager's own changes
  or of views. `QuietSettles` is about runs in which the manager falls silent: a manager that
  goes on deleting starts the timer again and again, which the code allows.
* `ScrollSpec`: also weak fairness of `FetchMore`, for a view that is scrolled to its end. Used
  for `AllPagesArrive` only.
* `WalkSpec`: weak fairness of the walking client's own loop.

`SharedOrder`, `QuickCheck` and `SchemaMigration` state safety only.

## 5. What is proved

### The row cache

`ResultCacheProofs` proves, for every set of resources and data and every limit (a natural
number, `CacheAssumption`), that `CacheSpec` implies `[]CacheTypeOK`, `[]ViewMirrors`,
`[]LoopPrefix` and `[]BoundedWhenIdle`. The inductive invariant is

    IInv == CacheTypeOK /\ ViewMirrors /\ LoopPrefix /\ BoundedWhenIdle /\ LoopShape

None of the four is inductive alone. `ViewMirrors` across a block move needs the block to lie
inside the list and behind the finished prefix, or `beginMoveRows` would announce another
move; that the block is found behind the prefix needs `LoopPrefix` and that the batch has no
duplicates; the limit after the last round needs that the batch fits under it. `LoopShape`
holds these last facts about a running `replace()`. There is one lemma per action, over the lemmas of
`ResultRowsProofs` about the row operators: the length of the result, and which row is where,
after an insertion, a removal, a trim, a rotation and a move; and that the announced move of a
block (or of a single row, with its `position + 1`) describes the same list as `slide` (or
`move_one`).

### The shared orders

`SharedOrderProofs` proves that `Spec` of `SharedOrder` implies `[]SharedTypeOK`,
`[]OrderIsSaved`, `[]SameArrangement` and `OrdersAreKept`, for every finite set of resources, any
set of models and activities, any assignment of client ids and every bound on nested requests
and on waiting announcements (`SharedAssumption`). The inductive invariant is

    IInv == SharedTypeOK /\ OrderIsSaved /\ RowsArranged

where `RowsArranged` says of every model, alive or not, that it lists no resource twice and has
its rows in its own order. `OrderIsSaved` survives a request because every other model of the
client enters the new loop, and a reset because a model
leaves a loop only when it is reset; it survives the first load of a tag because a saved order
is never `Unsaved`. `SameArrangement` then follows: outside the loops two models of a client and
tag both use the saved order, and each is arranged by its own.

`RowsArranged` is where `destinationFor` is reasoned about. `DestinationFits` shows that the
place it counts has no row above it that belongs below and none below that belongs above, for
an arranged list without duplicates; `InsertArranged` and `RepositionArranged` follow for a new
and a listed row. `RequestedPlace` shows that after a request the place counted in the new order
is exactly the one that was asked for, which is why a moved row and the saved order agree; it
counts the rows before it by a bijection with the first positions. Without the part about
duplicates this is false.

### The row cache implements a list

`ResultCacheProofs` also proves `CacheSpec => List!ListSpec`: every round of the loop of
`replace()` but the last maps to a stutter of `ResultList`, and the last one to a whole
replacement. The invariant for it is `RInv == IInv /\ LoopContent`. `LoopContent` says what a
round leaves of the list that `replace()` was called with: the rows in place are those that the
abstract replacement may put there (`PlacedAreCarried`), the rows behind them are old ones
(`RestIsOld`), and no old row that the rest of the batch needs is lost (`WantedIsLeft`), so that
`find_if` finds a row exactly when the old list had one. A moved block shows that the three
parts belong together: the old rows that it slides over must be needed again later or go in the
end.

### The result model

`ResultModelProofs` is about every list, whatever its query: `Spec` implies `[]BoundedRows` and
`RowsLeaveForAReason`. The inductive invariant is the types and the limit together, since the
number of rows that a refill asks for is cut to what is left under the limit, which makes no
sense with more rows than that. What a fetch does to the list (`FetchRows`) is stated once, for
all its five callers, as: the rows in front of the ones asked for stay, and the limit is exceeded
only by rows that were there. From this a refill and a further page cost no row. The scores of a
list over several activities are sums over a finite set; that they are numbers is shown by a
smallest set for which they would not be, with no induction theorem.

The first part of `ResultModelListProofs` is about the lists of linked resources that are read
at once (`ReadAtOnce`), and gives `[]ModelTypeOK`, `[]LinkedOnce`, `[]UserOrderKept` and `[]LinkedExact`.
Nothing is assumed of the order in which announcements, activity switches, requests and the
manager's changes come, nor of how many announcements wait. The inductive invariant is

    LinkedInv == IInv /\ AtOnceInv /\ LastSaysSo /\ ShownOrAnnounced

* `AtOnceInv`: the rows are tidy (no resource twice, arranged by the order in use, all shown as
  linked), the orders name no resource twice, no reload is due and there is no further page.
  The parts need each other: `destinationFor` keeps a list arranged only if it has no
  duplicates, and a request saves an order without duplicates only if every row counts as linked,
  so that `LinkedItems` are all of them.
* `LastSaysSo`: the last waiting announcement about a link says whether there is one now.
* `ShownOrAnnounced`: a resource about which none waits is shown if and only if it is linked. A
  reset makes it true for all resources at once, reading ahead of the announcements; an
  announcement that is then processed repeats or undoes what the reset read, and is made good by
  a later one, which `LastSaysSo` promises.

`LinkedExact` is `ShownOrAnnounced` for an empty bus. TLC checks the properties in `model_linked`
and `model_async`.

### A list of used resources equals its query's result

The second part of `ResultModelListProofs` gives `[]SettledExact`, `[]ShowsPages` and
`[]OffersMoreRows` for every set of resources and activities, every limit, batch and bound on
scores. Its hypothesis, `ExactSetting`, is about constants only. It is a restriction of what the
theorems claim, and not something that the code sees to:

* the manager and the views wait until the model has settled (`Lockstep`), and no file is missing;
* the scores of an activity differ (`ScoresDiffer`). With ties the order of the list depends on
  how it came about;
* where scores may fall (`Uses = "any"`), a list read at once has room for every resource
  (`FallsHaveRoom`). A shorter list is exact only while scores rise, see section 3;
* the queries are for the used resources of the current activity, and a list read at once that
  hears of new uses is one by score. A list by url puts the higher url first when it hears of a use,
  see section 3; a list longer than a batch cannot hear of uses.

The constants of `model_settled` satisfy it. A list by url that is read in pages is covered;
resources lose their scores in every list, and the current activity changes. The inductive invariant is

    SInv == IInv /\ OneAtATime /\ ListFollows

* `OneAtATime`: what the scheduling gives. At most one of an announcement, a request to forget
  and a running timer is waiting, the library's activity is the manager's unless a switch is
  waiting, and no two scores of an activity tie.
* `ListFollows`: when nothing waits the list is `Exact`, which says that it is a beginning of the
  used resources in the query's order (`Leads`), has their scores, and either is `Complete` or
  offers more. While a score waits the list is exact *for the scores as they were before it*;
  while a removal waits, for some earlier score of its resource. While a deletion by pattern or
  period waits for the timer, the list is `Thinned`: its rows have their old scores or lost them,
  and nothing new belongs in it. A reload then makes it exact, from whatever it was.

The lemmas say that two lists that lead the same set agree, that the page which the SQL query
returns continues a list that leads (so the rows by offset are those after the listed ones), that
`destinationFor` finds by comparisons the place which the ranks give (for a listed row, in the list
without it, whether its score rose or fell), and that a row that is pushed out over the limit is the
last one of the order. A score that fell needs `FallsHaveRoom` there: the list then shows every
used resource, so that none is left out that could belong before the row. TLC was given `OneAtATime` and
`ListFollows` as invariants of `model_settled` before they were proved.

### The iterators and the schema

`ResultSetIteratorProofs` proves `[]IteratorTypeOK`, `[]ValueFollowsRow` and `[]WalkVisitsAll` for
results of every length and any number of iterators. To be inductive, the walk needs that its
iterator is at the row after those visited (`WalkerAtNext`), and that a walk that ended has
visited all (`Rested`).

`SchemaMigrationProofs` proves `[]MigrationTypeOK`, `[]OldRowsMoved` and `[]RunCompletes` for any
number of runs that are cut short. The invariant knows where a run is in the list of its
statements (`InPlace`) and what the statements behind it have achieved (`Created`, `Filled`); old
rows are under the new name, or still where the next run looks for them with nothing under the
new name (`LegacyRows`), which `InPlace` ties to the version: once it is stored as current the
renames are done.

TLC checks all these properties first, in the runs of the same components.

### Queries and their terms

`QuickCheckProofs` proves `TermsAreAlternatives`, for every alphabet, every rows and every terms
of the types that `terms.h` has (`TermsAssumption`), with no bound on how many there are. The
invariant is that a query keeps the fields of a new query (`QueryShape`); from it follows that a
term changes its own fields only (`SameBut`). A clause of the WHERE is a choice over the values
of one filter, so a further value keeps every joined row and a first one takes some away; a
date, which multiplies joined rows by events, leaves those that have an event in the period.
`GroupsListed` and `AllListed` carry this from joined rows to resources, for the query for all
resources too, whose result is a union that is filtered twice.

`AllResourcesCombine` is a statement about the tables and any query: the groups of the query for
all resources are the linked ones and the used ones that are not linked, no resource twice,
marked as they should be, and without a date with the score of the simpler query. `AllListedOnce`
is `AllCombines`, the same of the sorted list. `Sorted` puts every result at the place that the
number of results before it says. That each place is taken, once, needs that the ORDER BY is a
total order: `TextBefore` is one (`TextsOrdered`, by the first place where two texts differ), a
column orders up to ties, the link status and the resource break them (`ResultsPlaced`); and that
the columns are numbers, so the sums, minima and maxima of finite groups exist (`ScoresAdd`,
`Extremes`). `PlacesTaken` then counts: sets of predecessors are nested, so that their sizes are
the numbers from 0 on.

`QueriesTypeCorrect` is `[]QueriesTypeOK`: the keys of the tables, the quotes (what `FlattenSeq`
returns is shown for every sequence, `FlattenIs`), and that no page lists a resource twice,
since it is a part of the sorted list.

`WatcherAgreesWithQuery` is `[]WatcherAgrees` for all rows, all texts, all patterns and any pairs of
upper and lower case letters, with no hypothesis of its own: the premises are those of the property
(no date, no title, no backslash in a filter on types or urls, no empty type; and for the direction
from the query to the watcher, nothing in upper case and no star in a type). For each language
the places in a text are found from where the rest of the star pattern may begin: `IsRest` for a
regular expression and `FoldedRest`, which compares letters without their case, for LIKE
(`RegexMatches`, `LikeMatches`, over the places in the converted patterns). The second has no fewer
places than the first (`FoldedMatchesMore`), and the same ones where nothing is in upper case
(`FoldedIsRest`). The premises are needed. Section 3 shows it for letter
case, starred types and titles. A backslash before a star means a different text to the two languages: for
the pattern `\*` LIKE matches the text `*` and the regular expression the text `\*`. A resource
without a mime type has the empty type for the watcher, and no type for the clause.

Of the constants these proofs assume: a tag such as `:any` is not a text of a row
(`TagsAssumption`, `RowsAssumption`), terms have the types of `terms.h` (`TermsAssumption`), and a
folder's type is not empty (`QueriesAssumption`). TLC evaluates all of them in `queries`.

### Only model-checked

* `UsedMatchesReference`, `LinkedMatchesReference`: the reference folds over the rows of a table
  in the order of their keys and sorts with the library's `SortSeq`, whose definition the prover
  does not have. They could be theorems only for tables of at most `DefaultLimit` resources: a
  query without terms returns 50 rows, the reference all.
* All liveness properties: liveness under fairness and ENABLED are out of the prover's reach.

No module declares a RECURSIVE operator, so none is closed to proofs for that reason.

## 6. Not modelled

* Titles and mime types of listed rows and the two signals about them, roles and data of the
  model, `linkToActivity` (a D-Bus call whose effect is a link of the manager).
* Re-entrant delivery inside `ActivitiesSync::currentActivity` (`activitiessync_p.cpp` 32-49):
  it concerns the time until the service has answered once.
* The connection registry (`Database.cpp` 53-60, 133-199): weak pointers by thread id; the
  modules have one thread.
* A model that is destroyed while its thread looks for files (`resultmodel.cpp` 469-485): what
  the lambda then reads is undefined.
* The creation and deletion of models by a view inside a loop over `s_privates`, and what a view
  does inside a reset between the clearing and the loading of rows.
* The other clean-up calls, which the manager answers by announcements that `ResourceStore` has.
* Order comparisons and differences of iterators: pure, and listed as a hazard, since
  `end()` is a row before the first one. The second query, for the activities of a row.
* What a backslash in a pattern means is modelled, but no run has such a term, and no property is
  about it; the two languages differ there.
* The columns of the tables, the location of the database file.

## 7. Plan

Done, in this order: the row cache (most intricate, and what the rest relies on) and its proofs;
the model composed with store and watcher; the schema; the iterator; missing files and
forgetting; patterns, terms and queries; the shared orders and their proofs; the refinement of
the list by the cache; the invariants of the model, the iterators and the schema; what the lists
of a model show; what terms do to results; sorted results and star patterns.

Left open:

1. *DatabaseRegistry*: instances by thread id and mode, expiring weak pointers, reuse of ids.
   Property: a connection is used by the thread that opened it.
2. *ActivitiesSync*: the nested event loop around a running query.
3. Titles and mime types of rows, with their signals.
