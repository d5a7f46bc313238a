----------------------------- MODULE ResultWatcher -----------------------------
(***************************************************************************)
(* The watcher of a query: which announcements of the activity manager it  *)
(* passes on to the model, and the single-shot timer that gathers the      *)
(* announcements after which the whole result has to be read again.        *)
(***************************************************************************)
EXTENDS ResourceStore

CONSTANT Queries    \* the query definitions looked at

VARIABLES query,    \* the query: its selection, activities, ordering and limit,
                    \* whether the model was given a client id, and the size of
                    \* a batch, s_defaultCacheSize
          current,  \* the current activity as known to the library
          timer     \* m_resultInvalidationTimer.isActive()

Query == [selection : {"UsedResources", "LinkedResources", "AllResources"},
          activities : {"current", "any"},
          ordering : {"HighScoredFirst", "OrderByUrl"},
          client : BOOLEAN,
          limit : Nat \ {0},
          batch : Nat \ {0}]

ASSUME QueriesAssumption == Queries \subseteq Query

WatcherTypeOK == /\ query \in Queries
                 /\ current \in Activity
                 /\ timer \in BOOLEAN

\* The activities whose rows the query selects when "cur" is the current one.
QueriedActivities(cur) == IF query.activities = "any" THEN Activity ELSE {cur}

ActivityMatches(a) == \/ a = Any
                      \/ query.activities = "any"
                      \/ a \in {current, CurrentTag}

-------------------------------------------------------------------------------
(***************************************************************************)
(* For each signal of the watcher, whether it is sent for announcement m.  *)
(***************************************************************************)
SendsResultLinked(m) == /\ m.kind = "ResourceLinked"
                        /\ query.selection # "UsedResources"
                        /\ ActivityMatches(m.activity)

SendsResultUnlinked(m) == /\ m.kind = "ResourceUnlinked"
                          /\ query.selection # "UsedResources"
                          /\ ActivityMatches(m.activity)

SendsResultScoreUpdated(m) == /\ m.kind = "ResourceScoreUpdated"
                              /\ query.selection # "LinkedResources"
                              /\ ActivityMatches(m.activity)

SendsResultRemoved(m) == /\ m.kind = "ResourceScoreDeleted"
                         /\ query.selection # "LinkedResources"
                         /\ ActivityMatches(m.activity)
                         /\ ~timer

\* Mutant: the deletion of a period is not heard.
SchedulesNoPeriod(m) == /\ query.selection # "LinkedResources"
                        /\ m.kind = "PatternDeleted" /\ ActivityMatches(m.activity)

\* Not a signal: whether m starts the invalidation timer, anew if it runs.
SchedulesInvalidation(m) == /\ query.selection # "LinkedResources"
                            /\ \/ m.kind = "StatsDeleted"
                               \/ m.kind = "PatternDeleted" /\ ActivityMatches(m.activity)

\* Announcements that the watcher drops.
Drops(m) == /\ m.kind # "CurrentActivityChanged"
            /\ ~SendsResultLinked(m)
            /\ ~SendsResultUnlinked(m)
            /\ ~SendsResultScoreUpdated(m)
            /\ ~SendsResultRemoved(m)
            /\ ~SchedulesInvalidation(m)

===============================================================================
