----------------------------- MODULE ResourceStore -----------------------------
(***************************************************************************)
(* What a result model observes of the rest of the system: the resources   *)
(* database, read through ResultSet's queries, and the activity manager,   *)
(* which writes the database and then announces the change on the bus.     *)
(*                                                                         *)
(* The activity manager is a separate program.  Its side is taken from how *)
(* the library uses it: the tables the queries read, the signals the       *)
(* watcher connects to, and the order "write, then announce".  All agents  *)
(* are one agent, and every resource passes the url and type filters.      *)
(***************************************************************************)
EXTENDS Integers, Sequences, FiniteSets, FiniteSetsExt

CONSTANTS Activity,     \* the activities
          Resource,     \* the resources: numbers, ordered like their urls
          Any,          \* the tag ":any"
          CurrentTag,      \* the tag ":current"
          MaxScore,     \* scores are 1 .. MaxScore, 0 stands for "no row"
          Usable,       \* the pairs <<activity, resource>> that get used
          Linkable,     \* the pairs that get linked
          Uses          \* the uses that happen: none, those that raise a score, any that
                        \* leave the scores of an activity different, or all ("tied")

ASSUME StoreAssumption == /\ Resource \subseteq Nat /\ IsFiniteSet(Resource)
                          /\ IsFiniteSet(Activity)
                          /\ {Any, CurrentTag} \cap Activity = {}
                          /\ Any # CurrentTag
                          /\ MaxScore \in Nat
                          /\ Usable \subseteq Activity \X Resource
                          /\ Linkable \subseteq Activity \X Resource
                          /\ Uses \in {"none", "rising", "any", "tied"}

VARIABLES stats,      \* ResourceScoreCache: the score of a resource in an activity
          links,      \* ResourceLink: the resources linked to an activity
          activity,   \* the activity manager's current activity
          bus         \* announcements the library has not processed, oldest first

storeVars == <<stats, links, activity>>

Score == 0 .. MaxScore

Signal ==
    [kind : {"ResourceScoreUpdated"}, activity : Activity, resource : Resource, score : Score]
    \cup [kind : {"ResourceScoreDeleted"}, activity : Activity \cup {Any, CurrentTag}, resource : Resource]
    \cup [kind : {"PatternDeleted"}, activity : Activity \cup {Any}]
    \cup [kind : {"StatsDeleted"}]
    \cup [kind : {"ResourceLinked", "ResourceUnlinked"}, activity : Activity, resource : Resource]
    \cup [kind : {"CurrentActivityChanged"}, activity : Activity]

StoreTypeOK == /\ stats \in [Activity -> [Resource -> Score]]
               /\ links \in [Activity -> SUBSET Resource]
               /\ activity \in Activity
               /\ bus \in Seq(Signal)

-------------------------------------------------------------------------------
(***************************************************************************)
(* The activity manager.  Scores are decaying sums over the time of use:   *)
(* a use after a long pause may leave less than there was, and nothing     *)
(* keeps two scores apart.                                                 *)
(***************************************************************************)
Announce(signal) == bus' = Append(bus, signal)

Use(a, r, score) ==
    /\ <<a, r>> \in Usable
    /\ score > 0
    /\ Uses # "none"
    /\ score # stats[a][r]
    /\ Uses \in {"any", "tied"} \/ score > stats[a][r]
    /\ Uses = "tied" \/ \A q \in Resource : stats[a][q] # score
    /\ stats' = [stats EXCEPT ![a][r] = score]
    /\ Announce([kind |-> "ResourceScoreUpdated", activity |-> a, resource |-> r, score |-> score])
    /\ UNCHANGED <<links, activity>>

\* The scores after the rows of the resources R in activity a, or in every
\* activity, were deleted.
Deleted(a, R) == [b \in Activity |-> [r \in Resource |->
                     IF (a = Any \/ a = b) /\ r \in R THEN 0 ELSE stats[b][r]]]

DeleteStatsForResource(a, r) ==
    /\ stats' = Deleted(a, {r})
    /\ stats' # stats
    /\ Announce([kind |-> "ResourceScoreDeleted", activity |-> a, resource |-> r])
    /\ UNCHANGED <<links, activity>>

\* The same as the library asks for it: the tag stays in the announcement, which
\* is made whether or not there was a row.
ForgetResource(tag, r) ==
    /\ stats' = Deleted(IF tag = CurrentTag THEN activity ELSE tag, {r})
    /\ Announce([kind |-> "ResourceScoreDeleted", activity |-> tag, resource |-> r])
    /\ UNCHANGED <<links, activity>>

\* The same for a resource pattern with a star, which matches the resources R.
DeleteStatsForPattern(a, R) ==
    /\ stats' = Deleted(a, R)
    /\ stats' # stats
    /\ Announce([kind |-> "PatternDeleted", activity |-> a])
    /\ UNCHANGED <<links, activity>>

\* DeleteRecentStats and DeleteEarlierStats: the rows of a period, here R.
DeletePeriod(a, R) ==
    /\ stats' = Deleted(a, R)
    /\ stats' # stats
    /\ Announce([kind |-> "StatsDeleted"])
    /\ UNCHANGED <<links, activity>>

LinkResource(a, r) ==
    /\ <<a, r>> \in Linkable
    /\ r \notin links[a]
    /\ links' = [links EXCEPT ![a] = @ \cup {r}]
    /\ Announce([kind |-> "ResourceLinked", activity |-> a, resource |-> r])
    /\ UNCHANGED <<stats, activity>>

UnlinkResource(a, r) ==
    /\ r \in links[a]
    /\ links' = [links EXCEPT ![a] = @ \ {r}]
    /\ Announce([kind |-> "ResourceUnlinked", activity |-> a, resource |-> r])
    /\ UNCHANGED <<stats, activity>>

SwitchActivity(a) ==
    /\ a # activity
    /\ activity' = a
    /\ Announce([kind |-> "CurrentActivityChanged", activity |-> a])
    /\ UNCHANGED <<stats, links>>

Manager ==
    \/ \E a \in Activity, r \in Resource, score \in Score : Use(a, r, score)
    \/ \E a \in Activity \cup {Any}, r \in Resource : DeleteStatsForResource(a, r)
    \/ \E a \in Activity \cup {Any}, R \in SUBSET Resource : DeleteStatsForPattern(a, R)
    \/ \E a \in Activity, R \in SUBSET Resource : DeletePeriod(a, R)
    \/ \E a \in Activity, r \in Resource : LinkResource(a, r)
    \/ \E a \in Activity, r \in Resource : UnlinkResource(a, r)
    \/ \E a \in Activity : SwitchActivity(a)

-------------------------------------------------------------------------------
(***************************************************************************)
(* ResultSet: the rows a query returns.                                    *)
(***************************************************************************)
NotLinked == 0
Unknown == 1
Linked == 2
LinkStatus == {NotLinked, Unknown, Linked}

\* SUM(cachedScore) over the activities A.
TotalScore(A, r) == MapThenSumSet(LAMBDA a : stats[a][r], A)

UsedIn(A) == {r \in Resource : \E a \in A : stats[a][r] > 0}
LinkedTo(A) == {r \in Resource : \E a \in A : r \in links[a]}
LinkedAmong(A, r) == {a \in A : r \in links[a]}

LinkedRows(A) == {[resource |-> r, data |-> [score |-> TotalScore(LinkedAmong(A, r), r), link |-> Linked]] :
                     r \in LinkedTo(A)}
UsedRows(A, R, status) == {[resource |-> r, data |-> [score |-> TotalScore(A, r), link |-> status]] :
                              r \in UsedIn(A) \cap R}

AllRows(A) == LinkedRows(A) \cup UsedRows(A, Resource \ LinkedTo(A), NotLinked)

\* The result of the selection's query for the activities A, as a set.
QueryRows(selection, A) ==
    CASE selection = "LinkedResources" -> LinkedRows(A)
      [] selection = "UsedResources"   -> UsedRows(A, Resource, Unknown)
      [] selection = "AllResources"    -> AllRows(A)

\* ORDER BY linkStatus DESC, score DESC, resource ASC, or without the score.
SqlBefore(ordering, x, y) ==
    \/ x.data.link > y.data.link
    \/ /\ x.data.link = y.data.link
       /\ \/ ordering = "HighScoredFirst" /\ x.data.score > y.data.score
          \/ /\ ordering = "HighScoredFirst" => x.data.score = y.data.score
             /\ x.resource < y.resource

\* LIMIT and OFFSET: at most "limit" rows, those after the first "offset" ones.
LimitOffset(result, limit, offset) ==
    SubSeq(result, offset + 1, Min({offset + limit, Len(result)}))

\* The lists of all elements of the finite set S in the order Before.
Sortings(S, Before(_, _)) ==
    {f \in [1 .. Cardinality(S) -> S] : \A i, j \in DOMAIN f : i < j => Before(f[i], f[j])}

===============================================================================
