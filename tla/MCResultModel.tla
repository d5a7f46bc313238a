----------------------------- MODULE MCResultModel -----------------------------
(***************************************************************************)
(* Instances for TLC: two activities, and two or three resources of which  *)
(* most are used and linked in the first activity.                         *)
(***************************************************************************)
EXTENDS ResultModel

MCActivity == {"p", "q"}
MCAny == ":any"
MCCurrentTag == ":current"
TwoResources == {1, 2}
ThreeResources == {1, 2, 3}

\* Pairs that are usable or linkable.
Nothing == {}
One == {<<"p", 1>>}
Two == {<<"p", 1>>, <<"p", 2>>}
Three == Two \cup {<<"p", 3>>}
ThreeAndOne == Three \cup {<<"q", 1>>}

\* A file that is missing.
Second == {2}

\* Queries.
QueryFor(selection, activities, ordering, client, limit, batch) ==
    [selection |-> selection, activities |-> activities, ordering |-> ordering, client |-> client,
     limit |-> limit, batch |-> batch]

UsedByScore(activities, limit, batch) ==
    QueryFor("UsedResources", activities, "HighScoredFirst", FALSE, limit, batch)
UsedByUrl(limit, batch) == QueryFor("UsedResources", "current", "OrderByUrl", FALSE, limit, batch)
AllByScore(client, limit) ==
    QueryFor("AllResources", "current", "HighScoredFirst", client, limit, limit)

\* Read at once, and in three pages.
OnceAndPaged == {UsedByScore("current", 2, 2), UsedByScore("current", 3, 1), UsedByUrl(3, 1)}
LinkedCurrent == {QueryFor("LinkedResources", "current", "HighScoredFirst", c, 3, 3) : c \in BOOLEAN}
UsedAnyAllCurrent == {UsedByScore("any", 1, 1), AllByScore(FALSE, 2)}
UsedThree == {UsedByScore("current", 3, 3)}
AllTwo == {AllByScore(FALSE, 2)}

===============================================================================
