----------------------------- MODULE MCQuickCheck -----------------------------
(***************************************************************************)
(* Rows and terms for TLC: two activities, two agents and the global one,  *)
(* and three resources: two urls differ in the case of a letter, and one   *)
(* has a character that is special in SQL.  The activity "p" and the agent *)
(* "kast" are current.                                                     *)
(***************************************************************************)
EXTENDS QuickCheck

MCAlphabet == <<"%", "'", "*", "/", "A", "\\", "_", "a", "d", "t">>
MCLowercase == "A" :> "a"

UrlA == <<"/", "a">>
UrlB == <<"/", "A">>
UrlOdd == <<"/", "_">>
Folder == <<"d">>
Plain == <<"t", "/", "a">>

Score(activity, agent, r, score, first, last) ==
    [activity |-> activity, agent |-> agent, resource |-> r, score |-> score,
     firstUpdate |-> first, lastUpdate |-> last]
Link(activity, agent, r) == [activity |-> activity, agent |-> agent, resource |-> r]
InfoRow(r, title, mimetype) == [resource |-> r, title |-> title, mimetype |-> mimetype]
Event(activity, agent, r, start) ==
    [activity |-> activity, agent |-> agent, resource |-> r, start |-> start]

MCScoreRows == {Score("p", "kast", UrlA, 2, 2, 9), Score("q", "kast", UrlA, 1, 0, 3),
                Score("p", "gvim", UrlA, 2, 2, 2), Score("p", "kast", UrlB, 3, 1, 3),
                Score("q", "gvim", UrlB, 2, 1, 4), Score("p", "kast", UrlOdd, 2, 1, 3)}
MCLinkRows == {Link("p", "kast", UrlA), Link("q", "kast", UrlA), Link("p", GlobalTag, UrlB)}
MCInfoRows == {InfoRow(UrlA, <<"t">>, Plain), InfoRow(UrlA, UrlB, Folder), InfoRow(UrlB, UrlA, <<>>)}
MCEventRows == {Event("p", "kast", UrlA, 20), Event("p", "kast", UrlA, 21), Event("p", "kast", UrlB, 10)}

AnyOne == {AnyTag}
MCTermsUsed ==
    {Agent(AnyOne), Agent({"gvim"}), ActivityTerm(AnyOne), ActivityTerm({"q"}),
     Type({FilesTag}), Type({DirectoriesTag}), Type({Plain}), Type({<<"t", Star>>}),
     StartsWith(<<"/", "_">>), ContainsInfix(<<"'", "a">>), Url({UrlB}), Title(<<"t">>),
     Day(10), Period(1, 10), CurrentWeek(10), PreviousWeek(10),
     Setting("ordering", "OrderByTitle"), Setting("limit", 1), Setting("offset", 1)}

MCReplacements == {Type(AnyOne), Agent(AnyOne), Url({UrlA})}

===============================================================================
