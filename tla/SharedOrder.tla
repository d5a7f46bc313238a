------------------------------ MODULE SharedOrder ------------------------------
(***************************************************************************)
(* The result models of one program that remember the user's order under a *)
(* client id.  All of them are in s_privates and share the saved orders:   *)
(* one order for each client and activity tag.  A request to reposition a  *)
(* row saves the order and then resets the other models of the client, one *)
(* after the other; the views of a model that is reset may place further   *)
(* requests before the loop goes on.  A change of the current activity     *)
(* reaches the models one by one as well.                                  *)
(*                                                                         *)
(* The models list linked resources.  The order of the rows that the user  *)
(* has not placed is the query's, which is left open here.                 *)
(***************************************************************************)
EXTENDS ResultRows

CONSTANTS Model, Resource, Activity,
          ClientOf,     \* the client id that each model is constructed with
          NoClient,     \* the empty client id
          Follows,      \* the models whose query is for the current activity
          All,          \* the tag of the other models' orders
          Loose,        \* the resources that get linked and unlinked; the others stay linked
          Unsaved,      \* what a tag without an order has
          MaxNested,    \* bound on the requests placed inside other requests
          MaxWaiting    \* bound on the announcements that wait for a model

ASSUME SharedAssumption == /\ IsFiniteSet(Resource)
                           /\ Follows \subseteq Model
                           /\ Loose \subseteq Resource
                           /\ All \notin Activity
                           /\ Unsaved \notin Seq(Resource)
                           /\ MaxNested \in Nat
                           /\ MaxWaiting \in Nat

VARIABLES alive,        \* s_privates
          current,      \* the current activity
          told,         \* the models that have heard of the current activity
          links,        \* the linked resources in the database, with their activities
          waiting,      \* the announcements that have not reached each model yet
          rows,         \* the resources that each model lists
          fixed,        \* m_fixedOrderedItems of each model
          tag,          \* the activity tag of its m_orderingConfig
          saved,        \* the orders in kactivitymanagerd-statsrc
          notifying     \* the loops over s_privates that have not ended, innermost first

vars == <<alive, current, told, links, waiting, rows, fixed, tag, saved, notifying>>

Clients == {ClientOf[m] : m \in Model} \ {NoClient}
Tags == Activity \cup {All}
Orders == Seq(Resource)

ActivityTag(m) == IF m \in Follows THEN current ELSE All

Saved(m) == saved[ClientOf[m]][ActivityTag(m)]

-------------------------------------------------------------------------------
\* The rows that a query with the user's order can return: every placement of the
\* rows that the user has not placed is allowed, one is the query's.
Arrangements(set, order) ==
    {list \in [1 .. Cardinality(set) -> set] : Listed(list) = set /\ IsArranged(list, order)}

Matching(m) == {r \in Resource : \E a \in IF m \in Follows THEN {current} ELSE Activity :
                                    <<r, a>> \in links}

-------------------------------------------------------------------------------
(***************************************************************************)
(* fetch(FetchReset): the order saved for the tag is used; a tag without   *)
(* one gets the order that the model has used so far.                      *)
(***************************************************************************)
\* Mutant: the order used so far is saved whether there is one or not.
LoadOrderingConfigOver(m, order) ==
    /\ tag' = [tag EXCEPT ![m] = ActivityTag(m)]
    /\ fixed' = [fixed EXCEPT ![m] = order]
    /\ IF ClientOf[m] = NoClient THEN UNCHANGED saved
       ELSE saved' = [saved EXCEPT ![ClientOf[m]][ActivityTag(m)] = order]

LoadOrderingConfig(m, order) ==
    /\ tag' = [tag EXCEPT ![m] = ActivityTag(m)]
    /\ \/ /\ ClientOf[m] = NoClient
          /\ fixed' = [fixed EXCEPT ![m] = order]
          /\ UNCHANGED saved
       \/ /\ ClientOf[m] # NoClient /\ Saved(m) # Unsaved
          /\ fixed' = [fixed EXCEPT ![m] = Saved(m)]
          /\ UNCHANGED saved
       \/ /\ ClientOf[m] # NoClient /\ Saved(m) = Unsaved
          /\ fixed' = [fixed EXCEPT ![m] = order]
          /\ saved' = [saved EXCEPT ![ClientOf[m]][ActivityTag(m)] = order]

FetchReset(m, order) ==
    /\ LoadOrderingConfig(m, order)
    /\ \E list \in Arrangements(Matching(m), fixed'[m]) : rows' = [rows EXCEPT ![m] = list]

(***************************************************************************)
(* The models' lives.  A model is in s_privates before it reads its rows.  *)
(* Models come and go only outside the loops over s_privates: inside one,  *)
(* the loop's iterators would be left behind.                              *)
(***************************************************************************)
Construct(m) ==
    /\ m \notin alive /\ notifying = <<>>
    /\ alive' = alive \cup {m}
    /\ told' = told \cup {m}
    /\ FetchReset(m, <<>>)
    /\ UNCHANGED <<current, links, waiting, notifying>>

\* Mutant: a view deletes a model inside a loop.
DestroyInside(m) ==
    /\ m \in alive
    /\ alive' = alive \ {m}
    /\ waiting' = [waiting EXCEPT ![m] = <<>>]
    /\ rows' = [rows EXCEPT ![m] = <<>>]
    /\ fixed' = [fixed EXCEPT ![m] = <<>>]
    /\ told' = told \cup {m}
    /\ UNCHANGED <<current, links, tag, saved, notifying>>

Destroy(m) ==
    /\ m \in alive /\ notifying = <<>>
    /\ alive' = alive \ {m}
    /\ waiting' = [waiting EXCEPT ![m] = <<>>]
    /\ rows' = [rows EXCEPT ![m] = <<>>]
    /\ fixed' = [fixed EXCEPT ![m] = <<>>]
    /\ told' = told \cup {m}
    /\ UNCHANGED <<current, links, tag, saved, notifying>>

-------------------------------------------------------------------------------
(***************************************************************************)
(* setLinkedResultPosition: the new order is used and saved, then the loop *)
(* over the other models of the client begins.                             *)
(***************************************************************************)
\* Mutant: the order goes under the tag of the current activity.
SaveUnderCurrentTag(m, order) ==
    /\ fixed' = [fixed EXCEPT ![m] = order]
    /\ saved' = [saved EXCEPT ![ClientOf[m]][ActivityTag(m)] = order]
    /\ notifying' = <<{n \in alive \ {m} : ClientOf[n] = ClientOf[m]}>> \o notifying
    /\ UNCHANGED <<alive, current, told, links, waiting, tag>>

SaveOrder(m, order) ==
    /\ fixed' = [fixed EXCEPT ![m] = order]
    /\ saved' = [saved EXCEPT ![ClientOf[m]][tag[m]] = order]
    /\ notifying' = <<{n \in alive \ {m} : ClientOf[n] = ClientOf[m]}>> \o notifying
    /\ UNCHANGED <<alive, current, told, links, waiting, tag>>

Requests(m) == m \in alive /\ ClientOf[m] # NoClient /\ Len(notifying) <= MaxNested

\* The row of r is moved to its place in the new order.
MoveResult(m, r, position) ==
    /\ Requests(m)
    /\ position < Len(rows[m])
    /\ \E p \in DOMAIN rows[m] :
          /\ rows[m][p] = r
          /\ p - 1 # position
          /\ LET order == MoveOne(rows[m], p - 1, position)
             IN /\ SaveOrder(m, order)
                /\ \E q \in Destinations(rows[m], r, order) :
                      rows' = [rows EXCEPT ![m] = MoveOne(rows[m], p - 1, q)]

\* A resource that is not listed gets its place before it is linked.
PlaceResult(m, r, position) ==
    /\ Requests(m)
    /\ r \notin Listed(rows[m])
    /\ position <= Len(rows[m])
    /\ SaveOrder(m, RowsInserted(rows[m], position, <<r>>))
    /\ UNCHANGED rows

\* One round of the loop.
NotifyOther(m) ==
    /\ notifying # <<>>
    /\ m \in Head(notifying)
    /\ notifying' = <<Head(notifying) \ {m}>> \o Tail(notifying)
    /\ FetchReset(m, fixed[m])
    /\ UNCHANGED <<alive, current, told, links, waiting>>

EndNotifying ==
    /\ notifying # <<>>
    /\ Head(notifying) = {}
    /\ notifying' = Tail(notifying)
    /\ UNCHANGED <<alive, current, told, links, waiting, rows, fixed, tag, saved>>

-------------------------------------------------------------------------------
(***************************************************************************)
(* The activity service changes the current activity; the models that      *)
(* follow it are told one by one, outside the loops over s_privates.       *)
(***************************************************************************)
SwitchActivity(a) ==
    /\ a # current
    /\ alive \subseteq told /\ notifying = <<>>
    /\ current' = a
    /\ told' = Model \ (alive \cap Follows)
    /\ UNCHANGED <<alive, links, waiting, rows, fixed, tag, saved, notifying>>

OnCurrentActivityChanged(m) ==
    /\ m \in alive \ told /\ notifying = <<>>
    /\ told' = told \cup {m}
    /\ FetchReset(m, fixed[m])
    /\ UNCHANGED <<alive, current, links, waiting, notifying>>

(***************************************************************************)
(* The activity manager links or unlinks a resource and announces it to    *)
(* every model.                                                            *)
(***************************************************************************)
Announce(kind, r, a) ==
    /\ \A m \in alive : Len(waiting[m]) < MaxWaiting
    /\ waiting' = [m \in Model |-> IF m \in alive
                                   THEN Append(waiting[m], [kind |-> kind, resource |-> r, activity |-> a])
                                   ELSE waiting[m]]
    /\ UNCHANGED <<alive, current, told, rows, fixed, tag, saved, notifying>>

LinkResourceToActivity(r, a) ==
    /\ <<r, a>> \notin links
    /\ links' = links \cup {<<r, a>>}
    /\ Announce("linked", r, a)

UnlinkResourceFromActivity(r, a) ==
    /\ <<r, a>> \in links
    /\ links' = links \ {<<r, a>>}
    /\ Announce("unlinked", r, a)

Receive(m) ==
    /\ m \in alive /\ notifying = <<>> /\ alive \subseteq told
    /\ waiting[m] # <<>>
    /\ waiting' = [waiting EXCEPT ![m] = Tail(waiting[m])]
    /\ UNCHANGED <<alive, current, told, links, fixed, tag, saved, notifying>>

ActivityMatches(m) == m \in Follows => Head(waiting[m]).activity = current

\* Mutant: a new row is added behind the others.
OnResultLinkedLast(m) ==
    /\ Receive(m)
    /\ ActivityMatches(m) /\ Head(waiting[m]).kind = "linked"
    /\ LET r == Head(waiting[m]).resource
       IN /\ r \notin Listed(rows[m])
          /\ rows' = [rows EXCEPT ![m] = Append(rows[m], r)]

\* A row that is listed already is repositioned.
OnResultLinked(m) ==
    /\ Receive(m)
    /\ ActivityMatches(m) /\ Head(waiting[m]).kind = "linked"
    /\ LET r == Head(waiting[m]).resource
       IN \E q \in Destinations(rows[m], r, fixed[m]) :
             \/ /\ r \notin Listed(rows[m])
                /\ rows' = [rows EXCEPT ![m] = RowsInserted(rows[m], q, <<r>>)]
             \/ \E p \in DOMAIN rows[m] :
                   /\ rows[m][p] = r
                   /\ rows' = [rows EXCEPT ![m] = MoveOne(rows[m], p - 1, q)]

OnResultUnlinked(m) ==
    /\ Receive(m)
    /\ ActivityMatches(m) /\ Head(waiting[m]).kind = "unlinked"
    /\ LET r == Head(waiting[m]).resource
       IN \/ r \notin Listed(rows[m]) /\ UNCHANGED rows
          \/ \E p \in DOMAIN rows[m] :
                /\ rows[m][p] = r
                /\ rows' = [rows EXCEPT ![m] = RowsRemoved(rows[m], p - 1, p - 1)]

OnDropped(m) ==
    /\ Receive(m)
    /\ ~ActivityMatches(m)
    /\ UNCHANGED rows

-------------------------------------------------------------------------------
Init ==
    /\ alive = {}
    /\ current \in Activity
    /\ told = Model
    /\ links = (Resource \ Loose) \X Activity
    /\ waiting = [m \in Model |-> <<>>]
    /\ rows = [m \in Model |-> <<>>]
    /\ fixed = [m \in Model |-> <<>>]
    /\ tag = [m \in Model |-> All]
    /\ saved = [c \in Clients |-> [t \in Tags |-> Unsaved]]
    /\ notifying = <<>>

UserStep == \E m \in Model, r \in Resource, position \in 0 .. Cardinality(Resource) :
                MoveResult(m, r, position) \/ PlaceResult(m, r, position)

ModelStep == \E m \in Model : \/ Construct(m)
                              \/ Destroy(m)
                              \/ NotifyOther(m)
                              \/ OnCurrentActivityChanged(m)
                              \/ OnResultLinked(m)
                              \/ OnResultUnlinked(m)
                              \/ OnDropped(m)

ServiceStep == \/ \E a \in Activity : SwitchActivity(a)
               \/ \E r \in Loose, a \in Activity : \/ LinkResourceToActivity(r, a)
                                                   \/ UnlinkResourceFromActivity(r, a)

Next == UserStep \/ ModelStep \/ EndNotifying \/ ServiceStep

Spec == Init /\ [][Next]_vars

-------------------------------------------------------------------------------
Announcement == [kind : {"linked", "unlinked"}, resource : Resource, activity : Activity]

\* The types of the variables; a model that is not in s_privates keeps nothing.
SharedTypeOK ==
    /\ alive \subseteq Model
    /\ current \in Activity
    /\ told \subseteq Model
    /\ links \subseteq Resource \X Activity
    /\ waiting \in [Model -> Seq(Announcement)]
    /\ rows \in [Model -> Orders]
    /\ fixed \in [Model -> Orders]
    /\ tag \in [Model -> Tags]
    /\ saved \in [Clients -> [Tags -> Orders \cup {Unsaved}]]
    /\ notifying \in Seq(SUBSET alive)

Pending(m) == \E k \in DOMAIN notifying : m \in notifying[k]

\* Every model that remembers its order uses the one that is saved for its tag,
\* unless a loop over s_privates has still to reset it: whatever the requests
\* placed inside other requests, none leaves a model with an order of its own.
OrderIsSaved ==
    \A m \in alive : ClientOf[m] # NoClient /\ ~Pending(m) =>
                         fixed[m] = saved[ClientOf[m]][tag[m]]

\* Two models of one client at the same tag show the rows that the user placed in
\* the same order, once the loops have ended, whether a row came by a reset, by an
\* announcement or was moved by hand.
SameArrangement ==
    \A m, n \in alive :
        /\ ClientOf[m] = ClientOf[n] /\ ClientOf[m] # NoClient
        /\ tag[m] = tag[n]
        /\ notifying = <<>>
        => IsArranged(rows[n], fixed[m])

\* A saved order is replaced by the user's requests only: neither a new model nor
\* a visit to another activity overwrites it.
OrdersAreKept ==
    [][\A c \in Clients, t \in Tags :
          saved[c][t] # Unsaved /\ saved'[c][t] # saved[c][t] => UserStep]_vars

===============================================================================
