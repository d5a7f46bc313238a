----------------------------- MODULE MCSharedOrder -----------------------------
(***************************************************************************)
(* Three models of one program: two that follow the current activity under *)
(* one client id, and one for all activities under the same id.            *)
(***************************************************************************)
EXTENDS SharedOrder, TLC

CONSTANTS m1, m2, m3, client, r1

TheClients == (m1 :> client @@ m2 :> client @@ m3 :> client)

Same == Permutations(Activity) \cup Permutations(Follows)

Followers == {m1, m2}

Changing == {r1}

===============================================================================
