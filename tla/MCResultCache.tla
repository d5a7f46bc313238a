----------------------------- MODULE MCResultCache -----------------------------
(***************************************************************************)
(* Instance for TLC: three resources with two versions of their data.      *)
(***************************************************************************)
EXTENDS ResultCache

MCResource == {"a", "b", "c"}
MCData == {0, 1}
MCLimit == 3

===============================================================================
