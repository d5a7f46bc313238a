-------------------------- MODULE MCResultSetIterator --------------------------
(***************************************************************************)
(* Instance for TLC: up to three rows, two iterators beside the one that   *)
(* walks, moved up to two rows out of the set.                             *)
(***************************************************************************)
EXTENDS ResultSetIterator

CONSTANTS walker, other, third, r1, r2, r3, nothing

MCIterator == {walker, other, third}
MCResult == {r1, r2, r3}
MCMaxRows == 3
MCReach == 2

===============================================================================
