--------------------------- MODULE MCSchemaMigration ---------------------------
(***************************************************************************)
(* Instance for TLC: a migration that is cut short up to twice.            *)
(***************************************************************************)
EXTENDS SchemaMigration

MCMaxCrashes == 2

===============================================================================
