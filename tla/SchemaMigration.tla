---------------------------- MODULE SchemaMigration ----------------------------
(***************************************************************************)
(* initSchema: what brings the resources database to the current version.  *)
(* Its statements run one by one, each a transaction of its own, and the   *)
(* process can end between any two of them.  The next start reads the      *)
(* version that it left and decides by that what is still to do.           *)
(***************************************************************************)
EXTENDS Naturals, Sequences

CONSTANT MaxCrashes     \* bound on the runs that end early

ASSUME MigrationAssumption == MaxCrashes \in Nat

VARIABLES tables,   \* the tables there are: whether they hold rows, and which
                    \* fields are empty in some of their rows
          version,  \* the version in SchemaInfo
          running,  \* a process is inside initSchema
          todo,     \* the statements that it has not executed
          crashes,  \* how many runs ended early
          legacy    \* auxiliary: the old tables that held rows at first

migrationVars == <<tables, version, running, todo, crashes, legacy>>

\* Versions: before 2014.04.14 (or none), before 2015.02.09, and that one.
Ancient == 0
Older == 1
Current == 2

Field == {"usedActivity", "initiatingAgent"}
DataTables == {"ResourceEvent", "ResourceScoreCache", "ResourceLink"}
SchemaTables == DataTables \cup {"ResourceInfo", "SchemaInfo"}
OldTables == {"nuao_DesktopEvent", "kext_ResourceScoreCache"}

\* Mutant: the statement renames the table to a name that nothing else knows.
NewNameMistyped(t) == IF t = "nuao_DesktopEvent" THEN "ResourceEvents" ELSE "ResourceScoreCache"

NewName(t) == IF t = "nuao_DesktopEvent" THEN "ResourceEvent" ELSE "ResourceScoreCache"

Table == [rows : BOOLEAN, blank : SUBSET Field]
EmptyTable == [rows |-> FALSE, blank |-> {}]

-------------------------------------------------------------------------------
(***************************************************************************)
(* The statements, in the order of the code.                               *)
(***************************************************************************)
Rename(t) == [op |-> "rename", table |-> t]
Create(t) == [op |-> "create", table |-> t]
SetVersion == [op |-> "version"]
Fill(t, field) == [op |-> "fill", table |-> t, field |-> field]

RenameStatements == <<Rename("nuao_DesktopEvent"), Rename("kext_ResourceScoreCache")>>

SchemaStatements == <<Create("SchemaInfo"), SetVersion, Create("ResourceEvent"),
                      Create("ResourceScoreCache"), Create("ResourceLink"),
                      Create("ResourceInfo")>>

FillStatements == <<Fill("ResourceLink", "usedActivity"), Fill("ResourceLink", "initiatingAgent"),
                    Fill("ResourceEvent", "usedActivity"), Fill("ResourceEvent", "initiatingAgent"),
                    Fill("ResourceScoreCache", "usedActivity"),
                    Fill("ResourceScoreCache", "initiatingAgent")>>

\* Mutant: the tables are created before the old ones are renamed.
StatementsSchemaFirst(v) == SchemaStatements \o (IF v = Ancient THEN RenameStatements ELSE <<>>)
                                             \o FillStatements

\* Mutant: only an ancient database has empty fields.
StatementsFillAncient(v) == IF v = Ancient
                            THEN RenameStatements \o SchemaStatements \o FillStatements
                            ELSE SchemaStatements

Statements(v) == (IF v = Ancient THEN RenameStatements ELSE <<>>)
                     \o SchemaStatements \o FillStatements

With(t, contents) == [u \in DOMAIN tables \cup {t} |-> IF u = t THEN contents ELSE tables[u]]

Renamed(t, name) == [u \in (DOMAIN tables \ {t}) \cup {name} |->
                        IF u = name THEN tables[t] ELSE tables[u]]

\* The tables after a statement; one that fails leaves them alone, and initSchema
\* goes on with the next.
TablesAfter(s) ==
    CASE s.op = "rename" /\ s.table \in DOMAIN tables /\ NewName(s.table) \notin DOMAIN tables
             -> Renamed(s.table, NewName(s.table))
      [] s.op = "create" /\ s.table \notin DOMAIN tables
             -> With(s.table, EmptyTable)
      [] s.op = "fill" /\ s.table \in DOMAIN tables
             -> With(s.table, [tables[s.table] EXCEPT !.blank = @ \ {s.field}])
      [] OTHER
             -> tables

-------------------------------------------------------------------------------
(***************************************************************************)
(* The databases that a start can find: none, one with the old tables, one *)
(* of a version since then, which may lack the tables introduced later, or *)
(* an up-to-date one.                                                      *)
(***************************************************************************)
Found(v, T) == /\ version = v
               /\ tables \in [T -> Table]
               /\ \A t \in T : /\ tables[t].blank # {} => tables[t].rows
                               /\ t \notin DataTables \cup OldTables => tables[t] = EmptyTable

MigrationInit ==
    /\ \/ \E T \in SUBSET OldTables : Found(Ancient, T)
       \/ \E T \in SUBSET {"ResourceLink", "ResourceInfo"} :
             Found(Older, T \cup {"SchemaInfo", "ResourceEvent", "ResourceScoreCache"})
       \/ /\ Found(Current, SchemaTables)
          /\ \A t \in SchemaTables : tables[t].blank = {}
    /\ running = FALSE
    /\ todo = <<>>
    /\ crashes = 0
    /\ legacy = {t \in OldTables \cap DOMAIN tables : tables[t].rows}

\* The process reads the version, and bails out if it is the current one.
StartMigration ==
    /\ ~running
    /\ version # Current
    /\ running' = TRUE
    /\ todo' = Statements(version)
    /\ UNCHANGED <<tables, version, crashes, legacy>>

Execute ==
    /\ running
    /\ todo # <<>>
    /\ tables' = TablesAfter(Head(todo))
    /\ version' = IF Head(todo).op = "version" THEN Current ELSE version
    /\ todo' = Tail(todo)
    /\ UNCHANGED <<running, crashes, legacy>>

FinishMigration ==
    /\ running
    /\ todo = <<>>
    /\ running' = FALSE
    /\ UNCHANGED <<tables, version, todo, crashes, legacy>>

Crash ==
    /\ running
    /\ crashes < MaxCrashes
    /\ running' = FALSE
    /\ todo' = <<>>
    /\ crashes' = crashes + 1
    /\ UNCHANGED <<tables, version, legacy>>

MigrationNext == StartMigration \/ Execute \/ FinishMigration \/ Crash

MigrationSpec == MigrationInit /\ [][MigrationNext]_migrationVars

-------------------------------------------------------------------------------
(***************************************************************************)
(* Properties.                                                             *)
(***************************************************************************)

\* The tables that a version allows, and nothing to do outside initSchema.
MigrationTypeOK == /\ DOMAIN tables \subseteq SchemaTables \cup OldTables
                   /\ \A t \in DOMAIN tables : tables[t] \in Table
                   /\ version \in Ancient .. Current
                   /\ running \in BOOLEAN
                   /\ ~running => todo = <<>>
                   /\ crashes \in 0 .. MaxCrashes

\* Once the database calls itself up to date, the rows of the old tables are found
\* under the new names: no crash makes a restart create an empty table in their
\* place.
OldRowsMoved == version = Current =>
                    \A t \in legacy : NewName(t) \in DOMAIN tables /\ tables[NewName(t)].rows

Complete == /\ SchemaTables \subseteq DOMAIN tables
            /\ \A t \in DataTables : tables[t].blank = {}

\* A run that was not cut short leaves every table and no empty field.
RunCompletes == version = Current /\ ~running /\ crashes = 0 => Complete

\* A database that the next start takes for up to date has every table, and no
\* field is empty where at least a magic value has to be.
UpToDateMeansComplete == version = Current /\ ~running => Complete

===============================================================================
