------------------------- MODULE SchemaMigrationProofs -------------------------
(***************************************************************************)
(* What initSchema keeps and completes, for any number of runs that end    *)
(* early.                                                                  *)
(***************************************************************************)
EXTENDS SchemaMigration, Integers, TLAPS

(***************************************************************************)
(* All statements, and how many of them are behind a running process.  A   *)
(* run that finds the older version starts behind the renames.             *)
(***************************************************************************)
AllStatements == <<Rename("nuao_DesktopEvent"), Rename("kext_ResourceScoreCache"),
                   Create("SchemaInfo"), SetVersion, Create("ResourceEvent"),
                   Create("ResourceScoreCache"), Create("ResourceLink"), Create("ResourceInfo"),
                   Fill("ResourceLink", "usedActivity"), Fill("ResourceLink", "initiatingAgent"),
                   Fill("ResourceEvent", "usedActivity"), Fill("ResourceEvent", "initiatingAgent"),
                   Fill("ResourceScoreCache", "usedActivity"),
                   Fill("ResourceScoreCache", "initiatingAgent")>>

Statement == {Rename(t) : t \in OldTables} \cup {Create(t) : t \in SchemaTables} \cup {SetVersion}
                \cup {Fill(t, f) : t \in DataTables, f \in Field}

Done == 14 - Len(todo)

(***************************************************************************)
(* The parts of the inductive invariant.  A run is somewhere in the list   *)
(* of statements, and the version tells on which side of SetVersion.       *)
(***************************************************************************)
InPlace ==
    running => /\ todo \in Seq(Statement)
               /\ Len(todo) <= 14
               /\ \A k \in 1 .. Len(todo) : todo[k] = AllStatements[Done + k]
               /\ version = Current <=> Done >= 4
               /\ version = Older => Done >= 2

\* The rows of an old table: under the new name, or still under the old one with
\* nothing in the way.
Moved(t) == NewName(t) \in DOMAIN tables /\ tables[NewName(t)].rows

Waiting(t) == t \in DOMAIN tables /\ tables[t].rows /\ NewName(t) \notin DOMAIN tables

Turn(t) == IF t = "nuao_DesktopEvent" THEN 1 ELSE 2

LegacyRows ==
    /\ legacy \subseteq OldTables
    /\ version = Older => legacy = {}
    /\ \A t \in legacy : /\ Moved(t) \/ Waiting(t)
                         /\ version = Current => Moved(t)
                         /\ running /\ Done >= Turn(t) => Moved(t)

\* What the executed statements have achieved.
Created ==
    running => \A k \in 1 .. Done : AllStatements[k].op = "create"
                                        => AllStatements[k].table \in DOMAIN tables

Filled ==
    running => \A k \in 1 .. Done : AllStatements[k].op = "fill"
                   => AllStatements[k].field \notin tables[AllStatements[k].table].blank

IInv == MigrationTypeOK /\ InPlace /\ LegacyRows /\ Created /\ Filled /\ RunCompletes

-------------------------------------------------------------------------------
(***************************************************************************)
(* The statements.                                                         *)
(***************************************************************************)
\* The fourteen statements, one by one.
LEMMA TheStatements ==
    /\ AllStatements \in Seq(Statement)
    /\ Len(AllStatements) = 14
    /\ AllStatements[1] = Rename("nuao_DesktopEvent")
    /\ AllStatements[2] = Rename("kext_ResourceScoreCache")
    /\ AllStatements[3] = Create("SchemaInfo")
    /\ AllStatements[4] = SetVersion
    /\ AllStatements[5] = Create("ResourceEvent")
    /\ AllStatements[6] = Create("ResourceScoreCache")
    /\ AllStatements[7] = Create("ResourceLink")
    /\ AllStatements[8] = Create("ResourceInfo")
    /\ AllStatements[9] = Fill("ResourceLink", "usedActivity")
    /\ AllStatements[10] = Fill("ResourceLink", "initiatingAgent")
    /\ AllStatements[11] = Fill("ResourceEvent", "usedActivity")
    /\ AllStatements[12] = Fill("ResourceEvent", "initiatingAgent")
    /\ AllStatements[13] = Fill("ResourceScoreCache", "usedActivity")
    /\ AllStatements[14] = Fill("ResourceScoreCache", "initiatingAgent")
<1>1. /\ Rename("nuao_DesktopEvent") \in Statement
      /\ Rename("kext_ResourceScoreCache") \in Statement
  BY DEF Statement, OldTables
<1>2. \A t \in SchemaTables : Create(t) \in Statement
  BY DEF Statement
<1>3. \A t \in DataTables, f \in Field : Fill(t, f) \in Statement
  BY DEF Statement
<1>4. SetVersion \in Statement
  BY DEF Statement
<1>5. DataTables \subseteq SchemaTables
  BY DEF SchemaTables
<1>6. /\ "SchemaInfo" \in SchemaTables /\ "ResourceInfo" \in SchemaTables
      /\ "ResourceEvent" \in DataTables /\ "ResourceScoreCache" \in DataTables
      /\ "ResourceLink" \in DataTables
      /\ "usedActivity" \in Field /\ "initiatingAgent" \in Field
  BY DEF SchemaTables, DataTables, Field
<1>7. AllStatements \in Seq(Statement) /\ Len(AllStatements) = 14
  BY <1>1, <1>2, <1>3, <1>4, <1>5, <1>6 DEF AllStatements
<1>. QED  BY <1>7 DEF AllStatements

\* Three lists, one after the other.
LEMMA ThreeJoined ==
    ASSUME NEW S, NEW a \in Seq(S), NEW b \in Seq(S), NEW c \in Seq(S)
    PROVE  /\ a \o b \o c \in Seq(S)
           /\ Len(a \o b \o c) = Len(a) + Len(b) + Len(c)
           /\ \A k \in 1 .. Len(a) : (a \o b \o c)[k] = a[k]
           /\ \A k \in 1 .. Len(b) : (a \o b \o c)[Len(a) + k] = b[k]
           /\ \A k \in 1 .. Len(c) : (a \o b \o c)[Len(a) + Len(b) + k] = c[k]
OBVIOUS

\* What a process that starts has to do.
LEMMA StartsBehindRenames ==
    ASSUME NEW v \in Ancient .. Current
    PROVE  /\ Statements(v) \in Seq(Statement)
           /\ Len(Statements(v)) = IF v = Ancient THEN 14 ELSE 12
           /\ \A k \in 1 .. Len(Statements(v)) :
                 Statements(v)[k] = AllStatements[14 - Len(Statements(v)) + k]
<1>1. /\ RenameStatements \in Seq(Statement) /\ Len(RenameStatements) = 2
      /\ \A k \in 1 .. 2 : AllStatements[k] = RenameStatements[k]
  <2>1. /\ RenameStatements[1] = AllStatements[1] /\ RenameStatements[2] = AllStatements[2]
        /\ Len(RenameStatements) = 2
    BY TheStatements DEF RenameStatements
  <2>2. RenameStatements \in Seq(Statement)
    BY DEF RenameStatements, Statement, OldTables
  <2>. QED  BY <2>1, <2>2
<1>2. /\ SchemaStatements \in Seq(Statement) /\ Len(SchemaStatements) = 6
      /\ \A k \in 1 .. 6 : AllStatements[2 + k] = SchemaStatements[k]
  <2>1. /\ SchemaStatements[1] = AllStatements[3] /\ SchemaStatements[2] = AllStatements[4]
        /\ SchemaStatements[3] = AllStatements[5] /\ SchemaStatements[4] = AllStatements[6]
        /\ SchemaStatements[5] = AllStatements[7] /\ SchemaStatements[6] = AllStatements[8]
        /\ Len(SchemaStatements) = 6
    BY TheStatements DEF SchemaStatements
  <2>2. SchemaStatements \in Seq(Statement)
    BY DEF SchemaStatements, Statement, SchemaTables, DataTables
  <2>. QED  BY <2>1, <2>2
<1>3. /\ FillStatements \in Seq(Statement) /\ Len(FillStatements) = 6
      /\ \A k \in 1 .. 6 : AllStatements[8 + k] = FillStatements[k]
  <2>1. /\ FillStatements[1] = AllStatements[9] /\ FillStatements[2] = AllStatements[10]
        /\ FillStatements[3] = AllStatements[11] /\ FillStatements[4] = AllStatements[12]
        /\ FillStatements[5] = AllStatements[13] /\ FillStatements[6] = AllStatements[14]
        /\ Len(FillStatements) = 6
    BY TheStatements DEF FillStatements
  <2>2. FillStatements \in Seq(Statement)
    BY DEF FillStatements, Statement, DataTables, Field
  <2>. QED  BY <2>1, <2>2
<1>4. CASE v # Ancient
  <2>. DEFINE none == <<>>
              t == none \o SchemaStatements \o FillStatements
  <2>1. none \in Seq(Statement) /\ Len(none) = 0
    OBVIOUS
  <2>2. Statements(v) = t
    BY <1>4 DEF Statements
  <2>. HIDE DEF none
  <2>3. t \in Seq(Statement) /\ Len(t) = 0 + 6 + 6
        /\ (\A k \in 1 .. 6 : t[0 + k] = SchemaStatements[k])
        /\ (\A k \in 1 .. 6 : t[0 + 6 + k] = FillStatements[k])
    <3>1. /\ none \in Seq(Statement) /\ SchemaStatements \in Seq(Statement)
          /\ FillStatements \in Seq(Statement)
      BY <1>2, <1>3, <2>1
    <3>2. /\ t \in Seq(Statement) /\ Len(t) = Len(none) + Len(SchemaStatements) + Len(FillStatements)
          /\ \A k \in 1 .. Len(SchemaStatements) : t[Len(none) + k] = SchemaStatements[k]
          /\ \A k \in 1 .. Len(FillStatements) :
                t[Len(none) + Len(SchemaStatements) + k] = FillStatements[k]
      BY <3>1, ThreeJoined
    <3>. HIDE DEF t
    <3>. QED  BY <1>2, <1>3, <2>1, <3>2
  <2>. HIDE DEF t
  <2>4. \A k \in 1 .. 6 : t[0 + k] = SchemaStatements[k]
    BY <2>3
  <2>5. \A k \in 1 .. 6 : t[0 + 6 + k] = FillStatements[k]
    BY <2>3
  <2>6. ASSUME NEW k \in 1 .. 12
        PROVE  t[k] = AllStatements[2 + k]
    <3>1. CASE k <= 6
      BY <1>2, <2>4, <3>1
    <3>2. CASE k > 6
      <4>1. k - 6 \in 1 .. 6 /\ 0 + 6 + (k - 6) = k /\ 8 + (k - 6) = 2 + k
        BY <3>2
      <4>. QED  BY <1>3, <2>5, <4>1
    <3>. QED  BY <3>1, <3>2
  <2>. QED  BY <1>4, <2>2, <2>3, <2>6
<1>5. CASE v = Ancient
  <2>. DEFINE t == RenameStatements \o SchemaStatements \o FillStatements
  <2>1. Statements(v) = t
    BY <1>5 DEF Statements
  <2>2. t \in Seq(Statement) /\ Len(t) = 2 + 6 + 6
        /\ (\A k \in 1 .. 2 : t[k] = RenameStatements[k])
        /\ (\A k \in 1 .. 6 : t[2 + k] = SchemaStatements[k])
        /\ (\A k \in 1 .. 6 : t[2 + 6 + k] = FillStatements[k])
    <3>1. /\ RenameStatements \in Seq(Statement) /\ SchemaStatements \in Seq(Statement)
          /\ FillStatements \in Seq(Statement)
      BY <1>1, <1>2, <1>3
    <3>2. /\ t \in Seq(Statement)
          /\ Len(t) = Len(RenameStatements) + Len(SchemaStatements) + Len(FillStatements)
          /\ \A k \in 1 .. Len(RenameStatements) : t[k] = RenameStatements[k]
          /\ \A k \in 1 .. Len(SchemaStatements) :
                t[Len(RenameStatements) + k] = SchemaStatements[k]
          /\ \A k \in 1 .. Len(FillStatements) :
                t[Len(RenameStatements) + Len(SchemaStatements) + k] = FillStatements[k]
      BY <3>1, ThreeJoined
    <3>. HIDE DEF t
    <3>. QED  BY <1>1, <1>2, <1>3, <3>2
  <2>. HIDE DEF t
  <2>3. \A k \in 1 .. 2 : t[k] = RenameStatements[k]
    BY <2>2
  <2>4. \A k \in 1 .. 6 : t[2 + k] = SchemaStatements[k]
    BY <2>2
  <2>5. \A k \in 1 .. 6 : t[2 + 6 + k] = FillStatements[k]
    BY <2>2
  <2>6. ASSUME NEW k \in 1 .. 14
        PROVE  t[k] = AllStatements[0 + k]
    <3>1. CASE k <= 2
      BY <1>1, <2>3, <3>1
    <3>2. CASE k > 2 /\ k <= 8
      <4>1. k - 2 \in 1 .. 6 /\ 2 + (k - 2) = k /\ 0 + k = k
        BY <3>2
      <4>. QED  BY <1>2, <2>4, <4>1
    <3>3. CASE k > 8
      <4>1. k - 8 \in 1 .. 6 /\ 2 + 6 + (k - 8) = k /\ 8 + (k - 8) = k /\ 0 + k = k
        BY <3>3
      <4>. QED  BY <1>3, <2>5, <4>1
    <3>. QED  BY <3>1, <3>2, <3>3
  <2>. QED  BY <1>5, <2>1, <2>2, <2>6
<1>. QED  BY <1>4, <1>5

-------------------------------------------------------------------------------
(***************************************************************************)
(* What a statement does to the tables.                                    *)
(***************************************************************************)
\* The new names are names of data tables, one for each old table.
LEMMA NewNames ==
    ASSUME NEW t \in OldTables
    PROVE  /\ NewName(t) \in DataTables /\ NewName(t) \in SchemaTables
           /\ NewName(t) \notin OldTables /\ t \notin SchemaTables
           /\ \A u \in OldTables : NewName(u) = NewName(t) => u = t
BY DEF NewName, OldTables, DataTables, SchemaTables

\* The four kinds of statements, with what they change.
LEMMA RenameEffect ==
    ASSUME NEW t \in OldTables
    PROVE  TablesAfter(Rename(t)) = IF t \in DOMAIN tables /\ NewName(t) \notin DOMAIN tables
                                    THEN Renamed(t, NewName(t)) ELSE tables
<1>1. Rename(t).op = "rename" /\ Rename(t).table = t
  BY DEF Rename
<1>. QED  BY <1>1 DEF TablesAfter

\* CREATE TABLE IF NOT EXISTS adds an empty table or leaves the one that is there.
LEMMA CreateEffect ==
    ASSUME NEW t
    PROVE  TablesAfter(Create(t)) = IF t \notin DOMAIN tables THEN With(t, EmptyTable) ELSE tables
<1>1. Create(t).op = "create" /\ Create(t).table = t
  BY DEF Create
<1>. QED  BY <1>1 DEF TablesAfter

\* Storing the version changes no table.
LEMMA VersionEffect == TablesAfter(SetVersion) = tables
<1>1. SetVersion.op = "version"
  BY DEF SetVersion
<1>. QED  BY <1>1 DEF TablesAfter

\* An UPDATE leaves no empty field of its kind in its table.
LEMMA FillEffect ==
    ASSUME NEW t, NEW f
    PROVE  TablesAfter(Fill(t, f)) = IF t \in DOMAIN tables
                                     THEN With(t, [tables[t] EXCEPT !.blank = @ \ {f}]) ELSE tables
<1>1. Fill(t, f).op = "fill" /\ Fill(t, f).table = t /\ Fill(t, f).field = f
  BY DEF Fill
<1>. QED  BY <1>1 DEF TablesAfter

\* No statement loses a table of the schema, its rows or a field that is filled.
LEMMA TablesKept ==
    ASSUME MigrationTypeOK, NEW s \in Statement
    PROVE  /\ DOMAIN TablesAfter(s) \subseteq SchemaTables \cup OldTables
           /\ \A t \in DOMAIN TablesAfter(s) : TablesAfter(s)[t] \in Table
           /\ \A t \in DOMAIN tables \cap SchemaTables :
                 /\ t \in DOMAIN TablesAfter(s)
                 /\ TablesAfter(s)[t].rows = tables[t].rows
                 /\ TablesAfter(s)[t].blank \subseteq tables[t].blank
<1>. DEFINE T == TablesAfter(s)
<1>1. /\ DOMAIN tables \subseteq SchemaTables \cup OldTables
      /\ \A t \in DOMAIN tables : tables[t] \in Table
  BY DEF MigrationTypeOK
<1>2. CASE T = tables
  BY <1>1, <1>2
<1>3. ASSUME NEW u \in OldTables, s = Rename(u), T # tables
      PROVE  /\ DOMAIN T \subseteq SchemaTables \cup OldTables
             /\ \A t \in DOMAIN T : T[t] \in Table
             /\ \A t \in DOMAIN tables \cap SchemaTables :
                   /\ t \in DOMAIN T /\ T[t].rows = tables[t].rows
                   /\ T[t].blank \subseteq tables[t].blank
  <2>1. T = Renamed(u, NewName(u)) /\ u \in DOMAIN tables /\ NewName(u) \notin DOMAIN tables
    BY <1>3, RenameEffect
  <2>. HIDE DEF T
  <2>2. /\ DOMAIN T = (DOMAIN tables \ {u}) \cup {NewName(u)}
        /\ \A t \in DOMAIN T : T[t] = IF t = NewName(u) THEN tables[u] ELSE tables[t]
    BY <2>1 DEF Renamed
  <2>. QED  BY <1>1, <2>1, <2>2, NewNames
<1>4. ASSUME NEW u, NEW contents \in Table, T = With(u, contents),
             u \in SchemaTables,
             u \in DOMAIN tables => /\ contents.rows = tables[u].rows
                                    /\ contents.blank \subseteq tables[u].blank
      PROVE  /\ DOMAIN T \subseteq SchemaTables \cup OldTables
             /\ \A t \in DOMAIN T : T[t] \in Table
             /\ \A t \in DOMAIN tables \cap SchemaTables :
                   /\ t \in DOMAIN T /\ T[t].rows = tables[t].rows
                   /\ T[t].blank \subseteq tables[t].blank
  <2>. HIDE DEF T
  <2>1. /\ DOMAIN T = DOMAIN tables \cup {u}
        /\ \A t \in DOMAIN T : T[t] = IF t = u THEN contents ELSE tables[t]
    BY <1>4 DEF With
  <2>. QED  BY <1>1, <1>4, <2>1
<1>5. ASSUME NEW u \in SchemaTables, s = Create(u), T # tables
      PROVE  T = With(u, EmptyTable) /\ u \notin DOMAIN tables /\ EmptyTable \in Table
  BY <1>5, CreateEffect DEF EmptyTable, Table
<1>6. ASSUME NEW u \in DataTables, NEW f \in Field, s = Fill(u, f), T # tables
      PROVE  \E contents \in Table : /\ T = With(u, contents)
                                     /\ u \in DOMAIN tables
                                     /\ contents.rows = tables[u].rows
                                     /\ contents.blank \subseteq tables[u].blank
  <2>. DEFINE contents == [tables[u] EXCEPT !.blank = @ \ {f}]
  <2>1. T = With(u, contents) /\ u \in DOMAIN tables
    BY <1>6, FillEffect
  <2>2. tables[u] \in Table
    BY <1>1, <2>1
  <2>3. /\ contents \in Table /\ contents.rows = tables[u].rows
        /\ contents.blank \subseteq tables[u].blank
    BY <2>2 DEF Table
  <2>. QED  BY <2>1, <2>3
<1>7. DataTables \subseteq SchemaTables
  BY DEF SchemaTables
<1>. QED
  <2>1. CASE \E u \in OldTables : s = Rename(u)
    BY <1>2, <1>3, <2>1
  <2>2. CASE \E u \in SchemaTables : s = Create(u)
    <3>1. PICK u \in SchemaTables : s = Create(u)
      BY <2>2
    <3>2. CASE T # tables
      BY <1>4, <1>5, <3>1, <3>2
    <3>. QED  BY <1>2, <3>2
  <2>3. CASE s = SetVersion
    BY <1>2, <2>3, VersionEffect
  <2>4. CASE \E u \in DataTables, f \in Field : s = Fill(u, f)
    <3>1. PICK u \in DataTables, f \in Field : s = Fill(u, f)
      BY <2>4
    <3>2. CASE T # tables
      <4>1. PICK contents \in Table : /\ T = With(u, contents)
                                      /\ u \in DOMAIN tables
                                      /\ contents.rows = tables[u].rows
                                      /\ contents.blank \subseteq tables[u].blank
        BY <1>6, <3>1, <3>2
      <4>2. u \in SchemaTables
        BY <1>7
      <4>. QED  BY <1>4, <4>1, <4>2
    <3>. QED  BY <1>2, <3>2
  <2>. QED  BY <2>1, <2>2, <2>3, <2>4 DEF Statement

\* A list's first element and the rest of it.
LEMMA FirstAndRest ==
    ASSUME NEW S, NEW s \in Seq(S), s # <<>>
    PROVE  /\ Len(s) \in Nat \ {0} /\ Head(s) = s[1] /\ s[1] \in S
           /\ Tail(s) \in Seq(S) /\ Len(Tail(s)) = Len(s) - 1
           /\ \A k \in 1 .. Len(Tail(s)) : Tail(s)[k] = s[k + 1]
OBVIOUS

\* The next statement of a run.
LEMMA NextStatement ==
    ASSUME IInv, Execute
    PROVE  /\ Done \in 0 .. 13 /\ Done' = Done + 1
           /\ Head(todo) = AllStatements[Done + 1] /\ Head(todo) \in Statement
           /\ todo' \in Seq(Statement) /\ Len(todo') <= 14
           /\ \A k \in 1 .. Len(todo') : todo'[k] = AllStatements[Done' + k]
           /\ running /\ running' = running /\ crashes' = crashes /\ legacy' = legacy
           /\ tables' = TablesAfter(AllStatements[Done + 1])
           /\ version' = IF Done + 1 = 4 THEN Current ELSE version
<1>1. /\ running /\ todo \in Seq(Statement) /\ todo # <<>> /\ Len(todo) <= 14
      /\ \A k \in 1 .. Len(todo) : todo[k] = AllStatements[Done + k]
      /\ todo' = Tail(todo)
      /\ running' = running /\ crashes' = crashes /\ legacy' = legacy
  BY DEF IInv, InPlace, Execute
<1>2. /\ Len(todo) \in Nat \ {0} /\ Head(todo) = todo[1] /\ todo[1] \in Statement
      /\ todo' \in Seq(Statement) /\ Len(todo') = Len(todo) - 1
      /\ \A k \in 1 .. Len(todo') : todo'[k] = todo[k + 1]
  <2>1. todo \in Seq(Statement) /\ todo # <<>>
    BY <1>1
  <2>2. /\ Len(todo) \in Nat \ {0} /\ Head(todo) = todo[1] /\ todo[1] \in Statement
        /\ Tail(todo) \in Seq(Statement) /\ Len(Tail(todo)) = Len(todo) - 1
        /\ \A k \in 1 .. Len(Tail(todo)) : Tail(todo)[k] = todo[k + 1]
    BY <2>1, FirstAndRest
  <2>. QED  BY <1>1, <2>2
<1>3. Done \in 0 .. 13 /\ Done' = Done + 1 /\ Len(todo') <= 14
  <2>. DEFINE n == Len(todo)
              m == Len(todo')
  <2>1. Done = 14 - n /\ Done' = 14 - m
    BY DEF Done
  <2>2. n \in Nat \ {0} /\ n <= 14 /\ m = n - 1
    BY <1>1, <1>2
  <2>. HIDE DEF n, m
  <2>3. Done \in 0 .. 13 /\ Done' = Done + 1 /\ m <= 14
    BY <2>1, <2>2
  <2>. QED  BY <2>3 DEF m
<1>4. Head(todo) = AllStatements[Done + 1]
  BY <1>1, <1>2
<1>5. ASSUME NEW k \in 1 .. Len(todo')
      PROVE  todo'[k] = AllStatements[Done' + k]
  <2>1. k + 1 \in 1 .. Len(todo) /\ Done + (k + 1) = Done' + k
    BY <1>2, <1>3
  <2>. QED  BY <1>1, <1>2, <2>1
<1>6. Head(todo).op = "version" <=> Done + 1 = 4
  <2>1. \A t : Rename(t).op = "rename" /\ Create(t).op = "create"
    BY DEF Rename, Create
  <2>2. \A t, f : Fill(t, f).op = "fill"
    BY DEF Fill
  <2>3. SetVersion.op = "version"
    BY DEF SetVersion
  <2>4. Done + 1 \in 1 .. 14
    BY <1>3
  <2>. DEFINE n == Done + 1
  <2>. HIDE DEF n
  <2>5. n \in 1 .. 14 => (AllStatements[n].op = "version" <=> n = 4)
    BY <2>1, <2>2, <2>3, TheStatements
  <2>. QED  BY <1>4, <2>4, <2>5 DEF n
<1>. QED  BY <1>1, <1>2, <1>3, <1>4, <1>5, <1>6 DEF Execute

\* Which statements create a table and which fill a field, and that a table is
\* created before any of its fields is filled.
LEMMA Kinds ==
    ASSUME NEW k \in 1 .. 14
    PROVE  /\ AllStatements[k].op = "create" =>
                 /\ AllStatements[k].table \in SchemaTables
                 /\ AllStatements[k] = Create(AllStatements[k].table)
           /\ AllStatements[k].op = "fill" =>
                 /\ k >= 9 /\ AllStatements[k].table \in DataTables
                 /\ AllStatements[k] = Fill(AllStatements[k].table, AllStatements[k].field)
                 /\ \E j \in 1 .. 8 : /\ AllStatements[j].op = "create"
                                     /\ AllStatements[j].table = AllStatements[k].table
<1>1. \A t : Rename(t).op = "rename" /\ Create(t).op = "create" /\ Create(t).table = t
  BY DEF Rename, Create
<1>2. \A t, f : Fill(t, f).op = "fill" /\ Fill(t, f).table = t /\ Fill(t, f).field = f
  BY DEF Fill
<1>3. SetVersion.op = "version"
  BY DEF SetVersion
<1>4. /\ "SchemaInfo" \in SchemaTables /\ "ResourceInfo" \in SchemaTables
      /\ "ResourceEvent" \in DataTables /\ "ResourceScoreCache" \in DataTables
      /\ "ResourceLink" \in DataTables /\ DataTables \subseteq SchemaTables
  BY DEF SchemaTables, DataTables
<1>5. CASE k \in 1 .. 2
  BY <1>1, <1>5, TheStatements
<1>6. CASE k \in 3 .. 8
  BY <1>1, <1>3, <1>4, <1>6, TheStatements
<1>7. CASE k \in 9 .. 14
  <2>1. \E t \in DataTables, f \in Field : AllStatements[k] = Fill(t, f)
    <3>1. "usedActivity" \in Field /\ "initiatingAgent" \in Field
      BY DEF Field
    <3>2. k = 9 \/ k = 10 \/ k = 11 \/ k = 12 \/ k = 13 \/ k = 14
      BY <1>7
    <3>. QED  BY <1>4, <3>1, <3>2, TheStatements
  <2>2. PICK t \in DataTables, f \in Field : AllStatements[k] = Fill(t, f)
    BY <2>1
  <2>3. \E j \in 1 .. 8 : AllStatements[j].op = "create" /\ AllStatements[j].table = t
    <3>1. /\ AllStatements[5].op = "create" /\ AllStatements[5].table = "ResourceEvent"
          /\ AllStatements[6].op = "create" /\ AllStatements[6].table = "ResourceScoreCache"
          /\ AllStatements[7].op = "create" /\ AllStatements[7].table = "ResourceLink"
      BY <1>1, TheStatements
    <3>2. t = "ResourceEvent" \/ t = "ResourceScoreCache" \/ t = "ResourceLink"
      BY DEF DataTables
    <3>3. 5 \in 1 .. 8 /\ 6 \in 1 .. 8 /\ 7 \in 1 .. 8
      OBVIOUS
    <3>. QED  BY <3>1, <3>2, <3>3
  <2>. QED  BY <1>2, <1>7, <2>2, <2>3
<1>. QED  BY <1>5, <1>6, <1>7

\* A fill has the table that it works on, as that was created before.
LEMMA FilledIsThere ==
    ASSUME IInv, running, Done \in 0 .. 14, NEW k \in 9 .. 14, k <= Done + 1,
           AllStatements[k].op = "fill"
    PROVE  AllStatements[k].table \in DOMAIN tables \cap SchemaTables
<1>1. k \in 1 .. 14 /\ Done >= 8
  OBVIOUS
<1>2. PICK j \in 1 .. 8 : /\ AllStatements[j].op = "create"
                         /\ AllStatements[j].table = AllStatements[k].table
  BY <1>1, Kinds
<1>3. j \in 1 .. Done /\ j \in 1 .. 14
  BY <1>1
<1>. QED  BY <1>2, <1>3, Kinds DEF IInv, Created

\* The rows of an old table, through one statement of the run.
LEMMA LegacyKept ==
    ASSUME IInv, Execute, NEW t \in legacy
    PROVE  /\ Moved(t)' \/ Waiting(t)'
           /\ Done' >= Turn(t) => Moved(t)'
<1>. DEFINE d == Done
            T == TablesAfter(AllStatements[d + 1])
<1>1. /\ d \in 0 .. 13 /\ Done' = d + 1 /\ tables' = T /\ running
      /\ AllStatements[d + 1] \in Statement
  BY NextStatement
<1>2. /\ t \in OldTables /\ (Moved(t) \/ Waiting(t)) /\ (d >= Turn(t) => Moved(t))
      /\ Turn(t) \in 1 .. 2
  BY <1>1 DEF IInv, LegacyRows, Turn
<1>3. NewName(t) \in SchemaTables
  BY <1>2, NewNames
<1>4. CASE Moved(t)
  <2>1. NewName(t) \in DOMAIN tables \cap SchemaTables /\ tables[NewName(t)].rows
    BY <1>3, <1>4 DEF Moved
  <2>2. NewName(t) \in DOMAIN T /\ T[NewName(t)].rows
    BY <1>1, <2>1, TablesKept DEF IInv
  <2>. QED  BY <1>1, <2>2 DEF Moved
<1>5. CASE ~Moved(t)
  <2>1. Waiting(t) /\ d + 1 <= Turn(t) /\ d < 2
    BY <1>1, <1>2, <1>5
  <2>2. CASE d + 1 = Turn(t)
    <3>1. AllStatements[d + 1] = Rename(t)
      BY <1>1, <1>2, <2>1, <2>2, TheStatements DEF Turn, OldTables
    <3>2. T = Renamed(t, NewName(t))
      BY <1>2, <2>1, <3>1, RenameEffect DEF Waiting
    <3>3. NewName(t) \in DOMAIN T /\ T[NewName(t)] = tables[t]
      BY <3>2 DEF Renamed
    <3>. QED  BY <1>1, <2>1, <3>3 DEF Moved, Waiting
  <2>3. CASE d + 1 # Turn(t)
    <3>1. /\ d + 1 = 1 /\ t = "kext_ResourceScoreCache" /\ Turn(t) = 2
          /\ AllStatements[d + 1] = Rename("nuao_DesktopEvent")
      BY <1>1, <1>2, <2>1, <2>3, TheStatements DEF Turn, OldTables
    <3>. DEFINE u == "nuao_DesktopEvent"
    <3>2. u \in OldTables /\ u # t /\ NewName(u) # NewName(t) /\ NewName(u) # t /\ NewName(t) # u
      BY <1>2, <3>1, NewNames DEF OldTables
    <3>3. T = tables \/ T = Renamed(u, NewName(u))
      BY <3>1, <3>2, RenameEffect
    <3>4. t \in DOMAIN T /\ T[t] = tables[t] /\ NewName(t) \notin DOMAIN T
      BY <2>1, <3>2, <3>3 DEF Waiting, Renamed
    <3>5. ~(Done' >= Turn(t))
      BY <1>1, <3>1
    <3>. QED  BY <1>1, <2>1, <3>4, <3>5 DEF Waiting
  <2>. QED  BY <2>2, <2>3
<1>. QED  BY <1>4, <1>5

-------------------------------------------------------------------------------
(***************************************************************************)
(* The invariant, action by action.                                        *)
(***************************************************************************)
\* A statement leaves behind it what it is for, and nothing undone.
LEMMA ExecuteKeeps ==
    ASSUME IInv, Execute
    PROVE  IInv'
<1>. DEFINE d == Done
            T == TablesAfter(AllStatements[d + 1])
<1>1. /\ d \in 0 .. 13 /\ Done' = d + 1
      /\ running /\ running' = running /\ crashes' = crashes /\ legacy' = legacy
      /\ tables' = T /\ AllStatements[d + 1] \in Statement
      /\ version' = IF d + 1 = 4 THEN Current ELSE version
  BY NextStatement
<1>2. /\ todo' \in Seq(Statement) /\ Len(todo') <= 14
      /\ \A k \in 1 .. Len(todo') : todo'[k] = AllStatements[Done' + k]
  BY NextStatement
<1>3. /\ DOMAIN T \subseteq SchemaTables \cup OldTables
      /\ \A t \in DOMAIN T : T[t] \in Table
      /\ \A t \in DOMAIN tables \cap SchemaTables :
            t \in DOMAIN T /\ T[t].rows = tables[t].rows /\ T[t].blank \subseteq tables[t].blank
  BY <1>1, TablesKept DEF IInv
<1>4. /\ version \in 0 .. 2 /\ (version = 2 <=> d >= 4) /\ (version = 1 => d >= 2)
  BY <1>1 DEF IInv, MigrationTypeOK, InPlace, Ancient, Older, Current
<1>. HIDE DEF d, T
<1>5. MigrationTypeOK'
  BY <1>1, <1>3, <1>4 DEF IInv, MigrationTypeOK, Ancient, Older, Current
<1>6. InPlace'
  <2>1. (version' = 2 <=> d + 1 >= 4) /\ (version' = 1 => d + 1 >= 2)
    BY <1>1, <1>4 DEF Current
  <2>. QED  BY <1>1, <1>2, <2>1 DEF InPlace, Older, Current
<1>7. LegacyRows'
  <2>1. legacy' \subseteq OldTables /\ (version' = Older => legacy' = {})
    BY <1>1, <1>4 DEF IInv, LegacyRows, Older, Current
  <2>2. ASSUME NEW t \in legacy'
        PROVE  /\ Moved(t)' \/ Waiting(t)'
               /\ version' = Current => Moved(t)'
               /\ running' /\ Done' >= Turn(t) => Moved(t)'
    <3>1. /\ Moved(t)' \/ Waiting(t)'
          /\ Done' >= Turn(t) => Moved(t)'
      BY <1>1, LegacyKept
    <3>2. Turn(t) \in 1 .. 2
      BY DEF Turn
    <3>3. version' = Current => Done' >= Turn(t)
      BY <1>1, <1>4, <3>2 DEF Current
    <3>. QED  BY <3>1, <3>3
  <2>3. \A t \in legacy' : /\ (Moved(t) \/ Waiting(t))'
                           /\ (version = Current => Moved(t))'
                           /\ (running /\ Done >= Turn(t) => Moved(t))'
    BY <2>2 DEF Turn
  <2>. QED  BY <2>1, <2>3 DEF LegacyRows
<1>8. Created'
  <2>1. ASSUME NEW k \in 1 .. d + 1, AllStatements[k].op = "create"
        PROVE  AllStatements[k].table \in DOMAIN T
    <3>1. /\ k \in 1 .. 14 /\ AllStatements[k].table \in SchemaTables
          /\ AllStatements[k] = Create(AllStatements[k].table)
      BY <1>1, <2>1, Kinds
    <3>2. CASE AllStatements[k].table \in DOMAIN tables
      BY <1>3, <3>1, <3>2
    <3>3. CASE AllStatements[k].table \notin DOMAIN tables
      <4>1. k = d + 1
        BY <1>1, <2>1, <3>3 DEF IInv, Created, d
      <4>2. T = With(AllStatements[k].table, EmptyTable)
        BY <3>1, <3>3, <4>1, CreateEffect DEF T
      <4>. QED  BY <4>2 DEF With
    <3>. QED  BY <3>2, <3>3
  <2>. QED  BY <1>1, <2>1 DEF Created
<1>9. Filled'
  <2>1. ASSUME NEW k \in 1 .. d + 1, AllStatements[k].op = "fill"
        PROVE  AllStatements[k].field \notin T[AllStatements[k].table].blank
    <3>. DEFINE t == AllStatements[k].table
                f == AllStatements[k].field
    <3>1. k \in 9 .. 14 /\ AllStatements[k] = Fill(t, f)
      BY <1>1, <2>1, Kinds
    <3>2. t \in DOMAIN tables \cap SchemaTables
      BY <1>1, <2>1, <3>1, FilledIsThere DEF d
    <3>3. CASE k = d + 1
      <4>1. T = With(t, [tables[t] EXCEPT !.blank = @ \ {f}])
        BY <3>1, <3>2, <3>3, FillEffect DEF T
      <4>2. T[t] = [tables[t] EXCEPT !.blank = @ \ {f}]
        BY <4>1 DEF With
      <4>3. tables[t] \in Table
        BY <3>2 DEF IInv, MigrationTypeOK
      <4>. QED  BY <4>2, <4>3 DEF Table
    <3>4. CASE k # d + 1
      <4>1. f \notin tables[t].blank
        BY <1>1, <2>1, <3>4 DEF IInv, Filled, d
      <4>. QED  BY <1>3, <3>2, <4>1
    <3>. QED  BY <3>3, <3>4
  <2>. QED  BY <1>1, <2>1 DEF Filled
<1>10. RunCompletes'
  BY <1>1 DEF RunCompletes
<1>. QED  BY <1>5, <1>6, <1>7, <1>8, <1>9, <1>10 DEF IInv

\* A run starts in front of the list, or behind the renames.
LEMMA StartKeeps ==
    ASSUME IInv, StartMigration
    PROVE  IInv'
<1>1. /\ ~running /\ version # Current /\ running' /\ running' \in BOOLEAN
      /\ todo' = Statements(version)
      /\ tables' = tables /\ version' = version /\ crashes' = crashes /\ legacy' = legacy
  BY DEF StartMigration
<1>2. version \in Ancient .. Current
  BY DEF IInv, MigrationTypeOK
<1>3. /\ todo' \in Seq(Statement) /\ Len(todo') = IF version = Ancient THEN 14 ELSE 12
      /\ \A k \in 1 .. Len(todo') : todo'[k] = AllStatements[14 - Len(todo') + k]
  BY <1>1, <1>2, StartsBehindRenames
<1>4. /\ Done' = IF version = Ancient THEN 0 ELSE 2
      /\ Done' = 14 - Len(todo')
  BY <1>3 DEF Done
<1>5. MigrationTypeOK'
  BY <1>1 DEF IInv, MigrationTypeOK
<1>6. InPlace'
  <2>1. \A k \in 1 .. Len(todo') : todo'[k] = AllStatements[Done' + k]
    BY <1>3, <1>4
  <2>2. Len(todo') <= 14
    BY <1>3
  <2>3. ~(version' = Current) /\ ~(Done' >= 4) /\ (version' = Older => Done' >= 2)
    BY <1>1, <1>4 DEF Ancient, Older
  <2>. QED  BY <1>3, <2>1, <2>2, <2>3 DEF InPlace
<1>7. LegacyRows'
  <2>1. legacy # {} => version = Ancient
    BY <1>1, <1>2 DEF IInv, LegacyRows, Ancient, Older, Current
  <2>2. legacy # {} => \A t \in legacy : ~(Done' >= Turn(t))
    BY <1>4, <2>1 DEF Turn
  <2>3. \A t \in legacy' : /\ (Moved(t) \/ Waiting(t))'
                           /\ (version = Current => Moved(t))'
                           /\ (running /\ Done >= Turn(t) => Moved(t))'
    BY <1>1, <2>2 DEF IInv, LegacyRows, Moved, Waiting, Turn
  <2>. QED  BY <1>1, <2>3 DEF IInv, LegacyRows
<1>8. \A k \in 1 .. Done' : AllStatements[k].op = "rename"
  <2>1. \A t : Rename(t).op = "rename"
    BY DEF Rename
  <2>. QED  BY <1>4, <2>1, TheStatements
<1>9. Created' /\ Filled'
  BY <1>8 DEF Created, Filled
<1>10. RunCompletes'
  BY <1>1 DEF RunCompletes
<1>. QED  BY <1>5, <1>6, <1>7, <1>9, <1>10 DEF IInv

\* A run that comes to its end has executed all statements.
LEMMA FinishKeeps ==
    ASSUME IInv, FinishMigration
    PROVE  IInv'
<1>1. /\ running /\ todo = <<>> /\ ~running' /\ running' \in BOOLEAN
      /\ tables' = tables /\ version' = version /\ todo' = todo
      /\ crashes' = crashes /\ legacy' = legacy
  BY DEF FinishMigration
<1>2. Done = 14 /\ Done' = 14
  BY <1>1 DEF Done
<1>3. /\ \A k \in 1 .. 14 : AllStatements[k].op = "create"
                               => AllStatements[k].table \in DOMAIN tables
      /\ \A k \in 1 .. 14 : AllStatements[k].op = "fill"
                               => AllStatements[k].field \notin tables[AllStatements[k].table].blank
  BY <1>1, <1>2 DEF IInv, Created, Filled
<1>4. Complete
  <2>1. \A t : Create(t).op = "create" /\ Create(t).table = t
    BY DEF Create
  <2>2. \A t, f : Fill(t, f).op = "fill" /\ Fill(t, f).table = t /\ Fill(t, f).field = f
    BY DEF Fill
  <2>3. \A t \in SchemaTables : \E k \in 1 .. 14 : AllStatements[k] = Create(t)
    <3>1. \A t \in SchemaTables : \/ t = "SchemaInfo" \/ t = "ResourceInfo" \/ t = "ResourceEvent"
                                  \/ t = "ResourceScoreCache" \/ t = "ResourceLink"
      BY DEF SchemaTables, DataTables
    <3>. QED  BY <3>1, TheStatements
  <2>4. \A t \in DataTables, f \in Field : \E k \in 1 .. 14 : AllStatements[k] = Fill(t, f)
    <3>1. \A t \in DataTables :
             t = "ResourceEvent" \/ t = "ResourceScoreCache" \/ t = "ResourceLink"
      BY DEF DataTables
    <3>2. \A f \in Field : f = "usedActivity" \/ f = "initiatingAgent"
      BY DEF Field
    <3>. QED  BY <3>1, <3>2, TheStatements
  <2>5. SchemaTables \subseteq DOMAIN tables
    BY <1>3, <2>1, <2>3
  <2>6. \A t \in DataTables, f \in Field : f \notin tables[t].blank
    BY <1>3, <2>2, <2>4
  <2>7. \A t \in DataTables : tables[t].blank \subseteq Field
    BY <2>5 DEF IInv, MigrationTypeOK, Table, SchemaTables
  <2>. QED  BY <2>5, <2>6, <2>7 DEF Complete
<1>5. MigrationTypeOK'
  BY <1>1 DEF IInv, MigrationTypeOK
<1>6. LegacyRows'
  <2>1. \A t \in legacy' : /\ (Moved(t) \/ Waiting(t))'
                           /\ (version = Current => Moved(t))'
                           /\ (running /\ Done >= Turn(t) => Moved(t))'
    BY <1>1 DEF IInv, LegacyRows, Moved, Waiting
  <2>. QED  BY <1>1, <2>1 DEF IInv, LegacyRows
<1>7. RunCompletes'
  BY <1>1, <1>4 DEF RunCompletes, Complete
<1>. QED  BY <1>1, <1>5, <1>6, <1>7 DEF IInv, InPlace, Created, Filled

\* A run that ends early leaves the old rows where a restart finds them.
LEMMA CrashKeeps ==
    ASSUME IInv, Crash
    PROVE  IInv'
<1>1. /\ running /\ ~running' /\ running' \in BOOLEAN /\ todo' = <<>>
      /\ crashes < MaxCrashes /\ crashes' = crashes + 1
      /\ tables' = tables /\ version' = version /\ legacy' = legacy
  BY DEF Crash
<1>2. crashes \in 0 .. MaxCrashes /\ MaxCrashes \in Nat
  BY MigrationAssumption DEF IInv, MigrationTypeOK
<1>3. crashes' \in 0 .. MaxCrashes /\ crashes' # 0
  BY <1>1, <1>2
<1>4. MigrationTypeOK'
  BY <1>1, <1>3 DEF IInv, MigrationTypeOK
<1>5. LegacyRows'
  <2>1. \A t \in legacy' : /\ (Moved(t) \/ Waiting(t))'
                           /\ (version = Current => Moved(t))'
                           /\ (running /\ Done >= Turn(t) => Moved(t))'
    BY <1>1 DEF IInv, LegacyRows, Moved, Waiting
  <2>. QED  BY <1>1, <2>1 DEF IInv, LegacyRows
<1>6. RunCompletes'
  BY <1>3 DEF RunCompletes
<1>. QED  BY <1>1, <1>4, <1>5, <1>6 DEF IInv, InPlace, Created, Filled

\* Every database that a start can find.
LEMMA InitIInv ==
    ASSUME MigrationInit
    PROVE  IInv
<1>1. /\ ~running /\ running \in BOOLEAN /\ todo = <<>> /\ crashes = 0
      /\ legacy = {t \in OldTables \cap DOMAIN tables : tables[t].rows}
  BY DEF MigrationInit
<1>2. \E v \in Ancient .. Current, T \in SUBSET (SchemaTables \cup OldTables) :
         /\ Found(v, T)
         /\ v = Ancient => T \subseteq OldTables
         /\ v # Ancient => T \subseteq SchemaTables
         /\ v = Current => T = SchemaTables /\ \A t \in SchemaTables : tables[t].blank = {}
  <2>1. /\ Ancient \in Ancient .. Current /\ Older \in Ancient .. Current
        /\ Current \in Ancient .. Current
        /\ Ancient # Older /\ Ancient # Current /\ Older # Current
    BY DEF Ancient, Older, Current
  <2>2. CASE \E T \in SUBSET OldTables : Found(Ancient, T)
    BY <2>1, <2>2
  <2>3. CASE \E T \in SUBSET {"ResourceLink", "ResourceInfo"} :
                Found(Older, T \cup {"SchemaInfo", "ResourceEvent", "ResourceScoreCache"})
    <3>1. PICK T \in SUBSET {"ResourceLink", "ResourceInfo"} :
                  Found(Older, T \cup {"SchemaInfo", "ResourceEvent", "ResourceScoreCache"})
      BY <2>3
    <3>2. T \cup {"SchemaInfo", "ResourceEvent", "ResourceScoreCache"} \subseteq SchemaTables
      BY DEF SchemaTables, DataTables
    <3>. QED  BY <2>1, <3>1, <3>2
  <2>4. CASE Found(Current, SchemaTables) /\ \A t \in SchemaTables : tables[t].blank = {}
    BY <2>1, <2>4
  <2>. QED  BY <2>2, <2>3, <2>4 DEF MigrationInit
<1>3. PICK v \in Ancient .. Current, T \in SUBSET (SchemaTables \cup OldTables) :
         /\ Found(v, T)
         /\ v = Ancient => T \subseteq OldTables
         /\ v # Ancient => T \subseteq SchemaTables
         /\ v = Current => T = SchemaTables /\ \A t \in SchemaTables : tables[t].blank = {}
  BY <1>2
<1>4. version = v /\ tables \in [T -> Table]
  BY <1>3 DEF Found
<1>5. MigrationTypeOK
  BY <1>1, <1>4, MigrationAssumption DEF MigrationTypeOK
<1>6. LegacyRows
  <2>1. SchemaTables \cap OldTables = {}
    BY NewNames
  <2>2. version # Ancient => legacy = {}
    BY <1>1, <1>3, <1>4, <2>1
  <2>3. ASSUME NEW t \in legacy
        PROVE  Waiting(t)
    <3>1. version = Ancient /\ t \in OldTables /\ t \in DOMAIN tables /\ tables[t].rows
      BY <1>1, <2>2
    <3>2. NewName(t) \notin DOMAIN tables
      BY <1>3, <1>4, <3>1, NewNames
    <3>. QED  BY <3>1, <3>2 DEF Waiting
  <2>4. Ancient # Older /\ Ancient # Current
    BY DEF Ancient, Older, Current
  <2>. QED  BY <1>1, <2>2, <2>3, <2>4 DEF LegacyRows
<1>7. RunCompletes
  BY <1>3, <1>4 DEF RunCompletes, Complete, SchemaTables
<1>. QED  BY <1>1, <1>5, <1>6, <1>7 DEF IInv, InPlace, Created, Filled

-------------------------------------------------------------------------------
(***************************************************************************)
(* The theorems.                                                           *)
(***************************************************************************)
\* initSchema: however often the process ends between two statements, the version
\* tells which statements a run has behind it, and the old rows are where the next
\* run looks for them.
THEOREM MigrationInvariant == MigrationSpec => []IInv
<1>1. MigrationInit => IInv
  BY InitIInv
<1>2. IInv /\ [MigrationNext]_migrationVars => IInv'
  <2>. SUFFICES ASSUME IInv, [MigrationNext]_migrationVars PROVE IInv'
    OBVIOUS
  <2>1. CASE StartMigration
    BY <2>1, StartKeeps
  <2>2. CASE Execute
    BY <2>2, ExecuteKeeps
  <2>3. CASE FinishMigration
    BY <2>3, FinishKeeps
  <2>4. CASE Crash
    BY <2>4, CrashKeeps
  <2>5. CASE UNCHANGED migrationVars
    BY <2>5 DEF migrationVars, IInv, MigrationTypeOK, InPlace, LegacyRows, Created, Filled,
                RunCompletes, Complete, Done, Moved, Waiting
  <2>. QED  BY <2>1, <2>2, <2>3, <2>4, <2>5 DEF MigrationNext
<1>. QED  BY <1>1, <1>2, PTL DEF MigrationSpec

\* initSchema's state keeps its types.
THEOREM MigrationTypes == MigrationSpec => []MigrationTypeOK
<1>1. IInv => MigrationTypeOK
  BY DEF IInv
<1>. QED  BY <1>1, MigrationInvariant, PTL

\* renameTable before createTable: no restart puts an empty table in the place of
\* the rows of an old one, wherever the runs before it ended.
THEOREM OldRowsSurvive == MigrationSpec => []OldRowsMoved
<1>1. IInv => OldRowsMoved
  BY DEF IInv, LegacyRows, OldRowsMoved, Moved
<1>. QED  BY <1>1, MigrationInvariant, PTL

\* A run of initSchema that is not cut short leaves every table and fills every
\* field, whatever it found.
THEOREM RunsComplete == MigrationSpec => []RunCompletes
<1>1. IInv => RunCompletes
  BY DEF IInv
<1>. QED  BY <1>1, MigrationInvariant, PTL

===============================================================================
