---------------------------- MODULE ExportProofs ----------------------------
(***************************************************************************)
(* Proofs about Export for any databases, any names of types and any       *)
(* number of processes: the types, that one export writes to a directory,  *)
(* what an export holds at each of its stages, that files stay, and that   *)
(* an export that succeeds has printed every one of its files whole.       *)
(***************************************************************************)
EXTENDS Export, TLAPS, WellFoundedInduction

InTable ==
  {"make", "create", "header", "rows", "close", "index directory", "next index", "next table"}
InFile == {"header", "rows", "close"}

ItemPaths == {ItemFilename(name, index) : name \in STRING, index \in Nat}
Paths == ItemPaths \cup {""}

Process ==
  [stage : Stages, mode : Modes, wanted : {Every, "absent"} \cup STRING, named : Nat, type : Nat, table : Nat,
   item : Nat, row : Nat, exported : BOOLEAN, path : Paths, held : SUBSET Things, lossy : BOOLEAN,
   exit : {"none", "success", "failure"}]

Written == STRING \cup [kind : {"empty", "value", "error"}, by : Nat]
File ==
  [owner : Exporters, kind : {"file", "directory"}, table : Nat, item : Nat, lines : Seq(Seq(Written)),
   lost : BOOLEAN]

Typed ==
  /\ database \in Databases
  /\ directory \in Exporters \cup {"none"}
  /\ files \in [DOMAIN files -> File]
  /\ export \in [Exporters -> Process]

\* Where a process is: its table and its item are there, the type is that of all tables.
Placed(e) ==
  /\ e.named <= Len(database)
  /\ e.type \in Types \cup {0}
  /\ e.table \in 1 .. Len(database) + 1
  /\ e.stage \in InTable => e.table \in Tables
  /\ e.stage \in InTable \cup {"select"} => e.type = DatabaseTypeOf(Tables)
  /\ e.item > 0 /\ e.stage \in InTable => e.item + 1 \in DOMAIN Table(e).indexes
  /\ e.row >= 1 /\ (e.stage = "header" => e.row = 1)
  /\ e.stage = "rows" => e.row <= Len(Records(e)) + 1
  /\ e.stage = "close" => e.row = Len(Records(e)) + 1
  /\ e.exit = "none" <=> e.stage # "end"

\* What it holds there
Holds(e) ==
  /\ e.stage \in {"check", "open", "end"} => e.held = {}
  /\ e.stage \notin {"check", "open", "end"} => "database" \in e.held
  /\ "names" \in e.held => e.named > 0 /\ e.stage # "finish"
  /\ "table" \in e.held <=> e.stage \in InTable
  /\ "stream" \in e.held <=> e.stage \in InFile
  /\ "record" \in e.held => e.stage = "rows" /\ e.row <= Len(Records(e))
  /\ "index" \in e.held <=> e.item > 0 /\ e.stage \notin {"next table", "end"}
  /\ e.item > 0 => e.stage \in {"create", "rows", "close", "next index", "next table", "end"}

\* The directory is of the process that exported a table to it.
Owned(p) ==
  /\ export[p].stage \in InTable \ {"make"} => export[p].exported
  /\ export[p].exported => directory = p

Orderly == \A p \in Exporters : Placed(export[p]) /\ Holds(export[p]) /\ Owned(p)

\* The line of the names is begun; the lines of the first n records are whole, the next one may be begun.
HeaderBegun(lines, columns) ==
  /\ Len(lines) <= 1
  /\ Len(lines) = 1 =>
       Len(lines[1]) < Len(columns) /\ \A i \in DOMAIN lines[1] : lines[1][i] = columns[i]
RowsWritten(lines, header, records, n) ==
  /\ Len(lines) = header + n
  /\ \A r \in 1 .. n : Len(lines[header + r]) = Len(records[r])
RowBegun(lines, header, records, n) ==
  /\ Len(lines) = header + n + 1
  /\ \A r \in 1 .. n : Len(lines[header + r]) = Len(records[r])
  /\ n < Len(records) /\ Len(lines[header + n + 1]) < Len(records[n + 1])

HeaderLines(e) == IF e.item = 0 THEN 1 ELSE 0
LinesOf(e, lines) ==
  /\ e.stage = "header" => HeaderBegun(lines, Table(e).columns)
  /\ e.stage \in {"rows", "close"} =>
       /\ e.item = 0 => lines[1] = Table(e).columns
       /\ "record" \notin e.held => RowsWritten(lines, HeaderLines(e), Records(e), e.row - 1)
       /\ "record" \in e.held => RowBegun(lines, HeaderLines(e), Records(e), e.row - 1)

\* The process with a stream has made the file itself and written so much of it.
OpenFile(p) ==
  export[p].stage \in InFile =>
    LET file == files[export[p].path] IN
    /\ Taken(export[p].path)
    /\ file.kind = "file" /\ file.table = export[p].table /\ file.item = export[p].item
    /\ LinesOf(export[p], file.lines)

Inv ==
  /\ Typed
  /\ OneExportPerDirectory
  /\ Orderly
  /\ \A p \in Exporters : OpenFile(p)
  /\ \A path \in DOMAIN files : files[path].table \in Tables

-----------------------------------------------------------------------------
(***************************************************************************)
(* The database is what it is, and what there is of it.                    *)
(***************************************************************************)
\* The tables are numbered from 1 and each has columns.
LEMMA TablesOf ==
  ASSUME Typed
  PROVE  /\ database \in Seq(TableRecord)
         /\ Tables = 1 .. Len(database) /\ Len(database) \in Nat
         /\ \A t \in Tables : database[t] \in TableRecord /\ database[t].columns # <<>>
<1>1. database \in Databases /\ database \in Seq(TableRecord)
  BY DatabasesAssumption DEF Typed
<1>2. Tables = 1 .. Len(database) /\ Len(database) \in Nat
  BY <1>1 DEF Tables
<1>3. ASSUME NEW t \in Tables
      PROVE  database[t] \in TableRecord /\ database[t].columns # <<>>
  BY <1>1, <1>2, <1>3, ColumnsAssumption DEF Tables
<1>. QED
  BY <1>1, <1>2, <1>3

\* The type is one of the database and not of the step.
LEMMA TypeStays ==
  ASSUME database' = database
  PROVE  DatabaseTypeOf(Tables)' = DatabaseTypeOf(Tables)
BY SMT DEF DatabaseTypeOf, KnownTables, Tables

(***************************************************************************)
(* A step of one process keeps what the others have, when the files that   *)
(* are there stay whose and what they are.                                 *)
(***************************************************************************)
FilesKeep(p) ==
  /\ DOMAIN files \subseteq DOMAIN files'
  /\ \A path \in DOMAIN files :
       /\ files'[path].owner = files[path].owner /\ files'[path].kind = files[path].kind
       /\ files'[path].table = files[path].table /\ files'[path].item = files[path].item
       /\ files'[path].lines # files[path].lines => directory = p

LEMMA OthersKeep ==
  ASSUME Inv, NEW p \in Exporters, NEW q \in Exporters, q # p,
         database' = database, directory' = directory \/ directory = "none",
         FilesKeep(p), export'[q] = export[q]
  PROVE  Placed(export[q])' /\ Holds(export[q])' /\ Owned(q)' /\ OpenFile(q)'
<1>1. Placed(export[q]) /\ Holds(export[q]) /\ Owned(q) /\ OpenFile(q)
  BY DEF Inv, Orderly
<1>2. Placed(export[q])'
  BY <1>1, TypeStays DEF Placed, Table, Records, Tables
<1>3. Holds(export[q])'
  BY <1>1 DEF Holds, Table, Records
<1>4. Owned(q)'
  BY <1>1, ExportersAssumption DEF Owned
<1>5. OpenFile(q)'
  <2>1. ASSUME export[q].stage \in InFile
        PROVE  directory = q
    BY <1>1, <2>1 DEF Owned, InFile, InTable
  <2>2. ASSUME export[q].stage \in InFile
        PROVE  files'[export[q].path].lines = files[export[q].path].lines
    BY <1>1, <2>1, <2>2 DEF FilesKeep, OpenFile, Taken
  <2>. QED
    BY <1>1, <2>2 DEF OpenFile, Taken, FilesKeep, LinesOf, Table, Records, HeaderLines
<1>. QED
  BY <1>2, <1>3, <1>4, <1>5

\* A step of a process changes that process.
LEMMA StepIs ==
  ASSUME Typed, NEW p \in Exporters, NEW e \in Process, Step(p, e)
  PROVE  /\ export' \in [Exporters -> Process]
         /\ export'[p] = e
         /\ \A q \in Exporters \ {p} : export'[q] = export[q]
BY DEF Typed, Step

\* The invariant after a step of one process, from what the step does to its own part.
LEMMA InvStep ==
  ASSUME Inv, NEW p \in Exporters, NEW e \in Process, Step(p, e),
         database' = database, directory' = directory \/ directory = "none",
         directory' \in Exporters \cup {"none"},
         FilesKeep(p), files' \in [DOMAIN files' -> File],
         \A path \in DOMAIN files' : files'[path].owner = directory' /\ files'[path].table \in Tables,
         Placed(e), Holds(e),
         e.stage \in InTable \ {"make"} => e.exported,
         e.exported => directory' = p,
         e.stage \in InFile =>
           /\ e.path \in DOMAIN files'
           /\ files'[e.path].kind = "file" /\ files'[e.path].table = e.table /\ files'[e.path].item = e.item
           /\ LinesOf(e, files'[e.path].lines)
  PROVE  Inv'
<1>1. /\ export' \in [Exporters -> Process]
      /\ export'[p] = e
      /\ \A q \in Exporters \ {p} : export'[q] = export[q]
  BY StepIs DEF Inv
<1>2. ASSUME NEW q \in Exporters, q # p
      PROVE  Placed(export[q])' /\ Holds(export[q])' /\ Owned(q)' /\ OpenFile(q)'
  BY <1>1, <1>2, OthersKeep
<1>3. Placed(export[p])'
  BY <1>1, TypeStays DEF Placed, Table, Records, Tables
<1>4. Holds(export[p])'
  BY <1>1 DEF Holds, Table, Records
<1>5. Owned(p)' /\ OpenFile(p)'
  BY <1>1 DEF Owned, OpenFile, Taken, LinesOf, Table, Records, HeaderLines
<1>6. Orderly' /\ \A q \in Exporters : OpenFile(q)'
  BY <1>2, <1>3, <1>4, <1>5 DEF Orderly
<1>7. Typed'
  BY <1>1 DEF Typed, Inv
<1>8. OneExportPerDirectory' /\ \A path \in DOMAIN files' : files'[path].table \in Tables'
  BY DEF OneExportPerDirectory, Tables
<1>. QED
  BY <1>6, <1>7, <1>8 DEF Inv

\* Steps that leave the files alone
LEMMA QuietStep ==
  ASSUME Inv, NEW p \in Exporters, NEW e \in Process, Step(p, e),
         UNCHANGED <<database, directory, files>>,
         Placed(e), Holds(e),
         e.stage \in InTable \ {"make"} => e.exported,
         e.exported => directory = p,
         e.stage \in InFile =>
           /\ e.stage \in {"rows", "close"} /\ export[p].stage \in InFile
           /\ e.path = export[p].path /\ e.table = export[p].table /\ e.item = export[p].item
           /\ LinesOf(e, files[e.path].lines)
  PROVE Inv'
<1>1. FilesKeep(p)
  BY DEF FilesKeep
<1>2. \A path \in DOMAIN files' : files'[path].owner = directory' /\ files'[path].table \in Tables
  BY DEF Inv, OneExportPerDirectory
<1>3. OpenFile(p)
  BY DEF Inv
<1>4. e.stage \in InFile =>
        /\ e.path \in DOMAIN files'
        /\ files'[e.path].kind = "file" /\ files'[e.path].table = e.table /\ files'[e.path].item = e.item
        /\ LinesOf(e, files'[e.path].lines)
  BY <1>3 DEF OpenFile, Taken
<1>5.  directory' \in Exporters \cup {"none"} /\ files' \in [DOMAIN files' -> File]
  BY DEF Inv, Typed
<1>. QED
  BY <1>1, <1>2, <1>4, <1>5, InvStep

\* What the invariant says of one process.
LEMMA ProcessOf ==
  ASSUME Inv, NEW p \in Exporters
  PROVE  /\ export[p] \in Process
         /\ Placed(export[p]) /\ Holds(export[p])
         /\ export[p].stage \in InTable \ {"make"} => export[p].exported
         /\ export[p].exported => directory = p
BY DEF Inv, Typed, Orderly, Owned

LEMMA TypedOf == Inv => Typed
BY DEF Inv

\* Facts about numbers.
LEMMA NatZero == ~ (0 > 0) /\ \A n \in Nat : n > 0 \/ n = 0
OBVIOUS

LEMMA Past == \A n, m \in Nat : n > m /\ n <= m + 1 => n = m + 1
OBVIOUS

LEMMA TwoMore == \A n, m \in Nat : n + 1 < m => n + 1 + 1 \in 1 .. m /\ n + 1 \in Nat /\ n + 1 > 0
OBVIOUS

LEMMA OneMore == \A n, m \in Nat : n \in 1 .. m => n + 1 \in Nat /\ n + 1 \in 1 .. m + 1
OBVIOUS

LEMMA LessThan == \A a, b \in Nat : <<a, b>> \in OpToRel(<, Nat) \/ b <= a
BY DEF OpToRel

\* The first of the types with the most known tables is there, or it is none of them.
LEMMA TypeIsOne ==
  /\ DatabaseTypeOf(Tables) \in Types \cup {0}
  /\ DatabaseTypeOf(Tables) \in Nat
<1>. DEFINE found == {type \in Types : KnownTables(type, Tables) > 0}
            most ==
              {type \in found : \A other \in found : KnownTables(other, Tables) <= KnownTables(type, Tables)}
            first == CHOOSE type \in most : \A other \in most : type <= other
<1>1. Types \subseteq Nat
  BY TypesAssumption DEF Types
<1>2. most \subseteq Types /\ most \subseteq Nat
  BY <1>1
<1>. HIDE DEF most
<1>3. CASE most # {}
  <2>1. \E type \in most : \A other \in most : ~ (<<other, type>> \in OpToRel(<, Nat))
    BY <1>2, <1>3, NatLessThanWellFounded, WFMin
  <2>2. \E type \in most : \A other \in most : type <= other
    BY <1>2, <2>1, LessThan
  <2>3. first \in most
    BY <2>2
  <2>. QED
    BY <1>2, <1>3, <2>3 DEF DatabaseTypeOf, most
<1>. QED
  BY <1>3 DEF DatabaseTypeOf, most

\* The records of the table or of the item that a process is at.
LEMMA RecordsOf ==
  ASSUME Inv, NEW e \in Process, Placed(e), e.stage \in InTable
  PROVE  /\ Table(e) \in TableRecord
         /\ Records(e) \in Seq(Seq(Values)) /\ Len(Records(e)) \in Nat
         /\ \A r \in DOMAIN Records(e) : Records(e)[r] # <<>>
         /\ ItemName(e) \in STRING /\ ItemIndex(e) \in Nat
<1>1. e.table \in Tables /\ e.table \in Nat \ {0} /\ e.item \in Nat
  BY TablesOf DEF Placed, Process, Inv
<1>2. Table(e) \in TableRecord /\ Table(e) = database[e.table] /\ database \in Databases
  BY TablesOf, <1>1 DEF Table, Inv, Typed
<1>3. CASE e.item = 0
  BY <1>1, <1>2, <1>3, RecordsAssumption DEF Records, ItemName, ItemIndex, TableRecord, Tables
<1>4. CASE e.item > 0
  <2>1. e.item + 1 \in DOMAIN Table(e).indexes /\ Table(e).indexes[e.item + 1] \in Index
    BY <1>2, <1>4 DEF Placed, TableRecord
  <2>. QED
    BY <1>1, <1>2, <1>4, <2>1, RecordsAssumption DEF Records, ItemName, ItemIndex, Index, Tables
<1>. QED
  BY <1>1, <1>3, <1>4

-----------------------------------------------------------------------------
(***************************************************************************)
(* The steps that make no file and write to none.  Each lemma says what the *)
(* step makes of the process, for the theorems about action properties.    *)
(***************************************************************************)
LEMMA CheckPathKeeps ==
  ASSUME Inv, NEW p \in Exporters, CheckPath(p)
  PROVE  Inv' /\ export'[p] = [export[p] EXCEPT !.stage = "open"]
<1>. DEFINE o == export[p]
            e == To(o, "open")
<1>1. o \in Process /\ Placed(o) /\ Holds(o) /\ o.stage = "check"
      /\ o.named \in Nat /\ o.table \in Nat /\ o.item \in Nat /\ o.row \in Nat
  BY ProcessOf DEF CheckPath, At, Process
<1>2. Step(p, e) /\ o = export[p]
  BY DEF CheckPath
<1>3. e = [o EXCEPT !.stage = "open"]
  BY <1>1 DEF To, Hold, Let, Process
<1>. HIDE DEF o, e
<1>4. e \in Process
  BY <1>1, <1>3 DEF Process, Stages, Things
<1>5. /\ e.stage = "open" /\ e.held = o.held /\ e.exit = o.exit /\ e.named = o.named /\ e.type = o.type
      /\ e.table = o.table /\ e.item = o.item /\ e.row = o.row /\ e.exported = o.exported
      /\ e.path = o.path
  BY <1>1, <1>3 DEF Process
<1>6. Placed(e)
  BY <1>1, <1>5, NatZero DEF Placed, InTable
<1>7. Holds(e)
  BY <1>1, <1>5, NatZero DEF Holds, InTable, InFile
<1>8. Inv'
  BY <1>1, <1>2, <1>4, <1>5, <1>6, <1>7, ProcessOf, QuietStep DEF CheckPath, InTable, InFile
<1>9. export'[p] = e
  BY <1>2, <1>4, StepIs, TypedOf
<1>. QED
  BY <1>3, <1>8, <1>9 DEF o

LEMMA OpenDatabaseKeeps ==
  ASSUME Inv, NEW p \in Exporters, OpenDatabase(p)
  PROVE  Inv' /\ export'[p] = [export[p] EXCEPT !.stage = "names", !.held = @ \cup {"database"}]
<1>. DEFINE o == export[p]
            e == Hold(To(o, "names"), "database")
<1>1. o \in Process /\ Placed(o) /\ Holds(o) /\ o.stage = "open"
      /\ o.named \in Nat /\ o.table \in Nat /\ o.item \in Nat /\ o.row \in Nat
  BY ProcessOf DEF OpenDatabase, At, Process
<1>2. Step(p, e) /\ o = export[p]
  BY DEF OpenDatabase
<1>3. e = [o EXCEPT !.stage = "names", !.held = @ \cup {"database"}]
  BY <1>1 DEF To, Hold, Let, Process
<1>. HIDE DEF o, e
<1>4. e \in Process
  BY <1>1, <1>3 DEF Process, Stages, Things
<1>5. /\ e.stage = "names" /\ e.held = (o.held \cup {"database"}) /\ e.exit = o.exit
      /\ e.named = o.named /\ e.type = o.type /\ e.table = o.table /\ e.item = o.item /\ e.row = o.row
      /\ e.exported = o.exported /\ e.path = o.path
  BY <1>1, <1>3 DEF Process
<1>6. Placed(e)
  BY <1>1, <1>5, NatZero DEF Placed, InTable
<1>7. Holds(e)
  BY <1>1, <1>5, NatZero DEF Holds, InTable, InFile
<1>8. Inv'
  BY <1>1, <1>2, <1>4, <1>5, <1>6, <1>7, ProcessOf, QuietStep DEF OpenDatabase, InTable, InFile
<1>9. export'[p] = e
  BY <1>2, <1>4, StepIs, TypedOf
<1>. QED
  BY <1>3, <1>8, <1>9 DEF o

LEMMA NoTablesKeeps ==
  ASSUME Inv, NEW p \in Exporters, NoTables(p)
  PROVE  Inv' /\ export'[p] = [export[p] EXCEPT !.stage = "finish"]
<1>. DEFINE o == export[p]
            e == To(o, "finish")
<1>1. o \in Process /\ Placed(o) /\ Holds(o) /\ o.stage = "names"
      /\ o.named \in Nat /\ o.table \in Nat /\ o.item \in Nat /\ o.row \in Nat
  BY ProcessOf DEF NoTables, At, Process
<1>2. Step(p, e) /\ o = export[p]
  BY DEF NoTables
<1>3. Len(database) = 0 /\ o.table = 1 /\ o.named = 0
  BY <1>1 DEF NoTables, Placed
<1>4. e = [o EXCEPT !.stage = "finish"]
  BY <1>1, <1>3 DEF To, Hold, Let, Process
<1>. HIDE DEF o, e
<1>5. e \in Process
  BY <1>1, <1>3, <1>4 DEF Process, Stages, Things
<1>6. /\ e.stage = "finish" /\ e.held = o.held /\ e.exit = o.exit /\ e.named = o.named
      /\ e.type = o.type /\ e.table = o.table /\ e.item = o.item /\ e.row = o.row
      /\ e.exported = o.exported /\ e.path = o.path
  BY <1>1, <1>4 DEF Process
<1>7. Placed(e)
  BY <1>1, <1>3, <1>6, NatZero DEF Placed, InTable, Tables
<1>8. Holds(e)
  BY <1>1, <1>3, <1>6, NatZero DEF Holds, InTable, InFile
<1>9. Inv'
  BY <1>1, <1>2, <1>3, <1>5, <1>6, <1>7, <1>8, ProcessOf, QuietStep DEF NoTables, InTable, InFile
<1>10. export'[p] = e
  BY <1>2, <1>5, StepIs, TypedOf
<1>. QED
  BY <1>4, <1>9, <1>10 DEF o

LEMMA CollectNameKeeps ==
  ASSUME Inv, NEW p \in Exporters, CollectName(p)
  PROVE  Inv' /\ export'[p] = [export[p] EXCEPT !.held = @ \cup {"names"}, !.named = @ + 1]
<1>. DEFINE o == export[p]
            e == [Hold(o, "names") EXCEPT !.named = @ + 1]
<1>1. o \in Process /\ Placed(o) /\ Holds(o) /\ o.stage = "names"
      /\ o.named \in Nat /\ o.table \in Nat /\ o.item \in Nat /\ o.row \in Nat
  BY ProcessOf DEF CollectName, At, Process
<1>2. Step(p, e) /\ o = export[p]
  BY DEF CollectName
<1>3. o.named + 1 <= Len(database) /\ o.named + 1 \in Nat
  BY <1>1, TablesOf DEF Inv, CollectName, Process
<1>4. e = [o EXCEPT !.held = @ \cup {"names"}, !.named = @ + 1]
  BY <1>1, <1>3 DEF To, Hold, Let, Process
<1>. HIDE DEF o, e
<1>5. e \in Process
  BY <1>1, <1>3, <1>4 DEF Process, Stages, Things
<1>6. /\ e.stage = o.stage /\ e.held = (o.held \cup {"names"}) /\ e.exit = o.exit
      /\ e.named = (o.named + 1) /\ e.type = o.type /\ e.table = o.table /\ e.item = o.item
      /\ e.row = o.row /\ e.exported = o.exported /\ e.path = o.path
  BY <1>1, <1>4 DEF Process
<1>7. Placed(e)
  BY <1>1, <1>3, <1>6, NatZero DEF Placed, InTable
<1>8. Holds(e)
  BY <1>1, <1>3, <1>6, NatZero DEF Holds, InTable, InFile
<1>9. Inv'
  BY <1>1, <1>2, <1>3, <1>5, <1>6, <1>7, <1>8, ProcessOf, QuietStep DEF CollectName, InTable, InFile
<1>10. export'[p] = e
  BY <1>2, <1>5, StepIs, TypedOf
<1>. QED
  BY <1>4, <1>9, <1>10 DEF o

LEMMA DetermineTypeKeeps ==
  ASSUME Inv, NEW p \in Exporters, DetermineType(p)
  PROVE  Inv' /\ export'[p] = [export[p] EXCEPT !.stage = "select", !.type = DatabaseTypeOf(Tables)]
<1>. DEFINE o == export[p]
            e == [To(o, "select") EXCEPT !.type = DatabaseType(o)]
<1>1. o \in Process /\ Placed(o) /\ Holds(o) /\ o.stage = "names"
      /\ o.named \in Nat /\ o.table \in Nat /\ o.item \in Nat /\ o.row \in Nat
  BY ProcessOf DEF DetermineType, At, Process
<1>2. Step(p, e) /\ o = export[p]
  BY DEF DetermineType
<1>3. DatabaseType(o) = DatabaseTypeOf(Tables)
  BY TablesOf DEF DatabaseType, DetermineType, Inv
<1>4. DatabaseTypeOf(Tables) \in Types \cup {0} /\ DatabaseTypeOf(Tables) \in Nat
  BY TypeIsOne
<1>5. e = [o EXCEPT !.stage = "select", !.type = DatabaseTypeOf(Tables)]
  BY <1>1, <1>3, <1>4 DEF To, Hold, Let, Process
<1>. HIDE DEF o, e
<1>6. e \in Process
  BY <1>1, <1>3, <1>4, <1>5 DEF Process, Stages, Things
<1>7. /\ e.stage = "select" /\ e.held = o.held /\ e.exit = o.exit /\ e.named = o.named
      /\ e.type = DatabaseTypeOf(Tables) /\ e.table = o.table /\ e.item = o.item /\ e.row = o.row
      /\ e.exported = o.exported /\ e.path = o.path
  BY <1>1, <1>5 DEF Process
<1>8. Placed(e)
  BY <1>1, <1>3, <1>4, <1>7, NatZero DEF Placed, InTable
<1>9. Holds(e)
  BY <1>1, <1>3, <1>4, <1>7, NatZero DEF Holds, InTable, InFile
<1>10. Inv'
  BY <1>1, <1>2, <1>3, <1>4, <1>6, <1>7, <1>8, <1>9, ProcessOf, QuietStep DEF DetermineType, InTable, InFile
<1>11. export'[p] = e
  BY <1>2, <1>6, StepIs, TypedOf
<1>. QED
  BY <1>5, <1>10, <1>11 DEF o

LEMMA PassOverKeeps ==
  ASSUME Inv, NEW p \in Exporters, PassOver(p)
  PROVE  Inv' /\ export'[p] = [export[p] EXCEPT !.table = @ + 1]
<1>. DEFINE o == export[p]
            e == [o EXCEPT !.table = @ + 1]
<1>1. o \in Process /\ Placed(o) /\ Holds(o) /\ o.stage = "select"
      /\ o.named \in Nat /\ o.table \in Nat /\ o.item \in Nat /\ o.row \in Nat
  BY ProcessOf DEF PassOver, At, Process
<1>2. Step(p, e) /\ o = export[p]
  BY DEF PassOver
<1>3. o.table \in 1 .. Len(database) /\ Len(database) \in Nat /\ o.table + 1 \in Nat
  BY <1>1, TablesOf DEF Inv, PassOver, Process
<1>4. e = [o EXCEPT !.table = @ + 1]
  BY <1>1, <1>3 DEF To, Hold, Let, Process
<1>. HIDE DEF o, e
<1>5. e \in Process
  BY <1>1, <1>3, <1>4 DEF Process, Stages, Things
<1>6. /\ e.stage = o.stage /\ e.held = o.held /\ e.exit = o.exit /\ e.named = o.named
      /\ e.type = o.type /\ e.table = (o.table + 1) /\ e.item = o.item /\ e.row = o.row
      /\ e.exported = o.exported /\ e.path = o.path
  BY <1>1, <1>4 DEF Process
<1>7. Placed(e)
  BY <1>1, <1>3, <1>6, NatZero DEF Placed, InTable
<1>8. Holds(e)
  BY <1>1, <1>3, <1>6, NatZero DEF Holds, InTable, InFile
<1>9. Inv'
  BY <1>1, <1>2, <1>3, <1>5, <1>6, <1>7, <1>8, ProcessOf, QuietStep DEF PassOver, InTable, InFile
<1>10. export'[p] = e
  BY <1>2, <1>5, StepIs, TypedOf
<1>. QED
  BY <1>4, <1>9, <1>10 DEF o

LEMMA GetTableKeeps ==
  ASSUME Inv, NEW p \in Exporters, GetTable(p)
  PROVE  Inv' /\ export'[p] = [export[p] EXCEPT !.stage = IF export[p].exported THEN "create" ELSE "make",
                                                !.held = @ \cup {"table"}]
<1>. DEFINE o == export[p]
            e == Hold(To(o, IF o.exported THEN "create" ELSE "make"), "table")
<1>1. o \in Process /\ Placed(o) /\ Holds(o) /\ o.stage = "select"
      /\ o.named \in Nat /\ o.table \in Nat /\ o.item \in Nat /\ o.row \in Nat
  BY ProcessOf DEF GetTable, At, Process
<1>2. Step(p, e) /\ o = export[p]
  BY DEF GetTable
<1>3. o.table \in Tables /\ o.item = 0
  BY <1>1, NatZero DEF GetTable, Holds
<1>4. e = [o EXCEPT !.stage = IF o.exported THEN "create" ELSE "make", !.held = @ \cup {"table"}]
  BY <1>1, <1>3 DEF To, Hold, Let, Process
<1>. HIDE DEF o, e
<1>5. e \in Process
  BY <1>1, <1>3, <1>4 DEF Process, Stages, Things
<1>6. /\ e.stage = (IF o.exported THEN "create" ELSE "make") /\ e.held = (o.held \cup {"table"})
      /\ e.exit = o.exit /\ e.named = o.named /\ e.type = o.type /\ e.table = o.table
      /\ e.item = o.item /\ e.row = o.row /\ e.exported = o.exported /\ e.path = o.path
  BY <1>1, <1>4 DEF Process
<1>7. Placed(e)
  BY <1>1, <1>3, <1>6, NatZero DEF Placed, InTable
<1>8. Holds(e)
  BY <1>1, <1>3, <1>6, NatZero DEF Holds, InTable, InFile
<1>9. Inv'
  BY <1>1, <1>2, <1>3, <1>5, <1>6, <1>7, <1>8, ProcessOf, QuietStep DEF GetTable, InTable, InFile
<1>10. export'[p] = e
  BY <1>2, <1>5, StepIs, TypedOf
<1>. QED
  BY <1>4, <1>9, <1>10 DEF o

LEMMA SkipFileKeeps ==
  ASSUME Inv, NEW p \in Exporters, SkipFile(p)
  PROVE  Inv' /\ export'[p] = [export[p] EXCEPT
                               !.stage = IF export[p].item = 0 THEN "next table" ELSE "next index"]
<1>. DEFINE o == export[p]
            e == To(o, IF o.item = 0 THEN "next table" ELSE "next index")
<1>1. o \in Process /\ Placed(o) /\ Holds(o) /\ o.stage = "create"
      /\ o.named \in Nat /\ o.table \in Nat /\ o.item \in Nat /\ o.row \in Nat
  BY ProcessOf DEF SkipFile, At, Process
<1>2. Step(p, e) /\ o = export[p]
  BY DEF SkipFile
<1>3. e = [o EXCEPT !.stage = IF o.item = 0 THEN "next table" ELSE "next index"]
  BY <1>1 DEF To, Hold, Let, Process
<1>. HIDE DEF o, e
<1>4. e \in Process
  BY <1>1, <1>3 DEF Process, Stages, Things
<1>5. /\ e.stage = (IF o.item = 0 THEN "next table" ELSE "next index") /\ e.held = o.held
      /\ e.exit = o.exit /\ e.named = o.named /\ e.type = o.type /\ e.table = o.table
      /\ e.item = o.item /\ e.row = o.row /\ e.exported = o.exported /\ e.path = o.path
  BY <1>1, <1>3 DEF Process
<1>6. Placed(e)
  <2>1. CASE o.item = 0
    BY <1>1, <1>5, <2>1, NatZero DEF Placed, InTable, Table
  <2>2. CASE o.item > 0
    BY <1>1, <1>5, <2>2, NatZero DEF Placed, InTable, Table
  <2>. QED
    BY <1>1, <2>1, <2>2, NatZero
<1>7. Holds(e)
  <2>1. CASE o.item = 0
    BY <1>1, <1>5, <2>1, NatZero DEF Holds, InTable, InFile
  <2>2. CASE o.item > 0
    BY <1>1, <1>5, <2>2, NatZero DEF Holds, InTable, InFile
  <2>. QED
    BY <1>1, <2>1, <2>2, NatZero
<1>8. Inv'
  BY <1>1, <1>2, <1>4, <1>5, <1>6, <1>7, ProcessOf, QuietStep DEF SkipFile, InTable, InFile
<1>9. export'[p] = e
  BY <1>2, <1>4, StepIs, TypedOf
<1>. QED
  BY <1>3, <1>8, <1>9 DEF o

LEMMA NextTableKeeps ==
  ASSUME Inv, NEW p \in Exporters, NextTable(p)
  PROVE  Inv' /\ export'[p] = [export[p] EXCEPT !.stage = "select", !.held = @ \ {"table"},
                                                !.table = @ + 1, !.item = 0]
<1>. DEFINE o == export[p]
            e == [Let(To(o, "select"), "table") EXCEPT !.table = @ + 1, !.item = 0]
<1>1. o \in Process /\ Placed(o) /\ Holds(o) /\ o.stage = "next table"
      /\ o.named \in Nat /\ o.table \in Nat /\ o.item \in Nat /\ o.row \in Nat
  BY ProcessOf DEF NextTable, At, Process
<1>2. Step(p, e) /\ o = export[p]
  BY DEF NextTable
<1>3. o.table \in Tables
  BY <1>1 DEF Placed, InTable
<1>4. o.table \in 1 .. Len(database) /\ Len(database) \in Nat
  BY <1>3, TypedOf, TablesOf
<1>5. o.table + 1 \in Nat /\ o.table + 1 \in 1 .. Len(database) + 1
  BY <1>1, <1>4, OneMore
<1>6. e = [o EXCEPT !.stage = "select", !.held = @ \ {"table"}, !.table = @ + 1, !.item = 0]
  BY <1>1, <1>3, <1>4, <1>5 DEF To, Hold, Let, Process
<1>. HIDE DEF o, e
<1>7. e \in Process
  BY <1>1, <1>3, <1>4, <1>5, <1>6 DEF Process, Stages, Things
<1>8. /\ e.stage = "select" /\ e.held = (o.held \ {"table"}) /\ e.exit = o.exit /\ e.named = o.named
      /\ e.type = o.type /\ e.table = (o.table + 1) /\ e.item = 0 /\ e.row = o.row
      /\ e.exported = o.exported /\ e.path = o.path
  BY <1>1, <1>6 DEF Process
<1>9. Placed(e)
  BY <1>1, <1>3, <1>4, <1>5, <1>8, NatZero DEF Placed, InTable
<1>10. Holds(e)
  BY <1>1, <1>8, NatZero DEF Holds, InTable, InFile
<1>11. Inv'
  BY <1>1, <1>2, <1>3, <1>4, <1>5, <1>7, <1>8, <1>9, <1>10, ProcessOf, QuietStep DEF NextTable, InTable, InFile
<1>12. export'[p] = e
  BY <1>2, <1>7, StepIs, TypedOf
<1>. QED
  BY <1>6, <1>11, <1>12 DEF o

LEMMA EndOfTablesKeeps ==
  ASSUME Inv, NEW p \in Exporters, EndOfTables(p)
  PROVE  Inv' /\ export'[p] = [export[p] EXCEPT !.stage = "finish", !.held = @ \ {"names"}]
<1>. DEFINE o == export[p]
            e == Let(To(o, "finish"), "names")
<1>1. o \in Process /\ Placed(o) /\ Holds(o) /\ o.stage = "select"
      /\ o.named \in Nat /\ o.table \in Nat /\ o.item \in Nat /\ o.row \in Nat
  BY ProcessOf DEF EndOfTables, At, Process
<1>2. Step(p, e) /\ o = export[p]
  BY DEF EndOfTables
<1>3. o.table = Len(database) + 1
  BY <1>1, TablesOf DEF Inv, Placed, EndOfTables, Process
<1>4. e = [o EXCEPT !.stage = "finish", !.held = @ \ {"names"}]
  BY <1>1, <1>3 DEF To, Hold, Let, Process
<1>. HIDE DEF o, e
<1>5. e \in Process
  BY <1>1, <1>3, <1>4 DEF Process, Stages, Things
<1>6. /\ e.stage = "finish" /\ e.held = (o.held \ {"names"}) /\ e.exit = o.exit /\ e.named = o.named
      /\ e.type = o.type /\ e.table = o.table /\ e.item = o.item /\ e.row = o.row
      /\ e.exported = o.exported /\ e.path = o.path
  BY <1>1, <1>4 DEF Process
<1>7. Placed(e)
  BY <1>1, <1>3, <1>6, NatZero DEF Placed, InTable
<1>8. Holds(e)
  BY <1>1, <1>3, <1>6, NatZero DEF Holds, InTable, InFile
<1>9. Inv'
  BY <1>1, <1>2, <1>3, <1>5, <1>6, <1>7, <1>8, ProcessOf, QuietStep DEF EndOfTables, InTable, InFile
<1>10. export'[p] = e
  BY <1>2, <1>5, StepIs, TypedOf
<1>. QED
  BY <1>4, <1>9, <1>10 DEF o

LEMMA LastRecordKeeps ==
  ASSUME Inv, NEW p \in Exporters, LastRecord(p)
  PROVE  Inv' /\ export'[p] = [export[p] EXCEPT !.stage = "close"]
<1>. DEFINE o == export[p]
            e == To(o, "close")
<1>1. o \in Process /\ Placed(o) /\ Holds(o) /\ o.stage = "rows"
      /\ o.named \in Nat /\ o.table \in Nat /\ o.item \in Nat /\ o.row \in Nat
  BY ProcessOf DEF LastRecord, At, Process
<1>2. Step(p, e) /\ o = export[p]
  BY DEF LastRecord
<1>3. o.row > Len(Records(o)) /\ Len(Records(o)) \in Nat
  BY <1>1, RecordsOf DEF LastRecord, InTable
<1>4. o.row = Len(Records(o)) + 1
  BY <1>1, <1>3, Past DEF Placed
<1>5. e = [o EXCEPT !.stage = "close"]
  BY <1>1, <1>3, <1>4 DEF To, Hold, Let, Process
<1>. HIDE DEF o, e
<1>6. e \in Process
  BY <1>1, <1>3, <1>4, <1>5 DEF Process, Stages, Things
<1>7. /\ e.stage = "close" /\ e.held = o.held /\ e.exit = o.exit /\ e.named = o.named
      /\ e.type = o.type /\ e.table = o.table /\ e.item = o.item /\ e.row = o.row
      /\ e.exported = o.exported /\ e.path = o.path
  BY <1>1, <1>5 DEF Process
<1>8. Placed(e)
  BY <1>1, <1>3, <1>4, <1>7, NatZero DEF Placed, InTable, Records, Table
<1>9. Holds(e)
  BY <1>1, <1>3, <1>4, <1>7, NatZero DEF Holds, InTable, InFile
<1>10. OpenFile(p)
  BY DEF Inv
<1>11. LinesOf(e, files[e.path].lines)
  BY <1>1, <1>2, <1>7, <1>10 DEF OpenFile, LinesOf, InFile, Table, Records, HeaderLines
<1>12. Inv'
  BY <1>1, <1>2, <1>6, <1>7, <1>8, <1>9, <1>11, ProcessOf, QuietStep DEF LastRecord, InTable, InFile
<1>13. export'[p] = e
  BY <1>2, <1>6, StepIs, TypedOf
<1>. QED
  BY <1>5, <1>12, <1>13 DEF o


LEMMA CloseFileKeeps ==
  ASSUME Inv, NEW p \in Exporters, CloseFile(p)
  PROVE  Inv' /\ export'[p] = [export[p] EXCEPT !.stage = AfterItem(export[p]), !.held = @ \ {"stream"}]
<1>. DEFINE o == export[p]
            e == Let(To(o, AfterItem(o)), "stream")
<1>1. o \in Process /\ Placed(o) /\ Holds(o) /\ o.stage = "close"
      /\ o.named \in Nat /\ o.table \in Nat /\ o.item \in Nat /\ o.row \in Nat
  BY ProcessOf DEF CloseFile, At, Process
<1>2. Step(p, e) /\ o = export[p]
  BY DEF CloseFile
<1>3. e = [o EXCEPT !.stage = AfterItem(o), !.held = @ \ {"stream"}]
  BY <1>1 DEF To, Hold, Let, Process
<1>. HIDE DEF o, e
<1>4. e \in Process
  BY <1>1, <1>3 DEF Process, Stages, Things, AfterItem
<1>5. /\ e.stage = AfterItem(o) /\ e.held = (o.held \ {"stream"}) /\ e.exit = o.exit
      /\ e.named = o.named /\ e.type = o.type /\ e.table = o.table /\ e.item = o.item /\ e.row = o.row
      /\ e.exported = o.exported /\ e.path = o.path
  BY <1>1, <1>3 DEF Process
<1>6. Placed(e)
  <2>1. CASE o.item = 0
    BY <1>1, <1>5, <2>1, NatZero DEF Placed, InTable, AfterItem, Table
  <2>2. CASE o.item > 0
    BY <1>1, <1>5, <2>2, NatZero DEF Placed, InTable, AfterItem, Table
  <2>. QED
    BY <1>1, <2>1, <2>2, NatZero
<1>7. Holds(e)
  <2>1. CASE o.item = 0
    BY <1>1, <1>5, <2>1, NatZero DEF Holds, InTable, InFile, AfterItem
  <2>2. CASE o.item > 0
    BY <1>1, <1>5, <2>2, NatZero DEF Holds, InTable, InFile, AfterItem
  <2>. QED
    BY <1>1, <2>1, <2>2, NatZero
<1>8. Inv'
  BY <1>1, <1>2, <1>4, <1>5, <1>6, <1>7, ProcessOf, QuietStep DEF CloseFile, InTable, InFile, AfterItem
<1>9. export'[p] = e
  BY <1>2, <1>4, StepIs, TypedOf
<1>. QED
  BY <1>3, <1>8, <1>9 DEF o

LEMMA SkipIndexesKeeps ==
  ASSUME Inv, NEW p \in Exporters, SkipIndexes(p)
  PROVE  Inv' /\ export'[p] = [export[p] EXCEPT !.stage = "next table"]
<1>. DEFINE o == export[p]
            e == To(o, "next table")
<1>1. o \in Process /\ Placed(o) /\ Holds(o) /\ o.stage = "index directory"
      /\ o.named \in Nat /\ o.table \in Nat /\ o.item \in Nat /\ o.row \in Nat
  BY ProcessOf DEF SkipIndexes, At, Process
<1>2. Step(p, e) /\ o = export[p]
  BY DEF SkipIndexes
<1>3. o.item = 0
  BY <1>1, NatZero DEF Holds
<1>4. e = [o EXCEPT !.stage = "next table"]
  BY <1>1, <1>3 DEF To, Hold, Let, Process
<1>. HIDE DEF o, e
<1>5. e \in Process
  BY <1>1, <1>3, <1>4 DEF Process, Stages, Things
<1>6. /\ e.stage = ("next table") /\ e.held = o.held /\ e.exit = o.exit /\ e.named = o.named
      /\ e.type = o.type /\ e.table = o.table /\ e.item = o.item /\ e.row = o.row
      /\ e.exported = o.exported /\ e.path = o.path
  BY <1>1, <1>4 DEF Process
<1>7. Placed(e)
  BY <1>1, <1>3, <1>6, NatZero DEF Placed, InTable
<1>8. Holds(e)
  BY <1>1, <1>3, <1>6, NatZero DEF Holds, InTable, InFile
<1>9. Inv'
  BY <1>1, <1>2, <1>3, <1>5, <1>6, <1>7, <1>8, ProcessOf, QuietStep DEF SkipIndexes, InTable, InFile
<1>10. export'[p] = e
  BY <1>2, <1>5, StepIs, TypedOf
<1>. QED
  BY <1>4, <1>9, <1>10 DEF o

LEMMA FinishKeeps ==
  ASSUME Inv, NEW p \in Exporters, Finish(p)
  PROVE  Inv' /\ export'[p] = [export[p] EXCEPT !.stage = "end", !.held = @ \ {"database"},
                                          !.exit = IF export[p].exported \/ export[p].wanted = Every
                                                   THEN "success" ELSE "failure"]
<1>. DEFINE o == export[p]
            e == [Let(To(o, "end"), "database")
                    EXCEPT !.exit = IF o.exported \/ o.wanted = Every THEN "success" ELSE "failure"]
<1>1. o \in Process /\ Placed(o) /\ Holds(o) /\ o.stage = "finish"
      /\ o.named \in Nat /\ o.table \in Nat /\ o.item \in Nat /\ o.row \in Nat
  BY ProcessOf DEF Finish, At, Process
<1>2. Step(p, e) /\ o = export[p]
  BY DEF Finish
<1>3. o.held \ {"database"} = {}
  BY <1>1 DEF Holds, Process, Things, InTable, InFile
<1>4. e = [o EXCEPT !.stage = "end", !.held = @ \ {"database"},
          !.exit = IF o.exported \/ o.wanted = Every THEN "success" ELSE "failure"]
  BY <1>1, <1>3 DEF To, Hold, Let, Process
<1>. HIDE DEF o, e
<1>5. e \in Process
  BY <1>1, <1>3, <1>4 DEF Process, Stages, Things
<1>6. /\ e.stage = "end" /\ e.held = (o.held \ {"database"})
      /\ e.exit = (IF o.exported \/ o.wanted = Every THEN "success" ELSE "failure")
      /\ e.named = o.named /\ e.type = o.type /\ e.table = o.table /\ e.item = o.item /\ e.row = o.row
      /\ e.exported = o.exported /\ e.path = o.path
  BY <1>1, <1>4 DEF Process
<1>7. Placed(e)
  BY <1>1, <1>3, <1>6, NatZero DEF Placed, InTable
<1>8. Holds(e)
  BY <1>1, <1>3, <1>6, NatZero DEF Holds, InTable, InFile
<1>9. Inv'
  BY <1>1, <1>2, <1>3, <1>5, <1>6, <1>7, <1>8, ProcessOf, QuietStep DEF Finish, InTable, InFile
<1>10. export'[p] = e
  BY <1>2, <1>5, StepIs, TypedOf
<1>. QED
  BY <1>4, <1>9, <1>10 DEF o

-----------------------------------------------------------------------------
(***************************************************************************)
(* The steps that make a file or write to one.                             *)
(***************************************************************************)
\* An empty line begins the next record.
LEMMA RowBegins ==
  ASSUME NEW lines \in Seq(Seq(Written)), NEW header \in {0, 1},
         NEW records \in Seq(Seq(Values)), NEW n \in Nat,
         n < Len(records), records[n + 1] # <<>>, RowsWritten(lines, header, records, n),
         NEW new, new = Append(lines, <<>>)
  PROVE  new \in Seq(Seq(Written)) /\ RowBegun(new, header, records, n)
<1>1. records[n + 1] \in Seq(Values) /\ Len(records[n + 1]) > 0
  BY DEF RowsWritten, RowBegun
<1>2. Len(lines) = header + n
  BY DEF RowsWritten, RowBegun
<1>3. new \in Seq(Seq(Written)) /\ Len(new) = header + n + 1 /\ new[header + n + 1] = <<>>
  BY <1>2
<1>4. ASSUME NEW r \in 1 .. n PROVE new[header + r] = lines[header + r]
  BY <1>2
<1>. QED
  BY <1>1, <1>2, <1>3, <1>4 DEF RowsWritten, RowBegun

\* The last line has a cell more.
Grown(new, lines) ==
  /\ Len(new) = Len(lines) /\ Len(new[Len(lines)]) = Len(lines[Len(lines)]) + 1
  /\ \A i \in 1 .. Len(lines) - 1 : new[i] = lines[i]

\* One value more in the line: the record goes on, or is whole.
LEMMA RowGrows ==
  ASSUME NEW lines \in Seq(Seq(Written)), NEW header \in {0, 1},
         NEW records \in Seq(Seq(Values)), NEW n \in Nat,
         RowBegun(lines, header, records, n), NEW new \in Seq(Seq(Written)), Grown(new, lines)
  PROVE  /\ n < Len(records) /\ Len(lines) = header + n + 1
         /\ Len(new[Len(lines)]) < Len(records[n + 1]) => RowBegun(new, header, records, n)
         /\ Len(new[Len(lines)]) >= Len(records[n + 1]) => RowsWritten(new, header, records, n + 1)
<1>. DEFINE line == new[Len(lines)]
<1>1. Len(lines) = header + n + 1 /\ n < Len(records) /\ Len(lines[header + n + 1]) < Len(records[n + 1])
  BY DEF RowBegun
<1>2. lines[Len(lines)] \in Seq(Written) /\ Len(line) \in Nat /\ Len(line) = Len(lines[Len(lines)]) + 1
  BY <1>1 DEF Grown
<1>3. Len(new) = Len(lines) /\ new[Len(lines)] = line
  BY DEF Grown
<1>. HIDE DEF line
<1>4. ASSUME NEW r \in 1 .. n PROVE Len(new[header + r]) = Len(records[r])
  <2>1. header + r \in 1 .. Len(lines) - 1
    BY <1>1
  <2>. QED
    BY <2>1 DEF RowBegun, Grown
<1>5. records[n + 1] \in Seq(Values) /\ Len(records[n + 1]) \in Nat
  BY <1>1
<1>6. Len(line) <= Len(records[n + 1])
  BY <1>1, <1>2, <1>5
<1>7. ASSUME Len(line) < Len(records[n + 1]) PROVE RowBegun(new, header, records, n)
  BY <1>1, <1>3, <1>4, <1>7 DEF RowBegun
<1>8. ASSUME Len(line) >= Len(records[n + 1]) PROVE RowsWritten(new, header, records, n + 1)
  <2>1. Len(line) = Len(records[n + 1])
    <3>1. \A m, k \in Nat : m <= k /\ m >= k => m = k
      OBVIOUS
    <3>2. Len(line) \in Nat
      BY <1>2
    <3>. QED
      BY <1>5, <1>6, <1>8, <3>1, <3>2
  <2>2. ASSUME NEW r \in 1 .. n + 1 PROVE Len(new[header + r]) = Len(records[r])
    <3>1. CASE r \in 1 .. n
      BY <1>4, <3>1
    <3>2. CASE r = n + 1
      BY <1>1, <1>3, <2>1, <3>2
    <3>. QED
      BY <3>1, <3>2
  <2>. QED
    BY <1>1, <1>3, <2>2 DEF RowsWritten
<1>. QED
  BY <1>1, <1>3, <1>7, <1>8 DEF line

\* A file that is made at a free path leaves the others.
LEMMA WithFileKeeps ==
  ASSUME Typed, NEW p, NEW path, path \notin DOMAIN files, NEW file \in File, files' = WithFile(path, file)
  PROVE  /\ FilesKeep(p) /\ files' \in [DOMAIN files' -> File]
         /\ DOMAIN files' = DOMAIN files \cup {path} /\ files'[path] = file
         /\ \A other \in DOMAIN files : files'[other] = files[other]
<1>1. /\ DOMAIN files' = DOMAIN files \cup {path} /\ files'[path] = file
      /\ \A other \in DOMAIN files : files'[other] = files[other]
  BY DEF WithFile
<1>2. files' \in [DOMAIN files' -> File]
  BY <1>1 DEF WithFile, Typed
<1>3. FilesKeep(p)
  BY <1>1 DEF FilesKeep
<1>. QED
  BY <1>1, <1>2, <1>3

\* Writing changes the lines of one file.
LEMMA WriteKeeps ==
  ASSUME Typed, NEW p, directory = p, NEW path \in DOMAIN files, NEW lines \in Seq(Seq(Written)),
         NEW lost \in BOOLEAN, Write(path, lines, lost)
  PROVE  /\ FilesKeep(p) /\ files' \in [DOMAIN files' -> File] /\ DOMAIN files' = DOMAIN files
         /\ files'[path].lines = lines
         /\ \A other \in DOMAIN files \ {path} : files'[other] = files[other]
<1>1. /\ DOMAIN files' = DOMAIN files /\ files'[path] = [files[path] EXCEPT !.lines = lines, !.lost = @ \/ lost]
      /\ \A other \in DOMAIN files \ {path} : files'[other] = files[other]
  BY DEF Write, Typed
<1>2. files[path] \in File
  BY DEF Typed
<1>3. /\ files'[path] \in File /\ files'[path].lines = lines
      /\ files'[path].owner = files[path].owner /\ files'[path].kind = files[path].kind
      /\ files'[path].table = files[path].table /\ files'[path].item = files[path].item
  BY <1>1, <1>2 DEF File
<1>4. files' \in [DOMAIN files' -> File]
  BY <1>1, <1>3 DEF Write, Typed
<1>5. FilesKeep(p)
  BY <1>1, <1>3 DEF FilesKeep
<1>. QED
  BY <1>1, <1>3, <1>4, <1>5

\* The invariant after a step that writes to the file that the process has open.
LEMMA WriteStep ==
  ASSUME Inv, NEW p \in Exporters, export[p].stage \in InFile,
         NEW e \in Process, Step(p, e), NEW lines \in Seq(Seq(Written)),
         NEW lost \in BOOLEAN, Write(export[p].path, lines, lost),
         UNCHANGED <<database, directory>>, Placed(e), Holds(e), LinesOf(e, lines), e.stage \in InFile,
         e.path = export[p].path, e.table = export[p].table, e.item = export[p].item,
         e.exported = export[p].exported
  PROVE  Inv'
<1>. DEFINE path == export[p].path
<1>1. OpenFile(p) /\ path \in DOMAIN files /\ export[p].exported /\ directory = p
  BY ProcessOf DEF Inv, OpenFile, Taken, InFile, InTable
<1>2. /\ FilesKeep(p) /\ files' \in [DOMAIN files' -> File] /\ DOMAIN files' = DOMAIN files
      /\ files'[path].lines = lines
  BY <1>1, TypedOf, WriteKeeps
<1>3. \A other \in DOMAIN files' : files'[other].owner = directory' /\ files'[other].table \in Tables
  BY <1>2 DEF FilesKeep, Inv, OneExportPerDirectory
<1>4. /\ e.path \in DOMAIN files'
      /\ files'[e.path].kind = "file" /\ files'[e.path].table = e.table /\ files'[e.path].item = e.item
      /\ LinesOf(e, files'[e.path].lines)
  BY <1>1, <1>2 DEF FilesKeep, OpenFile
<1>. QED
  BY <1>1, <1>2, <1>3, <1>4, InvStep, TypedOf DEF Typed

\* A process that has printed is where it was, with a write lost or not.
LEMMA PrintingIs ==
  ASSUME NEW x \in Process, NEW lost \in BOOLEAN, NEW y, y = Printing(x, lost)
  PROVE  /\ y \in Process /\ y.lossy = (x.lossy \/ lost)
         /\ y.mode = x.mode /\ y.wanted = x.wanted /\ y.stage = x.stage /\ y.held = x.held /\ y.exit = x.exit
         /\ y.named = x.named /\ y.type = x.type /\ y.table = x.table /\ y.item = x.item /\ y.row = x.row
         /\ y.exported = x.exported /\ y.path = x.path
<1>1. x.lossy \in BOOLEAN
  BY DEF Process
<1>2. PICK lossy \in BOOLEAN : lossy = (x.lossy \/ lost)
  BY <1>1
<1>3. y = [x EXCEPT !.lossy = lossy]
  BY <1>2 DEF Printing
<1>. QED
  BY <1>2, <1>3 DEF Process

\* The invariant after a step that prints to the file that the process has open.
LEMMA PrintStep ==
  ASSUME Inv, NEW p \in Exporters, export[p].stage \in InFile, NEW x \in Process, NEW lost \in BOOLEAN,
         Step(p, Printing(x, lost)), NEW lines \in Seq(Seq(Written)), Write(export[p].path, lines, lost),
         UNCHANGED <<database, directory>>, Placed(x), Holds(x), LinesOf(x, lines), x.stage \in InFile,
         x.path = export[p].path, x.table = export[p].table, x.item = export[p].item,
         x.exported = export[p].exported
  PROVE  Inv'
<1>. PICK e : e = Printing(x, lost)
  OBVIOUS
<1>1. /\ e \in Process /\ e.stage = x.stage /\ e.held = x.held /\ e.exit = x.exit
      /\ e.named = x.named /\ e.type = x.type /\ e.table = x.table /\ e.item = x.item /\ e.row = x.row
      /\ e.exported = x.exported /\ e.path = x.path
  BY PrintingIs
<1>2. Table(e) = Table(x) /\ Records(e) = Records(x) /\ HeaderLines(e) = HeaderLines(x)
  BY <1>1 DEF Table, Records, HeaderLines
<1>3. Placed(e) /\ Holds(e)
  BY <1>1, <1>2 DEF Placed, Holds
<1>4. LinesOf(e, lines)
  BY <1>1, <1>2 DEF LinesOf
<1>. QED
  BY <1>1, <1>3, <1>4, WriteStep

LEMMA GivesUpKeeps ==
  ASSUME Inv, NEW p \in Exporters, GivesUp(p)
  PROVE  Inv' /\ export'[p] = [export[p] EXCEPT !.stage = "end", !.held = {}, !.exit = "failure"]
<1>. DEFINE o == export[p]
            e == Abandoned(o)
<1>1. o \in Process /\ Placed(o) /\ Holds(o)
  BY ProcessOf
<1>2. Step(p, e) /\ o = export[p]
  BY DEF GivesUp
<1>3. e = [o EXCEPT !.stage = "end", !.held = {}, !.exit = "failure"]
  BY <1>1 DEF Abandoned, To, Process
<1>. HIDE DEF o, e
<1>4. e \in Process
  BY <1>1, <1>3 DEF Process, Stages
<1>5. /\ e.stage = "end" /\ e.held = {} /\ e.exit = "failure" /\ e.named = o.named
      /\ e.type = o.type /\ e.table = o.table /\ e.item = o.item /\ e.row = o.row
      /\ e.exported = o.exported /\ e.path = o.path
  BY <1>1, <1>3 DEF Process
<1>6. Placed(e)
  BY <1>1, <1>5 DEF Placed, InTable
<1>7. Holds(e)
  BY <1>5 DEF Holds, InTable, InFile
<1>8. Inv'
  BY <1>2, <1>4, <1>5, <1>6, <1>7, ProcessOf, QuietStep DEF GivesUp, InTable, InFile
<1>9. export'[p] = e
  BY <1>2, <1>4, StepIs, TypedOf
<1>. QED
  BY <1>3, <1>8, <1>9 DEF o

LEMMA MakeDirectoryKeeps ==
  ASSUME Inv, NEW p \in Exporters, MakeDirectory(p)
  PROVE  Inv' /\ export'[p] = [export[p] EXCEPT !.stage = "create", !.exported = TRUE]
<1>. DEFINE o == export[p]
            e == [To(o, "create") EXCEPT !.exported = TRUE]
<1>1. o \in Process /\ Placed(o) /\ Holds(o) /\ o.stage = "make"
      /\ o.named \in Nat /\ o.table \in Nat /\ o.item \in Nat /\ o.row \in Nat
  BY ProcessOf DEF MakeDirectory, At, Process
<1>2. Step(p, e) /\ o = export[p] /\ directory = "none" /\ directory' = p /\ UNCHANGED <<database, files>>
  BY DEF MakeDirectory, Made
<1>3. o.item = 0
  BY <1>1, NatZero DEF Holds
<1>4. e = [o EXCEPT !.stage = "create", !.exported = TRUE]
  BY <1>1 DEF To, Process
<1>. HIDE DEF o, e
<1>5. e \in Process
  BY <1>1, <1>4 DEF Process, Stages
<1>6. /\ e.stage = "create" /\ e.held = o.held /\ e.exit = o.exit /\ e.named = o.named
      /\ e.type = o.type /\ e.table = o.table /\ e.item = o.item /\ e.row = o.row
      /\ e.exported = TRUE /\ e.path = o.path
  BY <1>1, <1>4 DEF Process
<1>7. Placed(e)
  BY <1>1, <1>3, <1>6, NatZero DEF Placed, InTable
<1>8. Holds(e)
  BY <1>1, <1>3, <1>6, NatZero DEF Holds, InTable, InFile
<1>9. DOMAIN files = {}
  BY <1>2, ExportersAssumption DEF Inv, Typed, OneExportPerDirectory, File
<1>10. FilesKeep(p) /\ files' \in [DOMAIN files' -> File]
  BY <1>2, TypedOf DEF FilesKeep, Typed
<1>11. Inv'
  BY <1>2, <1>5, <1>6, <1>7, <1>8, <1>9, <1>10, InvStep DEF InFile
<1>12. export'[p] = e
  BY <1>2, <1>5, StepIs, TypedOf
<1>. QED
  BY <1>4, <1>11, <1>12 DEF o

LEMMA NextIndexKeeps ==
  ASSUME Inv, NEW p \in Exporters, NextIndex(p)
  PROVE  Inv'
<1>. DEFINE o == export[p]
            let == Let(o, "index")
            more == let.item + 1 < Len(Table(let).indexes)
            e == IF more THEN [Hold(To(let, "create"), "index") EXCEPT !.item = @ + 1]
                 ELSE To(let, "next table")
<1>1. o \in Process /\ Placed(o) /\ Holds(o) /\ o.stage = "next index"
      /\ o.named \in Nat /\ o.table \in Nat /\ o.item \in Nat /\ o.row \in Nat
  BY ProcessOf DEF NextIndex, At, Process
<1>2. Step(p, e) /\ o = export[p]
  BY DEF NextIndex
<1>3. DOMAIN Table(o).indexes = 1 .. Len(Table(o).indexes) /\ Len(Table(o).indexes) \in Nat
  <2>1. Table(o) \in TableRecord
    BY <1>1, RecordsOf DEF InTable
  <2>2. Table(o).indexes \in Seq(Index)
    BY <2>1 DEF TableRecord
  <2>. QED
    BY <2>2
<1>4. more <=> o.item + 1 < Len(Table(o).indexes)
  BY <1>1 DEF Let, Process, Table
<1>5. CASE more
  <2>1. e = [o EXCEPT !.stage = "create", !.held = (@ \ {"index"}) \cup {"index"}, !.item = @ + 1]
    BY <1>1, <1>5 DEF To, Hold, Let, Process
  <2>2. o.item + 1 + 1 \in 1 .. Len(Table(o).indexes) /\ o.item + 1 \in Nat /\ o.item + 1 > 0
    BY <1>1, <1>3, <1>4, <1>5, TwoMore
  <2>. HIDE DEF o, e
  <2>3. e \in Process
    <3>1. (o.held \ {"index"}) \cup {"index"} \subseteq Things /\ "create" \in Stages
      BY <1>1 DEF Process, Things, Stages
    <3>. QED
      BY <1>1, <2>1, <2>2, <3>1 DEF Process
  <2>4. /\ e.stage = "create" /\ e.held = (o.held \ {"index"}) \cup {"index"}
        /\ e.exit = o.exit /\ e.named = o.named
        /\ e.type = o.type /\ e.table = o.table /\ e.item = o.item + 1 /\ e.row = o.row
        /\ e.exported = o.exported /\ e.path = o.path
    BY <1>1, <2>1 DEF Process
  <2>5. Placed(e)
    BY <1>1, <1>3, <2>2, <2>4 DEF Placed, InTable, Table
  <2>6. Holds(e)
    BY <1>1, <2>2, <2>4 DEF Holds, InTable, InFile
  <2>. QED
    BY <1>1, <1>2, <2>3, <2>4, <2>5, <2>6, ProcessOf, QuietStep DEF NextIndex, InTable, InFile
<1>6. CASE ~ more
  <2>1. e = [o EXCEPT !.stage = "next table", !.held = @ \ {"index"}]
    BY <1>1, <1>6 DEF To, Let, Process
  <2>. HIDE DEF o, e
  <2>3. e \in Process
    BY <1>1, <2>1 DEF Process, Stages, Things
  <2>4. /\ e.stage = "next table" /\ e.held = o.held \ {"index"} /\ e.exit = o.exit /\ e.named = o.named
        /\ e.type = o.type /\ e.table = o.table /\ e.item = o.item /\ e.row = o.row
        /\ e.exported = o.exported /\ e.path = o.path
    BY <1>1, <2>1 DEF Process
  <2>5. Placed(e)
    BY <1>1, <2>4 DEF Placed, InTable, Table
  <2>6. Holds(e)
    BY <1>1, <2>4 DEF Holds, InTable, InFile
  <2>. QED
    BY <1>1, <1>2, <2>3, <2>4, <2>5, <2>6, ProcessOf, QuietStep DEF NextIndex, InTable, InFile
<1>. QED
  BY <1>5, <1>6

LEMMA PathsOfItems == \A name \in STRING, index \in Nat : ItemFilename(name, index) \in Paths
<1>1. \A name \in STRING, index \in Nat : ItemFilename(name, index) \in ItemPaths
  BY DEF ItemPaths
<1>. QED
  BY <1>1 DEF Paths

\* What a process makes is its own, for the table it is at.
LEMMA NewFileIs ==
  ASSUME NEW p \in Exporters, NEW e \in Process
  PROVE  /\ NewFile(p, e) \in File /\ NewFile(p, e).owner = p /\ NewFile(p, e).table = e.table
         /\ [NewFile(p, e) EXCEPT !.kind = "directory"] \in File
         /\ [NewFile(p, e) EXCEPT !.kind = "directory"].owner = p
         /\ [NewFile(p, e) EXCEPT !.kind = "directory"].table = e.table
<1>1. e.table \in Nat /\ e.item \in Nat
  BY DEF Process
<1>2. NewFile(p, e) \in File /\ NewFile(p, e).owner = p /\ NewFile(p, e).table = e.table
  BY <1>1 DEF NewFile, File
<1>. QED
  BY <1>2 DEF File

LEMMA CreateFileKeeps ==
  ASSUME Inv, NEW p \in Exporters, CreateFile(p)
  PROVE  Inv' /\ export'[p] = [export[p] EXCEPT !.stage = IF export[p].item = 0 THEN "header" ELSE "rows",
                                                !.held = @ \cup {"stream"},
                                          !.path = ItemFile(export[p]), !.row = 1]
<1>. DEFINE o == export[p]
            path == ItemFile(o)
            stage == IF o.item = 0 THEN "header" ELSE "rows"
            e == [Hold(To(o, stage), "stream") EXCEPT !.path = path, !.row = 1]
<1>1. o \in Process /\ Placed(o) /\ Holds(o) /\ o.stage = "create"
      /\ o.named \in Nat /\ o.table \in Nat /\ o.item \in Nat /\ o.row \in Nat
  BY ProcessOf DEF CreateFile, At, Process
<1>2. /\ Step(p, e) /\ o = export[p] /\ UNCHANGED <<database, directory>>
      /\ path \notin DOMAIN files /\ files' = WithFile(path, NewFile(p, o))
  BY DEF CreateFile, Taken
<1>3. o.exported /\ directory = p
  BY <1>1, ProcessOf DEF InTable
<1>4. path \in Paths /\ Len(Records(o)) \in Nat
  <2>1. ItemName(o) \in STRING /\ ItemIndex(o) \in Nat /\ Len(Records(o)) \in Nat
    BY <1>1, RecordsOf DEF InTable
  <2>2. path = ItemFilename(ItemName(o), ItemIndex(o))
    BY DEF ItemFile
  <2>. QED
    BY <2>1, <2>2, PathsOfItems
<1>5. e = [o EXCEPT !.stage = stage, !.held = @ \cup {"stream"}, !.path = path, !.row = 1]
  BY <1>1 DEF To, Hold, Process
<1>6. NewFile(p, o) \in File
  BY <1>1, NewFileIs
<1>7. /\ FilesKeep(p) /\ files' \in [DOMAIN files' -> File]
      /\ DOMAIN files' = DOMAIN files \cup {path} /\ files'[path] = NewFile(p, o)
      /\ \A other \in DOMAIN files : files'[other] = files[other]
  BY <1>2, <1>6, TypedOf, WithFileKeeps
<1>. HIDE DEF path, e, o
<1>8. e \in Process
  BY <1>1, <1>4, <1>5 DEF Process, Stages, Things
<1>9. /\ e.stage = stage /\ e.held = o.held \cup {"stream"} /\ e.exit = o.exit /\ e.named = o.named
      /\ e.type = o.type /\ e.table = o.table /\ e.item = o.item /\ e.row = 1
      /\ e.exported = o.exported /\ e.path = path
  BY <1>1, <1>5 DEF Process
<1>10. Table(e) = Table(o) /\ Records(e) = Records(o)
  BY <1>9 DEF Table, Records
<1>11. Placed(e)
  BY <1>1, <1>4, <1>9, <1>10, NatZero DEF Placed, InTable
<1>12. Holds(e)
  <2>1. CASE o.item = 0
    BY <1>1, <1>9, <2>1, NatZero DEF Holds, InTable, InFile
  <2>2. CASE o.item > 0
    BY <1>1, <1>9, <2>2, NatZero DEF Holds, InTable, InFile
  <2>. QED
    BY <1>1, <2>1, <2>2, NatZero
<1>13. LinesOf(e, <<>>)
  <2>1. CASE o.item = 0
    BY <1>9, <2>1 DEF LinesOf, HeaderBegun
  <2>2. CASE o.item > 0
    <3>1. "record" \notin e.held /\ e.item # 0 /\ e.row - 1 = 0
      BY <1>1, <1>9, <2>2, NatZero DEF Holds
    <3>2. HeaderLines(e) = 0
      BY <3>1 DEF HeaderLines
    <3>3. RowsWritten(<<>>, HeaderLines(e), Records(e), e.row - 1)
      BY <3>1, <3>2 DEF RowsWritten
    <3>4. e.stage = "rows"
      BY <1>1, <1>9, <2>2, NatZero
    <3>. QED
      BY <3>1, <3>3, <3>4 DEF LinesOf
  <2>. QED
    BY <1>1, <2>1, <2>2, NatZero
<1>14. \A other \in DOMAIN files' : files'[other].owner = directory' /\ files'[other].table \in Tables
  <2>1. NewFile(p, o).owner = p /\ NewFile(p, o).table = o.table /\ o.table \in Tables
    BY <1>1, NewFileIs DEF Placed, InTable
  <2>. QED
    BY <1>2, <1>3, <1>7, <2>1 DEF Inv, OneExportPerDirectory
<1>15. /\ e.path \in DOMAIN files'
       /\ files'[e.path].kind = "file" /\ files'[e.path].table = e.table /\ files'[e.path].item = e.item
       /\ files'[e.path].lines = <<>>
  BY <1>7, <1>9 DEF NewFile
<1>16. Inv'
  BY <1>2, <1>3, <1>7, <1>8, <1>9, <1>11, <1>12, <1>13, <1>14, <1>15, InvStep, TypedOf DEF Typed
<1>17. export'[p] = e
  BY <1>2, <1>8, StepIs, TypedOf
<1>. QED
  BY <1>5, <1>16, <1>17 DEF e, o, path

LEMMA MakeIndexDirectoryKeeps ==
  ASSUME Inv, NEW p \in Exporters, MakeIndexDirectory(p)
  PROVE  Inv' /\ export'[p] = [export[p] EXCEPT !.stage = "next index", !.item = 0]
<1>. DEFINE o == export[p]
            path == Table(o).name
            file == [NewFile(p, o) EXCEPT !.kind = "directory"]
            e == [To(o, "next index") EXCEPT !.item = 0]
<1>1. o \in Process /\ Placed(o) /\ Holds(o) /\ o.stage = "index directory"
      /\ o.named \in Nat /\ o.table \in Nat /\ o.item \in Nat /\ o.row \in Nat
  BY ProcessOf DEF MakeIndexDirectory, At, Process
<1>2. /\ Step(p, e) /\ o = export[p] /\ UNCHANGED <<database, directory>>
      /\ path \notin DOMAIN files /\ files' = WithFile(path, file)
  BY DEF MakeIndexDirectory, Taken
<1>3. o.exported /\ directory = p /\ o.table \in Tables
  BY <1>1, ProcessOf DEF InTable, Placed
<1>4. o.item = 0
  BY <1>1, NatZero DEF Holds
<1>5. e = [o EXCEPT !.stage = "next index", !.item = 0]
  BY <1>1 DEF To, Process
<1>6. file \in File /\ file.owner = p /\ file.table = o.table
  BY <1>1, NewFileIs
<1>7. /\ FilesKeep(p) /\ files' \in [DOMAIN files' -> File]
      /\ DOMAIN files' = DOMAIN files \cup {path} /\ files'[path] = file
      /\ \A other \in DOMAIN files : files'[other] = files[other]
  BY <1>2, <1>6, TypedOf, WithFileKeeps
<1>. HIDE DEF path, e, o, file
<1>8. e \in Process
  BY <1>1, <1>4, <1>5 DEF Process, Stages
<1>9. /\ e.stage = "next index" /\ e.held = o.held /\ e.exit = o.exit /\ e.named = o.named
      /\ e.type = o.type /\ e.table = o.table /\ e.item = 0 /\ e.row = o.row
      /\ e.exported = o.exported /\ e.path = o.path
  BY <1>1, <1>5 DEF Process
<1>11. Placed(e)
  BY <1>1, <1>4, <1>9, NatZero DEF Placed, InTable
<1>12. Holds(e)
  BY <1>1, <1>4, <1>9, NatZero DEF Holds, InTable, InFile
<1>14. \A other \in DOMAIN files' : files'[other].owner = directory' /\ files'[other].table \in Tables
  BY <1>2, <1>3, <1>6, <1>7 DEF Inv, OneExportPerDirectory
<1>15. Inv'
  BY <1>2, <1>3, <1>7, <1>8, <1>9, <1>11, <1>12, <1>14, InvStep, TypedOf DEF Typed, InFile
<1>16. export'[p] = e
  BY <1>2, <1>8, StepIs, TypedOf
<1>. QED
  BY <1>5, <1>15, <1>16 DEF o

\* The file that a process has open is there, with the lines of its stage.
LEMMA OpenFileOf ==
  ASSUME Inv, NEW p \in Exporters, export[p].stage \in InFile
  PROVE  /\ export[p].path \in DOMAIN files /\ Lines(export[p]) \in Seq(Seq(Written))
         /\ LinesOf(export[p], Lines(export[p]))
<1>1. OpenFile(p) /\ files \in [DOMAIN files -> File]
  BY DEF Inv, Typed
<1>2. export[p].path \in DOMAIN files
  BY <1>1 DEF OpenFile, Taken
<1>3. files[export[p].path] \in File
  BY <1>1, <1>2
<1>. QED
  BY <1>1, <1>2, <1>3 DEF OpenFile, Lines, File

LEMMA Below == \A n, m \in Nat : n < m => n + 1 = m \/ n + 1 < m
OBVIOUS
LEMMA OneOrNone == \A n \in Nat : n <= 1 => n = 0 \/ n = 1
OBVIOUS

\* A name more in the first line
\* The header, the first line if there is one, gets its next name.
GetsName(columns, lines, header, names) ==
  /\ columns \in Seq(STRING) /\ columns # <<>>
  /\ lines \in Seq(Seq(Written)) /\ HeaderBegun(lines, columns)
  /\ lines = <<>> => header = <<>>
  /\ lines # <<>> => header = lines[1]
  /\ names = Append(header, columns[Len(header) + 1])

LEMMA NameWritten ==
  ASSUME NEW columns, NEW lines, NEW header, NEW names, GetsName(columns, lines, header, names)
  PROVE  /\ <<names>> \in Seq(Seq(Written))
         /\ Len(names) # Len(columns) => HeaderBegun(<<names>>, columns)
         /\ Len(names) = Len(columns) => names = columns
<1>0. /\ columns \in Seq(STRING) /\ columns # <<>>
      /\ lines \in Seq(Seq(Written)) /\ HeaderBegun(lines, columns)
      /\ lines = <<>> => header = <<>>
      /\ lines # <<>> => header = lines[1]
      /\ names = Append(header, columns[Len(header) + 1])
  BY DEF GetsName
<1>1. /\ header \in Seq(Written) /\ Len(header) < Len(columns)
      /\ \A i \in DOMAIN header : header[i] = columns[i]
  <2>. Len(columns) > 0 /\ Len(columns) \in Nat
    BY <1>0
  <2>1. CASE lines = <<>>
    BY <1>0, <2>1
  <2>2. CASE lines # <<>>
    <3>0. Len(lines) \in Nat /\ Len(lines) # 0 /\ Len(lines) <= 1
      BY <1>0, <2>2 DEF HeaderBegun
    <3>1. Len(lines) = 1 /\ header = lines[1] /\ lines[1] \in Seq(Written)
      <4>1. Len(lines) = 1
        BY <3>0, OneOrNone
      <4>2. header = lines[1]
        BY <1>0, <2>2
      <4>3. lines[1] \in Seq(Written)
        BY <1>0, <4>1
      <4>. QED
        BY <4>1, <4>2, <4>3
    <3>. QED
      BY <1>0, <3>1 DEF HeaderBegun
  <2>. QED
    BY <2>1, <2>2
<1>2. columns[Len(header) + 1] \in Written
  BY <1>0, <1>1 DEF Written
<1>3. /\ names \in Seq(Written) /\ Len(names) = Len(header) + 1
      /\ \A i \in DOMAIN names : names[i] = columns[i]
  BY <1>0, <1>1, <1>2
<1>4. <<names>> \in Seq(Seq(Written)) /\ Len(<<names>>) = 1 /\ <<names>>[1] = names
  BY <1>3
<1>5. Len(names) # Len(columns) => Len(names) < Len(columns)
  <2>1. Len(header) \in Nat /\ Len(columns) \in Nat
    BY <1>0, <1>1
  <2>. QED
    BY <1>1, <1>3, <2>1, Below
<1>6. Len(names) # Len(columns) => HeaderBegun(<<names>>, columns)
  BY <1>0, <1>3, <1>4, <1>5 DEF HeaderBegun
<1>7. Len(names) = Len(columns) => names = columns
  BY <1>0, <1>3
<1>. QED
  BY <1>4, <1>6, <1>7

LEMMA WriteNameKeeps ==
  ASSUME Inv, NEW p \in Exporters, WriteName(p)
  PROVE  Inv'
<1>. DEFINE o == export[p]
            columns == Table(o).columns
            lines == Lines(o)
            header == IF lines = <<>> THEN <<>> ELSE lines[1]
            names == Append(header, columns[Len(header) + 1])
            e == IF Len(names) = Len(columns) THEN To(o, "rows") ELSE o
<1>1. o \in Process /\ Placed(o) /\ Holds(o) /\ o.stage = "header"
      /\ o.named \in Nat /\ o.table \in Nat /\ o.item \in Nat /\ o.row \in Nat
  BY ProcessOf DEF WriteName, At, Process
<1>2. PICK lost \in BOOLEAN :
        Step(p, Printing(e, lost)) /\ Write(o.path, <<names>>, lost) /\ UNCHANGED <<database, directory>>
  BY DEF WriteName
<1>3. columns \in Seq(STRING) /\ columns # <<>>
  <2>1. o.table \in Tables
    BY <1>1 DEF Placed, InTable
  <2>. QED
    BY <2>1, TypedOf, TablesOf DEF Table, TableRecord
<1>4. lines \in Seq(Seq(Written)) /\ HeaderBegun(lines, columns)
  BY <1>1, OpenFileOf DEF InFile, LinesOf
<1>5. /\ <<names>> \in Seq(Seq(Written))
      /\ Len(names) # Len(columns) => HeaderBegun(<<names>>, columns)
      /\ Len(names) = Len(columns) => names = columns
  <2>1. header = (IF lines = <<>> THEN <<>> ELSE lines[1]) /\ names = Append(header, columns[Len(header) + 1])
    OBVIOUS
  <2>. HIDE DEF columns, lines, header, names, e, o
  <2>2. (lines = <<>> => header = <<>>) /\ (lines # <<>> => header = lines[1])
    BY <2>1
  <2>3. GetsName(columns, lines, header, names)
    BY <1>3, <1>4, <2>1, <2>2 DEF GetsName
  <2>. QED
    BY <2>3, NameWritten, Zenon
<1>6. o.item = 0 /\ "record" \notin o.held /\ o.row = 1
  BY <1>1, NatZero DEF Holds, Placed
<1>7. Len(Records(o)) \in Nat
  BY <1>1, RecordsOf DEF InTable
<1>8. CASE Len(names) # Len(columns)
  <2>1. e = o /\ LinesOf(o, <<names>>)
    BY <1>1, <1>5, <1>8 DEF LinesOf
  <2>. HIDE DEF e, names
  <2>. QED
    BY <1>1, <1>2, <1>5, <2>1, PrintStep DEF InFile
<1>9. CASE Len(names) = Len(columns)
  <2>1. e = [o EXCEPT !.stage = "rows"] /\ names = columns
    BY <1>1, <1>5, <1>9 DEF To, Process
  <2>. HIDE DEF e, o, names, columns
  <2>2. e \in Process
    BY <1>1, <2>1 DEF Process, Stages
  <2>3. /\ e.stage = "rows" /\ e.held = o.held /\ e.exit = o.exit /\ e.named = o.named
        /\ e.type = o.type /\ e.table = o.table /\ e.item = o.item /\ e.row = o.row
        /\ e.exported = o.exported /\ e.path = o.path
    BY <1>1, <2>1 DEF Process
  <2>4. Table(e) = Table(o) /\ Records(e) = Records(o)
    BY <2>3 DEF Table, Records
  <2>5. Placed(e)
    BY <1>1, <1>6, <1>7, <2>3, <2>4, NatZero DEF Placed, InTable
  <2>6. Holds(e)
    BY <1>1, <1>6, <2>3, NatZero DEF Holds, InTable, InFile
  <2>7. LinesOf(e, <<names>>)
    <3>1. HeaderLines(e) = 1 /\ e.row - 1 = 0
      BY <1>6, <2>3 DEF HeaderLines
    <3>2. RowsWritten(<<names>>, HeaderLines(e), Records(e), e.row - 1)
      BY <1>6, <2>3, <3>1 DEF RowsWritten
    <3>3. <<names>>[1] = Table(e).columns
      BY <2>1, <2>4 DEF columns
    <3>. QED
      BY <1>6, <2>3, <3>2, <3>3 DEF LinesOf
  <2>. QED
    BY <1>1, <1>2, <1>5, <2>2, <2>3, <2>5, <2>6, <2>7, PrintStep DEF InFile, o
<1>. QED
  BY <1>8, <1>9

\* What a step in the rows has before it
LEMMA RowsOf ==
  ASSUME Inv, NEW p \in Exporters, At(p, "rows")
  PROVE  LET o == export[p]
             n == o.row - 1
         IN /\ o \in Process /\ Placed(o) /\ Holds(o) /\ o.stage = "rows"
            /\ o.item \in Nat /\ o.row \in Nat /\ n \in Nat /\ n + 1 = o.row
            /\ HeaderLines(o) \in {0, 1} /\ o.path \in DOMAIN files
            /\ Lines(o) \in Seq(Seq(Written))
            /\ o.item = 0 => Len(Lines(o)) >= 1 /\ Lines(o)[1] = Table(o).columns
            /\ Records(o) \in Seq(Seq(Values)) /\ Len(Records(o)) \in Nat
            /\ \A r \in DOMAIN Records(o) : Records(o)[r] # <<>>
            /\ "record" \notin o.held => RowsWritten(Lines(o), HeaderLines(o), Records(o), n)
            /\ "record" \in o.held => RowBegun(Lines(o), HeaderLines(o), Records(o), n)
<1>. DEFINE o == export[p]
            n == o.row - 1
<1>1. o \in Process /\ Placed(o) /\ Holds(o) /\ o.stage = "rows" /\ o.item \in Nat /\ o.row \in Nat
  BY ProcessOf DEF At, Process
<1>2. /\ o.path \in DOMAIN files /\ Lines(o) \in Seq(Seq(Written))
      /\ o.item = 0 => Lines(o)[1] = Table(o).columns
      /\ "record" \notin o.held => RowsWritten(Lines(o), HeaderLines(o), Records(o), n)
      /\ "record" \in o.held => RowBegun(Lines(o), HeaderLines(o), Records(o), n)
  BY <1>1, OpenFileOf DEF InFile, LinesOf
<1>3. HeaderLines(o) \in {0, 1} /\ (o.item = 0 => HeaderLines(o) = 1)
  BY DEF HeaderLines
<1>4. /\ Records(o) \in Seq(Seq(Values)) /\ Len(Records(o)) \in Nat
      /\ \A r \in DOMAIN Records(o) : Records(o)[r] # <<>>
  BY <1>1, RecordsOf DEF InTable
<1>5. o.row >= 1
  BY <1>1 DEF Placed
<1>6. n \in Nat /\ n + 1 = o.row
  <2>1. \A m \in Nat : m >= 1 => m - 1 \in Nat /\ m - 1 + 1 = m
    OBVIOUS
  <2>. QED
    BY <1>1, <1>5, <2>1
<1>. HIDE DEF n
<1>7. o.item = 0 => Len(Lines(o)) >= 1
  BY <1>2, <1>3, <1>6 DEF RowsWritten, RowBegun
<1>. HIDE DEF o
<1>. QED
  BY <1>1, <1>2, <1>3, <1>4, <1>6, <1>7 DEF n, o

\* A value that can be read is something to write.
LEMMA CellIsWritten ==
  ASSUME NEW e \in Process
  PROVE  Cell(e).kind # "error" => Cell(e) \in Written
<1>1. CellOf(Value(e)) \in {"empty", "value", "error"}
  BY DEF CellOf, CompressedCell, MultiCell
<1>2. ExporterOf(e.type, Table(e).name) \in Nat
  BY DEF ExporterOf, Process
<1>. QED
  BY <1>1, <1>2 DEF Cell, Written

LEMMA GetRecordKeeps ==
  ASSUME Inv, NEW p \in Exporters, GetRecord(p)
  PROVE  Inv'
<1>. DEFINE o == export[p]
            n == o.row - 1
            lines == Lines(o)
            new == Append(lines, <<>>)
            e == Hold(o, "record")
<1>1. /\ o \in Process /\ Placed(o) /\ Holds(o) /\ o.stage = "rows"
      /\ o.item \in Nat /\ o.row \in Nat /\ n \in Nat /\ n + 1 = o.row
      /\ HeaderLines(o) \in {0, 1} /\ lines \in Seq(Seq(Written))
      /\ o.item = 0 => Len(lines) >= 1 /\ lines[1] = Table(o).columns
      /\ Records(o) \in Seq(Seq(Values)) /\ Len(Records(o)) \in Nat
      /\ \A r \in DOMAIN Records(o) : Records(o)[r] # <<>>
      /\ "record" \notin o.held => RowsWritten(lines, HeaderLines(o), Records(o), n)
      /\ "record" \in o.held => RowBegun(lines, HeaderLines(o), Records(o), n)
  BY RowsOf DEF GetRecord
<1>2. Step(p, e) /\ Write(export[p].path, new, FALSE) /\ UNCHANGED <<database, directory>> /\ o = export[p]
      /\ o.row <= Len(Records(o)) /\ "record" \notin o.held
  BY DEF GetRecord
<1>3. e = [o EXCEPT !.held = @ \cup {"record"}]
  BY <1>1 DEF Hold, Process
<1>4. new = Append(lines, <<>>)
  OBVIOUS
<1>. HIDE DEF o, n, lines, new, e
<1>5. n < Len(Records(o)) /\ n + 1 \in DOMAIN Records(o)
  BY <1>1, <1>2
<1>6. ("record" \in o.held) = FALSE
  BY <1>2
<1>7. new \in Seq(Seq(Written)) /\ RowBegun(new, HeaderLines(o), Records(o), n)
  <2>1. Records(o)[n + 1] # <<>>
    BY <1>1, <1>5
  <2>2. RowsWritten(lines, HeaderLines(o), Records(o), n)
    BY <1>1, <1>6
  <2>. QED
    BY <1>1, <1>4, <1>5, <2>1, <2>2, RowBegins
<1>8. e \in Process
  BY <1>1, <1>3 DEF Process, Things
<1>9. /\ e.stage = "rows" /\ e.held = o.held \cup {"record"} /\ e.exit = o.exit /\ e.named = o.named
      /\ e.type = o.type /\ e.table = o.table /\ e.item = o.item /\ e.row = o.row
      /\ e.exported = o.exported /\ e.path = o.path
  BY <1>1, <1>3 DEF Process
<1>10. Table(e) = Table(o) /\ Records(e) = Records(o) /\ HeaderLines(e) = HeaderLines(o)
  BY <1>9 DEF Table, Records, HeaderLines
<1>11. Placed(e)
  BY <1>1, <1>9, <1>10 DEF Placed, InTable
<1>12. Holds(e)
  BY <1>1, <1>2, <1>9, <1>10 DEF Holds, InTable, InFile
<1>13. LinesOf(e, new)
  <2>1. ("record" \in e.held) = TRUE /\ e.row - 1 = n
    BY <1>9 DEF n
  <2>2. e.item = 0 => new[1] = Table(e).columns
    BY <1>1, <1>4, <1>9, <1>10
  <2>. QED
    BY <1>7, <1>9, <1>10, <2>1, <2>2 DEF LinesOf
<1>. QED
  BY <1>1, <1>2, <1>7, <1>8, <1>9, <1>11, <1>12, <1>13, WriteStep DEF InFile

LEMMA WriteValueKeeps ==
  ASSUME Inv, NEW p \in Exporters, WriteValue(p)
  PROVE  Inv'
<1>. DEFINE o == export[p]
            n == o.row - 1
            lines == Lines(o)
            line == Append(lines[Len(lines)], Cell(o))
            new == [lines EXCEPT ![Len(lines)] = line]
            e == IF Len(line) < Len(Records(o)[o.row]) THEN o ELSE [Let(o, "record") EXCEPT !.row = @ + 1]
<1>1. /\ o \in Process /\ Placed(o) /\ Holds(o) /\ o.stage = "rows"
      /\ o.item \in Nat /\ o.row \in Nat /\ n \in Nat /\ n + 1 = o.row
      /\ HeaderLines(o) \in {0, 1} /\ lines \in Seq(Seq(Written))
      /\ o.item = 0 => Len(lines) >= 1 /\ lines[1] = Table(o).columns
      /\ Records(o) \in Seq(Seq(Values)) /\ Len(Records(o)) \in Nat
      /\ \A r \in DOMAIN Records(o) : Records(o)[r] # <<>>
      /\ "record" \notin o.held => RowsWritten(lines, HeaderLines(o), Records(o), n)
      /\ "record" \in o.held => RowBegun(lines, HeaderLines(o), Records(o), n)
  BY RowsOf DEF WriteValue
<1>2. PICK lost \in BOOLEAN :
        /\ Step(p, Printing(e, lost)) /\ Write(export[p].path, new, lost)
        /\ UNCHANGED <<database, directory>> /\ o = export[p]
        /\ "record" \in o.held /\ Cell(o).kind # "error"
  BY DEF WriteValue, Line, Record
<1>3. line = Append(lines[Len(lines)], Cell(o)) /\ new = [lines EXCEPT ![Len(lines)] = line]
  OBVIOUS
<1>4. Cell(o) \in Written
  BY <1>1, <1>2, CellIsWritten
<1>. HIDE DEF o, n, lines, line, new, e
<1>5. RowBegun(lines, HeaderLines(o), Records(o), n)
  <2>1. ("record" \in o.held) = TRUE
    BY <1>2
  <2>. QED
    BY <1>1, <2>1
<1>6. /\ new \in Seq(Seq(Written)) /\ line \in Seq(Written)
      /\ n < Len(Records(o)) /\ Len(lines) = HeaderLines(o) + n + 1
      /\ Len(line) < Len(Records(o)[n + 1]) => RowBegun(new, HeaderLines(o), Records(o), n)
      /\ Len(line) >= Len(Records(o)[n + 1]) => RowsWritten(new, HeaderLines(o), Records(o), n + 1)
  <2>1. /\ lines \in Seq(Seq(Written)) /\ HeaderLines(o) \in {0, 1}
        /\ Records(o) \in Seq(Seq(Values)) /\ n \in Nat
    BY <1>1
  <2>2. Len(lines) = HeaderLines(o) + n + 1
    BY <1>5 DEF RowBegun
  <2>3. lines[Len(lines)] \in Seq(Written)
    BY <2>1, <2>2
  <2>4. line \in Seq(Written) /\ Len(line) = Len(lines[Len(lines)]) + 1
    BY <1>3, <1>4, <2>3
  <2>5. new \in Seq(Seq(Written)) /\ new[Len(lines)] = line /\ Grown(new, lines)
    BY <1>3, <2>1, <2>2, <2>4 DEF Grown
  <2>. QED
    <3>1. /\ n < Len(Records(o)) /\ Len(lines) = HeaderLines(o) + n + 1
          /\ Len(new[Len(lines)]) < Len(Records(o)[n + 1]) => RowBegun(new, HeaderLines(o), Records(o), n)
          /\ Len(new[Len(lines)]) >= Len(Records(o)[n + 1])
               => RowsWritten(new, HeaderLines(o), Records(o), n + 1)
      BY <1>5, <2>1, <2>5, RowGrows
    <3>. QED
      BY <2>4, <2>5, <3>1
<1>7. o.item = 0 => new[1] = Table(o).columns
  <2>1. HeaderLines(o) = (IF o.item = 0 THEN 1 ELSE 0)
    BY DEF HeaderLines
  <2>. QED
    BY <1>1, <1>3, <1>6, <2>1
<1>8. CASE Len(line) < Len(Records(o)[o.row])
  <2>1. e = o
    BY <1>8 DEF e
  <2>2. LinesOf(o, new)
    BY <1>1, <1>2, <1>6, <1>7, <1>8 DEF LinesOf, n
  <2>. QED
    BY <1>1, <1>2, <1>6, <2>1, <2>2, PrintStep DEF InFile
<1>9. CASE ~ (Len(line) < Len(Records(o)[o.row]))
  <2>1. e = [o EXCEPT !.held = @ \ {"record"}, !.row = @ + 1]
    BY <1>1, <1>9 DEF e, Let, Process
  <2>2. e \in Process
    <3>1. o.row + 1 \in Nat
      BY <1>1
    <3>. QED
      BY <1>1, <2>1, <3>1 DEF Process, Things
  <2>3. /\ e.stage = "rows" /\ e.held = o.held \ {"record"} /\ e.exit = o.exit /\ e.named = o.named
        /\ e.type = o.type /\ e.table = o.table /\ e.item = o.item /\ e.row = o.row + 1
        /\ e.exported = o.exported /\ e.path = o.path
    BY <1>1, <2>1 DEF Process
  <2>4. Table(e) = Table(o) /\ Records(e) = Records(o) /\ HeaderLines(e) = HeaderLines(o)
    BY <2>3 DEF Table, Records, HeaderLines
  <2>5. e.row >= 1 /\ e.row <= Len(Records(o)) + 1 /\ e.row - 1 = n + 1
    <3>1. e.row = n + 1 + 1
      BY <1>1, <2>3
    <3>2. n \in Nat /\ Len(Records(o)) \in Nat /\ n < Len(Records(o))
      BY <1>1, <1>6
    <3>. HIDE DEF e, n, o
    <3>. QED
      BY <3>1, <3>2
  <2>6. Placed(e)
    BY <1>1, <2>3, <2>4, <2>5 DEF Placed, InTable
  <2>7. Holds(e)
    BY <1>1, <2>3, <2>4 DEF Holds, InTable, InFile
  <2>8. LinesOf(e, new)
    <3>1. ("record" \in e.held) = FALSE
      BY <2>3
    <3>2. Len(line) >= Len(Records(o)[n + 1])
      <4>1. Records(o)[n + 1] \in Seq(Values)
        BY <1>1, <1>6
      <4>. QED
        BY <1>1, <1>6, <1>9, <4>1
    <3>. QED
      BY <1>6, <1>7, <2>3, <2>4, <2>5, <3>1, <3>2 DEF LinesOf
  <2>. QED
    BY <1>1, <1>2, <1>6, <2>2, <2>3, <2>6, <2>7, <2>8, PrintStep DEF InFile
<1>. QED
  BY <1>8, <1>9

-----------------------------------------------------------------------------
(***************************************************************************)
(* The invariant.                                                          *)
(***************************************************************************)
LEMMA InitInv == Init => Inv
<1>. SUFFICES ASSUME Init
              PROVE  Inv
  OBVIOUS
<1>1. database \in Seq(TableRecord) /\ Len(database) \in Nat /\ Tables = 1 .. Len(database)
  BY DatabasesAssumption DEF Init, Tables
<1>2. Names(database) \subseteq STRING
  <2>1. ASSUME NEW t \in DOMAIN database
        PROVE  database[t].name \in STRING
    <3>1. database[t] \in TableRecord
      BY <1>1
    <3>. QED
      BY <3>1 DEF TableRecord
  <2>. QED
    BY <2>1 DEF Names
<1>3. ASSUME NEW p \in Exporters
      PROVE  \E mode \in Modes : \E wanted \in {Every, "absent"} \cup STRING : export[p] = Started(mode, wanted)
  <2>1. export[p] \in
          {Started(mode, wanted) : mode \in Modes, wanted \in {Every, "absent"} \cup Names(database)}
    BY <1>3 DEF Init
  <2>2. {Every, "absent"} \cup Names(database) \subseteq {Every, "absent"} \cup STRING
    BY <1>2
  <2>. QED
    BY <2>1, <2>2
<1>4. ASSUME NEW mode \in Modes, NEW wanted \in {Every, "absent"} \cup STRING
      PROVE  Started(mode, wanted) \in Process
  BY <1>4 DEF Started, Process, Stages, Things, Paths
<1>5. ASSUME NEW mode \in Modes, NEW wanted \in {Every, "absent"} \cup STRING
      PROVE  LET e == Started(mode, wanted)
             IN  Placed(e) /\ Holds(e) /\ e.stage = "check" /\ e.exported = FALSE
  <2>. DEFINE e == Started(mode, wanted)
  <2>1. /\ e.stage = "check" /\ e.named = 0 /\ e.type = 0 /\ e.table = 1 /\ e.item = 0 /\ e.row = 1
        /\ e.held = {} /\ e.exit = "none" /\ e.exported = FALSE
    BY DEF Started
  <2>. HIDE DEF e
  <2>2. Placed(e)
    BY <1>1, <2>1, NatZero DEF Placed, InTable
  <2>3. Holds(e)
    BY <2>1, NatZero DEF Holds, InTable, InFile
  <2>. QED
    BY <2>1, <2>2, <2>3 DEF e
<1>6. \A p \in Exporters : export[p] \in Process /\ Placed(export[p]) /\ Holds(export[p])
                           /\ export[p].stage = "check" /\ export[p].exported = FALSE
  <2>. SUFFICES ASSUME NEW p \in Exporters
                PROVE  /\ export[p] \in Process /\ Placed(export[p]) /\ Holds(export[p])
                       /\ export[p].stage = "check" /\ export[p].exported = FALSE
    OBVIOUS
  <2>1. PICK mode \in Modes, wanted \in {Every, "absent"} \cup STRING : export[p] = Started(mode, wanted)
    BY <1>3
  <2>. QED
    BY <1>4, <1>5, <2>1
<1>7. Typed
  BY <1>6 DEF Init, Typed
<1>8. Orderly /\ \A p \in Exporters : OpenFile(p)
  BY <1>6 DEF Orderly, Owned, OpenFile, InTable, InFile
<1>. QED
  BY <1>7, <1>8 DEF Init, Inv, OneExportPerDirectory

\* Every step of Export is a step of a process.
LEMMA NextInv == Inv /\ [Next]_vars => Inv'
<1>. SUFFICES ASSUME Inv, [Next]_vars
              PROVE  Inv'
  OBVIOUS
<1>1. CASE UNCHANGED vars
  <2>1. database' = database /\ directory' = directory /\ files' = files /\ export' = export
    BY <1>1 DEF vars
  <2>2. Typed' /\ OneExportPerDirectory' /\ \A path \in DOMAIN files' : files'[path].table \in Tables'
    BY <2>1 DEF Inv, Typed, OneExportPerDirectory, Tables
  <2>3. ASSUME NEW p \in Exporters
        PROVE  Placed(export[p])' /\ Holds(export[p])' /\ Owned(p)' /\ OpenFile(p)'
    <3>1. Placed(export[p]) /\ Holds(export[p]) /\ Owned(p) /\ OpenFile(p)
      BY <2>3 DEF Inv, Orderly
    <3>2. Placed(export[p])'
      BY <2>1, <3>1, TypeStays DEF Placed, Table, Records, Tables
    <3>3. Holds(export[p])'
      BY <2>1, <3>1 DEF Holds, Table, Records
    <3>4. Owned(p)' /\ OpenFile(p)'
      BY <2>1, <3>1 DEF Owned, OpenFile, Taken, LinesOf, Table, Records, HeaderLines
    <3>. QED
      BY <3>2, <3>3, <3>4
  <2>. QED
    BY <2>2, <2>3 DEF Inv, Orderly
<1>2. ASSUME NEW p \in Exporters, Goes(p)
      PROVE  Inv'
  <2>1. CASE Prepare(p)
    BY <2>1, CheckPathKeeps, GivesUpKeeps, OpenDatabaseKeeps, NoTablesKeeps, CollectNameKeeps,
       DetermineTypeKeeps
       DEF Prepare, PathExists
  <2>2. CASE ExportTable(p)
    BY <2>2, PassOverKeeps, GetTableKeeps, MakeDirectoryKeeps, GivesUpKeeps, NextTableKeeps, EndOfTablesKeeps
       DEF ExportTable, DirectoryExists
  <2>3. CASE ExportFile(p)
    BY <2>3, CreateFileKeeps, SkipFileKeeps, WriteNameKeeps, GetRecordKeeps, WriteValueKeeps, GivesUpKeeps,
       LastRecordKeeps, CloseFileKeeps DEF ExportFile, ValueFails
  <2>4. CASE ExportIndexes(p)
    BY <2>4, MakeIndexDirectoryKeeps, SkipIndexesKeeps, NextIndexKeeps DEF ExportIndexes
  <2>. QED
    BY <1>2, <2>1, <2>2, <2>3, <2>4, FinishKeeps, GivesUpKeeps DEF Goes, CallFails
<1>. QED
  BY <1>1, <1>2 DEF Next

(***************************************************************************)
(* Where an export is, what it holds and what it has written agree at      *)
(* every step, whatever the calls of the library answer (the loops of      *)
(* export_handle_export_file, _table, _indexes and _index).                *)
(***************************************************************************)
THEOREM Invariance == Spec => []Inv
BY InitInv, NextInv, PTL DEF Spec

(***************************************************************************)
(* Two exports with one target never write to one directory.               *)
(***************************************************************************)
THEOREM OneExporter == Spec => []OneExportPerDirectory
<1>1. Inv => OneExportPerDirectory
  BY DEF Inv
<1>. QED
  BY <1>1, Invariance, PTL

(***************************************************************************)
(* What an export holds of the library, it lets go of in the order in      *)
(* which the library needs it, also when a call fails: the error paths of  *)
(* export_handle_export_file, _table, _indexes and _index.                 *)
(***************************************************************************)
THEOREM HeldInvariant == Spec => []HeldInOrder
<1>1. ASSUME Inv, NEW p \in Exporters
      PROVE  LET held == export[p].held IN
             /\ At(p, "end") => held = {}
             /\ held # {} => "database" \in held
             /\ held \cap {"index", "record", "stream"} # {} => "table" \in held
             /\ "record" \in held => "stream" \in held
             /\ "index" \in held <=> export[p].item > 0 /\ export[p].stage \notin {"next table", "end"}
  <2>1. Holds(export[p]) /\ export[p].item \in Nat
    BY <1>1, ProcessOf DEF Process
  <2>. QED
    BY <2>1, NatZero DEF Holds, At, InTable, InFile
<1>2. Inv => HeldInOrder
  BY <1>1 DEF HeldInOrder
<1>. QED
  BY <1>2, Invariance, PTL

LEMMA FilesStayStep ==
  ASSUME Inv, [Next]_vars, NEW path \in DOMAIN files,
         \A p \in Exporters : ~ ("stream" \in export[p].held /\ export[p].path = path)
  PROVE  path \in DOMAIN files' /\ files'[path] = files[path]
<1>1. ASSUME NEW p \in Exporters, NEW new, NEW file, new \notin DOMAIN files, files' = WithFile(new, file)
      PROVE  path \in DOMAIN files' /\ files'[path] = files[path]
  BY <1>1 DEF WithFile
<1>2. ASSUME NEW p \in Exporters, export[p].stage \in InFile, NEW lines, NEW lost,
             Write(export[p].path, lines, lost)
      PROVE  path \in DOMAIN files' /\ files'[path] = files[path]
  <2>1. "stream" \in export[p].held
    BY <1>2, ProcessOf DEF Holds
  <2>2. export[p].path # path /\ files \in [DOMAIN files -> File]
    BY <2>1, TypedOf DEF Typed
  <2>. QED
    BY <1>2, <2>2 DEF Write
<1>3. CASE UNCHANGED files
  BY <1>3
<1>4. ASSUME NEW p \in Exporters, Prepare(p) \/ ExportTable(p) \/ Finish(p) \/ CallFails(p)
      PROVE  UNCHANGED files
  BY <1>4 DEF Prepare, CheckPath, PathExists, OpenDatabase, NoTables, CollectName, DetermineType, GivesUp,
     ExportTable, PassOver, GetTable, MakeDirectory, DirectoryExists, NextTable, EndOfTables, Finish, CallFails
<1>5. ASSUME NEW p \in Exporters, ExportFile(p)
      PROVE  path \in DOMAIN files' /\ files'[path] = files[path]
  <2>1. CASE CreateFile(p)
    BY <1>1, <2>1 DEF CreateFile, Taken
  <2>2. CASE SkipFile(p) \/ ValueFails(p) \/ LastRecord(p) \/ CloseFile(p)
    BY <2>2 DEF SkipFile, ValueFails, GivesUp, LastRecord, CloseFile
  <2>3. CASE WriteName(p)
    BY <1>2, <2>3 DEF WriteName, At, InFile
  <2>4. CASE GetRecord(p)
    BY <1>2, <2>4 DEF GetRecord, At, InFile
  <2>5. CASE WriteValue(p)
    BY <1>2, <2>5 DEF WriteValue, At, InFile
  <2>. QED
    BY <1>5, <2>1, <2>2, <2>3, <2>4, <2>5 DEF ExportFile
<1>6. ASSUME NEW p \in Exporters, ExportIndexes(p)
      PROVE  path \in DOMAIN files' /\ files'[path] = files[path]
  BY <1>1, <1>6 DEF ExportIndexes, MakeIndexDirectory, SkipIndexes, NextIndex, Taken
<1>. QED
  BY <1>3, <1>4, <1>5, <1>6 DEF Next, Goes, vars

(***************************************************************************)
(* A file is written by the stream that made it and never again.           *)
(***************************************************************************)
THEOREM FilesAreKept == Spec => FilesStay
<1>1. Inv /\ [Next]_vars =>
        [\A path \in DOMAIN files :
           (\A p \in Exporters : ~ ("stream" \in export[p].held /\ export[p].path = path)) =>
             path \in DOMAIN files' /\ files'[path] = files[path]]_vars
  BY FilesStayStep
<1>. QED
  BY <1>1, Invariance, PTL DEF Spec, FilesStay

-----------------------------------------------------------------------------
(***************************************************************************)
(* What an export that reports success has left, for any databases and any *)
(* number of processes: the files of its tables, every one printed whole,  *)
(* with the lines that an export of all tables writes.                     *)
(***************************************************************************)

IndexStages == {"index directory", "next index"}
PassedStages == InFile \cup {"next table"}

\* The file of a table is there, unless it was not wanted.
Passed(e, t) == t < e.table \/ (t = e.table /\ e.stage \in PassedStages)

\* Of the tables that are past there are files, and no others.
TablesKept(p) ==
  LET e == export[p] IN
  e.mode = "tables" /\ e.exit # "failure" =>
    /\ e.stage \notin IndexStages /\ e.item = 0
    /\ e.stage = "finish" \/ e.exit = "success" => e.table = Len(database) + 1
    /\ \A path \in DOMAIN files : files[path].owner = p =>
         /\ files[path].kind = "file" /\ files[path].item = 0
         /\ Passed(e, files[path].table)
         /\ path = ItemFilename(database[files[path].table].name, files[path].table - 1)
    /\ \A t \in Selected(p) : Passed(e, t) => HasFile(t, 0, ItemFilename(database[t].name, t - 1))

\* A file that is not open is printed whole.
FilesKept(p) ==
  export[p].exit # "failure" =>
    \A path \in FilesOf(p) :
      (export[p].stage \in InFile /\ export[p].path = path) \/ Printed(files[path])

\* A file lacks what was printed to it only when its own process had a write lost.
LostKept == \A path \in DOMAIN files : files[path].lost => export[files[path].owner].lossy

Kept ==
  /\ Inv
  /\ SameLinesWhateverIsWanted
  /\ LostKept
  /\ \A p \in Exporters : TablesKept(p) /\ FilesKept(p)

-----------------------------------------------------------------------------
(***************************************************************************)
(* What the steps of a process do to its place and to the files.           *)
(***************************************************************************)
SamePlace(o, e) ==
  /\ e.mode = o.mode /\ e.wanted = o.wanted
  /\ e.table = o.table /\ e.item = o.item

MoveElsewhere(o, e) ==
  /\ SamePlace(o, e) /\ files' = files
  /\ o.stage \notin PassedStages \cup IndexStages /\ e.stage \notin PassedStages \cup IndexStages
  /\ e.stage \in {"finish", "end"} => o.stage = "finish" \/ o.table = Len(database) + 1
MovePast(o, e) ==
  /\ e.mode = o.mode /\ e.wanted = o.wanted /\ e.item = o.item /\ e.exit = o.exit /\ files' = files
  /\ o.stage = "select" /\ e.stage = "select" /\ ~ Wanted(o) /\ e.table = o.table + 1
MoveInFile(o, e) ==
  /\ SamePlace(o, e) /\ o.stage \in InFile /\ e.stage \in InFile /\ e.path = o.path
  /\ \E lines : \E lost \in BOOLEAN : Write(o.path, lines, lost) /\ e.lossy = (o.lossy \/ lost)
MoveToClose(o, e) ==
  SamePlace(o, e) /\ o.stage = "rows" /\ e.stage = "close" /\ e.path = o.path /\ files' = files
MoveClosed(o, e) ==
  SamePlace(o, e) /\ o.stage = "close" /\ e.stage = AfterItem(o) /\ files' = files
MoveToNext(o, e) ==
  /\ e.mode = o.mode /\ e.wanted = o.wanted /\ e.item = 0 /\ e.exit = o.exit /\ files' = files
  /\ o.stage = "next table" /\ e.stage = "select" /\ e.table = o.table + 1
MoveToFile(p, o, e) ==
  /\ SamePlace(o, e) /\ o.stage = "create" /\ e.stage \in InFile /\ e.path = ItemFile(o)
  /\ ItemFile(o) \notin DOMAIN files /\ files' = WithFile(ItemFile(o), NewFile(p, o))
MoveOver(o, e) ==
  SamePlace(o, e) /\ o.stage = "create" /\ e.stage \notin InFile /\ files' = files /\ Taken(ItemFile(o))
MoveToIndexes(p, o, e) ==
  /\ o.stage \in IndexStages /\ e.stage \notin InFile /\ e.mode = o.mode /\ e.exit = o.exit
  /\ \/ files' = files
     \/ /\ Table(o).name \notin DOMAIN files
        /\ files' = WithFile(Table(o).name, [NewFile(p, o) EXCEPT !.kind = "directory"])

\* A process has a write lost when it prints, at no other move.
Move(p, o, e) ==
  \/ MoveInFile(o, e)
  \/ /\ e.lossy = o.lossy
     /\ \/ e.exit = "failure" /\ files' = files
        \/ MoveElsewhere(o, e) \/ MovePast(o, e) \/ MoveToClose(o, e) \/ MoveClosed(o, e)
        \/ MoveToNext(o, e) \/ MoveToFile(p, o, e) \/ MoveOver(o, e) \/ MoveToIndexes(p, o, e)

LEMMA StepOf ==
  ASSUME Inv, NEW p \in Exporters, NEW e, Step(p, e)
  PROVE  export'[p] = e /\ \A q \in Exporters \ {p} : export'[q] = export[q]
BY TypedOf DEF Typed, Step

LEMMA PrepareMoves ==
  ASSUME Inv, NEW p \in Exporters, Prepare(p)
  PROVE  Move(p, export[p], export'[p])
<1>. DEFINE o == export[p]
            e == export'[p]
<1>1. o \in Process /\ Holds(o) /\ Placed(o)
  BY ProcessOf
<1>2. CASE CheckPath(p)
  <2>1. o.stage = "check" /\ e = [o EXCEPT !.stage = "open"] /\ files' = files
    BY <1>2, CheckPathKeeps DEF CheckPath, At
  <2>. QED
    BY <1>1, <2>1 DEF Process, Move, MoveElsewhere, SamePlace, PassedStages, InFile, IndexStages
<1>3. CASE PathExists(p)
  <2>1. e = [o EXCEPT !.stage = "end", !.held = {}, !.exit = "failure"] /\ files' = files
    BY <1>3, GivesUpKeeps DEF PathExists, GivesUp
  <2>. QED
    BY <1>1, <2>1 DEF Process, Move
<1>4. CASE OpenDatabase(p)
  <2>1. o.stage = "open" /\ e = [o EXCEPT !.stage = "names", !.held = @ \cup {"database"}] /\ files' = files
    BY <1>4, OpenDatabaseKeeps DEF OpenDatabase, At
  <2>. QED
    BY <1>1, <2>1 DEF Process, Move, MoveElsewhere, SamePlace, PassedStages, InFile, IndexStages
<1>5. CASE NoTables(p)
  <2>1. o.stage = "names" /\ e = [o EXCEPT !.stage = "finish"] /\ files' = files /\ database = <<>>
    BY <1>5, NoTablesKeeps DEF NoTables, At
  <2>2. o.table = Len(database) + 1
    BY <1>1, <2>1 DEF Placed
  <2>. QED
    BY <1>1, <2>1, <2>2 DEF Process, Move, MoveElsewhere, SamePlace, PassedStages, InFile, IndexStages
<1>6. CASE CollectName(p)
  <2>1. o.stage = "names" /\ e = [o EXCEPT !.held = @ \cup {"names"}, !.named = @ + 1] /\ files' = files
    BY <1>6, CollectNameKeeps DEF CollectName, At
  <2>. QED
    BY <1>1, <2>1 DEF Process, Move, MoveElsewhere, SamePlace, PassedStages, InFile, IndexStages
<1>7. CASE DetermineType(p)
  <2>1. /\ o.stage = "names" /\ files' = files
        /\ e = [o EXCEPT !.stage = "select", !.type = DatabaseTypeOf(Tables)]
    BY <1>7, DetermineTypeKeeps DEF DetermineType, At
  <2>. QED
    BY <1>1, <2>1 DEF Process, Move, MoveElsewhere, SamePlace, PassedStages, InFile, IndexStages
<1>. QED
  BY <1>2, <1>3, <1>4, <1>5, <1>6, <1>7 DEF Prepare

LEMMA ExportTableMoves ==
  ASSUME Inv, NEW p \in Exporters, ExportTable(p)
  PROVE  Move(p, export[p], export'[p])
<1>. DEFINE o == export[p]
            e == export'[p]
<1>1. o \in Process /\ Holds(o) /\ Placed(o)
  BY ProcessOf
<1>2. CASE PassOver(p)
  <2>1. o.stage = "select" /\ ~ Wanted(o) /\ e = [o EXCEPT !.table = @ + 1] /\ files' = files
    BY <1>2, PassOverKeeps DEF PassOver, At
  <2>. QED
    BY <1>1, <2>1 DEF Process, Move, MovePast
<1>3. CASE GetTable(p)
  <2>1. /\ o.stage = "select" /\ files' = files
        /\ e = [o EXCEPT !.stage = IF o.exported THEN "create" ELSE "make", !.held = @ \cup {"table"}]
    BY <1>3, GetTableKeeps DEF GetTable, At
  <2>2. e.stage \in {"create", "make"} /\ SamePlace(o, e) /\ e.lossy = o.lossy
    BY <1>1, <2>1 DEF Process, SamePlace
  <2>. QED
    BY <2>1, <2>2 DEF Move, MoveElsewhere, PassedStages, InFile, IndexStages
<1>4. CASE MakeDirectory(p)
  <2>1. o.stage = "make" /\ e = [o EXCEPT !.stage = "create", !.exported = TRUE] /\ files' = files
    BY <1>4, MakeDirectoryKeeps DEF MakeDirectory, At
  <2>. QED
    BY <1>1, <2>1 DEF Process, Move, MoveElsewhere, SamePlace, PassedStages, InFile, IndexStages
<1>5. CASE DirectoryExists(p)
  <2>1. e = [o EXCEPT !.stage = "end", !.held = {}, !.exit = "failure"] /\ files' = files
    BY <1>5, GivesUpKeeps DEF DirectoryExists, GivesUp
  <2>. QED
    BY <1>1, <2>1 DEF Process, Move
<1>6. CASE NextTable(p)
  <2>1. /\ o.stage = "next table" /\ files' = files
        /\ e = [o EXCEPT !.stage = "select", !.held = @ \ {"table"}, !.table = @ + 1, !.item = 0]
    BY <1>6, NextTableKeeps DEF NextTable, At
  <2>. QED
    BY <1>1, <2>1 DEF Process, Move, MoveToNext
<1>7. CASE EndOfTables(p)
  <2>1. /\ o.stage = "select" /\ files' = files /\ o.table \notin Tables
        /\ e = [o EXCEPT !.stage = "finish", !.held = @ \ {"names"}]
    BY <1>7, EndOfTablesKeeps DEF EndOfTables, At
  <2>2. o.table = Len(database) + 1
    BY <1>1, <2>1, TypedOf, TablesOf DEF Placed
  <2>. QED
    BY <1>1, <2>1, <2>2 DEF Process, Move, MoveElsewhere, SamePlace, PassedStages, InFile, IndexStages
<1>. QED
  BY <1>2, <1>3, <1>4, <1>5, <1>6, <1>7 DEF ExportTable

LEMMA ExportFileMoves ==
  ASSUME Inv, NEW p \in Exporters, ExportFile(p)
  PROVE  Move(p, export[p], export'[p])
<1>. DEFINE o == export[p]
            e == export'[p]
<1>1. o \in Process /\ Holds(o) /\ Placed(o)
  BY ProcessOf
<1>2. CASE CreateFile(p)
  <2>1. /\ o.stage = "create" /\ ItemFile(o) \notin DOMAIN files
        /\ files' = WithFile(ItemFile(o), NewFile(p, o))
        /\ e = [o EXCEPT !.stage = IF o.item = 0 THEN "header" ELSE "rows", !.held = @ \cup {"stream"},
                         !.path = ItemFile(o), !.row = 1]
    BY <1>2, CreateFileKeeps DEF CreateFile, At, Taken
  <2>2. e.stage \in InFile /\ SamePlace(o, e) /\ e.path = ItemFile(o) /\ e.lossy = o.lossy
    BY <1>1, <2>1 DEF Process, SamePlace, InFile
  <2>. QED
    BY <2>1, <2>2 DEF Move, MoveToFile
<1>3. CASE SkipFile(p)
  <2>1. /\ o.stage = "create" /\ Taken(ItemFile(o)) /\ files' = files
        /\ e = [o EXCEPT !.stage = IF o.item = 0 THEN "next table" ELSE "next index"]
    BY <1>3, SkipFileKeeps DEF SkipFile, At
  <2>2. e.stage \notin InFile /\ SamePlace(o, e) /\ e.lossy = o.lossy
    BY <1>1, <2>1 DEF Process, SamePlace, InFile
  <2>. QED
    BY <2>1, <2>2 DEF Move, MoveOver
<1>4. ASSUME NEW lines, NEW lost \in BOOLEAN, o.stage \in InFile, Write(o.path, lines, lost),
             e.stage \in InFile, SamePlace(o, e), e.path = o.path, e.lossy = (o.lossy \/ lost)
      PROVE  Move(p, o, e)
  BY <1>4 DEF Move, MoveInFile
<1>11. ASSUME NEW x \in Process, NEW lines, NEW lost \in BOOLEAN, o.stage \in InFile,
              Write(o.path, lines, lost), Step(p, Printing(x, lost)),
              x.stage \in InFile, SamePlace(o, x), x.path = o.path, x.lossy = o.lossy
       PROVE  Move(p, o, e)
  <2>1. e = Printing(x, lost)
    BY <1>11, StepOf
  <2>2. /\ e.stage = x.stage /\ e.path = x.path /\ e.lossy = (x.lossy \/ lost)
        /\ e.mode = x.mode /\ e.wanted = x.wanted /\ e.table = x.table /\ e.item = x.item
    BY <2>1, PrintingIs
  <2>. QED
    BY <1>4, <1>11, <2>2 DEF SamePlace
<1>5. CASE WriteName(p)
  <2>1. PICK x, lines : \E lost \in BOOLEAN :
          /\ o.stage = "header" /\ Write(o.path, lines, lost)
          /\ Step(p, Printing(x, lost)) /\ x \in {o, To(o, "rows")}
    BY <1>5 DEF WriteName, At
  <2>2. x \in Process /\ x.stage \in InFile /\ SamePlace(o, x) /\ x.path = o.path /\ x.lossy = o.lossy
    BY <1>1, <2>1 DEF To, Process, Stages, SamePlace, InFile
  <2>. QED
    BY <1>11, <2>1, <2>2 DEF InFile
<1>6. CASE GetRecord(p)
  <2>1. PICK lines : \E lost \in BOOLEAN :
          o.stage = "rows" /\ Write(o.path, lines, lost) /\ ~ lost /\ Step(p, Hold(o, "record"))
    BY <1>6 DEF GetRecord, At
  <2>2. e = Hold(o, "record")
    BY <2>1, StepOf
  <2>3. e.stage \in InFile /\ SamePlace(o, e) /\ e.path = o.path /\ e.lossy = o.lossy
    BY <1>1, <2>1, <2>2 DEF Hold, Process, SamePlace, InFile
  <2>4. \E lost \in BOOLEAN : Write(o.path, lines, lost) /\ e.lossy = (o.lossy \/ lost)
    <3>1. o.lossy \in BOOLEAN
      BY <1>1 DEF Process
    <3>. QED
      BY <2>1, <2>3, <3>1
  <2>. QED
    BY <1>4, <2>1, <2>3, <2>4 DEF InFile
<1>7. CASE WriteValue(p)
  <2>1. PICK x, lines : \E lost \in BOOLEAN :
          /\ o.stage = "rows" /\ Write(o.path, lines, lost) /\ Step(p, Printing(x, lost))
          /\ x \in {o, [Let(o, "record") EXCEPT !.row = @ + 1]}
    BY <1>7 DEF WriteValue, At
  <2>2. x \in Process /\ x.stage \in InFile /\ SamePlace(o, x) /\ x.path = o.path /\ x.lossy = o.lossy
    <3>1. CASE x = o
      BY <1>1, <2>1, <3>1 DEF SamePlace, InFile
    <3>2. CASE x = [Let(o, "record") EXCEPT !.row = @ + 1]
      <4>1. o.row + 1 \in Nat /\ o.held \ {"record"} \in SUBSET Things
        BY <1>1 DEF Process
      <4>. PICK row, held : row = o.row + 1 /\ held = o.held \ {"record"}
        OBVIOUS
      <4>2. x = [o EXCEPT !.row = row, !.held = held]
        BY <1>1, <3>2 DEF Let, Process
      <4>. QED
        BY <1>1, <2>1, <4>1, <4>2 DEF Process, SamePlace, InFile
    <3>. QED
      BY <2>1, <3>1, <3>2
  <2>. QED
    BY <1>11, <2>1, <2>2 DEF InFile
<1>8. CASE ValueFails(p)
  <2>1. e = [o EXCEPT !.stage = "end", !.held = {}, !.exit = "failure"] /\ files' = files
    BY <1>8, GivesUpKeeps DEF ValueFails, GivesUp
  <2>. QED
    BY <1>1, <2>1 DEF Process, Move
<1>9. CASE LastRecord(p)
  <2>1. o.stage = "rows" /\ e = [o EXCEPT !.stage = "close"] /\ files' = files
    BY <1>9, LastRecordKeeps DEF LastRecord, At
  <2>. QED
    BY <1>1, <2>1 DEF Process, Move, MoveToClose, SamePlace
<1>10. CASE CloseFile(p)
  <2>1. o.stage = "close" /\ e = [o EXCEPT !.stage = AfterItem(o), !.held = @ \ {"stream"}] /\ files' = files
    BY <1>10, CloseFileKeeps DEF CloseFile, At
  <2>2. e.stage = AfterItem(o) /\ SamePlace(o, e) /\ e.lossy = o.lossy
    BY <1>1, <2>1 DEF Process, SamePlace
  <2>. QED
    BY <2>1, <2>2 DEF Move, MoveClosed
<1>. QED
  BY <1>2, <1>3, <1>5, <1>6, <1>7, <1>8, <1>9, <1>10 DEF ExportFile

LEMMA ExportIndexesMoves ==
  ASSUME Inv, NEW p \in Exporters, ExportIndexes(p)
  PROVE  Move(p, export[p], export'[p])
<1>. DEFINE o == export[p]
            e == export'[p]
<1>1. o \in Process /\ Holds(o) /\ Placed(o)
  BY ProcessOf
<1>2. CASE MakeIndexDirectory(p)
  <2>1. /\ o.stage = "index directory" /\ Table(o).name \notin DOMAIN files
        /\ files' = WithFile(Table(o).name, [NewFile(p, o) EXCEPT !.kind = "directory"])
        /\ e = [o EXCEPT !.stage = "next index", !.item = 0]
    BY <1>2, MakeIndexDirectoryKeeps DEF MakeIndexDirectory, At, Taken
  <2>2. e.stage \notin InFile /\ e.mode = o.mode /\ e.exit = o.exit /\ e.lossy = o.lossy
    BY <1>1, <2>1 DEF Process, InFile
  <2>. QED
    BY <2>1, <2>2 DEF Move, MoveToIndexes, IndexStages
<1>3. CASE SkipIndexes(p)
  <2>1. o.stage = "index directory" /\ e = [o EXCEPT !.stage = "next table"] /\ files' = files
    BY <1>3, SkipIndexesKeeps DEF SkipIndexes, At
  <2>2. e.stage \notin InFile /\ e.mode = o.mode /\ e.exit = o.exit /\ e.lossy = o.lossy
    BY <1>1, <2>1 DEF Process, InFile
  <2>. QED
    BY <2>1, <2>2 DEF Move, MoveToIndexes, IndexStages
<1>4. CASE NextIndex(p)
  <2>. DEFINE let == Let(o, "index")
              more == let.item + 1 < Len(Table(let).indexes)
              created == [Hold(To(let, "create"), "index") EXCEPT !.item = @ + 1]
              next == To(let, "next table")
  <2>1. o.stage = "next index" /\ files' = files /\ Step(p, IF more THEN created ELSE next)
    BY <1>4 DEF NextIndex, At
  <2>2. e = IF more THEN created ELSE next
    BY <2>1, StepOf
  <2>3. e = created \/ e = next
    BY <2>2
  <2>4. /\ created.stage = "create" /\ created.mode = o.mode /\ created.exit = o.exit
        /\ next.stage = "next table" /\ next.mode = o.mode /\ next.exit = o.exit
        /\ created.lossy = o.lossy /\ next.lossy = o.lossy
    BY <1>1 DEF Hold, Let, To, Process
  <2>5. e.stage \notin InFile /\ e.mode = o.mode /\ e.exit = o.exit /\ e.lossy = o.lossy
    BY <2>3, <2>4 DEF InFile
  <2>. QED
    BY <2>1, <2>5 DEF Move, MoveToIndexes, IndexStages
<1>. QED
  BY <1>2, <1>3, <1>4 DEF ExportIndexes

LEMMA EndMoves ==
  ASSUME Inv, NEW p \in Exporters, Finish(p) \/ CallFails(p)
  PROVE  Move(p, export[p], export'[p])
<1>. DEFINE o == export[p]
            e == export'[p]
<1>1. o \in Process /\ Holds(o) /\ Placed(o)
  BY ProcessOf
<1>2. CASE Finish(p)
  <2>1. /\ o.stage = "finish" /\ files' = files
        /\ e = [o EXCEPT !.stage = "end", !.held = @ \ {"database"},
                         !.exit = IF o.exported \/ o.wanted = Every THEN "success" ELSE "failure"]
    BY <1>2, FinishKeeps DEF Finish, At
  <2>2. e.stage = "end" /\ SamePlace(o, e) /\ e.lossy = o.lossy
    BY <1>1, <2>1 DEF Process, SamePlace
  <2>. QED
    BY <2>1, <2>2 DEF Move, MoveElsewhere, PassedStages, InFile, IndexStages
<1>3. CASE CallFails(p)
  <2>1. e = [o EXCEPT !.stage = "end", !.held = {}, !.exit = "failure"] /\ files' = files
    BY <1>3, GivesUpKeeps DEF CallFails, GivesUp
  <2>. QED
    BY <1>1, <2>1 DEF Process, Move
<1>. QED
  BY <1>2, <1>3

\* Every step of a process is one of these moves, and the other processes stay where they are.
LEMMA Moves ==
  ASSUME Inv, NEW p \in Exporters, Goes(p)
  PROVE  /\ Move(p, export[p], export'[p]) /\ export[p].exit = "none"
         /\ database' = database
         /\ \A q \in Exporters \ {p} : export'[q] = export[q]
<1>1. Move(p, export[p], export'[p])
  BY PrepareMoves, ExportTableMoves, ExportFileMoves, ExportIndexesMoves, EndMoves DEF Goes
<1>2. ASSUME NEW e, Step(p, e)
      PROVE  \A q \in Exporters \ {p} : export'[q] = export[q]
  BY <1>2, StepOf
<1>3. \E e : Step(p, e) /\ database' = database
  <2>1. CASE Prepare(p)
    BY <2>1 DEF Prepare, CheckPath, PathExists, OpenDatabase, NoTables, CollectName, DetermineType, GivesUp
  <2>2. CASE ExportTable(p)
    BY <2>2 DEF ExportTable, PassOver, GetTable, MakeDirectory, Made, DirectoryExists, NextTable,
                EndOfTables, GivesUp
  <2>3. CASE ExportFile(p)
    BY <2>3 DEF ExportFile, CreateFile, SkipFile, WriteName, GetRecord, WriteValue, ValueFails, LastRecord,
                CloseFile, GivesUp
  <2>4. CASE ExportIndexes(p)
    BY <2>4 DEF ExportIndexes, MakeIndexDirectory, SkipIndexes, NextIndex
  <2>5. CASE Finish(p) \/ CallFails(p)
    BY <2>5 DEF Finish, CallFails, GivesUp
  <2>. QED
    BY <2>1, <2>2, <2>3, <2>4, <2>5 DEF Goes
<1>4. ~ At(p, "end")
  BY DEF Goes, At, Prepare, CheckPath, PathExists, OpenDatabase, NoTables, CollectName, DetermineType,
         ExportTable, PassOver, GetTable, MakeDirectory, DirectoryExists, NextTable, EndOfTables,
         ExportFile, CreateFile, SkipFile, WriteName, GetRecord, WriteValue, ValueFails, LastRecord, CloseFile,
         ExportIndexes, MakeIndexDirectory, SkipIndexes, NextIndex, Finish, CallFails
<1>5. export[p].exit = "none"
  BY <1>4, ProcessOf DEF At, Placed
<1>. QED
  BY <1>1, <1>2, <1>3, <1>5

-----------------------------------------------------------------------------
(***************************************************************************)
(* What the moves do to the files: none is lost, the new ones are of the   *)
(* process, and it writes to the one that it has open.                     *)
(***************************************************************************)
Going(p) ==
  /\ \A path \in DOMAIN files :
       /\ path \in DOMAIN files'
       /\ files'[path].owner = files[path].owner /\ files'[path].kind = files[path].kind
       /\ files'[path].table = files[path].table /\ files'[path].item = files[path].item
       /\ files'[path].lines = files[path].lines \/ (export[p].stage \in InFile /\ path = export[p].path)
  /\ \A path \in DOMAIN files' \ DOMAIN files : files'[path].owner = p

\* A file that is made.
LEMMA NewFiles ==
  ASSUME Inv, NEW p \in Exporters, NEW path, path \notin DOMAIN files,
         NEW file, file.owner = p, files' = WithFile(path, file)
  PROVE  Going(p)
BY DEF Going, WithFile

\* A file that is written to.
LEMMA WrittenFiles ==
  ASSUME Inv, NEW p \in Exporters, export[p].stage \in InFile, NEW lines, NEW lost,
         Write(export[p].path, lines, lost)
  PROVE  Going(p) /\ DOMAIN files' = DOMAIN files
<1>1. files \in [DOMAIN files -> File]
  BY DEF Inv, Typed
<1>2. \A path \in DOMAIN files : files[path] \in File
  BY <1>1
<1>3. /\ DOMAIN files' = DOMAIN files
      /\ \A path \in DOMAIN files \ {export[p].path} : files'[path] = files[path]
  BY <1>1 DEF Write
<1>4. export[p].path \in DOMAIN files =>
        files'[export[p].path] = [files[export[p].path] EXCEPT !.lines = lines, !.lost = @ \/ lost]
  BY <1>1 DEF Write
<1>5. ASSUME NEW path \in DOMAIN files, path = export[p].path
      PROVE  /\ files'[path].owner = files[path].owner /\ files'[path].kind = files[path].kind
             /\ files'[path].table = files[path].table /\ files'[path].item = files[path].item
  BY <1>2, <1>4, <1>5 DEF File
<1>. QED
  BY <1>3, <1>5 DEF Going

\* Every move does one or the other, or nothing.
LEMMA MovesGo ==
  ASSUME Inv, NEW p \in Exporters, Move(p, export[p], export'[p])
  PROVE  Going(p)
<1>. DEFINE o == export[p]
            e == export'[p]
<1>1. o \in Process
  BY ProcessOf
<1>2. CASE files' = files
  BY <1>2 DEF Going
<1>3. CASE MoveInFile(o, e)
  BY <1>3, WrittenFiles DEF MoveInFile
<1>. DEFINE file == NewFile(p, o)
            folder == [NewFile(p, o) EXCEPT !.kind = "directory"]
<1>6. file.owner = p /\ folder.owner = p
  BY <1>1, NewFileIs
<1>. HIDE DEF file, folder
<1>4. CASE MoveToFile(p, o, e)
  <2>1. ItemFile(o) \notin DOMAIN files /\ files' = WithFile(ItemFile(o), file)
    BY <1>4 DEF MoveToFile, file
  <2>. QED
    BY <1>6, <2>1, NewFiles
<1>5. CASE MoveToIndexes(p, o, e)
  <2>1. files' = files \/ (Table(o).name \notin DOMAIN files /\ files' = WithFile(Table(o).name, folder))
    BY <1>5 DEF MoveToIndexes, folder
  <2>. QED
    BY <1>2, <1>6, <2>1, NewFiles
<1>. QED
  BY <1>2, <1>3, <1>4, <1>5 DEF Move, MoveElsewhere, MovePast, MoveToClose, MoveClosed, MoveToNext, MoveOver

\* A file is whole by its lines, its table and its item.
LEMMA PrintedStays ==
  ASSUME database' = database, NEW path,
         files'[path].table = files[path].table, files'[path].item = files[path].item,
         files'[path].lines = files[path].lines, Printed(files[path])
  PROVE  Printed(files[path])'
BY TypeStays, ZenonT(40) DEF Printed, Header, Records, ItemOf, Table

\* A step of one process keeps what the others have finished.
LEMMA OthersKept ==
  ASSUME Inv, NEW p \in Exporters, NEW q \in Exporters, q # p, Going(p),
         database' = database, export'[q] = export[q], TablesKept(q), FilesKept(q)
  PROVE  TablesKept(q)' /\ FilesKept(q)'
<1>1. \A path \in DOMAIN files' : files'[path].owner = q => path \in DOMAIN files
  BY DEF Going
<1>2. TablesKept(q)'
  <2>1. ASSUME NEW t, NEW path, HasFile(t, 0, path)
        PROVE  HasFile(t, 0, path)'
    BY <2>1 DEF HasFile, Taken, Going
  <2>2. Selected(q)' = Selected(q)
    BY DEF Selected, Tables
  <2>3. /\ export[q].mode = export'[q].mode /\ export[q].exit = export'[q].exit
        /\ export[q].stage = export'[q].stage
        /\ export[q].item = export'[q].item /\ export[q].table = export'[q].table
    OBVIOUS
  <2>. QED
    BY <1>1, <2>1, <2>2 DEF TablesKept, Going, Passed
<1>3. FilesKept(q)'
  <2>1. ASSUME NEW path \in FilesOf(q)'
        PROVE  /\ path \in FilesOf(q)
               /\ files'[path].lines = files[path].lines /\ files'[path].table = files[path].table
               /\ files'[path].item = files[path].item
    <3>1. path \in DOMAIN files /\ files[path].owner = q /\ files[path].kind = "file"
      BY <1>1, <2>1 DEF FilesOf, Going
    <3>2. directory = q
      BY <3>1 DEF Inv, OneExportPerDirectory
    <3>3. ~ (export[p].stage \in InFile /\ path = export[p].path)
      BY <3>2, ProcessOf DEF InFile, InTable
    <3>. QED
      BY <3>1, <3>3 DEF Going, FilesOf
  <2>2. ASSUME NEW path \in FilesOf(q)', Printed(files[path])
        PROVE  Printed(files[path])'
    BY <2>1, <2>2, PrintedStays
  <2>. QED
    BY <2>1, <2>2 DEF FilesKept
<1>. QED
  BY <1>2, <1>3

-----------------------------------------------------------------------------
(***************************************************************************)
(* The process that moves: its tables.                                     *)
(***************************************************************************)
SamePassed(p, o, e) ==
  \A t \in Tables :
    /\ Passed(o, t) => Passed(e, t)
    /\ Passed(e, t) /\ t \in Selected(p) => Passed(o, t)
AtTable(e) ==
  /\ e.stage \notin IndexStages /\ e.item = 0
  /\ e.stage = "finish" \/ e.exit = "success" => e.table = Len(database) + 1

\* A step that makes no file keeps the files of the tables when it passes no table.
LEMMA TablesStay ==
  ASSUME Inv, NEW p \in Exporters, TablesKept(p), Going(p), DOMAIN files' = DOMAIN files,
         export[p].exit = "none", database' = database,
         export'[p].mode = export[p].mode, export'[p].wanted = export[p].wanted,
         export'[p].mode = "tables" /\ export'[p].exit # "failure" =>
           SamePassed(p, export[p], export'[p]) /\ AtTable(export'[p])
  PROVE  TablesKept(p)'
<1>. DEFINE o == export[p]
            e == export'[p]
<1>. SUFFICES ASSUME e.mode = "tables", e.exit # "failure"
              PROVE  TablesKept(p)'
  BY DEF TablesKept
<1>1. SamePassed(p, o, e) /\ AtTable(e) /\ o.mode = "tables"
  OBVIOUS
<1>2. Selected(p)' = Selected(p) /\ Tables' = Tables
  BY DEF Selected, Tables
<1>3. ASSUME NEW t, NEW path, HasFile(t, 0, path)
      PROVE  HasFile(t, 0, path)'
  BY <1>3 DEF HasFile, Taken, Going
<1>4. ASSUME NEW path \in DOMAIN files', files'[path].owner = p
      PROVE  /\ files'[path].kind = "file" /\ files'[path].item = 0
             /\ Passed(e, files'[path].table)
             /\ path = ItemFilename(database[files'[path].table].name, files'[path].table - 1)
  <2>1. path \in DOMAIN files /\ files[path].owner = p /\ files[path].table \in Tables
    BY <1>4 DEF Going, Inv
  <2>2. /\ files[path].kind = "file" /\ files[path].item = 0
        /\ Passed(o, files[path].table)
        /\ path = ItemFilename(database[files[path].table].name, files[path].table - 1)
    BY <1>1, <2>1 DEF TablesKept
  <2>. QED
    BY <1>1, <2>1, <2>2 DEF Going, SamePassed
<1>5. ASSUME NEW t \in Selected(p), Passed(e, t)
      PROVE  HasFile(t, 0, ItemFilename(database[t].name, t - 1))'
  <2>1. t \in Tables
    BY DEF Selected
  <2>2. HasFile(t, 0, ItemFilename(database[t].name, t - 1))
    BY <1>1, <1>5, <2>1 DEF TablesKept, SamePassed
  <2>. QED
    BY <1>3, <2>2
<1>. QED
  BY <1>1, <1>2, <1>4, <1>5 DEF TablesKept, AtTable, Passed

\* The name of a table's file is not taken when only tables are exported.
LEMMA NameIsFree ==
  ASSUME Inv, NEW p \in Exporters, TablesKept(p), export[p].stage = "create", export[p].exit = "none",
         export[p].mode = "tables", Taken(ItemFile(export[p]))
  PROVE  FALSE
<1>. DEFINE o == export[p]
            path == ItemFile(o)
            u == files[path].table
<1>1. directory = p /\ o.table \in Tables /\ o.table \in Nat /\ o.item = 0
  BY ProcessOf DEF InTable, Placed, Process, TablesKept
<1>2. path \in DOMAIN files /\ files[path].owner = p /\ u \in Tables
  BY <1>1 DEF Taken, Inv, OneExportPerDirectory
<1>3. Passed(o, u) /\ path = ItemFilename(database[u].name, u - 1)
  BY <1>2 DEF TablesKept
<1>4. u < o.table
  BY <1>3 DEF Passed, PassedStages, InFile
<1>5. path = ItemFilename(database[o.table].name, o.table - 1)
  BY <1>1 DEF ItemFile, ItemName, ItemIndex, Table
<1>6. database \in Databases
  BY DEF Inv, Typed
<1>7. database[u].name \o "." \o ToString(u - 1) = database[o.table].name \o "." \o ToString(o.table - 1)
  BY <1>3, <1>5 DEF ItemFilename
<1>8. u = o.table
  BY <1>1, <1>2, <1>6, <1>7, FilenamesAssumption DEF Tables
<1>. QED
  BY <1>1, <1>4, <1>8

LEMMA Later ==
  ASSUME NEW n \in Nat, NEW m \in Nat
  PROVE  m < n + 1 <=> m < n \/ m = n
OBVIOUS

LEMMA TablesMove ==
  ASSUME Inv, Inv', NEW p \in Exporters, TablesKept(p), export[p].exit = "none", database' = database,
         Move(p, export[p], export'[p])
  PROVE  TablesKept(p)'
<1>. DEFINE o == export[p]
            e == export'[p]
<1>1. o \in Process /\ Placed(o) /\ o.table \in Nat /\ Tables \subseteq Nat
  <2>1. o \in Process /\ Placed(o)
    BY ProcessOf
  <2>. QED
    BY <2>1, TablesOf DEF Inv, Process
<1>2. e.exit = "success" => e.stage = "end"
  BY DEF Inv, Orderly, Placed
<1>3. Going(p)
  BY MovesGo
<1>4. CASE e.exit = "failure" /\ files' = files
  BY <1>4 DEF TablesKept
<1>5. CASE MoveToFile(p, o, e)
  <2>1. SUFFICES ASSUME o.mode = "tables", e.mode = "tables", e.exit # "failure"
                 PROVE  TablesKept(p)'
    BY <1>5 DEF TablesKept, MoveToFile, SamePlace
  <2>. DEFINE path == ItemFile(o)
              file == NewFile(p, o)
  <2>2. /\ o.stage = "create" /\ e.stage \in InFile
        /\ e.table = o.table /\ e.item = o.item /\ o.item = 0 /\ e.wanted = o.wanted
    BY <1>5, <2>1 DEF MoveToFile, SamePlace, TablesKept
  <2>3. path = ItemFilename(database[o.table].name, o.table - 1) /\ o.table \in Tables
    BY <1>1, <2>2 DEF ItemFile, ItemName, ItemIndex, Table, Placed, InTable
  <2>4. file.owner = p /\ file.kind = "file" /\ file.item = 0 /\ file.table = o.table
    BY <2>2 DEF NewFile
  <2>5. path \notin DOMAIN files /\ files' = WithFile(path, file)
    BY <1>5 DEF MoveToFile
  <2>. HIDE DEF path, file
  <2>6. /\ DOMAIN files' = DOMAIN files \cup {path} /\ files'[path] = file
        /\ \A other \in DOMAIN files : files'[other] = files[other]
    BY <2>5 DEF WithFile
  <2>7. \A t \in Tables : Passed(e, t) <=> Passed(o, t) \/ t = o.table
    BY <1>1, <2>2 DEF Passed, PassedStages, InFile
  <2>8. ASSUME NEW other \in DOMAIN files', files'[other].owner = p
        PROVE  /\ files'[other].kind = "file" /\ files'[other].item = 0
               /\ Passed(e, files'[other].table)
               /\ other = ItemFilename(database[files'[other].table].name, files'[other].table - 1)
    <3>1. CASE other = path
      BY <2>3, <2>4, <2>6, <2>7, <3>1
    <3>2. CASE other \in DOMAIN files
      BY <2>1, <2>6, <2>7, <2>8, <3>2 DEF TablesKept, Inv
    <3>. QED
      BY <2>6, <3>1, <3>2
  <2>9. ASSUME NEW t \in Selected(p), Passed(e, t)
        PROVE  HasFile(t, 0, ItemFilename(database[t].name, t - 1))'
    <3>1. CASE t = o.table
      BY <2>3, <2>4, <2>6, <3>1 DEF HasFile, Taken
    <3>2. CASE Passed(o, t)
      BY <2>1, <2>6, <3>2 DEF TablesKept, HasFile, Taken
    <3>. QED
      BY <2>7, <2>9, <3>1, <3>2 DEF Selected
  <2>10. Selected(p)' = Selected(p)
    BY <2>2 DEF Selected, Tables
  <2>11. e.stage \notin IndexStages /\ e.stage # "finish" /\ e.exit # "success"
    BY <1>2, <2>2 DEF IndexStages, InFile
  <2>. QED
    BY <2>2, <2>8, <2>9, <2>10, <2>11 DEF TablesKept, Passed
<1>6. ASSUME DOMAIN files' = DOMAIN files, e.mode = o.mode, e.wanted = o.wanted,
             e.mode = "tables" /\ e.exit # "failure" => SamePassed(p, o, e) /\ AtTable(e)
      PROVE  TablesKept(p)'
  BY <1>3, <1>6, TablesStay
<1>7. o.mode = "tables" => o.stage \notin IndexStages /\ o.item = 0
  BY DEF TablesKept
<1>8. ASSUME e.table = o.table, o.stage \in PassedStages <=> e.stage \in PassedStages
      PROVE  SamePassed(p, o, e)
  BY <1>8 DEF SamePassed, Passed
<1>9. CASE MoveElsewhere(o, e)
  <2>1. SamePassed(p, o, e)
    BY <1>8, <1>9 DEF MoveElsewhere, SamePlace
  <2>2. e.mode = "tables" => AtTable(e)
    <3>1. o.stage = "finish" /\ o.mode = "tables" => o.table = Len(database) + 1
      BY DEF TablesKept
    <3>. QED
      BY <1>2, <1>7, <1>9, <3>1 DEF AtTable, MoveElsewhere, SamePlace
  <2>. QED
    BY <1>6, <1>9, <2>1, <2>2 DEF MoveElsewhere, SamePlace
<1>10. CASE MovePast(o, e)
  <2>1. \A t \in Selected(p) : t # o.table
    BY <1>10 DEF MovePast, Wanted, Selected, Table
  <2>2. SamePassed(p, o, e)
    BY <1>1, <1>10, <2>1, Later DEF MovePast, SamePassed, Passed, PassedStages, InFile
  <2>3. e.mode = "tables" => AtTable(e)
    BY <1>7, <1>10 DEF MovePast, AtTable, IndexStages
  <2>. QED
    BY <1>6, <1>10, <2>2, <2>3 DEF MovePast
<1>11. CASE MoveInFile(o, e)
  <2>1. SamePassed(p, o, e)
    BY <1>8, <1>11 DEF MoveInFile, SamePlace, PassedStages
  <2>2. e.mode = "tables" => AtTable(e)
    BY <1>2, <1>7, <1>11 DEF MoveInFile, SamePlace, AtTable, IndexStages, InFile
  <2>3. DOMAIN files' = DOMAIN files
    BY <1>11, WrittenFiles DEF MoveInFile
  <2>. QED
    BY <1>6, <1>11, <2>1, <2>2, <2>3 DEF MoveInFile, SamePlace
<1>12. CASE MoveToClose(o, e)
  <2>1. SamePassed(p, o, e)
    BY <1>8, <1>12 DEF MoveToClose, SamePlace, PassedStages, InFile
  <2>2. e.mode = "tables" => AtTable(e)
    BY <1>2, <1>7, <1>12 DEF MoveToClose, SamePlace, AtTable, IndexStages
  <2>. QED
    BY <1>6, <1>12, <2>1, <2>2 DEF MoveToClose, SamePlace
<1>13. CASE MoveClosed(o, e)
  <2>1. e.mode = "tables" => e.stage = "next table"
    BY <1>7, <1>13 DEF MoveClosed, SamePlace, AfterItem
  <2>2. e.mode = "tables" => SamePassed(p, o, e)
    BY <1>8, <1>13, <2>1 DEF MoveClosed, SamePlace, PassedStages, InFile
  <2>3. e.mode = "tables" => AtTable(e)
    BY <1>2, <1>7, <1>13, <2>1 DEF MoveClosed, SamePlace, AtTable, IndexStages
  <2>. QED
    BY <1>6, <1>13, <2>2, <2>3 DEF MoveClosed, SamePlace
<1>14. CASE MoveToNext(o, e)
  <2>1. SamePassed(p, o, e)
    BY <1>1, <1>14, Later DEF MoveToNext, SamePassed, Passed, PassedStages, InFile
  <2>2. AtTable(e)
    BY <1>14 DEF MoveToNext, AtTable, IndexStages
  <2>. QED
    BY <1>6, <1>14, <2>1, <2>2 DEF MoveToNext
<1>15. CASE MoveOver(o, e)
  <2>1. o.mode # "tables"
    BY <1>15, NameIsFree DEF MoveOver
  <2>. QED
    BY <1>6, <1>15, <2>1 DEF MoveOver, SamePlace
<1>16. CASE MoveToIndexes(p, o, e)
  <2>1. e.mode # "tables"
    BY <1>7, <1>16 DEF MoveToIndexes
  <2>. QED
    BY <2>1 DEF TablesKept
<1>. QED
  BY <1>4, <1>5, <1>9, <1>10, <1>11, <1>12, <1>13, <1>14, <1>15, <1>16 DEF Move

-----------------------------------------------------------------------------
(***************************************************************************)
(* The process that moves: its files.                                      *)
(***************************************************************************)
LEMMA ClosedIsPrinted ==
  ASSUME Inv, NEW p \in Exporters, export[p].stage = "close"
  PROVE  Printed(files[export[p].path])
<1>. DEFINE o == export[p]
            file == files[o.path]
            records == Records(o)
            lines == file.lines
<1>1. o \in Process /\ Placed(o) /\ Holds(o) /\ OpenFile(p) /\ o.stage = "close" /\ o.item \in Nat
  BY ProcessOf DEF Inv, Process
<1>2. o.row = Len(records) + 1 /\ "record" \notin o.held /\ Len(records) \in Nat
  BY <1>1, RecordsOf DEF Placed, Holds, InTable
<1>3. file.table = o.table /\ file.item = o.item /\ LinesOf(o, lines)
  BY <1>1 DEF OpenFile, InFile
<1>4. RowsWritten(lines, HeaderLines(o), records, Len(records)) /\ (o.item = 0 => lines[1] = Table(o).columns)
  <2>1. o.row - 1 = Len(records)
    BY <1>2
  <2>. QED
    BY <1>1, <1>2, <1>3, <2>1 DEF LinesOf
<1>5. Records(ItemOf(file)) = records
  BY <1>3 DEF ItemOf, Records, Table
<1>6. Header(file) = IF o.item = 0 THEN <<Table(o).columns>> ELSE <<>>
  BY <1>3 DEF ItemOf, Table, Header
<1>7. Len(Header(file)) = HeaderLines(o)
  BY <1>6 DEF HeaderLines
<1>8. \A i \in DOMAIN Header(file) : lines[i] = Header(file)[i]
  BY <1>4, <1>6
<1>9. DOMAIN records = 1 .. Len(records)
  <2>1. records \in Seq(Seq(Values))
    BY <1>1, RecordsOf DEF InTable
  <2>. QED
    BY <2>1
<1>10. Len(lines) = Len(Header(file)) + Len(records)
  BY <1>4, <1>7 DEF RowsWritten
<1>11. \A r \in DOMAIN records : Len(lines[Len(Header(file)) + r]) = Len(records[r])
  BY <1>4, <1>7, <1>9 DEF RowsWritten
<1>. QED
  BY <1>5, <1>8, <1>10, <1>11 DEF Printed

LEMMA FilesMove ==
  ASSUME Inv, NEW p \in Exporters, FilesKept(p), export[p].exit = "none", database' = database,
         Move(p, export[p], export'[p])
  PROVE  FilesKept(p)'
<1>. DEFINE o == export[p]
            e == export'[p]
            Open(path) == o.stage \in InFile /\ o.path = path
            StillOpen(path) == e.stage \in InFile /\ e.path = path
<1>1. Going(p)
  BY MovesGo
<1>2. ASSUME NEW path \in DOMAIN files, path \in FilesOf(p)', StillOpen(path) \/ ~ Open(path)
      PROVE  StillOpen(path) \/ Printed(files[path])'
  <2>1. path \in FilesOf(p)
    BY <1>1, <1>2 DEF FilesOf, Going
  <2>2. ASSUME ~ Open(path)
        PROVE  Printed(files[path])'
    <3>1. Printed(files[path])
      BY <2>1, <2>2 DEF FilesKept
    <3>. QED
      BY <1>1, <2>2, <3>1, PrintedStays DEF Going
  <2>. QED
    BY <1>2, <2>2
<1>3. ASSUME \A path \in FilesOf(p)' : StillOpen(path) \/ Printed(files[path])'
      PROVE  FilesKept(p)'
  BY <1>3 DEF FilesKept
<1>4. ASSUME DOMAIN files' = DOMAIN files, \A path : Open(path) => StillOpen(path)
      PROVE  FilesKept(p)'
  <2>1. \A path \in FilesOf(p)' : path \in DOMAIN files
    BY <1>4 DEF FilesOf
  <2>. QED
    BY <1>2, <1>3, <1>4, <2>1
<1>5. CASE e.exit = "failure" /\ files' = files
  BY <1>5 DEF FilesKept
<1>6. CASE MoveElsewhere(o, e) \/ MovePast(o, e) \/ MoveToClose(o, e) \/ MoveToNext(o, e) \/ MoveOver(o, e)
  BY <1>4, <1>6 DEF MoveElsewhere, MovePast, MoveToClose, MoveToNext, MoveOver, PassedStages, InFile
<1>7. CASE MoveInFile(o, e)
  BY <1>4, <1>7, WrittenFiles DEF MoveInFile
<1>8. CASE MoveClosed(o, e)
  <2>1. Printed(files[o.path]) /\ files' = files
    BY <1>8, ClosedIsPrinted DEF MoveClosed
  <2>2. ASSUME NEW path \in FilesOf(p)', Open(path)
        PROVE  Printed(files[path])'
    BY <2>1, <2>2, PrintedStays
  <2>3. \A path \in FilesOf(p)' : path \in DOMAIN files
    BY <2>1 DEF FilesOf
  <2>. QED
    BY <1>2, <1>3, <2>2, <2>3
<1>9. CASE MoveToFile(p, o, e)
  <2>1. ~ (o.stage \in InFile) /\ e.stage \in InFile /\ e.path = ItemFile(o)
        /\ DOMAIN files' = DOMAIN files \cup {ItemFile(o)}
    BY <1>9 DEF MoveToFile, WithFile, InFile
  <2>2. \A path \in FilesOf(p)' : path \in DOMAIN files \/ StillOpen(path)
    BY <2>1 DEF FilesOf
  <2>. QED
    BY <1>2, <1>3, <2>1, <2>2
<1>10. CASE MoveToIndexes(p, o, e)
  <2>. DEFINE path == Table(o).name
  <2>1. ~ (o.stage \in InFile)
    BY <1>10 DEF MoveToIndexes, IndexStages, InFile
  <2>2. CASE files' = files
    BY <1>4, <2>1, <2>2
  <2>3. CASE files' = WithFile(path, [NewFile(p, o) EXCEPT !.kind = "directory"])
    <3>1. DOMAIN files' = DOMAIN files \cup {path} /\ files'[path].kind = "directory"
      BY <2>3 DEF WithFile, NewFile
    <3>2. \A other \in FilesOf(p)' : other \in DOMAIN files
      BY <3>1 DEF FilesOf
    <3>. QED
      BY <1>2, <1>3, <2>1, <3>2
  <2>. QED
    BY <1>10, <2>2, <2>3 DEF MoveToIndexes
<1>. QED
  BY <1>5, <1>6, <1>7, <1>8, <1>9, <1>10 DEF Move

-----------------------------------------------------------------------------
(***************************************************************************)
(* The files that lack something: no step makes one by a write that was    *)
(* not lost.                                                               *)
(***************************************************************************)
\* When the files that were there are as they were and the new one lacks nothing
LEMMA NoneLost ==
  ASSUME Inv, LostKept, NEW p \in Exporters, export'[p].lossy = export[p].lossy,
         \A q \in Exporters \ {p} : export'[q] = export[q],
         \A path \in DOMAIN files' : files'[path].lost =>
           path \in DOMAIN files /\ files'[path] = files[path]
  PROVE  LostKept'
<1>1. ASSUME NEW path \in DOMAIN files', files'[path].lost
      PROVE  export'[files'[path].owner].lossy
  <2>1. path \in DOMAIN files /\ files'[path] = files[path] /\ files[path].lost
    BY <1>1
  <2>2. files[path] \in File
    BY <2>1 DEF Inv, Typed
  <2>. PICK q \in Exporters : q = files[path].owner
    BY <2>2 DEF File
  <2>3. export[q].lossy
    BY <2>1 DEF LostKept
  <2>. QED
    BY <2>1, <2>3
<1>. QED
  BY <1>1 DEF LostKept

\* When the process prints, the file that it has open is its own.
LEMMA OwnLost ==
  ASSUME Inv, LostKept, NEW p \in Exporters, export[p].stage \in InFile,
         NEW lines, NEW lost \in BOOLEAN, Write(export[p].path, lines, lost),
         export'[p].lossy = (export[p].lossy \/ lost),
         \A q \in Exporters \ {p} : export'[q] = export[q]
  PROVE  LostKept'
<1>. PICK open : open = export[p].path
  OBVIOUS
<1>1. open \in DOMAIN files /\ files \in [DOMAIN files -> File] /\ directory = p
  BY ProcessOf DEF Inv, Typed, OpenFile, Taken, InFile, InTable
<1>2. /\ DOMAIN files' = DOMAIN files
      /\ files'[open] = [files[open] EXCEPT !.lines = lines, !.lost = @ \/ lost]
      /\ \A other \in DOMAIN files \ {open} : files'[other] = files[other]
  BY <1>1 DEF Write
<1>3. \A path \in DOMAIN files : files[path].owner = p
  BY <1>1 DEF Inv, OneExportPerDirectory
<1>4. files[open] \in File
  BY <1>1
<1>5. files'[open].owner = p /\ (files'[open].lost => files[open].lost \/ lost)
  <2>. PICK short \in BOOLEAN : short = (files[open].lost \/ lost)
    BY <1>4 DEF File
  <2>1. files'[open] = [files[open] EXCEPT !.lines = lines, !.lost = short]
    BY <1>2
  <2>. QED
    BY <1>1, <1>3, <1>4, <2>1 DEF File
<1>6. ASSUME NEW path \in DOMAIN files', files'[path].lost
      PROVE  export'[files'[path].owner].lossy
  <2>1. CASE path = open
    <3>1. files[open].lost => export[p].lossy
      BY <1>1, <1>3 DEF LostKept
    <3>. QED
      BY <1>5, <1>6, <2>1, <3>1
  <2>2. CASE path # open
    <3>1. files'[path] = files[path] /\ path \in DOMAIN files
      BY <1>2, <1>6, <2>2
    <3>2. export[p].lossy
      BY <1>3, <1>6, <3>1 DEF LostKept
    <3>. QED
      BY <1>3, <3>1, <3>2
  <2>. QED
    BY <2>1, <2>2
<1>. QED
  BY <1>6 DEF LostKept

LEMMA LostStep ==
  ASSUME Inv, LostKept, NEW p \in Exporters, Move(p, export[p], export'[p]),
         \A q \in Exporters \ {p} : export'[q] = export[q]
  PROVE  LostKept'
<1>. DEFINE o == export[p]
            e == export'[p]
<1>1. CASE MoveInFile(o, e)
  <2>1. PICK lines : \E lost \in BOOLEAN : Write(o.path, lines, lost) /\ e.lossy = (o.lossy \/ lost)
    BY <1>1 DEF MoveInFile
  <2>. QED
    BY <1>1, <2>1, OwnLost DEF MoveInFile
<1>2. CASE files' = files /\ e.lossy = o.lossy
  BY <1>2, NoneLost
<1>. DEFINE file == NewFile(p, o)
            folder == [NewFile(p, o) EXCEPT !.kind = "directory"]
<1>3. ~ file.lost /\ ~ folder.lost
  BY DEF NewFile
<1>4. ASSUME NEW path, NEW new, ~ new.lost, path \notin DOMAIN files, files' = WithFile(path, new),
             e.lossy = o.lossy
      PROVE  LostKept'
  BY <1>4, NoneLost DEF WithFile
<1>. HIDE DEF file, folder
<1>5. CASE MoveToFile(p, o, e) /\ e.lossy = o.lossy
  <2>1. ItemFile(o) \notin DOMAIN files /\ files' = WithFile(ItemFile(o), file)
    BY <1>5 DEF MoveToFile, file
  <2>. QED
    BY <1>3, <1>4, <1>5, <2>1
<1>6. CASE MoveToIndexes(p, o, e) /\ e.lossy = o.lossy
  <2>1. files' = files \/ (Table(o).name \notin DOMAIN files /\ files' = WithFile(Table(o).name, folder))
    BY <1>6 DEF MoveToIndexes, folder
  <2>. QED
    BY <1>2, <1>3, <1>4, <1>6, <2>1
<1>. QED
  BY <1>1, <1>2, <1>5, <1>6 DEF Move, MoveElsewhere, MovePast, MoveToClose, MoveClosed, MoveToNext, MoveOver

-----------------------------------------------------------------------------
(***************************************************************************)
(* The cells of the lines: by the exporter that the names of all tables    *)
(* call for.                                                               *)
(***************************************************************************)
By(file) == IF file.item = 0 THEN ExporterOf(DatabaseTypeOf(Tables), database[file.table].name) ELSE 0
CellsBy(cells, by) == \A j \in DOMAIN cells : cells[j].by = by
LinesBy(lines, header, by) == \A i \in header + 1 .. Len(lines) : CellsBy(lines[i], by)
FileBy(file) == LinesBy(file.lines, Len(Header(file)), By(file))

\* The property, file by file, before and after a step.
LEMMA SameLinesIs == SameLinesWhateverIsWanted <=> \A path \in DOMAIN files : FileBy(files[path])
BY DEF SameLinesWhateverIsWanted, FileBy, LinesBy, CellsBy, By

LEMMA SameLinesNext == SameLinesWhateverIsWanted' <=> \A path \in DOMAIN files' : FileBy(files[path])'
BY DEF SameLinesWhateverIsWanted, FileBy, LinesBy, CellsBy, By

\* A file that does not change keeps the exporters of its cells.
LEMMA FileByStays ==
  ASSUME database' = database, NEW path, files'[path] = files[path], FileBy(files[path])
  PROVE  FileBy(files[path])'
BY TypeStays DEF FileBy, By, Header, ItemOf, Table, Tables, LinesBy, CellsBy, ExporterOf

\* The line of the names has no cells.
LEMMA HeaderOnly ==
  ASSUME NEW names, NEW by
  PROVE  LinesBy(<<names>>, 1, by)
BY DEF LinesBy

\* An empty line has no cells.
LEMMA LineBegins ==
  ASSUME NEW lines \in Seq(Seq(Written)), NEW header \in {0, 1}, NEW by, LinesBy(lines, header, by),
         NEW new, new = Append(lines, <<>>)
  PROVE  LinesBy(new, header, by)
<1>1. /\ Len(new) = Len(lines) + 1 /\ Len(lines) \in Nat /\ new[Len(lines) + 1] = <<>>
      /\ \A i \in 1 .. Len(lines) : new[i] = lines[i]
  OBVIOUS
<1>2. ASSUME NEW i \in header + 1 .. Len(lines)
      PROVE  new[i] = lines[i] /\ CellsBy(lines[i], by)
  BY <1>1 DEF LinesBy
<1>3. CellsBy(<<>>, by)
  BY DEF CellsBy
<1>. QED
  BY <1>1, <1>2, <1>3 DEF LinesBy

LEMMA LineGrows ==
  ASSUME NEW lines \in Seq(Seq(Written)), NEW header \in {0, 1}, NEW by, LinesBy(lines, header, by),
         Len(lines) > header, NEW cell \in Written, cell.by = by,
         NEW new, new = [lines EXCEPT ![Len(lines)] = Append(lines[Len(lines)], cell)]
  PROVE  LinesBy(new, header, by)
<1>. DEFINE last == lines[Len(lines)]
            line == Append(last, cell)
<1>1. Len(lines) \in Nat /\ Len(lines) \in 1 .. Len(lines) /\ last \in Seq(Written)
  OBVIOUS
<1>2. CellsBy(last, by)
  BY <1>1 DEF LinesBy
<1>3. CellsBy(line, by)
  BY <1>1, <1>2 DEF CellsBy
<1>4. /\ Len(new) = Len(lines) /\ new[Len(lines)] = line
      /\ \A i \in 1 .. Len(lines) : i # Len(lines) => new[i] = lines[i]
  BY <1>1
<1>5. ASSUME NEW i \in header + 1 .. Len(lines), i # Len(lines)
      PROVE  CellsBy(new[i], by)
  <2>1. i \in 1 .. Len(lines) /\ CellsBy(lines[i], by)
    BY <1>1 DEF LinesBy
  <2>2. new[i] = lines[i]
    BY <1>4, <1>5, <2>1
  <2>. QED
    BY <2>1, <2>2
<1>6. CellsBy(new[Len(lines)], by)
  BY <1>3, <1>4
<1>. QED
  BY <1>4, <1>5, <1>6 DEF LinesBy

\* A step that only makes a file without lines, or none
LEMMA NewFileBy ==
  ASSUME Inv, SameLinesWhateverIsWanted, database' = database, NEW path, path \notin DOMAIN files,
         NEW file \in File, file.lines = <<>>, files' = WithFile(path, file)
  PROVE  SameLinesWhateverIsWanted'
<1>1. /\ DOMAIN files' = DOMAIN files \cup {path} /\ files'[path] = file
      /\ \A other \in DOMAIN files : files'[other] = files[other]
  BY DEF WithFile
<1>2. FileBy(files[path])'
  BY <1>1 DEF FileBy, LinesBy, Header
<1>3. ASSUME NEW other \in DOMAIN files
      PROVE  FileBy(files[other])'
  BY <1>1, FileByStays, SameLinesIs
<1>. QED
  BY <1>1, <1>2, <1>3, SameLinesNext

\* A step that writes lines to the file that the process has open
LEMMA WrittenBy ==
  ASSUME Inv, SameLinesWhateverIsWanted, database' = database, NEW p \in Exporters, export[p].stage \in InFile,
         NEW lines, NEW lost, Write(export[p].path, lines, lost),
         LinesBy(lines, HeaderLines(export[p]), By(export[p]))
  PROVE  SameLinesWhateverIsWanted'
<1>. PICK path : path = export[p].path
  OBVIOUS
<1>. DEFINE file == files[path]
            new == files'[path]
<1>1. /\ path \in DOMAIN files /\ file.table = export[p].table /\ file.item = export[p].item
      /\ files \in [DOMAIN files -> File]
  BY DEF Inv, OpenFile, Taken, Typed
<1>2. /\ DOMAIN files' = DOMAIN files /\ new = [file EXCEPT !.lines = lines, !.lost = @ \/ lost]
      /\ \A other \in DOMAIN files \ {path} : files'[other] = files[other]
  BY <1>1 DEF Write
<1>3. file \in File
  BY <1>1
<1>4. new.lines = lines /\ new.table = export[p].table /\ new.item = export[p].item
  BY <1>1, <1>2, <1>3 DEF File
<1>5. FileBy(files[path])'
  <2>1. By(files[path])' = By(export[p])
    BY <1>4, TypeStays DEF By, ExporterOf
  <2>2. Len(Header(files[path]))' = HeaderLines(export[p])
    BY <1>4 DEF Header, HeaderLines
  <2>. QED
    BY <1>4, <2>1, <2>2 DEF FileBy, LinesBy, CellsBy
<1>6. ASSUME NEW other \in DOMAIN files, other # path
      PROVE  FileBy(files[other])'
  BY <1>2, <1>6, FileByStays, SameLinesIs
<1>. QED
  BY <1>2, <1>5, <1>6, SameLinesNext

\* The cells of the file that is open, and the next one.
LEMMA OpenFileBy ==
  ASSUME Inv, SameLinesWhateverIsWanted, NEW p \in Exporters, export[p].stage \in InFile
  PROVE  /\ LinesBy(Lines(export[p]), HeaderLines(export[p]), By(export[p]))
         /\ Cell(export[p]).by = By(export[p])
<1>. DEFINE o == export[p]
            file == files[o.path]
<1>1. o.path \in DOMAIN files /\ file.table = o.table /\ file.item = o.item
  BY DEF Inv, OpenFile, Taken
<1>2. FileBy(file)
  BY <1>1, SameLinesIs
<1>3. By(file) = By(o) /\ Len(Header(file)) = HeaderLines(o)
  BY <1>1 DEF By, Header, HeaderLines
<1>4. o.type = DatabaseTypeOf(Tables)
  BY ProcessOf DEF Placed, InTable, InFile
<1>. QED
  BY <1>2, <1>3, <1>4 DEF FileBy, Lines, Cell, By, Table

\* No step writes a cell by another exporter.
LEMMA SameLinesStep ==
  ASSUME Inv, SameLinesWhateverIsWanted, NEW p \in Exporters, Goes(p), database' = database
  PROVE  SameLinesWhateverIsWanted'
<1>. DEFINE o == export[p]
<1>1. o \in Process /\ Holds(o)
  BY ProcessOf
<1>2. ASSUME files' = files
      PROVE  SameLinesWhateverIsWanted'
  BY <1>2, FileByStays, SameLinesIs, SameLinesNext
<1>3. HeaderLines(o) \in {0, 1}
  BY DEF HeaderLines
<1>4. CASE Prepare(p) \/ ExportTable(p) \/ Finish(p) \/ CallFails(p)
  <2>1. files' = files
    BY <1>4 DEF Prepare, CheckPath, PathExists, OpenDatabase, NoTables, CollectName, DetermineType, GivesUp,
                ExportTable, PassOver, GetTable, MakeDirectory, DirectoryExists, NextTable, EndOfTables,
                Finish, CallFails
  <2>. QED
    BY <1>2, <2>1
<1>5. CASE SkipFile(p) \/ ValueFails(p) \/ LastRecord(p) \/ CloseFile(p) \/ SkipIndexes(p) \/ NextIndex(p)
  <2>1. files' = files
    BY <1>5 DEF SkipFile, ValueFails, GivesUp, LastRecord, CloseFile, SkipIndexes, NextIndex
  <2>. QED
    BY <1>2, <2>1
<1>. DEFINE file == NewFile(p, o)
            folder == [NewFile(p, o) EXCEPT !.kind = "directory"]
<1>6. file \in File /\ folder \in File /\ file.lines = <<>> /\ folder.lines = <<>>
  BY <1>1, NewFileIs DEF NewFile
<1>. HIDE DEF file, folder
<1>7. CASE CreateFile(p)
  <2>1. ItemFile(o) \notin DOMAIN files /\ files' = WithFile(ItemFile(o), file)
    BY <1>7 DEF CreateFile, Taken, file
  <2>. QED
    BY <1>6, <2>1, NewFileBy
<1>8. CASE MakeIndexDirectory(p)
  <2>1. Table(o).name \notin DOMAIN files /\ files' = WithFile(Table(o).name, folder)
    BY <1>8 DEF MakeIndexDirectory, Taken, folder
  <2>. QED
    BY <1>6, <2>1, NewFileBy
<1>9. CASE WriteName(p)
  <2>1. PICK names, lost : o.stage = "header" /\ Write(o.path, <<names>>, lost)
    BY <1>9 DEF WriteName, At
  <2>2. HeaderLines(o) = 1
    BY <1>1, <2>1, NatZero DEF Holds, HeaderLines, Process
  <2>3. LinesBy(<<names>>, HeaderLines(o), By(o))
    BY <2>2, HeaderOnly
  <2>. QED
    BY <2>1, <2>3, WrittenBy DEF InFile
<1>10. CASE GetRecord(p)
  <2>. DEFINE new == Append(Lines(o), <<>>)
  <2>1. o.stage \in InFile /\ Write(o.path, new, FALSE)
    BY <1>10 DEF GetRecord, At, InFile
  <2>2. Lines(o) \in Seq(Seq(Written)) /\ LinesBy(Lines(o), HeaderLines(o), By(o))
    BY <2>1, OpenFileOf, OpenFileBy
  <2>3. LinesBy(new, HeaderLines(o), By(o))
    BY <1>3, <2>2, LineBegins
  <2>. QED
    BY <2>1, <2>3, WrittenBy
<1>11. CASE WriteValue(p)
  <2>. DEFINE lines == Lines(o)
              new == [lines EXCEPT ![Len(lines)] = Append(lines[Len(lines)], Cell(o))]
  <2>1. PICK lost :
          /\ At(p, "rows") /\ o.stage \in InFile /\ Write(o.path, new, lost)
          /\ "record" \in o.held /\ Cell(o).kind # "error"
    BY <1>11 DEF WriteValue, At, InFile, Line
  <2>2. lines \in Seq(Seq(Written)) /\ LinesBy(lines, HeaderLines(o), By(o)) /\ Cell(o).by = By(o)
    BY <2>1, OpenFileOf, OpenFileBy
  <2>3. Cell(o) \in Written
    BY <1>1, <2>1, CellIsWritten
  <2>4. RowBegun(lines, HeaderLines(o), Records(o), o.row - 1) /\ o.row - 1 \in Nat
    BY <2>1, RowsOf
  <2>5. Len(lines) > HeaderLines(o)
    BY <1>3, <2>4 DEF RowBegun
  <2>. HIDE DEF lines
  <2>6. LinesBy(new, HeaderLines(o), By(o))
    BY <1>3, <2>2, <2>3, <2>5, LineGrows
  <2>. QED
    BY <2>1, <2>6, WrittenBy
<1>. QED
  BY <1>4, <1>5, <1>7, <1>8, <1>9, <1>10, <1>11 DEF Goes, ExportFile, ExportIndexes

-----------------------------------------------------------------------------
(***************************************************************************)
(* The invariant, and what it says when an export has ended.               *)
(***************************************************************************)
LEMMA InitKept == Init => Kept
<1>. SUFFICES ASSUME Init
              PROVE  Kept
  OBVIOUS
<1>1. Inv
  BY InitInv
<1>2. DOMAIN files = {}
  BY DEF Init
<1>3. SameLinesWhateverIsWanted
  BY <1>2 DEF SameLinesWhateverIsWanted
<1>4. ASSUME NEW p \in Exporters
      PROVE  TablesKept(p) /\ FilesKept(p)
  <2>1. /\ export[p].stage = "check" /\ export[p].table = 1 /\ export[p].item = 0 /\ export[p].exit = "none"
    <3>1. export[p] \in
            {Started(mode, wanted) : mode \in Modes, wanted \in {Every, "absent"} \cup Names(database)}
      BY DEF Init
    <3>2. PICK mode, wanted : export[p] = Started(mode, wanted)
      BY <3>1
    <3>. DEFINE e == Started(mode, wanted)
    <3>3. e.stage = "check" /\ e.table = 1 /\ e.item = 0 /\ e.exit = "none"
      BY DEF Started
    <3>. QED
      BY <3>2, <3>3
  <2>2. \A t \in Tables : ~ Passed(export[p], t)
    BY <1>1, <2>1, TablesOf DEF Inv, Passed, PassedStages, InFile
  <2>3. TablesKept(p)
    BY <1>2, <2>1, <2>2 DEF TablesKept, IndexStages, Selected
  <2>. QED
    BY <1>2, <2>3 DEF FilesKept, FilesOf
<1>5. LostKept
  BY <1>2 DEF LostKept
<1>. QED
  BY <1>1, <1>3, <1>4, <1>5 DEF Kept

LEMMA NextKept == Kept /\ [Next]_vars => Kept'
<1>. SUFFICES ASSUME Kept, [Next]_vars
              PROVE  Kept'
  OBVIOUS
<1>1. Inv /\ Inv'
  BY NextInv DEF Kept
<1>2. CASE UNCHANGED vars
  <2>1. database' = database /\ files' = files /\ export' = export
    BY <1>2 DEF vars
  <2>2. SameLinesWhateverIsWanted'
    BY <2>1, FileByStays, SameLinesIs, SameLinesNext DEF Kept
  <2>3. ASSUME NEW q \in Exporters
        PROVE  TablesKept(q)' /\ FilesKept(q)'
    <3>1. TablesKept(q) /\ FilesKept(q)
      BY DEF Kept
    <3>2. TablesKept(q)'
      BY <2>1, <3>1 DEF TablesKept, Passed, HasFile, Taken, Selected, Tables
    <3>3. FilesOf(q)' = FilesOf(q)
      BY <2>1 DEF FilesOf
    <3>4. FilesKept(q)'
      BY <2>1, <3>1, <3>3, PrintedStays DEF FilesKept
    <3>. QED
      BY <3>2, <3>4
  <2>4. LostKept'
    BY <2>1 DEF Kept, LostKept
  <2>. QED
    BY <1>1, <2>2, <2>3, <2>4 DEF Kept
<1>3. ASSUME NEW p \in Exporters, Goes(p)
      PROVE  Kept'
  <2>1. /\ Move(p, export[p], export'[p]) /\ export[p].exit = "none" /\ database' = database
        /\ \A q \in Exporters \ {p} : export'[q] = export[q]
    BY <1>1, <1>3, Moves
  <2>2. SameLinesWhateverIsWanted'
    BY <1>1, <1>3, <2>1, SameLinesStep DEF Kept
  <2>3. TablesKept(p)' /\ FilesKept(p)'
    BY <1>1, <2>1, TablesMove, FilesMove DEF Kept
  <2>4. ASSUME NEW q \in Exporters, q # p
        PROVE  TablesKept(q)' /\ FilesKept(q)'
    BY <1>1, <2>1, <2>4, MovesGo, OthersKept DEF Kept
  <2>5. LostKept'
    BY <1>1, <2>1, LostStep DEF Kept
  <2>. QED
    BY <1>1, <2>2, <2>3, <2>4, <2>5 DEF Kept
<1>. QED
  BY <1>2, <1>3 DEF Next

\* An export that succeeded has passed all of its tables.
LEMMA KeptIsEnough == Kept => SuccessIsWhole
<1>. SUFFICES ASSUME Kept
              PROVE  SuccessIsWhole
  OBVIOUS
<1>1. ASSUME NEW p \in Exporters
      PROVE  export[p] \in Process /\ Placed(export[p]) /\ TablesKept(p) /\ FilesKept(p)
  BY ProcessOf DEF Kept
<1>2. TypeOK
  <2>1. directory \in Exporters \cup {"none"}
    BY DEF Kept, Inv, Typed
  <2>2. ASSUME NEW path \in DOMAIN files
        PROVE  files[path].table \in Tables /\ files[path].kind \in {"file", "directory"}
    <3>1. files \in [DOMAIN files -> File] /\ files[path].table \in Tables
      BY DEF Kept, Inv, Typed
    <3>2. files[path] \in File
      BY <3>1
    <3>. QED
      BY <3>1, <3>2 DEF File
  <2>3. ASSUME NEW p \in Exporters
        PROVE  /\ export[p].stage \in Stages /\ export[p].held \subseteq Things
               /\ export[p].named \in 0 .. Len(database) /\ export[p].type \in Types \cup {0}
               /\ export[p].table \in 1 .. Len(database) + 1
               /\ export[p].exit \in {"none", "success", "failure"} /\ export[p].lossy \in BOOLEAN
    <3>1. export[p] \in Process /\ Placed(export[p]) /\ Len(database) \in Nat
      BY <1>1, TablesOf DEF Kept, Inv
    <3>. QED
      BY <3>1 DEF Process, Placed
  <2>. QED
    BY <2>1, <2>2, <2>3 DEF TypeOK
<1>3. ASSUME NEW p \in Exporters, Succeeded(p)
      PROVE  export[p].exit # "failure" /\ export[p].stage \notin InFile /\ export[p].stage \notin InTable
  BY <1>1, <1>3 DEF Succeeded, Placed, InFile, InTable
<1>4. TablesAreExported
  <2>1. ASSUME NEW p \in Exporters, Succeeded(p), export[p].mode = "tables", NEW t \in Selected(p)
        PROVE  HasFile(t, 0, ItemFilename(database[t].name, t - 1))
    <3>1. TablesKept(p) /\ export[p].exit # "failure" /\ export[p].exit = "success"
      BY <1>1, <1>3, <2>1 DEF Succeeded
    <3>2. export[p].table = Len(database) + 1
      BY <2>1, <3>1 DEF TablesKept
    <3>3. t \in 1 .. Len(database) /\ Len(database) \in Nat
      BY TablesOf DEF Selected, Kept, Inv
    <3>4. Passed(export[p], t)
      BY <3>2, <3>3 DEF Passed
    <3>. QED
      BY <2>1, <3>1, <3>4 DEF TablesKept
  <2>. QED
    BY <2>1 DEF TablesAreExported
<1>5. FilesAreWhole
  <2>1. ASSUME NEW p \in Exporters, Succeeded(p), NEW path \in FilesOf(p)
        PROVE  Printed(files[path]) /\ (files[path].lost => export[p].lossy)
    <3>1. Printed(files[path])
      BY <1>1, <1>3, <2>1 DEF FilesKept
    <3>2. path \in DOMAIN files /\ files[path].owner = p
      BY DEF FilesOf
    <3>. QED
      BY <3>1, <3>2 DEF Kept, LostKept
  <2>. QED
    BY <2>1 DEF FilesAreWhole
<1>. QED
  BY <1>2, <1>4, <1>5 DEF SuccessIsWhole, Kept

(***************************************************************************)
(* An export that reports success has printed a whole file for every table *)
(* that was wanted, with the lines it has in an export of all, and what    *)
(* was printed is in the file unless a write of this export was lost.      *)
(***************************************************************************)
THEOREM Wholeness == Spec => []SuccessIsWhole
BY InitKept, NextKept, KeptIsEnough, PTL DEF Spec
=============================================================================
