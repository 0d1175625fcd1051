-------------------------------- MODULE Export --------------------------------
(***************************************************************************)
(* esedbexport: a database written to a directory, a text file for every   *)
(* table and every index, by one or more processes with the same target.   *)
(*                                                                         *)
(* The directory is looked for before the database is opened and made when *)
(* the first table is there.  A call that fails ends the export; files     *)
(* that were begun stay.  Only what is printed to a file may be lost       *)
(* without an end of the export: nobody looks at what fprintf answers.     *)
(* The library, the file system and the names that libcpath makes of table *)
(* names are external: a name is a sanitized one.                          *)
(***************************************************************************)
EXTENDS Integers, Sequences, FiniteSets, TLC

CONSTANTS
  Exporters,   \* the processes
  Databases,   \* the databases: sequences of tables
  KnownNames,  \* for every type of database the names of tables that give it away
  Special,     \* for every type the tables with an exporter of their own
  Every        \* no table was asked for by name

Values == [type : STRING, flags : SUBSET STRING, size : Nat, found : BOOLEAN]
Index == [name : STRING, records : Seq(Seq(Values))]
TableRecord == [name : STRING, columns : Seq(STRING), records : Seq(Seq(Values)), indexes : Seq(Index)]

ASSUME ExportersAssumption == "none" \notin Exporters
ASSUME DatabasesAssumption == Databases \subseteq Seq(TableRecord)
ASSUME TypesAssumption == KnownNames \in Seq(SUBSET STRING) /\ DOMAIN KnownNames = DOMAIN Special
ASSUME ColumnsAssumption == \A db \in Databases : \A t \in DOMAIN db : db[t].columns # <<>>
\* A record has a value for every column, so at least one.
ASSUME RecordsAssumption ==
  \A db \in Databases : \A t \in DOMAIN db :
    /\ \A r \in DOMAIN db[t].records : db[t].records[r] # <<>>
    /\ \A i \in DOMAIN db[t].indexes : \A r \in DOMAIN db[t].indexes[i].records :
         db[t].indexes[i].records[r] # <<>>
\* Names that end in a dot and another number are different.
ASSUME FilenamesAssumption ==
  \A db \in Databases : \A t, u \in DOMAIN db :
    db[t].name \o "." \o ToString(t - 1) = db[u].name \o "." \o ToString(u - 1) => t = u

VARIABLES
  database,  \* the database that is exported
  directory, \* who made the directory, or "none"
  files,     \* the files and directories in it
  export     \* the processes

vars == <<database, directory, files, export>>

Tables == DOMAIN database
Modes == {"tables", "all"}
Names(db) == {db[t].name : t \in DOMAIN db}
Started(mode, wanted) ==
  [stage |-> "check", mode |-> mode, wanted |-> wanted, named |-> 0, type |-> 0, table |-> 1, item |-> 0,
   row |-> 1, exported |-> FALSE, path |-> "", held |-> {}, lossy |-> FALSE, exit |-> "none"]

Init ==
  /\ database \in Databases
  /\ directory = "none"
  /\ files = [path \in {} |-> 0]
  /\ export \in [Exporters -> {Started(mode, wanted) : mode \in Modes,
                                 wanted \in {Every, "absent"} \cup Names(database)}]

-----------------------------------------------------------------------------
(***************************************************************************)
(* What kind of database it is, and what is written of a value.            *)
(***************************************************************************)
Types == DOMAIN KnownNames

\* How many of the first tables have a name that is known of a type
KnownTables(type, tables) == Cardinality({t \in tables : database[t].name \in KnownNames[type]})

\* The type with the most known tables, the first of them; 0 is unknown.
DatabaseTypeOf(tables) ==
  LET found == {type \in Types : KnownTables(type, tables) > 0}
      most == {type \in found : \A other \in found : KnownTables(other, tables) <= KnownTables(type, tables)}
  IN IF most = {} THEN 0 ELSE CHOOSE type \in most : \A other \in most : type <= other

DatabaseType(e) == DatabaseTypeOf(1 .. e.named)

ExporterOf(type, name) == IF type # 0 /\ name \in Special[type] THEN type ELSE 0

TextTypes == {"text", "large text"}

\* A value without any data, a basic one and the others as their flags say
SingleValue(value, flag) == flag \in value.flags /\ "multi" \notin value.flags
CompressedCell(value) ==
  IF value.type \notin {"large text", "large binary"} THEN "empty"
  ELSE IF value.size > 0 THEN "value"
  ELSE IF value.type = "large binary" THEN "error" ELSE "empty"
MultiCell(value) ==
  IF value.flags \cap {"long", "0x10"} = {} /\ value.type \in TextTypes THEN "value" ELSE "empty"

CellOf(value) ==
  IF value.flags \subseteq {"variable"} THEN IF value.size > 0 THEN "value" ELSE "empty"
  ELSE IF SingleValue(value, "compressed") THEN CompressedCell(value)
  ELSE IF SingleValue(value, "long") THEN IF value.found /\ value.size > 0 THEN "value" ELSE "empty"
  ELSE IF "multi" \in value.flags THEN MultiCell(value)
  ELSE "empty"

-----------------------------------------------------------------------------
(***************************************************************************)
(* The item that a process is at: item 0 is the table, the others are its  *)
(* indexes without the first.                                              *)
(***************************************************************************)
Table(e) == database[e.table]
ItemName(e) == IF e.item = 0 THEN Table(e).name ELSE Table(e).indexes[e.item + 1].name
ItemIndex(e) == IF e.item = 0 THEN e.table - 1 ELSE e.item
Records(e) == IF e.item = 0 THEN Table(e).records ELSE Table(e).indexes[e.item + 1].records

\* Mutant: the number is left out.
ItemFilenameOfName(name, index) == name

ItemFilename(name, index) == name \o "." \o ToString(index)

Taken(path) == path \in DOMAIN files
Wanted(e) == e.wanted \in {Every, Table(e).name}

At(p, stage) == export[p].stage = stage
Step(p, e) == export' = [export EXCEPT ![p] = e]
To(e, stage) == [e EXCEPT !.stage = stage]
Hold(e, what) == [e EXCEPT !.held = @ \cup {what}]
Let(e, what) == [e EXCEPT !.held = @ \ {what}]

\* Every on_error on the way out frees what its function holds, the stream among it.
Abandoned(e) == [To(e, "end") EXCEPT !.held = {}, !.exit = "failure"]

GivesUp(p) == Step(p, Abandoned(export[p])) /\ UNCHANGED <<database, directory, files>>

-----------------------------------------------------------------------------
(* The directory is looked for, the database opened, the tables named.     *)

\* export_handle_create_items_export_path only looks: nothing is made.
CheckPath(p) ==
  /\ At(p, "check") /\ directory = "none"
  /\ Step(p, To(export[p], "open"))
  /\ UNCHANGED <<database, directory, files>>

PathExists(p) == At(p, "check") /\ directory # "none" /\ GivesUp(p)

OpenDatabase(p) ==
  /\ At(p, "open")
  /\ Step(p, Hold(To(export[p], "names"), "database"))
  /\ UNCHANGED <<database, directory, files>>

\* A database without tables is not exported: no name is collected.
NoTables(p) ==
  /\ At(p, "names") /\ database = <<>>
  /\ Step(p, To(export[p], "finish"))
  /\ UNCHANGED <<database, directory, files>>

CollectName(p) ==
  /\ At(p, "names") /\ export[p].named < Len(database)
  /\ Step(p, [Hold(export[p], "names") EXCEPT !.named = @ + 1])
  /\ UNCHANGED <<database, directory, files>>

DetermineType(p) ==
  /\ At(p, "names") /\ database # <<>> /\ export[p].named = Len(database)
  /\ Step(p, [To(export[p], "select") EXCEPT !.type = DatabaseType(export[p])])
  /\ UNCHANGED <<database, directory, files>>

-----------------------------------------------------------------------------
(* The loop over the tables.                                               *)

PassOver(p) ==
  /\ At(p, "select") /\ export[p].table \in Tables /\ ~ Wanted(export[p])
  /\ Step(p, [export[p] EXCEPT !.table = @ + 1])
  /\ UNCHANGED <<database, directory, files>>

GetTable(p) ==
  /\ At(p, "select") /\ export[p].table \in Tables /\ Wanted(export[p])
  /\ Step(p, Hold(To(export[p], IF export[p].exported THEN "create" ELSE "make"), "table"))
  /\ UNCHANGED <<database, directory, files>>

Made(p) == Step(p, [To(export[p], "create") EXCEPT !.exported = TRUE])

\* Mutant: a directory that is there is taken as made.
MakeDirectoryAlways(p) ==
  /\ At(p, "make")
  /\ directory' = IF directory = "none" THEN p ELSE directory
  /\ Made(p)
  /\ UNCHANGED <<database, files>>

MakeDirectory(p) ==
  /\ At(p, "make") /\ directory = "none"
  /\ directory' = p
  /\ Made(p)
  /\ UNCHANGED <<database, files>>

DirectoryExists(p) == At(p, "make") /\ directory # "none" /\ GivesUp(p)

\* The file of the item or, when its name is taken, none: that is a success.
ItemFile(e) == ItemFilename(ItemName(e), ItemIndex(e))
NewFile(p, e) == [owner |-> p, kind |-> "file", table |-> e.table, item |-> e.item, lines |-> <<>>, lost |-> FALSE]
WithFile(path, file) == [q \in DOMAIN files \cup {path} |-> IF q = path THEN file ELSE files[q]]
AfterItem(e) ==
  IF e.item # 0 THEN "next index" ELSE IF e.mode = "all" THEN "index directory" ELSE "next table"

\* Mutant: a file that is there is opened and written again.
CreateFileAlways(p) ==
  /\ At(p, "create")
  /\ LET e == export[p] IN
     /\ files' = WithFile(ItemFile(e), NewFile(p, e))
     /\ Step(p, [Hold(To(e, IF e.item = 0 THEN "header" ELSE "rows"), "stream")
                   EXCEPT !.path = ItemFile(e), !.row = 1])
  /\ UNCHANGED <<database, directory>>

CreateFile(p) ==
  /\ At(p, "create") /\ ~ Taken(ItemFile(export[p]))
  /\ LET e == export[p] IN
     /\ files' = WithFile(ItemFile(e), NewFile(p, e))
     /\ Step(p, [Hold(To(e, IF e.item = 0 THEN "header" ELSE "rows"), "stream")
                   EXCEPT !.path = ItemFile(e), !.row = 1])
  /\ UNCHANGED <<database, directory>>

\* The item is passed over; a table is passed over with its indexes.
SkipFile(p) ==
  /\ At(p, "create") /\ Taken(ItemFile(export[p]))
  /\ Step(p, To(export[p], IF export[p].item = 0 THEN "next table" ELSE "next index"))
  /\ UNCHANGED <<database, directory, files>>

\* Mutant: the same table is taken again.
NextTableSame(p) ==
  /\ At(p, "next table")
  /\ Step(p, [Let(To(export[p], "select"), "table") EXCEPT !.item = 0])
  /\ UNCHANGED <<database, directory, files>>

NextTable(p) ==
  /\ At(p, "next table")
  /\ Step(p, [Let(To(export[p], "select"), "table") EXCEPT !.table = @ + 1, !.item = 0])
  /\ UNCHANGED <<database, directory, files>>

EndOfTables(p) ==
  /\ At(p, "select") /\ export[p].table \notin Tables
  /\ Step(p, Let(To(export[p], "finish"), "names"))
  /\ UNCHANGED <<database, directory, files>>

-----------------------------------------------------------------------------
(* A file: the names of the columns, for a table, and a line for a record. *)

(* What is printed, with the tab or the end of line behind it, is in the   *)
(* file unless the write is lost: then the file has a gap, and the export  *)
(* goes on.                                                                *)

Lines(e) == files[e.path].lines
Write(path, lines, lost) ==
  files' = [files EXCEPT ![path].lines = lines, ![path].lost = @ \/ lost]
Printing(e, lost) == [e EXCEPT !.lossy = @ \/ lost]

\* A line for the header is begun with its first name.
WriteName(p) ==
  /\ At(p, "header")
  /\ LET e == export[p]
         header == IF Lines(e) = <<>> THEN <<>> ELSE Lines(e)[1]
         names == Append(header, Table(e).columns[Len(header) + 1])
     IN \E lost \in BOOLEAN :
          /\ Write(e.path, <<names>>, lost)
          /\ Step(p, Printing(IF Len(names) = Len(Table(e).columns) THEN To(e, "rows") ELSE e, lost))
  /\ UNCHANGED <<database, directory>>

Record(e) == Records(e)[e.row]

GetRecord(p) ==
  /\ At(p, "rows") /\ export[p].row <= Len(Records(export[p])) /\ "record" \notin export[p].held
  /\ Write(export[p].path, Append(Lines(export[p]), <<>>), FALSE)
  /\ Step(p, Hold(export[p], "record"))
  /\ UNCHANGED <<database, directory>>

\* The cells of the line that is being written
Line(e) == Lines(e)[Len(Lines(e))]
Value(e) == Record(e)[Len(Line(e)) + 1]
Cell(e) == [kind |-> CellOf(Value(e)), by |-> IF e.item = 0 THEN ExporterOf(e.type, Table(e).name) ELSE 0]

WriteValue(p) ==
  /\ At(p, "rows") /\ "record" \in export[p].held
  /\ LET e == export[p]
         line == Append(Line(e), Cell(e))
         after == IF Len(line) < Len(Record(e)) THEN e ELSE [Let(e, "record") EXCEPT !.row = @ + 1]
     IN /\ Cell(e).kind # "error"
        /\ \E lost \in BOOLEAN :
             /\ Write(e.path, [Lines(e) EXCEPT ![Len(Lines(e))] = line], lost)
             /\ Step(p, Printing(after, lost))
  /\ UNCHANGED <<database, directory>>

ValueFails(p) ==
  /\ At(p, "rows") /\ "record" \in export[p].held /\ Cell(export[p]).kind = "error"
  /\ GivesUp(p)

LastRecord(p) ==
  /\ At(p, "rows") /\ export[p].row > Len(Records(export[p]))
  /\ Step(p, To(export[p], "close"))
  /\ UNCHANGED <<database, directory, files>>

CloseFile(p) ==
  /\ At(p, "close")
  /\ Step(p, Let(To(export[p], AfterItem(export[p])), "stream"))
  /\ UNCHANGED <<database, directory, files>>

-----------------------------------------------------------------------------
(* The indexes: a directory of the table's name is made, the files go      *)
(* beside it, numbered from 1.                                             *)

MakeIndexDirectory(p) ==
  /\ At(p, "index directory") /\ ~ Taken(Table(export[p]).name)
  /\ files' = WithFile(Table(export[p]).name, [NewFile(p, export[p]) EXCEPT !.kind = "directory"])
  /\ Step(p, [To(export[p], "next index") EXCEPT !.item = 0])
  /\ UNCHANGED <<database, directory>>

SkipIndexes(p) ==
  /\ At(p, "index directory") /\ Taken(Table(export[p]).name)
  /\ Step(p, To(export[p], "next table"))
  /\ UNCHANGED <<database, directory, files>>

\* Mutant: an index is not freed when there is another.
NextIndexKeeping(p) ==
  /\ At(p, "next index")
  /\ LET e == export[p] IN
     Step(p, IF e.item + 1 < Len(Table(e).indexes)
             THEN [Hold(To(e, "create"), "index") EXCEPT !.item = @ + 1]
             ELSE To(e, "next table"))
  /\ UNCHANGED <<database, directory, files>>

\* The index is freed and the next one is got.
NextIndex(p) ==
  /\ At(p, "next index")
  /\ LET e == Let(export[p], "index") IN
     Step(p, IF e.item + 1 < Len(Table(e).indexes)
             THEN [Hold(To(e, "create"), "index") EXCEPT !.item = @ + 1]
             ELSE To(e, "next table"))
  /\ UNCHANGED <<database, directory, files>>

-----------------------------------------------------------------------------
\* The database is closed and freed; without a table the exit says so.
Finish(p) ==
  /\ At(p, "finish")
  /\ Step(p, [Let(To(export[p], "end"), "database")
                EXCEPT !.exit = IF export[p].exported \/ export[p].wanted = Every THEN "success" ELSE "failure"])
  /\ UNCHANGED <<database, directory, files>>

\* A call of the library, of the file system or for memory fails, one whose result is looked at: that of
\* fprintf is not, that of the close of a file is.
CallFails(p) == ~ At(p, "end") /\ GivesUp(p)

Prepare(p) ==
  CheckPath(p) \/ PathExists(p) \/ OpenDatabase(p) \/ NoTables(p) \/ CollectName(p) \/ DetermineType(p)
ExportTable(p) ==
  PassOver(p) \/ GetTable(p) \/ MakeDirectory(p) \/ DirectoryExists(p) \/ NextTable(p) \/ EndOfTables(p)
ExportFile(p) ==
  \/ CreateFile(p) \/ SkipFile(p) \/ WriteName(p) \/ GetRecord(p) \/ WriteValue(p) \/ ValueFails(p)
  \/ LastRecord(p) \/ CloseFile(p)
ExportIndexes(p) == MakeIndexDirectory(p) \/ SkipIndexes(p) \/ NextIndex(p)

Goes(p) == Prepare(p) \/ ExportTable(p) \/ ExportFile(p) \/ ExportIndexes(p) \/ Finish(p) \/ CallFails(p)

Next == \E p \in Exporters : Goes(p)

\* A process goes on until it ends.
Spec == Init /\ [][Next]_vars /\ \A p \in Exporters : WF_vars(Goes(p))
-----------------------------------------------------------------------------
Things == {"database", "names", "table", "index", "record", "stream"}
Stages ==
  {"check", "open", "names", "select", "make", "create", "header", "rows", "close", "index directory",
   "next index", "next table", "finish", "end"}

TypeOK ==
  /\ directory \in Exporters \cup {"none"}
  /\ \A path \in DOMAIN files : files[path].table \in Tables /\ files[path].kind \in {"file", "directory"}
  /\ \A p \in Exporters :
       /\ export[p].stage \in Stages /\ export[p].held \subseteq Things
       /\ export[p].named \in 0 .. Len(database) /\ export[p].type \in Types \cup {0}
       /\ export[p].table \in 1 .. Len(database) + 1 /\ export[p].exit \in {"none", "success", "failure"}
       /\ export[p].lossy \in BOOLEAN

\* The lines that the table or the index should have: its header and a cell for every value.
ItemOf(file) == [table |-> file.table, item |-> file.item, type |-> DatabaseTypeOf(Tables)]
Header(file) == IF file.item = 0 THEN <<Table(ItemOf(file)).columns>> ELSE <<>>
Printed(file) ==
  LET records == Records(ItemOf(file))
      header == Header(file)
  IN  /\ Len(file.lines) = Len(header) + Len(records)
      /\ \A i \in DOMAIN header : file.lines[i] = header[i]
      /\ \A r \in DOMAIN records : Len(file.lines[Len(header) + r]) = Len(records[r])

Succeeded(p) == export[p].exit = "success"
FilesOf(p) == {path \in DOMAIN files : files[path].owner = p /\ files[path].kind = "file"}
Selected(p) == {t \in Tables : export[p].wanted \in {Every, database[t].name}}
HasFile(t, item, path) ==
  Taken(path) /\ files[path].kind = "file" /\ files[path].table = t /\ files[path].item = item

\* Two exports with one target never write to one directory, though both looked before one of them
\* made it (export_handle_create_items_export_path, export_handle_export_file).
OneExportPerDirectory == \A path \in DOMAIN files : files[path].owner = directory

\* An export of tables that succeeds has a file for every table that was asked for, also when two
\* tables have one name (export_handle_export_table).
TablesAreExported ==
  \A p \in Exporters :
    Succeeded(p) /\ export[p].mode = "tables" =>
      \A t \in Selected(p) : HasFile(t, 0, ItemFilename(database[t].name, t - 1))

\* After a success no file was left half printed: every column, every record and every value of it
\* has its place, the values that could not be read too; and what was printed is in the file, unless a
\* write of this export was lost, which is no failure (export_handle_export_record).
FilesAreWhole ==
  \A p \in Exporters : Succeeded(p) =>
    \A path \in FilesOf(p) : Printed(files[path]) /\ (files[path].lost => export[p].lossy)

\* The values of a table are written the same whether it is exported alone or with the others: what
\* kind of database it is does not depend on the table that was asked for (database_type_determine).
SameLinesWhateverIsWanted ==
  \A path \in DOMAIN files :
    LET file == files[path]
        by == IF file.item = 0 THEN ExporterOf(DatabaseTypeOf(Tables), database[file.table].name) ELSE 0
    IN \A i \in Len(Header(file)) + 1 .. Len(file.lines) :
         \A j \in DOMAIN file.lines[i] : file.lines[i][j].by = by

\* What an export holds it lets go of in order, innermost first, and at its end it holds nothing.
HeldInOrder ==
  \A p \in Exporters :
    LET held == export[p].held IN
    /\ At(p, "end") => held = {}
    /\ held # {} => "database" \in held
    /\ held \cap {"index", "record", "stream"} # {} => "table" \in held
    /\ "record" \in held => "stream" \in held
    /\ "index" \in held <=> export[p].item > 0 /\ export[p].stage \notin {"next table", "end"}

(* An export that reports success has printed a whole file for every table *)
(* that was wanted, with the lines it has in an export of all, and without *)
(* a lost write each of the files is as it was printed                     *)
(* (export_handle_export_file).                                            *)
SuccessIsWhole ==
  /\ TypeOK
  /\ TablesAreExported
  /\ FilesAreWhole
  /\ SameLinesWhateverIsWanted

\* A file is written by the stream that made it and never again (export_handle_create_text_item_file).
FilesStay ==
  [][\A path \in DOMAIN files :
       (\A p \in Exporters : ~ ("stream" \in export[p].held /\ export[p].path = path)) =>
         path \in DOMAIN files' /\ files'[path] = files[path]]_vars

\* Every export ends.
ExportsEnd == \A p \in Exporters : <>At(p, "end")

\* What the manual says of the mode all: the tables are exported with their indexes.
EverythingIsExported ==
  \A p \in Exporters :
    Succeeded(p) /\ export[p].mode = "all" =>
      \A t \in Selected(p) :
        /\ \E path \in DOMAIN files : HasFile(t, 0, path)
        /\ \A i \in 1 .. Len(database[t].indexes) - 1 : \E path \in DOMAIN files : HasFile(t, i, path)
=============================================================================
