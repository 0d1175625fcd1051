------------------------------- MODULE Catalog -------------------------------
(***************************************************************************)
(* The catalog of an open file.  The leaf pages of the database and then   *)
(* those of the catalog are walked row by row; a row of the catalog makes  *)
(* a table or belongs to the table of the last such row.  Then tables are  *)
(* asked for by number and by name, with the table that is their template, *)
(* and the table in hand for its columns, indexes, names and records.      *)
(*                                                                         *)
(* The descent to a first leaf page and the search of a page tree are      *)
(* those of LeafWalk, LeafByIndex and KeySearch: a tree is its first leaf  *)
(* page here, and for records the sequence of its values.                  *)
(***************************************************************************)
EXTENDS CatalogDefinition, PageTreeValue

CONSTANTS
  Files,      \* the first leaf pages, the pages and the trees of records
  Strings,    \* the names that are asked for
  LastPage,   \* io_handle->last_page_number
  PageSize,   \* io_handle->page_size
  WordSize,   \* 2^32
  SubNodes,   \* LIBESEDB_BLOCK_TREE_NUMBER_OF_SUB_NODES
  MaxInt,     \* INT_MAX
  MaxFaults   \* how many reads may fail

ASSUME CatalogAssumption ==
  /\ LastPage \in Nat \ {0} /\ PageSize \in Nat \ {0}
  /\ WordSize \in Nat \ {0} /\ MaxInt \in Nat /\ MaxFaults \in Nat
  /\ SubNodes \in Nat \ {0, 1}
  /\ LastPage <= MaxInt

Bytes == Seq(0..255)
IsSequence(s) == Len(s) \in Nat /\ DOMAIN s = 1..Len(s)

(* Whatever bytes a file has, its pages have rows and a next page. *)
ASSUME FilesAssumption ==
  \A f \in Files :
    /\ f.first["database"] \in Nat /\ f.first["catalog"] \in Nat
    /\ \A p \in DOMAIN f.pages :
         /\ f.pages[p].next \in Nat /\ IsSequence(f.pages[p].rows)
         /\ \A r \in DOMAIN f.pages[p].rows : f.pages[p].rows[r].bytes \in Bytes
    /\ \A root \in DOMAIN f.trees : IsSequence(f.trees[root])

VARIABLES
  file,     \* the contents of the file
  stray,    \* a byte behind the end of a row
  step,     \* what happens next: a descent, a page, rows, calls or nothing
  tree,     \* the tree that is walked: the database or the catalog
  at,       \* leaf_page_number
  row,      \* page_value_index
  seen,     \* page_block_tree of the walk: the offsets of its pages
  counted,  \* current_leaf_value_index of the database
  tables,   \* catalog->table_definition_array
  inHand,   \* the table that was made last, with its template
  reply,    \* the last answer: the call, its argument and its code
  faults    \* the reads that may still fail

vars == <<file, stray, step, tree, at, row, seen, counted, tables, inHand, reply, faults>>

NoTable == [table |-> 0, template |-> 0]
NoReply == [call |-> "none", of |-> None, code |-> 0]

Init ==
  /\ file \in Files /\ stray \in {0, 255}
  /\ step = "descend" /\ tree = "database"
  /\ at = 0 /\ row = 0 /\ seen = {} /\ counted = 0
  /\ tables = <<>> /\ inHand = NoTable /\ reply = NoReply
  /\ faults = MaxFaults

FreeTables == tables' = <<>>

(* The catalog is freed with what it has when the open fails. *)
Fail ==
  /\ step' = "failed" /\ FreeTables
  /\ UNCHANGED <<file, stray, tree, at, row, seen, counted, inHand, reply>>

-----------------------------------------------------------------------------
(* The walk over the leaf pages. *)

PageOffset(number) == ((number + 1) * PageSize) % WordSize
FileSize == (LastPage + 2) * PageSize
Here == file.pages[at]

(* Each of the two trees has a block tree of its own, which refuses the    *)
(* offsets behind the last entry of its root node.                         *)
FreshBlockTree == seen' = {}

Blocks == INSTANCE BlockNode WITH LeafSize <- PageSize
HasBlock(number) == Blocks!HasBlock(FileSize, PageOffset(number))

Descend ==
  /\ step = "descend"
  /\ step' = "page" /\ at' = file.first[tree] /\ FreshBlockTree
  /\ UNCHANGED <<file, stray, tree, row, counted, tables, inHand, reply, faults>>

\* Mutant: a page is read however often the links lead to it.
FirstReadAlways == HasBlock(at)

FirstRead == HasBlock(at) /\ PageOffset(at) \notin seen
HasLeafPage == at <= MaxInt /\ at \in DOMAIN file.pages /\ Here.leaf

EnterPage ==
  /\ step = "page" /\ at # 0 /\ FirstRead /\ HasLeafPage
  /\ step' = "rows" /\ row' = 1 /\ seen' = seen \cup {PageOffset(at)}
  /\ UNCHANGED <<file, stray, tree, at, counted, tables, inHand, reply, faults>>

EnterFails ==
  /\ step = "page" /\ at # 0 /\ ~(FirstRead /\ HasLeafPage)
  /\ Fail /\ UNCHANGED faults

ReadFails ==
  /\ faults > 0 /\ faults' = faults - 1
  /\ step = "descend" \/ (step = "page" /\ at # 0)
  /\ Fail

LeavePage ==
  /\ step = "rows" /\ row > Len(Here.rows)
  /\ step' = "page" /\ at' = Here.next
  /\ UNCHANGED <<file, stray, tree, row, seen, counted, tables, inHand, reply, faults>>

WalkEnds ==
  /\ step = "page" /\ at = 0
  /\ IF tree = "database" THEN step' = "descend" /\ tree' = "catalog"
     ELSE step' = "open" /\ UNCHANGED tree
  /\ UNCHANGED <<file, stray, at, row, seen, counted, tables, inHand, reply, faults>>

-----------------------------------------------------------------------------
(* The rows of a page. *)

AtRow == step = "rows" /\ row <= Len(Here.rows)
ThisRow == Here.rows[row]
ThisValue == TreeValue(ThisRow.bytes, ThisRow.common)
LiveIn(name) == AtRow /\ tree = name /\ ~ThisRow.defunct

NextRow ==
  /\ row' = row + 1
  /\ UNCHANGED <<file, stray, step, tree, at, seen, inHand, reply, faults>>

SkipDefunct ==
  /\ AtRow /\ ThisRow.defunct
  /\ NextRow /\ UNCHANGED <<counted, tables>>

CountRow ==
  /\ LiveIn("database") /\ ThisValue.ok /\ counted < MaxInt
  /\ counted' = counted + 1
  /\ NextRow /\ UNCHANGED tables

CountFails ==
  /\ LiveIn("database") /\ (~ThisValue.ok \/ counted = MaxInt)
  /\ Fail /\ UNCHANGED faults

DefinitionOf(value) ==
  IF ~value.ok \/ value.wrapped THEN BadDefinition ELSE Definition(value.data, stray)
ThisDefinition == DefinitionOf(ThisValue)
NewRow(types) == LiveIn("catalog") /\ ThisDefinition.ok /\ ThisDefinition.type \in types

NewTable(d) ==
  [definition |-> d, columns |-> <<>>, indexes |-> <<>>, single |-> [t \in {} |-> d]]

TableRow ==
  /\ NewRow({Table})
  /\ tables' = Append(tables, NewTable(ThisDefinition))
  /\ NextRow /\ UNCHANGED counted

\* Mutant: a column goes to the first table.
AppendColumnToFirst(d) == tables' = [tables EXCEPT ![1].columns = Append(@, d)]

AppendColumn(d) == tables' = [tables EXCEPT ![Len(tables)].columns = Append(@, d)]
AppendIndex(d) == tables' = [tables EXCEPT ![Len(tables)].indexes = Append(@, d)]

ColumnRow ==
  /\ NewRow({ColumnType}) /\ tables # <<>>
  /\ AppendColumn(ThisDefinition)
  /\ NextRow /\ UNCHANGED counted

IndexRow ==
  /\ NewRow({Index}) /\ tables # <<>>
  /\ AppendIndex(ThisDefinition)
  /\ NextRow /\ UNCHANGED counted

(* A table has one definition of its long values and one of its callback. *)
HasSingle(type) == type \in DOMAIN tables[Len(tables)].single

WithSingle(single, type, d) ==
  [t \in DOMAIN single \cup {type} |-> IF t = type THEN d ELSE single[t]]
SetLongValue(d) ==
  tables' = [tables EXCEPT ![Len(tables)].single = WithSingle(@, LongValue, d)]
SetCallback(d) ==
  tables' = [tables EXCEPT ![Len(tables)].single = WithSingle(@, Callback, d)]

SingleRow ==
  /\ NewRow({LongValue, Callback}) /\ tables # <<>> /\ ~HasSingle(ThisDefinition.type)
  /\ IF ThisDefinition.type = LongValue THEN SetLongValue(ThisDefinition)
     ELSE SetCallback(ThisDefinition)
  /\ NextRow /\ UNCHANGED counted

IgnoreRow ==
  /\ LiveIn("catalog") /\ ThisDefinition.ok /\ ThisDefinition.type # Table
  /\ tables = <<>> \/ ThisDefinition.type \notin Table..Callback
  /\ NextRow /\ UNCHANGED <<counted, tables>>

RowFails ==
  /\ LiveIn("catalog")
  /\ ThisDefinition.ok =>
       /\ ThisDefinition.type \in {LongValue, Callback}
       /\ tables # <<>> /\ HasSingle(ThisDefinition.type)
  /\ Fail /\ UNCHANGED faults

ReadRow ==
  \/ SkipDefunct \/ CountRow \/ CountFails
  \/ TableRow \/ ColumnRow \/ IndexRow \/ SingleRow \/ IgnoreRow \/ RowFails

ReadStep == Descend \/ EnterPage \/ EnterFails \/ LeavePage \/ WalkEnds \/ ReadRow

-----------------------------------------------------------------------------
(* The tables by name: the first whose name compares as equal, unless one  *)
(* before it cannot be compared.                                           *)

NumberOfTableDefinitions == Len(tables)
TableDefinition(i) == tables[i].definition

FirstOf(compared) ==
  LET hits == {i \in DOMAIN compared : compared[i] # 0}
  IN  IF hits = {} THEN [code |-> 0, table |-> 0]
      ELSE LET i == Min(hits)
           IN  [code |-> compared[i], table |-> IF compared[i] = 1 THEN i ELSE 0]

BadName == [code |-> -1, table |-> 0]
ByName(name) ==
  IF name = None THEN BadName
  ELSE FirstOf([i \in DOMAIN tables |-> SameName(TableDefinition(i), name)])
ByUtf8(string) ==
  IF string = None THEN BadName
  ELSE FirstOf([i \in DOMAIN tables |-> CompareUtf8(TableDefinition(i), string)])
ByUtf16(string) ==
  IF string = None THEN BadName
  ELSE FirstOf([i \in DOMAIN tables |-> CompareUtf16(TableDefinition(i), string)])

-----------------------------------------------------------------------------
(* The calls on the file.  A table is made with its template, which is     *)
(* looked up as UTF-8 when the table is asked for by its number and by its *)
(* bytes when it is asked for by its name.                                 *)

NumberOfTables == IF step = "open" THEN NumberOfTableDefinitions ELSE 0

TemplateOf(i, compared) ==
  IF TableDefinition(i).template = None THEN [code |-> 1, table |-> 0] ELSE compared

MakeTable(call, argument, found, template) ==
  LET made == found.code = 1 /\ template.code = 1
  IN  /\ reply' = [call |-> call, of |-> argument,
                   code |-> IF made \/ found.code # 1 THEN found.code ELSE -1]
      /\ inHand' = IF made THEN [table |-> found.table, template |-> template.table]
                   ELSE NoTable
      /\ UNCHANGED <<file, stray, step, tree, at, row, seen, counted, tables, faults>>

Free == step = "open" /\ inHand = NoTable

GetTable(i) ==
  /\ Free
  /\ IF i \in DOMAIN tables
     THEN MakeTable("number", i, [code |-> 1, table |-> i],
                    TemplateOf(i, ByUtf8(TableDefinition(i).template)))
     ELSE MakeTable("number", i, BadName, BadName)

GetTableByUtf8(string) ==
  /\ Free
  /\ LET found == ByUtf8(string)
     IN  MakeTable("utf8", string, found,
           IF found.code = 1
           THEN TemplateOf(found.table, ByName(TableDefinition(found.table).template))
           ELSE BadName)

GetTableByUtf16(string) ==
  /\ Free
  /\ LET found == ByUtf16(string)
     IN  MakeTable("utf16", string, found,
           IF found.code = 1
           THEN TemplateOf(found.table, ByName(TableDefinition(found.table).template))
           ELSE BadName)

FreeTable ==
  /\ step = "open" /\ inHand # NoTable
  /\ inHand' = NoTable
  /\ UNCHANGED <<file, stray, step, tree, at, row, seen, counted, tables, reply, faults>>

Calls ==
  \/ \E i \in 0..(Len(tables) + 1) : GetTable(i)
  \/ \E string \in Strings : GetTableByUtf8(string) \/ GetTableByUtf16(string)
  \/ FreeTable

Next == ReadStep \/ ReadFails \/ Calls

Spec == Init /\ [][Next]_vars /\ WF_vars(ReadStep)

-----------------------------------------------------------------------------
(***************************************************************************)
(* The reference for what the rows make.  A walk is the pages that the     *)
(* links of a tree lead along to the end, a place a page of the walk and a *)
(* row of it that is not marked as deleted.  The row at a place belongs to *)
(* the table whose row came last, and has a place among those of its type  *)
(* that do.                                                                *)
(***************************************************************************)
PageLists ==
  LET numbers == DOMAIN file.pages \ {0}
  IN  UNION {[1..n -> numbers] : n \in 0..Cardinality(numbers)}

PageAt(name, pages, n) == IF n = 1 THEN file.first[name] ELSE file.pages[pages[n - 1]].next
IsWalk(name, pages) ==
  /\ \A n \in 1..Len(pages) : pages[n] = PageAt(name, pages, n)
  /\ PageAt(name, pages, Len(pages) + 1) = 0
Walks(name) == {pages \in PageLists : IsWalk(name, pages)}

RowsAt(pages, n) == file.pages[pages[n]].rows
PlacesOn(pages, n) == {n} \X {r \in DOMAIN RowsAt(pages, n) : ~RowsAt(pages, n)[r].defunct}
Places(pages) == UNION {PlacesOn(pages, n) : n \in 1..Len(pages)}
ReadAt(pages) ==
  [p \in Places(pages) |->
     LET r == RowsAt(pages, p[1])[p[2]] IN DefinitionOf(TreeValue(r.bytes, r.common))]

Before(p, q) == p[1] < q[1] \/ (p[1] = q[1] /\ p[2] < q[2])
UpTo(places, p) == {q \in places : ~Before(p, q)}
OfType(read, places, type) == {p \in places : read[p].type = type}

\* The number of the table that a row belongs to, 0 before the first table.
TableOf(read, places, p) == Cardinality(UpTo(OfType(read, places, Table), p))
RowsOfTable(read, places, k, type) ==
  {p \in OfType(read, places, type) : TableOf(read, places, p) = k}

IsListOf(definitions, read, places) ==
  /\ Len(definitions) = Cardinality(places)
  /\ \A p \in places : definitions[Cardinality(UpTo(places, p))] = read[p]

IsSingleOf(single, type, read, places) ==
  /\ type \in DOMAIN single <=> places # {}
  /\ \A p \in places : single[type] = read[p]

IsTableOf(entry, k, read, places) ==
  LET Of(type) == RowsOfTable(read, places, k, type)
  IN  /\ IsListOf(entry.columns, read, Of(ColumnType))
      /\ IsListOf(entry.indexes, read, Of(Index))
      /\ \A type \in {LongValue, Callback} : IsSingleOf(entry.single, type, read, Of(type))

AreTablesOf(entries, read, places) ==
  /\ Len(entries) = Cardinality(OfType(read, places, Table))
  /\ \A p \in OfType(read, places, Table) :
       entries[TableOf(read, places, p)].definition = read[p]
  /\ \A k \in 1..Len(entries) : IsTableOf(entries[k], k, read, places)

(* An open catalog has a table for each row of one, in the order of the    *)
(* rows, and every column, index, long value and callback row between it   *)
(* and the next such row is with it and in its place, whatever pages the   *)
(* rows are on; and the rows of the database are counted                   *)
(* (libesedb_catalog_read_value_data).                                     *)
RowsMakeTables ==
  step = "open" =>
    /\ \A pages \in Walks("catalog") : AreTablesOf(tables, ReadAt(pages), Places(pages))
    /\ \A pages \in Walks("database") : counted = Cardinality(Places(pages))
==============================================================================
