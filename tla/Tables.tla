------------------------------- MODULE Tables -------------------------------
(***************************************************************************)
(* The calls on the table in hand: its columns behind those of its         *)
(* template, its indexes, its records by number and by index, and the      *)
(* names of all of them.  A call that fails answers Failed, or -1 where a  *)
(* number is asked for.                                                    *)
(***************************************************************************)
EXTENDS Catalog

Failed == BadDefinition

Own == tables[inHand.table]
HasTemplate == inHand.template # 0
TemplateColumns == IF HasTemplate THEN tables[inHand.template].columns ELSE <<>>

TableIdentifier == Identifier(Own.definition)
At(definitions, k) == IF k + 1 \in DOMAIN definitions THEN definitions[k + 1] ELSE Failed

-----------------------------------------------------------------------------
(* The columns; those of the template can be left out. *)

NumberOfDefinitions(definitions) == Len(definitions)
ColumnDefinition(definitions, k) == At(definitions, k)

NumberOfColumns(ignoreTemplate) ==
  (IF ignoreTemplate THEN 0 ELSE NumberOfDefinitions(TemplateColumns))
  + NumberOfDefinitions(Own.columns)

\* Mutant: the number of a column is not reduced by those of the template.
ColumnUnshifted(k, ignoreTemplate) ==
  IF ~ignoreTemplate /\ k < Len(TemplateColumns) THEN ColumnDefinition(TemplateColumns, k)
  ELSE ColumnDefinition(Own.columns, k)

Column(k, ignoreTemplate) ==
  LET before == IF ignoreTemplate THEN 0 ELSE Len(TemplateColumns)
  IN  IF k < before THEN ColumnDefinition(TemplateColumns, k)
      ELSE ColumnDefinition(Own.columns, k - before)

ColumnIdentifier(k) == Identifier(Column(k, FALSE))
TypeOfColumn(k) == ColumnTypeOf(Column(k, FALSE))

-----------------------------------------------------------------------------
(* The indexes and the records. *)

NumberOfIndexDefinitions == Len(Own.indexes)
IndexDefinition(k) == At(Own.indexes, k)
NumberOfIndexes == NumberOfIndexDefinitions
IndexIdentifier(k) == Identifier(IndexDefinition(k))

Readable(root) == root \in DOMAIN file.trees
Rows(root) == IF Readable(root) THEN file.trees[root] ELSE <<>>

TableRoot == Own.definition.detail
IndexRoot(k) == IndexDefinition(k).detail

NumberOfRecords == IF Readable(TableRoot) THEN Len(Rows(TableRoot)) ELSE -1
Record(e) == IF e + 1 \in DOMAIN Rows(TableRoot) THEN Rows(TableRoot)[e + 1] ELSE Failed

NumberOfIndexRecords(k) == IF Readable(IndexRoot(k)) THEN Len(Rows(IndexRoot(k))) ELSE -1

(* The value of an index is the key of the record. *)
IndexData(value) == value.data
IndexRecord(k, e) ==
  LET values == Rows(IndexRoot(k))
      hits == {i \in DOMAIN Rows(TableRoot) :
                 e + 1 \in DOMAIN values /\ Rows(TableRoot)[i].key = IndexData(values[e + 1])}
  IN  IF hits = {} THEN Failed ELSE Rows(TableRoot)[Min(hits)]

-----------------------------------------------------------------------------
(* The names.  The template of a table has to be none or have its name.    *)

TableUtf8NameSize == Utf8NameSize(Own.definition)
TableUtf8Name(room) == Utf8Name(Own.definition, room)
TableUtf16NameSize == Utf16NameSize(Own.definition)
TableUtf16Name(room) == Utf16Name(Own.definition, room)
TableUtf8TemplateSize == Utf8TemplateSize(Own.definition)
TableUtf8Template(room) == Utf8Template(Own.definition, room)
TableUtf16TemplateSize == Utf16TemplateSize(Own.definition)
TableUtf16Template(room) == Utf16Template(Own.definition, room)

IndexUtf8NameSize(k) == Utf8NameSize(IndexDefinition(k))
IndexUtf8Name(k, room) == Utf8Name(IndexDefinition(k), room)
IndexUtf16NameSize(k) == Utf16NameSize(IndexDefinition(k))
IndexUtf16Name(k, room) == Utf16Name(IndexDefinition(k), room)

ColumnUtf8NameSize(k) == Utf8NameSize(Column(k, FALSE))
ColumnUtf8Name(k, room) == Utf8Name(Column(k, FALSE), room)
ColumnUtf16NameSize(k) == Utf16NameSize(Column(k, FALSE))
ColumnUtf16Name(k, room) == Utf16Name(Column(k, FALSE), room)

(* A record finds the columns of its values by itself. *)
RecordColumn(k) ==
  IF k < Len(TemplateColumns) THEN At(TemplateColumns, k)
  ELSE At(Own.columns, k - Len(TemplateColumns))
RecordUtf8NameSize(k) == Utf8NameSize(RecordColumn(k))
RecordUtf8Name(k, room) == Utf8Name(RecordColumn(k), room)
RecordUtf16NameSize(k) == Utf16NameSize(RecordColumn(k))
RecordUtf16Name(k, room) == Utf16Name(RecordColumn(k), room)

-----------------------------------------------------------------------------
(* The properties. *)

TypeOK ==
  /\ step \in {"descend", "page", "rows", "open", "failed"}
  /\ tree \in {"database", "catalog"}
  /\ at \in Nat /\ row \in Nat /\ counted \in 0..MaxInt /\ faults \in 0..MaxFaults
  /\ inHand \in [table : 0..Len(tables), template : 0..Len(tables)]
  /\ reply.code \in {-1, 0, 1}

(* A table that is asked for by name is the first of that name, and one    *)
(* that is there is found unless it or a table before it cannot be         *)
(* compared (libesedb_catalog_get_table_definition_by_utf8_name).          *)
Named(name) == {i \in DOMAIN tables : tables[i].definition.name = name}
FirstOfTheName ==
  reply.call \in {"utf8", "utf16"} /\ step = "open" =>
    /\ inHand # NoTable /\ reply.code = 1 => inHand.table = Min(Named(reply.of))
    /\ reply.code = 0 => Named(reply.of) = {}
    /\ Named(reply.of) # {} /\ (reply.call = "utf8" => ValidUtf8(reply.of))
         /\ None \notin {tables[i].definition.name : i \in 1..Min(Named(reply.of))}
         /\ tables[Min(Named(reply.of))].definition.template = None => reply.code = 1

(* A table has a template in hand exactly when its definition names one,   *)
(* and it is the first table of that name, by number and by name alike     *)
(* (libesedb_file_get_table, libesedb_file_get_table_by_utf8_name).        *)
TemplateIsNamed ==
  inHand # NoTable =>
    LET template == tables[inHand.table].definition.template
    IN  IF template = None THEN inHand.template = 0
        ELSE Named(template) # {} /\ inHand.template = Min(Named(template))

(* The columns of a table are those of its template and then its own, in   *)
(* the order in which a record finds the columns of its values             *)
(* (libesedb_table_get_column,                                             *)
(* libesedb_record_get_column_catalog_definition).                         *)
ColumnsAgree ==
  inHand # NoTable =>
    /\ \A k \in -1..NumberOfColumns(FALSE) :
         /\ Column(k, FALSE) = RecordColumn(k)
         /\ Column(k, FALSE) # Failed <=> k \in 0..(NumberOfColumns(FALSE) - 1)
         /\ ColumnIdentifier(k) = RecordColumn(k).id
         /\ TypeOfColumn(k) = RecordColumn(k).detail
    /\ \A k \in 0..(NumberOfColumns(TRUE) - 1) :
         Column(k, TRUE) = Column(k + NumberOfColumns(FALSE) - NumberOfColumns(TRUE), FALSE)

(* An index that has the key of every record once leads to every record of *)
(* the table and with no two of its values to the same one                 *)
(* (libesedb_index_get_record).                                            *)
Differ(values) == \A i, j \in DOMAIN values : values[i] = values[j] => i = j
IndexIsComplete(root, index) ==
  LET keys == [i \in DOMAIN Rows(root) |-> Rows(root)[i].key]
      data == [i \in DOMAIN Rows(index) |-> Rows(index)[i].data]
  IN  /\ Readable(root) /\ Readable(index)
      /\ Differ(keys) /\ Differ(data)
      /\ {keys[i] : i \in DOMAIN keys} = {data[i] : i \in DOMAIN data}
IndexesFindRecords ==
  inHand # NoTable =>
    \A k \in 0..(NumberOfIndexes - 1) :
      IndexIsComplete(TableRoot, IndexDefinition(k).detail) =>
        /\ NumberOfIndexRecords(k) = NumberOfRecords
        /\ {IndexRecord(k, e) : e \in 0..(NumberOfRecords - 1)}
             = {Record(e) : e \in 0..(NumberOfRecords - 1)}

(* The size that is told for a name is what its copy needs, no less and no *)
(* more, for the names of the table, its template, columns, indexes and    *)
(* the columns of its records (libesedb_catalog_definition_get_utf8_name). *)
Fits(size, Copy(_)) == size > 0 => Copy(size) = 1 /\ Copy(size - 1) = -1
NamesFit ==
  inHand # NoTable =>
    /\ Fits(TableUtf8NameSize, TableUtf8Name) /\ Fits(TableUtf16NameSize, TableUtf16Name)
    /\ Fits(TableUtf8TemplateSize, TableUtf8Template)
    /\ Fits(TableUtf16TemplateSize, TableUtf16Template)
    /\ \A k \in 0..(NumberOfIndexes - 1) :
         /\ Fits(IndexUtf8NameSize(k), LAMBDA room : IndexUtf8Name(k, room))
         /\ Fits(IndexUtf16NameSize(k), LAMBDA room : IndexUtf16Name(k, room))
    /\ \A k \in 0..(NumberOfColumns(FALSE) - 1) :
         /\ Fits(ColumnUtf8NameSize(k), LAMBDA room : RecordUtf8Name(k, room))
         /\ Fits(RecordUtf8NameSize(k), LAMBDA room : ColumnUtf8Name(k, room))
         /\ Fits(ColumnUtf16NameSize(k), LAMBDA room : RecordUtf16Name(k, room))
         /\ Fits(RecordUtf16NameSize(k), LAMBDA room : ColumnUtf16Name(k, room))

(* The ways to the same thing agree: a table by number and by name, a      *)
(* column by the table and by a record, a record by the table and by an    *)
(* index, and a name and its size (libesedb_file_get_table_by_utf8_name    *)
(* and the getters of a table).                                            *)
TablesAgree ==
  /\ TypeOK
  /\ RowsMakeTables
  /\ FirstOfTheName
  /\ TemplateIsNamed
  /\ ColumnsAgree
  /\ IndexesFindRecords
  /\ NamesFit
==============================================================================
