----------------------------- MODULE RecordRead -----------------------------
(***************************************************************************)
(* Reading a row of a table, libesedb_data_definition_read_record: the     *)
(* column definitions of the table, those of its template first, are laid  *)
(* over the bytes of a leaf value.  Columns up to 127 are of a fixed size, *)
(* those up to 255 have their end in an array of sizes, the others are     *)
(* tagged with their identifier and are only there if they have a value.   *)
(***************************************************************************)
EXTENDS Integers, Sequences

CONSTANTS
  Rows,    \* the rows that may be read, with the definitions they are read by
  Stray    \* what the memory behind a row may hold

VARIABLES
  row,       \* the row that is read
  stray,     \* the byte that is found behind its end
  stage,     \* "header", "columns" or "done"
  result,    \* 1 or -1 when done
  values,    \* the values of the columns passed, in the order of the columns
  fixedAt,   \* where the next column of a fixed size starts
  variable,  \* the sizes read so far: current, sizeAt, valueAt and previous
  tagged     \* the tagged values: offset, id, word, at, array and remaining

readVars == <<row, stray, stage, result, values, fixedAt, variable, tagged>>

ASSUME StrayAssumption == Stray # {} /\ Stray \subseteq 0..255

ColumnDefinitions == [id : Nat, type : STRING, size : Nat, codepage : Nat]

(* A row is a value of a leaf page, the size of which has 15 bits at most. *)
IsRow(r) ==
  /\ r.data \in Seq(0..255) /\ Len(r.data) < 32768
  /\ r.template \in Seq(ColumnDefinitions) /\ r.table \in Seq(ColumnDefinitions)
  /\ r.templated \in BOOLEAN /\ (~ r.templated => r.template = <<>>)
  /\ r.linear \in BOOLEAN /\ r.extended \in BOOLEAN

ASSUME RowsAssumption == \A r \in Rows : IsRow(r)

-----------------------------------------------------------------------------
(* Words and bytes.  A size_t, and the offset of a segment of a long value,*)
(* wrap at a bound above every size a row or such a value has.            *)

SizeT == 256 * 65536
U16(n) == n % 65536
USize(n) == n % SizeT

Size == Len(row.data)
Byte(o) == IF o < Size THEN row.data[o + 1] ELSE stray
RowWord(o) == Byte(o) + 256 * Byte(o + 1)

Bit15(w) == w >= 32768
Bit14(w) == (w \div 16384) % 2 = 1

NotTagged == [offset |-> 0, id |-> 0, word |-> 0, at |-> 0, array |-> 0,
              remaining |-> 0]

-----------------------------------------------------------------------------
(* The definitions the row is read by. *)

Columns == row.template \o row.table
Column == Columns[Len(values) + 1]
HasColumn == stage = "columns" /\ Len(values) < Len(Columns)

ReadableTypes ==
  {"null", "boolean", "uint8", "int16", "uint16", "int32", "uint32", "int64",
   "currency", "float", "double", "date", "guid", "binary", "largebinary",
   "text", "largetext", "slv"}

LastFixed == Byte(0)
LastVariable == Byte(1)
NumberOfSizes == IF LastVariable > 127 THEN LastVariable - 127 ELSE 0

(* The encoding of a text; codepage 0 takes that of the file and 1200 may  *)
(* hold bytes as well as words.                                            *)
Encoding(c) ==
  IF c.type \notin {"text", "largetext"} THEN "little endian"
  ELSE LET page == IF c.codepage = 0 THEN row.codepage ELSE c.codepage
       IN  IF page = 1200 THEN "mixed" ELSE page

RowInit ==
  /\ row \in Rows
  /\ stray \in Stray
  /\ stage = "header" /\ result = 0
  /\ values = <<>>
  /\ fixedAt = 4
  /\ variable = [current |-> 127, sizeAt |-> 0, valueAt |-> 0, previous |-> 0]
  /\ tagged = NotTagged

(* A value of the column that is read: n bytes from o on, or none. *)
ValueAt(o, n, f) ==
  [set |-> TRUE, offset |-> o, size |-> n, flags |-> f,
   type |-> Column.type, encoding |-> Encoding(Column)]
NoData(f) == [ValueAt(0, 0, f) EXCEPT !.set = FALSE]
NoValue == NoData(0)

Fail ==
  /\ stage' = "done" /\ result' = -1
  /\ UNCHANGED <<row, stray, values, fixedAt, variable, tagged>>

TooManyColumns == row.templated /\ Len(row.table) > Len(row.template)

RejectHeader == stage = "header" /\ (Size < 4 \/ TooManyColumns) /\ Fail

ReadRowHeader ==
  /\ stage = "header" /\ Size >= 4 /\ ~TooManyColumns
  /\ stage' = "columns"
  /\ variable' = [variable EXCEPT !.sizeAt = RowWord(2),
                                  !.valueAt = U16(RowWord(2) + 2 * NumberOfSizes)]
  /\ UNCHANGED <<row, stray, result, values, fixedAt, tagged>>

(* The first column of a table with a template has to be a tagged one. *)
ColumnRejected ==
  \/ Column.type \notin ReadableTypes
  \/ row.templated /\ Len(values) = Len(row.template) /\ Column.id # 256

RejectColumn == HasColumn /\ ColumnRejected /\ Fail

Accepted == HasColumn /\ ~ColumnRejected

(* The value of the column is made and set in the array of values. *)
Pass(value) ==
  /\ values' = Append(values, value)
  /\ UNCHANGED <<row, stray, stage, result>>

-----------------------------------------------------------------------------
(* Columns of a fixed size follow each other from the header on. *)

IsFixed == Accepted /\ Column.id <= 127

FixedValue ==
  /\ IsFixed /\ Column.id <= LastFixed
  /\ Column.size <= Size - fixedAt
  /\ fixedAt' = U16(fixedAt + Column.size)
  /\ Pass(ValueAt(fixedAt, Column.size, 0))
  /\ UNCHANGED <<variable, tagged>>

FixedOutOfBounds ==
  /\ IsFixed /\ Column.id <= LastFixed
  /\ Column.size > Size - fixedAt
  /\ Fail

FixedAbsent ==
  /\ IsFixed /\ Column.id > LastFixed
  /\ Pass(NoValue)
  /\ UNCHANGED <<fixedAt, variable, tagged>>

-----------------------------------------------------------------------------
(* The array of sizes is read as far as the column; each size is that of   *)
(* all values up to it.  Every column behind the fixed ones comes here     *)
(* until the sizes are used up.                                            *)

IsVariable == Accepted /\ Column.id > 127 /\ variable.current < LastVariable
ThisSize == RowWord(variable.sizeAt)
NextSize == [variable EXCEPT !.sizeAt = U16(@ + 2), !.current = @ + 1]
AtColumn == variable.current + 1 = Column.id
SizeFits == variable.sizeAt <= Size - 2
ValueSize == ThisSize - variable.previous

\* Mutant: the column that is skipped is not counted.
SkipSizeInPlace ==
  /\ IsVariable /\ variable.current < Column.id /\ SizeFits /\ ~AtColumn
  /\ variable.current + 1 < LastVariable
  /\ UNCHANGED readVars

SkipSize ==
  /\ IsVariable /\ variable.current < Column.id /\ SizeFits /\ ~AtColumn
  /\ variable.current + 1 < LastVariable
  /\ variable' = NextSize
  /\ UNCHANGED <<row, stray, stage, result, values, fixedAt, tagged>>

SkipLastSize ==
  /\ IsVariable /\ variable.current < Column.id /\ SizeFits /\ ~AtColumn
  /\ variable.current + 1 >= LastVariable
  /\ variable' = NextSize
  /\ Pass(NoValue)
  /\ UNCHANGED <<fixedAt, tagged>>

VariableEmpty ==
  /\ IsVariable /\ SizeFits /\ AtColumn /\ Bit15(ThisSize)
  /\ variable' = NextSize
  /\ Pass(NoValue)
  /\ UNCHANGED <<fixedAt, tagged>>

ValueInBounds ==
  /\ ThisSize >= variable.previous
  /\ ValueSize <= Size
  /\ variable.valueAt <= Size - ValueSize

VariableValue ==
  /\ IsVariable /\ SizeFits /\ AtColumn /\ ~Bit15(ThisSize)
  /\ ValueInBounds
  /\ variable' = [NextSize EXCEPT !.valueAt = U16(@ + ValueSize), !.previous = ThisSize]
  /\ Pass(ValueAt(variable.valueAt, ValueSize, 0))
  /\ UNCHANGED <<fixedAt, tagged>>

VariableOutOfBounds ==
  /\ IsVariable /\ variable.current < Column.id
  /\ \/ ~SizeFits
     \/ AtColumn /\ ~Bit15(ThisSize) /\ ~ValueInBounds
  /\ Fail

VariableBehind ==
  /\ IsVariable /\ variable.current >= Column.id
  /\ Pass(NoValue)
  /\ UNCHANGED <<fixedAt, variable, tagged>>
-----------------------------------------------------------------------------
(* Tagged values, with the array of their offsets in front (format 9 on).  *)
(* An offset ends the value before it; the last value takes what remains.  *)

IsTagged == Accepted /\ Column.id > 127 /\ variable.current >= LastVariable

Masked(w) == w % (IF row.extended THEN 32768 ELSE 16384)

OpenArray ==
  LET left == Size - variable.valueAt
      first == [offset |-> variable.valueAt, id |-> RowWord(variable.valueAt),
                word |-> RowWord(variable.valueAt + 2), at |-> variable.valueAt + 4,
                array |-> U16((RowWord(variable.valueAt + 2) % 16384) - 4),
                remaining |-> USize(left - 4)]
  IN  IF tagged.offset # 0 THEN tagged
      ELSE IF left > 0 THEN first
      ELSE [tagged EXCEPT !.offset = variable.valueAt]

BadArray ==
  /\ tagged.offset = 0
  /\ \/ variable.valueAt > Size
     \/ Size > variable.valueAt /\ OpenArray.word = 0

(* The entry behind t is read to know where the value of t ends. *)
NextEntry(t) ==
  IF t.array = 0 THEN t
  ELSE [t EXCEPT !.id = RowWord(t.at), !.word = RowWord(t.at + 2), !.at = @ + 4,
                 !.array = U16(@ - 4), !.remaining = USize(@ - 4)]


EntrySize(t) ==
  IF Masked(NextEntry(t).word) > Masked(t.word)
  THEN Masked(NextEntry(t).word) - Masked(t.word)
  ELSE U16(NextEntry(t).remaining)

EntryAt(t) == U16(t.offset + Masked(t.word))
HasFlags(t) == EntrySize(t) > 0 /\ (row.extended \/ Bit14(t.word))
EntryFlags(t) == IF HasFlags(t) THEN Byte(EntryAt(t)) ELSE 0
DataAt(t) == EntryAt(t) + (IF HasFlags(t) THEN 1 ELSE 0)
DataSize(t) == EntrySize(t) - (IF HasFlags(t) THEN 1 ELSE 0)

\* Mutant: the size is not compared with what remains, nor with the row.
EntryInBoundsUnchecked(t) == t.array = 0 \/ t.array >= 4

EntryInBounds(t) ==
  /\ t.array = 0 \/ t.array >= 4
  /\ Masked(t.word) <= Masked(NextEntry(t).word)
  /\ EntrySize(t) <= NextEntry(t).remaining
  /\ HasFlags(t) => EntryAt(t) < Size
  /\ DataSize(t) > 0 => DataAt(t) < Size /\ DataSize(t) <= Size - DataAt(t)

IsIndexed == IsTagged /\ ~row.linear
AtEntry(t) == t.remaining > 0 /\ t.id = Column.id

IndexedValue ==
  /\ IsIndexed /\ ~BadArray
  /\ LET t == OpenArray
     IN  /\ AtEntry(t) /\ EntryInBounds(t)
         /\ tagged' = [NextEntry(t) EXCEPT !.remaining = @ - EntrySize(t)]
         /\ Pass(IF DataSize(t) > 0 THEN ValueAt(DataAt(t), DataSize(t), EntryFlags(t))
                 ELSE NoData(EntryFlags(t)))
  /\ UNCHANGED <<fixedAt, variable>>

IndexedAbsent ==
  /\ IsIndexed /\ ~BadArray /\ ~AtEntry(OpenArray)
  /\ tagged' = OpenArray
  /\ Pass(NoValue)
  /\ UNCHANGED <<fixedAt, variable>>

IndexedOutOfBounds ==
  /\ IsIndexed
  /\ BadArray \/ (AtEntry(OpenArray) /\ ~EntryInBounds(OpenArray))
  /\ Fail

-----------------------------------------------------------------------------
(* Tagged values that each start with their identifier and size (format 2). *)

OpenList ==
  IF tagged.offset # 0 THEN tagged
  ELSE [offset |-> variable.valueAt, id |-> RowWord(variable.valueAt),
        word |-> RowWord(variable.valueAt + 2), at |-> U16(variable.valueAt + 4),
        array |-> 0, remaining |-> USize(Size - variable.valueAt - 4)]

(* & 0x5fff *)
ItemMask(w) == (w % 8192) + (IF Bit14(w) THEN 16384 ELSE 0)
ItemFlagged(t) == Bit15(t.word)
ItemAt(t) == IF ItemFlagged(t) THEN U16(t.at + 1) ELSE t.at
ItemSize(t) == IF ItemFlagged(t) THEN U16(ItemMask(t.word) - 1) ELSE t.word
ItemLeft(t) == IF ItemFlagged(t) THEN USize(t.remaining - 1) ELSE t.remaining
ItemFlags(t) == IF ItemFlagged(t) THEN Byte(t.at) ELSE 0
LeftBehind(t) == ItemLeft(t) - ItemSize(t)

ItemInBounds(t) ==
  /\ ItemFlagged(t) => t.at < Size
  /\ ItemSize(t) > 0 => ItemAt(t) < Size /\ ItemSize(t) <= ItemLeft(t)
  /\ LeftBehind(t) > 0 => ItemAt(t) < Size

(* The next identifier is read where the value is: the offset is not moved *)
(* over it.                                                                *)
NextItem(t) ==
  IF LeftBehind(t) = 0 THEN [t EXCEPT !.at = ItemAt(t), !.word = ItemSize(t), !.remaining = 0]
  ELSE [t EXCEPT !.id = RowWord(ItemAt(t)), !.word = RowWord(U16(ItemAt(t) + 2)),
                 !.at = U16(ItemAt(t) + 4), !.remaining = USize(LeftBehind(t) - 4)]

IsListed == IsTagged /\ row.linear

ListedValue ==
  /\ IsListed
  /\ LET t == OpenList
     IN  /\ AtEntry(t) /\ ItemInBounds(t)
         /\ tagged' = NextItem(t)
         /\ Pass(IF ItemSize(t) > 0 THEN ValueAt(ItemAt(t), ItemSize(t), ItemFlags(t))
                 ELSE NoData(ItemFlags(t)))
  /\ UNCHANGED <<fixedAt, variable>>

ListedAbsent ==
  /\ IsListed /\ ~AtEntry(OpenList)
  /\ tagged' = OpenList
  /\ Pass(NoValue)
  /\ UNCHANGED <<fixedAt, variable>>

ListedOutOfBounds ==
  /\ IsListed /\ AtEntry(OpenList) /\ ~ItemInBounds(OpenList)
  /\ Fail

-----------------------------------------------------------------------------
ReadEnds ==
  /\ stage = "columns" /\ Len(values) = Len(Columns)
  /\ stage' = "done" /\ result' = 1
  /\ UNCHANGED <<row, stray, values, fixedAt, variable, tagged>>

ReadStep ==
  \/ RejectHeader \/ ReadRowHeader \/ RejectColumn
  \/ FixedValue \/ FixedOutOfBounds \/ FixedAbsent
  \/ SkipSize \/ SkipLastSize \/ VariableEmpty
  \/ VariableValue \/ VariableOutOfBounds \/ VariableBehind
  \/ IndexedValue \/ IndexedAbsent \/ IndexedOutOfBounds
  \/ ListedValue \/ ListedAbsent \/ ListedOutOfBounds
  \/ ReadEnds

-----------------------------------------------------------------------------
HasData(i) == values[i].size > 0
EndOf(i) == values[i].offset + values[i].size

(* Whatever the bytes of a row with an index of its tagged values say, no  *)
(* value reaches out of the row.                                           *)
ValuesInsideRow ==
  ~row.linear => \A i \in DOMAIN values : HasData(i) => EndOf(i) <= Size

(* The identifiers differ, and what remains of the row, which is counted   *)
(* down by the 4 bytes of an entry for each column, does not come to a     *)
(* size of 16 bits again once it has wrapped.                              *)
ColumnsDiffer ==
  /\ \A i, j \in DOMAIN Columns : i # j => Columns[i].id # Columns[j].id
  /\ Size + 4 * (Len(Columns) + 1) < 65536

(* Nor do two values share a byte: those of a fixed size lie one behind    *)
(* the other, and so do those of a variable size and the tagged ones, each *)
(* of which is found by sizes and offsets in the row.                      *)
AreFixed(i) == Columns[i].id <= 127
ValuesApart ==
  ~row.linear /\ ColumnsDiffer => \A i, j \in DOMAIN values :
    (i < j /\ AreFixed(i) = AreFixed(j) /\ HasData(i) /\ HasData(j)) => EndOf(i) <= values[j].offset

(* Of a row of any bytes with an index of its tagged values, no value      *)
(* reaches out of it, and when the columns differ none of a fixed size     *)
(* shares a byte with another of a fixed size, and none of the other ones  *)
(* with another of those (libesedb_data_definition_read_record).           *)
ValuesLieApart == ValuesInsideRow /\ ValuesApart

=============================================================================
