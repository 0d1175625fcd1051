---------------------------- MODULE CatalogProofs ----------------------------
(***************************************************************************)
(* Proofs about Catalog and Tables, for any bytes in the rows of any files *)
(* and any links between their pages: what is kept of a catalog, that its  *)
(* rows make the tables they say, and that tables, templates, columns,     *)
(* records and names that are asked for in different ways are the same     *)
(* ones.                                                                   *)
(***************************************************************************)
EXTENDS Tables, FiniteSetTheorems, SequenceTheorems, WellFoundedInduction, TLAPS

ReadDefinitions ==
  [ok : {TRUE}, type : Nat, id : Nat, detail : Nat, name : Bytes, template : Bytes,
   default : Bytes, codepage : Nat]

(***************************************************************************)
(* The first and the last of some numbers.                                 *)
(***************************************************************************)
LEMMA MinIsFirst ==
  ASSUME NEW S \in SUBSET Nat, S # {}
  PROVE  Min(S) \in S /\ \A j \in S : Min(S) <= j
<1>1. \A a, b \in Nat : <<a, b>> \in OpToRel(<, Nat) \/ b <= a
  BY DEF OpToRel
<1>2. \E i \in S : \A j \in S : ~ (<<j, i>> \in OpToRel(<, Nat))
  BY NatLessThanWellFounded, WFMin
<1>3. \E i \in S : \A j \in S : i <= j
  BY <1>1, <1>2
<1>. QED
  BY <1>3 DEF Min

LEMMA MinIs ==
  ASSUME NEW S \in SUBSET Nat, NEW i \in S, \A j \in S : i <= j
  PROVE  Min(S) = i
<1>1. PICK m \in S : m = Min(S) /\ \A j \in S : m <= j
  BY MinIsFirst
<1>2. m \in Nat /\ i \in Nat /\ m <= i /\ i <= m
  BY <1>1
<1>. QED
  BY <1>1, <1>2

LEMMA MaxIsLast ==
  ASSUME NEW n \in Nat, NEW S \in SUBSET (1..n), S # {}
  PROVE  Max(S) \in S
<1>1. DEFINE T == {n - i : i \in S}
<1>2. \A i \in S : i \in 1..n /\ n - i \in Nat
  <2>1. ASSUME NEW i \in S
        PROVE  i \in 1..n /\ n - i \in Nat
    <3>1. i \in 1..n
      OBVIOUS
    <3>. QED
      BY <3>1
  <2>. QED
    BY <2>1
<1>. T \in SUBSET Nat /\ T # {}
  BY <1>2
<1>3. PICK m \in T : \A j \in T : m <= j
  BY MinIsFirst
<1>4. PICK i \in S : m = n - i
  BY <1>3
<1>5. \A j \in S : i >= j
  BY <1>2, <1>3, <1>4
<1>. QED
  BY <1>5 DEF Max

-----------------------------------------------------------------------------
(***************************************************************************)
(* The definition in a row, whatever its bytes are.                        *)
(***************************************************************************)
LEMMA BytesAre ==
  ASSUME NEW data \in Bytes
  PROVE  /\ Len(data) \in Nat
         /\ \A n \in 1..Len(data) : data[n] \in 0..255
<1>1. DEFINE byte == 0..255
<1>2. data \in Seq(byte)
  BY DEF Bytes
<1>. HIDE DEF byte
<1>3. Len(data) \in Nat /\ \A n \in 1..Len(data) : data[n] \in byte
  BY <1>2, LenProperties, ElementOfSeq
<1>. QED
  BY <1>3 DEF byte

LEMMA PartIsBytes ==
  ASSUME NEW data \in Bytes, NEW m \in 1..(Len(data) + 1), NEW n \in (m - 1)..Len(data)
  PROVE  SubSeq(data, m, n) \in Bytes
<1>1. DEFINE byte == 0..255
<1>2. m \in Int /\ n \in Int /\ \A i \in m..n : i \in 1..Len(data)
  BY BytesAre
<1>3. \A i \in m..n : data[i] \in byte
  BY <1>2, BytesAre
<1>. HIDE DEF byte
<1>4. SubSeq(data, m, n) \in Seq(byte)
  BY <1>2, <1>3, SubSeqProperties
<1>. QED
  BY <1>4 DEF Bytes, byte

LEMMA WordIsNat ==
  ASSUME NEW data \in Bytes, NEW o \in Nat, NEW s \in {0, 255}
  PROVE  WordOf(data, o, s) \in Nat
<1>1. \A n \in Nat : ByteOf(data, n, s) \in 0..255
  <2>1. ASSUME NEW n \in Nat, n < Len(data)
        PROVE  n + 1 \in 1..Len(data)
    BY <2>1 DEF Bytes
  <2>2. Len(data) \in Nat /\ \A k \in 1..Len(data) : data[k] \in 0..255
    BY BytesAre
  <2>. QED
    BY <2>1, <2>2 DEF ByteOf
<1>2. PICK a \in 0..255 : a = ByteOf(data, o, s)
  BY <1>1
<1>3. PICK b \in 0..255 : b = ByteOf(data, o + 1, s)
  BY <1>1
<1>. QED
  BY <1>2, <1>3 DEF WordOf

LEMMA ValuesAreInRow ==
  ASSUME NEW data \in Bytes, HeaderAccepted(data), NEW i \in 1..SizesOf(data),
         \A k \in 1..SizesOf(data) : ValueFits(data, k)
  PROVE  SubSeq(data, ValuesAt(data) + PreviousEnd(data, i) + 1,
                ValuesAt(data) + PreviousEnd(data, i) + ValueSize(data, i)) \in Bytes
<1>1. SizesAt(data) \in Nat
  BY WordIsNat DEF SizesAt
<1>2. Len(data) \in Nat /\ Len(data) >= 4
  BY BytesAre DEF HeaderAccepted
<1>3. SizesOf(data) \in Nat
  <2>1. data[2] \in 0..255
    BY <1>2, BytesAre
  <2>. QED
    BY <2>1 DEF SizesOf
<1>4. ValuesAt(data) \in Nat
  BY <1>1, <1>3 DEF ValuesAt
<1>5. \A k \in 1..SizesOf(data) : EndOf(data, k) \in Nat
  <2>1. ASSUME NEW k \in 1..SizesOf(data)
        PROVE  SizesAt(data) + 2 * (k - 1) \in Nat
    BY <1>1, <1>3
  <2>. QED
    BY <2>1, WordIsNat DEF EndOf
<1>6. PreviousEnd(data, i) \in Nat
  <2>1. DEFINE before == {j \in 1..(i - 1) : ~IsEmpty(data, j)}
  <2>2. i - 1 \in Nat /\ before \subseteq 1..(i - 1) /\ before \subseteq 1..SizesOf(data)
    BY <1>3
  <2>3. before # {} => Max(before) \in before
    <3>. HIDE DEF before
    <3>. QED
      BY <2>2, MaxIsLast
  <2>. QED
    BY <1>5, <2>2, <2>3 DEF PreviousEnd
<1>7. ValueSize(data, i) \in Nat
  BY <1>5, <1>6 DEF ValueSize
<1>8. ValueFits(data, i)
  OBVIOUS
<1>9. PICK m \in Nat : m = ValuesAt(data) + PreviousEnd(data, i)
  BY <1>4, <1>6
<1>10. PICK n \in Nat : n = m + ValueSize(data, i)
  BY <1>7, <1>9
<1>11. m + 1 \in 1..(Len(data) + 1) /\ n \in ((m + 1) - 1)..Len(data)
  <2>1. PICK a \in Nat, b \in Nat, c \in Nat :
          a = ValuesAt(data) /\ b = PreviousEnd(data, i) /\ c = ValueSize(data, i)
    BY <1>4, <1>6, <1>7
  <2>2. b <= Len(data) - a /\ c <= (Len(data) - a) - b
    BY <1>8, <2>1 DEF ValueFits
  <2>3. m = a + b /\ n = m + c
    BY <1>9, <1>10, <2>1
  <2>. QED
    BY <1>2, <2>2, <2>3
<1>12. SubSeq(data, m + 1, n) \in Bytes
  BY <1>11, PartIsBytes
<1>. QED
  BY <1>9, <1>10, <1>12

LEMMA ValueIsRead ==
  ASSUME NEW data \in Bytes, HeaderAccepted(data), NEW number \in {128, 130, 131},
         \A k \in 1..SizesOf(data) : ValueFits(data, k)
  PROVE  ValueOf(data, number) \in Bytes
<1>1. None \in Bytes
  BY DEF None, Bytes
<1>. QED
  BY <1>1, ValuesAreInRow DEF ValueOf

LEMMA DefinitionIsRead ==
  ASSUME NEW data \in Bytes, NEW s \in {0, 255}
  PROVE  Definition(data, s).ok => Definition(data, s) \in ReadDefinitions
<1>1. ~ BadDefinition.ok
  BY DEF BadDefinition
<1>2. \A o \in {8, 10, 14, 26} : WordOf(data, o, s) \in Nat
  BY WordIsNat
<1>3. ASSUME HeaderAccepted(data), \A i \in 1..SizesOf(data) : ValueFits(data, i)
      PROVE  Definition(data, s) \in ReadDefinitions
  <2>1. NameIn(data) \in Bytes /\ TemplateIn(data) \in Bytes /\ DefaultIn(data) \in Bytes
    BY <1>3, ValueIsRead DEF NameIn, TemplateIn, DefaultIn
  <2>. QED
    BY <1>2, <1>3, <2>1 DEF Definition, FixedFields, BadDefinition, ReadDefinitions
<1>. QED
  BY <1>1, <1>3 DEF Definition

LEMMA RowIsDefinition ==
  ASSUME NEW bytes \in Bytes, NEW common, NEW s \in {0, 255}, stray = s,
         DefinitionOf(TreeValue(bytes, common)).ok
  PROVE  DefinitionOf(TreeValue(bytes, common)) \in ReadDefinitions
<1>1. ~ BadDefinition.ok /\ ~ BadTreeValue.ok
  BY DEF BadDefinition, BadTreeValue
<1>2. DEFINE value == TreeValue(bytes, common)
             at0 == KeyAt(common)
             size == LocalKeySize(bytes, common)
<1>3. Len(bytes) \in Nat /\ at0 \in {2, 4}
  BY BytesAre DEF KeyAt
<1>4. value.ok /\ ~ value.wrapped
  BY <1>1 DEF DefinitionOf
<1>5. ~ (Len(bytes) < at0 \/ size > Len(bytes))
  BY <1>1, <1>4 DEF TreeValue
<1>6. at0 <= Len(bytes)
  BY <1>3, <1>5
<1>7. PICK n \in Nat : n = size
  <2>1. PICK p \in {2, 4} : p = at0
    BY <1>3
  <2>2. p - 1 \in 1..Len(bytes) /\ p \in 1..Len(bytes)
    BY <1>3, <1>6, <2>1
  <2>3. bytes[p - 1] \in 0..255 /\ bytes[p] \in 0..255
    BY <2>2, BytesAre
  <2>4. size = bytes[p - 1] + 256 * bytes[p]
    BY <2>1 DEF LocalKeySize
  <2>5. PICK a \in 0..255 : a = bytes[p - 1]
    BY <2>3
  <2>6. PICK b \in 0..255 : b = bytes[p]
    BY <2>3
  <2>7. a + 256 * b \in Nat
    OBVIOUS
  <2>. QED
    BY <2>4, <2>5, <2>6, <2>7
<1>8. /\ value.data = SubSeq(bytes, at0 + n + 1, Len(bytes))
      /\ value.wrapped <=> at0 + n > Len(bytes)
  <2>1. /\ value.data = SubSeq(bytes, at0 + size + 1, Len(bytes))
        /\ value.wrapped = (at0 + size > Len(bytes))
    BY <1>5 DEF TreeValue
  <2>. QED
    BY <1>7, <2>1
<1>9. at0 + n + 1 \in 1..(Len(bytes) + 1) /\ Len(bytes) \in ((at0 + n + 1) - 1)..Len(bytes)
  BY <1>3, <1>4, <1>8
<1>10. value.data \in Bytes
  BY <1>8, <1>9, PartIsBytes
<1>11. DefinitionOf(value) = Definition(value.data, s)
  BY <1>4 DEF DefinitionOf
<1>. QED
  BY <1>10, <1>11, DefinitionIsRead

-----------------------------------------------------------------------------
(***************************************************************************)
(* What is kept of the catalog.                                            *)
(***************************************************************************)
Singles == UNION {[types -> ReadDefinitions] : types \in SUBSET {LongValue, Callback}}
Entries ==
  [definition : ReadDefinitions, columns : Seq(ReadDefinitions),
   indexes : Seq(ReadDefinitions), single : Singles]

Walked ==
  /\ file \in Files /\ stray \in {0, 255}
  /\ step \in {"descend", "page", "rows", "open", "failed"}
  /\ tree \in {"database", "catalog"}
  /\ at \in Nat /\ row \in Nat /\ counted \in 0..MaxInt /\ faults \in 0..MaxFaults
  /\ step = "rows" => at \in DOMAIN file.pages /\ row # 0

Kept == tables \in Seq(Entries)

\* Nothing is asked for before the catalog was read.
Answered ==
  /\ step # "open" => inHand = NoTable /\ reply = NoReply
  /\ inHand # NoTable => inHand \in [table : 1..Len(tables), template : 0..Len(tables)]
  /\ reply.code \in {-1, 0, 1}
  /\ FirstOfTheName
  /\ TemplateIsNamed

(***************************************************************************)
(* The row that is read, and the definition that is made of it.            *)
(***************************************************************************)
LEMMA RowIsBytes ==
  ASSUME Walked, AtRow
  PROVE  ThisRow.bytes \in Bytes
<1>1. at \in DOMAIN file.pages /\ row \in Nat /\ row # 0 /\ file \in Files
  BY DEF Walked, AtRow
<1>2. PICK n \in Nat : n = Len(Here.rows) /\ DOMAIN Here.rows = 1..n
  BY <1>1, FilesAssumption DEF IsSequence, Here
<1>3. row \in 1..n
  BY <1>1, <1>2 DEF AtRow
<1>. QED
  BY <1>1, <1>2, <1>3, FilesAssumption DEF Here, ThisRow

LEMMA NewRowIsDefinition ==
  ASSUME Walked, NEW types, NewRow(types)
  PROVE  ThisDefinition \in ReadDefinitions /\ ThisDefinition.type \in types
<1>1. ThisRow.bytes \in Bytes
  BY RowIsBytes DEF NewRow, LiveIn
<1>2. stray \in {0, 255}
  BY DEF Walked
<1>. QED
  BY <1>1, <1>2, RowIsDefinition DEF NewRow, ThisDefinition, ThisValue

LEMMA LastTable ==
  ASSUME Kept, tables # <<>>
  PROVE  /\ Len(tables) \in 1..Len(tables)
         /\ tables[Len(tables)] \in Entries
<1>1. Len(tables) \in Nat \ {0}
  BY EmptySeq DEF Kept
<1>2. Len(tables) \in 1..Len(tables)
  BY <1>1
<1>. QED
  BY <1>2, ElementOfSeq DEF Kept

LEMMA LastIsChanged ==
  ASSUME Kept, tables # <<>>, NEW entry \in Entries,
         tables' = [tables EXCEPT ![Len(tables)] = entry]
  PROVE  Kept'
BY LastTable, ExceptSeq DEF Kept

LEMMA SinglesGrow ==
  ASSUME NEW single \in Singles, NEW type \in {LongValue, Callback}, NEW d \in ReadDefinitions
  PROVE  WithSingle(single, type, d) \in Singles
<1>1. PICK types \in SUBSET {LongValue, Callback} : single \in [types -> ReadDefinitions]
  BY DEF Singles
<1>2. types \cup {type} \in SUBSET {LongValue, Callback}
  OBVIOUS
<1>3. WithSingle(single, type, d) \in [types \cup {type} -> ReadDefinitions]
  BY <1>1 DEF WithSingle
<1>. QED
  BY <1>2, <1>3 DEF Singles

(***************************************************************************)
(* A step of the walk keeps the tables it has and adds what it reads.      *)
(***************************************************************************)
LEMMA ColumnIsKept ==
  ASSUME Kept, tables # <<>>, NEW d \in ReadDefinitions, AppendColumn(d)
  PROVE  Kept'
<1>1. PICK entry \in Entries : entry = tables[Len(tables)]
  BY LastTable
<1>2. [entry EXCEPT !.columns = Append(entry.columns, d)] \in Entries
  BY AppendProperties DEF Entries
<1>3. tables' = [tables EXCEPT ![Len(tables)] = [entry EXCEPT !.columns = Append(entry.columns, d)]]
  BY <1>1 DEF AppendColumn
<1>. QED
  BY <1>2, <1>3, LastIsChanged

LEMMA IndexIsKept ==
  ASSUME Kept, tables # <<>>, NEW d \in ReadDefinitions, AppendIndex(d)
  PROVE  Kept'
<1>1. PICK entry \in Entries : entry = tables[Len(tables)]
  BY LastTable
<1>2. [entry EXCEPT !.indexes = Append(entry.indexes, d)] \in Entries
  BY AppendProperties DEF Entries
<1>3. tables' = [tables EXCEPT ![Len(tables)] = [entry EXCEPT !.indexes = Append(entry.indexes, d)]]
  BY <1>1 DEF AppendIndex
<1>. QED
  BY <1>2, <1>3, LastIsChanged

LEMMA SingleIsKept ==
  ASSUME Kept, tables # <<>>, NEW d \in ReadDefinitions, SetLongValue(d) \/ SetCallback(d)
  PROVE  Kept'
<1>1. PICK entry \in Entries : entry = tables[Len(tables)]
  BY LastTable
<1>2. \A type \in {LongValue, Callback} :
        [entry EXCEPT !.single = WithSingle(entry.single, type, d)] \in Entries
  BY SinglesGrow DEF Entries
<1>3. \E type \in {LongValue, Callback} :
        tables' = [tables EXCEPT ![Len(tables)] =
                     [entry EXCEPT !.single = WithSingle(entry.single, type, d)]]
  BY <1>1 DEF SetLongValue, SetCallback
<1>. QED
  BY <1>2, <1>3, LastIsChanged

LEMMA NewTableIsEntry ==
  ASSUME NEW d \in ReadDefinitions
  PROVE  NewTable(d) \in Entries
<1>1. [t \in {} |-> d] \in Singles
  <2>1. [t \in {} |-> d] \in [{} -> ReadDefinitions]
    OBVIOUS
  <2>. QED
    BY <2>1 DEF Singles
<1>2. <<>> \in Seq(ReadDefinitions)
  BY EmptySeq
<1>. QED
  BY <1>1, <1>2 DEF NewTable, Entries

LEMMA TableIsKept ==
  ASSUME Kept, NEW d \in ReadDefinitions, tables' = Append(tables, NewTable(d))
  PROVE  Kept'
BY NewTableIsEntry, AppendProperties DEF Kept

LEMMA StepKeepsTables ==
  ASSUME Walked, Kept, [Next]_vars
  PROVE  Kept'
<1>1. <<>> \in Seq(Entries)
  BY EmptySeq
<1>2. CASE UNCHANGED tables
  BY <1>2 DEF Kept
<1>3. CASE Fail
  BY <1>1, <1>3 DEF Fail, FreeTables, Kept
<1>4. CASE TableRow
  BY <1>4, NewRowIsDefinition, TableIsKept DEF TableRow
<1>5. CASE ColumnRow
  BY <1>5, NewRowIsDefinition, ColumnIsKept DEF ColumnRow
<1>6. CASE IndexRow
  BY <1>6, NewRowIsDefinition, IndexIsKept DEF IndexRow
<1>7. CASE SingleRow
  BY <1>7, NewRowIsDefinition, SingleIsKept DEF SingleRow
<1>8. ReadStep \/ ReadFails =>
        UNCHANGED tables \/ Fail \/ TableRow \/ ColumnRow \/ IndexRow \/ SingleRow
  BY DEF ReadStep, ReadFails, Descend, EnterPage, EnterFails, LeavePage, WalkEnds, ReadRow,
         SkipDefunct, CountRow, CountFails, IgnoreRow, RowFails
<1>9. Calls \/ UNCHANGED vars => UNCHANGED tables
  BY DEF Calls, vars, GetTable, GetTableByUtf8, GetTableByUtf16, FreeTable, MakeTable
<1>. QED
  BY <1>2, <1>3, <1>4, <1>5, <1>6, <1>7, <1>8, <1>9 DEF Next

LEMMA StartIsWalked == Init => Walked
<1>1. faults = MaxFaults => faults \in 0..MaxFaults
  BY CatalogAssumption
<1>2. counted = 0 => counted \in 0..MaxInt
  BY CatalogAssumption
<1>. QED
  BY <1>1, <1>2 DEF Init, Walked

LEMMA StepIsWalked ==
  ASSUME Walked, [Next]_vars
  PROVE  Walked'
<1>1. /\ MaxInt \in Nat /\ MaxFaults \in Nat
      /\ at \in Nat /\ row \in Nat /\ counted \in 0..MaxInt /\ faults \in 0..MaxFaults
  BY CatalogAssumption DEF Walked
<1>2. CASE UNCHANGED <<file, stray, step, tree, at, row, counted, faults>>
  BY <1>2 DEF Walked
<1>3. CASE Fail /\ faults' \in 0..MaxFaults
  BY <1>3 DEF Fail, Walked
<1>4. CASE Descend
  <2>1. file.first[tree] \in Nat
    BY FilesAssumption DEF Walked
  <2>. QED
    BY <1>4, <2>1 DEF Descend, Walked
<1>5. CASE EnterPage
  BY <1>5 DEF EnterPage, HasLeafPage, Walked
<1>6. CASE LeavePage
  <2>1. Here.next \in Nat
    BY <1>6, FilesAssumption DEF LeavePage, Here, Walked
  <2>. QED
    BY <1>6, <2>1 DEF LeavePage, Walked
<1>7. CASE WalkEnds
  BY <1>7 DEF WalkEnds, Walked
<1>8. CASE NextRow /\ AtRow /\ counted' \in 0..MaxInt
  <2>1. row' \in Nat /\ row' # 0
    BY <1>1, <1>8 DEF NextRow
  <2>. QED
    BY <1>8, <2>1 DEF NextRow, AtRow, Walked
<1>9. CASE ReadStep
  <2>1. EnterFails \/ CountFails \/ RowFails => Fail /\ UNCHANGED faults
    BY DEF EnterFails, CountFails, RowFails
  <2>2. CountRow => NextRow /\ AtRow /\ counted' \in 0..MaxInt
    <3>1. CountRow => counted < MaxInt /\ counted' = counted + 1
      BY DEF CountRow
    <3>2. CountRow => NextRow /\ AtRow
      BY DEF CountRow, LiveIn
    <3>. QED
      BY <1>1, <3>1, <3>2
  <2>3. SkipDefunct \/ TableRow \/ ColumnRow \/ IndexRow \/ SingleRow \/ IgnoreRow =>
          NextRow /\ AtRow /\ UNCHANGED counted
    BY DEF SkipDefunct, TableRow, ColumnRow, IndexRow, SingleRow, IgnoreRow, NewRow, LiveIn
  <2>. QED
    BY <1>1, <1>3, <1>4, <1>5, <1>6, <1>7, <1>8, <1>9, <2>1, <2>2, <2>3 DEF ReadStep, ReadRow
<1>10. CASE ReadFails
  <2>1. faults > 0 /\ faults' = faults - 1 /\ Fail
    BY <1>10 DEF ReadFails
  <2>2. faults' \in 0..MaxFaults
    BY <1>1, <2>1
  <2>. QED
    BY <1>3, <2>1, <2>2
<1>11. Calls \/ UNCHANGED vars => UNCHANGED <<file, stray, step, tree, at, row, counted, faults>>
  BY DEF Calls, vars, GetTable, GetTableByUtf8, GetTableByUtf16, FreeTable, MakeTable
<1>. QED
  BY <1>2, <1>9, <1>10, <1>11 DEF Next

-----------------------------------------------------------------------------
(***************************************************************************)
(* The tables by name.  A look-up that says that it found a table has the  *)
(* first of the name, and it finds one unless a name before it or its own  *)
(* cannot be compared.                                                     *)
(***************************************************************************)
NamesTo(name) == {tables[i].definition.name : i \in 1..Min(Named(name))}

IsFirst(found, name, comparable) ==
  /\ found.code \in {-1, 0, 1}
  /\ found.code = 1 =>
       Named(name) # {} /\ found.table = Min(Named(name)) /\ found.table \in DOMAIN tables
  /\ found.code = 0 => Named(name) = {}
  /\ Named(name) # {} /\ comparable /\ None \notin NamesTo(name) => found.code = 1

LEMMA TableNumbers ==
  ASSUME Kept
  PROVE  /\ Len(tables) \in Nat /\ DOMAIN tables = 1..Len(tables)
         /\ \A name : Named(name) \in SUBSET Nat /\ Named(name) \subseteq DOMAIN tables
         /\ \A i \in DOMAIN tables : tables[i] \in Entries
<1>1. Len(tables) \in Nat /\ DOMAIN tables = 1..Len(tables)
  BY LenProperties DEF Kept
<1>2. \A name : Named(name) \subseteq DOMAIN tables
  BY DEF Named
<1>3. \A name : Named(name) \subseteq Nat
  BY <1>1, <1>2
<1>. QED
  BY <1>1, <1>2, <1>3, ElementOfSeq DEF Kept

LEMMA FirstIsNamed ==
  ASSUME Kept, NEW name, NEW comparable \in BOOLEAN,
         NEW compared, DOMAIN compared = DOMAIN tables,
         \A i \in DOMAIN tables :
           /\ compared[i] \in {-1, 0, 1}
           /\ compared[i] = 1 => tables[i].definition.name = name
           /\ compared[i] = 0 => tables[i].definition.name # name
           /\ comparable /\ tables[i].definition.name # None => compared[i] # -1
  PROVE  IsFirst(FirstOf(compared), name, comparable)
<1>1. DEFINE hits == {i \in DOMAIN compared : compared[i] # 0}
             found == FirstOf(compared)
<1>2. Named(name) \subseteq hits /\ hits \in SUBSET Nat /\ Named(name) \in SUBSET Nat
  <2>1. hits \in SUBSET Nat
    BY TableNumbers
  <2>. QED
    BY <2>1, TableNumbers DEF Named
<1>3. CASE hits = {}
  <2>1. found = [code |-> 0, table |-> 0]
    BY <1>3 DEF FirstOf
  <2>. QED
    BY <1>2, <1>3, <2>1 DEF IsFirst
<1>4. CASE hits # {}
  <2>1. PICK m \in hits : m = Min(hits) /\ \A j \in hits : m <= j
    <3>. HIDE DEF hits
    <3>. QED
      BY <1>2, <1>4, MinIsFirst
  <2>2. found = [code |-> compared[m], table |-> IF compared[m] = 1 THEN m ELSE 0]
    BY <1>4, <2>1 DEF FirstOf
  <2>3. m \in Nat /\ m \in DOMAIN tables /\ compared[m] # 0
    BY <1>2, <2>1
  <2>4. ASSUME compared[m] = 1
        PROVE  Named(name) # {} /\ m = Min(Named(name))
    <3>1. m \in Named(name)
      BY <2>3, <2>4 DEF Named
    <3>2. \A j \in Named(name) : m <= j
      BY <1>2, <2>1
    <3>. QED
      BY <1>2, <3>1, <3>2, MinIs
  <2>5. ASSUME Named(name) # {}, comparable, None \notin NamesTo(name)
        PROVE  compared[m] = 1
    <3>1. PICK n \in Named(name) : n = Min(Named(name))
      BY <1>2, <2>5, MinIsFirst
    <3>2. m <= n /\ m \in 1..n
      BY <1>2, <2>1, <2>3, <3>1, TableNumbers
    <3>3. tables[m].definition.name # None
      BY <2>5, <3>1, <3>2 DEF NamesTo
    <3>. QED
      BY <2>3, <2>5, <3>3
  <2>. QED
    BY <2>2, <2>3, <2>4, <2>5 DEF IsFirst
<1>. QED
  BY <1>3, <1>4

LEMMA NoNameIsFound ==
  ASSUME Kept, NEW comparable
  PROVE  IsFirst(BadName, None, comparable)
<1>1. ASSUME Named(None) # {}
      PROVE  None \in NamesTo(None)
  <2>1. PICK n \in Named(None) : n = Min(Named(None))
    BY <1>1, TableNumbers, MinIsFirst
  <2>2. n \in Nat /\ n >= 1
    BY <2>1, TableNumbers
  <2>3. n \in 1..Min(Named(None)) /\ tables[n].definition.name = None
    BY <2>1, <2>2 DEF Named
  <2>. QED
    BY <2>3 DEF NamesTo
<1>. QED
  BY <1>1 DEF BadName, IsFirst

LEMMA FoundByUtf8 ==
  ASSUME Kept, NEW string
  PROVE  IsFirst(ByUtf8(string), string, ValidUtf8(string))
<1>1. ValidUtf8(string) \in BOOLEAN
  BY DEF ValidUtf8
<1>2. DEFINE compared == [i \in DOMAIN tables |-> CompareUtf8(TableDefinition(i), string)]
<1>3. ASSUME NEW i \in DOMAIN tables
      PROVE  /\ compared[i] \in {-1, 0, 1}
             /\ compared[i] = 1 => tables[i].definition.name = string
             /\ compared[i] = 0 => tables[i].definition.name # string
             /\ ValidUtf8(string) /\ tables[i].definition.name # None => compared[i] # -1
  BY DEF CompareUtf8, SameName, TableDefinition
<1>4. DOMAIN compared = DOMAIN tables
  OBVIOUS
<1>5. string # None => ByUtf8(string) = FirstOf(compared)
  BY DEF ByUtf8
<1>6. string = None => ByUtf8(string) = BadName
  BY DEF ByUtf8
<1>. HIDE DEF compared
<1>7. IsFirst(FirstOf(compared), string, ValidUtf8(string))
  BY <1>1, <1>3, <1>4, FirstIsNamed
<1>. QED
  BY <1>5, <1>6, <1>7, NoNameIsFound

LEMMA FoundByUtf16 ==
  ASSUME Kept, NEW string
  PROVE  IsFirst(ByUtf16(string), string, TRUE)
<1>1. DEFINE compared == [i \in DOMAIN tables |-> CompareUtf16(TableDefinition(i), string)]
<1>2. ASSUME NEW i \in DOMAIN tables
      PROVE  /\ compared[i] \in {-1, 0, 1}
             /\ compared[i] = 1 => tables[i].definition.name = string
             /\ compared[i] = 0 => tables[i].definition.name # string
             /\ tables[i].definition.name # None => compared[i] # -1
  BY DEF CompareUtf16, SameName, TableDefinition
<1>3. DOMAIN compared = DOMAIN tables
  OBVIOUS
<1>4. string # None => ByUtf16(string) = FirstOf(compared)
  BY DEF ByUtf16
<1>5. string = None => ByUtf16(string) = BadName
  BY DEF ByUtf16
<1>. HIDE DEF compared
<1>6. IsFirst(FirstOf(compared), string, TRUE)
  BY <1>2, <1>3, FirstIsNamed
<1>. QED
  BY <1>4, <1>5, <1>6, NoNameIsFound

LEMMA FoundByName ==
  ASSUME Kept, NEW name
  PROVE  IsFirst(ByName(name), name, TRUE)
<1>1. DEFINE compared == [i \in DOMAIN tables |-> SameName(TableDefinition(i), name)]
<1>2. ASSUME NEW i \in DOMAIN tables
      PROVE  /\ compared[i] \in {-1, 0, 1}
             /\ compared[i] = 1 => tables[i].definition.name = name
             /\ compared[i] = 0 => tables[i].definition.name # name
             /\ compared[i] # -1
  BY DEF SameName, TableDefinition
<1>3. DOMAIN compared = DOMAIN tables
  OBVIOUS
<1>4. name # None => ByName(name) = FirstOf(compared)
  BY DEF ByName
<1>5. name = None => ByName(name) = BadName
  BY DEF ByName
<1>. HIDE DEF compared
<1>6. IsFirst(FirstOf(compared), name, TRUE)
  BY <1>2, <1>3, FirstIsNamed
<1>. QED
  BY <1>4, <1>5, <1>6, NoNameIsFound

(***************************************************************************)
(* A table is handed out with the first table that has the name of its     *)
(* template, or without one when it names none.                            *)
(***************************************************************************)
TemplateFits(i, template) ==
  /\ tables[i].definition.template = None => template.code = 1
  /\ template.code = 1 =>
       /\ template.table \in 0..Len(tables)
       /\ IF tables[i].definition.template = None THEN template.table = 0
          ELSE /\ Named(tables[i].definition.template) # {}
               /\ template.table = Min(Named(tables[i].definition.template))

LEMMA TemplateIsFound ==
  ASSUME Kept, NEW i, NEW comparable, NEW compared,
         IsFirst(compared, tables[i].definition.template, comparable)
  PROVE  TemplateFits(i, TemplateOf(i, compared))
<1>1. Len(tables) \in Nat /\ DOMAIN tables = 1..Len(tables)
  BY TableNumbers
<1>2. 0 \in 0..Len(tables) /\ \A n \in DOMAIN tables : n \in 0..Len(tables)
  BY <1>1
<1>3. CASE tables[i].definition.template = None
  BY <1>2, <1>3 DEF TemplateOf, TableDefinition, TemplateFits
<1>4. CASE tables[i].definition.template # None
  BY <1>2, <1>4 DEF TemplateOf, TableDefinition, TemplateFits, IsFirst
<1>. QED
  BY <1>3, <1>4

LEMMA MadeIsAnswered ==
  ASSUME Kept, step = "open",
         NEW call, NEW argument, NEW found, NEW template,
         MakeTable(call, argument, found, template),
         found.code \in {-1, 0, 1},
         found.code = 1 => found.table \in DOMAIN tables /\ TemplateFits(found.table, template),
         call \in {"utf8", "utf16"} =>
           IsFirst(found, argument, call = "utf8" => ValidUtf8(argument))
  PROVE  Answered'
<1>1. tables' = tables /\ step' = "open"
  BY DEF MakeTable
<1>2. DEFINE made == found.code = 1 /\ template.code = 1
<1>3. /\ reply'.call = call /\ reply'.of = argument
      /\ reply'.code = IF made \/ found.code # 1 THEN found.code ELSE -1
      /\ inHand' = IF made THEN [table |-> found.table, template |-> template.table] ELSE NoTable
  BY DEF MakeTable
<1>4. reply'.code \in {-1, 0, 1}
  BY <1>3
<1>5. made => /\ inHand'.table = found.table /\ inHand'.template = template.table
              /\ found.table \in 1..Len(tables) /\ template.table \in 0..Len(tables)
  BY <1>3, TableNumbers DEF TemplateFits
<1>6. ~made => inHand' = NoTable
  BY <1>3
<1>7. (inHand # NoTable => inHand \in [table : 1..Len(tables), template : 0..Len(tables)])'
  BY <1>1, <1>3, <1>5
<1>8. TemplateIsNamed'
  <2>1. ASSUME made
        PROVE  LET name == tables[found.table].definition.template
               IN  IF name = None THEN template.table = 0
                   ELSE Named(name) # {} /\ template.table = Min(Named(name))
    BY <2>1 DEF TemplateFits
  <2>. QED
    BY <1>1, <1>5, <1>6, <2>1 DEF TemplateIsNamed, Named
<1>9. FirstOfTheName'
  <2>1. ASSUME call \in {"utf8", "utf16"}
        PROVE  /\ made => found.table = Min(Named(argument))
               /\ found.code = 0 => Named(argument) = {}
               /\ Named(argument) # {} /\ (call = "utf8" => ValidUtf8(argument))
                    /\ None \notin {tables[i].definition.name : i \in 1..Min(Named(argument))}
                    /\ tables[Min(Named(argument))].definition.template = None => made
    BY <2>1 DEF IsFirst, NamesTo, TemplateFits
  <2>2. reply'.code = 1 <=> made
    BY <1>3
  <2>3. reply'.code = 0 <=> found.code = 0
    BY <1>3
  <2>. QED
    BY <1>1, <1>3, <1>5, <1>6, <2>1, <2>2, <2>3 DEF FirstOfTheName, Named
<1>. QED
  BY <1>1, <1>4, <1>7, <1>8, <1>9 DEF Answered

LEMMA StepIsAnswered ==
  ASSUME Walked, Kept, Answered, [Next]_vars
  PROVE  Answered'
<1>1. CASE UNCHANGED <<step, tables, inHand, reply>>
  BY <1>1 DEF Answered, FirstOfTheName, TemplateIsNamed, Named
<1>2. CASE step # "open" /\ UNCHANGED <<inHand, reply>>
  <2>1. inHand' = NoTable /\ reply' = NoReply
    BY <1>2 DEF Answered
  <2>2. reply'.call = "none" /\ reply'.code = 0
    BY <2>1 DEF NoReply
  <2>. QED
    BY <2>1, <2>2 DEF Answered, FirstOfTheName, TemplateIsNamed
<1>3. ReadStep \/ ReadFails => step # "open" /\ UNCHANGED <<inHand, reply>>
  BY DEF ReadStep, ReadFails, Descend, EnterPage, EnterFails, LeavePage, WalkEnds, ReadRow,
         SkipDefunct, CountRow, CountFails, TableRow, ColumnRow, IndexRow, SingleRow, IgnoreRow,
         RowFails, NewRow, LiveIn, AtRow, NextRow, Fail
<1>4. CASE FreeTable
  <2>1. UNCHANGED <<step, tables, reply>> /\ inHand' = NoTable /\ step = "open"
    BY <1>4 DEF FreeTable
  <2>. QED
    BY <2>1 DEF Answered, FirstOfTheName, TemplateIsNamed, Named
<1>5. ASSUME NEW i, GetTable(i)
      PROVE  Answered'
  <2>1. step = "open"
    BY <1>5 DEF GetTable, Free
  <2>2. CASE i \in DOMAIN tables
    <3>1. DEFINE found == [code |-> 1, table |-> i]
                 template == TemplateOf(i, ByUtf8(TableDefinition(i).template))
    <3>2. MakeTable("number", i, found, template)
      BY <1>5, <2>2 DEF GetTable
    <3>3. TemplateFits(i, template)
      BY FoundByUtf8, TemplateIsFound DEF TableDefinition
    <3>. QED
      BY <2>1, <2>2, <3>2, <3>3, MadeIsAnswered
  <2>3. CASE i \notin DOMAIN tables
    <3>1. MakeTable("number", i, BadName, BadName) /\ BadName.code = -1
      BY <1>5, <2>3 DEF GetTable, BadName
    <3>. QED
      BY <2>1, <3>1, MadeIsAnswered
  <2>. QED
    BY <2>2, <2>3
<1>6. ASSUME NEW string, GetTableByUtf8(string) \/ GetTableByUtf16(string)
      PROVE  Answered'
  <2>1. step = "open"
    BY <1>6 DEF GetTableByUtf8, GetTableByUtf16, Free
  <2>2. ASSUME NEW call \in {"utf8", "utf16"}, NEW found,
               IsFirst(found, string, call = "utf8" => ValidUtf8(string)),
               MakeTable(call, string, found,
                 IF found.code = 1
                 THEN TemplateOf(found.table, ByName(TableDefinition(found.table).template))
                 ELSE BadName)
        PROVE  Answered'
    <3>1. found.code \in {-1, 0, 1} /\ (found.code = 1 => found.table \in DOMAIN tables)
      BY <2>2 DEF IsFirst
    <3>2. TemplateFits(found.table,
            TemplateOf(found.table, ByName(TableDefinition(found.table).template)))
      BY FoundByName, TemplateIsFound DEF TableDefinition
    <3>. QED
      BY <2>1, <2>2, <3>1, <3>2, MadeIsAnswered
  <2>3. CASE GetTableByUtf8(string)
    <3>1. IsFirst(ByUtf8(string), string, "utf8" = "utf8" => ValidUtf8(string))
      BY FoundByUtf8 DEF IsFirst
    <3>. QED
      BY <2>2, <2>3, <3>1 DEF GetTableByUtf8
  <2>4. CASE GetTableByUtf16(string)
    <3>1. IsFirst(ByUtf16(string), string, "utf16" = "utf8" => ValidUtf8(string))
      BY FoundByUtf16 DEF IsFirst
    <3>. QED
      BY <2>2, <2>4, <3>1 DEF GetTableByUtf16
  <2>. QED
    BY <1>6, <2>3, <2>4
<1>. QED
  BY <1>1, <1>2, <1>3, <1>4, <1>5, <1>6 DEF Next, Calls, vars

-----------------------------------------------------------------------------
(***************************************************************************)
(* The table in hand.  Its columns are those of its template and its own,  *)
(* all of them definitions that were read.                                 *)
(***************************************************************************)
LEMMA TableInHand ==
  ASSUME Kept, Answered, inHand # NoTable
  PROVE  Own \in Entries /\ TemplateColumns \in Seq(ReadDefinitions)
<1>1. inHand.table \in DOMAIN tables /\ inHand.template \in 0..Len(tables)
  BY TableNumbers DEF Answered
<1>2. Own \in Entries
  BY <1>1, TableNumbers DEF Own
<1>3. CASE HasTemplate
  <2>1. inHand.template \in DOMAIN tables
    BY <1>1, <1>3, TableNumbers DEF HasTemplate
  <2>2. PICK entry \in Entries : entry = tables[inHand.template]
    BY <2>1, TableNumbers
  <2>. QED
    BY <1>2, <1>3, <2>2 DEF TemplateColumns, Entries
<1>4. CASE ~HasTemplate
  <2>1. TemplateColumns = <<>> /\ <<>> \in Seq(ReadDefinitions)
    BY <1>4, EmptySeq DEF TemplateColumns
  <2>. QED
    BY <1>2, <2>1
<1>. QED
  BY <1>2, <1>3, <1>4

LEMMA DefinitionAt ==
  ASSUME NEW definitions \in Seq(ReadDefinitions), NEW k \in Int
  PROVE  /\ Len(definitions) \in Nat
         /\ At(definitions, k) # Failed <=> k \in 0..(Len(definitions) - 1)
         /\ k \in 0..(Len(definitions) - 1) => At(definitions, k) \in ReadDefinitions
<1>1. Len(definitions) \in Nat /\ DOMAIN definitions = 1..Len(definitions)
  BY LenProperties
<1>2. k + 1 \in DOMAIN definitions <=> k \in 0..(Len(definitions) - 1)
  BY <1>1
<1>3. k + 1 \in DOMAIN definitions => definitions[k + 1] \in ReadDefinitions
  BY <1>1, ElementOfSeq
<1>4. Failed \notin ReadDefinitions
  BY DEF Failed, BadDefinition, ReadDefinitions
<1>. QED
  BY <1>1, <1>2, <1>3, <1>4 DEF At

ColumnAgrees(k, count) ==
  /\ Column(k, FALSE) = RecordColumn(k)
  /\ Column(k, FALSE) # Failed <=> k \in 0..(count - 1)
  /\ k \in 0..(count - 1) => Column(k, FALSE) \in ReadDefinitions

LEMMA ColumnIsOneOf ==
  ASSUME NEW own \in Seq(ReadDefinitions), NEW template \in Seq(ReadDefinitions), NEW k \in Int,
         Own.columns = own, TemplateColumns = template
  PROVE  /\ ColumnAgrees(k, Len(template) + Len(own))
         /\ k \in 0..(Len(own) - 1) => Column(k, TRUE) = Column(k + Len(template), FALSE)
<1>1. PICK m \in Nat : m = Len(own)
  BY DefinitionAt
<1>2. PICK n \in Nat : n = Len(template)
  BY DefinitionAt
<1>3. Column(k, FALSE) = IF k < n THEN At(template, k) ELSE At(own, k - n)
  BY <1>2 DEF Column, ColumnDefinition
<1>4. RecordColumn(k) = IF k < n THEN At(template, k) ELSE At(own, k - n)
  BY <1>2 DEF RecordColumn
<1>5. PICK c \in Nat : c = n + m
  OBVIOUS
<1>6. ASSUME k < n
      PROVE  ColumnAgrees(k, c)
  <2>1. k \in 0..(n - 1) <=> k \in 0..(c - 1)
    BY <1>5, <1>6
  <2>2. At(template, k) # Failed <=> k \in 0..(n - 1)
    BY <1>2, DefinitionAt
  <2>3. k \in 0..(n - 1) => At(template, k) \in ReadDefinitions
    BY <1>2, DefinitionAt
  <2>4. Column(k, FALSE) = At(template, k) /\ RecordColumn(k) = At(template, k)
    BY <1>3, <1>4, <1>6
  <2>5. Column(k, FALSE) # Failed <=> k \in 0..(c - 1)
    BY <2>1, <2>2, <2>4, Zenon
  <2>6. k \in 0..(c - 1) => Column(k, FALSE) \in ReadDefinitions
    BY <2>1, <2>3, <2>4, Zenon
  <2>. QED
    BY <2>4, <2>5, <2>6, Zenon DEF ColumnAgrees
<1>7. ASSUME ~ (k < n)
      PROVE  ColumnAgrees(k, c)
  <2>1. PICK j \in Int : j = k - n
    OBVIOUS
  <2>2. j \in 0..(m - 1) <=> k \in 0..(c - 1)
    BY <1>5, <1>7, <2>1
  <2>3. At(own, j) # Failed <=> j \in 0..(m - 1)
    BY <1>1, DefinitionAt
  <2>4. j \in 0..(m - 1) => At(own, j) \in ReadDefinitions
    BY <1>1, DefinitionAt
  <2>5. Column(k, FALSE) = At(own, j) /\ RecordColumn(k) = At(own, j)
    BY <1>3, <1>4, <1>7, <2>1
  <2>6. Column(k, FALSE) # Failed <=> k \in 0..(c - 1)
    BY <2>2, <2>3, <2>5, Zenon
  <2>7. k \in 0..(c - 1) => Column(k, FALSE) \in ReadDefinitions
    BY <2>2, <2>4, <2>5, Zenon
  <2>. QED
    BY <2>5, <2>6, <2>7, Zenon DEF ColumnAgrees
<1>8. ASSUME k \in 0..(m - 1)
      PROVE  Column(k, TRUE) = Column(k + n, FALSE)
  <2>1. ~ (k < 0) /\ ~ (k + n < n) /\ k - 0 = k /\ (k + n) - n = k
    BY <1>8
  <2>. QED
    BY <1>2, <2>1 DEF Column, ColumnDefinition
<1>. QED
  BY <1>1, <1>2, <1>5, <1>6, <1>7, <1>8

LEMMA ColumnsDoAgree ==
  ASSUME Kept, Answered
  PROVE  ColumnsAgree
<1>. SUFFICES ASSUME inHand # NoTable
              PROVE  ColumnsAgree
  BY DEF ColumnsAgree
<1>1. PICK own \in Seq(ReadDefinitions) : own = Own.columns
  BY TableInHand DEF Entries
<1>2. PICK template \in Seq(ReadDefinitions) : template = TemplateColumns
  BY TableInHand
<1>3. PICK m \in Nat, n \in Nat : m = Len(own) /\ n = Len(template)
  BY DefinitionAt
<1>4. NumberOfColumns(FALSE) = n + m /\ NumberOfColumns(TRUE) = m
  BY <1>1, <1>2, <1>3 DEF NumberOfColumns, NumberOfDefinitions
<1>5. ASSUME NEW k \in -1..(n + m)
      PROVE  ColumnAgrees(k, n + m)
  <2>1. k \in Int
    OBVIOUS
  <2>. QED
    BY <1>1, <1>2, <1>3, <2>1, ColumnIsOneOf
<1>6. ASSUME NEW k \in 0..(m - 1)
      PROVE  Column(k, TRUE) = Column(k + (n + m) - m, FALSE)
  <2>1. k \in Int /\ k + (n + m) - m = k + n
    OBVIOUS
  <2>2. Column(k, TRUE) = Column(k + n, FALSE)
    BY <1>1, <1>2, <1>3, <1>6, <2>1, ColumnIsOneOf
  <2>. QED
    BY <2>1, <2>2
<1>. QED
  BY <1>4, <1>5, <1>6 DEF ColumnsAgree, ColumnAgrees, ColumnIdentifier, Identifier, TypeOfColumn,
       ColumnTypeOf

(***************************************************************************)
(* Two sequences that have the same elements, each of them once, are of    *)
(* the same length.                                                        *)
(***************************************************************************)
LEMMA SameLength ==
  ASSUME NEW m \in Nat, NEW n \in Nat, NEW f, NEW g,
         DOMAIN f = 1..m, DOMAIN g = 1..n, Differ(f), Differ(g),
         {f[i] : i \in DOMAIN f} = {g[j] : j \in DOMAIN g}
  PROVE  m = n
<1>1. DEFINE S == 1..m
             T == 1..n
             h == [i \in S |-> CHOOSE j \in T : g[j] = f[i]]
<1>2. ASSUME NEW i \in S
      PROVE  h[i] \in T /\ g[h[i]] = f[i]
  <2>1. \E j \in T : g[j] = f[i]
    OBVIOUS
  <2>. QED
    BY <2>1
<1>3. \A i, k \in S : h[i] = h[k] => i = k
  <2>1. ASSUME NEW i \in S, NEW k \in S, h[i] = h[k]
        PROVE  i = k
    <3>1. f[i] = f[k]
      BY <1>2, <2>1
    <3>2. i \in DOMAIN f /\ k \in DOMAIN f
      OBVIOUS
    <3>. QED
      BY <3>1, <3>2, Zenon DEF Differ
  <2>. QED
    BY <2>1
<1>4. \A j \in T : \E i \in S : h[i] = j
  <2>1. ASSUME NEW j \in T
        PROVE  \E i \in S : h[i] = j
    <3>1. PICK i \in S : f[i] = g[j]
      OBVIOUS
    <3>. QED
      BY <1>2, <3>1 DEF Differ
  <2>. QED
    BY <2>1
<1>5. h \in [S -> T]
  BY <1>2
<1>6. IsFiniteSet(S) /\ Cardinality(S) = m /\ Cardinality(T) = n
  <2>1. \A k \in Nat : IsFiniteSet(1..k) /\ Cardinality(1..k) = IF 1 > k THEN 0 ELSE k - 1 + 1
    <3>1. 1 \in Int /\ \A k \in Nat : k \in Int
      OBVIOUS
    <3>. QED
      BY <3>1, FS_Interval, Zenon
  <2>2. \A k \in Nat : (IF 1 > k THEN 0 ELSE k - 1 + 1) = k
    OBVIOUS
  <2>. QED
    BY <2>1, <2>2
<1>. HIDE DEF S, T, h
<1>7. h \in Bijection(S, T)
  BY <1>3, <1>4, <1>5 DEF Bijection, Injection, Surjection, IsInjective
<1>8. ExistsBijection(S, T)
  BY <1>7 DEF ExistsBijection
<1>. QED
  BY <1>6, <1>8, FS_Bijection

LEMMA IndexesDoFind ==
  ASSUME Walked, Kept, Answered
  PROVE  IndexesFindRecords
<1>. SUFFICES ASSUME inHand # NoTable, NEW k \in 0..(NumberOfIndexes - 1),
                     IndexIsComplete(TableRoot, IndexDefinition(k).detail)
              PROVE  /\ NumberOfIndexRecords(k) = NumberOfRecords
                     /\ {IndexRecord(k, e) : e \in 0..(NumberOfRecords - 1)}
                          = {Record(e) : e \in 0..(NumberOfRecords - 1)}
  BY DEF IndexesFindRecords
<1>1. DEFINE rows == Rows(TableRoot)
             values == Rows(IndexRoot(k))
             keys == [i \in DOMAIN rows |-> rows[i].key]
             data == [i \in DOMAIN values |-> values[i].data]
<1>2. /\ Readable(TableRoot) /\ Readable(IndexRoot(k))
      /\ Differ(keys) /\ Differ(data)
      /\ {keys[i] : i \in DOMAIN keys} = {data[i] : i \in DOMAIN data}
  BY DEF IndexIsComplete, IndexRoot
<1>3. IsSequence(rows) /\ IsSequence(values)
  BY <1>2, FilesAssumption DEF Walked, Readable, Rows
<1>4. PICK m \in Nat : m = Len(rows) /\ DOMAIN rows = 1..m
  BY <1>3 DEF IsSequence
<1>5. PICK n \in Nat : n = Len(values) /\ DOMAIN values = 1..n
  BY <1>3 DEF IsSequence
<1>6. NumberOfRecords = m /\ NumberOfIndexRecords(k) = n
  BY <1>2, <1>4, <1>5 DEF NumberOfRecords, NumberOfIndexRecords
<1>7. m = n
  <2>. DOMAIN keys = 1..m /\ DOMAIN data = 1..n
    BY <1>4, <1>5
  <2>. HIDE DEF keys, data
  <2>. QED
    BY <1>2, SameLength
<1>8. ASSUME NEW e \in 0..(m - 1), NEW i \in 1..m, rows[i].key = values[e + 1].data
      PROVE  IndexRecord(k, e) = rows[i]
  <2>1. DEFINE hits == {j \in DOMAIN rows :
                          e + 1 \in DOMAIN values /\ rows[j].key = IndexData(values[e + 1])}
  <2>2. e + 1 \in 1..n
    BY <1>7
  <2>3. hits = {i}
    BY <1>2, <1>4, <1>5, <1>8, <2>2 DEF Differ, IndexData
  <2>4. Min({i}) = i
    BY MinIs
  <2>5. IndexRecord(k, e) = IF hits = {} THEN Failed ELSE rows[Min(hits)]
    BY DEF IndexRecord
  <2>. QED
    BY <2>3, <2>4, <2>5
<1>9. \A e \in 0..(m - 1) : e + 1 \in 1..m /\ Record(e) = rows[e + 1]
  BY <1>4 DEF Record
<1>10. \A e \in 0..(m - 1) : \E i \in 1..m : rows[i].key = values[e + 1].data
  <2>1. ASSUME NEW e \in 0..(m - 1)
        PROVE  \E i \in 1..m : rows[i].key = values[e + 1].data
    <3>1. e + 1 \in DOMAIN data
      BY <1>5, <1>7
    <3>2. PICK i \in DOMAIN keys : keys[i] = data[e + 1]
      <4>. HIDE DEF keys, data
      <4>. QED
        BY <1>2, <3>1
    <3>. QED
      BY <1>4, <3>1, <3>2
  <2>. QED
    BY <2>1
<1>11. \A i \in 1..m : \E e \in 0..(m - 1) : rows[i].key = values[e + 1].data
  <2>1. ASSUME NEW i \in 1..m
        PROVE  \E e \in 0..(m - 1) : rows[i].key = values[e + 1].data
    <3>1. PICK j \in DOMAIN values : data[j] = keys[i]
      BY <1>2, <1>4
    <3>2. j - 1 \in 0..(m - 1) /\ (j - 1) + 1 = j
      BY <1>5, <1>7
    <3>. QED
      BY <1>4, <3>1, <3>2
  <2>. QED
    BY <2>1
<1>12. ASSUME NEW e \in 0..(m - 1)
       PROVE  \E d \in 0..(m - 1) : IndexRecord(k, e) = Record(d)
  <2>1. PICK i \in 1..m : rows[i].key = values[e + 1].data
    BY <1>10
  <2>2. i - 1 \in 0..(m - 1) /\ (i - 1) + 1 = i
    OBVIOUS
  <2>3. IndexRecord(k, e) = rows[i] /\ Record(i - 1) = rows[i]
    BY <1>8, <1>9, <2>1, <2>2
  <2>. QED
    BY <2>2, <2>3
<1>13. ASSUME NEW d \in 0..(m - 1)
       PROVE  \E e \in 0..(m - 1) : IndexRecord(k, e) = Record(d)
  <2>1. d + 1 \in 1..m /\ Record(d) = rows[d + 1]
    BY <1>9
  <2>2. PICK e \in 0..(m - 1) : rows[d + 1].key = values[e + 1].data
    BY <1>11, <2>1
  <2>3. IndexRecord(k, e) = rows[d + 1]
    BY <1>8, <2>1, <2>2
  <2>. QED
    BY <2>1, <2>3
<1>14. {IndexRecord(k, e) : e \in 0..(m - 1)} = {Record(e) : e \in 0..(m - 1)}
  BY <1>12, <1>13
<1>. QED
  BY <1>6, <1>7, <1>14

(***************************************************************************)
(* The sizes that are told for the names of a definition are those that    *)
(* they are copied with.                                                   *)
(***************************************************************************)
LEMMA LengthIsNat ==
  ASSUME NEW string \in Bytes
  PROVE  Utf8Length(string) \in Nat /\ Utf16Length(string) \in Nat
<1>1. PICK n \in Nat : n = Len(string)
  BY BytesAre
<1>2. DOMAIN string = 1..n
  BY <1>1, LenProperties DEF Bytes
<1>3. DEFINE S == {i \in DOMAIN string : string[i] > 127}
<1>4. IsFiniteSet(1..n) /\ S \subseteq 1..n
  BY <1>2, FS_Interval
<1>5. Cardinality(S) \in Nat
  BY <1>4, FS_Subset, FS_CardinalityType
<1>6. PICK c \in Nat : c = Characters(string)
  BY <1>5 DEF Characters
<1>. QED
  BY <1>1, <1>6 DEF Utf8Length, Utf16Length

SizesSuffice(d) ==
  /\ Utf8NameSize(d) > 0 =>
       Utf8Name(d, Utf8NameSize(d)) = 1 /\ Utf8Name(d, Utf8NameSize(d) - 1) = -1
  /\ Utf16NameSize(d) > 0 =>
       Utf16Name(d, Utf16NameSize(d)) = 1 /\ Utf16Name(d, Utf16NameSize(d) - 1) = -1
  /\ Utf8TemplateSize(d) > 0 =>
       Utf8Template(d, Utf8TemplateSize(d)) = 1 /\ Utf8Template(d, Utf8TemplateSize(d) - 1) = -1
  /\ Utf16TemplateSize(d) > 0 =>
       Utf16Template(d, Utf16TemplateSize(d)) = 1 /\ Utf16Template(d, Utf16TemplateSize(d) - 1) = -1

LEMMA SizesDoSuffice ==
  ASSUME NEW d \in ReadDefinitions
  PROVE  SizesSuffice(d)
<1>1. d.name \in Bytes /\ d.template \in Bytes
  BY DEF ReadDefinitions
<1>2. PICK a \in Nat, b \in Nat : a = Utf8Length(d.name) /\ b = Utf16Length(d.name)
  BY <1>1, LengthIsNat
<1>3. PICK x \in Nat, y \in Nat : x = Utf8Length(d.template) /\ y = Utf16Length(d.template)
  BY <1>1, LengthIsNat
<1>4. \A n \in Nat : ~ (n < n) /\ n - 1 < n
  OBVIOUS
<1>5. Utf8NameSize(d) > 0 =>
        Utf8Name(d, Utf8NameSize(d)) = 1 /\ Utf8Name(d, Utf8NameSize(d) - 1) = -1
  BY <1>2, <1>4 DEF Utf8NameSize, Utf8Name
<1>6. Utf16NameSize(d) > 0 =>
        Utf16Name(d, Utf16NameSize(d)) = 1 /\ Utf16Name(d, Utf16NameSize(d) - 1) = -1
  BY <1>2, <1>4 DEF Utf16NameSize, Utf16Name
<1>7. Utf8TemplateSize(d) > 0 =>
        Utf8Template(d, Utf8TemplateSize(d)) = 1 /\ Utf8Template(d, Utf8TemplateSize(d) - 1) = -1
  BY <1>3, <1>4 DEF Utf8TemplateSize, Utf8Template
<1>8. Utf16TemplateSize(d) > 0 =>
        Utf16Template(d, Utf16TemplateSize(d)) = 1 /\ Utf16Template(d, Utf16TemplateSize(d) - 1) = -1
  BY <1>3, <1>4 DEF Utf16TemplateSize, Utf16Template
<1>. QED
  BY <1>5, <1>6, <1>7, <1>8 DEF SizesSuffice

LEMMA NamesDoFit ==
  ASSUME Kept, Answered
  PROVE  NamesFit
<1>. SUFFICES ASSUME inHand # NoTable
              PROVE  NamesFit
  BY DEF NamesFit
<1>1. PICK own \in Entries : own = Own
  BY TableInHand
<1>2. SizesSuffice(own.definition)
  BY SizesDoSuffice DEF Entries
<1>3. /\ Fits(TableUtf8NameSize, TableUtf8Name) /\ Fits(TableUtf16NameSize, TableUtf16Name)
      /\ Fits(TableUtf8TemplateSize, TableUtf8Template)
      /\ Fits(TableUtf16TemplateSize, TableUtf16Template)
  BY <1>1, <1>2 DEF SizesSuffice, Fits, TableUtf8NameSize, TableUtf8Name, TableUtf16NameSize,
       TableUtf16Name, TableUtf8TemplateSize, TableUtf8Template, TableUtf16TemplateSize,
       TableUtf16Template
<1>4. ASSUME NEW k \in 0..(NumberOfIndexes - 1)
      PROVE  /\ Fits(IndexUtf8NameSize(k), LAMBDA room : IndexUtf8Name(k, room))
             /\ Fits(IndexUtf16NameSize(k), LAMBDA room : IndexUtf16Name(k, room))
  <2>1. PICK indexes \in Seq(ReadDefinitions) : indexes = Own.indexes
    BY <1>1 DEF Entries
  <2>2. PICK n \in Nat : n = Len(indexes)
    BY <2>1, DefinitionAt
  <2>3. NumberOfIndexes = n
    BY <2>1, <2>2 DEF NumberOfIndexes, NumberOfIndexDefinitions
  <2>4. k \in Int /\ k \in 0..(n - 1)
    BY <2>3
  <2>5. IndexDefinition(k) \in ReadDefinitions
    BY <2>1, <2>2, <2>4, DefinitionAt DEF IndexDefinition
  <2>6. SizesSuffice(IndexDefinition(k))
    BY <2>5, SizesDoSuffice
  <2>. QED
    BY <2>6 DEF SizesSuffice, Fits, IndexUtf8NameSize, IndexUtf8Name, IndexUtf16NameSize,
         IndexUtf16Name
<1>5. ASSUME NEW k \in 0..(NumberOfColumns(FALSE) - 1)
      PROVE  /\ Fits(ColumnUtf8NameSize(k), LAMBDA room : RecordUtf8Name(k, room))
             /\ Fits(RecordUtf8NameSize(k), LAMBDA room : ColumnUtf8Name(k, room))
             /\ Fits(ColumnUtf16NameSize(k), LAMBDA room : RecordUtf16Name(k, room))
             /\ Fits(RecordUtf16NameSize(k), LAMBDA room : ColumnUtf16Name(k, room))
  <2>1. PICK columns \in Seq(ReadDefinitions) : columns = Own.columns
    BY <1>1 DEF Entries
  <2>2. PICK template \in Seq(ReadDefinitions) : template = TemplateColumns
    BY TableInHand
  <2>3. PICK m \in Nat, n \in Nat : m = Len(columns) /\ n = Len(template)
    BY DefinitionAt
  <2>4. PICK c \in Nat : c = NumberOfColumns(FALSE) /\ c = n + m
    BY <2>1, <2>2, <2>3 DEF NumberOfColumns, NumberOfDefinitions
  <2>5. k \in Int /\ k \in 0..(c - 1)
    <3>1. k \in 0..(c - 1)
      BY <2>4, Zenon
    <3>. QED
      BY <3>1
  <2>6. ColumnAgrees(k, c)
    BY <2>1, <2>2, <2>3, <2>4, <2>5, ColumnIsOneOf
  <2>7. PICK d \in ReadDefinitions : d = Column(k, FALSE) /\ d = RecordColumn(k)
    BY <2>5, <2>6 DEF ColumnAgrees
  <2>8. SizesSuffice(d)
    BY SizesDoSuffice
  <2>. QED
    BY <2>7, <2>8 DEF SizesSuffice, Fits, ColumnUtf8NameSize, ColumnUtf8Name, ColumnUtf16NameSize,
         ColumnUtf16Name, RecordUtf8NameSize, RecordUtf8Name, RecordUtf16NameSize, RecordUtf16Name
<1>. QED
  BY <1>3, <1>4, <1>5 DEF NamesFit

-----------------------------------------------------------------------------
(***************************************************************************)
(* What a row adds to the reference, when it comes behind all the others.  *)
(***************************************************************************)
IsLast(places, p) ==
  /\ IsFiniteSet(places) /\ places \subseteq Nat \X Nat /\ p \in Nat \X Nat
  /\ \A q \in places : Before(q, p)

Adds(places, p, more) == IsLast(places, p) /\ more = places \cup {p}

LEMMA OrderOfPlaces ==
  ASSUME NEW p \in Nat \X Nat, NEW q \in Nat \X Nat, Before(q, p)
  PROVE  ~ Before(p, q) /\ ~ Before(p, p) /\ p # q
BY DEF Before

LEMMA LastIsNew ==
  ASSUME NEW places, NEW p, IsLast(places, p)
  PROVE  p \notin places /\ ~ Before(p, p)
<1>1. p \in Nat \X Nat /\ ~ Before(p, p)
  BY DEF IsLast, Before
<1>. QED
  BY <1>1 DEF IsLast

LEMMA PartBehind ==
  ASSUME NEW places, NEW p, IsLast(places, p), NEW part \in SUBSET places
  PROVE  IsLast(part, p) /\ IsFiniteSet(part) /\ Cardinality(part) \in Nat
<1>1. IsFiniteSet(part)
  BY FS_Subset DEF IsLast
<1>. QED
  BY <1>1, FS_CardinalityType DEF IsLast

LEMMA UpToBehind ==
  ASSUME NEW places, NEW p, IsLast(places, p)
  PROVE  /\ UpTo(places \cup {p}, p) = places \cup {p}
         /\ Cardinality(places \cup {p}) = Cardinality(places) + 1
<1>1. \A q \in places : ~ Before(p, q)
  BY OrderOfPlaces DEF IsLast
<1>2. p \notin places /\ ~ Before(p, p)
  BY LastIsNew
<1>3. UpTo(places \cup {p}, p) = places \cup {p}
  BY <1>1, <1>2 DEF UpTo
<1>4. Cardinality(places \cup {p}) = Cardinality(places) + 1
  BY <1>2, FS_AddElement DEF IsLast
<1>. QED
  BY <1>3, <1>4

LEMMA UpToStays ==
  ASSUME NEW places, NEW p, NEW q, Before(q, p)
  PROVE  UpTo(places \cup {p}, q) = UpTo(places, q)
BY DEF UpTo

LEMMA UpToIsPart ==
  ASSUME NEW places, IsFiniteSet(places), NEW q
  PROVE  /\ Cardinality(UpTo(places, q)) \in 0..Cardinality(places)
         /\ q \in places /\ ~ Before(q, q) => Cardinality(UpTo(places, q)) # 0
<1>1. UpTo(places, q) \in SUBSET places
  BY DEF UpTo
<1>2. IsFiniteSet(UpTo(places, q)) /\ Cardinality(UpTo(places, q)) <= Cardinality(places)
  BY <1>1, FS_Subset
<1>3. Cardinality(UpTo(places, q)) \in Nat /\ Cardinality(places) \in Nat
  BY <1>2, FS_CardinalityType
<1>4. q \in places /\ ~ Before(q, q) => UpTo(places, q) # {}
  BY DEF UpTo
<1>. QED
  BY <1>2, <1>3, <1>4, FS_EmptySet

LEMMA TypeBehind ==
  ASSUME NEW read, NEW places, NEW p, NEW type, NEW more, more = places \cup {p}
  PROVE  /\ read[p].type = type => OfType(read, more, type) = OfType(read, places, type) \cup {p}
         /\ read[p].type # type => OfType(read, more, type) = OfType(read, places, type)
BY DEF OfType

LEMMA TableBehind ==
  ASSUME NEW read, NEW places, NEW p, NEW more, Adds(places, p, more)
  PROVE  TableOf(read, more, p) = Cardinality(OfType(read, more, Table))
<1>. more = places \cup {p} /\ IsLast(places, p)
  BY DEF Adds
<1>1. DEFINE before == OfType(read, places, Table)
             after == OfType(read, more, Table)
<1>2. before \in SUBSET places /\ (after = before \cup {p} \/ after = before)
  BY TypeBehind DEF OfType
<1>3. IsLast(before, p)
  BY <1>2, PartBehind
<1>4. \A q \in before : ~ Before(p, q)
  BY <1>3, OrderOfPlaces DEF IsLast
<1>5. UpTo(before, p) = before
  BY <1>4 DEF UpTo
<1>6. UpTo(before \cup {p}, p) = before \cup {p}
  <2>. HIDE DEF before
  <2>. QED
    BY <1>3, UpToBehind
<1>7. UpTo(after, p) = after
  <2>. HIDE DEF before, after
  <2>. QED
    BY <1>2, <1>5, <1>6
<1>. QED
  BY <1>7 DEF TableOf

LEMMA TableStays ==
  ASSUME NEW read, NEW places, NEW p, NEW more, Adds(places, p, more), NEW q \in places
  PROVE  TableOf(read, more, q) = TableOf(read, places, q)
<1>. more = places \cup {p} /\ IsLast(places, p)
  BY DEF Adds
<1>1. DEFINE before == OfType(read, places, Table)
             after == OfType(read, more, Table)
<1>2. before \in SUBSET places /\ (after = before \cup {p} \/ after = before)
  BY TypeBehind DEF OfType
<1>3. IsLast(before, p)
  BY <1>2, PartBehind
<1>4. Before(q, p)
  BY DEF IsLast
<1>5. UpTo(before \cup {p}, q) = UpTo(before, q)
  <2>. HIDE DEF before
  <2>. QED
    BY <1>4, UpToStays
<1>6. UpTo(after, q) = UpTo(before, q)
  <2>. HIDE DEF before, after
  <2>. QED
    BY <1>2, <1>5
<1>. QED
  BY <1>6 DEF TableOf

LEMMA RowsBehind ==
  ASSUME NEW read, NEW places, NEW p, NEW more, Adds(places, p, more),
         NEW k, NEW type
  PROVE  /\ read[p].type = type /\ TableOf(read, more, p) = k =>
              RowsOfTable(read, more, k, type) = RowsOfTable(read, places, k, type) \cup {p}
         /\ read[p].type # type \/ TableOf(read, more, p) # k =>
              RowsOfTable(read, more, k, type) = RowsOfTable(read, places, k, type)
<1>1. \A q \in places : TableOf(read, more, q) = TableOf(read, places, q)
  BY TableStays
<1>2. more = places \cup {p} /\ p \notin places
  BY LastIsNew DEF Adds
<1>. QED
  BY <1>1, <1>2 DEF RowsOfTable, OfType

IsOf(read, p, type) == read[p].type = type

LEMMA OtherRows ==
  ASSUME NEW read, NEW places, NEW p, NEW more, Adds(places, p, more), NEW k, NEW type,
         ~ IsOf(read, p, type)
  PROVE  RowsOfTable(read, more, k, type) = RowsOfTable(read, places, k, type)
<1>1. \A q \in places : TableOf(read, more, q) = TableOf(read, places, q)
  BY TableStays
<1>2. more = places \cup {p}
  BY DEF Adds
<1>. QED
  BY <1>1, <1>2 DEF RowsOfTable, OfType, IsOf

LEMMA NumberOfTable ==
  ASSUME NEW read, NEW places, IsFiniteSet(places), NEW q
  PROVE  /\ TableOf(read, places, q) \in 0..Cardinality(OfType(read, places, Table))
         /\ Cardinality(OfType(read, places, Table)) \in Nat
<1>1. OfType(read, places, Table) \in SUBSET places
  BY DEF OfType
<1>2. IsFiniteSet(OfType(read, places, Table))
  BY <1>1, FS_Subset
<1>. QED
  BY <1>2, UpToIsPart, FS_CardinalityType DEF TableOf

(***************************************************************************)
(* A list of the rows of a type is one with the next such row at its end.  *)
(***************************************************************************)
LEMMA ListGrows ==
  ASSUME NEW S, NEW list \in Seq(S), NEW read, NEW places, NEW p, IsLast(places, p),
         read[p] \in S, IsListOf(list, read, places)
  PROVE  IsListOf(Append(list, read[p]), read, places \cup {p})
<1>1. PICK n \in Nat : n = Len(list) /\ n = Cardinality(places)
  BY LenProperties DEF IsListOf
<1>2. PICK longer : longer = Append(list, read[p])
  OBVIOUS
<1>3. Len(longer) = n + 1 /\ longer[n + 1] = read[p] /\ \A i \in 1..n : longer[i] = list[i]
  <2>1. PICK d \in S : d = read[p]
    OBVIOUS
  <2>2. /\ Len(Append(list, d)) = Len(list) + 1 /\ Append(list, d)[Len(list) + 1] = d
        /\ \A i \in 1..Len(list) : Append(list, d)[i] = list[i]
    BY AppendProperties
  <2>3. /\ Len(Append(list, d)) = n + 1 /\ Append(list, d)[n + 1] = d
        /\ \A i \in 1..n : Append(list, d)[i] = list[i]
    BY <1>1, <2>2, Zenon
  <2>. QED
    BY <1>2, <2>1, <2>3
<1>4. ASSUME NEW q \in places
      PROVE  longer[Cardinality(UpTo(places \cup {p}, q))] = read[q]
  <2>1. Before(q, p) /\ ~ Before(q, q)
    BY DEF IsLast, Before
  <2>2. UpTo(places \cup {p}, q) = UpTo(places, q)
    BY <2>1, UpToStays
  <2>3. Cardinality(UpTo(places, q)) \in 0..n /\ Cardinality(UpTo(places, q)) # 0
    <3>1. IsFiniteSet(places)
      BY DEF IsLast
    <3>2. /\ Cardinality(UpTo(places, q)) \in 0..Cardinality(places)
          /\ Cardinality(UpTo(places, q)) # 0
      BY <2>1, <3>1, UpToIsPart
    <3>. QED
      BY <1>1, <3>2
  <2>4. PICK i \in 1..n : i = Cardinality(UpTo(places, q))
    <3>1. PICK c \in 0..n : c = Cardinality(UpTo(places, q))
      BY <2>3
    <3>2. c # 0
      BY <2>3, <3>1
    <3>3. c \in 1..n
      BY <3>2
    <3>. QED
      BY <3>1, <3>3
  <2>5. list[i] = read[q]
    BY <2>4 DEF IsListOf
  <2>. QED
    BY <1>3, <2>2, <2>4, <2>5
<1>5. longer[Cardinality(UpTo(places \cup {p}, p))] = read[p]
  <2>1. /\ UpTo(places \cup {p}, p) = places \cup {p}
        /\ Cardinality(places \cup {p}) = Cardinality(places) + 1
    BY UpToBehind
  <2>2. Cardinality(UpTo(places \cup {p}, p)) = n + 1
    BY <1>1, <2>1, Zenon
  <2>. QED
    BY <1>3, <2>2
<1>6. Len(longer) = Cardinality(places \cup {p})
  BY <1>1, <1>3, UpToBehind
<1>. QED
  BY <1>2, <1>4, <1>5, <1>6 DEF IsListOf

(***************************************************************************)
(* The tables with the next row, of each type.                             *)
(***************************************************************************)
LEMMA SameTable ==
  ASSUME NEW read, NEW places, NEW more, NEW k, NEW entry,
         \A type \in {ColumnType, Index, LongValue, Callback} :
           RowsOfTable(read, more, k, type) = RowsOfTable(read, places, k, type),
         IsTableOf(entry, k, read, places)
  PROVE  IsTableOf(entry, k, read, more)
BY DEF IsTableOf

LEMMA NumberOfLast ==
  ASSUME NEW read, NEW places, NEW p, NEW more, Adds(places, p, more),
         read[p].type # Table
  PROVE  /\ OfType(read, more, Table) = OfType(read, places, Table)
         /\ TableOf(read, more, p) = Cardinality(OfType(read, places, Table))
<1>1. OfType(read, more, Table) = OfType(read, places, Table)
  BY TypeBehind DEF Adds
<1>. QED
  BY <1>1, TableBehind

LEMMA TableIsMade ==
  ASSUME NEW entries \in Seq(Entries), NEW read, NEW places, NEW p, NEW more, Adds(places, p, more),
         read[p] \in ReadDefinitions, read[p].type = Table, AreTablesOf(entries, read, places)
  PROVE  AreTablesOf(Append(entries, NewTable(read[p])), read, more)
<1>. IsLast(places, p) /\ more = places \cup {p}
  BY DEF Adds
<1>1. PICK n \in Nat : n = Len(entries) /\ n = Cardinality(OfType(read, places, Table))
  BY LenProperties DEF AreTablesOf
<1>2. PICK made : made = Append(entries, NewTable(read[p]))
  OBVIOUS
<1>3. /\ Len(made) = n + 1 /\ made[n + 1] = NewTable(read[p])
      /\ \A k \in 1..n : made[k] = entries[k]
  <2>1. NewTable(read[p]) \in Entries
    BY NewTableIsEntry
  <2>2. /\ Len(made) = Len(entries) + 1 /\ made[Len(entries) + 1] = NewTable(read[p])
        /\ \A k \in 1..Len(entries) : made[k] = entries[k]
    BY <1>2, <2>1, AppendProperties
  <2>. QED
    BY <1>1, <2>2, Zenon
<1>4. DEFINE before == OfType(read, places, Table)
             after == OfType(read, more, Table)
<1>5. after = before \cup {p} /\ before \in SUBSET places
  BY TypeBehind DEF OfType
<1>6. IsLast(before, p)
  BY <1>5, PartBehind
<1>7. Cardinality(after) = n + 1
  <2>. HIDE DEF before, after
  <2>1. Cardinality(before) = n
    BY <1>1 DEF before
  <2>. QED
    BY <1>5, <1>6, <2>1, UpToBehind
<1>8. TableOf(read, more, p) = n + 1
  BY <1>7, TableBehind
<1>9. ASSUME NEW q \in after
      PROVE  made[TableOf(read, more, q)].definition = read[q]
  <2>1. CASE q = p
    BY <1>3, <1>8, <2>1 DEF NewTable
  <2>2. CASE q \in before
    <3>1. q \in places /\ Before(q, q) = FALSE
      BY <1>5, <2>2 DEF IsLast, Before
    <3>2. TableOf(read, more, q) = TableOf(read, places, q)
      BY <3>1, TableStays
    <3>3. TableOf(read, places, q) \in 1..n
      <4>1. IsFiniteSet(before)
        BY <1>6 DEF IsLast
      <4>2. Cardinality(UpTo(before, q)) \in 0..Cardinality(before)
            /\ Cardinality(UpTo(before, q)) # 0
        BY <2>2, <3>1, <4>1, UpToIsPart
      <4>. QED
        BY <1>1, <4>2 DEF TableOf
    <3>4. entries[TableOf(read, places, q)].definition = read[q]
      BY <2>2 DEF AreTablesOf
    <3>. QED
      BY <1>3, <3>2, <3>3, <3>4
  <2>. QED
    BY <1>5, <2>1, <2>2
<1>10. ASSUME NEW k, NEW type, ~ IsOf(read, p, type)
       PROVE  RowsOfTable(read, more, k, type) = RowsOfTable(read, places, k, type)
  BY <1>10, OtherRows
<1>11. \A type \in {ColumnType, Index, LongValue, Callback} : ~ IsOf(read, p, type)
  BY DEF IsOf, Table, ColumnType, Index, LongValue, Callback
<1>12. \A k \in 1..n : IsTableOf(made[k], k, read, more)
  BY <1>1, <1>3, <1>10, <1>11, SameTable DEF AreTablesOf
<1>13. \A type : RowsOfTable(read, places, n + 1, type) = {}
  <2>1. \A q : TableOf(read, places, q) \in 0..n
    BY <1>1, NumberOfTable DEF IsLast
  <2>. QED
    BY <2>1 DEF RowsOfTable
<1>14. IsTableOf(made[n + 1], n + 1, read, more)
  <2>1. \A type \in {ColumnType, Index, LongValue, Callback} :
          RowsOfTable(read, more, n + 1, type) = {}
    BY <1>10, <1>11, <1>13
  <2>2. IsListOf(<<>>, read, {})
    BY FS_EmptySet DEF IsListOf
  <2>3. \A type : IsSingleOf([t \in {} |-> read[p]], type, read, {})
    BY DEF IsSingleOf
  <2>4. PICK entry : entry = made[n + 1]
    OBVIOUS
  <2>5. /\ entry.columns = <<>> /\ entry.indexes = <<>>
        /\ entry.single = [t \in {} |-> read[p]]
    BY <1>3, <2>4 DEF NewTable
  <2>6. IsTableOf(entry, n + 1, read, more)
    BY <2>1, <2>2, <2>3, <2>5, Zenon DEF IsTableOf
  <2>. QED
    BY <2>4, <2>6
<1>15. \A k \in 1..(n + 1) : IsTableOf(made[k], k, read, more)
  <2>1. \A k \in 1..(n + 1) : k \in 1..n \/ k = n + 1
    OBVIOUS
  <2>. QED
    BY <1>12, <1>14, <2>1, Zenon
<1>. QED
  BY <1>2, <1>3, <1>7, <1>9, <1>15 DEF AreTablesOf

LEMMA LastTableIsMade ==
  ASSUME NEW entries \in Seq(Entries), NEW made, NEW entry, NEW n \in Nat \ {0},
         n = Len(entries), Len(made) = n,
         \A k \in 1..n : made[k] = IF k = n THEN entry ELSE entries[k],
         entry.definition = entries[n].definition,
         NEW read, NEW places, NEW p, NEW more, Adds(places, p, more),
         read[p].type # Table,
         AreTablesOf(entries, read, places), IsTableOf(entry, n, read, more)
  PROVE  AreTablesOf(made, read, more)
<1>. IsLast(places, p) /\ more = places \cup {p}
  BY DEF Adds
<1>1. /\ OfType(read, more, Table) = OfType(read, places, Table)
      /\ TableOf(read, more, p) = n
  BY NumberOfLast DEF AreTablesOf
<1>2. ASSUME NEW q \in OfType(read, places, Table)
      PROVE  made[TableOf(read, more, q)].definition = read[q]
  <2>1. q \in places /\ ~ Before(q, q)
    BY DEF IsLast, Before, OfType
  <2>2. TableOf(read, more, q) = TableOf(read, places, q)
    BY <2>1, TableStays
  <2>3. TableOf(read, places, q) \in 1..n
    <3>1. OfType(read, places, Table) \in SUBSET places
      BY DEF OfType
    <3>2. IsFiniteSet(OfType(read, places, Table))
      BY <3>1, PartBehind
    <3>. QED
      BY <2>1, <3>2, UpToIsPart DEF TableOf, AreTablesOf
  <2>4. entries[TableOf(read, places, q)].definition = read[q]
    BY DEF AreTablesOf
  <2>. QED
    BY <2>2, <2>3, <2>4
<1>3. ASSUME NEW k \in 1..n
      PROVE  IsTableOf(made[k], k, read, more)
  <2>1. CASE k = n
    BY <2>1
  <2>2. CASE k # n
    <3>1. IsTableOf(entries[k], k, read, places) /\ made[k] = entries[k]
      BY <2>2 DEF AreTablesOf
    <3>2. \A type : RowsOfTable(read, more, k, type) = RowsOfTable(read, places, k, type)
      BY <1>1, <2>2, RowsBehind
    <3>. QED
      BY <3>1, <3>2, SameTable
  <2>. QED
    BY <2>1, <2>2
<1>. QED
  BY <1>1, <1>2, <1>3 DEF AreTablesOf

LEMMA RowIsPassed ==
  ASSUME NEW entries \in Seq(Entries), NEW read, NEW places, NEW p, NEW more, Adds(places, p, more),
         read[p].type # Table, AreTablesOf(entries, read, places),
         entries = <<>> \/ read[p].type \notin {ColumnType, Index, LongValue, Callback}
  PROVE  AreTablesOf(entries, read, more)
<1>. IsLast(places, p) /\ more = places \cup {p}
  BY DEF Adds
<1>1. PICK n \in Nat : n = Len(entries)
  BY LenProperties
<1>2. CASE n = 0
  <2>1. OfType(read, places, Table) = {}
    <3>1. OfType(read, places, Table) \in SUBSET places
      BY DEF OfType
    <3>2. IsFiniteSet(OfType(read, places, Table))
      BY <3>1, PartBehind
    <3>. QED
      BY <1>1, <1>2, <3>2, FS_EmptySet DEF AreTablesOf
  <2>2. OfType(read, more, Table) = {}
    BY <2>1, NumberOfLast
  <2>. QED
    <3>1. Cardinality(OfType(read, more, Table)) = 0
      BY <2>2, FS_EmptySet
    <3>2. \A k \in 1..0 : FALSE
      OBVIOUS
    <3>3. \A k \in 1..Len(entries) : FALSE
      BY <1>1, <1>2, <3>2, Zenon
    <3>4. Len(entries) = 0
      BY <1>1, <1>2
    <3>. QED
      BY <2>2, <3>1, <3>3, <3>4, Zenon DEF AreTablesOf
<1>3. CASE n # 0
  <2>1. IsTableOf(entries[n], n, read, places)
    BY <1>1, <1>3 DEF AreTablesOf
  <2>2. entries # <<>>
    BY <1>1, <1>3
  <2>3. \A type \in {ColumnType, Index, LongValue, Callback} :
          RowsOfTable(read, more, n, type) = RowsOfTable(read, places, n, type)
    <3>1. ASSUME NEW type, ~ IsOf(read, p, type)
          PROVE  RowsOfTable(read, more, n, type) = RowsOfTable(read, places, n, type)
      BY <3>1, OtherRows
    <3>. QED
      BY <2>2, <3>1, Zenon DEF IsOf
  <2>4. IsTableOf(entries[n], n, read, more)
    BY <2>1, <2>3, SameTable
  <2>. QED
    BY <1>1, <1>3, <2>4, LastTableIsMade
<1>. QED
  BY <1>2, <1>3

LEMMA NewRows ==
  ASSUME NEW read, NEW places, NEW p, NEW more, Adds(places, p, more), NEW k, NEW type,
         IsOf(read, p, type), TableOf(read, more, p) = k
  PROVE  /\ RowsOfTable(read, more, k, type) = RowsOfTable(read, places, k, type) \cup {p}
         /\ IsLast(RowsOfTable(read, places, k, type), p)
<1>1. \A q \in places : TableOf(read, more, q) = TableOf(read, places, q)
  BY TableStays
<1>2. more = places \cup {p} /\ IsLast(places, p)
  BY DEF Adds
<1>3. RowsOfTable(read, places, k, type) \in SUBSET places
  BY DEF RowsOfTable, OfType
<1>. QED
  BY <1>1, <1>2, <1>3, PartBehind DEF RowsOfTable, OfType, IsOf

LEMMA ColumnOfTable ==
  ASSUME NEW read, NEW places, NEW p, NEW more, Adds(places, p, more), NEW k,
         NEW entry \in Entries, IsTableOf(entry, k, read, places), read[p] \in ReadDefinitions,
         IsOf(read, p, ColumnType), TableOf(read, more, p) = k
  PROVE  IsTableOf([entry EXCEPT !.columns = Append(entry.columns, read[p])], k, read, more)
<1>1. PICK columns \in Seq(ReadDefinitions) : columns = entry.columns
  BY DEF Entries
<1>2. DEFINE rows == RowsOfTable(read, places, k, ColumnType)
<1>3. RowsOfTable(read, more, k, ColumnType) = rows \cup {p} /\ IsLast(rows, p)
  BY NewRows
<1>4. IsListOf(columns, read, rows)
  BY <1>1 DEF IsTableOf
<1>5. IsListOf(Append(columns, read[p]), read, rows \cup {p})
  <2>. HIDE DEF rows
  <2>. QED
    BY <1>3, <1>4, ListGrows
<1>6. \A type \in {Index, LongValue, Callback} : ~ IsOf(read, p, type)
  BY DEF IsOf, ColumnType, Index, LongValue, Callback
<1>7. \A type \in {Index, LongValue, Callback} :
        RowsOfTable(read, more, k, type) = RowsOfTable(read, places, k, type)
  BY <1>6, OtherRows
<1>8. PICK other : other = [entry EXCEPT !.columns = Append(entry.columns, read[p])]
  OBVIOUS
<1>9. /\ other.columns = Append(columns, read[p])
      /\ other.indexes = entry.indexes /\ other.single = entry.single
  BY <1>1, <1>8 DEF Entries
<1>10. IsTableOf(other, k, read, more)
  BY <1>3, <1>5, <1>7, <1>9, Zenon DEF IsTableOf
<1>. QED
  BY <1>8, <1>10

LEMMA IndexOfTable ==
  ASSUME NEW read, NEW places, NEW p, NEW more, Adds(places, p, more), NEW k,
         NEW entry \in Entries, IsTableOf(entry, k, read, places), read[p] \in ReadDefinitions,
         IsOf(read, p, Index), TableOf(read, more, p) = k
  PROVE  IsTableOf([entry EXCEPT !.indexes = Append(entry.indexes, read[p])], k, read, more)
<1>1. PICK indexes \in Seq(ReadDefinitions) : indexes = entry.indexes
  BY DEF Entries
<1>2. DEFINE rows == RowsOfTable(read, places, k, Index)
<1>3. RowsOfTable(read, more, k, Index) = rows \cup {p} /\ IsLast(rows, p)
  BY NewRows
<1>4. IsListOf(indexes, read, rows)
  BY <1>1 DEF IsTableOf
<1>5. IsListOf(Append(indexes, read[p]), read, rows \cup {p})
  <2>. HIDE DEF rows
  <2>. QED
    BY <1>3, <1>4, ListGrows
<1>6. \A type \in {ColumnType, LongValue, Callback} : ~ IsOf(read, p, type)
  BY DEF IsOf, ColumnType, Index, LongValue, Callback
<1>7. \A type \in {ColumnType, LongValue, Callback} :
        RowsOfTable(read, more, k, type) = RowsOfTable(read, places, k, type)
  BY <1>6, OtherRows
<1>8. PICK other : other = [entry EXCEPT !.indexes = Append(entry.indexes, read[p])]
  OBVIOUS
<1>9. /\ other.indexes = Append(indexes, read[p])
      /\ other.columns = entry.columns /\ other.single = entry.single
  BY <1>1, <1>8 DEF Entries
<1>10. IsTableOf(other, k, read, more)
  BY <1>3, <1>5, <1>7, <1>9, Zenon DEF IsTableOf
<1>. QED
  BY <1>8, <1>10

LEMMA SingleOfTable ==
  ASSUME NEW read, NEW places, NEW p, NEW more, Adds(places, p, more), NEW k,
         NEW entry \in Entries, IsTableOf(entry, k, read, places),
         NEW type \in {LongValue, Callback}, IsOf(read, p, type), TableOf(read, more, p) = k,
         type \notin DOMAIN entry.single
  PROVE  IsTableOf([entry EXCEPT !.single = WithSingle(entry.single, type, read[p])], k, read, more)
<1>1. DEFINE rows(t) == RowsOfTable(read, places, k, t)
<1>2. RowsOfTable(read, more, k, type) = rows(type) \cup {p}
  BY NewRows
<1>3. \A t \in {ColumnType, Index, LongValue, Callback} : t # type => ~ IsOf(read, p, t)
  BY DEF IsOf, ColumnType, Index, LongValue, Callback
<1>4. \A t \in {ColumnType, Index, LongValue, Callback} :
        t # type => RowsOfTable(read, more, k, t) = rows(t)
  BY <1>3, OtherRows
<1>5. PICK single : single = WithSingle(entry.single, type, read[p])
  OBVIOUS
<1>6. /\ DOMAIN single = DOMAIN entry.single \cup {type} /\ single[type] = read[p]
      /\ \A t \in DOMAIN entry.single : t # type => single[t] = entry.single[t]
  BY <1>5 DEF WithSingle
<1>7. \A t \in {LongValue, Callback} : IsSingleOf(entry.single, t, read, rows(t))
  BY DEF IsTableOf
<1>8. rows(type) = {}
  BY <1>7 DEF IsSingleOf
<1>9. IsSingleOf(single, type, read, RowsOfTable(read, more, k, type))
  BY <1>2, <1>6, <1>8 DEF IsSingleOf
<1>10. ASSUME NEW t \in {LongValue, Callback}, t # type
       PROVE  IsSingleOf(single, t, read, RowsOfTable(read, more, k, t))
  <2>1. RowsOfTable(read, more, k, t) = rows(t)
    BY <1>4, <1>10
  <2>2. IsSingleOf(single, t, read, rows(t))
    BY <1>6, <1>7, <1>10 DEF IsSingleOf
  <2>. QED
    BY <2>1, <2>2
<1>11. \A t \in {LongValue, Callback} : IsSingleOf(single, t, read, RowsOfTable(read, more, k, t))
  BY <1>9, <1>10, Zenon
<1>12. PICK other : other = [entry EXCEPT !.single = single]
  OBVIOUS
<1>13. other.columns = entry.columns /\ other.indexes = entry.indexes /\ other.single = single
  BY <1>12 DEF Entries
<1>14. ColumnType # type /\ Index # type
  BY DEF ColumnType, Index, LongValue, Callback
<1>15. /\ IsListOf(other.columns, read, RowsOfTable(read, more, k, ColumnType))
       /\ IsListOf(other.indexes, read, RowsOfTable(read, more, k, Index))
  BY <1>4, <1>13, <1>14, Zenon DEF IsTableOf
<1>16. IsTableOf(other, k, read, more)
  BY <1>11, <1>13, <1>15, Zenon DEF IsTableOf
<1>. QED
  BY <1>5, <1>12, <1>16

LEMMA LastIsMade ==
  ASSUME Kept, tables # <<>>, NEW entry \in Entries,
         tables' = [tables EXCEPT ![Len(tables)] = entry],
         NEW read, NEW places, NEW p, NEW more, Adds(places, p, more), ~ IsOf(read, p, Table),
         AreTablesOf(tables, read, places), entry.definition = tables[Len(tables)].definition,
         IsTableOf(entry, Len(tables), read, more)
  PROVE  AreTablesOf(tables', read, more)
<1>1. PICK n \in Nat \ {0} : n = Len(tables)
  BY LastTable, EmptySeq DEF Kept
<1>2. tables \in Seq(Entries)
  BY DEF Kept
<1>3. PICK made : made = tables'
  OBVIOUS
<1>4. Len(made) = n /\ \A k \in 1..n : made[k] = IF k = n THEN entry ELSE tables[k]
  BY <1>1, <1>2, <1>3, ExceptSeq
<1>5. read[p].type # Table
  BY DEF IsOf
<1>6. AreTablesOf(made, read, more)
  BY <1>1, <1>2, <1>4, <1>5, LastTableIsMade, Zenon
<1>. QED
  BY <1>3, <1>6

LEMMA LastTableIs ==
  ASSUME Kept, tables # <<>>, NEW read, NEW places, NEW p, NEW more, Adds(places, p, more),
         ~ IsOf(read, p, Table), AreTablesOf(tables, read, places)
  PROVE  /\ tables[Len(tables)] \in Entries
         /\ IsTableOf(tables[Len(tables)], Len(tables), read, places)
         /\ TableOf(read, more, p) = Len(tables)
<1>1. Len(tables) \in 1..Len(tables) /\ tables[Len(tables)] \in Entries
  BY LastTable
<1>2. IsTableOf(tables[Len(tables)], Len(tables), read, places)
  BY <1>1 DEF AreTablesOf
<1>3. TableOf(read, more, p) = Cardinality(OfType(read, places, Table))
  BY NumberOfLast, Zenon DEF IsOf
<1>. QED
  BY <1>1, <1>2, <1>3 DEF AreTablesOf

LEMMA ColumnIsMade ==
  ASSUME Kept, tables # <<>>, NEW read, NEW places, NEW p, NEW more, Adds(places, p, more),
         AreTablesOf(tables, read, places), read[p] \in ReadDefinitions, IsOf(read, p, ColumnType),
         AppendColumn(read[p])
  PROVE  AreTablesOf(tables', read, more)
<1>1. ~ IsOf(read, p, Table)
  BY DEF IsOf, ColumnType, Table
<1>2. PICK entry \in Entries : entry = tables[Len(tables)]
  BY LastTable
<1>3. IsTableOf(entry, Len(tables), read, places) /\ TableOf(read, more, p) = Len(tables)
  BY <1>1, <1>2, LastTableIs
<1>4. PICK other : other = [entry EXCEPT !.columns = Append(entry.columns, read[p])]
  OBVIOUS
<1>5. other \in Entries /\ other.definition = entry.definition
  BY <1>4, AppendProperties DEF Entries
<1>6. IsTableOf(other, Len(tables), read, more)
  BY <1>3, <1>4, ColumnOfTable
<1>7. tables' = [tables EXCEPT ![Len(tables)] = other]
  BY <1>2, <1>4 DEF AppendColumn
<1>. QED
  BY <1>1, <1>2, <1>5, <1>6, <1>7, LastIsMade

LEMMA IndexIsMade ==
  ASSUME Kept, tables # <<>>, NEW read, NEW places, NEW p, NEW more, Adds(places, p, more),
         AreTablesOf(tables, read, places), read[p] \in ReadDefinitions, IsOf(read, p, Index),
         AppendIndex(read[p])
  PROVE  AreTablesOf(tables', read, more)
<1>1. ~ IsOf(read, p, Table)
  BY DEF IsOf, Index, Table
<1>2. PICK entry \in Entries : entry = tables[Len(tables)]
  BY LastTable
<1>3. IsTableOf(entry, Len(tables), read, places) /\ TableOf(read, more, p) = Len(tables)
  BY <1>1, <1>2, LastTableIs
<1>4. PICK other : other = [entry EXCEPT !.indexes = Append(entry.indexes, read[p])]
  OBVIOUS
<1>5. other \in Entries /\ other.definition = entry.definition
  BY <1>4, AppendProperties DEF Entries
<1>6. IsTableOf(other, Len(tables), read, more)
  BY <1>3, <1>4, IndexOfTable
<1>7. tables' = [tables EXCEPT ![Len(tables)] = other]
  BY <1>2, <1>4 DEF AppendIndex
<1>. QED
  BY <1>1, <1>2, <1>5, <1>6, <1>7, LastIsMade

LEMMA SingleIsMade ==
  ASSUME Kept, tables # <<>>, NEW read, NEW places, NEW p, NEW more, Adds(places, p, more),
         AreTablesOf(tables, read, places), read[p] \in ReadDefinitions,
         NEW type \in {LongValue, Callback}, IsOf(read, p, type), ~ HasSingle(type),
         tables' = [tables EXCEPT ![Len(tables)].single = WithSingle(@, type, read[p])]
  PROVE  AreTablesOf(tables', read, more)
<1>1. ~ IsOf(read, p, Table)
  BY DEF IsOf, LongValue, Callback, Table
<1>2. PICK entry \in Entries : entry = tables[Len(tables)]
  BY LastTable
<1>3. IsTableOf(entry, Len(tables), read, places) /\ TableOf(read, more, p) = Len(tables)
  BY <1>1, <1>2, LastTableIs
<1>4. PICK other : other = [entry EXCEPT !.single = WithSingle(entry.single, type, read[p])]
  OBVIOUS
<1>5. other \in Entries /\ other.definition = entry.definition
  BY <1>4, SinglesGrow DEF Entries
<1>6. IsTableOf(other, Len(tables), read, more)
  BY <1>2, <1>3, <1>4, SingleOfTable DEF HasSingle
<1>7. tables' = [tables EXCEPT ![Len(tables)] = other]
  BY <1>2, <1>4
<1>. QED
  BY <1>1, <1>2, <1>5, <1>6, <1>7, LastIsMade

-----------------------------------------------------------------------------
(***************************************************************************)
(* The places of a walk in the order in which it comes to them.            *)
(***************************************************************************)
PlacesBefore(pages, n, r) == {p \in Places(pages) : Before(p, <<n, r>>)}

LEMMA SameWalks ==
  ASSUME UNCHANGED <<file, stray>>
  PROVE  /\ \A name : Walks(name)' = Walks(name)
         /\ \A pages : Places(pages)' = Places(pages) /\ ReadAt(pages)' = ReadAt(pages)
         /\ \A name, pages, n : PageAt(name, pages, n)' = PageAt(name, pages, n)
<1>1. PageLists' = PageLists
  BY DEF PageLists
<1>2. \A name, pages, n : PageAt(name, pages, n)' = PageAt(name, pages, n)
  BY DEF PageAt
<1>3. \A name, pages : IsWalk(name, pages)' <=> IsWalk(name, pages)
  BY DEF IsWalk, PageAt
<1>4. \A name : Walks(name)' = Walks(name)
  BY <1>1, <1>3 DEF Walks
<1>5. \A pages, n : RowsAt(pages, n)' = RowsAt(pages, n)
  BY DEF RowsAt
<1>6. \A pages, n : PlacesOn(pages, n)' = PlacesOn(pages, n)
  BY DEF PlacesOn, RowsAt
<1>7. \A pages : Places(pages)' = Places(pages)
  BY <1>6 DEF Places
<1>8. ASSUME NEW pages
      PROVE  ReadAt(pages)' = ReadAt(pages)
  <2>1. \A value : DefinitionOf(value)' = DefinitionOf(value)
    BY DEF DefinitionOf
  <2>. QED
    BY <1>5, <1>7, <2>1 DEF ReadAt
<1>. QED
  BY <1>2, <1>4, <1>7, <1>8

LEMMA WalkIs ==
  ASSUME NEW name, NEW pages \in Walks(name)
  PROVE  /\ Len(pages) \in Nat
         /\ \A n \in 1..Len(pages) :
              pages[n] # 0 /\ pages[n] \in DOMAIN file.pages /\ pages[n] = PageAt(name, pages, n)
         /\ PageAt(name, pages, Len(pages) + 1) = 0
<1>1. DEFINE numbers == DOMAIN file.pages \ {0}
<1>2. PICK n \in 0..Cardinality(numbers) : pages \in [1..n -> numbers]
  BY DEF Walks, PageLists
<1>3. n \in Nat
  OBVIOUS
<1>4. pages \in Seq(numbers)
  <2>. HIDE DEF numbers
  <2>. QED
    BY <1>2, <1>3, SeqDef
<1>5. Len(pages) \in Nat /\ \A i \in 1..Len(pages) : pages[i] \in numbers
  <2>. HIDE DEF numbers
  <2>. QED
    BY <1>4, LenProperties, ElementOfSeq
<1>. QED
  BY <1>5 DEF Walks, IsWalk

LEMMA RowsOfPage ==
  ASSUME Walked, NEW name, NEW pages \in Walks(name), NEW n \in 1..Len(pages)
  PROVE  Len(RowsAt(pages, n)) \in Nat /\ DOMAIN RowsAt(pages, n) = 1..Len(RowsAt(pages, n))
<1>1. pages[n] \in DOMAIN file.pages
  BY WalkIs
<1>. QED
  BY <1>1, FilesAssumption DEF Walked, RowsAt, IsSequence

LEMMA PlaceIs ==
  ASSUME Walked, NEW name, NEW pages \in Walks(name)
  PROVE  /\ \A p \in Places(pages) :
              /\ p = <<p[1], p[2]>> /\ p \in Nat \X Nat
              /\ p[1] \in 1..Len(pages) /\ p[2] \in 1..Len(RowsAt(pages, p[1]))
              /\ ~ RowsAt(pages, p[1])[p[2]].defunct
         /\ \A n \in 1..Len(pages) : \A r \in 1..Len(RowsAt(pages, n)) :
              ~ RowsAt(pages, n)[r].defunct => <<n, r>> \in Places(pages)
<1>1. Len(pages) \in Nat
  BY WalkIs
<1>2. ASSUME NEW p \in Places(pages)
      PROVE  /\ p = <<p[1], p[2]>> /\ p \in Nat \X Nat
             /\ p[1] \in 1..Len(pages) /\ p[2] \in 1..Len(RowsAt(pages, p[1]))
             /\ ~ RowsAt(pages, p[1])[p[2]].defunct
  <2>1. PICK n \in 1..Len(pages) : p \in PlacesOn(pages, n)
    BY DEF Places
  <2>2. p = <<n, p[2]>> /\ p[1] = n /\ p[2] \in DOMAIN RowsAt(pages, n)
        /\ ~ RowsAt(pages, n)[p[2]].defunct
    BY <2>1 DEF PlacesOn
  <2>3. Len(RowsAt(pages, n)) \in Nat /\ DOMAIN RowsAt(pages, n) = 1..Len(RowsAt(pages, n))
    BY RowsOfPage
  <2>4. n \in Nat /\ p[2] \in Nat
    BY <1>1, <2>2, <2>3
  <2>. QED
    BY <2>2, <2>3, <2>4
<1>3. ASSUME NEW n \in 1..Len(pages), NEW r \in 1..Len(RowsAt(pages, n)),
             ~ RowsAt(pages, n)[r].defunct
      PROVE  <<n, r>> \in Places(pages)
  <2>1. r \in DOMAIN RowsAt(pages, n)
    BY RowsOfPage
  <2>2. <<n, r>> \in PlacesOn(pages, n)
    BY <1>3, <2>1 DEF PlacesOn
  <2>. QED
    BY <2>2 DEF Places
<1>. QED
  BY <1>2, <1>3

LEMMA PlacesOfWalk ==
  ASSUME Walked, NEW name, NEW pages \in Walks(name)
  PROVE  /\ PlacesBefore(pages, 1, 1) = {}
         /\ PlacesBefore(pages, Len(pages) + 1, 1) = Places(pages)
<1>1. Len(pages) \in Nat
  BY WalkIs
<1>2. ASSUME NEW p \in Places(pages)
      PROVE  ~ Before(p, <<1, 1>>) /\ Before(p, <<Len(pages) + 1, 1>>)
  <2>1. p[1] \in 1..Len(pages) /\ p[2] \in Nat \ {0}
    <3>1. /\ p[1] \in 1..Len(pages) /\ p[2] \in 1..Len(RowsAt(pages, p[1]))
      BY PlaceIs
    <3>2. Len(RowsAt(pages, p[1])) \in Nat
      BY <3>1, RowsOfPage
    <3>. QED
      BY <3>1, <3>2
  <2>. QED
    BY <1>1, <2>1 DEF Before
<1>. QED
  BY <1>2 DEF PlacesBefore

LEMMA NextPlaces ==
  ASSUME Walked, NEW name, NEW pages \in Walks(name), NEW n \in 1..Len(pages), NEW r \in Nat \ {0},
         r > Len(RowsAt(pages, n))
  PROVE  PlacesBefore(pages, n, r) = PlacesBefore(pages, n + 1, 1)
<1>1. Len(pages) \in Nat
  BY WalkIs
<1>2. ASSUME NEW p \in Places(pages)
      PROVE  Before(p, <<n, r>>) <=> Before(p, <<n + 1, 1>>)
  <2>1. p[1] \in 1..Len(pages) /\ p[2] \in 1..Len(RowsAt(pages, p[1]))
    BY PlaceIs
  <2>2. PICK i \in 1..Len(pages) : i = p[1]
    BY <2>1
  <2>3. Len(RowsAt(pages, i)) \in Nat /\ Len(RowsAt(pages, n)) \in Nat
    BY RowsOfPage
  <2>4. PICK j \in Nat \ {0} : j = p[2] /\ j <= Len(RowsAt(pages, i))
    BY <2>1, <2>2, <2>3
  <2>5. i = n => j < r
    BY <2>3, <2>4
  <2>6. i < n \/ (i = n /\ j < r) <=> i < n + 1 \/ (i = n + 1 /\ j < 1)
    BY <1>1, <2>5
  <2>. QED
    BY <2>2, <2>4, <2>6 DEF Before
<1>. QED
  BY <1>2 DEF PlacesBefore

LEMMA NextPlace ==
  ASSUME Walked, NEW name, NEW pages \in Walks(name), NEW n \in 1..Len(pages),
         NEW r \in 1..Len(RowsAt(pages, n))
  PROVE  /\ RowsAt(pages, n)[r].defunct =>
              PlacesBefore(pages, n, r + 1) = PlacesBefore(pages, n, r)
         /\ ~ RowsAt(pages, n)[r].defunct /\ IsFiniteSet(PlacesBefore(pages, n, r)) =>
              Adds(PlacesBefore(pages, n, r), <<n, r>>, PlacesBefore(pages, n, r + 1))
<1>1. Len(pages) \in Nat /\ Len(RowsAt(pages, n)) \in Nat
  BY WalkIs, RowsOfPage
<1>2. n \in Nat /\ r \in Nat
  BY <1>1
<1>3. ASSUME NEW p \in Places(pages)
      PROVE  Before(p, <<n, r + 1>>) <=> Before(p, <<n, r>>) \/ p = <<n, r>>
  <2>1. p = <<p[1], p[2]>> /\ p \in Nat \X Nat
    BY PlaceIs
  <2>2. PICK i \in Nat, j \in Nat : p = <<i, j>>
    BY <2>1
  <2>. QED
    BY <1>2, <2>2 DEF Before
<1>4. CASE RowsAt(pages, n)[r].defunct
  <2>1. <<n, r>> \notin Places(pages)
    <3>1. <<n, r>>[1] = n /\ <<n, r>>[2] = r
      OBVIOUS
    <3>. QED
      BY <1>4, <3>1, PlaceIs
  <2>. QED
    BY <1>3, <1>4, <2>1 DEF PlacesBefore
<1>5. CASE ~ RowsAt(pages, n)[r].defunct
  <2>1. <<n, r>> \in Places(pages)
    BY <1>5, PlaceIs
  <2>2. Before(<<n, r>>, <<n, r + 1>>)
    BY <1>2 DEF Before
  <2>3. PlacesBefore(pages, n, r + 1) = PlacesBefore(pages, n, r) \cup {<<n, r>>}
    BY <1>3, <2>1, <2>2 DEF PlacesBefore
  <2>4. <<n, r>> \in Nat \X Nat /\ PlacesBefore(pages, n, r) \subseteq Nat \X Nat
    BY <1>2, PlaceIs DEF PlacesBefore
  <2>5. \A q \in PlacesBefore(pages, n, r) : Before(q, <<n, r>>)
    BY DEF PlacesBefore
  <2>. QED
    BY <1>5, <2>3, <2>4, <2>5 DEF Adds, IsLast
<1>. QED
  BY <1>4, <1>5

-----------------------------------------------------------------------------
(***************************************************************************)
(* The tables are at every row what the rows before it make, along every   *)
(* walk of the catalog, and so is the count along those of the database.   *)
(***************************************************************************)
MadeFrom(name, pages, places) ==
  /\ name = "database" => counted = Cardinality(places)
  /\ name = "catalog" => AreTablesOf(tables, ReadAt(pages), places)

MadeUpTo(name, pages, n, r) ==
  /\ IsFiniteSet(PlacesBefore(pages, n, r))
  /\ MadeFrom(name, pages, PlacesBefore(pages, n, r))

Passed(name) ==
  \/ name = "database" /\ tree = "catalog" /\ step # "failed"
  \/ name = "catalog" /\ step = "open"

WalkIsMade(name, pages) ==
  /\ tree = name /\ step = "descend" => MadeFrom(name, pages, {})
  /\ tree = name /\ step = "page" =>
       \E n \in 1..(Len(pages) + 1) : at = PageAt(name, pages, n) /\ MadeUpTo(name, pages, n, 1)
  /\ tree = name /\ step = "rows" =>
       \E n \in 1..Len(pages) : at = pages[n] /\ MadeUpTo(name, pages, n, row)
  /\ Passed(name) => MadeFrom(name, pages, Places(pages))

Trees == {"database", "catalog"}
RowsAreMade ==
  /\ tree = "database" => tables = <<>> /\ step # "open"
  /\ \A name \in Trees : \A pages \in Walks(name) : WalkIsMade(name, pages)

LEMMA NothingIsMade ==
  ASSUME NEW name, NEW pages, name = "database" => counted = 0,
         name = "catalog" => tables = <<>>
  PROVE  MadeFrom(name, pages, {})
<1>1. PICK read : read = ReadAt(pages)
  OBVIOUS
<1>2. OfType(read, {}, Table) = {} /\ Cardinality({}) = 0
  BY FS_EmptySet DEF OfType
<1>3. \A k \in 1..0 : FALSE
  OBVIOUS
<1>4. Len(<<>>) = 0
  OBVIOUS
<1>5. AreTablesOf(<<>>, read, {})
  BY <1>2, <1>3, <1>4, Zenon DEF AreTablesOf
<1>. QED
  BY <1>1, <1>2, <1>5 DEF MadeFrom

LEMMA SameIsMade ==
  ASSUME UNCHANGED <<file, stray, counted, tables>>, NEW name, NEW pages
  PROVE  /\ \A places : MadeFrom(name, pages, places) => MadeFrom(name, pages, places)'
         /\ \A n, r : MadeUpTo(name, pages, n, r) => MadeUpTo(name, pages, n, r)'
         /\ Places(pages)' = Places(pages)
<1>1. Places(pages)' = Places(pages) /\ ReadAt(pages)' = ReadAt(pages)
  BY SameWalks
<1>2. \A places : MadeFrom(name, pages, places) => MadeFrom(name, pages, places)'
  BY <1>1 DEF MadeFrom
<1>3. \A n, r : PlacesBefore(pages, n, r)' = PlacesBefore(pages, n, r)
  BY <1>1 DEF PlacesBefore
<1>. QED
  BY <1>1, <1>2, <1>3 DEF MadeUpTo

LEMMA DescendMakes ==
  ASSUME Walked, NEW name \in Trees, NEW pages \in Walks(name), WalkIsMade(name, pages), Descend
  PROVE  WalkIsMade(name, pages)'
<1>1. UNCHANGED <<file, stray, counted, tables, tree>> /\ step = "descend" /\ step' = "page"
  BY DEF Descend
<1>2. CASE tree = name
  <2>1. MadeFrom(name, pages, {})
    BY <1>1, <1>2 DEF WalkIsMade
  <2>2. MadeUpTo(name, pages, 1, 1)
    BY <2>1, PlacesOfWalk, FS_EmptySet DEF MadeUpTo
  <2>3. MadeUpTo(name, pages, 1, 1)'
    BY <1>1, <2>2, SameIsMade
  <2>4. at' = PageAt(name, pages, 1)'
    BY <1>1, <1>2 DEF Descend, PageAt
  <2>5. 1 \in 1..(Len(pages) + 1)
    BY WalkIs
  <2>6. ~ (Passed(name)')
    BY <1>1, <1>2 DEF Passed
  <2>. QED
    BY <1>1, <2>3, <2>4, <2>5, <2>6 DEF WalkIsMade
<1>3. CASE tree # name
  <2>1. Passed(name)' => Passed(name)
    BY <1>1 DEF Passed
  <2>2. Passed(name)' => MadeFrom(name, pages, Places(pages))'
    BY <1>1, <2>1, SameIsMade DEF WalkIsMade
  <2>. QED
    BY <1>1, <1>3, <2>2 DEF WalkIsMade
<1>. QED
  BY <1>2, <1>3

LEMMA EnterMakes ==
  ASSUME Walked, NEW name \in Trees, NEW pages \in Walks(name), WalkIsMade(name, pages), EnterPage
  PROVE  WalkIsMade(name, pages)'
<1>1. /\ UNCHANGED <<file, stray, counted, tables, tree, at>>
      /\ step = "page" /\ step' = "rows" /\ row' = 1 /\ at # 0
  BY DEF EnterPage
<1>2. CASE tree = name
  <2>1. PICK n \in 1..(Len(pages) + 1) : at = PageAt(name, pages, n) /\ MadeUpTo(name, pages, n, 1)
    BY <1>1, <1>2 DEF WalkIsMade
  <2>2. n \in 1..Len(pages) /\ at = pages[n]
    BY <1>1, <2>1, WalkIs
  <2>3. MadeUpTo(name, pages, n, 1)'
    BY <1>1, <2>1, SameIsMade
  <2>4. ~ (Passed(name)')
    BY <1>1, <1>2 DEF Passed
  <2>. QED
    BY <1>1, <2>2, <2>3, <2>4 DEF WalkIsMade
<1>3. CASE tree # name
  <2>1. Passed(name)' => Passed(name)
    BY <1>1 DEF Passed
  <2>2. Passed(name)' => MadeFrom(name, pages, Places(pages))'
    BY <1>1, <2>1, SameIsMade DEF WalkIsMade
  <2>. QED
    BY <1>1, <1>3, <2>2 DEF WalkIsMade
<1>. QED
  BY <1>2, <1>3

LEMMA LeaveMakes ==
  ASSUME Walked, NEW name \in Trees, NEW pages \in Walks(name), WalkIsMade(name, pages), LeavePage
  PROVE  WalkIsMade(name, pages)'
<1>1. /\ UNCHANGED <<file, stray, counted, tables, tree>>
      /\ step = "rows" /\ step' = "page" /\ at' = Here.next /\ row > Len(Here.rows)
  BY DEF LeavePage
<1>2. CASE tree = name
  <2>1. PICK n \in 1..Len(pages) : at = pages[n] /\ MadeUpTo(name, pages, n, row)
    BY <1>1, <1>2 DEF WalkIsMade
  <2>2. Len(pages) \in Nat /\ row \in Nat \ {0} /\ RowsAt(pages, n) = Here.rows
    BY <1>1, <2>1, WalkIs DEF Walked, RowsAt, Here
  <2>3. MadeUpTo(name, pages, n + 1, 1)
    BY <1>1, <2>1, <2>2, NextPlaces DEF MadeUpTo
  <2>4. MadeUpTo(name, pages, n + 1, 1)'
    BY <1>1, <2>3, SameIsMade
  <2>5. n + 1 \in 1..(Len(pages) + 1) /\ (n + 1) - 1 = n /\ n + 1 # 1
    BY <2>2
  <2>6. at' = PageAt(name, pages, n + 1)'
    BY <1>1, <2>1, <2>5 DEF PageAt, Here
  <2>7. ~ (Passed(name)')
    BY <1>1, <1>2 DEF Passed
  <2>. QED
    BY <1>1, <2>4, <2>5, <2>6, <2>7 DEF WalkIsMade
<1>3. CASE tree # name
  <2>1. Passed(name)' => Passed(name)
    BY <1>1 DEF Passed
  <2>2. Passed(name)' => MadeFrom(name, pages, Places(pages))'
    BY <1>1, <2>1, SameIsMade DEF WalkIsMade
  <2>. QED
    BY <1>1, <1>3, <2>2 DEF WalkIsMade
<1>. QED
  BY <1>2, <1>3

LEMMA EndMakes ==
  ASSUME Walked, NEW name \in Trees, NEW pages \in Walks(name), WalkIsMade(name, pages), WalkEnds,
         tree = "database" => tables = <<>>
  PROVE  WalkIsMade(name, pages)'
<1>1. UNCHANGED <<file, stray, counted, tables, at>> /\ step = "page" /\ at = 0
  BY DEF WalkEnds
<1>2. CASE tree = name
  <2>1. PICK n \in 1..(Len(pages) + 1) : at = PageAt(name, pages, n) /\ MadeUpTo(name, pages, n, 1)
    BY <1>1, <1>2 DEF WalkIsMade
  <2>2. n = Len(pages) + 1
    BY <1>1, <2>1, WalkIs
  <2>3. MadeFrom(name, pages, Places(pages))
    BY <2>1, <2>2, PlacesOfWalk DEF MadeUpTo
  <2>4. MadeFrom(name, pages, Places(pages))'
    BY <1>1, <2>3, SameIsMade
  <2>5. step' = "open" \/ tree' # name
    BY <1>2 DEF WalkEnds
  <2>6. step' \in {"open", "descend"}
    BY DEF WalkEnds
  <2>. QED
    BY <2>4, <2>5, <2>6 DEF WalkIsMade
<1>3. CASE tree # name /\ name = "database"
  <2>1. tree = "catalog" /\ step' = "open" /\ tree' = tree
    BY <1>3 DEF WalkEnds, Walked
  <2>2. MadeFrom(name, pages, Places(pages))
    BY <1>1, <1>3, <2>1 DEF WalkIsMade, Passed
  <2>3. MadeFrom(name, pages, Places(pages))'
    BY <1>1, <2>2, SameIsMade
  <2>. QED
    BY <2>1, <2>3 DEF WalkIsMade
<1>4. CASE tree # name /\ name = "catalog"
  <2>1. tree = "database" /\ step' = "descend" /\ tables = <<>>
    BY <1>4 DEF WalkEnds, Walked
  <2>2. MadeFrom(name, pages, {})
    BY <1>4, <2>1, NothingIsMade
  <2>3. MadeFrom(name, pages, {})'
    BY <1>1, <2>2, SameIsMade
  <2>4. ~ (Passed(name)')
    BY <1>4, <2>1 DEF Passed
  <2>. QED
    BY <2>1, <2>3, <2>4 DEF WalkIsMade
<1>. QED
  BY <1>2, <1>3, <1>4 DEF Trees

LEMMA AddsOne ==
  ASSUME NEW places, NEW p, NEW more, Adds(places, p, more)
  PROVE  IsFiniteSet(more) /\ Cardinality(more) = Cardinality(places) + 1
<1>1. more = places \cup {p} /\ IsLast(places, p)
  BY DEF Adds
<1>. QED
  BY <1>1, UpToBehind, FS_AddElement DEF IsLast

LEMMA TypeOfRow ==
  ASSUME Walked, NEW types, NewRow(types), NEW read, NEW p, read[p] = ThisDefinition
  PROVE  read[p] \in ReadDefinitions /\ \A type : types = {type} => IsOf(read, p, type)
<1>1. ThisDefinition \in ReadDefinitions /\ ThisDefinition.type \in types
  BY NewRowIsDefinition
<1>. QED
  BY <1>1, Zenon DEF IsOf

LEMMA RowMakes ==
  ASSUME Walked, Kept, NEW read, NEW places, NEW p, NEW more, Adds(places, p, more),
         AreTablesOf(tables, read, places), read[p] = ThisDefinition,
         TableRow \/ ColumnRow \/ IndexRow \/ SingleRow \/ IgnoreRow
  PROVE  AreTablesOf(tables', read, more)
<1>1. CASE TableRow
  <2>1. NewRow({Table}) /\ tables' = Append(tables, NewTable(read[p]))
    BY <1>1 DEF TableRow
  <2>2. read[p] \in ReadDefinitions /\ IsOf(read, p, Table)
    BY <2>1, TypeOfRow
  <2>3. AreTablesOf(Append(tables, NewTable(read[p])), read, more)
    BY <2>2, TableIsMade, Zenon DEF Kept, IsOf
  <2>. QED
    BY <2>1, <2>3, Zenon
<1>2. CASE ColumnRow
  <2>1. NewRow({ColumnType}) /\ tables # <<>> /\ AppendColumn(read[p])
    BY <1>2 DEF ColumnRow
  <2>2. read[p] \in ReadDefinitions /\ IsOf(read, p, ColumnType)
    BY <2>1, TypeOfRow
  <2>. QED
    BY <2>1, <2>2, ColumnIsMade
<1>3. CASE IndexRow
  <2>1. NewRow({Index}) /\ tables # <<>> /\ AppendIndex(read[p])
    BY <1>3 DEF IndexRow
  <2>2. read[p] \in ReadDefinitions /\ IsOf(read, p, Index)
    BY <2>1, TypeOfRow
  <2>. QED
    BY <2>1, <2>2, IndexIsMade
<1>4. CASE SingleRow
  <2>1. NewRow({LongValue, Callback}) /\ tables # <<>> /\ ~ HasSingle(ThisDefinition.type)
    BY <1>4 DEF SingleRow
  <2>2. read[p] \in ReadDefinitions /\ ThisDefinition.type \in {LongValue, Callback}
    BY <2>1, NewRowIsDefinition
  <2>3. PICK type \in {LongValue, Callback} : type = ThisDefinition.type
    BY <2>2
  <2>4. IsOf(read, p, type) /\ ~ HasSingle(type)
    BY <2>1, <2>3 DEF IsOf
  <2>5. tables' = [tables EXCEPT ![Len(tables)].single = WithSingle(@, type, read[p])]
    BY <1>4, <2>3 DEF SingleRow, SetLongValue, SetCallback
  <2>. QED
    BY <2>1, <2>2, <2>4, <2>5, SingleIsMade
<1>5. CASE IgnoreRow
  <2>1. /\ UNCHANGED tables /\ ~ IsOf(read, p, Table)
        /\ tables = <<>> \/ ThisDefinition.type \notin Table..Callback
    BY <1>5 DEF IgnoreRow, IsOf
  <2>2. tables = <<>> \/ read[p].type \notin {ColumnType, Index, LongValue, Callback}
    <3>1. \A type \in {ColumnType, Index, LongValue, Callback} : type \in Table..Callback
      BY DEF Table, ColumnType, Index, LongValue, Callback
    <3>. QED
      BY <2>1, <3>1
  <2>3. AreTablesOf(tables, read, more)
    BY <2>1, <2>2, RowIsPassed, Zenon DEF Kept, IsOf
  <2>. QED
    BY <2>1, <2>3
<1>. QED
  BY <1>1, <1>2, <1>3, <1>4, <1>5

LEMMA RowIsMade ==
  ASSUME Walked, Kept, NEW name \in Trees, NEW pages \in Walks(name), WalkIsMade(name, pages),
         \/ SkipDefunct \/ CountRow
         \/ TableRow \/ ColumnRow \/ IndexRow \/ SingleRow \/ IgnoreRow
  PROVE  WalkIsMade(name, pages)'
<1>1. /\ UNCHANGED <<file, stray, step, tree, at>> /\ row' = row + 1
      /\ step = "rows" /\ row <= Len(Here.rows) /\ row \in Nat \ {0}
  <2>1. NextRow /\ AtRow
    BY DEF SkipDefunct, CountRow, TableRow, ColumnRow, IndexRow, SingleRow, IgnoreRow, NewRow, LiveIn
  <2>. QED
    BY <2>1 DEF NextRow, AtRow, Walked
<1>2. Places(pages)' = Places(pages) /\ ReadAt(pages)' = ReadAt(pages)
  BY <1>1, SameWalks
<1>3. CASE tree = name
  <2>1. PICK n \in 1..Len(pages) : at = pages[n] /\ MadeUpTo(name, pages, n, row)
    BY <1>1, <1>3 DEF WalkIsMade
  <2>2. RowsAt(pages, n) = Here.rows /\ row \in 1..Len(RowsAt(pages, n))
    BY <1>1, <2>1, RowsOfPage DEF RowsAt, Here
  <2>3. PICK before : before = PlacesBefore(pages, n, row)
    OBVIOUS
  <2>4. PICK r : r = row + 1
    OBVIOUS
  <2>5. PICK after : after = PlacesBefore(pages, n, r) /\ after = PlacesBefore(pages, n, row + 1)
    BY <2>4
  <2>6. PlacesBefore(pages, n, r)' = after
    BY <1>2, <2>5 DEF PlacesBefore
  <2>7. IsFiniteSet(before) /\ MadeFrom(name, pages, before)
    BY <2>1, <2>3 DEF MadeUpTo
  <2>8. IsFiniteSet(after) /\ MadeFrom(name, pages, after)'
    <3>1. CASE SkipDefunct
      <4>1. RowsAt(pages, n)[row].defunct
        BY <2>2, <3>1 DEF SkipDefunct, ThisRow
      <4>2. after = before
        BY <2>2, <2>3, <2>5, <4>1, NextPlace
      <4>3. UNCHANGED <<counted, tables>>
        BY <3>1 DEF SkipDefunct
      <4>. QED
        BY <1>1, <2>7, <4>2, <4>3, SameIsMade
    <3>2. CASE ~ RowsAt(pages, n)[row].defunct
      <4>1. Adds(before, <<n, row>>, after)
        BY <2>2, <2>3, <2>5, <2>7, <3>2, NextPlace
      <4>2. IsFiniteSet(after) /\ Cardinality(after) = Cardinality(before) + 1
        BY <4>1, AddsOne
      <4>3. CASE CountRow
        <5>1. counted' = counted + 1 /\ name = "database"
          BY <1>3, <4>3 DEF CountRow, LiveIn
        <5>. QED
          BY <2>7, <4>2, <5>1 DEF MadeFrom
      <4>4. CASE TableRow \/ ColumnRow \/ IndexRow \/ SingleRow \/ IgnoreRow
        <5>1. name = "catalog"
          BY <1>3, <4>4 DEF TableRow, ColumnRow, IndexRow, SingleRow, IgnoreRow, NewRow, LiveIn
        <5>2. PICK read : read = ReadAt(pages)
          OBVIOUS
        <5>3. AreTablesOf(tables, read, before)
          BY <2>7, <5>1, <5>2 DEF MadeFrom
        <5>4. <<n, row>> \in Places(pages)
          BY <2>2, <3>2, PlaceIs
        <5>5. read[<<n, row>>] = ThisDefinition
          BY <2>2, <5>2, <5>4 DEF ReadAt, ThisDefinition, ThisValue, ThisRow
        <5>6. AreTablesOf(tables', read, after)
          BY <4>1, <4>4, <5>3, <5>5, RowMakes
        <5>. QED
          BY <1>2, <4>2, <5>1, <5>2, <5>6 DEF MadeFrom
      <4>5. ~ SkipDefunct
        BY <2>2, <3>2 DEF SkipDefunct, ThisRow
      <4>. QED
        BY <4>3, <4>4, <4>5
    <3>3. RowsAt(pages, n)[row].defunct => SkipDefunct
      BY <2>2 DEF ThisRow, CountRow, TableRow, ColumnRow, IndexRow, SingleRow, IgnoreRow, NewRow,
           LiveIn
    <3>. QED
      BY <3>1, <3>2, <3>3
  <2>9. MadeUpTo(name, pages, n, r)'
    BY <2>6, <2>8 DEF MadeUpTo
  <2>10. ~ (Passed(name)')
    BY <1>1, <1>3 DEF Passed
  <2>. QED
    BY <1>1, <2>1, <2>4, <2>9, <2>10 DEF WalkIsMade
<1>4. CASE tree # name
  <2>1. Passed(name)' => Passed(name) /\ name = "database" /\ tree = "catalog"
    BY <1>1 DEF Passed
  <2>2. tree = "catalog" => UNCHANGED counted
    BY DEF SkipDefunct, CountRow, TableRow, ColumnRow, IndexRow, SingleRow, IgnoreRow, LiveIn
  <2>3. Passed(name)' => MadeFrom(name, pages, Places(pages))'
    BY <1>2, <2>1, <2>2 DEF WalkIsMade, MadeFrom
  <2>. QED
    BY <1>1, <1>4, <2>3 DEF WalkIsMade
<1>. QED
  BY <1>3, <1>4

LEMMA StartIsMade == Init => RowsAreMade
<1>1. ASSUME Init, NEW name \in Trees, NEW pages \in Walks(name)
      PROVE  WalkIsMade(name, pages)
  <2>1. step = "descend" /\ tree = "database" /\ counted = 0 /\ tables = <<>>
    BY <1>1 DEF Init
  <2>2. MadeFrom(name, pages, {}) /\ ~ Passed(name)
    BY <2>1, NothingIsMade DEF Passed
  <2>. QED
    BY <2>1, <2>2 DEF WalkIsMade
<1>. QED
  BY <1>1 DEF RowsAreMade, Init

LEMMA StepIsMade ==
  ASSUME Walked, Kept, RowsAreMade, [Next]_vars
  PROVE  RowsAreMade'
<1>1. DEFINE RowStep == \/ SkipDefunct \/ CountRow
                        \/ TableRow \/ ColumnRow \/ IndexRow \/ SingleRow \/ IgnoreRow
             WalkStep == Descend \/ EnterPage \/ LeavePage \/ WalkEnds
             CallStep == UNCHANGED <<file, stray, step, tree, at, row, counted, tables>>
<1>2. WalkStep \/ RowStep \/ Fail \/ CallStep
  <2>1. ReadStep \/ ReadFails => WalkStep \/ RowStep \/ Fail
    BY DEF ReadStep, ReadFails, EnterFails, ReadRow, CountFails, RowFails
  <2>2. Calls \/ UNCHANGED vars => CallStep
    BY DEF Calls, vars, GetTable, GetTableByUtf8, GetTableByUtf16, FreeTable, MakeTable
  <2>. HIDE DEF RowStep, WalkStep, CallStep
  <2>. QED
    BY <2>1, <2>2 DEF Next
<1>3. UNCHANGED <<file, stray>>
  <2>1. WalkStep \/ Fail \/ CallStep => UNCHANGED <<file, stray>>
    BY DEF Descend, EnterPage, LeavePage, WalkEnds, Fail
  <2>2. RowStep => NextRow
    BY DEF SkipDefunct, CountRow, TableRow, ColumnRow, IndexRow, SingleRow, IgnoreRow
  <2>. HIDE DEF RowStep, WalkStep, CallStep
  <2>. QED
    BY <1>2, <2>1, <2>2 DEF NextRow
<1>4. ASSUME NEW name \in Trees, NEW pages \in Walks(name)
      PROVE  WalkIsMade(name, pages)'
  <2>1. WalkIsMade(name, pages) /\ (tree = "database" => tables = <<>>)
    BY DEF RowsAreMade
  <2>2. WalkStep => WalkIsMade(name, pages)'
    BY <2>1, DescendMakes, EnterMakes, LeaveMakes, EndMakes
  <2>3. RowStep => WalkIsMade(name, pages)'
    BY <2>1, RowIsMade
  <2>4. Fail => WalkIsMade(name, pages)'
    BY DEF Fail, WalkIsMade, Passed
  <2>5. CallStep => WalkIsMade(name, pages)'
    <3>1. SUFFICES ASSUME CallStep
                   PROVE  WalkIsMade(name, pages)'
      OBVIOUS
    <3>2. PICK r : r = row
      OBVIOUS
    <3>3. \A n : PageAt(name, pages, n)' = PageAt(name, pages, n)
      BY <1>3, SameWalks
    <3>4. (\E n \in 1..(Len(pages) + 1) : at = PageAt(name, pages, n) /\ MadeUpTo(name, pages, n, 1))
            => (\E n \in 1..(Len(pages) + 1) :
                  at = PageAt(name, pages, n) /\ MadeUpTo(name, pages, n, 1))'
      BY <3>1, <3>3, SameIsMade
    <3>5. (\E n \in 1..Len(pages) : at = pages[n] /\ MadeUpTo(name, pages, n, r))
            => (\E n \in 1..Len(pages) : at = pages[n] /\ MadeUpTo(name, pages, n, r))'
      BY <3>1, SameIsMade
    <3>6. MadeFrom(name, pages, Places(pages)) => MadeFrom(name, pages, Places(pages))'
      BY <3>1, SameIsMade
    <3>7. MadeFrom(name, pages, {}) => MadeFrom(name, pages, {})'
      BY <3>1, SameIsMade
    <3>. QED
      BY <2>1, <3>1, <3>2, <3>4, <3>5, <3>6, <3>7 DEF WalkIsMade, Passed
  <2>. HIDE DEF RowStep, WalkStep, CallStep
  <2>. QED
    BY <1>2, <2>2, <2>3, <2>4, <2>5
<1>5. (tree = "database" => tables = <<>> /\ step # "open")'
  <2>1. tree = "database" => tables = <<>> /\ step # "open"
    BY DEF RowsAreMade
  <2>2. Descend \/ EnterPage \/ LeavePage => UNCHANGED <<tree, tables>> /\ step' # "open"
    BY DEF Descend, EnterPage, LeavePage
  <2>3. WalkEnds => tree' = "catalog"
    BY DEF WalkEnds, Walked
  <2>4. SkipDefunct \/ CountRow => UNCHANGED <<tree, tables, step>>
    BY DEF SkipDefunct, CountRow, NextRow
  <2>5. TableRow \/ ColumnRow \/ IndexRow \/ SingleRow \/ IgnoreRow => tree' = "catalog"
    BY DEF TableRow, ColumnRow, IndexRow, SingleRow, IgnoreRow, NewRow, LiveIn, NextRow
  <2>6. Fail => tables' = <<>> /\ step' # "open"
    BY DEF Fail, FreeTables
  <2>. QED
    BY <1>2, <2>1, <2>2, <2>3, <2>4, <2>5, <2>6
<1>6. \A name : Walks(name)' = Walks(name)
  BY <1>3, SameWalks
<1>7. (\A name \in Trees : \A pages \in Walks(name) : WalkIsMade(name, pages))'
  BY <1>4, <1>6
<1>. QED
  BY <1>5, <1>7 DEF RowsAreMade

LEMMA OpenIsMade ==
  ASSUME Walked, RowsAreMade
  PROVE  RowsMakeTables
<1>. SUFFICES ASSUME step = "open"
              PROVE  RowsMakeTables
  BY DEF RowsMakeTables
<1>1. tree = "catalog" /\ step # "failed"
  BY DEF RowsAreMade, Walked
<1>2. \A name \in Trees : \A pages \in Walks(name) : MadeFrom(name, pages, Places(pages))
  BY <1>1 DEF RowsAreMade, WalkIsMade, Passed, Trees
<1>. QED
  BY <1>2 DEF RowsMakeTables, MadeFrom, Trees

Inv == Walked /\ Kept /\ Answered /\ RowsAreMade

-----------------------------------------------------------------------------
(***************************************************************************)
(* What is kept of a catalog are definitions that were read from its rows, *)
(* each where its row puts it, and what is in hand and was answered last   *)
(* belongs to its tables.                                                  *)
(***************************************************************************)
THEOREM TablesAreKept == Spec => []Inv
<1>1. Init => Inv
  <2>1. Init => Kept
    BY EmptySeq DEF Init, Kept
  <2>2. Init => Answered
    BY DEF Init, Answered, NoReply, FirstOfTheName, TemplateIsNamed
  <2>. QED
    BY <2>1, <2>2, StartIsWalked, StartIsMade DEF Inv
<1>2. Inv /\ [Next]_vars => Inv'
  BY StepIsWalked, StepKeepsTables, StepIsAnswered, StepIsMade DEF Inv
<1>. QED
  BY <1>1, <1>2, PTL DEF Spec

(***************************************************************************)
(* In any file whose catalog opens, however its rows are spread over pages *)
(* and whatever bytes they have, every table has the columns, indexes,     *)
(* long values and callback of the rows behind its own, in their order.    *)
(***************************************************************************)
THEOREM RowsAlwaysMakeTables == Spec => []RowsMakeTables
<1>1. Inv => RowsMakeTables
  BY OpenIsMade DEF Inv
<1>. QED
  BY <1>1, TablesAreKept, PTL

(***************************************************************************)
(* In any file, tables by number and by name, templates, columns, records  *)
(* by index and the sizes of names agree, once the catalog was read.       *)
(***************************************************************************)
THEOREM TablesAlwaysAgree == Spec => []TablesAgree
<1>1. Inv => TypeOK
  <2>1. Inv => inHand \in [table : 0..Len(tables), template : 0..Len(tables)]
    <3>1. ASSUME Kept
          PROVE  Len(tables) \in Nat /\ \A n \in 1..Len(tables) : n \in 0..Len(tables)
      BY <3>1, TableNumbers
    <3>2. ASSUME Kept
          PROVE  0 \in 0..Len(tables)
      BY <3>1, <3>2
    <3>. QED
      BY <3>1, <3>2 DEF Inv, Answered, NoTable
  <2>. QED
    BY <2>1 DEF Inv, Walked, Answered, TypeOK
<1>2. Inv => TablesAgree
  BY <1>1, ColumnsDoAgree, IndexesDoFind, NamesDoFit, OpenIsMade DEF Inv, Answered, TablesAgree
<1>. QED
  BY <1>2, TablesAreKept, PTL
==============================================================================
