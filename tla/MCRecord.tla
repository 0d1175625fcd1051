------------------------------- MODULE MCRecord -------------------------------
(***************************************************************************)
(* Rows as the format lays them out in all three layouts, of a table of    *)
(* two columns of each kind and with a template; the shorter ones with     *)
(* each byte overwritten or cut off; and long values with sound and        *)
(* unsound segments.                                                       *)
(***************************************************************************)
EXTENDS RecordApi, TLC

L == INSTANCE RecordLayout

Col(id, type, size) == [id |-> id, type |-> type, size |-> size, codepage |-> 0]
Fixed == <<Col(1, "int32", 4), Col(2, "uint8", 1)>>
Variable == <<Col(128, "text", 0), Col(129, "binary", 0)>>
Tagged == <<Col(256, "largetext", 0), Col(257, "largebinary", 0)>>
All == Fixed \o Variable \o Tagged

(* A row with a column of every type of a fixed width. *)
Widths ==
  <<"boolean", "uint8", "int16", "uint16", "int32", "uint32", "int64", "currency",
    "float", "double", "date">>
WidthOf(type) ==
  CASE type \in {"boolean", "uint8"} -> 1
    [] type \in {"int16", "uint16"} -> 2
    [] type \in {"int32", "uint32", "float"} -> 4
    [] OTHER -> 8
EveryType == [i \in 1..Len(Widths) |-> Col(i, Widths[i], WidthOf(Widths[i]))]

(* A table without a column 129; rows have no value of it. *)
Gap == <<Col(1, "int32", 4), Col(128, "text", 0), Col(130, "binary", 0)>>

Tag(pos, bytes, flags) == [pos |-> pos, bytes |-> bytes, flags |-> flags]
Content(fixed, sizes, tags) ==
  [columns |-> All, fixed |-> fixed, sizes |-> sizes, tags |-> tags]

Seven == <<65, 66, 67, 68, 69, 70, 71>>
Texts == {<<65>>, <<65, 90>>, Seven, Append(Seven, 72)}
Key == <<0, 0, 0, 1>>
Entries == <<6, 0, 6, 0, 8, 0, 65, 66, 67>>

TextTag(units) == Tag(5, L!Packed(units), VariableSize + Compressed)
BinaryTag == Tag(6, L!Packed(<<1, 2, 3>>), VariableSize + Compressed)
KeyTag == Tag(6, Key, VariableSize + IsKey)
EntriesTag == Tag(5, Entries, VariableSize + Multiple)
EmptyTag == Tag(5, <<>>, L!NoFlags)
EmptyFlaggedTag == Tag(5, <<>>, VariableSize)

Indexed ==
  {Content(2, <<2, 1>>, <<TextTag(units), KeyTag>>) : units \in Texts}
  \cup {Content(1, <<L!Null, 2>>, <<EntriesTag, KeyTag>>),
        Content(2, <<0, 3>>, <<EntriesTag>>),
        Content(0, <<>>, <<EntriesTag, BinaryTag>>),
        [Content(11, <<>>, <<>>) EXCEPT !.columns = EveryType],
        [Content(1, <<2, L!Null, 1>>, <<>>) EXCEPT !.columns = Gap],
        [Content(0, <<2, L!Null>>, <<>>) EXCEPT !.columns = Gap],
        Content(0, <<1>>, <<Tag(6, <<9, 9>>, L!NoFlags)>>),
        Content(1, <<1>>, <<EmptyTag, KeyTag>>),
        Content(1, <<1>>, <<EmptyFlaggedTag, KeyTag>>),
        Content(0, <<1>>, <<EmptyTag>>),
        Content(2, <<>>, <<>>)}
Extended == {c \in Indexed : \A i \in DOMAIN c.tags : c.tags[i].flags # L!NoFlags}

-----------------------------------------------------------------------------
(* Where the segments of the long value are. *)

NoStore == [k \in {} |-> 0]
Whole == <<1, 2, 3, 4>>
Store(lead, segments) == Key :> [lead |-> lead, segments |-> segments]
Parts == 0 :> <<1>> @@ 1 :> <<2, 3>> @@ 3 :> <<4>>
Squeezed == 0 :> <<24, 3, 0, 1, 2, 3>> @@ 3 :> <<4>>
SoundStores == {Store(8, Parts), Store(8, Squeezed), Store(8, 0 :> Whole)}
UnsoundStores ==
  {NoStore, Store(7, Parts), Store(8, NoStore), Store(8, 0 :> <<24, 3>>),
   Store(8, 0 :> <<24, 2, 0, 1, 2, 3>>), Store(8, 1 :> Whole),
   Store(8, 0 :> <<24, 0, 1>> @@ 256 :> <<4>>)}

Row(c, bytes, linear, extended, store) ==
  [data |-> bytes, templated |-> FALSE, template |-> <<>>, table |-> c.columns,
   linear |-> linear, extended |-> extended, codepage |-> 1252, store |-> store, content |-> c]

Sound(c, linear, extended, store) ==
  Row(c, L!Encode(c, linear, extended), linear, extended, store)

(* The columns of a fixed and a variable size come from a template. *)
FromTemplate(r) ==
  [r EXCEPT !.templated = TRUE, !.template = Fixed \o Variable, !.table = Tagged]
\* The template is a table without columns.
FromEmptyTemplate(r) == [r EXCEPT !.templated = TRUE]

SoundRows ==
  {Sound(c, FALSE, FALSE, store) : c \in Indexed, store \in {NoStore}}
  \cup {FromTemplate(Sound(c, FALSE, FALSE, store)) : c \in {d \in Indexed : d.columns = All}, store \in {NoStore}}
  \cup {Sound(c, TRUE, FALSE, NoStore) : c \in Indexed}
  \cup {Sound(c, FALSE, TRUE, NoStore) : c \in Extended}
  \cup {Sound(Content(2, <<2, 1>>, <<KeyTag>>), FALSE, FALSE, store) :
          store \in SoundStores \cup UnsoundStores}

Broken(r) ==
  {[r EXCEPT !.data[i] = b] : i \in DOMAIN r.data, b \in {0, 3, 128}}
  \cup {[r EXCEPT !.data = SubSeq(@, 1, n)] : n \in 0..(Len(r.data) - 1)}

Shortest == {r \in SoundRows : Len(r.data) < 33}
MCRows == SoundRows \cup UNION {Broken(r) \cup {FromEmptyTemplate(r)} : r \in Shortest}
MCStray == {0, 255}

-----------------------------------------------------------------------------
IsSound == row \in SoundRows

TypeOK ==
  /\ stage \in {"header", "columns", "done"} /\ result \in {-1, 0, 1}
  /\ Len(values) <= Len(Columns)
  /\ fixedAt \in 0..65535 /\ variable.sizeAt \in 0..65535
  /\ tagged.remaining \in 0..SizeT
  /\ Len(entries) = Len(Columns)
  /\ reply.code \in {-1, 0, 1}
  /\ long.step \in {"none", "lead", "segments", "ready"}

(***************************************************************************)
(* Where the code goes wrong on a row that is laid out as the format has   *)
(* it.  In a list, the value of a tagged column is not stepped over        *)
(* (libesedb_data_definition.c:1182-1212): what follows the first value    *)
(* that has bytes is looked for in these.  By an index, a value that ends  *)
(* where it begins is given all that remains of the row, also when others  *)
(* follow it (:1358-1365).                                                 *)
(***************************************************************************)
MisreadFrom(tag, pos) ==
  IF row.linear THEN tag.bytes # <<>> /\ tag.pos < pos ELSE L!Stored(tag) = 0 /\ tag.pos <= pos
Misread(pos) == \E j \in 1..(Len(row.content.tags) - 1) : MisreadFrom(row.content.tags[j], pos)

(* A row that is laid out as the format has it is read, and each value is  *)
(* where its column was laid out: fixed, variable and tagged columns find  *)
(* their places from one another (libesedb_data_definition_read_record).   *)
(* Not so the tagged columns from a misread one on; with such a column the *)
(* row may be refused.                                                     *)
WellFormedIsRead ==
  stage = "done" /\ IsSound =>
    /\ (\A i \in DOMAIN Columns : ~Misread(i)) => result = 1
    /\ \A i \in DOMAIN values : ~Misread(i) =>
         LET there == L!RangeOf(row.content, i, row.linear)
         IN  IF there.size = 0 THEN values[i].size = 0
             ELSE [offset |-> values[i].offset, size |-> values[i].size] = there


(* Packed text of a sound row comes back, but for a NUL that is added when *)
(* seven of the bits in its last byte are left.                            *)
TextIsRetrieved ==
  HasRecord /\ IsSound =>
    \A units \in Texts, i \in DOMAIN row.content.tags :
      row.content.tags[i] = TextTag(units) =>
        Text(Stored(5).data).units \in {units, Append(units, 0)}

(* The size that a size call answers is enough for the call that copies:   *)
(* text and binary data, packed or not, of values and of their entries.    *)
EntrySizesSuffice(v, e, k) ==
  /\ LET n == MultiUtf8Size(v, e, k) IN n # -1 => MultiUtf8(v, e, k, n) = 1
  /\ LET n == MultiUtf16Size(v, e, k) IN n # -1 => MultiUtf16(v, e, k, n) = 1
  /\ LET n == MultiBinarySize(v, e) IN n # -1 => MultiBinary(v, e, n) = 1

SizesSuffice ==
  HasRecord /\ IsSound => \A i \in DOMAIN values :
    LET v == Stored(i)
    IN  /\ Utf8SizeCode(v) = 1 => Utf8String(v, Utf8StringSize(v)) = 1
        /\ Utf16SizeCode(v) = 1 => Utf16String(v, Utf16StringSize(v)) = 1
        /\ BinarySizeCode(v) = 1 => BinaryData(v, BinarySize(v)) = 1
        /\ \A k \in DOMAIN entries[i] : EntrySizesSuffice(v, entries[i][k], k)

(* A value of any type of a fixed width is answered by a call of the       *)
(* record, and would be as the entry of a multi value, although the types  *)
(* that are accepted are listed in every one of the calls.                 *)
OfRecord(v) ==
  {Boolean(v), Bits8(v), Bits16(v), Bits32(v), Bits64(v), FileTime(v), Float32(v), Float64(v)}
OfEntry(v, e) ==
  {MultiBits8(v, e), MultiBits16(v, e), MultiBits32(v, e), MultiBits64(v, e),
   MultiFileTime(v, e), MultiFloat32(v, e), MultiFloat64(v, e)}
EveryTypeIsAnswered ==
  HasRecord /\ IsSound /\ row.content.columns = EveryType =>
    \A i \in DOMAIN values :
      LET v == Stored(i)
      IN  /\ 1 \in OfRecord(v)
          /\ v.type # "boolean" => 1 \in OfEntry(v, L!Extent(0, Len(v.data)))

(* A long value that is answered as found has the bytes that were stored,  *)
(* also when look-ups or reads failed before.                              *)
LongValueIsWhole ==
  data # NoBytes /\ row.store \in SoundStores => data = Whole

(* The data that is put together fills the size that the list of segments  *)
(* was measured to have, whatever the segments are.                        *)
FilledExactly == data # NoBytes => Len(data) = ListSize

(* A value is answered by the getters as it was written: by entry, as a    *)
(* text, with a size that suffices for its copy, and whatever its type; a  *)
(* long value is handed out whole, of the size it was announced with, or   *)
(* not at all (libesedb_record_get_value and the getters by type,          *)
(* libesedb_long_value_get_data).                                          *)
ValuesAreAnswered ==
  /\ TextIsRetrieved
  /\ SizesSuffice
  /\ EveryTypeIsAnswered
  /\ LongValueIsWhole
  /\ FilledExactly

(* Reading a row ends, and so does the look-up of segments that are not    *)
(* empty.                                                                  *)
CallsEnd ==
  /\ <>(stage = "done")
  /\ long.step \in {"lead", "segments"} ~> long.step \in {"none", "ready"}
===============================================================================
