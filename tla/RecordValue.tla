----------------------------- MODULE RecordValue -----------------------------
(***************************************************************************)
(* What a caller gets of a value of a row: one operator per function of    *)
(* libesedb_record.c and libesedb_multi_value.c, with the code that it     *)
(* returns (1, 0 for no value, -1).  A value has set, type, flags and data. *)
(***************************************************************************)
EXTENDS Compression, FiniteSets

VariableSize == 1
Compressed == 2
IsKey == 4          \* a long value: the data is its key
Multiple == 8       \* a multi value: the data starts with offsets
SizeDefinition == 16

Has(v, flag) == (v.flags \div flag) % 2 = 1

(* The library libfvalue is external: it copies a value of a fixed width   *)
(* only if the data has that width.                                        *)
Copy(data, width) == IF Len(data) = width THEN 1 ELSE -1

Number(v, types, width) ==
  IF v.type \notin types THEN -1 ELSE IF ~v.set THEN 0 ELSE Copy(v.data, width)

Boolean(v) == Number(v, {"boolean"}, 1)
Bits8(v) == Number(v, {"uint8"}, 1)
Bits16(v) == Number(v, {"int16", "uint16"}, 2)
Bits32(v) == Number(v, {"int32", "uint32"}, 4)
Bits64(v) == Number(v, {"currency", "date", "int64"}, 8)
FileTime(v) == Number(v, {"date"}, 8)
Float32(v) == Number(v, {"float"}, 4)
Float64(v) == Number(v, {"double"}, 8)

(* The value as it is stored, with its flags, whatever its type. *)
Raw(v) == [code |-> 1, data |-> v.data, flags |-> v.flags]
RawSize(v) == Len(v.data)
RawCopy(v, room) == IF room < Len(v.data) THEN -1 ELSE 1
Flags(v) == v.flags
IsLongValue(v) == Has(v, IsKey)
IsMultiValue(v) == Has(v, Multiple)

(* Plain text is converted as it is: its units are its bytes. *)
IsText(v) == v.type \in {"text", "largetext"}
IsBinary(v) == v.type \in {"binary", "largebinary"}

TextCode(v, ofData) ==
  IF ~IsText(v) THEN -1
  ELSE IF ~v.set THEN 0
  ELSE IF Has(v, Multiple) THEN -1
  ELSE ofData

Sized(size) == IF size = -1 THEN -1 ELSE 1

Utf8StringSize(v) ==
  IF Has(v, Compressed) THEN Utf8Size(v.data) ELSE Len(v.data) + 1
Utf16StringSize(v) ==
  IF Has(v, Compressed) THEN Utf16Size(v.data) ELSE Len(v.data) + 1
Utf8SizeCode(v) == TextCode(v, Sized(Utf8StringSize(v)))
Utf16SizeCode(v) == TextCode(v, Sized(Utf16StringSize(v)))

Utf8String(v, room) ==
  TextCode(v, IF Has(v, Compressed) THEN Utf8Copy(v.data, room).code
              ELSE IF room < Len(v.data) + 1 THEN -1 ELSE 1)
Utf16String(v, room) ==
  TextCode(v, IF Has(v, Compressed) THEN Utf16Copy(v.data, room).code
              ELSE IF room < Len(v.data) + 1 THEN -1 ELSE 1)

BinaryCode(v, ofData) ==
  IF ~IsBinary(v) THEN -1 ELSE IF ~v.set THEN 0 ELSE ofData

BinarySize(v) ==
  IF Has(v, Compressed) THEN DecompressedSize(v.data) ELSE Len(v.data)
BinarySizeCode(v) == BinaryCode(v, Sized(BinarySize(v)))
BinaryData(v, room) ==
  BinaryCode(v, IF Has(v, Compressed) THEN Decompress(v.data, room).code
                ELSE IF room < Len(v.data) THEN -1 ELSE 1)

-----------------------------------------------------------------------------
(* The entries of a multi value.  Only the first may be compressed.        *)

Entry(v, e) == [v EXCEPT !.data = SubSeq(v.data, e.offset + 1, e.offset + e.size)]

MultiNumber(v, e, types, width) ==
  IF v.type \notin types THEN -1 ELSE Copy(Entry(v, e).data, width)

MultiBits8(v, e) == MultiNumber(v, e, {"uint8"}, 1)
MultiBits16(v, e) == MultiNumber(v, e, {"int16", "uint16"}, 2)
MultiBits32(v, e) == MultiNumber(v, e, {"int32", "uint32"}, 4)
MultiBits64(v, e) == MultiNumber(v, e, {"currency", "int64"}, 8)
MultiFileTime(v, e) == MultiNumber(v, e, {"date"}, 8)
MultiFloat32(v, e) == MultiNumber(v, e, {"float"}, 4)
MultiFloat64(v, e) == MultiNumber(v, e, {"double"}, 8)

MultiData(v, e) == Entry(v, e).data
MultiCompressed(v, i) == Has(v, Compressed) /\ i = 1

MultiUtf8Size(v, e, i) ==
  IF ~IsText(v) THEN -1
  ELSE IF MultiCompressed(v, i) THEN Utf8Size(MultiData(v, e)) ELSE e.size + 1
MultiUtf16Size(v, e, i) ==
  IF ~IsText(v) THEN -1
  ELSE IF MultiCompressed(v, i) THEN Utf16Size(MultiData(v, e)) ELSE e.size + 1
MultiUtf8(v, e, i, room) ==
  IF ~IsText(v) THEN -1
  ELSE IF MultiCompressed(v, i) THEN Utf8Copy(MultiData(v, e), room).code
  ELSE IF room < e.size + 1 THEN -1 ELSE 1
MultiUtf16(v, e, i, room) ==
  IF ~IsText(v) THEN -1
  ELSE IF MultiCompressed(v, i) THEN Utf16Copy(MultiData(v, e), room).code
  ELSE IF room < e.size + 1 THEN -1 ELSE 1

MultiBinarySize(v, e) == IF IsBinary(v) THEN e.size ELSE -1
MultiBinary(v, e, room) == IF ~IsBinary(v) \/ room < e.size THEN -1 ELSE 1
==============================================================================
