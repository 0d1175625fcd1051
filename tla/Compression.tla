----------------------------- MODULE Compression -----------------------------
(***************************************************************************)
(* Compressed values.  The first byte tells how: 0x18 in front of a size   *)
(* and data in LZXPRESS, anything else in front of a stream of values of   *)
(* 7 bits, lowest bits first.  Data is a sequence of bytes.                *)
(***************************************************************************)
EXTENDS Integers, Sequences, SequencesExt

Lz == 24                              \* 0x18
IsLz(data) == data[1] = Lz

Failed == [code |-> -1, bytes |-> <<>>]
Success(bytes) == [code |-> 1, bytes |-> bytes]

SevenBitSize(data) == (8 * (Len(data) - 1)) \div 7

(* A byte is put above the bits left over, and one value of 7 bits taken   *)
(* from below, two when seven bits are left over.                          *)
TakeByte(s, byte) ==
  LET bits == s.left + byte * 2^s.shift
      out == Append(s.out, bits % 128)
      left == bits \div 128
  IN  IF s.shift = 6
      THEN [left |-> left \div 128, shift |-> 0, out |-> Append(out, left % 128)]
      ELSE [left |-> left, shift |-> s.shift + 1, out |-> out]

SevenBitStream(data) ==
  FoldLeft(TakeByte, [left |-> 0, shift |-> 0, out |-> <<>>], Tail(data))

SevenBit(data, room) ==
  LET stream == SevenBitStream(data)
  IN  IF room < SevenBitSize(data) \/ stream.left # 0 THEN Failed
      ELSE Success(stream.out)

(* The library libfwnt is external: it writes what is stored and fails if  *)
(* the room is too small for it.  Bytes stored stand for what they expand  *)
(* to; the room that is left keeps the byte that was there.                *)
LzStored(data) == SubSeq(data, 4, Len(data))
LzExpand(stored, room, was) ==
  IF Len(stored) > room THEN Failed
  ELSE Success(stored \o [i \in 1..(room - Len(stored)) |-> was])

LzSize(data) ==
  IF Len(data) < 3 THEN -1 ELSE data[2] + 256 * data[3]

LzDecompress(data, room, was) ==
  IF Len(data) < 3 THEN Failed ELSE LzExpand(LzStored(data), room, was)

(* What memory that was never written holds. *)
Unset == 256

(* The size that room has to be made for, -1 for an error. *)
DecompressedSize(data) ==
  IF data = <<>> THEN -1
  ELSE IF IsLz(data) THEN LzSize(data) ELSE SevenBitSize(data)

Decompress(data, room) ==
  IF data = <<>> THEN Failed
  ELSE IF IsLz(data) THEN LzDecompress(data, room, Unset) ELSE SevenBit(data, room)

(* Text is taken for words if there is an even number of bytes and the     *)
(* first byte does not say otherwise, and for bytes if that fails.         *)
MayBeWords(data) ==
  DecompressedSize(data) % 2 = 0 /\ (IsLz(data) \/ (data[1] \div 16) % 2 = 0)

(* The library libuna is external.  Words are invalid with a surrogate     *)
(* that stands alone, bytes above 127 are left out.                        *)
WordsOf(bytes) ==
  [i \in 1..(Len(bytes) \div 2) |-> bytes[2 * i - 1] + 256 * bytes[2 * i]]
ValidWords(bytes) == \A i \in DOMAIN WordsOf(bytes) : WordsOf(bytes)[i] \notin 55296..57343
ValidBytes(bytes) == \A i \in DOMAIN bytes : bytes[i] < 128

NoText == [code |-> -1, units |-> <<>>]
Text(data) ==
  LET size == DecompressedSize(data)
      plain == Decompress(data, size)
  IN  IF size <= 0 \/ plain.code # 1 THEN NoText
      ELSE IF MayBeWords(data) /\ ValidWords(plain.bytes)
      THEN [code |-> 1, units |-> WordsOf(plain.bytes)]
      ELSE IF ValidBytes(plain.bytes) THEN [code |-> 1, units |-> plain.bytes]
      ELSE NoText

(* What a caller has to make room for, with the end of the string.         *)
Utf8Width(unit) == IF unit < 128 THEN 1 ELSE IF unit < 2048 THEN 2 ELSE 3
Utf8Size(data) ==
  IF Text(data).code = 1
  THEN 1 + FoldSeq(LAMBDA unit, sum : Utf8Width(unit) + sum, 0, Text(data).units) ELSE -1
Utf16Size(data) ==
  IF Text(data).code = 1 THEN 1 + Len(Text(data).units) ELSE -1

Utf8Copy(data, room) == IF room < Utf8Size(data) THEN NoText ELSE Text(data)
Utf16Copy(data, room) == IF room < Utf16Size(data) THEN NoText ELSE Text(data)
==============================================================================
