---------------------------- MODULE RecordLayout ----------------------------
(***************************************************************************)
(* The bytes of a row as the format lays them out, and where each value    *)
(* is in them: a definition to compare RecordRead with, which models no    *)
(* code.  A content has                                                    *)
(*   columns  the columns of the table, by position,                       *)
(*   fixed    the last column of a fixed size that the row has,            *)
(*   sizes    for each variable column from 128 on its size or Null,       *)
(*   tags     the tagged values: pos of the column, bytes, flags or NoFlags. *)
(***************************************************************************)
EXTENDS Integers, Sequences, SequencesExt

Null == -1
NoFlags == -1
Payload == 7

Total(s) == FoldSeq(LAMBDA n, sum : n + sum, 0, s)
Fill(n) == [i \in 1..n |-> Payload]
LittleEndian(w) == <<w % 256, w \div 256>>
Sizes(s) == [i \in 1..Len(s) |-> IF s[i] = Null THEN 0 ELSE s[i]]

FixedSizes(c, id) ==
  [i \in 1..Len(c.columns) |->
     IF c.columns[i].id <= id THEN c.columns[i].size ELSE 0]
SizesAt(c) == 4 + Total(FixedSizes(c, c.fixed))
ValuesAt(c) == SizesAt(c) + 2 * Len(c.sizes)
TagsAt(c) == ValuesAt(c) + Total(Sizes(c.sizes))

Stored(tag) == Len(tag.bytes) + (IF tag.flags = NoFlags THEN 0 ELSE 1)
StoredBefore(c, i) == Total([j \in 1..(i - 1) |-> Stored(c.tags[j])])
TagBytes(tag) == (IF tag.flags = NoFlags THEN <<>> ELSE <<tag.flags>>) \o tag.bytes
TagId(c, i) == LittleEndian(c.columns[c.tags[i].pos].id)

Header(c) == <<c.fixed, 127 + Len(c.sizes)>> \o LittleEndian(SizesAt(c))

Ends(c) ==
  FlattenSeq([i \in 1..Len(c.sizes) |->
    LittleEndian(Total(SubSeq(Sizes(c.sizes), 1, i)) + (IF c.sizes[i] = Null THEN 32768 ELSE 0))])

TagOffset(c, i) == 4 * Len(c.tags) + StoredBefore(c, i)

Indexed(c, extended) ==
  FlattenSeq([i \in 1..Len(c.tags) |->
    TagId(c, i) \o LittleEndian(TagOffset(c, i)
       + (IF extended \/ c.tags[i].flags = NoFlags THEN 0 ELSE 16384))])
  \o FlattenSeq([i \in 1..Len(c.tags) |-> TagBytes(c.tags[i])])

Listed(c) ==
  FlattenSeq([i \in 1..Len(c.tags) |->
    TagId(c, i) \o LittleEndian(Stored(c.tags[i])
       + (IF c.tags[i].flags = NoFlags THEN 0 ELSE 32768))
    \o TagBytes(c.tags[i])])

Encode(c, linear, extended) ==
  Header(c) \o Fill(SizesAt(c) - 4) \o Ends(c) \o Fill(Total(Sizes(c.sizes)))
  \o (IF linear THEN Listed(c) ELSE Indexed(c, extended))

-----------------------------------------------------------------------------
(* Text in values of 7 bits, behind a first byte that says so. *)

BitsOf(units) ==
  [k \in 1..(7 * Len(units)) |-> (units[(k - 1) \div 7 + 1] \div 2^((k - 1) % 7)) % 2]
BitAt(bits, k) == IF k <= Len(bits) THEN bits[k] ELSE 0
ByteAt(bits, j) ==
  FoldSeq(LAMBDA n, sum : BitAt(bits, 8 * j + n + 1) * 2^n + sum, 0, [n \in 1..8 |-> n - 1])
Packed(units) ==
  <<16>> \o [j \in 1..((7 * Len(units) + 7) \div 8) |-> ByteAt(BitsOf(units), j - 1)]

-----------------------------------------------------------------------------
(* Where the value of the column at a position is: size 0 is no value. *)

Extent(o, n) == [offset |-> o, size |-> n]
Nowhere == Extent(0, 0)

TagStart(c, i, linear) ==
  TagsAt(c) + StoredBefore(c, i) + 4 * (IF linear THEN i ELSE Len(c.tags))
  + (IF c.tags[i].flags = NoFlags THEN 0 ELSE 1)

FixedRange(c, id) ==
  IF id > c.fixed THEN Nowhere
  ELSE Extent(4 + Total(FixedSizes(c, id - 1)),
             Total(FixedSizes(c, id)) - Total(FixedSizes(c, id - 1)))

VariableRange(c, id) ==
  LET i == id - 127
  IN  IF i > Len(c.sizes) \/ Sizes(c.sizes)[i] = 0 THEN Nowhere
      ELSE Extent(ValuesAt(c) + Total(SubSeq(Sizes(c.sizes), 1, i - 1)), c.sizes[i])

TagRange(c, pos, linear) ==
  LET here == {i \in 1..Len(c.tags) : c.tags[i].pos = pos /\ c.tags[i].bytes # <<>>}
  IN  IF here = {} THEN Nowhere
      ELSE LET i == CHOOSE i \in here : TRUE
           IN  Extent(TagStart(c, i, linear), Len(c.tags[i].bytes))

RangeOf(c, pos, linear) ==
  LET id == c.columns[pos].id
  IN  IF id <= 127 THEN FixedRange(c, id)
      ELSE IF id <= 255 THEN VariableRange(c, id)
      ELSE TagRange(c, pos, linear)
=============================================================================
