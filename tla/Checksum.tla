------------------------------ MODULE Checksum ------------------------------
(***************************************************************************)
(* The checksums of libesedb_checksum.c.  A 32-bit word is the set of the  *)
(* numbers of its bits that are set, the exclusive or of words has the     *)
(* bits that are in an odd number of them, and data is a sequence of       *)
(* bytes, in which a word has a place, counted from 0.                     *)
(***************************************************************************)
EXTENDS Integers, Sequences, FiniteSets

IsOdd(set) == Cardinality(set) % 2 = 1

\* What is behind the data counts as zero.
BitAt(data, at, b) ==
  at + b \div 8 < Len(data) /\ (data[at + b \div 8 + 1] \div 2 ^ (b % 8)) % 2 = 1

WordAt(data, at) == {b \in 0 .. 31 : BitAt(data, at, b)}

Word(bytes) == WordAt(bytes, 0)

\* The exclusive or of words, and of the words at some places of the data.
Xor[words \in Seq(SUBSET (0 .. 31))] ==
  {b \in 0 .. 31 : IsOdd({i \in DOMAIN words : b \in words[i]})}

XorAt(data, places) == {b \in 0 .. 31 : IsOdd({at \in places : BitAt(data, at, b)})}

\* The places of the words from one offset to another, with a step between them.
Places(from, to, step) == {from + step * n : n \in 0 .. (to - from + step - 1) \div step - 1}

\* 0x89abcdef
InitialXor == Word(<<239, 205, 171, 137>>)

-----------------------------------------------------------------------------
(***************************************************************************)
(* libesedb_checksum_calculate_little_endian_xor32: up to the alignment    *)
(* word by word, then in lanes of 64 bits, the rest word by word again.    *)
(* The address of the data is 0 or 4 modulo 8 for every caller.            *)
(***************************************************************************)
LaneSize == 8

\* while( size > sizeof( libesedb_aligned_t ) )
Lanes(size) == (size - 1) \div LaneSize

Xor32(data, from, initial, alignment) ==
  LET size == Len(data) - from
      wide == size > 2 * LaneSize
      head == IF wide /\ alignment > 0 THEN LaneSize - alignment ELSE 0
      laned == from + head
      rest == laned + LaneSize * (IF wide THEN Lanes(size - head) ELSE 0)
  IN  Xor[<<initial,
            XorAt(data, Places(from, laned, 4)),
            XorAt(data, Places(laned, rest, LaneSize)), XorAt(data, Places(laned + 4, rest, LaneSize)),
            XorAt(data, Places(rest, Len(data), 4))>>]

-----------------------------------------------------------------------------
(***************************************************************************)
(* libesedb_checksum_calculate_little_endian_ecc32: a chunk is 16 bytes,   *)
(* four words.  The odd chunks, the odd pairs of word columns and the odd  *)
(* bits of all the words each contribute a mask.                           *)
(***************************************************************************)
ChunkSize == 16

\* The bits of  high * 2^16 - n * step  in a uint32_t.
Countdown(high, n, step) ==
  LET low == (n * step) % 65536
      borrow == (n * step) \div 65536 + (IF low > 0 THEN 1 ELSE 0)
      bits(half) == {b \in 0 .. 15 : ((half % 65536) \div 2 ^ b) % 2 = 1}
  IN  bits(65536 - low) \union {b + 16 : b \in bits(high - borrow)}

\* 0xff800000, less 0x007fff80 for every chunk
ChunkMask(n) == Countdown(65408, n, 8388480)

\* 0xffff0000, less 0x0000ffff for every bit
BitMask(b) == Countdown(65535, b, 65535)

ColumnMask(i, j) ==
  CASE i = 0 /\ j = 1 -> {22}
    [] i = 0 /\ j = 2 -> {21}
    [] i = 1 /\ j = 3 -> {5}
    [] i = 2 /\ j = 3 -> {6}

\* 0x001f001f
LowMask == (0 .. 4) \union (16 .. 20)

\* The bits of size << 19, which are cleared for a size below 8192.
SizeMask(size) == IF size < 8192 THEN {b \in 19 .. 31 : (size \div 2 ^ (b - 19)) % 2 = 1} ELSE {}

\* The places behind the offset of the words of a chunk, and of a column, counted from 0.
ChunkPlaces(data, offset, n) == {at \in Places(ChunkSize * n, ChunkSize * (n + 1), 4) : at \in offset .. Len(data) - 1}
ColumnPlaces(data, offset, k) == {at \in Places(4 * k, Len(data), ChunkSize) : at >= offset}

\* The chunks count from the one that the offset is in.
OddChunks(data, offset) ==
  LET first == offset \div ChunkSize IN
  {n \in 0 .. (Len(data) - 1) \div ChunkSize - first :
     IsOdd(XorAt(data, ChunkPlaces(data, offset, first + n)))}

PairMask(data, offset, i, j) ==
  IF IsOdd(XorAt(data, ColumnPlaces(data, offset, i) \union ColumnPlaces(data, offset, j)))
  THEN ColumnMask(i, j) ELSE {}

\* The masks of the odd chunks and of the odd bits.
ChunkMasks[odd \in SUBSET Nat] == {b \in 0 .. 31 : IsOdd({n \in odd : b \in ChunkMask(n)})}
BitMasks[odd \in SUBSET (0 .. 31)] == {b \in LowMask : IsOdd({n \in odd : b \in BitMask(n)})}

Ecc32(data, offset, initial) ==
  LET chunks == ChunkMasks[OddChunks(data, offset)]
      pairs == Xor[<<chunks, PairMask(data, offset, 0, 1), PairMask(data, offset, 0, 2),
                     PairMask(data, offset, 1, 3), PairMask(data, offset, 2, 3)>>]
      all == XorAt(data, Places(offset, Len(data), 4))
  IN  [ecc |-> ((pairs \ SizeMask(Len(data))) \ LowMask) \union BitMasks[all],
       xor |-> Xor[<<initial, all>>]]
=============================================================================
