----------------------------- MODULE PageFormat -----------------------------
(***************************************************************************)
(* What the bytes of the file header and of a page say, in the formats     *)
(* that differ: pages with the extended header (format revision 0x11 and   *)
(* later with large pages) and without (libesedb_file_header.c,            *)
(* libesedb_page_header.c, libesedb_page.c).                               *)
(*                                                                         *)
(* Positions in the data count from 1.  The file header is scaled down to  *)
(* the fields that are read; the page headers are as they are.             *)
(***************************************************************************)
EXTENDS Integers, Sequences, FiniteSets, Checksum

CONSTANT LargePage   \* 16384, the smallest page with an extended header

ASSUME LargePageAssumption == LargePage \in Nat \ {0}

Uint16(data, at) == data[at] + 256 * data[at + 1]
Uint32(data, at) == Uint16(data, at) + 65536 * Uint16(data, at + 2)

-----------------------------------------------------------------------------
(***************************************************************************)
(* The file header: checksum, signature, version, type, state, format      *)
(* revision, page size, and the version and revision of its creation.      *)
(***************************************************************************)
FileHeaderSize == 36
Signature == <<239, 205, 171, 137>>

BadFileHeader == [ok |-> FALSE, version |-> {}, type |-> {}, state |-> {}, revision |-> 0,
                  pageSize |-> 0, creationVersion |-> {}, creationRevision |-> {}]

\* Mutant: a header that was not closed cleanly is refused, any other accepted.
ChecksumAcceptedWhenClean(data) ==
  WordAt(data, 16) = {1} => WordAt(data, 0) = Xor32(data, 4, InitialXor, 4)

\* libesedb_file_header_read_data: the checksum counts unless the state is 2.
ChecksumAccepted(data) ==
  WordAt(data, 16) # {1} => WordAt(data, 0) = Xor32(data, 4, InitialXor, 4)

FileHeader(data) ==
  IF SubSeq(data, 5, 8) # Signature \/ ~ ChecksumAccepted(data)
  THEN BadFileHeader
  ELSE [ok |-> TRUE, version |-> WordAt(data, 8), type |-> WordAt(data, 12), state |-> WordAt(data, 16),
        revision |-> Uint32(data, 21), pageSize |-> Uint32(data, 25),
        creationVersion |-> WordAt(data, 28), creationRevision |-> WordAt(data, 32)]

-----------------------------------------------------------------------------
(***************************************************************************)
(* The header of a page.                                                   *)
(***************************************************************************)
NewRecordRevision == 11      \* 0x0b
ExtendedRevision == 17       \* 0x11
SmallTagRevision == 290      \* 0x122

IsExtended(io) == io.revision >= ExtendedRevision /\ io.pageSize >= LargePage

PageHeaderSize(io) == IF IsExtended(io) THEN 80 ELSE 40

\* The numbers of the bits of page_flags.
Root == 0
Leaf == 1
Parent == 2
Empty == 3
SpaceTree == 5
NewRecord == 13
SupportedFlags == {Root, Leaf, Parent, 6, 7, 10, 11, NewRecord, 14, 15, 16}

HasNewRecords(io, flags) == io.revision >= NewRecordRevision /\ NewRecord \in flags

\* The numbers of pages are words: whether they are zero is all that matters here.
NoHeader == [prev |-> {}, next |-> {}, fdp |-> {}, tags |-> 0, flags |-> {}, xor |-> {}, ecc |-> {}, number |-> {}]

TagCount(io, data) ==
  IF io.revision >= SmallTagRevision THEN Uint16(data, 35) % 4096 ELSE Uint16(data, 35)

\* libesedb_page_header_read_data
PageHeader(io, data) ==
  LET flags == WordAt(data, 36) IN
  [prev |-> WordAt(data, 16), next |-> WordAt(data, 20), fdp |-> WordAt(data, 24),
   tags |-> TagCount(io, data), flags |-> flags,
   xor |-> IF IsExtended(io) THEN {} ELSE WordAt(data, 0),
   ecc |-> IF ~ IsExtended(io) /\ HasNewRecords(io, flags) THEN WordAt(data, 4) ELSE {},
   number |-> IF IsExtended(io) \/ HasNewRecords(io, flags) THEN {} ELSE WordAt(data, 4)]

\* libesedb_page_calculate_checksums; nothing is compared when "known" is false.
PageChecksums(io, data, header, number) ==
  IF WordAt(data, 0) = {} THEN [known |-> FALSE, ecc |-> {}, xor |-> {}]
  ELSE IF IsExtended(io) THEN [known |-> TRUE, ecc |-> {}, xor |-> {}]
  ELSE IF HasNewRecords(io, header.flags)
  THEN LET sums == Ecc32(data, 8, {b \in 0 .. 15 : (number \div 2 ^ b) % 2 = 1})
       IN  [known |-> TRUE, ecc |-> sums.ecc, xor |-> sums.xor]
  ELSE [known |-> TRUE, ecc |-> {}, xor |-> Xor32(data, 4, InitialXor, 4)]

\* libesedb_page_validate_root_page
ValidRootHeader(header) ==
  /\ Root \in header.flags
  /\ Empty \in header.flags \/ header.flags \subseteq SupportedFlags \union {SpaceTree}

\* libesedb_page_validate_page
ValidHeader(header) ==
  \/ Empty \in header.flags
  \/ /\ header.flags \subseteq SupportedFlags
     /\ Leaf \in header.flags \/ (header.prev = {} /\ header.next = {})

-----------------------------------------------------------------------------
(***************************************************************************)
(* The tags at the end of a page: the first tag is the last one.           *)
(***************************************************************************)
\* libesedb_page_read_tags
Tag(io, data, i) ==
  LET at == Len(data) - 4 * i + 1
      offset == Uint16(data, at + 2)
      size == Uint16(data, at)
  IN  IF IsExtended(io)
      THEN [flags |-> 0, offset |-> offset % 32768, size |-> size % 32768]
      ELSE [flags |-> offset \div 8192, offset |-> offset % 8192, size |-> size % 8192]

\* What the tags leave of the page for the values, behind the header.
ValuesSize(io, data, tags) == Len(data) - PageHeaderSize(io) - 4 * tags

\* Mutant: a value may reach into the tags.
ValueFitsPage(io, data, tags, value) ==
  value.offset < ValuesSize(io, data, tags) /\ value.size <= Len(data) - PageHeaderSize(io) - value.offset

ValueFits(io, data, tags, value) ==
  /\ value.offset < ValuesSize(io, data, tags)
  /\ value.size <= ValuesSize(io, data, tags) - value.offset

\* The extended format has the flags of a value in the upper bits of its second byte.
FlagsInData(io, value) == IsExtended(io) /\ value.size >= 2
=============================================================================
