----------------------------- MODULE MCPageRead -----------------------------
(***************************************************************************)
(* PageRead on files that are made here from a layout - in a format before *)
(* the new records, with new records, and with the extended header - and   *)
(* on every file that differs from one of these in a single bit, that ends *)
(* inside a page, or that is smaller than its headers.                     *)
(***************************************************************************)
EXTENDS PageRead, SequencesExt

SmallPage == 64
BigPage == 112

-----------------------------------------------------------------------------
(***************************************************************************)
(* The checksums by their definition: the exclusive or counts the words    *)
(* with a bit, the ECC gathers the numbers of the bits that are set and    *)
(* the complements of the numbers.                                         *)
(***************************************************************************)
OddBits(sets) == {b \in 0 .. 31 : Cardinality({i \in DOMAIN sets : b \in sets[i]}) % 2 = 1}

XorOf(data, initial) ==
  OddBits(<<initial>> \o [i \in 1 .. Len(data) \div 4 |-> Word(SubSeq(data, 4 * i - 3, 4 * i))])

BitIsSet(data, n) == (data[n \div 8 + 1] \div 2 ^ (n % 8)) % 2 = 1

Locator(n) == {b \in 0 .. 15 : (n \div 2 ^ b) % 2 = 1} \union {b \in 16 .. 31 : (n \div 2 ^ (b - 16)) % 2 = 0}

EccOf(data) ==
  {b \in 0 .. 31 : Cardinality({n \in 64 .. 8 * Len(data) - 1 : BitIsSet(data, n) /\ b \in Locator(n)}) % 2 = 1}
    \ SizeMask(Len(data))

BytesOf(word) ==
  [k \in 1 .. 4 |->
    LET bit(b) == IF 8 * (k - 1) + b \in word THEN 2 ^ b ELSE 0
    IN  bit(0) + bit(1) + bit(2) + bit(3) + bit(4) + bit(5) + bit(6) + bit(7)]

Two(n) == <<n % 256, n \div 256>>
Four(n) == Two(n % 65536) \o Two(n \div 65536)
Zeros(n) == [i \in 1 .. n |-> 0]

-----------------------------------------------------------------------------
(***************************************************************************)
(* The layout of a page: its first value is the key that the others have   *)
(* the start of in common, then come values of a key and data.             *)
(***************************************************************************)
FlagsOfValue(v) == (IF v.common > 0 THEN CommonKeyFlag ELSE 0) + (IF v.defunct THEN DefunctFlag ELSE 0)

ValueBytes(v) == (IF v.common > 0 THEN Two(v.common) ELSE <<>>) \o Two(Len(v.key)) \o v.key \o v.data

Bodies(layout) == <<layout.head>> \o [i \in 1 .. Len(layout.values) |-> ValueBytes(layout.values[i])]

TagFlags(layout, i) == IF i = 1 THEN 0 ELSE FlagsOfValue(layout.values[i - 1])

\* In the extended format the flags are in the second byte of the value.
StoredBody(io_, layout, i) ==
  LET body == Bodies(layout)[i] IN
  IF IsExtended(io_) /\ Len(body) >= 2 THEN [body EXCEPT ![2] = @ + 32 * TagFlags(layout, i)] ELSE body

StoredBodies(io_, layout) == FoldLeft(LAMBDA a, b : a \o b, <<>>,
  [i \in 1 .. Len(Bodies(layout)) |-> StoredBody(io_, layout, i)])

OffsetOfBody(layout, i) == FoldLeft(LAMBDA a, b : a + Len(b), 0, SubSeq(Bodies(layout), 1, i - 1))

TagBytes(io_, layout, i) ==
  Two(Len(Bodies(layout)[i])) \o
  Two(OffsetOfBody(layout, i) + (IF IsExtended(io_) THEN 0 ELSE 8192 * TagFlags(layout, i)))

TagsBytes(io_, layout) == FoldLeft(LAMBDA a, b : b \o a, <<>>,
  [i \in 1 .. Len(Bodies(layout)) |-> TagBytes(io_, layout, i)])

PageBytes(io_, number, layout) ==
  LET tags == Len(Bodies(layout))
      start == Zeros(8) \o Four(layout.prev) \o Four(layout.next) \o Four(7) \o Zeros(6) \o Two(tags)
               \o BytesOf(layout.flags) \o Zeros(PageHeaderSize(io_) - 40)
      body == StoredBodies(io_, layout)
      room == io_.pageSize - 8 - Len(start) - Len(body) - 4 * tags
      rest == start \o body \o Zeros(room) \o TagsBytes(io_, layout)
      whole == Zeros(8) \o rest
  IN  IF IsExtended(io_) THEN <<1, 0, 0, 0>> \o Four(0) \o rest
      ELSE IF HasNewRecords(io_, layout.flags)
      THEN BytesOf(XorOf(rest, {b \in 0 .. 15 : (number \div 2 ^ b) % 2 = 1})) \o BytesOf(EccOf(whole)) \o rest
      ELSE BytesOf(XorOf(Four(number) \o rest, InitialXor)) \o Four(number) \o rest

HeaderBytes(io_, state) ==
  LET rest == Signature \o Four(1568) \o Four(0) \o Four(state) \o Four(io_.revision) \o Four(io_.pageSize)
              \o Four(1568) \o Four(io_.revision)
  IN  BytesOf(XorOf(rest, InitialXor)) \o rest

-----------------------------------------------------------------------------
Leaves == [prev |-> 0, next |-> 2, flags |-> {Root, Leaf}, head |-> <<7, 8, 9>>,
           values |-> <<[common |-> 2, key |-> <<5>>, data |-> <<>>, defunct |-> FALSE]>>]
NewLeaves == [Leaves EXCEPT !.flags = @ \union {NewRecord}]
BigLeaves == [NewLeaves EXCEPT !.values =
               @ \o <<[common |-> 0, key |-> <<6>>, data |-> <<255>>, defunct |-> TRUE]>>]
EmptyHead == [prev |-> 1, next |-> 0, flags |-> {Leaf, 6}, head |-> <<>>,
              values |-> <<[common |-> 0, key |-> <<3, 4>>, data |-> <<1>>, defunct |-> TRUE]>>]

Old == [revision |-> 9, pageSize |-> SmallPage]
New == [revision |-> 17, pageSize |-> SmallPage]
Big == [revision |-> 290, pageSize |-> BigPage]

FirstLayout(io_) == CASE io_ = Old -> Leaves [] io_ = New -> NewLeaves [] io_ = Big -> BigLeaves
Layouts(io_) == <<FirstLayout(io_), EmptyHead>>

PagesOf(io_) == PageBytes(io_, 1, FirstLayout(io_)) \o PageBytes(io_, 2, EmptyHead)

FileOf(io_, state) ==
  [format |-> io_, header |-> HeaderBytes(io_, state), damage |-> "none",
   bytes |-> Zeros(2 * io_.pageSize) \o PagesOf(io_)]

Flip(data, n) ==
  [data EXCEPT ![n \div 8 + 1] = IF BitIsSet(data, n) THEN @ - 2 ^ (n % 8) ELSE @ + 2 ^ (n % 8)]

\* A bit of the first page is flipped, which is then the only one.
PageFlips(io_) ==
  LET sound == FileOf(io_, 3) IN
  {[sound EXCEPT !.damage = "page", !.bytes = Flip(SubSeq(@, 1, 3 * io_.pageSize), n)] :
     n \in 16 * io_.pageSize .. 24 * io_.pageSize - 1}

\* A bit of the file header is flipped; the highest byte of the numbers is left alone.
HeaderFlips(state) ==
  LET sound == FileOf(Old, state) IN
  {[sound EXCEPT !.damage = "header", !.header = Flip(@, n)] :
     n \in (0 .. 8 * FileHeaderSize - 1) \ ((184 .. 191) \union (216 .. 223))}

\* The file ends before its pages do.
Cuts(io_) ==
  LET sound == FileOf(io_, 3) IN
  {[sound EXCEPT !.damage = "cut", !.bytes = SubSeq(@, 1, n)] :
     n \in {0, 1, SmallPage, 2 * SmallPage - 1, 2 * SmallPage, 3 * SmallPage - 1, 3 * SmallPage, 4 * SmallPage - 1}}

Formats == {Old, New, Big}

MCFiles == {FileOf(f, s) : f \in Formats, s \in {2, 3}}
             \union UNION {PageFlips(f) : f \in Formats}
             \union HeaderFlips(2) \union HeaderFlips(3) \union Cuts(Old)

-----------------------------------------------------------------------------
TypeOK ==
  /\ pc \in {"file header", "range", "ready", "data", "header", "checksums", "tags", "values", "closed"}
  /\ (page = NoPage) = (pc \in {"file header", "range", "ready", "closed"})
  /\ io.lastPage \in 0 .. NumberWrap - 1 /\ io.pagesSize \in 0 .. SizeWrap - 1
  /\ answer \in {-1, 1, Busy}
  /\ (answer = Busy) = (pc \notin {"ready", "closed"})

IsSound == file.damage = "none"

\* A page of a sound file is read as it was laid out, in each of the formats: its number, its
\* links, its flags, its values with their flags, and checksums that agree
\* (libesedb_page_read_file_io_handle).
SoundPageIsRead ==
  IsSound /\ cached # NoPage =>
    LET layout == Layouts(file.format)[cached.number] IN
    /\ cached.header.prev = Word(Four(layout.prev)) /\ cached.header.next = Word(Four(layout.next))
    /\ cached.header.flags = layout.flags
    /\ cached.checked = "match"
    /\ Len(cached.values) = Len(Bodies(layout))
    /\ \A i \in DOMAIN cached.values :
         /\ DataOf(cached, i) = Bodies(layout)[i]
         /\ cached.values[i].flags = TagFlags(layout, i)

\* The key of every value is put together again from the start that it has in common with the
\* first value and the rest, the flags of the extended format gone (libesedb_page_tree_get_key).
KeysAreRestored ==
  IsSound /\ cached # NoPage =>
    LET layout == Layouts(file.format)[cached.number] IN
    \A i \in DOMAIN layout.values :
      KeyOf(cached, i + 1) = [ok |-> TRUE, type |-> "leaf",
                              key |-> SubSeq(layout.head, 1, layout.values[i].common) \o layout.values[i].key]

\* A flipped bit of a page without the extended header is noticed when the page is read
\* (libesedb_page_calculate_checksums, and the comparison that is logged).
DamageIsNoticed ==
  file.damage = "page" /\ cached # NoPage /\ cached.number = 1 /\ ~ IsExtended(io) =>
    cached.checked = "mismatch"

\* A file header with a flipped bit is refused unless it says that the database was not closed
\* cleanly, which turns the comparison off (libesedb_file_header_read_data).
DamagedHeaderIsRefused ==
  file.damage = "header" /\ WordAt(file.header, 16) # {1} => pc \in {"file header", "closed"}

(* A page or a file header that differs from its checksum is refused,      *)
(* unless the code says that the checksum does not count                   *)
(* (libesedb_page_read_file_io_handle, libesedb_file_header_read_data).    *)
DamageIsSeen == DamageIsNoticed /\ DamagedHeaderIsRefused

Pages == INSTANCE Pages WITH LastPage <- MaxPage, PageSize <- SmallPage, WordSize <- SizeWrap, Refs <- {}

\* The page as the page tree sees it.
SeenPage(read) ==
  LET flags == read.header.flags IN
  [flags |-> {f \in Pages!Flags :
                \/ f = "root" /\ Root \in flags
                \/ f = "leaf" /\ Leaf \in flags
                \/ f = "empty" /\ Empty \in flags
                \/ f = "space" /\ SpaceTree \in flags
                \/ f = "other" /\ ~ (flags \subseteq SupportedFlags \union {SpaceTree, Empty})},
   prev |-> IF read.header.prev = {} THEN 0 ELSE 1,
   next |-> IF read.header.next = {} THEN 0 ELSE 1,
   bare |-> read.values = <<>>, values |-> <<>>]

\* The validations of the flags and the links that the page tree counts on are the ones of the
\* bits that are stored, and a page is where the page tree expects it
\* (libesedb_page_validate_root_page, libesedb_page_validate_page).
PageTreeSeesThePage ==
  cached # NoPage =>
    /\ ValidHeader(cached.header) = Pages!ValidPage(SeenPage(cached))
    /\ ValidRootHeader(cached.header) = Pages!ValidRootPage(SeenPage(cached))
    /\ io.pageSize = SmallPage => cached.offset = Pages!PageOffset(cached.number)

(* A sound page is read into the values and keys that were written to it,  *)
(* and that is what the page tree finds in it                              *)
(* (libesedb_page_read_file_io_handle).                                    *)
PageIsRestored ==
  /\ TypeOK
  /\ SoundPageIsRead
  /\ KeysAreRestored
  /\ PageTreeSeesThePage

\* Every read ends, whatever the page holds, and the page can be asked for again.
ReadsEnd == (pc = "data") ~> (pc = "ready")

=============================================================================
