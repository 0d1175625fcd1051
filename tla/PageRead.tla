------------------------------ MODULE PageRead ------------------------------
(***************************************************************************)
(* Reading the pages of a database file: the file header settles the       *)
(* format, the size of the file settles the range of the pages, and a page *)
(* is read step by step - its data, its header, its checksums, its tags    *)
(* and one value after the other (libesedb_io_handle.c, libesedb_page.c).  *)
(*                                                                         *)
(* The vector of pages and the cache of libfdata and libfcache are         *)
(* external: they keep the last page that was read, and whether they take  *)
(* a range whose size has wrapped is left open.                            *)
(***************************************************************************)
EXTENDS PageFormat, PageTreeValue

CONSTANTS
  Files,      \* the files: their header, their bytes and how they were made
  NoPage,     \* NULL
  OldSizes,   \* the page sizes of a format before the new records: 0x1000 and 0x2000
  NewSizes,   \* the page sizes since then: 0x0800 to 0x8000
  SizeWrap,   \* 2^64, the modulus of the arithmetic on a size64_t
  NumberWrap, \* 2^32, that of a page size and of a page number
  MaxPage     \* bound on the numbers of the pages that are asked for

ASSUME WrapAssumption == SizeWrap \in Nat \ {0} /\ NumberWrap \in Nat \ {0}
ASSUME SizesAssumption == \A size \in OldSizes \cup NewSizes : size \in Nat \ {0} /\ 2 * size < NumberWrap
ASSUME MaxPageAssumption == MaxPage \in Nat

\* Headers and files are bytes, a header is read as a whole, and a file has a size that is a size64_t.
ASSUME FilesAssumption ==
  \A f \in Files :
    /\ f.header \in Seq(0 .. 255) /\ Len(f.header) = FileHeaderSize
    /\ f.bytes \in Seq(0 .. 255) /\ Len(f.bytes) < SizeWrap

VARIABLES
  file,     \* the file
  io,       \* io_handle: format revision, page size and the range of the pages
  pc,       \* where the reading is
  page,     \* the page that is being read
  cached,   \* the page that the vector of pages holds
  answer    \* what the last read returned: 1, -1, or 2 while it runs

vars == <<file, io, pc, page, cached, answer>>

NoIo == [revision |-> 0, pageSize |-> 0, pagesOffset |-> 0, pagesSize |-> 0, lastPage |-> 0]

Busy == 2

Init ==
  /\ file \in Files
  /\ io = NoIo /\ pc = "file header" /\ page = NoPage /\ cached = NoPage
  /\ answer = Busy

\* The bytes of the file from an offset; fewer than asked for at its end.
BytesAt(offset, n) == SubSeq(file.bytes, offset + 1, Min({offset + n, Len(file.bytes)}))

-----------------------------------------------------------------------------
(***************************************************************************)
(* The file header and the range of the pages.                             *)
(***************************************************************************)
OpenFails == pc' = "closed" /\ answer' = -1 /\ UNCHANGED <<file, io, page, cached>>

\* 0x620, as its bits
FormatVersion == {5, 9, 10}

Supported(header) ==
  /\ header.ok /\ header.version = FormatVersion
  /\ header.pageSize \in (IF header.revision < ExtendedRevision THEN OldSizes ELSE NewSizes)

ReadFileHeader ==
  /\ pc = "file header"
  /\ LET header == FileHeader(file.header) IN
     IF ~ Supported(header) THEN OpenFails
     ELSE /\ io' = [NoIo EXCEPT !.revision = header.revision, !.pageSize = header.pageSize]
          /\ pc' = "range"
          /\ UNCHANGED <<file, page, cached, answer>>

\* The size of a page is a number of 32 bits, and so is its double.
PagesOffset(pageSize) == (2 * pageSize) % NumberWrap

\* A file that is smaller than its two headers has a size below zero, which wraps.
PagesSize(size, pageSize) == (size - PagesOffset(pageSize)) % SizeWrap

RangeWraps == Len(file.bytes) < 2 * io.pageSize

\* libesedb_io_handle_set_pages_data_range, and the segment of the vector of pages
SetPagesRange ==
  /\ pc = "range"
  /\ LET size == PagesSize(Len(file.bytes), io.pageSize) IN
     io' = [io EXCEPT !.pagesOffset = PagesOffset(io.pageSize), !.pagesSize = size,
                      !.lastPage = (size \div io.pageSize) % NumberWrap]
  /\ pc' = "ready"
  /\ answer' = 1
  /\ UNCHANGED <<file, page, cached>>

RangeRefused == pc = "range" /\ RangeWraps /\ OpenFails

-----------------------------------------------------------------------------
(***************************************************************************)
(* A page.  A read that fails frees it and hands nothing to the vector.    *)
(***************************************************************************)
\* Mutant: the page is not freed.
ReadFailsKeeping ==
  /\ pc' = "ready"
  /\ answer' = -1
  /\ UNCHANGED <<file, io, page, cached>>

\* Mutant: a read that fails is tried again.
ReadFailsRetrying == UNCHANGED vars

ReadFails ==
  /\ page' = NoPage
  /\ pc' = "ready"
  /\ answer' = -1
  /\ UNCHANGED <<file, io, cached>>

PageElement(n) == io.pagesOffset + (n - 1) * io.pageSize

\* The number of a page from its offset, page->page_number.
PageNumber(offset) == ((offset - io.pageSize) \div io.pageSize) % NumberWrap

\* libesedb_io_handle_read_page
AskForPage(n) ==
  /\ pc = "ready"
  /\ n <= io.lastPage
  /\ answer' = Busy
  /\ pc' = "data"
  /\ page' = [number |-> PageNumber(PageElement(n)), offset |-> PageElement(n), data |-> <<>>,
              header |-> NoHeader, checked |-> "no", next |-> 1, values |-> <<>>]
  /\ UNCHANGED <<file, io, cached>>

ReadData ==
  /\ pc = "data"
  /\ IF Len(BytesAt(page.offset, io.pageSize)) # io.pageSize THEN ReadFails
     ELSE /\ page' = [page EXCEPT !.data = BytesAt(page.offset, io.pageSize)]
          /\ pc' = "header"
          /\ UNCHANGED <<file, io, cached, answer>>

\* The medium fails.
ReadFault == pc = "data" /\ ReadFails

ReadHeader ==
  /\ pc = "header"
  /\ IF Len(page.data) < PageHeaderSize(io) THEN ReadFails
     ELSE /\ page' = [page EXCEPT !.header = PageHeader(io, page.data)]
          /\ pc' = "checksums"
          /\ UNCHANGED <<file, io, cached, answer>>

\* A checksum that differs is only logged.
CheckChecksums ==
  /\ pc = "checksums"
  /\ LET sums == PageChecksums(io, page.data, page.header, page.number) IN
     page' = [page EXCEPT !.checked =
                IF ~ sums.known THEN "no"
                ELSE IF sums.xor = page.header.xor /\ sums.ecc = page.header.ecc THEN "match"
                ELSE "mismatch"]
  /\ pc' = "tags"
  /\ UNCHANGED <<file, io, cached, answer>>

Done(read) ==
  /\ cached' = read
  /\ page' = NoPage
  /\ pc' = "ready"
  /\ answer' = 1
  /\ UNCHANGED <<file, io>>

\* libesedb_page_read_tags; a page without tags has no values.
ReadTags ==
  /\ pc = "tags"
  /\ LET tags == page.header.tags
         room == Len(page.data) - PageHeaderSize(io)
     IN  IF room <= 0 \/ 4 * tags > Len(page.data) \/ 4 * tags > room THEN ReadFails
         ELSE IF tags = 0 THEN Done(page)
         ELSE /\ page' = [page EXCEPT !.values = [i \in 1 .. tags |-> Tag(io, page.data, i)]]
              /\ pc' = "values"
              /\ UNCHANGED <<file, io, cached, answer>>

\* The data of a value is the page's own: clearing the flags shows in both.
ReadValue ==
  /\ pc = "values"
  /\ LET value == page.values[page.next]
         at == PageHeaderSize(io) + value.offset
         inData == FlagsInData(io, value)
         data == IF inData THEN [page.data EXCEPT ![at + 2] = @ % 32] ELSE page.data
         entry == [value EXCEPT !.flags = IF inData THEN page.data[at + 2] \div 32 ELSE @, !.offset = at]
         read == [page EXCEPT !.next = @ + 1, !.data = data, !.values[page.next] = entry]
     IN  IF ~ ValueFits(io, page.data, Len(page.values), value) THEN ReadFails
         ELSE IF page.next = Len(page.values) THEN Done(read)
         ELSE page' = read /\ UNCHANGED <<file, io, pc, cached, answer>>

\* libesedb_file_close
Close ==
  /\ pc = "ready"
  /\ pc' = "closed" /\ io' = NoIo /\ cached' = NoPage /\ answer' = 1
  /\ UNCHANGED <<file, page>>

Open == ReadFileHeader \/ SetPagesRange \/ RangeRefused
Read == ReadData \/ ReadFault \/ ReadHeader \/ CheckChecksums \/ ReadTags \/ ReadValue
Next == Open \/ (\E n \in 1 .. MaxPage : AskForPage(n)) \/ Read \/ Close

Spec == Init /\ [][Next]_vars /\ WF_vars(Open) /\ WF_vars(Read)

-----------------------------------------------------------------------------
(***************************************************************************)
(* What the page tree makes of a value: its data in the page, and its key  *)
(* (libesedb_page_tree_get_key).                                           *)
(***************************************************************************)
CommonKeyFlag == 4
DefunctFlag == 2

DataOf(read, i) ==
  SubSeq(read.data, read.values[i].offset + 1, read.values[i].offset + read.values[i].size)

TreeValueOf(read, i) == TreeValue(DataOf(read, i), (read.values[i].flags \div CommonKeyFlag) % 2 = 1)

BadKey == [ok |-> FALSE, key |-> <<>>, type |-> "none"]

\* Mutant: the rest of the key comes first.
KeyOfLocalFirst(read, i) ==
  LET value == TreeValueOf(read, i) IN
  IF ~ value.ok \/ value.common > read.values[1].size THEN BadKey
  ELSE [ok |-> TRUE, key |-> value.key \o SubSeq(DataOf(read, 1), 1, value.common),
        type |-> IF Leaf \in read.header.flags THEN "leaf" ELSE "branch"]

KeyOf(read, i) ==
  LET value == TreeValueOf(read, i) IN
  IF ~ value.ok \/ value.common > read.values[1].size THEN BadKey
  ELSE [ok |-> TRUE, key |-> SubSeq(DataOf(read, 1), 1, value.common) \o value.key,
        type |-> IF Leaf \in read.header.flags THEN "leaf" ELSE "branch"]

-----------------------------------------------------------------------------
\* Whatever the tags of a page say, the values that it hands out lie behind its header and before
\* its tags (libesedb_page_read_values).
ValuesInsidePage ==
  cached # NoPage =>
    \A i \in DOMAIN cached.values :
      /\ cached.values[i].offset >= PageHeaderSize(io)
      /\ cached.values[i].offset + cached.values[i].size <= Len(cached.data) - 4 * Len(cached.values)

\* The pages that may be asked for are the whole pages behind the two headers, unless the file is
\* smaller than these or has more pages than a page number counts
\* (libesedb_io_handle_set_pages_data_range).
RangeIsTheFile ==
  /\ pc \notin {"file header", "range", "closed"} /\ ~ RangeWraps
  /\ Len(file.bytes) \div io.pageSize < NumberWrap
  =>
    /\ (io.lastPage + 2) * io.pageSize <= Len(file.bytes)
    /\ (io.lastPage + 3) * io.pageSize > Len(file.bytes)

\* A page that was read lies in the file as a whole and at the place of its number, also in a file
\* whose range of pages has wrapped (libesedb_io_handle_read_page).
ReadPagesAreInTheFile ==
  cached # NoPage =>
    /\ Len(cached.data) = io.pageSize
    /\ cached.offset = (cached.number + 1) * io.pageSize
    /\ cached.offset + io.pageSize <= Len(file.bytes)

(* Nothing is taken from outside: pages are those the file has and the     *)
(* values of a page lie between its header and its tags                    *)
(* (libesedb_io_handle_set_pages_data_range, libesedb_page_read_values).   *)
PageStaysInside == ValuesInsidePage /\ RangeIsTheFile /\ ReadPagesAreInTheFile
=============================================================================
