---------------------------- MODULE ReadingProofs ----------------------------
(***************************************************************************)
(* Proofs about reading, for any files and any bytes in them.  PageRead:   *)
(* what is read lies inside the file, and the values that are handed out   *)
(* inside their page.  RecordApi: such a value is read as a row, and       *)
(* the values of its columns lie inside the row and apart.                 *)
(***************************************************************************)
EXTENDS PageRead, RecordApi, TLAPS, SequenceTheorems, WellFoundedInduction

\* What may have been read of a page, as far as its place and its size go.
Tagged == [flags : Nat, offset : Nat, size : Nat]

HasFields(p) ==
  p = [number |-> p.number, offset |-> p.offset, data |-> p.data, header |-> p.header,
       checked |-> p.checked, next |-> p.next, values |-> p.values]

Placed(p) == p.number \in Nat /\ p.offset \in Nat /\ p.offset = (p.number + 1) * io.pageSize

DataRead(p) ==
  /\ p.data \in Seq(Nat) /\ Len(p.data) = io.pageSize
  /\ p.offset + io.pageSize <= Len(file.bytes)

\* A value that was read lies behind the header and before the tags.
Inside(p, i) ==
  /\ p.values[i].offset >= PageHeaderSize(io)
  /\ p.values[i].offset + p.values[i].size <= Len(p.data) - 4 * Len(p.values)

Opened == {"ready", "data", "header", "checksums", "tags", "values"}
Reading == Opened \ {"ready"}

FileIs ==
  /\ file.header \in Seq(0 .. 255) /\ Len(file.header) = FileHeaderSize
  /\ file.bytes \in Seq(0 .. 255) /\ Len(file.bytes) < SizeWrap

IoIs ==
  /\ pc \in Opened \cup {"range"} =>
       io.pageSize \in Nat \ {0} /\ 2 * io.pageSize < NumberWrap /\ io.revision \in Nat
  /\ pc \in Opened =>
       /\ io.pagesOffset = 2 * io.pageSize
       /\ io.lastPage = (PagesSize(Len(file.bytes), io.pageSize) \div io.pageSize) % NumberWrap

PageIs ==
  /\ pc \in Reading => HasFields(page) /\ Placed(page)
  /\ pc \in Reading \ {"data"} => DataRead(page)
  /\ pc \in {"checksums", "tags"} => page.header.tags \in Nat /\ Len(page.data) >= PageHeaderSize(io)
  /\ pc \in {"data", "header", "checksums", "tags"} => page.values = <<>> /\ page.next = 1
  /\ pc = "values" =>
       /\ page.values \in Seq(Tagged) /\ page.next \in 1 .. Len(page.values)
       /\ \A i \in 1 .. page.next - 1 : Inside(page, i)

CachedIs ==
  cached # NoPage =>
    /\ pc \in Opened /\ Placed(cached) /\ DataRead(cached)
    /\ cached.values \in Seq(Tagged)
    /\ \A i \in DOMAIN cached.values : Inside(cached, i)

PcIs == pc \in Opened \cup {"file header", "range", "closed"}

Inv == FileIs /\ PcIs /\ IoIs /\ PageIs /\ CachedIs

-----------------------------------------------------------------------------
(***************************************************************************)
(* Numbers.                                                                *)
(***************************************************************************)
LEMMA Smallest ==
  ASSUME NEW a \in Nat, NEW b \in Nat
  PROVE  Min({a, b}) = IF a <= b THEN a ELSE b
BY DEF Min

LEMMA QuotientIs ==
  ASSUME NEW a \in Nat, NEW b \in Nat \ {0}, NEW q \in Nat, q * b <= a, a < q * b + b
  PROVE  a \div b = q
OBVIOUS

\* A page number is that of the place it is at.
LEMMA PlaceOfNumber ==
  ASSUME NEW n \in Nat \ {0}, NEW size \in Nat \ {0}
  PROVE  /\ 2 * size + (n - 1) * size = (n + 1) * size
         /\ (n + 1) * size \in Nat
         /\ ((n + 1) * size - size) \div size = n
<1>1. (n + 1) * size = n * size + size /\ n * size \in Nat
  OBVIOUS
<1>2. (n - 1) * size = n * size - size
  OBVIOUS
<1>3. (n * size) \div size = n
  BY <1>1, QuotientIs
<1>. QED
  BY <1>1, <1>2, <1>3

\* Two bytes are a number, and so are four.
LEMMA NumberAt ==
  ASSUME NEW pageData \in Seq(Nat), NEW at \in Nat \ {0}
  PROVE  /\ at + 1 <= Len(pageData) => Uint16(pageData, at) \in Nat
         /\ at + 3 <= Len(pageData) => Uint32(pageData, at) \in Nat
<1>1. ASSUME NEW k \in Nat \ {0}, k + 1 <= Len(pageData)
      PROVE  Uint16(pageData, k) \in Nat
  <2>1. pageData[k] \in Nat /\ pageData[k + 1] \in Nat
    BY <1>1
  <2>. QED
    BY <2>1 DEF Uint16
<1>2. ASSUME at + 3 <= Len(pageData)
      PROVE  Uint32(pageData, at) \in Nat
  <2>1. /\ at + 2 \in Nat \ {0} /\ (at + 2) + 1 <= Len(pageData)
        /\ at + 1 <= Len(pageData)
    BY <1>2
  <2>2. Uint16(pageData, at) \in Nat /\ Uint16(pageData, at + 2) \in Nat
    BY <1>1, <2>1
  <2>. QED
    BY <2>2 DEF Uint32
<1>. QED
  BY <1>1, <1>2

\* Bytes are numbers.
LEMMA SequenceOfNumbers ==
  ASSUME NEW S, S \subseteq Nat, NEW s \in Seq(S)
  PROVE  s \in Seq(Nat) /\ Len(s) \in Nat
<1>1. Len(s) \in Nat /\ s \in [1 .. Len(s) -> S]
  OBVIOUS
<1>2. s \in [1 .. Len(s) -> Nat]
  BY <1>1
<1>. QED
  BY <1>1, <1>2, SeqDef

LEMMA BytesAreNumbers ==
  ASSUME NEW bytes \in Seq(0 .. 255)
  PROVE  bytes \in Seq(Nat) /\ Len(bytes) \in Nat
<1>1. 0 .. 255 \subseteq Nat
  OBVIOUS
<1>. QED
  BY <1>1, SequenceOfNumbers, Zenon

\* A read that returns as many bytes as were asked for lies in the file.
LEMMA WholeRead ==
  ASSUME FileIs, NEW offset \in Nat, NEW n \in Nat \ {0}
  PROVE  /\ BytesAt(offset, n) \in Seq(Nat)
         /\ Len(BytesAt(offset, n)) = n => offset + n <= Len(file.bytes)
<1>. DEFINE end == Min({offset + n, Len(file.bytes)})
<1>1. Len(file.bytes) \in Nat /\ file.bytes \in Seq(Nat)
  BY BytesAreNumbers DEF FileIs
<1>2. end = IF offset + n <= Len(file.bytes) THEN offset + n ELSE Len(file.bytes)
  BY <1>1, Smallest
<1>3. end \in Nat /\ end <= Len(file.bytes)
  BY <1>1, <1>2
<1>. HIDE DEF end
<1>4. SubSeq(file.bytes, offset + 1, end) \in Seq(Nat)
  BY <1>1, <1>3
<1>5. Len(SubSeq(file.bytes, offset + 1, end)) = IF offset + 1 <= end THEN end - offset ELSE 0
  BY <1>1, <1>3
<1>6. BytesAt(offset, n) = SubSeq(file.bytes, offset + 1, end)
  BY DEF BytesAt, end
<1>. QED
  BY <1>1, <1>2, <1>3, <1>4, <1>5, <1>6

-----------------------------------------------------------------------------
(***************************************************************************)
(* Headers, tags and values.                                               *)
(***************************************************************************)
\* The header of a page has one of two sizes.
LEMMA HeaderSizes == PageHeaderSize(io) \in {40, 80}
BY DEF PageHeaderSize

\* The file header has a revision.
LEMMA FileHeaderIs ==
  ASSUME FileIs, FileHeader(file.header).ok
  PROVE  FileHeader(file.header).revision \in Nat
<1>1. file.header \in Seq(Nat) /\ Len(file.header) = 36
  BY BytesAreNumbers DEF FileIs, FileHeaderSize
<1>2. Uint32(file.header, 21) \in Nat
  <2>1. \A at \in Nat \ {0} : at + 3 <= 36 => Uint32(file.header, at) \in Nat
    BY <1>1, NumberAt
  <2>. QED
    BY <2>1
<1>3. FileHeader(file.header).ok =>
        FileHeader(file.header).revision = Uint32(file.header, 21)
  BY DEF FileHeader, BadFileHeader
<1>. QED
  BY <1>2, <1>3

\* The header of a page says how many tags there are.
LEMMA TagsAreCounted ==
  ASSUME NEW pageData \in Seq(Nat), Len(pageData) >= PageHeaderSize(io)
  PROVE  PageHeader(io, pageData).tags \in Nat
<1>1. Len(pageData) \in Nat /\ Len(pageData) >= 40
  BY HeaderSizes
<1>2. Uint16(pageData, 35) \in Nat
  BY <1>1, NumberAt
<1>3. TagCount(io, pageData) \in Nat
  BY <1>2 DEF TagCount
<1>. QED
  BY <1>3 DEF PageHeader

\* A tag that lies in the page has an offset and a size.
LEMMA TagIs ==
  ASSUME NEW pageData \in Seq(Nat), NEW i \in Nat \ {0}, 4 * i <= Len(pageData)
  PROVE  Tag(io, pageData, i) \in Tagged
<1>. DEFINE at == Len(pageData) - 4 * i + 1
<1>1. at \in Nat \ {0} /\ at + 2 \in Nat \ {0} /\ at + 3 <= Len(pageData)
  OBVIOUS
<1>. HIDE DEF at
<1>2. Uint16(pageData, at) \in Nat /\ Uint16(pageData, at + 2) \in Nat
  <2>1. at + 1 <= Len(pageData) /\ (at + 2) + 1 <= Len(pageData)
    BY <1>1
  <2>. QED
    BY <1>1, <2>1, NumberAt
<1>3. ASSUME NEW offset \in Nat, NEW size \in Nat
      PROVE  /\ [flags |-> 0, offset |-> offset % 32768, size |-> size % 32768] \in Tagged
             /\ [flags |-> offset \div 8192, offset |-> offset % 8192, size |-> size % 8192] \in Tagged
  BY DEF Tagged
<1>. DEFINE offset == Uint16(pageData, at + 2)
            size == Uint16(pageData, at)
<1>4. Tag(io, pageData, i) =
        IF IsExtended(io) THEN [flags |-> 0, offset |-> offset % 32768, size |-> size % 32768]
        ELSE [flags |-> offset \div 8192, offset |-> offset % 8192, size |-> size % 8192]
  BY DEF Tag, at
<1>. HIDE DEF offset, size
<1>5. offset \in Nat /\ size \in Nat
  BY <1>2 DEF offset, size
<1>. QED
  BY <1>3, <1>4, <1>5, SMTT(30)

\* A value that fits lies behind the header and before the tags.
LEMMA FittingIsInside ==
  ASSUME NEW pageData, NEW tags \in Nat, NEW value \in Tagged, Len(pageData) \in Nat,
         ValueFits(io, pageData, tags, value)
  PROVE  /\ PageHeaderSize(io) + value.offset >= PageHeaderSize(io)
         /\ PageHeaderSize(io) + value.offset + value.size <= Len(pageData) - 4 * tags
         /\ PageHeaderSize(io) + value.offset \in Nat
BY HeaderSizes DEF Tagged, ValueFits, ValuesSize

\* What a quotient leaves is less than the divisor.
LEMMA QuotientBounds ==
  ASSUME NEW a \in Nat, NEW b \in Nat \ {0}
  PROVE  /\ a \div b \in Nat
         /\ (a \div b) * b <= a /\ a < (a \div b) * b + b
OBVIOUS

\* The double of a supported size does not wrap.
LEMMA OffsetIs ==
  ASSUME NEW size \in Nat \ {0}, 2 * size < NumberWrap
  PROVE  PagesOffset(size) = 2 * size
<1>1. \A a \in Nat, b \in Nat : a < b => a % b = a
  OBVIOUS
<1>2. NumberWrap \in Nat /\ 2 * size \in Nat
  BY WrapAssumption
<1>. QED
  BY <1>1, <1>2 DEF PagesOffset

\* The range of a file with its headers and no more pages than can be counted is what is behind the headers.
LEMMA RangeIs ==
  ASSUME NEW len \in Nat, NEW size \in Nat \ {0}, len < SizeWrap, len >= 2 * size, len \div size < NumberWrap,
         2 * size < NumberWrap, NEW last, last = (PagesSize(len, size) \div size) % NumberWrap
  PROVE  (last + 2) * size <= len /\ (last + 3) * size > len
<1>1. SizeWrap \in Nat \ {0} /\ NumberWrap \in Nat \ {0}
  BY WrapAssumption
<1>2. PICK rest \in Nat : rest = len - 2 * size
  OBVIOUS
<1>3. PagesSize(len, size) = rest
  <2>1. PagesOffset(size) = 2 * size
    BY OffsetIs
  <2>. QED
    BY <1>1, <1>2, <2>1 DEF PagesSize
<1>4. PICK q \in Nat : q = rest \div size
  BY QuotientBounds
<1>5. q * size <= rest /\ rest < q * size + size /\ q * size \in Nat
  BY <1>4, QuotientBounds
<1>6. (q + 2) * size = q * size + 2 * size /\ (q + 3) * size = q * size + 3 * size
  OBVIOUS
<1>7. (q + 2) * size <= len /\ len < (q + 2) * size + size
  BY <1>2, <1>5, <1>6
<1>8. len \div size = q + 2
  <2>1. q + 2 \in Nat
    OBVIOUS
  <2>. QED
    BY <1>7, <2>1, QuotientIs
<1>9. last = q
  BY <1>1, <1>3, <1>4, <1>8
<1>. QED
  BY <1>2, <1>5, <1>6, <1>9

\* A range that has not wrapped is that of a file with its two headers.
LEMMA NotWrapped ==
  ASSUME Len(file.bytes) \in Nat, io.pageSize \in Nat, ~ RangeWraps
  PROVE  Len(file.bytes) >= 2 * io.pageSize
BY DEF RangeWraps

-----------------------------------------------------------------------------
(***************************************************************************)
(* The steps.                                                              *)
(***************************************************************************)
\* The start, where nothing has been read.
LEMMA InvInit == Init => Inv
<1>1. \A f \in Files : f.header \in Seq(0 .. 255) /\ Len(f.header) = FileHeaderSize
                         /\ f.bytes \in Seq(0 .. 255) /\ Len(f.bytes) < SizeWrap
  BY FilesAssumption
<1>. QED
  BY <1>1 DEF Init, Inv, FileIs, PcIs, IoIs, PageIs, CachedIs, Opened, Reading

\* What the vector of pages holds stays as it was while the file and its range stay.
LEMMA CachedStays ==
  ASSUME CachedIs, cached' = cached, file' = file, io' = io, cached # NoPage => pc' \in Opened
  PROVE  CachedIs'
BY DEF CachedIs, Placed, DataRead, Inside, PageHeaderSize, IsExtended

\* The file header gives a format and a size of the pages, or the file is closed.
LEMMA ReadFileHeaderStep ==
  ASSUME Inv, ReadFileHeader
  PROVE  Inv'
<1>. DEFINE header == FileHeader(file.header)
<1>1. CASE ~ Supported(header)
  <2>1. pc' = "closed" /\ UNCHANGED <<file, io, page, cached>> /\ pc = "file header"
    BY <1>1 DEF ReadFileHeader, OpenFails
  <2>. QED
    BY <2>1 DEF Inv, FileIs, PcIs, IoIs, PageIs, CachedIs, Opened, Reading
<1>2. CASE Supported(header)
  <2>1. header.pageSize \in Nat \ {0} /\ 2 * header.pageSize < NumberWrap /\ header.revision \in Nat
    <3>1. header.ok /\ header.pageSize \in OldSizes \cup NewSizes
      BY <1>2 DEF Supported
    <3>. QED
      BY <3>1, SizesAssumption, FileHeaderIs DEF Inv
  <2>2. /\ io' = [NoIo EXCEPT !.revision = header.revision, !.pageSize = header.pageSize]
        /\ pc' = "range" /\ UNCHANGED <<file, page, cached>> /\ pc = "file header"
    BY <1>2 DEF ReadFileHeader
  <2>. HIDE DEF header
  <2>3. io'.pageSize = header.pageSize /\ io'.revision = header.revision
    BY <2>2 DEF NoIo
  <2>. QED
    BY <2>1, <2>2, <2>3 DEF Inv, FileIs, PcIs, IoIs, PageIs, CachedIs, Opened, Reading
<1>. QED
  BY <1>1, <1>2

\* The range follows from the size of the file (libesedb_io_handle_set_pages_data_range).
LEMMA SetPagesRangeStep ==
  ASSUME Inv, SetPagesRange
  PROVE  Inv'
<1>1. /\ pc = "range" /\ pc' = "ready" /\ UNCHANGED <<file, page, cached>> /\ cached = NoPage
      /\ io.pageSize \in Nat \ {0} /\ 2 * io.pageSize < NumberWrap /\ io.revision \in Nat
  BY DEF SetPagesRange, Inv, IoIs, CachedIs, Opened
<1>2. \E size, last :
        /\ size = PagesSize(Len(file.bytes), io.pageSize)
        /\ last = (size \div io.pageSize) % NumberWrap
        /\ io' = [io EXCEPT !.pagesOffset = 2 * io.pageSize, !.pagesSize = size, !.lastPage = last]
  BY <1>1, OffsetIs DEF SetPagesRange
<1>. QED
  BY <1>1, <1>2 DEF Inv, FileIs, PcIs, IoIs, PageIs, CachedIs, Opened, Reading

\* A read that fails hands nothing over.
LEMMA ReadFailsStep ==
  ASSUME Inv, pc \in Reading, ReadFails
  PROVE  Inv'
<1>1. pc' = "ready" /\ UNCHANGED <<file, io, cached>>
  BY DEF ReadFails
<1>2. CachedIs'
  BY <1>1, CachedStays DEF Inv, Opened
<1>. QED
  BY <1>1, <1>2 DEF Inv, FileIs, PcIs, IoIs, PageIs, Opened, Reading

\* The page that is asked for has the place of its number.
LEMMA AskForPageStep ==
  ASSUME Inv, NEW n \in 1 .. MaxPage, AskForPage(n)
  PROVE  Inv'
<1>1. /\ pc = "ready" /\ pc' = "data" /\ UNCHANGED <<file, io, cached>>
      /\ page' = [number |-> PageNumber(PageElement(n)), offset |-> PageElement(n), data |-> <<>>,
                  header |-> NoHeader, checked |-> "no", next |-> 1, values |-> <<>>]
  BY DEF AskForPage
<1>2. io.pageSize \in Nat \ {0} /\ io.pagesOffset = 2 * io.pageSize /\ n \in Nat \ {0}
  BY <1>1, MaxPageAssumption DEF Inv, IoIs, Opened
<1>3. /\ PageElement(n) = (n + 1) * io.pageSize /\ PageElement(n) \in Nat
      /\ PageNumber(PageElement(n)) = n
  <2>1. n < NumberWrap /\ NumberWrap \in Nat
    <3>1. PICK q : io.lastPage = q % NumberWrap /\ q = PagesSize(Len(file.bytes), io.pageSize) \div io.pageSize
      BY <1>1 DEF Inv, IoIs, Opened
    <3>2. NumberWrap \in Nat \ {0} /\ SizeWrap \in Nat \ {0} /\ Len(file.bytes) \in Nat
      BY WrapAssumption, BytesAreNumbers DEF Inv, FileIs
    <3>3. PagesSize(Len(file.bytes), io.pageSize) \in Nat
      <4>1. PagesOffset(io.pageSize) = 2 * io.pageSize
        BY <1>1, <1>2, OffsetIs DEF Inv, IoIs, Opened
      <4>2. \A a \in Int, b \in Nat \ {0} : a % b \in Nat
        OBVIOUS
      <4>3. Len(file.bytes) - 2 * io.pageSize \in Int
        BY <1>2, <3>2
      <4>. QED
        BY <3>2, <4>1, <4>2, <4>3 DEF PagesSize
    <3>4. q \in Nat
      BY <1>2, <3>1, <3>3, QuotientBounds
    <3>5. io.lastPage \in Nat /\ io.lastPage < NumberWrap
      BY <3>1, <3>2, <3>4
    <3>. QED
      BY <1>2, <3>2, <3>5 DEF AskForPage
  <2>2. n % NumberWrap = n
    BY <1>2, <2>1
  <2>. QED
    BY <1>2, <2>2, PlaceOfNumber DEF PageElement, PageNumber
<1>4. HasFields(page') /\ Placed(page)' /\ page'.values = <<>> /\ page'.next = 1
  BY <1>1, <1>2, <1>3 DEF HasFields, Placed
<1>5. CachedIs'
  BY <1>1, CachedStays DEF Inv, Opened
<1>6. PageIs'
  BY <1>1, <1>4 DEF PageIs, Opened, Reading
<1>. QED
  BY <1>1, <1>5, <1>6 DEF Inv, FileIs, PcIs, IoIs, Opened

\* A page is read as a whole or not at all.
LEMMA ReadDataStep ==
  ASSUME Inv, ReadData
  PROVE  Inv'
<1>1. pc = "data" /\ pc \in Reading
  BY DEF ReadData, Reading, Opened
<1>2. HasFields(page) /\ Placed(page) /\ page.values = <<>> /\ page.next = 1 /\ io.pageSize \in Nat \ {0}
  BY <1>1 DEF Inv, PageIs, IoIs, Reading, Opened
<1>3. CASE Len(BytesAt(page.offset, io.pageSize)) # io.pageSize
  BY <1>1, <1>3, ReadFailsStep DEF ReadData
<1>4. CASE Len(BytesAt(page.offset, io.pageSize)) = io.pageSize
  <2>1. /\ page' = [page EXCEPT !.data = BytesAt(page.offset, io.pageSize)]
        /\ pc' = "header" /\ UNCHANGED <<file, io, cached>>
    BY <1>4 DEF ReadData
  <2>2. /\ BytesAt(page.offset, io.pageSize) \in Seq(Nat)
        /\ page.offset + io.pageSize <= Len(file.bytes)
    BY <1>2, <1>4, WholeRead DEF Inv, Placed
  <2>3. /\ HasFields(page') /\ page'.number = page.number /\ page'.offset = page.offset
        /\ page'.data = BytesAt(page.offset, io.pageSize)
        /\ page'.values = page.values /\ page'.next = page.next
    BY <1>2, <2>1 DEF HasFields
  <2>4. Placed(page)' /\ DataRead(page)' /\ page'.values = <<>> /\ page'.next = 1
    BY <1>2, <1>4, <2>1, <2>2, <2>3 DEF Placed, DataRead
  <2>5. CachedIs'
    BY <2>1, CachedStays DEF Inv, Opened
  <2>6. PageIs'
    BY <2>1, <2>3, <2>4 DEF PageIs, Opened, Reading
  <2>. QED
    BY <1>1, <2>1, <2>5, <2>6 DEF Inv, FileIs, PcIs, IoIs, Opened
<1>. QED
  BY <1>3, <1>4

\* The header of a page says how many tags follow.
LEMMA ReadHeaderStep ==
  ASSUME Inv, ReadHeader
  PROVE  Inv'
<1>1. pc = "header" /\ pc \in Reading
  BY DEF ReadHeader, Reading, Opened
<1>2. HasFields(page) /\ Placed(page) /\ DataRead(page) /\ page.values = <<>> /\ page.next = 1
  BY <1>1 DEF Inv, PageIs, Reading, Opened
<1>3. CASE Len(page.data) < PageHeaderSize(io)
  BY <1>1, <1>3, ReadFailsStep DEF ReadHeader
<1>4. CASE ~ (Len(page.data) < PageHeaderSize(io))
  <2>1. /\ page' = [page EXCEPT !.header = PageHeader(io, page.data)]
        /\ pc' = "checksums" /\ UNCHANGED <<file, io, cached>>
    BY <1>4 DEF ReadHeader
  <2>2. Len(page.data) \in Nat /\ Len(page.data) >= PageHeaderSize(io)
    BY <1>2, <1>4, HeaderSizes DEF DataRead
  <2>3. PageHeader(io, page.data).tags \in Nat
    BY <1>2, <2>2, TagsAreCounted DEF DataRead
  <2>4. /\ HasFields(page') /\ page'.number = page.number /\ page'.offset = page.offset
        /\ page'.data = page.data /\ page'.values = page.values /\ page'.next = page.next
        /\ page'.header = PageHeader(io, page.data)
    BY <1>2, <2>1 DEF HasFields
  <2>5. Placed(page)' /\ DataRead(page)' /\ page'.values = <<>> /\ page'.next = 1
    BY <1>2, <2>1, <2>4 DEF Placed, DataRead
  <2>6. page'.header.tags \in Nat /\ Len(page'.data) >= PageHeaderSize(io')
    BY <2>1, <2>2, <2>3, <2>4
  <2>7. CachedIs'
    BY <2>1, CachedStays DEF Inv, Opened
  <2>8. PageIs'
    BY <2>1, <2>4, <2>5, <2>6 DEF PageIs, Opened, Reading
  <2>. QED
    BY <1>1, <2>1, <2>7, <2>8 DEF Inv, FileIs, PcIs, IoIs, Opened
<1>. QED
  BY <1>3, <1>4

\* A checksum changes nothing of what was read.
LEMMA CheckChecksumsStep ==
  ASSUME Inv, CheckChecksums
  PROVE  Inv'
<1>1. pc = "checksums" /\ pc' = "tags" /\ UNCHANGED <<file, io, cached>>
  BY DEF CheckChecksums
<1>2. PICK checked : page' = [page EXCEPT !.checked = checked]
  BY DEF CheckChecksums
<1>3. /\ HasFields(page) /\ Placed(page) /\ DataRead(page) /\ page.values = <<>> /\ page.next = 1
      /\ page.header.tags \in Nat /\ Len(page.data) >= PageHeaderSize(io)
  BY <1>1 DEF Inv, PageIs, Reading, Opened
<1>4. /\ HasFields(page') /\ page'.number = page.number /\ page'.offset = page.offset
      /\ page'.data = page.data /\ page'.header = page.header
      /\ page'.values = page.values /\ page'.next = page.next
  BY <1>2, <1>3 DEF HasFields
<1>5. Placed(page)' /\ DataRead(page)' /\ page'.values = <<>> /\ page'.next = 1
  BY <1>1, <1>3, <1>4 DEF Placed, DataRead
<1>6. page'.header.tags \in Nat /\ Len(page'.data) >= PageHeaderSize(io')
  BY <1>1, <1>3, <1>4
<1>7. CachedIs'
  BY <1>1, CachedStays DEF Inv, Opened
<1>8. PageIs'
  BY <1>1, <1>4, <1>5, <1>6 DEF PageIs, Opened, Reading
<1>. QED
  BY <1>1, <1>7, <1>8 DEF Inv, FileIs, PcIs, IoIs, Opened

\* Each tag that was counted lies in the page (libesedb_page_read_tags).
LEMMA ReadTagsStep ==
  ASSUME Inv, ReadTags
  PROVE  Inv'
<1>. DEFINE tags == page.header.tags
            room == Len(page.data) - PageHeaderSize(io)
            fails == room <= 0 \/ 4 * tags > Len(page.data) \/ 4 * tags > room
<1>1. pc = "tags" /\ pc \in Reading
  BY DEF ReadTags, Reading, Opened
<1>2. /\ HasFields(page) /\ Placed(page) /\ DataRead(page) /\ page.values = <<>>
      /\ tags \in Nat
  BY <1>1 DEF Inv, PageIs, Reading, Opened
<1>3. CASE fails
  BY <1>1, <1>3, ReadFailsStep DEF ReadTags
<1>4. CASE ~ fails /\ tags = 0
  <2>1. Done(page)
    BY <1>4 DEF ReadTags
  <2>2. /\ cached' = page /\ pc' = "ready" /\ UNCHANGED <<file, io>>
    BY <2>1 DEF Done
  <2>3. cached'.values \in Seq(Tagged) /\ DOMAIN cached'.values = {}
    <3>1. cached'.values = <<>>
      BY <1>2, <2>2
    <3>2. <<>> \in Seq(Tagged) /\ DOMAIN <<>> = {}
      OBVIOUS
    <3>. QED
      BY <3>1, <3>2
  <2>4. Placed(cached)' /\ DataRead(cached)'
    BY <1>2, <2>2 DEF Placed, DataRead
  <2>5. CachedIs'
    BY <2>2, <2>3, <2>4 DEF CachedIs, Opened
  <2>. QED
    BY <1>1, <2>2, <2>5 DEF Inv, FileIs, PcIs, IoIs, PageIs, Opened, Reading
<1>5. CASE ~ fails /\ tags # 0
  <2>. DEFINE pageValues == [i \in 1 .. tags |-> Tag(io, page.data, i)]
  <2>1. /\ page' = [page EXCEPT !.values = pageValues]
        /\ pc' = "values" /\ UNCHANGED <<file, io, cached>>
    BY <1>5 DEF ReadTags
  <2>2. page.data \in Seq(Nat) /\ Len(page.data) \in Nat /\ 4 * tags <= Len(page.data)
    BY <1>2, <1>5 DEF DataRead
  <2>3. ASSUME NEW i \in 1 .. tags
        PROVE  Tag(io, page.data, i) \in Tagged
    <3>1. i \in Nat \ {0} /\ 4 * i <= Len(page.data)
      BY <1>2, <2>2
    <3>. QED
      BY <2>2, <3>1, TagIs
  <2>4. pageValues \in Seq(Tagged) /\ Len(pageValues) = tags
    BY <1>2, <2>3
  <2>. HIDE DEF pageValues
  <2>5. /\ HasFields(page') /\ page'.number = page.number /\ page'.offset = page.offset
        /\ page'.data = page.data /\ page'.next = page.next /\ page'.values = pageValues
    BY <1>2, <2>1 DEF HasFields
  <2>6. Placed(page)' /\ DataRead(page)'
    BY <1>2, <2>1, <2>5 DEF Placed, DataRead
  <2>7. page'.next = 1
    BY <1>1, <2>5 DEF Inv, PageIs
  <2>8. CachedIs'
    BY <2>1, CachedStays DEF Inv, Opened
  <2>9. PageIs'
    BY <1>2, <1>5, <2>1, <2>4, <2>5, <2>6, <2>7 DEF PageIs, Opened, Reading
  <2>. QED
    BY <1>1, <2>1, <2>8, <2>9 DEF Inv, FileIs, PcIs, IoIs, Opened
<1>. QED
  BY <1>3, <1>4, <1>5

\* Changing one of the elements of a sequence keeps its length.
LEMMA OneElementChanged ==
  ASSUME NEW S, NEW s \in Seq(S), NEW k, NEW e, k \in DOMAIN s => e \in S
  PROVE  [s EXCEPT ![k] = e] \in Seq(S) /\ Len([s EXCEPT ![k] = e]) = Len(s)
<1>1. Len(s) \in Nat /\ s \in [1 .. Len(s) -> S]
  OBVIOUS
<1>2. [s EXCEPT ![k] = e] \in [1 .. Len(s) -> S]
  BY <1>1
<1>. QED
  BY <1>1, <1>2, SeqDef

\* A value is taken only where it lies between the header and the tags (libesedb_page_read_values).
LEMMA ReadValueStep ==
  ASSUME Inv, ReadValue
  PROVE  Inv'
<1>. DEFINE value == page.values[page.next]
            at == PageHeaderSize(io) + value.offset
            inData == FlagsInData(io, value)
            pageData == IF inData THEN [page.data EXCEPT ![at + 2] = page.data[at + 2] % 32] ELSE page.data
            flags == IF inData THEN page.data[at + 2] \div 32 ELSE value.flags
            entry == [value EXCEPT !.flags = flags, !.offset = at]
            pageValues == [page.values EXCEPT ![page.next] = entry]
            read == [page EXCEPT !.next = page.next + 1, !.data = pageData, !.values[page.next] = entry]
            fits == ValueFits(io, page.data, Len(page.values), value)
<1>1. pc = "values" /\ pc \in Reading
  BY DEF ReadValue, Reading, Opened
<1>2. /\ HasFields(page) /\ Placed(page) /\ DataRead(page)
      /\ page.values \in Seq(Tagged) /\ page.next \in 1 .. Len(page.values)
      /\ \A i \in 1 .. page.next - 1 : Inside(page, i)
  BY <1>1 DEF Inv, PageIs, Reading, Opened
<1>3. CASE ~ fits
  BY <1>1, <1>3, ReadFailsStep DEF ReadValue
<1>4. CASE fits
  <2>1. IF page.next = Len(page.values) THEN Done(read)
        ELSE page' = read /\ UNCHANGED <<file, io, pc, cached, answer>>
    BY <1>4 DEF ReadValue
  <2>2. /\ page.data \in Seq(Nat) /\ Len(page.data) \in Nat /\ Len(page.values) \in Nat
        /\ value \in Tagged /\ page.next \in Nat
    BY <1>2 DEF DataRead
  <2>3. /\ at >= PageHeaderSize(io) /\ at \in Nat
        /\ at + value.size <= Len(page.data) - 4 * Len(page.values)
    <3>. HIDE DEF value
    <3>. QED
      BY <1>4, <2>2, FittingIsInside
  <2>4. inData => page.data[at + 2] \in Nat
    <3>1. inData => value.size >= 2
      BY DEF FlagsInData
    <3>2. value.size \in Nat
      BY <2>2 DEF Tagged
    <3>. HIDE DEF value, at, inData
    <3>3. ASSUME NEW len \in Nat, NEW tags \in Nat, NEW size \in Nat, size >= 2, at + size <= len - 4 * tags
          PROVE  at + 2 \in 1 .. len
      BY <2>3, <3>3
    <3>4. inData => at + 2 \in 1 .. Len(page.data)
      BY <2>2, <2>3, <3>1, <3>2, <3>3
    <3>. QED
      BY <2>2, <3>4
  <2>5. pageData \in Seq(Nat) /\ Len(pageData) = Len(page.data)
    <3>. HIDE DEF value, at, inData
    <3>1. inData => page.data[at + 2] % 32 \in Nat
      BY <2>4
    <3>2. CASE inData
      <4>. DEFINE byte == page.data[at + 2] % 32
      <4>1. pageData = [page.data EXCEPT ![at + 2] = byte]
        BY <3>2
      <4>2. byte \in Nat
        BY <3>1, <3>2
      <4>. HIDE DEF byte, pageData
      <4>. QED
        BY <2>2, <4>1, <4>2, OneElementChanged
    <3>3. CASE ~ inData
      BY <2>2, <3>3
    <3>. QED
      BY <3>2, <3>3
  <2>6. flags \in Nat
    <3>1. value.flags \in Nat
      BY <2>2 DEF Tagged
    <3>. HIDE DEF value, at, inData
    <3>2. inData => page.data[at + 2] \div 32 \in Nat
      BY <2>4
    <3>. QED
      BY <3>1, <3>2
  <2>7. /\ entry \in Tagged /\ entry.offset = at /\ entry.size = value.size
    <3>. HIDE DEF value, at, flags
    <3>. QED
      BY <2>2, <2>3, <2>6 DEF Tagged
  <2>8. pageValues \in Seq(Tagged) /\ Len(pageValues) = Len(page.values)
    <3>. HIDE DEF entry
    <3>. QED
      BY <1>2, <2>7, OneElementChanged
  <2>9. /\ pageValues[page.next] = entry
        /\ \A i \in 1 .. Len(page.values) : i # page.next => pageValues[i] = page.values[i]
    <3>. HIDE DEF entry
    <3>. QED
      BY <1>2
  <2>. HIDE DEF pageData, pageValues
  <2>10. /\ HasFields(read) /\ read.number = page.number /\ read.offset = page.offset
         /\ read.data = pageData /\ read.values = pageValues /\ read.next = page.next + 1
    <3>1. read = [page EXCEPT !.next = page.next + 1, !.data = pageData, !.values = pageValues]
      <4>. HIDE DEF entry
      <4>. QED
        BY DEF pageValues
    <3>. HIDE DEF entry, read
    <3>. QED
      BY <1>2, <3>1 DEF HasFields
  <2>. HIDE DEF read
  <2>11. Placed(read) /\ DataRead(read)
    BY <1>2, <2>5, <2>10 DEF Placed, DataRead
  <2>12. ASSUME NEW i \in 1 .. page.next
         PROVE  Inside(read, i)
    <3>1. CASE i = page.next
      <4>. HIDE DEF entry, at, value
      <4>. QED
        BY <2>3, <2>5, <2>7, <2>8, <2>9, <2>10, <3>1 DEF Inside
    <3>2. CASE i # page.next
      <4>1. i \in 1 .. page.next - 1 /\ i \in 1 .. Len(page.values)
        BY <1>2, <2>2, <3>2
      <4>2. Inside(page, i) /\ pageValues[i] = page.values[i]
        BY <1>2, <2>9, <3>2, <4>1
      <4>. QED
        BY <2>5, <2>8, <2>10, <4>2 DEF Inside
    <3>. QED
      BY <3>1, <3>2
  <2>13. CASE page.next = Len(page.values)
    <3>1. cached' = read /\ pc' = "ready" /\ UNCHANGED <<file, io>>
      BY <2>1, <2>13 DEF Done
    <3>2. Placed(cached)' /\ DataRead(cached)'
      BY <2>11, <3>1 DEF Placed, DataRead
    <3>3. \A i \in DOMAIN read.values : Inside(read, i)
      <4>1. DOMAIN read.values = 1 .. page.next
        BY <2>8, <2>10, <2>13
      <4>. QED
        BY <2>12, <4>1
    <3>4. \A i \in DOMAIN cached'.values : Inside(cached, i)'
      BY <3>1, <3>3 DEF Inside, PageHeaderSize, IsExtended
    <3>5. CachedIs'
      BY <2>8, <2>10, <3>1, <3>2, <3>4 DEF CachedIs, Opened
    <3>. QED
      BY <1>1, <3>1, <3>5 DEF Inv, FileIs, PcIs, IoIs, PageIs, Opened, Reading
  <2>14. CASE page.next # Len(page.values)
    <3>1. page' = read /\ UNCHANGED <<file, io, pc, cached>>
      BY <2>1, <2>14
    <3>2. Placed(page)' /\ DataRead(page)' /\ HasFields(page')
      BY <2>10, <2>11, <3>1 DEF Placed, DataRead
    <3>3. \A i \in 1 .. page'.next - 1 : Inside(page, i)'
      <4>1. page'.next - 1 = page.next
        BY <2>2, <2>10, <3>1, SMTT(30)
      <4>. QED
        BY <2>12, <3>1, <4>1 DEF Inside, PageHeaderSize, IsExtended
    <3>4. page'.values \in Seq(Tagged) /\ page'.next \in 1 .. Len(page'.values)
      BY <1>2, <2>2, <2>8, <2>10, <2>14, <3>1
    <3>5. CachedIs'
      BY <1>1, <3>1, CachedStays DEF Inv, Opened
    <3>6. PageIs'
      BY <1>1, <3>1, <3>2, <3>3, <3>4 DEF PageIs, Opened, Reading
    <3>. QED
      BY <1>1, <3>1, <3>5, <3>6 DEF Inv, FileIs, PcIs, IoIs, Opened
  <2>. QED
    BY <2>13, <2>14
<1>. QED
  BY <1>3, <1>4

\* Closing forgets the pages.
LEMMA CloseStep ==
  ASSUME Inv, Close
  PROVE  Inv'
<1>1. pc' = "closed" /\ cached' = NoPage /\ file' = file
  BY DEF Close
<1>. QED
  BY <1>1 DEF Inv, FileIs, PcIs, IoIs, PageIs, CachedIs, Opened, Reading

\* A range that has wrapped may be refused.
LEMMA RangeRefusedStep ==
  ASSUME Inv, RangeRefused
  PROVE  Inv'
<1>1. pc = "range" /\ pc' = "closed" /\ UNCHANGED <<file, io, page, cached>>
  BY DEF RangeRefused, OpenFails
<1>. QED
  BY <1>1 DEF Inv, FileIs, PcIs, IoIs, PageIs, CachedIs, Opened, Reading

\* Nothing changes while nothing is called.
LEMMA StutterStep ==
  ASSUME Inv, UNCHANGED vars
  PROVE  Inv'
<1>1. UNCHANGED <<file, io, pc, page, cached>>
  BY DEF vars
<1>2. CachedIs'
  BY <1>1, CachedStays DEF Inv, CachedIs
<1>3. PageIs'
  BY <1>1 DEF Inv, PageIs, Placed, DataRead, Inside, HasFields, PageHeaderSize, IsExtended
<1>. QED
  BY <1>1, <1>2, <1>3 DEF Inv, FileIs, PcIs, IoIs

\* No step leaves the order of reading.
LEMMA InvStep == Inv /\ [Next]_vars => Inv'
<1>. SUFFICES ASSUME Inv, [Next]_vars
              PROVE  Inv'
  OBVIOUS
<1>1. CASE Open
  BY <1>1, ReadFileHeaderStep, SetPagesRangeStep, RangeRefusedStep DEF Open
<1>2. CASE \E n \in 1 .. MaxPage : AskForPage(n)
  BY <1>2, AskForPageStep
<1>3. CASE Read
  <2>1. CASE ReadFault
    BY <2>1, ReadFailsStep DEF ReadFault, Reading, Opened
  <2>. QED
    BY <1>3, <2>1, ReadDataStep, ReadHeaderStep, CheckChecksumsStep, ReadTagsStep, ReadValueStep DEF Read
<1>4. CASE Close
  BY <1>4, CloseStep
<1>5. CASE UNCHANGED vars
  BY <1>5, StutterStep
<1>. QED
  BY <1>1, <1>2, <1>3, <1>4, <1>5 DEF Next

-----------------------------------------------------------------------------
(***************************************************************************)
(* Nothing from outside.                                                   *)
(***************************************************************************)
\* Reading in order is reading inside.
LEMMA InvIsInside == Inv => PageStaysInside
<1>. SUFFICES ASSUME Inv
              PROVE  PageStaysInside
  OBVIOUS
<1>1. ValuesInsidePage
  BY DEF Inv, CachedIs, Inside, ValuesInsidePage
<1>2. ReadPagesAreInTheFile
  BY DEF Inv, CachedIs, Placed, DataRead, ReadPagesAreInTheFile
<1>3. RangeIsTheFile
  <2>. SUFFICES ASSUME pc \notin {"file header", "range", "closed"}, ~ RangeWraps,
                       Len(file.bytes) \div io.pageSize < NumberWrap
                PROVE  /\ (io.lastPage + 2) * io.pageSize <= Len(file.bytes)
                       /\ (io.lastPage + 3) * io.pageSize > Len(file.bytes)
    BY DEF RangeIsTheFile
  <2>1. pc \in Opened
    BY DEF Inv, PcIs
  <2>2. /\ io.pageSize \in Nat \ {0} /\ 2 * io.pageSize < NumberWrap
        /\ io.lastPage = (PagesSize(Len(file.bytes), io.pageSize) \div io.pageSize) % NumberWrap
    BY <2>1 DEF Inv, IoIs
  <2>3. Len(file.bytes) \in Nat /\ Len(file.bytes) < SizeWrap
    BY BytesAreNumbers DEF Inv, FileIs
  <2>4. Len(file.bytes) >= 2 * io.pageSize
    BY <2>2, <2>3, NotWrapped
  <2>. QED
    BY <2>2, <2>3, <2>4, RangeIs
<1>. QED
  BY <1>1, <1>2, <1>3 DEF PageStaysInside

(* Whatever the bytes of a file are, reading it keeps to the format: what  *)
(* is known of the header, the range and the page in progress, from one    *)
(* handler to the next (libesedb_io_handle_read_page, libesedb_page_read). *)
THEOREM ReadingIsInOrder == Spec => []Inv
BY InvInit, InvStep, PTL DEF Spec

(* Nothing is taken from outside: in any file, with any bytes in its       *)
(* headers and tags, the pages that may be asked for are those the file    *)
(* has and the values of a page that was read lie between its header and   *)
(* its tags (libesedb_io_handle_set_pages_data_range,                      *)
(* libesedb_page_read_tags, libesedb_page_read_values).                    *)
THEOREM NothingFromOutside == Spec => []PageStaysInside
<1>1. Spec => []Inv
  BY ReadingIsInOrder
<1>. QED
  BY <1>1, InvIsInside, PTL

-----------------------------------------------------------------------------
(***************************************************************************)
(* Rows.                                                                   *)
(***************************************************************************)
\* The types of what is kept while a row is read.
Encodings == {Encoding(c) : c \in ColumnDefinitions}
ValueRead == [set : BOOLEAN, offset : Nat, size : Nat, flags : Nat, type : STRING, encoding : Encodings]
Cursors == [current : Nat, sizeAt : Nat, valueAt : Nat, previous : Nat]
TagCursors == [offset : Nat, id : Nat, word : Nat, at : Nat, array : Nat, remaining : Nat]

RowGiven == IsRow(row) /\ stray \in 0..255

CursorsAre ==
  /\ values \in Seq(ValueRead) /\ Len(values) <= Len(Columns)
  /\ fixedAt \in Nat /\ variable \in Cursors /\ tagged \in TagCursors
  /\ stage = "header" => values = <<>> /\ tagged = NotTagged /\ fixedAt = 4
  /\ stage = "columns" => fixedAt <= Size /\ Size >= 4

\* Where the values end that were read so far: of a fixed size, and all others.
FixedEndBy(o) == \A i \in DOMAIN values : AreFixed(i) /\ HasData(i) => EndOf(i) <= o
OthersEndBy(o) == \A i \in DOMAIN values : ~AreFixed(i) /\ HasData(i) => EndOf(i) <= o
\* All of them that are not of a fixed size are of one column.
OthersAreNumbered(id) == \A i \in DOMAIN values : ~AreFixed(i) /\ HasData(i) => Columns[i].id = id

\* No sizes are left: what comes is tagged.
SizesAreRead == variable.current >= LastVariable

(* What remains for the tagged values is what is left of the row or, once  *)
(* it has wrapped, short of the modulus by no more than the entries passed *)
(* and the bytes of their values.                                          *)
CountsDown(t, n) ==
  /\ t.remaining < SizeT
  /\ \/ t.remaining <= Size
     \/ t.remaining + 4 * (n + 1) >= SizeT
     \/ t.remaining + 4 * (n + 1) + Masked(t.word) >= SizeT /\ t.offset + Masked(t.word) <= Size

(* Before the array of tagged values is opened.  At the offset 0 it counts *)
(* as not opened and is opened again for every column.                     *)
ArrayUnopened ==
  /\ \/ OthersEndBy(variable.valueAt)
     \/ variable.valueAt = 0 /\ SizesAreRead /\ OthersAreNumbered(RowWord(0))
  /\ tagged.remaining = 0 \/ (variable.valueAt = 0 /\ SizesAreRead)

\* All values lie before that of the entry that comes next, if there is one.
ArrayOpened ==
  /\ tagged.offset = variable.valueAt /\ tagged.offset <= Size /\ SizesAreRead
  /\ tagged.remaining = 0 \/ OthersEndBy(tagged.offset + Masked(tagged.word))
  /\ CountsDown(tagged, Len(values))

RowOrdered ==
  ~row.linear /\ ColumnsDiffer =>
    /\ FixedEndBy(fixedAt)
    /\ tagged.offset = 0 => ArrayUnopened
    /\ tagged.offset # 0 => ArrayOpened

RowInv == RowGiven /\ CursorsAre /\ ValuesLieApart /\ RowOrdered

-----------------------------------------------------------------------------
(* Bytes, words and what is computed of them.                              *)
LEMMA RowIs ==
  ASSUME RowGiven
  PROVE  /\ row.data \in Seq(0..255) /\ Size \in Nat /\ Size < 32768
         /\ Columns \in Seq(ColumnDefinitions) /\ Len(Columns) \in Nat
         /\ row.linear \in BOOLEAN /\ row.extended \in BOOLEAN
<1>1. /\ row.data \in Seq(0..255) /\ Len(row.data) < 32768
      /\ row.template \in Seq(ColumnDefinitions) /\ row.table \in Seq(ColumnDefinitions)
      /\ row.linear \in BOOLEAN /\ row.extended \in BOOLEAN
  BY DEF RowGiven, IsRow
<1>2. Columns \in Seq(ColumnDefinitions)
  BY <1>1, ConcatProperties DEF Columns
<1> QED BY <1>1, <1>2, LenProperties DEF Size

LEMMA ByteIs == ASSUME RowGiven, NEW o \in Nat PROVE Byte(o) \in Nat /\ Byte(o) < 256
<1> DEFINE bytes == 0..255
<1>1. \A b \in bytes : b \in Nat /\ b < 256
  OBVIOUS
<1>2. row.data \in Seq(bytes) /\ stray \in bytes
  BY RowIs DEF RowGiven
<1> HIDE DEF bytes
<1>3. CASE o < Size
  <2>1. o + 1 \in 1..Len(row.data)
    BY <1>3, RowIs DEF Size
  <2>2. row.data[o + 1] \in bytes
    BY <2>1, <1>2, ElementOfSeq
  <2>3. Byte(o) = row.data[o + 1]
    BY <1>3 DEF Byte
  <2> QED BY <1>1, <2>2, <2>3
<1>4. CASE ~(o < Size)
  <2>1. Byte(o) = stray
    BY <1>4 DEF Byte
  <2> QED BY <1>1, <1>2, <2>1
<1> QED BY <1>3, <1>4

LEMMA WordIs == ASSUME RowGiven, NEW o \in Nat PROVE RowWord(o) \in Nat /\ RowWord(o) < 65536
<1>1. PICK a \in Nat, b \in Nat : a = Byte(o) /\ b = Byte(o + 1) /\ a < 256 /\ b < 256
  BY ByteIs
<1>2. a + 256 * b \in Nat /\ a + 256 * b < 65536
  BY <1>1
<1> QED BY <1>1, <1>2 DEF RowWord

LEMMA U16Is ==
  ASSUME NEW n \in Int
  PROVE  /\ U16(n) \in Nat /\ U16(n) < 65536
         /\ 0 <= n /\ n < 65536 => U16(n) = n
BY DEF U16

LEMMA USizeIs ==
  ASSUME NEW n \in Int, n >= -4, n < SizeT
  PROVE  USize(n) \in Nat /\ USize(n) = IF n < 0 THEN n + SizeT ELSE n
BY DEF USize, SizeT

LEMMA MaskedIs ==
  ASSUME RowGiven, NEW w \in Nat
  PROVE  Masked(w) \in Nat /\ Masked(w) < 32768
<1>1. w % 32768 \in Nat /\ w % 32768 < 32768 /\ w % 16384 \in Nat /\ w % 16384 < 16384
  OBVIOUS
<1>2. CASE row.extended
  BY <1>1, <1>2 DEF Masked
<1>3. CASE ~row.extended
  BY <1>1, <1>3 DEF Masked
<1> QED BY <1>2, <1>3

LEMMA ColumnIs ==
  ASSUME RowGiven, CursorsAre, HasColumn
  PROVE  /\ Column \in ColumnDefinitions /\ Column.id \in Nat /\ Column.size \in Nat
         /\ Len(values) + 1 \in DOMAIN Columns /\ Len(values) + 1 <= Len(Columns)
         /\ Len(values) \in Nat
<1>1. Len(values) \in Nat
  BY LenProperties DEF CursorsAre
<1>2. Len(values) + 1 \in 1..Len(Columns) /\ DOMAIN Columns = 1..Len(Columns)
  BY <1>1, RowIs, LenProperties DEF HasColumn
<1>3. Column \in ColumnDefinitions
  BY <1>2, RowIs, ElementOfSeq DEF Column
<1>4. Column.id \in Nat /\ Column.size \in Nat
  BY <1>3 DEF ColumnDefinitions
<1> QED BY <1>1, <1>2, <1>3, <1>4

\* What a step that passes a column does to the values.
LEMMA Passed ==
  ASSUME RowGiven, CursorsAre, HasColumn, NEW v \in ValueRead, Pass(v)
  PROVE  /\ values' \in Seq(ValueRead) /\ Len(values') = Len(values) + 1
         /\ Len(values') <= Len(Columns)
         /\ DOMAIN values = 1..Len(values) /\ DOMAIN values' = 1..(Len(values) + 1)
         /\ \A i \in 1..Len(values) : values'[i] = values[i]
         /\ values'[Len(values) + 1] = v
<1>1. values \in Seq(ValueRead) /\ values' = Append(values, v)
  BY DEF CursorsAre, Pass
<1>2. Len(values') = Len(values) + 1 /\ values' \in Seq(ValueRead)
  BY <1>1, AppendProperties
<1>3. DOMAIN values = 1..Len(values) /\ DOMAIN values' = 1..(Len(values) + 1)
  BY <1>1, <1>2, LenProperties
<1> QED BY <1>1, <1>2, <1>3, AppendProperties, ColumnIs

LEMMA ValueIs ==
  ASSUME RowGiven, CursorsAre, HasColumn, NEW o \in Nat, NEW n \in Nat, NEW f \in Nat
  PROVE  ValueAt(o, n, f) \in ValueRead /\ ValueAt(o, n, f).offset = o /\ ValueAt(o, n, f).size = n
<1>1. Column.type \in STRING /\ Encoding(Column) \in Encodings
  <2>1. Column \in ColumnDefinitions
    BY ColumnIs
  <2>2. Column.type \in STRING
    BY <2>1 DEF ColumnDefinitions
  <2> QED BY <2>1, <2>2 DEF Encodings
<1> QED BY <1>1 DEF ValueAt, ValueRead

LEMMA NoDataIs ==
  ASSUME RowGiven, CursorsAre, HasColumn, NEW f \in Nat
  PROVE  NoData(f) \in ValueRead /\ NoData(f).size = 0
<1>1. Column.type \in STRING /\ Encoding(Column) \in Encodings
  <2>1. Column \in ColumnDefinitions
    BY ColumnIs
  <2>2. Column.type \in STRING
    BY <2>1 DEF ColumnDefinitions
  <2> QED BY <2>1, <2>2 DEF Encodings
<1> QED BY <1>1 DEF NoData, ValueAt, ValueRead

-----------------------------------------------------------------------------
LEMMA NextEntryIs ==
  ASSUME RowGiven, NEW t \in TagCursors
  PROVE  /\ NextEntry(t) \in TagCursors /\ NextEntry(t).offset = t.offset
         /\ t.array = 0 => NextEntry(t) = t
         /\ t.array # 0 => NextEntry(t).remaining = USize(t.remaining - 4)
<1>1. CASE t.array = 0
  BY <1>1 DEF NextEntry
<1>2. CASE t.array # 0
  <2>1. t.at \in Nat /\ t.at + 2 \in Nat /\ t.at + 4 \in Nat /\ t.array - 4 \in Int /\ t.remaining - 4 \in Int
    BY DEF TagCursors
  <2>2. RowWord(t.at) \in Nat /\ RowWord(t.at + 2) \in Nat /\ U16(t.array - 4) \in Nat
    BY <2>1, WordIs, U16Is
  <2>3. USize(t.remaining - 4) \in Nat
    BY <2>1 DEF USize, SizeT
  <2> HIDE DEF RowWord, U16, USize
  <2> QED BY <1>2, <2>1, <2>2, <2>3 DEF NextEntry, TagCursors
<1> QED BY <1>1, <1>2

LEMMA EntrySizeIs ==
  ASSUME RowGiven, NEW t \in TagCursors
  PROVE  /\ EntrySize(t) \in Nat /\ EntryFlags(t) \in Nat
         /\ HasFlags(t) =>
              /\ EntrySize(t) > 0 /\ DataAt(t) = EntryAt(t) + 1
              /\ DataSize(t) = EntrySize(t) - 1
         /\ ~HasFlags(t) => DataAt(t) = EntryAt(t) /\ DataSize(t) = EntrySize(t)
         /\ EntryAt(t) \in Nat /\ DataAt(t) \in Nat /\ DataSize(t) \in Nat
<1>1. t.word \in Nat /\ t.offset \in Nat /\ NextEntry(t).word \in Nat /\ NextEntry(t).remaining \in Nat
  BY NextEntryIs DEF TagCursors
<1>2. PICK m \in Nat, n \in Nat : m = Masked(t.word) /\ n = Masked(NextEntry(t).word)
  BY <1>1, MaskedIs
<1>3. PICK r \in Nat : r = U16(NextEntry(t).remaining)
  BY <1>1, U16Is
<1>4. EntrySize(t) = IF n > m THEN n - m ELSE r
  BY <1>2, <1>3 DEF EntrySize
<1>5. EntrySize(t) \in Nat
  BY <1>4
<1>6. EntryAt(t) \in Nat
  BY <1>1, <1>2, U16Is DEF EntryAt
<1>7. EntryFlags(t) \in Nat
  BY <1>6, ByteIs DEF EntryFlags
<1>8. CASE HasFlags(t)
  <2>1. EntrySize(t) > 0 /\ DataAt(t) = EntryAt(t) + 1 /\ DataSize(t) = EntrySize(t) - 1
    BY <1>8 DEF HasFlags, DataAt, DataSize
  <2> QED BY <1>5, <1>6, <1>7, <1>8, <2>1
<1>9. CASE ~HasFlags(t)
  <2>1. DataAt(t) = EntryAt(t) /\ DataSize(t) = EntrySize(t)
    BY <1>5, <1>6, <1>9 DEF DataAt, DataSize
  <2> QED BY <1>5, <1>6, <1>7, <1>9, <2>1
<1> QED BY <1>8, <1>9

\* An entry in bounds lies in the row, with its flags.
LEMMA EntryIsInside ==
  ASSUME RowGiven, NEW t \in TagCursors, EntryInBounds(t)
  PROVE  /\ DataSize(t) > 0 => DataAt(t) + DataSize(t) <= Size
         /\ EntrySize(t) > 0 => EntryAt(t) + EntrySize(t) <= Size
         /\ DataSize(t) > 0 => DataAt(t) + DataSize(t) = EntryAt(t) + EntrySize(t)
<1>1. PICK e \in Nat, a \in Nat, d \in Nat, n \in Nat :
        e = EntrySize(t) /\ a = EntryAt(t) /\ d = DataAt(t) /\ n = DataSize(t)
  BY EntrySizeIs
<1>2. PICK z \in Nat : z = Size
  BY RowIs
<1>3. /\ HasFlags(t) => e > 0 /\ d = a + 1 /\ n = e - 1 /\ a < z
      /\ ~HasFlags(t) => d = a /\ n = e
      /\ n > 0 => d < z /\ n <= z - d
  BY <1>1, <1>2, EntrySizeIs DEF EntryInBounds
<1>4. /\ n > 0 => d + n <= z
      /\ e > 0 => a + e <= z
      /\ n > 0 => d + n = a + e
  BY <1>3
<1> QED BY <1>1, <1>2, <1>4

\* An entry in bounds is the last one, or the next one starts where it ends.
\* What is asked of an entry, and the cursor behind it.
Readable(t, n) ==
  /\ EntryInBounds(t) /\ t.offset # 0 /\ t.offset <= Size
  /\ CountsDown(t, n) /\ Size + 4 * (n + 2) < 65536

Follows(u, t) ==
  /\ u.offset = NextEntry(t).offset /\ u.word = NextEntry(t).word
  /\ u.remaining = NextEntry(t).remaining - EntrySize(t)

LEMMA EntryEnds ==
  ASSUME RowGiven, NEW t \in TagCursors, NEW n \in Nat, Readable(t, n), NEW u \in TagCursors, Follows(u, t)
  PROVE  /\ u.offset = t.offset
         /\ EntryAt(t) = t.offset + Masked(t.word)
         /\ CountsDown(u, n + 1)
         /\ u.remaining = 0 \/ EntryAt(t) + EntrySize(t) = t.offset + Masked(u.word)
<1> EntryInBounds(t) /\ t.offset # 0 /\ t.offset <= Size /\ CountsDown(t, n) /\ Size + 4 * (n + 2) < 65536
  BY DEF Readable
<1> /\ u.offset = NextEntry(t).offset /\ u.word = NextEntry(t).word
    /\ u.remaining = NextEntry(t).remaining - EntrySize(t)
  BY DEF Follows
<1>1. PICK z \in Nat, o \in Nat, r \in Nat : z = Size /\ o = t.offset /\ r = t.remaining /\ z < 32768
  <2>1. Size \in Nat /\ Size < 32768
    BY RowIs
  <2>2. t.offset \in Nat /\ t.remaining \in Nat
    BY DEF TagCursors
  <2> QED BY <2>1, <2>2
<1>2. PICK m \in Nat : m = Masked(t.word) /\ m < 32768
  BY MaskedIs DEF TagCursors
<1>3. PICK w \in Nat : w = NextEntry(t).word
  BY NextEntryIs DEF TagCursors
<1>4. PICK k \in Nat : k = Masked(w) /\ k < 32768
  BY MaskedIs
<1>5. PICK q \in Nat : q = NextEntry(t).remaining
  BY NextEntryIs DEF TagCursors
<1>6. PICK e \in Nat, a \in Nat : e = EntrySize(t) /\ a = EntryAt(t)
  BY EntrySizeIs
<1>7. u.offset = o /\ u.word = w /\ u.remaining = q - e /\ e <= q
  <2>1. e <= q
    BY <1>5, <1>6 DEF EntryInBounds
  <2> QED BY <1>1, <1>3, <1>5, <1>6, <2>1, NextEntryIs
<1>8. a = o + m
  <2>1. 0 <= o + m /\ o + m < 65536 /\ o + m \in Int
    BY <1>1, <1>2
  <2> QED BY <1>1, <1>2, <1>6, <2>1, U16Is DEF EntryAt
<1>9. m <= k /\ e = IF k > m THEN k - m ELSE U16(q)
  BY <1>2, <1>3, <1>4, <1>5, <1>6 DEF EntryInBounds, EntrySize
<1>10. e > 0 => a + e <= z
  BY <1>1, <1>6, EntryIsInside
<1>11. r <= z \/ r + 4 * (n + 1) >= SizeT \/ (r + 4 * (n + 1) + m >= SizeT /\ o + m <= z)
  BY <1>1, <1>2 DEF CountsDown
<1>12. r < SizeT
  BY <1>1 DEF CountsDown
<1>13. \/ q = r
       \/ q = IF r < 4 THEN r - 4 + SizeT ELSE r - 4
  <2>1. r - 4 \in Int /\ r - 4 >= -4 /\ r - 4 < SizeT
    BY <1>12 DEF SizeT
  <2> QED BY <1>1, <1>5, <2>1, NextEntryIs, USizeIs
<1>14. q <= z \/ q + 4 * (n + 2) >= SizeT \/ (q + 4 * (n + 2) + m >= SizeT /\ o + m <= z)
  BY <1>11, <1>13 DEF SizeT
<1>17. q - e < SizeT
  BY <1>12, <1>13 DEF SizeT
<1>15. CASE k > m
  <2>1. e = k - m /\ a + e = o + k /\ o + k <= z
    BY <1>8, <1>9, <1>10, <1>15
  <2>2. \/ q - e <= z
        \/ q - e + 4 * (n + 2) + k >= SizeT
    BY <1>14, <2>1 DEF SizeT
  <2>3. CountsDown(u, n + 1)
    BY <1>1, <1>4, <1>7, <1>17, <2>1, <2>2 DEF CountsDown
  <2> QED BY <1>1, <1>2, <1>4, <1>6, <1>7, <1>8, <2>1, <2>3
<1>16. CASE k = m
  <2>1. e = U16(q)
    BY <1>9, <1>16
  <2>2. CASE q <= z
    <3>1. e = q
      BY <1>1, <2>1, <2>2, U16Is
    <3>2. q - e = 0 /\ 0 <= z
      BY <3>1
    <3> QED BY <1>1, <1>2, <1>6, <1>7, <1>8, <1>17, <3>2 DEF CountsDown
  <2>3. CASE q > z
    <3>1. q < SizeT
      BY <1>12, <1>13 DEF SizeT
    <3>2. q % 65536 = q - 255 * 65536
      BY <1>1, <1>14, <2>3, <3>1 DEF SizeT
    <3>3. e = q - 255 * 65536
      BY <2>1, <3>2 DEF U16
    <3>4. e > 0 /\ a + e > z
      BY <1>1, <1>8, <1>14, <2>3, <3>3 DEF SizeT
    <3> QED BY <1>10, <3>4
  <2> QED BY <2>2, <2>3
<1> QED BY <1>9, <1>15, <1>16
-----------------------------------------------------------------------------
(* A row stays what it is while it is read.                                *)
LEMMA RowStays ==
  ASSUME UNCHANGED <<row, stray>>
  PROVE  /\ RowGiven' = RowGiven /\ Columns' = Columns /\ Size' = Size
         /\ LastVariable' = LastVariable
         /\ RowWord(0)' = RowWord(0) /\ ColumnsDiffer' = ColumnsDiffer /\ SizeT' = SizeT
         /\ ValueRead' = ValueRead /\ row.linear' = row.linear
BY DEF RowGiven, Columns, Size, LastVariable, RowWord, Byte, ColumnsDiffer, SizeT,
   ValueRead, Encodings, Encoding

LEMMA MaskStays ==
  ASSUME UNCHANGED row, NEW w
  PROVE  Masked(w)' = Masked(w)
BY DEF Masked

\* What is said of the values before a step holds of them behind it.
LEMMA EndsStay ==
  ASSUME RowGiven, CursorsAre, HasColumn, NEW v \in ValueRead, Pass(v), NEW o \in Nat, NEW p \in Nat, o <= p
  PROVE  /\ FixedEndBy(o) /\ (Column.id <= 127 /\ v.size > 0 => v.offset + v.size <= p) => FixedEndBy(p)'
         /\ OthersEndBy(o) /\ (Column.id > 127 /\ v.size > 0 => v.offset + v.size <= p) => OthersEndBy(p)'
<1>1. UNCHANGED <<row, stray>>
  BY DEF Pass
<1>2. PICK n \in Nat : n = Len(values)
  BY ColumnIs
<1>3. /\ DOMAIN values = 1..n /\ DOMAIN values' = 1..(n + 1) /\ values'[n + 1] = v
      /\ \A i \in 1..n : values'[i] = values[i]
  BY <1>2, Passed
<1>4. Columns' = Columns /\ Column = Columns[n + 1] /\ Column.id \in Nat
  BY <1>1, <1>2, RowStays, ColumnIs DEF Column
<1>5. \A i \in 1..n : values[i] \in ValueRead
  BY <1>2, ElementOfSeq DEF CursorsAre
<1>6. \A x \in ValueRead : x.offset \in Nat /\ x.size \in Nat
  BY DEF ValueRead
<1>7. ASSUME FixedEndBy(o), Column.id <= 127 /\ v.size > 0 => v.offset + v.size <= p,
             NEW i \in 1..(n + 1), AreFixed(i)', HasData(i)'
      PROVE  EndOf(i)' <= p
  <2>1. CASE i = n + 1
    BY <1>3, <1>4, <1>7, <2>1 DEF AreFixed, HasData, EndOf
  <2>2. CASE i # n + 1
    <3>1. i \in 1..n /\ values'[i] = values[i]
      BY <1>2, <1>3, <2>2
    <3>2. values[i].offset + values[i].size <= o
      BY <1>3, <1>4, <1>7, <3>1 DEF FixedEndBy, AreFixed, HasData, EndOf
    <3>3. PICK a \in Nat : a = values[i].offset + values[i].size
      BY <1>5, <1>6, <3>1
    <3> QED BY <3>1, <3>2, <3>3 DEF EndOf
  <2> QED BY <2>1, <2>2
<1>8. ASSUME OthersEndBy(o), Column.id > 127 /\ v.size > 0 => v.offset + v.size <= p,
             NEW i \in 1..(n + 1), ~AreFixed(i)', HasData(i)'
      PROVE  EndOf(i)' <= p
  <2>1. CASE i = n + 1
    BY <1>3, <1>4, <1>8, <2>1 DEF AreFixed, HasData, EndOf
  <2>2. CASE i # n + 1
    <3>1. i \in 1..n /\ values'[i] = values[i]
      BY <1>2, <1>3, <2>2
    <3>2. values[i].offset + values[i].size <= o
      BY <1>3, <1>4, <1>8, <3>1 DEF OthersEndBy, AreFixed, HasData, EndOf
    <3>3. PICK a \in Nat : a = values[i].offset + values[i].size
      BY <1>5, <1>6, <3>1
    <3> QED BY <3>1, <3>2, <3>3 DEF EndOf
  <2> QED BY <2>1, <2>2
<1> QED BY <1>3, <1>7, <1>8 DEF FixedEndBy, OthersEndBy

\* A column is passed with a value inside of the row and behind the others.
PassesBehind(v) ==
  /\ HasColumn /\ v \in ValueRead /\ Pass(v)
  /\ ~row.linear /\ v.size > 0 => v.offset + v.size <= Size
  /\ ~row.linear /\ ColumnsDiffer /\ v.size > 0 =>
       IF Column.id <= 127 THEN FixedEndBy(v.offset) ELSE OthersEndBy(v.offset)

LEMMA ValueIsApart ==
  ASSUME RowGiven, CursorsAre, ValuesLieApart, NEW v, PassesBehind(v)
  PROVE  ValuesLieApart'
<1>1. UNCHANGED <<row, stray>> /\ v \in ValueRead /\ HasColumn /\ Pass(v)
  BY DEF PassesBehind, Pass
<1>2. PICK n \in Nat : n = Len(values)
  BY <1>1, ColumnIs
<1>3. /\ DOMAIN values = 1..n /\ DOMAIN values' = 1..(n + 1) /\ values'[n + 1] = v
      /\ \A i \in 1..n : values'[i] = values[i]
  BY <1>1, <1>2, Passed
<1>4. Columns' = Columns /\ Column = Columns[n + 1] /\ Column.id \in Nat
  BY <1>1, <1>2, RowStays, ColumnIs DEF Column
<1>5. ValuesInsideRow'
  <2>1. SUFFICES ASSUME ~row.linear, NEW i \in 1..(n + 1), HasData(i)' PROVE EndOf(i)' <= Size
    BY <1>1, <1>3, RowStays DEF ValuesInsideRow
  <2>2. CASE i = n + 1
    BY <1>3, <2>1, <2>2 DEF HasData, EndOf, PassesBehind
  <2>3. CASE i # n + 1
    <3>1. i \in 1..n /\ values'[i] = values[i]
      BY <1>3, <2>3
    <3> QED BY <1>3, <2>1, <3>1 DEF HasData, EndOf, ValuesLieApart, ValuesInsideRow
  <2> QED BY <2>2, <2>3
<1>6. ValuesApart'
  <2>1. SUFFICES ASSUME ~row.linear, ColumnsDiffer, NEW i \in 1..(n + 1), NEW j \in 1..(n + 1), i < j,
                        AreFixed(i)' = AreFixed(j)', HasData(i)', HasData(j)'
                 PROVE  EndOf(i)' <= values'[j].offset
    BY <1>1, <1>3, RowStays DEF ValuesApart
  <2>2. i \in 1..n /\ values'[i] = values[i]
    BY <1>3, <2>1
  <2>3. CASE j = n + 1
    <3>1. values'[j] = v /\ v.size > 0
      BY <1>3, <2>1, <2>3 DEF HasData
    <3>2. HasData(i) /\ AreFixed(i) = (Column.id <= 127)
      BY <1>4, <2>1, <2>2, <2>3 DEF AreFixed, HasData
    <3>3. EndOf(i) <= v.offset
      BY <1>3, <1>4, <2>1, <2>2, <3>1, <3>2 DEF PassesBehind, FixedEndBy, OthersEndBy
    <3> QED BY <2>2, <3>1, <3>3 DEF EndOf
  <2>4. CASE j # n + 1
    <3>1. j \in 1..n /\ values'[j] = values[j]
      BY <1>3, <2>4
    <3> QED BY <1>3, <1>4, <2>1, <2>2, <3>1 DEF HasData, EndOf, AreFixed, ValuesLieApart, ValuesApart
  <2> QED BY <2>3, <2>4
<1> QED BY <1>5, <1>6 DEF ValuesLieApart
-----------------------------------------------------------------------------
LEMMA NumbersStay ==
  ASSUME RowGiven, CursorsAre, HasColumn, NEW v \in ValueRead, Pass(v), NEW id, OthersAreNumbered(id),
         Column.id > 127 /\ v.size > 0 => Column.id = id
  PROVE  OthersAreNumbered(id)'
<1>1. UNCHANGED <<row, stray>>
  BY DEF Pass
<1>2. PICK n \in Nat : n = Len(values)
  BY ColumnIs
<1>3. /\ DOMAIN values = 1..n /\ DOMAIN values' = 1..(n + 1) /\ values'[n + 1] = v
      /\ \A i \in 1..n : values'[i] = values[i]
  BY <1>2, Passed
<1>4. Columns' = Columns /\ Column = Columns[n + 1] /\ Column.id \in Nat
  BY <1>1, <1>2, RowStays, ColumnIs DEF Column
<1>5. SUFFICES ASSUME NEW i \in 1..(n + 1), ~AreFixed(i)', HasData(i)' PROVE Columns[i].id = id
  BY <1>3, <1>4 DEF OthersAreNumbered
<1>6. CASE i = n + 1
  BY <1>3, <1>4, <1>5, <1>6 DEF AreFixed, HasData
<1>7. CASE i # n + 1
  <2>1. i \in 1..n /\ values'[i] = values[i]
    BY <1>3, <1>7
  <2> QED BY <1>3, <1>4, <1>5, <2>1 DEF AreFixed, HasData, OthersAreNumbered
<1> QED BY <1>6, <1>7

LEMMA CountGoesOn ==
  ASSUME RowGiven, NEW t \in TagCursors, NEW n \in Nat, CountsDown(t, n)
  PROVE  CountsDown(t, n + 1)
<1>1. PICK r \in Nat, z \in Nat, m \in Nat : r = t.remaining /\ z = Size /\ m = Masked(t.word)
  BY RowIs, MaskedIs DEF TagCursors
<1>2. /\ r < SizeT
      /\ r <= z \/ r + 4 * (n + 1) >= SizeT \/ (r + 4 * (n + 1) + m >= SizeT /\ t.offset + m <= z)
  BY <1>1 DEF CountsDown
<1>3. r <= z \/ r + 4 * (n + 1 + 1) >= SizeT \/ (r + 4 * (n + 1 + 1) + m >= SizeT /\ t.offset + m <= z)
  BY <1>2 DEF SizeT
<1> QED BY <1>1, <1>2, <1>3 DEF CountsDown

LEMMA CountStays ==
  ASSUME UNCHANGED <<row, stray>>, NEW t, NEW n
  PROVE  CountsDown(t, n)' = CountsDown(t, n)
BY DEF CountsDown, Size, SizeT, Masked

-----------------------------------------------------------------------------
LEMMA QuietStep ==
  ASSUME RowInv, UNCHANGED <<row, stray, values, fixedAt, variable, tagged>>, stage' = "done"
  PROVE  RowInv'
<1>1. /\ RowGiven' /\ Columns' = Columns /\ Size' = Size
      /\ ColumnsDiffer' = ColumnsDiffer /\ ValueRead' = ValueRead
  BY RowStays DEF RowInv
<1>2. CursorsAre'
  BY <1>1 DEF RowInv, CursorsAre, Cursors, TagCursors
<1>3. ValuesLieApart'
  BY <1>1 DEF RowInv, ValuesLieApart, ValuesInsideRow, ValuesApart,
     HasData, EndOf, AreFixed
<1>4. RowOrdered'
  <2>1. SizesAreRead' = SizesAreRead /\ RowWord(0)' = RowWord(0)
    BY RowStays DEF SizesAreRead
  <2>2. CountsDown(tagged, Len(values))' = CountsDown(tagged, Len(values))
    BY DEF CountsDown, Size, SizeT, Masked
  <2>3. Masked(tagged.word)' = Masked(tagged.word)
    BY DEF Masked
  <2> QED BY <1>1, <2>1, <2>2, <2>3 DEF RowInv, RowOrdered, ArrayUnopened, ArrayOpened, FixedEndBy, OthersEndBy,
          OthersAreNumbered, HasData, EndOf, AreFixed
<1> QED BY <1>1, <1>2, <1>3, <1>4 DEF RowInv

LEMMA HeaderStep == RowInv /\ ReadRowHeader => RowInv'
<1>1. SUFFICES ASSUME RowInv, ReadRowHeader PROVE RowInv'
  OBVIOUS
<1>2. /\ UNCHANGED <<row, stray, values, fixedAt, tagged>> /\ Size >= 4
      /\ stage = "header" /\ stage' = "columns"
  BY <1>1 DEF ReadRowHeader
<1>3. /\ RowGiven' /\ Columns' = Columns /\ Size' = Size
      /\ ColumnsDiffer' = ColumnsDiffer /\ ValueRead' = ValueRead
  BY <1>1, <1>2, RowStays DEF RowInv
<1>4. /\ values = <<>> /\ DOMAIN values = {} /\ Len(values) <= Len(Columns)
      /\ tagged = NotTagged /\ fixedAt = 4
  BY <1>1, <1>2 DEF RowInv, CursorsAre
<1>5. variable' \in Cursors
  <2>1. NumberOfSizes \in Int /\ Byte(1) \in Nat /\ RowWord(2) \in Nat
    BY <1>1, ByteIs, WordIs DEF NumberOfSizes, LastVariable, RowInv
  <2>2. U16(RowWord(2) + 2 * NumberOfSizes) \in Nat
    BY <2>1, U16Is
  <2> HIDE DEF U16, RowWord, NumberOfSizes
  <2> QED BY <1>1, <2>1, <2>2 DEF ReadRowHeader, RowInv, CursorsAre, Cursors
<1>6. CursorsAre'
  <2>1. fixedAt' <= Size' /\ Size' >= 4
    BY <1>2, <1>3, <1>4
  <2> QED BY <1>1, <1>2, <1>3, <1>4, <1>5, <2>1 DEF RowInv, CursorsAre, TagCursors
<1>7. ValuesLieApart'
  BY <1>2, <1>4 DEF ValuesLieApart, ValuesInsideRow, ValuesApart
<1>8. RowOrdered'
  <2>1. tagged'.offset = 0 /\ tagged'.remaining = 0
    BY <1>2, <1>4 DEF NotTagged
  <2>2. FixedEndBy(fixedAt)' /\ OthersEndBy(variable.valueAt)'
    BY <1>2, <1>4 DEF FixedEndBy, OthersEndBy
  <2> QED BY <2>1, <2>2 DEF RowOrdered, ArrayUnopened
<1> QED BY <1>3, <1>6, <1>7, <1>8 DEF RowInv

\* Passing a column of a fixed size leaves the others as they are.
LEMMA FixedPasses ==
  ASSUME RowInv, NEW v, PassesBehind(v), Column.id <= 127, UNCHANGED <<variable, tagged>>,
         fixedAt' \in Nat, fixedAt' <= Size, fixedAt <= fixedAt',
         ~row.linear /\ v.size > 0 => v.offset + v.size <= fixedAt'
  PROVE  RowInv'
<1>1. UNCHANGED <<row, stray, stage>> /\ v \in ValueRead /\ HasColumn /\ Pass(v) /\ stage = "columns"
  BY DEF PassesBehind, Pass, HasColumn
<1>2. RowGiven /\ CursorsAre /\ ValuesLieApart /\ Column.id \in Nat
  BY <1>1, ColumnIs DEF RowInv
<1>3. /\ RowGiven' /\ Columns' = Columns /\ Size' = Size
      /\ ColumnsDiffer' = ColumnsDiffer /\ ValueRead' = ValueRead
  BY <1>1, <1>2, RowStays
<1>4. PICK n \in Nat : n = Len(values) /\ Len(values') = n + 1
  BY <1>1, <1>2, ColumnIs, Passed
<1>5. CursorsAre'
  <2>1. values' \in Seq(ValueRead) /\ Len(values') <= Len(Columns)
    BY <1>1, <1>2, Passed
  <2>2. variable' \in Cursors /\ tagged' \in TagCursors /\ Size >= 4
    BY <1>1, <1>2 DEF CursorsAre
  <2>3. stage' = "columns" /\ stage' # "header"
    BY <1>1
  <2> QED BY <1>3, <2>1, <2>2, <2>3 DEF CursorsAre, Cursors, TagCursors
<1>6. ValuesLieApart'
  BY <1>2, ValueIsApart
<1>7. ASSUME ~row.linear, ColumnsDiffer
      PROVE  /\ FixedEndBy(fixedAt)'
             /\ tagged.offset = 0 => ArrayUnopened'
             /\ tagged.offset # 0 => ArrayOpened'
  <2>1. FixedEndBy(fixedAt)'
    <3>1. PICK o \in Nat, p \in Nat : o = fixedAt /\ p = fixedAt'
      BY <1>2 DEF CursorsAre
    <3>2. FixedEndBy(o) /\ o <= p /\ (v.size > 0 => v.offset + v.size <= p)
      BY <1>7, <3>1 DEF RowInv, RowOrdered
    <3>3. FixedEndBy(p)'
      BY <1>1, <1>2, <3>2, EndsStay
    <3> QED BY <3>1, <3>3 DEF FixedEndBy
  <2>2. ASSUME NEW o \in Nat, OthersEndBy(o) PROVE OthersEndBy(o)'
    BY <1>1, <1>2, <2>2, EndsStay
  <2>3. SizesAreRead' = SizesAreRead /\ RowWord(0)' = RowWord(0)
    BY <1>1, RowStays DEF SizesAreRead
  <2>4. CASE tagged.offset = 0
    <3>1. ArrayUnopened
      BY <1>7, <2>4 DEF RowInv, RowOrdered
    <3>2. PICK o \in Nat, z \in Nat : o = variable.valueAt /\ z = RowWord(0)
      BY <1>2, WordIs DEF CursorsAre, Cursors
    <3>3. OthersEndBy(o) => OthersEndBy(o)'
      BY <2>2
    <3>4. OthersAreNumbered(z) => OthersAreNumbered(z)'
      BY <1>1, <1>2, NumbersStay
    <3>5. OthersEndBy(variable.valueAt) => OthersEndBy(variable.valueAt)'
      BY <3>2, <3>3 DEF OthersEndBy
    <3>6. OthersAreNumbered(RowWord(0)) => OthersAreNumbered(RowWord(0))'
      BY <2>3, <3>2, <3>4 DEF OthersAreNumbered
    <3> QED BY <2>1, <2>3, <2>4, <3>1, <3>5, <3>6 DEF ArrayUnopened
  <2>5. CASE tagged.offset # 0
    <3>1. ArrayOpened
      BY <1>7, <2>5 DEF RowInv, RowOrdered
    <3>2. PICK o \in Nat : o = tagged.offset + Masked(tagged.word)
      <4>1. tagged.offset \in Nat /\ tagged.word \in Nat
        BY <1>2 DEF CursorsAre, TagCursors
      <4> QED BY <1>2, <4>1, MaskedIs
    <3>3. OthersEndBy(o) => OthersEndBy(o)'
      BY <2>2
    <3>4. Masked(tagged.word)' = Masked(tagged.word)
      BY <1>1 DEF Masked
    <3>7. OthersEndBy(tagged.offset + Masked(tagged.word))
            => OthersEndBy(tagged.offset + Masked(tagged.word))'
      BY <3>2, <3>3, <3>4 DEF OthersEndBy
    <3>5. CountsDown(tagged, n + 1)
      BY <1>2, <1>4, <3>1, CountGoesOn DEF ArrayOpened, CursorsAre
    <3>6. CountsDown(tagged, Len(values))'
      BY <1>1, <1>4, <3>5 DEF CountsDown, Size, SizeT, Masked
    <3> QED BY <1>3, <2>1, <2>3, <2>5, <3>1, <3>6, <3>7 DEF ArrayOpened
  <2> QED BY <2>1, <2>4, <2>5
<1>8. RowOrdered'
  BY <1>1, <1>3, <1>7 DEF RowOrdered
<1> QED BY <1>3, <1>5, <1>6, <1>8 DEF RowInv

LEMMA FixedValueStep == RowInv /\ FixedValue => RowInv'
<1>1. SUFFICES ASSUME RowInv, FixedValue PROVE RowInv'
  OBVIOUS
<1>2. HasColumn /\ Column.id <= 127 /\ Column.size <= Size - fixedAt /\ UNCHANGED <<variable, tagged>>
      /\ fixedAt' = U16(fixedAt + Column.size) /\ Pass(ValueAt(fixedAt, Column.size, 0))
  BY <1>1 DEF FixedValue, IsFixed, Accepted
<1>3. PICK o \in Nat, n \in Nat, z \in Nat :
        o = fixedAt /\ n = Column.size /\ z = Size /\ o <= z /\ z < 32768 /\ n <= z - o
  <2>1. RowGiven /\ CursorsAre
    BY <1>1 DEF RowInv
  <2>2. Column.size \in Nat /\ Size \in Nat /\ Size < 32768
    BY <1>2, <2>1, RowIs, ColumnIs
  <2>3. fixedAt \in Nat /\ fixedAt <= Size
    BY <1>2, <2>1 DEF CursorsAre, HasColumn
  <2> QED BY <1>2, <2>2, <2>3
<1>4. PICK v \in ValueRead : v = ValueAt(fixedAt, Column.size, 0) /\ v.offset = o /\ v.size = n
  BY <1>1, <1>2, <1>3, ValueIs DEF RowInv
<1>5. fixedAt' = o + n
  BY <1>2, <1>3, U16Is
<1>6. PassesBehind(v)
  BY <1>1, <1>2, <1>3, <1>4 DEF PassesBehind, RowInv, RowOrdered
<1> QED BY <1>1, <1>2, <1>3, <1>4, <1>5, <1>6, FixedPasses

LEMMA FixedAbsentStep == RowInv /\ FixedAbsent => RowInv'
<1>1. SUFFICES ASSUME RowInv, FixedAbsent PROVE RowInv'
  OBVIOUS
<1>2. HasColumn /\ Column.id <= 127 /\ UNCHANGED <<fixedAt, variable, tagged>> /\ Pass(NoValue)
  BY <1>1 DEF FixedAbsent, IsFixed, Accepted
<1>3. NoValue \in ValueRead /\ NoValue.size = 0
  BY <1>1, <1>2, NoDataIs DEF NoValue, RowInv
<1>4. fixedAt \in Nat /\ fixedAt <= Size /\ fixedAt <= fixedAt
  BY <1>1, <1>2 DEF RowInv, CursorsAre, HasColumn
<1>5. PassesBehind(NoValue)
  BY <1>2, <1>3 DEF PassesBehind
<1> QED BY <1>1, <1>2, <1>3, <1>4, <1>5, FixedPasses
-----------------------------------------------------------------------------
\* While sizes are left no tagged value has been read.
LEMMA VariablePasses ==
  ASSUME RowInv, NEW v, PassesBehind(v), Column.id > 127, ~SizesAreRead, UNCHANGED <<fixedAt, tagged>>,
         variable' \in Cursors, variable.valueAt <= variable'.valueAt,
         ~row.linear /\ v.size > 0 => v.offset + v.size <= variable'.valueAt
  PROVE  RowInv'
<1>1. UNCHANGED <<row, stray, stage>> /\ v \in ValueRead /\ HasColumn /\ Pass(v) /\ stage = "columns"
  BY DEF PassesBehind, Pass, HasColumn
<1>2. RowGiven /\ CursorsAre /\ ValuesLieApart /\ Column.id \in Nat
  BY <1>1, ColumnIs DEF RowInv
<1>3. /\ RowGiven' /\ Columns' = Columns /\ Size' = Size
      /\ ColumnsDiffer' = ColumnsDiffer /\ ValueRead' = ValueRead
  BY <1>1, <1>2, RowStays
<1>4. CursorsAre'
  <2>1. values' \in Seq(ValueRead) /\ Len(values') <= Len(Columns)
    BY <1>1, <1>2, Passed
  <2>2. fixedAt' \in Nat /\ tagged' \in TagCursors /\ Size >= 4 /\ fixedAt' <= Size
    BY <1>1, <1>2 DEF CursorsAre
  <2>3. stage' = "columns" /\ stage' # "header"
    BY <1>1
  <2> QED BY <1>3, <2>1, <2>2, <2>3 DEF CursorsAre, Cursors, TagCursors
<1>5. ValuesLieApart'
  BY <1>2, ValueIsApart
<1>6. ASSUME ~row.linear, ColumnsDiffer
      PROVE  FixedEndBy(fixedAt)' /\ tagged.offset = 0 /\ ArrayUnopened'
  <2>1. FixedEndBy(fixedAt)'
    <3>1. PICK o \in Nat : o = fixedAt
      BY <1>2 DEF CursorsAre
    <3>2. FixedEndBy(o)
      BY <1>6, <3>1 DEF RowInv, RowOrdered
    <3>3. FixedEndBy(o)'
      BY <1>1, <1>2, <3>2, EndsStay
    <3> QED BY <3>1, <3>3 DEF FixedEndBy
  <2>2. tagged.offset = 0 /\ tagged.remaining = 0 /\ OthersEndBy(variable.valueAt)
    BY <1>6 DEF RowInv, RowOrdered, ArrayUnopened, ArrayOpened
  <2>3. OthersEndBy(variable.valueAt)'
    <3>1. PICK o \in Nat, p \in Nat : o = variable.valueAt /\ p = variable'.valueAt
      BY <1>2 DEF CursorsAre, Cursors
    <3>2. OthersEndBy(o) /\ o <= p /\ (v.size > 0 => v.offset + v.size <= p)
      BY <1>6, <2>2, <3>1
    <3>3. OthersEndBy(p)'
      BY <1>1, <1>2, <3>2, EndsStay
    <3> QED BY <3>1, <3>3 DEF OthersEndBy
  <2>4. tagged'.remaining = 0
    BY <2>2
  <2> QED BY <2>1, <2>2, <2>3, <2>4 DEF ArrayUnopened
<1>7. RowOrdered'
  BY <1>1, <1>3, <1>6 DEF RowOrdered
<1> QED BY <1>3, <1>4, <1>5, <1>7 DEF RowInv

LEMMA NextSizeIs ==
  ASSUME RowInv
  PROVE  NextSize \in Cursors /\ NextSize.valueAt = variable.valueAt
<1>1. variable \in Cursors /\ variable.sizeAt + 2 \in Int
  BY DEF RowInv, CursorsAre, Cursors
<1>2. U16(variable.sizeAt + 2) \in Nat
  BY <1>1, U16Is
<1>3. PICK a \in Nat, b \in Nat : a = U16(variable.sizeAt + 2) /\ b = variable.current + 1
  BY <1>1, <1>2 DEF Cursors
<1>4. NextSize = [variable EXCEPT !.sizeAt = a, !.current = b]
  BY <1>3 DEF NextSize
<1> QED BY <1>1, <1>3, <1>4 DEF Cursors

LEMMA SkipSizeStep == RowInv /\ SkipSize => RowInv'
<1>1. SUFFICES ASSUME RowInv, SkipSize PROVE RowInv'
  OBVIOUS
<1>2. UNCHANGED <<row, stray, stage, values, fixedAt, tagged>> /\ variable' = NextSize /\ ~SizesAreRead
  <2>1. variable.current \in Nat /\ LastVariable \in Nat
    BY <1>1, ByteIs DEF RowInv, CursorsAre, Cursors, LastVariable
  <2> QED BY <1>1, <2>1 DEF SkipSize, IsVariable, SizesAreRead
<1>3. variable' \in Cursors /\ variable'.valueAt = variable.valueAt
  BY <1>1, <1>2, NextSizeIs
<1>4. /\ RowGiven' /\ Columns' = Columns /\ Size' = Size
      /\ ColumnsDiffer' = ColumnsDiffer /\ ValueRead' = ValueRead
  BY <1>1, <1>2, RowStays DEF RowInv
<1>5. CursorsAre'
  BY <1>1, <1>2, <1>3, <1>4 DEF RowInv, CursorsAre, TagCursors
<1>6. ValuesLieApart'
  BY <1>1, <1>2, <1>4 DEF RowInv, ValuesLieApart, ValuesInsideRow, ValuesApart,
     HasData, EndOf, AreFixed
<1>7. ASSUME ~row.linear, ColumnsDiffer
      PROVE  FixedEndBy(fixedAt)' /\ tagged.offset = 0 /\ ArrayUnopened'
  <2>1. FixedEndBy(fixedAt) /\ tagged.offset = 0 /\ tagged.remaining = 0 /\ OthersEndBy(variable.valueAt)
    BY <1>1, <1>2, <1>7 DEF RowInv, RowOrdered, ArrayUnopened, ArrayOpened
  <2>2. FixedEndBy(fixedAt)'
    BY <1>2, <1>4, <2>1 DEF FixedEndBy, HasData, EndOf, AreFixed
  <2>3. OthersEndBy(variable.valueAt)'
    BY <1>2, <1>3, <1>4, <2>1 DEF OthersEndBy, HasData, EndOf, AreFixed
  <2>4. tagged'.remaining = 0
    BY <1>2, <2>1
  <2> QED BY <2>1, <2>2, <2>3, <2>4 DEF ArrayUnopened
<1>8. RowOrdered'
  BY <1>2, <1>4, <1>7 DEF RowOrdered
<1> QED BY <1>4, <1>5, <1>6, <1>8 DEF RowInv

\* The column has no value of a variable size.
LEMMA VariableAbsentStep == RowInv /\ (SkipLastSize \/ VariableEmpty \/ VariableBehind) => RowInv'
<1>1. SUFFICES ASSUME RowInv, SkipLastSize \/ VariableEmpty \/ VariableBehind PROVE RowInv'
  OBVIOUS
<1>2. /\ HasColumn /\ Column.id > 127 /\ variable.current < LastVariable
      /\ UNCHANGED <<fixedAt, tagged>> /\ Pass(NoValue) /\ variable' \in {variable, NextSize}
  BY <1>1 DEF SkipLastSize, VariableEmpty, VariableBehind, IsVariable, Accepted
<1>3. NoValue \in ValueRead /\ NoValue.size = 0
  BY <1>1, <1>2, NoDataIs DEF NoValue, RowInv
<1>4. variable \in Cursors /\ variable.valueAt \in Nat /\ variable.current \in Nat /\ LastVariable \in Nat
  BY <1>1, ByteIs DEF RowInv, CursorsAre, Cursors, LastVariable
<1>5. variable' \in Cursors /\ variable'.valueAt = variable.valueAt
  BY <1>1, <1>2, <1>4, NextSizeIs
<1>6. PassesBehind(NoValue)
  BY <1>2, <1>3 DEF PassesBehind
<1>7. ~SizesAreRead /\ variable.valueAt <= variable'.valueAt
  BY <1>2, <1>4, <1>5 DEF SizesAreRead
<1> QED BY <1>1, <1>2, <1>3, <1>5, <1>6, <1>7, VariablePasses

LEMMA VariableValueStep == RowInv /\ VariableValue => RowInv'
<1>1. SUFFICES ASSUME RowInv, VariableValue PROVE RowInv'
  OBVIOUS
<1>2. /\ HasColumn /\ Column.id > 127 /\ variable.current < LastVariable /\ UNCHANGED <<fixedAt, tagged>>
      /\ ThisSize >= variable.previous /\ variable.valueAt <= Size - ValueSize
      /\ variable' = [NextSize EXCEPT !.valueAt = U16(variable.valueAt + ValueSize),
                                        !.previous = ThisSize]
      /\ Pass(ValueAt(variable.valueAt, ValueSize, 0))
  <2>1. NextSize.valueAt = variable.valueAt
    BY <1>1, NextSizeIs
  <2>2. HasColumn /\ Column.id > 127 /\ variable.current < LastVariable
    BY <1>1 DEF VariableValue, IsVariable, Accepted
  <2> QED BY <1>1, <2>1, <2>2 DEF VariableValue, ValueInBounds
<1>3. variable \in Cursors /\ variable.valueAt \in Nat /\ variable.current \in Nat /\ LastVariable \in Nat
  BY <1>1, ByteIs DEF RowInv, CursorsAre, Cursors, LastVariable
<1>4. PICK o \in Nat, n \in Nat, w \in Nat, z \in Nat :
        o = variable.valueAt /\ n = ValueSize /\ w = ThisSize /\ z = Size /\ z < 32768 /\ o <= z - n
  <2>1. ThisSize \in Nat /\ variable.previous \in Nat
    BY <1>1, <1>3, WordIs DEF RowInv, Cursors, ThisSize
  <2>2. ValueSize \in Nat
    BY <1>2, <2>1 DEF ValueSize
  <2>3. Size \in Nat /\ Size < 32768
    BY <1>1, RowIs DEF RowInv
  <2> QED BY <1>2, <1>3, <2>1, <2>2, <2>3
<1>5. PICK v \in ValueRead : v = ValueAt(variable.valueAt, ValueSize, 0) /\ v.offset = o /\ v.size = n
  BY <1>1, <1>2, <1>4, ValueIs DEF RowInv
<1>6. U16(o + n) = o + n
  BY <1>4, U16Is
<1>7. variable' \in Cursors /\ variable'.valueAt = o + n
  <2>1. PICK s \in Cursors : s = NextSize
    BY <1>1, NextSizeIs
  <2>2. PICK e \in Nat : e = o + n /\ e = U16(variable.valueAt + ValueSize)
    BY <1>4, <1>6
  <2>3. variable' = [s EXCEPT !.valueAt = e, !.previous = w]
    <3>1. variable' = [NextSize EXCEPT !.valueAt = U16(variable.valueAt + ValueSize),
                                         !.previous = ThisSize]
      BY <1>2
    <3>2. NextSize = s /\ U16(variable.valueAt + ValueSize) = e /\ ThisSize = w
      BY <1>4, <2>1, <2>2
    <3> QED BY <3>1, <3>2, Zenon
  <2> QED BY <2>2, <2>3 DEF Cursors
<1>8. ~SizesAreRead
  BY <1>2, <1>3 DEF SizesAreRead
<1>9. PassesBehind(v)
  <2>1. o + n <= z
    BY <1>4
  <2>2. ~row.linear /\ ColumnsDiffer => OthersEndBy(o)
    BY <1>1, <1>4, <1>8 DEF RowInv, RowOrdered, ArrayUnopened, ArrayOpened
  <2>3. Column.id \in Nat
    BY <1>1, <1>2, ColumnIs DEF RowInv
  <2> QED BY <1>2, <1>4, <1>5, <2>1, <2>2, <2>3 DEF PassesBehind
<1>10. variable.valueAt <= variable'.valueAt
  BY <1>4, <1>7
<1> QED BY <1>1, <1>2, <1>5, <1>7, <1>8, <1>9, <1>10, VariablePasses
-----------------------------------------------------------------------------
LEMMA EndsGrow ==
  ASSUME RowGiven, CursorsAre, NEW o \in Nat, NEW p \in Nat, OthersEndBy(o), o <= p
  PROVE  OthersEndBy(p)
<1>1. SUFFICES ASSUME NEW i \in DOMAIN values, ~AreFixed(i), HasData(i) PROVE EndOf(i) <= p
  BY DEF OthersEndBy
<1>2. values[i] \in ValueRead
  BY LenProperties, ElementOfSeq DEF CursorsAre
<1>3. PICK e \in Nat : e = EndOf(i)
  BY <1>2 DEF ValueRead, EndOf
<1>4. e <= o
  BY <1>1, <1>3 DEF OthersEndBy
<1> QED BY <1>3, <1>4

LEMMA EndsAtNothing ==
  ASSUME RowGiven, CursorsAre, OthersEndBy(0), NEW id
  PROVE  OthersAreNumbered(id)
<1>1. SUFFICES ASSUME NEW i \in DOMAIN values, ~AreFixed(i), HasData(i) PROVE FALSE
  BY DEF OthersAreNumbered
<1>2. values[i] \in ValueRead
  BY LenProperties, ElementOfSeq DEF CursorsAre
<1>3. values[i].offset + values[i].size <= 0 /\ values[i].size > 0
  BY <1>1 DEF OthersEndBy, EndOf, HasData
<1>4. values[i].offset \in Nat /\ values[i].size \in Nat
  BY <1>2 DEF ValueRead
<1> QED BY <1>3, <1>4

LEMMA NumberedOnce ==
  ASSUME RowGiven, CursorsAre, HasColumn, ColumnsDiffer, OthersAreNumbered(Column.id), NEW o
  PROVE  OthersEndBy(o)
<1>1. SUFFICES ASSUME NEW i \in DOMAIN values, ~AreFixed(i), HasData(i) PROVE FALSE
  BY DEF OthersEndBy
<1>2. PICK n \in Nat : n = Len(values) /\ n + 1 \in DOMAIN Columns /\ n < Len(Columns)
  BY ColumnIs DEF HasColumn
<1>3. i \in 1..n /\ i # n + 1 /\ i \in DOMAIN Columns
  BY <1>2, RowIs, LenProperties DEF CursorsAre
<1>4. Columns[i].id = Column.id /\ Column = Columns[n + 1]
  BY <1>1, <1>2 DEF OthersAreNumbered, Column
<1> QED BY <1>2, <1>3, <1>4 DEF ColumnsDiffer

LEMMA OpenArrayIs ==
  ASSUME RowGiven, CursorsAre
  PROVE  /\ OpenArray \in TagCursors
         /\ tagged.offset # 0 => OpenArray = tagged
         /\ tagged.offset = 0 => OpenArray.offset = variable.valueAt
         /\ tagged.offset = 0 /\ Size > variable.valueAt =>
              /\ OpenArray.id = RowWord(variable.valueAt)
              /\ OpenArray.remaining = USize(Size - variable.valueAt - 4)
         /\ tagged.offset = 0 /\ Size <= variable.valueAt => OpenArray.remaining = tagged.remaining
<1>1. PICK o \in Nat, z \in Nat : o = variable.valueAt /\ z = Size
  BY RowIs DEF CursorsAre, Cursors
<1>2. tagged \in TagCursors
  BY DEF CursorsAre
<1>3. PICK i \in Nat, w \in Nat : i = RowWord(o) /\ w = RowWord(o + 2)
  <2>1. o + 2 \in Nat
    OBVIOUS
  <2> QED BY <2>1, WordIs
<1>4. PICK a \in Nat : a = U16((w % 16384) - 4)
  <2>1. (w % 16384) - 4 \in Int
    OBVIOUS
  <2> QED BY <2>1, U16Is
<1>5. PICK r \in Nat : r = USize(z - o - 4)
  BY DEF USize, SizeT
<1>6. CASE tagged.offset # 0
  BY <1>2, <1>6 DEF OpenArray
<1>7. CASE tagged.offset = 0 /\ z - o > 0
  <2>1. OpenArray = [offset |-> o, id |-> i, word |-> w, at |-> o + 4, array |-> a, remaining |-> r]
    BY <1>1, <1>3, <1>4, <1>5, <1>7 DEF OpenArray
  <2> QED BY <1>1, <1>3, <1>5, <1>7, <2>1 DEF TagCursors
<1>8. CASE tagged.offset = 0 /\ ~(z - o > 0)
  <2>1. OpenArray = [tagged EXCEPT !.offset = o]
    BY <1>1, <1>8 DEF OpenArray
  <2> QED BY <1>1, <1>2, <1>8, <2>1 DEF TagCursors
<1> QED BY <1>6, <1>7, <1>8

\* The array is open, or it is opened again for every column: its offset is 0.
OpenedAt(t) ==
  /\ t.offset = 0 =>
       /\ variable.valueAt = 0
       /\ OthersAreNumbered(RowWord(0))
  /\ t.offset # 0 =>
       /\ t.offset = variable.valueAt /\ t.offset <= Size
       /\ CountsDown(t, Len(values))
       /\ t.remaining = 0 \/ OthersEndBy(t.offset + Masked(t.word))

LEMMA ArrayIsOpen ==
  ASSUME RowInv, HasColumn, ~row.linear, ColumnsDiffer, SizesAreRead, ~BadArray
  PROVE  OpenedAt(OpenArray) /\ (OpenArray.offset = 0 => OpenArray.id = RowWord(0))
<1>1. RowGiven /\ CursorsAre /\ Size >= 4
  BY DEF RowInv, CursorsAre, HasColumn
<1>2. PICK o \in Nat, z \in Nat, n \in Nat :
        o = variable.valueAt /\ z = Size /\ n = Len(values) /\ z >= 4 /\ z < 32768
  BY <1>1, RowIs, ColumnIs DEF CursorsAre, Cursors
<1>3. PICK t \in TagCursors : t = OpenArray
  BY <1>1, OpenArrayIs
<1>4. CASE tagged.offset # 0
  BY <1>1, <1>3, <1>4, OpenArrayIs DEF RowInv, RowOrdered, ArrayOpened, OpenedAt
<1>5. CASE tagged.offset = 0
  <2>1. o <= z /\ t.offset = o
    BY <1>1, <1>2, <1>3, <1>5, OpenArrayIs DEF BadArray
  <2>2. OthersEndBy(o) \/ (o = 0 /\ OthersAreNumbered(RowWord(0)))
    BY <1>2, <1>5 DEF RowInv, RowOrdered, ArrayUnopened
  <2>3. CASE o = 0
    <3>1. t.id = RowWord(0)
      BY <1>1, <1>2, <1>3, <1>5, <2>3, OpenArrayIs
    <3>2. OthersAreNumbered(RowWord(0))
      BY <1>1, <2>2, <2>3, EndsAtNothing
    <3> QED BY <1>2, <1>3, <2>1, <2>3, <3>1, <3>2 DEF OpenedAt
  <2>4. CASE o # 0
    <3>1. OthersEndBy(o)
      BY <2>2, <2>4
    <3>2. PICK m \in Nat : m = o + Masked(t.word) /\ o <= m
      <4>1. t.word \in Nat
        BY DEF TagCursors
      <4>2. Masked(t.word) \in Nat
        BY <1>1, <4>1, MaskedIs
      <4> QED BY <4>2
    <3>3. OthersEndBy(t.offset + Masked(t.word))
      BY <1>1, <2>1, <3>1, <3>2, EndsGrow
    <3>4. PICK r \in Nat : r = t.remaining
      BY DEF TagCursors
    <3>5. r < SizeT /\ (r <= z \/ r + 4 * (n + 1) >= SizeT)
      <4>1. CASE z > o
        <5>1. r = USize(z - o - 4)
          BY <1>1, <1>2, <1>3, <1>5, <3>4, <4>1, OpenArrayIs
        <5>2. z - o - 4 \in Int /\ z - o - 4 >= -4 /\ z - o - 4 < SizeT
          BY <1>2, <4>1 DEF SizeT
        <5>3. r = IF z - o - 4 < 0 THEN z - o - 4 + SizeT ELSE z - o - 4
          BY <5>1, <5>2, USizeIs
        <5> QED BY <1>2, <4>1, <5>3 DEF SizeT
      <4>2. CASE z <= o
        <5>1. tagged.remaining = 0
          BY <1>2, <1>5, <2>4 DEF RowInv, RowOrdered, ArrayUnopened
        <5>2. r = 0
          BY <1>1, <1>2, <1>3, <1>5, <3>4, <4>2, <5>1, OpenArrayIs
        <5> QED BY <1>2, <5>2 DEF SizeT
      <4> QED BY <1>2, <4>1, <4>2
    <3>6. CountsDown(t, Len(values))
      BY <1>2, <3>4, <3>5 DEF CountsDown
    <3> QED BY <1>2, <1>3, <2>1, <2>4, <3>3, <3>6 DEF OpenedAt
  <2> QED BY <2>3, <2>4
<1> QED BY <1>4, <1>5
-----------------------------------------------------------------------------
LEMMA TaggedPasses ==
  ASSUME RowInv, NEW v, PassesBehind(v), Column.id > 127, SizesAreRead, UNCHANGED <<fixedAt, variable>>,
         tagged' \in TagCursors, ~row.linear /\ ColumnsDiffer => OpenedAt(tagged)'
  PROVE  RowInv'
<1>1. UNCHANGED <<row, stray, stage>> /\ v \in ValueRead /\ HasColumn /\ Pass(v) /\ stage = "columns"
  BY DEF PassesBehind, Pass, HasColumn
<1>2. RowGiven /\ CursorsAre /\ ValuesLieApart /\ Column.id \in Nat
  BY <1>1, ColumnIs DEF RowInv
<1>3. /\ RowGiven' /\ Columns' = Columns /\ Size' = Size
      /\ ColumnsDiffer' = ColumnsDiffer /\ ValueRead' = ValueRead
  BY <1>1, <1>2, RowStays
<1>4. CursorsAre'
  <2>1. values' \in Seq(ValueRead) /\ Len(values') <= Len(Columns)
    BY <1>1, <1>2, Passed
  <2>2. fixedAt' \in Nat /\ variable' \in Cursors /\ Size >= 4 /\ fixedAt' <= Size
    BY <1>1, <1>2 DEF CursorsAre
  <2>3. stage' = "columns" /\ stage' # "header"
    BY <1>1
  <2> QED BY <1>3, <2>1, <2>2, <2>3 DEF CursorsAre, Cursors, TagCursors
<1>5. ValuesLieApart'
  BY <1>2, ValueIsApart
<1>6. ASSUME ~row.linear, ColumnsDiffer
      PROVE  /\ FixedEndBy(fixedAt)'
             /\ tagged'.offset = 0 => ArrayUnopened'
             /\ tagged'.offset # 0 => ArrayOpened'
  <2>1. FixedEndBy(fixedAt)'
    <3>1. PICK o \in Nat : o = fixedAt
      BY <1>2 DEF CursorsAre
    <3>2. FixedEndBy(o)
      BY <1>6, <3>1 DEF RowInv, RowOrdered
    <3>3. FixedEndBy(o)'
      BY <1>1, <1>2, <3>2, EndsStay
    <3> QED BY <3>1, <3>3 DEF FixedEndBy
  <2>2. SizesAreRead'
    BY <1>1, RowStays DEF SizesAreRead
  <2>3. OpenedAt(tagged)'
    BY <1>6
  <2> QED BY <2>1, <2>2, <2>3 DEF OpenedAt, ArrayUnopened, ArrayOpened
<1>7. RowOrdered'
  BY <1>1, <1>3, <1>6 DEF RowOrdered
<1> QED BY <1>3, <1>4, <1>5, <1>7 DEF RowInv

LEMMA TagCursorsAre ==
  ASSUME RowGiven, NEW t \in TagCursors
  PROVE  t.offset + Masked(t.word) \in Nat /\ t.offset \in Nat /\ Masked(t.word) \in Nat
<1>1. t.word \in Nat /\ t.offset \in Nat
  BY DEF TagCursors
<1>2. Masked(t.word) \in Nat
  BY <1>1, MaskedIs
<1> QED BY <1>1, <1>2

LEMMA ZeroStays ==
  ASSUME RowGiven, CursorsAre, HasColumn, NEW v \in ValueRead, Pass(v), OthersAreNumbered(RowWord(0)),
         Column.id > 127 /\ v.size > 0 => Column.id = RowWord(0)
  PROVE  OthersAreNumbered(RowWord(0))'
<1>1. PICK z \in Nat : z = RowWord(0) /\ z = RowWord(0)'
  BY WordIs, RowStays DEF Pass
<1>2. OthersAreNumbered(z)'
  BY <1>1, NumbersStay
<1> QED BY <1>1, <1>2 DEF OthersAreNumbered

\* What was found for the tagged values before a step holds of them behind it.
LEMMA OpenedLater ==
  ASSUME RowGiven, UNCHANGED <<row, stray, variable>>, NEW u \in TagCursors, tagged' = u,
         NEW n \in Nat, Len(values') = n + 1, NEW m \in Nat, m = u.offset + Masked(u.word),
         u.offset = 0 => variable.valueAt = 0 /\ OthersAreNumbered(RowWord(0))',
         u.offset # 0 => /\ u.offset = variable.valueAt /\ u.offset <= Size /\ CountsDown(u, n + 1)
                         /\ u.remaining = 0 \/ OthersEndBy(m)'
  PROVE  OpenedAt(tagged)'
<1>1. Size' = Size /\ variable'.valueAt = variable.valueAt /\ m = u.offset + Masked(u.word)'
  BY RowStays, MaskStays
<1>2. CountsDown(u, n + 1) => CountsDown(u, n + 1)'
  BY CountStays
<1>3. CountsDown(u, n + 1)' => CountsDown(tagged, Len(values))'
  BY DEF CountsDown, Masked
<1>4. OthersEndBy(m)' => OthersEndBy(tagged.offset + Masked(tagged.word))'
  BY <1>1 DEF OthersEndBy, Masked
<1> QED BY <1>1, <1>2, <1>3, <1>4 DEF OpenedAt

LEMMA TaggedPhase ==
  ASSUME RowInv, IsTagged
  PROVE  RowGiven /\ CursorsAre /\ HasColumn /\ Column.id > 127 /\ SizesAreRead
BY DEF IsTagged, Accepted, SizesAreRead, RowInv

LEMMA IndexedAbsentStep == RowInv /\ IndexedAbsent => RowInv'
<1>1. SUFFICES ASSUME RowInv, IndexedAbsent PROVE RowInv'
  OBVIOUS
<1>2. /\ IsTagged /\ ~row.linear /\ ~BadArray /\ tagged' = OpenArray /\ Pass(NoValue)
      /\ UNCHANGED <<row, stray, fixedAt, variable>>
  BY <1>1 DEF IndexedAbsent, IsIndexed, Pass
<1>3. RowGiven /\ CursorsAre /\ HasColumn /\ Column.id > 127 /\ SizesAreRead
  BY <1>1, <1>2, TaggedPhase
<1>4. NoValue \in ValueRead /\ NoValue.size = 0
  BY <1>3, NoDataIs DEF NoValue
<1>5. PassesBehind(NoValue)
  BY <1>2, <1>3, <1>4 DEF PassesBehind
<1>6. PICK t \in TagCursors : t = OpenArray
  BY <1>3, OpenArrayIs
<1>7. PICK n \in Nat : n = Len(values) /\ Len(values') = n + 1
  BY <1>2, <1>3, <1>4, ColumnIs, Passed
<1>8. ASSUME ColumnsDiffer
      PROVE  OpenedAt(tagged)'
  <2>1. OpenedAt(t)
    BY <1>1, <1>2, <1>3, <1>6, <1>8, ArrayIsOpen
  <2>2. PICK m \in Nat : m = t.offset + Masked(t.word)
    BY <1>3, TagCursorsAre
  <2>3. OthersEndBy(m) => OthersEndBy(m)'
    BY <1>2, <1>3, <1>4, EndsStay
  <2>4. CountsDown(t, n) => CountsDown(t, n + 1)
    BY <1>3, CountGoesOn
  <2>5. t.offset = 0 => variable.valueAt = 0 /\ OthersAreNumbered(RowWord(0))'
    BY <1>2, <1>3, <1>4, <2>1, ZeroStays DEF OpenedAt
  <2>6. t.offset # 0 => /\ t.offset = variable.valueAt /\ t.offset <= Size /\ CountsDown(t, n + 1)
                        /\ t.remaining = 0 \/ OthersEndBy(m)'
    BY <1>7, <2>1, <2>2, <2>3, <2>4 DEF OpenedAt
  <2> QED BY <1>2, <1>3, <1>6, <1>7, <2>2, <2>5, <2>6, OpenedLater
<1> QED BY <1>1, <1>2, <1>3, <1>5, <1>6, <1>8, TaggedPasses

LEMMA IndexedValueStep == RowInv /\ IndexedValue => RowInv'
<1>1. SUFFICES ASSUME RowInv, IndexedValue PROVE RowInv'
  OBVIOUS
<1>2. PICK t : t = OpenArray
  OBVIOUS
<1>3. PICK v : v = IF DataSize(t) > 0 THEN ValueAt(DataAt(t), DataSize(t), EntryFlags(t))
                   ELSE NoData(EntryFlags(t))
  OBVIOUS
<1>4. PICK u : u = [NextEntry(t) EXCEPT !.remaining = @ - EntrySize(t)]
  OBVIOUS
<1>5. /\ IsTagged /\ ~row.linear /\ ~BadArray /\ AtEntry(t) /\ EntryInBounds(t)
      /\ tagged' = u /\ Pass(v) /\ UNCHANGED <<row, stray, fixedAt, variable>>
  BY <1>1, <1>2, <1>3, <1>4 DEF IndexedValue, IsIndexed, Pass
<1>6. RowGiven /\ CursorsAre /\ HasColumn /\ Column.id > 127 /\ SizesAreRead
  BY <1>1, <1>5, TaggedPhase
<1>7. t \in TagCursors
  BY <1>2, <1>6, OpenArrayIs
<1>8. PICK e \in Nat, a \in Nat, d \in Nat, s \in Nat, z \in Nat :
        e = EntrySize(t) /\ a = EntryAt(t) /\ d = DataAt(t) /\ s = DataSize(t) /\ z = Size
  BY <1>6, <1>7, EntrySizeIs, RowIs
<1>9. v \in ValueRead /\ v.size = s /\ (s > 0 => v.offset = d)
  <2>1. EntryFlags(t) \in Nat
    BY <1>6, <1>7, EntrySizeIs
  <2>2. CASE s > 0
    <3>1. PICK f \in Nat : f = EntryFlags(t)
      BY <2>1
    <3>2. v = ValueAt(d, s, f)
      BY <1>3, <1>8, <2>2, <3>1
    <3>3. ValueAt(d, s, f) \in ValueRead /\ ValueAt(d, s, f).offset = d /\ ValueAt(d, s, f).size = s
      BY <1>6, ValueIs
    <3> QED BY <3>2, <3>3
  <2>3. CASE ~(s > 0)
    BY <1>3, <1>6, <1>8, <2>1, <2>3, NoDataIs
  <2> QED BY <2>2, <2>3
<1>10. s > 0 => d + s <= z /\ d + s = a + e /\ a <= d
  <2>1. s > 0 => d + s <= z /\ d + s = a + e
    BY <1>5, <1>6, <1>7, <1>8, EntryIsInside
  <2>2. a <= d
    BY <1>6, <1>7, <1>8, EntrySizeIs
  <2> QED BY <2>1, <2>2
<1>11. u \in TagCursors /\ Follows(u, t)
  <2>1. PICK q \in Nat : q = NextEntry(t).remaining
    BY <1>6, <1>7, NextEntryIs DEF TagCursors
  <2>2. e <= q
    BY <1>5, <1>8, <2>1 DEF EntryInBounds
  <2>3. PICK r \in Nat : r = q - e
    BY <2>2
  <2>4. u = [NextEntry(t) EXCEPT !.remaining = r]
    BY <1>4, <1>8, <2>1, <2>3
  <2> QED BY <1>6, <1>7, <1>8, <2>1, <2>3, <2>4, NextEntryIs DEF TagCursors, Follows
<1>12. PICK n \in Nat : n = Len(values) /\ Len(values') = n + 1 /\ n + 1 <= Len(Columns)
  BY <1>5, <1>6, <1>9, ColumnIs, Passed
<1>13. ASSUME ColumnsDiffer
       PROVE  OpenedAt(t) /\ (t.offset = 0 => t.id = RowWord(0)) /\ Column.id = t.id /\ t.remaining # 0
  BY <1>1, <1>2, <1>5, <1>6, <1>7, <1>13, ArrayIsOpen DEF AtEntry, TagCursors
<1>14. PICK m \in Nat, k \in Nat : m = t.offset + Masked(t.word) /\ k = u.offset + Masked(u.word)
  BY <1>6, <1>7, <1>11, TagCursorsAre
<1>15. ASSUME ColumnsDiffer, t.offset # 0
       PROVE  /\ OthersEndBy(m) /\ a = m /\ u.offset = t.offset /\ CountsDown(u, n + 1)
              /\ u.remaining = 0 \/ a + e = k
  <2>1. OpenedAt(t) /\ t.remaining # 0
    BY <1>13, <1>15
  <2>2. OthersEndBy(m) /\ t.offset <= Size /\ CountsDown(t, n)
    BY <1>12, <1>14, <1>15, <2>1 DEF OpenedAt
  <2>3. Size + 4 * (n + 2) < 65536
    <3>1. Size + 4 * (Len(Columns) + 1) < 65536 /\ Len(Columns) \in Nat
      BY <1>6, <1>15, RowIs DEF ColumnsDiffer
    <3> QED BY <1>8, <1>12, <3>1
  <2>4. /\ u.offset = t.offset /\ EntryAt(t) = t.offset + Masked(t.word) /\ CountsDown(u, n + 1)
        /\ u.remaining = 0 \/ EntryAt(t) + EntrySize(t) = t.offset + Masked(u.word)
    <3>1. Readable(t, n)
      BY <1>5, <1>15, <2>2, <2>3 DEF Readable
    <3> QED BY <1>6, <1>7, <1>11, <3>1, EntryEnds
  <2> QED BY <1>8, <1>14, <2>2, <2>4
<1>16. PassesBehind(v)
  <2>1. ASSUME ColumnsDiffer, s > 0 PROVE OthersEndBy(d)
    <3>1. CASE t.offset # 0
      <4>1. OthersEndBy(m) /\ m <= d
        BY <1>10, <1>15, <2>1, <3>1
      <4> QED BY <1>6, <4>1, EndsGrow
    <3>2. CASE t.offset = 0
      <4>1. OthersAreNumbered(Column.id)
        BY <1>13, <2>1, <3>2 DEF OpenedAt
      <4> QED BY <1>6, <2>1, <4>1, NumberedOnce
    <3> QED BY <3>1, <3>2
  <2>2. Column.id \in Nat
    BY <1>6, ColumnIs
  <2> QED BY <1>5, <1>6, <1>8, <1>9, <1>10, <2>1, <2>2 DEF PassesBehind
<1>17. ASSUME ColumnsDiffer
       PROVE  OpenedAt(tagged)'
  <2>1. u.offset = t.offset
    <3>1. NextEntry(t) \in TagCursors /\ NextEntry(t).offset = t.offset
      BY <1>6, <1>7, NextEntryIs
    <3> QED BY <1>4, <3>1 DEF TagCursors
  <2>2. u.offset = 0 => variable.valueAt = 0 /\ OthersAreNumbered(RowWord(0))'
    BY <1>5, <1>6, <1>9, <1>13, <1>17, <2>1, ZeroStays DEF OpenedAt
  <2>3. ASSUME u.offset # 0
        PROVE  /\ u.offset = variable.valueAt /\ u.offset <= Size /\ CountsDown(u, n + 1)
               /\ u.remaining = 0 \/ OthersEndBy(k)'
    <3>1. u.offset = variable.valueAt /\ u.offset <= Size
      BY <1>13, <1>17, <2>1, <2>3 DEF OpenedAt
    <3>2. OthersEndBy(m) /\ a = m /\ CountsDown(u, n + 1) /\ (u.remaining = 0 \/ a + e = k)
      BY <1>15, <1>17, <2>1, <2>3
    <3>3. CASE a + e = k
      <4>1. m <= k /\ (v.size > 0 => v.offset + v.size <= k)
        BY <1>9, <1>10, <3>2, <3>3
      <4>2. OthersEndBy(k)'
        BY <1>5, <1>6, <1>9, <3>2, <4>1, EndsStay
      <4> QED BY <3>1, <3>2, <4>2
    <3> QED BY <3>1, <3>2, <3>3
  <2> QED BY <1>5, <1>6, <1>11, <1>12, <1>14, <2>2, <2>3, OpenedLater
<1> QED BY <1>1, <1>5, <1>6, <1>11, <1>16, <1>17, TaggedPasses

-----------------------------------------------------------------------------
(* A list of tagged values: nothing is said of where its values are.       *)

LEMMA OpenListIs ==
  ASSUME RowGiven, CursorsAre
  PROVE  OpenList \in TagCursors
<1>1. PICK o \in Nat, z \in Nat : o = variable.valueAt /\ z = Size
  BY RowIs DEF CursorsAre, Cursors
<1>2. tagged \in TagCursors
  BY DEF CursorsAre
<1>3. PICK i \in Nat, w \in Nat : i = RowWord(o) /\ w = RowWord(o + 2)
  <2>1. o + 2 \in Nat
    OBVIOUS
  <2> QED BY <2>1, WordIs
<1>4. PICK a \in Nat : a = U16(o + 4)
  <2>1. o + 4 \in Int
    OBVIOUS
  <2> QED BY <2>1, U16Is
<1>5. PICK r \in Nat : r = USize(z - o - 4)
  BY DEF USize, SizeT
<1>6. CASE tagged.offset # 0
  BY <1>2, <1>6 DEF OpenList
<1>7. CASE tagged.offset = 0
  <2>1. OpenList = [offset |-> o, id |-> i, word |-> w, at |-> a, array |-> 0, remaining |-> r]
    BY <1>1, <1>3, <1>4, <1>5, <1>7 DEF OpenList
  <2> QED BY <2>1 DEF TagCursors
<1> QED BY <1>6, <1>7

LEMMA ItemIs ==
  ASSUME RowGiven, NEW t \in TagCursors
  PROVE  /\ ItemAt(t) \in Nat /\ ItemSize(t) \in Nat /\ ItemLeft(t) \in Nat /\ ItemFlags(t) \in Nat
         /\ NextItem(t) \in TagCursors
<1>1. PICK w \in Nat, a \in Nat, r \in Nat : w = t.word /\ a = t.at /\ r = t.remaining
  BY DEF TagCursors
<1>2. ItemMask(w) - 1 \in Int
  BY DEF ItemMask
<1>3. U16(a + 1) \in Nat /\ U16(ItemMask(w) - 1) \in Nat /\ USize(r - 1) \in Nat
  <2>1. a + 1 \in Int
    OBVIOUS
  <2>2. USize(r - 1) \in Nat
    BY DEF USize, SizeT
  <2> QED BY <1>2, <2>1, <2>2, U16Is
<1>4. PICK o \in Nat, n \in Nat, l \in Nat : o = ItemAt(t) /\ n = ItemSize(t) /\ l = ItemLeft(t)
  BY <1>1, <1>3 DEF ItemAt, ItemSize, ItemLeft
<1>5. ItemFlags(t) \in Nat
  BY <1>1, ByteIs DEF ItemFlags
<1>6. CASE LeftBehind(t) = 0
  <2>1. PICK q \in Nat : q = 0
    OBVIOUS
  <2>2. NextItem(t) = [t EXCEPT !.at = o, !.word = n, !.remaining = q]
    BY <1>4, <1>6, <2>1 DEF NextItem
  <2>3. NextItem(t) \in TagCursors
    BY <2>2 DEF TagCursors
  <2> QED BY <1>4, <1>5, <2>3
<1>7. CASE LeftBehind(t) # 0
  <2>1. o + 2 \in Int /\ o + 4 \in Int
    OBVIOUS
  <2>2. PICK b \in Nat, c \in Nat : b = U16(o + 2) /\ c = U16(o + 4)
    BY <2>1, U16Is
  <2>3. PICK x \in Nat, y \in Nat : x = RowWord(o) /\ y = RowWord(b)
    BY WordIs
  <2>4. LeftBehind(t) - 4 \in Int
    BY <1>4 DEF LeftBehind
  <2>5. PICK q \in Nat : q = USize(LeftBehind(t) - 4)
    BY <2>4 DEF USize, SizeT
  <2>6. NextItem(t) = [t EXCEPT !.id = x, !.word = y, !.at = c, !.remaining = q]
    BY <1>4, <1>7, <2>2, <2>3, <2>5 DEF NextItem
  <2>7. NextItem(t) \in TagCursors
    BY <2>2, <2>3, <2>5, <2>6 DEF TagCursors
  <2> QED BY <1>4, <1>5, <2>7
<1> QED BY <1>6, <1>7

LEMMA ListedStep == RowInv /\ (ListedValue \/ ListedAbsent) => RowInv'
<1>1. SUFFICES ASSUME RowInv, ListedValue \/ ListedAbsent PROVE RowInv'
  OBVIOUS
<1>2. IsTagged /\ row.linear /\ UNCHANGED <<fixedAt, variable>>
  BY <1>1 DEF ListedValue, ListedAbsent, IsListed
<1>3. RowGiven /\ CursorsAre /\ HasColumn /\ Column.id > 127 /\ SizesAreRead
  BY <1>1, <1>2, TaggedPhase
<1>4. PICK t \in TagCursors : t = OpenList
  BY <1>3, OpenListIs
<1>5. CASE ListedValue
  <2>1. PICK v : v = IF ItemSize(t) > 0 THEN ValueAt(ItemAt(t), ItemSize(t), ItemFlags(t))
                     ELSE NoData(ItemFlags(t))
    OBVIOUS
  <2>2. tagged' = NextItem(t) /\ Pass(v)
    BY <1>4, <1>5, <2>1 DEF ListedValue
  <2>3. v \in ValueRead
    BY <1>3, <2>1, ItemIs, ValueIs, NoDataIs
  <2>4. PassesBehind(v) /\ tagged' \in TagCursors
    BY <1>2, <1>3, <2>2, <2>3, ItemIs DEF PassesBehind
  <2> QED BY <1>1, <1>2, <1>3, <2>4, TaggedPasses
<1>6. CASE ListedAbsent
  <2>1. tagged' = t /\ Pass(NoValue)
    BY <1>4, <1>6 DEF ListedAbsent
  <2>2. NoValue \in ValueRead
    BY <1>3, NoDataIs DEF NoValue
  <2>3. PassesBehind(NoValue) /\ tagged' \in TagCursors
    BY <1>2, <1>3, <2>1, <2>2 DEF PassesBehind
  <2> QED BY <1>1, <1>2, <1>3, <2>3, TaggedPasses
<1> QED BY <1>1, <1>5, <1>6

-----------------------------------------------------------------------------
LEMMA InitIsSound ==
  ASSUME ApiInit
  PROVE  RowInv
<1>1. /\ row \in Rows /\ stray \in Stray /\ stage = "header" /\ values = <<>> /\ fixedAt = 4
      /\ variable = [current |-> 127, sizeAt |-> 0, valueAt |-> 0, previous |-> 0]
      /\ tagged = NotTagged
  BY DEF ApiInit, RowInit
<1>2. RowGiven
  BY <1>1, RowsAssumption, StrayAssumption DEF RowGiven
<1>3. Len(values) = 0 /\ DOMAIN values = {} /\ values \in Seq(ValueRead)
  BY <1>1
<1>4. CursorsAre
  <2>1. variable \in Cursors /\ tagged \in TagCursors
    BY <1>1 DEF Cursors, TagCursors, NotTagged
  <2> QED BY <1>1, <1>2, <1>3, <2>1, RowIs DEF CursorsAre
<1>5. ValuesLieApart
  BY <1>3 DEF ValuesLieApart, ValuesInsideRow, ValuesApart
<1>6. RowOrdered
  <2>1. tagged.offset = 0 /\ tagged.remaining = 0
    BY <1>1 DEF NotTagged
  <2> QED BY <1>3, <2>1 DEF RowOrdered, ArrayUnopened, FixedEndBy, OthersEndBy
<1> QED BY <1>2, <1>4, <1>5, <1>6 DEF RowInv

LEMMA ReadKeeps == RowInv /\ ReadStep => RowInv'
<1>1. SUFFICES ASSUME RowInv, ReadStep PROVE RowInv'
  OBVIOUS
<1>2. ASSUME \/ RejectHeader \/ RejectColumn \/ FixedOutOfBounds \/ VariableOutOfBounds
             \/ IndexedOutOfBounds \/ ListedOutOfBounds \/ ReadEnds
      PROVE  RowInv'
  <2>1. UNCHANGED <<row, stray, values, fixedAt, variable, tagged>> /\ stage' = "done"
    BY <1>2 DEF RejectHeader, RejectColumn, FixedOutOfBounds, VariableOutOfBounds,
       IndexedOutOfBounds, ListedOutOfBounds, ReadEnds, Fail
  <2> QED BY <1>1, <2>1, QuietStep
<1> QED BY <1>1, <1>2, HeaderStep, FixedValueStep, FixedAbsentStep, SkipSizeStep, VariableAbsentStep,
        VariableValueStep, IndexedValueStep, IndexedAbsentStep, ListedStep DEF ReadStep

LEMMA CallsKeep == RowInv /\ UNCHANGED readVars => RowInv'
<1>1. SUFFICES ASSUME RowInv, UNCHANGED readVars PROVE RowInv'
  OBVIOUS
<1>2. UNCHANGED <<row, stray, stage, values, fixedAt, variable, tagged>>
  BY <1>1 DEF readVars
<1>3. /\ RowGiven' /\ Columns' = Columns /\ Size' = Size
      /\ ColumnsDiffer' = ColumnsDiffer /\ ValueRead' = ValueRead
  BY <1>1, <1>2, RowStays DEF RowInv
<1>4. CursorsAre'
  BY <1>1, <1>2, <1>3 DEF RowInv, CursorsAre, Cursors, TagCursors
<1>5. ValuesLieApart'
  BY <1>1, <1>2, <1>3 DEF RowInv, ValuesLieApart, ValuesInsideRow, ValuesApart,
     HasData, EndOf, AreFixed
<1>6. RowOrdered'
  <2>1. SizesAreRead' = SizesAreRead /\ RowWord(0)' = RowWord(0)
    BY <1>2, RowStays DEF SizesAreRead
  <2>2. CountsDown(tagged, Len(values))' = CountsDown(tagged, Len(values))
    BY <1>2 DEF CountsDown, Size, SizeT, Masked
  <2>3. Masked(tagged.word)' = Masked(tagged.word)
    BY <1>2 DEF Masked
  <2> QED BY <1>1, <1>2, <1>3, <2>1, <2>2, <2>3 DEF RowInv, RowOrdered, ArrayUnopened, ArrayOpened, FixedEndBy,
          OthersEndBy, OthersAreNumbered, HasData, EndOf, AreFixed
<1> QED BY <1>3, <1>4, <1>5, <1>6 DEF RowInv

LEMMA StepKeeps == RowInv /\ [ApiNext]_recordVars => RowInv'
<1>1. SUFFICES ASSUME RowInv, [ApiNext]_recordVars PROVE ReadStep \/ UNCHANGED readVars
  BY ReadKeeps, CallsKeep
<1>2. CASE UNCHANGED recordVars
  BY <1>2 DEF recordVars
<1>3. CASE Calls
  BY <1>3 DEF Calls, GetMultiValue, GetLongValue
<1>4. CASE LongStep \/ LookUpFails
  BY <1>4 DEF LongStep, LookUpFails, ReadLead, ReadSegment, ReadSegmentFails, SegmentsEnd
<1>5. CASE Assemble \/ AssembleFails
  BY <1>5 DEF Assemble, AssembleFails
<1>6. CASE ReadRow
  BY <1>6 DEF ReadRow
<1> QED BY <1>1, <1>2, <1>3, <1>4, <1>5, <1>6 DEF ApiNext

-----------------------------------------------------------------------------
(* The entries of a multi value.                                           *)
Extents == [offset : Nat, size : Int]

\* What EntriesTile says of the entries of a value.
Tile(e, size) ==
  /\ Len(e) \in Nat /\ Len(e) >= 1 /\ e[1].offset \div 2 = Len(e)
  /\ \A k \in 1..(Len(e) - 1) : e[k].size >= 0 /\ e[k].offset + e[k].size = e[k + 1].offset
  /\ e[Len(e)].offset <= size => e[Len(e)].offset + e[Len(e)].size = size

LEMMA TileIs ==
  ASSUME NEW e, NEW size, NEW n, n \in Nat, n >= 1, Len(e) = n, e[1].offset \div 2 = n,
         \A k \in 1..(n - 1) : e[k].size >= 0 /\ e[k].offset + e[k].size = e[k + 1].offset,
         e[n].offset <= size => e[n].offset + e[n].size = size
  PROVE  Tile(e, size)
BY DEF Tile

LEMMA LeastIs ==
  ASSUME NEW S \in SUBSET Nat, S # {}
  PROVE  Min(S) \in S /\ \A j \in S : Min(S) <= j
<1>1. PICK R : R = OpToRel(<, Nat)
  BY Zenon
<1>2. \A a, b \in Nat : <<a, b>> \in R \/ b <= a
  BY <1>1 DEF OpToRel
<1>3. IsWellFoundedOn(R, Nat)
  BY <1>1, NatLessThanWellFounded, Zenon
<1>4. \E i \in S : \A j \in S : ~ (<<j, i>> \in R)
  BY <1>3, WFMin
<1>5. \E i \in S : \A j \in S : i <= j
  BY <1>2, <1>4
<1> QED BY <1>5 DEF Min

LEMMA EntryOffsetIs ==
  ASSUME stray \in 0..255, NEW bytes \in Seq(0..255), NEW k \in Nat \ {0}
  PROVE  OffsetAt(bytes, k) \in Nat /\ OffsetAt(bytes, k) < 32768
<1> DEFINE byte == 0..255
           At(n) == IF n <= Len(bytes) THEN bytes[n] ELSE stray
<1>1. \A b \in byte : b \in Nat
  OBVIOUS
<1>2. bytes \in Seq(byte) /\ stray \in byte /\ Len(bytes) \in Nat
  BY LenProperties
<1> HIDE DEF byte
<1>3. ASSUME NEW n \in Nat \ {0} PROVE At(n) \in Nat
  <2>1. CASE n <= Len(bytes)
    <3>1. n \in 1..Len(bytes)
      BY <1>2, <2>1
    <3>2. bytes[n] \in byte
      BY <1>2, <3>1, ElementOfSeq
    <3> QED BY <1>1, <2>1, <3>2
  <2>2. CASE ~(n <= Len(bytes))
    BY <1>1, <1>2, <2>2
  <2> QED BY <2>1, <2>2
<1>4. PICK a \in Nat, b \in Nat : a = At(2 * k - 1) /\ b = At(2 * k)
  <2>1. 2 * k - 1 \in Nat \ {0} /\ 2 * k \in Nat \ {0}
    OBVIOUS
  <2>2. At(2 * k - 1) \in Nat /\ At(2 * k) \in Nat
    BY <1>3, <2>1
  <2> QED BY <2>2
<1>5. OffsetAt(bytes, k) = (a + 256 * b) % 32768
  BY <1>4 DEF OffsetAt
<1> QED BY <1>5

LEMMA AscendingIs ==
  ASSUME stray \in 0..255, NEW bytes \in Seq(0..255), NumberOfEntries(bytes) # 0
  PROVE  /\ NumberOfEntries(bytes) \in Nat /\ Ascending(bytes) \in Nat
         /\ Ascending(bytes) >= 1 /\ Ascending(bytes) <= NumberOfEntries(bytes)
         /\ Ascending(bytes) = NumberOfEntries(bytes) =>
              \A k \in 1..(NumberOfEntries(bytes) - 1) : OffsetAt(bytes, k) <= OffsetAt(bytes, k + 1)
<1>1. PICK n \in Nat : n = NumberOfEntries(bytes) /\ n >= 1
  <2>1. OffsetAt(bytes, 1) \in Nat
    BY EntryOffsetIs
  <2>2. OffsetAt(bytes, 1) \div 2 \in Nat
    BY <2>1
  <2> QED BY <2>2 DEF NumberOfEntries
<1> DEFINE Falls(k) == OffsetAt(bytes, k + 1) < OffsetAt(bytes, k)
           falls == {k \in 1..(n - 1) : Falls(k)}
           S == {n} \cup falls
<1>2. Ascending(bytes) = Min(S)
  BY <1>1 DEF Ascending
<1>3. \A k \in S : k \in Nat /\ k >= 1 /\ k <= n
  BY <1>1
<1>4. n \in S /\ S \in SUBSET Nat /\ S # {}
  BY <1>1, <1>3
<1>5. Min(S) \in S /\ \A k \in S : Min(S) <= k
  BY <1>4, LeastIs
<1>6. ASSUME Min(S) = n, NEW k \in 1..(n - 1)
      PROVE  OffsetAt(bytes, k) <= OffsetAt(bytes, k + 1)
  <2>1. ~(n <= k)
    BY <1>1
  <2>2. k \notin S
    BY <1>5, <1>6, <2>1
  <2>3. ~Falls(k)
    BY <2>2
  <2>4. OffsetAt(bytes, k) \in Nat /\ OffsetAt(bytes, k + 1) \in Nat
    <3>1. k \in Nat \ {0} /\ k + 1 \in Nat \ {0}
      BY <1>1
    <3> QED BY <3>1, EntryOffsetIs
  <2> QED BY <2>3, <2>4
<1>7. Min(S) \in Nat /\ Min(S) >= 1 /\ Min(S) <= n
  BY <1>3, <1>5
<1> HIDE DEF S
<1> QED BY <1>1, <1>2, <1>6, <1>7

LEMMA NoOffsetFalls ==
  ASSUME stray \in 0..255, NEW bytes \in Seq(0..255), NumberOfEntries(bytes) # 0,
         Ascending(bytes) = NumberOfEntries(bytes), NEW k \in 1..(NumberOfEntries(bytes) - 1)
  PROVE  OffsetAt(bytes, k) <= OffsetAt(bytes, k + 1)
BY AscendingIs

LEMMA ParsedIs ==
  ASSUME stray \in 0..255, NEW bytes \in Seq(0..255), Len(bytes) < 32768
  PROVE  /\ Parsed(bytes).entries \in Seq(Extents)
         /\ Parsed(bytes).code = 1 => Tile(Parsed(bytes).entries, Len(bytes))
<1>1. CASE NumberOfEntries(bytes) = 0
  BY <1>1, EmptySeq DEF Parsed
<1>2. CASE NumberOfEntries(bytes) # 0
  <2>1. PICK n \in Nat, a \in Nat : n = NumberOfEntries(bytes) /\ a = Ascending(bytes) /\ a >= 1 /\ a <= n
    BY <1>2, AscendingIs
  <2> DEFINE front == [k \in 1..(a - 1) |-> EntryBetween(bytes, k)]
             last == LastEntry(bytes)
  <2>2. \A k \in 1..n : OffsetAt(bytes, k) \in Nat
    <3>1. \A k \in 1..n : k \in Nat \ {0}
      OBVIOUS
    <3> QED BY <3>1, EntryOffsetIs
  <2>3. \A k \in 1..(a - 1) : EntryBetween(bytes, k) \in Extents
    <3>1. ASSUME NEW k \in 1..(a - 1) PROVE EntryBetween(bytes, k) \in Extents
      <4>1. k \in 1..n /\ k + 1 \in 1..n
        BY <2>1
      <4>2. PICK o \in Nat, p \in Nat : o = OffsetAt(bytes, k) /\ p = OffsetAt(bytes, k + 1)
        BY <2>2, <4>1
      <4> QED BY <4>2 DEF EntryBetween, Extents
    <3> QED BY <3>1
  <2>4. front \in Seq(Extents) /\ Len(front) = a - 1
    <3>1. a - 1 \in Nat
      BY <2>1
    <3> QED BY <2>3, <3>1
  <2>5. PICK o \in Nat : o = OffsetAt(bytes, n)
    <3>1. n \in 1..n
      BY <2>1
    <3> QED BY <2>2, <3>1
  <2>6. Len(bytes) \in Nat
    BY LenProperties
  <2>7. last = [offset |-> o, size |-> U16(Len(bytes) - o)]
    BY <2>1, <2>5 DEF LastEntry
  <2>8. last \in Extents /\ last.offset = o /\ (o <= Len(bytes) => o + last.size = Len(bytes))
    <3>1. PICK l \in Nat : l = Len(bytes) /\ l < 32768
      BY <2>6
    <3>2. PICK d \in Int : d = l - o /\ (o <= l => 0 <= d /\ d < 65536)
      <4>1. l - o \in Int /\ (o <= l => 0 <= l - o /\ l - o < 65536)
        BY <3>1
      <4> QED BY <4>1
    <3>3. U16(d) \in Nat /\ (o <= l => U16(d) = d)
      BY <3>2, U16Is
    <3> QED BY <2>7, <3>1, <3>2, <3>3 DEF Extents
  <2>9. CASE a < n
    <3>1. Parsed(bytes) = [code |-> -1, entries |-> front]
      BY <1>2, <2>1, <2>9 DEF Parsed
    <3> HIDE DEF front
    <3> QED BY <2>4, <3>1
  <2>10. CASE a = n
    <3> DEFINE all == Append(front, last)
    <3>1. Parsed(bytes) = [code |-> 1, entries |-> all]
      BY <1>2, <2>1, <2>10 DEF Parsed
    <3>2. \A k \in 1..(n - 1) : front[k] = EntryBetween(bytes, k)
      BY <2>10
    <3> HIDE DEF front, last
    <3>3. all \in Seq(Extents) /\ Len(all) = n /\ all[n] = last /\ \A k \in 1..(n - 1) : all[k] = front[k]
      BY <2>1, <2>4, <2>8, <2>10, AppendProperties
    <3> HIDE DEF all
    <3>4. \A k \in 1..n : all[k].offset = OffsetAt(bytes, k)
      <4>1. ASSUME NEW k \in 1..(n - 1) PROVE all[k].offset = OffsetAt(bytes, k)
        <5>1. all[k] = EntryBetween(bytes, k)
          BY <3>2, <3>3
        <5>2. EntryBetween(bytes, k).offset = OffsetAt(bytes, k)
          BY DEF EntryBetween
        <5> QED BY <5>1, <5>2
      <4>2. all[n].offset = OffsetAt(bytes, n)
        BY <2>5, <2>8, <3>3
      <4>3. \A k \in 1..n : k = n \/ k \in 1..(n - 1)
        BY <2>1
      <4> QED BY <4>1, <4>2, <4>3
    <3>5. all[1].offset \div 2 = n
      <4>1. 1 \in 1..n
        BY <2>1
      <4> QED BY <2>1, <3>4, <4>1 DEF NumberOfEntries
    <3>6. ASSUME NEW k \in 1..(n - 1)
          PROVE  all[k].size >= 0 /\ all[k].offset + all[k].size = all[k + 1].offset
      <4>1. k \in 1..n /\ k + 1 \in 1..n
        BY <2>1
      <4>2. PICK p \in Nat, q \in Nat : p = OffsetAt(bytes, k) /\ q = OffsetAt(bytes, k + 1)
        BY <2>2, <4>1
      <4>3. p <= q
        <5>1. k \in 1..(NumberOfEntries(bytes) - 1) /\ Ascending(bytes) = NumberOfEntries(bytes)
          BY <2>1, <2>10
        <5>2. OffsetAt(bytes, k) <= OffsetAt(bytes, k + 1)
          BY <1>2, <5>1, NoOffsetFalls
        <5> QED BY <4>2, <5>2
      <4>4. all[k].size = q - p
        <5>1. all[k] = EntryBetween(bytes, k)
          BY <3>2, <3>3
        <5>2. EntryBetween(bytes, k).size = OffsetAt(bytes, k + 1) - OffsetAt(bytes, k)
          BY DEF EntryBetween
        <5> QED BY <4>2, <5>1, <5>2
      <4> QED BY <3>4, <4>1, <4>2, <4>3, <4>4
    <3>7. Tile(all, Len(bytes))
      <4>1. all[n].offset <= Len(bytes) => all[n].offset + all[n].size = Len(bytes)
        BY <2>8, <3>3
      <4>2. Len(all) = n /\ n \in Nat /\ n >= 1
        BY <2>1, <3>3
      <4> QED BY <3>5, <3>6, <4>1, <4>2, TileIs
    <3> QED BY <3>1, <3>3, <3>7
  <2> QED BY <2>1, <2>9, <2>10
<1> QED BY <1>1, <1>2

LEMMA StoredIs ==
  ASSUME RowGiven, CursorsAre, NEW i \in DOMAIN values, EndOf(i) <= Size
  PROVE  /\ Stored(i).data \in Seq(0..255) /\ Len(Stored(i).data) = values[i].size
         /\ Len(Stored(i).data) < 32768
<1>1. values[i] \in ValueRead
  BY DEF CursorsAre
<1>2. PICK o \in Nat, n \in Nat, z \in Nat :
        o = values[i].offset /\ n = values[i].size /\ z = Size /\ o + n <= z /\ z < 32768
  BY <1>1, RowIs DEF ValueRead, EndOf
<1>3. row.data \in Seq(0..255) /\ Len(row.data) = z
  BY <1>2, RowIs DEF Size
<1>4. o + 1 \in 1..(z + 1) /\ o + n \in (o + 1 - 1)..z
  BY <1>2
<1>5. Stored(i).data = SubSeq(row.data, o + 1, o + n)
  <2>1. Stored(i).data = SubSeq(row.data, values[i].offset + 1, values[i].offset + values[i].size)
    BY DEF Stored
  <2> QED BY <1>2, <2>1
<1>6. SubSeq(row.data, o + 1, o + n) \in Seq(0..255) /\ Len(SubSeq(row.data, o + 1, o + n)) = n
  <2>1. CASE n = 0
    BY <1>2, <2>1, EmptySeq
  <2>2. CASE n # 0
    <3>1. o + 1 \in 1..Len(row.data) /\ o + n \in (o + 1)..Len(row.data)
      BY <1>2, <1>3, <2>2
    <3> DEFINE byte == 0..255
    <3> HIDE DEF byte
    <3>2. row.data \in Seq(byte)
      BY <1>3 DEF byte
    <3>3. /\ SubSeq(row.data, o + 1, o + n) \in Seq(byte)
          /\ Len(SubSeq(row.data, o + 1, o + n)) = (o + n) - (o + 1) + 1
      BY <3>1, <3>2, SubSeqProperties
    <3> QED BY <1>2, <3>3 DEF byte
  <2> QED BY <2>1, <2>2
<1>7. PICK bytes : bytes = SubSeq(row.data, o + 1, o + n)
  OBVIOUS
<1>8. Stored(i).data = bytes /\ bytes \in Seq(0..255)
  BY <1>5, <1>6, <1>7, Zenon
<1>9. Len(bytes) = values[i].size /\ values[i].size < 32768
  <2>1. Len(bytes) = n
    BY <1>6, <1>7, Zenon
  <2> QED BY <1>2, <2>1
<1>10. Len(bytes) < 32768
  BY <1>9
<1>11. Len(Stored(i).data) = values[i].size /\ Len(Stored(i).data) < 32768
  BY <1>8, <1>9, <1>10
<1>12. Stored(i).data \in Seq(0..255)
  BY <1>5, <1>6, Zenon
<1> QED BY <1>11, <1>12

-----------------------------------------------------------------------------
(* A value that was never asked for its multi value has no entries, one    *)
(* that was asked for it once has those that its data says.                *)
Found(i) == reply = [call |-> "multi_value", value |-> i, code |-> 1]

AskedOnce(i) ==
  /\ entries[i] = Parsed(Stored(i).data).entries
  /\ Found(i) => Parsed(Stored(i).data).code = 1

EntriesKept ==
  /\ DOMAIN entries = 1..Len(Columns) /\ DOMAIN asked = 1..Len(Columns)
  /\ \A i \in 1..Len(Columns) :
       /\ asked[i] \in Nat
       /\ asked[i] # 0 => HasRecord
       /\ asked[i] = 0 => entries[i] = <<>>
  /\ \A i \in DOMAIN values : asked[i] = 1 /\ EndOf(i) <= Size => AskedOnce(i)

EntriesInv == RowInv /\ EntriesKept

LEMMA EntriesKeptTile == EntriesInv => EntriesTile
<1>1. SUFFICES ASSUME EntriesInv, NEW i \in DOMAIN values, Found(i), asked[i] = 1, EndOf(i) <= Size
               PROVE  Tile(entries[i], values[i].size)
  BY Zenon DEF EntriesTile, Tile, Found
<1>2. RowGiven /\ CursorsAre /\ stray \in 0..255
  BY <1>1 DEF EntriesInv, RowInv, RowGiven
<1>3. AskedOnce(i)
  BY <1>1 DEF EntriesInv, EntriesKept
<1>4. PICK bytes : bytes = Stored(i).data
  OBVIOUS
<1>5. bytes \in Seq(0..255) /\ Len(bytes) = values[i].size /\ Len(bytes) < 32768
  BY <1>1, <1>2, <1>4, StoredIs
<1>6. Parsed(bytes).code = 1 => Tile(Parsed(bytes).entries, Len(bytes))
  BY <1>2, <1>5, ParsedIs
<1> QED BY <1>1, <1>3, <1>4, <1>5, <1>6 DEF AskedOnce

LEMMA ValuesOfColumns == RowInv => \A i \in DOMAIN values : i \in 1..Len(Columns)
<1>1. SUFFICES ASSUME RowInv PROVE DOMAIN values \subseteq 1..Len(Columns)
  OBVIOUS
<1>2. values \in Seq(ValueRead) /\ Len(values) <= Len(Columns) /\ Len(Columns) \in Nat
  BY <1>1, RowIs DEF RowInv, CursorsAre
<1>3. PICK n \in Nat, m \in Nat : n = Len(values) /\ m = Len(Columns) /\ n <= m
  BY <1>2, LenProperties
<1> QED BY <1>2, <1>3, LenProperties

\* A row is read before its values can be asked for anything.
LEMMA ReadChanges == ReadStep => stage # "done" /\ UNCHANGED row
BY DEF ReadStep, RejectHeader, ReadRowHeader, RejectColumn, FixedValue, FixedOutOfBounds, FixedAbsent,
   SkipSize, SkipLastSize, VariableEmpty, VariableBehind, VariableValue, VariableOutOfBounds,
   IndexedValue, IndexedAbsent, IndexedOutOfBounds, ListedValue, ListedAbsent, ListedOutOfBounds,
   ReadEnds, Fail, Pass, Accepted, HasColumn, IsFixed, IsVariable, IsTagged, IsIndexed, IsListed

LEMMA SameValues ==
  ASSUME UNCHANGED <<row, stray, values>>
  PROVE  /\ Columns' = Columns /\ Size' = Size
         /\ \A i : EndOf(i)' = EndOf(i) /\ Stored(i)' = Stored(i)
         /\ \A bytes : Parsed(bytes)' = Parsed(bytes)
<1>1. Columns' = Columns /\ Size' = Size
  BY DEF Columns, Size
<1>2. \A i : EndOf(i)' = EndOf(i)
  BY DEF EndOf
<1>3. \A i : Stored(i)' = Stored(i)
  BY DEF Stored, ColumnType, ColumnOf
<1>4. \A bytes, k : OffsetAt(bytes, k)' = OffsetAt(bytes, k)
  BY DEF OffsetAt
<1>5. \A bytes : NumberOfEntries(bytes)' = NumberOfEntries(bytes)
  BY <1>4 DEF NumberOfEntries
<1>6. \A bytes : Ascending(bytes)' = Ascending(bytes)
  BY <1>4, <1>5 DEF Ascending
<1>7. \A bytes, k : EntryBetween(bytes, k)' = EntryBetween(bytes, k)
  BY <1>4 DEF EntryBetween
<1>8. \A bytes : LastEntry(bytes)' = LastEntry(bytes)
  BY <1>4, <1>5 DEF LastEntry
<1>9. \A bytes : Parsed(bytes)' = Parsed(bytes)
  BY <1>5, <1>6, <1>7, <1>8 DEF Parsed
<1> QED BY <1>1, <1>2, <1>3, <1>9

\* A step that answers no multi value keeps the entries.
LEMMA EntriesStay ==
  ASSUME RowInv, EntriesKept, UNCHANGED <<readVars, entries, asked>>, \A i : Found(i)' => Found(i)
  PROVE  EntriesKept'
<1>1. UNCHANGED <<row, stray, stage, result, values>>
  BY DEF readVars
<1>2. /\ Columns' = Columns /\ Size' = Size /\ HasRecord' = HasRecord
      /\ \A i : EndOf(i)' = EndOf(i) /\ Stored(i)' = Stored(i)
      /\ \A bytes : Parsed(bytes)' = Parsed(bytes)
  BY <1>1, SameValues DEF HasRecord
<1>3. ASSUME NEW i \in DOMAIN values, asked[i] = 1, EndOf(i) <= Size PROVE AskedOnce(i)'
  <2>1. AskedOnce(i)
    BY <1>3 DEF EntriesKept
  <2> QED BY <1>2, <2>1 DEF AskedOnce
<1> QED BY <1>1, <1>2, <1>3 DEF EntriesKept

LEMMA ReadKeepsEntries == RowInv /\ EntriesKept /\ ReadRow => EntriesKept'
<1>1. SUFFICES ASSUME RowInv, EntriesKept, ReadRow PROVE EntriesKept'
  OBVIOUS
<1>2. UNCHANGED <<row, entries, asked>> /\ ReadStep
  BY <1>1, ReadChanges DEF ReadRow, apiVars
<1>3. ~HasRecord
  BY <1>2, ReadChanges DEF HasRecord
<1>4. Columns' = Columns
  BY <1>2 DEF Columns
<1>5. \A i \in 1..Len(Columns) : asked[i] = 0
  BY <1>1, <1>3 DEF EntriesKept
<1>6. RowInv'
  BY <1>1, <1>2, ReadKeeps
<1>7. \A i \in DOMAIN values' : i \in 1..Len(Columns)
  <2>1. (RowInv => \A i \in DOMAIN values : i \in 1..Len(Columns))'
    BY ValuesOfColumns, PTL
  <2> QED BY <1>4, <1>6, <2>1
<1> QED BY <1>1, <1>2, <1>4, <1>5, <1>7 DEF EntriesKept

LEMMA AskKeepsEntries ==
  ASSUME RowInv, EntriesKept, NEW i \in DOMAIN values, GetMultiValue(i)
  PROVE  EntriesKept'
<1>1. UNCHANGED <<readVars, row, stray, stage, result, values>> /\ HasRecord
  BY DEF GetMultiValue, readVars, Idle
<1>2. /\ Columns' = Columns /\ Size' = Size /\ HasRecord'
      /\ \A j : EndOf(j)' = EndOf(j) /\ Stored(j)' = Stored(j)
      /\ \A bytes : Parsed(bytes)' = Parsed(bytes)
  BY <1>1, SameValues DEF HasRecord
<1>3. i \in 1..Len(Columns)
  BY ValuesOfColumns
<1>4. CASE UNCHANGED <<entries, asked>> /\ \E code \in {-1, 0} : Answer("multi_value", i, code)
  <2>1. \A j : Found(j)' => Found(j)
    BY <1>4 DEF Found, Answer
  <2> QED BY <1>1, <1>4, <2>1, EntriesStay
<1>5. CASE /\ Answer("multi_value", i, Parsed(Stored(i).data).code)
           /\ entries' = [entries EXCEPT ![i] = @ \o Parsed(Stored(i).data).entries]
           /\ asked' = [asked EXCEPT ![i] = @ + 1]
  <2>1. \A j \in 1..Len(Columns) : asked[j] \in Nat
    BY DEF EntriesKept
  <2>2. /\ DOMAIN entries' = 1..Len(Columns) /\ DOMAIN asked' = 1..Len(Columns)
        /\ asked'[i] = asked[i] + 1 /\ entries'[i] = entries[i] \o Parsed(Stored(i).data).entries
        /\ \A j \in 1..Len(Columns) : j # i => asked'[j] = asked[j] /\ entries'[j] = entries[j]
    BY <1>3, <1>5 DEF EntriesKept
  <2>3. ASSUME NEW j \in 1..Len(Columns)
        PROVE  asked'[j] \in Nat /\ (asked'[j] = 0 => entries'[j] = <<>>)
    BY <2>1, <2>2 DEF EntriesKept
  <2>4. ASSUME NEW j \in DOMAIN values, j # i, asked'[j] = 1, EndOf(j) <= Size PROVE AskedOnce(j)'
    <3>1. j \in 1..Len(Columns)
      BY ValuesOfColumns
    <3>2. AskedOnce(j)
      BY <2>2, <2>4, <3>1 DEF EntriesKept
    <3>3. ~Found(j)'
      BY <1>5, <2>4 DEF Found, Answer
    <3> QED BY <1>2, <2>2, <2>4, <3>1, <3>2, <3>3 DEF AskedOnce
  <2>5. ASSUME asked'[i] = 1, EndOf(i) <= Size PROVE AskedOnce(i)'
    <3>1. asked[i] = 0
      BY <1>3, <2>1, <2>2, <2>5
    <3>2. entries[i] = <<>>
      BY <1>3, <3>1 DEF EntriesKept
    <3>3. RowGiven /\ CursorsAre /\ stray \in 0..255
      BY DEF RowInv, RowGiven
    <3>4. PICK bytes : bytes = Stored(i).data
      OBVIOUS
    <3>5. bytes \in Seq(0..255) /\ Len(bytes) < 32768
      BY <2>5, <3>3, <3>4, StoredIs
    <3>6. Parsed(bytes).entries \in Seq(Extents)
      BY <3>3, <3>5, ParsedIs
    <3>7. entries'[i] = Parsed(bytes).entries
      <4>1. PICK e \in Seq(Extents) : e = Parsed(bytes).entries
        BY <3>6
      <4>2. <<>> \o e = e
        BY <4>1, ConcatEmptySeq
      <4> QED BY <2>2, <3>2, <3>4, <4>1, <4>2
    <3>8. Found(i)' => Parsed(bytes).code = 1
      BY <1>5, <3>4 DEF Found, Answer
    <3>9. Stored(i)' = Stored(i) /\ Parsed(bytes)' = Parsed(bytes)
      BY <1>2
    <3> QED BY <1>2, <3>4, <3>7, <3>8 DEF AskedOnce
  <2> QED BY <1>1, <1>2, <2>2, <2>3, <2>4, <2>5 DEF EntriesKept
<1> QED BY <1>4, <1>5 DEF GetMultiValue

LEMMA EntriesStep == EntriesInv /\ [ApiNext]_recordVars => EntriesInv'
<1>1. SUFFICES ASSUME RowInv, EntriesKept, [ApiNext]_recordVars PROVE EntriesKept'
  BY StepKeeps DEF EntriesInv
<1>2. CASE ReadRow
  BY <1>1, <1>2, ReadKeepsEntries
<1>3. ASSUME NEW i \in DOMAIN values, GetMultiValue(i) PROVE EntriesKept'
  BY <1>1, <1>3, AskKeepsEntries
<1>4. CASE \/ UNCHANGED recordVars
           \/ \E i \in DOMAIN values : GetLongValue(i)
           \/ LongStep \/ LookUpFails \/ Assemble \/ AssembleFails
  <2>1. UNCHANGED <<readVars, entries, asked>>
    BY <1>4 DEF recordVars, apiVars, GetLongValue, LongStep, ReadLead, ReadSegment, ReadSegmentFails,
       SegmentsEnd, LookUpFails, Assemble, AssembleFails
  <2>2. \/ UNCHANGED reply \/ reply' = NoReply
        \/ \E call \in {"long_value", "data"} : reply'.call = call
    <3>1. CASE UNCHANGED recordVars
      BY <3>1 DEF recordVars, apiVars
    <3>2. ASSUME NEW i \in DOMAIN values, GetLongValue(i)
          PROVE  reply' = NoReply \/ reply'.call = "long_value"
      BY <3>2 DEF GetLongValue, Answer
    <3>3. CASE LongStep \/ LookUpFails
      BY <3>3 DEF LongStep, ReadLead, ReadSegment, ReadSegmentFails, SegmentsEnd, LookUpFails, LongFails, Answer
    <3>4. CASE Assemble \/ AssembleFails
      BY <3>4 DEF Assemble, AssembleFails, Answer
    <3> QED BY <1>4, <3>1, <3>2, <3>3, <3>4
  <2>3. \A i : Found(i)' => Found(i)
    BY <2>2 DEF Found, NoReply
  <2> QED BY <1>1, <2>1, <2>3, EntriesStay
<1> QED BY <1>1, <1>2, <1>3, <1>4 DEF ApiNext, Calls

LEMMA EntriesAtFirst == ApiInit => EntriesInv
<1>1. SUFFICES ASSUME ApiInit PROVE EntriesKept
  BY InitIsSound DEF EntriesInv
<1>2. \A i \in 1..Len(Columns) : asked[i] = 0 /\ entries[i] = <<>>
  BY <1>1 DEF ApiInit
<1>3. values = <<>>
  BY <1>1 DEF ApiInit, RowInit
<1> QED BY <1>1, <1>2, <1>3 DEF ApiInit, EntriesKept

(* Of a row of any bytes that is read by any definitions of columns, with  *)
(* an index of its tagged values, no value reaches out of the row; when    *)
(* the columns differ those of a fixed size lie apart from each other, and *)
(* so do those of a variable size and the tagged ones.  However often and  *)
(* in whatever order its values are asked for, the entries of a multi      *)
(* value that was asked for once lie one behind the other in it            *)
(* (libesedb_data_definition_read_record, libesedb_record_get_multi_value).*)
THEOREM PartsAlwaysLieApart == ApiSpec => []PartsLieApart
<1>1. ApiInit => EntriesInv
  BY EntriesAtFirst
<1>2. EntriesInv => PartsLieApart
  BY EntriesKeptTile DEF EntriesInv, RowInv, PartsLieApart
<1> QED BY <1>1, <1>2, EntriesStep, PTL DEF ApiSpec
=============================================================================
