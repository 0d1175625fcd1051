------------------------------ MODULE MCCatalog ------------------------------
(***************************************************************************)
(* Catalogs of a few tables, columns and indexes over two leaf pages that  *)
(* are linked in every way, with rows before the first table, templates,   *)
(* names that are missing, repeated or not ASCII, rows that are cut off or *)
(* overwritten, and pages far enough into the file for the block tree to   *)
(* refuse them.                                                            *)
(***************************************************************************)
EXTENDS Tables

(* A row as the format lays it out. *)
Fixed(n) == <<n % 256, n \div 256, 0, 0>>
Ends(variable) ==
  [i \in DOMAIN variable |->
     FoldLeft(LAMBDA sum, v : sum + Len(v), 0, SubSeq(variable, 1, i))
     + (IF variable[i] = None THEN 32768 ELSE 0)]

Variable(c) ==
  IF c.template = None THEN (IF c.name = None THEN <<>> ELSE <<c.name>>)
  ELSE <<c.name, None, c.template>>

Encode(c) ==
  LET words == Ends(Variable(c))
      sizes == FlattenSeq([i \in DOMAIN words |-> <<words[i] % 256, words[i] \div 256>>])
  IN  <<7, 127 + Len(words), 30, 0>> \o Fixed(2) \o <<c.type, 0>> \o Fixed(c.id)
      \o Fixed(c.detail) \o Fixed(0) \o Fixed(0) \o Fixed(c.codepage)
      \o sizes \o FlattenSeq(Variable(c))

Content(type, id, detail, name, template) ==
  [BadDefinition EXCEPT !.ok = TRUE, !.type = type, !.id = id, !.detail = detail,
                        !.name = name, !.template = template,
                        !.codepage = IF type = ColumnType THEN 7 ELSE 0]

NoContent == BadDefinition
Row(c) == [defunct |-> FALSE, common |-> FALSE, bytes |-> <<1, 0, 9>> \o Encode(c), content |-> c]
CommonRow(c) ==
  [defunct |-> FALSE, common |-> TRUE, bytes |-> <<3, 0, 1, 0, 9>> \o Encode(c), content |-> c]
DefunctRow == [defunct |-> TRUE, common |-> FALSE, bytes |-> <<>>, content |-> NoContent]
BadRow(bytes) == [defunct |-> FALSE, common |-> FALSE, bytes |-> bytes, content |-> NoContent]

A == <<65>>
B == <<66, 67>>
Umlaut == <<65, 196>>
MCStrings == {A, B, Umlaut, <<90>>, None}

T(id, name, template, root) == Row(Content(Table, id, root, name, template))
C(id, name) == Row(Content(ColumnType, id, 10, name, None))
I(id, name, root) == Row(Content(Index, id, root, name, None))
Single(type) == Row(Content(type, 9, 3, None, None))
Unknown == Row(Content(6, 9, 3, None, None))

SoundRows ==
  {<<C(1, A), T(2, A, None, 1), C(1, A), CommonRow(Content(ColumnType, 2, 10, Umlaut, None)),
     I(3, A, 2), Single(LongValue), T(3, B, A, 4), C(256, B), DefunctRow, I(4, B, 5)>>,
   <<T(2, A, None, 1), Single(Callback), Single(LongValue), T(3, Umlaut, None, 1), C(1, B),
     T(4, A, None, 4), C(1, A), Unknown, T(5, B, Umlaut, 4), I(1, A, 4), Single(Callback)>>,
   <<T(2, B, None, 1), C(1, A), T(3, None, None, 4), T(4, A, B, 4), C(2, B)>>,
   <<Single(LongValue), I(1, A, 2)>>}

Overwritten ==
  {BadRow([T(2, B, A, 1).bytes EXCEPT ![i] = b]) : i \in DOMAIN T(2, B, A, 1).bytes, b \in {0, 4, 128}}
CutOff ==
  {BadRow(SubSeq(T(2, B, A, 1).bytes, 1, n)) : n \in {0, 1, 2, 3, 5, 10, 20, 40}}
Wrapped == BadRow(<<3, 0, 5>>)
Short == BadRow(<<0, 0, 5, 127, 4, 0, 0, 0, 0, 0>>)

UnsoundRows ==
  {<<T(2, A, None, 1), Single(t), C(1, A), Single(t)>> : t \in {LongValue, Callback}}
  \cup {<<T(2, A, None, 1), r, C(1, A)>> : r \in Overwritten \cup CutOff \cup {Wrapped, Short}}
  \cup {<<T(2, A, <<90>>, 1), C(1, A)>>}

-----------------------------------------------------------------------------
Page(leaf, next, rows) == [leaf |-> leaf, next |-> next, rows |-> rows]
Value(key, data) == [key |-> key, data |-> data]

(* Root pages of trees and their values: two tables and their indexes. *)
Trees ==
  1 :> <<Value(<<1>>, <<11>>), Value(<<2>>, <<12>>)>>
  @@ 2 :> <<Value(<<5>>, <<2>>), Value(<<6>>, <<1>>)>>
  @@ 4 :> <<Value(<<3>>, <<13>>)>>
  @@ 5 :> <<Value(<<7>>, <<3>>)>>

(* Pages 1, 2 and one more, whose number is given. *)
FileWith(number, database, rows, cut, second, third, leaf) ==
  [first |-> [database |-> 1, catalog |-> 2],
   pages |-> 1 :> Page(TRUE, 0, database) @@ 2 :> Page(TRUE, second, SubSeq(rows, 1, cut))
             @@ number :> Page(leaf, third, SubSeq(rows, cut + 1, Len(rows))),
   trees |-> Trees]
File(database, rows, cut, second, third, leaf) ==
  FileWith(3, database, rows, cut, second, third, leaf)

Databases == {<<>>, <<DefunctRow, C(1, A), C(2, A)>>}

(***************************************************************************)
(* In a word of 34, page 19 has the offset of page 2 and page 20 that of   *)
(* page 3; page 15 lies behind the last entry of the block tree, a root of *)
(* two entries of 16 over the 46 bytes of the file.  The word is no power  *)
(* of the two entries of a node, so that one file has a page that wraps    *)
(* and one that has no entry.                                              *)
(***************************************************************************)
FarPages == {15, 19, 20}

MCFiles ==
  {File(database, rows, cut, 3, 0, TRUE) :
     database \in Databases, rows \in SoundRows, cut \in {0, 1, 2}}
  \cup {File(<<>>, rows, 2, second, third, leaf) : rows \in SoundRows,
          second \in {0, 2, 3, 19}, third \in {0, 2, 3, 4, 19}, leaf \in BOOLEAN}
  \cup {FileWith(far, <<>>, rows, 1, far, 0, TRUE) : far \in FarPages, rows \in SoundRows}
  \cup {File(<<>>, <<>>, 0, 3, third, TRUE) : third \in {0, 2, 19}}
  \cup {File(<<Wrapped>>, <<>>, 0, 0, 0, TRUE), File(<<BadRow(<<>>)>>, <<>>, 0, 0, 0, TRUE)}
  \cup {File(<<>>, rows, 1, 3, 0, TRUE) : rows \in UnsoundRows}

-----------------------------------------------------------------------------
(* What a walk over the links of the file comes by. *)
PathOf(name) ==
  LET path[n \in 1..4] ==
        IF n = 1 THEN file.first[name]
        ELSE IF path[n - 1] \in DOMAIN file.pages THEN file.pages[path[n - 1]].next ELSE 0
  IN  path
PathEnds(name) == \E n \in 1..4 : PathOf(name)[n] = 0
RowsOf(name) ==
  LET path == PathOf(name)
  IN  FlattenSeq([n \in 1..4 |->
        IF path[n] \in DOMAIN file.pages THEN file.pages[path[n]].rows ELSE <<>>])
LiveRows(name) == SelectSeq(RowsOf(name), LAMBDA r : ~r.defunct)
Contents(name) ==
  LET live == LiveRows(name) IN [i \in DOMAIN live |-> live[i].content]

(* The tables that rows make: each with what is between it and the next. *)
Grouped(cs) ==
  LET starts == SetToSortSeq({i \in DOMAIN cs : cs[i].type = Table}, <)
      End(k) == IF k = Len(starts) THEN Len(cs) ELSE starts[k + 1] - 1
      Of(k, type) == SelectSeq(SubSeq(cs, starts[k], End(k)), LAMBDA c : c.type = type)
  IN  [k \in DOMAIN starts |->
         [definition |-> cs[starts[k]], columns |-> Of(k, ColumnType), indexes |-> Of(k, Index),
          single |-> [t \in {u \in {LongValue, Callback} : Of(k, u) # <<>>} |-> Of(k, t)[1]]]]

SoundWalk(name) ==
  LET path == PathOf(name)
      contents == Contents(name)
  IN  /\ PathEnds(name)
      /\ \A n \in 1..4 : path[n] # 0 => path[n] \in DOMAIN file.pages /\ file.pages[path[n]].leaf
      /\ \A i \in DOMAIN contents : contents[i].ok
SinglesOnce(cs) ==
  \A i, j \in DOMAIN cs :
    i < j /\ cs[i].type = cs[j].type /\ cs[i].type \in {LongValue, Callback} =>
      \/ \E k \in i..j : cs[k].type = Table
      \/ \A k \in 1..i : cs[k].type # Table
Sound ==
  SoundWalk("database") /\ SoundWalk("catalog") /\ SinglesOnce(Contents("catalog"))

(* Whether the block trees let both walks pass: every page has an entry    *)
(* and no two of a walk have one offset in 32 bits.                        *)
PagesOf(name) == {n \in 1..4 : PathOf(name)[n] # 0}
WalkPasses(name) ==
  LET Offset(n) == PageOffset(PathOf(name)[n])
  IN  /\ \A n \in PagesOf(name) : HasBlock(PathOf(name)[n])
      /\ \A n, m \in PagesOf(name) : Offset(n) = Offset(m) => n = m
BlocksPass == WalkPasses("database") /\ WalkPasses("catalog")

(* A catalog that opens was read as a whole and every column, index, long  *)
(* value and callback is with the table whose row came last before it:     *)
(* rows of two pages and rows before any table included                    *)
(* (libesedb_catalog_read_value_data).                                     *)
RowsFindTheirTable ==
  step = "open" /\ Sound =>
    /\ tables = Grouped(Contents("catalog"))
    /\ counted = Len(LiveRows("database"))

(* Only a page, a row or a read that is bad makes the open fail, or a page *)
(* that the block tree refuses: one behind its last entry, or one of a     *)
(* file above 4 GiB whose offset in 32 bits is that of a page before it.   *)
SoundCatalogOpens == step = "failed" /\ faults = MaxFaults => ~(Sound /\ BlocksPass)

(* A sound catalog is read unless the block tree refuses a page of it, and *)
(* every row is with the table it was written for                          *)
(* (libesedb_catalog_read_value_data).                                     *)
CatalogIsRead == RowsFindTheirTable /\ SoundCatalogOpens

(* Reading the catalog ends, whatever the links between its pages          *)
(* (libesedb_catalog_read_file_io_handle).                                 *)
OpenEnds == <>(step \in {"open", "failed"})
==============================================================================
