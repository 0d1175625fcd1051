------------------------------ MODULE MCExport ------------------------------
(***************************************************************************)
(* Two exports to the same target of small databases: an empty one, tables *)
(* and indexes whose names meet, tables that are known, and values of      *)
(* every kind.                                                             *)
(***************************************************************************)
EXTENDS Export

Plain == [type |-> "number", flags |-> {}, size |-> 4, found |-> TRUE]
Null == [Plain EXCEPT !.size = 0]
Text == [Plain EXCEPT !.type = "text", !.flags = {"variable"}]
Packed == [Text EXCEPT !.type = "large text", !.flags = {"variable", "compressed"}]
PackedNothing == [Packed EXCEPT !.type = "large binary", !.size = 0]
Lost == [Text EXCEPT !.type = "large binary", !.flags = {"long"}, !.found = FALSE]
Long == [Lost EXCEPT !.found = TRUE]
Many == [Plain EXCEPT !.flags = {"multi"}]
Words == [Text EXCEPT !.flags = {"multi"}]

IndexOf(name, records) == [name |-> name, records |-> records]
TableOf(name, columns, records, indexes) ==
  [name |-> name, columns |-> columns, records |-> records, indexes |-> indexes]

Row == <<Plain>>
Named(name, indexes) == TableOf(name, <<"id">>, <<Row>>, indexes)
Id == IndexOf("id", <<Row>>)
Ix == IndexOf("ix", <<Row>>)
B == IndexOf("b", <<Row>>)

MCDatabases ==
  { <<>>,
    \* indexes of one name in two tables, three in the first
    <<Named("a", <<Id, Ix, B>>), Named("b", <<Id, Ix>>)>>,
    \* two tables that get one name; an index file with the name of a table's file
    <<Named("a", <<B>>), Named("b", <<>>), Named("b", <<>>)>>,
    \* two types of database, the one with two tables wins; one has its own exporter
    <<Named("cat", <<Id>>), Named("mail", <<Id>>), Named("user", <<>>)>>,
    \* values of every kind
    <<TableOf("v", <<"id", "name">>, <<<<Plain, Text>>, <<Null, Packed>>, <<Lost, Long>>, <<Words, Many>>>>, <<Id>>),
      TableOf("w", <<"id">>, <<Row, <<PackedNothing>>>>, <<>>)>> }

MCKnownNames == <<{"cat"}, {"mail", "user"}>>
MCSpecial == <<{"cat"}, {"mail"}>>
=============================================================================
