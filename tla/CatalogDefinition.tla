-------------------------- MODULE CatalogDefinition --------------------------
(***************************************************************************)
(* The definition of a table, column, index, long value or callback in the *)
(* bytes of a row of the catalog, and the names in it.  The catalog is not *)
(* read with the definitions of its own columns: their places are known.   *)
(***************************************************************************)
EXTENDS Integers, Sequences, SequencesExt

None == <<>>
Table == 1
ColumnType == 2
Index == 3
LongValue == 4
Callback == 5

BadDefinition ==
  [ok |-> FALSE, type |-> 0, id |-> 0, detail |-> 0, name |-> None,
   template |-> None, default |-> None, codepage |-> 0]

-----------------------------------------------------------------------------
(* The header and the values of a fixed size.  They are taken from their   *)
(* places whether or not the row is long enough to have them.              *)

ByteOf(data, o, stray) == IF o < Len(data) THEN data[o + 1] ELSE stray
WordOf(data, o, stray) == ByteOf(data, o, stray) + 256 * ByteOf(data, o + 1, stray)

SizesAt(data) == WordOf(data, 2, 0)
SizesOf(data) == IF data[2] > 127 THEN data[2] - 127 ELSE 0
ValuesAt(data) == SizesAt(data) + 2 * SizesOf(data)

HeaderAccepted(data) ==
  /\ Len(data) >= 4
  /\ data[1] \in 5..13
  /\ SizesAt(data) \in 4..Len(data)
  /\ SizesOf(data) > 0 => ValuesAt(data) <= Len(data)

FixedFields(data, stray) ==
  [BadDefinition EXCEPT !.ok = TRUE,
     !.type = WordOf(data, 8, stray), !.id = WordOf(data, 10, stray),
     !.detail = WordOf(data, 14, stray),
     !.codepage = IF WordOf(data, 8, stray) = ColumnType THEN WordOf(data, 26, stray) ELSE 0]

-----------------------------------------------------------------------------
(* The values of a variable size: the name, the name of the template and   *)
(* the default value are kept, those of other numbers passed over.         *)

EndOf(data, i) == WordOf(data, SizesAt(data) + 2 * (i - 1), 0)
IsEmpty(data, i) == EndOf(data, i) >= 32768

(* A value starts where the last one that was not empty ends. *)
PreviousEnd(data, i) ==
  LET before == {j \in 1..(i - 1) : ~IsEmpty(data, j)}
  IN  IF before = {} THEN 0 ELSE EndOf(data, Max(before))

ValueSize(data, i) ==
  IF IsEmpty(data, i) THEN 0 ELSE (EndOf(data, i) - PreviousEnd(data, i)) % 65536

ValueFits(data, i) ==
  LET left == Len(data) - ValuesAt(data)
  IN  PreviousEnd(data, i) <= left /\ ValueSize(data, i) <= left - PreviousEnd(data, i)

ValueOf(data, number) ==
  LET i == number - 127
      from == ValuesAt(data) + PreviousEnd(data, i)
  IN  IF i \notin 1..SizesOf(data) THEN None
      ELSE SubSeq(data, from + 1, from + ValueSize(data, i))

NameIn(data) == ValueOf(data, 128)
TemplateIn(data) == ValueOf(data, 130)
DefaultIn(data) == ValueOf(data, 131)

Definition(data, stray) ==
  IF HeaderAccepted(data) /\ \A i \in 1..SizesOf(data) : ValueFits(data, i)
  THEN [FixedFields(data, stray) EXCEPT !.name = NameIn(data),
          !.template = TemplateIn(data), !.default = DefaultIn(data)]
  ELSE BadDefinition

Identifier(d) == d.id
ColumnTypeOf(d) == d.detail

-----------------------------------------------------------------------------
(* Names are compared in codepage 1252, and their sizes are told in the    *)
(* one that is set, 1252 here too.  The library libuna is external: a      *)
(* string is compared by its characters and is an error if it is not valid *)
(* UTF-8, which no byte above 127 alone is.  Of the characters that are no *)
(* ASCII only those with two bytes in UTF-8 are considered.                *)

ValidUtf8(string) == \A i \in DOMAIN string : string[i] < 128

SameName(d, name) == IF d.name = name THEN 1 ELSE 0
CompareUtf8(d, string) ==
  IF d.name = None \/ ~ValidUtf8(string) THEN -1 ELSE SameName(d, string)
CompareUtf16(d, string) == IF d.name = None THEN -1 ELSE SameName(d, string)

Characters(bytes) == Cardinality({i \in DOMAIN bytes : bytes[i] > 127})
Utf8Length(bytes) == Len(bytes) + Characters(bytes) + 1
Utf16Length(bytes) == Len(bytes) + 1

\* A definition without a name has no size of it, one without a template the size 0.
Utf8NameSize(d) == IF d.name = None THEN -1 ELSE Utf8Length(d.name)
Utf8Name(d, room) == IF d.name = None \/ room < Utf8Length(d.name) THEN -1 ELSE 1
Utf16NameSize(d) == IF d.name = None THEN -1 ELSE Utf16Length(d.name)
Utf16Name(d, room) == IF d.name = None \/ room < Utf16Length(d.name) THEN -1 ELSE 1
Utf8TemplateSize(d) == IF d.template = None THEN 0 ELSE Utf8Length(d.template)
Utf8Template(d, room) == IF d.template # None /\ room < Utf8Length(d.template) THEN -1 ELSE 1
Utf16TemplateSize(d) == IF d.template = None THEN 0 ELSE Utf16Length(d.template)
Utf16Template(d, room) == IF d.template # None /\ room < Utf16Length(d.template) THEN -1 ELSE 1
==============================================================================
