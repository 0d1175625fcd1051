---------------------------- MODULE KeyCompare -----------------------------
(***************************************************************************)
(* Comparing a key that is searched for with the key of a value of a       *)
(* branch or leaf page (libesedb_page_tree_key.c).  A key is a sequence of *)
(* bytes; Half is the value of the highest bit of a byte, 128 in the code. *)
(***************************************************************************)
EXTENDS Integers, Sequences

CONSTANT Half

ASSUME HalfAssumption == Half \in Nat \ {0}

Byte == 0 .. 2 * Half - 1

SearchTypes == {"index value", "long value", "long value segment"}
PageTypes == {"branch", "leaf"}

Shorter(a, b) == IF Len(a) <= Len(b) THEN Len(a) ELSE Len(b)

\* The identifier of a long value is stored in the opposite byte order.
SearchByte(first, type, i) == IF type = "long value" THEN first[Len(first) + 1 - i] ELSE first[i]

\* The second byte of an index value also matches without its highest bit.
MaskedByte(first, type, second, pageType, i) ==
  LET byte == SearchByte(first, type, i)
  IN  IF /\ type = "index value" /\ pageType = "leaf" /\ i = 2
         /\ byte >= Half /\ byte - Half = second[i]
      THEN byte - Half ELSE byte

\* compare_result: below 0, 0 or above 0; below 0 as well for an empty key.
ByteOrder(first, type, second, pageType) ==
  LET Byte1(i) == MaskedByte(first, type, second, pageType, i)
      Differ == {i \in 1 .. Shorter(first, second) : Byte1(i) # second[i]}
  IN  IF Differ # {}
      THEN LET i == CHOOSE i \in Differ : \A j \in Differ : i <= j
           IN  Byte1(i) - second[i]
      ELSE IF Shorter(first, second) = 0 THEN -1 ELSE 0

\* Mutant: the lengths of keys that start alike are not compared.
CompareWithBranchStart(first, type, second) ==
  LET order == ByteOrder(first, type, second, "branch") IN
  IF order > 0 THEN "greater"
  ELSE IF type = "index value"
       THEN IF order = 0 THEN "greater" ELSE "equal"
       ELSE IF order = 0 THEN "greater" ELSE "less equal"

CompareWithBranch(first, type, second) ==
  LET order == ByteOrder(first, type, second, "branch") IN
  IF order > 0 THEN "greater"
  ELSE IF type = "index value"
       THEN IF order = 0 THEN "greater" ELSE "equal"
       ELSE IF order = 0 /\ Len(first) > Len(second) THEN "greater" ELSE "less equal"

CompareWithLeaf(first, type, second) ==
  LET order == ByteOrder(first, type, second, "leaf") IN
  IF order > 0 THEN "greater"
  ELSE IF order < 0 \/ Len(first) < Len(second) THEN "less"
  ELSE IF Len(first) > Len(second) THEN "greater" ELSE "equal"

Compare(first, type, second, pageType) ==
  IF pageType = "branch" THEN CompareWithBranch(first, type, second)
                         ELSE CompareWithLeaf(first, type, second)
=============================================================================
