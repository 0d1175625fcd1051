---------------------------- MODULE PageTreeValue ----------------------------
(***************************************************************************)
(* A value of a page of a page tree: how much of its key it has in common  *)
(* with the key of the page, the rest of its key, and its data             *)
(* (libesedb_page_tree_value_read_data).                                   *)
(***************************************************************************)
EXTENDS Integers, Sequences, FiniteSetsExt

BadTreeValue == [ok |-> FALSE, common |-> 0, key |-> <<>>, data |-> <<>>, wrapped |-> FALSE]

KeyAt(hasCommon) == IF hasCommon THEN 4 ELSE 2
LocalKeySize(bytes, hasCommon) ==
  bytes[KeyAt(hasCommon) - 1] + 256 * bytes[KeyAt(hasCommon)]

(* The size of the key is compared with that of the whole value: a key that *)
(* ends behind the value leaves a data size below zero, which a size_t      *)
(* cannot have.                                                             *)
TreeValue(bytes, hasCommon) ==
  IF Len(bytes) < KeyAt(hasCommon) \/ LocalKeySize(bytes, hasCommon) > Len(bytes)
  THEN BadTreeValue
  ELSE LET dataAt == KeyAt(hasCommon) + LocalKeySize(bytes, hasCommon)
       IN  [ok |-> TRUE,
            common |-> IF hasCommon THEN bytes[1] + 256 * bytes[2] ELSE 0,
            key |-> SubSeq(bytes, KeyAt(hasCommon) + 1, Min({dataAt, Len(bytes)})),
            data |-> SubSeq(bytes, dataAt + 1, Len(bytes)),
            wrapped |-> dataAt > Len(bytes)]
=============================================================================
