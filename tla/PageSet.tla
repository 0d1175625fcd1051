------------------------------ MODULE PageSet ------------------------------
(***************************************************************************)
(* What a page block tree (libesedb_block_tree.c) promises the walks over  *)
(* pages that use it: it is a set of the blocks of the file that were      *)
(* marked.  Inserting a block answers 1 the first time and 0 ever after,   *)
(* looking one up answers 1 exactly when it was inserted.  An insert or a  *)
(* look-up may also fail with -1, and then nothing was marked.             *)
(*                                                                         *)
(* The nodes of the tree, created on demand, are in PageBlockTree.         *)
(***************************************************************************)
EXTENDS Integers

CONSTANTS
  TreeSize,   \* the size the tree spans, the file size in bytes
  LeafSize    \* the size of a block, the page size in bytes

VARIABLES
  seen,       \* the blocks that are marked
  request,    \* the call in progress or the last one: an operation, an offset
  answer      \* Busy during a call, otherwise what the last call returned

vars == <<seen, request, answer>>

\* Not a value that a call returns.
Busy == 2

Offsets == 0 .. TreeSize

Block(offset) == offset \div LeafSize

Init ==
  /\ seen = {}
  /\ request = [op |-> "get", offset |-> 0]
  /\ answer = 0

Begin(op, offset) ==
  /\ answer # Busy
  /\ request' = [op |-> op, offset |-> offset]
  /\ answer' = Busy
  /\ UNCHANGED seen

ReplyInsert ==
  /\ answer = Busy /\ request.op = "insert"
  /\ answer' = IF Block(request.offset) \in seen THEN 0 ELSE 1
  /\ seen' = seen \union {Block(request.offset)}
  /\ UNCHANGED request

ReplyGet ==
  /\ answer = Busy /\ request.op = "get"
  /\ answer' = IF Block(request.offset) \in seen THEN 1 ELSE 0
  /\ UNCHANGED <<seen, request>>

ReplyError ==
  /\ answer = Busy
  /\ answer' = -1
  /\ UNCHANGED <<seen, request>>

Next ==
  \/ \E op \in {"insert", "get"}, offset \in Offsets : Begin(op, offset)
  \/ ReplyInsert
  \/ ReplyGet
  \/ ReplyError

Spec == Init /\ [][Next]_vars

\* A call returns (page_tree_check_if_page_block_first_read has no way to wait).
EveryCallIsAnswered == (answer = Busy) ~> (answer # Busy)
=============================================================================
