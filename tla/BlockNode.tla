------------------------------ MODULE BlockNode ------------------------------
(***************************************************************************)
(* The sizes of the nodes of a block tree (libesedb_block_tree_node.c) and *)
(* the offsets that its root node has an entry for.                        *)
(***************************************************************************)
EXTENDS Integers

CONSTANTS
  LeafSize,     \* leaf_value_size: the page size
  SubNodes      \* LIBESEDB_BLOCK_TREE_NUMBER_OF_SUB_NODES

ASSUME LeafSizeAssumption == LeafSize \in Nat \ {0}
ASSUME SubNodesAssumption == SubNodes \in Nat \ {0, 1}

(***************************************************************************)
(* The smallest LeafSize * SubNodes^k for which the node needs at most     *)
(* SubNodes entries, the quotient being rounded down as in the code: the   *)
(* end of a root node may lie up to an entry behind its last entry.        *)
(***************************************************************************)
NodeSize[k \in Nat] == IF k = 0 THEN LeafSize ELSE SubNodes * NodeSize[k - 1]

Fits(size, k) == size \div NodeSize[k] <= SubNodes

SubNodeSize(size) ==
  LET level == CHOOSE k \in 0 .. size : Fits(size, k) /\ \A j \in 0 .. k - 1 : ~ Fits(size, j)
  IN  NodeSize[level]

\* A tree over that many bytes answers for the offset: any other is an error.
HasBlock(size, offset) == offset < size /\ offset < SubNodes * SubNodeSize(size)
=============================================================================
