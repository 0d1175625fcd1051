--------------------------- MODULE PageBlockTree ---------------------------
(***************************************************************************)
(* The block tree of libesedb_block_tree.c and libesedb_block_tree_node.c, *)
(* which records the pages a walk has already read.  A node spans a range  *)
(* of offsets and has an array of SubNodes entries: a leaf node stores the *)
(* block descriptors there, any other node its sub nodes, which are made   *)
(* when an insert first needs them.                                        *)
(*                                                                         *)
(* An insert or a look-up is one action per level of its descent loop.  A  *)
(* node is named by its path, the sequence of array indices from the root. *)
(***************************************************************************)
EXTENDS BlockNode, Sequences

CONSTANTS
  TreeSize,     \* the size of the root node: the size of the file
  MaxFailures   \* bound on the number of failed allocations

ASSUME TreeSizeAssumption == TreeSize \in Nat \ {0}
ASSUME MaxFailuresAssumption == MaxFailures \in Nat

VARIABLES
  nodes,     \* from the path of each node that exists to its range
  values,    \* <<path, index>> of every leaf entry that holds a descriptor
  request,   \* the call in progress, or the last one
  cursor,    \* the path of the node the descent has reached
  outcome,   \* "busy" during a call, then how the last call ended
  failures   \* how many allocations failed

vars == <<nodes, values, request, cursor, outcome, failures>>

NewNode(start, size) == [start |-> start, end |-> start + size, sub |-> SubNodeSize(size)]

\* Mutant: the nodes above the leaf nodes are taken as leaf nodes.
IsLeafEarly(node) == node.sub <= LeafSize * SubNodes

IsLeaf(node) == node.sub = LeafSize

InNode(node, offset) == node.start <= offset /\ offset < node.end

EntryIndex(node, offset) == (offset - node.start) \div node.sub

\* libcdata_array rejects an index outside the entries it was made with.
ValidEntry(index) == index \in 0 .. SubNodes - 1

Here == nodes[cursor]
Index == EntryIndex(Here, request.offset)
Entry == <<cursor, Index>>
SubPath == Append(cursor, Index)

Offsets == 0 .. TreeSize

\* Looking at an entry of the current node fails before it reads it.
BadOffset == ~ InNode(Here, request.offset)
BadEntry == ~ BadOffset /\ ~ ValidEntry(Index)
Reachable == ~ BadOffset /\ ~ BadEntry

Init ==
  /\ nodes = [path \in {<<>>} |-> NewNode(0, TreeSize)]
  /\ values = {}
  /\ request = [op |-> "get", offset |-> 0]
  /\ cursor = <<>>
  /\ outcome = "absent"
  /\ failures = 0

Finish(how) ==
  /\ outcome' = how
  /\ UNCHANGED <<request, cursor>>

Begin(op, offset) ==
  /\ outcome # "busy"
  /\ request' = [op |-> op, offset |-> offset]
  /\ cursor' = <<>>
  /\ outcome' = "busy"
  /\ UNCHANGED <<nodes, values, failures>>

\* The node has no entry for the offset: the look-up of the entry fails.
RejectOffset ==
  /\ outcome = "busy"
  /\ ~ Reachable
  /\ Finish(IF BadOffset THEN "out of range" ELSE "invalid entry")
  /\ UNCHANGED <<nodes, values, failures>>

\* The sub node exists: go down.
Descend ==
  /\ outcome = "busy"
  /\ ~ IsLeaf(Here) /\ Reachable /\ SubPath \in DOMAIN nodes
  /\ cursor' = SubPath
  /\ UNCHANGED <<nodes, values, request, outcome, failures>>

\* A look-up stops at the first sub node that does not exist.
GetMissingNode ==
  /\ outcome = "busy" /\ request.op = "get"
  /\ ~ IsLeaf(Here) /\ Reachable /\ SubPath \notin DOMAIN nodes
  /\ Finish("absent")
  /\ UNCHANGED <<nodes, values, failures>>

\* Mutant: the sub node starts at the offset that is inserted.
SubNodeStartUnaligned == request.offset

SubNodeStart == Here.start + Index * Here.sub

\* An insert makes the sub node, aligned to the size of an entry.
InsertMakesNode ==
  /\ outcome = "busy" /\ request.op = "insert"
  /\ ~ IsLeaf(Here) /\ Reachable /\ SubPath \notin DOMAIN nodes
  /\ nodes' = [path \in DOMAIN nodes \union {SubPath} |->
                 IF path = SubPath THEN NewNode(SubNodeStart, Here.sub) ELSE nodes[path]]
  /\ cursor' = SubPath
  /\ UNCHANGED <<values, request, outcome, failures>>

\* libesedb_block_tree_node_initialize cannot allocate the node or its array.
InsertRunsOutOfMemory ==
  /\ outcome = "busy" /\ request.op = "insert"
  /\ ~ IsLeaf(Here) /\ Reachable /\ SubPath \notin DOMAIN nodes
  /\ failures < MaxFailures
  /\ failures' = failures + 1
  /\ Finish("no memory")
  /\ UNCHANGED <<nodes, values>>

GetValue ==
  /\ outcome = "busy" /\ request.op = "get"
  /\ IsLeaf(Here) /\ Reachable
  /\ Finish(IF Entry \in values THEN "found" ELSE "absent")
  /\ UNCHANGED <<nodes, values, failures>>

\* A descriptor that is already there is kept and the insert answers 0.
InsertValue ==
  /\ outcome = "busy" /\ request.op = "insert"
  /\ IsLeaf(Here) /\ Reachable
  /\ values' = values \union {Entry}
  /\ Finish(IF Entry \in values THEN "already set" ELSE "inserted")
  /\ UNCHANGED <<nodes, failures>>

Next ==
  \/ \E op \in {"insert", "get"}, offset \in Offsets : Begin(op, offset)
  \/ RejectOffset
  \/ Descend
  \/ GetMissingNode
  \/ InsertMakesNode
  \/ InsertRunsOutOfMemory
  \/ GetValue
  \/ InsertValue

\* A call runs to its end: nothing in it waits.
Step ==
  RejectOffset \/ Descend \/ GetMissingNode \/ InsertMakesNode \/ GetValue \/ InsertValue

Spec == Init /\ [][Next]_vars /\ WF_vars(Step)
-----------------------------------------------------------------------------
Outcomes ==
  {"busy", "out of range", "invalid entry", "no memory", "found", "absent", "already set", "inserted"}

TypeOK ==
  /\ DOMAIN nodes \subseteq Seq(0 .. SubNodes - 1)
  /\ \A path \in DOMAIN nodes : nodes[path] \in [start : Nat, end : Nat, sub : Nat \ {0}]
  /\ values \subseteq (DOMAIN nodes) \X (0 .. SubNodes - 1)
  /\ request \in [op : {"insert", "get"}, offset : Offsets]
  /\ cursor \in DOMAIN nodes
  /\ outcome \in Outcomes
  /\ failures \in 0 .. MaxFailures

(***************************************************************************)
(* The leaf nodes that inserts make on demand, in any order and around     *)
(* failed allocations, start at a page and do not overlap.  Otherwise two  *)
(* pages could share an entry, or one page have two, and a page would be   *)
(* taken for one that was read                                             *)
(* (libesedb_page_tree_check_if_page_block_first_read).                    *)
(***************************************************************************)
LeafNodes == {path \in DOMAIN nodes : IsLeaf(nodes[path])}

LeafNodesApart ==
  \A p1 \in LeafNodes :
    /\ nodes[p1].start % LeafSize = 0
    /\ \A p2 \in LeafNodes :
         p1 # p2 => nodes[p1].end <= nodes[p2].start \/ nodes[p2].end <= nodes[p1].start

(***************************************************************************)
(* Every page has an entry: no offset of the file is answered with an      *)
(* error other than lack of memory, unless it lies behind the last entry   *)
(* of the root node, and those that do always are.  That there is such an  *)
(* offset, because the quotient was rounded down, refuses less than one    *)
(* entry of the root node                                                  *)
(* (libesedb_block_tree_insert_block_descriptor_by_offset).  It is what    *)
(* the walks over the pages meet of the tree besides PageSet.              *)
(***************************************************************************)
Refused == outcome \in {"out of range", "invalid entry"}

EveryPageHasAnEntry ==
  /\ outcome # "busy" => (Refused <=> ~ HasBlock(TreeSize, request.offset))
  /\ TreeSize < SubNodes * nodes[<<>>].sub + nodes[<<>>].sub

(* What the tree holds is a partition of the pages: its leaf nodes lie     *)
(* apart and each page of the file has the one entry where its look-up     *)
(* ends (libesedb_block_tree_insert_block_descriptor_by_offset).           *)
TreeIsSound == TypeOK /\ LeafNodesApart /\ EveryPageHasAnEntry

Block(offset) == offset \div LeafSize
BlockOfEntry(entry) == Block(nodes[entry[1]].start + entry[2] * LeafSize)

(***************************************************************************)
(* The tree implements the set of blocks of PageSet, and every call is     *)
(* answered: each level the descent takes leads to a node of a smaller     *)
(* range (the loops of libesedb_block_tree.c have no other bound).         *)
(***************************************************************************)
Answer ==
  CASE outcome = "busy" -> 2
    [] outcome \in {"found", "inserted"} -> 1
    [] outcome \in {"absent", "already set"} -> 0
    [] OTHER -> -1

Abstract == INSTANCE PageSet WITH
  seen <- {BlockOfEntry(entry) : entry \in values}, answer <- Answer

ImplementsPageSet == Abstract!Spec /\ Abstract!EveryCallIsAnswered
=============================================================================
