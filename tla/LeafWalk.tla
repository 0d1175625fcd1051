----------------------------- MODULE LeafWalk ------------------------------
(***************************************************************************)
(* Counting the leaf values of a page tree, the number of records of a     *)
(* table (libesedb_page_tree_get_number_of_leaf_values).  The count is     *)
(* made once and kept.  It descends from the root to a first leaf page,    *)
(* walks the previous links back to the start of the chain of leaf pages,  *)
(* and then walks the next links, making a descriptor of every leaf page   *)
(* that later tells which page holds the leaf value of a given index.      *)
(*                                                                         *)
(* One action per page that is read.  A read can fail; then the call ends  *)
(* with an error and may be made again.                                    *)
(***************************************************************************)
EXTENDS PageTreeOrder

CONSTANTS
  Files,         \* the contents of the file that are considered
  Root,          \* page_tree->root_page_number
  MaxDepth,      \* LIBESEDB_MAXIMUM_INDEX_NODE_RECURSION_DEPTH
  MaxLeafPages,  \* LIBESEDB_MAXIMUM_NUMBER_OF_LEAF_PAGES
  MaxInt,        \* INT_MAX
  SubNodes,      \* LIBESEDB_BLOCK_TREE_NUMBER_OF_SUB_NODES
  MaxFaults      \* bound on the number of reads that fail

ASSUME FilesAssumption == Files \subseteq File
ASSUME RootAssumption == Root \in PageNumbers
ASSUME LimitsAssumption ==
  /\ MaxDepth \in Nat /\ MaxLeafPages \in Nat /\ MaxFaults \in Nat
  /\ MaxInt \in Nat /\ LastPage <= MaxInt
  /\ SubNodes \in Nat \ {0, 1}

VARIABLES
  file,         \* the pages, which do not change
  leafCount,    \* page_tree->number_of_leaf_values
  descriptors,  \* page_tree->leaf_page_descriptors_tree
  seen,         \* page_tree->page_block_tree: offsets of the pages walked back
  pc,           \* where the call in progress is
  at,           \* the page number the walk is about to read
  depth,        \* recursion_depth of the descent
  lastLeaf,     \* last_leaf_page_number of the walk back
  total,        \* safe_number_of_leaf_values
  leafPages,    \* number_of_leaf_pages
  answer,       \* what the last call returned
  faults        \* how many reads failed

walkVars == <<leafCount, descriptors, seen, pc, at, depth, lastLeaf, total, leafPages, answer>>
vars == <<file, walkVars, faults>>

NoAnswer == [code |-> 0, count |-> 0]
Success(count) == [code |-> 1, count |-> count]
Error == [code |-> -1, count |-> 0]

Here == file[at]

Readable(number) == number \in PageNumbers

Init ==
  /\ file \in Files
  /\ leafCount = -1
  /\ descriptors = {}
  /\ seen = {}
  /\ pc = "idle"
  /\ at = 0 /\ depth = 0 /\ lastLeaf = 0 /\ total = 0 /\ leafPages = 0
  /\ answer = NoAnswer
  /\ faults = 0

\* on_error: the call ends, and what it has stored in the page tree stays.
Fail ==
  /\ pc' = "idle"
  /\ answer' = Error
  /\ UNCHANGED <<file, leafCount, descriptors, at, depth, lastLeaf, total, leafPages>>

CachedCount ==
  /\ pc = "idle" /\ leafCount # -1
  /\ answer' = Success(leafCount)
  /\ UNCHANGED <<file, leafCount, descriptors, seen, pc, at, depth, lastLeaf, total, leafPages, faults>>

StartCount ==
  /\ pc = "idle" /\ leafCount = -1
  /\ leafCount' = 0
  /\ pc' = "root"
  /\ at' = Root /\ depth' = 0 /\ lastLeaf' = 0 /\ total' = 0 /\ leafPages' = 0
  /\ UNCHANGED <<file, descriptors, seen, answer, faults>>

-----------------------------------------------------------------------------
(***************************************************************************)
(* The descent to the first leaf page.                                     *)
(***************************************************************************)

\* The root page is validated only when it says that it is a root page.
RootRejected == "root" \in Here.flags /\ ~ ValidRootPage(Here)

ReadRoot ==
  /\ pc = "root" /\ ~ RootRejected
  /\ pc' = "descend"
  /\ UNCHANGED <<file, leafCount, descriptors, seen, at, depth, lastLeaf, total, leafPages, answer, faults>>

ReadRootFails ==
  /\ pc = "root" /\ RootRejected
  /\ Fail
  /\ UNCHANGED <<seen, faults>>

\* The first value that is not defunct decides, the others are not tried.
FirstChild == Here.values[CHOOSE i \in LivePositions(Here) : \A j \in LivePositions(Here) : i <= j].ref

HasChild == ~ IsLeafPage(Here) /\ LivePositions(Here) # {}

\* Mutant: the limit on the depth is off by one.
ChildRejectedEarly ==
  \/ FirstChild < 1 \/ FirstChild > MaxInt
  \/ FirstChild \in PageNumbers /\ (~ ValidPage(file[FirstChild]) \/ depth + 1 >= MaxDepth)

ChildRejected ==
  \/ FirstChild < 1 \/ FirstChild > MaxInt
  \/ FirstChild \in PageNumbers /\ (~ ValidPage(file[FirstChild]) \/ depth + 1 > MaxDepth)

DescendToChild ==
  /\ pc = "descend" /\ HasChild /\ ~ ChildRejected /\ FirstChild \in PageNumbers
  /\ at' = FirstChild
  /\ depth' = depth + 1
  /\ UNCHANGED <<file, leafCount, descriptors, seen, pc, lastLeaf, total, leafPages, answer, faults>>

DescendFails ==
  /\ pc = "descend" /\ HasChild /\ ChildRejected
  /\ Fail
  /\ UNCHANGED <<seen, faults>>

\* A leaf page is the result; without a child to follow there is none.
DescentEnds ==
  /\ pc = "descend"
  /\ HasChild => ~ ChildRejected /\ FirstChild \notin PageNumbers
  /\ pc' = "backward"
  /\ at' = IF IsLeafPage(Here) THEN at ELSE 0
  /\ UNCHANGED <<file, leafCount, descriptors, seen, depth, lastLeaf, total, leafPages, answer, faults>>

-----------------------------------------------------------------------------
(***************************************************************************)
(* The walk back.  A page is marked in the block tree before it is read,   *)
(* and refused when the block tree has no block for its offset or has      *)
(* marked it before.                                                       *)
(***************************************************************************)
Blocks == INSTANCE BlockNode WITH LeafSize <- PageSize

HasBlock(number) == Blocks!HasBlock(FileSize, PageOffset(number))

\* Mutant: what the block tree has marked is read again.
InFile == HasBlock(at)

FirstRead == HasBlock(at) /\ PageOffset(at) \notin seen

WalkBack ==
  /\ pc = "backward" /\ at # 0 /\ FirstRead /\ Readable(at)
  /\ seen' = seen \union {PageOffset(at)}
  /\ lastLeaf' = IF IsLeafPage(Here) THEN at ELSE lastLeaf
  /\ at' = Here.prev
  /\ UNCHANGED <<file, leafCount, descriptors, pc, depth, total, leafPages, answer, faults>>

WalkBackRevisits ==
  /\ pc = "backward" /\ at # 0 /\ ~ FirstRead
  /\ Fail
  /\ UNCHANGED <<seen, faults>>

WalkBackCannotRead ==
  /\ pc = "backward" /\ at # 0 /\ FirstRead /\ ~ Readable(at)
  /\ seen' = seen \union {PageOffset(at)}
  /\ Fail
  /\ UNCHANGED faults

WalkBackEnds ==
  /\ pc = "backward" /\ at = 0
  /\ pc' = "forward"
  /\ at' = lastLeaf
  /\ UNCHANGED <<file, leafCount, descriptors, seen, depth, lastLeaf, total, leafPages, answer, faults>>

-----------------------------------------------------------------------------
(***************************************************************************)
(* The walk forward.  Descriptors are ordered by their range of indexes    *)
(* and two that overlap are equal to the tree that holds them.             *)
(***************************************************************************)
Before(d1, d2) == d1.last < d2.first

SameRange(d1, d2) == ~ Before(d1, d2) /\ ~ (d1.first > d2.last)

\* Mutant: defunct values are counted.
NewTotalWithDefunct == total + Len(Here.values)

NewTotal == total + NumberOfLiveValues(Here)

\* Mutant: the last index of the range is one too high.
NewDescriptorTooLong == [page |-> at, first |-> leafCount, last |-> NewTotal]

NewDescriptor == [page |-> at, first |-> leafCount, last |-> NewTotal - 1]

ForwardRejected ==
  \/ leafPages > MaxLeafPages
  \/ ~ Readable(at)
  \/ /\ Readable(at) /\ IsLeafPage(Here)
     /\ NewTotal > MaxInt \/ \E d \in descriptors : SameRange(NewDescriptor, d)

\* Mutant: at the limit on the pages the walk ends instead of failing.
CountLeafUpToLimit ==
  /\ pc = "forward" /\ at # 0 /\ ~ ForwardRejected /\ IsLeafPage(Here)
  /\ total' = NewTotal
  /\ descriptors' = descriptors \union {NewDescriptor}
  /\ leafCount' = NewTotal
  /\ leafPages' = leafPages + 1
  /\ at' = IF leafPages' > MaxLeafPages THEN 0 ELSE Here.next
  /\ UNCHANGED <<file, seen, pc, depth, lastLeaf, answer, faults>>

CountLeaf ==
  /\ pc = "forward" /\ at # 0 /\ ~ ForwardRejected /\ IsLeafPage(Here)
  /\ total' = NewTotal
  /\ descriptors' = descriptors \union {NewDescriptor}
  /\ leafCount' = NewTotal
  /\ leafPages' = leafPages + 1
  /\ at' = Here.next
  /\ UNCHANGED <<file, seen, pc, depth, lastLeaf, answer, faults>>

\* A page that is no leaf is passed over, and is not counted as a page either.
PassOver ==
  /\ pc = "forward" /\ at # 0 /\ ~ ForwardRejected /\ ~ IsLeafPage(Here)
  /\ at' = Here.next
  /\ UNCHANGED <<file, leafCount, descriptors, seen, pc, depth, lastLeaf, total, leafPages, answer, faults>>

CountFails ==
  /\ pc = "forward" /\ at # 0 /\ ForwardRejected
  /\ Fail
  /\ UNCHANGED <<seen, faults>>

CountEnds ==
  /\ pc = "forward" /\ at = 0
  /\ pc' = "idle"
  /\ answer' = Success(leafCount)
  /\ UNCHANGED <<file, leafCount, descriptors, seen, at, depth, lastLeaf, total, leafPages, faults>>

\* A page that was valid cannot be read now, or memory runs out.
ReadFault ==
  /\ pc # "idle" /\ at # 0
  /\ faults < MaxFaults
  /\ faults' = faults + 1
  /\ seen' \in {seen} \union IF pc = "backward" /\ FirstRead THEN {seen \union {PageOffset(at)}} ELSE {}
  /\ Fail

-----------------------------------------------------------------------------
Step ==
  \/ ReadRoot \/ ReadRootFails
  \/ DescendToChild \/ DescendFails \/ DescentEnds
  \/ WalkBack \/ WalkBackRevisits \/ WalkBackCannotRead \/ WalkBackEnds
  \/ CountLeaf \/ PassOver \/ CountFails \/ CountEnds

Next == CachedCount \/ StartCount \/ Step \/ ReadFault

Spec == Init /\ [][Next]_vars /\ WF_vars(Step)
-----------------------------------------------------------------------------
Descriptor == [page : PageNumbers, first : Nat, last : Nat \union {-1}]

TypeOK ==
  /\ file \in File
  /\ leafCount \in Nat \union {-1}
  /\ descriptors \subseteq Descriptor
  /\ seen \subseteq Nat
  /\ pc \in {"idle", "root", "descend", "backward", "forward"}
  /\ at \in Nat /\ (pc \in {"root", "descend"} => at \in PageNumbers)
  /\ depth \in Nat /\ lastLeaf \in Nat /\ total \in Nat /\ leafPages \in Nat
  /\ answer \in [code : {-1, 0, 1}, count : Nat]
  /\ faults \in 0 .. MaxFaults

(***************************************************************************)
(* What the walk keeps about the page tree while it goes on: nothing is    *)
(* counted before the walk forward, whatever calls failed earlier, and     *)
(* the count in the page tree keeps up with the local one.  A failed call  *)
(* leaves a count that is taken as final, never one that is counted on     *)
(* (libesedb_page_tree_get_number_of_leaf_values).                         *)
(***************************************************************************)
CountKeepsUp ==
  /\ leafCount = -1 => pc = "idle" /\ descriptors = {}
  /\ pc \in {"root", "descend", "backward"} => leafCount = 0 /\ total = 0 /\ descriptors = {}
  /\ pc = "forward" => total = leafCount

(***************************************************************************)
(* Whatever the pages hold, and after failed calls too, the descriptors    *)
(* tile the indexes that are counted: every index below the count is in    *)
(* the range of one descriptor, none is in two, and none is beyond the     *)
(* count.  libesedb_page_tree_get_leaf_value_by_index relies on it.        *)
(***************************************************************************)
IndexesOf(d) == d.first .. d.last

DescriptorsTile ==
  /\ \A i \in 0 .. leafCount - 1 : \E d \in descriptors : i \in IndexesOf(d)
  /\ \A d \in descriptors : d.last < leafCount
  /\ \A d1, d2 \in descriptors : d1 # d2 => IndexesOf(d1) \intersect IndexesOf(d2) = {}

(***************************************************************************)
(* The tree of descriptors never refuses a new one as equal to one it has: *)
(* the count never fails there (libesedb_leaf_page_descriptor_compare).    *)
(***************************************************************************)
CountingLeaf == pc = "forward" /\ at \in PageNumbers /\ IsLeafPage(Here)

NoDescriptorRefused ==
  CountingLeaf => \A d \in descriptors : ~ SameRange(NewDescriptor, d)

(***************************************************************************)
(* A walk that reaches the end of the chain has counted no page twice, in  *)
(* any file: a chain that leads back into itself ends at the limit on the  *)
(* number of pages instead.                                                *)
(***************************************************************************)
WalkCompleted == pc = "forward" /\ at = 0

NoPageCountedTwice ==
  WalkCompleted => \A d1, d2 \in descriptors : d1.page = d2.page => d1 = d2

(***************************************************************************)
(* When the leaf page that the descent by first values ends at is on a     *)
(* chain of leaf pages, linked both ways, a completed walk has counted the *)
(* values of that whole chain, and its descriptors are the pages of the    *)
(* chain, each for the indexes that its values have in the order of the    *)
(* chain.  Nothing is asked of the rest of the file.                       *)
(***************************************************************************)
Descents == {path \in PageSequences : FirstDescent(file, Root, path)}
Chains == {chain \in PageSequences : LeafChain(file, chain)}

EndsOn(path, chain) == path[Len(path)] \in ToSet(chain)

ChainDescriptor(chain, k) ==
  [page |-> chain[k],
   first |-> NumberInFirst(file, chain, k - 1),
   last |-> NumberInFirst(file, chain, k) - 1]

ChainIsCounted ==
  WalkCompleted =>
    \A path \in Descents, chain \in Chains : EndsOn(path, chain) =>
      /\ leafCount = NumberInFirst(file, chain, Len(chain))
      /\ descriptors = {ChainDescriptor(chain, k) : k \in DOMAIN chain}

(***************************************************************************)
(* As long as no read fails, such a chain within the limits is not refused *)
(* and every call returns its number of values, the one that counts and    *)
(* those that find the count.  The limits are those of the depth, of the   *)
(* pages and values of a chain, of the offsets of 32 bits, and that the    *)
(* block tree has a block for the pages that are walked back: it has none  *)
(* for the pages behind the last entry of its root node.                   *)
(***************************************************************************)
ChainWithinLimits(path, chain) ==
  /\ FileSize <= WordSize
  /\ "root" \in file[Root].flags => ValidRootPage(file[Root])
  /\ Len(path) <= MaxDepth + 1 /\ \A i \in 2 .. Len(path) : ValidPage(file[path[i]])
  /\ Len(chain) <= MaxLeafPages + 1 /\ NumberInFirst(file, chain, Len(chain)) <= MaxInt
  /\ \A j, k \in DOMAIN chain : chain[j] = path[Len(path)] /\ k <= j => HasBlock(chain[k])

ChainIsAnswered ==
  faults = 0 /\ answer # NoAnswer =>
    \A path \in Descents, chain \in Chains : EndsOn(path, chain) /\ ChainWithinLimits(path, chain) =>
      answer = Success(NumberInFirst(file, chain, Len(chain)))

(* The number of records is that of the chain of leaf pages, and is        *)
(* answered whenever it can be                                             *)
(* (libesedb_page_tree_get_number_of_leaf_values).                         *)
CountIsExact == ChainIsCounted /\ ChainIsAnswered

(***************************************************************************)
(* In a well-formed file a completed walk has counted the live values of   *)
(* the tree and its descriptors map every index to the page of the value   *)
(* that is at that place in the order of the tree.                         *)
(***************************************************************************)
TreeIsCounted ==
  WalkCompleted /\ WellFormed(file, Root) =>
    LET values == LeafValues(file, Root) IN
    /\ leafCount = Len(values)
    /\ \A d \in descriptors : \A i \in IndexesOf(d) : values[i + 1][1] = d.page

(***************************************************************************)
(* A well-formed file within the limits, whose first leaf page has a       *)
(* block, is counted unless a read fails.                                  *)
(***************************************************************************)
WithinLimits ==
  LET pages == LeafPages(file, Root) IN
  /\ Len(pages) <= MaxLeafPages + 1
  /\ Len(LeafValues(file, Root)) <= MaxInt
  /\ LastPage <= MaxDepth + 1 /\ FileSize <= WordSize
  /\ HasBlock(pages[1])

TreeIsNotRefused ==
  answer.code = -1 => faults > 0 \/ ~ WellFormed(file, Root) \/ ~ WithinLimits

(* A well-formed tree is counted, and the count is that of its values in   *)
(* their order (libesedb_page_tree_get_number_of_leaf_values).             *)
WellFormedIsCounted == TreeIsCounted /\ TreeIsNotRefused

(***************************************************************************)
(* What the comment above the function says: 1 means that the number of    *)
(* leaf values is determined.                                              *)
(***************************************************************************)
SuccessMeansCounted ==
  answer.code = 1 /\ WellFormed(file, Root) => answer.count = Len(LeafValues(file, Root))

(***************************************************************************)
(* Every call ends, whatever the links say, when only leaf pages are       *)
(* linked: the walk back never reads a page twice and the walk forward has *)
(* a limit on the leaf pages it counts.                                    *)
(***************************************************************************)
OnlyLeavesLinked == \A p \in PageNumbers : IsLeafPage(file[p]) \/ file[p].next = 0

CallsEnd == (pc # "idle" /\ OnlyLeavesLinked) ~> (pc = "idle")

(***************************************************************************)
(* The limit on the number of leaf pages ends every walk, according to the *)
(* error it is reported with.                                              *)
(***************************************************************************)
EveryCallEnds == (pc # "idle") ~> (pc = "idle")
=============================================================================
