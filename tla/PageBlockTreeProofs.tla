------------------------ MODULE PageBlockTreeProofs ------------------------
(***************************************************************************)
(* Proofs about PageBlockTree for a file, pages and arrays of any size:    *)
(* the tree is sound, and every step of it is a step of PageSet or a       *)
(* stutter.                                                                *)
(***************************************************************************)
EXTENDS PageBlockTree, TLAPS, SequenceTheorems, WellFoundedInduction

USE TreeSizeAssumption, LeafSizeAssumption, SubNodesAssumption, MaxFailuresAssumption

LEMMA LessThan == \A a, b \in Nat : <<a, b>> \in OpToRel(<, Nat) \/ b <= a
BY DEF OpToRel

\* There is a first of some numbers.
LEMMA HasFirst ==
  ASSUME NEW S \in SUBSET Nat, S # {}
  PROVE  \E i \in S : \A j \in S : i <= j
<1>1. \E i \in S : \A j \in S : ~ (<<j, i>> \in OpToRel(<, Nat))
  BY NatLessThanWellFounded, WFMin
<1>. QED
  BY <1>1, LessThan

-----------------------------------------------------------------------------
(***************************************************************************)
(* The recursive definition of the sizes has a solution: tables of the     *)
(* first sizes exist for any level, agree, and make up the function.       *)
(***************************************************************************)
SizeTables(n) ==
  {table \in [0 .. n -> Nat] :
     table[0] = LeafSize /\ \A k \in 1 .. n : table[k] = SubNodes * table[k - 1]}

LEMMA SizeTablesExist == \A n \in Nat : SizeTables(n) # {}
<1>. DEFINE Without == {n \in Nat : SizeTables(n) = {}}
<1>1. ASSUME Without # {}
      PROVE  FALSE
  <2>1. PICK n \in Without : \A j \in Without : n <= j
    <3>1. Without \in SUBSET Nat
      OBVIOUS
    <3>. HIDE DEF Without
    <3>. QED
      BY <1>1, <3>1, HasFirst
  <2>2. n # 0
    <3>1. [k \in 0 .. 0 |-> LeafSize] \in SizeTables(0)
      BY DEF SizeTables
    <3>. QED
      BY <3>1
  <2>3. PICK table \in SizeTables(n - 1) : TRUE
    <3>1. n - 1 \in Nat /\ n - 1 \notin Without
      BY <2>1, <2>2
    <3>. QED
      BY <3>1
  <2>. DEFINE next == [k \in 0 .. n |-> IF k = n THEN SubNodes * table[n - 1] ELSE table[k]]
  <2>4. table \in [0 .. n - 1 -> Nat] /\ table[0] = LeafSize
        /\ \A k \in 1 .. n - 1 : table[k] = SubNodes * table[k - 1]
    BY <2>3 DEF SizeTables
  <2>5. next \in [0 .. n -> Nat]
    <3>1. table[n - 1] \in Nat
      BY <2>2, <2>4
    <3>2. SubNodes * table[n - 1] \in Nat
      BY <3>1
    <3>. QED
      BY <2>4, <3>2
  <2>6. next[0] = LeafSize
    BY <2>2, <2>4
  <2>7. ASSUME NEW k \in 1 .. n
        PROVE  next[k] = SubNodes * next[k - 1]
    <3>1. k - 1 \in 0 .. n - 1 /\ next[k - 1] = table[k - 1]
      OBVIOUS
    <3>2. CASE k = n
      BY <3>1, <3>2
    <3>3. CASE k # n
      <4>1. k \in 1 .. n - 1 /\ next[k] = table[k]
        BY <3>3
      <4>. QED
        BY <2>4, <3>1, <4>1
    <3>. QED
      BY <3>2, <3>3
  <2>8. next \in SizeTables(n)
    BY <2>5, <2>6, <2>7 DEF SizeTables
  <2>. QED
    BY <2>8
<1>. QED
  BY <1>1

LEMMA SizeTablesAgree ==
  ASSUME NEW m \in Nat, NEW n \in Nat, NEW f \in SizeTables(m), NEW g \in SizeTables(n)
  PROVE  \A k \in Nat : k <= m /\ k <= n => f[k] = g[k]
<1>. DEFINE Differ == {k \in Nat : k <= m /\ k <= n /\ f[k] # g[k]}
<1>1. ASSUME Differ # {}
      PROVE  FALSE
  <2>1. PICK k \in Differ : \A j \in Differ : k <= j
    <3>1. Differ \in SUBSET Nat
      OBVIOUS
    <3>. HIDE DEF Differ
    <3>. QED
      BY <1>1, <3>1, HasFirst
  <2>2. k # 0
    BY DEF SizeTables
  <2>3. k - 1 \in Nat /\ k - 1 \notin Differ
    BY <2>1, <2>2
  <2>4. f[k - 1] = g[k - 1]
    BY <2>3
  <2>5. f[k] = SubNodes * f[k - 1] /\ g[k] = SubNodes * g[k - 1]
    BY <2>2 DEF SizeTables
  <2>. QED
    BY <2>4, <2>5
<1>. QED
  BY <1>1

LEMMA NodeSizeIs ==
  /\ NodeSize \in [Nat -> Nat]
  /\ NodeSize[0] = LeafSize
  /\ \A k \in Nat : NodeSize[k + 1] = SubNodes * NodeSize[k]
<1>. DEFINE table(n) == CHOOSE t \in SizeTables(n) : TRUE
            Size == [n \in Nat |-> table(n)[n]]
            Solves(f) == f = [k \in Nat |-> IF k = 0 THEN LeafSize ELSE SubNodes * f[k - 1]]
<1>1. \A n \in Nat : table(n) \in SizeTables(n)
  BY SizeTablesExist
<1>2. \A n \in Nat : Size[n] = table(n)[n]
  OBVIOUS
<1>. HIDE DEF table
<1>3. Size[0] = LeafSize
  BY <1>1, <1>2 DEF SizeTables
<1>4. ASSUME NEW k \in Nat \ {0}
      PROVE  Size[k] = SubNodes * Size[k - 1]
  <2>1. k - 1 \in Nat /\ table(k) \in SizeTables(k) /\ table(k - 1) \in SizeTables(k - 1)
    BY <1>1
  <2>2. table(k)[k - 1] = table(k - 1)[k - 1]
    BY <2>1, SizeTablesAgree
  <2>3. table(k)[k] = SubNodes * table(k)[k - 1]
    BY <2>1 DEF SizeTables
  <2>. QED
    BY <1>2, <2>1, <2>2, <2>3
<1>5. Solves(Size)
  <2>1. \A k \in Nat : Size[k] = IF k = 0 THEN LeafSize ELSE SubNodes * Size[k - 1]
    BY <1>3, <1>4
  <2>2. Size = [k \in Nat |-> Size[k]]
    OBVIOUS
  <2>. HIDE DEF Size
  <2>. QED
    BY <2>1, <2>2
<1>6. Solves(NodeSize)
  <2>. HIDE DEF Size
  <2>. QED
    BY <1>5 DEF NodeSize
<1>7. \A k \in Nat : NodeSize[k] = IF k = 0 THEN LeafSize ELSE SubNodes * NodeSize[k - 1]
  BY <1>6
<1>8. NodeSize = Size
  <2>. DEFINE Differ == {k \in Nat : NodeSize[k] # Size[k]}
  <2>1. ASSUME Differ # {}
        PROVE  FALSE
    <3>1. PICK k \in Differ : \A j \in Differ : k <= j
      <4>1. Differ \in SUBSET Nat
        OBVIOUS
      <4>. HIDE DEF Differ
      <4>. QED
        BY <2>1, <4>1, HasFirst
    <3>2. k # 0
      BY <1>3, <1>7
    <3>3. k - 1 \in Nat /\ k - 1 \notin Differ
      BY <3>1, <3>2
    <3>. QED
      BY <1>4, <1>7, <3>2, <3>3, ZenonT(40)
  <2>2. \A k \in Nat : NodeSize[k] = Size[k]
    BY <2>1
  <2>3. NodeSize = [k \in Nat |-> NodeSize[k]]
    BY <1>6
  <2>. QED
    BY <2>2, <2>3
<1>9. Size \in [Nat -> Nat]
  <2>1. \A n \in Nat : table(n)[n] \in Nat
    BY <1>1 DEF SizeTables
  <2>. QED
    BY <2>1
<1>. QED
  BY <1>7, <1>8, <1>9

-----------------------------------------------------------------------------
(***************************************************************************)
(* Quotients: the arithmetic that the rest of the proof needs.             *)
(***************************************************************************)
LEMMA Quotient ==
  ASSUME NEW a \in Nat, NEW b \in Nat \ {0}
  PROVE  a \div b \in Nat /\ (a \div b) * b <= a /\ a < (a \div b) * b + b
<1>. a \div b \in Int /\ a = (a \div b) * b + (a % b) /\ a % b \in 0 .. b - 1
  OBVIOUS
<1>. QED
  OBVIOUS

LEMMA QuotientIs ==
  ASSUME NEW a \in Nat, NEW b \in Nat \ {0}, NEW q \in Nat, q * b <= a, a < q * b + b
  PROVE  a \div b = q
OBVIOUS

LEMMA Multiple ==
  ASSUME NEW m \in Nat, NEW b \in Nat \ {0}
  PROVE  (m * b) % b = 0
OBVIOUS

------------------------------------------------------------------------

LEMMA AtLeastTwice ==
  ASSUME NEW n \in Nat
  PROVE  SubNodes * n \in Nat /\ SubNodes * n >= 2 * n
<1>1. \A s \in Nat : \A d \in Nat : d = s - 2 => s * n = d * n + 2 * n /\ d * n \in Nat
  OBVIOUS
<1>2. SubNodes \in Nat /\ SubNodes - 2 \in Nat
  OBVIOUS
<1>. QED
  BY <1>1, <1>2

-----------------------------------------------------------------------------
(***************************************************************************)
(* The sizes grow with the level, and each is a number of leaf sizes.      *)
(***************************************************************************)
LEMMA SizeExceedsLevel == \A k \in Nat : NodeSize[k] \in Nat /\ NodeSize[k] > k
<1>. DEFINE Small == {k \in Nat : ~ (NodeSize[k] > k)}
<1>1. \A k \in Nat : NodeSize[k] \in Nat
  BY NodeSizeIs
<1>2. ASSUME Small # {}
      PROVE  FALSE
  <2>1. PICK k \in Small : \A j \in Small : k <= j
    <3>1. Small \in SUBSET Nat
      OBVIOUS
    <3>. HIDE DEF Small
    <3>. QED
      BY <1>2, <3>1, HasFirst
  <2>2. k # 0
    BY NodeSizeIs
  <2>3. k - 1 \in Nat /\ k - 1 \notin Small
    BY <2>1, <2>2
  <2>4. NodeSize[k - 1] \in Nat /\ NodeSize[k - 1] > k - 1
    BY <1>1, <2>3
  <2>5. NodeSize[k] = SubNodes * NodeSize[k - 1]
    <3>1. (k - 1) + 1 = k
      OBVIOUS
    <3>. QED
      BY <2>3, <3>1, NodeSizeIs
  <2>6. NodeSize[k] >= 2 * NodeSize[k - 1]
    BY <2>4, <2>5, AtLeastTwice
  <2>. QED
    BY <1>1, <2>2, <2>4, <2>6
<1>. QED
  BY <1>1, <1>2

LEMMA SizesGrow ==
  ASSUME NEW j \in Nat
  PROVE  \A k \in Nat : j < k => SubNodes * NodeSize[j] <= NodeSize[k]
<1>. DEFINE Small == {k \in Nat : j < k /\ ~ (SubNodes * NodeSize[j] <= NodeSize[k])}
<1>1. ASSUME Small # {}
      PROVE  FALSE
  <2>1. PICK k \in Small : \A i \in Small : k <= i
    <3>1. Small \in SUBSET Nat
      OBVIOUS
    <3>. HIDE DEF Small
    <3>. QED
      BY <1>1, <3>1, HasFirst
  <2>2. k - 1 \in Nat /\ k - 1 \notin Small
    BY <2>1
  <2>3. NodeSize[k] = SubNodes * NodeSize[k - 1]
    <3>1. (k - 1) + 1 = k
      OBVIOUS
    <3>. QED
      BY <2>2, <3>1, NodeSizeIs
  <2>4. SubNodes * NodeSize[j] \in Nat /\ NodeSize[k - 1] \in Nat
    BY <2>2, SizeExceedsLevel, AtLeastTwice
  <2>5. CASE j = k - 1
    BY <2>3, <2>4, <2>5
  <2>6. CASE j < k - 1
    <3>1. SubNodes * NodeSize[j] <= NodeSize[k - 1]
      BY <2>2, <2>6
    <3>2. NodeSize[k] >= 2 * NodeSize[k - 1] /\ NodeSize[k] \in Nat
      BY <2>3, <2>4, AtLeastTwice
    <3>. QED
      BY <2>4, <3>1, <3>2
  <2>. QED
    BY <2>5, <2>6
<1>. QED
  BY <1>1

LEMMA SizesAreMultiples == \A k \in Nat : \E m \in Nat : NodeSize[k] = m * LeafSize
<1>. DEFINE Others == {k \in Nat : \A m \in Nat : NodeSize[k] # m * LeafSize}
<1>1. ASSUME Others # {}
      PROVE  FALSE
  <2>1. PICK k \in Others : \A j \in Others : k <= j
    <3>1. Others \in SUBSET Nat
      OBVIOUS
    <3>. HIDE DEF Others
    <3>. QED
      BY <1>1, <3>1, HasFirst
  <2>2. k # 0
    <3>1. LeafSize = 1 * LeafSize
      OBVIOUS
    <3>. QED
      BY <3>1, NodeSizeIs
  <2>3. k - 1 \in Nat /\ k - 1 \notin Others
    BY <2>1, <2>2
  <2>4. PICK m \in Nat : NodeSize[k - 1] = m * LeafSize
    BY <2>3
  <2>5. NodeSize[k] = SubNodes * (m * LeafSize)
    <3>1. (k - 1) + 1 = k
      OBVIOUS
    <3>. QED
      BY <2>3, <2>4, <3>1, NodeSizeIs
  <2>6. SubNodes * (m * LeafSize) = (SubNodes * m) * LeafSize /\ SubNodes * m \in Nat
    OBVIOUS
  <2>. QED
    BY <2>5, <2>6
<1>. QED
  BY <1>1

-----------------------------------------------------------------------------
(***************************************************************************)
(* What libesedb_block_tree_node_initialize chooses: a size that leaves    *)
(* less than an entry of the node unreached and, for a node that is one    *)
(* entry of another one, a size of which SubNodes make up the node.        *)
(***************************************************************************)
LEMMA LeastFit ==
  ASSUME NEW size \in Nat \ {0}
  PROVE  \E k \in 0 .. size : Fits(size, k) /\ \A j \in 0 .. k - 1 : ~ Fits(size, j)
<1>. DEFINE Good == {k \in 0 .. size : Fits(size, k)}
<1>1. size \in Good
  <2>1. NodeSize[size] \in Nat /\ NodeSize[size] > size
    BY SizeExceedsLevel
  <2>2. size \div NodeSize[size] = 0
    BY <2>1, QuotientIs
  <2>. QED
    BY <2>2 DEF Fits
<1>2. PICK k \in Good : \A j \in Good : k <= j
  <2>1. Good \in SUBSET Nat
    OBVIOUS
  <2>. HIDE DEF Good
  <2>. QED
    BY <1>1, <2>1, HasFirst
<1>. QED
  BY <1>2

LEMMA SubNodeSizeIs ==
  ASSUME NEW size \in Nat \ {0}
  PROVE  \E k \in Nat : SubNodeSize(size) = NodeSize[k] /\ size < SubNodes * NodeSize[k] + NodeSize[k]
<1>. DEFINE level == CHOOSE k \in 0 .. size : Fits(size, k) /\ \A j \in 0 .. k - 1 : ~ Fits(size, j)
<1>1. level \in Nat /\ Fits(size, level)
  BY LeastFit
<1>2. SubNodeSize(size) = NodeSize[level]
  BY DEF SubNodeSize
<1>. HIDE DEF level
<1>3. NodeSize[level] \in Nat \ {0}
  BY <1>1, SizeExceedsLevel
<1>. DEFINE n == NodeSize[level]
            q == size \div NodeSize[level]
<1>4. q \in Nat /\ size < q * n + n /\ q <= SubNodes
  BY <1>1, <1>3, Quotient DEF Fits
<1>. HIDE DEF n, q
<1>5. n \in Nat
  BY <1>3 DEF n
<1>6. q * n <= SubNodes * n /\ q * n \in Nat /\ SubNodes * n \in Nat
  BY <1>4, <1>5
<1>7. size < SubNodes * n + n
  BY <1>4, <1>5, <1>6
<1>. QED
  BY <1>1, <1>2, <1>7 DEF n

LEMMA SubNodeSizeOfEntry ==
  ASSUME NEW k \in Nat
  PROVE  SubNodeSize(NodeSize[k + 1]) = NodeSize[k]
<1>. DEFINE size == NodeSize[k + 1]
<1>1. size = SubNodes * NodeSize[k] /\ size \in Nat /\ size > k + 1
  BY NodeSizeIs, SizeExceedsLevel
<1>2. NodeSize[k] \in Nat \ {0}
  BY SizeExceedsLevel
<1>3. Fits(size, k)
  <2>1. size \div NodeSize[k] = SubNodes
    BY <1>1, <1>2, QuotientIs
  <2>. QED
    BY <2>1 DEF Fits
<1>4. ASSUME NEW j \in 0 .. k - 1
      PROVE  ~ Fits(size, j)
  <2>1. NodeSize[j] \in Nat \ {0} /\ j \in Nat /\ j < k
    BY SizeExceedsLevel
  <2>2. SubNodes * NodeSize[j] <= NodeSize[k]
    BY <2>1, SizesGrow
  <2>. DEFINE n == NodeSize[j]
              q == size \div NodeSize[j]
  <2>3. q \in Nat /\ size < q * n + n /\ n \in Nat \ {0}
    BY <1>1, <2>1, Quotient
  <2>4. SubNodes * n <= NodeSize[k]
    BY <2>2
  <2>. HIDE DEF size, n, q
  <2>5. size >= 2 * (SubNodes * n)
    <3>1. SubNodes * NodeSize[k] >= 2 * NodeSize[k] /\ SubNodes * n \in Nat
      BY <1>2, <2>3, AtLeastTwice
    <3>. QED
      BY <1>1, <1>2, <2>4, <3>1
  <2>6. ASSUME q <= SubNodes
        PROVE  FALSE
    <3>1. q * n <= SubNodes * n /\ q * n \in Nat /\ SubNodes * n \in Nat
      BY <2>3, <2>6
    <3>2. SubNodes * n >= 2 * n
      BY <2>3, AtLeastTwice
    <3>. QED
      BY <1>1, <2>3, <2>5, <3>1, <3>2
  <2>. QED
    BY <2>3, <2>6 DEF Fits, q, size
<1>5. k \in 0 .. size
  BY <1>1
<1>. DEFINE level == CHOOSE i \in 0 .. size : Fits(size, i) /\ \A j \in 0 .. i - 1 : ~ Fits(size, j)
<1>6. level \in 0 .. size /\ Fits(size, level) /\ \A j \in 0 .. level - 1 : ~ Fits(size, j)
  BY <1>3, <1>4, <1>5
<1>7. SubNodeSize(size) = NodeSize[level]
  BY DEF SubNodeSize
<1>. HIDE DEF level, size
<1>8. level = k
  <2>1. ~ (level < k)
    BY <1>4, <1>6
  <2>2. ~ (k < level)
    BY <1>3, <1>6
  <2>. QED
    BY <1>1, <1>6, <2>1, <2>2
<1>. QED
  BY <1>7, <1>8 DEF size

-----------------------------------------------------------------------------
(***************************************************************************)
(* The inductive invariant.  TreeIsSound does not follow from a step: that *)
(* a new leaf node lies apart from all others needs the place of every     *)
(* node in the tree.  Any two nodes lie apart, or one lies in an entry of  *)
(* the other one; as an entry without a node has no node in it, there a    *)
(* node can be made.  What a node spans is a number of its entries, but    *)
(* for the root node, whose end is the end of the file.                    *)
(***************************************************************************)
EntryStart(path, i) == nodes[path].start + i * nodes[path].sub
EntryEnd(path, i) == nodes[path].start + i * nodes[path].sub + nodes[path].sub
Reached(path) == nodes[path].start + SubNodes * nodes[path].sub

Rooted ==
  /\ <<>> \in DOMAIN nodes
  /\ nodes[<<>>] = NewNode(0, TreeSize)

Sized ==
  \A path \in DOMAIN nodes :
    /\ \E k \in Nat : nodes[path].sub = NodeSize[k]
    /\ \E m \in Nat : nodes[path].start = m * LeafSize
    /\ path # <<>> => nodes[path].end = Reached(path)

Linked ==
  \A path \in DOMAIN nodes :
    path # <<>> =>
      \E parent \in DOMAIN nodes, i \in 0 .. SubNodes - 1 :
        /\ path = Append(parent, i)
        /\ nodes[path].start = EntryStart(parent, i)
        /\ nodes[path].end = EntryEnd(parent, i)

\* The first node lies in the i-th entry of the second one.
InEntry(inner, outer, i) ==
  /\ Append(outer, i) \in DOMAIN nodes
  /\ ~ IsLeaf(nodes[outer])
  /\ EntryStart(outer, i) <= nodes[inner].start
  /\ Reached(inner) <= EntryEnd(outer, i)

Inside(inner, outer) == \E i \in 0 .. SubNodes - 1 : InEntry(inner, outer, i)

Apart(p, q) == Reached(p) <= nodes[q].start \/ Reached(q) <= nodes[p].start

Nested ==
  /\ \A p \in DOMAIN nodes : p # <<>> => Inside(p, <<>>)
  /\ \A p, q \in DOMAIN nodes : p # q => Apart(p, q) \/ Inside(p, q) \/ Inside(q, p)

ValuesInLeaves == \A entry \in values : entry[1] \in LeafNodes

CursorAtOffset ==
  outcome = "busy" /\ cursor # <<>> => InNode(Here, request.offset) /\ HasBlock(TreeSize, request.offset)

\* The calls that are answered with an error are those for an offset without a block.
Answers == outcome # "busy" => (Refused <=> ~ HasBlock(TreeSize, request.offset))

Inv ==
  /\ TypeOK
  /\ Rooted
  /\ Sized
  /\ Linked
  /\ Nested
  /\ ValuesInLeaves
  /\ CursorAtOffset
  /\ Answers

-----------------------------------------------------------------------------
(***************************************************************************)
(* Facts about one state.                                                  *)
(***************************************************************************)
LEMMA NodeIsTyped ==
  ASSUME TypeOK, NEW path \in DOMAIN nodes
  PROVE  /\ nodes[path].start \in Nat
         /\ nodes[path].end \in Nat
         /\ nodes[path].sub \in Nat \ {0}
BY DEF TypeOK

\* A path has one last index.
LEMMA SamePath ==
  ASSUME TypeOK, NEW p \in DOMAIN nodes, NEW q \in DOMAIN nodes,
         NEW i \in 0 .. SubNodes - 1, NEW j \in 0 .. SubNodes - 1, Append(p, i) = Append(q, j)
  PROVE  p = q /\ i = j
<1>. DEFINE Indices == 0 .. SubNodes - 1
<1>1. p \in Seq(Indices) /\ q \in Seq(Indices) /\ i \in Indices /\ j \in Indices
  BY DEF TypeOK
<1>. HIDE DEF Indices
<1>. QED
  BY <1>1, AppendInjective

\* The offset of the call lies in the entry that the descent looks at.
LEMMA EntryAtOffset ==
  ASSUME Inv, Reachable
  PROVE  /\ Index \in 0 .. SubNodes - 1
         /\ request.offset \in Nat
         /\ EntryStart(cursor, Index) <= request.offset
         /\ request.offset < EntryEnd(cursor, Index)
<1>1. cursor \in DOMAIN nodes /\ request.offset \in Nat
  BY DEF Inv, TypeOK, Offsets
<1>2. Here.start \in Nat /\ Here.sub \in Nat \ {0}
  BY <1>1, NodeIsTyped DEF Inv, Here
<1>3. Here.start <= request.offset /\ Index \in 0 .. SubNodes - 1
  BY DEF Reachable, BadOffset, BadEntry, InNode, ValidEntry
<1>. DEFINE a == request.offset - Here.start
            b == Here.sub
<1>4. a \in Nat /\ b \in Nat \ {0} /\ request.offset = Here.start + a
  BY <1>1, <1>2, <1>3
<1>5. Index = a \div b
  BY DEF Index, EntryIndex
<1>. HIDE DEF a, b
<1>6. (a \div b) * b <= a /\ a < (a \div b) * b + b /\ a \div b \in Nat
  BY <1>4, Quotient
<1>7. EntryStart(cursor, Index) = Here.start + (a \div b) * b
      /\ EntryEnd(cursor, Index) = Here.start + (a \div b) * b + b
  BY <1>5 DEF EntryStart, EntryEnd, Here, b
<1>8. (a \div b) * b \in Nat
  BY <1>4, <1>6
<1>. QED
  BY <1>1, <1>2, <1>3, <1>4, <1>6, <1>7, <1>8

\* SubNodes entries make up the node for an entry that does not hold a leaf value.
LEMMA EntriesOfEntry ==
  ASSUME Inv, NEW path \in DOMAIN nodes, ~ IsLeaf(nodes[path])
  PROVE  \E k \in Nat : /\ SubNodeSize(nodes[path].sub) = NodeSize[k]
                        /\ nodes[path].sub = SubNodes * NodeSize[k]
<1>1. PICK j \in Nat : nodes[path].sub = NodeSize[j]
  BY DEF Inv, Sized
<1>2. j # 0
  BY <1>1, NodeSizeIs DEF IsLeaf
<1>3. j - 1 \in Nat /\ (j - 1) + 1 = j
  BY <1>2
<1>. QED
  BY <1>1, <1>3, NodeSizeIs, SubNodeSizeOfEntry

\* A node on the way down from the root node has an entry for every offset in it.
LEMMA EntryExists ==
  ASSUME Inv, outcome = "busy", ~ Reachable
  PROVE  ~ HasBlock(TreeSize, request.offset)
<1>1. cursor \in DOMAIN nodes /\ request.offset \in Nat
  BY DEF Inv, TypeOK, Offsets
<1>2. Here.start \in Nat /\ Here.sub \in Nat \ {0}
  BY <1>1, NodeIsTyped DEF Inv, Here
<1>3. CASE cursor = <<>>
  <2>1. Here.start = 0 /\ Here.end = TreeSize
    BY <1>3 DEF Inv, Rooted, Here, NewNode
  <2>2. CASE BadOffset
    BY <1>1, <2>1, <2>2 DEF BadOffset, InNode, HasBlock
  <2>3. CASE BadEntry
    <3>1. request.offset \div Here.sub \notin 0 .. SubNodes - 1
      BY <1>1, <2>1, <2>3 DEF BadEntry, ValidEntry, Index, EntryIndex
    <3>. DEFINE s == Here.sub
                q == request.offset \div Here.sub
    <3>2. q \in Nat /\ q * s <= request.offset
      BY <1>1, <1>2, Quotient
    <3>3. q >= SubNodes
      BY <3>1, <3>2
    <3>4. s \in Nat
      BY <1>2
    <3>. HIDE DEF q, s
    <3>5. SubNodes * s <= q * s /\ SubNodes * s \in Nat /\ q * s \in Nat
      BY <3>2, <3>3, <3>4
    <3>6. SubNodes * s <= request.offset
      BY <1>1, <3>2, <3>5
    <3>. QED
      BY <1>1, <1>3, <3>5, <3>6 DEF Inv, Rooted, Here, NewNode, HasBlock, s
  <2>. QED
    BY <2>2, <2>3 DEF Reachable
<1>4. CASE cursor # <<>>
  <2>1. InNode(Here, request.offset)
    BY <1>4 DEF Inv, CursorAtOffset
  <2>2. Here.end = Here.start + SubNodes * Here.sub
    BY <1>1, <1>4 DEF Inv, Sized, Here, Reached
  <2>3. Index \notin 0 .. SubNodes - 1
    BY <2>1 DEF Reachable, BadOffset, BadEntry, ValidEntry
  <2>. DEFINE a == request.offset - Here.start
              b == Here.sub
              q == a \div b
  <2>4. a \in Nat /\ a < SubNodes * b /\ b \in Nat \ {0}
    BY <1>1, <1>2, <2>1, <2>2 DEF InNode
  <2>5. q = Index
    BY DEF Index, EntryIndex
  <2>. HIDE DEF a, b
  <2>6. q \in Nat /\ q * b <= a
    BY <2>4, Quotient
  <2>. HIDE DEF q
  <2>7. q >= SubNodes
    BY <2>3, <2>5, <2>6
  <2>8. SubNodes * b <= q * b /\ SubNodes * b \in Nat /\ q * b \in Nat
    BY <2>4, <2>6, <2>7
  <2>. QED
    BY <2>4, <2>6, <2>8
<1>. QED
  BY <1>3, <1>4

\* An offset that the descent finds an entry for has a block.
LEMMA EntryIsBlock ==
  ASSUME Inv, outcome = "busy", Reachable
  PROVE  HasBlock(TreeSize, request.offset)
<1>1. CASE cursor = <<>>
  <2>1. cursor \in DOMAIN nodes /\ request.offset \in Nat
    BY DEF Inv, TypeOK, Offsets
  <2>2. Here.start = 0 /\ Here.end = TreeSize /\ Here.sub = SubNodeSize(TreeSize)
    BY <1>1 DEF Inv, Rooted, Here, NewNode
  <2>3. Index \in 0 .. SubNodes - 1 /\ request.offset < EntryEnd(cursor, Index)
    BY EntryAtOffset
  <2>. DEFINE s == Here.sub
              i == Index
  <2>4. s \in Nat \ {0} /\ i \in 0 .. SubNodes - 1
    BY <2>1, <2>3, NodeIsTyped DEF Inv, Here
  <2>5. request.offset < i * s + s
    <3>1. EntryEnd(cursor, Index) = 0 + i * s + s
      BY <2>2 DEF EntryEnd, Here
    <3>2. i * s \in Nat /\ 0 + i * s + s = i * s + s
      BY <2>4
    <3>. QED
      BY <2>3, <3>1, <3>2
  <2>. HIDE DEF s, i
  <2>6. PICK m \in Nat : SubNodes = i + 1 + m
    <3>1. SubNodes - 1 - i \in Nat /\ SubNodes = i + 1 + (SubNodes - 1 - i)
      BY <2>4
    <3>. QED
      BY <3>1
  <2>7. SubNodes * s = i * s + s + m * s /\ i * s \in Nat /\ m * s \in Nat
    BY <2>4, <2>6
  <2>8. request.offset < SubNodes * s
    BY <2>1, <2>4, <2>5, <2>7
  <2>9. request.offset < TreeSize
    BY <2>2 DEF Reachable, BadOffset, InNode
  <2>. QED
    BY <2>2, <2>8, <2>9 DEF HasBlock, s
<1>2. CASE cursor # <<>>
  BY <1>2 DEF Inv, CursorAtOffset
<1>. QED
  BY <1>1, <1>2

-----------------------------------------------------------------------------
(***************************************************************************)
(* The invariant implies what TreeIsSound says.                            *)
(***************************************************************************)
LEMMA InvIsSound == Inv => TreeIsSound
<1>. SUFFICES ASSUME Inv
              PROVE  TreeIsSound
  OBVIOUS
<1>1. ASSUME NEW p1 \in LeafNodes
      PROVE  nodes[p1].start % LeafSize = 0
  <2>1. PICK m \in Nat : nodes[p1].start = m * LeafSize
    BY DEF Inv, Sized, LeafNodes
  <2>. QED
    BY <2>1, Multiple
<1>2. ASSUME NEW p1 \in LeafNodes, NEW p2 \in LeafNodes, p1 # p2
      PROVE  nodes[p1].end <= nodes[p2].start \/ nodes[p2].end <= nodes[p1].start
  <2>1. p1 \in DOMAIN nodes /\ p2 \in DOMAIN nodes /\ IsLeaf(nodes[p1]) /\ IsLeaf(nodes[p2])
    BY DEF LeafNodes
  <2>2. ~ Inside(p1, p2) /\ ~ Inside(p2, p1)
    BY <2>1 DEF Inside, InEntry
  <2>3. Apart(p1, p2)
    BY <1>2, <2>1, <2>2 DEF Inv, Nested
  <2>4. p1 # <<>> /\ p2 # <<>>
    BY <1>2, <2>1, <2>2 DEF Inv, Nested
  <2>5. nodes[p1].end = Reached(p1) /\ nodes[p2].end = Reached(p2)
    BY <2>1, <2>4 DEF Inv, Sized
  <2>. QED
    BY <2>3, <2>5 DEF Apart
<1>3. LeafNodesApart
  BY <1>1, <1>2 DEF LeafNodesApart
<1>4. TreeSize < SubNodes * nodes[<<>>].sub + nodes[<<>>].sub
  <2>1. PICK k \in Nat : SubNodeSize(TreeSize) = NodeSize[k]
                         /\ TreeSize < SubNodes * NodeSize[k] + NodeSize[k]
    BY SubNodeSizeIs
  <2>2. nodes[<<>>].sub = NodeSize[k]
    BY <2>1 DEF Inv, Rooted, NewNode
  <2>. QED
    BY <2>1, <2>2
<1>. QED
  BY <1>3, <1>4 DEF Inv, Answers, TreeIsSound, EveryPageHasAnEntry

LEMMA InitInv == Init => Inv
<1>. SUFFICES ASSUME Init
              PROVE  Inv
  OBVIOUS
<1>1. DOMAIN nodes = {<<>>} /\ nodes[<<>>] = NewNode(0, TreeSize)
  BY DEF Init
<1>2. PICK k \in Nat : SubNodeSize(TreeSize) = NodeSize[k]
  BY SubNodeSizeIs
<1>3. nodes[<<>>].start = 0 /\ nodes[<<>>].end = TreeSize /\ nodes[<<>>].sub = NodeSize[k]
  BY <1>1, <1>2 DEF NewNode
<1>4. NodeSize[k] \in Nat \ {0}
  BY SizeExceedsLevel
<1>5. TypeOK
  <2>1. NewNode(0, TreeSize) \in [start : Nat, end : Nat, sub : Nat \ {0}]
    BY <1>2, <1>4 DEF NewNode
  <2>2. <<>> \in Seq(0 .. SubNodes - 1)
    OBVIOUS
  <2>. QED
    BY <1>1, <2>1, <2>2 DEF Init, TypeOK, Outcomes, Offsets
<1>6. Rooted
  BY <1>1 DEF Rooted
<1>7. Sized
  <2>1. 0 = 0 * LeafSize
    OBVIOUS
  <2>. QED
    BY <1>1, <1>3, <2>1 DEF Sized
<1>8. Linked /\ Nested
  BY <1>1 DEF Linked, Nested
<1>9. ValuesInLeaves /\ CursorAtOffset
  BY DEF Init, ValuesInLeaves, CursorAtOffset
<1>10. Answers
  <2>1. SubNodes * NodeSize[k] > 0
    BY <1>4
  <2>2. HasBlock(TreeSize, 0)
    BY <1>2, <2>1 DEF HasBlock
  <2>. QED
    BY <2>2 DEF Init, Answers, Refused
<1>. QED
  BY <1>5, <1>6, <1>7, <1>8, <1>9, <1>10 DEF Inv

-----------------------------------------------------------------------------
(***************************************************************************)
(* Every step keeps the invariant.                                         *)
(***************************************************************************)
LEMMA SameNodes ==
  ASSUME Inv, UNCHANGED nodes
  PROVE  Rooted' /\ Sized' /\ Linked' /\ Nested'
<1>1. Rooted'
  BY DEF Inv, Rooted
<1>2. Sized'
  BY DEF Inv, Sized, Reached
<1>3. Linked'
  BY DEF Inv, Linked, EntryStart, EntryEnd
<1>4. Nested'
  BY DEF Inv, Nested, Apart, Inside, InEntry, IsLeaf, EntryStart, EntryEnd, Reached
<1>. QED
  BY <1>1, <1>2, <1>3, <1>4

LEMMA BeginInv ==
  ASSUME Inv, NEW op \in {"insert", "get"}, NEW offset \in Offsets, Begin(op, offset)
  PROVE  Inv'
<1>1. UNCHANGED nodes /\ UNCHANGED values
  BY DEF Begin
<1>2. TypeOK'
  BY <1>1 DEF Inv, TypeOK, Begin, Rooted, Outcomes
<1>3. ValuesInLeaves'
  BY <1>1 DEF Inv, ValuesInLeaves, LeafNodes, IsLeaf
<1>4. CursorAtOffset' /\ Answers'
  BY DEF Begin, CursorAtOffset, Answers
<1>. QED
  BY <1>1, <1>2, <1>3, <1>4, SameNodes DEF Inv

\* A call that ends, with an error exactly when the offset has no block.
LEMMA FinishInv ==
  ASSUME Inv, NEW how \in Outcomes, how # "busy", Finish(how), UNCHANGED nodes,
         values' \subseteq (DOMAIN nodes) \X (0 .. SubNodes - 1),
         \A entry \in values' : entry[1] \in LeafNodes,
         failures' \in 0 .. MaxFailures,
         how \in {"out of range", "invalid entry"} <=> ~ HasBlock(TreeSize, request.offset)
  PROVE  Inv'
<1>1. UNCHANGED request /\ UNCHANGED cursor /\ outcome' = how
  BY DEF Finish
<1>2. TypeOK'
  BY <1>1 DEF Inv, TypeOK
<1>3. ValuesInLeaves'
  BY DEF ValuesInLeaves, LeafNodes, IsLeaf
<1>4. CursorAtOffset' /\ Answers'
  BY <1>1 DEF CursorAtOffset, Answers, Refused
<1>. QED
  BY <1>2, <1>3, <1>4, SameNodes DEF Inv

LEMMA DescendInv == Inv /\ Descend => Inv'
<1>. SUFFICES ASSUME Inv, Descend
              PROVE  Inv'
  OBVIOUS
<1>1. UNCHANGED <<nodes, values, request, outcome, failures>> /\ cursor' = SubPath /\ SubPath \in DOMAIN nodes
      /\ Reachable /\ cursor \in DOMAIN nodes
  BY DEF Descend, Inv, TypeOK
<1>2. TypeOK'
  BY <1>1 DEF Inv, TypeOK
<1>3. ValuesInLeaves'
  BY <1>1 DEF Inv, ValuesInLeaves, LeafNodes, IsLeaf
<1>4. Answers'
  BY <1>1 DEF Inv, Answers, Descend
<1>5. CursorAtOffset'
  <2>1. Index \in 0 .. SubNodes - 1 /\ EntryStart(cursor, Index) <= request.offset
        /\ request.offset < EntryEnd(cursor, Index)
    BY <1>1, EntryAtOffset
  <2>2. SubPath = Append(cursor, Index) /\ SubPath # <<>>
    BY <1>1, <2>1, AppendProperties DEF SubPath, Inv, TypeOK
  <2>3. PICK parent \in DOMAIN nodes, i \in 0 .. SubNodes - 1 :
          /\ SubPath = Append(parent, i)
          /\ nodes[SubPath].start = EntryStart(parent, i)
          /\ nodes[SubPath].end = EntryEnd(parent, i)
    BY <1>1, <2>2 DEF Inv, Linked
  <2>4. parent = cursor /\ i = Index
    <3>1. TypeOK /\ cursor \in DOMAIN nodes /\ Append(parent, i) = Append(cursor, Index)
      BY <1>1, <2>2, <2>3 DEF Inv
    <3>. QED
      BY <2>1, <3>1, SamePath
  <2>5. InNode(nodes[SubPath], request.offset)
    BY <2>1, <2>3, <2>4 DEF InNode
  <2>6. HasBlock(TreeSize, request.offset)
    BY <1>1, EntryIsBlock DEF Descend
  <2>. QED
    BY <1>1, <2>5, <2>6 DEF CursorAtOffset, Here, InNode
<1>. QED
  BY <1>1, <1>2, <1>3, <1>4, <1>5, SameNodes DEF Inv

(***************************************************************************)
(* An insert makes the node for an entry.  Whatever holds the node of the  *)
(* entry holds the new node, what lies apart from it lies apart from the   *)
(* new node, and what lies in it lies in another entry.                    *)
(***************************************************************************)
LEMMA InsertMakesNodeInv == Inv /\ InsertMakesNode => Inv'
<1>. SUFFICES ASSUME Inv, InsertMakesNode
              PROVE  Inv'
  OBVIOUS
<1>1. PICK c, i, new : c = cursor /\ i = Index /\ new = SubPath
  OBVIOUS
<1>2. /\ UNCHANGED <<values, request, outcome, failures>> /\ cursor' = new
      /\ c \in DOMAIN nodes /\ i \in 0 .. SubNodes - 1 /\ ~ IsLeaf(nodes[c])
      /\ new = Append(c, i) /\ new \notin DOMAIN nodes
  <2>1. cursor \in DOMAIN nodes /\ ~ IsLeaf(Here) /\ Reachable /\ SubPath \notin DOMAIN nodes
    BY DEF InsertMakesNode, Inv, TypeOK
  <2>2. Index \in 0 .. SubNodes - 1
    BY <2>1, EntryAtOffset
  <2>. QED
    BY <1>1, <2>1, <2>2 DEF InsertMakesNode, SubPath, Here
<1>3. /\ EntryStart(c, i) <= request.offset
      /\ request.offset < EntryEnd(c, i)
  <2>1. Reachable
    BY DEF InsertMakesNode
  <2>. QED
    BY <1>1, <2>1, EntryAtOffset
<1>4. /\ DOMAIN nodes' = DOMAIN nodes \union {new}
      /\ \A path \in DOMAIN nodes : nodes'[path] = nodes[path]
      /\ nodes'[new] = NewNode(EntryStart(c, i), nodes[c].sub)
  BY <1>1, <1>2 DEF InsertMakesNode, SubNodeStart, EntryStart, Here
<1>5. PICK k \in Nat : SubNodeSize(nodes[c].sub) = NodeSize[k] /\ nodes[c].sub = SubNodes * NodeSize[k]
  BY <1>2, EntriesOfEntry
<1>6. /\ nodes'[new].start = EntryStart(c, i)
      /\ nodes'[new].end = EntryEnd(c, i)
      /\ nodes'[new].sub = NodeSize[k]
  BY <1>4, <1>5 DEF NewNode, EntryStart, EntryEnd
<1>7. nodes[c].start \in Nat /\ nodes[c].sub \in Nat \ {0} /\ NodeSize[k] \in Nat \ {0}
  BY <1>2, NodeIsTyped, SizeExceedsLevel DEF Inv
<1>8. EntryStart(c, i) \in Nat /\ EntryEnd(c, i) \in Nat
      /\ EntryEnd(c, i) = EntryStart(c, i) + SubNodes * NodeSize[k]
  <2>1. i \in Nat
    BY <1>2
  <2>2. i * nodes[c].sub \in Nat
    BY <1>7, <2>1
  <2>. QED
    BY <1>5, <1>7, <2>2 DEF EntryStart, EntryEnd
<1>9. new # <<>> /\ new \in Seq(0 .. SubNodes - 1)
  <2>1. c \in Seq(0 .. SubNodes - 1) /\ i \in 0 .. SubNodes - 1 /\ new = Append(c, i)
    BY <1>2 DEF Inv, TypeOK
  <2>. HIDE DEF Inv
  <2>. QED
    BY ONLY <2>1, AppendProperties, SMTT(30)
<1>10. TypeOK'
  <2>1. DOMAIN nodes' \subseteq Seq(0 .. SubNodes - 1)
    BY <1>4, <1>9 DEF Inv, TypeOK
  <2>2. nodes'[new] \in [start : Nat, end : Nat, sub : Nat \ {0}]
    <3>1. nodes'[new] = [start |-> EntryStart(c, i), end |-> EntryEnd(c, i), sub |-> NodeSize[k]]
      BY <1>4, <1>5 DEF NewNode, EntryStart, EntryEnd
    <3>. QED
      BY <1>7, <1>8, <3>1
  <2>3. \A path \in DOMAIN nodes' : nodes'[path] \in [start : Nat, end : Nat, sub : Nat \ {0}]
    BY <1>4, <2>2 DEF Inv, TypeOK
  <2>4. values' \subseteq (DOMAIN nodes') \X (0 .. SubNodes - 1) /\ cursor' \in DOMAIN nodes'
    BY <1>2, <1>4 DEF Inv, TypeOK
  <2>. QED
    BY <1>2, <2>1, <2>3, <2>4 DEF Inv, TypeOK
<1>11. Rooted'
  BY <1>4, <1>9 DEF Inv, Rooted
<1>12. Sized'
  <2>1. \E m \in Nat : nodes'[new].start = m * LeafSize
    <3>1. PICK m \in Nat : nodes[c].start = m * LeafSize
      BY <1>2 DEF Inv, Sized
    <3>2. PICK s \in Nat : nodes[c].sub = s * LeafSize
      <4>1. PICK j \in Nat : nodes[c].sub = NodeSize[j]
        BY <1>2 DEF Inv, Sized
      <4>. QED
        BY <4>1, SizesAreMultiples
    <3>3. i \in Nat
      BY <1>2
    <3>4. EntryStart(c, i) = (m + i * s) * LeafSize /\ m + i * s \in Nat
      BY <3>1, <3>2, <3>3 DEF EntryStart
    <3>. QED
      BY <1>6, <3>4
  <2>2. nodes'[new].end = Reached(new)'
    BY <1>6, <1>8 DEF Reached
  <2>3. ASSUME NEW path \in DOMAIN nodes
        PROVE  /\ \E j \in Nat : nodes'[path].sub = NodeSize[j]
               /\ \E m \in Nat : nodes'[path].start = m * LeafSize
               /\ path # <<>> => nodes'[path].end = nodes'[path].start + SubNodes * nodes'[path].sub
    BY <1>4 DEF Inv, Sized, Reached
  <2>. QED
    BY <1>4, <1>6, <2>1, <2>2, <2>3 DEF Sized, Reached
<1>13. Linked'
  <2>1. ASSUME NEW path \in DOMAIN nodes, path # <<>>
        PROVE  \E parent \in DOMAIN nodes', j \in 0 .. SubNodes - 1 :
                 /\ path = Append(parent, j)
                 /\ nodes'[path].start = EntryStart(parent, j)'
                 /\ nodes'[path].end = EntryEnd(parent, j)'
    <3>1. PICK parent \in DOMAIN nodes, j \in 0 .. SubNodes - 1 :
            /\ path = Append(parent, j)
            /\ nodes[path].start = EntryStart(parent, j)
            /\ nodes[path].end = EntryEnd(parent, j)
      BY <2>1 DEF Inv, Linked
    <3>. QED
      BY <1>4, <3>1 DEF EntryStart, EntryEnd
  <2>2. \E parent \in DOMAIN nodes', j \in 0 .. SubNodes - 1 :
          /\ new = Append(parent, j)
          /\ nodes'[new].start = EntryStart(parent, j)'
          /\ nodes'[new].end = EntryEnd(parent, j)'
    BY <1>2, <1>4, <1>6 DEF EntryStart, EntryEnd
  <2>. QED
    BY <1>4, <2>1, <2>2 DEF Linked
<1>14. Nested'
  <2>1. \A p, q \in DOMAIN nodes : Apart(p, q) => Apart(p, q)'
    BY <1>4 DEF Apart, Reached
  <2>2. \A p, q \in DOMAIN nodes : Inside(p, q) => Inside(p, q)'
    BY <1>4 DEF Inside, InEntry, IsLeaf, EntryStart, EntryEnd, Reached
  <2>3. Reached(new)' = EntryEnd(c, i)
    BY <1>6, <1>8 DEF Reached
  <2>4. Inside(new, c)'
    <3>1. InEntry(new, c, i)'
      BY <1>2, <1>4, <1>6, <1>8, <2>3 DEF InEntry, IsLeaf, EntryStart, EntryEnd
    <3>. QED
      BY <1>2, <3>1 DEF Inside
  <2>5. nodes[c].start <= EntryStart(c, i) /\ EntryEnd(c, i) <= Reached(c) /\ Reached(c) \in Nat
    <3>. DEFINE s == nodes[c].sub
    <3>1. i \in Nat /\ i + 1 <= SubNodes /\ s \in Nat
      BY <1>2, <1>7
    <3>. HIDE DEF s
    <3>2. i * s \in Nat /\ (i + 1) * s <= SubNodes * s /\ (i + 1) * s = i * s + s /\ SubNodes * s \in Nat
      BY <3>1
    <3>. QED
      BY <1>7, <3>1, <3>2 DEF EntryStart, EntryEnd, Reached, s
  <2>6. ASSUME NEW p \in DOMAIN nodes, Inside(c, p)
        PROVE  Inside(new, p)'
    <3>1. PICK j \in 0 .. SubNodes - 1 : InEntry(c, p, j)
      BY <2>6 DEF Inside
    <3>2. nodes[p].start \in Nat /\ nodes[p].sub \in Nat /\ j \in Nat
      BY NodeIsTyped DEF Inv
    <3>3. EntryStart(p, j) \in Nat /\ EntryEnd(p, j) \in Nat
      <4>1. j * nodes[p].sub \in Nat
        BY <3>2
      <4>. QED
        BY <3>2, <4>1 DEF EntryStart, EntryEnd
    <3>4. EntryStart(p, j) <= EntryStart(c, i) /\ EntryEnd(c, i) <= EntryEnd(p, j)
      BY <1>7, <1>8, <2>5, <3>1, <3>3 DEF InEntry
    <3>5. EntryStart(p, j)' = EntryStart(p, j) /\ EntryEnd(p, j)' = EntryEnd(p, j)
      BY <1>4 DEF EntryStart, EntryEnd
    <3>6. InEntry(new, p, j)'
      BY <1>4, <1>6, <2>3, <3>1, <3>4, <3>5 DEF InEntry, IsLeaf
    <3>. QED
      BY <3>6 DEF Inside
  <2>7. ASSUME NEW p \in DOMAIN nodes, Apart(c, p)
        PROVE  Apart(new, p)' /\ Apart(p, new)'
    <3>1. nodes[p].start \in Nat /\ nodes[p].sub \in Nat
      BY NodeIsTyped DEF Inv
    <3>2. Reached(p) \in Nat
      BY <3>1 DEF Reached
    <3>3. EntryEnd(c, i) <= nodes[p].start \/ Reached(p) <= EntryStart(c, i)
      BY <1>7, <1>8, <2>5, <2>7, <3>1, <3>2 DEF Apart
    <3>4. Reached(p)' = Reached(p) /\ nodes'[p].start = nodes[p].start
      BY <1>4 DEF Reached
    <3>. QED
      BY <1>6, <2>3, <3>3, <3>4 DEF Apart
  <2>8. ASSUME NEW p \in DOMAIN nodes, Inside(p, c)
        PROVE  Apart(new, p)' /\ Apart(p, new)'
    <3>1. PICK j \in 0 .. SubNodes - 1 : InEntry(p, c, j)
      BY <2>8 DEF Inside
    <3>2. j # i
      BY <1>2, <3>1 DEF InEntry
    <3>3. nodes[p].start \in Nat /\ nodes[p].sub \in Nat
      BY NodeIsTyped DEF Inv
    <3>4. Reached(p) \in Nat
      BY <3>3 DEF Reached
    <3>. DEFINE s == nodes[c].sub
    <3>5. i \in Nat /\ j \in Nat /\ s \in Nat
      BY <1>2, <1>7
    <3>. HIDE DEF s
    <3>6. i * s \in Nat /\ j * s \in Nat
      BY <3>5
    <3>7. i < j => i * s + s <= j * s
      <4>1. ASSUME i < j
            PROVE  (i + 1) * s <= j * s /\ (i + 1) * s = i * s + s
        BY <3>5, <4>1
      <4>. QED
        BY <4>1
    <3>8. j < i => j * s + s <= i * s
      <4>1. ASSUME j < i
            PROVE  (j + 1) * s <= i * s /\ (j + 1) * s = j * s + s
        BY <3>5, <4>1
      <4>. QED
        BY <4>1
    <3>9. EntryEnd(c, i) <= EntryStart(c, j) \/ EntryEnd(c, j) <= EntryStart(c, i)
      BY <1>7, <3>2, <3>5, <3>6, <3>7, <3>8 DEF EntryStart, EntryEnd, s
    <3>10. EntryStart(c, j) \in Nat /\ EntryEnd(c, j) \in Nat
      BY <1>7, <3>5, <3>6 DEF EntryStart, EntryEnd, s
    <3>11. EntryEnd(c, i) <= nodes[p].start \/ Reached(p) <= EntryStart(c, i)
      BY <1>8, <3>1, <3>3, <3>4, <3>9, <3>10 DEF InEntry
    <3>12. Reached(p)' = Reached(p) /\ nodes'[p].start = nodes[p].start
      BY <1>4 DEF Reached
    <3>. QED
      BY <1>6, <2>3, <3>11, <3>12 DEF Apart
  <2>9. \A p \in DOMAIN nodes : p = c \/ Apart(c, p) \/ Inside(c, p) \/ Inside(p, c)
    BY <1>2 DEF Inv, Nested
  <2>10. \A p \in DOMAIN nodes :
           /\ Apart(new, p)' \/ Inside(new, p)'
           /\ Apart(p, new)' \/ Inside(new, p)'
    BY <2>4, <2>6, <2>7, <2>8, <2>9
  <2>11. Inside(new, <<>>)'
    BY <1>2, <2>4, <2>6 DEF Inv, Nested, Rooted
  <2>12. \A p \in DOMAIN nodes' : p # <<>> => Inside(p, <<>>)'
    BY <1>4, <2>2, <2>11 DEF Inv, Nested, Rooted
  <2>13. \A p, q \in DOMAIN nodes' : p # q => Apart(p, q)' \/ Inside(p, q)' \/ Inside(q, p)'
    BY <1>4, <2>1, <2>2, <2>10 DEF Inv, Nested
  <2>. QED
    BY <2>12, <2>13 DEF Nested
<1>15. ValuesInLeaves'
  BY <1>2, <1>4 DEF Inv, ValuesInLeaves, LeafNodes, IsLeaf
<1>16. CursorAtOffset'
  BY <1>2, <1>3, <1>6, EntryIsBlock DEF CursorAtOffset, Here, InNode, InsertMakesNode
<1>17. Answers'
  BY <1>2 DEF Answers, InsertMakesNode
<1>. QED
  BY <1>10, <1>11, <1>12, <1>13, <1>14, <1>15, <1>16, <1>17 DEF Inv

LEMMA NextInv == Inv /\ [Next]_vars => Inv'
<1>. SUFFICES ASSUME Inv, [Next]_vars
              PROVE  Inv'
  OBVIOUS
<1>0. /\ values \subseteq (DOMAIN nodes) \X (0 .. SubNodes - 1)
      /\ \A entry \in values : entry[1] \in LeafNodes
      /\ failures \in 0 .. MaxFailures /\ cursor \in DOMAIN nodes
  BY DEF Inv, TypeOK, ValuesInLeaves
<1>1. ASSUME NEW op \in {"insert", "get"}, NEW offset \in Offsets, Begin(op, offset)
      PROVE  Inv'
  BY <1>1, BeginInv
<1>2. CASE RejectOffset
  <2>1. ~ HasBlock(TreeSize, request.offset)
    BY <1>2, EntryExists DEF RejectOffset
  <2>2. PICK how \in {"out of range", "invalid entry"} : Finish(how)
    BY <1>2 DEF RejectOffset
  <2>3. how \in Outcomes /\ how # "busy" /\ UNCHANGED nodes /\ values' = values /\ failures' = failures
    BY <1>2 DEF RejectOffset, Outcomes
  <2>. QED
    BY <1>0, <2>1, <2>2, <2>3, FinishInv
<1>3. CASE Descend
  BY <1>3, DescendInv
<1>4. CASE GetMissingNode
  <2>1. Finish("absent") /\ UNCHANGED nodes /\ values' = values /\ failures' = failures
    BY <1>4 DEF GetMissingNode
  <2>2. HasBlock(TreeSize, request.offset)
    BY <1>4, EntryIsBlock DEF GetMissingNode
  <2>. QED
    BY <1>0, <2>1, <2>2, FinishInv DEF Outcomes
<1>5. CASE InsertMakesNode
  BY <1>5, InsertMakesNodeInv
<1>6. CASE InsertRunsOutOfMemory
  <2>1. Finish("no memory") /\ UNCHANGED nodes /\ values' = values
    BY <1>6 DEF InsertRunsOutOfMemory
  <2>2. failures' \in 0 .. MaxFailures
    <3>1. failures < MaxFailures /\ failures' = failures + 1
      BY <1>6 DEF InsertRunsOutOfMemory
    <3>. QED
      BY <1>0, <3>1
  <2>3. HasBlock(TreeSize, request.offset)
    BY <1>6, EntryIsBlock DEF InsertRunsOutOfMemory
  <2>. QED
    BY <1>0, <2>1, <2>2, <2>3, FinishInv DEF Outcomes
<1>7. CASE GetValue
  <2>1. PICK how \in {"found", "absent"} : Finish(how)
    BY <1>7 DEF GetValue
  <2>2. UNCHANGED nodes /\ values' = values /\ failures' = failures
    BY <1>7 DEF GetValue
  <2>3. HasBlock(TreeSize, request.offset)
    BY <1>7, EntryIsBlock DEF GetValue
  <2>. QED
    BY <1>0, <2>1, <2>2, <2>3, FinishInv DEF Outcomes
<1>8. CASE InsertValue
  <2>1. PICK how \in {"already set", "inserted"} : Finish(how)
    BY <1>8 DEF InsertValue
  <2>2. UNCHANGED nodes /\ values' = values \union {<<cursor, Index>>} /\ failures' = failures
    BY <1>8 DEF InsertValue, Entry
  <2>3. Index \in 0 .. SubNodes - 1 /\ cursor \in LeafNodes
    BY <1>0, <1>8, EntryAtOffset DEF InsertValue, LeafNodes, Here
  <2>4. ASSUME NEW entry \in values'
        PROVE  entry \in (DOMAIN nodes) \X (0 .. SubNodes - 1) /\ entry[1] \in LeafNodes
    <3>1. CASE entry \in values
      BY <1>0, <3>1
    <3>2. CASE entry = <<cursor, Index>>
      BY <1>0, <2>3, <3>2
    <3>. QED
      BY <2>2, <3>1, <3>2
  <2>5. failures' \in 0 .. MaxFailures
    BY <1>0, <2>2
  <2>6. HasBlock(TreeSize, request.offset)
    BY <1>8, EntryIsBlock DEF InsertValue
  <2>. QED
    BY <2>1, <2>2, <2>4, <2>5, <2>6, FinishInv DEF Outcomes
<1>9. CASE UNCHANGED vars
  <2>1. UNCHANGED <<nodes, values, request, cursor, outcome, failures>>
    BY <1>9 DEF vars
  <2>2. TypeOK'
    BY <2>1 DEF Inv, TypeOK
  <2>3. ValuesInLeaves' /\ CursorAtOffset' /\ Answers'
    BY <2>1 DEF Inv, ValuesInLeaves, LeafNodes, IsLeaf, CursorAtOffset, Here, Answers, Refused
  <2>. QED
    BY <2>1, <2>2, <2>3, SameNodes DEF Inv
<1>. QED
  BY <1>1, <1>2, <1>3, <1>4, <1>5, <1>6, <1>7, <1>8, <1>9 DEF Next

(***************************************************************************)
(* The tree partitions the pages of the file, whatever the sizes of the    *)
(* file, the pages and the arrays, and whatever allocations fail: its leaf *)
(* nodes start at a page and lie apart, and the offsets that are refused    *)
(* are those without a block (libesedb_block_tree_insert_block_descriptor_by_offset *)
(* in libesedb_block_tree.c).                                              *)
(***************************************************************************)
THEOREM Soundness == Spec => []TreeIsSound
<1>1. Inv => TreeIsSound
  BY InvIsSound
<1>. QED
  BY <1>1, InitInv, NextInv, PTL DEF Spec

-----------------------------------------------------------------------------
(***************************************************************************)
(* What PageSet takes for the marked blocks are the values: the entry at   *)
(* which the descent arrives has a descriptor when the block is marked,    *)
(* and where the descent finds no node the block is not marked.            *)
(***************************************************************************)
Marked == {BlockOfEntry(entry) : entry \in values}

LEMMA BlockBefore ==
  ASSUME NEW offset \in Nat, NEW k \in Nat, offset < k * LeafSize
  PROVE  Block(offset) \in Nat /\ Block(offset) < k
<1>. DEFINE q == offset \div LeafSize
<1>1. q \in Nat /\ q * LeafSize <= offset
  BY Quotient
<1>. HIDE DEF q
<1>2. ASSUME k <= q
      PROVE  FALSE
  <2>1. k * LeafSize <= q * LeafSize /\ k * LeafSize \in Nat /\ q * LeafSize \in Nat
    BY <1>1, <1>2
  <2>. QED
    BY <1>1, <2>1
<1>. QED
  BY <1>1, <1>2 DEF Block, q

LEMMA BlockFrom ==
  ASSUME NEW offset \in Nat, NEW k \in Nat, k * LeafSize <= offset
  PROVE  Block(offset) \in Nat /\ Block(offset) >= k
<1>. DEFINE q == offset \div LeafSize
<1>1. q \in Nat /\ offset < q * LeafSize + LeafSize
  BY Quotient
<1>. HIDE DEF q
<1>2. ASSUME q < k
      PROVE  FALSE
  <2>1. (q + 1) * LeafSize <= k * LeafSize /\ (q + 1) * LeafSize = q * LeafSize + LeafSize
        /\ k * LeafSize \in Nat /\ q * LeafSize \in Nat
    BY <1>1, <1>2
  <2>. QED
    BY <1>1, <2>1
<1>. QED
  BY <1>1, <1>2 DEF Block, q

\* The i-th entry of a leaf node is for the i-th block from its start.
LEMMA EntryBlock ==
  ASSUME Inv, NEW path \in LeafNodes, NEW i \in 0 .. SubNodes - 1, NEW m \in Nat,
         nodes[path].start = m * LeafSize
  PROVE  /\ BlockOfEntry(<<path, i>>) = m + i
         /\ Reached(path) = (m + SubNodes) * LeafSize
<1>1. nodes[path].sub = LeafSize
  BY DEF LeafNodes, IsLeaf
<1>2. nodes[path].start + i * LeafSize = (m + i) * LeafSize /\ m + i \in Nat
  OBVIOUS
<1>3. ((m + i) * LeafSize) \div LeafSize = m + i
  <2>. DEFINE k == m + i
              a == k * LeafSize
  <2>1. k \in Nat /\ a \in Nat /\ k * LeafSize <= a /\ a < k * LeafSize + LeafSize
    BY <1>2
  <2>. HIDE DEF k, a
  <2>2. a \div LeafSize = k
    BY <2>1, QuotientIs
  <2>. QED
    BY <2>2 DEF k, a
<1>4. BlockOfEntry(<<path, i>>) = m + i
  BY <1>2, <1>3 DEF BlockOfEntry, Block
<1>5. m * LeafSize + SubNodes * LeafSize = (m + SubNodes) * LeafSize
  OBVIOUS
<1>. QED
  BY <1>1, <1>4, <1>5 DEF Reached

\* A leaf node on another path is for other offsets.
LEMMA OffsetElsewhere ==
  ASSUME Inv, Reachable, IsLeaf(Here) \/ SubPath \notin DOMAIN nodes,
         NEW path \in LeafNodes, path # cursor
  PROVE  request.offset < nodes[path].start \/ Reached(path) <= request.offset
<1>1. /\ cursor \in DOMAIN nodes /\ path \in DOMAIN nodes /\ IsLeaf(nodes[path])
      /\ request.offset \in Nat
  BY DEF Inv, TypeOK, Offsets, LeafNodes
<1>2. /\ Index \in 0 .. SubNodes - 1
      /\ EntryStart(cursor, Index) <= request.offset
      /\ request.offset < EntryEnd(cursor, Index)
  BY EntryAtOffset
<1>. DEFINE start == nodes[cursor].start
            s == nodes[cursor].sub
            i == Index
            first == nodes[path].start
            last == Reached(path)
            offset == request.offset
<1>3. start \in Nat /\ s \in Nat \ {0} /\ i \in 0 .. SubNodes - 1 /\ first \in Nat /\ last \in Nat
  <2>1. nodes[path].start \in Nat /\ nodes[path].sub \in Nat
    BY <1>1, NodeIsTyped DEF Inv
  <2>2. SubNodes * nodes[path].sub \in Nat
    BY <2>1
  <2>. QED
    BY <1>1, <1>2, <2>1, <2>2, NodeIsTyped DEF Inv, Reached
<1>4. start + i * s <= offset /\ offset < start + i * s + s
  BY <1>2 DEF EntryStart, EntryEnd
<1>5. CASE Apart(cursor, path)
  <2>1. start + SubNodes * s <= first \/ last <= start
    BY <1>5 DEF Apart, Reached
  <2>. HIDE DEF start, s, i, first, last, offset
  <2>2. i * s \in Nat /\ (i + 1) * s <= SubNodes * s /\ (i + 1) * s = i * s + s /\ SubNodes * s \in Nat
    BY <1>3
  <2>3. offset < first \/ last <= offset
    BY <1>1, <1>3, <1>4, <2>1, <2>2 DEF offset
  <2>. QED
    BY <2>3 DEF first, last, offset
<1>6. CASE Inside(path, cursor)
  <2>1. PICK j \in 0 .. SubNodes - 1 : InEntry(path, cursor, j)
    BY <1>6 DEF Inside
  <2>2. j # i
    BY <2>1 DEF InEntry, SubPath, Here
  <2>3. start + j * s <= first /\ last <= start + j * s + s
    BY <2>1 DEF InEntry, EntryStart, EntryEnd
  <2>. HIDE DEF start, s, i, first, last, offset
  <2>4. i * s \in Nat /\ j * s \in Nat
    BY <1>3
  <2>5. ASSUME i < j
        PROVE  offset < first
    <3>1. (i + 1) * s <= j * s /\ (i + 1) * s = i * s + s
      BY <1>3, <2>5
    <3>. QED
      BY <1>1, <1>3, <1>4, <2>3, <2>4, <3>1 DEF offset
  <2>6. ASSUME j < i
        PROVE  last <= offset
    <3>1. (j + 1) * s <= i * s /\ (j + 1) * s = j * s + s
      BY <1>3, <2>6
    <3>. QED
      BY <1>1, <1>3, <1>4, <2>3, <2>4, <3>1 DEF offset
  <2>7. offset < first \/ last <= offset
    BY <1>3, <2>2, <2>5, <2>6
  <2>. QED
    BY <2>7 DEF first, last, offset
<1>7. ~ Inside(cursor, path)
  BY <1>1 DEF Inside, InEntry
<1>. QED
  BY <1>1, <1>5, <1>6, <1>7 DEF Inv, Nested

LEMMA BlockElsewhere ==
  ASSUME Inv, Reachable, IsLeaf(Here) \/ SubPath \notin DOMAIN nodes,
         NEW entry \in values, entry[1] # cursor
  PROVE  BlockOfEntry(entry) # Block(request.offset)
<1>1. PICK path \in LeafNodes, i \in 0 .. SubNodes - 1 : entry = <<path, i>> /\ path # cursor
  BY DEF Inv, TypeOK, ValuesInLeaves
<1>2. PICK m \in Nat : nodes[path].start = m * LeafSize
  BY DEF LeafNodes, Inv, Sized
<1>3. BlockOfEntry(entry) = m + i /\ Reached(path) = (m + SubNodes) * LeafSize
  BY <1>1, <1>2, EntryBlock
<1>4. request.offset \in Nat
  BY DEF Inv, TypeOK, Offsets
<1>5. CASE request.offset < nodes[path].start
  BY <1>2, <1>3, <1>4, <1>5, BlockBefore
<1>6. CASE Reached(path) <= request.offset
  <2>1. Block(request.offset) >= m + SubNodes /\ Block(request.offset) \in Nat
    BY <1>3, <1>4, <1>6, BlockFrom
  <2>. QED
    BY <1>3, <2>1
<1>. QED
  BY <1>1, <1>5, <1>6, OffsetElsewhere

LEMMA MissingIsUnmarked ==
  ASSUME Inv, Reachable, ~ IsLeaf(Here), SubPath \notin DOMAIN nodes
  PROVE  Block(request.offset) \notin Marked
<1>1. ASSUME NEW entry \in values
      PROVE  BlockOfEntry(entry) # Block(request.offset)
  <2>1. entry[1] # cursor
    BY DEF Inv, ValuesInLeaves, LeafNodes, Here
  <2>. QED
    BY <2>1, BlockElsewhere
<1>. QED
  BY <1>1 DEF Marked

LEMMA MarkedIsValue ==
  ASSUME Inv, Reachable, IsLeaf(Here)
  PROVE  /\ BlockOfEntry(Entry) = Block(request.offset)
         /\ Block(request.offset) \in Marked <=> Entry \in values
<1>1. cursor \in LeafNodes /\ request.offset \in Nat
  BY DEF Inv, TypeOK, Offsets, LeafNodes, Here
<1>2. /\ Index \in 0 .. SubNodes - 1
      /\ EntryStart(cursor, Index) <= request.offset
      /\ request.offset < EntryEnd(cursor, Index)
  BY EntryAtOffset
<1>3. PICK m \in Nat : nodes[cursor].start = m * LeafSize
  BY <1>1 DEF LeafNodes, Inv, Sized
<1>4. \A i \in 0 .. SubNodes - 1 : BlockOfEntry(<<cursor, i>>) = m + i
  BY <1>1, <1>3, EntryBlock
<1>5. Block(request.offset) = m + Index
  <2>1. nodes[cursor].sub = LeafSize
    BY DEF IsLeaf, Here
  <2>. DEFINE k == m + Index
              offset == request.offset
  <2>2. k \in Nat /\ offset \in Nat
    BY <1>1, <1>2
  <2>3. Index \in Nat
    BY <1>2
  <2>4. k * LeafSize = m * LeafSize + Index * LeafSize
    BY <2>3
  <2>5. k * LeafSize <= offset /\ offset < k * LeafSize + LeafSize
    BY <1>2, <1>3, <2>1, <2>4 DEF EntryStart, EntryEnd
  <2>. HIDE DEF k, offset
  <2>6. offset \div LeafSize = k
    BY <2>2, <2>5, QuotientIs
  <2>. QED
    BY <2>6 DEF k, offset, Block
<1>6. BlockOfEntry(Entry) = Block(request.offset)
  BY <1>2, <1>4, <1>5 DEF Entry
<1>7. ASSUME NEW entry \in values, BlockOfEntry(entry) = Block(request.offset)
      PROVE  entry = Entry
  <2>1. entry[1] = cursor
    BY <1>7, BlockElsewhere
  <2>2. PICK i \in 0 .. SubNodes - 1 : entry = <<cursor, i>>
    BY <2>1 DEF Inv, TypeOK
  <2>3. m + i = m + Index
    BY <1>4, <1>5, <1>7, <2>2
  <2>4. i = Index
    BY <1>2, <2>3
  <2>. QED
    BY <2>2, <2>4 DEF Entry
<1>. QED
  BY <1>6, <1>7 DEF Marked

-----------------------------------------------------------------------------
(***************************************************************************)
(* Every step of the tree is a step of PageSet or leaves what PageSet sees *)
(* as it is.                                                               *)
(***************************************************************************)
LEMMA BusyIs == Answer = 2 <=> outcome = "busy"
<1>1. CASE outcome = "busy"
  BY <1>1 DEF Answer
<1>2. CASE outcome \in {"found", "inserted"}
  <2>1. Answer = 1 /\ outcome # "busy"
    BY <1>2 DEF Answer
  <2>. QED
    BY <2>1
<1>3. CASE outcome \in {"absent", "already set"}
  <2>1. Answer = 0 /\ outcome # "busy"
    BY <1>3 DEF Answer
  <2>. QED
    BY <2>1
<1>4. CASE outcome \notin {"busy", "found", "inserted", "absent", "already set"}
  <2>1. Answer = -1 /\ outcome # "busy"
    BY <1>4 DEF Answer
  <2>. QED
    BY <2>1
<1>. QED
  BY <1>1, <1>2, <1>3, <1>4

LEMMA SameMarks ==
  ASSUME Inv, UNCHANGED values, \A path \in DOMAIN nodes : nodes'[path] = nodes[path]
  PROVE  Marked' = Marked
<1>1. \A entry \in values : entry[1] \in DOMAIN nodes
  BY DEF Inv, ValuesInLeaves, LeafNodes
<1>. QED
  BY <1>1 DEF Marked, BlockOfEntry

LEMMA InitIsAbstract == Init => Abstract!Init
BY DEF Init, Abstract!Init, Answer

LEMMA StepIsAbstract == Inv /\ Inv' /\ [Next]_vars => [Abstract!Next]_(Abstract!vars)
<1>. SUFFICES ASSUME Inv, [Next]_vars
              PROVE  Abstract!Next \/ UNCHANGED <<Marked, request, Answer>>
  BY DEF Abstract!vars, Marked
<1>0. Answer = 2 <=> outcome = "busy"
  BY BusyIs
<1>1. ASSUME NEW op \in {"insert", "get"}, NEW offset \in Offsets, Begin(op, offset)
      PROVE  Abstract!Next
  <2>1. Answer' = 2 /\ Answer # 2 /\ request' = [op |-> op, offset |-> offset]
    BY <1>0, <1>1 DEF Begin, Answer
  <2>2. Marked' = Marked
    BY <1>1, SameMarks DEF Begin
  <2>3. Abstract!Begin(op, offset)
    BY <2>1, <2>2 DEF Abstract!Begin, Abstract!Busy, Marked
  <2>. QED
    BY <2>3 DEF Abstract!Next, Abstract!Offsets, Offsets
<1>2. CASE RejectOffset
  <2>1. Answer = 2 /\ Answer' = -1 /\ UNCHANGED request
    BY <1>0, <1>2 DEF RejectOffset, Finish, Answer
  <2>2. Marked' = Marked
    BY <1>2, SameMarks DEF RejectOffset
  <2>. QED
    BY <2>1, <2>2 DEF Abstract!Next, Abstract!ReplyError, Abstract!Busy, Marked
<1>3. CASE Descend
  <2>1. Answer' = Answer /\ UNCHANGED request
    BY <1>3 DEF Descend, Answer
  <2>2. Marked' = Marked
    BY <1>3, SameMarks DEF Descend
  <2>. QED
    BY <2>1, <2>2
<1>4. CASE GetMissingNode
  <2>1. Answer = 2 /\ Answer' = 0 /\ UNCHANGED request /\ request.op = "get"
    BY <1>0, <1>4 DEF GetMissingNode, Finish, Answer
  <2>2. Marked' = Marked
    BY <1>4, SameMarks DEF GetMissingNode
  <2>3. Block(request.offset) \notin Marked
    BY <1>4, MissingIsUnmarked DEF GetMissingNode
  <2>4. Abstract!ReplyGet
    BY <2>1, <2>2, <2>3 DEF Abstract!ReplyGet, Abstract!Busy, Abstract!Block, Block, Marked
  <2>. QED
    BY <2>4 DEF Abstract!Next
<1>5. CASE InsertMakesNode
  <2>1. Answer' = Answer /\ UNCHANGED request
    BY <1>5 DEF InsertMakesNode, Answer
  <2>2. UNCHANGED values /\ \A path \in DOMAIN nodes : nodes'[path] = nodes[path]
    BY <1>5 DEF InsertMakesNode
  <2>3. Marked' = Marked
    BY <2>2, SameMarks
  <2>. QED
    BY <2>1, <2>3
<1>6. CASE InsertRunsOutOfMemory
  <2>1. Answer = 2 /\ Answer' = -1 /\ UNCHANGED request
    BY <1>0, <1>6 DEF InsertRunsOutOfMemory, Finish, Answer
  <2>2. Marked' = Marked
    BY <1>6, SameMarks DEF InsertRunsOutOfMemory
  <2>. QED
    BY <2>1, <2>2 DEF Abstract!Next, Abstract!ReplyError, Abstract!Busy, Marked
<1>7. CASE GetValue
  <2>1. Answer = 2 /\ UNCHANGED request /\ request.op = "get"
        /\ Answer' = IF Entry \in values THEN 1 ELSE 0
    BY <1>0, <1>7 DEF GetValue, Finish, Answer
  <2>2. Marked' = Marked
    BY <1>7, SameMarks DEF GetValue
  <2>3. Block(request.offset) \in Marked <=> Entry \in values
    BY <1>7, MarkedIsValue DEF GetValue
  <2>4. Abstract!ReplyGet
    BY <2>1, <2>2, <2>3 DEF Abstract!ReplyGet, Abstract!Busy, Abstract!Block, Block, Marked
  <2>. QED
    BY <2>4 DEF Abstract!Next
<1>8. CASE InsertValue
  <2>1. Answer = 2 /\ UNCHANGED request /\ request.op = "insert"
        /\ Answer' = IF Entry \in values THEN 0 ELSE 1
    BY <1>0, <1>8 DEF InsertValue, Finish, Answer
  <2>2. /\ BlockOfEntry(Entry) = Block(request.offset)
        /\ Block(request.offset) \in Marked <=> Entry \in values
    BY <1>8, MarkedIsValue DEF InsertValue
  <2>3. Marked' = Marked \union {Block(request.offset)}
    <3>1. values' = values \union {Entry} /\ UNCHANGED nodes
      BY <1>8 DEF InsertValue
    <3>2. Marked' = {BlockOfEntry(entry) : entry \in values \union {Entry}}
      BY <3>1 DEF Marked, BlockOfEntry
    <3>. QED
      BY <2>2, <3>2 DEF Marked
  <2>4. Abstract!ReplyInsert
    BY <2>1, <2>2, <2>3 DEF Abstract!ReplyInsert, Abstract!Busy, Abstract!Block, Block, Marked
  <2>. QED
    BY <2>4 DEF Abstract!Next
<1>9. CASE UNCHANGED vars
  <2>1. UNCHANGED <<nodes, values, request, outcome>>
    BY <1>9 DEF vars
  <2>2. Marked' = Marked
    BY <2>1, SameMarks
  <2>. QED
    BY <2>1, <2>2 DEF Answer
<1>. QED
  BY <1>1, <1>2, <1>3, <1>4, <1>5, <1>6, <1>7, <1>8, <1>9 DEF Next

(***************************************************************************)
(* The block tree is a set of blocks: an insert answers 1 the first time   *)
(* and 0 ever after, a look-up answers 1 exactly for what was inserted,    *)
(* and a failed call marks nothing, for any sizes and in any order of the  *)
(* calls (libesedb_block_tree.c).  That every call is answered is liveness *)
(* and is not part of the theorem.                                         *)
(***************************************************************************)
THEOREM Refinement == Spec => Abstract!Spec
<1>1. Init => Abstract!Init
  BY InitIsAbstract
<1>2. Inv /\ Inv' /\ [Next]_vars => [Abstract!Next]_(Abstract!vars)
  BY StepIsAbstract
<1>3. Spec => []Inv
  BY InitInv, NextInv, PTL DEF Spec
<1>. QED
  BY <1>1, <1>2, <1>3, PTL DEF Spec, Abstract!Spec
=============================================================================
