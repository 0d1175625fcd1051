--------------------------- MODULE LeafWalkProofs ---------------------------
(***************************************************************************)
(* Proofs about LeafWalk and LeafByIndex for every file, every limit and   *)
(* any number of failing reads: that the descriptors of the leaf pages     *)
(* tile the indexes that are counted and no page is counted twice, that a  *)
(* count is that of the chain of leaf pages the descent ends at, and that  *)
(* a value that is retrieved by its index is the one with that index.      *)
(***************************************************************************)
EXTENDS LeafByIndex, FiniteSetTheorems, SequenceTheorems, WellFoundedInduction, TLAPS

(***************************************************************************)
(* The live values of a page can be counted.                               *)
(***************************************************************************)
LEMMA LiveValuesNat ==
  ASSUME NEW page \in Page
  PROVE  NumberOfLiveValues(page) \in Nat
<1>1. PICK n \in Nat : DOMAIN page.values = 1 .. n
  BY DEF Page
<1>2. LivePositions(page) \subseteq 1 .. n
  BY <1>1 DEF LivePositions
<1>3. IsFiniteSet(1 .. n)
  BY <1>1, FS_Interval
<1>4. IsFiniteSet(LivePositions(page))
  BY <1>2, <1>3, FS_Subset
<1>. QED
  BY <1>4, FS_CardinalityType DEF NumberOfLiveValues

(***************************************************************************)
(* The offset of a page is a natural number: it does not leave the word.   *)
(***************************************************************************)
LEMMA PageOffsetNat ==
  ASSUME NEW number \in Nat
  PROVE  PageOffset(number) \in Nat
<1>1. (number + 1) * PageSize \in Nat
  BY PageSizeAssumption
<1>. QED
  BY <1>1, WordSizeAssumption DEF PageOffset

-----------------------------------------------------------------------------
(***************************************************************************)
(* Type correctness: whatever the pages hold, every step keeps the types   *)
(* (libesedb_page_tree_get_number_of_leaf_values and what it calls).  It   *)
(* needs CountKeepsUp: a descriptor starts at a natural number because the *)
(* count is no longer -1 when the walk forward makes one.                  *)
(***************************************************************************)
TypeInv == TypeOK /\ CountKeepsUp

LEMMA InitTypeInv == Init => TypeInv
BY FilesAssumption, LimitsAssumption
   DEF Init, TypeInv, TypeOK, CountKeepsUp, NoAnswer, PageNumbers

LEMMA HerePage ==
  ASSUME TypeOK, at \in PageNumbers
  PROVE  Here \in Page /\ Here.prev \in Nat /\ Here.next \in Nat
BY DEF TypeOK, File, Here, Page

(***************************************************************************)
(* What counting a leaf page adds: a total that is not below the former,   *)
(* and a descriptor of the page for the indexes between the two.           *)
(***************************************************************************)
LEMMA CountLeafAdds ==
  ASSUME TypeInv, CountLeaf
  PROVE  /\ at \in PageNumbers
         /\ leafCount \in Nat
         /\ NewTotal \in Nat /\ leafCount <= NewTotal
         /\ NewDescriptor \in Descriptor
         /\ NewDescriptor.page = at
         /\ NewDescriptor.first = leafCount
         /\ NewDescriptor.last = NewTotal - 1
<1>1. at \in PageNumbers
  BY DEF CountLeaf, ForwardRejected, Readable
<1>2. leafCount \in Nat /\ total = leafCount
  BY DEF CountLeaf, TypeInv, TypeOK, CountKeepsUp
<1>3. NumberOfLiveValues(Here) \in Nat
  BY <1>1, HerePage, LiveValuesNat DEF TypeInv
<1>4. NewTotal \in Nat /\ leafCount <= NewTotal
  BY <1>2, <1>3 DEF NewTotal
<1>. QED
  BY <1>1, <1>2, <1>4 DEF NewDescriptor, Descriptor

LEMMA NextTypeInv ==
  ASSUME TypeInv, [Next]_vars
  PROVE  TypeInv'
<1>. USE DEF TypeInv, TypeOK, CountKeepsUp
<1>1. CASE UNCHANGED vars
  BY <1>1 DEF vars, walkVars
<1>2. CASE CachedCount
  BY <1>2 DEF CachedCount, Success
<1>3. CASE StartCount
  BY <1>3, RootAssumption DEF StartCount, PageNumbers
<1>4. ASSUME Fail, pc # "idle", seen' \subseteq Nat, faults' \in 0 .. MaxFaults
      PROVE  TypeInv'
  BY <1>4 DEF Fail, Error
<1>5. CASE ReadRoot
  BY <1>5 DEF ReadRoot
<1>6. CASE ReadRootFails \/ DescendFails \/ WalkBackRevisits \/ CountFails
  BY <1>4, <1>6 DEF ReadRootFails, DescendFails, WalkBackRevisits, CountFails
<1>7. CASE DescendToChild
  BY <1>7, RootAssumption DEF DescendToChild, PageNumbers
<1>8. CASE DescentEnds
  BY <1>8 DEF DescentEnds
<1>9. CASE WalkBack
  <2>1. PageOffset(at) \in Nat
    BY PageOffsetNat
  <2>2. Here.prev \in Nat
    BY <1>9, HerePage DEF WalkBack, Readable
  <2>. QED
    BY <1>9, <2>1, <2>2 DEF WalkBack
<1>10. CASE WalkBackCannotRead
  <2>1. PageOffset(at) \in Nat
    BY PageOffsetNat
  <2>. QED
    BY <1>4, <1>10, <2>1 DEF WalkBackCannotRead
<1>11. CASE WalkBackEnds
  BY <1>11 DEF WalkBackEnds
<1>12. CASE CountLeaf
  <2>1. /\ at \in PageNumbers
        /\ NewTotal \in Nat
        /\ NewDescriptor \in Descriptor
    BY <1>12, CountLeafAdds
  <2>2. Here.next \in Nat
    BY <2>1, HerePage
  <2>. QED
    BY <1>12, <2>1, <2>2 DEF CountLeaf
<1>13. CASE PassOver
  BY <1>13, HerePage DEF PassOver, ForwardRejected, Readable
<1>14. CASE CountEnds
  BY <1>14 DEF CountEnds, Success
<1>15. CASE ReadFault
  <2>1. PageOffset(at) \in Nat
    BY PageOffsetNat
  <2>2. seen' \subseteq Nat
    BY <1>15, <2>1 DEF ReadFault
  <2>3. faults' \in 0 .. MaxFaults
    BY <1>15, LimitsAssumption DEF ReadFault
  <2>. QED
    BY <1>4, <1>15, <2>2, <2>3 DEF ReadFault
<1>. QED
  BY <1>1, <1>2, <1>3, <1>5, <1>6, <1>7, <1>8, <1>9, <1>10, <1>11, <1>12, <1>13, <1>14, <1>15
     DEF Next, Step

(***************************************************************************)
(* The variables of the count keep their types in every file and after any *)
(* number of failed calls (libesedb_page_tree_get_number_of_leaf_values).  *)
(***************************************************************************)
THEOREM TypeCorrect == Spec => []TypeOK
<1>1. Spec => []TypeInv
  BY InitTypeInv, NextTypeInv, PTL DEF Spec
<1>. QED
  BY <1>1, PTL DEF TypeInv

(***************************************************************************)
(* The count in the page tree keeps up with the walk in every file.        *)
(***************************************************************************)
THEOREM CountAlwaysKeepsUp == Spec => []CountKeepsUp
<1>1. Spec => []TypeInv
  BY InitTypeInv, NextTypeInv, PTL DEF Spec
<1>. QED
  BY <1>1, PTL DEF TypeInv

-----------------------------------------------------------------------------
(***************************************************************************)
(* Only CountLeaf changes the descriptors, and it adds one behind all the  *)
(* others.                                                                 *)
(***************************************************************************)
LEMMA OthersKeepDescriptors ==
  ASSUME [Next]_vars, ~ CountLeaf, ~ StartCount
  PROVE  UNCHANGED <<descriptors, leafCount>>
BY DEF Next, Step, CachedCount, ReadRoot, ReadRootFails, DescendToChild, DescendFails,
       DescentEnds, WalkBack, WalkBackRevisits, WalkBackCannotRead, WalkBackEnds,
       PassOver, CountFails, CountEnds, ReadFault, Fail, vars, walkVars

LEMMA TileStep ==
  ASSUME TypeInv, DescriptorsTile, [Next]_vars
  PROVE  DescriptorsTile'
<1>1. CASE CountLeaf
  <2>. DEFINE new == NewDescriptor
  <2>1. /\ leafCount \in Nat
        /\ NewTotal \in Nat /\ leafCount <= NewTotal
        /\ new.first = leafCount
        /\ new.last = NewTotal - 1
    BY <1>1, CountLeafAdds
  <2>2. descriptors' = descriptors \union {new} /\ leafCount' = NewTotal
    BY <1>1 DEF CountLeaf
  <2>3. \A d \in descriptors : d.first \in Nat /\ d.last \in Int /\ d.last < leafCount
    BY DEF DescriptorsTile, TypeInv, TypeOK, Descriptor
  <2>. HIDE DEF new
  <2>4. \A i \in 0 .. leafCount' - 1 : \E d \in descriptors' : i \in IndexesOf(d)
    <3>1. TAKE i \in 0 .. leafCount' - 1
    <3>2. CASE i \in 0 .. leafCount - 1
      BY <2>2, <3>2 DEF DescriptorsTile
    <3>3. CASE i \notin 0 .. leafCount - 1
      BY <2>1, <2>2, <3>3 DEF IndexesOf
    <3>. QED
      BY <3>2, <3>3
  <2>5. \A d \in descriptors' : d.last < leafCount'
    BY <2>1, <2>2, <2>3
  <2>6. \A d \in descriptors : IndexesOf(d) \intersect IndexesOf(new) = {}
    BY <2>1, <2>3 DEF IndexesOf
  <2>7. \A d1, d2 \in descriptors' : d1 # d2 => IndexesOf(d1) \intersect IndexesOf(d2) = {}
    BY <2>2, <2>6 DEF DescriptorsTile
  <2>. QED
    BY <2>4, <2>5, <2>7 DEF DescriptorsTile, IndexesOf
<1>2. CASE StartCount
  BY <1>2 DEF StartCount, DescriptorsTile, IndexesOf, TypeInv, CountKeepsUp
<1>3. CASE ~ CountLeaf /\ ~ StartCount
  BY <1>3, OthersKeepDescriptors DEF DescriptorsTile, IndexesOf
<1>. QED
  BY <1>1, <1>2, <1>3

(***************************************************************************)
(* In every file, and after failed calls too, each index below the count   *)
(* is in the range of exactly one descriptor and no range goes beyond the  *)
(* count (the leaf page descriptors of libesedb_page_tree.c).              *)
(***************************************************************************)
THEOREM DescriptorsAlwaysTile == Spec => []DescriptorsTile
<1>1. Init => DescriptorsTile
  BY DEF Init, DescriptorsTile
<1>. QED
  BY <1>1, InitTypeInv, NextTypeInv, TileStep, PTL DEF Spec

LEMMA TileRefusesNone == TypeInv /\ DescriptorsTile => NoDescriptorRefused
<1>1. SUFFICES ASSUME TypeInv, DescriptorsTile, CountingLeaf, NEW d \in descriptors
               PROVE  ~ SameRange(NewDescriptor, d)
  BY DEF NoDescriptorRefused
<1>2. leafCount \in Nat
  BY <1>1 DEF CountingLeaf, TypeInv, TypeOK, CountKeepsUp
<1>3. d.last \in Int /\ d.last < leafCount
  BY <1>1 DEF TypeInv, TypeOK, Descriptor, DescriptorsTile
<1>4. NewDescriptor.first = leafCount
  BY DEF NewDescriptor
<1>. QED
  BY <1>2, <1>3, <1>4 DEF SameRange

(***************************************************************************)
(* The tree of descriptors refuses none as equal to one it already holds   *)
(* (libesedb_leaf_page_descriptor_compare), in every file.                 *)
(***************************************************************************)
THEOREM NoDescriptorIsEverRefused == Spec => []NoDescriptorRefused
BY InitTypeInv, NextTypeInv, DescriptorsAlwaysTile, TileRefusesNone, PTL DEF Spec

-----------------------------------------------------------------------------
(***************************************************************************)
(* The walk forward depends on nothing but the page it is at, so one that  *)
(* counts a page twice goes round for ever.  PagesPassed says so without a *)
(* history: there is a set of pages, with those that are counted, that no  *)
(* next link leaves but for the page the walk is at, and once a page is    *)
(* counted twice not even that.                                            *)
(***************************************************************************)
CountedOnce == \A d1, d2 \in descriptors : d1.page = d2.page => d1 = d2

PassedPages(pages) ==
  /\ \A d \in descriptors : d.page \in pages
  /\ \A p \in pages : file[p].next \in pages \union {at}
  /\ CountedOnce \/ at \in pages

PagesPassed == pc = "forward" => \E pages \in SUBSET PageNumbers : PassedPages(pages)

LEMMA OthersDoNotWalkForward ==
  ASSUME [Next]_vars, ~ CountLeaf, ~ PassOver, ~ WalkBackEnds, pc' = "forward"
  PROVE  pc = "forward" /\ UNCHANGED <<file, descriptors, at, leafPages>>
BY DEF Next, Step, CachedCount, StartCount, ReadRoot, ReadRootFails, DescendToChild,
       DescendFails, DescentEnds, WalkBack, WalkBackRevisits, WalkBackCannotRead,
       CountFails, CountEnds, ReadFault, Fail, vars, walkVars

LEMMA PassedStep ==
  ASSUME TypeInv, PagesPassed, [Next]_vars
  PROVE  PagesPassed'
<1>1. SUFFICES ASSUME pc' = "forward"
               PROVE  \E pages \in SUBSET PageNumbers : PassedPages(pages)'
  BY DEF PagesPassed
<1>2. CASE WalkBackEnds
  <2>1. descriptors = {} /\ descriptors' = {}
    BY <1>2 DEF WalkBackEnds, TypeInv, CountKeepsUp
  <2>2. PassedPages({})'
    BY <2>1 DEF PassedPages, CountedOnce
  <2>. QED
    BY <2>2
<1>3. CASE CountLeaf
  <2>1. pc = "forward" /\ at \in PageNumbers /\ NewDescriptor.page = at
    BY <1>3, CountLeafAdds DEF CountLeaf
  <2>2. PICK pages \in SUBSET PageNumbers : PassedPages(pages)
    BY <2>1 DEF PagesPassed
  <2>3. /\ descriptors' = descriptors \union {NewDescriptor}
        /\ file' = file
        /\ at' = file[at].next
    BY <1>3 DEF CountLeaf, Here
  <2>. DEFINE more == pages \union {at}
  <2>4. \A d \in descriptors' : d.page \in more
    BY <2>1, <2>2, <2>3 DEF PassedPages
  <2>5. \A p \in more : file'[p].next \in more \union {at'}
    BY <2>2, <2>3 DEF PassedPages
  <2>6. CASE at \in pages
    <3>1. at' \in more
      BY <2>2, <2>3, <2>6 DEF PassedPages
    <3>. QED
      BY <2>1, <2>4, <2>5, <3>1 DEF PassedPages
  <2>7. CASE at \notin pages
    <3>1. CountedOnce /\ \A d \in descriptors : d.page # at
      BY <2>2, <2>7 DEF PassedPages
    <3>2. CountedOnce'
      BY <2>1, <2>3, <3>1 DEF CountedOnce
    <3>. QED
      BY <2>1, <2>4, <2>5, <3>2 DEF PassedPages
  <2>. QED
    BY <2>6, <2>7
<1>4. CASE PassOver
  <2>1. pc = "forward" /\ at \in PageNumbers
    BY <1>4 DEF PassOver, ForwardRejected, Readable
  <2>2. PICK pages \in SUBSET PageNumbers : PassedPages(pages)
    BY <2>1 DEF PagesPassed
  <2>3. descriptors' = descriptors /\ file' = file /\ at' = file[at].next
    BY <1>4 DEF PassOver, Here
  <2>4. PICK more \in SUBSET PageNumbers : more = pages \union {at}
    BY <2>1
  <2>5. \A p \in more : file'[p].next \in more \union {at'}
    BY <2>2, <2>3, <2>4 DEF PassedPages
  <2>6. CountedOnce' \/ at' \in more
    BY <2>2, <2>3, <2>4 DEF PassedPages, CountedOnce
  <2>. QED
    BY <2>2, <2>3, <2>4, <2>5, <2>6 DEF PassedPages
<1>5. CASE ~ CountLeaf /\ ~ PassOver /\ ~ WalkBackEnds
  <2>1. pc = "forward" /\ UNCHANGED <<file, descriptors, at>>
    BY <1>1, <1>5, OthersDoNotWalkForward
  <2>. QED
    BY <2>1 DEF PagesPassed, PassedPages, CountedOnce
<1>. QED
  BY <1>2, <1>3, <1>4, <1>5

LEMMA PassedCountsNoPageTwice == PagesPassed => NoPageCountedTwice
BY LastPageAssumption
   DEF PagesPassed, PassedPages, CountedOnce, NoPageCountedTwice, WalkCompleted, PageNumbers

(***************************************************************************)
(* A walk that reaches the end of the chain has counted no page twice, in  *)
(* every file and with any limit on the pages: what a next link leads back *)
(* to is never left again (libesedb_page_tree_get_number_of_leaf_values).  *)
(***************************************************************************)
THEOREM NoPageIsEverCountedTwice == Spec => []NoPageCountedTwice
<1>1. Init => PagesPassed
  BY DEF Init, PagesPassed
<1>. QED
  BY <1>1, InitTypeInv, NextTypeInv, PassedStep, PassedCountsNoPageTwice, PTL DEF Spec

-----------------------------------------------------------------------------
(***************************************************************************)
(* What has been counted is the beginning of a chain.  A page of the file  *)
(* is counted by the number of values that the pages before it on the      *)
(* chain have, so the descriptors are determined by how many pages of the  *)
(* chain were counted.                                                     *)
(***************************************************************************)
LEMMA LiveValuesFinite ==
  ASSUME NEW page \in Page
  PROVE  IsFiniteSet(LivePositions(page)) /\ LivePositions(page) \in SUBSET Nat
<1>1. PICK n \in Nat : DOMAIN page.values = 1 .. n
  BY DEF Page
<1>2. LivePositions(page) \subseteq 1 .. n
  BY <1>1 DEF LivePositions
<1>. QED
  BY <1>1, <1>2, FS_Interval, FS_Subset

LEMMA OnePageMore ==
  ASSUME NEW f \in File, NEW chain \in Seq(PageNumbers), NEW n \in Nat, n + 1 \in DOMAIN chain,
         IsFiniteSet(ValuesOfFirst(f, chain, n))
  PROVE  /\ IsFiniteSet(ValuesOfFirst(f, chain, n + 1))
         /\ NumberInFirst(f, chain, n) \in Nat
         /\ NumberInFirst(f, chain, n + 1) =
              NumberInFirst(f, chain, n) + NumberOfLiveValues(f[chain[n + 1]])
<1>. DEFINE before == ValuesOfFirst(f, chain, n)
            live == LivePositions(f[chain[n + 1]])
            added == {n + 1} \X live
<1>1. f[chain[n + 1]] \in Page
  BY DEF File
<1>2. IsFiniteSet(live) /\ Cardinality(live) \in Nat
  BY <1>1, LiveValuesFinite, FS_CardinalityType
<1>3. IsFiniteSet({n + 1}) /\ Cardinality({n + 1}) = 1
  BY FS_Singleton
<1>4. IsFiniteSet(added) /\ Cardinality(added) = 1 * Cardinality(live)
  BY <1>2, <1>3, FS_Product
<1>5. Cardinality(added) = Cardinality(live)
  BY <1>2, <1>4
<1>6. ValuesOfFirst(f, chain, n + 1) = before \union added
  <2>1. 1 .. n + 1 = (1 .. n) \union {n + 1}
    OBVIOUS
  <2>. QED
    BY <2>1 DEF ValuesOfFirst
<1>7. before \cap added = {}
  <2>1. \A v \in before : v[1] \in 1 .. n
    BY DEF ValuesOfFirst
  <2>2. \A v \in added : v[1] = n + 1
    OBVIOUS
  <2>. QED
    BY <2>1, <2>2
<1>8. Cardinality(before) \in Nat
  BY FS_CardinalityType
<1>. HIDE DEF before, added, live
<1>9. IsFiniteSet(before \union added)
      /\ Cardinality(before \union added) = Cardinality(before) + Cardinality(added) - Cardinality({})
  <2>1. IsFiniteSet(before)
    BY DEF before
  <2>2. IsFiniteSet(before \union added)
        /\ Cardinality(before \union added) =
             Cardinality(before) + Cardinality(added) - Cardinality(before \cap added)
    <3>1. IsFiniteSet(added)
      BY <1>4
    <3>. QED
      BY <2>1, <3>1, FS_Union
  <2>. QED
    BY <1>7, <2>2
<1>10. Cardinality({}) = 0
  BY FS_EmptySet
<1>11. Cardinality(before \union added) = Cardinality(before) + Cardinality(live)
  BY <1>2, <1>5, <1>8, <1>9, <1>10
<1>. QED
  BY <1>6, <1>8, <1>9, <1>11 DEF NumberInFirst, NumberOfLiveValues, before, live

LEMMA NoPageYet ==
  ASSUME NEW f, NEW chain
  PROVE  ValuesOfFirst(f, chain, 0) = {} /\ NumberInFirst(f, chain, 0) = 0
         /\ IsFiniteSet(ValuesOfFirst(f, chain, 0))
<1>1. ValuesOfFirst(f, chain, 0) = {}
  BY DEF ValuesOfFirst
<1>. QED
  BY <1>1, FS_EmptySet DEF NumberInFirst

LEMMA PageSequence ==
  ASSUME NEW chain \in PageSequences
  PROVE  chain \in Seq(PageNumbers) /\ Len(chain) \in Nat \ {0} /\ DOMAIN chain = 1 .. Len(chain)
<1>1. PICK n \in PageNumbers : chain \in [1 .. n -> PageNumbers]
  BY DEF PageSequences
<1>2. n \in Nat \ {0}
  BY LastPageAssumption DEF PageNumbers
<1>3. chain \in Seq(PageNumbers)
  BY <1>1, <1>2, SeqDef
<1>4. Len(chain) \in Nat /\ DOMAIN chain = 1 .. Len(chain)
  BY <1>3
<1>5. 1 \in DOMAIN chain
  BY <1>1, <1>2
<1>. QED
  BY <1>3, <1>4, <1>5

-----------------------------------------------------------------------------
(***************************************************************************)
(* The invariant behind CountIsExact.  While it descends, the walk is on   *)
(* the path of first values; while it walks back, on the chain, whose      *)
(* first page is the last one it comes to; while it walks forward, behind  *)
(* the pages it has counted.  A call that fails leaves a beginning of the  *)
(* chain counted.                                                          *)
(***************************************************************************)
OnPath(path) ==
  /\ pc = "root" => at = Root /\ depth = 0
  /\ pc = "descend" => depth + 1 \in DOMAIN path /\ at = path[depth + 1]

CountedFirst(chain, n) ==
  /\ IsFiniteSet(ValuesOfFirst(file, chain, n))
  /\ leafCount # -1 => leafCount = NumberInFirst(file, chain, n)
  /\ descriptors = {ChainDescriptor(chain, k) : k \in 1 .. n}

AtPage(chain, k) == IF k = 0 THEN at = 0 /\ lastLeaf = chain[1] ELSE at = chain[k]

\* The walk back has not left the part of the chain before the page that the descent ended at.
BeforeEnd(path, chain, k) == \E j \in DOMAIN chain : chain[j] = path[Len(path)] /\ k <= j

SeenOnly(chain, k) == seen \subseteq {PageOffset(chain[j]) : j \in k + 1 .. Len(chain)}

BehindFirst(chain, n) ==
  leafPages = n /\ at = IF n = Len(chain) THEN 0 ELSE chain[n + 1]

OnChain(path, chain) ==
  /\ pc = "backward" => \E k \in 0 .. Len(chain) :
                        AtPage(chain, k) /\ SeenOnly(chain, k) /\ BeforeEnd(path, chain, k)
  /\ \E n \in 0 .. Len(chain) :
       CountedFirst(chain, n) /\ (pc = "forward" => BehindFirst(chain, n))

\* Only one call walks, for the next ones find the count.
StartsEmpty ==
  /\ leafCount = -1 \/ pc \in {"root", "descend"} => seen = {}
  /\ leafCount = -1 \/ pc # "idle" => answer = NoAnswer
  /\ pc \in {"root", "descend", "backward"} => leafPages = 0

ChainInv ==
  \A path \in PageSequences : FirstDescent(file, Root, path) =>
    /\ OnPath(path)
    /\ \A chain \in PageSequences :
         LeafChain(file, chain) /\ EndsOn(path, chain) => OnChain(path, chain)

LEMMA StartsEmptyStep ==
  ASSUME TypeInv, StartsEmpty, [Next]_vars
  PROVE  StartsEmpty'
<1>. USE DEF StartsEmpty
<1>1. CASE CachedCount
  BY <1>1 DEF CachedCount
<1>2. CASE StartCount
  BY <1>2 DEF StartCount
<1>3. CASE CountLeaf
  BY <1>3, CountLeafAdds DEF CountLeaf
<1>4. CASE ReadFault
  BY <1>4 DEF ReadFault, Fail, TypeInv, CountKeepsUp
<1>5. CASE UNCHANGED vars
  BY <1>5 DEF vars, walkVars
<1>6. CASE ReadRootFails \/ DescendFails \/ WalkBackRevisits \/ WalkBackCannotRead \/ CountFails
  BY <1>6 DEF ReadRootFails, DescendFails, WalkBackRevisits, WalkBackCannotRead, CountFails, Fail,
              TypeInv, CountKeepsUp
<1>7. CASE ReadRoot \/ DescendToChild \/ DescentEnds
  BY <1>7 DEF ReadRoot, DescendToChild, DescentEnds
<1>8. CASE WalkBack \/ WalkBackEnds \/ PassOver \/ CountEnds
  BY <1>8 DEF WalkBack, WalkBackEnds, PassOver, CountEnds, TypeInv, CountKeepsUp
<1>. QED
  BY <1>1, <1>2, <1>3, <1>4, <1>5, <1>6, <1>7, <1>8 DEF Next, Step

LEMMA FileStays == [Next]_vars => file' = file
BY DEF Next, Step, CachedCount, StartCount, ReadRoot, ReadRootFails, DescendToChild, DescendFails,
       DescentEnds, WalkBack, WalkBackRevisits, WalkBackCannotRead, WalkBackEnds, CountLeaf,
       PassOver, CountFails, CountEnds, ReadFault, Fail, vars

LEMMA FirstChildIs ==
  ASSUME NEW number, TypeOK, IsFirstChild(Here, number), at \in PageNumbers
  PROVE  FirstChild = number /\ LivePositions(Here) # {}
<1>1. LivePositions(Here) \in SUBSET Nat
  BY HerePage, LiveValuesFinite
<1>2. PICK i \in LivePositions(Here) :
        Here.values[i].ref = number /\ \A j \in LivePositions(Here) : i <= j
  BY DEF IsFirstChild
<1>. DEFINE live == LivePositions(Here)
<1>. HIDE DEF live
<1>3. i = CHOOSE k \in live : \A j \in live : k <= j
  <2>1. \A k \in live : (\A j \in live : k <= j) => k = i
    BY <1>1, <1>2 DEF live
  <2>. QED
    BY <1>2, <2>1 DEF live
<1>. QED
  BY <1>2, <1>3 DEF FirstChild, live

LEMMA NotTheLast ==
  ASSUME NEW d \in Nat, NEW n \in Nat, d + 1 \in 1 .. n, d + 1 # n
  PROVE  d + 1 \in 1 .. n - 1 /\ (d + 1) + 1 \in 1 .. n
OBVIOUS

LEMMA PathStep ==
  ASSUME TypeInv, [Next]_vars, NEW path \in PageSequences, FirstDescent(file, Root, path), OnPath(path)
  PROVE  OnPath(path)'
<1>1. path \in Seq(PageNumbers) /\ Len(path) \in Nat \ {0} /\ DOMAIN path = 1 .. Len(path)
  BY PageSequence
<1>2. CASE StartCount
  BY <1>2 DEF StartCount, OnPath
<1>3. CASE ReadRoot
  BY <1>1, <1>3 DEF ReadRoot, OnPath, FirstDescent
<1>4. CASE DescendToChild
  <2>1. /\ pc = "descend" /\ depth \in Nat /\ depth + 1 \in 1 .. Len(path)
        /\ at = path[depth + 1] /\ at \in PageNumbers
    BY <1>1, <1>4 DEF DescendToChild, OnPath, TypeInv, TypeOK
  <2>2. depth + 1 # Len(path)
    BY <1>4, <2>1 DEF DescendToChild, HasChild, Here, FirstDescent
  <2>3. depth + 1 \in 1 .. Len(path) - 1 /\ (depth + 1) + 1 \in DOMAIN path
    BY <1>1, <2>1, <2>2, NotTheLast
  <2>4. IsFirstChild(Here, path[(depth + 1) + 1])
    BY <2>1, <2>3 DEF FirstDescent, Here
  <2>5. FirstChild = path[(depth + 1) + 1]
    BY <2>1, <2>4, FirstChildIs DEF TypeInv
  <2>. QED
    BY <1>4, <2>1, <2>3, <2>5 DEF DescendToChild, OnPath
<1>5. CASE ~ StartCount /\ ~ ReadRoot /\ ~ DescendToChild
  <2>1. pc' \in {"root", "descend"} => pc' = pc /\ at' = at /\ depth' = depth
    BY <1>5 DEF Next, Step, CachedCount, ReadRootFails, DescendFails, DescentEnds, WalkBack,
                WalkBackRevisits, WalkBackCannotRead, WalkBackEnds, CountLeaf, PassOver,
                CountFails, CountEnds, ReadFault, Fail, vars, walkVars
  <2>. QED
    BY <2>1 DEF OnPath
<1>. QED
  BY <1>2, <1>3, <1>4, <1>5

(***************************************************************************)
(* The descent ends on the chain.                                          *)
(***************************************************************************)
LEMMA DescentEndsOnChain ==
  ASSUME TypeInv, DescentEnds, NEW path \in PageSequences, FirstDescent(file, Root, path),
         OnPath(path)
  PROVE  at' = path[Len(path)]
<1>1. path \in Seq(PageNumbers) /\ Len(path) \in Nat \ {0} /\ DOMAIN path = 1 .. Len(path)
  BY PageSequence
<1>2. /\ depth \in Nat /\ depth + 1 \in 1 .. Len(path)
      /\ at = path[depth + 1] /\ at \in PageNumbers
  BY <1>1 DEF DescentEnds, OnPath, TypeInv, TypeOK
<1>3. ASSUME depth + 1 # Len(path)  PROVE FALSE
  <2>1. depth + 1 \in 1 .. Len(path) - 1 /\ (depth + 1) + 1 \in DOMAIN path
    BY <1>1, <1>2, <1>3, NotTheLast
  <2>2. ~ IsLeafPage(Here) /\ IsFirstChild(Here, path[(depth + 1) + 1])
    BY <1>2, <2>1 DEF FirstDescent, Here
  <2>3. HasChild /\ FirstChild = path[(depth + 1) + 1]
    BY <1>2, <2>2, FirstChildIs DEF TypeInv, HasChild
  <2>4. FirstChild \in PageNumbers
    BY <1>1, <2>1, <2>3
  <2>. QED
    BY <2>3, <2>4 DEF DescentEnds
<1>4. IsLeafPage(Here)
  BY <1>2, <1>3 DEF FirstDescent, Here
<1>. QED
  BY <1>2, <1>3, <1>4 DEF DescentEnds

LEMMA OneMore ==
  ASSUME NEW len \in Nat, NEW n \in 0 .. len, n # len
  PROVE  n \in Nat /\ n + 1 \in 1 .. len /\ n + 1 \in 0 .. len
OBVIOUS

LEMMA BackwardStep ==
  ASSUME TypeInv, StartsEmpty, [Next]_vars, NEW path \in PageSequences, FirstDescent(file, Root, path), OnPath(path),
         NEW chain \in PageSequences, LeafChain(file, chain), EndsOn(path, chain),
         OnChain(path, chain), pc' = "backward"
  PROVE  \E k \in 0 .. Len(chain) : AtPage(chain, k)' /\ SeenOnly(chain, k)' /\ BeforeEnd(path, chain, k)
<1>1. chain \in Seq(PageNumbers) /\ Len(chain) \in Nat \ {0} /\ DOMAIN chain = 1 .. Len(chain)
  BY PageSequence
<1>2. CASE DescentEnds
  <2>1. at' \in ToSet(chain)
    BY <1>2, DescentEndsOnChain DEF EndsOn
  <2>2. PICK k \in 1 .. Len(chain) : at' = chain[k]
    BY <1>1, <2>1 DEF ToSet
  <2>3. seen' = {} /\ k # 0
    BY <1>1, <1>2, <2>2 DEF DescentEnds, StartsEmpty
  <2>4. AtPage(chain, k)' /\ SeenOnly(chain, k)'
    BY <2>2, <2>3 DEF AtPage, SeenOnly
  <2>5. BeforeEnd(path, chain, k)
    <3>1. at' = path[Len(path)]
      BY <1>2, DescentEndsOnChain
    <3>2. k \in DOMAIN chain /\ k <= k
      BY <1>1, <2>2
    <3>. QED
      BY <2>2, <3>1, <3>2 DEF BeforeEnd
  <2>. QED
    BY <2>2, <2>4, <2>5
<1>3. CASE WalkBack
  <2>1. pc = "backward" /\ at # 0 /\ at \in PageNumbers
    BY <1>3 DEF WalkBack, Readable
  <2>2. PICK k \in 0 .. Len(chain) : AtPage(chain, k) /\ SeenOnly(chain, k) /\ BeforeEnd(path, chain, k)
    BY <2>1 DEF OnChain
  <2>3. k \in 1 .. Len(chain) /\ at = chain[k]
    BY <1>1, <2>1, <2>2 DEF AtPage
  <2>4. IsLeafPage(Here) /\ Here.prev = IF k = 1 THEN 0 ELSE chain[k - 1]
    BY <1>1, <2>3 DEF LeafChain, IsChained, Here
  <2>5. at' = IF k = 1 THEN 0 ELSE chain[k - 1]
    BY <1>3, <2>4 DEF WalkBack
  <2>6. lastLeaf' = chain[k]
    BY <1>3, <2>3, <2>4 DEF WalkBack
  <2>7. k - 1 \in 0 .. Len(chain)
    BY <1>1, <2>3
  <2>8. AtPage(chain, k - 1)'
    BY <2>3, <2>5, <2>6 DEF AtPage
  <2>9. SeenOnly(chain, k - 1)'
    <3>1. seen' = seen \union {PageOffset(chain[k])}
      BY <1>3, <2>3 DEF WalkBack
    <3>2. (k - 1) + 1 = k /\ k \in k .. Len(chain) /\ k + 1 .. Len(chain) \subseteq k .. Len(chain)
      BY <1>1, <2>3
    <3>. QED
      BY <2>2, <3>1, <3>2 DEF SeenOnly
  <2>10. BeforeEnd(path, chain, k - 1)
    <3>1. PICK j \in 1 .. Len(chain) : chain[j] = path[Len(path)] /\ k <= j
      BY <1>1, <2>2 DEF BeforeEnd
    <3>2. k - 1 <= j
      BY <1>1, <2>3, <3>1
    <3>. QED
      BY <1>1, <3>1, <3>2 DEF BeforeEnd
  <2>. QED
    BY <2>7, <2>8, <2>9, <2>10
<1>4. CASE ~ DescentEnds /\ ~ WalkBack
  <2>1. pc = "backward" /\ at' = at /\ lastLeaf' = lastLeaf /\ seen' = seen
    BY <1>4 DEF Next, Step, CachedCount, StartCount, ReadRoot, ReadRootFails, DescendToChild,
                DescendFails, WalkBackRevisits, WalkBackCannotRead, WalkBackEnds, CountLeaf,
                PassOver, CountFails, CountEnds, ReadFault, Fail, vars, walkVars
  <2>. QED
    BY <2>1 DEF OnChain, AtPage, SeenOnly
<1>. QED
  BY <1>2, <1>3, <1>4

(***************************************************************************)
(* One more page of the chain is counted.                                  *)
(***************************************************************************)
LEMMA CountsOnePageMore ==
  ASSUME TypeInv, CountLeaf, NEW chain \in PageSequences, LeafChain(file, chain),
         NEW n \in 0 .. Len(chain), CountedFirst(chain, n),
         BehindFirst(chain, n)
  PROVE  /\ n + 1 \in 0 .. Len(chain)
         /\ CountedFirst(chain, n + 1)' /\ BehindFirst(chain, n + 1)'
<1>1. chain \in Seq(PageNumbers) /\ Len(chain) \in Nat \ {0} /\ DOMAIN chain = 1 .. Len(chain)
  BY PageSequence
<1>2. /\ n \in Nat /\ n + 1 \in 1 .. Len(chain) /\ n + 1 \in 0 .. Len(chain)
      /\ at = chain[n + 1]
  <2>1. n # Len(chain) /\ at = chain[n + 1]
    BY DEF CountLeaf, BehindFirst
  <2>. QED
    BY <1>1, <2>1, OneMore
<1>3. /\ descriptors' = descriptors \union {NewDescriptor}
      /\ file' = file /\ leafCount' = NewTotal /\ at' = Here.next
  BY DEF CountLeaf
<1>4. file \in File /\ leafCount \in Nat /\ total = leafCount
  BY DEF CountLeaf, TypeInv, TypeOK, CountKeepsUp
<1>5. /\ IsFiniteSet(ValuesOfFirst(file, chain, n + 1))
      /\ NumberInFirst(file, chain, n + 1) = NumberInFirst(file, chain, n) + NumberOfLiveValues(Here)
  BY <1>1, <1>2, <1>4, OnePageMore DEF CountedFirst, Here
<1>6. leafCount = NumberInFirst(file, chain, n)
  BY <1>4 DEF CountedFirst
<1>7. NewTotal = NumberInFirst(file, chain, n + 1)
  BY <1>4, <1>5, <1>6 DEF NewTotal
<1>8. NewDescriptor = ChainDescriptor(chain, n + 1)
  <2>1. (n + 1) - 1 = n
    BY <1>2
  <2>. QED
    BY <1>2, <1>6, <1>7, <2>1 DEF NewDescriptor, ChainDescriptor
<1>9. descriptors' = {ChainDescriptor(chain, k) : k \in 1 .. n + 1}
  <2>1. 1 .. n + 1 = (1 .. n) \union {n + 1}
    BY <1>2
  <2>2. descriptors = {ChainDescriptor(chain, k) : k \in 1 .. n}
    BY DEF CountedFirst
  <2>. QED
    BY <1>3, <1>8, <2>1, <2>2
<1>10. CountedFirst(chain, n + 1)'
  <2>1. \A k : ChainDescriptor(chain, k)' = ChainDescriptor(chain, k)
    BY <1>3 DEF ChainDescriptor
  <2>. QED
    BY <1>3, <1>5, <1>7, <1>9, <2>1 DEF CountedFirst
<1>11. at' = IF n + 1 = Len(chain) THEN 0 ELSE chain[(n + 1) + 1]
  BY <1>1, <1>2, <1>3 DEF LeafChain, IsChained, Here
<1>12. leafPages' = n + 1
  BY DEF CountLeaf, BehindFirst
<1>. QED
  BY <1>2, <1>10, <1>11, <1>12 DEF BehindFirst

LEMMA CountedStep ==
  ASSUME TypeInv, StartsEmpty, [Next]_vars, NEW path,
         NEW chain \in PageSequences, LeafChain(file, chain), OnChain(path, chain)
  PROVE  \E n \in 0 .. Len(chain) :
           CountedFirst(chain, n)' /\ (pc' = "forward" => BehindFirst(chain, n)')
<1>1. chain \in Seq(PageNumbers) /\ Len(chain) \in Nat \ {0} /\ DOMAIN chain = 1 .. Len(chain)
  BY PageSequence
<1>2. PICK n \in 0 .. Len(chain) :
        CountedFirst(chain, n) /\ (pc = "forward" => BehindFirst(chain, n))
  BY DEF OnChain
<1>3. file' = file
  BY FileStays
<1>4. \A k : ChainDescriptor(chain, k)' = ChainDescriptor(chain, k)
  BY <1>3 DEF ChainDescriptor
<1>5. CASE StartCount
  <2>1. TypeInv'
    BY NextTypeInv
  <2>2. descriptors' = {} /\ leafCount' = 0 /\ pc' # "forward"
    BY <1>5 DEF StartCount, TypeInv, CountKeepsUp
  <2>3. CountedFirst(chain, 0)'
    BY <2>2, NoPageYet DEF CountedFirst
  <2>4. 0 \in 0 .. Len(chain)
    BY <1>1
  <2>. QED
    BY <2>2, <2>3, <2>4
<1>6. CASE WalkBackEnds
  <2>1. descriptors' = {} /\ leafCount' = 0
    BY <1>6 DEF WalkBackEnds, TypeInv, CountKeepsUp
  <2>2. CountedFirst(chain, 0)'
    BY <2>1, NoPageYet DEF CountedFirst
  <2>3. pc = "backward" /\ at = 0 /\ at' = lastLeaf
    BY <1>6 DEF WalkBackEnds
  <2>4. PICK k \in 0 .. Len(chain) : AtPage(chain, k)
    BY <2>3 DEF OnChain
  <2>5. k = 0
    <3>1. ASSUME k # 0 PROVE FALSE
      <4>1. k \in 1 .. Len(chain)
        BY <1>1, <3>1
      <4>2. chain[k] \in PageNumbers
        BY <1>1, <4>1
      <4>. QED
        BY <2>3, <2>4, <3>1, <4>2 DEF AtPage, PageNumbers
    <3>. QED
      BY <3>1
  <2>6. at' = chain[1]
    BY <2>3, <2>4, <2>5 DEF AtPage
  <2>7. 0 \in 0 .. Len(chain) /\ 0 # Len(chain) /\ 0 + 1 = 1
    BY <1>1
  <2>8. leafPages' = 0
    BY <1>6 DEF WalkBackEnds, StartsEmpty
  <2>9. BehindFirst(chain, 0)'
    BY <2>6, <2>7, <2>8 DEF BehindFirst
  <2>. QED
    BY <2>2, <2>7, <2>9
<1>7. CASE CountLeaf
  <2>1. BehindFirst(chain, n)
    BY <1>2, <1>7 DEF CountLeaf
  <2>2. /\ n + 1 \in 0 .. Len(chain)
        /\ CountedFirst(chain, n + 1)' /\ BehindFirst(chain, n + 1)'
    BY <1>2, <1>7, <2>1, CountsOnePageMore
  <2>. QED
    BY <2>2
<1>8. CASE PassOver
  <2>1. at # 0 /\ ~ IsLeafPage(file[at]) /\ pc = "forward"
    BY <1>8 DEF PassOver, Here
  <2>2. n # Len(chain) /\ at = chain[n + 1]
    BY <1>2, <2>1 DEF BehindFirst
  <2>3. n + 1 \in DOMAIN chain
    BY <1>1, <2>2, OneMore
  <2>. QED
    BY <2>1, <2>2, <2>3 DEF LeafChain
<1>9. CASE ~ StartCount /\ ~ WalkBackEnds /\ ~ CountLeaf /\ ~ PassOver
  <2>1. UNCHANGED <<descriptors, leafCount>>
    BY <1>9, OthersKeepDescriptors
  <2>2. CountedFirst(chain, n)'
    BY <1>2, <1>3, <1>4, <2>1 DEF CountedFirst
  <2>3. pc' = "forward" => pc = "forward" /\ at' = at /\ leafPages' = leafPages
    BY <1>9, OthersDoNotWalkForward
  <2>. QED
    BY <1>2, <2>2, <2>3 DEF BehindFirst
<1>. QED
  BY <1>5, <1>6, <1>7, <1>8, <1>9

LEMMA ChainStep ==
  ASSUME TypeInv, StartsEmpty, ChainInv, [Next]_vars
  PROVE  ChainInv'
<1>1. file' = file
  BY FileStays
<1>2. SUFFICES ASSUME NEW path \in PageSequences, FirstDescent(file, Root, path)
               PROVE  /\ OnPath(path)'
                      /\ \A chain \in PageSequences :
                           LeafChain(file, chain) /\ EndsOn(path, chain) => OnChain(path, chain)'
  BY <1>1 DEF ChainInv
<1>3. OnPath(path)
  BY <1>2 DEF ChainInv
<1>4. OnPath(path)'
  BY <1>2, <1>3, PathStep
<1>5. ASSUME NEW chain \in PageSequences, LeafChain(file, chain), EndsOn(path, chain)
      PROVE  OnChain(path, chain)'
  <2>1. OnChain(path, chain)
    BY <1>2, <1>5 DEF ChainInv
  <2>2. pc' = "backward" => \E k \in 0 .. Len(chain) :
                              AtPage(chain, k)' /\ SeenOnly(chain, k)' /\ BeforeEnd(path, chain, k)
    BY <1>2, <1>3, <1>5, <2>1, BackwardStep
  <2>3. \E n \in 0 .. Len(chain) :
          CountedFirst(chain, n)' /\ (pc' = "forward" => BehindFirst(chain, n)')
    BY <1>5, <2>1, CountedStep
  <2>. QED
    BY <2>2, <2>3 DEF OnChain
<1>. QED
  BY <1>4, <1>5

LEMMA InitChainInv == Init => ChainInv
<1>. SUFFICES ASSUME Init  PROVE ChainInv
  OBVIOUS
<1>1. /\ pc = "idle" /\ descriptors = {} /\ leafCount = -1
  BY DEF Init
<1>2. ASSUME NEW path, NEW chain \in PageSequences  PROVE OnChain(path, chain)
  <2>1. CountedFirst(chain, 0)
    BY <1>1, NoPageYet DEF CountedFirst
  <2>2. Len(chain) \in Nat
    BY <1>2, PageSequence
  <2>3. 0 \in 0 .. Len(chain)
    BY <2>2
  <2>. QED
    BY <1>1, <2>1, <2>3 DEF OnChain
<1>. QED
  BY <1>1, <1>2 DEF ChainInv, OnPath

LEMMA CompletedCountsChain == TypeInv /\ ChainInv => ChainIsCounted
<1>. SUFFICES ASSUME TypeInv, ChainInv, WalkCompleted,
                     NEW path \in PageSequences, FirstDescent(file, Root, path),
                     NEW chain \in PageSequences, LeafChain(file, chain),
                     EndsOn(path, chain)
              PROVE  /\ leafCount = NumberInFirst(file, chain, Len(chain))
                     /\ descriptors = {ChainDescriptor(chain, k) : k \in DOMAIN chain}
  BY DEF ChainIsCounted, Descents, Chains
<1>1. chain \in Seq(PageNumbers) /\ Len(chain) \in Nat \ {0} /\ DOMAIN chain = 1 .. Len(chain)
  BY PageSequence
<1>2. PICK n \in 0 .. Len(chain) :
        CountedFirst(chain, n) /\ BehindFirst(chain, n)
  BY DEF ChainInv, OnChain, WalkCompleted
<1>3. n = Len(chain)
  <2>1. ASSUME n # Len(chain) PROVE FALSE
    <3>1. n + 1 \in DOMAIN chain /\ at = chain[n + 1]
      BY <1>1, <1>2, <2>1, OneMore DEF BehindFirst
    <3>2. at \in PageNumbers
      BY <1>1, <3>1
    <3>. QED
      BY <3>2 DEF WalkCompleted, PageNumbers
  <2>. QED
    BY <2>1
<1>4. leafCount # -1
  BY DEF TypeInv, CountKeepsUp, WalkCompleted
<1>. QED
  BY <1>1, <1>2, <1>3, <1>4 DEF CountedFirst

-----------------------------------------------------------------------------
(***************************************************************************)
(* The position of a live value by its number: there is one for every      *)
(* number up to the number of live values.                                 *)
(***************************************************************************)
LEMMA HasFirst ==
  ASSUME NEW S \in SUBSET Nat, S # {}
  PROVE  \E i \in S : \A j \in S : i <= j
<1>1. \A a, b \in Nat : <<a, b>> \in OpToRel(<, Nat) \/ b <= a
  BY DEF OpToRel
<1>2. \E i \in S : \A j \in S : ~ (<<j, i>> \in OpToRel(<, Nat))
  BY NatLessThanWellFounded, WFMin
<1>. QED
  BY <1>1, <1>2

UpTo(S, m) == {j \in S : j <= m}

LEMMA UpToGrows ==
  ASSUME NEW S \in SUBSET Nat, IsFiniteSet(S), NEW m \in Nat
  PROVE  /\ Cardinality(UpTo(S, m)) \in Nat
         /\ Cardinality(UpTo(S, m + 1)) =
              IF m + 1 \in S THEN Cardinality(UpTo(S, m)) + 1 ELSE Cardinality(UpTo(S, m))
<1>1. UpTo(S, m) \subseteq S
  BY DEF UpTo
<1>2. IsFiniteSet(UpTo(S, m)) /\ Cardinality(UpTo(S, m)) \in Nat
  BY <1>1, FS_Subset, FS_CardinalityType
<1>3. \A j \in S : (j <= m + 1 <=> j <= m \/ j = m + 1) /\ ~ (m + 1 <= m)
  OBVIOUS
<1>4. CASE m + 1 \in S
  <2>1. UpTo(S, m + 1) = UpTo(S, m) \union {m + 1}
    BY <1>3, <1>4 DEF UpTo
  <2>2. m + 1 \notin UpTo(S, m)
    BY DEF UpTo
  <2>3. Cardinality(UpTo(S, m) \union {m + 1}) = Cardinality(UpTo(S, m)) + 1
    BY <1>2, <2>2, FS_AddElement
  <2>. QED
    BY <1>2, <1>4, <2>1, <2>3
<1>5. CASE m + 1 \notin S
  <2>1. UpTo(S, m + 1) = UpTo(S, m)
    BY <1>3, <1>5 DEF UpTo
  <2>. QED
    BY <1>2, <1>5, <2>1
<1>. QED
  BY <1>4, <1>5

LEMMA NumberedElement ==
  ASSUME NEW S \in SUBSET Nat, IsFiniteSet(S), 0 \notin S, NEW n \in 1 .. Cardinality(S),
         NEW most \in Nat, \A j \in S : j <= most
  PROVE  \E i \in S : Cardinality(UpTo(S, i)) = n
<1>. DEFINE enough == {m \in Nat : n <= Cardinality(UpTo(S, m))}
<1>1. n \in Nat \ {0} /\ n <= Cardinality(S)
  BY FS_CardinalityType
<1>2. UpTo(S, most) = S
  BY DEF UpTo
<1>3. most \in enough
  BY <1>1, <1>2
<1>4. enough \in SUBSET Nat
  OBVIOUS
<1>5. PICK m \in enough : \A k \in enough : m <= k
  BY <1>3, <1>4, HasFirst
<1>6. m \in Nat /\ n <= Cardinality(UpTo(S, m))
  BY <1>5
<1>7. m # 0
  <2>1. \A j \in S : ~ (j <= 0)
    OBVIOUS
  <2>2. UpTo(S, 0) = {}
    BY <2>1 DEF UpTo
  <2>3. Cardinality(UpTo(S, 0)) = 0
    BY <2>2, FS_EmptySet
  <2>. QED
    BY <1>1, <1>6, <2>3
<1>8. m - 1 \in Nat /\ (m - 1) + 1 = m
  BY <1>6, <1>7
<1>9. ~ (n <= Cardinality(UpTo(S, m - 1)))
  BY <1>5, <1>8
<1>10. /\ Cardinality(UpTo(S, m - 1)) \in Nat
       /\ Cardinality(UpTo(S, m)) =
            IF m \in S THEN Cardinality(UpTo(S, m - 1)) + 1 ELSE Cardinality(UpTo(S, m - 1))
  <2>1. PICK k \in Nat : k = m - 1 /\ k + 1 = m
    BY <1>8
  <2>2. /\ Cardinality(UpTo(S, k)) \in Nat
        /\ Cardinality(UpTo(S, k + 1)) =
             IF k + 1 \in S THEN Cardinality(UpTo(S, k)) + 1 ELSE Cardinality(UpTo(S, k))
    BY UpToGrows
  <2>. QED
    BY <2>1, <2>2
<1>11. m \in S
  BY <1>6, <1>9, <1>10
<1>12. Cardinality(UpTo(S, m)) = n
  BY <1>1, <1>6, <1>9, <1>10, <1>11
<1>. QED
  BY <1>11, <1>12

LEMMA LivePositionIs ==
  ASSUME NEW page \in Page, NEW n \in 1 .. NumberOfLiveValues(page)
  PROVE  /\ LivePosition(page, n) \in LivePositions(page)
         /\ Cardinality({j \in LivePositions(page) : j < LivePosition(page, n)}) + 1 = n
<1>. DEFINE live == LivePositions(page)
            i == LivePosition(page, n)
            before == {j \in live : j < i}
<1>1. IsFiniteSet(live) /\ live \in SUBSET Nat
  BY LiveValuesFinite
<1>2. PICK most \in Nat : DOMAIN page.values = 1 .. most
  BY DEF Page
<1>3. live \subseteq 1 .. most
  BY <1>2 DEF LivePositions
<1>4. n \in 1 .. Cardinality(live)
  BY DEF NumberOfLiveValues
<1>5. 0 \notin live /\ \A j \in live : j <= most
  BY <1>2, <1>3
<1>6. i = CHOOSE k \in live : Cardinality({j \in live : j <= k}) = n
  BY DEF LivePosition
<1>. HIDE DEF live, i
<1>7. \E k \in live : Cardinality({j \in live : j <= k}) = n
  BY <1>1, <1>2, <1>4, <1>5, NumberedElement DEF UpTo
<1>8. i \in live /\ Cardinality({j \in live : j <= i}) = n
  BY <1>6, <1>7
<1>9. {j \in live : j <= i} = before \union {i} /\ i \notin before
  <2>1. \A j \in live : (j <= i <=> j < i \/ j = i) /\ ~ (i < i)
    BY <1>1, <1>8
  <2>. QED
    BY <1>8, <2>1
<1>10. before \subseteq live
  OBVIOUS
<1>11. IsFiniteSet(before) /\ Cardinality(before) \in Nat
  BY <1>1, <1>10, FS_Subset, FS_CardinalityType
<1>12. Cardinality(before \union {i}) = Cardinality(before) + 1
  BY <1>9, <1>11, FS_AddElement
<1>. QED
  BY <1>8, <1>9, <1>12 DEF live, i

-----------------------------------------------------------------------------
(***************************************************************************)
(* The walk between retrievals.  What the walk keeps it keeps while        *)
(* retrievals run, which change nothing of it but the number of faults.    *)
(***************************************************************************)
DescriptorsCount ==
  \A d \in descriptors :
    IsLeafPage(file[d.page]) /\ d.last - d.first + 1 = NumberOfLiveValues(file[d.page])

WalkInv == TypeInv /\ StartsEmpty /\ DescriptorsTile /\ DescriptorsCount /\ ChainInv

LEMMA DescriptorsCountStep ==
  ASSUME TypeInv, DescriptorsCount, [Next]_vars
  PROVE  DescriptorsCount'
<1>1. file' = file
  BY FileStays
<1>2. CASE CountLeaf
  <2>1. /\ leafCount \in Nat /\ NewTotal \in Nat
        /\ NewDescriptor.page = at /\ at \in PageNumbers
        /\ NewDescriptor.first = leafCount /\ NewDescriptor.last = NewTotal - 1
    BY <1>2, CountLeafAdds
  <2>2. NumberOfLiveValues(Here) \in Nat
    BY <2>1, HerePage, LiveValuesNat DEF TypeInv
  <2>3. NewTotal = leafCount + NumberOfLiveValues(Here)
    BY <1>2 DEF CountLeaf, NewTotal, TypeInv, CountKeepsUp
  <2>4. NewDescriptor.last - NewDescriptor.first + 1 = NumberOfLiveValues(Here)
    BY <2>1, <2>2, <2>3
  <2>5. IsLeafPage(Here) /\ descriptors' = descriptors \union {NewDescriptor}
    BY <1>2 DEF CountLeaf
  <2>. QED
    BY <1>1, <2>1, <2>4, <2>5 DEF DescriptorsCount, Here
<1>3. CASE StartCount
  BY <1>1, <1>3 DEF StartCount, DescriptorsCount, TypeInv, CountKeepsUp
<1>4. CASE ~ CountLeaf /\ ~ StartCount
  <2>1. descriptors' = descriptors
    BY <1>4, OthersKeepDescriptors
  <2>. QED
    BY <1>1, <2>1 DEF DescriptorsCount
<1>. QED
  BY <1>2, <1>3, <1>4

LEMMA WalkInvStep ==
  ASSUME WalkInv, [Next]_vars
  PROVE  WalkInv'
BY NextTypeInv, StartsEmptyStep, TileStep, DescriptorsCountStep, ChainStep DEF WalkInv

LEMMA WalkInvInit == Init => WalkInv
<1>1. Init => DescriptorsTile /\ DescriptorsCount /\ StartsEmpty
  BY DEF Init, DescriptorsTile, DescriptorsCount, StartsEmpty
<1>. QED
  BY <1>1, InitTypeInv, InitChainInv DEF WalkInv

LEMMA SearchKeepsWalk ==
  ASSUME SearchNext \/ UNCHANGED allVars
  PROVE  [Next]_vars \/ (UNCHANGED <<file, walkVars>> /\ faults < MaxFaults /\ faults' = faults + 1)
<1>1. CASE UNCHANGED allVars
  BY <1>1 DEF allVars
<1>2. CASE CountCall
  BY <1>2 DEF CountCall, Next
<1>3. CASE \E i \in Indexes : GetNegativeIndex(i) \/ GetByIndex(i)
  BY <1>3 DEF GetNegativeIndex, GetByIndex, Next
<1>4. CASE CountStep
  BY <1>4 DEF CountStep, Next
<1>5. CASE SearchStep
  BY <1>5 DEF SearchStep, CountReturns, CountReturnsError, ReadBase, ReadBaseFails, SearchLeaf,
              SearchLeafFails, SearchChild, SearchChildFails, ReturnFromPage, SearchEnds
<1>6. CASE SearchFault
  BY <1>6 DEF SearchFault
<1>. QED
  BY <1>1, <1>2, <1>3, <1>4, <1>5, <1>6 DEF SearchNext

LEMMA WalkInvSearchStep ==
  ASSUME WalkInv, SearchNext \/ UNCHANGED allVars
  PROVE  WalkInv'
<1>1. CASE [Next]_vars
  BY <1>1, WalkInvStep
<1>2. CASE UNCHANGED <<file, walkVars>> /\ faults < MaxFaults /\ faults' = faults + 1
  <2>1. /\ file' = file /\ leafCount' = leafCount /\ descriptors' = descriptors /\ seen' = seen
        /\ pc' = pc /\ at' = at /\ depth' = depth /\ lastLeaf' = lastLeaf /\ total' = total
        /\ leafPages' = leafPages /\ answer' = answer
    BY <1>2 DEF walkVars
  <2>2. TypeInv'
    <3>1. faults' \in 0 .. MaxFaults
      BY <1>2, LimitsAssumption DEF WalkInv, TypeInv, TypeOK
    <3>. QED
      BY <2>1, <3>1 DEF WalkInv, TypeInv, TypeOK, CountKeepsUp
  <2>3. DescriptorsTile' /\ DescriptorsCount' /\ StartsEmpty'
    BY <2>1 DEF WalkInv, DescriptorsTile, IndexesOf, DescriptorsCount, StartsEmpty
  <2>4. ChainInv'
    BY <2>1 DEF WalkInv, ChainInv, OnPath, OnChain, CountedFirst, ChainDescriptor, AtPage, SeenOnly,
                BehindFirst
  <2>. QED
    BY <2>2, <2>3, <2>4 DEF WalkInv
<1>. QED
  BY <1>1, <1>2, SearchKeepsWalk

-----------------------------------------------------------------------------
(***************************************************************************)
(* The invariant of a retrieval.  An index that is counted has a           *)
(* descriptor, the search is in its page alone, and it is there until the  *)
(* value is taken.                                                         *)
(***************************************************************************)
Frames == [page : PageNumbers, next : Nat]

ValueIsTaken == current > want => current = want + 1 /\ IsLiveValue(got)

DescriptorIsFollowed ==
  want < leafCount =>
    \E d \in Holding :
      \/ stack = <<Frame(d.page)>> /\ current = d.first
      \/ stack = <<>> /\ current = want + 1 /\ got[1] = d.page /\ d.first + LiveBefore(got) = want

SearchInv ==
  /\ SearchTypeOK
  /\ stage # "none" => want >= 0 /\ found.code # 1
  /\ stage # "none" \/ found.code = 1 => leafCount # -1
  /\ stage \in {"base", "search"} \/ found.code = 1 => pc = "idle"
  /\ stage = "search" => ValueIsTaken /\ DescriptorIsFollowed
  /\ SuccessHasValue /\ ValueHasItsIndex

LEMMA FrontOf ==
  ASSUME NEW s \in Seq(Frames), s # <<>>
  PROVE  Len(s) \in Nat \ {0} /\ Last(s) \in Frames /\ Front(s) \in Seq(Frames)
<1>1. Len(s) \in Nat /\ Len(s) # 0
  OBVIOUS
<1>2. Len(s) \in 1 .. Len(s) /\ Len(s) - 1 \in Nat
  BY <1>1
<1>. QED
  BY <1>1, <1>2 DEF Last, Front

LEMMA TopIsThere ==
  ASSUME SearchTypeOK, Searching
  PROVE  /\ Top \in Frames /\ Top.page \in PageNumbers /\ TopPage \in Page
         /\ stack \in Seq(Frames) /\ Len(stack) \in Nat \ {0} /\ Front(stack) \in Seq(Frames)
<1>1. stack \in Seq(Frames) /\ stack # <<>>
  BY DEF SearchTypeOK, Searching, Frames
<1>2. Top \in Frames /\ Len(stack) \in Nat \ {0} /\ Front(stack) \in Seq(Frames)
  BY <1>1, FrontOf DEF Top
<1>. QED
  BY <1>1, <1>2 DEF SearchTypeOK, TypeOK, File, TopPage, Frames

LEMMA CountedStays ==
  ASSUME TypeInv, [Next]_vars, leafCount # -1
  PROVE  leafCount' # -1
<1>1. CASE CountLeaf
  BY <1>1, CountLeafAdds DEF CountLeaf
<1>2. CASE StartCount
  BY <1>2 DEF StartCount
<1>. QED
  BY <1>1, <1>2, OthersKeepDescriptors

(***************************************************************************)
(* An index that is counted has a descriptor, of a leaf page with a live   *)
(* value for each of its indexes.                                          *)
(***************************************************************************)
LEMMA DescriptorIs ==
  ASSUME WalkInv, NEW d \in Holding, want \in Int
  PROVE  /\ d \in descriptors /\ d.page \in PageNumbers /\ file[d.page] \in Page /\ IsLeafPage(file[d.page])
         /\ d.first \in Nat /\ d.first <= want
         /\ want - d.first < NumberOfLiveValues(file[d.page])
<1>1. d \in descriptors /\ want \in d.first .. d.last
  BY DEF Holding, IndexesOf
<1>2. d.page \in PageNumbers /\ d.first \in Nat /\ d.last \in Int /\ file[d.page] \in Page
  BY <1>1 DEF WalkInv, TypeInv, TypeOK, Descriptor, File
<1>3. IsLeafPage(file[d.page]) /\ d.last - d.first + 1 = NumberOfLiveValues(file[d.page])
  BY <1>1 DEF WalkInv, DescriptorsCount
<1>. QED
  BY <1>1, <1>2, <1>3

LEMMA CountedHasDescriptor ==
  ASSUME WalkInv, want \in Nat, leafCount # -1, want < leafCount
  PROVE  Holding # {}
<1>1. leafCount \in Nat
  BY DEF WalkInv, TypeInv, TypeOK
<1>2. want \in 0 .. leafCount - 1
  BY <1>1
<1>. QED
  BY <1>2 DEF WalkInv, DescriptorsTile, Holding

LEMMA BaseIs ==
  ASSUME WalkInv, want \in Nat
  PROVE  /\ BasePage \in PageNumbers /\ BaseIndex \in Nat /\ BaseIndex <= want
         /\ Holding # {} => \E d \in Holding : BasePage = d.page /\ BaseIndex = d.first
<1>1. CASE Holding = {}
  BY <1>1, RootAssumption DEF BasePage, BaseIndex
<1>2. CASE Holding # {}
  <2>1. PICK d \in Holding : d = CHOOSE e \in Holding : TRUE
    BY <1>2
  <2>2. BasePage = d.page /\ BaseIndex = d.first
    BY <1>2, <2>1 DEF BasePage, BaseIndex
  <2>. QED
    BY <2>2, DescriptorIs
<1>. QED
  BY <1>1, <1>2

-----------------------------------------------------------------------------
LEMMA SearchUnmoved ==
  ASSUME SearchInv, TypeOK', UNCHANGED searchVars, UNCHANGED <<file, leafCount, descriptors, pc>>
  PROVE  SearchInv'
<1>1. /\ stage' = stage /\ want' = want /\ current' = current /\ stack' = stack /\ got' = got /\ found' = found
  BY DEF searchVars
<1>2. Holding' = Holding
  BY <1>1 DEF Holding, IndexesOf
<1>3. SearchTypeOK'
  BY <1>1 DEF SearchInv, SearchTypeOK
<1>4. SuccessHasValue' /\ ValueHasItsIndex'
  BY <1>1, <1>2 DEF SearchInv, SuccessHasValue, ValueHasItsIndex, IsLiveValue, LiveBefore
<1>5. stage' = "search" => ValueIsTaken' /\ DescriptorIsFollowed'
  BY <1>1, <1>2 DEF SearchInv, ValueIsTaken, DescriptorIsFollowed, IsLiveValue, LiveBefore, Frame
<1>. QED
  BY <1>1, <1>3, <1>4, <1>5 DEF SearchInv

LEMMA SearchEndsWithout ==
  ASSUME SearchInv, TypeOK', stage' = "none", stack' = <<>>, got' = NoValue, found'.code # 1,
         found' \in {NotFound, NoResult}, want' \in Int, current' = current
  PROVE  SearchInv'
<1>1. SearchTypeOK'
  BY DEF SearchInv, SearchTypeOK, NoValue, NotFound, NoResult
<1>2. SuccessHasValue' /\ ValueHasItsIndex'
  BY DEF SuccessHasValue, ValueHasItsIndex
<1>. QED
  BY <1>1, <1>2 DEF SearchInv

LEMMA SearchFailsKeeps ==
  ASSUME SearchInv, TypeOK', SearchFails
  PROVE  SearchInv'
BY SearchEndsWithout DEF SearchFails, NotFound, SearchInv, SearchTypeOK

LEMMA CountedTop ==
  ASSUME WalkInv, SearchInv, Searching, want < leafCount
  PROVE  /\ \E d \in Holding : stack = <<Frame(d.page)>> /\ current = d.first /\ Top.page = d.page
         /\ IsLeafPage(TopPage) /\ ~ Passed /\ TakesValue
<1>1. stage = "search" /\ stack # <<>> /\ want \in Int
  BY DEF Searching, SearchInv, SearchTypeOK
<1>2. PICK d \in Holding : stack = <<Frame(d.page)>> /\ current = d.first
  BY <1>1 DEF SearchInv, DescriptorIsFollowed
<1>3. Top = Frame(d.page)
  BY <1>2 DEF Top, Last
<1>4. Top.page = d.page /\ TopPage = file[d.page]
  BY <1>3 DEF TopPage, Frame
<1>5. IsLeafPage(TopPage) /\ current <= want /\ want - current < NumberOfLiveValues(TopPage)
  BY <1>1, <1>2, <1>4, DescriptorIs
<1>6. current \in Nat
  BY DEF SearchInv, SearchTypeOK
<1>. QED
  BY <1>1, <1>2, <1>4, <1>5, <1>6 DEF Passed, TakesValue

LEMMA SearchLeafStep ==
  ASSUME WalkInv, SearchInv, TypeOK', SearchLeaf
  PROVE  SearchInv'
<1>1. /\ Searching /\ ~ Passed /\ IsLeafPage(TopPage)
      /\ stack' = Front(stack) /\ UNCHANGED vars
      /\ stage' = stage /\ want' = want /\ found' = found /\ stage = "search"
  BY DEF SearchLeaf, Searching
<1>2. /\ file' = file /\ leafCount' = leafCount /\ descriptors' = descriptors /\ pc' = pc
  BY <1>1 DEF vars, walkVars
<1>3. Holding' = Holding
  BY <1>1, <1>2 DEF Holding, IndexesOf
<1>4. want \in Nat /\ current \in Nat /\ current <= want /\ found.code # 1 /\ leafCount \in Int
  BY <1>1 DEF SearchInv, SearchTypeOK, Passed, WalkInv, TypeInv, TypeOK
<1>5. Top.page \in PageNumbers /\ TopPage \in Page /\ Front(stack) \in Seq(Frames)
  BY <1>1, TopIsThere DEF SearchInv
<1>6. NumberOfLiveValues(TopPage) \in Nat
  BY <1>5, LiveValuesNat
<1>7. CASE TakesValue
  <2>. DEFINE n == want - current + 1
              i == LivePosition(TopPage, n)
  <2>1. n \in 1 .. NumberOfLiveValues(TopPage)
    BY <1>4, <1>6, <1>7 DEF TakesValue
  <2>2. /\ i \in LivePositions(TopPage)
        /\ Cardinality({j \in LivePositions(TopPage) : j < i}) + 1 = n
    BY <1>5, <2>1, LivePositionIs
  <2>3. got' = <<Top.page, i>> /\ current' = want + 1 /\ CanBeRead(TopPage.values[i])
    BY <1>7 DEF SearchLeaf, Taken, TakenIsRead
  <2>. HIDE DEF i
  <2>4. i \in Nat
    BY <1>5, <2>2, LiveValuesFinite
  <2>5. SearchTypeOK'
    <3>1. Top.page \in Nat
      BY <1>5 DEF PageNumbers
    <3>2. got' \in Nat \X Nat
      BY <2>3, <2>4, <3>1
    <3>3. current' \in Nat
      BY <1>4, <2>3
    <3>. QED
      BY <1>1, <1>5, <3>2, <3>3 DEF SearchInv, SearchTypeOK, Frames
  <2>6. IsLiveValue(got)'
    BY <1>1, <1>2, <1>5, <2>2, <2>3 DEF IsLiveValue, TopPage, CanBeRead
  <2>7. ASSUME want < leafCount
        PROVE  \E d \in Holding : stack' = <<>> /\ got'[1] = d.page /\ d.first + LiveBefore(got)' = want
    <3>1. PICK d \in Holding : stack = <<Frame(d.page)>> /\ current = d.first /\ Top.page = d.page
      BY <1>1, <2>7, CountedTop
    <3>2. stack' = <<>>
      BY <1>1, <3>1 DEF Front
    <3>3. LiveBefore(got)' = Cardinality({j \in LivePositions(TopPage) : j < i})
      BY <1>2, <2>3 DEF LiveBefore, TopPage
    <3>4. LiveBefore(got)' \in Nat
      <4>1. IsFiniteSet(LivePositions(TopPage))
        BY <1>5, LiveValuesFinite
      <4>2. {j \in LivePositions(TopPage) : j < i} \subseteq LivePositions(TopPage)
        OBVIOUS
      <4>. QED
        BY <3>3, <4>1, <4>2, FS_Subset, FS_CardinalityType
    <3>5. LiveBefore(got)' + 1 = want - current + 1
      BY <2>2, <3>3
    <3>6. current + LiveBefore(got)' = want
      BY <1>4, <3>4, <3>5
    <3>. QED
      BY <2>3, <3>1, <3>2, <3>6
  <2>8. DescriptorIsFollowed'
    BY <1>1, <1>2, <1>3, <2>3, <2>7 DEF DescriptorIsFollowed
  <2>9. ValueIsTaken'
    BY <1>1, <2>3, <2>6 DEF ValueIsTaken
  <2>10. SuccessHasValue' /\ ValueHasItsIndex'
    BY <1>1, <1>4 DEF SuccessHasValue, ValueHasItsIndex
  <2>. QED
    BY <1>1, <1>2, <2>5, <2>8, <2>9, <2>10 DEF SearchInv
<1>8. CASE ~ TakesValue
  <2>1. current' = current + NumberOfLiveValues(TopPage) /\ got' = got
    BY <1>8 DEF SearchLeaf
  <2>2. current' \in Nat /\ ~ (current' > want)
    BY <1>4, <1>6, <1>8, <2>1 DEF TakesValue
  <2>3. SearchTypeOK'
    BY <1>1, <1>5, <2>1, <2>2 DEF SearchInv, SearchTypeOK, Frames
  <2>4. ~ (want < leafCount)
    BY <1>1, <1>8, CountedTop
  <2>5. ValueIsTaken' /\ DescriptorIsFollowed'
    BY <1>1, <1>2, <2>2, <2>4 DEF ValueIsTaken, DescriptorIsFollowed
  <2>6. SuccessHasValue' /\ ValueHasItsIndex'
    BY <1>1, <1>4 DEF SuccessHasValue, ValueHasItsIndex
  <2>. QED
    BY <1>1, <1>2, <2>3, <2>5, <2>6 DEF SearchInv
<1>. QED
  BY <1>7, <1>8

(***************************************************************************)
(* The steps on the pages of a tree search: they are not taken for an      *)
(* index that is counted, and take no value.                               *)
(***************************************************************************)
LEMMA StackStep ==
  ASSUME WalkInv, SearchInv, TypeOK', Searching, Passed \/ ~ IsLeafPage(TopPage),
         stack' \in Seq(Frames), UNCHANGED <<vars, stage, want, current, got, found>>
  PROVE  SearchInv'
<1>1. /\ stage' = stage /\ want' = want /\ current' = current /\ got' = got /\ found' = found
      /\ file' = file /\ leafCount' = leafCount /\ pc' = pc /\ stage = "search"
  BY DEF vars, walkVars, Searching
<1>2. SearchTypeOK'
  BY <1>1 DEF SearchInv, SearchTypeOK, Frames
<1>3. ~ (want < leafCount)
  BY CountedTop
<1>4. ValueIsTaken' /\ DescriptorIsFollowed'
  BY <1>1, <1>3 DEF SearchInv, ValueIsTaken, DescriptorIsFollowed, IsLiveValue
<1>5. SuccessHasValue' /\ ValueHasItsIndex'
  BY <1>1 DEF SearchInv, SuccessHasValue, ValueHasItsIndex
<1>. QED
  BY <1>1, <1>2, <1>4, <1>5 DEF SearchInv

LEMMA SearchChildStep ==
  ASSUME WalkInv, SearchInv, TypeOK', SearchChild
  PROVE  SearchInv'
<1>1. Searching /\ ~ IsLeafPage(TopPage) /\ Ahead # {}
      /\ UNCHANGED <<vars, stage, want, current, got, found>>
  BY DEF SearchChild, HasNext
<1>2. TopPage \in Page /\ stack \in Seq(Frames) /\ Len(stack) \in Nat \ {0}
  BY <1>1, TopIsThere DEF SearchInv
<1>3. NextPosition \in Nat
  <2>1. Ahead \in SUBSET Nat
    BY <1>2, LiveValuesFinite DEF Ahead
  <2>2. PICK i \in Ahead : \A j \in Ahead : i <= j
    BY <1>1, <2>1, HasFirst
  <2>3. NextPosition \in Ahead
    BY <2>2 DEF NextPosition
  <2>. QED
    BY <2>1, <2>3
<1>4. SkippedTop \in Seq(Frames)
  <2>1. Len(stack) \in DOMAIN stack /\ stack[Len(stack)] \in Frames
    BY <1>2
  <2>2. [stack[Len(stack)] EXCEPT !.next = NextPosition + 1] \in Frames
    BY <1>3, <2>1 DEF Frames
  <2>. QED
    BY <1>2, <2>1, <2>2 DEF SkippedTop
<1>5. stack' \in Seq(Frames)
  <2>1. CASE Child \in PageNumbers
    <3>1. Frame(Child) \in Frames
      BY <2>1 DEF Frame, Frames
    <3>2. stack' = Append(SkippedTop, Frame(Child))
      BY <2>1 DEF SearchChild
    <3>. QED
      BY <1>4, <3>1, <3>2
  <2>2. CASE Child \notin PageNumbers
    BY <1>4, <2>2 DEF SearchChild
  <2>. QED
    BY <2>1, <2>2
<1>. QED
  BY <1>1, <1>5, StackStep

LEMMA ReturnStep ==
  ASSUME WalkInv, SearchInv, TypeOK', ReturnFromPage
  PROVE  SearchInv'
<1>1. /\ Searching /\ (Passed \/ ~ IsLeafPage(TopPage)) /\ stack' = Front(stack)
      /\ UNCHANGED <<vars, stage, want, current, got, found>>
  BY DEF ReturnFromPage
<1>2. stack' \in Seq(Frames)
  BY <1>1, TopIsThere DEF SearchInv
<1>. QED
  BY <1>1, <1>2, StackStep

LEMMA ReadBaseStep ==
  ASSUME WalkInv, SearchInv, TypeOK', ReadBase
  PROVE  SearchInv'
<1>1. /\ stage = "base" /\ stage' = "search" /\ current' = BaseIndex /\ stack' = <<Frame(BasePage)>>
      /\ want' = want /\ got' = got /\ found' = found
      /\ file' = file /\ leafCount' = leafCount /\ descriptors' = descriptors /\ pc' = pc
  BY DEF ReadBase, vars, walkVars
<1>2. want \in Nat /\ leafCount # -1 /\ leafCount \in Int /\ found.code # 1
  BY <1>1 DEF SearchInv, SearchTypeOK, WalkInv, TypeInv, TypeOK
<1>3. /\ BasePage \in PageNumbers /\ BaseIndex \in Nat /\ BaseIndex <= want
      /\ Holding # {} => \E d \in Holding : BasePage = d.page /\ BaseIndex = d.first
  BY <1>2, BaseIs
<1>4. SearchTypeOK'
  <2>1. Frame(BasePage) \in Frames
    BY <1>3 DEF Frame, Frames
  <2>2. stack' \in Seq(Frames)
    BY <1>1, <2>1
  <2>. QED
    BY <1>1, <1>3, <2>2 DEF SearchInv, SearchTypeOK, Frames
<1>5. ~ (current' > want')
  BY <1>1, <1>2, <1>3
<1>6. want < leafCount => \E d \in Holding : stack' = <<Frame(d.page)>> /\ current' = d.first
  BY <1>1, <1>2, <1>3, CountedHasDescriptor
<1>7. Holding' = Holding
  BY <1>1 DEF Holding, IndexesOf
<1>8. ValueIsTaken' /\ DescriptorIsFollowed'
  BY <1>1, <1>5, <1>6, <1>7 DEF ValueIsTaken, DescriptorIsFollowed, Frame
<1>9. SuccessHasValue' /\ ValueHasItsIndex'
  BY <1>1, <1>2 DEF SuccessHasValue, ValueHasItsIndex
<1>. QED
  BY <1>1, <1>4, <1>8, <1>9 DEF SearchInv

LEMMA SearchEndsStep ==
  ASSUME WalkInv, SearchInv, TypeOK', SearchEnds
  PROVE  SearchInv'
<1>1. CASE current = want + 1
  <2>1. /\ stage = "search" /\ stack = <<>> /\ found' = [code |-> 1, value |-> got]
        /\ stage' = "none" /\ got' = NoValue /\ want' = want /\ current' = current /\ stack' = stack
        /\ file' = file /\ leafCount' = leafCount /\ descriptors' = descriptors /\ pc' = pc
    BY <1>1 DEF SearchEnds, vars, walkVars
  <2>2. want \in Int /\ IsLiveValue(got) /\ got \in Nat \X Nat
    BY <1>1, <2>1 DEF SearchInv, SearchTypeOK, ValueIsTaken
  <2>3. found'.code = 1 /\ found'.value = got /\ found' \in [code : {-1, 0, 1}, value : Nat \X Nat]
    BY <2>1, <2>2
  <2>4. SearchTypeOK'
    BY <2>1, <2>3 DEF SearchInv, SearchTypeOK, NoValue
  <2>5. Holding' = Holding
    BY <2>1 DEF Holding, IndexesOf
  <2>6. want < leafCount => \E d \in Holding : got[1] = d.page /\ d.first + LiveBefore(got) = want
    BY <2>1 DEF SearchInv, DescriptorIsFollowed
  <2>7. SuccessHasValue' /\ ValueHasItsIndex'
    BY <2>1, <2>2, <2>3, <2>5, <2>6 DEF SuccessHasValue, ValueHasItsIndex, IsLiveValue, LiveBefore
  <2>8. leafCount' # -1 /\ pc' = "idle"
    BY <2>1 DEF SearchInv
  <2>. QED
    BY <2>1, <2>4, <2>7, <2>8 DEF SearchInv
<1>2. CASE current # want + 1
  BY <1>2, SearchFailsKeeps DEF SearchEnds
<1>. QED
  BY <1>1, <1>2

LEMMA RetrievalStarts ==
  ASSUME WalkInv, SearchInv, TypeOK', NEW i \in Indexes, GetNegativeIndex(i) \/ GetByIndex(i)
  PROVE  SearchInv'
<1>1. i \in Int
  BY IndexesAssumption
<1>2. CASE GetNegativeIndex(i)
  <2>1. /\ stage' = "none" /\ want' = i /\ found' = NotFound /\ found'.code # 1
        /\ current' = current /\ stack' = stack /\ got' = got
    BY <1>2 DEF GetNegativeIndex, NotFound
  <2>2. SearchTypeOK'
    BY <1>1, <2>1 DEF SearchInv, SearchTypeOK, NotFound, NoValue
  <2>. QED
    BY <2>1, <2>2 DEF SearchInv, SuccessHasValue, ValueHasItsIndex
<1>3. CASE GetByIndex(i)
  <2>1. /\ pc = "idle" /\ i >= 0 /\ want' = i /\ found' = NoResult /\ found'.code # 1
        /\ current' = 0 /\ stack' = stack /\ got' = got
        /\ stage' \in {"count", "base"}
    BY <1>3 DEF GetByIndex, NoResult
  <2>2. leafCount' # -1 /\ (stage' = "base" => pc' = "idle")
    BY <1>3, <2>1 DEF GetByIndex, StartCount, vars, walkVars
  <2>3. SearchTypeOK'
    BY <1>1, <2>1 DEF SearchInv, SearchTypeOK, NoResult, NoValue
  <2>. QED
    BY <2>1, <2>2, <2>3 DEF SearchInv, SuccessHasValue, ValueHasItsIndex
<1>. QED
  BY <1>2, <1>3

LEMMA CountStepKeeps ==
  ASSUME WalkInv, SearchInv, TypeOK', CountStep
  PROVE  SearchInv'
<1>1. pc # "idle" /\ [Next]_vars /\ UNCHANGED searchVars
  BY DEF CountStep, Next, Step, ReadRoot, ReadRootFails, DescendToChild, DescendFails, DescentEnds,
         WalkBack, WalkBackRevisits, WalkBackCannotRead, WalkBackEnds, CountLeaf, PassOver,
         CountFails, CountEnds, ReadFault
<1>2. /\ stage' = stage /\ want' = want /\ current' = current /\ stack' = stack /\ got' = got
      /\ found' = found
  BY <1>1 DEF searchVars
<1>3. stage \notin {"base", "search"} /\ found.code # 1
  BY <1>1 DEF SearchInv
<1>4. leafCount # -1 => leafCount' # -1
  BY <1>1, CountedStays DEF WalkInv
<1>5. SearchTypeOK'
  BY <1>2 DEF SearchInv, SearchTypeOK
<1>. QED
  BY <1>2, <1>3, <1>4, <1>5 DEF SearchInv, SuccessHasValue, ValueHasItsIndex

LEMMA CountCallKeeps ==
  ASSUME WalkInv, SearchInv, TypeOK', CountCall
  PROVE  SearchInv'
<1>1. CASE CachedCount
  BY <1>1, SearchUnmoved DEF CountCall, CachedCount
<1>2. CASE StartCount
  <2>1. leafCount = -1 /\ leafCount' = 0 /\ UNCHANGED searchVars /\ stage = "none"
    BY <1>2 DEF CountCall, StartCount
  <2>2. /\ stage' = stage /\ want' = want /\ current' = current /\ stack' = stack /\ got' = got
        /\ found' = found /\ found.code # 1
    BY <2>1 DEF searchVars, SearchInv
  <2>3. SearchTypeOK'
    BY <2>2 DEF SearchInv, SearchTypeOK
  <2>. QED
    BY <2>1, <2>2, <2>3 DEF SearchInv, SuccessHasValue, ValueHasItsIndex
<1>. QED
  BY <1>1, <1>2 DEF CountCall

LEMMA SearchInvStep ==
  ASSUME WalkInv, SearchInv, SearchNext \/ UNCHANGED allVars
  PROVE  SearchInv'
<1>1. TypeOK'
  BY WalkInvSearchStep DEF WalkInv, TypeInv
<1>2. CASE UNCHANGED allVars
  BY <1>1, <1>2, SearchUnmoved DEF allVars, vars, walkVars
<1>3. CASE CountCall
  BY <1>1, <1>3, CountCallKeeps
<1>4. CASE \E i \in Indexes : GetNegativeIndex(i) \/ GetByIndex(i)
  BY <1>1, <1>4, RetrievalStarts
<1>5. CASE CountStep
  BY <1>1, <1>5, CountStepKeeps
<1>6. CASE CountReturns
  <2>1. /\ stage = "count" /\ stage' = "base" /\ want' = want /\ current' = current
        /\ stack' = stack /\ got' = got /\ found' = found
        /\ pc' = "idle" /\ leafCount' = leafCount
    BY <1>6 DEF CountReturns, vars, walkVars
  <2>2. SearchTypeOK'
    BY <1>1, <2>1 DEF SearchInv, SearchTypeOK
  <2>. QED
    BY <2>1, <2>2 DEF SearchInv, SuccessHasValue, ValueHasItsIndex
<1>7. CASE SearchFails
  BY <1>1, <1>7, SearchFailsKeeps
<1>8. CASE SearchStep
  BY <1>1, <1>6, <1>7, <1>8, ReadBaseStep, SearchLeafStep, SearchChildStep, ReturnStep, SearchEndsStep
     DEF SearchStep, CountReturnsError, ReadBaseFails, SearchLeafFails, SearchChildFails
<1>9. CASE SearchFault
  BY <1>7, <1>9 DEF SearchFault
<1>. QED
  BY <1>2, <1>3, <1>4, <1>5, <1>8, <1>9 DEF SearchNext

LEMMA SearchInvInit == SearchInit => WalkInv /\ SearchInv
<1>. SUFFICES ASSUME SearchInit  PROVE WalkInv /\ SearchInv
  OBVIOUS
<1>1. WalkInv
  BY WalkInvInit DEF SearchInit
<1>2. SearchTypeOK
  <2>1. TypeOK
    BY <1>1 DEF WalkInv, TypeInv
  <2>. QED
    BY <2>1 DEF SearchInit, SearchTypeOK, NoValue, NoResult
<1>3. found.code # 1 /\ stage = "none"
  BY DEF SearchInit, NoResult
<1>. QED
  BY <1>1, <1>2, <1>3 DEF SearchInv, SuccessHasValue, ValueHasItsIndex

LEMMA SearchInvariant == SearchSpec => [](WalkInv /\ SearchInv)
<1>1. SearchInit => WalkInv /\ SearchInv
  BY SearchInvInit
<1>2. WalkInv /\ SearchInv /\ [SearchNext]_allVars => (WalkInv /\ SearchInv)'
  BY WalkInvSearchStep, SearchInvStep
<1>. QED
  BY <1>1, <1>2, PTL DEF SearchSpec

-----------------------------------------------------------------------------
(***************************************************************************)
(* A value of the chain: the descriptor that is followed is the one of a   *)
(* page of the chain.                                                      *)
(***************************************************************************)
LEMMA DescriptorOfTheChain == WalkInv /\ SearchInv => ValueOfTheChain
<1>. SUFFICES ASSUME WalkInv, SearchInv, found.code = 1, want < leafCount,
                     NEW path \in PageSequences, FirstDescent(file, Root, path),
                     NEW chain \in PageSequences, LeafChain(file, chain),
                     EndsOn(path, chain)
              PROVE  \E k \in DOMAIN chain :
                       /\ found.value[1] = chain[k]
                       /\ NumberInFirst(file, chain, k - 1) + LiveBefore(found.value) = want
  BY DEF ValueOfTheChain, Descents, Chains
<1>1. Len(chain) \in Nat /\ DOMAIN chain = 1 .. Len(chain)
  BY PageSequence
<1>2. PICK n \in 0 .. Len(chain) : CountedFirst(chain, n)
  BY DEF WalkInv, ChainInv, OnChain
<1>3. PICK d \in Holding : found.value[1] = d.page /\ d.first + LiveBefore(found.value) = want
  BY DEF SearchInv, ValueHasItsIndex
<1>4. PICK k \in 1 .. n : d = ChainDescriptor(chain, k)
  BY <1>2, <1>3 DEF CountedFirst, Holding
<1>5. d.page = chain[k] /\ d.first = NumberInFirst(file, chain, k - 1)
  BY <1>4 DEF ChainDescriptor
<1>6. k \in DOMAIN chain
  BY <1>1, <1>4
<1>. QED
  BY <1>3, <1>5, <1>6

(***************************************************************************)
(* In every file, whatever calls and reads failed before, a retrieval that *)
(* succeeds returns a live value of a leaf page; that of an index which is *)
(* counted is the one with this index in the page of its descriptor and,   *)
(* when the leaf pages are chained, in the whole chain                     *)
(* (libesedb_page_tree_get_leaf_value_by_index).                           *)
(***************************************************************************)
THEOREM RetrievalIsAlwaysSound == SearchSpec => []RetrievalIsSound
<1>1. WalkInv /\ SearchInv => RetrievalIsSound
  BY DescriptorOfTheChain DEF SearchInv, RetrievalIsSound
<1>. QED
  BY <1>1, SearchInvariant, PTL

-----------------------------------------------------------------------------
(***************************************************************************)
(* A retrieval that fails for an index that is counted was refused the     *)
(* root page or the value, asked for the index that has no next one, or    *)
(* met a fault.  The value it comes to is the one that is wanted, for only *)
(* one descriptor has the index.                                           *)
(***************************************************************************)
LEMMA WantedIsTaken ==
  ASSUME WalkInv, SearchInv, Searching, want < leafCount, want # MaxInt, ValueCanBeRead
  PROVE  TakenIsRead
<1>1. PICK d \in Holding : stack = <<Frame(d.page)>> /\ current = d.first /\ Top.page = d.page
  BY CountedTop
<1>2. PICK e \in Holding : CanBeRead(WantedValue(e))
  BY DEF ValueCanBeRead
<1>3. d = e
  BY <1>1, <1>2 DEF WalkInv, DescriptorsTile, Holding
<1>. QED
  BY <1>1, <1>2, <1>3 DEF TakenIsRead, Taken, TopPage, WantedValue

LEMMA CountedReturnsStep ==
  ASSUME WalkInv, SearchInv, SearchNext, Returning(-1), want < leafCount,
         PageIsAccepted, ValueCanBeRead, want # MaxInt
  PROVE  faults' = faults + 1
<1>1. stage \in {"base", "search"} /\ stage' = "none" /\ found'.code = -1
  BY DEF Returning
<1>2. pc = "idle"
  BY <1>1 DEF SearchInv
<1>3. stage = "search" /\ stack = <<>> => current = want + 1
  <2>1. stage = "search" /\ stack = <<>> =>
          \E d \in Holding : stack = <<Frame(d.page)>> \/ current = want + 1
    BY DEF SearchInv, DescriptorIsFollowed
  <2>. QED
    BY <2>1
<1>4. CASE SearchEnds
  BY <1>1, <1>3, <1>4 DEF SearchEnds
<1>5. ~ SearchChildFails
  BY CountedTop DEF SearchChildFails, HasNext
<1>6. ~ ReadBaseFails
  BY DEF ReadBaseFails, BaseRejected, PageIsAccepted
<1>7. ~ SearchLeafFails
  BY WantedIsTaken DEF SearchLeafFails
<1>8. CASE SearchFault
  BY <1>8 DEF SearchFault
<1>9. ~ CountCall /\ ~ CountReturns /\ ~ CountReturnsError
      /\ (\A i \in Indexes : ~ GetNegativeIndex(i) /\ ~ GetByIndex(i))
  BY <1>1 DEF CountCall, CountReturns, CountReturnsError, GetNegativeIndex, GetByIndex
<1>10. ~ CountStep
  BY <1>1 DEF CountStep, searchVars
<1>11. ~ ReadBase /\ ~ SearchLeaf /\ ~ SearchChild /\ ~ ReturnFromPage
  BY <1>1 DEF ReadBase, SearchLeaf, SearchChild, ReturnFromPage, Searching
<1>. QED
  BY <1>4, <1>5, <1>6, <1>7, <1>8, <1>9, <1>10, <1>11 DEF SearchNext, SearchStep

(***************************************************************************)
(* What is counted can be retrieved: an index below the count is retrieved *)
(* in any file unless a read fails, its value cannot be read, or it is on  *)
(* a root page without the flag of a root; also when the count itself      *)
(* ended early                                                             *)
(* (libesedb_page_tree_get_leaf_value_by_index).                           *)
(***************************************************************************)
THEOREM CountedIsAlwaysRetrieved == SearchSpec => CountedIsRetrieved
<1>. DEFINE Kept == Returning(-1) /\ want < leafCount /\ want # MaxInt /\ ValueCanBeRead /\ PageIsAccepted
                      => faults' = faults + 1
<1>1. WalkInv /\ SearchInv /\ [SearchNext]_allVars => [Kept]_allVars
  BY CountedReturnsStep
<1>. QED
  BY <1>1, SearchInvariant, PTL DEF SearchSpec, CountedIsRetrieved

-----------------------------------------------------------------------------
(***************************************************************************)
(* A chain within the limits is answered.  Its pages are different ones,   *)
(* and in a file that the word can address so are their offsets: the walk  *)
(* back is not refused.  The walk forward is at its n-th page when it has  *)
(* counted n - 1, and has not more values than the whole chain.            *)
(***************************************************************************)
LEMMA ChainRepeatsNoPage ==
  ASSUME NEW f, NEW chain \in PageSequences, LeafChain(f, chain),
         NEW j \in DOMAIN chain, NEW k \in DOMAIN chain, k < j
  PROVE  chain[k] # chain[j]
<1>1. chain \in Seq(PageNumbers) /\ Len(chain) \in Nat \ {0} /\ DOMAIN chain = 1 .. Len(chain)
  BY PageSequence
<1>. DEFINE again == {i \in DOMAIN chain : \E m \in DOMAIN chain : i < m /\ chain[i] = chain[m]}
<1>2. SUFFICES ASSUME again # {}  PROVE FALSE
  OBVIOUS
<1>3. again \in SUBSET Nat
  BY <1>1
<1>4. PICK i \in again : \A h \in again : i <= h
  BY <1>2, <1>3, HasFirst
<1>5. PICK m \in DOMAIN chain : i < m /\ chain[i] = chain[m]
  BY <1>4
<1>6. i \in 1 .. Len(chain) /\ m \in 1 .. Len(chain) /\ m # 1 /\ m - 1 \in DOMAIN chain
  BY <1>1, <1>4, <1>5
<1>7. f[chain[i]].prev = (IF i = 1 THEN 0 ELSE chain[i - 1]) /\ f[chain[m]].prev = chain[m - 1]
  BY <1>4, <1>5, <1>6 DEF LeafChain, IsChained
<1>8. i # 1
  <2>1. chain[m - 1] \in PageNumbers
    BY <1>1, <1>6
  <2>2. chain[m - 1] # 0
    BY <2>1 DEF PageNumbers
  <2>. QED
    BY <1>5, <1>7, <2>2
<1>9. i - 1 \in DOMAIN chain /\ i - 1 < m - 1 /\ ~ (i <= i - 1)
  BY <1>1, <1>5, <1>6, <1>8
<1>10. i - 1 \in again
  BY <1>5, <1>6, <1>7, <1>8, <1>9
<1>. QED
  BY <1>4, <1>9, <1>10

LEMMA OffsetIs ==
  ASSUME FileSize <= WordSize, NEW number \in PageNumbers
  PROVE  /\ PageOffset(number) = (number + 1) * PageSize
         /\ PageOffset(number) < FileSize
<1>1. number \in Nat /\ LastPage + 1 - number \in Nat \ {0} /\ PageSize \in Nat \ {0}
      /\ WordSize \in Nat \ {0} /\ LastPage \in Nat
  BY LastPageAssumption, PageSizeAssumption, WordSizeAssumption DEF PageNumbers
<1>2. (LastPage + 2) * PageSize = (number + 1) * PageSize + (LastPage + 1 - number) * PageSize
  BY <1>1
<1>3. (number + 1) * PageSize \in Nat /\ (LastPage + 1 - number) * PageSize \in Nat \ {0}
  BY <1>1
<1>4. PICK a \in Nat : a = (number + 1) * PageSize
  BY <1>3
<1>5. PICK b \in Nat \ {0} : b = (LastPage + 1 - number) * PageSize
  BY <1>3
<1>6. a < a + b /\ a + b <= WordSize /\ FileSize = a + b
  BY <1>2, <1>4, <1>5 DEF FileSize
<1>7. a % WordSize = a
  BY <1>1, <1>6
<1>. QED
  BY <1>4, <1>6, <1>7 DEF PageOffset

LEMMA OffsetsDiffer ==
  ASSUME FileSize <= WordSize, NEW p \in PageNumbers, NEW q \in PageNumbers,
         PageOffset(p) = PageOffset(q)
  PROVE  p = q
<1>1. p \in Nat /\ q \in Nat /\ PageSize \in Nat \ {0}
  BY PageSizeAssumption DEF PageNumbers
<1>2. (p + 1) * PageSize = (q + 1) * PageSize
  BY OffsetIs
<1>3. ASSUME NEW a \in Nat, NEW b \in Nat, a < b  PROVE (a + 1) * PageSize # (b + 1) * PageSize
  <2>1. (b + 1) * PageSize = (a + 1) * PageSize + (b - a) * PageSize
    BY <1>1
  <2>2. b - a \in Nat \ {0}
    BY <1>3
  <2>3. (b - a) * PageSize \in Nat \ {0} /\ (a + 1) * PageSize \in Nat
    BY <1>1, <2>2
  <2>. QED
    BY <2>1, <2>3
<1>. QED
  BY <1>1, <1>2, <1>3

LEMMA FirstAreFinite ==
  ASSUME NEW f \in File, NEW chain \in PageSequences, NEW n \in 0 .. Len(chain)
  PROVE  IsFiniteSet(ValuesOfFirst(f, chain, n))
<1>1. chain \in Seq(PageNumbers) /\ Len(chain) \in Nat \ {0} /\ DOMAIN chain = 1 .. Len(chain)
  BY PageSequence
<1>. DEFINE infinite == {k \in 0 .. Len(chain) : ~ IsFiniteSet(ValuesOfFirst(f, chain, k))}
<1>2. SUFFICES ASSUME infinite # {}  PROVE FALSE
  OBVIOUS
<1>3. infinite \in SUBSET Nat
  BY <1>1
<1>4. PICK k \in infinite : \A h \in infinite : k <= h
  BY <1>2, <1>3, HasFirst
<1>5. k # 0
  BY <1>4, NoPageYet
<1>6. PICK m \in Nat : k = m + 1 /\ m \in 0 .. Len(chain) /\ ~ (k <= m) /\ m + 1 \in 1 .. Len(chain)
  <2>1. k - 1 \in Nat /\ k = (k - 1) + 1 /\ k - 1 \in 0 .. Len(chain) /\ ~ (k <= k - 1)
        /\ (k - 1) + 1 \in 1 .. Len(chain)
    BY <1>1, <1>4, <1>5
  <2>. QED
    BY <2>1
<1>7. IsFiniteSet(ValuesOfFirst(f, chain, m))
  BY <1>4, <1>6
<1>8. IsFiniteSet(ValuesOfFirst(f, chain, m + 1))
  BY <1>1, <1>6, <1>7, OnePageMore
<1>. QED
  BY <1>4, <1>6, <1>8

LEMMA FirstAreAmongAll ==
  ASSUME NEW f \in File, NEW chain \in PageSequences, NEW n \in 0 .. Len(chain)
  PROVE  NumberInFirst(f, chain, n) <= NumberInFirst(f, chain, Len(chain))
<1>1. Len(chain) \in Nat /\ Len(chain) \in 0 .. Len(chain) /\ 1 .. n \subseteq 1 .. Len(chain)
  BY PageSequence
<1>2. ValuesOfFirst(f, chain, n) \subseteq ValuesOfFirst(f, chain, Len(chain))
  BY <1>1 DEF ValuesOfFirst
<1>3. IsFiniteSet(ValuesOfFirst(f, chain, Len(chain)))
  BY <1>1, FirstAreFinite
<1>. QED
  BY <1>2, <1>3, FS_Subset DEF NumberInFirst

-----------------------------------------------------------------------------
Answered ==
  \A path \in Descents, chain \in Chains : EndsOn(path, chain) /\ ChainWithinLimits(path, chain) =>
    (faults = 0 /\ pc = "idle" /\ leafCount # -1 =>
       /\ leafCount = NumberInFirst(file, chain, Len(chain))
       /\ answer = Success(leafCount))

LEMMA RootIsRead ==
  ASSUME NEW path, NEW chain, OnPath(path), ChainWithinLimits(path, chain)
  PROVE  ~ ReadRootFails
BY DEF ReadRootFails, RootRejected, OnPath, ChainWithinLimits, Here

LEMMA DescentGoesOn ==
  ASSUME TypeInv, NEW path \in PageSequences, FirstDescent(file, Root, path), OnPath(path),
         NEW chain, ChainWithinLimits(path, chain)
  PROVE  ~ DescendFails
<1>. SUFFICES ASSUME DescendFails  PROVE FALSE
  OBVIOUS
<1>1. path \in Seq(PageNumbers) /\ Len(path) \in Nat \ {0} /\ DOMAIN path = 1 .. Len(path)
  BY PageSequence
<1>2. /\ pc = "descend" /\ depth \in Nat /\ depth + 1 \in 1 .. Len(path)
      /\ at = path[depth + 1] /\ at \in PageNumbers
  BY <1>1 DEF DescendFails, OnPath, TypeInv, TypeOK
<1>3. HasChild /\ ChildRejected
  BY DEF DescendFails
<1>4. depth + 1 # Len(path)
  BY <1>2, <1>3 DEF HasChild, Here, FirstDescent
<1>5. depth + 1 \in 1 .. Len(path) - 1 /\ (depth + 1) + 1 \in 1 .. Len(path)
  BY <1>1, <1>2, <1>4, NotTheLast
<1>6. FirstChild = path[(depth + 1) + 1]
  BY <1>2, <1>5, FirstChildIs DEF FirstDescent, Here, TypeInv
<1>7. FirstChild \in PageNumbers
  BY <1>1, <1>5, <1>6
<1>8. ~ (FirstChild < 1) /\ ~ (FirstChild > MaxInt)
  BY <1>7, LimitsAssumption, LastPageAssumption DEF PageNumbers
<1>9. ValidPage(file[FirstChild])
  <2>1. (depth + 1) + 1 \in 2 .. Len(path)
    BY <1>2, <1>5
  <2>. QED
    BY <1>6, <2>1 DEF ChainWithinLimits
<1>10. ~ (depth + 1 > MaxDepth)
  BY <1>1, <1>2, <1>5, LimitsAssumption DEF ChainWithinLimits
<1>. QED
  BY <1>3, <1>8, <1>9, <1>10 DEF ChildRejected

LEMMA WalkBackGoesOn ==
  ASSUME NEW path, NEW chain \in PageSequences, LeafChain(file, chain), OnChain(path, chain),
         ChainWithinLimits(path, chain)
  PROVE  ~ WalkBackRevisits /\ ~ WalkBackCannotRead
<1>. SUFFICES ASSUME WalkBackRevisits \/ WalkBackCannotRead  PROVE FALSE
  OBVIOUS
<1>1. chain \in Seq(PageNumbers) /\ Len(chain) \in Nat \ {0} /\ DOMAIN chain = 1 .. Len(chain)
  BY PageSequence
<1>2. pc = "backward" /\ at # 0 /\ (~ FirstRead \/ ~ Readable(at))
  BY DEF WalkBackRevisits, WalkBackCannotRead
<1>3. PICK k \in 0 .. Len(chain) : AtPage(chain, k) /\ SeenOnly(chain, k) /\ BeforeEnd(path, chain, k)
  BY <1>2 DEF OnChain
<1>4. k \in 1 .. Len(chain) /\ at = chain[k]
  BY <1>1, <1>2, <1>3 DEF AtPage
<1>5. at \in PageNumbers
  BY <1>1, <1>4
<1>6. FileSize <= WordSize
  BY DEF ChainWithinLimits
<1>7. HasBlock(at)
  <2>1. PICK j \in DOMAIN chain : chain[j] = path[Len(path)] /\ k <= j
    BY <1>3 DEF BeforeEnd
  <2>2. k \in DOMAIN chain
    BY <1>1, <1>4
  <2>. QED
    BY <1>4, <2>1, <2>2 DEF ChainWithinLimits
<1>8. ASSUME NEW j \in k + 1 .. Len(chain)  PROVE PageOffset(at) # PageOffset(chain[j])
  <2>1. j \in DOMAIN chain /\ k < j
    BY <1>1, <1>4
  <2>2. chain[j] \in PageNumbers /\ chain[k] # chain[j]
    BY <1>1, <1>4, <2>1, ChainRepeatsNoPage
  <2>. QED
    BY <1>4, <1>5, <1>6, <2>2, OffsetsDiffer
<1>9. PageOffset(at) \notin seen
  BY <1>3, <1>8 DEF SeenOnly
<1>. QED
  BY <1>2, <1>5, <1>7, <1>9 DEF FirstRead, Readable

LEMMA CountGoesOn ==
  ASSUME TypeInv, DescriptorsTile, NEW path, NEW chain \in PageSequences, LeafChain(file, chain),
         OnChain(path, chain), ChainWithinLimits(path, chain)
  PROVE  ~ CountFails
<1>. SUFFICES ASSUME CountFails  PROVE FALSE
  OBVIOUS
<1>1. chain \in Seq(PageNumbers) /\ Len(chain) \in Nat \ {0} /\ DOMAIN chain = 1 .. Len(chain)
  BY PageSequence
<1>2. pc = "forward" /\ at # 0 /\ ForwardRejected
  BY DEF CountFails
<1>3. PICK n \in 0 .. Len(chain) : CountedFirst(chain, n) /\ BehindFirst(chain, n)
  BY <1>2 DEF OnChain
<1>4. n # Len(chain) /\ at = chain[n + 1] /\ leafPages = n
  BY <1>2, <1>3 DEF BehindFirst
<1>5. n \in Nat /\ n + 1 \in 1 .. Len(chain) /\ n + 1 \in 0 .. Len(chain) /\ n + 1 \in DOMAIN chain
  BY <1>1, <1>4, OneMore
<1>6. at \in PageNumbers /\ IsLeafPage(Here)
  <2>1. PICK m \in DOMAIN chain : m = n + 1
    BY <1>5
  <2>2. at = chain[m]
    BY <1>4, <2>1
  <2>. QED
    BY <1>1, <2>2 DEF LeafChain, Here
<1>7. ~ (leafPages > MaxLeafPages)
  <2>1. PICK len \in Nat : len = Len(chain)
    BY <1>1
  <2>2. len <= MaxLeafPages + 1
    BY <2>1 DEF ChainWithinLimits
  <2>3. n + 1 <= len
    BY <1>5, <2>1
  <2>. QED
    BY <1>4, <1>5, <2>2, <2>3, LimitsAssumption
<1>8. file \in File /\ leafCount \in Nat /\ total = leafCount
  BY <1>2 DEF TypeInv, TypeOK, CountKeepsUp
<1>9. /\ NumberInFirst(file, chain, n + 1) = NumberInFirst(file, chain, n) + NumberOfLiveValues(Here)
      /\ leafCount = NumberInFirst(file, chain, n)
  <2>1. IsFiniteSet(ValuesOfFirst(file, chain, n)) /\ leafCount = NumberInFirst(file, chain, n)
    BY <1>3, <1>8 DEF CountedFirst
  <2>2. NumberInFirst(file, chain, n + 1) =
          NumberInFirst(file, chain, n) + NumberOfLiveValues(file[chain[n + 1]])
    BY <1>1, <1>5, <1>8, <2>1, OnePageMore
  <2>. QED
    BY <1>4, <2>1, <2>2 DEF Here
<1>10. NewTotal = NumberInFirst(file, chain, n + 1)
  BY <1>8, <1>9 DEF NewTotal
<1>11. NewTotal \in Nat
  BY <1>6, <1>8, HerePage, LiveValuesNat DEF NewTotal, TypeInv
<1>12. NumberInFirst(file, chain, n + 1) <= NumberInFirst(file, chain, Len(chain))
  BY <1>5, <1>8, FirstAreAmongAll
<1>13. NumberInFirst(file, chain, Len(chain)) \in Nat
  <2>1. Len(chain) \in 0 .. Len(chain)
    BY <1>1
  <2>. QED
    BY <1>8, <2>1, FirstAreFinite, FS_CardinalityType DEF NumberInFirst
<1>14. ~ (NewTotal > MaxInt)
  BY <1>10, <1>11, <1>12, <1>13, LimitsAssumption DEF ChainWithinLimits
<1>15. \A d \in descriptors : ~ SameRange(NewDescriptor, d)
  BY <1>2, <1>6, TileRefusesNone DEF NoDescriptorRefused, CountingLeaf
<1>. QED
  BY <1>2, <1>6, <1>7, <1>14, <1>15 DEF ForwardRejected, Readable

LEMMA AnsweredStep ==
  ASSUME WalkInv, Answered, [Next]_vars
  PROVE  Answered'
<1>1. file' = file
  BY FileStays
<1>2. SUFFICES ASSUME NEW path \in Descents, NEW chain \in Chains, EndsOn(path, chain),
                      ChainWithinLimits(path, chain),
                      faults' = 0, pc' = "idle", leafCount' # -1
               PROVE  /\ leafCount' = NumberInFirst(file, chain, Len(chain))
                      /\ answer' = Success(leafCount')
  BY <1>1 DEF Answered, Descents, Chains, ChainWithinLimits
<1>3. path \in PageSequences /\ FirstDescent(file, Root, path)
      /\ chain \in PageSequences /\ LeafChain(file, chain)
  BY <1>2 DEF Descents, Chains
<1>4. OnPath(path) /\ OnChain(path, chain)
  BY <1>2, <1>3 DEF WalkInv, ChainInv
<1>5. ~ ReadRootFails /\ ~ DescendFails /\ ~ WalkBackRevisits /\ ~ WalkBackCannotRead /\ ~ CountFails
  BY <1>2, <1>3, <1>4, RootIsRead, DescentGoesOn, WalkBackGoesOn, CountGoesOn DEF WalkInv
<1>6. ~ ReadFault
  BY <1>2 DEF ReadFault, WalkInv, TypeInv, TypeOK
<1>7. CASE CountEnds
  <2>1. PICK n \in 0 .. Len(chain) : CountedFirst(chain, n) /\ BehindFirst(chain, n)
    BY <1>4, <1>7 DEF CountEnds, OnChain
  <2>2. chain \in Seq(PageNumbers) /\ Len(chain) \in Nat \ {0} /\ DOMAIN chain = 1 .. Len(chain)
    BY <1>3, PageSequence
  <2>3. n = Len(chain)
    <3>1. ASSUME n # Len(chain) PROVE FALSE
      <4>1. n + 1 \in DOMAIN chain /\ at = chain[n + 1]
        BY <2>1, <2>2, <3>1, OneMore DEF BehindFirst
      <4>2. at \in PageNumbers
        BY <2>2, <4>1
      <4>. QED
        BY <1>7, <4>2 DEF CountEnds, PageNumbers
    <3>. QED
      BY <3>1
  <2>4. leafCount' = leafCount /\ answer' = Success(leafCount)
    BY <1>7 DEF CountEnds
  <2>. QED
    BY <1>2, <2>1, <2>3, <2>4 DEF CountedFirst
<1>8. CASE CachedCount
  <2>1. faults = 0 /\ pc = "idle" /\ leafCount # -1 /\ leafCount' = leafCount /\ answer' = Success(leafCount)
    BY <1>2, <1>8 DEF CachedCount
  <2>. QED
    BY <1>2, <2>1 DEF Answered
<1>9. CASE UNCHANGED vars
  <2>1. faults = 0 /\ pc = "idle" /\ leafCount # -1 /\ leafCount' = leafCount /\ answer' = answer
    BY <1>2, <1>9 DEF vars, walkVars
  <2>. QED
    BY <1>2, <2>1 DEF Answered
<1>10. ~ StartCount /\ ~ ReadRoot /\ ~ DescendToChild /\ ~ DescentEnds /\ ~ WalkBack /\ ~ WalkBackEnds
       /\ ~ CountLeaf /\ ~ PassOver
  BY <1>2 DEF StartCount, ReadRoot, DescendToChild, DescentEnds, WalkBack, WalkBackEnds, CountLeaf, PassOver
<1>. QED
  BY <1>5, <1>6, <1>7, <1>8, <1>9, <1>10 DEF Next, Step

LEMMA AnsweredIsAnswer == WalkInv /\ Answered => ChainIsAnswered
<1>. SUFFICES ASSUME WalkInv, Answered, faults = 0, answer # NoAnswer,
                     NEW path \in Descents, NEW chain \in Chains, EndsOn(path, chain),
                     ChainWithinLimits(path, chain)
              PROVE  answer = Success(NumberInFirst(file, chain, Len(chain)))
  BY DEF ChainIsAnswered
<1>1. leafCount # -1 /\ pc = "idle"
  BY DEF WalkInv, StartsEmpty
<1>. QED
  BY <1>1 DEF Answered

(***************************************************************************)
(* In every file, when the descent by first values ends at a page that is  *)
(* on a chain of leaf pages, a completed walk has counted that chain: its  *)
(* number of values, and a descriptor with the right indexes for each of   *)
(* its pages and for no other.  Within the limits and without a fault no   *)
(* call fails and each returns that number (libesedb_page_tree.c,          *)
(* get_number_of_leaf_values).                                             *)
(***************************************************************************)
THEOREM CountIsAlwaysExact == Spec => []CountIsExact
<1>1. Init => WalkInv /\ Answered
  <2>1. Init => Answered
    BY DEF Init, Answered
  <2>. QED
    BY <2>1, WalkInvInit
<1>2. WalkInv /\ Answered /\ [Next]_vars => (WalkInv /\ Answered)'
  BY WalkInvStep, AnsweredStep
<1>3. WalkInv /\ Answered => CountIsExact
  BY CompletedCountsChain, AnsweredIsAnswer DEF WalkInv, CountIsExact
<1>. QED
  BY <1>1, <1>2, <1>3, PTL DEF Spec
=============================================================================
