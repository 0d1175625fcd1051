--------------------------- MODULE PageTreeOrder ---------------------------
(***************************************************************************)
(* The reference for what the page tree code should find: the leaf pages   *)
(* of a tree in the order of its branch values, the values that they hold, *)
(* and when the pages of a file form a tree whose leaf pages are chained   *)
(* in that same order.                                                     *)
(***************************************************************************)
EXTENDS Pages, SequencesExt

ChildPages(page) ==
  IF IsLeafPage(page) THEN <<>>
  ELSE LET live == SelectSeq(page.values, LAMBDA value : ~ value.defunct)
       IN  [i \in DOMAIN live |-> live[i].ref]

\* The leaf pages below a page, down to a depth that no page exceeds.
LeafPages(f, root) ==
  LET Under[d \in 0 .. LastPage] ==
        [p \in PageNumbers |->
          IF IsLeafPage(f[p]) THEN <<p>>
          ELSE IF d = 0 THEN <<>>
          ELSE FlattenSeq([i \in DOMAIN ChildPages(f[p]) |->
                             IF ChildPages(f[p])[i] \in PageNumbers
                             THEN Under[d - 1][ChildPages(f[p])[i]] ELSE <<>>])]
  IN  Under[LastPage][root]

PagesBelow(f, root) ==
  LET Reach[d \in 0 .. LastPage] ==
        IF d = 0 THEN {root}
        ELSE Reach[d - 1] \union
             UNION {ToSet(ChildPages(f[p])) : p \in Reach[d - 1] \intersect PageNumbers}
  IN  Reach[LastPage]

\* How many values of branch pages refer to the page.
References(f, root, number) ==
  Cardinality(UNION {{<<p, i>> : i \in {j \in DOMAIN ChildPages(f[p]) : ChildPages(f[p])[j] = number}}
                       : p \in PagesBelow(f, root)})

\* The pages below the root form a tree of valid pages, without empty branches.
IsTree(f, root) ==
  LET below == PagesBelow(f, root) IN
  /\ below \subseteq PageNumbers
  /\ ValidRootPage(f[root]) /\ (IsLeafPage(f[root]) \/ (f[root].prev = 0 /\ f[root].next = 0))
  /\ \A p \in below \ {root} : ValidPage(f[p]) /\ References(f, root, p) = 1
  /\ References(f, root, root) = 0
  /\ \A p \in below : ~ IsLeafPage(f[p]) => ChildPages(f[p]) # <<>>

\* The leaf pages are linked, both ways, in the order of the tree.
IsChained(f, chain) ==
  \A i \in DOMAIN chain :
    /\ f[chain[i]].prev = IF i = 1 THEN 0 ELSE chain[i - 1]
    /\ f[chain[i]].next = IF i = Len(chain) THEN 0 ELSE chain[i + 1]

LeafChain(f, chain) == (\A i \in DOMAIN chain : IsLeafPage(f[chain[i]])) /\ IsChained(f, chain)

\* What chains and descents range over: without a repetition none is longer.
PageSequences == UNION {[1 .. n -> PageNumbers] : n \in PageNumbers}

\* The pages from the root to a leaf page, always by the first live value.
IsFirstChild(page, number) ==
  \E i \in LivePositions(page) : page.values[i].ref = number /\ \A j \in LivePositions(page) : i <= j

FirstDescent(f, root, path) ==
  /\ path[1] = root
  /\ \A i \in 1 .. Len(path) - 1 : ~ IsLeafPage(f[path[i]]) /\ IsFirstChild(f[path[i]], path[i + 1])
  /\ IsLeafPage(f[path[Len(path)]])

\* The live values of the first n pages of a chain, as <<place of the page, position>>.
ValuesOfFirst(f, chain, n) == UNION {{k} \X LivePositions(f[chain[k]]) : k \in 1 .. n}

NumberInFirst(f, chain, n) == Cardinality(ValuesOfFirst(f, chain, n))

WellFormed(f, root) == IsTree(f, root) /\ IsChained(f, LeafPages(f, root))

\* The live values of a page, then of the tree, as <<page, position>>.
ValuesOfPage(f, p) ==
  [i \in 1 .. NumberOfLiveValues(f[p]) |->
     <<p, LivePosition(f[p], i)>>]

LeafValues(f, root) ==
  LET chain == LeafPages(f, root)
  IN  FlattenSeq([i \in DOMAIN chain |-> ValuesOfPage(f, chain[i])])
=============================================================================
