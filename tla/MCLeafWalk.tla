---------------------------- MODULE MCLeafWalk -----------------------------
(***************************************************************************)
(* Instances of LeafWalk: files of a few pages, with every link and child  *)
(* reference the code can meet, and trees of three levels.                 *)
(***************************************************************************)
EXTENDS LeafWalk

Live(refs) == [i \in DOMAIN refs |-> [defunct |-> FALSE, ref |-> refs[i]]]
Defunct(ref) == [defunct |-> TRUE, ref |-> ref]

LeafPage(flags, prev, next, values) ==
  [flags |-> flags \union {"leaf"}, prev |-> prev, next |-> next, bare |-> FALSE, values |-> values]
BranchPage(flags, next, values) ==
  [flags |-> flags, prev |-> 0, next |-> next, bare |-> FALSE, values |-> values]

\* 17 wraps to the offset of page 1 in a word of 32 and pages of 2.  With 2 entries in a node the
\* block tree of such a file has no block for page 3.
Links == {0, 2, 3, 17}
Records == {<<>>, Live(<<1>>), <<Defunct(1)>> \o Live(<<1, 0>>)}

LeafChoices(flags) ==
  {LeafPage(flags, prev, next, Live(<<1>>)) : prev \in Links, next \in Links}
  \union {LeafPage(flags, prev, 0, values) : prev \in {0, 1}, values \in Records}

Children == {<<>>, Live(<<0>>), Live(<<1>>), Live(<<2>>), Live(<<2, 3>>), Live(<<3, 2>>),
             Live(<<4>>), <<Defunct(2)>> \o Live(<<3>>)}

BranchChoices(flags) ==
  {BranchPage(flags, next, values) : next \in {0, 2}, values \in Children}

RootChoices ==
  LeafChoices({"root"}) \union BranchChoices({"root"})
  \union {BranchPage({"root", "other"}, 0, Live(<<2, 3>>)), BranchPage({}, 0, Live(<<2, 3>>))}

\* Page 3 is the branch page above page 2, so that the leaf page at the limit of the depth has a block.
DeepFiles ==
  {<<BranchPage({"root"}, 0, Live(<<3>>)), p2, BranchPage({}, next, Live(<<2>>))>> :
     p2 \in LeafChoices({}), next \in {0, 2}}

SmallFiles ==
  DeepFiles
  \union {<<p1, p2, p3>> : p1 \in RootChoices,
                          p2 \in LeafChoices({}) \union BranchChoices({}),
                          p3 \in LeafChoices({})}
=============================================================================
