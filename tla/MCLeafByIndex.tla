--------------------------- MODULE MCLeafByIndex ---------------------------
(***************************************************************************)
(* Instances of LeafByIndex: trees of up to six pages, well formed, and    *)
(* with the links and references broken in one or two places.              *)
(***************************************************************************)
EXTENDS LeafByIndex

Live(refs) == [i \in DOMAIN refs |-> [defunct |-> FALSE, ref |-> refs[i]]]
Defunct(ref) == [defunct |-> TRUE, ref |-> ref]

LeafPage(flags, prev, next, values) ==
  [flags |-> flags \union {"leaf"}, prev |-> prev, next |-> next, bare |-> FALSE, values |-> values]
BranchPage(flags, values) ==
  [flags |-> flags, prev |-> 0, next |-> 0, bare |-> FALSE, values |-> values]

One == Live(<<1>>)
Two == <<Defunct(0)>> \o Live(<<1, 1>>)
Eight == Live(<<1, 1, 1, 1, 1, 1, 1, 1>>)
None == <<Defunct(1)>>

\* One of the values cannot be read, the first or the second live one.
Bad == Live(<<0>>)
HalfBad == <<Defunct(1)>> \o Live(<<1, 0>>)

\* Root 1; branch pages 2 and 3; leaf pages 5, 4, 6 in that order.
DeepTree(v1, v2, v3) ==
  <<BranchPage({"root"}, Live(<<2, 3>>)), BranchPage({}, Live(<<5>>)), BranchPage({}, Live(<<4, 6>>)),
    LeafPage({}, 5, 6, v2), LeafPage({}, 0, 4, v1), LeafPage({}, 4, 0, v3)>>

DeepTrees == {DeepTree(v1, v2, v3) : v1 \in {One, Two, HalfBad}, v2 \in {None, One, Bad}, v3 \in {One, Two}}

\* The pages that do not belong to the tree are empty leaf pages.
Unused == LeafPage({"empty"}, 0, 0, <<>>)

LeafRoots ==
  {<<LeafPage(flags, 0, 0, values), Unused, Unused, Unused, Unused, Unused>> :
     flags \in {{"root"}, {}, {"root", "other"}, {"root", "empty"}}, values \in {None, Two, HalfBad, Eight}}

\* One page of a tree replaced by another.
Replacements ==
  {LeafPage({}, prev, next, One) : prev \in {0, 5}, next \in {0, 4, 5, 6}}
  \union {BranchPage({}, values) : values \in {<<>>, Live(<<0>>), Live(<<1>>), Live(<<4>>), Live(<<7>>),
                                               Live(<<2, 3>>), Live(<<6, 3>>), <<Defunct(3)>> \o Live(<<4, 6>>)}}
  \union {LeafPage({"space"}, 5, 6, One)}

BrokenTrees ==
  {[DeepTree(Two, One, One) EXCEPT ![p] = page] : p \in 2 .. 6, page \in Replacements}
  \union {[DeepTree(Two, One, One) EXCEPT ![1] = [page EXCEPT !.flags = @ \union {"root"}]] : page \in Replacements}

SomeIndexes == {-1, 0, 1, 3, 7}

AllFiles == DeepTrees \union LeafRoots \union BrokenTrees
=============================================================================
