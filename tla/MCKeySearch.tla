---------------------------- MODULE MCKeySearch ----------------------------
(***************************************************************************)
(* Instances of KeySearch: trees with two leaf pages for every choice of   *)
(* three keys, the way they are split and the key that separates them; a   *)
(* deeper tree of long values; and trees with a broken page.               *)
(***************************************************************************)
EXTENDS KeySearch

\* Two bytes with the highest bit clear, two with it set.
Keys == {<<0>>, <<1>>, <<0, 0>>, <<0, 1>>, <<1, 2>>, <<0, 3>>}

LeafVal(common, local) == [defunct |-> FALSE, ref |-> 0, common |-> common, local |-> local]
BranchVal(key, ref) == [defunct |-> FALSE, ref |-> ref, common |-> 0, local |-> key]

PageOf(flags, header, values) ==
  [flags |-> flags, prev |-> 0, next |-> 0, bare |-> FALSE, header |-> header, values |-> values]

\* The first byte of the keys is in the header when they have it in common.
LeafOf(keys) ==
  IF Len(keys) > 1 /\ \A i \in DOMAIN keys : keys[i][1] = keys[1][1]
  THEN PageOf({"leaf"}, <<keys[1][1]>>, [i \in DOMAIN keys |-> LeafVal(1, Tail(keys[i]))])
  ELSE PageOf({"leaf"}, <<>>, [i \in DOMAIN keys |-> LeafVal(0, keys[i])])

RootOf(values) == PageOf({"root"}, <<>>, values)

Bare == [PageOf({"leaf"}, <<>>, <<>>) EXCEPT !.bare = TRUE]
Unused == PageOf({"leaf", "empty"}, <<>>, <<>>)

Sorted(keys) == SetToSortSeq(keys, Precedes)

TwoLeaves(keys, split, separator) ==
  <<RootOf(<<BranchVal(separator, 2), BranchVal(<<>>, 3)>>),
    LeafOf(SubSeq(Sorted(keys), 1, split)),
    LeafOf(SubSeq(Sorted(keys), split + 1, Len(Sorted(keys)))),
    Unused, Unused>>

Trees == {TwoLeaves(keys, split, separator) :
            keys \in kSubset(3, Keys), split \in 1 .. 2, separator \in Keys}

\* Long value 0 with two segments, and 1 with one, over two levels of branches.
LongValues ==
  <<RootOf(<<BranchVal(<<0, 1>>, 3), BranchVal(<<>>, 2)>>),
    PageOf({}, <<>>, <<[BranchVal(<<0>>, 4) EXCEPT !.defunct = TRUE], BranchVal(<<1>>, 4), BranchVal(<<2>>, 5)>>),
    LeafOf(<<<<0>>, <<0, 0>>>>),
    LeafOf(<<<<0, 1>>>>),
    LeafOf(<<<<1>>, <<1, 0>>>>)>>

Base == TwoLeaves({<<0>>, <<0, 1>>, <<1, 2>>}, 2, <<1>>)

Broken ==
  {[Base EXCEPT ![p] = page] : p \in 1 .. 3, page \in
     {Bare, Unused, PageOf({"root", "leaf"}, <<0>>, <<LeafVal(1, <<1>>)>>),
      PageOf({"leaf"}, <<>>, <<LeafVal(1, <<1>>)>>), PageOf({"leaf", "space"}, <<>>, <<>>),
      RootOf(<<BranchVal(<<>>, 0)>>), RootOf(<<BranchVal(<<1>>, 6), BranchVal(<<>>, 3)>>),
      PageOf({}, <<>>, <<BranchVal(<<1>>, 3), BranchVal(<<>>, 2)>>)}}

Healthy == Trees \union {LongValues}
AllFiles == Healthy \union Broken

AllSearches ==
  {[type |-> "index value", key |-> key] : key \in Keys}
  \union {[type |-> "long value", key |-> key] : key \in {<<0>>, <<1>>, <<1, 0>>, <<2>>}}
  \union {[type |-> "long value segment", key |-> key] : key \in {<<0, 0>>, <<0, 1>>, <<1, 0>>, <<1, 1>>}}
=============================================================================
