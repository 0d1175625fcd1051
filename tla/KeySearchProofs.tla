-------------------------- MODULE KeySearchProofs --------------------------
(***************************************************************************)
(* Proofs about KeySearch for every file, every key and any limit: the     *)
(* types, that a value which a search hands out has the key that was       *)
(* searched for, and that a key within reach is found.                     *)
(***************************************************************************)
EXTENDS KeySearch, TLAPS, WellFoundedInduction, FiniteSetTheorems

LEMMA LessThan == \A a, b \in Nat : <<a, b>> \in OpToRel(<, Nat) \/ b <= a
BY DEF OpToRel

\* There is a first of some numbers.
LEMMA HasFirst ==
  ASSUME NEW S \in SUBSET Nat, S # {}
  PROVE  \E i \in S : \A j \in S : i <= j
<1>1. \E i \in S : \A j \in S : ~ (<<j, i>> \in OpToRel(<, Nat))
  BY NatLessThanWellFounded, WFMin
<1>. QED
  BY <1>1, LessThan

-----------------------------------------------------------------------------
(***************************************************************************)
(* Two keys that libesedb_page_tree_key_compare finds equal in a leaf      *)
(* page: as many bytes, and each is the byte that is searched for.         *)
(***************************************************************************)
LEMMA EqualBytes ==
  ASSUME NEW first \in Seq(Byte), NEW type \in SearchTypes, NEW second \in Seq(Byte),
         CompareWithLeaf(first, type, second) = "equal"
  PROVE  /\ Len(first) = Len(second)
         /\ \A i \in 1 .. Len(first) : MaskedByte(first, type, second, "leaf", i) = second[i]
<1>. DEFINE order == ByteOrder(first, type, second, "leaf")
            Masked(i) == MaskedByte(first, type, second, "leaf", i)
            Differ == {i \in 1 .. Shorter(first, second) : Masked(i) # second[i]}
            least == CHOOSE i \in Differ : \A j \in Differ : i <= j
<1>1. ~ (order > 0) /\ ~ (order < 0) /\ ~ (Len(first) < Len(second)) /\ ~ (Len(first) > Len(second))
  BY DEF CompareWithLeaf
<1>2. Len(first) = Len(second) /\ Shorter(first, second) = Len(first) /\ Len(first) \in Nat
  BY <1>1 DEF Shorter
<1>3. \A i \in 1 .. Len(first) : Masked(i) \in Int /\ second[i] \in Int
  <2>1. Byte \subseteq Nat /\ Half \in Nat
    BY HalfAssumption DEF Byte
  <2>2. ASSUME NEW i \in 1 .. Len(first)
        PROVE  Masked(i) \in Int /\ second[i] \in Int
    <3>1. i \in 1 .. Len(second) /\ Len(first) + 1 - i \in 1 .. Len(first)
      BY <1>2
    <3>2. first[i] \in Byte /\ second[i] \in Byte /\ first[Len(first) + 1 - i] \in Byte
      BY <3>1
    <3>3. SearchByte(first, type, i) \in Nat
      BY <2>1, <3>2 DEF SearchByte
    <3>4. Masked(i) \in {SearchByte(first, type, i), SearchByte(first, type, i) - Half}
      BY DEF MaskedByte
    <3>. HIDE DEF Masked
    <3>5. \A a, b \in Nat : a \in Int /\ a - b \in Int
      OBVIOUS
    <3>6. Masked(i) \in Int
      BY <2>1, <3>3, <3>4, <3>5
    <3>. QED
      BY <2>1, <3>2, <3>5, <3>6
  <2>. QED
    BY <2>2
<1>4. ASSUME Differ # {}
      PROVE  FALSE
  <2>1. order = Masked(least) - second[least]
    BY <1>4 DEF ByteOrder
  <2>2. least \in Differ
    <3>1. Differ \in SUBSET Nat
      BY <1>2
    <3>. HIDE DEF Differ
    <3>. QED
      BY <1>4, <3>1, HasFirst
  <2>3. Masked(least) # second[least] /\ Masked(least) \in Int /\ second[least] \in Int
    BY <1>2, <1>3, <2>2
  <2>. HIDE DEF order, Masked, least
  <2>. QED
    BY <1>1, <2>1, <2>3
<1>. QED
  BY <1>2, <1>4

LEMMA EqualKeys ==
  ASSUME NEW s \in Search, NEW second \in Seq(Byte), CompareWithLeaf(s.key, s.type, second) = "equal"
  PROVE  second = StoredKey(s) \/ (s.type = "index value" /\ second = ClearSecond(s.key))
<1>. DEFINE first == s.key
            Masked(i) == MaskedByte(first, s.type, second, "leaf", i)
<1>1. first \in Seq(Byte) /\ s.type \in SearchTypes
  BY DEF Search
<1>2. Len(first) = Len(second) /\ \A i \in 1 .. Len(first) : Masked(i) = second[i]
  BY <1>1, EqualBytes
<1>3. CASE s.type = "long value"
  <2>1. \A i \in 1 .. Len(first) : second[i] = first[Len(first) + 1 - i]
    BY <1>2, <1>3 DEF MaskedByte, SearchByte
  <2>2. second = Reverse(first)
    BY <1>1, <1>2, <2>1 DEF Reverse
  <2>3. StoredKey(s) = Reverse(first)
    BY <1>3 DEF StoredKey
  <2>. QED
    BY <2>2, <2>3
<1>4. CASE s.type = "long value segment"
  <2>1. \A i \in 1 .. Len(first) : second[i] = first[i]
    BY <1>2, <1>4 DEF MaskedByte, SearchByte
  <2>2. second = first
    BY <1>1, <1>2, <2>1
  <2>. QED
    BY <1>4, <2>2 DEF StoredKey
<1>5. CASE s.type = "index value"
  <2>1. \A i \in 1 .. Len(first) : i # 2 => second[i] = first[i]
    BY <1>2, <1>5 DEF MaskedByte, SearchByte
  <2>2. ASSUME 2 \in 1 .. Len(first), second[2] # first[2]
        PROVE  first[2] >= Half /\ second[2] = first[2] - Half
    BY <1>2, <1>5, <2>2 DEF MaskedByte, SearchByte
  <2>3. CASE 2 \in 1 .. Len(first) /\ second[2] # first[2]
    <3>1. \A i \in 1 .. Len(first) : i # 2 \/ (first[2] >= Half /\ second[2] = first[2] - Half)
      BY <2>2, <2>3
    <3>2. \A i \in 1 .. Len(first) :
            second[i] = IF i = 2 /\ first[i] >= Half THEN first[i] - Half ELSE first[i]
      BY <2>1, <3>1
    <3>3. second = ClearSecond(first)
      BY <1>1, <1>2, <3>2 DEF ClearSecond
    <3>. QED
      BY <1>5, <3>3
  <2>4. CASE ~ (2 \in 1 .. Len(first) /\ second[2] # first[2])
    <3>1. \A i \in 1 .. Len(first) : second[i] = first[i]
      BY <2>1, <2>4
    <3>2. second = first
      BY <1>1, <1>2, <3>1
    <3>. QED
      BY <1>5, <3>2 DEF StoredKey
  <2>. QED
    BY <2>3, <2>4
<1>. QED
  BY <1>1, <1>3, <1>4, <1>5 DEF SearchTypes

-----------------------------------------------------------------------------
(***************************************************************************)
(* The position that the loop over the values of a page stops at.          *)
(***************************************************************************)
LEMMA NearestIn ==
  ASSUME NEW S \in SUBSET Nat, S # {}
  PROVE  Nearest(S) \in S
BY HasFirst DEF Nearest

Frames == [page : PageNumbers, next : Nat]

LEMMA FrontOf ==
  ASSUME NEW s \in Seq(Frames), s # <<>>
  PROVE  Len(s) \in Nat \ {0} /\ Last(s) \in Frames /\ Front(s) \in Seq(Frames)
<1>1. Len(s) \in Nat /\ Len(s) # 0
  OBVIOUS
<1>2. Len(s) \in 1 .. Len(s) /\ Len(s) - 1 \in Nat
  BY <1>1
<1>. QED
  BY <1>1, <1>2 DEF Last, Front

LEMMA TopIsThere ==
  ASSUME TypeOK, Searching
  PROVE  /\ Top \in Frames /\ Top.page \in PageNumbers /\ TopPage \in KeyedPage
         /\ stack \in Seq(Frames) /\ Len(stack) \in Nat \ {0} /\ Front(stack) \in Seq(Frames)
         /\ LivePositions(TopPage) \subseteq DOMAIN TopPage.values
         /\ Ahead \in SUBSET Nat /\ Ahead \subseteq LivePositions(TopPage)
<1>1. stack \in Seq(Frames) /\ stack # <<>>
  BY DEF TypeOK, Searching, Frames
<1>2. Top \in Frames /\ Len(stack) \in Nat \ {0} /\ Front(stack) \in Seq(Frames)
  BY <1>1, FrontOf DEF Top
<1>3. Top.page \in PageNumbers /\ TopPage \in KeyedPage
  BY <1>2 DEF TypeOK, TopPage, Frames
<1>4. TopPage.values \in Seq(KeyedValue)
  BY <1>3 DEF KeyedPage
<1>5. DOMAIN TopPage.values \subseteq Nat
  BY <1>4
<1>6. LivePositions(TopPage) \subseteq DOMAIN TopPage.values
  BY DEF LivePositions
<1>7. Ahead \subseteq LivePositions(TopPage)
  BY DEF Ahead
<1>. QED
  BY <1>1, <1>2, <1>3, <1>5, <1>6, <1>7

\* A key that starts in the header of its page is one.
LEMMA KeyIs ==
  ASSUME NEW page \in KeyedPage, NEW i \in DOMAIN page.values,
         ~ (page.values[i].common > Len(page.header)) \/ page.values[i].common = 0
  PROVE  KeyOf(page, i) \in Seq(Byte)
<1>. DEFINE common == page.values[i].common
<1>1. page.header \in Seq(Byte) /\ page.values \in Seq(KeyedValue)
  BY DEF KeyedPage
<1>2. page.values[i] \in KeyedValue
  BY <1>1
<1>3. common \in Nat /\ page.values[i].local \in Seq(Byte)
  BY <1>2 DEF KeyedValue
<1>. HIDE DEF common
<1>4. common <= Len(page.header)
  BY <1>1, <1>3 DEF common
<1>5. SubSeq(page.header, 1, common) \in Seq(Byte)
  BY <1>1, <1>3, <1>4
<1>. QED
  BY <1>3, <1>5 DEF KeyOf, common

-----------------------------------------------------------------------------
(***************************************************************************)
(* A value that is handed up the recursion has the key, and the result of  *)
(* a search that is to begin is 0.                                         *)
(***************************************************************************)
HasTheKey(value) ==
  LET key == KeyOf(file[value[1]], value[2]) IN
  \/ key = StoredKey(search)
  \/ search.type = "index value" /\ key = ClearSecond(search.key)

NoBarePage == \A p \in PageNumbers : ~ file[p].bare

Inv ==
  /\ TypeOK
  /\ stage # "search" => result = 0 /\ stack = <<>>
  /\ result = 1 /\ NoBarePage => HasTheKey(got)
  /\ found.code = 1 /\ NoBarePage => HasTheKey(found.value)
  /\ stage # "none" => found = NoAnswer

LEMMA LeafFindsTheKey ==
  ASSUME TypeOK, Searching, IsLeafPage(TopPage), ~ LeafFails, Decisive # {}
  PROVE  /\ <<Top.page, Nearest(Decisive)>> \in Nat \X Nat
         /\ HasTheKey(<<Top.page, Nearest(Decisive)>>)
<1>. DEFINE i == Nearest(Decisive)
            key == KeyOf(TopPage, i)
<1>1. Decisive \in SUBSET Nat /\ Decisive \subseteq LivePositions(TopPage)
  BY TopIsThere DEF Decisive
<1>2. i \in Decisive
  BY <1>1, NearestIn
<1>3. ~ BadKey(i) /\ Order(i) = "equal"
  BY <1>2 DEF LeafFails, Decisive
<1>4. /\ i \in DOMAIN TopPage.values /\ TopPage \in KeyedPage /\ i \in Nat
      /\ Top.page \in PageNumbers /\ TopPage = file[Top.page]
  BY <1>1, <1>2, TopIsThere DEF TopPage
<1>5. ~ (TopPage.values[i].common > Len(TopPage.header)) \/ TopPage.values[i].common = 0
  <2>1. TopPage.values[i] \in KeyedValue
    BY <1>4 DEF KeyedPage
  <2>2. TopPage.values[i].common \in Nat
    BY <2>1 DEF KeyedValue
  <2>. QED
    BY <1>3, <2>2 DEF BadKey
<1>. HIDE DEF i
<1>6. key \in Seq(Byte)
  BY <1>4, <1>5, KeyIs
<1>7. CompareWithLeaf(search.key, search.type, key) = "equal"
  BY <1>3 DEF Order, PageType, Compare
<1>. HIDE DEF key
<1>8. key = StoredKey(search) \/ (search.type = "index value" /\ key = ClearSecond(search.key))
  BY <1>6, <1>7, EqualKeys DEF TypeOK
<1>9. HasTheKey(<<Top.page, i>>)
  BY <1>4, <1>8 DEF HasTheKey, key
<1>. QED
  BY <1>4, <1>9 DEF i, PageNumbers

LEMMA InitInv == Init => Inv
<1>. SUFFICES ASSUME Init
              PROVE  Inv
  OBVIOUS
<1>1. file \in [PageNumbers -> KeyedPage]
  BY FilesAssumption DEF Init
<1>2. search \in Search
  BY SearchesAssumption DEF Init
<1>3. TypeOK
  BY <1>1, <1>2, LimitsAssumption DEF Init, TypeOK, NoValue, NoAnswer, Answer
<1>. QED
  BY <1>3 DEF Init, Inv, NoAnswer, Answer

LEMMA FailInv ==
  ASSUME Inv, Fail, faults' \in 0 .. MaxFaults
  PROVE  Inv'
BY DEF Inv, TypeOK, Fail, Answer, NoValue, NoBarePage

LEMMA NextInv == Inv /\ [Next]_vars => Inv'
<1>. SUFFICES ASSUME Inv, [Next]_vars
              PROVE  Inv'
  OBVIOUS
<1>1. CASE UNCHANGED vars
  BY <1>1 DEF Inv, TypeOK, vars, HasTheKey, NoBarePage
<1>2. ASSUME NEW s \in Searches, GetByKey(s)
      PROVE  Inv'
  <2>1. s \in Search
    BY SearchesAssumption
  <2>. QED
    BY <1>2, <2>1 DEF Inv, TypeOK, GetByKey, NoBarePage, NoAnswer, Answer, NoValue
<1>3. CASE ReadRoot
  <2>1. <<Frame(Root)>> \in Seq(Frames)
    BY RootAssumption DEF Frame, Frames
  <2>. QED
    BY <1>3, <2>1 DEF Inv, TypeOK, Frames, ReadRoot, HasTheKey, NoBarePage
<1>4. CASE ReadRootFails \/ SearchLeafFails \/ SearchChildFails \/ ReadFault
  <2>1. Fail /\ faults' \in 0 .. MaxFaults
    BY <1>4, LimitsAssumption DEF ReadRootFails, SearchLeafFails, SearchChildFails, ReadFault, Inv, TypeOK
  <2>. QED
    BY <2>1, FailInv
<1>5. CASE ReturnFromBarePage
  <2>1. Front(stack) \in Seq(Frames) /\ Searching
    BY <1>5, TopIsThere DEF ReturnFromBarePage, Inv
  <2>2. ~ NoBarePage
    BY <1>5, <2>1, TopIsThere DEF ReturnFromBarePage, NoBarePage, TopPage, Inv
  <2>. QED
    BY <1>5, <2>1, <2>2 DEF Inv, TypeOK, Frames, ReturnFromBarePage, Returns, NoBarePage, Searching
<1>6. CASE SearchLeaf
  <2>1. Front(stack) \in Seq(Frames) /\ Searching
    BY <1>6, TopIsThere DEF SearchLeaf, Inv
  <2>2. CASE Decisive = {}
    BY <1>6, <2>1, <2>2 DEF Inv, TypeOK, Frames, SearchLeaf, Returns, NoBarePage, Searching, HasTheKey
  <2>3. CASE Decisive # {}
    <3>1. got' \in Nat \X Nat /\ HasTheKey(got')
      BY <1>6, <2>3, LeafFindsTheKey DEF SearchLeaf, Inv
    <3>. QED
      BY <1>6, <2>1, <2>3, <3>1 DEF Inv, TypeOK, Frames, SearchLeaf, Returns, NoBarePage, Searching, HasTheKey
  <2>. QED
    BY <2>2, <2>3
<1>7. CASE SearchChild
  <2>1. /\ Searching /\ stack \in Seq(Frames) /\ Len(stack) \in Nat \ {0}
        /\ Top \in Frames /\ Top = stack[Len(stack)]
    BY <1>7, TopIsThere DEF SearchChild, Inv, Top, Last
  <2>2. Candidate \in Nat
    <3>1. Candidates \in SUBSET Nat /\ Candidates # {}
      BY <1>7, TopIsThere DEF SearchChild, Candidates, Inv
    <3>. QED
      BY <3>1, NearestIn DEF Candidate
  <2>3. SkippedTop \in Seq(Frames)
    BY <2>1, <2>2 DEF SkippedTop, Frames
  <2>4. Child \in PageNumbers => Append(SkippedTop, Frame(Child)) \in Seq(Frames)
    BY <2>3 DEF Frame, Frames
  <2>5. stack' \in Seq(Frames)
    BY <1>7, <2>3, <2>4 DEF SearchChild
  <2>. QED
    BY <1>7, <2>1, <2>5 DEF Inv, TypeOK, Frames, SearchChild, NoBarePage, Searching, HasTheKey
<1>8. CASE ReturnFromBranch
  <2>1. Front(stack) \in Seq(Frames) /\ Searching
    BY <1>8, TopIsThere DEF ReturnFromBranch, Inv
  <2>. QED
    BY <1>8, <2>1 DEF Inv, TypeOK, Frames, ReturnFromBranch, Returns, NoBarePage, Searching, HasTheKey
<1>9. CASE SearchEnds
  <2>1. found'.code = result /\ found'.value = got
    BY <1>9 DEF SearchEnds, Answer
  <2>2. found' \in [code : {-1, 0, 1, 2}, value : Nat \X Nat] /\ NoValue \in Nat \X Nat
    BY <1>9 DEF SearchEnds, Answer, Inv, TypeOK, NoValue
  <2>3. TypeOK'
    BY <1>9, <2>2 DEF Inv, TypeOK, SearchEnds
  <2>4. found'.code = 1 /\ NoBarePage' => HasTheKey(found.value)'
    BY <1>9, <2>1 DEF Inv, SearchEnds, NoBarePage, HasTheKey
  <2>. QED
    BY <1>9, <2>3, <2>4 DEF Inv, SearchEnds
<1>. QED
  BY <1>1, <1>2, <1>3, <1>4, <1>5, <1>6, <1>7, <1>8, <1>9 DEF Next, Step

(***************************************************************************)
(* A value that the search by key hands out is a live value with the key   *)
(* that was searched for (libesedb_page_tree_get_leaf_value_by_key).       *)
(***************************************************************************)
THEOREM Soundness == Spec => []SearchIsSound
<1>1. Inv => SearchIsSound
  BY DEF Inv, SearchIsSound, FoundHasTheKey, HasTheKey, NoBarePage
<1>. QED
  BY <1>1, InitInv, NextInv, PTL DEF Spec

-----------------------------------------------------------------------------
(***************************************************************************)
(* The key that is stored for a key that is searched for is equal to it in *)
(* a leaf page, and no branch value whose key it precedes is passed by:    *)
(* unless an index value's key is the start of that of the branch value.   *)
(***************************************************************************)
LEMMA StoredBytes ==
  ASSUME NEW s \in Search
  PROVE  /\ StoredKey(s) \in Seq(Byte) /\ Len(StoredKey(s)) = Len(s.key) /\ Len(s.key) \in Nat
         /\ \A i \in 1 .. Len(s.key) :
              SearchByte(s.key, s.type, i) = StoredKey(s)[i] /\ StoredKey(s)[i] \in Nat
<1>1. s.key \in Seq(Byte) /\ Byte \subseteq Nat
  BY HalfAssumption DEF Search, Byte
<1>2. Len(s.key) \in Nat
  BY <1>1
<1>5. \A i \in 1 .. Len(s.key) : s.key[i] \in Nat
  <2>1. ASSUME NEW q \in Seq(Byte)
        PROVE  \A i \in 1 .. Len(q) : q[i] \in Nat
    BY HalfAssumption DEF Byte
  <2>. QED
    BY <1>1, <2>1, Zenon
<1>3. CASE s.type = "long value"
  <2>1. StoredKey(s) = [i \in 1 .. Len(s.key) |-> s.key[(Len(s.key) - i) + 1]]
    BY <1>3 DEF StoredKey, Reverse
  <2>2. \A i \in 1 .. Len(s.key) : s.key[(Len(s.key) - i) + 1] \in Byte
    BY <1>1
  <2>3. StoredKey(s) \in Seq(Byte) /\ Len(StoredKey(s)) = Len(s.key)
    BY <1>1, <2>1, <2>2
  <2>4. ASSUME NEW i \in 1 .. Len(s.key)
        PROVE  SearchByte(s.key, s.type, i) = StoredKey(s)[i] /\ StoredKey(s)[i] \in Nat
    <3>1. (Len(s.key) - i) + 1 = Len(s.key) + 1 - i
      BY <1>1
    <3>2. StoredKey(s)[i] = s.key[Len(s.key) + 1 - i]
      BY <2>1, <3>1
    <3>3. SearchByte(s.key, s.type, i) = s.key[Len(s.key) + 1 - i]
      BY <1>3 DEF SearchByte
    <3>. QED
      BY <1>1, <2>2, <3>1, <3>2, <3>3
  <2>5. Len(s.key) \in Nat
    BY <1>1
  <2>6. \A i \in 1 .. Len(s.key) :
          SearchByte(s.key, s.type, i) = StoredKey(s)[i] /\ StoredKey(s)[i] \in Nat
    BY <2>4
  <2>. QED
    BY <2>3, <2>5, <2>6, Zenon
<1>4. CASE s.type # "long value"
  <2>1. StoredKey(s) = s.key /\ \A i \in 1 .. Len(s.key) : SearchByte(s.key, s.type, i) = s.key[i]
    BY <1>4, Zenon DEF StoredKey, SearchByte
  <2>. QED
    BY <1>1, <1>2, <1>5, <2>1, Zenon
<1>. QED
  BY <1>3, <1>4

LEMMA StoredIsEqual ==
  ASSUME NEW s \in Search, s.key # <<>>
  PROVE  CompareWithLeaf(s.key, s.type, StoredKey(s)) = "equal"
<1>. DEFINE second == StoredKey(s)
            Masked(i) == MaskedByte(s.key, s.type, second, "leaf", i)
            Differ == {i \in 1 .. Shorter(s.key, second) : Masked(i) # second[i]}
<1>1. Len(second) = Len(s.key) /\ Len(s.key) \in Nat /\ s.key \in Seq(Byte)
  BY StoredBytes DEF Search
<1>2. Len(s.key) # 0
  BY <1>1
<1>3. Shorter(s.key, second) = Len(s.key)
  BY <1>1 DEF Shorter
<1>4. ASSUME NEW i \in 1 .. Len(s.key)
      PROVE  Masked(i) = second[i]
  <2>1. SearchByte(s.key, s.type, i) = second[i] /\ second[i] \in Nat
    BY StoredBytes
  <2>2. \A b \in Nat : ~ (b - Half = b)
    BY HalfAssumption
  <2>3. ~ (SearchByte(s.key, s.type, i) - Half = second[i])
    BY <2>1, <2>2
  <2>. QED
    BY <2>1, <2>3 DEF MaskedByte
<1>5. Differ = {}
  BY <1>3, <1>4
<1>6. ByteOrder(s.key, s.type, second, "leaf") = 0
  BY <1>2, <1>3, <1>5 DEF ByteOrder
<1>. QED
  BY <1>1, <1>6 DEF CompareWithLeaf

LEMMA BranchBytes ==
  ASSUME NEW s \in Search, NEW second \in Seq(Byte)
  PROVE  /\ Len(second) \in Nat /\ \A i \in 1 .. Len(second) : second[i] \in Nat
         /\ \A i \in 1 .. Len(s.key) : MaskedByte(s.key, s.type, second, "branch", i) = StoredKey(s)[i]
         /\ Shorter(s.key, second) = Shorter(StoredKey(s), second)
         /\ Shorter(s.key, second) \in Nat
         /\ Shorter(s.key, second) <= Len(s.key) /\ Shorter(s.key, second) <= Len(second)
<1>1. Len(StoredKey(s)) = Len(s.key) /\ Len(s.key) \in Nat
  BY StoredBytes
<1>2. Len(second) \in Nat /\ \A i \in 1 .. Len(second) : second[i] \in Nat
  BY HalfAssumption DEF Byte
<1>3. \A i \in 1 .. Len(s.key) : MaskedByte(s.key, s.type, second, "branch", i) = StoredKey(s)[i]
  BY StoredBytes DEF MaskedByte
<1>4. Shorter(s.key, second) = Shorter(StoredKey(s), second)
  BY <1>1, <1>2 DEF Shorter
<1>5. /\ Shorter(s.key, second) \in Nat
      /\ Shorter(s.key, second) <= Len(s.key) /\ Shorter(s.key, second) <= Len(second)
  BY <1>1, <1>2 DEF Shorter
<1>. QED
  BY <1>2, <1>3, <1>4, <1>5

LEMMA NoKeyIsNotGreater ==
  ASSUME NEW s \in Search
  PROVE  CompareWithBranch(s.key, s.type, <<>>) # "greater"
<1>1. Len(s.key) \in Nat
  BY StoredBytes
<1>2. Shorter(s.key, <<>>) = 0
  BY <1>1 DEF Shorter
<1>3. ByteOrder(s.key, s.type, <<>>, "branch") = -1
  BY <1>2 DEF ByteOrder
<1>4. ~ (ByteOrder(s.key, s.type, <<>>, "branch") > 0) /\ ByteOrder(s.key, s.type, <<>>, "branch") # 0
  BY <1>3
<1>. QED
  BY <1>4, Zenon DEF CompareWithBranch

LEMMA LowerIsNotGreater ==
  ASSUME NEW s \in Search, NEW second \in Seq(Byte),
         NEW i \in 1 .. Shorter(StoredKey(s), second), StoredKey(s)[i] < second[i],
         \A j \in 1 .. i - 1 : StoredKey(s)[j] = second[j]
  PROVE  CompareWithBranch(s.key, s.type, second) # "greater"
<1>. DEFINE first == StoredKey(s)
            order == ByteOrder(s.key, s.type, second, "branch")
            Masked(j) == MaskedByte(s.key, s.type, second, "branch", j)
            Differ == {j \in 1 .. Shorter(s.key, second) : Masked(j) # second[j]}
            least == CHOOSE j \in Differ : \A k \in Differ : j <= k
<1>1. order = IF Differ # {} THEN Masked(least) - second[least]
              ELSE IF Shorter(s.key, second) = 0 THEN -1 ELSE 0
  BY DEF ByteOrder
<1>2. \A j \in 1 .. Shorter(s.key, second) :
        Masked(j) = first[j] /\ first[j] \in Nat /\ second[j] \in Nat
  <2>1. /\ \A j \in 1 .. Len(s.key) : Masked(j) = first[j] /\ first[j] \in Nat
        /\ \A j \in 1 .. Len(second) : second[j] \in Nat
    BY BranchBytes, StoredBytes
  <2>2. \A j \in 1 .. Shorter(s.key, second) : j \in 1 .. Len(s.key) /\ j \in 1 .. Len(second)
    BY BranchBytes, StoredBytes
  <2>. QED
    BY <2>1, <2>2
<1>3. i \in 1 .. Shorter(s.key, second)
  BY BranchBytes
<1>4. Shorter(s.key, second) \in Nat
  BY BranchBytes
<1>. HIDE DEF order, Masked, first
<1>. USE DEF first
<1>5. i \in Differ
  BY <1>2, <1>3
<1>6. \A j \in Differ : i <= j
  <2>1. ASSUME NEW j \in Differ, ~ (i <= j)
        PROVE  FALSE
    <3>1. j \in 1 .. i - 1
      BY <1>3, <1>4, <2>1
    <3>2. first[j] = second[j]
      BY <3>1
    <3>. QED
      BY <1>2, <2>1, <3>2
  <2>. QED
    BY <2>1
<1>7. least = i
  <2>1. least \in Differ /\ least <= i
    BY <1>5, <1>6
  <2>2. i <= least /\ least \in Nat
    BY <1>4, <1>6, <2>1
  <2>. HIDE DEF least
  <2>. QED
    BY <1>3, <1>4, <2>1, <2>2
<1>8. order = first[i] - second[i]
  BY <1>1, <1>2, <1>3, <1>5, <1>7
<1>9. ~ (order > 0) /\ order # 0
  BY <1>2, <1>3, <1>8
<1>. QED
  BY <1>9 DEF CompareWithBranch, order

LEMMA StartBytes ==
  ASSUME NEW a \in Seq(Byte), NEW b \in Seq(Byte), IsPrefix(a, b)
  PROVE  Len(a) <= Len(b) /\ \A i \in 1 .. Len(a) : a[i] = b[i]
<1>1. Len(a) <= Len(b) /\ SubSeq(a, 1, Len(a)) = SubSeq(b, 1, Len(a))
  BY Zenon DEF IsPrefix
<1>2. \A i \in 1 .. Len(a) : SubSeq(a, 1, Len(a))[i] = a[i]
  BY <1>1
<1>3. \A i \in 1 .. Len(a) : SubSeq(b, 1, Len(a))[i] = b[i]
  BY <1>1
<1>. QED
  BY <1>1, <1>2, <1>3, Zenon

LEMMA StartIsNotGreater ==
  ASSUME NEW s \in Search, NEW second \in Seq(Byte),
         Len(StoredKey(s)) <= Len(second),
         \A i \in 1 .. Len(StoredKey(s)) : StoredKey(s)[i] = second[i]
  PROVE  s.type = "index value" \/ CompareWithBranch(s.key, s.type, second) # "greater"
<1>. DEFINE first == StoredKey(s)
            order == ByteOrder(s.key, s.type, second, "branch")
            Masked(j) == MaskedByte(s.key, s.type, second, "branch", j)
            Differ == {j \in 1 .. Shorter(s.key, second) : Masked(j) # second[j]}
<1>1. Len(first) <= Len(second) /\ \A i \in 1 .. Len(first) : first[i] = second[i]
  OBVIOUS
<1>2. Len(first) = Len(s.key) /\ Len(s.key) \in Nat /\ Len(second) \in Nat
  BY StoredBytes, BranchBytes
<1>3. ~ (Len(s.key) > Len(second))
  BY <1>1, <1>2
<1>4. \A i \in 1 .. Len(s.key) : first[i] = second[i]
  BY <1>1, <1>2
<1>5. \A j \in 1 .. Shorter(s.key, second) : j \in 1 .. Len(s.key)
  BY BranchBytes, StoredBytes
<1>6. Differ = {}
  BY <1>4, <1>5, BranchBytes
<1>7. ~ (order > 0)
  BY <1>6 DEF ByteOrder
<1>. QED
  BY <1>3, <1>7, Zenon DEF CompareWithBranch

LEMMA PrecedingIsNotGreater ==
  ASSUME NEW s \in Search, NEW second \in Seq(Byte), Precedes(StoredKey(s), second),
         ~ (s.type = "index value" /\ IsStrictPrefix(StoredKey(s), second))
  PROVE  CompareWithBranch(s.key, s.type, second) # "greater"
<1>1. CASE IsStrictPrefix(StoredKey(s), second)
  <2>1. /\ Len(StoredKey(s)) <= Len(second) /\ s.type # "index value"
        /\ \A i \in 1 .. Len(StoredKey(s)) : StoredKey(s)[i] = second[i]
    BY <1>1, StoredBytes, StartBytes, Zenon DEF IsStrictPrefix
  <2>. QED
    BY <2>1, StartIsNotGreater, Zenon
<1>2. CASE ~ IsStrictPrefix(StoredKey(s), second)
  BY <1>2, LowerIsNotGreater, Zenon DEF Precedes
<1>. QED
  BY <1>1, <1>2, Zenon

-----------------------------------------------------------------------------
(***************************************************************************)
(* The pages of the recursion are a path without a repetition, which is no *)
(* longer than there are pages.                                            *)
(***************************************************************************)
Distinct(path) == \A i, j \in 1 .. Len(path) : path[i] = path[j] => i = j

LEMMA PathIs ==
  ASSUME NEW path \in Paths
  PROVE  /\ path \in Seq(PageNumbers) /\ Len(path) \in Nat \ {0} /\ Len(path) <= LastPage
         /\ IsPath(path)
<1>1. PICK n \in PageNumbers : path \in [1 .. n -> PageNumbers]
  BY DEF Paths, PageSequences
<1>2. n \in Nat /\ 1 <= n /\ n <= LastPage
  BY LastPageAssumption DEF PageNumbers
<1>3. path \in Seq(PageNumbers) /\ Len(path) = n
  BY <1>1, <1>2
<1>. QED
  BY <1>2, <1>3 DEF Paths

LEMMA IsInPaths ==
  ASSUME NEW path \in Seq(PageNumbers), Len(path) # 0, Len(path) <= LastPage, IsPath(path)
  PROVE  path \in Paths
<1>. DEFINE n == Len(path)
<1>1. n \in PageNumbers
  BY LastPageAssumption DEF PageNumbers
<1>2. path \in [1 .. n -> PageNumbers]
  OBVIOUS
<1>. QED
  BY <1>1, <1>2 DEF Paths, PageSequences

LEMMA NoLongerThanThePages ==
  ASSUME NEW path \in Seq(PageNumbers), Distinct(path)
  PROVE  Len(path) <= LastPage
<1>. DEFINE n == Len(path)
<1>1. n \in Nat /\ path \in [1 .. n -> PageNumbers] /\ LastPage \in Nat /\ LastPage # 0
  BY LastPageAssumption
<1>2. IsFiniteSet(1 .. n) /\ Cardinality(1 .. n) = n
  BY <1>1, FS_Interval
<1>3. IsFiniteSet(PageNumbers) /\ Cardinality(PageNumbers) = LastPage
  BY <1>1, FS_Interval DEF PageNumbers
<1>4. ASSUME LastPage < n
      PROVE  FALSE
  <2>1. \E x, y \in 1 .. n : x # y /\ path[x] = path[y]
    BY <1>1, <1>2, <1>3, <1>4, FS_PigeonHole
  <2>. QED
    BY <2>1 DEF Distinct
<1>. QED
  BY <1>1, <1>4

\* The children of the last page of a path are not on it.
LEMMA PathGrows ==
  ASSUME IsSearchable, NEW path \in Paths, Distinct(path), ~ IsLeafPage(End(path)),
         NEW i \in LivePositions(End(path)), NEW number, number = End(path).values[i].ref
  PROVE  /\ number \in PageNumbers
         /\ Append(path, number) \in Paths /\ Distinct(Append(path, number))
<1>. DEFINE n == Len(path)
            longer == Append(path, number)
<1>1. path \in Seq(PageNumbers) /\ n \in Nat \ {0} /\ IsPath(path)
  BY PathIs
<1>2. number \in PageNumbers /\ number \notin ToSet(path)
  BY DEF IsSearchable, GoodPath
<1>3. /\ longer \in Seq(PageNumbers) /\ Len(longer) = n + 1 /\ longer[n + 1] = number
      /\ \A k \in 1 .. n : longer[k] = path[k]
  BY <1>1, <1>2
<1>4. \A k \in 1 .. n : path[k] # number
  BY <1>1, <1>2 DEF ToSet
<1>5. Distinct(longer)
  <2>1. ASSUME NEW a \in 1 .. n + 1, NEW b \in 1 .. n + 1, longer[a] = longer[b]
        PROVE  a = b
    <3>1. (a \in 1 .. n \/ a = n + 1) /\ (b \in 1 .. n \/ b = n + 1)
      BY <1>1
    <3>. HIDE DEF longer
    <3>. QED
      BY <1>3, <1>4, <2>1, <3>1 DEF Distinct
  <2>. HIDE DEF longer
  <2>. QED
    BY <1>3, <2>1 DEF Distinct
<1>6. Len(longer) <= LastPage
  BY <1>3, <1>5, NoLongerThanThePages
<1>7. IsPath(longer)
  <2>1. longer[1] = Root
    BY <1>1, <1>3 DEF IsPath
  <2>2. ASSUME NEW k \in 1 .. n
        PROVE  IsChild(file[longer[k]], longer[k + 1])
    <3>1. CASE k = n
      <4>1. longer[k] = path[n] /\ longer[k + 1] = number
        BY <1>1, <1>3, <3>1
      <4>2. IsChild(End(path), number)
        BY DEF IsChild
      <4>. HIDE DEF longer
      <4>. QED
        BY <4>1, <4>2 DEF End
    <3>2. CASE k # n
      <4>1. k \in 1 .. n - 1 /\ k \in 1 .. n /\ k + 1 \in 1 .. n
        BY <1>1, <3>2
      <4>2. longer[k] = path[k] /\ longer[k + 1] = path[k + 1]
        BY <1>3, <4>1
      <4>3. IsChild(file[path[k]], path[k + 1])
        BY <1>1, <4>1 DEF IsPath
      <4>. HIDE DEF longer
      <4>. QED
        BY <4>2, <4>3
    <3>. QED
      BY <3>1, <3>2
  <2>3. Len(longer) - 1 = n
    BY <1>1, <1>3
  <2>. HIDE DEF longer
  <2>. QED
    BY <2>1, <2>2, <2>3 DEF IsPath
<1>8. Len(longer) # 0
  BY <1>1, <1>3
<1>. HIDE DEF longer
<1>. QED
  BY <1>2, <1>3, <1>5, <1>6, <1>7, <1>8, IsInPaths DEF longer

LEMMA PathShrinks ==
  ASSUME NEW path \in Paths, Distinct(path), Len(path) # 1
  PROVE  Front(path) \in Paths /\ Distinct(Front(path))
<1>. DEFINE n == Len(path)
            shorter == Front(path)
<1>1. path \in Seq(PageNumbers) /\ n \in Nat /\ n >= 2 /\ n <= LastPage /\ IsPath(path)
  <2>1. path \in Seq(PageNumbers) /\ n \in Nat \ {0} /\ n <= LastPage /\ IsPath(path)
    BY PathIs
  <2>2. \A m \in Nat \ {0} : m # 1 => m >= 2 /\ m \in Nat
    OBVIOUS
  <2>. QED
    BY <2>1, <2>2, Zenon
<1>2. /\ shorter \in Seq(PageNumbers) /\ Len(shorter) = n - 1
      /\ \A k \in 1 .. n - 1 : shorter[k] = path[k]
  BY <1>1 DEF Front
<1>. HIDE DEF shorter
<1>3. Distinct(shorter)
  <2>1. \A a \in 1 .. n - 1 : a \in 1 .. n
    BY <1>1
  <2>. QED
    BY <1>2, <2>1 DEF Distinct
<1>4. IsPath(shorter)
  <2>1. shorter[1] = Root
    BY <1>1, <1>2 DEF IsPath
  <2>2. ASSUME NEW k \in 1 .. (n - 1) - 1
        PROVE  IsChild(file[shorter[k]], shorter[k + 1])
    <3>1. k \in 1 .. n - 1 /\ k + 1 \in 1 .. n - 1
      BY <1>1
    <3>2. shorter[k] = path[k] /\ shorter[k + 1] = path[k + 1]
      BY <1>2, <3>1
    <3>3. IsChild(file[path[k]], path[k + 1])
      BY <1>1, <3>1 DEF IsPath
    <3>. QED
      BY <3>2, <3>3
  <2>. QED
    BY <1>2, <2>1, <2>2 DEF IsPath
<1>5. Len(shorter) # 0 /\ Len(shorter) <= LastPage
  BY <1>1, <1>2, LastPageAssumption
<1>. QED
  BY <1>2, <1>3, <1>4, <1>5, IsInPaths DEF shorter

-----------------------------------------------------------------------------
PagesOf(s) == [t \in 1 .. Len(s) |-> s[t].page]

OnPath(s) == PagesOf(s) \in Paths /\ Distinct(PagesOf(s))

LEMMA PagesOfIs ==
  ASSUME NEW s \in Seq(Frames)
  PROVE  /\ PagesOf(s) \in Seq(PageNumbers) /\ Len(PagesOf(s)) = Len(s) /\ Len(s) \in Nat
         /\ \A t \in 1 .. Len(s) : PagesOf(s)[t] = s[t].page
<1>1. Len(s) \in Nat /\ \A t \in 1 .. Len(s) : s[t] \in Frames
  OBVIOUS
<1>2. \A t \in 1 .. Len(s) : s[t].page \in PageNumbers
  BY <1>1 DEF Frames
<1>. QED
  BY <1>1, <1>2 DEF PagesOf

LEMMA FrontOnPath ==
  ASSUME NEW s \in Seq(Frames), OnPath(s), Front(s) # <<>>
  PROVE  OnPath(Front(s))
<1>1. s # <<>>
  <2>1. ASSUME s = <<>>
        PROVE  FALSE
    <3>1. PagesOf(s) \in Paths /\ Len(PagesOf(s)) = 0
      BY <2>1, PagesOfIs DEF OnPath
    <3>. QED
      BY <3>1, PathIs
  <2>. QED
    BY <2>1
<1>2. Front(s) \in Seq(Frames)
  BY <1>1, FrontOf
<1>3. /\ Len(s) \in Nat /\ Len(Front(s)) = Len(s) - 1 /\ Len(s) # 0
      /\ \A t \in 1 .. Len(s) - 1 : Front(s)[t] = s[t]
  BY <1>1 DEF Front
<1>4. Len(s) # 1
  <2>1. ASSUME Len(s) = 1
        PROVE  Len(Front(s)) = 0
    BY <1>3, <2>1
  <2>2. ASSUME Len(Front(s)) = 0
        PROVE  FALSE
    <3>1. \A r \in Seq(Frames) : Len(r) = 0 => r = <<>>
      OBVIOUS
    <3>. QED
      BY <1>2, <2>2, <3>1, Zenon
  <2>. QED
    BY <2>1, <2>2, Zenon
<1>5. PagesOf(Front(s)) = Front(PagesOf(s))
  <2>1. Front(PagesOf(s)) = [t \in 1 .. Len(s) - 1 |-> s[t].page]
    BY <1>3, PagesOfIs DEF Front
  <2>2. PagesOf(Front(s)) = [t \in 1 .. Len(s) - 1 |-> s[t].page]
    BY <1>3 DEF PagesOf
  <2>. QED
    BY <2>1, <2>2
<1>6. Len(PagesOf(s)) # 1
  BY <1>4, PagesOfIs
<1>. QED
  BY <1>5, <1>6, PathShrinks DEF OnPath

Skipped(s, n) == [s EXCEPT ![Len(s)].next = n]

LEMMA SkippedPages ==
  ASSUME NEW s \in Seq(Frames), s # <<>>, NEW n \in Nat, NEW r, r = Skipped(s, n)
  PROVE  /\ r \in Seq(Frames) /\ Len(r) = Len(s) /\ PagesOf(r) = PagesOf(s) /\ r[Len(s)].next = n
         /\ \A t \in 1 .. Len(s) - 1 : r[t] = s[t]
<1>1. Len(s) \in Nat /\ Len(s) # 0
  OBVIOUS
<1>2. Len(s) \in 1 .. Len(s)
  BY <1>1
<1>3. s[Len(s)] \in Frames
  BY <1>2
<1>4. [s[Len(s)] EXCEPT !.next = n] \in Frames /\ [s[Len(s)] EXCEPT !.next = n].page = s[Len(s)].page
      /\ [s[Len(s)] EXCEPT !.next = n].next = n
  BY <1>3 DEF Frames
<1>5. r = [t \in 1 .. Len(s) |-> IF t = Len(s) THEN [s[Len(s)] EXCEPT !.next = n] ELSE s[t]]
  <2>1. DOMAIN s = 1 .. Len(s)
    OBVIOUS
  <2>2. r = [t \in DOMAIN s |-> IF t = Len(s) THEN [s[Len(s)] EXCEPT !.next = n] ELSE s[t]]
    BY Zenon DEF Skipped
  <2>. QED
    BY <2>1, <2>2, Zenon
<1>6. r \in Seq(Frames) /\ Len(r) = Len(s)
  BY <1>1, <1>4, <1>5
<1>7. r[Len(s)] = [s[Len(s)] EXCEPT !.next = n]
  BY <1>2, <1>5
<1>8. \A t \in 1 .. Len(s) - 1 : r[t] = s[t]
  BY <1>1, <1>5
<1>9. \A t \in 1 .. Len(s) : r[t].page = s[t].page
  <2>1. \A t \in 1 .. Len(s) : t = Len(s) \/ t \in 1 .. Len(s) - 1
    BY <1>1
  <2>. QED
    BY <1>4, <1>7, <1>8, <2>1, Zenon
<1>10. PagesOf(r) = PagesOf(s)
  BY <1>6, <1>9 DEF PagesOf
<1>. QED
  BY <1>4, <1>6, <1>7, <1>8, <1>10

LEMMA AppendedPages ==
  ASSUME NEW s \in Seq(Frames), NEW number \in PageNumbers
  PROVE  /\ Append(s, Frame(number)) \in Seq(Frames)
         /\ PagesOf(Append(s, Frame(number))) = Append(PagesOf(s), number)
<1>1. Frame(number) \in Frames /\ Frame(number).page = number
  BY DEF Frame, Frames
<1>. HIDE DEF Frame
<1>2. /\ Append(s, Frame(number)) \in Seq(Frames) /\ Len(s) \in Nat
      /\ Len(Append(s, Frame(number))) = Len(s) + 1
      /\ Append(s, Frame(number))[Len(s) + 1] = Frame(number)
      /\ \A t \in 1 .. Len(s) : Append(s, Frame(number))[t] = s[t]
  BY <1>1
<1>3. ASSUME NEW p \in Seq(PageNumbers), NEW q \in Seq(PageNumbers), Len(p) = Len(q) + 1,
             p[Len(q) + 1] = number, \A t \in 1 .. Len(q) : p[t] = q[t]
      PROVE  p = Append(q, number)
  <2>1. Append(q, number) \in Seq(PageNumbers) /\ Len(Append(q, number)) = Len(q) + 1
    OBVIOUS
  <2>2. \A t \in 1 .. Len(q) + 1 : Append(q, number)[t] = p[t]
    BY <1>3
  <2>. QED
    BY <1>3, <2>1, <2>2
<1>4. /\ PagesOf(s) \in Seq(PageNumbers) /\ Len(PagesOf(s)) = Len(s)
      /\ \A t \in 1 .. Len(s) : PagesOf(s)[t] = s[t].page
  BY PagesOfIs
<1>5. Len(s) + 1 \in 1 .. Len(s) + 1 /\ \A t \in 1 .. Len(s) : t \in 1 .. Len(s) + 1
  BY <1>2
<1>. DEFINE r == Append(s, Frame(number))
<1>6. /\ PagesOf(r) \in Seq(PageNumbers) /\ Len(PagesOf(r)) = Len(s) + 1
      /\ \A t \in 1 .. Len(s) + 1 : PagesOf(r)[t] = r[t].page
  BY <1>2, PagesOfIs
<1>7. PagesOf(r)[Len(s) + 1] = number /\ \A t \in 1 .. Len(s) : PagesOf(r)[t] = PagesOf(s)[t]
  BY <1>1, <1>2, <1>4, <1>5, <1>6
<1>. HIDE DEF r
<1>8. PagesOf(r) = Append(PagesOf(s), number)
  BY <1>3, <1>4, <1>6, <1>7
<1>. QED
  BY <1>2, <1>8 DEF r

-----------------------------------------------------------------------------
(***************************************************************************)
(* In a searchable file the pages of the recursion are good ones: no key   *)
(* is bad and no child is rejected.                                        *)
(***************************************************************************)
LEMMA TopIsGood ==
  ASSUME TypeOK, IsSearchable, Searching, OnPath(stack)
  PROVE  /\ PagesOf(stack) \in Paths /\ Distinct(PagesOf(stack))
         /\ Len(PagesOf(stack)) = Len(stack) /\ End(PagesOf(stack)) = TopPage
         /\ GoodPath(PagesOf(stack)) /\ ~ TopPage.bare
<1>1. stack \in Seq(Frames) /\ Len(stack) \in Nat \ {0}
  BY TopIsThere
<1>2. Len(stack) \in 1 .. Len(stack)
  BY <1>1
<1>3. PagesOf(stack)[Len(stack)] = Top.page /\ Len(PagesOf(stack)) = Len(stack)
  BY <1>1, <1>2, PagesOfIs DEF Top, Last
<1>4. End(PagesOf(stack)) = TopPage
  BY <1>3 DEF End, TopPage
<1>5. PagesOf(stack) \in Paths /\ Distinct(PagesOf(stack))
  BY DEF OnPath
<1>6. GoodPath(PagesOf(stack))
  BY <1>5 DEF IsSearchable
<1>. QED
  BY <1>3, <1>4, <1>5, <1>6 DEF GoodPath

LEMMA NoKeyIsBad ==
  ASSUME TypeOK, IsSearchable, Searching, OnPath(stack), NEW i \in LivePositions(TopPage)
  PROVE  ~ BadKey(i) /\ KeyOf(TopPage, i) \in Seq(Byte)
<1>. DEFINE common == TopPage.values[i].common
<1>1. TopPage \in KeyedPage /\ i \in DOMAIN TopPage.values
  BY TopIsThere
<1>2. TopPage.values[i] \in KeyedValue
  BY <1>1 DEF KeyedPage
<1>3. common \in Nat /\ Len(TopPage.header) \in Nat
  BY <1>1, <1>2 DEF KeyedValue, KeyedPage
<1>4. common > 0 => "root" \notin TopPage.flags /\ common <= Len(TopPage.header)
  BY TopIsGood DEF GoodPath, GoodKeys
<1>5. ~ (common > Len(TopPage.header)) \/ common = 0
  BY <1>3, <1>4
<1>6. ~ BadKey(i)
  BY <1>3, <1>4 DEF BadKey
<1>. QED
  BY <1>1, <1>5, <1>6, KeyIs

LEMMA CandidateIs ==
  ASSUME TypeOK, Searching, Candidates # {}
  PROVE  /\ Candidate \in LivePositions(TopPage) /\ Candidate \in Nat /\ result = 0
         /\ \A i \in Candidates : Candidate <= i
<1>1. Candidates \in SUBSET Nat /\ Candidates \subseteq LivePositions(TopPage)
  BY TopIsThere DEF Candidates
<1>2. Candidate \in Candidates
  BY <1>1, NearestIn DEF Candidate
<1>3. \A i \in Candidates : Candidate <= i
  <2>1. \E i \in Candidates : \A j \in Candidates : i <= j
    BY <1>1, HasFirst
  <2>. QED
    BY <2>1 DEF Candidate, Nearest
<1>4. result = 0
  BY <1>2 DEF Candidates, Ahead
<1>. QED
  BY <1>1, <1>2, <1>3, <1>4

LEMMA NoChildIsRejected ==
  ASSUME TypeOK, IsSearchable, Searching, OnPath(stack), ~ IsLeafPage(TopPage), Candidates # {}
  PROVE  /\ ~ ChildRejected /\ Child \in PageNumbers
         /\ Append(PagesOf(stack), Child) \in Paths /\ Distinct(Append(PagesOf(stack), Child))
<1>. DEFINE trail == PagesOf(stack)
            longer == Append(trail, Child)
<1>1. /\ trail \in Paths /\ Distinct(trail) /\ Len(trail) = Len(stack) /\ End(trail) = TopPage
  BY TopIsGood
<1>2. Candidate \in LivePositions(TopPage) /\ ~ BadKey(Candidate)
  BY CandidateIs, NoKeyIsBad
<1>3. Child \in PageNumbers /\ longer \in Paths /\ Distinct(longer)
  BY <1>1, <1>2, PathGrows DEF Child
<1>4. /\ trail \in Seq(PageNumbers) /\ Len(trail) \in Nat \ {0}
  BY <1>1, PathIs
<1>5. Len(longer) = Len(stack) + 1 /\ longer[Len(longer)] = Child /\ Len(stack) \in Nat \ {0}
  BY <1>1, <1>3, <1>4
<1>. HIDE DEF longer
<1>6. GoodPath(longer) /\ End(longer) = file[Child]
  BY <1>3, <1>5 DEF IsSearchable, End
<1>7. Len(longer) > 1 /\ Len(longer) <= MaxDepth + 1
  BY <1>5, <1>6 DEF GoodPath
<1>8. ValidPage(file[Child])
  BY <1>6, <1>7 DEF GoodPath
<1>9. ~ (Len(stack) > MaxDepth)
  BY <1>5, <1>7, LimitsAssumption
<1>10. ~ (Child < 1) /\ ~ (Child > MaxInt)
  BY <1>3, LastPageAssumption, LimitsAssumption DEF IsSearchable, PageNumbers
<1>. QED
  BY <1>2, <1>3, <1>8, <1>9, <1>10 DEF ChildRejected, longer

-----------------------------------------------------------------------------
(***************************************************************************)
(* A path to the key that is searched for is not passed by: the recursion  *)
(* is on it, and in the page where it leaves it, or ends, the value that   *)
(* the path goes on by, or the leaf page, is still ahead.                  *)
(***************************************************************************)
AheadAt(s, path, t) ==
  /\ t <= Len(s) /\ \A k \in 1 .. t : s[k].page = path[k]
  /\ IF t = Len(path) THEN s[t].next = 1
     ELSE \E i \in LivePositions(file[path[t]]) :
            file[path[t]].values[i].ref = path[t + 1] /\ i >= s[t].next

KeyAhead(s, path) == \E t \in 1 .. Len(path) : AheadAt(s, path, t)

LEMMA AheadSame ==
  ASSUME NEW s, NEW r, NEW path, NEW t \in Nat \ {0}, AheadAt(s, path, t), t <= Len(r),
         \A k \in 1 .. t : r[k] = s[k]
  PROVE  AheadAt(r, path, t)
<1>1. t \in 1 .. t
  OBVIOUS
<1>2. r[t] = s[t]
  BY <1>1
<1>. QED
  BY <1>2 DEF AheadAt

\* A path that goes on in a page by a live value is ahead when the page is new.
LEMMA AheadWhenNew ==
  ASSUME NEW s \in Seq(Frames), NEW path \in Paths, NEW t \in 1 .. Len(path), t = Len(s), s[t].next = 1,
         \A k \in 1 .. t : s[k].page = path[k], file \in [PageNumbers -> KeyedPage]
  PROVE  AheadAt(s, path, t)
<1>1. path \in Seq(PageNumbers) /\ Len(path) \in Nat /\ IsPath(path)
  BY PathIs
<1>2. ASSUME t # Len(path)
      PROVE  \E i \in LivePositions(file[path[t]]) : file[path[t]].values[i].ref = path[t + 1] /\ i >= 1
  <2>1. t \in 1 .. Len(path) - 1
    BY <1>1, <1>2
  <2>2. IsChild(file[path[t]], path[t + 1])
    BY <1>1, <2>1 DEF IsPath
  <2>3. PICK i \in LivePositions(file[path[t]]) : file[path[t]].values[i].ref = path[t + 1]
    BY <2>2 DEF IsChild
  <2>4. i \in Nat /\ i >= 1
    <3>1. path[t] \in PageNumbers
      BY <1>1
    <3>2. file[path[t]].values \in Seq(KeyedValue)
      BY <3>1 DEF KeyedPage
    <3>3. i \in DOMAIN file[path[t]].values
      BY DEF LivePositions
    <3>. QED
      BY <3>2, <3>3
  <2>. QED
    BY <2>3, <2>4
<1>3. t <= Len(s)
  BY <1>1
<1>. QED
  BY <1>2, <1>3 DEF AheadAt

Wanted ==
  /\ IsSearchable /\ TypeOK /\ Searching /\ OnPath(stack)
  /\ result = 0 /\ search.key # <<>> /\ ~ StartsBranchKey(search)

\* The recursion does not end in a leaf page without looking at the key there.
LEMMA LeafIsAhead ==
  ASSUME Wanted, IsLeafPage(TopPage), NEW path \in Paths, Holds(path, StoredKey(search)),
         AheadAt(stack, path, Len(stack)), Len(stack) \in 1 .. Len(path)
  PROVE  Decisive # {}
<1>. DEFINE t == Len(stack)
<1>1. path \in Seq(PageNumbers) /\ Len(path) \in Nat /\ IsPath(path)
  BY PathIs
<1>2. t \in 1 .. t /\ Top = stack[t]
  BY DEF Top, Last
<1>3. path[t] = Top.page /\ file[path[t]] = TopPage
  BY <1>2 DEF AheadAt, TopPage
<1>4. t = Len(path)
  <2>1. ASSUME t # Len(path)
        PROVE  FALSE
    <3>1. t \in 1 .. Len(path) - 1
      BY <1>1, <2>1
    <3>2. IsChild(file[path[t]], path[t + 1])
      BY <1>1, <3>1 DEF IsPath
    <3>. QED
      BY <1>3, <3>2 DEF IsChild
  <2>. QED
    BY <2>1
<1>5. End(path) = TopPage /\ Top.next = 1
  <2>1. End(path) = TopPage
    BY <1>3, <1>4, Zenon DEF End
  <2>2. Top.next = 1
    BY <1>2, <1>4, Zenon DEF AheadAt
  <2>. QED
    BY <2>1, <2>2
<1>6. PICK i \in LivePositions(TopPage) : KeyOf(TopPage, i) = StoredKey(search)
  BY <1>5 DEF Holds, KeysOf
<1>7. i \in Nat /\ i >= 1
  <2>1. TopPage.values \in Seq(KeyedValue) /\ i \in DOMAIN TopPage.values
    BY TopIsThere DEF KeyedPage, Wanted
  <2>. QED
    BY <2>1
<1>8. i \in Ahead
  BY <1>5, <1>7, TopIsGood DEF Ahead, Wanted
<1>9. Order(i) = "equal"
  <2>1. CompareWithLeaf(search.key, search.type, StoredKey(search)) = "equal"
    BY StoredIsEqual DEF Wanted, TypeOK
  <2>. QED
    BY <1>6, <2>1, Zenon DEF Order, PageType, Compare
<1>. QED
  BY <1>8, <1>9 DEF Decisive

\* No branch value behind which the key is is passed by.
LEMMA BranchIsAhead ==
  ASSUME Wanted, ~ IsLeafPage(TopPage), NEW path \in Paths, Holds(path, StoredKey(search)),
         AheadAt(stack, path, Len(stack)), Len(stack) \in 1 .. Len(path)
  PROVE  /\ Len(stack) # Len(path)
         /\ \E i \in Candidates : TopPage.values[i].ref = path[Len(stack) + 1]
<1>. DEFINE t == Len(stack)
<1>1. path \in Seq(PageNumbers) /\ Len(path) \in Nat /\ IsPath(path)
  BY PathIs
<1>2. t \in 1 .. t /\ Top = stack[t]
  BY DEF Top, Last
<1>3. path[t] = Top.page /\ file[path[t]] = TopPage
  BY <1>2 DEF AheadAt, TopPage
<1>4. t # Len(path)
  BY <1>3, Zenon DEF Holds, End
<1>5. t \in 1 .. Len(path) - 1
  BY <1>1, <1>4
<1>6. PICK i \in LivePositions(TopPage) : TopPage.values[i].ref = path[t + 1] /\ i >= Top.next
  BY <1>2, <1>3, <1>4, Zenon DEF AheadAt
<1>7. i \in Ahead
  BY <1>6, TopIsGood DEF Ahead, Wanted
<1>. DEFINE key == KeyOf(TopPage, i)
<1>8. key \in Seq(Byte) /\ search \in Search
  BY NoKeyIsBad DEF Wanted, TypeOK
<1>9. CompareWithBranch(search.key, search.type, key) # "greater"
  <2>1. CASE key = <<>>
    BY <1>8, <2>1, NoKeyIsNotGreater, Zenon
  <2>2. CASE key # <<>>
    <3>1. Precedes(StoredKey(search), key)
      <4>1. KeysPrecede(path)
        BY DEF Wanted, IsSearchable, Holds
      <4>2. StoredKey(search) \in KeysOf(End(path))
        BY DEF Holds
      <4>3. file[path[t]].values[i].ref = path[t + 1] /\ KeyOf(file[path[t]], i) = key
            /\ i \in LivePositions(file[path[t]])
        BY <1>3, <1>6
      <4>. QED
        BY <1>5, <2>2, <4>1, <4>2, <4>3, Zenon DEF KeysPrecede
    <3>2. ~ (search.type = "index value" /\ IsStrictPrefix(StoredKey(search), key))
      <4>1. ASSUME search.type = "index value", IsStrictPrefix(StoredKey(search), key)
            PROVE  FALSE
        <5>1. StoredKey(search) = search.key
          BY <4>1, Zenon DEF StoredKey
        <5>2. PagesOf(stack) \in Paths /\ End(PagesOf(stack)) = TopPage
          BY TopIsGood DEF Wanted
        <5>3. key \in KeysOf(TopPage)
          BY DEF KeysOf
        <5>. QED
          BY <4>1, <5>1, <5>2, <5>3, Zenon DEF StartsBranchKey, Wanted
      <4>. QED
        BY <4>1, Zenon
    <3>. QED
      BY <1>8, <3>1, <3>2, PrecedingIsNotGreater, Zenon
  <2>. QED
    BY <2>1, <2>2, Zenon
<1>10. Order(i) # "greater"
  BY <1>9, Zenon DEF Order, PageType, Compare
<1>. QED
  BY <1>4, <1>6, <1>7, <1>10 DEF Candidates

-----------------------------------------------------------------------------
(***************************************************************************)
(* In a searchable file: the pages of the recursion are a path, the key is *)
(* ahead as long as nothing is found, and only a fault makes a search      *)
(* fail.                                                                   *)
(***************************************************************************)
KeyIsSought == stage = "search" /\ result = 0 /\ search.key # <<>> /\ ~ StartsBranchKey(search)

StackIsAPath == stage = "search" /\ stack # <<>> => OnPath(stack)

KeyIsAhead == KeyIsSought => \A path \in Paths : Holds(path, StoredKey(search)) => KeyAhead(stack, path)

FoundIsKnown ==
  /\ found.code = -1 => faults > 0
  /\ found.code = 0 => (KeyIsThere => StartsBranchKey(search))

Complete == IsSearchable => StackIsAPath /\ KeyIsAhead /\ FoundIsKnown

LEMMA SameFile ==
  ASSUME file' = file
  PROVE  Paths' = Paths /\ (IsSearchable' <=> IsSearchable)
<1>1. Paths' = Paths
  BY DEF Paths, IsPath, IsChild
<1>2. \A path : GoodPath(path)' <=> GoodPath(path)
  BY DEF GoodPath, End, GoodKeys
<1>3. \A path : KeysPrecede(path)' <=> KeysPrecede(path)
  BY DEF KeysPrecede, KeysOf, KeyOf, End
<1>4. \A path : IsLeafPage(End(path))' <=> IsLeafPage(End(path))
  BY DEF End, IsLeafPage
<1>. QED
  BY <1>1, <1>2, <1>3, <1>4 DEF IsSearchable

LEMMA SameSearch ==
  ASSUME file' = file, search' = search
  PROVE  /\ StartsBranchKey(search)' <=> StartsBranchKey(search)
         /\ \A path : Holds(path, StoredKey(search))' <=> Holds(path, StoredKey(search))
         /\ KeyIsThere' <=> KeyIsThere
<1>1. Paths' = Paths
  BY SameFile
<1>2. \A path : Holds(path, StoredKey(search))' <=> Holds(path, StoredKey(search))
  BY DEF Holds, End, IsLeafPage, KeysOf, KeyOf, StoredKey
<1>3. StartsBranchKey(search)' <=> StartsBranchKey(search)
  BY <1>1 DEF StartsBranchKey, End, IsLeafPage, KeysOf, KeyOf
<1>4. KeyIsThere' <=> KeyIsThere
  BY <1>1, <1>2 DEF KeyIsThere
<1>. QED
  BY <1>2, <1>3, <1>4

LEMMA NewStack ==
  ASSUME file' = file, NEW r, stack' = r
  PROVE  /\ OnPath(r) => OnPath(stack)'
         /\ \A path : KeyAhead(r, path) => KeyAhead(stack, path)'
<1>1. Paths' = Paths
  BY SameFile
<1>2. PagesOf(stack)' = PagesOf(r)
  BY DEF PagesOf
<1>3. OnPath(r) => OnPath(stack)'
  BY <1>1, <1>2 DEF OnPath, Distinct
<1>4. \A path : KeyAhead(r, path) => KeyAhead(stack, path)'
  BY DEF KeyAhead, AheadAt
<1>. QED
  BY <1>3, <1>4

LEMMA RootIsOnPath ==
  ASSUME file \in [PageNumbers -> KeyedPage]
  PROVE  OnPath(<<Frame(Root)>>) /\ \A path \in Paths : KeyAhead(<<Frame(Root)>>, path)
<1>. DEFINE s == <<Frame(Root)>>
<1>1. /\ s \in Seq(Frames) /\ Len(s) = 1 /\ s[1].page = Root /\ s[1].next = 1
  BY RootAssumption DEF Frame, Frames
<1>. HIDE DEF s
<1>2. PagesOf(s) \in Seq(PageNumbers) /\ Len(PagesOf(s)) = 1 /\ PagesOf(s)[1] = Root
  BY <1>1, PagesOfIs
<1>3. PagesOf(s) \in Paths
  <2>1. 1 .. Len(PagesOf(s)) - 1 = {}
    BY <1>2
  <2>2. IsPath(PagesOf(s))
    BY <1>2, <2>1 DEF IsPath
  <2>. QED
    <3>1. Len(PagesOf(s)) # 0 /\ Len(PagesOf(s)) <= LastPage
      BY <1>2, LastPageAssumption
    <3>. QED
      BY <1>2, <2>2, <3>1, IsInPaths
<1>4. Distinct(PagesOf(s))
  BY <1>2 DEF Distinct
<1>5. ASSUME NEW path \in Paths
      PROVE  KeyAhead(s, path)
  <2>1. 1 \in 1 .. Len(path) /\ path[1] = Root
    BY PathIs DEF IsPath
  <2>2. \A k \in 1 .. 1 : s[k].page = path[k]
    BY <1>1, <2>1
  <2>3. AheadAt(s, path, 1)
    BY <1>1, <2>1, <2>2, AheadWhenNew
  <2>. QED
    BY <2>1, <2>3 DEF KeyAhead
<1>. QED
  BY <1>3, <1>4, <1>5 DEF OnPath, s

\* Where a frame returns, what was ahead in the frames below still is.
LEMMA FrontIsAhead ==
  ASSUME NEW s \in Seq(Frames), s # <<>>, NEW path \in Paths, NEW t \in 1 .. Len(path),
         AheadAt(s, path, t), t # Len(s)
  PROVE  KeyAhead(Front(s), path)
<1>1. Len(s) \in Nat /\ t \in Nat \ {0} /\ t <= Len(s)
  BY PathIs DEF AheadAt
<1>2. t <= Len(s) - 1
  BY <1>1
<1>3. Len(Front(s)) = Len(s) - 1 /\ \A k \in 1 .. Len(s) - 1 : Front(s)[k] = s[k]
  BY <1>1, <1>2 DEF Front
<1>4. \A k \in 1 .. t : Front(s)[k] = s[k]
  BY <1>1, <1>2, <1>3
<1>5. AheadAt(Front(s), path, t)
  BY <1>1, <1>2, <1>3, <1>4, AheadSame
<1>. QED
  BY <1>5 DEF KeyAhead

\* The child that is searched next is on the path, or the page still leads to it.
LEMMA ChildIsAhead ==
  ASSUME Wanted, ~ IsLeafPage(TopPage), NEW path \in Paths, Holds(path, StoredKey(search)),
         KeyAhead(stack, path), Candidates # {}, NEW r, r = Append(SkippedTop, Frame(Child))
  PROVE  KeyAhead(r, path)
<1>. DEFINE n == Len(stack)
<1>1. stack \in Seq(Frames) /\ stack # <<>> /\ n \in Nat \ {0} /\ Top = stack[n]
  BY TopIsThere DEF Wanted, Top, Last, Searching
<1>2. Candidate \in Nat /\ Candidate \in LivePositions(TopPage) /\ \A i \in Candidates : Candidate <= i
  BY CandidateIs DEF Wanted
<1>3. Child \in PageNumbers
  BY NoChildIsRejected DEF Wanted
<1>4. /\ SkippedTop \in Seq(Frames) /\ Len(SkippedTop) = n /\ PagesOf(SkippedTop) = PagesOf(stack)
      /\ SkippedTop[n].next = Candidate + 1 /\ \A k \in 1 .. n - 1 : SkippedTop[k] = stack[k]
  <2>1. SkippedTop = Skipped(stack, Candidate + 1) /\ Candidate + 1 \in Nat
    BY <1>2 DEF SkippedTop, Skipped
  <2>. QED
    BY <1>1, <2>1, SkippedPages
<1>5. /\ r \in Seq(Frames) /\ Len(r) = n + 1 /\ r[n + 1] = Frame(Child)
      /\ \A k \in 1 .. n : r[k] = SkippedTop[k]
  <2>1. Frame(Child) \in Frames
    BY <1>3 DEF Frame, Frames
  <2>. QED
    BY <1>4, <2>1
<1>6. \A k \in 1 .. n : r[k].page = stack[k].page
  BY <1>1, <1>4, <1>5, PagesOfIs
<1>7. PICK t \in 1 .. Len(path) : AheadAt(stack, path, t)
  BY DEF KeyAhead
<1>8. t \in Nat \ {0} /\ t <= n /\ Len(path) \in Nat
  BY <1>7, PathIs DEF AheadAt
<1>9. CASE t # n
  <2>1. t <= n - 1
    BY <1>1, <1>8, <1>9
  <2>2. t <= Len(r) /\ \A k \in 1 .. t : r[k] = stack[k]
    <3>1. t <= n + 1 /\ \A k \in 1 .. t : k \in 1 .. n /\ k \in 1 .. n - 1
      BY <1>1, <1>8, <2>1
    <3>. QED
      BY <1>4, <1>5, <3>1
  <2>3. AheadAt(r, path, t)
    BY <1>7, <1>8, <2>2, AheadSame
  <2>. QED
    BY <2>3 DEF KeyAhead
<1>10. CASE t = n
  <2>1. n \in 1 .. Len(path) /\ AheadAt(stack, path, n)
    BY <1>7, <1>10
  <2>2. PICK i \in Candidates : TopPage.values[i].ref = path[n + 1]
    BY <2>1, BranchIsAhead
  <2>3. n # Len(path) /\ n + 1 \in 1 .. Len(path)
    <3>1. n # Len(path)
      BY <2>1, BranchIsAhead
    <3>. QED
      BY <1>8, <1>10, <3>1
  <2>4. \A k \in 1 .. n : r[k].page = path[k]
    BY <1>6, <2>1 DEF AheadAt
  <2>5. i \in LivePositions(TopPage) /\ i \in Nat /\ Candidate <= i
    BY <1>2, TopIsThere DEF Candidates, Wanted
  <2>6. CASE i = Candidate
    <3>1. r[n + 1].page = path[n + 1] /\ r[n + 1].next = 1
      BY <1>5, <2>2, <2>6 DEF Frame, Child
    <3>2. \A k \in 1 .. n + 1 : r[k].page = path[k]
      <4>1. \A k \in 1 .. n + 1 : k \in 1 .. n \/ k = n + 1
        BY <1>1
      <4>. QED
        BY <2>4, <3>1, <4>1, Zenon
    <3>3. AheadAt(r, path, n + 1)
      BY <1>5, <2>3, <3>1, <3>2, AheadWhenNew DEF Wanted, TypeOK
    <3>. QED
      BY <2>3, <3>3 DEF KeyAhead
  <2>7. CASE i # Candidate
    <3>1. r[n].next = Candidate + 1 /\ n \in 1 .. n
      BY <1>1, <1>4, <1>5
    <3>2. i >= Candidate + 1
      BY <1>2, <2>5, <2>7
    <3>3. file[path[n]] = TopPage
      BY <1>1, <2>1, <3>1 DEF AheadAt, TopPage
    <3>4. n <= Len(r)
      BY <1>1, <1>5
    <3>5. \E j \in LivePositions(file[path[n]]) : file[path[n]].values[j].ref = path[n + 1] /\ j >= r[n].next
      BY <2>2, <2>5, <3>1, <3>2, <3>3
    <3>6. AheadAt(r, path, n)
      BY <2>3, <2>4, <3>4, <3>5, Zenon DEF AheadAt
    <3>. QED
      BY <2>1, <3>6 DEF KeyAhead
  <2>. QED
    BY <2>6, <2>7
<1>. QED
  BY <1>9, <1>10

LEMMA InitComplete == Init => Complete
BY DEF Init, Complete, StackIsAPath, KeyIsAhead, KeyIsSought, FoundIsKnown, NoAnswer, Answer

\* Until a search ends nothing is known of what it finds.
LEMMA NothingYet ==
  ASSUME Inv, stage # "none", found' = found \/ found' = NoAnswer
  PROVE  FoundIsKnown'
BY DEF Inv, FoundIsKnown, NoAnswer, Answer

LEMMA NextComplete == Inv /\ Complete /\ [Next]_vars => Complete'
<1>. SUFFICES ASSUME Inv, Complete, [Next]_vars, IsSearchable'
              PROVE  StackIsAPath' /\ KeyIsAhead' /\ FoundIsKnown'
  BY DEF Complete
<1>. DEFINE Goal == StackIsAPath' /\ KeyIsAhead' /\ FoundIsKnown'
<1>1. file' = file
  BY DEF Next, Step, vars, GetByKey, ReadRoot, ReadRootFails, ReturnFromBarePage, SearchLeaf, SearchLeafFails,
         SearchChild, SearchChildFails, ReturnFromBranch, SearchEnds, ReadFault, Fail
<1>2. IsSearchable /\ Paths' = Paths
  BY <1>1, SameFile
<1>3. StackIsAPath /\ KeyIsAhead /\ FoundIsKnown /\ TypeOK
  BY <1>2 DEF Complete, Inv
<1>4. ASSUME Searching
      PROVE  /\ OnPath(stack) /\ TopPage \in KeyedPage /\ ~ TopPage.bare
             /\ stack \in Seq(Frames) /\ stack # <<>> /\ Len(stack) \in Nat \ {0}
             /\ stage = "search" /\ stage # "none"
  <2>1. OnPath(stack)
    BY <1>3, <1>4 DEF StackIsAPath, Searching
  <2>. QED
    BY <1>2, <1>3, <1>4, <2>1, TopIsThere, TopIsGood DEF Searching
<1>5. CASE UNCHANGED vars
  <2>1. /\ stage' = stage /\ stack' = stack /\ result' = result /\ search' = search /\ found' = found
        /\ faults' = faults
    BY <1>5 DEF vars
  <2>2. /\ StartsBranchKey(search)' <=> StartsBranchKey(search)
        /\ \A path : Holds(path, StoredKey(search))' <=> Holds(path, StoredKey(search))
        /\ KeyIsThere' <=> KeyIsThere
    BY <1>1, <2>1, SameSearch
  <2>3. /\ OnPath(stack) => OnPath(stack)'
        /\ \A path : KeyAhead(stack, path) => KeyAhead(stack, path)'
    BY <1>1, <2>1, NewStack
  <2>4. StackIsAPath'
    BY <1>3, <2>1, <2>3 DEF StackIsAPath
  <2>5. KeyIsAhead'
    BY <1>2, <1>3, <2>1, <2>2, <2>3 DEF KeyIsAhead, KeyIsSought
  <2>6. FoundIsKnown'
    BY <1>3, <2>1, <2>2 DEF FoundIsKnown
  <2>. QED
    BY <2>4, <2>5, <2>6
<1>6. ASSUME NEW s \in Searches, GetByKey(s)
      PROVE  Goal
  <2>1. stage' = "root" /\ found' = NoAnswer
    BY <1>6 DEF GetByKey
  <2>. QED
    BY <2>1 DEF StackIsAPath, KeyIsAhead, KeyIsSought, FoundIsKnown, NoAnswer, Answer
<1>7. CASE ReadRoot
  <2>1. /\ stack' = <<Frame(Root)>> /\ search' = search /\ found' = found /\ stage # "none"
    BY <1>7 DEF ReadRoot
  <2>2. OnPath(<<Frame(Root)>>) /\ \A path \in Paths : KeyAhead(<<Frame(Root)>>, path)
    BY <1>3, RootIsOnPath DEF TypeOK
  <2>3. OnPath(stack)' /\ \A path \in Paths : KeyAhead(stack, path)'
    BY <1>1, <2>1, <2>2, NewStack
  <2>4. FoundIsKnown'
    BY <2>1, NothingYet
  <2>. QED
    BY <1>2, <2>3, <2>4 DEF StackIsAPath, KeyIsAhead
<1>8. CASE ReadRootFails
  BY <1>2, <1>8 DEF ReadRootFails, IsSearchable
<1>9. CASE ReturnFromBarePage
  BY <1>4, <1>9 DEF ReturnFromBarePage
<1>10. CASE SearchLeaf
  <2>1. Searching /\ IsLeafPage(TopPage) /\ result = 0 /\ stack' = Front(stack) /\ search' = search
        /\ found' = found
    BY <1>10 DEF SearchLeaf, Returns
  <2>2. FoundIsKnown'
    BY <1>4, <2>1, NothingYet
  <2>3. StackIsAPath'
    BY <1>1, <1>4, <2>1, FrontOnPath, NewStack DEF StackIsAPath
  <2>4. ASSUME KeyIsSought', NEW path \in Paths, Holds(path, StoredKey(search))
        PROVE  KeyAhead(stack, path)'
    <3>1. Decisive = {}
      BY <1>10, <2>4 DEF KeyIsSought, SearchLeaf, Returns
    <3>2. ~ StartsBranchKey(search) /\ search.key # <<>>
      BY <1>1, <2>1, <2>4, SameSearch DEF KeyIsSought
    <3>3. Wanted /\ KeyIsSought
      BY <1>2, <1>3, <1>4, <2>1, <3>2 DEF Wanted, KeyIsSought
    <3>4. PICK t \in 1 .. Len(path) : AheadAt(stack, path, t)
      BY <1>3, <2>4, <3>3 DEF KeyIsAhead, KeyAhead
    <3>5. t # Len(stack)
      BY <2>1, <2>4, <3>1, <3>3, <3>4, LeafIsAhead
    <3>6. KeyAhead(Front(stack), path)
      BY <1>4, <2>1, <3>4, <3>5, FrontIsAhead
    <3>. QED
      BY <1>1, <2>1, <3>6, NewStack
  <2>5. KeyIsAhead'
    BY <1>1, <1>2, <2>1, <2>4, SameSearch DEF KeyIsAhead
  <2>. QED
    BY <2>2, <2>3, <2>5
<1>11. CASE SearchLeafFails
  <2>1. Searching /\ Decisive # {} /\ BadKey(Nearest(Decisive))
    BY <1>11 DEF SearchLeafFails, LeafFails
  <2>2. Decisive \in SUBSET Nat /\ Decisive \subseteq LivePositions(TopPage)
    BY <1>3, <2>1, TopIsThere DEF Decisive
  <2>3. Nearest(Decisive) \in LivePositions(TopPage)
    BY <2>1, <2>2, NearestIn
  <2>. QED
    BY <1>2, <1>3, <1>4, <2>1, <2>3, NoKeyIsBad
<1>12. CASE SearchChild
  <2>. DEFINE r == Append(SkippedTop, Frame(Child))
  <2>1. /\ Searching /\ ~ IsLeafPage(TopPage) /\ Candidates # {} /\ search' = search /\ found' = found
        /\ result' = result /\ stage' = stage
    BY <1>12 DEF SearchChild
  <2>2. /\ Child \in PageNumbers /\ Append(PagesOf(stack), Child) \in Paths
        /\ Distinct(Append(PagesOf(stack), Child))
    BY <1>2, <1>3, <1>4, <2>1, NoChildIsRejected
  <2>3. stack' = r
    BY <1>12, <2>2 DEF SearchChild
  <2>4. OnPath(r)
    <3>1. SkippedTop = Skipped(stack, Candidate + 1) /\ Candidate + 1 \in Nat
      BY <1>3, <2>1, CandidateIs DEF SkippedTop, Skipped
    <3>2. SkippedTop \in Seq(Frames) /\ PagesOf(SkippedTop) = PagesOf(stack)
      BY <1>4, <2>1, <3>1, SkippedPages
    <3>3. PagesOf(r) = Append(PagesOf(stack), Child)
      BY <2>2, <3>2, AppendedPages
    <3>. QED
      BY <2>2, <3>3 DEF OnPath
  <2>5. FoundIsKnown'
    BY <1>4, <2>1, NothingYet
  <2>6. StackIsAPath'
    BY <1>1, <2>3, <2>4, NewStack DEF StackIsAPath
  <2>7. ASSUME KeyIsSought', NEW path \in Paths, Holds(path, StoredKey(search))
        PROVE  KeyAhead(stack, path)'
    <3>1. KeyIsSought
      BY <1>1, <2>1, <2>7, SameSearch DEF KeyIsSought
    <3>2. Wanted /\ KeyAhead(stack, path)
      BY <1>2, <1>3, <1>4, <2>1, <2>7, <3>1 DEF Wanted, KeyIsSought, KeyIsAhead
    <3>3. KeyAhead(r, path)
      BY <2>1, <2>7, <3>2, ChildIsAhead
    <3>. QED
      BY <1>1, <2>3, <3>3, NewStack
  <2>8. KeyIsAhead'
    BY <1>1, <1>2, <2>1, <2>7, SameSearch DEF KeyIsAhead
  <2>. QED
    BY <2>5, <2>6, <2>8
<1>13. CASE SearchChildFails
  <2>1. Searching /\ ~ IsLeafPage(TopPage) /\ Candidates # {} /\ ChildRejected
    BY <1>13 DEF SearchChildFails
  <2>. QED
    BY <1>2, <1>3, <1>4, <2>1, NoChildIsRejected
<1>14. CASE ReturnFromBranch
  <2>1. /\ Searching /\ stack' = Front(stack) /\ search' = search /\ found' = found /\ result' = result
        /\ result # 0 \/ (~ IsLeafPage(TopPage) /\ Candidates = {})
    BY <1>14 DEF ReturnFromBranch, Returns
  <2>2. FoundIsKnown'
    BY <1>4, <2>1, NothingYet
  <2>3. StackIsAPath'
    BY <1>1, <1>4, <2>1, FrontOnPath, NewStack DEF StackIsAPath
  <2>4. ASSUME KeyIsSought', NEW path \in Paths, Holds(path, StoredKey(search))
        PROVE  KeyAhead(stack, path)'
    <3>1. result = 0 /\ ~ IsLeafPage(TopPage) /\ Candidates = {}
      BY <2>1, <2>4 DEF KeyIsSought
    <3>2. ~ StartsBranchKey(search) /\ search.key # <<>>
      BY <1>1, <2>1, <2>4, SameSearch DEF KeyIsSought
    <3>3. Wanted /\ KeyIsSought
      BY <1>2, <1>3, <1>4, <2>1, <3>1, <3>2 DEF Wanted, KeyIsSought
    <3>4. PICK t \in 1 .. Len(path) : AheadAt(stack, path, t)
      BY <1>3, <2>4, <3>3 DEF KeyIsAhead, KeyAhead
    <3>5. t # Len(stack)
      BY <2>4, <3>1, <3>3, <3>4, BranchIsAhead
    <3>6. KeyAhead(Front(stack), path)
      BY <1>4, <2>1, <3>4, <3>5, FrontIsAhead
    <3>. QED
      BY <1>1, <2>1, <3>6, NewStack
  <2>5. KeyIsAhead'
    BY <1>1, <1>2, <2>1, <2>4, SameSearch DEF KeyIsAhead
  <2>. QED
    BY <2>2, <2>3, <2>5
<1>15. CASE SearchEnds
  <2>1. /\ stage = "search" /\ stack = <<>> /\ stage' = "none" /\ search' = search
        /\ found'.code = result /\ result \in {0, 1}
    BY <1>3, <1>15 DEF SearchEnds, Answer, TypeOK
  <2>2. ASSUME result = 0, KeyIsThere
        PROVE  StartsBranchKey(search)
    <3>1. PICK path \in Paths : Holds(path, StoredKey(search))
      BY <2>2 DEF KeyIsThere
    <3>2. ~ KeyAhead(stack, path)
      <4>1. \A t \in 1 .. Len(path) : ~ (t <= Len(stack))
        BY <2>1
      <4>. QED
        BY <4>1 DEF KeyAhead, AheadAt
    <3>. QED
      BY <1>3, <2>1, <2>2, <3>1, <3>2 DEF KeyIsAhead, KeyIsSought, KeyIsThere
  <2>3. FoundIsKnown'
    BY <1>1, <2>1, <2>2, SameSearch DEF FoundIsKnown
  <2>. QED
    BY <2>1, <2>3 DEF StackIsAPath, KeyIsAhead, KeyIsSought
<1>16. CASE ReadFault
  <2>1. stage' = "none" /\ found'.code = -1 /\ faults' = faults + 1 /\ faults \in Nat
    BY <1>3, <1>16, LimitsAssumption DEF ReadFault, Fail, Answer, TypeOK
  <2>. QED
    BY <2>1 DEF StackIsAPath, KeyIsAhead, KeyIsSought, FoundIsKnown
<1>. QED
  BY <1>5, <1>6, <1>7, <1>8, <1>9, <1>10, <1>11, <1>12, <1>13, <1>14, <1>15, <1>16 DEF Next, Step

(***************************************************************************)
(* In a file whose pages a search can rely on, a key is found where a path *)
(* of live values leads to it, and only a read that fails makes the search *)
(* fail (libesedb_page_tree_get_leaf_value_by_key): except for the key of  *)
(* an index value that is the start of the key of a branch value.          *)
(***************************************************************************)
THEOREM Completeness == Spec => []SearchIsComplete
<1>1. Inv /\ Complete => SearchIsComplete
  BY LimitsAssumption DEF Complete, FoundIsKnown, SearchIsComplete, NothingFound
<1>. QED
  BY <1>1, InitInv, NextInv, InitComplete, NextComplete, PTL DEF Spec
=============================================================================
