----------------------------- MODULE KeySearch -----------------------------
(***************************************************************************)
(* Searching a page tree for a key                                         *)
(* (libesedb_page_tree_get_leaf_value_by_key): the record that an index    *)
(* refers to, a long value or a segment of one.  A page whose branch key   *)
(* the searched key is not greater than is searched; when the key is not   *)
(* there the values after it are tried as well.                            *)
(*                                                                         *)
(* The frames of the recursion are a stack; one action per page.           *)
(***************************************************************************)
EXTENDS PageTreeOrder, KeyCompare

CONSTANTS
  Files,      \* the contents of the file that are considered
  Root,       \* page_tree->root_page_number
  MaxDepth,   \* LIBESEDB_MAXIMUM_INDEX_NODE_RECURSION_DEPTH
  MaxInt,     \* INT_MAX
  MaxFaults,  \* bound on the number of reads that fail
  Searches    \* the keys that are searched for, with their types

KeyedValue == [defunct : BOOLEAN, ref : Refs, common : Nat, local : Seq(Byte)]

KeyedPage == [flags : SUBSET Flags, prev : Nat, next : Nat, bare : BOOLEAN,
              header : Seq(Byte), values : Seq(KeyedValue)]

\* A key without bytes has no data: it is in no search, a comparison with it is an error.
Search == [type : SearchTypes, key : Seq(Byte) \ {<<>>}]

ASSUME FilesAssumption == Files \subseteq [PageNumbers -> KeyedPage]
ASSUME RootAssumption == Root \in PageNumbers
ASSUME LimitsAssumption == MaxDepth \in Nat /\ MaxInt \in Nat /\ MaxFaults \in Nat
ASSUME SearchesAssumption == Searches \subseteq Search /\ Searches # {}

VARIABLES
  file,    \* the pages, which do not change
  stage,   \* "none", or where the search in progress is
  search,  \* leaf_value_key
  stack,   \* the pages of the recursion, with the next value of each
  result,  \* what the frame that returned last has returned
  got,     \* data_definition: the page and position of the value
  found,   \* what the last search returned
  faults   \* how many reads failed

vars == <<file, stage, search, stack, result, got, found, faults>>

NoValue == <<0, 0>>
Answer(code, value) == [code |-> code, value |-> value]
NoAnswer == Answer(2, NoValue)

Top == Last(stack)
TopPage == file[Top.page]
PageType == IF IsLeafPage(TopPage) THEN "leaf" ELSE "branch"

Frame(number) == [page |-> number, next |-> 1]

Init ==
  /\ file \in Files
  /\ stage = "none"
  /\ search = CHOOSE s \in Searches : TRUE
  /\ stack = <<>>
  /\ result = 0
  /\ got = NoValue
  /\ found = NoAnswer
  /\ faults = 0

Fail ==
  /\ stage' = "none"
  /\ stack' = <<>>
  /\ result' = 0
  /\ got' = NoValue
  /\ found' = Answer(-1, NoValue)
  /\ UNCHANGED <<file, search>>

GetByKey(s) ==
  /\ stage = "none"
  /\ stage' = "root"
  /\ search' = s
  /\ found' = NoAnswer
  /\ UNCHANGED <<file, stack, result, got, faults>>

ReadRoot ==
  /\ stage = "root" /\ ValidRootPage(file[Root])
  /\ stage' = "search"
  /\ stack' = <<Frame(Root)>>
  /\ UNCHANGED <<file, search, result, got, found, faults>>

ReadRootFails ==
  /\ stage = "root" /\ ~ ValidRootPage(file[Root])
  /\ Fail
  /\ UNCHANGED faults

-----------------------------------------------------------------------------
Searching == stage = "search" /\ stack # <<>>

\* The loop over the values is left when a value gave a result.
Ahead == IF result # 0 \/ TopPage.bare THEN {} ELSE {i \in LivePositions(TopPage) : i >= Top.next}
Nearest(positions) == CHOOSE i \in positions : \A j \in positions : i <= j

\* The start of the key that the values of a page have in common is in its header.
KeyOf(page, i) == SubSeq(page.header, 1, page.values[i].common) \o page.values[i].local

\* A root page has no common key, and a common key is part of the header.
BadKey(i) ==
  LET common == TopPage.values[i].common
  IN  common > 0 /\ ("root" \in TopPage.flags \/ common > Len(TopPage.header))

\* Mutant: the start of the key in the header of the page is left out.
OrderLocal(i) == Compare(search.key, search.type, TopPage.values[i].local, PageType)

Order(i) == Compare(search.key, search.type, KeyOf(TopPage, i), PageType)

Returns(code) ==
  /\ stack' = Front(stack)
  /\ result' = code

\* A page without any value, not even a header, is returned from as a success.
ReturnFromBarePage ==
  /\ Searching /\ result = 0 /\ TopPage.bare
  /\ Returns(1)
  /\ UNCHANGED <<file, stage, search, got, found, faults>>

\* The first value that is reached and is either bad or equal.
Decisive == {i \in Ahead : BadKey(i) \/ Order(i) = "equal"}
LeafFails == Decisive # {} /\ BadKey(Nearest(Decisive))

SearchLeaf ==
  /\ Searching /\ result = 0 /\ ~ TopPage.bare /\ IsLeafPage(TopPage)
  /\ ~ LeafFails
  /\ IF Decisive = {}
       THEN Returns(0) /\ UNCHANGED got
       ELSE Returns(1) /\ got' = <<Top.page, Nearest(Decisive)>>
  /\ UNCHANGED <<file, stage, search, found, faults>>

SearchLeafFails ==
  /\ Searching /\ IsLeafPage(TopPage) /\ LeafFails
  /\ Fail
  /\ UNCHANGED faults

\* The next value of a branch page that stops the loop or leads to a child.
Candidates == {i \in Ahead : BadKey(i) \/ Order(i) # "greater"}
Candidate == Nearest(Candidates)
Child == TopPage.values[Candidate].ref

ChildRejected ==
  \/ BadKey(Candidate)
  \/ Child < 1 \/ Child > MaxInt
  \/ Child \in PageNumbers /\ (~ ValidPage(file[Child]) \/ Len(stack) > MaxDepth)

\* Mutant: the loop does not go on to the next value.
SameTop == stack

SkippedTop == [stack EXCEPT ![Len(stack)].next = Candidate + 1]

SearchChild ==
  /\ Searching /\ ~ IsLeafPage(TopPage) /\ Candidates # {} /\ ~ ChildRejected
  /\ stack' = IF Child \in PageNumbers THEN Append(SkippedTop, Frame(Child)) ELSE SkippedTop
  /\ UNCHANGED <<file, stage, search, result, got, found, faults>>

SearchChildFails ==
  /\ Searching /\ ~ IsLeafPage(TopPage) /\ Candidates # {} /\ ChildRejected
  /\ Fail
  /\ UNCHANGED faults

\* A branch page returns what its last child returned.
ReturnFromBranch ==
  /\ Searching
  /\ result # 0 \/ (~ TopPage.bare /\ ~ IsLeafPage(TopPage) /\ Candidates = {})
  /\ Returns(result)
  /\ UNCHANGED <<file, stage, search, got, found, faults>>

SearchEnds ==
  /\ stage = "search" /\ stack = <<>>
  /\ stage' = "none"
  /\ found' = Answer(result, got)
  /\ result' = 0
  /\ got' = NoValue
  /\ UNCHANGED <<file, search, stack, faults>>

ReadFault ==
  /\ stage = "root" \/ Searching
  /\ faults < MaxFaults
  /\ faults' = faults + 1
  /\ Fail

-----------------------------------------------------------------------------
Step ==
  \/ ReadRoot \/ ReadRootFails
  \/ ReturnFromBarePage \/ SearchLeaf \/ SearchLeafFails
  \/ SearchChild \/ SearchChildFails \/ ReturnFromBranch
  \/ SearchEnds

Next == (\E s \in Searches : GetByKey(s)) \/ Step \/ ReadFault

Spec == Init /\ [][Next]_vars /\ WF_vars(Step)
-----------------------------------------------------------------------------
TypeOK ==
  /\ file \in [PageNumbers -> KeyedPage]
  /\ stage \in {"none", "root", "search"}
  /\ search \in Search
  /\ stack \in Seq([page : PageNumbers, next : Nat])
  /\ result \in {0, 1}
  /\ got \in Nat \X Nat
  /\ found \in [code : {-1, 0, 1, 2}, value : Nat \X Nat]
  /\ faults \in 0 .. MaxFaults

(***************************************************************************)
(* The reference.  The paths that live values lead along from the root     *)
(* page, and what they have to be like for every key to be within reach:   *)
(* pages that are accepted, within the limits and without a circle, and    *)
(* branch values whose keys no key below them reaches.  An empty key is no *)
(* bound.  A page may be on several paths, and a key behind a later branch *)
(* value may precede the keys of those before it.                          *)
(***************************************************************************)
Precedes(a, b) ==
  \/ IsStrictPrefix(a, b)
  \/ \E i \in 1 .. Shorter(a, b) : a[i] < b[i] /\ \A j \in 1 .. i - 1 : a[j] = b[j]

IsChild(page, number) ==
  ~ IsLeafPage(page) /\ \E i \in LivePositions(page) : page.values[i].ref = number

IsPath(path) ==
  /\ path[1] = Root
  /\ \A i \in 1 .. Len(path) - 1 : IsChild(file[path[i]], path[i + 1])

Paths == {path \in PageSequences : IsPath(path)}
End(path) == file[path[Len(path)]]

KeysOf(page) == {KeyOf(page, i) : i \in LivePositions(page)}

KeysPrecede(path) ==
  \A k \in KeysOf(End(path)), t \in 1 .. Len(path) - 1 :
    \A i \in LivePositions(file[path[t]]) :
      LET key == KeyOf(file[path[t]], i)
      IN  file[path[t]].values[i].ref = path[t + 1] /\ key # <<>> => Precedes(k, key)

GoodKeys(page) ==
  \A i \in LivePositions(page) :
    LET common == page.values[i].common
    IN  common > 0 => "root" \notin page.flags /\ common <= Len(page.header)

GoodPath(path) ==
  /\ ~ End(path).bare /\ GoodKeys(End(path))
  /\ Len(path) > 1 => ValidPage(End(path))
  /\ Len(path) <= MaxDepth + 1
  /\ IsLeafPage(End(path))
     \/ \A i \in LivePositions(End(path)) : End(path).values[i].ref \in PageNumbers \ ToSet(path)

IsSearchable ==
  /\ ValidRootPage(file[Root]) /\ LastPage <= MaxInt
  /\ \A path \in Paths : GoodPath(path)
  /\ \A path \in Paths : IsLeafPage(End(path)) => KeysPrecede(path)

StoredKey(s) == IF s.type = "long value" THEN Reverse(s.key) ELSE s.key

(***************************************************************************)
(* A search that returns a value returns one with the key that was         *)
(* searched for, in any file without bare pages; an index value may differ *)
(* in the highest bit of its second byte.                                  *)
(***************************************************************************)
ClearSecond(key) == [i \in DOMAIN key |-> IF i = 2 /\ key[i] >= Half THEN key[i] - Half ELSE key[i]]

FoundHasTheKey ==
  found.code = 1 /\ (\A p \in PageNumbers : ~ file[p].bare) =>
    LET key == KeyOf(file[found.value[1]], found.value[2]) IN
    \/ key = StoredKey(search)
    \/ search.type = "index value" /\ key = ClearSecond(search.key)

(* A value that the search by key hands out is a live value with that key  *)
(* (libesedb_page_tree_get_leaf_value_by_key).                             *)
SearchIsSound == TypeOK /\ FoundHasTheKey

(***************************************************************************)
(* A key that is within reach is found, and no search fails, unless a read *)
(* fails or the key of an index value is the start of the key of a branch  *)
(* value (libesedb_page_tree_get_leaf_value_by_key).                       *)
(***************************************************************************)
Holds(path, key) == IsLeafPage(End(path)) /\ key \in KeysOf(End(path))

StartsBranchKey(s) ==
  s.type = "index value" /\
    \E path \in Paths : ~ IsLeafPage(End(path)) /\ \E k \in KeysOf(End(path)) : IsStrictPrefix(s.key, k)

KeyIsThere == search.key # <<>> /\ \E path \in Paths : Holds(path, StoredKey(search))

NothingFound == found.code = 0 \/ (found.code = -1 /\ faults = 0)

SearchIsComplete ==
  NothingFound /\ IsSearchable => found.code = 0 /\ (KeyIsThere => StartsBranchKey(search))

(***************************************************************************)
(* The keys of the branch values separate those below a page: the keys     *)
(* below the values after it do not precede the key of a value.            *)
(***************************************************************************)
KeysBelow(number) == UNION {KeysOf(file[p]) : p \in ToSet(LeafPages(file, number))}

Separates(page, i) ==
  LET key == KeyOf(page, i) IN
  key # <<>> =>
    \A j \in LivePositions(page) : j > i => \A k \in KeysBelow(page.values[j].ref) : ~ Precedes(k, key)

IsSearchTree ==
  /\ IsTree(file, Root) /\ IsSearchable
  /\ \A p \in PagesBelow(file, Root) :
       ~ IsLeafPage(file[p]) => \A i \in LivePositions(file[p]) : Separates(file[p], i)

(***************************************************************************)
(* The comment in libesedb_page_tree_key_compare: only a key that exactly  *)
(* matches the key of a branch value is in the next branch.  Then every    *)
(* key of a search tree is found.                                          *)
(***************************************************************************)
EveryKeyIsFound == NothingFound /\ IsSearchTree => found.code = 0 /\ ~ KeyIsThere

(***************************************************************************)
(* Every search ends: the positions in a page only grow and the depth has  *)
(* a limit, also when the branch pages refer to each other in a circle.    *)
(***************************************************************************)
SearchesEnd == (stage # "none") ~> (stage = "none")
=============================================================================
