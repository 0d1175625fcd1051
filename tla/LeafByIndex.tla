---------------------------- MODULE LeafByIndex ----------------------------
(***************************************************************************)
(* Retrieving a record of a table by its index                             *)
(* (libesedb_page_tree_get_leaf_value_by_index), next to the calls that    *)
(* count the records.  The first retrieval makes the count if none was     *)
(* made.  The descriptor that has the index in its range names the leaf    *)
(* page; without one the whole tree is searched from the root page, in     *)
(* the order of its values and with a bound on the depth.                  *)
(*                                                                         *)
(* The frames of the recursion are a stack; one action per page.           *)
(***************************************************************************)
EXTENDS LeafWalk

CONSTANT Indexes   \* the indexes that are asked for

ASSUME IndexesAssumption == Indexes \subseteq Int

VARIABLES
  stage,    \* "none", or where the retrieval in progress is
  want,     \* leaf_value_index
  current,  \* current_leaf_value_index
  stack,    \* the pages of the recursion, with the next value of each
  got,      \* data_definition: the page and position of the value
  found     \* what the last retrieval returned

searchVars == <<stage, want, current, stack, got, found>>
allVars == <<vars, searchVars>>

NoValue == <<0, 0>>
NoResult == [code |-> 0, value |-> NoValue]
NotFound == [code |-> -1, value |-> NoValue]

SearchInit ==
  /\ Init
  /\ stage = "none" /\ want = 0 /\ current = 0
  /\ stack = <<>>
  /\ got = NoValue
  /\ found = NoResult

\* on_error: the data definition is freed.
SearchFails ==
  /\ stage' = "none"
  /\ stack' = <<>>
  /\ got' = NoValue
  /\ found' = NotFound
  /\ UNCHANGED <<want, current>>

GetNegativeIndex(i) ==
  /\ stage = "none" /\ pc = "idle" /\ i < 0
  /\ found' = NotFound
  /\ want' = i
  /\ UNCHANGED <<vars, stage, current, stack, got>>

GetByIndex(i) ==
  /\ stage = "none" /\ pc = "idle" /\ i >= 0
  /\ want' = i
  /\ current' = 0
  /\ IF leafCount = -1
       THEN stage' = "count" /\ StartCount
       ELSE stage' = "base" /\ UNCHANGED vars
  /\ found' = NoResult
  /\ UNCHANGED <<stack, got>>

CountReturns ==
  /\ stage = "count" /\ pc = "idle" /\ answer.code = 1
  /\ stage' = "base"
  /\ UNCHANGED <<vars, want, current, stack, got, found>>

CountReturnsError ==
  /\ stage = "count" /\ pc = "idle" /\ answer.code = -1
  /\ SearchFails
  /\ UNCHANGED vars

-----------------------------------------------------------------------------
Holding == {d \in descriptors : want \in IndexesOf(d)}

BasePage == IF Holding = {} THEN Root ELSE (CHOOSE d \in Holding : TRUE).page
\* Mutant: the search in a leaf page starts to count at 0.
BaseIndexZero == 0

BaseIndex == IF Holding = {} THEN 0 ELSE (CHOOSE d \in Holding : TRUE).first

\* Mutant: the page of a descriptor is validated as a root page as well.
BaseRejectedAsRoot == ~ ValidRootPage(file[BasePage])

BaseRejected == BasePage = Root /\ ~ ValidRootPage(file[Root])

Frame(number) == [page |-> number, next |-> 1]

ReadBase ==
  /\ stage = "base" /\ ~ BaseRejected
  /\ stage' = "search"
  /\ current' = BaseIndex
  /\ stack' = <<Frame(BasePage)>>
  /\ UNCHANGED <<vars, want, got, found>>

ReadBaseFails ==
  /\ stage = "base" /\ BaseRejected
  /\ SearchFails
  /\ UNCHANGED vars

-----------------------------------------------------------------------------
Top == Last(stack)
TopPage == file[Top.page]
Searching == stage = "search" /\ stack # <<>>

\* The loop over the values of a page is left when the index was passed.
Passed == current > want

Ahead == {i \in LivePositions(TopPage) : i >= Top.next}
NextPosition == CHOOSE i \in Ahead : \A j \in Ahead : i <= j
Child == TopPage.values[NextPosition].ref

\* The values of a leaf page are passed over up to the index, which is taken.
TakesValue == want - current < NumberOfLiveValues(TopPage)

Taken == LivePosition(TopPage, want - current + 1)

\* A value that is too small for its sizes has no key and no data (ref 0): it is counted and
\* passed over, but cannot be taken.  In a branch page it fails as a reference to page 0 does.
CanBeRead(value) == value.ref # 0

\* Mutant: a value that cannot be read is taken as an empty one.
TakenIsAccepted == want # MaxInt

TakenIsRead == want # MaxInt /\ CanBeRead(TopPage.values[Taken])

SearchLeaf ==
  /\ Searching /\ ~ Passed /\ IsLeafPage(TopPage)
  /\ TakesValue => TakenIsRead
  /\ IF TakesValue
       THEN /\ got' = <<Top.page, Taken>>
            /\ current' = want + 1
       ELSE /\ current' = current + NumberOfLiveValues(TopPage)
            /\ UNCHANGED got
  /\ stack' = Front(stack)
  /\ UNCHANGED <<vars, stage, want, found>>

\* The index after it cannot be represented in an int, or the value cannot be read.
SearchLeafFails ==
  /\ Searching /\ ~ Passed /\ IsLeafPage(TopPage)
  /\ TakesValue /\ ~ TakenIsRead
  /\ SearchFails
  /\ UNCHANGED vars

HasNext == ~ Passed /\ ~ IsLeafPage(TopPage) /\ Ahead # {}

SearchChildRejected ==
  \/ Child < 1 \/ Child > MaxInt
  \/ Child \in PageNumbers /\ (~ ValidPage(file[Child]) \/ Len(stack) > MaxDepth)

\* Mutant: the loop does not go on to the next value.
SameTop == stack

SkippedTop == [stack EXCEPT ![Len(stack)].next = NextPosition + 1]

SearchChild ==
  /\ Searching /\ HasNext /\ ~ SearchChildRejected
  /\ stack' = IF Child \in PageNumbers THEN Append(SkippedTop, Frame(Child)) ELSE SkippedTop
  /\ UNCHANGED <<vars, stage, want, current, got, found>>

SearchChildFails ==
  /\ Searching /\ HasNext /\ SearchChildRejected
  /\ SearchFails
  /\ UNCHANGED vars

ReturnFromPage ==
  /\ Searching
  /\ Passed \/ (~ IsLeafPage(TopPage) /\ Ahead = {})
  /\ stack' = Front(stack)
  /\ UNCHANGED <<vars, stage, want, current, got, found>>

\* The caller checks that the search ended one past the index.
SearchEnds ==
  /\ stage = "search" /\ stack = <<>>
  /\ IF current = want + 1
       THEN /\ found' = [code |-> 1, value |-> got]
            /\ stage' = "none"
            /\ got' = NoValue
            /\ UNCHANGED <<want, current, stack>>
       ELSE SearchFails
  /\ UNCHANGED vars

SearchFault ==
  /\ stage = "base" \/ Searching
  /\ faults < MaxFaults
  /\ faults' = faults + 1
  /\ SearchFails
  /\ UNCHANGED <<file, walkVars>>

-----------------------------------------------------------------------------
CountCall == stage = "none" /\ (CachedCount \/ StartCount) /\ UNCHANGED searchVars

CountStep == (Step \/ ReadFault) /\ UNCHANGED searchVars

SearchStep ==
  \/ CountReturns \/ CountReturnsError
  \/ ReadBase \/ ReadBaseFails
  \/ SearchLeaf \/ SearchLeafFails
  \/ SearchChild \/ SearchChildFails
  \/ ReturnFromPage \/ SearchEnds

SearchNext ==
  \/ CountCall
  \/ \E i \in Indexes : GetNegativeIndex(i) \/ GetByIndex(i)
  \/ CountStep
  \/ SearchStep
  \/ SearchFault

SearchFairness == WF_allVars(Step /\ UNCHANGED searchVars) /\ WF_allVars(SearchStep)

SearchSpec == SearchInit /\ [][SearchNext]_allVars /\ SearchFairness
-----------------------------------------------------------------------------
SearchTypeOK ==
  /\ TypeOK
  /\ stage \in {"none", "count", "base", "search"}
  /\ want \in Int /\ current \in Nat
  /\ stack \in Seq([page : PageNumbers, next : Nat])
  /\ got \in Nat \X Nat
  /\ found \in [code : {-1, 0, 1}, value : Nat \X Nat]

(***************************************************************************)
(* In a well-formed file every retrieval that succeeds returns the value   *)
(* that has the index in the order of the tree, also after a count that    *)
(* failed half-way and left some descriptors behind.                       *)
(***************************************************************************)
RetrievalIsExact ==
  found.code = 1 /\ WellFormed(file, Root) =>
    /\ want + 1 \in DOMAIN LeafValues(file, Root)
    /\ found.value = LeafValues(file, Root)[want + 1]

(***************************************************************************)
(* In any file, a retrieval that succeeds returns a live value of a leaf   *)
(* page that can be read, and not an empty data definition.                *)
(***************************************************************************)
IsLiveValue(value) ==
  /\ value[1] \in PageNumbers /\ IsLeafPage(file[value[1]])
  /\ value[2] \in LivePositions(file[value[1]])
  /\ CanBeRead(file[value[1]].values[value[2]])

SuccessHasValue == found.code = 1 => IsLiveValue(found.value)

(***************************************************************************)
(* In any file, the value of an index that is counted is in the page of    *)
(* the descriptor that has the index, behind as many live values as there  *)
(* are indexes of the descriptor before this one.                          *)
(***************************************************************************)
LiveBefore(value) == Cardinality({j \in LivePositions(file[value[1]]) : j < value[2]})

ValueHasItsIndex ==
  found.code = 1 /\ want < leafCount =>
    \E d \in Holding : found.value[1] = d.page /\ d.first + LiveBefore(found.value) = want

(***************************************************************************)
(* When the descent by first values ends at a page of a chain of leaf      *)
(* pages, as in CountIsExact, the value of an index that is counted is the *)
(* one behind that many live values of the chain, also after a count that  *)
(* failed on the way and left a part of the chain counted.                 *)
(***************************************************************************)
ValueOfTheChain ==
  found.code = 1 /\ want < leafCount =>
    \A path \in Descents, chain \in Chains : EndsOn(path, chain) =>
      \E k \in DOMAIN chain :
        /\ found.value[1] = chain[k]
        /\ NumberInFirst(file, chain, k - 1) + LiveBefore(found.value) = want

(* A value that is retrieved by its index is a live value, the one with    *)
(* that index in the page of its descriptor and in the chain when the      *)
(* index is counted, and no call is a success without one                  *)
(* (libesedb_page_tree_get_leaf_value_by_index).                           *)
RetrievalIsSound == SearchTypeOK /\ SuccessHasValue /\ ValueHasItsIndex /\ ValueOfTheChain

(***************************************************************************)
(* In any file, an index below the count is retrieved unless a read fails: *)
(* what is counted can be retrieved.  Two things a count accepts and a     *)
(* retrieval does not: a value that cannot be read, which is counted all   *)
(* the same, and a root page that is a leaf page without the flag of a     *)
(* root.                                                                   *)
(***************************************************************************)
Returning(code) == stage \in {"base", "search"} /\ stage' = "none" /\ found'.code = code

WantedValue(d) == file[d.page].values[LivePosition(file[d.page], want - d.first + 1)]

ValueCanBeRead == \E d \in Holding : CanBeRead(WantedValue(d))
PageIsAccepted == BasePage = Root => ValidRootPage(file[Root])

CountedIsRetrieved ==
  [][Returning(-1) /\ want < leafCount /\ want # MaxInt /\ ValueCanBeRead /\ PageIsAccepted
       => faults' = faults + 1]_allVars

(***************************************************************************)
(* The same without the condition on the root page: a comment in the count *)
(* says that root pages without the root flag exist, and it accepts them.  *)
(***************************************************************************)
CountedIsRetrievedFromAnyRoot ==
  [][Returning(-1) /\ want < leafCount /\ want # MaxInt /\ ValueCanBeRead
       => faults' = faults + 1]_allVars

(***************************************************************************)
(* Every retrieval ends: cycles of branch pages end at the limit on the    *)
(* depth.                                                                  *)
(***************************************************************************)
RetrievalsEnd == (stage # "none" /\ OnlyLeavesLinked) ~> (stage = "none")
=============================================================================
