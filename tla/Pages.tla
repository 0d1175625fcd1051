------------------------------- MODULE Pages -------------------------------
(***************************************************************************)
(* The pages of a database file as the page tree reads them: the flags,    *)
(* the links to the sibling pages and the values of a page, what the       *)
(* validations of libesedb_page.c accept, and where a page is in the file. *)
(*                                                                         *)
(* The first value of a page is its header and is left out; a page without *)
(* even that one (number_of_values = 0) is a bare page.  The value of a    *)
(* branch page refers to a child page, the value of a leaf page to a       *)
(* record.  What a reference of 0 is taken for is said where it is read.   *)
(***************************************************************************)
EXTENDS Integers, Sequences, FiniteSets

CONSTANTS
  LastPage,   \* io_handle->last_page_number
  PageSize,   \* io_handle->page_size
  WordSize,   \* 2^32, the modulus of the arithmetic on a uint32_t
  Refs        \* what the values refer to: page numbers and records

ASSUME LastPageAssumption == LastPage \in Nat \ {0}
ASSUME PageSizeAssumption == PageSize \in Nat \ {0}
ASSUME WordSizeAssumption == WordSize \in Nat \ {0}

PageNumbers == 1 .. LastPage

\* The flags that decide something; "other" stands for an unsupported one.
Flags == {"root", "leaf", "empty", "space", "other"}

Value == [defunct : BOOLEAN, ref : Refs]

Page == [flags : SUBSET Flags, prev : Nat, next : Nat, bare : BOOLEAN, values : Seq(Value)]

File == [PageNumbers -> Page]

IsLeafPage(page) == "leaf" \in page.flags

\* The positions of the values that are not marked as defunct.
LivePositions(page) == {i \in DOMAIN page.values : ~ page.values[i].defunct}

NumberOfLiveValues(page) == Cardinality(LivePositions(page))

LivePosition(page, n) ==
  CHOOSE i \in LivePositions(page) : Cardinality({j \in LivePositions(page) : j <= i}) = n

\* libesedb_page_validate_root_page
ValidRootPage(page) ==
  /\ "root" \in page.flags
  /\ "empty" \in page.flags \/ "other" \notin page.flags

\* libesedb_page_validate_page
ValidPage(page) ==
  \/ "empty" \in page.flags
  \/ /\ {"space", "other"} \intersect page.flags = {}
     /\ IsLeafPage(page) \/ (page.prev = 0 /\ page.next = 0)

\* Page 1 starts after the two file headers; the product is a uint32_t.
PageOffset(number) == ((number + 1) * PageSize) % WordSize

FileSize == (LastPage + 2) * PageSize
=============================================================================
