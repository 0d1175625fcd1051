------------------------------ MODULE PyObjects ------------------------------
(***************************************************************************)
(* The Python objects of pyesedb, the references between them and the      *)
(* calls that threads of a program make on one file.                       *)
(*                                                                         *)
(* A step of a call is either the interpreter's, between taking and        *)
(* releasing its lock, or the library's, for which pyesedb releases the    *)
(* lock; steps of other threads come between them.  A file that was opened *)
(* as a file object is read by calling back into Python: a seek and a read *)
(* that take the lock one after the other.  The interpreter and libbfio    *)
(* are external.                                                           *)
(***************************************************************************)
EXTENDS Integers, Sequences, FiniteSetsExt

CONSTANTS
  Threads,      \* the threads of the program
  Openers,      \* those of them that open and close the file
  Slots,        \* objects that may exist besides the file
  Asked,        \* the classes of objects that the program asks for
  Items,        \* the number of items of every sequence
  Offsets,      \* where the library reads
  Reads,        \* the calls whose reads are looked at
  MaxSequences, \* bound on the sequences that exist at once
  MaxHeld       \* bound on the references that the program keeps to an object

ASSUME ThreadsAssumption == IsFiniteSet(Threads) /\ Threads # {}
ASSUME SlotsAssumption == Slots \subseteq Nat \ {0} /\ IsFiniteSet(Slots)
ASSUME BoundsAssumption == Items \in Nat /\ MaxHeld \in Nat \ {0} /\ MaxSequences \in Nat

VARIABLES
  object,    \* the objects: class, parent, reference count, library object, current index
  held,      \* how many references to each object the program holds
  call,      \* the call of each thread
  file,      \* pyesedb_file->file and ->file_io_handle
  medium,    \* the Python file object: its reference count and its offset
  history    \* what the program did: for the properties only

vars == <<object, held, call, file, medium, history>>

File == 0
Objects == Slots \cup {File}

(* The methods that return an object, and the sequences: their items have  *)
(* the parent of the sequence for a parent.                                *)
Parts ==
  [file |-> {"table"}, table |-> {"column", "record"}, record |-> {"longvalue"},
   column |-> {}, longvalue |-> {}]
SequenceItem == [tables |-> "table", columns |-> "column", records |-> "record"]
Sequences == DOMAIN SequenceItem
SequencesOf == [file |-> {"tables"}, table |-> {"columns", "records"}, record |-> {}]

NoObject == [class |-> "none", parent |-> File, refs |-> 0, library |-> FALSE, index |-> 0]
NoCall == [op |-> "none", on |-> File, part |-> "none", stage |-> "idle", slot |-> File,
           offset |-> 0, found |-> 0, alone |-> TRUE]
Exists(o) == object[o].class # "none"
IsSequence(o) == object[o].class \in Sequences

\* pyesedb_file_init, and a program that keeps the file
Init ==
  /\ object = [o \in Objects |->
                 IF o = File THEN [NoObject EXCEPT !.class = "file", !.refs = 1, !.library = TRUE]
                 ELSE NoObject]
  /\ held = [o \in Objects |-> IF o = File THEN 1 ELSE 0]
  /\ call = [t \in Threads |-> NoCall]
  /\ file = [open |-> FALSE, using |-> "none", handle |-> FALSE]
  /\ medium = [refs |-> 1, offset |-> 0]
  /\ history = [disturbed |-> FALSE, closed |-> FALSE, shared |-> {},
                given |-> [o \in Objects |-> <<>>]]

-----------------------------------------------------------------------------
(***************************************************************************)
(* A call on an object holds a reference to it.                            *)
(***************************************************************************)
Busy(t) == call[t].op # "none"
MayCall(t, o) == ~ Busy(t) /\ Exists(o) /\ held[o] > 0

\* What the library is asked for: the item of a sequence comes from the parent.
Target(o) == IF IsSequence(o) THEN object[o].parent ELSE o

Others(t) == {u \in Threads \ {t} : Busy(u)}
Settles(op) == op \in {"open", "open file object", "close"}

Noted(t, o, op) ==
  LET both == IsSequence(o) /\ \E u \in Others(t) : call[u].on = o IN
  [history EXCEPT
     !.disturbed = @ \/ (Others(t) # {} /\ (Settles(op) \/ \E u \in Others(t) : Settles(call[u].op))),
     !.shared = IF both THEN @ \cup {o} ELSE @,
     !.given[o] = IF both THEN <<>> ELSE @]

\* The program leaves the objects of a file that it closed alone, and opens it without any.
MayUse(o, op) ==
  IF o = File THEN op \in {"open", "open file object"} => \A s \in Slots : ~ Exists(s)
  ELSE file.open

Begin(t, o, op, part) ==
  /\ MayCall(t, o) /\ MayUse(o, op)
  /\ object' = [object EXCEPT ![o].refs = @ + 1]
  /\ call' = [u \in Threads |->
                IF u = t THEN [NoCall EXCEPT !.op = op, !.on = o, !.part = part, !.stage = "library",
                                             !.alone = Others(t) = {}]
                ELSE IF Busy(u) THEN [call[u] EXCEPT !.alone = FALSE] ELSE call[u]]
  /\ history' = Noted(t, o, op)

Unchanged == UNCHANGED <<held, file, medium>>

\* get_table, get_column, get_record, get_value_data_as_long_value, ...
GetPart(t, o, part) ==
  ~ IsSequence(o) /\ part \in Asked \cap Parts[object[o].class] /\ Begin(t, o, "part", part) /\ Unchanged

\* tables, columns, records: the number of items is asked for, then the sequence is made.
GetSequence(t, o, part) ==
  /\ object[o].class \in DOMAIN SequencesOf /\ part \in Asked \cap SequencesOf[object[o].class]
  /\ Cardinality({s \in Slots : IsSequence(s)}) + Cardinality({u \in Threads : call[u].op = "sequence"}) < MaxSequences
  /\ Begin(t, o, "sequence", part) /\ Unchanged

\* get_name, get_value_data and the other methods that return no object
GetValue(t, o) == ~ IsSequence(o) /\ Begin(t, o, "value", "none") /\ Unchanged

GetItem(t, o) ==
  IsSequence(o) /\ Items > 0 /\ Begin(t, o, "item", SequenceItem[object[o].class]) /\ Unchanged

\* The index moves on when the item is there.
IterNext(t, o) ==
  /\ IsSequence(o) /\ object[o].index < Items
  /\ Begin(t, o, "next", SequenceItem[object[o].class])
  /\ Unchanged

\* A sequence is its own iterator.
Iter(t, o) ==
  /\ MayCall(t, o) /\ IsSequence(o) /\ held[o] < MaxHeld
  /\ object' = [object EXCEPT ![o].refs = @ + 1]
  /\ held' = [held EXCEPT ![o] = @ + 1]
  /\ UNCHANGED <<call, file, medium, history>>

-----------------------------------------------------------------------------
(***************************************************************************)
(* Opening and closing the file.                                           *)
(***************************************************************************)
Open(t) == Begin(t, File, "open", "none") /\ Unchanged

\* A handle keeps the file object.
OpenFileObject(t) ==
  /\ ~ file.handle
  /\ Begin(t, File, "open file object", "none")
  /\ file' = [file EXCEPT !.handle = TRUE]
  /\ medium' = [medium EXCEPT !.refs = @ + 1]
  /\ UNCHANGED held

\* With a handle that is set already the call fails, and on_error frees this handle.
OpenFileObjectAgain(t) ==
  /\ MayCall(t, File) /\ file.handle
  /\ file' = [file EXCEPT !.handle = FALSE]
  /\ medium' = [medium EXCEPT !.refs = @ - 1]
  /\ history' = [Noted(t, File, "open file object") EXCEPT !.disturbed = TRUE]
  /\ UNCHANGED <<object, held, call>>

Close(t) == Begin(t, File, "close", "none") /\ Unchanged

-----------------------------------------------------------------------------
(***************************************************************************)
(* In the library, without the lock.                                       *)
(***************************************************************************)
Opens == {"open", "open file object"}
InLibrary(t) == call[t].stage = "library" /\ call[t].op # "free"
ThroughHandle(t) == call[t].op \in Reads /\ file.using = "handle"

\* The two callbacks of a read: libbfio seeks, then it reads.
Seek(t) ==
  /\ InLibrary(t) /\ ThroughHandle(t)
  /\ \E offset \in Offsets :
       /\ medium' = [medium EXCEPT !.offset = offset]
       /\ call' = [call EXCEPT ![t].stage = "seek", ![t].offset = offset]
  /\ UNCHANGED <<object, held, file, history>>

Read(t) ==
  /\ call[t].stage = "seek"
  /\ call' = [call EXCEPT ![t].stage = "read", ![t].found = medium.offset]
  /\ medium' = [medium EXCEPT !.offset = 0]
  /\ UNCHANGED <<object, held, file, history>>

\* How the library leaves the file behind; a call that fails leaves it as it is.
LibraryOpen(op) == [file EXCEPT !.open = TRUE, !.using = IF op = "open" THEN "own" ELSE "handle"]
LibraryClosed == [file EXCEPT !.open = FALSE, !.using = "none"]

LeaveLibrary(t, stage) == call' = [call EXCEPT ![t].stage = stage, ![t].offset = 0, ![t].found = 0]
ReadyToLeave(t) == InLibrary(t) \/ call[t].stage = "read"

LibraryOpens(t) ==
  /\ ReadyToLeave(t) /\ call[t].op \in Opens /\ ~ file.open
  /\ file' = LibraryOpen(call[t].op)
  /\ LeaveLibrary(t, "done")
  /\ history' = [history EXCEPT !.closed = FALSE]
  /\ UNCHANGED <<object, held, medium>>

LibraryCloses(t) ==
  /\ ReadyToLeave(t) /\ call[t].op = "close" /\ file.open
  /\ file' = LibraryClosed
  /\ LeaveLibrary(t, "done")
  /\ history' = [history EXCEPT !.closed = TRUE, !.disturbed = Others(t) # {}]
  /\ UNCHANGED <<object, held, medium>>

FreeSlots == {s \in Slots : ~ Exists(s)}

\* The library object of a part is there before the Python object is.
LibraryMakes(t) ==
  /\ ReadyToLeave(t) /\ call[t].op \in {"part", "item", "next"}
  /\ file.open /\ FreeSlots # {}
  /\ LET s == Min(FreeSlots) IN
     /\ object' = [object EXCEPT ![s] = [NoObject EXCEPT !.class = call[t].part, !.library = TRUE,
                                                        !.parent = Target(call[t].on)]]
     /\ call' = [call EXCEPT ![t].stage = "done", ![t].slot = s, ![t].offset = 0,
                             ![t].found = IF call[t].op = "next" THEN object[call[t].on].index ELSE 0]
  /\ UNCHANGED <<held, file, medium, history>>

LibraryAnswers(t) ==
  /\ ReadyToLeave(t) /\ call[t].op \in {"value", "sequence"}
  /\ file.open
  /\ LeaveLibrary(t, "done")
  /\ UNCHANGED <<object, held, file, medium, history>>

\* A close of an open file does not: the callback of a file object has nothing to close.
LibraryFails(t) ==
  /\ ReadyToLeave(t)
  /\ call[t].op = "close" => ~ file.open
  /\ LeaveLibrary(t, "failed")
  /\ UNCHANGED <<object, held, file, medium, history>>

-----------------------------------------------------------------------------
(***************************************************************************)
(* Freeing.  A reference count of 0 calls the free function of the class:  *)
(* the library object goes first, then the reference to the parent.        *)
(***************************************************************************)
Freeing(o) == [NoCall EXCEPT !.op = "free", !.on = o, !.stage = "library"]
AfterRelease(refs, o) == IF refs = 0 THEN Freeing(o) ELSE NoCall

\* The program lets go of a reference.
Drop(t, o) ==
  /\ MayCall(t, o)
  /\ held' = [held EXCEPT ![o] = @ - 1]
  /\ object' = [object EXCEPT ![o].refs = @ - 1]
  /\ call' = [call EXCEPT ![t] = AfterRelease(object[o].refs - 1, o)]
  /\ UNCHANGED <<file, medium, history>>

FreesPart(t) == call[t].op = "free" /\ call[t].on # File
FreesFile(t) == call[t].op = "free" /\ call[t].on = File

\* Mutant: the reference to the parent goes before the library object.
ReleaseParentFirst(t) ==
  /\ FreesPart(t) /\ call[t].stage = "library"
  /\ LET o == call[t].on
         parent == object[o].parent
     IN  /\ object' = [object EXCEPT ![o].refs = -1, ![parent].refs = @ - 1]
         /\ call' = [call EXCEPT ![t] = AfterRelease(object[parent].refs - 1, parent)]
  /\ UNCHANGED <<held, file, medium, history>>

\* libesedb_table_free, ..., without the lock; a sequence has no library object.
FreeLibrary(t) ==
  /\ FreesPart(t) /\ call[t].stage = "library"
  /\ object' = [object EXCEPT ![call[t].on].library = FALSE]
  /\ LeaveLibrary(t, "done")
  /\ UNCHANGED <<held, file, medium, history>>

\* The reference to the parent and the memory of the object.
ReleaseParent(t) ==
  /\ FreesPart(t) /\ call[t].stage = "done"
  /\ LET o == call[t].on
         parent == object[o].parent
     IN  /\ object' = [object EXCEPT ![o] = NoObject, ![parent].refs = @ - 1]
         /\ call' = [call EXCEPT ![t] = AfterRelease(object[parent].refs - 1, parent)]
         /\ history' = [history EXCEPT !.shared = @ \ {o}, !.given[o] = <<>>]
  /\ UNCHANGED <<held, file, medium>>

\* pyesedb_file_free: with a handle the file is closed first, and an error of that ends it.
FreeFile(t) ==
  /\ FreesFile(t) /\ call[t].stage = "library"
  /\ IF ~ file.handle
     THEN /\ object' = [object EXCEPT ![File] = NoObject]
          /\ call' = [call EXCEPT ![t] = NoCall]
     ELSE /\ call' = [call EXCEPT ![t] = IF file.open THEN [@ EXCEPT !.stage = "handle"] ELSE NoCall]
          /\ UNCHANGED object
  /\ file' = LibraryClosed
  /\ UNCHANGED <<held, medium, history>>

\* libbfio_handle_free of a close; its callback lets go of the file object.
FreeHandle(t) ==
  /\ call[t].stage = "handle"
  /\ file' = [file EXCEPT !.handle = FALSE]
  /\ medium' = IF file.handle THEN [medium EXCEPT !.refs = @ - 1] ELSE medium
  /\ LeaveLibrary(t, IF FreesFile(t) THEN "library" ELSE "freed")
  /\ UNCHANGED <<object, held, history>>

-----------------------------------------------------------------------------
(***************************************************************************)
(* With the lock again: the answer, and the reference to the object that   *)
(* the method was called on.                                               *)
(***************************************************************************)
\* Mutant: there is no way back from freeing the handle.
AnsweredUnlessFreed(t) == call[t].stage \in {"done", "failed"} /\ call[t].op # "free"

Answered(t) == call[t].stage \in {"done", "failed", "freed"} /\ call[t].op # "free"

\* Mutant: the index of the iterator moves on also without an item.
ReturnMovesOn(t, objects) ==
  LET o == call[t].on IN
  /\ object' = [objects EXCEPT ![o].refs = @ - 1,
                               ![o].index = IF call[t].op = "next" /\ call[t].slot = File THEN @ + 1 ELSE @]
  /\ call' = [call EXCEPT ![t] = AfterRelease(objects[o].refs - 1, o)]

Return(t, objects) ==
  LET o == call[t].on IN
  /\ object' = [objects EXCEPT ![o].refs = @ - 1]
  /\ call' = [call EXCEPT ![t] = AfterRelease(objects[o].refs - 1, o)]

\* pyesedb_table_new, ...: the object keeps its parent.
Wrapped(slot) == [object EXCEPT ![slot].refs = 1, ![object[slot].parent].refs = @ + 1]

Gave(t) ==
  IF call[t].op = "next" /\ call[t].on \notin history.shared
  THEN [history EXCEPT !.given[call[t].on] = Append(@, call[t].found)]
  ELSE history

ReturnPart(t) ==
  /\ Answered(t) /\ call[t].stage = "done" /\ call[t].slot # File
  /\ LET wrapped == Wrapped(call[t].slot) IN
     Return(t, IF call[t].op = "next" THEN [wrapped EXCEPT ![call[t].on].index = @ + 1] ELSE wrapped)
  /\ held' = [held EXCEPT ![call[t].slot] = 1]
  /\ history' = Gave(t)
  /\ UNCHANGED <<file, medium>>

\* Without memory for the Python object the library object is freed again.
ReturnNoMemory(t) ==
  /\ Answered(t) /\ call[t].slot # File
  /\ Return(t, [object EXCEPT ![call[t].slot] = NoObject])
  /\ UNCHANGED <<held, file, medium, history>>

ReturnSequence(t) ==
  /\ Answered(t) /\ call[t].op = "sequence" /\ call[t].stage = "done" /\ FreeSlots # {}
  /\ LET s == Min(FreeSlots) IN
     /\ Return(t, [object EXCEPT ![s] = [NoObject EXCEPT !.class = call[t].part, !.refs = 1,
                                                        !.parent = call[t].on],
                                 ![call[t].on].refs = @ + 1])
     /\ held' = [held EXCEPT ![s] = 1]
  /\ UNCHANGED <<file, medium, history>>

\* Mutant: a handle is freed when any of the two open calls fails.
ReturnAnyOpenFails(t) ==
  /\ Answered(t) /\ call[t].op \in Opens /\ call[t].stage = "failed"
  /\ Return(t, object)
  /\ IF ~ file.handle THEN UNCHANGED <<file, medium>>
     ELSE /\ file' = [file EXCEPT !.handle = FALSE]
          /\ medium' = [medium EXCEPT !.refs = @ - 1]
  /\ UNCHANGED <<held, history>>

\* A handle that the library did not open is freed.
ReturnOpenFails(t) ==
  /\ Answered(t) /\ call[t].op = "open file object" /\ call[t].stage = "failed"
  /\ Return(t, object)
  /\ IF ~ file.handle THEN UNCHANGED <<file, medium>>
     ELSE /\ file' = [file EXCEPT !.handle = FALSE]
          /\ medium' = [medium EXCEPT !.refs = @ - 1]
  /\ UNCHANGED <<held, history>>

\* A close goes on to the handle.
ReturnCloseWithHandle(t) ==
  /\ call[t].op = "close" /\ call[t].stage = "done" /\ file.handle
  /\ LeaveLibrary(t, "handle")
  /\ UNCHANGED <<object, held, file, medium, history>>

ReturnNone(t) ==
  /\ Answered(t) /\ call[t].slot = File
  /\ ~ (call[t].op = "open file object" /\ call[t].stage = "failed")
  /\ ~ (call[t].op = "close" /\ call[t].stage = "done" /\ file.handle)
  /\ call[t].op = "sequence" => call[t].stage = "failed" \/ FreeSlots = {}
  /\ Return(t, object)
  /\ UNCHANGED <<held, file, medium, history>>

-----------------------------------------------------------------------------
Call(t) ==
  \/ t \in Openers /\ (Open(t) \/ OpenFileObject(t) \/ OpenFileObjectAgain(t) \/ Close(t))
  \/ \E o \in Objects :
       \/ Exists(o) /\ \E part \in {"table", "column", "record", "longvalue"} : GetPart(t, o, part)
       \/ \E part \in Sequences : GetSequence(t, o, part)
       \/ GetValue(t, o) \/ GetItem(t, o) \/ IterNext(t, o) \/ Iter(t, o) \/ Drop(t, o)

InTheLibrary(t) ==
  \/ Seek(t) \/ Read(t)
  \/ LibraryOpens(t) \/ LibraryCloses(t) \/ LibraryMakes(t) \/ LibraryAnswers(t) \/ LibraryFails(t)

Frees(t) == FreeLibrary(t) \/ ReleaseParent(t) \/ FreeFile(t) \/ FreeHandle(t)

Returns(t) ==
  \/ ReturnPart(t) \/ ReturnNoMemory(t) \/ ReturnSequence(t) \/ ReturnOpenFails(t)
  \/ ReturnCloseWithHandle(t) \/ ReturnNone(t)

Go(t) == Busy(t) /\ (InTheLibrary(t) \/ Frees(t) \/ Returns(t))

Next == \E t \in Threads : Call(t) \/ Go(t)

\* The library and the interpreter go on with a call that was begun.
Spec == Init /\ [][Next]_vars /\ \A t \in Threads : WF_vars(Go(t))

-----------------------------------------------------------------------------
Classes == {"none", "file", "table", "column", "record", "longvalue"} \cup Sequences

TypeOK ==
  /\ \A o \in Objects :
       /\ object[o].class \in Classes /\ object[o].parent \in Objects
       /\ object[o].refs \in Nat /\ object[o].library \in BOOLEAN
       /\ object[o].index \in 0 .. Items + Cardinality(Threads) - 1
       /\ held[o] \in 0 .. MaxHeld
  /\ file.open \in BOOLEAN /\ file.handle \in BOOLEAN /\ file.using \in {"none", "own", "handle"}
  /\ medium.refs \in 1 .. 2 /\ medium.offset \in {0} \cup Offsets

Calling(o) == {t \in Threads : Busy(t) /\ call[t].op # "free" /\ call[t].on = o}
InFree(o) == \E t \in Threads : call[t].op = "free" /\ call[t].on = o
Unwrapped(o) == o # File /\ \E t \in Threads : Busy(t) /\ call[t].slot = o
Children(o) == {c \in Slots : Exists(c) /\ ~ Unwrapped(c) /\ object[c].parent = o}

\* The reference count of an object is the number of the program's references, of the objects that
\* have it for a parent and of the calls on it, whichever way threads and failures interleave
\* (pyesedb_*_new, pyesedb_*_free and the paths of errors).
RefsAreExact ==
  \A o \in Objects :
    Exists(o) /\ ~ InFree(o) /\ ~ Unwrapped(o) =>
      object[o].refs = held[o] + Cardinality(Children(o)) + Cardinality(Calling(o))

\* What the program holds is there: no object is freed while there are references to it.
HeldObjectsExist == \A o \in Objects : held[o] > 0 => Exists(o) /\ ~ InFree(o)

\* A library object is freed before the one that it was got from, the file is not closed under the
\* objects unless the program closed it, and calls in the library have the object that they use.
LibraryObjectsHaveTheirParent ==
  /\ \A c \in Slots : object[c].library =>
       object[object[c].parent].library /\ (file.open \/ history.closed)
  /\ \A t \in Threads : InLibrary(t) => object[Target(call[t].on)].library

\* An iterator that one thread uses at a time gives every item once and in order, also when
\* calls fail and other threads use other objects (pyesedb_records_iternext).
ItemsInOrder ==
  \A o \in Slots :
    IsSequence(o) /\ o \notin history.shared =>
      history.given[o] = [i \in 1 .. object[o].index |-> i - 1]

\* The library reads where it meant to, unless two threads are in calls on the file at once: the
\* seek and the read are two callbacks (pyesedb_file_object_io_handle_seek_offset, _read).
ReadsAtItsOffset ==
  \A t \in Threads : call[t].stage = "read" /\ call[t].alone => call[t].found = call[t].offset

\* The IO handle is there as long as the library reads through it, unless open_file_object was
\* called with a handle set or two threads were in calls at once (pyesedb_file_open_file_object).
HandleOutlivesItsUse ==
  file.open /\ file.using = "handle" /\ ~ history.disturbed => file.handle

\* The Python file object is kept exactly as long as there is a handle for it
\* (pyesedb_file_object_initialize, pyesedb_file_object_io_handle_free).
FileObjectIsKept == medium.refs = 1 + (IF file.handle THEN 1 ELSE 0)

(* The IO handle and the Python file object under it stay while the library*)
(* reads through them, and a read is at the offset it was asked for        *)
(* (pyesedb_file_open_file_object, pyesedb_file_object_io_handle_read).    *)
HandleIsKept == HandleOutlivesItsUse /\ FileObjectIsKept /\ ReadsAtItsOffset

\* Between calls everything is gone that the program holds nothing of, the file too: no failure and
\* no order of dropping leaves an object, a library object or the Python file object behind.
NothingIsLeft ==
  (\A t \in Threads : ~ Busy(t)) /\ (\A o \in Objects : held[o] = 0) =>
    (\A o \in Objects : ~ Exists(o)) /\ ~ file.open /\ medium.refs = 1

(* Objects live as long as something refers to them and no longer, whatever*)
(* the order in which they are let go (pyesedb_record_free and the like).  *)
ReferencesAreSound ==
  /\ TypeOK
  /\ RefsAreExact
  /\ HeldObjectsExist
  /\ LibraryObjectsHaveTheirParent
  /\ NothingIsLeft

\* Every call and every free ends: a thread that is in one is out of it again.
CallsEnd == \A t \in Threads : []<> ~ Busy(t)
=============================================================================
